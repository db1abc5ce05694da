----------------------------- MODULE StabSearch -----------------------------
(***************************************************************************)
(* stab_binsearch of kern/kdebug.c: a binary search for the stab of one    *)
(* type whose region contains an address, in a table where stabs of many   *)
(* types are mixed and only those of one type are in order of address.     *)
(*                                                                         *)
(* A behaviour is one call.  An action is one iteration of the outer loop  *)
(* (kdebug.c:56-82), by the branch it takes, or the code after the loop.   *)
(***************************************************************************)
EXTENDS Integers

CONSTANTS
  NStabs,      \* entries in the table
  Types,       \* values of n_type
  AddrSpace,   \* addresses are 0 .. AddrSpace - 1, 2^32 on the machine
  Tables       \* the tables to search

Index == 0 .. NStabs - 1
Addr == 0 .. AddrSpace - 1

ASSUME SizeAssumption == NStabs \in Nat \ {0} /\ AddrSpace \in Nat \ {0}
ASSUME TablesAssumption ==
         Tables \subseteq [Index -> [n_type : Types, n_value : Addr]]

VARIABLES
  stabs, type, from, to, target,   \* the arguments, as they were passed
  region_left, region_right,       \* the two results, updated in place
  l, r, addr, any_matches,         \* the local variables
  pc                               \* "loop" or "done"

args == <<stabs, type, from, to, target>>
vars == <<args, region_left, region_right, l, r, addr, any_matches, pc>>

Matches(i) == stabs[i].n_type = type
Value(i) == stabs[i].n_value

(* "Some stab types are arranged in increasing order by instruction        *)
(* address": the search is for such a type.                                *)
Sorted ==
  \A i, k \in from .. to :
    i < k /\ Matches(i) /\ Matches(k) => Value(i) <= Value(k)

Init ==
  /\ stabs \in Tables
  /\ type \in Types
  /\ from \in Index /\ to \in Index /\ from <= to
  /\ target \in Addr
  /\ Sorted
  /\ region_left = from /\ region_right = to
  /\ l = from /\ r = to
  /\ addr = target
  /\ any_matches = FALSE
  /\ pc = "loop"

-----------------------------------------------------------------------------

true_m == (l + r) \div 2

(* The inner loop: m is the last matching stab of [l, true_m].             *)
Candidate(m) ==
  /\ m \in l .. true_m
  /\ Matches(m)
  /\ \A k \in m + 1 .. true_m : ~Matches(k)

Looping == pc = "loop" /\ l <= r

(* Mutant: the empty half is left by one too many.                         *)
NoMatchTooFar ==
  /\ Looping
  /\ \A k \in l .. true_m : ~Matches(k)
  /\ l' = true_m + 2
  /\ UNCHANGED <<args, region_left, region_right, r, addr, any_matches, pc>>

NoMatch ==
  /\ Looping
  /\ \A k \in l .. true_m : ~Matches(k)
  /\ l' = true_m + 1
  /\ UNCHANGED <<args, region_left, region_right, r, addr, any_matches, pc>>

(* Mutant: that there was a match is not recorded.                         *)
BelowForgetsMatch(m) ==
  /\ Looping /\ Candidate(m)
  /\ Value(m) < addr
  /\ region_left' = m
  /\ l' = true_m + 1
  /\ UNCHANGED <<args, region_right, r, addr, any_matches, pc>>

Below(m) ==
  /\ Looping /\ Candidate(m)
  /\ Value(m) < addr
  /\ any_matches' = TRUE
  /\ region_left' = m
  /\ l' = true_m + 1
  /\ UNCHANGED <<args, region_right, r, addr, pc>>

(* Mutant: the end of the region is off by one.                            *)
AboveInclusive(m) ==
  /\ Looping /\ Candidate(m)
  /\ Value(m) > addr
  /\ any_matches' = TRUE
  /\ region_right' = m
  /\ r' = m - 1
  /\ UNCHANGED <<args, region_left, l, addr, pc>>

Above(m) ==
  /\ Looping /\ Candidate(m)
  /\ Value(m) > addr
  /\ any_matches' = TRUE
  /\ region_right' = m - 1
  /\ r' = m - 1
  /\ UNCHANGED <<args, region_left, l, addr, pc>>

(* Mutant: the search goes on for the same address.                        *)
ExactStays(m) ==
  /\ Looping /\ Candidate(m)
  /\ Value(m) = addr
  /\ any_matches' = TRUE
  /\ region_left' = m
  /\ l' = m
  /\ UNCHANGED <<args, region_right, r, addr, pc>>

Exact(m) ==
  /\ Looping /\ Candidate(m)
  /\ Value(m) = addr
  /\ any_matches' = TRUE
  /\ region_left' = m
  /\ l' = m
  /\ addr' = (addr + 1) % AddrSpace
  /\ UNCHANGED <<args, region_right, r, pc>>

(* The last loop: from region_right down to a matching stab, at most to    *)
(* region_left.                                                            *)
Rightmost(k) ==
  IF region_right <= region_left THEN k = region_right
  ELSE /\ k \in region_left .. region_right
       /\ k = region_left \/ Matches(k)
       /\ \A j \in k + 1 .. region_right : ~Matches(j)

Finish(k) ==
  /\ pc = "loop" /\ l > r
  /\ IF any_matches
       THEN /\ Rightmost(k)
            /\ region_left' = k
            /\ UNCHANGED region_right
       ELSE /\ k = region_left
            /\ region_right' = region_left - 1
            /\ UNCHANGED region_left
  /\ pc' = "done"
  /\ UNCHANGED <<args, l, r, addr, any_matches>>

Next ==
  \/ NoMatch
  \/ \E m \in Index : Below(m) \/ Above(m) \/ Exact(m)
  \/ \E k \in Index \union {-1} : Finish(k)

Spec == Init /\ [][Next]_vars

(* A call runs to its end.                                                 *)
FairSpec == Spec /\ WF_vars(Next)

-----------------------------------------------------------------------------

(* Types, and the range of every index the search uses: no stab outside    *)
(* [from, to] is ever read.                                                *)
TypeOK ==
  /\ stabs \in Tables /\ type \in Types
  /\ from \in Index /\ to \in Index /\ from <= to
  /\ target \in Addr /\ addr \in Addr
  /\ region_left \in from - 1 .. to
  /\ pc = "loop" => region_left >= from
  /\ region_right \in from - 1 .. to
  /\ l \in from .. to + 1 /\ r \in from - 1 .. to /\ l <= r + 1
  /\ any_matches \in BOOLEAN
  /\ pc \in {"loop", "done"}

(* Stab i is the one whose region contains the address: the last matching  *)
(* stab that does not start after it.                                      *)
Contains(i) ==
  /\ i \in from .. to /\ Matches(i) /\ Value(i) <= target
  /\ \A k \in i + 1 .. to : Matches(k) => Value(k) > target

(* The region of the answer ends where the next matching stab begins.      *)
EndsBeforeNext(i, e) ==
  /\ e \in i .. to
  /\ \A k \in i + 1 .. e : ~Matches(k)
  /\ e < to => Matches(e + 1)

(* After an exact match the search looks on with addr + 1 (kdebug.c:75-81) *)
(* and takes a stab that starts there for exact too, and so on: a stab     *)
(* that is reached from the address over stabs one byte apart may be the   *)
(* answer in place of the one that contains the address.                   *)
Run(b) ==
  \A c \in target .. b - 1 : \E i \in from .. to : Matches(i) /\ Value(i) = c

Answer(i) ==
  /\ i \in from .. to /\ Matches(i) /\ Run(Value(i))
  /\ \A k \in i + 1 .. to : Matches(k) => Value(k) > target

(* No matching stab starts at the last address, so addr++ does not wrap.   *)
InsideSpace ==
  \A i \in from .. to : Matches(i) => Value(i) + 1 \in Addr

(* The contract that holds: if some matching stab contains the address,    *)
(* the search ends with that stab, or with one that a run of regions of    *)
(* one byte leads to from the address, and with the end of its region      *)
(* (kdebug.c:31-33).  The comment promises more, "the single stab entry"   *)
(* that contains it (kdebug.c:21-22).                                      *)
FindsContaining ==
  pc = "done" /\ (\E i \in from .. to : Contains(i)) /\ InsideSpace
    => Answer(region_left) /\ EndsBeforeNext(region_left, region_right)

(* An answer with region_left > region_right is never wrong: no stab of    *)
(* the type contains the address (kdebug.c:34-35).                         *)
NotFoundIsSound ==
  pc = "done" /\ region_left > region_right
    => \A i \in from .. to : ~Contains(i)

(* Every call returns, although an exact match does not shrink [l, r].     *)
Terminates == <>(pc = "done")
=============================================================================
