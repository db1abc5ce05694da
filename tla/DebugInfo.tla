----------------------------- MODULE DebugInfo -----------------------------
(***************************************************************************)
(* debuginfo_eip of kern/kdebug.c: which function, source file and line an *)
(* instruction address belongs to.  It runs stab_binsearch (StabSearch)    *)
(* three times on one table, for the file, the function and the line, each *)
(* time within the region the search before it left.                       *)
(*                                                                         *)
(* A behaviour is one call.  What a name or a line number is does not      *)
(* matter here, only from which stab it is taken: `info` holds indices.    *)
(***************************************************************************)
EXTENDS Integers, FiniteSets

CONSTANTS
  NStabs, AddrSpace,
  Tables,      \* the tables a linker may put into the kernel
  ULIM         \* kernel addresses start here

Index == 0 .. NStabs - 1
Addr == 0 .. AddrSpace - 1
(* "LSYM" stands for every type the code never asks for: local, global and *)
(* static variables, register variables, blocks, options, types.           *)
Types == {"UNDF", "SO", "SOL", "FUN", "PSYM", "SLINE", "LSYM"}
Unknown == -1  \* "<unknown>", or line 0

(* A kernel has the header stab and those of a file at least, and the      *)
(* kernel's addresses do not begin at 0.                                   *)
ASSUME SizeAssumption ==
  NStabs \in Nat /\ NStabs > 1 /\ AddrSpace \in Nat \ {0} /\ ULIM \in Addr \ {0}

VARIABLES
  stabs, type, from, to, target, region_left, region_right,
  l, r, addr, any_matches, pc,   \* the current search, see StabSearch
  eip,                           \* the address asked for
  strings_ok,                    \* whether the string table passes its check
  phase,                         \* which search runs: "file", "fun", "line";
                                 \* "start" before, "return" after them
  lfile, rfile, lfun, rfun,      \* results of the first two searches
  info, result

search == <<type, from, to, target, region_left, region_right,
            l, r, addr, any_matches, pc>>
regions == <<lfile, rfile, lfun, rfun>>
vars == <<stabs, search, eip, strings_ok, phase, regions, info, result>>

S == INSTANCE StabSearch

-----------------------------------------------------------------------------
(* The table as compiler and assembler write it.                           *)

IsLast(ty, i, T, k) ==     \* k is the last stab before i of a type in T
  /\ k < i /\ ty[k] \in T
  /\ \A j \in k + 1 .. i - 1 : ty[j] \notin T

HasFun(ty, f) ==           \* the file that starts at stab f has functions
  \E i \in Index : ty[i] = "FUN" /\ IsLast(ty, i, {"SO"}, f)

At(ty, T) == {i \in Index : ty[i] = T}

(* The order of the types: a header, then files; a function, its           *)
(* parameters directly behind it, and then its lines; lines of their own   *)
(* in a file without functions.  Other stabs may stand anywhere else.      *)
Layout(ty) ==
  /\ At(ty, "UNDF") = {0}
  /\ ty[1] = "SO"
  /\ \A i \in At(ty, "PSYM") : ty[i - 1] \in {"FUN", "PSYM"}
  /\ \A i \in At(ty, "FUN") :
       \E k \in At(ty, "SLINE") : IsLast(ty, k, {"FUN", "SO"}, i)
  /\ \A i \in At(ty, "SLINE"), f \in At(ty, "SO") :
       IsLast(ty, i, {"FUN", "SO"}, f) => ~HasFun(ty, f)

(* The values: files and functions in order of address, each function in   *)
(* its file; lines in order, those of a function counted from where it     *)
(* starts, the first one there, those of a file without functions by       *)
(* address, somewhere behind the file's own (entry.S puts a header first). *)
(* Nothing starts at the last byte of the address space.                   *)
Placed(ty, v) ==
  /\ \A i \in At(ty, "SO") : v[i] >= ULIM
  /\ \A i, k \in At(ty, "SO") : i < k => v[i] <= v[k]
  /\ \A i, k \in At(ty, "FUN") : i < k => v[i] < v[k]
  /\ \A i \in At(ty, "FUN"), f \in At(ty, "SO") : f < i <=> v[f] <= v[i]
  /\ \A i \in At(ty, "SLINE"), b \in At(ty, "FUN") \union At(ty, "SO") :
       IsLast(ty, i, {"FUN", "SO"}, b) =>
         LET before == { k \in At(ty, "SLINE") : b < k /\ k < i }
         IN IF before # {} THEN \A k \in before : v[k] <= v[i]
            ELSE IF ty[b] = "FUN" THEN v[i] = 0 ELSE v[i] >= v[b]
  /\ \A T \in {"SO", "FUN", "SLINE"} : \A i \in At(ty, T) : v[i] + 1 \in Addr

TypesOf(t) == [i \in Index |-> t[i].n_type]
ValuesOf(t) == [i \in Index |-> t[i].n_value]

AsEmitted(t) == Layout(TypesOf(t)) /\ Placed(TypesOf(t), ValuesOf(t))

ASSUME TablesAssumption ==
  \A t \in Tables : t \in [Index -> [n_type : Types, n_value : Addr]] /\ AsEmitted(t)

-----------------------------------------------------------------------------

Init ==
  /\ stabs \in Tables
  /\ eip \in Addr
  /\ strings_ok \in BOOLEAN
  /\ phase = "start"
  /\ type = "SO" /\ from = 0 /\ to = NStabs - 1 /\ target = eip
  /\ region_left = from /\ region_right = to /\ l = from /\ r = to
  /\ addr = eip /\ any_matches = FALSE /\ pc = "done"
  /\ lfile = 0 /\ rfile = 0 /\ lfun = 0 /\ rfun = 0
  /\ info = [fn |-> Unknown, fn_addr |-> eip, line |-> Unknown,
             file |-> Unknown, narg |-> 0]
  /\ result = "none"

(* A call of stab_binsearch(stabs, &left, &right, t, a).                   *)
Search(t, left, right, a) ==
  /\ type' = t /\ from' = left /\ to' = right /\ target' = a
  /\ region_left' = left /\ region_right' = right
  /\ l' = left /\ r' = right /\ addr' = a
  /\ any_matches' = FALSE
  /\ pc' = "loop"

Return(res) ==
  /\ phase' = "return"
  /\ result' = res
  /\ UNCHANGED search

Start ==
  /\ phase = "start"
  /\ IF eip < ULIM THEN Return("panic")
     ELSE IF ~strings_ok THEN Return("fail")
     ELSE /\ phase' = "file"
          /\ Search("SO", 0, NStabs - 1, eip)
          /\ UNCHANGED result
  /\ UNCHANGED <<stabs, eip, strings_ok, regions, info>>

SearchStep ==
  /\ S!Next
  /\ UNCHANGED <<eip, strings_ok, phase, regions, info, result>>

Returned(p) == phase = p /\ pc = "done"

(* Mutant: the region found is not used, the whole table is searched.      *)
FileDoneWhole ==
  /\ Returned("file")
  /\ lfile' = region_left /\ rfile' = region_right
  /\ IF lfile' = 0 THEN Return("fail")
     ELSE /\ phase' = "fun"
          /\ Search("FUN", lfile', NStabs - 1, eip)
          /\ UNCHANGED result
  /\ UNCHANGED <<stabs, eip, strings_ok, lfun, rfun, info>>

(* Mutant: off by one, the first file counts as none.                      *)
FileDoneFirst ==
  /\ Returned("file")
  /\ lfile' = region_left /\ rfile' = region_right
  /\ IF lfile' <= 1 THEN Return("fail")
     ELSE /\ phase' = "fun"
          /\ Search("FUN", lfile', rfile', eip)
          /\ UNCHANGED result
  /\ UNCHANGED <<stabs, eip, strings_ok, lfun, rfun, info>>

FileDone ==
  /\ Returned("file")
  /\ lfile' = region_left /\ rfile' = region_right
  /\ IF lfile' = 0 THEN Return("fail")
     ELSE /\ phase' = "fun"
          /\ Search("FUN", lfile', rfile', eip)
          /\ UNCHANGED result
  /\ UNCHANGED <<stabs, eip, strings_ok, lfun, rfun, info>>

(* A name whose n_strx lies outside the string table stays unknown.        *)
NameOf(i) == {i, Unknown}

(* Mutant: whether a function was found is not asked.                      *)
FunDoneUnchecked ==
  /\ Returned("fun")
  /\ lfun' = region_left /\ rfun' = region_right
  /\ info' = [info EXCEPT !.fn_addr = stabs[lfun'].n_value]
  /\ Search("SLINE", lfun', rfun', (eip - info'.fn_addr) % AddrSpace)
  /\ phase' = "line"
  /\ UNCHANGED <<stabs, eip, strings_ok, lfile, rfile, result>>

FunDone ==
  /\ Returned("fun")
  /\ lfun' = region_left /\ rfun' = region_right
  /\ IF lfun' <= rfun'
       THEN /\ \E name \in NameOf(lfun') :
                 info' = [info EXCEPT !.fn = name, !.fn_addr = stabs[lfun'].n_value]
            /\ Search("SLINE", lfun', rfun', (eip - info'.fn_addr) % AddrSpace)
       ELSE /\ info' = [info EXCEPT !.fn_addr = eip]
            /\ Search("SLINE", lfile, rfile, eip)
  /\ phase' = "line"
  /\ UNCHANGED <<stabs, eip, strings_ok, lfile, rfile, result>>

(* Backwards from the line to the file it came from.                       *)
NamesFile(i) ==
  \/ stabs[i].n_type = "SOL"
  \/ stabs[i].n_type = "SO" /\ stabs[i].n_value # 0

(* Mutant: the file of the function, whatever was inlined.                 *)
FileNameOwn(lline) == NameOf(lfile)

FileName(lline) ==
  LET candidates == {k \in lfile .. lline : NamesFile(k)}
  IN IF candidates = {} THEN {Unknown}
     ELSE NameOf(CHOOSE k \in candidates : \A j \in candidates : j <= k)

(* Mutant: the function's own stab is counted.                             *)
ArgCountFromFun ==
  Cardinality({ k \in lfun .. rfun - 1 :
                  \A j \in lfun + 1 .. k : stabs[j].n_type = "PSYM" })

(* The parameters right behind the function.                               *)
ArgCount ==
  Cardinality({ k \in lfun + 1 .. rfun - 1 :
                  \A j \in lfun + 1 .. k : stabs[j].n_type = "PSYM" })

LineDone ==
  /\ Returned("line")
  /\ IF region_left > region_right
       THEN Return("fail") /\ UNCHANGED info
       ELSE /\ Return("ok")
            /\ \E file \in FileName(region_left) :
                 info' = [info EXCEPT !.line = region_right, !.file = file,
                                      !.narg = ArgCount]
  /\ UNCHANGED <<stabs, eip, strings_ok, regions>>

Next == Start \/ SearchStep \/ FileDone \/ FunDone \/ LineDone

Spec == Init /\ [][Next]_vars

-----------------------------------------------------------------------------

(* All three searches stay in the table, whatever the one before returned, *)
(* and so do the stabs read after them (kdebug.c:138-199).                 *)
TypeOK ==
  /\ stabs \in [Index -> [n_type : Types, n_value : Addr]]
  /\ from \in Index /\ to \in Index /\ from <= to
  /\ l \in from .. to + 1 /\ r \in from - 1 .. to
  /\ region_left \in Index /\ region_right \in from - 1 .. to
  /\ phase \in {"start", "file", "fun", "line", "return"}
  /\ lfile \in Index /\ rfile \in Index
  /\ lfun \in Index /\ rfun \in Index
  /\ info \in [fn : Index \union {Unknown}, fn_addr : Addr,
               line : Index \union {Unknown}, file : Index \union {Unknown},
               narg : 0 .. NStabs]
  /\ result \in {"none", "ok", "fail", "panic"}

(* What the table says, by definition: the last stab of type T within      *)
(* lo .. hi that starts at or before a, and the end of its region.         *)
Owner(T, lo, hi, a) ==
  { i \in lo .. hi : /\ stabs[i].n_type = T /\ stabs[i].n_value <= a
                     /\ \A k \in i + 1 .. hi :
                          stabs[k].n_type = T => stabs[k].n_value > a }

End(T, i, hi) ==
  CHOOSE e \in i .. hi : /\ \A k \in i + 1 .. e : stabs[k].n_type # T
                         /\ e < hi => stabs[e + 1].n_type = T

StartsAt(T, lo, hi, a) ==
  \E i \in lo .. hi : stabs[i].n_type = T /\ stabs[i].n_value = a

(* The searches for the file and the function answer with the owner except *)
(* in one case: the address is a region of its own, one byte long, and the *)
(* next one is taken (kdebug.c:80).  Nothing is said of the call then.     *)
OneByte(T, lo, hi, a) == StartsAt(T, lo, hi, a) /\ StartsAt(T, lo, hi, a + 1)

Single(T, lo, hi, a) ==
  IF OneByte(T, lo, hi, a) THEN {} ELSE Owner(T, lo, hi, a)

(* Lines of one byte are common (push %ebp, leave, ret): the search for    *)
(* the line answers with the line itself or, if its address starts a run   *)
(* of such lines, with one of those the run leads to.                      *)
Reached(T, lo, hi, a) ==
  { i \in lo .. hi : /\ stabs[i].n_type = T
                     /\ \A c \in a .. stabs[i].n_value - 1 : StartsAt(T, lo, hi, c)
                     /\ \A k \in i + 1 .. hi :
                          stabs[k].n_type = T => stabs[k].n_value > a }

Files == Single("SO", 0, NStabs - 1, eip)
FileEnd(f) == End("SO", f, NStabs - 1)
Funs(f) == Single("FUN", f, FileEnd(f), eip)
FunEnd(f, g) == End("FUN", g, FileEnd(f))
Lines(f, g) == Reached("SLINE", g, FunEnd(f, g), eip - stabs[g].n_value)

(* The function reported is the one that contains the address, and the     *)
(* address it starts at is that function's; in a file without functions    *)
(* none is invented (kdebug.c:145-166).                                    *)
RightFunction ==
  result = "ok" => \A f \in Files :
    /\ \A g \in Funs(f) :
         info.fn \in NameOf(g) /\ info.fn_addr = stabs[g].n_value
    /\ ~HasFun(TypesOf(stabs), f) => info.fn = Unknown /\ info.fn_addr = eip

(* There is a line s of the function, the line of the address or one that  *)
(* a run of one-byte lines leads to, with the file reported the one s was  *)
(* written in, an included file for inlined code, and the stab the line is *)
(* read from between s and the next line (kdebug.c:170-190).               *)
RightSource ==
  result = "ok" => \A f \in Files : \A g \in Funs(f) : \E s \in Lines(f, g) :
    /\ info.line \in s .. End("SLINE", s, FunEnd(f, g))
    /\ \A k \in f .. s : info.file = k => IsLast(TypesOf(stabs), s, {"SO", "SOL"}, k)
    /\ info.file \in {Unknown} \union (f .. s)

(* Every parameter stab of the function counts, and no other               *)
(* (kdebug.c:193-199).                                                     *)
CountsParameters ==
  result = "ok" => \A f \in Files : \A g \in Funs(f) :
    info.narg = Cardinality({ k \in g .. FunEnd(f, g) : stabs[k].n_type = "PSYM" })

(* The call fails only if the table has no function for the address        *)
(* (kdebug.c:99-102).                                                      *)
FailsOnlyIfAbsent ==
  result = "fail" /\ strings_ok => \A f \in Files : Funs(f) = {}

(* kdebug.c:172 says of the line "If found, set info->eip_line to the      *)
(* right line number": it is read from the stab of one of those lines.     *)
LineIsRight ==
  result = "ok" => \A f \in Files : \A g \in Funs(f) : info.line \in Lines(f, g)
=============================================================================
