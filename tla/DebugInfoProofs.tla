--------------------------- MODULE DebugInfoProofs ---------------------------
(***************************************************************************)
(* debuginfo_eip for tables of every size: no stab outside the table is    *)
(* read, and where the table knows the function of the address, the call   *)
(* finds that function, its parameters, and the file of the line.  What    *)
(* stab_binsearch does is taken from StabSearchProofs; what is added here  *)
(* is that each of the three calls is one its contract covers, in order,   *)
(* because the searches before it found the right region.                  *)
(***************************************************************************)
EXTENDS DebugInfo, FiniteSetTheorems, WellFoundedInduction, TLAPS

SP == INSTANCE StabSearchProofs

LEMMA SearchAssumptions ==
  /\ Tables \subseteq [SP!Index -> [n_type : Types, n_value : SP!Addr]]
  /\ NStabs \in Nat \ {0} /\ AddrSpace \in Nat \ {0}
  BY SizeAssumption, TablesAssumption DEF SP!Index, SP!Addr, Index, Addr

-----------------------------------------------------------------------------
(* What the table says of the stabs at given places.                       *)

LEMMA TableType ==
  ASSUME stabs \in Tables
  PROVE  /\ stabs \in [Index -> [n_type : Types, n_value : Addr]]
         /\ AsEmitted(stabs)
         /\ \A i \in Index : /\ i \in Int /\ stabs[i].n_type \in Types
                             /\ stabs[i].n_value \in Addr /\ stabs[i].n_value \in Int
                             /\ TypesOf(stabs)[i] = stabs[i].n_type
                             /\ ValuesOf(stabs)[i] = stabs[i].n_value
  <1>1. stabs \in [Index -> [n_type : Types, n_value : Addr]] /\ AsEmitted(stabs)
    BY TablesAssumption
  <1>2. \A i \in Index : stabs[i] \in [n_type : Types, n_value : Addr]
    BY <1>1
  <1>3. (\A i \in Index : i \in Int) /\ \A a \in Addr : a \in Int
    BY SizeAssumption DEF Index, Addr
  <1>4. QED
    BY <1>1, <1>2, <1>3 DEF TypesOf, ValuesOf

LEMMA TableFirst ==
  ASSUME stabs \in Tables
  PROVE  /\ 0 \in Index /\ 1 \in Index
         /\ stabs[0].n_type = "UNDF" /\ stabs[1].n_type = "SO"
  <1>1. 0 \in Index /\ 1 \in Index
    BY SizeAssumption DEF Index
  <1>2. Layout(TypesOf(stabs))
    BY TableType DEF AsEmitted
  <1>3. 0 \in At(TypesOf(stabs), "UNDF") /\ TypesOf(stabs)[1] = "SO"
    BY <1>2 DEF Layout
  <1>4. QED
    BY <1>1, <1>3, TableType DEF At

(* Stabs of one type that are in order of address.                         *)
LEMMA InOrder ==
  ASSUME stabs \in Tables, NEW T \in {"SO", "FUN"}, NEW i \in Index, NEW k \in Index,
         stabs[i].n_type = T, stabs[k].n_type = T, i < k
  PROVE  stabs[i].n_value <= stabs[k].n_value
  <1>1. Placed(TypesOf(stabs), ValuesOf(stabs))
    BY TableType DEF AsEmitted
  <1>2. i \in At(TypesOf(stabs), T) /\ k \in At(TypesOf(stabs), T)
    BY TableType DEF At
  <1>3. \/ ValuesOf(stabs)[i] <= ValuesOf(stabs)[k]
        \/ ValuesOf(stabs)[i] < ValuesOf(stabs)[k]
    BY <1>1, <1>2 DEF Placed
  <1>4. QED
    BY <1>3, TableType

LEMMA Inside ==
  ASSUME stabs \in Tables, NEW T \in {"SO", "FUN", "SLINE"},
         NEW i \in Index, stabs[i].n_type = T
  PROVE  stabs[i].n_value + 1 \in Addr
  <1>1. Placed(TypesOf(stabs), ValuesOf(stabs))
    BY TableType DEF AsEmitted
  <1>2. i \in At(TypesOf(stabs), T)
    BY TableType DEF At
  <1>3. ValuesOf(stabs)[i] + 1 \in Addr
    BY <1>1, <1>2 DEF Placed
  <1>4. QED
    BY <1>3, TableType

LEMMA FileAddress ==
  ASSUME stabs \in Tables, NEW i \in Index, stabs[i].n_type = "SO"
  PROVE  stabs[i].n_value # 0
  <1>1. i \in At(TypesOf(stabs), "SO")
    BY TableType DEF At
  <1>2. ValuesOf(stabs)[i] >= ULIM
    BY <1>1, TableType DEF AsEmitted, Placed
  <1>3. QED
    BY <1>2, TableType, SizeAssumption DEF Addr

(* A set of places that is not empty has a first one and a last one.       *)
LEMMA HasFirst ==
  ASSUME NEW K, K \subseteq Index, K # {}
  PROVE  \E k \in K : \A j \in K : k <= j
  <1>1. K \subseteq Nat /\ \A j \in K : j \in Int
    BY SizeAssumption DEF Index
  <1>2. PICK k \in K : \A x \in K : <<x, k>> \notin OpToRel(<, Nat)
    BY <1>1, NatLessThanWellFounded, WFMin
  <1>3. \A x \in K : ~(x < k)
    BY <1>1, <1>2 DEF OpToRel
  <1>4. QED
    BY <1>1, <1>3

LEMMA HasLast ==
  ASSUME NEW K, K \subseteq Index, K # {}
  PROVE  \E k \in K : \A j \in K : j <= k
  <1> DEFINE D == { NStabs - j : j \in K }
  <1>1. \A j \in K : j \in Int /\ NStabs - j \in Nat
    BY SizeAssumption DEF Index
  <1>2. D \subseteq Nat /\ D # {}
    BY <1>1
  <1>3. PICK d \in D : \A x \in D : <<x, d>> \notin OpToRel(<, Nat)
    BY <1>2, NatLessThanWellFounded, WFMin
  <1>4. \A x \in D : ~(x < d)
    BY <1>2, <1>3 DEF OpToRel
  <1>5. PICK k \in K : d = NStabs - k
    OBVIOUS
  <1>6. ASSUME NEW j \in K PROVE j <= k
    <2>1. ~(NStabs - j < NStabs - k)
      BY <1>4, <1>5
    <2>2. QED
      BY <1>1, <2>1, SizeAssumption
  <1>7. QED
    BY <1>6

(* The lines of a function: the first is where it starts, and they are in  *)
(* order.                                                                  *)
LEMMA HasLine ==
  ASSUME stabs \in Tables, NEW g \in Index, stabs[g].n_type = "FUN"
  PROVE  \E k \in Index :
           /\ stabs[k].n_type = "SLINE" /\ stabs[k].n_value = 0 /\ g < k
           /\ \A j \in g + 1 .. k - 1 : stabs[j].n_type \notin {"FUN", "SO"}
  <1> DEFINE ty == TypesOf(stabs)
             v == ValuesOf(stabs)
             K == { k \in At(ty, "SLINE") : g < k }
  <1>1. g \in At(ty, "FUN") /\ ty[g] = "FUN" /\ g \in Int
    BY TableType DEF At
  <1>2. PICK k1 \in At(ty, "SLINE") : IsLast(ty, k1, {"FUN", "SO"}, g)
    BY <1>1, TableType DEF AsEmitted, Layout
  <1>3. K \subseteq Index /\ k1 \in K
    BY <1>2 DEF At, IsLast
  <1>4. PICK k \in K : \A j \in K : k <= j
    BY <1>3, HasFirst
  <1>5. k \in Index /\ k1 \in Index /\ k \in Int /\ k1 \in Int /\ g < k /\ k <= k1
    BY <1>3, <1>4, TableType
  <1>6. \A j \in g + 1 .. k - 1 : j \in g + 1 .. k1 - 1 /\ j \in Index /\ j \in Int
    BY <1>1, <1>5, SizeAssumption DEF Index
  <1>7. \A j \in g + 1 .. k - 1 : ty[j] \notin {"FUN", "SO"}
    BY <1>2, <1>6 DEF IsLast
  <1>8. IsLast(ty, k, {"FUN", "SO"}, g)
    BY <1>1, <1>5, <1>7 DEF IsLast
  <1>9. v[k] = 0
    <2> DEFINE before == { j \in At(ty, "SLINE") : g < j /\ j < k }
    <2>1. ASSUME NEW j \in before PROVE FALSE
      <3>1. j \in K /\ j < k /\ j \in Int
        BY <2>1, TableType DEF At
      <3>2. QED
        BY <1>4, <1>5, <3>1
    <2>2. before = {}
      BY <2>1
    <2>3. k \in At(ty, "SLINE") /\ g \in At(ty, "FUN") \union At(ty, "SO")
      BY <1>1
    <2>4. IF before # {} THEN \A j \in before : v[j] <= v[k]
          ELSE IF ty[g] = "FUN" THEN v[k] = 0 ELSE v[k] >= v[g]
      BY <1>8, <2>3, TableType DEF AsEmitted, Placed
    <2>5. QED
      BY <1>1, <2>2, <2>4
  <1>10. stabs[k].n_type = "SLINE" /\ stabs[k].n_value = 0
    BY <1>4, <1>5, <1>9, TableType DEF At
  <1>11. QED
    BY <1>5, <1>6, <1>7, <1>10, TableType

LEMMA LinesInOrder ==
  ASSUME stabs \in Tables, NEW g \in Index, stabs[g].n_type = "FUN",
         NEW i \in Index, NEW k \in Index, g < i, i < k,
         stabs[i].n_type = "SLINE", stabs[k].n_type = "SLINE",
         \A j \in g + 1 .. k : stabs[j].n_type \notin {"FUN", "SO"}
  PROVE  stabs[i].n_value <= stabs[k].n_value
  <1> DEFINE ty == TypesOf(stabs)
             v == ValuesOf(stabs)
             before == { j \in At(ty, "SLINE") : g < j /\ j < k }
  <1>1. g \in Int /\ i \in Int /\ k \in Int /\ g < k
    BY SizeAssumption DEF Index
  <1>2. \A j \in g + 1 .. k - 1 : j \in g + 1 .. k /\ j \in Index
    BY <1>1, SizeAssumption DEF Index
  <1>3. IsLast(ty, k, {"FUN", "SO"}, g)
    BY <1>1, <1>2, TableType DEF IsLast
  <1>4. k \in At(ty, "SLINE") /\ i \in At(ty, "SLINE") /\ g \in At(ty, "FUN")
    BY TableType DEF At
  <1>5. i \in before
    BY <1>4
  <1>6. IF before # {} THEN \A j \in before : v[j] <= v[k]
        ELSE IF ty[g] = "FUN" THEN v[k] = 0 ELSE v[k] >= v[g]
    BY <1>3, <1>4, TableType DEF AsEmitted, Placed
  <1>7. v[i] <= v[k]
    BY <1>5, <1>6
  <1>8. QED
    BY <1>7, TableType

LEMMA Parameter ==
  ASSUME stabs \in Tables, NEW i \in Index, stabs[i].n_type = "PSYM"
  PROVE  i - 1 \in Index /\ stabs[i - 1].n_type \in {"FUN", "PSYM"}
  <1>1. i # 0
    BY TableFirst
  <1>2. i - 1 \in Index
    BY <1>1, SizeAssumption DEF Index
  <1>3. i \in At(TypesOf(stabs), "PSYM")
    BY TableType DEF At
  <1>4. TypesOf(stabs)[i - 1] \in {"FUN", "PSYM"}
    BY <1>3, TableType DEF AsEmitted, Layout
  <1>5. QED
    BY <1>2, <1>4, TableType

-----------------------------------------------------------------------------
(* Regions: e is the last stab of the one that stab i begins among the     *)
(* stabs i .. hi, if each stab of type T begins one.                       *)

IsEnd(T, i, hi, e) ==
  /\ e \in i .. hi
  /\ \A k \in i + 1 .. e : stabs[k].n_type # T
  /\ e < hi => stabs[e + 1].n_type = T

LEMMA EndIs ==
  ASSUME NEW T, NEW i \in Int, NEW hi \in Int, NEW e, IsEnd(T, i, hi, e)
  PROVE  End(T, i, hi) = e
  <1> DEFINE E(x) == /\ \A k \in i + 1 .. x : stabs[k].n_type # T
                     /\ x < hi => stabs[x + 1].n_type = T
  <1>1. e \in i .. hi /\ E(e)
    BY DEF IsEnd
  <1>2. ASSUME NEW x \in i .. hi, NEW y \in i .. hi, E(x), E(y), x < y
        PROVE  FALSE
    <2>1. stabs[x + 1].n_type = T
      BY <1>2
    <2>2. x + 1 \in i + 1 .. y
      BY <1>2
    <2>3. QED
      BY <1>2, <2>1, <2>2
  <1>3. ASSUME NEW x \in i .. hi, E(x) PROVE x = e
    <2>1. ~(x < e) /\ ~(e < x)
      BY <1>1, <1>2, <1>3
    <2>2. QED
      BY <1>1, <2>1
  <1> HIDE DEF E
  <1>4. (CHOOSE x \in i .. hi : E(x)) = e
    BY <1>1, <1>3
  <1>5. QED
    BY <1>4 DEF E, End

LEMMA OneOwner ==
  ASSUME stabs \in Tables, NEW T, NEW lo \in Index, NEW hi \in Index, NEW a \in Int,
         NEW i \in Owner(T, lo, hi, a), NEW k \in Owner(T, lo, hi, a)
  PROVE  i = k
  <1>1. /\ i \in lo .. hi /\ stabs[i].n_type = T /\ stabs[i].n_value <= a
        /\ \A j \in i + 1 .. hi : stabs[j].n_type = T => stabs[j].n_value > a
    BY DEF Owner
  <1>2. /\ k \in lo .. hi /\ stabs[k].n_type = T /\ stabs[k].n_value <= a
        /\ \A j \in k + 1 .. hi : stabs[j].n_type = T => stabs[j].n_value > a
    BY DEF Owner
  <1>3. i \in Index /\ k \in Index /\ lo \in Int /\ hi \in Int
    BY <1>1, <1>2, SizeAssumption DEF Index
  <1>4. stabs[i].n_value \in Int /\ stabs[k].n_value \in Int /\ i \in Int /\ k \in Int
    BY <1>3, TableType
  <1>5. ~(k \in i + 1 .. hi)
    BY <1>1, <1>2, <1>4
  <1>6. ~(i \in k + 1 .. hi)
    BY <1>1, <1>2, <1>4
  <1>7. QED
    BY <1>1, <1>2, <1>3, <1>4, <1>5, <1>6

(* The region of a function within that of its file: it has a line where   *)
(* it starts, and its parameters follow it without a gap.                  *)
LEMMA FunctionRegion ==
  ASSUME stabs \in Tables, NEW f \in Index, NEW rf \in Int, NEW g \in f .. rf, NEW e,
         IsEnd("SO", f, NStabs - 1, rf), IsEnd("FUN", g, rf, e),
         stabs[g].n_type = "FUN"
  PROVE  /\ \A j \in g + 1 .. e : stabs[j].n_type \notin {"FUN", "SO"}
         /\ \E k \in g + 1 .. e : stabs[k].n_type = "SLINE" /\ stabs[k].n_value = 0
         /\ \A i \in g + 1 .. e :
              stabs[i].n_type = "PSYM" =>
                /\ i < e
                /\ \A j \in g + 1 .. i : stabs[j].n_type = "PSYM"
  <1>1. /\ f \in Int /\ g \in Int /\ e \in Int /\ f <= g /\ g <= e /\ e <= rf
        /\ rf <= NStabs - 1 /\ g \in Index
    BY SizeAssumption DEF IsEnd, Index
  <1>2. \A j \in g + 1 .. e : j \in Index /\ j \in f + 1 .. rf
    BY <1>1, SizeAssumption DEF Index
  <1>3. \A j \in g + 1 .. e : stabs[j].n_type \notin {"FUN", "SO"}
    BY <1>2 DEF IsEnd
  <1>4. PICK k \in Index :
           /\ stabs[k].n_type = "SLINE" /\ stabs[k].n_value = 0 /\ g < k
           /\ \A j \in g + 1 .. k - 1 : stabs[j].n_type \notin {"FUN", "SO"}
    BY <1>1, HasLine
  <1>5. k \in Int /\ k <= NStabs - 1
    BY SizeAssumption DEF Index
  <1>6. k <= e
    <2> SUFFICES ASSUME e < k PROVE FALSE
      BY <1>1, <1>5
    <2>1. stabs[e + 1].n_type \in {"FUN", "SO"}
      <3>1. CASE e < rf
        BY <3>1 DEF IsEnd
      <3>2. CASE e = rf
        <4>1. rf < NStabs - 1
          BY <1>1, <1>5, <3>2, SizeAssumption
        <4>2. QED
          BY <3>2, <4>1 DEF IsEnd
      <3>3. QED
        BY <1>1, <3>1, <3>2
    <2>2. e + 1 = k \/ e + 1 \in g + 1 .. k - 1
      BY <1>1, <1>5
    <2>3. QED
      BY <1>4, <2>1, <2>2
  <1>7. k \in g + 1 .. e
    BY <1>1, <1>4, <1>5, <1>6
  <1>8. ASSUME NEW i \in g + 1 .. e, stabs[i].n_type = "PSYM"
        PROVE  \A j \in g + 1 .. i : stabs[j].n_type = "PSYM"
    <2> DEFINE K == { j \in g + 1 .. i : stabs[j].n_type # "PSYM" }
    <2> SUFFICES ASSUME K # {} PROVE FALSE
      OBVIOUS
    <2>1. i \in Int /\ \A j \in g + 1 .. i : j \in g + 1 .. e
      BY <1>1
    <2>2. K \subseteq Index
      BY <1>2, <2>1
    <2>3. PICK m \in K : \A j \in K : j <= m
      BY <2>2, HasLast
    <2>4. m \in g + 1 .. i /\ stabs[m].n_type # "PSYM" /\ m # i
      BY <1>8
    <2>5. m \in Int /\ m + 1 \in g + 1 .. i /\ ~(m + 1 <= m)
      BY <1>1, <2>1, <2>4
    <2>6. stabs[m + 1].n_type = "PSYM" /\ m + 1 \in Index
      BY <1>2, <2>1, <2>3, <2>5
    <2>7. stabs[m].n_type \in {"FUN", "PSYM"}
      <3>1. (m + 1) - 1 = m
        BY <2>5
      <3>2. QED
        BY <2>6, <3>1, Parameter
    <2>8. QED
      BY <1>3, <2>1, <2>4, <2>7
  <1>9. ASSUME NEW i \in g + 1 .. e, stabs[i].n_type = "PSYM" PROVE i < e
    <2>1. i # e
      BY <1>4, <1>7, <1>8, <1>9
    <2>2. QED
      BY <1>1, <2>1
  <1>10. QED
    BY <1>3, <1>4, <1>7, <1>8, <1>9

-----------------------------------------------------------------------------
(* The searches, by what is proved of stab_binsearch.                      *)

LEMMA SearchDefs ==
  /\ SP!Index = Index /\ SP!Addr = Addr
  /\ \A i : /\ SP!Matches(i) <=> stabs[i].n_type = type
            /\ SP!Value(i) = stabs[i].n_value
  BY DEF SP!Index, SP!Addr, SP!Matches, SP!Value, Index, Addr

LEMMA SearchNext == S!Next => SP!Next
  BY DEF SP!Next, S!Next, SP!NoMatch, S!NoMatch, SP!Below, S!Below, SP!Above,
         S!Above, SP!Exact, S!Exact, SP!Finish, S!Finish, SP!Looping, S!Looping,
         SP!Candidate, S!Candidate, SP!true_m, S!true_m, SP!Matches, S!Matches,
         SP!Value, S!Value, SP!args, S!args, SP!Rightmost, S!Rightmost,
         SP!Index, S!Index

LEMMA StepType == ASSUME SP!TypeOK, S!Next PROVE SP!TypeOK'
  BY SearchNext, SearchAssumptions, SP!TypeStep

LEMMA StepUnmatched == ASSUME SP!TypeOK, SP!Unmatched, S!Next PROVE SP!Unmatched'
  BY SearchNext, SearchAssumptions, SP!UnmatchedStep

LEMMA StepSearchInv == ASSUME SP!SearchInv, S!Next PROVE SP!SearchInv'
  BY SearchNext, SearchAssumptions, SP!SearchInvStep

LEMMA StepArgs ==
  ASSUME S!Next
  PROVE  UNCHANGED <<stabs, type, from, to, target>> /\ pc = "loop"
  BY SearchNext DEF SP!Next, SP!NoMatch, SP!Below, SP!Above, SP!Exact, SP!Finish,
       SP!Looping, SP!args

LEMMA SearchRange ==
  ASSUME SP!TypeOK
  PROVE  /\ stabs \in Tables /\ type \in Types
         /\ from \in Index /\ to \in Index /\ from <= to
         /\ region_left \in from - 1 .. to /\ region_right \in from - 1 .. to
         /\ l \in from .. to + 1 /\ r \in from - 1 .. to
         /\ from \in Int /\ to \in Int /\ region_left \in Int /\ region_right \in Int
         /\ target \in Addr /\ target \in Int
         /\ any_matches \in BOOLEAN /\ pc \in {"loop", "done"}
         /\ \A i \in from .. to : i \in Index
  <1>1. /\ stabs \in Tables /\ type \in Types
        /\ from \in Index /\ to \in Index /\ from <= to
        /\ region_left \in from - 1 .. to /\ region_right \in from - 1 .. to
        /\ l \in from .. to + 1 /\ r \in from - 1 .. to
        /\ target \in Addr
        /\ any_matches \in BOOLEAN /\ pc \in {"loop", "done"}
    BY SearchDefs DEF SP!TypeOK
  <1>2. /\ from \in Int /\ to \in Int /\ region_left \in Int /\ region_right \in Int
        /\ target \in Int
        /\ \A i \in from .. to : i \in Index
    BY <1>1, SizeAssumption DEF Index, Addr
  <1>3. QED
    BY <1>1, <1>2

(* A call of stab_binsearch on a range that is not empty.                  *)
LEMMA InitInv == SP!Init => SP!SearchInv
  BY SearchAssumptions, SP!SearchInvInit

LEMMA InitInvPrime == SP!Init' => SP!SearchInv'
  BY InitInv, PTL

LEMMA SearchStarts ==
  ASSUME SP!TypeOK, UNCHANGED stabs,
         NEW t \in Types, NEW lo \in Index, NEW hi \in Index, lo <= hi,
         NEW a \in Addr, Search(t, lo, hi, a)
  PROVE  /\ SP!TypeOK' /\ SP!Unmatched'
         /\ pc' = "loop" /\ any_matches' = FALSE
         /\ region_left' = lo /\ region_right' = hi
         /\ SP!Sorted' => SP!SearchInv'
  <1>1. /\ type' = t /\ from' = lo /\ to' = hi /\ target' = a
        /\ region_left' = lo /\ region_right' = hi /\ l' = lo /\ r' = hi
        /\ addr' = a /\ any_matches' = FALSE /\ pc' = "loop" /\ stabs' \in Tables
    BY SearchRange DEF Search
  <1>2. lo \in Int /\ hi \in Int
    BY SizeAssumption DEF Index
  <1>3. SP!TypeOK'
    <2>1. /\ lo \in lo - 1 .. hi /\ hi \in lo - 1 .. hi /\ lo >= lo
          /\ lo \in lo .. hi + 1 /\ lo <= hi + 1
      BY <1>2
    <2>2. QED
      BY <1>1, <2>1, SearchDefs DEF SP!TypeOK
  <1>4. SP!Unmatched'
    <2>1. \A i \in lo .. hi : ~(i < lo)
      BY <1>2
    <2>2. QED
      BY <1>1, <2>1 DEF SP!Unmatched
  <1>5. ASSUME SP!Sorted' PROVE SP!SearchInv'
    <2>1. SP!Init'
      BY <1>1, <1>5, SearchDefs DEF SP!Init
    <2>2. QED
      BY <2>1, InitInvPrime
  <1>6. QED
    BY <1>1, <1>3, <1>4, <1>5

-----------------------------------------------------------------------------
(* The invariant of a call.  Counted and PastFirst are what all searches   *)
(* that are made share: whether something matched is known from the        *)
(* result, and the stab a range begins with is not of the type looked for  *)
(* there, so the result is not before it.                                  *)

Counted ==
  /\ any_matches => \E i \in from .. to : stabs[i].n_type = type
  /\ ~any_matches => region_left = from
  /\ pc = "done" => IF any_matches THEN region_left <= region_right
                                   ELSE region_left > region_right

PastFirst ==
  /\ stabs[from].n_type # type
  /\ region_left >= from
  /\ any_matches \/ pc = "loop" => region_right >= from

FileSearch ==
  /\ type = "SO" /\ from = 0 /\ to = NStabs - 1 /\ target = eip
  /\ SP!SearchInv /\ PastFirst
  /\ region_left = 0 \/ stabs[region_left].n_type = "SO"

FunSearch ==
  /\ type = "FUN" /\ from = lfile /\ to = rfile /\ target = eip
  /\ SP!SearchInv /\ PastFirst
  /\ lfile > 0

(* Some function contains the address.                                     *)
Known == \E f \in Files : Funs(f) # {}

LineSearch ==
  /\ type = "SLINE" /\ from > 0
  /\ Known => /\ from = lfun /\ to = rfun
              /\ target = eip - stabs[lfun].n_value
              /\ SP!SearchInv

(* What the first two searches have found, if there is anything to find.   *)
FileRight ==
  \A f \in Files : lfile = f /\ IsEnd("SO", f, NStabs - 1, rfile)

FunRight ==
  \A f \in Files :
    /\ \A g \in Funs(f) :
         /\ lfun = g /\ IsEnd("FUN", g, rfile, rfun)
         /\ info.fn \in NameOf(g) /\ info.fn_addr = stabs[g].n_value
    /\ ~HasFun(TypesOf(stabs), f) => info.fn = Unknown /\ info.fn_addr = eip

Searching == phase \in {"file", "fun", "line"}

CallInv ==
  /\ SP!TypeOK /\ SP!Unmatched /\ eip \in Addr
  /\ IF Searching THEN Counted ELSE pc = "done"
  /\ phase \in {"start", "file", "fun"} => info.fn = Unknown /\ info.fn_addr = eip
  /\ phase = "file" => FileSearch
  /\ phase = "fun" => FunSearch /\ FileRight
  /\ phase = "line" => LineSearch /\ FileRight /\ FunRight
  /\ phase # "return" => result = "none"

(* addr++ does not wrap.                                                   *)
LEMMA AllInside ==
  ASSUME SP!TypeOK, type \in {"SO", "FUN", "SLINE"}
  PROVE  SP!InsideSpace
  <1> SUFFICES ASSUME NEW i \in from .. to, stabs[i].n_type = type
               PROVE  stabs[i].n_value + 1 \in Addr
    BY SearchDefs DEF SP!InsideSpace
  <1>1. stabs \in Tables /\ i \in Index
    BY SearchRange
  <1>2. QED
    BY <1>1, Inside

(* A search that is over, where some stab contains the address, has found  *)
(* that stab or one a run of one-byte regions leads to, and the end of its *)
(* region.                                                                 *)
LEMMA FoundReached ==
  ASSUME SP!SearchInv, type \in {"SO", "FUN", "SLINE"}, pc = "done",
         NEW i \in Owner(type, from, to, target)
  PROVE  /\ region_left \in Reached(type, from, to, target)
         /\ IsEnd(type, region_left, to, region_right)
  <1>1. SP!TypeOK /\ SP!FindsContaining
    BY DEF SP!SearchInv, SP!LoopInv
  <1>2. SP!Contains(i) /\ i \in from .. to
    BY SearchDefs DEF Owner, SP!Contains
  <1>3. SP!Answer(region_left) /\ SP!EndsBeforeNext(region_left, region_right)
    BY <1>1, <1>2, AllInside DEF SP!FindsContaining
  <1>4. /\ region_left \in from .. to /\ stabs[region_left].n_type = type
        /\ \A c \in target .. stabs[region_left].n_value - 1 : StartsAt(type, from, to, c)
    BY <1>3, SearchDefs DEF SP!Answer, SP!Run, StartsAt
  <1>5. \A k \in region_left + 1 .. to :
          stabs[k].n_type = type => stabs[k].n_value > target
    BY <1>3, SearchDefs DEF SP!Answer
  <1>6. QED
    BY <1>3, <1>4, <1>5, SearchDefs DEF Reached, SP!EndsBeforeNext, IsEnd

(* No such run leads away from an address that is not a region by itself.  *)
LEMMA ReachedSingle ==
  ASSUME stabs \in Tables, NEW T, NEW lo \in Index, NEW hi \in Index, NEW a \in Int,
         ~OneByte(T, lo, hi, a), NEW i \in Reached(T, lo, hi, a)
  PROVE  i \in Owner(T, lo, hi, a)
  <1>1. /\ i \in lo .. hi /\ stabs[i].n_type = T
        /\ \A c \in a .. stabs[i].n_value - 1 : StartsAt(T, lo, hi, c)
        /\ \A k \in i + 1 .. hi : stabs[k].n_type = T => stabs[k].n_value > a
    BY DEF Reached
  <1>2. i \in Index /\ stabs[i].n_value \in Int
    <2>1. i \in Index
      BY <1>1, SizeAssumption DEF Index
    <2>2. QED
      BY <2>1, TableType
  <1>3. ASSUME stabs[i].n_value > a PROVE FALSE
    <2>1. StartsAt(T, lo, hi, a)
      BY <1>1, <1>2, <1>3
    <2>2. CASE stabs[i].n_value = a + 1
      <3>1. StartsAt(T, lo, hi, a + 1)
        BY <1>1, <2>2 DEF StartsAt
      <3>2. QED
        BY <2>1, <3>1 DEF OneByte
    <2>3. CASE stabs[i].n_value # a + 1
      <3>1. a + 1 \in a .. stabs[i].n_value - 1
        BY <1>2, <1>3, <2>3
      <3>2. QED
        BY <1>1, <2>1, <3>1 DEF OneByte
    <2>4. QED
      BY <2>2, <2>3
  <1>4. stabs[i].n_value <= a
    BY <1>2, <1>3
  <1>5. QED
    BY <1>1, <1>4 DEF Owner

LEMMA Found ==
  ASSUME SP!SearchInv, type \in {"SO", "FUN"}, pc = "done",
         NEW i \in Single(type, from, to, target)
  PROVE  region_left = i /\ IsEnd(type, i, to, region_right)
  <1>1. SP!TypeOK
    BY DEF SP!SearchInv
  <1>2. ~OneByte(type, from, to, target) /\ i \in Owner(type, from, to, target)
    BY DEF Single
  <1>3. /\ region_left \in Reached(type, from, to, target)
        /\ IsEnd(type, region_left, to, region_right)
    BY <1>2, FoundReached
  <1>4. region_left \in Owner(type, from, to, target)
    BY <1>1, <1>2, <1>3, ReachedSingle, SearchRange
  <1>5. region_left = i
    BY <1>1, <1>2, <1>4, OneOwner, SearchRange
  <1>6. QED
    BY <1>3, <1>5

LEMMA StepCases ==
  ASSUME S!Next
  PROVE  \/ SP!NoMatch
         \/ \E m \in Index : SP!Below(m) \/ SP!Above(m) \/ SP!Exact(m)
         \/ \E k \in Index \union {-1} : SP!Finish(k)
  BY SearchNext, SearchDefs DEF SP!Next

LEMMA StepCandidate ==
  ASSUME SP!TypeOK, NEW m \in Index, SP!Below(m) \/ SP!Above(m) \/ SP!Exact(m)
  PROVE  m \in from .. to /\ stabs[m].n_type = type /\ any_matches' = TRUE
  <1>1. SP!Looping /\ SP!Candidate(m) /\ any_matches' = TRUE
    BY DEF SP!Below, SP!Above, SP!Exact
  <1>2. m \in from .. to /\ SP!Matches(m)
    BY <1>1, SearchAssumptions, SP!CandidateRange
  <1>3. QED
    BY <1>1, <1>2, SearchDefs

LEMMA StepCounted ==
  ASSUME SP!TypeOK, Counted, S!Next
  PROVE  Counted'
  <1>1. UNCHANGED <<stabs, type, from, to>> /\ pc = "loop"
    BY StepArgs
  <1>2. CASE SP!NoMatch
    BY <1>1, <1>2 DEF SP!NoMatch, Counted
  <1>3. ASSUME NEW m \in Index, SP!Below(m) \/ SP!Above(m) \/ SP!Exact(m)
        PROVE  Counted'
    <2>1. pc' = "loop"
      BY <1>1, <1>3 DEF SP!Below, SP!Above, SP!Exact
    <2>2. QED
      BY <1>1, <1>3, <2>1, StepCandidate DEF Counted
  <1>4. ASSUME NEW k \in Index \union {-1}, SP!Finish(k) PROVE Counted'
    <2>1. any_matches' = any_matches /\ region_right \in Int /\ region_left \in Int
          /\ any_matches \in BOOLEAN
      BY <1>4, SearchRange DEF SP!Finish
    <2>2. CASE any_matches
      <3>1. region_left' = k /\ region_right' = region_right /\ k <= region_right
        BY <1>4, <2>1, <2>2 DEF SP!Finish, SP!Rightmost
      <3>2. QED
        BY <1>1, <2>1, <2>2, <3>1 DEF Counted
    <2>3. CASE ~any_matches
      <3>1. region_left' = region_left /\ region_right' = region_left - 1
        BY <1>4, <2>3 DEF SP!Finish
      <3>2. region_left' > region_right'
        BY <2>1, <3>1
      <3>3. QED
        BY <1>1, <2>1, <2>3, <3>1, <3>2 DEF Counted
    <2>4. QED
      BY <2>2, <2>3
  <1>5. QED
    BY <1>2, <1>3, <1>4, StepCases

LEMMA StepPastFirst ==
  ASSUME SP!TypeOK, PastFirst, S!Next
  PROVE  PastFirst'
  <1>1. UNCHANGED <<stabs, type, from, to>> /\ pc = "loop"
    BY StepArgs
  <1>2. region_left \in Int /\ region_right \in Int /\ from \in Int
    BY SearchRange
  <1>3. CASE SP!NoMatch
    BY <1>1, <1>3 DEF SP!NoMatch, PastFirst
  <1>4. ASSUME NEW m \in Index, SP!Below(m) \/ SP!Above(m) \/ SP!Exact(m)
        PROVE  PastFirst'
    <2>1. m \in from .. to /\ m # from
      BY <1>4, StepCandidate DEF PastFirst
    <2>2. m >= from /\ m - 1 >= from
      BY <1>2, <2>1
    <2>3. region_left' >= from /\ region_right' >= from
      BY <1>1, <1>4, <2>2 DEF SP!Below, SP!Above, SP!Exact, PastFirst
    <2>4. QED
      BY <1>1, <2>3 DEF PastFirst
  <1>5. ASSUME NEW k \in Index \union {-1}, SP!Finish(k) PROVE PastFirst'
    <2>1. k \in Int /\ any_matches' = any_matches /\ pc' = "done"
      BY <1>5, SizeAssumption DEF SP!Finish, Index
    <2>2. CASE any_matches
      <3>1. region_left' = k /\ region_right' = region_right /\ k >= from
        BY <1>1, <1>2, <1>5, <2>1, <2>2 DEF SP!Finish, SP!Rightmost, PastFirst
      <3>2. QED
        BY <1>1, <3>1 DEF PastFirst
    <2>3. CASE ~any_matches
      BY <1>1, <1>5, <2>1, <2>3 DEF SP!Finish, PastFirst
    <2>4. QED
      BY <2>2, <2>3
  <1>6. QED
    BY <1>3, <1>4, <1>5, StepCases

LEMMA StepFile ==
  ASSUME FileSearch, S!Next, UNCHANGED eip
  PROVE  FileSearch'
  <1>1. UNCHANGED <<stabs, type, from, to, target>> /\ pc = "loop"
    BY StepArgs
  <1>2. SP!TypeOK /\ SP!SearchInv /\ PastFirst
    BY DEF FileSearch, SP!SearchInv
  <1>3. SP!SearchInv' /\ PastFirst'
    BY <1>2, StepSearchInv, StepPastFirst
  <1>4. region_left' = 0 \/ stabs[region_left'].n_type = "SO"
    <2>1. CASE SP!NoMatch
      BY <2>1 DEF SP!NoMatch, FileSearch
    <2>2. ASSUME NEW m \in Index, SP!Below(m) \/ SP!Above(m) \/ SP!Exact(m)
          PROVE  region_left' = 0 \/ stabs[region_left'].n_type = "SO"
      <3>1. stabs[m].n_type = "SO"
        BY <1>2, <2>2, StepCandidate DEF FileSearch
      <3>2. QED
        BY <2>2, <3>1 DEF SP!Below, SP!Above, SP!Exact, FileSearch
    <2>3. ASSUME NEW k \in Index \union {-1}, SP!Finish(k), any_matches
          PROVE  region_left' = 0 \/ stabs[region_left'].n_type = "SO"
      <3>1. region_left' = k /\ SP!Rightmost(k)
        BY <2>3 DEF SP!Finish
      <3>2. region_left \in Int /\ region_right \in Int /\ from = 0 /\ r \in Int
        BY <1>2, SearchRange DEF FileSearch
      <3>3. CASE region_right > region_left
        BY <3>1, <3>2, <3>3, SearchDefs DEF SP!Rightmost, FileSearch
      <3>4. CASE region_right <= region_left
        <4>1. k = region_right /\ region_right >= 0
          BY <1>1, <3>1, <3>2, <3>4 DEF SP!Rightmost, FileSearch, PastFirst
        <4>2. SP!RightIsEnd /\ SP!LeftIsBest
          BY <1>1, <1>2, AllInside DEF SP!SearchInv, SP!LoopInv, FileSearch
        <4>3. CASE region_left = 0
          BY <3>1, <3>2, <3>4, <4>1, <4>3
        <4>4. CASE region_left # 0
          <5>1. region_left <= r /\ region_right = r
            BY <3>2, <4>2, <4>4 DEF SP!LeftIsBest, SP!RightIsEnd
          <5>2. k = region_left
            BY <3>2, <3>4, <4>1, <5>1
          <5>3. QED
            BY <3>1, <5>2 DEF FileSearch
        <4>5. QED
          BY <4>3, <4>4
      <3>5. QED
        BY <3>2, <3>3, <3>4
    <2>4. ASSUME NEW k \in Index \union {-1}, SP!Finish(k), ~any_matches
          PROVE  region_left' = 0 \/ stabs[region_left'].n_type = "SO"
      BY <2>4 DEF SP!Finish, FileSearch
    <2>5. QED
      BY <2>1, <2>2, <2>3, <2>4, StepCases
  <1>5. QED
    BY <1>1, <1>3, <1>4 DEF FileSearch

-----------------------------------------------------------------------------
(* The actions, one by one.                                                *)

Answers ==
  RightFunction /\ RightSource /\ CountsParameters /\ FailsOnlyIfAbsent

IInv == TypeOK /\ CallInv /\ Answers

(* What the properties speak of does not change during a call.             *)
LEMMA Fixed ==
  ASSUME UNCHANGED <<stabs, eip>>
  PROVE  /\ Files' = Files
         /\ \A f : /\ Funs(f)' = Funs(f) /\ FileEnd(f)' = FileEnd(f)
                   /\ HasFun(TypesOf(stabs), f)' = HasFun(TypesOf(stabs), f)
         /\ Known' = Known
         /\ \A i : NameOf(i)' = NameOf(i)
         /\ \A f, g : Lines(f, g)' = Lines(f, g) /\ FunEnd(f, g)' = FunEnd(f, g)
         /\ \A i, hi : End("SLINE", i, hi)' = End("SLINE", i, hi)
         /\ TypesOf(stabs)' = TypesOf(stabs)
  <1>1. /\ Files' = Files
        /\ \A f : /\ Funs(f)' = Funs(f) /\ FileEnd(f)' = FileEnd(f)
                  /\ HasFun(TypesOf(stabs), f)' = HasFun(TypesOf(stabs), f)
        /\ Known' = Known
        /\ \A i : NameOf(i)' = NameOf(i)
    BY DEF Files, Funs, FileEnd, Known, Single, OneByte, StartsAt,
           Owner, End, HasFun, TypesOf, IsLast, NameOf
  <1>2. \A f, g : FunEnd(f, g)' = FunEnd(f, g)
    BY DEF FunEnd, FileEnd, End
  <1>3. \A f, g : Lines(f, g)' = Lines(f, g)
    BY DEF Lines, Reached, StartsAt, FunEnd, FileEnd, End
  <1>4. /\ \A i, hi : End("SLINE", i, hi)' = End("SLINE", i, hi)
        /\ TypesOf(stabs)' = TypesOf(stabs)
    BY DEF End
  <1>5. QED
    BY <1>1, <1>2, <1>3, <1>4

LEMMA NoAnswer ==
  ASSUME UNCHANGED <<stabs, eip, strings_ok>>, result' # "ok",
         result' = "fail" /\ strings_ok => \A f \in Files : Funs(f) = {}
  PROVE  Answers'
  <1>1. RightFunction' /\ RightSource' /\ CountsParameters'
    BY DEF RightFunction, RightSource, CountsParameters
  <1>2. FailsOnlyIfAbsent'
    BY Fixed DEF FailsOnlyIfAbsent
  <1>3. QED
    BY <1>1, <1>2 DEF Answers

LEMMA FileType ==
  ASSUME stabs \in Tables, NEW f \in Files
  PROVE  /\ f \in Index /\ f \in Int /\ f # 0 /\ stabs[f].n_type = "SO"
         /\ f \in Single("SO", 0, NStabs - 1, eip)
  <1>1. f \in Single("SO", 0, NStabs - 1, eip) /\ f \in Index /\ stabs[f].n_type = "SO"
    BY DEF Files, Single, Owner, Index
  <1>2. f \in Int /\ f # 0
    BY <1>1, TableFirst, SizeAssumption DEF Index
  <1>3. QED
    BY <1>1, <1>2

LEMMA FunType ==
  ASSUME stabs \in Tables, FileRight, rfile \in Index, NEW f \in Files, NEW g \in Funs(f)
  PROVE  /\ lfile = f /\ FileEnd(f) = rfile /\ IsEnd("SO", f, NStabs - 1, rfile)
         /\ g \in Single("FUN", lfile, rfile, eip)
         /\ g \in f .. rfile /\ g \in Index /\ stabs[g].n_type = "FUN"
         /\ stabs[g].n_value <= eip
  <1>1. lfile = f /\ IsEnd("SO", f, NStabs - 1, rfile) /\ f \in Int /\ f \in Index
    BY FileType DEF FileRight
  <1>2. FileEnd(f) = rfile
    BY <1>1, EndIs, SizeAssumption DEF FileEnd
  <1>3. g \in Single("FUN", f, rfile, eip)
    BY <1>2 DEF Funs
  <1>4. g \in f .. rfile /\ stabs[g].n_type = "FUN" /\ stabs[g].n_value <= eip
    BY <1>3 DEF Single, Owner
  <1>5. g \in Index
    BY <1>1, <1>4, SizeAssumption DEF Index
  <1>6. QED
    BY <1>1, <1>2, <1>3, <1>4, <1>5

(* The part of TypeOK that is not about the search.                        *)
CallType ==
  /\ region_left \in Index
  /\ phase \in {"start", "file", "fun", "line", "return"}
  /\ lfile \in Index /\ rfile \in Index
  /\ lfun \in Index /\ rfun \in Index
  /\ info \in [fn : Index \union {Unknown}, fn_addr : Addr,
               line : Index \union {Unknown}, file : Index \union {Unknown},
               narg : 0 .. NStabs]
  /\ result \in {"none", "ok", "fail", "panic"}

LEMMA TypeParts == SP!TypeOK => (TypeOK <=> CallType)
  <1> SUFFICES ASSUME SP!TypeOK PROVE TypeOK <=> CallType
    OBVIOUS
  <1>1. stabs \in [Index -> [n_type : Types, n_value : Addr]]
    BY SearchRange, TableType
  <1>2. QED
    BY <1>1, SearchRange DEF TypeOK, CallType

LEMMA TypePartsPrime == SP!TypeOK' => (TypeOK' <=> CallType')
  BY TypeParts, PTL

LEMMA InitIInv == Init => IInv
  <1> SUFFICES ASSUME Init PROVE IInv
    OBVIOUS
  <1>1. 0 \in Index /\ NStabs - 1 \in Index /\ 0 <= NStabs - 1 /\ NStabs \in Nat
    BY SizeAssumption DEF Index
  <1>2. SP!TypeOK
    <2>1. /\ 0 \in 0 - 1 .. NStabs - 1 /\ NStabs - 1 \in 0 - 1 .. NStabs - 1
          /\ 0 \in 0 .. NStabs - 1 + 1 /\ 0 <= NStabs - 1 + 1
      BY <1>1
    <2>2. QED
      BY <1>1, <2>1, SearchDefs DEF Init, SP!TypeOK, Types
  <1>3. SP!Unmatched
    BY <1>1 DEF Init, SP!Unmatched
  <1>4. CallType
    BY <1>1 DEF Init, CallType
  <1>5. TypeOK
    BY <1>2, <1>4, TypeParts
  <1>6. CallInv
    BY <1>2, <1>3 DEF Init, CallInv, Searching
  <1>7. Answers
    BY DEF Init, Answers, RightFunction, RightSource, CountsParameters, FailsOnlyIfAbsent
  <1>8. QED
    BY <1>5, <1>6, <1>7 DEF IInv

LEMMA StartKeeps == ASSUME IInv, Start PROVE IInv'
  <1>1. /\ SP!TypeOK /\ CallType /\ pc = "done" /\ result = "none" /\ eip \in Addr
        /\ info.fn = Unknown /\ info.fn_addr = eip /\ SP!Unmatched /\ phase = "start"
    BY TypeParts DEF IInv, CallInv, Searching, Start
  <1>2. UNCHANGED <<stabs, eip, strings_ok, regions, info>>
    BY DEF Start
  <1>3. ASSUME Return("panic") \/ (~strings_ok /\ Return("fail")) PROVE IInv'
    <2>1. phase' = "return" /\ result' \in {"panic", "fail"} /\ UNCHANGED search
      BY <1>3 DEF Return
    <2>2. SP!TypeOK' /\ SP!Unmatched'
      BY <1>1, <1>2, <2>1 DEF SP!TypeOK, SP!Unmatched, SP!Matches, search
    <2>3. CallType'
      BY <1>1, <1>2, <2>1 DEF CallType, search, regions
    <2>4. CallInv'
      BY <1>1, <1>2, <2>1, <2>2 DEF CallInv, search, Searching
    <2>5. Answers'
      <3>1. result' = "fail" => ~strings_ok
        BY <1>3 DEF Return
      <3>2. QED
        BY <1>2, <2>1, <3>1, NoAnswer
    <2>6. QED
      BY <2>2, <2>3, <2>4, <2>5, TypePartsPrime DEF IInv
  <1>4. ASSUME phase' = "file" /\ Search("SO", 0, NStabs - 1, eip) /\ UNCHANGED result
        PROVE  IInv'
    <2>1. 0 \in Index /\ NStabs - 1 \in Index /\ 0 <= NStabs - 1
      BY SizeAssumption DEF Index
    <2>2. /\ SP!TypeOK' /\ SP!Unmatched' /\ pc' = "loop" /\ any_matches' = FALSE
          /\ region_left' = 0 /\ region_right' = NStabs - 1
          /\ SP!Sorted' => SP!SearchInv'
      BY <1>1, <1>2, <1>4, <2>1, SearchStarts DEF Types
    <2>3. type' = "SO" /\ from' = 0 /\ to' = NStabs - 1 /\ target' = eip
      BY <1>4 DEF Search
    <2>4. SP!Sorted'
      <3>1. \A i \in 0 .. NStabs - 1, k \in 0 .. NStabs - 1 :
              i < k /\ stabs[i].n_type = "SO" /\ stabs[k].n_type = "SO"
                => stabs[i].n_value <= stabs[k].n_value
        BY <1>1, InOrder, SearchRange DEF Index
      <3>2. QED
        BY <1>2, <2>3, <3>1 DEF SP!Sorted, SP!Matches, SP!Value
    <2>5. CallType'
      BY <1>1, <1>2, <1>4, <2>1, <2>2 DEF CallType, regions
    <2>6. FileSearch'
      <3>1. stabs[0].n_type # "SO" /\ NStabs - 1 >= 0 /\ 0 >= 0
        BY <1>1, <2>1, TableFirst, SearchRange
      <3>2. QED
        BY <1>2, <2>2, <2>3, <2>4, <3>1 DEF FileSearch, PastFirst
    <2>7. Counted'
      BY <2>2, <2>3 DEF Counted
    <2>8. CallInv'
      BY <1>1, <1>2, <1>4, <2>2, <2>6, <2>7 DEF CallInv, Searching
    <2>9. Answers'
      BY <1>1, <1>2, <1>4, NoAnswer
    <2>10. QED
      BY <2>2, <2>5, <2>8, <2>9, TypePartsPrime DEF IInv
  <1>5. QED
    <2>1. \/ Return("panic") \/ (~strings_ok /\ Return("fail"))
          \/ phase' = "file" /\ Search("SO", 0, NStabs - 1, eip) /\ UNCHANGED result
      BY Zenon DEF Start
    <2>2. QED
      BY <1>3, <1>4, <2>1, Zenon

LEMMA SearchStepKeeps == ASSUME IInv, SearchStep PROVE IInv'
  <1>1. /\ SP!TypeOK /\ SP!Unmatched /\ CallType /\ CallInv
        /\ S!Next /\ UNCHANGED <<eip, strings_ok, phase, regions, info, result>>
    BY TypeParts DEF IInv, CallInv, SearchStep
  <1>2. UNCHANGED <<stabs, type, from, to, target>> /\ pc = "loop"
    BY <1>1, StepArgs
  <1>3. Searching /\ Counted /\ result = "none"
    BY <1>1, <1>2 DEF CallInv, Searching
  <1>4. SP!TypeOK' /\ SP!Unmatched' /\ Counted'
    BY <1>1, <1>3, StepType, StepUnmatched, StepCounted
  <1>5. phase = "file" => FileSearch'
    BY <1>1, StepFile DEF CallInv
  <1>6. phase = "fun" => FunSearch'
    <2> SUFFICES ASSUME phase = "fun" PROVE FunSearch'
      OBVIOUS
    <2>1. FunSearch
      BY <1>1 DEF CallInv
    <2>2. SP!SearchInv' /\ PastFirst'
      BY <1>1, <2>1, StepSearchInv, StepPastFirst DEF FunSearch
    <2>3. QED
      BY <1>1, <1>2, <2>1, <2>2 DEF FunSearch, regions
  <1>7. phase = "line" => LineSearch'
    <2> SUFFICES ASSUME phase = "line" PROVE LineSearch'
      OBVIOUS
    <2>1. LineSearch
      BY <1>1 DEF CallInv
    <2>2. Known => SP!SearchInv'
      BY <1>1, <2>1, StepSearchInv DEF LineSearch
    <2>3. QED
      BY <1>1, <1>2, <2>1, <2>2, Fixed DEF LineSearch, regions
  <1>8. phase \in {"fun", "line"} => FileRight'
    BY <1>1, <1>2, Fixed DEF CallInv, FileRight, IsEnd, regions
  <1>9. phase = "line" => FunRight'
    <2> SUFFICES ASSUME FunRight PROVE FunRight'
      BY <1>1 DEF CallInv
    <2>1. UNCHANGED <<lfun, rfun, rfile, info, stabs, eip>>
      BY <1>1, <1>2 DEF regions
    <2>2. QED
      BY <2>1, Fixed DEF FunRight, IsEnd
  <1>10. CallInv'
    BY <1>1, <1>2, <1>3, <1>4, <1>5, <1>6, <1>7, <1>8, <1>9 DEF CallInv, Searching
  <1>11. CallType'
    <2>1. region_left' >= 0 /\ region_left' <= NStabs - 1 /\ region_left' \in Int
      <3>1. region_left' \in from - 1 .. to /\ region_left' \in Int
        BY <1>2, <1>4 DEF SP!TypeOK
      <3>2. CASE phase = "file"
        BY <1>2, <1>5, <3>1, <3>2, SizeAssumption DEF FileSearch, PastFirst
      <3>3. CASE phase \in {"fun", "line"}
        <4>1. from > 0 /\ from \in Int /\ to \in Int /\ to <= NStabs - 1
          BY <1>1, <3>3, SearchRange, SizeAssumption DEF CallInv, FunSearch, LineSearch, Index
        <4>2. QED
          BY <3>1, <4>1, SizeAssumption
      <3>4. QED
        BY <1>3, <3>2, <3>3 DEF Searching
    <2>2. region_left' \in Index
      BY <2>1, SizeAssumption DEF Index
    <2>3. QED
      BY <1>1, <2>2 DEF CallType, regions
  <1>12. Answers'
    BY <1>1, <1>2, <1>3, NoAnswer
  <1>13. QED
    BY <1>4, <1>10, <1>11, <1>12, TypePartsPrime DEF IInv

(* The file search always matches: a table has a file.                     *)
LEMMA FileMatches ==
  ASSUME CallInv, Returned("file")
  PROVE  /\ any_matches /\ region_left <= region_right
         /\ region_left \in Index /\ region_right \in Index
  <1>1. /\ SP!TypeOK /\ SP!Unmatched /\ Counted /\ FileSearch /\ pc = "done"
        /\ type = "SO" /\ from = 0 /\ to = NStabs - 1
    BY DEF CallInv, Searching, Returned, FileSearch
  <1>2. 1 \in from .. to /\ stabs[1].n_type = type
    BY <1>1, TableFirst, SearchRange DEF Index
  <1>3. ~(region_left > region_right)
    BY <1>1, <1>2, SearchDefs DEF SP!Unmatched
  <1>4. any_matches /\ region_left <= region_right
    BY <1>1, <1>3 DEF Counted
  <1>5. region_left >= 0 /\ region_right >= 0
    BY <1>1, <1>4 DEF FileSearch, PastFirst
  <1>6. QED
    BY <1>1, <1>4, <1>5, SearchRange DEF Index

LEMMA FileDoneKeeps == ASSUME IInv, FileDone PROVE IInv'
  <1>1. /\ SP!TypeOK /\ CallType /\ pc = "done" /\ result = "none" /\ eip \in Addr
        /\ info.fn = Unknown /\ info.fn_addr = eip /\ SP!Unmatched
        /\ FileSearch /\ phase = "file" /\ CallInv /\ stabs \in Tables
    BY TypeParts, SearchRange DEF IInv, CallInv, Searching, FileDone, Returned
  <1>2. /\ UNCHANGED <<stabs, eip, strings_ok, lfun, rfun, info>>
        /\ lfile' = region_left /\ rfile' = region_right
    BY DEF FileDone
  <1>3. /\ region_left <= region_right
        /\ region_left \in Index /\ region_right \in Index
    BY <1>1, FileMatches DEF FileDone
  <1>4. ASSUME NEW f \in Files
        PROVE  region_left = f /\ IsEnd("SO", f, NStabs - 1, region_right)
    <2>1. f \in Single(type, from, to, target) /\ type = "SO" /\ to = NStabs - 1
      BY <1>1, <1>4, FileType DEF FileSearch
    <2>2. QED
      BY <1>1, <2>1, Found DEF FileSearch
  <1>5. CASE region_left = 0
    <2>1. phase' = "return" /\ result' = "fail" /\ UNCHANGED search
      BY <1>2, <1>5 DEF FileDone, Return
    <2>2. SP!TypeOK' /\ SP!Unmatched'
      BY <1>1, <1>2, <2>1 DEF SP!TypeOK, SP!Unmatched, SP!Matches, search
    <2>3. CallType'
      BY <1>1, <1>2, <1>3, <2>1 DEF CallType, search
    <2>4. CallInv'
      BY <1>1, <1>2, <2>1, <2>2 DEF CallInv, search, Searching
    <2>5. Files = {}
      BY <1>1, <1>4, <1>5, FileType
    <2>6. Answers'
      BY <1>2, <2>1, <2>5, NoAnswer
    <2>7. QED
      BY <2>2, <2>3, <2>4, <2>6, TypePartsPrime DEF IInv
  <1>6. CASE region_left # 0
    <2>1. /\ phase' = "fun" /\ UNCHANGED result
          /\ Search("FUN", region_left, region_right, eip)
      BY <1>2, <1>6 DEF FileDone
    <2>2. /\ SP!TypeOK' /\ SP!Unmatched' /\ pc' = "loop" /\ any_matches' = FALSE
          /\ region_left' = region_left /\ region_right' = region_right
          /\ SP!Sorted' => SP!SearchInv'
      BY <1>1, <1>2, <1>3, <2>1, SearchStarts DEF Types
    <2>3. /\ type' = "FUN" /\ from' = region_left /\ to' = region_right
          /\ target' = eip
      BY <2>1 DEF Search
    <2>4. SP!Sorted'
      <3>1. \A i \in region_left .. region_right : i \in Index
        BY <1>3, SizeAssumption DEF Index
      <3>2. \A i \in region_left .. region_right, k \in region_left .. region_right :
              i < k /\ stabs[i].n_type = "FUN" /\ stabs[k].n_type = "FUN"
                => stabs[i].n_value <= stabs[k].n_value
        BY <1>1, <3>1, InOrder
      <3>3. QED
        BY <1>2, <2>3, <3>2 DEF SP!Sorted, SP!Matches, SP!Value
    <2>5. CallType'
      BY <1>1, <1>2, <1>3, <2>1, <2>2 DEF CallType
    <2>6. FunSearch'
      <3>1. stabs[region_left].n_type # "FUN"
        BY <1>1, <1>6 DEF FileSearch
      <3>2. region_left >= region_left /\ region_right >= region_left /\ region_left > 0
        BY <1>3, <1>6, SizeAssumption DEF Index
      <3>3. QED
        BY <1>2, <2>2, <2>3, <2>4, <3>1, <3>2 DEF FunSearch, PastFirst
    <2>7. FileRight'
      BY <1>2, <1>4, Fixed DEF FileRight, IsEnd
    <2>8. Counted'
      BY <2>2, <2>3 DEF Counted
    <2>9. CallInv'
      BY <1>1, <1>2, <2>1, <2>2, <2>6, <2>7, <2>8 DEF CallInv, Searching
    <2>10. Answers'
      BY <1>1, <1>2, <2>1, NoAnswer
    <2>11. QED
      BY <2>2, <2>5, <2>9, <2>10, TypePartsPrime DEF IInv
  <1>7. QED
    BY <1>5, <1>6

(* The search for the line that FunDone begins, in a file or a function.   *)
LEMMA FunDoneCases ==
  ASSUME CallInv, CallType, FunDone
  PROVE  \/ /\ any_matches /\ region_left <= region_right
            /\ \E name \in NameOf(region_left) :
                 info' = [info EXCEPT !.fn = name,
                                      !.fn_addr = stabs[region_left].n_value]
            /\ Search("SLINE", region_left, region_right,
                      (eip - stabs[region_left].n_value) % AddrSpace)
         \/ /\ region_left > region_right
            /\ info' = [info EXCEPT !.fn_addr = eip]
            /\ Search("SLINE", lfile, rfile, eip)
  <1>1. lfun' = region_left /\ rfun' = region_right /\ UNCHANGED stabs
    BY DEF FunDone
  <1>2. Counted /\ pc = "done"
    BY DEF CallInv, Searching, FunDone, Returned
  <1>3. region_left \in Int /\ region_right \in Int
    BY SearchRange DEF CallInv
  <1>4. CASE region_left <= region_right
    <2>1. any_matches
      BY <1>2, <1>3, <1>4 DEF Counted
    <2>2. PICK name \in NameOf(region_left) :
            info' = [info EXCEPT !.fn = name, !.fn_addr = stabs[region_left].n_value]
      BY <1>1, <1>4 DEF FunDone
    <2>3. Search("SLINE", region_left, region_right, (eip - info'.fn_addr) % AddrSpace)
      BY <1>1, <1>4 DEF FunDone
    <2>4. info'.fn_addr = stabs[region_left].n_value
      BY <2>2 DEF CallType
    <2>5. QED
      BY <1>4, <2>1, <2>2, <2>3, <2>4
  <1>5. CASE ~(region_left <= region_right)
    <2>1. region_left > region_right /\ ~(lfun' <= rfun')
      BY <1>1, <1>3, <1>5
    <2>2. info' = [info EXCEPT !.fn_addr = eip] /\ Search("SLINE", lfile, rfile, eip)
      BY <2>1 DEF FunDone
    <2>3. QED
      BY <2>1, <2>2
  <1>6. QED
    BY <1>4, <1>5

(* Lines of a function are searched in its region, for the distance of the *)
(* address from its beginning; they are in order there.                    *)
LEMMA LinesSorted ==
  ASSUME stabs \in Tables, FileRight, rfile \in Index,
         NEW f \in Files, NEW g \in Funs(f), NEW e, IsEnd("FUN", g, rfile, e),
         NEW i \in g .. e, NEW k \in g .. e, i < k,
         stabs[i].n_type = "SLINE", stabs[k].n_type = "SLINE"
  PROVE  stabs[i].n_value <= stabs[k].n_value
  <1>1. /\ f \in Index /\ rfile \in Int /\ g \in f .. rfile /\ g \in Index /\ g \in Int
        /\ IsEnd("SO", f, NStabs - 1, rfile) /\ stabs[g].n_type = "FUN"
    BY FileType, FunType, SizeAssumption DEF Index
  <1>2. e \in Int /\ e <= NStabs - 1
    BY <1>1, SizeAssumption DEF IsEnd, Index
  <1>3. i # g /\ i \in Int /\ k \in Int /\ g < i /\ k <= e
    BY <1>1, <1>2
  <1>4. i \in Index /\ k \in Index
    BY <1>1, <1>2, <1>3, SizeAssumption DEF Index
  <1>5. \A j \in g + 1 .. e : stabs[j].n_type \notin {"FUN", "SO"}
    BY <1>1, FunctionRegion
  <1>6. \A j \in g + 1 .. k : j \in g + 1 .. e
    BY <1>1, <1>2, <1>3
  <1>7. QED
    BY <1>1, <1>3, <1>4, <1>5, <1>6, LinesInOrder

LEMMA Distance ==
  ASSUME NEW a \in Addr, NEW b \in Addr, b <= a
  PROVE  (a - b) % AddrSpace = a - b
  BY SizeAssumption DEF Addr

LEMMA DistanceType ==
  ASSUME NEW a \in Addr, NEW b \in Addr
  PROVE  (a - b) % AddrSpace \in Addr
  BY SizeAssumption DEF Addr

LEMMA FunDoneKeeps == ASSUME IInv, FunDone PROVE IInv'
  <1>1. /\ SP!TypeOK /\ CallType /\ pc = "done" /\ result = "none" /\ eip \in Addr
        /\ info.fn = Unknown /\ info.fn_addr = eip /\ SP!Unmatched
        /\ FunSearch /\ FileRight /\ Counted /\ phase = "fun" /\ CallInv
        /\ stabs \in Tables /\ lfile \in Index /\ rfile \in Index
    BY TypeParts, SearchRange
       DEF IInv, CallInv, Searching, FunDone, Returned, CallType
  <1>2. /\ UNCHANGED <<stabs, eip, strings_ok, lfile, rfile, result>>
        /\ lfun' = region_left /\ rfun' = region_right /\ phase' = "line"
    BY DEF FunDone
  <1>3. /\ lfile > 0 /\ lfile <= rfile /\ from = lfile /\ to = rfile
        /\ type = "FUN" /\ target = eip
        /\ region_left >= from /\ from \in Int /\ region_left \in Int
        /\ region_right \in Int
    BY <1>1, SearchRange DEF FunSearch, PastFirst
  <1>4. region_left \in Index /\ region_right \in Index
    <2>1. /\ region_left \in from - 1 .. to /\ region_right \in from - 1 .. to
          /\ to <= NStabs - 1 /\ to \in Int
      BY <1>1, SearchRange, SizeAssumption DEF Index
    <2>2. QED
      BY <1>3, <2>1, SizeAssumption DEF Index
  <1>5. stabs[region_left].n_value \in Addr /\ eip \in Int
    BY <1>1, <1>4, TableType, SizeAssumption DEF Addr
  <1>6. ASSUME NEW f \in Files, NEW g \in Funs(f)
        PROVE  region_left = g /\ IsEnd("FUN", g, rfile, region_right)
    <2>1. g \in Single(type, from, to, target)
      BY <1>1, <1>3, <1>6, FunType
    <2>2. QED
      BY <1>1, <1>3, <2>1, Found DEF FunSearch
  <1>7. FileRight'
    BY <1>1, <1>2, Fixed DEF FileRight, IsEnd
  <1>8. Answers'
    BY <1>1, <1>2, NoAnswer
  <1>9. CASE /\ any_matches /\ region_left <= region_right
             /\ \E name \in NameOf(region_left) :
                  info' = [info EXCEPT !.fn = name,
                                       !.fn_addr = stabs[region_left].n_value]
             /\ Search("SLINE", region_left, region_right,
                       (eip - stabs[region_left].n_value) % AddrSpace)
    <2> DEFINE a == (eip - stabs[region_left].n_value) % AddrSpace
    <2>1. PICK name \in NameOf(region_left) :
            info' = [info EXCEPT !.fn = name, !.fn_addr = stabs[region_left].n_value]
      BY <1>9
    <2>2. a \in Addr
      BY <1>1, <1>5, DistanceType
    <2>3. region_left <= region_right /\ Search("SLINE", region_left, region_right, a)
      BY <1>9
    <2> HIDE DEF a
    <2>4. /\ SP!TypeOK' /\ SP!Unmatched' /\ pc' = "loop" /\ any_matches' = FALSE
          /\ region_left' = region_left /\ region_right' = region_right
          /\ SP!Sorted' => SP!SearchInv'
      BY <1>1, <1>2, <1>4, <2>2, <2>3, SearchStarts DEF Types
    <2>5. /\ type' = "SLINE" /\ from' = region_left /\ to' = region_right
          /\ target' = a
      BY <2>3 DEF Search
    <2>6. CallType'
      <3>1. name \in Index \union {Unknown}
        BY <1>4, <2>1 DEF NameOf
      <3>2. QED
        BY <1>1, <1>2, <1>4, <1>5, <2>1, <2>4, <3>1 DEF CallType
    <2>7. info'.fn = name /\ info'.fn_addr = stabs[region_left].n_value
      BY <1>1, <2>1 DEF CallType
    <2>8. ASSUME NEW f \in Files, NEW g \in Funs(f)
          PROVE  /\ region_left = g /\ IsEnd("FUN", g, rfile, region_right)
                 /\ name \in NameOf(g) /\ info'.fn_addr = stabs[g].n_value
                 /\ a = eip - stabs[region_left].n_value
                 /\ SP!SearchInv'
      <3>1. region_left = g /\ IsEnd("FUN", g, rfile, region_right)
        BY <1>6
      <3>2. a = eip - stabs[region_left].n_value
        <4>1. stabs[region_left].n_value <= eip
          BY <1>1, <3>1, FunType
        <4>2. QED
          BY <1>1, <1>5, <4>1, Distance DEF a
      <3>3. SP!Sorted'
        <4>1. \A i \in g .. region_right, k \in g .. region_right :
                i < k /\ stabs[i].n_type = "SLINE" /\ stabs[k].n_type = "SLINE"
                  => stabs[i].n_value <= stabs[k].n_value
          BY <1>1, <3>1, LinesSorted
        <4>2. QED
          BY <1>2, <2>5, <3>1, <4>1 DEF SP!Sorted, SP!Matches, SP!Value
      <3>4. QED
        BY <2>1, <2>4, <2>7, <3>1, <3>2, <3>3
    <2>9. LineSearch'
      <3>1. from' > 0
        BY <1>3, <2>5
      <3>2. Known => a = eip - stabs[region_left].n_value /\ SP!SearchInv'
        BY <2>8 DEF Known
      <3>3. QED
        BY <1>2, <2>5, <3>1, <3>2, Fixed DEF LineSearch
    <2>10. ASSUME NEW f \in Files PROVE HasFun(TypesOf(stabs), f)
      <3>1. PICK i \in from .. to : stabs[i].n_type = "FUN"
        BY <1>1, <1>3, <1>9 DEF Counted
      <3>2. /\ f = lfile /\ IsEnd("SO", f, NStabs - 1, rfile)
            /\ f \in Index /\ f \in Int /\ stabs[f].n_type = "SO" /\ rfile \in Int
        BY <1>1, <2>10, FileType, SizeAssumption DEF FileRight, Index
      <3>3. i \in Index /\ i \in Int /\ i # f /\ f < i /\ i <= rfile
        BY <1>1, <1>3, <3>1, <3>2, SearchRange
      <3>4. \A j \in f + 1 .. i - 1 : j \in f + 1 .. rfile /\ j \in Index
        BY <3>2, <3>3, SizeAssumption DEF Index
      <3>5. \A j \in f + 1 .. i - 1 : stabs[j].n_type # "SO"
        BY <3>2, <3>4 DEF IsEnd
      <3>6. IsLast(TypesOf(stabs), i, {"SO"}, f)
        BY <1>1, <3>2, <3>3, <3>4, <3>5, TableType DEF IsLast
      <3>7. QED
        BY <1>1, <3>1, <3>3, <3>6, TableType DEF HasFun
    <2>11. FunRight'
      BY <1>2, <2>7, <2>8, <2>10, Fixed DEF FunRight, IsEnd
    <2>12. Counted'
      BY <2>4, <2>5 DEF Counted
    <2>13. CallInv'
      BY <1>1, <1>2, <1>7, <2>4, <2>9, <2>11, <2>12 DEF CallInv, Searching
    <2>14. QED
      BY <1>8, <2>4, <2>6, <2>13, TypePartsPrime DEF IInv
  <1>10. CASE /\ region_left > region_right
              /\ info' = [info EXCEPT !.fn_addr = eip]
              /\ Search("SLINE", lfile, rfile, eip)
    <2>1. /\ SP!TypeOK' /\ SP!Unmatched' /\ pc' = "loop" /\ any_matches' = FALSE
          /\ region_left' = lfile /\ region_right' = rfile
      BY <1>1, <1>2, <1>3, <1>10, SearchStarts DEF Types
    <2>2. type' = "SLINE" /\ from' = lfile
      BY <1>10 DEF Search
    <2>3. CallType'
      BY <1>1, <1>2, <1>4, <1>10, <2>1 DEF CallType
    <2>4. info'.fn = Unknown /\ info'.fn_addr = eip
      BY <1>1, <1>10 DEF CallType
    <2>5. \A f \in Files : Funs(f) = {}
      <3> SUFFICES ASSUME NEW f \in Files, NEW g \in Funs(f) PROVE FALSE
        OBVIOUS
      <3>1. region_left = g /\ region_right \in g .. rfile
        BY <1>6 DEF IsEnd
      <3>2. QED
        BY <1>3, <1>10, <3>1
    <2>6. LineSearch'
      BY <1>2, <1>3, <2>2, <2>5, Fixed DEF LineSearch, Known
    <2>7. FunRight'
      BY <1>2, <2>4, <2>5, Fixed DEF FunRight
    <2>8. Counted'
      BY <2>1, <2>2 DEF Counted
    <2>9. CallInv'
      BY <1>1, <1>2, <1>7, <2>1, <2>6, <2>7, <2>8 DEF CallInv, Searching
    <2>10. QED
      BY <1>8, <2>1, <2>3, <2>9, TypePartsPrime DEF IInv
  <1>11. QED
    BY <1>1, <1>9, <1>10, FunDoneCases

(* Going backwards from a line ends at the last stab that names a file.    *)
LEMMA NamesLast ==
  ASSUME lfile \in Index, NEW lline \in Index, NEW file \in FileName(lline)
  PROVE  \/ file = Unknown
         \/ /\ file \in lfile .. lline /\ file \in Index /\ NamesFile(file)
            /\ \A j \in lfile .. lline : NamesFile(j) => j <= file
  <1> DEFINE candidates == { k \in lfile .. lline : NamesFile(k) }
             Last(k) == \A j \in candidates : j <= k
  <1>1. \A k \in candidates : k \in Index
    BY SizeAssumption DEF Index
  <1>2. CASE candidates = {}
    BY <1>2 DEF FileName
  <1>3. CASE candidates # {}
    <2>1. \E k \in candidates : Last(k)
      BY <1>1, <1>3, HasLast
    <2> DEFINE last == CHOOSE k \in candidates : Last(k)
    <2>2. last \in candidates /\ Last(last)
      BY <2>1
    <2>3. file \in NameOf(last)
      BY <1>3 DEF FileName
    <2>4. QED
      BY <1>1, <2>2, <2>3 DEF NameOf
  <1>4. QED
    BY <1>2, <1>3

LEMMA ArgCountType ==
  ASSUME lfun \in Index, rfun \in Index
  PROVE  ArgCount \in 0 .. NStabs
  <1> DEFINE K == { k \in lfun + 1 .. rfun - 1 :
                      \A j \in lfun + 1 .. k : stabs[j].n_type = "PSYM" }
  <1>1. 1 \in Int /\ NStabs \in Int /\ K \subseteq 1 .. NStabs
    BY SizeAssumption DEF Index
  <1>2. IsFiniteSet(1 .. NStabs) /\ Cardinality(1 .. NStabs) = NStabs
    <2>1. IsFiniteSet(1 .. NStabs)
          /\ Cardinality(1 .. NStabs) = IF 1 > NStabs THEN 0 ELSE NStabs - 1 + 1
      BY <1>1, FS_Interval
    <2>2. QED
      BY <2>1, SizeAssumption
  <1>3. IsFiniteSet(K) /\ Cardinality(K) <= NStabs
    BY <1>1, <1>2, FS_Subset
  <1>4. Cardinality(K) \in Nat
    BY <1>3, FS_CardinalityType
  <1>5. QED
    BY <1>3, <1>4, SizeAssumption DEF ArgCount

(* A call that succeeds where the address is known.                        *)
LEMMA LineDoneRight ==
  ASSUME IInv, LineDone, result' = "ok", NEW f \in Files, NEW g \in Funs(f)
  PROVE  /\ info.fn \in NameOf(g) /\ info.fn_addr = stabs[g].n_value
         /\ info'.fn = info.fn /\ info'.fn_addr = info.fn_addr
         /\ info'.narg = Cardinality({ k \in g .. FunEnd(f, g) :
                                         stabs[k].n_type = "PSYM" })
         /\ \E s \in Lines(f, g) :
              /\ info'.line \in s .. End("SLINE", s, FunEnd(f, g))
              /\ \A k \in f .. s :
                   info'.file = k => IsLast(TypesOf(stabs), s, {"SO", "SOL"}, k)
              /\ info'.file \in {Unknown} \union (f .. s)
  <1>1. /\ SP!TypeOK /\ CallType /\ pc = "done" /\ eip \in Addr
        /\ LineSearch /\ FileRight /\ FunRight /\ stabs \in Tables
        /\ lfile \in Index /\ rfile \in Index
    BY TypeParts, SearchRange
       DEF IInv, CallInv, Searching, LineDone, Returned, CallType
  <1>2. /\ lfun = g /\ IsEnd("FUN", g, rfile, rfun)
        /\ info.fn \in NameOf(g) /\ info.fn_addr = stabs[g].n_value
    BY <1>1 DEF FunRight
  <1>3. /\ lfile = f /\ FileEnd(f) = rfile /\ IsEnd("SO", f, NStabs - 1, rfile)
        /\ f \in Index /\ f \in Int /\ g \in f .. rfile /\ g \in Index
        /\ stabs[g].n_type = "FUN" /\ stabs[f].n_type = "SO" /\ rfile \in Int
    BY <1>1, FunType, FileType, SizeAssumption DEF Index
  <1>4. FunEnd(f, g) = rfun /\ rfun \in g .. rfile /\ g \in Int /\ rfun \in Int
    <2>1. g \in Int
      BY <1>3
    <2>2. rfun \in g .. rfile
      BY <1>2 DEF IsEnd
    <2>3. End("FUN", g, rfile) = rfun
      BY <1>2, <1>3, <2>1, EndIs
    <2>4. QED
      BY <1>3, <2>1, <2>2, <2>3 DEF FunEnd
  <1>5. /\ type = "SLINE" /\ from = g /\ to = rfun
        /\ target = eip - stabs[g].n_value /\ SP!SearchInv
    BY <1>1, <1>2 DEF LineSearch, Known
  <1>6. /\ \A j \in g + 1 .. rfun : stabs[j].n_type \notin {"FUN", "SO"}
        /\ \A i \in g + 1 .. rfun :
             stabs[i].n_type = "PSYM" =>
               i < rfun /\ \A j \in g + 1 .. i : stabs[j].n_type = "PSYM"
    BY <1>1, <1>2, <1>3, FunctionRegion
  <1>7. PICK file \in FileName(region_left) :
          info' = [info EXCEPT !.line = region_right, !.file = file, !.narg = ArgCount]
    BY DEF LineDone, Return
  <1>8. /\ info'.fn = info.fn /\ info'.fn_addr = info.fn_addr
        /\ info'.line = region_right /\ info'.file = file /\ info'.narg = ArgCount
    BY <1>1, <1>7 DEF CallType
  <1>9. ArgCount = Cardinality({ k \in g .. rfun : stabs[k].n_type = "PSYM" })
    <2>1. ASSUME NEW k PROVE k \in { x \in g + 1 .. rfun - 1 :
                                      \A j \in g + 1 .. x : stabs[j].n_type = "PSYM" }
                         <=> k \in { x \in g .. rfun : stabs[x].n_type = "PSYM" }
      <3>1. ASSUME k \in g + 1 .. rfun - 1,
                   \A j \in g + 1 .. k : stabs[j].n_type = "PSYM"
            PROVE  k \in g .. rfun /\ stabs[k].n_type = "PSYM"
        BY <1>4, <3>1
      <3>2. ASSUME k \in g .. rfun, stabs[k].n_type = "PSYM"
            PROVE  /\ k \in g + 1 .. rfun - 1
                   /\ \A j \in g + 1 .. k : stabs[j].n_type = "PSYM"
        <4>1. k # g
          BY <1>3, <3>2
        <4>2. k \in g + 1 .. rfun
          BY <1>4, <3>2, <4>1
        <4>3. k < rfun /\ \A j \in g + 1 .. k : stabs[j].n_type = "PSYM"
          BY <1>6, <3>2, <4>2
        <4>4. QED
          BY <1>4, <4>2, <4>3
      <3>3. QED
        BY <3>1, <3>2
    <2>2. { k \in g + 1 .. rfun - 1 :
              \A j \in g + 1 .. k : stabs[j].n_type = "PSYM" }
          = { k \in g .. rfun : stabs[k].n_type = "PSYM" }
      BY <2>1
    <2>3. QED
      BY <1>2, <2>2 DEF ArgCount
  <1>10. \E i \in g .. rfun : i \in Owner(type, from, to, target)
    <2>1. PICK k \in g + 1 .. rfun : stabs[k].n_type = "SLINE" /\ stabs[k].n_value = 0
      BY <1>1, <1>2, <1>3, FunctionRegion
    <2> DEFINE K == { i \in g .. rfun : stabs[i].n_type = "SLINE"
                                       /\ stabs[i].n_value <= target }
    <2>2. 0 <= target
      <3>1. stabs[g].n_value <= eip /\ stabs[g].n_value \in Int /\ eip \in Int
        BY <1>1, <1>3, FunType, TableType, SizeAssumption DEF Addr
      <3>2. QED
        BY <1>5, <3>1
    <2>3. k \in K
      BY <1>4, <2>1, <2>2
    <2>4. \A i \in g .. rfun : i \in Index /\ stabs[i].n_value \in Int
      BY <1>1, <1>5, SearchRange, TableType
    <2>5. K \subseteq Index /\ target \in Int
      BY <1>1, <2>4, SearchRange
    <2>6. PICK i \in K : \A j \in K : j <= i
      BY <2>3, <2>5, HasLast
    <2>7. ASSUME NEW j \in i + 1 .. rfun, stabs[j].n_type = "SLINE"
          PROVE  stabs[j].n_value > target
      <3>1. i \in g .. rfun /\ j \in g .. rfun /\ i < j
        BY <1>4, <2>7
      <3>2. j \notin K
        BY <1>4, <2>6, <3>1
      <3>3. QED
        BY <2>4, <2>5, <2>7, <3>1, <3>2
    <2>8. i \in Owner(type, from, to, target)
      BY <1>5, <2>7 DEF Owner
    <2>9. QED
      BY <2>8
  <1>11. \E s \in Lines(f, g) :
           /\ info'.line \in s .. End("SLINE", s, FunEnd(f, g))
           /\ \A k \in f .. s :
                info'.file = k => IsLast(TypesOf(stabs), s, {"SO", "SOL"}, k)
           /\ info'.file \in {Unknown} \union (f .. s)
    <2> DEFINE s == region_left
    <2>1. s \in Lines(f, g) /\ s \in Reached(type, from, to, target)
      BY <1>1, <1>4, <1>5, <1>10, FoundReached DEF Lines
    <2>2. IsEnd("SLINE", s, rfun, region_right)
      BY <1>1, <1>5, <1>10, FoundReached
    <2>3. s \in g .. rfun /\ stabs[s].n_type = "SLINE" /\ s \in Int
      BY <1>4, <1>5, <2>1 DEF Reached
    <2>4. End("SLINE", s, rfun) = region_right /\ region_right \in s .. rfun
      BY <1>4, <2>2, <2>3, EndIs DEF IsEnd
    <2>5. info'.line \in s .. End("SLINE", s, FunEnd(f, g))
      BY <1>4, <1>8, <2>3, <2>4
    <2>6. s \in Index
      BY <1>1 DEF CallType
    <2>7. \/ file = Unknown
          \/ /\ file \in f .. s /\ file \in Index /\ NamesFile(file)
             /\ \A j \in f .. s : NamesFile(j) => j <= file
      BY <1>1, <1>3, <1>7, <2>6, NamesLast
    <2>8. ASSUME NEW k \in f .. s, file = k
          PROVE  IsLast(TypesOf(stabs), s, {"SO", "SOL"}, k)
      <3>1. k # Unknown
        BY <1>3, SizeAssumption DEF Unknown, Index
      <3>2. /\ k \in Index /\ NamesFile(k) /\ k \in Int
            /\ \A j \in f .. s : NamesFile(j) => j <= k
        BY <1>3, <2>7, <2>8, <3>1
      <3>3. stabs[k].n_type \in {"SO", "SOL"}
        BY <3>2 DEF NamesFile
      <3>4. k < s
        BY <1>3, <2>3, <3>2, <3>3
      <3>5. \A j \in k + 1 .. s - 1 : j \in f .. s /\ j \in Index /\ ~(j <= k)
        BY <1>3, <2>3, <2>6, <3>2, SizeAssumption DEF Index
      <3>6. \A j \in k + 1 .. s - 1 : stabs[j].n_type \notin {"SO", "SOL"}
        BY <1>1, <3>2, <3>5, FileAddress DEF NamesFile
      <3>7. QED
        BY <1>1, <3>2, <3>3, <3>4, <3>5, <3>6, TableType DEF IsLast
    <2>9. file \in {Unknown} \union (f .. s)
      BY <2>7
    <2>10. QED
      BY <1>8, <2>1, <2>5, <2>8, <2>9
  <1>12. QED
    BY <1>2, <1>4, <1>8, <1>9, <1>11

LEMMA LineDoneKeeps == ASSUME IInv, LineDone PROVE IInv'
  <1>1. /\ SP!TypeOK /\ CallType /\ pc = "done" /\ eip \in Addr /\ SP!Unmatched
        /\ LineSearch /\ FileRight /\ FunRight /\ stabs \in Tables /\ CallInv
        /\ lfile \in Index /\ rfile \in Index
    BY TypeParts, SearchRange
       DEF IInv, CallInv, Searching, LineDone, Returned, CallType
  <1>2. /\ UNCHANGED <<stabs, eip, strings_ok, regions>> /\ UNCHANGED search
        /\ phase' = "return"
    BY DEF LineDone, Return
  <1>3. SP!TypeOK' /\ SP!Unmatched'
    BY <1>1, <1>2 DEF SP!TypeOK, SP!Unmatched, SP!Matches, search
  <1>4. CallInv'
    BY <1>1, <1>2, <1>3 DEF CallInv, search, Searching
  <1>5. CASE region_left > region_right
    <2>1. result' = "fail" /\ UNCHANGED info
      BY <1>5 DEF LineDone, Return
    <2>2. CallType'
      BY <1>1, <1>2, <2>1 DEF CallType, search, regions
    <2>3. \A f \in Files : Funs(f) = {}
      <3> SUFFICES ASSUME NEW f \in Files, NEW g \in Funs(f) PROVE FALSE
        OBVIOUS
      <3>1. lfun = g /\ IsEnd("FUN", g, rfile, rfun)
        BY <1>1 DEF FunRight
      <3>2. type = "SLINE" /\ from = g /\ to = rfun
        BY <1>1, <3>1 DEF LineSearch, Known
      <3>3. /\ f \in Index /\ g \in f .. rfile /\ rfile \in Int /\ g \in Int
            /\ IsEnd("SO", f, NStabs - 1, rfile) /\ stabs[g].n_type = "FUN"
        BY <1>1, FunType, FileType, SizeAssumption DEF Index
      <3>4. \E k \in g + 1 .. rfun : stabs[k].n_type = "SLINE"
        BY <1>1, <3>1, <3>3, FunctionRegion
      <3>5. \A k \in g .. rfun : stabs[k].n_type # "SLINE"
        BY <1>1, <1>5, <3>2, SearchDefs DEF SP!Unmatched
      <3>6. \A k \in g + 1 .. rfun : k \in g .. rfun
        BY <3>3
      <3>7. QED
        BY <3>4, <3>5, <3>6
    <2>4. Answers'
      BY <1>2, <2>1, <2>3, NoAnswer
    <2>5. QED
      BY <1>3, <1>4, <2>2, <2>4, TypePartsPrime DEF IInv
  <1>6. CASE ~(region_left > region_right)
    <2>1. PICK file \in FileName(region_left) :
            info' = [info EXCEPT !.line = region_right, !.file = file, !.narg = ArgCount]
      BY <1>6 DEF LineDone
    <2>2. result' = "ok"
      BY <1>6 DEF LineDone, Return
    <2>3. CallType'
      <3>1. file \in Index \union {Unknown}
        BY <1>1, NamesLast DEF CallType
      <3>2. region_right \in Index
        <4>1. /\ region_right \in Int /\ region_right <= to /\ to \in Index
              /\ region_left \in Index
          BY <1>1, SearchRange DEF CallType
        <4>2. QED
          BY <1>6, <4>1, SizeAssumption DEF Index
      <3>3. ArgCount \in 0 .. NStabs
        BY <1>1, ArgCountType DEF CallType
      <3>4. QED
        BY <1>1, <1>2, <2>1, <2>2, <3>1, <3>2, <3>3 DEF CallType, search, regions
    <2>4. UNCHANGED <<stabs, eip>>
      BY <1>2
    <2>5. RightFunction'
      <3>1. ASSUME NEW f \in Files, ~HasFun(TypesOf(stabs), f)
            PROVE  info'.fn = Unknown /\ info'.fn_addr = eip
        <4>1. info.fn = Unknown /\ info.fn_addr = eip
          BY <1>1, <3>1 DEF FunRight
        <4>2. QED
          BY <1>1, <2>1, <4>1 DEF CallType
      <3>2. ASSUME NEW f \in Files, NEW g \in Funs(f)
            PROVE  info'.fn \in NameOf(g) /\ info'.fn_addr = stabs[g].n_value
        BY <2>2, LineDoneRight
      <3>3. QED
        BY <2>4, <3>1, <3>2, Fixed DEF RightFunction
    <2>6. RightSource'
      <3>1. ASSUME NEW f \in Files, NEW g \in Funs(f)
            PROVE  \E s \in Lines(f, g) :
                     /\ info'.line \in s .. End("SLINE", s, FunEnd(f, g))
                     /\ \A k \in f .. s :
                          info'.file = k => IsLast(TypesOf(stabs), s, {"SO", "SOL"}, k)
                     /\ info'.file \in {Unknown} \union (f .. s)
        BY <2>2, <3>1, LineDoneRight
      <3>2. QED
        BY <2>4, <3>1, Fixed DEF RightSource
    <2>7. CountsParameters'
      <3>1. ASSUME NEW f \in Files, NEW g \in Funs(f)
            PROVE  info'.narg = Cardinality({ k \in g .. FunEnd(f, g) :
                                                stabs[k].n_type = "PSYM" })
        BY <2>2, LineDoneRight
      <3>2. QED
        BY <2>4, <3>1, Fixed DEF CountsParameters
    <2>8. Answers'
      BY <2>2, <2>5, <2>6, <2>7 DEF Answers, FailsOnlyIfAbsent
    <2>9. QED
      BY <1>3, <1>4, <2>3, <2>8, TypePartsPrime DEF IInv
  <1>7. QED
    BY <1>5, <1>6

LEMMA StutterKeeps == ASSUME IInv, UNCHANGED vars PROVE IInv'
  <1>1. /\ UNCHANGED <<stabs, eip, strings_ok, phase, info, result>>
        /\ UNCHANGED <<type, from, to, target, region_left, region_right,
                       l, r, addr, any_matches, pc>>
        /\ UNCHANGED <<lfile, rfile, lfun, rfun>>
    BY DEF vars, search, regions
  <1>2. TypeOK'
    BY <1>1 DEF IInv, TypeOK
  <1>3. UNCHANGED SP!vars
    BY <1>1 DEF SP!vars, SP!args
  <1>4. SP!SearchInv => SP!SearchInv'
    BY <1>3, SearchAssumptions, SP!SearchInvStep
  <1>5. SP!TypeOK' /\ SP!Unmatched' /\ (Searching' <=> Searching)
    BY <1>1 DEF IInv, CallInv, SP!TypeOK, SP!Unmatched, SP!Matches, Searching
  <1>6. Counted => Counted'
    BY <1>1 DEF Counted
  <1>7. (FileSearch => FileSearch') /\ (FunSearch => FunSearch')
    BY <1>1, <1>4 DEF FileSearch, FunSearch, PastFirst
  <1>8. LineSearch => LineSearch'
    BY <1>1, <1>4, Fixed DEF LineSearch
  <1>9. FileRight => FileRight'
    BY <1>1, Fixed DEF FileRight, IsEnd
  <1>10. FunRight => FunRight'
    BY <1>1, Fixed DEF FunRight, IsEnd
  <1>11. CallInv'
    BY <1>1, <1>5, <1>6, <1>7, <1>8, <1>9, <1>10 DEF IInv, CallInv
  <1>12. RightFunction' /\ FailsOnlyIfAbsent'
    BY <1>1, Fixed DEF IInv, Answers, RightFunction, FailsOnlyIfAbsent
  <1>13. RightSource'
    BY <1>1, Fixed DEF IInv, Answers, RightSource
  <1>14. CountsParameters'
    BY <1>1, Fixed DEF IInv, Answers, CountsParameters
  <1>15. QED
    BY <1>2, <1>11, <1>12, <1>13, <1>14 DEF IInv, Answers

LEMMA NextKeeps == IInv /\ [Next]_vars => IInv'
  BY StartKeeps, SearchStepKeeps, FileDoneKeeps, FunDoneKeeps, LineDoneKeeps,
     StutterKeeps DEF Next

-----------------------------------------------------------------------------

(* Whatever the table and the address, the three searches and what is read *)
(* after them stay within the table (kdebug.c:138-199).                    *)
THEOREM TypeCorrect == Spec => []TypeOK
  BY InitIInv, NextKeeps, PTL DEF Spec, IInv

(* The function of an address, and where it begins, is the one the table   *)
(* says, and none is invented for a file without functions                 *)
(* (kdebug.c:145-166).                                                     *)
THEOREM RightFunctionCorrect == Spec => []RightFunction
  <1>1. IInv => RightFunction
    BY DEF IInv, Answers
  <1>2. QED
    BY <1>1, InitIInv, NextKeeps, PTL DEF Spec

(* The source file is the one the line's code was written in, and the line *)
(* is read between that line's stab and the next, for the line of the      *)
(* address or one a run of one-byte lines leads to (kdebug.c:170-190).     *)
THEOREM RightSourceCorrect == Spec => []RightSource
  <1>1. IInv => RightSource
    BY DEF IInv, Answers
  <1>2. QED
    BY <1>1, InitIInv, NextKeeps, PTL DEF Spec

(* Every parameter of the function is counted, and nothing else            *)
(* (kdebug.c:193-199).                                                     *)
THEOREM CountsParametersCorrect == Spec => []CountsParameters
  <1>1. IInv => CountsParameters
    BY DEF IInv, Answers
  <1>2. QED
    BY <1>1, InitIInv, NextKeeps, PTL DEF Spec

(* The call does not fail for an address whose function the table knows    *)
(* (kdebug.c:99-102).                                                      *)
THEOREM FailsOnlyIfAbsentCorrect == Spec => []FailsOnlyIfAbsent
  <1>1. IInv => FailsOnlyIfAbsent
    BY DEF IInv, Answers
  <1>2. QED
    BY <1>1, InitIInv, NextKeeps, PTL DEF Spec
=============================================================================
