-------------------------- MODULE StabSearchProofs --------------------------
(***************************************************************************)
(* stab_binsearch for tables of every size: no index leaves the searched   *)
(* range, a negative answer is right, and a positive one is the stab that  *)
(* contains the address or one that a run of one-byte regions leads to.    *)
(* The loop invariant brackets the answer: matching stabs before l are not *)
(* after region_left, those after r start after the address, and addr has  *)
(* moved on only past addresses where a stab starts.                       *)
(***************************************************************************)
EXTENDS StabSearch, TLAPS

LEMMA MidBetween ==
  ASSUME NEW a \in Int, NEW b \in Int, a <= b
  PROVE  (a + b) \div 2 \in a .. b
  OBVIOUS

LEMMA TableType ==
  ASSUME stabs \in Tables, NEW i \in Index
  PROVE  Value(i) \in Addr /\ Value(i) \in Int
  BY TablesAssumption, SizeAssumption DEF Value, Addr

LEMMA CandidateRange ==
  ASSUME TypeOK, Looping, NEW m, Candidate(m)
  PROVE  /\ true_m \in l .. r /\ m \in l .. true_m
         /\ m \in from .. to /\ m \in Index
         /\ Matches(m) /\ Value(m) \in Int
  <1>1. true_m \in l .. r
    BY MidBetween, SizeAssumption DEF TypeOK, Looping, true_m, Index
  <1>2. m \in l .. true_m /\ Matches(m)
    BY DEF Candidate
  <1>3. m \in from .. to /\ m \in Index
    BY <1>1, <1>2, SizeAssumption DEF TypeOK, Index
  <1>4. QED
    BY <1>1, <1>2, <1>3, TableType DEF TypeOK

LEMMA AddrWraps == ASSUME NEW a \in Addr PROVE (a + 1) % AddrSpace \in Addr
  BY SizeAssumption DEF Addr

LEMMA InitType == Init => TypeOK
  <1> SUFFICES ASSUME Init PROVE TypeOK
    OBVIOUS
  <1>1. from \in Int /\ to \in Int /\ from <= to /\ from >= from
    BY SizeAssumption DEF Init, Index
  <1>2. from \in from - 1 .. to /\ to \in from - 1 .. to
    BY <1>1
  <1>3. from \in from .. to + 1 /\ from <= to + 1
    BY <1>1
  <1>4. QED
    BY <1>1, <1>2, <1>3 DEF Init, TypeOK

LEMMA TypeStep == TypeOK /\ [Next]_vars => TypeOK'
  <1> SUFFICES ASSUME TypeOK, [Next]_vars PROVE TypeOK'
    OBVIOUS
  <1>1. CASE NoMatch
    <2>1. true_m \in l .. r
      BY <1>1, MidBetween, SizeAssumption
         DEF TypeOK, NoMatch, Looping, true_m, Index
    <2>2. QED
      BY <1>1, <2>1, SizeAssumption DEF TypeOK, NoMatch, Looping, args, Index
  <1>2. ASSUME NEW m \in Index, Below(m) PROVE TypeOK'
    BY <1>2, CandidateRange, SizeAssumption DEF TypeOK, Below, args, Index
  <1>3. ASSUME NEW m \in Index, Above(m) PROVE TypeOK'
    BY <1>3, CandidateRange, SizeAssumption DEF TypeOK, Above, args, Index
  <1>4. ASSUME NEW m \in Index, Exact(m) PROVE TypeOK'
    <2>1. addr' \in Addr
      BY <1>4, AddrWraps DEF TypeOK, Exact
    <2>2. true_m \in l .. r /\ m \in l .. true_m /\ m \in from .. to
      BY <1>4, CandidateRange DEF Exact
    <2>3. m \in from .. to + 1 /\ m <= r + 1 /\ m \in from - 1 .. to
      BY <2>2, SizeAssumption DEF TypeOK, Index
    <2>4. QED
      BY <1>4, <2>1, <2>3 DEF TypeOK, Exact, args
  <1>5. ASSUME NEW k \in Index \union {-1}, Finish(k) PROVE TypeOK'
    <2>1. CASE any_matches
      <3>1. k \in from - 1 .. to
        BY <1>5, <2>1, SizeAssumption DEF TypeOK, Finish, Rightmost, Index
      <3>2. QED
        BY <1>5, <2>1, <3>1, SizeAssumption DEF TypeOK, Finish, args, Index
    <2>2. CASE ~any_matches
      BY <1>5, <2>2, SizeAssumption DEF TypeOK, Finish, args, Index
    <2>3. QED
      BY <2>1, <2>2
  <1>6. CASE UNCHANGED vars
    BY <1>6 DEF vars, args, TypeOK
  <1>7. QED
    BY <1>1, <1>2, <1>3, <1>4, <1>5, <1>6 DEF Next

(* Whatever the table holds, the search reads no stab outside its range    *)
(* and its results stay within it.                                         *)
THEOREM TypeCorrect == Spec => []TypeOK
  BY InitType, TypeStep, PTL DEF Spec

-----------------------------------------------------------------------------
(* The loop invariant that needs nothing of the table: a search that has   *)
(* met no matching stab has passed over none.                              *)
Unmatched ==
  IF pc = "loop"
    THEN ~any_matches =>
           r = to /\ \A i \in from .. to : i < l => ~Matches(i)
    ELSE region_left > region_right => \A i \in from .. to : ~Matches(i)

LEMMA UnmatchedStep == TypeOK /\ Unmatched /\ [Next]_vars => Unmatched'
  <1> SUFFICES ASSUME TypeOK, Unmatched, [Next]_vars PROVE Unmatched'
    OBVIOUS
  <1>1. CASE NoMatch
    <2>1. true_m \in l .. r
      BY <1>1, MidBetween, SizeAssumption
         DEF TypeOK, NoMatch, Looping, true_m, Index
    <2>2. \A i \in from .. to : i < l' => i < l \/ i \in l .. true_m
      BY <1>1, <2>1, SizeAssumption DEF TypeOK, NoMatch, Index
    <2>3. QED
      BY <1>1, <2>2 DEF NoMatch, Looping, Unmatched, args, Matches
  <1>2. ASSUME NEW m \in Index, Below(m) \/ Above(m) \/ Exact(m)
        PROVE  Unmatched'
    BY <1>2 DEF Below, Above, Exact, Looping, Unmatched
  <1>3. ASSUME NEW k \in Index \union {-1}, Finish(k) PROVE Unmatched'
    <2>1. CASE any_matches
      <3>1. k \in Int /\ k <= region_right
        BY <1>3, <2>1, SizeAssumption DEF TypeOK, Finish, Rightmost, Index
      <3>2. ~(region_left' > region_right')
        BY <1>3, <2>1, <3>1, SizeAssumption DEF TypeOK, Finish, Index
      <3>3. QED
        BY <1>3, <3>2 DEF Finish, Unmatched
    <2>2. CASE ~any_matches
      <3>1. \A i \in from .. to : i < l
        BY <1>3, <2>2, SizeAssumption DEF TypeOK, Finish, Unmatched, Index
      <3>2. QED
        BY <1>3, <2>2, <3>1 DEF Finish, Unmatched, args, Matches
    <2>3. QED
      BY <2>1, <2>2
  <1>4. CASE UNCHANGED vars
    BY <1>4 DEF vars, args, Unmatched, Matches
  <1>5. QED
    BY <1>1, <1>2, <1>3, <1>4 DEF Next

(* A result with region_left > region_right means that no stab of the type *)
(* contains the address, for every table and every range.                  *)
THEOREM NotFoundCorrect == Spec => []NotFoundIsSound
  <1>1. Init => Unmatched
    BY SizeAssumption DEF Init, Unmatched, Index
  <1>2. TypeOK /\ Unmatched => NotFoundIsSound
    BY DEF TypeOK, Unmatched, NotFoundIsSound, Contains
  <1>3. QED
    BY <1>1, <1>2, UnmatchedStep, TypeCorrect, PTL DEF Spec

-----------------------------------------------------------------------------
(* The loop invariant.  SeenExact: addr has moved on only past addresses   *)
(* where some matching stab starts.  Brackets: what lies on either side of *)
(* [l, r].  LeftIsBest: region_left is a stab the search has passed, still *)
(* within reach of the last loop, or no matching stab lies before l.       *)

SeenExact == addr >= target /\ Run(addr)

Brackets ==
  \A i \in from .. to : Matches(i) =>
    /\ i < l => i <= region_left
    /\ i > r => Value(i) > target

LeftIsBest ==
  \/ Matches(region_left) /\ Value(region_left) < addr /\ region_left <= r
  \/ region_left = from /\ \A i \in from .. to : i < l => ~Matches(i)

RightIsEnd == region_right = r /\ region_left <= l /\ (r = to \/ Matches(r + 1))

LoopInv ==
  IF pc = "loop"
    THEN RightIsEnd /\ (InsideSpace => SeenExact /\ Brackets /\ LeftIsBest)
    ELSE FindsContaining

SearchInv == TypeOK /\ Sorted /\ Unmatched /\ LoopInv

(* Integer arithmetic the branches share.                                  *)
LEMMA RangeTypes ==
  ASSUME TypeOK
  PROVE  /\ from \in Int /\ to \in Int /\ l \in Int /\ r \in Int
         /\ region_left \in Int /\ region_right \in Int
         /\ target \in Int /\ addr \in Int /\ addr \in Addr
         /\ \A i \in from .. to : i \in Int /\ i \in Index /\ Value(i) \in Int
  <1>1. \A i \in from .. to : i \in Index
    BY SizeAssumption DEF TypeOK, Index
  <1>2. \A i \in from .. to : Value(i) \in Int
    BY <1>1, TableType DEF TypeOK
  <1>3. QED
    BY <1>1, <1>2, SizeAssumption DEF TypeOK, Index, Addr

LEMMA ArgsFixed ==
  ASSUME UNCHANGED args
  PROVE  /\ Sorted => Sorted'
         /\ InsideSpace' => InsideSpace
         /\ \A i : Matches(i)' = Matches(i) /\ Value(i)' = Value(i)
         /\ from' = from /\ to' = to /\ target' = target
  BY DEF args, Sorted, InsideSpace, Matches, Value

(* A run of stabs one byte apart goes on as far as stabs start.            *)
LEMMA RunShorter ==
  ASSUME TypeOK, NEW a \in Int, NEW b \in Int, b <= a, Run(a)
  PROVE  Run(b)
  BY RangeTypes DEF Run

LEMMA RunLonger ==
  ASSUME TypeOK, NEW a \in Int, Run(a),
         NEW m \in from .. to, Matches(m), Value(m) = a
  PROVE  Run(a + 1)
  <1> SUFFICES ASSUME NEW c \in target .. a
               PROVE  \E i \in from .. to : Matches(i) /\ Value(i) = c
    BY RangeTypes DEF Run
  <1>1. CASE c = a
    BY <1>1
  <1>2. CASE c # a
    <2>1. c \in target .. a - 1
      BY <1>2, RangeTypes
    <2>2. QED
      BY <2>1 DEF Run
  <1>3. QED
    BY <1>1, <1>2

LEMMA NoMatchKeeps ==
  ASSUME SearchInv, NoMatch
  PROVE  LoopInv'
  <1>1. TypeOK /\ LoopInv /\ pc = "loop" /\ pc' = "loop" /\ UNCHANGED args
    BY DEF SearchInv, NoMatch, Looping
  <1>2. true_m \in l .. r
    BY <1>1, RangeTypes, MidBetween DEF NoMatch, Looping, true_m
  <1>3. l' = true_m + 1 /\ UNCHANGED <<region_left, region_right, r, addr>>
    BY DEF NoMatch
  <1>4. \A i \in from .. to : Matches(i) /\ i < l' => i < l
    BY <1>1, <1>2, <1>3, RangeTypes DEF NoMatch
  <1>5. RightIsEnd'
    BY <1>1, <1>2, <1>3, ArgsFixed, RangeTypes DEF LoopInv, RightIsEnd
  <1>6. ASSUME InsideSpace' PROVE (SeenExact /\ Brackets /\ LeftIsBest)'
    <2>1. SeenExact /\ Brackets /\ LeftIsBest
      BY <1>1, <1>6, ArgsFixed DEF LoopInv
    <2>2. SeenExact'
      BY <1>1, <1>3, <2>1, ArgsFixed DEF SeenExact, Run
    <2>3. Brackets'
      BY <1>1, <1>3, <1>4, <2>1, ArgsFixed DEF Brackets
    <2>4. LeftIsBest'
      BY <1>1, <1>3, <1>4, <2>1, ArgsFixed DEF LeftIsBest
    <2>5. QED
      BY <2>2, <2>3, <2>4
  <1>7. QED
    BY <1>1, <1>5, <1>6 DEF LoopInv

LEMMA BelowKeeps ==
  ASSUME SearchInv, NEW m \in Index, Below(m)
  PROVE  LoopInv'
  <1>1. /\ TypeOK /\ Sorted /\ LoopInv /\ pc = "loop" /\ pc' = "loop"
        /\ UNCHANGED args
    BY DEF SearchInv, Below, Looping
  <1>2. /\ true_m \in l .. r /\ m \in l .. true_m /\ m \in from .. to
        /\ Matches(m) /\ Value(m) \in Int
    BY <1>1, CandidateRange DEF Below
  <1>3. /\ l' = true_m + 1 /\ region_left' = m
        /\ UNCHANGED <<region_right, r, addr>> /\ Value(m) < addr
    BY DEF Below
  <1>4. \A i \in from .. to : Matches(i) /\ i < l' => i <= m
    BY <1>1, <1>2, <1>3, RangeTypes DEF Below, Candidate
  <1>5. RightIsEnd'
    BY <1>1, <1>2, <1>3, ArgsFixed, RangeTypes DEF LoopInv, RightIsEnd
  <1>6. ASSUME InsideSpace' PROVE (SeenExact /\ Brackets /\ LeftIsBest)'
    <2>1. SeenExact /\ Brackets /\ LeftIsBest
      BY <1>1, <1>6, ArgsFixed DEF LoopInv
    <2>2. SeenExact'
      BY <1>1, <1>3, <2>1, ArgsFixed DEF SeenExact, Run
    <2>3. Brackets'
      BY <1>1, <1>3, <1>4, <2>1, ArgsFixed DEF Brackets
    <2>4. m <= r
      BY <1>1, <1>2, RangeTypes
    <2>5. LeftIsBest'
      BY <1>1, <1>2, <1>3, <2>4, ArgsFixed DEF LeftIsBest
    <2>6. QED
      BY <2>2, <2>3, <2>5
  <1>7. QED
    BY <1>1, <1>5, <1>6 DEF LoopInv

LEMMA AboveKeeps ==
  ASSUME SearchInv, NEW m \in Index, Above(m)
  PROVE  LoopInv'
  <1>1. /\ TypeOK /\ Sorted /\ LoopInv /\ pc = "loop" /\ pc' = "loop"
        /\ UNCHANGED args
    BY DEF SearchInv, Above, Looping
  <1>2. /\ true_m \in l .. r /\ m \in l .. true_m /\ m \in from .. to
        /\ Matches(m) /\ Value(m) \in Int
    BY <1>1, CandidateRange DEF Above
  <1>3. /\ r' = m - 1 /\ region_right' = m - 1
        /\ UNCHANGED <<region_left, l, addr>> /\ Value(m) > addr
    BY DEF Above
  <1>4. RightIsEnd'
    <2>1. (m - 1) + 1 = m
      BY <1>2, RangeTypes
    <2>2. QED
      BY <1>1, <1>2, <1>3, <2>1, ArgsFixed DEF LoopInv, RightIsEnd
  <1>5. ASSUME InsideSpace' PROVE (SeenExact /\ Brackets /\ LeftIsBest)'
    <2>1. SeenExact /\ Brackets /\ LeftIsBest
      BY <1>1, <1>5, ArgsFixed DEF LoopInv
    <2>2. SeenExact'
      BY <1>1, <1>3, <2>1, ArgsFixed DEF SeenExact, Run
    <2>3. Value(m) > target
      BY <1>1, <1>2, <1>3, <2>1, RangeTypes DEF SeenExact
    <2>4. \A i \in from .. to : Matches(i) /\ i > m - 1 => Value(i) > target
      BY <1>1, <1>2, <2>3, RangeTypes DEF Sorted
    <2>5. Brackets'
      BY <1>1, <1>3, <2>1, <2>4, ArgsFixed DEF Brackets
    <2>6. LeftIsBest'
      <3>1. CASE Matches(region_left) /\ Value(region_left) < addr /\ region_left <= r
        <4>1. region_left \in from .. to /\ Value(region_left) < Value(m)
          BY <1>1, <1>2, <1>3, <3>1, RangeTypes DEF TypeOK
        <4>2. region_left < m
          BY <1>1, <1>2, <3>1, <4>1, RangeTypes DEF Sorted
        <4>3. region_left <= r'
          BY <1>1, <1>2, <1>3, <4>1, <4>2, RangeTypes
        <4>4. QED
          BY <1>1, <1>3, <3>1, <4>3, ArgsFixed DEF LeftIsBest
      <3>2. CASE region_left = from /\ \A i \in from .. to : i < l => ~Matches(i)
        BY <1>1, <1>3, <3>2, ArgsFixed DEF LeftIsBest
      <3>3. QED
        BY <2>1, <3>1, <3>2 DEF LeftIsBest
    <2>7. QED
      BY <2>2, <2>5, <2>6
  <1>6. QED
    BY <1>1, <1>4, <1>5 DEF LoopInv

LEMMA ExactKeeps ==
  ASSUME SearchInv, NEW m \in Index, Exact(m)
  PROVE  LoopInv'
  <1>1. /\ TypeOK /\ Sorted /\ LoopInv /\ pc = "loop" /\ pc' = "loop"
        /\ UNCHANGED args
    BY DEF SearchInv, Exact, Looping
  <1>2. /\ true_m \in l .. r /\ m \in l .. true_m /\ m \in from .. to
        /\ Matches(m) /\ Value(m) \in Int
    BY <1>1, CandidateRange DEF Exact
  <1>3. /\ l' = m /\ region_left' = m /\ addr' = (addr + 1) % AddrSpace
        /\ UNCHANGED <<region_right, r>> /\ Value(m) = addr
    BY DEF Exact
  <1>4. RightIsEnd'
    BY <1>1, <1>2, <1>3, ArgsFixed, RangeTypes DEF LoopInv, RightIsEnd
  <1>5. ASSUME InsideSpace' PROVE (SeenExact /\ Brackets /\ LeftIsBest)'
    <2>1. InsideSpace /\ SeenExact /\ Brackets /\ LeftIsBest
      BY <1>1, <1>5, ArgsFixed DEF LoopInv
    <2>2. addr + 1 \in Addr
      BY <1>2, <1>3, <2>1 DEF InsideSpace
    <2>3. addr' = addr + 1
      BY <1>3, <2>2, SizeAssumption DEF Addr
    <2>4. Run(addr + 1)
      BY <1>1, <1>2, <1>3, <2>1, RunLonger, RangeTypes DEF SeenExact
    <2>5. SeenExact'
      <3>1. addr + 1 >= target /\ addr + 1 \in Int
        BY <1>1, <2>1, RangeTypes DEF SeenExact
      <3>2. QED
        BY <1>1, <2>3, <2>4, <3>1, ArgsFixed DEF SeenExact, Run
    <2>6. \A i \in from .. to : i < m => i <= m
      BY <1>1, <1>2, RangeTypes
    <2>7. Brackets'
      BY <1>1, <1>3, <2>1, <2>6, ArgsFixed DEF Brackets
    <2>8. Value(m) < addr + 1 /\ m <= r
      BY <1>1, <1>2, <1>3, RangeTypes
    <2>9. LeftIsBest'
      BY <1>1, <1>2, <1>3, <2>3, <2>8, ArgsFixed DEF LeftIsBest
    <2>10. QED
      BY <2>5, <2>7, <2>9
  <1>6. QED
    BY <1>1, <1>4, <1>5 DEF LoopInv

(* The loop has closed in on the answer; the last loop of the code finds   *)
(* it between region_left and region_right.                                *)
LEMMA FinishCorrect ==
  ASSUME SearchInv, NEW k \in Index \union {-1}, Finish(k),
         InsideSpace, any_matches,
         NEW i0 \in from .. to, Contains(i0)
  PROVE  Answer(k) /\ EndsBeforeNext(k, region_right)
  <1>1. /\ TypeOK /\ RightIsEnd /\ SeenExact /\ Brackets /\ LeftIsBest
        /\ l = r + 1 /\ Rightmost(k) /\ pc = "loop"
    BY RangeTypes DEF SearchInv, LoopInv, Finish, TypeOK
  <1>2. Matches(i0) /\ i0 < l
    BY <1>1, RangeTypes DEF Contains, Brackets
  <1>3. Matches(region_left) /\ Value(region_left) < addr /\ region_left <= r
    BY <1>1, <1>2 DEF LeftIsBest
  <1>4. region_left \in from .. to /\ region_right = r /\ r \in from .. to
    BY <1>1, <1>3, RangeTypes DEF RightIsEnd, TypeOK
  <1>5. /\ k \in region_left .. region_right /\ Matches(k)
        /\ \A j \in k + 1 .. region_right : ~Matches(j)
    BY <1>1, <1>3, <1>4, RangeTypes DEF Rightmost
  <1>6. k \in from .. to /\ k < l
    BY <1>1, <1>3, <1>4, <1>5, RangeTypes
  <1>7. k = region_left
    BY <1>1, <1>4, <1>5, <1>6, RangeTypes DEF Brackets
  <1>8. Run(Value(k))
    BY <1>1, <1>3, <1>4, <1>7, RunShorter, RangeTypes DEF SeenExact
  <1>9. \A j \in k + 1 .. to : Matches(j) => Value(j) > target
    <2> SUFFICES ASSUME NEW j \in k + 1 .. to, Matches(j) PROVE Value(j) > target
      OBVIOUS
    <2>1. j \in from .. to /\ j > r
      BY <1>1, <1>4, <1>5, <1>6, RangeTypes
    <2>2. QED
      BY <1>1, <2>1 DEF Brackets
  <1>10. EndsBeforeNext(k, region_right)
    BY <1>1, <1>4, <1>5, <1>6, RangeTypes DEF EndsBeforeNext, RightIsEnd
  <1>11. QED
    BY <1>5, <1>6, <1>8, <1>9, <1>10 DEF Answer

LEMMA FinishKeeps ==
  ASSUME SearchInv, NEW k \in Index \union {-1}, Finish(k)
  PROVE  LoopInv'
  <1>1. /\ TypeOK /\ Unmatched /\ pc = "loop" /\ pc' = "done" /\ UNCHANGED args
    BY DEF SearchInv, Finish
  <1>2. ASSUME NEW i0 \in from .. to, Contains(i0), InsideSpace
        PROVE  (Answer(region_left) /\ EndsBeforeNext(region_left, region_right))'
    <2>1. CASE ~any_matches
      <3>1. \A i \in from .. to : i < l
        BY <1>1, <2>1, RangeTypes DEF Finish, Unmatched
      <3>2. QED
        BY <1>1, <1>2, <2>1, <3>1 DEF Unmatched, Contains
    <2>2. CASE any_matches
      <3>1. region_left' = k /\ region_right' = region_right
        BY <2>2 DEF Finish
      <3>2. QED
        BY <1>1, <1>2, <2>2, <3>1, FinishCorrect, ArgsFixed
           DEF Answer, EndsBeforeNext, Run
    <2>3. QED
      BY <2>1, <2>2
  <1>3. \A i \in from .. to : Contains(i)' => Contains(i)
    BY <1>1, ArgsFixed DEF Contains
  <1>4. FindsContaining'
    BY <1>1, <1>2, <1>3, ArgsFixed DEF FindsContaining
  <1>5. QED
    BY <1>1, <1>4 DEF LoopInv

LEMMA SearchInvInit == Init => SearchInv
  <1> SUFFICES ASSUME Init PROVE SearchInv
    OBVIOUS
  <1>1. TypeOK
    BY InitType
  <1>2. pc = "loop" /\ region_right = r /\ region_left = l /\ r = to /\ l = from
    BY DEF Init
  <1>3. \A i \in from .. to : ~(i < l) /\ ~(i > r)
    BY <1>1, <1>2, RangeTypes
  <1>4. Unmatched
    BY <1>2, <1>3 DEF Unmatched
  <1>5. RightIsEnd /\ SeenExact /\ Brackets /\ LeftIsBest
    BY <1>1, <1>2, <1>3, RangeTypes
       DEF Init, RightIsEnd, SeenExact, Brackets, LeftIsBest, Run
  <1>6. QED
    BY <1>1, <1>2, <1>4, <1>5 DEF Init, SearchInv, LoopInv

LEMMA SearchInvStep == SearchInv /\ [Next]_vars => SearchInv'
  <1> SUFFICES ASSUME SearchInv, [Next]_vars PROVE SearchInv'
    OBVIOUS
  <1>1. TypeOK' /\ Unmatched'
    BY TypeStep, UnmatchedStep DEF SearchInv
  <1>2. Sorted'
    <2>1. UNCHANGED args
      BY DEF Next, NoMatch, Below, Above, Exact, Finish, vars
    <2>2. QED
      BY <2>1, ArgsFixed DEF SearchInv
  <1>3. LoopInv'
    <2>1. CASE UNCHANGED vars
      BY <2>1 DEF vars, args, SearchInv, LoopInv, RightIsEnd, SeenExact,
           Brackets, LeftIsBest, InsideSpace, FindsContaining, Contains,
           Answer, Run, EndsBeforeNext, Matches, Value
    <2>2. QED
      BY <2>1, NoMatchKeeps, BelowKeeps, AboveKeeps, ExactKeeps, FinishKeeps
         DEF Next
  <1>4. QED
    BY <1>1, <1>2, <1>3 DEF SearchInv

(* For every table and every range: if a stab of the type contains the     *)
(* address, the search ends with that stab, or with the last of the        *)
(* one-byte regions it leads to, and with the end of the region.           *)
THEOREM FindsCorrect == Spec => []FindsContaining
  <1>1. SearchInv => FindsContaining
    BY DEF SearchInv, LoopInv, FindsContaining
  <1>2. QED
    BY <1>1, SearchInvInit, SearchInvStep, PTL DEF Spec
=============================================================================
