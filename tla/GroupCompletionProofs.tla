------------------------ MODULE GroupCompletionProofs ------------------------
(***************************************************************************)
(* Proofs about GroupCompletion, for groups of any size and any number of  *)
(* deliveries of each member.                                              *)
(***************************************************************************)
EXTENDS GroupCompletion, FiniteSetTheorems, TLAPS

-----------------------------------------------------------------------------
(* What get_group_results returns *)

\* The total of a group is a natural number.
LEMMA TotalIsNat == Total \in Nat
  BY GroupAssumption, FS_CardinalityType DEF Total

\* Listing a finite set gives a sequence of exactly its elements.
LEMMA SetToSeqLists ==
  ASSUME NEW S, IsFiniteSet(S)
  PROVE  /\ SetToSeq(S) \in Seq(S)
         /\ {SetToSeq(S)[i] : i \in DOMAIN SetToSeq(S)} = S
  <1> DEFINE n == Cardinality(S)
             f == SetToSeq(S)
  <1>1. n \in Nat /\ ExistsBijection(1..n, S)
    BY FS_CardinalityType
  <1>2. \E g \in [1..n -> S] : IsInjective(g)
    BY <1>1 DEF ExistsBijection, Bijection, Injection, IsInjective
  <1>3. f \in [1..n -> S] /\ IsInjective(f)
    BY <1>2 DEF SetToSeq
  <1>4. f \in Injection(1..n, S)
    BY <1>3 DEF Injection, IsInjective
  <1>5. IsFiniteSet(1..n) /\ Cardinality(1..n) = n
    BY <1>1, FS_Interval
  <1>6. f \in Surjection(1..n, S)
    BY <1>4, <1>5, FS_Injection
  <1>7. f \in Seq(S)
    BY <1>1, <1>3
  <1>8. \A x \in S : \E i \in 1..n : f[i] = x
    BY <1>6 DEF Surjection
  <1> QED
    BY <1>3, <1>7, <1>8

\* The completed rows of a group are rows of members.
LEMMA RowsOfMembers ==
  ASSUME TypeOK
  PROVE  /\ CompletedRows \subseteq {MemberRow(m) : m \in Member}
         /\ CompletedRows = {MemberRow(m) : m \in {x \in Member : MemberRow(x) \in CompletedRows}}
  <1>1. \A r \in rows : \/ \E i \in 0..(Total - 1) : r = Placeholder(i)
                        \/ \E m \in Member : r = MemberRow(m)
    BY DEF TypeOK
  <1>2. \A i \in 0..(Total - 1) : Placeholder(i).completed = FALSE
    BY DEF Placeholder
  <1>3. CompletedRows \subseteq {MemberRow(m) : m \in Member}
    BY <1>1, <1>2 DEF CompletedRows
  <1> QED
    BY <1>3

\* A member has one row.
LEMMA MemberRowInjective ==
  ASSUME NEW m \in Member, NEW x \in Member, MemberRow(m) = MemberRow(x)
  PROVE  m = x
  <1>1. MemberRow(m).task = MemberRow(x).task
    OBVIOUS
  <1>2. <<"member", m>> = <<"member", x>>
    BY <1>1 DEF MemberRow
  <1> QED
    BY <1>2

\* There are as many member rows as members.
LEMMA MemberRowsCount ==
  /\ IsFiniteSet({MemberRow(m) : m \in Member})
  /\ Cardinality({MemberRow(m) : m \in Member}) = Total
  <1> DEFINE R == {MemberRow(m) : m \in Member}
             f == [m \in Member |-> MemberRow(m)]
  <1>1. f \in [Member -> R] /\ \A r \in R : \E m \in Member : f[m] = r
    OBVIOUS
  <1>2. \A m, x \in Member : f[m] = f[x] => m = x
    BY MemberRowInjective
  <1>3. f \in Bijection(Member, R)
    BY <1>1, <1>2 DEF Bijection, Injection, Surjection, IsInjective
  <1>4. ExistsBijection(Member, R)
    BY <1>3 DEF ExistsBijection
  <1> HIDE DEF R
  <1> QED
    BY <1>4, GroupAssumption, FS_Bijection DEF Total, R

-----------------------------------------------------------------------------
(* Types *)

\* Every variable of GroupCompletion keeps its type.
THEOREM GroupTypeCorrect == Spec => []TypeOK
  <1>1. Init => TypeOK
    BY GroupAssumption DEF Init, TypeOK
  <1>2. TypeOK /\ [Next]_vars => TypeOK'
    <2> SUFFICES ASSUME TypeOK, [Next]_vars PROVE TypeOK'
      OBVIOUS
    <2> USE DEF TypeOK
    <2>1. CASE InitCounter
      BY <2>1 DEF InitCounter, setting, backendVars
    <2>2. CASE InitRows
      <3>1. rows' = {Placeholder(i) : i \in 0..(Total - 1)}
        BY <2>2 DEF InitRows, Placeholders
      <3> QED
        BY <2>2, <3>1 DEF InitRows, setting
    <2>3. ASSUME NEW d \in Delivery, Complete(d) PROVE TypeOK'
      <3>1. CASE CountAndAppend(d)
        <4>1. MemberOf[d] \in Member
          BY GroupAssumption
        <4>2. list' \in Seq(Member)
          BY <3>1, <4>1 DEF CountAndAppend
        <4>3. /\ completed' \in Nat
              /\ count' \in [Delivery -> Nat]
          BY <3>1 DEF CountAndAppend
        <4> QED
          BY <3>1, <4>2, <4>3 DEF CountAndAppend, Goto, setting
      <3>2. CASE Upsert(d)
        <4>1. MemberOf[d] \in Member
          BY GroupAssumption
        <4> QED
          BY <3>2, <4>1 DEF Upsert, Goto, setting
      <3>3. CASE CountRows(d)
        <4>1. Cardinality(CompletedRows) \in Nat
          BY RowsOfMembers, MemberRowsCount, FS_Subset, FS_CardinalityType
        <4> QED
          BY <3>3, <4>1 DEF CountRows, Goto, setting, backendVars
      <3>4. CASE Compare(d)
        BY <3>4 DEF Compare, Goto, setting, backendVars
      <3>5. CASE ReadList(d)
        BY <3>5 DEF ReadList, Goto, setting, backendVars
      <3>6. CASE ReadRows(d)
        <4> DEFINE M == {m \in Member : MemberRow(m) \in CompletedRows}
        <4>1. IsFiniteSet(M) /\ M \subseteq Member
          BY GroupAssumption, FS_Subset
        <4>2. SetToSeq(M) \in Seq(M)
          BY <4>1, SetToSeqLists
        <4>3. SetToSeq(M) \in Seq(Member)
          BY <4>1, <4>2
        <4> QED
          BY <3>6, <4>3 DEF ReadRows, Goto, setting, backendVars
      <3>7. CASE ReadFails(d)
        BY <3>7 DEF ReadFails, Goto, setting, backendVars
      <3>8. CASE EnqueueCallback(d)
        BY <3>8 DEF EnqueueCallback, Goto, setting, backendVars
      <3>9. CASE Interrupt(d)
        BY <3>9 DEF Interrupt, Goto, setting, backendVars
      <3> QED
        BY <2>3, <3>1, <3>2, <3>3, <3>4, <3>5, <3>6, <3>7, <3>8, <3>9 DEF Complete
    <2>4. CASE UNCHANGED vars
      BY <2>4 DEF vars, setting, backendVars
    <2> QED
      BY <2>1, <2>2, <2>3, <2>4 DEF Next
  <1> QED
    BY <1>1, <1>2, PTL DEF Spec
-----------------------------------------------------------------------------
(* The counter: at most one callback *)

\* complete_group_member returns a different count to every delivery, so one
\* at most sees the total; if a callback was enqueued, that one is through.
CounterInv ==
    /\ \A d \in Delivery : pc[d] # "count"
    /\ \A d \in Delivery : pc[d] = "start" => count[d] = 0
    /\ \A d \in Delivery : count[d] <= completed
    /\ \A d, e \in Delivery : count[d] = count[e] /\ count[d] > 0 => d = e
    /\ \A d \in Delivery : pc[d] = "compare" => count[d] > 0
    /\ \A d \in Delivery :
          pc[d] \in {"gather", "callback"} => count[d] = Total /\ count[d] > 0
    /\ callbacks # <<>> =>
          \E d \in Delivery : pc[d] = "end" /\ count[d] = Total /\ count[d] > 0
    /\ Len(callbacks) <= 1

\* The setting is chosen at the start.
LEMMA SettingIsFixed ==
  ASSUME [Next]_vars
  PROVE  UNCHANGED <<store, faulty>>
  <1>1. ASSUME NEW d \in Delivery, Complete(d) PROVE UNCHANGED <<store, faulty>>
    BY <1>1 DEF Complete, CountAndAppend, Upsert, CountRows, Compare, ReadList,
                ReadRows, ReadFails, EnqueueCallback, Interrupt, setting
  <1> QED
    BY <1>1 DEF Next, InitCounter, InitRows, vars, setting

\* A step of the counter's code preserves CounterInv.
LEMMA CounterStep ==
  ASSUME TypeOK, store = "counter", CounterInv, [Next]_vars
  PROVE  CounterInv'
  <1>0. /\ completed \in Nat
        /\ pc \in [Delivery -> {"start", "count", "compare", "gather", "callback", "end"}]
        /\ count \in [Delivery -> Nat]
        /\ Total \in Nat
    BY TotalIsNat DEF TypeOK
  <1>1. CASE InitCounter
    BY <1>1 DEF InitCounter, backendVars, CounterInv
  <1>2. CASE InitRows
    BY <1>2 DEF InitRows
  <1>3. ASSUME NEW d \in Delivery, Complete(d) PROVE CounterInv'
    <2>1. CASE CountAndAppend(d)
      <3>1. /\ pc' = [pc EXCEPT ![d] = "compare"]
            /\ count' = [count EXCEPT ![d] = completed + 1]
            /\ completed' = completed + 1
            /\ callbacks' = callbacks
            /\ pc[d] = "start"
        BY <2>1 DEF CountAndAppend, Goto
      <3> QED
        BY <1>0, <3>1 DEF CounterInv
    <2>2. CASE Upsert(d)
      BY <2>2 DEF Upsert
    <2>3. CASE CountRows(d)
      BY <2>3 DEF CountRows, CounterInv
    <2>4. CASE Compare(d)
      BY <1>0, <2>4 DEF Compare, Goto, IsLast, backendVars, CounterInv
    <2>5. CASE ReadList(d)
      BY <1>0, <2>5 DEF ReadList, Goto, backendVars, CounterInv
    <2>6. CASE ReadRows(d)
      BY <2>6 DEF ReadRows
    <2>7. CASE ReadFails(d)
      BY <1>0, <2>7 DEF ReadFails, Goto, backendVars, CounterInv
    <2>8. CASE EnqueueCallback(d)
      <3>1. /\ pc' = [pc EXCEPT ![d] = "end"]
            /\ UNCHANGED <<count, completed>>
            /\ callbacks' = Append(callbacks, gathered[d])
            /\ pc[d] = "callback"
        BY <2>8 DEF EnqueueCallback, Goto, backendVars
      <3>2. count[d] = Total /\ count[d] > 0
        BY <3>1 DEF CounterInv
      <3>3. callbacks = <<>>
        BY <3>1, <3>2 DEF CounterInv
      <3>4. Len(callbacks') = 1
        BY <3>1, <3>3
      <3> QED
        BY <1>0, <3>1, <3>2, <3>4 DEF CounterInv
    <2>9. CASE Interrupt(d)
      BY <1>0, <2>9 DEF Interrupt, Goto, backendVars, CounterInv
    <2> QED
      BY <1>3, <2>1, <2>2, <2>3, <2>4, <2>5, <2>6, <2>7, <2>8, <2>9 DEF Complete
  <1>4. CASE UNCHANGED vars
    BY <1>4 DEF vars, backendVars, CounterInv
  <1> QED
    BY <1>1, <1>2, <1>3, <1>4 DEF Next

\* CounterInv is an invariant of the backends that count in one step.
LEMMA CounterInvariant == Spec => [](store = "counter" => CounterInv)
  <1> DEFINE I == store = "counter" => CounterInv
  <1>1. Init => I
    BY DEF Init, CounterInv
  <1>2. TypeOK /\ I /\ [Next]_vars => I'
    BY CounterStep, SettingIsFixed
  <1> QED
    BY <1>1, <1>2, GroupTypeCorrect, PTL DEF Spec

\* Whatever is redelivered, interrupted or interleaved, a backend whose
\* complete_group_member counts in one step (in memory, Redis) lets the chord
\* callback be enqueued once at most.
THEOREM OneCallbackPerCounter == Spec => []CounterFiresOnce
  <1>1. (store = "counter" => CounterInv) => CounterFiresOnce
    BY DEF CounterInv, CounterFiresOnce
  <1> QED
    BY <1>1, CounterInvariant, PTL

-----------------------------------------------------------------------------
(* Complete callbacks *)

\* Every member has its row.
AllRowsThere == \A m \in Member : MemberRow(m) \in rows

\* Rows: whoever counted the total did so with every row there, and rows stay.
RowsInv ==
    /\ members = "init" => \A d \in Delivery : pc[d] = "start"
    /\ \A d \in Delivery : pc[d] = "compare" /\ IsLast(count[d]) => AllRowsThere
    /\ \A d \in Delivery : pc[d] \in {"gather", "callback"} => AllRowsThere

\* Counter: the list is as long as the counter says.
ListInv == Len(list) = completed

\* What get_group_results may return after a count of the total.
Enough(s) ==
    s # NoResults =>
        IF store = "rows" THEN Range(s) = Member ELSE s \in Seq(Member) /\ Len(s) >= Total

CompleteInv ==
    /\ store = "rows" => RowsInv
    /\ store = "counter" => ListInv
    /\ \A d \in Delivery : pc[d] = "callback" => Enough(gathered[d])
    /\ \A i \in DOMAIN callbacks : Enough(callbacks[i])

\* A count of the total means that every member has completed.
LEMMA FullCount ==
  ASSUME TypeOK, Cardinality(CompletedRows) = Total
  PROVE  AllRowsThere
  <1>1. CompletedRows = {MemberRow(m) : m \in Member}
    BY RowsOfMembers, MemberRowsCount, FS_Subset
  <1> QED
    BY <1>1 DEF CompletedRows, AllRowsThere

\* With every row there the query returns the result of every member.
LEMMA FullRead ==
  ASSUME AllRowsThere
  PROVE  Range(SetToSeq({m \in Member : MemberRow(m) \in CompletedRows})) = Member
  <1>1. \A m \in Member : MemberRow(m) \in CompletedRows
    BY DEF AllRowsThere, CompletedRows, MemberRow
  <1>2. {m \in Member : MemberRow(m) \in CompletedRows} = Member
    BY <1>1
  <1> QED
    BY <1>2, GroupAssumption, SetToSeqLists DEF Range

\* A list of as many results as members has them all if none is there twice.
LEMMA LongListIsFull ==
  ASSUME NEW s \in Seq(Member), Len(s) >= Total, IsInjective(s)
  PROVE  Range(s) = Member
  <1> DEFINE n == Len(s)
  <1>1. n \in Nat /\ n >= Total /\ s \in [1..n -> Member]
    OBVIOUS
  <1> HIDE DEF n
  <1>2. s \in Injection(1..n, Member)
    BY <1>1 DEF Injection
  <1>3. IsFiniteSet(1..n) /\ Cardinality(1..n) = n
    BY <1>1, FS_Interval
  <1>4. n <= Total /\ (n = Total <=> s \in Surjection(1..n, Member))
    BY <1>2, <1>3, GroupAssumption, FS_Injection DEF Total
  <1>5. s \in Surjection(1..n, Member)
    BY <1>1, <1>4, TotalIsNat
  <1> QED
    BY <1>1, <1>5 DEF Surjection, Range

\* Every step preserves CompleteInv.
LEMMA CompleteStep ==
  ASSUME TypeOK, store = "counter" => CounterInv, CompleteInv, [Next]_vars
  PROVE  CompleteInv'
  <1>0. /\ pc \in [Delivery -> {"start", "count", "compare", "gather", "callback", "end"}]
        /\ count \in [Delivery -> Nat]
        /\ completed \in Nat
        /\ list \in Seq(Member)
        /\ gathered \in [Delivery -> Seq(Member) \cup {NoResults}]
        /\ store \in {"counter", "rows"}
        /\ Total \in Nat
    BY TotalIsNat, GroupAssumption DEF TypeOK
  <1>00. store' = store
    BY SettingIsFixed
  <1>1. CASE InitCounter
    BY <1>1, <1>00 DEF InitCounter, backendVars, CompleteInv, ListInv, Enough
  <1>2. CASE InitRows
    <2>1. RowsInv'
      BY <1>2 DEF InitRows, CompleteInv, RowsInv
    <2> QED
      BY <1>2, <1>00, <2>1 DEF InitRows, CompleteInv, Enough
  <1>3. ASSUME NEW d \in Delivery, Complete(d) PROVE CompleteInv'
    <2>0. members = "enqueued"
      BY <1>3 DEF Complete
    <2>1. CASE CountAndAppend(d)
      <3>1. Len(list') = Len(list) + 1 /\ completed' = completed + 1
        BY <1>0, <2>1, GroupAssumption DEF CountAndAppend
      <3> QED
        BY <1>0, <1>00, <2>1, <3>1 DEF CountAndAppend, Goto, CompleteInv, ListInv, Enough
    <2>2. CASE Upsert(d)
      <3>1. AllRowsThere => AllRowsThere'
        BY <2>2 DEF Upsert, AllRowsThere
      <3>2. RowsInv'
        BY <1>0, <2>0, <2>2, <3>1 DEF Upsert, Goto, CompleteInv, RowsInv
      <3> QED
        BY <1>0, <1>00, <2>2, <3>2 DEF Upsert, Goto, CompleteInv, Enough
    <2>3. CASE CountRows(d)
      <3>1. store = "rows"
        BY <1>0, <2>3 DEF CountRows, CounterInv
      <3>2. AllRowsThere => AllRowsThere'
        BY <2>3 DEF CountRows, backendVars, AllRowsThere
      <3>3. IsLast(count'[d]) => AllRowsThere
        BY <1>0, <2>3, FullCount DEF CountRows, IsLast
      <3>4. RowsInv'
        BY <1>0, <2>0, <2>3, <3>1, <3>2, <3>3 DEF CountRows, Goto, backendVars, CompleteInv, RowsInv
      <3> QED
        BY <1>0, <1>00, <2>3, <3>1, <3>4 DEF CountRows, Goto, CompleteInv, Enough
    <2>4. CASE Compare(d)
      <3>1. store = "rows" => RowsInv'
        BY <1>0, <2>0, <2>4 DEF Compare, Goto, backendVars, CompleteInv, RowsInv, AllRowsThere
      <3> QED
        BY <1>0, <1>00, <2>4, <3>1 DEF Compare, Goto, backendVars, CompleteInv, ListInv, Enough
    <2>5. CASE ReadList(d)
      <3>1. count[d] = Total /\ count[d] <= completed
        BY <2>5 DEF ReadList, CounterInv
      <3>2. Enough(list)
        BY <1>0, <2>5, <3>1 DEF ReadList, CompleteInv, ListInv, Enough
      <3> QED
        BY <1>0, <1>00, <2>5, <3>2 DEF ReadList, Goto, backendVars, CompleteInv, ListInv, Enough
    <2>6. CASE ReadRows(d)
      <3>1. Enough(gathered'[d])
        BY <1>0, <2>6, FullRead DEF ReadRows, CompleteInv, RowsInv, Enough
      <3>2. RowsInv'
        BY <1>0, <2>0, <2>6 DEF ReadRows, Goto, backendVars, CompleteInv, RowsInv, AllRowsThere
      <3> QED
        BY <1>0, <1>00, <2>6, <3>1, <3>2 DEF ReadRows, Goto, backendVars, CompleteInv, Enough
    <2>7. CASE ReadFails(d)
      <3>1. store = "rows" => RowsInv'
        BY <1>0, <2>0, <2>7 DEF ReadFails, Goto, backendVars, CompleteInv, RowsInv, AllRowsThere
      <3> QED
        BY <1>0, <1>00, <2>7, <3>1 DEF ReadFails, Goto, backendVars, CompleteInv, ListInv, Enough
    <2>8. CASE EnqueueCallback(d)
      <3>1. /\ pc' = [pc EXCEPT ![d] = "end"]
            /\ UNCHANGED <<members, count, rows, list, completed, gathered>>
            /\ callbacks' = Append(callbacks, gathered[d])
            /\ pc[d] = "callback"
        BY <2>8 DEF EnqueueCallback, Goto, backendVars
      <3>2. callbacks \in Seq(Seq(Member) \cup {NoResults})
        BY DEF TypeOK
      <3>3. \A i \in DOMAIN callbacks' :
               \/ i \in DOMAIN callbacks /\ callbacks'[i] = callbacks[i]
               \/ callbacks'[i] = gathered[d]
        BY <1>0, <3>1, <3>2
      <3>4. \A i \in DOMAIN callbacks' : Enough(callbacks'[i])
        BY <3>1, <3>3 DEF CompleteInv
      <3>5. store = "rows" => RowsInv'
        BY <1>0, <2>0, <3>1 DEF CompleteInv, RowsInv, AllRowsThere
      <3> QED
        BY <1>0, <1>00, <3>1, <3>4, <3>5 DEF CompleteInv, ListInv, Enough
    <2>9. CASE Interrupt(d)
      <3>1. store = "rows" => RowsInv'
        BY <1>0, <2>0, <2>9 DEF Interrupt, Goto, backendVars, CompleteInv, RowsInv, AllRowsThere
      <3> QED
        BY <1>0, <1>00, <2>9, <3>1 DEF Interrupt, Goto, backendVars, CompleteInv, ListInv, Enough
    <2> QED
      BY <1>3, <2>1, <2>2, <2>3, <2>4, <2>5, <2>6, <2>7, <2>8, <2>9 DEF Complete
  <1>4. CASE UNCHANGED vars
    BY <1>4 DEF vars, setting, backendVars, CompleteInv, RowsInv, AllRowsThere, ListInv, Enough
  <1> QED
    BY <1>1, <1>2, <1>3, <1>4 DEF Next

\* A chord callback that carries results carries those of every member: always
\* with Postgres, and with a counter unless a redelivered member is counted
\* twice; for groups of any size and any interleaving.
THEOREM CallbacksAreComplete == Spec => []CallbackComplete
  <1>1. Init => CompleteInv
    BY DEF Init, CompleteInv, RowsInv, ListInv
  <1>2. TypeOK /\ (store = "counter" => CounterInv) /\ CompleteInv /\ [Next]_vars
          => CompleteInv'
    BY CompleteStep
  <1>3. TypeOK /\ CompleteInv => CallbackComplete
    BY LongListIsFull DEF CompleteInv, Enough, CallbackComplete
  <1> QED
    BY <1>1, <1>2, <1>3, GroupTypeCorrect, CounterInvariant, PTL DEF Spec
=============================================================================
