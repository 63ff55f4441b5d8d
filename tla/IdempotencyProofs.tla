-------------------------- MODULE IdempotencyProofs --------------------------
(***************************************************************************)
(* Proofs about IdempotencyGuard, for any number of requests and bodies.   *)
(***************************************************************************)
EXTENDS IdempotencyGuard, FiniteSetTheorems, TLAPS

(* The guard keeps its types.                                              *)
THEOREM TypeCorrect == Spec => []TypeOK
<1>. USE GuardAssumption DEF None, NoRow
<1>1. Init => TypeOK
  BY DEF Init, TypeOK
<1>2. TypeOK /\ [Next]_vars => TypeOK'
  <2>. SUFFICES ASSUME TypeOK, [Next]_vars PROVE TypeOK'
    OBVIOUS
  <2>. USE DEF TypeOK, table, time, history, Goto
  <2>1. ASSUME NEW q \in Requests, Load(q) PROVE TypeOK'
    BY <2>1 DEF Load
  <2>2. ASSUME NEW q \in Requests, Resolve(q) PROVE TypeOK'
    BY <2>2 DEF Resolve, Replays, AnswerWith, Refuse, Row
  <2>3. ASSUME NEW q \in Requests, Reclaim(q) PROVE TypeOK'
    <3>1. CASE slot = NoRow
      BY <2>3, <3>1 DEF Reclaim
    <3>2. CASE slot \in Row
      <4>1. slot' = [slot EXCEPT !.status = "pending", !.resp = None,
                                 !.createdAt = stamps + 1]
        BY <2>3, <3>2 DEF Reclaim, Row
      <4>2. slot' \in Row
        <5>. DEFINE again == [slot EXCEPT !.status = "pending"]
                    empty == [again EXCEPT !.resp = None]
        <5>1. again \in Row
          BY <3>2 DEF Row
        <5>2. empty \in Row
          BY <5>1 DEF Row
        <5>3. slot' = [empty EXCEPT !.createdAt = stamps + 1]
          BY <4>1
        <5>. HIDE DEF empty
        <5>. QED  BY <5>2, <5>3 DEF Row
      <4>3. /\ stamps' = stamps + 1
            /\ reclaimed' = reclaimed \cup {q}
            /\ pc' = [pc EXCEPT ![q] = "run"]
            /\ UNCHANGED <<picked, elapsed, saw, answer, ran, cleaned>>
        BY <2>3 DEF Reclaim
      <4>. QED  BY <4>2, <4>3
    <3>. QED  BY <3>1, <3>2
  <2>4. ASSUME NEW q \in Requests, Reserve(q) PROVE TypeOK'
    <3>1. slot' \in Row \cup {NoRow}
      BY <2>4 DEF Reserve, Row
    <3>. QED  BY <2>4, <3>1 DEF Reserve
  <2>5. ASSUME NEW q \in Requests, ReserveFails(q) PROVE TypeOK'
    BY <2>5 DEF ReserveFails
  <2>6. ASSUME NEW q \in Requests, Reload(q) PROVE TypeOK'
    BY <2>6 DEF Reload, Replays, AnswerWith, Refuse, Row
  <2>7. ASSUME NEW q \in Requests, RunCommits(q) \/ RunThrows(q) PROVE TypeOK'
    BY <2>7 DEF RunCommits, RunThrows
  <2>8. ASSUME NEW q \in Requests, NEW ok \in BOOLEAN, DeletePending(q, ok) PROVE TypeOK'
    BY <2>8 DEF DeletePending
  <2>9. ASSUME NEW q \in Requests, Finalize(q) PROVE TypeOK'
    <3>1. slot' \in Row \cup {NoRow}
      <4>1. CASE slot = NoRow
        BY <2>9, <4>1 DEF Finalize
      <4>2. CASE slot \in Row
        <5>1. slot' = [slot EXCEPT !.status = "completed", !.resp = q]
          BY <2>9, <4>2 DEF Finalize, Row
        <5>. QED  BY <5>1, <4>2 DEF Row
      <4>. QED  BY <4>1, <4>2
    <3>. QED  BY <2>9, <3>1 DEF Finalize, AnswerWith
  <2>10. ASSUME NEW q \in Requests, Dies(q) PROVE TypeOK'
    BY <2>10 DEF Dies
  <2>11. CASE TimePasses
    BY <2>11 DEF TimePasses
  <2>12. CASE Cleanup \/ CleanupSelect \/ CleanupDelete
    BY <2>12 DEF Cleanup, CleanupSelect, CleanupDelete, Cleanable, Row
  <2>13. CASE UNCHANGED vars
    BY <2>13 DEF vars
  <2>. QED  BY <2>1, <2>2, <2>3, <2>4, <2>5, <2>6, <2>7, <2>8, <2>9, <2>10, <2>11,
               <2>12, <2>13 DEF Next, Guard
<1>. QED  BY <1>1, <1>2, PTL DEF Spec

-----------------------------------------------------------------------------
(* Sets of requests are finite, and grow and shrink by one.                *)
LEMMA Counting ==
  ASSUME NEW S \in SUBSET Requests, NEW q
  PROVE  /\ Cardinality(S) \in Nat
         /\ Cardinality(S \cup {q}) = IF q \in S THEN Cardinality(S) ELSE Cardinality(S) + 1
         /\ Cardinality(S \ {q}) = IF q \in S THEN Cardinality(S) - 1 ELSE Cardinality(S)
<1>1. IsFiniteSet(S)
  BY GuardAssumption, FS_Subset
<1>. QED  BY <1>1, FS_CardinalityType, FS_AddElement, FS_RemoveElement

LEMMA RunsInit == Init => RunsInv
<1>. SUFFICES ASSUME Init PROVE RunsInv
  OBVIOUS
<1>1. Starting = {}
  BY DEF Init, Starting
<1>2. Vacant = 1
  BY DEF Init, Vacant
<1>3. Cardinality({}) = 0
  BY FS_EmptySet
<1>4. RunsBounded
  BY <1>1, <1>2, <1>3 DEF Init, RunsBounded
<1>. QED  BY <1>4 DEF Init, RunsInv, HistoryInOrder, SlotNotCleaned

(* Every step keeps the account of runs: a start takes the vacant place or *)
(* is entered as taken over, a callback that fails gives its place back.   *)
LEMMA RunsStep == TypeOK /\ TypeOK' /\ RunsInv /\ [Next]_vars => RunsInv'
<1>. SUFFICES ASSUME TypeOK, TypeOK', RunsInv, [Next]_vars PROVE RunsInv'
  OBVIOUS
<1>. USE DEF RunsInv, Goto, table, time, history
<1>. DEFINE R == Cardinality(ran)
            S == Cardinality(Starting)
            T == Cardinality(reclaimed)
            C == Cardinality(cleaned)
<1>a. /\ R \in Nat /\ S \in Nat /\ T \in Nat /\ C \in Nat
      /\ R' \in Nat /\ S' \in Nat /\ T' \in Nat /\ C' \in Nat
  BY Counting DEF TypeOK, Starting
<1>b. Vacant \in {0, 1} /\ Vacant' \in {0, 1}
  BY DEF Vacant
<1>c. ASSUME UNCHANGED <<ran, Starting, Vacant, reclaimed, cleaned>> PROVE RunsBounded'
  BY <1>c DEF RunsBounded
<1>1. ASSUME NEW q \in Requests, Load(q) PROVE RunsInv'
  <2>1. Starting' = Starting
    BY <1>1 DEF Load, Starting, TypeOK
  <2>2. RunsBounded'
    BY <1>1, <1>c, <2>1 DEF Load, Vacant
  <2>3. slot # NoRow => slot.id # q
    BY <1>1 DEF Load, SlotNotCleaned
  <2>. QED  BY <1>1, <2>2, <2>3 DEF Load, HistoryInOrder, SlotNotCleaned, TypeOK, Row
<1>2. ASSUME NEW q \in Requests, Resolve(q) \/ ReserveFails(q) \/ Reload(q) PROVE RunsInv'
  <2>1. \E to \in {"answered", "refused", "failed", "reload"} : pc' = [pc EXCEPT ![q] = to]
    BY <1>2 DEF Resolve, ReserveFails, Reload, AnswerWith, Refuse
  <2>2. pc[q] \in {"resolve", "reserve", "reload"}
    BY <1>2 DEF Resolve, ReserveFails, Reload
  <2>3. UNCHANGED <<slot, ran, reclaimed, cleaned>>
    BY <1>2 DEF Resolve, ReserveFails, Reload, AnswerWith, Refuse
  <2>4. Starting' = Starting
    BY <2>1, <2>2 DEF Starting, TypeOK
  <2>5. RunsBounded'
    BY <1>c, <2>3, <2>4 DEF Vacant
  <2>. QED  BY <2>1, <2>2, <2>3, <2>5 DEF HistoryInOrder, SlotNotCleaned, TypeOK, Row
<1>3. ASSUME NEW q \in Requests, Reclaim(q) PROVE RunsInv'
  <2>1. /\ pc[q] = "resolve" /\ pc' = [pc EXCEPT ![q] = "run"]
        /\ reclaimed' = reclaimed \cup {q} /\ UNCHANGED <<ran, cleaned>>
    BY <1>3 DEF Reclaim
  <2>2. /\ slot = NoRow <=> slot' = NoRow
        /\ slot # NoRow => slot'.id = slot.id
    <3>1. CASE slot = NoRow
      BY <1>3, <3>1 DEF Reclaim
    <3>2. CASE slot # NoRow
      <4>1. slot \in Row
        BY <3>2 DEF TypeOK
      <4>2. slot' = [slot EXCEPT !.status = "pending", !.resp = None, !.createdAt = stamps']
        BY <1>3, <3>2 DEF Reclaim
      <4>3. slot'.id = slot.id /\ slot'.status = "pending"
        BY <4>1, <4>2 DEF Row
      <4>4. slot' # NoRow
        BY <4>3, <4>1, <4>2 DEF NoRow, Row, None
      <4> QED BY <3>2, <4>3, <4>4
    <3> QED BY <3>1, <3>2
  <2>3. Starting' = Starting \cup {q} /\ q \notin Starting
    BY <2>1 DEF Starting, TypeOK
  <2>4. S' = S + 1
    BY <2>3, Counting DEF Starting
  <2>5. T' = T + 1
    BY <2>1, Counting DEF HistoryInOrder, TypeOK
  <2>6. Vacant' = Vacant
    BY <2>2 DEF Vacant
  <2>7. RunsBounded'
    BY <1>a, <1>b, <2>1, <2>4, <2>5, <2>6 DEF RunsBounded
  <2>. QED  BY <2>1, <2>2, <2>7 DEF HistoryInOrder, SlotNotCleaned, TypeOK, Row
<1>4. ASSUME NEW q \in Requests, Reserve(q) PROVE RunsInv'
  <2>1. /\ pc[q] = "reserve" /\ pc' = [pc EXCEPT ![q] = "run"]
        /\ UNCHANGED <<ran, reclaimed, cleaned>>
    BY <1>4 DEF Reserve
  <2>2. slot = NoRow /\ slot' # NoRow /\ slot'.id = q
    BY <1>4 DEF Reserve, NoRow
  <2>3. Starting' = Starting \cup {q} /\ q \notin Starting
    BY <2>1 DEF Starting, TypeOK
  <2>4. S' = S + 1
    BY <2>3, Counting DEF Starting
  <2>5. Vacant = 1 /\ Vacant' = 0
    BY <2>2 DEF Vacant
  <2>6. RunsBounded'
    BY <1>a, <2>1, <2>4, <2>5 DEF RunsBounded
  <2>. QED  BY <2>1, <2>2, <2>6 DEF HistoryInOrder, SlotNotCleaned, TypeOK
<1>5. ASSUME NEW q \in Requests, RunCommits(q) PROVE RunsInv'
  <2>1. /\ pc[q] = "run" /\ pc' = [pc EXCEPT ![q] = "finalize"]
        /\ ran' = ran \cup {q} /\ UNCHANGED <<slot, reclaimed, cleaned>>
    BY <1>5 DEF RunCommits
  <2>2. Starting' = Starting \ {q} /\ q \in Starting
    BY <2>1 DEF Starting, TypeOK
  <2>3. S' = S - 1
    BY <2>2, Counting DEF Starting
  <2>4. R' = R + 1
    BY <2>1, Counting DEF HistoryInOrder, TypeOK
  <2>5. Vacant' = Vacant
    BY <2>1 DEF Vacant
  <2>6. RunsBounded'
    BY <1>a, <1>b, <2>1, <2>3, <2>4, <2>5 DEF RunsBounded
  <2>. QED  BY <2>1, <2>6 DEF HistoryInOrder, SlotNotCleaned, TypeOK, Row
<1>6. ASSUME NEW q \in Requests, RunThrows(q) PROVE RunsInv'
  <2>1. /\ pc[q] = "run" /\ pc' = [pc EXCEPT ![q] = "delete"]
        /\ UNCHANGED <<slot, ran, reclaimed, cleaned>>
    BY <1>6 DEF RunThrows
  <2>2. Starting' = Starting
    BY <2>1 DEF Starting, TypeOK
  <2>3. RunsBounded'
    BY <1>c, <2>1, <2>2 DEF Vacant
  <2>. QED  BY <2>1, <2>3 DEF HistoryInOrder, SlotNotCleaned, TypeOK, Row
<1>7. ASSUME NEW q \in Requests, NEW ok \in BOOLEAN, DeletePending(q, ok) PROVE RunsInv'
  <2>1. /\ pc[q] = "delete" /\ pc' = [pc EXCEPT ![q] = "failed"]
        /\ slot' \in {slot, NoRow} /\ UNCHANGED <<ran, reclaimed, cleaned>>
    BY <1>7 DEF DeletePending
  <2>2. Starting' = Starting \ {q} /\ q \in Starting
    BY <2>1 DEF Starting, TypeOK
  <2>3. S' = S - 1
    BY <2>2, Counting DEF Starting
  <2>4. RunsBounded'
    BY <1>a, <1>b, <2>1, <2>3 DEF RunsBounded
  <2>. QED  BY <2>1, <2>4 DEF HistoryInOrder, SlotNotCleaned, TypeOK, Row
<1>8. ASSUME NEW q \in Requests, Finalize(q) PROVE RunsInv'
  <2>1. /\ pc[q] = "finalize" /\ pc' = [pc EXCEPT ![q] = "answered"]
        /\ UNCHANGED <<ran, reclaimed, cleaned>>
    BY <1>8 DEF Finalize, AnswerWith
  <2>2. /\ slot = NoRow <=> slot' = NoRow
        /\ slot # NoRow => slot'.id = slot.id
    BY <1>8 DEF Finalize, TypeOK, Row, NoRow, None
  <2>3. Starting' = Starting
    BY <2>1 DEF Starting, TypeOK
  <2>4. RunsBounded'
    BY <1>c, <2>1, <2>2, <2>3 DEF Vacant
  <2>. QED  BY <2>1, <2>2, <2>4 DEF HistoryInOrder, SlotNotCleaned, TypeOK, Row
<1>9. ASSUME NEW q \in Requests, Dies(q) PROVE RunsInv'
  <2>1. /\ pc[q] \in {"resolve", "reserve", "reload", "run", "delete", "finalize"}
        /\ pc' = [pc EXCEPT ![q] = "failed"]
        /\ UNCHANGED <<slot, ran, reclaimed, cleaned>>
    BY <1>9 DEF Dies
  <2>2. Starting' = Starting \ {q}
    BY <2>1 DEF Starting, TypeOK
  <2>3. S' = IF q \in Starting THEN S - 1 ELSE S
    BY <2>2, Counting DEF Starting
  <2>4. Vacant' = Vacant
    BY <2>1 DEF Vacant
  <2>5. RunsBounded'
    <3>1. S' <= S
      BY <1>a, <2>3
    <3>. QED  BY <1>a, <1>b, <3>1, <2>1, <2>4 DEF RunsBounded
  <2>. QED  BY <2>1, <2>5 DEF HistoryInOrder, SlotNotCleaned, TypeOK, Row
<1>10. CASE TimePasses \/ CleanupSelect \/ UNCHANGED vars
  <2>1. UNCHANGED <<slot, pc, ran, reclaimed, cleaned>>
    BY <1>10 DEF TimePasses, CleanupSelect, vars
  <2>2. RunsBounded'
    BY <1>c, <2>1 DEF Vacant, Starting
  <2>. QED  BY <2>1, <2>2 DEF HistoryInOrder, SlotNotCleaned
<1>11. CASE Cleanup \/ CleanupDelete
  <2>1. /\ slot # NoRow /\ slot' = NoRow /\ cleaned' = cleaned \cup {slot.id}
        /\ UNCHANGED <<pc, ran, reclaimed>>
    BY <1>11 DEF Cleanup, CleanupDelete, Cleanable
  <2>2. C' = C + 1
    BY <2>1, Counting DEF SlotNotCleaned, TypeOK
  <2>3. Vacant = 0 /\ Vacant' = 1
    BY <2>1 DEF Vacant
  <2>4. Starting' = Starting
    BY <2>1 DEF Starting
  <2>5. RunsBounded'
    BY <1>a, <2>1, <2>2, <2>3, <2>4 DEF RunsBounded
  <2>. QED  BY <2>1, <2>5 DEF HistoryInOrder, SlotNotCleaned
<1>. QED  BY <1>1, <1>2, <1>3, <1>4, <1>5, <1>6, <1>7, <1>8, <1>9, <1>10, <1>11
             DEF Next, Guard

(* However many requests carry the key, and however their statements, the  *)
(* passing of time and the cleanups interleave, the push takes effect at   *)
(* most once more often than its row was taken over or cleaned up.         *)
THEOREM OnceUnlessExcusedHolds == Spec => []OnceUnlessExcused
<1>1. TypeOK /\ RunsInv => OnceUnlessExcused
  <2>1. SUFFICES ASSUME TypeOK, RunsInv PROVE OnceUnlessExcused
    OBVIOUS
  <2>2. /\ Cardinality(ran) \in Nat /\ Cardinality(Starting) \in Nat
        /\ Cardinality(reclaimed) \in Nat /\ Cardinality(cleaned) \in Nat
    <3>1. \A S \in SUBSET Requests : Cardinality(S) \in Nat
      BY Counting
    <3>. QED  BY <2>1, <3>1 DEF TypeOK, Starting
  <2>3. Vacant \in {0, 1}
    BY DEF Vacant
  <2>. QED  BY <2>1, <2>2, <2>3 DEF RunsInv, RunsBounded, OnceUnlessExcused
<1>. QED  BY <1>1, RunsInit, RunsStep, TypeCorrect, PTL DEF Spec

-----------------------------------------------------------------------------
(* What excuses a second run is never taken back.                          *)
LEMMA ExcusesStay == [Next]_vars /\ Unexcused' => Unexcused
<1>1. [Next]_vars => reclaimed \subseteq reclaimed' /\ cleaned \subseteq cleaned'
  BY DEF Next, Guard, Load, Resolve, Reclaim, Reserve, ReserveFails, Reload, RunCommits,
         RunThrows, DeletePending, Finalize, Dies, TimePasses, Cleanup, CleanupSelect,
         CleanupDelete, vars, table, time, history
<1>. QED  BY <1>1 DEF Unexcused

(* Until a row is taken over or cleaned up, the invariant of the           *)
(* refinement holds.                                                       *)
LEMMA PromptStep ==
  ASSUME TypeOK, TypeOK', PromptInv, [Next]_vars
  PROVE  PromptInv'
<1>. SUFFICES ASSUME Unexcused' PROVE PromptInv'
  BY DEF PromptInv
<1>0. Unexcused
  BY ExcusesStay
<1>. USE <1>0 DEF PromptInv, Goto, table, time, history
<1>1. ASSUME NEW q \in Requests, Load(q) PROVE PromptInv'
  <2>1. /\ saw' = [saw EXCEPT ![q] = slot]
        /\ pc[q] = "load"
        /\ pc' = [pc EXCEPT ![q] = IF slot = NoRow THEN "reserve" ELSE "resolve"]
        /\ UNCHANGED <<slot, picked, stamps, elapsed, ran>>
    BY <1>1 DEF Load
  <2>3. OwnerWorks'
    BY <2>1 DEF OwnerWorks, Working, TypeOK
  <2>4. EffectIsOwners'
    BY <2>1 DEF EffectIsOwners, TypeOK, Row
  <2>5. CopiesHold'
    BY <2>1 DEF CopiesHold, TypeOK
  <2>. QED  BY <2>3, <2>4, <2>5
<1>2. ASSUME NEW q \in Requests, Resolve(q) \/ ReserveFails(q) \/ Reload(q) PROVE PromptInv'
  <2>1. PICK to \in {"answered", "refused", "failed", "reload"} : pc' = [pc EXCEPT ![q] = to]
    BY <1>2 DEF Resolve, ReserveFails, Reload, AnswerWith, Refuse
  <2>2. pc[q] \in {"resolve", "reserve", "reload"}
    BY <1>2 DEF Resolve, ReserveFails, Reload
  <2>3. UNCHANGED <<slot, picked, stamps, elapsed, saw, ran>>
    BY <1>2 DEF Resolve, ReserveFails, Reload
  <2>5. OwnerWorks'
    BY <2>1, <2>3 DEF OwnerWorks, Working, TypeOK
  <2>6. EffectIsOwners'
    BY <2>1, <2>2, <2>3 DEF EffectIsOwners, TypeOK, Row
  <2>7. CopiesHold'
    BY <2>3 DEF CopiesHold
  <2>. QED  BY <2>5, <2>6, <2>7
<1>3. ASSUME NEW q \in Requests, Reclaim(q) PROVE FALSE
  BY <1>3 DEF Reclaim, Unexcused
<1>4. ASSUME NEW q \in Requests, Reserve(q) PROVE PromptInv'
  <2>1. /\ slot = NoRow
        /\ pc[q] = "reserve"
        /\ pc' = [pc EXCEPT ![q] = "run"]
        /\ UNCHANGED <<picked, elapsed, saw, ran>>
    BY <1>4 DEF Reserve
  <2>2. /\ slot' # NoRow /\ slot'.status = "pending" /\ slot'.id = q
        /\ slot'.hash = Body[q] /\ slot'.createdAt = stamps + 1
    BY <1>4 DEF Reserve, NoRow
  <2>4. Working = {}
    BY <2>1 DEF OwnerWorks
  <2>5. OwnerWorks'
    BY <2>1, <2>2, <2>4 DEF OwnerWorks, Working, TypeOK
  <2>6. EffectIsOwners'
    BY <2>1, <2>2 DEF EffectIsOwners, TypeOK
  <2>7. CopiesHold'
    BY <2>1 DEF CopiesHold, NoRow
  <2>. QED  BY <2>5, <2>6, <2>7
<1>5. ASSUME NEW q \in Requests, RunCommits(q) PROVE PromptInv'
  <2>1. /\ pc[q] = "run" /\ pc' = [pc EXCEPT ![q] = "finalize"]
        /\ ran' = ran \cup {q} /\ UNCHANGED <<slot, picked, stamps, elapsed, saw>>
    BY <1>5 DEF RunCommits
  <2>2. slot # NoRow /\ slot.status = "pending" /\ slot.id = q
    BY <2>1 DEF OwnerWorks, Working
  <2>4. OwnerWorks'
    BY <2>1, <2>2 DEF OwnerWorks, Working, TypeOK
  <2>5. EffectIsOwners'
    BY <2>1, <2>2 DEF EffectIsOwners, TypeOK
  <2>6. CopiesHold'
    BY <2>1 DEF CopiesHold
  <2>. QED  BY <2>4, <2>5, <2>6
<1>6. ASSUME NEW q \in Requests, RunThrows(q) PROVE PromptInv'
  <2>1. /\ pc[q] = "run" /\ pc' = [pc EXCEPT ![q] = "delete"]
        /\ UNCHANGED <<slot, picked, stamps, elapsed, saw, ran>>
    BY <1>6 DEF RunThrows
  <2>3. OwnerWorks'
    BY <2>1 DEF OwnerWorks, Working, TypeOK
  <2>4. EffectIsOwners'
    BY <2>1 DEF EffectIsOwners, TypeOK, Row
  <2>5. CopiesHold'
    BY <2>1 DEF CopiesHold
  <2>. QED  BY <2>3, <2>4, <2>5
<1>7. ASSUME NEW q \in Requests, NEW ok \in BOOLEAN, DeletePending(q, ok) PROVE PromptInv'
  <2>1. /\ pc[q] = "delete" /\ pc' = [pc EXCEPT ![q] = "failed"]
        /\ slot' \in {slot, NoRow} /\ UNCHANGED <<picked, stamps, elapsed, saw, ran>>
    BY <1>7 DEF DeletePending
  <2>2. slot # NoRow /\ slot.status = "pending" /\ slot.id = q /\ Working = {q}
    BY <2>1 DEF OwnerWorks, Working
  <2>4. OwnerWorks'
    BY <2>1, <2>2 DEF OwnerWorks, Working, TypeOK
  <2>5. ran = {}
    BY <2>1, <2>2 DEF EffectIsOwners
  <2>6. EffectIsOwners'
    BY <2>1, <2>2, <2>5 DEF EffectIsOwners, TypeOK
  <2>7. CopiesHold'
    BY <2>1, <2>2 DEF CopiesHold
  <2>. QED  BY <2>4, <2>6, <2>7
<1>8. ASSUME NEW q \in Requests, Finalize(q) PROVE PromptInv'
  <2>1. /\ pc[q] = "finalize" /\ pc' = [pc EXCEPT ![q] = "answered"]
        /\ UNCHANGED <<picked, stamps, elapsed, saw, ran>>
    BY <1>8 DEF Finalize, AnswerWith
  <2>2. slot # NoRow /\ slot.status = "pending" /\ slot.id = q /\ Working = {q}
    BY <2>1 DEF OwnerWorks, Working
  <2>3. /\ slot' # NoRow /\ slot'.status = "completed" /\ slot'.resp = q
        /\ slot'.id = q /\ slot'.hash = slot.hash /\ slot'.createdAt = slot.createdAt
    BY <1>8, <2>2 DEF Finalize, TypeOK, Row, NoRow
  <2>5. OwnerWorks'
    BY <2>1, <2>2 DEF OwnerWorks, Working, TypeOK
  <2>6. EffectIsOwners'
    BY <2>1, <2>2, <2>3 DEF EffectIsOwners
  <2>7. CopiesHold'
    BY <2>1, <2>2 DEF CopiesHold
  <2>. QED  BY <2>5, <2>6, <2>7
<1>9. ASSUME NEW q \in Requests, Dies(q) PROVE PromptInv'
  <2>1. /\ pc' = [pc EXCEPT ![q] = "failed"]
        /\ UNCHANGED <<slot, picked, stamps, elapsed, saw, ran>>
    BY <1>9 DEF Dies
  <2>3. OwnerWorks'
    BY <2>1 DEF OwnerWorks, Working, TypeOK
  <2>4. EffectIsOwners'
    BY <2>1 DEF EffectIsOwners, TypeOK, Row
  <2>5. CopiesHold'
    BY <2>1 DEF CopiesHold
  <2>. QED  BY <2>3, <2>4, <2>5
<1>10. CASE TimePasses \/ CleanupSelect
  BY <1>10 DEF TimePasses, CleanupSelect, OwnerWorks, Working, EffectIsOwners, CopiesHold
<1>11. ASSUME Cleanup \/ CleanupDelete PROVE FALSE
  BY <1>11 DEF Cleanup, CleanupDelete, Unexcused
<1>12. CASE UNCHANGED vars
  BY <1>12 DEF vars, OwnerWorks, Working, EffectIsOwners, CopiesHold
<1>. QED  BY <1>1, <1>2, <1>3, <1>4, <1>5, <1>6, <1>7, <1>8, <1>9, <1>10, <1>11, <1>12
             DEF Next, Guard

(* The end of a request maps to a reply of the abstract specification.     *)
LEMMA EndReplies ==
  ASSUME TypeOK, NEW q \in Requests, pc[q] \notin {"answered", "refused", "failed"},
         NEW to \in {"answered", "refused", "failed"}, pc' = [pc EXCEPT ![q] = to],
         NEW r, answer' = [answer EXCEPT ![q] = r]
  PROVE  /\ ReplyTo[q] = "none"
         /\ ReplyTo' = [ReplyTo EXCEPT ![q] = IF to = "answered" THEN r ELSE "error"]
BY DEF ReplyTo, TypeOK, None

(* The replies stay as they are while no request ends.                     *)
LEMMA NoReply ==
  ASSUME TypeOK, NEW q \in Requests, pc[q] \notin {"answered", "refused", "failed"},
         NEW to, to \notin {"answered", "refused", "failed"}, pc' = [pc EXCEPT ![q] = to],
         answer' = answer
  PROVE  ReplyTo' = ReplyTo
BY DEF ReplyTo, TypeOK, None

(* A step of the guard is a step of AtMostOnce: committing the callback    *)
(* takes effect, ending the request replies, a take-over and the removal   *)
(* of a row void the promise.                                              *)
LEMMA GuardStep ==
  ASSUME TypeOK, PromptInv, [Next]_vars
  PROVE  [Promise!Next]_<<EffectOf, ReplyTo, Excused>>
<1>. SUFFICES ASSUME ~Excused' PROVE [Promise!Next]_<<EffectOf, ReplyTo, Excused>>
  BY DEF Promise!Next, Promise!Void, Excused
<1>0. Unexcused /\ Excused' = Excused
  BY ExcusesStay DEF Excused
<1>. USE <1>0 DEF PromptInv, Goto, table, time, history
<1>1. ASSUME NEW q \in Requests,
             \/ Load(q) \/ Reserve(q) \/ ReserveFails(q) \/ RunThrows(q)
      PROVE  UNCHANGED <<EffectOf, ReplyTo>>
  <2>1. /\ pc[q] \in {"load", "reserve", "run"} /\ UNCHANGED <<answer, ran>>
    BY <1>1 DEF Load, Reserve, ReserveFails, RunThrows
  <2>2. PICK to \in {"reserve", "resolve", "reload", "run", "delete"} :
          pc' = [pc EXCEPT ![q] = to]
    BY <1>1 DEF Load, Reserve, ReserveFails, RunThrows
  <2>3. ReplyTo' = ReplyTo
    BY <2>1, <2>2, NoReply
  <2>4. EffectOf' = EffectOf
    BY <2>1 DEF EffectOf
  <2>. QED  BY <2>3, <2>4
<1>2. ASSUME NEW q \in Requests, Dies(q) \/ (\E ok \in BOOLEAN : DeletePending(q, ok))
      PROVE  Promise!Fail(q)
  <2>1. /\ pc[q] \notin {"answered", "refused", "failed"} /\ UNCHANGED <<answer, ran>>
        /\ pc' = [pc EXCEPT ![q] = "failed"]
    BY <1>2 DEF Dies, DeletePending
  <2>2. answer' = [answer EXCEPT ![q] = answer[q]]
    BY <2>1 DEF TypeOK
  <2>3. ReplyTo[q] = "none" /\ ReplyTo' = [ReplyTo EXCEPT ![q] = "error"]
    BY <2>1, <2>2, EndReplies
  <2>. QED  BY <2>1, <2>3 DEF Promise!Fail, EffectOf
<1>3. ASSUME NEW q \in Requests, pc[q] \notin {"answered", "refused", "failed"},
             pc' \in {[pc EXCEPT ![q] = "refused"], [pc EXCEPT ![q] = "failed"]},
             UNCHANGED <<answer, ran>>
      PROVE  Promise!Fail(q)
  <2>1. answer' = [answer EXCEPT ![q] = answer[q]]
    BY <1>3 DEF TypeOK
  <2>2. ReplyTo[q] = "none" /\ ReplyTo' = [ReplyTo EXCEPT ![q] = "error"]
    <3>1. CASE pc' = [pc EXCEPT ![q] = "refused"]
      BY <1>3, <2>1, <3>1, EndReplies
    <3>2. CASE pc' = [pc EXCEPT ![q] = "failed"]
      BY <1>3, <2>1, <3>2, EndReplies
    <3>. QED  BY <1>3, <3>1, <3>2
  <2>. QED  BY <1>3, <2>2 DEF Promise!Fail, EffectOf
<1>4. ASSUME NEW q \in Requests, Replays(q, slot), slot # NoRow,
             pc[q] \in {"resolve", "reload"}, AnswerWith(q, slot.resp), UNCHANGED ran
      PROVE  Promise!Reply(q)
  <2>1. slot.status = "completed" /\ slot.hash = Body[q]
    BY <1>4 DEF Replays
  <2>2. /\ slot.id \in Requests /\ slot.resp = slot.id /\ ran = {slot.id}
        /\ Body[slot.id] = Body[q]
    BY <1>4, <2>1 DEF EffectIsOwners, TypeOK, Row
  <2>3. EffectOf = slot.id /\ EffectOf' = EffectOf
    BY <1>4, <2>2 DEF EffectOf
  <2>4. ReplyTo[q] = "none" /\ ReplyTo' = [ReplyTo EXCEPT ![q] = slot.id]
    BY <1>4, <2>2, EndReplies DEF AnswerWith
  <2>5. slot.id # "none"
    BY <2>2, GuardAssumption
  <2>. QED  BY <2>2, <2>3, <2>4, <2>5 DEF Promise!Reply
<1>5. ASSUME NEW q \in Requests, Resolve(q) PROVE Promise!Next
  <2>1. CASE Replays(q, saw[q]) /\ AnswerWith(q, saw[q].resp)
    <3>1. saw[q] = slot /\ slot # NoRow
      BY <1>5, <2>1 DEF Resolve, Replays, CopiesHold, NoRow
    <3>2. Promise!Reply(q)
      BY <1>4, <1>5, <2>1, <3>1 DEF Resolve
    <3>. QED  BY <3>2 DEF Promise!Next
  <2>2. CASE Refuse(q)
    <3>1. Promise!Fail(q)
      BY <1>3, <1>5, <2>2 DEF Resolve, Refuse
    <3>. QED  BY <3>1 DEF Promise!Next
  <2>. QED  BY <1>5, <2>1, <2>2 DEF Resolve
<1>6. ASSUME NEW q \in Requests, Reload(q) PROVE Promise!Next
  <2>1. CASE Replays(q, slot) /\ AnswerWith(q, slot.resp)
    <3>1. slot # NoRow
      BY <2>1 DEF Replays, NoRow
    <3>2. Promise!Reply(q)
      BY <1>4, <1>6, <2>1, <3>1 DEF Reload
    <3>. QED  BY <3>2 DEF Promise!Next
  <2>2. CASE Refuse(q) \/ (Goto(q, "failed") /\ UNCHANGED answer)
    <3>1. Promise!Fail(q)
      BY <1>3, <1>6, <2>2 DEF Reload, Refuse
    <3>. QED  BY <3>1 DEF Promise!Next
  <2>. QED  BY <1>6, <2>1, <2>2 DEF Reload
<1>7. ASSUME NEW q \in Requests, Reclaim(q) PROVE FALSE
  BY <1>7 DEF Reclaim, Excused, Unexcused
<1>8. ASSUME NEW q \in Requests, RunCommits(q) PROVE Promise!TakeEffect(q)
  <2>1. /\ pc[q] = "run" /\ pc' = [pc EXCEPT ![q] = "finalize"]
        /\ ran' = ran \cup {q} /\ UNCHANGED <<slot, answer>>
    BY <1>8 DEF RunCommits
  <2>2. slot # NoRow /\ slot.status = "pending" /\ slot.id = q
    BY <2>1 DEF OwnerWorks, Working
  <2>3. ran = {} /\ ran' = {q}
    BY <2>1, <2>2 DEF EffectIsOwners
  <2>4. EffectOf = "none" /\ EffectOf' = q
    BY <2>3 DEF EffectOf, None
  <2>5. ReplyTo' = ReplyTo
    BY <2>1, NoReply
  <2>6. ReplyTo[q] = "none"
    BY <2>1 DEF ReplyTo, None
  <2>. QED  BY <2>4, <2>5, <2>6 DEF Promise!TakeEffect
<1>9. ASSUME NEW q \in Requests, Finalize(q) PROVE Promise!Reply(q)
  <2>1. /\ pc[q] = "finalize" /\ pc' = [pc EXCEPT ![q] = "answered"]
        /\ answer' = [answer EXCEPT ![q] = q] /\ ran' = ran
    BY <1>9 DEF Finalize, AnswerWith
  <2>2. slot # NoRow /\ slot.status = "pending" /\ slot.id = q
    BY <2>1 DEF OwnerWorks, Working
  <2>3. ran = {q}
    BY <2>1, <2>2 DEF EffectIsOwners
  <2>4. EffectOf = q /\ EffectOf' = q
    BY <2>1, <2>3 DEF EffectOf
  <2>5. ReplyTo[q] = "none" /\ ReplyTo' = [ReplyTo EXCEPT ![q] = q]
    BY <2>1, EndReplies
  <2>. QED  BY <2>4, <2>5, GuardAssumption DEF Promise!Reply
<1>10. CASE TimePasses \/ CleanupSelect
  <2>1. UNCHANGED <<pc, answer, ran>>
    BY <1>10 DEF TimePasses, CleanupSelect
  <2>. QED  BY <2>1 DEF EffectOf, ReplyTo
<1>11. ASSUME Cleanup \/ CleanupDelete PROVE FALSE
  BY <1>11 DEF Cleanup, CleanupDelete, Excused, Unexcused
<1>12. CASE UNCHANGED vars
  BY <1>12 DEF vars, EffectOf, ReplyTo
<1>. QED  BY <1>0, <1>1, <1>2, <1>5, <1>6, <1>7, <1>8, <1>9, <1>10, <1>11, <1>12
             DEF Next, Guard, Promise!Next

(* The guard implements AtMostOnce, however rows age: one request with     *)
(* this key takes effect, at most once, and every answer is the response   *)
(* of that request to a request with the same body, until a row is taken   *)
(* over as stale or cleaned up.                                            *)
THEOREM GuardKeepsPromise == Spec => AtMostOnceSpec
<1>1. Init => PromptInv
  BY DEF Init, PromptInv, OwnerWorks, Working, EffectIsOwners, CopiesHold
<1>2. Init => Promise!Init
  BY DEF Init, Promise!Init, EffectOf, ReplyTo, None, Excused, Unexcused
<1>. QED  BY <1>1, <1>2, PromptStep, GuardStep, TypeCorrect, PTL
             DEF Spec, AtMostOnceSpec, Promise!Spec

-----------------------------------------------------------------------------
(***************************************************************************)
(* Answers.  What a request is answered with has gone from a callback's    *)
(* commit to the row and from the row to a copy; AnswersInv follows it.    *)
(***************************************************************************)
IsCompleted(r) == r # NoRow /\ r.status = "completed"
AnswersInv ==
    /\ AnswersAreRuns
    /\ \A q \in Requests : /\ IsCompleted(saw[q]) => saw[q].resp \in ran
                           /\ pc[q] = "finalize" => q \in ran

LEMMA AnswersStep == TypeOK /\ AnswersInv /\ [Next]_vars => AnswersInv'
<1> SUFFICES ASSUME TypeOK, AnswersInv, [Next]_vars PROVE AnswersInv'
    OBVIOUS
<1> USE DEF TypeOK, AnswersInv, AnswersAreRuns, IsCompleted, table, time, history, Goto
<1>1. ASSUME NEW q \in Requests, Load(q) PROVE AnswersInv'
    BY <1>1 DEF Load
<1>2. ASSUME NEW q \in Requests, Resolve(q) PROVE AnswersInv'
    <2>1. CASE Replays(q, saw[q]) /\ AnswerWith(q, saw[q].resp)
        BY <1>2, <2>1 DEF Resolve, Replays, AnswerWith, NoRow, Row
    <2>2. CASE Refuse(q)
        BY <1>2, <2>2 DEF Resolve, Refuse
    <2> QED
        BY <1>2, <2>1, <2>2 DEF Resolve
<1>3. ASSUME NEW q \in Requests, Reclaim(q) PROVE AnswersInv'
    <2>1. ~ IsCompleted(slot')
        BY <1>3 DEF Reclaim, NoRow, Row
    <2> QED
        BY <1>3, <2>1 DEF Reclaim
<1>4. ASSUME NEW q \in Requests, Reserve(q) PROVE AnswersInv'
    BY <1>4 DEF Reserve
<1>5. ASSUME NEW q \in Requests, ReserveFails(q) PROVE AnswersInv'
    BY <1>5 DEF ReserveFails
<1>6. ASSUME NEW q \in Requests, Reload(q) PROVE AnswersInv'
    <2>1. CASE Replays(q, slot) /\ AnswerWith(q, slot.resp)
        BY <1>6, <2>1 DEF Reload, Replays, AnswerWith, NoRow, Row
    <2>2. CASE Refuse(q) \/ (Goto(q, "failed") /\ UNCHANGED answer)
        BY <1>6, <2>2 DEF Reload, Refuse
    <2> QED
        BY <1>6, <2>1, <2>2 DEF Reload
<1>7. ASSUME NEW q \in Requests, RunCommits(q) PROVE AnswersInv'
    BY <1>7 DEF RunCommits
<1>8. ASSUME NEW q \in Requests, RunThrows(q) PROVE AnswersInv'
    BY <1>8 DEF RunThrows
<1>9. ASSUME NEW q \in Requests, NEW ok \in BOOLEAN, DeletePending(q, ok) PROVE AnswersInv'
    BY <1>9 DEF DeletePending
<1>10. ASSUME NEW q \in Requests, Finalize(q) PROVE AnswersInv'
    <2>1. q \in ran
        BY <1>10 DEF Finalize
    <2>2. IsCompleted(slot') => slot'.resp = q
        BY <1>10 DEF Finalize, Row
    <2> QED
        BY <1>10, <2>1, <2>2 DEF Finalize, AnswerWith
<1>11. ASSUME NEW q \in Requests, Dies(q) PROVE AnswersInv'
    BY <1>11 DEF Dies
<1>12. CASE TimePasses
    BY <1>12 DEF TimePasses
<1>13. CASE Cleanup \/ CleanupDelete
    BY <1>13 DEF Cleanup, CleanupDelete
<1>14. CASE CleanupSelect
    BY <1>14 DEF CleanupSelect
<1>15. CASE UNCHANGED vars
    BY <1>15 DEF vars
<1> QED
    BY <1>1, <1>2, <1>3, <1>4, <1>5, <1>6, <1>7, <1>8, <1>9, <1>10, <1>11, <1>12, <1>13, <1>14, <1>15
       DEF Next, Guard

(* AnswersAreRuns for any number of requests, however rows age: nobody is  *)
(* given the response of a callback whose changes were not committed.      *)
THEOREM AnswersAreRunsHolds == Spec => []AnswersAreRuns
<1>1. Init => AnswersInv
    BY DEF Init, AnswersInv, AnswersAreRuns, IsCompleted
<1>2. AnswersInv => AnswersAreRuns
    BY DEF AnswersInv
<1> QED
    BY <1>1, <1>2, AnswersStep, TypeCorrect, PTL DEF Spec

-----------------------------------------------------------------------------
(***************************************************************************)
(* While no row was taken over or cleaned up, one request at most works,   *)
(* under its own row; what is stored and copied is of the row's body.      *)
(***************************************************************************)
OwnRow(r) == IsCompleted(r) => Body[r.resp] = r.hash
OwnInv ==
    Unexcused =>
        /\ \A q \in Working : slot # NoRow /\ slot.id = q
        /\ slot # NoRow => slot.hash = Body[slot.id]
        /\ OwnRow(slot) /\ \A q \in Requests : OwnRow(saw[q])
        /\ \A q \in Requests : answer[q] # None => Body[answer[q]] = Body[q]

LEMMA OwnStep == TypeOK /\ AnswersInv /\ OwnInv /\ [Next]_vars => OwnInv'
<1> SUFFICES ASSUME TypeOK, AnswersInv, OwnInv, [Next]_vars, Unexcused' PROVE OwnInv'
    BY DEF OwnInv
<1> USE DEF TypeOK, OwnInv, OwnRow, IsCompleted, Working, table, time, history, Goto
<1>0. Unexcused
    BY ExcusesStay
<1>1. ASSUME NEW q \in Requests, Load(q) PROVE OwnInv'
    BY <1>0, <1>1 DEF Load
<1>2. ASSUME NEW q \in Requests, Resolve(q) PROVE OwnInv'
    <2>1. CASE Replays(q, saw[q]) /\ AnswerWith(q, saw[q].resp)
        BY <1>0, <1>2, <2>1 DEF Resolve, Replays, AnswerWith, NoRow, Row
    <2>2. CASE Refuse(q)
        BY <1>0, <1>2, <2>2 DEF Resolve, Refuse
    <2> QED
        BY <1>2, <2>1, <2>2 DEF Resolve
<1>3. ASSUME NEW q \in Requests, Reclaim(q) PROVE FALSE
    BY <1>3 DEF Reclaim, Unexcused
<1>4. ASSUME NEW q \in Requests, Reserve(q) PROVE OwnInv'
    <2>1. Working = {}
        BY <1>0, <1>4 DEF Reserve
    <2>2. slot' # NoRow /\ slot'.id = q /\ slot'.hash = Body[q] /\ slot'.status = "pending"
        BY <1>4 DEF Reserve, NoRow
    <2> QED
        BY <1>0, <1>4, <2>1, <2>2 DEF Reserve
<1>5. ASSUME NEW q \in Requests, ReserveFails(q) PROVE OwnInv'
    BY <1>0, <1>5 DEF ReserveFails
<1>6. ASSUME NEW q \in Requests, Reload(q) PROVE OwnInv'
    <2>1. CASE Replays(q, slot) /\ AnswerWith(q, slot.resp)
        BY <1>0, <1>6, <2>1 DEF Reload, Replays, AnswerWith, NoRow, Row
    <2>2. CASE Refuse(q) \/ (Goto(q, "failed") /\ UNCHANGED answer)
        BY <1>0, <1>6, <2>2 DEF Reload, Refuse
    <2> QED
        BY <1>6, <2>1, <2>2 DEF Reload
<1>7. ASSUME NEW q \in Requests, RunCommits(q) PROVE OwnInv'
    BY <1>0, <1>7 DEF RunCommits
<1>8. ASSUME NEW q \in Requests, RunThrows(q) PROVE OwnInv'
    BY <1>0, <1>8 DEF RunThrows
<1>9. ASSUME NEW q \in Requests, NEW ok \in BOOLEAN, DeletePending(q, ok) PROVE OwnInv'
    <2>1. Working \subseteq {q} /\ Working' = {}
        BY <1>0, <1>9 DEF DeletePending
    <2> QED
        BY <1>0, <1>9, <2>1 DEF DeletePending
<1>10. ASSUME NEW q \in Requests, Finalize(q) PROVE OwnInv'
    <2>1. slot # NoRow /\ slot.id = q /\ slot.hash = Body[q] /\ Working' = {}
        BY <1>0, <1>10 DEF Finalize, AnswerWith
    <2>2. slot'.resp = q /\ slot'.hash = Body[q] /\ slot'.id = q
        BY <1>10, <2>1 DEF Finalize, Row, NoRow
    <2> QED
        BY <1>0, <1>10, <2>1, <2>2 DEF Finalize, AnswerWith
<1>11. ASSUME NEW q \in Requests, Dies(q) PROVE OwnInv'
    BY <1>0, <1>11 DEF Dies
<1>12. CASE TimePasses
    BY <1>0, <1>12 DEF TimePasses
<1>13. ASSUME Cleanup \/ CleanupDelete PROVE FALSE
    BY <1>13 DEF Cleanup, CleanupDelete, Unexcused
<1>14. CASE CleanupSelect
    BY <1>0, <1>14 DEF CleanupSelect
<1>15. CASE UNCHANGED vars
    BY <1>0, <1>15 DEF vars
<1> QED
    BY <1>1, <1>2, <1>3, <1>4, <1>5, <1>6, <1>7, <1>8, <1>9, <1>10, <1>11, <1>12, <1>13, <1>14, <1>15
       DEF Next, Guard

(* OwnAnswerUnlessExcused for any number of requests: as long as no row    *)
(* was taken over or cleaned up, a replay is of the same body.             *)
THEOREM OwnAnswerUnlessExcusedHolds == Spec => []OwnAnswerUnlessExcused
<1>1. Init => AnswersInv /\ OwnInv
    BY DEF Init, AnswersInv, AnswersAreRuns, IsCompleted, OwnInv, OwnRow, Working
<1>2. OwnInv => OwnAnswerUnlessExcused
    BY DEF OwnInv, Unexcused, OwnAnswerUnlessExcused
<1> QED
    BY <1>1, <1>2, AnswersStep, OwnStep, TypeCorrect, PTL DEF Spec
=============================================================================
