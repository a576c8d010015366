--------------------------- MODULE Safeguards_proofs --------------------------
(***************************************************************************)
(* What is proved of the circuit breaker, of the reconciler, of the notes  *)
(* of what does not agree and of the tree a restart rebuilds.  They share  *)
(* nothing, so each part below stands on its own, with an invariant of its *)
(* own.                                                                    *)
(***************************************************************************)
EXTENDS OrderGate, TreeRestart, Reconciler, AnomalyNotes, FiniteSetTheorems, SequenceTheorems,
        WellFoundedInduction, TLAPS

(***************************************************************************)
(* The breaker: what it guarantees for any number of callers, any policy   *)
(* and any clock bound.                                                    *)
(***************************************************************************)
\* The invariant that is inductive: the three guarantees, and that nobody was
\* let through in the future.
GateInv ==
  /\ TypeOK
  /\ ClosedBelowThreshold
  /\ FailuresInOrder
  /\ InFlightPredatesOpening
  /\ \A c \in Callers : admittedAt[c] <= now

\* Pruning keeps a suffix of the deque.
LEMMA PrunedIsSuffix ==
  ASSUME NEW fs \in Seq(0..MaxTime), NEW t \in Int
  PROVE  /\ Pruned(fs, t) \in Seq(0..MaxTime)
         /\ Len(Pruned(fs, t)) <= Len(fs)
         /\ \E k \in 1..(Len(fs) + 1) :
              /\ Len(Pruned(fs, t)) = Len(fs) - k + 1
              /\ \A i \in 1..Len(Pruned(fs, t)) : Pruned(fs, t)[i] = fs[k + i - 1]
<1> DEFINE k == FirstFresh(fs, t)
<1>1. k \in 1..(Len(fs) + 1)
  <2> DEFINE fresh == {i \in DOMAIN fs : /\ fs[i] >= t - Window
                                        /\ \A j \in 1..i - 1 : fs[j] < t - Window}
  <2>1. Len(fs) \in Nat /\ DOMAIN fs = 1..Len(fs)
    BY LenProperties
  <2>2. CASE fresh = {}
    BY <2>1, <2>2 DEF FirstFresh
  <2>3. CASE fresh # {}
    <3>1. k \in fresh
      BY <2>3 DEF FirstFresh
    <3> QED
      BY <2>1, <3>1
  <2> QED
    BY <2>2, <2>3
<1>2. Pruned(fs, t) = SubSeq(fs, k, Len(fs))
  BY DEF Pruned
<1> HIDE DEF k
<1>3. /\ SubSeq(fs, k, Len(fs)) \in Seq(0..MaxTime)
      /\ Len(SubSeq(fs, k, Len(fs))) = Len(fs) - k + 1
      /\ \A i \in 1..(Len(fs) - k + 1) : SubSeq(fs, k, Len(fs))[i] = fs[k + i - 1]
  <2>1. /\ Len(fs) \in Nat
        /\ \A i \in k..Len(fs) : fs[i] \in 0..MaxTime
    <3>1. Len(fs) \in Nat /\ fs \in [1..Len(fs) -> 0..MaxTime]
      BY LenProperties
    <3> QED
      BY <1>1, <3>1
  <2>2. k \in Int /\ Len(fs) \in Int
    BY <1>1, <2>1
  <2>3. /\ SubSeq(fs, k, Len(fs)) \in Seq(0..MaxTime)
        /\ Len(SubSeq(fs, k, Len(fs))) = IF k <= Len(fs) THEN Len(fs) - k + 1 ELSE 0
        /\ \A i \in 1..(Len(fs) - k + 1) : SubSeq(fs, k, Len(fs))[i] = fs[k + i - 1]
    BY <2>1, <2>2, SubSeqProperties
  <2> QED
    BY <1>1, <2>1, <2>3
<1> QED
  BY <1>1, <1>2, <1>3

\* Pruning preserves the order of the deque and its bound.
LEMMA PrunedInOrder ==
  ASSUME TypeOK, FailuresInOrder, NEW t \in Int
  PROVE  LET fs == Pruned(failures, t)
         IN /\ \A i, j \in DOMAIN fs : i <= j => fs[i] <= fs[j]
            /\ \A i \in DOMAIN fs : fs[i] <= now
<1> DEFINE fs == Pruned(failures, t)
<1>1. fs \in Seq(0..MaxTime)
  BY PrunedIsSuffix DEF TypeOK
<1>2. PICK k \in 1..(Len(failures) + 1) :
        /\ Len(fs) = Len(failures) - k + 1
        /\ \A i \in 1..Len(fs) : fs[i] = failures[k + i - 1]
  BY PrunedIsSuffix DEF TypeOK
<1> HIDE DEF fs
<1>3. \A i \in DOMAIN fs :
        k + i - 1 \in DOMAIN failures /\ fs[i] = failures[k + i - 1]
  <2>1. DOMAIN fs = 1..Len(fs) /\ Len(fs) \in Nat
    BY <1>1, LenProperties
  <2>2. DOMAIN failures = 1..Len(failures) /\ Len(failures) \in Nat
    BY LenProperties DEF TypeOK
  <2> QED
    BY <1>2, <2>1, <2>2
<1>4. \A i, j \in DOMAIN fs : i <= j => fs[i] <= fs[j]
  BY <1>1, <1>3 DEF FailuresInOrder
<1>5. \A i \in DOMAIN fs : fs[i] <= now
  BY <1>3 DEF FailuresInOrder
<1> QED
  BY <1>4, <1>5 DEF fs

\* Each way the breaker is updated keeps its own invariants.
LEMMA BeforeMutationSafe ==
  ASSUME GateAssumption, GateInv, BeforeMutation, now' = now
  PROVE  /\ failures' \in Seq(0..MaxTime)
         /\ openedAt' = NotOpened
         /\ ClosedBelowThreshold' /\ FailuresInOrder'
<1> USE DEF GateInv, GateAssumption
<1>1. CASE HalfOpen
  BY <1>1 DEF BeforeMutation, ClosedBelowThreshold, FailuresInOrder
<1>2. CASE ~HalfOpen
  <2>1. openedAt = NotOpened /\ openedAt' = NotOpened /\ failures' = Pruned(failures, now)
    BY <1>2 DEF BeforeMutation, Blocked, HalfOpen, TypeOK, NotOpened
  <2>2. /\ Pruned(failures, now) \in Seq(0..MaxTime)
        /\ Len(Pruned(failures, now)) <= Len(failures)
    BY PrunedIsSuffix DEF TypeOK
  <2>3. ClosedBelowThreshold'
    BY <2>1, <2>2 DEF ClosedBelowThreshold, TypeOK
  <2>4. now \in Int
    BY DEF TypeOK
  <2>5. FailuresInOrder'
    BY <2>1, <2>4, PrunedInOrder DEF FailuresInOrder
  <2> QED
    BY <2>1, <2>2, <2>3, <2>5
<1> QED
  BY <1>1, <1>2

LEMMA RefuseMutationSafe ==
  ASSUME GateAssumption, GateInv, RefuseMutation, now' = now
  PROVE  /\ failures' \in Seq(0..MaxTime)
         /\ openedAt' = openedAt
         /\ ClosedBelowThreshold' /\ FailuresInOrder'
<1> USE DEF GateInv
<1>1. openedAt' = openedAt /\ openedAt # NotOpened /\ failures' = Pruned(failures, now)
  BY DEF RefuseMutation, Blocked
<1>2. now \in Int /\ failures \in Seq(0..MaxTime)
  BY DEF TypeOK
<1>3. failures' \in Seq(0..MaxTime)
  BY <1>1, <1>2, PrunedIsSuffix
<1>4. FailuresInOrder'
  BY <1>1, <1>2, PrunedInOrder DEF FailuresInOrder
<1> QED
  BY <1>1, <1>3, <1>4 DEF ClosedBelowThreshold

LEMMA RecordSuccessSafe ==
  ASSUME GateAssumption, GateInv, RecordSuccess, now' = now
  PROVE  /\ failures' \in Seq(0..MaxTime)
         /\ openedAt' = NotOpened
         /\ ClosedBelowThreshold' /\ FailuresInOrder'
BY DEF RecordSuccess, ClosedBelowThreshold, FailuresInOrder, GateAssumption

LEMMA RecordFailureSafe ==
  ASSUME GateAssumption, GateInv, RecordFailure, now' = now
  PROVE  /\ failures' \in Seq(0..MaxTime)
         /\ openedAt' \in {openedAt, now}
         /\ ClosedBelowThreshold' /\ FailuresInOrder'
<1> DEFINE fs == Pruned(failures, now)
<1> USE DEF GateInv
<1>1. now \in 0..MaxTime /\ now \in Int /\ failures \in Seq(0..MaxTime)
  BY DEF TypeOK, GateAssumption
<1>2. fs \in Seq(0..MaxTime)
  BY <1>1, PrunedIsSuffix
<1>3. /\ \A i, j \in DOMAIN fs : i <= j => fs[i] <= fs[j]
      /\ \A i \in DOMAIN fs : fs[i] <= now
  BY <1>1, PrunedInOrder
<1>4. /\ failures' = Append(fs, now)
      /\ openedAt' = IF Len(failures') >= Threshold THEN now ELSE openedAt
  BY DEF RecordFailure
<1> HIDE DEF fs
<1>5. /\ Append(fs, now) \in Seq(0..MaxTime)
      /\ Len(Append(fs, now)) = Len(fs) + 1
      /\ \A i \in 1..Len(fs) : Append(fs, now)[i] = fs[i]
      /\ Append(fs, now)[Len(fs) + 1] = now
  BY <1>1, <1>2
<1>6. FailuresInOrder'
  <2>1. DOMAIN failures' = 1..(Len(fs) + 1) /\ DOMAIN fs = 1..Len(fs) /\ Len(fs) \in Nat
    BY <1>2, <1>4, <1>5
  <2>2. \A i \in 1..(Len(fs) + 1) : failures'[i] <= now
    <3> SUFFICES ASSUME NEW i \in 1..(Len(fs) + 1)
                 PROVE  failures'[i] <= now
      OBVIOUS
    <3>1. CASE i = Len(fs) + 1
      BY <3>1, <1>1, <1>4, <1>5
    <3>2. CASE i # Len(fs) + 1
      <4>1. i \in 1..Len(fs)
        BY <3>2, <2>1
      <4> QED
        BY <4>1, <1>3, <1>4, <1>5, <2>1
    <3> QED
      BY <3>1, <3>2
  <2>3. \A i, j \in 1..(Len(fs) + 1) : i <= j => failures'[i] <= failures'[j]
    <3> SUFFICES ASSUME NEW i \in 1..(Len(fs) + 1), NEW j \in 1..(Len(fs) + 1), i <= j
                 PROVE  failures'[i] <= failures'[j]
      OBVIOUS
    <3>1. CASE j = Len(fs) + 1
      BY <3>1, <1>4, <1>5, <2>2
    <3>2. CASE j # Len(fs) + 1
      <4>1. i \in 1..Len(fs) /\ j \in 1..Len(fs)
        BY <3>2, <2>1
      <4> QED
        BY <4>1, <1>3, <1>4, <1>5, <2>1
    <3> QED
      BY <3>1, <3>2
  <2> QED
    BY <2>1, <2>2, <2>3 DEF FailuresInOrder
<1>7. ClosedBelowThreshold'
  <2> SUFFICES ASSUME openedAt' = NotOpened
               PROVE  Len(failures') < Threshold
    BY DEF ClosedBelowThreshold
  <2>1. ~(Len(failures') >= Threshold)
    BY <1>1, <1>4 DEF NotOpened
  <2>2. Len(failures') \in Nat
    BY <1>4, <1>5
  <2> QED
    BY <2>1, <2>2 DEF GateAssumption
<1> QED
  BY <1>4, <1>5, <1>6, <1>7

\* What the history of failed mutations contributes to the type invariant.
LEMMA FailedType ==
  ASSUME GateAssumption, TypeOK
  PROVE  Failed(streak) \in Seq(0..MaxTime)
<1> DEFINE longer == Append(Pruned(streak, now), now)
<1>1. now \in 0..MaxTime /\ now \in Int /\ streak \in Seq(0..MaxTime)
  BY DEF TypeOK
<1>2. longer \in Seq(0..MaxTime) /\ longer # <<>>
  BY <1>1, PrunedIsSuffix, AppendProperties
<1> HIDE DEF longer
<1>3. Tail(longer) \in Seq(0..MaxTime)
  BY <1>2, HeadTailProperties
<1> QED
  BY <1>2, <1>3 DEF Failed, longer

\* The invariant survives any step that updates the breaker safely, and lets a
\* caller through only while leaving the breaker closed.
LEMMA StepFromParts ==
  ASSUME GateAssumption, GateInv, now' = now,
         failures' \in Seq(0..MaxTime),
         openedAt' \in {openedAt, now, NotOpened},
         ClosedBelowThreshold', FailuresInOrder',
         pc' \in [Callers -> Steps],
         outcome' \in [Callers -> Outcomes],
         streak' \in Seq(0..MaxTime),
         \/ /\ admittedAt' = admittedAt
            /\ \A c \in Callers : pc'[c] # "idle" => pc[c] # "idle"
         \/ /\ openedAt' = NotOpened
            /\ \E c \in Callers : admittedAt' = [admittedAt EXCEPT ![c] = now]
  PROVE  GateInv'
<1>1. TypeOK'
  <2>1. now \in 0..MaxTime /\ now' \in 0..MaxTime /\ openedAt' \in 0..MaxTime \cup {NotOpened}
    BY DEF GateInv, TypeOK
  <2>2. admittedAt' \in [Callers -> 0..MaxTime]
    BY <2>1 DEF GateInv, TypeOK
  <2> QED
    BY <2>1, <2>2 DEF TypeOK
<1>2. \A c \in Callers : admittedAt'[c] <= now'
  <2>1. now \in Int /\ admittedAt \in [Callers -> 0..MaxTime]
        /\ \A c \in Callers : admittedAt[c] <= now
    BY DEF GateInv, TypeOK
  <2>2. CASE admittedAt' = admittedAt
    BY <2>1, <2>2
  <2>3. CASE \E c \in Callers : admittedAt' = [admittedAt EXCEPT ![c] = now]
    BY <2>1, <2>3
  <2> QED
    BY <2>2, <2>3
<1>3. InFlightPredatesOpening'
  BY DEF GateInv, TypeOK, InFlightPredatesOpening
<1> QED
  BY <1>1, <1>2, <1>3 DEF GateInv

\* Every step of a caller keeps the inductive invariant: letting it through
\* leaves the breaker closed, and what it records later cannot be older than
\* its admission.
LEMMA CallerStep ==
  ASSUME GateAssumption, GateInv, NEW c \in Callers, Step(c)
  PROVE  GateInv'
<1>0. TypeOK /\ streak \in Seq(0..MaxTime) /\ openedAt \in {openedAt, now, NotOpened}
  BY DEF GateInv, TypeOK
<1>1. ASSUME NEW step \in Steps, Admit(c, step)
      PROVE  GateInv'
  <2>1. /\ failures' \in Seq(0..MaxTime) /\ openedAt' = NotOpened
        /\ ClosedBelowThreshold' /\ FailuresInOrder'
    BY <1>1, BeforeMutationSafe DEF Admit
  <2>2. /\ pc' \in [Callers -> Steps] /\ outcome' \in [Callers -> Outcomes]
        /\ now' = now
    <3>1. pc' = [pc EXCEPT ![c] = step] /\ outcome' = outcome /\ now' = now
      BY <1>1 DEF Admit
    <3> QED
      BY <1>0, <3>1 DEF TypeOK
  <2>3. streak' \in Seq(0..MaxTime)
    <3>1. streak' = <<>> \/ streak' = streak
      BY <1>1 DEF Admit
    <3>2. <<>> \in Seq(0..MaxTime)
      BY EmptySeq
    <3>3. CASE streak' = <<>>
      BY <3>2, <3>3
    <3>4. CASE streak' = streak
      BY <1>0, <3>4
    <3> QED
      BY <3>1, <3>3, <3>4
  <2>4. admittedAt' = [admittedAt EXCEPT ![c] = now]
    BY <1>1 DEF Admit
  <2> QED
    BY <2>1, <2>2, <2>3, <2>4, StepFromParts
<1>2. CASE Refuse(c)
  <2>1. /\ failures' \in Seq(0..MaxTime) /\ openedAt' = openedAt
        /\ ClosedBelowThreshold' /\ FailuresInOrder'
    BY <1>2, RefuseMutationSafe DEF Refuse, Return
  <2>2. /\ pc' \in [Callers -> Steps] /\ outcome' \in [Callers -> Outcomes]
        /\ streak' \in Seq(0..MaxTime)
        /\ now' = now /\ admittedAt' = admittedAt
        /\ \A d \in Callers : pc'[d] # "idle" => pc[d] # "idle"
    BY <1>0, <1>2 DEF Refuse, Return, TypeOK, Steps, Outcomes
  <2> QED
    BY <2>1, <2>2, StepFromParts
<1>3. ASSUME NEW result \in Outcomes, pc[c] # "idle", Return(c, result),
             streak' \in Seq(0..MaxTime),
             RecordSuccess \/ RecordFailure \/ UNCHANGED breaker
      PROVE  GateInv'
  <2>1. /\ pc' \in [Callers -> Steps] /\ outcome' \in [Callers -> Outcomes]
        /\ now' = now /\ admittedAt' = admittedAt
        /\ \A d \in Callers : pc'[d] # "idle" => pc[d] # "idle"
    BY <1>0, <1>3 DEF Return, TypeOK, Steps
  <2>2. CASE RecordSuccess
    BY <2>1, <2>2, <1>3, RecordSuccessSafe, StepFromParts
  <2>3. CASE RecordFailure
    BY <2>1, <2>3, <1>3, RecordFailureSafe, StepFromParts
  <2>4. CASE UNCHANGED breaker
    <3>1. /\ failures' \in Seq(0..MaxTime) /\ openedAt' = openedAt
          /\ ClosedBelowThreshold' /\ FailuresInOrder'
      BY <2>1, <2>4 DEF breaker, GateInv, TypeOK, ClosedBelowThreshold, FailuresInOrder
    <3> QED
      BY <3>1, <2>1, <1>3, StepFromParts
  <2> QED
    BY <1>3, <2>2, <2>3, <2>4
<1>4. ASSUME NEW step \in Steps, pc[c] # "idle", Goto(c, step), UNCHANGED streak,
             RecordSuccess \/ UNCHANGED breaker
      PROVE  GateInv'
  <2>1. /\ pc' \in [Callers -> Steps] /\ outcome' \in [Callers -> Outcomes]
        /\ streak' \in Seq(0..MaxTime)
        /\ now' = now /\ admittedAt' = admittedAt
        /\ \A d \in Callers : pc'[d] # "idle" => pc[d] # "idle"
    BY <1>0, <1>4 DEF Goto, TypeOK, Steps
  <2>2. CASE RecordSuccess
    BY <2>1, <2>2, RecordSuccessSafe, StepFromParts
  <2>3. CASE UNCHANGED breaker
    <3>1. /\ failures' \in Seq(0..MaxTime) /\ openedAt' = openedAt
          /\ ClosedBelowThreshold' /\ FailuresInOrder'
      BY <2>1, <2>3 DEF breaker, GateInv, TypeOK, ClosedBelowThreshold, FailuresInOrder
    <3> QED
      BY <3>1, <2>1, StepFromParts
  <2> QED
    BY <1>4, <2>2, <2>3
<1>5. CASE AdmitOrder(c) \/ AdmitCancel(c)
  BY <1>5, <1>1 DEF AdmitOrder, AdmitCancel, Steps
<1>6. CASE OrderPrepared(c)
  BY <1>6, <1>4 DEF OrderPrepared, Steps
<1>7. CASE OrderNotPrepared(c)
  BY <1>7, <1>0, <1>3 DEF OrderNotPrepared, Outcomes
<1>8. CASE OrderRejectedByClient(c)
  BY <1>8, <1>0, <1>3 DEF OrderRejectedByClient, Outcomes
<1>9. CASE OrderPlaced(c)
  BY <1>9, <1>3 DEF OrderPlaced, Outcomes
<1>10. CASE OrderFailed(c)
  BY <1>10, <1>0, <1>3, FailedType DEF OrderFailed, Outcomes
<1>11. CASE CancelTargetFound(c)
  BY <1>11, <1>4 DEF CancelTargetFound, Steps
<1>12. CASE CancelTargetMissing(c)
  BY <1>12, <1>0, <1>3 DEF CancelTargetMissing, Outcomes
<1>13. CASE CancelPrepared(c)
  BY <1>13, <1>4 DEF CancelPrepared, Steps
<1>14. CASE CancelRateLimited(c)
  BY <1>14, <1>0, <1>3 DEF CancelRateLimited, Outcomes
<1>15. CASE CancelCarriedOut(c)
  BY <1>15, <1>3 DEF CancelCarriedOut, Outcomes
<1>16. CASE CancelFailed(c)
  BY <1>16, <1>0, <1>3, FailedType DEF CancelFailed, Outcomes
<1> QED
  BY <1>2, <1>5, <1>6, <1>7, <1>8, <1>9, <1>10, <1>11, <1>12, <1>13, <1>14,
     <1>15, <1>16 DEF Step

LEMMA TickStep ==
  ASSUME GateAssumption, GateInv, Tick
  PROVE  GateInv'
<1>1. TypeOK'
  BY DEF GateInv, TypeOK, Tick, GateAssumption
<1>2. ClosedBelowThreshold' /\ InFlightPredatesOpening'
  BY DEF GateInv, Tick, ClosedBelowThreshold, InFlightPredatesOpening
<1>3. FailuresInOrder'
  <2>1. \A i \in DOMAIN failures : failures[i] \in Int
    BY ElementOfSeq, LenProperties DEF GateInv, TypeOK
  <2> QED
    BY <2>1 DEF GateInv, TypeOK, Tick, FailuresInOrder
<1>4. \A c \in Callers : admittedAt'[c] <= now'
  BY DEF GateInv, TypeOK, Tick
<1> QED
  BY <1>1, <1>2, <1>3, <1>4 DEF GateInv

\* The inductive invariant holds in every behaviour.
THEOREM GateInvHolds == Spec => []GateInv
<1>1. Init => GateInv
  BY GateAssumption
  DEF Init, GateInv, TypeOK, ClosedBelowThreshold, FailuresInOrder,
      InFlightPredatesOpening, NotOpened, Steps, Outcomes
<1>2. GateInv /\ [Next]_vars => GateInv'
  <2> SUFFICES ASSUME GateInv, [Next]_vars PROVE GateInv'
    OBVIOUS
  <2>1. CASE Tick
    BY <2>1, GateAssumption, TickStep
  <2>2. CASE \E c \in Callers : Step(c)
    BY <2>2, GateAssumption, CallerStep
  <2>3. CASE UNCHANGED vars
    BY <2>3 DEF vars, GateInv, TypeOK, ClosedBelowThreshold, FailuresInOrder,
                InFlightPredatesOpening
  <2> QED
    BY <2>1, <2>2, <2>3 DEF Next
<1> QED
  BY <1>1, <1>2, PTL DEF Spec

\* The breaker's fields and the callers' positions keep their types.
THEOREM GateTyped == Spec => []TypeOK
<1>1. GateInv => TypeOK
  BY DEF GateInv
<1> QED
  BY <1>1, GateInvHolds, PTL

\* No number of callers, and no interleaving of what they record, leaves a
\* closed breaker with as many counted failures as its threshold.
THEOREM BreakerTrips == Spec => []ClosedBelowThreshold
<1>1. GateInv => ClosedBelowThreshold
  BY DEF GateInv
<1> QED
  BY <1>1, GateInvHolds, PTL

\* The deque stays in order of time, so pruning from the left is enough.
THEOREM DequeSorted == Spec => []FailuresInOrder
<1>1. GateInv => FailuresInOrder
  BY DEF GateInv
<1> QED
  BY <1>1, GateInvHolds, PTL

\* Whatever is under way while the breaker is open was admitted before.
THEOREM NoneAdmittedWhileOpen == Spec => []InFlightPredatesOpening
<1>1. GateInv => InFlightPredatesOpening
  BY DEF GateInv
<1> QED
  BY <1>1, GateInvHolds, PTL

\* An open breaker is closed early only by the answer to a mutation admitted
\* before it opened: admitting needs the cooldown, and failures only open it.
THEOREM EarlyClosing == Spec => EarlyClosingIsOverdue
<1>1. GateInv /\ [Next]_vars => [ClosesEarly => \E c \in Callers : AnsweredLate(c)]_vars
  <2> SUFFICES ASSUME GateInv, Next, ClosesEarly
               PROVE  \E c \in Callers : AnsweredLate(c)
    OBVIOUS
  <2> USE DEF ClosesEarly
  <2>1. PICK c \in Callers : Step(c)
    BY DEF Next, Tick
  <2>2. Blocked
    <3>1. now \in Int /\ openedAt \in Int /\ Cooldown \in Int
      BY GateAssumption DEF GateInv, TypeOK, NotOpened
    <3> QED
      BY <3>1 DEF Blocked, HalfOpen
  <2>3. ~RecordFailure
    <3> SUFFICES ASSUME RecordFailure PROVE FALSE
      OBVIOUS
    <3>1. openedAt' \in {openedAt, now}
      BY DEF RecordFailure
    <3> QED
      BY <3>1 DEF GateInv, TypeOK, NotOpened
  <2>4. ~UNCHANGED breaker
    BY DEF breaker
  <2>5. ~RefuseMutation /\ ~BeforeMutation
    BY <2>2 DEF RefuseMutation, BeforeMutation
  <2>6. OrderPrepared(c) \/ CancelCarriedOut(c)
    BY <2>1, <2>3, <2>4, <2>5
    DEF Step, AdmitOrder, AdmitCancel, Admit, Refuse, OrderNotPrepared,
        OrderRejectedByClient, OrderPlaced, OrderFailed, CancelTargetFound,
        CancelTargetMissing, CancelPrepared, CancelRateLimited, CancelFailed
  <2>7. pc[c] # "idle" /\ pc'[c] # pc[c]
    BY <2>6 DEF OrderPrepared, CancelCarriedOut, Goto, Return, GateInv, TypeOK
  <2>8. admittedAt[c] <= openedAt
    BY <2>7 DEF GateInv, InFlightPredatesOpening
  <2> QED
    BY <2>7, <2>8 DEF AnsweredLate
<1> QED
  BY <1>1, GateInvHolds, PTL DEF Spec, EarlyClosingIsOverdue

(***************************************************************************)
(* Notes: a note stands in memory as it was noted, unless writing it       *)
(* failed, and what a recorder was told since is its repetition.           *)
(***************************************************************************)
NotesTyped ==
  /\ clock \in Nat
  /\ DOMAIN noted = NoteKinds /\ DOMAIN memory = NoteKinds /\ DOMAIN told = NoteKinds

NotedInMemory ==
  \A kind \in NoteKinds :
    noted[kind] # Nothing =>
      /\ noted[kind].at \in Nat
      /\ noted[kind].stored \/ kind = "drift"
      /\ noted[kind].stored => memory[kind] = noted[kind]

ToldRepeats ==
  \A kind \in NoteKinds :
    told[kind] # Nothing =>
      /\ noted[kind] # Nothing /\ told[kind].content = noted[kind].content
      /\ told[kind].at - noted[kind].at < Windows[kind]

NotesInv == NotesTyped /\ NotedInMemory /\ ToldRepeats

LEMMA NotesStart == NotesInit => NotesInv
BY DEF NotesInit, NoNotes, NotesInv, NotesTyped, NotedInMemory, ToldRepeats

LEMMA NoteIsSomething ==
  ASSUME NEW content, NEW stored PROVE Note(content, stored) # Nothing
BY DEF Note, Nothing

LEMMA WindowsPositive == \A kind \in NoteKinds : Windows[kind] \in Nat \ {0}
BY NotesAssumption DEF NoteKinds, Windows

LEMMA RecordKeeps ==
  ASSUME NotesInv, NEW kind \in NoteKinds, NEW content, Record(kind, content), UNCHANGED clock
  PROVE  NotesInv'
<1> USE DEF NotesInv, NotesTyped
<1>1. ASSUME Repeated(kind, content),
             told' = [told EXCEPT ![kind] = Note(content, TRUE)], UNCHANGED <<noted, memory>>
      PROVE  NotesInv'
  BY <1>1 DEF Repeated, Note, NotedInMemory, ToldRepeats
<1>2. ASSUME NEW stored \in BOOLEAN, stored = TRUE \/ kind = "drift",
             \/ stored = TRUE /\ memory' = [memory EXCEPT ![kind] = Note(content, TRUE)]
             \/ stored = FALSE /\ memory' = memory,
             noted' = [noted EXCEPT ![kind] = Note(content, stored)],
             told' = [told EXCEPT ![kind] = Note(content, TRUE)]
      PROVE  NotesInv'
  <2> DEFINE new == Note(content, stored)
  <2>1. noted'[kind] = new /\ (stored = TRUE => memory'[kind] = new)
    BY <1>2
  <2>2. new.at = clock /\ new.content = content /\ new.stored = stored
    BY DEF Note
  <2>3. told'[kind].content = content /\ told'[kind].at = clock
    BY <1>2 DEF Note
  <2>4. \A other \in NoteKinds : other # kind =>
          noted'[other] = noted[other] /\ memory'[other] = memory[other] /\ told'[other] = told[other]
    BY <1>2
  <2>5. NotesTyped'
    BY <1>2
  <2>6. NotedInMemory'
    BY <1>2, <2>1, <2>2, <2>4 DEF NotedInMemory
  <2>7. clock - clock < Windows[kind]
    BY WindowsPositive
  <2>8. ToldRepeats'
    BY <2>1, <2>2, <2>3, <2>4, <2>7, NoteIsSomething DEF ToldRepeats
  <2> QED BY <2>5, <2>6, <2>8
<1>3. ASSUME told' = [told EXCEPT ![kind] = Nothing], UNCHANGED <<noted, memory>>
      PROVE  NotesInv'
  BY <1>3 DEF NotedInMemory, ToldRepeats
<1> QED BY <1>1, <1>2, <1>3 DEF Record

LEMMA NotesStep == NotesInv /\ [NotesNext]_noteVars => NotesInv'
<1> SUFFICES ASSUME NotesInv, [NotesNext]_noteVars PROVE NotesInv'
  OBVIOUS
<1>1. CASE HalfHourPasses
  BY <1>1 DEF HalfHourPasses, NotesInv, NotesTyped, NotedInMemory, ToldRepeats
<1>2. CASE NotesForgotten
  BY <1>2 DEF NotesForgotten, NoNotes, NotesInv, NotesTyped, NotedInMemory, ToldRepeats
<1>3. ASSUME NEW content \in Discrepancies, DiscrepancyReported(content) PROVE NotesInv'
  BY <1>3, RecordKeeps DEF DiscrepancyReported, NoteKinds
<1>4. ASSUME NEW worth, NEW pruned, NEW portfolio, Dashboard(worth, pruned, portfolio)
      PROVE  NotesInv'
  BY <1>4, RecordKeeps DEF Dashboard, NoteKinds
<1>5. CASE UNCHANGED noteVars
  BY <1>5 DEF noteVars, NotesInv, NotesTyped, NotedInMemory, ToldRepeats
<1> QED BY <1>1, <1>2, <1>3, <1>4, <1>5 DEF NotesNext

LEMMA NotesOnRecord == NotesInv => AnomalyOnRecord
BY DEF NotesInv, NotedInMemory, ToldRepeats, AnomalyOnRecord, Nothing

\* Whatever a recorder was last given is in memory, and young enough, unless the
\* write of a drift failed: _record_reconciliation_anomaly and
\* _record_rotation_tree_drift drop repetitions only.
THEOREM AnomalyOnRecordHolds == NotesInit /\ [][NotesNext]_noteVars => []AnomalyOnRecord
BY NotesStart, NotesStep, NotesOnRecord, PTL

-----------------------------------------------------------------------------
(***************************************************************************)
(* Reconciler: an order of the bot has a row, waits for it or never gets   *)
(* one, and so it is for the orders a reconciliation has already seen.     *)
(***************************************************************************)
Accounted == rows \cup placing \cup unrecorded

ReconcilerInv ==
  /\ asked \in 0 .. 4
  /\ DOMAIN seen = DOMAIN NothingSeen
  /\ open \cap Own \subseteq Accounted
  /\ seen["open"] \cap Own \subseteq Accounted

LEMMA ReconcilerStart == ReconcilerInit => ReconcilerInv
BY DEF ReconcilerInit, ReconcilerInv, NothingSeen

\* What is accounted for stays so; only an order placed is new at the exchange.
LEMMA AccountsKept ==
  ASSUME ReconcilerInv, Accounted \subseteq Accounted',
         open' \cap Own \subseteq open \cup Accounted',
         \/ UNCHANGED <<asked, seen>>
         \/ asked' = 0 /\ seen' = NothingSeen
  PROVE  ReconcilerInv'
BY DEF ReconcilerInv, NothingSeen

LEMMA AskKeeps == ReconcilerInv /\ Ask => ReconcilerInv'
<1> SUFFICES ASSUME ReconcilerInv, Ask PROVE ReconcilerInv'
  OBVIOUS
<1>1. UNCHANGED <<rows, placing, unrecorded, open>>
  BY DEF Ask, marketVars, bookVars
<1>2. Len(Queries) = 5
  BY DEF Queries
<1>3. CASE asked + 1 < Len(Queries)
  <2> DEFINE query == Queries[asked + 1]
  <2>1. asked' = asked + 1 /\ seen' = [seen EXCEPT ![query] = Answer[query]]
    BY <1>3 DEF Ask
  <2>2. seen'["open"] \in {seen["open"], open}
    BY <2>1 DEF ReconcilerInv, NothingSeen, Answer
  <2> QED BY <1>1, <1>2, <1>3, <2>1, <2>2 DEF ReconcilerInv, Accounted
<1>4. CASE ~(asked + 1 < Len(Queries))
  BY <1>1, <1>4, AccountsKept DEF Ask, Accounted
<1> QED BY <1>3, <1>4

LEMMA ReconcilerStepKeeps ==
  ReconcilerInv /\ [ReconcilerNext]_reconcilerVars => ReconcilerInv'
<1> SUFFICES ASSUME ReconcilerInv, [ReconcilerNext]_reconcilerVars PROVE ReconcilerInv'
  OBVIOUS
<1> USE DEF marketVars, bookVars, readVars, Accounted
<1>1. CASE TimePasses \/ AskFails \/ BotRestarts \/ UNCHANGED reconcilerVars
  BY <1>1, AccountsKept DEF TimePasses, AskFails, BotRestarts, reconcilerVars
<1>2. ASSUME NEW o \in UserOrders, PlacedByUser(o) PROVE ReconcilerInv'
  BY <1>2, AccountsKept, ReconcilerAssumption DEF PlacedByUser, Placed
<1>3. ASSUME NEW o \in LoopOrders, PlacedByLoop(o) PROVE ReconcilerInv'
  BY <1>3, AccountsKept DEF PlacedByLoop, Placed
<1>4. ASSUME NEW o \in ApiOrders, PlacedByApi(o) \/ RowWritten(o) PROVE ReconcilerInv'
  BY <1>4, AccountsKept DEF PlacedByApi, RowWritten, Placed
<1>5. ASSUME NEW o, OrderDone(o) \/ PositionStored(o) PROVE ReconcilerInv'
  BY <1>5, AccountsKept DEF OrderDone, PositionStored
<1>6. CASE Ask
  BY <1>6, AskKeeps
<1> QED BY <1>1, <1>2, <1>3, <1>4, <1>5, <1>6 DEF ReconcilerNext

\* The orders a report finds foreign were open when they were asked for and have
\* no row when the rows are read, which is last.
LEMMA ReportRecognises ==
  ReconcilerInv /\ [ReconcilerNext]_reconcilerVars =>
    (report' # report => (report'.new \cup report'.stale) \cap Own \subseteq placing \cup unrecorded)
<1> SUFFICES ASSUME ReconcilerInv, [ReconcilerNext]_reconcilerVars, report' # report
             PROVE  (report'.new \cup report'.stale) \cap Own \subseteq placing \cup unrecorded
  OBVIOUS
<1>1. Ask \/ BotRestarts
  BY DEF ReconcilerNext, TimePasses, AskFails, reconcilerVars, readVars, PlacedByUser,
         PlacedByLoop, PlacedByApi, RowWritten, OrderDone, PositionStored
<1>2. CASE BotRestarts
  BY <1>2 DEF BotRestarts, NoReport
<1>3. CASE Ask
  <2> DEFINE picture == [seen EXCEPT !["rows"] = rows]
  <2>1. Len(Queries) = 5
    BY DEF Queries
  <2>2. asked = 4
    BY <1>3, <2>1 DEF Ask, ReconcilerInv
  <2>3. Queries[asked + 1] = "rows" /\ Answer["rows"] = rows
    BY <2>2 DEF Queries, Answer
  <2>4. report' = Reconciled(picture)
    BY <1>3, <2>1, <2>2, <2>3 DEF Ask
  <2>5. report'.new \cup report'.stale \subseteq Strangers(picture)
    BY <2>4 DEF Reconciled, StaleOnes
  <2>6. picture["open"] = seen["open"] /\ picture["rows"] = rows
    BY DEF ReconcilerInv, NothingSeen
  <2>7. Strangers(picture) \subseteq seen["open"] \ rows
    BY <2>6 DEF Strangers, Acknowledged
  <2> QED BY <2>5, <2>7 DEF ReconcilerInv, Accounted
<1> QED BY <1>1, <1>2, <1>3

\* The reconciler recommends no order of the bot for cancelling or review, but
\* those whose row is missing, whatever else places orders meanwhile.
THEOREM OwnOrdersRecognisedHolds ==
  ReconcilerInit /\ [][ReconcilerNext]_reconcilerVars => OwnOrdersRecognised
<1>1. ReconcilerInit /\ [][ReconcilerNext]_reconcilerVars => []ReconcilerInv
  BY ReconcilerStart, ReconcilerStepKeeps, PTL
<1>2. ReconcilerInv /\ [ReconcilerNext]_reconcilerVars =>
        [(report' # report) =>
           (report'.new \cup report'.stale) \cap Own \subseteq placing \cup unrecorded]_reconcilerVars
  BY ReportRecognises
<1> QED BY <1>1, <1>2, PTL DEF OwnOrdersRecognised
-----------------------------------------------------------------------------
(***************************************************************************)
(* Restart: what is known of the nodes of a process is that those it made  *)
(* are numbered by their place; of the table, that it tells of no child's  *)
(* end without its outcome, and of no child whose ancestors the process    *)
(* has restored and which it has not.                                      *)
(***************************************************************************)
StepsDown == [asset : TreeAssets, n : Nat]
NodeIds == Seq(StepsDown) \ {<<>>}
NodeStatuses == {"planned", "open", "closing", "expired", "closed", "cancelled"}
NodeRecords == [id : NodeIds, status : NodeStatuses]

TreeTyped ==
  /\ nodes \in Seq(NodeRecords)
  /\ atStart \in 0 .. Len(nodes)
  /\ IsFiniteSet(DOMAIN table) /\ DOMAIN table \subseteq NodeIds
  /\ \A id \in DOMAIN table : table[id] \in NodeStatuses

NumberedByPlace == \A j \in DOMAIN nodes : j > atStart => Last(nodes[j].id).n = j - 1

ClosedNodeHasOutcome ==
  \A i \in DOMAIN nodes :
    IsChild(nodes[i].id) /\ nodes[i].status = "closed" => nodes[i].id \in outcomes

ParentOf(id) == SubSeq(id, 1, Len(id) - 1)
Restored == {nodes[i].id : i \in 1 .. atStart}

\* A row of a child that is still traded into is a node's, or no child was
\* restored, or its parent was not.
RowsRestored ==
  phase # "down" =>
    \A id \in DOMAIN table :
      IsChild(id) /\ Restorable(id) =>
        \/ id \in IdsIn(nodes)
        \/ \A i \in 1 .. atStart : ~IsChild(nodes[i].id)
        \/ ParentOf(id) \notin Restored

TreeInv ==
  /\ TreeTyped /\ NumberedByPlace
  /\ ClosedNodeHasOutcome /\ ClosedRowHasOutcome /\ RowsRestored

-----------------------------------------------------------------------------
(* Lists *)

LEMMA GreatestExists ==
  ASSUME NEW n \in Nat, NEW K \in SUBSET (1 .. n), K # {}
  PROVE  \E i \in K : \A j \in K : j <= i
<1> DEFINE R == {ss \in Nat \X Nat : ss[1] < ss[2]}
           T == {m \in Nat : n - m \in K}
<1>1. OpToRel(<, Nat) = R
  BY Zenon DEF OpToRel
<1>2. IsWellFoundedOn(R, Nat)
  BY NatLessThanWellFounded, <1>1, Zenon
<1>3. T \subseteq Nat /\ T # {}
  <2>1. PICK k \in K : TRUE
    OBVIOUS
  <2>2. n - k \in Nat /\ n - (n - k) = k
    OBVIOUS
  <2> QED BY <2>1, <2>2
<1>4. PICK m \in T : \A p \in T : ~ (<<p, m>> \in R)
  <2> HIDE DEF R, T
  <2> QED BY <1>2, <1>3, WFMin
<1>5. ASSUME NEW j \in K PROVE j <= n - m
  <2>1. n - j \in T
    <3>1. n - j \in Nat /\ n - (n - j) = j
      OBVIOUS
    <3> QED BY <3>1
  <2>2. n - j < m => <<n - j, m>> \in R
    BY <2>1
  <2> QED BY <1>4, <2>1, <2>2
<1> QED BY <1>4, <1>5

LEMMA SetAsList ==
  ASSUME NEW S, IsFiniteSet(S)
  PROVE  Cardinality(S) \in Nat /\ SetToSeq(S) \in [1 .. Cardinality(S) -> S]
<1>1. Cardinality(S) \in Nat /\ ExistsBijection(1 .. Cardinality(S), S)
  BY FS_CardinalityType
<1>2. \E f \in [1 .. Cardinality(S) -> S] : IsInjective(f)
  BY <1>1 DEF ExistsBijection, Bijection, Injection, IsInjective
<1> QED BY <1>1, <1>2, Zenon DEF SetToSeq

\* The rows written are those of the list, each with the status of a node of its
\* id, and beside them the table keeps what it had closed.
LEMMA SavedRows ==
  ASSUME TreeTyped, NEW list \in Seq(NodeRecords)
  PROVE  /\ IsFiniteSet(DOMAIN Saved(list))
         /\ \A id \in DOMAIN Saved(list) :
              \/ \E i \in DOMAIN list : list[i].id = id /\ Saved(list)[id] = list[i].status
              \/ /\ id \in DOMAIN table /\ table[id] = "closed"
                 /\ Saved(list)[id] = "closed"
<1> DEFINE kept == {i \in DOMAIN list : list[i].status # "cancelled"}
           lastOf(id) ==
             CHOOSE i \in kept : list[i].id = id /\ \A j \in kept : list[j].id = id => j <= i
           written == {list[i].id : i \in kept}
           closed == {id \in DOMAIN table : table[id] = "closed"}
<1>0. Len(list) \in Nat /\ DOMAIN list = 1 .. Len(list)
  OBVIOUS
<1>1. Saved(list) = [id \in written \cup closed |->
                       IF id \in written THEN list[lastOf(id)].status ELSE "closed"]
  BY DEF Saved
<1>2. IsFiniteSet(written)
  <2>1. IsFiniteSet(kept)
    <3>1. IsFiniteSet(1 .. Len(list)) /\ kept \subseteq 1 .. Len(list)
      BY <1>0, FS_Interval
    <3> QED BY <3>1, FS_Subset
  <2>2. [i \in kept |-> list[i].id] \in Surjection(kept, written)
    BY DEF Surjection
  <2> HIDE DEF kept, written
  <2> QED BY <2>1, <2>2, FS_Surjection
<1>3. IsFiniteSet(closed)
  BY FS_Subset DEF TreeTyped
<1>4. IsFiniteSet(written \cup closed)
  <2> HIDE DEF written, closed
  <2> QED BY <1>2, <1>3, FS_Union
<1>5. ASSUME NEW id \in written
      PROVE  lastOf(id) \in DOMAIN list /\ list[lastOf(id)].id = id
  <2> DEFINE same == {i \in kept : list[i].id = id}
  <2>1. same \in SUBSET (1 .. Len(list)) /\ same # {}
    OBVIOUS
  <2>2. \E i \in same : \A j \in same : j <= i
    <3> HIDE DEF same
    <3> QED BY <1>0, <2>1, GreatestExists
  <2>3. \E i \in kept : list[i].id = id /\ \A j \in kept : list[j].id = id => j <= i
    BY <2>2
  <2>4. lastOf(id) \in kept /\ list[lastOf(id)].id = id
    BY <2>3, Zenon
  <2> QED BY <2>4
<1> HIDE DEF written, closed, lastOf
<1>6. DOMAIN Saved(list) = written \cup closed
  BY <1>1
<1>7. ASSUME NEW id \in DOMAIN Saved(list)
      PROVE  \/ \E i \in DOMAIN list : list[i].id = id /\ Saved(list)[id] = list[i].status
             \/ id \in closed /\ Saved(list)[id] = "closed"
  <2>1. CASE id \in written
    BY <2>1, <1>1, <1>5, <1>6
  <2>2. CASE id \notin written
    BY <2>2, <1>1, <1>6
  <2> QED BY <2>1, <2>2
<1> QED BY <1>4, <1>6, <1>7 DEF closed

-----------------------------------------------------------------------------
(* Steps *)

LEMMA MarkedNodes ==
  ASSUME TreeTyped, NEW id, NEW status \in NodeStatuses
  PROVE  /\ Marked(id, status) \in Seq(NodeRecords)
         /\ Len(Marked(id, status)) = Len(nodes)
         /\ \A i \in DOMAIN nodes :
              /\ Marked(id, status)[i].id = nodes[i].id
              /\ Marked(id, status)[i].status =
                   IF nodes[i].id = id THEN status ELSE nodes[i].status
<1>1. Len(nodes) \in Nat /\ DOMAIN nodes = 1 .. Len(nodes)
  BY DEF TreeTyped
<1>2. \A i \in DOMAIN nodes : nodes[i] \in NodeRecords
  BY DEF TreeTyped
<1>3. \A i \in DOMAIN nodes :
        /\ [nodes[i] EXCEPT !.status = status] \in NodeRecords
        /\ [nodes[i] EXCEPT !.status = status].id = nodes[i].id
        /\ [nodes[i] EXCEPT !.status = status].status = status
  BY <1>2 DEF NodeRecords
<1> QED BY <1>1, <1>2, <1>3 DEF Marked

\* A step that gives nodes new statuses, with the outcomes they need, and may save.
Relabelled ==
  /\ nodes' \in Seq(NodeRecords) /\ Len(nodes') = Len(nodes)
  /\ \A i \in DOMAIN nodes :
       /\ nodes'[i].id = nodes[i].id
       /\ IsChild(nodes[i].id) /\ nodes'[i].status = "closed" =>
            nodes[i].status = "closed" \/ nodes[i].id \in outcomes'

LEMMA RelabelledKeeps ==
  ASSUME TreeInv, Relabelled, atStart' = atStart, outcomes \subseteq outcomes',
         phase # "down", table' = table \/ table' = Saved(nodes')
  PROVE  TreeInv'
<1>1. /\ DOMAIN nodes = 1 .. Len(nodes) /\ DOMAIN nodes' = 1 .. Len(nodes) /\ Len(nodes) \in Nat
      /\ \A i \in DOMAIN nodes : nodes'[i] \in NodeRecords /\ nodes'[i].id = nodes[i].id
  BY DEF Relabelled, TreeInv, TreeTyped
<1>2. /\ IsFiniteSet(DOMAIN table')
      /\ \A id \in DOMAIN table' :
           \/ id \in DOMAIN table /\ table'[id] = table[id]
           \/ \E i \in DOMAIN nodes : nodes'[i].id = id /\ table'[id] = nodes'[i].status
  <2>1. CASE table' = table
    BY <2>1 DEF TreeInv, TreeTyped
  <2>2. CASE table' = Saved(nodes')
    BY <1>1, <2>2, SavedRows DEF TreeInv, Relabelled
  <2> QED BY <2>1, <2>2
<1>3. TreeTyped'
  <2>1. \A id \in DOMAIN table' : id \in NodeIds /\ table'[id] \in NodeStatuses
    BY <1>1, <1>2 DEF TreeInv, TreeTyped, NodeRecords
  <2> QED BY <1>1, <1>2, <2>1 DEF TreeInv, TreeTyped, Relabelled
<1>4. NumberedByPlace'
  BY <1>1 DEF TreeInv, NumberedByPlace
<1>5. ClosedNodeHasOutcome'
  BY <1>1 DEF TreeInv, ClosedNodeHasOutcome, Relabelled
<1>6. ClosedRowHasOutcome'
  <2> SUFFICES ASSUME NEW id \in DOMAIN table', IsChild(id), table'[id] = "closed"
               PROVE  id \in outcomes'
    BY DEF ClosedRowHasOutcome
  <2> QED BY <1>1, <1>2, <1>5 DEF TreeInv, ClosedRowHasOutcome, ClosedNodeHasOutcome
<1>7. RowsRestored'
  <2>1. IdsIn(nodes') = IdsIn(nodes)
    BY <1>1 DEF IdsIn
  <2>2. \A i \in 1 .. atStart : nodes'[i].id = nodes[i].id
    BY <1>1 DEF TreeInv, TreeTyped
  <2>3. Restored' = Restored
    BY <2>2 DEF Restored
  <2> SUFFICES ASSUME NEW id \in DOMAIN table', IsChild(id), Restorable(id)'
               PROVE  \/ id \in IdsIn(nodes)
                      \/ \A i \in 1 .. atStart : ~IsChild(nodes[i].id)
                      \/ ParentOf(id) \notin Restored
    BY <2>1, <2>2, <2>3 DEF RowsRestored
  <2>4. CASE id \in DOMAIN table /\ table'[id] = table[id]
    BY <2>4 DEF TreeInv, RowsRestored, Restorable
  <2>5. CASE \E i \in DOMAIN nodes : nodes'[i].id = id
    BY <1>1, <2>5 DEF IdsIn
  <2> QED BY <1>2, <2>4, <2>5
<1> QED BY <1>3, <1>4, <1>5, <1>6, <1>7 DEF TreeInv

LEMMA ForgottenKeeps == TreeInv /\ Forgotten /\ UNCHANGED <<table, outcomes>> => TreeInv'
BY DEF TreeInv, Forgotten, TreeTyped, NumberedByPlace, ClosedNodeHasOutcome,
       ClosedRowHasOutcome, RowsRestored

\* plan_cycle numbers the children by the places they get.
LEMMA PlannedNodes ==
  ASSUME TreeTyped, NEW i \in DOMAIN nodes, NEW k \in 1 .. TreeChildren,
         NEW assets \in [1 .. k -> TreeAssets], PlanLeafNode(i, assets)
  PROVE  /\ nodes' \in Seq(NodeRecords) /\ Len(nodes') = Len(nodes) + k
         /\ \A j \in 1 .. Len(nodes) : nodes'[j] = nodes[j]
         /\ \A j \in Len(nodes) + 1 .. Len(nodes) + k :
              /\ nodes'[j].status = "planned"
              /\ Last(nodes'[j].id) = [asset |-> assets[j - Len(nodes)], n |-> j - 1]
<1> DEFINE step(h) == [asset |-> assets[h], n |-> Len(nodes) + h - 1]
           new == [h \in DOMAIN assets |->
                     [id |-> Append(nodes[i].id, step(h)), status |-> "planned"]]
<1>1. Len(nodes) \in Nat /\ DOMAIN nodes = 1 .. Len(nodes) /\ k \in Nat
  BY TreeAssumption DEF TreeTyped
<1>2. DOMAIN assets = 1 .. k
  OBVIOUS
<1>3. nodes' = nodes \o new
  BY Zenon DEF PlanLeafNode, ChildSeq
<1>4. nodes[i].id \in Seq(StepsDown)
  <2>1. nodes[i] \in NodeRecords
    BY DEF TreeTyped
  <2>2. nodes[i].id \in NodeIds
    BY <2>1 DEF NodeRecords
  <2> QED BY <2>2 DEF NodeIds
<1>5. ASSUME NEW h \in 1 .. k
      PROVE  /\ Append(nodes[i].id, step(h)) \in NodeIds
             /\ Last(Append(nodes[i].id, step(h))) = step(h)
  <2>1. step(h) \in StepsDown
    BY <1>1 DEF StepsDown
  <2> HIDE DEF step
  <2>2. /\ Append(nodes[i].id, step(h)) \in Seq(StepsDown)
        /\ Len(Append(nodes[i].id, step(h))) = Len(nodes[i].id) + 1
        /\ Append(nodes[i].id, step(h))[Len(nodes[i].id) + 1] = step(h)
        /\ Len(nodes[i].id) \in Nat
    BY <1>4, <2>1
  <2>3. Append(nodes[i].id, step(h)) # <<>>
    BY <2>2
  <2> QED BY <2>2, <2>3 DEF NodeIds, Last
<1>6. new \in Seq(NodeRecords) /\ Len(new) = k
  <2>1. \A h \in 1 .. k : new[h] \in NodeRecords
    <3> HIDE DEF step
    <3> QED BY <1>2, <1>5 DEF NodeRecords, NodeStatuses
  <2>2. DOMAIN new = 1 .. k
    BY <1>2
  <2> QED BY <1>1, <2>1, <2>2
<1>7. nodes \in Seq(NodeRecords)
  BY DEF TreeTyped
<1>8. /\ nodes' \in Seq(NodeRecords) /\ Len(nodes') = Len(nodes) + k
      /\ \A j \in 1 .. Len(nodes) + k :
           nodes'[j] = IF j <= Len(nodes) THEN nodes[j] ELSE new[j - Len(nodes)]
  <2> HIDE DEF new
  <2> QED BY <1>3, <1>6, <1>7, ConcatProperties, Zenon
<1>9. ASSUME NEW j \in Len(nodes) + 1 .. Len(nodes) + k
      PROVE  /\ nodes'[j].status = "planned"
             /\ Last(nodes'[j].id) = [asset |-> assets[j - Len(nodes)], n |-> j - 1]
  <2>1. j - Len(nodes) \in 1 .. k /\ Len(nodes) + (j - Len(nodes)) - 1 = j - 1
        /\ ~(j <= Len(nodes)) /\ j \in 1 .. Len(nodes) + k
    BY <1>1
  <2>2. nodes'[j] = new[j - Len(nodes)]
    BY <1>8, <2>1
  <2>3. step(j - Len(nodes)) = [asset |-> assets[j - Len(nodes)], n |-> j - 1]
    BY <2>1
  <2> HIDE DEF step
  <2>4. /\ new[j - Len(nodes)].status = "planned"
        /\ new[j - Len(nodes)].id = Append(nodes[i].id, step(j - Len(nodes)))
    BY <1>2, <2>1
  <2> HIDE DEF new
  <2> QED BY <1>5, <2>1, <2>2, <2>3, <2>4
<1>10. \A j \in 1 .. Len(nodes) : nodes'[j] = nodes[j]
  <2> HIDE DEF new
  <2> QED BY <1>1, <1>8
<1> QED BY <1>8, <1>9, <1>10

LEMMA PlannedKeeps ==
  ASSUME TreeInv, NEW i \in DOMAIN nodes, NEW k \in 1 .. TreeChildren,
         NEW assets \in [1 .. k -> TreeAssets], PlanLeafNode(i, assets)
  PROVE  TreeInv'
<1>1. /\ nodes' \in Seq(NodeRecords) /\ Len(nodes') = Len(nodes) + k
      /\ \A j \in 1 .. Len(nodes) : nodes'[j] = nodes[j]
      /\ \A j \in Len(nodes) + 1 .. Len(nodes) + k :
           /\ nodes'[j].status = "planned" /\ Last(nodes'[j].id).n = j - 1
  <2>1. /\ nodes' \in Seq(NodeRecords) /\ Len(nodes') = Len(nodes) + k
        /\ \A j \in 1 .. Len(nodes) : nodes'[j] = nodes[j]
        /\ \A j \in Len(nodes) + 1 .. Len(nodes) + k :
             /\ nodes'[j].status = "planned"
             /\ Last(nodes'[j].id) = [asset |-> assets[j - Len(nodes)], n |-> j - 1]
    BY PlannedNodes DEF TreeInv
  <2>3. ASSUME NEW j \in Len(nodes) + 1 .. Len(nodes) + k
        PROVE  Last(nodes'[j].id).n = j - 1
    <3>1. Last(nodes'[j].id) = [asset |-> assets[j - Len(nodes)], n |-> j - 1]
      BY <2>1
    <3>2. Len(nodes) \in Nat /\ k \in Nat
      BY TreeAssumption DEF TreeInv, TreeTyped
    <3> QED BY <3>1, <3>2
  <2> QED BY <2>1, <2>3
<1>2. UNCHANGED <<phase, atStart, table, outcomes>> /\ phase = "plan"
  BY DEF PlanLeafNode
<1>3. /\ DOMAIN nodes = 1 .. Len(nodes) /\ Len(nodes) \in Nat /\ k \in Nat
      /\ DOMAIN nodes' = 1 .. Len(nodes) + k /\ atStart \in 0 .. Len(nodes)
  BY <1>1, TreeAssumption DEF TreeInv, TreeTyped
<1>4. \A j \in DOMAIN nodes' : j \in DOMAIN nodes \/ j \in Len(nodes) + 1 .. Len(nodes) + k
  BY <1>3
<1>5. TreeTyped'
  BY <1>1, <1>2, <1>3 DEF TreeInv, TreeTyped
<1>6. NumberedByPlace'
  BY <1>1, <1>2, <1>3, <1>4 DEF TreeInv, NumberedByPlace
<1>7. ClosedNodeHasOutcome' /\ ClosedRowHasOutcome'
  BY <1>1, <1>2, <1>3, <1>4 DEF TreeInv, ClosedNodeHasOutcome, ClosedRowHasOutcome
<1>8. RowsRestored'
  <2>1. IdsIn(nodes) \subseteq IdsIn(nodes')
    BY <1>1, <1>3 DEF IdsIn
  <2>2. \A j \in 1 .. atStart : nodes'[j] = nodes[j]
    BY <1>1, <1>3
  <2>3. Restored' = Restored
    BY <1>2, <2>2 DEF Restored
  <2> QED BY <1>2, <2>1, <2>2, <2>3 DEF TreeInv, RowsRestored, Restorable
<1> QED BY <1>5, <1>6, <1>7, <1>8 DEF TreeInv

-----------------------------------------------------------------------------
(* What a process is started with *)

LEMMA StartKeeps ==
  ASSUME TreeInv, NEW held \in Wallets, NEW restored \in BOOLEAN, StartTree(held, restored)
  PROVE  TreeInv'
<1> DEFINE ids == IF restored THEN Rehydrated(held) ELSE {}
           roots == Roots(held, restored)
<1>1. PICK children \in ByDepth(ids) :
        nodes' = roots \o [i \in DOMAIN children |->
                             [id |-> children[i], status |-> table[children[i]]]]
  BY DEF StartTree
<1> DEFINE back == [i \in DOMAIN children |-> [id |-> children[i], status |-> table[children[i]]]]
<1>2. /\ atStart' = Len(nodes') /\ phase' = "idle" /\ UNCHANGED <<table, outcomes>>
  BY DEF StartTree
<1>3. /\ \A id \in ids : /\ id \in DOMAIN table /\ id \in NodeIds /\ Restorable(id)
                       /\ IsChild(id) /\ restored
      /\ Cardinality(ids) \in Nat
  <2>1. \A id \in ids : id \in DOMAIN table /\ Restorable(id) /\ IsChild(id) /\ restored
    BY DEF Rehydrated
  <2>2. IsFiniteSet(ids)
    <3>1. ids \subseteq DOMAIN table
      BY <2>1
    <3> HIDE DEF ids
    <3> QED BY <3>1, FS_Subset DEF TreeInv, TreeTyped
  <2>3. Cardinality(ids) \in Nat
    BY <2>2, FS_CardinalityType
  <2> QED BY <2>1, <2>3 DEF TreeInv, TreeTyped
<1>4. children \in [1 .. Cardinality(ids) -> ids] /\ \A id \in ids : \E i \in DOMAIN children : children[i] = id
  BY DEF ByDepth, Range
<1>5. /\ back \in Seq(NodeRecords) /\ Len(back) = Cardinality(ids)
      /\ \A i \in 1 .. Cardinality(ids) :
           back[i].id \in ids /\ back[i].status \in {"planned", "open", "closing"}
  <2> HIDE DEF ids
  <2>1. \A i \in 1 .. Cardinality(ids) : children[i] \in ids /\ DOMAIN children = 1 .. Cardinality(ids)
    BY <1>4
  <2>2. \A id \in ids : table[id] \in {"planned", "open", "closing"}
    BY <1>3 DEF Restorable
  <2>3. \A i \in 1 .. Cardinality(ids) :
          /\ back[i] = [id |-> children[i], status |-> table[children[i]]]
          /\ back[i] \in NodeRecords
    BY <1>3, <2>1, <2>2 DEF NodeRecords, NodeStatuses
  <2>4. DOMAIN back = 1 .. Cardinality(ids)
    BY <1>4
  <2>5. back \in Seq(NodeRecords) /\ Len(back) = Cardinality(ids)
    BY <1>3, <2>1, <2>3, <2>4
  <2> QED BY <2>1, <2>2, <2>3, <2>5
<1>6. /\ roots \in Seq(NodeRecords) /\ Len(roots) = Cardinality(held)
      /\ Cardinality(held) \in Nat
      /\ \A i \in 1 .. Cardinality(held) :
           \E asset \in held : roots[i].id = RootId(asset)
  <2>1. IsFiniteSet(held) /\ held \subseteq TreeAssets
    BY TreeAssumption, FS_Subset
  <2>2. Cardinality(held) \in Nat /\ SetToSeq(held) \in [1 .. Cardinality(held) -> held]
    BY <2>1, SetAsList
  <2>3. \A asset \in held : RootId(asset) \in NodeIds
    BY <2>1 DEF RootId, NodeIds, StepsDown
  <2>4. \A i \in 1 .. Cardinality(held) :
          /\ roots[i].id = RootId(SetToSeq(held)[i])
          /\ roots[i].status \in NodeStatuses /\ roots[i] \in NodeRecords
    BY <2>2, <2>3 DEF Roots, NodeRecords, NodeStatuses
  <2>5. DOMAIN roots = 1 .. Cardinality(held)
    BY DEF Roots
  <2>6. roots \in Seq(NodeRecords) /\ Len(roots) = Cardinality(held)
    <3>1. roots = [i \in 1 .. Cardinality(held) |-> roots[i]]
      BY DEF Roots
    <3> HIDE DEF roots
    <3> QED BY <2>2, <2>4, <3>1
  <2> QED BY <2>2, <2>4, <2>6
<1> HIDE DEF roots, back, ids
<1>n. PICK h \in Nat, c \in Nat : h = Cardinality(held) /\ c = Cardinality(ids)
  BY <1>3, <1>6
<1>7. /\ nodes' \in Seq(NodeRecords) /\ Len(nodes') = h + c
      /\ \A i \in 1 .. h : nodes'[i] = roots[i]
      /\ \A i \in 1 .. c : nodes'[h + i] = back[i]
  <2>1. nodes' = roots \o back
    BY <1>1 DEF back
  <2>2. /\ roots \in Seq(NodeRecords) /\ back \in Seq(NodeRecords)
        /\ Len(roots) = h /\ Len(back) = c
    BY <1>5, <1>6, <1>n
  <2>3. /\ nodes' \in Seq(NodeRecords) /\ Len(nodes') = h + c
        /\ \A i \in 1 .. h + c : nodes'[i] = IF i <= h THEN roots[i] ELSE back[i - h]
    BY <2>1, <2>2, ConcatProperties
  <2>4. \A i \in 1 .. c : h + i \in 1 .. h + c /\ ~(h + i <= h) /\ (h + i) - h = i
    OBVIOUS
  <2>5. \A i \in 1 .. h : i \in 1 .. h + c /\ i <= h
    OBVIOUS
  <2> QED BY <2>3, <2>4, <2>5
<1>8. \A i \in DOMAIN nodes' :
        \/ \E asset \in held : nodes'[i].id = RootId(asset)
        \/ nodes'[i].id \in ids /\ nodes'[i].status # "closed"
  <2> SUFFICES ASSUME NEW i \in DOMAIN nodes'
               PROVE  \/ \E asset \in held : nodes'[i].id = RootId(asset)
                      \/ nodes'[i].id \in ids /\ nodes'[i].status # "closed"
    OBVIOUS
  <2>1. CASE i \in 1 .. h
    BY <1>6, <1>7, <1>n, <2>1
  <2>2. CASE i \notin 1 .. h
    <3>1. /\ i - h \in 1 .. c
          /\ h + (i - h) = i
      BY <1>7, <2>2
    <3> QED BY <1>5, <1>7, <1>n, <3>1
  <2> QED BY <2>1, <2>2
<1>9. \A asset : ~IsChild(RootId(asset))
  BY DEF IsChild, RootId
<1>10. ids \subseteq IdsIn(nodes')
  <2> SUFFICES ASSUME NEW id \in ids PROVE id \in IdsIn(nodes')
    OBVIOUS
  <2>1. PICK i \in 1 .. c : children[i] = id
    BY <1>4, <1>n
  <2>2. back[i].id = children[i]
    BY <1>4, <1>n DEF back
  <2>3. nodes'[h + i].id = id
    BY <1>7, <2>1, <2>2
  <2>4. h + i \in DOMAIN nodes'
    BY <1>7
  <2> QED BY <2>3, <2>4 DEF IdsIn
<1>11. TreeTyped'
  BY <1>2, <1>3, <1>6, <1>7 DEF TreeInv, TreeTyped
<1>12. NumberedByPlace'
  BY <1>2 DEF NumberedByPlace
<1>13. ClosedNodeHasOutcome' /\ ClosedRowHasOutcome'
  BY <1>2, <1>8, <1>9 DEF TreeInv, ClosedNodeHasOutcome, ClosedRowHasOutcome
<1>14. RowsRestored'
  <2> SUFFICES ASSUME NEW id \in DOMAIN table, IsChild(id), Restorable(id),
                      NEW i \in 1 .. atStart', IsChild(nodes'[i].id),
                      ParentOf(id) \in Restored'
               PROVE  id \in ids
    BY <1>2, <1>10 DEF RowsRestored, Restorable
  <2>1. restored /\ ids = Rehydrated(held)
    <3>1. i \in DOMAIN nodes'
      BY <1>2, <1>7
    <3> QED BY <1>3, <1>8, <1>9, <3>1 DEF ids
  <2>2. PICK j \in DOMAIN nodes' : nodes'[j].id = ParentOf(id)
    BY <1>2, <1>7 DEF Restored
  <2> DEFINE m == Len(id)
             up == ParentOf(id)
  <2>3. id \in Seq(StepsDown) /\ m \in Nat /\ m > 1 /\ \A k \in 1 .. m : id[k] \in StepsDown
    BY DEF TreeInv, TreeTyped, NodeIds, IsChild
  <2>4. up \in Seq(StepsDown) /\ Len(up) = m - 1 /\ \A k \in 1 .. m - 1 : up[k] = id[k]
    <3>1. \A k \in 1 .. m - 1 : id[k] \in StepsDown
      BY <2>3
    <3>2. /\ SubSeq(id, 1, m - 1) \in Seq(StepsDown)
          /\ Len(SubSeq(id, 1, m - 1)) = IF 1 <= m - 1 THEN (m - 1) - 1 + 1 ELSE 0
          /\ \A k \in 1 .. (m - 1) - 1 + 1 : SubSeq(id, 1, m - 1)[k] = id[1 + k - 1]
      BY <2>3, <3>1, SubSeqProperties
    <3> QED BY <2>3, <3>2 DEF ParentOf
  <2>5. Head(up) = Head(id) /\ Head(id) = id[1] /\ Head(up) = up[1]
    BY <2>3, <2>4
  <2>6. CASE \E asset \in held : up = RootId(asset)
    <3>1. PICK asset \in held : up = RootId(asset)
      BY <2>6
    <3>2. Len(up) = 1 /\ up[1].asset = asset
      BY <3>1, Len(<<[asset |-> asset, n |-> 0]>>) = 1 DEF RootId
    <3>3. Head(id).asset \in held
      BY <2>5, <3>2
    <3>5. m = 2
      <4>1. PICK n \in Nat : n = m
        BY <2>3
      <4>2. n - 1 = 1
        BY <2>4, <3>2, <4>1
      <4>3. n = 2
        BY <4>2
      <4> QED BY <4>1, <4>3, Zenon
    <3>4. \A k \in 2 .. (m - 1) : FALSE
      BY <3>5
    <3> QED BY <2>1, <3>3, <3>4 DEF Rehydrated
  <2>7. CASE up \in ids
    <3>1. up \in DOMAIN table /\ IsChild(up) /\ Restorable(up) /\ Head(up).asset \in held
          /\ \A k \in 2 .. (Len(up) - 1) :
               SubSeq(up, 1, k) \in DOMAIN table /\ Restorable(SubSeq(up, 1, k))
      BY <2>1, <2>7 DEF Rehydrated
    <3>2. ASSUME NEW k \in 2 .. (m - 1)
          PROVE  SubSeq(id, 1, k) \in DOMAIN table /\ Restorable(SubSeq(id, 1, k))
      <4>1. CASE k = m - 1
        BY <3>1, <4>1 DEF ParentOf
      <4>2. CASE k # m - 1
        <5>1. k \in 2 .. (Len(up) - 1)
          BY <2>3, <2>4, <4>2
        <5>2. SubSeq(SubSeq(id, 1, m - 1), 1, k) = SubSeq(id, 1 + 1 - 1, 1 + k - 1)
          <6>1. 1 \in 1 .. m /\ m - 1 \in 1 .. m /\ 1 \in 1 .. (m - 1) - 1 + 1
                /\ k \in 1 .. (m - 1) - 1 + 1
            BY <2>3
          <6> QED BY <2>3, <6>1, SubSeqOfSubSeq
        <5>3. SubSeq(up, 1, k) = SubSeq(id, 1, k)
          BY <5>2 DEF ParentOf
        <5> QED BY <3>1, <5>1, <5>3
      <4> QED BY <4>1, <4>2
    <3> QED BY <2>1, <2>5, <3>1, <3>2 DEF Rehydrated
  <2> QED BY <1>8, <2>2, <2>6, <2>7
<1> QED BY <1>11, <1>12, <1>13, <1>14 DEF TreeInv
-----------------------------------------------------------------------------
(* The invariant and the properties *)

LEMMA TreeStart == TreeInit => TreeInv
<1>1. IsFiniteSet({}) /\ DOMAIN <<>> = {}
  BY FS_EmptySet
<1> QED
  BY <1>1 DEF TreeInit, TreeInv, TreeTyped, NumberedByPlace, ClosedNodeHasOutcome,
              ClosedRowHasOutcome, RowsRestored

\* Steps that leave the nodes as they are.
LEMMA NodesKept ==
  ASSUME TreeInv, UNCHANGED <<nodes, atStart, table, outcomes>>, phase # "down"
  PROVE  TreeInv'
BY RelabelledKeeps DEF Relabelled, TreeInv, TreeTyped

\* Steps that mark nodes, but none closed.
LEMMA MarkedKeeps ==
  ASSUME TreeInv, NEW id, NEW status \in NodeStatuses \ {"closed"}, nodes' = Marked(id, status),
         UNCHANGED <<atStart, table, outcomes>>, phase # "down"
  PROVE  TreeInv'
<1>1. Relabelled
  BY MarkedNodes DEF Relabelled, TreeInv
<1> QED BY <1>1, RelabelledKeeps

LEMMA CancelledKeeps ==
  ASSUME TreeInv, NEW id, nodes' = Cancelled(id),
         UNCHANGED <<atStart, table, outcomes>>, phase # "down"
  PROVE  TreeInv'
<1>1. CASE nodes' = Marked(id, "cancelled")
  BY <1>1, MarkedKeeps DEF NodeStatuses
<1>2. CASE nodes' = nodes
  BY <1>2, NodesKept
<1> QED BY <1>1, <1>2 DEF Cancelled

\* _settle_rotation_fills stores the outcome with the end of the child.
LEMMA SettleKeeps == TreeInv /\ SettleFill => TreeInv'
<1> SUFFICES ASSUME TreeInv, SettleFill PROVE TreeInv'
  OBVIOUS
<1> DEFINE fill == Head(filled)
<1>1. phase # "down" /\ UNCHANGED <<atStart, table>>
  BY DEF SettleFill
<1>2. CASE nodes' = Marked(fill.id, "open") /\ UNCHANGED outcomes
  BY <1>1, <1>2, MarkedKeeps DEF NodeStatuses
<1>3. CASE nodes' = Marked(fill.id, "closed") /\ StoreOutcome(fill.id)
  <2>1. \A i \in DOMAIN nodes : IsChild(nodes[i].id) /\ nodes[i].id = fill.id =>
          nodes[i].id \in outcomes'
    BY <1>3 DEF StoreOutcome, Children, IdsIn
  <2>2. Relabelled
    BY <1>3, <2>1, MarkedNodes DEF Relabelled, TreeInv, NodeStatuses
  <2>3. outcomes \subseteq outcomes'
    BY <1>3 DEF StoreOutcome
  <2> QED BY <1>1, <2>2, <2>3, RelabelledKeeps
<1> QED BY <1>2, <1>3 DEF SettleFill

LEMMA PruneKeeps ==
  ASSUME TreeInv, NEW pruned \in SUBSET DOMAIN nodes, PruneRoots(pruned)
  PROVE  TreeInv'
<1>1. /\ nodes' = [i \in DOMAIN nodes |->
           IF i \in pruned THEN [nodes[i] EXCEPT !.status = "closed"] ELSE nodes[i]]
      /\ \A i \in pruned : ~IsChild(nodes[i].id)
      /\ UNCHANGED <<atStart, outcomes>> /\ phase # "down"
      /\ table' = table \/ table' = Saved(nodes')
  BY DEF PruneRoots, SaveOrFail
<1>2. \A i \in DOMAIN nodes :
        /\ nodes[i] \in NodeRecords
        /\ [nodes[i] EXCEPT !.status = "closed"] \in NodeRecords
        /\ [nodes[i] EXCEPT !.status = "closed"].id = nodes[i].id
  <2>1. \A i \in DOMAIN nodes : nodes[i] \in NodeRecords
    BY DEF TreeInv, TreeTyped
  <2> QED BY <2>1 DEF NodeRecords, NodeStatuses
<1>3. DOMAIN nodes = 1 .. Len(nodes) /\ Len(nodes) \in Nat
  BY DEF TreeInv, TreeTyped
<1>4. \A i \in DOMAIN nodes :
        /\ nodes'[i] \in NodeRecords /\ nodes'[i].id = nodes[i].id
        /\ i \notin pruned => nodes'[i] = nodes[i]
  BY <1>1, <1>2
<1>5. nodes' \in Seq(NodeRecords) /\ Len(nodes') = Len(nodes)
  BY <1>1, <1>3, <1>4
<1>6. Relabelled
  BY <1>1, <1>4, <1>5 DEF Relabelled
<1> QED BY <1>1, <1>6, RelabelledKeeps

LEMMA TreeStep == TreeInv /\ [TreeNext]_treeVars => TreeInv'
<1> SUFFICES ASSUME TreeInv, [TreeNext]_treeVars PROVE TreeInv'
  OBVIOUS
<1>1. ASSUME NEW held \in Wallets, NEW restored \in BOOLEAN, StartTree(held, restored)
      PROVE TreeInv'
  BY <1>1, StartKeeps
<1>2. CASE TreeCrash \/ OutcomeFails
  BY <1>2, ForgottenKeeps DEF TreeCrash, OutcomeFails
<1>3. ASSUME NEW p \in placed, FillQueued(p) \/ OrderMissing(p) \/ OrderTimesOut(p)
      PROVE TreeInv'
  <2>1. CASE FillQueued(p)
    BY <2>1, NodesKept DEF FillQueued
  <2>2. CASE OrderMissing(p)
    BY <2>2, CancelledKeeps, MarkedKeeps DEF OrderMissing, NodeStatuses
  <2>3. CASE OrderTimesOut(p)
    BY <2>3, CancelledKeeps, MarkedKeeps, NodesKept DEF OrderTimesOut, NodeStatuses
  <2> QED BY <1>3, <2>1, <2>2, <2>3
<1>4. CASE OrdersForgotten
  BY <1>4, NodesKept DEF OrdersForgotten
<1>5. ASSUME NEW pruned \in SUBSET DOMAIN nodes, PruneRoots(pruned) PROVE TreeInv'
  BY <1>5, PruneKeeps
<1>6. CASE NextPhase
  BY <1>6, NodesKept DEF NextPhase, Follows
<1>7. ASSUME NEW i \in DOMAIN nodes, GiveUpPlan(i) \/ PlaceExit(i) \/ MarkRoot(i)
      PROVE TreeInv'
  <2>1. CASE GiveUpPlan(i)
    BY <2>1, CancelledKeeps DEF GiveUpPlan
  <2>2. CASE PlaceExit(i)
    BY <2>2, MarkedKeeps DEF PlaceExit, NodeStatuses
  <2>3. CASE MarkRoot(i)
    BY <2>3, MarkedKeeps DEF MarkRoot, NodeStatuses
  <2> QED BY <1>7, <2>1, <2>2, <2>3
<1>8. ASSUME NEW i \in DOMAIN nodes, NEW k \in 1 .. TreeChildren,
             NEW assets \in [1 .. k -> TreeAssets], PlanLeafNode(i, assets)
      PROVE TreeInv'
  BY <1>8, PlannedKeeps
<1>9. CASE SettleFill
  BY <1>9, SettleKeeps
<1>10. ASSUME NEW entries \in SUBSET DOMAIN nodes, EndCycle(entries) PROVE TreeInv'
  <2>1. /\ phase # "down" /\ UNCHANGED <<nodes, atStart, outcomes>>
        /\ table' = table \/ table' = Saved(nodes')
    BY <1>10 DEF EndCycle, SaveOrFail
  <2>2. Relabelled
    BY <2>1 DEF Relabelled, TreeInv, TreeTyped
  <2> QED BY <2>1, <2>2, RelabelledKeeps
<1>11. CASE UNCHANGED treeVars
  BY <1>11 DEF treeVars, memoryVars, TreeInv, TreeTyped, NumberedByPlace, ClosedNodeHasOutcome,
               ClosedRowHasOutcome, RowsRestored, Restored, Restorable
<1> QED
  BY <1>1, <1>2, <1>3, <1>4, <1>5, <1>6, <1>7, <1>8, <1>9, <1>10, <1>11 DEF TreeNext

LEMMA TreeInvHolds == TreeInit /\ [][TreeNext]_treeVars => []TreeInv
BY TreeStart, TreeStep, PTL

\* The table tells of no child's end whose outcome trade_outcomes does not have:
\* _settle_rotation_fills writes the one before save_rotation_tree the other.
THEOREM ClosedRowHasOutcomeHolds == TreeInit /\ [][TreeNext]_treeVars => []ClosedRowHasOutcome
<1>1. TreeInv => ClosedRowHasOutcome
  BY DEF TreeInv
<1> QED BY <1>1, TreeInvHolds, PTL

\* What a restart has not brought back, though its parent is back, a save does not
\* delete: only a process that restored no child forgets open ones.
LEMMA RowsDeleted ==
  TreeInv /\ [TreeNext]_treeVars =>
    \A id \in DOMAIN table \ DOMAIN table' :
      (IsChild(id) /\ table[id] = "open" /\ id \notin IdsIn(nodes))
        => \/ \A i \in 1..atStart : ~IsChild(nodes[i].id)
           \/ SubSeq(id, 1, Len(id) - 1) \notin {nodes[i].id : i \in 1..atStart}
<1> SUFFICES ASSUME TreeInv, [TreeNext]_treeVars, NEW id \in DOMAIN table \ DOMAIN table',
                    IsChild(id), table[id] = "open", id \notin IdsIn(nodes)
             PROVE  \/ \A i \in 1..atStart : ~IsChild(nodes[i].id)
                    \/ ParentOf(id) \notin Restored
  BY DEF ParentOf, Restored
<1>1. phase # "down"
  BY DEF TreeNext, StartTree, TreeCrash, FillQueued, OrderMissing, OrderTimesOut,
         OrdersForgotten, PruneRoots, NextPhase, GiveUpPlan, PlaceExit, MarkRoot, PlanLeafNode,
         SettleFill, OutcomeFails, EndCycle, treeVars
<1> QED BY <1>1 DEF TreeInv, RowsRestored, Restorable

THEOREM OpenChildrenKeptHolds == TreeInit /\ [][TreeNext]_treeVars => OpenChildrenKept
BY RowsDeleted, TreeInvHolds, PTL DEF OpenChildrenKept

\* A child is numbered by its place in the list, so that it has the id of no node
\* made before it by the same process; and its asset is one no live node holds.
LEMMA ChildrenNumbered ==
  TreeInv /\ [TreeNext]_treeVars =>
    (phase = "plan" =>
       \A i \in DOMAIN nodes' \ DOMAIN nodes : \A j \in DOMAIN nodes :
         nodes[j].id = nodes'[i].id => j <= atStart /\ nodes[j].status \notin Live)
<1> SUFFICES ASSUME TreeInv, [TreeNext]_treeVars, phase = "plan",
                    NEW i \in DOMAIN nodes' \ DOMAIN nodes, NEW j \in DOMAIN nodes,
                    nodes[j].id = nodes'[i].id
             PROVE  j <= atStart /\ nodes[j].status \notin Live
  OBVIOUS
<1>1. DOMAIN nodes = 1 .. Len(nodes) /\ Len(nodes) \in Nat /\ atStart \in Nat
  BY DEF TreeInv, TreeTyped
<1>2. PICK leaf \in DOMAIN nodes, k \in 1 .. TreeChildren : \E assets \in [1 .. k -> TreeAssets] :
        PlanLeafNode(leaf, assets)
  BY DEF TreeNext, StartTree, TreeCrash, Forgotten, FillQueued, OrderMissing, OrderTimesOut,
         OrdersForgotten, PruneRoots, NextPhase, GiveUpPlan, PlaceExit, MarkRoot,
         SettleFill, OutcomeFails, EndCycle, treeVars, memoryVars
<1>3. PICK assets \in [1 .. k -> TreeAssets] : PlanLeafNode(leaf, assets)
  BY <1>2
<1>4. k \in Nat /\ DOMAIN assets = 1 .. k
  BY TreeAssumption
<1>5. /\ nodes' \in Seq(NodeRecords) /\ Len(nodes') = Len(nodes) + k
      /\ \A h \in Len(nodes) + 1 .. Len(nodes) + k :
           Last(nodes'[h].id) = [asset |-> assets[h - Len(nodes)], n |-> h - 1]
  BY <1>3, PlannedNodes DEF TreeInv
<1>6. i \in Len(nodes) + 1 .. Len(nodes) + k
  BY <1>1, <1>4, <1>5
<1>7. /\ Last(nodes[j].id) = [asset |-> assets[i - Len(nodes)], n |-> i - 1]
      /\ i - Len(nodes) \in 1 .. k
  BY <1>1, <1>4, <1>5, <1>6
<1>8. Last(nodes[j].id).n = i - 1 /\ Last(nodes[j].id).asset = assets[i - Len(nodes)]
  BY <1>1, <1>6, <1>7
<1>9. j <= atStart
  <2>1. j > atStart => Last(nodes[j].id).n = j - 1
    BY DEF TreeInv, NumberedByPlace
  <2>2. i - 1 # j - 1
    BY <1>1, <1>6
  <2> QED BY <1>1, <1>8, <2>1, <2>2
<1>10. nodes[j].status \notin Live
  <2>1. HeldAssets \cap Range(assets) = {}
    BY <1>3 DEF PlanLeafNode
  <2>2. AssetOf(nodes[j].id) \in Range(assets)
    BY <1>4, <1>7, <1>8 DEF AssetOf, Range
  <2> QED BY <2>1, <2>2 DEF HeldAssets, LiveNodes
<1> QED BY <1>9, <1>10

\* No order or fill of a live node can be taken for another's: make_child_node and
\* add_node give a new child the id, if of any, of a node no longer traded into.
THEOREM SharedIdsExplainedHolds == TreeInit /\ [][TreeNext]_treeVars => SharedIdsExplained
BY ChildrenNumbered, TreeInvHolds, PTL DEF SharedIdsExplained
=============================================================================
