---------------------------- MODULE IngestionProofs ---------------------------
(***************************************************************************)
(* What holds of the rate limiter and of the ingestion pipeline for every  *)
(* number of requests, any queue size, rate, window and retry budget.      *)
(***************************************************************************)
EXTENDS BatchIngestion, SequenceTheorems, FiniteSetTheorems, TLAPS

(* For every rate, window and batch size: the sliding window is respected. *)
(* The deque is a tail of the history and what it forgot is older than the *)
(* window (DequeCoversWindow); a grant therefore lands MaxRate places      *)
(* behind an entry that is either forgotten or purged by this very call.   *)

(* The inductive invariant; the width of the deque is not needed. *)
RateInv == RateTypeOK /\ DequeCoversWindow /\ WindowRespected

LEMMA InstantsType ==
    ASSUME NEW count \in Nat, now \in Nat
    PROVE  /\ Instants(count) \in Seq(0..now)
           /\ Len(Instants(count)) = count
           /\ \A i \in 1..count : Instants(count)[i] = now
  BY DEF Instants

LEMMA RateInitially == RateInit => RateInv
  BY RateAssumption DEF RateInit, RateInv, RateTypeOK, DequeCoversWindow, Forgotten, WindowRespected

(* What purging alone does to the deque. *)
LEMMA PurgeKeeps ==
    ASSUME RateInv, NEW k \in 0..Len(timestamps), StalePrefix(k),
           NEW kept, kept = SubSeq(timestamps, k + 1, Len(timestamps))
    PROVE  /\ kept \in Seq(0..now)
           /\ Len(kept) = Len(timestamps) - k
           /\ \A i \in 1..Len(kept) : kept[i] = grants[Forgotten + k + i]
           /\ \A i \in 1..(Forgotten + k) : grants[i] < now - Window
           /\ Forgotten + k \in 0..Len(grants)
  <1>1. /\ timestamps \in Seq(0..now) /\ grants \in Seq(0..now) /\ now \in Nat
        BY DEF RateInv, RateTypeOK
  <1>2. kept \in Seq(0..now) /\ Len(kept) = Len(timestamps) - k
        BY <1>1
  <1>3. \A i \in 1..Len(kept) : kept[i] = timestamps[k + i]
    <2> DEFINE n == Len(timestamps)
    <2>0. n \in Int /\ k + 1 \in Int /\ \A i \in (k + 1)..n : timestamps[i] \in 0..now
          BY <1>1
    <2> HIDE DEF n
    <2>1. \A i \in 1..(n - (k + 1) + 1) :
              SubSeq(timestamps, k + 1, n)[i] = timestamps[(k + 1) + i - 1]
          BY ONLY <2>0, SubSeqProperties
    <2>2. \A i \in 1..Len(kept) : (k + 1) + i - 1 = k + i
          BY <1>1
    <2> QED BY <1>1, <1>2, <2>1, <2>2 DEF n
  <1>4. Forgotten \in Nat /\ Len(timestamps) + Forgotten = Len(grants)
        BY <1>1 DEF RateInv, DequeCoversWindow, Forgotten
  <1>5. \A i \in 1..Len(kept) : kept[i] = grants[Forgotten + k + i]
    <2> SUFFICES ASSUME NEW i \in 1..Len(kept) PROVE kept[i] = grants[Forgotten + k + i]
        OBVIOUS
    <2>1. k + i \in 1..Len(timestamps) BY <1>1, <1>2
    <2>2. timestamps[k + i] = grants[Forgotten + (k + i)] BY <2>1 DEF RateInv, DequeCoversWindow
    <2>3. Forgotten + (k + i) = Forgotten + k + i BY <1>4
    <2> QED BY <1>3, <2>2, <2>3
  <1>6. \A i \in 1..(Forgotten + k) : grants[i] < now - Window
    <2> SUFFICES ASSUME NEW i \in 1..(Forgotten + k) PROVE grants[i] < now - Window
        OBVIOUS
    <2>1. CASE i <= Forgotten BY <2>1, <1>4 DEF RateInv, DequeCoversWindow
    <2>2. CASE i > Forgotten
      <3>1. i - Forgotten \in 1..k /\ i - Forgotten \in 1..Len(timestamps) BY <1>4, <2>2, <1>1
      <3>2. timestamps[i - Forgotten] = grants[Forgotten + (i - Forgotten)]
            BY <3>1 DEF RateInv, DequeCoversWindow
      <3>3. Forgotten + (i - Forgotten) = i BY <1>4
      <3> QED BY <3>1, <3>2, <3>3 DEF StalePrefix
    <2> QED BY <1>4, <2>1, <2>2
  <1>7. Forgotten + k \in 0..Len(grants) BY <1>1, <1>4
  <1> QED BY <1>2, <1>5, <1>6, <1>7

LEMMA GrantKeepsRateInv ==
    ASSUME RateInv, NEW count \in Nat, AcquireGranted(count) PROVE RateInv'
  <1>1. PICK k \in 0..Len(timestamps) :
            /\ StalePrefix(k)
            /\ Len(timestamps) - k + count <= MaxRate
            /\ timestamps' = SubSeq(timestamps, k + 1, Len(timestamps)) \o Instants(count)
            /\ grants' = grants \o Instants(count)
            /\ now' = now
        BY DEF AcquireGranted
  <1> DEFINE kept == SubSeq(timestamps, k + 1, Len(timestamps))
  <1>2. /\ now \in 0..MaxTime /\ now \in Nat /\ grants \in Seq(0..now)
        /\ timestamps \in Seq(0..now)
        BY RateAssumption DEF RateInv, RateTypeOK
  <1>3. /\ kept \in Seq(0..now)
        /\ Len(kept) = Len(timestamps) - k
        /\ \A i \in 1..Len(kept) : kept[i] = grants[Forgotten + k + i]
        /\ \A i \in 1..(Forgotten + k) : grants[i] < now - Window
        /\ Forgotten + k \in 0..Len(grants)
        BY <1>1, PurgeKeeps
  <1>4. /\ Instants(count) \in Seq(0..now) /\ Len(Instants(count)) = count
        /\ \A i \in 1..count : Instants(count)[i] = now
        BY <1>2, InstantsType
  <1> HIDE DEF kept
  <1>5. /\ timestamps' = kept \o Instants(count)
        /\ grants' = grants \o Instants(count)
        BY <1>1 DEF kept
  <1>6. /\ timestamps' \in Seq(0..now) /\ grants' \in Seq(0..now)
        /\ Len(timestamps') = Len(kept) + count /\ Len(grants') = Len(grants) + count
    <2>1. /\ timestamps' \in Seq(0..now) /\ Len(timestamps') = Len(kept) + Len(Instants(count))
          BY <1>3, <1>4, <1>5, ConcatProperties
    <2>2. /\ grants' \in Seq(0..now) /\ Len(grants') = Len(grants) + Len(Instants(count))
          BY <1>2, <1>4, <1>5, ConcatProperties
    <2> QED BY <2>1, <2>2, <1>4
  <1>7. /\ \A i \in 1..Len(grants) : grants'[i] = grants[i]
        /\ \A i \in 1..Len(kept) : timestamps'[i] = kept[i]
        BY <1>2, <1>3, <1>4, <1>5, <1>6
  <1>8. /\ \A i \in (Len(grants) + 1)..Len(grants') : grants'[i] = now
        /\ \A i \in (Len(kept) + 1)..Len(timestamps') : timestamps'[i] = now
    <2>1. ASSUME NEW i \in (Len(grants) + 1)..Len(grants') PROVE grants'[i] = now
      <3>1. i - Len(grants) \in 1..count /\ i \in 1..(Len(grants) + count) /\ ~(i <= Len(grants))
            BY <1>2, <1>6
      <3>2. grants \in Seq(0..now) /\ Instants(count) \in Seq(0..now) /\ Len(Instants(count)) = count
            BY <1>2, <1>4
      <3>3. (grants \o Instants(count))[i] = Instants(count)[i - Len(grants)]
            BY ONLY <3>1, <3>2, ConcatProperties
      <3>4. grants'[i] = Instants(count)[i - Len(grants)]
            BY <3>3, <1>5
      <3> QED BY <3>1, <3>4, <1>4
    <2>2. ASSUME NEW i \in (Len(kept) + 1)..Len(timestamps') PROVE timestamps'[i] = now
      <3>1. i - Len(kept) \in 1..count /\ i \in 1..(Len(kept) + count) /\ ~(i <= Len(kept))
            BY <1>3, <1>6
      <3>2. kept \in Seq(0..now) /\ Instants(count) \in Seq(0..now) /\ Len(Instants(count)) = count
            BY <1>3, <1>4
      <3>3. (kept \o Instants(count))[i] = Instants(count)[i - Len(kept)]
            BY ONLY <3>1, <3>2, ConcatProperties
      <3>4. timestamps'[i] = Instants(count)[i - Len(kept)]
            BY <3>3, <1>5
      <3> QED BY <3>1, <3>4, <1>4
    <2> QED BY <2>1, <2>2
  <1>9. Forgotten \in Nat /\ Forgotten' = Forgotten + k
        /\ Len(grants) = Forgotten + Len(timestamps)
        BY <1>2, <1>3, <1>6 DEF Forgotten, RateInv, DequeCoversWindow
  <1>10. RateTypeOK' BY <1>1, <1>2, <1>6 DEF RateTypeOK
  <1>11. DequeCoversWindow'
    <2>1. Forgotten' >= 0 BY <1>3, <1>9
    <2>2. ASSUME NEW i \in 1..Len(timestamps') PROVE timestamps'[i] = grants'[Forgotten' + i]
      <3>1. CASE i <= Len(kept)
        <4>1. i \in 1..Len(kept) /\ Forgotten + k + i \in 1..Len(grants)
              BY <3>1, <1>2, <1>3, <1>6, <1>9
        <4> QED BY <4>1, <1>3, <1>7, <1>9
      <3>2. CASE i > Len(kept)
        <4>1. i \in (Len(kept) + 1)..Len(timestamps')
              /\ Forgotten + k + i \in (Len(grants) + 1)..Len(grants')
          <5>1. /\ Len(kept) \in Nat /\ Len(grants) \in Nat /\ i \in Nat /\ Len(grants') \in Nat
                BY <1>2, <1>3, <1>6
          <5>2. /\ i > Len(kept) /\ i <= Len(kept) + count
                /\ Len(grants) = Forgotten + k + Len(kept)
                BY <3>2, <1>3, <1>6, <1>9, <1>2
          <5> QED BY <5>1, <5>2, <1>6, <1>9
        <4> QED BY <4>1, <1>8, <1>9
      <3> QED BY <3>1, <3>2, <1>3
    <2>3. ASSUME NEW i \in 1..Forgotten' PROVE grants'[i] < now' - Window
      <3>1. i \in 1..(Forgotten + k) /\ i \in 1..Len(grants) BY <1>3, <1>9
      <3> QED BY <3>1, <1>1, <1>3, <1>7
    <2> QED BY <2>1, <2>2, <2>3 DEF DequeCoversWindow
  <1>12. WindowRespected'
    <2> SUFFICES ASSUME NEW i \in 1..Len(grants'), i + MaxRate <= Len(grants')
                 PROVE  grants'[i + MaxRate] - grants'[i] > Window
        BY DEF WindowRespected
    <2>1. CASE i + MaxRate <= Len(grants)
      <3>1. i \in 1..Len(grants) /\ i + MaxRate \in 1..Len(grants)
            BY <2>1, <1>2, RateAssumption
      <3> QED BY <3>1, <2>1, <1>7 DEF RateInv, WindowRespected
    <2>2. CASE i + MaxRate > Len(grants)
      <3>1. /\ i \in 1..(Forgotten + k) /\ i \in 1..Len(grants)
            /\ i + MaxRate \in (Len(grants) + 1)..Len(grants')
        <4>1. /\ Len(grants') = Len(grants) + count /\ Len(grants) \in Nat /\ MaxRate \in Nat
              /\ Len(timestamps) - k + count <= MaxRate
              BY <1>1, <1>2, <1>6, RateAssumption
        <4>2. /\ Forgotten \in Nat /\ Len(grants) = Forgotten + Len(timestamps)
              /\ Len(timestamps) \in Nat /\ k \in 0..Len(timestamps)
              BY <1>2, <1>9
        <4>3. i \in Nat \ {0} /\ i + MaxRate <= Len(grants) + count
              BY <4>1
        <4> QED BY ONLY <4>1, <4>2, <4>3, <2>2
      <3>2. grants'[i + MaxRate] = now /\ grants'[i] = grants[i] /\ grants[i] < now - Window
            BY <3>1, <1>3, <1>7, <1>8
      <3>3. grants[i] \in 0..now BY <3>1, <1>2
      <3> QED BY <3>2, <3>3, <1>2, RateAssumption
    <2> QED BY <2>1, <2>2, <1>2, RateAssumption
  <1> QED BY <1>10, <1>11, <1>12 DEF RateInv

LEMMA RefusalKeepsRateInv ==
    ASSUME RateInv, NEW count, AcquireRefused(count) PROVE RateInv'
  <1>1. PICK k \in 0..Len(timestamps) :
            /\ StalePrefix(k)
            /\ timestamps' = SubSeq(timestamps, k + 1, Len(timestamps))
            /\ now' = now /\ grants' = grants
        BY DEF AcquireRefused
  <1>2. /\ now \in 0..MaxTime /\ grants \in Seq(0..now) /\ timestamps \in Seq(0..now)
        BY DEF RateInv, RateTypeOK
  <1>3. /\ timestamps' \in Seq(0..now)
        /\ Len(timestamps') = Len(timestamps) - k
        /\ \A i \in 1..Len(timestamps') : timestamps'[i] = grants[Forgotten + k + i]
        /\ \A i \in 1..(Forgotten + k) : grants[i] < now - Window
        /\ Forgotten + k \in 0..Len(grants)
        BY <1>1, PurgeKeeps
  <1>4. Forgotten' = Forgotten + k
    <2>1. Len(grants) \in Nat /\ Len(timestamps) \in Nat BY <1>2
    <2>2. Len(grants') = Len(grants) /\ Len(timestamps') = Len(timestamps) - k BY <1>1, <1>3
    <2> QED BY <2>1, <2>2 DEF Forgotten
  <1>5. RateTypeOK' BY <1>1, <1>2, <1>3 DEF RateTypeOK
  <1>6. DequeCoversWindow' BY <1>1, <1>3, <1>4 DEF DequeCoversWindow
  <1>7. WindowRespected' BY <1>1 DEF RateInv, WindowRespected
  <1> QED BY <1>5, <1>6, <1>7 DEF RateInv

LEMMA TickKeepsRateInv ==
    ASSUME RateInv, Tick PROVE RateInv'
  <1>1. /\ now \in Nat /\ now' = now + 1 /\ now' \in 0..MaxTime
        /\ timestamps' = timestamps /\ grants' = grants
        /\ grants \in Seq(0..now) /\ timestamps \in Seq(0..now)
        BY RateAssumption DEF RateInv, RateTypeOK, Tick
  <1>2. RateTypeOK' BY <1>1 DEF RateTypeOK
  <1>3. Forgotten' = Forgotten /\ Forgotten \in Int /\ Forgotten <= Len(grants) BY <1>1 DEF Forgotten
  <1>4. DequeCoversWindow'
    <2>1. ASSUME NEW i \in 1..Forgotten PROVE grants[i] < now' - Window
      <3>1. grants[i] < now - Window /\ i \in 1..Len(grants)
            BY <1>3, <1>1 DEF RateInv, DequeCoversWindow
      <3>2. grants[i] \in 0..now BY <3>1, <1>1
      <3> QED BY <3>1, <3>2, <1>1, RateAssumption
    <2> QED BY <1>1, <1>3, <2>1 DEF RateInv, DequeCoversWindow
  <1>5. WindowRespected' BY <1>1 DEF RateInv, WindowRespected
  <1> QED BY <1>2, <1>4, <1>5 DEF RateInv

LEMMA RateStutterKeeps ==
    ASSUME RateInv, UNCHANGED rateVars PROVE RateInv'
  BY DEF RateInv, rateVars, RateTypeOK, DequeCoversWindow, Forgotten, WindowRespected

(* For every rate, window and size of request, the limiter's state is      *)
(* inductive: acquire() keeps the deque the live tail of what it granted.  *)
THEOREM RateInvariant == RateSpec => []RateInv
  <1>1. RateInv /\ [RateNext]_rateVars => RateInv'
    <2> SUFFICES ASSUME RateInv, [RateNext]_rateVars PROVE RateInv' OBVIOUS
    <2>1. CASE \E count \in 1..MaxCount : AcquireGranted(count)
          BY <2>1, GrantKeepsRateInv, RateAssumption
    <2>2. CASE \E count \in 1..MaxCount : AcquireRefused(count)
          BY <2>2, RefusalKeepsRateInv
    <2>3. CASE Tick BY <2>3, TickKeepsRateInv
    <2>4. CASE UNCHANGED rateVars BY <2>4, RateStutterKeeps
    <2> QED BY <2>1, <2>2, <2>3, <2>4 DEF RateNext
  <1> QED BY RateInitially, <1>1, PTL DEF RateSpec

(* acquire() never lets MaxRate + 1 consecutive grants into one window,    *)
(* whatever the rate, the window and the sizes asked for.                  *)
THEOREM WindowIsRespected == RateSpec => []WindowRespected
  <1>1. RateInv => WindowRespected BY DEF RateInv
  <1> QED BY RateInvariant, <1>1, PTL

-----------------------------------------------------------------------------
(* What holds of the ingestion pipeline for every number of requests, any  *)
(* queue size, rate and retry budget.  The invariant is inductive as soon  *)
(* as the slot count, the load bound and the limiter's own invariant are   *)
(* taken together; the argument counts the sets At(places) as one request  *)
(* at a time joins or leaves them.                                         *)

(* How often a request's event can have been written, attempt by attempt.  *)
TriesCounted ==
    \A r \in Requests :
        /\ pc[r] # "accepted" => failures[r] < MaxAttempts
        /\ pc[r] \notin {"accepted", "cancelled"} => stored[r] <= failures[r]

PipelineInv == /\ TypeOK /\ RateInv
               /\ SlotAccounting /\ LoadBounded /\ MetricsBalance
               /\ TriesCounted /\ AcceptedWasTried

-----------------------------------------------------------------------------
(* Counting the requests at a place. *)

LEMMA AtFinite ==
    ASSUME NEW X
    PROVE  IsFiniteSet(At(X)) /\ Cardinality(At(X)) \in Nat
  <1>1. At(X) \subseteq Requests /\ IsFiniteSet(Requests) BY PipelineAssumption DEF At
  <1> QED BY <1>1, FS_Subset, FS_CardinalityType

LEMMA Joins ==
    ASSUME TypeOK, NEW X, NEW r \in Requests, NEW to \in X, Moves(r, to), pc[r] \notin X
    PROVE  /\ r \notin At(X) /\ At(X)' = At(X) \cup {r}
           /\ Cardinality(At(X)') = Cardinality(At(X)) + 1
  <1>1. r \notin At(X) /\ At(X)' = At(X) \cup {r} BY DEF At, Moves, TypeOK
  <1> QED BY <1>1, AtFinite, FS_AddElement

LEMMA Quits ==
    ASSUME TypeOK, NEW X, NEW r \in Requests, NEW to, to \notin X, Moves(r, to), pc[r] \in X
    PROVE  /\ r \in At(X) /\ At(X)' = At(X) \ {r}
           /\ Cardinality(At(X)') = Cardinality(At(X)) - 1
           /\ Cardinality(At(X)) >= 1
  <1>1. r \in At(X) /\ At(X)' = At(X) \ {r} BY DEF At, Moves, TypeOK
  <1>2. Cardinality(At(X)') = Cardinality(At(X)) - 1
        BY <1>1, AtFinite, FS_RemoveElement
  <1>3. Cardinality(At(X)) # 0 BY <1>1, AtFinite, FS_EmptySet
  <1> QED BY <1>1, <1>2, <1>3, AtFinite

LEMMA Remains ==
    ASSUME TypeOK, NEW X, NEW r \in Requests, NEW to, Moves(r, to), pc[r] \in X <=> to \in X
    PROVE  At(X)' = At(X)
  BY DEF At, Moves, TypeOK

-----------------------------------------------------------------------------
(* The slots. *)

EnterStep(r) == /\ active + 1 <= MaxQueueSize
                /\ active' = active + 1
                /\ r \notin HoldingSlot
                /\ HoldingSlot' = HoldingSlot \cup {r}
                /\ Cardinality(HoldingSlot') = Cardinality(HoldingSlot) + 1

LeaveStep(r) == /\ active' = IF active >= 1 THEN active - 1 ELSE 0
                /\ r \in HoldingSlot
                /\ HoldingSlot' = HoldingSlot \ {r}
                /\ Cardinality(HoldingSlot') = Cardinality(HoldingSlot) - 1
                /\ Cardinality(HoldingSlot) >= 1

IdleStep == active' = active /\ HoldingSlot' = HoldingSlot

(* Every step enters the pool, leaves it, or leaves it alone. *)
LEMMA SlotSteps ==
    ASSUME TypeOK, [Next]_vars
    PROVE  IdleStep \/ \E r \in Requests : EnterStep(r) \/ LeaveStep(r)
  <1> DEFINE X == {"rejecting", "publishing"}
  <1> USE DEF HoldingSlot
  <1>1. ASSUME NEW r \in Requests, IngestRefused(r) PROVE IdleStep
        BY <1>1, Remains DEF IngestRefused, ReceivedOne, BufferSaturated, RateExceeded,
                             controllerVars, IdleStep
  <1>2. ASSUME NEW r \in Requests, IngestInvalid(r) PROVE EnterStep(r)
        BY <1>2, Joins DEF IngestInvalid, ReceivedOne, TryAcquire, EnterStep
  <1>3. ASSUME NEW r \in Requests, IngestValid(r) PROVE EnterStep(r)
        BY <1>3, Joins DEF IngestValid, ReceivedOne, TryAcquire, EnterStep
  <1>4. ASSUME NEW r \in Requests, AnswerRefused(r) PROVE IdleStep
        BY <1>4, Remains DEF AnswerRefused, controllerVars, IdleStep
  <1>5. ASSUME NEW r \in Requests, AnswerRejected(r) PROVE LeaveStep(r)
        BY <1>5, Quits DEF AnswerRejected, Release, LeaveStep
  <1>6. ASSUME NEW r \in Requests, AnswerAccepted(r) PROVE LeaveStep(r)
        BY <1>6, Quits DEF AnswerAccepted, Accept, Release, LeaveStep
  <1>7. ASSUME NEW r \in Requests, RetryPublish(r) PROVE IdleStep
        BY <1>7 DEF RetryPublish, controllerVars, IdleStep, At
  <1>8. ASSUME NEW r \in Requests, GiveUpPublish(r) PROVE LeaveStep(r)
        BY <1>8, Quits DEF GiveUpPublish, AttemptFails, Accept, Release, LeaveStep
  <1>9. ASSUME NEW r \in Requests, CancelPublish(r) PROVE LeaveStep(r)
        BY <1>9, Quits DEF CancelPublish, Release, LeaveStep
  <1>10. ASSUME NEW r \in Requests, CancelRejection(r) PROVE IdleStep \/ LeaveStep(r)
    <2>1. CASE pc[r] = "rejecting"
          BY <1>10, <2>1, Quits DEF CancelRejection, Release, LeaveStep
    <2>2. CASE pc[r] = "refusing"
          BY <1>10, <2>2, Remains DEF CancelRejection, controllerVars, IdleStep
    <2> QED BY <1>10, <2>1, <2>2 DEF CancelRejection
  <1>11. ASSUME Time \/ UNCHANGED vars PROVE IdleStep
         BY <1>11 DEF Time, vars, controllerVars, IdleStep, At
  <1> QED BY <1>1, <1>2, <1>3, <1>4, <1>5, <1>6, <1>7, <1>8, <1>9, <1>10, <1>11
          DEF Next, Arrive, BrokerAnswers, Cancel

LEMMA SlotsKept ==
    ASSUME TypeOK, SlotAccounting, LoadBounded, [Next]_vars
    PROVE  SlotAccounting' /\ LoadBounded'
  <1>1. /\ Cardinality(HoldingSlot) \in Nat /\ active \in Nat /\ MaxQueueSize \in Nat
        /\ active = Cardinality(HoldingSlot) /\ Cardinality(HoldingSlot) <= MaxQueueSize
        BY AtFinite, QueueAssumption DEF HoldingSlot, TypeOK, SlotAccounting, LoadBounded
  <1>2. CASE IdleStep BY <1>1, <1>2 DEF IdleStep, SlotAccounting, LoadBounded
  <1>3. ASSUME NEW r \in Requests, EnterStep(r) PROVE SlotAccounting' /\ LoadBounded'
        BY <1>1, <1>3 DEF EnterStep, SlotAccounting, LoadBounded
  <1>4. ASSUME NEW r \in Requests, LeaveStep(r) PROVE SlotAccounting' /\ LoadBounded'
        BY <1>1, <1>4 DEF LeaveStep, SlotAccounting, LoadBounded
  <1> QED BY <1>2, <1>3, <1>4, SlotSteps

-----------------------------------------------------------------------------
(* The limiter inside the pipeline, and types. *)

LEMMA RateKept ==
    ASSUME RateInv, [Next]_vars
    PROVE  RateInv'
  <1>1. ASSUME AcquireGranted(1) PROVE RateInv' BY <1>1, GrantKeepsRateInv
  <1>2. ASSUME AcquireRefused(1) PROVE RateInv' BY <1>2, RefusalKeepsRateInv
  <1>3. ASSUME UNCHANGED rateVars PROVE RateInv' BY <1>3, RateStutterKeeps
  <1>4. AcquireGranted(1) \/ AcquireRefused(1) \/ Tick \/ UNCHANGED rateVars
        BY DEF Next, Arrive, BrokerAnswers, Cancel, IngestRefused, IngestInvalid, IngestValid,
               TryAcquire, BufferSaturated, RateExceeded, AnswerRefused, AnswerRejected,
               AnswerAccepted, Accept, RetryPublish, GiveUpPublish, CancelPublish,
               CancelRejection, Release, Time, vars, controllerVars
  <1> QED BY <1>1, <1>2, <1>3, <1>4, TickKeepsRateInv

LEMMA AppendedType ==
    ASSUME NEW S, NEW buffer \in Seq(S), NEW record \in S
    PROVE  Appended(buffer, record) \in Seq(S)
  <1>1. Append(buffer, record) \in Seq(S) /\ Append(buffer, record) # << >>
        BY AppendProperties
  <1>2. Tail(Append(buffer, record)) \in Seq(S) BY <1>1, HeadTailProperties
  <1> QED BY <1>1, <1>2 DEF Appended

LEMMA FailuresBounded ==
    ASSUME failures \in [Requests -> 0..MaxAttempts], TriesCounted,
           NEW r \in Requests, pc[r] = "publishing"
    PROVE  failures[r] + 1 \in 0..MaxAttempts
  BY PipelineAssumption DEF TriesCounted

LEMMA TypeKept ==
    ASSUME TypeOK, RateInv', TriesCounted, [Next]_vars
    PROVE  TypeOK'
  <1> DEFINE Record == [request : Requests, error : ErrorTypes \cup {BackpressureError},
                     number : Nat]
  <1> USE PipelineAssumption DEF TypeOK
  <1>0. RateTypeOK' BY DEF RateInv
  <1>1. ASSUME NEW r \in Requests, NEW error \in ErrorTypes \cup {BackpressureError},
               RecordRejection(r, error)
        PROVE  rejected' \in Nat /\ totalDead' \in Nat /\ dlqBuffer' \in Seq(Record)
    <2>1. [request |-> r, error |-> error, number |-> totalDead + 1] \in Record OBVIOUS
    <2>2. dlqBuffer \in Seq(Record) OBVIOUS
    <2>3. Appended(dlqBuffer, [request |-> r, error |-> error, number |-> totalDead + 1])
              \in Seq(Record)
      <3> HIDE DEF Record
      <3> QED BY <2>1, <2>2, AppendedType
    <2> QED BY <1>1, <2>3 DEF RecordRejection
  <1>2. ASSUME NEW r \in Requests, Arrive(r) PROVE TypeOK'
    <2>1. CASE IngestRefused(r)
      <3>1. rejected' \in Nat /\ totalDead' \in Nat /\ dlqBuffer' \in Seq(Record)
            BY <1>1, <2>1 DEF IngestRefused
      <3> QED BY <1>0, <2>1, <3>1 DEF IngestRefused, ReceivedOne, Moves, topicVars, Parked,
             BufferSaturated, RateExceeded, controllerVars
    <2>2. CASE IngestInvalid(r)
      <3>1. rejected' \in Nat /\ totalDead' \in Nat /\ dlqBuffer' \in Seq(Record)
            BY <1>1, <2>2 DEF IngestInvalid
      <3> QED BY <1>0, <2>2, <3>1 DEF IngestInvalid, ReceivedOne, Moves, topicVars, Parked,
             TryAcquire
    <2>3. CASE IngestValid(r)
          BY <1>0, <2>3 DEF IngestValid, ReceivedOne, Moves, topicVars, deadVars, Parked,
             TryAcquire
    <2> QED BY <1>2, <2>1, <2>2, <2>3 DEF Arrive
  <1>3. ASSUME NEW r \in Requests, BrokerAnswers(r) PROVE TypeOK'
    <2>1. CASE AnswerRefused(r)
          BY <1>0, <2>1 DEF AnswerRefused, DeadLetterWritten, Moves, controllerVars, metricVars,
             deadVars, Ended
    <2>2. CASE AnswerRejected(r)
          BY <1>0, <2>2 DEF AnswerRejected, DeadLetterWritten, Moves, Release, metricVars,
             deadVars, Ended
    <2>3. CASE AnswerAccepted(r)
          BY <1>0, <2>3 DEF AnswerAccepted, Accept, Moves, Release, deadVars, Ended
    <2>4. CASE RetryPublish(r)
          BY <1>0, <2>4 DEF RetryPublish, AttemptFails, controllerVars, metricVars, deadVars
    <2>5. CASE GiveUpPublish(r)
      <3>1. failures[r] + 1 \in 0..MaxAttempts
            BY <2>5, FailuresBounded DEF GiveUpPublish, AttemptFails
      <3>2. failures' \in [Requests -> 0..MaxAttempts] /\ stored' \in [Requests -> Nat]
            BY <2>5, <3>1 DEF GiveUpPublish, AttemptFails
      <3> QED BY <1>0, <2>5, <3>2 DEF GiveUpPublish, AttemptFails, Accept, Moves, Release,
                deadVars, Ended
    <2> QED BY <1>3, <2>1, <2>2, <2>3, <2>4, <2>5 DEF BrokerAnswers
  <1>4. ASSUME NEW r \in Requests, Cancel(r) PROVE TypeOK'
    <2>1. CASE CancelPublish(r)
          BY <1>0, <2>1 DEF CancelPublish, Moves, Release, metricVars, deadVars, Ended
    <2>2. CASE CancelRejection(r)
          BY <1>0, <2>2 DEF CancelRejection, DeadLetterWritten, Moves, Release, controllerVars,
             metricVars, deadVars, Ended
    <2> QED BY <1>4, <2>1, <2>2 DEF Cancel
  <1>5. CASE Time \/ UNCHANGED vars
        BY <1>0, <1>5 DEF Time, vars, controllerVars, metricVars, deadVars, topicVars
  <1> QED BY <1>2, <1>3, <1>4, <1>5 DEF Next

-----------------------------------------------------------------------------
(* Attempts and metrics. *)

LEMMA TriesKept ==
    ASSUME TypeOK, TriesCounted, AcceptedWasTried, [Next]_vars
    PROVE  TriesCounted' /\ AcceptedWasTried'
  <1>0. /\ pc \in [Requests -> {"new"} \cup Parked \cup Ended]
        /\ failures \in [Requests -> 0..MaxAttempts]
        /\ stored \in [Requests -> Nat]
        /\ MaxAttempts \in Nat
        BY PipelineAssumption DEF TypeOK
  <1> DEFINE Fits(place, failed, copies) ==
                 /\ place # "accepted" => failed < MaxAttempts
                 /\ place \notin {"accepted", "cancelled"} => copies <= failed
                 /\ copies <= MaxAttempts
                 /\ place = "accepted" => copies >= 1 \/ failed = MaxAttempts
  <1>1. \A r \in Requests : Fits(pc[r], failures[r], stored[r])
        BY DEF TriesCounted, AcceptedWasTried
  <1>2. (\A r \in Requests : Fits(pc'[r], failures'[r], stored'[r]))
            => TriesCounted' /\ AcceptedWasTried'
        BY DEF TriesCounted, AcceptedWasTried
  <1>3. ASSUME NEW r \in Requests,
               \A q \in Requests \ {r} :
                   pc'[q] = pc[q] /\ failures'[q] = failures[q] /\ stored'[q] = stored[q],
               Fits(pc'[r], failures'[r], stored'[r])
        PROVE  TriesCounted' /\ AcceptedWasTried'
        BY <1>1, <1>2, <1>3
  <1>4. ASSUME NEW r \in Requests,
               Arrive(r) \/ AnswerRefused(r) \/ AnswerRejected(r) \/ CancelRejection(r)
        PROVE  TriesCounted' /\ AcceptedWasTried'
    <2>1. /\ failures' = failures /\ stored' = stored
          /\ pc[r] \notin {"accepted", "cancelled"}
          /\ \E to \in {"refusing", "rejecting", "publishing", "refused", "rejected", "abandoned"} :
                 Moves(r, to)
          BY <1>4 DEF Arrive, IngestRefused, IngestInvalid, IngestValid, ReceivedOne, topicVars,
             AnswerRefused, AnswerRejected, CancelRejection
    <2>2. Fits(pc'[r], failures'[r], stored'[r]) BY <1>0, <1>1, <2>1 DEF Moves
    <2> QED BY <1>0, <1>3, <2>1, <2>2 DEF Moves
  <1>5. ASSUME NEW r \in Requests, AnswerAccepted(r) PROVE TriesCounted' /\ AcceptedWasTried'
    <2>1. /\ failures' = failures /\ stored' = [stored EXCEPT ![r] = @ + 1]
          /\ pc[r] = "publishing" /\ pc' = [pc EXCEPT ![r] = "accepted"]
          BY <1>5 DEF AnswerAccepted, Accept, Moves
    <2>2. failures[r] < MaxAttempts /\ stored[r] <= failures[r] BY <1>1, <2>1
    <2>3. Fits(pc'[r], failures'[r], stored'[r]) BY <1>0, <2>1, <2>2
    <2> QED BY <1>0, <1>3, <2>1, <2>3
  <1>6. ASSUME NEW r \in Requests, RetryPublish(r) \/ GiveUpPublish(r)
        PROVE  TriesCounted' /\ AcceptedWasTried'
    <2>1. /\ failures' = [failures EXCEPT ![r] = @ + 1] /\ pc[r] = "publishing"
          /\ \E copies \in {0, 1} : stored' = [stored EXCEPT ![r] = @ + copies]
          /\ \/ failures[r] + 1 < MaxAttempts /\ pc' = pc
             \/ failures[r] + 1 >= MaxAttempts /\ pc' = [pc EXCEPT ![r] = "accepted"]
          BY <1>6 DEF RetryPublish, GiveUpPublish, AttemptFails, Accept, Moves
    <2>2. failures[r] < MaxAttempts /\ stored[r] <= failures[r] BY <1>1, <2>1
    <2>3. Fits(pc'[r], failures'[r], stored'[r]) BY <1>0, <2>1, <2>2
    <2> QED BY <1>0, <1>3, <2>1, <2>3
  <1>7. ASSUME NEW r \in Requests, CancelPublish(r) PROVE TriesCounted' /\ AcceptedWasTried'
    <2>1. /\ failures' = failures /\ pc[r] = "publishing"
          /\ \E copies \in {0, 1} : stored' = [stored EXCEPT ![r] = @ + copies]
          /\ pc' = [pc EXCEPT ![r] = "cancelled"]
          BY <1>7 DEF CancelPublish, Moves
    <2>2. failures[r] < MaxAttempts /\ stored[r] <= failures[r] BY <1>1, <2>1
    <2>3. Fits(pc'[r], failures'[r], stored'[r]) BY <1>0, <2>1, <2>2
    <2> QED BY <1>0, <1>3, <2>1, <2>3
  <1>8. CASE Time \/ UNCHANGED vars
        BY <1>1, <1>2, <1>8 DEF Time, vars, topicVars
  <1> QED BY <1>4, <1>5, <1>6, <1>7, <1>8 DEF Next, BrokerAnswers, Cancel

LEMMA BalanceKept ==
    ASSUME TypeOK, MetricsBalance, [Next]_vars
    PROVE  MetricsBalance'
  <1> DEFINE X == {"publishing", "cancelled"}
  <1>0. received \in Nat /\ accepted \in Nat /\ rejected \in Nat /\ Cardinality(At(X)) \in Nat
        BY AtFinite DEF TypeOK
  <1> USE DEF MetricsBalance
  <1>1. ASSUME NEW r \in Requests, IngestRefused(r) \/ IngestInvalid(r) PROVE MetricsBalance'
    <2>1. received' = received + 1 /\ rejected' = rejected + 1 /\ accepted' = accepted
          BY <1>1 DEF IngestRefused, IngestInvalid, ReceivedOne, RecordRejection
    <2>2. At(X)' = At(X)
          BY <1>1, Remains DEF IngestRefused, IngestInvalid, ReceivedOne
    <2> QED BY <1>0, <2>1, <2>2
  <1>2. ASSUME NEW r \in Requests, IngestValid(r) PROVE MetricsBalance'
    <2>1. received' = received + 1 /\ rejected' = rejected /\ accepted' = accepted
          BY <1>2 DEF IngestValid, ReceivedOne
    <2>2. Cardinality(At(X)') = Cardinality(At(X)) + 1
          BY <1>2, Joins DEF IngestValid, ReceivedOne
    <2> QED BY <1>0, <2>1, <2>2
  <1>3. ASSUME NEW r \in Requests, AnswerAccepted(r) \/ GiveUpPublish(r) PROVE MetricsBalance'
    <2>1. received' = received /\ rejected' = rejected /\ accepted' = accepted + 1
          BY <1>3 DEF AnswerAccepted, GiveUpPublish, Accept
    <2>2. Cardinality(At(X)') = Cardinality(At(X)) - 1 /\ Cardinality(At(X)) >= 1
          BY <1>3, Quits DEF AnswerAccepted, GiveUpPublish, AttemptFails, Accept
    <2> QED BY <1>0, <2>1, <2>2
  <1>4. ASSUME UNCHANGED metricVars, At(X)' = At(X) PROVE MetricsBalance'
        BY <1>4 DEF metricVars
  <1>5. ASSUME NEW r \in Requests, AnswerRefused(r) \/ AnswerRejected(r) \/ RetryPublish(r)
                                   \/ Cancel(r)
        PROVE MetricsBalance'
    <2>1. CASE RetryPublish(r) BY <2>1, <1>4 DEF RetryPublish, At
    <2>2. CASE CancelPublish(r) BY <2>2, <1>4, Remains DEF CancelPublish
    <2>3. CASE AnswerRefused(r) BY <2>3, <1>4, Remains DEF AnswerRefused
    <2>4. CASE AnswerRejected(r) BY <2>4, <1>4, Remains DEF AnswerRejected
    <2>5. CASE CancelRejection(r) BY <2>5, <1>4, Remains DEF CancelRejection
    <2> QED BY <1>5, <2>1, <2>2, <2>3, <2>4, <2>5 DEF Cancel
  <1>6. CASE Time \/ UNCHANGED vars
        BY <1>6, <1>4 DEF Time, vars, At
  <1> QED BY <1>1, <1>2, <1>3, <1>5, <1>6 DEF Next, Arrive, BrokerAnswers

-----------------------------------------------------------------------------

LEMMA InitiallyInv == Init => PipelineInv
  <1> SUFFICES ASSUME Init PROVE PipelineInv OBVIOUS
  <1>1. RateInv BY RateInitially DEF Init, ControllerInit
  <1>2. At({"rejecting", "publishing"}) = {} /\ At({"publishing", "cancelled"}) = {}
        BY DEF Init, At
  <1>3. Cardinality({}) = 0 BY FS_EmptySet
  <1>4. TypeOK
        BY <1>1, PipelineAssumption DEF Init, ControllerInit, TypeOK, RateInv, Parked, Ended
  <1>5. SlotAccounting /\ LoadBounded /\ MetricsBalance
    <2>1. Cardinality(HoldingSlot) = 0 /\ Cardinality(At({"publishing", "cancelled"})) = 0
          BY <1>2, <1>3 DEF HoldingSlot
    <2>2. active = 0 /\ received = 0 /\ accepted = 0 /\ rejected = 0
          BY DEF Init, ControllerInit
    <2> QED BY <2>1, <2>2, QueueAssumption DEF SlotAccounting, LoadBounded, MetricsBalance
  <1>6. TriesCounted /\ AcceptedWasTried
        BY PipelineAssumption DEF Init, TriesCounted, AcceptedWasTried
  <1> QED BY <1>1, <1>4, <1>5, <1>6 DEF PipelineInv

(* The slot count, the load bound, the metrics' balance, the attempt       *)
(* counts and the limiter's window hold in every reachable state, for any  *)
(* number of concurrent requests.                                          *)
THEOREM PipelineInvariant == Spec => []PipelineInv
  <1>1. PipelineInv /\ [Next]_vars => PipelineInv'
        BY RateKept, TypeKept, SlotsKept, BalanceKept, TriesKept DEF PipelineInv
  <1> QED BY InitiallyInv, <1>1, PTL DEF Spec

(* Every variable has its type, _active_tasks is exact, received =         *)
(* accepted + rejected + publishing (or cancelled there), and an accepted  *)
(* event is in the topic or every attempt at it has failed.                *)
THEOREM BooksAreBalanced == Spec => []BooksBalance
  <1>1. PipelineInv => BooksBalance BY DEF PipelineInv, BooksBalance, Consistent
  <1> QED BY PipelineInvariant, <1>1, PTL

(* The pipeline's slots implement the bounded pool of SlotPool.            *)
THEOREM SlotsArePool == Spec => PoolSpec
  <1>1. Init => Pool!Init BY DEF Init, Pool!Init, HoldingSlot, At
  <1>2. PipelineInv /\ [Next]_vars => [Pool!Next]_HoldingSlot
    <2> SUFFICES ASSUME PipelineInv, [Next]_vars PROVE [Pool!Next]_HoldingSlot OBVIOUS
    <2>1. active = Cardinality(HoldingSlot) /\ active \in Nat
          BY DEF PipelineInv, SlotAccounting, TypeOK
    <2>2. ASSUME NEW r \in Requests, EnterStep(r) PROVE Pool!Enter(r)
      <3>1. Cardinality(HoldingSlot') <= MaxQueueSize
            BY <2>1, <2>2, QueueAssumption DEF EnterStep
      <3>2. r \notin HoldingSlot /\ HoldingSlot' = HoldingSlot \cup {r} BY <2>2 DEF EnterStep
      <3>3. HoldingSlot' \in RoomFor
        <4>1. HoldingSlot' \subseteq Requests BY DEF HoldingSlot, At
        <4> QED BY <3>1, <4>1 DEF RoomFor
      <3> QED BY <3>2, <3>3 DEF Pool!Enter
    <2>3. ASSUME NEW r \in Requests, LeaveStep(r) PROVE Pool!Leave(r)
          BY <2>3 DEF LeaveStep, Pool!Leave
    <2> QED BY <2>2, <2>3, SlotSteps DEF PipelineInv, IdleStep, Pool!Next
  <1> QED BY PipelineInvariant, <1>1, <1>2, PTL DEF Spec, PoolSpec, Pool!Spec

-----------------------------------------------------------------------------
(* The dead letters. *)

(* A full deque loses its oldest record, and the new one is its last. *)
LEMMA AppendedElements ==
    ASSUME NEW S, NEW buffer \in Seq(S), NEW record \in S, Len(buffer) <= MaxBuffer
    PROVE  LET longer == Appended(buffer, record)
               gone == Len(buffer) + 1 - Len(longer)
           IN  /\ Len(longer) = IF Len(buffer) = MaxBuffer THEN MaxBuffer ELSE Len(buffer) + 1
               /\ \A i \in 1..Len(longer) :
                      longer[i] = IF i = Len(longer) THEN record ELSE buffer[gone + i]
  <1> DEFINE all == Append(buffer, record)
  <1>1. /\ all \in Seq(S) /\ all # << >> /\ Len(all) = Len(buffer) + 1
        /\ Len(buffer) \in Nat /\ MaxBuffer \in Nat \ {0}
        /\ \A i \in 1..Len(buffer) : all[i] = buffer[i]
        /\ all[Len(buffer) + 1] = record
        BY PipelineAssumption, AppendProperties
  <1>2. /\ Tail(all) \in Seq(S) /\ Len(Tail(all)) = Len(buffer)
        /\ \A i \in 1..Len(buffer) : Tail(all)[i] = all[i + 1]
        BY <1>1, HeadTailProperties
  <1>3. Appended(buffer, record) = IF Len(all) > MaxBuffer THEN Tail(all) ELSE all
        BY DEF Appended
  <1> DEFINE longer == Appended(buffer, record)
             gone == Len(buffer) + 1 - Len(longer)
  <1> HIDE DEF all
  <1> SUFFICES /\ Len(longer) = IF Len(buffer) = MaxBuffer THEN MaxBuffer ELSE Len(buffer) + 1
               /\ \A i \in 1..Len(longer) :
                      longer[i] = IF i = Len(longer) THEN record ELSE buffer[gone + i]
        OBVIOUS
  <1>4. CASE Len(buffer) = MaxBuffer
    <2>1. longer = Tail(all) /\ Len(longer) = Len(buffer) BY <1>1, <1>2, <1>3, <1>4
    <2>2. \A i \in 1..Len(longer) : longer[i] = all[i + 1] BY <1>2, <2>1
    <2> HIDE DEF longer
    <2> QED BY <1>1, <1>4, <2>1, <2>2
  <1>5. CASE Len(buffer) # MaxBuffer
    <2>1. longer = all /\ Len(longer) = Len(buffer) + 1 BY <1>1, <1>3, <1>5
    <2> HIDE DEF longer
    <2> QED BY <1>1, <1>5, <2>1
  <1> QED BY <1>4, <1>5

(* Where a request that was turned away for this error may be. *)
TurnedAway(error) == IF error = BackpressureError THEN {"refusing", "refused", "abandoned"}
                                                  ELSE {"rejecting", "rejected", "abandoned"}

(* No request comes back from where it was turned away to. *)
LEMMA StaysAway ==
    ASSUME TypeOK, [Next]_vars, NEW r \in Requests, NEW error, pc[r] \in TurnedAway(error)
    PROVE  pc'[r] \in TurnedAway(error)
  <1>1. /\ pc[r] \in {"refusing", "rejecting", "refused", "rejected", "abandoned"}
        /\ pc \in [Requests -> {"new"} \cup Parked \cup Ended]
        BY DEF TurnedAway, TypeOK
  <1>2. \/ pc'[r] = pc[r]
        \/ pc[r] = "refusing" /\ pc'[r] \in {"refused", "abandoned"}
        \/ pc[r] = "rejecting" /\ pc'[r] \in {"rejected", "abandoned"}
    <2>1. ASSUME NEW q \in Requests, Arrive(q) PROVE pc'[r] = pc[r]
          BY <1>1, <2>1 DEF Arrive, IngestRefused, IngestInvalid, IngestValid, ReceivedOne, Moves
    <2>2. ASSUME NEW q \in Requests, AnswerAccepted(q) \/ GiveUpPublish(q) \/ CancelPublish(q)
                                     \/ RetryPublish(q)
          PROVE pc'[r] = pc[r]
          BY <1>1, <2>2 DEF AnswerAccepted, GiveUpPublish, CancelPublish, RetryPublish,
             AttemptFails, Accept, Moves
    <2>3. ASSUME NEW q \in Requests,
                 AnswerRefused(q) \/ AnswerRejected(q) \/ CancelRejection(q)
          PROVE  \/ pc'[r] = pc[r]
                 \/ pc[r] = "refusing" /\ pc'[r] \in {"refused", "abandoned"}
                 \/ pc[r] = "rejecting" /\ pc'[r] \in {"rejected", "abandoned"}
          BY <1>1, <2>3 DEF AnswerRefused, AnswerRejected, CancelRejection, Moves
    <2>4. CASE Time \/ UNCHANGED vars BY <2>4 DEF Time, vars
    <2> QED BY <2>1, <2>2, <2>3, <2>4 DEF Next, BrokerAnswers, Cancel
  <1> QED BY <1>2 DEF TurnedAway

LEMMA DeadLettersKept ==
    ASSUME TypeOK, TypeOK', DeadLettersAgree, [Next]_vars
    PROVE  DeadLettersAgree'
  <1> DEFINE Record == [request : Requests, error : ErrorTypes \cup {BackpressureError},
                        number : Nat]
  <1>0. /\ dlqBuffer \in Seq(Record) /\ totalDead \in Nat /\ rejected \in Nat
        /\ Len(dlqBuffer) \in Nat /\ MaxBuffer \in Nat \ {0}
        BY PipelineAssumption DEF TypeOK
  <1>1. /\ totalDead = rejected
        /\ Len(dlqBuffer) = IF totalDead > MaxBuffer THEN MaxBuffer ELSE totalDead
        /\ \A i \in 1..Len(dlqBuffer) :
               /\ dlqBuffer[i].number = totalDead - Len(dlqBuffer) + i
               /\ pc[dlqBuffer[i].request] \in TurnedAway(dlqBuffer[i].error)
        BY DEF DeadLettersAgree, TurnedAway
  <1>2. \A i \in 1..Len(dlqBuffer) :
            pc'[dlqBuffer[i].request] \in TurnedAway(dlqBuffer[i].error)
    <2> SUFFICES ASSUME NEW i \in 1..Len(dlqBuffer)
                 PROVE  pc'[dlqBuffer[i].request] \in TurnedAway(dlqBuffer[i].error)
        OBVIOUS
    <2>0. dlqBuffer[i] \in Record
      <3> HIDE DEF Record
      <3> QED BY <1>0
    <2>1. dlqBuffer[i].request \in Requests BY <2>0
    <2> QED BY <1>1, <2>1, StaysAway
  <1>3. ASSUME UNCHANGED <<rejected, totalDead, dlqBuffer>> PROVE DeadLettersAgree'
        BY <1>1, <1>2, <1>3 DEF DeadLettersAgree, TurnedAway
  <1>4. ASSUME NEW r \in Requests, NEW error \in ErrorTypes \cup {BackpressureError},
               RecordRejection(r, error), pc'[r] \in TurnedAway(error)
        PROVE  DeadLettersAgree'
    <2> DEFINE d == [request |-> r, error |-> error, number |-> totalDead + 1]
               gone == Len(dlqBuffer) + 1 - Len(dlqBuffer')
    <2>1. /\ d \in Record /\ d.number = totalDead + 1 /\ d.request = r /\ d.error = error
          BY <1>0
    <2>2. rejected' = rejected + 1 /\ totalDead' = totalDead + 1
          /\ dlqBuffer' = Appended(dlqBuffer, d)
          BY <1>4 DEF RecordRejection
    <2>3. Len(dlqBuffer) <= MaxBuffer BY <1>0, <1>1
    <2> HIDE DEF d, Record
    <2>4. /\ Len(dlqBuffer') = IF Len(dlqBuffer) = MaxBuffer THEN MaxBuffer
                                                            ELSE Len(dlqBuffer) + 1
          /\ \A i \in 1..Len(dlqBuffer') :
                 dlqBuffer'[i] = IF i = Len(dlqBuffer') THEN d ELSE dlqBuffer[gone + i]
      <3>1. dlqBuffer \in Seq(Record) BY <1>0
      <3>2. /\ Len(Appended(dlqBuffer, d)) = IF Len(dlqBuffer) = MaxBuffer THEN MaxBuffer
                                                                     ELSE Len(dlqBuffer) + 1
            /\ \A i \in 1..Len(Appended(dlqBuffer, d)) :
                   Appended(dlqBuffer, d)[i] =
                       IF i = Len(Appended(dlqBuffer, d)) THEN d
                       ELSE dlqBuffer[Len(dlqBuffer) + 1 - Len(Appended(dlqBuffer, d)) + i]
            BY <2>1, <2>3, <3>1, AppendedElements
      <3> QED BY <2>2, <3>2, Zenon
    <2>5. Len(dlqBuffer') = IF totalDead' > MaxBuffer THEN MaxBuffer ELSE totalDead'
          BY <1>0, <1>1, <2>2, <2>4
    <2>6. ASSUME NEW i \in 1..Len(dlqBuffer')
          PROVE  /\ dlqBuffer'[i].number = totalDead' - Len(dlqBuffer') + i
                 /\ pc'[dlqBuffer'[i].request] \in TurnedAway(dlqBuffer'[i].error)
      <3>0. Len(dlqBuffer') \in Nat BY <1>0, <2>4
      <3>1. CASE i = Len(dlqBuffer')
        <4>1. dlqBuffer'[i] = d BY <2>4, <3>1
        <4>2. totalDead' - Len(dlqBuffer') + i = totalDead + 1 BY <1>0, <2>2, <3>0, <3>1
        <4> QED BY <1>4, <2>1, <4>1, <4>2
      <3>2. CASE i # Len(dlqBuffer')
        <4>1. gone + i \in 1..Len(dlqBuffer) BY <1>0, <2>4, <3>0, <3>2
        <4>2. dlqBuffer'[i] = dlqBuffer[gone + i] BY <2>4, <3>2
        <4>3. dlqBuffer[gone + i].number = totalDead - Len(dlqBuffer) + (gone + i)
              BY <1>1, <4>1
        <4> QED BY <1>0, <1>2, <2>2, <3>0, <4>1, <4>2, <4>3
      <3> QED BY <3>1, <3>2
    <2> QED BY <1>1, <2>2, <2>5, <2>6 DEF DeadLettersAgree, TurnedAway
  <1>5. ASSUME NEW r \in Requests, IngestRefused(r) PROVE DeadLettersAgree'
    <2>1. RecordRejection(r, BackpressureError) /\ pc'[r] = "refusing"
          BY <1>5 DEF IngestRefused, Moves, TypeOK
    <2> QED BY <1>4, <2>1 DEF TurnedAway
  <1>6. ASSUME NEW r \in Requests, IngestInvalid(r) PROVE DeadLettersAgree'
    <2>1. PICK error \in ErrorTypes : RecordRejection(r, error)
          BY <1>6 DEF IngestInvalid
    <2>2. pc'[r] = "rejecting" /\ error # BackpressureError
          BY <1>6, PipelineAssumption DEF IngestInvalid, Moves, TypeOK
    <2> QED BY <1>4, <2>1, <2>2 DEF TurnedAway
  <1>7. ASSUME NEW r \in Requests, IngestValid(r) \/ BrokerAnswers(r) \/ Cancel(r)
        PROVE  UNCHANGED <<totalDead, dlqBuffer, rejected>>
        BY <1>7 DEF IngestValid, BrokerAnswers, Cancel, AnswerRefused, AnswerRejected,
           AnswerAccepted, RetryPublish, GiveUpPublish, Accept, CancelPublish, CancelRejection,
           deadVars, metricVars
  <1>8. CASE Time \/ UNCHANGED vars
        BY <1>3, <1>8 DEF Time, vars, deadVars, metricVars
  <1> QED BY <1>3, <1>5, <1>6, <1>7, <1>8 DEF Next, Arrive

(* The dead-letter deque holds the latest rejections in their order, as    *)
(* many as were counted or as fit, each of a request turned away for the   *)
(* reason it names, for every size of the deque and however calls overlap. *)
THEOREM DeadLettersAreAccounted == Spec => []DeadLettersAgree
  <1>1. Init => DeadLettersAgree
        BY PipelineAssumption DEF Init, DeadLettersAgree
  <1>2. PipelineInv /\ PipelineInv' /\ DeadLettersAgree /\ [Next]_vars => DeadLettersAgree'
        BY DeadLettersKept DEF PipelineInv
  <1> QED BY PipelineInvariant, <1>1, <1>2, PTL DEF Spec

-----------------------------------------------------------------------------
(* Batches over the pipeline. *)

(* Every step of a batch is one of the pipeline, or leaves it alone. *)
THEOREM BatchesArePipeline == BatchSpec => PipelineSpec
  <1>1. BatchInit => Init BY DEF BatchInit
  <1>2. [BatchNext]_batchVars => [Next]_vars
    <2> SUFFICES ASSUME [BatchNext]_batchVars PROVE [Next]_vars OBVIOUS
    <2>1. \A b \in Batches : b \subseteq Requests BY BatchAssumption
    <2>2. ASSUME NEW b \in Batches, ItemStep(b) PROVE Next
          BY <2>1, <2>2 DEF ItemStep, StartItem, ItemAnswered, CancelItem, Next
    <2>3. ASSUME NEW r \in Singles, SingleStep(r) PROVE Next
          BY <2>3 DEF Singles, SingleStep, Next
    <2>4. ASSUME NEW b \in Batches, SubmitBatch(b) \/ ReportBatch(b) \/ CancelBatch(b)
          PROVE  UNCHANGED vars
          BY <2>4 DEF SubmitBatch, ReportBatch, CancelBatch
    <2> QED BY <2>2, <2>3, <2>4 DEF BatchNext, batchVars, Next
  <1> QED BY <1>1, <1>2, PTL DEF BatchSpec, PipelineSpec, Spec

(* One call's step moves that request alone: in from "new", and out of its *)
(* await to an end, which is "cancelled" or "abandoned" only by a cancel.  *)
LEMMA OneMoves ==
    ASSUME TypeOK, NEW r \in Requests, Arrive(r) \/ BrokerAnswers(r) \/ Cancel(r)
    PROVE  /\ \A q \in Requests \ {r} : pc'[q] = pc[q]
           /\ Arrive(r) => pc[r] = "new" /\ pc'[r] \in Parked
           /\ BrokerAnswers(r) => /\ pc[r] \in Parked
                                  /\ pc'[r] \in Parked \cup {"refused", "rejected", "accepted"}
           /\ Cancel(r) => pc[r] \in Parked /\ pc'[r] \in {"cancelled", "abandoned"}
  <1>1. pc \in [Requests -> {"new"} \cup Parked \cup Ended] BY DEF TypeOK
  <1>2. CASE Arrive(r)
    <2>1. pc[r] = "new" /\ \E to \in Parked : Moves(r, to)
          BY <1>2 DEF Arrive, IngestRefused, IngestInvalid, IngestValid, ReceivedOne, Parked
    <2>2. ~BrokerAnswers(r) /\ ~Cancel(r)
          BY <2>1 DEF BrokerAnswers, AnswerRefused, AnswerRejected, AnswerAccepted, RetryPublish,
             GiveUpPublish, AttemptFails, Cancel, CancelPublish, CancelRejection
    <2> QED BY <1>1, <2>1, <2>2 DEF Moves
  <1>3. CASE BrokerAnswers(r)
    <2>1. /\ pc[r] \in Parked
          /\ \/ pc' = pc
             \/ \E to \in {"refused", "rejected", "accepted"} : Moves(r, to)
          BY <1>3 DEF BrokerAnswers, AnswerRefused, AnswerRejected, AnswerAccepted, RetryPublish,
             GiveUpPublish, AttemptFails, Accept, Parked
    <2>2. ~Arrive(r) /\ ~Cancel(r)
      <3>1. pc'[r] \notin {"cancelled", "abandoned"} /\ pc[r] # "new"
            BY <1>1, <2>1 DEF Moves, Parked
      <3> QED BY <1>1, <3>1 DEF Arrive, IngestRefused, IngestInvalid, IngestValid, ReceivedOne,
                Cancel, CancelPublish, CancelRejection, Moves
    <2> QED BY <1>1, <2>1, <2>2 DEF Moves
  <1>4. CASE Cancel(r)
    <2>1. pc[r] \in Parked /\ \E to \in {"cancelled", "abandoned"} : Moves(r, to)
          BY <1>4 DEF Cancel, CancelPublish, CancelRejection, Parked
    <2>2. ~Arrive(r)
          BY <2>1 DEF Arrive, IngestRefused, IngestInvalid, IngestValid, ReceivedOne, Parked
    <2>3. ~BrokerAnswers(r)
      <3>1. pc'[r] \in {"cancelled", "abandoned"} BY <1>1, <2>1 DEF Moves
      <3> QED BY <1>1, <2>1, <3>1 DEF BrokerAnswers, AnswerRefused, AnswerRejected,
                AnswerAccepted, RetryPublish, GiveUpPublish, AttemptFails, Accept, Moves, Parked
    <2> QED BY <1>1, <2>1, <2>2, <2>3 DEF Moves
  <1> QED BY <1>2, <1>3, <1>4

(* What a batch's call knows of its items. *)
StageKnows(b) ==
    /\ stage[b] = "new" => \A r \in b : pc[r] = "new"
    /\ stage[b] # "cancelled" => \A r \in b : pc[r] \notin {"cancelled", "abandoned"}
    /\ stage[b] = "reported" =>
           /\ \A r \in b : pc[r] \in Ended
           /\ report[b] = Summary(Cardinality(b), Cardinality({r \in b : pc[r] = "accepted"}))

BatchInv == /\ stage \in [Batches -> {"new", "gathering", "reported", "cancelled"}]
            /\ DOMAIN report = Batches
            /\ \A b \in Batches : StageKnows(b) /\ PermitsTaken(b) <= MaxConcurrency

LEMMA BatchFinite ==
    ASSUME NEW b \in Batches, NEW X
    PROVE  /\ b \subseteq Requests /\ IsFiniteSet(b) /\ Cardinality(b) \in Nat
           /\ IsFiniteSet({r \in b : pc[r] \in X}) /\ Cardinality({r \in b : pc[r] \in X}) \in Nat
  <1>1. b \subseteq Requests /\ IsFiniteSet(b)
        BY BatchAssumption, PipelineAssumption, FS_Subset
  <1>2. IsFiniteSet({r \in b : pc[r] \in X})
    <2>1. {r \in b : pc[r] \in X} \subseteq b OBVIOUS
    <2> QED BY <1>1, <2>1, FS_Subset
  <1> QED BY <1>1, <1>2, FS_CardinalityType

(* A batch none of whose items moves, and that does not move, knows what   *)
(* it knew.                                                                *)
LEMMA StillKnows ==
    ASSUME NEW b \in Batches, StageKnows(b), PermitsTaken(b) <= MaxConcurrency,
           \A r \in b : pc'[r] = pc[r], stage'[b] = stage[b], report'[b] = report[b]
    PROVE  StageKnows(b)' /\ PermitsTaken(b)' <= MaxConcurrency
  <1>1. /\ {r \in b : pc'[r] = "accepted"} = {r \in b : pc[r] = "accepted"}
        /\ {r \in b : pc'[r] \in Parked} = {r \in b : pc[r] \in Parked}
        OBVIOUS
  <1> QED BY <1>1 DEF StageKnows, PermitsTaken

LEMMA ItemKeeps ==
    ASSUME TypeOK, BatchInv, NEW b \in Batches, ItemStep(b)
    PROVE  StageKnows(b)' /\ PermitsTaken(b)' <= MaxConcurrency
  <1>0. StageKnows(b) /\ PermitsTaken(b) <= MaxConcurrency BY DEF BatchInv
  <1>1. b \subseteq Requests /\ MaxConcurrency \in Nat BY BatchAssumption
  <1>2. PICK r \in b : StartItem(b, r) \/ ItemAnswered(b, r) \/ CancelItem(b, r)
        BY DEF ItemStep
  <1>3. UNCHANGED <<stage, report>> /\ stage[b] \in {"gathering", "cancelled"}
        BY <1>2 DEF StartItem, ItemAnswered, CancelItem
  <1>4. \A q \in b \ {r} : pc'[q] = pc[q]
        BY <1>1, <1>2, OneMoves DEF StartItem, ItemAnswered, CancelItem
  <1>5. CASE StartItem(b, r)
    <2>1. /\ pc[r] = "new" /\ pc'[r] \in Parked
          /\ PermitsTaken(b) < MaxConcurrency /\ stage[b] = "gathering"
          BY <1>1, <1>5, OneMoves DEF StartItem
    <2>2. {q \in b : pc'[q] \in Parked} = {q \in b : pc[q] \in Parked} \cup {r}
          BY <1>4, <2>1
    <2>3. r \notin {q \in b : pc[q] \in Parked} BY <2>1 DEF Parked
    <2>4. PermitsTaken(b)' = PermitsTaken(b) + 1 /\ PermitsTaken(b) \in Nat
      <3> DEFINE S == {q \in b : pc[q] \in Parked}
      <3>1. IsFiniteSet(S) /\ Cardinality(S) \in Nat BY BatchFinite
      <3>2. PermitsTaken(b) = Cardinality(S) /\ PermitsTaken(b)' = Cardinality(S \cup {r})
            BY <2>2 DEF PermitsTaken
      <3> HIDE DEF S
      <3> QED BY <2>3, <3>1, <3>2, FS_AddElement DEF S
    <2>5. StageKnows(b)' BY <1>0, <1>3, <1>4, <2>1 DEF StageKnows, Parked
    <2> QED BY <1>1, <2>1, <2>4, <2>5
  <1>6. CASE ItemAnswered(b, r) \/ CancelItem(b, r)
    <2>1. /\ pc[r] \in Parked
          /\ stage[b] # "cancelled" => pc'[r] \notin {"cancelled", "abandoned"}
          BY <1>1, <1>6, OneMoves DEF ItemAnswered, CancelItem, Parked
    <2>2. {q \in b : pc'[q] \in Parked} \subseteq {q \in b : pc[q] \in Parked}
          BY <1>4, <2>1
    <2>3. PermitsTaken(b)' <= PermitsTaken(b) /\ PermitsTaken(b) \in Nat
          /\ PermitsTaken(b)' \in Nat
      <3>1. /\ IsFiniteSet({q \in b : pc[q] \in Parked})
            /\ Cardinality({q \in b : pc[q] \in Parked}) \in Nat
            BY BatchFinite
      <3> QED BY <2>2, <3>1, FS_Subset, FS_CardinalityType DEF PermitsTaken
    <2>4. StageKnows(b)' BY <1>0, <1>3, <1>4, <2>1 DEF StageKnows, Parked
    <2> QED BY <1>0, <1>1, <2>3, <2>4
  <1> QED BY <1>2, <1>5, <1>6

LEMMA BatchInvKept ==
    ASSUME TypeOK, BatchInv, [BatchNext]_batchVars
    PROVE  BatchInv'
  <1>0. /\ \A b \in Batches : b \subseteq Requests
        /\ \A b, c \in Batches : b # c => b \cap c = {}
        /\ stage \in [Batches -> {"new", "gathering", "reported", "cancelled"}]
        /\ DOMAIN report = Batches
        /\ \A b \in Batches : StageKnows(b) /\ PermitsTaken(b) <= MaxConcurrency
        BY BatchAssumption DEF BatchInv
  <1>1. ASSUME NEW b \in Batches, ItemStep(b) PROVE BatchInv'
    <2>1. StageKnows(b)' /\ PermitsTaken(b)' <= MaxConcurrency BY <1>1, ItemKeeps
    <2>2. UNCHANGED <<stage, report>>
          BY <1>1 DEF ItemStep, StartItem, ItemAnswered, CancelItem
    <2>3. ASSUME NEW c \in Batches, c # b
          PROVE  StageKnows(c)' /\ PermitsTaken(c)' <= MaxConcurrency
      <3>1. \A q \in c : pc'[q] = pc[q]
            BY <1>0, <1>1, <2>3, OneMoves DEF ItemStep, StartItem, ItemAnswered, CancelItem
      <3> QED BY <1>0, <2>2, <3>1, StillKnows
    <2> QED BY <1>0, <2>1, <2>2, <2>3 DEF BatchInv
  <1>2. ASSUME UNCHANGED <<stage, report>>, \A b \in Batches : \A r \in b : pc'[r] = pc[r]
        PROVE  BatchInv'
    <2>1. \A b \in Batches : StageKnows(b)' /\ PermitsTaken(b)' <= MaxConcurrency
          BY <1>0, <1>2, StillKnows
    <2> QED BY <1>0, <1>2, <2>1 DEF BatchInv
  <1>3. ASSUME NEW r \in Singles, SingleStep(r) PROVE BatchInv'
    <2>1. \A b \in Batches : r \notin b BY DEF Singles
    <2>2. \A b \in Batches : \A q \in b : pc'[q] = pc[q]
          BY <1>0, <1>3, <2>1, OneMoves DEF Singles, SingleStep
    <2> QED BY <1>2, <1>3, <2>2 DEF SingleStep
  <1>4. CASE (Time /\ UNCHANGED <<stage, report>>) \/ UNCHANGED batchVars
        BY <1>2, <1>4 DEF Time, batchVars, vars
  <1>5. ASSUME NEW b \in Batches, SubmitBatch(b) \/ ReportBatch(b) \/ CancelBatch(b)
        PROVE  BatchInv'
    <2>1. /\ pc' = pc
          /\ stage' \in [Batches -> {"new", "gathering", "reported", "cancelled"}]
          /\ DOMAIN report' = Batches
          /\ \A c \in Batches \ {b} : stage'[c] = stage[c] /\ report'[c] = report[c]
          BY <1>0, <1>5 DEF SubmitBatch, ReportBatch, CancelBatch, vars
    <2>2. ASSUME NEW c \in Batches, c # b
          PROVE  StageKnows(c)' /\ PermitsTaken(c)' <= MaxConcurrency
          BY <1>0, <2>1, <2>2, StillKnows
    <2>3. PermitsTaken(b)' <= MaxConcurrency
          BY <1>0, <2>1 DEF PermitsTaken
    <2>4. StageKnows(b)'
      <3>1. CASE SubmitBatch(b) \/ CancelBatch(b)
        <4>1. /\ stage'[b] \in {"gathering", "cancelled"}
              /\ stage'[b] # "cancelled" => stage[b] = "new"
              BY <1>0, <3>1 DEF SubmitBatch, CancelBatch
        <4> QED BY <1>0, <2>1, <4>1 DEF StageKnows
      <3>2. CASE ReportBatch(b)
        <4>1. /\ stage[b] = "gathering" /\ stage'[b] = "reported"
              /\ \A r \in b : pc[r] \in Ended
              /\ report'[b] = Summary(Cardinality(b), Cardinality({r \in b : pc[r] = "accepted"}))
              BY <1>0, <3>2 DEF ReportBatch
        <4> QED BY <1>0, <2>1, <4>1 DEF StageKnows
      <3> QED BY <1>5, <3>1, <3>2
    <2> QED BY <2>1, <2>2, <2>3, <2>4 DEF BatchInv
  <1> QED BY <1>1, <1>3, <1>4, <1>5 DEF BatchNext

LEMMA InitiallyBatchInv == BatchInit => BatchInv
  <1> SUFFICES ASSUME BatchInit PROVE BatchInv OBVIOUS
  <1>1. \A b \in Batches : b \subseteq Requests BY BatchAssumption
  <1>2. \A b \in Batches : StageKnows(b)
        BY <1>1 DEF BatchInit, Init, StageKnows
  <1>3. ASSUME NEW b \in Batches PROVE PermitsTaken(b) <= MaxConcurrency
    <2>1. {r \in b : pc[r] \in Parked} = {}
          BY <1>1 DEF BatchInit, Init, Parked
    <2> QED BY <2>1, FS_EmptySet, BatchAssumption DEF PermitsTaken
  <1> QED BY <1>2, <1>3 DEF BatchInit, BatchInv

(* What a batch reports is right, for any number of batches, items and     *)
(* permits: "rejected", computed as total - accepted, counts the items     *)
(* that were turned away, and never more than max_concurrency are at work. *)
THEOREM ReportsAreTruthful == BatchSpec => []ReportTruthful
  <1>1. PipelineSpec => []TypeOK
    <2>1. PipelineInv => TypeOK BY DEF PipelineInv
    <2> QED BY PipelineInvariant, <2>1, PTL DEF PipelineSpec
  <1>2. TypeOK /\ BatchInv /\ [BatchNext]_batchVars => BatchInv' BY BatchInvKept
  <1>3. BatchInv => ReportTruthful
    <2> SUFFICES ASSUME BatchInv, NEW b \in Batches
                 PROVE  /\ PermitsTaken(b) <= MaxConcurrency
                        /\ stage[b] = "reported" =>
                            /\ report[b].total = Cardinality(b)
                            /\ report[b].rejected
                                 = Cardinality({r \in b : pc[r] \in {"refused", "rejected"}})
        BY DEF ReportTruthful
    <2>1. ASSUME stage[b] = "reported"
          PROVE  /\ report[b].total = Cardinality(b)
                 /\ report[b].rejected
                      = Cardinality({r \in b : pc[r] \in {"refused", "rejected"}})
      <3> DEFINE A == {r \in b : pc[r] = "accepted"}
                 R == {r \in b : pc[r] \in {"refused", "rejected"}}
      <3>1. /\ \A r \in b : pc[r] \in Ended /\ pc[r] \notin {"cancelled", "abandoned"}
            /\ report[b] = Summary(Cardinality(b), Cardinality(A))
            BY <2>1 DEF BatchInv, StageKnows
      <3>2. R = b \ A /\ b \cap A = A BY <3>1 DEF Ended
      <3>3. IsFiniteSet(b) BY BatchFinite
      <3>4. Cardinality(R) = Cardinality(b) - Cardinality(A)
        <4> HIDE DEF A, R
        <4> QED BY <3>2, <3>3, FS_Difference
      <3> HIDE DEF A
      <3> QED BY <3>1, <3>4 DEF Summary
    <2> QED BY <2>1 DEF BatchInv
  <1> QED BY BatchesArePipeline, InitiallyBatchInv, <1>1, <1>2, <1>3, PTL DEF BatchSpec
=============================================================================
