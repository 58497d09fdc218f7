------------------------- MODULE IngestionPipeline -------------------------
(***************************************************************************)
(* backend/app/ingestion/pipeline.py, with the BackpressureController in   *)
(* front of it, the IngestionMetricsTracker and the DeadLetterQueueManager *)
(* it reports to, and the topics of the message broker it writes.          *)
(*                                                                         *)
(* Every request is one call of ingest_single() on the shared pipeline.    *)
(* The coroutine suspends only while the broker is written, so everything  *)
(* up to the first publish is one step, and what follows an answer of the  *)
(* broker is another.  `pc` names the await a request is parked at:        *)
(*   "refusing"     dead letter of a request backpressure turned away      *)
(*   "rejecting"    dead letter of a request its content disqualified      *)
(*   "publishing"   the event itself, any of the attempts of retry_async   *)
(* and the ways a call ends.  A task may be cancelled at any await.        *)
(***************************************************************************)
EXTENDS Backpressure, FiniteSets

CONSTANTS Requests,
          ErrorTypes,     \* error types of the stages behind backpressure
          MaxAttempts,    \* max_retries of _publish_safely: attempts in all
          MaxBuffer       \* max_buffer_size of the dead-letter deque

BackpressureError == "backpressure_exceeded"

ASSUME PipelineAssumption == /\ IsFiniteSet(Requests)
                             /\ BackpressureError \notin ErrorTypes
                             /\ MaxAttempts \in Nat \ {0}
                             /\ MaxBuffer \in Nat \ {0}

VARIABLES pc,
          failures,        \* failed publish attempts of a request
          stored,          \* copies of a request's event in `security-events`
          received, accepted, rejected,   \* the metrics tracker's counters
          totalDead,       \* _total_dead_letters
          dlqBuffer,       \* _dlq_buffer, oldest first
          dlqTopic         \* requests whose record reached `dead-letter`

metricVars == <<received, accepted, rejected>>
deadVars == <<totalDead, dlqBuffer>>
topicVars == <<stored, dlqTopic>>
vars == <<controllerVars, pc, failures, metricVars, deadVars, topicVars>>

Parked == {"refusing", "rejecting", "publishing"}
Ended == {"refused", "rejected", "accepted", "cancelled", "abandoned"}

At(places) == {r \in Requests : pc[r] \in places}

(* Inside the try/finally that gives the slot back. *)
HoldingSlot == At({"rejecting", "publishing"})

Moves(r, to) == pc' = [pc EXCEPT ![r] = to]

-----------------------------------------------------------------------------

SlipDropsNewest(buffer, record) ==
    IF Len(buffer) < MaxBuffer THEN Append(buffer, record) ELSE buffer

(* deque.append on a deque with maxlen. *)
Appended(buffer, record) ==
    LET longer == Append(buffer, record)
    IN  IF Len(longer) > MaxBuffer THEN Tail(longer) ELSE longer

(* _handle_rejection() up to the dead-letter publish; `number` stands for  *)
(* the record's dead_letter_id and timestamp.                              *)
RecordRejection(r, error) ==
    /\ rejected' = rejected + 1
    /\ totalDead' = totalDead + 1
    /\ dlqBuffer' = Appended(dlqBuffer,
                               [request |-> r, error |-> error, number |-> totalDead + 1])

(* ingest_single() up to its first suspension. *)
ReceivedOne(r) == pc[r] = "new" /\ received' = received + 1

IngestRefused(r) ==
    /\ ReceivedOne(r)
    /\ BufferSaturated(1) \/ RateExceeded(1)
    /\ RecordRejection(r, BackpressureError)
    /\ Moves(r, "refusing")
    /\ UNCHANGED <<accepted, failures, topicVars>>

IngestInvalid(r) ==
    /\ ReceivedOne(r)
    /\ TryAcquire(1)
    /\ \E error \in ErrorTypes : RecordRejection(r, error)
    /\ Moves(r, "rejecting")
    /\ UNCHANGED <<accepted, failures, topicVars>>

IngestValid(r) ==
    /\ ReceivedOne(r)
    /\ TryAcquire(1)
    /\ Moves(r, "publishing")
    /\ UNCHANGED <<accepted, rejected, failures, deadVars, topicVars>>

-----------------------------------------------------------------------------

(* The broker answers a dead letter; a failure is only logged. *)
DeadLetterWritten(r) == dlqTopic' \in {dlqTopic, dlqTopic \cup {r}}

AnswerRefused(r) ==
    /\ pc[r] = "refusing"
    /\ DeadLetterWritten(r)
    /\ Moves(r, "refused")
    /\ UNCHANGED <<controllerVars, failures, metricVars, deadVars, stored>>

AnswerRejected(r) ==
    /\ pc[r] = "rejecting"
    /\ DeadLetterWritten(r)
    /\ Release(1)
    /\ Moves(r, "rejected")
    /\ UNCHANGED <<failures, metricVars, deadVars, stored>>

(* The event is published: record_accepted() and the answer. *)
Accept(r) == /\ accepted' = accepted + 1
             /\ Release(1)
             /\ Moves(r, "accepted")

AnswerAccepted(r) ==
    /\ pc[r] = "publishing"
    /\ stored' = [stored EXCEPT ![r] = @ + 1]
    /\ Accept(r)
    /\ UNCHANGED <<failures, received, rejected, deadVars, dlqTopic>>

(* An attempt fails; the broker may have stored the event and its          *)
(* acknowledgement been lost.                                              *)
AttemptFails(r) ==
    /\ pc[r] = "publishing"
    /\ failures' = [failures EXCEPT ![r] = @ + 1]
    /\ \E copies \in {0, 1} : stored' = [stored EXCEPT ![r] = @ + copies]

(* retry_async() sleeps and tries again. *)
RetryPublish(r) ==
    /\ failures[r] + 1 < MaxAttempts
    /\ AttemptFails(r)
    /\ UNCHANGED <<controllerVars, pc, metricVars, deadVars, dlqTopic>>

SlipForgetsMetric(r) ==
    /\ failures[r] + 1 >= MaxAttempts
    /\ AttemptFails(r)
    /\ Release(1)
    /\ Moves(r, "accepted")
    /\ UNCHANGED <<metricVars, deadVars, dlqTopic>>

(* The last attempt fails: the exception is swallowed, "pipeline continues". *)
GiveUpPublish(r) ==
    /\ failures[r] + 1 >= MaxAttempts
    /\ AttemptFails(r)
    /\ Accept(r)
    /\ UNCHANGED <<received, rejected, deadVars, dlqTopic>>

(* CancelledError at an await is no Exception: neither handler catches it, *)
(* but `finally` gives the slot back.  The write may yet reach the broker. *)
CancelPublish(r) ==
    /\ pc[r] = "publishing"
    /\ \E copies \in {0, 1} : stored' = [stored EXCEPT ![r] = @ + copies]
    /\ Release(1)
    /\ Moves(r, "cancelled")
    /\ UNCHANGED <<failures, metricVars, deadVars, dlqTopic>>

CancelRejection(r) ==
    /\ DeadLetterWritten(r)
    /\ \/ pc[r] = "rejecting" /\ Release(1)
       \/ pc[r] = "refusing" /\ UNCHANGED controllerVars
    /\ Moves(r, "abandoned")
    /\ UNCHANGED <<failures, metricVars, deadVars, stored>>

Time == Tick /\ UNCHANGED <<active, pc, failures, metricVars, deadVars, topicVars>>

-----------------------------------------------------------------------------

Init == /\ ControllerInit
        /\ pc = [r \in Requests |-> "new"]
        /\ failures = [r \in Requests |-> 0]
        /\ stored = [r \in Requests |-> 0]
        /\ received = 0 /\ accepted = 0 /\ rejected = 0
        /\ totalDead = 0 /\ dlqBuffer = << >>
        /\ dlqTopic = {}

Arrive(r) == IngestRefused(r) \/ IngestInvalid(r) \/ IngestValid(r)

BrokerAnswers(r) == \/ AnswerRefused(r) \/ AnswerRejected(r)
                    \/ AnswerAccepted(r) \/ RetryPublish(r) \/ GiveUpPublish(r)

Cancel(r) == CancelPublish(r) \/ CancelRejection(r)

Next == \/ \E r \in Requests : Arrive(r) \/ BrokerAnswers(r) \/ Cancel(r)
        \/ Time

Spec == Init /\ [][Next]_vars

-----------------------------------------------------------------------------

(* Every variable has its type, and the clock and the deque theirs. *)
TypeOK ==
    /\ RateTypeOK
    /\ active \in Nat
    /\ pc \in [Requests -> {"new"} \cup Parked \cup Ended]
    /\ failures \in [Requests -> 0..MaxAttempts]
    /\ stored \in [Requests -> Nat]
    /\ received \in Nat /\ accepted \in Nat /\ rejected \in Nat
    /\ totalDead \in Nat
    /\ dlqBuffer \in Seq([request : Requests, error : ErrorTypes \cup {BackpressureError},
                         number : Nat])
    /\ dlqTopic \subseteq Requests

(* _active_tasks counts exactly the calls between try_acquire() and the    *)
(* `finally` that releases: no path through ingest_single(), cancelled or  *)
(* not, leaks a slot or gives one back twice behind the clamp at zero.     *)
SlotAccounting == active = Cardinality(HoldingSlot)

(* The same beside the types of all variables. *)
Consistent == TypeOK /\ SlotAccounting

(* However requests interleave, no more than max_queue_size of them are    *)
(* being processed at once.                                                *)
LoadBounded == Cardinality(HoldingSlot) <= MaxQueueSize

(* The counters never lose an event: what was received and is neither      *)
(* accepted nor rejected is still publishing or was cancelled publishing.  *)
MetricsBalance ==
    received = accepted + rejected + Cardinality(At({"publishing", "cancelled"}))

(* The dead-letter queue agrees with the metrics and with the requests: as *)
(* many dead letters as rejections, the buffer holds the latest of them in *)
(* order, and each belongs to a request turned away for that reason.       *)
DeadLettersAgree ==
    /\ totalDead = rejected
    /\ Len(dlqBuffer) = IF totalDead > MaxBuffer THEN MaxBuffer ELSE totalDead
    /\ \A i \in 1..Len(dlqBuffer) :
           LET d == dlqBuffer[i]
           IN  /\ d.number = totalDead - Len(dlqBuffer) + i
               /\ pc[d.request] \in IF d.error = BackpressureError
                                    THEN {"refusing", "refused", "abandoned"}
                                    ELSE {"rejecting", "rejected", "abandoned"}

(* An accepted event is in the topic, or every attempt to put it there     *)
(* failed; and the retries leave at most one copy per attempt.             *)
AcceptedWasTried ==
    \A r \in Requests :
        /\ stored[r] <= MaxAttempts
        /\ pc[r] = "accepted" => stored[r] >= 1 \/ failures[r] = MaxAttempts

(* However calls overlap, retry, are refused or cancelled at an await, the *)
(* slots, the counters and the copies in the topic account for each of     *)
(* them exactly once.                                                      *)
BooksBalance == Consistent /\ MetricsBalance /\ AcceptedWasTried

(* The slots are a bounded pool, as SlotPool promises: a call takes one    *)
(* slot, only while max_queue_size allows, and every slot taken is given   *)
(* back by the call that took it.                                          *)
RoomFor == {S \in SUBSET Requests : Cardinality(S) <= MaxQueueSize}
Pool == INSTANCE SlotPool WITH Clients <- Requests, Fitting <- RoomFor,
                               holders <- HoldingSlot
PoolSpec == Pool!Spec

-----------------------------------------------------------------------------

(* FOUNDATION.md: "Unparseable or crashed messages routed after 3 retries" *)
(* to the dead-letter topic.  What the pipeline accepts is in the workers' *)
(* topic, or else a dead letter of it was recorded.                        *)
AcceptedIsQueuedOrDeadLettered ==
    \A r \in Requests :
        pc[r] = "accepted" =>
            \/ stored[r] >= 1
            \/ \E i \in 1..Len(dlqBuffer) : dlqBuffer[i].request = r
=============================================================================
