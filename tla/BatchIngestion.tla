--------------------------- MODULE BatchIngestion ---------------------------
(***************************************************************************)
(* ingest_batch() of backend/app/ingestion/pipeline.py: the items of a     *)
(* batch are gathered as tasks that take a permit of the batch's own       *)
(* semaphore before they run ingest_single() on the shared pipeline, next  *)
(* to the single requests and to other batches.                            *)
(***************************************************************************)
EXTENDS IngestionPipeline

CONSTANTS Batches,          \* sets of requests, pairwise disjoint
          MaxConcurrency    \* max_concurrency

ASSUME BatchAssumption == /\ Batches \subseteq SUBSET Requests
                          /\ \A b, c \in Batches : b # c => b \cap c = {}
                          /\ MaxConcurrency \in Nat \ {0}

VARIABLES stage,            \* what each batch's call is doing
          report            \* the summary it returned

batchVars == <<vars, stage, report>>

Singles == Requests \ UNION Batches
NoReport == [total |-> 0, accepted |-> 0, rejected |-> 0]

PermitsTaken(b) == Cardinality({r \in b : pc[r] \in Parked})

SubmitBatch(b) ==
    /\ stage[b] = "new"
    /\ stage' = [stage EXCEPT ![b] = "gathering"]
    /\ UNCHANGED <<vars, report>>

(* `async with semaphore`, then ingest_single() up to its first await. *)
StartItem(b, r) ==
    /\ stage[b] = "gathering"
    /\ PermitsTaken(b) < MaxConcurrency
    /\ Arrive(r)
    /\ UNCHANGED <<stage, report>>

ItemAnswered(b, r) ==
    /\ stage[b] = "gathering"
    /\ BrokerAnswers(r)
    /\ UNCHANGED <<stage, report>>

Summary(total, ok) == [total |-> total, accepted |-> ok, rejected |-> total - ok]

SlipReportsEarly(b) ==
    /\ stage[b] = "gathering"
    /\ report' = [report EXCEPT ![b] =
           Summary(Cardinality(b), Cardinality({r \in b : pc[r] = "accepted"}))]
    /\ stage' = [stage EXCEPT ![b] = "reported"]
    /\ UNCHANGED vars

SlipWantsAllAccepted(b) ==
    /\ stage[b] = "gathering"
    /\ \A r \in b : pc[r] = "accepted"
    /\ report' = [report EXCEPT ![b] = Summary(Cardinality(b), Cardinality(b))]
    /\ stage' = [stage EXCEPT ![b] = "reported"]
    /\ UNCHANGED vars

(* asyncio.gather() has every result; rejected_count = total - accepted. *)
ReportBatch(b) ==
    /\ stage[b] = "gathering"
    /\ \A r \in b : pc[r] \in Ended
    /\ report' = [report EXCEPT ![b] =
           Summary(Cardinality(b), Cardinality({r \in b : pc[r] = "accepted"}))]
    /\ stage' = [stage EXCEPT ![b] = "reported"]
    /\ UNCHANGED vars

(* The call's own task is cancelled: gather() cancels every child, at its  *)
(* await or before it has a permit.                                        *)
CancelBatch(b) ==
    /\ stage[b] = "gathering"
    /\ stage' = [stage EXCEPT ![b] = "cancelled"]
    /\ UNCHANGED <<vars, report>>

SlipDropsItem(b, r) ==
    /\ stage[b] = "cancelled"
    /\ pc[r] \in Parked
    /\ Moves(r, "cancelled")
    /\ UNCHANGED <<controllerVars, failures, metricVars, deadVars, topicVars, stage, report>>

CancelItem(b, r) ==
    /\ stage[b] = "cancelled"
    /\ Cancel(r)
    /\ UNCHANGED <<stage, report>>

SingleStep(r) == /\ Arrive(r) \/ BrokerAnswers(r) \/ Cancel(r)
                 /\ UNCHANGED <<stage, report>>

BatchInit == /\ Init
             /\ stage = [b \in Batches |-> "new"]
             /\ report = [b \in Batches |-> NoReport]

ItemStep(b) == \E r \in b : StartItem(b, r) \/ ItemAnswered(b, r) \/ CancelItem(b, r)

BatchNext == \/ \E b \in Batches : \/ SubmitBatch(b) \/ ItemStep(b)
                                   \/ ReportBatch(b) \/ CancelBatch(b)
             \/ \E r \in Singles : SingleStep(r)
             \/ Time /\ UNCHANGED <<stage, report>>

BatchSpec == BatchInit /\ [][BatchNext]_batchVars

(* The event loop runs every ready task, and the broker client times out   *)
(* (kafka_request_timeout_ms), so every await on it ends.                  *)
FairBatchSpec ==
    /\ BatchSpec
    /\ \A b \in Batches : /\ WF_batchVars(ItemStep(b))
                          /\ WF_batchVars(ReportBatch(b))

-----------------------------------------------------------------------------

(* No batch has more than max_concurrency of its events in the pipeline,   *)
(* and "rejected" in the summary, computed as total - accepted, is right:  *)
(* no item of a batch that reports was cancelled or left undecided, and    *)
(* each was turned away by backpressure or by its content.                 *)
ReportTruthful ==
    \A b \in Batches :
        /\ PermitsTaken(b) <= MaxConcurrency
        /\ stage[b] = "reported" =>
            /\ report[b].total = Cardinality(b)
            /\ report[b].rejected
                 = Cardinality({r \in b : pc[r] \in {"refused", "rejected"}})

(* Every step of a batch is a step of the pipeline, or none.               *)
PipelineSpec == Spec

(* A batch that was submitted is answered, whatever the broker does and    *)
(* however many of its items wait for a permit, unless it is cancelled.    *)
BatchAnswered ==
    \A b \in Batches : stage[b] = "gathering" ~> stage[b] \in {"reported", "cancelled"}
=============================================================================
