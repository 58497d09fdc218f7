----------------------------- MODULE Evaluation -----------------------------
(***************************************************************************)
(* EvaluationFramework (backend/app/evaluation/__init__.py): benchmark     *)
(* runs that overlap, each with its confusion matrix, and the latency      *)
(* samples that all of them share.  An event is evaluated as the comments  *)
(* there have it: what was detected goes to record_detection(), then the   *)
(* event to record_event_processed(); another run may come in between.     *)
(***************************************************************************)
EXTENDS Integers

CONSTANTS Runs,
          MaxRecords     \* bound: events and detections recorded

ASSUME EvaluationAssumption == MaxRecords \in Nat

VARIABLES status,       \* of each run
          matrix,       \* its confusion matrix, and its other counters
          pending,      \* "tp" or "fp" between a detection and its event
          samples,      \* how many are in _latency_samples
          reported,     \* sample_size of the LATENCY results in _results, summed
          timed,        \* how many latencies were ever recorded
          recorded      \* bound: counts the events and detections recorded

evaluationVars == <<status, matrix, pending, samples, reported, timed, recorded>>

Open == {r \in Runs : status[r] # "none"}
EmptyMatrix == [tp |-> 0, fp |-> 0, tn |-> 0, fn |-> 0, events |-> 0, detections |-> 0]

(* The bound on what is recorded, which the framework does not have. *)
Recorded == recorded < MaxRecords /\ recorded' = recorded + 1

-----------------------------------------------------------------------------

CreateRun(r) == /\ status[r] = "none"
                /\ status' = [status EXCEPT ![r] = "pending"]
                /\ UNCHANGED <<matrix, pending, samples, reported, timed, recorded>>

StartRun(r) == /\ r \in Open
               /\ status' = [status EXCEPT ![r] = "running"]
               /\ UNCHANGED <<matrix, pending, samples, reported, timed, recorded>>

(* latency_ms > 0 makes a sample, which does not say whose it is.          *)
Sampled(n) == samples' = samples + n /\ timed' = timed + n

Detection(m, truePositive) ==
    [m EXCEPT !.detections = @ + 1,
              !.tp = @ + IF truePositive THEN 1 ELSE 0,
              !.fp = @ + IF truePositive THEN 0 ELSE 1]

RecordDetection(r, truePositive, n) ==
    /\ r \in Open /\ pending[r] = "none"
    /\ Recorded
    /\ matrix' = [matrix EXCEPT ![r] = Detection(@, truePositive)]
    /\ pending' = [pending EXCEPT ![r] = IF truePositive THEN "tp" ELSE "fp"]
    /\ Sampled(n)
    /\ UNCHANGED <<status, reported>>

(* An event with a detection is in the matrix by that.                     *)
Outcome(m, had, expected) ==
    [m EXCEPT !.events = @ + 1,
              !.fn = @ + IF expected /\ ~had THEN 1 ELSE 0,
              !.tn = @ + IF ~expected /\ ~had THEN 1 ELSE 0]

RecordEventProcessed(r, expected, n) ==
    /\ r \in Open
    /\ Recorded
    /\ pending[r] # "none" => (expected <=> pending[r] = "tp")
    /\ matrix' = [matrix EXCEPT ![r] = Outcome(@, pending[r] # "none", expected)]
    /\ pending' = [pending EXCEPT ![r] = "none"]
    /\ Sampled(n)
    /\ UNCHANGED <<status, reported>>

(* complete_run(): the latency of this run is that of all samples there    *)
(* are, which are then cleared.                                            *)
CompleteRun(r) == /\ r \in Open
                  /\ status' = [status EXCEPT ![r] = "completed"]
                  /\ reported' = reported + samples
                  /\ samples' = 0
                  /\ UNCHANGED <<matrix, pending, timed, recorded>>

EvaluationInit == /\ status = [r \in Runs |-> "none"]
                  /\ matrix = [r \in Runs |-> EmptyMatrix]
                  /\ pending = [r \in Runs |-> "none"]
                  /\ samples = 0 /\ reported = 0 /\ timed = 0 /\ recorded = 0

EvaluationNext ==
    \E r \in Runs :
        \/ CreateRun(r) \/ StartRun(r) \/ CompleteRun(r)
        \/ \E yes \in BOOLEAN, n \in 0..1 : RecordDetection(r, yes, n) \/ RecordEventProcessed(r, yes, n)

EvaluationSpec == EvaluationInit /\ [][EvaluationNext]_evaluationVars

-----------------------------------------------------------------------------

EvaluationTypeOK ==
    /\ status \in [Runs -> {"none", "pending", "running", "completed"}]
    /\ matrix \in [Runs -> [tp : 0..MaxRecords, fp : 0..MaxRecords,
                            tn : 0..MaxRecords, fn : 0..MaxRecords,
                            events : 0..MaxRecords, detections : 0..MaxRecords]]
    /\ pending \in [Runs -> {"none", "tp", "fp"}]
    /\ {samples, reported, timed, recorded} \subseteq 0..MaxRecords

(* Precision, recall and latency are of what happened, once: however runs  *)
(* overlap, every event is in exactly one cell of the matrix of its run,   *)
(* and no latency is in two reports, nor lost.                             *)
EachCountedOnce ==
    /\ \A r \in Runs :
          /\ matrix[r].tp + matrix[r].fp + matrix[r].fn + matrix[r].tn =
                 matrix[r].events + IF pending[r] = "none" THEN 0 ELSE 1
          /\ matrix[r].tp + matrix[r].fp = matrix[r].detections
    /\ samples + reported = timed
=============================================================================
