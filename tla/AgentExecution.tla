--------------------------- MODULE AgentExecution ---------------------------
(***************************************************************************)
(* BaseAgent.execute() of backend/app/agents/base.py, the one entry point  *)
(* of the twelve agents: validate, process, publish the result, with the   *)
(* error handlers, the agent's counters, the task it works on and the      *)
(* ExecutionRecord it keeps (models.py).  An agent is one object shared by *)
(* every coroutine that calls execute() on it; each await is a step.  A    *)
(* task object is worked on by one execution at a time, any number of      *)
(* times.  Any execution may be cancelled at an await.                     *)
(***************************************************************************)
EXTENDS Naturals, FiniteSets

CONSTANTS Executions,   \* the calls of execute()
          Tasks,
          None,
          Overlap       \* whether executions of several tasks may overlap

ASSUME ExecutionAssumption == /\ IsFiniteSet(Executions)
                              /\ Overlap \in BOOLEAN
                              /\ None \notin Tasks

VARIABLES status,       \* _status of the agent
          processed,    \* _tasks_processed
          failed,       \* _tasks_failed
          task,         \* status of each AgentTask
          pc,           \* the await an execution is at, or how it ended
          works,        \* the task of an execution
          record,       \* status of its ExecutionRecord
          result,       \* ResultStatus of the AgentResult it made
          published     \* executions whose result reached `agent-results`

vars == <<status, processed, failed, task, pc, works, record, result, published>>

Awaiting == {"validating", "processing", "publishing"}
InProgress == {e \in Executions : pc[e] \in Awaiting}
Recorded(outcomes) == {e \in Executions : record[e] \in outcomes}

Goes(e, place) == pc' = [pc EXCEPT ![e] = place]
Becomes(e, s) == task' = [task EXCEPT ![works[e]] = s]

-----------------------------------------------------------------------------

(* execute() up to validate_task(). *)
Execute(e, t) ==
    /\ pc[e] = "new"
    /\ \A d \in InProgress : Overlap /\ works[d] # t
    /\ status' = "processing"
    /\ task' = [task EXCEPT ![t] = "validating"]
    /\ works' = [works EXCEPT ![e] = t]
    /\ record' = [record EXCEPT ![e] = "started"]
    /\ Goes(e, "validating")
    /\ UNCHANGED <<processed, failed, result, published>>

Validated(e) ==
    /\ pc[e] = "validating"
    /\ Becomes(e, "running")
    /\ Goes(e, "processing")
    /\ UNCHANGED <<status, processed, failed, works, record, result, published>>

SlipLeavesTask(e) ==
    /\ pc[e] \in {"validating", "processing"}
    /\ failed' = failed + 1
    /\ record' = [record EXCEPT ![e] = "failed"]
    /\ result' = [result EXCEPT ![e] = "failed"]
    /\ status' = "idle"
    /\ Goes(e, "returned")
    /\ UNCHANGED <<task, processed, works, published>>

SlipTriesAgain(e) ==
    /\ pc[e] \in {"validating", "processing"}
    /\ Becomes(e, "validating")
    /\ Goes(e, "validating")
    /\ UNCHANGED <<status, processed, failed, works, record, result, published>>

(* The task is invalid, or a hook raises: _handle_validation_error() and   *)
(* _handle_execution_error(), whose own hook does nothing, then `finally`. *)
Raises(e) ==
    /\ pc[e] \in {"validating", "processing"}
    /\ failed' = failed + 1
    /\ record' = [record EXCEPT ![e] = "failed"]
    /\ Becomes(e, "failed")
    /\ result' = [result EXCEPT ![e] = "failed"]
    /\ status' = "idle"
    /\ Goes(e, "returned")
    /\ UNCHANGED <<processed, works, published>>

(* process_task() returns a result, which the agents also use to say that  *)
(* they failed.                                                            *)
Processed(e) ==
    /\ pc[e] = "processing"
    /\ \E outcome \in {"success", "failed"} : result' = [result EXCEPT ![e] = outcome]
    /\ processed' = processed + 1
    /\ record' = [record EXCEPT ![e] = "completed"]
    /\ Becomes(e, "completed")
    /\ Goes(e, "publishing")
    /\ UNCHANGED <<status, failed, works, published>>

ResultWritten(e) == published' \in {published, published \cup {e}}

SlipFailsOnPublish(e) ==
    /\ pc[e] = "publishing"
    /\ ResultWritten(e)
    /\ \/ UNCHANGED <<failed, record, task>>
       \/ /\ failed' = failed + 1
          /\ record' = [record EXCEPT ![e] = "failed"]
          /\ Becomes(e, "failed")
    /\ status' = "idle"
    /\ Goes(e, "returned")
    /\ UNCHANGED <<processed, works, result>>

(* publish_result() swallows what the broker raises. *)
Published(e) ==
    /\ pc[e] = "publishing"
    /\ ResultWritten(e)
    /\ status' = "idle"
    /\ Goes(e, "returned")
    /\ UNCHANGED <<processed, failed, task, works, record, result>>

(* CancelledError passes every handler but `finally`. *)
Cancel(e) ==
    /\ pc[e] \in Awaiting
    /\ IF pc[e] = "publishing" THEN ResultWritten(e) ELSE UNCHANGED published
    /\ status' = "idle"
    /\ Goes(e, "cancelled")
    /\ UNCHANGED <<processed, failed, task, works, record, result>>

-----------------------------------------------------------------------------

Init == /\ status = "idle"
        /\ processed = 0 /\ failed = 0
        /\ task = [t \in Tasks |-> "queued"]
        /\ pc = [e \in Executions |-> "new"]
        /\ works = [e \in Executions |-> None]
        /\ record = [e \in Executions |-> "none"]
        /\ result = [e \in Executions |-> "none"]
        /\ published = {}

Continues(e) == Validated(e) \/ Raises(e) \/ Processed(e) \/ Published(e)

Next == \E e \in Executions : \/ \E t \in Tasks : Execute(e, t)
                              \/ Continues(e) \/ Cancel(e)

Spec == Init /\ [][Next]_vars

(* Hooks and the broker answer, and the event loop resumes the coroutine.  *)
FairSpec == Spec /\ \A e \in Executions : WF_vars(Continues(e))

-----------------------------------------------------------------------------

TypeOK == /\ status \in {"idle", "processing"}
          /\ processed \in Nat /\ failed \in Nat
          /\ task \in [Tasks -> {"queued", "validating", "running", "completed", "failed"}]
          /\ pc \in [Executions -> Awaiting \cup {"new", "returned", "cancelled"}]
          /\ works \in [Executions -> Tasks \cup {None}]
          /\ record \in [Executions -> {"none", "started", "completed", "failed"}]
          /\ result \in [Executions -> {"none", "success", "failed"}]
          /\ published \subseteq Executions

(* Each execution is counted once, as processed or as failed, whatever     *)
(* overlaps, raises or is cancelled: the counters are those of the records.*)
CountedOnce == /\ processed = Cardinality(Recorded({"completed"}))
               /\ failed = Cardinality(Recorded({"failed"}))

(* A task is validating or running only while an execution works on it, or *)
(* because one that did was cancelled: no error path leaves it behind.     *)
StrandedWasCancelled ==
    \A t \in Tasks :
        task[t] \in {"validating", "running"} =>
            \E e \in Executions : works[e] = t /\ pc[e] \in {"validating", "processing", "cancelled"}

(* Every way out of execute() accounts for the execution and for its task. *)
Consistent == TypeOK /\ CountedOnce /\ StrandedWasCancelled

(* While an execution works on a task, the task, the record and the result *)
(* say the same of how far it is; and what was published is the result of  *)
(* a completed execution.                                                  *)
InStep ==
    /\ \A e \in Executions :
           /\ pc[e] = "validating" => task[works[e]] = "validating" /\ record[e] = "started"
           /\ pc[e] = "processing" => task[works[e]] = "running" /\ record[e] = "started"
           /\ pc[e] = "publishing" => task[works[e]] = "completed" /\ record[e] = "completed"
           /\ pc[e] = "returned" => record[e] \in {"completed", "failed"}
           /\ record[e] \in {"completed", "failed"} <=> result[e] # "none"
    /\ published \subseteq Recorded({"completed"})

(* An agent with nothing to do says so, even if its work was cancelled.    *)
IdleWhenQuiet == InProgress = {} => status = "idle"

(* A concluded record is never reopened, nor turned into its opposite.     *)
RecordsAreFinal ==
    [][\A e \in Executions : record[e] \in {"completed", "failed"} => record'[e] = record[e]]_vars

(* execute() always ends. *)
ExecutionsEnd ==
    \A e \in Executions : pc[e] \in Awaiting ~> pc[e] \in {"returned", "cancelled"}
=============================================================================
