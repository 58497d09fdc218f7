---------------------------- MODULE TaskTracker ----------------------------
(***************************************************************************)
(* backend/app/agents/dispatcher/tracker.py and the two operations of      *)
(* dispatcher.py that drive it: dispatch_to_agent() and                    *)
(* handle_task_failure().  A task lives twice: as JSON in Redis, with an   *)
(* index of task ids per status, and as an object in the tracker's dict.   *)
(*                                                                         *)
(* get_task() returns a fresh object when Redis has the task and the       *)
(* tracker's own object when it has not, so a call may be changing what    *)
(* others hold.  Objects therefore have identities: one per tracked task,  *)
(* and one per call for the copy it read.  Every Redis command and every   *)
(* publish is an await at which other calls run.                           *)
(***************************************************************************)
EXTENDS Naturals, FiniteSets

CONSTANTS Tasks, Calls,
          None,
          MaxRetries,    \* max_retries of every task
          MaxAttempts,   \* max_retries of _publish_task: attempts in all
          MaxRaises,     \* bound: Redis commands that raise
          Overlap        \* whether two calls may work on one task at a time

Statuses == {"queued", "running", "completed", "failed", "retrying", "dead_letter"}
Records == [status : Statuses, retries : Nat]

ASSUME TrackerAssumption == /\ MaxRetries \in Nat /\ MaxAttempts \in Nat \ {0}
                            /\ MaxRaises \in Nat /\ Overlap \in BOOLEAN
                            /\ Tasks \cap Calls = {}
                            /\ None \notin Tasks \cup Calls /\ None \notin Records

Counted == {"completed", "failed"}

VARIABLES heap,     \* the AgentTask objects
          local,    \* _tasks: the object of each task
          redis,    \* agent:task:<id>
          index,    \* agent:tasks:<agent>:<status>
          metrics,  \* agent:metrics in Redis
          counters, \* the local fallback of the metrics
          call,     \* the coroutines
          sent,     \* copies of each task in the `agent-tasks` topic
          raises    \* Redis commands that have raised so far

stores == <<heap, local, redis, index, metrics, counters>>
vars == <<stores, call, sent, raises>>

Free == [op |-> "none", task |-> None, pc |-> "idle", obj |-> None, old |-> "none",
         data |-> None, key |-> "none", tries |-> 0, publish |-> None]

Active(c) == call[c].pc \notin {"idle", "done"}
Status(o) == heap[o].status
SlipBudgetOffByOne(record) == record.retries <= MaxRetries
(* can_retry() *)
CanRetry(record) == record.retries < MaxRetries

(* A call may start on a task. *)
Admits(c, t) == /\ call[c].pc = "idle"
                /\ Overlap \/ \A d \in Calls : Active(d) => t \notin {call[d].task, call[d].publish}

Goes(c, pc) == call' = [call EXCEPT ![c].pc = pc]

-----------------------------------------------------------------------------
(* _update_task() and create_task(): Redis first, then the dict.           *)

(* What follows the storage: a publish, or the end of the call.            *)
Stored(c) == IF call[c].publish # None THEN "publish" ELSE "done"

SlipKeepsFirst(c) ==
    /\ local' = [local EXCEPT ![call[c].task] = IF @ = None THEN call[c].obj ELSE @]
    /\ counters' = IF call[c].op = "create" THEN [counters EXCEPT !["created"] = @ + 1]
                   ELSE IF Status(call[c].obj) \in Counted
                        THEN [counters EXCEPT ![Status(call[c].obj)] = @ + 1]
                        ELSE counters
    /\ Goes(c, Stored(c))
    /\ UNCHANGED heap

(* The dict and the local counters, once Redis is done with or has raised. *)
KeepLocally(c) ==
    /\ local' = [local EXCEPT ![call[c].task] = call[c].obj]
    /\ counters' = IF call[c].op = "create" THEN [counters EXCEPT !["created"] = @ + 1]
                   ELSE IF Status(call[c].obj) \in Counted
                        THEN [counters EXCEPT ![Status(call[c].obj)] = @ + 1]
                        ELSE counters
    /\ Goes(c, Stored(c))
    /\ UNCHANGED heap

(* The metric of the status the object has now is next, if it has one.     *)
CountNext(c) ==
    LET status == IF call[c].op = "create" THEN "created" ELSE Status(call[c].obj)
    IN  IF status \in Counted \cup {"created"}
        THEN /\ call' = [call EXCEPT ![c].pc = "hincrby", ![c].key = status]
             /\ UNCHANGED <<heap, local, counters>>
        ELSE KeepLocally(c)

Setex(c) ==
    /\ call[c].pc = "setex"
    /\ redis' = [redis EXCEPT ![call[c].task] = call[c].data]
    /\ \/ /\ call[c].op = "create"
          /\ call' = [call EXCEPT ![c].pc = "sadd", ![c].key = Status(call[c].obj)]
          /\ UNCHANGED <<heap, local, counters>>
       \/ /\ call[c].op # "create"
          /\ call[c].old # Status(call[c].obj)
          /\ Goes(c, "srem")
          /\ UNCHANGED <<heap, local, counters>>
       \/ /\ call[c].op # "create"
          /\ call[c].old = Status(call[c].obj)
          /\ CountNext(c)
    /\ UNCHANGED <<index, metrics, sent, raises>>

Srem(c) ==
    /\ call[c].pc = "srem"
    /\ index' = [index EXCEPT ![call[c].old] = @ \ {call[c].task}]
    /\ call' = [call EXCEPT ![c].pc = "sadd", ![c].key = Status(call[c].obj)]
    /\ UNCHANGED <<heap, local, redis, metrics, counters, sent, raises>>

Sadd(c) ==
    /\ call[c].pc = "sadd"
    /\ index' = [index EXCEPT ![call[c].key] = @ \cup {call[c].task}]
    /\ CountNext(c)
    /\ UNCHANGED <<redis, metrics, sent, raises>>

Hincrby(c) ==
    /\ call[c].pc = "hincrby"
    /\ metrics' = [metrics EXCEPT ![call[c].key] = @ + 1]
    /\ KeepLocally(c)
    /\ UNCHANGED <<redis, index, sent, raises>>

Raise == raises < MaxRaises /\ raises' = raises + 1

(* A command raises, executed or not: the rest of them is skipped.         *)
WriteRaises(c) ==
    /\ Raise
    /\ call[c].pc \in {"setex", "srem", "sadd", "hincrby"}
    /\ \/ UNCHANGED <<redis, index, metrics>>
       \/ /\ call[c].pc = "setex"
          /\ redis' = [redis EXCEPT ![call[c].task] = call[c].data]
          /\ UNCHANGED <<index, metrics>>
       \/ /\ call[c].pc = "srem"
          /\ index' = [index EXCEPT ![call[c].old] = @ \ {call[c].task}]
          /\ UNCHANGED <<redis, metrics>>
       \/ /\ call[c].pc = "sadd"
          /\ index' = [index EXCEPT ![call[c].key] = @ \cup {call[c].task}]
          /\ UNCHANGED <<redis, metrics>>
       \/ /\ call[c].pc = "hincrby"
          /\ metrics' = [metrics EXCEPT ![call[c].key] = @ + 1]
          /\ UNCHANGED <<redis, index>>
    /\ KeepLocally(c)
    /\ UNCHANGED sent

-----------------------------------------------------------------------------
(* get_task(), and what the callers do with its result before their next   *)
(* await.                                                                  *)

(* The object get_task() returns: a copy of the record in Redis, or what   *)
(* the dict has, if Redis has none or raises.                              *)
Reads(c, t, obj) ==
    \/ redis[t] # None /\ obj = c /\ UNCHANGED raises
    \/ redis[t] = None /\ obj = local[t] /\ UNCHANGED raises
    \/ redis[t] # None /\ obj = local[t] /\ Raise

(* The record it returns. *)
Copy(c, t, obj) == IF obj = c THEN redis[t] ELSE heap[obj]

(* handle_task_failure() after its own get_task(): can_retry() decides.    *)
Decide(c) ==
    LET t == call[c].task
    IN  /\ call[c].pc = "get failed"
        /\ \E obj \in Calls \cup Tasks \cup {None} :
               /\ Reads(c, t, obj)
               /\ \/ obj = None /\ Goes(c, "done")
                  \/ /\ obj # None
                     /\ call' = [call EXCEPT
                            ![c].pc = "get",
                            ![c].op = IF CanRetry(Copy(c, t, obj)) THEN "retrying" ELSE "dead_letter"]
        /\ UNCHANGED <<stores, sent>>

(* update_status() and mark_retry(): change the object, serialise it.      *)
Change(c) ==
    LET t == call[c].task
        retry == call[c].op = "retrying"
    IN  /\ call[c].pc = "get"
        /\ \E obj \in Calls \cup Tasks \cup {None} :
               /\ Reads(c, t, obj)
               /\ \/ obj = None /\ Goes(c, "done") /\ UNCHANGED heap
                  \/ LET before == Copy(c, t, obj)
                         after == [status |-> call[c].op,
                                   retries |-> before.retries + IF retry THEN 1 ELSE 0]
                     IN  /\ obj # None
                         /\ heap' = [heap EXCEPT ![obj] = after]
                         /\ call' = [call EXCEPT
                                ![c].pc = "setex", ![c].obj = obj, ![c].data = after,
                                ![c].old = IF retry THEN "failed" ELSE before.status,
                                ![c].publish = IF retry THEN t ELSE None]
        /\ UNCHANGED <<local, redis, index, metrics, counters, sent>>

-----------------------------------------------------------------------------
(* The calls. *)

(* dispatch_to_agent(): the task that will be published gets one id, the   *)
(* task create_task() makes from its fields another.                       *)
Dispatch(c, published, tracked) ==
    /\ Admits(c, published) /\ Admits(c, tracked)
    /\ heap[published] = None /\ heap[tracked] = None
    /\ published # tracked
    /\ heap' = [heap EXCEPT ![published] = [status |-> "queued", retries |-> 0],
                            ![tracked] = [status |-> "queued", retries |-> 0]]
    /\ call' = [call EXCEPT ![c] = [Free EXCEPT
           !.op = "create", !.task = tracked, !.obj = tracked, !.pc = "setex",
           !.data = [status |-> "queued", retries |-> 0], !.publish = published]]
    /\ UNCHANGED <<local, redis, index, metrics, counters, sent, raises>>

(* mark_started(), mark_completed(), mark_failed() *)
Mark(c, t, status) ==
    /\ Admits(c, t) /\ heap[t] # None
    /\ status \in {"running", "completed", "failed"}
    /\ call' = [call EXCEPT ![c] = [Free EXCEPT !.op = status, !.task = t, !.pc = "get"]]
    /\ UNCHANGED <<stores, sent, raises>>

HandleFailure(c, t) ==
    /\ Admits(c, t) /\ heap[t] # None
    /\ call' = [call EXCEPT ![c] =
                    [Free EXCEPT !.op = "failure", !.task = t, !.pc = "get failed"]]
    /\ UNCHANGED <<stores, sent, raises>>

(* _publish_task(): an attempt is acknowledged, or fails (stored or not).  *)
Publish(c) ==
    /\ call[c].pc = "publish"
    /\ \/ /\ sent' = [sent EXCEPT ![call[c].publish] = @ + 1]
          /\ Goes(c, "done")
       \/ /\ \E copies \in {0, 1} : sent' = [sent EXCEPT ![call[c].publish] = @ + copies]
          /\ call' = [call EXCEPT ![c].tries = @ + 1,
                                  ![c].pc = IF call[c].tries + 1 >= MaxAttempts
                                            THEN "done" ELSE "publish"]
    /\ UNCHANGED <<stores, raises>>

(* Redis drops a record after its time to live; the index keeps the id.    *)
Expire(t) == /\ redis[t] # None
             /\ redis' = [redis EXCEPT ![t] = None]
             /\ UNCHANGED <<heap, local, index, metrics, counters, call, sent, raises>>

(* clear_completed(): the completed tasks old enough leave the dict.       *)
ClearCompleted ==
    /\ \E old \in SUBSET {t \in Tasks : local[t] # None /\ Status(local[t]) = "completed"} :
           /\ old # {}
           /\ local' = [t \in Tasks |-> IF t \in old THEN None ELSE local[t]]
    /\ UNCHANGED <<heap, redis, index, metrics, counters, call, sent, raises>>

-----------------------------------------------------------------------------

Init == /\ heap = [o \in Calls \cup Tasks |-> None]
        /\ local = [t \in Tasks |-> None]
        /\ redis = [t \in Tasks |-> None]
        /\ index = [s \in Statuses |-> {}]
        /\ metrics = [m \in Counted \cup {"created"} |-> 0]
        /\ counters = [m \in Counted \cup {"created"} |-> 0]
        /\ call = [c \in Calls |-> Free]
        /\ sent = [t \in Tasks |-> 0]
        /\ raises = 0

Begins(c) == \/ \E a, b \in Tasks : Dispatch(c, a, b)
             \/ \E t \in Tasks, s \in Statuses : Mark(c, t, s)
             \/ \E t \in Tasks : HandleFailure(c, t)

Continues(c) == \/ Decide(c) \/ Change(c)
                \/ Setex(c) \/ Srem(c) \/ Sadd(c) \/ Hincrby(c) \/ WriteRaises(c)
                \/ Publish(c)

Next == \/ \E c \in Calls : Begins(c) \/ Continues(c)
        \/ \E t \in Tasks : Expire(t)
        \/ ClearCompleted

Spec == Init /\ [][Next]_vars

-----------------------------------------------------------------------------

TypeOK ==
    /\ heap \in [Calls \cup Tasks -> Records \cup {None}]
    /\ local \in [Tasks -> Calls \cup Tasks \cup {None}]
    /\ redis \in [Tasks -> Records \cup {None}]
    /\ index \in [Statuses -> SUBSET Tasks]
    /\ metrics \in [Counted \cup {"created"} -> Nat]
    /\ counters \in [Counted \cup {"created"} -> Nat]
    /\ \A c \in Calls : call[c].tries \in 0..MaxAttempts
    /\ sent \in [Tasks -> Nat]
    /\ raises \in 0..MaxRaises

Quiet(t) == \A c \in Calls : Active(c) => t \notin {call[c].task, call[c].publish}

(* "Maximum allowed retry attempts" (models.py): unless Redis has failed   *)
(* no copy of a task, there, in the dict or in a caller's hands, was       *)
(* retried more than max_retries times.                                    *)
WithinBudget == raises = 0 =>
    /\ \A o \in Calls \cup Tasks : heap[o] # None => heap[o].retries <= MaxRetries
    /\ \A t \in Tasks : redis[t] # None => redis[t].retries <= MaxRetries

(* The retries a task is charged with are the times it was handed to the   *)
(* broker again, none lost: with one call at a time, and unless Redis      *)
(* fails, the copies in the topic never exceed the attempts they allow.    *)
SentWithinBudget ==
    \A t \in Tasks :
        raises = 0 /\ local[t] # None =>
            sent[t] <= MaxAttempts * heap[local[t]].retries

Budgets == TypeOK /\ WithinBudget /\ SentWithinBudget

(* Unless Redis has failed, and with one call per task at a time, all that *)
(* knows a task says the same whenever no call works on it: its record in  *)
(* Redis and the object in the dict, the index of its status, and, when no *)
(* call is left at all, the metrics hash and the tracker's own counts.     *)
HomesAgree == raises = 0 =>
    /\ \A t \in Tasks : Quiet(t) /\ redis[t] # None =>
           /\ local[t] # None => redis[t] = heap[local[t]]
           /\ t \in index[redis[t].status]
    /\ (\A t \in Tasks : Quiet(t)) => metrics = counters

-----------------------------------------------------------------------------
=============================================================================
