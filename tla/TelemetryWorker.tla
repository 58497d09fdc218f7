-------------------------- MODULE TelemetryWorker --------------------------
(***************************************************************************)
(* backend/app/workers/telemetry_worker.py inside the lifespan of          *)
(* backend/app/main.py: the `security-events` topic, the consumer that     *)
(* reads it, the events table it fills and the dead letters it leaves.     *)
(*                                                                         *)
(* The topic is a log that nothing is ever taken from (one partition; the  *)
(* order across partitions carries no meaning).  The consumer is created   *)
(* with enable_auto_commit False and auto_offset_reset "latest" and never  *)
(* commits, so every start begins at the end of the log.  An event may be  *)
(* in the log more than once: its producer retries lost acknowledgements.  *)
(* The process may crash at any point, or be shut down and started again.  *)
(***************************************************************************)
EXTENDS Integers, Sequences, FiniteSets

CONSTANTS Events,       \* event ids
          Malformed,    \* the events that fail the worker's own validation
          BatchSize,    \* batch_size, max_records of getmany()
          MaxAttempts,  \* max_retries of the persist step: attempts in all
          MaxLog,       \* bound: length of the topic
          MaxBoots      \* bound: starts of the process

ASSUME WorkerAssumption == /\ Malformed \subseteq Events
                           /\ BatchSize \in Nat \ {0}
                           /\ MaxAttempts \in Nat \ {0}
                           /\ MaxLog \in Nat
                           /\ MaxBoots \in Nat

VARIABLES log,          \* the topic
          db,           \* event ids with a row (event_id is unique)
          dlqTopic,     \* dead letters that reached the `dead-letter` topic
          dlqBuffer,    \* dead letters in this process's memory
          fate,         \* history: what became of each offset
          app,          \* the process: lifespan of the FastAPI application
          boots,
          isRunning,    \* _is_running
          consumer,     \* _consumer: none, being started, started
          loop,         \* the task of _consume_loop, and the await it is at
          position,     \* next offset the consumer will fetch
          batch,        \* offsets fetched and not concluded; the first is in hand
          attempt,      \* failed attempts to persist the first
          processed, errors,   \* _processed_count, _error_count
          base          \* history: the position this start began at

storeVars == <<log, db, dlqTopic, dlqBuffer>>
workerVars == <<isRunning, consumer, loop, position, batch, attempt, processed, errors>>
vars == <<storeVars, fate, app, boots, workerVars, base>>

Offsets == 1..MaxLog
Busy == {"persisting", "deadLettering", "caching"}
Alive == {"polling"} \cup Busy

InHand == Head(batch)
Event(o) == log[o]

-----------------------------------------------------------------------------
(* The producers. *)

Publish(e) == /\ Len(log) < MaxLog
              /\ log' = Append(log, e)
              /\ UNCHANGED <<db, dlqTopic, dlqBuffer, fate, app, boots, workerVars, base>>

-----------------------------------------------------------------------------
(* lifespan() and start(). *)

Boot == /\ app = "down"
        /\ boots < MaxBoots
        /\ boots' = boots + 1
        /\ app' = "starting"
        /\ isRunning' = TRUE
        /\ consumer' = "starting"
        /\ loop' = "none" /\ batch' = << >> /\ attempt' = 0
        /\ processed' = 0 /\ errors' = 0
        /\ UNCHANGED <<storeVars, fate, position, base>>

(* consumer.start() returns: no committed offset, so the end of the log. *)
StartSucceeds ==
    /\ app = "starting"
    /\ app' = "up"
    /\ consumer' = "started"
    /\ position' = Len(log) + 1
    /\ base' = Len(log) + 1
    /\ loop' = "polling"
    /\ UNCHANGED <<storeVars, fate, boots, isRunning, batch, attempt, processed, errors>>

(* consumer.start() raises: "running in passive mode". *)
StartFails ==
    /\ app = "starting"
    /\ app' = "up"
    /\ isRunning' = FALSE
    /\ UNCHANGED <<storeVars, fate, boots, consumer, loop, position, batch, attempt,
                   processed, errors, base>>

(* wait_for() cancels start(): CancelledError is no Exception. *)
StartTimesOut ==
    /\ app = "starting"
    /\ app' = "up"
    /\ UNCHANGED <<storeVars, fate, boots, workerVars, base>>

-----------------------------------------------------------------------------
(* _consume_loop() and process_event(). *)

Letter(o, error) == [offset |-> o, error |-> error]

(* With the next record in hand, or none left, on to the next await:       *)
(* process_event() validates, and a malformed record is in the dead-letter *)
(* buffer before its publish is awaited.                                   *)
Takes(rest) ==
    LET more == rest # << >>
        bad == more /\ Event(Head(rest)) \in Malformed
    IN  /\ batch' = rest
        /\ attempt' = 0
        /\ dlqBuffer' = IF bad THEN dlqBuffer \cup {Letter(Head(rest), "worker_validation_error")}
                         ELSE dlqBuffer
        /\ loop' = IF bad THEN "deadLettering" ELSE IF more THEN "persisting" ELSE "polling"

(* getmany(): up to BatchSize records; a poll that times out has none.     *)
Poll == /\ loop = "polling"
        /\ \E n \in 1..BatchSize :
               /\ position + n <= Len(log) + 1
               /\ Takes([i \in 1..n |-> position + i - 1])
               /\ position' = position + n
        /\ UNCHANGED <<log, db, dlqTopic, fate, app, boots, isRunning, consumer,
                       processed, errors, base>>

(* getmany() raises: the loop is over, and nothing starts it again. *)
PollFails ==
    /\ loop = "polling"
    /\ loop' = "done"
    /\ isRunning' = FALSE
    /\ UNCHANGED <<storeVars, fate, app, boots, consumer, position, batch, attempt,
                   processed, errors, base>>

SlipDropsRest(outcome) ==
    /\ fate' = [fate EXCEPT ![InHand] = outcome]
    /\ Takes(<< >>)

Concludes(outcome) ==
    /\ fate' = [fate EXCEPT ![InHand] = outcome]
    /\ Takes(Tail(batch))

LettersOf(o) == {d \in dlqBuffer : d.offset = o}

(* The dead letter of the record in hand is published, or that is given up *)
(* ("buffered locally").                                                   *)
DeadLetterAnswered ==
    /\ loop = "deadLettering"
    /\ dlqTopic' \in {dlqTopic, dlqTopic \cup LettersOf(InHand)}
    /\ errors' = errors + 1
    /\ Concludes("deadLettered")
    /\ UNCHANGED <<log, db, app, boots, isRunning, consumer, position, processed, base>>

(* The transaction commits; the cache write comes next. *)
Persist ==
    /\ loop = "persisting"
    /\ Event(InHand) \notin db
    /\ db' = db \cup {Event(InHand)}
    /\ loop' = "caching"
    /\ UNCHANGED <<log, dlqTopic, dlqBuffer, fate, app, boots, isRunning, consumer, position,
                   batch, attempt, processed, errors, base>>

(* An attempt raises: the database is away, the row exists already (the    *)
(* unique event_id), or the commit's acknowledgement is lost.              *)
AttemptRaises ==
    /\ loop = "persisting"
    /\ db' \in {db, db \cup {Event(InHand)}}
    /\ UNCHANGED <<log, dlqTopic, fate, app, boots, isRunning, consumer, position,
                   batch, processed, errors, base>>

SlipRetriesForever ==
    /\ attempt' = (attempt + 1) % MaxAttempts
    /\ AttemptRaises
    /\ UNCHANGED <<loop, dlqBuffer>>

RetryPersist ==
    /\ attempt + 1 < MaxAttempts
    /\ attempt' = attempt + 1
    /\ AttemptRaises
    /\ UNCHANGED <<loop, dlqBuffer>>

SlipSwallowsFailure ==
    /\ attempt + 1 >= MaxAttempts
    /\ AttemptRaises
    /\ loop' = "caching"
    /\ UNCHANGED <<dlqBuffer, attempt>>

(* The last attempt has failed: the event is a dead letter.                *)
GiveUpPersist ==
    /\ attempt + 1 >= MaxAttempts
    /\ attempt' = attempt + 1
    /\ AttemptRaises
    /\ loop' = "deadLettering"
    /\ dlqBuffer' = dlqBuffer \cup {Letter(InHand, "database_persistence_error")}

(* The cache is written, or its failure only logged. *)
CacheAndCount ==
    /\ loop = "caching"
    /\ processed' = processed + 1
    /\ Concludes("persisted")
    /\ UNCHANGED <<log, db, dlqTopic, app, boots, isRunning, consumer, position, errors, base>>

-----------------------------------------------------------------------------
(* stop() and the end of the process. *)

(* Cancelled at its await: what the loop holds is dropped, a commit or a   *)
(* dead letter on its way may still have taken effect.                     *)
InterruptsLoop ==
    /\ fate' = [o \in Offsets |-> IF \E i \in 1..Len(batch) : batch[i] = o
                                  THEN "interrupted" ELSE fate[o]]
    /\ db' \in IF loop = "persisting" THEN {db, db \cup {Event(InHand)}} ELSE {db}
    /\ dlqTopic' \in IF loop = "deadLettering" THEN {dlqTopic, dlqTopic \cup LettersOf(InHand)}
                     ELSE {dlqTopic}
    /\ batch' = << >>
    /\ UNCHANGED log

BeginStop ==
    /\ app = "up"
    /\ app' = "stopping"
    /\ isRunning' = FALSE
    /\ InterruptsLoop
    /\ loop' = IF loop \in Alive THEN "done" ELSE loop
    /\ UNCHANGED <<dlqBuffer, boots, consumer, position, attempt, processed, errors, base>>

FinishStop ==
    /\ app = "stopping"
    /\ app' = "down"
    /\ consumer' = "none"
    /\ dlqBuffer' = {}
    /\ UNCHANGED <<log, db, dlqTopic, fate, boots, isRunning, loop, position, batch, attempt,
                   processed, errors, base>>

Crash ==
    /\ app # "down"
    /\ app' = "down"
    /\ InterruptsLoop
    /\ isRunning' = FALSE /\ consumer' = "none" /\ loop' = "none" /\ attempt' = 0
    /\ dlqBuffer' = {}
    /\ UNCHANGED <<boots, position, processed, errors, base>>

-----------------------------------------------------------------------------

Init == /\ log = << >> /\ db = {} /\ dlqTopic = {} /\ dlqBuffer = {}
        /\ fate = [o \in Offsets |-> "none"]
        /\ app = "down" /\ boots = 0
        /\ isRunning = FALSE /\ consumer = "none" /\ loop = "none"
        /\ position = 1 /\ batch = << >> /\ attempt = 0
        /\ processed = 0 /\ errors = 0
        /\ base = 1

HandlesRecord == \/ DeadLetterAnswered \/ Persist \/ RetryPersist \/ GiveUpPersist
                 \/ CacheAndCount

Next == \/ \E e \in Events : Publish(e)
        \/ Boot \/ StartSucceeds \/ StartFails \/ StartTimesOut
        \/ Poll \/ PollFails \/ HandlesRecord
        \/ BeginStop \/ FinishStop \/ Crash

Spec == Init /\ [][Next]_vars

(* The event loop runs the ready task, the calls of the database, the      *)
(* cache and the broker end (they time out), and getmany() hands over what *)
(* is there.  Nothing is assumed of starts, stops and crashes.             *)
FairSpec == Spec /\ WF_vars(Poll) /\ WF_vars(HandlesRecord)

-----------------------------------------------------------------------------

TypeOK ==
    /\ log \in Seq(Events) /\ Len(log) <= MaxLog
    /\ db \subseteq Events
    /\ dlqTopic \cup dlqBuffer
           \subseteq [offset : Offsets,
                      error : {"worker_validation_error", "database_persistence_error"}]
    /\ fate \in [Offsets -> {"none", "persisted", "deadLettered", "interrupted"}]
    /\ app \in {"down", "starting", "up", "stopping"}
    /\ boots \in 0..MaxBoots
    /\ isRunning \in BOOLEAN
    /\ consumer \in {"none", "starting", "started"}
    /\ loop \in {"none", "done"} \cup Alive
    /\ position \in 1..(MaxLog + 1) /\ base \in 1..(MaxLog + 1)
    /\ batch \in Seq(Offsets)
    /\ attempt \in 0..MaxAttempts
    /\ processed \in Nat /\ errors \in Nat

(* No record the consumer took is ever lost without a trace: from where    *)
(* this start began up to its position, every record is concluded, still   *)
(* waiting in the fetched batch, or was in hand when a stop or a crash     *)
(* interrupted the loop.                                                   *)
NoSilentLoss ==
    \A o \in base..(position - 1) :
        fate[o] = "none" <=> \E i \in 1..Len(batch) : batch[i] = o

(* What the worker concludes is so: a record counted as processed has its  *)
(* row, one counted as an error has its dead letter for as long as the     *)
(* process lives (after that, only if the topic took it).                  *)
FateIsTrue ==
    /\ \A o \in Offsets : fate[o] = "persisted" => Event(o) \in db
    /\ app \in {"up", "stopping"} /\ loop # "none" =>
           \A o \in base..(position - 1) : fate[o] = "deadLettered" => LettersOf(o) # {}

(* One event, one success: however often the producer put an event in the  *)
(* log, across restarts, at most one record of it counts as processed.     *)
PersistedOnce ==
    \A o, p \in Offsets :
        fate[o] = "persisted" /\ fate[p] = "persisted" /\ o # p => Event(o) # Event(p)

(* What is said of a record is so, and no event is processed twice.        *)
Truthful == TypeOK /\ FateIsTrue /\ PersistedOnce

(* Every record a live loop has fetched is concluded, unless the loop is   *)
(* interrupted: no failure of the database, cache or broker blocks it.     *)
FetchedIsConcluded ==
    \A o \in Offsets :
        (\E i \in 1..Len(batch) : batch[i] = o) ~> fate[o] # "none"

-----------------------------------------------------------------------------
=============================================================================
