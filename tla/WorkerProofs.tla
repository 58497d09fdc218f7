---------------------------- MODULE WorkerProofs ----------------------------
(***************************************************************************)
(* What the telemetry worker keeps for every topic, batch size and number  *)
(* of attempts, across stops, crashes and restarts.  The properties of the *)
(* run say what became of each record; what they lack to be inductive is   *)
(* where the records in hand lie in the topic (Window), that a loop with   *)
(* records in hand is one of a process that is up (InStep), and what the   *)
(* await the loop is at has already made true of the record in hand.       *)
(***************************************************************************)
EXTENDS TelemetryWorker, TLAPS

(* The loop holds records just when it handles one, and lives in a process *)
(* that is up; it has attempts left while it persists.                     *)
InStep == /\ loop \in Busy <=> batch # << >>
          /\ loop \in Alive => app = "up"
          /\ app = "starting" => loop = "none"
          /\ loop = "persisting" => attempt < MaxAttempts

(* The records in hand are the last ones fetched since this start.         *)
Window == /\ base + Len(batch) <= position
          /\ position <= Len(log) + 1
          /\ \A i \in 1..Len(batch) : batch[i] = position - Len(batch) + i - 1

(* Since this start, what is concluded or interrupted is what was fetched  *)
(* and is no longer in hand; what was not fetched has no fate.             *)
Concluded ==
    /\ \A o \in base..(position - 1) : fate[o] = "none" <=> o >= position - Len(batch)
    /\ \A o \in Offsets : o >= position => fate[o] = "none"

(* Once its transaction is committed the record in hand is the only one of *)
(* its event that will count as processed; a record whose dead letter is   *)
(* being published has one in memory.                                      *)
HandIsTrue ==
    /\ loop = "caching" =>
           /\ Event(InHand) \in db
           /\ \A o \in Offsets : fate[o] = "persisted" => Event(o) # Event(InHand)
    /\ loop = "deadLettering" => LettersOf(InHand) # {}

WorkerInv == TypeOK /\ InStep /\ Window /\ Concluded /\ HandIsTrue /\ FateIsTrue /\ PersistedOnce

-----------------------------------------------------------------------------
(* The await the loop goes on to. *)

(* Whatever records it takes up next, the loop is busy just when there are *)
(* some, the first of them has its dead letter if that is what it awaits,  *)
(* and no dead letter is taken back.                                       *)
LEMMA TakesUp ==
    ASSUME NEW rest \in Seq(Offsets), Takes(rest), TypeOK, log' = log
    PROVE  /\ batch' = rest /\ attempt' = 0
           /\ loop' \in {"polling", "persisting", "deadLettering"}
           /\ loop' \in Busy <=> rest # << >>
           /\ dlqBuffer \subseteq dlqBuffer'
           /\ dlqBuffer' \subseteq [offset : Offsets,
                     error : {"worker_validation_error", "database_persistence_error"}]
           /\ loop' = "deadLettering" => LettersOf(InHand)' # {}
<1>1. batch' = rest /\ attempt' = 0
  BY DEF Takes
<1>2. CASE rest = << >>
  BY <1>1, <1>2 DEF Takes, Busy, TypeOK
<1>3. CASE rest # << >> /\ Event(Head(rest)) \notin Malformed
  BY <1>1, <1>3 DEF Takes, Busy, TypeOK
<1>4. CASE rest # << >> /\ Event(Head(rest)) \in Malformed
  <2> DEFINE d == Letter(Head(rest), "worker_validation_error")
  <2>1. /\ loop' = "deadLettering"
        /\ dlqBuffer' = dlqBuffer \cup {d}
    BY <1>4 DEF Takes
  <2>2. d \in [offset : Offsets,
               error : {"worker_validation_error", "database_persistence_error"}]
    BY <1>4 DEF Letter
  <2>3. d \in LettersOf(InHand)'
    BY <1>1, <2>1 DEF LettersOf, InHand, Letter
  <2> QED
    BY <1>1, <1>4, <2>1, <2>2, <2>3 DEF Busy, TypeOK
<1> QED
  BY <1>2, <1>3, <1>4

(* The records in hand were fetched since this start; the first is the     *)
(* oldest of them.                                                         *)
LEMMA InHandFetched ==
    ASSUME TypeOK, InStep, Window, loop \in Busy
    PROVE  /\ InHand \in Offsets /\ InHand \in 1..Len(log)
           /\ InHand = position - Len(batch) /\ InHand >= base
           /\ Event(InHand) \in Events
           /\ Len(batch) \in Nat \ {0}
<1>1. batch # << >> /\ batch \in Seq(Offsets) /\ log \in Seq(Events)
  BY DEF InStep, TypeOK
<1>2. Len(batch) \in Nat /\ Len(batch) # 0 /\ InHand = batch[1] /\ InHand \in Offsets
  BY <1>1 DEF InHand
<1>3. InHand = position - Len(batch)
  BY <1>2 DEF Window, TypeOK
<1>4. InHand >= base /\ InHand \in 1..Len(log)
  BY <1>1, <1>2, <1>3 DEF Window, TypeOK
<1> QED
  BY <1>1, <1>2, <1>3, <1>4 DEF Event

(* Concluding the record in hand, with an outcome that is so, keeps what   *)
(* is said of all the records.                                             *)
LEMMA ConcludesKeeps ==
    ASSUME WorkerInv, loop \in Busy,
           NEW outcome \in {"persisted", "deadLettered"}, Concludes(outcome),
           outcome = "persisted" => loop = "caching",
           outcome = "deadLettered" => loop = "deadLettering",
           UNCHANGED <<log, db, app, boots, isRunning, consumer, position, base>>,
           dlqTopic' \in {dlqTopic, dlqTopic \cup LettersOf(InHand)},
           processed' \in Nat, errors' \in Nat
    PROVE  WorkerInv'
<1> USE DEF WorkerInv
<1>1. /\ InHand \in Offsets /\ InHand \in 1..Len(log)
      /\ InHand = position - Len(batch) /\ InHand >= base
      /\ Event(InHand) \in Events /\ Len(batch) \in Nat \ {0}
      /\ batch \in Seq(Offsets) /\ batch # << >>
  BY InHandFetched DEF InStep, TypeOK
<1>0. /\ position \in Nat /\ base \in Nat \ {0} /\ MaxLog \in Nat /\ position <= MaxLog + 1
      /\ position' = position /\ base' = base /\ log' = log
      /\ fate \in [Offsets -> {"none", "persisted", "deadLettered", "interrupted"}]
  BY WorkerAssumption DEF TypeOK
<1>2. /\ Tail(batch) \in Seq(Offsets) /\ Len(Tail(batch)) = Len(batch) - 1
      /\ \A i \in 1..Len(Tail(batch)) : Tail(batch)[i] = batch[i + 1]
  BY <1>1
<1>3. Takes(Tail(batch)) /\ fate' = [fate EXCEPT ![InHand] = outcome]
  BY DEF Concludes
<1>4. /\ batch' = Tail(batch) /\ attempt' = 0
      /\ loop' \in {"polling", "persisting", "deadLettering"}
      /\ loop' \in Busy <=> Tail(batch) # << >>
      /\ dlqBuffer \subseteq dlqBuffer'
      /\ dlqBuffer' \subseteq [offset : Offsets,
               error : {"worker_validation_error", "database_persistence_error"}]
      /\ loop' = "deadLettering" => LettersOf(InHand)' # {}
  BY <1>2, <1>3, TakesUp
<1>5. TypeOK'
  <2>1. fate' \in [Offsets -> {"none", "persisted", "deadLettered", "interrupted"}]
    BY <1>3 DEF TypeOK
  <2>2. dlqTopic' \subseteq [offset : Offsets,
               error : {"worker_validation_error", "database_persistence_error"}]
    BY DEF TypeOK, LettersOf
  <2> QED
    BY <1>2, <1>4, <2>1, <2>2, WorkerAssumption DEF TypeOK, Alive, Busy
<1>6. InStep'
  <2>1. app = "up"
    BY DEF InStep, Alive
  <2> QED
    BY <1>4, <2>1, WorkerAssumption DEF InStep, Alive, Busy
<1>7. Window'
  <2>1. Len(batch') = Len(batch) - 1
    BY <1>2, <1>4
  <2>2. ASSUME NEW i \in 1..Len(batch')
        PROVE  batch'[i] = position' - Len(batch') + i - 1
    <3>1. batch'[i] = batch[i + 1] /\ i + 1 \in 1..Len(batch)
      BY <1>1, <1>2, <1>4, <2>1
    <3> QED
      BY <1>0, <1>1, <2>1, <3>1 DEF Window
  <2> QED
    BY <1>0, <1>1, <2>1, <2>2 DEF Window
<1>8. Concluded'
  <2>1. position' - Len(batch') = InHand + 1
    BY <1>0, <1>1, <1>2, <1>4
  <2>2. ASSUME NEW o \in base'..(position' - 1)
        PROVE  fate'[o] = "none" <=> o >= position' - Len(batch')
    <3>0. o \in Offsets
      BY <1>0 DEF Offsets
    <3>1. CASE o = InHand
      BY <1>0, <1>1, <1>3, <2>1, <3>0, <3>1
    <3>2. CASE o # InHand
      BY <1>0, <1>1, <1>3, <2>1, <3>0, <3>2 DEF Concluded
    <3> QED
      BY <3>1, <3>2
  <2>3. \A o \in Offsets : o >= position' => fate'[o] = "none"
    BY <1>0, <1>1, <1>3 DEF Concluded, Offsets
  <2> QED
    BY <2>2, <2>3 DEF Concluded
<1>9. HandIsTrue'
  BY <1>4 DEF HandIsTrue
<1>10. FateIsTrue'
  <2>1. ASSUME NEW o \in Offsets, fate'[o] = "persisted" PROVE Event(o)' \in db'
    <3>1. CASE o = InHand
      BY <1>1, <1>3, <2>1, <3>1 DEF TypeOK, HandIsTrue, Event
    <3>2. CASE o # InHand
      BY <1>3, <2>1, <3>2 DEF TypeOK, FateIsTrue, Event
    <3> QED
      BY <3>1, <3>2
  <2>2. ASSUME app' \in {"up", "stopping"}, loop' # "none",
               NEW o \in base'..(position' - 1), fate'[o] = "deadLettered"
        PROVE  LettersOf(o)' # {}
    <3>0. o \in Offsets /\ loop # "none" /\ app = app'
      BY <1>0 DEF Offsets, Busy
    <3>1. LettersOf(o) # {}
      <4>1. CASE o = InHand
        BY <1>3, <2>2, <3>0, <4>1 DEF TypeOK, HandIsTrue
      <4>2. CASE o # InHand
        BY <1>3, <2>2, <3>0, <4>2 DEF TypeOK, FateIsTrue
      <4> QED
        BY <4>1, <4>2
    <3> QED
      BY <1>4, <3>1 DEF LettersOf
  <2> QED
    BY <2>1, <2>2 DEF FateIsTrue
<1>11. PersistedOnce'
  <2> SUFFICES ASSUME NEW o \in Offsets, NEW p \in Offsets, o # p,
                      fate'[o] = "persisted", fate'[p] = "persisted"
               PROVE  Event(o) # Event(p)
    BY DEF PersistedOnce, Event
  <2>1. CASE o = InHand
    BY <1>3, <2>1 DEF TypeOK, HandIsTrue
  <2>2. CASE p = InHand
    BY <1>3, <2>2 DEF TypeOK, HandIsTrue
  <2>3. CASE o # InHand /\ p # InHand
    BY <1>3, <2>3 DEF TypeOK, PersistedOnce
  <2> QED
    BY <2>1, <2>2, <2>3
<1> QED
  BY <1>5, <1>6, <1>7, <1>8, <1>9, <1>10, <1>11

(* Stopping or killing the loop: the records in hand are interrupted.      *)
LEMMA InterruptKeeps ==
    ASSUME WorkerInv, InterruptsLoop, app' \in {"stopping", "down"},
           loop' \notin Alive, loop' \in {"none", "done"},
           loop' # "none" => loop # "none" /\ app = "up",
           app' = "stopping" => app = "up",
           UNCHANGED <<boots, position, processed, errors, base>>,
           isRunning' \in BOOLEAN, consumer' \in {"none", "starting", "started"},
           attempt' \in 0..MaxAttempts,
           app' = "stopping" => dlqBuffer' = dlqBuffer,
           dlqBuffer' \subseteq dlqBuffer
    PROVE  WorkerInv'
<1> USE DEF WorkerInv
<1>0. /\ position \in Nat /\ base \in Nat \ {0} /\ MaxLog \in Nat /\ position <= MaxLog + 1
      /\ position' = position /\ base' = base /\ log' = log
      /\ fate \in [Offsets -> {"none", "persisted", "deadLettered", "interrupted"}]
      /\ batch \in Seq(Offsets) /\ batch' = << >> /\ Len(batch) \in Nat
      /\ Len(log) \in Nat
  BY WorkerAssumption DEF TypeOK, InterruptsLoop
<1>1. /\ fate' \in [Offsets -> {"none", "persisted", "deadLettered", "interrupted"}]
      /\ \A o \in Offsets : fate'[o] # "interrupted" => fate'[o] = fate[o]
      /\ \A o \in Offsets : fate'[o] = IF \E i \in 1..Len(batch) : batch[i] = o
                                       THEN "interrupted" ELSE fate[o]
  BY <1>0 DEF InterruptsLoop
<1>2. /\ db \subseteq db' /\ db' \subseteq Events
      /\ dlqTopic' \subseteq [offset : Offsets,
               error : {"worker_validation_error", "database_persistence_error"}]
  <2>1. loop \in Busy => Event(InHand) \in Events
    BY InHandFetched
  <2> QED
    BY <2>1 DEF TypeOK, InterruptsLoop, LettersOf, Busy
<1>3. TypeOK' /\ InStep' /\ HandIsTrue'
  BY <1>0, <1>1, <1>2 DEF TypeOK, InStep, HandIsTrue, Alive, Busy
<1>4. Window'
  BY <1>0 DEF Window
<1>5. Concluded'
  <2>1. ASSUME NEW o \in Offsets, base <= o, o < position PROVE fate'[o] # "none"
    <3>1. CASE fate[o] # "none"
      BY <1>1, <3>1
    <3>2. CASE fate[o] = "none"
      <4>1. o >= position - Len(batch)
        BY <1>0, <2>1, <3>2 DEF Concluded, Offsets
      <4> DEFINE i == o - (position - Len(batch)) + 1
      <4>2. i \in 1..Len(batch)
        BY <1>0, <2>1, <4>1 DEF Offsets
      <4>3. position - Len(batch) + i - 1 = o
        BY <1>0, <2>1 DEF Offsets
      <4> HIDE DEF i
      <4>4. batch[i] = o
        BY <4>2, <4>3 DEF Window
      <4> QED
        BY <1>1, <4>2, <4>4
    <3> QED
      BY <3>1, <3>2
  <2>2. ASSUME NEW o \in Offsets, o >= position PROVE fate'[o] = "none"
    <3>1. \A i \in 1..Len(batch) : batch[i] # o
      BY <1>0, <2>2 DEF Window, Offsets
    <3> QED
      BY <1>0, <1>1, <2>2, <3>1 DEF Concluded
  <2> QED
    BY <1>0, <2>1, <2>2 DEF Concluded, Offsets
<1>6. FateIsTrue'
  <2>1. ASSUME NEW o \in Offsets, fate'[o] = "persisted" PROVE Event(o)' \in db'
    BY <1>0, <1>1, <1>2, <2>1 DEF FateIsTrue, Event
  <2>2. ASSUME app' \in {"up", "stopping"}, loop' # "none",
               NEW o \in base'..(position' - 1), fate'[o] = "deadLettered"
        PROVE  LettersOf(o)' # {}
    <3>1. o \in Offsets /\ fate[o] = "deadLettered" /\ o \in base..(position - 1)
      BY <1>0, <1>1, <2>2 DEF Offsets
    <3>2. LettersOf(o) # {} /\ dlqBuffer' = dlqBuffer
      BY <2>2, <3>1 DEF FateIsTrue
    <3> QED
      BY <3>2 DEF LettersOf
  <2> QED
    BY <2>1, <2>2 DEF FateIsTrue
<1>7. PersistedOnce'
  BY <1>0, <1>1 DEF PersistedOnce, Event
<1> QED
  BY <1>3, <1>4, <1>5, <1>6, <1>7

-----------------------------------------------------------------------------

LEMMA InitiallyWorkerInv == Init => WorkerInv
<1> SUFFICES ASSUME Init PROVE WorkerInv
  OBVIOUS
<1>1. TypeOK
  <2>1. log \in Seq(Events) /\ batch \in Seq(Offsets) /\ Len(log) <= MaxLog
    BY WorkerAssumption DEF Init
  <2>2. /\ boots \in 0..MaxBoots /\ attempt \in 0..MaxAttempts
        /\ position \in 1..(MaxLog + 1) /\ base \in 1..(MaxLog + 1)
    BY WorkerAssumption DEF Init
  <2> QED
    BY <2>1, <2>2 DEF Init, TypeOK
<1>2. InStep /\ Window /\ Concluded /\ HandIsTrue
  BY WorkerAssumption DEF Init, InStep, Window, Concluded, HandIsTrue, Alive, Busy, Offsets
<1>3. FateIsTrue /\ PersistedOnce
  BY DEF Init, FateIsTrue, PersistedOnce
<1> QED
  BY <1>1, <1>2, <1>3 DEF WorkerInv

(* The producers add to the end of the topic only. *)
LEMMA PublishKeeps ==
    ASSUME WorkerInv, NEW e \in Events, Publish(e)
    PROVE  WorkerInv'
<1> USE DEF WorkerInv
<1>1. /\ log' \in Seq(Events) /\ Len(log') = Len(log) + 1 /\ Len(log) \in Nat
      /\ Len(log) < MaxLog /\ MaxLog \in Nat
      /\ \A o \in 1..Len(log) : log'[o] = log[o]
  BY WorkerAssumption DEF Publish, TypeOK
<1>2. UNCHANGED <<db, dlqTopic, dlqBuffer, fate, app, boots, workerVars, base>>
  BY DEF Publish
<1>3. TypeOK'
  BY <1>1, <1>2 DEF TypeOK, workerVars
<1>4. InStep' /\ Window' /\ Concluded'
  BY <1>1, <1>2 DEF TypeOK, InStep, Window, Concluded, workerVars
<1>5. \A o \in Offsets : fate[o] = "persisted" => Event(o)' = Event(o)
  <2> SUFFICES ASSUME NEW o \in Offsets, fate[o] = "persisted"
               PROVE  log'[o] = log[o]
    BY DEF Event
  <2>1. position \in Nat /\ position <= Len(log) + 1 /\ o \in Nat \ {0}
    BY DEF Window, TypeOK, Offsets
  <2>2. ~(o >= position)
    BY DEF Concluded
  <2>3. o \in 1..Len(log)
    BY <1>1, <2>1, <2>2
  <2> QED
    BY <1>1, <2>3
<1>6. loop \in Busy => InHand' = InHand /\ Event(InHand)' = Event(InHand)
  BY <1>1, <1>2, InHandFetched DEF workerVars, InHand, Event
<1>7. HandIsTrue'
  BY <1>2, <1>5, <1>6 DEF HandIsTrue, LettersOf, workerVars, Busy
<1>8. FateIsTrue' /\ PersistedOnce'
  BY <1>2, <1>5 DEF FateIsTrue, PersistedOnce, LettersOf, workerVars
<1> QED
  BY <1>3, <1>4, <1>7, <1>8

(* A poll takes the next records of the topic. *)
LEMMA PollKeeps ==
    ASSUME WorkerInv, Poll
    PROVE  WorkerInv'
<1> USE DEF WorkerInv
<1>1. PICK n \in 1..BatchSize :
          /\ position + n <= Len(log) + 1
          /\ Takes([i \in 1..n |-> position + i - 1])
          /\ position' = position + n
  BY DEF Poll
<1> DEFINE rest == [i \in 1..n |-> position + i - 1]
<1>2. /\ UNCHANGED <<log, db, dlqTopic, fate, app, boots, isRunning, consumer,
                     processed, errors, base>>
      /\ loop = "polling"
  BY DEF Poll
<1>3. /\ position \in Nat \ {0} /\ base \in Nat \ {0} /\ MaxLog \in Nat
      /\ base <= position /\ Len(log) \in Nat /\ Len(log) <= MaxLog
      /\ n \in Nat \ {0} /\ batch = << >> /\ app = "up"
  BY <1>2, WorkerAssumption DEF TypeOK, InStep, Window, Alive, Busy
<1>4. rest \in Seq(Offsets) /\ Len(rest) = n /\ rest # << >>
  BY <1>1, <1>3 DEF Offsets
<1>5. /\ batch' = rest /\ attempt' = 0
      /\ loop' \in {"polling", "persisting", "deadLettering"}
      /\ loop' \in Busy <=> rest # << >>
      /\ dlqBuffer \subseteq dlqBuffer'
      /\ dlqBuffer' \subseteq [offset : Offsets,
               error : {"worker_validation_error", "database_persistence_error"}]
      /\ loop' = "deadLettering" => LettersOf(InHand)' # {}
  <2> HIDE DEF rest
  <2> QED
    BY <1>1, <1>2, <1>4, TakesUp DEF rest
<1>6. TypeOK'
  <2>1. position' \in 1..(MaxLog + 1)
    BY <1>1, <1>3
  <2> HIDE DEF rest
  <2> QED
    BY <1>2, <1>4, <1>5, <2>1, WorkerAssumption DEF TypeOK, Alive, Busy
<1>7. InStep'
  BY <1>2, <1>3, <1>4, <1>5, WorkerAssumption DEF InStep, Alive, Busy
<1>8. Window'
  BY <1>1, <1>2, <1>3, <1>4, <1>5 DEF Window
<1>9. Concluded'
  <2>1. Len(batch') = n
    BY <1>4, <1>5
  <2> HIDE DEF rest
  <2> QED
    BY <1>1, <1>2, <1>3, <2>1 DEF Concluded, Offsets
<1>10. HandIsTrue' /\ PersistedOnce'
  BY <1>2, <1>5 DEF HandIsTrue, PersistedOnce, Event
<1>11. FateIsTrue'
  <2>1. ASSUME app' \in {"up", "stopping"}, loop' # "none",
               NEW o \in base'..(position' - 1), fate'[o] = "deadLettered"
        PROVE  LettersOf(o)' # {}
    <3>1. o \in base..(position - 1)
      BY <1>1, <1>2, <1>3, <2>1 DEF Concluded, Offsets
    <3>2. LettersOf(o) # {}
      BY <1>2, <1>3, <2>1, <3>1 DEF FateIsTrue
    <3> QED
      BY <1>5, <3>2 DEF LettersOf
  <2> QED
    BY <1>2, <2>1 DEF FateIsTrue, Event
<1> QED
  BY <1>6, <1>7, <1>8, <1>9, <1>10, <1>11

-----------------------------------------------------------------------------

(* The record in hand is persisted, or an attempt to persist it fails.     *)
LEMMA PersistingKeeps ==
    ASSUME WorkerInv, Persist \/ RetryPersist \/ GiveUpPersist
    PROVE  WorkerInv'
<1> USE DEF WorkerInv
<1>1. /\ loop = "persisting" /\ app = "up" /\ attempt < MaxAttempts
      /\ UNCHANGED <<log, dlqTopic, fate, app, boots, isRunning, consumer, position,
                     batch, processed, errors, base>>
      /\ dlqBuffer \subseteq dlqBuffer'
      /\ db \subseteq db'
  BY DEF Persist, RetryPersist, GiveUpPersist, AttemptRaises, InStep, Alive, Busy
<1>2. InHand \in Offsets /\ Event(InHand) \in Events /\ batch # << >>
  BY <1>1, InHandFetched DEF Busy, InStep
<1>3. InHand' = InHand /\ Event(InHand)' = Event(InHand)
  BY <1>1 DEF InHand, Event
<1>4. Window' /\ Concluded' /\ PersistedOnce'
  BY <1>1 DEF Window, Concluded, PersistedOnce, Event
<1>5. FateIsTrue'
  BY <1>1 DEF FateIsTrue, Event, LettersOf
<1>6. MaxAttempts \in Nat \ {0} /\ attempt \in Nat
  BY WorkerAssumption DEF TypeOK
<1>7. CASE Persist
  <2>1. /\ Event(InHand) \notin db /\ db' = db \cup {Event(InHand)} /\ loop' = "caching"
        /\ UNCHANGED <<dlqBuffer, attempt>>
    BY <1>7 DEF Persist
  <2>2. TypeOK' /\ InStep'
    BY <1>1, <1>2, <2>1 DEF TypeOK, InStep, Alive, Busy
  <2>3. HandIsTrue'
    BY <1>1, <1>3, <2>1 DEF HandIsTrue, FateIsTrue, Event
  <2> QED
    BY <1>4, <1>5, <2>2, <2>3
<1>8. CASE RetryPersist
  <2>1. /\ attempt + 1 < MaxAttempts /\ attempt' = attempt + 1 /\ db' \subseteq Events
        /\ UNCHANGED <<loop, dlqBuffer>>
    BY <1>2, <1>8 DEF RetryPersist, AttemptRaises, TypeOK
  <2>2. TypeOK' /\ InStep'
    BY <1>1, <1>2, <1>6, <2>1 DEF TypeOK, InStep, Alive, Busy
  <2>3. HandIsTrue'
    BY <1>1, <2>1 DEF HandIsTrue
  <2> QED
    BY <1>4, <1>5, <2>2, <2>3
<1>9. CASE GiveUpPersist
  <2> DEFINE d == Letter(InHand, "database_persistence_error")
  <2>1. /\ attempt' = attempt + 1 /\ db' \subseteq Events /\ loop' = "deadLettering"
        /\ dlqBuffer' = dlqBuffer \cup {d}
    BY <1>2, <1>9 DEF GiveUpPersist, AttemptRaises, TypeOK
  <2>2. /\ d \in [offset : Offsets,
                  error : {"worker_validation_error", "database_persistence_error"}]
        /\ d.offset = InHand
    BY <1>2 DEF Letter
  <2> HIDE DEF d
  <2>3. attempt' \in 0..MaxAttempts
    BY <1>1, <1>6, <2>1
  <2>4. TypeOK' /\ InStep'
    BY <1>1, <1>2, <2>1, <2>2, <2>3 DEF TypeOK, InStep, Alive, Busy
  <2>5. d \in LettersOf(InHand)'
    BY <1>3, <2>1, <2>2 DEF LettersOf
  <2>6. HandIsTrue'
    BY <2>1, <2>5 DEF HandIsTrue
  <2> QED
    BY <1>4, <1>5, <2>4, <2>6
<1> QED
  BY <1>7, <1>8, <1>9

(* Starts and failed polls: no record changes hands. *)
LEMMA StartsKeep ==
    ASSUME WorkerInv,
           Boot \/ StartSucceeds \/ StartFails \/ StartTimesOut \/ PollFails \/ FinishStop
    PROVE  WorkerInv'
<1> USE DEF WorkerInv
<1>1. loop \notin Busy /\ batch = << >>
  BY DEF Boot, StartSucceeds, StartFails, StartTimesOut, PollFails, FinishStop,
         InStep, Alive, Busy
<1>2. /\ UNCHANGED <<log, db, dlqTopic, fate, batch>>
      /\ loop' \notin Busy
  BY <1>1 DEF Boot, StartSucceeds, StartFails, StartTimesOut, PollFails, FinishStop,
         InStep, Alive, Busy, storeVars, workerVars
<1>3. HandIsTrue' /\ PersistedOnce'
  BY <1>2 DEF HandIsTrue, PersistedOnce, Event, Busy
<1>4. /\ position \in Nat \ {0} /\ base \in Nat \ {0} /\ MaxLog \in Nat
      /\ Len(log) \in Nat /\ Len(log) <= MaxLog /\ Len(batch) = 0
      /\ base <= position /\ position <= Len(log) + 1
  BY <1>1, WorkerAssumption DEF TypeOK, Window
<1>5. \/ position' = position /\ base' = base
      \/ position' = Len(log) + 1 /\ base' = Len(log) + 1
  BY DEF Boot, StartSucceeds, StartFails, StartTimesOut, PollFails, FinishStop, workerVars
<1>6. Window' /\ Concluded'
  <2>1. CASE position' = position /\ base' = base
    BY <1>2, <2>1 DEF Window, Concluded
  <2>2. CASE position' = Len(log) + 1 /\ base' = Len(log) + 1
    <3>1. Window'
      BY <1>1, <1>2, <1>4, <2>2 DEF Window
    <3>2. Concluded'
      BY <1>2, <1>4, <2>2 DEF Concluded, Offsets
    <3> QED
      BY <3>1, <3>2
  <2> QED
    BY <1>5, <2>1, <2>2
<1>7. TypeOK'
  <2>1. position' \in 1..(MaxLog + 1) /\ base' \in 1..(MaxLog + 1)
    BY <1>4, <1>5
  <2>2. boots' \in 0..MaxBoots /\ attempt' \in 0..MaxAttempts
    BY WorkerAssumption DEF TypeOK, Boot, StartSucceeds, StartFails, StartTimesOut,
         PollFails, FinishStop, workerVars
  <2>3. dlqBuffer' \subseteq dlqBuffer
    BY DEF Boot, StartSucceeds, StartFails, StartTimesOut, PollFails, FinishStop, storeVars
  <2>4. processed' \in Nat /\ errors' \in Nat
    BY DEF TypeOK, Boot, StartSucceeds, StartFails, StartTimesOut, PollFails, FinishStop,
           workerVars
  <2>5. /\ app' \in {"down", "starting", "up", "stopping"}
        /\ isRunning' \in BOOLEAN /\ consumer' \in {"none", "starting", "started"}
        /\ loop' \in {"none", "done"} \cup Alive
    BY DEF TypeOK, Boot, StartSucceeds, StartFails, StartTimesOut, PollFails, FinishStop,
           workerVars, Alive
  <2> QED
    BY <1>2, <2>1, <2>2, <2>3, <2>4, <2>5 DEF TypeOK
<1>8. InStep'
  BY <1>1, <1>2 DEF InStep, Boot, StartSucceeds, StartFails, StartTimesOut, PollFails,
         FinishStop, workerVars, Alive, Busy
<1>9. FateIsTrue'
  <2>1. \A o \in Offsets : fate'[o] = "persisted" => Event(o)' \in db'
    BY <1>2 DEF FateIsTrue, Event
  <2>2. ASSUME app' \in {"up", "stopping"}, loop' # "none",
               NEW o \in base'..(position' - 1), fate'[o] = "deadLettered"
        PROVE  LettersOf(o)' # {}
    <3>1. ~StartSucceeds
      BY <1>4, <2>2 DEF StartSucceeds
    <3>2. PollFails
      BY <2>2, <3>1 DEF Boot, StartFails, StartTimesOut, FinishStop, InStep, workerVars
    <3>3. /\ app = "up" /\ loop # "none" /\ base' = base /\ position' = position
          /\ dlqBuffer' = dlqBuffer
      BY <2>2, <3>2 DEF PollFails, InStep, Alive, storeVars
    <3> QED
      BY <1>2, <2>2, <3>3 DEF FateIsTrue, LettersOf
  <2> QED
    BY <2>1, <2>2 DEF FateIsTrue
<1> QED
  BY <1>3, <1>6, <1>7, <1>8, <1>9

LEMMA WorkerInvKept == WorkerInv /\ [Next]_vars => WorkerInv'
<1> SUFFICES ASSUME WorkerInv, [Next]_vars PROVE WorkerInv'
  OBVIOUS
<1>1. CASE \E e \in Events : Publish(e)
  BY <1>1, PublishKeeps
<1>2. CASE Boot \/ StartSucceeds \/ StartFails \/ StartTimesOut \/ PollFails \/ FinishStop
  BY <1>2, StartsKeep
<1>3. CASE Poll
  BY <1>3, PollKeeps
<1>4. CASE Persist \/ RetryPersist \/ GiveUpPersist
  BY <1>4, PersistingKeeps
<1>5. CASE DeadLetterAnswered
  <2>1. /\ loop \in Busy /\ loop = "deadLettering" /\ Concludes("deadLettered")
        /\ UNCHANGED <<log, db, app, boots, isRunning, consumer, position, base>>
        /\ dlqTopic' \in {dlqTopic, dlqTopic \cup LettersOf(InHand)}
        /\ processed' \in Nat /\ errors' \in Nat
    BY <1>5 DEF DeadLetterAnswered, WorkerInv, TypeOK, Busy
  <2> QED
    BY <2>1, ConcludesKeeps
<1>6. CASE CacheAndCount
  <2>1. /\ loop \in Busy /\ loop = "caching" /\ Concludes("persisted")
        /\ UNCHANGED <<log, db, app, boots, isRunning, consumer, position, base>>
        /\ dlqTopic' \in {dlqTopic, dlqTopic \cup LettersOf(InHand)}
        /\ processed' \in Nat /\ errors' \in Nat
    BY <1>6 DEF CacheAndCount, WorkerInv, TypeOK, Busy
  <2> QED
    BY <2>1, ConcludesKeeps
<1>7. CASE BeginStop
  <2>1. /\ InterruptsLoop /\ app' = "stopping" /\ app = "up"
        /\ loop' \notin Alive /\ loop' \in {"none", "done"} /\ (loop' # "none" => loop # "none")
        /\ UNCHANGED <<boots, position, processed, errors, base, dlqBuffer>>
        /\ isRunning' \in BOOLEAN /\ consumer' \in {"none", "starting", "started"}
        /\ attempt' \in 0..MaxAttempts
    BY <1>7 DEF BeginStop, WorkerInv, TypeOK, Alive, Busy
  <2> QED
    BY <2>1, InterruptKeeps
<1>8. CASE Crash
  <2>1. /\ InterruptsLoop /\ app' = "down" /\ loop' = "none"
        /\ loop' \notin Alive /\ dlqBuffer' = {}
        /\ UNCHANGED <<boots, position, processed, errors, base>>
        /\ isRunning' \in BOOLEAN /\ consumer' \in {"none", "starting", "started"}
        /\ attempt' = 0
    BY <1>8 DEF Crash, Alive, Busy
  <2>2. 0 \in 0..MaxAttempts
    BY WorkerAssumption
  <2> QED
    BY <2>1, <2>2, InterruptKeeps
<1>9. CASE UNCHANGED vars
  BY <1>9 DEF WorkerInv, TypeOK, InStep, Window, Concluded, HandIsTrue, FateIsTrue,
              PersistedOnce, LettersOf, InHand, Event, vars, storeVars, workerVars
<1> QED
  BY <1>1, <1>2, <1>3, <1>4, <1>5, <1>6, <1>7, <1>8, <1>9 DEF Next, HandlesRecord

-----------------------------------------------------------------------------

(* Every record fetched since this start is concluded, in hand, or was     *)
(* interrupted, whatever the batch size, the failures and the restarts.    *)
THEOREM RecordsNeverVanish == Spec => []NoSilentLoss
<1>1. WorkerInv => NoSilentLoss
  <2> SUFFICES ASSUME WorkerInv, NEW o \in base..(position - 1)
               PROVE  o >= position - Len(batch) <=> \E i \in 1..Len(batch) : batch[i] = o
    BY DEF WorkerInv, Concluded, NoSilentLoss
  <2>1. /\ position \in Nat /\ base \in Nat /\ Len(batch) \in Nat /\ o \in Nat
        /\ o < position
        /\ \A i \in 1..Len(batch) : batch[i] = position - Len(batch) + i - 1
    BY DEF WorkerInv, TypeOK, Window
  <2>2. ASSUME o >= position - Len(batch)
        PROVE  \E i \in 1..Len(batch) : batch[i] = o
    <3> DEFINE i == o - (position - Len(batch)) + 1
    <3>1. i \in 1..Len(batch) /\ position - Len(batch) + i - 1 = o
      BY <2>1, <2>2
    <3> HIDE DEF i
    <3> QED
      BY <2>1, <3>1
  <2>3. ASSUME NEW i \in 1..Len(batch), batch[i] = o
        PROVE  o >= position - Len(batch)
    BY <2>1, <2>3
  <2> QED
    BY <2>2, <2>3
<1> QED
  BY <1>1, InitiallyWorkerInv, WorkerInvKept, PTL DEF Spec

(* What the worker concludes of a record is so, and however often an event *)
(* is in the topic at most one of its records counts as processed.         *)
THEOREM ConclusionsAreTrue == Spec => []Truthful
<1>1. WorkerInv => Truthful
  BY DEF WorkerInv, Truthful
<1> QED
  BY <1>1, InitiallyWorkerInv, WorkerInvKept, PTL DEF Spec

=============================================================================
