--------------------------- MODULE BrokerManager ---------------------------
(***************************************************************************)
(* get_producer(), publish_event() and close() of                          *)
(* backend/app/core/broker.py, by coroutines that interleave at their      *)
(* awaits: the lock, producer.start(), the sleep between attempts, the     *)
(* send, and producer.stop().  A producer is an object of aiokafka; one    *)
(* that failed to start, or was stopped, is garbage, and a new one may     *)
(* take its place in `life` when nobody uses it any more.                  *)
(***************************************************************************)
EXTENDS Naturals, FiniteSets, Sequences

CONSTANTS Coroutines, Producers, Nothing,
          Attempts       \* kafka_retries

ASSUME BrokerAssumption == /\ Attempts \in Nat \ {0}
                           /\ Nothing \notin Coroutines \cup Producers
                           /\ Producers # {}

VARIABLES producer,     \* _producer, with _is_started: both change together
          holder,       \* of _lock
          queue,        \* coroutines that wait for _lock, first come first served
          life,         \* of each producer object
          at,           \* where each coroutine is
          tries,        \* attempts made by get_producer()
          using         \* the producer a coroutine starts, sends with or stops

brokerVars == <<producer, holder, queue, life, at, tries, using>>

Started == {p \in Producers : life[p] = "started"}
Goes(c, to) == at' = [at EXCEPT ![c] = to]

(* A producer that nobody has yet, and its start().                        *)
Begins(c) == /\ \E p \in {q \in Producers : life[q] = "none" /\ \A d \in Coroutines : using[d] # q} :
                    /\ life' = [life EXCEPT ![p] = "starting"]
                    /\ using' = [using EXCEPT ![c] = p]
             /\ Goes(c, "starts")

-----------------------------------------------------------------------------
(* The lock. *)

(* The ways into `async with self._lock` of get_producer() and close().    *)
Wait(c, to) == /\ Goes(c, to)
               /\ queue' = Append(queue, c)

(* A waiter that gives up takes itself out of the queue.                   *)
Leaves(c) == \E i \in 1..Len(queue) :
                 /\ queue[i] = c
                 /\ queue' = SubSeq(queue, 1, i - 1) \o SubSeq(queue, i + 1, Len(queue))

Turn(c) == /\ holder = Nothing
           /\ queue # <<>> /\ Head(queue) = c
           /\ queue' = Tail(queue)

-----------------------------------------------------------------------------
(* publish_event() *)

(* get_producer(), without the lock: a started producer is used as it is.  *)
Publish(c) ==
    /\ at[c] = "idle"
    /\ \/ /\ producer # Nothing
          /\ Goes(c, "sends")
          /\ using' = [using EXCEPT ![c] = producer]
          /\ UNCHANGED queue
       \/ /\ producer = Nothing
          /\ Wait(c, "wants producer")
          /\ UNCHANGED using
    /\ UNCHANGED <<producer, holder, life, tries>>

SlipNoSecondLook(c) ==
    /\ at[c] = "wants producer" /\ Turn(c)
    /\ holder' = c
    /\ Begins(c)
    /\ tries' = [tries EXCEPT ![c] = 1]
    /\ UNCHANGED producer

(* With the lock: look again, and leave; or make a producer and await its  *)
(* start().                                                                *)
LookAgain(c) ==
    /\ at[c] = "wants producer" /\ Turn(c)
    /\ \/ /\ producer # Nothing
          /\ using' = [using EXCEPT ![c] = producer]
          /\ Goes(c, "sends")
          /\ UNCHANGED <<holder, life, tries>>
       \/ /\ producer = Nothing
          /\ holder' = c
          /\ Begins(c)
          /\ tries' = [tries EXCEPT ![c] = 1]
    /\ UNCHANGED producer

StartSucceeds(c) ==
    /\ at[c] = "starts"
    /\ life' = [life EXCEPT ![using[c]] = "started"]
    /\ producer' = using[c]
    /\ holder' = Nothing
    /\ Goes(c, "sends")
    /\ UNCHANGED <<queue, tries, using>>

SlipStaysLocked(c) ==
    /\ at[c] = "starts"
    /\ life' = [life EXCEPT ![using[c]] = "none"]
    /\ using' = [using EXCEPT ![c] = Nothing]
    /\ \/ tries[c] < Attempts /\ Goes(c, "sleeps")
       \/ Goes(c, "idle")
    /\ UNCHANGED <<producer, holder, queue, tries>>

(* A KafkaError: the object is dropped, the next attempt follows a sleep,  *)
(* the lock still held, and the last one is a BrokerError.  Any other      *)
(* exception is one at once.                                               *)
StartFails(c) ==
    /\ at[c] = "starts"
    /\ life' = [life EXCEPT ![using[c]] = "none"]
    /\ using' = [using EXCEPT ![c] = Nothing]
    /\ \/ tries[c] < Attempts /\ Goes(c, "sleeps") /\ UNCHANGED holder
       \/ Goes(c, "idle") /\ holder' = Nothing
    /\ UNCHANGED <<producer, queue, tries>>

NextAttempt(c) ==
    /\ at[c] = "sleeps"
    /\ Begins(c)
    /\ tries' = [tries EXCEPT ![c] = @ + 1]
    /\ UNCHANGED <<producer, holder, queue>>

(* send_and_wait() is over, well or not: it fails if the producer stopped. *)
Sent(c) == /\ at[c] = "sends"
           /\ Goes(c, "idle")
           /\ using' = [using EXCEPT ![c] = Nothing]
           /\ UNCHANGED <<producer, holder, queue, life, tries>>

(* The caller is cancelled while it waits for the lock, for start() or     *)
(* between two attempts: a producer that was starting is dropped.          *)
Cancelled(c) ==
    /\ \/ /\ at[c] = "wants producer"
          /\ Leaves(c)
          /\ UNCHANGED <<holder, life, using>>
       \/ /\ at[c] = "sleeps"
          /\ holder' = Nothing
          /\ UNCHANGED <<queue, life, using>>
       \/ /\ at[c] = "starts"
          /\ holder' = Nothing
          /\ life' = [life EXCEPT ![using[c]] = "none"]
          /\ using' = [using EXCEPT ![c] = Nothing]
          /\ UNCHANGED queue
    /\ Goes(c, "idle")
    /\ UNCHANGED <<producer, tries>>

-----------------------------------------------------------------------------
(* close() *)

Close(c) == /\ at[c] = "idle"
            /\ Wait(c, "wants close")
            /\ UNCHANGED <<producer, holder, life, tries, using>>

(* With the lock: stop() the producer, if there is one. *)
Stop(c) ==
    /\ at[c] = "wants close" /\ Turn(c)
    /\ \/ /\ producer # Nothing
          /\ holder' = c
          /\ using' = [using EXCEPT ![c] = producer]
          /\ Goes(c, "stops")
       \/ /\ producer = Nothing
          /\ Goes(c, "idle")
          /\ UNCHANGED <<holder, using>>
    /\ UNCHANGED <<producer, life, tries>>

(* stop() returns, raises or is cancelled: it is forgotten either way.     *)
Stopped(c) ==
    /\ at[c] = "stops"
    /\ life' = [life EXCEPT ![using[c]] = "none"]
    /\ producer' = Nothing
    /\ using' = [using EXCEPT ![c] = Nothing]
    /\ holder' = Nothing
    /\ Goes(c, "idle")
    /\ UNCHANGED <<queue, tries>>

-----------------------------------------------------------------------------

BrokerInit == /\ producer = Nothing
              /\ holder = Nothing
              /\ queue = <<>>
              /\ life = [p \in Producers |-> "none"]
              /\ at = [c \in Coroutines |-> "idle"]
              /\ tries = [c \in Coroutines |-> 0]
              /\ using = [c \in Coroutines |-> Nothing]

Proceeds(c) == \/ LookAgain(c) \/ StartSucceeds(c) \/ StartFails(c) \/ NextAttempt(c)
               \/ Sent(c) \/ Stop(c) \/ Stopped(c)

BrokerNext == \E c \in Coroutines : Publish(c) \/ Close(c) \/ Proceeds(c) \/ Cancelled(c)

BrokerSpec == /\ BrokerInit /\ [][BrokerNext]_brokerVars
              /\ \A c \in Coroutines : WF_brokerVars(Proceeds(c))

-----------------------------------------------------------------------------

BrokerTypeOK ==
    /\ producer \in Producers \cup {Nothing}
    /\ holder \in Coroutines \cup {Nothing}
    /\ queue \in Seq(Coroutines)
    /\ life \in [Producers -> {"none", "starting", "started"}]
    /\ at \in [Coroutines -> {"idle", "wants producer", "starts", "sleeps", "sends",
                              "wants close", "stops"}]
    /\ tries \in [Coroutines -> 0..Attempts]
    /\ using \in [Coroutines -> Producers \cup {Nothing}]

(* "initialized and started AIOKafkaProducer singleton" (get_producer()):  *)
(* however publishers and close() meet, there is never a connected         *)
(* producer besides the manager's own, so that nothing is left that        *)
(* close() would not stop; and the one it hands out has been started.      *)
OnlyOneConnected == Started = {producer} \ {Nothing}

(* Every publish_event() and close() comes to its end: nobody waits for    *)
(* the lock forever, whatever start() and stop() do.                       *)
EveryoneEnds == \A c \in Coroutines : at[c] # "idle" ~> at[c] = "idle"
=============================================================================
