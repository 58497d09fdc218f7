----------------------------- MODULE Backpressure -----------------------------
(***************************************************************************)
(* backend/app/ingestion/resilience/backpressure.py.  The sliding-window   *)
(* RateLimiter: acquire() runs under an asyncio.Lock and never suspends    *)
(* between taking and leaving it, so one call is one action.               *)
(* time.perf_counter() is a clock of ticks that never goes back; several   *)
(* calls may read the same tick.                                           *)
(*                                                                         *)
(* The BackpressureController: a counter of the events being processed, in *)
(* front of the RateLimiter.  try_acquire() holds its asyncio.Lock across  *)
(* the limiter's call, and neither lock can be contended: nothing inside   *)
(* suspends.  One call is one action.                                      *)
(***************************************************************************)
EXTENDS Integers, Sequences

CONSTANTS MaxRate,     \* max_rate_per_sec
          Window,      \* window_sec, in ticks
          MaxCount,    \* the largest `count` asked for at once
          MaxTime      \* bound: the clock stops here

ASSUME RateAssumption == /\ MaxRate \in Nat \ {0}
                         /\ Window \in Nat
                         /\ MaxCount \in Nat \ {0}
                         /\ MaxTime \in Nat

VARIABLES now,         \* time.perf_counter()
          timestamps,  \* _timestamps, the deque of granted instants in the window
          grants       \* history: the instant of every item ever granted

rateVars == <<now, timestamps, grants>>

(* The first k entries are exactly those the `while` loop pops. *)
StalePrefix(k) ==
    /\ \A i \in 1..k : timestamps[i] < now - Window
    /\ k < Len(timestamps) => timestamps[k + 1] >= now - Window

SlipStampsCutoff(count) == [i \in 1..count |-> now - Window]

Instants(count) == [i \in 1..count |-> now]

(* acquire() returning True: purge, then one timestamp per item. *)
AcquireGranted(count) ==
    \E k \in 0..Len(timestamps) :
        /\ StalePrefix(k)
        /\ Len(timestamps) - k + count <= MaxRate
        /\ timestamps' = SubSeq(timestamps, k + 1, Len(timestamps)) \o Instants(count)
        /\ grants' = grants \o Instants(count)
        /\ UNCHANGED now

(* acquire() returning False: the purge has happened all the same. *)
AcquireRefused(count) ==
    \E k \in 0..Len(timestamps) :
        /\ StalePrefix(k)
        /\ Len(timestamps) - k + count > MaxRate
        /\ timestamps' = SubSeq(timestamps, k + 1, Len(timestamps))
        /\ UNCHANGED <<now, grants>>

Tick == /\ now < MaxTime
        /\ now' = now + 1
        /\ UNCHANGED <<timestamps, grants>>

RateInit == /\ now = 0
            /\ timestamps = << >>
            /\ grants = << >>

RateNext == \/ \E count \in 1..MaxCount : AcquireGranted(count) \/ AcquireRefused(count)
            \/ Tick

RateSpec == RateInit /\ [][RateNext]_rateVars

-----------------------------------------------------------------------------

(* The deque and the history are sequences of instants the clock has read. *)
RateTypeOK == /\ now \in 0..MaxTime
              /\ timestamps \in Seq(0..now)
              /\ grants \in Seq(0..now)

(* What the limiter promises (acquire(), "items can be processed within    *)
(* rate limit"): of all items ever granted, no MaxRate + 1 consecutive     *)
(* ones fit in one closed window, wherever the window is placed.           *)
WindowRespected ==
    \A i \in 1..Len(grants) :
        i + MaxRate <= Len(grants) => grants[i + MaxRate] - grants[i] > Window

(* What the limiter owes its callers: the deque it counts is the tail of   *)
(* all grants, and every grant it has forgotten is older than the window,  *)
(* so no call is ever allowed for lack of a timestamp that was still live. *)
Forgotten == Len(grants) - Len(timestamps)

DequeCoversWindow ==
    /\ Forgotten >= 0
    /\ \A i \in 1..Len(timestamps) : timestamps[i] = grants[Forgotten + i]
    /\ \A i \in 1..Forgotten : grants[i] < now - Window

-----------------------------------------------------------------------------
CONSTANT MaxQueueSize      \* max_queue_size

ASSUME QueueAssumption == MaxQueueSize \in Nat

VARIABLE active            \* _active_tasks

controllerVars == <<active, rateVars>>

(* try_acquire() raising before the limiter is asked: nothing is purged. *)
BufferSaturated(batch) == /\ active + batch > MaxQueueSize
                          /\ UNCHANGED controllerVars

(* try_acquire() raising because the limiter said no. *)
RateExceeded(batch) == /\ active + batch <= MaxQueueSize
                       /\ AcquireRefused(batch)
                       /\ UNCHANGED active

SlipOneTooMany(batch) == /\ active <= MaxQueueSize
                         /\ AcquireGranted(batch)
                         /\ active' = active + batch

(* try_acquire() returning. *)
TryAcquire(batch) == /\ active + batch <= MaxQueueSize
                     /\ AcquireGranted(batch)
                     /\ active' = active + batch

(* release(): max(0, active - batch), outside the lock. *)
Release(batch) == /\ active' = IF active >= batch THEN active - batch ELSE 0
                  /\ UNCHANGED rateVars

ControllerInit == RateInit /\ active = 0
=============================================================================
