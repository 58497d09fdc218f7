---------------------------- MODULE TokenBucket ----------------------------
(***************************************************************************)
(* The token-bucket RateLimiter of backend/app/performance/__init__.py and *)
(* the clients of its acquire_async(), which poll it until they get their  *)
(* tokens or their time is up.  Time is a clock of ticks (the code's floats *)
(* count seconds) and Rate the tokens of a tick; sleep(0.01) is a suspension *)
(* of unknown length.  An observer notes the time and the tokens spent once, *)
(* at an instant of its choosing: what is true of its note is true of every *)
(* window.                                                                 *)
(***************************************************************************)
EXTENDS Integers

CONSTANTS Clients,
          Rate,         \* rate, per tick
          Capacity,     \* capacity
          Timeout,      \* timeout, in ticks
          MaxAsk,       \* the largest number of tokens asked for at once
          MaxTime       \* bound: the clock stops here

ASSUME BucketAssumption == /\ Rate \in Nat /\ Capacity \in Nat
                           /\ Timeout \in Nat /\ MaxAsk \in Nat /\ MaxTime \in Nat

VARIABLES monotonic,    \* time.monotonic()
          tokens,
          lastUpdate,   \* last_update
          asks,         \* tokens a client in acquire_async() waits for, or 0
          since,        \* when it began
          outcome,      \* what its last call returned
          spent,        \* history: tokens handed out so far
          noted,        \* history: whether the observer has taken its note
          noteTime, noteSpent

bucket == <<tokens, lastUpdate, spent>>
observer == <<noted, noteTime, noteSpent>>
bucketVars == <<monotonic, bucket, asks, since, outcome, observer>>

Least(a, b) == IF a < b THEN a ELSE b

Refilled == Least(Capacity, tokens + (monotonic - lastUpdate) * Rate)

-----------------------------------------------------------------------------

(* acquire() returning True. *)
Granted(n) == /\ Refilled >= n
              /\ tokens' = Refilled - n
              /\ lastUpdate' = monotonic
              /\ spent' = spent + n

SlipKeepsUpdate(n) == /\ Refilled < n
                      /\ tokens' = Refilled
                      /\ UNCHANGED <<lastUpdate, spent>>

(* acquire() returning False: the bucket is refilled all the same. *)
Denied(n) == /\ Refilled < n
             /\ tokens' = Refilled
             /\ lastUpdate' = monotonic
             /\ UNCHANGED spent

AcquireTokens(n) == /\ n \in 1..MaxAsk
                    /\ Granted(n) \/ Denied(n)
                    /\ UNCHANGED <<monotonic, asks, since, outcome, observer>>

(* acquire_async() is called. *)
AskTokens(c, n) == /\ asks[c] = 0 /\ n \in 1..MaxAsk
                   /\ monotonic + Timeout <= MaxTime
                   /\ asks' = [asks EXCEPT ![c] = n]
                   /\ since' = [since EXCEPT ![c] = monotonic]
                   /\ outcome' = [outcome EXCEPT ![c] = "waiting"]
                   /\ UNCHANGED <<monotonic, bucket, observer>>

Returns(c, answer) == /\ outcome' = [outcome EXCEPT ![c] = answer]
                      /\ asks' = [asks EXCEPT ![c] = 0]
                      /\ UNCHANGED <<monotonic, since, observer>>

InTime(c) == asks[c] # 0 /\ monotonic - since[c] < Timeout

AskGranted(c) == /\ InTime(c)
                 /\ Granted(asks[c])
                 /\ Returns(c, "granted")

AskDenied(c) == /\ InTime(c)
                /\ Denied(asks[c])
                /\ UNCHANGED <<monotonic, asks, since, outcome, observer>>

TimesOut(c) == /\ asks[c] # 0 /\ monotonic - since[c] >= Timeout
               /\ Returns(c, "timeout")
               /\ UNCHANGED bucket

BucketTick == /\ monotonic < MaxTime
              /\ monotonic' = monotonic + 1
              /\ UNCHANGED <<bucket, asks, since, outcome, observer>>

Note == /\ ~noted
        /\ noted' = TRUE /\ noteTime' = monotonic /\ noteSpent' = spent
        /\ UNCHANGED <<monotonic, bucket, asks, since, outcome>>

-----------------------------------------------------------------------------

BucketInit == /\ monotonic = 0
              /\ tokens = Capacity /\ lastUpdate = 0 /\ spent = 0
              /\ asks = [c \in Clients |-> 0] /\ since = [c \in Clients |-> 0]
              /\ outcome = [c \in Clients |-> "none"]
              /\ noted = FALSE /\ noteTime = 0 /\ noteSpent = 0

Polls(c) == AskGranted(c) \/ AskDenied(c) \/ TimesOut(c)

BucketNext == \/ \E n \in 1..MaxAsk : AcquireTokens(n)
              \/ \E c \in Clients : Polls(c) \/ \E n \in 1..MaxAsk : AskTokens(c, n)
              \/ BucketTick \/ Note

BucketSpec == BucketInit /\ [][BucketNext]_bucketVars

-----------------------------------------------------------------------------

BucketTypeOK == /\ monotonic \in Nat
                /\ tokens \in 0..Capacity
                /\ lastUpdate \in 0..monotonic
                /\ asks \in [Clients -> 0..MaxAsk] /\ since \in [Clients -> 0..monotonic]
                /\ outcome \in [Clients -> {"none", "waiting", "granted", "timeout"}]
                /\ spent \in Nat
                /\ noted \in BOOLEAN /\ noteTime \in 0..monotonic /\ noteSpent \in 0..spent

(* In any window, from any instant on, no more tokens are handed out than  *)
(* the bucket holds and the rate refills.                                  *)
WindowBounded == noted => spent - noteSpent <= Capacity + (monotonic - noteTime) * Rate
=============================================================================
