----------------------------- MODULE RedisManager -----------------------------
(***************************************************************************)
(* Two users of Redis in backend/app/core/redis.py, which share no key.    *)
(***************************************************************************)
EXTENDS Integers, FiniteSets

(* acquire_lock() and release_lock() of backend/app/core/redis.py: a key   *)
(* in Redis that the first SET NX EX writes a fresh token to, that expires *)
(* after timeout_seconds, and that a script deletes if it still has the    *)
(* caller's token.  A command is asked for, executed by Redis and answered *)
(* in three steps; it may be lost on the way, and so may its answer.       *)
(*                                                                         *)
(* Nothing tells a holder that its key has expired.  `age` is the time     *)
(* since it asked for the lock, which is all it could measure itself.      *)

CONSTANTS Holders, Free,
          LeaseTime,     \* timeout_seconds
          MaxAcquires    \* bound: acquire_lock() calls of one holder

ASSUME LockAssumption == /\ LeaseTime \in Nat \ {0} /\ MaxAcquires \in Nat
                         /\ Free \notin Holders \X Nat

VARIABLES key,      \* lock:<name>: the token in it, or Free
          ttl,      \* of the key
          phase,    \* what each holder is doing
          token,    \* the token of each holder: <<holder, its call>>
          age       \* the time since its acquire_lock(), up to LeaseTime

lockVars == <<key, ttl, phase, token, age>>

Token(h) == <<h, token[h]>>
Holds(h) == phase[h] = "holds"
Turns(h, to) == phase' = [phase EXCEPT ![h] = to]

-----------------------------------------------------------------------------
(* acquire_lock() *)

Acquire(h) == /\ phase[h] = "idle"
              /\ token[h] < MaxAcquires
              /\ token' = [token EXCEPT ![h] = @ + 1]
              /\ age' = [age EXCEPT ![h] = 0]
              /\ Turns(h, "asks")
              /\ UNCHANGED <<key, ttl>>

SlipNotExclusive(h) ==
    /\ phase[h] = "asks"
    /\ key' = Token(h) /\ ttl' = LeaseTime /\ Turns(h, "granted")
    /\ UNCHANGED <<token, age>>

(* SET key token EX timeout NX *)
SetIfFree(h) ==
    /\ phase[h] = "asks"
    /\ \/ key = Free /\ key' = Token(h) /\ ttl' = LeaseTime /\ Turns(h, "granted")
       \/ key # Free /\ Turns(h, "refused") /\ UNCHANGED <<key, ttl>>
    /\ UNCHANGED <<token, age>>

(* The answer arrives; or an exception makes it None, and whatever Redis   *)
(* did stays done.                                                         *)
Answered(h) == /\ \/ phase[h] = "granted" /\ Turns(h, "holds")
                  \/ phase[h] \in {"asks", "granted", "refused"} /\ Turns(h, "idle")
               /\ UNCHANGED <<key, ttl, token, age>>

-----------------------------------------------------------------------------
(* release_lock(), by a holder whose key may have expired. *)

Release(h) == /\ Holds(h)
              /\ Turns(h, "releases")
              /\ UNCHANGED <<key, ttl, token, age>>

SlipDeletesAny(h) == /\ phase[h] = "releases"
                     /\ key' = Free /\ ttl' = 0
                     /\ Turns(h, "idle")
                     /\ UNCHANGED <<token, age>>

(* The script: get, compare and delete in one. *)
DeleteIfOwn(h) == /\ phase[h] = "releases"
                  /\ \/ key = Token(h) /\ key' = Free /\ ttl' = 0
                     \/ key # Token(h) /\ UNCHANGED <<key, ttl>>
                  /\ Turns(h, "idle")
                  /\ UNCHANGED <<token, age>>

(* The script never reached Redis: release_lock() returns False.           *)
ReleaseLost(h) == /\ phase[h] = "releases"
                  /\ Turns(h, "idle")
                  /\ UNCHANGED <<key, ttl, token, age>>

-----------------------------------------------------------------------------
(* Time passes, and Redis drops the key when its time is over.             *)

LockTick ==
    /\ age' = [h \in Holders |-> IF age[h] < LeaseTime THEN age[h] + 1 ELSE age[h]]
    /\ \/ ttl > 1 /\ ttl' = ttl - 1 /\ UNCHANGED key
       \/ ttl <= 1 /\ ttl' = 0 /\ key' = Free
    /\ <<age, ttl, key>>' # <<age, ttl, key>>
    /\ UNCHANGED <<phase, token>>

LockInit == /\ key = Free /\ ttl = 0
            /\ phase = [h \in Holders |-> "idle"]
            /\ token = [h \in Holders |-> 0]
            /\ age = [h \in Holders |-> LeaseTime]

LockNext == \/ \E h \in Holders : \/ Acquire(h) \/ SetIfFree(h) \/ Answered(h)
                                  \/ Release(h) \/ DeleteIfOwn(h) \/ ReleaseLost(h)
            \/ LockTick

LockSpec == LockInit /\ [][LockNext]_lockVars

-----------------------------------------------------------------------------

LockTypeOK == /\ key \in {Free} \cup (Holders \X Nat)
              /\ ttl \in 0..LeaseTime
              /\ phase \in [Holders -> {"idle", "asks", "granted", "refused", "holds", "releases"}]
              /\ token \in [Holders -> Nat]
              /\ age \in [Holders -> 0..LeaseTime]

(* "Acquire distributed lock": no two holders are at work at once, as long *)
(* as each stops when timeout_seconds are over since it asked for the lock *)
(* (not since it was told it has it), whatever answers are late or lost.   *)
LeasesExclude ==
    \A h, i \in Holders :
        h # i /\ Holds(h) /\ Holds(i) => LeaseTime \in {age[h], age[i]}

(* "Release distributed lock only if token matches": the key never leaves  *)
(* the one that holds it by anything but its own release, or expiry; in    *)
(* particular a holder that releases late takes nothing from the next.     *)
OnlyOwnRelease ==
    [][key # Free /\ key' # key =>
          ttl = 1 \/ \E h \in Holders : Token(h) = key /\ phase[h] = "releases"]_lockVars

-----------------------------------------------------------------------------
(* check_rate_limit() of backend/app/core/redis.py: a sorted set in Redis  *)
(* with a timestamp for every request of one identifier.  The time of a    *)
(* request is read before the client is awaited, so the pipeline of a      *)
(* request may run after one with a later time.  A pipeline is atomic.     *)
(* The expiry of the key only drops what is out of every window.           *)

CONSTANTS Requests,
          Limit,        \* limit
          Window,       \* window_seconds, in ticks
          MaxDelay,     \* ticks between a request's time and its pipeline
          MaxNow        \* bound: the clock stops here

ASSUME WindowAssumption == /\ IsFiniteSet(Requests)
                           /\ Limit \in Nat /\ Window \in Nat \ {0}
                           /\ MaxDelay \in Nat /\ MaxNow \in Nat

VARIABLES now,
          stamp,        \* the time each request read; -1 before it asks
          zset,         \* the requests in the sorted set
          answer        \* what check_rate_limit() returned: is_allowed

windowVars == <<now, stamp, zset, answer>>

Waiting(r) == stamp[r] >= 0 /\ answer[r] = "none"

Ask(r) == /\ stamp[r] = -1
          /\ stamp' = [stamp EXCEPT ![r] = now]
          /\ UNCHANGED <<now, zset, answer>>

SlipCountsBefore(r) ==
    LET kept == {q \in zset : stamp[q] > stamp[r] - Window}
    IN  /\ Waiting(r)
        /\ zset' = kept \cup {r}
        /\ answer' = [answer EXCEPT ![r] = IF Cardinality(kept) <= Limit THEN "allowed" ELSE "refused"]
        /\ UNCHANGED <<now, stamp>>

(* zremrangebyscore, zadd, zcard, expire: a refused request is in the set, *)
(* and counts, like one that was allowed.                                  *)
Pipeline(r) ==
    LET kept == {q \in zset : stamp[q] > stamp[r] - Window} \cup {r}
    IN  /\ Waiting(r)
        /\ zset' = kept
        /\ answer' = [answer EXCEPT ![r] = IF Cardinality(kept) <= Limit THEN "allowed" ELSE "refused"]
        /\ UNCHANGED <<now, stamp>>

(* The pipeline raises, executed or not: "Fail open". *)
FailOpen(r) ==
    /\ Waiting(r)
    /\ zset' \in {zset, {q \in zset : stamp[q] > stamp[r] - Window} \cup {r}}
    /\ answer' = [answer EXCEPT ![r] = "open"]
    /\ UNCHANGED <<now, stamp>>

WindowTick == /\ now < MaxNow
              /\ \A r \in Requests : Waiting(r) => now < stamp[r] + MaxDelay
              /\ now' = now + 1
              /\ UNCHANGED <<stamp, zset, answer>>

WindowInit == /\ now = 0
              /\ stamp = [r \in Requests |-> -1]
              /\ zset = {}
              /\ answer = [r \in Requests |-> "none"]

WindowNext == \/ \E r \in Requests : Ask(r) \/ Pipeline(r) \/ FailOpen(r)
              \/ WindowTick

WindowSpec == WindowInit /\ [][WindowNext]_windowVars

-----------------------------------------------------------------------------

WindowTypeOK == /\ now \in 0..MaxNow
                /\ stamp \in [Requests -> -1..MaxNow]
                /\ zset \subseteq Requests
                /\ answer \in [Requests -> {"none", "allowed", "refused", "open"}]

Allowed(first, last) == {r \in Requests : answer[r] = "allowed" /\ stamp[r] \in first..last}

(* What the limit promises whatever overtakes what: of the requests it let *)
(* through, no window less the delay has more than `limit`.                *)
LimitHoldsLessDelay ==
    \A t \in 0..MaxNow : Cardinality(Allowed(t - Window + 1 + MaxDelay, t)) <= Limit
=============================================================================
