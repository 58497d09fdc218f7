--------------------------- MODULE CircuitBreaker ---------------------------
(***************************************************************************)
(* CircuitBreaker of backend/app/performance/__init__.py between callers   *)
(* that ask can_execute(), do their work, and report how it went.  The     *)
(* methods are synchronous, but the work of several callers overlaps, so   *)
(* a report may come long after the state it was admitted in is gone.      *)
(* The clock is the time since the last failure, as far as it matters: up  *)
(* to the recovery timeout.  Likewise failure_count is not told apart from *)
(* the threshold on, where nothing depends on its value any more.          *)
(***************************************************************************)
EXTENDS Integers

CONSTANTS Callers,
          FailureThreshold,     \* failure_threshold
          RecoveryTimeout,      \* recovery_timeout, in ticks
          HalfOpenRequests,     \* half_open_requests
          MaxStreak             \* bound: the histories count this far

ASSUME BreakerAssumption == /\ FailureThreshold \in Nat \ {0}
                            /\ RecoveryTimeout \in Nat
                            /\ HalfOpenRequests \in Nat \ {0}
                            /\ MaxStreak \in Nat
                            /\ FailureThreshold <= MaxStreak
                            /\ HalfOpenRequests <= MaxStreak

VARIABLES state,
          failureCount,         \* failure_count
          halfOpenSuccesses,    \* half_open_successes
          sinceFailure,         \* monotonic() - last_failure_time; -1 before any failure
          working,              \* callers admitted that have not reported yet
          healthy,              \* whether the callee works
          successes, failures   \* history: reports of one kind in a row, up to now

breakerVars == <<state, failureCount, halfOpenSuccesses, sinceFailure, working, healthy,
          successes, failures>>

UpTo(bound, n) == IF n < bound THEN n ELSE bound

-----------------------------------------------------------------------------

(* can_execute() returning True. *)
CanExecute ==
    \/ state \in {"closed", "half_open"} /\ UNCHANGED <<state, halfOpenSuccesses>>
    \/ /\ state = "open"
       /\ sinceFailure >= RecoveryTimeout
       /\ state' = "half_open"
       /\ halfOpenSuccesses' = 0

Admit(c) == /\ c \notin working
            /\ CanExecute
            /\ working' = working \cup {c}
            /\ UNCHANGED <<failureCount, sinceFailure, healthy, successes, failures>>

(* can_execute() returning False changes nothing: no step.                 *)

SlipNeverCloses ==
    \/ state = "half_open" /\ halfOpenSuccesses' = UpTo(HalfOpenRequests, halfOpenSuccesses + 1)
         /\ UNCHANGED <<state, failureCount>>
    \/ state = "closed" /\ failureCount' = 0 /\ UNCHANGED <<state, halfOpenSuccesses>>
    \/ state = "open" /\ UNCHANGED <<state, failureCount, halfOpenSuccesses>>

SlipNoReset ==
    \/ /\ state = "half_open"
       /\ halfOpenSuccesses' = halfOpenSuccesses + 1
       /\ \/ /\ halfOpenSuccesses + 1 >= HalfOpenRequests
             /\ state' = "closed"
             /\ failureCount' = 0
          \/ /\ halfOpenSuccesses + 1 < HalfOpenRequests
             /\ UNCHANGED <<state, failureCount>>
    \/ state \in {"open", "closed"} /\ UNCHANGED <<state, failureCount, halfOpenSuccesses>>

(* record_success() *)
RecordSuccess ==
    \/ /\ state = "half_open"
       /\ halfOpenSuccesses' = halfOpenSuccesses + 1
       /\ \/ /\ halfOpenSuccesses + 1 >= HalfOpenRequests
             /\ state' = "closed"
             /\ failureCount' = 0
          \/ /\ halfOpenSuccesses + 1 < HalfOpenRequests
             /\ UNCHANGED <<state, failureCount>>
    \/ state = "closed" /\ failureCount' = 0 /\ UNCHANGED <<state, halfOpenSuccesses>>
    \/ state = "open" /\ UNCHANGED <<state, failureCount, halfOpenSuccesses>>

(* record_failure() *)
RecordFailure ==
    /\ failureCount' = UpTo(FailureThreshold, failureCount + 1)
    /\ sinceFailure' = 0
    /\ state' = IF state = "half_open" \/ failureCount + 1 >= FailureThreshold
                THEN "open" ELSE state
    /\ UNCHANGED halfOpenSuccesses

Succeed(c) == /\ c \in working
              /\ RecordSuccess
              /\ working' = working \ {c}
              /\ successes' = UpTo(MaxStreak, successes + 1)
              /\ failures' = 0
              /\ UNCHANGED <<sinceFailure, healthy>>

Fail(c) == /\ c \in working /\ ~healthy
           /\ RecordFailure
           /\ working' = working \ {c}
           /\ failures' = UpTo(MaxStreak, failures + 1)
           /\ successes' = 0
           /\ UNCHANGED healthy

BreakerTick == /\ sinceFailure \in 0..(RecoveryTimeout - 1)
               /\ sinceFailure' = sinceFailure + 1
               /\ UNCHANGED <<state, failureCount, halfOpenSuccesses, working, healthy,
                              successes, failures>>

(* The callee breaks and is repaired. *)
Health == /\ healthy' = ~healthy
          /\ UNCHANGED <<state, failureCount, halfOpenSuccesses, sinceFailure, working,
                         successes, failures>>

-----------------------------------------------------------------------------

BreakerInit == /\ state = "closed"
               /\ failureCount = 0 /\ halfOpenSuccesses = 0
               /\ sinceFailure = -1
               /\ working = {} /\ healthy = TRUE
               /\ successes = 0 /\ failures = 0

BreakerNext == \/ \E c \in Callers : Admit(c) \/ Succeed(c) \/ Fail(c)
               \/ BreakerTick \/ Health

BreakerSpec == BreakerInit /\ [][BreakerNext]_breakerVars

-----------------------------------------------------------------------------

BreakerTypeOK == /\ state \in {"closed", "open", "half_open"}
                 /\ failureCount \in 0..FailureThreshold
                 /\ halfOpenSuccesses \in 0..HalfOpenRequests
                 /\ sinceFailure \in -1..RecoveryTimeout
                 /\ working \subseteq Callers
                 /\ healthy \in BOOLEAN
                 /\ successes \in 0..MaxStreak /\ failures \in 0..MaxStreak

(* A closed breaker counts exactly the failures in a row, below the        *)
(* threshold; an open one has failed, so its recovery timeout runs; and a  *)
(* half-open one counts no more successes than there were in a row.        *)
CountsAreStreaks ==
    /\ state = "closed" => failureCount = failures /\ failureCount < FailureThreshold
    /\ state # "closed" => sinceFailure >= 0
    /\ state = "half_open" => halfOpenSuccesses <= successes
                              /\ halfOpenSuccesses < HalfOpenRequests

(* A breaker opens from closed only after failure_threshold failures in a  *)
(* row, and closes only after half_open_requests successes in a row, even  *)
(* though reports arrive from callers admitted in any earlier state.       *)
TripsOnStreaks ==
    [][/\ state = "closed" /\ state' = "open" => failures' >= FailureThreshold
       /\ state # "closed" /\ state' = "closed" => successes' >= HalfOpenRequests]_breakerVars

(* The breaker is never stuck: once the callee works for good, it closes   *)
(* for good.                                                               *)
RecoversWhenHealthy == <>[]healthy => <>[](state = "closed")
=============================================================================
