----------------------------- MODULE MCServices -----------------------------
(***************************************************************************)
(* What the agents and the pipeline call on: the lock and the rate limit   *)
(* in Redis, the broker manager, the primitives of a PerformanceOptimizer  *)
(* (token bucket, circuit breaker, cache) and the connection pool, threat  *)
(* intelligence, incidents and evaluation.  They share nothing, so one run *)
(* follows each of them on its own.                                        *)
(***************************************************************************)
EXTENDS RedisManager, BrokerManager, ThreatIntel, Incidents, Evaluation,
        TokenBucket, CircuitBreaker, LruCache, ConnectionPool

VARIABLE subject

serviceVars == <<lockVars, windowVars, brokerVars, intelVars, incidentVars, evaluationVars,
                 bucketVars, breakerVars, cacheVars, poolVars, subject>>

ServicesInit == /\ LockInit /\ WindowInit /\ BrokerInit /\ IntelInit /\ IncidentInit
                /\ EvaluationInit /\ BucketInit /\ BreakerInit /\ CacheInit /\ PoolInit
                /\ subject \in {"lock", "window", "broker", "intel", "incidents", "evaluation",
                                "bucket", "breaker", "cache", "pool"}

(* One of them goes on, the others stay as they are.                       *)
Only(s) == /\ subject = s /\ UNCHANGED subject
           /\ s # "lock" => UNCHANGED lockVars
           /\ s # "window" => UNCHANGED windowVars
           /\ s # "broker" => UNCHANGED brokerVars
           /\ s # "intel" => UNCHANGED intelVars
           /\ s # "incidents" => UNCHANGED incidentVars
           /\ s # "evaluation" => UNCHANGED evaluationVars
           /\ s # "bucket" => UNCHANGED bucketVars
           /\ s # "breaker" => UNCHANGED breakerVars
           /\ s # "cache" => UNCHANGED cacheVars
           /\ s # "pool" => UNCHANGED poolVars

ServicesNext == \/ Only("lock") /\ LockNext
                \/ Only("window") /\ WindowNext
                \/ Only("broker") /\ BrokerNext
                \/ Only("intel") /\ IntelNext
                \/ Only("incidents") /\ IncidentNext
                \/ Only("evaluation") /\ EvaluationNext
                \/ Only("bucket") /\ BucketNext
                \/ Only("breaker") /\ BreakerNext
                \/ Only("cache") /\ CacheNext
                \/ Only("pool") /\ PoolNext

(* The fairness of the broker manager and of the breaker.                  *)
ServicesSpec ==
    /\ ServicesInit /\ [][ServicesNext]_serviceVars
    /\ \A c \in Coroutines : WF_serviceVars(Only("broker") /\ Proceeds(c))
    /\ WF_serviceVars(Only("breaker") /\ BreakerTick)
    /\ \A c \in Callers : /\ WF_serviceVars(Only("breaker") /\ Admit(c))
                           /\ WF_serviceVars(Only("breaker") /\ (Succeed(c) \/ Fail(c)))

-----------------------------------------------------------------------------
(* Of what is kept nothing is lost or counted twice: no counter, clock,    *)
(* timeline or queue of any of them leaves its bounds; the cache never     *)
(* outgrows max_size, and without misuse what it evicts was used longer    *)
(* ago than all that stays; no connection is in two hands; the matrices    *)
(* and samples of two benchmark runs balance however they overlap.         *)
ServicesConsistent ==
    /\ LockTypeOK /\ WindowTypeOK /\ BrokerTypeOK /\ IntelTypeOK /\ IncidentTypeOK
    /\ EvaluationTypeOK /\ BucketTypeOK /\ BreakerTypeOK /\ CacheTypeOK /\ PoolTypeOK
    /\ SizeBounded /\ EvictsLeastRecentOnMiss /\ OneOwner /\ EachCountedOnce
=============================================================================
