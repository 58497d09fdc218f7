---------------------------- MODULE LogAnalyzer ----------------------------
(***************************************************************************)
(* LogAnalyzerAgent (backend/app/agents/specialized/log_analyzer.py): per  *)
(* source it keeps when logins failed and when requests came, by its own   *)
(* clock, and analyses a task's events one after another.  An event that   *)
(* it cannot read makes the whole task fail, but what the events before it *)
(* added stays, and a task that is tried again adds it again.              *)
(***************************************************************************)
EXTENDS Integers, Sequences, SequencesExt, FiniteSetsExt, StableOrder

CONSTANTS LogTasks,         \* the tasks, sequences of records as in LogEvent
          LogKeys,
          BruteThreshold, BruteWindow, RateThreshold, RateWindow,
          BaselineRequests, \* 10 in the code
          AnomalyFactor,    \* anomaly_zscore_threshold
          MaxAnalyses, MaxLogTime  \* bounds: tasks analysed, the clock

(* What the analysis of an event turns on: `key` is the source address or, *)
(* without one, the user, one of which it names; `flaw` is where reading   *)
(* it raises, if anywhere.                                                 *)
LogEvent == [id : STRING, key : LogKeys, hasAddress : BOOLEAN, failure : BOOLEAN,
             privilege : BOOLEAN, offHours : BOOLEAN, flaw : {"none", "data", "time"}]

ASSUME LogAssumption == /\ {BruteThreshold, RateThreshold, BaselineRequests, AnomalyFactor} \subseteq Nat \ {0}
                        /\ {BruteWindow, RateWindow} \subseteq Nat /\ LogTasks \subseteq Seq(LogEvent)

VARIABLES logTime,
          failures,     \* _auth_failures
          accesses,     \* _access_counts
          logAnswer,    \* the last AgentResult
          analyses,     \* tasks analysed
          everFailed    \* every failure ever counted, per key: never trimmed

logVars == <<logTime, failures, accesses, logAnswer, analyses, everFailed>>

NoAnswer == [status |-> "none", alarms |-> {}, events |-> {}, severity |-> 0, at |-> 0]

-----------------------------------------------------------------------------
SlipKeepsTooLong(times, window) ==
    Those(Append(times, logTime), LAMBDA t : t >= logTime - window - 1)

(* Appended, then what is older than the window goes, of this key only.    *)
Tracked(times, window) == Those(Append(times, logTime), LAMBDA t : t >= logTime - window)

(* An alarm as its finding tells it; severities are 1 (low) to 3 (high).   *)
Alarm(kind, severity, e, count) ==
    [kind |-> kind, severity |-> severity, key |-> e.key, event |-> e.id, count |-> count]

(* Each check takes what the checks before it made of the agent's state,   *)
(* a record of the two tables, the alarms so far and whether one raised.   *)
CheckBruteForce(s, e) ==
    IF ~e.failure THEN s
    ELSE LET times == Tracked(s.failures[e.key], BruteWindow)
         IN  [s EXCEPT !.failures[e.key] = times,
                       !.everFailed[e.key] = Append(@, logTime),
                       !.alarms = IF Len(times) >= BruteThreshold
                                  THEN Append(@, Alarm("brute_force", 3, e, Len(times))) ELSE @]

CheckPrivilegeEscalation(s, e) ==
    IF e.privilege THEN [s EXCEPT !.alarms = Append(@, Alarm("privilege", 2, e, 1))] ELSE s

CheckRateLimit(s, e) ==
    IF ~e.hasAddress THEN s
    ELSE LET times == Tracked(s.accesses[e.key], RateWindow)
         IN  [s EXCEPT !.accesses[e.key] = times,
                       !.alarms = IF Len(times) >= RateThreshold
                                  THEN Append(@, Alarm("rate", 2, e, Len(times))) ELSE @]

CheckOffHours(s, e) ==
    IF e.offHours THEN [s EXCEPT !.alarms = Append(@, Alarm("off_hours", 1, e, 1))] ELSE s

(* The mean over the features there are of the deviation from the baseline *)
(* in baselines, over the factor and at most 1, is at least 1 / factor:    *)
(* multiplied out.  It takes the failures as they were last trimmed.       *)
IsAnomaly(s, e) ==
    LET offBy == Len(s.accesses[e.key]) - BaselineRequests
        misses == Len(s.failures[e.key])
        parts == (IF e.hasAddress THEN <<Min({Max({offBy, -offBy}), BaselineRequests * AnomalyFactor})>> ELSE <<>>)
                 \o (IF misses > 0 THEN <<BaselineRequests * Min({misses - 1, AnomalyFactor})>> ELSE <<>>)
    IN  parts # <<>> /\ FoldLeft(+, 0, parts) >= Len(parts) * BaselineRequests

CheckAnomaly(s, e) ==
    IF IsAnomaly(s, e) THEN [s EXCEPT !.alarms = Append(@, Alarm("anomaly", 2, e, 1))] ELSE s

(* The body of the loop; an event without readable data raises before it   *)
(* is counted, one with a timestamp of a wrong type after.                 *)
AnalyzeEvent(s, e) ==
    IF s.raised \/ e.flaw = "data" THEN [s EXCEPT !.raised = TRUE]
    ELSE LET counted == CheckRateLimit(CheckPrivilegeEscalation(CheckBruteForce(s, e), e), e)
         IN  IF e.flaw = "time" THEN [counted EXCEPT !.raised = TRUE]
             ELSE CheckAnomaly(CheckOffHours(counted, e), e)

(* _aggregate_findings(): the worst of the findings, the first of several  *)
(* that are, tells of the events of all.                                   *)
Aggregated(s) ==
    IF s.raised THEN [NoAnswer EXCEPT !.status = "failed", !.at = logTime]
    ELSE IF s.alarms = <<>> THEN [NoAnswer EXCEPT !.status = "partial", !.at = logTime]
    ELSE LET alarms == ToSet(s.alarms)
         IN  [status |-> "success", alarms |-> alarms, events |-> {a.event : a \in alarms},
              severity |-> Max({a.severity : a \in alarms}), at |-> logTime]

ProcessLogs(task) ==
    /\ analyses < MaxAnalyses /\ analyses' = analyses + 1
    /\ LET s == FoldLeft(AnalyzeEvent, [failures |-> failures, accesses |-> accesses,
                                        everFailed |-> everFailed, alarms |-> <<>>, raised |-> FALSE], task)
       IN  /\ failures' = s.failures
           /\ accesses' = s.accesses
           /\ everFailed' = s.everFailed
           /\ logAnswer' = Aggregated(s)
    /\ UNCHANGED logTime

LogTimePasses == logTime < MaxLogTime /\ logTime' = logTime + 1
                 /\ UNCHANGED <<failures, accesses, logAnswer, analyses, everFailed>>

LogInit == /\ logTime = 0 /\ logAnswer = NoAnswer /\ analyses = 0
           /\ failures = [k \in LogKeys |-> <<>>] /\ accesses = [k \in LogKeys |-> <<>>]
           /\ everFailed = [k \in LogKeys |-> <<>>]

LogNext == (\E task \in LogTasks : ProcessLogs(task)) \/ LogTimePasses

LogSpec == LogInit /\ [][LogNext]_logVars

-----------------------------------------------------------------------------
(* How many of some times are in the window at t; the failures of a key.   *)
InWindow(times, t) == Cardinality({n \in DOMAIN times : times[n] \in (t - BruteWindow)..t})

FailedWithin(k, t) == InWindow(everFailed[k], t)

(* An alarm of guessed passwords is timely and of one source: it counts    *)
(* the failures of that key in the window and no others, whatever tasks    *)
(* failed or were idle in between; what a task reports is as severe as its *)
(* worst alarm and names the event of each of them.                        *)
AlarmsAreTimely ==
    /\ \A k \in LogKeys : failures[k] # <<>> =>
          LET last == failures[k][Len(failures[k])]
          IN  Len(failures[k]) = FailedWithin(k, last)
    /\ \A a \in logAnswer.alarms :
          /\ a.kind = "brute_force" => /\ a.count >= BruteThreshold
                                       /\ a.count <= FailedWithin(a.key, logAnswer.at)
          /\ a.severity <= logAnswer.severity
          /\ a.event \in logAnswer.events
=============================================================================
