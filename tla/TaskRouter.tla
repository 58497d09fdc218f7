----------------------------- MODULE TaskRouter -----------------------------
(***************************************************************************)
(* TaskRouter and the dispatch of one task (backend/app/agents/dispatcher, *)
(* router.py and dispatcher.py).  Rules can be added and removed while     *)
(* events are dispatched.  No source type or event type is in two of the   *)
(* default rules, so one member stands for the list of each, and "other"   *)
(* for what is in none.                                                    *)
(***************************************************************************)
EXTENDS Integers, Sequences, SequencesExt, FiniteSetsExt, StableOrder

CONSTANTS RoutedEvents,     \* the events that arrive, records as in Event
          RoutedFindings,   \* detection findings, [kind, matches, severity]
          CustomRules,      \* the rules that an operator may add
          RemovedNames,     \* the names of the rules that an operator may remove
          NoRoute,
          MaxAdded,         \* bound: rules ever added, the default ones not counted
          MaxTasks          \* bound: tasks ever dispatched

Conditions == {"always", "cidr", "ioc", "related", "severe"}

(* Severities are 0 (informational) to 4 (critical), priorities of tasks 1 *)
(* (low) to 4; `fields` are the event's optional fields, of its own or in  *)
(* its metadata, that a rule asks about.                                   *)
Event == [source : STRING, type : STRING, fields : SUBSET STRING, severity : 0..4]

Rule(name, agent, priority, sources, types, required, condition) ==
    [name |-> name, agent |-> agent, priority |-> priority, sources |-> sources,
     types |-> types, required |-> required, condition |-> condition, since |-> 0]

ASSUME RouterAssumption ==
    /\ MaxAdded \in Nat /\ \A e \in RoutedEvents : e.severity \in 0..4
    /\ \A r \in CustomRules :
          /\ r.priority \in Int
          /\ r = Rule(r.name, r.agent, r.priority, r.sources, r.types, r.required, r.condition)

VARIABLES rules,        \* _rules
          added,        \* rules added so far, to tell which of two came first
          taskIds,      \* ids drawn so far
          tracked,      \* ids under which the tracker knows tasks
          onTopic,      \* tasks on the agent tasks topic
          dispatched, routingFailures

routerVars == <<rules, added, taskIds, tracked, onTopic, dispatched, routingFailures>>

-----------------------------------------------------------------------------
(* The conditions of the default rules.                                    *)
Holds(condition, e) ==
    CASE condition = "always" -> TRUE
      [] condition = "cidr" -> "cidr" \in e.fields \/ e.type = "cidr_request"
      [] condition = "ioc" -> e.fields \cap {"ioc", "hash"} # {}
      [] condition = "related" -> "related" \in e.fields
      [] condition = "severe" -> e.severity >= 3

Matches(r, e) == /\ r.sources # {} => e.source \in r.sources
                 /\ r.types # {} => e.type \in r.types
                 /\ r.required \subseteq e.fields
                 /\ Holds(r.condition, e)

(* A stable sort by descending priority.                                   *)
ByPriority(list) == SortedBy(list, LAMBDA r : -r.priority)

SlipPutsFirst(list, r) == ByPriority(<<r>> \o list)

Placed(list, r) == ByPriority(Append(list, r))

(* Two rules without a list of source types match events of any source.    *)
DefaultRules == ByPriority(<<
       Rule("email_events", "email_verification", 100, {"email", "email_gateway"}, {"email"}, {}, "always"),
       Rule("auth_logs", "log_analyzer", 90, {"authentication", "syslog", "windows"}, {"login"}, {}, "always"),
       Rule("network_ids", "network_threat", 95, {"suricata", "ids"}, {"alert", "c2_communication"}, {}, "always"),
       Rule("ip_analysis", "ip_range_analyzer", 70, {}, {"cidr_request", "ip_analysis_request"}, {"source_ip"}, "cidr"),
       Rule("vulnerability", "vulnerability", 85, {"scanner"}, {"vulnerability"}, {}, "always"),
       Rule("ioc_match", "threat_intelligence", 92, {}, {"ioc_match", "malware_detected"}, {}, "ioc"),
       Rule("correlation", "correlation", 60, {}, {"attack_chain"}, {}, "related"),
       Rule("investigation", "investigation", 50, {}, {"incident", "data_exfiltration"}, {}, "severe"),
       Rule("application_logs", "log_analyzer", 40, {"application", "json"}, {"error"}, {}, "always")>>)

(* _get_default_agent().                                                   *)
DefaultAgent(source) ==
    CASE source = "email" -> "email_verification"
      [] source = "suricata" -> "network_threat"
      [] source \in {"authentication", "syslog", "application", "json"} -> "log_analyzer"
      [] OTHER -> NoRoute

(* The first rule of the list that matches, else the source's agent, else  *)
(* TaskRoutingError.                                                       *)
Route(e) == LET first == SelectInSeq(rules, LAMBDA r : Matches(r, e))
            IN  IF first > 0 THEN rules[first].agent ELSE DefaultAgent(e.source)

BoostedTypes == {"malware_detected", "data_exfiltration", "c2_communication"}

FromSeverity(severity) == IF severity = 0 THEN 1 ELSE severity

TaskPriority(e) == LET priority == FromSeverity(e.severity)
                   IN  IF e.type \in BoostedTypes /\ priority \in {1, 2}
                       THEN priority + 1 ELSE priority

-----------------------------------------------------------------------------

AddRule(r) ==
    /\ added < MaxAdded
    /\ added' = added + 1
    /\ rules' = Placed(rules, [r EXCEPT !.since = added + 1])
    /\ UNCHANGED <<taskIds, tracked, onTopic, dispatched, routingFailures>>

(* The first rule of that name goes.                                       *)
RemoveRule(name) ==
    LET n == SelectInSeq(rules, LAMBDA r : r.name = name)
    IN  /\ n > 0
        /\ rules' = RemoveAt(rules, n)
        /\ UNCHANGED <<added, taskIds, tracked, onTopic, dispatched, routingFailures>>

(* dispatch_to_agent() makes a task, the tracker makes another for it under *)
(* an id of its own, and the first one is published, in four tries that    *)
(* may all fail, with or without a copy that arrived.  process_task()      *)
(* counts what was published, a direct call does not.                      *)
Dispatch(agent, priority, publishes, direct) ==
    LET sent == onTopic \cup {[id |-> taskIds + 1, agent |-> agent, priority |-> priority]}
    IN  /\ taskIds + 2 <= 2 * MaxTasks
        /\ taskIds' = taskIds + 2
        /\ tracked' = tracked \cup {taskIds + 2}
        /\ onTopic' \in {sent} \cup (IF publishes THEN {} ELSE {onTopic})
        /\ dispatched' = IF publishes /\ ~direct THEN dispatched + 1 ELSE dispatched
        /\ UNCHANGED <<rules, added, routingFailures>>

DispatchEvent(e, publishes, direct) ==
    Route(e) # NoRoute /\ Dispatch(Route(e), TaskPriority(e), publishes, direct)

DispatchFails(e) == /\ Route(e) = NoRoute
                    /\ routingFailures < MaxTasks
                    /\ routingFailures' = routingFailures + 1
                    /\ UNCHANGED <<rules, added, taskIds, tracked, onTopic, dispatched>>

(* _determine_agent_for_finding(), of the kinds that its table tells apart. *)
AgentForFinding(f) ==
    CASE f.kind = "malicious" -> "threat_intelligence"
      [] f.kind = "network" -> "network_threat"
      [] f.kind = "vulnerability" -> "vulnerability"
      [] f.kind = "phishing" -> "email_verification"
      [] f.kind = "other" /\ f.matches > 1 -> "correlation"
      [] OTHER -> "log_analyzer"

(* A task's finding is high, one dispatched directly as its severity says. *)
DispatchFinding(f, publishes, direct) ==
    Dispatch(AgentForFinding(f), IF direct THEN FromSeverity(f.severity) ELSE 3,
             publishes, direct)

RouterInit == /\ rules = DefaultRules /\ added = 0
              /\ taskIds = 0 /\ tracked = {} /\ onTopic = {}
              /\ dispatched = 0 /\ routingFailures = 0

RouterNext ==
    \/ \E r \in CustomRules : AddRule(r)
    \/ \E name \in RemovedNames : RemoveRule(name)
    \/ \E publishes, direct \in BOOLEAN :
          \/ \E e \in RoutedEvents : DispatchEvent(e, publishes, direct)
          \/ \E f \in RoutedFindings : DispatchFinding(f, publishes, direct)
    \/ \E e \in RoutedEvents : DispatchFails(e)

RouterSpec == RouterInit /\ [][RouterNext]_routerVars

-----------------------------------------------------------------------------
(* Whatever order rules were added and removed in, an event goes to the    *)
(* agent of a matching rule that no other matching rule outranks, and of   *)
(* those of one priority to that of the rule that was there first; no task *)
(* counts as dispatched that is not on the topic, and a graver event never *)
(* makes a less urgent task than a milder one of its kind.                 *)
RoutesByPriority ==
    /\ \A e \in RoutedEvents :
          LET fits == {n \in DOMAIN rules : Matches(rules[n], e)}
              top == {n \in fits : \A m \in fits : rules[m].priority <= rules[n].priority}
          IN  fits # {} => \E n \in top : /\ Route(e) = rules[n].agent
                                          /\ \A m \in top : rules[n].since <= rules[m].since
    /\ dispatched <= Cardinality(onTopic)
    /\ \A e, f \in RoutedEvents : (e.type = f.type /\ e.severity > f.severity) =>
          TaskPriority(e) >= TaskPriority(f)

(* "Track task status" (dispatcher.py:38): the tracker knows every task    *)
(* that the agents get.                                                    *)
PublishedIsTracked == {task.id : task \in onTopic} \subseteq tracked
=============================================================================
