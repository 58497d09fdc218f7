--------------------------- MODULE Prioritization ---------------------------
(***************************************************************************)
(* IncidentPrioritizationAgent (backend/app/agents/specialized/            *)
(* incident_prioritization.py): what a task says of an incident is put     *)
(* together, weighed and turned into a priority with its deadlines.  The   *)
(* list of event types it works on is the one of the incident it was       *)
(* given, so a caller that keeps an incident gets it back with more types. *)
(***************************************************************************)
EXTENDS Integers, Sequences, FiniteSetsExt

CONSTANTS Cases,            \* incidents that a caller holds, as in Case
          CaseFindings,     \* findings that come with them or alone
          NoFindingGiven,
          NotANumber        \* a count that the caller gives as a list

(* Severities 0 to 4; types and tactics by the words the agent looks for.  *)
Case == [severity : 0..4, assets : Nat \cup {NotANumber}, users : Nat \cup {NotANumber},
         types : SUBSET STRING, tactics : SUBSET STRING]

(* A confidence is checked by RiskFactor to be in 0..1.                    *)
ASSUME PrioritizationAssumption ==
    /\ Cases \subseteq Case
    /\ CaseFindings \subseteq [severity : 0..4, confidence : 0..100, type : STRING]
    /\ NoFindingGiven \notin CaseFindings
    /\ NotANumber \notin Nat

VARIABLES held,             \* the incident of the caller
          verdict           \* the last result, with the data it comes from

prioritizationVars == <<held, verdict>>

-----------------------------------------------------------------------------
(* The defaults, over which the incident's fields go if there is one.      *)
FromIncident(given) ==
    IF given THEN [confidence |-> 50, severity |-> held.severity, assets |-> held.assets,
                   users |-> held.users, types |-> held.types, tactics |-> held.tactics]
    ELSE [confidence |-> 50, severity |-> 2, assets |-> 1, users |-> 0, types |-> {}, tactics |-> {}]

WithFinding(data, f) ==
    IF f = NoFindingGiven THEN data
    ELSE [data EXCEPT !.severity = f.severity, !.confidence = f.confidence, !.types = @ \cup {f.type}]

WithEvent(data, e) ==
    IF e = NoFindingGiven THEN data
    ELSE [data EXCEPT !.severity = e.severity, !.types = @ \cup {e.type}]

WithFindings(data, fs) ==
    [data EXCEPT !.severity = Max({@} \cup {f.severity : f \in fs}), !.types = @ \cup {f.type : f \in fs}]

ExtractIncidentData(given, finding, event, findings) ==
    WithFindings(WithEvent(WithFinding(FromIncident(given), finding), event), findings)

-----------------------------------------------------------------------------
(* Scores, in hundredths.                                                  *)
SeverityScore(severity) == <<10, 30, 50, 80, 100>>[severity + 1]

TacticScore(t) == CASE t = "reconnaissance" -> 20
                    [] t = "initial-access" -> 40
                    [] t \in {"lateral-movement", "command-and-control"} -> 80
                    [] t = "exfiltration" -> 95
                    [] t = "impact" -> 100
                    [] OTHER -> 50

SlipOneTactic(tactics) == IF tactics = {} THEN 30 ELSE Min({TacticScore(t) : t \in tactics})

StageScore(tactics) == IF tactics = {} THEN 30 ELSE Max({TacticScore(t) : t \in tactics})

DataScore(data) == IF "exfiltration" \in data.tactics THEN 90
                   ELSE IF "credential" \in data.types THEN 80 ELSE 50

(* Five of the eight factors that have a weight: their weights sum to 65.  *)
(* The score in tenths of a point, rounded to one.                         *)
Weighted(data) == 25 * SeverityScore(data.severity) + 10 * Min({10 * data.assets, 100})
                  + 10 * StageScore(data.tactics) + 5 * data.confidence + 15 * DataScore(data)
RiskTenths(data) == (20 * Weighted(data) + 65) \div 130

DeterminePriority(risk) == IF risk >= 850 THEN 1 ELSE IF risk >= 700 THEN 2
                           ELSE IF risk >= 500 THEN 3 ELSE IF risk >= 300 THEN 4 ELSE 5

(* SLA_DEFINITIONS in minutes: first response, escalation, containment,    *)
(* resolution.                                                             *)
Sla(priority) == << <<15, 30, 60, 240>>, <<30, 60, 240, 1440>>, <<60, 120, 480, 4320>>,
                    <<240, 480, 1440, 10080>>, <<1440, 2880, 4320, 20160>> >>[priority]

(* The first kind that fits, in this order.                                *)
ClassifyIncident(data) ==
    LET has(type) == type \in data.types
    IN  IF has("ransomware") THEN "ransomware"
        ELSE IF has("phishing") THEN "phishing"
        ELSE IF has("malware") THEN "malware"
        ELSE IF "exfiltration" \in data.tactics \/ has("breach") THEN "data_breach"
        ELSE IF has("unauthorized") THEN "unauthorized_access"
        ELSE IF has("dos") THEN "denial_of_service"
        ELSE IF has("insider") THEN "insider_threat"
        ELSE IF "reconnaissance" \in data.tactics THEN "reconnaissance"
        ELSE IF data.tactics \cap {"command-and-control", "lateral-movement"} # {}
        THEN "advanced_persistent_threat"
        ELSE "other"

AssetCriticality(assets) == IF assets >= 10 THEN 4 ELSE IF assets >= 5 THEN 3
                            ELSE IF assets >= 2 THEN 2 ELSE 1

Escalates(data) ==
    \/ RiskTenths(data) >= 900
    \/ AssetCriticality(data.assets) = 4
    \/ ClassifyIncident(data) \in {"ransomware", "advanced_persistent_threat", "data_breach"}

(* Dividing or comparing a list raises.                                    *)
Prioritized(data) ==
    IF NotANumber \in {data.assets, data.users} THEN [status |-> "failed", data |-> data]
    ELSE LET priority == DeterminePriority(RiskTenths(data))
         IN  [status |-> "success", data |-> data, risk |-> RiskTenths(data), priority |-> priority,
              sla |-> Sla(priority), severity |-> 5 - priority, class |-> ClassifyIncident(data),
              criticality |-> AssetCriticality(data.assets), escalates |-> Escalates(data)]

-----------------------------------------------------------------------------
Prioritize(given, finding, event, findings) ==
    LET data == ExtractIncidentData(given, finding, event, findings)
    IN  /\ verdict' = Prioritized(data)
        /\ held' = IF given THEN [held EXCEPT !.types = data.types] ELSE held

PrioritizationInit == held \in Cases /\ verdict = [status |-> "none"]

PrioritizationNext ==
    \E given \in BOOLEAN, finding \in CaseFindings \cup {NoFindingGiven},
       event \in CaseFindings \cup {NoFindingGiven}, findings \in SUBSET CaseFindings :
        Prioritize(given, finding, event, findings)

PrioritizationSpec == PrioritizationInit /\ [][PrioritizationNext]_prioritizationVars

-----------------------------------------------------------------------------
(* The same incident, known to be graver in one respect; a tactic counts   *)
(* only beside another one.                                                *)
Graver(data) ==
    {[data EXCEPT !.severity = s] : s \in data.severity..4}
    \cup {[data EXCEPT !.assets = @ + n] : n \in 0..9}
    \cup {[data EXCEPT !.confidence = c] : c \in {data.confidence, 60, 90} \cap data.confidence..100}
    \cup {[data EXCEPT !.types = @ \cup {"credential"}]}
    \cup IF data.tactics = {} THEN {} ELSE {[data EXCEPT !.tactics = @ \cup {"impact"}],
                                           [data EXCEPT !.tactics = @ \cup {"initial-access"}]}

(* What is graver is never handled later: with more severity, assets,      *)
(* confidence, credentials or tactics the priority never falls, no         *)
(* deadline moves out and no escalation is lost.  Only a count that is not *)
(* a number makes the task fail.                                           *)
GraverIsNoLater ==
    /\ verdict.status = "success" =>
          \A data \in Graver(verdict.data) :
              LET graver == Prioritized(data)
              IN  /\ graver.status = "success" /\ graver.risk \in 0..1000
                  /\ graver.priority <= verdict.priority
                  /\ \A n \in 1..4 : graver.sla[n] <= verdict.sla[n]
                  /\ verdict.escalates => graver.escalates
    /\ verdict.status = "failed" => NotANumber \in {held.assets, held.users}
=============================================================================
