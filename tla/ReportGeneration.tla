-------------------------- MODULE ReportGeneration --------------------------
(***************************************************************************)
(* ReportGenerationAgent (backend/app/agents/specialized/                  *)
(* report_generation.py): a report on what a task brings.  The findings of *)
(* a task are appended to the list of the investigation that it brings     *)
(* along, the caller's own list: asked again, the agent finds them there   *)
(* and appends them once more.  What cannot be read makes the task fail,   *)
(* before or after that.                                                   *)
(***************************************************************************)
EXTENDS Integers, Sequences, SequencesExt, FiniteSetsExt, StableOrder

CONSTANTS ReportTasks,    \* the tasks that arrive
          NullValue, Absent,   \* a field that holds null; one that is not there
          Opaque,         \* an incident that is not a dict
          FindingLimit, TimelineLimit, KeyLimit, \* 10, 20, 5 in the code
          MaxReported     \* bound: findings in the list of an investigation

ASSUME ReportAssumption == {FindingLimit, TimelineLimit, KeyLimit, MaxReported} \subseteq Nat

(* A task: [type, format, wants, incident, investigation, findings,        *)
(* events]; an incident: [id, severity, assets, users, techniques], the    *)
(* last three as numbers; an investigation: [id, timeline, findings]; a    *)
(* finding: [id, dict, severity, said].                                    *)
TaskFields == {"type", "format", "wants", "incident", "investigation", "findings", "events"}

Inquired == {t \in ReportTasks : t.investigation # Absent}

WithLists == {t \in Inquired : t.investigation.findings # Absent}

(* Any finding that a task brings, and what an investigation may grow to.  *)
AnyFinding == UNION {ToSet(t.findings) : t \in ReportTasks}
              \cup UNION {ToSet(t.investigation.findings) : t \in WithLists}

Inquiries == [id : {t.investigation.id : t \in Inquired},
              timeline : {t.investigation.timeline : t \in Inquired}, findings : Seq(AnyFinding)]

ASSUME ReportTasksAssumption ==
    /\ ReportTasks # {} /\ \A t \in ReportTasks : TaskFields \subseteq DOMAIN t /\ IsList(t.findings)
    /\ \A t \in WithLists : t.investigation \in Inquiries
    /\ Absent \notin Inquiries /\ Absent \notin Seq(AnyFinding)

VARIABLES report,       \* the answer to the last attempt
          firstReport,  \* the answer to the first attempt at its task
          request,      \* the task as its caller has it by now
          attempts      \* how often it was asked

reportVars == <<report, firstReport, request, attempts>>

-----------------------------------------------------------------------------
Formats == {"json", "html", "markdown", "pdf", "text"}
NamedTypes == {"incident", "executive", "technical", "investigation",
               "threat_assessment", "compliance", "daily"}

(* A type that the task names wrongly counts as none.                      *)
DetermineType(task) ==
    IF task.type \in NamedTypes THEN task.type
    ELSE IF task.investigation # Absent THEN "investigation"
    ELSE IF task.incident # Absent THEN "incident"
    ELSE IF "executive" \in task.wants THEN "executive"
    ELSE IF "technical" \in task.wants THEN "technical"
    ELSE "incident"

Dicts(items) == Those(items, LAMBDA f : f.dict)

SlipPutsNewFirst(task) ==
    Dicts(task.findings) \o (IF task.investigation = Absent \/ task.investigation.findings = Absent
                             THEN <<>> ELSE task.investigation.findings)

(* The list that data["findings"] is.                                      *)
Extended(task) ==
    (IF task.investigation = Absent \/ task.investigation.findings = Absent
     THEN <<>> ELSE task.investigation.findings) \o Dicts(task.findings)

(* What the task is to its caller after _extract_report_data().            *)
Extracted(task) ==
    IF task.investigation = Absent \/ task.investigation.findings = Absent THEN task
    ELSE [task EXCEPT !.investigation.findings = Extended(task)]

(* What the report is made of; the id of an investigation replaces that of *)
(* an incident.                                                            *)
ReportData(task) ==
    LET incident == IF task.incident \in {Absent, Opaque}
                    THEN [id |-> Absent, severity |-> 2, assets |-> 0, users |-> 0, techniques |-> 0]
                    ELSE task.incident
        timeline == IF task.investigation = Absent THEN <<>> ELSE task.investigation.timeline
    IN  [about |-> IF task.investigation = Absent THEN incident.id ELSE task.investigation.id,
         incident |-> incident, timeline |-> timeline,
         findings |-> Extended(task), events |-> IF task.events = NullValue THEN <<>> ELSE task.events]

Leading(items, limit) == SubSeq(items, 1, Min({limit, Len(items)}))

-----------------------------------------------------------------------------
(* The sections of a report; an incident's has those that have something   *)
(* to say, of the other types only the findings may be missing.            *)
Optional(section, there) == IF there THEN <<section>> ELSE <<>>

IncidentSections(data) ==
    <<"exec_summary", "overview">>
    \o Optional("timeline", data.timeline # <<>> \/ data.events # <<>>)
    \o Optional("findings", data.findings # <<>>)
    \o Optional("assets", data.incident.assets > 0)
    \o Optional("mitre", data.incident.techniques > 0)
    \o <<"recommendations">>

ExecutiveSections == <<"key_points", "impact", "risk", "actions">>

TechnicalSections(data) ==
    <<"tech_overview">> \o Optional("detailed_findings", data.findings # <<>>)
    \o <<"iocs", "attack_chain", "remediation">>

InvestigationSections ==
    <<"inv_summary", "methodology", "forensic_timeline", "evidence", "conclusions">>

Sections(type, data) == CASE type = "executive" -> ExecutiveSections
                          [] type = "technical" -> TechnicalSections(data)
                          [] type = "investigation" -> InvestigationSections
                          [] OTHER -> IncidentSections(data)

(* The sections are rendered after the key findings and before the         *)
(* recommendations, in each of the formats.                                *)
Rendered(sections) == <<"metadata", "key_findings">> \o sections \o <<"recommendations">>

(* What the sections list.                                                 *)
ListedFindings(type, data) ==
    IF type \in {"executive", "investigation"} THEN <<>>
    ELSE Dicts(Leading(data.findings, FindingLimit))

ListedTimeline(type, data) ==
    IF type \in {"executive", "technical"} THEN <<>>
    ELSE Leading(IF data.timeline # <<>> THEN data.timeline ELSE data.events, TimelineLimit)

KeyFindings(data) == Those(Leading(data.findings, KeyLimit), LAMBDA f : f.dict /\ f.said)

Advice(incident) ==
    (IF incident.severity >= 3 THEN <<"respond", "isolate", "preserve">> ELSE <<"review", "monitor">>)
    \o Optional("assets", incident.assets > 0) \o Optional("credentials", incident.users \in Nat \ {0})
    \o Optional("mitigations", incident.techniques > 0) \o <<"policies", "training", "procedures">>

(* What cannot be written: a severity, or a number of assets, that is      *)
(* null, anywhere; the users where they are counted; the severity of a     *)
(* finding where it is listed.                                             *)
Unwritable(type, data) ==
    \/ data.incident.severity = NullValue \/ data.incident.assets = NullValue
    \/ data.incident.users = NullValue /\ type # "investigation"
    \/ \E f \in ToSet(ListedFindings(type, data)) : f.severity = NullValue

Unreported == [status |-> "failed", about |-> Absent, outline |-> <<>>, listed |-> <<>>,
               timeline |-> <<>>, key |-> <<>>, counted |-> 0, advice |-> <<>>]

Reported(task) ==
    LET type == DetermineType(task)
        data == ReportData(task)
    IN  IF task.format \notin Formats \/ task.events = NullValue \/ Unwritable(type, data) THEN Unreported
        ELSE [status |-> "success", about |-> data.about, outline |-> Rendered(Sections(type, data)),
              listed |-> ListedFindings(type, data), timeline |-> ListedTimeline(type, data),
              key |-> KeyFindings(data), counted |-> Len(data.findings),
              advice |-> Advice(data.incident)]

(* process_task(): the format is looked at before the findings.            *)
Process(task) ==
    /\ Len(Extended(task)) <= MaxReported
    /\ report' = Reported(task)
    /\ request' = IF task.format \in Formats THEN Extracted(task) ELSE task

GenerateReport(task) == /\ Process(task)
                        /\ firstReport' = Reported(task)
                        /\ attempts' = 1

(* The same task, with the lists that its caller has by now.               *)
GenerateAgain == /\ attempts \in 1..(MaxReported - 1)
                 /\ Process(request)
                 /\ attempts' = attempts + 1
                 /\ UNCHANGED firstReport

ReportInit == /\ report = Unreported /\ firstReport = Unreported
              /\ request = CHOOSE t \in ReportTasks : TRUE
              /\ attempts = 0

ReportNext == \/ GenerateAgain
              \/ \E task \in ReportTasks : GenerateReport(task)

ReportSpec == ReportInit /\ [][ReportNext]_reportVars

-----------------------------------------------------------------------------
(* The report on a task after the first one, and the findings it brings.   *)
TellsTheSame(again, first, findings) ==
    /\ \A part \in {"status", "about", "outline", "timeline", "advice"} : again[part] = first[part]
    /\ \A tells \in {"listed", "key"} : /\ IsPrefix(first[tells], again[tells])
                                       /\ ToSet(again[tells]) = ToSet(first[tells])
    /\ again.counted >= first.counted
    /\ again.counted <= FindingLimit /\ {"findings", "detailed_findings"} \cap ToSet(again.outline) # {}
       => ToSet(Dicts(findings)) \subseteq ToSet(again.listed)

(* Asking again tells the same: however often a task is repeated, and with *)
(* whatever its attempts have left in the caller's lists, the report has   *)
(* the outline, the timeline and the advice of the first, its findings are *)
(* those of the first, in their order, before any is told twice, and it    *)
(* fails if that one failed; and while there is room each finding of the   *)
(* task is listed where findings are.                                      *)
AskingAgainTellsTheSame == attempts > 0 => TellsTheSame(report, firstReport, request.findings)
=============================================================================
