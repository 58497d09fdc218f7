------------------------- MODULE InvestigationAgent -------------------------
(***************************************************************************)
(* InvestigationAgent (backend/app/agents/specialized/investigation.py):   *)
(* from the events and findings of one task a timeline, the evidence, the  *)
(* assets involved and a severity, kept under the id of the investigation. *)
(* A later task with the same id replaces what was kept, it does not add   *)
(* to it.                                                                  *)
(***************************************************************************)
EXTENDS Integers, Sequences, SequencesExt, FiniteSetsExt, StableOrder

CONSTANTS InvTasks,       \* [id, events, findings]: the tasks that arrive
          InvIds,         \* ids: those that tasks name and those drawn
          NoId,           \* the id of a task that names none
          Unused,     \* what is kept under an id that was not used
          NoName, ManyHigh, ManyAssets, MaxInvTasks  \* 3 and 5 in the code; bound: tasks

ASSUME InvAssumption == ManyHigh \in Nat /\ ManyAssets \in Nat /\ MaxInvTasks \in Nat

(* An event or a finding: [id, at, aware, severity, type, source, target,  *)
(* user]; NoName where one of the last three is missing, as it is in a     *)
(* finding; severities are 0 to 4, `aware` times have a zone.              *)
ASSUME InvTasksAssumption ==
    \A t \in InvTasks : /\ IsList(t.events) /\ IsList(t.findings)
                        /\ \A e \in ToSet(t.events) \cup ToSet(t.findings) : e.at \in Int

VARIABLES active,         \* _active_investigations
          invAnswer, invTasks

investigationVars == <<active, invAnswer, invTasks>>

-----------------------------------------------------------------------------
SlipOnePerTime(events, findings) ==
    SortedBy(SelectSeq(events \o findings,
                       LAMBDA e : e = CHOOSE d \in ToSet(events \o findings) : d.at = e.at),
             LAMBDA e : e.at)

(* A stable sort by time, events before findings.                          *)
BuildTimeline(events, findings) == SortedBy(events \o findings, LAMBDA e : e.at)

CollectEvidence(events, findings) == [n \in DOMAIN (events \o findings) |-> (events \o findings)[n].id]

(* An asset is seen first with the event that brings it; with each later   *)
(* one that names it as a host its last_seen is overwritten.               *)
Seen(assets, name, type, role, at) ==
    LET n == SelectInSeq(assets, LAMBDA a : a.name = name)
    IN  IF name = NoName THEN assets
        ELSE IF n = 0 THEN Append(assets, [name |-> name, type |-> type, role |-> role,
                                           first |-> at, last |-> -1])
        ELSE IF type = "host" THEN [assets EXCEPT ![n].last = at]
        ELSE assets

SeenWith(assets, e) == Seen(Seen(Seen(assets, e.source, "host", "source", e.at),
                                 e.target, "host", "target", e.at),
                            e.user, "user", "involved", e.at)

IdentifyAssets(events) == FoldLeft(SeenWith, <<>>, events)

AttackVector(timeline) ==
    LET some(type) == \E e \in ToSet(timeline) : e.type = type
    IN  IF some("phishing") THEN "email"
        ELSE IF some("brute") THEN "brute force"
        ELSE IF some("exploit") THEN "vulnerability"
        ELSE IF some("lateral") THEN "compromised host"
        ELSE "under investigation"

(* No asset is ever "critical", so their criticality decides nothing.      *)
InvestigationSeverity(timeline, assets) ==
    LET high == Cardinality({n \in DOMAIN timeline : timeline[n].severity = 3})
    IN  IF \E e \in ToSet(timeline) : e.severity = 4 THEN 4
        ELSE IF high > ManyHigh THEN 3
        ELSE IF timeline # <<>> /\ (high > 0 \/ Len(assets) > ManyAssets) THEN 2
        ELSE 1

Investigated(task) ==
    LET timeline == BuildTimeline(task.events, task.findings)
        assets == IdentifyAssets(task.events)
    IN  [task |-> task, timeline |-> timeline, assets |-> assets,
         evidence |-> CollectEvidence(task.events, task.findings),
         vector |-> AttackVector(timeline), severity |-> InvestigationSeverity(timeline, assets),
         span |-> IF timeline = <<>> THEN 0 ELSE timeline[Len(timeline)].at - timeline[1].at]

(* Sorting fails where times with and without a zone meet.                 *)
Investigate(task) ==
    LET id == IF task.id # NoId THEN task.id ELSE CHOOSE i \in InvIds : active[i] = Unused
        mixed == Cardinality({e.aware : e \in ToSet(task.events \o task.findings)}) > 1
    IN  /\ invTasks < MaxInvTasks /\ invTasks' = invTasks + 1
        /\ task.id = NoId => \E i \in InvIds : active[i] = Unused
        /\ IF mixed THEN invAnswer' = "failed" /\ UNCHANGED active
           ELSE invAnswer' = "success" /\ active' = [active EXCEPT ![id] = Investigated(task)]

InvestigationInit == /\ active = [i \in InvIds |-> Unused]
                     /\ invAnswer = "none" /\ invTasks = 0

InvestigationNext == \E task \in InvTasks : Investigate(task)

InvestigationSpec == InvestigationInit /\ [][InvestigationNext]_investigationVars

-----------------------------------------------------------------------------
(* What an investigation has to tell, of what it was told and the names.   *)
TellsAll(kept, told, names) ==
    /\ Len(kept.timeline) = Len(told) /\ ToSet(kept.timeline) = ToSet(told)
    /\ Len(kept.evidence) = Len(told)
    /\ \A m, n \in DOMAIN told : m < n /\ told[m].at = told[n].at =>
          \E k, l \in DOMAIN told : k < l /\ kept.timeline[k] = told[m] /\ kept.timeline[l] = told[n]
    /\ \A m, n \in DOMAIN told : m < n => kept.timeline[m].at <= kept.timeline[n].at
    /\ Len(kept.assets) = Cardinality(names)
    /\ {a.name : a \in ToSet(kept.assets)} = names
    /\ kept.span = IF told = <<>> THEN 0
                   ELSE Max({e.at : e \in ToSet(told)}) - Min({e.at : e \in ToSet(told)})
    /\ \A n \in DOMAIN kept.task.events :
          LET less == RemoveAt(kept.task.events, n)
          IN  InvestigationSeverity(BuildTimeline(less, kept.task.findings),
                                    IdentifyAssets(less)) <= kept.severity

(* An investigation tells all: what is kept of it has each event and each  *)
(* finding of its task once in the timeline, in the order of time and, at  *)
(* one time, in the order told; as many pieces of evidence; every host and *)
(* user once among the assets; and is no milder for any event told.        *)
InvestigationTellsAll ==
    \A id \in InvIds : active[id] # Unused =>
        LET events == active[id].task.events
            names == UNION {{e.source, e.target, e.user} : e \in ToSet(events)}
        IN  TellsAll(active[id], events \o active[id].task.findings, names \ {NoName})
=============================================================================
