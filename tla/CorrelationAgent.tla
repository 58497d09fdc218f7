-------------------------- MODULE CorrelationAgent --------------------------
(***************************************************************************)
(* CorrelationAgent (backend/app/agents/specialized/correlation.py): every *)
(* event of a task is indexed, for ever; then the events of its sources,   *)
(* targets and users are counted, and its own events are searched for the  *)
(* stages of an attack.  The three indexes hold the same events, so one    *)
(* sequence stands for them.                                               *)
(***************************************************************************)
EXTENDS Integers, Sequences, SequencesExt, FiniteSetsExt, StableOrder

CONSTANTS CorTasks,        \* the tasks: sequences of events
          NoKey, NoTime,
          SourceThreshold, TargetThreshold, \* same_source_threshold, same_target_threshold
          CorWindow,       \* temporal_window_sec
          MinChain,        \* min_chain_events
          SomeEvents, ManyEvents, \* 5 and 10 in the code
          MaxCorTasks, MaxCorTime \* bounds: tasks processed, the clock

Kinds == <<"source", "target", "user">>
StageCount == 13          \* the members of AttackStage, in order

Threshold(kind) == IF kind = "target" THEN TargetThreshold ELSE SourceThreshold

ASSUME CorrelationAssumption == /\ {SourceThreshold, TargetThreshold} \subseteq Nat \ {0, 1}
                                /\ CorWindow \in Nat /\ MinChain \in Nat \ {0, 1}

(* An event: [id, stage, at, aware, source, target, user, severity], stage *)
(* 0 if its type tells none, severities 0 to 4; its time has a zone if it  *)
(* is `aware`.                                                             *)
CorEvent(e) == /\ {"stage", "at", "aware", "source", "target", "user"} \subseteq DOMAIN e
               /\ e.stage \in 0..StageCount /\ e.at \in Int \cup {NoTime} /\ e.aware \in BOOLEAN

ASSUME EventsAssumption ==
    \A task \in CorTasks : IsList(task) /\ \A n \in DOMAIN task : CorEvent(task[n])

VARIABLES corTime, indexed, corAnswer, corProcessed

correlationVars == <<corTime, indexed, corAnswer, corProcessed>>

NoCorrelation == [status |-> "none", found |-> <<>>, primary |-> "none", of |-> <<>>]

-----------------------------------------------------------------------------
(* _parse_timestamp(): without a time it is now.                           *)
ParseEvent(e) == IF e.at = NoTime THEN [e EXCEPT !.at = corTime, !.aware = TRUE] ELSE e

SlipForgetsOld(all, kind, key) ==
    SelectSeq(all, LAMBDA e : e[kind] = key /\ e \notin ToSet(indexed))

Related(all, kind, key) == Those(all, LAMBDA e : e[kind] = key)

Recent(events) == Those(events, LAMBDA e : e.at >= corTime - CorWindow)

CorrelationSeverity(events) ==
    LET severities == {e.severity : e \in ToSet(events)}
    IN  IF severities \cap {3, 4} # {} THEN Max(severities)
        ELSE IF Len(events) > ManyEvents THEN 3
        ELSE IF Len(events) > SomeEvents THEN 2
        ELSE 1

Found(kind, severity, events) == [kind |-> kind, severity |-> severity, events |-> events]

(* Comparing a time without a zone to now raises.                          *)
Incomparable(events) == \E e \in ToSet(events) : ~e.aware

(* The first event of the task whose key decides, if any does.             *)
Correlate(all, events, kind) ==
    LET related(e) == Related(all, kind, e[kind])
        decides(e) == /\ e[kind] # NoKey
                      /\ Len(related(e)) >= Threshold(kind)
                      /\ \/ Incomparable(related(e))
                         \/ Len(Recent(related(e))) >= Threshold(kind)
        first == SelectInSeq(events, decides)
    IN  IF first = 0 THEN <<>>
        ELSE LET of == related(events[first])
             IN  IF Incomparable(of) THEN <<Found("raises", 0, <<>>)>>
                 ELSE <<Found(kind, CorrelationSeverity(Recent(of)), Recent(of))>>

(* A stage that is new, and no earlier than the one before it, counts.     *)
Progress(chain, e) ==
    IF /\ e.stage \notin {c.stage : c \in ToSet(chain)}
       /\ chain # <<>> => e.stage >= chain[Len(chain)].stage
    THEN Append(chain, e) ELSE chain

DetectAttackChain(events) ==
    LET staged == Those(events, LAMBDA e : e.stage > 0)
        chain == FoldLeft(Progress, <<>>, SortedBy(staged, LAMBDA e : e.at))
    IN  IF Len(staged) < MinChain THEN <<>>
        ELSE IF Cardinality({e.aware : e \in ToSet(staged)}) > 1 THEN <<Found("raises", 0, <<>>)>>
        ELSE IF Len(chain) < MinChain THEN <<>>
        ELSE <<Found("chain", IF 2 * Len(chain) > StageCount THEN 4 ELSE 3, chain)>>

(* A chain, or the first of the worst, of those the first of the largest.  *)
SelectPrimary(found) ==
    IF found = <<>> THEN "none"
    ELSE IF \E c \in ToSet(found) : c.kind = "chain" THEN "chain"
    ELSE LET worst == Those(found, LAMBDA c : \A d \in ToSet(found) : c.severity >= d.severity)
         IN  SortedBy(worst, LAMBDA c : -Len(c.events))[1].kind

Correlated(all, events) ==
    LET found == Correlate(all, events, "source") \o Correlate(all, events, "target")
                 \o Correlate(all, events, "user") \o DetectAttackChain(events)
    IN  IF \E c \in ToSet(found) : c.kind = "raises"
        THEN [NoCorrelation EXCEPT !.status = "failed", !.of = events]
        ELSE [status |-> IF found = <<>> THEN "partial" ELSE "success",
              found |-> found, primary |-> SelectPrimary(found), of |-> events]

ProcessCorrelation(task) ==
    LET events == [n \in DOMAIN task |-> ParseEvent(task[n])]
        all == indexed \o events
    IN  /\ corProcessed < MaxCorTasks /\ corProcessed' = corProcessed + 1
        /\ indexed' = all
        /\ corAnswer' = Correlated(all, events)
        /\ UNCHANGED corTime

CorTimePasses == /\ corTime < MaxCorTime /\ corTime' = corTime + 1
                 /\ UNCHANGED <<indexed, corAnswer, corProcessed>>

CorrelationInit == corTime = 0 /\ indexed = <<>> /\ corAnswer = NoCorrelation /\ corProcessed = 0

CorrelationNext == (\E task \in CorTasks : ProcessCorrelation(task)) \/ CorTimePasses

CorrelationSpec == CorrelationInit /\ [][CorrelationNext]_correlationVars

-----------------------------------------------------------------------------
(* Slow attacks are seen: events of one source, target or user that came   *)
(* with different tasks, failed ones included, count together as long as   *)
(* they are recent, and only those do.  Orderly attacks are seen: if each  *)
(* stage of a task comes no earlier than those before it, all are in the   *)
(* chain, whatever order they are listed in; and the stages of a chain     *)
(* ascend in time.  A task fails only if a time without a zone is          *)
(* involved, its own or one that an earlier task left in the index.        *)
AttacksAreSeen ==
    LET found == ToSet(corAnswer.found)
        own == {e \in ToSet(corAnswer.of) : e.stage > 0}
        stages == {e.stage : e \in own}
    IN  /\ corAnswer.status \in {"success", "partial"} =>
              /\ \A e \in ToSet(corAnswer.of), k \in ToSet(Kinds) :
                    (/\ e[k] # NoKey
                     /\ Cardinality({n \in DOMAIN indexed :
                            indexed[n][k] = e[k] /\ indexed[n].at >= corTime - CorWindow})
                        >= Threshold(k)) => \E c \in found : c.kind = k
              /\ (/\ \A d, e \in own : d.at <= e.at => d.stage <= e.stage
                  /\ Cardinality(stages) >= MinChain) =>
                     \E c \in found : c.kind = "chain" /\ {e.stage : e \in ToSet(c.events)} = stages
        /\ \A c \in found :
              IF c.kind = "chain"
              THEN \A m, n \in DOMAIN c.events : m < n =>
                      c.events[m].stage < c.events[n].stage /\ c.events[m].at <= c.events[n].at
              ELSE Cardinality({e[c.kind] : e \in ToSet(c.events)}) = 1
        /\ corAnswer.status = "failed" => \E e \in ToSet(indexed) : ~e.aware
=============================================================================
