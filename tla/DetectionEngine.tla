-------------------------- MODULE DetectionEngine --------------------------
(***************************************************************************)
(* The DetectionRegistry, the three rule engines it holds and the          *)
(* DetectionEngine that asks them (backend/app/detection/).  A rule is its *)
(* id; an event is the set of Sigma and regex rules it satisfies and the   *)
(* indicators it carries.  An engine that a caller registers in place of a *)
(* built-in one is `custom`; only such an engine can raise from its        *)
(* evaluate() or load_rules(): the built-in ones catch what a rule raises. *)
(* No method suspends, so each is one step.                                *)
(***************************************************************************)
EXTENDS Integers, FiniteSets, Folds

CONSTANTS None,
          Bundled,       \* the Sigma rules of the package
          SigmaFiles,    \* the Sigma rules of a configured directory
          Builtin,       \* BUILTIN_PATTERNS
          Extra,         \* rules that callers add, or that a custom engine has
          IocRule,       \* the default blocklist rules, as one
          Samples,       \* SAMPLE_MALICIOUS_*
          Listed,        \* the indicators of a configured directory
          Severity,      \* of each rule, 0 (informational) to 4 (critical)
          Events,        \* [hits, carried]: the events evaluated
          MaxEvents,     \* bound: events evaluated with statistics
          MaxChanges     \* bound: changes made on an engine itself

RuleIds == Bundled \cup SigmaFiles \cup Builtin \cup Extra \cup {IocRule}
Indicators == Samples \cup Listed
Builtins == {"sigma", "regex", "ioc"}
RuleTypes == Builtins \cup {"custom"}

ASSUME DetectionAssumption == /\ IsFiniteSet(RuleIds)
                              /\ MaxEvents \in Nat /\ MaxChanges \in Nat
                              /\ Severity \in [RuleIds -> 0..4]
                              /\ Events \subseteq [hits : SUBSET (RuleIds \ {IocRule}),
                                                   carried : SUBSET Indicators]

VARIABLES engines,      \* registry._engines; None where no engine is registered
          initialized,
          enabled,
          counts,       \* _stats: rules of each built-in type
          stats,        \* _stats: events_processed, matches_found, findings_generated
          last,         \* the last evaluation: what it was given, and what it returned
          changes       \* changes made on an engine itself so far

detectionVars == <<engines, initialized, enabled, counts, stats, last, changes>>

EngineType == [rules : SUBSET RuleIds, off : SUBSET RuleIds, iocs : SUBSET Indicators,
               ready : BOOLEAN, custom : BOOLEAN]

Engine(rules) == [rules |-> rules, off |-> {}, iocs |-> {}, ready |-> FALSE, custom |-> FALSE]

NoFinding == [severity |-> 0, count |-> -1]
NoEvaluation == [event |-> None, asked |-> {}, failing |-> {}, report |-> {},
                 finding |-> NoFinding]

Registered(es) == {t \in RuleTypes : es[t] # None}

-----------------------------------------------------------------------------
(* The engines. *)

(* IoCStore.load(): the samples if the path gave nothing. *)
LoadStore(e, found) == [e EXCEPT !.iocs = @ \cup IF found = {} THEN Samples ELSE found]

(* IoCEngine.load_rules(): the default rules once, until they are cleared. *)
LoadIocs(e, found) ==
    IF e.ready THEN LoadStore(e, found)
    ELSE [LoadStore(e, found) EXCEPT !.rules = @ \cup {IocRule}, !.off = @ \ {IocRule},
                                     !.ready = TRUE]

(* engine.load_rules() without a path, as a reload calls it. *)
LoadRules(t, e) == CASE t = "sigma" -> [e EXCEPT !.rules = @ \cup Bundled, !.off = @ \ Bundled]
                     [] t = "ioc" -> LoadIocs(e, {})
                     [] OTHER -> e

(* What evaluate() leaves of an engine: an IoC engine that has no default  *)
(* rules (any more) loads them.                                            *)
Prepared(t, e) == IF t = "ioc" /\ ~e.custom /\ ~e.ready THEN LoadIocs(e, {}) ELSE e

(* engine.evaluate(): the rules that are enabled and match. *)
EngineMatches(e, event) ==
    {r \in e.rules \ e.off : IF r = IocRule THEN event.carried \cap e.iocs # {}
                              ELSE r \in event.hits}

-----------------------------------------------------------------------------
(* The registry. *)

(* rule_count of each engine that is of the class its type stands for *)
Counted(es) == [t \in Builtins |-> IF es[t] # None /\ ~es[t].custom
                                   THEN Cardinality(es[t].rules) ELSE 0]

(* initialize(): three new engines, over whatever is registered. *)
Initialized(es, files, listed) ==
    [es EXCEPT !["sigma"] = Engine(IF files = {} THEN Bundled ELSE files),
               !["regex"] = Engine(Builtin),
               !["ioc"] = LoadIocs(Engine({}), listed)]

Initialize(files, listed) ==
    /\ engines' = Initialized(engines, files, listed)
    /\ counts' = Counted(engines')
    /\ initialized' = TRUE

(* initialize_detection_registry(): only the first one counts. *)
InitializeRegistry(files, listed) ==
    /\ ~initialized
    /\ Initialize(files, listed)
    /\ UNCHANGED <<enabled, stats, last, changes>>

RegisterEngine(t, e) ==
    /\ changes < MaxChanges
    /\ changes' = changes + 1
    /\ engines' = [engines EXCEPT ![t] = e]
    /\ UNCHANGED <<initialized, enabled, counts, stats, last>>

(* reload_rules(): an engine that raises stays as it is. *)
ReloadRules ==
    /\ engines' = [t \in RuleTypes |->
                      IF engines[t] = None \/ engines[t].custom THEN engines[t]
                      ELSE LoadRules(t, engines[t])]
    /\ counts' = Counted(engines')
    /\ UNCHANGED <<initialized, enabled, stats, last, changes>>

(* add_rule(), add_pattern() (a rule of the same id is replaced, be it by  *)
(* one that is disabled) and clear_rules(), on the engine itself: the      *)
(* counts do not follow.                                                   *)
ChangeEngine(t) ==
    /\ engines[t] # None
    /\ changes < MaxChanges
    /\ changes' = changes + 1
    /\ \/ \E r \in Extra \cup engines[t].rules : \E off \in {{}, {r}} :
              engines' = [engines EXCEPT ![t].rules = @ \cup {r}, ![t].off = (@ \ {r}) \cup off]
       \/ engines' = [engines EXCEPT ![t].rules = {}, ![t].off = {}, ![t].ready = FALSE]
    /\ UNCHANGED <<initialized, enabled, counts, stats, last>>

-----------------------------------------------------------------------------
(* The orchestrator. *)

(* _ensure_initialized() *)
Ready == IF initialized THEN engines ELSE Initialized(engines, {}, {})

SlipStopsAtFailure(es, asked, failing, event) ==
    IF asked \cap failing # {} THEN {}
    ELSE UNION {{t} \X EngineMatches(es[t], event) : t \in asked}

(* The loop over the engines: one that raises adds nothing. *)
AllMatches(es, asked, failing, event) ==
    UNION {{t} \X EngineMatches(es[t], event) : t \in asked \ failing}

SlipLastSeverity(report) ==
    [severity |-> MapThenFoldSet(LAMBDA m, s : m, 0, LAMBDA m : Severity[m[2]],
                                 LAMBDA S : CHOOSE x \in S : TRUE, report),
     count |-> Cardinality(report)]

(* evaluate_to_finding(): add_match() for each match of the list raises    *)
(* the severity the finding was made with, INFORMATIONAL.                  *)
AddMatches(report) ==
    [severity |-> MapThenFoldSet(LAMBDA m, s : IF m > s THEN m ELSE s, 0,
                                 LAMBDA m : Severity[m[2]],
                                 LAMBDA S : CHOOSE x \in S : TRUE, report),
     count |-> Cardinality(report)]

(* The counters: those of evaluate(), and that of evaluate_to_finding() if *)
(* there is a finding.                                                     *)
CountEvaluation(report, wanted) ==
    stats' = [stats EXCEPT !.findings = @ + IF wanted /\ report # {} THEN 1 ELSE 0,
                           !.events = @ + 1, !.matches = @ + Cardinality(report)]

(* evaluate(), evaluate_sync() and evaluate_to_finding(): `requested` is   *)
(* the list of types asked for, empty for all of them.                     *)
Evaluate(method, requested, failing, event) ==
    LET asked == Registered(Ready) \cap IF requested = {} THEN RuleTypes ELSE requested
        report == AllMatches(engines', asked, failing, event)
    IN  /\ enabled
        /\ failing \subseteq {t \in asked : Ready[t].custom}
        /\ engines' = [t \in RuleTypes |-> IF t \in asked THEN Prepared(t, Ready[t])
                                           ELSE Ready[t]]
        /\ initialized' = TRUE
        /\ counts' = IF initialized THEN counts ELSE Counted(Ready)
        /\ last' = [event |-> event, asked |-> asked, failing |-> failing, report |-> report,
                    finding |-> IF method = "finding" /\ report # {}
                                THEN AddMatches(report) ELSE NoFinding]
        /\ \/ (method = "sync" \/ asked = {}) /\ UNCHANGED stats
           \/ /\ method # "sync" /\ asked # {}
              /\ stats.events < MaxEvents
              /\ CountEvaluation(report, method = "finding")
        /\ UNCHANGED <<enabled, changes>>

SetEnabled == /\ enabled' = ~enabled
              /\ UNCHANGED <<engines, initialized, counts, stats, last, changes>>

-----------------------------------------------------------------------------

DetectionInit == /\ engines = [t \in RuleTypes |-> None]
                 /\ initialized = FALSE
                 /\ enabled = TRUE
                 /\ counts = [t \in Builtins |-> 0]
                 /\ stats = [events |-> 0, matches |-> 0, findings |-> 0]
                 /\ last = NoEvaluation
                 /\ changes = 0

Methods == {"evaluate", "sync", "finding"}
Requests == {{}, {"regex", "ioc"}, {"custom"}}

DetectionNext ==
    \/ \E files \in {{}, SigmaFiles}, listed \in {{}, Listed} : InitializeRegistry(files, listed)
    \/ \E t \in RuleTypes, custom \in BOOLEAN :
           RegisterEngine(t, [Engine(IF custom THEN Extra ELSE {}) EXCEPT !.custom = custom])
    \/ ReloadRules
    \/ \E t \in RuleTypes : ChangeEngine(t)
    \/ SetEnabled
    \/ \E method \in Methods, requested \in Requests, failing \in SUBSET RuleTypes,
          event \in Events : Evaluate(method, requested, failing, event)

DetectionSpec == DetectionInit /\ [][DetectionNext]_detectionVars

-----------------------------------------------------------------------------

DetectionTypeOK ==
    /\ engines \in [RuleTypes -> EngineType \cup {None}]
    /\ initialized \in BOOLEAN /\ enabled \in BOOLEAN
    /\ counts \in [Builtins -> Nat]
    /\ stats \in [events : Nat, matches : Nat, findings : Nat]
    /\ last.report \subseteq RuleTypes \X RuleIds

(* However events are evaluated, with failing engines, disabled rules or   *)
(* engines replaced in between: a finding is never counted without the     *)
(* event and a match it comes from; and before the registry is             *)
(* initialized there are no counts of rules and nothing was evaluated.     *)
DetectionConsistent ==
    /\ DetectionTypeOK
    /\ stats.findings <= stats.events /\ stats.findings <= stats.matches
    /\ ~initialized => last = NoEvaluation

(* An engine that raises takes nothing from the others: whatever an        *)
(* enabled rule of another engine that was asked says of the event is      *)
(* reported, and nothing else is.                                          *)
NothingMissed ==
    [][last' # last =>
          \A t \in last'.asked \ last'.failing, r \in RuleIds :
              <<t, r>> \in last'.report <=>
                  /\ r \in engines'[t].rules \ engines'[t].off
                  /\ IF r = IocRule THEN last'.event.carried \cap engines'[t].iocs # {}
                     ELSE r \in last'.event.hits]_detectionVars

(* "Highest severity among all matches" (models.py), however many engines  *)
(* contributed: the finding has the severity of one of its matches, and    *)
(* none of them is more severe.                                            *)
FindingTruthful ==
    /\ DetectionConsistent
    /\ last.finding # NoFinding =>
          /\ \E m \in last.report : Severity[m[2]] = last.finding.severity
          /\ \A m \in last.report : Severity[m[2]] <= last.finding.severity
          /\ last.finding.count = Cardinality(last.report)
=============================================================================
