-------------------------- MODULE DetectionProofs --------------------------
(***************************************************************************)
(* What the reduction of a Sigma rule to a flat list and "all" or "any"    *)
(* keeps, that no engine's matches are lost, and that a finding tells the  *)
(* worst of them, for all rules and events.                                *)
(***************************************************************************)
EXTENDS SigmaRules, DetectionEngine, FiniteSetTheorems, TLAPS

(* fired is what the last evaluation of the rule returned.                 *)
SigmaInv == rule \in Rules /\ event \in SigmaEvents /\ fired = Matches(rule, event)

LEMMA SigmaInvariant == SigmaSpec => []SigmaInv
<1>1. SigmaInit => SigmaInv
  BY DEF SigmaInit, SigmaInv, SigmaEvents
<1>2. SigmaInv /\ [SigmaNext]_sigmaVars => SigmaInv'
  BY DEF SigmaInv, SigmaNext, EvaluateRule, sigmaVars
<1> QED BY <1>1, <1>2, PTL DEF SigmaSpec

(* A condition that denies nothing and holds is one of those counted, and  *)
(* one that is counted holds.                                              *)
LEMMA CountedIfHolds ==
    ASSUME NEW c \in Conditions, NEW ev \in SigmaEvents, ~c.negate
    PROVE  EvaluateCondition(c, ev).matched /\ EvaluateCondition(c, ev).value <=> Holds(c, ev)
<1>1. EvaluateCondition(c, ev).matched = Holds(c, ev)
      /\ EvaluateCondition(c, ev).value = (Holds(c, ev) /\ Hits(c, ev) # {})
  BY DEF EvaluateCondition
<1>2. c \in ConditionType /\ c.patterns # {} /\ c.negate = FALSE
  BY SigmaAssumption DEF ConditionType
<1>3. Holds(c, ev) => Hits(c, ev) # {}
  <2>1. ~Present(c, ev) => ~Holds(c, ev)
    BY <1>2 DEF Holds
  <2>2. Hits(c, ev) = {} => ~(IF c.matchAll THEN Hits(c, ev) = c.patterns ELSE Hits(c, ev) # {})
    BY <1>2
  <2>3. Present(c, ev) /\ Hits(c, ev) = {} => ~Holds(c, ev)
    BY <1>2, <2>2 DEF Holds
  <2> QED BY <2>1, <2>3
<1> QED BY <1>1, <1>3

(* Every selection of a rule has conditions.                               *)
LEMMA SelectionsHaveConditions ==
    ASSUME NEW r \in Rules, NEW n \in Names
    PROVE  r.selections[n] \subseteq Conditions /\ r.selections[n] # {}
<1>1. r.selections[n] \in Selections
  BY DEF Rules
<1>2. Cardinality({}) = 0
  BY FS_EmptySet
<1> QED BY <1>1, <1>2, SigmaAssumption DEF Selections

(* A selection that holds gives the compiled rule a condition to count.    *)
LEMMA HoldingIsCounted ==
    ASSUME NEW r \in Rules, NEW ev \in SigmaEvents, Positive(r), NEW n \in Names,
           n \in Holding(r, ev)
    PROVE  MatchedConditions(r, ev) # {}
<1>1. PICK c \in r.selections[n] : Holds(c, ev)
  BY SelectionsHaveConditions DEF Holding
<1>2. c \in Conditions /\ ~c.negate /\ c \in CompileDetection(r)
  BY <1>1, SelectionsHaveConditions DEF Positive, CompileDetection
<1>3. c \in MatchedConditions(r, ev)
  BY <1>1, <1>2, CountedIfHolds DEF MatchedConditions
<1> QED BY <1>3

(* If all conditions are counted, all selections hold.                     *)
LEMMA AllCountedAllHold ==
    ASSUME NEW r \in Rules, NEW ev \in SigmaEvents, Positive(r),
           MatchedConditions(r, ev) = CompileDetection(r)
    PROVE  Holding(r, ev) = Names
<1> SUFFICES ASSUME NEW n \in Names, NEW c \in r.selections[n] PROVE Holds(c, ev)
  BY DEF Holding
<1>1. c \in Conditions /\ ~c.negate /\ c \in CompileDetection(r)
  BY SelectionsHaveConditions DEF Positive, CompileDetection
<1> QED BY <1>1, CountedIfHolds DEF MatchedConditions

(* SigmaRule.matches(): of every rule that denies nothing, and every       *)
(* event, the compiled form errs in one direction only: "any" misses       *)
(* nothing the rule describes, "all" fires on nothing else.                *)
THEOREM CompilationErrsOneWay == SigmaSpec => []ErrsOneWay
<1>1. SigmaInv => ErrsOneWay
  <2> SUFFICES ASSUME SigmaInv, Positive(rule)
               PROVE  IF ParseConditionLogic(rule.condition.form) = "any"
                      THEN Written(rule, event) => fired
                      ELSE fired => Written(rule, event)
    BY DEF ErrsOneWay
  <2> DEFINE expr == rule.condition
             yes == Holding(rule, event)
  <2>1. /\ rule \in Rules /\ event \in SigmaEvents /\ fired = Matches(rule, event)
        /\ expr \in Expressions /\ WellFormed(expr) /\ expr.form # "not"
    BY DEF SigmaInv, Rules, Positive
  <2>2. yes \subseteq Names /\ expr.of \subseteq Names /\ expr.but \subseteq Names /\ expr.form \in Forms
    BY <2>1 DEF Holding, Expressions
  <2>3. CASE ParseConditionLogic(expr.form) = "any"
    <3>1. expr.form \in {"1 of them", "name", "or", "mixed"}
      BY <2>1, <2>2, <2>3 DEF ParseConditionLogic, Forms
    <3>2. Written(rule, event) => \E n \in Names : n \in yes
      BY <2>1, <2>2, <3>1 DEF Written, WellFormed
    <3>3. Written(rule, event) => MatchedConditions(rule, event) # {}
      BY <2>1, <3>2, HoldingIsCounted
    <3>4. Written(rule, event) => fired
      BY <2>1, <2>3, <3>3 DEF Matches
    <3> QED BY <2>3, <3>4
  <2>4. CASE ParseConditionLogic(expr.form) # "any"
    <3>1. expr.form \in {"all of them", "and"} /\ ParseConditionLogic(expr.form) = "all"
      BY <2>1, <2>2, <2>4 DEF ParseConditionLogic, Forms
    <3>2. fired => yes = Names
      BY <2>1, <3>1, AllCountedAllHold DEF Matches
    <3>3. fired => Written(rule, event)
      BY <2>2, <3>1, <3>2 DEF Written
    <3> QED BY <2>4, <3>3
  <2> QED BY <2>3, <2>4
<1> QED BY <1>1, SigmaInvariant, PTL

-----------------------------------------------------------------------------
(* The engine *)

(* A match is in the report if, and only if, an engine that was asked and  *)
(* did not raise made it.                                                  *)
LEMMA ReportIsUnion ==
    ASSUME NEW es, NEW asked, NEW failing, NEW ev, NEW t \in asked \ failing, NEW r
    PROVE  <<t, r>> \in AllMatches(es, asked, failing, ev) <=> r \in EngineMatches(es[t], ev)
BY DEF AllMatches

(* evaluate(): whatever engines are registered, replaced or raise, the     *)
(* others report what they match, and nothing else.                        *)
THEOREM FailuresAreIsolated == DetectionSpec => NothingMissed
<1> DEFINE Reported ==
        \A t \in last'.asked \ last'.failing, r \in RuleIds :
            <<t, r>> \in last'.report <=>
                /\ r \in engines'[t].rules \ engines'[t].off
                /\ IF r = IocRule THEN last'.event.carried \cap engines'[t].iocs # {}
                   ELSE r \in last'.event.hits
<1>1. ASSUME NEW method \in Methods, NEW requested \in Requests, NEW failing \in SUBSET RuleTypes,
             NEW ev \in Events, Evaluate(method, requested, failing, ev)
      PROVE  Reported
  <2>1. /\ last'.report = AllMatches(engines', last'.asked, last'.failing, last'.event)
        /\ last'.event = ev
    BY <1>1 DEF Evaluate
  <2>2. ASSUME NEW t \in last'.asked \ last'.failing, NEW r \in RuleIds
        PROVE  <<t, r>> \in last'.report <=> r \in EngineMatches(engines'[t], last'.event)
    BY <2>1, ReportIsUnion
  <2> QED BY <2>2 DEF EngineMatches
<1>2. [DetectionNext]_detectionVars => [last' # last => Reported]_detectionVars
  <2> SUFFICES ASSUME DetectionNext, last' # last PROVE Reported
    OBVIOUS
  <2>1. \E method \in Methods, requested \in Requests, failing \in SUBSET RuleTypes, ev \in Events :
            Evaluate(method, requested, failing, ev)
    BY DEF DetectionNext, InitializeRegistry, RegisterEngine, ReloadRules, ChangeEngine, SetEnabled
  <2> QED BY <1>1, <2>1
<1> QED BY <1>2, PTL DEF DetectionSpec, NothingMissed

-----------------------------------------------------------------------------
(* add_match() over a report *)

Sev(m) == Severity[m[2]]

(* w is what the matches of a report come to: the severity of one of them, *)
(* INFORMATIONAL if there is none, and none is more severe.                *)
IsWorst(w, s) == /\ w \in 0..4
                 /\ \A m \in s : Sev(m) <= w
                 /\ w = 0 \/ \E m \in s : Sev(m) = w

WorstOf(s) == CHOOSE w \in 0..4 : IsWorst(w, s)

(* The loop: a match of the report is taken and added to what the others   *)
(* came to.                                                                *)
IsLoop(g, R) == g = [s \in SUBSET R |->
                        IF s = {} THEN 0
                        ELSE LET m == CHOOSE x \in s : TRUE
                             IN  IF Sev(m) > g[s \ {m}] THEN Sev(m) ELSE g[s \ {m}]]

LEMMA WorstIsOne ==
    ASSUME NEW s, \A m \in s : Sev(m) \in 0..4
    PROVE  IsWorst(WorstOf(s), s)
<1>1. \E w \in 0..4 : IsWorst(w, s)
  <2>1. CASE \E m \in s : Sev(m) = 4
    BY <2>1 DEF IsWorst
  <2>2. CASE (\E m \in s : Sev(m) = 3) /\ ~(\E m \in s : Sev(m) = 4)
    BY <2>2 DEF IsWorst
  <2>3. CASE (\E m \in s : Sev(m) = 2) /\ ~(\E m \in s : Sev(m) \in 3..4)
    BY <2>3 DEF IsWorst
  <2>4. CASE (\E m \in s : Sev(m) = 1) /\ ~(\E m \in s : Sev(m) \in 2..4)
    BY <2>4 DEF IsWorst
  <2>5. CASE ~(\E m \in s : Sev(m) \in 1..4)
    BY <2>5 DEF IsWorst
  <2> QED BY <2>1, <2>2, <2>3, <2>4, <2>5
<1> QED BY <1>1 DEF WorstOf

LEMMA WorstIsUnique ==
    ASSUME NEW s, NEW v, NEW w, IsWorst(v, s), IsWorst(w, s), \A m \in s : Sev(m) \in 0..4
    PROVE  v = w
BY DEF IsWorst

LEMMA OneMoreMatch ==
    ASSUME NEW s, \A m \in s : Sev(m) \in 0..4, NEW m \in s, NEW w, IsWorst(w, s \ {m})
    PROVE  IsWorst(IF Sev(m) > w THEN Sev(m) ELSE w, s)
<1>1. w \in 0..4 /\ Sev(m) \in 0..4
  BY DEF IsWorst
<1>2. CASE Sev(m) > w
  <2>1. \A n \in s : Sev(n) <= Sev(m)
    BY <1>1, <1>2 DEF IsWorst
  <2> QED BY <1>1, <1>2, <2>1 DEF IsWorst
<1>3. CASE ~(Sev(m) > w)
  <2>1. \A n \in s : Sev(n) <= w
    BY <1>1, <1>3 DEF IsWorst
  <2> QED BY <1>1, <1>3, <2>1 DEF IsWorst
<1> QED BY <1>2, <1>3

(* The loop comes to the same in whatever order it takes the matches: the  *)
(* worst of them satisfies its equation ...                                *)
LEMMA WorstIsALoop ==
    ASSUME NEW R, \A m \in R : Sev(m) \in 0..4
    PROVE  IsLoop([s \in SUBSET R |-> WorstOf(s)], R)
<1> DEFINE g == [s \in SUBSET R |-> WorstOf(s)]
<1>1. ASSUME NEW s \in SUBSET R
      PROVE  g[s] = IF s = {} THEN 0
                    ELSE LET m == CHOOSE x \in s : TRUE
                         IN  IF Sev(m) > g[s \ {m}] THEN Sev(m) ELSE g[s \ {m}]
  <2>1. IsWorst(WorstOf(s), s)
    BY WorstIsOne
  <2>2. CASE s = {}
    BY <2>1, <2>2 DEF IsWorst
  <2>3. CASE s # {}
    <3>1. PICK m : m = CHOOSE x \in s : TRUE
      OBVIOUS
    <3>2. m \in s
      BY <2>3, <3>1
    <3>3. s \ {m} \in SUBSET R /\ IsWorst(WorstOf(s \ {m}), s \ {m})
      BY WorstIsOne
    <3>4. IsWorst(IF Sev(m) > WorstOf(s \ {m}) THEN Sev(m) ELSE WorstOf(s \ {m}), s)
      BY <3>2, <3>3, OneMoreMatch
    <3>5. WorstOf(s) = IF Sev(m) > WorstOf(s \ {m}) THEN Sev(m) ELSE WorstOf(s \ {m})
      BY <2>1, <3>4, WorstIsUnique
    <3>6. g[s] = WorstOf(s) /\ g[s \ {m}] = WorstOf(s \ {m})
      BY <3>3
    <3> HIDE DEF g
    <3> QED BY <2>3, <3>1, <3>5, <3>6
  <2> QED BY <2>2, <2>3
<1>2. DOMAIN g = SUBSET R
  OBVIOUS
<1>3. g = [s \in SUBSET R |-> g[s]]
  OBVIOUS
<1> HIDE DEF g
<1>4. IsLoop(g, R)
  BY <1>1, <1>3 DEF IsLoop
<1> QED BY <1>4 DEF g

(* ... and a finite report leaves it no other result.                      *)
LEMMA LoopIsWorst ==
    ASSUME NEW R, IsFiniteSet(R), \A m \in R : Sev(m) \in 0..4, NEW g, IsLoop(g, R)
    PROVE  IsWorst(g[R], R)
<1> SUFFICES ASSUME ~IsWorst(g[R], R) PROVE FALSE
  OBVIOUS
<1> DEFINE T == {s \in FiniteSubsetsOf(R) : ~IsWorst(g[s], s)}
<1>1. R \in T /\ T \subseteq FiniteSubsetsOf(R)
  BY DEF FiniteSubsetsOf
<1>2. IsWellFoundedOn(StrictSubsetOrdering(R), FiniteSubsetsOf(R))
  BY FS_StrictSubsetOrderingWellFounded
<1>3. PICK s \in T : \A y \in T : <<y, s>> \notin StrictSubsetOrdering(R)
  BY <1>1, <1>2, WFMin
<1>4. s \subseteq R /\ IsFiniteSet(s) /\ ~IsWorst(g[s], s)
  BY <1>3 DEF FiniteSubsetsOf
<1>5. g[s] = IF s = {} THEN 0
             ELSE LET m == CHOOSE x \in s : TRUE
                  IN  IF Sev(m) > g[s \ {m}] THEN Sev(m) ELSE g[s \ {m}]
  BY <1>4 DEF IsLoop
<1>6. s # {}
  BY <1>4, <1>5 DEF IsWorst
<1>7. PICK m : m = CHOOSE x \in s : TRUE
  OBVIOUS
<1>8. m \in s
  BY <1>6, <1>7
<1>9. s \ {m} \in FiniteSubsetsOf(R) /\ <<s \ {m}, s>> \in StrictSubsetOrdering(R)
  BY <1>4, <1>8, FS_Subset DEF FiniteSubsetsOf, StrictSubsetOrdering
<1>10. IsWorst(g[s \ {m}], s \ {m})
  BY <1>3, <1>9
<1>11. IsWorst(IF Sev(m) > g[s \ {m}] THEN Sev(m) ELSE g[s \ {m}], s)
  BY <1>4, <1>8, <1>10, OneMoreMatch
<1> QED BY <1>4, <1>5, <1>6, <1>7, <1>11

(* add_match() for each match: the severity is that of the worst of them.  *)
LEMMA FindingIsWorst ==
    ASSUME NEW R, IsFiniteSet(R), \A m \in R : Sev(m) \in 0..4
    PROVE  IsWorst(AddMatches(R).severity, R) /\ AddMatches(R).count = Cardinality(R)
<1>1. PICK g : g = CHOOSE iter : IsLoop(iter, R)
  OBVIOUS
<1>2. IsLoop(g, R)
  BY <1>1, WorstIsALoop
<1>3. AddMatches(R).severity = g[R]
  BY <1>1 DEF AddMatches, MapThenFoldSet, IsLoop, Sev
<1>4. AddMatches(R).count = Cardinality(R)
  BY DEF AddMatches
<1> QED BY <1>2, <1>3, <1>4, LoopIsWorst

-----------------------------------------------------------------------------
(* The invariant of the engine *)

(* A finding is made of a report that is not empty, or there is none.      *)
FindingIsMade == \/ last.finding = NoFinding
                 \/ last.report # {} /\ last.finding = AddMatches(last.report)

DetectionInv == DetectionConsistent /\ FindingIsMade

LEMMA EnginesStayTyped ==
    ASSUME NEW t \in RuleTypes, NEW e \in EngineType
    PROVE  /\ \A found \in SUBSET Indicators :
                  LoadStore(e, found) \in EngineType /\ LoadIocs(e, found) \in EngineType
           /\ LoadRules(t, e) \in EngineType /\ Prepared(t, e) \in EngineType
<1>1. /\ {} \in SUBSET Indicators /\ Samples \subseteq Indicators /\ IocRule \in RuleIds
      /\ Bundled \subseteq RuleIds
  BY DEF Indicators, RuleIds
<1>2. ASSUME NEW found \in SUBSET Indicators PROVE LoadStore(e, found) \in EngineType
  BY <1>1 DEF LoadStore, EngineType
<1>3. ASSUME NEW found \in SUBSET Indicators PROVE LoadIocs(e, found) \in EngineType
  <2>1. CASE e.ready
    BY <1>2, <2>1 DEF LoadIocs
  <2>2. CASE ~e.ready
    <3>1. PICK f : f = LoadStore(e, found)
      OBVIOUS
    <3>2. f \in EngineType
      BY <1>2, <3>1
    <3>3. [f EXCEPT !.rules = @ \cup {IocRule}, !.off = @ \ {IocRule}, !.ready = TRUE] \in EngineType
      BY <1>1, <3>2 DEF EngineType
    <3> QED BY <2>2, <3>1, <3>3 DEF LoadIocs
  <2> QED BY <2>1, <2>2
<1>4. LoadRules(t, e) \in EngineType
  <2>1. [e EXCEPT !.rules = @ \cup Bundled, !.off = @ \ Bundled] \in EngineType
    BY <1>1 DEF EngineType
  <2> QED BY <1>1, <1>3, <2>1 DEF LoadRules
<1>5. Prepared(t, e) \in EngineType
  BY <1>1, <1>3 DEF Prepared
<1> QED BY <1>2, <1>3, <1>4, <1>5

(* The registry before and after it is initialized.                        *)
LEMMA RegistryStaysTyped ==
    ASSUME NEW es \in [RuleTypes -> EngineType \cup {None}],
           NEW files \in SUBSET RuleIds, NEW listed \in SUBSET Indicators
    PROVE  /\ Initialized(es, files, listed) \in [RuleTypes -> EngineType \cup {None}]
           /\ Counted(es) \in [Builtins -> Nat]
<1>1. /\ Engine(IF files = {} THEN Bundled ELSE files) \in EngineType
      /\ Engine(Builtin) \in EngineType /\ Engine({}) \in EngineType
  BY DEF Engine, EngineType, RuleIds
<1>2. LoadIocs(Engine({}), listed) \in EngineType
  BY <1>1, EnginesStayTyped DEF RuleTypes, Builtins
<1>3. Initialized(es, files, listed) \in [RuleTypes -> EngineType \cup {None}]
  BY <1>1, <1>2 DEF Initialized
<1>4. ASSUME NEW t \in Builtins, es[t] # None PROVE Cardinality(es[t].rules) \in Nat
  <2>1. es[t].rules \subseteq RuleIds
    BY <1>4 DEF RuleTypes, EngineType
  <2> QED BY <2>1, DetectionAssumption, FS_Subset, FS_CardinalityType
<1>5. Counted(es) \in [Builtins -> Nat]
  BY <1>4 DEF Counted
<1> QED BY <1>3, <1>5

LEMMA ReportsAreFinite ==
    ASSUME NEW R, R \subseteq RuleTypes \X RuleIds
    PROVE  /\ IsFiniteSet(R) /\ Cardinality(R) \in Nat /\ (R # {} => Cardinality(R) >= 1)
           /\ \A m \in R : Sev(m) \in 0..4
<1>1. IsFiniteSet(RuleTypes)
  <2>1. RuleTypes = ((({} \cup {"sigma"}) \cup {"regex"}) \cup {"ioc"}) \cup {"custom"}
    BY DEF RuleTypes, Builtins
  <2> QED BY <2>1, FS_EmptySet, FS_AddElement
<1>2. IsFiniteSet(RuleTypes \X RuleIds)
  BY <1>1, DetectionAssumption, FS_Product
<1>3. IsFiniteSet(R) /\ Cardinality(R) \in Nat
  BY <1>2, FS_Subset, FS_CardinalityType
<1>4. R # {} => Cardinality(R) # 0
  BY <1>3, FS_EmptySet
<1>5. \A m \in R : Sev(m) \in 0..4
  BY DetectionAssumption DEF Sev
<1> QED BY <1>3, <1>4, <1>5

(* The statistics: no finding without an event and a match.                *)
StatsAgree == /\ stats \in [events : Nat, matches : Nat, findings : Nat]
              /\ stats.findings <= stats.events /\ stats.findings <= stats.matches

LEMMA CountedTogether ==
    ASSUME StatsAgree, NEW report, NEW wanted \in BOOLEAN, CountEvaluation(report, wanted),
           Cardinality(report) \in Nat, report # {} => Cardinality(report) >= 1
    PROVE  StatsAgree'
<1>1. PICK k : k = IF wanted /\ report # {} THEN 1 ELSE 0
  OBVIOUS
<1>2. PICK c \in Nat : c = Cardinality(report) /\ (report # {} => c >= 1)
  OBVIOUS
<1>3. k \in Nat /\ k <= 1 /\ k <= c
  BY <1>1, <1>2
<1>4. PICK e \in Nat, m \in Nat, f \in Nat :
          stats = [events |-> e, matches |-> m, findings |-> f] /\ f <= e /\ f <= m
  BY DEF StatsAgree
<1>5. stats' = [stats EXCEPT !.findings = @ + k, !.events = @ + 1, !.matches = @ + c]
  BY <1>1, <1>2 DEF CountEvaluation
<1>6. stats' = [events |-> e + 1, matches |-> m + c, findings |-> f + k]
  BY <1>4, <1>5
<1>7. e + 1 \in Nat /\ m + c \in Nat /\ f + k \in Nat /\ f + k <= e + 1 /\ f + k <= m + c
  BY <1>2, <1>3, <1>4
<1> QED BY <1>6, <1>7 DEF StatsAgree

LEMMA EvaluationKeeps ==
    ASSUME DetectionInv, NEW method \in Methods, NEW requested \in Requests,
           NEW failing \in SUBSET RuleTypes, NEW ev \in Events,
           Evaluate(method, requested, failing, ev)
    PROVE  DetectionInv'
<1>1. /\ engines \in [RuleTypes -> EngineType \cup {None}] /\ counts \in [Builtins -> Nat]
      /\ StatsAgree /\ enabled \in BOOLEAN
  BY DEF DetectionInv, DetectionConsistent, DetectionTypeOK, StatsAgree
<1>2. PICK es : es = Ready
  OBVIOUS
<1>3. es \in [RuleTypes -> EngineType \cup {None}] /\ Counted(es) \in [Builtins -> Nat]
  BY <1>1, <1>2, RegistryStaysTyped DEF Ready
<1>4. PICK asked : asked = Registered(es) \cap IF requested = {} THEN RuleTypes ELSE requested
  OBVIOUS
<1>5. asked \subseteq RuleTypes /\ \A t \in asked : es[t] # None
  BY <1>4 DEF Registered
<1>6. PICK report : report = AllMatches(engines', asked, failing, ev)
  OBVIOUS
<1>7. /\ engines' = [t \in RuleTypes |-> IF t \in asked THEN Prepared(t, es[t]) ELSE es[t]]
      /\ initialized' = TRUE /\ counts' = (IF initialized THEN counts ELSE Counted(es))
      /\ last' = [event |-> ev, asked |-> asked, failing |-> failing, report |-> report,
                  finding |-> IF method = "finding" /\ report # {}
                              THEN AddMatches(report) ELSE NoFinding]
      /\ UNCHANGED stats \/ CountEvaluation(report, method = "finding")
      /\ enabled' = enabled
  BY <1>2, <1>4, <1>6 DEF Evaluate
<1>8. \A t \in asked : Prepared(t, es[t]) \in EngineType
  BY <1>3, <1>5, EnginesStayTyped
<1>9. /\ engines' \in [RuleTypes -> EngineType \cup {None}]
      /\ \A t \in asked : engines'[t] \in EngineType
  BY <1>3, <1>5, <1>7, <1>8
<1>10. counts' \in [Builtins -> Nat]
  BY <1>1, <1>3, <1>7
<1>11. report \subseteq RuleTypes \X RuleIds
  <2>1. ASSUME NEW t \in asked PROVE EngineMatches(engines'[t], ev) \subseteq RuleIds
    BY <1>9 DEF EngineMatches, EngineType
  <2> QED BY <1>5, <1>6, <2>1 DEF AllMatches
<1>12. Cardinality(report) \in Nat /\ (report # {} => Cardinality(report) >= 1)
  BY <1>11, ReportsAreFinite
<1>13. StatsAgree'
  <2>1. CASE UNCHANGED stats
    BY <1>1, <2>1 DEF StatsAgree
  <2>2. CASE CountEvaluation(report, method = "finding")
    <3>1. (method = "finding") \in BOOLEAN
      OBVIOUS
    <3> QED BY <1>1, <1>12, <2>2, <3>1, CountedTogether
  <2> QED BY <1>7, <2>1, <2>2
<1>14. last'.report = report /\ FindingIsMade'
  BY <1>7 DEF FindingIsMade
<1> QED
  BY <1>1, <1>7, <1>9, <1>10, <1>11, <1>13, <1>14
     DEF DetectionInv, DetectionConsistent, DetectionTypeOK, StatsAgree

LEMMA DetectionInvariant == DetectionSpec => []DetectionInv
<1>1. DetectionInit => DetectionInv
  <2> SUFFICES ASSUME DetectionInit PROVE DetectionInv
    OBVIOUS
  <2>1. last.report = {} /\ last.finding = NoFinding /\ last = NoEvaluation
    BY DEF DetectionInit, NoEvaluation
  <2>2. /\ engines \in [RuleTypes -> EngineType \cup {None}] /\ counts \in [Builtins -> Nat]
        /\ initialized \in BOOLEAN /\ enabled \in BOOLEAN
    BY DEF DetectionInit
  <2>3. StatsAgree
    BY DEF DetectionInit, StatsAgree
  <2> QED BY <2>1, <2>2, <2>3
             DEF DetectionInv, DetectionConsistent, DetectionTypeOK, FindingIsMade, StatsAgree
<1>2. ASSUME DetectionInv, [DetectionNext]_detectionVars PROVE DetectionInv'
  <2>0. /\ engines \in [RuleTypes -> EngineType \cup {None}] /\ counts \in [Builtins -> Nat]
        /\ initialized \in BOOLEAN /\ enabled \in BOOLEAN
    BY <1>2 DEF DetectionInv, DetectionConsistent, DetectionTypeOK
  (* What a step must show that does not evaluate an event. *)
  <2>1. ASSUME UNCHANGED <<stats, last>>, initialized' = initialized \/ initialized' = TRUE,
               engines' \in [RuleTypes -> EngineType \cup {None}], counts' \in [Builtins -> Nat],
               enabled' \in BOOLEAN
        PROVE  DetectionInv'
    <3>1. FindingIsMade' /\ StatsAgree' /\ last'.report \subseteq RuleTypes \X RuleIds
      BY <1>2, <2>1
         DEF DetectionInv, DetectionConsistent, DetectionTypeOK, FindingIsMade, StatsAgree
    <3>2. ~initialized' => last' = NoEvaluation
      BY <1>2, <2>1 DEF DetectionInv, DetectionConsistent
    <3>3. initialized' \in BOOLEAN
      BY <2>0, <2>1
    <3> QED BY <2>1, <3>1, <3>2, <3>3
               DEF DetectionInv, DetectionConsistent, DetectionTypeOK, StatsAgree
  <2>2. ASSUME NEW files \in {{}, SigmaFiles}, NEW listed \in {{}, Listed},
               InitializeRegistry(files, listed)
        PROVE  DetectionInv'
    <3>1. files \in SUBSET RuleIds /\ listed \in SUBSET Indicators
      BY DEF RuleIds, Indicators
    <3>2. engines' = Initialized(engines, files, listed) /\ counts' = Counted(engines')
          /\ initialized' = TRUE /\ UNCHANGED <<enabled, stats, last>>
      BY <2>2 DEF InitializeRegistry, Initialize
    <3>3. engines' \in [RuleTypes -> EngineType \cup {None}]
      BY <2>0, <3>1, <3>2, RegistryStaysTyped
    <3>4. counts' \in [Builtins -> Nat]
      <4>1. PICK es : es = engines'
        OBVIOUS
      <4>2. Counted(es) \in [Builtins -> Nat]
        BY <3>1, <3>3, <4>1, RegistryStaysTyped
      <4> QED BY <3>2, <4>1, <4>2
    <3> QED BY <2>0, <2>1, <3>2, <3>3, <3>4
  <2>3. ASSUME NEW t \in RuleTypes, NEW custom \in BOOLEAN,
               RegisterEngine(t, [Engine(IF custom THEN Extra ELSE {}) EXCEPT !.custom = custom])
        PROVE  DetectionInv'
    <3>1. [Engine(IF custom THEN Extra ELSE {}) EXCEPT !.custom = custom] \in EngineType
      BY DEF Engine, EngineType, RuleIds
    <3>2. engines' \in [RuleTypes -> EngineType \cup {None}]
      BY <2>0, <2>3, <3>1 DEF RegisterEngine
    <3> QED BY <2>0, <2>1, <2>3, <3>2 DEF RegisterEngine
  <2>4. CASE ReloadRules
    <3>1. engines' \in [RuleTypes -> EngineType \cup {None}]
      BY <2>0, <2>4, EnginesStayTyped DEF ReloadRules
    <3>2. counts' \in [Builtins -> Nat]
      <4>1. PICK es : es = engines'
        OBVIOUS
      <4>2. Counted(es) \in [Builtins -> Nat]
        BY <3>1, <4>1, RegistryStaysTyped
      <4> QED BY <2>4, <4>1, <4>2 DEF ReloadRules
    <3> QED BY <2>0, <2>1, <2>4, <3>1, <3>2 DEF ReloadRules
  <2>5. ASSUME NEW t \in RuleTypes, ChangeEngine(t) PROVE DetectionInv'
    <3>1. engines[t] \in EngineType
      BY <2>0, <2>5 DEF ChangeEngine
    <3>2. ASSUME NEW r \in Extra \cup engines[t].rules, NEW off \in {{}, {r}}
          PROVE  [engines[t] EXCEPT !.rules = @ \cup {r}, !.off = (@ \ {r}) \cup off] \in EngineType
      BY <3>1 DEF EngineType, RuleIds
    <3>3. [engines[t] EXCEPT !.rules = {}, !.off = {}, !.ready = FALSE] \in EngineType
      BY <3>1 DEF EngineType
    <3>4. engines' \in [RuleTypes -> EngineType \cup {None}]
      <4>1. CASE \E r \in Extra \cup engines[t].rules : \E off \in {{}, {r}} :
                     engines' = [engines EXCEPT ![t] =
                         [engines[t] EXCEPT !.rules = @ \cup {r}, !.off = (@ \ {r}) \cup off]]
        BY <2>0, <3>2, <4>1
      <4>2. CASE engines' = [engines EXCEPT ![t] =
                                 [engines[t] EXCEPT !.rules = {}, !.off = {}, !.ready = FALSE]]
        BY <2>0, <3>3, <4>2
      <4> QED BY <2>0, <2>5, <4>1, <4>2 DEF ChangeEngine
    <3> QED BY <2>0, <2>1, <2>5, <3>4 DEF ChangeEngine
  <2>6. CASE SetEnabled
    BY <2>0, <2>1, <2>6 DEF SetEnabled
  <2>7. CASE UNCHANGED detectionVars
    BY <2>0, <2>1, <2>7 DEF detectionVars
  <2>8. ASSUME NEW method \in Methods, NEW requested \in Requests,
               NEW failing \in SUBSET RuleTypes, NEW ev \in Events,
               Evaluate(method, requested, failing, ev)
        PROVE  DetectionInv'
    BY <1>2, <2>8, EvaluationKeeps
  <2> QED BY <1>2, <2>2, <2>3, <2>4, <2>5, <2>6, <2>7, <2>8 DEF DetectionNext
<1> QED BY <1>1, <1>2, PTL DEF DetectionSpec

(* evaluate_to_finding(), for every set of rules, severities and engines   *)
(* and every sequence of calls: the finding has the severity of one of its *)
(* matches, none is more severe, and it counts them all.                   *)
THEOREM FindingsAreTruthful == DetectionSpec => []FindingTruthful
<1>1. ASSUME DetectionInv PROVE FindingTruthful
  <2>1. last.report \subseteq RuleTypes \X RuleIds /\ DetectionConsistent /\ FindingIsMade
    BY <1>1 DEF DetectionInv, DetectionConsistent, DetectionTypeOK
  <2>2. ASSUME last.finding # NoFinding
        PROVE  /\ \E m \in last.report : Severity[m[2]] = last.finding.severity
               /\ \A m \in last.report : Severity[m[2]] <= last.finding.severity
               /\ last.finding.count = Cardinality(last.report)
    <3>1. last.report # {} /\ last.finding = AddMatches(last.report)
      BY <2>1, <2>2 DEF FindingIsMade
    <3>2. /\ IsFiniteSet(last.report) /\ \A m \in last.report : Sev(m) \in 0..4
      BY <2>1, ReportsAreFinite
    <3>3. PICK w : w = last.finding.severity
      OBVIOUS
    <3>4. IsWorst(w, last.report) /\ last.finding.count = Cardinality(last.report)
      BY <3>1, <3>2, <3>3, FindingIsWorst
    <3>5. PICK n \in last.report : TRUE
      BY <3>1
    <3>6. \E m \in last.report : Sev(m) = w
      <4>1. CASE w = 0
        <5>1. Sev(n) \in 0..4 /\ Sev(n) <= 0
          BY <3>2, <3>4, <3>5, <4>1 DEF IsWorst
        <5>2. Sev(n) = w
          BY <4>1, <5>1
        <5> QED BY <3>5, <5>2
      <4>2. CASE w # 0
        BY <3>4, <4>2 DEF IsWorst
      <4> QED BY <4>1, <4>2
    <3> QED BY <3>3, <3>4, <3>6 DEF IsWorst, Sev
  <2> QED BY <2>1, <2>2 DEF FindingTruthful
<1> QED BY <1>1, DetectionInvariant, PTL
=============================================================================
