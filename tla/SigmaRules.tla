----------------------------- MODULE SigmaRules -----------------------------
(***************************************************************************)
(* How backend/app/detection/rules/sigma_engine.py compiles a Sigma rule   *)
(* and decides that it fires, beside what the rule says.  A rule has named *)
(* selections, each a set of conditions on fields of the event that must   *)
(* hold together, and a condition expression over their names.  The        *)
(* compiler keeps neither: all conditions go to one list, and of the       *)
(* expression only "all" or "any" is left.                                 *)
(*                                                                         *)
(* Whether a value contains, starts with, ends with, equals or matches a   *)
(* pattern is data: an event gives for each field the patterns that fit    *)
(* its value, or Absent if it has no such field.                           *)
(***************************************************************************)
EXTENDS Naturals, FiniteSets

CONSTANTS Fields, Patterns, Absent,
          Names,        \* of selections
          Conditions,   \* the conditions rules are made of
          MaxSize       \* bound: the conditions of a selection

ConditionType == [field : Fields, patterns : (SUBSET Patterns) \ {{}},
                  negate : BOOLEAN, matchAll : BOOLEAN]

ASSUME SigmaAssumption == Conditions \subseteq ConditionType /\ MaxSize \in Nat

SigmaEvents == [Fields -> {Absent} \cup SUBSET Patterns]

(* The forms of a condition expression:                                    *)
(*   "all of them", "1 of them"                                            *)
(*   "name"     a             "not"    a and not b                         *)
(*   "and"      a and b       "or"     a or b                              *)
(*   "mixed"    a and (b or c), as [of |-> {a}, but |-> {b, c}]            *)
Forms == {"all of them", "1 of them", "name", "not", "and", "or", "mixed"}
Expressions == [form : Forms, of : SUBSET Names, but : SUBSET Names]

-----------------------------------------------------------------------------
(* CompiledCondition.evaluate() *)

Present(c, ev) == ev[c.field] # Absent

Hits(c, ev) == IF Present(c, ev) THEN c.patterns \cap ev[c.field] ELSE {}

(* The first of the pair: whether the condition holds. *)
Holds(c, ev) ==
    IF ~Present(c, ev) THEN c.negate
    ELSE (IF c.matchAll THEN Hits(c, ev) = c.patterns ELSE Hits(c, ev) # {}) # c.negate

(* The second, the matched pattern, is None unless some pattern fits.      *)
EvaluateCondition(c, ev) == [matched |-> Holds(c, ev), value |-> Holds(c, ev) /\ Hits(c, ev) # {}]

-----------------------------------------------------------------------------
(* _compile_rule() and SigmaRule.matches(), for an enabled rule whose      *)
(* logsource lets the event through.                                       *)

SlipFirstSelection(rule) == rule.selections[CHOOSE n \in Names : TRUE]
(* _compile_detection(), _compile_selection(): one flat list. *)
CompileDetection(rule) == UNION {rule.selections[n] : n \in Names}

(* _parse_condition_logic(): " and " without " or " means "all"; a single  *)
(* name, and what has both, means "any".                                   *)
ParseConditionLogic(form) == IF form \in {"all of them", "not", "and"} THEN "all" ELSE "any"

(* A condition counts if it holds and a value matched.                     *)
MatchedConditions(rule, ev) ==
    {c \in CompileDetection(rule) : EvaluateCondition(c, ev).matched /\ EvaluateCondition(c, ev).value}

Matches(rule, ev) ==
    /\ MatchedConditions(rule, ev) # {}
    /\ ParseConditionLogic(rule.condition.form) = "all" =>
           MatchedConditions(rule, ev) = CompileDetection(rule)

-----------------------------------------------------------------------------
(* What the rule says: a selection holds when its conditions do, and the   *)
(* expression is about selections.                                         *)

Holding(rule, ev) == {n \in Names : \A c \in rule.selections[n] : Holds(c, ev)}

Written(rule, ev) ==
    LET yes == Holding(rule, ev)
        expr == rule.condition
    IN  CASE expr.form = "all of them" -> yes = Names
          [] expr.form = "1 of them" -> yes # {}
          [] expr.form \in {"name", "and"} -> expr.of \subseteq yes
          [] expr.form = "or" -> expr.of \cap yes # {}
          [] expr.form = "not" -> expr.of \subseteq yes /\ expr.but \cap yes = {}
          [] expr.form = "mixed" -> expr.of \subseteq yes /\ expr.but \cap yes # {}

-----------------------------------------------------------------------------
(* One rule, evaluated against any events. *)

VARIABLES rule, event, fired
sigmaVars == <<rule, event, fired>>

Selections == {s \in SUBSET Conditions : Cardinality(s) \in 1..MaxSize}

(* What the forms can name: at least one selection, and "name" just one.   *)
WellFormed(expr) ==
    /\ expr.of # {}
    /\ expr.form = "name" => \A a, b \in expr.of : a = b
    /\ expr.form \in {"not", "mixed"} => expr.but # {} /\ expr.of \cap expr.but = {}
    /\ expr.form \notin {"not", "mixed"} => expr.but = {}
    /\ expr.form \in {"all of them", "1 of them"} => expr.of = Names

Rules == [selections : [Names -> Selections], condition : {e \in Expressions : WellFormed(e)}]

SigmaInit == /\ rule \in Rules
             /\ event = [f \in Fields |-> Absent]
             /\ fired = Matches(rule, event)

(* SigmaEngine.evaluate() with this rule loaded. *)
EvaluateRule(ev) == /\ event' = ev
                    /\ fired' = Matches(rule, ev)
                    /\ UNCHANGED rule

SigmaNext == \E ev \in SigmaEvents : EvaluateRule(ev)

SigmaSpec == SigmaInit /\ [][SigmaNext]_sigmaVars

-----------------------------------------------------------------------------

Positive(r) == /\ r.condition.form # "not"
               /\ \A n \in Names : \A c \in r.selections[n] : ~c.negate

(* The direction in which the compiled rule errs, for a rule that denies   *)
(* nothing: reduced to "any" it never misses an event the rule describes,  *)
(* reduced to "all" it never fires on one the rule does not.               *)
ErrsOneWay ==
    Positive(rule) =>
        IF ParseConditionLogic(rule.condition.form) = "any"
        THEN Written(rule, event) => fired
        ELSE fired => Written(rule, event)

(* "Supports common Sigma modifiers and conditions" (sigma_engine.py:4): a *)
(* rule fires on the events it describes, and on no other.                 *)
FiresAsWritten == fired <=> Written(rule, event)
=============================================================================
