---------------------------- MODULE MCDetection ----------------------------
(***************************************************************************)
(* The detection layer: the orchestrator with its engines, and on its own  *)
(* one compiled Sigma rule.  `subject` is chosen at the start.             *)
(***************************************************************************)
EXTENDS DetectionEngine, SigmaRules, TLC

VARIABLE subject

layerVars == <<detectionVars, sigmaVars, subject>>

LayerInit == /\ DetectionInit /\ SigmaInit
             /\ \/ subject = "engine" /\ rule = CHOOSE r \in Rules : TRUE
                \/ subject = "sigma"
LayerNext == /\ \/ subject = "engine" /\ DetectionNext /\ UNCHANGED sigmaVars
                \/ subject = "sigma" /\ SigmaNext /\ UNCHANGED detectionVars
             /\ UNCHANGED subject
LayerSpec == LayerInit /\ [][LayerNext]_layerVars

-----------------------------------------------------------------------------
(* The rules of the instance and their severities, and three events: one   *)
(* that bundled and built-in rules match, one that the configured and the  *)
(* custom ones do and that carries a sample indicator, one that carries a  *)
(* listed indicator.                                                       *)
SampleSeverity == "brute" :> 3 @@ "site" :> 2 @@ "sqli" :> 3 @@ "custom" :> 1 @@ "ioc" :> 4
SampleEvents == {[hits |-> {"brute", "sqli"}, carried |-> {}],
                 [hits |-> {"site", "custom"}, carried |-> {"demo"}],
                 [hits |-> {}, carried |-> {"bad"}]}

(* Conditions with one pattern and with two, any or all of which must fit, *)
(* and one that denies.                                                    *)
Condition(f, patterns, negate, all) ==
    [field |-> f, patterns |-> patterns, negate |-> negate, matchAll |-> all]
SampleConditions == {Condition("image", {"p"}, FALSE, FALSE),
                     Condition("command", {"p", "q"}, FALSE, FALSE),
                     Condition("command", {"p", "q"}, FALSE, TRUE),
                     Condition("image", {"q"}, TRUE, FALSE)}

(* Selections in the shape of the bundled ones: one pattern, no negation.  *)
Plain == {Condition(f, {p}, FALSE, FALSE) : f \in Fields, p \in Patterns}
=============================================================================
