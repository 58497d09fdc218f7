-------------------------- MODULE IntelEnrichment --------------------------
(***************************************************************************)
(* ThreatIntelligenceAgent (backend/app/agents/specialized/                *)
(* threat_intelligence.py): the indicators that a task lists or has in its *)
(* fields are looked up in what is known to be malicious, and from what is *)
(* found come techniques, a score and a severity.  An indicator is looked  *)
(* up once, as what it is taken for where it comes first: as what it looks *)
(* like in a list, as what the field is for in a field.                    *)
(***************************************************************************)
EXTENDS Integers, Sequences, SequencesExt, FiniteSetsExt, StableOrder

CONSTANTS IntelTasks,     \* the tasks that arrive
          Known,          \* a function: what is known of an indicator, as in Entry
          Kind,           \* a function: what an indicator looks like
          NullIndicator   \* a null where an indicator or the event's type should be

IndicatorKinds == {"ip_address", "domain", "file_hash", "url", "other"}
Entry == [type : {"ip_address", "domain", "file_hash"}, category : STRING, confidence : 0..100]

(* What is known as an address looks like one.                             *)
ASSUME EnrichmentAssumption == /\ Kind \in [DOMAIN Kind -> IndicatorKinds]
                               /\ DOMAIN Known \subseteq DOMAIN Kind
                               /\ \A i \in DOMAIN Known : Known[i] \in Entry
                               /\ \A i \in DOMAIN Known :
                                     Known[i].type = "ip_address" => Kind[i] = "ip_address"

(* `fields` is a function from some of the fields below, `hints` are the   *)
(* words of the event type.                                                *)
IntelTask(task) ==
    /\ task = [listed |-> task.listed, fields |-> task.fields, techniques |-> task.techniques,
               hints |-> task.hints]
    /\ task.listed \in Seq(DOMAIN Kind \cup {NullIndicator})

ASSUME TasksAssumption == \A task \in IntelTasks : IntelTask(task)

VARIABLES intelTask, intelAnswer

enrichmentVars == <<intelTask, intelAnswer>>

-----------------------------------------------------------------------------
(* The fields in the order in which they are read, those of the event      *)
(* last, and what they are for.                                            *)
FieldTypes ==
    <<<<"ip", "ip_address">>, <<"source_ip", "ip_address">>, <<"destination_ip", "ip_address">>,
      <<"domain", "domain">>, <<"hostname", "domain">>, <<"hash", "hash">>, <<"url", "url">>,
      <<"event.source_ip", "ip_address">>, <<"event.destination_ip", "ip_address">>,
      <<"event.domain", "domain">>, <<"event.url", "url">>, <<"event.hash", "hash">>>>

(* What is not a hash by its length counts as a domain.                    *)
TakenFor(indicator, type) ==
    IF type # "hash" THEN type ELSE IF Kind[indicator] = "file_hash" THEN "file_hash" ELSE "domain"

Claim(indicator, type) == [value |-> indicator, type |-> type]

ListedClaims(task) == [n \in DOMAIN task.listed |-> Claim(task.listed[n], Kind[task.listed[n]])]

FieldClaims(task) ==
    LET given == Those(FieldTypes, LAMBDA f : f[1] \in DOMAIN task.fields)
    IN  [n \in DOMAIN given |-> LET value == task.fields[given[n][1]]
                                IN  Claim(value, TakenFor(value, given[n][2]))]

FirstClaims(claims) ==
    Kept(claims, {n \in DOMAIN claims : \A m \in 1..(n - 1) : claims[m].value # claims[n].value})

SlipFieldsFirst(task) == FirstClaims(FieldClaims(task) \o ListedClaims(task))

ExtractIocs(task) == FirstClaims(ListedClaims(task) \o FieldClaims(task))

(* The claims of what is known to be malicious as what it is taken for.    *)
Malicious(claims) ==
    {c \in ToSet(claims) : c.value \in DOMAIN Known /\ Known[c.value].type = c.type}

CategoryTechniques(category) ==
    CASE category = "phishing" -> {"T1566", "T1566.001"}
      [] category \in {"command_and_control", "botnet"} -> {"T1071"}
      [] category = "malware" -> {"T1059"}
      [] category = "ransomware" -> {"T1486"}
      [] OTHER -> {}

HintTechniques(hint) == CASE hint \in {"auth_failed", "brute_force"} -> {"T1110"}
                          [] hint = "port_scan" -> {"T1046"}
                          [] hint = "lateral_movement" -> {"T1021"}
                          [] hint = "data_exfil" -> {"T1048"}
                          [] OTHER -> {}

MitreTechniques == {"T1566", "T1566.001", "T1071", "T1110", "T1046", "T1048", "T1059", "T1078",
                    "T1021", "T1486"}

MapTechniques(task, found) ==
    (task.techniques \cap MitreTechniques)
    \cup UNION {CategoryTechniques(Known[c.value].category) : c \in found}
    \cup UNION {HintTechniques(h) : h \in task.hints}

(* The score is 0 without an indicator and 0.1 without a malicious one,    *)
(* which is the lowest severity, and else the mean of the confidences.     *)
(* (A mean of floats just at 0.9 may fall on either side of it.)           *)
ScoreSeverity(found) ==
    LET sum == SumFunctionOnSet([c \in found |-> Known[c.value].confidence], found)
        reaches(percent) == found # {} /\ sum >= percent * Cardinality(found)
    IN  CASE reaches(90) -> 4
          [] ~reaches(90) /\ reaches(70) -> 3
          [] ~reaches(70) /\ reaches(40) -> 2
          [] ~reaches(40) /\ reaches(20) -> 1
          [] OTHER -> 0

Enriched(task) ==
    LET claims == ExtractIocs(task)
        found == Malicious(claims)
    IN  IF NullIndicator \in ToSet(task.listed) \cup task.hints
        THEN [status |-> "failed", claims |-> <<>>, found |-> {}, techniques |-> {}, severity |-> 0]
        ELSE [status |-> "success", claims |-> claims, found |-> found,
              techniques |-> MapTechniques(task, found), severity |-> ScoreSeverity(found)]

EnrichTask(task) == intelTask' = task /\ intelAnswer' = Enriched(task)

EnrichmentInit == LET empty == [listed |-> <<>>, fields |-> <<>>, techniques |-> {}, hints |-> {}]
                  IN  intelTask = empty /\ intelAnswer = Enriched(empty)
EnrichmentNext == \E task \in IntelTasks : EnrichTask(task)
EnrichmentSpec == EnrichmentInit /\ [][EnrichmentNext]_enrichmentVars

-----------------------------------------------------------------------------
(* What is known is not hidden: a malicious indicator that is listed, or   *)
(* an address in an address field of the task, is found, whatever else the *)
(* task says of the same value; each indicator counts once; what is listed *)
(* and harmless changes nothing; and the severity is between those that    *)
(* the found ones have alone.                                              *)
KnownIsNotHidden ==
    intelAnswer.status = "success" =>
        LET found == {c.value : c \in intelAnswer.found}
            addresses == {intelTask.fields[f] : f \in {"ip", "source_ip", "destination_ip"}
                                                      \cap DOMAIN intelTask.fields}
            alone == {ScoreSeverity({c}) : c \in intelAnswer.found}
        IN  /\ ToSet(intelTask.listed) \cap {i \in DOMAIN Known : Known[i].type = Kind[i]} \subseteq found
            /\ addresses \cap {i \in DOMAIN Known : Known[i].type = "ip_address"} \subseteq found
            /\ Cardinality({c.value : c \in ToSet(intelAnswer.claims)}) = Len(intelAnswer.claims)
            /\ \A n \in DOMAIN intelTask.listed :
                  intelTask.listed[n] \notin DOMAIN Known =>
                      LET less == Enriched([intelTask EXCEPT !.listed = RemoveAt(@, n)])
                      IN  less.severity = intelAnswer.severity /\ less.techniques = intelAnswer.techniques
            /\ alone # {} => Min(alone) <= intelAnswer.severity /\ intelAnswer.severity <= Max(alone)
=============================================================================
