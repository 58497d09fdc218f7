------------------------------ MODULE Alerting ------------------------------
(***************************************************************************)
(* AlertManager and AlertPrioritizer (backend/app/alerting/__init__.py).   *)
(* Creating an alert calls every handler, in the list as it is: one that   *)
(* raises is passed over, one that registers another handler meanwhile     *)
(* has that one called as well.                                            *)
(***************************************************************************)
EXTENDS Integers, Sequences, SequencesExt, FiniteSetsExt, StableOrder

CONSTANTS Handlers,       \* [name, does]: what a handler does when called
          Levels, Categories, \* of alerts created; levels 1 (info) to 5 (critical)
          MaxAlerts, MaxAlertTime \* bounds: alerts created, the clock

Deeds == {"returns", "raises", "registers"}

(* AlertCategory, each of which has a multiplier.                          *)
AlertCategories == {"data_exfiltration", "malware", "intrusion", "phishing", "brute_force",
                    "vulnerability", "anomaly", "policy_violation", "system"}

(* No handler of a caller has the name that those have here which handlers *)
(* registered.                                                             *)
ASSUME AlertAssumption == /\ Handlers \subseteq [name : STRING, does : Deeds]
                          /\ \A h \in Handlers : h.name # "recruit"
                          /\ Levels \subseteq 1..5 /\ Categories \subseteq AlertCategories
                          /\ MaxAlerts \in Nat /\ MaxAlertTime \in Nat

VARIABLES alertTime, alerts,     \* _alerts, in the order they were created
          handlers,              \* _handlers, without those that a handler registered
          recruits,              \* how many more a handler registered, which return
          told                   \* for each alert, who was there and who was called: a history variable

alertVars == <<alertTime, alerts, handlers, recruits, told>>

-----------------------------------------------------------------------------
Registering == Cardinality({n \in DOMAIN handlers : handlers[n].does = "registers"})

SlipStopsAtRaise ==
    LET n == SelectInSeq(handlers, LAMBDA h : h.does = "raises")
    IN  IF n = 0 THEN handlers \o [k \in 1..(recruits + Registering) |->
                                      [name |-> "recruit", does |-> "returns"]]
        ELSE SubSeq(handlers, 1, n)

(* The loop: the handlers that were there, their recruits of earlier       *)
(* alerts, and those of this one.                                          *)
Called == handlers \o [n \in 1..(recruits + Registering) |-> [name |-> "recruit", does |-> "returns"]]

CreateAlert(level, category, assets) ==
    /\ Len(alerts) < MaxAlerts
    /\ alerts' = Append(alerts, [level |-> level, category |-> category, assets |-> assets,
                                 status |-> "new", created |-> alertTime])
    /\ told' = Append(told, [there |-> handlers, called |-> Called])
    /\ recruits' = recruits + Registering
    /\ UNCHANGED <<alertTime, handlers>>

(* update_alert() can set any status; the others, whatever it was, theirs. *)
ChangeStatus(n, status) ==
    /\ alerts' = [alerts EXCEPT ![n].status = status]
    /\ UNCHANGED <<alertTime, handlers, recruits, told>>

UpdateAlert(n, status) == ChangeStatus(n, status)
AcknowledgeAlert(n) == ChangeStatus(n, "acknowledged")
ResolveAlert(n, isFalse) == ChangeStatus(n, IF isFalse THEN "false_positive" ELSE "resolved")

RegisterHandler(h) ==
    /\ h \notin ToSet(handlers) /\ recruits = 0
    /\ handlers' = Append(handlers, h)
    /\ UNCHANGED <<alertTime, alerts, recruits, told>>

AlertTimePasses ==
    /\ alertTime < MaxAlertTime /\ alertTime' = alertTime + 1
    /\ UNCHANGED <<alerts, handlers, recruits, told>>

AlertInit == alertTime = 0 /\ alerts = <<>> /\ handlers = <<>> /\ recruits = 0 /\ told = <<>>

AlertNext ==
    \/ \E level \in Levels, category \in Categories, assets \in {1, 4} :
           CreateAlert(level, category, assets)
    \/ \E n \in DOMAIN alerts : \/ \E status \in {"in_progress", "suppressed"} : UpdateAlert(n, status)
                                \/ AcknowledgeAlert(n)
                                \/ \E isFalse \in BOOLEAN : ResolveAlert(n, isFalse)
    \/ \E h \in Handlers : RegisterHandler(h)
    \/ AlertTimePasses

AlertSpec == AlertInit /\ [][AlertNext]_alertVars

-----------------------------------------------------------------------------
(* list_alerts(): by severity, of one severity the latest first.           *)
ListAlerts(status) ==
    SortedBy(Those(alerts, LAMBDA a : status = "any" \/ a.status = status),
             LAMBDA a : -(MaxAlertTime + 1) * a.level - a.created)

(* CATEGORY_MULTIPLIERS, in tenths.                                        *)
Multiplier(category) ==
    CASE category = "data_exfiltration" -> 13
      [] category \in {"malware", "intrusion"} -> 12
      [] category = "phishing" -> 10
      [] category \in {"brute_force", "vulnerability"} -> 9
      [] category = "anomaly" -> 8
      [] category = "policy_violation" -> 7
      [] category = "system" -> 6

(* The score, in thousandths, of alerts without risk score and confidence. *)
PriorityScore(a) ==
    LET weight == <<10, 30, 50, 80, 100>>[a.level]
    IN  Min({1000, weight * Multiplier(a.category) + Min({100 * a.assets, 300})})

AlertCounts(of) == [x \in {of[n] : n \in DOMAIN of} |-> Cardinality({n \in DOMAIN of : of[n] = x})]

Tally(of) == MapThenSumSet(LAMBDA x : AlertCounts(of)[x], DOMAIN AlertCounts(of))

(* Everyone is told: of each alert every handler that was registered by    *)
(* then is told exactly once, in the order of registration, whatever other *)
(* handlers raise or register; the severities and the statuses both count  *)
(* each alert once, whatever became of it; a list of alerts is complete    *)
(* and has the gravest first; and of two alerts that differ in severity    *)
(* alone the milder one never gets the higher score.                       *)
EveryoneIsTold ==
    LET list == ListAlerts("any")
    IN  /\ Len(told) = Len(alerts)
        /\ \A n \in DOMAIN told :
              Those(told[n].called, LAMBDA h : h.name # "recruit") = told[n].there
        /\ Tally([n \in DOMAIN alerts |-> alerts[n].status]) = Len(alerts)
        /\ Tally([n \in DOMAIN alerts |-> alerts[n].level]) = Len(alerts)
        /\ Len(list) = Len(alerts) /\ ToSet(list) = ToSet(alerts)
        /\ \A m, n \in DOMAIN alerts : m < n => list[m].level >= list[n].level
        /\ \A a, b \in ToSet(alerts) :
              (a.level > b.level /\ a.category = b.category /\ a.assets = b.assets) =>
                  PriorityScore(a) >= PriorityScore(b)
=============================================================================
