---------------------------- MODULE ResponsePlan ----------------------------
(***************************************************************************)
(* ResponseRecommendationAgent (backend/app/agents/specialized/            *)
(* response_recommendation.py): from what a task says of an incident, the  *)
(* actions against it, in the order in which they are to be carried out.   *)
(* The lists of hosts and users it works on are those of the incident it   *)
(* was given: what an event adds to them stays with the caller's incident, *)
(* and is there again when the task is retried.                            *)
(***************************************************************************)
EXTENDS Integers, Sequences, SequencesExt, FiniteSetsExt, StableOrder

CONSTANTS PlanIncidents,    \* incidents that a caller holds: [class, hosts, users]
          PlanFindings,     \* [threat, addresses]
          PlanEvents,       \* [host, address, user]
          NotGiven,         \* what a task, or an event, leaves out; also a null threat type
          HostLimit, ResetLimit, AddressLimit, \* 5, 10 and 10 in the code
          Lengthy,          \* 120 minutes in the code
          MaxListed         \* bound: the users an incident lists

ASSUME PlanAssumption ==
    /\ {HostLimit, ResetLimit, AddressLimit, Lengthy} \subseteq Nat
    /\ HostLimit <= ResetLimit
    /\ \A i \in PlanIncidents : /\ i = [class |-> i.class, hosts |-> i.hosts, users |-> i.users]
                                /\ IsList(i.hosts) /\ IsList(i.users)
    /\ \A f \in PlanFindings : IsList(f.addresses)

VARIABLES incident, plan    \* the caller's incident; the last result

planVars == <<incident, plan>>

Template(kind, urgency, automation, target, minutes) ==
    [kind |-> kind, urgency |-> urgency, automation |-> automation, target |-> target,
     minutes |-> minutes]

Templates ==
    [isolate_host |-> Template("containment", "immediate", "semi", "host", 5),
     disable_user |-> Template("containment", "immediate", "approval", "user", 2),
     block_ip |-> Template("containment", "urgent", "full", "network", 1),
     quarantine_email |-> Template("containment", "urgent", "semi", "application", 15),
     remove_malware |-> Template("eradication", "urgent", "semi", "host", 30),
     reset_credentials |-> Template("eradication", "urgent", "approval", "user", 10),
     patch_vulnerability |-> Template("eradication", "standard", "manual", "host", 60),
     remove_persistence |-> Template("eradication", "urgent", "manual", "host", 45),
     restore_backup |-> Template("recovery", "standard", "manual", "host", 120),
     reimage_host |-> Template("recovery", "standard", "manual", "host", 180),
     restore_service |-> Template("recovery", "deferred", "approval", "network", 15)]

-----------------------------------------------------------------------------
Given(x) == IF x = NotGiven THEN <<>> ELSE <<x>>

(* The finding tells the threat, the incident the class and the lists, the *)
(* event adds to the lists.                                                *)
ExtractContext(given, finding, event) ==
    LET lists == IF given THEN incident ELSE [class |-> "other", hosts |-> <<>>, users |-> <<>>]
        found == IF finding = NotGiven THEN [threat |-> "unknown", severe |-> FALSE, addresses |-> <<>>]
                 ELSE finding
        seen == IF event = NotGiven THEN [host |-> NotGiven, address |-> NotGiven, user |-> NotGiven]
                ELSE event
    IN  [threat |-> found.threat, severe |-> found.severe, class |-> lists.class,
         hosts |-> lists.hosts \o Given(seen.host), users |-> lists.users \o Given(seen.user),
         addresses |-> found.addresses \o Given(seen.address)]

HasMalware(c) == "malware" \in {c.threat, c.class}
HasC2(c) == c.threat = "c2" \/ c.class = "command"
StealsCredentials(c) == c.threat = "credential" \/ c.class = "phishing"

FirstOf(s, limit) == SubSeq(s, 1, IF Len(s) < limit THEN Len(s) ELSE limit)

(* An action per target, from its template.                                *)
Against(name, targets) == [n \in DOMAIN targets |-> [name |-> name, target |-> targets[n]]]
When(condition, actions) == IF condition THEN actions ELSE <<>>
Once(name) == Against(name, <<NotGiven>>)

(* Of domains a context has none.                                          *)
ContainmentActions(c) ==
    Against("isolate_host", FirstOf(c.hosts, HostLimit))
    \o When(StealsCredentials(c), Against("disable_user", FirstOf(c.users, HostLimit)))
    \o When(HasC2(c), Against("block_ip", FirstOf(c.addresses, AddressLimit)))
    \o When(c.class = "phishing", Once("quarantine_email"))

SlipCleansAll(c) ==
    When(HasMalware(c), Against("remove_malware", c.hosts))
    \o Against("reset_credentials", FirstOf(c.users, ResetLimit))
    \o When(HasMalware(c) \/ HasC2(c), Once("remove_persistence"))
    \o When(c.threat = "exploit", Once("patch_vulnerability"))

EradicationActions(c) ==
    When(HasMalware(c), Against("remove_malware", FirstOf(c.hosts, HostLimit)))
    \o Against("reset_credentials", FirstOf(c.users, ResetLimit))
    \o When(HasMalware(c) \/ HasC2(c), Once("remove_persistence"))
    \o When(c.threat = "exploit", Once("patch_vulnerability"))

RecoveryActions(c) == When(c.severe \/ HasMalware(c), Once("restore_backup"))
                      \o When(c.class = "ransomware", Once("reimage_host"))
                      \o Once("restore_service")

Minutes(actions) ==
    FoldLeft(LAMBDA total, a : total + Templates[a.name].minutes, 0, actions)

Approvals(actions) ==
    LET used == {Templates[a.name] : a \in ToSet(actions)}
    IN  (IF \E t \in used : t.automation = "approval" THEN {"security"} ELSE {})
        \cup (IF \E t \in used : t.target = "user" THEN {"hr"} ELSE {})
        \cup (IF Minutes(actions) > Lengthy THEN {"operations"} ELSE {})

Recommended(c) ==
    LET actions == ContainmentActions(c) \o EradicationActions(c) \o RecoveryActions(c)
        immediate == SelectSeq(actions, LAMBDA a : Templates[a.name].urgency = "immediate")
    IN  IF c.threat = NotGiven THEN [status |-> "failed", actions |-> <<>>]
        ELSE [status |-> "success", actions |-> actions, approvals |-> Approvals(actions),
              minutes |-> Minutes(actions), severity |-> IF Len(immediate) > 2 THEN 3 ELSE 2]

Recommend(given, finding, event) ==
    LET c == ExtractContext(given, finding, event)
    IN  /\ Len(c.users) <= MaxListed /\ Len(c.hosts) <= MaxListed
        /\ plan' = Recommended(c)
        /\ incident' = IF given THEN [incident EXCEPT !.hosts = c.hosts, !.users = c.users]
                       ELSE incident

PlanInit == incident \in PlanIncidents /\ plan = [status |-> "none", actions |-> <<>>]

PlanNext == \E given \in BOOLEAN, finding \in PlanFindings \cup {NotGiven},
               event \in PlanEvents \cup {NotGiven} : Recommend(given, finding, event)

PlanSpec == PlanInit /\ [][PlanNext]_planVars

-----------------------------------------------------------------------------
(* Whether action m is called `name` and n `other`, against one target.    *)
Both(m, name, n, other) == /\ plan.actions[m].name = name /\ plan.actions[n].name = other
                           /\ plan.actions[m].target = plan.actions[n].target

(* A plan can be carried out in its order, however long its lists grew: no *)
(* host is cleaned that was not isolated before, an account that was       *)
(* disabled gets new credentials after, and normal access comes back last, *)
(* with an approval; containment is before eradication, that before        *)
(* recovery.                                                               *)
CleanedWereIsolated ==
    plan.status = "success" =>
        /\ \A n \in DOMAIN plan.actions :
              /\ plan.actions[n].name = "remove_malware" =>
                    \E m \in 1..(n - 1) : Both(m, "isolate_host", n, "remove_malware")
              /\ plan.actions[n].name = "disable_user" =>
                    \E m \in n..Len(plan.actions) : Both(m, "reset_credentials", n, "disable_user")
              /\ plan.actions[n].name = "restore_service" <=> n = Len(plan.actions)
        /\ \A m, n \in DOMAIN plan.actions :
              LET place(k) == SelectInSeq(<<"containment", "eradication", "recovery">>,
                                          LAMBDA kind : kind = Templates[plan.actions[k].name].kind)
              IN  m < n => place(m) <= place(n)
        /\ "security" \in plan.approvals
=============================================================================
