------------------------------ MODULE MCAgents ------------------------------
(***************************************************************************)
(* The agents and what finds them their work, the registry, the router and *)
(* nine specialized agents, and what becomes of their findings: the        *)
(* correlation engine, the alerts and the investigations.  They share      *)
(* nothing but the tasks and findings that are given to them, so one run   *)
(* follows each of them on its own.                                        *)
(***************************************************************************)
EXTENDS AgentRegistry, TaskRouter, LogAnalyzer, NetworkThreat, CorrelationAgent,
        EmailVerification, Prioritization, ResponsePlan, InvestigationAgent,
        Alerting, CorrelationEngine, ReportGeneration, IntelEnrichment, InvestigationEngine

CONSTANT Subjects

VARIABLE subject

agentsVars == <<registryVars, routerVars, logVars, networkVars, correlationVars, emailVars,
                prioritizationVars, planVars, investigationVars, alertVars, engineVars, reportVars,
                enrichmentVars, caseVars, subject>>

AgentsInit ==
    /\ subject \in Subjects
    /\ RegistryInit /\ RouterInit /\ LogInit /\ NetworkInit /\ CorrelationInit /\ EmailInit
    /\ PrioritizationInit /\ (subject # "prioritization" => held = CHOOSE c \in Cases : TRUE)
    /\ PlanInit /\ (subject # "plan" => incident = CHOOSE i \in PlanIncidents : TRUE)
    /\ InvestigationInit /\ AlertInit /\ EngineInit
    /\ ReportInit /\ EnrichmentInit /\ CaseInit

Only(s) == /\ subject = s /\ UNCHANGED subject
           /\ s # "registry" => UNCHANGED registryVars
           /\ s # "router" => UNCHANGED routerVars
           /\ s # "log" => UNCHANGED logVars
           /\ s # "network" => UNCHANGED networkVars
           /\ s # "correlation" => UNCHANGED correlationVars
           /\ s # "email" => UNCHANGED emailVars
           /\ s # "prioritization" => UNCHANGED prioritizationVars
           /\ s # "plan" => UNCHANGED planVars
           /\ s # "investigation" => UNCHANGED investigationVars
           /\ s # "alerts" => UNCHANGED alertVars
           /\ s # "engine" => UNCHANGED engineVars
           /\ s # "report" => UNCHANGED reportVars
           /\ s # "enrichment" => UNCHANGED enrichmentVars
           /\ s # "cases" => UNCHANGED caseVars

AgentsNext == \/ Only("registry") /\ RegistryNext
              \/ Only("router") /\ RouterNext
              \/ Only("log") /\ LogNext
              \/ Only("network") /\ NetworkNext
              \/ Only("correlation") /\ CorrelationNext
              \/ Only("email") /\ EmailNext
              \/ Only("prioritization") /\ PrioritizationNext
              \/ Only("plan") /\ PlanNext
              \/ Only("investigation") /\ InvestigationNext
              \/ Only("alerts") /\ AlertNext
              \/ Only("engine") /\ EngineNext
              \/ Only("report") /\ ReportNext
              \/ Only("enrichment") /\ EnrichmentNext
              \/ Only("cases") /\ CaseNext

AgentsSpec == AgentsInit /\ [][AgentsNext]_agentsVars

-----------------------------------------------------------------------------
(* Of three classes of agents two have a capability in common.             *)
Skills == [t \in AgentTypes |-> CASE t = "log" -> {"parsing", "anomalies"}
                                  [] t = "network" -> {"anomalies"}
                                  [] OTHER -> {"headers"}]

(* Events that two rules want, that one wants for what they carry, and     *)
(* that none wants; the custom rules outrank, tie with and follow others.  *)
Arrivals ==
    {[source |-> "suricata", type |-> "c2_communication", fields |-> {"hash"}, severity |-> 2],
     [source |-> "suricata", type |-> "malware_detected", fields |-> {"hash"}, severity |-> 4],
     [source |-> "edr", type |-> "malware_detected", fields |-> {}, severity |-> 0],
     [source |-> "edr", type |-> "ip_analysis_request", fields |-> {"source_ip", "cidr"}, severity |-> 2],
     [source |-> "edr", type |-> "data_exfiltration", fields |-> {"related"}, severity |-> 3]}

FindingArrivals == {[kind |-> "network", matches |-> 1, severity |-> 4],
                    [kind |-> "other", matches |-> 2, severity |-> 0]}

OperatorRules ==
    {Rule("all_edr", "investigation", 92, {"edr"}, {}, {}, "always"),
     Rule("ioc_match", "correlation", 92, {}, {"malware_detected"}, {}, "always")}

LogEvents ==
    LET e == [id |-> "e1", key |-> "k1", hasAddress |-> TRUE, failure |-> TRUE,
              privilege |-> FALSE, offHours |-> FALSE, flaw |-> "none"]
    IN  [fail |-> e, again |-> [e EXCEPT !.id = "e2"],
         user |-> [e EXCEPT !.id = "e3", !.key = "k2", !.hasAddress = FALSE],
         fine |-> [e EXCEPT !.id = "e4", !.failure = FALSE, !.privilege = TRUE, !.offHours = TRUE],
         bad |-> [e EXCEPT !.id = "e5", !.flaw = "data"],
         timeless |-> [e EXCEPT !.id = "e6", !.flaw = "time"]]

LogArrivals == LET e == LogEvents IN
    {<<e.fail>>, <<e.fail, e.again>>, <<e.user, e.fine>>, <<e.again, e.bad>>, <<e.timeless, e.fail>>,
     <<e.user, e.user>>}

(* A beat of one pair, one flow without a time zone, one that cannot be    *)
(* added up, one that has no time and one of another pair.                 *)
FlowArrivals ==
    LET flow(p, port, bytes, at, aware, signs) ==
            [pair |-> p, named |-> TRUE, port |-> port, bytes |-> bytes,
             stamp |-> [at |-> at, aware |-> aware], signs |-> signs]
    IN  {flow("out", 1, 3, 0, TRUE, {}), flow("out", 2, 3, 2, TRUE, {"long_query", "c2_port"}),
         flow("out", 2, 0, 4, TRUE, {}), flow("out", 3, Null, 6, TRUE, {}),
         flow("out", Missing, 0, 4, FALSE, {}),
         [flow("in", 22, Missing, 0, TRUE, {"admin_port", "tld", "user_agent", "entropy"})
             EXCEPT !.stamp = Missing]}

CorArrivals ==
    LET event(id, stage, at, source, severity) ==
            [id |-> id, stage |-> stage, at |-> at, aware |-> TRUE, source |-> source,
             target |-> "t", user |-> NoKey, severity |-> severity]
        first == event("f", 3, 0, "s", 1)
        second == event("g", 5, 1, "s", 3)
        third == event("h", 8, 2, "u", 4)
        odd == event("o", 0, NoTime, "u", 2)
        whole == [n \in 1..7 |-> event("w", n + 3, n, "x", 2)]
        naive == [event("n", 3, 1, "u", 0) EXCEPT !.aware = FALSE, !.target = NoKey, !.user = "v"]
    IN  {<<first>>, <<second, first>>, <<third, first, second>>, <<third>>, <<odd>>, <<odd, odd, odd>>,
         <<naive>>, <<second, [first EXCEPT !.at = 1]>>, <<naive, third>>, whole}

EmailArrivals ==
    LET links == [a |-> [name |-> "a", odd |-> {"ip_based_url"}],
                  b |-> [name |-> "b", odd |-> {"ip_based_url", "suspicious_tld", "excessive_subdomains"}],
                  c |-> [name |-> "c", odd |-> {}]]
    IN  [form : EmailForms,
         signs : {{}, {"urgency_language", "financial_indicator"}, {"sender_mismatch"}, {"spf_fail"},
                  {"credential_request", "sender_mismatch"}, {"spf_fail", "dkim_fail", "urgency_language"}},
         urls : {{}, {links.a}, {links.a, links.b}, {links.b, links.c}},
         attachments : {0, 2}, readable : {TRUE}]
        \cup [form : EmailForms, signs : {{"spf_fail"}}, urls : {{links.a}}, attachments : {1},
              readable : {FALSE}]

CaseArrivals ==
    LET case(severity, assets, types, tactics) ==
            [severity |-> severity, assets |-> assets, users |-> 2, types |-> types, tactics |-> tactics]
    IN  {case(2, 1, {}, {}), case(1, 4, {"phishing"}, {"initial-access"}),
         case(3, 9, {"malware", "dos"}, {"lateral-movement"}), case(4, 12, {"unauthorized"}, {"exfiltration"}),
         case(0, NotANumber, {"insider"}, {}), case(4, 2, {}, {"reconnaissance", "impact"})}

CaseFindingArrivals == {[severity |-> 4, confidence |-> 90, type |-> "ransomware"],
                        [severity |-> 0, confidence |-> 30, type |-> "credential"],
                        [severity |-> 2, confidence |-> 60, type |-> "breach"]}

PlanIncidentArrivals ==
    {[class |-> "ransomware", hosts |-> <<"h1", "h2", "h3">>, users |-> <<"u1">>],
     [class |-> "phishing", hosts |-> <<"h1">>, users |-> <<"u1", "u2", "u3">>],
     [class |-> "command", hosts |-> <<>>, users |-> <<"u1", "u1">>],
     [class |-> "malware", hosts |-> <<"h1", "h1">>, users |-> <<>>]}

PlanFindingArrivals ==
    {[threat |-> threat, severe |-> threat # "c2", addresses |-> <<"x1">>] :
        threat \in {"malware", "c2", "credential", "exploit"}}
    \cup {[threat |-> NotGiven, severe |-> FALSE, addresses |-> <<>>]}

PlanEventArrivals == {[host |-> "h4", address |-> "x2", user |-> "u4"],
                      [host |-> NotGiven, address |-> "x3", user |-> "u5"]}

InvArrivals ==
    LET entry(id, at, severity, type) ==
            [id |-> id, at |-> at, aware |-> TRUE, severity |-> severity, type |-> type,
             source |-> "s", target |-> "t", user |-> NoName]
        finding == [entry("f", 1, 3, "lateral") EXCEPT !.source = NoName, !.target = NoName]
        naive == [entry("n", 2, 0, "login") EXCEPT !.aware = FALSE]
        user == [entry("u", 2, 1, "brute") EXCEPT !.user = "v", !.target = "w"]
    IN  {[id |-> "i1", events |-> <<>>, findings |-> <<>>],
         [id |-> "i1", events |-> <<user, entry("e", 1, 3, "phishing")>>, findings |-> <<finding>>],
         [id |-> "i2", events |-> <<entry("e", 1, 4, "login"), user, entry("g", 1, 3, "exploit")>>,
          findings |-> <<finding, finding>>],
         [id |-> NoId, events |-> <<user>>, findings |-> <<>>],
         [id |-> NoId, events |-> <<naive>>, findings |-> <<>>],
         [id |-> "i1", events |-> <<naive, user>>, findings |-> <<>>]}

(* A handler that raises and one that registers another, which returns.    *)
AlertHandlers == {[name |-> "mail", does |-> "raises"], [name |-> "page", does |-> "registers"]}

(* Findings of one campaign, of another and of both; the last one is late. *)
CampaignFindings ==
    LET finding(id, time, type, severity, ips, users) ==
            [id |-> id, at |-> time, type |-> type, severity |-> severity, ips |-> ips,
             domains |-> {}, users |-> users]
        mailed == finding("a", 0, "phishing", 2, {"i1", "i2"}, {"u1"})
        stolen == finding("b", 0, "credential_theft", 4, {"i1", "i2"}, {"u1"})
        forced == finding("c", 1, "brute_force", 0, {"i1"}, {"u1", "u2"})
        moved == finding("d", 2, "data_exfiltration", 3, {"i1"}, {"u2"})
        locked == finding("e", 3, "ransomware", 4, {"i3"}, {"u2"})
        slow(id, time) == finding(id, time, "brute_force", 3, {"i1", "i2"}, {"u1", "u2"})
    IN  {<<>>, <<slow("h", 3), slow("f", 0), slow("g", 2)>>, <<mailed>>, <<stolen, mailed>>, <<forced, mailed, stolen>>, <<moved, forced, stolen>>,
         <<locked, moved, mailed, stolen>>, <<mailed, forced, moved, locked>>, <<locked, moved>>}

(* Findings that can be listed, cannot or are no dicts, with and without   *)
(* an investigation whose list the caller keeps; a report of each type.    *)
ReportArrivals ==
    LET finding(id, dict, severity, said) == [id |-> id, dict |-> dict, severity |-> severity, said |-> said]
        good == finding("f", TRUE, 3, TRUE)
        mute == finding("g", TRUE, 1, FALSE)
        text == finding("h", FALSE, 0, FALSE)
        bad == finding("b", TRUE, NullValue, TRUE)
        plain == [type |-> Absent, format |-> "markdown", wants |-> {}, incident |-> Absent,
                  investigation |-> Absent, findings |-> <<good, text>>, events |-> <<"e1">>]
        breach == [id |-> "n1", severity |-> 4, assets |-> 2, users |-> 1, techniques |-> 1]
        inquiry == [id |-> "i1", timeline |-> <<"t1", "t2", "t3">>, findings |-> <<mute, text>>]
    IN  {plain, [plain EXCEPT !.incident = Opaque, !.format = "docx"],
         [plain EXCEPT !.wants = {"executive", "technical"}, !.findings = <<good, bad>>],
         [plain EXCEPT !.wants = {"technical"}, !.findings = <<mute, good, bad>>],
         [plain EXCEPT !.wants = {"technical"}, !.findings = <<bad>>],
         [plain EXCEPT !.incident = breach], [plain EXCEPT !.incident = [breach EXCEPT !.assets = NullValue]],
         [plain EXCEPT !.incident = [breach EXCEPT !.users = NullValue], !.investigation = inquiry],
         [plain EXCEPT !.incident = [breach EXCEPT !.severity = NullValue], !.type = "executive"]}
        \cup {[plain EXCEPT !.investigation = inquiry, !.type = type, !.incident = breach,
                           !.findings = findings, !.events = events] :
                 type \in {Absent, "incident", "technical", "compliance"},
                 findings \in {<<good>>, <<bad>>, <<good, mute, bad>>}, events \in {<<>>, NullValue}}
        \cup {[plain EXCEPT !.investigation = [inquiry EXCEPT !.findings = Absent], !.type = type] :
                 type \in {"daily", "investigation"}}

(* Two malicious addresses, a domain and a hash that are known, a harmless *)
(* domain and a long hash that no type of hash fits.                       *)
WhatIsKnown == [bad_ip |-> [type |-> "ip_address", category |-> "command_and_control", confidence |-> 95],
                old_ip |-> [type |-> "ip_address", category |-> "malware", confidence |-> 80],
                bad_domain |-> [type |-> "domain", category |-> "phishing", confidence |-> 90],
                bad_hash |-> [type |-> "file_hash", category |-> "malware", confidence |-> 100]]

LooksLike == [bad_ip |-> "ip_address", old_ip |-> "ip_address", bad_domain |-> "domain",
              bad_hash |-> "file_hash", some_domain |-> "domain", long_hash |-> "domain"]

EnrichmentArrivals ==
    [listed : {<<>>, <<"bad_ip", "some_domain">>, <<"old_ip", "bad_hash", "old_ip">>,
               <<"some_domain", NullIndicator>>, <<"bad_domain">>},
     fields : {<<>>, [hostname |-> "bad_ip"], [ip |-> "old_ip", hostname |-> "old_ip", hash |-> "long_hash"],
               [domain |-> "bad_domain", hash |-> "bad_hash", url |-> "bad_domain"],
               [hostname |-> "bad_ip"] @@ ("event.source_ip" :> "bad_ip") @@ ("event.hash" :> "bad_hash")},
     techniques : {{}, {"T1078", "T9999"}}, hints : {{}, {"port_scan", "auth_failed"}}]

CaseTemplates == {[steps |-> 0, hypotheses |-> 0], [steps |-> 1, hypotheses |-> 1]}

(* Two times and one of them without a zone, and one that cannot be told.  *)
CaseExhibits == {[at |-> 1, aware |-> TRUE, readable |-> TRUE], [at |-> 0, aware |-> TRUE, readable |-> TRUE],
                 [at |-> 0, aware |-> FALSE, readable |-> TRUE], [at |-> 2, aware |-> TRUE, readable |-> FALSE]}

-----------------------------------------------------------------------------
(* Work finds its agent: the registry's indexes agree and the router takes *)
(* the matching rule that none outranks.                                   *)
WorkFindsItsAgent == RegistryAgrees /\ RoutesByPriority

(* Evidence only accuses: neither a mail nor an indicator looks better for *)
(* what is added, but by what is known of it.                              *)
EvidenceOnlyAccuses == MailsOnlyAccused /\ KnownIsNotHidden

(* Nothing told is lost: not in an investigation's timeline, assets and    *)
(* severity, not in a case's evidence, and not in the reports on them.     *)
NothingToldIsLost == InvestigationTellsAll /\ TimelinesAreOfTheirTime /\ AskingAgainTellsTheSame
=============================================================================
