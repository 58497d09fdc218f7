------------------------- MODULE CorrelationEngine -------------------------
(***************************************************************************)
(* CrossDomainCorrelationEngine (backend/app/correlation/__init__.py):     *)
(* findings of several agents are put into groups by time, and a group     *)
(* whose members have enough in common becomes a correlation.              *)
(***************************************************************************)
EXTENDS Integers, Sequences, SequencesExt, FiniteSetsExt, StableOrder

CONSTANTS FindingLists,   \* the lists that callers correlate: sequences of findings
          TimeWindow,     \* time_window_minutes
          Proximity,      \* the five minutes within which findings are close
          MinScore,       \* min_correlation_score, in hundredths
          MaxCorrelations \* bound: correlations stored

(* A finding, the last three sets of the values of its indicators of that  *)
(* kind; severities are 0 to 4.                                            *)
IsFinding(f) == /\ f.at \in Nat /\ f.severity \in 0..4
                /\ \A kind \in {"ips", "domains", "users"} : IsFiniteSet(f[kind])
                /\ DOMAIN f = {"id", "at", "type", "severity", "ips", "domains", "users"}

ASSUME EngineAssumption ==
    /\ TimeWindow \in Nat /\ Proximity \in Nat \ {0} /\ MinScore \in Nat
    /\ \A list \in FindingLists : IsList(list) /\ \A n \in DOMAIN list : IsFinding(list[n])

VARIABLES submitted,      \* the last list correlated
          correlations,   \* what correlate() returned for it
          stored          \* _correlations

engineVars == <<submitted, correlations, stored>>

-----------------------------------------------------------------------------
SlipChains(groups, f) ==
    groups # <<>> /\ f.at - groups[Len(groups)][Len(groups[Len(groups)])].at <= TimeWindow

(* A stable sort by time, then groups of what is within the window from    *)
(* the first of the group; a group of one is dropped.                      *)
InGroup(groups, f) == groups # <<>> /\ f.at - groups[Len(groups)][1].at <= TimeWindow

Grouped(groups, f) ==
    IF InGroup(groups, f) THEN [groups EXCEPT ![Len(groups)] = Append(@, f)]
    ELSE Append(groups, <<f>>)

GroupByTime(findings) ==
    Those(FoldLeft(Grouped, <<>>, SortedBy(findings, LAMBDA f : f.at)),
          LAMBDA group : Len(group) >= 2)

(* _find_shared_values(): what every member of the group has.              *)
Shared(group, kind) == {v \in group[1][kind] : \A f \in ToSet(group) : v \in f[kind]}

CompatibleThreats(type) ==
    CASE type = "phishing" -> {"credential_theft", "malware"}
      [] type = "brute_force" -> {"credential_theft"}
      [] type = "ransomware" -> {"malware", "data_exfiltration"}
      [] OTHER -> {}

(* The weighted signals in hundredths, all multiplied by 2 * Proximity,    *)
(* that nothing is lost by dividing; two shared values are a full score.   *)
GroupScore(group) ==
    LET half(kind) == Min({Cardinality(Shared(group, kind)), 2})
        span == group[Len(group)].at - group[1].at
        types == {f.type : f \in ToSet(group)}
    IN  Proximity * (15 * half("ips") + 12 * half("domains") + 15 * half("users"))
        + 2 * 8 * Max({Proximity - span, 0})
        + IF \E t \in types : CompatibleThreats(t) \cap types # {} THEN 2 * Proximity * 4 ELSE 0

(* The first kind that fits, of the types of the instance.                 *)
ClassifyCorrelation(types) ==
    IF "ransomware" \in types THEN "ransomware_attack"
    ELSE IF "phishing" \in types
    THEN IF "credential_theft" \in types THEN "credential_phishing" ELSE "phishing_campaign"
    ELSE IF "data_exfiltration" \in types THEN "data_exfiltration"
    ELSE IF "brute_force" \in types THEN "brute_force_attack"
    ELSE "suspicious_activity"

CorrelateGroup(group) ==
    [members |-> group, score |-> GroupScore(group),
     shared |-> [kind \in {"ips", "domains", "users"} |-> Shared(group, kind)],
     severity |-> Max({1} \cup {f.severity : f \in ToSet(group)}),
     class |-> ClassifyCorrelation({f.type : f \in ToSet(group)})]

Enough(groups) ==
    Those([n \in DOMAIN groups |-> CorrelateGroup(groups[n])],
          LAMBDA r : r.score >= 2 * Proximity * MinScore)

CorrelateFindings(findings) ==
    LET enough == Enough(GroupByTime(findings))
    IN  /\ Len(stored) + Len(enough) <= MaxCorrelations
        /\ submitted' = findings
        /\ correlations' = enough
        /\ stored' = stored \o enough

EngineInit == submitted = <<>> /\ correlations = <<>> /\ stored = <<>>

EngineNext == \E findings \in FindingLists : CorrelateFindings(findings)

EngineSpec == EngineInit /\ [][EngineNext]_engineVars

-----------------------------------------------------------------------------
(* Correlations are of one time and one matter: no finding is in two of    *)
(* those that one call reports, the members of one are within the window,  *)
(* in the order of time, and each has every indicator that is said to be   *)
(* shared; none is graver than the correlation, and all are stored.  And   *)
(* what has enough in common is not overlooked: two findings that are all  *)
(* a caller submits, at one time and with two addresses in common and a    *)
(* user, are correlated.                                                   *)
GroupsHoldTogether ==
    /\ \A m, n \in DOMAIN correlations : m # n =>
          ToSet(correlations[m].members) \cap ToSet(correlations[n].members) = {}
    /\ \A r \in ToSet(correlations) :
          /\ Len(r.members) >= 2 /\ ToSet(r.members) \subseteq ToSet(submitted)
          /\ \A m, n \in DOMAIN r.members : m < n =>
                r.members[n].at - r.members[m].at \in 0..TimeWindow
          /\ \A f \in ToSet(r.members) : /\ \A kind \in DOMAIN r.shared : r.shared[kind] \subseteq f[kind]
                                         /\ f.severity <= r.severity
    /\ IsSuffix(correlations, stored)
    /\ (/\ Len(submitted) = 2 /\ submitted[1].at = submitted[2].at
        /\ Cardinality(submitted[1].ips \cap submitted[2].ips) >= 2
        /\ submitted[1].users \cap submitted[2].users # {} /\ MinScore <= 30) => Len(correlations) = 1
=============================================================================
