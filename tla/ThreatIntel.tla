---------------------------- MODULE ThreatIntel ----------------------------
(***************************************************************************)
(* ThreatIntelligenceEngine.lookup(), its cache and                        *)
(* get_aggregated_reputation() (backend/app/threat_intel/__init__.py), by  *)
(* analysts whose lookups interleave at the await of each provider, while  *)
(* providers are registered.  A provider is its place in the list.         *)
(***************************************************************************)
EXTENDS Naturals, Sequences, FiniteSetsExt

CONSTANTS Analysts, Indicators, Uncached,
          NoResult, Raises,
          Opinions,       \* the reputations providers answer with
          MaxProviders,   \* bound: providers registered
          MaxLookups      \* bound: lookups that ask the providers

(* ThreatReputation: unknown, benign, suspicious, malicious. *)
Reputations == 0..3

ASSUME IntelAssumption == /\ Opinions \subseteq Reputations
                          /\ {Uncached, NoResult, Raises} \cap Reputations = {}
                          /\ MaxProviders \in Nat \ {0} /\ MaxLookups \in Nat

(* What the await of a provider ends with.                                 *)
Endings == Opinions \cup {NoResult, Raises}

VARIABLES registered,     \* len(self.providers)
          cache,          \* of each indicator, the one result that is kept
          asking,         \* of each lookup in progress: what the providers said so far
          results,        \* results of the lookup in progress, or of the last one
          lookups         \* _lookup_count

intelVars == <<registered, cache, asking, results, lookups>>

(* No lookup, or one of i that asks nobody. *)
NoLookup(i) == [indicator |-> i, said |-> <<>>, over |-> TRUE, fresh |-> FALSE]

(* The first of MALICIOUS, SUSPICIOUS, BENIGN that a result has.           *)
AggregatedReputation(rs) ==
    LET present(rep) == \E i \in DOMAIN rs : rs[i] = rep
    IN  CASE present(3) -> 3
          [] ~present(3) /\ present(2) -> 2
          [] ~present(3) /\ ~present(2) /\ present(1) -> 1
          [] OTHER -> 0

-----------------------------------------------------------------------------

RegisterProvider == /\ registered < MaxProviders
                    /\ registered' = registered + 1
                    /\ UNCHANGED <<cache, asking, results, lookups>>

(* A result in the cache that has not expired is the whole answer.         *)
LookupCached(a, i) ==
    /\ asking[a].over
    /\ cache[i] # Uncached
    /\ results' = [results EXCEPT ![a] = <<cache[i]>>]
    /\ asking' = [asking EXCEPT ![a] = NoLookup(i)]
    /\ UNCHANGED <<registered, cache, lookups>>

(* None, or one that has: it is deleted, and the first provider is asked.  *)
LookupMissed(a, i) ==
    /\ asking[a].over
    /\ Cardinality({b \in Analysts : ~asking[b].over}) + lookups < MaxLookups
    /\ cache' = [cache EXCEPT ![i] = Uncached]
    /\ results' = [results EXCEPT ![a] = <<>>]
    /\ asking' = [asking EXCEPT ![a] = [indicator |-> i, said |-> <<>>, over |-> FALSE, fresh |-> TRUE]]
    /\ UNCHANGED <<registered, lookups>>

SlipGivesUp(a, ending) ==
    LET asked == Append(asking[a].said, ending)
        done == Len(asked) >= registered \/ ending = Raises
    IN  /\ ~asking[a].over
        /\ \/ /\ ending \in Opinions
              /\ results' = [results EXCEPT ![a] = Append(@, ending)]
              /\ cache' = [cache EXCEPT ![asking[a].indicator] = ending]
           \/ ending \notin Opinions /\ UNCHANGED <<results, cache>>
        /\ asking' = [asking EXCEPT ![a].said = asked, ![a].over = done]
        /\ lookups' = IF done THEN lookups + 1 ELSE lookups
        /\ UNCHANGED registered

(* The await of the next provider ends; the list is looked at again, so    *)
(* that one registered meanwhile is asked too.                             *)
ProviderEnds(a, ending) ==
    LET asked == Append(asking[a].said, ending)
        done == Len(asked) >= registered
    IN  /\ ~asking[a].over
        /\ \/ /\ ending \in Opinions
              /\ results' = [results EXCEPT ![a] = Append(@, ending)]
              /\ cache' = [cache EXCEPT ![asking[a].indicator] = ending]
           \/ ending \notin Opinions /\ UNCHANGED <<results, cache>>
        /\ asking' = [asking EXCEPT ![a].said = asked, ![a].over = done]
        /\ lookups' = IF done THEN lookups + 1 ELSE lookups
        /\ UNCHANGED registered

IntelInit == /\ registered = 1
             /\ cache = [i \in Indicators |-> Uncached]
             /\ asking = [a \in Analysts |-> NoLookup(Uncached)]
             /\ results = [a \in Analysts |-> <<>>]
             /\ lookups = 0

IntelNext == \/ RegisterProvider
             \/ \E a \in Analysts, i \in Indicators : LookupCached(a, i) \/ LookupMissed(a, i)
             \/ \E a \in Analysts, ending \in Endings : ProviderEnds(a, ending)

IntelSpec == IntelInit /\ [][IntelNext]_intelVars

-----------------------------------------------------------------------------

IntelTypeOK == /\ registered \in 1..MaxProviders
               /\ cache \in [Indicators -> Opinions \cup {Uncached}]
               /\ \A a \in Analysts : /\ results[a] \in Seq(Opinions)
                                      /\ asking[a].said \in Seq(Endings)
                                      /\ Len(asking[a].said) <= registered
               /\ lookups \in 0..MaxLookups

(* "Look up an indicator across all providers", "continue with other       *)
(* providers": a lookup that went to the providers tells the strongest     *)
(* opinion any of them had, whichever of them failed, and has asked all    *)
(* there were when it began.                                               *)
StrongestIsTold ==
    [][\A a \in Analysts :
          asking'[a].over /\ asking'[a].fresh /\ ~asking[a].over =>
              /\ Len(asking'[a].said) >= registered
              /\ AggregatedReputation(results'[a]) =
                     Max({0} \cup {asking'[a].said[p] : p \in {q \in DOMAIN asking'[a].said :
                                                      asking'[a].said[q] \in Opinions}})]_intelVars
=============================================================================
