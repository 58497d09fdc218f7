--------------------------- MODULE NetworkThreat ---------------------------
(***************************************************************************)
(* NetworkThreatAgent (backend/app/agents/specialized/network_threat.py):  *)
(* for each pair of source and destination it keeps the ports, the volume  *)
(* and the times of its connections for ever (the configured windows of    *)
(* scans and transfers are not used), and six detectors look at one flow   *)
(* after another.  A detector that raises makes the task fail, but what    *)
(* the detectors before it kept stays.                                     *)
(***************************************************************************)
EXTENDS Integers, Sequences, SequencesExt, FiniteSetsExt, StableOrder

CONSTANTS Flows,            \* the flows that arrive, records as in Flow
          Pairs, Inner, Leaving, \* Inner: both ends private; Leaving: the destination is not
          Missing, Null,    \* what a field without a value, or with a null one, holds
          ScanThreshold, BeaconConnections, Tolerance, \* tolerance in hundredths
          ExfilThreshold,
          MaxFlows          \* bound: flows analysed

(* `named` is whether the flow has a source address; a field that the flow *)
(* lacks is Missing; a count of bytes can be Null and then does not add up. *)
(* `signs` are what the detectors without memory look for.  `aware` times  *)
(* have a time zone.                                                       *)
Signs == {"c2_port", "user_agent", "tld", "long_query", "entropy", "admin_port"}

ASSUME NetworkAssumption == /\ {ScanThreshold, ExfilThreshold, Tolerance} \subseteq Nat \ {0}
                            /\ BeaconConnections \in Nat /\ BeaconConnections >= 2
                            /\ Inner \subseteq Pairs /\ Leaving \subseteq Pairs \ Inner
                            /\ \A f \in Flows : f.signs \subseteq Signs

ASSUME FlowsAssumption ==
    /\ Flows # {}
    /\ \A f \in Flows : /\ {"pair", "named", "stamp", "bytes"} \subseteq DOMAIN f
                        /\ f.pair \in Pairs /\ f.named \in BOOLEAN
                        /\ f.stamp # Missing => f.stamp.at \in Int

VARIABLES ports,        \* _port_scan_tracker
          volume,       \* _data_transfer
          connections,  \* _connection_intervals
          networkAnswer, heard  \* the last result; the flows so far, a history variable

networkVars == <<ports, volume, connections, networkAnswer, heard>>

Indicator(kind, severity, risk) == [kind |-> kind, severity |-> severity, risk |-> risk]

NothingFound == [status |-> "none", indicators |-> <<>>, severity |-> 0, primary |-> "none", risk |-> 0]

If(condition, indicator) == IF condition THEN <<indicator>> ELSE <<>>

-----------------------------------------------------------------------------
(* The detectors; severities are 1 (low) to 4, risks hundredths.           *)

DetectC2(f) == If("c2_port" \in f.signs, Indicator("c2", 3, 30))
               \o If("user_agent" \in f.signs, Indicator("c2", 2, 20))
               \o If("tld" \in f.signs, Indicator("c2", 2, 25))

PortsAfter(f) == IF f.named /\ f.port # Missing
                 THEN [ports EXCEPT ![f.pair] = @ \cup {f.port}] ELSE ports

DetectPortScan(f) == If(/\ f.named /\ f.port # Missing
                        /\ Cardinality(PortsAfter(f)[f.pair]) >= ScanThreshold,
                        Indicator("scan", 2, 25))

Leaves(f) == f.named /\ f.pair \in Leaving /\ f.bytes \notin {Missing, Null, 0}

VolumeAfter(f) == IF Leaves(f) THEN [volume EXCEPT ![f.pair] = @ + f.bytes] ELSE volume

DetectExfiltration(f) == If(Leaves(f) /\ VolumeAfter(f)[f.pair] >= ExfilThreshold,
                            Indicator("exfiltration", 3, 35))

DetectDnsTunneling(f) == If("long_query" \in f.signs, Indicator("dns", 3, 30))
                         \o If("entropy" \in f.signs, Indicator("dns", 2, 25))

Connects(f) == f.named /\ f.stamp # Missing

ConnectionsAfter(f) == IF Connects(f) THEN [connections EXCEPT ![f.pair] = Append(@, f.stamp)]
                       ELSE connections

(* Python cannot sort times with and without a zone together.              *)
Unsortable(stamps) == \E s, t \in ToSet(stamps) : s.aware # t.aware

(* As a beacon that is only looked at in the order of arrival.             *)
SlipUnsorted(stamps) ==
    SelectSeq([n \in 1..(Len(stamps) - 1) |-> stamps[n + 1].at - stamps[n].at], LAMBDA d : d > 0)

Deltas(stamps) ==
    LET times == SortedBy([n \in DOMAIN stamps |-> stamps[n].at], LAMBDA t : t)
        gaps == [n \in 1..(Len(times) - 1) |-> times[n + 1] - times[n]]
    IN  Those(gaps, LAMBDA d : d > 0)

Plus(total, d) == total + d
PlusSquare(total, d) == total + d * d

(* The standard deviation over the mean below the tolerance, squared and   *)
(* multiplied out.                                                         *)
Regular(deltas) ==
    LET sum == FoldLeft(Plus, 0, deltas)
        squares == FoldLeft(PlusSquare, 0, deltas)
    IN  10000 * (Len(deltas) * squares - sum * sum) < Tolerance * Tolerance * sum * sum

DetectBeaconing(f) ==
    LET stamps == ConnectionsAfter(f)[f.pair]
    IN  If(/\ Connects(f) /\ Len(stamps) >= BeaconConnections
           /\ Len(Deltas(stamps)) >= 3 /\ Regular(Deltas(stamps)),
           Indicator("beacon", 3, 40))

DetectLateralMovement(f) == If(f.named /\ f.pair \in Inner /\ "admin_port" \in f.signs,
                               Indicator("lateral", 2, 20))

Detected(f) == DetectC2(f) \o DetectPortScan(f) \o DetectExfiltration(f)
               \o DetectDnsTunneling(f) \o DetectBeaconing(f) \o DetectLateralMovement(f)

(* Sorting the times, and adding up the bytes for the finding.             *)
FlowRaises(f) == \/ /\ Connects(f) /\ Len(ConnectionsAfter(f)[f.pair]) >= BeaconConnections
                    /\ Unsortable(ConnectionsAfter(f)[f.pair])
                 \/ f.bytes = Null /\ Detected(f) # <<>>

-----------------------------------------------------------------------------

RiskScore(indicators) ==
    Min({100, FoldLeft(LAMBDA total, i : total + i.risk, 0, indicators)})

(* The first after a stable sort by severity and risk.                     *)
PrimaryThreat(indicators) ==
    SortedBy(indicators, LAMBDA i : -100 * i.severity - i.risk)[1].kind

NetworkFinding(indicators) ==
    IF indicators = <<>> THEN [NothingFound EXCEPT !.status = "partial"]
    ELSE [status |-> "success", indicators |-> indicators,
          severity |-> Max({i.severity : i \in ToSet(indicators)}),
          primary |-> PrimaryThreat(indicators), risk |-> RiskScore(indicators)]

AnalyzeFlow(f) ==
    /\ Len(heard) < MaxFlows
    /\ heard' = Append(heard, f)
    /\ ports' = PortsAfter(f)
    /\ volume' = VolumeAfter(f)
    /\ connections' = ConnectionsAfter(f)
    /\ networkAnswer' = IF FlowRaises(f) THEN [NothingFound EXCEPT !.status = "failed"]
                        ELSE NetworkFinding(Detected(f))

(* A flow whose protocol, user agent or domain is null: nothing is kept.   *)
AnalyzeUnreadable ==
    /\ Len(heard) < MaxFlows
    /\ heard' = Append(heard, [(CHOOSE f \in Flows : TRUE) EXCEPT !.named = FALSE])
    /\ networkAnswer' = [NothingFound EXCEPT !.status = "failed"]
    /\ UNCHANGED <<ports, volume, connections>>

NetworkInit == /\ ports = [p \in Pairs |-> {}] /\ volume = [p \in Pairs |-> 0]
               /\ connections = [p \in Pairs |-> <<>>]
               /\ networkAnswer = NothingFound /\ heard = <<>>

NetworkNext == (\E f \in Flows : AnalyzeFlow(f)) \/ AnalyzeUnreadable

NetworkSpec == NetworkInit /\ [][NetworkNext]_networkVars

-----------------------------------------------------------------------------
HeardFrom(p) == {f \in ToSet(heard) : f.pair = p /\ f.named}
HeardTimes(p) == {f.stamp.at : f \in {g \in HeardFrom(p) : g.stamp # Missing}}

EvenlySpaced(times) ==
    \E first \in times : \E gap \in 1..(Max(times) - first + 1) :
        times = {first + gap * n : n \in 0..(Cardinality(times) - 1)}

(* A beacon that keeps to its beat is heard, in whatever order its flows   *)
(* arrive, among those of other pairs and with tasks that failed between:  *)
(* four even times suffice if there are as many connections as the         *)
(* configuration asks for.  And the agent fails only for what it was told  *)
(* of that very pair.                                                      *)
BeaconsAreHeard ==
    heard # <<>> =>
        LET f == heard[Len(heard)]
            times == HeardTimes(f.pair)
        IN  /\ (/\ networkAnswer.status # "failed" /\ f.named /\ f.stamp # Missing
                /\ Cardinality(times) >= Max({4, BeaconConnections}) /\ EvenlySpaced(times)) =>
                   \E i \in ToSet(networkAnswer.indicators) : i.kind = "beacon"
            /\ (networkAnswer.status = "failed" /\ f.named) =>
                   \/ f.bytes = Null
                   \/ \E g, h \in HeardFrom(f.pair) : /\ Missing \notin {g.stamp, h.stamp}
                                                      /\ g.stamp.aware # h.stamp.aware
=============================================================================
