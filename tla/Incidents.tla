----------------------------- MODULE Incidents -----------------------------
(***************************************************************************)
(* IncidentManager (backend/app/incidents/__init__.py): the life of an     *)
(* incident and its timeline, under every sequence of calls.  Minutes are  *)
(* ticks; comments, tasks and artifacts are lists that nothing but their   *)
(* own calls reads, and are left out.                                      *)
(***************************************************************************)
EXTENDS Integers, Sequences

CONSTANTS IncidentIds, Never,
          MaxMinutes,     \* bound: the clock stops here
          MaxEntries      \* bound: timeline entries of one incident

ASSUME IncidentAssumption == /\ MaxMinutes \in Nat /\ MaxEntries \in Nat \ {0}
                             /\ Never \notin 0..MaxMinutes

(* "investigating" stands for the statuses that are not dated.             *)
Statuses == {"new", "investigating", "containing", "closed"}
Kinds == Statuses \cup {"assignment", "entry"}

VARIABLES minute,
          incidents     \* _incidents; Never for an id that is not there

incidentVars == <<minute, incidents>>

Known(i) == incidents[i] # Never

(* An entry has its timestamp; `ahead` says whether that was still to come *)
(* when the entry was made.  A change of status has it for its kind.       *)
Entry(kind, at) == [kind |-> kind, at |-> at, ahead |-> at > minute]

Becomes(i, incident) == /\ incidents' = [incidents EXCEPT ![i] = incident]
                        /\ UNCHANGED minute

HasRoom(i) == Known(i) /\ Len(incidents[i].timeline) < MaxEntries

-----------------------------------------------------------------------------

CreateIncident(i) ==
    /\ ~Known(i)
    /\ Becomes(i, [status |-> "new", detectedAt |-> minute,
                   containedAt |-> Never, closedAt |-> Never,
                   timeToContain |-> Never, timeToResolve |-> Never,
                   timeline |-> <<Entry("new", minute)>>])

(* Contained and closed are dated, again each time.                        *)
Dated(incident, status) ==
    CASE status = "containing" -> [incident EXCEPT !.containedAt = minute,
                                                   !.timeToContain = minute - incident.detectedAt]
      [] status = "closed" -> [incident EXCEPT !.closedAt = minute,
                                               !.timeToResolve = minute - incident.detectedAt]
      [] OTHER -> incident

UpdateStatus(i, status) ==
    /\ HasRoom(i)
    /\ Becomes(i, [Dated(incidents[i], status) EXCEPT !.status = status,
                                      !.timeline = Append(@, Entry(status, minute))])

(* close_incident(), which asks for a root cause beside.                   *)
CloseIncident(i) == UpdateStatus(i, "closed")

AssignIncident(i) ==
    /\ HasRoom(i)
    /\ Becomes(i, [incidents[i] EXCEPT !.timeline = Append(@, Entry("assignment", minute))])

SlipSortsBackwards(p, s) ==
    \A m, n \in DOMAIN s : m < n => \/ s[p[m]].at < s[p[n]].at
                                    \/ s[p[m]].at = s[p[n]].at /\ p[m] > p[n]
(* A stable sort of s by timestamp: p[n] is where its n-th entry was.      *)
Sorts(p, s) ==
    \A m, n \in DOMAIN s : m < n => \/ s[p[m]].at < s[p[n]].at
                                    \/ s[p[m]].at = s[p[n]].at /\ p[m] < p[n]

(* Appended, then all are sorted. *)
AddTimelineEntry(i, at) ==
    LET entries == Append(incidents[i].timeline, Entry("entry", at))
        places == 1..Len(entries)
    IN  /\ HasRoom(i)
        /\ \E p \in [places -> places] :
              /\ \A n \in places : \E m \in places : p[m] = n
              /\ Sorts(p, entries)
              /\ Becomes(i, [incidents[i] EXCEPT !.timeline = [n \in places |-> entries[p[n]]]])

MinutePasses == minute < MaxMinutes /\ minute' = minute + 1 /\ UNCHANGED incidents

IncidentInit == minute = 0 /\ incidents = [i \in IncidentIds |-> Never]

IncidentNext ==
    \/ \E i \in IncidentIds :
          \/ CreateIncident(i) \/ AssignIncident(i) \/ CloseIncident(i)
          \/ \E status \in Statuses : UpdateStatus(i, status)
          \/ \E at \in 0..MaxMinutes : AddTimelineEntry(i, at)
    \/ MinutePasses

IncidentSpec == IncidentInit /\ [][IncidentNext]_incidentVars

-----------------------------------------------------------------------------

Minutes == (0..MaxMinutes) \cup {Never}

Entries == [kind : Kinds, at : 0..MaxMinutes, ahead : BOOLEAN]

IncidentRecords == [status : Statuses, detectedAt : 0..MaxMinutes,
                    containedAt : Minutes, closedAt : Minutes,
                    timeToContain : Minutes, timeToResolve : Minutes,
                    timeline : Seq(Entries)]

IncidentTypeOK == /\ minute \in 0..MaxMinutes
                  /\ \A i \in IncidentIds : Known(i) => incidents[i] \in IncidentRecords

(* The timeline is what investigators and reports go by.  However it is    *)
(* added to and sorted in between: its last change of status is the one    *)
(* the incident has, a closed incident was closed when that says and the   *)
(* time to resolve is counted to then, and only an entry that was dated    *)
(* ahead is ever out of place.                                             *)
TimelineTellsTruth ==
    \A i \in IncidentIds : Known(i) =>
        LET incident == incidents[i]
            timeline == incident.timeline
        IN  /\ \E latest \in DOMAIN timeline :
                  /\ timeline[latest].kind = incident.status
                  /\ \A n \in DOMAIN timeline : n > latest => timeline[n].kind \notin Statuses
                  /\ incident.status = "closed" =>
                         /\ incident.closedAt = timeline[latest].at
                         /\ incident.timeToResolve = incident.closedAt - incident.detectedAt
            /\ \A m, n \in DOMAIN timeline :
                   m < n /\ timeline[m].at > timeline[n].at => timeline[m].ahead
=============================================================================
