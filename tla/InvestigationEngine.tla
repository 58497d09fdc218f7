------------------------ MODULE InvestigationEngine ------------------------
(***************************************************************************)
(* AIInvestigationEngine (backend/app/investigation/__init__.py): cases    *)
(* opened from a template or empty, with their evidence, hypotheses and    *)
(* steps.  A timeline is made when asked for and kept as it was then; a    *)
(* piece of evidence that cannot be sorted or summarized leaves the old    *)
(* one.  A closed case takes everything that an open one does.             *)
(***************************************************************************)
EXTENDS Integers, Sequences, SequencesExt, FiniteSetsExt, StableOrder

CONSTANTS OpenCases,      \* ids of cases
          StepTemplates,      \* [steps, hypotheses]: how many a template has
          Exhibits,       \* [at, aware, readable]: the evidence that is brought
          Unopened,       \* what is kept under an id that was not used
          MaxEvidence, MaxHypotheses \* bounds: evidence of all cases, hypotheses of one

(* Hypotheses and steps are their status; what is cited for them is text.  *)
Pieces == [id : Nat, exhibit : Exhibits]
CaseRecords == [status : {"pending", "closed"},
                evidence : Seq(Pieces), timeline : Seq(Pieces),
                steps : Seq({"pending", "completed"}),
                hypotheses : Seq({"proposed", "supported", "refuted"})]

ASSUME CaseAssumption == /\ {MaxEvidence, MaxHypotheses} \subseteq Nat
                         /\ \A t \in StepTemplates : t.steps \in Nat /\ t.hypotheses \in Nat
                         /\ \A e \in Exhibits : e.at \in Int
                         /\ Unopened \notin CaseRecords

VARIABLES cases,          \* _investigations
          evidenceStore   \* _evidence_store, as the sequence in which it came

caseVars == <<cases, evidenceStore>>

-----------------------------------------------------------------------------
IsOpened(i) == cases[i] # Unopened

CreateInvestigation(i, template) ==
    /\ ~IsOpened(i)
    /\ cases' = [cases EXCEPT ![i] =
           [status |-> "pending", evidence |-> <<>>, timeline |-> <<>>,
            steps |-> [n \in 1..template.steps |-> "pending"],
            hypotheses |-> [n \in 1..template.hypotheses |-> "proposed"]]]
    /\ UNCHANGED evidenceStore

AddEvidence(i, exhibit) ==
    LET piece == [id |-> Len(evidenceStore) + 1, exhibit |-> exhibit]
    IN  /\ IsOpened(i) /\ Len(evidenceStore) < MaxEvidence
        /\ cases' = [cases EXCEPT ![i].evidence = Append(@, piece)]
        /\ evidenceStore' = Append(evidenceStore, piece)

AddHypothesis(i) ==
    /\ IsOpened(i) /\ Len(cases[i].hypotheses) < MaxHypotheses
    /\ cases' = [cases EXCEPT ![i].hypotheses = Append(@, "proposed")]
    /\ UNCHANGED evidenceStore

UpdateHypothesis(i, n, status) ==
    /\ IsOpened(i) /\ n \in DOMAIN cases[i].hypotheses
    /\ cases' = [cases EXCEPT ![i].hypotheses[n] = status]
    /\ UNCHANGED evidenceStore

CompleteStep(i, n) ==
    /\ IsOpened(i) /\ n \in DOMAIN cases[i].steps
    /\ cases' = [cases EXCEPT ![i].steps[n] = "completed"]
    /\ UNCHANGED evidenceStore

ByTime(evidence) == SortedBy(evidence, LAMBDA e : e.exhibit.at)

(* Times with and without a zone cannot be compared, and a log entry whose *)
(* message is null cannot be summarized.                                   *)
Tellable(evidence) == /\ Cardinality({e.exhibit.aware : e \in ToSet(evidence)}) <= 1
                      /\ \A e \in ToSet(evidence) : e.exhibit.readable

SlipAppendsToTimeline(i) ==
    LET case == cases[i]
        new == SelectSeq(case.evidence, LAMBDA e : e \notin ToSet(case.timeline))
    IN  /\ IsOpened(i) /\ Tellable(case.evidence)
        /\ cases' = [cases EXCEPT ![i].timeline = @ \o ByTime(new)]
        /\ UNCHANGED evidenceStore

GenerateTimeline(i) == /\ IsOpened(i) /\ Tellable(cases[i].evidence)
                       /\ cases' = [cases EXCEPT ![i].timeline = ByTime(cases[i].evidence)]
                       /\ UNCHANGED evidenceStore

CloseInvestigation(i) == /\ IsOpened(i)
                         /\ cases' = [cases EXCEPT ![i].status = "closed"]
                         /\ UNCHANGED evidenceStore

CaseInit == cases = [i \in OpenCases |-> Unopened] /\ evidenceStore = <<>>

CaseNext ==
    \E i \in OpenCases :
        \/ \E template \in StepTemplates : CreateInvestigation(i, template)
        \/ \E exhibit \in Exhibits : AddEvidence(i, exhibit)
        \/ AddHypothesis(i)
        \/ \E n \in 1..MaxHypotheses, status \in {"supported", "refuted"} :
              UpdateHypothesis(i, n, status)
        \/ \E n \in 1..Max({t.steps : t \in StepTemplates}) : CompleteStep(i, n)
        \/ GenerateTimeline(i)
        \/ CloseInvestigation(i)

CaseSpec == CaseInit /\ [][CaseNext]_caseVars

-----------------------------------------------------------------------------
(* A timeline is what was known when it was made: the evidence of its case *)
(* up to some point, in the order of time and, at one time, in which it    *)
(* was brought, whatever came or failed since; and each piece of evidence  *)
(* is in exactly one case, under its id in the store.                      *)
TimelinesAreOfTheirTime ==
    /\ \A i \in OpenCases : IsOpened(i) =>
          LET case == cases[i]
          IN  \E n \in 0..Len(case.evidence) :
                 case.timeline = SortedBy(SubSeq(case.evidence, 1, n), LAMBDA e : e.exhibit.at)
    /\ \A n \in DOMAIN evidenceStore :
          \E i \in OpenCases : /\ IsOpened(i) /\ evidenceStore[n] \in ToSet(cases[i].evidence)
                               /\ \A j \in OpenCases \ {i} : IsOpened(j) =>
                                     evidenceStore[n] \notin ToSet(cases[j].evidence)
=============================================================================
