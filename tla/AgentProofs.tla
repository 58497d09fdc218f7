----------------------------- MODULE AgentProofs -----------------------------
(***************************************************************************)
(* Theorems about the agents: the execution framework that runs every one  *)
(* of them, the registry and the router that find them their work, and     *)
(* what those that decide and tell promise of their results.               *)
(***************************************************************************)
EXTENDS AgentExecution, MCAgents, AnalysisProofs

Exclusive == \A d, e \in InProgress : works[d] = works[e] => d = e

Begun == \A e \in Executions : IF pc[e] = "new" THEN record[e] = "none"
                                                ELSE works[e] \in Tasks

Told == TypeOK /\ Exclusive /\ Begun /\ InStep

ExInv == Told /\ CountedOnce /\ StrandedWasCancelled /\ IdleWhenQuiet

-----------------------------------------------------------------------------
(* The sets the counters are compared with. *)

(* Sets of executions are finite, so their sizes are numbers. *)
LEMMA RecordedFinite ==
    \A S : IsFiniteSet(Recorded(S)) /\ Cardinality(Recorded(S)) \in Nat
BY ExecutionAssumption, FS_Subset, FS_CardinalityType DEF Recorded

(* A record that enters a set of outcomes makes one more of them. *)
LEMMA OneMore ==
    ASSUME NEW e \in Executions, NEW o, NEW S,
           record \in [Executions -> {"none", "started", "completed", "failed"}],
           record[e] \notin S, o \in S,
           record' = [record EXCEPT ![e] = o]
    PROVE  Cardinality(Recorded(S)') = Cardinality(Recorded(S)) + 1
<1>1. Recorded(S)' = Recorded(S) \cup {e}
  BY DEF Recorded
<1>2. e \notin Recorded(S)
  BY DEF Recorded
<1> QED
  BY <1>1, <1>2, RecordedFinite, FS_AddElement

-----------------------------------------------------------------------------

LEMMA InitiallyExInv == Init => ExInv
<1> SUFFICES ASSUME Init PROVE ExInv
  OBVIOUS
<1>1. Recorded({"completed"}) = {} /\ Recorded({"failed"}) = {} /\ InProgress = {}
  BY DEF Init, Recorded, InProgress, Awaiting
<1>2. CountedOnce
  BY <1>1, FS_EmptySet DEF Init, CountedOnce
<1>3. TypeOK /\ Exclusive /\ Begun /\ StrandedWasCancelled /\ IdleWhenQuiet
  BY <1>1 DEF Init, TypeOK, Exclusive, Begun, StrandedWasCancelled, IdleWhenQuiet, Awaiting
<1>4. InStep
  BY DEF Init, InStep, Recorded
<1> QED
  BY <1>2, <1>3, <1>4 DEF ExInv, Told

(* What an execution, its task and its record say stays in step. *)
LEMMA ToldKept == Told /\ [Next]_vars => Told'
<1> SUFFICES ASSUME Told, [Next]_vars PROVE Told'
  OBVIOUS
<1> USE DEF Told, TypeOK, Exclusive, Begun, InStep, InProgress, Awaiting, Recorded
<1>1. ASSUME NEW e \in Executions, NEW t \in Tasks, Execute(e, t) PROVE Told'
  BY <1>1, ExecutionAssumption DEF Execute, Goes
<1>2. ASSUME NEW e \in Executions, Validated(e) PROVE Told'
  BY <1>2, ExecutionAssumption DEF Validated, Goes, Becomes
<1>3. ASSUME NEW e \in Executions, Raises(e) PROVE Told'
  BY <1>3, ExecutionAssumption DEF Raises, Goes, Becomes
<1>4. ASSUME NEW e \in Executions, Processed(e) PROVE Told'
  BY <1>4, ExecutionAssumption DEF Processed, Goes, Becomes
<1>5. ASSUME NEW e \in Executions, Published(e) PROVE Told'
  BY <1>5, ExecutionAssumption DEF Published, Goes, ResultWritten
<1>6. ASSUME NEW e \in Executions, Cancel(e) PROVE Told'
  BY <1>6, ExecutionAssumption DEF Cancel, Goes, ResultWritten
<1>7. CASE UNCHANGED vars
  BY <1>7 DEF vars
<1> QED
  BY <1>1, <1>2, <1>3, <1>4, <1>5, <1>6, <1>7 DEF Next, Continues

(* Each execution is counted once. *)
LEMMA CountKept == Told /\ CountedOnce /\ [Next]_vars => CountedOnce'
<1> SUFFICES ASSUME Told, CountedOnce, [Next]_vars PROVE CountedOnce'
  OBVIOUS
<1>0. record \in [Executions -> {"none", "started", "completed", "failed"}]
  BY DEF Told, TypeOK
<1>a. ASSUME UNCHANGED <<processed, failed, record>> PROVE CountedOnce'
  BY <1>a DEF CountedOnce, Recorded
<1>1. ASSUME NEW e \in Executions, NEW t \in Tasks, Execute(e, t) PROVE CountedOnce'
  <2>1. record[e] = "none" /\ record' = [record EXCEPT ![e] = "started"]
    BY <1>1 DEF Execute, Told, Begun
  <2>2. Recorded({"completed"})' = Recorded({"completed"})
    BY <2>1, <1>0 DEF Recorded
  <2>3. Recorded({"failed"})' = Recorded({"failed"})
    BY <2>1, <1>0 DEF Recorded
  <2> QED
    BY <1>1, <2>2, <2>3 DEF Execute, CountedOnce
<1>2. ASSUME NEW e \in Executions, Raises(e) PROVE CountedOnce'
  <2>1. record[e] = "started" /\ record' = [record EXCEPT ![e] = "failed"]
    BY <1>2 DEF Raises, Told, InStep
  <2>2. Recorded({"completed"})' = Recorded({"completed"})
    BY <2>1, <1>0 DEF Recorded
  <2>3. Cardinality(Recorded({"failed"})') = Cardinality(Recorded({"failed"})) + 1
    BY <2>1, <1>0, OneMore
  <2> QED
    BY <1>2, <2>2, <2>3 DEF Raises, CountedOnce
<1>3. ASSUME NEW e \in Executions, Processed(e) PROVE CountedOnce'
  <2>1. record[e] = "started" /\ record' = [record EXCEPT ![e] = "completed"]
    BY <1>3 DEF Processed, Told, InStep
  <2>2. Recorded({"failed"})' = Recorded({"failed"})
    BY <2>1, <1>0 DEF Recorded
  <2>3. Cardinality(Recorded({"completed"})') = Cardinality(Recorded({"completed"})) + 1
    BY <2>1, <1>0, OneMore
  <2> QED
    BY <1>3, <2>2, <2>3 DEF Processed, CountedOnce
<1>4. ASSUME NEW e \in Executions, Validated(e) \/ Published(e) \/ Cancel(e) PROVE CountedOnce'
  BY <1>4, <1>a DEF Validated, Published, Cancel
<1>5. CASE UNCHANGED vars
  BY <1>5, <1>a DEF vars
<1> QED
  BY <1>1, <1>2, <1>3, <1>4, <1>5 DEF Next, Continues

(* Nothing is left behind but by a cancellation, and `finally` idles. *)
LEMMA RestKept ==
    Told /\ StrandedWasCancelled /\ IdleWhenQuiet /\ [Next]_vars
        => StrandedWasCancelled' /\ IdleWhenQuiet'
<1> SUFFICES ASSUME Told, StrandedWasCancelled, IdleWhenQuiet, [Next]_vars
             PROVE  StrandedWasCancelled' /\ IdleWhenQuiet'
  OBVIOUS
<1> USE DEF Told, TypeOK, Begun, InProgress, Awaiting
<1>1. ASSUME NEW e \in Executions, NEW t \in Tasks, Execute(e, t)
      PROVE  StrandedWasCancelled' /\ IdleWhenQuiet'
  <2>1. StrandedWasCancelled'
    <3> SUFFICES ASSUME NEW u \in Tasks, task'[u] \in {"validating", "running"}
                 PROVE  \E d \in Executions :
                            works'[d] = u /\ pc'[d] \in {"validating", "processing", "cancelled"}
      BY DEF StrandedWasCancelled
    <3>1. CASE u = t
      BY <1>1, <3>1 DEF Execute, Goes
    <3>2. CASE u # t
      <4>1. PICK d \in Executions :
                works[d] = u /\ pc[d] \in {"validating", "processing", "cancelled"}
        BY <1>1, <3>2 DEF Execute, StrandedWasCancelled
      <4> QED
        BY <1>1, <4>1 DEF Execute, Goes
    <3> QED
      BY <3>1, <3>2
  <2>2. IdleWhenQuiet'
    <3>1. e \in InProgress'
      BY <1>1 DEF Execute, Goes
    <3> QED
      BY <3>1 DEF IdleWhenQuiet
  <2> QED
    BY <2>1, <2>2
<1>2. ASSUME NEW e \in Executions, Validated(e)
      PROVE  StrandedWasCancelled' /\ IdleWhenQuiet'
  <2>1. StrandedWasCancelled'
    <3> SUFFICES ASSUME NEW u \in Tasks, task'[u] \in {"validating", "running"}
                 PROVE  \E d \in Executions :
                            works'[d] = u /\ pc'[d] \in {"validating", "processing", "cancelled"}
      BY DEF StrandedWasCancelled
    <3>1. PICK d \in Executions :
              works[d] = u /\ pc[d] \in {"validating", "processing", "cancelled"}
      <4>1. CASE u = works[e]
        BY <1>2, <4>1 DEF Validated
      <4>2. CASE u # works[e]
        BY <1>2, <4>2 DEF Validated, Becomes, StrandedWasCancelled
      <4> QED
        BY <4>1, <4>2
    <3> QED
      BY <1>2, <3>1 DEF Validated, Goes
  <2>2. IdleWhenQuiet'
    <3>1. e \in InProgress'
      BY <1>2 DEF Validated, Goes
    <3> QED
      BY <3>1 DEF IdleWhenQuiet
  <2> QED
    BY <2>1, <2>2
<1>3. ASSUME NEW e \in Executions, Raises(e) \/ Processed(e)
      PROVE  StrandedWasCancelled' /\ IdleWhenQuiet'
  <2>1. StrandedWasCancelled'
    <3> SUFFICES ASSUME NEW u \in Tasks, task'[u] \in {"validating", "running"}
                 PROVE  \E d \in Executions :
                            works'[d] = u /\ pc'[d] \in {"validating", "processing", "cancelled"}
      BY DEF StrandedWasCancelled
    <3>1. u # works[e] /\ task[u] \in {"validating", "running"}
      BY <1>3 DEF Raises, Processed, Becomes
    <3>2. PICK d \in Executions :
              works[d] = u /\ pc[d] \in {"validating", "processing", "cancelled"}
      BY <3>1 DEF StrandedWasCancelled
    <3> QED
      BY <1>3, <3>1, <3>2 DEF Raises, Processed, Goes
  <2>2. IdleWhenQuiet'
    <3>1. CASE Raises(e)
      BY <3>1 DEF Raises, IdleWhenQuiet
    <3>2. CASE Processed(e)
      <4>1. e \in InProgress'
        BY <3>2 DEF Processed, Goes
      <4> QED
        BY <4>1 DEF IdleWhenQuiet
    <3> QED
      BY <1>3, <3>1, <3>2
  <2> QED
    BY <2>1, <2>2
<1>4. ASSUME NEW e \in Executions, Published(e) \/ Cancel(e)
      PROVE  StrandedWasCancelled' /\ IdleWhenQuiet'
  <2>1. StrandedWasCancelled'
    <3> SUFFICES ASSUME NEW u \in Tasks, task'[u] \in {"validating", "running"}
                 PROVE  \E d \in Executions :
                            works'[d] = u /\ pc'[d] \in {"validating", "processing", "cancelled"}
      BY DEF StrandedWasCancelled
    <3>1. PICK d \in Executions :
              works[d] = u /\ pc[d] \in {"validating", "processing", "cancelled"}
      BY <1>4 DEF Published, Cancel, StrandedWasCancelled
    <3> QED
      BY <1>4, <3>1 DEF Published, Cancel, Goes
  <2>2. IdleWhenQuiet'
    BY <1>4 DEF Published, Cancel, IdleWhenQuiet
  <2> QED
    BY <2>1, <2>2
<1>5. CASE UNCHANGED vars
  BY <1>5 DEF vars, StrandedWasCancelled, IdleWhenQuiet
<1> QED
  BY <1>1, <1>2, <1>3, <1>4, <1>5 DEF Next, Continues

-----------------------------------------------------------------------------

(* The inductive invariant of execute(). *)
THEOREM ExecutionInvariant == Spec => []ExInv
<1>1. ExInv /\ [Next]_vars => ExInv'
  BY ToldKept, CountKept, RestKept DEF ExInv
<1> QED
  BY InitiallyExInv, <1>1, PTL DEF Spec

(* Every variable has its type, the counters are those of the execution    *)
(* records, every execution that ends is counted once, and only a          *)
(* cancellation leaves a task validating or running.                       *)
THEOREM EveryEndIsAccounted == Spec => []Consistent
<1>1. ExInv => Consistent
  BY DEF ExInv, Told, Consistent
<1> QED
  BY ExecutionInvariant, <1>1, PTL

(* A concluded record never changes again.                                 *)
THEOREM RecordsStayFinal == Spec => RecordsAreFinal
<1>1. ExInv /\ [Next]_vars
          => [\A e \in Executions :
                 record[e] \in {"completed", "failed"} => record'[e] = record[e]]_vars
  <2> SUFFICES ASSUME ExInv, Next, NEW d \in Executions, record[d] \in {"completed", "failed"}
               PROVE  record'[d] = record[d]
    OBVIOUS
  <2> USE DEF ExInv, Told, TypeOK, Begun, InStep
  <2>1. ASSUME NEW e \in Executions, NEW t \in Tasks, Execute(e, t) PROVE record'[d] = record[d]
    BY <2>1 DEF Execute
  <2>2. ASSUME NEW e \in Executions, Continues(e) \/ Cancel(e) PROVE record'[d] = record[d]
    BY <2>2 DEF Continues, Validated, Raises, Processed, Published, Cancel
  <2> QED
    BY <2>1, <2>2 DEF Next
<1> QED
  BY ExecutionInvariant, <1>1, PTL DEF Spec, RecordsAreFinal

-----------------------------------------------------------------------------
(* What the prioritization agent makes of an incident. *)

(* What an incident is known as when it is weighed. *)
IsData(d) ==
    /\ d = [confidence |-> d.confidence, severity |-> d.severity, assets |-> d.assets,
            users |-> d.users, types |-> d.types, tactics |-> d.tactics]
    /\ d.severity \in 0..4 /\ d.confidence \in 0..100
    /\ d.assets \in Nat \cup {NotANumber} /\ d.users \in Nat \cup {NotANumber}

Counted(d) == d.assets \in Nat /\ d.users \in Nat

LEMMA StageScores ==
    ASSUME NEW t
    PROVE  /\ StageScore(t) \in 0..100
           /\ \A x \in t : TacticScore(x) <= StageScore(t)
           /\ t # {} => \E x \in t : StageScore(t) = TacticScore(x)
<1>1. \A x : TacticScore(x) \in 0..100
  BY DEF TacticScore
<1>2. CASE t = {}
  BY <1>2 DEF StageScore
<1>3. CASE t # {}
  <2> DEFINE S == {TacticScore(x) : x \in t}
  <2>1. S \subseteq 0..100 /\ S # {}
    BY <1>1, <1>3
  <2>2. Max(S) \in S /\ \A y \in S : y <= Max(S)
    BY <2>1, GreatestUpTo
  <2>3. StageScore(t) = Max(S)
    BY <1>3 DEF StageScore
  <2> HIDE DEF S
  <2>4. StageScore(t) \in S /\ \A y \in S : y <= StageScore(t)
    BY <2>2, <2>3
  <2>5. \A x \in t : TacticScore(x) \in S
    BY DEF S
  <2>6. \E x \in t : StageScore(t) = TacticScore(x)
    BY <2>4 DEF S
  <2> QED BY <1>1, <2>4, <2>5, <2>6
<1> QED BY <1>2, <1>3

(* A further tactic beside others never lowers the stage.                  *)
LEMMA StageGrows ==
    ASSUME NEW t, t # {}, NEW x
    PROVE  StageScore(t) <= StageScore(t \cup {x})
<1>1. PICK y \in t : StageScore(t) = TacticScore(y)
  BY StageScores
<1>2. TacticScore(y) <= StageScore(t \cup {x})
  BY StageScores
<1> QED BY <1>1, <1>2

LEMMA SeverityGrows ==
    ASSUME NEW a \in 0..4, NEW b \in a..4
    PROVE  /\ SeverityScore(a) \in 0..100 /\ SeverityScore(b) \in 0..100
           /\ SeverityScore(a) <= SeverityScore(b)
<1>1. b \in 0..4 /\ a <= b
  OBVIOUS
<1>2. SeverityScore(0) = 10 /\ SeverityScore(1) = 30 /\ SeverityScore(2) = 50
      /\ SeverityScore(3) = 80 /\ SeverityScore(4) = 100
  BY DEF SeverityScore
<1>3. a = 0 \/ a = 1 \/ a = 2 \/ a = 3 \/ a = 4
  OBVIOUS
<1>4. b = 0 \/ b = 1 \/ b = 2 \/ b = 3 \/ b = 4
  BY <1>1
<1> QED BY <1>1, <1>2, <1>3, <1>4

LEMMA AssetsGrow ==
    ASSUME NEW a \in Nat, NEW b \in Nat, a <= b
    PROVE  /\ Min({10 * a, 100}) \in 0..100 /\ Min({10 * b, 100}) \in 0..100
           /\ Min({10 * a, 100}) <= Min({10 * b, 100})
<1>1. \A n \in Nat : Min({10 * n, 100}) = IF 10 * n <= 100 THEN 10 * n ELSE 100
  BY DEF Min
<1> QED BY <1>1

LEMMA DivisionGrows ==
    ASSUME NEW a \in Nat, NEW b \in Nat, a <= b, b <= 6350
    PROVE  /\ (20 * a + 65) \div 130 \in Nat /\ (20 * b + 65) \div 130 \in Nat
           /\ (20 * b + 65) \div 130 <= 1000
           /\ (20 * a + 65) \div 130 <= (20 * b + 65) \div 130
OBVIOUS

(* The risk of the five parts that are weighed. *)
RiskOf(s, a, t, c, k) == (20 * (25 * s + 10 * a + 10 * t + 5 * c + 15 * k) + 65) \div 130

(* Each part of g is at least that of d. *)
WeighsNoLess(g, d) ==
    /\ d.severity <= g.severity /\ d.assets <= g.assets /\ d.confidence <= g.confidence
    /\ StageScore(d.tactics) <= StageScore(g.tactics) /\ DataScore(d) <= DataScore(g)

(* What is graver in what is weighed has as much risk or more.             *)
LEMMA RiskGrows ==
    ASSUME NEW d, NEW g, IsData(d), IsData(g), Counted(d), Counted(g), WeighsNoLess(g, d)
    PROVE  /\ RiskTenths(d) \in Nat /\ RiskTenths(g) \in Nat /\ RiskTenths(g) <= 1000
           /\ RiskTenths(d) <= RiskTenths(g)
<1>1. /\ d.severity \in 0..4 /\ g.severity \in d.severity..4
      /\ d.confidence \in Nat /\ g.confidence \in Nat /\ g.confidence <= 100
      /\ d.confidence <= g.confidence
      /\ d.assets \in Nat /\ g.assets \in Nat
  BY DEF IsData, Counted, WeighsNoLess
<1>2. /\ SeverityScore(d.severity) \in 0..100 /\ SeverityScore(g.severity) \in 0..100
      /\ SeverityScore(d.severity) <= SeverityScore(g.severity)
  BY <1>1, SeverityGrows
<1>3. /\ Min({10 * d.assets, 100}) \in 0..100 /\ Min({10 * g.assets, 100}) \in 0..100
      /\ Min({10 * d.assets, 100}) <= Min({10 * g.assets, 100})
  BY <1>1, AssetsGrow DEF WeighsNoLess
<1>4. StageScore(d.tactics) \in 0..100 /\ StageScore(g.tactics) \in 0..100
  BY StageScores
<1>5. DataScore(d) \in 0..90 /\ DataScore(g) \in 0..90
  BY DEF DataScore
<1>6. PICK s1 \in Nat, s2 \in Nat :
          s1 = SeverityScore(d.severity) /\ s2 = SeverityScore(g.severity) /\ s1 <= s2 /\ s2 <= 100
  BY <1>2
<1>7. PICK a1 \in Nat, a2 \in Nat :
          /\ a1 = Min({10 * d.assets, 100}) /\ a2 = Min({10 * g.assets, 100})
          /\ a1 <= a2 /\ a2 <= 100
  BY <1>3
<1>8. PICK t1 \in Nat, t2 \in Nat :
          t1 = StageScore(d.tactics) /\ t2 = StageScore(g.tactics) /\ t1 <= t2 /\ t2 <= 100
  BY <1>4 DEF WeighsNoLess
<1>9. PICK c1 \in Nat, c2 \in Nat :
          c1 = d.confidence /\ c2 = g.confidence /\ c1 <= c2 /\ c2 <= 100
  BY <1>1
<1>10. PICK k1 \in Nat, k2 \in Nat :
          k1 = DataScore(d) /\ k2 = DataScore(g) /\ k1 <= k2 /\ k2 <= 90
  BY <1>5 DEF WeighsNoLess
<1>11. /\ s1 <= s2 /\ a1 <= a2 /\ t1 <= t2 /\ c1 <= c2 /\ k1 <= k2
       /\ s2 <= 100 /\ a2 <= 100 /\ t2 <= 100 /\ c2 <= 100 /\ k2 <= 90
  BY <1>6, <1>7, <1>8, <1>9, <1>10, Zenon
<1>12. /\ RiskOf(s1, a1, t1, c1, k1) \in Nat /\ RiskOf(s2, a2, t2, c2, k2) \in Nat
       /\ RiskOf(s2, a2, t2, c2, k2) <= 1000
       /\ RiskOf(s1, a1, t1, c1, k1) <= RiskOf(s2, a2, t2, c2, k2)
  <2>1. /\ 25 * s1 + 10 * a1 + 10 * t1 + 5 * c1 + 15 * k1 \in Nat
        /\ 25 * s2 + 10 * a2 + 10 * t2 + 5 * c2 + 15 * k2 \in Nat
        /\ 25 * s2 + 10 * a2 + 10 * t2 + 5 * c2 + 15 * k2 <= 6350
        /\ 25 * s1 + 10 * a1 + 10 * t1 + 5 * c1 + 15 * k1 <=
               25 * s2 + 10 * a2 + 10 * t2 + 5 * c2 + 15 * k2
    BY <1>11
  <2> QED BY <2>1, DivisionGrows DEF RiskOf
<1>13. /\ RiskTenths(d) = RiskOf(s1, a1, t1, c1, k1)
       /\ RiskTenths(g) = RiskOf(s2, a2, t2, c2, k2)
  BY <1>6, <1>7, <1>8, <1>9, <1>10, Zenon DEF RiskTenths, Weighted, RiskOf
<1> QED BY <1>12, <1>13

(* A greater risk is not of a later priority, and no deadline of an        *)
(* earlier priority is later.                                              *)
LEMMA PriorityFalls ==
    ASSUME NEW a \in Nat, NEW b \in Nat, a <= b
    PROVE  /\ DeterminePriority(a) \in 1..5 /\ DeterminePriority(b) \in 1..5
           /\ DeterminePriority(b) <= DeterminePriority(a)
BY DEF DeterminePriority

LEMMA DeadlinesFollow ==
    ASSUME NEW p \in 1..5, NEW q \in 1..5, q <= p, NEW n \in 1..4
    PROVE  Sla(q)[n] <= Sla(p)[n]
<1>1. /\ Sla(1) = <<15, 30, 60, 240>> /\ Sla(2) = <<30, 60, 240, 1440>>
      /\ Sla(3) = <<60, 120, 480, 4320>> /\ Sla(4) = <<240, 480, 1440, 10080>>
      /\ Sla(5) = <<1440, 2880, 4320, 20160>>
  BY DEF Sla
<1>2. (p = 1 \/ p = 2 \/ p = 3 \/ p = 4 \/ p = 5) /\ (q = 1 \/ q = 2 \/ q = 3 \/ q = 4 \/ q = 5)
  OBVIOUS
<1>3. n = 1 \/ n = 2 \/ n = 3 \/ n = 4
  OBVIOUS
<1> QED BY <1>1, <1>2, <1>3

(* What changes nothing of what a case is told by, and keeps its data.     *)
LEMMA GraverGrows ==
    ASSUME NEW d, IsData(d), Counted(d), NEW g \in Graver(d)
    PROVE  /\ IsData(g) /\ Counted(g)
           /\ WeighsNoLess(g, d)
           /\ ClassifyIncident(g) = ClassifyIncident(d)
<1>1. /\ d.severity \in 0..4 /\ d.assets \in Nat /\ d.users \in Nat /\ d.confidence \in 0..100
      /\ d = [confidence |-> d.confidence, severity |-> d.severity, assets |-> d.assets,
              users |-> d.users, types |-> d.types, tactics |-> d.tactics]
  BY DEF IsData, Counted
<1>2. StageScore(d.tactics) \in 0..100 /\ DataScore(d) \in 0..90
  BY StageScores DEF DataScore
<1>3. CASE \E s \in d.severity..4 : g = [d EXCEPT !.severity = s]
  <2>1. PICK s \in d.severity..4 : g = [d EXCEPT !.severity = s]
    BY <1>3
  <2>2. s \in 0..4 /\ d.severity <= s
    BY <1>1
  <2>3. /\ IsData(g) /\ g.severity = s /\ g.confidence = d.confidence
        /\ g.assets = d.assets /\ g.users = d.users /\ g.types = d.types /\ g.tactics = d.tactics
    BY <1>1, <2>1, <2>2 DEF IsData
  <2> QED BY <1>1, <1>2, <2>2, <2>3 DEF Counted, WeighsNoLess, DataScore, ClassifyIncident
<1>4. CASE \E n \in 0..9 : g = [d EXCEPT !.assets = @ + n]
  <2>1. PICK n \in 0..9 : g = [d EXCEPT !.assets = d.assets + n]
    BY <1>4
  <2>2. d.assets + n \in Nat /\ d.assets <= d.assets + n
    BY <1>1
  <2>3. /\ IsData(g) /\ g.severity = d.severity /\ g.confidence = d.confidence
        /\ g.assets = d.assets + n /\ g.users = d.users /\ g.types = d.types
        /\ g.tactics = d.tactics
    BY <1>1, <2>1, <2>2 DEF IsData
  <2> QED BY <1>1, <1>2, <2>2, <2>3 DEF Counted, WeighsNoLess, DataScore, ClassifyIncident
<1>5. CASE \E c \in d.confidence..100 : g = [d EXCEPT !.confidence = c]
  <2>1. PICK c \in d.confidence..100 : g = [d EXCEPT !.confidence = c]
    BY <1>5
  <2>2. c \in 0..100 /\ d.confidence <= c
    BY <1>1
  <2>3. /\ IsData(g) /\ g.severity = d.severity /\ g.confidence = c
        /\ g.assets = d.assets /\ g.users = d.users /\ g.types = d.types /\ g.tactics = d.tactics
    BY <1>1, <2>1, <2>2 DEF IsData
  <2> QED BY <1>1, <1>2, <2>2, <2>3 DEF Counted, WeighsNoLess, DataScore, ClassifyIncident
<1>6. CASE g = [d EXCEPT !.types = @ \cup {"credential"}]
  <2>1. /\ IsData(g) /\ g.severity = d.severity /\ g.confidence = d.confidence
        /\ g.assets = d.assets /\ g.users = d.users /\ g.types = d.types \cup {"credential"}
        /\ g.tactics = d.tactics
    BY <1>1, <1>6 DEF IsData
  <2>2. DataScore(d) <= DataScore(g)
    BY <2>1 DEF DataScore
  <2>3. ClassifyIncident(g) = ClassifyIncident(d)
    BY <2>1 DEF ClassifyIncident
  <2> QED BY <1>1, <1>2, <2>1, <2>2, <2>3 DEF Counted, WeighsNoLess
<1>7. ASSUME NEW x \in {"impact", "initial-access"}, d.tactics # {},
             g = [d EXCEPT !.tactics = @ \cup {x}]
      PROVE  /\ IsData(g) /\ Counted(g)
             /\ WeighsNoLess(g, d)
             /\ ClassifyIncident(g) = ClassifyIncident(d)
  <2>1. /\ IsData(g) /\ g.severity = d.severity /\ g.confidence = d.confidence
        /\ g.assets = d.assets /\ g.users = d.users /\ g.types = d.types
        /\ g.tactics = d.tactics \cup {x}
    BY <1>1, <1>7 DEF IsData
  <2>2. StageScore(d.tactics) <= StageScore(g.tactics)
    BY <1>7, <2>1, StageGrows
  <2>3. DataScore(d) = DataScore(g)
    BY <1>7, <2>1 DEF DataScore
  <2>4. ClassifyIncident(g) = ClassifyIncident(d)
    BY <1>7, <2>1 DEF ClassifyIncident
  <2> QED BY <1>1, <1>2, <2>1, <2>2, <2>3, <2>4 DEF Counted, WeighsNoLess
<1> QED BY <1>1, <1>3, <1>4, <1>5, <1>6, <1>7 DEF Graver

(* The incident that the caller holds, whatever types were added to it.    *)
HeldIsCase ==
    /\ held = [severity |-> held.severity, assets |-> held.assets, users |-> held.users,
               types |-> held.types, tactics |-> held.tactics]
    /\ held.severity \in 0..4
    /\ held.assets \in Nat \cup {NotANumber} /\ held.users \in Nat \cup {NotANumber}

(* What a task makes of the incident and its findings can be weighed, but  *)
(* for a count that the incident gives and that is not a number.           *)
LEMMA ExtractedIsData ==
    ASSUME HeldIsCase, NEW given \in BOOLEAN,
           NEW finding \in CaseFindings \cup {NoFindingGiven},
           NEW event \in CaseFindings \cup {NoFindingGiven}, NEW findings \in SUBSET CaseFindings
    PROVE  /\ IsData(ExtractIncidentData(given, finding, event, findings))
           /\ ~Counted(ExtractIncidentData(given, finding, event, findings)) =>
                  given /\ NotANumber \in {held.assets, held.users}
<1> DEFINE Same(a, b) == IsData(b) /\ b.assets = a.assets /\ b.users = a.users
<1>1. /\ IsData(FromIncident(given))
      /\ ~Counted(FromIncident(given)) => given /\ NotANumber \in {held.assets, held.users}
  <2>1. /\ held.severity \in 0..4 /\ held.assets \in Nat \cup {NotANumber}
        /\ held.users \in Nat \cup {NotANumber}
    BY DEF HeldIsCase
  <2>2. CASE given
    BY <2>1, <2>2 DEF FromIncident, IsData, Counted
  <2>3. CASE ~given
    BY <2>3 DEF FromIncident, IsData, Counted
  <2> QED BY <2>2, <2>3
<1>2. ASSUME NEW f \in CaseFindings PROVE f.severity \in 0..4 /\ f.confidence \in 0..100
  BY PrioritizationAssumption
<1>3. ASSUME NEW d, IsData(d) PROVE Same(d, WithFinding(d, finding))
  <2>1. CASE finding = NoFindingGiven
    BY <1>3, <2>1 DEF WithFinding
  <2>2. CASE finding \in CaseFindings
    <3>1. finding # NoFindingGiven
      BY <2>2, PrioritizationAssumption
    <3> QED BY <1>2, <1>3, <2>2, <3>1 DEF WithFinding, IsData
  <2> QED BY <2>1, <2>2
<1>4. ASSUME NEW d, IsData(d) PROVE Same(d, WithEvent(d, event))
  <2>1. CASE event = NoFindingGiven
    BY <1>4, <2>1 DEF WithEvent
  <2>2. CASE event \in CaseFindings
    <3>1. event # NoFindingGiven
      BY <2>2, PrioritizationAssumption
    <3> QED BY <1>2, <1>4, <2>2, <3>1 DEF WithEvent, IsData
  <2> QED BY <2>1, <2>2
<1>5. ASSUME NEW d, IsData(d) PROVE Same(d, WithFindings(d, findings))
  <2> DEFINE S == {d.severity} \cup {f.severity : f \in findings}
  <2>1. S \subseteq 0..4 /\ S # {}
    BY <1>2, <1>5 DEF IsData
  <2>2. Max(S) \in 0..4
    BY <2>1, GreatestUpTo
  <2>3. WithFindings(d, findings) =
            [d EXCEPT !.severity = Max(S), !.types = @ \cup {f.type : f \in findings}]
    BY DEF WithFindings
  <2> HIDE DEF S
  <2> QED BY <1>5, <2>2, <2>3 DEF IsData
<1> DEFINE first == FromIncident(given)
           second == WithFinding(first, finding)
           third == WithEvent(second, event)
           last == WithFindings(third, findings)
<1>6. ExtractIncidentData(given, finding, event, findings) = last
  BY DEF ExtractIncidentData
<1>7. Same(first, second)
  BY <1>1, <1>3, Zenon
<1>8. Same(second, third)
  BY <1>4, <1>7, Zenon
<1>9. Same(third, last)
  BY <1>5, <1>8, Zenon
<1>10. IsData(last) /\ last.assets = first.assets /\ last.users = first.users
  BY <1>7, <1>8, <1>9, Zenon
<1>11. Counted(last) <=> Counted(first)
  BY <1>10, Zenon DEF Counted
<1> QED BY <1>1, <1>6, <1>10, <1>11, Zenon

(* The caller's incident stays one, and the last result is of data that    *)
(* can be weighed, or of an incident that gives a count that is none.      *)
PrioritizationInv ==
    /\ HeldIsCase
    /\ \/ verdict = [status |-> "none"]
       \/ /\ IsData(verdict.data) /\ verdict = Prioritized(verdict.data)
          /\ ~Counted(verdict.data) => NotANumber \in {held.assets, held.users}

LEMMA ResultsOfData ==
    ASSUME NEW d, IsData(d)
    PROVE  /\ Prioritized(d).data = d
           /\ Prioritized(d).status = IF Counted(d) THEN "success" ELSE "failed"
           /\ Counted(d) =>
                 /\ Prioritized(d).risk = RiskTenths(d)
                 /\ Prioritized(d).priority = DeterminePriority(RiskTenths(d))
                 /\ Prioritized(d).sla = Sla(DeterminePriority(RiskTenths(d)))
                 /\ (Prioritized(d).escalates <=> Escalates(d))
<1>1. NotANumber \in {d.assets, d.users} <=> ~Counted(d)
  BY PrioritizationAssumption DEF IsData, Counted
<1>2. CASE Counted(d)
  BY <1>1, <1>2 DEF Prioritized
<1>3. CASE ~Counted(d)
  BY <1>1, <1>3 DEF Prioritized
<1> QED BY <1>2, <1>3

LEMMA PrioritizationInvariant == PrioritizationSpec => []PrioritizationInv
<1>1. PrioritizationInit => PrioritizationInv
  <2> SUFFICES ASSUME PrioritizationInit PROVE PrioritizationInv
    OBVIOUS
  <2>1. held \in Case
    BY PrioritizationAssumption DEF PrioritizationInit
  <2>2. HeldIsCase
    BY <2>1 DEF Case, HeldIsCase
  <2> QED BY <2>2 DEF PrioritizationInit, PrioritizationInv
<1>2. ASSUME PrioritizationInv, [PrioritizationNext]_prioritizationVars PROVE PrioritizationInv'
  <2>1. CASE UNCHANGED prioritizationVars
    BY <1>2, <2>1 DEF PrioritizationInv, HeldIsCase, prioritizationVars
  <2>2. ASSUME NEW given \in BOOLEAN, NEW finding \in CaseFindings \cup {NoFindingGiven},
               NEW event \in CaseFindings \cup {NoFindingGiven},
               NEW findings \in SUBSET CaseFindings,
               Prioritize(given, finding, event, findings)
        PROVE  PrioritizationInv'
    <3>0. HeldIsCase
      BY <1>2 DEF PrioritizationInv
    <3>1. PICK d : d = ExtractIncidentData(given, finding, event, findings)
      OBVIOUS
    <3>2. /\ verdict' = Prioritized(d)
          /\ held' = IF given THEN [held EXCEPT !.types = d.types] ELSE held
      BY <2>2, <3>1 DEF Prioritize
    <3>3. IsData(d) /\ (~Counted(d) => given /\ NotANumber \in {held.assets, held.users})
      BY <3>0, <3>1, ExtractedIsData, Zenon
    <3>4. /\ HeldIsCase' /\ held'.assets = held.assets /\ held'.users = held.users
      BY <3>0, <3>2 DEF HeldIsCase
    <3>5. verdict'.data = d
      BY <3>2, <3>3, ResultsOfData
    <3>6. IsData(verdict'.data) /\ verdict' = Prioritized(verdict'.data)
          /\ (~Counted(verdict'.data) => NotANumber \in {held'.assets, held'.users})
      BY <3>2, <3>3, <3>4, <3>5, Zenon
    <3> QED BY <3>4, <3>6 DEF PrioritizationInv, IsData, Counted, Prioritized
  <2> QED BY <1>2, <2>1, <2>2 DEF PrioritizationNext
<1> QED BY <1>1, <1>2, PTL DEF PrioritizationSpec

(* An incident that is graver in one respect is never handled later: no    *)
(* lower priority, no later deadline, no lost escalation, for every number *)
(* of assets and confidence, whatever types and tactics a caller names.    *)
THEOREM GraverNeverWaits == PrioritizationSpec => []GraverIsNoLater
<1>1. ASSUME PrioritizationInv PROVE GraverIsNoLater
  <2>1. ASSUME verdict.status = "success", NEW g \in Graver(verdict.data)
        PROVE  /\ Prioritized(g).status = "success" /\ Prioritized(g).risk \in 0..1000
               /\ Prioritized(g).priority <= verdict.priority
               /\ \A n \in 1..4 : Prioritized(g).sla[n] <= verdict.sla[n]
               /\ verdict.escalates => Prioritized(g).escalates
    <3>1. PICK d : d = verdict.data
      OBVIOUS
    <3>2. IsData(d) /\ verdict = Prioritized(d)
      BY <1>1, <2>1, <3>1 DEF PrioritizationInv
    <3>3. Counted(d)
      BY <2>1, <3>2, ResultsOfData
    <3>4. /\ IsData(g) /\ Counted(g)
          /\ WeighsNoLess(g, d)
          /\ ClassifyIncident(g) = ClassifyIncident(d)
      BY <2>1, <3>1, <3>2, <3>3, GraverGrows
    <3>5. /\ RiskTenths(d) \in Nat /\ RiskTenths(g) \in Nat /\ RiskTenths(g) <= 1000
          /\ RiskTenths(d) <= RiskTenths(g)
      BY <3>2, <3>3, <3>4, RiskGrows
    <3>6. /\ DeterminePriority(RiskTenths(d)) \in 1..5 /\ DeterminePriority(RiskTenths(g)) \in 1..5
          /\ DeterminePriority(RiskTenths(g)) <= DeterminePriority(RiskTenths(d))
      BY <3>5, PriorityFalls
    <3>7. \A n \in 1..4 : Sla(DeterminePriority(RiskTenths(g)))[n] <=
                               Sla(DeterminePriority(RiskTenths(d)))[n]
      BY <3>6, DeadlinesFollow
    <3>8. Escalates(d) => Escalates(g)
      <4>1. AssetCriticality(d.assets) = 4 => AssetCriticality(g.assets) = 4
        <5>1. PICK a \in Nat, b \in Nat : a = d.assets /\ b = g.assets
          BY <3>3, <3>4 DEF Counted
        <5>2. a <= b
          BY <3>4, <5>1, Zenon DEF WeighsNoLess
        <5>3. AssetCriticality(a) = 4 => AssetCriticality(b) = 4
          BY <5>2 DEF AssetCriticality
        <5> QED BY <5>1, <5>3, Zenon
      <4>2. RiskTenths(d) >= 900 => RiskTenths(g) >= 900
        BY <3>5
      <4> QED BY <3>4, <4>1, <4>2, Zenon DEF Escalates
    <3>9. /\ verdict.priority = DeterminePriority(RiskTenths(d))
          /\ verdict.sla = Sla(DeterminePriority(RiskTenths(d)))
          /\ (verdict.escalates <=> Escalates(d))
      BY <3>2, <3>3, ResultsOfData, Zenon
    <3>10. /\ Prioritized(g).status = "success" /\ Prioritized(g).risk = RiskTenths(g)
           /\ Prioritized(g).priority = DeterminePriority(RiskTenths(g))
           /\ Prioritized(g).sla = Sla(DeterminePriority(RiskTenths(g)))
           /\ (Prioritized(g).escalates <=> Escalates(g))
      BY <3>4, ResultsOfData, Zenon
    <3>11. Prioritized(g).risk \in 0..1000
      BY <3>5, <3>10
    <3>12. Prioritized(g).priority <= verdict.priority
      BY <3>6, <3>9, <3>10
    <3>13. \A n \in 1..4 : Prioritized(g).sla[n] <= verdict.sla[n]
      BY <3>7, <3>9, <3>10, Zenon
    <3>14. verdict.escalates => Prioritized(g).escalates
      BY <3>8, <3>9, <3>10, Zenon
    <3> QED BY <3>10, <3>11, <3>13, <3>14, <3>12, Zenon
  <2>2. ASSUME verdict.status = "failed" PROVE NotANumber \in {held.assets, held.users}
    <3>1. IsData(verdict.data) /\ verdict = Prioritized(verdict.data)
          /\ (~Counted(verdict.data) => NotANumber \in {held.assets, held.users})
      BY <1>1, <2>2 DEF PrioritizationInv
    <3>2. ~Counted(verdict.data)
      BY <2>2, <3>1, ResultsOfData
    <3> QED BY <3>1, <3>2
  <2> QED BY <2>1, <2>2, Zenon DEF GraverIsNoLater
<1> QED BY <1>1, PrioritizationInvariant, PTL

-----------------------------------------------------------------------------
(* The registry *)

(* A list of all of a set, each once.                                      *)
Index(s, T) ==
    /\ s \in Seq(T)
    /\ \A m, n \in 1..Len(s) : s[m] = s[n] => m = n
    /\ \A t \in T : \E n \in 1..Len(s) : s[n] = t

LEMMA IndexOfNothing == Index(<<>>, {})
BY DEF Index

LEMMA IndexOfOneMore ==
    ASSUME NEW T, NEW s, Index(s, T), NEW t, t \notin T
    PROVE  Index(Append(s, t), T \cup {t})
<1> DEFINE r == Append(s, t)
<1>1. s \in Seq(T) /\ Len(s) \in Nat /\ \A n \in 1..Len(s) : s[n] \in T /\ s[n] # t
  BY DEF Index
<1>2. /\ r \in Seq(T \cup {t}) /\ Len(r) = Len(s) + 1 /\ r[Len(s) + 1] = t
      /\ \A n \in 1..Len(s) : r[n] = s[n]
  BY <1>1
<1>3. \A n \in 1..(Len(s) + 1) : n \in 1..Len(s) \/ n = Len(s) + 1
  BY <1>1
<1> HIDE DEF r
<1>4. \A m, n \in 1..Len(r) : r[m] = r[n] => m = n
  <2> SUFFICES ASSUME NEW m \in 1..(Len(s) + 1), NEW n \in 1..(Len(s) + 1), r[m] = r[n] PROVE m = n
    BY <1>2
  <2>1. CASE m \in 1..Len(s) /\ n \in 1..Len(s)
    BY <1>2, <2>1 DEF Index
  <2>2. CASE ~(m \in 1..Len(s) /\ n \in 1..Len(s))
    BY <1>1, <1>2, <1>3, <2>2
  <2> QED BY <2>1, <2>2
<1>5. ASSUME NEW u \in T \cup {t} PROVE \E n \in 1..Len(r) : r[n] = u
  <2>1. CASE u = t
    BY <1>1, <1>2, <2>1
  <2>2. CASE u \in T
    <3>1. PICK n \in 1..Len(s) : s[n] = u
      BY <2>2 DEF Index
    <3> QED BY <1>1, <1>2, <3>1
  <2> QED BY <2>1, <2>2
<1> QED BY <1>2, <1>4, <1>5 DEF Index, r

LEMMA IndexOfOthers ==
    ASSUME NEW T, NEW s, Index(s, T), NEW P, P \subseteq DOMAIN s, NEW S, S \subseteq T,
           \A n \in DOMAIN s : n \in P <=> s[n] \in S
    PROVE  Index(Kept(s, P), S)
<1>1. s \in Seq(T) /\ Len(s) \in Nat /\ DOMAIN s = 1..Len(s)
  BY DEF Index
<1>2. PICK N, o : Enumerates(o, N, P) /\ Kept(s, P) = At(s, o)
  <2>1. P \subseteq 1..Len(s)
    BY <1>1
  <2> QED BY <1>1, <2>1, KeptIs
<1>3. N \in Nat /\ o \in [1..N -> P] /\ \A p \in P : \E k \in 1..N : o[k] = p
  BY <1>2 DEF Enumerates
<1>4. PICK r : r = Kept(s, P)
  OBVIOUS
<1>5. r = [k \in 1..N |-> s[o[k]]]
  BY <1>2, <1>3, <1>4 DEF At
<1>6. \A k \in 1..N : o[k] \in P /\ o[k] \in 1..Len(s) /\ s[o[k]] \in S
  BY <1>1, <1>3
<1>7. r \in Seq(S) /\ Len(r) = N /\ \A k \in 1..N : r[k] = s[o[k]]
  BY <1>3, <1>5, <1>6
<1>8. ASSUME NEW m \in 1..N, NEW n \in 1..N, r[m] = r[n] PROVE m = n
  <2>0. s[o[m]] = s[o[n]] /\ o[m] \in 1..Len(s) /\ o[n] \in 1..Len(s)
    BY <1>6, <1>7, <1>8
  <2>1. o[m] = o[n]
    BY <2>0 DEF Index
  <2>2. (m < n => o[m] < o[n]) /\ (n < m => o[n] < o[m])
    BY <1>2 DEF Enumerates
  <2>3. m \in Int /\ n \in Int /\ o[m] \in Int
    BY <1>3, <1>6
  <2> QED BY <2>1, <2>2, <2>3
<1>9. ASSUME NEW t \in S PROVE \E k \in 1..N : r[k] = t
  <2>1. PICK n \in 1..Len(s) : s[n] = t
    BY <1>9 DEF Index
  <2>2. n \in P
    BY <1>1, <2>1
  <2> QED BY <1>3, <1>7, <2>1, <2>2
<1> QED BY <1>4, <1>7, <1>8, <1>9 DEF Index

Able(c) == {t \in AgentTypes : HasAgent(t) /\ c \in CapabilitiesOf[t]}

(* Each agent is under its own type, and a capability's list has each type *)
(* once that has an agent with the capability.                             *)
RegistryInv ==
    /\ agentWithId = agentOf /\ agentOf \in [AgentTypes -> Agents \cup {NoAgent}]
    /\ \A t \in AgentTypes : HasAgent(t) => agentOf[t].type = t
    /\ DOMAIN capableTypes = Capabilities
    /\ \A c \in Capabilities : Index(capableTypes[c], Able(c))

LEMMA InitiallyRegistryInv == RegistryInit => RegistryInv
<1> SUFFICES ASSUME RegistryInit PROVE RegistryInv
  OBVIOUS
<1>1. \A c : Able(c) = {}
  BY DEF Able, HasAgent, RegistryInit
<1> QED BY <1>1, IndexOfNothing DEF RegistryInit, RegistryInv, HasAgent

LEMMA RegistersWell == ASSUME RegistryInv, NEW a \in Agents, Register(a) PROVE RegistryInv'
<1> DEFINE t == a.type
<1>1. t \in AgentTypes /\ a # NoAgent /\ ~HasAgent(t)
  BY RegistryAssumption DEF Agents, Register
<1>2. /\ agentOf' = [agentOf EXCEPT ![t] = a] /\ agentWithId' = agentOf'
      /\ agentOf \in [AgentTypes -> Agents \cup {NoAgent}]
  BY DEF Register, RegistryInv
<1>3. /\ agentOf' \in [AgentTypes -> Agents \cup {NoAgent}]
      /\ \A u \in AgentTypes : HasAgent(u)' <=> HasAgent(u) \/ u = t
      /\ \A u \in AgentTypes : HasAgent(u)' => agentOf'[u].type = u
  BY <1>1, <1>2 DEF HasAgent, RegistryInv
<1>4. ASSUME NEW c \in Capabilities PROVE Index(capableTypes'[c], Able(c)')
  <2>1. Index(capableTypes[c], Able(c)) /\ t \notin Able(c)
    BY <1>1 DEF RegistryInv, Able
  <2>2. CASE c \in CapabilitiesOf[t]
    <3>1. capableTypes'[c] = Append(capableTypes[c], t)
      BY <2>2 DEF Register
    <3>2. Able(c)' = Able(c) \cup {t}
      BY <1>1, <1>3, <2>2 DEF Able
    <3> QED BY <2>1, <3>1, <3>2, IndexOfOneMore
  <2>3. CASE c \notin CapabilitiesOf[t]
    <3>1. capableTypes'[c] = capableTypes[c]
      BY <2>3 DEF Register
    <3>2. Able(c)' = Able(c)
      BY <1>1, <1>3, <2>3 DEF Able
    <3> QED BY <2>1, <3>1, <3>2
  <2> QED BY <2>2, <2>3
<1>5. DOMAIN capableTypes' = Capabilities
  BY DEF Register
<1> QED BY <1>2, <1>3, <1>4, <1>5 DEF RegistryInv

LEMMA UnregistersWell == ASSUME RegistryInv, NEW t \in AgentTypes, Unregister(t) PROVE RegistryInv'
<1>1. /\ agentOf' = [agentOf EXCEPT ![t] = NoAgent] /\ agentWithId' = agentOf'
      /\ agentOf \in [AgentTypes -> Agents \cup {NoAgent}]
  BY DEF Unregister, RegistryInv
<1>2. /\ agentOf' \in [AgentTypes -> Agents \cup {NoAgent}]
      /\ \A u \in AgentTypes : HasAgent(u)' <=> HasAgent(u) /\ u # t
      /\ \A u \in AgentTypes : HasAgent(u)' => agentOf'[u].type = u
  BY <1>1 DEF HasAgent, RegistryInv
<1>3. ASSUME NEW c \in Capabilities PROVE Index(capableTypes'[c], Able(c)')
  <2>1. PICK s : s = capableTypes[c]
    OBVIOUS
  <2>2. Index(s, Able(c)) /\ s \in Seq(Able(c))
    BY <2>1 DEF RegistryInv, Index
  <2>3. CASE c \in CapabilitiesOf[t]
    <3> DEFINE P == {n \in DOMAIN s : s[n] # t}
    <3>1. capableTypes'[c] = Kept(s, P)
      BY <2>1, <2>3 DEF Unregister, Those
    <3>2. Able(c)' = Able(c) \ {t}
      BY <1>2, <2>3 DEF Able
    <3>3. P \subseteq DOMAIN s /\ Able(c) \ {t} \subseteq Able(c)
      OBVIOUS
    <3>4. \A n \in DOMAIN s : n \in P <=> s[n] \in Able(c) \ {t}
      BY <2>2
    <3> HIDE DEF P
    <3> QED BY <2>2, <3>1, <3>2, <3>3, <3>4, IndexOfOthers
  <2>4. CASE c \notin CapabilitiesOf[t]
    <3>1. capableTypes'[c] = s
      BY <2>1, <2>4 DEF Unregister
    <3>2. Able(c)' = Able(c)
      BY <1>2, <2>4 DEF Able
    <3> QED BY <2>2, <3>1, <3>2
  <2> QED BY <2>3, <2>4
<1>4. DOMAIN capableTypes' = Capabilities
  BY DEF Unregister
<1> QED BY <1>1, <1>2, <1>3, <1>4 DEF RegistryInv

LEMMA RegistryInvKept == RegistryInv /\ [RegistryNext]_registryVars => RegistryInv'
<1> SUFFICES ASSUME RegistryInv, [RegistryNext]_registryVars PROVE RegistryInv'
  OBVIOUS
<1>1. CASE UNCHANGED registryVars
  BY <1>1 DEF registryVars, RegistryInv, HasAgent, Able
<1>2. CASE ClearRegistry
  <2>1. \A c : Able(c)' = {}
    BY <1>2 DEF Able, HasAgent, ClearRegistry
  <2> QED BY <1>2, <2>1, IndexOfNothing DEF ClearRegistry, RegistryInv, HasAgent
<1> QED BY <1>1, <1>2, RegistersWell, UnregistersWell DEF RegistryNext

(* The three indexes of the registry tell one story.                       *)
LEMMA RegistryInvAgrees == RegistryInv => RegistryAgrees
<1> SUFFICES ASSUME RegistryInv PROVE RegistryAgrees
  OBVIOUS
<1>1. ASSUME NEW c \in Capabilities
      PROVE  /\ ToSet(ByCapability(c)) = {agentOf[t] : t \in {u \in AgentTypes :
                                             HasAgent(u) /\ c \in CapabilitiesOf[u]}}
             /\ IsInjective(ByCapability(c))
             /\ \A t \in ToSet(capableTypes[c]) : HasAgent(t)
  <2>1. PICK s : s = capableTypes[c]
    OBVIOUS
  <2>2. Index(s, Able(c)) /\ s \in Seq(Able(c))
    BY <2>1 DEF RegistryInv, Index
  <2> DEFINE P == {n \in DOMAIN s : HasAgent(s[n])}
  <2>3. PICK r : r = Kept(s, P)
    OBVIOUS
  <2>4. ByCapability(c) = [n \in DOMAIN r |-> agentOf[r[n]]]
    BY <2>1, <2>3 DEF ByCapability, Those
  <2>5. P \subseteq DOMAIN s /\ \A n \in DOMAIN s : n \in P <=> s[n] \in Able(c)
    BY <2>2 DEF Able
  <2> HIDE DEF P
  <2>6. Index(r, Able(c))
    BY <2>2, <2>3, <2>5, IndexOfOthers
  <2>7. r \in Seq(Able(c)) /\ DOMAIN r = 1..Len(r)
    BY <2>6 DEF Index
  <2>8. PICK b : b = ByCapability(c)
    OBVIOUS
  <2>9. /\ DOMAIN b = 1..Len(r)
        /\ \A n \in 1..Len(r) : b[n] = agentOf[r[n]] /\ r[n] \in Able(c) /\ b[n].type = r[n]
    BY <2>4, <2>7, <2>8 DEF RegistryInv, Able
  <2>10. IsInjective(b)
    <3>1. \A m, n \in 1..Len(r) : b[m] = b[n] => r[m] = r[n]
      BY <2>9
    <3>2. \A m, n \in 1..Len(r) : r[m] = r[n] => m = n
      BY <2>6 DEF Index
    <3> QED BY <2>9, <3>1, <3>2 DEF IsInjective
  <2>11. ToSet(b) = {agentOf[t] : t \in Able(c)}
    <3>1. \A x \in ToSet(b) : \E t \in Able(c) : x = agentOf[t]
      BY <2>9 DEF ToSet
    <3>2. ASSUME NEW t \in Able(c) PROVE agentOf[t] \in ToSet(b)
      <4>1. PICK n \in 1..Len(r) : r[n] = t
        BY <2>6 DEF Index
      <4> QED BY <2>9, <4>1 DEF ToSet
    <3> QED BY <3>1, <3>2
  <2>12. \A t \in ToSet(capableTypes[c]) : HasAgent(t)
    BY <2>1, <2>2 DEF ToSet, Able
  <2> QED BY <2>8, <2>10, <2>11, <2>12 DEF Able
<1> QED BY <1>1 DEF RegistryAgrees, RegistryInv
-----------------------------------------------------------------------------
(* The router *)

IsRules(s) == IsList(s) /\ \A n \in 1..Len(s) : s[n].priority \in Int /\ s[n].since \in Nat

(* Rules as they were added, those of one priority in their order.         *)
InTime(s) == \A m, n \in 1..Len(s) : m < n /\ s[m].priority = s[n].priority => s[m].since <= s[n].since

AheadOf(q, r) == q.priority > r.priority \/ (q.priority = r.priority /\ q.since <= r.since)

Ranked(s) == \A m, n \in 1..Len(s) : m < n => AheadOf(s[m], s[n])

LEMMA ByPriorityRanks ==
    ASSUME NEW s, IsRules(s), InTime(s)
    PROVE  /\ IsRules(ByPriority(s)) /\ Ranked(ByPriority(s)) /\ Len(ByPriority(s)) = Len(s)
           /\ \A n \in 1..Len(s) : \E m \in 1..Len(s) : ByPriority(s)[n] = s[m]
<1> DEFINE N == Len(s)
           keys == [n \in 1..N |-> -s[n].priority]
           r == ByPriority(s)
<1>1. N \in Nat /\ DOMAIN s = 1..N
  BY ListIs DEF IsRules
<1>2. \A n \in 1..N : s[n].priority \in Int /\ s[n].since \in Nat
  BY DEF IsRules
<1>3. keys \in [1..N -> Int] /\ \A n \in 1..N : keys[n] = -s[n].priority
  BY <1>2
<1>4. r = At(s, InOrder(keys))
  BY <1>1 DEF ByPriority, SortedBy
<1> HIDE DEF keys, r, N
<1>50. PICK o : Sorts(o, keys, N) /\ r = At(s, o)
  BY <1>1, <1>3, <1>4, SortedIs
<1>5. /\ r = At(s, o) /\ o \in [1..N -> 1..N]
      /\ \A j, k \in 1..N : j < k => Before(keys, o[j], o[k])
  BY <1>50 DEF Sorts
<1>6. r = [k \in 1..N |-> s[o[k]]]
  BY <1>5 DEF At
<1>7. IsList(r) /\ Len(r) = N /\ \A k \in 1..N : o[k] \in 1..N /\ r[k] = s[o[k]]
  <2>1. DOMAIN r = 1..N /\ r = [k \in 1..N |-> r[k]] /\ \A k \in 1..N : o[k] \in 1..N /\ r[k] = s[o[k]]
    BY <1>5, <1>6
  <2> QED BY <1>1, <2>1, ListFrom
<1>8. IsRules(r)
  BY <1>2, <1>7 DEF IsRules
<1>9. ASSUME NEW j \in 1..N, NEW k \in 1..N, j < k
      PROVE  AheadOf(r[j], r[k])
  <2>1. Before(keys, o[j], o[k]) /\ o[j] \in 1..N /\ o[k] \in 1..N
    BY <1>5, <1>9
  <2>2. PICK a \in 1..N, b \in 1..N : a = o[j] /\ b = o[k]
    BY <2>1
  <2>3. keys[a] < keys[b] \/ (keys[a] = keys[b] /\ a < b)
    BY <2>1, <2>2 DEF Before
  <2>4. s[a].priority > s[b].priority \/ (s[a].priority = s[b].priority /\ a < b)
    BY <1>2, <1>3, <2>3
  <2>5. a < b /\ s[a].priority = s[b].priority => s[a].since <= s[b].since
    BY DEF InTime, N
  <2>6. r[j] = s[a] /\ r[k] = s[b]
    BY <1>7, <2>2
  <2> QED BY <2>4, <2>5, <2>6 DEF AheadOf
<1>10. Ranked(r)
  BY <1>7, <1>9 DEF Ranked
<1> QED BY <1>7, <1>8, <1>10 DEF N, r

LEMMA DefaultsRank ==
    /\ IsRules(DefaultRules) /\ Ranked(DefaultRules)
    /\ \A n \in 1..Len(DefaultRules) : DefaultRules[n].since = 0
<1>1. PICK s : s = <<
       Rule("email_events", "email_verification", 100, {"email", "email_gateway"}, {"email"}, {}, "always"),
       Rule("auth_logs", "log_analyzer", 90, {"authentication", "syslog", "windows"}, {"login"}, {}, "always"),
       Rule("network_ids", "network_threat", 95, {"suricata", "ids"}, {"alert", "c2_communication"}, {}, "always"),
       Rule("ip_analysis", "ip_range_analyzer", 70, {}, {"cidr_request", "ip_analysis_request"}, {"source_ip"}, "cidr"),
       Rule("vulnerability", "vulnerability", 85, {"scanner"}, {"vulnerability"}, {}, "always"),
       Rule("ioc_match", "threat_intelligence", 92, {}, {"ioc_match", "malware_detected"}, {}, "ioc"),
       Rule("correlation", "correlation", 60, {}, {"attack_chain"}, {}, "related"),
       Rule("investigation", "investigation", 50, {}, {"incident", "data_exfiltration"}, {}, "severe"),
       Rule("application_logs", "log_analyzer", 40, {"application", "json"}, {"error"}, {}, "always")>>
  OBVIOUS
<1>0. DefaultRules = ByPriority(s)
  BY <1>1 DEF DefaultRules
<1>2. \A n, a, p, src, ty, req, c : /\ Rule(n, a, p, src, ty, req, c).priority = p
                                   /\ Rule(n, a, p, src, ty, req, c).since = 0
  BY DEF Rule
<1>3. Len(s) = 9 /\ DOMAIN s = 1..9 /\ s = [n \in 1..9 |-> s[n]]
  BY <1>1
<1>4. \A n \in 1..9 : s[n].priority \in Int /\ s[n].since = 0
  BY <1>1, <1>2
<1>5. IsList(s)
  BY <1>3, ListFrom
<1>6. IsRules(s) /\ InTime(s)
  BY <1>3, <1>4, <1>5 DEF IsRules, InTime
<1>7. /\ IsRules(ByPriority(s)) /\ Ranked(ByPriority(s)) /\ Len(ByPriority(s)) = Len(s)
      /\ \A n \in 1..Len(s) : \E m \in 1..Len(s) : ByPriority(s)[n] = s[m]
  BY <1>6, ByPriorityRanks
<1>8. ASSUME NEW n \in 1..Len(DefaultRules) PROVE DefaultRules[n].since = 0
  <2>1. PICK m \in 1..9 : DefaultRules[n] = s[m]
    BY <1>0, <1>3, <1>7
  <2> QED BY <1>4, <2>1
<1>9. IsRules(DefaultRules) /\ Ranked(DefaultRules)
  BY <1>0, <1>7
<1> QED BY <1>8, <1>9

(* The rules are in the order in which they are tried, and no more tasks   *)
(* count as dispatched than are on the topic.                              *)
RulesAreRanked ==
    /\ added \in Nat /\ IsRules(rules) /\ Ranked(rules)
    /\ \A n \in 1..Len(rules) : rules[n].since <= added

TasksAreOnTopic ==
    /\ taskIds \in Nat /\ dispatched \in Nat /\ IsFiniteSet(onTopic)
    /\ \A made \in onTopic : made.id \in Nat /\ made.id <= taskIds
    /\ dispatched <= Cardinality(onTopic)

RouterInv == RulesAreRanked /\ TasksAreOnTopic

LEMMA InitiallyRouterInv == RouterInit => RouterInv
<1> SUFFICES ASSUME RouterInit PROVE RouterInv
  OBVIOUS
<1>1. RulesAreRanked
  BY DefaultsRank DEF RouterInit, RulesAreRanked
<1>2. TasksAreOnTopic
  BY FS_EmptySet DEF RouterInit, TasksAreOnTopic
<1> QED BY <1>1, <1>2 DEF RouterInv

LEMMA AddingKeepsRank == ASSUME RulesAreRanked, NEW r \in CustomRules, AddRule(r) PROVE RulesAreRanked'
<1> DEFINE q == [r EXCEPT !.since = added + 1]
           s == Append(rules, q)
<1>1. added \in Nat /\ added' = added + 1 /\ rules' = ByPriority(s)
  BY DEF AddRule, Placed, RulesAreRanked
<1>2. q.priority \in Int /\ q.since = added + 1
  <2>1. r.priority \in Int /\ r = Rule(r.name, r.agent, r.priority, r.sources, r.types, r.required, r.condition)
    BY RouterAssumption
  <2> QED BY <2>1 DEF Rule
<1> HIDE DEF q
<1>3. /\ IsList(s) /\ Len(s) = Len(rules) + 1 /\ s[Len(rules) + 1] = q
      /\ \A n \in 1..Len(rules) : s[n] = rules[n]
  BY AppendedIs DEF RulesAreRanked, IsRules
<1>4. Len(rules) \in Nat
  BY ListIs DEF RulesAreRanked, IsRules
<1> HIDE DEF s
<1>5. \A n \in 1..Len(s) : n \in 1..Len(rules) \/ n = Len(rules) + 1
  BY <1>3, <1>4
<1>6. \A n \in 1..Len(rules) : /\ rules[n].priority \in Int /\ rules[n].since \in Nat
                               /\ rules[n].since <= added
  BY DEF RulesAreRanked, IsRules
<1>7. IsRules(s) /\ \A n \in 1..Len(s) : s[n].since <= added + 1
  BY <1>1, <1>2, <1>3, <1>4, <1>5, <1>6 DEF IsRules
<1>8. ASSUME NEW m \in 1..Len(s), NEW n \in 1..Len(s), m < n, s[m].priority = s[n].priority
      PROVE  s[m].since <= s[n].since
  <2>1. m \in 1..Len(rules)
    BY <1>3, <1>4, <1>5, <1>8
  <2>2. CASE n = Len(rules) + 1
    BY <1>1, <1>2, <1>3, <1>6, <2>1, <2>2
  <2>3. CASE n \in 1..Len(rules)
    <3>1. AheadOf(rules[m], rules[n])
      BY <1>8, <2>1, <2>3 DEF RulesAreRanked, Ranked
    <3> QED BY <1>3, <1>6, <1>8, <2>1, <2>3, <3>1 DEF AheadOf
  <2> QED BY <1>5, <2>2, <2>3
<1>9. InTime(s)
  BY <1>8 DEF InTime
<1>10. /\ IsRules(rules') /\ Ranked(rules') /\ Len(rules') = Len(s)
       /\ \A n \in 1..Len(s) : \E m \in 1..Len(s) : rules'[n] = s[m]
  BY <1>1, <1>7, <1>9, ByPriorityRanks
<1> QED BY <1>1, <1>7, <1>10 DEF RulesAreRanked

LEMMA RemovingKeepsRank == ASSUME RulesAreRanked, NEW name, RemoveRule(name) PROVE RulesAreRanked'
<1>1. /\ IsList(rules) /\ Len(rules) \in Nat /\ added \in Nat /\ added' = added
      /\ \A n \in 1..Len(rules) : /\ rules[n].priority \in Int /\ rules[n].since \in Nat
                                  /\ rules[n].since <= added
  BY ListIs DEF RulesAreRanked, IsRules, RemoveRule
<1>2. PICK i : /\ i = SelectInSeq(rules, LAMBDA r : r.name = name)
               /\ i > 0 /\ rules' = RemoveAt(rules, i)
  BY DEF RemoveRule
<1>3. i \in 1..Len(rules)
  <2> DEFINE I == {n \in 1..Len(rules) : rules[n].name = name}
  <2>1. i = IF I # {} THEN Min(I) ELSE 0
    BY <1>2 DEF SelectInSeq
  <2>2. I # {}
    BY <1>2, <2>1
  <2>3. I \subseteq 1..Len(rules)
    OBVIOUS
  <2> HIDE DEF I
  <2> QED BY <1>1, <2>1, <2>2, <2>3, FirstIs
<1> DEFINE from(n) == IF n < i THEN n ELSE n + 1
<1>4. /\ IsList(rules') /\ Len(rules') = Len(rules) - 1
      /\ \A n \in 1..(Len(rules) - 1) : rules'[n] = rules[from(n)]
  BY <1>1, <1>2, <1>3, RemovedIs
<1>5. \A n \in 1..(Len(rules) - 1) : from(n) \in 1..Len(rules)
  BY <1>1, <1>3
<1>6. \A m, n \in 1..(Len(rules) - 1) : m < n => from(m) < from(n)
  BY <1>1, <1>3
<1> HIDE DEF from
<1>7. IsRules(rules') /\ \A n \in 1..Len(rules') : rules'[n].since <= added'
  BY <1>1, <1>4, <1>5 DEF IsRules
<1>8. Ranked(rules')
  <2> SUFFICES ASSUME NEW m \in 1..Len(rules'), NEW n \in 1..Len(rules'), m < n
               PROVE  AheadOf(rules'[m], rules'[n])
    BY DEF Ranked
  <2>1. PICK j \in 1..Len(rules), k \in 1..Len(rules) :
            j = from(m) /\ k = from(n) /\ j < k /\ rules'[m] = rules[j] /\ rules'[n] = rules[k]
    BY <1>4, <1>5, <1>6
  <2>2. AheadOf(rules[j], rules[k])
    BY <2>1 DEF RulesAreRanked, Ranked
  <2> QED BY <2>1, <2>2
<1> QED BY <1>1, <1>7, <1>8 DEF RulesAreRanked

LEMMA DispatchesCount ==
    ASSUME TasksAreOnTopic, NEW agent, NEW priority, NEW publishes \in BOOLEAN, NEW direct \in BOOLEAN,
           Dispatch(agent, priority, publishes, direct)
    PROVE  TasksAreOnTopic'
<1> DEFINE made == [id |-> taskIds + 1, agent |-> agent, priority |-> priority]
           sent == onTopic \cup {made}
<1>1. /\ taskIds' = taskIds + 2 /\ onTopic' \in {sent} \cup (IF publishes THEN {} ELSE {onTopic})
      /\ dispatched' = IF publishes /\ ~direct THEN dispatched + 1 ELSE dispatched
  BY DEF Dispatch
<1>2. /\ taskIds \in Nat /\ dispatched \in Nat /\ IsFiniteSet(onTopic)
      /\ \A t \in onTopic : t.id \in Nat /\ t.id <= taskIds
      /\ dispatched <= Cardinality(onTopic) /\ Cardinality(onTopic) \in Nat
  BY FS_CardinalityType DEF TasksAreOnTopic
<1>3. made.id = taskIds + 1
  OBVIOUS
<1> HIDE DEF made
<1>4. made \notin onTopic
  BY <1>2, <1>3
<1>5. IsFiniteSet(sent) /\ Cardinality(sent) = Cardinality(onTopic) + 1
  BY <1>2, <1>4, FS_AddElement
<1>6. \A t \in sent : t.id \in Nat /\ t.id <= taskIds'
  BY <1>1, <1>2, <1>3
<1> HIDE DEF sent
<1>7. CASE onTopic' = sent
  BY <1>1, <1>2, <1>5, <1>6, <1>7 DEF TasksAreOnTopic
<1>8. CASE onTopic' = onTopic /\ ~publishes
  BY <1>1, <1>2, <1>8 DEF TasksAreOnTopic
<1> QED BY <1>1, <1>7, <1>8

LEMMA RouterInvKept == RouterInv /\ [RouterNext]_routerVars => RouterInv'
<1> SUFFICES ASSUME RouterInv, [RouterNext]_routerVars PROVE RouterInv'
  OBVIOUS
<1> USE DEF RouterInv
<1>1. ASSUME UNCHANGED <<rules, added>> PROVE RulesAreRanked'
  BY <1>1 DEF RulesAreRanked
<1>2. ASSUME UNCHANGED <<taskIds, onTopic, dispatched>> PROVE TasksAreOnTopic'
  BY <1>2 DEF TasksAreOnTopic
<1>3. ASSUME NEW r \in CustomRules, AddRule(r) PROVE RouterInv'
  <2>1. UNCHANGED <<taskIds, onTopic, dispatched>>
    BY <1>3 DEF AddRule
  <2> QED BY <1>2, <1>3, <2>1, AddingKeepsRank
<1>4. ASSUME NEW name \in RemovedNames, RemoveRule(name) PROVE RouterInv'
  <2>1. UNCHANGED <<taskIds, onTopic, dispatched>>
    BY <1>4 DEF RemoveRule
  <2> QED BY <1>2, <1>4, <2>1, RemovingKeepsRank
<1>5. ASSUME NEW agent, NEW priority, NEW publishes \in BOOLEAN, NEW direct \in BOOLEAN,
             Dispatch(agent, priority, publishes, direct)
      PROVE  RouterInv'
  BY <1>1, <1>5, DispatchesCount DEF Dispatch
<1>6. ASSUME NEW e \in RoutedEvents, DispatchFails(e) PROVE RouterInv'
  BY <1>1, <1>2, <1>6 DEF DispatchFails
<1>7. CASE UNCHANGED routerVars
  BY <1>1, <1>2, <1>7 DEF routerVars
<1> QED BY <1>3, <1>4, <1>5, <1>6, <1>7 DEF RouterNext, DispatchEvent, DispatchFinding

(* The first rule that fits has the highest priority of all that fit, and  *)
(* of those with it was there first.                                       *)
LEMMA RouterInvRoutes == RouterInv => RoutesByPriority
<1> SUFFICES ASSUME RouterInv PROVE RoutesByPriority
  OBVIOUS
<1>1. /\ IsList(rules) /\ Len(rules) \in Nat /\ DOMAIN rules = 1..Len(rules) /\ Ranked(rules)
      /\ \A n \in 1..Len(rules) : rules[n].priority \in Int /\ rules[n].since \in Nat
  BY ListIs DEF RouterInv, RulesAreRanked, IsRules
<1>2. ASSUME NEW e \in RoutedEvents
      PROVE  LET fits == {n \in DOMAIN rules : Matches(rules[n], e)}
                 top == {n \in fits : \A m \in fits : rules[m].priority <= rules[n].priority}
             IN  fits # {} => \E n \in top : /\ Route(e) = rules[n].agent
                                             /\ \A m \in top : rules[n].since <= rules[m].since
  <2> DEFINE fits == {n \in DOMAIN rules : Matches(rules[n], e)}
             top == {n \in fits : \A m \in fits : rules[m].priority <= rules[n].priority}
  <2> SUFFICES ASSUME fits # {}
               PROVE  \E n \in top : /\ Route(e) = rules[n].agent
                                     /\ \A m \in top : rules[n].since <= rules[m].since
    OBVIOUS
  <2>1. PICK i : i = Min(fits)
    OBVIOUS
  <2>2. fits \subseteq 1..Len(rules)
    BY <1>1
  <2>3. SelectInSeq(rules, LAMBDA r : Matches(r, e)) = i
    BY <1>1, <2>1 DEF SelectInSeq
  <2>4. i \in fits /\ i \in 1..Len(rules) /\ \A m \in fits : i <= m
    <3> HIDE DEF fits
    <3> QED BY <1>1, <2>1, <2>2, FirstIs
  <2>5. Route(e) = rules[i].agent
    BY <2>3, <2>4 DEF Route
  <2>6. ASSUME NEW m \in fits
        PROVE  /\ rules[m].priority <= rules[i].priority
               /\ rules[m].priority = rules[i].priority => rules[i].since <= rules[m].since
    <3>1. m \in 1..Len(rules) /\ i <= m
      BY <2>2, <2>4
    <3>2. CASE i = m
      BY <1>1, <3>1, <3>2
    <3>3. CASE i < m
      <4>1. AheadOf(rules[i], rules[m])
        BY <1>1, <2>4, <3>1, <3>3 DEF Ranked
      <4> QED BY <1>1, <2>4, <3>1, <4>1 DEF AheadOf
    <3>4. i \in Int /\ m \in Int
      BY <2>4, <3>1
    <3> QED BY <3>1, <3>2, <3>3, <3>4
  <2>7. i \in top /\ \A m \in top : rules[m].priority = rules[i].priority
    BY <1>1, <2>2, <2>4, <2>6
  <2> HIDE DEF fits
  <2> QED BY <2>5, <2>6, <2>7
<1>3. dispatched <= Cardinality(onTopic)
  BY DEF RouterInv, TasksAreOnTopic
<1>4. ASSUME NEW e \in RoutedEvents, NEW f \in RoutedEvents, e.type = f.type, e.severity > f.severity
      PROVE  TaskPriority(e) >= TaskPriority(f)
  <2>1. e.severity \in 0..4 /\ f.severity \in 0..4
    BY RouterAssumption
  <2> QED BY <1>4, <2>1 DEF TaskPriority, FromSeverity
<1> QED BY <1>2, <1>3, <1>4 DEF RoutesByPriority

-----------------------------------------------------------------------------
(* The response plan *)

(* What is named in a list can be appended to.                             *)
LEMMA ListsGrow == ASSUME NEW s, IsList(s), NEW x PROVE IsList(s \o Given(x))
<1> DEFINE S == ToSet(s) \cup {x}
<1>1. s \in Seq(S) /\ Given(x) \in Seq(S)
  <2>1. ToSet(s) \subseteq S /\ s \in Seq(ToSet(s))
    BY ListIs
  <2> HIDE DEF S
  <2>2. s \in Seq(S)
    BY <2>1, SeqMonotonic
  <2>3. x \in S => Given(x) \in Seq(S)
    BY DEF Given
  <2> QED BY <2>2, <2>3 DEF S
<1>2. s \o Given(x) \in Seq(S)
  BY <1>1, ConcatProperties
<1> QED BY <1>2, ListOf

NamedAs(name, targets) == [name : {name}, target : targets]
Actions(names, targets) == [name : names, target : targets]

LEMMA FirstOfIs ==
    ASSUME NEW S, NEW s \in Seq(S), NEW limit \in Nat
    PROVE  /\ FirstOf(s, limit) \in Seq(S)
           /\ Len(FirstOf(s, limit)) = IF Len(s) < limit THEN Len(s) ELSE limit
           /\ \A n \in 1..Len(FirstOf(s, limit)) : FirstOf(s, limit)[n] = s[n]
<1> DEFINE k == IF Len(s) < limit THEN Len(s) ELSE limit
<1>1. k \in Nat /\ k <= Len(s) /\ \A n \in 1..k : s[n] \in S
  OBVIOUS
<1>2. SubSeq(s, 1, k) \in Seq(S) /\ Len(SubSeq(s, 1, k)) = k
      /\ \A n \in 1..k : SubSeq(s, 1, k)[n] = s[n]
  <2> HIDE DEF k
  <2>1. /\ SubSeq(s, 1, k) \in Seq(S)
        /\ Len(SubSeq(s, 1, k)) = IF 1 <= k THEN k - 1 + 1 ELSE 0
        /\ \A i \in 1..(k - 1 + 1) : SubSeq(s, 1, k)[i] = s[1 + i - 1]
    BY <1>1, SubSeqProperties
  <2> QED BY <1>1, <2>1
<1> QED BY <1>2 DEF FirstOf

LEMMA AgainstIs ==
    ASSUME NEW T, NEW targets \in Seq(T), NEW name
    PROVE  /\ Against(name, targets) \in Seq(NamedAs(name, T))
           /\ Len(Against(name, targets)) = Len(targets)
           /\ \A n \in 1..Len(targets) : /\ Against(name, targets)[n].name = name
                                         /\ Against(name, targets)[n].target = targets[n]
<1>1. Len(targets) \in Nat /\ DOMAIN targets = 1..Len(targets)
  OBVIOUS
<1>2. \A n \in 1..Len(targets) : [name |-> name, target |-> targets[n]] \in NamedAs(name, T)
  BY DEF NamedAs
<1>3. Against(name, targets) = [n \in 1..Len(targets) |-> [name |-> name, target |-> targets[n]]]
  BY <1>1 DEF Against
<1> QED BY <1>1, <1>2, <1>3

LEMMA WhenIs ==
    ASSUME NEW S, NEW s \in Seq(S), NEW c \in BOOLEAN
    PROVE  When(c, s) \in Seq(S) /\ (c => When(c, s) = s)
BY DEF When

Begins(s, t) == \A n \in 1..Len(s) : n \in 1..Len(t) /\ t[n] = s[n]

(* Where an element of a concatenation comes from, and where it goes.      *)
LEMMA Joined ==
    ASSUME NEW S, NEW s \in Seq(S), NEW t \in Seq(S)
    PROVE  /\ s \o t \in Seq(S) /\ Len(s \o t) = Len(s) + Len(t)
           /\ Len(s) \in Nat /\ Len(t) \in Nat /\ Len(s \o t) \in Nat
           /\ Begins(s, s \o t)
           /\ \A n \in 1..Len(t) : Len(s) + n \in 1..Len(s \o t) /\ (s \o t)[Len(s) + n] = t[n]
           /\ \A n \in 1..Len(s \o t) : \/ n \in 1..Len(s) /\ (s \o t)[n] = s[n]
                                        \/ n - Len(s) \in 1..Len(t) /\ (s \o t)[n] = t[n - Len(s)]
<1>1. /\ s \o t \in Seq(S)
      /\ Len(s \o t) = Len(s) + Len(t)
      /\ \A i \in 1 .. Len(s) + Len(t) : (s \o t)[i] = IF i <= Len(s) THEN s[i] ELSE t[i - Len(s)]
  BY ConcatProperties
<1>2. Len(s) \in Nat /\ Len(t) \in Nat
  OBVIOUS
<1> QED BY <1>1, <1>2 DEF Begins

LEMMA AllAreNamed ==
    ASSUME NEW name, NEW T, NEW s \in Seq(NamedAs(name, T))
    PROVE  \A m \in 1..Len(s) : s[m].name = name /\ s[m].target \in T
<1>1. \A m \in 1..Len(s) : s[m] \in NamedAs(name, T)
  BY ElementOfSeq
<1> QED BY <1>1 DEF NamedAs

LEMMA NamesAreOf ==
    ASSUME NEW names, NEW T, NEW s \in Seq(Actions(names, T))
    PROVE  \A m \in 1..Len(s) : s[m].name \in names
<1>1. \A m \in 1..Len(s) : s[m] \in Actions(names, T)
  BY ElementOfSeq
<1> QED BY <1>1 DEF Actions

LEMMA FromTheFirst ==
    ASSUME NEW S, NEW s \in Seq(S), NEW t \in Seq(S), NEW n \in 1..Len(s \o t),
           \A m \in 1..Len(t) : t[m].name # (s \o t)[n].name
    PROVE  n \in 1..Len(s) /\ (s \o t)[n] = s[n]
<1>1. \/ n \in 1..Len(s) /\ (s \o t)[n] = s[n]
      \/ n - Len(s) \in 1..Len(t) /\ (s \o t)[n] = t[n - Len(s)]
  BY Joined
<1> QED BY <1>1

LEMMA FromTheSecond ==
    ASSUME NEW S, NEW s \in Seq(S), NEW t \in Seq(S), NEW n \in 1..Len(s \o t),
           \A m \in 1..Len(s) : s[m].name # (s \o t)[n].name
    PROVE  n - Len(s) \in 1..Len(t) /\ (s \o t)[n] = t[n - Len(s)]
<1>1. \/ n \in 1..Len(s) /\ (s \o t)[n] = s[n]
      \/ n - Len(s) \in 1..Len(t) /\ (s \o t)[n] = t[n - Len(s)]
  BY Joined
<1> QED BY <1>1

ContainmentNames == {"isolate_host", "disable_user", "block_ip", "quarantine_email"}
EradicationNames == {"remove_malware", "reset_credentials", "remove_persistence", "patch_vulnerability"}
RecoveryNames == {"restore_backup", "reimage_host", "restore_service"}

LEMMA MoreNames ==
    ASSUME NEW names, NEW name \in names, NEW T, NEW s \in Seq(NamedAs(name, T))
    PROVE  s \in Seq(Actions(names, T))
<1>1. NamedAs(name, T) \subseteq Actions(names, T)
  BY DEF Actions, NamedAs
<1> QED BY <1>1

IsPlanContext(c) == IsList(c.hosts) /\ IsList(c.users) /\ IsList(c.addresses)

Named(c) == ToSet(c.hosts) \cup ToSet(c.users) \cup ToSet(c.addresses) \cup {NotGiven}

LEMMA ContextLists ==
    ASSUME NEW c, IsPlanContext(c)
    PROVE  /\ c.hosts \in Seq(Named(c)) /\ c.users \in Seq(Named(c)) /\ c.addresses \in Seq(Named(c))
           /\ <<NotGiven>> \in Seq(Named(c))
BY ListIs, SeqMonotonic DEF IsPlanContext, Named

(* Hosts are isolated first, and whoever is disabled comes behind them.    *)
LEMMA ContainmentIs ==
    ASSUME NEW c, IsPlanContext(c)
    PROVE  LET a == ContainmentActions(c)
               hosts == FirstOf(c.hosts, HostLimit)
               users == FirstOf(c.users, HostLimit)
           IN  /\ a \in Seq(Actions(ContainmentNames, Named(c)))
               /\ \A n \in 1..Len(hosts) : /\ n \in 1..Len(a)
                                           /\ a[n].name = "isolate_host" /\ a[n].target = hosts[n]
               /\ \A n \in 1..Len(a) : a[n].name = "disable_user" =>
                     \E k \in 1..Len(users) : a[n].target = users[k]
<1> DEFINE T == Named(c)
           hosts == FirstOf(c.hosts, HostLimit)
           users == FirstOf(c.users, HostLimit)
           S == Actions(ContainmentNames, T)
           isolate == Against("isolate_host", hosts)
           disable == When(StealsCredentials(c), Against("disable_user", users))
           block == When(HasC2(c), Against("block_ip", FirstOf(c.addresses, AddressLimit)))
           quarantine == When(c.class = "phishing", Once("quarantine_email"))
           rest == disable \o block
<1>1. HostLimit \in Nat /\ AddressLimit \in Nat
  BY PlanAssumption
<1>2. hosts \in Seq(T) /\ users \in Seq(T) /\ FirstOf(c.addresses, AddressLimit) \in Seq(T)
  BY <1>1, ContextLists, FirstOfIs
<1>3. StealsCredentials(c) \in BOOLEAN /\ HasC2(c) \in BOOLEAN /\ (c.class = "phishing") \in BOOLEAN
  BY DEF StealsCredentials, HasC2
<1>4. isolate \in Seq(NamedAs("isolate_host", T)) /\ disable \in Seq(NamedAs("disable_user", T))
  BY <1>2, <1>3, AgainstIs, WhenIs
<1>5. block \in Seq(NamedAs("block_ip", T)) /\ quarantine \in Seq(NamedAs("quarantine_email", T))
  BY <1>2, <1>3, ContextLists, AgainstIs, WhenIs DEF Once
<1>6. isolate \in Seq(S) /\ disable \in Seq(S) /\ block \in Seq(S) /\ quarantine \in Seq(S)
  BY <1>4, <1>5, MoreNames DEF ContainmentNames
<1>7. Len(isolate) = Len(hosts)
      /\ \A n \in 1..Len(hosts) : isolate[n].name = "isolate_host" /\ isolate[n].target = hosts[n]
  BY <1>2, AgainstIs
<1>8. \A n \in 1..Len(disable) : \E k \in 1..Len(users) : disable[n].target = users[k]
  <2>1. CASE StealsCredentials(c)
    <3>1. disable = Against("disable_user", users)
      BY <2>1 DEF When
    <3>2. /\ Len(Against("disable_user", users)) = Len(users)
          /\ \A n \in 1..Len(users) : Against("disable_user", users)[n].target = users[n]
      BY <1>2, AgainstIs
    <3> QED BY <3>1, <3>2
  <2>2. CASE ~StealsCredentials(c)
    BY <2>2 DEF When
  <2> QED BY <2>1, <2>2
<1>9. ContainmentActions(c) = isolate \o disable \o block \o quarantine
  BY DEF ContainmentActions
<1> HIDE DEF hosts, users, isolate, disable, block, quarantine, S
<1>10. isolate \o disable \in Seq(S) /\ (isolate \o disable) \o block \in Seq(S)
       /\ isolate \o disable \o block \o quarantine \in Seq(S)
  BY <1>6
<1>11. \A n \in 1..Len(hosts) : /\ n \in 1..Len(ContainmentActions(c))
                                /\ ContainmentActions(c)[n] = isolate[n]
  <2>1. Begins(isolate, isolate \o disable) /\ Begins(isolate \o disable, isolate \o disable \o block)
        /\ Begins(isolate \o disable \o block, ContainmentActions(c))
    BY <1>6, <1>9, <1>10, Joined
  <2>2. Begins(isolate, ContainmentActions(c))
    BY <2>1 DEF Begins
  <2> QED BY <1>7, <2>2 DEF Begins
<1>12. ASSUME NEW n \in 1..Len(ContainmentActions(c)), ContainmentActions(c)[n].name = "disable_user"
       PROVE  \E k \in 1..Len(users) : ContainmentActions(c)[n].target = users[k]
  <2> DEFINE name == ContainmentActions(c)[n].name
             all == isolate \o disable \o block \o quarantine
  <2>0. /\ \A m \in 1..Len(isolate) : isolate[m].name = "isolate_host"
        /\ \A m \in 1..Len(block) : block[m].name = "block_ip"
        /\ \A m \in 1..Len(quarantine) : quarantine[m].name = "quarantine_email"
    BY <1>4, <1>5, AllAreNamed
  <2>1. /\ \A m \in 1..Len(isolate) : isolate[m].name # name
        /\ \A m \in 1..Len(block) : block[m].name # name
        /\ \A m \in 1..Len(quarantine) : quarantine[m].name # name
    BY <1>12, <2>0
  <2>2. n \in 1..Len(isolate \o disable \o block)
        /\ ContainmentActions(c)[n] = (isolate \o disable \o block)[n]
    <3>1. n \in 1..Len(all) /\ \A m \in 1..Len(quarantine) : quarantine[m].name # all[n].name
      BY <1>9, <2>1
    <3>2. n \in 1..Len(isolate \o disable \o block) /\ all[n] = (isolate \o disable \o block)[n]
      BY <1>6, <1>10, <3>1, FromTheFirst
    <3> QED BY <1>9, <3>2
  <2>3. n \in 1..Len(isolate \o disable) /\ ContainmentActions(c)[n] = (isolate \o disable)[n]
    <3>1. \A m \in 1..Len(block) : block[m].name # (isolate \o disable \o block)[n].name
      BY <2>1, <2>2
    <3> QED BY <1>6, <1>10, <2>2, <3>1, FromTheFirst
  <2>4. n - Len(isolate) \in 1..Len(disable) /\ (isolate \o disable)[n] = disable[n - Len(isolate)]
    <3>1. \A m \in 1..Len(isolate) : isolate[m].name # (isolate \o disable)[n].name
      BY <2>1, <2>3
    <3> QED BY <1>6, <2>3, <3>1, FromTheSecond
  <2> QED BY <1>8, <2>3, <2>4
<1> QED BY <1>7, <1>9, <1>10, <1>11, <1>12 DEF S, hosts, users
(* Hosts are cleaned that are among those isolated, and all users that     *)
(* could have been disabled get new credentials.                           *)
LEMMA EradicationIs ==
    ASSUME NEW c, IsPlanContext(c)
    PROVE  LET a == EradicationActions(c)
               hosts == FirstOf(c.hosts, HostLimit)
               users == FirstOf(c.users, HostLimit)
           IN  /\ a \in Seq(Actions(EradicationNames, Named(c)))
               /\ \A n \in 1..Len(a) : a[n].name = "remove_malware" =>
                     \E k \in 1..Len(hosts) : a[n].target = hosts[k]
               /\ \A k \in 1..Len(users) : \E n \in 1..Len(a) :
                     a[n].name = "reset_credentials" /\ a[n].target = users[k]
<1> DEFINE T == Named(c)
           hosts == FirstOf(c.hosts, HostLimit)
           some == FirstOf(c.users, HostLimit)
           users == FirstOf(c.users, ResetLimit)
           S == Actions(EradicationNames, T)
           remove == When(HasMalware(c), Against("remove_malware", hosts))
           reset == Against("reset_credentials", users)
           persistence == When(HasMalware(c) \/ HasC2(c), Once("remove_persistence"))
           patch == When(c.threat = "exploit", Once("patch_vulnerability"))
           all == remove \o reset \o persistence \o patch
<1>1. HostLimit \in Nat /\ ResetLimit \in Nat /\ HostLimit <= ResetLimit
  BY PlanAssumption
<1>2. c.hosts \in Seq(T) /\ c.users \in Seq(T) /\ hosts \in Seq(T) /\ users \in Seq(T)
  BY <1>1, ContextLists, FirstOfIs
<1>3. HasMalware(c) \in BOOLEAN /\ (HasMalware(c) \/ HasC2(c)) \in BOOLEAN /\ (c.threat = "exploit") \in BOOLEAN
  BY DEF HasMalware, HasC2
<1>4. remove \in Seq(NamedAs("remove_malware", T)) /\ reset \in Seq(NamedAs("reset_credentials", T))
  BY <1>2, <1>3, AgainstIs, WhenIs
<1>5. persistence \in Seq(NamedAs("remove_persistence", T)) /\ patch \in Seq(NamedAs("patch_vulnerability", T))
  BY <1>2, <1>3, ContextLists, AgainstIs, WhenIs DEF Once
<1>6. remove \in Seq(S) /\ reset \in Seq(S) /\ persistence \in Seq(S) /\ patch \in Seq(S)
  BY <1>4, <1>5, MoreNames DEF EradicationNames
<1>7. \A n \in 1..Len(remove) : \E k \in 1..Len(hosts) : remove[n].target = hosts[k]
  <2>1. CASE HasMalware(c)
    <3>1. remove = Against("remove_malware", hosts)
      BY <2>1 DEF When
    <3>2. /\ Len(Against("remove_malware", hosts)) = Len(hosts)
          /\ \A n \in 1..Len(hosts) : Against("remove_malware", hosts)[n].target = hosts[n]
      BY <1>2, AgainstIs
    <3> QED BY <3>1, <3>2
  <2>2. CASE ~HasMalware(c)
    BY <2>2 DEF When
  <2> QED BY <2>1, <2>2
<1>8. \A k \in 1..Len(some) : /\ k \in 1..Len(reset)
                              /\ reset[k].name = "reset_credentials" /\ reset[k].target = some[k]
  <2>1. /\ Len(some) = IF Len(c.users) < HostLimit THEN Len(c.users) ELSE HostLimit
        /\ Len(users) = IF Len(c.users) < ResetLimit THEN Len(c.users) ELSE ResetLimit
        /\ \A k \in 1..Len(some) : some[k] = c.users[k]
        /\ \A k \in 1..Len(users) : users[k] = c.users[k]
    BY <1>1, <1>2, FirstOfIs
  <2>2. Len(c.users) \in Nat
    BY <1>2
  <2>3. \A k \in 1..Len(some) : k \in 1..Len(users) /\ users[k] = some[k]
    BY <1>1, <2>1, <2>2
  <2>4. /\ Len(reset) = Len(users)
        /\ \A k \in 1..Len(users) : reset[k].name = "reset_credentials" /\ reset[k].target = users[k]
    BY <1>2, AgainstIs
  <2> QED BY <2>3, <2>4
<1>9. EradicationActions(c) = all
  BY DEF EradicationActions
<1> HIDE DEF hosts, users, some, remove, reset, persistence, patch, S
<1>10. remove \o reset \in Seq(S) /\ remove \o reset \o persistence \in Seq(S) /\ all \in Seq(S)
  BY <1>6
<1>11. ASSUME NEW n \in 1..Len(all), all[n].name = "remove_malware"
       PROVE  \E k \in 1..Len(hosts) : all[n].target = hosts[k]
  <2>1. /\ \A m \in 1..Len(reset) : reset[m].name = "reset_credentials"
        /\ \A m \in 1..Len(persistence) : persistence[m].name = "remove_persistence"
        /\ \A m \in 1..Len(patch) : patch[m].name = "patch_vulnerability"
    BY <1>4, <1>5, AllAreNamed
  <2>2. /\ \A m \in 1..Len(reset) : reset[m].name # all[n].name
        /\ \A m \in 1..Len(persistence) : persistence[m].name # all[n].name
        /\ \A m \in 1..Len(patch) : patch[m].name # all[n].name
    BY <1>11, <2>1
  <2>3. n \in 1..Len(remove \o reset \o persistence) /\ all[n] = (remove \o reset \o persistence)[n]
    BY <1>6, <1>10, <2>2, FromTheFirst
  <2>4. n \in 1..Len(remove \o reset) /\ all[n] = (remove \o reset)[n]
    <3>1. \A m \in 1..Len(persistence) : persistence[m].name # (remove \o reset \o persistence)[n].name
      BY <2>2, <2>3
    <3> QED BY <1>6, <1>10, <2>3, <3>1, FromTheFirst
  <2>5. n \in 1..Len(remove) /\ all[n] = remove[n]
    <3>1. \A m \in 1..Len(reset) : reset[m].name # (remove \o reset)[n].name
      BY <2>2, <2>4
    <3> QED BY <1>6, <2>4, <3>1, FromTheFirst
  <2> QED BY <1>7, <2>5
<1>12. ASSUME NEW k \in 1..Len(some)
       PROVE  \E n \in 1..Len(all) : all[n].name = "reset_credentials" /\ all[n].target = some[k]
  <2>1. Begins(remove \o reset, remove \o reset \o persistence) /\ Begins(remove \o reset \o persistence, all)
    BY <1>6, <1>10, Joined
  <2>2. Begins(remove \o reset, all)
    BY <2>1 DEF Begins
  <2>3. Len(remove) + k \in 1..Len(remove \o reset) /\ (remove \o reset)[Len(remove) + k] = reset[k]
    BY <1>6, <1>8, Joined
  <2>4. Len(remove) + k \in 1..Len(all) /\ all[Len(remove) + k] = reset[k]
    BY <2>2, <2>3 DEF Begins
  <2> QED BY <1>8, <2>4
<1>13. all \in Seq(Actions(EradicationNames, Named(c)))
  BY <1>10 DEF S
<1> HIDE DEF all
<1> QED BY <1>9, <1>11, <1>12, <1>13 DEF hosts, some

(* Normal access comes back last, and that once.                           *)
LEMMA RecoveryIs ==
    ASSUME NEW c
    PROVE  LET a == RecoveryActions(c)
           IN  /\ a \in Seq(Actions(RecoveryNames, Named(c))) /\ Len(a) >= 1
               /\ \A n \in 1..Len(a) : a[n].name = "restore_service" <=> n = Len(a)
<1> DEFINE T == Named(c)
           S == Actions(RecoveryNames, T)
           backup == When(c.severe \/ HasMalware(c), Once("restore_backup"))
           reimage == When(c.class = "ransomware", Once("reimage_host"))
           service == Once("restore_service")
           all == backup \o reimage \o service
<1>1. <<NotGiven>> \in Seq(T)
  BY DEF Named
<1>2. \A name : /\ Once(name) \in Seq(NamedAs(name, T)) /\ Len(Once(name)) = 1 /\ Once(name)[1].name = name
  <2> TAKE name
  <2> DEFINE one == <<NotGiven>>
  <2>1. Len(one) = 1 /\ 1 \in 1..Len(one) /\ one \in Seq(T) /\ Once(name) = Against(name, one)
    BY <1>1 DEF Once
  <2> HIDE DEF one
  <2>2. /\ Against(name, one) \in Seq(NamedAs(name, T))
        /\ Len(Against(name, one)) = Len(one)
        /\ \A n \in 1..Len(one) : Against(name, one)[n].name = name
    BY <2>1, AgainstIs
  <2> QED BY <2>1, <2>2
<1>3. backup \in Seq(NamedAs("restore_backup", T)) /\ reimage \in Seq(NamedAs("reimage_host", T))
      /\ service \in Seq(NamedAs("restore_service", T))
  <2>1. \A S_, s_ : s_ \in Seq(S_) => <<>> \in Seq(S_)
    OBVIOUS
  <2> QED BY <1>2, <2>1 DEF When
<1>4. backup \in Seq(S) /\ reimage \in Seq(S) /\ service \in Seq(S)
  BY <1>3, MoreNames DEF RecoveryNames
<1>5. /\ \A m \in 1..Len(backup) : backup[m].name = "restore_backup"
      /\ \A m \in 1..Len(reimage) : reimage[m].name = "reimage_host"
      /\ Len(service) = 1 /\ service[1].name = "restore_service"
  BY <1>2, <1>3, AllAreNamed
<1>6. RecoveryActions(c) = all
  BY DEF RecoveryActions
<1> HIDE DEF backup, reimage, service, S
<1>7. backup \o reimage \in Seq(S) /\ all \in Seq(S) /\ Len(all) = Len(backup \o reimage) + 1
      /\ Len(backup \o reimage) \in Nat
  <2>1. backup \o reimage \in Seq(S) /\ Len(backup \o reimage) \in Nat
    BY <1>4, Joined
  <2>2. all \in Seq(S) /\ Len(all) = Len(backup \o reimage) + Len(service)
    BY <1>4, <2>1, Joined
  <2> QED BY <1>5, <2>1, <2>2
<1>8. \A m \in 1..Len(backup \o reimage) : (backup \o reimage)[m].name # "restore_service"
  <2> SUFFICES ASSUME NEW m \in 1..Len(backup \o reimage) PROVE (backup \o reimage)[m].name # "restore_service"
    OBVIOUS
  <2>1. \/ m \in 1..Len(backup) /\ (backup \o reimage)[m] = backup[m]
        \/ m - Len(backup) \in 1..Len(reimage) /\ (backup \o reimage)[m] = reimage[m - Len(backup)]
    BY <1>4, Joined
  <2> QED BY <1>5, <2>1
<1>9. ASSUME NEW n \in 1..Len(all) PROVE all[n].name = "restore_service" <=> n = Len(all)
  <2>1. \/ n \in 1..Len(backup \o reimage) /\ all[n] = (backup \o reimage)[n]
        \/ n - Len(backup \o reimage) \in 1..Len(service) /\ all[n] = service[n - Len(backup \o reimage)]
    BY <1>4, <1>7, Joined
  <2>2. CASE n \in 1..Len(backup \o reimage) /\ all[n] = (backup \o reimage)[n]
    BY <1>7, <1>8, <2>2
  <2>3. CASE n - Len(backup \o reimage) \in 1..Len(service) /\ all[n] = service[n - Len(backup \o reimage)]
    <3>1. n - Len(backup \o reimage) = 1
      BY <1>5, <1>7, <2>3
    <3>2. all[n] = service[1] /\ n = Len(all)
      BY <1>7, <2>3, <3>1
    <3> QED BY <1>5, <3>2
  <2> QED BY <2>1, <2>2, <2>3
<1>10. all \in Seq(Actions(RecoveryNames, Named(c))) /\ Len(all) >= 1
  BY <1>7 DEF S
<1> HIDE DEF all
<1> QED BY <1>6, <1>9, <1>10

Place(name) == SelectInSeq(<<"containment", "eradication", "recovery">>,
                           LAMBDA kind : kind = Templates[name].kind)

LEMMA PlacesAre ==
    /\ \A name \in ContainmentNames : Place(name) = 1
    /\ \A name \in EradicationNames : Place(name) = 2
    /\ \A name \in RecoveryNames : Place(name) = 3
<1> DEFINE kinds == <<"containment", "eradication", "recovery">>
<1>1. /\ \A name \in ContainmentNames : Templates[name].kind = "containment"
      /\ \A name \in EradicationNames : Templates[name].kind = "eradication"
      /\ \A name \in RecoveryNames : Templates[name].kind = "recovery"
  BY DEF ContainmentNames, EradicationNames, RecoveryNames, Templates, Template
<1>2. \A i \in 1..3 : Min({i}) = i
  BY DEF Min
<1>3. Len(kinds) = 3 /\ kinds[1] = "containment" /\ kinds[2] = "eradication" /\ kinds[3] = "recovery"
  OBVIOUS
<1>4. ASSUME NEW i \in 1..3, NEW name, Templates[name].kind = kinds[i] PROVE Place(name) = i
  <2>1. {j \in 1..Len(kinds) : kinds[j] = Templates[name].kind} = {i}
    BY <1>3, <1>4
  <2> QED BY <1>2, <2>1 DEF Place, SelectInSeq
<1> QED BY <1>1, <1>3, <1>4

(* Where an action of a plan that is made of three parts comes from.       *)
LEMMA ThreeParts ==
    ASSUME NEW T, NEW c \in Seq(Actions(ContainmentNames, T)), NEW e \in Seq(Actions(EradicationNames, T)),
           NEW r \in Seq(Actions(RecoveryNames, T)), NEW n \in 1..Len(c \o e \o r)
    PROVE  \/ /\ n \in 1..Len(c) /\ (c \o e \o r)[n] = c[n]
              /\ (c \o e \o r)[n].name \in ContainmentNames
           \/ /\ n - Len(c) \in 1..Len(e) /\ (c \o e \o r)[n] = e[n - Len(c)]
              /\ (c \o e \o r)[n].name \in EradicationNames
           \/ /\ n - Len(c) - Len(e) \in 1..Len(r) /\ (c \o e \o r)[n] = r[n - Len(c) - Len(e)]
              /\ (c \o e \o r)[n].name \in RecoveryNames
<1> DEFINE A == Actions(ContainmentNames \cup EradicationNames \cup RecoveryNames, T)
<1>1. c \in Seq(A) /\ e \in Seq(A) /\ r \in Seq(A)
  <2>1. /\ Actions(ContainmentNames, T) \subseteq A /\ Actions(EradicationNames, T) \subseteq A
        /\ Actions(RecoveryNames, T) \subseteq A
    BY DEF Actions
  <2> HIDE DEF A
  <2> QED BY <2>1, SeqMonotonic
<1> HIDE DEF A
<1>2. c \o e \in Seq(A) /\ Len(c \o e) = Len(c) + Len(e) /\ Len(c) \in Nat /\ Len(e) \in Nat
  BY <1>1, Joined
<1>3. \/ n \in 1..Len(c \o e) /\ (c \o e \o r)[n] = (c \o e)[n]
      \/ n - Len(c \o e) \in 1..Len(r) /\ (c \o e \o r)[n] = r[n - Len(c \o e)]
  BY <1>1, <1>2, Joined
<1>4. CASE n \in 1..Len(c \o e) /\ (c \o e \o r)[n] = (c \o e)[n]
  <2>1. \/ n \in 1..Len(c) /\ (c \o e)[n] = c[n]
        \/ n - Len(c) \in 1..Len(e) /\ (c \o e)[n] = e[n - Len(c)]
    BY <1>1, <1>4, Joined
  <2>2. n \in 1..Len(c) => c[n].name \in ContainmentNames
    BY NamesAreOf
  <2>3. n - Len(c) \in 1..Len(e) => e[n - Len(c)].name \in EradicationNames
    BY NamesAreOf
  <2> QED BY <1>4, <2>1, <2>2, <2>3
<1>5. CASE n - Len(c \o e) \in 1..Len(r) /\ (c \o e \o r)[n] = r[n - Len(c \o e)]
  <2>1. n - Len(c \o e) = n - Len(c) - Len(e)
    BY <1>2
  <2>2. r[n - Len(c \o e)].name \in RecoveryNames
    BY <1>5, NamesAreOf
  <2> QED BY <1>5, <2>1, <2>2
<1> QED BY <1>3, <1>4, <1>5

PlanIsOrdered(a) ==
    /\ \A n \in DOMAIN a :
          /\ a[n].name = "remove_malware" =>
                \E m \in 1..(n - 1) : a[m].name = "isolate_host" /\ a[m].target = a[n].target
          /\ a[n].name = "disable_user" =>
                \E m \in n..Len(a) : a[m].name = "reset_credentials" /\ a[m].target = a[n].target
          /\ a[n].name = "restore_service" <=> n = Len(a)
    /\ \A m, n \in DOMAIN a : m < n => Place(a[m].name) <= Place(a[n].name)

Carried(c) == ContainmentActions(c) \o EradicationActions(c) \o RecoveryActions(c)

LEMMA PlansAreOrdered ==
    ASSUME NEW c, IsPlanContext(c)
    PROVE  /\ PlanIsOrdered(Carried(c))
           /\ \E n \in DOMAIN Carried(c) : Carried(c)[n].name = "restore_service"
<1> DEFINE T == Named(c)
           C == ContainmentActions(c)
           E == EradicationActions(c)
           R == RecoveryActions(c)
           a == C \o E \o R
           hosts == FirstOf(c.hosts, HostLimit)
           users == FirstOf(c.users, HostLimit)
<1>1. /\ C \in Seq(Actions(ContainmentNames, T))
      /\ E \in Seq(Actions(EradicationNames, T))
      /\ R \in Seq(Actions(RecoveryNames, T))
  BY ContainmentIs, EradicationIs, RecoveryIs
<1>2. /\ \A n \in 1..Len(hosts) : n \in 1..Len(C) /\ C[n].name = "isolate_host" /\ C[n].target = hosts[n]
      /\ \A n \in 1..Len(C) : C[n].name = "disable_user" => \E k \in 1..Len(users) : C[n].target = users[k]
  BY ContainmentIs
<1>3. /\ \A n \in 1..Len(E) : E[n].name = "remove_malware" => \E k \in 1..Len(hosts) : E[n].target = hosts[k]
      /\ \A k \in 1..Len(users) : \E n \in 1..Len(E) :
            E[n].name = "reset_credentials" /\ E[n].target = users[k]
  BY EradicationIs
<1>4. Len(R) >= 1 /\ \A n \in 1..Len(R) : R[n].name = "restore_service" <=> n = Len(R)
  BY RecoveryIs
<1>5. Carried(c) = a
  BY DEF Carried
<1> HIDE DEF C, E, R, T, hosts, users
<1>6. /\ Len(C) \in Nat /\ Len(E) \in Nat /\ Len(R) \in Nat
      /\ Len(a) = Len(C) + Len(E) + Len(R) /\ DOMAIN a = 1..Len(a)
      /\ \A n \in 1..Len(C) : n \in DOMAIN a /\ a[n] = C[n]
      /\ \A n \in 1..Len(E) : Len(C) + n \in DOMAIN a /\ a[Len(C) + n] = E[n]
      /\ \A n \in 1..Len(R) : Len(C) + Len(E) + n \in DOMAIN a /\ a[Len(C) + Len(E) + n] = R[n]
  <2> DEFINE A == Actions(ContainmentNames \cup EradicationNames \cup RecoveryNames, T)
  <2>1. C \in Seq(A) /\ E \in Seq(A) /\ R \in Seq(A)
    <3>1. /\ Actions(ContainmentNames, T) \subseteq A /\ Actions(EradicationNames, T) \subseteq A
          /\ Actions(RecoveryNames, T) \subseteq A
      BY DEF Actions
    <3> HIDE DEF A
    <3> QED BY <1>1, <3>1, SeqMonotonic
  <2> HIDE DEF A
  <2>2. /\ C \o E \in Seq(A) /\ Len(C \o E) = Len(C) + Len(E) /\ Len(C) \in Nat /\ Len(E) \in Nat
        /\ Begins(C, C \o E)
        /\ \A n \in 1..Len(E) : Len(C) + n \in 1..Len(C \o E) /\ (C \o E)[Len(C) + n] = E[n]
    BY <2>1, Joined
  <2>3. /\ a \in Seq(A) /\ Len(a) = Len(C \o E) + Len(R) /\ Len(R) \in Nat
        /\ Begins(C \o E, a)
        /\ \A n \in 1..Len(R) : Len(C \o E) + n \in 1..Len(a) /\ a[Len(C \o E) + n] = R[n]
    <3> DEFINE b == C \o E
    <3>1. b \in Seq(A)
      BY <2>2
    <3> HIDE DEF b
    <3>2. /\ b \o R \in Seq(A) /\ Len(b \o R) = Len(b) + Len(R) /\ Len(R) \in Nat
          /\ Begins(b, b \o R)
          /\ \A n \in 1..Len(R) : Len(b) + n \in 1..Len(b \o R) /\ (b \o R)[Len(b) + n] = R[n]
      BY <2>1, <3>1, Joined
    <3> QED BY <3>2 DEF b
  <2>4. DOMAIN a = 1..Len(a)
    BY <2>3
  <2> HIDE DEF a
  <2>5. \A n \in 1..Len(C) : n \in DOMAIN a /\ a[n] = C[n]
    BY <2>2, <2>3, <2>4 DEF Begins
  <2>6. \A n \in 1..Len(E) : Len(C) + n \in DOMAIN a /\ a[Len(C) + n] = E[n]
    BY <2>2, <2>3, <2>4 DEF Begins
  <2> QED BY <2>2, <2>3, <2>4, <2>5, <2>6
<1>7. \A n \in DOMAIN a :
         \/ n \in 1..Len(C) /\ a[n] = C[n] /\ a[n].name \in ContainmentNames
         \/ n - Len(C) \in 1..Len(E) /\ a[n] = E[n - Len(C)] /\ a[n].name \in EradicationNames
         \/ /\ n - Len(C) - Len(E) \in 1..Len(R) /\ a[n] = R[n - Len(C) - Len(E)]
            /\ a[n].name \in RecoveryNames
  BY <1>1, <1>6, ThreeParts
<1> HIDE DEF a
<1>8. \A n \in DOMAIN a :
         /\ a[n].name \in ContainmentNames => n \in 1..Len(C) /\ a[n] = C[n]
         /\ a[n].name \in EradicationNames => n - Len(C) \in 1..Len(E) /\ a[n] = E[n - Len(C)]
         /\ a[n].name \in RecoveryNames =>
               n - Len(C) - Len(E) \in 1..Len(R) /\ a[n] = R[n - Len(C) - Len(E)]
         /\ a[n].name \in ContainmentNames \cup EradicationNames \cup RecoveryNames
  BY <1>7 DEF ContainmentNames, EradicationNames, RecoveryNames
<1>9. ASSUME NEW n \in DOMAIN a, a[n].name = "remove_malware"
      PROVE  \E m \in 1..(n - 1) : a[m].name = "isolate_host" /\ a[m].target = a[n].target
  <2>1. n - Len(C) \in 1..Len(E) /\ a[n] = E[n - Len(C)]
    BY <1>8, <1>9 DEF EradicationNames
  <2>2. PICK k \in 1..Len(hosts) : a[n].target = hosts[k]
    BY <1>3, <1>9, <2>1
  <2>3. k \in 1..Len(C) /\ a[k].name = "isolate_host" /\ a[k].target = a[n].target
    BY <1>2, <1>6, <2>2
  <2>4. k \in 1..(n - 1)
    BY <1>6, <2>1, <2>3
  <2> QED BY <2>3, <2>4
<1>10. ASSUME NEW n \in DOMAIN a, a[n].name = "disable_user"
       PROVE  \E m \in n..Len(a) : a[m].name = "reset_credentials" /\ a[m].target = a[n].target
  <2>1. n \in 1..Len(C) /\ a[n] = C[n]
    BY <1>8, <1>10 DEF ContainmentNames
  <2>2. PICK k \in 1..Len(users) : a[n].target = users[k]
    BY <1>2, <1>10, <2>1
  <2>3. PICK m \in 1..Len(E) : E[m].name = "reset_credentials" /\ E[m].target = users[k]
    BY <1>3
  <2>4. Len(C) + m \in DOMAIN a /\ a[Len(C) + m] = E[m]
    BY <1>6
  <2>5. Len(C) + m \in n..Len(a)
    BY <1>6, <2>1, <2>4
  <2> QED BY <2>2, <2>3, <2>4, <2>5
<1>11. ASSUME NEW n \in DOMAIN a PROVE a[n].name = "restore_service" <=> n = Len(a)
  <2>1. ASSUME a[n].name = "restore_service" PROVE n = Len(a)
    <3>1. n - Len(C) - Len(E) \in 1..Len(R) /\ a[n] = R[n - Len(C) - Len(E)]
      BY <1>8, <2>1 DEF RecoveryNames
    <3>2. n - Len(C) - Len(E) = Len(R)
      BY <1>4, <2>1, <3>1
    <3> QED BY <1>6, <3>2
  <2>2. ASSUME n = Len(a) PROVE a[n].name = "restore_service"
    <3>1. Len(R) \in 1..Len(R) /\ n = Len(C) + Len(E) + Len(R)
      BY <1>4, <1>6, <2>2
    <3>2. a[n] = R[Len(R)] /\ R[Len(R)].name = "restore_service"
      BY <1>4, <1>6, <3>1
    <3> QED BY <3>2
  <2> QED BY <2>1, <2>2
<1>12. ASSUME NEW m \in DOMAIN a, NEW n \in DOMAIN a, m < n PROVE Place(a[m].name) <= Place(a[n].name)
  <2>1. m \in Int /\ n \in Int
    BY <1>6
  <2>2. CASE a[m].name \in ContainmentNames
    BY <1>8, <2>2, PlacesAre
  <2>3. CASE a[m].name \in EradicationNames
    <3>1. a[n].name \notin ContainmentNames
      BY <1>6, <1>8, <1>12, <2>1, <2>3
    <3> QED BY <1>8, <2>3, <3>1, PlacesAre
  <2>4. CASE a[m].name \in RecoveryNames
    <3>1. a[n].name \notin ContainmentNames /\ a[n].name \notin EradicationNames
      BY <1>6, <1>8, <1>12, <2>1, <2>4
    <3> QED BY <1>8, <2>4, <3>1, PlacesAre
  <2> QED BY <1>8, <2>2, <2>3, <2>4
<1>13. Len(a) \in DOMAIN a
  BY <1>4, <1>6
<1> QED BY <1>5, <1>9, <1>10, <1>11, <1>12, <1>13 DEF PlanIsOrdered

(* The lists of the incident stay lists, and the last plan is in order.    *)
PlanInv ==
    /\ incident = [class |-> incident.class, hosts |-> incident.hosts, users |-> incident.users]
    /\ IsList(incident.hosts) /\ IsList(incident.users)
    /\ plan.status = "success" => PlanIsOrdered(plan.actions) /\ "security" \in plan.approvals

LEMMA InitiallyPlanInv == PlanInit => PlanInv
BY PlanAssumption DEF PlanInit, PlanInv

LEMMA ContextsAreListed ==
    ASSUME PlanInv, NEW given \in BOOLEAN, NEW finding \in PlanFindings \cup {NotGiven}, NEW event
    PROVE  IsPlanContext(ExtractContext(given, finding, event))
<1> DEFINE lists == IF given THEN incident ELSE [class |-> "other", hosts |-> <<>>, users |-> <<>>]
           found == IF finding = NotGiven THEN [threat |-> "unknown", severe |-> FALSE, addresses |-> <<>>]
                    ELSE finding
           seen == IF event = NotGiven THEN [host |-> NotGiven, address |-> NotGiven, user |-> NotGiven]
                   ELSE event
           c == ExtractContext(given, finding, event)
<1>1. IsList(<<>>)
  BY DEF IsList, ToSet
<1>2. IsList(lists.hosts) /\ IsList(lists.users)
  BY <1>1 DEF PlanInv
<1>3. IsList(found.addresses)
  BY <1>1, PlanAssumption
<1>4. /\ c.hosts = lists.hosts \o Given(seen.host) /\ c.users = lists.users \o Given(seen.user)
      /\ c.addresses = found.addresses \o Given(seen.address)
  BY DEF ExtractContext
<1> HIDE DEF lists, found, seen, c
<1> QED BY <1>2, <1>3, <1>4, ListsGrow DEF IsPlanContext, c

LEMMA PlanInvKept == PlanInv /\ [PlanNext]_planVars => PlanInv'
<1> SUFFICES ASSUME PlanInv, [PlanNext]_planVars PROVE PlanInv'
  OBVIOUS
<1>1. CASE UNCHANGED planVars
  BY <1>1 DEF planVars, PlanInv
<1>2. CASE PlanNext
  <2>1. PICK given \in BOOLEAN, finding \in PlanFindings \cup {NotGiven}, event \in PlanEvents \cup {NotGiven} :
            Recommend(given, finding, event)
    BY <1>2 DEF PlanNext
  <2>2. PICK c : c = ExtractContext(given, finding, event)
    OBVIOUS
  <2>3. IsPlanContext(c)
    BY <2>2, ContextsAreListed
  <2>4. /\ plan' = Recommended(c)
        /\ incident' = IF given THEN [incident EXCEPT !.hosts = c.hosts, !.users = c.users] ELSE incident
    BY <2>1, <2>2 DEF Recommend
  <2>5. /\ incident' = [class |-> incident'.class, hosts |-> incident'.hosts, users |-> incident'.users]
        /\ IsList(incident'.hosts) /\ IsList(incident'.users)
    <3>1. incident = [class |-> incident.class, hosts |-> incident.hosts, users |-> incident.users]
          /\ IsList(incident.hosts) /\ IsList(incident.users)
      BY DEF PlanInv
    <3>2. CASE given
      <4>1. incident' = [class |-> incident.class, hosts |-> c.hosts, users |-> c.users]
        BY <2>4, <3>1, <3>2
      <4> QED BY <2>3, <4>1 DEF IsPlanContext
    <3>3. CASE ~given
      BY <2>4, <3>1, <3>3
    <3> QED BY <3>2, <3>3
  <2>6. ASSUME plan'.status = "success"
        PROVE  PlanIsOrdered(plan'.actions) /\ "security" \in plan'.approvals
    <3>1. plan'.actions = Carried(c) /\ plan'.approvals = Approvals(Carried(c))
      BY <2>4, <2>6 DEF Recommended, Carried
    <3>2. PICK n \in DOMAIN Carried(c) : Carried(c)[n].name = "restore_service"
      BY <2>3, PlansAreOrdered
    <3>3. Templates["restore_service"].automation = "approval"
      BY DEF Templates, Template
    <3>4. Carried(c)[n] \in ToSet(Carried(c))
      BY DEF ToSet
    <3>5. "security" \in Approvals(Carried(c))
      BY <3>2, <3>3, <3>4 DEF Approvals
    <3> QED BY <2>3, <3>1, <3>5, PlansAreOrdered
  <2> QED BY <2>5, <2>6 DEF PlanInv
<1> QED BY <1>1, <1>2

(* A plan can be carried out in its order, however long its lists grew.    *)
THEOREM PlansCanBeCarriedOut == PlanSpec => []CleanedWereIsolated
<1>1. PlanInv => CleanedWereIsolated
  <2> SUFFICES ASSUME PlanInv, plan.status = "success" PROVE CleanedWereIsolated
    BY DEF CleanedWereIsolated
  <2>1. PlanIsOrdered(plan.actions) /\ "security" \in plan.approvals
    BY DEF PlanInv
  <2>2. \A n \in DOMAIN plan.actions :
           /\ plan.actions[n].name = "remove_malware" =>
                 \E m \in 1..(n - 1) : Both(m, "isolate_host", n, "remove_malware")
           /\ plan.actions[n].name = "disable_user" =>
                 \E m \in n..Len(plan.actions) : Both(m, "reset_credentials", n, "disable_user")
           /\ plan.actions[n].name = "restore_service" <=> n = Len(plan.actions)
    BY <2>1 DEF PlanIsOrdered, Both
  <2>3. \A m, n \in DOMAIN plan.actions :
           m < n => Place(plan.actions[m].name) <= Place(plan.actions[n].name)
    BY <2>1 DEF PlanIsOrdered
  <2> QED BY <2>1, <2>2, <2>3 DEF CleanedWereIsolated, Place
<1> QED BY InitiallyPlanInv, PlanInvKept, <1>1, PTL DEF PlanSpec

-----------------------------------------------------------------------------
(* The correlation engine *)

(* Where putting each finding into a group leads on, that of a list leads. *)
LEMMA GroupingGoes ==
    ASSUME NEW n \in Nat, NEW S, NEW T, NEW base \in T[0], NEW seq, DOMAIN seq = 1..n,
           \A x \in S : \A k \in 1..n : Grouped(x, seq[k]) \in S,
           \A k \in 0..n : T[k] \subseteq S,
           \A k \in 1..n : \A x \in T[k - 1] : Grouped(x, seq[k]) \in T[k]
    PROVE  FoldLeft(Grouped, base, seq) \in T[n]
<1> DEFINE X == S \X {seq[k] : k \in 1..n}
           F == [p \in X |-> Grouped(p[1], p[2])]
           Op(x, e) == Grouped(x, e)
           Is(g) == g = [P \in SUBSET (1..n) |-> IF P = {} THEN base ELSE Op(g[P \ {Max(P)}], seq[Max(P)])]
           iter == CHOOSE g : Is(g)
<1>1. FoldLeft(Grouped, base, seq) = iter[1..n]
  BY DEF FoldLeft, MapThenFoldSet
<1>0. base \in S
  OBVIOUS
<1>2. \A x \in S : \A k \in 1..n : F[<<x, seq[k]>>] = Op(x, seq[k]) /\ Op(x, seq[k]) \in S
  OBVIOUS
<1>3. ASSUME NEW P \in SUBSET (1..n), P # {} PROVE Max(P) \in 1..n /\ P \ {Max(P)} \in SUBSET (1..n)
  <2>1. P \subseteq 0..n
    OBVIOUS
  <2>2. Max(P) \in P
    BY <1>3, <2>1, GreatestUpTo
  <2> QED BY <2>2
<1> HIDE DEF F, X, Op
<1>4. \E g : Is(g)
  <2>1. PICK g : Folds(g, base, seq, F, n, S)
    BY <1>0, <1>2, FoldExists
  <2>2. /\ g \in [SUBSET (1..n) -> S] /\ g[{}] = base
        /\ \A P \in SUBSET (1..n) : P # {} => g[P] = F[<<g[P \ {Max(P)}], seq[Max(P)]>>]
    BY <2>1 DEF Folds
  <2>3. \A P \in SUBSET (1..n) : P # {} => g[P] = Op(g[P \ {Max(P)}], seq[Max(P)])
    BY <1>2, <1>3, <2>2
  <2>4. g = [P \in SUBSET (1..n) |-> IF P = {} THEN base ELSE Op(g[P \ {Max(P)}], seq[Max(P)])]
    BY <2>2, <2>3
  <2> QED BY <2>4
<1>5. Is(iter)
  BY <1>4
<1> HIDE DEF iter
<1>6. /\ iter[{}] = base
      /\ \A P \in SUBSET (1..n) :
             P # {} /\ iter[P \ {Max(P)}] \in S => iter[P] = F[<<iter[P \ {Max(P)}], seq[Max(P)]>>]
  <2>1. iter[{}] = base
    BY <1>5
  <2>2. ASSUME NEW P \in SUBSET (1..n), P # {}, iter[P \ {Max(P)}] \in S
        PROVE  iter[P] = F[<<iter[P \ {Max(P)}], seq[Max(P)]>>]
    BY <1>2, <1>3, <1>5, <2>2
  <2> QED BY <2>1, <2>2
<1>7. iter[1..n] \in T[n]
  <2>1. ASSUME NEW k \in 1..n, NEW x \in T[k - 1] PROVE F[<<x, seq[k]>>] \in T[k]
    <3>1. k - 1 \in 0..n /\ Op(x, seq[k]) \in T[k]
      BY DEF Op
    <3> QED BY <1>2, <3>1
  <2> QED BY <1>6, <2>1, FoldGoes
<1> QED BY <1>1, <1>7

Groups(F) == Seq(Seq(F) \ {<<>>})

LatestOf(g) == g[Len(g)].at

(* A group is in the order of time and within the window.                  *)
IsGroup(g) ==
    /\ \A i, j \in 1..Len(g) : i <= j => g[i].at <= g[j].at
    /\ LatestOf(g) - g[1].at <= TimeWindow

(* The groups of the first k of a list that is sorted by time.             *)
GroupsOf(groups, seq, k) ==
    /\ \A m \in 1..Len(groups) : IsGroup(groups[m])
    /\ \A m, n \in 1..Len(groups) : m < n => LatestOf(groups[m]) < groups[n][1].at
    /\ k = 0 => groups = <<>>
    /\ k > 0 => Len(groups) # 0 /\ LatestOf(groups[Len(groups)]) = seq[k].at
    /\ (k > 0 /\ seq[k].at = seq[1].at) => Len(groups) = 1 /\ Len(groups[1]) = k

IsInTime(seq, n) == \A i, j \in 1..n : i <= j => seq[i].at <= seq[j].at

LEMMA GroupGrows ==
    ASSUME NEW F, \A f \in F : f.at \in Nat, NEW g \in Seq(F) \ {<<>>}, IsGroup(g), NEW f \in F,
           LatestOf(g) <= f.at, f.at - g[1].at <= TimeWindow
    PROVE  /\ Append(g, f) \in Seq(F) \ {<<>>} /\ IsGroup(Append(g, f))
           /\ Append(g, f)[1] = g[1] /\ LatestOf(Append(g, f)) = f.at /\ Len(Append(g, f)) = Len(g) + 1
<1> DEFINE more == Append(g, f)
<1>1. PICK n \in Nat : n = Len(g)
  OBVIOUS
<1>2. n # 0 /\ \A i \in 1..n : g[i] \in F /\ g[i].at \in Nat
  BY <1>1
<1>3. /\ more \in Seq(F) \ {<<>>} /\ Len(more) = n + 1 /\ more[n + 1] = f
      /\ \A i \in 1..n : more[i] = g[i]
  BY <1>1
<1> HIDE DEF more
<1>4. \A i, j \in 1..n : i <= j => g[i].at <= g[j].at
  BY <1>1 DEF IsGroup
<1>5. \A i \in 1..n : g[i].at <= f.at /\ f.at \in Nat
  <2> SUFFICES ASSUME NEW i \in 1..n PROVE g[i].at <= f.at /\ f.at \in Nat
    OBVIOUS
  <2>1. n \in 1..n /\ i <= n
    BY <1>2
  <2>2. g[i].at <= g[n].at /\ g[n].at <= f.at
    BY <1>1, <1>4, <2>1 DEF LatestOf
  <2> QED BY <1>2, <2>1, <2>2
<1>6. ASSUME NEW i \in 1..(n + 1), NEW j \in 1..(n + 1), i <= j PROVE more[i].at <= more[j].at
  <2>1. CASE j = n + 1
    <3>1. CASE i = n + 1
      BY <1>3, <1>5, <2>1, <3>1
    <3>2. CASE i \in 1..n
      BY <1>3, <1>5, <2>1, <3>2
    <3> QED BY <3>1, <3>2
  <2>2. CASE j \in 1..n
    <3>1. i \in 1..n
      BY <1>6, <2>2
    <3> QED BY <1>3, <1>4, <1>6, <2>2, <3>1
  <2> QED BY <2>1, <2>2
<1>7. more[1] = g[1] /\ LatestOf(more) = f.at
  BY <1>2, <1>3 DEF LatestOf
<1>8. IsGroup(more)
  BY <1>3, <1>6, <1>7 DEF IsGroup
<1> QED BY <1>1, <1>3, <1>7, <1>8 DEF more

LEMMA GroupedTypes ==
    ASSUME NEW F, NEW groups \in Groups(F), NEW f \in F
    PROVE  Grouped(groups, f) \in Groups(F)
<1> DEFINE G == Seq(F) \ {<<>>}
<1>1. groups \in Seq(G)
  BY DEF Groups
<1>2. <<f>> \in G
  OBVIOUS
<1>3. CASE InGroup(groups, f)
  <2>1. Len(groups) \in 1..Len(groups)
    BY <1>1, <1>3 DEF InGroup
  <2>2. groups[Len(groups)] \in G
    BY <1>1, <2>1
  <2>3. Append(groups[Len(groups)], f) \in G
    <3>1. PICK g \in Seq(F) : g = groups[Len(groups)]
      BY <2>2
    <3>2. Append(g, f) \in Seq(F) /\ Append(g, f) # <<>>
      <4>1. Append(g, f) \in Seq(F) /\ Len(Append(g, f)) = Len(g) + 1 /\ Len(g) \in Nat
        OBVIOUS
      <4>2. Len(Append(g, f)) # 0 /\ Len(<<>>) = 0
        BY <4>1
      <4> QED BY <4>1, <4>2
    <3> QED BY <3>1, <3>2
  <2> HIDE DEF G
  <2>4. [groups EXCEPT ![Len(groups)] = Append(groups[Len(groups)], f)] \in Seq(G)
    BY <1>1, <2>1, <2>3
  <2> QED BY <1>3, <2>4 DEF Grouped, Groups, G
<1>4. CASE ~InGroup(groups, f)
  <2> HIDE DEF G
  <2>1. Append(groups, <<f>>) \in Seq(G)
    BY <1>1, <1>2
  <2> QED BY <1>4, <2>1 DEF Grouped, Groups, G
<1> QED BY <1>3, <1>4

LEMMA GroupedIs ==
    ASSUME NEW F, \A f \in F : f.at \in Nat, TimeWindow \in Nat, NEW n \in Nat, NEW seq,
           \A i \in 1..n : seq[i] \in F, IsInTime(seq, n),
           NEW k \in 1..n, NEW groups \in Groups(F), GroupsOf(groups, seq, k - 1)
    PROVE  GroupsOf(Grouped(groups, seq[k]), seq, k)
<1> DEFINE f == seq[k]
           G == Seq(F) \ {<<>>}
           after == Grouped(groups, f)
<1>1. PICK L \in Nat : L = Len(groups)
  BY DEF Groups
<1>2. groups \in Seq(G) /\ f \in F /\ f.at \in Nat
  BY DEF Groups
<1>3. \A m \in 1..L : /\ groups[m] \in G /\ groups[m] # <<>> /\ Len(groups[m]) \in Nat \ {0}
                      /\ groups[m][1] \in F /\ groups[m][Len(groups[m])] \in F
  BY <1>1, <1>2
<1> HIDE DEF f
<1>4. \A m \in 1..L : groups[m][1].at \in Nat /\ LatestOf(groups[m]) \in Nat
  BY <1>3 DEF LatestOf
<1>5. /\ \A m \in 1..L : IsGroup(groups[m])
      /\ \A m, p \in 1..L : m < p => LatestOf(groups[m]) < groups[p][1].at
      /\ k = 1 => groups = <<>>
      /\ k > 1 => L # 0 /\ LatestOf(groups[L]) = seq[k - 1].at
      /\ (k > 1 /\ seq[k - 1].at = seq[1].at) => L = 1 /\ Len(groups[1]) = k - 1
  BY <1>1 DEF GroupsOf
<1>6. L # 0 => L \in 1..L /\ k > 1 /\ LatestOf(groups[L]) <= f.at
  <2> SUFFICES ASSUME L # 0 PROVE L \in 1..L /\ k > 1 /\ LatestOf(groups[L]) <= f.at
    OBVIOUS
  <2>1. k > 1
    BY <1>1, <1>2, <1>5
  <2>2. k - 1 \in 1..n /\ k - 1 <= k
    BY <2>1
  <2>3. seq[k - 1].at <= seq[k].at
    BY <2>2 DEF IsInTime
  <2> QED BY <1>5, <2>1, <2>3 DEF f
<1>7. f.at = seq[1].at /\ k > 1 => seq[k - 1].at = seq[1].at
  <2> SUFFICES ASSUME f.at = seq[1].at, k > 1 PROVE seq[k - 1].at = seq[1].at
    OBVIOUS
  <2>1. k - 1 \in 1..n /\ 1 \in 1..n /\ k - 1 <= k /\ 1 <= k - 1
    OBVIOUS
  <2>2. seq[k - 1].at <= seq[k].at /\ seq[1].at <= seq[k - 1].at
    BY <2>1 DEF IsInTime
  <2>3. seq[k - 1].at \in Nat /\ seq[1].at \in Nat
    BY <2>1
  <2> QED BY <2>2, <2>3 DEF f
<1>8. CASE InGroup(groups, f)
  <2>0. PICK g : g = groups[L]
    OBVIOUS
  <2> DEFINE more == Append(g, f)
  <2>1. L # 0 /\ f.at - g[1].at <= TimeWindow
    BY <1>1, <1>2, <1>8, <2>0 DEF InGroup
  <2>2. L \in 1..L /\ g \in G /\ IsGroup(g) /\ LatestOf(g) <= f.at
    BY <1>3, <1>5, <1>6, <2>0, <2>1
  <2>3. /\ IsGroup(more) /\ more[1] = g[1] /\ LatestOf(more) = f.at
        /\ Len(more) = Len(g) + 1 /\ more \in G
    <3>1. g \in Seq(F) \ {<<>>}
      BY <2>2
    <3>2. f \in F /\ LatestOf(g) <= f.at /\ f.at - g[1].at <= TimeWindow /\ IsGroup(g)
      BY <1>2, <2>1, <2>2
    <3> HIDE DEF more, G, after
    <3>3. /\ Append(g, f) \in Seq(F) \ {<<>>} /\ IsGroup(Append(g, f))
          /\ Append(g, f)[1] = g[1] /\ LatestOf(Append(g, f)) = f.at /\ Len(Append(g, f)) = Len(g) + 1
      BY <3>1, <3>2, GroupGrows
    <3> QED BY <3>3 DEF more, G
  <2>4. after = [groups EXCEPT ![L] = more]
    BY <1>1, <1>8, <2>0 DEF Grouped
  <2> HIDE DEF more, after
  <2>5. /\ Len(after) = L /\ after[L] = more
        /\ \A m \in 1..L : m # L => after[m] = groups[m]
    <3> HIDE DEF G
    <3> QED BY <1>1, <1>2, <2>2, <2>3, <2>4
  <2>6. ASSUME NEW m \in 1..L PROVE IsGroup(after[m]) /\ after[m][1] = groups[m][1]
    BY <1>5, <2>0, <2>3, <2>5
  <2>7. ASSUME NEW m \in 1..L, NEW p \in 1..L, m < p PROVE LatestOf(after[m]) < after[p][1].at
    <3>1. m # L
      BY <2>7
    <3> QED BY <1>5, <2>5, <2>6, <2>7, <3>1
  <2>8. ASSUME f.at = seq[1].at PROVE L = 1 /\ Len(after[1]) = k
    <3>1. L = 1 /\ Len(groups[1]) = k - 1
      BY <1>5, <1>6, <1>7, <2>1, <2>8
    <3>2. Len(more) = k - 1 + 1
      BY <2>0, <2>3, <3>1
    <3> QED BY <2>5, <3>1, <3>2
  <2> QED BY <2>1, <2>3, <2>5, <2>6, <2>7, <2>8 DEF GroupsOf, f, after
<1>9. CASE ~InGroup(groups, f)
  <2>1. after = Append(groups, <<f>>)
    BY <1>9 DEF Grouped
  <2> HIDE DEF after
  <2>2. /\ Len(after) = L + 1 /\ after[L + 1] = <<f>> /\ \A m \in 1..L : after[m] = groups[m]
    <3>1. <<f>> \in G
      BY <1>2
    <3> HIDE DEF G
    <3> QED BY <1>1, <1>2, <2>1, <3>1
  <2>3. IsGroup(<<f>>) /\ LatestOf(<<f>>) = f.at /\ <<f>>[1] = f /\ Len(<<f>>) = 1
    BY <1>2 DEF IsGroup, LatestOf
  <2>4. L # 0 => LatestOf(groups[L]) < f.at
    <3> SUFFICES ASSUME L # 0 PROVE LatestOf(groups[L]) < f.at
      OBVIOUS
    <3>1. groups # <<>> /\ L \in 1..L
      BY <1>1, <1>6
    <3>2. ~(f.at - groups[L][1].at <= TimeWindow)
      BY <1>1, <1>9, <3>1 DEF InGroup
    <3>3. LatestOf(groups[L]) - groups[L][1].at <= TimeWindow
      BY <1>5, <3>1 DEF IsGroup
    <3>4. groups[L][1].at \in Nat /\ LatestOf(groups[L]) \in Nat
      BY <1>4, <3>1
    <3> QED BY <1>2, <3>2, <3>3, <3>4
  <2>5. ASSUME NEW m \in 1..(L + 1) PROVE IsGroup(after[m])
    <3>1. CASE m = L + 1
      BY <2>2, <2>3, <3>1
    <3>2. CASE m \in 1..L
      BY <1>5, <2>2, <3>2
    <3> QED BY <3>1, <3>2
  <2>6. ASSUME NEW m \in 1..(L + 1), NEW p \in 1..(L + 1), m < p PROVE LatestOf(after[m]) < after[p][1].at
    <3>1. m \in 1..L /\ after[m] = groups[m]
      BY <2>2, <2>6
    <3>2. CASE p = L + 1
      <4>1. L # 0 /\ L \in 1..L
        BY <3>1
      <4>2. LatestOf(groups[m]) < f.at
        <5>1. CASE m = L
          BY <2>4, <4>1, <5>1
        <5>2. CASE m # L
          <6>1. LatestOf(groups[m]) < groups[L][1].at
            BY <1>5, <3>1, <4>1, <5>2
          <6>2. groups[L][1].at <= LatestOf(groups[L])
            <7>1. IsGroup(groups[L]) /\ Len(groups[L]) \in Nat \ {0}
              BY <1>3, <1>5, <4>1
            <7>2. 1 \in 1..Len(groups[L]) /\ Len(groups[L]) \in 1..Len(groups[L]) /\ 1 <= Len(groups[L])
              BY <7>1
            <7> QED BY <7>1, <7>2 DEF IsGroup, LatestOf
          <6>3. groups[L][1].at \in Nat /\ LatestOf(groups[L]) \in Nat /\ LatestOf(groups[m]) \in Nat
            BY <1>4, <3>1, <4>1
          <6> QED BY <1>2, <2>4, <4>1, <6>1, <6>2, <6>3
        <5> QED BY <5>1, <5>2
      <4> QED BY <2>2, <2>3, <3>1, <3>2, <4>2
    <3>3. CASE p \in 1..L
      BY <1>5, <2>2, <2>6, <3>1, <3>3
    <3> QED BY <3>2, <3>3
  <2>7. ASSUME f.at = seq[1].at PROVE L = 0 /\ k = 1
    <3>1. CASE k > 1
      <4>1. seq[k - 1].at = seq[1].at
        BY <1>7, <2>7, <3>1
      <4>2. L # 0 /\ LatestOf(groups[L]) = f.at
        BY <1>5, <2>7, <3>1, <4>1
      <4> QED BY <1>2, <2>4, <4>2
    <3>2. CASE k = 1
      BY <1>1, <1>5, <3>2
    <3> QED BY <3>1, <3>2
  <2>8. ASSUME f.at = seq[1].at PROVE L + 1 = 1 /\ Len(after[1]) = k
    <3>1. L = 0 /\ k = 1
      BY <2>7, <2>8
    <3> QED BY <2>2, <2>3, <3>1
  <2>9. LatestOf(after[L + 1]) = f.at /\ L + 1 # 0
    BY <2>2, <2>3
  <2> QED BY <2>2, <2>5, <2>6, <2>8, <2>9 DEF GroupsOf, f, after
<1> QED BY <1>8, <1>9

LEMMA SortedInTime ==
    ASSUME NEW s, IsList(s), \A f \in ToSet(s) : f.at \in Nat
    PROVE  /\ DOMAIN SortedBy(s, LAMBDA f : f.at) = 1..Len(s) /\ Len(s) \in Nat
           /\ \A k \in 1..Len(s) : SortedBy(s, LAMBDA f : f.at)[k] \in ToSet(s)
           /\ IsInTime(SortedBy(s, LAMBDA f : f.at), Len(s))
<1> DEFINE keys == [n \in DOMAIN s |-> s[n].at]
           sorted == At(s, InOrder(keys))
<1>1. PICK n \in Nat : n = Len(s) /\ DOMAIN s = 1..n /\ \A k \in 1..n : s[k] \in ToSet(s)
  BY ListIs
<1>2. SortedBy(s, LAMBDA f : f.at) = sorted
  BY DEF SortedBy
<1>3. keys \in [1..n -> Int] /\ \A k \in 1..n : keys[k] = s[k].at /\ s[k].at \in Nat
  <2>1. \A k \in 1..n : s[k].at \in Nat
    BY <1>1
  <2> QED BY <1>1, <2>1
<1> HIDE DEF keys
<1>4. PICK o : Sorts(o, keys, n) /\ sorted = At(s, o)
  BY <1>3, SortedIs
<1> HIDE DEF sorted
<1>5. o \in [1..n -> 1..n] /\ \A j, k \in 1..n : j < k => Before(keys, o[j], o[k])
  BY <1>4 DEF Sorts
<1>6. DOMAIN sorted = 1..n /\ \A k \in 1..n : sorted[k] = s[o[k]] /\ o[k] \in 1..n
  BY <1>4, <1>5 DEF At
<1>7. ASSUME NEW i \in 1..n, NEW j \in 1..n, i <= j PROVE sorted[i].at <= sorted[j].at
  <2>1. sorted[i].at = keys[o[i]] /\ sorted[j].at = keys[o[j]] /\ keys[o[i]] \in Nat /\ keys[o[j]] \in Nat
    BY <1>3, <1>6
  <2>2. CASE i = j
    BY <2>1, <2>2
  <2>3. CASE i < j
    <3>1. Before(keys, o[i], o[j])
      BY <1>5, <2>3
    <3> QED BY <2>1, <3>1 DEF Before
  <2> QED BY <1>7, <2>2, <2>3
<1> QED BY <1>1, <1>2, <1>6, <1>7 DEF IsInTime

LEMMA GroupsAre ==
    ASSUME NEW s, IsList(s), \A f \in ToSet(s) : f.at \in Nat, TimeWindow \in Nat
    PROVE  \E n \in Nat, groups \in Groups(ToSet(s)) : \E sorted :
               /\ n = Len(s) /\ groups = FoldLeft(Grouped, <<>>, SortedBy(s, LAMBDA f : f.at))
               /\ GroupsOf(groups, sorted, n) /\ IsInTime(sorted, n)
               /\ \A k \in 1..n : sorted[k] \in ToSet(s)
<1> DEFINE sorted == SortedBy(s, LAMBDA f : f.at)
           groups == FoldLeft(Grouped, <<>>, sorted)
           F == ToSet(s)
           S == Groups(F)
<1>1. PICK n \in Nat : n = Len(s)
  BY ListIs
<1>2. DOMAIN sorted = 1..n /\ IsInTime(sorted, n) /\ \A k \in 1..n : sorted[k] \in F
  BY <1>1, SortedInTime
<1> DEFINE T == [k \in 0..n |-> {x \in S : GroupsOf(x, sorted, k)}]
<1> HIDE DEF sorted, F
<1>3. /\ \A k \in 0..n : T[k] \subseteq S
      /\ \A k \in 0..n : \A x : x \in T[k] <=> x \in S /\ GroupsOf(x, sorted, k)
  OBVIOUS
<1> HIDE DEF T
<1>4. <<>> \in T[0]
  <2>1. <<>> \in S
    BY DEF Groups
  <2>2. GroupsOf(<<>>, sorted, 0)
    BY DEF GroupsOf
  <2> QED BY <1>3, <2>1, <2>2
<1>5. \A x \in S : \A k \in 1..n : Grouped(x, sorted[k]) \in S
  BY <1>2, GroupedTypes
<1>6. ASSUME NEW k \in 1..n, NEW x \in T[k - 1] PROVE Grouped(x, sorted[k]) \in T[k]
  <2>1. k - 1 \in 0..n /\ k \in 0..n
    OBVIOUS
  <2>2. x \in Groups(F) /\ GroupsOf(x, sorted, k - 1)
    BY <1>3, <2>1
  <2>3. GroupsOf(Grouped(x, sorted[k]), sorted, k)
    <3>1. \A f \in F : f.at \in Nat
      BY DEF F
    <3> QED BY <1>2, <2>2, <3>1, GroupedIs
  <2> QED BY <1>3, <1>5, <2>1, <2>2, <2>3
<1>7. groups \in T[n]
  <2> HIDE DEF S
  <2> QED BY <1>2, <1>3, <1>4, <1>5, <1>6, GroupingGoes
<1>8. groups \in Groups(F) /\ GroupsOf(groups, sorted, n)
  BY <1>3, <1>7
<1> HIDE DEF groups
<1> QED BY <1>1, <1>2, <1>8 DEF groups, sorted, F

-----------------------------------------------------------------------------
(* What is left of a list of groups: from two members on, and with enough  *)
(* in common.                                                              *)
Chosen(rs, groups, c) ==
    /\ rs \in Seq(ToSet(rs)) /\ c \in [1..Len(rs) -> 1..Len(groups)]
    /\ \A m, n \in 1..Len(rs) : m < n => c[m] < c[n]
    /\ \A m \in 1..Len(rs) : rs[m] = CorrelateGroup(groups[c[m]]) /\ Len(groups[c[m]]) >= 2

LEMMA EnoughIs ==
    ASSUME NEW G, NEW groups \in Seq(G)
    PROVE  \E c : Chosen(Enough(Those(groups, LAMBDA group : Len(group) >= 2)), groups, c)
<1> DEFINE P == {n \in DOMAIN groups : Len(groups[n]) >= 2}
           pairs == Those(groups, LAMBDA group : Len(group) >= 2)
           results == [n \in DOMAIN pairs |-> CorrelateGroup(pairs[n])]
           Q == {n \in DOMAIN results : results[n].score >= 2 * Proximity * MinScore}
           rs == Enough(pairs)
<1>1. PICK n \in Nat : n = Len(groups) /\ P \subseteq 1..n
  OBVIOUS
<1>2. pairs = Kept(groups, P)
  BY DEF Those
<1>3. \A p \in P : Len(groups[p]) >= 2
  OBVIOUS
<1> HIDE DEF P, pairs
<1>4. PICK N, o : Enumerates(o, N, P) /\ N <= n /\ Kept(groups, P) = At(groups, o)
  <2>1. n \in Nat /\ P \subseteq 1..n
    BY <1>1
  <2> QED BY <2>1, KeptIs
<1>5. /\ N \in Nat /\ o \in [1..N -> P] /\ \A j, k \in 1..N : j < k => o[j] < o[k]
      /\ DOMAIN pairs = 1..N /\ \A k \in 1..N : pairs[k] = groups[o[k]] /\ o[k] \in P /\ o[k] \in 1..n
  BY <1>1, <1>2, <1>4 DEF Enumerates, At
<1>6. rs = Kept(results, Q)
  BY DEF Enough, Those
<1>7. DOMAIN results = 1..N /\ Q \subseteq 1..N /\ \A k \in 1..N : results[k] = CorrelateGroup(groups[o[k]])
  BY <1>5
<1> HIDE DEF results, Q, rs
<1>8. PICK M, q : Enumerates(q, M, Q) /\ M <= N /\ Kept(results, Q) = At(results, q)
  BY <1>5, <1>7, KeptIs
<1>9. /\ M \in Nat /\ q \in [1..M -> Q] /\ \A j, k \in 1..M : j < k => q[j] < q[k]
      /\ \A k \in 1..M : q[k] \in 1..N
  BY <1>7, <1>8 DEF Enumerates
<1>10. rs = [k \in 1..M |-> results[q[k]]]
  BY <1>6, <1>8, <1>9 DEF At
<1>11. DOMAIN rs = 1..M /\ rs = [k \in 1..M |-> rs[k]]
  BY <1>10
<1>12. IsList(rs) /\ Len(rs) = M
  BY <1>9, <1>11, ListFrom
<1>13. rs \in Seq(ToSet(rs))
  BY <1>12, ListIs
<1> DEFINE c == [k \in 1..M |-> o[q[k]]]
<1>14. c \in [1..M -> 1..n] /\ \A j, k \in 1..M : j < k => c[j] < c[k]
  BY <1>5, <1>9
<1>15. \A m \in 1..M : rs[m] = CorrelateGroup(groups[c[m]]) /\ Len(groups[c[m]]) >= 2
  BY <1>3, <1>5, <1>7, <1>9, <1>10
<1> HIDE DEF c
<1>16. Chosen(rs, groups, c)
  BY <1>1, <1>12, <1>13, <1>14, <1>15 DEF Chosen
<1> QED BY <1>16 DEF rs, pairs

LEMMA OneIsEnough ==
    ASSUME NEW g, Len(g) >= 2, GroupScore(g) >= 2 * Proximity * MinScore
    PROVE  Len(Enough(Those(<<g>>, LAMBDA group : Len(group) >= 2))) = 1
<1> DEFINE pairs == Those(<<g>>, LAMBDA group : Len(group) >= 2)
           results == [n \in DOMAIN pairs |-> CorrelateGroup(pairs[n])]
           Q == {n \in DOMAIN results : results[n].score >= 2 * Proximity * MinScore}
<1>1. PICK a \in 0..1, b \in Nat : a = 0 /\ b = 1
  OBVIOUS
<1>2. a \in 0..b
  BY <1>1
<1>3. pairs = Kept(<<g>>, {n \in DOMAIN <<g>> : Len(<<g>>[n]) >= 2})
  BY DEF Those
<1>4. {n \in DOMAIN <<g>> : Len(<<g>>[n]) >= 2} = (a + 1)..b
  <2>1. DOMAIN <<g>> = 1..1 /\ <<g>>[1] = g
    OBVIOUS
  <2> QED BY <1>1, <2>1
<1>5. pairs = [k \in 1..(b - a) |-> <<g>>[a + k]]
  <2>1. PICK s : s = <<g>>
    OBVIOUS
  <2>2. Kept(s, (a + 1)..b) = [k \in 1..(b - a) |-> s[a + k]]
    BY <1>2, KeptFrom
  <2> QED BY <1>3, <1>4, <2>1, <2>2
<1>6. DOMAIN pairs = 1..1 /\ pairs[1] = g
  BY <1>1, <1>5
<1> HIDE DEF pairs
<1>7. DOMAIN results = 1..1 /\ results[1] = CorrelateGroup(g)
  BY <1>6
<1>8. Enough(pairs) = Kept(results, Q)
  BY DEF Enough, Those
<1>9. Q = (a + 1)..b
  <2>1. results[1].score = GroupScore(g)
    BY <1>7 DEF CorrelateGroup
  <2> HIDE DEF results
  <2> QED BY <1>1, <1>7, <2>1
<1> HIDE DEF results, Q
<1>10. Enough(pairs) = [k \in 1..(b - a) |-> results[a + k]]
  BY <1>2, <1>8, <1>9, KeptFrom
<1>11. Enough(pairs) = [k \in 1..1 |-> results[k]]
  BY <1>1, <1>10
<1>12. DOMAIN Enough(pairs) = 1..1 /\ Enough(pairs) = [k \in 1..1 |-> Enough(pairs)[k]]
  BY <1>11
<1>13. Len(Enough(pairs)) = 1
  <2>1. DOMAIN Enough(pairs) = 1..b /\ Enough(pairs) = [k \in 1..b |-> Enough(pairs)[k]]
    BY <1>1, <1>12
  <2>2. Len(Enough(pairs)) = b
    BY <2>1, ListFrom
  <2> QED BY <1>1, <2>2
<1> QED BY <1>13 DEF pairs

-----------------------------------------------------------------------------
(* Two shared values are a full score. *)
LEMMA HalfIs ==
    ASSUME NEW c \in Nat
    PROVE  Min({c, 2}) \in 0..2 /\ (c >= 2 => Min({c, 2}) = 2) /\ (c >= 1 => Min({c, 2}) >= 1)
<1>1. Min({c, 2}) = IF c <= 2 THEN c ELSE 2
  <2>1. CASE c <= 2
    BY <2>1 DEF Min
  <2>2. CASE c > 2
    BY <2>2 DEF Min
  <2> QED BY <2>1, <2>2
<1> QED BY <1>1

LEMMA NotNegative ==
    ASSUME NEW c \in Int
    PROVE  Max({c, 0}) = IF c >= 0 THEN c ELSE 0
<1>1. CASE c >= 0
  BY <1>1 DEF Max
<1>2. CASE c < 0
  BY <1>2 DEF Max
<1> QED BY <1>1, <1>2

(* Findings of one time with two addresses and a user in common have       *)
(* enough, whatever the domains are.                                       *)
LEMMA ScoreSuffices ==
    ASSUME NEW g, Proximity \in Nat, MinScore \in 0..30,
           Cardinality(Shared(g, "ips")) \in Nat, Cardinality(Shared(g, "ips")) >= 2,
           Cardinality(Shared(g, "domains")) \in Nat,
           Cardinality(Shared(g, "users")) \in Nat, Cardinality(Shared(g, "users")) >= 1,
           g[Len(g)].at - g[1].at = 0
    PROVE  GroupScore(g) >= 2 * Proximity * MinScore
<1> DEFINE half(kind) == Min({Cardinality(Shared(g, kind)), 2})
           types == {f.type : f \in ToSet(g)}
           bonus == IF \E t \in types : CompatibleThreats(t) \cap types # {} THEN 2 * Proximity * 4 ELSE 0
           near == Max({Proximity - (g[Len(g)].at - g[1].at), 0})
<1>1. half("ips") = 2 /\ half("domains") \in 0..2 /\ half("users") \in 1..2
  BY HalfIs
<1>2. near = Proximity
  BY NotNegative
<1>3. bonus \in Nat
  OBVIOUS
<1>4. GroupScore(g) = Proximity * (15 * half("ips") + 12 * half("domains") + 15 * half("users"))
                      + 2 * 8 * near + bonus
  BY DEF GroupScore
<1> HIDE DEF half, types, bonus, near
<1>5. PICK d \in 0..2, u \in 1..2 : d = half("domains") /\ u = half("users")
  BY <1>1
<1>6. Proximity * (15 * 2 + 12 * d + 15 * u) >= Proximity * 45
  <2>1. d \in {0, 1, 2} /\ u \in {1, 2}
    OBVIOUS
  <2> QED BY <2>1
<1>7. 2 * Proximity * MinScore <= 60 * Proximity
  <2>1. PICK a \in Nat : a = 30 - MinScore
    OBVIOUS
  <2>2. Proximity * a \in Nat
    OBVIOUS
  <2>3. MinScore = 30 - a
    BY <2>1
  <2>4. Proximity * MinScore = Proximity * 30 - Proximity * a
    BY <2>3
  <2>5. Proximity * MinScore \in Nat /\ 2 * Proximity * MinScore = 2 * (Proximity * MinScore)
    OBVIOUS
  <2> QED BY <2>2, <2>4, <2>5
<1>8. PICK a \in Nat, b \in Nat : a = Proximity * (15 * 2 + 12 * d + 15 * u) /\ b = 2 * Proximity * MinScore
  OBVIOUS
<1>9. GroupScore(g) = a + 2 * 8 * Proximity + bonus
  BY <1>1, <1>2, <1>4, <1>5, <1>8
<1> QED BY <1>3, <1>6, <1>7, <1>8, <1>9

LEMMA SuffixIs ==
    ASSUME NEW s, IsList(s), NEW t, IsList(t)
    PROVE  IsSuffix(s, t \o s) /\ IsList(t \o s)
<1> DEFINE S == ToSet(s) \cup ToSet(t)
           both == t \o s
<1>1. PICK n \in Nat, m \in Nat : n = Len(s) /\ m = Len(t)
  BY ListIs
<1>2. s \in Seq(S) /\ t \in Seq(S)
  <2>1. ToSet(s) \subseteq S /\ ToSet(t) \subseteq S /\ s \in Seq(ToSet(s)) /\ t \in Seq(ToSet(t))
    BY ListIs
  <2> HIDE DEF S
  <2> QED BY <2>1, SeqMonotonic
<1> HIDE DEF S
<1>3. /\ both \in Seq(S) /\ Len(both) = m + n /\ \A i \in 1..n : both[m + i] = s[i]
      /\ \A i \in 1..(m + n) : both[i] \in S
  <2>1. /\ both \in Seq(S) /\ Len(both) = m + n
        /\ \A i \in 1..(m + n) : both[i] = IF i <= m THEN t[i] ELSE s[i - m]
    BY <1>1, <1>2, ConcatProperties
  <2> HIDE DEF both
  <2>2. \A i \in 1..n : m + i \in 1..(m + n) /\ ~(m + i <= m) /\ m + i - m = i
    OBVIOUS
  <2> QED BY <2>1, <2>2
<1> HIDE DEF both
<1>4. /\ Reverse(s) \in Seq(S) /\ Len(Reverse(s)) = n /\ \A i \in 1..n : Reverse(s)[i] = s[n - i + 1]
      /\ Reverse(both) \in Seq(S) /\ Len(Reverse(both)) = m + n
      /\ \A i \in 1..(m + n) : Reverse(both)[i] = both[m + n - i + 1]
  <2>1. Reverse(s) = [i \in 1..n |-> s[n - i + 1]] /\ Reverse(both) = [i \in 1..(m + n) |-> both[m + n - i + 1]]
    BY <1>1, <1>3 DEF Reverse
  <2>2. \A i \in 1..n : s[n - i + 1] \in S
    BY <1>1, <1>2
  <2>3. \A i \in 1..(m + n) : m + n - i + 1 \in 1..(m + n)
    OBVIOUS
  <2>4. \A i \in 1..(m + n) : both[m + n - i + 1] \in S
    BY <1>3, <2>3
  <2>5. Reverse(s) \in Seq(S) /\ Len(Reverse(s)) = n
    BY <2>1, <2>2
  <2>6. Reverse(both) \in Seq(S) /\ Len(Reverse(both)) = m + n
    BY <2>1, <2>4
  <2> QED BY <2>1, <2>5, <2>6
<1>5. \A i \in 1..n : Reverse(both)[i] = Reverse(s)[i]
  <2> SUFFICES ASSUME NEW i \in 1..n PROVE Reverse(both)[i] = Reverse(s)[i]
    OBVIOUS
  <2>1. i \in 1..(m + n) /\ m + n - i + 1 = m + (n - i + 1) /\ n - i + 1 \in 1..n
    OBVIOUS
  <2> QED BY <1>3, <1>4, <2>1
<1> DEFINE a == Reverse(s)
           b == Reverse(both)
<1>6. SubSeq(a, 1, n) \in Seq(S) /\ Len(SubSeq(a, 1, n)) = n /\ \A i \in 1..n : SubSeq(a, 1, n)[i] = a[i]
  <2>1. \A i \in 1..n : a[i] \in S
    BY <1>4
  <2> HIDE DEF a
  <2> QED BY <2>1, SubSeqProperties
<1>7. SubSeq(b, 1, n) \in Seq(S) /\ Len(SubSeq(b, 1, n)) = n /\ \A i \in 1..n : SubSeq(b, 1, n)[i] = b[i]
  <2>1. \A i \in 1..n : b[i] \in S
    BY <1>4
  <2> HIDE DEF b
  <2> QED BY <2>1, SubSeqProperties
<1>8. SubSeq(a, 1, n) = SubSeq(b, 1, n)
  BY <1>5, <1>6, <1>7
<1>9. IsPrefix(a, b)
  BY <1>4, <1>8 DEF IsPrefix
<1>10. IsList(both)
  BY <1>3, ListOf
<1> QED BY <1>9, <1>10 DEF IsSuffix, both

-----------------------------------------------------------------------------
Findings(s) == IsList(s) /\ \A n \in DOMAIN s : IsFinding(s[n])

(* What the groups of a list are.                                          *)
LEMMA GroupFacts ==
    ASSUME NEW s, Findings(s), NEW groups \in Groups(ToSet(s)), NEW seq, NEW k, GroupsOf(groups, seq, k)
    PROVE  \A m \in 1..Len(groups) :
               LET g == groups[m] IN
               /\ g \in Seq(ToSet(s)) /\ Len(g) \in Nat \ {0}
               /\ \A i \in 1..Len(g) : /\ g[i] \in ToSet(s) /\ IsFinding(g[i])
                                       /\ g[1].at <= g[i].at /\ g[i].at <= LatestOf(g)
               /\ \A i, j \in 1..Len(g) : i < j => g[j].at - g[i].at \in 0..TimeWindow
<1> SUFFICES ASSUME NEW m \in 1..Len(groups)
             PROVE  LET g == groups[m] IN
                    /\ g \in Seq(ToSet(s)) /\ Len(g) \in Nat \ {0}
                    /\ \A i \in 1..Len(g) : /\ g[i] \in ToSet(s) /\ IsFinding(g[i])
                                            /\ g[1].at <= g[i].at /\ g[i].at <= LatestOf(g)
                    /\ \A i, j \in 1..Len(g) : i < j => g[j].at - g[i].at \in 0..TimeWindow
  OBVIOUS
<1>1. PICK g : g = groups[m]
  OBVIOUS
<1>2. g \in Seq(ToSet(s)) /\ g # <<>> /\ IsGroup(g)
  BY <1>1 DEF Groups, GroupsOf
<1>3. PICK n \in Nat : n = Len(g)
  BY <1>2
<1>4. n # 0
  BY <1>2, <1>3
<1>5. ASSUME NEW i \in 1..n PROVE g[i] \in ToSet(s) /\ IsFinding(g[i])
  <2>1. g[i] \in ToSet(s)
    BY <1>2, <1>3
  <2> QED BY <2>1 DEF ToSet, Findings
<1>6. \A i \in 1..n : g[i].at \in Nat
  BY <1>5 DEF IsFinding
<1>7. \A i, j \in 1..n : i <= j => g[i].at <= g[j].at
  BY <1>2, <1>3 DEF IsGroup
<1>8. g[n].at - g[1].at <= TimeWindow /\ LatestOf(g) = g[n].at
  BY <1>2, <1>3 DEF IsGroup, LatestOf
<1>9. ASSUME NEW i \in 1..n PROVE g[1].at <= g[i].at /\ g[i].at <= LatestOf(g)
  <2>1. 1 \in 1..n /\ n \in 1..n /\ 1 <= i /\ i <= n
    BY <1>4
  <2> QED BY <1>7, <1>8, <2>1
<1>10. ASSUME NEW i \in 1..n, NEW j \in 1..n, i < j PROVE g[j].at - g[i].at \in 0..TimeWindow
  <2>1. g[i].at <= g[j].at /\ i <= j
    BY <1>7, <1>10
  <2>2. g[1].at \in Nat /\ g[i].at \in Nat /\ g[j].at \in Nat /\ g[n].at \in Nat
    BY <1>4, <1>6
  <2>3. g[1].at <= g[i].at /\ g[j].at <= g[n].at
    BY <1>8, <1>9
  <2>4. TimeWindow \in Nat
    BY EngineAssumption DEF EngineAssumption
  <2> QED BY <1>8, <2>1, <2>2, <2>3, <2>4
<1> QED BY <1>1, <1>2, <1>3, <1>4, <1>5, <1>9, <1>10

CorrelatedOf(s) == Enough(GroupByTime(s))

HeldTogether(rs, s) ==
    /\ \A m, n \in DOMAIN rs : m # n => ToSet(rs[m].members) \cap ToSet(rs[n].members) = {}
    /\ \A r \in ToSet(rs) :
          /\ Len(r.members) >= 2 /\ ToSet(r.members) \subseteq ToSet(s)
          /\ \A m, n \in DOMAIN r.members : m < n =>
                r.members[n].at - r.members[m].at \in 0..TimeWindow
          /\ \A f \in ToSet(r.members) : /\ \A kind \in DOMAIN r.shared : r.shared[kind] \subseteq f[kind]
                                         /\ f.severity <= r.severity

LEMMA ReportedHoldsTogether ==
    ASSUME NEW s, Findings(s)
    PROVE  IsList(CorrelatedOf(s)) /\ HeldTogether(CorrelatedOf(s), s)
<1> DEFINE F == ToSet(s)
           all == FoldLeft(Grouped, <<>>, SortedBy(s, LAMBDA f : f.at))
<1>0. TimeWindow \in Nat /\ IsList(s) /\ \A f \in F : IsFinding(f) /\ f.at \in Nat
  BY EngineAssumption DEF EngineAssumption, Findings, ToSet, IsFinding
<1>1a. PICK n \in Nat, groups \in Groups(F) :
           \E sorted : groups = all /\ GroupsOf(groups, sorted, n)
  BY <1>0, GroupsAre
<1>1. PICK sorted : groups = all /\ GroupsOf(groups, sorted, n)
  BY <1>1a
<1>2. PICK c : Chosen(CorrelatedOf(s), groups, c)
  <2>1. groups \in Seq(Seq(F) \ {<<>>})
    BY DEF Groups
  <2>2. CorrelatedOf(s) = Enough(Those(groups, LAMBDA group : Len(group) >= 2))
    BY <1>1 DEF CorrelatedOf, GroupByTime
  <2> QED BY <2>1, <2>2, EnoughIs
<1>3. PICK rs : rs = CorrelatedOf(s)
  OBVIOUS
<1>4. PICK N \in Nat : N = Len(rs)
  BY <1>2, <1>3 DEF Chosen
<1>5. /\ rs \in Seq(ToSet(rs)) /\ DOMAIN rs = 1..N /\ c \in [1..N -> 1..Len(groups)]
      /\ \A m, p \in 1..N : m < p => c[m] < c[p]
      /\ \A m \in 1..N : rs[m] = CorrelateGroup(groups[c[m]]) /\ Len(groups[c[m]]) >= 2
  BY <1>2, <1>3, <1>4 DEF Chosen
<1>6. IsList(rs)
  BY <1>5, ListOf
<1> HIDE DEF all
<1>7. \A m \in 1..Len(groups) :
          LET g == groups[m] IN
          /\ g \in Seq(F) /\ Len(g) \in Nat \ {0}
          /\ \A i \in 1..Len(g) : /\ g[i] \in F /\ IsFinding(g[i])
                                  /\ g[1].at <= g[i].at /\ g[i].at <= LatestOf(g)
          /\ \A i, j \in 1..Len(g) : i < j => g[j].at - g[i].at \in 0..TimeWindow
  BY <1>1, GroupFacts
<1>8. \A m, p \in 1..Len(groups) : m < p => LatestOf(groups[m]) < groups[p][1].at
  BY <1>1 DEF GroupsOf
<1>9. ASSUME NEW m \in 1..N, NEW p \in 1..N, m < p
      PROVE  ToSet(rs[m].members) \cap ToSet(rs[p].members) = {}
  <2>1. PICK g, h : g = groups[c[m]] /\ h = groups[c[p]]
    OBVIOUS
  <2>2. c[m] \in 1..Len(groups) /\ c[p] \in 1..Len(groups) /\ c[m] < c[p]
    BY <1>5, <1>9
  <2>3. /\ \A i \in 1..Len(g) : IsFinding(g[i]) /\ g[i].at <= LatestOf(g)
        /\ \A i \in 1..Len(h) : IsFinding(h[i]) /\ h[1].at <= h[i].at
        /\ g \in Seq(F) /\ h \in Seq(F) /\ Len(g) \in Nat \ {0} /\ Len(h) \in Nat \ {0}
    BY <1>7, <2>1, <2>2
  <2>4. LatestOf(g) < h[1].at
    <3>1. PICK a \in 1..Len(groups), b \in 1..Len(groups) : a = c[m] /\ b = c[p]
      BY <2>2
    <3>2. a < b
      BY <2>2, <3>1
    <3>3. LatestOf(groups[a]) < groups[b][1].at
      BY <1>8, <3>2
    <3> QED BY <2>1, <3>1, <3>3
  <2>5. rs[m].members = g /\ rs[p].members = h
    <3>1. rs[m] = CorrelateGroup(g) /\ rs[p] = CorrelateGroup(h)
      BY <1>5, <2>1
    <3>2. CorrelateGroup(g).members = g /\ CorrelateGroup(h).members = h
      BY DEF CorrelateGroup
    <3> QED BY <3>1, <3>2
  <2> SUFFICES ASSUME NEW x, x \in ToSet(g), x \in ToSet(h) PROVE FALSE
    BY <2>5
  <2>6. PICK i \in 1..Len(g), j \in 1..Len(h) : x = g[i] /\ x = h[j]
    BY <2>3 DEF ToSet
  <2>7. x.at \in Nat /\ x.at <= LatestOf(g) /\ h[1].at <= x.at
    BY <2>3, <2>6 DEF IsFinding
  <2>8. Len(g) \in 1..Len(g) /\ 1 \in 1..Len(h)
    BY <2>3
  <2>9. LatestOf(g) \in Nat /\ h[1].at \in Nat
    BY <2>3, <2>8 DEF IsFinding, LatestOf
  <2> QED BY <2>4, <2>7, <2>9
<1>10. ASSUME NEW m \in 1..N, NEW p \in 1..N, m # p
       PROVE  ToSet(rs[m].members) \cap ToSet(rs[p].members) = {}
  <2>1. CASE m < p
    BY <1>9, <2>1
  <2>2. CASE p < m
    BY <1>9, <2>2
  <2> QED BY <1>10, <2>1, <2>2
<1>11. ASSUME NEW r \in ToSet(rs)
       PROVE  /\ Len(r.members) >= 2 /\ ToSet(r.members) \subseteq F
              /\ \A i, j \in DOMAIN r.members : i < j => r.members[j].at - r.members[i].at \in 0..TimeWindow
              /\ \A f \in ToSet(r.members) : /\ \A kind \in DOMAIN r.shared : r.shared[kind] \subseteq f[kind]
                                             /\ f.severity <= r.severity
  <2>1. PICK m \in 1..N : r = rs[m]
    BY <1>5 DEF ToSet
  <2>2. PICK g : g = groups[c[m]]
    OBVIOUS
  <2>3. c[m] \in 1..Len(groups) /\ Len(g) >= 2 /\ r = CorrelateGroup(g)
    BY <1>5, <2>1, <2>2
  <2>4. /\ \A i \in 1..Len(g) : IsFinding(g[i]) /\ g[i] \in F
        /\ g \in Seq(F) /\ Len(g) \in Nat \ {0}
        /\ \A i, j \in 1..Len(g) : i < j => g[j].at - g[i].at \in 0..TimeWindow
    BY <1>7, <2>2, <2>3
  <2>5. /\ r.members = g /\ r.shared = [kind \in {"ips", "domains", "users"} |-> Shared(g, kind)]
        /\ r.severity = Max({1} \cup {f.severity : f \in ToSet(g)})
    BY <2>3 DEF CorrelateGroup
  <2>6. \A f \in ToSet(g) : f \in F /\ IsFinding(f)
    BY <2>4 DEF ToSet
  <2>7. ASSUME NEW f \in ToSet(g) PROVE f.severity <= r.severity
    <3> DEFINE S == {1} \cup {x.severity : x \in ToSet(g)}
    <3>1. \A x \in ToSet(g) : x.severity \in 0..4
      BY <2>6 DEF IsFinding
    <3>2. PICK b \in Nat : b = 4
      OBVIOUS
    <3>3. S \subseteq 0..b /\ S # {} /\ f.severity \in S
      BY <3>1, <3>2
    <3> HIDE DEF S
    <3>4. f.severity <= Max(S)
      BY <3>2, <3>3, GreatestUpTo
    <3> QED BY <2>5, <3>4 DEF S
  <2>8. ASSUME NEW f \in ToSet(g), NEW kind \in DOMAIN r.shared PROVE r.shared[kind] \subseteq f[kind]
    <3>1. r.shared[kind] = Shared(g, kind)
      BY <2>5
    <3> QED BY <3>1 DEF Shared
  <2>9. DOMAIN g = 1..Len(g)
    BY <2>4
  <2> QED BY <2>3, <2>4, <2>5, <2>6, <2>7, <2>8, <2>9
<1>12. HeldTogether(rs, s)
  BY <1>5, <1>10, <1>11 DEF HeldTogether
<1> QED BY <1>3, <1>6, <1>12

(* Two findings of one time with enough in common are correlated.          *)
LEMMA PairsAreReported ==
    ASSUME NEW s, Findings(s), Len(s) = 2, s[1].at = s[2].at,
           Cardinality(s[1].ips \cap s[2].ips) >= 2, s[1].users \cap s[2].users # {}, MinScore <= 30
    PROVE  Len(CorrelatedOf(s)) = 1
<1> DEFINE F == ToSet(s)
           all == FoldLeft(Grouped, <<>>, SortedBy(s, LAMBDA f : f.at))
<1>0. TimeWindow \in Nat /\ Proximity \in Nat /\ MinScore \in Nat
      /\ IsList(s) /\ \A f \in F : IsFinding(f) /\ f.at \in Nat
  BY EngineAssumption DEF EngineAssumption, Findings, ToSet, IsFinding
<1>1a. PICK n \in Nat, groups \in Groups(F) : \E sorted :
           /\ n = 2 /\ groups = all /\ GroupsOf(groups, sorted, n)
           /\ \A k \in 1..n : sorted[k] \in F
  BY <1>0, GroupsAre
<1>1. PICK sorted : /\ n = 2 /\ groups = all /\ GroupsOf(groups, sorted, n)
                    /\ \A k \in 1..n : sorted[k] \in F
  BY <1>1a
<1>2. \A f \in F : f = s[1] \/ f = s[2]
  <2>1. DOMAIN s = 1..2
    BY <1>0, ListIs
  <2> QED BY <2>1 DEF ToSet
<1>3. sorted[1] \in F /\ sorted[2] \in F
  BY <1>1
<1>4. sorted[2].at = sorted[1].at
  BY <1>2, <1>3
<1>5. Len(groups) = 1 /\ Len(groups[1]) = 2
  BY <1>1, <1>4 DEF GroupsOf
<1> HIDE DEF all
<1>6. PICK g : g = groups[1]
  OBVIOUS
<1>7. g \in Seq(F) /\ Len(g) = 2 /\ g[1] \in F /\ g[2] \in F
  <2> HIDE DEF F
  <2>1. groups \in Seq(Seq(F) \ {<<>>}) /\ 1 \in 1..Len(groups)
    BY <1>5 DEF Groups
  <2>2. g \in Seq(F) \ {<<>>}
    BY <1>6, <2>1
  <2>3. Len(g) = 2 /\ \A i \in 1..Len(g) : g[i] \in F
    BY <1>5, <1>6, <2>2
  <2>4. 1 \in 1..Len(g) /\ 2 \in 1..Len(g)
    BY <2>3
  <2> QED BY <2>2, <2>3, <2>4
<1>8. groups = <<g>>
  BY <1>5, <1>6 DEF Groups
<1>9. g[Len(g)].at - g[1].at = 0
  <2>1. g[2].at = g[1].at /\ g[1].at \in Nat
    BY <1>0, <1>2, <1>7
  <2> QED BY <1>7, <2>1
<1>10. ASSUME NEW kind \in {"ips", "domains", "users"}
       PROVE  /\ IsFiniteSet(Shared(g, kind)) /\ Cardinality(Shared(g, kind)) \in Nat
              /\ s[1][kind] \cap s[2][kind] \subseteq Shared(g, kind)
  <2>1. IsFiniteSet(g[1][kind])
    BY <1>0, <1>7 DEF IsFinding
  <2>2. Shared(g, kind) \subseteq g[1][kind]
    BY DEF Shared
  <2>3. IsFiniteSet(Shared(g, kind))
    BY <2>1, <2>2, FS_Subset
  <2>4. \A f \in ToSet(g) : f = s[1] \/ f = s[2]
    BY <1>2, <1>7 DEF ToSet
  <2>5. s[1][kind] \cap s[2][kind] \subseteq Shared(g, kind)
    BY <1>2, <1>7, <2>4 DEF Shared
  <2> QED BY <2>3, <2>5, FS_CardinalityType
<1>11. Cardinality(Shared(g, "ips")) >= 2
  <2>1. IsFiniteSet(Shared(g, "ips")) /\ s[1].ips \cap s[2].ips \subseteq Shared(g, "ips")
        /\ Cardinality(Shared(g, "ips")) \in Nat
    BY <1>10
  <2>2. IsFiniteSet(s[1].ips \cap s[2].ips)
        /\ Cardinality(s[1].ips \cap s[2].ips) <= Cardinality(Shared(g, "ips"))
    BY <2>1, FS_Subset
  <2>3. Cardinality(s[1].ips \cap s[2].ips) \in Nat
    BY <2>2, FS_CardinalityType
  <2> QED BY <2>1, <2>2, <2>3
<1>12. Cardinality(Shared(g, "users")) >= 1
  <2>1. IsFiniteSet(Shared(g, "users")) /\ Shared(g, "users") # {} /\ Cardinality(Shared(g, "users")) \in Nat
    BY <1>10
  <2>2. Cardinality(Shared(g, "users")) # 0
    BY <2>1, FS_EmptySet
  <2> QED BY <2>1, <2>2
<1>13. GroupScore(g) >= 2 * Proximity * MinScore
  <2>1. MinScore \in 0..30
    BY <1>0
  <2>2. Cardinality(Shared(g, "ips")) \in Nat /\ Cardinality(Shared(g, "domains")) \in Nat
        /\ Cardinality(Shared(g, "users")) \in Nat
    BY <1>10
  <2> QED BY <1>0, <1>9, <1>11, <1>12, <2>1, <2>2, ScoreSuffices
<1>14. Len(g) >= 2
  BY <1>7
<1>15. Len(Enough(Those(<<g>>, LAMBDA group : Len(group) >= 2))) = 1
  BY <1>13, <1>14, OneIsEnough
<1> QED BY <1>1, <1>8, <1>15 DEF CorrelatedOf, GroupByTime, all

-----------------------------------------------------------------------------
(* The inductive invariant: what is stored is a list, too.                 *)
EngineInv == IsList(stored) /\ GroupsHoldTogether

LEMMA InitiallyEngineInv == EngineInit => EngineInv
<1> SUFFICES ASSUME EngineInit PROVE EngineInv
  OBVIOUS
<1>1. submitted = <<>> /\ correlations = <<>> /\ stored = <<>>
  BY DEF EngineInit
<1>2. IsList(<<>>) /\ DOMAIN <<>> = {} /\ ToSet(<<>>) = {} /\ Len(<<>>) = 0
  BY DEF IsList, ToSet
<1>3. IsSuffix(<<>>, <<>>)
  <2>1. PICK e : e = <<>>
    OBVIOUS
  <2>2. IsSuffix(e, e \o e)
    BY <1>2, <2>1, SuffixIs
  <2>3. e \o e = e
    BY <2>1
  <2> QED BY <2>1, <2>2, <2>3
<1> QED BY <1>1, <1>2, <1>3 DEF EngineInv, GroupsHoldTogether

LEMMA EngineInvKept == EngineInv /\ [EngineNext]_engineVars => EngineInv'
<1> SUFFICES ASSUME EngineInv, [EngineNext]_engineVars PROVE EngineInv'
  OBVIOUS
<1>1. ASSUME NEW s \in FindingLists, CorrelateFindings(s) PROVE EngineInv'
  <2>1. Findings(s)
    BY EngineAssumption DEF EngineAssumption, Findings
  <2>2. submitted' = s /\ correlations' = CorrelatedOf(s) /\ stored' = stored \o CorrelatedOf(s)
    BY <1>1 DEF CorrelateFindings, CorrelatedOf
  <2>3. IsList(CorrelatedOf(s)) /\ HeldTogether(CorrelatedOf(s), s)
    BY <2>1, ReportedHoldsTogether
  <2>4. IsSuffix(correlations', stored') /\ IsList(stored')
    BY <2>2, <2>3, SuffixIs DEF EngineInv
  <2>5. (/\ Len(s) = 2 /\ s[1].at = s[2].at
         /\ Cardinality(s[1].ips \cap s[2].ips) >= 2
         /\ s[1].users \cap s[2].users # {} /\ MinScore <= 30) => Len(CorrelatedOf(s)) = 1
    BY <2>1, PairsAreReported
  <2> QED BY <2>2, <2>3, <2>4, <2>5 DEF EngineInv, GroupsHoldTogether, HeldTogether
<1>2. CASE UNCHANGED engineVars
  BY <1>2 DEF engineVars, EngineInv, GroupsHoldTogether
<1> QED BY <1>1, <1>2 DEF EngineNext

(* Whatever findings callers submit, in whatever order: the members of a   *)
(* correlation are of one time and have in common what it says, no finding *)
(* is in two, and two that have enough in common are not overlooked.       *)
THEOREM CorrelationsHoldTogether == EngineSpec => []GroupsHoldTogether
<1>1. EngineInit => EngineInv
  BY InitiallyEngineInv
<1>2. EngineInv /\ [EngineNext]_engineVars => EngineInv'
  BY EngineInvKept
<1>3. EngineInv => GroupsHoldTogether
  BY DEF EngineInv
<1> QED BY <1>1, <1>2, <1>3, PTL DEF EngineSpec

-----------------------------------------------------------------------------
(* The alerts *)

(* Counting each value apart counts everything once.                       *)
LEMMA TallyIs ==
    ASSUME NEW n \in Nat, NEW of, DOMAIN of = 1..n
    PROVE  Tally(of) = n
<1> DEFINE S == {of[i] : i \in 1..n}
           Having(Q) == {i \in 1..n : of[i] \in Q}
           counts == AlertCounts(of)
           Is(g) == g = [Q \in SUBSET S |-> IF Q = {} THEN 0
                                            ELSE counts[CHOOSE x \in Q : TRUE] + g[Q \ {CHOOSE x \in Q : TRUE}]]
           iter == CHOOSE g : Is(g)
<1>1. DOMAIN counts = S /\ \A x \in S : counts[x] = Cardinality({i \in 1..n : of[i] = x})
  BY DEF AlertCounts
<1>2. Tally(of) = iter[S]
  BY <1>1 DEF Tally, MapThenSumSet, MapThenFoldSet
<1>3. \A T : T \subseteq 1..n => IsFiniteSet(T) /\ Cardinality(T) \in Nat /\ Cardinality(T) <= n
  <2>1. IsFiniteSet(1..n) /\ Cardinality(1..n) = n
    BY FS_Interval
  <2> QED BY <2>1, FS_Subset, FS_CardinalityType
<1> HIDE DEF counts
<1>4. ASSUME NEW Q \in SUBSET S, NEW x \in Q
      PROVE  /\ Cardinality(Having(Q)) = counts[x] + Cardinality(Having(Q \ {x}))
             /\ counts[x] \in Nat /\ counts[x] >= 1 /\ Cardinality(Having(Q \ {x})) \in Nat
  <2> DEFINE A == {i \in 1..n : of[i] = x}
             B == Having(Q \ {x})
  <2>1. A \cup B = Having(Q) /\ A \cap B = {} /\ A \subseteq 1..n /\ B \subseteq 1..n
    BY <1>4
  <2>2. A # {}
    BY <1>4
  <2>3. counts[x] = Cardinality(A)
    BY <1>1, <1>4
  <2> HIDE DEF A, B, Having
  <2>4. IsFiniteSet(A) /\ IsFiniteSet(B) /\ Cardinality(A) \in Nat /\ Cardinality(B) \in Nat
    BY <1>3, <2>1
  <2>5. Cardinality(A \cup B) = Cardinality(A) + Cardinality(B) - Cardinality(A \cap B)
    BY <2>4, FS_Union
  <2>6. Cardinality(A) # 0 /\ Cardinality({}) = 0
    BY <2>2, <2>4, FS_EmptySet
  <2>7. Cardinality(A \cup B) = Cardinality(A) + Cardinality(B) - Cardinality({})
    BY <2>1, <2>5
  <2>8. Cardinality(Having(Q)) = Cardinality(A) + Cardinality(B) - 0
    BY <2>1, <2>6, <2>7
  <2>9. Cardinality(Having(Q)) = Cardinality(A) + Cardinality(B)
    BY <2>4, <2>8
  <2>10. Cardinality(A) >= 1
    BY <2>4, <2>6
  <2>11. B = Having(Q \ {x})
    BY DEF B
  <2> QED BY <2>3, <2>4, <2>9, <2>10, <2>11
<1>5. \E g : Is(g)
  <2> DEFINE w == [Q \in SUBSET S |-> Cardinality(Having(Q))]
  <2>1. ASSUME NEW Q \in SUBSET S
        PROVE  w[Q] = IF Q = {} THEN 0 ELSE counts[CHOOSE x \in Q : TRUE] + w[Q \ {CHOOSE x \in Q : TRUE}]
    <3>1. CASE Q = {}
      <4>1. Having(Q) = {}
        BY <3>1
      <4> HIDE DEF Having
      <4>2. Cardinality(Having(Q)) = 0
        BY <4>1, FS_EmptySet
      <4> QED BY <3>1, <4>2
    <3>2. CASE Q # {}
      <4>1. PICK x \in Q : x = CHOOSE y \in Q : TRUE
        BY <3>2
      <4>2. Cardinality(Having(Q)) = counts[x] + Cardinality(Having(Q \ {x}))
        BY <1>4
      <4>3. Q \ {x} \in SUBSET S
        OBVIOUS
      <4> HIDE DEF Having, S
      <4> QED BY <3>2, <4>1, <4>2, <4>3
    <3> QED BY <3>1, <3>2
  <2>2. w = [Q \in SUBSET S |-> w[Q]]
    OBVIOUS
  <2> HIDE DEF w
  <2>3. Is(w)
    BY <2>1, <2>2
  <2> QED BY <2>3
<1>6. Is(iter)
  BY <1>5
<1> HIDE DEF iter
<1>7. /\ iter[{}] = 0
      /\ \A Q \in SUBSET S : Q # {} => \E x \in Q : iter[Q] = counts[x] + iter[Q \ {x}]
  BY <1>6
<1> DEFINE K == {k \in 0..n : \A Q \in SUBSET S : Cardinality(Having(Q)) <= k => iter[Q] = Cardinality(Having(Q))}
<1>8. ASSUME NEW Q \in SUBSET S
      PROVE  /\ Cardinality(Having(Q)) \in Nat /\ Cardinality(Having(Q)) <= n
             /\ Cardinality(Having(Q)) = 0 => Q = {}
             /\ Q = {} => Cardinality(Having(Q)) = 0
  <2>1. Having(Q) \subseteq 1..n /\ (Q # {} => Having(Q) # {}) /\ (Q = {} => Having(Q) = {})
    OBVIOUS
  <2> HIDE DEF Having
  <2> QED BY <1>3, <2>1, FS_EmptySet
<1> HIDE DEF Having, S
<1>9. 0 \in K
  <2>1. ASSUME NEW Q \in SUBSET S, Cardinality(Having(Q)) <= 0 PROVE iter[Q] = Cardinality(Having(Q))
    <3>1. Cardinality(Having(Q)) = 0
      BY <1>8, <2>1
    <3>2. Q = {}
      BY <1>8, <3>1
    <3> QED BY <1>7, <3>1, <3>2
  <2> QED BY <2>1
<1>10. ASSUME NEW k \in 0..(n - 1), k \in K PROVE k + 1 \in K
  <2>1. ASSUME NEW Q \in SUBSET S, Cardinality(Having(Q)) <= k + 1 PROVE iter[Q] = Cardinality(Having(Q))
    <3>1. CASE Q = {}
      BY <1>7, <1>8, <3>1
    <3>2. CASE Q # {}
      <4>1. PICK x \in Q : iter[Q] = counts[x] + iter[Q \ {x}]
        BY <1>7, <3>2
      <4>2. /\ Cardinality(Having(Q)) = counts[x] + Cardinality(Having(Q \ {x}))
            /\ counts[x] \in Nat /\ counts[x] >= 1 /\ Cardinality(Having(Q \ {x})) \in Nat
        BY <1>4
      <4>3. Q \ {x} \in SUBSET S /\ Cardinality(Having(Q \ {x})) <= k
        BY <2>1, <4>2
      <4>4. iter[Q \ {x}] = Cardinality(Having(Q \ {x}))
        BY <1>10, <4>3
      <4> QED BY <4>1, <4>2, <4>4
    <3> QED BY <3>1, <3>2
  <2> QED BY <2>1
<1> HIDE DEF K
<1>11. n \in K
  <2>1. 0..n \subseteq K
    BY <1>9, <1>10, UpTo
  <2> QED BY <2>1
<1>12. iter[S] = Cardinality(Having(S))
  BY <1>8, <1>11 DEF K
<1>13. Having(S) = 1..n
  BY DEF Having, S
<1>14. Cardinality(1..n) = n
  BY FS_Interval
<1> QED BY <1>2, <1>12, <1>13, <1>14

(* Which handlers were registered by then, of those that were called.      *)
LEMMA RegisteredAreCalled ==
    ASSUME handlers \in Seq(Handlers), recruits \in Nat
    PROVE  Registering \in Nat /\ Those(Called, LAMBDA h : h.name # "recruit") = handlers
<1> DEFINE n == Len(handlers)
           r == recruits + Registering
           recruited == [k \in 1..r |-> [name |-> "recruit", does |-> "returns"]]
<1>1. n \in Nat /\ DOMAIN handlers = 1..n /\ \A k \in 1..n : handlers[k] \in Handlers
  OBVIOUS
<1>2. Registering \in Nat
  <2>1. IsFiniteSet(1..n)
    BY <1>1, FS_Interval
  <2>2. {k \in DOMAIN handlers : handlers[k].does = "registers"} \subseteq 1..n
    BY <1>1
  <2>3. IsFiniteSet({k \in DOMAIN handlers : handlers[k].does = "registers"})
    BY <2>1, <2>2, FS_Subset
  <2> QED BY <2>3, FS_CardinalityType DEF Registering
<1>3. r \in Nat
  BY <1>2
<1> HIDE DEF r
<1>4. \A k \in 1..n : handlers[k].name # "recruit"
  BY <1>1, AlertAssumption
<1>5. PICK S : S = Handlers \cup {[name |-> "recruit", does |-> "returns"]}
  OBVIOUS
<1>6. handlers \in Seq(S) /\ recruited \in Seq(S) /\ Len(recruited) = r
  <2>1. handlers \in Seq(S)
    BY <1>5, SeqMonotonic
  <2> QED BY <1>3, <1>5, <2>1
<1>7. Called = handlers \o recruited
  BY DEF Called, r
<1>8. /\ DOMAIN Called = 1..(n + r)
      /\ \A k \in 1..n : Called[k] = handlers[k]
      /\ \A k \in (n + 1)..(n + r) : Called[k] = recruited[k - n]
  <2> HIDE DEF recruited
  <2>1. /\ Len(handlers \o recruited) = n + r
        /\ handlers \o recruited \in Seq(S)
        /\ \A k \in 1..(n + r) : (handlers \o recruited)[k] = IF k <= n THEN handlers[k] ELSE recruited[k - n]
    BY <1>1, <1>3, <1>6
  <2> QED BY <1>1, <1>3, <1>7, <2>1
<1>9. \A k \in (n + 1)..(n + r) : Called[k].name = "recruit"
  <2>1. ASSUME NEW k \in (n + 1)..(n + r) PROVE k - n \in 1..r
    BY <1>1, <1>3, <2>1
  <2>2. ASSUME NEW k \in (n + 1)..(n + r) PROVE Called[k] = recruited[k - n]
    BY <1>8, <2>2
  <2> QED BY <2>1, <2>2
<1>10. {k \in DOMAIN Called : Called[k].name # "recruit"} = 1..n
  <2> HIDE DEF n
  <2>1. 1..(n + r) = (1..n) \cup ((n + 1)..(n + r))
    BY <1>1, <1>3
  <2>2. \A k \in 1..n : Called[k].name # "recruit"
    BY <1>4, <1>8
  <2> QED BY <1>8, <1>9, <2>1, <2>2
<1>11. Those(Called, LAMBDA h : h.name # "recruit") = Kept(Called, 1..n)
  BY <1>10 DEF Those
<1>12. Kept(Called, 1..n) = [k \in 1..n |-> Called[k]]
  <2> HIDE DEF n
  <2>1. PICK c \in 0..n : c = 0
    BY <1>1
  <2>2. Kept(Called, (c + 1)..n) = [k \in 1..(n - c) |-> Called[c + k]]
    BY <1>1, KeptFrom
  <2>3. (c + 1)..n = 1..n /\ n - c = n /\ \A k \in 1..n : c + k = k
    BY <1>1, <2>1
  <2> QED BY <2>2, <2>3
<1>13. [k \in 1..n |-> Called[k]] = handlers
  <2>1. [k \in 1..n |-> Called[k]] = [k \in 1..n |-> handlers[k]]
    BY <1>8
  <2> QED BY <1>1, <2>1
<1> QED BY <1>2, <1>11, <1>12, <1>13

Alert == [level : Levels, category : Categories, assets : {1, 4}, created : 0..MaxAlertTime,
          status : {"new", "in_progress", "suppressed", "acknowledged", "resolved", "false_positive"}]

(* The key of an alert: the graver one has the smaller, whatever their     *)
(* times.                                                                  *)
LEMMA GraverIsFirst ==
    ASSUME NEW t \in Nat, NEW k \in 1..5, NEW l \in 1..5, NEW c \in 0..t, NEW d \in 0..t,
           -(t + 1) * k - c <= -(t + 1) * l - d
    PROVE  k >= l
<1> SUFFICES ASSUME k < l PROVE FALSE
  OBVIOUS
<1>1. (k = 1 \/ k = 2 \/ k = 3 \/ k = 4 \/ k = 5) /\ (l = 1 \/ l = 2 \/ l = 3 \/ l = 4 \/ l = 5)
  OBVIOUS
<1> QED BY <1>1

(* A list of all the alerts has each of them, and no milder one before a   *)
(* graver.                                                                 *)
LEMMA ListsAreComplete ==
    ASSUME alerts \in Seq(Alert)
    PROVE  /\ Len(ListAlerts("any")) = Len(alerts) /\ ToSet(ListAlerts("any")) = ToSet(alerts)
           /\ \A m, n \in DOMAIN alerts :
                  m < n => ListAlerts("any")[m].level >= ListAlerts("any")[n].level
<1> DEFINE N == Len(alerts)
           Key(a) == -(MaxAlertTime + 1) * a.level - a.created
           keys == [n \in 1..N |-> Key(alerts[n])]
<1>1. N \in Nat /\ DOMAIN alerts = 1..N /\ alerts = [k \in 1..N |-> alerts[k]]
  OBVIOUS
<1>2. \A k \in 1..N : alerts[k] \in Alert
  BY <1>1
<1>3. \A a \in Alert : a.level \in 1..5 /\ a.created \in 0..MaxAlertTime
  BY AlertAssumption DEF Alert
<1>4. MaxAlertTime \in Nat
  BY AlertAssumption
<1>5. \A a \in Alert : Key(a) \in Int
  BY <1>3, <1>4
<1>6. \A a, b \in Alert : Key(a) <= Key(b) => a.level >= b.level
  BY <1>3, <1>4, GraverIsFirst
<1> HIDE DEF N, Alert
<1>7. Those(alerts, LAMBDA a : "any" = "any" \/ a.status = "any") = alerts
  <2>1. {n \in DOMAIN alerts : "any" = "any" \/ alerts[n].status = "any"} = 1..N
    BY <1>1
  <2>2. PICK c \in 0..N : c = 0
    BY <1>1
  <2>3. Kept(alerts, (c + 1)..N) = [k \in 1..(N - c) |-> alerts[c + k]]
    BY <1>1, KeptFrom
  <2>4. (c + 1)..N = 1..N /\ N - c = N /\ \A k \in 1..N : c + k = k
    <3>1. N \in Int /\ c = 0
      BY <1>1, <2>2
    <3>2. c + 1 = 1 /\ N - c = N
      BY <3>1
    <3>3. \A k \in 1..N : c + k = k
      BY <3>1
    <3> QED BY <3>2, <3>3
  <2>5. Kept(alerts, 1..N) = [k \in 1..N |-> alerts[k]]
    BY <2>3, <2>4
  <2> QED BY <1>1, <2>1, <2>5 DEF Those
<1>8. ListAlerts("any") = At(alerts, InOrder([n \in DOMAIN alerts |-> Key(alerts[n])]))
  BY <1>7 DEF ListAlerts, SortedBy
<1>9. ListAlerts("any") = At(alerts, InOrder(keys))
  BY <1>1, <1>8
<1>10. keys \in [1..N -> Int] /\ \A k \in 1..N : keys[k] = Key(alerts[k])
  BY <1>2, <1>5
<1> HIDE DEF keys
<1>11. PICK o : Sorts(o, keys, N) /\ At(alerts, InOrder(keys)) = At(alerts, o)
  BY <1>1, <1>10, SortedIs
<1>12. o \in [1..N -> 1..N] /\ DOMAIN o = 1..N
  BY <1>11 DEF Sorts
<1>13. ListAlerts("any") = [k \in 1..N |-> alerts[o[k]]]
  BY <1>9, <1>11, <1>12 DEF At
<1>14. \A k \in 1..N : alerts[o[k]] \in Alert
  BY <1>2, <1>12
<1>15. DOMAIN ListAlerts("any") = 1..N /\ Len(ListAlerts("any")) = N
  <2>1. PICK s : s = ListAlerts("any")
    OBVIOUS
  <2>2. DOMAIN s = 1..N /\ s = [k \in 1..N |-> s[k]]
    BY <1>13, <2>1
  <2>3. N \in Nat
    BY <1>1
  <2>4. Len(s) = N
    BY <2>2, <2>3, ListFrom
  <2> QED BY <2>1, <2>2, <2>4
<1>16. \A p \in 1..N : \E k \in 1..N : o[k] = p
  BY <1>11 DEF Sorts
<1>17. ToSet(ListAlerts("any")) = ToSet(alerts)
  <2>1. ToSet(ListAlerts("any")) = {alerts[o[k]] : k \in 1..N}
    BY <1>13, <1>15 DEF ToSet
  <2>2. ToSet(alerts) = {alerts[p] : p \in 1..N}
    BY <1>1 DEF ToSet
  <2> QED BY <1>12, <1>16, <2>1, <2>2
<1> HIDE DEF Key
<1>18. ASSUME NEW m \in 1..N, NEW n \in 1..N, m < n
       PROVE  ListAlerts("any")[m].level >= ListAlerts("any")[n].level
  <2>1. PICK i \in 1..N, j \in 1..N : i = o[m] /\ j = o[n]
    BY <1>12
  <2>2. Before(keys, i, j)
    BY <1>11, <1>18, <2>1 DEF Sorts
  <2>3. keys[i] \in Int /\ keys[j] \in Int
    BY <1>10
  <2>4. keys[i] <= keys[j]
    BY <2>2, <2>3 DEF Before
  <2>5. Key(alerts[i]) <= Key(alerts[j])
    BY <1>10, <2>4
  <2>6. alerts[i].level >= alerts[j].level
    BY <1>2, <1>6, <2>5
  <2> QED BY <1>13, <2>1, <2>6
<1> QED BY <1>1, <1>15, <1>17, <1>18 DEF N
-----------------------------------------------------------------------------
Lesser(x, y) == Min({x, y})

(* The score grows with the severity: the weight does, and what multiplies *)
(* it and what the assets add is the same.                                 *)
LEMMA MultiplierIs == \A c \in AlertCategories : Multiplier(c) \in 6..13
<1>1. ASSUME NEW c \in {"data_exfiltration", "malware", "intrusion", "phishing"}
      PROVE  Multiplier(c) \in 6..13
  BY DEF Multiplier
<1>2. ASSUME NEW c \in {"brute_force", "vulnerability", "anomaly", "policy_violation", "system"}
      PROVE  Multiplier(c) \in 6..13
  BY DEF Multiplier
<1> QED BY <1>1, <1>2 DEF AlertCategories

LEMMA GraverScoresMore ==
    ASSUME NEW a \in Alert, NEW b \in Alert,
           a.level > b.level, a.category = b.category, a.assets = b.assets
    PROVE  PriorityScore(a) >= PriorityScore(b)
<1> DEFINE weight(x) == <<10, 30, 50, 80, 100>>[x.level]
           more(x) == Lesser(100 * x.assets, 300)
<1>1. a.level \in 1..5 /\ b.level \in 1..5 /\ a.category \in AlertCategories /\ a.assets \in {1, 4}
  BY AlertAssumption DEF Alert
<1>2. PICK m \in 6..13 : m = Multiplier(a.category)
  BY <1>1, MultiplierIs
<1>3. \A x, y \in Int : Lesser(x, y) \in Int /\ Lesser(x, y) <= x /\ Lesser(x, y) <= y
                        /\ (Lesser(x, y) = x \/ Lesser(x, y) = y)
  BY DEF Min, Lesser
<1>4. PICK v \in Int, w \in Int : v = weight(a) /\ w = weight(b) /\ v >= w
  <2>1. a.level = 1 \/ a.level = 2 \/ a.level = 3 \/ a.level = 4 \/ a.level = 5
    BY <1>1
  <2>2. b.level = 1 \/ b.level = 2 \/ b.level = 3 \/ b.level = 4 \/ b.level = 5
    BY <1>1
  <2>3. weight(a) \in Int /\ weight(b) \in Int
    BY <2>1, <2>2
  <2>4. weight(a) >= weight(b)
    BY <2>1, <2>2
  <2> HIDE DEF weight
  <2> QED BY <2>3, <2>4
<1>5. PICK e \in Int : e = more(a) /\ e = more(b)
  <2>1. PICK d \in Int : d = 100 * a.assets
    BY <1>1
  <2>2. Lesser(d, 300) \in Int
    BY <1>3
  <2> HIDE DEF more
  <2>3. more(a) = Lesser(d, 300) /\ more(b) = Lesser(d, 300)
    BY <2>1 DEF more
  <2> QED BY <2>2, <2>3
<1>6. v * m \in Int /\ w * m \in Int /\ v * m >= w * m
  <2>1. m = 6 \/ m = 7 \/ m = 8 \/ m = 9 \/ m = 10 \/ m = 11 \/ m = 12 \/ m = 13
    OBVIOUS
  <2> QED BY <1>4, <2>1
<1> HIDE DEF weight, more
<1>7. PICK x \in Int, y \in Int : x = v * m + e /\ y = w * m + e /\ x >= y
  <2>1. PICK i \in Int, j \in Int : i = v * m /\ j = w * m /\ i >= j
    BY <1>6
  <2>2. i + e \in Int /\ j + e \in Int /\ i + e >= j + e
    BY <2>1
  <2> QED BY <2>1, <2>2
<1>8. PriorityScore(a) = Lesser(1000, x) /\ PriorityScore(b) = Lesser(1000, y)
  <2>1. PriorityScore(a) = Lesser(1000, weight(a) * m + more(a))
    BY <1>2 DEF PriorityScore, Lesser, weight, more
  <2>2. PriorityScore(b) = Lesser(1000, weight(b) * m + more(b))
    BY <1>2 DEF PriorityScore, Lesser, weight, more
  <2>3. x = weight(a) * m + more(a)
    BY <1>4, <1>5, <1>7
  <2>4. y = weight(b) * m + more(b)
    BY <1>4, <1>5, <1>7
  <2> QED BY <2>1, <2>2, <2>3, <2>4
<1>9. Lesser(1000, x) >= Lesser(1000, y)
  <2>1. PICK p \in Int, q \in Int : /\ p = Lesser(1000, x) /\ q = Lesser(1000, y)
                                    /\ (p = 1000 \/ p = x) /\ q <= 1000 /\ q <= y
    BY <1>3
  <2> QED BY <1>7, <2>1
<1> QED BY <1>8, <1>9
-----------------------------------------------------------------------------
(* What is known of an alert's telling.                                    *)
ToldAll(entry) == Those(entry.called, LAMBDA h : h.name # "recruit") = entry.there

AlertInv ==
    /\ alertTime \in 0..MaxAlertTime
    /\ alerts \in Seq(Alert)
    /\ handlers \in Seq(Handlers)
    /\ recruits \in Nat
    /\ IsList(told) /\ Len(told) = Len(alerts)
    /\ \A n \in 1..Len(told) : ToldAll(told[n])

LEMMA InitiallyAlertInv == AlertInit => AlertInv
<1> SUFFICES ASSUME AlertInit PROVE AlertInv
  OBVIOUS
<1>1. alertTime \in 0..MaxAlertTime /\ recruits \in Nat
  BY AlertAssumption DEF AlertInit
<1>2. alerts \in Seq(Alert) /\ handlers \in Seq(Handlers)
  BY DEF AlertInit
<1>3. IsList(told) /\ Len(told) = 0 /\ Len(alerts) = 0
  <2>1. told \in Seq({})
    BY DEF AlertInit
  <2> QED BY <2>1, ListOf DEF AlertInit
<1> QED BY <1>1, <1>2, <1>3 DEF AlertInv

LEMMA AlertInvKept == AlertInv /\ [AlertNext]_alertVars => AlertInv'
<1> SUFFICES ASSUME AlertInv, [AlertNext]_alertVars PROVE AlertInv'
  OBVIOUS
<1> USE DEF AlertInv
<1>1. ASSUME NEW level \in Levels, NEW category \in Categories, NEW assets \in {1, 4},
             CreateAlert(level, category, assets)
      PROVE  AlertInv'
  <2>1. PICK a : /\ a = [level |-> level, category |-> category, assets |-> assets,
                         status |-> "new", created |-> alertTime]
                 /\ alerts' = Append(alerts, a)
    BY <1>1 DEF CreateAlert
  <2>2. a \in Alert
    BY <2>1 DEF Alert
  <2>3. alerts' \in Seq(Alert) /\ Len(alerts') = Len(alerts) + 1
    BY <2>1, <2>2
  <2>4. PICK e : e = [there |-> handlers, called |-> Called] /\ told' = Append(told, e)
    BY <1>1 DEF CreateAlert
  <2>5. Registering \in Nat /\ Those(Called, LAMBDA h : h.name # "recruit") = handlers
    BY RegisteredAreCalled
  <2>6. ToldAll(e)
    BY <2>4, <2>5 DEF ToldAll
  <2>7. /\ IsList(told') /\ Len(told') = Len(told) + 1 /\ told'[Len(told) + 1] = e
        /\ \A n \in 1..Len(told) : told'[n] = told[n]
    BY <2>4, AppendedIs
  <2>8. Len(told) \in Nat
    BY ListIs
  <2>9. \A n \in 1..Len(told') : ToldAll(told'[n])
    BY <2>6, <2>7, <2>8
  <2>10. recruits' \in Nat /\ handlers' = handlers /\ alertTime' = alertTime
    BY <1>1, <2>5 DEF CreateAlert
  <2> QED BY <2>3, <2>7, <2>9, <2>10
<1>2. ASSUME NEW n \in DOMAIN alerts, NEW to, ChangeStatus(n, to),
             to \in {"in_progress", "suppressed", "acknowledged", "resolved", "false_positive"}
      PROVE  AlertInv'
  <2>1. /\ alerts' = [alerts EXCEPT ![n] = [alerts[n] EXCEPT !.status = to]]
        /\ UNCHANGED <<alertTime, handlers, recruits, told>>
    BY <1>2 DEF ChangeStatus
  <2>2. alerts[n] \in Alert /\ n \in 1..Len(alerts)
    OBVIOUS
  <2>3. PICK a : a = [alerts[n] EXCEPT !.status = to]
    OBVIOUS
  <2>4. a \in Alert
    BY <1>2, <2>2, <2>3 DEF Alert
  <2>5. alerts' = [alerts EXCEPT ![n] = a]
    BY <2>1, <2>3
  <2>6. alerts' \in Seq(Alert) /\ Len(alerts') = Len(alerts)
    BY <2>2, <2>4, <2>5
  <2> QED BY <2>1, <2>6
<1>3. ASSUME NEW h \in Handlers, RegisterHandler(h) PROVE AlertInv'
  BY <1>3 DEF RegisterHandler
<1>4. ASSUME AlertTimePasses PROVE AlertInv'
  BY <1>4, AlertAssumption DEF AlertTimePasses
<1>5. ASSUME UNCHANGED alertVars PROVE AlertInv'
  BY <1>5 DEF alertVars
<1>6. ASSUME AlertNext PROVE AlertInv'
  <2>1. CASE \E n \in DOMAIN alerts :
                \/ \E to \in {"in_progress", "suppressed"} : UpdateAlert(n, to)
                \/ AcknowledgeAlert(n)
                \/ \E isFalse \in BOOLEAN : ResolveAlert(n, isFalse)
    <3>1. PICK n \in DOMAIN alerts :
                \/ \E to \in {"in_progress", "suppressed"} : UpdateAlert(n, to)
                \/ AcknowledgeAlert(n)
                \/ \E isFalse \in BOOLEAN : ResolveAlert(n, isFalse)
      BY <2>1
    <3> HIDE DEF AlertInv
    <3> QED BY <1>2, <3>1 DEF UpdateAlert, AcknowledgeAlert, ResolveAlert
  <2> HIDE DEF AlertInv
  <2> QED BY <1>1, <1>3, <1>4, <1>6, <2>1 DEF AlertNext
<1> QED BY <1>5, <1>6

(* Of each alert every handler that was registered by then is told exactly *)
(* once, in the order of registration, whatever others raise or register;  *)
(* the counts by severity and by status each count every alert once; a     *)
(* list of the alerts has them all, the gravest first; and no alert scores *)
(* more than a graver one of its kind.                                     *)
THEOREM AlertsAreToldToAll == AlertSpec => []EveryoneIsTold
<1>1. AlertInv => EveryoneIsTold
  <2> SUFFICES ASSUME AlertInv PROVE EveryoneIsTold
    OBVIOUS
  <2> DEFINE n == Len(alerts)
             levels == [k \in DOMAIN alerts |-> alerts[k].level]
             statuses == [k \in DOMAIN alerts |-> alerts[k].status]
  <2>1. n \in Nat /\ DOMAIN alerts = 1..n /\ \A k \in 1..n : alerts[k] \in Alert
    BY DEF AlertInv
  <2>2. /\ Len(told) = Len(alerts) /\ DOMAIN told = 1..Len(told)
        /\ \A k \in 1..Len(told) : ToldAll(told[k])
    BY ListIs DEF AlertInv
  <2>3. \A k \in DOMAIN told : Those(told[k].called, LAMBDA h : h.name # "recruit") = told[k].there
    BY <2>2 DEF ToldAll
  <2>4. Tally(levels) = n /\ Tally(statuses) = n
    <3>1. DOMAIN levels = 1..n /\ DOMAIN statuses = 1..n
      BY <2>1
    <3> HIDE DEF levels, statuses, n
    <3> QED BY <2>1, <3>1, TallyIs
  <2>5. /\ Len(ListAlerts("any")) = Len(alerts) /\ ToSet(ListAlerts("any")) = ToSet(alerts)
        /\ \A i, j \in DOMAIN alerts :
               i < j => ListAlerts("any")[i].level >= ListAlerts("any")[j].level
    BY ListsAreComplete DEF AlertInv
  <2>6. \A a, b \in ToSet(alerts) :
            (a.level > b.level /\ a.category = b.category /\ a.assets = b.assets) =>
                PriorityScore(a) >= PriorityScore(b)
    <3>1. \A a \in ToSet(alerts) : a \in Alert
      BY <2>1 DEF ToSet
    <3> QED BY <3>1, GraverScoresMore
  <2> QED BY <2>2, <2>3, <2>4, <2>5, <2>6 DEF EveryoneIsTold
<1> QED BY <1>1, InitiallyAlertInv, AlertInvKept, PTL DEF AlertSpec

-----------------------------------------------------------------------------
(* All agents side by side *)

(* A step of the agents is one of each of them, or leaves it alone.        *)
LEMMA AgentsStepAlone ==
    [AgentsNext]_agentsVars =>
        /\ [RegistryNext]_registryVars /\ [RouterNext]_routerVars /\ [LogNext]_logVars
        /\ [NetworkNext]_networkVars /\ [CorrelationNext]_correlationVars /\ [EmailNext]_emailVars
        /\ [PrioritizationNext]_prioritizationVars /\ [PlanNext]_planVars
        /\ [InvestigationNext]_investigationVars /\ [AlertNext]_alertVars /\ [EngineNext]_engineVars
        /\ [ReportNext]_reportVars /\ [EnrichmentNext]_enrichmentVars /\ [CaseNext]_caseVars
<1>1. UNCHANGED agentsVars =>
          UNCHANGED <<registryVars, routerVars, logVars, networkVars, correlationVars, emailVars,
                      prioritizationVars, planVars, investigationVars, alertVars, engineVars, reportVars,
                      enrichmentVars, caseVars>>
  BY DEF agentsVars
<1>2. ASSUME NEW one, Only(one)
      PROVE  /\ one # "registry" => UNCHANGED registryVars
             /\ one # "router" => UNCHANGED routerVars
             /\ one # "log" => UNCHANGED logVars
             /\ one # "network" => UNCHANGED networkVars
             /\ one # "correlation" => UNCHANGED correlationVars
             /\ one # "email" => UNCHANGED emailVars
             /\ one # "prioritization" => UNCHANGED prioritizationVars
             /\ one # "plan" => UNCHANGED planVars
             /\ one # "investigation" => UNCHANGED investigationVars
             /\ one # "alerts" => UNCHANGED alertVars
             /\ one # "engine" => UNCHANGED engineVars
             /\ one # "report" => UNCHANGED reportVars
             /\ one # "enrichment" => UNCHANGED enrichmentVars
             /\ one # "cases" => UNCHANGED caseVars
  BY <1>2 DEF Only
<1> QED BY <1>1, <1>2 DEF AgentsNext

(* The registry's indexes agree and the router takes the matching rule     *)
(* that none outranks, whatever else the agents do.                        *)
THEOREM WorkIsFound == AgentsSpec => []WorkFindsItsAgent
<1>1. AgentsInit => RegistryInv /\ RouterInv
  BY InitiallyRegistryInv, InitiallyRouterInv DEF AgentsInit
<1>2. (RegistryInv /\ RouterInv) /\ [AgentsNext]_agentsVars => (RegistryInv /\ RouterInv)'
  BY AgentsStepAlone, RegistryInvKept, RouterInvKept
<1>3. RegistryInv /\ RouterInv => WorkFindsItsAgent
  BY RegistryInvAgrees, RouterInvRoutes DEF WorkFindsItsAgent
<1> QED BY <1>1, <1>2, <1>3, PTL DEF AgentsSpec

(* No mail looks better for what is added against it, and nothing known to *)
(* be malicious is hidden by what else a task says, whatever the others do. *)
THEOREM EvidenceIsAgainst == AgentsSpec => []EvidenceOnlyAccuses
<1>1. AgentsInit => EmailInv /\ EnrichmentInv
  BY EmailInitial, EnrichmentInitial DEF AgentsInit
<1>2. EmailInv /\ [EmailNext]_emailVars => EmailInv'
  BY EmailStep DEF EmailInv, emailVars
<1>3. EnrichmentInv /\ [EnrichmentNext]_enrichmentVars => EnrichmentInv'
  BY EnrichmentStep DEF EnrichmentInv, enrichmentVars
<1>4. (EmailInv /\ EnrichmentInv) /\ [AgentsNext]_agentsVars => (EmailInv /\ EnrichmentInv)'
  BY AgentsStepAlone, <1>2, <1>3
<1>5. EmailInv /\ EnrichmentInv => EvidenceOnlyAccuses
  BY EmailInvAccuses, EnrichmentInvHidesNothing DEF EvidenceOnlyAccuses
<1> QED BY <1>1, <1>4, <1>5, PTL DEF AgentsSpec

(* Nothing told is lost, neither in an investigation nor in a case nor in  *)
(* the reports on them, whatever the others do.                            *)
THEOREM NothingIsLost == AgentsSpec => []NothingToldIsLost
<1>1. AgentsInit => InvestigationInit /\ CaseInit /\ ReportInit
  BY DEF AgentsInit
<1>2. [AgentsNext]_agentsVars =>
          [InvestigationNext]_investigationVars /\ [CaseNext]_caseVars /\ [ReportNext]_reportVars
  BY AgentsStepAlone
<1>3. AgentsSpec => InvestigationSpec /\ CaseSpec /\ ReportSpec
  BY <1>1, <1>2, PTL DEF AgentsSpec, InvestigationSpec, CaseSpec, ReportSpec
<1>4. InvestigationTellsAll /\ TimelinesAreOfTheirTime /\ AskingAgainTellsTheSame => NothingToldIsLost
  BY DEF NothingToldIsLost
<1> QED BY <1>3, <1>4, InvestigationsTell, CasesAreOfTheirTime, ReportsStay, PTL
=============================================================================
