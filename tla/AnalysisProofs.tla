--------------------------- MODULE AnalysisProofs ---------------------------
(***************************************************************************)
(* Theorems about what the analysing agents make of what they are given:   *)
(* the alarms of the log analyzer, the verdict on a mail, what is found of *)
(* known indicators, the attacks and the beacons that are seen, and what   *)
(* investigations, cases and reports make of what they were told.          *)
(***************************************************************************)
EXTENDS LogAnalyzer, EmailVerification, IntelEnrichment, CorrelationAgent, NetworkThreat,
        InvestigationEngine, InvestigationAgent, ReportGeneration, ListProofs

-----------------------------------------------------------------------------
(* The log analyzer *)

(* Where the analysis of each event leads on, that of a task leads.        *)
LEMMA AnalysisGoes ==
    ASSUME NEW n \in Nat, NEW S, NEW T, NEW base \in T[0], NEW seq, DOMAIN seq = 1..n,
           \A x \in S : \A k \in 1..n : AnalyzeEvent(x, seq[k]) \in S,
           \A k \in 0..n : T[k] \subseteq S,
           \A k \in 1..n : \A x \in T[k - 1] : AnalyzeEvent(x, seq[k]) \in T[k]
    PROVE  FoldLeft(AnalyzeEvent, base, seq) \in T[n]
<1> DEFINE X == S \X {seq[k] : k \in 1..n}
           F == [p \in X |-> AnalyzeEvent(p[1], p[2])]
           Op(x, e) == AnalyzeEvent(x, e)
           Is(g) == g = [P \in SUBSET (1..n) |-> IF P = {} THEN base ELSE Op(g[P \ {Max(P)}], seq[Max(P)])]
           iter == CHOOSE g : Is(g)
<1>1. FoldLeft(AnalyzeEvent, base, seq) = iter[1..n]
  BY DEF FoldLeft, MapThenFoldSet
<1>0. base \in S
  OBVIOUS
<1>2. \A x \in S : \A k \in 1..n : F[<<x, seq[k]>>] = Op(x, seq[k]) /\ Op(x, seq[k]) \in S
  OBVIOUS
<1>3. ASSUME NEW P \in SUBSET (1..n), P # {} PROVE Max(P) \in 1..n /\ P \ {Max(P)} \in SUBSET (1..n)
  <2>1. P \subseteq 0..n
    OBVIOUS
  <2>2. Max(P) \in P
    BY <1>3, <2>1, GreatestUpTo
  <2> QED BY <2>2
<1> HIDE DEF F, X, Op
<1>4. \E g : Is(g)
  <2>1. PICK g : Folds(g, base, seq, F, n, S)
    BY <1>0, <1>2, FoldExists
  <2>2. /\ g \in [SUBSET (1..n) -> S] /\ g[{}] = base
        /\ \A P \in SUBSET (1..n) : P # {} => g[P] = F[<<g[P \ {Max(P)}], seq[Max(P)]>>]
    BY <2>1 DEF Folds
  <2>3. \A P \in SUBSET (1..n) : P # {} => g[P] = Op(g[P \ {Max(P)}], seq[Max(P)])
    BY <1>2, <1>3, <2>2
  <2>4. g = [P \in SUBSET (1..n) |-> IF P = {} THEN base ELSE Op(g[P \ {Max(P)}], seq[Max(P)])]
    BY <2>2, <2>3
  <2> QED BY <2>4
<1>5. Is(iter)
  BY <1>4
<1> HIDE DEF iter
<1>6. /\ iter[{}] = base
      /\ \A P \in SUBSET (1..n) :
             P # {} /\ iter[P \ {Max(P)}] \in S => iter[P] = F[<<iter[P \ {Max(P)}], seq[Max(P)]>>]
  <2>1. iter[{}] = base
    BY <1>5
  <2>2. ASSUME NEW P \in SUBSET (1..n), P # {}, iter[P \ {Max(P)}] \in S
        PROVE  iter[P] = F[<<iter[P \ {Max(P)}], seq[Max(P)]>>]
    BY <1>2, <1>3, <1>5, <2>2
  <2> QED BY <2>1, <2>2
<1>7. iter[1..n] \in T[n]
  <2>1. ASSUME NEW k \in 1..n, NEW x \in T[k - 1] PROVE F[<<x, seq[k]>>] \in T[k]
    <3>1. k - 1 \in 0..n /\ Op(x, seq[k]) \in T[k]
      BY DEF Op
    <3> QED BY <1>2, <3>1
  <2> QED BY <1>6, <2>1, FoldGoes
<1> QED BY <1>1, <1>7

(* What a table keeps of the times of a key, of all there ever were: those *)
(* from some place on, which are the ones in the window at the last.       *)
KeptSince(times, ever, c) ==
    /\ c \in 0..Len(ever) /\ times = [j \in 1..(Len(ever) - c) |-> ever[c + j]]
    /\ \A j \in 1..c : ever[j] < ever[Len(ever)] - BruteWindow
    /\ \A j \in (c + 1)..Len(ever) : ever[j] >= ever[Len(ever)] - BruteWindow

Trimmed(times, ever) == \E c \in 0..Len(ever) : KeptSince(times, ever, c)

Rising(ever, now) == /\ \A i, j \in 1..Len(ever) : i <= j => ever[i] <= ever[j]
                     /\ \A j \in 1..Len(ever) : ever[j] <= now

LEMMA TrackedIs ==
    ASSUME NEW times \in Seq(Nat), NEW window \in Nat, logTime \in Nat
    PROVE  Tracked(times, window) \in Seq(Nat) /\ Len(Tracked(times, window)) \in Nat
<1> DEFINE s == Append(times, logTime)
           P == {n \in DOMAIN s : s[n] >= logTime - window}
<1>1. PICK n \in Nat : P \subseteq 1..n /\ \A p \in P : s[p] \in Nat
  OBVIOUS
<1>2. Tracked(times, window) = Kept(s, P)
  BY DEF Tracked, Those
<1> HIDE DEF s, P
<1>3. Kept(s, P) \in Seq(Nat) /\ Len(Kept(s, P)) \in Nat
  BY <1>1, KeptHas
<1> QED BY <1>2, <1>3

(* What is trimmed is still what is in the window after one more.          *)
LEMMA TrackedIsTrimmed ==
    ASSUME NEW times \in Seq(Nat), NEW ever \in Seq(Nat), BruteWindow \in Nat, logTime \in Nat,
           Trimmed(times, ever), Rising(ever, logTime)
    PROVE  /\ Trimmed(Tracked(times, BruteWindow), Append(ever, logTime))
           /\ Rising(Append(ever, logTime), logTime)
<1> DEFINE more == Append(ever, logTime)
           s == Append(times, logTime)
           P == {j \in DOMAIN s : s[j] >= logTime - BruteWindow}
<1>1. PICK c \in 0..Len(ever) : KeptSince(times, ever, c)
  BY DEF Trimmed
<1>2. PICK n \in Nat : n = Len(ever) - c
  BY <1>1
<1>3. /\ Len(ever) \in Nat /\ Len(times) = n /\ \A j \in 1..n : times[j] = ever[c + j]
      /\ c \in Nat /\ Len(ever) = n + c
  <2>1. times = [j \in 1..n |-> ever[c + j]]
    BY <1>1, <1>2 DEF KeptSince
  <2>2. Len(ever) \in Nat /\ c \in Nat /\ Len(ever) = n + c
    BY <1>2
  <2>3. DOMAIN times = 1..n /\ \A j \in 1..n : times[j] = ever[c + j]
    BY <2>1
  <2>4. Len(times) = n
    BY <2>3
  <2> QED BY <2>2, <2>3, <2>4
<1>4. /\ more \in Seq(Nat) /\ Len(more) = n + c + 1 /\ more[n + c + 1] = logTime
      /\ \A j \in 1..(n + c) : more[j] = ever[j] /\ ever[j] \in Nat
      /\ \A j \in 1..(n + c + 1) : more[j] \in Nat
  BY <1>3
<1>5. s \in Seq(Nat) /\ DOMAIN s = 1..(n + 1) /\ \A j \in 1..(n + 1) : s[j] = more[c + j]
  <2>1. s \in Seq(Nat) /\ DOMAIN s = 1..(n + 1) /\ s[n + 1] = logTime /\ \A j \in 1..n : s[j] = times[j]
    BY <1>3
  <2> HIDE DEF s, more
  <2>2. ASSUME NEW j \in 1..(n + 1) PROVE s[j] = more[c + j]
    <3>1. CASE j = n + 1
      <4>1. c + j = n + c + 1
        BY <1>3, <3>1
      <4> QED BY <1>4, <2>1, <3>1, <4>1
    <3>2. CASE j \in 1..n
      <4>1. c + j \in 1..(n + c)
        BY <1>3, <3>2
      <4> QED BY <1>3, <1>4, <2>1, <3>2, <4>1
    <3> QED BY <3>1, <3>2
  <2> QED BY <2>1, <2>2
<1>6. \A j : j \in P <=> j \in 1..(n + 1) /\ more[c + j] >= logTime - BruteWindow
  <2> HIDE DEF s, more
  <2> QED BY <1>5
<1>7. Tracked(times, BruteWindow) = Kept(s, P)
  BY DEF Tracked, Those
<1> HIDE DEF more, s, P
<1>8. /\ \A i, j \in 1..(n + c + 1) : i <= j => more[i] <= more[j]
      /\ \A j \in 1..(n + c + 1) : more[j] <= logTime
  <2>1. /\ \A i, j \in 1..(n + c) : i <= j => ever[i] <= ever[j]
        /\ \A j \in 1..(n + c) : ever[j] <= logTime
    BY <1>3 DEF Rising
  <2>2. \A j \in 1..(n + c + 1) : j = n + c + 1 \/ j \in 1..(n + c)
    BY <1>3
  <2>3. ASSUME NEW j \in 1..(n + c + 1) PROVE more[j] <= logTime
    <3>1. CASE j = n + c + 1
      BY <1>4, <3>1
    <3>2. CASE j \in 1..(n + c)
      BY <1>4, <2>1, <3>2
    <3> QED BY <2>2, <3>1, <3>2
  <2>4. ASSUME NEW i \in 1..(n + c + 1), NEW j \in 1..(n + c + 1), i <= j PROVE more[i] <= more[j]
    <3>1. CASE j = n + c + 1
      BY <1>4, <2>3, <3>1
    <3>2. CASE j \in 1..(n + c)
      <4>1. i \in 1..(n + c)
        BY <1>3, <2>4, <3>2
      <4> QED BY <1>4, <2>1, <2>4, <3>2, <4>1
    <3> QED BY <2>2, <3>1, <3>2
  <2> QED BY <2>3, <2>4
<1>9. Rising(more, logTime)
  BY <1>4, <1>8 DEF Rising
<1>10. PICK m \in 1..(n + 1) : m \in P /\ \A j \in P : m <= j
  <2>1. c + (n + 1) = n + c + 1 /\ logTime >= logTime - BruteWindow /\ n + 1 \in 1..(n + 1)
    BY <1>3
  <2>2. n + 1 \in P
    BY <1>4, <1>6, <2>1
  <2>3. P \subseteq 1..(n + 1) /\ P # {} /\ n + 1 \in Nat
    BY <1>6, <2>2
  <2>4. Min(P) \in P /\ Min(P) \in 1..(n + 1) /\ \A i \in P : Min(P) <= i
    BY <2>3, FirstIs
  <2> QED BY <2>4
<1>11. \A j \in 1..(n + 1) : j \in P <=> m <= j
  <2> SUFFICES ASSUME NEW j \in 1..(n + 1), m <= j PROVE j \in P
    BY <1>10
  <2>1. c + m \in 1..(n + c + 1) /\ c + j \in 1..(n + c + 1) /\ c + m <= c + j
    BY <1>3
  <2>2. more[c + m] <= more[c + j] /\ more[c + m] \in Nat /\ more[c + j] \in Nat
    BY <1>4, <1>8, <2>1
  <2>3. more[c + m] >= logTime - BruteWindow
    BY <1>6, <1>10
  <2>4. more[c + j] >= logTime - BruteWindow
    BY <2>2, <2>3
  <2> QED BY <1>6, <2>4
<1>12. P = m..(n + 1)
  <2>1. \A j \in P : j \in 1..(n + 1)
    BY <1>6
  <2>2. \A j : j \in m..(n + 1) <=> j \in 1..(n + 1) /\ m <= j
    BY <1>10
  <2> QED BY <1>11, <2>1, <2>2
<1>13. Tracked(times, BruteWindow) = [j \in 1..(n + 1 - (m - 1)) |-> s[m - 1 + j]]
  <2>1. PICK b \in Nat : b = n + 1
    OBVIOUS
  <2>2. PICK a \in 0..b : a = m - 1
    BY <2>1
  <2>3. P = (a + 1)..b
    BY <1>12, <2>1, <2>2
  <2>4. Kept(s, (a + 1)..b) = [j \in 1..(b - a) |-> s[a + j]]
    BY KeptFrom
  <2> QED BY <1>7, <2>1, <2>2, <2>3, <2>4
<1>14. PICK d \in Nat : d + 1 = c + m
  <2>1. c + m - 1 \in Nat /\ c + m - 1 + 1 = c + m
    BY <1>3
  <2> QED BY <2>1
<1>15. d \in 0..Len(more) /\ Len(more) - d = n + 1 - (m - 1)
  BY <1>3, <1>4, <1>14
<1>16. Tracked(times, BruteWindow) = [j \in 1..(Len(more) - d) |-> more[d + j]]
  <2>1. ASSUME NEW j \in 1..(n + 1 - (m - 1)) PROVE s[m - 1 + j] = more[d + j]
    <3>1. m - 1 + j \in 1..(n + 1) /\ c + (m - 1 + j) = d + j
      BY <1>3, <1>14
    <3> QED BY <1>5, <3>1
  <2> QED BY <1>13, <1>15, <2>1
<1>17. more[Len(more)] = logTime
  BY <1>4
<1>18. ASSUME NEW j \in (d + 1)..Len(more) PROVE more[j] >= logTime - BruteWindow
  <2>1. j - c \in 1..(n + 1) /\ m <= j - c /\ c + (j - c) = j
    BY <1>3, <1>4, <1>14
  <2> QED BY <1>6, <1>11, <2>1
<1>19. ASSUME NEW j \in 1..d PROVE more[j] < logTime - BruteWindow
  <2>1. CASE j > c
    <3>1. j - c \in 1..(n + 1) /\ ~(m <= j - c) /\ c + (j - c) = j
      BY <1>3, <1>14, <2>1
    <3>2. ~(more[j] >= logTime - BruteWindow)
      BY <1>6, <1>11, <3>1
    <3>3. j \in 1..(n + c + 1)
      BY <1>3, <1>14
    <3>4. more[j] \in Nat
      BY <1>4, <3>3
    <3> QED BY <3>2, <3>4
  <2>2. CASE j \in 1..c
    <3>1. j \in 1..(n + c) /\ n + c \in 1..(n + c)
      BY <1>3, <2>2
    <3>2. ever[j] < ever[n + c] - BruteWindow
      BY <1>1, <1>3, <2>2 DEF KeptSince
    <3>3. ever[n + c] <= logTime
      BY <1>3, <3>1 DEF Rising
    <3>4. more[j] = ever[j] /\ ever[j] \in Nat /\ ever[n + c] \in Nat
      BY <1>4, <3>1
    <3> QED BY <3>2, <3>3, <3>4
  <2> QED BY <1>3, <2>1, <2>2
<1>20. KeptSince(Tracked(times, BruteWindow), more, d)
  BY <1>15, <1>16, <1>17, <1>18, <1>19 DEF KeptSince
<1>21. Trimmed(Tracked(times, BruteWindow), more)
  BY <1>15, <1>20 DEF Trimmed
<1> QED BY <1>9, <1>21 DEF more

(* There are as many of what is trimmed as are in the window at the last.  *)
LEMMA TrimmedCounts ==
    ASSUME NEW times \in Seq(Nat), NEW ever \in Seq(Nat), BruteWindow \in Nat, NEW now,
           Trimmed(times, ever), Rising(ever, now)
    PROVE  /\ times # <<>> => times[Len(times)] = ever[Len(ever)] /\ Len(ever) # 0
           /\ Len(ever) # 0 => times # <<>> /\ Len(times) = InWindow(ever, ever[Len(ever)])
<1>1. PICK c \in 0..Len(ever) : KeptSince(times, ever, c)
  BY DEF Trimmed
<1> DEFINE last == ever[Len(ever)]
           W == {j \in DOMAIN ever : ever[j] \in (last - BruteWindow)..last}
<1>0. PICK n \in Nat : n = Len(ever) - c
  <2>1. Len(ever) \in Nat
    OBVIOUS
  <2>2. Len(ever) - c \in Nat
    BY <2>1
  <2> QED BY <2>2
<1>2. /\ n \in Nat /\ Len(ever) \in Nat /\ Len(times) = n /\ \A j \in 1..n : times[j] = ever[c + j]
      /\ c \in Nat /\ Len(ever) = n + c
  <2>1. times = [j \in 1..n |-> ever[c + j]]
    BY <1>0, <1>1 DEF KeptSince
  <2> QED BY <1>0, <2>1
<1>3. times # <<>> <=> n # 0
  BY <1>2
<1>4. ASSUME n # 0 PROVE times[Len(times)] = last /\ Len(ever) # 0
  <2>1. n \in 1..n /\ c + n = Len(ever) /\ Len(ever) # 0
    BY <1>2, <1>4
  <2> QED BY <1>2, <2>1
<1>5. ASSUME Len(ever) # 0 PROVE n # 0 /\ W = (c + 1)..Len(ever)
  <2>1. \A j \in 1..Len(ever) : ever[j] \in Nat /\ ever[j] <= last /\ last \in Nat
    BY <1>2, <1>5 DEF Rising
  <2>2. Len(ever) \in 1..Len(ever)
    BY <1>2, <1>5
  <2>3. \A j \in 1..c : ever[j] < last - BruteWindow
    BY <1>1 DEF KeptSince
  <2>4. \A j \in (c + 1)..Len(ever) : ever[j] >= last - BruteWindow
    BY <1>1 DEF KeptSince
  <2> HIDE DEF last
  <2>5. Len(ever) \notin 1..c
    BY <2>1, <2>2, <2>3 DEF last
  <2>6. n # 0
    BY <1>2, <2>2, <2>5
  <2>7. ASSUME NEW j \in 1..Len(ever) PROVE j \in W <=> j \in (c + 1)..Len(ever)
    <3>1. CASE j \in 1..c
      BY <2>1, <2>3, <3>1, <1>2
    <3>2. CASE j \in (c + 1)..Len(ever)
      BY <2>1, <2>4, <3>2, <1>2
    <3> QED BY <1>2, <3>1, <3>2
  <2>8. W \subseteq 1..Len(ever) /\ (c + 1)..Len(ever) \subseteq 1..Len(ever)
    BY <1>2
  <2> HIDE DEF W
  <2> QED BY <2>6, <2>7, <2>8
<1>6. Cardinality((c + 1)..Len(ever)) = n
  <2>1. c + 1 \in Int /\ Len(ever) \in Int
    BY <1>2
  <2>2. Cardinality((c + 1)..Len(ever)) = IF c + 1 > Len(ever) THEN 0 ELSE Len(ever) - (c + 1) + 1
    BY <2>1, FS_Interval
  <2> QED BY <1>2, <2>2
<1>7. InWindow(ever, last) = Cardinality(W)
  BY DEF InWindow
<1> HIDE DEF W, last
<1> QED BY <1>2, <1>3, <1>4, <1>5, <1>6, <1>7 DEF last

(* The failures in a window are no fewer after one more.                   *)
LEMMA WindowsGrow ==
    ASSUME NEW ever \in Seq(Nat), NEW now \in Nat, NEW t \in Nat, BruteWindow \in Nat
    PROVE  /\ InWindow(ever, t) \in Nat /\ InWindow(Append(ever, now), t) \in Nat
           /\ InWindow(ever, t) <= InWindow(Append(ever, now), t)
<1> DEFINE more == Append(ever, now)
           V == {j \in DOMAIN ever : ever[j] \in (t - BruteWindow)..t}
           W == {j \in DOMAIN more : more[j] \in (t - BruteWindow)..t}
<1>1. /\ Len(ever) \in Nat /\ DOMAIN ever = 1..Len(ever) /\ DOMAIN more = 1..(Len(ever) + 1)
      /\ \A j \in 1..Len(ever) : more[j] = ever[j] /\ Len(ever) + 1 \in Nat
  OBVIOUS
<1>2. V \subseteq W /\ W \subseteq 1..(Len(ever) + 1)
  BY <1>1
<1>3. IsFiniteSet(1..(Len(ever) + 1))
  <2>1. PICK n : n \in Nat /\ n = Len(ever) + 1
    BY <1>1
  <2> QED BY <2>1, FS_Interval
<1>4. InWindow(ever, t) = Cardinality(V) /\ InWindow(more, t) = Cardinality(W)
  BY DEF InWindow
<1> HIDE DEF V, W, more
<1>5. IsFiniteSet(W)
  BY <1>2, <1>3, FS_Subset
<1>6. IsFiniteSet(V) /\ Cardinality(V) <= Cardinality(W)
  BY <1>2, <1>5, FS_Subset
<1> QED BY <1>4, <1>5, <1>6, FS_CardinalityType DEF more

AlarmsOf == [kind : {"brute_force", "privilege", "rate", "off_hours", "anomaly"}, severity : 1..3,
             key : LogKeys, event : STRING, count : Nat]

LogStates == [failures : [LogKeys -> Seq(Nat)], accesses : [LogKeys -> Seq(Nat)],
              everFailed : [LogKeys -> Seq(Nat)], alarms : Seq(AlarmsOf), raised : BOOLEAN]

IsCounted(a, ever, now) ==
    a.kind = "brute_force" => a.count >= BruteThreshold /\ a.count <= InWindow(ever[a.key], now)

(* What holds of the agent's state between any two events of a task.       *)
GoodLog(s) ==
    /\ \A k \in LogKeys : Trimmed(s.failures[k], s.everFailed[k]) /\ Rising(s.everFailed[k], logTime)
    /\ \A n \in 1..Len(s.alarms) : IsCounted(s.alarms[n], s.everFailed, logTime)

Analyzed == {s \in LogStates : GoodLog(s)}

AlarmRaised(s, a) == [s EXCEPT !.alarms = Append(@, a)]

LEMMA OneMoreAlarm ==
    ASSUME NEW s \in Analyzed, NEW a \in AlarmsOf, IsCounted(a, s.everFailed, logTime)
    PROVE  AlarmRaised(s, a) \in Analyzed
<1> DEFINE t == [s EXCEPT !.alarms = Append(@, a)]
           more == Append(s.alarms, a)
<1>1. s \in LogStates /\ GoodLog(s) /\ s.alarms \in Seq(AlarmsOf)
  BY DEF Analyzed, LogStates
<1>2. more \in Seq(AlarmsOf) /\ Len(more) = Len(s.alarms) + 1 /\ Len(s.alarms) \in Nat
      /\ more[Len(s.alarms) + 1] = a /\ \A n \in 1..Len(s.alarms) : more[n] = s.alarms[n]
  BY <1>1
<1> HIDE DEF more
<1>3. t \in LogStates /\ t.alarms = more /\ t.failures = s.failures /\ t.everFailed = s.everFailed
  BY <1>1, <1>2 DEF LogStates, more
<1> HIDE DEF t
<1>4. ASSUME NEW n \in 1..Len(more) PROVE IsCounted(more[n], s.everFailed, logTime)
  <2>1. CASE n = Len(s.alarms) + 1
    BY <1>2, <2>1
  <2>2. CASE n \in 1..Len(s.alarms)
    BY <1>1, <1>2, <2>2 DEF GoodLog
  <2> QED BY <1>2, <2>1, <2>2
<1>5. GoodLog(t)
  BY <1>1, <1>3, <1>4 DEF GoodLog
<1> QED BY <1>3, <1>5 DEF Analyzed, t, AlarmRaised

(* A check that only raises an alarm which is not of guessed passwords.    *)
LEMMA AnotherAlarm ==
    ASSUME NEW s \in Analyzed, NEW e \in LogEvent, NEW count \in Nat, NEW severity \in 1..3,
           NEW kind \in {"privilege", "rate", "off_hours", "anomaly"}
    PROVE  AlarmRaised(s, Alarm(kind, severity, e, count)) \in Analyzed
<1>1. Alarm(kind, severity, e, count) \in AlarmsOf
  BY DEF Alarm, AlarmsOf, LogEvent
<1>2. IsCounted(Alarm(kind, severity, e, count), s.everFailed, logTime)
  BY DEF IsCounted, Alarm
<1> QED BY <1>1, <1>2, OneMoreAlarm

LEMMA BruteForceChecked ==
    ASSUME NEW s \in Analyzed, NEW e \in LogEvent, logTime \in Nat, BruteWindow \in Nat, BruteThreshold \in Nat
    PROVE  CheckBruteForce(s, e) \in Analyzed
<1> DEFINE times == Tracked(s.failures[e.key], BruteWindow)
           ever == Append(s.everFailed[e.key], logTime)
           t == [s EXCEPT !.failures[e.key] = times, !.everFailed[e.key] = ever]
<1>1. /\ s \in LogStates /\ GoodLog(s) /\ e.key \in LogKeys
      /\ s.failures \in [LogKeys -> Seq(Nat)] /\ s.everFailed \in [LogKeys -> Seq(Nat)]
      /\ s.failures[e.key] \in Seq(Nat) /\ s.everFailed[e.key] \in Seq(Nat) /\ s.alarms \in Seq(AlarmsOf)
  BY DEF Analyzed, LogStates, LogEvent
<1>2. Trimmed(s.failures[e.key], s.everFailed[e.key]) /\ Rising(s.everFailed[e.key], logTime)
  BY <1>1 DEF GoodLog
<1>3. times \in Seq(Nat) /\ Len(times) \in Nat /\ ever \in Seq(Nat)
  BY <1>1, TrackedIs
<1>4. Trimmed(times, ever) /\ Rising(ever, logTime)
  BY <1>1, <1>2, TrackedIsTrimmed
<1>5. /\ InWindow(s.everFailed[e.key], logTime) \in Nat /\ InWindow(ever, logTime) \in Nat
      /\ InWindow(s.everFailed[e.key], logTime) <= InWindow(ever, logTime)
  BY <1>1, WindowsGrow
<1>6. ever[Len(ever)] = logTime /\ Len(ever) # 0
  BY <1>1
<1>7. Len(times) = InWindow(ever, logTime)
  BY <1>3, <1>4, <1>6, TrimmedCounts
<1> HIDE DEF times, ever
<1>8. /\ t \in LogStates /\ t.alarms = s.alarms /\ t.raised = s.raised
      /\ t.failures = [s.failures EXCEPT ![e.key] = times]
      /\ t.everFailed = [s.everFailed EXCEPT ![e.key] = ever]
  BY <1>1, <1>3 DEF LogStates
<1>9. \A k \in LogKeys : Trimmed(t.failures[k], t.everFailed[k]) /\ Rising(t.everFailed[k], logTime)
  <2> SUFFICES ASSUME NEW k \in LogKeys
               PROVE  Trimmed(t.failures[k], t.everFailed[k]) /\ Rising(t.everFailed[k], logTime)
    OBVIOUS
  <2> HIDE DEF t
  <2>1. CASE k = e.key
    BY <1>1, <1>4, <1>8, <2>1
  <2>2. CASE k # e.key
    <3>1. t.failures[k] = s.failures[k] /\ t.everFailed[k] = s.everFailed[k]
      BY <1>1, <1>8, <2>2
    <3> QED BY <1>1, <3>1 DEF GoodLog
  <2> QED BY <2>1, <2>2
<1>10. ASSUME NEW n \in 1..Len(s.alarms) PROVE IsCounted(s.alarms[n], t.everFailed, logTime)
  <2>1. s.alarms[n] \in AlarmsOf /\ IsCounted(s.alarms[n], s.everFailed, logTime)
    BY <1>1 DEF GoodLog
  <2>2. s.alarms[n].key \in LogKeys /\ s.alarms[n].count \in Nat
    BY <2>1 DEF AlarmsOf
  <2> HIDE DEF t
  <2>3. CASE s.alarms[n].key = e.key
    <3>1. t.everFailed[s.alarms[n].key] = ever
      BY <1>1, <1>8, <2>3
    <3> QED BY <1>5, <2>1, <2>2, <2>3, <3>1 DEF IsCounted
  <2>4. CASE s.alarms[n].key # e.key
    <3>1. t.everFailed[s.alarms[n].key] = s.everFailed[s.alarms[n].key]
      BY <1>1, <1>8, <2>2, <2>4
    <3> QED BY <2>1, <3>1 DEF IsCounted
  <2> QED BY <2>3, <2>4
<1>11. t \in Analyzed
  <2>1. GoodLog(t)
    BY <1>8, <1>9, <1>10 DEF GoodLog
  <2> QED BY <1>8, <2>1 DEF Analyzed
<1> HIDE DEF t
<1>12. CASE ~e.failure
  BY <1>12 DEF CheckBruteForce
<1>0. e.failure => CheckBruteForce(s, e) =
          [s EXCEPT !.failures[e.key] = times, !.everFailed[e.key] = ever,
                    !.alarms = IF Len(times) >= BruteThreshold
                               THEN Append(@, Alarm("brute_force", 3, e, Len(times))) ELSE @]
  BY DEF CheckBruteForce, times, ever
<1>13. CASE e.failure /\ Len(times) < BruteThreshold
  <2>1. CheckBruteForce(s, e) = t
    <3>1. CheckBruteForce(s, e) =
              [s EXCEPT !.failures[e.key] = times, !.everFailed[e.key] = ever, !.alarms = s.alarms]
      <4>1. ~(Len(times) >= BruteThreshold)
        BY <1>3, <1>13
      <4> QED BY <1>0, <1>13, <4>1, Zenon
    <3> QED BY <1>1, <3>1 DEF LogStates, t
  <2> QED BY <1>11, <2>1
<1>14. CASE e.failure /\ Len(times) >= BruteThreshold
  <2> DEFINE a == Alarm("brute_force", 3, e, Len(times))
  <2>1. CheckBruteForce(s, e) = AlarmRaised(t, a)
    BY <1>0, <1>1, <1>3, <1>14 DEF LogStates, t, AlarmRaised
  <2>2. a \in AlarmsOf
    BY <1>1, <1>3 DEF Alarm, AlarmsOf, LogEvent
  <2>3. t.everFailed[e.key] = ever
    BY <1>1, <1>8
  <2>4. a.key = e.key /\ a.count = Len(times)
    BY DEF Alarm
  <2>5. IsCounted(a, t.everFailed, logTime)
    BY <1>5, <1>7, <1>14, <2>3, <2>4 DEF IsCounted
  <2> HIDE DEF a
  <2> QED BY <1>11, <2>1, <2>2, <2>5, OneMoreAlarm
<1> QED BY <1>3, <1>12, <1>13, <1>14

LEMMA RateLimitChecked ==
    ASSUME NEW s \in Analyzed, NEW e \in LogEvent, logTime \in Nat, RateWindow \in Nat, RateThreshold \in Nat
    PROVE  CheckRateLimit(s, e) \in Analyzed
<1> DEFINE times == Tracked(s.accesses[e.key], RateWindow)
           t == [s EXCEPT !.accesses[e.key] = times]
<1>1. /\ s \in LogStates /\ GoodLog(s) /\ e.key \in LogKeys
      /\ s.accesses \in [LogKeys -> Seq(Nat)] /\ s.accesses[e.key] \in Seq(Nat)
  BY DEF Analyzed, LogStates, LogEvent
<1>2. times \in Seq(Nat) /\ Len(times) \in Nat
  BY <1>1, TrackedIs
<1> HIDE DEF times
<1>3. /\ t \in LogStates /\ t.alarms = s.alarms /\ t.failures = s.failures
      /\ t.everFailed = s.everFailed
  BY <1>1, <1>2 DEF LogStates
<1>4. t \in Analyzed
  <2>1. GoodLog(t)
    <3> HIDE DEF t
    <3> QED BY <1>1, <1>3 DEF GoodLog
  <2> QED BY <1>3, <2>1 DEF Analyzed
<1> HIDE DEF t
<1>5. CASE ~e.hasAddress
  BY <1>5 DEF CheckRateLimit
<1>0. e.hasAddress => CheckRateLimit(s, e) =
          [s EXCEPT !.accesses[e.key] = times,
                    !.alarms = IF Len(times) >= RateThreshold
                               THEN Append(@, Alarm("rate", 2, e, Len(times))) ELSE @]
  BY DEF CheckRateLimit, times
<1>6. CASE e.hasAddress /\ Len(times) < RateThreshold
  <2>1. CheckRateLimit(s, e) = t
    <3>1. CheckRateLimit(s, e) = [s EXCEPT !.accesses[e.key] = times, !.alarms = s.alarms]
      <4>1. ~(Len(times) >= RateThreshold)
        BY <1>2, <1>6
      <4> QED BY <1>0, <1>6, <4>1, Zenon
    <3> QED BY <1>1, <3>1 DEF LogStates, t
  <2> QED BY <1>4, <2>1
<1>7. CASE e.hasAddress /\ Len(times) >= RateThreshold
  <2>1. CheckRateLimit(s, e) = AlarmRaised(t, Alarm("rate", 2, e, Len(times)))
    BY <1>0, <1>1, <1>2, <1>7 DEF LogStates, t, AlarmRaised
  <2> QED BY <1>2, <1>4, <2>1, AnotherAlarm
<1> QED BY <1>2, <1>5, <1>6, <1>7

LEMMA EventsAnalyzed ==
    ASSUME NEW s \in Analyzed, NEW e \in LogEvent, logTime \in Nat, LogAssumption
    PROVE  AnalyzeEvent(s, e) \in Analyzed
<1>0. BruteWindow \in Nat /\ RateWindow \in Nat /\ BruteThreshold \in Nat /\ RateThreshold \in Nat
  BY DEF LogAssumption
<1>1. ASSUME NEW t \in Analyzed PROVE [t EXCEPT !.raised = TRUE] \in Analyzed
  <2> DEFINE u == [t EXCEPT !.raised = TRUE]
  <2>1. /\ u \in LogStates /\ u.alarms = t.alarms /\ u.failures = t.failures
        /\ u.everFailed = t.everFailed /\ GoodLog(t)
    BY DEF Analyzed, LogStates
  <2>2. GoodLog(u)
    <3> HIDE DEF u
    <3> QED BY <2>1 DEF GoodLog
  <2> QED BY <2>1, <2>2 DEF Analyzed
<1> DEFINE others == {"privilege", "rate", "off_hours", "anomaly"}
<1>1a. ASSUME NEW t \in Analyzed, NEW kind \in others, NEW severity \in 1..3
      PROVE  AlarmRaised(t, Alarm(kind, severity, e, 1)) \in Analyzed
  <2>1. PICK one \in Nat : one = 1
    OBVIOUS
  <2>2. AlarmRaised(t, Alarm(kind, severity, e, one)) \in Analyzed
    BY AnotherAlarm
  <2> QED BY <2>1, <2>2
<1>1b. {"privilege", "off_hours", "anomaly"} \subseteq others /\ 1 \in 1..3 /\ 2 \in 1..3
  OBVIOUS
<1> HIDE DEF others
<1>2. ASSUME NEW t \in Analyzed PROVE CheckPrivilegeEscalation(t, e) \in Analyzed
  <2>1. AlarmRaised(t, Alarm("privilege", 2, e, 1)) \in Analyzed
    BY <1>1a, <1>1b
  <2> QED BY <2>1 DEF CheckPrivilegeEscalation, AlarmRaised
<1>3. ASSUME NEW t \in Analyzed PROVE CheckOffHours(t, e) \in Analyzed
  <2>1. AlarmRaised(t, Alarm("off_hours", 1, e, 1)) \in Analyzed
    BY <1>1a, <1>1b
  <2> QED BY <2>1 DEF CheckOffHours, AlarmRaised
<1>4. ASSUME NEW t \in Analyzed PROVE CheckAnomaly(t, e) \in Analyzed
  <2>1. AlarmRaised(t, Alarm("anomaly", 2, e, 1)) \in Analyzed
    BY <1>1a, <1>1b
  <2> QED BY <2>1 DEF CheckAnomaly, AlarmRaised
<1> DEFINE counted == CheckRateLimit(CheckPrivilegeEscalation(CheckBruteForce(s, e), e), e)
<1>5. counted \in Analyzed
  BY <1>0, <1>2, BruteForceChecked, RateLimitChecked
<1>6. AnalyzeEvent(s, e) = IF s.raised \/ e.flaw = "data" THEN [s EXCEPT !.raised = TRUE]
                           ELSE IF e.flaw = "time" THEN [counted EXCEPT !.raised = TRUE]
                           ELSE CheckAnomaly(CheckOffHours(counted, e), e)
  BY DEF AnalyzeEvent
<1> HIDE DEF counted
<1>7. [s EXCEPT !.raised = TRUE] \in Analyzed /\ [counted EXCEPT !.raised = TRUE] \in Analyzed
  BY <1>1, <1>5
<1>8. CheckAnomaly(CheckOffHours(counted, e), e) \in Analyzed
  BY <1>3, <1>4, <1>5
<1> QED BY <1>6, <1>7, <1>8

(* The inductive invariant.                                                *)
LogInv ==
    /\ logTime \in Nat
    /\ failures \in [LogKeys -> Seq(Nat)] /\ accesses \in [LogKeys -> Seq(Nat)]
    /\ everFailed \in [LogKeys -> Seq(Nat)]
    /\ \A k \in LogKeys : Trimmed(failures[k], everFailed[k]) /\ Rising(everFailed[k], logTime)
    /\ \A a \in logAnswer.alarms : /\ IsCounted(a, everFailed, logAnswer.at)
                                   /\ a.severity <= logAnswer.severity /\ a.event \in logAnswer.events

LEMMA InitiallyLogInv == LogInit => LogInv
<1> SUFFICES ASSUME LogInit PROVE LogInv
  OBVIOUS
<1>1. /\ failures \in [LogKeys -> Seq(Nat)] /\ accesses \in [LogKeys -> Seq(Nat)]
      /\ everFailed \in [LogKeys -> Seq(Nat)] /\ logTime = 0
      /\ \A k \in LogKeys : failures[k] = <<>> /\ everFailed[k] = <<>>
  BY DEF LogInit
<1>2. logAnswer.alarms = {}
  BY DEF LogInit, NoAnswer
<1>3. KeptSince(<<>>, <<>>, 0) /\ Len(<<>>) = 0 /\ 0 \in 0..0
  BY DEF KeptSince
<1>4. Trimmed(<<>>, <<>>) /\ Rising(<<>>, 0)
  <2>1. Trimmed(<<>>, <<>>)
    BY <1>3 DEF Trimmed
  <2> QED BY <1>3, <2>1 DEF Rising
<1> QED BY <1>1, <1>2, <1>4 DEF LogInv

(* What a task reports.                                                    *)
LEMMA AggregatedTells ==
    ASSUME NEW s \in Analyzed
    PROVE  \A a \in Aggregated(s).alarms :
               /\ IsCounted(a, s.everFailed, Aggregated(s).at)
               /\ a.severity <= Aggregated(s).severity /\ a.event \in Aggregated(s).events
<1>1. s \in LogStates /\ GoodLog(s) /\ s.alarms \in Seq(AlarmsOf) /\ Len(s.alarms) \in Nat
  BY DEF Analyzed, LogStates
<1>2. CASE s.raised \/ s.alarms = <<>>
  <2>1. Aggregated(s).alarms = {}
    BY <1>2 DEF Aggregated, NoAnswer
  <2> QED BY <2>1
<1>3. CASE ~(s.raised \/ s.alarms = <<>>)
  <2> DEFINE alarms == ToSet(s.alarms)
             severities == {a.severity : a \in alarms}
  <2>1. /\ Aggregated(s).alarms = alarms /\ Aggregated(s).severity = Max(severities)
        /\ Aggregated(s).at = logTime /\ Aggregated(s).events = {a.event : a \in alarms}
    BY <1>3 DEF Aggregated
  <2>2. ASSUME NEW a \in alarms
        PROVE  IsCounted(a, s.everFailed, logTime) /\ a.severity \in 1..3
    <3>1. PICK n \in 1..Len(s.alarms) : a = s.alarms[n]
      BY <1>1 DEF ToSet
    <3>2. a \in AlarmsOf /\ IsCounted(a, s.everFailed, logTime)
      BY <1>1, <3>1 DEF GoodLog
    <3> QED BY <3>2 DEF AlarmsOf
  <2>3. ASSUME NEW a \in alarms PROVE a.severity <= Max(severities)
    <3>1. PICK b \in Nat : b = 3
      OBVIOUS
    <3>2. a.severity \in severities
      OBVIOUS
    <3>3. severities \subseteq 0..b /\ severities # {}
      BY <2>2, <3>1, <3>2
    <3> HIDE DEF severities
    <3> QED BY <3>1, <3>2, <3>3, GreatestUpTo
  <2>4. \A a \in alarms : a.event \in {x.event : x \in alarms}
    OBVIOUS
  <2> HIDE DEF alarms, severities
  <2> QED BY <2>1, <2>2, <2>3, <2>4
<1> QED BY <1>2, <1>3

LEMMA LogInvKept == LogInv /\ [LogNext]_logVars => LogInv'
<1> SUFFICES ASSUME LogInv, [LogNext]_logVars PROVE LogInv'
  OBVIOUS
<1> USE DEF LogInv
<1>1. ASSUME NEW events \in LogTasks, ProcessLogs(events) PROVE LogInv'
  <2> DEFINE base == [failures |-> failures, accesses |-> accesses, everFailed |-> everFailed,
                      alarms |-> <<>>, raised |-> FALSE]
             s == FoldLeft(AnalyzeEvent, base, events)
  <2>1. events \in Seq(LogEvent) /\ Len(events) \in Nat /\ DOMAIN events = 1..Len(events)
        /\ \A k \in 1..Len(events) : events[k] \in LogEvent
    BY LogAssumption DEF LogAssumption
  <2>2. base \in Analyzed
    <3>1. base \in LogStates
      BY DEF LogStates
    <3>2. GoodLog(base)
      BY DEF GoodLog
    <3> QED BY <3>1, <3>2 DEF Analyzed
  <2>3. /\ failures' = s.failures /\ accesses' = s.accesses /\ everFailed' = s.everFailed
        /\ logAnswer' = Aggregated(s) /\ logTime' = logTime
    BY <1>1 DEF ProcessLogs
  <2> HIDE DEF base
  <2>4. s \in Analyzed
    <3>1. \A x \in Analyzed : \A k \in 1..Len(events) : AnalyzeEvent(x, events[k]) \in Analyzed
      BY <2>1, EventsAnalyzed, LogAssumption
    <3> DEFINE T == [k \in 0..Len(events) |-> Analyzed]
    <3>2. /\ base \in T[0] /\ \A k \in 0..Len(events) : T[k] \subseteq Analyzed
          /\ \A k \in 1..Len(events) : \A x \in T[k - 1] : AnalyzeEvent(x, events[k]) \in T[k]
          /\ T[Len(events)] = Analyzed
      BY <2>1, <2>2, <3>1
    <3> HIDE DEF T
    <3>3. s \in T[Len(events)]
      BY <2>1, <3>1, <3>2, AnalysisGoes
    <3> QED BY <3>2, <3>3
  <2> HIDE DEF s
  <2>5. s \in LogStates /\ GoodLog(s)
    BY <2>4 DEF Analyzed
  <2>6. \A k \in LogKeys : Trimmed(failures'[k], everFailed'[k]) /\ Rising(everFailed'[k], logTime')
    BY <2>3, <2>5 DEF GoodLog
  <2>7. \A a \in logAnswer'.alarms :
            /\ IsCounted(a, everFailed', logAnswer'.at)
            /\ a.severity <= logAnswer'.severity /\ a.event \in logAnswer'.events
    BY <2>3, <2>4, AggregatedTells
  <2>8. failures' \in [LogKeys -> Seq(Nat)] /\ accesses' \in [LogKeys -> Seq(Nat)]
        /\ everFailed' \in [LogKeys -> Seq(Nat)] /\ logTime' \in Nat
    BY <2>3, <2>5 DEF LogStates
  <2> QED BY <2>6, <2>7, <2>8
<1>2. ASSUME LogTimePasses PROVE LogInv'
  <2>1. /\ logTime' \in Nat /\ logTime <= logTime' /\ failures' = failures /\ accesses' = accesses
        /\ everFailed' = everFailed /\ logAnswer' = logAnswer
    BY <1>2 DEF LogTimePasses
  <2>2. ASSUME NEW k \in LogKeys PROVE Rising(everFailed[k], logTime')
    <3>1. \A j \in 1..Len(everFailed[k]) : everFailed[k][j] \in Nat
      OBVIOUS
    <3> QED BY <2>1, <3>1 DEF Rising
  <2> QED BY <2>1, <2>2
<1>3. CASE UNCHANGED logVars
  BY <1>3 DEF logVars
<1> QED BY <1>1, <1>2, <1>3 DEF LogNext

LEMMA LogInvTimely == LogInv => AlarmsAreTimely
<1> SUFFICES ASSUME LogInv PROVE AlarmsAreTimely
  OBVIOUS
<1>0. BruteWindow \in Nat
  BY LogAssumption DEF LogAssumption
<1>1. ASSUME NEW k \in LogKeys, failures[k] # <<>>
      PROVE  Len(failures[k]) = FailedWithin(k, failures[k][Len(failures[k])])
  <2>1. failures[k] \in Seq(Nat) /\ everFailed[k] \in Seq(Nat)
        /\ Trimmed(failures[k], everFailed[k]) /\ Rising(everFailed[k], logTime)
    BY DEF LogInv
  <2> QED BY <1>0, <1>1, <2>1, TrimmedCounts DEF FailedWithin
<1>2. ASSUME NEW a \in logAnswer.alarms
      PROVE  /\ a.kind = "brute_force" => /\ a.count >= BruteThreshold
                                          /\ a.count <= FailedWithin(a.key, logAnswer.at)
             /\ a.severity <= logAnswer.severity
             /\ a.event \in logAnswer.events
  BY DEF LogInv, IsCounted, FailedWithin
<1> QED BY <1>1, <1>2 DEF AlarmsAreTimely

(* However tasks fail, are idle or are tried again, the failures that are  *)
(* kept of a source are those in the window, an alarm of guessed passwords *)
(* counts no others, and a report is as severe as its worst alarm.         *)
THEOREM AlarmsCountTheWindow == LogSpec => []AlarmsAreTimely
<1>1. LogInit => LogInv
  BY InitiallyLogInv
<1>2. LogInv /\ [LogNext]_logVars => LogInv'
  BY LogInvKept
<1>3. LogInv => AlarmsAreTimely
  BY LogInvTimely
<1> QED BY <1>1, <1>2, <1>3, PTL DEF LogSpec

-----------------------------------------------------------------------------
(* The mails *)

IndicatorTypes == EmailSigns \cup UrlOddities \cup {"suspicious_attachment"}

(* A mail as the program may hold it, and one that says no more.           *)
IsMail(m) == m \in Mail /\ IsFiniteSet(m.urls)

SaysLess(m, o) ==
    /\ m.signs \subseteq o.signs /\ m.attachments <= o.attachments
    /\ \A t \in UrlOddities :
           Cardinality({u \in m.urls : t \in u.odd}) <= Cardinality({u \in o.urls : t \in u.odd})

(* No more URLs, or with no more oddities, say no more.                    *)
LEMMA OddUrls ==
    ASSUME NEW U, IsFiniteSet(U), NEW V, NEW t, {u \in V : t \in u.odd} \subseteq {u \in U : t \in u.odd}
    PROVE  Cardinality({u \in V : t \in u.odd}) <= Cardinality({u \in U : t \in u.odd})
<1>1. {u \in U : t \in u.odd} \subseteq U
  OBVIOUS
<1>2. IsFiniteSet({u \in U : t \in u.odd})
  BY <1>1, FS_Subset
<1> QED BY <1>2, FS_Subset

LEMMA WeakerSaysLess ==
    ASSUME NEW m, IsMail(m), NEW w \in Weaker(m)
    PROVE  IsMail(w) /\ SaysLess(w, m) /\ w.form = m.form /\ w.readable = m.readable
<1> USE DEF IsMail
<1>0. /\ m.form \in EmailForms /\ m.signs \subseteq EmailSigns /\ m.attachments \in Nat
      /\ m.readable \in BOOLEAN /\ IsFiniteSet(m.urls)
      /\ m.urls \subseteq [name : STRING, odd : SUBSET UrlOddities]
      /\ m = [form |-> m.form, signs |-> m.signs, urls |-> m.urls, attachments |-> m.attachments,
              readable |-> m.readable]
  BY DEF Mail
<1>1. ASSUME NEW s, w = [m EXCEPT !.signs = @ \ {s}]
      PROVE  IsMail(w) /\ SaysLess(w, m) /\ w.form = m.form /\ w.readable = m.readable
  <2>1. w = [form |-> m.form, signs |-> m.signs \ {s}, urls |-> m.urls, attachments |-> m.attachments,
             readable |-> m.readable]
    BY <1>0, <1>1
  <2>2. w \in Mail
    BY <1>0, <2>1 DEF Mail
  <2>3. \A t : Cardinality({u \in w.urls : t \in u.odd}) <= Cardinality({u \in m.urls : t \in u.odd})
    BY <1>0, <2>1, OddUrls
  <2>4. w.signs \subseteq m.signs /\ w.attachments <= m.attachments
    BY <1>0, <2>1
  <2>5. w.form = m.form /\ w.readable = m.readable /\ IsFiniteSet(w.urls)
    BY <1>0, <2>1
  <2> QED BY <2>2, <2>3, <2>4, <2>5 DEF SaysLess
<1>2. ASSUME NEW V, w = [m EXCEPT !.urls = V], IsFiniteSet(V),
             V \subseteq [name : STRING, odd : SUBSET UrlOddities],
             \A t : {u \in V : t \in u.odd} \subseteq {u \in m.urls : t \in u.odd}
      PROVE  IsMail(w) /\ SaysLess(w, m) /\ w.form = m.form /\ w.readable = m.readable
  <2>1. w = [form |-> m.form, signs |-> m.signs, urls |-> V, attachments |-> m.attachments,
             readable |-> m.readable]
    BY <1>0, <1>2
  <2>2. w \in Mail
    BY <1>0, <1>2, <2>1 DEF Mail
  <2>3. \A t : Cardinality({u \in V : t \in u.odd}) <= Cardinality({u \in m.urls : t \in u.odd})
    BY <1>0, <1>2, OddUrls
  <2>4. w.signs \subseteq m.signs /\ w.attachments <= m.attachments /\ w.urls = V
    BY <1>0, <2>1
  <2>5. w.form = m.form /\ w.readable = m.readable /\ IsFiniteSet(w.urls)
    BY <1>2, <2>1
  <2> QED BY <2>2, <2>3, <2>4, <2>5 DEF SaysLess
<1>3. ASSUME NEW n \in 0..(m.attachments - 1), w = [m EXCEPT !.attachments = n]
      PROVE  IsMail(w) /\ SaysLess(w, m) /\ w.form = m.form /\ w.readable = m.readable
  <2>1. w = [form |-> m.form, signs |-> m.signs, urls |-> m.urls, attachments |-> n,
             readable |-> m.readable]
    BY <1>0, <1>3
  <2>2. w \in Mail /\ n <= m.attachments
    BY <1>0, <2>1 DEF Mail
  <2>3. \A t : Cardinality({u \in w.urls : t \in u.odd}) <= Cardinality({u \in m.urls : t \in u.odd})
    BY <1>0, <2>1, OddUrls
  <2>4. w.signs \subseteq m.signs /\ w.attachments <= m.attachments
    BY <1>0, <2>1, <2>2
  <2>5. w.form = m.form /\ w.readable = m.readable /\ IsFiniteSet(w.urls)
    BY <1>0, <2>1
  <2> QED BY <2>2, <2>3, <2>4, <2>5 DEF SaysLess
<1>4. ASSUME NEW u \in m.urls, w = [m EXCEPT !.urls = @ \ {u}]
      PROVE  IsMail(w) /\ SaysLess(w, m) /\ w.form = m.form /\ w.readable = m.readable
  <2>1. PICK V : V = m.urls \ {u}
    OBVIOUS
  <2>2. IsFiniteSet(V)
    BY <1>0, <2>1, FS_Subset
  <2>3. w = [m EXCEPT !.urls = V]
    BY <1>4, <2>1
  <2>4. V \subseteq [name : STRING, odd : SUBSET UrlOddities]
    BY <1>0, <2>1
  <2>5. \A t : {v \in V : t \in v.odd} \subseteq {v \in m.urls : t \in v.odd}
    BY <2>1
  <2> QED BY <1>2, <2>2, <2>3, <2>4, <2>5
<1>5. ASSUME NEW u \in m.urls, w = [m EXCEPT !.urls = (@ \ {u}) \cup {[u EXCEPT !.odd = {}]}]
      PROVE  IsMail(w) /\ SaysLess(w, m) /\ w.form = m.form /\ w.readable = m.readable
  <2>1. PICK v : v = [u EXCEPT !.odd = {}]
    OBVIOUS
  <2>2. v \in [name : STRING, odd : SUBSET UrlOddities] /\ v.odd = {}
    BY <1>0, <2>1
  <2>3. PICK V : V = (m.urls \ {u}) \cup {v}
    OBVIOUS
  <2>4. IsFiniteSet(V)
    <3>1. IsFiniteSet(m.urls \ {u})
      BY <1>0, FS_Subset
    <3> QED BY <2>3, <3>1, FS_AddElement
  <2>5. w = [m EXCEPT !.urls = V]
    BY <1>5, <2>1, <2>3
  <2>6. V \subseteq [name : STRING, odd : SUBSET UrlOddities]
    BY <1>0, <2>2, <2>3
  <2>7. \A t : {x \in V : t \in x.odd} \subseteq {x \in m.urls : t \in x.odd}
    BY <2>2, <2>3
  <2> QED BY <1>2, <2>4, <2>5, <2>6, <2>7
<1> HIDE DEF IsMail
<1> QED BY <1>1, <1>3, <1>4, <1>5 DEF Weaker

(* What is counted, and that less said counts for less.                    *)
LEMMA CountsAre ==
    ASSUME NEW m, IsMail(m)
    PROVE  /\ DOMAIN IndicatorCount(ReadAs(m)) = IndicatorTypes
           /\ \A t \in IndicatorTypes : IndicatorCount(ReadAs(m))[t] \in Nat
           /\ IsMail(ReadAs(m))
<1>0. /\ m.form \in EmailForms /\ m.signs \subseteq EmailSigns /\ m.attachments \in Nat
      /\ m.readable \in BOOLEAN /\ IsFiniteSet(m.urls)
      /\ m.urls \subseteq [name : STRING, odd : SUBSET UrlOddities]
      /\ m = [form |-> m.form, signs |-> m.signs, urls |-> m.urls, attachments |-> m.attachments,
              readable |-> m.readable]
  BY DEF Mail, IsMail
<1>1. IsMail(ReadAs(m))
  <2>1. IsFiniteSet({})
    BY FS_EmptySet
  <2>2. CASE m.form = "object"
    <3>1. ReadAs(m) = [form |-> m.form, signs |-> {}, urls |-> {}, attachments |-> 0, readable |-> m.readable]
      BY <1>0, <2>2 DEF ReadAs
    <3>2. ReadAs(m) \in Mail /\ ReadAs(m).urls = {}
      BY <1>0, <3>1 DEF Mail
    <3> QED BY <2>1, <3>2 DEF IsMail
  <2>3. CASE m.form = "eml"
    <3>1. ReadAs(m) = [form |-> m.form, signs |-> m.signs, urls |-> m.urls, attachments |-> 0,
                       readable |-> m.readable]
      BY <1>0, <2>3 DEF ReadAs
    <3>2. ReadAs(m) \in Mail /\ ReadAs(m).urls = m.urls
      BY <1>0, <3>1 DEF Mail
    <3> QED BY <1>0, <3>2 DEF IsMail
  <2>4. CASE m.form \notin {"object", "eml"}
    BY <2>4 DEF ReadAs
  <2> QED BY <2>2, <2>3, <2>4
<1>2. PICK o : o = ReadAs(m)
  OBVIOUS
<1>3. o.attachments \in Nat /\ IsFiniteSet(o.urls)
  BY <1>1, <1>2 DEF IsMail, Mail
<1>4. \A t : Cardinality({u \in o.urls : t \in u.odd}) \in Nat
  <2>1. \A t : {u \in o.urls : t \in u.odd} \subseteq o.urls
    OBVIOUS
  <2>2. \A t : IsFiniteSet({u \in o.urls : t \in u.odd})
    BY <1>3, <2>1, FS_Subset
  <2> QED BY <2>2, FS_CardinalityType
<1>5. DOMAIN IndicatorCount(o) = IndicatorTypes
  BY DEF IndicatorCount, IndicatorTypes
<1>6. \A t \in IndicatorTypes : IndicatorCount(o)[t] \in Nat
  <2>1. ASSUME NEW t \in EmailSigns PROVE IndicatorCount(o)[t] \in Nat
    <3>1. IndicatorCount(o)[t] = IF t \in o.signs THEN 1 ELSE 0
      BY DEF IndicatorCount, EmailSigns, UrlOddities
    <3> QED BY <3>1
  <2>2. ASSUME NEW t \in UrlOddities PROVE IndicatorCount(o)[t] \in Nat
    <3>1. IndicatorCount(o)[t] = Cardinality({u \in o.urls : t \in u.odd})
      BY DEF IndicatorCount, UrlOddities, EmailSigns
    <3> QED BY <1>4, <3>1
  <2>3. IndicatorCount(o)["suspicious_attachment"] = o.attachments
    BY DEF IndicatorCount, UrlOddities, EmailSigns
  <2> QED BY <1>3, <2>1, <2>2, <2>3 DEF IndicatorTypes
<1> QED BY <1>1, <1>2, <1>5, <1>6

LEMMA LessCountsLess ==
    ASSUME NEW m, IsMail(m), NEW w, IsMail(w), SaysLess(w, m),
           w.form = m.form \/ (m.form = "email" /\ w.form = "eml")
    PROVE  \A t \in IndicatorTypes : IndicatorCount(ReadAs(w))[t] <= IndicatorCount(ReadAs(m))[t]
<1>0. PICK o, p : o = ReadAs(m) /\ p = ReadAs(w)
  OBVIOUS
<1>1. SaysLess(p, o)
  <2>0. m.attachments \in Nat /\ w.attachments \in Nat
    BY DEF IsMail, Mail
  <2>1. CASE m.form = "object"
    <3>1. o.signs = {} /\ p.signs = {} /\ o.urls = {} /\ p.urls = {} /\ o.attachments = 0 /\ p.attachments = 0
      BY <1>0, <2>1 DEF ReadAs, IsMail, Mail
    <3>2. Cardinality({}) = 0 /\ \A t : {u \in {} : t \in u.odd} = {}
      BY FS_EmptySet
    <3> QED BY <3>1, <3>2 DEF SaysLess
  <2>2. CASE m.form # "object"
    <3>1. p.signs = w.signs /\ o.signs = m.signs /\ p.urls = w.urls /\ o.urls = m.urls
      BY <1>0, <2>2 DEF ReadAs, IsMail, Mail
    <3>2. p.attachments <= o.attachments
      BY <1>0, <2>0, <2>2 DEF ReadAs, SaysLess, IsMail, Mail
    <3> QED BY <3>1, <3>2 DEF SaysLess
  <2> QED BY <2>1, <2>2
<1>2. ASSUME NEW t \in EmailSigns PROVE IndicatorCount(p)[t] <= IndicatorCount(o)[t]
  BY <1>1 DEF IndicatorCount, SaysLess
<1>3. ASSUME NEW t \in UrlOddities PROVE IndicatorCount(p)[t] <= IndicatorCount(o)[t]
  <2>1. /\ IndicatorCount(o)[t] = Cardinality({u \in o.urls : t \in u.odd})
        /\ IndicatorCount(p)[t] = Cardinality({u \in p.urls : t \in u.odd})
    BY DEF IndicatorCount, UrlOddities, EmailSigns
  <2> QED BY <1>1, <2>1 DEF SaysLess
<1>4. IndicatorCount(p)["suspicious_attachment"] <= IndicatorCount(o)["suspicious_attachment"]
  <2>1. /\ IndicatorCount(o)["suspicious_attachment"] = o.attachments
        /\ IndicatorCount(p)["suspicious_attachment"] = p.attachments
    BY DEF IndicatorCount, UrlOddities, EmailSigns
  <2> QED BY <1>1, <2>1 DEF SaysLess
<1> QED BY <1>0, <1>2, <1>3, <1>4 DEF IndicatorTypes

-----------------------------------------------------------------------------
(* The class of what is counted *)

Counts == [IndicatorTypes -> Nat]

LEMMA SmallSet ==
    ASSUME NEW a, NEW b, NEW c
    PROVE  IsFiniteSet({a, b, c})
<1>1. IsFiniteSet({a})
  BY FS_Singleton
<1>2. IsFiniteSet({a} \cup {b})
  BY <1>1, FS_AddElement
<1>3. IsFiniteSet(({a} \cup {b}) \cup {c})
  BY <1>2, FS_AddElement
<1>4. ({a} \cup {b}) \cup {c} = {a, b, c}
  OBVIOUS
<1> QED BY <1>3, <1>4

LEMMA TypesAreFinite ==
    /\ IsFiniteSet(IndicatorTypes)
    /\ PhishingTypes \subseteq IndicatorTypes /\ SocialTypes \subseteq IndicatorTypes
    /\ \A T : T \subseteq IndicatorTypes => IsFiniteSet(T)
<1> DEFINE A == {"sender_mismatch", "spf_fail", "dkim_fail"}
           B == {"urgency_language", "credential_request", "financial_indicator"}
           C == {"suspicious_attachment", "suspicious_attachment", "suspicious_attachment"}
<1>1. IsFiniteSet(A) /\ IsFiniteSet(B) /\ IsFiniteSet(C) /\ IsFiniteSet(UrlOddities)
  BY SmallSet DEF UrlOddities
<1>2. EmailSigns = A \cup B /\ {"suspicious_attachment"} = C
  BY DEF EmailSigns
<1> HIDE DEF A, B, C
<1>3. IsFiniteSet((A \cup B) \cup UrlOddities)
  BY <1>1, FS_Union
<1>4. IsFiniteSet(((A \cup B) \cup UrlOddities) \cup C)
  BY <1>1, <1>3, FS_Union
<1>5. IndicatorTypes = ((A \cup B) \cup UrlOddities) \cup C
  BY <1>2 DEF IndicatorTypes
<1>6. IsFiniteSet(IndicatorTypes)
  BY <1>4, <1>5
<1>7. PhishingTypes \subseteq IndicatorTypes /\ SocialTypes \subseteq IndicatorTypes
  BY DEF PhishingTypes, SocialTypes, IndicatorTypes, EmailSigns, UrlOddities
<1> QED BY <1>6, <1>7, FS_Subset

LEMMA HowManyGrows ==
    ASSUME NEW c \in Counts, NEW d \in Counts, \A t \in IndicatorTypes : c[t] <= d[t],
           NEW T, T \subseteq IndicatorTypes
    PROVE  HowMany(c, T) \in Nat /\ HowMany(d, T) \in Nat /\ HowMany(c, T) <= HowMany(d, T)
<1>1. IsFiniteSet(T)
  BY TypesAreFinite
<1>2. /\ \A t \in T : c[t] \in Nat
      /\ \A t \in T : d[t] \in Nat
      /\ \A t \in T : c[t] <= d[t]
  BY DEF Counts
<1>3. SumFunctionOnSet(c, T) \in Nat
  BY <1>1, <1>2, SumsUp
<1>4. SumFunctionOnSet(d, T) \in Nat
  BY <1>1, <1>2, SumsUp
<1>5. SumFunctionOnSet(c, T) <= SumFunctionOnSet(d, T)
  BY <1>1, <1>2, SumsGrow
<1> QED BY <1>3, <1>4, <1>5 DEF HowMany

LEMMA ContributionIs == \A t : Contribution(t) \in 10..30
<1> SUFFICES ASSUME NEW t PROVE Contribution(t) \in 10..30
  OBVIOUS
<1>1. Contribution(t) = 30 \/ Contribution(t) = 25 \/ Contribution(t) = 20
      \/ Contribution(t) = 15 \/ Contribution(t) = 10
  BY DEF Contribution
<1> QED BY <1>1

LEMMA MailRiskGrows ==
    ASSUME NEW c \in Counts, NEW d \in Counts, \A t \in IndicatorTypes : c[t] <= d[t]
    PROVE  EmailRisk(c) \in Nat /\ EmailRisk(d) \in Nat /\ EmailRisk(c) <= EmailRisk(d)
<1> DEFINE f == [t \in IndicatorTypes |-> c[t] * Contribution(t)]
           g == [t \in IndicatorTypes |-> d[t] * Contribution(t)]
           s == SumFunctionOnSet(f, IndicatorTypes)
           u == SumFunctionOnSet(g, IndicatorTypes)
<1>1. DOMAIN c = IndicatorTypes /\ DOMAIN d = IndicatorTypes
      /\ DOMAIN f = IndicatorTypes /\ DOMAIN g = IndicatorTypes
  BY DEF Counts
<1>2. EmailRisk(c) = Min({100, s}) /\ EmailRisk(d) = Min({100, u})
  BY <1>1 DEF EmailRisk, SumFunction
<1>3. ASSUME NEW t \in IndicatorTypes
      PROVE  f[t] \in Nat /\ g[t] \in Nat /\ f[t] <= g[t]
  <2>1. PICK k \in 10..30 : k = Contribution(t)
    BY ContributionIs
  <2>2. PICK x \in Nat, y \in Nat : x = c[t] /\ y = d[t] /\ x <= y
    BY DEF Counts
  <2>3. x * k \in Nat /\ y * k \in Nat
    BY <2>1
  <2>4. x * k <= y * k
    <3>1. (y - x) * k >= 0
      BY <2>2
    <3> QED BY <2>2, <3>1
  <2> QED BY <2>1, <2>2, <2>3, <2>4
<1> HIDE DEF f, g
<1>4. s \in Nat /\ u \in Nat /\ s <= u
  <2>1. IsFiniteSet(IndicatorTypes)
    BY TypesAreFinite
  <2>2. s \in Nat
    BY <1>3, <2>1, SumsUp
  <2>3. u \in Nat
    BY <1>3, <2>1, SumsUp
  <2>4. s <= u
    BY <1>3, <2>1, SumsGrow
  <2> QED BY <2>2, <2>3, <2>4
<1> HIDE DEF s, u
<1>5. \A x \in Nat : Min({100, x}) = IF x <= 100 THEN x ELSE 100
  BY DEF Min
<1>6. PICK x \in Nat, y \in Nat : x = s /\ y = u
  BY <1>4
<1>7. EmailRisk(c) = (IF x <= 100 THEN x ELSE 100) /\ EmailRisk(d) = (IF y <= 100 THEN y ELSE 100)
  BY <1>2, <1>5, <1>6
<1> QED BY <1>4, <1>6, <1>7

LEMMA RiskIsOfSigns ==
    ASSUME NEW c \in Counts
    PROVE  /\ HowMany(c, IndicatorTypes) = 0 => EmailRisk(c) = 0
           /\ HowMany(c, IndicatorTypes) # 0 => EmailRisk(c) >= 10
<1> DEFINE f == [t \in IndicatorTypes |-> c[t] * Contribution(t)]
           s == SumFunctionOnSet(f, IndicatorTypes)
<1>0. IsFiniteSet(IndicatorTypes)
  BY TypesAreFinite
<1>1. DOMAIN c = IndicatorTypes /\ DOMAIN f = IndicatorTypes
  BY DEF Counts
<1>2. EmailRisk(c) = Min({100, s})
  BY <1>1 DEF EmailRisk, SumFunction
<1>3. ASSUME NEW t \in IndicatorTypes
      PROVE  f[t] \in Nat /\ (c[t] = 0 => f[t] = 0) /\ (c[t] # 0 => f[t] >= 10)
  <2>1. PICK k \in 10..30 : k = Contribution(t)
    BY ContributionIs
  <2>2. PICK x \in Nat : x = c[t]
    BY DEF Counts
  <2>3. x * k \in Nat /\ (x = 0 => x * k = 0)
    BY <2>1
  <2>4. x # 0 => x * k >= 10
    <3>1. x # 0 => (x - 1) * k >= 0
      BY <2>2
    <3> QED BY <2>2, <3>1
  <2> QED BY <2>1, <2>2, <2>3, <2>4
<1>4. \A t \in IndicatorTypes : c[t] \in Nat
  BY DEF Counts
<1> HIDE DEF f
<1>5. /\ s \in Nat /\ \A t \in IndicatorTypes : f[t] <= s
      /\ (\A t \in IndicatorTypes : f[t] = 0) => s = 0
  BY <1>0, <1>3, SumsUp
<1>6. /\ HowMany(c, IndicatorTypes) \in Nat /\ \A t \in IndicatorTypes : c[t] <= HowMany(c, IndicatorTypes)
      /\ (\A t \in IndicatorTypes : c[t] = 0) => HowMany(c, IndicatorTypes) = 0
  BY <1>0, <1>4, SumsUp DEF HowMany
<1> HIDE DEF s
<1>7. \A x \in Nat : Min({100, x}) = IF x <= 100 THEN x ELSE 100
  BY DEF Min
<1>8. ASSUME HowMany(c, IndicatorTypes) = 0 PROVE EmailRisk(c) = 0
  <2>1. \A t \in IndicatorTypes : c[t] = 0
    BY <1>4, <1>6, <1>8
  <2>2. s = 0
    BY <1>3, <1>5, <2>1
  <2>3. PICK x \in Nat : x = s /\ x = 0
    BY <2>2
  <2> QED BY <1>2, <1>7, <2>3
<1>9. ASSUME HowMany(c, IndicatorTypes) # 0 PROVE EmailRisk(c) >= 10
  <2>1. PICK t \in IndicatorTypes : c[t] # 0
    BY <1>6, <1>9
  <2>2. PICK x \in Nat : x = s /\ x >= 10
    BY <1>3, <1>5, <2>1
  <2>3. EmailRisk(c) = IF x <= 100 THEN x ELSE 100
    BY <1>2, <1>7, <2>2
  <2> QED BY <2>2, <2>3
<1> QED BY <1>8, <1>9

(* One class, for the counts and the risk that decide it.                  *)
ClassFor(any, worst, phish, social, risk) ==
    IF any = 0 THEN 1
    ELSE IF worst > 0 \/ risk >= 70 THEN 5
    ELSE IF phish >= 2 \/ risk >= 50 THEN 4
    ELSE IF social >= 2 \/ risk >= 30 THEN 3
    ELSE IF risk >= 10 THEN 2
    ELSE 1

WorstTypes == {t \in IndicatorTypes : EmailSeverity(t) = 3}

LEMMA ClassIs ==
    ASSUME NEW c \in Counts, NEW risk
    PROVE  Classify(c, risk) = ClassFor(HowMany(c, IndicatorTypes), HowMany(c, WorstTypes),
                                        HowMany(c, PhishingTypes), HowMany(c, SocialTypes), risk)
<1>1. DOMAIN c = IndicatorTypes
  BY DEF Counts
<1> QED BY <1>1 DEF Classify, ClassFor, WorstTypes

LEMMA ClassForGrows ==
    ASSUME NEW a \in Nat, NEW w \in Nat, NEW p \in Nat, NEW s \in Nat, NEW r \in Nat,
           NEW aa \in Nat, NEW ww \in Nat, NEW pp \in Nat, NEW ss \in Nat, NEW rr \in Nat,
           a <= aa, w <= ww, p <= pp, s <= ss, r <= rr
    PROVE  /\ ClassFor(a, w, p, s, r) \in 1..5 /\ ClassFor(aa, ww, pp, ss, rr) \in 1..5
           /\ ClassFor(a, w, p, s, r) <= ClassFor(aa, ww, pp, ss, rr)
BY DEF ClassFor

LEMMA ClassGrows ==
    ASSUME NEW c \in Counts, NEW d \in Counts, \A t \in IndicatorTypes : c[t] <= d[t]
    PROVE  /\ Classify(c, EmailRisk(c)) \in 1..5 /\ Classify(d, EmailRisk(d)) \in 1..5
           /\ Classify(c, EmailRisk(c)) <= Classify(d, EmailRisk(d))
<1>1. PICK a, aa : a = HowMany(c, IndicatorTypes) /\ aa = HowMany(d, IndicatorTypes)
                   /\ a \in Nat /\ aa \in Nat /\ a <= aa
  BY HowManyGrows
<1>2. WorstTypes \subseteq IndicatorTypes
  BY DEF WorstTypes
<1>3. PICK w, ww : w = HowMany(c, WorstTypes) /\ ww = HowMany(d, WorstTypes)
                   /\ w \in Nat /\ ww \in Nat /\ w <= ww
  BY <1>2, HowManyGrows
<1>4. PICK p, pp : p = HowMany(c, PhishingTypes) /\ pp = HowMany(d, PhishingTypes)
                   /\ p \in Nat /\ pp \in Nat /\ p <= pp
  BY TypesAreFinite, HowManyGrows
<1>5. PICK s, ss : s = HowMany(c, SocialTypes) /\ ss = HowMany(d, SocialTypes)
                   /\ s \in Nat /\ ss \in Nat /\ s <= ss
  BY TypesAreFinite, HowManyGrows
<1>6. PICK r, rr : r = EmailRisk(c) /\ rr = EmailRisk(d) /\ r \in Nat /\ rr \in Nat /\ r <= rr
  BY MailRiskGrows
<1>7. ClassFor(a, w, p, s, r) \in 1..5 /\ ClassFor(aa, ww, pp, ss, rr) \in 1..5
      /\ ClassFor(a, w, p, s, r) <= ClassFor(aa, ww, pp, ss, rr)
  BY <1>1, <1>3, <1>4, <1>5, <1>6, ClassForGrows
<1>8. Classify(c, EmailRisk(c)) = ClassFor(a, w, p, s, r)
  BY <1>1, <1>3, <1>4, <1>5, <1>6, ClassIs
<1>9. Classify(d, EmailRisk(d)) = ClassFor(aa, ww, pp, ss, rr)
  BY <1>1, <1>3, <1>4, <1>5, <1>6, ClassIs
<1> QED BY <1>7, <1>8, <1>9

LEMMA BenignIsNothingFound ==
    ASSUME NEW c \in Counts
    PROVE  Classify(c, EmailRisk(c)) = 1 <=> EmailRisk(c) = 0
<1>1. PICK a, w, p, s, r : /\ a = HowMany(c, IndicatorTypes) /\ w = HowMany(c, WorstTypes)
                           /\ p = HowMany(c, PhishingTypes) /\ s = HowMany(c, SocialTypes)
                           /\ r = EmailRisk(c)
  OBVIOUS
<1>2. Classify(c, EmailRisk(c)) = ClassFor(a, w, p, s, r)
  BY <1>1, ClassIs
<1>3. (a = 0 => r = 0) /\ (a # 0 => r >= 10) /\ r \in Nat
  <2>1. \A t \in IndicatorTypes : c[t] <= c[t]
    BY DEF Counts
  <2>2. EmailRisk(c) \in Nat
    BY <2>1, MailRiskGrows
  <2> QED BY <1>1, <2>2, RiskIsOfSigns
<1> QED BY <1>1, <1>2, <1>3 DEF ClassFor

LEMMA MailSeverityGrows ==
    \A a, b \in 1..5 : a <= b => FindingSeverity(a) <= FindingSeverity(b)
<1> SUFFICES ASSUME NEW a \in 1..5, NEW b \in 1..5, a <= b
             PROVE  FindingSeverity(a) <= FindingSeverity(b)
  OBVIOUS
<1>1. FindingSeverity(1) = 0 /\ FindingSeverity(2) = 1 /\ FindingSeverity(3) = 2
      /\ FindingSeverity(4) = 2 /\ FindingSeverity(5) = 3
  BY DEF FindingSeverity
<1>2. \A n \in 1..5 : n = 1 \/ n = 2 \/ n = 3 \/ n = 4 \/ n = 5
  OBVIOUS
<1>3. CASE b = 1
  BY <1>1, <1>2, <1>3
<1>4. CASE b = 2
  BY <1>1, <1>2, <1>4
<1>5. CASE b = 3
  BY <1>1, <1>2, <1>5
<1>6. CASE b = 4
  BY <1>1, <1>2, <1>6
<1>7. CASE b = 5
  BY <1>1, <1>2, <1>7
<1> QED BY <1>2, <1>3, <1>4, <1>5, <1>6, <1>7

-----------------------------------------------------------------------------
(* What is answered of a mail *)

LEMMA CountsOf ==
    ASSUME NEW m, IsMail(m)
    PROVE  IndicatorCount(ReadAs(m)) \in Counts
<1>1. DOMAIN IndicatorCount(ReadAs(m)) = IndicatorTypes
      /\ \A t \in IndicatorTypes : IndicatorCount(ReadAs(m))[t] \in Nat
  BY CountsAre
<1>2. \A x : IndicatorCount(x) = [t \in DOMAIN IndicatorCount(x) |-> IndicatorCount(x)[t]]
  BY DEF IndicatorCount
<1>3. PICK f : f = IndicatorCount(ReadAs(m))
  OBVIOUS
<1>4. f = [t \in DOMAIN f |-> f[t]]
  BY <1>2, <1>3
<1> QED BY <1>1, <1>3, <1>4 DEF Counts

LEMMA LessIsNoWorse ==
    ASSUME NEW m, IsMail(m), NEW w, IsMail(w), SaysLess(w, m), w.readable = m.readable,
           w.form = m.form \/ (m.form = "email" /\ w.form = "eml"),
           VerifiedAs(m).status = "success"
    PROVE  /\ VerifiedAs(w).class <= VerifiedAs(m).class
           /\ VerifiedAs(w).severity <= VerifiedAs(m).severity
           /\ VerifiedAs(w).risk <= VerifiedAs(m).risk
<1>1. PICK c, d : c = IndicatorCount(ReadAs(w)) /\ d = IndicatorCount(ReadAs(m))
  OBVIOUS
<1>2. c \in Counts /\ d \in Counts
  BY <1>1, CountsOf
<1>3. \A t \in IndicatorTypes : c[t] <= d[t]
  BY <1>1, LessCountsLess
<1>4. PICK r, rr : r = EmailRisk(c) /\ rr = EmailRisk(d) /\ r \in Nat /\ rr \in Nat /\ r <= rr
  BY <1>2, <1>3, MailRiskGrows
<1>5. PICK a \in 1..5, b \in 1..5 : a = Classify(c, r) /\ b = Classify(d, rr) /\ a <= b
  BY <1>2, <1>3, <1>4, ClassGrows
<1>6. FindingSeverity(a) <= FindingSeverity(b)
  BY <1>5, MailSeverityGrows
<1>7. ~(~m.readable /\ m.form # "object")
  BY DEF VerifiedAs
<1>8. ~(~w.readable /\ w.form # "object")
  BY <1>7
<1>9. VerifiedAs(m) = [status |-> "success", class |-> b, severity |-> FindingSeverity(b),
                       risk |-> rr, advice |-> Recommendations(b)]
  BY <1>1, <1>4, <1>5, <1>7 DEF VerifiedAs
<1>10. VerifiedAs(w) = [status |-> "success", class |-> a, severity |-> FindingSeverity(a),
                        risk |-> r, advice |-> Recommendations(a)]
  BY <1>1, <1>4, <1>5, <1>8 DEF VerifiedAs
<1> QED BY <1>4, <1>5, <1>6, <1>9, <1>10

EmailInv == IsMail(mail) /\ emailAnswer = VerifiedAs(mail)

LEMMA EmailInvAccuses == EmailInv => MailsOnlyAccused
<1> SUFFICES ASSUME EmailInv, emailAnswer.status = "success"
             PROVE  /\ \A m \in Weaker(mail) :
                          /\ VerifiedAs(m).class <= emailAnswer.class
                          /\ VerifiedAs(m).severity <= emailAnswer.severity
                          /\ VerifiedAs(m).risk <= emailAnswer.risk
                    /\ emailAnswer.class = 1 <=> emailAnswer.risk = 0
                    /\ mail.form = "email"
                          => VerifiedAs([mail EXCEPT !.form = "eml"]).class <= emailAnswer.class
  BY DEF MailsOnlyAccused
<1>0. IsMail(mail) /\ emailAnswer = VerifiedAs(mail) /\ VerifiedAs(mail).status = "success"
  BY DEF EmailInv
<1>1. ASSUME NEW m \in Weaker(mail)
      PROVE  /\ VerifiedAs(m).class <= emailAnswer.class
             /\ VerifiedAs(m).severity <= emailAnswer.severity
             /\ VerifiedAs(m).risk <= emailAnswer.risk
  <2>1. IsMail(m) /\ SaysLess(m, mail) /\ m.form = mail.form /\ m.readable = mail.readable
    BY <1>0, WeakerSaysLess
  <2> QED BY <1>0, <2>1, LessIsNoWorse
<1>2. emailAnswer.class = 1 <=> emailAnswer.risk = 0
  <2>1. PICK c : c = IndicatorCount(ReadAs(mail))
    OBVIOUS
  <2>2. c \in Counts
    BY <1>0, <2>1, CountsOf
  <2>3. Classify(c, EmailRisk(c)) = 1 <=> EmailRisk(c) = 0
    BY <2>2, BenignIsNothingFound
  <2>4. emailAnswer.class = Classify(c, EmailRisk(c)) /\ emailAnswer.risk = EmailRisk(c)
    BY <1>0, <2>1 DEF VerifiedAs
  <2> QED BY <2>3, <2>4
<1>3. ASSUME mail.form = "email"
      PROVE  VerifiedAs([mail EXCEPT !.form = "eml"]).class <= emailAnswer.class
  <2>1. PICK m : m = [mail EXCEPT !.form = "eml"]
    OBVIOUS
  <2>2. /\ m.signs = mail.signs /\ m.urls = mail.urls /\ m.attachments = mail.attachments
        /\ m.readable = mail.readable /\ m.form = "eml" /\ m \in Mail
    BY <1>0, <2>1 DEF IsMail, Mail, EmailForms
  <2>3. IsMail(m)
    BY <1>0, <2>2 DEF IsMail
  <2>4. SaysLess(m, mail)
    <3>1. mail.attachments \in Nat
      BY <1>0 DEF IsMail, Mail
    <3>2. PICK U : U = mail.urls /\ IsFiniteSet(U)
      BY <1>0 DEF IsMail
    <3>3. ASSUME NEW t
          PROVE  Cardinality({u \in U : t \in u.odd}) <= Cardinality({u \in U : t \in u.odd})
      BY <3>2, OddUrls
    <3> QED BY <2>2, <3>1, <3>2, <3>3 DEF SaysLess
  <2>5. VerifiedAs(m).class <= VerifiedAs(mail).class
    BY <1>0, <1>3, <2>2, <2>3, <2>4, LessIsNoWorse
  <2> QED BY <1>0, <2>1, <2>5
<1> QED BY <1>1, <1>2, <1>3

LEMMA EmailInitial == EmailInit => EmailInv
<1> SUFFICES ASSUME EmailInit PROVE EmailInv
  OBVIOUS
<1>1. IsFiniteSet({})
  BY FS_EmptySet
<1>2. mail = [form |-> "email", signs |-> {}, urls |-> {}, attachments |-> 0, readable |-> TRUE]
      /\ emailAnswer = VerifiedAs(mail)
  BY DEF EmailInit
<1>3. mail \in Mail /\ IsFiniteSet(mail.urls)
  BY <1>1, <1>2 DEF Mail, EmailForms
<1> QED BY <1>2, <1>3 DEF EmailInv, IsMail

LEMMA EmailStep == EmailNext => EmailInv'
<1> SUFFICES ASSUME NEW m \in Mails, VerifyEmail(m) PROVE EmailInv'
  BY DEF EmailNext
<1>1. m \in Mail /\ IsFiniteSet(m.urls)
  BY EmailAssumption
<1>2. mail' = m /\ emailAnswer' = VerifiedAs(m)
  BY DEF VerifyEmail
<1>3. IsMail(mail')
  BY <1>1, <1>2 DEF IsMail
<1>4. emailAnswer' = VerifiedAs(mail')
  BY <1>2
<1>5. VerifiedAs(mail)' = VerifiedAs(mail')
  OBVIOUS
<1> QED BY <1>3, <1>4 DEF EmailInv

THEOREM MailsAreOnlyAccused == EmailSpec => []MailsOnlyAccused
<1>1. EmailInv /\ UNCHANGED emailVars => EmailInv'
  BY DEF EmailInv, emailVars
<1> QED BY <1>1, EmailInitial, EmailStep, EmailInvAccuses, PTL DEF EmailSpec

-----------------------------------------------------------------------------
(* The indicators of a task *)

FirstPlaces(s) == {n \in DOMAIN s : \A m \in 1..(n - 1) : s[m].value # s[n].value}
FirstOnes(s) == {s[p] : p \in FirstPlaces(s)}

Joins(c, s, t) ==
    /\ DOMAIN c = 1..(Len(s) + Len(t))
    /\ \A n \in 1..Len(s) : c[n] = s[n]
    /\ \A n \in 1..Len(t) : c[Len(s) + n] = t[n]

LEMMA JoinedIs ==
    ASSUME NEW s, IsList(s), NEW t, IsList(t)
    PROVE  Joins(s \o t, s, t)
<1> DEFINE S == ToSet(s) \cup ToSet(t)
<1>1. s \in Seq(ToSet(s)) /\ t \in Seq(ToSet(t))
  BY ListIs
<1>2. s \in Seq(S) /\ t \in Seq(S)
  BY <1>1
<1> HIDE DEF S
<1> QED BY <1>2 DEF Joins

LEMMA ListedAre ==
    ASSUME NEW job, IntelTask(job)
    PROVE  /\ IsList(ListedClaims(job)) /\ Len(ListedClaims(job)) = Len(job.listed)
           /\ Len(job.listed) \in Nat /\ DOMAIN job.listed = 1..Len(job.listed)
           /\ \A n \in 1..Len(job.listed) :
                  ListedClaims(job)[n] = Claim(job.listed[n], Kind[job.listed[n]])
<1>1. PICK l : l = job.listed /\ l \in Seq(DOMAIN Kind \cup {NullIndicator})
  BY DEF IntelTask
<1>2. Len(l) \in Nat /\ DOMAIN l = 1..Len(l)
  BY <1>1
<1>3. PICK n \in Nat : n = Len(l)
  BY <1>2
<1>4. PICK c : c = ListedClaims(job)
  OBVIOUS
<1>5. c = [i \in 1..n |-> Claim(l[i], Kind[l[i]])]
  BY <1>1, <1>2, <1>3, <1>4 DEF ListedClaims
<1>6. DOMAIN c = 1..n /\ c = [i \in 1..n |-> c[i]]
  BY <1>5
<1>7. IsList(c) /\ Len(c) = n
  BY <1>6, ListFrom
<1> QED BY <1>1, <1>2, <1>3, <1>4, <1>5, <1>7

(* Those of the fields come in the order in which the fields are read, and *)
(* what is in the first three is taken for an address.                     *)
LEMMA FieldsAre ==
    ASSUME NEW job
    PROVE  /\ IsList(FieldClaims(job))
           /\ \A f \in {"ip", "source_ip", "destination_ip"} \cap DOMAIN job.fields :
                \E k \in 1..Len(FieldClaims(job)) :
                    /\ FieldClaims(job)[k].value = job.fields[f]
                    /\ \A j \in 1..k : FieldClaims(job)[j].type = "ip_address"
<1>1. DOMAIN FieldTypes = 1..12 /\ Len(FieldTypes) = 12
  BY DEF FieldTypes
<1>2. PICK n \in Nat : n = 12
  OBVIOUS
<1> DEFINE P == {p \in 1..n : FieldTypes[p][1] \in DOMAIN job.fields}
           given == Kept(FieldTypes, P)
<1>3. PICK N, o : Enumerates(o, N, P) /\ N <= n /\ given = At(FieldTypes, o)
  <2>1. P \subseteq 1..n
    OBVIOUS
  <2> HIDE DEF P
  <2> QED BY <2>1, KeptIs
<1>4. FieldClaims(job) =
          [k \in DOMAIN given |-> Claim(job.fields[given[k][1]], TakenFor(job.fields[given[k][1]], given[k][2]))]
  BY <1>1, <1>2 DEF FieldClaims, Those
<1> HIDE DEF given, P
<1>5. N \in Nat /\ DOMAIN o = 1..N /\ \A k \in 1..N : o[k] \in P
  BY <1>3 DEF Enumerates
<1>6. DOMAIN given = 1..N /\ \A k \in 1..N : given[k] = FieldTypes[o[k]]
  BY <1>3, <1>5 DEF At
<1>7. PICK c : c = FieldClaims(job)
  OBVIOUS
<1>8. DOMAIN c = 1..N /\ c = [k \in 1..N |-> c[k]]
  BY <1>4, <1>6, <1>7
<1>9. IsList(c) /\ Len(c) = N
  BY <1>5, <1>8, ListFrom
<1>10. \A k \in 1..N : /\ c[k].value = job.fields[FieldTypes[o[k]][1]]
                       /\ c[k].type = TakenFor(job.fields[FieldTypes[o[k]][1]], FieldTypes[o[k]][2])
  BY <1>4, <1>6, <1>7 DEF Claim
<1>11. /\ FieldTypes[1] = <<"ip", "ip_address">> /\ FieldTypes[2] = <<"source_ip", "ip_address">>
       /\ FieldTypes[3] = <<"destination_ip", "ip_address">>
  BY DEF FieldTypes
<1>12. ASSUME NEW f \in {"ip", "source_ip", "destination_ip"}, f \in DOMAIN job.fields
       PROVE  \E k \in 1..N : /\ c[k].value = job.fields[f]
                              /\ \A j \in 1..k : c[j].type = "ip_address"
  <2>1. PICK p \in 1..3 : FieldTypes[p][1] = f
    BY <1>11
  <2>2. p \in P
    BY <1>2, <1>12, <2>1 DEF P
  <2>3. PICK k \in 1..N : o[k] = p
    BY <1>3, <2>2 DEF Enumerates
  <2>4. c[k].value = job.fields[f]
    BY <1>10, <2>1, <2>3
  <2>5. ASSUME NEW j \in 1..k PROVE c[j].type = "ip_address"
    <3>1. j \in 1..N /\ o[j] \in 1..n /\ (j < k => o[j] < o[k]) /\ (j = k => o[j] = o[k])
      BY <1>3, <1>5, <2>3 DEF Enumerates, P
    <3>2. o[j] \in 1..3
      BY <1>2, <2>3, <3>1
    <3>3. FieldTypes[o[j]][2] = "ip_address"
      BY <1>11, <3>2
    <3>4. c[j].type = TakenFor(job.fields[FieldTypes[o[j]][1]], FieldTypes[o[j]][2])
      BY <1>10, <3>1
    <3> QED BY <3>3, <3>4 DEF TakenFor
  <2> QED BY <2>4, <2>5
<1> QED BY <1>7, <1>9, <1>12

AllClaims(job) == ListedClaims(job) \o FieldClaims(job)

LEMMA JoinedAre ==
    ASSUME NEW job, IntelTask(job)
    PROVE  \E N \in Nat : DOMAIN AllClaims(job) = 1..N /\ Len(job.listed) <= N
<1>1. PICK a, b : a = ListedClaims(job) /\ b = FieldClaims(job) /\ IsList(a) /\ IsList(b)
                  /\ Len(a) = Len(job.listed)
  BY ListedAre, FieldsAre
<1>2. Joins(a \o b, a, b)
  BY <1>1, JoinedIs
<1>3. Len(a) \in Nat /\ Len(b) \in Nat
  BY <1>1, ListIs
<1>4. PICK N \in Nat : N = Len(a) + Len(b)
  BY <1>3
<1> QED BY <1>1, <1>2, <1>3, <1>4 DEF AllClaims, Joins

(* Each value has a first claim.                                           *)
LEMMA FirstClaimOf ==
    ASSUME NEW N \in Nat, NEW s, DOMAIN s = 1..N, NEW q \in 1..N
    PROVE  \E p \in FirstPlaces(s) : p <= q /\ s[p].value = s[q].value
<1> DEFINE T == {p \in 1..N : s[p].value = s[q].value}
<1>1. T \subseteq Nat /\ T # {} /\ q \in T
  OBVIOUS
<1>2. PICK p \in T : \A r \in T : p <= r
  BY <1>1, SmallestExists
<1>3. \A m \in 1..(p - 1) : m \notin T /\ m \in 1..N
  BY <1>2
<1>4. \A m \in 1..(p - 1) : s[m].value # s[p].value
  BY <1>2, <1>3
<1> QED BY <1>1, <1>2, <1>4 DEF FirstPlaces

LEMMA FirstClaimsAre ==
    ASSUME NEW N \in Nat, NEW s, DOMAIN s = 1..N
    PROVE  /\ ToSet(FirstClaims(s)) = FirstOnes(s)
           /\ IsFiniteSet(ToSet(FirstClaims(s)))
           /\ Cardinality({c.value : c \in ToSet(FirstClaims(s))}) = Len(FirstClaims(s))
<1>1. PICK P : P = FirstPlaces(s) /\ P \subseteq 1..N
  BY DEF FirstPlaces
<1>2. PICK M, o : Enumerates(o, M, P) /\ M <= N /\ Kept(s, P) = At(s, o)
  <2>1. N \in Nat /\ P \subseteq 1..N
    BY <1>1
  <2> QED BY <2>1, KeptIs
<1>3. PICK c : c = FirstClaims(s) /\ c = At(s, o)
  BY <1>1, <1>2 DEF FirstClaims, FirstPlaces
<1>4. M \in Nat /\ DOMAIN o = 1..M /\ \A k \in 1..M : o[k] \in P
  BY <1>2 DEF Enumerates
<1>5. DOMAIN c = 1..M /\ c = [k \in 1..M |-> c[k]] /\ \A k \in 1..M : c[k] = s[o[k]]
  BY <1>3, <1>4 DEF At
<1>6. Len(c) = M
  BY <1>4, <1>5, ListFrom
<1>7. ToSet(c) = {s[p] : p \in P}
  <2>1. ToSet(c) \subseteq {s[p] : p \in P}
    BY <1>4, <1>5 DEF ToSet
  <2>2. \A p \in P : \E k \in 1..M : o[k] = p
    BY <1>2 DEF Enumerates
  <2>3. \A p \in P : s[p] \in ToSet(c)
    BY <1>5, <2>2 DEF ToSet
  <2> QED BY <2>1, <2>3
<1>8. \A j, k \in 1..M : j # k => c[j].value # c[k].value
  <2>1. ASSUME NEW j \in 1..M, NEW k \in 1..M, j < k PROVE c[j].value # c[k].value
    <3>1. o[j] < o[k] /\ o[j] \in P /\ o[k] \in P
      BY <1>2, <1>4, <2>1 DEF Enumerates
    <3>2. o[j] \in 1..(o[k] - 1)
      BY <1>1, <3>1
    <3> QED BY <1>1, <1>5, <3>1, <3>2 DEF FirstPlaces
  <2> QED BY <2>1
<1> DEFINE V == {d.value : d \in ToSet(c)}
           f == [k \in 1..M |-> c[k].value]
<1>9. IsFiniteSet(1..M) /\ Cardinality(1..M) = M
  BY <1>4, FS_Interval
<1>10. f \in Surjection(1..M, V)
  <2>1. \A k \in 1..M : c[k] \in ToSet(c)
    BY <1>5 DEF ToSet
  <2>2. f \in [1..M -> V]
    BY <2>1
  <2>3. \A v \in V : \E k \in 1..M : f[k] = v
    BY <1>5 DEF ToSet
  <2> HIDE DEF f, V
  <2> QED BY <2>2, <2>3 DEF Surjection
<1>11. f \in Injection(1..M, V)
  <2>1. f \in [1..M -> V]
    BY <1>10 DEF Surjection
  <2>2. \A j, k \in 1..M : f[j] = f[k] => j = k
    BY <1>8
  <2> HIDE DEF f, V
  <2> QED BY <2>1, <2>2 DEF Injection, IsInjective
<1> HIDE DEF f
<1>12. Cardinality(V) = M
  BY <1>9, <1>10, <1>11, FS_Surjection
<1>13. IsFiniteSet(ToSet(c))
  <2> DEFINE g == [k \in 1..M |-> c[k]]
  <2>1. g \in Surjection(1..M, ToSet(c))
    <3>1. g \in [1..M -> ToSet(c)]
      BY <1>5 DEF ToSet
    <3>2. \A v \in ToSet(c) : \E k \in 1..M : g[k] = v
      BY <1>5 DEF ToSet
    <3> HIDE DEF g
    <3> QED BY <3>1, <3>2 DEF Surjection
  <2> HIDE DEF g
  <2> QED BY <1>9, <2>1, FS_Surjection
<1>14. ToSet(c) = FirstOnes(s)
  BY <1>1, <1>7 DEF FirstOnes
<1> QED BY <1>3, <1>6, <1>12, <1>13, <1>14

-----------------------------------------------------------------------------
(* What is known is found *)

FoundFor(job) == Malicious(ExtractIocs(job))

LEMMA ClaimIsFound ==
    ASSUME NEW job, IntelTask(job), NEW p \in FirstPlaces(AllClaims(job)),
           AllClaims(job)[p].value \in DOMAIN Known,
           Known[AllClaims(job)[p].value].type = AllClaims(job)[p].type
    PROVE  AllClaims(job)[p] \in FoundFor(job)
<1>1. PICK N : N \in Nat /\ DOMAIN AllClaims(job) = 1..N
  BY JoinedAre
<1>2. PICK s : s = AllClaims(job)
  OBVIOUS
<1>3. ToSet(FirstClaims(s)) = FirstOnes(s)
  BY <1>1, <1>2, FirstClaimsAre
<1>4. s[p] \in ToSet(FirstClaims(s))
  BY <1>2, <1>3 DEF FirstOnes
<1>5. ExtractIocs(job) = FirstClaims(s)
  BY <1>2 DEF ExtractIocs, AllClaims
<1> QED BY <1>2, <1>4, <1>5 DEF FoundFor, Malicious

LEMMA ListedIsFound ==
    ASSUME NEW job, IntelTask(job), NEW i \in ToSet(job.listed), i \in DOMAIN Known,
           Known[i].type = Kind[i]
    PROVE  \E c \in FoundFor(job) : c.value = i
<1>1. PICK N : N \in Nat /\ DOMAIN AllClaims(job) = 1..N /\ Len(job.listed) <= N
  BY JoinedAre
<1>2. PICK s : s = AllClaims(job)
  OBVIOUS
<1>3. PICK L : L \in Nat /\ L = Len(job.listed) /\ DOMAIN job.listed = 1..L
  BY ListedAre
<1>4. \A n \in 1..L : s[n] = Claim(job.listed[n], Kind[job.listed[n]])
  <2>1. PICK a, b : a = ListedClaims(job) /\ b = FieldClaims(job)
    OBVIOUS
  <2>2. IsList(a) /\ Len(a) = L /\ \A n \in 1..L : a[n] = Claim(job.listed[n], Kind[job.listed[n]])
    BY <1>3, <2>1, ListedAre
  <2>3. IsList(b)
    BY <2>1, FieldsAre
  <2>4. Joins(a \o b, a, b)
    BY <2>2, <2>3, JoinedIs
  <2>5. s = a \o b
    BY <1>2, <2>1 DEF AllClaims
  <2> QED BY <2>2, <2>4, <2>5 DEF Joins
<1>5. PICK n \in 1..L : job.listed[n] = i
  BY <1>3 DEF ToSet
<1>6. n \in 1..N /\ s[n].value = i /\ n \in 1..L
  <2>1. L <= N
    BY <1>1, <1>3
  <2>2. n \in 1..N
    BY <1>1, <1>3, <2>1
  <2>3. s[n] = Claim(i, Kind[i])
    BY <1>4, <1>5
  <2> QED BY <2>2, <2>3 DEF Claim
<1>7. PICK p \in FirstPlaces(s) : p <= n /\ s[p].value = s[n].value
  BY <1>1, <1>2, <1>6, FirstClaimOf
<1>8. p \in 1..L
  BY <1>1, <1>2, <1>3, <1>6, <1>7 DEF FirstPlaces
<1>9. s[p].value = i /\ s[p].type = Kind[i]
  <2>1. s[p] = Claim(job.listed[p], Kind[job.listed[p]])
    BY <1>4, <1>8
  <2>2. s[p].value = job.listed[p] /\ s[p].type = Kind[job.listed[p]]
    BY <2>1 DEF Claim
  <2> QED BY <1>6, <1>7, <2>2
<1>10. s[p] \in FoundFor(job)
  BY <1>2, <1>7, <1>9, ClaimIsFound
<1> QED BY <1>9, <1>10

LEMMA AddressIsFound ==
    ASSUME NEW job, IntelTask(job),
           NEW f \in {"ip", "source_ip", "destination_ip"} \cap DOMAIN job.fields,
           job.fields[f] \in DOMAIN Known, Known[job.fields[f]].type = "ip_address"
    PROVE  \E c \in FoundFor(job) : c.value = job.fields[f]
<1>0. PICK i : i = job.fields[f]
  OBVIOUS
<1>1. PICK L : L \in Nat /\ L = Len(job.listed) /\ DOMAIN job.listed = 1..L
  BY ListedAre
<1>2. PICK a, b : a = ListedClaims(job) /\ b = FieldClaims(job)
  OBVIOUS
<1>3. IsList(a) /\ Len(a) = L /\ \A n \in 1..L : a[n] = Claim(job.listed[n], Kind[job.listed[n]])
  BY <1>1, <1>2, ListedAre
<1>4. IsList(b)
  BY <1>2, FieldsAre
<1>5. PICK M : M \in Nat /\ M = Len(b)
  BY <1>4, ListIs
<1>6. PICK k \in 1..M : /\ b[k].value = i /\ \A j \in 1..k : b[j].type = "ip_address"
  BY <1>0, <1>2, <1>5, FieldsAre
<1>7. PICK s : s = AllClaims(job) /\ s = a \o b
  BY <1>2 DEF AllClaims
<1>8. /\ DOMAIN s = 1..(L + M) /\ \A n \in 1..L : s[n] = a[n]
      /\ \A n \in 1..M : s[L + n] = b[n]
  <2>1. Joins(a \o b, a, b)
    BY <1>3, <1>4, JoinedIs
  <2>2. Len(a) = L /\ Len(b) = M
    BY <1>3, <1>5
  <2> QED BY <1>7, <2>1, <2>2 DEF Joins
<1>9. PICK N, q : N = L + M /\ q = L + k /\ q \in 1..N /\ N \in Nat
  <2>1. k \in 1..M
    BY <1>6
  <2>2. L + k \in 1..(L + M) /\ L + M \in Nat
    BY <1>1, <1>5, <2>1
  <2> QED BY <2>2
<1>10. DOMAIN s = 1..N /\ s[q].value = i
  BY <1>6, <1>8, <1>9
<1>11. PICK p \in FirstPlaces(s) : p <= q /\ s[p].value = s[q].value
  BY <1>9, <1>10, FirstClaimOf
<1>12. p \in 1..N
  BY <1>10, <1>11 DEF FirstPlaces
<1>13. s[p].type = "ip_address"
  <2>1. CASE p \in 1..L
    <3>1. s[p] = Claim(job.listed[p], Kind[job.listed[p]])
      BY <1>3, <1>8, <2>1
    <3>2. job.listed[p] = i
      BY <1>10, <1>11, <3>1 DEF Claim
    <3>3. Kind[i] = "ip_address"
      BY <1>0, EnrichmentAssumption
    <3> QED BY <3>1, <3>2, <3>3 DEF Claim
  <2>2. CASE p \notin 1..L
    <3>1. PICK j \in 1..k : p = L + j
      <4>1. p - L \in 1..k /\ p = L + (p - L)
        BY <1>1, <1>9, <1>11, <1>12, <2>2
      <4> QED BY <4>1
    <3>2. j \in 1..M
      BY <1>5, <1>6
    <3>3. s[p] = b[j] /\ b[j].type = "ip_address"
      BY <1>6, <1>8, <3>1, <3>2
    <3> QED BY <3>3
  <2> QED BY <2>1, <2>2
<1>14. s[p].value = i
  BY <1>10, <1>11
<1>15. s[p] \in FoundFor(job)
  BY <1>0, <1>7, <1>11, <1>13, <1>14, ClaimIsFound
<1> QED BY <1>0, <1>14, <1>15

IsWithout(t, s, n, N) ==
    DOMAIN t = 1..(N - 1) /\ \A k \in 1..(N - 1) : t[k] = s[IF k < n THEN k ELSE k + 1]

(* Without one of the places of a list, whose value is not known, the same *)
(* claims are found.                                                       *)
LEMMA FirstsWithout ==
    ASSUME NEW N \in Nat, NEW s, DOMAIN s = 1..N, NEW n \in 1..N,
           NEW t, IsWithout(t, s, n, N), s[n].value \notin DOMAIN Known
    PROVE  Malicious(FirstClaims(t)) = Malicious(FirstClaims(s))
<1>0. PICK M : M \in Nat /\ M = N - 1
  OBVIOUS
<1> USE DEF IsWithout
<1>1. /\ ToSet(FirstClaims(s)) = FirstOnes(s)
      /\ ToSet(FirstClaims(t)) = FirstOnes(t)
  BY <1>0, FirstClaimsAre
<1>2. ASSUME NEW k \in FirstPlaces(t), t[k].value \in DOMAIN Known
      PROVE  \E p \in FirstPlaces(s) : s[p] = t[k]
  <2>1. k \in 1..(N - 1)
    BY <1>2 DEF FirstPlaces
  <2>2. PICK p \in 1..N : p = IF k < n THEN k ELSE k + 1
    BY <2>1
  <2>3. s[p] = t[k]
    BY <2>1, <2>2
  <2>4. ASSUME NEW m \in 1..(p - 1) PROVE s[m].value # s[p].value
    <3>1. CASE m = n
      BY <1>2, <2>3, <3>1
    <3>2. CASE m # n
      <4>1. PICK j \in 1..(k - 1) : m = IF j < n THEN j ELSE j + 1
        <5>1. m < n => m \in 1..(k - 1)
          BY <2>1, <2>2
        <5>2. m > n => m - 1 \in 1..(k - 1) /\ ~(m - 1 < n)
          BY <2>1, <2>2
        <5> QED BY <3>2, <5>1, <5>2
      <4>2. j \in 1..(N - 1) /\ t[j] = s[m]
        BY <2>1, <4>1
      <4>3. t[j].value # t[k].value
        BY <4>1 DEF FirstPlaces
      <4> QED BY <2>3, <4>2, <4>3
    <3> QED BY <3>1, <3>2
  <2>5. p \in FirstPlaces(s)
    BY <2>2, <2>4 DEF FirstPlaces
  <2> QED BY <2>3, <2>5
<1>3. ASSUME NEW p \in FirstPlaces(s), s[p].value \in DOMAIN Known
      PROVE  \E k \in FirstPlaces(t) : t[k] = s[p]
  <2>1. p \in 1..N /\ p # n
    BY <1>3 DEF FirstPlaces
  <2>2. PICK k \in 1..(N - 1) : p = IF k < n THEN k ELSE k + 1
    <3>1. CASE p < n
      <4>1. p \in 1..(N - 1) /\ p = IF p < n THEN p ELSE p + 1
        BY <2>1, <3>1
      <4> QED BY <4>1
    <3>2. CASE p > n
      <4>1. PICK k \in 1..(N - 1) : k = p - 1
        BY <2>1, <3>2
      <4>2. p = IF k < n THEN k ELSE k + 1
        BY <2>1, <3>2, <4>1
      <4> QED BY <4>1, <4>2
    <3> QED BY <2>1, <3>1, <3>2
  <2>3. t[k] = s[p]
    BY <2>2
  <2>4. ASSUME NEW j \in 1..(k - 1) PROVE t[j].value # t[k].value
    <3>1. PICK m \in 1..(p - 1) : m = IF j < n THEN j ELSE j + 1
      BY <2>2
    <3>2. t[j] = s[m]
      BY <2>2, <3>1
    <3>3. s[m].value # s[p].value
      BY <3>1 DEF FirstPlaces
    <3> QED BY <2>3, <3>2, <3>3
  <2>5. k \in FirstPlaces(t)
    BY <2>2, <2>4 DEF FirstPlaces
  <2> QED BY <2>3, <2>5
<1>4. \A c : c \in Malicious(FirstClaims(t)) => c \in Malicious(FirstClaims(s))
  BY <1>1, <1>2 DEF Malicious, FirstOnes
<1>5. \A c : c \in Malicious(FirstClaims(s)) => c \in Malicious(FirstClaims(t))
  BY <1>1, <1>3 DEF Malicious, FirstOnes
<1>6. Malicious(FirstClaims(t)) \subseteq ToSet(FirstClaims(t))
      /\ Malicious(FirstClaims(s)) \subseteq ToSet(FirstClaims(s))
  BY DEF Malicious
<1> QED BY <1>4, <1>5

LEMMA HarmlessIsNothing ==
    ASSUME NEW job, IntelTask(job), NullIndicator \notin ToSet(job.listed) \cup job.hints,
           NEW n \in DOMAIN job.listed, job.listed[n] \notin DOMAIN Known
    PROVE  /\ Enriched([job EXCEPT !.listed = RemoveAt(@, n)]).severity = Enriched(job).severity
           /\ Enriched([job EXCEPT !.listed = RemoveAt(@, n)]).techniques = Enriched(job).techniques
<1>1. PICK l : l = job.listed /\ l \in Seq(DOMAIN Kind \cup {NullIndicator})
  BY DEF IntelTask
<1>2. PICK L : L \in Nat /\ L = Len(l) /\ DOMAIN l = 1..L
  BY <1>1
<1>3. PICK r : r = RemoveAt(l, n)
  OBVIOUS
<1>4. IsList(l) /\ n \in 1..L
  BY <1>1, <1>2, ListOf
<1>5. /\ IsList(r) /\ Len(r) = L - 1
      /\ \A k \in 1..(L - 1) : r[k] = l[IF k < n THEN k ELSE k + 1]
  BY <1>2, <1>3, <1>4, RemovedIs
<1>6. DOMAIN r = 1..(L - 1)
  BY <1>5, ListIs
<1>7. \A k \in 1..(L - 1) : r[k] \in ToSet(l)
  <2>1. \A k \in 1..(L - 1) : (IF k < n THEN k ELSE k + 1) \in 1..L
    BY <1>2, <1>4
  <2> QED BY <1>2, <1>5, <2>1 DEF ToSet
<1>8. ToSet(r) \subseteq ToSet(l) /\ ToSet(l) \subseteq DOMAIN Kind \cup {NullIndicator}
  BY <1>1, <1>6, <1>7 DEF ToSet
<1>9. r \in Seq(DOMAIN Kind \cup {NullIndicator})
  <2>1. r \in Seq(ToSet(r))
    BY <1>5, ListIs
  <2> QED BY <1>8, <2>1
<1>10. PICK less : less = [job EXCEPT !.listed = RemoveAt(@, n)]
  OBVIOUS
<1>11. less = [listed |-> r, fields |-> job.fields, techniques |-> job.techniques, hints |-> job.hints]
  <2>1. job = [listed |-> job.listed, fields |-> job.fields, techniques |-> job.techniques,
                hints |-> job.hints]
    BY DEF IntelTask
  <2> QED BY <1>1, <1>3, <1>10, <2>1
<1>12. IntelTask(less)
  BY <1>9, <1>11 DEF IntelTask
<1>13. PICK a, b, c : a = ListedClaims(job) /\ b = FieldClaims(job) /\ c = ListedClaims(less)
  OBVIOUS
<1>14. FieldClaims(less) = b
  BY <1>11, <1>13 DEF FieldClaims
<1>15. IsList(a) /\ Len(a) = L /\ \A k \in 1..L : a[k] = Claim(l[k], Kind[l[k]])
  BY <1>1, <1>2, <1>13, ListedAre
<1>16. IsList(c) /\ Len(c) = L - 1 /\ \A k \in 1..(L - 1) : c[k] = Claim(r[k], Kind[r[k]])
  BY <1>5, <1>11, <1>12, <1>13, ListedAre
<1>17. IsList(b)
  BY <1>13, FieldsAre
<1>18. PICK M : M \in Nat /\ M = Len(b)
  BY <1>17, ListIs
<1>19. PICK N : N \in Nat /\ N = L + M
  BY <1>2, <1>18
<1>20. PICK s, t : s = a \o b /\ t = c \o b
  OBVIOUS
<1>21. /\ DOMAIN s = 1..N /\ \A k \in 1..L : s[k] = a[k]
       /\ \A k \in 1..M : s[L + k] = b[k]
  <2>1. Joins(a \o b, a, b)
    BY <1>15, <1>17, JoinedIs
  <2>2. Len(a) = L /\ Len(b) = M
    BY <1>15, <1>18
  <2> QED BY <1>19, <1>20, <2>1, <2>2 DEF Joins
<1>22. PICK K : K \in Nat /\ K = L - 1
  BY <1>2, <1>4
<1>23. /\ DOMAIN t = 1..(K + M) /\ \A k \in 1..K : t[k] = c[k]
       /\ \A k \in 1..M : t[K + k] = b[k]
  <2>1. Joins(c \o b, c, b)
    BY <1>16, <1>17, JoinedIs
  <2>2. Len(c) = K /\ Len(b) = M
    BY <1>16, <1>18, <1>22
  <2> QED BY <1>20, <2>1, <2>2 DEF Joins
<1>24. n \in 1..N /\ DOMAIN t = 1..(N - 1)
  BY <1>2, <1>4, <1>18, <1>19, <1>22, <1>23
<1>25. ASSUME NEW k \in 1..(N - 1) PROVE t[k] = s[IF k < n THEN k ELSE k + 1]
  <2>1. CASE k \in 1..K
    <3>1. t[k] = Claim(l[IF k < n THEN k ELSE k + 1], Kind[l[IF k < n THEN k ELSE k + 1]])
      BY <1>5, <1>16, <1>22, <1>23, <2>1
    <3>2. (IF k < n THEN k ELSE k + 1) \in 1..L
      BY <1>2, <1>22, <2>1
    <3> QED BY <1>15, <1>21, <3>1, <3>2
  <2>2. CASE k \notin 1..K
    <3>1. PICK j \in 1..M : k = K + j
      <4>1. k - K \in 1..M /\ k = K + (k - K)
        BY <1>2, <1>18, <1>19, <1>22, <2>2
      <4> QED BY <4>1
    <3>2. ~(k < n) /\ k + 1 = L + j
      BY <1>2, <1>4, <1>22, <3>1
    <3> QED BY <1>21, <1>23, <3>1, <3>2
  <2> QED BY <2>1, <2>2
<1>26. s[n].value \notin DOMAIN Known
  BY <1>1, <1>4, <1>15, <1>21 DEF Claim
<1>27. Malicious(FirstClaims(t)) = Malicious(FirstClaims(s))
  <2>1. IsWithout(t, s, n, N)
    BY <1>24, <1>25 DEF IsWithout
  <2> QED BY <1>19, <1>21, <1>24, <1>26, <2>1, FirstsWithout
<1>28. ExtractIocs(job) = FirstClaims(s) /\ ExtractIocs(less) = FirstClaims(t)
  BY <1>13, <1>14, <1>20 DEF ExtractIocs
<1>29. NullIndicator \notin ToSet(less.listed) \cup less.hints
  BY <1>1, <1>8, <1>11
<1>30. /\ Enriched(job).severity = ScoreSeverity(Malicious(FirstClaims(s)))
       /\ Enriched(job).techniques = MapTechniques(job, Malicious(FirstClaims(s)))
  BY <1>28 DEF Enriched
<1>31. /\ Enriched(less).severity = ScoreSeverity(Malicious(FirstClaims(t)))
       /\ Enriched(less).techniques = MapTechniques(less, Malicious(FirstClaims(t)))
  BY <1>28, <1>29 DEF Enriched
<1>32. less.techniques = job.techniques /\ less.hints = job.hints
  BY <1>11
<1>33. \A found : MapTechniques(less, found) = MapTechniques(job, found)
  BY <1>32 DEF MapTechniques
<1> QED BY <1>10, <1>27, <1>30, <1>31, <1>33

-----------------------------------------------------------------------------
(* A mean lies between the least and the greatest *)

Confidences(found) == [c \in found |-> Known[c.value].confidence]

Level(sum, count) ==
    CASE sum >= 90 * count -> 4
      [] ~(sum >= 90 * count) /\ sum >= 70 * count -> 3
      [] ~(sum >= 70 * count) /\ sum >= 40 * count -> 2
      [] ~(sum >= 40 * count) /\ sum >= 20 * count -> 1
      [] OTHER -> 0

LEMMA LevelGrows ==
    ASSUME NEW sum \in Nat, NEW other \in Nat, NEW count \in Nat, NEW one \in Nat,
           sum <= other, sum = one * count \/ other = one * count, count # 0
    PROVE  /\ Level(sum, count) \in 0..4 /\ Level(other, count) \in 0..4
           /\ Level(sum, count) <= Level(other, count)
BY DEF Level

LEMMA LevelOfOne ==
    ASSUME NEW count \in Nat \ {0}, NEW one \in Nat
    PROVE  Level(one * count, count) = Level(one, 1)
<1>1. ASSUME NEW p \in {90, 70, 40, 20} PROVE one * count >= p * count <=> one >= p * 1
  <2>1. one >= p => (one - p) * count >= 0
    OBVIOUS
  <2>2. one < p => (p - one) * count > 0
    OBVIOUS
  <2> QED BY <2>1, <2>2
<1> QED BY <1>1 DEF Level

LEMMA MeansAreBetween ==
    ASSUME NEW found, IsFiniteSet(found), found # {},
           \A c \in found : c.value \in DOMAIN Known
    PROVE  /\ ScoreSeverity(found) \in 0..4
           /\ \A c \in found : ScoreSeverity({c}) \in 0..4
           /\ \E c \in found : ScoreSeverity({c}) <= ScoreSeverity(found)
           /\ \E c \in found : ScoreSeverity(found) <= ScoreSeverity({c})
<1> DEFINE f == Confidences(found)
<1>1. \A c \in found : f[c] \in 0..100 /\ f[c] = Known[c.value].confidence
  BY EnrichmentAssumption DEF Confidences, Entry
<1> HIDE DEF f
<1>2. PICK n : n \in Nat /\ n = Cardinality(found) /\ n # 0
  BY FS_CardinalityType, FS_EmptySet
<1>3. PICK sum : sum \in Nat /\ sum = SumFunctionOnSet(f, found)
  BY <1>1, SumsUp
<1>4. ScoreSeverity(found) = Level(sum, n)
  BY <1>2, <1>3 DEF ScoreSeverity, Level, Confidences, f
<1>5. ASSUME NEW c \in found, NEW k, k = f[c] PROVE ScoreSeverity({c}) = Level(k, 1)
  <2>1. PICK one : one = {c} /\ IsFiniteSet(one) /\ Cardinality(one) = 1
    BY FS_Singleton
  <2>2. k \in Nat /\ k = Known[c.value].confidence
    BY <1>1, <1>5
  <2>3. [d \in one |-> Known[d.value].confidence] = [d \in one |-> k]
    BY <2>1, <2>2
  <2>4. SumFunctionOnSet([d \in one |-> k], one) = Cardinality(one) * k
    BY <2>1, <2>2, SumOfOne
  <2>5. SumFunctionOnSet([d \in one |-> Known[d.value].confidence], one) = k
    BY <2>1, <2>2, <2>3, <2>4
  <2>6. ScoreSeverity(one) = Level(k, 1)
    BY <2>1, <2>5 DEF ScoreSeverity, Level
  <2> QED BY <2>1, <2>6
<1> DEFINE S == {f[c] : c \in found}
<1>6. S \subseteq 0..100 /\ S # {}
  BY <1>1
<1>7. PICK lo \in S, hi \in S : \A k \in S : lo <= k /\ k <= hi
  <2>1. Min(S) \in S /\ (\A k \in S : Min(S) <= k) /\ Max(S) \in S /\ (\A k \in S : k <= Max(S))
    <3> HIDE DEF S
    <3>1. 0 \in Int /\ 100 \in Int
      OBVIOUS
    <3> QED BY <1>6, <3>1, LeastIs, GreatestIs
  <2> QED BY <2>1
<1>8. PICK a \in found, b \in found : f[a] = lo /\ f[b] = hi
  BY <1>7
<1>9. lo \in Nat /\ hi \in Nat /\ \A c \in found : lo <= f[c] /\ f[c] <= hi
  BY <1>1, <1>7, <1>8
<1> HIDE DEF S
<1>10. lo * n \in Nat /\ hi * n \in Nat /\ lo * n <= sum /\ sum <= hi * n
  <2> DEFINE g == [c \in found |-> lo]
             h == [c \in found |-> hi]
  <2>1. \A c \in found : /\ g[c] \in Nat /\ h[c] \in Nat /\ f[c] \in Nat
                         /\ g[c] <= f[c] /\ f[c] <= h[c]
    BY <1>1, <1>9
  <2>2. SumFunctionOnSet(g, found) = n * lo /\ SumFunctionOnSet(h, found) = n * hi
    BY <1>2, <1>9, SumOfOne
  <2> HIDE DEF g, h
  <2>3. SumFunctionOnSet(g, found) <= SumFunctionOnSet(f, found)
    BY <2>1, SumsGrow
  <2>4. SumFunctionOnSet(f, found) <= SumFunctionOnSet(h, found)
    BY <2>1, SumsGrow
  <2>5. n * lo = lo * n /\ n * hi = hi * n /\ lo * n \in Nat /\ hi * n \in Nat
    BY <1>2, <1>9
  <2> QED BY <1>3, <2>2, <2>3, <2>4, <2>5
<1>11. PICK u \in Nat, v \in Nat : u = lo * n /\ v = hi * n
  BY <1>10
<1>12. Level(u, n) <= Level(sum, n) /\ Level(sum, n) \in 0..4
  BY <1>2, <1>3, <1>9, <1>10, <1>11, LevelGrows
<1>13. Level(sum, n) <= Level(v, n)
  BY <1>2, <1>3, <1>9, <1>10, <1>11, LevelGrows
<1>14. Level(u, n) = Level(lo, 1) /\ Level(v, n) = Level(hi, 1)
  BY <1>2, <1>9, <1>11, LevelOfOne
<1>15. ScoreSeverity({a}) = Level(lo, 1) /\ ScoreSeverity({b}) = Level(hi, 1)
  BY <1>5, <1>8
<1>16. \A c \in found : ScoreSeverity({c}) \in 0..4
  BY <1>5 DEF Level
<1> QED BY <1>4, <1>12, <1>13, <1>14, <1>15, <1>16

-----------------------------------------------------------------------------
(* What is answered of a task *)

EnrichmentInv == IntelTask(intelTask) /\ intelAnswer = Enriched(intelTask)

LEMMA FoundHas ==
    ASSUME NEW job, IntelTask(job)
    PROVE  /\ IsFiniteSet(FoundFor(job)) /\ \A c \in FoundFor(job) : c.value \in DOMAIN Known
           /\ Cardinality({c.value : c \in ToSet(ExtractIocs(job))}) = Len(ExtractIocs(job))
<1>1. PICK N : N \in Nat /\ DOMAIN AllClaims(job) = 1..N
  BY JoinedAre
<1>2. PICK s : s = AllClaims(job) /\ ExtractIocs(job) = FirstClaims(s)
  BY DEF ExtractIocs, AllClaims
<1>3. /\ IsFiniteSet(ToSet(FirstClaims(s)))
      /\ Cardinality({c.value : c \in ToSet(FirstClaims(s))}) = Len(FirstClaims(s))
  BY <1>1, <1>2, FirstClaimsAre
<1>4. FoundFor(job) \subseteq ToSet(FirstClaims(s)) /\ \A c \in FoundFor(job) : c.value \in DOMAIN Known
  BY <1>2 DEF FoundFor, Malicious
<1>5. IsFiniteSet(FoundFor(job))
  BY <1>3, <1>4, FS_Subset
<1> QED BY <1>2, <1>3, <1>4, <1>5

LEMMA EnrichmentInvHidesNothing == EnrichmentInv => KnownIsNotHidden
<1> SUFFICES ASSUME EnrichmentInv, intelAnswer.status = "success"
             PROVE  KnownIsNotHidden
  BY DEF KnownIsNotHidden
<1>1. PICK job, answer : /\ job = intelTask /\ answer = intelAnswer
                          /\ IntelTask(job) /\ answer = Enriched(job) /\ answer.status = "success"
  BY DEF EnrichmentInv
<1>2. NullIndicator \notin ToSet(job.listed) \cup job.hints
  BY <1>1 DEF Enriched
<1>3. answer = [status |-> "success", claims |-> ExtractIocs(job), found |-> FoundFor(job),
                techniques |-> MapTechniques(job, FoundFor(job)), severity |-> ScoreSeverity(FoundFor(job))]
  BY <1>1, <1>2 DEF Enriched, FoundFor
<1>4. ToSet(job.listed) \cap {i \in DOMAIN Known : Known[i].type = Kind[i]}
          \subseteq {c.value : c \in answer.found}
  <2>1. ASSUME NEW i \in ToSet(job.listed), i \in DOMAIN Known, Known[i].type = Kind[i]
        PROVE  i \in {c.value : c \in answer.found}
    <3>1. \E c \in FoundFor(job) : c.value = i
      BY <1>1, <2>1, ListedIsFound
    <3> QED BY <1>3, <3>1
  <2> QED BY <2>1
<1>5. ASSUME NEW f \in {"ip", "source_ip", "destination_ip"} \cap DOMAIN job.fields,
             job.fields[f] \in DOMAIN Known, Known[job.fields[f]].type = "ip_address"
      PROVE  job.fields[f] \in {c.value : c \in answer.found}
  <2>1. \E c \in FoundFor(job) : c.value = job.fields[f]
    BY <1>1, <1>5, AddressIsFound
  <2> QED BY <1>3, <2>1
<1>6. Cardinality({c.value : c \in ToSet(answer.claims)}) = Len(answer.claims)
  <2>1. answer.claims = ExtractIocs(job)
    BY <1>3
  <2> QED BY <1>1, <2>1, FoundHas
<1>7. ASSUME NEW n \in DOMAIN job.listed, job.listed[n] \notin DOMAIN Known
      PROVE  /\ Enriched([job EXCEPT !.listed = RemoveAt(@, n)]).severity = answer.severity
             /\ Enriched([job EXCEPT !.listed = RemoveAt(@, n)]).techniques = answer.techniques
  BY <1>1, <1>2, <1>7, HarmlessIsNothing
<1>8. ASSUME NEW alone, alone = {ScoreSeverity({c}) : c \in answer.found}, alone # {}
      PROVE  Min(alone) <= answer.severity /\ answer.severity <= Max(alone)
  <2>1. PICK found : found = FoundFor(job) /\ answer.found = found /\ answer.severity = ScoreSeverity(found)
    BY <1>3
  <2>2. found # {} /\ IsFiniteSet(found) /\ \A c \in found : c.value \in DOMAIN Known
    BY <1>1, <1>8, <2>1, FoundHas
  <2>3. PICK sev : sev = ScoreSeverity(found) /\ sev \in 0..4
    BY <2>2, MeansAreBetween
  <2>4. \A c \in found : ScoreSeverity({c}) \in 0..4
    BY <2>2, MeansAreBetween
  <2>5. (\E x \in alone : x <= sev) /\ (\E x \in alone : sev <= x)
    <3>1. (\E c \in found : ScoreSeverity({c}) <= sev) /\ (\E c \in found : sev <= ScoreSeverity({c}))
      BY <2>2, <2>3, MeansAreBetween
    <3> QED BY <1>8, <2>1, <3>1
  <2>6. alone \subseteq 0..4
    BY <1>8, <2>1, <2>4
  <2>7. 0 \in Int /\ 4 \in Int
    OBVIOUS
  <2>8. Min(alone) \in alone /\ \A y \in alone : Min(alone) <= y
    BY <1>8, <2>6, <2>7, LeastIs
  <2>9. Max(alone) \in alone /\ \A y \in alone : y <= Max(alone)
    BY <1>8, <2>6, <2>7, GreatestIs
  <2>10. Min(alone) \in 0..4 /\ Max(alone) \in 0..4
    BY <2>6, <2>8, <2>9
  <2>11. PICK lo, hi : lo = Min(alone) /\ hi = Max(alone) /\ lo \in 0..4 /\ hi \in 0..4
    BY <2>10
  <2>12. lo <= sev
    <3>1. PICK x : x \in alone /\ x \in 0..4 /\ x <= sev
      BY <2>5, <2>6
    <3>2. lo <= x
      BY <2>8, <2>11, <3>1
    <3> QED BY <2>3, <2>11, <3>1, <3>2
  <2>13. sev <= hi
    <3>1. PICK x : x \in alone /\ x \in 0..4 /\ sev <= x
      BY <2>5, <2>6
    <3>2. x <= hi
      BY <2>9, <2>11, <3>1
    <3> QED BY <2>3, <2>11, <3>1, <3>2
  <2> QED BY <2>1, <2>3, <2>11, <2>12, <2>13
<1>9. {job.fields[f] : f \in {"ip", "source_ip", "destination_ip"} \cap DOMAIN job.fields}
          \cap {i \in DOMAIN Known : Known[i].type = "ip_address"} \subseteq {c.value : c \in answer.found}
  BY <1>5
<1> QED BY <1>1, <1>4, <1>6, <1>7, <1>8, <1>9 DEF KnownIsNotHidden

LEMMA EnrichmentInitial == EnrichmentInit => EnrichmentInv
<1> SUFFICES ASSUME EnrichmentInit PROVE EnrichmentInv
  OBVIOUS
<1>1. intelTask = [listed |-> <<>>, fields |-> <<>>, techniques |-> {}, hints |-> {}]
      /\ intelAnswer = Enriched(intelTask)
  BY DEF EnrichmentInit
<1>2. IntelTask(intelTask)
  BY <1>1 DEF IntelTask
<1> QED BY <1>1, <1>2 DEF EnrichmentInv

LEMMA EnrichmentStep == EnrichmentNext => EnrichmentInv'
<1> SUFFICES ASSUME NEW job \in IntelTasks, EnrichTask(job) PROVE EnrichmentInv'
  BY DEF EnrichmentNext
<1>1. IntelTask(job)
  BY TasksAssumption
<1>2. intelTask' = job /\ intelAnswer' = Enriched(job)
  BY DEF EnrichTask
<1> QED BY <1>1, <1>2 DEF EnrichmentInv

-----------------------------------------------------------------------------
(* The events of one source, target or user *)

Parsed(e) == e.at \in Int /\ e.aware \in BOOLEAN /\ e.stage \in 0..StageCount

ParsedList(s) == IsList(s) /\ \A n \in 1..Len(s) : Parsed(s[n])

Since(s, places, c) == {p \in places : s[p].at >= c}

ElementsAt(s, places) == {s[p] : p \in places}

(* What a selection of a list has is what the list has at those places.    *)
Selects(r, o, N, s, P) ==
    /\ Enumerates(o, N, P) /\ N \in Nat
    /\ DOMAIN r = 1..N /\ IsList(r) /\ Len(r) = N
    /\ \A k \in 1..N : o[k] \in P /\ r[k] = s[o[k]]
    /\ ToSet(r) = ElementsAt(s, P)

LEMMA KeptElements ==
    ASSUME NEW n \in Nat, NEW s, NEW P, P \subseteq 1..n
    PROVE  \E N, o : Selects(Kept(s, P), o, N, s, P) /\ N <= n
<1>1. PICK N, o : Enumerates(o, N, P) /\ N <= n /\ Kept(s, P) = At(s, o)
  BY KeptIs
<1>2. N \in Nat /\ DOMAIN o = 1..N /\ (\A k \in 1..N : o[k] \in P) /\ \A p \in P : \E k \in 1..N : o[k] = p
  BY <1>1 DEF Enumerates
<1>3. PICK r : r = Kept(s, P)
  OBVIOUS
<1>4. DOMAIN r = 1..N /\ r = [k \in 1..N |-> r[k]] /\ \A k \in 1..N : r[k] = s[o[k]]
  BY <1>1, <1>2, <1>3 DEF At
<1>5. IsList(r) /\ Len(r) = N
  BY <1>2, <1>4, ListFrom
<1>6. ToSet(r) = ElementsAt(s, P)
  <2>1. ToSet(r) = {r[k] : k \in 1..N}
    BY <1>4 DEF ToSet
  <2>2. ASSUME NEW x \in ToSet(r) PROVE x \in ElementsAt(s, P)
    BY <1>2, <1>4, <2>1, <2>2 DEF ElementsAt
  <2>3. ASSUME NEW x \in ElementsAt(s, P) PROVE x \in ToSet(r)
    <3>1. PICK p \in P : x = s[p]
      BY <2>3 DEF ElementsAt
    <3>2. PICK k \in 1..N : o[k] = p
      BY <1>2
    <3> QED BY <1>4, <2>1, <3>1, <3>2
  <2> QED BY <2>2, <2>3
<1>7. Selects(r, o, N, s, P)
  BY <1>1, <1>2, <1>4, <1>5, <1>6 DEF Selects
<1> QED BY <1>1, <1>3, <1>7

(* Those of a list that are of a set of places and not too old.            *)
SelectsTwice(r, q, s, P, c) ==
    /\ Len(r) \in Nat /\ Len(q) \in Nat /\ Len(q) <= Len(r) /\ IsList(r) /\ IsList(q)
    /\ Cardinality(Since(s, P, c)) <= Len(q)
    /\ ToSet(r) = ElementsAt(s, P)
    /\ ToSet(q) = ElementsAt(s, Since(s, P, c))

LEMMA KeptTwice ==
    ASSUME NEW n \in Nat, NEW s, NEW P, P \subseteq 1..n, NEW c \in Int,
           NEW r, r = Kept(s, P), NEW q, q = Kept(r, Since(r, DOMAIN r, c))
    PROVE  SelectsTwice(r, q, s, P, c)
<1>0. PICK N, o : Selects(r, o, N, s, P) /\ N <= n
  BY KeptElements
<1>1. /\ Enumerates(o, N, P) /\ N \in Nat
      /\ DOMAIN r = 1..N /\ IsList(r) /\ Len(r) = N
      /\ \A k \in 1..N : o[k] \in P /\ r[k] = s[o[k]]
      /\ ToSet(r) = ElementsAt(s, P)
  BY <1>0 DEF Selects
<1>2. PICK Q : Q = Since(r, DOMAIN r, c)
  OBVIOUS
<1>3. N \in Nat /\ Q \subseteq 1..N /\ q = Kept(r, Q)
  BY <1>1, <1>2 DEF Since
<1>a. PICK M, u : Selects(q, u, M, r, Q) /\ M <= N
  BY <1>3, KeptElements
<1>4. /\ Enumerates(u, M, Q) /\ M \in Nat /\ M <= N
      /\ DOMAIN q = 1..M /\ IsList(q) /\ Len(q) = M
      /\ \A k \in 1..M : u[k] \in Q /\ q[k] = r[u[k]]
  BY <1>a DEF Selects
<1>5. PICK R : R = Since(s, P, c)
  OBVIOUS
<1>6. \A k \in 1..M : u[k] \in 1..N /\ o[u[k]] \in R /\ q[k] = s[o[u[k]]]
  BY <1>1, <1>2, <1>3, <1>4, <1>5 DEF Since
<1>7. ASSUME NEW p \in R PROVE \E k \in 1..M : o[u[k]] = p
  <2>1. p \in P /\ s[p].at >= c
    BY <1>5, <1>7 DEF Since
  <2>2. PICK j \in 1..N : o[j] = p
    BY <1>1, <2>1 DEF Enumerates
  <2>3. j \in Q
    BY <1>1, <1>2, <2>1, <2>2 DEF Since
  <2>4. PICK k \in 1..M : u[k] = j
    BY <1>4, <2>3 DEF Enumerates
  <2> QED BY <2>2, <2>4
<1>8. ToSet(q) = ElementsAt(s, R)
  <2>1. ToSet(q) = {q[k] : k \in 1..M}
    BY <1>4 DEF ToSet
  <2>2. ASSUME NEW x \in ToSet(q) PROVE x \in ElementsAt(s, R)
    BY <1>6, <2>1, <2>2 DEF ElementsAt
  <2>3. ASSUME NEW x \in ElementsAt(s, R) PROVE x \in ToSet(q)
    <3>1. PICK p \in R : x = s[p]
      BY <2>3 DEF ElementsAt
    <3>2. PICK k \in 1..M : o[u[k]] = p
      BY <1>7
    <3> QED BY <1>6, <2>1, <3>1, <3>2
  <2> QED BY <2>2, <2>3
<1>9. Cardinality(R) <= M
  <2>1. PICK v : v = [k \in 1..M |-> o[u[k]]]
    OBVIOUS
  <2>2. v \in [1..M -> R]
    BY <1>6, <2>1
  <2>3. \A p \in R : \E k \in 1..M : v[k] = p
    BY <1>7, <2>1
  <2>4. v \in Surjection(1..M, R)
    BY <2>2, <2>3 DEF Surjection
  <2>5. IsFiniteSet(1..M) /\ Cardinality(1..M) = M
    BY <1>4, FS_Interval
  <2> QED BY <2>4, <2>5, FS_Surjection
<1> QED BY <1>1, <1>4, <1>5, <1>8, <1>9 DEF SelectsTwice

CountedFor(all, kind, key, t) ==
    {n \in DOMAIN all : all[n][kind] = key /\ all[n].at >= t - CorWindow}

(* What is counted is all that there is and is recent.                     *)
LEMMA RelatedAre ==
    ASSUME NEW all, ParsedList(all), NEW kind, NEW key, corTime \in Nat,
           NEW r, r = Related(all, kind, key), NEW q, q = Recent(r)
    PROVE  /\ Len(r) \in Nat /\ Len(q) \in Nat /\ Len(q) <= Len(r) /\ IsList(q)
           /\ Cardinality(CountedFor(all, kind, key, corTime)) \in Nat
           /\ Cardinality(CountedFor(all, kind, key, corTime)) <= Len(q)
           /\ \A e \in ToSet(r) : e \in ToSet(all)
           /\ \A e \in ToSet(q) : e[kind] = key
<1>1. PICK n : n \in Nat /\ n = Len(all) /\ DOMAIN all = 1..n
  BY ListIs DEF ParsedList, Parsed
<1>2. PICK c : c \in Int /\ c = corTime - CorWindow
  BY CorrelationAssumption
<1>3. PICK P : P = {p \in 1..n : all[p][kind] = key}
  OBVIOUS
<1>4. r = Kept(all, P)
  BY <1>1, <1>3 DEF Related, Those
<1>5. q = Kept(r, Since(r, DOMAIN r, c))
  BY <1>2 DEF Recent, Those, Since
<1>6. /\ Len(r) \in Nat /\ Len(q) \in Nat /\ Len(q) <= Len(r) /\ IsList(q)
      /\ Cardinality(Since(all, P, c)) <= Len(q)
      /\ ToSet(r) = ElementsAt(all, P)
      /\ ToSet(q) = ElementsAt(all, Since(all, P, c))
  <2>1. P \subseteq 1..n
    BY <1>3
  <2>2. SelectsTwice(r, q, all, P, c)
    BY <1>1, <1>2, <1>4, <1>5, <2>1, KeptTwice
  <2> QED BY <2>2 DEF SelectsTwice
<1>7. CountedFor(all, kind, key, corTime) = Since(all, P, c)
  BY <1>1, <1>2, <1>3 DEF CountedFor, Since
<1>8. ASSUME NEW e \in ToSet(r) PROVE e \in ToSet(all)
  <2>1. PICK p \in P : e = all[p]
    BY <1>6, <1>8 DEF ElementsAt
  <2> QED BY <1>1, <1>3, <2>1 DEF ToSet
<1>9. ASSUME NEW e \in ToSet(q) PROVE e[kind] = key
  <2>1. PICK p \in P : e = all[p]
    BY <1>6, <1>9 DEF ElementsAt, Since
  <2> QED BY <1>3, <2>1
<1>10. Cardinality(Since(all, P, c)) \in Nat
  <2>1. Since(all, P, c) \subseteq 1..n
    BY <1>3 DEF Since
  <2>2. IsFiniteSet(1..n)
    BY <1>1, FS_Interval
  <2> QED BY <2>1, <2>2, FS_Subset, FS_CardinalityType
<1> QED BY <1>6, <1>7, <1>8, <1>9, <1>10

(* What comes of a kind of key: nothing if no key has enough events, an    *)
(* error if one without a zone is among them, or recent events of one key. *)
CorrelationOf(R, all, events, kind) ==
    \/ /\ R = <<>>
       /\ \A e \in ToSet(events) :
             e[kind] # NoKey => ~(Cardinality(CountedFor(all, kind, e[kind], corTime)) >= Threshold(kind))
    \/ R = <<Found("raises", 0, <<>>)>> /\ \E e \in ToSet(all) : ~e.aware
    \/ \E severity, q : /\ R = <<Found(kind, severity, q)>> /\ IsList(q) /\ Len(q) > 0
                        /\ \E key : \A e \in ToSet(q) : e[kind] = key

Decides(all, kind, e) ==
    /\ e[kind] # NoKey
    /\ Len(Related(all, kind, e[kind])) >= Threshold(kind)
    /\ \/ Incomparable(Related(all, kind, e[kind]))
       \/ Len(Recent(Related(all, kind, e[kind]))) >= Threshold(kind)

LEMMA CorrelateIs ==
    ASSUME corTime \in Nat, NEW all, ParsedList(all), NEW events, IsList(events),
           NEW kind \in {"source", "target", "user"}
    PROVE  CorrelationOf(Correlate(all, events, kind), all, events, kind)
<1>1. PICK n : n \in Nat /\ n = Len(events) /\ DOMAIN events = 1..n
  BY ListIs
<1>2. PICK I : I = {i \in 1..n : Decides(all, kind, events[i])}
  OBVIOUS
<1>3. Threshold(kind) \in Nat /\ Threshold(kind) > 0
  BY CorrelationAssumption DEF Threshold
<1>4. CASE I = {}
  <2>1. Correlate(all, events, kind) = <<>>
    BY <1>1, <1>2, <1>4 DEF Correlate, SelectInSeq, Decides
  <2>2. ASSUME NEW e \in ToSet(events), e[kind] # NoKey,
               Cardinality(CountedFor(all, kind, e[kind], corTime)) >= Threshold(kind)
        PROVE  FALSE
    <3>1. PICK i \in 1..n : e = events[i]
      BY <1>1 DEF ToSet
    <3>2. PICK r, q : r = Related(all, kind, e[kind]) /\ q = Recent(r)
      OBVIOUS
    <3>3. Len(r) \in Nat /\ Len(q) \in Nat /\ Len(q) <= Len(r)
          /\ Cardinality(CountedFor(all, kind, e[kind], corTime)) \in Nat
          /\ Cardinality(CountedFor(all, kind, e[kind], corTime)) <= Len(q)
      BY <3>2, RelatedAre
    <3>4. Len(q) >= Threshold(kind) /\ Len(r) >= Threshold(kind)
      BY <1>3, <2>2, <3>3
    <3>5. Decides(all, kind, e)
      BY <2>2, <3>2, <3>4 DEF Decides
    <3> QED BY <1>2, <1>4, <3>1, <3>5
  <2> QED BY <2>1, <2>2 DEF CorrelationOf
<1>5. CASE I # {}
  <2>1. PICK i : i \in 1..n /\ i = Min(I) /\ Decides(all, kind, events[i])
    BY <1>1, <1>2, <1>5, FirstIs
  <2>2. PICK r, q : r = Related(all, kind, events[i][kind]) /\ q = Recent(r)
    OBVIOUS
  <2>3. Correlate(all, events, kind)
          = IF Incomparable(r) THEN <<Found("raises", 0, <<>>)>>
            ELSE <<Found(kind, CorrelationSeverity(q), q)>>
    <3>1. I = {m \in 1..Len(events) :
                  /\ events[m][kind] # NoKey
                  /\ Len(Related(all, kind, events[m][kind])) >= Threshold(kind)
                  /\ \/ Incomparable(Related(all, kind, events[m][kind]))
                     \/ Len(Recent(Related(all, kind, events[m][kind]))) >= Threshold(kind)}
      BY <1>1, <1>2 DEF Decides
    <3>2. i # 0 /\ (IF I # {} THEN Min(I) ELSE 0) = i
      BY <1>5, <2>1
    <3> QED BY <2>2, <3>1, <3>2 DEF Correlate, SelectInSeq
  <2>4. /\ Len(r) \in Nat /\ Len(q) \in Nat /\ IsList(q)
        /\ \A e \in ToSet(r) : e \in ToSet(all)
        /\ \A e \in ToSet(q) : e[kind] = events[i][kind]
    BY <2>2, RelatedAre
  <2>5. CASE Incomparable(r)
    BY <2>3, <2>4, <2>5 DEF Incomparable, CorrelationOf
  <2>6. CASE ~Incomparable(r)
    <3>1. Len(q) > 0
      BY <1>3, <2>1, <2>2, <2>4, <2>6 DEF Decides
    <3> QED BY <2>3, <2>4, <2>6, <3>1 DEF CorrelationOf
  <2> QED BY <2>5, <2>6
<1> QED BY <1>4, <1>5

-----------------------------------------------------------------------------
(* The stages of an attack *)

(* What each event keeps of the chain so far, the whole fold keeps.        *)
LEMMA ChainGoes ==
    ASSUME NEW n \in Nat, NEW S, NEW T, NEW base \in T[0], NEW seq, DOMAIN seq = 1..n,
           \A x \in S : \A k \in 1..n : Progress(x, seq[k]) \in S,
           \A k \in 0..n : T[k] \subseteq S,
           \A k \in 1..n : \A x \in T[k - 1] : Progress(x, seq[k]) \in T[k]
    PROVE  FoldLeft(Progress, base, seq) \in T[n]
<1> DEFINE X == S \X {seq[k] : k \in 1..n}
           F == [p \in X |-> Progress(p[1], p[2])]
           Op(x, e) == Progress(x, e)
           Is(g) == g = [P \in SUBSET (1..n) |-> IF P = {} THEN base ELSE Op(g[P \ {Max(P)}], seq[Max(P)])]
           iter == CHOOSE g : Is(g)
<1>1. FoldLeft(Progress, base, seq) = iter[1..n]
  BY DEF FoldLeft, MapThenFoldSet
<1>0. base \in S
  OBVIOUS
<1>2. \A x \in S : \A k \in 1..n : F[<<x, seq[k]>>] = Op(x, seq[k]) /\ Op(x, seq[k]) \in S
  OBVIOUS
<1>3. ASSUME NEW P \in SUBSET (1..n), P # {} PROVE Max(P) \in 1..n /\ P \ {Max(P)} \in SUBSET (1..n)
  <2>1. P \subseteq 0..n
    OBVIOUS
  <2>2. Max(P) \in P
    BY <1>3, <2>1, GreatestUpTo
  <2> QED BY <2>2
<1> HIDE DEF F, X, Op
<1>4. \E g : Is(g)
  <2>1. PICK g : Folds(g, base, seq, F, n, S)
    BY <1>0, <1>2, FoldExists
  <2>2. /\ g \in [SUBSET (1..n) -> S] /\ g[{}] = base
        /\ \A P \in SUBSET (1..n) : P # {} => g[P] = F[<<g[P \ {Max(P)}], seq[Max(P)]>>]
    BY <2>1 DEF Folds
  <2>3. \A P \in SUBSET (1..n) : P # {} => g[P] = Op(g[P \ {Max(P)}], seq[Max(P)])
    BY <1>2, <1>3, <2>2
  <2>4. g = [P \in SUBSET (1..n) |-> IF P = {} THEN base ELSE Op(g[P \ {Max(P)}], seq[Max(P)])]
    BY <2>2, <2>3
  <2> QED BY <2>4
<1>5. Is(iter)
  BY <1>4
<1> HIDE DEF iter
<1>6. /\ iter[{}] = base
      /\ \A P \in SUBSET (1..n) :
             P # {} /\ iter[P \ {Max(P)}] \in S => iter[P] = F[<<iter[P \ {Max(P)}], seq[Max(P)]>>]
  <2>1. iter[{}] = base
    BY <1>5
  <2>2. ASSUME NEW P \in SUBSET (1..n), P # {}, iter[P \ {Max(P)}] \in S
        PROVE  iter[P] = F[<<iter[P \ {Max(P)}], seq[Max(P)]>>]
    BY <1>2, <1>3, <1>5, <2>2
  <2> QED BY <2>1, <2>2
<1>7. iter[1..n] \in T[n]
  <2>1. ASSUME NEW k \in 1..n, NEW x \in T[k - 1] PROVE F[<<x, seq[k]>>] \in T[k]
    <3>1. k - 1 \in 0..n /\ Op(x, seq[k]) \in T[k]
      BY DEF Op
    <3> QED BY <1>2, <3>1
  <2> QED BY <1>6, <2>1, FoldGoes
<1> QED BY <1>1, <1>7

StagesIn(E) == {e.stage : e \in E}

StagedOf(events) == {e \in ToSet(events) : e.stage > 0}

Orderly(E) == \A d, e \in E : d.at <= e.at => d.stage <= e.stage

Ascends(chain) ==
    \A m, n \in 1..Len(chain) : m < n => /\ chain[m].stage < chain[n].stage
                                         /\ chain[m].at <= chain[n].at

(* A list in the order of its times.                                       *)
TimesRise(v, n) ==
    /\ n \in Nat /\ DOMAIN v = 1..n
    /\ \A i \in 1..n : v[i].at \in Int /\ v[i].stage \in Nat
    /\ \A i, j \in 1..n : i < j => v[i].at <= v[j].at

(* The chain after k of them.                                              *)
ChainUpTo(chain, v, k) ==
    /\ IsList(chain) /\ Ascends(chain)
    /\ \A j \in 1..Len(chain) : \E i \in 1..k : chain[j] = v[i]
    /\ Orderly(ToSet(v)) => \A i \in 1..k : \E j \in 1..Len(chain) : chain[j].stage = v[i].stage

LEMMA ProgressKeeps ==
    ASSUME NEW n, NEW v, TimesRise(v, n), NEW k \in 1..n, NEW chain, ChainUpTo(chain, v, k - 1)
    PROVE  ChainUpTo(Progress(chain, v[k]), v, k)
<1>1. n \in Nat /\ v[k].at \in Int /\ v[k].stage \in Nat
  BY DEF TimesRise
<1>2. PICK l : l \in Nat /\ l = Len(chain) /\ DOMAIN chain = 1..l
  BY ListIs DEF ChainUpTo
<1>3. \A j \in 1..l : \E i \in 1..(k - 1) : chain[j] = v[i]
  BY <1>2 DEF ChainUpTo
<1>4. \A j \in 1..l : /\ chain[j].at \in Int /\ chain[j].stage \in Nat /\ chain[j].at <= v[k].at
                      /\ \E i \in 1..k : chain[j] = v[i]
  BY <1>1, <1>3 DEF TimesRise
<1>5. \A p, q \in 1..l : p < q => chain[p].stage < chain[q].stage /\ chain[p].at <= chain[q].at
  BY <1>2 DEF ChainUpTo, Ascends
<1>6. {c.stage : c \in ToSet(chain)} = {chain[j].stage : j \in 1..l}
  BY <1>2 DEF ToSet
<1>7. chain = <<>> <=> l = 0
  BY <1>2
<1>8. CASE v[k].stage \notin {chain[j].stage : j \in 1..l} /\ (l # 0 => v[k].stage >= chain[l].stage)
  <2>1. PICK longer : longer = Append(chain, v[k])
    OBVIOUS
  <2>2. Progress(chain, v[k]) = longer
    BY <1>2, <1>6, <1>7, <1>8, <2>1 DEF Progress
  <2>3. /\ IsList(longer) /\ Len(longer) = l + 1 /\ longer[l + 1] = v[k]
        /\ \A j \in 1..l : longer[j] = chain[j]
    BY <1>2, <2>1, AppendedIs DEF ChainUpTo
  <2>4. ASSUME NEW p \in 1..(l + 1), NEW q \in 1..(l + 1), p < q
        PROVE  longer[p].stage < longer[q].stage /\ longer[p].at <= longer[q].at
    <3>1. p \in 1..l
      BY <1>2, <2>4
    <3>2. CASE q = l + 1
      <4>1. l # 0 /\ l \in 1..l /\ chain[p].stage <= chain[l].stage
        <5>1. l \in 1..l /\ chain[l].stage \in Nat /\ chain[p].stage \in Nat
          BY <1>2, <1>4, <3>1
        <5>2. p < l => chain[p].stage < chain[l].stage
          BY <1>5, <3>1, <5>1
        <5>3. p = l \/ p < l
          BY <1>2, <3>1
        <5> QED BY <5>1, <5>2, <5>3
      <4>2. chain[p].stage < v[k].stage
        BY <1>1, <1>4, <1>8, <3>1, <4>1
      <4> QED BY <1>4, <2>3, <3>1, <3>2, <4>2
    <3>3. CASE q # l + 1
      <4>1. q \in 1..l
        BY <1>2, <3>3
      <4> QED BY <1>5, <2>3, <2>4, <3>1, <4>1
    <3> QED BY <3>2, <3>3
  <2>5. ASSUME NEW j \in 1..(l + 1) PROVE \E i \in 1..k : longer[j] = v[i]
    <3>1. CASE j = l + 1
      BY <2>3, <3>1
    <3>2. CASE j # l + 1
      <4>1. j \in 1..l
        BY <1>2, <3>2
      <4>2. PICK i \in 1..k : chain[j] = v[i]
        BY <1>4, <4>1
      <4> QED BY <2>3, <4>1, <4>2
    <3> QED BY <3>1, <3>2
  <2>6. ASSUME Orderly(ToSet(v)), NEW i \in 1..k
        PROVE  \E j \in 1..(l + 1) : longer[j].stage = v[i].stage
    <3>1. CASE i = k
      BY <1>2, <2>3, <3>1
    <3>2. CASE i # k
      <4>1. i \in 1..(k - 1)
        BY <3>2
      <4>2. PICK j \in 1..l : chain[j].stage = v[i].stage
        BY <1>2, <2>6, <4>1 DEF ChainUpTo
      <4> QED BY <1>2, <2>3, <4>2
    <3> QED BY <3>1, <3>2
  <2> QED BY <2>2, <2>3, <2>4, <2>5, <2>6 DEF ChainUpTo, Ascends
<1>9. CASE ~(v[k].stage \notin {chain[j].stage : j \in 1..l} /\ (l # 0 => v[k].stage >= chain[l].stage))
  <2>1. Progress(chain, v[k]) = chain
    BY <1>2, <1>6, <1>7, <1>9 DEF Progress
  <2>2. ASSUME Orderly(ToSet(v)), NEW i \in 1..k
        PROVE  \E j \in 1..l : chain[j].stage = v[i].stage
    <3>1. CASE i = k
      <4>1. ASSUME l # 0 PROVE v[k].stage >= chain[l].stage
        <5>1. l \in 1..l
          BY <1>2, <4>1
        <5>2. PICK m \in 1..k : chain[l] = v[m]
          BY <1>4, <5>1
        <5>3. v[m] \in ToSet(v) /\ v[k] \in ToSet(v)
          <6>1. ToSet(v) = {v[p] : p \in 1..n}
            BY DEF TimesRise, ToSet
          <6>2. m \in 1..n
            BY <1>1
          <6> QED BY <6>1, <6>2
        <5>4. v[m].at <= v[k].at
          BY <1>4, <5>1, <5>2
        <5>5. v[m].stage <= v[k].stage
          BY <2>2, <5>3, <5>4 DEF Orderly
        <5> QED BY <1>1, <1>4, <5>1, <5>2, <5>5
      <4> QED BY <1>9, <3>1, <4>1
    <3>2. CASE i # k
      <4>1. i \in 1..(k - 1)
        BY <3>2
      <4> QED BY <1>2, <2>2, <4>1 DEF ChainUpTo
    <3> QED BY <3>1, <3>2
  <2> QED BY <1>2, <1>4, <2>1, <2>2 DEF ChainUpTo
<1> QED BY <1>8, <1>9

LEMMA ChainIs ==
    ASSUME NEW n, NEW v, TimesRise(v, n)
    PROVE  ChainUpTo(FoldLeft(Progress, <<>>, v), v, n)
<1> DEFINE S == Seq(ToSet(v))
           T == [k \in 0..n |-> {chain \in S : ChainUpTo(chain, v, k)}]
<1>1. n \in Nat /\ DOMAIN v = 1..n /\ \A k \in 1..n : v[k] \in ToSet(v)
  BY DEF TimesRise, ToSet
<1>2. <<>> \in T[0]
  <2>1. <<>> \in S /\ Len(<<>>) = 0 /\ 1..0 = {}
    OBVIOUS
  <2>2. IsList(<<>>)
    BY <2>1, ListOf
  <2>3. ChainUpTo(<<>>, v, 0)
    BY <2>1, <2>2 DEF ChainUpTo, Ascends
  <2> QED BY <1>1, <2>1, <2>3
<1>3. \A x \in S : \A k \in 1..n : Progress(x, v[k]) \in S
  BY <1>1 DEF Progress
<1>4. \A k \in 0..n : T[k] \subseteq S
  OBVIOUS
<1>5. \A k \in 1..n : \A x \in T[k - 1] : Progress(x, v[k]) \in T[k]
  <2> SUFFICES ASSUME NEW k \in 1..n, NEW x \in T[k - 1] PROVE Progress(x, v[k]) \in T[k]
    OBVIOUS
  <2>1. k \in 0..n /\ k - 1 \in 0..n
    BY <1>1
  <2>2. x \in S /\ ChainUpTo(x, v, k - 1)
    BY <2>1
  <2>3. ChainUpTo(Progress(x, v[k]), v, k)
    BY <2>2, ProgressKeeps
  <2> QED BY <1>3, <2>1, <2>2, <2>3
<1>6. FoldLeft(Progress, <<>>, v) \in T[n]
  <2> HIDE DEF S, T
  <2> QED BY <1>1, <1>2, <1>3, <1>4, <1>5, ChainGoes
<1> QED BY <1>1, <1>6

(* What is kept of the events, in the order of their times.                *)
WithStage(events) == Those(events, LAMBDA e : e.stage > 0)

InOrderOfTime(staged) == SortedBy(staged, LAMBDA e : e.at)

StagedAre(events, staged, v, n) ==
    /\ TimesRise(v, n) /\ Len(staged) = n /\ IsList(staged)
    /\ ToSet(v) = StagedOf(events) /\ ToSet(staged) = StagedOf(events)
    /\ \A e \in ToSet(staged) : e.aware \in BOOLEAN

LEMMA StagedInTime ==
    ASSUME NEW events, ParsedList(events),
           NEW staged, staged = WithStage(events), NEW v, v = InOrderOfTime(staged)
    PROVE  \E n : StagedAre(events, staged, v, n)
<1>1. PICK l : l \in Nat /\ l = Len(events) /\ DOMAIN events = 1..l /\ \A i \in 1..l : Parsed(events[i])
  BY ListIs DEF ParsedList
<1>2. PICK P : P = {i \in 1..l : events[i].stage > 0}
  OBVIOUS
<1>3. P \subseteq 1..l /\ staged = Kept(events, P)
  BY <1>1, <1>2 DEF WithStage, Those
<1>4. PICK n, o : Selects(staged, o, n, events, P)
  BY <1>1, <1>3, KeptElements
<1>5. /\ n \in Nat /\ DOMAIN staged = 1..n /\ Len(staged) = n
      /\ \A k \in 1..n : o[k] \in P /\ staged[k] = events[o[k]]
      /\ ToSet(staged) = ElementsAt(events, P) /\ IsList(staged)
  BY <1>4 DEF Selects
<1>6. \A k \in 1..n : staged[k].at \in Int /\ staged[k].stage \in Nat
  <2> SUFFICES ASSUME NEW k \in 1..n PROVE staged[k].at \in Int /\ staged[k].stage \in Nat
    OBVIOUS
  <2>1. o[k] \in 1..l /\ staged[k] = events[o[k]]
    BY <1>3, <1>5
  <2>2. Parsed(staged[k])
    BY <1>1, <2>1
  <2> QED BY <2>2 DEF Parsed, StageCount
<1>7. ToSet(staged) = StagedOf(events)
  <2>1. ToSet(events) = {events[i] : i \in 1..l}
    BY <1>1 DEF ToSet
  <2> QED BY <1>2, <1>5, <2>1 DEF ElementsAt, StagedOf
<1>8. PICK keys : keys = [k \in 1..n |-> staged[k].at]
  OBVIOUS
<1>9. keys \in [1..n -> Int] /\ \A k \in 1..n : keys[k] = staged[k].at
  BY <1>6, <1>8
<1>10. v = At(staged, InOrder(keys))
  BY <1>5, <1>8 DEF InOrderOfTime, SortedBy
<1>11. PICK w : Sorts(w, keys, n) /\ v = At(staged, w)
  BY <1>5, <1>9, <1>10, SortedIs
<1>12. /\ \A k \in 1..n : w[k] \in 1..n /\ v[k] = staged[w[k]]
       /\ DOMAIN v = 1..n
       /\ \A p \in 1..n : \E k \in 1..n : w[k] = p
  BY <1>11 DEF Sorts, At
<1>13. \A i, j \in 1..n : i < j => v[i].at <= v[j].at
  <2> SUFFICES ASSUME NEW i \in 1..n, NEW j \in 1..n, i < j PROVE v[i].at <= v[j].at
    OBVIOUS
  <2>1. Before(keys, w[i], w[j])
    BY <1>11 DEF Sorts
  <2>2. w[i] \in 1..n /\ w[j] \in 1..n /\ v[i] = staged[w[i]] /\ v[j] = staged[w[j]]
    BY <1>12
  <2>3. keys[w[i]] = v[i].at /\ keys[w[j]] = v[j].at /\ keys[w[i]] \in Int /\ keys[w[j]] \in Int
    BY <1>9, <2>2
  <2> QED BY <2>1, <2>3 DEF Before
<1>14. TimesRise(v, n)
  <2>1. \A i \in 1..n : v[i].at \in Int /\ v[i].stage \in Nat
    BY <1>6, <1>12
  <2> QED BY <1>5, <1>12, <1>13, <2>1 DEF TimesRise
<1>15. ToSet(v) = ToSet(staged)
  <2>1. ToSet(v) = {v[k] : k \in 1..n} /\ ToSet(staged) = {staged[k] : k \in 1..n}
    BY <1>5, <1>12 DEF ToSet
  <2>2. ASSUME NEW x \in ToSet(staged) PROVE x \in ToSet(v)
    <3>1. PICK p \in 1..n : x = staged[p]
      BY <2>1, <2>2
    <3>2. PICK k \in 1..n : w[k] = p
      BY <1>12
    <3> QED BY <1>12, <2>1, <3>1, <3>2
  <2>3. ASSUME NEW x \in ToSet(v) PROVE x \in ToSet(staged)
    <3>1. PICK k \in 1..n : x = v[k]
      BY <2>1, <2>3
    <3>2. w[k] \in 1..n /\ v[k] = staged[w[k]]
      BY <1>12
    <3> QED BY <2>1, <3>1, <3>2
  <2> QED BY <2>2, <2>3
<1>16. \A e \in ToSet(staged) : e.aware \in BOOLEAN
  <2> SUFFICES ASSUME NEW e \in ToSet(staged) PROVE e.aware \in BOOLEAN
    OBVIOUS
  <2>1. PICK i \in 1..l : e = events[i]
    BY <1>3, <1>5 DEF ElementsAt
  <2> QED BY <1>1, <2>1 DEF Parsed
<1> QED BY <1>5, <1>7, <1>14, <1>15, <1>16 DEF StagedAre

(* A set of stages is no larger than a list that has them all.             *)
LEMMA StagesFit ==
    ASSUME NEW s, IsList(s)
    PROVE  IsFiniteSet(StagesIn(ToSet(s))) /\ Cardinality(StagesIn(ToSet(s))) \in Nat
           /\ Cardinality(StagesIn(ToSet(s))) <= Len(s)
<1>1. PICK l : l \in Nat /\ l = Len(s) /\ DOMAIN s = 1..l
  BY ListIs
<1>2. PICK X : X = StagesIn(ToSet(s))
  OBVIOUS
<1>3. PICK f : f = [k \in 1..l |-> s[k].stage]
  OBVIOUS
<1>4. f \in [1..l -> X] /\ \A x \in X : \E k \in 1..l : f[k] = x
  BY <1>1, <1>2, <1>3 DEF StagesIn, ToSet
<1>5. f \in Surjection(1..l, X)
  BY <1>4 DEF Surjection
<1>6. IsFiniteSet(1..l) /\ Cardinality(1..l) = l
  <2>1. l \in Nat
    BY <1>1
  <2> QED BY <2>1, FS_Interval
<1>7. IsFiniteSet(X) /\ Cardinality(X) <= l
  BY <1>5, <1>6, FS_Surjection
<1> QED BY <1>1, <1>2, <1>7, FS_CardinalityType

(* What comes of the stages: an error if an event without a zone is among  *)
(* them, nothing, or a chain, of all stages if they are orderly.           *)
ChainOf(R, events) ==
    \/ R = <<Found("raises", 0, <<>>)>> /\ \E e \in ToSet(events) : ~e.aware
    \/ R = <<>> /\ ~(Orderly(StagedOf(events)) /\ Cardinality(StagesIn(StagedOf(events))) >= MinChain)
    \/ \E severity, chain :
          /\ R = <<Found("chain", severity, chain)>> /\ IsList(chain) /\ Ascends(chain)
          /\ Orderly(StagedOf(events)) => StagesIn(ToSet(chain)) = StagesIn(StagedOf(events))

LEMMA DetectAttackChainIs ==
    ASSUME NEW events, ParsedList(events)
    PROVE  ChainOf(DetectAttackChain(events), events)
<1>1. PICK staged : staged = WithStage(events)
  OBVIOUS
<1>2. PICK v : v = InOrderOfTime(staged)
  OBVIOUS
<1>a. PICK n : StagedAre(events, staged, v, n)
  BY <1>1, <1>2, StagedInTime
<1>3. /\ TimesRise(v, n) /\ Len(staged) = n /\ IsList(staged)
      /\ ToSet(v) = StagedOf(events) /\ ToSet(staged) = StagedOf(events)
      /\ \A e \in ToSet(staged) : e.aware \in BOOLEAN
  BY <1>a DEF StagedAre
<1>4. PICK chain : chain = FoldLeft(Progress, <<>>, v)
  OBVIOUS
<1>5. ChainUpTo(chain, v, n) /\ n \in Nat /\ DOMAIN v = 1..n
  BY <1>3, <1>4, ChainIs DEF TimesRise
<1>6. PICK R : R = DetectAttackChain(events)
  OBVIOUS
<1>7. R = IF Len(staged) < MinChain THEN <<>>
          ELSE IF Cardinality({e.aware : e \in ToSet(staged)}) > 1 THEN <<Found("raises", 0, <<>>)>>
          ELSE IF Len(chain) < MinChain THEN <<>>
          ELSE <<Found("chain", IF 2 * Len(chain) > StageCount THEN 4 ELSE 3, chain)>>
  BY <1>1, <1>2, <1>4, <1>6 DEF DetectAttackChain, WithStage, InOrderOfTime
<1>8. Len(staged) \in Nat /\ Len(chain) \in Nat /\ MinChain \in Nat
  BY <1>3, <1>5, CorrelationAssumption, ListIs DEF ChainUpTo
<1>9. Cardinality(StagesIn(StagedOf(events))) \in Nat
      /\ Cardinality(StagesIn(StagedOf(events))) <= Len(staged)
  BY <1>3, StagesFit
<1>10. CASE Len(staged) < MinChain
  BY <1>6, <1>7, <1>8, <1>9, <1>10 DEF ChainOf
<1>11. CASE ~(Len(staged) < MinChain) /\ Cardinality({e.aware : e \in ToSet(staged)}) > 1
  <2>1. R = <<Found("raises", 0, <<>>)>>
    BY <1>7, <1>11
  <2>2. ASSUME \A e \in ToSet(staged) : e.aware PROVE FALSE
    <3>1. PICK A : A = {e.aware : e \in ToSet(staged)}
      OBVIOUS
    <3>2. A \subseteq {TRUE}
      <4>1. \A e \in ToSet(staged) : e.aware = TRUE
        BY <1>3, <2>2
      <4> QED BY <3>1, <4>1
    <3>3. IsFiniteSet({TRUE}) /\ Cardinality({TRUE}) = 1
      BY FS_Singleton
    <3>4. Cardinality(A) <= 1 /\ Cardinality(A) \in Nat
      BY <3>2, <3>3, FS_Subset, FS_CardinalityType
    <3> QED BY <1>11, <3>1, <3>4
  <2>3. \A e \in ToSet(staged) : e \in ToSet(events)
    BY <1>3 DEF StagedOf
  <2> QED BY <1>6, <2>1, <2>2, <2>3 DEF ChainOf
<1>12. CASE ~(Len(staged) < MinChain) /\ ~(Cardinality({e.aware : e \in ToSet(staged)}) > 1)
  <2>1. IsList(chain) /\ Ascends(chain)
    BY <1>5 DEF ChainUpTo
  <2>2. ASSUME Orderly(StagedOf(events)) PROVE StagesIn(ToSet(chain)) = StagesIn(StagedOf(events))
    <3>1. PICK l : l \in Nat /\ l = Len(chain) /\ DOMAIN chain = 1..l
      BY <2>1, ListIs
    <3>2. ToSet(v) = {v[k] : k \in 1..n} /\ ToSet(chain) = {chain[j] : j \in 1..l}
      BY <1>5, <3>1 DEF ToSet
    <3>3. \A j \in 1..l : \E i \in 1..n : chain[j] = v[i]
      BY <1>5, <3>1 DEF ChainUpTo
    <3>4. \A i \in 1..n : \E j \in 1..l : chain[j].stage = v[i].stage
      BY <1>3, <1>5, <2>2, <3>1 DEF ChainUpTo
    <3>5. StagesIn(ToSet(v)) = StagesIn(ToSet(chain))
      BY <3>2, <3>3, <3>4 DEF StagesIn
    <3> QED BY <1>3, <3>5
  <2>3. CASE Len(chain) < MinChain
    <3>1. R = <<>>
      BY <1>7, <1>12, <2>3
    <3>2. ASSUME Orderly(StagedOf(events)), Cardinality(StagesIn(StagedOf(events))) >= MinChain
          PROVE  FALSE
      <4>1. Cardinality(StagesIn(StagedOf(events))) <= Len(chain)
        BY <2>1, <2>2, <3>2, StagesFit
      <4> QED BY <1>8, <1>9, <2>3, <3>2, <4>1
    <3> QED BY <1>6, <3>1, <3>2 DEF ChainOf
  <2>4. CASE ~(Len(chain) < MinChain)
    <3>1. PICK severity : R = <<Found("chain", severity, chain)>>
      BY <1>7, <1>12, <2>4
    <3> QED BY <1>6, <2>1, <2>2, <3>1 DEF ChainOf
  <2> QED BY <2>3, <2>4
<1> QED BY <1>10, <1>11, <1>12

-----------------------------------------------------------------------------
(* The answer *)

LEMMA JoinedElements ==
    ASSUME NEW a, NEW b, IsList(a), IsList(b)
    PROVE  IsList(a \o b) /\ ToSet(a \o b) = ToSet(a) \cup ToSet(b)
<1>1. PICK m : m \in Nat /\ m = Len(a) /\ DOMAIN a = 1..m
  BY ListIs
<1>2. PICK n : n \in Nat /\ n = Len(b) /\ DOMAIN b = 1..n
  BY ListIs
<1>3. PICK S : S = ToSet(a) \cup ToSet(b)
  OBVIOUS
<1>4. a \in Seq(S) /\ b \in Seq(S)
  <2>1. a \in Seq(ToSet(a)) /\ b \in Seq(ToSet(b)) /\ ToSet(a) \subseteq S /\ ToSet(b) \subseteq S
    BY <1>3, ListIs
  <2> QED BY <2>1, SeqMonotonic
<1>5. PICK c : c = a \o b
  OBVIOUS
<1>6. /\ c \in Seq(S) /\ Len(c) = m + n /\ DOMAIN c = 1..(m + n)
      /\ \A k \in 1..m : c[k] = a[k]
      /\ \A k \in 1..n : c[m + k] = b[k]
  <2>1. c \in Seq(S) /\ Len(c) = m + n
    BY <1>1, <1>2, <1>4, <1>5
  <2>2. \A k \in 1..(m + n) : c[k] = IF k <= m THEN a[k] ELSE b[k - m]
    BY <1>1, <1>2, <1>4, <1>5
  <2>3. \A k \in 1..n : c[m + k] = b[k]
    <3> SUFFICES ASSUME NEW k \in 1..n PROVE c[m + k] = b[k]
      OBVIOUS
    <3>1. PICK j : j = m + k
      OBVIOUS
    <3>2. j \in 1..(m + n) /\ ~(j <= m) /\ j - m = k
      BY <1>1, <1>2, <3>1
    <3>3. c[j] = b[j - m]
      BY <2>2, <3>2
    <3> QED BY <3>1, <3>2, <3>3
  <2> QED BY <1>1, <1>2, <2>1, <2>2, <2>3
<1>7. IsList(c)
  BY <1>6, ListOf
<1>8. ASSUME NEW x \in ToSet(c) PROVE x \in S
  BY <1>6, <1>8 DEF ToSet
<1>9. ASSUME NEW x \in S PROVE x \in ToSet(c)
  <2>1. CASE x \in ToSet(a)
    <3>1. PICK k \in 1..m : x = a[k]
      BY <1>1, <2>1 DEF ToSet
    <3>2. k \in 1..(m + n)
      BY <1>1, <1>2
    <3> QED BY <1>6, <3>1, <3>2 DEF ToSet
  <2>2. CASE x \in ToSet(b)
    <3>1. PICK k \in 1..n : x = b[k]
      BY <1>2, <2>2 DEF ToSet
    <3>2. m + k \in 1..(m + n)
      BY <1>1, <1>2
    <3> QED BY <1>6, <3>1, <3>2 DEF ToSet
  <2> QED BY <1>3, <1>9, <2>1, <2>2
<1> QED BY <1>3, <1>5, <1>7, <1>8, <1>9

LEMMA ParsedJoined ==
    ASSUME NEW a, NEW b, ParsedList(a), ParsedList(b)
    PROVE  ParsedList(a \o b)
<1>1. IsList(a \o b) /\ ToSet(a \o b) = ToSet(a) \cup ToSet(b)
  BY JoinedElements DEF ParsedList
<1>2. \A x \in ToSet(a) \cup ToSet(b) : Parsed(x)
  <2>1. DOMAIN a = 1..Len(a) /\ DOMAIN b = 1..Len(b)
    BY ListIs DEF ParsedList
  <2> QED BY <2>1 DEF ParsedList, ToSet
<1> QED BY <1>1, <1>2, ListIs DEF ParsedList

(* What a task has in it when its times are known.                         *)
LEMMA ParsedTask ==
    ASSUME corTime \in Nat, NEW t \in CorTasks
    PROVE  ParsedList([n \in DOMAIN t |-> ParseEvent(t[n])])
<1>1. IsList(t) /\ \A n \in DOMAIN t : CorEvent(t[n])
  BY EventsAssumption
<1>2. PICK l : l \in Nat /\ l = Len(t) /\ DOMAIN t = 1..l
  BY <1>1, ListIs
<1>3. PICK s : s = [n \in DOMAIN t |-> ParseEvent(t[n])]
  OBVIOUS
<1>4. DOMAIN s = 1..l /\ s = [n \in 1..l |-> s[n]] /\ \A n \in 1..l : s[n] = ParseEvent(t[n])
  BY <1>2, <1>3
<1>5. IsList(s) /\ Len(s) = l
  BY <1>2, <1>4, ListFrom
<1>6. ASSUME NEW n \in 1..l PROVE Parsed(s[n])
  <2>1. PICK e : e = t[n]
    OBVIOUS
  <2>2. /\ {"stage", "at", "aware", "source", "target", "user"} \subseteq DOMAIN e
        /\ e.stage \in 0..StageCount /\ e.at \in Int \cup {NoTime} /\ e.aware \in BOOLEAN
    BY <1>1, <1>2, <2>1 DEF CorEvent
  <2>3. s[n] = ParseEvent(e)
    BY <1>4, <2>1
  <2>4. CASE e.at = NoTime
    <3>1. s[n] = [e EXCEPT !.at = corTime, !.aware = TRUE]
      BY <2>3, <2>4 DEF ParseEvent
    <3>2. s[n].at = corTime /\ s[n].aware = TRUE /\ s[n].stage = e.stage
      BY <2>2, <3>1
    <3>3. corTime \in Int
      OBVIOUS
    <3>4. PICK x : x = s[n]
      OBVIOUS
    <3>5. x.at \in Int /\ x.aware \in BOOLEAN /\ x.stage \in 0..StageCount
      BY <2>2, <3>2, <3>3, <3>4
    <3> QED BY <3>4, <3>5 DEF Parsed
  <2>5. CASE e.at # NoTime
    BY <2>2, <2>3, <2>5 DEF ParseEvent, Parsed
  <2> QED BY <2>4, <2>5
<1> QED BY <1>2, <1>3, <1>5, <1>6 DEF ParsedList

(* What is promised of an answer, given what was indexed and the time.     *)
SlowSeen(answer, all, t) ==
    \A e \in ToSet(answer.of), k \in {"source", "target", "user"} :
        (e[k] # NoKey /\ Cardinality(CountedFor(all, k, e[k], t)) >= Threshold(k)) =>
            \E c \in ToSet(answer.found) : c.kind = k

OrderlySeen(answer) ==
    LET own == {e \in ToSet(answer.of) : e.stage > 0} IN
    (Orderly(own) /\ Cardinality(StagesIn(own)) >= MinChain) =>
        \E c \in ToSet(answer.found) : c.kind = "chain" /\ StagesIn(ToSet(c.events)) = StagesIn(own)

FitsTogether(c) ==
    IF c.kind = "chain"
    THEN \A m, n \in DOMAIN c.events : m < n =>
            c.events[m].stage < c.events[n].stage /\ c.events[m].at <= c.events[n].at
    ELSE Cardinality({e[c.kind] : e \in ToSet(c.events)}) = 1

Sees(answer, all, t) ==
    /\ answer.status \in {"success", "partial"} => SlowSeen(answer, all, t) /\ OrderlySeen(answer)
    /\ \A c \in ToSet(answer.found) : FitsTogether(c)
    /\ answer.status = "failed" => \E e \in ToSet(all) : ~e.aware

LEMMA SeesIs == AttacksAreSeen <=> Sees(corAnswer, indexed, corTime)
<1>1. ToSet(Kinds) = {"source", "target", "user"}
  BY DEF Kinds, ToSet
<1> QED
  BY <1>1 DEF AttacksAreSeen, Sees, SlowSeen, OrderlySeen, Orderly, StagesIn, FitsTogether, CountedFor

(* Each correlation of one kind of key holds, and is not of another kind.  *)
LEMMA CorrelationHolds ==
    ASSUME NEW R, NEW all, NEW events, NEW kind \in {"source", "target", "user"},
           CorrelationOf(R, all, events, kind), R # <<Found("raises", 0, <<>>)>>
    PROVE  /\ IsList(R) /\ \A c \in ToSet(R) : FitsTogether(c) /\ c.kind # "raises"
           /\ \A e \in ToSet(events) :
                 (/\ e[kind] # NoKey
                  /\ Cardinality(CountedFor(all, kind, e[kind], corTime)) >= Threshold(kind)) =>
                     \E c \in ToSet(R) : c.kind = kind
<1>1. CASE R = <<>> /\ \A e \in ToSet(events) :
              e[kind] # NoKey => ~(Cardinality(CountedFor(all, kind, e[kind], corTime)) >= Threshold(kind))
  <2>1. IsList(<<>>) /\ ToSet(<<>>) = {}
    <3>1. <<>> \in Seq({}) /\ DOMAIN <<>> = {}
      OBVIOUS
    <3>2. IsList(<<>>)
      BY <3>1, ListOf
    <3> QED BY <3>1, <3>2 DEF ToSet
  <2> QED BY <1>1, <2>1
<1>2. ASSUME NEW severity, NEW q, R = <<Found(kind, severity, q)>>, IsList(q), Len(q) > 0,
             NEW key, \A e \in ToSet(q) : e[kind] = key
      PROVE  /\ IsList(R) /\ \A c \in ToSet(R) : FitsTogether(c) /\ c.kind # "raises"
             /\ \E c \in ToSet(R) : c.kind = kind
  <2>1. PICK c : c = Found(kind, severity, q)
    OBVIOUS
  <2>2. IsList(R) /\ ToSet(R) = {c}
    <3>1. R \in Seq({c})
      BY <1>2, <2>1
    <3>2. DOMAIN R = {1} /\ R[1] = c
      BY <1>2, <2>1
    <3> QED BY <3>1, <3>2, ListOf DEF ToSet
  <2>3. c.kind = kind /\ c.events = q
    BY <2>1 DEF Found
  <2>4. {e[c.kind] : e \in ToSet(q)} = {key}
    <3>1. q[1] \in ToSet(q)
      BY <1>2, ListIs
    <3> QED BY <1>2, <2>3, <3>1
  <2>5. Cardinality({key}) = 1
    BY FS_Singleton
  <2>6. FitsTogether(c)
    BY <2>3, <2>4, <2>5 DEF FitsTogether
  <2> QED BY <2>2, <2>3, <2>6
<1> QED BY <1>1, <1>2 DEF CorrelationOf

LEMMA ChainHolds ==
    ASSUME NEW R, NEW events, ChainOf(R, events), R # <<Found("raises", 0, <<>>)>>
    PROVE  /\ IsList(R) /\ \A c \in ToSet(R) : FitsTogether(c) /\ c.kind # "raises"
           /\ (Orderly(StagedOf(events)) /\ Cardinality(StagesIn(StagedOf(events))) >= MinChain) =>
                 \E c \in ToSet(R) :
                    c.kind = "chain" /\ StagesIn(ToSet(c.events)) = StagesIn(StagedOf(events))
<1>1. CASE R = <<>> /\ ~(Orderly(StagedOf(events)) /\ Cardinality(StagesIn(StagedOf(events))) >= MinChain)
  <2>1. IsList(<<>>) /\ ToSet(<<>>) = {}
    <3>1. <<>> \in Seq({}) /\ DOMAIN <<>> = {}
      OBVIOUS
    <3>2. IsList(<<>>)
      BY <3>1, ListOf
    <3> QED BY <3>1, <3>2 DEF ToSet
  <2> QED BY <1>1, <2>1
<1>2. ASSUME NEW severity, NEW chain,
             R = <<Found("chain", severity, chain)>>, IsList(chain), Ascends(chain),
             Orderly(StagedOf(events)) => StagesIn(ToSet(chain)) = StagesIn(StagedOf(events))
      PROVE  /\ IsList(R) /\ \A c \in ToSet(R) : FitsTogether(c) /\ c.kind # "raises"
             /\ Orderly(StagedOf(events)) =>
                   \E c \in ToSet(R) :
                      c.kind = "chain" /\ StagesIn(ToSet(c.events)) = StagesIn(StagedOf(events))
  <2>1. PICK c : c = Found("chain", severity, chain)
    OBVIOUS
  <2>2. IsList(R) /\ ToSet(R) = {c}
    <3>1. R \in Seq({c})
      BY <1>2, <2>1
    <3>2. DOMAIN R = {1} /\ R[1] = c
      BY <1>2, <2>1
    <3> QED BY <3>1, <3>2, ListOf DEF ToSet
  <2>3. c.kind = "chain" /\ c.events = chain
    BY <2>1 DEF Found
  <2>4. FitsTogether(c)
    <3>1. DOMAIN chain = 1..Len(chain)
      BY <1>2, ListIs
    <3> QED BY <1>2, <2>3, <3>1 DEF FitsTogether, Ascends
  <2> QED BY <1>2, <2>2, <2>3, <2>4
<1> QED BY <1>1, <1>2 DEF ChainOf

(* Only an event without a zone raises.                                    *)
LEMMA RaisesAre ==
    ASSUME NEW R, NEW all, NEW events, R = <<Found("raises", 0, <<>>)>>
    PROVE  /\ \A kind \in {"source", "target", "user"} :
                 CorrelationOf(R, all, events, kind) => \E e \in ToSet(all) : ~e.aware
           /\ ChainOf(R, events) => \E e \in ToSet(events) : ~e.aware
<1>1. R # <<>> /\ R[1].kind = "raises"
  BY DEF Found
<1>2. ASSUME NEW kind, NEW severity, NEW q, R = <<Found(kind, severity, q)>> PROVE kind = "raises"
  <2>1. R[1].kind = kind
    BY <1>2 DEF Found
  <2> QED BY <1>1, <2>1
<1>3. ASSUME NEW kind \in {"source", "target", "user"}, CorrelationOf(R, all, events, kind)
      PROVE  \E e \in ToSet(all) : ~e.aware
  <2>1. kind # "raises"
    OBVIOUS
  <2> QED BY <1>1, <1>2, <1>3, <2>1 DEF CorrelationOf
<1>4. ASSUME ChainOf(R, events) PROVE \E e \in ToSet(events) : ~e.aware
  <2>1. "chain" # "raises"
    OBVIOUS
  <2> QED BY <1>1, <1>2, <1>4, <2>1 DEF ChainOf
<1> QED BY <1>3, <1>4

(* An answer about events that are all in what is indexed.                 *)
LEMMA CorrelatedIs ==
    ASSUME corTime \in Nat, NEW all, ParsedList(all), NEW events, ParsedList(events),
           ToSet(events) \subseteq ToSet(all)
    PROVE  Sees(Correlated(all, events), all, corTime)
<1>1. PICK a : a = Correlated(all, events)
  OBVIOUS
<1>2. PICK source, target, user, chain :
          /\ source = Correlate(all, events, "source") /\ target = Correlate(all, events, "target")
          /\ user = Correlate(all, events, "user") /\ chain = DetectAttackChain(events)
  OBVIOUS
<1>3. PICK found : found = source \o target \o user \o chain
  OBVIOUS
<1>4. /\ CorrelationOf(source, all, events, "source")
      /\ CorrelationOf(target, all, events, "target")
      /\ CorrelationOf(user, all, events, "user")
  BY <1>2, CorrelateIs DEF ParsedList
<1>5. ChainOf(chain, events)
  BY <1>2, DetectAttackChainIs
<1>6. a = IF \E c \in ToSet(found) : c.kind = "raises"
          THEN [NoCorrelation EXCEPT !.status = "failed", !.of = events]
          ELSE [status |-> IF found = <<>> THEN "partial" ELSE "success",
                found |-> found, primary |-> SelectPrimary(found), of |-> events]
  BY <1>1, <1>2, <1>3 DEF Correlated
<1>7. PICK raised : raised = <<Found("raises", 0, <<>>)>>
  OBVIOUS
<1>8. /\ IsList(raised) /\ ToSet(raised) = {Found("raises", 0, <<>>)}
  <2>1. raised \in Seq({Found("raises", 0, <<>>)}) /\ DOMAIN raised = {1}
        /\ raised[1] = Found("raises", 0, <<>>)
    BY <1>7
  <2> QED BY <2>1, ListOf DEF ToSet
<1>9. /\ source # raised => IsList(source)
      /\ target # raised => IsList(target)
      /\ user # raised => IsList(user)
      /\ chain # raised => IsList(chain)
  <2>1. source # raised => IsList(source)
    BY <1>4, <1>7, CorrelationHolds
  <2>2. target # raised => IsList(target)
    BY <1>4, <1>7, CorrelationHolds
  <2>3. user # raised => IsList(user)
    BY <1>4, <1>7, CorrelationHolds
  <2>4. chain # raised => IsList(chain)
    BY <1>5, <1>7, ChainHolds
  <2> QED BY <2>1, <2>2, <2>3, <2>4
<1>10. IsList(found) /\ ToSet(found) = ToSet(source) \cup ToSet(target) \cup ToSet(user) \cup ToSet(chain)
  <2>1. IsList(source) /\ IsList(target) /\ IsList(user) /\ IsList(chain)
    BY <1>8, <1>9
  <2>2. PICK two : two = source \o target
    OBVIOUS
  <2>3. IsList(two) /\ ToSet(two) = ToSet(source) \cup ToSet(target)
    BY <2>1, <2>2, JoinedElements
  <2>4. PICK three : three = two \o user
    OBVIOUS
  <2>5. IsList(three) /\ ToSet(three) = ToSet(two) \cup ToSet(user)
    BY <2>1, <2>3, <2>4, JoinedElements
  <2>6. found = three \o chain
    BY <1>3, <2>2, <2>4
  <2>7. IsList(found) /\ ToSet(found) = ToSet(three) \cup ToSet(chain)
    BY <2>1, <2>5, <2>6, JoinedElements
  <2> QED BY <2>3, <2>5, <2>7
<1>11. CASE raised \in {source, target, user, chain}
  <2>1. \E c \in ToSet(found) : c.kind = "raises"
    <3>1. PICK c : c = Found("raises", 0, <<>>)
      OBVIOUS
    <3>2. c \in ToSet(raised) /\ c.kind = "raises"
      BY <1>8, <3>1 DEF Found
    <3> QED BY <1>10, <1>11, <3>2
  <2>2. a.status = "failed" /\ a.found = <<>>
    BY <1>6, <2>1 DEF NoCorrelation
  <2>3. \E e \in ToSet(all) : ~e.aware
    <3>1. chain = raised => \E e \in ToSet(events) : ~e.aware
      BY <1>5, <1>7, RaisesAre
    <3>2. source = raised => \E e \in ToSet(all) : ~e.aware
      BY <1>4, <1>7, RaisesAre
    <3>3. target = raised => \E e \in ToSet(all) : ~e.aware
      BY <1>4, <1>7, RaisesAre
    <3>4. user = raised => \E e \in ToSet(all) : ~e.aware
      BY <1>4, <1>7, RaisesAre
    <3> QED BY <1>11, <3>1, <3>2, <3>3, <3>4
  <2>4. ToSet(<<>>) = {}
    BY DEF ToSet
  <2> QED BY <1>1, <2>2, <2>3, <2>4 DEF Sees
<1>12. CASE raised \notin {source, target, user, chain}
  <2>1. /\ \A c \in ToSet(source) : FitsTogether(c) /\ c.kind # "raises"
        /\ \A e \in ToSet(events) :
              (/\ e["source"] # NoKey
               /\ Cardinality(CountedFor(all, "source", e["source"], corTime)) >= Threshold("source")) =>
                  \E c \in ToSet(source) : c.kind = "source"
    BY <1>4, <1>7, <1>12, CorrelationHolds
  <2>2. /\ \A c \in ToSet(target) : FitsTogether(c) /\ c.kind # "raises"
        /\ \A e \in ToSet(events) :
              (/\ e["target"] # NoKey
               /\ Cardinality(CountedFor(all, "target", e["target"], corTime)) >= Threshold("target")) =>
                  \E c \in ToSet(target) : c.kind = "target"
    BY <1>4, <1>7, <1>12, CorrelationHolds
  <2>3. /\ \A c \in ToSet(user) : FitsTogether(c) /\ c.kind # "raises"
        /\ \A e \in ToSet(events) :
              (/\ e["user"] # NoKey
               /\ Cardinality(CountedFor(all, "user", e["user"], corTime)) >= Threshold("user")) =>
                  \E c \in ToSet(user) : c.kind = "user"
    BY <1>4, <1>7, <1>12, CorrelationHolds
  <2>4. /\ \A c \in ToSet(chain) : FitsTogether(c) /\ c.kind # "raises"
        /\ (Orderly(StagedOf(events)) /\ Cardinality(StagesIn(StagedOf(events))) >= MinChain) =>
              \E c \in ToSet(chain) :
                 c.kind = "chain" /\ StagesIn(ToSet(c.events)) = StagesIn(StagedOf(events))
    BY <1>5, <1>7, <1>12, ChainHolds
  <2>5. ~\E c \in ToSet(found) : c.kind = "raises"
    BY <1>10, <2>1, <2>2, <2>3, <2>4
  <2>6. a.status \in {"partial", "success"} /\ a.found = found /\ a.of = events
    BY <1>6, <2>5
  <2>7. SlowSeen(a, all, corTime)
    BY <1>10, <2>1, <2>2, <2>3, <2>6 DEF SlowSeen
  <2>8. OrderlySeen(a)
    BY <1>10, <2>4, <2>6 DEF OrderlySeen, StagedOf
  <2>9. \A c \in ToSet(found) : FitsTogether(c)
    BY <1>10, <2>1, <2>2, <2>3, <2>4
  <2> QED BY <1>1, <2>6, <2>7, <2>8, <2>9 DEF Sees
<1> QED BY <1>11, <1>12

CorrelationInv == /\ corTime \in Nat /\ ParsedList(indexed)
                  /\ AttacksAreSeen

(* With time fewer events are recent.                                      *)
LEMMA SeenLater ==
    ASSUME NEW answer, NEW all, ParsedList(all), NEW t \in Nat, Sees(answer, all, t)
    PROVE  Sees(answer, all, t + 1)
<1>1. PICK n : n \in Nat /\ DOMAIN all = 1..n /\ \A i \in 1..n : all[i].at \in Int
  BY ListIs DEF ParsedList, Parsed
<1>2. ASSUME NEW kind \in {"source", "target", "user"}, NEW key,
             Cardinality(CountedFor(all, kind, key, t + 1)) >= Threshold(kind)
      PROVE  Cardinality(CountedFor(all, kind, key, t)) >= Threshold(kind)
  <2>1. PICK X, Y : X = CountedFor(all, kind, key, t + 1) /\ Y = CountedFor(all, kind, key, t)
    OBVIOUS
  <2>2. X \subseteq Y /\ Y \subseteq 1..n
    <3>1. CorWindow \in Nat
      BY CorrelationAssumption
    <3> QED BY <1>1, <2>1, <3>1 DEF CountedFor
  <2>3. IsFiniteSet(1..n)
    BY <1>1, FS_Interval
  <2>4. IsFiniteSet(Y)
    BY <2>2, <2>3, FS_Subset
  <2>5. Cardinality(X) <= Cardinality(Y) /\ IsFiniteSet(X)
    BY <2>2, <2>4, FS_Subset
  <2>6. Cardinality(X) \in Nat /\ Cardinality(Y) \in Nat /\ Threshold(kind) \in Nat
    BY <2>4, <2>5, FS_CardinalityType, CorrelationAssumption DEF Threshold
  <2> QED BY <1>2, <2>1, <2>5, <2>6
<1>3. SlowSeen(answer, all, t) => SlowSeen(answer, all, t + 1)
  BY <1>2 DEF SlowSeen
<1> QED BY <1>3 DEF Sees

(* Attacks are seen, whatever came with which task: the counts go over all *)
(* that was ever indexed, and an event that is added to a chain keeps it   *)
(* in order and, where the stages are, complete.                           *)
THEOREM AttacksSeen == CorrelationSpec => []AttacksAreSeen
<1>1. CorrelationInit => CorrelationInv
  <2> SUFFICES ASSUME CorrelationInit PROVE CorrelationInv
    OBVIOUS
  <2>1. ParsedList(<<>>)
    <3>1. <<>> \in Seq({}) /\ Len(<<>>) = 0
      OBVIOUS
    <3>2. IsList(<<>>)
      BY <3>1, ListOf
    <3> QED BY <3>1, <3>2 DEF ParsedList
  <2>2. corAnswer.status = "none" /\ corAnswer.found = <<>> /\ ToSet(<<>>) = {}
    BY DEF CorrelationInit, NoCorrelation, ToSet
  <2>3. Sees(corAnswer, indexed, corTime)
    BY <2>2 DEF Sees
  <2> QED BY <2>1, <2>3, SeesIs DEF CorrelationInit, CorrelationInv
<1>2. ASSUME CorrelationInv, NEW t \in CorTasks, ProcessCorrelation(t) PROVE CorrelationInv'
  <2>1. PICK events : events = [n \in DOMAIN t |-> ParseEvent(t[n])]
    OBVIOUS
  <2>2. corTime \in Nat /\ ParsedList(indexed)
    BY <1>2 DEF CorrelationInv
  <2>3. ParsedList(events)
    BY <2>1, <2>2, ParsedTask
  <2>4. PICK all : all = indexed \o events
    OBVIOUS
  <2>5. indexed' = all /\ corAnswer' = Correlated(all, events) /\ corTime' = corTime
    BY <1>2, <2>1, <2>4 DEF ProcessCorrelation
  <2>6. ParsedList(all)
    BY <2>2, <2>3, <2>4, ParsedJoined
  <2>7. ToSet(events) \subseteq ToSet(all)
    BY <2>2, <2>3, <2>4, JoinedElements DEF ParsedList
  <2>8. Sees(corAnswer', indexed', corTime')
    BY <2>2, <2>3, <2>5, <2>6, <2>7, CorrelatedIs
  <2>9. AttacksAreSeen' <=> Sees(corAnswer', indexed', corTime')
    <3>1. ToSet(Kinds) = {"source", "target", "user"}
      BY DEF Kinds, ToSet
    <3> QED
      BY <3>1 DEF AttacksAreSeen, Sees, SlowSeen, OrderlySeen, Orderly, StagesIn, FitsTogether, CountedFor
  <2> QED BY <2>2, <2>5, <2>6, <2>8, <2>9 DEF CorrelationInv
<1>3. ASSUME CorrelationInv, CorTimePasses PROVE CorrelationInv'
  <2>1. corTime \in Nat /\ ParsedList(indexed) /\ Sees(corAnswer, indexed, corTime)
    BY <1>3, SeesIs DEF CorrelationInv
  <2>2. corTime' = corTime + 1 /\ indexed' = indexed /\ corAnswer' = corAnswer
    BY <1>3 DEF CorTimePasses
  <2>3. Sees(corAnswer', indexed', corTime')
    BY <2>1, <2>2, SeenLater
  <2>4. AttacksAreSeen' <=> Sees(corAnswer', indexed', corTime')
    <3>1. ToSet(Kinds) = {"source", "target", "user"}
      BY DEF Kinds, ToSet
    <3> QED
      BY <3>1 DEF AttacksAreSeen, Sees, SlowSeen, OrderlySeen, Orderly, StagesIn, FitsTogether, CountedFor
  <2>5. corTime' \in Nat
    BY <2>1, <2>2
  <2> QED BY <2>1, <2>2, <2>3, <2>4, <2>5 DEF CorrelationInv
<1>4. ASSUME CorrelationInv, UNCHANGED correlationVars PROVE CorrelationInv'
  BY <1>4 DEF CorrelationInv, correlationVars, AttacksAreSeen
<1>5. CorrelationInv /\ [CorrelationNext]_correlationVars => CorrelationInv'
  BY <1>2, <1>3, <1>4 DEF CorrelationNext
<1>6. CorrelationInv => AttacksAreSeen
  BY DEF CorrelationInv
<1> QED BY <1>1, <1>5, <1>6, PTL DEF CorrelationSpec

-----------------------------------------------------------------------------
(* A beat *)

(* What each difference keeps of the sum so far, the whole sum keeps.      *)
LEMMA SumGoes ==
    ASSUME NEW n \in Nat, NEW S, NEW T, NEW base \in T[0], NEW seq, DOMAIN seq = 1..n,
           \A x \in S : \A k \in 1..n : Plus(x, seq[k]) \in S,
           \A k \in 0..n : T[k] \subseteq S,
           \A k \in 1..n : \A x \in T[k - 1] : Plus(x, seq[k]) \in T[k]
    PROVE  FoldLeft(Plus, base, seq) \in T[n]
<1> DEFINE X == S \X {seq[k] : k \in 1..n}
           F == [p \in X |-> Plus(p[1], p[2])]
           Op(x, e) == Plus(x, e)
           Is(g) == g = [P \in SUBSET (1..n) |-> IF P = {} THEN base ELSE Op(g[P \ {Max(P)}], seq[Max(P)])]
           iter == CHOOSE g : Is(g)
<1>1. FoldLeft(Plus, base, seq) = iter[1..n]
  BY DEF FoldLeft, MapThenFoldSet
<1>0. base \in S
  OBVIOUS
<1>2. \A x \in S : \A k \in 1..n : F[<<x, seq[k]>>] = Op(x, seq[k]) /\ Op(x, seq[k]) \in S
  OBVIOUS
<1>3. ASSUME NEW P \in SUBSET (1..n), P # {} PROVE Max(P) \in 1..n /\ P \ {Max(P)} \in SUBSET (1..n)
  <2>1. P \subseteq 0..n
    OBVIOUS
  <2>2. Max(P) \in P
    BY <1>3, <2>1, GreatestUpTo
  <2> QED BY <2>2
<1> HIDE DEF F, X, Op
<1>4. \E g : Is(g)
  <2>1. PICK g : Folds(g, base, seq, F, n, S)
    BY <1>0, <1>2, FoldExists
  <2>2. /\ g \in [SUBSET (1..n) -> S] /\ g[{}] = base
        /\ \A P \in SUBSET (1..n) : P # {} => g[P] = F[<<g[P \ {Max(P)}], seq[Max(P)]>>]
    BY <2>1 DEF Folds
  <2>3. \A P \in SUBSET (1..n) : P # {} => g[P] = Op(g[P \ {Max(P)}], seq[Max(P)])
    BY <1>2, <1>3, <2>2
  <2>4. g = [P \in SUBSET (1..n) |-> IF P = {} THEN base ELSE Op(g[P \ {Max(P)}], seq[Max(P)])]
    BY <2>2, <2>3
  <2> QED BY <2>4
<1>5. Is(iter)
  BY <1>4
<1> HIDE DEF iter
<1>6. /\ iter[{}] = base
      /\ \A P \in SUBSET (1..n) :
             P # {} /\ iter[P \ {Max(P)}] \in S => iter[P] = F[<<iter[P \ {Max(P)}], seq[Max(P)]>>]
  <2>1. iter[{}] = base
    BY <1>5
  <2>2. ASSUME NEW P \in SUBSET (1..n), P # {}, iter[P \ {Max(P)}] \in S
        PROVE  iter[P] = F[<<iter[P \ {Max(P)}], seq[Max(P)]>>]
    BY <1>2, <1>3, <1>5, <2>2
  <2> QED BY <2>1, <2>2
<1>7. iter[1..n] \in T[n]
  <2>1. ASSUME NEW k \in 1..n, NEW x \in T[k - 1] PROVE F[<<x, seq[k]>>] \in T[k]
    <3>1. k - 1 \in 0..n /\ Op(x, seq[k]) \in T[k]
      BY DEF Op
    <3> QED BY <1>2, <3>1
  <2> QED BY <1>6, <2>1, FoldGoes
<1> QED BY <1>1, <1>7

(* And of the sum of squares.                                             *)
LEMMA SquaresGo ==
    ASSUME NEW n \in Nat, NEW S, NEW T, NEW base \in T[0], NEW seq, DOMAIN seq = 1..n,
           \A x \in S : \A k \in 1..n : PlusSquare(x, seq[k]) \in S,
           \A k \in 0..n : T[k] \subseteq S,
           \A k \in 1..n : \A x \in T[k - 1] : PlusSquare(x, seq[k]) \in T[k]
    PROVE  FoldLeft(PlusSquare, base, seq) \in T[n]
<1> DEFINE X == S \X {seq[k] : k \in 1..n}
           F == [p \in X |-> PlusSquare(p[1], p[2])]
           Op(x, e) == PlusSquare(x, e)
           Is(g) == g = [P \in SUBSET (1..n) |-> IF P = {} THEN base ELSE Op(g[P \ {Max(P)}], seq[Max(P)])]
           iter == CHOOSE g : Is(g)
<1>1. FoldLeft(PlusSquare, base, seq) = iter[1..n]
  BY DEF FoldLeft, MapThenFoldSet
<1>0. base \in S
  OBVIOUS
<1>2. \A x \in S : \A k \in 1..n : F[<<x, seq[k]>>] = Op(x, seq[k]) /\ Op(x, seq[k]) \in S
  OBVIOUS
<1>3. ASSUME NEW P \in SUBSET (1..n), P # {} PROVE Max(P) \in 1..n /\ P \ {Max(P)} \in SUBSET (1..n)
  <2>1. P \subseteq 0..n
    OBVIOUS
  <2>2. Max(P) \in P
    BY <1>3, <2>1, GreatestUpTo
  <2> QED BY <2>2
<1> HIDE DEF F, X, Op
<1>4. \E g : Is(g)
  <2>1. PICK g : Folds(g, base, seq, F, n, S)
    BY <1>0, <1>2, FoldExists
  <2>2. /\ g \in [SUBSET (1..n) -> S] /\ g[{}] = base
        /\ \A P \in SUBSET (1..n) : P # {} => g[P] = F[<<g[P \ {Max(P)}], seq[Max(P)]>>]
    BY <2>1 DEF Folds
  <2>3. \A P \in SUBSET (1..n) : P # {} => g[P] = Op(g[P \ {Max(P)}], seq[Max(P)])
    BY <1>2, <1>3, <2>2
  <2>4. g = [P \in SUBSET (1..n) |-> IF P = {} THEN base ELSE Op(g[P \ {Max(P)}], seq[Max(P)])]
    BY <2>2, <2>3
  <2> QED BY <2>4
<1>5. Is(iter)
  BY <1>4
<1> HIDE DEF iter
<1>6. /\ iter[{}] = base
      /\ \A P \in SUBSET (1..n) :
             P # {} /\ iter[P \ {Max(P)}] \in S => iter[P] = F[<<iter[P \ {Max(P)}], seq[Max(P)]>>]
  <2>1. iter[{}] = base
    BY <1>5
  <2>2. ASSUME NEW P \in SUBSET (1..n), P # {}, iter[P \ {Max(P)}] \in S
        PROVE  iter[P] = F[<<iter[P \ {Max(P)}], seq[Max(P)]>>]
    BY <1>2, <1>3, <1>5, <2>2
  <2> QED BY <2>1, <2>2
<1>7. iter[1..n] \in T[n]
  <2>1. ASSUME NEW k \in 1..n, NEW x \in T[k - 1] PROVE F[<<x, seq[k]>>] \in T[k]
    <3>1. k - 1 \in 0..n /\ Op(x, seq[k]) \in T[k]
      BY DEF Op
    <3> QED BY <1>2, <3>1
  <2> QED BY <1>6, <2>1, FoldGoes
<1> QED BY <1>1, <1>7

LEMMA Multiples ==
    ASSUME NEW g \in Nat \ {0}, NEW a \in Int, NEW b \in Int, g * a < g * b
    PROVE  a < b
OBVIOUS

LEMMA NextMultiple ==
    ASSUME NEW g \in Nat, NEW a \in Int
    PROVE  g * (a + 1) = g * a + g /\ g * a \in Int
OBVIOUS

LEMMA MultiplesGrow ==
    ASSUME NEW g \in Nat \ {0}, NEW a \in Int, NEW b \in Int, a < b
    PROVE  g * a < g * b
OBVIOUS

(* Equal differences, so many times the one.                               *)
LEMMA EvenSums ==
    ASSUME NEW m \in Nat \ {0}, NEW g \in Nat \ {0}, NEW s, DOMAIN s = 1..m, \A k \in 1..m : s[k] = g
    PROVE  FoldLeft(Plus, 0, s) = m * g /\ FoldLeft(PlusSquare, 0, s) = m * (g * g)
<1>1. ASSUME NEW h \in Nat, NEW k \in 1..m PROVE (k - 1) * h + h = k * h /\ k * h \in Nat /\ (k - 1) * h \in Nat
  OBVIOUS
<1>2. FoldLeft(Plus, 0, s) \in {m * g}
  <2> DEFINE T == [k \in 0..m |-> {k * g}]
  <2>1. 0 \in T[0]
    OBVIOUS
  <2>2. \A x \in Int : \A k \in 1..m : Plus(x, s[k]) \in Int
    BY DEF Plus
  <2>3. \A k \in 0..m : T[k] \subseteq Int
    OBVIOUS
  <2>4. \A k \in 1..m : \A x \in T[k - 1] : Plus(x, s[k]) \in T[k]
    BY <1>1 DEF Plus
  <2>5. FoldLeft(Plus, 0, s) \in T[m]
    <3> HIDE DEF T
    <3>1. m \in Nat
      OBVIOUS
    <3> QED BY <2>1, <2>2, <2>3, <2>4, <3>1, SumGoes
  <2> QED BY <2>5
<1>3. FoldLeft(PlusSquare, 0, s) \in {m * (g * g)}
  <2>0. PICK h : h \in Nat /\ h = g * g
    OBVIOUS
  <2> DEFINE T == [k \in 0..m |-> {k * h}]
  <2>1. 0 \in T[0]
    BY <2>0
  <2>2. \A x \in Int : \A k \in 1..m : PlusSquare(x, s[k]) \in Int
    BY DEF PlusSquare
  <2>3. \A k \in 0..m : T[k] \subseteq Int
    BY <2>0
  <2>4. \A k \in 1..m : \A x \in T[k - 1] : PlusSquare(x, s[k]) \in T[k]
    BY <1>1, <2>0 DEF PlusSquare
  <2>5. FoldLeft(PlusSquare, 0, s) \in T[m]
    <3> HIDE DEF T
    <3>1. m \in Nat
      OBVIOUS
    <3> QED BY <2>1, <2>2, <2>3, <2>4, <3>1, SquaresGo
  <2> QED BY <2>0, <2>5
<1> QED BY <1>2, <1>3

LEMMA EvenIsRegular ==
    ASSUME NEW m \in Nat \ {0}, NEW g \in Nat \ {0}, NEW s, DOMAIN s = 1..m, Len(s) = m,
           \A k \in 1..m : s[k] = g
    PROVE  Regular(s)
<1>1. FoldLeft(Plus, 0, s) = m * g /\ FoldLeft(PlusSquare, 0, s) = m * (g * g)
  BY EvenSums
<1>2. PICK u : u \in Nat /\ u > 0 /\ u = m * g
  OBVIOUS
<1>3. m * (m * (g * g)) = u * u
  BY <1>2
<1>4. u * u > 0 /\ u * u \in Nat
  BY <1>2
<1>5. PICK t : t \in Nat /\ t > 0 /\ t = Tolerance * Tolerance
  BY NetworkAssumption
<1>6. t * u \in Nat /\ t * u > 0
  BY <1>2, <1>5
<1>7. (t * u) * u > 0
  BY <1>2, <1>6
<1>8. 10000 * (u * u - u * u) = 0
  BY <1>4
<1>9. Regular(s) <=> 10000 * (m * (m * (g * g)) - (m * g) * (m * g)) < Tolerance * Tolerance * (m * g) * (m * g)
  BY <1>1 DEF Regular
<1> QED BY <1>2, <1>3, <1>5, <1>7, <1>8, <1>9

(* Times in order, with their differences and those that are not zero.     *)
Rises(t, n) == /\ n \in Nat \ {0} /\ DOMAIN t = 1..n
               /\ \A i \in 1..n : t[i] \in Int
               /\ \A i, j \in 1..n : i < j => t[i] <= t[j]

SortedTimes(stamps) == SortedBy([k \in DOMAIN stamps |-> stamps[k].at], LAMBDA x : x)

TimesOf(stamps) == {s.at : s \in ToSet(stamps)}

Reaches(t, n, X) == \A x : x \in X <=> \E k \in 1..n : t[k] = x

LEMMA TimesAreOrdered ==
    ASSUME NEW stamps, IsList(stamps), Len(stamps) > 0, \A k \in 1..Len(stamps) : stamps[k].at \in Int,
           NEW t, t = SortedTimes(stamps)
    PROVE  /\ Rises(t, Len(stamps)) /\ Len(t) = Len(stamps)
           /\ Reaches(t, Len(stamps), TimesOf(stamps))
<1>1. PICK n : n \in Nat \ {0} /\ n = Len(stamps) /\ DOMAIN stamps = 1..n
  BY ListIs
<1>2. PICK ats : ats = [k \in 1..n |-> stamps[k].at]
  OBVIOUS
<1>3. ats \in [1..n -> Int] /\ DOMAIN ats = 1..n
  BY <1>1, <1>2
<1>4. t = At(ats, InOrder(ats))
  <2>1. [k \in DOMAIN ats |-> ats[k]] = ats
    BY <1>3
  <2> QED BY <1>1, <1>2, <2>1 DEF SortedTimes, SortedBy
<1>5. PICK o : Sorts(o, ats, n) /\ t = At(ats, o)
  <2>1. n \in Nat
    BY <1>1
  <2> QED BY <1>3, <1>4, <2>1, SortedIs
<1>6. /\ \A k \in 1..n : o[k] \in 1..n
      /\ \A p \in 1..n : \E k \in 1..n : o[k] = p
      /\ \A j, k \in 1..n : j < k => Before(ats, o[j], o[k])
      /\ DOMAIN o = 1..n
  BY <1>5 DEF Sorts
<1>7. DOMAIN t = 1..n /\ t = [k \in 1..n |-> t[k]] /\ \A k \in 1..n : t[k] = ats[o[k]]
  BY <1>5, <1>6 DEF At
<1>8. IsList(t) /\ Len(t) = n
  BY <1>1, <1>7, ListFrom
<1>9. \A k \in 1..n : t[k] \in Int
  BY <1>3, <1>6, <1>7
<1>10. \A i, j \in 1..n : i < j => t[i] <= t[j]
  <2> SUFFICES ASSUME NEW i \in 1..n, NEW j \in 1..n, i < j PROVE t[i] <= t[j]
    OBVIOUS
  <2>1. Before(ats, o[i], o[j]) /\ t[i] = ats[o[i]] /\ t[j] = ats[o[j]]
    BY <1>6, <1>7
  <2>2. t[i] \in Int /\ t[j] \in Int
    BY <1>9
  <2> QED BY <2>1, <2>2 DEF Before
<1>11. ASSUME NEW x, x \in TimesOf(stamps) PROVE \E k \in 1..n : t[k] = x
  <2>1. PICK p \in 1..n : x = stamps[p].at
    BY <1>1, <1>11 DEF ToSet, TimesOf
  <2>2. PICK k \in 1..n : o[k] = p
    BY <1>6
  <2> QED BY <1>2, <1>7, <2>1, <2>2
<1>12. ASSUME NEW x, NEW k \in 1..n, t[k] = x PROVE x \in TimesOf(stamps)
  <2>1. o[k] \in 1..n /\ x = stamps[o[k]].at
    BY <1>2, <1>6, <1>7, <1>12
  <2>2. stamps[o[k]] \in ToSet(stamps)
    BY <1>1, <2>1 DEF ToSet
  <2> QED BY <2>1, <2>2 DEF TimesOf
<1>13. Rises(t, n)
  BY <1>1, <1>7, <1>9, <1>10 DEF Rises
<1> QED BY <1>1, <1>8, <1>11, <1>12, <1>13 DEF Reaches

(* Where times are all at so many gaps from the first, the next that is    *)
(* later is one gap later.                                                 *)
OnBeat(t, n, c, g, first) ==
    /\ \A k \in 1..n : \E a \in 0..c : t[k] = first + g * a
    /\ \A a \in 0..c : \E k \in 1..n : t[k] = first + g * a

LEMMA NextIsOneGapLater ==
    ASSUME NEW n, NEW t, Rises(t, n), NEW c \in Nat, NEW g \in Nat \ {0}, NEW first \in Int,
           OnBeat(t, n, c, g, first),
           NEW i \in 1..(n - 1), t[i] < t[i + 1]
    PROVE  t[i + 1] - t[i] = g
<1>1. n \in Nat /\ i \in 1..n /\ i + 1 \in 1..n
  BY DEF Rises
<1>2. PICK a \in 0..c : t[i] = first + g * a
  BY <1>1 DEF OnBeat
<1>3. PICK b \in 0..c : t[i + 1] = first + g * b
  BY <1>1 DEF OnBeat
<1>4. g * a \in Int /\ g * b \in Int /\ g * (a + 1) = g * a + g
  BY NextMultiple
<1>5. a < b
  <2>1. g * a < g * b
    BY <1>2, <1>3, <1>4
  <2> QED BY <2>1, Multiples
<1>6. CASE b = a + 1
  BY <1>2, <1>3, <1>4, <1>6
<1>7. CASE a + 1 < b
  <2>1. PICK d : d \in 0..c /\ d = a + 1
    BY <1>7
  <2>2. PICK j \in 1..n : t[j] = first + g * d
    BY <2>1 DEF OnBeat
  <2>3. a < d /\ d < b /\ a \in Int /\ b \in Int /\ d \in Int
    BY <1>7, <2>1
  <2>4. g * a < g * d /\ g * d < g * b
    BY <2>3, MultiplesGrow
  <2>5. g * d \in Int
    BY <2>3
  <2>6. t[i] < t[j] /\ t[j] < t[i + 1] /\ t[i] \in Int /\ t[j] \in Int /\ t[i + 1] \in Int
    BY <1>2, <1>3, <1>4, <2>2, <2>4, <2>5
  <2>7. j <= i \/ i + 1 <= j
    BY <1>1
  <2>8. j <= i => t[j] <= t[i]
    BY <1>1, <2>6 DEF Rises
  <2>9. i + 1 <= j => t[i + 1] <= t[j]
    BY <1>1, <2>6 DEF Rises
  <2> QED BY <2>6, <2>7, <2>8, <2>9
<1> QED BY <1>5, <1>6, <1>7

(* Each time but the first is later than the one before it somewhere, so   *)
(* there is at most one time more than there are differences.              *)
LEMMA TimesAreFew ==
    ASSUME NEW n, NEW t, Rises(t, n), NEW D, D = {k \in 1..(n - 1) : t[k + 1] - t[k] > 0},
           NEW N \in Nat, NEW o, Enumerates(o, N, D), NEW X, Reaches(t, n, X)
    PROVE  Cardinality(X) <= N + 1
<1>1. n \in Nat \ {0} /\ \A i \in 1..n : t[i] \in Int
  BY DEF Rises
<1>2. PICK h : h = [k \in 0..N |-> IF k = 0 THEN t[1] ELSE t[o[k] + 1]]
  OBVIOUS
<1>3. h \in [0..N -> X]
  <2>1. ASSUME NEW k \in 0..N PROVE h[k] \in X
    <3>1. CASE k = 0
      <4>1. 1 \in 1..n
        BY <1>1
      <4> QED BY <1>2, <3>1, <4>1 DEF Reaches
    <3>2. CASE k # 0
      <4>1. k \in 1..N
        BY <3>2
      <4>2. o[k] \in D
        BY <4>1 DEF Enumerates
      <4>3. o[k] + 1 \in 1..n
        BY <1>1, <4>2
      <4> QED BY <1>2, <3>2, <4>3 DEF Reaches
    <3> QED BY <3>1, <3>2
  <2> QED BY <1>2, <2>1
<1>4. ASSUME NEW x \in X PROVE \E k \in 0..N : h[k] = x
  <2>1. PICK J : J = {k \in 1..n : t[k] = x}
    OBVIOUS
  <2>2. n \in Nat /\ J \subseteq 1..n /\ J # {}
    BY <1>1, <2>1 DEF Reaches
  <2>3. PICK j : j \in J /\ j \in 1..n /\ \A i \in J : j <= i
    BY <2>2, FirstIs
  <2>4. CASE j = 1
    BY <1>2, <2>1, <2>3, <2>4
  <2>5. CASE j # 1
    <3>1. PICK i : i \in 1..(n - 1) /\ i + 1 = j /\ i < j /\ i \in 1..n
      <4>1. j - 1 \in 1..(n - 1) /\ (j - 1) + 1 = j /\ j - 1 < j /\ j - 1 \in 1..n
        BY <1>1, <2>3, <2>5
      <4> QED BY <4>1
    <3>2. i \notin J
      BY <2>3, <3>1
    <3>3. t[i] <= t[j] /\ t[i] # t[j] /\ t[i] \in Int /\ t[j] \in Int /\ t[j] = x
      BY <1>1, <2>1, <2>3, <3>1, <3>2 DEF Rises
    <3>4. i \in D
      BY <3>1, <3>3
    <3>5. PICK k \in 1..N : o[k] = i
      BY <3>4 DEF Enumerates
    <3>6. k \in 0..N /\ k # 0
      OBVIOUS
    <3> QED BY <1>2, <3>1, <3>3, <3>5, <3>6
  <2> QED BY <2>4, <2>5
<1>5. h \in Surjection(0..N, X)
  BY <1>3, <1>4 DEF Surjection
<1>6. IsFiniteSet(0..N) /\ Cardinality(0..N) = N + 1
  <2>1. 0 \in Int /\ N \in Int
    OBVIOUS
  <2>2. Cardinality(0..N) = IF 0 > N THEN 0 ELSE N - 0 + 1
    BY <2>1, FS_Interval
  <2> QED BY <2>1, <2>2, FS_Interval
<1> QED BY <1>5, <1>6, FS_Surjection

MultiplesFrom(first, g, c) == {first + g * k : k \in 0..c}

(* A beat of four times or more is regular, however often each time comes. *)
LEMMA EvenBeat ==
    ASSUME NEW stamps, IsList(stamps), Len(stamps) > 0, \A k \in 1..Len(stamps) : stamps[k].at \in Int,
           NEW X, X = TimesOf(stamps), Cardinality(X) \in Nat, Cardinality(X) >= 4,
           EvenlySpaced(X)
    PROVE  Len(Deltas(stamps)) >= 3 /\ Regular(Deltas(stamps))
<1>1. PICK t : t = SortedTimes(stamps)
  OBVIOUS
<1>2. PICK n : n = Len(stamps)
  OBVIOUS
<1>3. Rises(t, n) /\ Len(t) = n /\ Reaches(t, n, X)
  BY <1>1, <1>2, TimesAreOrdered
<1>4. n \in Nat \ {0} /\ \A k \in 1..n : t[k] \in Int
  BY <1>3 DEF Rises
<1>5. PICK gaps : gaps = [k \in 1..(n - 1) |-> t[k + 1] - t[k]]
  OBVIOUS
<1>6. PICK D : D = {k \in 1..(n - 1) : gaps[k] > 0}
  OBVIOUS
<1>7. PICK deltas : deltas = Kept(gaps, D)
  OBVIOUS
<1>8. Deltas(stamps) = deltas
  BY <1>1, <1>3, <1>5, <1>6, <1>7 DEF Deltas, Those, SortedTimes
<1>9. PICK N, o : Selects(deltas, o, N, gaps, D)
  <2>1. n - 1 \in Nat /\ D \subseteq 1..(n - 1)
    BY <1>4, <1>6
  <2>2. PICK m : m \in Nat /\ m = n - 1
    BY <2>1
  <2>3. D \subseteq 1..m
    BY <2>1, <2>2
  <2> QED BY <1>7, <2>2, <2>3, KeptElements
<1>10. /\ Enumerates(o, N, D) /\ N \in Nat /\ DOMAIN deltas = 1..N /\ Len(deltas) = N
       /\ \A k \in 1..N : o[k] \in D /\ deltas[k] = gaps[o[k]]
  BY <1>9 DEF Selects
<1>11. D = {k \in 1..(n - 1) : t[k + 1] - t[k] > 0}
  BY <1>5, <1>6
<1>12. Cardinality(X) <= N + 1
  BY <1>3, <1>10, <1>11, TimesAreFew
<1>13. N >= 3
  BY <1>10, <1>12
<1>14. PICK c : c \in Nat /\ c = Cardinality(X) - 1
  <2>1. Cardinality(X) - 1 \in Nat
    OBVIOUS
  <2> QED BY <2>1
<1>15. PICK first, g : first \in X /\ g \in Nat \ {0} /\ X = MultiplesFrom(first, g, c)
  <2>1. PICK first \in X : \E gap \in 1..(Max(X) - first + 1) :
                               X = {first + gap * k : k \in 0..(Cardinality(X) - 1)}
    BY DEF EvenlySpaced
  <2>2. PICK gap \in 1..(Max(X) - first + 1) : X = {first + gap * k : k \in 0..(Cardinality(X) - 1)}
    BY <2>1
  <2>3. gap \in Nat \ {0} /\ X = MultiplesFrom(first, gap, c)
    BY <1>14, <2>2 DEF MultiplesFrom
  <2> QED BY <2>3
<1>16. first \in Int
  BY <1>3, <1>4, <1>15 DEF Reaches
<1>17. OnBeat(t, n, c, g, first)
  <2>1. ASSUME NEW k \in 1..n PROVE \E a \in 0..c : t[k] = first + g * a
    <3>1. t[k] \in MultiplesFrom(first, g, c)
      BY <1>3, <1>15 DEF Reaches
    <3> QED BY <3>1 DEF MultiplesFrom
  <2>2. ASSUME NEW a \in 0..c PROVE \E k \in 1..n : t[k] = first + g * a
    <3>1. first + g * a \in X
      BY <1>15 DEF MultiplesFrom
    <3> QED BY <1>3, <3>1 DEF Reaches
  <2> QED BY <2>1, <2>2 DEF OnBeat
<1>18. \A k \in 1..N : deltas[k] = g
  <2> SUFFICES ASSUME NEW k \in 1..N PROVE deltas[k] = g
    OBVIOUS
  <2>1. PICK i : i = o[k]
    OBVIOUS
  <2>2. i \in 1..(n - 1) /\ gaps[i] > 0 /\ deltas[k] = gaps[i]
    BY <1>6, <1>10, <2>1
  <2>3. gaps[i] = t[i + 1] - t[i] /\ t[i] < t[i + 1]
    <3>1. i \in 1..n /\ i + 1 \in 1..n
      BY <1>4, <2>2
    <3> QED BY <1>4, <1>5, <2>2, <3>1
  <2>4. t[i + 1] - t[i] = g
    BY <1>3, <1>14, <1>15, <1>16, <1>17, <2>2, <2>3, NextIsOneGapLater
  <2> QED BY <2>2, <2>3, <2>4
<1>19. Regular(deltas)
  <2>1. N \in Nat \ {0}
    BY <1>10, <1>13
  <2> QED BY <1>10, <1>15, <1>18, <2>1, EvenIsRegular
<1> QED BY <1>8, <1>10, <1>13, <1>19

LEMMA AppendedElements ==
    ASSUME NEW s, IsList(s), NEW x
    PROVE  IsList(Append(s, x)) /\ ToSet(Append(s, x)) = ToSet(s) \cup {x}
<1>1. PICK n : n \in Nat /\ n = Len(s) /\ DOMAIN s = 1..n
  BY ListIs
<1>2. PICK a : a = Append(s, x)
  OBVIOUS
<1>3. IsList(a) /\ Len(a) = n + 1 /\ a[n + 1] = x /\ \A k \in 1..n : a[k] = s[k]
  BY <1>1, <1>2, AppendedIs
<1>4. DOMAIN a = 1..(n + 1)
  BY <1>3, ListIs
<1>5. ToSet(a) = {a[k] : k \in 1..(n + 1)} /\ ToSet(s) = {s[k] : k \in 1..n}
  BY <1>1, <1>4 DEF ToSet
<1>6. ASSUME NEW y \in ToSet(a) PROVE y \in ToSet(s) \cup {x}
  <2>1. PICK k \in 1..(n + 1) : y = a[k]
    BY <1>5, <1>6
  <2>2. k = n + 1 \/ k \in 1..n
    BY <1>1
  <2> QED BY <1>3, <1>5, <2>1, <2>2
<1>7. ASSUME NEW y \in ToSet(s) \cup {x} PROVE y \in ToSet(a)
  <2>1. CASE y = x
    <3>1. n + 1 \in 1..(n + 1)
      BY <1>1
    <3> QED BY <1>3, <1>5, <2>1, <3>1
  <2>2. CASE y \in ToSet(s)
    <3>1. PICK k \in 1..n : y = s[k]
      BY <1>5, <2>2
    <3>2. k \in 1..(n + 1)
      BY <1>1
    <3> QED BY <1>3, <1>5, <3>1, <3>2
  <2> QED BY <1>7, <2>1, <2>2
<1> QED BY <1>2, <1>3, <1>6, <1>7

-----------------------------------------------------------------------------
(* What is heard *)

LEMMA IfIsList == ASSUME NEW condition, NEW i PROVE IsList(If(condition, i))
<1>1. CASE condition
  <2>1. If(condition, i) \in Seq({i})
    BY <1>1 DEF If
  <2> QED BY <2>1, ListOf
<1>2. CASE ~condition
  <2>1. If(condition, i) \in Seq({i})
    BY <1>2 DEF If
  <2> QED BY <2>1, ListOf
<1> QED BY <1>1, <1>2

LEMMA DetectedHas ==
    ASSUME NEW f
    PROVE  \A i \in ToSet(DetectBeaconing(f)) : i \in ToSet(Detected(f))
<1>1. PICK c1, c2, c3, scan, exfil, d1, d2, beacon, lateral :
          /\ c1 = If("c2_port" \in f.signs, Indicator("c2", 3, 30))
          /\ c2 = If("user_agent" \in f.signs, Indicator("c2", 2, 20))
          /\ c3 = If("tld" \in f.signs, Indicator("c2", 2, 25))
          /\ scan = DetectPortScan(f) /\ exfil = DetectExfiltration(f)
          /\ d1 = If("long_query" \in f.signs, Indicator("dns", 3, 30))
          /\ d2 = If("entropy" \in f.signs, Indicator("dns", 2, 25))
          /\ beacon = DetectBeaconing(f) /\ lateral = DetectLateralMovement(f)
  OBVIOUS
<1>2. /\ IsList(c1) /\ IsList(c2) /\ IsList(c3) /\ IsList(d1) /\ IsList(d2)
      /\ IsList(scan) /\ IsList(exfil) /\ IsList(beacon) /\ IsList(lateral)
  <2>1. IsList(c1) /\ IsList(c2) /\ IsList(c3) /\ IsList(d1) /\ IsList(d2)
    BY <1>1, IfIsList
  <2>2. IsList(scan)
    BY <1>1, IfIsList DEF DetectPortScan
  <2>3. IsList(exfil)
    BY <1>1, IfIsList DEF DetectExfiltration
  <2>4. IsList(beacon)
    BY <1>1, IfIsList DEF DetectBeaconing
  <2>5. IsList(lateral)
    BY <1>1, IfIsList DEF DetectLateralMovement
  <2> QED BY <2>1, <2>2, <2>3, <2>4, <2>5
<1>3. PICK c : c = (c1 \o c2) \o c3
  OBVIOUS
<1>4. IsList(c)
  <2>1. IsList(c1 \o c2)
    BY <1>2, JoinedElements
  <2> QED BY <1>2, <1>3, <2>1, JoinedElements
<1>5. PICK d : d = d1 \o d2
  OBVIOUS
<1>6. IsList(d)
  BY <1>2, <1>5, JoinedElements
<1>7. PICK before : before = ((c \o scan) \o exfil) \o d
  OBVIOUS
<1>8. IsList(before)
  <2>1. IsList(c \o scan)
    BY <1>2, <1>4, JoinedElements
  <2>2. IsList((c \o scan) \o exfil)
    BY <1>2, <2>1, JoinedElements
  <2> QED BY <1>6, <1>7, <2>2, JoinedElements
<1>9. Detected(f) = (before \o beacon) \o lateral
  BY <1>1, <1>3, <1>5, <1>7 DEF Detected, DetectC2, DetectDnsTunneling
<1>10. PICK most : most = before \o beacon
  OBVIOUS
<1>11. IsList(most) /\ ToSet(most) = ToSet(before) \cup ToSet(beacon)
  BY <1>2, <1>8, <1>10, JoinedElements
<1>12. ToSet(most \o lateral) = ToSet(most) \cup ToSet(lateral)
  BY <1>2, <1>11, JoinedElements
<1> QED BY <1>1, <1>9, <1>10, <1>11, <1>12

From(h, p) == {f \in ToSet(h) : f.pair = p /\ f.named}

StampsFrom(h, p) == {f.stamp : f \in {g \in From(h, p) : g.stamp # Missing}}

NetworkInv ==
    /\ IsList(heard) /\ \A f \in ToSet(heard) : f.named \in BOOLEAN /\ (f.named => f \in Flows)
    /\ connections = [p \in Pairs |-> connections[p]]
    /\ \A p \in Pairs : IsList(connections[p]) /\ ToSet(connections[p]) = StampsFrom(heard, p)

BeaconHeard(h, answer) ==
    h # <<>> =>
        LET f == h[Len(h)]
            times == {g.stamp.at : g \in {k \in From(h, f.pair) : k.stamp # Missing}}
        IN  /\ (/\ answer.status # "failed" /\ f.named /\ f.stamp # Missing
                /\ Cardinality(times) >= Max({4, BeaconConnections}) /\ EvenlySpaced(times)) =>
                   \E i \in ToSet(answer.indicators) : i.kind = "beacon"
            /\ (answer.status = "failed" /\ f.named) =>
                   \/ f.bytes = Null
                   \/ \E g, k \in From(h, f.pair) : /\ Missing \notin {g.stamp, k.stamp}
                                                   /\ g.stamp.aware # k.stamp.aware

LEMMA HeardIs == BeaconsAreHeard <=> BeaconHeard(heard, networkAnswer)
BY DEF BeaconsAreHeard, BeaconHeard, HeardTimes, HeardFrom, From

LEMMA HeardKeeps ==
    ASSUME NetworkInv, NEW f \in Flows, AnalyzeFlow(f)
    PROVE  NetworkInv'
<1>1. IsList(heard') /\ heard' = Append(heard, f) /\ ToSet(heard') = ToSet(heard) \cup {f}
  <2>1. IsList(heard) /\ heard' = Append(heard, f)
    BY DEF NetworkInv, AnalyzeFlow
  <2> QED BY <2>1, AppendedElements
<1>2. f.named \in BOOLEAN /\ f.pair \in Pairs
  BY FlowsAssumption
<1>3. \A g \in ToSet(heard') : g.named \in BOOLEAN /\ (g.named => g \in Flows)
  BY <1>1, <1>2 DEF NetworkInv
<1>4. CASE Connects(f)
  <2>1. connections' = [connections EXCEPT ![f.pair] = Append(connections[f.pair], f.stamp)]
    BY <1>4 DEF AnalyzeFlow, ConnectionsAfter
  <2>2. connections' = [p \in Pairs |-> connections'[p]]
    BY <2>1 DEF NetworkInv
  <2>3. ASSUME NEW p \in Pairs PROVE IsList(connections'[p]) /\ ToSet(connections'[p]) = StampsFrom(heard', p)
    <3>1. CASE p = f.pair
      <4>1. connections'[p] = Append(connections[p], f.stamp)
        BY <2>1, <3>1 DEF NetworkInv
      <4>2. IsList(connections'[p]) /\ ToSet(connections'[p]) = ToSet(connections[p]) \cup {f.stamp}
        BY <4>1, AppendedElements DEF NetworkInv
      <4>3. StampsFrom(heard', p) = StampsFrom(heard, p) \cup {f.stamp}
        BY <1>1, <1>4, <3>1 DEF StampsFrom, From, Connects
      <4> QED BY <4>2, <4>3 DEF NetworkInv
    <3>2. CASE p # f.pair
      <4>1. connections'[p] = connections[p]
        BY <2>1, <3>2 DEF NetworkInv
      <4>2. StampsFrom(heard', p) = StampsFrom(heard, p)
        BY <1>1, <3>2 DEF StampsFrom, From
      <4> QED BY <4>1, <4>2 DEF NetworkInv
    <3> QED BY <3>1, <3>2
  <2> QED BY <1>1, <1>3, <2>2, <2>3 DEF NetworkInv
<1>5. CASE ~Connects(f)
  <2>1. connections' = connections
    BY <1>5 DEF AnalyzeFlow, ConnectionsAfter
  <2>2. \A p \in Pairs : StampsFrom(heard', p) = StampsFrom(heard, p)
    BY <1>1, <1>5 DEF StampsFrom, From, Connects
  <2> QED BY <1>1, <1>3, <2>1, <2>2 DEF NetworkInv
<1> QED BY <1>4, <1>5

(* What the connections of a pair tell of its times.                       *)
LEMMA TimesHeard ==
    ASSUME NEW h, NEW p, NEW s, ToSet(s) = StampsFrom(h, p)
    PROVE  TimesOf(s) = {g.stamp.at : g \in {k \in From(h, p) : k.stamp # Missing}}
BY DEF TimesOf, StampsFrom

LEMMA BeaconIsHeard ==
    ASSUME NetworkInv, NEW f \in Flows, AnalyzeFlow(f)
    PROVE  BeaconHeard(heard', networkAnswer')
<1>1. NetworkInv'
  BY HeardKeeps
<1>2. heard' = Append(heard, f) /\ IsList(heard)
  BY DEF AnalyzeFlow, NetworkInv
<1>3. heard'[Len(heard')] = f
  <2>1. PICK n : n = Len(heard)
    OBVIOUS
  <2> QED BY <1>2, AppendedIs
<1>4. f.pair \in Pairs /\ f.named \in BOOLEAN
  BY FlowsAssumption
<1>5. PICK stamps : stamps = connections'[f.pair]
  OBVIOUS
<1>6. IsList(stamps) /\ ToSet(stamps) = StampsFrom(heard', f.pair)
  BY <1>1, <1>4, <1>5 DEF NetworkInv
<1>7. stamps = ConnectionsAfter(f)[f.pair]
  BY <1>5 DEF AnalyzeFlow
<1>8. PICK times : times = TimesOf(stamps)
  OBVIOUS
<1>9. times = {g.stamp.at : g \in {k \in From(heard', f.pair) : k.stamp # Missing}}
  BY <1>6, <1>8, TimesHeard
<1>10. ASSUME networkAnswer'.status # "failed", f.named, f.stamp # Missing,
              Cardinality(times) >= Max({4, BeaconConnections}), EvenlySpaced(times)
       PROVE  \E i \in ToSet(networkAnswer'.indicators) : i.kind = "beacon"
  <2>1. PICK n : n \in Nat /\ n = Len(stamps) /\ DOMAIN stamps = 1..n
    BY <1>6, ListIs
  <2>2. Cardinality(times) \in Nat /\ Cardinality(times) <= n
    <3>1. PICK u : u = [k \in 1..n |-> stamps[k].at]
      OBVIOUS
    <3>2. u \in [1..n -> times] /\ \A x \in times : \E k \in 1..n : u[k] = x
      BY <1>8, <2>1, <3>1 DEF TimesOf, ToSet
    <3>3. u \in Surjection(1..n, times)
      BY <3>2 DEF Surjection
    <3>4. IsFiniteSet(1..n) /\ Cardinality(1..n) = n
      <4>1. n \in Nat
        BY <2>1
      <4> QED BY <4>1, FS_Interval
    <3> QED BY <3>3, <3>4, FS_Surjection, FS_CardinalityType
  <2>3. BeaconConnections \in Nat /\ BeaconConnections >= 2
    BY NetworkAssumption
  <2>4. Max({4, BeaconConnections}) >= 4 /\ Max({4, BeaconConnections}) >= BeaconConnections
        /\ Max({4, BeaconConnections}) \in Nat
    <3>1. PICK b : b \in Nat /\ b = BeaconConnections
      BY <2>3
    <3>2. PICK k : k \in Nat /\ 4 <= k /\ b <= k
      <4>1. 4 <= 4 + b /\ b <= 4 + b /\ 4 + b \in Nat
        BY <3>1
      <4> QED BY <4>1
    <3>3. {4, b} \subseteq 0..k /\ {4, b} # {}
      BY <3>1, <3>2
    <3>4. Max({4, b}) \in {4, b} /\ \A y \in {4, b} : y <= Max({4, b})
      BY <3>2, <3>3, GreatestUpTo
    <3> QED BY <3>1, <3>4
  <2>5. Cardinality(times) >= 4 /\ Len(stamps) >= BeaconConnections /\ Len(stamps) > 0
    BY <1>10, <2>1, <2>2, <2>3, <2>4
  <2>6. \A k \in 1..Len(stamps) : stamps[k].at \in Int
    <3> SUFFICES ASSUME NEW k \in 1..n PROVE stamps[k].at \in Int
      BY <2>1
    <3>1. stamps[k] \in StampsFrom(heard', f.pair)
      BY <1>6, <2>1 DEF ToSet
    <3>2. PICK g \in From(heard', f.pair) : g.stamp # Missing /\ stamps[k] = g.stamp
      BY <3>1 DEF StampsFrom
    <3>3. g \in Flows
      BY <1>1, <3>2 DEF From, NetworkInv
    <3> QED BY <3>2, <3>3, FlowsAssumption
  <2>7. Len(Deltas(stamps)) >= 3 /\ Regular(Deltas(stamps))
    BY <1>6, <1>8, <1>10, <2>2, <2>5, <2>6, EvenBeat
  <2>8. DetectBeaconing(f) = <<Indicator("beacon", 3, 40)>>
    BY <1>7, <1>10, <2>5, <2>7 DEF DetectBeaconing, Connects, If
  <2>9. PICK i : i = Indicator("beacon", 3, 40)
    OBVIOUS
  <2>10. i \in ToSet(DetectBeaconing(f)) /\ i.kind = "beacon"
    <3>1. DOMAIN <<i>> = {1} /\ <<i>>[1] = i
      OBVIOUS
    <3> QED BY <2>8, <2>9, <3>1 DEF ToSet, Indicator
  <2>11. i \in ToSet(Detected(f))
    BY <2>10, DetectedHas
  <2>12. Detected(f) # <<>>
    <3>1. ToSet(<<>>) = {}
      BY DEF ToSet
    <3> QED BY <2>11, <3>1
  <2>13. networkAnswer' = NetworkFinding(Detected(f))
    BY <1>10 DEF AnalyzeFlow, NothingFound
  <2>14. networkAnswer'.indicators = Detected(f)
    BY <2>12, <2>13 DEF NetworkFinding
  <2> QED BY <2>10, <2>11, <2>14
<1>11. ASSUME networkAnswer'.status = "failed", f.named
       PROVE  \/ f.bytes = Null
              \/ \E g, k \in From(heard', f.pair) : /\ Missing \notin {g.stamp, k.stamp}
                                                    /\ g.stamp.aware # k.stamp.aware
  <2>1. NetworkFinding(Detected(f)).status \in {"partial", "success"}
    BY DEF NetworkFinding, NothingFound
  <2>2. FlowRaises(f)
    BY <1>11, <2>1 DEF AnalyzeFlow
  <2>3. CASE Unsortable(stamps)
    <3>1. PICK s \in StampsFrom(heard', f.pair), t \in StampsFrom(heard', f.pair) : s.aware # t.aware
      BY <1>6, <2>3 DEF Unsortable
    <3>2. PICK g \in From(heard', f.pair) : g.stamp # Missing /\ s = g.stamp
      BY <3>1 DEF StampsFrom
    <3>3. PICK k \in From(heard', f.pair) : k.stamp # Missing /\ t = k.stamp
      BY <3>1 DEF StampsFrom
    <3> QED BY <3>1, <3>2, <3>3
  <2> QED BY <1>7, <2>2, <2>3 DEF FlowRaises
<1>12. PICK h, answer : h = heard' /\ answer = networkAnswer'
  OBVIOUS
<1> QED BY <1>3, <1>9, <1>10, <1>11, <1>12 DEF BeaconHeard

LEMMA NothingHeard ==
    ASSUME NetworkInv, AnalyzeUnreadable
    PROVE  NetworkInv' /\ BeaconHeard(heard', networkAnswer')
<1>1. PICK f : f \in Flows /\ f = (CHOOSE g \in Flows : TRUE)
  BY FlowsAssumption
<1>2. PICK g : g = [f EXCEPT !.named = FALSE]
  OBVIOUS
<1>3. g.named = FALSE
  BY <1>1, <1>2, FlowsAssumption
<1>4. heard' = Append(heard, g) /\ connections' = connections /\ IsList(heard)
  BY <1>1, <1>2 DEF AnalyzeUnreadable, NetworkInv
<1>5. IsList(heard') /\ ToSet(heard') = ToSet(heard) \cup {g}
  BY <1>4, AppendedElements
<1>6. \A p \in Pairs : StampsFrom(heard', p) = StampsFrom(heard, p)
  BY <1>3, <1>5 DEF StampsFrom, From
<1>7. NetworkInv'
  BY <1>3, <1>4, <1>5, <1>6 DEF NetworkInv
<1>8. heard'[Len(heard')] = g
  BY <1>4, AppendedIs
<1> QED BY <1>3, <1>7, <1>8 DEF BeaconHeard

(* A beacon is heard: the differences of times that are one gap apart are  *)
(* that gap wherever they are not zero, in whatever order the flows came.  *)
THEOREM BeaconsHeard == NetworkSpec => []BeaconsAreHeard
<1>1. NetworkInit => NetworkInv /\ BeaconsAreHeard
  <2> SUFFICES ASSUME NetworkInit PROVE NetworkInv /\ BeaconsAreHeard
    OBVIOUS
  <2>1. IsList(<<>>) /\ ToSet(<<>>) = {}
    <3>1. <<>> \in Seq({}) /\ DOMAIN <<>> = {}
      OBVIOUS
    <3>2. IsList(<<>>)
      BY <3>1, ListOf
    <3> QED BY <3>1, <3>2 DEF ToSet
  <2>2. heard = <<>> /\ connections = [p \in Pairs |-> <<>>]
    BY DEF NetworkInit
  <2>3. \A p \in Pairs : StampsFrom(<<>>, p) = {}
    BY <2>1 DEF StampsFrom, From
  <2>4. NetworkInv
    BY <2>1, <2>2, <2>3 DEF NetworkInv
  <2> QED BY <2>2, <2>4 DEF BeaconsAreHeard
<1>2. NetworkInv /\ BeaconsAreHeard /\ [NetworkNext]_networkVars => NetworkInv' /\ BeaconsAreHeard'
  <2> SUFFICES ASSUME NetworkInv, BeaconsAreHeard, [NetworkNext]_networkVars
               PROVE  NetworkInv' /\ BeaconsAreHeard'
    OBVIOUS
  <2>1. BeaconsAreHeard' <=> BeaconHeard(heard', networkAnswer')
    BY DEF BeaconsAreHeard, BeaconHeard, HeardTimes, HeardFrom, From
  <2>2. ASSUME NEW f \in Flows, AnalyzeFlow(f) PROVE NetworkInv' /\ BeaconsAreHeard'
    BY <2>1, <2>2, HeardKeeps, BeaconIsHeard
  <2>3. CASE AnalyzeUnreadable
    BY <2>1, <2>3, NothingHeard
  <2>4. CASE UNCHANGED networkVars
    BY <2>4 DEF networkVars, NetworkInv, BeaconsAreHeard, HeardTimes, HeardFrom
  <2> QED BY <2>2, <2>3, <2>4 DEF NetworkNext
<1> QED BY <1>1, <1>2, PTL DEF NetworkSpec

-----------------------------------------------------------------------------
(* The cases *)

(* A sorted list is one of the same.                                       *)
LEMMA SortedHas ==
    ASSUME NEW S, NEW s \in Seq(S), NEW keys \in [DOMAIN s -> Int]
    PROVE  At(s, InOrder(keys)) \in Seq(S)
<1>1. PICK n : n \in Nat /\ n = Len(s) /\ DOMAIN s = 1..n
  OBVIOUS
<1>2. PICK o : Sorts(o, keys, n) /\ At(s, InOrder(keys)) = At(s, o)
  BY <1>1, SortedIs
<1>3. DOMAIN o = 1..n /\ \A k \in 1..n : o[k] \in 1..n
  BY <1>2 DEF Sorts
<1>4. At(s, o) = [k \in 1..n |-> s[o[k]]] /\ \A k \in 1..n : s[o[k]] \in S
  BY <1>1, <1>3 DEF At
<1> QED BY <1>1, <1>2, <1>4

LEMMA ByTimeHas ==
    ASSUME NEW s \in Seq(Pieces)
    PROVE  ByTime(s) \in Seq(Pieces)
<1>1. PICK keys : keys = [n \in DOMAIN s |-> s[n].exhibit.at]
  OBVIOUS
<1>2. keys \in [DOMAIN s -> Int]
  <2>1. ASSUME NEW n \in DOMAIN s PROVE s[n].exhibit.at \in Int
    <3>1. s[n] \in Pieces
      OBVIOUS
    <3>2. s[n].exhibit \in Exhibits
      BY <3>1 DEF Pieces
    <3> QED BY <3>2, CaseAssumption
  <2> QED BY <1>1, <2>1
<1>3. ByTime(s) = At(s, InOrder(keys))
  BY <1>1 DEF ByTime, SortedBy
<1> QED BY <1>2, <1>3, SortedHas

(* The first so many of a list.                                            *)
Start(s, n) == [k \in 1..n |-> s[k]]

LEMMA StartIs ==
    ASSUME NEW S, NEW s \in Seq(S), NEW n \in 0..Len(s)
    PROVE  SubSeq(s, 1, n) = Start(s, n) /\ Start(s, n) \in Seq(S)
<1>1. Start(s, n) \in Seq(S)
  BY DEF Start
<1>2. SubSeq(s, 1, n) = Start(s, n)
  BY DEF Start
<1> QED BY <1>1, <1>2

LEMMA EmptyInTime == ByTime(SubSeq(<<>>, 1, 0)) = <<>>
<1>1. <<>> \in Seq(Pieces) /\ SubSeq(<<>>, 1, 0) = <<>> /\ DOMAIN <<>> = {}
  OBVIOUS
<1>2. PICK s : s = ByTime(<<>>)
  OBVIOUS
<1>3. Len(s) = 0 /\ s \in Seq(Pieces)
  <2>1. PICK keys : keys = [n \in DOMAIN <<>> |-> <<>>[n].exhibit.at]
    OBVIOUS
  <2>2. DOMAIN keys = {}
    BY <1>1, <2>1
  <2>3. Cardinality({}) = 0
    BY FS_EmptySet
  <2>4. DOMAIN InOrder(keys) = 1..0
    BY <2>2, <2>3 DEF InOrder
  <2>5. s = At(<<>>, InOrder(keys))
    BY <1>2, <2>1 DEF ByTime, SortedBy
  <2>6. DOMAIN s = 1..0
    BY <2>4, <2>5 DEF At
  <2>7. s \in Seq(Pieces)
    BY <1>1, <1>2, ByTimeHas
  <2> QED BY <2>6, <2>7
<1>4. s = <<>>
  BY <1>3, EmptySeq
<1> QED BY <1>1, <1>2, <1>4

(* A timeline is of the first so many pieces.                              *)
OfItsTime(case) == \E n \in 0..Len(case.evidence) : case.timeline = ByTime(SubSeq(case.evidence, 1, n))

InOneCase(cs, piece) ==
    \E i \in OpenCases : /\ cs[i] # Unopened /\ piece \in ToSet(cs[i].evidence)
                         /\ \A j \in OpenCases \ {i} : cs[j] # Unopened => piece \notin ToSet(cs[j].evidence)

CaseInv ==
    /\ cases \in [OpenCases -> CaseRecords \cup {Unopened}]
    /\ evidenceStore \in Seq(Pieces) /\ \A n \in 1..Len(evidenceStore) : evidenceStore[n].id = n
    /\ \A i \in OpenCases : IsOpened(i) =>
          /\ \A e \in ToSet(cases[i].evidence) : \E n \in 1..Len(evidenceStore) : e = evidenceStore[n]
          /\ OfItsTime(cases[i])
    /\ \A n \in 1..Len(evidenceStore) : InOneCase(cases, evidenceStore[n])

(* What changes neither the evidence nor the timeline of a case.           *)
LEMMA SameEvidence ==
    ASSUME CaseInv, NEW i \in OpenCases, IsOpened(i), NEW c \in CaseRecords,
           c.evidence = cases[i].evidence,
           OfItsTime(c),
           cases' = [cases EXCEPT ![i] = c], UNCHANGED evidenceStore
    PROVE  CaseInv'
<1>1. c # Unopened
  BY CaseAssumption
<1>2. cases' \in [OpenCases -> CaseRecords \cup {Unopened}]
  BY DEF CaseInv
<1>3. \A j \in OpenCases : cases'[j] = IF j = i THEN c ELSE cases[j]
  BY DEF CaseInv
<1>4. \A j \in OpenCases : /\ IsOpened(j)' <=> IsOpened(j)
                           /\ cases'[j].evidence = cases[j].evidence
  BY <1>1, <1>3 DEF IsOpened
<1>5. \A j \in OpenCases : IsOpened(j) => OfItsTime(cases'[j])
  BY <1>3 DEF CaseInv
<1>6. ASSUME NEW j \in OpenCases, IsOpened(j)'
      PROVE  /\ \A e \in ToSet(cases'[j].evidence) : \E n \in 1..Len(evidenceStore') : e = evidenceStore'[n]
             /\ OfItsTime(cases'[j])
  <2>1. IsOpened(j) /\ cases'[j].evidence = cases[j].evidence /\ evidenceStore' = evidenceStore
    BY <1>4, <1>6
  <2>2. \A e \in ToSet(cases[j].evidence) : \E n \in 1..Len(evidenceStore) : e = evidenceStore[n]
    BY <2>1 DEF CaseInv
  <2>3. \A e \in ToSet(cases'[j].evidence) : \E n \in 1..Len(evidenceStore') : e = evidenceStore'[n]
    BY <2>1, <2>2
  <2>4. OfItsTime(cases'[j])
    BY <1>5, <2>1
  <2> QED BY <2>3, <2>4
<1>7. ASSUME NEW n \in 1..Len(evidenceStore') PROVE InOneCase(cases', evidenceStore'[n])
  <2>1. InOneCase(cases, evidenceStore[n])
    BY <1>7 DEF CaseInv
  <2>2. \A j \in OpenCases : cases'[j] # Unopened <=> cases[j] # Unopened
    BY <1>4 DEF IsOpened
  <2> QED BY <1>4, <2>1, <2>2 DEF InOneCase
<1> QED BY <1>2, <1>6, <1>7 DEF CaseInv, OfItsTime

LEMMA CasesKeep ==
    ASSUME CaseInv, CaseNext
    PROVE  CaseInv'
<1>1. ASSUME NEW i \in OpenCases, NEW template \in StepTemplates, CreateInvestigation(i, template)
      PROVE  CaseInv'
  <2>1. PICK c : c = [status |-> "pending", evidence |-> <<>>, timeline |-> <<>>,
                      steps |-> [n \in 1..template.steps |-> "pending"],
                      hypotheses |-> [n \in 1..template.hypotheses |-> "proposed"]]
    OBVIOUS
  <2>2. c \in CaseRecords /\ c.evidence = <<>> /\ c.timeline = <<>>
    <3>1. template.steps \in Nat /\ template.hypotheses \in Nat
      BY CaseAssumption
    <3>2. c.steps \in Seq({"pending", "completed"})
      BY <2>1, <3>1
    <3>3. c.hypotheses \in Seq({"proposed", "supported", "refuted"})
      BY <2>1, <3>1
    <3>4. <<>> \in Seq(Pieces)
      OBVIOUS
    <3> QED BY <2>1, <3>2, <3>3, <3>4 DEF CaseRecords
  <2>3. cases' = [cases EXCEPT ![i] = c] /\ evidenceStore' = evidenceStore /\ ~IsOpened(i)
    BY <1>1, <2>1 DEF CreateInvestigation
  <2>4. OfItsTime(c)
    <3>1. ByTime(SubSeq(<<>>, 1, 0)) = <<>>
      BY EmptyInTime
    <3>2. 0 \in 0..Len(<<>>)
      OBVIOUS
    <3> QED BY <2>2, <3>1, <3>2 DEF OfItsTime
  <2>5. c # Unopened /\ ToSet(c.evidence) = {}
    BY <2>2, CaseAssumption DEF ToSet
  <2>6. \A j \in OpenCases : cases'[j] = IF j = i THEN c ELSE cases[j]
    BY <2>3 DEF CaseInv
  <2>7. cases' \in [OpenCases -> CaseRecords \cup {Unopened}]
    BY <2>2, <2>3 DEF CaseInv
  <2>8. ASSUME NEW j \in OpenCases, IsOpened(j)'
        PROVE  /\ \A e \in ToSet(cases'[j].evidence) : \E n \in 1..Len(evidenceStore') : e = evidenceStore'[n]
               /\ OfItsTime(cases'[j])
    <3>1. CASE j = i
      BY <2>4, <2>5, <2>6, <3>1
    <3>2. CASE j # i
      BY <2>3, <2>6, <2>8, <3>2 DEF CaseInv, IsOpened
    <3> QED BY <3>1, <3>2
  <2>9. ASSUME NEW n \in 1..Len(evidenceStore') PROVE InOneCase(cases', evidenceStore'[n])
    <3>1. InOneCase(cases, evidenceStore[n])
      BY <2>3, <2>9 DEF CaseInv
    <3> QED BY <2>3, <2>5, <2>6, <3>1 DEF InOneCase, IsOpened
  <2> QED BY <2>3, <2>7, <2>8, <2>9 DEF CaseInv, OfItsTime
<1>2. ASSUME NEW i \in OpenCases, NEW exhibit \in Exhibits, AddEvidence(i, exhibit) PROVE CaseInv'
  <2>1. PICK m : m \in Nat /\ m = Len(evidenceStore) /\ DOMAIN evidenceStore = 1..m
    BY DEF CaseInv
  <2>2. PICK piece : piece = [id |-> m + 1, exhibit |-> exhibit]
    OBVIOUS
  <2>3. piece \in Pieces /\ piece.id = m + 1
    BY <2>1, <2>2 DEF Pieces
  <2>4. cases[i] \in CaseRecords /\ IsOpened(i)
    BY <1>2 DEF AddEvidence, CaseInv, IsOpened
  <2>5. PICK old, new : old = cases[i].evidence /\ new = Append(old, piece)
    OBVIOUS
  <2>6. old \in Seq(Pieces) /\ cases[i].timeline \in Seq(Pieces)
    BY <2>4, <2>5 DEF CaseRecords
  <2>7. PICK c : c = [cases[i] EXCEPT !.evidence = new]
    OBVIOUS
  <2>8. c \in CaseRecords /\ c.evidence = new /\ c.timeline = cases[i].timeline
    <3>1. new \in Seq(Pieces)
      BY <2>3, <2>5, <2>6
    <3> QED BY <2>4, <2>7, <3>1 DEF CaseRecords
  <2>9. cases' = [cases EXCEPT ![i] = c] /\ evidenceStore' = Append(evidenceStore, piece)
    BY <1>2, <2>1, <2>2, <2>5, <2>7 DEF AddEvidence
  <2>10. c # Unopened
    BY <2>8, CaseAssumption
  <2>11. \A j \in OpenCases : cases'[j] = IF j = i THEN c ELSE cases[j]
    BY <2>9 DEF CaseInv
  <2>12. cases' \in [OpenCases -> CaseRecords \cup {Unopened}]
    BY <2>8, <2>9 DEF CaseInv
  <2>13. /\ evidenceStore' \in Seq(Pieces) /\ Len(evidenceStore') = m + 1
         /\ evidenceStore'[m + 1] = piece /\ \A n \in 1..m : evidenceStore'[n] = evidenceStore[n]
    BY <2>1, <2>3, <2>9 DEF CaseInv
  <2>14. ToSet(new) = ToSet(old) \cup {piece}
    <3>1. IsList(old)
      BY <2>6, ListOf
    <3> QED BY <2>5, <3>1, AppendedElements
  <2>15. \A n \in 1..(m + 1) : evidenceStore'[n].id = n
    BY <2>1, <2>3, <2>13 DEF CaseInv
  <2>16. ASSUME NEW j \in OpenCases, IsOpened(j), NEW e \in ToSet(cases[j].evidence)
         PROVE  e.id \in 1..m /\ e = evidenceStore[e.id]
    <3>1. PICK n \in 1..m : e = evidenceStore[n]
      BY <2>1, <2>16 DEF CaseInv
    <3> QED BY <2>1, <3>1 DEF CaseInv
  <2>17. OfItsTime(c)
    <3>1. PICK n \in 0..Len(old) : cases[i].timeline = ByTime(SubSeq(old, 1, n))
      BY <2>4, <2>5 DEF CaseInv, OfItsTime
    <3>2. PICK l : l \in Nat /\ l = Len(old)
      BY <2>6
    <3>3. new \in Seq(Pieces) /\ Len(new) = l + 1 /\ \A k \in 1..l : new[k] = old[k]
      BY <2>3, <2>5, <2>6, <3>2
    <3>4. n \in 0..Len(new)
      BY <3>1, <3>2, <3>3
    <3>5. SubSeq(old, 1, n) = Start(old, n) /\ SubSeq(new, 1, n) = Start(new, n)
      BY <2>6, <3>1, <3>3, <3>4, StartIs
    <3>6. Start(old, n) = Start(new, n)
      BY <3>1, <3>2, <3>3 DEF Start
    <3> QED BY <2>8, <3>1, <3>4, <3>5, <3>6 DEF OfItsTime
  <2>18. ASSUME NEW j \in OpenCases, IsOpened(j)'
         PROVE  /\ \A e \in ToSet(cases'[j].evidence) : \E n \in 1..Len(evidenceStore') : e = evidenceStore'[n]
                /\ OfItsTime(cases'[j])
    <3>1. CASE j = i
      <4>1. ASSUME NEW e \in ToSet(new) PROVE \E n \in 1..(m + 1) : e = evidenceStore'[n]
        <5>1. CASE e = piece
          BY <2>1, <2>13, <5>1
        <5>2. CASE e \in ToSet(old)
          <6>1. e.id \in 1..m /\ e = evidenceStore[e.id]
            BY <2>4, <2>5, <2>16, <5>2
          <6>2. e.id \in 1..(m + 1) /\ e = evidenceStore'[e.id]
            BY <2>1, <2>13, <6>1
          <6> QED BY <6>2
        <5> QED BY <2>14, <4>1, <5>1, <5>2
      <4> QED BY <2>8, <2>11, <2>13, <2>17, <3>1, <4>1
    <3>2. CASE j # i
      <4>1. cases'[j] = cases[j] /\ IsOpened(j)
        BY <2>11, <2>18, <3>2 DEF IsOpened
      <4>2. ASSUME NEW e \in ToSet(cases[j].evidence) PROVE \E n \in 1..(m + 1) : e = evidenceStore'[n]
        <5>1. e.id \in 1..m /\ e = evidenceStore[e.id]
          BY <2>16, <4>1, <4>2
        <5>2. e.id \in 1..(m + 1) /\ e = evidenceStore'[e.id]
          BY <2>1, <2>13, <5>1
        <5> QED BY <5>2
      <4>3. OfItsTime(cases[j])
        BY <4>1 DEF CaseInv
      <4> QED BY <2>13, <4>1, <4>2, <4>3
    <3> QED BY <3>1, <3>2
  <2>19. ASSUME NEW n \in 1..(m + 1) PROVE InOneCase(cases', evidenceStore'[n])
    <3>1. CASE n = m + 1
      <4>1. ASSUME NEW j \in OpenCases \ {i}, cases'[j] # Unopened PROVE piece \notin ToSet(cases'[j].evidence)
        <5>1. cases'[j] = cases[j] /\ IsOpened(j)
          BY <2>11, <4>1 DEF IsOpened
        <5>2. piece \in ToSet(cases[j].evidence) => piece.id \in 1..m
          BY <2>16, <5>1
        <5> QED BY <2>1, <2>3, <5>1, <5>2
      <4>2. cases'[i] = c /\ piece \in ToSet(c.evidence)
        BY <2>8, <2>11, <2>14
      <4> QED BY <2>10, <2>13, <3>1, <4>1, <4>2 DEF InOneCase
    <3>2. CASE n # m + 1
      <4>1. n \in 1..m
        BY <2>1, <3>2
      <4>2. PICK e : e = evidenceStore[n] /\ e.id = n /\ e = evidenceStore'[n]
        BY <2>1, <2>13, <4>1 DEF CaseInv
      <4>3. InOneCase(cases, e)
        BY <2>1, <4>1, <4>2 DEF CaseInv
      <4>4. e # piece
        BY <2>1, <2>3, <3>2, <4>2
      <4>5. \A j \in OpenCases : /\ cases'[j] # Unopened <=> cases[j] # Unopened
                                 /\ cases[j] # Unopened =>
                                       (e \in ToSet(cases'[j].evidence) <=> e \in ToSet(cases[j].evidence))
        <5> SUFFICES ASSUME NEW j \in OpenCases
                     PROVE  /\ cases'[j] # Unopened <=> cases[j] # Unopened
                            /\ cases[j] # Unopened =>
                                  (e \in ToSet(cases'[j].evidence) <=> e \in ToSet(cases[j].evidence))
          OBVIOUS
        <5>1. CASE j = i
          <6>1. cases'[j] = c /\ cases[j] # Unopened /\ cases[j].evidence = old
            BY <2>4, <2>5, <2>11, <5>1 DEF IsOpened
          <6> QED BY <2>8, <2>10, <2>14, <4>4, <6>1
        <5>2. CASE j # i
          BY <2>11, <5>2
        <5> QED BY <5>1, <5>2
      <4> QED BY <4>2, <4>3, <4>5 DEF InOneCase
    <3> QED BY <3>1, <3>2
  <2>20. \A n \in 1..Len(evidenceStore') : evidenceStore'[n].id = n /\ InOneCase(cases', evidenceStore'[n])
    BY <2>13, <2>15, <2>19
  <2> QED BY <2>12, <2>13, <2>18, <2>20 DEF CaseInv, OfItsTime
<1>3. ASSUME NEW i \in OpenCases, IsOpened(i), NEW c \in CaseRecords,
             c.evidence = cases[i].evidence, c.timeline = cases[i].timeline,
             cases' = [cases EXCEPT ![i] = c], UNCHANGED evidenceStore
      PROVE  CaseInv'
  <2>1. OfItsTime(c)
    BY <1>3 DEF CaseInv, OfItsTime
  <2> QED BY <1>3, <2>1, SameEvidence
<1>4. ASSUME NEW i \in OpenCases, IsOpened(i) PROVE cases[i] \in CaseRecords
  BY <1>4 DEF CaseInv, IsOpened
<1>5. ASSUME NEW i \in OpenCases, AddHypothesis(i) PROVE CaseInv'
  <2>1. IsOpened(i) /\ cases[i] \in CaseRecords
    BY <1>4, <1>5 DEF AddHypothesis
  <2>2. PICK c : c = [cases[i] EXCEPT !.hypotheses = Append(cases[i].hypotheses, "proposed")]
    OBVIOUS
  <2>3. c \in CaseRecords /\ c.evidence = cases[i].evidence /\ c.timeline = cases[i].timeline
    <3>1. Append(cases[i].hypotheses, "proposed") \in Seq({"proposed", "supported", "refuted"})
      BY <2>1 DEF CaseRecords
    <3> QED BY <2>1, <2>2, <3>1 DEF CaseRecords
  <2>4. cases' = [cases EXCEPT ![i] = c] /\ UNCHANGED evidenceStore
    BY <1>5, <2>2 DEF AddHypothesis
  <2> QED BY <1>3, <2>1, <2>3, <2>4
<1>6. ASSUME NEW i \in OpenCases, NEW n, NEW status \in {"supported", "refuted"}, UpdateHypothesis(i, n, status)
      PROVE  CaseInv'
  <2>1. IsOpened(i) /\ cases[i] \in CaseRecords /\ n \in DOMAIN cases[i].hypotheses
    BY <1>4, <1>6 DEF UpdateHypothesis
  <2>2. PICK c : c = [cases[i] EXCEPT !.hypotheses = [cases[i].hypotheses EXCEPT ![n] = status]]
    OBVIOUS
  <2>3. c \in CaseRecords /\ c.evidence = cases[i].evidence /\ c.timeline = cases[i].timeline
    <3>1. cases[i].hypotheses \in Seq({"proposed", "supported", "refuted"})
      BY <2>1 DEF CaseRecords
    <3>2. [cases[i].hypotheses EXCEPT ![n] = status] \in Seq({"proposed", "supported", "refuted"})
      BY <2>1, <3>1
    <3> QED BY <2>1, <2>2, <3>2 DEF CaseRecords
  <2>4. cases' = [cases EXCEPT ![i] = c] /\ UNCHANGED evidenceStore
    BY <1>6, <2>2 DEF UpdateHypothesis
  <2> QED BY <1>3, <2>1, <2>3, <2>4
<1>7. ASSUME NEW i \in OpenCases, NEW n, CompleteStep(i, n) PROVE CaseInv'
  <2>1. IsOpened(i) /\ cases[i] \in CaseRecords /\ n \in DOMAIN cases[i].steps
    BY <1>4, <1>7 DEF CompleteStep
  <2>2. PICK c : c = [cases[i] EXCEPT !.steps = [cases[i].steps EXCEPT ![n] = "completed"]]
    OBVIOUS
  <2>3. c \in CaseRecords /\ c.evidence = cases[i].evidence /\ c.timeline = cases[i].timeline
    <3>1. cases[i].steps \in Seq({"pending", "completed"})
      BY <2>1 DEF CaseRecords
    <3>2. [cases[i].steps EXCEPT ![n] = "completed"] \in Seq({"pending", "completed"})
      BY <2>1, <3>1
    <3> QED BY <2>1, <2>2, <3>2 DEF CaseRecords
  <2>4. cases' = [cases EXCEPT ![i] = c] /\ UNCHANGED evidenceStore
    BY <1>7, <2>2 DEF CompleteStep
  <2> QED BY <1>3, <2>1, <2>3, <2>4
<1>8. ASSUME NEW i \in OpenCases, GenerateTimeline(i) PROVE CaseInv'
  <2>1. IsOpened(i) /\ cases[i] \in CaseRecords
    BY <1>4, <1>8 DEF GenerateTimeline
  <2>2. PICK old, line : old = cases[i].evidence /\ line = ByTime(old)
    OBVIOUS
  <2>3. old \in Seq(Pieces) /\ line \in Seq(Pieces)
    <3>1. old \in Seq(Pieces)
      BY <2>1, <2>2 DEF CaseRecords
    <3> QED BY <2>2, <3>1, ByTimeHas
  <2>4. PICK c : c = [cases[i] EXCEPT !.timeline = line]
    OBVIOUS
  <2>5. c \in CaseRecords /\ c.evidence = old /\ c.timeline = line
    BY <2>1, <2>2, <2>3, <2>4 DEF CaseRecords
  <2>6. cases' = [cases EXCEPT ![i] = c] /\ UNCHANGED evidenceStore
    BY <1>8, <2>2, <2>4 DEF GenerateTimeline
  <2>7. OfItsTime(c)
    <3>1. PICK n : n \in Nat /\ n = Len(old)
      BY <2>3
    <3>2. Start(old, n) = old
      BY <2>3, <3>1 DEF Start
    <3>3. SubSeq(old, 1, n) = old /\ n \in 0..Len(old)
      BY <2>3, <3>1, <3>2, StartIs
    <3> QED BY <2>2, <2>5, <3>3 DEF OfItsTime
  <2> QED BY <2>1, <2>2, <2>5, <2>6, <2>7, SameEvidence
<1>9. ASSUME NEW i \in OpenCases, CloseInvestigation(i) PROVE CaseInv'
  <2>1. IsOpened(i) /\ cases[i] \in CaseRecords
    BY <1>4, <1>9 DEF CloseInvestigation
  <2>2. PICK c : c = [cases[i] EXCEPT !.status = "closed"]
    OBVIOUS
  <2>3. c \in CaseRecords /\ c.evidence = cases[i].evidence /\ c.timeline = cases[i].timeline
    BY <2>1, <2>2 DEF CaseRecords
  <2>4. cases' = [cases EXCEPT ![i] = c] /\ UNCHANGED evidenceStore
    BY <1>9, <2>2 DEF CloseInvestigation
  <2> QED BY <1>3, <2>1, <2>3, <2>4
<1> QED BY <1>1, <1>2, <1>5, <1>6, <1>7, <1>8, <1>9 DEF CaseNext

(* A timeline is of its time: what comes later changes neither it nor the  *)
(* pieces it was made of, and a new piece gets an id that no other has.    *)
LEMMA CasesAreOfTheirTime ==
    CaseSpec => [](CaseInv /\ TimelinesAreOfTheirTime)
<1>1. CaseInit => CaseInv
  <2> SUFFICES ASSUME CaseInit PROVE CaseInv
    OBVIOUS
  <2>1. cases = [i \in OpenCases |-> Unopened] /\ evidenceStore = <<>>
    BY DEF CaseInit
  <2>2. cases \in [OpenCases -> CaseRecords \cup {Unopened}] /\ \A i \in OpenCases : ~IsOpened(i)
    BY <2>1 DEF IsOpened
  <2>3. evidenceStore \in Seq(Pieces) /\ Len(evidenceStore) = 0 /\ 1..0 = {}
    BY <2>1
  <2> QED BY <2>2, <2>3 DEF CaseInv
<1>2. CaseInv /\ [CaseNext]_caseVars => CaseInv'
  <2>1. ASSUME CaseInv, UNCHANGED caseVars PROVE CaseInv'
    BY <2>1 DEF CaseInv, caseVars, OfItsTime, InOneCase, IsOpened
  <2> QED BY <2>1, CasesKeep
<1>3. CaseInv => TimelinesAreOfTheirTime
  <2> SUFFICES ASSUME CaseInv PROVE TimelinesAreOfTheirTime
    OBVIOUS
  <2>1. DOMAIN evidenceStore = 1..Len(evidenceStore)
    BY DEF CaseInv
  <2>2. ASSUME NEW i \in OpenCases, IsOpened(i)
        PROVE  \E n \in 0..Len(cases[i].evidence) :
                   cases[i].timeline = SortedBy(SubSeq(cases[i].evidence, 1, n), LAMBDA e : e.exhibit.at)
    BY <2>2 DEF CaseInv, OfItsTime, ByTime
  <2>3. ASSUME NEW n \in DOMAIN evidenceStore
        PROVE  \E i \in OpenCases : /\ IsOpened(i) /\ evidenceStore[n] \in ToSet(cases[i].evidence)
                                    /\ \A j \in OpenCases \ {i} : IsOpened(j) =>
                                          evidenceStore[n] \notin ToSet(cases[j].evidence)
    BY <2>1, <2>3 DEF CaseInv, InOneCase, IsOpened
  <2> QED BY <2>2, <2>3 DEF TimelinesAreOfTheirTime
<1> QED BY <1>1, <1>2, <1>3, PTL DEF CaseSpec

-----------------------------------------------------------------------------
(* The assets of an investigation *)

(* What each event keeps of the assets, the whole fold keeps.             *)
LEMMA SeenGoes ==
    ASSUME NEW n \in Nat, NEW S, NEW T, NEW base \in T[0], NEW seq, DOMAIN seq = 1..n,
           \A x \in S : \A k \in 1..n : SeenWith(x, seq[k]) \in S,
           \A k \in 0..n : T[k] \subseteq S,
           \A k \in 1..n : \A x \in T[k - 1] : SeenWith(x, seq[k]) \in T[k]
    PROVE  FoldLeft(SeenWith, base, seq) \in T[n]
<1> DEFINE X == S \X {seq[k] : k \in 1..n}
           F == [p \in X |-> SeenWith(p[1], p[2])]
           Op(x, e) == SeenWith(x, e)
           Is(g) == g = [P \in SUBSET (1..n) |-> IF P = {} THEN base ELSE Op(g[P \ {Max(P)}], seq[Max(P)])]
           iter == CHOOSE g : Is(g)
<1>1. FoldLeft(SeenWith, base, seq) = iter[1..n]
  BY DEF FoldLeft, MapThenFoldSet
<1>0. base \in S
  OBVIOUS
<1>2. \A x \in S : \A k \in 1..n : F[<<x, seq[k]>>] = Op(x, seq[k]) /\ Op(x, seq[k]) \in S
  OBVIOUS
<1>3. ASSUME NEW P \in SUBSET (1..n), P # {} PROVE Max(P) \in 1..n /\ P \ {Max(P)} \in SUBSET (1..n)
  <2>1. P \subseteq 0..n
    OBVIOUS
  <2>2. Max(P) \in P
    BY <1>3, <2>1, GreatestUpTo
  <2> QED BY <2>2
<1> HIDE DEF F, X, Op
<1>4. \E g : Is(g)
  <2>1. PICK g : Folds(g, base, seq, F, n, S)
    BY <1>0, <1>2, FoldExists
  <2>2. /\ g \in [SUBSET (1..n) -> S] /\ g[{}] = base
        /\ \A P \in SUBSET (1..n) : P # {} => g[P] = F[<<g[P \ {Max(P)}], seq[Max(P)]>>]
    BY <2>1 DEF Folds
  <2>3. \A P \in SUBSET (1..n) : P # {} => g[P] = Op(g[P \ {Max(P)}], seq[Max(P)])
    BY <1>2, <1>3, <2>2
  <2>4. g = [P \in SUBSET (1..n) |-> IF P = {} THEN base ELSE Op(g[P \ {Max(P)}], seq[Max(P)])]
    BY <2>2, <2>3
  <2> QED BY <2>4
<1>5. Is(iter)
  BY <1>4
<1> HIDE DEF iter
<1>6. /\ iter[{}] = base
      /\ \A P \in SUBSET (1..n) :
             P # {} /\ iter[P \ {Max(P)}] \in S => iter[P] = F[<<iter[P \ {Max(P)}], seq[Max(P)]>>]
  <2>1. iter[{}] = base
    BY <1>5
  <2>2. ASSUME NEW P \in SUBSET (1..n), P # {}, iter[P \ {Max(P)}] \in S
        PROVE  iter[P] = F[<<iter[P \ {Max(P)}], seq[Max(P)]>>]
    BY <1>2, <1>3, <1>5, <2>2
  <2> QED BY <2>1, <2>2
<1>7. iter[1..n] \in T[n]
  <2>1. ASSUME NEW k \in 1..n, NEW x \in T[k - 1] PROVE F[<<x, seq[k]>>] \in T[k]
    <3>1. k - 1 \in 0..n /\ Op(x, seq[k]) \in T[k]
      BY DEF Op
    <3> QED BY <1>2, <3>1
  <2> QED BY <1>6, <2>1, FoldGoes
<1> QED BY <1>1, <1>7

(* The assets that events name, once each.                                 *)
NamesOf(e) == {e.source, e.target, e.user} \ {NoName}

NamesUpTo(events, k) == UNION {NamesOf(events[n]) : n \in 1..k}

AssetRecords(names, times) ==
    [name : names, type : {"host", "user"}, role : {"source", "target", "involved"},
     first : times, last : times \cup {-1}]

NamesOnce(assets, X) ==
    /\ \A m, n \in 1..Len(assets) : assets[m].name = assets[n].name => m = n
    /\ \A n \in 1..Len(assets) : assets[n].name \in X
    /\ \A x \in X : \E n \in 1..Len(assets) : assets[n].name = x

LEMMA SeenKeeps ==
    ASSUME NEW names, NEW times, NEW assets \in Seq(AssetRecords(names, times)), NEW X,
           NamesOnce(assets, X), NEW name \in names \cup {NoName}, NEW type \in {"host", "user"},
           NEW role \in {"source", "target", "involved"}, NEW at \in times
    PROVE  /\ Seen(assets, name, type, role, at) \in Seq(AssetRecords(names, times))
           /\ NamesOnce(Seen(assets, name, type, role, at), X \cup ({name} \ {NoName}))
<1>1. PICK l : l \in Nat /\ l = Len(assets) /\ DOMAIN assets = 1..l
  OBVIOUS
<1>2. PICK I : I = {i \in 1..l : assets[i].name = name}
  OBVIOUS
<1>3. PICK n : n = IF I # {} THEN Min(I) ELSE 0
  OBVIOUS
<1>4. PICK more : more = Seen(assets, name, type, role, at)
  OBVIOUS
<1>5. more = IF name = NoName THEN assets
             ELSE IF n = 0 THEN Append(assets, [name |-> name, type |-> type, role |-> role,
                                                first |-> at, last |-> -1])
             ELSE IF type = "host" THEN [assets EXCEPT ![n].last = at]
             ELSE assets
  BY <1>1, <1>2, <1>3, <1>4 DEF Seen, SelectInSeq
<1>6. \A k \in 1..l : assets[k] \in AssetRecords(names, times)
  BY <1>1
<1>7. CASE name = NoName
  <2>1. more = assets /\ X \cup ({name} \ {NoName}) = X
    BY <1>5, <1>7
  <2> QED BY <1>4, <2>1
<1>8. CASE name # NoName /\ I = {}
  <2>1. PICK new : new = [name |-> name, type |-> type, role |-> role, first |-> at, last |-> -1]
    OBVIOUS
  <2>2. new \in AssetRecords(names, times) /\ new.name = name
    BY <1>8, <2>1 DEF AssetRecords
  <2>3. more = Append(assets, new)
    BY <1>3, <1>5, <1>8, <2>1
  <2>4. /\ more \in Seq(AssetRecords(names, times)) /\ Len(more) = l + 1 /\ more[l + 1] = new
        /\ \A k \in 1..l : more[k] = assets[k]
    BY <1>1, <2>2, <2>3
  <2>5. \A k \in 1..l : assets[k].name # name
    BY <1>2, <1>8
  <2>6. PICK Y : Y = X \cup ({name} \ {NoName})
    OBVIOUS
  <2>7. Y = X \cup {name}
    BY <1>8, <2>6
  <2>8. ASSUME NEW i \in 1..(l + 1), NEW j \in 1..(l + 1), more[i].name = more[j].name PROVE i = j
    <3>1. i = l + 1 \/ i \in 1..l
      BY <1>1
    <3>2. j = l + 1 \/ j \in 1..l
      BY <1>1
    <3> QED BY <1>1, <2>2, <2>4, <2>5, <2>8, <3>1, <3>2 DEF NamesOnce
  <2>9. ASSUME NEW i \in 1..(l + 1) PROVE more[i].name \in Y
    <3>1. i = l + 1 \/ i \in 1..l
      BY <1>1
    <3> QED BY <1>1, <2>2, <2>4, <2>7, <3>1 DEF NamesOnce
  <2>10. ASSUME NEW x \in Y PROVE \E i \in 1..(l + 1) : more[i].name = x
    <3>1. CASE x = name
      <4>1. l + 1 \in 1..(l + 1)
        BY <1>1
      <4> QED BY <2>2, <2>4, <3>1, <4>1
    <3>2. CASE x \in X
      <4>1. PICK i \in 1..l : assets[i].name = x
        BY <1>1, <3>2 DEF NamesOnce
      <4>2. i \in 1..(l + 1)
        BY <1>1
      <4> QED BY <2>4, <4>1, <4>2
    <3> QED BY <2>7, <2>10, <3>1, <3>2
  <2>11. NamesOnce(more, Y)
    BY <2>4, <2>8, <2>9, <2>10 DEF NamesOnce
  <2> QED BY <1>4, <2>4, <2>6, <2>11
<1>9. CASE name # NoName /\ I # {}
  <2>1. n \in I /\ n \in 1..l /\ n # 0
    <3>1. n = Min(I) /\ I \subseteq 1..l
      BY <1>2, <1>3, <1>9
    <3>2. Min(I) \in I
      BY <1>1, <1>9, <3>1, FirstIs
    <3>3. l \in Nat
      BY <1>1
    <3>4. n \in I
      BY <3>1, <3>2
    <3>5. \A k \in 1..l : k # 0
      BY <3>3
    <3> QED BY <3>1, <3>4, <3>5
  <2>2. assets[n].name = name /\ name \in X
    BY <1>1, <1>2, <2>1 DEF NamesOnce
  <2>3. X \cup ({name} \ {NoName}) = X
    BY <2>2
  <2>4. CASE type = "host"
    <3>1. PICK new : new = [assets[n] EXCEPT !.last = at]
      OBVIOUS
    <3>2. new \in AssetRecords(names, times) /\ new.name = name
      BY <1>6, <2>1, <2>2, <3>1 DEF AssetRecords
    <3>3. more = [assets EXCEPT ![n] = new]
      BY <1>5, <1>9, <2>1, <2>4, <3>1
    <3>4. /\ more \in Seq(AssetRecords(names, times)) /\ Len(more) = l
          /\ \A k \in 1..l : more[k] = IF k = n THEN new ELSE assets[k]
      BY <1>1, <2>1, <3>2, <3>3
    <3>5. \A k \in 1..l : more[k].name = assets[k].name
      BY <2>2, <3>2, <3>4
    <3>6. NamesOnce(more, X)
      BY <1>1, <3>4, <3>5 DEF NamesOnce
    <3> QED BY <1>4, <2>3, <3>4, <3>6
  <2>5. CASE type # "host"
    BY <1>4, <1>5, <1>9, <2>1, <2>3, <2>5
  <2> QED BY <2>4, <2>5
<1> QED BY <1>7, <1>8, <1>9

(* One event keeps them.                                                   *)
LEMMA SeenWithKeeps ==
    ASSUME NEW names, NEW times, NEW assets \in Seq(AssetRecords(names, times)), NEW X,
           NamesOnce(assets, X), NEW e, e.at \in times, NamesOf(e) \subseteq names
    PROVE  /\ SeenWith(assets, e) \in Seq(AssetRecords(names, times))
           /\ NamesOnce(SeenWith(assets, e), X \cup NamesOf(e))
<1>1. PICK s, t, u, at : s = e.source /\ t = e.target /\ u = e.user /\ at = e.at
  OBVIOUS
<1>2. /\ NamesOf(e) = {s, t, u} \ {NoName} /\ at \in times
      /\ s \in names \cup {NoName} /\ t \in names \cup {NoName} /\ u \in names \cup {NoName}
  BY <1>1 DEF NamesOf
<1>3. PICK A : A = Seen(assets, s, "host", "source", at)
  OBVIOUS
<1>4. PICK B : B = Seen(A, t, "host", "target", at)
  OBVIOUS
<1>5. PICK C : C = Seen(B, u, "user", "involved", at)
  OBVIOUS
<1>6. SeenWith(assets, e) = C
  BY <1>1, <1>3, <1>4, <1>5 DEF SeenWith
<1>7. PICK X1, X2, X3 : /\ X1 = X \cup ({s} \ {NoName}) /\ X2 = X1 \cup ({t} \ {NoName})
                        /\ X3 = X2 \cup ({u} \ {NoName})
  OBVIOUS
<1>9. A \in Seq(AssetRecords(names, times)) /\ NamesOnce(A, X1)
  BY <1>2, <1>3, <1>7, SeenKeeps
<1>10. B \in Seq(AssetRecords(names, times)) /\ NamesOnce(B, X2)
  BY <1>2, <1>4, <1>7, <1>9, SeenKeeps
<1>11. C \in Seq(AssetRecords(names, times)) /\ NamesOnce(C, X3)
  BY <1>2, <1>5, <1>7, <1>10, SeenKeeps
<1>12. X3 = X \cup NamesOf(e)
  BY <1>2, <1>7
<1> QED BY <1>6, <1>11, <1>12

(* So do all of them, one after the other.                                 *)
LEMMA AssetsAre ==
    ASSUME NEW n \in Nat, NEW events, DOMAIN events = 1..n, \A k \in 1..n : events[k].at \in Int
    PROVE  /\ IdentifyAssets(events) \in Seq(AssetRecords(NamesUpTo(events, n), Int))
           /\ NamesOnce(IdentifyAssets(events), NamesUpTo(events, n))
<1>1. PICK names, R : names = NamesUpTo(events, n) /\ R = Seq(AssetRecords(names, Int))
  OBVIOUS
<1>2. PICK S : S = {a \in R : \E X : NamesOnce(a, X)}
  OBVIOUS
<1>3. PICK T : T = [k \in 0..n |-> {a \in R : NamesOnce(a, NamesUpTo(events, k))}]
  OBVIOUS
<1>4. ASSUME NEW k \in 1..n PROVE events[k].at \in Int /\ NamesOf(events[k]) \subseteq names
  BY <1>1 DEF NamesUpTo
<1>5. \A x \in S : \A k \in 1..n : SeenWith(x, events[k]) \in S
  <2> SUFFICES ASSUME NEW x \in S, NEW k \in 1..n PROVE SeenWith(x, events[k]) \in S
    OBVIOUS
  <2>1. PICK X : NamesOnce(x, X) /\ x \in R
    BY <1>2
  <2>2. SeenWith(x, events[k]) \in R /\ NamesOnce(SeenWith(x, events[k]), X \cup NamesOf(events[k]))
    BY <1>1, <1>4, <2>1, SeenWithKeeps
  <2> QED BY <1>2, <2>2
<1>6. \A k \in 0..n : T[k] \subseteq S
  BY <1>2, <1>3
<1>7. \A k \in 1..n : \A x \in T[k - 1] : SeenWith(x, events[k]) \in T[k]
  <2> SUFFICES ASSUME NEW k \in 1..n, NEW x \in T[k - 1] PROVE SeenWith(x, events[k]) \in T[k]
    OBVIOUS
  <2>1. k - 1 \in 0..n /\ k \in 0..n /\ 1..k = (1..(k - 1)) \cup {k}
    OBVIOUS
  <2>2. x \in R /\ NamesOnce(x, NamesUpTo(events, k - 1))
    BY <1>3, <2>1
  <2>3. /\ SeenWith(x, events[k]) \in R
        /\ NamesOnce(SeenWith(x, events[k]), NamesUpTo(events, k - 1) \cup NamesOf(events[k]))
    BY <1>1, <1>4, <2>2, SeenWithKeeps
  <2>4. NamesUpTo(events, k - 1) \cup NamesOf(events[k]) = NamesUpTo(events, k)
    BY <2>1 DEF NamesUpTo
  <2> QED BY <1>3, <2>1, <2>3, <2>4
<1>8. <<>> \in T[0]
  <2>1. <<>> \in R /\ Len(<<>>) = 0 /\ 1..0 = {}
    BY <1>1
  <2>2. NamesUpTo(events, 0) = {}
    BY <2>1 DEF NamesUpTo
  <2>3. NamesOnce(<<>>, NamesUpTo(events, 0))
    BY <2>1, <2>2 DEF NamesOnce
  <2>4. 0 \in 0..n
    OBVIOUS
  <2> QED BY <1>3, <2>1, <2>3, <2>4
<1>9. FoldLeft(SeenWith, <<>>, events) \in T[n]
  BY <1>5, <1>6, <1>7, <1>8, SeenGoes
<1>10. n \in 0..n
  OBVIOUS
<1> QED BY <1>1, <1>3, <1>9, <1>10 DEF IdentifyAssets

(* As many assets as names.                                                *)
LEMMA NamesCount ==
    ASSUME NEW R, NEW assets \in Seq(R), NEW X, NamesOnce(assets, X)
    PROVE  /\ IsFiniteSet(X) /\ Len(assets) = Cardinality(X)
           /\ {a.name : a \in ToSet(assets)} = X
<1>1. PICK l : l \in Nat /\ l = Len(assets) /\ DOMAIN assets = 1..l
  OBVIOUS
<1>2. PICK f : f = [k \in 1..l |-> assets[k].name]
  OBVIOUS
<1>3. f \in Bijection(1..l, X)
  <2>1. f \in [1..l -> X]
    BY <1>1, <1>2 DEF NamesOnce
  <2>2. \A m, n \in 1..l : f[m] = f[n] => m = n
    BY <1>1, <1>2 DEF NamesOnce
  <2>3. \A x \in X : \E k \in 1..l : f[k] = x
    BY <1>1, <1>2 DEF NamesOnce
  <2> QED BY <2>1, <2>2, <2>3 DEF Bijection, Injection, Surjection, IsInjective
<1>4. l \in Nat
  BY <1>1
<1>5. IsFiniteSet(1..l) /\ Cardinality(1..l) = l
  <2>1. 1 \in Int /\ l \in Int
    BY <1>4
  <2> QED BY <1>4, <2>1, FS_Interval
<1>6. IsFiniteSet(X) /\ Cardinality(X) = l
  <2>1. ExistsBijection(1..l, X)
    BY <1>3 DEF ExistsBijection
  <2> QED BY <1>5, <2>1, FS_Bijection
<1>7. ToSet(assets) = {assets[k] : k \in 1..l}
  BY <1>1 DEF ToSet
<1>8. {a.name : a \in ToSet(assets)} = X
  BY <1>1, <1>7 DEF NamesOnce
<1> QED BY <1>1, <1>6, <1>8

(* What is told, in the order of time.                                     *)
Timed(told) == SortedBy(told, LAMBDA e : e.at)

TellsTimes(told) == IsList(told) /\ \A n \in 1..Len(told) : told[n].at \in Int

Orders(o, told, l) ==
    /\ o \in [1..l -> 1..l]
    /\ \A j, k \in 1..l : j < k => \/ told[o[j]].at < told[o[k]].at
                                   \/ told[o[j]].at = told[o[k]].at /\ o[j] < o[k]
    /\ \A p \in 1..l : \E k \in 1..l : o[k] = p
    /\ Timed(told) = [k \in 1..l |-> told[o[k]]]

LEMMA TimedIs ==
    ASSUME NEW told, TellsTimes(told)
    PROVE  \E o : Orders(o, told, Len(told))
<1>1. PICK l : l \in Nat /\ l = Len(told) /\ DOMAIN told = 1..l
  BY ListIs DEF TellsTimes
<1>2. PICK keys : keys = [n \in 1..l |-> told[n].at]
  OBVIOUS
<1>3. keys \in [1..l -> Int]
  BY <1>1, <1>2 DEF TellsTimes
<1>4. l \in Nat
  BY <1>1
<1>5. PICK o : Sorts(o, keys, l) /\ At(told, InOrder(keys)) = At(told, o)
  BY <1>3, <1>4, SortedIs
<1>6. o \in [1..l -> 1..l] /\ DOMAIN o = 1..l /\ \A p \in 1..l : \E k \in 1..l : o[k] = p
  BY <1>5 DEF Sorts
<1>7. ASSUME NEW j \in 1..l, NEW k \in 1..l, j < k
      PROVE  \/ told[o[j]].at < told[o[k]].at
             \/ told[o[j]].at = told[o[k]].at /\ o[j] < o[k]
  <2>1. o[j] \in 1..l /\ o[k] \in 1..l
    BY <1>6
  <2>2. Before(keys, o[j], o[k])
    BY <1>5, <1>7 DEF Sorts
  <2> QED BY <1>2, <2>1, <2>2 DEF Before
<1>8. Timed(told) = At(told, InOrder(keys))
  BY <1>1, <1>2 DEF Timed, SortedBy
<1>9. At(told, o) = [k \in 1..l |-> told[o[k]]]
  BY <1>6 DEF At
<1>10. Timed(told) = [k \in 1..l |-> told[o[k]]]
  BY <1>5, <1>8, <1>9
<1>11. o \in [1..l -> 1..l]
  BY <1>5 DEF Sorts
<1>12. Orders(o, told, l)
  BY <1>6, <1>7, <1>10, <1>11 DEF Orders
<1> QED BY <1>1, <1>12

LEMMA LargestIs ==
    ASSUME NEW S, S \subseteq Int, NEW x \in S, \A y \in S : y <= x
    PROVE  Max(S) = x
<1>1. \A y \in S : x >= y
  OBVIOUS
<1>2. PICK m : m = Max(S)
  OBVIOUS
<1>3. m \in S /\ m >= x
  BY <1>1, <1>2 DEF Max
<1> QED BY <1>1, <1>2, <1>3

LEMMA LowestIs ==
    ASSUME NEW S, S \subseteq Int, NEW x \in S, \A y \in S : x <= y
    PROVE  Min(S) = x
<1>1. PICK m : m = Min(S)
  OBVIOUS
<1>2. m \in S /\ m <= x
  BY <1>1 DEF Min
<1>3. m \in Int /\ x \in Int /\ x <= m
  BY <1>2
<1> QED BY <1>1, <1>2, <1>3

SpanOf(line) == IF line = <<>> THEN 0 ELSE line[Len(line)].at - line[1].at

Ats(told) == {e.at : e \in ToSet(told)}

(* Each once, in the order of time and, at one time, in the order told.    *)
LEMMA TimedTellsAll ==
    ASSUME NEW told, TellsTimes(told)
    PROVE  /\ Len(Timed(told)) = Len(told) /\ ToSet(Timed(told)) = ToSet(told)
           /\ DOMAIN Timed(told) = DOMAIN told
           /\ \A m, n \in DOMAIN told : m < n /\ told[m].at = told[n].at =>
                 \E k, l \in DOMAIN told : k < l /\ Timed(told)[k] = told[m] /\ Timed(told)[l] = told[n]
           /\ \A m, n \in DOMAIN told : m < n => Timed(told)[m].at <= Timed(told)[n].at
           /\ SpanOf(Timed(told)) = IF told = <<>> THEN 0 ELSE Max(Ats(told)) - Min(Ats(told))
<1>1. PICK l : l \in Nat /\ l = Len(told) /\ DOMAIN told = 1..l
  BY ListIs DEF TellsTimes
<1>2. PICK o, line : Orders(o, told, l) /\ line = Timed(told)
  BY <1>1, TimedIs
<1>3. /\ o \in [1..l -> 1..l] /\ line = [k \in 1..l |-> told[o[k]]]
      /\ \A p \in 1..l : \E k \in 1..l : o[k] = p
  BY <1>2 DEF Orders
<1>4. \A j, k \in 1..l : j < k => \/ told[o[j]].at < told[o[k]].at
                                  \/ told[o[j]].at = told[o[k]].at /\ o[j] < o[k]
  BY <1>2 DEF Orders
<1>5. /\ DOMAIN line = 1..l /\ Len(line) = l
      /\ \A k \in 1..l : line[k] = told[o[k]] /\ o[k] \in 1..l
  BY <1>1, <1>3
<1>6. \A n \in 1..l : told[n].at \in Int
  BY <1>1 DEF TellsTimes
<1>7. ToSet(line) = ToSet(told)
  <2>1. ToSet(line) = {line[k] : k \in 1..l} /\ ToSet(told) = {told[k] : k \in 1..l}
    BY <1>1, <1>5 DEF ToSet
  <2>2. \A p \in 1..l : \E k \in 1..l : line[k] = told[p]
    BY <1>3, <1>5
  <2>3. \A k \in 1..l : line[k] \in {told[p] : p \in 1..l}
    BY <1>5
  <2>4. \A p \in 1..l : told[p] \in {line[k] : k \in 1..l}
    BY <2>2
  <2> QED BY <2>1, <2>3, <2>4
<1>8. ASSUME NEW m \in 1..l, NEW n \in 1..l, m < n, told[m].at = told[n].at
      PROVE  \E i, j \in 1..l : i < j /\ line[i] = told[m] /\ line[j] = told[n]
  <2>1. PICK i \in 1..l : o[i] = m
    BY <1>3
  <2>2. PICK j \in 1..l : o[j] = n
    BY <1>3
  <2>3. i < j
    <3>1. i # j
      BY <1>8, <2>1, <2>2
    <3>2. j < i => told[n].at < told[m].at \/ n < m
      BY <1>4, <2>1, <2>2
    <3>3. told[m].at \in Int /\ told[n].at \in Int /\ i \in Int /\ j \in Int
      BY <1>6
    <3> QED BY <1>8, <3>1, <3>2, <3>3
  <2> QED BY <1>5, <2>1, <2>2, <2>3
<1>9. ASSUME NEW m \in 1..l, NEW n \in 1..l, m < n PROVE line[m].at <= line[n].at
  <2>1. line[m] = told[o[m]] /\ line[n] = told[o[n]] /\ line[m].at \in Int /\ line[n].at \in Int
    BY <1>5, <1>6
  <2> QED BY <1>4, <1>9, <2>1
<1>10. SpanOf(line) = IF told = <<>> THEN 0 ELSE Max(Ats(told)) - Min(Ats(told))
  <2>1. told = <<>> <=> l = 0
    BY <1>1, ListIs, EmptySeq DEF TellsTimes
  <2>2. line = <<>> <=> l = 0
    <3>1. PICK S : S = {told[k] : k \in 1..l}
      OBVIOUS
    <3>2. \A k \in 1..l : told[o[k]] \in S
      BY <1>5, <3>1
    <3>3. [k \in 1..l |-> told[o[k]]] \in [1..l -> S]
      BY <3>2
    <3>4. l \in Nat
      BY <1>1
    <3>5. line \in Seq(S)
      BY <1>3, <3>3, <3>4
    <3> QED BY <1>5, <3>4, <3>5, EmptySeq
  <2>3. CASE l = 0
    BY <2>1, <2>2, <2>3 DEF SpanOf
  <2>4. CASE l # 0
    <3>1. 1 \in 1..l /\ l \in 1..l
      BY <1>1, <2>4
    <3>2. Ats(told) = {line[k].at : k \in 1..l}
      <4>1. ToSet(told) = {line[k] : k \in 1..l}
        BY <1>5, <1>7 DEF ToSet
      <4> QED BY <4>1 DEF Ats
    <3>3. Ats(told) \subseteq Int
      BY <1>5, <1>6, <3>2
    <3>4. \A k \in 1..l : line[k].at \in Int
      BY <3>2, <3>3
    <3>5. \A k \in 1..l : line[k].at <= line[l].at /\ line[1].at <= line[k].at
      <4> SUFFICES ASSUME NEW k \in 1..l PROVE line[k].at <= line[l].at /\ line[1].at <= line[k].at
        OBVIOUS
      <4>1. (k = l \/ k < l) /\ (k = 1 \/ 1 < k)
        BY <1>1
      <4> QED BY <1>9, <3>1, <3>4, <4>1
    <3>6. PICK x, y : x = line[l].at /\ y = line[1].at
      OBVIOUS
    <3>7. x \in Ats(told) /\ y \in Ats(told) /\ \A z \in Ats(told) : z <= x /\ y <= z
      BY <3>1, <3>2, <3>5, <3>6
    <3>8. Max(Ats(told)) = x
      BY <3>3, <3>7, LargestIs
    <3>9. Min(Ats(told)) = y
      BY <3>3, <3>7, LowestIs
    <3> QED BY <1>5, <2>1, <2>2, <2>4, <3>6, <3>8, <3>9 DEF SpanOf
  <2>5. l = 0 \/ l # 0
    OBVIOUS
  <2> QED BY <2>3, <2>4, <2>5
<1>11. \A m, n \in DOMAIN told : m < n /\ told[m].at = told[n].at =>
          \E i, j \in DOMAIN told : i < j /\ line[i] = told[m] /\ line[j] = told[n]
  BY <1>1, <1>8
<1>12. \A m, n \in DOMAIN told : m < n => line[m].at <= line[n].at
  BY <1>1, <1>9
<1>13. Len(line) = Len(told) /\ DOMAIN line = DOMAIN told
  BY <1>1, <1>5
<1> QED BY <1>2, <1>7, <1>10, <1>11, <1>12, <1>13

(* How many pieces of a list are severe; it is no matter in which order.   *)
Severe(s) == {n \in DOMAIN s : s[n].severity = 3}

(* A list has each piece that another has.                                 *)
Embeds(up, less, told) ==
    /\ up \in [1..Len(less) -> 1..Len(told)]
    /\ \A m, n \in 1..Len(less) : up[m] = up[n] => m = n
    /\ \A n \in 1..Len(less) : less[n] = told[up[n]]

LEMMA SevereGrow ==
    ASSUME NEW told, TellsTimes(told), NEW less, TellsTimes(less), NEW up, Embeds(up, less, told)
    PROVE  /\ IsFiniteSet(Severe(Timed(told))) /\ IsFiniteSet(Severe(Timed(less)))
           /\ Cardinality(Severe(Timed(less))) <= Cardinality(Severe(Timed(told)))
           /\ ToSet(Timed(less)) \subseteq ToSet(Timed(told))
<1>1. PICK l : l \in Nat /\ l = Len(told) /\ DOMAIN told = 1..l
  BY ListIs DEF TellsTimes
<1>2. PICK k : k \in Nat /\ k = Len(less) /\ DOMAIN less = 1..k
  BY ListIs DEF TellsTimes
<1>3. PICK o, line : Orders(o, told, l) /\ line = Timed(told)
  BY <1>1, TimedIs
<1>4. PICK p, short : Orders(p, less, k) /\ short = Timed(less)
  BY <1>2, TimedIs
<1>5. /\ DOMAIN line = 1..l /\ \A n \in 1..l : line[n] = told[o[n]] /\ o[n] \in 1..l
      /\ \A q \in 1..l : \E n \in 1..l : o[n] = q
  BY <1>3 DEF Orders
<1>6. /\ DOMAIN short = 1..k /\ \A n \in 1..k : short[n] = less[p[n]] /\ p[n] \in 1..k
      /\ \A m, n \in 1..k : p[m] = p[n] => m = n
  <2>1. \A m, n \in 1..k : m < n => p[m] # p[n]
    <3> SUFFICES ASSUME NEW m \in 1..k, NEW n \in 1..k, m < n PROVE p[m] # p[n]
      OBVIOUS
    <3>1. \/ less[p[m]].at < less[p[n]].at
          \/ less[p[m]].at = less[p[n]].at /\ p[m] < p[n]
      BY <1>4 DEF Orders
    <3>2. p[m] \in 1..k /\ p[n] \in 1..k
      BY <1>4 DEF Orders
    <3>3. less[p[m]].at \in Int
      BY <1>2, <3>2 DEF TellsTimes
    <3> QED BY <3>1, <3>2, <3>3
  <2>2. \A m, n \in 1..k : m < n \/ n < m \/ m = n
    OBVIOUS
  <2>3. \A m, n \in 1..k : p[m] = p[n] => m = n
    BY <2>1, <2>2
  <2> QED BY <1>4, <2>3 DEF Orders
<1>7. /\ \A n \in 1..k : up[n] \in 1..l /\ less[n] = told[up[n]]
      /\ \A m, n \in 1..k : up[m] = up[n] => m = n
  BY <1>1, <1>2 DEF Embeds
<1>8. PICK f : f = [n \in 1..k |-> CHOOSE m \in 1..l : o[m] = up[p[n]]]
  OBVIOUS
<1>9. \A n \in 1..k : f[n] \in 1..l /\ o[f[n]] = up[p[n]] /\ line[f[n]] = short[n]
  <2> SUFFICES ASSUME NEW n \in 1..k PROVE f[n] \in 1..l /\ o[f[n]] = up[p[n]] /\ line[f[n]] = short[n]
    OBVIOUS
  <2>1. p[n] \in 1..k /\ up[p[n]] \in 1..l /\ short[n] = told[up[p[n]]]
    BY <1>6, <1>7
  <2>2. \E m \in 1..l : o[m] = up[p[n]]
    BY <1>5, <2>1
  <2>3. f[n] \in 1..l /\ o[f[n]] = up[p[n]]
    BY <1>8, <2>2
  <2> QED BY <1>5, <2>1, <2>3
<1>10. \A m, n \in 1..k : f[m] = f[n] => m = n
  <2> SUFFICES ASSUME NEW m \in 1..k, NEW n \in 1..k, f[m] = f[n] PROVE m = n
    OBVIOUS
  <2>1. up[p[m]] = up[p[n]]
    BY <1>9
  <2>2. p[m] = p[n]
    BY <1>6, <1>7, <2>1
  <2> QED BY <1>6, <2>2
<1>11. PICK A, B : A = Severe(short) /\ B = Severe(line)
  OBVIOUS
<1>12. A = {n \in 1..k : short[n].severity = 3} /\ B = {n \in 1..l : line[n].severity = 3}
  BY <1>5, <1>6, <1>11 DEF Severe
<1>13. IsFiniteSet(B)
  <2>1. IsFiniteSet(1..l)
    <3>1. l \in Int /\ 1 \in Int
      BY <1>1
    <3> QED BY <3>1, FS_Interval
  <2>2. B \in SUBSET (1..l)
    BY <1>12
  <2> QED BY <2>1, <2>2, FS_Subset
<1>14. PICK g : g = [n \in A |-> f[n]]
  OBVIOUS
<1>15. g \in Injection(A, B)
  <2>1. g \in [A -> B]
    BY <1>9, <1>12, <1>14
  <2>2. \A m, n \in A : g[m] = g[n] => m = n
    BY <1>10, <1>12, <1>14
  <2> QED BY <2>1, <2>2 DEF Injection, IsInjective
<1>16. IsFiniteSet(A) /\ Cardinality(A) <= Cardinality(B)
  BY <1>13, <1>15, FS_Injection
<1>17. ToSet(short) \subseteq ToSet(line)
  <2>1. ToSet(short) = {short[n] : n \in 1..k} /\ ToSet(line) = {line[n] : n \in 1..l}
    BY <1>5, <1>6 DEF ToSet
  <2>2. \A n \in 1..k : \E m \in 1..l : line[m] = short[n]
    BY <1>9
  <2> QED BY <2>1, <2>2
<1> QED BY <1>3, <1>4, <1>11, <1>13, <1>16, <1>17

(* Nothing told makes an investigation milder.                             *)
LEMMA NoMilderForMore ==
    ASSUME NEW told, TellsTimes(told), NEW less, TellsTimes(less), NEW up, Embeds(up, less, told),
           NEW a, NEW b, Len(a) \in Nat, Len(b) \in Nat, Len(a) <= Len(b)
    PROVE  InvestigationSeverity(Timed(less), a) <= InvestigationSeverity(Timed(told), b)
<1>1. PICK line, short : line = Timed(told) /\ short = Timed(less)
  OBVIOUS
<1>2. PICK h, i : h = Cardinality(Severe(line)) /\ i = Cardinality(Severe(short))
  OBVIOUS
<1>3. i <= h /\ h \in Nat /\ i \in Nat /\ ToSet(short) \subseteq ToSet(line)
  <2>1. IsFiniteSet(Severe(line)) /\ IsFiniteSet(Severe(short)) /\ i <= h
        /\ ToSet(short) \subseteq ToSet(line)
    BY <1>1, <1>2, SevereGrow
  <2> QED BY <1>2, <2>1, FS_CardinalityType
<1>4. short # <<>> => line # <<>>
  <2>1. ToSet(<<>>) = {}
    BY DEF ToSet
  <2>2. /\ Len(short) = Len(less) /\ Len(line) = Len(told)
        /\ DOMAIN short = DOMAIN less /\ DOMAIN line = DOMAIN told
    BY <1>1, TimedTellsAll
  <2>3. PICK o : Orders(o, less, Len(less))
    BY TimedIs
  <2>4. PICK k : k \in Nat /\ k = Len(less) /\ DOMAIN less = 1..k
    BY ListIs DEF TellsTimes
  <2>5. short = [j \in 1..k |-> less[o[j]]]
    BY <1>1, <2>3, <2>4 DEF Orders
  <2>6. short \in Seq({less[o[j]] : j \in 1..k}) /\ Len(short) = k
    BY <2>4, <2>5
  <2>7. short # <<>> => 1 \in 1..k
    BY <2>4, <2>6, EmptySeq
  <2>8. 1 \in 1..k => short[1] \in ToSet(short)
    BY <2>5 DEF ToSet
  <2> QED BY <1>3, <2>1, <2>7, <2>8
<1>5. \A x \in {line, short} : \A c \in {h, i} : \A d :
         c = Cardinality(Severe(x)) =>
         InvestigationSeverity(x, d) = IF \E e \in ToSet(x) : e.severity = 4 THEN 4
                                       ELSE IF c > ManyHigh THEN 3
                                       ELSE IF x # <<>> /\ (c > 0 \/ Len(d) > ManyAssets) THEN 2
                                       ELSE 1
  BY DEF InvestigationSeverity, Severe
<1>6. InvestigationSeverity(line, b) = IF \E e \in ToSet(line) : e.severity = 4 THEN 4
                                       ELSE IF h > ManyHigh THEN 3
                                       ELSE IF line # <<>> /\ (h > 0 \/ Len(b) > ManyAssets) THEN 2
                                       ELSE 1
  BY <1>2, <1>5
<1>7. InvestigationSeverity(short, a) = IF \E e \in ToSet(short) : e.severity = 4 THEN 4
                                        ELSE IF i > ManyHigh THEN 3
                                        ELSE IF short # <<>> /\ (i > 0 \/ Len(a) > ManyAssets) THEN 2
                                        ELSE 1
  BY <1>2, <1>5
<1>8. PICK F, G : F = (\E e \in ToSet(line) : e.severity = 4) /\ G = (\E e \in ToSet(short) : e.severity = 4)
  OBVIOUS
<1>9. G => F
  BY <1>3, <1>8
<1>10. ManyHigh \in Nat /\ ManyAssets \in Nat
  BY InvAssumption
<1> QED BY <1>1, <1>3, <1>4, <1>6, <1>7, <1>8, <1>9, <1>10

(* Two lists one after the other.                                          *)
LEMMA TwoListsAre ==
    ASSUME NEW s, NEW t, IsList(s), IsList(t)
    PROVE  /\ IsList(s \o t) /\ Len(s \o t) = Len(s) + Len(t)
           /\ DOMAIN (s \o t) = 1..(Len(s) + Len(t))
           /\ \A n \in 1..(Len(s) + Len(t)) : (s \o t)[n] = IF n <= Len(s) THEN s[n] ELSE t[n - Len(s)]
<1>1. PICK S : s \in Seq(S) /\ t \in Seq(S)
  <2>1. s \in Seq(ToSet(s) \cup ToSet(t))
    BY ListIs
  <2>2. t \in Seq(ToSet(s) \cup ToSet(t))
    BY ListIs
  <2> QED BY <2>1, <2>2
<1>2. s \o t \in Seq(S)
  BY <1>1
<1>3. IsList(s \o t)
  BY <1>2, ListOf
<1>4. /\ Len(s \o t) = Len(s) + Len(t) /\ DOMAIN (s \o t) = 1..(Len(s) + Len(t))
      /\ \A n \in 1..(Len(s) + Len(t)) : (s \o t)[n] = IF n <= Len(s) THEN s[n] ELSE t[n - Len(s)]
  BY <1>1
<1> QED BY <1>3, <1>4

LEMMA JoinedTells ==
    ASSUME NEW s, NEW t, TellsTimes(s), TellsTimes(t)
    PROVE  TellsTimes(s \o t)
<1>1. PICK l, m : l = Len(s) /\ l \in Nat /\ m = Len(t) /\ m \in Nat
  BY ListIs DEF TellsTimes
<1>2. PICK r : r = s \o t
  OBVIOUS
<1>3. /\ IsList(r) /\ Len(r) = l + m
      /\ \A n \in 1..(l + m) : r[n] = IF n <= l THEN s[n] ELSE t[n - l]
  BY <1>1, <1>2, TwoListsAre DEF TellsTimes
<1>4. ASSUME NEW n \in 1..(l + m) PROVE r[n].at \in Int
  <2>1. CASE n <= l
    <3>1. n \in 1..l
      BY <1>1, <2>1
    <3> QED BY <1>1, <1>3, <2>1, <3>1 DEF TellsTimes
  <2>2. CASE ~(n <= l)
    <3>1. n - l \in 1..m
      BY <1>1, <2>2
    <3> QED BY <1>1, <1>3, <2>2, <3>1 DEF TellsTimes
  <2> QED BY <2>1, <2>2
<1> QED BY <1>2, <1>3, <1>4 DEF TellsTimes

(* With one event less.                                                    *)
LEMMA LessEmbeds ==
    ASSUME NEW s, NEW t, TellsTimes(s), TellsTimes(t), NEW i \in 1..Len(s)
    PROVE  /\ TellsTimes(RemoveAt(s, i))
           /\ \E up : Embeds(up, RemoveAt(s, i) \o t, s \o t)
<1>1. PICK l, m : l = Len(s) /\ l \in Nat /\ m = Len(t) /\ m \in Nat
  BY ListIs DEF TellsTimes
<1>2. PICK less, told : less = RemoveAt(s, i) \o t /\ told = s \o t
  OBVIOUS
<1>3. PICK q : q = RemoveAt(s, i)
  OBVIOUS
<1>4. i \in 1..l /\ i \in 1..Len(s)
  BY <1>1
<1>5. /\ IsList(q) /\ Len(q) = l - 1 /\ l - 1 \in Nat
      /\ \A n \in 1..(l - 1) : q[n] = s[IF n < i THEN n ELSE n + 1]
  BY <1>1, <1>3, <1>4, RemovedIs DEF TellsTimes
<1>6. /\ Len(told) = l + m
      /\ \A n \in 1..(l + m) : told[n] = IF n <= l THEN s[n] ELSE t[n - l]
  BY <1>1, <1>2, TwoListsAre DEF TellsTimes
<1>7. /\ Len(less) = (l - 1) + m
      /\ \A n \in 1..((l - 1) + m) : less[n] = IF n <= l - 1 THEN q[n] ELSE t[n - (l - 1)]
  <2>1. IsList(q) /\ IsList(t) /\ less = q \o t
    BY <1>2, <1>3, <1>5 DEF TellsTimes
  <2>2. /\ Len(less) = Len(q) + Len(t)
        /\ \A n \in 1..(Len(q) + Len(t)) : less[n] = IF n <= Len(q) THEN q[n] ELSE t[n - Len(q)]
    BY <2>1, TwoListsAre
  <2> QED BY <1>1, <1>5, <2>2
<1>8. TellsTimes(q)
  <2>1. ASSUME NEW n \in 1..(l - 1) PROVE q[n].at \in Int
    <3>1. (IF n < i THEN n ELSE n + 1) \in 1..l
      BY <1>1, <1>4
    <3>2. PICK p \in 1..l : q[n] = s[p]
      BY <1>5, <3>1
    <3> QED BY <1>1, <3>2 DEF TellsTimes
  <2> QED BY <1>5, <2>1 DEF TellsTimes
<1>9. PICK up : up = [n \in 1..((l - 1) + m) |-> IF n < i THEN n ELSE n + 1]
  OBVIOUS
<1>10. ASSUME NEW n \in 1..((l - 1) + m) PROVE up[n] \in 1..(l + m) /\ less[n] = told[up[n]]
  <2>1. up[n] = (IF n < i THEN n ELSE n + 1) /\ up[n] \in 1..(l + m)
    BY <1>1, <1>4, <1>9
  <2>2. CASE n <= l - 1
    <3>1. up[n] <= l /\ n \in 1..(l - 1)
      BY <1>1, <1>4, <2>1, <2>2
    <3>2. less[n] = s[up[n]]
      BY <1>5, <1>7, <2>1, <2>2, <3>1
    <3> QED BY <1>6, <2>1, <3>1, <3>2
  <2>3. CASE ~(n <= l - 1)
    <3>1. up[n] = n + 1 /\ ~(up[n] <= l) /\ up[n] - l = n - (l - 1)
      BY <1>1, <1>4, <2>1, <2>3
    <3> QED BY <1>6, <1>7, <2>1, <2>3, <3>1
  <2> QED BY <2>2, <2>3
<1>11. \A n, k \in 1..((l - 1) + m) : up[n] = up[k] => n = k
  BY <1>1, <1>4, <1>9
<1>12. Embeds(up, less, told)
  BY <1>6, <1>7, <1>9, <1>10, <1>11 DEF Embeds
<1> QED BY <1>2, <1>3, <1>8, <1>12

(* The names that are left with one event less.                            *)
LEMMA LessNames ==
    ASSUME NEW s, TellsTimes(s), NEW i \in 1..Len(s)
    PROVE  NamesUpTo(RemoveAt(s, i), Len(RemoveAt(s, i))) \subseteq NamesUpTo(s, Len(s))
<1>1. PICK l, q : l = Len(s) /\ l \in Nat /\ q = RemoveAt(s, i)
  BY ListIs DEF TellsTimes
<1>2. i \in 1..l /\ i \in 1..Len(s)
  BY <1>1
<1>3. /\ Len(q) = l - 1
      /\ \A n \in 1..(l - 1) : q[n] = s[IF n < i THEN n ELSE n + 1]
  BY <1>1, <1>2, RemovedIs DEF TellsTimes
<1>4. ASSUME NEW n \in 1..(l - 1) PROVE \E p \in 1..l : q[n] = s[p]
  <2>1. (IF n < i THEN n ELSE n + 1) \in 1..l
    BY <1>1, <1>2
  <2> QED BY <1>3, <2>1
<1>5. NamesUpTo(q, l - 1) \subseteq NamesUpTo(s, l)
  BY <1>4 DEF NamesUpTo
<1> QED BY <1>1, <1>3, <1>5

(* What the investigation of a task makes of it tells all of it.           *)
LEMMA InvestigatedTells ==
    ASSUME NEW task \in InvTasks
    PROVE  /\ Investigated(task).task = task
           /\ TellsAll(Investigated(task), task.events \o task.findings,
                       (UNION {{e.source, e.target, e.user} : e \in ToSet(task.events)}) \ {NoName})
<1>1. PICK s, t : s = task.events /\ t = task.findings
  OBVIOUS
<1>2. TellsTimes(s) /\ TellsTimes(t)
  <2>1. IsList(s) /\ IsList(t) /\ \A e \in ToSet(s) \cup ToSet(t) : e.at \in Int
    BY <1>1, InvTasksAssumption
  <2>2. (\A n \in 1..Len(s) : s[n] \in ToSet(s)) /\ \A n \in 1..Len(t) : t[n] \in ToSet(t)
    BY <2>1, ListIs
  <2> QED BY <2>1, <2>2 DEF TellsTimes
<1>3. PICK size : size \in Nat /\ size = Len(s) /\ DOMAIN s = 1..size
  BY <1>2, ListIs DEF TellsTimes
<1>4. PICK told, line, assets, names :
          told = s \o t /\ line = Timed(told) /\ assets = IdentifyAssets(s) /\ names = NamesUpTo(s, size)
  OBVIOUS
<1>5. TellsTimes(told)
  BY <1>2, <1>4, JoinedTells
<1>6. BuildTimeline(s, t) = line
  BY <1>4 DEF BuildTimeline, Timed
<1>7. PICK kept : kept = Investigated(task)
  OBVIOUS
<1>8. /\ kept.task = task /\ kept.timeline = line /\ kept.assets = assets
      /\ kept.evidence = [n \in DOMAIN told |-> told[n].id]
      /\ kept.severity = InvestigationSeverity(line, assets)
      /\ kept.span = SpanOf(line)
  BY <1>1, <1>4, <1>6, <1>7 DEF Investigated, CollectEvidence, SpanOf
<1>9. Len(kept.evidence) = Len(told)
  <2>1. PICK k : k \in Nat /\ k = Len(told) /\ DOMAIN told = 1..k
    BY <1>5, ListIs DEF TellsTimes
  <2> QED BY <1>8, <2>1
<1>10. assets \in Seq(AssetRecords(names, Int)) /\ NamesOnce(assets, names)
  <2>1. size \in Nat /\ DOMAIN s = 1..size /\ \A k \in 1..size : s[k].at \in Int
    BY <1>2, <1>3 DEF TellsTimes
  <2> QED BY <1>4, <2>1, AssetsAre
<1>11. /\ IsFiniteSet(names) /\ Len(assets) = Cardinality(names) /\ {a.name : a \in ToSet(assets)} = names
  BY <1>10, NamesCount
<1>12. names = (UNION {{e.source, e.target, e.user} : e \in ToSet(s)}) \ {NoName}
  <2>1. ToSet(s) = {s[n] : n \in 1..size}
    BY <1>3 DEF ToSet
  <2>2. names = UNION {{s[n].source, s[n].target, s[n].user} \ {NoName} : n \in 1..size}
    BY <1>4 DEF NamesUpTo, NamesOf
  <2>3. PICK Q : Q = {{e.source, e.target, e.user} : e \in ToSet(s)}
    OBVIOUS
  <2>4. Q = {{s[n].source, s[n].target, s[n].user} : n \in 1..size}
    BY <2>1, <2>3
  <2>5. names \subseteq ((UNION Q) \ {NoName})
    BY <2>2, <2>4
  <2>6. ((UNION Q) \ {NoName}) \subseteq names
    BY <2>2, <2>4
  <2> QED BY <2>3, <2>5, <2>6
<1>13. /\ Len(line) = Len(told) /\ ToSet(line) = ToSet(told)
       /\ \A m, n \in DOMAIN told : m < n /\ told[m].at = told[n].at =>
             \E k, l \in DOMAIN told : k < l /\ line[k] = told[m] /\ line[l] = told[n]
       /\ \A m, n \in DOMAIN told : m < n => line[m].at <= line[n].at
       /\ SpanOf(line) = IF told = <<>> THEN 0 ELSE Max(Ats(told)) - Min(Ats(told))
  <2>1. /\ Len(Timed(told)) = Len(told) /\ ToSet(Timed(told)) = ToSet(told)
        /\ \A m, n \in DOMAIN told : m < n /\ told[m].at = told[n].at =>
              \E k, l \in DOMAIN told : k < l /\ Timed(told)[k] = told[m] /\ Timed(told)[l] = told[n]
        /\ \A m, n \in DOMAIN told : m < n => Timed(told)[m].at <= Timed(told)[n].at
        /\ SpanOf(Timed(told)) = IF told = <<>> THEN 0 ELSE Max(Ats(told)) - Min(Ats(told))
    BY <1>5, TimedTellsAll
  <2> QED BY <1>4, <2>1
<1>14. ASSUME NEW n \in DOMAIN s
       PROVE  InvestigationSeverity(BuildTimeline(RemoveAt(s, n), t), IdentifyAssets(RemoveAt(s, n)))
              <= kept.severity
  <2>1. PICK less : less = RemoveAt(s, n)
    OBVIOUS
  <2>2. n \in 1..Len(s) /\ n \in 1..size
    BY <1>3
  <2>3. TellsTimes(less) /\ \E up : Embeds(up, less \o t, told)
    BY <1>2, <1>4, <2>1, <2>2, LessEmbeds
  <2>4. PICK up : Embeds(up, less \o t, told)
    BY <2>3
  <2>5. TellsTimes(less \o t)
    BY <1>2, <2>3, JoinedTells
  <2>6. PICK k : k \in Nat /\ k = Len(less) /\ DOMAIN less = 1..k
    BY <2>3, ListIs DEF TellsTimes
  <2>7. PICK few, fewer : few = IdentifyAssets(less) /\ fewer = NamesUpTo(less, k)
    OBVIOUS
  <2>8. few \in Seq(AssetRecords(fewer, Int)) /\ NamesOnce(few, fewer)
    <3>1. k \in Nat /\ DOMAIN less = 1..k /\ \A j \in 1..k : less[j].at \in Int
      BY <2>3, <2>6 DEF TellsTimes
    <3> QED BY <2>7, <3>1, AssetsAre
  <2>9. IsFiniteSet(fewer) /\ Len(few) = Cardinality(fewer)
    BY <2>8, NamesCount
  <2>10. fewer \subseteq names
    BY <1>2, <1>3, <1>4, <2>1, <2>2, <2>6, <2>7, LessNames
  <2>11. Len(few) \in Nat /\ Len(assets) \in Nat /\ Len(few) <= Len(assets)
    BY <1>11, <2>9, <2>10, FS_Subset, FS_CardinalityType
  <2>12. InvestigationSeverity(Timed(less \o t), few) <= InvestigationSeverity(Timed(told), assets)
    BY <1>5, <2>4, <2>5, <2>11, NoMilderForMore
  <2>13. BuildTimeline(less, t) = Timed(less \o t)
    BY DEF BuildTimeline, Timed
  <2> QED BY <1>4, <1>8, <2>1, <2>7, <2>12, <2>13
<1>15. Ats(told) = {e.at : e \in ToSet(told)}
  BY DEF Ats
<1>16. /\ kept.task.events = s /\ kept.task.findings = t
  BY <1>1, <1>8
<1>17. /\ kept.timeline = line /\ kept.assets = assets /\ kept.span = SpanOf(line)
  BY <1>8
<1> HIDE DEF SpanOf
<1>20. /\ Len(kept.timeline) = Len(told) /\ ToSet(kept.timeline) = ToSet(told)
       /\ \A m, n \in DOMAIN told : m < n /\ told[m].at = told[n].at =>
             \E k, l \in DOMAIN told : k < l /\ kept.timeline[k] = told[m] /\ kept.timeline[l] = told[n]
       /\ \A m, n \in DOMAIN told : m < n => kept.timeline[m].at <= kept.timeline[n].at
  BY <1>13, <1>17
<1>21. Len(kept.assets) = Cardinality(names) /\ {a.name : a \in ToSet(kept.assets)} = names
  BY <1>11, <1>17
<1>22. kept.span = IF told = <<>> THEN 0
                   ELSE Max({e.at : e \in ToSet(told)}) - Min({e.at : e \in ToSet(told)})
  BY <1>13, <1>15, <1>17
<1>23. ASSUME NEW n \in DOMAIN kept.task.events
       PROVE  InvestigationSeverity(BuildTimeline(RemoveAt(kept.task.events, n), kept.task.findings),
                                    IdentifyAssets(RemoveAt(kept.task.events, n))) <= kept.severity
  <2>1. n \in DOMAIN s
    BY <1>16
  <2>2. InvestigationSeverity(BuildTimeline(RemoveAt(s, n), t), IdentifyAssets(RemoveAt(s, n)))
        <= kept.severity
    BY <1>14, <2>1
  <2> QED BY <1>16, <2>2
<1>24. TellsAll(kept, told, names)
  BY <1>9, <1>20, <1>21, <1>22, <1>23 DEF TellsAll
<1>25. told = task.events \o task.findings /\ kept.task = task
  BY <1>1, <1>4, <1>8
<1>26. names = (UNION {{e.source, e.target, e.user} : e \in ToSet(task.events)}) \ {NoName}
  BY <1>1, <1>12
<1> QED BY <1>7, <1>24, <1>25, <1>26

(* What is kept is what the last task with its id was found to tell.       *)
InvestigationInv ==
    /\ DOMAIN active = InvIds
    /\ \A id \in InvIds : active[id] # Unused => \E t \in InvTasks : active[id] = Investigated(t)

LEMMA InvestigationsKeep ==
    ASSUME InvestigationInv, InvestigationNext
    PROVE  InvestigationInv'
<1>1. PICK task \in InvTasks : Investigate(task)
  BY DEF InvestigationNext
<1>2. PICK id : id = IF task.id # NoId THEN task.id ELSE CHOOSE i \in InvIds : active[i] = Unused
  OBVIOUS
<1>3. PICK new : new = Investigated(task)
  OBVIOUS
<1>4. active' = active \/ active' = [active EXCEPT ![id] = new]
  BY <1>1, <1>2, <1>3 DEF Investigate
<1>5. CASE active' = active
  BY <1>5 DEF InvestigationInv
<1>6. CASE active' = [active EXCEPT ![id] = new]
  <2>1. DOMAIN active' = InvIds /\ \A i \in InvIds : active'[i] = active[i] \/ active'[i] = new
    BY <1>6 DEF InvestigationInv
  <2>2. ASSUME NEW i \in InvIds, active'[i] # Unused PROVE \E t \in InvTasks : active'[i] = Investigated(t)
    <3>1. CASE active'[i] = new
      BY <1>3, <3>1
    <3>2. CASE active'[i] = active[i]
      BY <2>2, <3>2 DEF InvestigationInv
    <3> QED BY <2>1, <3>1, <3>2
  <2> QED BY <2>1, <2>2 DEF InvestigationInv
<1> QED BY <1>4, <1>5, <1>6

(* An investigation tells all of its task, each event and finding in its   *)
(* time, and is no milder for anything told.                               *)
THEOREM InvestigationsTell == InvestigationSpec => []InvestigationTellsAll
<1>1. InvestigationInit => InvestigationInv
  <2> SUFFICES ASSUME InvestigationInit PROVE InvestigationInv
    OBVIOUS
  <2>1. active = [i \in InvIds |-> Unused]
    BY DEF InvestigationInit
  <2> QED BY <2>1 DEF InvestigationInv
<1>2. InvestigationInv /\ [InvestigationNext]_investigationVars => InvestigationInv'
  <2>1. ASSUME InvestigationInv, UNCHANGED investigationVars PROVE InvestigationInv'
    BY <2>1 DEF InvestigationInv, investigationVars
  <2> QED BY <2>1, InvestigationsKeep
<1>3. InvestigationInv => InvestigationTellsAll
  <2> SUFFICES ASSUME InvestigationInv, NEW id \in InvIds, active[id] # Unused, NEW events,
                      events = active[id].task.events
               PROVE  TellsAll(active[id], events \o active[id].task.findings,
                               (UNION {{e.source, e.target, e.user} : e \in ToSet(events)}) \ {NoName})
    BY DEF InvestigationTellsAll
  <2>1. PICK task \in InvTasks : active[id] = Investigated(task)
    BY DEF InvestigationInv
  <2>2. /\ Investigated(task).task = task
        /\ TellsAll(Investigated(task), task.events \o task.findings,
                    (UNION {{e.source, e.target, e.user} : e \in ToSet(task.events)}) \ {NoName})
    BY InvestigatedTells
  <2>3. active[id].task = task /\ events = task.events
    BY <2>1, <2>2
  <2> QED BY <2>1, <2>2, <2>3
<1> QED BY <1>1, <1>2, <1>3, PTL DEF InvestigationSpec

-----------------------------------------------------------------------------
(* The reports *)

KeptIn(o, N, n, P, s) == Enumerates(o, N, P) /\ N <= n /\ Kept(s, P) = At(s, o)

LEMMA KeptIsIn ==
    ASSUME NEW n \in Nat, NEW P, P \subseteq 1..n, NEW s
    PROVE  \E N, o : KeptIn(o, N, n, P, s)
BY KeptIs DEF KeptIn

StartsAs(long, M, list, N) ==
    /\ N \in Nat /\ M \in Nat /\ N <= M
    /\ Len(list) = N /\ DOMAIN list = 1..N
    /\ Len(long) = M /\ DOMAIN long = 1..M
    /\ \A k \in 1..N : list[k] = long[k]

(* What is kept of a list comes first in what is kept of a longer one.     *)
LEMMA KeptFirst ==
    ASSUME NEW m \in Nat, NEW n \in Nat, m <= n, NEW P, P \subseteq 1..m, NEW Q, Q \subseteq 1..n,
           \A i \in 1..m : i \in P <=> i \in Q,
           NEW s, NEW t, \A i \in 1..m : s[i] = t[i]
    PROVE  \E N, M : StartsAs(Kept(t, Q), M, Kept(s, P), N)
<1>1. PICK N, o : KeptIn(o, N, m, P, s)
  BY KeptIsIn
<1>2. PICK M, q : KeptIn(q, M, n, Q, t)
  BY KeptIsIn
<1>3. /\ N \in Nat /\ DOMAIN o = 1..N /\ \A k \in 1..N : o[k] \in P /\ o[k] \in 1..m
      /\ \A j, k \in 1..N : j < k => o[j] < o[k]
      /\ \A p \in P : \E k \in 1..N : o[k] = p
  BY <1>1 DEF KeptIn, Enumerates
<1>4. /\ M \in Nat /\ DOMAIN q = 1..M /\ \A k \in 1..M : q[k] \in Q /\ q[k] \in 1..n
      /\ \A j, k \in 1..M : j < k => q[j] < q[k]
      /\ \A p \in Q : \E k \in 1..M : q[k] = p
  BY <1>2 DEF KeptIn, Enumerates
<1>5. PICK S : S = {k \in 0..N : \A j \in 1..k : j \in 1..M /\ o[j] = q[j]}
  OBVIOUS
<1>6. 0 \in S
  BY <1>3, <1>5
<1>7. ASSUME NEW k \in 0..(N - 1), k \in S PROVE k + 1 \in S
  <2>1. k + 1 \in 1..N /\ k \in Nat /\ \A j \in 1..k : j \in 1..M /\ o[j] = q[j]
    BY <1>3, <1>5, <1>7
  <2>2. PICK x : x = o[k + 1] /\ x \in P /\ x \in 1..m /\ x \in Q
    BY <1>3, <2>1
  <2>3. PICK j \in 1..M : q[j] = x
    BY <1>4, <2>2
  <2>4. k < j
    <3>1. ASSUME j <= k PROVE FALSE
      <4>1. j \in 1..k /\ j \in 1..N /\ j < k + 1
        BY <1>3, <1>4, <2>1, <3>1
      <4>2. o[j] < o[k + 1] /\ o[j] = q[j]
        BY <1>3, <2>1, <4>1
      <4> QED BY <2>2, <2>3, <4>2
    <3> QED BY <1>4, <2>1, <3>1
  <2>5. PICK y : y = q[k + 1]
    OBVIOUS
  <2>6. k + 1 \in 1..M /\ y <= x /\ y \in Q /\ y \in 1..n
    <3>1. k + 1 \in 1..M /\ (k + 1 = j \/ k + 1 < j)
      BY <1>4, <2>1, <2>4
    <3>2. y \in Q /\ y \in 1..n
      BY <1>4, <2>5, <3>1
    <3>3. k + 1 < j => y < x
      BY <1>4, <2>3, <2>5, <3>1
    <3> QED BY <2>2, <2>3, <2>5, <3>1, <3>2, <3>3
  <2>7. y \in P
    <3>1. y \in 1..m
      BY <2>2, <2>6
    <3> QED BY <2>6, <3>1
  <2>8. PICK i \in 1..N : o[i] = y
    BY <1>3, <2>7
  <2>9. k < i
    <3>1. ASSUME i <= k PROVE FALSE
      <4>1. i \in 1..k /\ i \in 1..M /\ i < k + 1
        BY <1>3, <2>1, <3>1
      <4>2. q[i] < q[k + 1] /\ o[i] = q[i]
        BY <1>4, <2>1, <2>6, <4>1
      <4> QED BY <2>5, <2>6, <2>8, <4>2
    <3> QED BY <1>3, <2>1, <3>1
  <2>10. x <= y
    <3>1. k + 1 = i \/ k + 1 < i
      BY <1>3, <2>1, <2>9
    <3>2. k + 1 < i => x < y
      BY <1>3, <2>1, <2>2, <2>8
    <3> QED BY <2>2, <2>6, <2>8, <3>1, <3>2
  <2>11. x = y
    BY <2>2, <2>6, <2>10
  <2>12. \A l \in 1..(k + 1) : l \in 1..M /\ o[l] = q[l]
    <3>1. \A l \in 1..(k + 1) : l \in 1..k \/ l = k + 1
      BY <2>1
    <3> QED BY <2>1, <2>2, <2>5, <2>6, <2>11, <3>1
  <2> QED BY <1>3, <1>5, <2>1, <2>12
<1>8. N \in Nat /\ M \in Nat
  BY <1>3, <1>4
<1>9. N \in S
  <2>1. 0..N \subseteq S
    BY <1>6, <1>7, <1>8, UpTo
  <2> QED BY <1>8, <2>1
<1>10. N <= M /\ \A k \in 1..N : k \in 1..M /\ o[k] = q[k]
  <2>1. \A j \in 1..N : j \in 1..M /\ o[j] = q[j]
    BY <1>5, <1>9
  <2>2. N = 0 \/ N \in 1..N
    BY <1>8
  <2> QED BY <1>8, <2>1, <2>2
<1>11. Kept(s, P) = [k \in 1..N |-> s[o[k]]] /\ Kept(t, Q) = [k \in 1..M |-> t[q[k]]]
  BY <1>1, <1>2, <1>3, <1>4 DEF KeptIn, At
<1>12. \A k \in 1..N : Kept(s, P)[k] = Kept(t, Q)[k]
  BY <1>3, <1>10, <1>11
<1>13. /\ Len(Kept(s, P)) = N /\ DOMAIN Kept(s, P) = 1..N
       /\ Len(Kept(t, Q)) = M /\ DOMAIN Kept(t, Q) = 1..M
  BY <1>8, <1>11
<1>14. StartsAs(Kept(t, Q), M, Kept(s, P), N)
  BY <1>8, <1>10, <1>12, <1>13 DEF StartsAs
<1> QED BY <1>14

(* A list that goes on with what it has already.                           *)
Lengthens(long, list) ==
    /\ IsList(long) /\ IsList(list) /\ Len(list) <= Len(long)
    /\ \A n \in 1..Len(list) : long[n] = list[n]
    /\ ToSet(long) = ToSet(list)

ThoseAt(s, P) == {s[p] : p \in P}

LEMMA PrefixIs ==
    ASSUME NEW s, NEW t, IsList(s), IsList(t), Len(s) <= Len(t), \A n \in 1..Len(s) : s[n] = t[n]
    PROVE  IsPrefix(s, t)
<1>1. PICK k, l : k = Len(s) /\ k \in Nat /\ l = Len(t) /\ l \in Nat /\ k <= l
  BY ListIs
<1>2. s \in Seq(ToSet(s)) /\ t \in Seq(ToSet(t))
  BY ListIs
<1>3. k \in 0..Len(s) /\ k \in 0..Len(t)
  BY <1>1
<1>4. SubSeq(s, 1, k) = Start(s, k)
  BY <1>2, <1>3, StartIs
<1>5. SubSeq(t, 1, k) = Start(t, k)
  BY <1>2, <1>3, StartIs
<1>6. Start(s, k) = Start(t, k)
  BY <1>1 DEF Start
<1> QED BY <1>1, <1>4, <1>5, <1>6 DEF IsPrefix

KeptOf(kept, s, P) ==
    /\ kept \in Seq(ThoseAt(s, P)) /\ Len(kept) \in Nat
    /\ \A p \in P : \E k \in 1..Len(kept) : kept[k] = s[p]

LEMMA KeptOfIt ==
    ASSUME NEW n \in Nat, NEW P, P \subseteq 1..n, NEW s
    PROVE  KeptOf(Kept(s, P), s, P)
<1>1. PICK N, o : KeptIn(o, N, n, P, s)
  BY KeptIsIn
<1>2. /\ N \in Nat /\ DOMAIN o = 1..N /\ \A k \in 1..N : o[k] \in P
      /\ \A p \in P : \E k \in 1..N : o[k] = p
  BY <1>1 DEF KeptIn, Enumerates
<1>3. PICK r, S : r = Kept(s, P) /\ S = ThoseAt(s, P)
  OBVIOUS
<1>4. r = [k \in 1..N |-> s[o[k]]]
  BY <1>1, <1>2, <1>3 DEF KeptIn, At
<1>5. \A k \in 1..N : s[o[k]] \in S
  BY <1>2, <1>3 DEF ThoseAt
<1>6. r \in Seq(S) /\ Len(r) = N
  BY <1>2, <1>4, <1>5
<1>7. \A p \in P : \E k \in 1..N : r[k] = s[p]
  BY <1>2, <1>4
<1> QED BY <1>2, <1>3, <1>6, <1>7 DEF KeptOf

TellsMore(long, list) == IsPrefix(list, long) /\ ToSet(long) = ToSet(list)

(* Places of a list that another one has as well, with what it has there.  *)
SamePlaces(Q, P, long, list) ==
    /\ P \subseteq 1..Len(list) /\ Q \subseteq 1..Len(long)
    /\ \A n \in 1..Len(list) : n \in P <=> n \in Q
    /\ ThoseAt(long, Q) \subseteq ThoseAt(list, P)

(* What is kept of such a list is, in its order, what is kept of the other *)
(* one and then some of it again.                                          *)
LEMMA KeptAgain ==
    ASSUME NEW long, NEW list, Lengthens(long, list), NEW P, NEW Q, SamePlaces(Q, P, long, list)
    PROVE  TellsMore(Kept(long, Q), Kept(list, P)) /\ ToSet(Kept(list, P)) = ThoseAt(list, P)
<1>1. PICK m, n : m = Len(list) /\ m \in Nat /\ n = Len(long) /\ n \in Nat /\ m <= n
  BY ListIs DEF Lengthens
<1>2. /\ P \subseteq 1..m /\ Q \subseteq 1..n
      /\ \A i \in 1..m : i \in P <=> i \in Q
      /\ \A i \in 1..m : list[i] = long[i]
  BY <1>1 DEF Lengthens, SamePlaces
<1>3. m \in Nat /\ n \in Nat
  BY <1>1
<1>4. PICK a, b : a = Kept(list, P) /\ b = Kept(long, Q)
  OBVIOUS
<1>5. PICK N, M : StartsAs(b, M, a, N)
  BY <1>1, <1>2, <1>3, <1>4, KeptFirst
<1>20. /\ N \in Nat /\ M \in Nat /\ N <= M
       /\ Len(a) = N /\ DOMAIN a = 1..N
       /\ Len(b) = M /\ DOMAIN b = 1..M
       /\ \A k \in 1..N : a[k] = b[k]
  BY <1>5 DEF StartsAs
<1>6. PICK S, T : S = ThoseAt(list, P) /\ T = ThoseAt(long, Q)
  OBVIOUS
<1>7. a \in Seq(S) /\ \A p \in P : \E k \in 1..N : a[k] = list[p]
  <2>1. KeptOf(a, list, P)
    BY <1>2, <1>3, <1>4, KeptOfIt
  <2> QED BY <1>20, <1>6, <2>1 DEF KeptOf
<1>8. b \in Seq(T) /\ \A p \in Q : \E k \in 1..M : b[k] = long[p]
  <2>1. KeptOf(b, long, Q)
    BY <1>2, <1>3, <1>4, KeptOfIt
  <2> QED BY <1>20, <1>6, <2>1 DEF KeptOf
<1>9. IsList(a) /\ IsList(b)
  BY <1>7, <1>8, ListOf
<1>10. IsPrefix(a, b)
  BY <1>20, <1>9, PrefixIs
<1>11. ToSet(a) = {a[k] : k \in 1..N} /\ ToSet(b) = {b[k] : k \in 1..M}
  BY <1>20 DEF ToSet
<1>12. \A k \in 1..N : a[k] \in S
  BY <1>20, <1>7
<1>13. \A k \in 1..M : b[k] \in T
  BY <1>20, <1>8
<1>14. S \subseteq ToSet(a)
  BY <1>6, <1>7, <1>11 DEF ThoseAt
<1>15. ToSet(a) = S
  BY <1>11, <1>12, <1>14
<1>16. T \subseteq S
  BY <1>6 DEF SamePlaces
<1>17. P \subseteq Q
  BY <1>1, <1>2
<1>18. S \subseteq ToSet(b)
  <2>1. ASSUME NEW p \in P PROVE list[p] \in ToSet(b)
    <3>1. p \in Q /\ list[p] = long[p]
      BY <1>2, <1>17
    <3> QED BY <1>8, <1>11, <3>1
  <2> QED BY <1>6, <2>1 DEF ThoseAt
<1>19. ToSet(b) = S
  BY <1>11, <1>13, <1>16, <1>18
<1> QED BY <1>4, <1>6, <1>10, <1>15, <1>19 DEF TellsMore

(* The leading pieces of such a list.                                      *)
LEMMA LeadingIs ==
    ASSUME NEW s, IsList(s), NEW limit \in Nat
    PROVE  \E n \in 0..Len(s) : /\ n <= limit /\ (n = limit \/ n = Len(s))
                                /\ Leading(s, limit) = Start(s, n)
                                /\ Len(Start(s, n)) = n /\ IsList(Start(s, n))
<1>1. PICK l : l = Len(s) /\ l \in Nat
  BY ListIs
<1>2. PICK n : n = IF limit <= l THEN limit ELSE l
  OBVIOUS
<1>3. n \in {limit, l} /\ {limit, l} \subseteq Int /\ n <= limit /\ n <= l /\ n \in Nat
  BY <1>1, <1>2
<1>4. Min({limit, l}) = n
  <2>1. \A y \in {limit, l} : n <= y
    BY <1>3
  <2> QED BY <1>3, <2>1, LowestIs
<1>5. s \in Seq(ToSet(s)) /\ n \in 0..Len(s)
  BY <1>1, <1>3, ListIs
<1>6. SubSeq(s, 1, n) = Start(s, n) /\ Start(s, n) \in Seq(ToSet(s))
  BY <1>5, StartIs
<1>7. Leading(s, limit) = Start(s, n)
  BY <1>1, <1>4, <1>6 DEF Leading
<1>8. IsList(Start(s, n)) /\ Len(Start(s, n)) = n
  <2>1. DOMAIN Start(s, n) = 1..n
    BY DEF Start
  <2>2. IsList(Start(s, n))
    BY <1>6, ListOf
  <2> QED BY <1>3, <1>6, <2>1, <2>2
<1> QED BY <1>1, <1>3, <1>5, <1>7, <1>8

LEMMA LeadingAgain ==
    ASSUME NEW long, NEW list, Lengthens(long, list), NEW limit \in Nat
    PROVE  Lengthens(Leading(long, limit), Leading(list, limit))
<1>1. PICK l, k : l = Len(long) /\ l \in Nat /\ k = Len(list) /\ k \in Nat /\ k <= l
  BY ListIs DEF Lengthens
<1>2. PICK m \in 0..k : /\ m <= limit /\ (m = limit \/ m = k)
                        /\ Leading(list, limit) = Start(list, m)
                        /\ Len(Start(list, m)) = m /\ IsList(Start(list, m))
  BY <1>1, LeadingIs DEF Lengthens
<1>3. PICK n \in 0..l : /\ n <= limit /\ (n = limit \/ n = l)
                        /\ Leading(long, limit) = Start(long, n)
                        /\ Len(Start(long, n)) = n /\ IsList(Start(long, n))
  BY <1>1, LeadingIs DEF Lengthens
<1>4. m <= n
  BY <1>1, <1>2, <1>3
<1>5. PICK a, b : a = Start(list, m) /\ b = Start(long, n)
  OBVIOUS
<1>6. a = [i \in 1..m |-> list[i]] /\ b = [i \in 1..n |-> long[i]]
  BY <1>5 DEF Start
<1>7. \A i \in 1..m : b[i] = a[i]
  <2>1. \A i \in 1..m : i \in 1..n /\ i \in 1..k
    BY <1>1, <1>2, <1>3, <1>4
  <2> QED BY <1>1, <1>6, <2>1 DEF Lengthens
<1>8. ToSet(b) = ToSet(a)
  <2>1. ToSet(a) = {a[i] : i \in 1..m} /\ ToSet(b) = {b[i] : i \in 1..n}
    BY <1>6 DEF ToSet
  <2>2. \A i \in 1..m : i \in 1..n
    BY <1>4
  <2>3. ToSet(a) \subseteq ToSet(b)
    BY <1>7, <2>1, <2>2
  <2>4. CASE m = limit
    <3>1. n = m
      BY <1>2, <1>3, <1>4, <2>4
    <3> QED BY <1>7, <2>1, <3>1
  <2>5. CASE m = k
    <3>1. ToSet(a) = ToSet(list)
      <4>1. DOMAIN list = 1..k
        BY <1>1, ListIs DEF Lengthens
      <4> QED BY <1>6, <2>1, <2>5, <4>1 DEF ToSet
    <3>2. \A i \in 1..n : b[i] \in ToSet(long)
      <4>1. DOMAIN long = 1..l
        BY <1>1, ListIs DEF Lengthens
      <4>2. \A i \in 1..n : i \in 1..l
        BY <1>1, <1>3
      <4> QED BY <1>6, <4>1, <4>2 DEF ToSet
    <3>3. ToSet(long) = ToSet(list)
      BY DEF Lengthens
    <3> QED BY <2>1, <2>3, <3>1, <3>2, <3>3
  <2> QED BY <1>2, <2>4, <2>5
<1> QED BY <1>2, <1>3, <1>4, <1>5, <1>7, <1>8 DEF Lengthens

(* Those of a set, of such a list.                                         *)
Within(s, Z) == Kept(s, {n \in DOMAIN s : s[n] \in Z})

LEMMA WithinAgain ==
    ASSUME NEW long, NEW list, Lengthens(long, list), NEW Z
    PROVE  /\ TellsMore(Within(long, Z), Within(list, Z))
           /\ ToSet(Within(list, Z)) = ToSet(list) \cap Z
<1>1. PICK l, k : /\ l = Len(long) /\ l \in Nat /\ DOMAIN long = 1..l
                  /\ k = Len(list) /\ k \in Nat /\ k <= l /\ DOMAIN list = 1..k
  BY ListIs DEF Lengthens
<1>2. PICK P, Q : P = {n \in 1..k : list[n] \in Z} /\ Q = {n \in 1..l : long[n] \in Z}
  OBVIOUS
<1>3. Within(list, Z) = Kept(list, P) /\ Within(long, Z) = Kept(long, Q)
  BY <1>1, <1>2 DEF Within
<1>4. P \subseteq 1..Len(list) /\ Q \subseteq 1..Len(long)
  BY <1>1, <1>2
<1>5. \A n \in 1..Len(list) : n \in P <=> n \in Q
  BY <1>1, <1>2 DEF Lengthens
<1>6. ThoseAt(list, P) = ToSet(list) \cap Z /\ ThoseAt(long, Q) = ToSet(long) \cap Z
  BY <1>1, <1>2 DEF ThoseAt, ToSet
<1>7. ThoseAt(long, Q) \subseteq ThoseAt(list, P)
  BY <1>6 DEF Lengthens
<1>8. SamePlaces(Q, P, long, list)
  BY <1>4, <1>5, <1>7 DEF SamePlaces
<1>9. TellsMore(Kept(long, Q), Kept(list, P)) /\ ToSet(Kept(list, P)) = ThoseAt(list, P)
  BY <1>8, KeptAgain
<1> QED BY <1>3, <1>6, <1>9

DictsOf(S) == {f \in S : f.dict}

SaidOf(S) == {f \in S : f.dict /\ f.said}

LEMMA DictsAre ==
    ASSUME NEW s, NEW S, IsList(s), ToSet(s) = S
    PROVE  /\ Dicts(s) = Within(s, DictsOf(S))
           /\ Those(s, LAMBDA f : f.dict /\ f.said) = Within(s, SaidOf(S))
<1>1. \A n \in DOMAIN s : s[n] \in S
  BY DEF ToSet
<1>2. {n \in DOMAIN s : s[n].dict} = {n \in DOMAIN s : s[n] \in DictsOf(S)}
  BY <1>1 DEF DictsOf
<1>3. {n \in DOMAIN s : s[n].dict /\ s[n].said} = {n \in DOMAIN s : s[n] \in SaidOf(S)}
  BY <1>1 DEF SaidOf
<1> QED BY <1>2, <1>3 DEF Dicts, Those, Within

LEMMA DictsAgain ==
    ASSUME NEW long, NEW list, Lengthens(long, list)
    PROVE  /\ TellsMore(Dicts(long), Dicts(list))
           /\ ToSet(Dicts(list)) = DictsOf(ToSet(list))
           /\ TellsMore(Those(long, LAMBDA f : f.dict /\ f.said), Those(list, LAMBDA f : f.dict /\ f.said))
<1>1. PICK S : S = ToSet(list)
  OBVIOUS
<1>2. IsList(long) /\ IsList(list) /\ ToSet(long) = S /\ ToSet(list) = S
  BY <1>1 DEF Lengthens
<1>3. /\ Dicts(list) = Within(list, DictsOf(S)) /\ Dicts(long) = Within(long, DictsOf(S))
      /\ Those(list, LAMBDA f : f.dict /\ f.said) = Within(list, SaidOf(S))
      /\ Those(long, LAMBDA f : f.dict /\ f.said) = Within(long, SaidOf(S))
  BY <1>2, DictsAre
<1>4. TellsMore(Within(long, DictsOf(S)), Within(list, DictsOf(S)))
  BY WithinAgain
<1>5. TellsMore(Within(long, SaidOf(S)), Within(list, SaidOf(S)))
  BY WithinAgain
<1>6. ToSet(Within(list, DictsOf(S))) = S \cap DictsOf(S)
  BY <1>1, WithinAgain
<1>7. S \cap DictsOf(S) = DictsOf(S)
  BY DEF DictsOf
<1> QED BY <1>1, <1>3, <1>4, <1>5, <1>6, <1>7

(* The findings that a task leaves in the list of its caller               *)

LEMMA DictsList ==
    ASSUME NEW s, IsList(s)
    PROVE  IsList(Dicts(s)) /\ ToSet(Dicts(s)) \subseteq ToSet(s)
<1>1. PICK l, P : l = Len(s) /\ l \in Nat /\ DOMAIN s = 1..l /\ P = {n \in 1..l : s[n].dict}
  BY ListIs
<1>2. PICK r : r = Dicts(s)
  OBVIOUS
<1>3. r = Kept(s, P)
  BY <1>1, <1>2 DEF Dicts, Those
<1>4. P \subseteq 1..l /\ l \in Nat
  BY <1>1
<1>5. KeptOf(r, s, P)
  BY <1>3, <1>4, KeptOfIt
<1>6. r \in Seq(ThoseAt(s, P))
  BY <1>5 DEF KeptOf
<1>7. ThoseAt(s, P) \subseteq ToSet(s)
  BY <1>1 DEF ThoseAt, ToSet
<1>8. ToSet(r) \subseteq ThoseAt(s, P)
  BY <1>6 DEF ToSet
<1> QED BY <1>2, <1>6, <1>7, <1>8, ListOf

LEMMA LongerStill ==
    ASSUME NEW long, NEW list, Lengthens(long, list), NEW more, IsList(more), ToSet(more) \subseteq ToSet(list)
    PROVE  Lengthens(long \o more, list)
<1>1. PICK l, m, k : /\ l = Len(long) /\ l \in Nat /\ m = Len(more) /\ m \in Nat
                     /\ k = Len(list) /\ k \in Nat /\ k <= l
  BY ListIs DEF Lengthens
<1>2. PICK r : r = long \o more
  OBVIOUS
<1>3. /\ Len(r) = l + m
      /\ \A n \in 1..(l + m) : r[n] = IF n <= l THEN long[n] ELSE more[n - l]
  BY <1>1, <1>2, TwoListsAre DEF Lengthens
<1>4. IsList(r) /\ ToSet(r) = ToSet(list)
  <2>1. IsList(long) /\ ToSet(long) = ToSet(list)
    BY DEF Lengthens
  <2>2. IsList(r) /\ ToSet(r) = ToSet(long) \cup ToSet(more)
    BY <1>2, <2>1, JoinedElements
  <2> QED BY <2>1, <2>2
<1>5. \A n \in 1..k : r[n] = list[n]
  <2>1. \A n \in 1..k : n \in 1..(l + m) /\ n <= l
    BY <1>1
  <2> QED BY <1>1, <1>3, <2>1 DEF Lengthens
<1> QED BY <1>1, <1>2, <1>3, <1>4, <1>5 DEF Lengthens

LEMMA LongAsItself == ASSUME NEW s, IsList(s) PROVE Lengthens(s, s)
BY ListIs DEF Lengthens

(* What is the same of a task each time that it is asked.                  *)
SameBut(req, t) ==
    /\ req.type = t.type /\ req.format = t.format /\ req.wants = t.wants
    /\ req.incident = t.incident /\ req.findings = t.findings /\ req.events = t.events
    /\ req.investigation = Absent <=> t.investigation = Absent
    /\ t.investigation # Absent => /\ req.investigation.id = t.investigation.id
                                   /\ req.investigation.timeline = t.investigation.timeline
    /\ Lengthens(Extended(req), Extended(t))

(* A task as its caller has it after some attempts.                        *)
Again(req, t) ==
    IF t \notin WithLists THEN req = t
    ELSE /\ TaskFields \subseteq DOMAIN req
         /\ req.type = t.type /\ req.format = t.format /\ req.wants = t.wants
         /\ req.incident = t.incident /\ req.findings = t.findings /\ req.events = t.events
         /\ req.investigation \in Inquiries
         /\ req.investigation.id = t.investigation.id
         /\ req.investigation.timeline = t.investigation.timeline
         /\ \/ req.investigation.findings = t.investigation.findings
            \/ Lengthens(req.investigation.findings, Extended(t))

LEMMA ExtendedTask ==
    ASSUME NEW t \in ReportTasks
    PROVE  /\ IsList(Extended(t)) /\ IsList(Dicts(t.findings))
           /\ ToSet(Dicts(t.findings)) \subseteq ToSet(Extended(t))
           /\ ToSet(Dicts(t.findings)) \subseteq AnyFinding
           /\ t \in WithLists => /\ t.investigation \in Inquiries /\ t.investigation # Absent
                                 /\ t.investigation.findings \in Seq(AnyFinding)
                                 /\ t.investigation.findings # Absent
                                 /\ Extended(t) = t.investigation.findings \o Dicts(t.findings)
<1>1. IsList(t.findings)
  BY ReportTasksAssumption
<1>2. PICK D : D = Dicts(t.findings) /\ IsList(D) /\ ToSet(D) \subseteq ToSet(t.findings)
  BY <1>1, DictsList
<1>3. ToSet(D) \subseteq AnyFinding
  BY <1>2 DEF AnyFinding
<1>4. PICK base : base = IF t.investigation = Absent \/ t.investigation.findings = Absent
                         THEN <<>> ELSE t.investigation.findings
  OBVIOUS
<1>5. Extended(t) = base \o D
  BY <1>2, <1>4 DEF Extended
<1>6. t \in WithLists <=> ~(t.investigation = Absent \/ t.investigation.findings = Absent)
  BY DEF WithLists, Inquired
<1>7. t \in WithLists => t.investigation \in Inquiries /\ t.investigation.findings \in Seq(AnyFinding)
  BY ReportTasksAssumption DEF Inquiries
<1>8. IsList(base)
  <2>1. <<>> \in Seq({})
    OBVIOUS
  <2> QED BY <1>4, <1>6, <1>7, <2>1, ListOf
<1>9. IsList(base \o D) /\ ToSet(base \o D) = ToSet(base) \cup ToSet(D)
  BY <1>2, <1>8, JoinedElements
<1> QED BY <1>2, <1>3, <1>4, <1>5, <1>6, <1>7, <1>9

LEMMA AgainIsSame ==
    ASSUME NEW t \in ReportTasks, NEW req, Again(req, t)
    PROVE  SameBut(req, t)
<1>1. IsList(Extended(t)) /\ IsList(Dicts(t.findings)) /\ ToSet(Dicts(t.findings)) \subseteq ToSet(Extended(t))
  BY ExtendedTask
<1>2. CASE t \notin WithLists
  <2>1. req = t
    BY <1>2 DEF Again
  <2>2. Lengthens(Extended(req), Extended(t))
    BY <1>1, <2>1, LongAsItself
  <2> QED BY <2>1, <2>2 DEF SameBut
<1>3. CASE t \in WithLists
  <2>1. PICK F, D, E : F = req.investigation.findings /\ D = Dicts(t.findings) /\ E = Extended(t)
    OBVIOUS
  <2>2. /\ t.investigation # Absent /\ t.investigation.findings # Absent
        /\ t.investigation.findings \in Seq(AnyFinding)
        /\ E = t.investigation.findings \o D
    BY <1>3, <2>1, ExtendedTask
  <2>3. req.investigation # Absent /\ F # Absent
    <3>1. req.investigation \in Inquiries
      BY <1>3 DEF Again
    <3>2. F \in Seq(AnyFinding)
      BY <2>1, <3>1 DEF Inquiries
    <3> QED BY <3>1, <3>2, ReportTasksAssumption
  <2>4. Extended(req) = F \o D
    <3>1. req.findings = t.findings
      BY <1>3 DEF Again
    <3> QED BY <2>1, <2>3, <3>1 DEF Extended
  <2>5. IsList(E) /\ IsList(D) /\ ToSet(D) \subseteq ToSet(E)
    BY <1>1, <2>1
  <2>6. ASSUME F = t.investigation.findings PROVE Lengthens(Extended(req), Extended(t))
    <3>1. Extended(req) = E
      BY <2>2, <2>4, <2>6
    <3>2. Lengthens(E, E)
      BY <2>5, LongAsItself
    <3> QED BY <2>1, <3>1, <3>2
  <2>7. ASSUME Lengthens(F, E) PROVE Lengthens(Extended(req), Extended(t))
    <3>1. Lengthens(F \o D, E)
      BY <2>5, <2>7, LongerStill
    <3> QED BY <2>1, <2>4, <3>1
  <2>8. Lengthens(Extended(req), Extended(t))
    <3>1. F = t.investigation.findings \/ Lengthens(F, E)
      BY <1>3, <2>1 DEF Again
    <3> QED BY <2>6, <2>7, <3>1
  <2> QED BY <1>3, <2>2, <2>3, <2>8 DEF Again, SameBut
<1> QED BY <1>2, <1>3

LEMMA AgainGoesOn ==
    ASSUME NEW t \in ReportTasks, NEW req, Again(req, t)
    PROVE  Again(Extracted(req), t)
<1>1. CASE t \notin WithLists
  <2>1. req = t
    BY <1>1 DEF Again
  <2>2. Extracted(t) = t
    BY <1>1 DEF Extracted, WithLists, Inquired
  <2> QED BY <2>1, <2>2
<1>2. CASE t \in WithLists
  <2>1. PICK old : old = req.investigation
    OBVIOUS
  <2>2. old \in Inquiries /\ TaskFields \subseteq DOMAIN req
    BY <1>2, <2>1 DEF Again
  <2>3. old # Absent /\ old.findings # Absent /\ old.findings \in Seq(AnyFinding)
    BY <2>2, ReportTasksAssumption DEF Inquiries
  <2>4. PICK F : F = Extended(req)
    OBVIOUS
  <2>5. F \in Seq(AnyFinding) /\ Lengthens(F, Extended(t))
    <3>1. Lengthens(F, Extended(t))
      BY <2>4, AgainIsSame DEF SameBut
    <3>2. ToSet(Extended(t)) \subseteq AnyFinding
      <4>1. /\ IsList(Dicts(t.findings)) /\ ToSet(Dicts(t.findings)) \subseteq AnyFinding
            /\ t.investigation.findings \in Seq(AnyFinding)
            /\ Extended(t) = t.investigation.findings \o Dicts(t.findings)
        BY <1>2, ExtendedTask
      <4>2. IsList(t.investigation.findings) /\ ToSet(t.investigation.findings) \subseteq AnyFinding
        BY <4>1, ListOf DEF ToSet
      <4> QED BY <4>1, <4>2, JoinedElements
    <3>3. IsList(F) /\ ToSet(F) \subseteq AnyFinding
      BY <3>1, <3>2 DEF Lengthens
    <3>4. F \in Seq(ToSet(F))
      BY <3>3, ListIs
    <3> QED BY <3>1, <3>3, <3>4
  <2>6. PICK new : new = [old EXCEPT !.findings = F]
    OBVIOUS
  <2>7. new \in Inquiries /\ new.id = old.id /\ new.timeline = old.timeline /\ new.findings = F
    BY <2>2, <2>5, <2>6 DEF Inquiries
  <2>8. PICK next : next = [req EXCEPT !.investigation = new]
    OBVIOUS
  <2>9. Extracted(req) = next
    BY <2>1, <2>3, <2>4, <2>6, <2>8 DEF Extracted
  <2>10. /\ DOMAIN next = DOMAIN req /\ next.investigation = new
         /\ next.type = req.type /\ next.format = req.format /\ next.wants = req.wants
         /\ next.incident = req.incident /\ next.findings = req.findings /\ next.events = req.events
    BY <2>2, <2>8 DEF TaskFields
  <2> QED BY <1>2, <2>1, <2>2, <2>5, <2>7, <2>9, <2>10 DEF Again
<1> QED BY <1>1, <1>2

(* The reports on a task, the first one and a later one                    *)

(* Data that differ in how often they have their findings.                 *)
SameData(more, data) ==
    /\ more.about = data.about /\ more.incident = data.incident
    /\ more.timeline = data.timeline /\ more.events = data.events
    /\ Lengthens(more.findings, data.findings)

LEMMA DataAgain ==
    ASSUME NEW req, NEW t, SameBut(req, t)
    PROVE  /\ SameData(ReportData(req), ReportData(t))
           /\ DetermineType(req) = DetermineType(t)
           /\ ReportData(t).findings = Extended(t)
<1>1. DetermineType(req) = DetermineType(t)
  BY DEF SameBut, DetermineType
<1>2. PICK a, b : a = ReportData(req) /\ b = ReportData(t)
  OBVIOUS
<1>3. /\ a.about = b.about /\ a.incident = b.incident
      /\ a.timeline = b.timeline /\ a.events = b.events
  BY <1>2 DEF SameBut, ReportData
<1>4. a.findings = Extended(req) /\ b.findings = Extended(t)
  BY <1>2 DEF ReportData
<1>5. Lengthens(a.findings, b.findings)
  BY <1>4 DEF SameBut
<1> QED BY <1>1, <1>2, <1>3, <1>4, <1>5 DEF SameData

LEMMA NothingOfNothing ==
    ASSUME NEW long, NEW list, Lengthens(long, list)
    PROVE  long = <<>> <=> list = <<>>
<1>1. \A s : IsList(s) => (s = <<>> <=> ToSet(s) = {})
  <2> SUFFICES ASSUME NEW s, IsList(s) PROVE s = <<>> <=> ToSet(s) = {}
    OBVIOUS
  <2>1. PICK n : n = Len(s) /\ n \in Nat /\ DOMAIN s = 1..n /\ s \in Seq(ToSet(s))
    BY ListIs
  <2>2. s = <<>> <=> n = 0
    BY <2>1, EmptySeq
  <2>3. n # 0 => 1 \in DOMAIN s
    BY <2>1
  <2>4. n = 0 => DOMAIN s = {}
    BY <2>1
  <2> QED BY <2>2, <2>3, <2>4 DEF ToSet
<1> QED BY <1>1 DEF Lengthens

LEMMA MoreOfNothing == TellsMore(<<>>, <<>>)
<1>1. <<>> \in Seq({}) /\ Len(<<>>) = 0
  OBVIOUS
<1>2. IsList(<<>>)
  BY <1>1, ListOf
<1>3. IsPrefix(<<>>, <<>>)
  BY <1>1, <1>2, PrefixIs
<1> QED BY <1>3 DEF TellsMore

LEMMA FindingsAgain ==
    ASSUME NEW more, NEW data, SameData(more, data), NEW type
    PROVE  /\ TellsMore(ListedFindings(type, more), ListedFindings(type, data))
           /\ TellsMore(KeyFindings(more), KeyFindings(data))
           /\ Len(more.findings) \in Nat /\ Len(data.findings) \in Nat
           /\ Len(more.findings) >= Len(data.findings)
<1>1. FindingLimit \in Nat /\ KeyLimit \in Nat
  BY ReportAssumption
<1>2. Lengthens(more.findings, data.findings)
  BY DEF SameData
<1>3. PICK a, b : a = Leading(more.findings, FindingLimit) /\ b = Leading(data.findings, FindingLimit)
  OBVIOUS
<1>4. Lengthens(a, b)
  BY <1>1, <1>2, <1>3, LeadingAgain
<1>5. TellsMore(Dicts(a), Dicts(b))
  BY <1>4, DictsAgain
<1>6. TellsMore(ListedFindings(type, more), ListedFindings(type, data))
  BY <1>3, <1>5, MoreOfNothing DEF ListedFindings
<1>7. PICK c, d : c = Leading(more.findings, KeyLimit) /\ d = Leading(data.findings, KeyLimit)
  OBVIOUS
<1>8. Lengthens(c, d)
  BY <1>1, <1>2, <1>7, LeadingAgain
<1>9. TellsMore(Those(c, LAMBDA f : f.dict /\ f.said), Those(d, LAMBDA f : f.dict /\ f.said))
  BY <1>8, DictsAgain
<1>10. TellsMore(KeyFindings(more), KeyFindings(data))
  BY <1>7, <1>9 DEF KeyFindings
<1>11. PICK m, n : m = Len(more.findings) /\ n = Len(data.findings) /\ n <= m
  BY <1>2 DEF Lengthens
<1>12. m \in Nat /\ n \in Nat
  BY <1>2, <1>11, ListIs DEF Lengthens
<1> QED BY <1>6, <1>10, <1>11, <1>12

LEMMA SectionsAgain ==
    ASSUME NEW more, NEW data, SameData(more, data), NEW type
    PROVE  /\ Sections(type, more) = Sections(type, data)
           /\ ListedTimeline(type, more) = ListedTimeline(type, data)
           /\ Unwritable(type, more) <=> Unwritable(type, data)
<1>1. more.findings # <<>> <=> data.findings # <<>>
  BY NothingOfNothing DEF SameData
<1>3. Optional("findings", more.findings # <<>>) = Optional("findings", data.findings # <<>>)
  BY <1>1 DEF Optional
<1>4. Optional("detailed_findings", more.findings # <<>>) = Optional("detailed_findings", data.findings # <<>>)
  BY <1>1 DEF Optional
<1>5. IncidentSections(more) = IncidentSections(data)
  BY <1>3 DEF IncidentSections, SameData
<1>6. TechnicalSections(more) = TechnicalSections(data)
  BY <1>4 DEF TechnicalSections
<1>7. Sections(type, more) = Sections(type, data)
  BY <1>5, <1>6 DEF Sections
<1>8. ListedTimeline(type, more) = ListedTimeline(type, data)
  BY DEF ListedTimeline, SameData
<1>9. ToSet(ListedFindings(type, more)) = ToSet(ListedFindings(type, data))
  BY FindingsAgain DEF TellsMore
<1>10. Unwritable(type, more) <=> Unwritable(type, data)
  BY <1>9 DEF Unwritable, SameData
<1> QED BY <1>7, <1>8, <1>10

(* Where no findings are listed there is no section of them.               *)
LEMMA UnlistedAre ==
    ASSUME NEW type \in {"executive", "investigation"}, NEW data
    PROVE  {"findings", "detailed_findings"} \cap ToSet(Rendered(Sections(type, data))) = {}
<1>1. PICK head, tail, s : head = <<"metadata", "key_findings">> /\ tail = <<"recommendations">>
                           /\ s = Sections(type, data)
  OBVIOUS
<1>2. s = <<"key_points", "impact", "risk", "actions">>
      \/ s = <<"inv_summary", "methodology", "forensic_timeline", "evidence", "conclusions">>
  BY <1>1 DEF Sections, ExecutiveSections, InvestigationSections
<1>3. PICK S : S = {"metadata", "key_findings", "recommendations", "key_points", "impact", "risk", "actions",
                    "inv_summary", "methodology", "forensic_timeline", "evidence", "conclusions"}
  OBVIOUS
<1>4. head \in Seq(S) /\ tail \in Seq(S)
  BY <1>1, <1>3
<1>5. s \in Seq(S)
  <2>1. CASE s = <<"key_points", "impact", "risk", "actions">>
    BY <1>3, <2>1
  <2>2. CASE s = <<"inv_summary", "methodology", "forensic_timeline", "evidence", "conclusions">>
    BY <1>3, <2>2
  <2> QED BY <1>2, <2>1, <2>2
<1>6. Rendered(s) = head \o s \o tail
  BY <1>1 DEF Rendered
<1>7. Rendered(s) \in Seq(S)
  BY <1>4, <1>5, <1>6
<1>8. ToSet(Rendered(s)) \subseteq S
  BY <1>7 DEF ToSet
<1> QED BY <1>1, <1>3, <1>8

(* While there is room all findings of the task are listed.                *)
LEMMA RoomForAll ==
    ASSUME NEW t \in ReportTasks, NEW more, Lengthens(more.findings, Extended(t)), NEW type,
           type \notin {"executive", "investigation"}, Len(more.findings) <= FindingLimit
    PROVE  ToSet(Dicts(t.findings)) \subseteq ToSet(ListedFindings(type, more))
<1>1. PICK s, l : s = more.findings /\ l = Len(s) /\ IsList(s) /\ ToSet(s) = ToSet(Extended(t))
  BY DEF Lengthens
<1>2. l \in Nat /\ l <= FindingLimit /\ FindingLimit \in Nat
  BY <1>1, ReportAssumption, ListIs
<1>3. PICK n \in 0..l : /\ n <= FindingLimit /\ (n = FindingLimit \/ n = l)
                        /\ Leading(s, FindingLimit) = Start(s, n)
                        /\ Len(Start(s, n)) = n /\ IsList(Start(s, n))
  BY <1>1, <1>2, LeadingIs
<1>4. n = l
  BY <1>2, <1>3
<1>5. Start(s, l) = s
  <2>1. s \in Seq(ToSet(s))
    BY <1>1, ListIs
  <2> QED BY <1>1, <1>2, <2>1 DEF Start
<1>6. ListedFindings(type, more) = Dicts(s)
  BY <1>1, <1>3, <1>4, <1>5 DEF ListedFindings
<1>7. ToSet(Dicts(s)) = DictsOf(ToSet(s))
  BY <1>1, LongAsItself, DictsAgain
<1>8. IsList(t.findings) /\ ToSet(Dicts(t.findings)) \subseteq ToSet(Extended(t))
  BY ExtendedTask, ReportTasksAssumption
<1>9. ToSet(Dicts(t.findings)) = DictsOf(ToSet(t.findings))
  BY <1>8, LongAsItself, DictsAgain
<1> QED BY <1>1, <1>6, <1>7, <1>8, <1>9 DEF DictsOf

(* The report on a task, asked for again, tells the same.                  *)
LEMMA ReportedAgain ==
    ASSUME NEW t \in ReportTasks, NEW req, Again(req, t)
    PROVE  TellsTheSame(Reported(req), Reported(t), t.findings)
<1>1. SameBut(req, t)
  BY AgainIsSame
<1>2. PICK type, more, data : type = DetermineType(t) /\ more = ReportData(req) /\ data = ReportData(t)
  OBVIOUS
<1>3. SameData(more, data) /\ DetermineType(req) = type /\ data.findings = Extended(t)
  BY <1>1, <1>2, DataAgain
<1>4. req.format = t.format /\ req.events = t.events
  BY <1>1 DEF SameBut
<1>5. /\ Sections(type, more) = Sections(type, data)
      /\ ListedTimeline(type, more) = ListedTimeline(type, data)
      /\ Unwritable(type, more) <=> Unwritable(type, data)
  BY <1>3, SectionsAgain
<1>6. PICK again, first : again = Reported(req) /\ first = Reported(t)
  OBVIOUS
<1>7. CASE t.format \notin Formats \/ t.events = NullValue \/ Unwritable(type, data)
  <2>1. again = Unreported /\ first = Unreported
    BY <1>2, <1>3, <1>4, <1>5, <1>6, <1>7 DEF Reported
  <2>2. /\ Unreported.counted = 0 /\ Unreported.listed = <<>> /\ Unreported.key = <<>>
        /\ Unreported.outline = <<>>
        /\ Unreported["listed"] = <<>> /\ Unreported["key"] = <<>>
    BY DEF Unreported
  <2>3. IsPrefix(<<>>, <<>>)
    BY MoreOfNothing DEF TellsMore
  <2>4. ToSet(<<>>) = {}
    BY DEF ToSet
  <2>5. TellsTheSame(Unreported, Unreported, t.findings)
    BY <2>2, <2>3, <2>4 DEF TellsTheSame
  <2> QED BY <1>6, <2>1, <2>5
<1>8. CASE ~(t.format \notin Formats \/ t.events = NullValue \/ Unwritable(type, data))
  <2>1. again = [status |-> "success", about |-> more.about, outline |-> Rendered(Sections(type, more)),
                 listed |-> ListedFindings(type, more), timeline |-> ListedTimeline(type, more),
                 key |-> KeyFindings(more), counted |-> Len(more.findings),
                 advice |-> Advice(more.incident)]
    BY <1>2, <1>3, <1>4, <1>5, <1>6, <1>8 DEF Reported
  <2>2. first = [status |-> "success", about |-> data.about, outline |-> Rendered(Sections(type, data)),
                 listed |-> ListedFindings(type, data), timeline |-> ListedTimeline(type, data),
                 key |-> KeyFindings(data), counted |-> Len(data.findings),
                 advice |-> Advice(data.incident)]
    BY <1>2, <1>6, <1>8 DEF Reported
  <2>3. more.about = data.about /\ more.incident = data.incident
    BY <1>3 DEF SameData
  <2>4. PICK about, outline, line, advice :
            /\ about = data.about /\ outline = Rendered(Sections(type, data))
            /\ line = ListedTimeline(type, data) /\ advice = Advice(data.incident)
    OBVIOUS
  <2>5. again = [status |-> "success", about |-> about, outline |-> outline,
                 listed |-> ListedFindings(type, more), timeline |-> line,
                 key |-> KeyFindings(more), counted |-> Len(more.findings), advice |-> advice]
    BY <1>5, <2>1, <2>3, <2>4
  <2>6. first = [status |-> "success", about |-> about, outline |-> outline,
                 listed |-> ListedFindings(type, data), timeline |-> line,
                 key |-> KeyFindings(data), counted |-> Len(data.findings), advice |-> advice]
    BY <2>2, <2>4
  <2>7. ASSUME NEW part \in {"status", "about", "outline", "timeline", "advice"} PROVE again[part] = first[part]
    BY <2>5, <2>6
  <2>8. /\ TellsMore(ListedFindings(type, more), ListedFindings(type, data))
        /\ TellsMore(KeyFindings(more), KeyFindings(data))
        /\ Len(more.findings) \in Nat /\ Len(data.findings) \in Nat
        /\ Len(more.findings) >= Len(data.findings)
    BY <1>3, FindingsAgain
  <2>9. /\ again.counted = Len(more.findings) /\ first.counted = Len(data.findings)
        /\ again["listed"] = ListedFindings(type, more) /\ first["listed"] = ListedFindings(type, data)
        /\ again["key"] = KeyFindings(more) /\ first["key"] = KeyFindings(data)
        /\ again.listed = ListedFindings(type, more) /\ again.outline = outline
    BY <2>5, <2>6
  <2>10. ASSUME NEW tells \in {"listed", "key"}
         PROVE  IsPrefix(first[tells], again[tells]) /\ ToSet(again[tells]) = ToSet(first[tells])
    BY <2>8, <2>9 DEF TellsMore
  <2>11. again.counted >= first.counted
    BY <2>8, <2>9
  <2>12. ASSUME again.counted <= FindingLimit, {"findings", "detailed_findings"} \cap ToSet(again.outline) # {}
         PROVE  ToSet(Dicts(t.findings)) \subseteq ToSet(again.listed)
    <3>1. type \notin {"executive", "investigation"}
      BY <2>4, <2>9, <2>12, UnlistedAre
    <3>2. Lengthens(more.findings, Extended(t))
      BY <1>3 DEF SameData
    <3>3. Len(more.findings) <= FindingLimit
      BY <2>9, <2>12
    <3>4. ToSet(Dicts(t.findings)) \subseteq ToSet(ListedFindings(type, more))
      BY <3>1, <3>2, <3>3, RoomForAll
    <3> QED BY <2>9, <3>4
  <2>13. TellsTheSame(again, first, t.findings)
    BY <2>7, <2>10, <2>11, <2>12 DEF TellsTheSame
  <2> QED BY <1>6, <2>13
<1> QED BY <1>7, <1>8

(* The task of a caller has come to be what its attempts left of it, and   *)
(* the last report is on what it was before.                               *)
ReportInv ==
    attempts \in Nat /\ (attempts > 0 =>
        \E t \in ReportTasks : /\ Again(request, t) /\ firstReport = Reported(t)
                               /\ \E asked : Again(asked, t) /\ report = Reported(asked))

LEMMA AttemptsKeep ==
    ASSUME ReportInv, ReportNext
    PROVE  ReportInv'
<1>1. ASSUME NEW t \in ReportTasks, NEW asked, Again(asked, t), Process(asked)
      PROVE  Again(request', t) /\ report' = Reported(asked)
  <2>1. request' = asked \/ request' = Extracted(asked)
    BY <1>1 DEF Process
  <2>2. Again(Extracted(asked), t)
    BY <1>1, AgainGoesOn
  <2> QED BY <1>1, <2>1, <2>2 DEF Process
<1>2. CASE GenerateAgain
  <2>1. attempts > 0 /\ attempts \in Nat /\ attempts' = attempts + 1
        /\ firstReport' = firstReport /\ Process(request)
    BY <1>2 DEF GenerateAgain, ReportInv
  <2>2. PICK t \in ReportTasks : Again(request, t) /\ firstReport = Reported(t)
    BY <2>1 DEF ReportInv
  <2>3. Again(request', t) /\ report' = Reported(request)
    BY <1>1, <2>1, <2>2
  <2> QED BY <2>1, <2>2, <2>3 DEF ReportInv
<1>3. ASSUME NEW t \in ReportTasks, GenerateReport(t) PROVE ReportInv'
  <2>1. Process(t) /\ firstReport' = Reported(t) /\ attempts' = 1
    BY <1>3 DEF GenerateReport
  <2>2. Again(t, t)
    <3>1. t \in WithLists => t.investigation \in Inquiries
      BY ExtendedTask
    <3>2. TaskFields \subseteq DOMAIN t
      BY ReportTasksAssumption
    <3> QED BY <3>1, <3>2 DEF Again
  <2>3. Again(request', t) /\ report' = Reported(t)
    BY <1>1, <2>1, <2>2
  <2> QED BY <2>1, <2>2, <2>3 DEF ReportInv
<1> QED BY <1>2, <1>3 DEF ReportNext

(* Asking again tells the same: however often an agent is asked for its    *)
(* report, it reports what it did at first, no matter that its caller's    *)
(* findings have come to be told again and again.                          *)
THEOREM ReportsStay == ReportSpec => []AskingAgainTellsTheSame
<1>1. ReportInit => ReportInv
  BY DEF ReportInit, ReportInv
<1>2. ReportInv /\ [ReportNext]_reportVars => ReportInv'
  <2>1. ASSUME ReportInv, UNCHANGED reportVars PROVE ReportInv'
    BY <2>1 DEF ReportInv, reportVars
  <2> QED BY <2>1, AttemptsKeep
<1>3. ReportInv => AskingAgainTellsTheSame
  <2> SUFFICES ASSUME ReportInv, attempts > 0 PROVE TellsTheSame(report, firstReport, request.findings)
    BY DEF AskingAgainTellsTheSame
  <2>1. PICK t \in ReportTasks : /\ Again(request, t) /\ firstReport = Reported(t)
                                 /\ \E asked : Again(asked, t) /\ report = Reported(asked)
    BY DEF ReportInv
  <2>2. TellsTheSame(report, Reported(t), t.findings)
    BY <2>1, ReportedAgain
  <2>3. request.findings = t.findings
    BY <2>1 DEF Again
  <2> QED BY <2>1, <2>2, <2>3
<1> QED BY <1>1, <1>2, <1>3, PTL DEF ReportSpec
=============================================================================
