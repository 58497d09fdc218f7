---------------------------- MODULE ServiceProofs ----------------------------
(***************************************************************************)
(* The primitives of performance/__init__.py for every value of their      *)
(* constants, the circuit breaker, the cache, the token bucket and the     *)
(* connection pool; the distributed lock, the rate limit and the broker    *)
(* manager; what analysts work with, benchmark runs, incidents and threat  *)
(* intelligence; and from these all the services side by side.             *)
(***************************************************************************)
EXTENDS MCServices, FiniteSetTheorems, SequenceTheorems, TLAPS

-----------------------------------------------------------------------------
(* The primitives of performance *)

(* The circuit breaker for any number of callers, any thresholds and any   *)
(* recovery timeout.  BreakerTypeOK and CountsAreStreaks are inductive together,  *)
(* and the rule of when it opens and closes follows from them.             *)

BreakerInv == BreakerTypeOK /\ CountsAreStreaks

LEMMA InitiallyBreakerInv == BreakerInit => BreakerInv
BY BreakerAssumption DEF BreakerInit, BreakerInv, BreakerTypeOK, CountsAreStreaks

LEMMA BreakerInvKept == BreakerInv /\ [BreakerNext]_breakerVars => BreakerInv'
<1> SUFFICES ASSUME BreakerInv, [BreakerNext]_breakerVars PROVE BreakerInv'
  OBVIOUS
<1> USE BreakerAssumption DEF BreakerInv, BreakerTypeOK, CountsAreStreaks
<1>1. ASSUME NEW c \in Callers, Admit(c) PROVE BreakerInv'
  BY <1>1 DEF Admit, CanExecute
<1>2. ASSUME NEW c \in Callers, Succeed(c) PROVE BreakerInv'
  BY <1>2 DEF Succeed, RecordSuccess, UpTo
<1>3. ASSUME NEW c \in Callers, Fail(c) PROVE BreakerInv'
  BY <1>3 DEF Fail, RecordFailure, UpTo
<1>4. CASE BreakerTick
  BY <1>4 DEF BreakerTick
<1>5. CASE Health
  BY <1>5 DEF Health
<1>6. CASE UNCHANGED breakerVars
  BY <1>6 DEF breakerVars
<1> QED
  BY <1>1, <1>2, <1>3, <1>4, <1>5, <1>6 DEF BreakerNext

(* A closed breaker counts the failures in a row, an open one has failed,  *)
(* a half-open one counts successes in a row.                              *)
THEOREM BreakerCountsStreaks == BreakerSpec => [](BreakerTypeOK /\ CountsAreStreaks)
<1>1. BreakerInv => BreakerTypeOK /\ CountsAreStreaks
  BY DEF BreakerInv
<1> QED
  BY InitiallyBreakerInv, BreakerInvKept, <1>1, PTL DEF BreakerSpec

(* It opens only after failure_threshold failures in a row, and closes     *)
(* only after half_open_requests successes in a row.                       *)
THEOREM BreakerTripsOnStreaks == BreakerSpec => TripsOnStreaks
<1> DEFINE Rule ==
        /\ state = "closed" /\ state' = "open" => failures' >= FailureThreshold
        /\ state # "closed" /\ state' = "closed" => successes' >= HalfOpenRequests
<1>1. BreakerInv /\ [BreakerNext]_breakerVars => [Rule]_breakerVars
  <2> SUFFICES ASSUME BreakerInv, BreakerNext PROVE Rule
    OBVIOUS
  <2> USE BreakerAssumption DEF BreakerInv, BreakerTypeOK, CountsAreStreaks
  <2>1. ASSUME NEW c \in Callers, Admit(c) PROVE Rule
    BY <2>1 DEF Admit, CanExecute
  <2>2. ASSUME NEW c \in Callers, Succeed(c) PROVE Rule
    BY <2>2 DEF Succeed, RecordSuccess, UpTo
  <2>3. ASSUME NEW c \in Callers, Fail(c) PROVE Rule
    BY <2>3 DEF Fail, RecordFailure, UpTo
  <2>4. CASE BreakerTick \/ Health
    BY <2>4 DEF BreakerTick, Health
  <2> QED
    BY <2>1, <2>2, <2>3, <2>4 DEF BreakerNext
<1> QED
  BY InitiallyBreakerInv, BreakerInvKept, <1>1, PTL DEF BreakerSpec, TripsOnStreaks

-----------------------------------------------------------------------------
(* The cache never outgrows max_size, for every set of keys and every      *)
(* history of calls.  What set() relies on is that the deque holds every   *)
(* key of the dict, however many duplicates and leftovers it holds too.    *)

CacheTyped == live \subseteq Keys /\ stale \subseteq Keys /\ order \in Seq(Keys)

CacheInv == CacheTyped /\ EntriesAreQueued /\ SizeBounded

(* Taking one entry out of a sequence moves those behind it up by one. *)
LEMMA WithoutElements ==
    ASSUME NEW s \in Seq(Keys), NEW i \in 1..Len(s)
    PROVE  /\ Without(s, i) \in Seq(Keys) /\ Len(Without(s, i)) = Len(s) - 1
           /\ \A j \in 1..(i - 1) : Without(s, i)[j] = s[j]
           /\ \A j \in i..(Len(s) - 1) : Without(s, i)[j] = s[j + 1]
<1> DEFINE a == SubSeq(s, 1, i - 1)
           b == SubSeq(s, i + 1, Len(s))
<1>0. Len(s) \in Nat /\ \A j \in 1..Len(s) : s[j] \in Keys
  OBVIOUS
<1>1. /\ a \in Seq(Keys) /\ Len(a) = i - 1
      /\ \A j \in 1..(i - 1) : a[j] = s[j]
  <2>1. \A j \in 1..(i - 1) : s[j] \in Keys
    BY <1>0
  <2>2. /\ a \in Seq(Keys)
        /\ Len(a) = IF 1 <= i - 1 THEN (i - 1) - 1 + 1 ELSE 0
        /\ \A j \in 1..((i - 1) - 1 + 1) : a[j] = s[1 + j - 1]
    BY <2>1, SubSeqProperties
  <2> QED
    BY <2>2
<1>2. /\ b \in Seq(Keys) /\ Len(b) = Len(s) - i
      /\ \A j \in 1..(Len(s) - i) : b[j] = s[i + j]
  <2>1. \A j \in (i + 1)..Len(s) : s[j] \in Keys
    BY <1>0
  <2>2. /\ b \in Seq(Keys)
        /\ Len(b) = IF i + 1 <= Len(s) THEN Len(s) - (i + 1) + 1 ELSE 0
        /\ \A j \in 1..(Len(s) - (i + 1) + 1) : b[j] = s[(i + 1) + j - 1]
    BY <1>0, <2>1, SubSeqProperties
  <2> QED
    BY <1>0, <2>2
<1> HIDE DEF a, b
<1>3. /\ a \o b \in Seq(Keys) /\ Len(a \o b) = Len(s) - 1
      /\ \A j \in 1..(i - 1) : (a \o b)[j] = s[j]
      /\ \A j \in i..(Len(s) - 1) : (a \o b)[j] = s[j + 1]
  <2>1. /\ a \o b \in Seq(Keys)
        /\ Len(a \o b) = Len(a) + Len(b)
        /\ \A j \in 1..Len(a) + Len(b) :
               (a \o b)[j] = IF j <= Len(a) THEN a[j] ELSE b[j - Len(a)]
    BY <1>1, <1>2, ConcatProperties
  <2>2. \A j \in 1..(i - 1) : (a \o b)[j] = s[j]
    BY <1>0, <1>1, <1>2, <2>1
  <2>3. ASSUME NEW j \in i..(Len(s) - 1) PROVE (a \o b)[j] = s[j + 1]
    <3>1. (a \o b)[j] = b[j - (i - 1)]
      BY <1>0, <1>1, <1>2, <2>1
    <3>2. b[j - (i - 1)] = s[i + (j - (i - 1))]
      BY <1>0, <1>2
    <3> QED
      BY <3>1, <3>2
  <2> QED
    BY <1>0, <1>1, <1>2, <2>1, <2>2, <2>3
<1> QED
  BY <1>3 DEF Without, a, b

(* It keeps the others. *)
LEMMA WithoutKeeps ==
    ASSUME NEW s \in Seq(Keys), NEW i \in 1..Len(s)
    PROVE  /\ Without(s, i) \in Seq(Keys)
           /\ \A j \in 1..Len(s) : j # i => In(s[j], Without(s, i))
<1>0. Len(s) \in Nat
  OBVIOUS
<1>3. /\ Without(s, i) \in Seq(Keys) /\ Len(Without(s, i)) = Len(s) - 1
      /\ \A j \in 1..(i - 1) : Without(s, i)[j] = s[j]
      /\ \A j \in i..(Len(s) - 1) : Without(s, i)[j] = s[j + 1]
  BY WithoutElements
<1>4. ASSUME NEW j \in 1..Len(s), j # i PROVE In(s[j], Without(s, i))
  <2>1. CASE j < i
    <3>1. j \in 1..(i - 1) /\ j \in 1..Len(Without(s, i))
      BY <1>0, <1>3, <2>1
    <3>2. Without(s, i)[j] = s[j]
      BY <1>3, <3>1
    <3> QED
      BY <3>1, <3>2 DEF In
  <2>2. CASE j > i
    <3>1. j - 1 \in i..(Len(s) - 1)
      BY <1>0, <2>2
    <3>2. Without(s, i)[j - 1] = s[(j - 1) + 1]
      BY <1>3, <3>1
    <3>3. Without(s, i)[j - 1] = s[j] /\ j - 1 \in 1..Len(Without(s, i))
      BY <1>0, <1>3, <3>1, <3>2
    <3> QED
      BY <3>3 DEF In
  <2> QED
    BY <1>4, <2>1, <2>2
<1> QED
  BY <1>3, <1>4

(* A key appended is there, and so is what was. *)
LEMMA AppendKeeps ==
    ASSUME NEW s \in Seq(Keys), NEW item \in Keys
    PROVE  /\ Append(s, item) \in Seq(Keys)
           /\ In(item, Append(s, item))
           /\ \A w : In(w, s) => In(w, Append(s, item))
<1>1. /\ Append(s, item) \in Seq(Keys) /\ Len(Append(s, item)) = Len(s) + 1
      /\ \A i \in 1..Len(s) : Append(s, item)[i] = s[i]
      /\ Append(s, item)[Len(s) + 1] = item
  BY AppendProperties
<1> QED
  BY <1>1 DEF In

(* What the eviction spares of the deque holds every key it spares. *)
LEMMA SparedAreQueued ==
    ASSUME NEW n \in 0..Len(order), CacheTyped, NEW w, In(w, order), w \notin Oldest(n)
    PROVE  /\ SubSeq(order, n + 1, Len(order)) \in Seq(Keys)
           /\ In(w, SubSeq(order, n + 1, Len(order)))
<1> DEFINE rest == SubSeq(order, n + 1, Len(order))
<1>1. /\ rest \in Seq(Keys) /\ Len(rest) = Len(order) - n
      /\ \A j \in 1..(Len(order) - n) : rest[j] = order[n + j]
  BY SubSeqProperties DEF CacheTyped
<1>2. PICK i \in 1..Len(order) : order[i] = w
  BY DEF In
<1>3. i > n
  BY <1>2 DEF Oldest
<1>4. i - n \in 1..(Len(order) - n) /\ rest[i - n] = w
  BY <1>1, <1>2, <1>3
<1> QED
  BY <1>1, <1>4 DEF In

-----------------------------------------------------------------------------

LEMMA CachedFinite == CacheTyped => IsFiniteSet(cached) /\ Cardinality(cached) \in Nat
BY CacheAssumption, FS_Subset, FS_Union, FS_CardinalityType DEF CacheTyped, cached

(* Fewer keys of the dict keep its size within bounds. *)
LEMMA ShrinkingIsBounded ==
    ASSUME CacheTyped, SizeBounded, cached' \subseteq cached
    PROVE  SizeBounded'
<1>1. Cardinality(cached') <= Cardinality(cached) /\ Cardinality(cached') \in Nat
  BY CachedFinite, FS_Subset, FS_CardinalityType
<1> QED
  BY <1>1, CachedFinite, CacheAssumption DEF SizeBounded

LEMMA CacheInvKept == CacheInv /\ [CacheNext]_cacheVars => CacheInv'
<1> SUFFICES ASSUME CacheInv, [CacheNext]_cacheVars PROVE CacheInv'
  OBVIOUS
<1> USE DEF CacheInv
<1>1. ASSUME NEW item \in Keys, Hit(item) PROVE CacheInv'
  <2>1. PICK i \in 1..Len(order) :
            FirstUse(item, i) /\ order' = Append(Without(order, i), item)
    BY <1>1 DEF Hit
  <2>2. /\ Without(order, i) \in Seq(Keys)
        /\ \A j \in 1..Len(order) : j # i => In(order[j], Without(order, i))
    BY WithoutKeeps DEF CacheTyped
  <2>3. CacheTyped'
    BY <1>1, <2>1, <2>2, AppendKeeps DEF Hit, CacheTyped
  <2>4. EntriesAreQueued'
    <3> SUFFICES ASSUME NEW w \in cached PROVE In(w, order')
      BY <1>1 DEF Hit, EntriesAreQueued, cached
    <3>1. CASE w = item
      BY <2>1, <2>2, <3>1, AppendKeeps
    <3>2. CASE w # item
      <4>1. PICK j \in 1..Len(order) : order[j] = w
        BY DEF EntriesAreQueued, In
      <4>2. In(w, Without(order, i))
        BY <2>1, <2>2, <3>2, <4>1 DEF FirstUse
      <4> QED
        BY <2>1, <2>2, <4>2, AppendKeeps
    <3> QED
      BY <3>1, <3>2
  <2>5. SizeBounded'
    BY <1>1 DEF Hit, SizeBounded, cached
  <2> QED
    BY <2>3, <2>4, <2>5
<1>2. ASSUME NEW item \in Keys, GetExpired(item) PROVE CacheInv'
  <2>1. cached' \subseteq cached
    BY <1>2 DEF GetExpired, cached
  <2> QED
    BY <1>2, <2>1, ShrinkingIsBounded DEF GetExpired, CacheTyped, EntriesAreQueued
<1>3. ASSUME NEW item \in Keys, Put(item) PROVE CacheInv'
  <2>1. PICK n \in 0..Len(order) :
            /\ Evicts(n)
            /\ live' = (live \ Oldest(n)) \cup {item}
            /\ stale' = (stale \ Oldest(n)) \ {item}
            /\ order' = Append(SubSeq(order, n + 1, Len(order)), item)
    BY <1>3 DEF Put
  <2> DEFINE spared == cached \ Oldest(n)
  <2>2. SubSeq(order, n + 1, Len(order)) \in Seq(Keys)
    BY SubSeqProperties DEF CacheTyped
  <2>3. CacheTyped'
    BY <2>1, <2>2, AppendKeeps DEF CacheTyped
  <2>4. cached' = spared \cup {item}
    BY <2>1 DEF cached
  <2>5. EntriesAreQueued'
    <3> SUFFICES ASSUME NEW w \in cached' PROVE In(w, order')
      BY DEF EntriesAreQueued
    <3>1. CASE w = item
      BY <2>1, <2>2, <3>1, AppendKeeps
    <3>2. CASE w \in spared
      <4>1. In(w, SubSeq(order, n + 1, Len(order)))
        BY <3>2, SparedAreQueued DEF EntriesAreQueued
      <4> QED
        BY <2>1, <2>2, <4>1, AppendKeeps
    <3> QED
      BY <2>4, <3>1, <3>2
  <2>6. SizeBounded'
    <3>1. IsFiniteSet(spared)
      BY CachedFinite, FS_Subset
    <3>2. Cardinality(spared) < CacheSize
      <4>1. CASE n = Len(order)
        <5>1. spared = {}
          BY <4>1 DEF EntriesAreQueued, In, Oldest
        <5>2. Cardinality(spared) = 0
          BY <3>1, <5>1, FS_EmptySet
        <5> QED
          BY ONLY <5>2, CacheAssumption
      <4>2. CASE n # Len(order)
        BY ONLY <2>1, <4>2 DEF Evicts
      <4> QED
        BY <4>1, <4>2
    <3>3. Cardinality(spared) \in Nat
      BY <3>1, FS_CardinalityType
    <3>4. Cardinality(spared \cup {item})
              = IF item \in spared THEN Cardinality(spared) ELSE Cardinality(spared) + 1
      BY <3>1, FS_AddElement
    <3> QED
      BY <2>4, <3>2, <3>3, <3>4, CacheAssumption DEF SizeBounded
  <2> QED
    BY <2>3, <2>5, <2>6
<1>4. ASSUME NEW item \in Keys, Delete(item) PROVE CacheInv'
  <2>1. PICK i \in 1..Len(order) : FirstUse(item, i) /\ order' = Without(order, i)
    BY <1>4 DEF Delete
  <2>2. /\ order' \in Seq(Keys)
        /\ \A j \in 1..Len(order) : j # i => In(order[j], order')
    BY <2>1, WithoutKeeps DEF CacheTyped
  <2>3. cached' = cached \ {item}
    BY <1>4 DEF Delete, cached
  <2>4. EntriesAreQueued'
    <3> SUFFICES ASSUME NEW w \in cached, w # item PROVE In(w, order')
      BY <2>3 DEF EntriesAreQueued
    <3>1. PICK j \in 1..Len(order) : order[j] = w
      BY DEF EntriesAreQueued, In
    <3> QED
      BY <2>1, <2>2, <3>1 DEF FirstUse
  <2> QED
    BY <1>4, <2>2, <2>3, <2>4, ShrinkingIsBounded DEF Delete, CacheTyped
<1>5. CASE Clear
  <2>1. cached' = {}
    BY <1>5 DEF Clear, cached
  <2> QED
    BY <1>5, <2>1, ShrinkingIsBounded DEF Clear, CacheTyped, EntriesAreQueued
<1>6. ASSUME NEW item \in Keys, Expire(item) PROVE CacheInv'
  <2>1. cached' = cached
    BY <1>6 DEF Expire, cached
  <2> QED
    BY <1>6, <2>1 DEF Expire, CacheTyped, EntriesAreQueued, SizeBounded
<1>7. CASE UNCHANGED cacheVars
  BY <1>7 DEF cacheVars, CacheTyped, EntriesAreQueued, SizeBounded, cached
<1> QED
  BY <1>1, <1>2, <1>3, <1>4, <1>5, <1>6, <1>7 DEF CacheNext

LEMMA InitiallyCacheInv == CacheInit => CacheInv
<1> SUFFICES ASSUME CacheInit PROVE CacheInv
  OBVIOUS
<1>1. cached = {}
  BY DEF CacheInit, cached
<1> QED
  BY <1>1, FS_EmptySet, CacheAssumption
     DEF CacheInit, CacheInv, CacheTyped, EntriesAreQueued, SizeBounded

-----------------------------------------------------------------------------

(* The inductive invariant of the cache. *)
THEOREM CacheInvariant == CacheSpec => []CacheInv
BY InitiallyCacheInv, CacheInvKept, PTL DEF CacheSpec

(* However the calls come, the dict holds at most max_size entries.        *)
THEOREM CacheStaysBounded == CacheSpec => []SizeBounded
<1>1. CacheInv => SizeBounded
  BY DEF CacheInv
<1> QED
  BY CacheInvariant, <1>1, PTL

-----------------------------------------------------------------------------
(* The rate the token bucket promises, for every rate, capacity and set of *)
(* clients: the tokens spent in a window are bounded by those the bucket   *)
(* held at its start and those refilled since.  The invariant keeps the    *)
(* account as of the last refill: what is left in the bucket counts as     *)
(* spent.                                                                  *)

BucketTyped == /\ monotonic \in Nat /\ tokens \in 0..Capacity /\ lastUpdate \in 0..monotonic
         /\ spent \in Nat /\ noted \in BOOLEAN
         /\ noteTime \in 0..monotonic /\ noteSpent \in 0..spent

Account == noted =>
    IF lastUpdate >= noteTime
    THEN spent + tokens <= noteSpent + Capacity + (lastUpdate - noteTime) * Rate
    ELSE spent = noteSpent

BucketInv == BucketTyped /\ Account

(* The refill of two spans of time is that of their sum. *)
LEMMA SpansAdd ==
    ASSUME NEW a \in Nat, NEW b \in Nat
    PROVE  a * Rate \in Nat /\ (a + b) * Rate = a * Rate + b * Rate
BY BucketAssumption, Z3

(* A refill keeps the account: it adds at most what the time since allows. *)
LEMMA RefillKeepsAccount ==
    ASSUME BucketInv
    PROVE  /\ Refilled \in 0..Capacity
           /\ noted => spent + Refilled <= noteSpent + Capacity + (monotonic - noteTime) * Rate
<1> USE BucketAssumption DEF BucketInv, BucketTyped
<1>1. (monotonic - lastUpdate) * Rate \in Nat
  <2>1. monotonic - lastUpdate \in Nat
    OBVIOUS
  <2> QED
    BY <2>1, SpansAdd
<1>2. Refilled \in 0..Capacity /\ Refilled <= tokens + (monotonic - lastUpdate) * Rate
  BY <1>1 DEF Refilled, Least
<1>3. ASSUME noted, lastUpdate >= noteTime
      PROVE  spent + Refilled <= noteSpent + Capacity + (monotonic - noteTime) * Rate
  <2>1. /\ (lastUpdate - noteTime) * Rate \in Nat
        /\ ((lastUpdate - noteTime) + (monotonic - lastUpdate)) * Rate
              = (lastUpdate - noteTime) * Rate + (monotonic - lastUpdate) * Rate
    <3>1. lastUpdate - noteTime \in Nat /\ monotonic - lastUpdate \in Nat
      BY <1>3
    <3> QED
      BY <3>1, SpansAdd
  <2>2. (lastUpdate - noteTime) + (monotonic - lastUpdate) = monotonic - noteTime
    OBVIOUS
  <2>3. spent + tokens <= noteSpent + Capacity + (lastUpdate - noteTime) * Rate
    BY <1>3 DEF Account
  <2> QED
    BY <1>1, <1>2, <2>1, <2>2, <2>3
<1>4. ASSUME noted, ~(lastUpdate >= noteTime)
      PROVE  spent + Refilled <= noteSpent + Capacity + (monotonic - noteTime) * Rate
  <2>1. (monotonic - noteTime) * Rate \in Nat
    <3>1. monotonic - noteTime \in Nat
      OBVIOUS
    <3> QED
      BY <3>1, SpansAdd
  <2> QED
    BY <1>2, <1>4, <2>1 DEF Account
<1> QED
  BY <1>2, <1>3, <1>4

(* acquire(), answered either way. *)
LEMMA AcquireKeepsAccount ==
    ASSUME BucketInv, NEW n \in Nat, Granted(n) \/ Denied(n), UNCHANGED <<monotonic, observer>>
    PROVE  BucketInv'
<1>1. /\ Refilled \in 0..Capacity
      /\ noted => spent + Refilled <= noteSpent + Capacity + (monotonic - noteTime) * Rate
  BY RefillKeepsAccount
<1>2. spent' \in Nat /\ tokens' \in 0..Capacity /\ spent' + tokens' = spent + Refilled
      /\ spent' >= spent
  BY <1>1, BucketAssumption DEF BucketInv, BucketTyped, Granted, Denied
<1>3. lastUpdate' = monotonic /\ UNCHANGED <<monotonic, noted, noteTime, noteSpent>>
  BY DEF Granted, Denied, observer
<1>4. BucketTyped'
  BY <1>2, <1>3 DEF BucketInv, BucketTyped
<1>5. Account'
  <2> DEFINE refill == (monotonic - noteTime) * Rate
  <2>1. refill \in Nat
    <3>1. monotonic - noteTime \in Nat
      BY DEF BucketInv, BucketTyped
    <3> QED
      BY <3>1, SpansAdd
  <2>2. (lastUpdate - noteTime)' * Rate = refill
    BY <1>3
  <2> HIDE DEF refill
  <2>3. noted => spent' + tokens' <= noteSpent + Capacity + refill
    <3>1. noted => spent + Refilled <= noteSpent + Capacity + refill
      BY <1>1 DEF refill
    <3> QED
      BY <1>2, <3>1
  <2>4. lastUpdate' >= noteTime'
    BY <1>3 DEF BucketInv, BucketTyped
  <2> QED
    BY <1>3, <2>2, <2>3, <2>4 DEF Account
<1> QED
  BY <1>4, <1>5 DEF BucketInv

LEMMA BucketInvKept == BucketTypeOK /\ BucketInv /\ [BucketNext]_bucketVars => BucketInv'
<1> SUFFICES ASSUME BucketTypeOK, BucketInv, [BucketNext]_bucketVars PROVE BucketInv'
  OBVIOUS
<1>1. ASSUME NEW n \in 1..MaxAsk, AcquireTokens(n) PROVE BucketInv'
  BY <1>1, AcquireKeepsAccount DEF AcquireTokens
<1>2. ASSUME NEW c \in Clients, AskGranted(c) \/ AskDenied(c) PROVE BucketInv'
  <2>1. asks[c] \in Nat
    BY BucketAssumption DEF BucketTypeOK
  <2> QED
    BY <1>2, <2>1, AcquireKeepsAccount DEF AskGranted, AskDenied, Returns
<1>3. ASSUME UNCHANGED <<monotonic, bucket, observer>> PROVE BucketInv'
  BY <1>3 DEF bucket, observer, BucketInv, BucketTyped, Account
<1>4. ASSUME NEW c \in Clients, TimesOut(c) \/ \E n \in 1..MaxAsk : AskTokens(c, n) PROVE BucketInv'
  BY <1>3, <1>4 DEF TimesOut, AskTokens, Returns
<1>5. CASE BucketTick
  BY <1>5 DEF BucketTick, bucket, observer, BucketInv, BucketTyped, Account
<1>6. CASE Note
  <2>1. monotonic \in Nat /\ lastUpdate \in 0..monotonic /\ tokens \in 0..Capacity /\ spent \in Nat
    BY DEF BucketInv, BucketTyped
  <2>2. /\ UNCHANGED <<monotonic, tokens, lastUpdate, spent>>
        /\ noted' = TRUE /\ noteTime' = monotonic /\ noteSpent' = spent
    BY <1>6 DEF Note, bucket
  <2>3. BucketTyped'
    BY <2>1, <2>2 DEF BucketInv, BucketTyped
  <2>4. Account'
    <3>1. lastUpdate' >= noteTime' => (lastUpdate' - noteTime') * Rate = 0
      BY <2>1, <2>2, BucketAssumption
    <3> QED
      BY <2>1, <2>2, <3>1, BucketAssumption DEF Account
  <2> QED
    BY <2>3, <2>4 DEF BucketInv
<1>7. CASE UNCHANGED bucketVars
  BY <1>3, <1>7 DEF bucketVars
<1> QED
  BY <1>1, <1>2, <1>4, <1>5, <1>6, <1>7 DEF BucketNext, Polls

(* The types of the clients, which the account relies on. *)
LEMMA TypeKept == BucketTypeOK /\ BucketInv /\ BucketInv' /\ [BucketNext]_bucketVars => BucketTypeOK'
<1> SUFFICES ASSUME BucketTypeOK, BucketInv, BucketInv', [BucketNext]_bucketVars PROVE BucketTypeOK'
  OBVIOUS
<1> USE BucketAssumption DEF BucketTypeOK, BucketInv, BucketTyped
<1>1. ASSUME NEW n \in 1..MaxAsk, AcquireTokens(n) PROVE BucketTypeOK'
  BY <1>1 DEF AcquireTokens
<1>2. ASSUME NEW c \in Clients, AskGranted(c) PROVE BucketTypeOK'
  BY <1>2 DEF AskGranted, Returns
<1>3. ASSUME NEW c \in Clients, AskDenied(c) PROVE BucketTypeOK'
  BY <1>3 DEF AskDenied
<1>4. ASSUME NEW c \in Clients, TimesOut(c) PROVE BucketTypeOK'
  BY <1>4 DEF TimesOut, Returns
<1>5. ASSUME NEW c \in Clients, NEW n \in 1..MaxAsk, AskTokens(c, n) PROVE BucketTypeOK'
  BY <1>5 DEF AskTokens
<1>6. CASE BucketTick
  BY <1>6 DEF BucketTick
<1>7. CASE Note
  BY <1>7 DEF Note
<1>8. CASE UNCHANGED bucketVars
  BY <1>8 DEF bucketVars
<1> QED
  BY <1>1, <1>2, <1>3, <1>4, <1>5, <1>6, <1>7, <1>8 DEF BucketNext, Polls

-----------------------------------------------------------------------------

(* The inductive invariant: the types and the account. *)
THEOREM BucketInvariant == BucketSpec => [](BucketTypeOK /\ BucketInv)
<1>1. BucketInit => BucketTypeOK /\ BucketInv
  <2> SUFFICES ASSUME BucketInit PROVE BucketTypeOK /\ BucketInv
    OBVIOUS
  <2>1. noted = FALSE /\ monotonic = 0 /\ noteTime = 0 /\ lastUpdate = 0 /\ spent = 0 /\ noteSpent = 0
    BY DEF BucketInit
  <2>2. noted \in BOOLEAN /\ ~noted
    BY <2>1
  <2>3. tokens \in 0..Capacity
    BY BucketAssumption DEF BucketInit
  <2>4. /\ asks \in [Clients -> 0..MaxAsk] /\ since \in [Clients -> 0..monotonic]
        /\ outcome \in [Clients -> {"none", "waiting", "granted", "timeout"}]
    BY <2>1, BucketAssumption DEF BucketInit
  <2>5. BucketTypeOK
    BY <2>1, <2>2, <2>3, <2>4 DEF BucketTypeOK
  <2>6. BucketTyped
    BY <2>1, <2>2, <2>3 DEF BucketTyped
  <2>7. Account
    BY <2>2 DEF Account
  <2> QED
    BY <2>5, <2>6, <2>7 DEF BucketInv
<1>2. BucketTypeOK /\ BucketInv /\ [BucketNext]_bucketVars => (BucketTypeOK /\ BucketInv)'
  BY BucketInvKept, TypeKept
<1> QED
  BY <1>1, <1>2, PTL DEF BucketSpec

(* No window, however long and wherever it starts, sees more tokens spent  *)
(* than the capacity and the refill of its length.                         *)
THEOREM EveryWindowIsBounded == BucketSpec => []WindowBounded
<1>1. BucketInv => WindowBounded
  <2> SUFFICES ASSUME BucketInv, noted
               PROVE  spent - noteSpent <= Capacity + (monotonic - noteTime) * Rate
    BY DEF WindowBounded
  <2>1. /\ Refilled \in 0..Capacity
        /\ spent + Refilled <= noteSpent + Capacity + (monotonic - noteTime) * Rate
    BY RefillKeepsAccount
  <2>2. monotonic - noteTime \in Nat /\ spent \in Nat /\ noteSpent \in Nat
    BY DEF BucketInv, BucketTyped
  <2>3. (monotonic - noteTime) * Rate \in Nat
    BY <2>2, SpansAdd
  <2> QED
    BY <2>1, <2>2, <2>3, BucketAssumption
<1> QED
  BY BucketInvariant, <1>1, PTL

-----------------------------------------------------------------------------
(* As long as it is used as it should be, the cache evicts what was used   *)
(* longest ago.  The deque then holds the keys of the dict, each once and  *)
(* in the order of their last use, and every key that was evicted was used *)
(* before all of them.                                                     *)

UsedProperly ==
    /\ stale = {}
    /\ \A i \in 1..Len(order) : order[i] \in live
    /\ \A i, j \in 1..Len(order) : i < j => order[i] # order[j] /\ Before(recent, order[i], order[j])
    /\ \A item \in live \cup evicted : In(item, recent)
    /\ evicted \cap live = {}
    /\ \A v \in evicted, w \in live : Before(recent, v, w)

LruInv == /\ CacheTypeOK /\ EntriesAreQueued
          /\ ~misused => UsedProperly

(* What follows another after an entry is taken out did so before. *)
LEMMA WithoutOrder ==
    ASSUME NEW s \in Seq(Keys), NEW i \in 1..Len(s),
           NEW x \in 1..Len(Without(s, i)), NEW y \in 1..Len(Without(s, i)), x < y
    PROVE  \E a, b \in 1..Len(s) : /\ a < b /\ a # i /\ b # i
                                   /\ Without(s, i)[x] = s[a] /\ Without(s, i)[y] = s[b]
<1>1. /\ Len(Without(s, i)) = Len(s) - 1
      /\ \A j \in 1..(i - 1) : Without(s, i)[j] = s[j]
      /\ \A j \in i..(Len(s) - 1) : Without(s, i)[j] = s[j + 1]
  BY WithoutElements, Zenon
<1>0. Len(s) \in Nat
  OBVIOUS
<1> DEFINE a == IF x < i THEN x ELSE x + 1
           b == IF y < i THEN y ELSE y + 1
<1>2. a \in 1..Len(s) /\ b \in 1..Len(s) /\ a < b /\ a # i /\ b # i
  BY <1>0, <1>1
<1>3. ASSUME NEW z \in 1..Len(Without(s, i))
      PROVE  Without(s, i)[z] = s[IF z < i THEN z ELSE z + 1]
  <2>1. CASE z < i
    <3>1. z \in 1..(i - 1)
      BY <2>1
    <3> QED BY <1>1, <2>1, <3>1
  <2>2. CASE ~(z < i)
    <3>1. z \in i..(Len(s) - 1)
      BY <1>0, <1>1, <2>2
    <3> QED BY <1>1, <2>2, <3>1
  <2> QED BY <2>1, <2>2
<1>4. Without(s, i)[x] = s[a] /\ Without(s, i)[y] = s[b]
  BY <1>3
<1> HIDE DEF a, b
<1> QED
  BY <1>2, <1>4

(* The same of one entry. *)
LEMMA WithoutMember ==
    ASSUME NEW s \in Seq(Keys), NEW i \in 1..Len(s), NEW x \in 1..Len(Without(s, i))
    PROVE  \E a \in 1..Len(s) : a # i /\ Without(s, i)[x] = s[a]
<1>1. /\ Len(s) \in Nat /\ Len(Without(s, i)) = Len(s) - 1
      /\ \A j \in 1..(i - 1) : Without(s, i)[j] = s[j]
      /\ \A j \in i..(Len(s) - 1) : Without(s, i)[j] = s[j + 1]
  BY WithoutElements
<1> DEFINE a == IF x < i THEN x ELSE x + 1
<1>2. a \in 1..Len(s) /\ a # i /\ Without(s, i)[x] = s[a]
  BY <1>1
<1> QED
  BY <1>2

(* A key appended comes after all that were there; their order stays.      *)
LEMMA AppendOrder ==
    ASSUME NEW s \in Seq(Keys), NEW item \in Keys
    PROVE  /\ Append(s, item) \in Seq(Keys) /\ Len(Append(s, item)) = Len(s) + 1
           /\ \A i \in 1..Len(s) : Append(s, item)[i] = s[i]
           /\ Append(s, item)[Len(s) + 1] = item
BY AppendProperties

(* Using a key: it is now the latest, and nothing else changes places.     *)
LEMMA UsedKeeps ==
    ASSUME recent \in Seq(Keys), NEW item \in Keys, UsedNow(item)
    PROVE  /\ recent' \in Seq(Keys)
           /\ In(item, recent')
           /\ \A k : In(k, recent) => In(k, recent')
           /\ \A a, b : a # item /\ b # item /\ Before(recent, a, b) => Before(recent', a, b)
           /\ \A a : a # item /\ In(a, recent) => Before(recent', a, item)
<1>1. ASSUME NEW rest \in Seq(Keys), recent' = Append(rest, item),
             \A k : k # item /\ In(k, recent) => In(k, rest),
             \A a, b : a # item /\ b # item /\ Before(recent, a, b) =>
                 \E i, j \in 1..Len(rest) : i < j /\ rest[i] = a /\ rest[j] = b
      PROVE  /\ recent' \in Seq(Keys)
             /\ In(item, recent')
             /\ \A k : In(k, recent) => In(k, recent')
             /\ \A a, b : a # item /\ b # item /\ Before(recent, a, b) => Before(recent', a, b)
             /\ \A a : a # item /\ In(a, recent) => Before(recent', a, item)
  <2>1. /\ recent' \in Seq(Keys) /\ Len(recent') = Len(rest) + 1 /\ Len(rest) \in Nat
        /\ \A i \in 1..Len(rest) : recent'[i] = rest[i]
        /\ recent'[Len(rest) + 1] = item
    BY <1>1, AppendOrder
  <2>2. In(item, recent')
    BY <2>1 DEF In
  <2>3. ASSUME NEW k, In(k, recent) PROVE In(k, recent')
    <3>1. CASE k = item
      BY <2>2, <3>1
    <3>2. CASE k # item
      <4>1. PICK i \in 1..Len(rest) : rest[i] = k
        BY <1>1, <2>3, <3>2, Zenon DEF In
      <4>2. i \in 1..Len(recent') /\ recent'[i] = k
        BY <2>1, <4>1
      <4> QED BY <4>2 DEF In
    <3> QED BY <3>1, <3>2
  <2>4. ASSUME NEW a, NEW b, a # item, b # item, Before(recent, a, b) PROVE Before(recent', a, b)
    <3>1. PICK i \in 1..Len(rest), j \in 1..Len(rest) : i < j /\ rest[i] = a /\ rest[j] = b
      BY <1>1, <2>4
    <3> QED
      BY <2>1, <3>1 DEF Before
  <2>5. ASSUME NEW a, a # item, In(a, recent) PROVE Before(recent', a, item)
    <3>1. PICK i \in 1..Len(rest) : rest[i] = a
      BY <1>1, <2>5 DEF In
    <3>2. i \in 1..Len(recent') /\ Len(rest) + 1 \in 1..Len(recent') /\ i < Len(rest) + 1
      BY <2>1
    <3> QED
      BY <2>1, <3>1, <3>2 DEF Before
  <2> QED
    BY <2>1, <2>2, <2>3, <2>4, <2>5
<1>2. CASE ~In(item, recent) /\ recent' = Append(recent, item)
  BY <1>1, <1>2 DEF Before
<1>3. ASSUME NEW i \in 1..Len(recent), recent[i] = item,
             recent' = Append(Without(recent, i), item)
      PROVE  /\ Without(recent, i) \in Seq(Keys)
             /\ \A k : k # item /\ In(k, recent) => In(k, Without(recent, i))
             /\ \A a, b : a # item /\ b # item /\ Before(recent, a, b) =>
                    \E x, y \in 1..Len(Without(recent, i)) :
                        x < y /\ Without(recent, i)[x] = a /\ Without(recent, i)[y] = b
  <2>1. /\ Without(recent, i) \in Seq(Keys)
        /\ \A j \in 1..Len(recent) : j # i => In(recent[j], Without(recent, i))
    BY WithoutKeeps
  <2>2. \A k : k # item /\ In(k, recent) => In(k, Without(recent, i))
    BY <1>3, <2>1 DEF In
  <2>3. ASSUME NEW a, NEW b, a # item, b # item, Before(recent, a, b)
        PROVE  \E x, y \in 1..Len(Without(recent, i)) :
                   x < y /\ Without(recent, i)[x] = a /\ Without(recent, i)[y] = b
    <3>1. PICK m \in 1..Len(recent), n \in 1..Len(recent) :
              m < n /\ recent[m] = a /\ recent[n] = b
      BY <2>3 DEF Before
    <3>2. /\ Len(recent) \in Nat /\ Len(Without(recent, i)) = Len(recent) - 1
          /\ \A j \in 1..(i - 1) : Without(recent, i)[j] = recent[j]
          /\ \A j \in i..(Len(recent) - 1) : Without(recent, i)[j] = recent[j + 1]
      <4>1. PICK s : s = recent /\ s \in Seq(Keys)
        OBVIOUS
      <4>2. i \in 1..Len(s) /\ Len(s) \in Nat
        BY <4>1
      <4>3. /\ Len(Without(s, i)) = Len(s) - 1
            /\ \A j \in 1..(i - 1) : Without(s, i)[j] = s[j]
            /\ \A j \in i..(Len(s) - 1) : Without(s, i)[j] = s[j + 1]
        BY <4>1, <4>2, WithoutElements
      <4> QED BY <4>1, <4>2, <4>3
    <3>3. m # i /\ n # i
      BY <1>3, <2>3, <3>1
    <3> DEFINE x == IF m < i THEN m ELSE m - 1
               y == IF n < i THEN n ELSE n - 1
    <3>4. x \in 1..Len(Without(recent, i)) /\ y \in 1..Len(Without(recent, i)) /\ x < y
      BY <3>1, <3>2, <3>3
    <3>5. Without(recent, i)[x] = recent[m] /\ Without(recent, i)[y] = recent[n]
      BY <3>1, <3>2, <3>3
    <3> QED
      BY <3>1, <3>4, <3>5
  <2> QED
    BY <2>1, <2>2, <2>3
<1>4. ASSUME NEW i \in 1..Len(recent), recent[i] = item,
             recent' = Append(Without(recent, i), item)
      PROVE  /\ recent' \in Seq(Keys)
             /\ In(item, recent')
             /\ \A k : In(k, recent) => In(k, recent')
             /\ \A a, b : a # item /\ b # item /\ Before(recent, a, b) => Before(recent', a, b)
             /\ \A a : a # item /\ In(a, recent) => Before(recent', a, item)
  BY <1>1, <1>3, <1>4
<1> QED
  BY <1>2, <1>4 DEF UsedNow

(* The cache's types; the deque's is part of CacheInv. *)
LEMMA CacheTypeKept == CacheTypeOK /\ CacheInv' /\ [CacheNext]_cacheVars => CacheTypeOK'
<1> SUFFICES ASSUME CacheTypeOK, CacheInv', [CacheNext]_cacheVars PROVE CacheTypeOK'
  OBVIOUS
<1>1. order' \in Seq(Keys) /\ live' \subseteq Keys /\ stale' \subseteq Keys
  BY DEF CacheInv, CacheTyped
<1>2. /\ live \subseteq Keys /\ stale \subseteq Keys /\ live \cap stale = {}
      /\ recent \in Seq(Keys) /\ evicted \subseteq Keys /\ misused \in BOOLEAN
  BY DEF CacheTypeOK
<1>3. ASSUME NEW item \in Keys, UsedNow(item) PROVE recent' \in Seq(Keys)
  BY <1>2, <1>3, UsedKeeps
<1>4. recent' \in Seq(Keys)
  BY <1>2, <1>3 DEF CacheNext, Hit, GetExpired, Put, Delete, Expire, Clear, cacheVars
<1>5. evicted' \subseteq Keys
  BY <1>2 DEF CacheNext, Hit, GetExpired, Put, Delete, Expire, Clear, cacheVars, cached
<1>6. live' \cap stale' = {}
  BY <1>2 DEF CacheNext, Hit, GetExpired, Put, Delete, Expire, Clear, cacheVars
<1>7. misused' \in BOOLEAN
  BY <1>2 DEF CacheNext, Hit, GetExpired, Put, Delete, Expire, Clear, cacheVars
<1> QED
  BY <1>1, <1>4, <1>5, <1>6, <1>7 DEF CacheTypeOK

LEMMA LruInvKept == CacheInv /\ CacheInv' /\ LruInv /\ [CacheNext]_cacheVars => LruInv'
<1> SUFFICES ASSUME CacheInv, CacheInv', LruInv, [CacheNext]_cacheVars PROVE LruInv'
  OBVIOUS
<1>1. CacheTypeOK' /\ EntriesAreQueued'
  BY CacheTypeKept DEF LruInv, CacheInv
<1> SUFFICES ASSUME ~misused' PROVE UsedProperly'
  BY <1>1 DEF LruInv
<1>2. ~misused /\ misused \in BOOLEAN
  BY DEF CacheNext, Hit, GetExpired, Put, Delete, Expire, Clear, cacheVars, LruInv, CacheTypeOK
<1>3. /\ UsedProperly /\ stale = {} /\ cached = live
      /\ order \in Seq(Keys) /\ recent \in Seq(Keys)
      /\ live \subseteq Keys /\ evicted \subseteq Keys /\ Len(order) \in Nat
      /\ \A i \in 1..Len(order) : order[i] \in live
      /\ \A i, j \in 1..Len(order) : i < j => order[i] # order[j] /\ Before(recent, order[i], order[j])
      /\ \A i, j \in 1..Len(order) : i # j => order[i] # order[j]
      /\ \A item \in live \cup evicted : In(item, recent)
      /\ evicted \cap live = {}
      /\ \A v \in evicted, w \in live : Before(recent, v, w)
  <2>1. UsedProperly /\ order \in Seq(Keys) /\ Len(order) \in Nat
    BY <1>2 DEF LruInv, CacheTypeOK
  <2>2. \A i, j \in 1..Len(order) : i # j => order[i] # order[j]
    BY <2>1 DEF UsedProperly
  <2> QED
    BY <2>1, <2>2 DEF LruInv, CacheTypeOK, UsedProperly, cached
<1>4. ASSUME NEW item \in Keys, Hit(item) PROVE UsedProperly'
  <2>1. /\ item \in live /\ UsedNow(item) /\ UNCHANGED <<live, stale, evicted>>
    BY <1>4 DEF Hit
  <2>2. PICK i \in 1..Len(order) : order[i] = item /\ order' = Append(Without(order, i), item)
    BY <1>4 DEF Hit, FirstUse
  <2> DEFINE rest == Without(order, i)
  <2>3. rest \in Seq(Keys) /\ Len(rest) \in Nat
    BY <1>3, WithoutElements
  <2>4. /\ Len(order') = Len(rest) + 1 /\ order'[Len(rest) + 1] = item
        /\ \A x \in 1..Len(rest) : order'[x] = rest[x]
    BY <2>2, <2>3, AppendOrder
  <2>5. \A x \in 1..Len(rest) : rest[x] \in live \ {item}
    BY <1>3, <2>2, WithoutMember
  <2>6. ASSUME NEW x \in 1..Len(rest), NEW y \in 1..Len(rest), x < y
        PROVE  rest[x] # rest[y] /\ Before(recent, rest[x], rest[y])
    <3>1. PICK a \in 1..Len(order), b \in 1..Len(order) :
              a < b /\ rest[x] = order[a] /\ rest[y] = order[b]
      BY <1>3, <2>6, WithoutOrder
    <3> QED
      BY <1>3, <3>1
  <2> HIDE DEF rest
  <2>7. /\ In(item, recent')
        /\ \A k : In(k, recent) => In(k, recent')
        /\ \A a, b : a # item /\ b # item /\ Before(recent, a, b) => Before(recent', a, b)
        /\ \A a : a # item /\ In(a, recent) => Before(recent', a, item)
    BY <1>3, <2>1, UsedKeeps
  <2>8. \A x \in 1..Len(order') : order'[x] \in live'
    BY <2>1, <2>3, <2>4, <2>5
  <2>9. ASSUME NEW x \in 1..Len(order'), NEW y \in 1..Len(order'), x < y
        PROVE  order'[x] # order'[y] /\ Before(recent', order'[x], order'[y])
    <3>1. x \in 1..Len(rest) /\ order'[x] = rest[x] /\ rest[x] # item /\ rest[x] \in live
      BY <2>3, <2>4, <2>5, <2>9
    <3>2. CASE y = Len(rest) + 1
      BY <1>3, <2>4, <2>7, <3>1, <3>2
    <3>3. CASE y # Len(rest) + 1
      <4>1. y \in 1..Len(rest) /\ order'[y] = rest[y] /\ rest[y] # item
        BY <2>3, <2>4, <2>5, <3>3
      <4> QED
        BY <2>6, <2>7, <2>9, <3>1, <4>1
    <3> QED
      BY <3>2, <3>3
  <2>10. \A v \in evicted', w \in live' : Before(recent', v, w)
    BY <1>3, <2>1, <2>7
  <2> QED
    BY <1>3, <2>1, <2>7, <2>8, <2>9, <2>10 DEF UsedProperly
<1>5. ASSUME NEW item \in Keys, Put(item) PROVE UsedProperly'
  <2>1. item \notin live /\ UsedNow(item)
    BY <1>3, <1>5 DEF Put
  <2>2. PICK n \in 0..Len(order) :
            /\ live' = (live \ Oldest(n)) \cup {item}
            /\ stale' = (stale \ Oldest(n)) \ {item}
            /\ order' = Append(SubSeq(order, n + 1, Len(order)), item)
            /\ evicted' = (evicted \cup (cached \cap Oldest(n))) \ {item}
    BY <1>5 DEF Put
  <2> DEFINE rest == SubSeq(order, n + 1, Len(order))
  <2>3. /\ rest \in Seq(Keys) /\ Len(rest) = Len(order) - n
        /\ \A x \in 1..Len(rest) : rest[x] = order[n + x] /\ n + x \in 1..Len(order)
    <3>1. /\ rest \in Seq(Keys) /\ Len(rest) = Len(order) - n
          /\ \A x \in 1..(Len(order) - n) : rest[x] = order[n + x]
      BY <1>3, SubSeqProperties
    <3> QED
      BY <1>3, <3>1
  <2> HIDE DEF rest
  <2>4. /\ Len(order') = Len(rest) + 1 /\ order'[Len(rest) + 1] = item
        /\ \A x \in 1..Len(rest) : order'[x] = rest[x]
    BY <2>2, <2>3, AppendOrder DEF rest
  <2>5. \A x \in 1..Len(rest) : rest[x] \in live /\ rest[x] \notin Oldest(n) /\ rest[x] # item
    <3> SUFFICES ASSUME NEW x \in 1..Len(rest)
                 PROVE  rest[x] \in live /\ rest[x] \notin Oldest(n) /\ rest[x] # item
      OBVIOUS
    <3>1. \A m \in 1..n : m \in 1..Len(order) /\ m # n + x
      BY <1>3, <2>3
    <3> QED
      BY <1>3, <2>1, <2>3, <3>1 DEF Oldest
  <2>6. /\ In(item, recent')
        /\ \A k : In(k, recent) => In(k, recent')
        /\ \A a, b : a # item /\ b # item /\ Before(recent, a, b) => Before(recent', a, b)
        /\ \A a : a # item /\ In(a, recent) => Before(recent', a, item)
    BY <1>3, <2>1, UsedKeeps
  <2>7. \A x \in 1..Len(order') : order'[x] \in live'
    <3>1. ASSUME NEW x \in 1..Len(order') PROVE order'[x] = item \/ x \in 1..Len(rest)
      BY <1>3, <2>3, <2>4
    <3> QED
      BY <2>2, <2>4, <2>5, <3>1
  <2>8. ASSUME NEW x \in 1..Len(order'), NEW y \in 1..Len(order'), x < y
        PROVE  order'[x] # order'[y] /\ Before(recent', order'[x], order'[y])
    <3>0. Len(rest) \in Nat
      BY <2>3
    <3>1. x \in 1..Len(rest) /\ order'[x] = rest[x] /\ rest[x] # item /\ rest[x] \in live
      BY <2>4, <2>5, <2>8, <3>0
    <3>2. CASE y = Len(rest) + 1
      BY <1>3, <2>4, <2>6, <3>1, <3>2
    <3>3. CASE y # Len(rest) + 1
      <4>1. y \in 1..Len(rest) /\ order'[y] = rest[y] /\ rest[y] # item
        BY <2>4, <2>5, <3>0, <3>3
      <4>2. n + x < n + y
        BY <2>8
      <4>3. rest[x] # rest[y] /\ Before(recent, rest[x], rest[y])
        BY <1>3, <2>3, <3>1, <4>1, <4>2
      <4> QED
        BY <2>6, <3>1, <4>1, <4>3
    <3> QED
      BY <3>2, <3>3
  <2>9. \A v \in evicted' : v # item /\ In(v, recent)
    BY <1>3, <2>2
  <2>10. ASSUME NEW v \in evicted', NEW w \in live' PROVE Before(recent', v, w)
    <3>1. CASE w = item
      BY <2>6, <2>9, <3>1
    <3>2. CASE w # item
      <4>1. w \in live /\ w \notin Oldest(n)
        BY <2>2, <3>2
      <4>2. CASE v \in evicted
        BY <1>3, <2>6, <2>9, <3>2, <4>1, <4>2
      <4>3. CASE v \in live \cap Oldest(n)
        <5>1. PICK i \in 1..n : order[i] = v
          BY <4>3 DEF Oldest
        <5>2. PICK j \in 1..Len(order) : order[j] = w
          BY <1>3, <4>1 DEF LruInv, EntriesAreQueued, In
        <5>3. i \in 1..Len(order) /\ i < j
          BY <1>3, <4>1, <5>1, <5>2 DEF Oldest
        <5>4. Before(recent, v, w)
          BY <1>3, <5>1, <5>2, <5>3
        <5> QED
          BY <2>6, <2>9, <3>2, <5>4
      <4> QED
        BY <1>3, <2>2, <4>2, <4>3
    <3> QED
      BY <3>1, <3>2
  <2>11. \A k \in live' \cup evicted' : In(k, recent')
    BY <1>3, <2>2, <2>6
  <2>12. stale' = {} /\ evicted' \cap live' = {}
    BY <1>3, <2>2
  <2> QED
    BY <2>7, <2>8, <2>10, <2>11, <2>12 DEF UsedProperly
<1>6. ASSUME NEW item \in Keys, Delete(item) PROVE UsedProperly'
  <2>1. /\ live' = live \ {item} /\ stale' = stale \ {item} /\ UNCHANGED <<recent, evicted>>
    BY <1>6 DEF Delete
  <2>2. PICK i \in 1..Len(order) : order[i] = item /\ order' = Without(order, i)
    BY <1>6 DEF Delete, FirstUse
  <2>3. \A x \in 1..Len(order') : order'[x] \in live'
    BY <1>3, <2>1, <2>2, WithoutMember
  <2>4. ASSUME NEW x \in 1..Len(order'), NEW y \in 1..Len(order'), x < y
        PROVE  order'[x] # order'[y] /\ Before(recent', order'[x], order'[y])
    <3>1. PICK a \in 1..Len(order), b \in 1..Len(order) :
              a < b /\ order'[x] = order[a] /\ order'[y] = order[b]
      BY <1>3, <2>2, <2>4, WithoutOrder
    <3> QED
      BY <1>3, <2>1, <3>1 DEF Before
  <2> QED
    BY <1>3, <2>1, <2>3, <2>4 DEF UsedProperly, Before
<1>7. ASSUME NEW item \in Keys, GetExpired(item) \/ Expire(item) PROVE UsedProperly'
  BY <1>3, <1>7 DEF GetExpired, Expire
<1>8. CASE Clear
  BY <1>3, <1>8 DEF Clear, UsedProperly
<1>9. CASE UNCHANGED cacheVars
  BY <1>3, <1>9 DEF cacheVars, UsedProperly, Before
<1> QED
  BY <1>4, <1>5, <1>6, <1>7, <1>8, <1>9 DEF CacheNext

(* Used as it should be, the cache evicts in the order of the last use,    *)
(* for every set of keys, max_size and sequence of calls.                  *)
THEOREM EvictionIsLeastRecent == CacheSpec => [](CacheTypeOK /\ EvictsLeastRecentOnMiss)
<1>1. CacheInit => LruInv
  <2> SUFFICES ASSUME CacheInit PROVE LruInv
    OBVIOUS
  <2>1. /\ live = {} /\ stale = {} /\ order = << >> /\ recent = << >> /\ evicted = {}
        /\ misused = FALSE
    BY DEF CacheInit
  <2>2. Len(order) = 0 /\ order \in Seq(Keys) /\ recent \in Seq(Keys)
    BY <2>1
  <2>3. CacheTypeOK
    BY <2>1, <2>2 DEF CacheTypeOK
  <2>4. EntriesAreQueued
    BY <2>1 DEF EntriesAreQueued, cached
  <2>5. UsedProperly
    BY <2>1, <2>2 DEF UsedProperly
  <2> QED
    BY <2>3, <2>4, <2>5 DEF LruInv
<1>2. LruInv => CacheTypeOK /\ EvictsLeastRecentOnMiss
  BY DEF LruInv, CacheTypeOK, UsedProperly, EvictsLeastRecentOnMiss, cached
<1> QED
  BY CacheInvariant, LruInvKept, <1>1, <1>2, PTL DEF CacheSpec

-----------------------------------------------------------------------------
(* The connection pool for any number of clients, addresses and slots.     *)
(* What makes OneOwner inductive is that an address is never both among    *)
(* the ids in use and idle; what bounds the lending is that acquire()      *)
(* makes a connection only while none is idle, so that the ids in use and  *)
(* the idle connections together are never more than max_size, whatever    *)
(* ids the clients that went away have left behind.                        *)

PoolInv == /\ PoolTypeOK /\ OneOwner
           /\ Lent \subseteq inUse
           /\ inUse \cap Idle = {}
           /\ Cardinality(inUse \cup Idle) <= PoolSize

(* The oldest connection leaves the deque, and it was there once.          *)
LEMMA OldestTaken ==
    ASSUME PoolInv, available # << >>
    PROVE  /\ Head(available) \in Addresses /\ Head(available) \in Idle
           /\ Tail(available) \in Seq(Addresses)
           /\ {Tail(available)[i] : i \in 1..Len(Tail(available))} = Idle \ {Head(available)}
           /\ \A i, j \in 1..Len(Tail(available)) :
                  Tail(available)[i] = Tail(available)[j] => i = j
<1>1. /\ available \in Seq(Addresses) /\ Len(available) \in Nat \ {0}
      /\ \A i, j \in 1..Len(available) : available[i] = available[j] => i = j
      /\ \A i \in 1..Len(available) : available[i] \in Addresses
  BY DEF PoolInv, PoolTypeOK, OneOwner
<1>2. /\ Tail(available) \in Seq(Addresses) /\ Len(Tail(available)) = Len(available) - 1
      /\ \A i \in 1..Len(Tail(available)) : Tail(available)[i] = available[i + 1]
      /\ Head(available) = available[1]
  BY <1>1, HeadTailProperties
<1> DEFINE rest == Tail(available)
<1> HIDE DEF rest
<1>3. ASSUME NEW i \in 1..Len(rest)
      PROVE  rest[i] \in Idle \ {available[1]}
  BY <1>1, <1>2, <1>3 DEF rest, Idle
<1>4. ASSUME NEW conn \in Idle \ {available[1]}
      PROVE  \E i \in 1..Len(rest) : rest[i] = conn
  <2>1. PICK i \in 1..Len(available) : available[i] = conn
    BY DEF Idle
  <2>2. i - 1 \in 1..Len(rest) /\ i = (i - 1) + 1
    BY <1>1, <1>2, <2>1 DEF rest
  <2>3. rest[i - 1] = conn
    BY <1>2, <2>1, <2>2 DEF rest
  <2> QED
    BY <2>2, <2>3
<1>5. {rest[i] : i \in 1..Len(rest)} = Idle \ {available[1]}
  BY <1>3, <1>4
<1>6. \A i, j \in 1..Len(rest) : rest[i] = rest[j] => i = j
  BY <1>1, <1>2 DEF rest
<1>7. available[1] \in Addresses /\ available[1] \in Idle
  BY <1>1 DEF Idle
<1> QED
  BY <1>2, <1>5, <1>6, <1>7 DEF rest

(* A connection that is given back is the last of the deque, and once.     *)
LEMMA GivenBack ==
    ASSUME PoolInv, NEW conn \in Addresses, conn \notin Idle
    PROVE  LET all == Append(available, conn)
           IN  /\ all \in Seq(Addresses)
               /\ {all[i] : i \in 1..Len(all)} = Idle \cup {conn}
               /\ \A i, j \in 1..Len(all) : all[i] = all[j] => i = j
<1> DEFINE all == Append(available, conn)
<1>1. /\ available \in Seq(Addresses) /\ Len(available) \in Nat
      /\ \A i, j \in 1..Len(available) : available[i] = available[j] => i = j
  BY DEF PoolInv, PoolTypeOK, OneOwner
<1>2. /\ all \in Seq(Addresses) /\ Len(all) = Len(available) + 1
      /\ \A i \in 1..Len(available) : all[i] = available[i]
      /\ all[Len(available) + 1] = conn
  BY <1>1, AppendProperties
<1>3. \A i \in 1..Len(available) : available[i] # conn
  BY DEF Idle
<1> HIDE DEF all
<1>4. {all[i] : i \in 1..Len(all)} = Idle \cup {conn}
  BY <1>1, <1>2 DEF Idle
<1>5. \A i, j \in 1..Len(all) : all[i] = all[j] => i = j
  BY <1>1, <1>2, <1>3
<1> QED
  BY <1>2, <1>4, <1>5 DEF all

(* As sets of addresses, a client that gets a connection.                  *)
LEMMA GetsKeeps ==
    ASSUME PoolInv, NEW c \in Borrowers, NEW conn \in Addresses, Gets(c, conn), conn \notin Lent
    PROVE  /\ held' \in [Borrowers -> Addresses \cup {NoConn}]
           /\ held'[c] = conn /\ \A d \in Borrowers \ {c} : held'[d] = held[d]
           /\ Lent' = Lent \cup {conn} /\ inUse' = inUse \cup {conn}
           /\ \A d, e \in Borrowers : held'[d] = held'[e] /\ held'[d] # NoConn => d = e
           /\ Lent' \subseteq inUse' /\ inUse' \subseteq Addresses
<1>1. /\ held \in [Borrowers -> Addresses \cup {NoConn}] /\ held[c] = NoConn
      /\ held' = [held EXCEPT ![c] = conn] /\ inUse' = inUse \cup {conn} /\ conn # NoConn
      /\ \A d, e \in Borrowers : held[d] = held[e] /\ held[d] # NoConn => d = e
      /\ Lent \subseteq inUse /\ inUse \subseteq Addresses
  BY ConnectionAssumption DEF PoolInv, PoolTypeOK, OneOwner, Gets
<1>2. \A d \in Borrowers : held[d] # conn
  BY <1>1 DEF Lent
<1>3. Lent' = Lent \cup {conn}
  BY <1>1 DEF Lent
<1> QED
  BY <1>1, <1>2, <1>3

(* As sets of addresses, a client that has a connection no more.           *)
LEMMA LosesKeeps ==
    ASSUME PoolInv, NEW c \in Borrowers, held[c] # NoConn,
           held' = [held EXCEPT ![c] = NoConn]
    PROVE  /\ held[c] \in Addresses /\ held[c] \in Lent /\ held[c] \in inUse
           /\ held' \in [Borrowers -> Addresses \cup {NoConn}]
           /\ Lent' = Lent \ {held[c]}
           /\ \A d, e \in Borrowers : held'[d] = held'[e] /\ held'[d] # NoConn => d = e
<1>1. /\ held \in [Borrowers -> Addresses \cup {NoConn}]
      /\ \A d, e \in Borrowers : held[d] = held[e] /\ held[d] # NoConn => d = e
      /\ Lent \subseteq inUse
  BY DEF PoolInv, PoolTypeOK, OneOwner
<1>2. held[c] \in Lent
  BY DEF Lent
<1>3. Lent' = Lent \ {held[c]}
  <2>1. /\ held'[c] = NoConn
        /\ \A d \in Borrowers \ {c} : held'[d] = held[d] /\ (held[d] # NoConn => held[d] # held[c])
    BY <1>1
  <2> QED
    BY <2>1 DEF Lent
<1> QED
  BY <1>1, <1>2, <1>3

LEMMA PoolInvKept == PoolInv /\ [PoolNext]_poolVars => PoolInv'
<1> SUFFICES ASSUME PoolInv, [PoolNext]_poolVars PROVE PoolInv'
  OBVIOUS
<1>1. /\ available \in Seq(Addresses) /\ inUse \subseteq Addresses
      /\ Lent \cap Idle = {} /\ Lent \subseteq inUse /\ inUse \cap Idle = {}
      /\ Cardinality(inUse \cup Idle) <= PoolSize
      /\ \A i, j \in 1..Len(available) : available[i] = available[j] => i = j
  BY DEF PoolInv, PoolTypeOK, OneOwner
<1>2. ASSUME NEW c \in Borrowers, AcquireIdle(c) PROVE PoolInv'
  <2> DEFINE conn == Head(available)
  <2>1. Gets(c, conn) /\ available' = Tail(available) /\ available # << >>
    BY <1>2 DEF AcquireIdle
  <2>2. /\ conn \in Addresses /\ conn \in Idle /\ available' \in Seq(Addresses)
        /\ Idle' = Idle \ {conn}
        /\ \A i, j \in 1..Len(available') : available'[i] = available'[j] => i = j
    BY <2>1, OldestTaken DEF Idle
  <2> HIDE DEF conn
  <2>3. /\ held' \in [Borrowers -> Addresses \cup {NoConn}]
        /\ Lent' = Lent \cup {conn} /\ inUse' = inUse \cup {conn}
        /\ \A d, e \in Borrowers : held'[d] = held'[e] /\ held'[d] # NoConn => d = e
        /\ Lent' \subseteq inUse' /\ inUse' \subseteq Addresses
    BY <1>1, <2>1, <2>2, GetsKeeps
  <2>4. inUse' \cup Idle' = inUse \cup Idle
    BY <2>2, <2>3
  <2> QED
    BY <1>1, <2>2, <2>3, <2>4 DEF PoolInv, PoolTypeOK, OneOwner
<1>3. ASSUME NEW c \in Borrowers, AcquireNew(c) PROVE PoolInv'
  <2>1. PICK conn \in Addresses \ (Lent \cup Idle) : Gets(c, conn)
    BY <1>3 DEF AcquireNew
  <2>2. /\ available = << >> /\ available' = available /\ Cardinality(inUse) < PoolSize
        /\ Idle = {} /\ Idle' = {}
    BY <1>3 DEF AcquireNew, Idle
  <2>3. /\ held' \in [Borrowers -> Addresses \cup {NoConn}]
        /\ Lent' = Lent \cup {conn} /\ inUse' = inUse \cup {conn}
        /\ \A d, e \in Borrowers : held'[d] = held'[e] /\ held'[d] # NoConn => d = e
        /\ Lent' \subseteq inUse' /\ inUse' \subseteq Addresses
    BY <2>1, GetsKeeps
  <2>4. Cardinality(inUse' \cup Idle') <= PoolSize
    <3>1. IsFiniteSet(inUse) /\ Cardinality(inUse) \in Nat
      BY <1>1, ConnectionAssumption, FS_Subset, FS_CardinalityType
    <3> DEFINE more == inUse \cup {conn}
    <3>2. Cardinality(more) = IF conn \in inUse THEN Cardinality(inUse) ELSE Cardinality(inUse) + 1
      BY <3>1, FS_AddElement
    <3>3. inUse' \cup Idle' = more
      BY <2>2, <2>3
    <3> HIDE DEF more
    <3>4. Cardinality(more) <= PoolSize
      BY <2>2, <3>1, <3>2, ConnectionAssumption
    <3> QED
      BY <3>3, <3>4
  <2> QED
    BY <1>1, <2>2, <2>3, <2>4 DEF PoolInv, PoolTypeOK, OneOwner
<1>4. ASSUME NEW c \in Borrowers, ReleaseConnection(c) PROVE PoolInv'
  <2> DEFINE conn == held[c]
  <2>1. /\ conn # NoConn /\ inUse' = inUse \ {conn}
        /\ available' = Append(available, conn) /\ held' = [held EXCEPT ![c] = NoConn]
    BY <1>4 DEF ReleaseConnection
  <2>2. /\ conn \in Addresses /\ conn \in Lent /\ conn \in inUse
        /\ held' \in [Borrowers -> Addresses \cup {NoConn}]
        /\ Lent' = Lent \ {conn}
        /\ \A d, e \in Borrowers : held'[d] = held'[e] /\ held'[d] # NoConn => d = e
    BY <2>1, LosesKeeps
  <2> HIDE DEF conn
  <2>3. /\ available' \in Seq(Addresses)
        /\ Idle' = Idle \cup {conn}
        /\ \A i, j \in 1..Len(available') : available'[i] = available'[j] => i = j
    BY <1>1, <2>1, <2>2, GivenBack DEF Idle
  <2>4. inUse' \cup Idle' = inUse \cup Idle
    BY <2>1, <2>2, <2>3
  <2> QED
    BY <1>1, <2>1, <2>2, <2>3, <2>4 DEF PoolInv, PoolTypeOK, OneOwner
<1>5. ASSUME NEW c \in Borrowers, Drop(c) PROVE PoolInv'
  <2>1. held[c] # NoConn /\ held' = [held EXCEPT ![c] = NoConn] /\ UNCHANGED <<available, inUse>>
    BY <1>5 DEF Drop
  <2>2. /\ held' \in [Borrowers -> Addresses \cup {NoConn}]
        /\ Lent' = Lent \ {held[c]}
        /\ \A d, e \in Borrowers : held'[d] = held'[e] /\ held'[d] # NoConn => d = e
    BY <2>1, LosesKeeps
  <2>3. Idle' = Idle
    BY <2>1 DEF Idle
  <2> QED
    BY <1>1, <2>1, <2>2, <2>3 DEF PoolInv, PoolTypeOK, OneOwner
<1>6. CASE UNCHANGED poolVars
  BY <1>6 DEF poolVars, PoolInv, PoolTypeOK, OneOwner, Lent, Idle
<1> QED
  BY <1>2, <1>3, <1>4, <1>5, <1>6 DEF PoolNext

LEMMA InitiallyPoolInv == PoolInit => PoolInv
<1> SUFFICES ASSUME PoolInit PROVE PoolInv
  OBVIOUS
<1>1. Idle = {} /\ Lent = {} /\ inUse = {}
  BY DEF PoolInit, Idle, Lent
<1>2. Cardinality(inUse \cup Idle) <= PoolSize
  BY <1>1, FS_EmptySet, ConnectionAssumption
<1> QED
  BY <1>1, <1>2 DEF PoolInit, PoolInv, PoolTypeOK, OneOwner

(* No connection is in two hands, or lent and idle at once, for any number *)
(* of clients, addresses and slots, although the ids of dropped            *)
(* connections stay behind and their addresses are used again.             *)
THEOREM ConnectionsHaveOneOwner == PoolSpec => []PoolInv
BY InitiallyPoolInv, PoolInvKept, PTL DEF PoolSpec

(* Never more clients hold a connection than the pool has slots.           *)
LEMMA LentFit == PoolInv => {c \in Borrowers : held[c] # NoConn} \in Sizes
<1> SUFFICES ASSUME PoolInv PROVE {c \in Borrowers : held[c] # NoConn} \in Sizes
  OBVIOUS
<1> DEFINE H == {c \in Borrowers : held[c] # NoConn}
           f == [c \in H |-> held[c]]
<1>1. /\ Lent \subseteq inUse /\ Cardinality(inUse \cup Idle) <= PoolSize
      /\ inUse \cup Idle \subseteq Addresses
      /\ \A c, d \in Borrowers : held[c] = held[d] /\ held[c] # NoConn => c = d
  BY DEF PoolInv, OneOwner, PoolTypeOK, Idle
<1>2. IsFiniteSet(inUse \cup Idle)
  BY <1>1, ConnectionAssumption, FS_Subset
<1>3. f \in Injection(H, inUse \cup Idle)
  <2>1. \A c \in H : held[c] \in inUse \cup Idle
    BY <1>1 DEF Lent
  <2>2. \A c, d \in H : f[c] = f[d] => c = d
    BY <1>1
  <2> QED
    BY <2>1, <2>2 DEF Injection, IsInjective
<1> HIDE DEF f
<1>4. IsFiniteSet(H) /\ Cardinality(H) <= Cardinality(inUse \cup Idle)
  BY <1>2, <1>3, FS_Injection
<1>5. /\ Cardinality(H) \in Nat /\ Cardinality(inUse \cup Idle) \in Nat /\ PoolSize \in Nat
  BY <1>2, <1>4, FS_CardinalityType, ConnectionAssumption
<1> QED
  BY <1>1, <1>4, <1>5 DEF Sizes

(* The pool lends slots as SlotPool promises: one at a time, each to who   *)
(* has none, never more than max_size.                                     *)
THEOREM ConnectionsAreSlots == PoolSpec => LendingSpec
<1> DEFINE H == {c \in Borrowers : held[c] # NoConn}
<1>1. PoolInit => Lending!Init
  BY DEF PoolInit, Lending!Init
<1>2. PoolInv /\ (H \in Sizes)' /\ [PoolNext]_poolVars => [Lending!Next]_H
  <2> SUFFICES ASSUME PoolInv, (H \in Sizes)', [PoolNext]_poolVars PROVE [Lending!Next]_H
    OBVIOUS
  <2>0. /\ held \in [Borrowers -> Addresses \cup {NoConn}]
        /\ H' \in Sizes
    BY DEF PoolInv, PoolTypeOK, Sizes
  <2>1. ASSUME NEW c \in Borrowers, AcquireIdle(c) \/ AcquireNew(c) PROVE Lending!Enter(c)
    <3>1. PICK conn : conn # NoConn /\ Gets(c, conn)
      BY <2>1, OldestTaken, ConnectionAssumption DEF AcquireIdle, AcquireNew
    <3>2. c \notin H /\ H' = H \cup {c}
      BY <2>0, <3>1 DEF Gets
    <3> QED
      BY <2>0, <3>2 DEF Lending!Enter
  <2>2. ASSUME NEW c \in Borrowers, ReleaseConnection(c) \/ Drop(c) PROVE Lending!Leave(c)
    <3>1. held[c] # NoConn /\ held' = [held EXCEPT ![c] = NoConn]
      BY <2>2 DEF ReleaseConnection, Drop
    <3>2. c \in H /\ H' = H \ {c}
      BY <2>0, <3>1
    <3> QED
      BY <3>2 DEF Lending!Leave
  <2> QED
    BY <2>1, <2>2 DEF PoolNext, poolVars, Lending!Next
<1> QED
  BY ConnectionsHaveOneOwner, LentFit, <1>1, <1>2, PTL DEF PoolSpec, LendingSpec, Lending!Spec

-----------------------------------------------------------------------------
(* The lock *)

(* A holder whose lease is not over, and one that Redis has granted the    *)
(* lock but that does not know it yet.                                     *)
InLease(h) == phase[h] \in {"granted", "holds"} /\ age[h] < LeaseTime

(* Its token is in the key, and stays there at least as long as it may     *)
(* believe: the key was written after it asked.                            *)
LeasesAreCovered == \A h \in Holders : InLease(h) => key = Token(h) /\ ttl >= LeaseTime - age[h]

KeyHasTime == key # Free => ttl >= 1

LockInv == LockTypeOK /\ LeasesAreCovered /\ KeyHasTime

(* Two tokens are never the same, and none is Free.                        *)
LEMMA TokensDiffer ==
    ASSUME LockTypeOK, NEW h \in Holders, NEW i \in Holders, h # i
    PROVE  Token(h) # Token(i) /\ Token(h) # Free /\ Token(h) \in Holders \X Nat
BY LockAssumption DEF Token, LockTypeOK

(* The inductive invariant of the lock.                                    *)
THEOREM LockInvariant == LockSpec => []LockInv
<1>1. LockInit => LockInv
  BY LockAssumption
     DEF LockInit, LockInv, LockTypeOK, LeasesAreCovered, InLease, KeyHasTime
<1>2. LockInv /\ [LockNext]_lockVars => LockInv'
  <2> SUFFICES ASSUME LockInv, [LockNext]_lockVars PROVE LockInv'
    OBVIOUS
  <2> USE LockAssumption DEF LockInv, LockTypeOK, LeasesAreCovered, InLease, KeyHasTime, Token, Turns
  <2>1. ASSUME NEW h \in Holders, Acquire(h) PROVE LockInv'
    BY <2>1 DEF Acquire
  <2>2. ASSUME NEW h \in Holders, SetIfFree(h) PROVE LockInv'
    BY <2>2 DEF SetIfFree
  <2>3. ASSUME NEW h \in Holders, Answered(h) PROVE LockInv'
    BY <2>3 DEF Answered
  <2>4. ASSUME NEW h \in Holders, Release(h) PROVE LockInv'
    BY <2>4 DEF Release, Holds
  <2>5. ASSUME NEW h \in Holders, DeleteIfOwn(h) PROVE LockInv'
    BY <2>5 DEF DeleteIfOwn
  <2>6. ASSUME NEW h \in Holders, ReleaseLost(h) PROVE LockInv'
    BY <2>6 DEF ReleaseLost
  <2>7. CASE LockTick
    BY <2>7 DEF LockTick
  <2>8. CASE UNCHANGED lockVars
    BY <2>8 DEF lockVars
  <2> QED BY <2>1, <2>2, <2>3, <2>4, <2>5, <2>6, <2>7, <2>8 DEF LockNext
<1> QED BY <1>1, <1>2, PTL DEF LockSpec

(* acquire_lock(): of two holders at work at once, one is past its lease,  *)
(* for every lease time and any number of holders.                         *)
THEOREM LeasesNeverOverlap == LockSpec => []LeasesExclude
<1>1. LockInv => LeasesExclude
  <2> SUFFICES ASSUME LockInv, NEW h \in Holders, NEW i \in Holders,
                      h # i, Holds(h), Holds(i), LeaseTime \notin {age[h], age[i]}
               PROVE  FALSE
    BY DEF LeasesExclude
  <2>1. InLease(h) /\ InLease(i)
    BY LockAssumption DEF LockInv, LockTypeOK, InLease, Holds
  <2> QED BY <2>1, TokensDiffer DEF LockInv, LeasesAreCovered
<1> QED BY <1>1, LockInvariant, PTL

(* release_lock(): the key leaves a token only by expiry or its own        *)
(* holder's release.                                                       *)
THEOREM LateReleaseTakesNothing == LockSpec => OnlyOwnRelease
<1>1. LockInv /\ [LockNext]_lockVars =>
          [key # Free /\ key' # key =>
              ttl = 1 \/ \E h \in Holders : Token(h) = key /\ phase[h] = "releases"]_lockVars
  <2> SUFFICES ASSUME LockInv, LockNext, key # Free, key' # key
               PROVE  ttl = 1 \/ \E h \in Holders : Token(h) = key /\ phase[h] = "releases"
    OBVIOUS
  <2>1. CASE LockTick
    BY <2>1, LockAssumption DEF LockTick, LockInv, LockTypeOK, KeyHasTime
  <2>2. CASE \E h \in Holders : DeleteIfOwn(h)
    BY <2>2 DEF DeleteIfOwn
  <2> QED BY <2>1, <2>2 DEF LockNext, Acquire, SetIfFree, Answered, Release, ReleaseLost
<1> QED BY <1>1, LockInvariant, PTL DEF LockSpec, OnlyOwnRelease

-----------------------------------------------------------------------------
(* The rate limit *)

(* A request that was allowed and is no longer in the set was dropped by   *)
(* one a window later; whoever still asks asked at most MaxDelay before.   *)
DroppedAreOld ==
    \A r \in Requests : answer[r] = "allowed" /\ r \notin zset =>
        /\ now >= stamp[r] + Window
        /\ \A q \in Requests : Waiting(q) => stamp[q] >= stamp[r] + Window - MaxDelay

WaitingAreRecent == \A r \in Requests : Waiting(r) => now <= stamp[r] + MaxDelay

AskedInThePast ==
    \A r \in Requests : /\ stamp[r] <= now
                        /\ r \in zset \/ answer[r] # "none" => stamp[r] >= 0

WindowInv == /\ WindowTypeOK /\ DroppedAreOld /\ WaitingAreRecent /\ AskedInThePast
             /\ LimitHoldsLessDelay

(* What is counted is finite, and what is in a smaller set counts less.    *)
LEMMA SmallerSet ==
    ASSUME NEW S, NEW T, T \subseteq Requests, S \subseteq T, Cardinality(T) <= Limit
    PROVE  Cardinality(S) <= Limit
BY FS_Subset, FS_CardinalityType, WindowAssumption

(* The step that lets a request through: those allowed in a window less    *)
(* the delay are all in the set that was counted.                          *)
LEMMA PipelineKeepsLimit ==
    ASSUME WindowInv, NEW p \in Requests, Pipeline(p)
    PROVE  LimitHoldsLessDelay'
<1> USE WindowAssumption DEF WindowInv, WindowTypeOK
<1> DEFINE kept == {q \in zset : stamp[q] > stamp[p] - Window} \cup {p}
<1>1. Waiting(p) /\ zset' = kept /\ stamp' = stamp /\ now' = now
      /\ answer' = [answer EXCEPT ![p] = IF Cardinality(kept) <= Limit THEN "allowed" ELSE "refused"]
  BY DEF Pipeline
<1> HIDE DEF kept
<1> SUFFICES ASSUME NEW t \in 0..MaxNow
             PROVE  Cardinality(Allowed(t - Window + 1 + MaxDelay, t)') <= Limit
  BY DEF LimitHoldsLessDelay, Allowed
<1> DEFINE first == t - Window + 1 + MaxDelay
<1>2. CASE p \notin Allowed(first, t)'
  <2>1. Allowed(first, t)' \subseteq Allowed(first, t)
    BY <1>1, <1>2 DEF Allowed
  <2>2. Cardinality(Allowed(first, t)) <= Limit
    BY DEF LimitHoldsLessDelay
  <2> QED BY <2>1, <2>2, SmallerSet DEF Allowed
<1>3. CASE p \in Allowed(first, t)'
  <2>1. Cardinality(kept) <= Limit
    BY <1>1, <1>3 DEF Allowed
  <2>2. kept \subseteq Requests
    BY DEF kept
  <2>3. ASSUME NEW r \in Allowed(first, t)', r # p PROVE r \in kept
    <3>1. answer[r] = "allowed" /\ stamp[r] \in first..t /\ stamp[p] \in first..t
      BY <1>1, <1>3, <2>3 DEF Allowed
    <3>2. r \in Requests
      BY DEF Allowed
    <3>3. stamp[r] \in Int /\ stamp[p] \in Int /\ t \in Int
      BY <3>2
    <3>4. stamp[p] - stamp[r] < Window - MaxDelay /\ stamp[r] > stamp[p] - Window
      BY <3>1, <3>3
    <3>5. r \in zset
      BY <1>1, <3>1, <3>2, <3>3, <3>4 DEF DroppedAreOld
    <3> QED BY <3>4, <3>5 DEF kept
  <2>4. Allowed(first, t)' \subseteq kept
    BY <2>3 DEF kept
  <2> QED BY <2>1, <2>2, <2>4, SmallerSet
<1> QED BY <1>2, <1>3

(* The inductive invariant of the rate limit.                              *)
THEOREM WindowInvariant == WindowSpec => []WindowInv
<1>1. WindowInit => WindowInv
  <2> SUFFICES ASSUME WindowInit PROVE WindowInv
    OBVIOUS
  <2>1. WindowTypeOK /\ DroppedAreOld /\ WaitingAreRecent /\ AskedInThePast
    BY WindowAssumption
       DEF WindowInit, WindowTypeOK, DroppedAreOld, WaitingAreRecent, AskedInThePast, Waiting
  <2>2. \A first, last \in Int : Allowed(first, last) = {}
    BY DEF WindowInit, Allowed
  <2>3. LimitHoldsLessDelay
    BY <2>2, FS_EmptySet, WindowAssumption DEF LimitHoldsLessDelay
  <2> QED BY <2>1, <2>3 DEF WindowInv
<1>2. WindowInv /\ [WindowNext]_windowVars => WindowInv'
  <2> SUFFICES ASSUME WindowInv, [WindowNext]_windowVars PROVE WindowInv'
    OBVIOUS
  <2> USE WindowAssumption
  <2>1. ASSUME NEW r \in Requests, Ask(r) PROVE WindowInv'
    <3>1. WindowTypeOK' /\ WaitingAreRecent' /\ AskedInThePast'
      BY <2>1 DEF Ask, WindowInv, WindowTypeOK, WaitingAreRecent, AskedInThePast, Waiting
    <3>2. DroppedAreOld'
      BY <2>1 DEF Ask, WindowInv, WindowTypeOK, DroppedAreOld, AskedInThePast, Waiting
    <3>3. \A first, last \in Int : Allowed(first, last)' = Allowed(first, last)
      BY <2>1 DEF Ask, WindowInv, WindowTypeOK, Allowed, AskedInThePast
    <3>4. LimitHoldsLessDelay'
      BY <3>3 DEF LimitHoldsLessDelay, WindowInv
    <3> QED BY <3>1, <3>2, <3>4 DEF WindowInv
  <2>2. ASSUME NEW r \in Requests, Pipeline(r) PROVE WindowInv'
    <3>1. WindowTypeOK' /\ WaitingAreRecent' /\ AskedInThePast'
      BY <2>2 DEF Pipeline, WindowInv, WindowTypeOK, WaitingAreRecent, AskedInThePast, Waiting
    <3>2. DroppedAreOld'
      BY <2>2 DEF Pipeline, WindowInv, WindowTypeOK, DroppedAreOld, WaitingAreRecent,
                  AskedInThePast, Waiting
    <3> QED BY <2>2, <3>1, <3>2, PipelineKeepsLimit DEF WindowInv
  <2>3. ASSUME NEW r \in Requests, FailOpen(r) PROVE WindowInv'
    <3>1. WindowTypeOK' /\ WaitingAreRecent' /\ AskedInThePast'
      BY <2>3 DEF FailOpen, WindowInv, WindowTypeOK, WaitingAreRecent, AskedInThePast, Waiting
    <3>2. DroppedAreOld'
      BY <2>3 DEF FailOpen, WindowInv, WindowTypeOK, DroppedAreOld, WaitingAreRecent,
                  AskedInThePast, Waiting
    <3>3. \A first, last \in Int : Allowed(first, last)' = Allowed(first, last)
      BY <2>3 DEF FailOpen, WindowInv, WindowTypeOK, Allowed, Waiting
    <3>4. LimitHoldsLessDelay'
      BY <3>3 DEF LimitHoldsLessDelay, WindowInv
    <3> QED BY <3>1, <3>2, <3>4 DEF WindowInv
  <2>4. CASE WindowTick
    <3>1. WindowTypeOK' /\ WaitingAreRecent' /\ AskedInThePast' /\ DroppedAreOld'
      BY <2>4 DEF WindowTick, WindowInv, WindowTypeOK, DroppedAreOld, WaitingAreRecent,
                  AskedInThePast, Waiting
    <3>2. LimitHoldsLessDelay'
      BY <2>4 DEF WindowTick, WindowInv, LimitHoldsLessDelay, Allowed
    <3> QED BY <3>1, <3>2 DEF WindowInv
  <2>5. CASE UNCHANGED windowVars
    BY <2>5 DEF windowVars, WindowInv, WindowTypeOK, DroppedAreOld, WaitingAreRecent,
                AskedInThePast, Waiting, LimitHoldsLessDelay, Allowed
  <2> QED BY <2>1, <2>2, <2>3, <2>4, <2>5 DEF WindowNext
<1> QED BY <1>1, <1>2, PTL DEF WindowSpec

(* check_rate_limit(): for every limit, window and delay, and any number   *)
(* of requests in any order, no window less the delay lets more through    *)
(* than the limit.                                                         *)
THEOREM WindowKeepsLimit == WindowSpec => []LimitHoldsLessDelay
<1>1. WindowInv => LimitHoldsLessDelay
  BY DEF WindowInv
<1> QED BY <1>1, WindowInvariant, PTL

-----------------------------------------------------------------------------
(* The broker manager *)

Places == {"idle", "wants producer", "starts", "sleeps", "sends", "wants close", "stops"}
InLock == {"starts", "sleeps", "stops"}

BrokerTyped == /\ producer \in Producers \cup {Nothing}
               /\ life \in [Producers -> {"none", "starting", "started"}]
               /\ at \in [Coroutines -> Places]
               /\ using \in [Coroutines -> Producers \cup {Nothing}]

(* Who starts, stops or sleeps between attempts has the lock. *)
WorkersHoldLock == \A c \in Coroutines : at[c] \in {"starts", "sleeps", "stops"} => holder = c

(* A producer is started only while the manager has none, and the one that *)
(* is stopped is the manager's.                                            *)
StartsAlone == \A c \in Coroutines : at[c] \in {"starts", "sleeps"} => producer = Nothing
StartsIts == \A c \in Coroutines : at[c] = "starts" => /\ using[c] \in Producers
                                                       /\ life[using[c]] = "starting"
StopsIts == \A c \in Coroutines : at[c] = "stops" => using[c] = producer /\ producer # Nothing

(* OnlyOneConnected, producer by producer. *)
OneStarted == \A p \in Producers : life[p] = "started" <=> p = producer

BrokerInv == /\ BrokerTyped /\ WorkersHoldLock /\ StartsAlone /\ StartsIts /\ StopsIts
             /\ OneStarted

(* A step of a coroutine without the lock: nothing but its place, and what *)
(* it sends with, changes.                                                 *)
LEMMA StepsOutside ==
    ASSUME BrokerInv, NEW c \in Coroutines, NEW to \in Places \ InLock,
           NEW p \in Producers \cup {Nothing},
           at' = [at EXCEPT ![c] = to], using' = [using EXCEPT ![c] = p],
           producer' = producer, life' = life, holder' = holder
    PROVE  BrokerInv'
<1>1. BrokerTyped' /\ OneStarted'
  BY DEF BrokerInv, BrokerTyped, OneStarted, Places
<1>2. \A d \in Coroutines : at'[d] \in InLock => d # c /\ at'[d] = at[d] /\ using'[d] = using[d]
  BY DEF BrokerInv, BrokerTyped, Places
<1>3. WorkersHoldLock' /\ StartsAlone' /\ StopsIts'
  BY <1>2 DEF BrokerInv, WorkersHoldLock, StartsAlone, StopsIts, InLock
<1>4. StartsIts'
  BY <1>2 DEF BrokerInv, StartsIts, InLock
<1> QED BY <1>1, <1>3, <1>4 DEF BrokerInv

(* What the invariant asks of a coroutine in the lock.                     *)
AtWork(c) == /\ at[c] \in InLock => holder = c
             /\ at[c] \in {"starts", "sleeps"} => producer = Nothing
             /\ at[c] = "starts" => using[c] \in Producers /\ life[using[c]] = "starting"
             /\ at[c] = "stops" => using[c] = producer /\ producer # Nothing

(* A step of the coroutine that has, or takes, the lock: no other is       *)
(* starting, sleeping or stopping.                                         *)
LEMMA StepsInside ==
    ASSUME BrokerInv, NEW c \in Coroutines, holder \in {c, Nothing},
           NEW to \in Places, NEW p \in Producers \cup {Nothing},
           at' = [at EXCEPT ![c] = to], using' = [using EXCEPT ![c] = p],
           producer' \in Producers \cup {Nothing},
           life' \in [Producers -> {"none", "starting", "started"}],
           OneStarted', AtWork(c)'
    PROVE  BrokerInv'
<1>1. \A d \in Coroutines : d # c => at[d] \notin InLock
  BY BrokerAssumption DEF BrokerInv, WorkersHoldLock, InLock
<1>2. \A d \in Coroutines : d # c => at'[d] \notin InLock
  BY <1>1 DEF BrokerInv, BrokerTyped
<1>3. BrokerTyped'
  BY DEF BrokerInv, BrokerTyped, Places
<1>4. WorkersHoldLock' /\ StartsAlone' /\ StopsIts'
  BY <1>2 DEF AtWork, WorkersHoldLock, StartsAlone, StopsIts, InLock
<1>5. StartsIts'
  BY <1>2 DEF AtWork, StartsIts, InLock
<1> QED BY <1>3, <1>4, <1>5 DEF BrokerInv

(* A start(): only with the lock, and only while there is no producer.     *)
LEMMA BeginsInside ==
    ASSUME BrokerInv, NEW c \in Coroutines, holder \in {c, Nothing}, Begins(c),
           holder' = c, producer = Nothing, producer' = producer
    PROVE  BrokerInv'
<1>1. PICK p \in Producers : /\ life[p] = "none"
                            /\ life' = [life EXCEPT ![p] = "starting"]
                            /\ using' = [using EXCEPT ![c] = p]
  BY DEF Begins
<1>2. at' = [at EXCEPT ![c] = "starts"]
  BY DEF Begins, Goes
<1>3. life' \in [Producers -> {"none", "starting", "started"}]
  BY <1>1 DEF BrokerInv, BrokerTyped
<1>4. OneStarted'
  BY <1>1, BrokerAssumption DEF BrokerInv, BrokerTyped, OneStarted
<1>5. at'[c] = "starts" /\ using'[c] = p /\ life'[p] = "starting"
  BY <1>1, <1>2 DEF BrokerInv, BrokerTyped
<1>6. AtWork(c)'
  BY <1>5 DEF AtWork
<1> QED BY <1>1, <1>2, <1>3, <1>4, <1>6, StepsInside DEF BrokerInv, BrokerTyped, Places

(* The producer that one at work starts or stops is dropped.               *)
LEMMA DropsInside ==
    ASSUME BrokerInv, NEW c \in Coroutines, at[c] \in {"starts", "stops"},
           life' = [life EXCEPT ![using[c]] = "none"], producer' = Nothing,
           using' = [using EXCEPT ![c] = Nothing], NEW to \in {"idle", "sleeps"},
           at' = [at EXCEPT ![c] = to], to = "sleeps" => holder' = c
    PROVE  BrokerInv'
<1>1. holder = c /\ using[c] \in Producers
  BY BrokerAssumption DEF BrokerInv, BrokerTyped, WorkersHoldLock, StartsIts, StopsIts
<1>2. producer \in {Nothing, using[c]}
  BY DEF BrokerInv, StartsAlone, StopsIts
<1>3. life' \in [Producers -> {"none", "starting", "started"}]
  BY DEF BrokerInv, BrokerTyped
<1>4. OneStarted'
  BY <1>1, <1>2, BrokerAssumption DEF BrokerInv, BrokerTyped, OneStarted
<1>5. at'[c] = to
  BY DEF BrokerInv, BrokerTyped
<1>6. AtWork(c)'
  BY <1>5 DEF AtWork, InLock
<1> QED BY <1>1, <1>3, <1>4, <1>6, StepsInside DEF Places

LEMMA InitiallyBrokerInv == BrokerInit => BrokerInv
BY BrokerAssumption
   DEF BrokerInit, BrokerInv, BrokerTyped, WorkersHoldLock, StartsAlone, StartsIts, StopsIts,
       OneStarted, Places

LEMMA BrokerInvKept == BrokerInv /\ [BrokerNext]_brokerVars => BrokerInv'
<1> SUFFICES ASSUME BrokerInv, [BrokerNext]_brokerVars PROVE BrokerInv'
  OBVIOUS
<1>0. \A c \in Coroutines : using = [using EXCEPT ![c] = using[c]]
                            /\ using[c] \in Producers \cup {Nothing}
  BY DEF BrokerInv, BrokerTyped
<1>1. ASSUME NEW c \in Coroutines, Publish(c) PROVE BrokerInv'
  <2>1. CASE producer # Nothing
    <3>1. /\ at' = [at EXCEPT ![c] = "sends"] /\ using' = [using EXCEPT ![c] = producer]
          /\ life' = life /\ holder' = holder /\ producer' = producer
      BY <1>1, <2>1 DEF Publish, Goes
    <3> QED BY <3>1, StepsOutside DEF Places, InLock, BrokerInv, BrokerTyped
  <2>2. CASE producer = Nothing
    <3>1. /\ at' = [at EXCEPT ![c] = "wants producer"] /\ using' = using
          /\ life' = life /\ holder' = holder /\ producer' = producer
      BY <1>1, <2>2 DEF Publish, Wait, Goes
    <3> QED BY <1>0, <3>1, StepsOutside DEF Places, InLock
  <2> QED BY <2>1, <2>2
<1>2. ASSUME NEW c \in Coroutines, Close(c) PROVE BrokerInv'
  <2>1. /\ at' = [at EXCEPT ![c] = "wants close"] /\ using' = using
        /\ life' = life /\ holder' = holder /\ producer' = producer
    BY <1>2 DEF Close, Wait, Goes
  <2> QED BY <1>0, <2>1, StepsOutside DEF Places, InLock
<1>3. ASSUME NEW c \in Coroutines, LookAgain(c) PROVE BrokerInv'
  <2>1. CASE producer # Nothing
    <3>1. /\ at' = [at EXCEPT ![c] = "sends"] /\ using' = [using EXCEPT ![c] = producer]
          /\ life' = life /\ holder' = holder /\ producer' = producer
      BY <1>3, <2>1 DEF LookAgain, Goes
    <3> QED BY <3>1, StepsOutside DEF Places, InLock, BrokerInv, BrokerTyped
  <2>2. CASE producer = Nothing
    <3>1. holder = Nothing /\ holder' = c /\ Begins(c) /\ producer' = producer
      BY <1>3, <2>2 DEF LookAgain, Turn
    <3> QED BY <2>2, <3>1, BeginsInside
  <2> QED BY <2>1, <2>2
<1>4. ASSUME NEW c \in Coroutines, StartSucceeds(c) PROVE BrokerInv'
  <2>1. /\ at[c] = "starts" /\ holder = c /\ using[c] \in Producers /\ producer = Nothing
        /\ at' = [at EXCEPT ![c] = "sends"] /\ using' = using
        /\ life' = [life EXCEPT ![using[c]] = "started"] /\ producer' = using[c]
    BY <1>4 DEF StartSucceeds, Goes, BrokerInv, WorkersHoldLock, StartsIts, StartsAlone
  <2>2. life' \in [Producers -> {"none", "starting", "started"}]
    BY <2>1 DEF BrokerInv, BrokerTyped
  <2>3. OneStarted'
    BY <2>1, BrokerAssumption DEF BrokerInv, BrokerTyped, OneStarted
  <2>4. AtWork(c)'
    BY <2>1 DEF AtWork, InLock, BrokerInv, BrokerTyped
  <2> QED BY <1>0, <2>1, <2>2, <2>3, <2>4, StepsInside DEF Places
<1>5. ASSUME NEW c \in Coroutines, StartFails(c) PROVE BrokerInv'
  <2>1. /\ at[c] = "starts" /\ holder = c /\ producer' = Nothing
        /\ life' = [life EXCEPT ![using[c]] = "none"]
        /\ using' = [using EXCEPT ![c] = Nothing]
    BY <1>5 DEF StartFails, BrokerInv, WorkersHoldLock, StartsAlone
  <2>2. \/ at' = [at EXCEPT ![c] = "sleeps"] /\ holder' = c
        \/ at' = [at EXCEPT ![c] = "idle"]
    BY <1>5, <2>1 DEF StartFails, Goes
  <2>3. \E to \in {"idle", "sleeps"} : at' = [at EXCEPT ![c] = to] /\ (to = "sleeps" => holder' = c)
    BY <2>2
  <2> QED BY <2>1, <2>3, DropsInside
<1>6. ASSUME NEW c \in Coroutines, NextAttempt(c) PROVE BrokerInv'
  <2>1. holder = c /\ holder' = c /\ Begins(c) /\ producer = Nothing /\ producer' = producer
    BY <1>6 DEF NextAttempt, BrokerInv, WorkersHoldLock, StartsAlone
  <2> QED BY <2>1, BeginsInside
<1>7. ASSUME NEW c \in Coroutines, Sent(c) PROVE BrokerInv'
  <2>1. /\ at' = [at EXCEPT ![c] = "idle"] /\ using' = [using EXCEPT ![c] = Nothing]
        /\ life' = life /\ holder' = holder /\ producer' = producer
    BY <1>7 DEF Sent, Goes
  <2> QED BY <2>1, StepsOutside DEF Places, InLock
<1>8. ASSUME NEW c \in Coroutines, Stop(c) PROVE BrokerInv'
  <2>1. CASE producer # Nothing
    <3>1. /\ at' = [at EXCEPT ![c] = "stops"] /\ using' = [using EXCEPT ![c] = producer]
          /\ life' = life /\ holder' = c /\ holder = Nothing /\ producer' = producer
      BY <1>8, <2>1 DEF Stop, Turn, Goes
    <3>2. AtWork(c)'
      BY <2>1, <3>1 DEF AtWork, BrokerInv, BrokerTyped
    <3>3. OneStarted'
      BY <3>1 DEF BrokerInv, OneStarted
    <3> QED BY <3>1, <3>2, <3>3, StepsInside DEF Places, BrokerInv, BrokerTyped
  <2>2. CASE producer = Nothing
    <3>1. /\ at' = [at EXCEPT ![c] = "idle"] /\ using' = using
          /\ life' = life /\ holder' = holder /\ producer' = producer
      BY <1>8, <2>2 DEF Stop, Goes
    <3> QED BY <1>0, <3>1, StepsOutside DEF Places, InLock
  <2> QED BY <2>1, <2>2
<1>9. ASSUME NEW c \in Coroutines, Stopped(c) PROVE BrokerInv'
  <2>1. /\ at[c] = "stops" /\ at' = [at EXCEPT ![c] = "idle"] /\ producer' = Nothing
        /\ life' = [life EXCEPT ![using[c]] = "none"]
        /\ using' = [using EXCEPT ![c] = Nothing]
    BY <1>9 DEF Stopped, Goes
  <2> QED BY <2>1, DropsInside
<1>10. ASSUME NEW c \in Coroutines, Cancelled(c) PROVE BrokerInv'
  <2>1. at' = [at EXCEPT ![c] = "idle"] /\ producer' = producer
    BY <1>10 DEF Cancelled, Goes
  <2>2. CASE at[c] = "wants producer"
    <3>1. using' = using /\ life' = life /\ holder' = holder
      BY <1>10, <2>2 DEF Cancelled
    <3> QED BY <1>0, <2>1, <3>1, StepsOutside DEF Places, InLock
  <2>3. CASE at[c] = "sleeps"
    <3>1. using' = using /\ life' = life /\ holder = c
      BY <1>10, <2>3 DEF Cancelled, BrokerInv, WorkersHoldLock
    <3>2. AtWork(c)' /\ OneStarted'
      BY <2>1, <3>1 DEF AtWork, InLock, BrokerInv, BrokerTyped, OneStarted
    <3> QED BY <1>0, <2>1, <3>1, <3>2, StepsInside DEF Places, BrokerInv, BrokerTyped
  <2>4. CASE at[c] = "starts"
    <3>1. /\ life' = [life EXCEPT ![using[c]] = "none"]
          /\ using' = [using EXCEPT ![c] = Nothing] /\ producer' = Nothing
      BY <1>10, <2>1, <2>4 DEF Cancelled, BrokerInv, StartsAlone
    <3> QED BY <2>1, <2>4, <3>1, DropsInside
  <2> QED BY <1>10, <2>2, <2>3, <2>4 DEF Cancelled
<1>11. CASE UNCHANGED brokerVars
  BY <1>11 DEF brokerVars, BrokerInv, BrokerTyped, WorkersHoldLock, StartsAlone, StartsIts,
               StopsIts, OneStarted
<1> QED BY <1>1, <1>2, <1>3, <1>4, <1>5, <1>6, <1>7, <1>8, <1>9, <1>10, <1>11
        DEF BrokerNext, Proceeds

(* The inductive invariant of the manager.                                 *)
THEOREM BrokerInvariant == BrokerSpec => []BrokerInv
BY InitiallyBrokerInv, BrokerInvKept, PTL DEF BrokerSpec

(* get_producer() and close(): however many coroutines publish, close,     *)
(* fail and are cancelled, nothing is connected but the manager's own      *)
(* producer.                                                               *)
THEOREM NeverTwoConnected == BrokerSpec => []OnlyOneConnected
<1>1. BrokerInv => OnlyOneConnected
  BY BrokerAssumption DEF BrokerInv, BrokerTyped, OneStarted, OnlyOneConnected, Started
<1> QED BY <1>1, BrokerInvariant, PTL

(* Taking one entry out of a sequence leaves one. *)
LEMMA TakenOut ==
    ASSUME NEW S, NEW s \in Seq(S), NEW i \in 1..Len(s)
    PROVE  SubSeq(s, 1, i - 1) \o SubSeq(s, i + 1, Len(s)) \in Seq(S)
<1>1. Len(s) \in Nat /\ \A j \in 1..Len(s) : s[j] \in S
  OBVIOUS
<1>2. SubSeq(s, 1, i - 1) \in Seq(S)
  <2>1. \A j \in 1..(i - 1) : s[j] \in S
    BY <1>1
  <2> QED BY <2>1, SubSeqProperties
<1>3. SubSeq(s, i + 1, Len(s)) \in Seq(S)
  <2>1. \A j \in (i + 1)..Len(s) : s[j] \in S
    BY <1>1
  <2> QED BY <1>1, <2>1, SubSeqProperties
<1> QED BY <1>2, <1>3, ConcatProperties

(* Who sleeps has an attempt left. *)
AttemptLeft == \A c \in Coroutines : at[c] = "sleeps" => tries[c] < Attempts

BrokerTries == BrokerTypeOK /\ AttemptLeft

LEMMA InitiallyBrokerTries == BrokerInit => BrokerTries
BY BrokerAssumption DEF BrokerInit, BrokerTries, BrokerTypeOK, AttemptLeft

(* The rest of the type invariant, and that an attempt never is one too    *)
(* many.                                                                   *)
LEMMA BrokerTriesKept ==
    BrokerInv' /\ BrokerTries /\ [BrokerNext]_brokerVars => BrokerTries'
<1> SUFFICES ASSUME BrokerInv', BrokerTries, [BrokerNext]_brokerVars PROVE BrokerTries'
  OBVIOUS
<1>0. /\ producer' \in Producers \cup {Nothing}
      /\ life' \in [Producers -> {"none", "starting", "started"}]
      /\ at' \in [Coroutines -> {"idle", "wants producer", "starts", "sleeps", "sends",
                                 "wants close", "stops"}]
      /\ using' \in [Coroutines -> Producers \cup {Nothing}]
  BY DEF BrokerInv, BrokerTyped, Places
<1>t. /\ holder \in Coroutines \cup {Nothing} /\ queue \in Seq(Coroutines)
      /\ tries \in [Coroutines -> 0..Attempts]
      /\ at \in [Coroutines -> {"idle", "wants producer", "starts", "sleeps", "sends",
                                "wants close", "stops"}]
  BY DEF BrokerTries, BrokerTypeOK
<1>1. queue' \in Seq(Coroutines)
  <2>1. /\ queue # <<>> => Tail(queue) \in Seq(Coroutines)
        /\ \A c \in Coroutines : Append(queue, c) \in Seq(Coroutines)
    BY <1>t, HeadTailProperties, AppendProperties
  <2>2. \A i \in 1..Len(queue) :
            SubSeq(queue, 1, i - 1) \o SubSeq(queue, i + 1, Len(queue)) \in Seq(Coroutines)
    BY <1>t, TakenOut
  <2>3. \/ queue' = queue
        \/ \E c \in Coroutines : queue' = Append(queue, c)
        \/ queue # <<>> /\ queue' = Tail(queue)
        \/ \E c \in Coroutines : Leaves(c)
    BY DEF BrokerNext, Proceeds, Publish, Close, Wait, LookAgain, StartSucceeds, StartFails,
           NextAttempt, Sent, Stop, Stopped, Cancelled, Turn, brokerVars
  <2> QED BY <1>t, <2>1, <2>2, <2>3 DEF Leaves
<1>2. holder' \in Coroutines \cup {Nothing}
  BY <1>t DEF BrokerNext, Proceeds, Publish, Close, LookAgain, StartSucceeds, StartFails,
              NextAttempt, Sent, Stop, Stopped, Cancelled, brokerVars
<1>3. tries' \in [Coroutines -> 0..Attempts] /\ AttemptLeft'
  <2> DEFINE Rest == tries' \in [Coroutines -> 0..Attempts] /\ AttemptLeft'
  <2>1. ASSUME NEW c \in Coroutines,
               tries' = tries, NEW to, at' = [at EXCEPT ![c] = to],
               to = "sleeps" => tries[c] < Attempts
        PROVE  Rest
    BY <1>t, <2>1 DEF BrokerTries, AttemptLeft
  <2>2. ASSUME NEW c \in Coroutines, NEW n \in 0..Attempts, tries' = [tries EXCEPT ![c] = n],
               NEW to, to # "sleeps", at' = [at EXCEPT ![c] = to]
        PROVE  Rest
    BY <1>t, <2>2 DEF BrokerTries, AttemptLeft
  <2>3. ASSUME UNCHANGED <<at, tries>> PROVE Rest
    BY <1>t, <2>3 DEF BrokerTries, AttemptLeft
  <2> HIDE DEF Rest
  <2>4. ASSUME NEW c \in Coroutines, Publish(c) \/ Close(c) PROVE Rest
    BY <2>1, <2>4 DEF Publish, Close, Wait, Goes
  <2>5. ASSUME NEW c \in Coroutines, LookAgain(c) PROVE Rest
    <3>1. 1 \in 0..Attempts
      BY BrokerAssumption
    <3> QED BY <2>1, <2>2, <2>5, <3>1 DEF LookAgain, Begins, Goes
  <2>6. ASSUME NEW c \in Coroutines, StartFails(c) PROVE Rest
    BY <2>1, <2>6 DEF StartFails, Goes
  <2>7. ASSUME NEW c \in Coroutines, NextAttempt(c) PROVE Rest
    <3>0. tries[c] \in 0..Attempts /\ tries[c] < Attempts
      BY <1>t, <2>7 DEF NextAttempt, BrokerTries, AttemptLeft
    <3>1. tries[c] + 1 \in 0..Attempts
      BY <3>0, BrokerAssumption
    <3> QED BY <2>2, <2>7, <3>1 DEF NextAttempt, Begins, Goes
  <2>8. ASSUME NEW c \in Coroutines,
               StartSucceeds(c) \/ Sent(c) \/ Stop(c) \/ Stopped(c) \/ Cancelled(c)
        PROVE  Rest
    BY <2>1, <2>8 DEF StartSucceeds, Sent, Stop, Stopped, Cancelled, Goes
  <2>9. ASSUME UNCHANGED brokerVars PROVE Rest
    BY <2>3, <2>9 DEF brokerVars
  <2>10. Rest
    BY <2>4, <2>5, <2>6, <2>7, <2>8, <2>9 DEF BrokerNext, Proceeds
  <2> QED BY <2>10 DEF Rest
<1> QED BY <1>0, <1>1, <1>2, <1>3 DEF BrokerTries, BrokerTypeOK

(* get_producer(): never more than kafka_retries attempts in one call, and *)
(* the lock is only ever a coroutine's or nobody's.                        *)
LEMMA BrokerTyping == BrokerInit /\ [][BrokerNext]_brokerVars => []BrokerTypeOK
<1>1. BrokerTries => BrokerTypeOK
  BY DEF BrokerTries
<1> QED BY <1>1, InitiallyBrokerInv, BrokerInvKept, InitiallyBrokerTries, BrokerTriesKept, PTL

-----------------------------------------------------------------------------
(* Benchmark runs *)

Counts == [tp : Nat, fp : Nat, tn : Nat, fn : Nat, events : Nat, detections : Nat]

(* What one run may have in its matrix, given that n records were made of  *)
(* all runs: its cells add up, and it has no more than n events and        *)
(* detections.                                                             *)
Balanced(m, p, n) ==
    /\ m.tp + m.fp = m.detections
    /\ m.fn + m.tn + m.detections = m.events + IF p = "none" THEN 0 ELSE 1
    /\ m.events + m.detections <= n
    /\ p # "none" => m.detections >= 1

RunsBalance ==
    /\ matrix \in [Runs -> Counts]
    /\ \A r \in Runs : Balanced(matrix[r], pending[r], recorded)

Samples == /\ status \in [Runs -> {"none", "pending", "running", "completed"}]
           /\ pending \in [Runs -> {"none", "tp", "fp"}]
           /\ recorded \in 0..MaxRecords
           /\ samples \in Nat /\ reported \in Nat /\ timed \in Nat
           /\ samples + reported = timed /\ timed <= recorded

EvaluationInv == Samples /\ RunsBalance

(* What record_detection() and record_event_processed() make of a matrix.  *)
Detected(m, x, y, z) == [m EXCEPT !.detections = x, !.tp = y, !.fp = z]
Processed(m, x, y, z) == [m EXCEPT !.events = x, !.fn = y, !.tn = z]

LEMMA CellsAreCounts ==
    ASSUME NEW m \in Counts
    PROVE  /\ m.tp \in Nat /\ m.fp \in Nat /\ m.tn \in Nat /\ m.fn \in Nat
           /\ m.events \in Nat /\ m.detections \in Nat
BY DEF Counts

LEMMA DetectedCells ==
    ASSUME NEW m \in Counts, NEW x \in Nat, NEW y \in Nat, NEW z \in Nat
    PROVE  /\ Detected(m, x, y, z) \in Counts
           /\ Detected(m, x, y, z).detections = x /\ Detected(m, x, y, z).tp = y
           /\ Detected(m, x, y, z).fp = z /\ Detected(m, x, y, z).events = m.events
           /\ Detected(m, x, y, z).fn = m.fn /\ Detected(m, x, y, z).tn = m.tn
BY DEF Counts, Detected

LEMMA ProcessedCells ==
    ASSUME NEW m \in Counts, NEW x \in Nat, NEW y \in Nat, NEW z \in Nat
    PROVE  /\ Processed(m, x, y, z) \in Counts
           /\ Processed(m, x, y, z).events = x /\ Processed(m, x, y, z).fn = y
           /\ Processed(m, x, y, z).tn = z /\ Processed(m, x, y, z).tp = m.tp
           /\ Processed(m, x, y, z).fp = m.fp /\ Processed(m, x, y, z).detections = m.detections
BY DEF Counts, Processed

LEMMA DetectionBalances ==
    ASSUME NEW m \in Counts, NEW n \in Nat, NEW yes \in BOOLEAN, Balanced(m, "none", n),
           NEW p, p # "none"
    PROVE  Detection(m, yes) \in Counts /\ Balanced(Detection(m, yes), p, n + 1)
<1>1. /\ m.tp \in Nat /\ m.fp \in Nat /\ m.tn \in Nat /\ m.fn \in Nat
      /\ m.events \in Nat /\ m.detections \in Nat
  BY CellsAreCounts
<1>2. PICK x \in Nat, y \in Nat, z \in Nat :
          /\ x = m.detections + 1 /\ y + z = m.tp + m.fp + 1
          /\ Detection(m, yes) = Detected(m, x, y, z)
  <2>1. /\ m.detections + 1 \in Nat /\ m.tp + 1 \in Nat /\ m.fp + 1 \in Nat
        /\ m.tp + 1 + m.fp = m.tp + m.fp + 1 /\ m.tp + (m.fp + 1) = m.tp + m.fp + 1
        /\ m.tp + 0 = m.tp /\ m.fp + 0 = m.fp
    BY <1>1
  <2>2. CASE yes
    <3>1. Detection(m, yes) = Detected(m, m.detections + 1, m.tp + 1, m.fp)
      BY <2>1, <2>2 DEF Detection, Detected
    <3> QED
      BY <1>1, <2>1, <3>1
  <2>3. CASE ~yes
    <3>1. Detection(m, yes) = Detected(m, m.detections + 1, m.tp, m.fp + 1)
      BY <2>1, <2>3 DEF Detection, Detected
    <3> QED
      BY <1>1, <2>1, <3>1
  <2> QED
    BY <2>2, <2>3
<1> DEFINE d == Detected(m, x, y, z)
<1>3. /\ d \in Counts /\ d.detections = x /\ d.tp = y /\ d.fp = z
      /\ d.events = m.events /\ d.fn = m.fn /\ d.tn = m.tn
  BY DetectedCells
<1>4. Detection(m, yes) = d
  BY <1>2
<1> HIDE DEF d
<1> QED
  BY <1>1, <1>2, <1>3, <1>4 DEF Balanced

LEMMA EventBalances ==
    ASSUME NEW m \in Counts, NEW n \in Nat, NEW yes \in BOOLEAN, NEW p, Balanced(m, p, n)
    PROVE  /\ Outcome(m, p # "none", yes) \in Counts
           /\ Balanced(Outcome(m, p # "none", yes), "none", n + 1)
<1>1. /\ m.tp \in Nat /\ m.fp \in Nat /\ m.tn \in Nat /\ m.fn \in Nat
      /\ m.events \in Nat /\ m.detections \in Nat
  BY CellsAreCounts
<1>2. PICK x \in Nat, y \in Nat, z \in Nat :
          /\ x = m.events + 1 /\ y + z = m.fn + m.tn + IF p = "none" THEN 1 ELSE 0
          /\ Outcome(m, p # "none", yes) = Processed(m, x, y, z)
  <2>1. /\ m.events + 1 \in Nat /\ m.fn + 1 \in Nat /\ m.tn + 1 \in Nat
        /\ m.fn + 1 + m.tn = m.fn + m.tn + 1 /\ m.fn + (m.tn + 1) = m.fn + m.tn + 1
        /\ m.fn + 0 = m.fn /\ m.tn + 0 = m.tn
    BY <1>1
  <2>2. CASE p # "none"
    <3>1. Outcome(m, p # "none", yes) = Processed(m, m.events + 1, m.fn, m.tn)
      BY <2>1, <2>2 DEF Outcome, Processed
    <3> QED
      BY <1>1, <2>1, <2>2, <3>1
  <2>3. CASE p = "none" /\ yes
    <3>1. Outcome(m, p # "none", yes) = Processed(m, m.events + 1, m.fn + 1, m.tn)
      BY <2>1, <2>3 DEF Outcome, Processed
    <3> QED
      BY <1>1, <2>1, <2>3, <3>1
  <2>4. CASE p = "none" /\ ~yes
    <3>1. Outcome(m, p # "none", yes) = Processed(m, m.events + 1, m.fn, m.tn + 1)
      BY <2>1, <2>4 DEF Outcome, Processed
    <3> QED
      BY <1>1, <2>1, <2>4, <3>1
  <2> QED
    BY <2>2, <2>3, <2>4
<1> DEFINE e == Processed(m, x, y, z)
<1>3. /\ e \in Counts /\ e.events = x /\ e.fn = y /\ e.tn = z
      /\ e.detections = m.detections /\ e.tp = m.tp /\ e.fp = m.fp
  BY ProcessedCells
<1>4. Outcome(m, p # "none", yes) = e
  BY <1>2
<1> HIDE DEF e
<1> QED
  BY <1>1, <1>2, <1>3, <1>4 DEF Balanced

(* A step that adds one record to one run's matrix m.                      *)
LEMMA OneRecorded ==
    ASSUME EvaluationInv, NEW r \in Runs, NEW m \in Counts, NEW p \in {"none", "tp", "fp"},
           Recorded, NEW n \in 0..1, Sampled(n), reported' = reported, status' = status,
           matrix' = [matrix EXCEPT ![r] = m], pending' = [pending EXCEPT ![r] = p],
           Balanced(m, p, recorded + 1)
    PROVE  EvaluationInv'
<1>1. Samples'
  BY EvaluationAssumption DEF EvaluationInv, Samples, Recorded, Sampled
<1>2. matrix' \in [Runs -> Counts]
  BY DEF EvaluationInv, RunsBalance
<1>3. ASSUME NEW q \in Runs, q # r PROVE Balanced(matrix'[q], pending'[q], recorded')
  <2>1. /\ matrix'[q] = matrix[q] /\ pending'[q] = pending[q] /\ recorded' = recorded + 1
        /\ recorded \in Nat /\ matrix[q].events \in Nat /\ matrix[q].detections \in Nat
    BY <1>3 DEF EvaluationInv, Samples, RunsBalance, Recorded, Counts
  <2> QED
    BY <2>1 DEF EvaluationInv, RunsBalance, Balanced
<1>4. Balanced(matrix'[r], pending'[r], recorded')
  BY DEF EvaluationInv, Samples, RunsBalance, Recorded
<1> QED
  BY <1>1, <1>2, <1>3, <1>4 DEF EvaluationInv, RunsBalance

(* The inductive invariant of the runs.                                    *)
THEOREM EvaluationInvariant == EvaluationSpec => []EvaluationInv
<1>1. EvaluationInit => EvaluationInv
  BY EvaluationAssumption
     DEF EvaluationInit, EvaluationInv, Samples, RunsBalance, EmptyMatrix, Counts, Balanced
<1>2. EvaluationInv /\ [EvaluationNext]_evaluationVars => EvaluationInv'
  <2> SUFFICES ASSUME EvaluationInv, [EvaluationNext]_evaluationVars PROVE EvaluationInv'
    OBVIOUS
  <2>1. ASSUME NEW r \in Runs, CreateRun(r) \/ StartRun(r) PROVE EvaluationInv'
    BY <2>1 DEF CreateRun, StartRun, EvaluationInv, Samples, RunsBalance
  <2>2. ASSUME NEW r \in Runs, CompleteRun(r) PROVE EvaluationInv'
    BY <2>2 DEF CompleteRun, EvaluationInv, Samples, RunsBalance
  <2>3. ASSUME NEW r \in Runs, NEW yes \in BOOLEAN, NEW n \in 0..1, RecordDetection(r, yes, n)
        PROVE  EvaluationInv'
    <3> DEFINE m == Detection(matrix[r], yes)
               p == IF yes THEN "tp" ELSE "fp"
    <3>1. /\ matrix[r] \in Counts /\ Balanced(matrix[r], "none", recorded) /\ recorded \in Nat
      BY <2>3 DEF EvaluationInv, RunsBalance, RecordDetection, Samples
    <3>2. m \in Counts /\ Balanced(m, p, recorded + 1)
      BY <3>1, DetectionBalances
    <3>3. matrix' = [matrix EXCEPT ![r] = m]
      BY <2>3 DEF RecordDetection
    <3> HIDE DEF m
    <3> QED
      BY <2>3, <3>2, <3>3, OneRecorded DEF RecordDetection
  <2>4. ASSUME NEW r \in Runs, NEW yes \in BOOLEAN, NEW n \in 0..1, RecordEventProcessed(r, yes, n)
        PROVE  EvaluationInv'
    <3> DEFINE m == Outcome(matrix[r], pending[r] # "none", yes)
    <3>1. /\ matrix[r] \in Counts /\ Balanced(matrix[r], pending[r], recorded) /\ recorded \in Nat
      BY DEF EvaluationInv, RunsBalance, Samples
    <3>2. m \in Counts /\ Balanced(m, "none", recorded + 1)
      BY <3>1, EventBalances
    <3>3. matrix' = [matrix EXCEPT ![r] = m]
      BY <2>4 DEF RecordEventProcessed
    <3> HIDE DEF m
    <3> QED
      BY <2>4, <3>2, <3>3, OneRecorded DEF RecordEventProcessed
  <2>5. CASE UNCHANGED evaluationVars
    BY <2>5 DEF evaluationVars, EvaluationInv, Samples, RunsBalance
  <2> QED
    BY <2>1, <2>2, <2>3, <2>4, <2>5 DEF EvaluationNext
<1> QED
  BY <1>1, <1>2, PTL DEF EvaluationSpec

(* However benchmark runs overlap, every event and every detection is in   *)
(* one cell of the matrix of its run, and every latency in one report.     *)
THEOREM RecordedOnce == EvaluationSpec => [](EvaluationTypeOK /\ EachCountedOnce)
<1>1. EvaluationInv => EvaluationTypeOK /\ EachCountedOnce
  <2> SUFFICES ASSUME EvaluationInv PROVE EvaluationTypeOK /\ EachCountedOnce
    OBVIOUS
  <2> USE EvaluationAssumption DEF EvaluationInv
  <2>1. ASSUME NEW r \in Runs
        PROVE  /\ matrix[r] \in [tp : 0..MaxRecords, fp : 0..MaxRecords,
                                 tn : 0..MaxRecords, fn : 0..MaxRecords,
                                 events : 0..MaxRecords, detections : 0..MaxRecords]
               /\ matrix[r].tp + matrix[r].fp + matrix[r].fn + matrix[r].tn =
                      matrix[r].events + IF pending[r] = "none" THEN 0 ELSE 1
               /\ matrix[r].tp + matrix[r].fp = matrix[r].detections
    BY DEF Samples, RunsBalance, Balanced, Counts
  <2>2. EvaluationTypeOK
    BY <2>1 DEF EvaluationTypeOK, Samples, RunsBalance
  <2> QED
    BY <2>1, <2>2 DEF EachCountedOnce, Samples
<1> QED
  BY <1>1, EvaluationInvariant, PTL
-----------------------------------------------------------------------------
(* Threat intelligence *)

Has(s, x) == \E n \in 1..Len(s) : s[n] = x

(* Of a lookup that went to the providers the results are the opinions     *)
(* that it was told; while it is in progress there are providers left.     *)
ResultsAreOpinions ==
    \A a \in Analysts : asking[a].fresh =>
        \A o \in Opinions : Has(results[a], o) <=> Has(asking[a].said, o)

InProgress == {a \in Analysts : ~asking[a].over}

Asked == [indicator : Indicators \cup {Uncached}, said : Seq(Endings),
          over : BOOLEAN, fresh : BOOLEAN]

IntelTyped == /\ registered \in 1..MaxProviders
              /\ cache \in [Indicators -> Opinions \cup {Uncached}]
              /\ asking \in [Analysts -> Asked]
              /\ results \in [Analysts -> Seq(Opinions)]
              /\ lookups \in Nat

ProvidersAreLeft ==
    \A a \in Analysts :
        /\ Len(asking[a].said) <= registered
        /\ ~asking[a].over => /\ Len(asking[a].said) < registered
                              /\ asking[a].fresh /\ asking[a].indicator \in Indicators

LookupsBounded == /\ IsFiniteSet(InProgress)
                  /\ lookups + Cardinality(InProgress) <= MaxLookups

IntelInv == IntelTyped /\ ProvidersAreLeft /\ LookupsBounded /\ ResultsAreOpinions

(* The strongest of the reputations in S is the first that is looked for.  *)
LEMMA StrongestIsMax ==
    ASSUME NEW rs \in Seq(Opinions), NEW S \in SUBSET Opinions,
           \A o \in Opinions : Has(rs, o) <=> o \in S
    PROVE  AggregatedReputation(rs) = Max({0} \cup S)
<1> DEFINE T == {0} \cup S
<1>1. S \subseteq {0, 1, 2, 3} /\ Opinions \subseteq {0, 1, 2, 3}
  BY IntelAssumption DEF Reputations
<1>2. \A m \in T : (\A y \in T : m >= y) => Max(T) = m
  <2> SUFFICES ASSUME NEW m \in T, \A y \in T : m >= y PROVE Max(T) = m
    OBVIOUS
  <2>1. \A x \in T : (\A y \in T : x >= y) => x = m
    BY <1>1
  <2> QED
    BY <2>1 DEF Max
<1>3. \A rep \in 1..3 : (\E i \in DOMAIN rs : rs[i] = rep) <=> rep \in S
  <2> SUFFICES ASSUME NEW rep \in 1..3 PROVE (\E i \in DOMAIN rs : rs[i] = rep) <=> rep \in S
    OBVIOUS
  <2>1. DOMAIN rs = 1..Len(rs) /\ \A i \in DOMAIN rs : rs[i] \in Opinions
    OBVIOUS
  <2> QED
    BY <2>1 DEF Has
<1>4. CASE 3 \in S
  <2>0. 3 \in T /\ \A y \in T : 3 >= y
    BY <1>1, <1>4
  <2>1. Max(T) = 3
    BY <1>2, <2>0
  <2> QED
    BY <1>3, <1>4, <2>1 DEF AggregatedReputation
<1>5. CASE 3 \notin S /\ 2 \in S
  <2>0. 2 \in T /\ \A y \in T : 2 >= y
    BY <1>1, <1>5
  <2>1. Max(T) = 2
    BY <1>2, <2>0
  <2> QED
    BY <1>3, <1>5, <2>1 DEF AggregatedReputation
<1>6. CASE 3 \notin S /\ 2 \notin S /\ 1 \in S
  <2>0. 1 \in T /\ \A y \in T : 1 >= y
    BY <1>1, <1>6
  <2>1. Max(T) = 1
    BY <1>2, <2>0
  <2> QED
    BY <1>3, <1>6, <2>1 DEF AggregatedReputation
<1>7. CASE 3 \notin S /\ 2 \notin S /\ 1 \notin S
  <2>0. 0 \in T /\ \A y \in T : 0 >= y
    BY <1>1, <1>7
  <2>1. Max(T) = 0
    BY <1>2, <2>0
  <2> QED
    BY <1>3, <1>7, <2>1 DEF AggregatedReputation
<1> QED
  BY <1>4, <1>5, <1>6, <1>7

(* An answer more. *)
LEMMA AppendHas ==
    ASSUME NEW S, NEW s \in Seq(S), NEW x \in S
    PROVE  /\ Append(s, x) \in Seq(S) /\ Len(Append(s, x)) = Len(s) + 1
           /\ \A y : Has(Append(s, x), y) <=> Has(s, y) \/ y = x
<1>1. /\ Append(s, x) \in Seq(S) /\ Len(Append(s, x)) = Len(s) + 1
      /\ \A i \in 1..Len(s) : Append(s, x)[i] = s[i]
      /\ Append(s, x)[Len(s) + 1] = x
  BY AppendProperties
<1>2. Len(s) \in Nat
  OBVIOUS
<1> QED
  BY <1>1, <1>2 DEF Has

(* The await of a provider ends: what the lookup has been told, and what   *)
(* it makes of that.                                                       *)
LEMMA ProviderTells ==
    ASSUME IntelInv, NEW a \in Analysts, NEW ending \in Endings, ProviderEnds(a, ending)
    PROVE  /\ asking'[a].said = Append(asking[a].said, ending)
           /\ asking'[a].over = (Len(asking[a].said) + 1 >= registered)
           /\ asking'[a].indicator = asking[a].indicator /\ asking'[a].fresh
           /\ \A b \in Analysts : b # a => asking'[b] = asking[b] /\ results'[b] = results[b]
           /\ asking' \in [Analysts -> Asked] /\ results' \in [Analysts -> Seq(Opinions)]
           /\ Len(asking'[a].said) = Len(asking[a].said) + 1
           /\ \A o \in Opinions : Has(results'[a], o) <=> Has(asking'[a].said, o)
<1> USE DEF IntelInv, IntelTyped
<1>1. /\ asking[a] \in Asked /\ asking[a].said \in Seq(Endings) /\ ~asking[a].over
      /\ asking[a].fresh /\ results[a] \in Seq(Opinions)
  BY DEF Asked, ProviderEnds, ProvidersAreLeft
<1>2. /\ Append(asking[a].said, ending) \in Seq(Endings)
      /\ Len(Append(asking[a].said, ending)) = Len(asking[a].said) + 1
      /\ \A y : Has(Append(asking[a].said, ending), y) <=> Has(asking[a].said, y) \/ y = ending
  BY <1>1, AppendHas
<1> DEFINE said == Append(asking[a].said, ending)
           done == Len(asking[a].said) + 1 >= registered
<1>3. asking' = [asking EXCEPT ![a].said = said, ![a].over = done]
  BY <1>2 DEF ProviderEnds
<1>4. done \in BOOLEAN
  OBVIOUS
<1> HIDE DEF done
<1>5. /\ asking'[a].said = said /\ asking'[a].over = done /\ asking'[a].fresh
      /\ asking'[a].indicator = asking[a].indicator /\ asking'[a] \in Asked
      /\ \A b \in Analysts : b # a => asking'[b] = asking[b]
      /\ asking' \in [Analysts -> Asked]
  BY <1>1, <1>2, <1>3, <1>4 DEF Asked
<1>6. CASE ending \in Opinions
  <2>1. results' = [results EXCEPT ![a] = Append(@, ending)]
    BY <1>6 DEF ProviderEnds
  <2>2. /\ results'[a] = Append(results[a], ending)
        /\ \A b \in Analysts : b # a => results'[b] = results[b]
    BY <2>1
  <2>3. /\ Append(results[a], ending) \in Seq(Opinions)
        /\ \A y : Has(Append(results[a], ending), y) <=> Has(results[a], y) \/ y = ending
    BY <1>1, <1>6, AppendHas
  <2>4. results' \in [Analysts -> Seq(Opinions)]
    BY <2>1, <2>3
  <2>5. \A o \in Opinions : Has(results'[a], o) <=> Has(asking'[a].said, o)
    BY <1>1, <1>2, <1>5, <2>2, <2>3 DEF ResultsAreOpinions
  <2> QED
    BY <1>2, <1>5, <2>2, <2>4, <2>5 DEF done
<1>7. CASE ending \notin Opinions
  <2>1. results' = results
    BY <1>7 DEF ProviderEnds
  <2>2. \A o \in Opinions : Has(results'[a], o) <=> Has(asking'[a].said, o)
    BY <1>1, <1>2, <1>5, <1>7, <2>1 DEF ResultsAreOpinions
  <2> QED
    BY <1>2, <1>5, <2>1, <2>2 DEF done
<1> QED
  BY <1>6, <1>7

(* The inductive invariant of the lookups.                                 *)
THEOREM IntelInvariant == IntelSpec => []IntelInv
<1>1. IntelInit => IntelInv
  <2> SUFFICES ASSUME IntelInit PROVE IntelInv
    OBVIOUS
  <2>1. asking = [a \in Analysts |-> NoLookup(Uncached)] /\ results = [a \in Analysts |-> <<>>]
    BY DEF IntelInit
  <2>2. /\ NoLookup(Uncached) \in Asked /\ NoLookup(Uncached).over /\ ~NoLookup(Uncached).fresh
        /\ Len(NoLookup(Uncached).said) = 0
    BY DEF NoLookup, Asked
  <2>3. IntelTyped
    BY <2>1, <2>2, IntelAssumption DEF IntelInit, IntelTyped
  <2>4. ProvidersAreLeft /\ ResultsAreOpinions
    BY <2>1, <2>2, IntelAssumption DEF IntelInit, ProvidersAreLeft, ResultsAreOpinions
  <2>5. InProgress = {}
    BY <2>1, <2>2 DEF InProgress
  <2>6. LookupsBounded
    BY <2>5, FS_EmptySet, IntelAssumption DEF IntelInit, LookupsBounded
  <2> QED
    BY <2>3, <2>4, <2>6 DEF IntelInv
<1>2. IntelInv /\ [IntelNext]_intelVars => IntelInv'
  <2> SUFFICES ASSUME IntelInv, [IntelNext]_intelVars PROVE IntelInv'
    OBVIOUS
  <2>0. Cardinality(InProgress) \in Nat
    BY FS_CardinalityType DEF IntelInv, LookupsBounded
  <2>1. CASE RegisterProvider
    BY <2>1, IntelAssumption
       DEF RegisterProvider, IntelInv, IntelTyped, ProvidersAreLeft, LookupsBounded, InProgress,
           ResultsAreOpinions, Asked
  <2>2. ASSUME NEW a \in Analysts, NEW i \in Indicators, LookupCached(a, i) PROVE IntelInv'
    <3> DEFINE asked == NoLookup(i)
    <3>1. /\ asking[a].over /\ asking' = [asking EXCEPT ![a] = asked]
          /\ results' = [results EXCEPT ![a] = <<cache[i]>>] /\ cache[i] \in Opinions
          /\ UNCHANGED <<registered, cache, lookups>>
      BY <2>2 DEF LookupCached, IntelInv, IntelTyped
    <3>2. asked \in Asked /\ asked.over /\ ~asked.fresh /\ Len(asked.said) = 0
      BY DEF NoLookup, Asked
    <3> HIDE DEF asked
    <3>3. IntelTyped'
      BY <3>1, <3>2 DEF IntelInv, IntelTyped
    <3>4. ProvidersAreLeft' /\ ResultsAreOpinions' /\ InProgress' = InProgress
      BY <3>1, <3>2 DEF IntelInv, IntelTyped, ProvidersAreLeft, ResultsAreOpinions, InProgress
    <3> QED
      BY <3>1, <3>3, <3>4 DEF IntelInv, LookupsBounded
  <2>3. ASSUME NEW a \in Analysts, NEW i \in Indicators, LookupMissed(a, i) PROVE IntelInv'
    <3> DEFINE asked == [indicator |-> i, said |-> <<>>, over |-> FALSE, fresh |-> TRUE]
    <3>1. /\ asking[a].over /\ asking' = [asking EXCEPT ![a] = asked]
          /\ results' = [results EXCEPT ![a] = <<>>] /\ cache' = [cache EXCEPT ![i] = Uncached]
          /\ Cardinality(InProgress) + lookups < MaxLookups
          /\ UNCHANGED <<registered, lookups>>
      BY <2>3 DEF LookupMissed, InProgress
    <3>2. /\ asked \in Asked /\ ~asked.over /\ asked.fresh /\ asked.indicator = i
          /\ Len(asked.said) = 0 /\ asked.said = <<>>
      BY DEF Asked
    <3> HIDE DEF asked
    <3>3. IntelTyped'
      <4>1. asking' \in [Analysts -> Asked] /\ cache' \in [Indicators -> Opinions \cup {Uncached}]
        BY <3>1, <3>2 DEF IntelInv, IntelTyped
      <4>2. results' \in [Analysts -> Seq(Opinions)]
        BY <3>1 DEF IntelInv, IntelTyped
      <4> QED
        BY <3>1, <4>1, <4>2 DEF IntelInv, IntelTyped
    <3>4. ProvidersAreLeft' /\ ResultsAreOpinions'
      <4>1. /\ asking'[a] = asked /\ results'[a] = <<>>
            /\ \A b \in Analysts : b # a => asking'[b] = asking[b] /\ results'[b] = results[b]
        BY <3>1 DEF IntelInv, IntelTyped
      <4>2. registered' = registered /\ registered >= 1 /\ registered \in Nat
        BY <3>1, IntelAssumption DEF IntelInv, IntelTyped
      <4>3. ProvidersAreLeft'
        BY <3>2, <4>1, <4>2 DEF IntelInv, ProvidersAreLeft
      <4>4. \A o : ~Has(<<>>, o)
        BY DEF Has
      <4>5. ResultsAreOpinions'
        BY <3>2, <4>1, <4>4 DEF IntelInv, ResultsAreOpinions
      <4> QED
        BY <4>3, <4>5
    <3>5. InProgress' = InProgress \cup {a} /\ a \notin InProgress
      BY <3>1, <3>2 DEF IntelInv, IntelTyped, InProgress
    <3>6. /\ IsFiniteSet(InProgress \cup {a})
          /\ Cardinality(InProgress \cup {a}) = Cardinality(InProgress) + 1
      BY <3>5, FS_AddElement DEF IntelInv, LookupsBounded
    <3>7. LookupsBounded'
      <4>1. lookups' = lookups /\ lookups \in Nat
        BY <3>1 DEF IntelInv, IntelTyped
      <4> QED
        BY <2>0, <3>1, <3>5, <3>6, <4>1, IntelAssumption DEF LookupsBounded
    <3> QED
      BY <3>3, <3>4, <3>7 DEF IntelInv
  <2>4. ASSUME NEW a \in Analysts, NEW ending \in Endings, ProviderEnds(a, ending) PROVE IntelInv'
    <3> DEFINE done == Len(asking[a].said) + 1 >= registered
    <3>1. /\ asking'[a].said = Append(asking[a].said, ending) /\ asking'[a].over = done
          /\ asking'[a].indicator = asking[a].indicator /\ asking'[a].fresh
          /\ \A b \in Analysts : b # a => asking'[b] = asking[b] /\ results'[b] = results[b]
          /\ asking' \in [Analysts -> Asked] /\ results' \in [Analysts -> Seq(Opinions)]
          /\ Len(asking'[a].said) = Len(asking[a].said) + 1
          /\ \A o \in Opinions : Has(results'[a], o) <=> Has(asking'[a].said, o)
      BY <2>4, ProviderTells
    <3>2. /\ ~asking[a].over /\ asking[a].indicator \in Indicators
          /\ Len(asking[a].said) \in Nat /\ Len(asking[a].said) < registered
          /\ registered' = registered /\ registered \in Nat /\ lookups \in Nat
      BY <2>4 DEF ProviderEnds, IntelInv, IntelTyped, ProvidersAreLeft, Asked
    <3>3. lookups' = IF done THEN lookups + 1 ELSE lookups
      BY <2>4, <3>1 DEF ProviderEnds
    <3>4. cache' \in [Indicators -> Opinions \cup {Uncached}]
      BY <2>4, <3>2 DEF ProviderEnds, IntelInv, IntelTyped
    <3>5. IntelTyped'
      <4>1. lookups' \in Nat
        BY <3>2, <3>3
      <4> QED
        BY <3>1, <3>2, <3>4, <4>1 DEF IntelInv, IntelTyped
    <3>6. ProvidersAreLeft'
      <4>1. ASSUME NEW b \in Analysts
            PROVE  /\ Len(asking'[b].said) <= registered
                   /\ ~asking'[b].over => /\ Len(asking'[b].said) < registered
                                         /\ asking'[b].fresh /\ asking'[b].indicator \in Indicators
        <5>1. CASE b = a
          <6>1. /\ Len(asking'[a].said) = Len(asking[a].said) + 1 /\ asking'[a].over = done
                /\ asking'[a].fresh /\ asking'[a].indicator \in Indicators
            BY <3>1, <3>2
          <6>2. Len(asking'[a].said) <= registered
            BY <3>2, <6>1
          <6>3. ~done => Len(asking'[a].said) < registered
            BY <3>2, <6>1
          <6> QED
            BY <5>1, <6>1, <6>2, <6>3
        <5>2. CASE b # a
          BY <3>1, <5>2 DEF IntelInv, ProvidersAreLeft
        <5> QED
          BY <5>1, <5>2
      <4> QED
        BY <3>2, <4>1 DEF ProvidersAreLeft
    <3>7. ResultsAreOpinions'
      BY <3>1 DEF IntelInv, ResultsAreOpinions
    <3>8. LookupsBounded'
      <4>1. a \in InProgress /\ IsFiniteSet(InProgress)
        BY <3>2 DEF InProgress, IntelInv, LookupsBounded
      <4>2. CASE done
        <5>1. InProgress' = InProgress \ {a}
          BY <3>1, <4>2 DEF InProgress
        <5>2. /\ IsFiniteSet(InProgress \ {a})
              /\ Cardinality(InProgress \ {a}) = Cardinality(InProgress) - 1
          BY <4>1, FS_RemoveElement
        <5>3. lookups + Cardinality(InProgress) <= MaxLookups
          BY DEF IntelInv, LookupsBounded
        <5> QED
          BY <2>0, <3>2, <3>3, <4>2, <5>1, <5>2, <5>3, IntelAssumption DEF LookupsBounded
      <4>3. CASE ~done
        <5>1. InProgress' = InProgress
          BY <3>1, <3>2, <4>3 DEF InProgress
        <5> QED
          BY <3>3, <4>3, <5>1 DEF IntelInv, LookupsBounded
      <4> QED
        BY <4>2, <4>3
    <3> QED
      BY <3>5, <3>6, <3>7, <3>8 DEF IntelInv
  <2>5. CASE UNCHANGED intelVars
    BY <2>5 DEF intelVars, IntelInv, IntelTyped, ProvidersAreLeft, LookupsBounded, InProgress,
                ResultsAreOpinions
  <2> QED
    BY <2>1, <2>2, <2>3, <2>4, <2>5 DEF IntelNext
<1> QED
  BY <1>1, <1>2, PTL DEF IntelSpec

(* lookup(): whichever providers fail, and whatever is registered while it *)
(* waits, it asks all there were and tells the strongest opinion it got.   *)
THEOREM TellsTheStrongest == IntelSpec => StrongestIsTold
<1>1. IntelInv /\ [IntelNext]_intelVars =>
          [\A a \in Analysts :
              asking'[a].over /\ asking'[a].fresh /\ ~asking[a].over =>
                  /\ Len(asking'[a].said) >= registered
                  /\ AggregatedReputation(results'[a]) =
                         Max({0} \cup {asking'[a].said[p] : p \in {q \in DOMAIN asking'[a].said :
                                                          asking'[a].said[q] \in Opinions}})]_intelVars
  <2> SUFFICES ASSUME IntelInv, IntelNext, NEW a \in Analysts,
                      asking'[a].over, asking'[a].fresh, ~asking[a].over
               PROVE  /\ Len(asking'[a].said) >= registered
                      /\ AggregatedReputation(results'[a]) =
                             Max({0} \cup {asking'[a].said[p] : p \in {q \in DOMAIN asking'[a].said :
                                                          asking'[a].said[q] \in Opinions}})
    OBVIOUS
  <2> DEFINE told == {asking'[a].said[p] : p \in {q \in DOMAIN asking'[a].said :
                                                asking'[a].said[q] \in Opinions}}
  <2>1. PICK ending \in Endings : ProviderEnds(a, ending)
    <3>1. ASSUME NEW b \in Analysts, NEW i \in Indicators, LookupCached(b, i) \/ LookupMissed(b, i)
          PROVE  FALSE
      BY <3>1 DEF LookupCached, LookupMissed, IntelInv, IntelTyped
    <3>2. ASSUME NEW b \in Analysts, NEW ending \in Endings, ProviderEnds(b, ending), b # a
          PROVE  FALSE
      BY <3>2, ProviderTells
    <3> QED
      BY <3>1, <3>2 DEF IntelNext, RegisterProvider
  <2>2. /\ asking'[a].over = (Len(asking[a].said) + 1 >= registered)
        /\ Len(asking'[a].said) = Len(asking[a].said) + 1
        /\ asking' \in [Analysts -> Asked] /\ results' \in [Analysts -> Seq(Opinions)]
        /\ \A o \in Opinions : Has(results'[a], o) <=> Has(asking'[a].said, o)
    BY <2>1, ProviderTells
  <2>3. asking'[a].said \in Seq(Endings) /\ results'[a] \in Seq(Opinions)
    BY <2>2 DEF Asked
  <2>4. \A o \in Opinions : Has(results'[a], o) <=> o \in told
    BY <2>2, <2>3 DEF Has
  <2>5. told \in SUBSET Opinions
    OBVIOUS
  <2> HIDE DEF told
  <2>6. AggregatedReputation(results'[a]) = Max({0} \cup told)
    BY <2>3, <2>4, <2>5, StrongestIsMax
  <2> QED
    BY <2>2, <2>6 DEF told
<1> QED
  BY <1>1, IntelInvariant, PTL DEF IntelSpec, StrongestIsTold
-----------------------------------------------------------------------------
(* Incidents *)

(* A timeline at the minute `today`: what is not dated ahead is not in the   *)
(* future, a change of status never is dated ahead, and only an entry that *)
(* is dated ahead stands before an earlier one.                            *)
DatedByNow(s, today) ==
    \A n \in 1..Len(s) : /\ ~s[n].ahead => s[n].at <= today
                         /\ s[n].kind \in Statuses => ~s[n].ahead

InPlace(s, today) ==
    /\ DatedByNow(s, today)
    /\ \A m, n \in 1..Len(s) : m < n /\ s[m].at > s[n].at => s[m].ahead

(* Entry number n of s is the last change of status. *)
LastStatus(s, n) ==
    /\ n \in 1..Len(s) /\ s[n].kind \in Statuses
    /\ \A k \in 1..Len(s) : k > n => s[k].kind \notin Statuses

(* What an incident x tells at the minute `today`. *)
Tells(x, today) ==
    /\ x.detectedAt <= today
    /\ InPlace(x.timeline, today)
    /\ \E n \in 1..Len(x.timeline) :
          /\ LastStatus(x.timeline, n)
          /\ x.timeline[n].kind = x.status
          /\ x.status = "closed" => /\ x.closedAt = x.timeline[n].at
                                    /\ x.timeToResolve = x.closedAt - x.detectedAt

IncidentInv ==
    /\ minute \in 0..MaxMinutes
    /\ incidents \in [IncidentIds -> IncidentRecords \cup {Never}]
    /\ \A i \in IncidentIds : Known(i) => Tells(incidents[i], minute)

LEMMA AppendEntries ==
    ASSUME NEW s \in Seq(Entries), NEW e \in Entries
    PROVE  /\ Append(s, e) \in Seq(Entries) /\ Len(Append(s, e)) = Len(s) + 1
           /\ \A n \in 1..Len(s) : Append(s, e)[n] = s[n] /\ s[n] \in Entries
           /\ Append(s, e)[Len(s) + 1] = e
           /\ Len(s) \in Nat
<1>1. Len(s) \in Nat /\ \A n \in 1..Len(s) : s[n] \in Entries
  OBVIOUS
<1> QED
  BY <1>1, AppendProperties

(* What is appended now is in its place.                                   *)
LEMMA AppendedNow ==
    ASSUME NEW today \in 0..MaxMinutes, NEW s \in Seq(Entries), InPlace(s, today),
           NEW e \in Entries, e.at = today, ~e.ahead
    PROVE  /\ InPlace(Append(s, e), today)
           /\ e.kind \in Statuses => LastStatus(Append(s, e), Len(s) + 1)
           /\ e.kind \notin Statuses =>
                  \A n \in 1..Len(s) : LastStatus(s, n) => LastStatus(Append(s, e), n)
<1> DEFINE t == Append(s, e)
<1>1. /\ Len(t) = Len(s) + 1 /\ Len(s) \in Nat /\ t[Len(s) + 1] = e
      /\ \A n \in 1..Len(s) : t[n] = s[n] /\ s[n] \in Entries
  BY AppendEntries
<1> HIDE DEF t
<1>2. \A n \in 1..Len(t) : n \in 1..Len(s) \/ n = Len(s) + 1
  BY <1>1
<1>3. DatedByNow(t, today)
  BY <1>1, <1>2 DEF InPlace, DatedByNow
<1>4. ASSUME NEW m \in 1..Len(t), NEW n \in 1..Len(t), m < n, t[m].at > t[n].at
      PROVE  t[m].ahead
  <2>1. m \in 1..Len(s) /\ t[m] = s[m] /\ s[m].at \in Nat /\ s[m].ahead \in BOOLEAN
    BY <1>1, <1>4 DEF Entries
  <2>2. CASE n \in 1..Len(s)
    BY <1>1, <1>4, <2>1, <2>2 DEF InPlace
  <2>3. CASE n = Len(s) + 1
    BY <1>1, <1>3, <1>4, <2>1, <2>3 DEF InPlace, DatedByNow
  <2> QED
    BY <1>2, <2>2, <2>3
<1>5. InPlace(t, today)
  BY <1>3, <1>4 DEF InPlace
<1>6. e.kind \in Statuses => LastStatus(t, Len(s) + 1)
  BY <1>1, <1>2 DEF LastStatus
<1>7. ASSUME e.kind \notin Statuses, NEW n \in 1..Len(s), LastStatus(s, n)
      PROVE  LastStatus(t, n)
  BY <1>1, <1>2, <1>7 DEF LastStatus
<1> QED
  BY <1>5, <1>6, <1>7 DEF t

ChangesInOrder(s) ==
    \A m, n \in 1..Len(s) :
        m < n /\ s[m].kind \in Statuses /\ s[n].kind \in Statuses => s[m].at <= s[n].at

Permutes(p, n) == /\ p \in [1..n -> 1..n]
                  /\ \A k \in 1..n : \E m \in 1..n : p[m] = k

Reordered(s, p) == [n \in 1..Len(s) |-> s[p[n]]]

(* Sorting puts all in their places, and the changes of status, which were *)
(* in the order of time, stay in the order they were in.                   *)
LEMMA SortedInPlace ==
    ASSUME NEW today \in 0..MaxMinutes, NEW u \in Seq(Entries),
           DatedByNow(u, today), ChangesInOrder(u), NEW p, Permutes(p, Len(u)), Sorts(p, u),
           NEW l \in 1..Len(u), LastStatus(u, l)
    PROVE  /\ Reordered(u, p) \in Seq(Entries) /\ InPlace(Reordered(u, p), today)
           /\ \E k \in 1..Len(Reordered(u, p)) :
                  LastStatus(Reordered(u, p), k) /\ Reordered(u, p)[k] = u[l]
<1> DEFINE t == Reordered(u, p)
<1>1. Len(u) \in Nat /\ DOMAIN u = 1..Len(u) /\ \A n \in 1..Len(u) : u[n] \in Entries
  OBVIOUS
<1>2. /\ t \in Seq(Entries) /\ Len(t) = Len(u)
      /\ \A n \in 1..Len(u) : t[n] = u[p[n]] /\ p[n] \in 1..Len(u)
  <2>1. \A n \in 1..Len(u) : p[n] \in 1..Len(u) /\ u[p[n]] \in Entries
    BY <1>1 DEF Permutes
  <2>2. t \in [1..Len(u) -> Entries] /\ \A n \in 1..Len(u) : t[n] = u[p[n]]
    BY <2>1 DEF Reordered
  <2>3. \A f \in [1..Len(u) -> Entries] : f \in Seq(Entries) /\ Len(f) = Len(u)
    BY <1>1
  <2> QED
    BY <2>1, <2>2, <2>3, Zenon
<1> HIDE DEF t
<1>3. \A n \in 1..Len(u) : u[n].at \in Nat /\ p[n] \in Nat
  <2>1. \A n \in 1..Len(u) : u[n].at \in 0..MaxMinutes
    BY <1>1 DEF Entries
  <2>2. \A n \in 1..Len(u) : p[n] \in Nat
    BY <1>1, <1>2
  <2>3. \A k \in 0..MaxMinutes : k \in Nat
    BY IncidentAssumption
  <2> QED
    BY <2>1, <2>2, <2>3, Zenon
<1>4. \A m, n \in 1..Len(u) : m < n => \/ u[p[m]].at < u[p[n]].at
                                       \/ u[p[m]].at = u[p[n]].at /\ p[m] < p[n]
  BY <1>1 DEF Sorts
<1>5. InPlace(t, today)
  <2>1. DatedByNow(t, today)
    BY <1>2 DEF DatedByNow
  <2>2. \A m, n \in 1..Len(t) : m < n => ~(t[m].at > t[n].at)
    <3> SUFFICES ASSUME NEW m \in 1..Len(t), NEW n \in 1..Len(t), m < n
                 PROVE  ~(t[m].at > t[n].at)
      OBVIOUS
    <3>1. t[m].at \in Nat /\ t[n].at \in Nat
      BY <1>2, <1>3, Zenon
    <3>2. t[m].at < t[n].at \/ t[m].at = t[n].at
      BY <1>2, <1>4
    <3> QED
      BY <3>1, <3>2
  <2> QED
    BY <2>1, <2>2 DEF InPlace
<1>6. PICK k \in 1..Len(u) : p[k] = l
  BY DEF Permutes
<1>7. ASSUME NEW n \in 1..Len(u), n > k PROVE u[p[n]].kind \notin Statuses
  <2> SUFFICES ASSUME u[p[n]].kind \in Statuses PROVE FALSE
    OBVIOUS
  <2>1. p[n] \in 1..Len(u) /\ u[l].kind \in Statuses
    BY <1>2 DEF LastStatus
  <2>2. ~(p[n] > l)
    BY <2>1 DEF LastStatus
  <2>3. \/ u[l].at < u[p[n]].at
        \/ u[l].at = u[p[n]].at /\ l < p[n]
    BY <1>4, <1>6, <1>7
  <2>4. p[n] \in Nat /\ l \in Nat /\ u[l].at \in Nat /\ u[p[n]].at \in Nat
    BY <1>1, <1>3, <2>1
  <2>5. u[l].at < u[p[n]].at /\ (p[n] < l \/ p[n] = l)
    <3>1. CASE u[l].at < u[p[n]].at
      BY <2>2, <2>4, <3>1
    <3>2. CASE l < p[n]
      BY <2>2, <2>4, <3>2
    <3> QED
      BY <2>3, <3>1, <3>2
  <2>6. p[n] < l
    BY <2>4, <2>5
  <2>7. u[p[n]].at <= u[l].at
    BY <2>1, <2>6 DEF ChangesInOrder
  <2> QED
    BY <2>4, <2>5, <2>7
<1>8. LastStatus(t, k) /\ t[k] = u[l]
  BY <1>2, <1>6, <1>7 DEF LastStatus
<1> QED
  BY <1>2, <1>5, <1>8 DEF t

(* The incident after a call, whose timeline is s, tells the truth of it.  *)
LEMMA StillTells ==
    ASSUME IncidentInv, NEW i \in IncidentIds, Known(i), NEW y \in IncidentRecords,
           incidents' = [incidents EXCEPT ![i] = y], minute' = minute,
           Tells(y, minute)
    PROVE  IncidentInv'
<1>1. incidents' \in [IncidentIds -> IncidentRecords \cup {Never}]
  BY DEF IncidentInv
<1>2. ASSUME NEW j \in IncidentIds, Known(j)' PROVE Tells(incidents'[j], minute)
  <2>1. CASE j = i
    BY <2>1 DEF IncidentInv
  <2>2. CASE j # i
    <3>1. incidents'[j] = incidents[j]
      BY <2>2 DEF IncidentInv
    <3> QED
      BY <1>2, <3>1 DEF IncidentInv, Known
  <2> QED
    BY <2>1, <2>2
<1> QED
  BY <1>1, <1>2 DEF IncidentInv

LEMMA EntryMade ==
    ASSUME minute \in 0..MaxMinutes, NEW kind \in Kinds, NEW m \in 0..MaxMinutes
    PROVE  /\ Entry(kind, m) \in Entries /\ Entry(kind, m).kind = kind
           /\ Entry(kind, m).at = m /\ Entry(kind, m).ahead = (m > minute)
<1>1. (m > minute) \in BOOLEAN
  OBVIOUS
<1> QED
  BY <1>1 DEF Entry, Entries

(* The fields of an incident. *)
LEMMA IncidentFields ==
    ASSUME NEW x \in IncidentRecords
    PROVE  /\ x.status \in Statuses /\ x.detectedAt \in 0..MaxMinutes
           /\ x.containedAt \in Minutes /\ x.closedAt \in Minutes
           /\ x.timeToContain \in Minutes /\ x.timeToResolve \in Minutes
           /\ x.timeline \in Seq(Entries)
BY DEF IncidentRecords

LEMMA StatusUpdated ==
    ASSUME IncidentInv, NEW i \in IncidentIds, NEW to \in Statuses, UpdateStatus(i, to)
    PROVE  IncidentInv'
<1> DEFINE x == incidents[i]
           e == Entry(to, minute)
           y == [Dated(x, to) EXCEPT !.status = to, !.timeline = Append(@, e)]
<1>1. /\ x \in IncidentRecords /\ minute \in 0..MaxMinutes /\ Tells(x, minute) /\ Known(i)
      /\ incidents' = [incidents EXCEPT ![i] = y] /\ minute' = minute
  BY DEF UpdateStatus, HasRoom, Becomes, IncidentInv, Known
<1>2. /\ x.status \in Statuses /\ x.detectedAt \in 0..MaxMinutes
      /\ x.containedAt \in Minutes /\ x.closedAt \in Minutes
      /\ x.timeToContain \in Minutes /\ x.timeToResolve \in Minutes
      /\ x.timeline \in Seq(Entries)
  BY <1>1, IncidentFields
<1>3. e \in Entries /\ e.kind = to /\ e.at = minute /\ ~e.ahead
  <2>1. to \in Kinds /\ ~(minute > minute)
    BY <1>1 DEF Kinds
  <2> QED
    BY <1>1, <2>1, EntryMade
<1>4. /\ Append(x.timeline, e) \in Seq(Entries)
      /\ Len(Append(x.timeline, e)) = Len(x.timeline) + 1 /\ Len(x.timeline) \in Nat
      /\ Append(x.timeline, e)[Len(x.timeline) + 1] = e
  BY <1>2, <1>3, AppendEntries
<1>5. /\ InPlace(Append(x.timeline, e), minute)
      /\ LastStatus(Append(x.timeline, e), Len(x.timeline) + 1)
  BY <1>1, <1>2, <1>3, AppendedNow DEF Tells
<1>6. x.detectedAt <= minute /\ minute - x.detectedAt \in Minutes /\ minute \in Minutes
  BY <1>1, <1>2, IncidentAssumption DEF Tells, Minutes
<1>7. /\ y \in IncidentRecords /\ y.status = to /\ y.timeline = Append(x.timeline, e)
      /\ y.detectedAt = x.detectedAt
      /\ to = "closed" => y.closedAt = minute /\ y.timeToResolve = minute - x.detectedAt
  <2>1. CASE to = "containing"
    BY <1>1, <1>2, <1>4, <1>6, <2>1 DEF Dated, IncidentRecords
  <2>2. CASE to = "closed"
    BY <1>1, <1>2, <1>4, <1>6, <2>2 DEF Dated, IncidentRecords
  <2>3. CASE to \notin {"containing", "closed"}
    BY <1>1, <1>2, <1>4, <1>6, <2>3 DEF Dated, IncidentRecords
  <2> QED
    BY <2>1, <2>2, <2>3
<1> HIDE DEF y
<1>8. Tells(y, minute)
  <2>1. Len(x.timeline) + 1 \in 1..Len(y.timeline)
    BY <1>4, <1>7
  <2> QED
    BY <1>3, <1>4, <1>5, <1>6, <1>7, <2>1 DEF Tells
<1> QED
  BY <1>1, <1>7, <1>8, StillTells

(* A call that leaves the status: what matters is the timeline s. *)
LEMMA OtherEntries ==
    ASSUME IncidentInv, NEW i \in IncidentIds, Known(i), NEW s \in Seq(Entries),
           InPlace(s, minute),
           \A n \in 1..Len(incidents[i].timeline) : LastStatus(incidents[i].timeline, n) =>
               \E k \in 1..Len(s) : LastStatus(s, k) /\ s[k] = incidents[i].timeline[n],
           incidents' = [incidents EXCEPT ![i] = [incidents[i] EXCEPT !.timeline = s]],
           minute' = minute
    PROVE  IncidentInv'
<1> DEFINE x == incidents[i]
           y == [x EXCEPT !.timeline = s]
<1>1. x \in IncidentRecords /\ Tells(x, minute)
  BY DEF IncidentInv, Known
<1>2. /\ y \in IncidentRecords /\ y.timeline = s /\ y.status = x.status
      /\ y.detectedAt = x.detectedAt /\ y.closedAt = x.closedAt /\ y.timeToResolve = x.timeToResolve
  BY <1>1 DEF IncidentRecords
<1> HIDE DEF y
<1>3. PICK n \in 1..Len(x.timeline) :
          /\ LastStatus(x.timeline, n)
          /\ x.timeline[n].kind = x.status
          /\ x.status = "closed" => /\ x.closedAt = x.timeline[n].at
                                    /\ x.timeToResolve = x.closedAt - x.detectedAt
  BY <1>1 DEF Tells
<1>4. PICK k \in 1..Len(s) : LastStatus(s, k) /\ s[k] = x.timeline[n]
  BY <1>3
<1>5. Tells(y, minute)
  BY <1>1, <1>2, <1>3, <1>4 DEF Tells
<1> QED
  BY <1>2, <1>5, StillTells DEF y
(* add_timeline_entry(): however the entries lie, and whatever the sort    *)
(* does to those that were dated ahead, the last change of status is last. *)
OneMore(u, s, e) == /\ Len(u) = Len(s) + 1 /\ u[Len(s) + 1] = e
                    /\ \A k \in 1..Len(s) : u[k] = s[k]

LEMMA AddedInPlace ==
    ASSUME NEW today \in 0..MaxMinutes, NEW s \in Seq(Entries), InPlace(s, today),
           NEW e \in Entries, e.kind = "entry", ~e.ahead => e.at <= today,
           NEW u \in Seq(Entries), OneMore(u, s, e),
           NEW p, Permutes(p, Len(u)), Sorts(p, u),
           NEW n \in 1..Len(s), LastStatus(s, n)
    PROVE  /\ Reordered(u, p) \in Seq(Entries) /\ InPlace(Reordered(u, p), today)
           /\ \E k \in 1..Len(Reordered(u, p)) :
                  LastStatus(Reordered(u, p), k) /\ Reordered(u, p)[k] = s[n]
<1>1. /\ Len(u) = Len(s) + 1 /\ Len(s) \in Nat /\ u[Len(s) + 1] = e
      /\ \A k \in 1..Len(s) : u[k] = s[k] /\ s[k] \in Entries
  BY DEF OneMore
<1>2. \A k \in 1..Len(u) : (k \in 1..Len(s) /\ u[k] = s[k]) \/ (k = Len(s) + 1 /\ u[k] = e)
  BY <1>1
<1>3. e.kind \notin Statuses
  BY DEF Statuses
<1>4. DatedByNow(u, today)
  <2>1. DatedByNow(s, today)
    BY DEF InPlace
  <2>2. ASSUME NEW k \in 1..Len(u)
        PROVE  /\ ~u[k].ahead => u[k].at <= today
               /\ u[k].kind \in Statuses => ~u[k].ahead
    <3>1. CASE k \in 1..Len(s) /\ u[k] = s[k]
      BY <2>1, <3>1 DEF DatedByNow
    <3>2. CASE u[k] = e
      BY <1>3, <3>2
    <3> QED
      BY <1>2, <3>1, <3>2
  <2> QED
    BY <2>2 DEF DatedByNow
<1>5. ChangesInOrder(u)
  <2> SUFFICES ASSUME NEW l \in 1..Len(u), NEW m \in 1..Len(u), l < m,
                      u[l].kind \in Statuses, u[m].kind \in Statuses
               PROVE  u[l].at <= u[m].at
    BY DEF ChangesInOrder
  <2>1. l \in 1..Len(s) /\ m \in 1..Len(s) /\ u[l] = s[l] /\ u[m] = s[m]
    BY <1>2, <1>3
  <2>2. s[l].at \in 0..MaxMinutes /\ s[m].at \in 0..MaxMinutes
    BY <1>1, <2>1 DEF Entries
  <2>3. ~s[l].ahead
    BY <2>1 DEF InPlace, DatedByNow
  <2>4. ~(s[l].at > s[m].at)
    BY <2>1, <2>3 DEF InPlace
  <2> QED
    BY <2>1, <2>2, <2>4
<1>6. n \in 1..Len(u) /\ LastStatus(u, n) /\ u[n] = s[n]
  <2>1. n \in 1..Len(u) /\ u[n] = s[n] /\ u[n].kind \in Statuses
    BY <1>1 DEF LastStatus
  <2>2. ASSUME NEW k \in 1..Len(u), k > n PROVE u[k].kind \notin Statuses
    BY <1>2, <1>3, <2>2 DEF LastStatus
  <2> QED
    BY <2>1, <2>2 DEF LastStatus
<1>7. /\ Reordered(u, p) \in Seq(Entries) /\ InPlace(Reordered(u, p), today)
      /\ \E k \in 1..Len(Reordered(u, p)) :
             LastStatus(Reordered(u, p), k) /\ Reordered(u, p)[k] = u[n]
  BY <1>4, <1>5, <1>6, SortedInPlace
<1> QED
  BY <1>6, <1>7

LEMMA EntryAdded ==
    ASSUME IncidentInv, NEW i \in IncidentIds, NEW moment \in 0..MaxMinutes,
           AddTimelineEntry(i, moment)
    PROVE  IncidentInv'
<1> DEFINE x == incidents[i]
           s == x.timeline
           e == Entry("entry", moment)
           u == Append(s, e)
<1>1. /\ x \in IncidentRecords /\ minute \in 0..MaxMinutes /\ Tells(x, minute) /\ Known(i)
      /\ minute' = minute
  BY DEF AddTimelineEntry, HasRoom, Becomes, IncidentInv, Known
<1>2. s \in Seq(Entries) /\ InPlace(s, minute)
  BY <1>1, IncidentFields DEF Tells
<1>3. e \in Entries /\ e.kind = "entry" /\ (~e.ahead => e.at <= minute)
  <2>1. "entry" \in Kinds
    BY DEF Kinds
  <2>2. e \in Entries /\ e.kind = "entry" /\ e.at = moment /\ e.ahead = (moment > minute)
    BY <1>1, <2>1, EntryMade
  <2>3. ~(moment > minute) => moment <= minute
    BY <1>1
  <2> QED
    BY <2>2, <2>3
<1>4. PICK p : /\ Permutes(p, Len(u)) /\ Sorts(p, u)
               /\ incidents' = [incidents EXCEPT ![i] =
                                    [x EXCEPT !.timeline = Reordered(u, p)]]
  BY DEF AddTimelineEntry, Becomes, Permutes, Reordered
<1>8. u \in Seq(Entries) /\ OneMore(u, s, e)
  BY <1>2, <1>3, AppendEntries DEF OneMore
<1> DEFINE t == Reordered(u, p)
<1> HIDE DEF s, e, u
<1>5. ASSUME NEW n \in 1..Len(s), LastStatus(s, n)
      PROVE  /\ t \in Seq(Entries) /\ InPlace(t, minute)
             /\ \E k \in 1..Len(t) : LastStatus(t, k) /\ t[k] = s[n]
  BY <1>1, <1>2, <1>3, <1>4, <1>5, <1>8, AddedInPlace
<1>6. \E n \in 1..Len(s) : LastStatus(s, n)
  BY <1>1 DEF Tells, s
<1>7. /\ t \in Seq(Entries) /\ InPlace(t, minute)
      /\ \A n \in 1..Len(s) : LastStatus(s, n) =>
             \E k \in 1..Len(t) : LastStatus(t, k) /\ t[k] = s[n]
  BY <1>5, <1>6
<1> QED
  BY <1>1, <1>4, <1>7, OtherEntries DEF s

LEMMA IncidentAssigned ==
    ASSUME IncidentInv, NEW i \in IncidentIds, AssignIncident(i)
    PROVE  IncidentInv'
<1> DEFINE s == incidents[i].timeline
           e == Entry("assignment", minute)
<1>1. /\ incidents[i] \in IncidentRecords /\ minute \in 0..MaxMinutes /\ Known(i)
      /\ Tells(incidents[i], minute) /\ minute' = minute
      /\ incidents' = [incidents EXCEPT ![i] = [incidents[i] EXCEPT !.timeline = Append(s, e)]]
  BY DEF AssignIncident, HasRoom, Becomes, IncidentInv, Known
<1>2. s \in Seq(Entries) /\ InPlace(s, minute)
  BY <1>1, IncidentFields DEF Tells
<1>3. e \in Entries /\ e.kind \notin Statuses /\ e.at = minute /\ ~e.ahead
  <2>1. "assignment" \in Kinds \ Statuses /\ ~(minute > minute)
    BY <1>1 DEF Kinds, Statuses
  <2> QED
    BY <1>1, <2>1, EntryMade
<1>4. /\ InPlace(Append(s, e), minute)
      /\ \A n \in 1..Len(s) : LastStatus(s, n) => LastStatus(Append(s, e), n)
  BY <1>1, <1>2, <1>3, AppendedNow
<1>5. /\ Append(s, e) \in Seq(Entries) /\ Len(Append(s, e)) = Len(s) + 1 /\ Len(s) \in Nat
      /\ \A n \in 1..Len(s) : Append(s, e)[n] = s[n]
  BY <1>2, <1>3, AppendEntries
<1>6. \A n \in 1..Len(s) : LastStatus(s, n) =>
          \E k \in 1..Len(Append(s, e)) : LastStatus(Append(s, e), k) /\ Append(s, e)[k] = s[n]
  BY <1>4, <1>5
<1> QED
  BY <1>1, <1>4, <1>5, <1>6, OtherEntries

LEMMA IncidentCreated ==
    ASSUME IncidentInv, NEW i \in IncidentIds, CreateIncident(i)
    PROVE  IncidentInv'
<1> DEFINE e == Entry("new", minute)
           y == [status |-> "new", detectedAt |-> minute,
                 containedAt |-> Never, closedAt |-> Never,
                 timeToContain |-> Never, timeToResolve |-> Never,
                 timeline |-> <<e>>]
<1>1. incidents' = [incidents EXCEPT ![i] = y] /\ minute' = minute /\ minute \in 0..MaxMinutes
  BY DEF CreateIncident, Becomes, IncidentInv
<1>2. e \in Entries /\ e.kind = "new" /\ e.at = minute /\ ~e.ahead
  <2>1. "new" \in Kinds /\ ~(minute > minute)
    BY <1>1 DEF Kinds, Statuses
  <2> QED
    BY <1>1, <2>1, EntryMade
<1> HIDE DEF e
<1>3. /\ <<e>> \in Seq(Entries) /\ Len(<<e>>) = 1 /\ <<e>>[1] = e
  BY <1>2
<1>4. "new" \in Statuses /\ "new" # "closed" /\ Never \in Minutes
  BY DEF Statuses, Minutes
<1>5. /\ y \in IncidentRecords /\ y.timeline = <<e>> /\ y.detectedAt = minute /\ y.status = "new"
  BY <1>1, <1>3, <1>4 DEF IncidentRecords
<1> HIDE DEF y
<1>6. InPlace(<<e>>, minute) /\ LastStatus(<<e>>, 1)
  BY <1>1, <1>2, <1>3, <1>4 DEF InPlace, DatedByNow, LastStatus
<1>7. Tells(y, minute)
  BY <1>1, <1>2, <1>3, <1>4, <1>5, <1>6 DEF Tells
<1>8. incidents' \in [IncidentIds -> IncidentRecords \cup {Never}]
  BY <1>1, <1>5 DEF IncidentInv
<1>9. ASSUME NEW j \in IncidentIds, Known(j)' PROVE Tells(incidents'[j], minute)
  BY <1>1, <1>7, <1>9 DEF IncidentInv, Known
<1> QED
  BY <1>1, <1>8, <1>9 DEF IncidentInv

LEMMA MinuteTells ==
    ASSUME IncidentInv, MinutePasses
    PROVE  IncidentInv'
<1>1. /\ minute \in 0..MaxMinutes /\ minute' = minute + 1 /\ minute' \in 0..MaxMinutes
      /\ incidents' = incidents
  BY IncidentAssumption DEF IncidentInv, MinutePasses
<1>2. ASSUME NEW i \in IncidentIds, Known(i) PROVE Tells(incidents[i], minute')
  <2> DEFINE x == incidents[i]
             s == x.timeline
  <2>1. x \in IncidentRecords /\ Tells(x, minute)
    BY <1>2 DEF IncidentInv, Known
  <2>2. x.detectedAt \in 0..MaxMinutes /\ s \in Seq(Entries)
    BY <2>1, IncidentFields
  <2>3. \A n \in 1..Len(s) : s[n].at \in 0..MaxMinutes
    <3>1. \A n \in 1..Len(s) : s[n] \in Entries
      BY <2>2
    <3> QED
      BY <3>1 DEF Entries
  <2> HIDE DEF s
  <2>4. InPlace(s, minute')
    <3>1. InPlace(s, minute)
      BY <2>1 DEF Tells, s
    <3> QED
      BY <1>1, <2>3, <3>1 DEF InPlace, DatedByNow
  <2> QED
    BY <1>1, <2>1, <2>2, <2>4 DEF Tells, s
<1> QED
  BY <1>1, <1>2 DEF IncidentInv, Known

(* The inductive invariant of the incidents.                               *)
THEOREM IncidentInvariant == IncidentSpec => []IncidentInv
<1>1. IncidentInit => IncidentInv
  BY IncidentAssumption DEF IncidentInit, IncidentInv, Known
<1>2. IncidentInv /\ [IncidentNext]_incidentVars => IncidentInv'
  <2> SUFFICES ASSUME IncidentInv, [IncidentNext]_incidentVars PROVE IncidentInv'
    OBVIOUS
  <2>1. ASSUME NEW i \in IncidentIds, CloseIncident(i) PROVE IncidentInv'
    <3>1. "closed" \in Statuses
      BY DEF Statuses
    <3> QED
      BY <2>1, <3>1, StatusUpdated DEF CloseIncident
  <2>2. CASE UNCHANGED incidentVars
    BY <2>2 DEF incidentVars, IncidentInv, Known
  <2> QED
    BY <2>1, <2>2, StatusUpdated, EntryAdded, IncidentAssigned, IncidentCreated, MinuteTells
       DEF IncidentNext
<1> QED
  BY <1>1, <1>2, PTL DEF IncidentSpec

(* For every number of incidents, entries and minutes, and every sequence  *)
(* of calls: the timeline of an incident says what its record says.        *)
THEOREM TimelinesAreTrue == IncidentSpec => [](IncidentTypeOK /\ TimelineTellsTruth)
<1>1. IncidentInv => IncidentTypeOK /\ TimelineTellsTruth
  <2> SUFFICES ASSUME IncidentInv PROVE IncidentTypeOK /\ TimelineTellsTruth
    OBVIOUS
  <2>1. IncidentTypeOK
    BY DEF IncidentInv, IncidentTypeOK, Known
  <2>2. ASSUME NEW i \in IncidentIds, Known(i)
        PROVE  /\ DOMAIN incidents[i].timeline = 1..Len(incidents[i].timeline)
               /\ Tells(incidents[i], minute)
    BY <2>2, IncidentFields DEF IncidentInv, Known
  <2>3. TimelineTellsTruth
    BY <2>2 DEF TimelineTellsTruth, Tells, InPlace, LastStatus
  <2> QED
    BY <2>1, <2>3
<1> QED
  BY <1>1, IncidentInvariant, PTL
-----------------------------------------------------------------------------
(* All of them side by side *)

(* Each of what the agents call on goes on as if it were alone: a step of  *)
(* the whole is a step of one of them and a stutter of the others.         *)
LEMMA EachAlone ==
    [ServicesNext]_serviceVars =>
        /\ [LockNext]_lockVars /\ [WindowNext]_windowVars /\ [BrokerNext]_brokerVars
        /\ [IntelNext]_intelVars /\ [IncidentNext]_incidentVars
        /\ [EvaluationNext]_evaluationVars /\ [BucketNext]_bucketVars
        /\ [BreakerNext]_breakerVars /\ [CacheNext]_cacheVars /\ [PoolNext]_poolVars
<1>1. ASSUME UNCHANGED serviceVars
      PROVE  UNCHANGED <<lockVars, windowVars, brokerVars, intelVars, incidentVars,
                         evaluationVars, bucketVars, breakerVars, cacheVars, poolVars>>
  BY <1>1 DEF serviceVars
<1> QED BY <1>1 DEF ServicesNext, Only

THEOREM ServicesAreIndependent ==
    ServicesSpec => /\ LockSpec /\ WindowSpec /\ BrokerInit /\ [][BrokerNext]_brokerVars
                    /\ IntelSpec /\ IncidentSpec /\ EvaluationSpec
                    /\ BucketSpec /\ BreakerSpec /\ CacheSpec /\ PoolSpec
<1>1. ServicesInit =>
          /\ LockInit /\ WindowInit /\ BrokerInit /\ IntelInit /\ IncidentInit
          /\ EvaluationInit /\ BucketInit /\ BreakerInit /\ CacheInit /\ PoolInit
  BY DEF ServicesInit
<1> QED BY <1>1, EachAlone, PTL
       DEF ServicesSpec, LockSpec, WindowSpec, IntelSpec, IncidentSpec, EvaluationSpec,
           BucketSpec, BreakerSpec, CacheSpec, PoolSpec

(* What the run checks of all of them holds for every value of the         *)
(* constants: each keeps its types, the cache its size and its order, the  *)
(* pool its owners and the benchmark runs their books.                     *)
THEOREM ServicesKeepConsistent == ServicesSpec => []ServicesConsistent
<1>1. LockInv => LockTypeOK
  BY DEF LockInv
<1>2. WindowInv => WindowTypeOK
  BY DEF WindowInv
<1>3. IntelInv => IntelTypeOK
  <2> SUFFICES ASSUME IntelInv PROVE IntelTypeOK
    OBVIOUS
  <2>1. \A a \in Analysts : asking[a].said \in Seq(Endings)
    BY DEF IntelInv, IntelTyped, Asked
  <2>2. /\ lookups \in Nat /\ Cardinality(InProgress) \in Nat
        /\ lookups + Cardinality(InProgress) <= MaxLookups
    BY FS_CardinalityType DEF IntelInv, IntelTyped, LookupsBounded
  <2>3. lookups \in 0..MaxLookups
    BY <2>2, IntelAssumption
  <2> QED BY <2>1, <2>3 DEF IntelTypeOK, IntelInv, IntelTyped, ProvidersAreLeft
<1>4. PoolInv => PoolTypeOK /\ OneOwner
  BY DEF PoolInv
<1>5. ServicesConsistent <=>
          /\ LockTypeOK /\ WindowTypeOK /\ BrokerTypeOK /\ IntelTypeOK /\ IncidentTypeOK
          /\ EvaluationTypeOK /\ BucketTypeOK /\ BreakerTypeOK /\ CacheTypeOK /\ PoolTypeOK
          /\ SizeBounded /\ EvictsLeastRecentOnMiss /\ OneOwner /\ EachCountedOnce
  BY DEF ServicesConsistent
<1> QED BY <1>1, <1>2, <1>3, <1>4, <1>5, ServicesAreIndependent, LockInvariant, WindowInvariant,
           BrokerTyping, IntelInvariant, TimelinesAreTrue, RecordedOnce, BucketInvariant,
           BreakerCountsStreaks, CacheStaysBounded, EvictionIsLeastRecent,
           ConnectionsHaveOneOwner, PTL
=============================================================================
