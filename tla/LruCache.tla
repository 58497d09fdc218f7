------------------------------ MODULE LruCache ------------------------------
(***************************************************************************)
(* CacheManager of backend/app/performance/__init__.py, "LRU cache manager *)
(* with TTL": a dict of entries and a deque of keys in the order of their  *)
(* use, which set() appends to whether or not the key is there already.    *)
(* The values are left out; of the time to live of an entry only whether   *)
(* it is over.  `recent` is the history the deque should have kept.        *)
(***************************************************************************)
EXTENDS Integers, Sequences, FiniteSets

CONSTANTS Keys,
          CacheSize,      \* max_size
          MaxOrder      \* bound: length of _access_order, which has none

ASSUME CacheAssumption == /\ IsFiniteSet(Keys)
                          /\ CacheSize \in Nat \ {0}
                          /\ MaxOrder \in Nat

VARIABLES live,         \* keys of _cache whose entry has not expired
          stale,        \* keys of _cache whose entry has
          order,        \* _access_order
          recent,       \* history: keys used, each once, latest last
          evicted,      \* history: keys evicted and not set again since
          misused       \* history: a key was set again, or an entry expired

cacheVars == <<live, stale, order, recent, evicted, misused>>

cached == live \cup stale

In(key, s) == \E i \in 1..Len(s) : s[i] = key

(* s without its entry number i *)
Without(s, i) == SubSeq(s, 1, i - 1) \o SubSeq(s, i + 1, Len(s))

(* The use of key that deque.remove(key) takes: the first. *)
FirstUse(key, i) == /\ i \in 1..Len(order)
                    /\ order[i] = key
                    /\ \A j \in 1..(i - 1) : order[j] # key

(* The history of uses: key moves to the end. *)
UsedNow(key) ==
    \/ ~In(key, recent) /\ recent' = Append(recent, key)
    \/ \E i \in 1..Len(recent) : /\ recent[i] = key
                                 /\ recent' = Append(Without(recent, i), key)

-----------------------------------------------------------------------------

SlipKeepsPlace(key) ==
    /\ key \in live
    /\ UsedNow(key)
    /\ UNCHANGED <<live, stale, order, evicted, misused>>

(* get() of an entry that is there. *)
Hit(key) ==
    /\ key \in live
    /\ \E i \in 1..Len(order) : /\ FirstUse(key, i)
                               /\ order' = Append(Without(order, i), key)
    /\ UsedNow(key)
    /\ UNCHANGED <<live, stale, evicted, misused>>

(* get() of one whose time is over: the dict forgets it, the deque does not. *)
GetExpired(key) == /\ key \in stale
                   /\ stale' = stale \ {key}
                   /\ UNCHANGED <<live, order, recent, evicted, misused>>

(* The first n keys of the deque go, as long as the dict is full.          *)
Oldest(n) == {order[i] : i \in 1..n}

Evicts(n) ==
    /\ Cardinality(cached \ Oldest(n)) < CacheSize \/ n = Len(order)
    /\ \A m \in 0..(n - 1) : Cardinality(cached \ Oldest(m)) >= CacheSize

(* set() *)
Put(key) ==
    /\ misused' = (misused \/ key \in cached)
    /\ \E n \in 0..Len(order) :
           /\ Evicts(n)
           /\ Len(order) - n < MaxOrder
           /\ live' = (live \ Oldest(n)) \cup {key}
           /\ stale' = (stale \ Oldest(n)) \ {key}
           /\ order' = Append(SubSeq(order, n + 1, Len(order)), key)
           /\ evicted' = (evicted \cup (cached \cap Oldest(n))) \ {key}
    /\ UsedNow(key)

(* delete() of a key that is there. *)
Delete(key) ==
    /\ key \in cached
    /\ live' = live \ {key}
    /\ stale' = stale \ {key}
    /\ \E i \in 1..Len(order) : FirstUse(key, i) /\ order' = Without(order, i)
    /\ UNCHANGED <<recent, evicted, misused>>

Clear == /\ live' = {} /\ stale' = {} /\ order' = << >>
         /\ UNCHANGED <<recent, evicted, misused>>

Expire(key) == /\ key \in live
               /\ misused' = TRUE
               /\ live' = live \ {key}
               /\ stale' = stale \cup {key}
               /\ UNCHANGED <<order, recent, evicted>>

-----------------------------------------------------------------------------

CacheInit == /\ live = {} /\ stale = {} /\ order = << >>
             /\ recent = << >> /\ evicted = {} /\ misused = FALSE

CacheNext == \/ \E key \in Keys : \/ Hit(key) \/ GetExpired(key) \/ Put(key)
                                  \/ Delete(key) \/ Expire(key)
             \/ Clear

CacheSpec == CacheInit /\ [][CacheNext]_cacheVars

-----------------------------------------------------------------------------

CacheTypeOK == /\ live \subseteq Keys /\ stale \subseteq Keys /\ live \cap stale = {}
               /\ order \in Seq(Keys) /\ recent \in Seq(Keys)
               /\ evicted \subseteq Keys /\ misused \in BOOLEAN

(* The dict never outgrows max_size, although what bounds it is the deque: *)
(* eviction stops when that is empty, full or not.                         *)
SizeBounded == Cardinality(cached) <= CacheSize

(* Every entry can be evicted: its key is in the deque.                    *)
EntriesAreQueued == \A key \in cached : In(key, order)

(* a stands before b in s. *)
Before(s, a, b) == \E i, j \in 1..Len(s) : i < j /\ s[i] = a /\ s[j] = b

(* As long as keys are set only after a miss and no entry expires, what is *)
(* evicted was last used before anything that is kept.                     *)
EvictsLeastRecentOnMiss == misused \/ \A v \in evicted : \A w \in cached : Before(recent, v, w)
=============================================================================
