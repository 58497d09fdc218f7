--------------------------- MODULE ConnectionPool ---------------------------
(***************************************************************************)
(* ConnectionPool of backend/app/performance/__init__.py.  The pool knows  *)
(* the connections it lent only by id(), the address of the object, so a   *)
(* client that drops its connection without release() leaves an id behind, *)
(* and the address may be given to the next connection that is made.       *)
(***************************************************************************)
EXTENDS Integers, Sequences, FiniteSets

CONSTANTS Borrowers,
          Addresses,     \* where an object may live
          NoConn,
          PoolSize        \* max_size

ASSUME ConnectionAssumption == /\ IsFiniteSet(Addresses)
                               /\ NoConn \notin Addresses
                               /\ PoolSize \in Nat

VARIABLES available,     \* _available
          inUse,         \* _in_use
          held           \* the connection a client holds

poolVars == <<available, inUse, held>>

Lent == {held[c] : c \in Borrowers} \ {NoConn}
Idle == {available[i] : i \in 1..Len(available)}

Gets(c, conn) == /\ held[c] = NoConn
                 /\ held' = [held EXCEPT ![c] = conn]
                 /\ inUse' = inUse \cup {conn}

(* acquire() with a connection at hand: the oldest. *)
AcquireIdle(c) == /\ available # << >>
                  /\ Gets(c, Head(available))
                  /\ available' = Tail(available)

SlipChecksLater(c) == /\ available = << >>
                      /\ Cardinality(inUse) <= PoolSize
                      /\ \E conn \in Addresses \ (Lent \cup Idle) : Gets(c, conn)
                      /\ UNCHANGED available

(* acquire() that makes one, at any address that is free. *)
AcquireNew(c) == /\ available = << >>
                 /\ Cardinality(inUse) < PoolSize
                 /\ \E conn \in Addresses \ (Lent \cup Idle) : Gets(c, conn)
                 /\ UNCHANGED available

(* acquire() returning None: the client goes without.                      *)

(* release() of the connection held. *)
ReleaseConnection(c) == /\ held[c] # NoConn
                        /\ held[c] \in inUse
                        /\ inUse' = inUse \ {held[c]}
                        /\ available' = Append(available, held[c])
                        /\ held' = [held EXCEPT ![c] = NoConn]

(* A client goes away without it. *)
Drop(c) == /\ held[c] # NoConn
           /\ held' = [held EXCEPT ![c] = NoConn]
           /\ UNCHANGED <<available, inUse>>

PoolInit == /\ available = << >>
            /\ inUse = {}
            /\ held = [c \in Borrowers |-> NoConn]

PoolNext == \E c \in Borrowers : \/ AcquireIdle(c) \/ AcquireNew(c)
                               \/ ReleaseConnection(c) \/ Drop(c)

PoolSpec == PoolInit /\ [][PoolNext]_poolVars

-----------------------------------------------------------------------------

PoolTypeOK == /\ available \in Seq(Addresses)
              /\ inUse \subseteq Addresses
              /\ held \in [Borrowers -> Addresses \cup {NoConn}]

(* No connection is in two hands, nor lent and idle at once, although ids  *)
(* outlive their objects and come back.                                    *)
OneOwner ==
    /\ \A c, d \in Borrowers : held[c] = held[d] /\ held[c] # NoConn => c = d
    /\ Lent \cap Idle = {}
    /\ \A i, j \in 1..Len(available) : available[i] = available[j] => i = j

(* The connections lent are slots of a bounded pool, as SlotPool promises. *)
Sizes == {S \in SUBSET Borrowers : Cardinality(S) <= PoolSize}
Lending == INSTANCE SlotPool WITH Clients <- Borrowers, Fitting <- Sizes,
                                  holders <- {c \in Borrowers : held[c] # NoConn}
LendingSpec == Lending!Spec
=============================================================================
