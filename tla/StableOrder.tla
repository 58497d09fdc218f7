---------------------------- MODULE StableOrder ----------------------------
(***************************************************************************)
(* What sorted() and list.sort() of Python do, an order by a key in which  *)
(* elements of one key stay as they were, and what a list comprehension    *)
(* with an `if` does.  Both say which place of the list comes where, by    *)
(* how many places come before it, and so can be proved about (ListProofs) *)
(* where SortSeq and SelectSeq are names without a definition.             *)
(***************************************************************************)
EXTENDS Integers, Sequences, FiniteSets, TLC

(* Elements from 1 on, as TLC can tell.                                    *)
IsList(s) == s \in Seq({s[n] : n \in DOMAIN s})

(* `keys` has the key of each of some places of a list.                    *)
Before(keys, m, n) == keys[m] < keys[n] \/ (keys[m] = keys[n] /\ m < n)

InOrder(keys) ==
    [k \in 1..Cardinality(DOMAIN keys) |->
        CHOOSE n \in DOMAIN keys : Cardinality({m \in DOMAIN keys : Before(keys, m, n)}) = k - 1]

At(s, places) == [k \in DOMAIN places |-> s[places[k]]]

(* The places of a set, in the order of the list.                          *)
Kept(s, places) == At(s, InOrder([n \in places |-> 0]))

SortedBy(s, Key(_)) == At(s, InOrder([n \in DOMAIN s |-> Key(s[n])]))

Those(s, Fits(_)) == Kept(s, {n \in DOMAIN s : Fits(s[n])})
=============================================================================
