------------------------------ MODULE SlotPool ------------------------------
(***************************************************************************)
(* The abstract promise of a bounded pool of slots: the clients that hold  *)
(* one come and go one at a time, and the set of them always fits.         *)
(***************************************************************************)
CONSTANTS Clients,
          Fitting     \* the sets of clients the pool has room for

VARIABLE holders

Enter(c) == /\ c \notin holders
            /\ holders' = holders \cup {c}
            /\ holders' \in Fitting

Leave(c) == /\ c \in holders
            /\ holders' = holders \ {c}

Init == holders = {}
Next == \E c \in Clients : Enter(c) \/ Leave(c)
Spec == Init /\ [][Next]_holders
=============================================================================
