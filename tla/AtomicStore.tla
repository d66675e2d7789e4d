---------------------------- MODULE AtomicStore -----------------------------
(***************************************************************************)
(* What kernel/rust/journal.rs promises to FAT32: a set of sectors that    *)
(* changes from one transaction to the next in one step, or not at all.    *)
(***************************************************************************)
CONSTANTS Sectors, Values

VARIABLES
    store,    \* what a reboot finds
    working   \* store with the writes of the open transaction

Init == store \in [Sectors -> Values] /\ working = store

Write == /\ \E s \in Sectors, v \in Values : working' = [working EXCEPT ![s] = v]
         /\ UNCHANGED store

Commit == store' = working /\ UNCHANGED working

Lose == working' = store /\ UNCHANGED store

Next == Write \/ Commit \/ Lose

Spec == Init /\ [][Next]_<<store, working>>
=============================================================================
