----------------------------- MODULE MCScheduler -----------------------------
(***************************************************************************)
(* Scheduler with four process slots: 0 the idle task, 1 a second boot     *)
(* process, 2 init, 3 a slot for a child.                                  *)
(***************************************************************************)
EXTENDS Scheduler

MCNoWaits == [p \in 0 .. 3 |-> {}]
(* init waits for the child                                                *)
MCOneWaiter == [MCNoWaits EXCEPT ![2] = {3}]
(* two processes wait for the same child                                   *)
MCTwoWaiters == [MCNoWaits EXCEPT ![1] = {3}, ![2] = {3}]
(* three slots: process 1 waits for its child 2                            *)
MCParentWaits == [p \in 0 .. 2 |-> IF p = 1 THEN {2} ELSE {}]
=============================================================================
