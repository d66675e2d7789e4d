-------------------------------- MODULE Proc --------------------------------
(* What the IPC services see of the process table of kernel/task/process.c. *)
CONSTANT Pids       \* process identifiers, positive and never reused
VARIABLE pstate     \* pstate[p]: where p is in its life

\* process_is_live: neither UNUSED nor TERMINATED.
Live(p) == pstate[p] \notin {"unused", "terminated"}
=============================================================================
