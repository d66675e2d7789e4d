------------------------------ MODULE MCKernel ------------------------------
(***************************************************************************)
(* The kernel services beside the scheduler, the journal and the network,  *)
(* for TLC: message passing and shared memory, the driver locks, pipes,    *)
(* the audio mixer, mandatory access control, updates of the system, crash *)
(* dumps and the device manager.  They share no state, so a behaviour      *)
(* drives one of them (focus): the IPC services and access control over    *)
(* their own variables, and the others over x1 .. x10, which stand for the *)
(* variables of that one.                                                  *)
(***************************************************************************)
EXTENDS Ipc, Mac, TLC

VARIABLES focus, x1, x2, x3, x4, x5, x6, x7, x8, x9, x10

xs == <<x1, x2, x3, x4, x5, x6, x7, x8, x9, x10>>
vars == <<focus, ipcVars, macVars, xs>>

----------------------------------------------------------------------------
(* Messages and shared memory: three processes, queues of two, two frames. *)
MCFirst == "msg" :> [running |-> {1, 2}, unused |-> {}] @@ "shm" :> [running |-> {1}, unused |-> {2}]
MCUid == <<0, 2, 3>>

(* Two CPUs, each with a call under way and interrupts.                    *)
L == INSTANCE Locks WITH Cpus <- {1, 2}, Boot <- 1, MaxCalls <- 1,
       locked <- x1, acquires <- x2, contentions <- x3, ifl <- x4, stack <- x5, left <- x6, booting <- x7,
       err <- x8

(* One pipe slot, used twice; a buffer of two bytes, three open files.     *)
P == INSTANCE Pipes WITH Procs <- {1, 2}, MAX_OPEN_FILES <- 3, MAX_PIPES <- 1, PIPE_CAPACITY <- 2,
       MaxPairs <- 2, MaxBytes <- 3, MaxLen <- 2,
       files <- x1, pipes <- x2, call <- x3, pairs <- x4, gone <- x5

(* A stream slot used twice at half the card's rate, periods of one frame. *)
A == INSTANCE Mixer WITH Pids <- {1}, MAX_STREAMS <- 1, PerProc <- 2, Capacity <- 2, Unit <- 2, Steps <- {1},
       BeepFrames <- 1, RING_PERIODS <- 3, PERIOD_FRAMES <- 1, TARGET_AHEAD <- 2, START_PREFILL <- 1,
       MaxGen <- 2, MaxOpens <- 2, MaxFrames <- 2, MaxBeeps <- 1,
       streams <- x1, voices <- x2, dma <- x3, hw <- x4, pump <- x5, held <- x6, hist <- x7, stale <- x8,
       beeps <- x9

(* Profiles: strict, generous, complaining and malformed.                  *)
Line(w, k, ps, it) == [word |-> w, kind |-> k, perms |-> ps, items |-> it]
Strict == <<Line("allow", "syscall", {}, <<<<"exec">>, <<"fork">>>>),
            Line("allow", "file", {"r"}, <<<<"a", "*", "b">>>>),
            Line("allow", "exec", {}, <<<<"?", ".", "e">>>>)>>
Generous == <<Line("mode", "enforce", {}, <<>>), Line("allow", "syscall", {}, <<<<"*">>>>),
              Line("allow", "file", {"r", "w"}, <<<<"*">>>>),
              Line("allow", "net", {"c"}, <<<<"*", "80", "81">>>>), Line("allow", "exec", {}, <<<<"*">>>>)>>
MCTexts == {Strict, Generous, <<Line("mode", "complain", {}, <<>>)>>, <<Line("allow", "file", {"x"}, <<<<"a">>>>)>>}
Req(k, n, o) == [kind |-> k, name |-> n, op |-> o]
MCRequests ==
  {Req("syscall", <<>>, s) : s \in {"fork", "socket", "exit"}} \cup
  {Req("file", <<"A", "b", "a", "b">>, "r"), Req("file", <<"a", "b">>, "w"), Req("file", <<"a", "b", "a">>, "r"),
   Req("net", <<"h", "81">>, "c"), Req("net", <<"h", "82">>, "c"), Req("exec", <<"b", ".", "e">>, "x")}
MCPrograms == {<<"a", ".", "e">>, <<"b", ".", "e">>, <<"l", "o", "n", "g", ".", "e">>}
MCOnDisk == (<<"a">> :> {Strict}) @@ (<<"b">> :> {Generous})
MCSyscalls == {"exec", "fork", "exit", "socket", "write_file", "delete_file", "mac_ctl", "mac_info", "login"}

(* An update package and one whose payload does not match its signature.   *)
Package(b) == [magic |-> TRUE, size |-> 1, payload |-> <<b>>, sig |-> <<1, <<b>>>>]
U == INSTANCE Update WITH Offered <- {Package("u"), [Package("u") EXCEPT !.payload = <<"x">>]},
       TestPkg <- Package("t"), FirstImage <- <<"f">>, MaxAttempts <- 3, MaxCalls <- 2,
       disk <- x1, txn <- x2, mem <- x3, todo <- x4, at <- x5, panel <- x6, nu <- x7, good <- x8, calls <- x9

(* A page fault and a software panic, over a stack of two frames.          *)
Mem == (4 :> <<"r", 8>>) @@ (8 :> <<"s", 6>>)
Fault(v, e, cr2, ebp) == [vec |-> v, err |-> e, cr2 |-> cr2, mem |-> Mem, ebp |-> ebp]
D == INSTANCE Crash WITH Faults <- {Fault(14, {"write"}, TRUE, 4), Fault(0, {}, FALSE, 8)},
       TestFault <- Fault(14, {}, TRUE, 4), MaxFrames <- 3, MaxPanics <- 2,
       region <- x1, disk <- x2, txn <- x3, latest <- x4, exported <- x5, pc <- x6, rep <- x7, app <- x8,
       panics <- x9, found <- x10

(* Two callers over a table that the devices just fill.                    *)
Fn(c, s, p, v) == [class |-> c, sub |-> s, prog |-> p, vendor |-> v]
V == INSTANCE Devman WITH Callers <- {"c1", "c2"}, Pci <- <<Fn(1, 8, 0, "qemu"), Fn(2, 0, 0, "virtio")>>,
       Platform <- <<[driver |-> "keyboard", category |-> 6]>>, Capacity <- 3,
       table <- x1, query <- x2, answer <- x3, mixed <- x4

----------------------------------------------------------------------------
(* The variables from x_n on, which the component driven does not use.     *)
None == <<>>
From10 == <<x10>>
From9 == <<x9, x10>>
From6 == <<x6, x7, x8, x9, x10>>
From5 == <<x5, x6, x7, x8, x9, x10>>
Unused10 == x10 = None
Unused9 == x9 = None /\ Unused10
Unused6 == x6 = None /\ x7 = None /\ x8 = None /\ Unused9
Unused5 == x5 = None /\ Unused6
Unused1 == x1 = None /\ x2 = None /\ x3 = None /\ x4 = None /\ Unused5
NoMac == slots = None /\ frozen = None /\ procs = None /\ profiles = None /\ writes = None
Quiet == IpcInit /\ calls = "msg"      \* the IPC services before any call

Init ==
  \/ focus = "ipc" /\ IpcInit /\ NoMac /\ Unused1
  \/ focus = "mac" /\ Quiet /\ MacInit /\ Unused1
  \/ focus = "locks" /\ L!LkInit /\ Quiet /\ NoMac /\ Unused9
  \/ focus = "pipes" /\ P!PiInit /\ Quiet /\ NoMac /\ Unused6
  \/ focus = "mixer" /\ A!MxInit /\ Quiet /\ NoMac /\ Unused10
  \/ focus = "update" /\ U!UpInit /\ Quiet /\ NoMac /\ Unused10
  \/ focus = "crash" /\ D!CrInit /\ Quiet /\ NoMac
  \/ focus = "devman" /\ V!DmInit /\ Quiet /\ NoMac /\ Unused5

Next ==
  /\ focus' = focus
  /\ \/ focus = "ipc" /\ IpcNext /\ UNCHANGED <<macVars, xs>>
     \/ focus = "mac" /\ MacNext /\ UNCHANGED <<ipcVars, xs>>
     \/ focus = "locks" /\ L!LkNext /\ UNCHANGED <<ipcVars, macVars, From9>>
     \/ focus = "pipes" /\ P!PiNext /\ UNCHANGED <<ipcVars, macVars, From6>>
     \/ focus = "mixer" /\ A!MxNext /\ UNCHANGED <<ipcVars, macVars, From10>>
     \/ focus = "update" /\ U!UpNext /\ UNCHANGED <<ipcVars, macVars, From10>>
     \/ focus = "crash" /\ D!CrNext /\ UNCHANGED <<ipcVars, macVars>>
     \/ focus = "devman" /\ V!DmNext /\ UNCHANGED <<ipcVars, macVars, From5>>

Spec == Init /\ [][Next]_vars

----------------------------------------------------------------------------
\* The properties of Ipc are checked as that module states them.
\* Locks, SpinsEnd: no set of CPUs waits for each other, and none for itself, whatever the
\* lock paths and interrupts that meet (driver_locks.rs, spinlock.rs).
SpinsEnd == focus = "locks" => L!SpinsEnd
\* Pipes, PipeStreams: the bytes read from a pipe are those written to it, in order, across
\* closes, reuse of the slot and calls under way (pipe.rs, syscall.c).
PipeStreams == focus = "pipes" => P!PipeStreams
\* Mixer, HeardAsWritten: the card plays the frames of every stream in order, without gaps,
\* repetitions or stale periods (mixer.rs, pump).
HeardAsWritten == focus = "mixer" => A!HeardAsWritten
=============================================================================
