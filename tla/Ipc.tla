-------------------------------- MODULE Ipc --------------------------------
(***************************************************************************)
(* Processes over the two kernel IPC services: system calls of running     *)
(* processes, fork() and the exit path of kernel/task/process.c, whose     *)
(* hooks release the shared memory, then the inbox, and only then make the *)
(* process TERMINATED, while the other processes keep calling.  `calls'    *)
(* says which of the two services user programs call in a behaviour; the   *)
(* exit and fork hooks of both run in every one.                           *)
(***************************************************************************)
EXTENDS Msg, Shm

CONSTANTS
  First,              \* First[c]: processes running at the start when c is called
  Creators,           \* bound: the processes that create shared memory
  Rights,             \* rights granted, out of {0, READ, RW}
  Lens                \* message lengths and buffer sizes

VARIABLES
  forks,              \* fork() calls under way: <<parent, child>>
  calls               \* the service called, "msg" or "shm"

ipcVars == <<msgVars, shmVars, pstate, forks, calls>>

IpcInit ==
  /\ MsgInit /\ ShmInit
  /\ calls \in DOMAIN First
  /\ pstate = [p \in Pids |-> IF p \in First[calls].running THEN "running"
                             ELSE IF p \in First[calls].unused THEN "unused" ELSE "terminated"]
  /\ forks = {}

\* p executes user code, so it can make a call.
Runs(p) == pstate[p] = "running" /\ \A f \in forks : f[1] # p

MsgCall(p) ==
  \/ \E policy \in Policies : MsgOpen(p, policy) \/ SetPolicy(p, policy)
  \/ MsgClose(p)
  \/ \E q \in Pids, ty \in Types, tag \in Tags, len \in Lens : Send(p, q, ty, tag, len)
  \/ \E n \in Names, ty \in Types, tag \in Tags, len \in Lens : SendName(p, n, ty, tag, len)
  \/ \E from \in Pids \cup {0}, ty \in Types \cup {0}, tag \in Tags \cup {-1}, cap \in Lens :
       Recv(p, from, ty, tag, cap)
  \/ \E n \in Names : Register(p, n) \/ Unregister(p, n)
  \/ \E q \in Pids : Allow(p, q) \/ Deny(p, q)

ShmCall(p) ==
  \/ \E pages \in 1..MaxPages : p \in Creators /\ Create(p, pages)
  \/ \E h \in issued, q \in Pids, rights \in Rights : Grant(p, h, q, rights)
  \/ \E h \in issued, want \in {READ, RW} : Map(p, h, want)
  \/ \E r \in maps : Unmap(p, r)
  \/ \E h \in issued : Destroy(p, h)

Call(p) ==
  /\ Runs(p)
  /\ \/ calls = "msg" /\ MsgCall(p) /\ UNCHANGED shmVars
     \/ calls = "shm" /\ ShmCall(p) /\ UNCHANGED msgVars
  /\ UNCHANGED <<pstate, forks, calls>>

\* fork(): cow_share_address_space copies the page-table entries ...
ForkShare(p, c) ==
  /\ Runs(p) /\ pstate[c] = "unused"
  /\ pstate' = [pstate EXCEPT ![c] = "allocating"]
  /\ forks' = forks \cup {<<p, c>>}
  /\ pt' = [pt EXCEPT ![c] = pt[p]]
  /\ UNCHANGED <<msgVars, obj, maps, totalPages, freeFrames, issued, calls>>

\* ... and rust_shm_fork records them; failing, the child's tables are freed and
\* its slot keeps its state.
ForkRecord(p, c) ==
  /\ <<p, c>> \in forks
  /\ forks' = forks \ {<<p, c>>}
  /\ IF ForkFits(p)
     THEN /\ ShmFork(p, c)
          /\ pstate' = [pstate EXCEPT ![c] = "running"]
          /\ UNCHANGED pt
     ELSE /\ pt' = [pt EXCEPT ![c] = {}]
          /\ UNCHANGED <<obj, maps, totalPages, freeFrames, issued, pstate>>
  /\ UNCHANGED <<msgVars, calls>>

\* process_exit_current: the shared-memory hook, the message hook, TERMINATED.
ExitShm(p) ==
  /\ Runs(p)
  /\ pstate' = [pstate EXCEPT ![p] = "exit_msg"]
  /\ ShmExit(p)
  /\ UNCHANGED <<msgVars, forks, calls>>

ExitMsg(p) ==
  /\ pstate[p] = "exit_msg"
  /\ pstate' = [pstate EXCEPT ![p] = "exit_state"]
  /\ DropProcess(p)
  /\ UNCHANGED <<shmVars, forks, calls>>

Terminate(p) ==
  /\ pstate[p] = "exit_state"
  /\ pstate' = [pstate EXCEPT ![p] = "terminated"]
  /\ UNCHANGED <<msgVars, shmVars, forks, calls>>

IpcNext == \E p \in Pids :
  \/ Call(p)
  \/ \E c \in Pids : ForkShare(p, c) \/ ForkRecord(p, c)
  \/ ExitShm(p) \/ ExitMsg(p) \/ Terminate(p)

IpcSpec == IpcInit /\ [][IpcNext]_ipcVars

---------------------------------------------------------------------------
\* A message accepted by send() is delivered exactly once and, among messages
\* of one sender, type and tag, in the order of arrival, although slots are
\* reused out of order: what was accepted is delivered or still in a slot, and
\* nothing queued is older than what was already received of its kind.
DeliveredOnceInOrder ==
  \A p \in Pids : Open(p) =>
    /\ inbox[p].next_seq = inbox[p].delivered + inbox[p].count
    /\ inbox[p].count = Cardinality(UsedSlots(p))
    /\ \A m \in Queued(p) : m.seq > lastGot[p][Kind(m)]

\* No freed frame stays reachable: every shared page a process can touch is a
\* frame of the live object its mapping record names, with the rights of that
\* record, across revoked grants, destroy, fork and other processes' exits.
MappedFramesOwned ==
  \A p \in Pids : pstate[p] = "running" =>
    /\ \A e \in pt[p] : e.frame \notin freeFrames
    /\ pt[p] = UNION {Entries(r) : r \in MapsOf(p)}

\* A handle never comes to name another object: while it resolves, no later
\* object was created in its slot.
HandleNamesItsObject ==
  \A h \in issued : Resolves(h) => \A k \in issued : k.slot = h.slot => k.made <= h.made

\* Whoever sees a process TERMINATED finds its inbox, its names, its mappings
\* and its objects' handles already gone (the order process_exit_current keeps).
GoneMeansReleased ==
  \A p \in Pids : pstate[p] = "terminated" =>
    /\ ~Open(p) /\ NamesOf(p) = {} /\ MapsOf(p) = {}
    /\ \A s \in Slots : obj[s].in_use /\ obj[s].owner = p => obj[s].dying

---------------------------------------------------------------------------
\* The inductive invariants behind the theorems, and what they need of the
\* constants: pids are positive, and a boot makes fewer objects than there are
\* generations.
ConstantsOK ==
  /\ 0 \notin Pids /\ QueueDepth \in Nat /\ MaxPerSender \in Nat
  /\ NObjects \in Nat /\ MaxPages \in Nat /\ MaxMapsPerProc \in Nat
  /\ IsFiniteSet(Names) /\ MaxNames \in Nat /\ MaxMade \in Nat /\ GenMod \in Nat
  /\ MaxMade < GenMod
ASSUME IpcAssumption == ConstantsOK

Messages ==
  [used : {TRUE}, sender : Pids, sender_uid : {Uid[p] : p \in Pids},
   mtype : Types, tag : Tags, len : Lens, seq : Nat]
Inboxes ==
  [in_use : {TRUE}, policy : Policies, allow : SUBSET Pids, count : Nat, next_seq : Nat,
   delivered : Nat, slots : [1..QueueDepth -> {Free} \cup Messages]]

\* What holds of an open inbox b and of `got', the arrival numbers last taken
\* from it: arrival numbers are distinct, below the counter, and above the last
\* one received of their kind.
InboxOk(b, got) ==
  /\ b.next_seq = b.delivered + b.count
  /\ b.count = Cardinality(Used(b))
  /\ \A i \in Used(b) : b.slots[i].seq < b.next_seq /\ b.slots[i].seq > got[Kind(b.slots[i])]
  /\ \A i, j \in Used(b) : b.slots[i].seq = b.slots[j].seq => i = j
  /\ \A k \in Kinds : got[k] < b.next_seq
  /\ \A p \in Pids : Cardinality(HeldIn(b, p)) <= MaxPerSender

MsgInv ==
  /\ inbox \in [Pids -> {NoInbox} \cup Inboxes]
  /\ service \in [Names -> Pids \cup {0}]
  /\ lastGot \in [Pids -> [Kinds -> Int]]
  /\ \A p \in Pids : Open(p) => InboxOk(inbox[p], lastGot[p])
  /\ \A n \in Names : service[n] # 0 => Open(service[n])
  /\ \A p \in Pids : Cardinality(NamesOf(p)) <= MaxNames

\* Shared memory.
Objects ==
  [in_use : BOOLEAN, dying : BOOLEAN, gen : Nat, owner : Pids \cup {0},
   frames : Seq(Frames), map_count : Int, rights : [Pids -> Rights \cup {0}]]
Records == [pid : Pids, addr : Nat, pages : Nat, obj : Slots, rights : {READ, RW}]
ShmTypes ==
  /\ obj \in [Slots -> Objects]
  /\ maps \subseteq Records /\ IsFiniteSet(maps)
  /\ freeFrames \subseteq Frames
  /\ DOMAIN pt = Pids

\* The handles of a slot are numbered in the order of creation, and the object
\* table o holds the number of the last one, or the next, as generation.
Numbered(o) ==
  \A s \in Slots : LET n == Cardinality(Issued(s)) IN
    IF o[s].in_use THEN n > 0 /\ o[s].gen = n
    ELSE o[s].gen = IF n = 0 THEN 0 ELSE NextGen(n)
HandleInv ==
  /\ issued \subseteq [slot : Slots, gen : Nat, made : Nat]
  /\ IsFiniteSet(issued) /\ Cardinality(issued) <= MaxMade
  /\ \A h \in issued : h.gen = h.made + 1 /\ h.gen <= Cardinality(Issued(h.slot))
  /\ Numbered(obj)

\* A frame is free or belongs to one page of one live object.
Owned(o, free) ==
  /\ \A s \in Slots : o[s].in_use => \A i \in DOMAIN o[s].frames : o[s].frames[i] \notin free
  /\ \A s, t \in Slots : o[s].in_use /\ o[t].in_use =>
       \A i \in DOMAIN o[s].frames, j \in DOMAIN o[t].frames :
         o[s].frames[i] = o[t].frames[j] => s = t /\ i = j
  /\ \A f \in Frames \ free :
       \E s \in Slots : o[s].in_use /\ \E i \in DOMAIN o[s].frames : o[s].frames[i] = f
FrameInv == Owned(obj, freeFrames)

\* The records hold live objects, apart from each other in a process, and every
\* object counts its own.
Recorded(o, m) ==
  /\ \A r \in m : o[r.obj].in_use /\ r.pages = Len(o[r.obj].frames)
  /\ \A r, q \in m : r.pid = q.pid /\ r # q =>
       r.addr + r.pages < q.addr \/ q.addr + q.pages < r.addr
  /\ \A s \in Slots : o[s].map_count = Cardinality({r \in m : r.obj = s})
MapInv ==
  /\ Recorded(obj, maps)
  /\ Unreferenced(obj) = {}
  /\ \A p \in Pids : Cardinality(MapsOf(p)) <= MaxMapsPerProc

ShmInv == ShmTypes /\ HandleInv /\ FrameInv /\ MapInv

\* A forking process waits for its child's records; only a running process has
\* mappings, and the exit hooks have run in their order.
LifeInv ==
  /\ pstate \in [Pids -> {"unused", "allocating", "running", "exit_msg", "exit_state", "terminated"}]
  /\ forks \subseteq Pids \X Pids
  /\ \A f \in forks : pstate[f[1]] = "running" /\ pstate[f[2]] = "allocating"
  /\ \A f, g \in forks : f[2] = g[2] => f = g
  /\ \A p \in Pids : pstate[p] # "running" => MapsOf(p) = {}
  /\ \A p \in Pids : pstate[p] \in {"exit_msg", "exit_state", "terminated"} =>
       \A s \in Slots : obj[s].in_use /\ obj[s].owner = p => obj[s].dying
  /\ \A p \in Pids : pstate[p] \in {"exit_state", "terminated"} => ~Open(p)

\* Page tables and records agree, also for a child whose records are to come.
TableInv ==
  /\ \A p \in Pids : pstate[p] = "running" => pt[p] = UNION {Entries(r) : r \in MapsOf(p)}
  /\ \A f \in forks : pt[f[2]] = pt[f[1]]

IpcInv == MsgInv /\ ShmInv /\ LifeInv /\ TableInv
=============================================================================
