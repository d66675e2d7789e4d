----------------------------- MODULE IpcProofs -----------------------------
(***************************************************************************)
(* Proofs about module Ipc: fork, the exit path, and the theorems about    *)
(* shared memory, for every number of processes, objects, frames and       *)
(* mapping records.                                                        *)
(***************************************************************************)
EXTENDS MsgProofs, ShmProofs

-----------------------------------------------------------------------------
(* shm_fork(): the child's records are the parent's under its own pid.     *)
Copy(r, c) == [r EXCEPT !.pid = c]

(* A copied record differs in the pid only.                                *)
LEMMA CopyFields ==
    ASSUME NEW r \in Records, NEW c \in Pids
    PROVE  /\ Copy(r, c) \in Records /\ Copy(r, c).pid = c
           /\ Copy(r, c).addr = r.addr /\ Copy(r, c).pages = r.pages
           /\ Copy(r, c).obj = r.obj /\ Copy(r, c).rights = r.rights
BY Zenon DEF Copy, Records

(* Different records of the parent have different copies.                  *)
LEMMA CopyInjective ==
    ASSUME NEW r \in Records, NEW q \in Records, NEW c \in Pids,
           r.pid = q.pid, Copy(r, c) = Copy(q, c)
    PROVE  r = q
<1>1. Copy(r, c).addr = r.addr /\ Copy(r, c).pages = r.pages
  BY CopyFields, Zenon
<1>2. Copy(r, c).obj = r.obj /\ Copy(r, c).rights = r.rights
  BY CopyFields, Zenon
<1>3. Copy(q, c).addr = q.addr /\ Copy(q, c).pages = q.pages
  BY CopyFields, Zenon
<1>4. Copy(q, c).obj = q.obj /\ Copy(q, c).rights = q.rights
  BY CopyFields, Zenon
<1>5. r.addr = q.addr /\ r.pages = q.pages /\ r.obj = q.obj /\ r.rights = q.rights
  BY <1>1, <1>2, <1>3, <1>4, Zenon
<1> QED BY <1>5 DEF Records

(* As many copies as records, of each object.                              *)
LEMMA CopiesCount ==
    ASSUME NEW p \in Pids, NEW c \in Pids, NEW S \in SUBSET Records, IsFiniteSet(S),
           \A r \in S : r.pid = p
    PROVE  IsFiniteSet({Copy(r, c) : r \in S}) /\ Cardinality({Copy(r, c) : r \in S}) = Cardinality(S)
<1> DEFINE T == {Copy(r, c) : r \in S}
           f == [r \in S |-> Copy(r, c)]
<1>1. f \in [S -> T] /\ \A r \in S : f[r] = Copy(r, c)
  BY Zenon
<1>2. \A r, q \in S : f[r] = f[q] => r = q
  <2>1. \A r, q \in S : r \in Records /\ q \in Records /\ r.pid = q.pid
    BY Zenon
  <2> QED BY <1>1, <2>1, CopyInjective, Zenon
<1>3. \A t \in T : \E r \in S : f[r] = t
  BY <1>1, Zenon
<1> HIDE DEF T, f
<1>4. f \in Bijection(S, T)
  BY <1>1, <1>2, <1>3, Zenon DEF Bijection, Injection, Surjection, IsInjective
<1>5. ExistsBijection(S, T)
  BY <1>4, Zenon DEF ExistsBijection
<1>6. IsFiniteSet(T) /\ Cardinality(T) = Cardinality(S)
  BY <1>5, FS_Bijection, Zenon
<1> QED BY <1>6, Zenon DEF T

(* shm_fork(): records and counts grow together, and the child's records   *)
(* lie apart as the parent's do.                                           *)
LEMMA ShmForkInv ==
    ASSUME ConstantsOK, ShmInv, NEW p \in Pids, NEW c \in Pids, p # c, MapsOf(c) = {},
           ShmFork(p, c), pt' = pt
    PROVE  /\ ShmInv'
           /\ \A q \in Pids \ {c} : MapsOf(q)' = MapsOf(q)
           /\ MapsOf(c)' = {Copy(r, c) : r \in MapsOf(p)}
           /\ \A s \in Slots : Alike(obj[s], obj'[s]) /\ obj'[s].dying = obj[s].dying
<1> DEFINE N == {Copy(r, c) : r \in MapsOf(p)}
           mapped(s) == {r \in MapsOf(p) : r.obj = s}
<1>1. /\ obj \in [Slots -> Objects] /\ maps \in SUBSET Records /\ IsFiniteSet(maps)
      /\ DOMAIN pt = Pids /\ freeFrames \in SUBSET Frames
      /\ Recorded(obj, maps) /\ \A q \in maps : q.obj \in Slots
  BY RecordFacts, Zenon DEF ShmInv, ShmTypes, MapInv
<1>2. maps' = maps \cup N /\ UNCHANGED <<freeFrames, issued>>
  BY Zenon DEF ShmFork, Copy
<1>3. /\ MapsOf(p) \in SUBSET maps /\ MapsOf(p) \in SUBSET Records /\ IsFiniteSet(MapsOf(p))
      /\ \A r \in MapsOf(p) : r.pid = p
  BY <1>1, FS_Subset, Zenon DEF MapsOf
<1>4. ASSUME NEW n \in N
      PROVE  /\ n \in Records /\ n.pid = c /\ n \notin maps
             /\ \E r \in MapsOf(p) : /\ n = Copy(r, c) /\ n.addr = r.addr
                                     /\ n.pages = r.pages /\ n.obj = r.obj
  <2>1. PICK r \in MapsOf(p) : n = Copy(r, c)
    BY Zenon
  <2>2. /\ n \in Records /\ n.pid = c /\ n.addr = r.addr /\ n.pages = r.pages /\ n.obj = r.obj
    <3>1. r \in Records
      BY <1>3, Zenon
    <3>2. Copy(r, c) \in Records /\ Copy(r, c).pid = c
      BY <3>1, CopyFields, Zenon
    <3>3. Copy(r, c).addr = r.addr /\ Copy(r, c).pages = r.pages /\ Copy(r, c).obj = r.obj
      BY <3>1, CopyFields, Zenon
    <3> QED BY <2>1, <3>2, <3>3, Zenon
  <2>3. n \notin maps
    BY <2>2, Zenon DEF MapsOf
  <2> QED BY <2>1, <2>2, <2>3, Zenon
<1>5. IsFiniteSet(N) /\ Cardinality(N) = Cardinality(MapsOf(p))
  BY <1>3, CopiesCount, Zenon
<1>6. ASSUME NEW s \in Slots
      PROVE  /\ Cardinality({q \in maps' : q.obj = s})
                  = Cardinality({q \in maps : q.obj = s}) + Cardinality(mapped(s))
             /\ Cardinality(mapped(s)) \in Nat /\ Cardinality({q \in maps : q.obj = s}) \in Nat
             /\ obj[s].map_count = Cardinality({q \in maps : q.obj = s})
             /\ ~obj[s].in_use => mapped(s) = {}
  <2>1. PICK A, B, C : /\ A = {q \in maps : q.obj = s} /\ B = mapped(s)
                       /\ C = {Copy(r, c) : r \in B}
    BY Zenon
  <2>2. {q \in maps' : q.obj = s} = A \cup C
    <3>1. \A q \in N : q.obj = s <=> q \in C
      <4>1. ASSUME NEW r \in MapsOf(p) PROVE Copy(r, c).obj = r.obj
        <5>1. r \in Records
          BY <1>3, Zenon
        <5> QED BY <5>1, CopyFields, Zenon
      <4>2. \A q \in C : q.obj = s
        BY <2>1, <4>1, Zenon
      <4>3. ASSUME NEW q \in N, q.obj = s PROVE q \in C
        <5>1. PICK r \in MapsOf(p) : q = Copy(r, c) /\ q.obj = r.obj
          BY <1>4, Zenon
        <5>2. r \in B
          BY <2>1, <4>3, <5>1, Zenon
        <5> QED BY <2>1, <5>1, <5>2, Zenon
      <4> QED BY <4>2, <4>3, Zenon
    <3>2. C \subseteq N
      BY <2>1, Zenon
    <3> QED BY <1>2, <2>1, <3>1, <3>2, Zenon
  <2>3. A \cap C = {}
    <3>1. C \subseteq N /\ A \subseteq maps
      BY <2>1, Zenon
    <3> QED BY <1>4, <3>1, Zenon
  <2>4. B \in SUBSET Records /\ IsFiniteSet(B) /\ IsFiniteSet(A) /\ \A r \in B : r.pid = p
    BY <1>1, <1>3, <2>1, FS_Subset, Zenon
  <2>5. IsFiniteSet(C) /\ Cardinality(C) = Cardinality(B)
    BY <2>1, <2>4, CopiesCount, Zenon
  <2>6. Cardinality(A \cup C) = Cardinality(A) + Cardinality(C) - Cardinality({})
    <3>1. Cardinality(A \cup C) = Cardinality(A) + Cardinality(C) - Cardinality(A \cap C)
      BY <2>4, <2>5, FS_Union, Zenon
    <3> QED BY <2>3, <3>1, Zenon
  <2>7. Cardinality(A) \in Nat /\ Cardinality(B) \in Nat /\ Cardinality({}) = 0
    BY <2>4, FS_CardinalityType, FS_EmptySet, Zenon
  <2>8. Cardinality(A \cup C) = Cardinality(A) + Cardinality(B)
    BY <2>5, <2>6, <2>7
  <2>9. obj[s].map_count = Cardinality(A) /\ (~obj[s].in_use => B = {})
    BY <1>1, <1>3, <2>1, Zenon DEF Recorded
  <2> QED BY <2>1, <2>2, <2>7, <2>8, <2>9, Zenon
<1>7. ASSUME NEW s \in Slots
      PROVE  /\ obj'[s] \in Objects /\ Alike(obj[s], obj'[s]) /\ obj'[s].dying = obj[s].dying
             /\ obj'[s].map_count = obj[s].map_count + Cardinality(mapped(s))
  <2>1. PICK x \in Objects : x = obj[s]
    BY <1>1, Zenon
  <2>2. PICK k \in Int : k = x.map_count + Cardinality(mapped(s))
    <3>1. x.map_count \in Int
      BY Fields, Zenon
    <3>2. PICK m \in Nat : m = Cardinality(mapped(s))
      BY <1>6, Zenon
    <3>3. x.map_count + m \in Int
      BY <3>1
    <3> QED BY <3>2, <3>3, Zenon
  <2>3. PICK n : n = [x EXCEPT !.map_count = k]
    BY Zenon
  <2>4. obj'[s] = n
    BY <2>1, <2>2, <2>3, Zenon DEF ShmFork
  <2>5. n \in Objects /\ Alike(x, n) /\ n.map_count = k /\ n.dying = x.dying
    <3> HIDE DEF mapped, N
    <3> QED BY <2>3, Counted
  <2> QED BY <2>1, <2>2, <2>4, <2>5, Zenon
<1>8. obj' \in [Slots -> Objects]
  <2>1. obj' = [s \in Slots |-> obj'[s]]
    BY Zenon DEF ShmFork
  <2> QED BY <1>7, <2>1, Zenon
<1>9. Recorded(obj', maps')
  <2>2. ASSUME NEW q \in maps' PROVE obj'[q.obj].in_use /\ q.pages = Len(obj'[q.obj].frames)
    <3>1. PICK r \in maps : q.obj = r.obj /\ q.pages = r.pages
      BY <1>2, <1>3, <1>4, Zenon
    <3>2. obj[r.obj].in_use /\ r.pages = Len(obj[r.obj].frames) /\ r.obj \in Slots
      BY <1>1, Zenon DEF Recorded
    <3> QED BY <1>7, <3>1, <3>2, Zenon DEF Alike
  <2>3. ASSUME NEW u \in maps', NEW v \in maps', u.pid = v.pid, u # v
        PROVE  u.addr + u.pages < v.addr \/ v.addr + v.pages < u.addr
    <3>1. CASE u \in maps /\ v \in maps
      BY <1>1, <2>3, <3>1, Zenon DEF Recorded
    <3>2. CASE u \in N /\ v \in N
      <4>1. PICK q \in MapsOf(p) : u = Copy(q, c) /\ u.addr = q.addr /\ u.pages = q.pages
        BY <1>4, <3>2, Zenon
      <4>2. PICK r \in MapsOf(p) : v = Copy(r, c) /\ v.addr = r.addr /\ v.pages = r.pages
        BY <1>4, <3>2, Zenon
      <4>3. q # r /\ q \in maps /\ r \in maps /\ q.pid = r.pid
        BY <1>3, <2>3, <4>1, <4>2, Zenon
      <4>4. q.addr + q.pages < r.addr \/ r.addr + r.pages < q.addr
        BY <1>1, <4>3, Zenon DEF Recorded
      <4> QED BY <4>1, <4>2, <4>4, Zenon
    <3>3. \A q \in maps : q.pid # c
      BY Zenon DEF MapsOf
    <3> QED BY <1>2, <1>4, <2>3, <3>1, <3>2, <3>3, Zenon
  <2>4. ASSUME NEW s \in Slots
        PROVE  obj'[s].map_count = Cardinality({q \in maps' : q.obj = s})
    <3>1. /\ Cardinality({q \in maps' : q.obj = s})
               = Cardinality({q \in maps : q.obj = s}) + Cardinality(mapped(s))
          /\ obj[s].map_count = Cardinality({q \in maps : q.obj = s})
      BY <1>6, Zenon
    <3>2. obj'[s].map_count = obj[s].map_count + Cardinality(mapped(s))
      BY <1>7, Zenon
    <3> HIDE DEF mapped
    <3> QED BY <3>1, <3>2, Zenon
  <2> QED BY <2>2, <2>3, <2>4, Zenon DEF Recorded
<1>10. Unreferenced(obj)' = {}
  <2> SUFFICES ASSUME NEW s \in Slots, obj'[s].in_use, obj'[s].dying, obj'[s].map_count = 0
               PROVE  FALSE
    BY Zenon DEF Unreferenced
  <2>1. obj[s].in_use /\ obj[s].dying
    BY <1>7, Zenon DEF Alike
  <2>2. obj[s].map_count # 0
    BY <2>1, Zenon DEF ShmInv, MapInv, Unreferenced
  <2>3. PICK a \in Nat, b \in Nat : a = obj[s].map_count /\ b = Cardinality(mapped(s))
    BY <1>6, Zenon
  <2>4. a + b = 0
    BY <1>7, <2>3, Zenon
  <2> QED BY <2>2, <2>3, <2>4
<1>11. MapsOf(c)' = N /\ \A q \in Pids \ {c} : MapsOf(q)' = MapsOf(q)
  BY <1>2, <1>4, Zenon DEF MapsOf
<1>12. ShmInv'
  <2>1. ShmTypes'
    <3>1. IsFiniteSet(maps') /\ maps' \subseteq Records
      BY <1>1, <1>2, <1>4, <1>5, FS_Union, Zenon
    <3> QED BY <1>1, <1>2, <1>8, <3>1, Zenon DEF ShmTypes
  <2>2. HandleInv'
    <3>1. Numbered(obj')
      BY <1>7, NumberedAlike, Zenon DEF ShmInv, HandleInv
    <3> QED BY <1>2, <3>1, Zenon DEF ShmInv, HandleInv, Numbered, Issued
  <2>3. FrameInv'
    <3>1. Owned(obj', freeFrames)
      BY <1>7, OwnedAlike, Zenon DEF ShmInv, FrameInv
    <3> QED BY <1>2, <3>1, Zenon DEF FrameInv
  <2>4. \A q \in Pids : Cardinality(MapsOf(q)') <= MaxMapsPerProc
    BY <1>5, <1>11, Zenon DEF ShmInv, MapInv
  <2> QED BY <1>9, <1>10, <2>1, <2>2, <2>3, <2>4, Zenon DEF ShmInv, MapInv
<1> QED BY <1>7, <1>11, <1>12, Zenon

-----------------------------------------------------------------------------
(* A call on the message service opens no inbox but the caller's.          *)
LEMMA ClosedStay ==
    ASSUME MsgInv, NEW p \in Pids, MsgCall(p) \/ DropProcess(p), NEW q \in Pids, q # p, ~Open(q)
    PROVE  ~Open(q)'
<1>1. inbox = [k \in Pids |-> inbox[k]]
  BY Zenon DEF MsgInv
<1>2. ASSUME NEW to \in Pids, NEW b, inbox' = [inbox EXCEPT ![to] = b], to # q
      PROVE  ~Open(q)'
  BY <1>1, <1>2, Zenon DEF Open
<1>3. CASE DropProcess(p)
  BY <1>3, Zenon DEF DropProcess, Open
<1>4. ASSUME NEW to \in Pids, NEW ty, NEW tag, NEW len, Send(p, to, ty, tag, len)
      PROVE  ~Open(q)'
  <2>1. to # q
    BY <1>4, Zenon DEF Send
  <2> QED BY <1>2, <1>4, <2>1, Zenon DEF Send, Enqueue
<1>5. ASSUME NEW n \in Names, NEW ty, NEW tag, NEW len, SendName(p, n, ty, tag, len)
      PROVE  ~Open(q)'
  <2>1. CASE Live(service[n])
    <3>1. service[n] \in Pids /\ Send(p, service[n], ty, tag, len)
      BY <1>5, <2>1, Zenon DEF SendName, MsgInv
    <3> QED BY <1>4, <3>1, Zenon
  <2>2. CASE ~Live(service[n])
    BY <1>5, <2>2, Zenon DEF SendName, Open
  <2> QED BY <2>1, <2>2, Zenon
<1>6. CASE \E policy \in Policies : MsgOpen(p, policy) \/ SetPolicy(p, policy)
  BY <1>1, <1>6, Zenon DEF MsgOpen, SetPolicy, Open
<1>7. CASE \E k \in Pids : Allow(p, k) \/ Deny(p, k)
  BY <1>1, <1>7, Zenon DEF Allow, Deny, Open
<1>8. CASE \E n \in Names : Register(p, n) \/ Unregister(p, n)
  BY <1>8, Zenon DEF Register, Unregister, Open
<1>9. ASSUME NEW from, NEW ty, NEW tag, NEW cap, Recv(p, from, ty, tag, cap)
      PROVE  ~Open(q)'
  BY <1>1, <1>9, Zenon DEF Recv, Open
<1> QED BY <1>3, <1>4, <1>5, <1>6, <1>7, <1>8, <1>9, Zenon DEF MsgCall, MsgClose

(* Every call on shared memory.                                            *)
LEMMA ShmCallInv ==
    ASSUME ConstantsOK, ShmInv, NEW p \in Pids, ShmCall(p),
           pt[p] = UNION {Entries(q) : q \in MapsOf(p)}
    PROVE  ShmInv' /\ Others(p) /\ pt'[p] = UNION {Entries(q)' : q \in MapsOf(p)'}
<1>1. ASSUME UNCHANGED <<maps, pt>>, \A r \in maps : obj'[r.obj].frames = obj[r.obj].frames
      PROVE  pt'[p] = UNION {Entries(q)' : q \in MapsOf(p)'}
  <2>1. MapsOf(p)' = MapsOf(p)
    BY <1>1, Zenon DEF MapsOf
  <2>2. \A q \in MapsOf(p) : Entries(q)' = Entries(q)
    BY <1>1, EntriesSame, Zenon DEF MapsOf
  <2> QED BY <1>1, <2>1, <2>2, Zenon
<1>2. ASSUME NEW pages \in 1..MaxPages, Create(p, pages)
      PROVE  ShmInv' /\ Others(p) /\ pt'[p] = UNION {Entries(q)' : q \in MapsOf(p)'}
  <2>1. pages \in Nat
    BY DEF ConstantsOK
  <2> QED BY <1>1, <1>2, <2>1, CreateInv, Zenon
<1>3. ASSUME NEW h \in issued, NEW q \in Pids, NEW v \in Rights, Grant(p, h, q, v)
      PROVE  ShmInv' /\ Others(p) /\ pt'[p] = UNION {Entries(k)' : k \in MapsOf(p)'}
  <2>1. /\ ShmInv' /\ Others(p) /\ UNCHANGED <<maps, pt>>
    BY <1>3, GrantInv, Zenon
  <2> QED BY <1>1, <2>1, Zenon DEF Others
<1>4. ASSUME NEW h \in issued, NEW want \in {READ, RW}, Map(p, h, want)
      PROVE  ShmInv' /\ Others(p) /\ pt'[p] = UNION {Entries(q)' : q \in MapsOf(p)'}
  BY <1>4, MapCallInv, Zenon
<1>5. ASSUME NEW r \in maps, Unmap(p, r)
      PROVE  ShmInv' /\ Others(p) /\ pt'[p] = UNION {Entries(q)' : q \in MapsOf(p)'}
  BY <1>5, UnmapInv, Zenon
<1>6. ASSUME NEW h \in issued, Destroy(p, h)
      PROVE  ShmInv' /\ Others(p) /\ pt'[p] = UNION {Entries(q)' : q \in MapsOf(p)'}
  <2>1. /\ ShmInv' /\ Others(p) /\ UNCHANGED <<maps, pt>>
    BY <1>6, DestroyInv, Zenon
  <2> QED BY <1>1, <2>1, Zenon DEF Others
<1> QED BY <1>2, <1>3, <1>4, <1>5, <1>6, Zenon DEF ShmCall

(* What a step that leaves the other processes their records and objects   *)
(* does to the page tables of those that keep running.                     *)
LEMMA OthersTable ==
    ASSUME NEW p \in Pids, Others(p), NEW q \in Pids \ {p},
           pt[q] = UNION {Entries(r) : r \in MapsOf(q)}
    PROVE  pt'[q] = UNION {Entries(r)' : r \in MapsOf(q)'}
<1>1. MapsOf(q)' = MapsOf(q) /\ pt'[q] = pt[q]
  BY Zenon DEF Others
<1>2. \A r \in MapsOf(q) : r \in maps \cap maps'
  BY <1>1, Zenon DEF MapsOf
<1>3. \A r \in MapsOf(q) : Entries(r)' = Entries(r)
  BY <1>2, EntriesSame, Zenon DEF Others
<1> QED BY <1>1, <1>3, Zenon

(* A shared-memory call of a running process gives nothing to a process    *)
(* that is gone.                                                           *)
LEMMA CallLife ==
    ASSUME LifeInv, TableInv, NEW p \in Pids, Runs(p), Others(p),
           pt'[p] = UNION {Entries(r)' : r \in MapsOf(p)'},
           UNCHANGED <<pstate, forks, inbox>>
    PROVE  LifeInv' /\ TableInv'
<1>1. pstate[p] = "running" /\ \A f \in forks : f[1] # p
  BY Zenon DEF Runs
<1>2. ASSUME NEW q \in Pids, pstate[q] # "running" PROVE MapsOf(q)' = {}
  BY <1>1, <1>2, Zenon DEF Others, LifeInv
<1>3. ASSUME NEW q \in Pids, pstate[q] \in {"exit_msg", "exit_state", "terminated"},
             NEW s \in Slots, obj'[s].in_use, obj'[s].owner = q
      PROVE  obj'[s].dying
  <2>1. q # p
    BY Zenon, <1>1, <1>3
  <2>2. obj[s].in_use /\ obj[s].owner = q /\ (obj[s].dying => obj'[s].dying)
    BY <1>3, <2>1, Zenon DEF Others
  <2> QED BY <1>3, <2>2, Zenon DEF LifeInv
<1>4. LifeInv'
  BY <1>2, <1>3, Zenon DEF LifeInv, Open
<1>5. ASSUME NEW q \in Pids, pstate[q] = "running"
      PROVE  pt'[q] = UNION {Entries(r)' : r \in MapsOf(q)'}
  BY <1>5, OthersTable, Zenon DEF TableInv
<1>6. ASSUME NEW f \in forks PROVE pt'[f[2]] = pt'[f[1]]
  <2>1. f[1] \in Pids /\ f[2] \in Pids
    BY Zenon DEF LifeInv
  <2>2. pstate[f[2]] = "allocating"
    BY Zenon DEF LifeInv
  <2>3. f[1] # p /\ f[2] # p
    BY Zenon, <1>1, <2>2
  <2> QED BY <2>1, <2>3, Zenon DEF Others, TableInv
<1> QED BY <1>4, <1>5, <1>6, Zenon DEF TableInv

(* The states of the processes after one of them changes.                  *)
LEMMA OneState ==
    ASSUME LifeInv, NEW p \in Pids, NEW v, pstate' = [pstate EXCEPT ![p] = v],
           v \in {"allocating", "running", "exit_msg", "exit_state", "terminated"}
    PROVE  /\ pstate' \in [Pids -> {"unused", "allocating", "running", "exit_msg",
                                    "exit_state", "terminated"}]
           /\ pstate'[p] = v /\ \A q \in Pids \ {p} : pstate'[q] = pstate[q]
           /\ \A f \in forks : f[1] \in Pids /\ f[2] \in Pids
           /\ \A f \in forks : pstate[f[1]] = "running" /\ pstate[f[2]] = "allocating"
BY Zenon DEF LifeInv

(* fork(), first half: the child has the parent's entries and no records.  *)
LEMMA ForkShareLife ==
    ASSUME ShmTypes, LifeInv, TableInv, NEW p \in Pids, NEW c \in Pids, ForkShare(p, c)
    PROVE  LifeInv' /\ TableInv'
<1>1. /\ pstate[p] = "running" /\ pstate[c] = "unused" /\ p # c
      /\ pstate' = [pstate EXCEPT ![c] = "allocating"] /\ forks' = forks \cup {<<p, c>>}
      /\ pt' = [pt EXCEPT ![c] = pt[p]] /\ UNCHANGED <<inbox, obj, maps>>
  BY Zenon DEF ForkShare, Runs, msgVars
<1>2. /\ pstate' \in [Pids -> {"unused", "allocating", "running", "exit_msg",
                               "exit_state", "terminated"}]
      /\ pstate'[c] = "allocating" /\ \A q \in Pids \ {c} : pstate'[q] = pstate[q]
      /\ \A f \in forks : f[1] \in Pids /\ f[2] \in Pids
      /\ \A f \in forks : pstate[f[1]] = "running" /\ pstate[f[2]] = "allocating"
  BY <1>1, OneState, Zenon
<1>3. \A f \in forks : f[1] # c /\ f[2] # c
  BY Zenon, <1>1, <1>2
<1>0. PICK g : g = <<p, c>>
  BY Zenon
<1>4. g \in Pids \X Pids /\ g = <<p, c>> /\ g[1] = p /\ g[2] = c
  BY Zenon, <1>0
<1>5. /\ forks' = forks \cup {g} /\ forks' \subseteq Pids \X Pids
  BY <1>1, <1>4, Zenon DEF LifeInv
<1>6. \A f \in forks' : pstate'[f[1]] = "running" /\ pstate'[f[2]] = "allocating"
  BY <1>1, <1>2, <1>3, <1>4, <1>5, Zenon
<1>7. \A f, h \in forks' : f[2] = h[2] => f = h
  <2>1. \A f, h \in forks : f[2] = h[2] => f = h
    BY Zenon DEF LifeInv
  <2>2. \A f \in forks : f[2] # g[2]
    BY <1>3, <1>4, Zenon
  <2> QED BY <1>5, <2>1, <2>2, Zenon
<1>8. \A q \in Pids : MapsOf(q)' = MapsOf(q)
  BY <1>1, Zenon DEF MapsOf
<1>9. \A q \in Pids : pstate'[q] # "running" => MapsOf(q)' = {}
  <2>1. pstate[c] # "running"
    BY Zenon, <1>1
  <2>2. \A q \in Pids : pstate[q] # "running" => MapsOf(q) = {}
    BY Zenon DEF LifeInv
  <2>3. \A q \in Pids : pstate'[q] # "running" => pstate[q] # "running"
    BY <1>2, <2>1, Zenon
  <2> QED BY <1>8, <2>2, <2>3, Zenon
<1>10. \A q \in Pids : pstate'[q] \in {"exit_msg", "exit_state", "terminated"} => pstate'[q] = pstate[q]
  BY Zenon, <1>2
<1>11. \A q \in Pids : pstate'[q] \in {"exit_msg", "exit_state", "terminated"} =>
         \A s \in Slots : obj'[s].in_use /\ obj'[s].owner = q => obj'[s].dying
  BY <1>1, <1>10, Zenon DEF LifeInv
<1>12. \A q \in Pids : pstate'[q] \in {"exit_state", "terminated"} => ~Open(q)'
  <2>1. \A q \in Pids : pstate'[q] \in {"exit_state", "terminated"} => pstate'[q] = pstate[q]
    BY Zenon, <1>2
  <2> QED BY <1>1, <2>1, Zenon DEF LifeInv, Open
<1>13. LifeInv'
  BY <1>2, <1>5, <1>6, <1>7, <1>9, <1>11, <1>12, Zenon DEF LifeInv
<1>14. pt'[c] = pt[p] /\ \A q \in Pids \ {c} : pt'[q] = pt[q]
  BY <1>1, Zenon DEF ShmTypes
<1>15. \A r : Entries(r)' = Entries(r)
  BY <1>1, Zenon DEF Entries
<1>16. ASSUME NEW q \in Pids, pstate'[q] = "running"
       PROVE  pt'[q] = UNION {Entries(r)' : r \in MapsOf(q)'}
  <2>1. q # c
    BY Zenon, <1>2, <1>16
  <2>2. pt[q] = UNION {Entries(r) : r \in MapsOf(q)}
    BY <1>2, <1>16, <2>1, Zenon DEF TableInv
  <2>3. pt'[q] = pt[q]
    BY <1>14, <2>1, Zenon
  <2> QED BY <1>8, <1>15, <2>2, <2>3, Zenon
<1>17. \A f \in forks' : pt'[f[2]] = pt'[f[1]]
  <2>1. \A f \in forks : pt'[f[2]] = pt[f[2]] /\ pt'[f[1]] = pt[f[1]]
    BY <1>2, <1>3, <1>14, Zenon
  <2>2. \A f \in forks : pt[f[2]] = pt[f[1]]
    BY Zenon DEF TableInv
  <2>3. pt'[g[2]] = pt'[g[1]]
    BY <1>1, <1>4, <1>14, Zenon
  <2> QED BY <1>5, <2>1, <2>2, <2>3, Zenon
<1> QED BY <1>13, <1>16, <1>17, Zenon DEF TableInv

(* fork(), second half: records for every entry, or no entries.            *)
LEMMA ForkRecordInv ==
    ASSUME ConstantsOK, ShmInv, LifeInv, TableInv, NEW p \in Pids, NEW c \in Pids, ForkRecord(p, c)
    PROVE  ShmInv' /\ LifeInv' /\ TableInv'
<1>0. PICK g : g = <<p, c>>
  BY Zenon
<1>1. g[1] = p /\ g[2] = c
  BY Zenon, <1>0
<1>2. /\ g \in forks /\ forks' = forks \ {g} /\ inbox' = inbox /\ \A f \in forks' : f \in forks /\ f[2] # c
      /\ pstate[p] = "running" /\ pstate[c] = "allocating"
  BY <1>0, <1>1, Zenon DEF ForkRecord, LifeInv, msgVars
<1>3. p # c /\ MapsOf(c) = {}
  BY Zenon, <1>2 DEF LifeInv
<1>4. /\ forks' \subseteq Pids \X Pids /\ \A f, h \in forks' : f[2] = h[2] => f = h
      /\ DOMAIN pt = Pids
  BY <1>2, Zenon DEF LifeInv, ShmInv, ShmTypes
<1>5. \A f \in forks : /\ f[1] \in Pids /\ f[2] \in Pids
                       /\ pstate[f[1]] = "running" /\ pstate[f[2]] = "allocating"
  BY Zenon DEF LifeInv
<1>6. \A f \in forks' : f[1] # c /\ f[2] # c /\ f \in forks
  BY Zenon, <1>2, <1>5
<1>7. CASE ForkFits(p)
  <2>1. ShmFork(p, c) /\ pstate' = [pstate EXCEPT ![c] = "running"] /\ pt' = pt
    BY <1>7, Zenon DEF ForkRecord
  <2>2. /\ ShmInv'
        /\ \A q \in Pids \ {c} : MapsOf(q)' = MapsOf(q)
        /\ MapsOf(c)' = {Copy(r, c) : r \in MapsOf(p)}
        /\ \A s \in Slots : Alike(obj[s], obj'[s]) /\ obj'[s].dying = obj[s].dying
    BY <1>3, <2>1, ShmForkInv, Zenon
  <2>3. /\ pstate' \in [Pids -> {"unused", "allocating", "running", "exit_msg",
                                 "exit_state", "terminated"}]
        /\ pstate'[c] = "running" /\ \A q \in Pids \ {c} : pstate'[q] = pstate[q]
    BY <2>1, OneState, Zenon
  <2>4. \A f \in forks' : pstate'[f[1]] = "running" /\ pstate'[f[2]] = "allocating"
    BY <1>5, <1>6, <2>3, Zenon
  <2>5. ASSUME NEW q \in Pids, pstate'[q] # "running" PROVE MapsOf(q)' = {}
    <3>1. q # c
      BY <2>3, <2>5, Zenon
    <3>2. pstate[q] # "running" /\ MapsOf(q)' = MapsOf(q)
      BY <2>2, <2>3, <2>5, <3>1, Zenon
    <3> QED BY <3>2, Zenon DEF LifeInv
  <2>6. /\ \A q \in Pids : pstate'[q] \in {"exit_msg", "exit_state", "terminated"} =>
             q # c /\ pstate'[q] = pstate[q]
        /\ \A q \in Pids : pstate'[q] \in {"exit_state", "terminated"} => pstate'[q] = pstate[q]
    BY Zenon, <2>3
  <2>7. \A q \in Pids : pstate'[q] \in {"exit_msg", "exit_state", "terminated"} =>
          \A s \in Slots : obj'[s].in_use /\ obj'[s].owner = q => obj'[s].dying
    <3>1. \A s \in Slots : /\ obj'[s].in_use = obj[s].in_use /\ obj'[s].owner = obj[s].owner
                           /\ obj'[s].dying = obj[s].dying
      BY <2>2, Zenon DEF Alike
    <3>2. \A q \in Pids : pstate[q] \in {"exit_msg", "exit_state", "terminated"} =>
            \A s \in Slots : obj[s].in_use /\ obj[s].owner = q => obj[s].dying
      BY Zenon DEF LifeInv
    <3>3. ASSUME NEW q \in Pids, pstate'[q] \in {"exit_msg", "exit_state", "terminated"},
                 NEW s \in Slots, obj'[s].in_use, obj'[s].owner = q
          PROVE  obj'[s].dying
      <4>1. pstate[q] \in {"exit_msg", "exit_state", "terminated"}
        <5>1. pstate'[q] = pstate[q]
          BY <2>6, <3>3, Zenon
        <5> QED BY <3>3, <5>1, Zenon
      <4> QED BY <3>1, <3>2, <3>3, <4>1, Zenon
    <3> QED BY <3>3, Zenon
  <2>8. \A q \in Pids : pstate'[q] \in {"exit_state", "terminated"} => ~Open(q)'
    BY <1>2, <2>6, Zenon DEF LifeInv, Open
  <2>9. LifeInv'
    BY <1>4, <2>3, <2>4, <2>5, <2>7, <2>8, Zenon DEF LifeInv
  <2>10. \A r \in maps : r \in Records /\ r.obj \in Slots
    BY RecordFacts, Zenon DEF ShmInv, ShmTypes
  <2>11. \A r \in maps : Entries(r)' = Entries(r)
    BY <2>2, <2>10, EntriesSame, Zenon DEF Alike
  <2>12. \A r \in MapsOf(p) : Entries(Copy(r, c))' = Entries(r)
    <3>1. ASSUME NEW r \in MapsOf(p) PROVE Entries(Copy(r, c))' = Entries(r)'
      <4>0. r \in Records
        BY <2>10, Zenon DEF MapsOf
      <4>1. PICK k : k = Copy(r, c)
        BY Zenon
      <4>2. Copy(r, c).addr = r.addr /\ Copy(r, c).pages = r.pages
        BY <4>0, CopyFields, Zenon
      <4>3. Copy(r, c).obj = r.obj /\ Copy(r, c).rights = r.rights
        BY <4>0, CopyFields, Zenon
      <4>4. k.addr = r.addr /\ k.pages = r.pages /\ k.obj = r.obj /\ k.rights = r.rights
        BY <4>1, <4>2, <4>3, Zenon
      <4>5. Entries(k)' = Entries(r)'
        BY <4>4 DEF Entries
      <4> QED BY <4>1, <4>5, Zenon
    <3> QED BY <2>11, <3>1, Zenon DEF MapsOf
  <2>13. pt'[c] = UNION {Entries(r)' : r \in MapsOf(c)'}
    <3>1. pt'[c] = pt[p]
      BY <1>1, <1>2, <2>1, Zenon DEF TableInv
    <3>2. pt[p] = UNION {Entries(r) : r \in MapsOf(p)}
      BY <1>2, Zenon DEF TableInv
    <3>3. {Entries(r)' : r \in MapsOf(c)'} = {Entries(r) : r \in MapsOf(p)}
      BY <2>2, <2>12, Zenon
    <3> QED BY <3>1, <3>2, <3>3, Zenon
  <2>14. ASSUME NEW q \in Pids \ {c}, pstate'[q] = "running"
         PROVE  pt'[q] = UNION {Entries(r)' : r \in MapsOf(q)'}
    <3>1. pt[q] = UNION {Entries(r) : r \in MapsOf(q)} /\ MapsOf(q)' = MapsOf(q) /\ pt'[q] = pt[q]
      BY <2>1, <2>2, <2>3, <2>14, Zenon DEF TableInv
    <3>2. \A r \in MapsOf(q) : Entries(r)' = Entries(r)
      BY <2>11, Zenon DEF MapsOf
    <3> QED BY <3>1, <3>2, Zenon
  <2>15. TableInv'
    BY <1>6, <2>1, <2>13, <2>14, Zenon DEF TableInv
  <2> QED BY <2>2, <2>9, <2>15, Zenon
<1>8. CASE ~ForkFits(p)
  <2>1. pt' = [pt EXCEPT ![c] = {}] /\ UNCHANGED <<obj, maps, totalPages, freeFrames, issued, pstate>>
    BY <1>8, Zenon DEF ForkRecord
  <2>2. \A q \in Pids : MapsOf(q)' = MapsOf(q)
    BY <2>1, Zenon DEF MapsOf
  <2>3. \A r : Entries(r)' = Entries(r)
    BY <2>1, Zenon DEF Entries
  <2>4. DOMAIN pt' = Pids /\ \A q \in Pids \ {c} : pt'[q] = pt[q]
    BY <1>4, <2>1, Zenon
  <2>5. ShmInv'
    <3>1. ShmTypes'
      BY <2>1, <2>4, Zenon DEF ShmInv, ShmTypes
    <3>2. HandleInv'
      BY <2>1, Zenon DEF ShmInv, HandleInv, Numbered, Issued
    <3>3. FrameInv' /\ MapInv'
      BY <2>1, <2>2, Zenon DEF ShmInv, FrameInv, MapInv, Unreferenced
    <3> QED BY <3>1, <3>2, <3>3, Zenon DEF ShmInv
  <2>6. LifeInv'
    BY <1>2, <1>4, <2>1, <2>2, Zenon DEF LifeInv, Open
  <2>7. pstate[c] # "running"
    BY Zenon, <1>2
  <2>8. ASSUME NEW q \in Pids, pstate'[q] = "running"
        PROVE  pt'[q] = UNION {Entries(r)' : r \in MapsOf(q)'}
    <3>1. pt[q] = UNION {Entries(r) : r \in MapsOf(q)} /\ pt'[q] = pt[q]
      BY <2>1, <2>4, <2>7, <2>8, Zenon DEF TableInv
    <3> QED BY <2>2, <2>3, <3>1, Zenon
  <2>9. \A f \in forks' : pt'[f[2]] = pt'[f[1]]
    BY <1>5, <1>6, <2>4, Zenon DEF TableInv
  <2> QED BY <2>5, <2>6, <2>8, <2>9, Zenon DEF TableInv
<1> QED BY <1>7, <1>8, Zenon

(* process_exit_current(), the shared-memory hook.                         *)
LEMMA ExitShmInv ==
    ASSUME ConstantsOK, ShmInv, LifeInv, TableInv, NEW p \in Pids, ExitShm(p)
    PROVE  ShmInv' /\ LifeInv' /\ TableInv'
<1>1. /\ pstate[p] = "running" /\ (\A f \in forks : f[1] # p) /\ ShmExit(p)
      /\ pstate' = [pstate EXCEPT ![p] = "exit_msg"] /\ UNCHANGED <<forks, inbox>>
  BY Zenon DEF ExitShm, Runs, msgVars
<1>2. /\ ShmInv' /\ Others(p) /\ MapsOf(p)' = {} /\ pt' = pt
      /\ \A s \in Slots : obj'[s].in_use /\ obj'[s].owner = p => obj'[s].dying
  BY <1>1, ShmExitInv, Zenon
<1>3. /\ pstate' \in [Pids -> {"unused", "allocating", "running", "exit_msg",
                               "exit_state", "terminated"}]
      /\ pstate'[p] = "exit_msg" /\ \A q \in Pids \ {p} : pstate'[q] = pstate[q]
      /\ \A f \in forks : f[1] \in Pids /\ f[2] \in Pids
      /\ \A f \in forks : pstate[f[1]] = "running" /\ pstate[f[2]] = "allocating"
  BY <1>1, OneState, Zenon
<1>4. (\A f \in forks : f[1] # p /\ f[2] # p) /\ pstate'[p] \notin {"running", "exit_state", "terminated"}
  BY Zenon, <1>1, <1>3
<1>5. ASSUME NEW q \in Pids, pstate'[q] \in {"exit_msg", "exit_state", "terminated"},
             NEW s \in Slots, obj'[s].in_use, obj'[s].owner = q
      PROVE  obj'[s].dying
  <2>1. CASE q = p
    BY <1>2, <1>5, <2>1, Zenon
  <2>2. CASE q # p
    <3>1. obj[s].in_use /\ obj[s].owner = q /\ (obj[s].dying => obj'[s].dying)
      BY <1>2, <1>5, <2>2, Zenon DEF Others
    <3>2. pstate[q] = pstate'[q]
      BY <1>3, <2>2, Zenon
    <3> QED BY <1>5, <3>1, <3>2, Zenon DEF LifeInv
  <2> QED BY <2>1, <2>2, Zenon
<1>6. \A q \in Pids : pstate'[q] # "running" => MapsOf(q)' = {}
  BY <1>2, <1>3, Zenon DEF Others, LifeInv
<1>7. \A q \in Pids : pstate'[q] \in {"exit_state", "terminated"} => ~Open(q)'
  BY <1>1, <1>3, <1>4, Zenon DEF LifeInv, Open
<1>8. \A f \in forks : pstate'[f[1]] = "running" /\ pstate'[f[2]] = "allocating"
  BY <1>3, <1>4, Zenon
<1>9. LifeInv'
  BY <1>1, <1>3, <1>5, <1>6, <1>7, <1>8, Zenon DEF LifeInv
<1>10. ASSUME NEW q \in Pids, pstate'[q] = "running"
       PROVE  pt'[q] = UNION {Entries(r)' : r \in MapsOf(q)'}
  <2>1. q # p
    BY <1>4, <1>10, Zenon
  <2>2. pt[q] = UNION {Entries(r) : r \in MapsOf(q)}
    BY <1>3, <1>10, <2>1, Zenon DEF TableInv
  <2> QED BY <1>2, <2>1, <2>2, OthersTable, Zenon
<1>11. TableInv'
  BY <1>1, <1>2, <1>10, Zenon DEF TableInv
<1> QED BY <1>2, <1>9, <1>11, Zenon

(* Steps that change nothing of the shared memory: the calls on messages,  *)
(* the message hook and TERMINATED.                                        *)
LEMMA ShmSame ==
    ASSUME ShmInv, UNCHANGED shmVars
    PROVE  ShmInv' /\ (\A q : MapsOf(q)' = MapsOf(q)) /\ \A r : Entries(r)' = Entries(r)
<1>1. UNCHANGED <<obj, maps, freeFrames, pt, issued>>
  BY Zenon DEF shmVars
<1>2. ShmTypes' /\ FrameInv' /\ MapInv'
  BY <1>1, Zenon DEF ShmInv, ShmTypes, FrameInv, MapInv, Unreferenced, MapsOf
<1>3. HandleInv'
  BY <1>1, Zenon DEF ShmInv, HandleInv, Numbered, Issued
<1>4. (\A q : MapsOf(q)' = MapsOf(q)) /\ \A r : Entries(r)' = Entries(r)
  BY <1>1, Zenon DEF MapsOf, Entries
<1> QED BY <1>2, <1>3, <1>4, Zenon DEF ShmInv

(* LifeInv and TableInv when a step leaves shared memory alone: a message  *)
(* call, or the later steps of an exit.                                    *)
LEMMA SameLife ==
    ASSUME ShmInv, LifeInv, TableInv, UNCHANGED <<shmVars, forks>>, NEW p \in Pids,
           \/ pstate' = pstate
           \/ pstate[p] = "exit_msg" /\ pstate' = [pstate EXCEPT ![p] = "exit_state"]
           \/ pstate[p] = "exit_state" /\ pstate' = [pstate EXCEPT ![p] = "terminated"],
           \A q \in Pids : pstate'[q] \in {"exit_state", "terminated"} => ~Open(q)'
    PROVE  LifeInv' /\ TableInv'
<1>1. pstate' \in [Pids -> {"unused", "allocating", "running", "exit_msg", "exit_state", "terminated"}]
  BY Zenon DEF LifeInv
<1>2. /\ \A q \in Pids : pstate'[q] = "running" <=> pstate[q] = "running"
      /\ \A q \in Pids : pstate[q] = "allocating" => pstate'[q] = "allocating"
      /\ \A q \in Pids : pstate'[q] \in {"exit_msg", "exit_state", "terminated"} =>
                         pstate[q] \in {"exit_msg", "exit_state", "terminated"}
  BY DEF LifeInv
<1>3. \A f \in forks : f[1] \in Pids /\ f[2] \in Pids
  BY Zenon DEF LifeInv
<1>4. /\ \A q : MapsOf(q)' = MapsOf(q)
      /\ \A r : Entries(r)' = Entries(r)
      /\ UNCHANGED <<obj, pt, forks>>
  BY ShmSame, Zenon DEF shmVars
<1>5. \A f \in forks : pstate'[f[1]] = "running" /\ pstate'[f[2]] = "allocating"
  BY <1>2, <1>3, Zenon DEF LifeInv
<1>6. \A q \in Pids : pstate'[q] # "running" => MapsOf(q)' = {}
  BY <1>2, <1>4, Zenon DEF LifeInv
<1>7. \A q \in Pids : pstate'[q] \in {"exit_msg", "exit_state", "terminated"} =>
        \A s \in Slots : obj'[s].in_use /\ obj'[s].owner = q => obj'[s].dying
  BY <1>2, <1>4, Zenon DEF LifeInv
<1>8. LifeInv'
  BY <1>1, <1>4, <1>5, <1>6, <1>7, Zenon DEF LifeInv
<1>9. ASSUME NEW q \in Pids, pstate'[q] = "running"
      PROVE  pt'[q] = UNION {Entries(r)' : r \in MapsOf(q)'}
  <2>1. pt[q] = UNION {Entries(r) : r \in MapsOf(q)}
    BY <1>2, <1>9, Zenon DEF TableInv
  <2> QED BY <1>4, <2>1, Zenon
<1> QED BY <1>4, <1>8, <1>9, Zenon DEF TableInv

-----------------------------------------------------------------------------
(* The whole invariant holds at the start.                                 *)
LEMMA IpcStart ==
    ASSUME ConstantsOK, IpcInit
    PROVE  IpcInv
<1>1. MsgInv /\ \A p \in Pids : ~Open(p)
  <2>1. NoInbox.in_use = FALSE
    BY Zenon DEF NoInbox
  <2> QED BY <2>1, MsgStart, Zenon DEF IpcInit, Open, MsgInit
<1>2. PICK e : e = EmptyObj(0)
  BY Zenon
<1>3. e \in Objects /\ e.in_use = FALSE /\ e.gen = 0 /\ e.map_count = 0
  BY Zenon, <1>2, Emptied
<1>4. /\ obj = [s \in Slots |-> e] /\ maps = {} /\ freeFrames = Frames
      /\ pt = [p \in Pids |-> {}] /\ issued = {} /\ forks = {}
  BY <1>2, Zenon DEF IpcInit, ShmInit
<1>5. obj \in [Slots -> Objects] /\ \A s \in Slots : obj[s] = e
  BY <1>3, <1>4, Zenon
<1>6. IsFiniteSet({}) /\ Cardinality({}) = 0
  BY FS_EmptySet, Zenon
<1>7. ShmTypes
  BY <1>4, <1>5, <1>6, Zenon DEF ShmTypes
<1>8. \A s : Issued(s) = {}
  BY <1>4, Zenon DEF Issued
<1>9. HandleInv
  <2>1. 0 <= MaxMade
    BY DEF ConstantsOK
  <2> QED BY <1>3, <1>4, <1>5, <1>6, <1>8, <2>1, Zenon DEF HandleInv, Numbered
<1>10. FrameInv
  BY <1>3, <1>4, <1>5, Zenon DEF FrameInv, Owned
<1>11. \A p : MapsOf(p) = {}
  BY <1>4, Zenon DEF MapsOf
<1>12. MapInv
  <2>1. 0 <= MaxMapsPerProc
    BY DEF ConstantsOK
  <2>2. \A s : {r \in maps : r.obj = s} = {}
    BY <1>4, Zenon
  <2>3. Recorded(obj, maps)
    BY <1>3, <1>4, <1>5, <1>6, <2>2, Zenon DEF Recorded
  <2>4. Unreferenced(obj) = {}
    BY <1>3, <1>5, Zenon DEF Unreferenced
  <2> QED BY <1>6, <1>11, <2>1, <2>3, <2>4, Zenon DEF MapInv
<1>13. pstate \in [Pids -> {"unused", "running", "terminated"}]
  BY Zenon DEF IpcInit
<1>14. LifeInv
  <2>1. pstate \in [Pids -> {"unused", "allocating", "running", "exit_msg", "exit_state", "terminated"}]
    BY Zenon, <1>13
  <2>2. \A s \in Slots : ~obj[s].in_use
    BY <1>3, <1>5, Zenon
  <2> QED BY <1>1, <1>4, <1>11, <2>1, <2>2, Zenon DEF LifeInv
<1>15. TableInv
  <2>1. \A p \in Pids : pt[p] = {} /\ UNION {Entries(r) : r \in MapsOf(p)} = {}
    BY <1>4, <1>11, Zenon
  <2> QED BY <1>4, <2>1, Zenon DEF TableInv
<1> QED BY <1>1, <1>7, <1>9, <1>10, <1>12, <1>14, <1>15, Zenon DEF IpcInv, ShmInv

(* Every step keeps it.                                                    *)
LEMMA IpcStep ==
    ASSUME ConstantsOK, IpcInv, [IpcNext]_ipcVars
    PROVE  IpcInv'
<1>0. MsgInv /\ ShmInv /\ LifeInv /\ TableInv /\ ShmTypes
  BY Zenon DEF IpcInv, ShmInv
<1>1. MsgInv'
  BY <1>0, MsgStep, Zenon
<1>2. ASSUME NEW p \in Pids, Runs(p), MsgCall(p), UNCHANGED <<shmVars, pstate, forks>>
      PROVE  ShmInv' /\ LifeInv' /\ TableInv'
  <2>1. ASSUME NEW q \in Pids, pstate'[q] \in {"exit_state", "terminated"}
        PROVE  ~Open(q)'
    <3>1. pstate[p] = "running" /\ pstate'[q] = pstate[q]
      BY <1>2, Zenon DEF Runs
    <3>2. q # p
      BY Zenon, <2>1, <3>1
    <3>3. ~Open(q)
      BY <1>0, <2>1, <3>1, Zenon DEF LifeInv
    <3> QED BY <1>0, <1>2, <3>2, <3>3, ClosedStay, Zenon
  <2> QED BY <1>0, <1>2, <2>1, SameLife, ShmSame, Zenon
<1>3. ASSUME NEW p \in Pids, Runs(p), ShmCall(p), UNCHANGED <<msgVars, pstate, forks>>
      PROVE  ShmInv' /\ LifeInv' /\ TableInv'
  <2>1. pt[p] = UNION {Entries(q) : q \in MapsOf(p)} /\ inbox' = inbox
    BY <1>0, <1>3, Zenon DEF Runs, TableInv, msgVars
  <2>2. ShmInv' /\ Others(p) /\ pt'[p] = UNION {Entries(q)' : q \in MapsOf(p)'}
    BY <1>0, <1>3, <2>1, ShmCallInv, Zenon
  <2> QED BY <1>0, <1>3, <2>1, <2>2, CallLife, Zenon
<1>4. ASSUME NEW p \in Pids, Call(p)
      PROVE  ShmInv' /\ LifeInv' /\ TableInv'
  BY <1>2, <1>3, <1>4, Zenon DEF Call
<1>5. ASSUME NEW p \in Pids, NEW c \in Pids, ForkShare(p, c)
      PROVE  ShmInv' /\ LifeInv' /\ TableInv'
  <2>1. UNCHANGED <<obj, maps, freeFrames, issued>> /\ DOMAIN pt' = Pids
    BY <1>0, <1>5, Zenon DEF ForkShare, ShmTypes
  <2>2. ShmTypes' /\ FrameInv' /\ MapInv'
    BY <1>0, <2>1, Zenon DEF ShmInv, ShmTypes, FrameInv, MapInv, Unreferenced, MapsOf
  <2>3. HandleInv'
    BY <1>0, <2>1, Zenon DEF ShmInv, HandleInv, Numbered, Issued
  <2> QED BY <1>0, <1>5, <2>2, <2>3, ForkShareLife, Zenon DEF ShmInv
<1>6. ASSUME NEW p \in Pids, NEW c \in Pids, ForkRecord(p, c)
      PROVE  ShmInv' /\ LifeInv' /\ TableInv'
  BY <1>0, <1>6, ForkRecordInv, Zenon
<1>7. ASSUME NEW p \in Pids, ExitShm(p)
      PROVE  ShmInv' /\ LifeInv' /\ TableInv'
  BY <1>0, <1>7, ExitShmInv, Zenon
<1>8. ASSUME NEW p \in Pids, ExitMsg(p)
      PROVE  ShmInv' /\ LifeInv' /\ TableInv'
  <2>1. /\ DropProcess(p) /\ UNCHANGED <<shmVars, forks>>
        /\ pstate[p] = "exit_msg" /\ pstate' = [pstate EXCEPT ![p] = "exit_state"]
    BY <1>8, Zenon DEF ExitMsg
  <2>2. inbox'[p] = NoInbox /\ NoInbox.in_use = FALSE
    BY Zenon, <2>1 DEF DropProcess, NoInbox
  <2>3. ASSUME NEW q \in Pids \ {p}, pstate'[q] \in {"exit_state", "terminated"}
        PROVE  ~Open(q)'
    <3>1. pstate'[q] = pstate[q]
      BY <1>0, <2>1, Zenon DEF LifeInv
    <3>2. ~Open(q)
      BY <1>0, <2>3, <3>1, Zenon DEF LifeInv
    <3> QED BY <1>0, <2>1, <3>2, ClosedStay, Zenon
  <2>4. \A q \in Pids : pstate'[q] \in {"exit_state", "terminated"} => ~Open(q)'
    BY <2>2, <2>3, Zenon DEF Open
  <2> QED BY <1>0, <2>1, <2>4, SameLife, ShmSame, Zenon
<1>9. ASSUME NEW p \in Pids, Terminate(p)
      PROVE  ShmInv' /\ LifeInv' /\ TableInv'
  <2>1. /\ UNCHANGED <<shmVars, forks>> /\ inbox' = inbox
        /\ pstate[p] = "exit_state" /\ pstate' = [pstate EXCEPT ![p] = "terminated"]
    BY <1>9, Zenon DEF Terminate, msgVars
  <2>2. \A q \in Pids : pstate'[q] \in {"exit_state", "terminated"} =>
          pstate[q] \in {"exit_state", "terminated"}
    BY Zenon, <1>0, <2>1 DEF LifeInv
  <2>3. \A q \in Pids : pstate'[q] \in {"exit_state", "terminated"} => ~Open(q)'
    BY <1>0, <2>1, <2>2, Zenon DEF LifeInv, Open
  <2> QED BY <1>0, <2>1, <2>3, SameLife, ShmSame, Zenon
<1>10. CASE UNCHANGED ipcVars
  <2>1. UNCHANGED <<shmVars, pstate, forks, inbox>>
    BY <1>10, Zenon DEF ipcVars, msgVars
  <2>2. ShmInv' /\ (\A q : MapsOf(q)' = MapsOf(q)) /\ \A r : Entries(r)' = Entries(r)
    BY <1>0, <2>1, ShmSame, Zenon
  <2>3. LifeInv'
    BY <1>0, <2>1, <2>2, Zenon DEF LifeInv, Open, shmVars
  <2>4. TableInv'
    <3>1. pt' = pt /\ UNCHANGED <<pstate, forks>>
      BY <2>1, Zenon DEF shmVars
    <3>2. ASSUME NEW q \in Pids, pstate[q] = "running"
          PROVE  pt[q] = UNION {Entries(r)' : r \in MapsOf(q)'}
      <4>1. pt[q] = UNION {Entries(r) : r \in MapsOf(q)}
        BY <1>0, <3>2, Zenon DEF TableInv
      <4> QED BY <2>2, <4>1, Zenon
    <3> QED BY <1>0, <3>1, <3>2, Zenon DEF TableInv
  <2> QED BY <1>1, <2>2, <2>3, <2>4, Zenon DEF IpcInv
<1> QED BY <1>1, <1>4, <1>5, <1>6, <1>7, <1>8, <1>9, <1>10, Zenon DEF IpcNext, IpcInv

(* The inductive invariant holds in every reachable state: messages,       *)
(* handles, frames, records, and the process table together.               *)
THEOREM IpcInvariance == IpcSpec => []IpcInv
<1>1. IpcInit => IpcInv
  BY IpcAssumption, IpcStart, Zenon
<1>2. IpcInv /\ [IpcNext]_ipcVars => IpcInv'
  BY IpcAssumption, IpcStep, Zenon
<1> QED BY <1>1, <1>2, PTL DEF IpcSpec

(* A shared page that a running process can touch is a frame of the live   *)
(* object its mapping record names, with the rights of the record; no      *)
(* frame that shm.rs gave back to the allocator is mapped.                 *)
THEOREM MappingsOwned == IpcSpec => []MappedFramesOwned
<1>1. ASSUME IpcInv PROVE MappedFramesOwned
  <2> SUFFICES ASSUME NEW p \in Pids, pstate[p] = "running"
               PROVE  /\ \A e \in pt[p] : e.frame \notin freeFrames
                      /\ pt[p] = UNION {Entries(r) : r \in MapsOf(p)}
    BY Zenon DEF MappedFramesOwned
  <2>1. pt[p] = UNION {Entries(r) : r \in MapsOf(p)}
    BY <1>1, Zenon DEF IpcInv, TableInv
  <2>2. ASSUME NEW r \in MapsOf(p), NEW e \in Entries(r) PROVE e.frame \notin freeFrames
    <3>1. r \in maps /\ maps \in SUBSET Records /\ IsFiniteSet(maps) /\ obj \in [Slots -> Objects]
      BY <1>1, Zenon DEF MapsOf, IpcInv, ShmInv, ShmTypes
    <3>2. r.obj \in Slots /\ r.pages \in Nat
      BY <3>1, RecordFacts, Zenon
    <3>3. obj[r.obj].in_use /\ r.pages = Len(obj[r.obj].frames)
      BY <1>1, <3>1, Zenon DEF IpcInv, ShmInv, MapInv, Recorded
    <3>4. PICK fs \in Seq(Frames) : fs = obj[r.obj].frames
      BY <3>1, <3>2, Fields, Zenon
    <3>5. PICK i \in 1..r.pages : e = [page |-> r.addr + i - 1, frame |-> fs[i], write |-> r.rights = RW]
      BY <3>4, Zenon DEF Entries
    <3>6. e.frame = fs[i]
      BY Zenon, <3>5
    <3>7. i \in DOMAIN fs
      <4>1. r.pages = Len(fs)
        BY <3>3, <3>4, Zenon
      <4> QED BY <4>1
    <3>8. fs[i] \notin freeFrames
      BY <1>1, <3>2, <3>3, <3>4, <3>7, Zenon DEF IpcInv, ShmInv, FrameInv, Owned
    <3> QED BY <3>6, <3>8, Zenon
  <2> QED BY <2>1, <2>2, Zenon
<1> QED BY <1>1, IpcInvariance, PTL

(* A handle that still resolves names the object it was issued for, as     *)
(* long as a boot makes fewer objects than there are generations.          *)
THEOREM HandlesNameTheirObject == IpcSpec => []HandleNamesItsObject
<1>1. ASSUME IpcInv PROVE HandleNamesItsObject
  <2> SUFFICES ASSUME NEW h \in issued, Resolves(h), NEW k \in issued, k.slot = h.slot
               PROVE  k.made <= h.made
    BY Zenon DEF HandleNamesItsObject
  <2>1. HandleInv
    BY <1>1, Zenon DEF IpcInv, ShmInv
  <2>2. \A x \in issued : x.slot \in Slots /\ x.gen \in Nat /\ x.made \in Nat
    BY Zenon, <2>1 DEF HandleInv
  <2>3. PICK n : n = Cardinality(Issued(h.slot))
    BY Zenon
  <2>4. h.gen = n
    <3>1. obj[h.slot].in_use /\ obj[h.slot].gen = h.gen
      BY Zenon DEF Resolves
    <3> QED BY <2>1, <2>2, <2>3, <3>1, Zenon DEF HandleInv, Numbered
  <2>5. h.gen = h.made + 1 /\ k.gen = k.made + 1 /\ k.gen <= n
    BY <2>1, <2>3, Zenon DEF HandleInv
  <2> QED BY <2>2, <2>4, <2>5
<1> QED BY <1>1, IpcInvariance, PTL

(* Whoever sees a process TERMINATED finds its inbox, its names, its       *)
(* mappings and its objects' handles gone.                                 *)
THEOREM GoneReleased == IpcSpec => []GoneMeansReleased
<1>1. ASSUME IpcInv PROVE GoneMeansReleased
  <2> SUFFICES ASSUME NEW p \in Pids, pstate[p] = "terminated"
               PROVE  /\ ~Open(p) /\ NamesOf(p) = {} /\ MapsOf(p) = {}
                      /\ \A s \in Slots : obj[s].in_use /\ obj[s].owner = p => obj[s].dying
    BY Zenon DEF GoneMeansReleased
  <2>0. /\ pstate[p] # "running" /\ pstate[p] \in {"exit_state", "terminated"}
        /\ pstate[p] \in {"exit_msg", "exit_state", "terminated"}
    OBVIOUS
  <2>1. ~Open(p)
    BY <1>1, <2>0, Zenon DEF IpcInv, LifeInv
  <2>2. MapsOf(p) = {} /\ \A s \in Slots : obj[s].in_use /\ obj[s].owner = p => obj[s].dying
    BY <1>1, <2>0, Zenon DEF IpcInv, LifeInv
  <2>3. NamesOf(p) = {}
    BY <1>1, <2>1, IpcAssumption, Zenon DEF IpcInv, MsgInv, NamesOf, ConstantsOK
  <2> QED BY <2>1, <2>2, <2>3, Zenon
<1> QED BY <1>1, IpcInvariance, PTL
=============================================================================
