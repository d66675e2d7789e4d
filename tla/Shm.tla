-------------------------------- MODULE Shm --------------------------------
(***************************************************************************)
(* Shared memory (kernel/rust/shm.rs): objects made of physical frames,    *)
(* handles that carry a generation, grants of rights, and the mapping      *)
(* records that keep an object's frames alive.  Every call is made under   *)
(* the STATE spinlock.  Addresses and sizes are counted in pages.  The     *)
(* frame allocator and the page tables belong to the memory manager in C:  *)
(* freeFrames and pt model what shm.rs asks of them.                       *)
(***************************************************************************)
EXTENDS Proc, Integers, Sequences, FiniteSets, FiniteSetsExt, Functions

CONSTANTS
  NObjects,        \* MAX_OBJECTS
  MaxPages,        \* MAX_PAGES_PER_OBJECT
  MaxPerOwner,     \* MAX_OBJECTS_PER_OWNER
  MaxTotal,        \* MAX_TOTAL_PAGES
  MaxGrants,       \* MAX_GRANTS
  MaxRecords,      \* MAX_MAP_RECORDS
  MaxMapsPerProc,  \* MAX_MAPS_PER_PROC
  VirtEnd,         \* pages of the region SHM_VIRT_BASE .. SHM_VIRT_END
  Frames,          \* physical frames the allocator can give
  GenMod,          \* generations have 24 bits: 2^24
  MaxMade          \* bound on the objects created in a behaviour

VARIABLES
  obj,             \* obj[s]: the object in slot s
  maps,            \* the mapping records in use
  totalPages,      \* total_pages
  freeFrames,      \* frames the allocator holds
  pt,              \* pt[p]: the PAGE_SHM entries of p's page tables
  issued           \* history: handles given out, with the object they named

shmVars == <<obj, maps, totalPages, freeFrames, pt, issued>>

READ == 1
WRITE == 2
RW == 3
Slots == 1..NObjects

EmptyObj(gen) == [in_use |-> FALSE, dying |-> FALSE, gen |-> gen, owner |-> 0,
                  frames |-> <<>>, map_count |-> 0, rights |-> [p \in Pids |-> 0]]
\* next_gen: generations wrap; 0 belongs to no handle.
NextGen(g) == IF g + 1 = GenMod THEN 1 ELSE g + 1

ShmInit ==
  /\ obj = [s \in Slots |-> EmptyObj(0)]
  /\ maps = {} /\ totalPages = 0
  /\ freeFrames = Frames
  /\ pt = [p \in Pids |-> {}]
  /\ issued = {}

\* lookup(): a handle names its slot's object only while the generations agree.
Resolves(h) == obj[h.slot].in_use /\ ~obj[h.slot].dying /\ obj[h.slot].gen = h.gen
\* The handle of the object now in slot s, and which object that is.
Issued(s) == {h \in issued : h.slot = s}
HandleFor(s, o) == [slot |-> s, gen |-> o.gen, made |-> Cardinality(Issued(s))]
RightsOf(s, p) == IF obj[s].owner = p THEN RW ELSE obj[s].rights[p]
Pages(s) == Len(obj[s].frames)
MapsOf(p) == {r \in maps : r.pid = p}

\* free_object without the new generation (for a mutation).
FreeKeepsGen(objs, s) == EmptyObj(objs[s].gen)

\* free_object: the slot is emptied and gets its next generation.
FreedObject(objs, s) == EmptyObj(NextGen(objs[s].gen))

\* free_object on every slot of `gone', in the object table `objs'.
FreeObjects(objs, gone) ==
  /\ obj' = [s \in Slots |-> IF s \in gone THEN FreedObject(objs, s) ELSE objs[s]]
  /\ freeFrames' = freeFrames \cup UNION {Range(objs[s].frames) : s \in gone}
  /\ totalPages' = totalPages - MapThenSumSet(LAMBDA s : Len(objs[s].frames), gone)

\* Slots whose object is dying and unmapped.
Unreferenced(objs) == {s \in Slots : objs[s].in_use /\ objs[s].dying /\ objs[s].map_count = 0}

---------------------------------------------------------------------------
\* create(): limits first, then the first free slot and whichever frames the
\* allocator gives; too few gives them all back.
Create(p, pages) ==
  /\ Cardinality({t \in Slots : obj[t].in_use /\ obj[t].owner = p /\ ~obj[t].dying}) < MaxPerOwner
  /\ totalPages + pages <= MaxTotal
  /\ Cardinality(issued) < MaxMade
  /\ \E s \in Slots, fs \in Injection(1..pages, freeFrames) :
       LET o == [EmptyObj(IF obj[s].gen = 0 THEN 1 ELSE obj[s].gen) EXCEPT
                   !.in_use = TRUE, !.owner = p, !.frames = fs]
       IN /\ ~obj[s].in_use /\ \A t \in 1..(s - 1) : obj[t].in_use
          /\ obj' = [obj EXCEPT ![s] = o]
          /\ freeFrames' = freeFrames \ Range(fs)
          /\ issued' = issued \cup {HandleFor(s, o)}
  /\ totalPages' = totalPages + pages
  /\ UNCHANGED <<maps, pt>>

\* grant(): rights 0 revokes; existing mappings are not touched.
Grant(p, h, target, rights) ==
  /\ Resolves(h) /\ obj[h.slot].owner = p /\ target # p
  /\ rights # 0 =>
       /\ Live(target)
       /\ \/ obj[h.slot].rights[target] # 0
          \/ Cardinality({q \in Pids : obj[h.slot].rights[q] # 0}) < MaxGrants
  /\ obj' = [obj EXCEPT ![h.slot].rights[target] = rights]
  /\ UNCHANGED <<maps, totalPages, freeFrames, pt, issued>>

\* find_gap: spans already mapped, each with its guard page; the lowest address
\* at the base or after a span where `need' pages fit, or none.
Gaps(p, need) ==
  LET span(r) == r.addr .. r.addr + r.pages
      used == UNION {span(r) : r \in MapsOf(p)}
  IN {a \in {0} \cup {r.addr + r.pages + 1 : r \in MapsOf(p)} :
        a + need <= VirtEnd /\ (a .. a + need - 1) \cap used = {}}

Entries(r) == {[page |-> r.addr + i - 1, frame |-> obj[r.obj].frames[i],
                write |-> r.rights = RW] : i \in 1..r.pages}

\* map(): a page that cannot be mapped undoes the ones before it (no change).
Map(p, h, want) ==
  LET s == h.slot
      gaps == Gaps(p, Pages(s) + 1)
  IN /\ Resolves(h)
     /\ RightsOf(s, p) \in {want, RW}
     /\ \A q \in MapsOf(p) : q.obj # s
     /\ Cardinality(MapsOf(p)) < MaxMapsPerProc /\ Cardinality(maps) < MaxRecords
     /\ \E a \in gaps :
          LET r == [pid |-> p, addr |-> a, pages |-> Pages(s), obj |-> s, rights |-> want]
          IN /\ \A b \in gaps : a <= b
             /\ maps' = maps \cup {r}
             /\ pt' = [pt EXCEPT ![p] = @ \cup Entries(r)]
     /\ obj' = [obj EXCEPT ![s].map_count = @ + 1]
     /\ UNCHANGED <<totalPages, freeFrames, issued>>

\* unmap(): the pages, the record, the count, and the last mapping of a dying
\* object frees it.
Unmap(p, r) ==
  LET objs == [obj EXCEPT ![r.obj].map_count = @ - 1]
  IN /\ r.pid = p
     /\ pt' = [pt EXCEPT ![p] = @ \ Entries(r)]
     /\ maps' = maps \ {r}
     /\ FreeObjects(objs, Unreferenced(objs) \cap {r.obj})
     /\ UNCHANGED issued

\* destroy frees a mapped object at once (for a mutation).
DestroyNow(p, h) ==
  /\ Resolves(h) /\ obj[h.slot].owner = p
  /\ FreeObjects(obj, {h.slot})
  /\ UNCHANGED <<maps, pt, issued>>

\* destroy(): the object dies when its last mapping goes.
Destroy(p, h) ==
  LET objs == [obj EXCEPT ![h.slot].dying = TRUE]
  IN /\ Resolves(h) /\ obj[h.slot].owner = p
     /\ FreeObjects(objs, Unreferenced(objs) \cap {h.slot})
     /\ UNCHANGED <<maps, pt, issued>>

\* process_exit(): owned objects die, records and grants of p go, and whatever
\* is then unreferenced is freed.  Page tables are left for the reaper.
ShmExit(p) ==
  LET mapped(s) == Cardinality({r \in MapsOf(p) : r.obj = s})
      objs == [s \in Slots |->
         IF obj[s].in_use
         THEN [obj[s] EXCEPT !.dying = @ \/ obj[s].owner = p,
                             !.map_count = @ - mapped(s), !.rights[p] = 0]
         ELSE obj[s]]
  IN /\ maps' = maps \ MapsOf(p)
     /\ FreeObjects(objs, Unreferenced(objs))
     /\ UNCHANGED <<pt, issued>>

\* fork(): the child's records, all or none.
ForkFits(p) == Cardinality(MapsOf(p)) <= MaxRecords - Cardinality(maps)
ShmFork(p, c) ==
  /\ maps' = maps \cup {[r EXCEPT !.pid = c] : r \in MapsOf(p)}
  /\ obj' = [s \in Slots |-> [obj[s] EXCEPT
               !.map_count = @ + Cardinality({r \in MapsOf(p) : r.obj = s})]]
  /\ UNCHANGED <<totalPages, freeFrames, issued>>
=============================================================================
