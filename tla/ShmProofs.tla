----------------------------- MODULE ShmProofs -----------------------------
(***************************************************************************)
(* Proofs about the shared memory of module Ipc and about the exit path,   *)
(* for every number of processes, objects, frames and mapping records.     *)
(***************************************************************************)
EXTENDS Ipc, FiniteSetTheorems, TLAPS

\* What the call leaves alone in an object it changes.
Alike(o, q) == /\ q.in_use = o.in_use /\ q.gen = o.gen
               /\ q.frames = o.frames /\ q.owner = o.owner

\* What a call of p leaves to the other processes: their records and page
\* tables, their objects, and the frames behind every record.
Others(p) ==
  /\ \A q \in Pids \ {p} : MapsOf(q)' = MapsOf(q) /\ pt'[q] = pt[q]
  /\ \A s \in Slots : obj'[s].in_use /\ obj'[s].owner # p =>
       obj[s].in_use /\ obj'[s].owner = obj[s].owner /\ (obj[s].dying => obj'[s].dying)
  /\ \A r \in maps \cap maps' : obj'[r.obj].frames = obj[r.obj].frames

\* What free_object() does to the objects of `gone' in the table o.
Frees(o, gone) ==
  /\ obj' \in [Slots -> Objects]
  /\ \A s \in Slots \ gone : obj'[s] = o[s]
  /\ \A s \in gone : /\ obj'[s].in_use = FALSE /\ obj'[s].gen = NextGen(o[s].gen)
                     /\ obj'[s].map_count = 0 /\ obj'[s].dying = FALSE
  /\ freeFrames' = freeFrames \cup UNION {Range(o[s].frames) : s \in gone}

-----------------------------------------------------------------------------
(* The fields of an object: a count, a mark or a right is set, and the     *)
(* slot is emptied.                                                        *)
LEMMA Fields ==
    ASSUME NEW o \in Objects
    PROVE  /\ o.in_use \in BOOLEAN /\ o.dying \in BOOLEAN /\ o.gen \in Nat
           /\ o.owner \in Pids \cup {0} /\ o.frames \in Seq(Frames)
           /\ o.map_count \in Int /\ o.rights \in [Pids -> Rights \cup {0}]
BY Zenon DEF Objects

(* A step of map_count changes nothing that names, owns or frees the       *)
(* object.                                                                 *)
LEMMA Counted ==
    ASSUME NEW o \in Objects, NEW k \in Int, NEW q, q = [o EXCEPT !.map_count = k]
    PROVE  q \in Objects /\ Alike(o, q) /\ q.map_count = k /\ q.dying = o.dying
BY Zenon DEF Objects, Alike

(* Neither does the dying mark.                                            *)
LEMMA Marked ==
    ASSUME NEW o \in Objects, NEW q, q = [o EXCEPT !.dying = TRUE]
    PROVE  q \in Objects /\ Alike(o, q) /\ q.map_count = o.map_count /\ q.dying = TRUE
BY Zenon DEF Objects, Alike

(* Neither does a right.                                                   *)
LEMMA Granted ==
    ASSUME NEW o \in Objects, NEW p \in Pids, NEW v \in Rights \cup {0},
           NEW q, q = [o EXCEPT !.rights[p] = v]
    PROVE  q \in Objects /\ Alike(o, q) /\ q.map_count = o.map_count /\ q.dying = o.dying
<1>1. PICK f \in [Pids -> Rights \cup {0}] : f = [o.rights EXCEPT ![p] = v]
  BY Fields, Zenon
<1>2. q = [o EXCEPT !.rights = f]
  BY Zenon, <1>1 DEF Objects
<1> QED BY Zenon, <1>2 DEF Objects, Alike

(* What free_object() leaves in the slot: no owner, no frames, no          *)
(* mappings, and the generation it was given.                              *)
LEMMA Emptied ==
    ASSUME NEW g \in Nat, NEW q, q = EmptyObj(g)
    PROVE  /\ q \in Objects /\ q.in_use = FALSE /\ q.dying = FALSE /\ q.gen = g
           /\ q.owner = 0 /\ q.frames = <<>> /\ q.map_count = 0
BY DEF Objects, EmptyObj

(* The invariants look only at the fields that calls on a live object      *)
(* leave alone.                                                            *)
LEMMA NumberedAlike ==
    ASSUME NEW o, NEW q, Numbered(o), \A s \in Slots : Alike(o[s], q[s])
    PROVE  Numbered(q)
BY Zenon DEF Numbered, Alike

(* Which frames are owned depends on in_use and frames only.               *)
LEMMA OwnedAlike ==
    ASSUME NEW o, NEW q, NEW free, Owned(o, free), \A s \in Slots : Alike(o[s], q[s])
    PROVE  Owned(q, free)
<1>1. \A s \in Slots : q[s].in_use = o[s].in_use /\ q[s].frames = o[s].frames
  BY Zenon DEF Alike
<1>2. \A s \in Slots : q[s].in_use => \A i \in DOMAIN q[s].frames : q[s].frames[i] \notin free
  BY <1>1, Zenon DEF Owned
<1>3. ASSUME NEW s \in Slots, NEW t \in Slots, q[s].in_use, q[t].in_use,
             NEW i \in DOMAIN q[s].frames, NEW j \in DOMAIN q[t].frames,
             q[s].frames[i] = q[t].frames[j]
      PROVE  s = t /\ i = j
  <2>1. o[s].in_use /\ o[t].in_use /\ i \in DOMAIN o[s].frames /\ j \in DOMAIN o[t].frames
    BY <1>1, <1>3, Zenon
  <2>2. o[s].frames[i] = o[t].frames[j]
    BY <1>1, <1>3, Zenon
  <2> QED BY <2>1, <2>2 DEF Owned
<1>4. ASSUME NEW f \in Frames \ free
      PROVE  \E s \in Slots : q[s].in_use /\ \E i \in DOMAIN q[s].frames : q[s].frames[i] = f
  <2>1. PICK s \in Slots : o[s].in_use /\ \E i \in DOMAIN o[s].frames : o[s].frames[i] = f
    BY Zenon DEF Owned
  <2> QED BY <1>1, <2>1, Zenon
<1> QED BY <1>2, <1>3, <1>4, Zenon DEF Owned

(* free_object() on slots whose object is in use.                          *)
LEMMA FreeEffects ==
    ASSUME ConstantsOK, NEW o \in [Slots -> Objects], NEW gone \in SUBSET Slots,
           FreeObjects(o, gone)
    PROVE  Frees(o, gone)
<1>1. \A g \in Nat : NextGen(g) \in Nat
  BY DEF NextGen
<1>2. ASSUME NEW s \in gone
      PROVE  /\ obj'[s] \in Objects
             /\ obj'[s].in_use = FALSE /\ obj'[s].gen = NextGen(o[s].gen)
             /\ obj'[s].map_count = 0 /\ obj'[s].dying = FALSE
  <2>1. obj'[s] = EmptyObj(NextGen(o[s].gen)) /\ o[s] \in Objects
    BY Zenon DEF FreeObjects, FreedObject
  <2>2. PICK g \in Nat : g = NextGen(o[s].gen)
    BY <1>1, <2>1, Fields, Zenon
  <2>3. PICK q : q = EmptyObj(g) /\ q = obj'[s]
    BY <2>1, <2>2, Zenon
  <2>4. q \in Objects /\ q.in_use = FALSE /\ q.dying = FALSE /\ q.gen = g /\ q.map_count = 0
    BY <2>3, Emptied, Zenon
  <2> QED BY <2>2, <2>3, <2>4, Zenon
<1>3. ASSUME NEW s \in Slots \ gone
      PROVE  obj'[s] = o[s] /\ o[s] \in Objects
  BY Zenon DEF FreeObjects
<1>4. obj' = [s \in Slots |-> obj'[s]]
  BY Zenon DEF FreeObjects
<1>5. obj' \in [Slots -> Objects]
  BY <1>2, <1>3, <1>4, Zenon
<1> QED BY <1>2, <1>3, <1>5, Zenon DEF FreeObjects, Frees

(* free_object() moves the slot on to the generation after the last handle *)
(* it issued.                                                              *)
LEMMA FreeNumbered ==
    ASSUME ConstantsOK, NEW o \in [Slots -> Objects], NEW gone \in SUBSET Slots,
           FreeObjects(o, gone), Numbered(o), \A s \in gone : o[s].in_use, issued' = issued
    PROVE  Numbered(obj)'
<1>0. Frees(o, gone)
  BY FreeEffects, Zenon
<1>1. \A s \in Slots : Issued(s)' = Issued(s)
  BY Zenon DEF Issued
<1>2. ASSUME NEW s \in gone, NEW n, n = Cardinality(Issued(s))
      PROVE  ~obj'[s].in_use /\ obj'[s].gen = IF n = 0 THEN 0 ELSE NextGen(n)
  <2>1. o[s].in_use /\ s \in Slots
    BY Zenon
  <2>2. n > 0 /\ o[s].gen = n
    BY <1>2, <2>1, Zenon DEF Numbered
  <2>3. n # 0
    BY <2>2
  <2>4. obj'[s].in_use = FALSE /\ obj'[s].gen = NextGen(n)
    BY <2>2, <1>0, Zenon DEF Frees
  <2> QED BY <2>3, <2>4, Zenon
<1>3. \A s \in Slots \ gone : obj'[s] = o[s]
  BY <1>0, Zenon DEF Frees
<1>4. ASSUME NEW s \in Slots, NEW n, n = Cardinality(Issued(s)')
      PROVE  IF obj'[s].in_use THEN n > 0 /\ obj'[s].gen = n
             ELSE obj'[s].gen = IF n = 0 THEN 0 ELSE NextGen(n)
  <2>1. n = Cardinality(Issued(s))
    BY <1>1, <1>4, Zenon
  <2>2. CASE s \in gone
    BY <1>2, <2>1, <2>2, Zenon
  <2>3. CASE s \notin gone
    BY <1>3, <2>1, <2>3, Zenon DEF Numbered
  <2> QED BY <2>2, <2>3, Zenon
<1> QED BY <1>4, Zenon DEF Numbered

(* free_object() returns exactly the frames of the objects it frees.       *)
LEMMA FreeOwned ==
    ASSUME ConstantsOK, NEW o \in [Slots -> Objects], NEW gone \in SUBSET Slots,
           FreeObjects(o, gone), Owned(o, freeFrames), \A s \in gone : o[s].in_use
    PROVE  Owned(obj, freeFrames)'
<1>0. Frees(o, gone)
  BY FreeEffects, Zenon
<1>1. \A s \in Slots : obj'[s].in_use => s \notin gone /\ obj'[s] = o[s]
  BY <1>0, Zenon DEF Frees
<1>2. \A s \in Slots \ gone : obj'[s] = o[s]
  BY <1>0, Zenon DEF Frees
<1>3. freeFrames' = freeFrames \cup UNION {Range(o[s].frames) : s \in gone}
  BY <1>0, Zenon DEF Frees
<1>4. ASSUME NEW s \in Slots, obj'[s].in_use, NEW i \in DOMAIN obj'[s].frames
      PROVE  obj'[s].frames[i] \notin freeFrames'
  <2>1. s \notin gone /\ o[s].in_use /\ obj'[s] = o[s]
    BY <1>1, <1>4, Zenon
  <2>2. ASSUME NEW t \in gone, NEW j \in DOMAIN o[t].frames
        PROVE  o[s].frames[i] # o[t].frames[j]
    <3>1. t \in Slots /\ o[t].in_use /\ s # t
      BY <2>1, Zenon
    <3>2. i \in DOMAIN o[s].frames
      BY <2>1, Zenon
    <3> QED BY <2>1, <3>1, <3>2 DEF Owned
  <2>3. o[s].frames[i] \notin freeFrames
    BY <2>1, Zenon DEF Owned
  <2>4. \A t \in gone : o[s].frames[i] \notin Range(o[t].frames)
    BY <2>2, Zenon DEF Range
  <2> QED BY <1>3, <2>1, <2>3, <2>4, Zenon
<1>5. ASSUME NEW s \in Slots, NEW t \in Slots, obj'[s].in_use, obj'[t].in_use,
             NEW i \in DOMAIN obj'[s].frames, NEW j \in DOMAIN obj'[t].frames,
             obj'[s].frames[i] = obj'[t].frames[j]
      PROVE  s = t /\ i = j
  <2>1. obj'[s] = o[s] /\ obj'[t] = o[t]
    BY <1>1, <1>5, Zenon
  <2>2. o[s].in_use /\ o[t].in_use /\ i \in DOMAIN o[s].frames /\ j \in DOMAIN o[t].frames
    BY <1>5, <2>1, Zenon
  <2> QED BY <1>5, <2>1, <2>2 DEF Owned
<1>6. ASSUME NEW f \in Frames \ freeFrames'
      PROVE  \E s \in Slots : obj'[s].in_use /\ \E i \in DOMAIN obj'[s].frames : obj'[s].frames[i] = f
  <2>1. f \in Frames \ freeFrames /\ \A s \in gone : f \notin Range(o[s].frames)
    BY <1>3, Zenon
  <2>2. PICK s \in Slots : o[s].in_use /\ \E i \in DOMAIN o[s].frames : o[s].frames[i] = f
    BY <2>1, Zenon DEF Owned
  <2>3. s \notin gone
    BY <2>1, <2>2, Zenon DEF Range
  <2> QED BY <1>2, <2>2, <2>3, Zenon
<1> QED BY <1>4, <1>5, <1>6, Zenon DEF Owned

(* Which records there are of an object, and of a process.                 *)
LEMMA RecordFacts ==
    ASSUME NEW m \in SUBSET Records, IsFiniteSet(m)
    PROVE  /\ \A r \in m : /\ r.pid \in Pids /\ r.obj \in Slots /\ r.addr \in Nat
                           /\ r.pages \in Nat /\ r.rights \in {READ, RW}
           /\ \A s : LET S == {r \in m : r.obj = s} IN
                IsFiniteSet(S) /\ Cardinality(S) \in Nat /\ (Cardinality(S) = 0 <=> S = {})
           /\ \A p : LET S == {r \in m : r.pid = p} IN
                IsFiniteSet(S) /\ Cardinality(S) \in Nat
<1>1. \A r \in m : /\ r.pid \in Pids /\ r.obj \in Slots /\ r.addr \in Nat
                   /\ r.pages \in Nat /\ r.rights \in {READ, RW}
  BY Zenon DEF Records
<1>2. ASSUME NEW S \in SUBSET m
      PROVE  IsFiniteSet(S) /\ Cardinality(S) \in Nat /\ (Cardinality(S) = 0 <=> S = {})
  <2>1. IsFiniteSet(S)
    BY FS_Subset, Zenon
  <2> QED BY <2>1, FS_CardinalityType, FS_EmptySet, Zenon
<1>3. ASSUME NEW s
      PROVE  LET S == {r \in m : r.obj = s} IN
             IsFiniteSet(S) /\ Cardinality(S) \in Nat /\ (Cardinality(S) = 0 <=> S = {})
  <2>1. PICK S \in SUBSET m : S = {r \in m : r.obj = s}
    BY Zenon
  <2> QED BY <1>2, <2>1, Zenon
<1>4. ASSUME NEW p
      PROVE  LET S == {r \in m : r.pid = p} IN IsFiniteSet(S) /\ Cardinality(S) \in Nat
  <2>1. PICK S \in SUBSET m : S = {r \in m : r.pid = p}
    BY Zenon
  <2> QED BY <1>2, <2>1, Zenon
<1> QED BY <1>1, <1>3, <1>4, Zenon

(* A call that lets go of records or marks objects, and frees what is then *)
(* unreferenced: unmap(), destroy() and process_exit().                    *)
LEMMA Released ==
    ASSUME ConstantsOK, ShmInv, NEW o \in [Slots -> Objects],
           \A s \in Slots : Alike(obj[s], o[s]), \A s \in Slots : obj[s].dying => o[s].dying,
           FreeObjects(o, Unreferenced(o)), maps' \subseteq maps, Recorded(o, maps'),
           issued' = issued, DOMAIN pt' = Pids
    PROVE  /\ ShmInv'
           /\ \A r \in maps' : obj'[r.obj].frames = obj[r.obj].frames
           /\ \A s \in Slots : obj'[s].in_use =>
                /\ obj[s].in_use /\ obj'[s].owner = obj[s].owner
                /\ obj'[s].dying = o[s].dying
<1> DEFINE gone == Unreferenced(o)
<1>1. gone \in SUBSET Slots /\ \A s \in gone : o[s].in_use /\ o[s].map_count = 0
  BY Zenon DEF Unreferenced
<1>2. Frees(o, gone)
  BY <1>1, FreeEffects, Zenon
<1>3. Numbered(obj)'
  BY <1>1, NumberedAlike, FreeNumbered, Zenon DEF ShmInv, HandleInv
<1>4. HandleInv'
  BY <1>3, Zenon DEF ShmInv, HandleInv, Issued
<1>5. FrameInv'
  BY <1>1, OwnedAlike, FreeOwned, Zenon DEF ShmInv, FrameInv
<1> HIDE DEF gone
<1>6. maps' \in SUBSET Records /\ IsFiniteSet(maps')
  BY FS_Subset, Zenon DEF ShmInv, ShmTypes
<1>7. ASSUME NEW r \in maps'
      PROVE  /\ r.obj \in Slots \ gone /\ obj'[r.obj] = o[r.obj]
             /\ obj'[r.obj].frames = obj[r.obj].frames
  <2>1. r.obj \in Slots
    BY <1>6, RecordFacts, Zenon
  <2>2. Cardinality({q \in maps' : q.obj = r.obj}) # 0
    BY <1>6, RecordFacts, Zenon
  <2>3. r.obj \notin gone
    BY <1>1, <2>1, <2>2, Zenon DEF Recorded
  <2>4. obj'[r.obj] = o[r.obj]
    BY <1>2, <2>1, <2>3, Zenon DEF Frees
  <2> QED BY <2>1, <2>3, <2>4, Zenon DEF Alike
<1>8. Recorded(obj', maps')
  <2>1. \A r \in maps' : obj'[r.obj].in_use /\ r.pages = Len(obj'[r.obj].frames)
    BY <1>7, Zenon DEF Recorded
  <2>2. ASSUME NEW s \in Slots
        PROVE  obj'[s].map_count = Cardinality({r \in maps' : r.obj = s})
    <3>1. obj'[s].map_count = o[s].map_count
      BY <1>1, <1>2, Zenon DEF Frees
    <3> QED BY <3>1, Zenon DEF Recorded
  <2> QED BY <2>1, <2>2, Zenon DEF Recorded
<1>9. Unreferenced(obj)' = {}
  <2> SUFFICES ASSUME NEW s \in Slots, obj'[s].in_use, obj'[s].dying, obj'[s].map_count = 0
               PROVE  FALSE
    BY Zenon DEF Unreferenced
  <2>1. s \notin gone /\ obj'[s] = o[s]
    BY <1>2, Zenon DEF Frees
  <2> QED BY <2>1, Zenon DEF gone, Unreferenced
<1>10. ASSUME NEW p \in Pids
       PROVE  Cardinality(MapsOf(p)') <= MaxMapsPerProc
  <2>0. IsFiniteSet(maps)
    BY Zenon DEF ShmInv, ShmTypes
  <2>1. MapsOf(p)' \in SUBSET MapsOf(p) /\ IsFiniteSet(MapsOf(p))
    BY <2>0, FS_Subset, Zenon DEF MapsOf
  <2>2. /\ Cardinality(MapsOf(p)') \in Nat /\ Cardinality(MapsOf(p)) \in Nat
        /\ Cardinality(MapsOf(p)') <= Cardinality(MapsOf(p))
    BY <2>1, FS_Subset, FS_CardinalityType, Zenon
  <2>3. Cardinality(MapsOf(p)) <= MaxMapsPerProc
    BY Zenon DEF ShmInv, MapInv
  <2> QED BY <2>2, <2>3 DEF ConstantsOK
<1>11. MapInv'
  BY <1>8, <1>9, <1>10, Zenon DEF MapInv
<1>12. freeFrames' \subseteq Frames
  <2>1. ASSUME NEW s \in Slots PROVE Range(o[s].frames) \subseteq Frames
    <3>1. PICK q : q = o[s].frames /\ q \in Seq(Frames)
      BY Fields, Zenon
    <3>2. Range(q) \subseteq Frames
      BY <3>1 DEF Range
    <3> QED BY <3>1, <3>2, Zenon
  <2>2. freeFrames \subseteq Frames
    BY Zenon DEF ShmInv, ShmTypes
  <2>3. freeFrames' = freeFrames \cup UNION {Range(o[s].frames) : s \in gone}
    BY <1>2, Zenon DEF Frees
  <2> QED BY <1>1, <2>1, <2>2, <2>3, Zenon
<1>13. ShmTypes'
  BY <1>2, <1>6, <1>12, Zenon DEF ShmTypes, Frees
<1>14. \A s \in Slots : obj'[s].in_use =>
         obj[s].in_use /\ obj'[s].owner = obj[s].owner /\ obj'[s].dying = o[s].dying
  <2>1. \A s \in Slots : obj'[s].in_use => obj'[s] = o[s]
    BY <1>2, Zenon DEF Frees
  <2>2. \A s \in Slots : o[s].in_use = obj[s].in_use /\ o[s].owner = obj[s].owner
    BY Zenon DEF Alike
  <2> QED BY <2>1, <2>2, Zenon
<1> QED BY <1>4, <1>5, <1>7, <1>11, <1>13, <1>14, Zenon DEF ShmInv

(* Fewer records: the elements taken away are counted.                     *)
LEMMA CardDiff ==
    ASSUME NEW A, IsFiniteSet(A), NEW B \in SUBSET A
    PROVE  Cardinality(A \ B) = Cardinality(A) - Cardinality(B)
<1>1. PICK C : C = A \ B
  BY Zenon
<1>2. IsFiniteSet(B) /\ IsFiniteSet(C) /\ C \cup B = A /\ C \cap B = {}
  BY <1>1, FS_Subset, Zenon
<1>3. Cardinality(A) = Cardinality(C) + Cardinality(B) - Cardinality({})
  BY <1>2, FS_Union, Zenon
<1>4. Cardinality(B) \in Nat /\ Cardinality(C) \in Nat /\ Cardinality({}) = 0
  BY <1>2, FS_CardinalityType, FS_EmptySet, Zenon
<1> QED BY <1>1, <1>3, <1>4

(* The records stay right when no count changes.                           *)
LEMMA RecordedAlike ==
    ASSUME NEW o, NEW q, NEW m \in SUBSET Records, IsFiniteSet(m), Recorded(o, m),
           \A s \in Slots : Alike(o[s], q[s]) /\ q[s].map_count = o[s].map_count
    PROVE  Recorded(q, m)
<1>1. \A r \in m : r.obj \in Slots
  BY RecordFacts, Zenon
<1> QED BY <1>1, Zenon DEF Recorded, Alike

(* shm_destroy(): the mark, and the object itself when nothing maps it.    *)
LEMMA DestroyInv ==
    ASSUME ConstantsOK, ShmInv, NEW p \in Pids, NEW h \in issued, Destroy(p, h)
    PROVE  ShmInv' /\ Others(p) /\ UNCHANGED <<maps, pt>>
<1>1. PICK s \in Slots : s = h.slot
  <2>1. \A k \in [slot : Slots, gen : Nat, made : Nat] : k.slot \in Slots
    OBVIOUS
  <2> QED BY <2>1, Zenon DEF ShmInv, HandleInv
<1>2. obj \in [Slots -> Objects] /\ obj[s] \in Objects /\ maps \in SUBSET Records /\ IsFiniteSet(maps)
  BY Zenon DEF ShmInv, ShmTypes
<1>3. PICK n : n = [obj[s] EXCEPT !.dying = TRUE]
  BY Zenon
<1>4. n \in Objects /\ Alike(obj[s], n) /\ n.map_count = obj[s].map_count /\ n.dying = TRUE
  BY <1>2, <1>3, Marked, Zenon
<1>5. PICK o \in [Slots -> Objects] : o = [obj EXCEPT ![s] = n]
  BY <1>2, <1>4, Zenon
<1>6. o = [obj EXCEPT ![h.slot].dying = TRUE]
  BY <1>1, <1>3, <1>5, Zenon
<1>7. o[s] = n /\ \A t \in Slots \ {s} : o[t] = obj[t]
  BY <1>2, <1>5, Zenon
<1>8. \A t \in Slots : /\ Alike(obj[t], o[t]) /\ o[t].map_count = obj[t].map_count
                       /\ obj[t].dying => o[t].dying
  BY <1>4, <1>7, Zenon DEF Alike
<1>9. Unreferenced(o) \cap {s} = Unreferenced(o)
  BY <1>7, Zenon DEF Unreferenced, ShmInv, MapInv
<1>10. Recorded(o, maps)
  <2>1. Recorded(obj, maps)
    BY Zenon DEF ShmInv, MapInv
  <2> QED BY <1>2, <1>8, <2>1, RecordedAlike, Zenon
<1>11. UNCHANGED <<maps, pt, issued>> /\ FreeObjects(o, Unreferenced(o))
  BY <1>1, <1>6, <1>9, Zenon DEF Destroy
<1>12. DOMAIN pt' = Pids /\ maps' \subseteq maps /\ Recorded(o, maps')
  BY <1>10, <1>11, Zenon DEF ShmInv, ShmTypes
<1>13. /\ ShmInv'
       /\ \A r \in maps' : obj'[r.obj].frames = obj[r.obj].frames
       /\ \A t \in Slots : obj'[t].in_use =>
            obj[t].in_use /\ obj'[t].owner = obj[t].owner /\ obj'[t].dying = o[t].dying
  BY <1>8, <1>11, <1>12, Released, Zenon
<1>14. Others(p)
  BY <1>8, <1>11, <1>13, Zenon DEF Others, MapsOf
<1> QED BY <1>11, <1>13, <1>14, Zenon

(* The pages of different records of a process are different.              *)
LEMMA EntriesApart ==
    ASSUME ShmInv, NEW r \in maps, NEW q \in maps, r.pid = q.pid, r # q
    PROVE  Entries(r) \cap Entries(q) = {}
<1>1. /\ r.addr \in Nat /\ r.pages \in Nat /\ q.addr \in Nat /\ q.pages \in Nat
      /\ r.addr + r.pages < q.addr \/ q.addr + q.pages < r.addr
  BY RecordFacts, Zenon DEF ShmInv, ShmTypes, MapInv, Recorded
<1>2. ASSUME NEW i \in 1..r.pages, NEW j \in 1..q.pages
      PROVE  r.addr + i - 1 # q.addr + j - 1
  BY <1>1
<1>3. \A e \in Entries(r) : \E i \in 1..r.pages : e.page = r.addr + i - 1
  BY DEF Entries
<1>4. \A e \in Entries(q) : \E j \in 1..q.pages : e.page = q.addr + j - 1
  BY DEF Entries
<1> QED BY <1>2, <1>3, <1>4, Zenon

(* The pages of a record whose object has the frames fs.                   *)
EntriesOf(r, fs) ==
  {[page |-> r.addr + i - 1, frame |-> fs[i], write |-> r.rights = RW] : i \in 1..r.pages}

(* The pages of a record depend on nothing but its object's frames.        *)
LEMMA EntriesSame ==
    ASSUME NEW r, obj'[r.obj].frames = obj[r.obj].frames
    PROVE  Entries(r)' = Entries(r)
<1>1. Entries(r) = EntriesOf(r, obj[r.obj].frames)
  BY Zenon DEF Entries, EntriesOf
<1>2. Entries(r)' = EntriesOf(r, obj'[r.obj].frames)
  BY Zenon DEF Entries, EntriesOf
<1> QED BY <1>1, <1>2, Zenon

(* shm_unmap(): pages, record and count, and the object if it was dying.   *)
LEMMA UnmapInv ==
    ASSUME ConstantsOK, ShmInv, NEW p \in Pids, NEW r \in maps, Unmap(p, r),
           pt[p] = UNION {Entries(q) : q \in MapsOf(p)}
    PROVE  ShmInv' /\ Others(p) /\ pt'[p] = UNION {Entries(q)' : q \in MapsOf(p)'}
<1>1. obj \in [Slots -> Objects] /\ maps \in SUBSET Records /\ IsFiniteSet(maps) /\ DOMAIN pt = Pids
  BY Zenon DEF ShmInv, ShmTypes
<1>2. PICK s \in Slots : s = r.obj
  BY <1>1, RecordFacts, Zenon
<1>3. PICK k \in Int : k = obj[s].map_count - 1
  <2>1. obj[s].map_count \in Int
    BY <1>1, Fields, Zenon
  <2> QED BY <2>1
<1>4. PICK n : n = [obj[s] EXCEPT !.map_count = k]
  BY Zenon
<1>5. n \in Objects /\ Alike(obj[s], n) /\ n.map_count = k /\ n.dying = obj[s].dying
  <2>1. obj[s] \in Objects
    BY <1>1, Zenon
  <2>2. PICK x \in Objects : x = obj[s]
    BY <2>1, Zenon
  <2>3. n = [x EXCEPT !.map_count = k]
    BY <1>4, <2>2, Zenon
  <2>4. n \in Objects /\ Alike(x, n) /\ n.map_count = k /\ n.dying = x.dying
    BY Zenon, <2>3, Counted
  <2> QED BY <2>2, <2>4, Zenon
<1>6. PICK o \in [Slots -> Objects] : o = [obj EXCEPT ![s] = n]
  BY <1>1, <1>5, Zenon
<1>7. o = [obj EXCEPT ![r.obj].map_count = @ - 1]
  BY Zenon, <1>2, <1>3, <1>4, <1>6
<1>8. o[s] = n /\ \A t \in Slots \ {s} : o[t] = obj[t]
  BY <1>1, <1>6, Zenon
<1>9. \A t \in Slots : Alike(obj[t], o[t]) /\ o[t].dying = obj[t].dying
  BY <1>5, <1>8, Zenon DEF Alike
<1>10. Unreferenced(o) \cap {s} = Unreferenced(o)
  BY <1>8, Zenon DEF Unreferenced, ShmInv, MapInv
<1>11. /\ issued' = issued /\ maps' = maps \ {r} /\ pt' = [pt EXCEPT ![p] = @ \ Entries(r)]
       /\ FreeObjects(o, Unreferenced(o)) /\ r.pid = p
  BY <1>2, <1>7, <1>10, Zenon DEF Unmap
<1>12. Recorded(o, maps')
  <2>1. Recorded(obj, maps) /\ \A q \in maps : q.obj \in Slots
    BY <1>1, RecordFacts, Zenon DEF ShmInv, MapInv
  <2>2. \A q \in maps' : o[q.obj].in_use /\ q.pages = Len(o[q.obj].frames)
    BY <1>9, <1>11, <2>1, Zenon DEF Recorded, Alike
  <2>3. \A a, b \in maps' : a.pid = b.pid /\ a # b => a.addr + a.pages < b.addr \/ b.addr + b.pages < a.addr
    BY <1>11, <2>1, Zenon DEF Recorded
  <2>4. ASSUME NEW t \in Slots
        PROVE  o[t].map_count = Cardinality({q \in maps' : q.obj = t})
    <3>0. PICK S : S = {q \in maps : q.obj = t}
      BY Zenon
    <3>1. S = {q \in maps : q.obj = t} /\ IsFiniteSet(S) /\ obj[t].map_count = Cardinality(S)
      BY <1>1, <2>1, <3>0, FS_Subset, Zenon DEF Recorded
    <3>2. {q \in maps' : q.obj = t} = S \ {r}
      BY <1>11, <3>1, Zenon
    <3>3. r \in S <=> t = s
      BY <1>2, <3>1, Zenon
    <3>4. Cardinality(S \ {r}) = IF r \in S THEN Cardinality(S) - 1 ELSE Cardinality(S)
      BY <3>1, FS_RemoveElement, Zenon
    <3> QED BY <1>3, <1>5, <1>8, <3>1, <3>2, <3>3, <3>4, Zenon
  <2> QED BY <2>2, <2>3, <2>4, Zenon DEF Recorded
<1>13. DOMAIN pt' = Pids /\ maps' \subseteq maps
  BY <1>1, <1>11, Zenon
<1>14. /\ ShmInv'
       /\ \A q \in maps' : obj'[q.obj].frames = obj[q.obj].frames
       /\ \A t \in Slots : obj'[t].in_use =>
            obj[t].in_use /\ obj'[t].owner = obj[t].owner /\ obj'[t].dying = o[t].dying
  BY <1>9, <1>11, <1>12, <1>13, Released, Zenon
<1>15. Others(p)
  <2>1. \A q \in Pids \ {p} : MapsOf(q)' = MapsOf(q) /\ pt'[q] = pt[q]
    BY <1>1, <1>11, Zenon DEF MapsOf
  <2> QED BY <1>9, <1>14, <2>1, Zenon DEF Others
<1>16. pt'[p] = UNION {Entries(q)' : q \in MapsOf(p)'}
  <2>1. MapsOf(p)' = MapsOf(p) \ {r} /\ \A q \in MapsOf(p) : q \in maps /\ q.pid = p
    BY <1>11, Zenon DEF MapsOf
  <2>2. \A q \in MapsOf(p)' : Entries(q)' = Entries(q)
    BY <1>14, EntriesSame, Zenon DEF MapsOf
  <2>3. \A q \in MapsOf(p)' : Entries(q) \cap Entries(r) = {}
    BY <1>11, <2>1, EntriesApart, Zenon
  <2>4. pt'[p] = (UNION {Entries(q) : q \in MapsOf(p)}) \ Entries(r)
    BY <1>1, <1>11, Zenon
  <2>5. pt'[p] = UNION {Entries(q) : q \in MapsOf(p)'}
    <3>1. ASSUME NEW e \in pt'[p] PROVE \E q \in MapsOf(p)' : e \in Entries(q)
      <4>1. PICK q \in MapsOf(p) : e \in Entries(q) /\ e \notin Entries(r)
        BY <2>4, Zenon
      <4> QED BY <2>1, <4>1, Zenon
    <3>2. ASSUME NEW q \in MapsOf(p)', NEW e \in Entries(q) PROVE e \in pt'[p]
      BY <2>1, <2>3, <2>4, Zenon
    <3> QED BY <3>1, <3>2, Zenon
  <2> QED BY <2>2, <2>5, Zenon
<1> QED BY <1>14, <1>15, <1>16, Zenon

(* shm_grant() changes one right and nothing that the invariants look at.  *)
LEMMA GrantInv ==
    ASSUME ConstantsOK, ShmInv, NEW p \in Pids, NEW h \in issued, NEW q \in Pids,
           NEW v \in Rights, Grant(p, h, q, v)
    PROVE  ShmInv' /\ Others(p) /\ UNCHANGED <<maps, pt>>
           /\ \A s \in Slots : obj'[s].frames = obj[s].frames
<1>1. PICK s \in Slots : s = h.slot
  <2>1. \A k \in [slot : Slots, gen : Nat, made : Nat] : k.slot \in Slots
    OBVIOUS
  <2> QED BY <2>1, Zenon DEF ShmInv, HandleInv
<1>2. obj \in [Slots -> Objects] /\ obj[s] \in Objects /\ maps \in SUBSET Records /\ IsFiniteSet(maps)
  BY Zenon DEF ShmInv, ShmTypes
<1>3. PICK n : n = [obj[s] EXCEPT !.rights[q] = v]
  BY Zenon
<1>4. n \in Objects /\ Alike(obj[s], n) /\ n.map_count = obj[s].map_count /\ n.dying = obj[s].dying
  <2>1. PICK x \in Objects : x = obj[s]
    BY <1>2, Zenon
  <2>2. n = [x EXCEPT !.rights[q] = v]
    BY <1>3, <2>1, Zenon
  <2>3. v \in Rights \cup {0}
    BY Zenon
  <2>4. n \in Objects /\ Alike(x, n) /\ n.map_count = x.map_count /\ n.dying = x.dying
    BY <2>2, <2>3, Granted
  <2> QED BY <2>1, <2>4, Zenon
<1>5. UNCHANGED <<maps, freeFrames, pt, issued>> /\ obj' = [obj EXCEPT ![s] = n]
  BY <1>1, <1>3, Zenon DEF Grant
<1>6. obj' \in [Slots -> Objects] /\ obj'[s] = n /\ \A t \in Slots \ {s} : obj'[t] = obj[t]
  BY <1>2, <1>4, <1>5, Zenon
<1>7. \A t \in Slots : /\ Alike(obj[t], obj'[t]) /\ obj'[t].map_count = obj[t].map_count
                       /\ obj'[t].dying = obj[t].dying
  BY <1>4, <1>6, Zenon DEF Alike
<1>8. Numbered(obj') /\ Owned(obj', freeFrames) /\ Recorded(obj', maps)
  <2>1. Numbered(obj) /\ Owned(obj, freeFrames) /\ Recorded(obj, maps)
    BY Zenon DEF ShmInv, HandleInv, FrameInv, MapInv
  <2>2. Numbered(obj')
    BY <1>7, <2>1, NumberedAlike, Zenon
  <2>3. Owned(obj', freeFrames)
    BY <1>7, <2>1, OwnedAlike, Zenon
  <2>4. Recorded(obj', maps)
    <3>1. PICK o : o = obj'
      BY Zenon
    <3>2. \A t \in Slots : Alike(obj[t], o[t]) /\ o[t].map_count = obj[t].map_count
      BY <1>7, <3>1, Zenon
    <3>3. Recorded(o, maps)
      BY <1>2, <2>1, <3>2, RecordedAlike, Zenon
    <3> QED BY <3>1, <3>3, Zenon
  <2> QED BY <2>2, <2>3, <2>4, Zenon
<1>9. Unreferenced(obj)' = {}
  <2>1. \A t \in Slots : obj'[t].in_use = obj[t].in_use
    BY <1>7, Zenon DEF Alike
  <2> QED BY <1>7, <2>1, Zenon DEF Unreferenced, ShmInv, MapInv
<1>10. Numbered(obj)'
  BY <1>5, <1>8, Zenon DEF Numbered, Issued
<1>11. ShmInv'
  BY <1>5, <1>6, <1>8, <1>9, <1>10, Zenon
     DEF ShmInv, ShmTypes, HandleInv, FrameInv, MapInv, MapsOf, Issued
<1>12. \A t \in Slots : obj'[t].frames = obj[t].frames /\ obj'[t].owner = obj[t].owner
                        /\ obj'[t].in_use = obj[t].in_use
  BY <1>7, Zenon DEF Alike
<1>13. \A r \in maps : r.obj \in Slots
  BY <1>2, RecordFacts, Zenon
<1>14. Others(p)
  BY <1>5, <1>7, <1>12, <1>13, Zenon DEF Others, MapsOf
<1> QED BY <1>5, <1>11, <1>12, <1>14, Zenon

(* shm_process_exit(): the records of p go, its objects are marked.        *)
Exited(o, p, k, d) == [o EXCEPT !.dying = d, !.map_count = k, !.rights[p] = 0]

(* What process_exit() changes in an object: the mark, the count, and the  *)
(* right of the process that exits.                                        *)
LEMMA ExitObject ==
    ASSUME NEW o \in Objects, NEW p \in Pids, NEW k \in Int, NEW d \in BOOLEAN
    PROVE  /\ Exited(o, p, k, d) \in Objects /\ Alike(o, Exited(o, p, k, d))
           /\ Exited(o, p, k, d).map_count = k /\ Exited(o, p, k, d).dying = d
<1>1. PICK f \in [Pids -> Rights \cup {0}] : f = [o.rights EXCEPT ![p] = 0]
  <2>1. o.rights \in [Pids -> Rights \cup {0}]
    BY Fields, Zenon
  <2> QED BY <2>1, Zenon
<1>2. PICK q : q = Exited(o, p, k, d)
  BY Zenon
<1>3. q = [o EXCEPT !.dying = d, !.map_count = k, !.rights = f]
  BY Zenon, <1>1, <1>2 DEF Objects, Exited
<1>4. q \in Objects /\ Alike(o, q) /\ q.map_count = k /\ q.dying = d
  BY Zenon, <1>3 DEF Objects, Alike
<1> QED BY <1>2, <1>4, Zenon

(* shm_process_exit() leaves no record of the process, and its objects     *)
(* live on only as dying ones.                                             *)
LEMMA ShmExitInv ==
    ASSUME ConstantsOK, ShmInv, NEW p \in Pids, ShmExit(p)
    PROVE  /\ ShmInv' /\ Others(p) /\ MapsOf(p)' = {} /\ pt' = pt
           /\ \A s \in Slots : obj'[s].in_use /\ obj'[s].owner = p => obj'[s].dying
<1>1. obj \in [Slots -> Objects] /\ maps \in SUBSET Records /\ IsFiniteSet(maps) /\ DOMAIN pt = Pids
  BY Zenon DEF ShmInv, ShmTypes
<1> DEFINE mapped(s) == Cardinality({r \in MapsOf(p) : r.obj = s})
           new(s) == [obj[s] EXCEPT !.dying = @ \/ obj[s].owner = p,
                                    !.map_count = @ - mapped(s), !.rights[p] = 0]
<1>2. PICK o : o = [s \in Slots |-> IF obj[s].in_use THEN new(s) ELSE obj[s]]
  BY Zenon
<1>3. /\ maps' = maps \ MapsOf(p) /\ FreeObjects(o, Unreferenced(o)) /\ UNCHANGED <<pt, issued>>
  BY <1>2, Zenon DEF ShmExit
<1>4. ASSUME NEW s \in Slots
      PROVE  /\ Cardinality({r \in maps' : r.obj = s}) = Cardinality({r \in maps : r.obj = s}) - mapped(s)
             /\ mapped(s) \in Nat
             /\ obj[s].map_count = Cardinality({r \in maps : r.obj = s})
             /\ ~obj[s].in_use => {r \in maps : r.obj = s} = {} /\ {r \in maps' : r.obj = s} = {}
  <2>1. PICK A, B : A = {r \in maps : r.obj = s} /\ B = {r \in MapsOf(p) : r.obj = s}
    BY Zenon
  <2>2. B \in SUBSET A /\ A \in SUBSET maps /\ {r \in maps' : r.obj = s} = A \ B
    BY <1>3, <2>1, Zenon DEF MapsOf
  <2>3. IsFiniteSet(A) /\ IsFiniteSet(B)
    BY <1>1, <2>2, FS_Subset, Zenon
  <2>4. Cardinality(A \ B) = Cardinality(A) - Cardinality(B) /\ Cardinality(B) \in Nat
    BY <2>2, <2>3, CardDiff, FS_CardinalityType, Zenon
  <2>5. obj[s].map_count = Cardinality(A) /\ (~obj[s].in_use => A = {})
    BY <2>1, Zenon DEF ShmInv, MapInv, Recorded
  <2> QED BY <2>1, <2>2, <2>4, <2>5, Zenon
<1>5. ASSUME NEW s \in Slots
      PROVE  /\ o[s] \in Objects /\ Alike(obj[s], o[s])
             /\ o[s].map_count = Cardinality({r \in maps' : r.obj = s})
             /\ o[s].in_use => o[s].dying = (obj[s].dying \/ obj[s].owner = p)
             /\ obj[s].dying => o[s].dying
  <2>0. obj[s] \in Objects
    BY <1>1, Zenon
  <2>1. CASE obj[s].in_use
    <3>1. PICK k \in Int : k = obj[s].map_count - mapped(s) /\ k = Cardinality({r \in maps' : r.obj = s})
      <4>1. PICK a \in Int, b \in Int : a = obj[s].map_count /\ b = mapped(s)
        <5>1. obj[s].map_count \in Int
          BY <2>0, Fields, Zenon
        <5>2. mapped(s) \in Int
          <6>1. mapped(s) \in Nat
            BY <1>4, Zenon
          <6> QED BY <6>1, SMT
        <5> QED BY <5>1, <5>2, Zenon
      <4>2. a - b \in Int
        OBVIOUS
      <4> QED BY <1>4, <4>1, <4>2, Zenon
    <3>2. PICK d \in BOOLEAN : d = (obj[s].dying \/ obj[s].owner = p)
      BY Zenon
    <3>3. o[s] = [obj[s] EXCEPT !.dying = d, !.map_count = k, !.rights[p] = 0]
      BY <1>2, <2>1, <3>1, <3>2, Zenon
    <3>4. o[s] \in Objects /\ Alike(obj[s], o[s]) /\ o[s].map_count = k /\ o[s].dying = d
      <4>1. o[s] = Exited(obj[s], p, k, d)
        BY <3>3, Zenon DEF Exited
      <4>2. PICK x \in Objects : x = obj[s]
        BY <2>0, Zenon
      <4>3. /\ Exited(x, p, k, d) \in Objects /\ Alike(x, Exited(x, p, k, d))
            /\ Exited(x, p, k, d).map_count = k /\ Exited(x, p, k, d).dying = d
        BY ExitObject, Zenon
      <4> QED BY <4>1, <4>2, <4>3, Zenon
    <3> QED BY <3>1, <3>2, <3>4, Zenon
  <2>2. CASE ~obj[s].in_use
    <3>1. o[s] = obj[s]
      BY <1>2, <2>2, Zenon
    <3>2. obj[s].map_count = Cardinality({r \in maps' : r.obj = s})
      BY <1>4, <2>2, Zenon
    <3> QED BY <2>0, <2>2, <3>1, <3>2, Zenon DEF Alike
  <2> QED BY <2>1, <2>2, Zenon
<1>6. o \in [Slots -> Objects]
  BY <1>2, <1>5, Zenon
<1>7. Recorded(o, maps')
  <2>1. Recorded(obj, maps) /\ \A q \in maps : q.obj \in Slots
    BY <1>1, RecordFacts, Zenon DEF ShmInv, MapInv
  <2>2. \A q \in maps' : o[q.obj].in_use /\ q.pages = Len(o[q.obj].frames)
    BY <1>3, <1>5, <2>1, Zenon DEF Recorded, Alike
  <2>3. \A a, b \in maps' : a.pid = b.pid /\ a # b => a.addr + a.pages < b.addr \/ b.addr + b.pages < a.addr
    BY <1>3, <2>1, Zenon DEF Recorded
  <2> QED BY <1>5, <2>2, <2>3, Zenon DEF Recorded
<1>8. maps' \subseteq maps /\ DOMAIN pt' = Pids
  BY <1>1, <1>3, Zenon
<1>9. /\ ShmInv'
      /\ \A q \in maps' : obj'[q.obj].frames = obj[q.obj].frames
      /\ \A t \in Slots : obj'[t].in_use =>
           obj[t].in_use /\ obj'[t].owner = obj[t].owner /\ obj'[t].dying = o[t].dying
  BY <1>3, <1>5, <1>6, <1>7, <1>8, Released, Zenon
<1>10. \A q \in Pids \ {p} : MapsOf(q)' = MapsOf(q)
  BY <1>3, Zenon DEF MapsOf
<1>11. Others(p)
  BY <1>3, <1>5, <1>9, <1>10, Zenon DEF Others
<1>12. MapsOf(p)' = {}
  BY <1>3, Zenon DEF MapsOf
<1>13. \A s \in Slots : obj'[s].in_use /\ obj'[s].owner = p => obj'[s].dying
  <2>1. \A s \in Slots : o[s].in_use = obj[s].in_use
    BY <1>5, Zenon DEF Alike
  <2> QED BY <1>5, <1>9, <2>1, Zenon
<1> QED BY <1>3, <1>9, <1>11, <1>12, <1>13, Zenon

(* shm_create(): the frames of the new object come from the free ones.     *)
LEMMA NewOwned ==
    ASSUME NEW o, NEW free \in SUBSET Frames, Owned(o, free), NEW s \in Slots, ~o[s].in_use,
           NEW pages \in Nat, NEW fs \in Injection(1..pages, free),
           NEW n, \A t \in Slots \ {s} : n[t] = o[t], n[s].in_use, n[s].frames = fs
    PROVE  Owned(n, free \ Range(fs))
<1>1. /\ fs \in [1..pages -> free] /\ DOMAIN fs = 1..pages
      /\ \A i, j \in 1..pages : fs[i] = fs[j] => i = j
  BY Zenon DEF Injection, IsInjective
<1>2. \A i \in 1..pages : fs[i] \in free /\ fs[i] \in Range(fs)
  BY <1>1, Zenon DEF Range
<1>3. ASSUME NEW t \in Slots, n[t].in_use, NEW i \in DOMAIN n[t].frames
      PROVE  n[t].frames[i] \notin free \ Range(fs) /\ (t # s => n[t].frames[i] \notin free)
  <2>1. CASE t = s
    BY <1>1, <1>2, <2>1, Zenon
  <2>2. CASE t # s
    <3>1. n[t] = o[t]
      BY <2>2, Zenon
    <3>2. o[t].frames[i] \notin free
      BY <1>3, <3>1, Zenon DEF Owned
    <3> QED BY <3>1, <3>2, Zenon
  <2> QED BY <2>1, <2>2, Zenon
<1>4. ASSUME NEW t \in Slots, NEW u \in Slots, n[t].in_use, n[u].in_use,
             NEW i \in DOMAIN n[t].frames, NEW j \in DOMAIN n[u].frames,
             n[t].frames[i] = n[u].frames[j]
      PROVE  t = u /\ i = j
  <2>1. ASSUME t = s PROVE i \in 1..pages /\ n[t].frames[i] = fs[i] /\ n[t].frames[i] \in free
    BY <1>1, <1>2, <2>1, Zenon
  <2>2. ASSUME u = s PROVE j \in 1..pages /\ n[u].frames[j] = fs[j] /\ n[u].frames[j] \in free
    BY <1>1, <1>2, <2>2, Zenon
  <2>3. (t # s => n[t].frames[i] \notin free) /\ (u # s => n[u].frames[j] \notin free)
    BY <1>3, <1>4, Zenon
  <2>4. CASE t = s /\ u = s
    BY <1>1, <1>4, <2>1, <2>2, <2>4, Zenon
  <2>5. CASE t # s /\ u # s
    <3>1. n[t] = o[t] /\ n[u] = o[u]
      BY <2>5, Zenon
    <3> QED BY <1>4, <3>1 DEF Owned
  <2> QED BY <1>4, <2>1, <2>2, <2>3, <2>4, <2>5, Zenon
<1>5. ASSUME NEW f \in Frames \ (free \ Range(fs))
      PROVE  \E t \in Slots : n[t].in_use /\ \E i \in DOMAIN n[t].frames : n[t].frames[i] = f
  <2>1. CASE f \in Range(fs)
    BY <2>1, Zenon DEF Range
  <2>2. CASE f \notin free
    <3>1. PICK t \in Slots : o[t].in_use /\ \E i \in DOMAIN o[t].frames : o[t].frames[i] = f
      BY <2>2, Zenon DEF Owned
    <3>2. n[t] = o[t]
      BY <3>1, Zenon
    <3> QED BY <3>1, <3>2, Zenon
  <2> QED BY <2>1, <2>2, Zenon
<1> QED BY <1>3, <1>4, <1>5, Zenon DEF Owned

(* The next handle of a slot: a generation no handle of the slot has.      *)
LEMMA NewNumbered ==
    ASSUME ConstantsOK, HandleInv, NEW s \in Slots, ~obj[s].in_use, Cardinality(issued) < MaxMade,
           NEW g, g = (IF obj[s].gen = 0 THEN 1 ELSE obj[s].gen),
           NEW h, h = [slot |-> s, gen |-> g, made |-> Cardinality(Issued(s))],
           issued' = issued \cup {h}
    PROVE  /\ issued' \subseteq [slot : Slots, gen : Nat, made : Nat]
           /\ IsFiniteSet(issued') /\ Cardinality(issued') <= MaxMade
           /\ g = Cardinality(Issued(s)') /\ g \in Nat /\ g > 0
           /\ \A t \in Slots \ {s} : Issued(t)' = Issued(t)
           /\ \A k \in issued' : k.gen = k.made + 1 /\ k.gen <= Cardinality(Issued(k.slot)')
<1>1. PICK n \in Nat : n = Cardinality(Issued(s)) /\ IsFiniteSet(Issued(s)) /\ n < MaxMade
  <2>1. Issued(s) \in SUBSET issued /\ IsFiniteSet(issued)
    BY Zenon DEF Issued, HandleInv
  <2>2. /\ IsFiniteSet(Issued(s)) /\ Cardinality(Issued(s)) \in Nat /\ Cardinality(issued) \in Nat
        /\ Cardinality(Issued(s)) <= Cardinality(issued)
    BY <2>1, FS_Subset, FS_CardinalityType, Zenon
  <2>3. Cardinality(Issued(s)) < MaxMade
    BY <2>2 DEF ConstantsOK
  <2> QED BY <2>2, <2>3, Zenon
<1>2. obj[s].gen = IF n = 0 THEN 0 ELSE NextGen(n)
  BY <1>1, Zenon DEF HandleInv, Numbered
<1>3. g = n + 1
  BY <1>1, <1>2 DEF NextGen, ConstantsOK
<1>4. h.slot = s /\ h.gen = n + 1 /\ h.made = n /\ h \in [slot : Slots, gen : Nat, made : Nat]
  BY <1>1, <1>3
<1>5. ASSUME h \in issued PROVE FALSE
  <2>1. h.gen <= Cardinality(Issued(h.slot))
    BY <1>5, Zenon DEF HandleInv
  <2>2. n + 1 <= n
    BY <1>1, <1>4, <2>1, Zenon
  <2> QED BY <2>2
<1>6. Issued(s)' = Issued(s) \cup {h} /\ \A t \in Slots \ {s} : Issued(t)' = Issued(t)
  BY <1>4, Zenon DEF Issued
<1>7. Cardinality(Issued(s)') = n + 1
  <2>1. h \notin Issued(s)
    BY <1>5, Zenon DEF Issued
  <2>2. Cardinality(Issued(s) \cup {h}) = Cardinality(Issued(s)) + 1
    BY <1>1, <2>1, FS_AddElement, Zenon
  <2> QED BY <1>1, <1>6, <2>2, Zenon
<1>8. IsFiniteSet(issued') /\ Cardinality(issued') <= MaxMade
  <2>1. IsFiniteSet(issued) /\ Cardinality(issued) \in Nat
    BY FS_CardinalityType, Zenon DEF HandleInv
  <2>2. IsFiniteSet(issued') /\ Cardinality(issued') = Cardinality(issued) + 1
    BY <1>5, <2>1, FS_AddElement, Zenon
  <2> QED BY <2>1, <2>2 DEF ConstantsOK
<1>9. ASSUME NEW k \in issued'
      PROVE  k.gen = k.made + 1 /\ k.gen <= Cardinality(Issued(k.slot)')
  <2>1. CASE k = h
    <3>1. n + 1 <= n + 1
      OBVIOUS
    <3> QED BY <1>4, <1>7, <2>1, <3>1, Zenon
  <2>2. CASE k \in issued
    <3>1. k.gen = k.made + 1 /\ k.gen <= Cardinality(Issued(k.slot)) /\ k.slot \in Slots /\ k.gen \in Nat
      <4>1. \A x \in [slot : Slots, gen : Nat, made : Nat] : x.slot \in Slots /\ x.gen \in Nat
        OBVIOUS
      <4> QED BY <2>2, <4>1, Zenon DEF HandleInv
    <3>2. CASE k.slot # s
      BY <1>6, <3>1, <3>2, Zenon
    <3>3. CASE k.slot = s
      <4>1. k.gen <= n => k.gen <= n + 1
        BY <3>1
      <4> QED BY <1>1, <1>7, <3>1, <3>3, <4>1, Zenon
    <3> QED BY <3>2, <3>3, Zenon
  <2> QED BY <2>1, <2>2, Zenon
<1>10. g \in Nat /\ g > 0
  BY <1>3
<1>11. issued' \subseteq [slot : Slots, gen : Nat, made : Nat]
  BY <1>4, Zenon DEF HandleInv
<1> QED BY <1>3, <1>6, <1>7, <1>8, <1>9, <1>10, <1>11, Zenon

(* shm_create(): the first free slot, a new handle, and frames that nobody *)
(* owned.                                                                  *)
LEMMA CreateInv ==
    ASSUME ConstantsOK, ShmInv, NEW p \in Pids, NEW pages \in Nat, Create(p, pages)
    PROVE  /\ ShmInv' /\ Others(p) /\ UNCHANGED <<maps, pt>>
           /\ \A r \in maps : obj'[r.obj].frames = obj[r.obj].frames
<1>1. obj \in [Slots -> Objects] /\ maps \in SUBSET Records /\ IsFiniteSet(maps) /\ freeFrames \in SUBSET Frames
  BY Zenon DEF ShmInv, ShmTypes
<1>2. PICK s \in Slots, fs \in Injection(1..pages, freeFrames) :
        LET o == [EmptyObj(IF obj[s].gen = 0 THEN 1 ELSE obj[s].gen) EXCEPT
                    !.in_use = TRUE, !.owner = p, !.frames = fs]
        IN /\ ~obj[s].in_use
           /\ obj' = [obj EXCEPT ![s] = o]
           /\ freeFrames' = freeFrames \ Range(fs)
           /\ issued' = issued \cup {HandleFor(s, o)}
  BY Zenon DEF Create
<1>3. PICK g : g = IF obj[s].gen = 0 THEN 1 ELSE obj[s].gen
  BY Zenon
<1>4. PICK e : e = EmptyObj(g)
  BY Zenon
<1>5. LET o == [e EXCEPT !.in_use = TRUE, !.owner = p, !.frames = fs] IN
      /\ obj' = [obj EXCEPT ![s] = o]
      /\ freeFrames' = freeFrames \ Range(fs)
      /\ issued' = issued \cup {HandleFor(s, o)}
  BY <1>2, <1>3, <1>4, Zenon
<1>6. PICK o : o = [e EXCEPT !.in_use = TRUE, !.owner = p, !.frames = fs]
  BY Zenon
<1>7. /\ o.in_use = TRUE /\ o.dying = FALSE /\ o.gen = g /\ o.owner = p
      /\ o.frames = fs /\ o.map_count = 0 /\ o.rights = [q \in Pids |-> 0]
      /\ o = [in_use |-> TRUE, dying |-> FALSE, gen |-> g, owner |-> p,
              frames |-> fs, map_count |-> 0, rights |-> [q \in Pids |-> 0]]
  BY Zenon, <1>4, <1>6 DEF EmptyObj
<1>8. /\ obj' = [obj EXCEPT ![s] = o] /\ freeFrames' = freeFrames \ Range(fs)
      /\ issued' = issued \cup {[slot |-> s, gen |-> g, made |-> Cardinality(Issued(s))]}
  BY <1>5, <1>6, <1>7, Zenon DEF HandleFor
<1>9. UNCHANGED <<maps, pt>> /\ Cardinality(issued) < MaxMade /\ HandleInv
  BY Zenon DEF Create, ShmInv
<1>10. PICK h : h = [slot |-> s, gen |-> g, made |-> Cardinality(Issued(s))]
  BY Zenon
<1>11. /\ issued' \subseteq [slot : Slots, gen : Nat, made : Nat]
       /\ IsFiniteSet(issued') /\ Cardinality(issued') <= MaxMade
       /\ g = Cardinality(Issued(s)') /\ g \in Nat /\ g > 0
       /\ \A t \in Slots \ {s} : Issued(t)' = Issued(t)
       /\ \A k \in issued' : k.gen = k.made + 1 /\ k.gen <= Cardinality(Issued(k.slot)')
  BY <1>2, <1>3, <1>8, <1>9, <1>10, NewNumbered, Zenon
<1>12. fs \in Seq(Frames)
  <2>1. fs \in [1..pages -> Frames]
    BY <1>1, Zenon DEF Injection
  <2> QED BY <2>1
<1>13. o \in Objects
  <2>1. [q \in Pids |-> 0] \in [Pids -> Rights \cup {0}]
    BY Zenon
  <2> QED BY <1>7, <1>11, <1>12, <2>1 DEF Objects
<1>14. obj' \in [Slots -> Objects] /\ obj'[s] = o /\ \A t \in Slots \ {s} : obj'[t] = obj[t]
  BY <1>1, <1>8, <1>13, Zenon
<1>15. HandleInv'
  <2>1. Numbered(obj)'
    <3>1. ASSUME NEW t \in Slots, NEW n, n = Cardinality(Issued(t)')
          PROVE  IF obj'[t].in_use THEN n > 0 /\ obj'[t].gen = n
                 ELSE obj'[t].gen = IF n = 0 THEN 0 ELSE NextGen(n)
      <4>1. CASE t = s
        BY <1>7, <1>11, <1>14, <3>1, <4>1, Zenon
      <4>2. CASE t # s
        <5>1. obj'[t] = obj[t] /\ n = Cardinality(Issued(t))
          BY <1>11, <1>14, <3>1, <4>2, Zenon
        <5> QED BY <1>9, <5>1, Zenon DEF HandleInv, Numbered
      <4> QED BY <4>1, <4>2, Zenon
    <3> QED BY <3>1, Zenon DEF Numbered
  <2> QED BY <1>11, <2>1, Zenon DEF HandleInv
<1>16. FrameInv'
  <2>1. Owned(obj', freeFrames \ Range(fs))
    <3>1. Owned(obj, freeFrames)
      BY Zenon DEF ShmInv, FrameInv
    <3>2. obj'[s].in_use /\ obj'[s].frames = fs
      BY <1>7, <1>14, Zenon
    <3>3. ~obj[s].in_use
      BY <1>2, Zenon
    <3> QED BY <1>1, <1>14, <3>1, <3>2, <3>3, NewOwned, Zenon
  <2> QED BY <1>8, <2>1, Zenon DEF FrameInv
<1>17. \A r \in maps : r.obj \in Slots \ {s}
  BY <1>1, <1>2, RecordFacts, Zenon DEF ShmInv, MapInv, Recorded
<1>18. Recorded(obj', maps)
  <2>1. Recorded(obj, maps)
    BY Zenon DEF ShmInv, MapInv
  <2>2. \A r \in maps : obj'[r.obj].in_use /\ r.pages = Len(obj'[r.obj].frames)
    BY <1>14, <1>17, <2>1, Zenon DEF Recorded
  <2>3. ASSUME NEW t \in Slots PROVE obj'[t].map_count = Cardinality({r \in maps : r.obj = t})
    <3>1. CASE t = s
      <4>1. {r \in maps : r.obj = s} = {}
        BY <1>17, Zenon
      <4> QED BY <1>7, <1>14, <3>1, <4>1, FS_EmptySet, Zenon
    <3>2. CASE t # s
      BY <1>14, <2>1, <3>2, Zenon DEF Recorded
    <3> QED BY <3>1, <3>2, Zenon
  <2> QED BY <2>1, <2>2, <2>3, Zenon DEF Recorded
<1>19. Unreferenced(obj)' = {}
  <2>1. ~obj'[s].dying
    BY <1>7, <1>14, Zenon
  <2>2. \A t \in Slots : ~(obj[t].in_use /\ obj[t].dying /\ obj[t].map_count = 0)
    BY Zenon DEF Unreferenced, ShmInv, MapInv
  <2> QED BY <1>14, <2>1, <2>2, Zenon DEF Unreferenced
<1>20. ShmInv'
  <2>1. MapInv'
    BY <1>9, <1>18, <1>19, Zenon DEF ShmInv, MapInv, MapsOf
  <2>2. ShmTypes'
    BY <1>1, <1>8, <1>9, <1>14, Zenon DEF ShmInv, ShmTypes
  <2> QED BY <1>15, <1>16, <2>1, <2>2, Zenon DEF ShmInv
<1>21. \A r \in maps : obj'[r.obj].frames = obj[r.obj].frames
  BY <1>14, <1>17, Zenon
<1>22. Others(p)
  BY <1>7, <1>9, <1>14, <1>21, Zenon DEF Others, MapsOf
<1> QED BY <1>9, <1>20, <1>21, <1>22, Zenon

(* find_gap(): the span it finds, with its guard page, meets no other span *)
(* of the process.                                                         *)
LEMMA GapFacts ==
    ASSUME ConstantsOK, ShmInv, NEW p \in Pids, NEW pages \in Nat, 
           NEW a \in Gaps(p, pages + 1)
    PROVE  /\ a \in Nat
           /\ \A q \in MapsOf(p) : a + pages < q.addr \/ q.addr + q.pages < a
<1>1. \A q \in MapsOf(p) : q.addr \in Nat /\ q.pages \in Nat
  BY RecordFacts, Zenon DEF MapsOf, ShmInv, ShmTypes
<1>2. Gaps(p, pages + 1) \in SUBSET Nat
  <2>1. \A q \in MapsOf(p) : q.addr + q.pages + 1 \in Nat
    BY <1>1
  <2>2. {0} \cup {q.addr + q.pages + 1 : q \in MapsOf(p)} \subseteq Nat
    BY <2>1
  <2> QED BY <2>2, Zenon DEF Gaps
<1>3. a \in Nat
  BY <1>2, Zenon
<1>4. ASSUME NEW q \in MapsOf(p)
      PROVE  a + pages < q.addr \/ q.addr + q.pages < a
  <2>1. (a .. a + (pages + 1) - 1) \cap (q.addr .. q.addr + q.pages) = {}
    BY Zenon DEF Gaps
  <2>2. PICK b \in Nat, k \in Nat : b = q.addr /\ k = q.pages
    BY <1>1, Zenon
  <2>3. (a .. a + (pages + 1) - 1) \cap (b .. b + k) = {}
    BY <2>1, <2>2, Zenon
  <2>4. a + pages < b \/ b + k < a
    <3>1. ASSUME a <= b, b <= a + pages PROVE FALSE
      <4>1. b \in a .. a + (pages + 1) - 1 /\ b \in b .. b + k
        BY <1>3, <3>1
      <4> QED BY <2>3, <4>1, Zenon
    <3>2. ASSUME b <= a, a <= b + k PROVE FALSE
      <4>1. a \in a .. a + (pages + 1) - 1 /\ a \in b .. b + k
        BY <1>3, <3>2
      <4> QED BY <2>3, <4>1, Zenon
    <3> QED BY <1>3, <3>1, <3>2
  <2> QED BY <2>2, <2>4, Zenon
<1> QED BY <1>3, <1>4, Zenon

(* shm_map(): a record, the object's count, and the pages.                 *)
LEMMA MapCallInv ==
    ASSUME ConstantsOK, ShmInv, NEW p \in Pids, NEW h \in issued, NEW want \in {READ, RW},
           Map(p, h, want), pt[p] = UNION {Entries(q) : q \in MapsOf(p)}
    PROVE  ShmInv' /\ Others(p) /\ pt'[p] = UNION {Entries(q)' : q \in MapsOf(p)'}
<1>1. /\ obj \in [Slots -> Objects] /\ maps \in SUBSET Records /\ IsFiniteSet(maps)
      /\ DOMAIN pt = Pids /\ freeFrames \in SUBSET Frames
  BY Zenon DEF ShmInv, ShmTypes
<1>2. PICK s \in Slots : s = h.slot
  <2>1. \A k \in [slot : Slots, gen : Nat, made : Nat] : k.slot \in Slots
    OBVIOUS
  <2> QED BY <2>1, Zenon DEF ShmInv, HandleInv
<1>3. PICK x \in Objects : x = obj[s]
  BY <1>1, Zenon
<1>4. PICK pages \in Nat : pages = Pages(s) /\ pages = Len(x.frames)
  <2>1. Len(x.frames) \in Nat
    <3>1. x.frames \in Seq(Frames)
      BY Fields, Zenon
    <3> QED BY <3>1
  <2> QED BY <1>3, <2>1, Zenon DEF Pages
<1>5. PICK a \in Gaps(p, pages + 1) :
        LET r == [pid |-> p, addr |-> a, pages |-> pages, obj |-> s, rights |-> want]
        IN maps' = maps \cup {r} /\ pt' = [pt EXCEPT ![p] = @ \cup Entries(r)]
  BY <1>2, <1>4, Zenon DEF Map
<1>6. PICK r : r = [pid |-> p, addr |-> a, pages |-> pages, obj |-> s, rights |-> want]
  BY Zenon
<1>7. /\ x.in_use /\ ~x.dying /\ (\A q \in MapsOf(p) : q.obj # s)
      /\ Cardinality(MapsOf(p)) < MaxMapsPerProc
      /\ maps' = maps \cup {r} /\ pt' = [pt EXCEPT ![p] = @ \cup Entries(r)]
      /\ UNCHANGED <<freeFrames, issued>>
  BY <1>2, <1>3, <1>5, <1>6, Zenon DEF Map, Resolves
<1>8. a \in Nat /\ \A q \in MapsOf(p) : a + pages < q.addr \/ q.addr + q.pages < a
  BY GapFacts, Zenon
<1>9. /\ r.pid = p /\ r.obj = s /\ r.addr = a /\ r.pages = pages /\ r \in Records
  BY Zenon, <1>6, <1>8 DEF Records
<1>10. PICK k \in Int : k = x.map_count + 1
  <2>1. x.map_count \in Int
    BY Fields, Zenon
  <2> QED BY <2>1
<1>11. PICK n : n = [x EXCEPT !.map_count = k]
  BY Zenon
<1>12. n \in Objects /\ Alike(x, n) /\ n.map_count = k /\ n.dying = x.dying
  BY Zenon, <1>11, Counted
<1>13. obj' = [obj EXCEPT ![s] = n]
  <2>1. obj' = [obj EXCEPT ![s].map_count = @ + 1]
    BY <1>2, Zenon DEF Map
  <2> QED BY Zenon, <1>3, <1>10, <1>11, <2>1
<1>14. obj' \in [Slots -> Objects] /\ obj'[s] = n /\ \A t \in Slots \ {s} : obj'[t] = obj[t]
  BY <1>1, <1>12, <1>13, Zenon
<1>15. \A t \in Slots : Alike(obj[t], obj'[t]) /\ obj'[t].dying = obj[t].dying
  BY <1>3, <1>12, <1>14, Zenon DEF Alike
<1>16. r \notin maps
  BY <1>7, <1>9, Zenon DEF MapsOf
<1>17. Recorded(obj', maps')
  <2>1. Recorded(obj, maps) /\ \A q \in maps : q.obj \in Slots
    BY <1>1, RecordFacts, Zenon DEF ShmInv, MapInv
  <2>2. ASSUME NEW q \in maps' PROVE obj'[q.obj].in_use /\ q.pages = Len(obj'[q.obj].frames)
    <3>1. CASE q = r
      BY <1>4, <1>7, <1>9, <1>12, <1>14, <3>1, Zenon DEF Alike
    <3>2. CASE q \in maps
      BY <1>15, <2>1, <3>2, Zenon DEF Recorded, Alike
    <3> QED BY <1>7, <3>1, <3>2, Zenon
  <2>3. ASSUME NEW u \in maps', NEW v \in maps', u.pid = v.pid, u # v
        PROVE  u.addr + u.pages < v.addr \/ v.addr + v.pages < u.addr
    <3>1. CASE u \in maps /\ v \in maps
      BY <2>1, <2>3, <3>1, Zenon DEF Recorded
    <3>2. CASE u = r /\ v \in maps
      BY <1>8, <1>9, <2>3, <3>2, Zenon DEF MapsOf
    <3>3. CASE v = r /\ u \in maps
      BY <1>8, <1>9, <2>3, <3>3, Zenon DEF MapsOf
    <3> QED BY <1>7, <2>3, <3>1, <3>2, <3>3, Zenon
  <2>4. ASSUME NEW t \in Slots
        PROVE  obj'[t].map_count = Cardinality({q \in maps' : q.obj = t})
    <3>0. PICK S : S = {q \in maps : q.obj = t}
      BY Zenon
    <3>1. r \notin S /\ IsFiniteSet(S) /\ obj[t].map_count = Cardinality(S)
      BY <1>1, <1>16, <2>1, <3>0, FS_Subset, Zenon DEF Recorded
    <3>2. CASE t = s
      <4>1. {q \in maps' : q.obj = t} = S \cup {r}
        BY <1>7, <1>9, <3>0, <3>2, Zenon
      <4>2. Cardinality(S \cup {r}) = Cardinality(S) + 1
        BY <3>1, FS_AddElement, Zenon
      <4> QED BY <1>3, <1>10, <1>12, <1>14, <3>1, <3>2, <4>1, <4>2, Zenon
    <3>3. CASE t # s
      <4>1. {q \in maps' : q.obj = t} = S
        BY <1>7, <1>9, <3>0, <3>3, Zenon
      <4> QED BY <1>14, <3>1, <3>3, <4>1, Zenon
    <3> QED BY <3>2, <3>3, Zenon
  <2> QED BY <2>2, <2>3, <2>4, Zenon DEF Recorded
<1>18. Unreferenced(obj)' = {}
  <2>1. ~obj'[s].dying
    BY <1>7, <1>12, <1>14, Zenon
  <2>2. \A t \in Slots : ~(obj[t].in_use /\ obj[t].dying /\ obj[t].map_count = 0)
    BY Zenon DEF Unreferenced, ShmInv, MapInv
  <2> QED BY <1>14, <2>1, <2>2, Zenon DEF Unreferenced
<1>19. MapsOf(p)' = MapsOf(p) \cup {r} /\ \A q \in Pids \ {p} : MapsOf(q)' = MapsOf(q)
  BY <1>7, <1>9, Zenon DEF MapsOf
<1>20. \A q \in Pids : Cardinality(MapsOf(q)') <= MaxMapsPerProc
  <2>1. IsFiniteSet(MapsOf(p)) /\ r \notin MapsOf(p)
    BY <1>1, <1>16, FS_Subset, Zenon DEF MapsOf
  <2>2. Cardinality(MapsOf(p) \cup {r}) = Cardinality(MapsOf(p)) + 1 /\ Cardinality(MapsOf(p)) \in Nat
    BY <2>1, FS_AddElement, FS_CardinalityType, Zenon
  <2>3. Cardinality(MapsOf(p)) + 1 <= MaxMapsPerProc
    BY <1>7, <2>2 DEF ConstantsOK
  <2> QED BY <1>19, <2>2, <2>3, Zenon DEF ShmInv, MapInv
<1>21. ShmInv'
  <2>1. ShmTypes'
    <3>1. IsFiniteSet(maps') /\ maps' \subseteq Records
      BY <1>1, <1>7, <1>9, FS_AddElement, Zenon
    <3> QED BY <1>1, <1>7, <1>14, <3>1, Zenon DEF ShmTypes
  <2>2. HandleInv'
    <3>1. Numbered(obj')
      BY <1>15, NumberedAlike, Zenon DEF ShmInv, HandleInv
    <3> QED BY <1>7, <3>1, Zenon DEF ShmInv, HandleInv, Numbered, Issued
  <2>3. FrameInv'
    <3>1. Owned(obj', freeFrames)
      BY <1>15, OwnedAlike, Zenon DEF ShmInv, FrameInv
    <3> QED BY <1>7, <3>1, Zenon DEF FrameInv
  <2> QED BY <1>17, <1>18, <1>20, <2>1, <2>2, <2>3, Zenon DEF ShmInv, MapInv
<1>22. \A q \in maps' : q.obj \in Slots /\ obj'[q.obj].frames = obj[q.obj].frames
  BY <1>1, <1>7, <1>9, <1>15, RecordFacts, Zenon DEF Alike
<1>23. Others(p)
  <2>1. \A q \in Pids \ {p} : pt'[q] = pt[q]
    BY <1>1, <1>7, Zenon
  <2> QED BY <1>15, <1>19, <1>22, <2>1, Zenon DEF Others, Alike
<1>24. pt'[p] = UNION {Entries(q)' : q \in MapsOf(p)'}
  <2>1. \A q \in MapsOf(p)' : Entries(q)' = Entries(q)
    BY <1>22, EntriesSame, Zenon DEF MapsOf
  <2>2. pt'[p] = (UNION {Entries(q) : q \in MapsOf(p)}) \cup Entries(r)
    BY <1>1, <1>7, Zenon
  <2>3. pt'[p] = UNION {Entries(q) : q \in MapsOf(p)'}
    BY <1>19, <2>2, Zenon
  <2> QED BY <2>1, <2>3, Zenon
<1> QED BY <1>21, <1>23, <1>24, Zenon
=============================================================================
