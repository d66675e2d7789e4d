--------------------------- MODULE JournalProofs ----------------------------
(***************************************************************************)
(* Theorems about Journal for callers that all take fat32_lock             *)
(* (Updaters = {}): Inv is an invariant, by one lemma per action, the      *)
(* steps of a commit, recovery and power loss included; a call that        *)
(* returns true is durable, whatever I/O fails; without I/O errors a       *)
(* reader sees its own writes and every transaction is atomic: Journal     *)
(* refines AtomicStore.                                                    *)
(***************************************************************************)
EXTENDS Journal, TLAPS

Preserved(A) == Updaters = {} /\ Inv /\ A => Inv'

-----------------------------------------------------------------------------
(* What is used of sequences.                                              *)
LEMMA SeqFacts ==
    ASSUME NEW S, NEW t \in Seq(S)
    PROVE  /\ Len(t) \in Nat /\ DOMAIN t = 1 .. Len(t) /\ \A k \in 1 .. Len(t) : t[k] \in S
           /\ t = [k \in 1 .. Len(t) |-> t[k]]
OBVIOUS

(* A shadow table as a sequence of blocks.                                 *)
LEMMA TableFacts ==
    ASSUME NEW c \in 0 .. MaxTxn, NEW l \in [Slots -> Sectors], NEW d \in [Slots -> Values],
           NEW t, t = [k \in 1 .. c |-> [lba |-> l[k], val |-> d[k]]]
    PROVE  /\ t \in Seq(Block) /\ Len(t) = c /\ DOMAIN t = 1 .. c
           /\ \A k \in 1 .. c : t[k].lba = l[k] /\ t[k].val = d[k]
<1>1. c \in Nat /\ \A k \in 1 .. c : l[k] \in Sectors /\ d[k] \in Values
  BY SizeAssumption DEF Slots
<1>2. t \in [1 .. c -> Block]
  BY <1>1, Zenon DEF Block
<1> QED BY <1>1, <1>2

(* The open transaction.                                                   *)
LEMMA TxnFacts ==
    ASSUME TypeOK
    PROVE  /\ Txn \in Seq(Block) /\ Len(Txn) = shadow_count
           /\ DOMAIN Txn = 1 .. shadow_count
           /\ \A k \in 1 .. shadow_count :
                 Txn[k].lba = shadow_lba[k] /\ Txn[k].val = shadow_data[k]
<1>1. /\ shadow_count \in 0 .. MaxTxn /\ shadow_lba \in [Slots -> Sectors]
      /\ shadow_data \in [Slots -> Values]
      /\ Txn = [k \in 1 .. shadow_count |-> [lba |-> shadow_lba[k], val |-> shadow_data[k]]]
  BY Zenon DEF TypeOK, Txn
<1> QED BY <1>1, TableFacts

(* The journal holds each sector once if the table does.                   *)
LEMMA SumDistinct ==
    ASSUME Inv, head'.sum \in {head.sum, Txn, <<>>}
    PROVE  LogDistinct'
<1>1. CASE head'.sum = head.sum
  BY <1>1, Zenon DEF Inv, LogDistinct
<1>2. CASE head'.sum = Txn
  BY <1>2, TxnFacts DEF Inv, LogDistinct, Distinct
<1>3. CASE head'.sum = <<>>
  BY <1>3 DEF LogDistinct
<1> QED BY <1>1, <1>2, <1>3, Zenon

(* A step of the only process that runs: the others are where they were.   *)
LEMMA OwnStep ==
    ASSUME Updaters = {}, Inv, NEW p \in Procs, Busy(p), NEW l \in Steps, Goto(p, l)
    PROVE  /\ pc'[p] = l
           /\ \A q \in Procs \ {p} : pc'[q] = pc[q] /\ ~Busy(q) /\ ~Busy(q)'
           /\ p # Boot => lock = p /\ pc[Boot] = "off" /\ pc'[Boot] = "off"
<1>1. pc'[p] = l /\ \A q \in Procs \ {p} : pc'[q] = pc[q]
  BY Zenon DEF Goto, Inv, TypeOK
<1>2. \A q \in Procs \ {p} : ~Busy(q)
  BY CallerAssumption DEF Inv, Exclusive, Busy, Procs
<1>3. p # Boot => lock = p /\ pc[Boot] = "off"
  BY CallerAssumption, Zenon DEF Inv, Exclusive, Busy, Procs
<1> QED BY <1>1, <1>2, <1>3, Zenon DEF Busy, Procs

(* Inv after such a step, from what it says of that process.               *)
LEMMA Continues ==
    ASSUME Updaters = {}, Inv, NEW p \in Procs, Busy(p), NEW l \in Steps, Goto(p, l),
           l \notin {"off", "idle", "recover"}, p = Boot => l \in {"ckpt", "inval"},
           UNCHANGED <<lock, outer>>, TypeOK', Distinct', LogDistinct', Unmarked',
           depth' = IF p # Boot /\ l \in InTxn THEN 1 ELSE 0,
           LoopOk(p)', ApplyOk(p)', p # Boot => LogOk(p)'
    PROVE  Inv'
<1>1. /\ pc'[p] = l
      /\ \A q \in Procs \ {p} : pc'[q] = pc[q] /\ ~Busy(q) /\ ~Busy(q)'
      /\ p # Boot => lock = p /\ pc[Boot] = "off" /\ pc'[Boot] = "off"
  BY OwnStep, Zenon
<1>2. Exclusive'
  BY <1>1, CallerAssumption, Zenon DEF Inv, Exclusive, Busy, Procs
<1>3. Table'
  BY <1>1, CallerAssumption, Zenon DEF Table, Busy, Procs, InTxn
<1>4. \A q \in Procs \ {p} : LoopOk(q)' /\ ApplyOk(q)' /\ LogOk(q)'
  BY <1>1, Zenon DEF LoopOk, ApplyOk, LogOk, Busy, Logging, Applying
<1> QED BY <1>2, <1>3, <1>4, CallerAssumption, Zenon DEF Inv, Procs

-----------------------------------------------------------------------------
(* fat32_write_file() or fat32_delete_file() opens its transaction.        *)
LEMMA OpenFileInv == \A p \in Callers : Preserved(OpenFile(p))
<1> SUFFICES ASSUME Updaters = {}, Inv, NEW p \in Callers, OpenFile(p)
             PROVE  Inv'
  BY Zenon DEF Preserved
<1>1. /\ p \in Procs /\ p # Boot /\ pc[p] = "idle" /\ pc[Boot] = "off"
      /\ pc'[p] = "open" /\ \A q \in Procs \ {p} : pc'[q] = pc[q]
  BY CallerAssumption, Zenon DEF OpenFile, Goto, Inv, TypeOK, Exclusive, Busy, Procs
<1>2. \A q \in Procs : ~Busy(q)
  BY <1>1, CallerAssumption, Zenon DEF OpenFile, Inv, Exclusive, Busy, Procs
<1>3. depth' = 1 /\ shadow_count' = 0 /\ shadow_count = 0
  BY <1>1, <1>2, CallerAssumption DEF OpenFile, Begin, Inv, Table, Busy, InTxn, Procs
<1>4. TypeOK'
  BY <1>1, <1>3 DEF OpenFile, Begin, Goto, Inv, TypeOK, Steps, diskVars
<1>5. Exclusive'
  BY <1>1, <1>2, CallerAssumption, Zenon DEF OpenFile, Inv, Exclusive, Busy, Procs
<1>6. Distinct' /\ LogDistinct' /\ Table'
  BY <1>1, <1>2, <1>3, SumDistinct DEF OpenFile, diskVars, Distinct, Table, InTxn, Busy
<1>7. Unmarked'
  BY <1>1, <1>2, Zenon DEF OpenFile, diskVars, Inv, Unmarked, Committed, Applying, Busy
<1>8. \A q \in Procs : LoopOk(q)' /\ ApplyOk(q)' /\ LogOk(q)'
  BY <1>1, <1>2, Zenon DEF LoopOk, ApplyOk, LogOk, Busy, Logging, Applying
<1> QED BY <1>4, <1>5, <1>6, <1>7, <1>8, Zenon DEF Inv, Procs

(* A write_sectors call starts.                                            *)
LEMMA StartWriteInv == \A p \in Callers : Preserved(StartWrite(p))
<1> SUFFICES ASSUME Updaters = {}, Inv, NEW p \in Callers, StartWrite(p)
             PROVE  Inv'
  BY Zenon DEF Preserved
<1>1. p \in Procs /\ p # Boot /\ Busy(p) /\ "write" \in Steps /\ Goto(p, "write")
  BY CallerAssumption, Zenon DEF StartWrite, Busy, Procs, Steps
<1>2. pc'[p] = "write" /\ \A q \in Procs \ {p} : ~Busy(q)'
  BY <1>1, OwnStep, Zenon
<1>3. TypeOK'
  BY <1>1, SizeAssumption DEF StartWrite, Goto, Inv, TypeOK, Sectors, diskVars, ramVars
<1>4. Distinct' /\ Unmarked' /\ depth' = 1
  BY <1>1, <1>2, OwnStep, ZenonT(40) DEF StartWrite, Inv, Distinct, Unmarked, Committed, Applying, Table, InTxn, Busy,
     diskVars, ramVars
<1>5. LoopOk(p)' /\ ApplyOk(p)' /\ LogOk(p)'
  BY <1>1, <1>2, <1>3 DEF StartWrite, LoopOk, ApplyOk, LogOk, Logging, Applying, Inv, TypeOK
<1> QED BY <1>1, <1>3, <1>4, <1>5, SumDistinct, Continues, Zenon DEF StartWrite, InTxn, diskVars

(* Where write_sectors puts a sector: in its slot, or in the next one.     *)
LEMMA SlotFacts ==
    ASSUME Inv, NEW p \in Callers, pc[p] = "write"
    PROVE  /\ CurLba(p) \in Sectors
           /\ ~Full(p) =>
                /\ SlotOf(CurLba(p)) \in Slots
                /\ \/ /\ SlotOf(CurLba(p)) \in 1 .. shadow_count
                      /\ shadow_lba[SlotOf(CurLba(p))] = CurLba(p)
                   \/ /\ SlotOf(CurLba(p)) = shadow_count + 1
                      /\ \A j \in 1 .. shadow_count : shadow_lba[j] # CurLba(p)
<1>1. arg[p] \in Nat /\ i[p] \in 1 .. n[p] /\ n[p] \in Nat /\ arg[p] + n[p] <= NSectors
  BY SizeAssumption DEF Inv, LoopOk, TypeOK, Sectors, Procs
<1>2. CurLba(p) \in Sectors
  BY <1>1, SizeAssumption DEF CurLba, Sectors
<1> DEFINE k == SlotOf(CurLba(p))
<1>3. CASE Shadowed(CurLba(p))
  <2>1. k \in 1 .. shadow_count /\ shadow_lba[k] = CurLba(p)
    BY <1>3, Zenon DEF SlotOf, Shadowed
  <2> HIDE DEF k
  <2>2. k \in Slots
    BY <2>1, SizeAssumption DEF Slots, Inv, TypeOK
  <2> QED BY <1>2, <2>1, <2>2, Zenon DEF k
<1>4. CASE ~Shadowed(CurLba(p))
  <2>1. k = shadow_count + 1 /\ \A j \in 1 .. shadow_count : shadow_lba[j] # CurLba(p)
    BY <1>4, Zenon DEF SlotOf, Shadowed
  <2>2. ~Full(p) => shadow_count + 1 \in Slots
    BY <1>4, SizeAssumption DEF Full, Slots, Inv, TypeOK
  <2> QED BY <1>2, <2>1, <2>2, Zenon
<1> QED BY <1>3, <1>4, Zenon

(* One sector of a write_sectors call.                                     *)
LEMMA WriteSectorInv == \A p \in Callers : Preserved(WriteSector(p))
<1> SUFFICES ASSUME Updaters = {}, Inv, NEW p \in Callers, WriteSector(p)
             PROVE  Inv'
  BY Zenon DEF Preserved
<1>1. p \in Procs /\ p # Boot /\ Busy(p) /\ {"open", "write"} \subseteq Steps
  BY CallerAssumption, Zenon DEF WriteSector, Busy, Procs, Steps
<1>2. PICK l \in {"open", "write"} : Goto(p, l)
  BY <1>1, ZenonT(40) DEF WriteSector, Goto, Inv, TypeOK
<1>3. pc'[p] = l /\ \A q \in Procs \ {p} : ~Busy(q)'
  BY <1>1, <1>2, OwnStep, Zenon
<1>4. CurLba(p) \in Sectors
  BY <1>1, SlotFacts, Zenon DEF WriteSector
<1>5. TypeOK' /\ Distinct'
  <2>1. CASE Full(p)
    <3>1. /\ Goto(p, "open") /\ EndCall(p) /\ ok' = [ok EXCEPT ![p] = FALSE]
          /\ UNCHANGED <<ramVars, diskVars, lock, outer, desc>>
      BY <2>1, Zenon DEF WriteSector
    <3>2. 0 \in Sectors
      BY SizeAssumption DEF Sectors
    <3> QED BY <1>1, <3>1, <3>2, Zenon DEF EndCall, Goto, Inv, TypeOK, Distinct, diskVars, ramVars
  <2>2. CASE ~Full(p)
    <3> DEFINE k == SlotOf(CurLba(p))
    <3>1. /\ k \in Slots
          /\ \/ k \in 1 .. shadow_count /\ shadow_lba[k] = CurLba(p)
             \/ k = shadow_count + 1 /\ \A j \in 1 .. shadow_count : shadow_lba[j] # CurLba(p)
      BY <1>1, <2>2, SlotFacts, Zenon DEF WriteSector
    <3>2. PICK v \in Values :
            /\ shadow_lba' = [shadow_lba EXCEPT ![k] = CurLba(p)]
            /\ shadow_data' = [shadow_data EXCEPT ![k] = v]
            /\ shadow_count' = IF k > shadow_count THEN k ELSE shadow_count
      BY <2>2, Zenon DEF WriteSector
    <3> HIDE DEF k
    <3>3. /\ shadow_count' \in 0 .. MaxTxn
          /\ (k \in 1 .. shadow_count => shadow_count' = shadow_count)
          /\ (k = shadow_count + 1 => shadow_count' = k)
      BY <3>1, <3>2, SizeAssumption DEF Slots, Inv, TypeOK
    <3>4. Distinct'
      BY <3>1, <3>2, <3>3, SizeAssumption DEF Inv, Distinct, TypeOK, Slots
    <3>5. shadow_lba' \in [Slots -> Sectors] /\ shadow_data' \in [Slots -> Values]
      BY <3>1, <3>2, <1>4, Zenon DEF Inv, TypeOK
    <3>6. /\ arg' \in [Procs -> Sectors] /\ i' \in [Procs -> Nat] /\ n' \in [Procs -> Nat]
          /\ pc' \in [Procs -> Steps]
      <4>1. 0 \in Sectors /\ 0 \in Nat /\ 1 \in Nat /\ i[p] + 1 \in Nat
        BY <1>1, SizeAssumption DEF Sectors, Inv, TypeOK
      <4>2. \/ EndCall(p)
            \/ i' = [i EXCEPT ![p] = i[p] + 1] /\ arg' = arg /\ n' = n
        BY <2>2, Zenon DEF WriteSector
      <4>3. pc' \in [Procs -> Steps]
        BY <1>2, Zenon DEF Goto, Inv, TypeOK, Steps
      <4>4. CASE EndCall(p)
        BY <4>1, <4>3, <4>4, Zenon DEF EndCall, Inv, TypeOK
      <4>5. CASE i' = [i EXCEPT ![p] = i[p] + 1] /\ arg' = arg /\ n' = n
        BY <4>1, <4>3, <4>5, Zenon DEF Inv, TypeOK
      <4> QED BY <4>2, <4>4, <4>5, Zenon
    <3> QED BY <2>2, <3>3, <3>4, <3>5, <3>6, Zenon DEF WriteSector, Inv, TypeOK, diskVars
  <2> QED BY <2>1, <2>2, Zenon
<1>6. Unmarked' /\ depth' = 1
  BY <1>1, <1>2, <1>3, OwnStep, Zenon DEF WriteSector, Inv, Unmarked, Committed, Applying, Table, InTxn, Busy,
     diskVars, ramVars
<1>7. LoopOk(p)' /\ ApplyOk(p)' /\ LogOk(p)'
  <2>1. ApplyOk(p)' /\ LogOk(p)'
    BY <1>3, Zenon DEF ApplyOk, LogOk, Logging, Applying
  <2>2. l = "write" => i'[p] = i[p] + 1 /\ i[p] # n[p] /\ n' = n /\ arg' = arg
    BY <1>1, <1>2, <1>3, Zenon DEF WriteSector, Goto, Inv, TypeOK
  <2>3. LoopOk(p)'
    BY <1>1, <1>3, <2>2 DEF WriteSector, LoopOk, Logging, Applying, Inv, TypeOK
  <2> QED BY <2>1, <2>3, Zenon
<1> QED BY <1>1, <1>2, <1>5, <1>6, <1>7, SumDistinct, Continues, Zenon DEF WriteSector, InTxn, diskVars

(* A caller's call is over: what is left to show.                          *)
LEMMA Returns ==
    ASSUME Updaters = {}, Inv, NEW p \in Callers, Busy(p), Returned(p),
           TypeOK', LogDistinct', Unmarked', shadow_count' = 0, depth' = 0
    PROVE  Inv'
<1>1. p \in Procs /\ p # Boot /\ "idle" \in Steps /\ Goto(p, "idle")
  BY CallerAssumption, Zenon DEF Returned, Procs, Steps
<1>2. /\ pc'[p] = "idle" /\ lock = p /\ pc'[Boot] = "off"
      /\ \A q \in Procs : ~Busy(q)'
      /\ \A q \in Procs \ {p} : pc'[q] = pc[q]
  BY <1>1, OwnStep, Zenon DEF Busy
<1>3. lock' = NoOne /\ \A q \in Callers : ~outer'[q]
  BY <1>1, <1>2, Zenon DEF Returned, Inv, Exclusive, TypeOK, Procs
<1>4. Exclusive'
  BY <1>2, <1>3, CallerAssumption, Zenon DEF Exclusive, Busy, Procs
<1>5. Distinct' /\ Table'
  BY <1>2, CallerAssumption DEF Distinct, Table, InTxn, Busy, Procs
<1>6. \A q \in Procs : LoopOk(q)' /\ ApplyOk(q)' /\ LogOk(q)'
  BY <1>2, ZenonT(40) DEF LoopOk, ApplyOk, LogOk, Busy, Logging, Applying
<1> QED BY <1>4, <1>5, <1>6, Zenon DEF Inv, Procs

(* rust_journal_commit(): a commit of nothing, or the start of one.        *)
LEMMA CommitInv == \A p \in Callers : Preserved(Commit(p))
<1> SUFFICES ASSUME Updaters = {}, Inv, NEW p \in Callers, Commit(p)
             PROVE  Inv'
  BY Zenon DEF Preserved
<1>1. p \in Procs /\ p # Boot /\ pc[p] = "open" /\ Busy(p) /\ {"idle", "head"} \subseteq Steps
  BY CallerAssumption, Zenon DEF Commit, Inv, Exclusive, Busy, Procs, Steps
<1>2. depth = 1 /\ depth' = 0
  BY <1>1 DEF Commit, Inv, Table, InTxn
<1>3. CASE shadow_count = 0
  <2>1. Returned(p) /\ shadow_count' = 0
    BY <1>3, Zenon DEF Commit
  <2>2. TypeOK'
    BY <1>1, <1>2, <2>1, <1>3, SizeAssumption
       DEF Commit, Returned, EndCall, Goto, Inv, TypeOK, Sectors, diskVars
  <2>3. Unmarked'
    BY <1>1, <2>1, OwnStep, Zenon DEF Commit, Returned, Inv, Unmarked, Committed, Applying, Busy, diskVars
  <2> QED BY <1>1, <1>2, <2>1, <2>2, <2>3, SumDistinct, Returns, Zenon DEF Commit, diskVars
<1>4. CASE shadow_count # 0
  <2>1. /\ Goto(p, "head") /\ desc' = [desc EXCEPT ![p] = Txn]
        /\ UNCHANGED <<lock, outer, arg, i, n, diskVars, shadow_count, shadow_lba, shadow_data>>
    BY <1>2, <1>4 DEF Commit
  <2>2. pc'[p] = "head" /\ \A q \in Procs \ {p} : ~Busy(q)' /\ ~Busy(q) /\ pc'[q] = pc[q]
    BY <1>1, <2>1, OwnStep, Zenon
  <2>3. TypeOK'
    BY <1>1, <1>2, <2>1, TxnFacts DEF Commit, Goto, Inv, TypeOK, diskVars
  <2>4. Distinct' /\ Unmarked'
    BY <1>1, <2>1, <2>2, OwnStep, ZenonT(40) DEF Inv, Distinct, Unmarked, Committed, Applying, Busy, diskVars
  <2>5. LoopOk(p)' /\ ApplyOk(p)' /\ LogOk(p)'
    BY <1>1, <1>4, <2>1, <2>2 DEF LoopOk, ApplyOk, LogOk, Logging, Applying, Inv, TypeOK, Txn
  <2> QED BY <1>1, <1>2, <2>1, <2>3, <2>4, <2>5, SumDistinct, Continues, Zenon DEF InTxn, diskVars
<1> QED BY <1>3, <1>4, Zenon

-----------------------------------------------------------------------------
(* While p commits it holds the lock, nobody else is busy, and no          *)
(* transaction is open.                                                    *)
LEMMA Committing ==
    ASSUME Updaters = {}, Inv, NEW p \in Procs, pc[p] \in Logging \cup Applying
    PROVE  /\ Busy(p) /\ depth = 0 /\ shadow_count \in 1 .. MaxTxn
           /\ p # Boot => p \in Callers /\ pc[Boot] = "off"
           /\ p = Boot => pc[p] \in {"ckpt", "inval"}
           /\ \A q \in Procs \ {p} : ~Busy(q)
<1>1. Busy(p)
  BY Zenon DEF Busy, Logging, Applying
<1>2. /\ p # Boot => p \in Callers /\ pc[Boot] = "off"
      /\ \A q \in Procs \ {p} : ~Busy(q)
  BY <1>1, CallerAssumption, Zenon DEF Inv, Exclusive, Busy, Procs
<1>3. depth = 0
  BY <1>2, CallerAssumption, Zenon DEF Inv, Table, Busy, InTxn, Logging, Applying, Procs
<1>4. shadow_count \in 1 .. MaxTxn
  BY SizeAssumption DEF Inv, LoopOk, TypeOK
<1>5. p = Boot => pc[p] \in {"ckpt", "inval"}
  BY Zenon DEF Inv, Exclusive, Logging, Applying
<1> QED BY <1>1, <1>2, <1>3, <1>4, <1>5, Zenon

(* A write of the journal failed: the checkpoint follows, the call will    *)
(* return false.                                                           *)
LEMMA GivesUp ==
    ASSUME Updaters = {}, Inv, NEW p \in Callers, pc[p] \in Logging, IoFails,
           Loop(p, "ckpt", "inval"), ok' = [ok EXCEPT ![p] = FALSE],
           UNCHANGED <<disk, ramVars, lock, outer, arg, desc>>,
           head' \in Descriptor, LogDistinct', tail' \in [Slots -> Sectors], data' \in [Slots -> Values]
    PROVE  Inv'
<1>1. p \in Procs /\ p # Boot
  BY CallerAssumption, Zenon DEF Procs
<1>2. Busy(p) /\ depth = 0 /\ shadow_count \in 1 .. MaxTxn
  BY <1>1, Committing, Zenon
<1>3. "ckpt" \in Steps /\ Goto(p, "ckpt")
  BY <1>2 DEF Loop, Steps
<1>4. pc'[p] = "ckpt"
  BY <1>1, <1>2, <1>3, OwnStep, Zenon
<1>5. TypeOK'
  BY <1>1, <1>2, <1>3, SizeAssumption DEF Loop, Goto, Inv, TypeOK, ramVars
<1>6. Distinct' /\ Unmarked'
  BY Zenon DEF Inv, Distinct, Unmarked, ramVars
<1>7. LoopOk(p)'
  BY <1>1, <1>2, <1>4, SizeAssumption DEF Loop, LoopOk, Inv, TypeOK, ramVars
<1>8. ApplyOk(p)' /\ LogOk(p)'
  BY <1>1, <1>4, Zenon DEF ApplyOk, LogOk, Good, Logging, Inv, TypeOK
<1> QED BY <1>1, <1>2, <1>3, <1>5, <1>6, <1>7, <1>8, Continues, Zenon DEF ramVars, InTxn

(* The descriptor's first sector, not yet committed.                       *)
LEMMA WriteHeadInv == \A p \in Callers : Preserved(WriteHead(p))
<1> SUFFICES ASSUME Updaters = {}, Inv, NEW p \in Callers, WriteHead(p)
             PROVE  Inv'
  BY Zenon DEF Preserved
<1>1. /\ p \in Procs /\ p # Boot /\ pc[p] = "head" /\ pc[p] \in Logging
      /\ desc[p] = Txn /\ desc[p] \in Seq(Block)
  BY CallerAssumption, Zenon DEF WriteHead, Procs, Logging, Inv, LogOk, TypeOK
<1>2. PICK done \in BOOLEAN, stored \in BOOLEAN :
        /\ Io(done, stored)
        /\ head' = IF stored THEN [magic |-> TRUE, mark |-> FALSE, sum |-> desc[p]] ELSE head
        /\ Durable(p, done, Step(p, "tail"))
  BY Zenon DEF WriteHead
<1>3. Busy(p) /\ depth = 0 /\ shadow_count \in 1 .. MaxTxn
  BY <1>1, Committing, Zenon
<1>4. head' \in Descriptor
  BY <1>1, <1>2, Zenon DEF Inv, TypeOK, Descriptor
<1>5. CASE ~done
  BY <1>1, <1>2, <1>4, <1>5, SumDistinct, GivesUp, Zenon DEF Io, Durable, WriteHead, Inv, TypeOK
<1>6. CASE done
  <2>1. /\ Goto(p, "tail") /\ "tail" \in Steps /\ i' = i /\ n' = n
        /\ head' = [magic |-> TRUE, mark |-> FALSE, sum |-> desc[p]]
        /\ ok' \in [Procs -> BOOLEAN]
    BY <1>1, <1>2, <1>6, Zenon DEF Io, Durable, Step, Steps, Inv, TypeOK
  <2>2. pc'[p] = "tail"
    BY <1>1, <1>3, <2>1, OwnStep, Zenon
  <2>3. TypeOK'
    BY <1>1, <1>4, <2>1, Zenon DEF WriteHead, Goto, Inv, TypeOK, ramVars
  <2>4. Distinct' /\ Unmarked'
    BY <2>1, Zenon DEF WriteHead, Inv, Distinct, Unmarked, Committed, ramVars
  <2>5. LoopOk(p)' /\ ApplyOk(p)'
    BY <1>1, <1>3, <2>2, SizeAssumption DEF WriteHead, LoopOk, ApplyOk, Logging, Applying, ramVars
  <2>6. LogOk(p)'
    BY <1>1, <2>1, <2>2, Zenon DEF WriteHead, LogOk, Txn, ramVars
  <2> QED BY <1>1, <1>3, <2>1, <2>3, <2>4, <2>5, <2>6, SumDistinct, Continues, Zenon DEF WriteHead, ramVars, InTxn
<1> QED BY <1>5, <1>6, Zenon

(* The target lbas of the second descriptor sector are sectors ...         *)
LEMMA TargetsType == ASSUME NEW t \in Seq(Block) PROVE Targets(t) \in [Slots -> Sectors]
<1>1. \A k \in 1 .. Len(t) : t[k].lba \in Sectors
  <2>1. \A k \in 1 .. Len(t) : t[k] \in [lba : Sectors, val : Values]
    BY SeqFacts, Zenon DEF Block
  <2> QED BY <2>1, Zenon
<1>2. 0 \in Sectors
  BY SizeAssumption DEF Sectors
<1>3. \A k \in Slots : (IF k \in HeadTargets + 1 .. Len(t) THEN t[k].lba ELSE 0) \in Sectors
  BY <1>1, <1>2, SizeAssumption DEF Slots
<1> QED BY <1>3, Zenon DEF Targets

(* ... and recovery that reads a whole journal finds the transaction.      *)
LEMMA ReadsBack ==
    ASSUME NEW t \in Seq(Block), Len(t) \in Slots, NEW d \in [Slots -> Values],
           \A k \in 1 .. Len(t) : d[k] = t[k].val
    PROVE  [k \in 1 .. Len(t) |->
               [lba |-> IF k <= HeadTargets THEN t[k].lba ELSE Targets(t)[k], val |-> d[k]]] = t
<1>1. \A k \in 1 .. Len(t) : t[k] \in Block /\ k \in Slots
  BY SizeAssumption DEF Slots
<1>2. \A k \in 1 .. Len(t) : (IF k <= HeadTargets THEN t[k].lba ELSE Targets(t)[k]) = t[k].lba
  BY <1>1, SizeAssumption DEF Targets
<1>3. \A k \in 1 .. Len(t) :
        [lba |-> IF k <= HeadTargets THEN t[k].lba ELSE Targets(t)[k], val |-> d[k]] = t[k]
  BY <1>1, <1>2, Zenon DEF Block
<1>4. t = [k \in 1 .. Len(t) |-> t[k]]
  BY SeqFacts, Zenon
<1> QED BY <1>3, <1>4, Zenon

(* The second descriptor sector.                                           *)
LEMMA WriteTailInv == \A p \in Callers : Preserved(WriteTail(p))
<1> SUFFICES ASSUME Updaters = {}, Inv, NEW p \in Callers, WriteTail(p)
             PROVE  Inv'
  BY Zenon DEF Preserved
<1>1. /\ p \in Procs /\ p # Boot /\ pc[p] = "tail" /\ pc[p] \in Logging
      /\ desc[p] = Txn /\ desc[p] \in Seq(Block)
      /\ head = [magic |-> TRUE, mark |-> FALSE, sum |-> desc[p]]
  BY CallerAssumption, Zenon DEF WriteTail, Procs, Logging, Inv, LogOk, TypeOK
<1>2. PICK done \in BOOLEAN, stored \in BOOLEAN :
        /\ Io(done, stored)
        /\ tail' = IF stored THEN Targets(desc[p]) ELSE tail
        /\ Durable(p, done, Loop(p, "data", "mark"))
  BY Zenon DEF WriteTail
<1>3. Busy(p) /\ depth = 0 /\ shadow_count \in 1 .. MaxTxn
  BY <1>1, Committing, Zenon
<1>4. tail' \in [Slots -> Sectors]
  BY <1>1, <1>2, TargetsType, Zenon DEF Inv, TypeOK
<1>5. CASE ~done
  BY <1>1, <1>2, <1>4, <1>5, SumDistinct, GivesUp, Zenon DEF Io, Durable, WriteTail, Inv, TypeOK
<1>6. CASE done
  <2>1. /\ Goto(p, "data") /\ "data" \in Steps /\ tail' = Targets(desc[p])
        /\ i' = [i EXCEPT ![p] = 1] /\ n' = [n EXCEPT ![p] = shadow_count]
        /\ ok' \in [Procs -> BOOLEAN]
    BY <1>1, <1>2, <1>3, <1>6 DEF Io, Durable, Loop, Steps, Inv, TypeOK
  <2>2. pc'[p] = "data"
    BY <1>1, <1>3, <2>1, OwnStep, Zenon
  <2>3. TypeOK'
    BY <1>1, <1>3, <1>4, <2>1 DEF WriteTail, Goto, Inv, TypeOK, ramVars
  <2>4. Distinct' /\ Unmarked'
    BY <1>1, Zenon DEF WriteTail, Inv, Distinct, Unmarked, Committed, ramVars
  <2>5. LoopOk(p)' /\ ApplyOk(p)'
    BY <1>1, <1>3, <2>1, <2>2, SizeAssumption
       DEF WriteTail, LoopOk, ApplyOk, Logging, Applying, ramVars, Inv, TypeOK
  <2>6. LogOk(p)'
    BY <1>1, <2>1, <2>2 DEF WriteTail, LogOk, Txn, ramVars, Inv, TypeOK
  <2> QED BY <1>1, <1>3, <2>1, <2>3, <2>4, <2>5, <2>6, SumDistinct, Continues, Zenon DEF WriteTail, ramVars, InTxn
<1> QED BY <1>5, <1>6, Zenon

(* A data block.                                                           *)
LEMMA WriteDataInv == \A p \in Callers : Preserved(WriteData(p))
<1> SUFFICES ASSUME Updaters = {}, Inv, NEW p \in Callers, WriteData(p)
             PROVE  Inv'
  BY Zenon DEF Preserved
<1>1. /\ p \in Procs /\ p # Boot /\ pc[p] = "data" /\ pc[p] \in Logging
      /\ desc[p] = Txn /\ tail = Targets(desc[p])
      /\ head = [magic |-> TRUE, mark |-> FALSE, sum |-> desc[p]]
      /\ i[p] \in 1 .. n[p] /\ n[p] = shadow_count
      /\ \A k \in 1 .. i[p] - 1 : data[k] = shadow_data[k]
  BY CallerAssumption, Zenon DEF WriteData, Procs, Logging, Inv, LogOk, LoopOk
<1>2. PICK done \in BOOLEAN, stored \in BOOLEAN :
        /\ Io(done, stored)
        /\ data' = IF stored THEN [data EXCEPT ![i[p]] = shadow_data[i[p]]] ELSE data
        /\ Durable(p, done, /\ Goto(p, IF i[p] = n[p] THEN "mark" ELSE "data")
                            /\ i' = [i EXCEPT ![p] = @ + 1] /\ UNCHANGED n)
  BY Zenon DEF WriteData
<1>3. Busy(p) /\ depth = 0 /\ shadow_count \in 1 .. MaxTxn /\ i[p] \in Slots
  <2>1. Busy(p) /\ depth = 0 /\ shadow_count \in 1 .. MaxTxn
    BY <1>1, Committing, Zenon
  <2>2. \A a, b : b \in 1 .. MaxTxn /\ a \in 1 .. b => a \in 1 .. MaxTxn
    BY SizeAssumption
  <2> QED BY <1>1, <2>1, <2>2, Zenon DEF Slots
<1>4. data' \in [Slots -> Values]
  BY <1>2, <1>3, Zenon DEF Inv, TypeOK
<1>5. CASE ~done
  BY <1>1, <1>2, <1>4, <1>5, SumDistinct, GivesUp, Zenon DEF Io, Durable, WriteData, Inv, TypeOK
<1>6. CASE done
  <2>1. PICK l \in {"mark", "data"} :
          /\ l = IF i[p] = n[p] THEN "mark" ELSE "data"
          /\ Goto(p, l) /\ l \in Steps
          /\ i' = [i EXCEPT ![p] = i[p] + 1] /\ n' = n
          /\ data' = [data EXCEPT ![i[p]] = shadow_data[i[p]]]
          /\ ok' \in [Procs -> BOOLEAN]
    BY <1>1, <1>2, <1>6, Zenon DEF Io, Durable, Steps, Inv, TypeOK
  <2>2. pc'[p] = l
    BY <1>1, <1>3, <2>1, OwnStep, Zenon
  <2>3. TypeOK'
    BY <1>1, <1>4, <2>1 DEF WriteData, Goto, Inv, TypeOK, ramVars
  <2>4. Distinct' /\ Unmarked'
    <3>1. shadow_count' = shadow_count /\ shadow_lba' = shadow_lba /\ head' = head
      BY Zenon DEF WriteData, ramVars
    <3>2. ~head.mark
      BY <1>1
    <3> QED BY <3>1, <3>2, Zenon DEF Inv, Distinct, Unmarked, Committed
  <2>5. i'[p] = i[p] + 1 /\ \A k \in 1 .. i[p] : data'[k] = shadow_data[k]
    BY <1>1, <1>3, <2>1, SizeAssumption DEF Inv, TypeOK, Slots
  <2>6. LoopOk(p)' /\ ApplyOk(p)'
    BY <1>1, <1>3, <2>1, <2>2, <2>5, SizeAssumption
       DEF WriteData, LoopOk, ApplyOk, Logging, Applying, ramVars
  <2>7. LogOk(p)'
    BY <1>1, <1>3, <2>1, <2>2, <2>5 DEF WriteData, LogOk, Txn, ramVars
  <2> QED BY <1>1, <1>3, <2>1, <2>3, <2>4, <2>6, <2>7, SumDistinct, Continues, Zenon DEF WriteData, ramVars, InTxn
<1> QED BY <1>5, <1>6, Zenon

(* The commit point.                                                       *)
LEMMA WriteMarkInv == \A p \in Callers : Preserved(WriteMark(p))
<1> SUFFICES ASSUME Updaters = {}, Inv, NEW p \in Callers, WriteMark(p)
             PROVE  Inv'
  BY Zenon DEF Preserved
<1>1. /\ p \in Procs /\ p # Boot /\ pc[p] = "mark" /\ pc[p] \in Logging
      /\ desc[p] = Txn /\ desc[p] \in Seq(Block) /\ tail = Targets(desc[p])
      /\ \A k \in 1 .. shadow_count : data[k] = shadow_data[k]
  BY CallerAssumption, Zenon DEF WriteMark, Procs, Logging, Inv, LogOk, TypeOK
<1>2. PICK done \in BOOLEAN, stored \in BOOLEAN :
        /\ Io(done, stored)
        /\ head' = IF stored THEN [magic |-> TRUE, mark |-> TRUE, sum |-> desc[p]] ELSE head
        /\ Durable(p, done, Step(p, "marktail"))
  BY Zenon DEF WriteMark
<1>3. Busy(p) /\ depth = 0 /\ shadow_count \in 1 .. MaxTxn
  BY <1>1, Committing, Zenon
<1>4. head' \in Descriptor
  BY <1>1, <1>2, Zenon DEF Inv, TypeOK, Descriptor
<1>5. CASE ~done
  BY <1>1, <1>2, <1>4, <1>5, SumDistinct, GivesUp, Zenon DEF Io, Durable, WriteMark, Inv, TypeOK
<1>6. CASE done
  <2>1. /\ Goto(p, "marktail") /\ "marktail" \in Steps /\ i' = i /\ n' = n
        /\ head' = [magic |-> TRUE, mark |-> TRUE, sum |-> desc[p]]
        /\ ok' \in [Procs -> BOOLEAN]
    BY <1>1, <1>2, <1>6, Zenon DEF Io, Durable, Step, Steps, Inv, TypeOK
  <2>2. pc'[p] = "marktail"
    BY <1>1, <1>3, <2>1, OwnStep, Zenon
  <2>3. TypeOK'
    BY <1>1, <1>4, <2>1, Zenon DEF WriteMark, Goto, Inv, TypeOK, ramVars
  <2>4. Distinct' /\ Unmarked'
    BY <1>1, <2>2, Zenon DEF WriteMark, Inv, Distinct, Unmarked, Applying, ramVars
  <2>5. Valid'
    <3>1. Len(desc[p]) \in Slots /\ \A k \in 1 .. Len(desc[p]) : data[k] = desc[p][k].val
      BY <1>1, <1>3, TxnFacts, Zenon DEF Inv, Slots
    <3>2. Recovered' = desc[p]
      <4>1. [k \in 1 .. Len(desc[p]) |->
               [lba |-> IF k <= HeadTargets THEN desc[p][k].lba ELSE Targets(desc[p])[k],
                val |-> data[k]]] = desc[p]
        BY <1>1, <3>1, ReadsBack, Zenon DEF Inv, TypeOK
      <4>2. head'.sum = desc[p] /\ tail' = Targets(desc[p]) /\ data' = data
        BY <1>1, <2>1, Zenon DEF WriteMark
      <4> QED BY <4>1, <4>2, Zenon DEF Recovered
    <3> QED BY <2>1, <3>1, <3>2, Zenon DEF Valid, Committed
  <2>6. LoopOk(p)' /\ LogOk(p)'
    BY <1>1, <1>3, <2>2, SizeAssumption DEF WriteMark, LoopOk, LogOk, Logging, Applying, Txn, ramVars
  <2>7. ApplyOk(p)'
    BY <1>1, <2>1, <2>2, <2>5, Zenon DEF WriteMark, ApplyOk, Txn, ramVars
  <2> QED BY <1>1, <1>3, <2>1, <2>3, <2>4, <2>6, <2>7, SumDistinct, Continues, Zenon DEF WriteMark, ramVars, InTxn
<1> QED BY <1>5, <1>6, Zenon

(* The second sector of the committed descriptor: the same as before.      *)
LEMMA WriteMarkTailInv == \A p \in Callers : Preserved(WriteMarkTail(p))
<1> SUFFICES ASSUME Updaters = {}, Inv, NEW p \in Callers, WriteMarkTail(p)
             PROVE  Inv'
  BY Zenon DEF Preserved
<1>1. /\ p \in Procs /\ p # Boot /\ pc[p] = "marktail" /\ pc[p] \in Logging \cap Applying
      /\ desc[p] = Txn /\ desc[p] \in Seq(Block)
      /\ Good(p) => Valid /\ head.sum = Txn
  BY CallerAssumption, Zenon DEF WriteMarkTail, Procs, Logging, Applying, Inv, LogOk, ApplyOk, TypeOK
<1>2. PICK done \in BOOLEAN, stored \in BOOLEAN :
        /\ Io(done, stored)
        /\ tail' = IF stored THEN Targets(desc[p]) ELSE tail
        /\ Durable(p, done, Loop(p, "ckpt", "inval"))
  BY Zenon DEF WriteMarkTail
<1>3. Busy(p) /\ depth = 0 /\ shadow_count \in 1 .. MaxTxn
  BY <1>1, Committing, Zenon
<1>4. tail' \in [Slots -> Sectors]
  BY <1>1, <1>2, TargetsType, Zenon DEF Inv, TypeOK
<1>5. CASE ~done
  BY <1>1, <1>2, <1>4, <1>5, SumDistinct, GivesUp, Zenon DEF Io, Durable, WriteMarkTail, Inv, TypeOK
<1>6. CASE done
  <2>1. /\ Goto(p, "ckpt") /\ "ckpt" \in Steps /\ tail' = Targets(desc[p])
        /\ i' = [i EXCEPT ![p] = 1] /\ n' = [n EXCEPT ![p] = shadow_count]
        /\ ok' \in [Procs -> BOOLEAN] /\ (ok'[p] => ok[p])
    BY <1>1, <1>2, <1>3, <1>6 DEF Io, Durable, Loop, Steps, Inv, TypeOK
  <2>2. pc'[p] = "ckpt"
    BY <1>1, <1>3, <2>1, OwnStep, Zenon
  <2>3. TypeOK'
    BY <1>1, <1>3, <1>4, <2>1 DEF WriteMarkTail, Goto, Inv, TypeOK, ramVars
  <2>4. Distinct' /\ Unmarked'
    BY <1>1, <2>2, Zenon DEF WriteMarkTail, Inv, Distinct, Unmarked, Applying, ramVars
  <2>5. Good(p) => Valid'
    <3> SUFFICES ASSUME Good(p) PROVE Valid'
      BY Zenon
    <3>1. Len(desc[p]) \in Slots /\ head.sum = desc[p] /\ head'.sum = desc[p]
      BY <1>1, Zenon DEF Valid, Committed, WriteMarkTail
    <3>2. \A k \in 1 .. Len(desc[p]) : data[k] = desc[p][k].val
      BY <1>1, <3>1 DEF Valid, Recovered
    <3>3. Recovered' = desc[p]
      <4>1. [k \in 1 .. Len(desc[p]) |->
               [lba |-> IF k <= HeadTargets THEN desc[p][k].lba ELSE Targets(desc[p])[k],
                val |-> data[k]]] = desc[p]
        BY <1>1, <3>1, <3>2, ReadsBack, Zenon DEF Inv, TypeOK
      <4>2. head'.sum = desc[p] /\ tail' = Targets(desc[p]) /\ data' = data
        BY <1>1, <2>1, <3>1, Zenon DEF WriteMarkTail
      <4> QED BY <4>1, <4>2, Zenon DEF Recovered
    <3> QED BY <1>1, <3>1, <3>3, Zenon DEF Valid, Committed, WriteMarkTail
  <2>6. LoopOk(p)' /\ LogOk(p)'
    BY <1>1, <1>3, <2>1, <2>2, SizeAssumption
       DEF WriteMarkTail, LoopOk, LogOk, Logging, Applying, ramVars, Inv, TypeOK
  <2>7. ApplyOk(p)'
    <3>1. i'[p] = 1 /\ (Good(p)' => Good(p)) /\ head' = head /\ Txn' = Txn
      BY <1>1, <2>1, Zenon DEF WriteMarkTail, Good, Txn, ramVars, Inv, TypeOK
    <3>2. \A k : k \notin 1 .. i'[p] - 1
      BY <3>1
    <3> QED BY <1>1, <2>2, <2>5, <3>1, <3>2, Zenon DEF ApplyOk
  <2> QED BY <1>1, <1>3, <2>1, <2>3, <2>4, <2>6, <2>7, SumDistinct, Continues, Zenon DEF WriteMarkTail, ramVars, InTxn
<1> QED BY <1>5, <1>6, Zenon

(* A block reaches its place.                                              *)
LEMMA CheckpointInv == \A p \in Procs : Preserved(Checkpoint(p))
<1> SUFFICES ASSUME Updaters = {}, Inv, NEW p \in Procs, Checkpoint(p)
             PROVE  Inv'
  BY Zenon DEF Preserved
<1>1. /\ pc[p] = "ckpt" /\ pc[p] \in Applying /\ i[p] \in 1 .. n[p] /\ n[p] = shadow_count
  BY Zenon DEF Checkpoint, Applying, Inv, LoopOk
<1>2. PICK done \in BOOLEAN, stored \in BOOLEAN :
        /\ Io(done, stored)
        /\ disk' = IF stored THEN [disk EXCEPT ![shadow_lba[i[p]]] = shadow_data[i[p]]] ELSE disk
        /\ ok' = [ok EXCEPT ![p] = @ /\ done]
  BY Zenon DEF Checkpoint
<1>3. Busy(p) /\ depth = 0 /\ shadow_count \in 1 .. MaxTxn /\ i[p] \in Slots
  <2>1. Busy(p) /\ depth = 0 /\ shadow_count \in 1 .. MaxTxn
    BY <1>1, Committing, Zenon
  <2>2. \A a, b : b \in 1 .. MaxTxn /\ a \in 1 .. b => a \in 1 .. MaxTxn
    BY SizeAssumption
  <2> QED BY <1>1, <2>1, <2>2, Zenon DEF Slots
<1>4. PICK l \in {"inval", "ckpt"} :
        l = (IF i[p] = n[p] THEN "inval" ELSE "ckpt") /\ l \in Steps /\ Goto(p, l)
  BY Zenon DEF Checkpoint, Steps
<1>5. pc'[p] = l /\ i'[p] = i[p] + 1
  BY <1>3, <1>4, OwnStep, Zenon DEF Checkpoint, Inv, TypeOK
<1>6. TypeOK'
  <2>1. disk' \in [Sectors -> Values]
    BY <1>2, <1>3, Zenon DEF Inv, TypeOK
  <2>2. ok' \in [Procs -> BOOLEAN]
    BY <1>2, Zenon DEF Inv, TypeOK
  <2>3. pc' \in [Procs -> Steps] /\ i' \in [Procs -> Nat]
    BY <1>4 DEF Checkpoint, Goto, Inv, TypeOK
  <2> QED BY <2>1, <2>2, <2>3, Zenon DEF Checkpoint, Inv, TypeOK, ramVars
<1>7. Distinct' /\ Unmarked'
  BY <1>4, <1>5, Zenon DEF Checkpoint, Inv, Distinct, Unmarked, Applying, ramVars
<1>8. LoopOk(p)' /\ LogOk(p)'
  BY <1>1, <1>3, <1>4, <1>5, SizeAssumption
     DEF Checkpoint, LoopOk, LogOk, Logging, Applying, ramVars
<1>9. ApplyOk(p)'
  <2> SUFFICES ASSUME Good(p)' PROVE ApplyOk(p)'
    BY Zenon DEF ApplyOk
  <2>1. Good(p) /\ disk' = [disk EXCEPT ![shadow_lba[i[p]]] = shadow_data[i[p]]]
    BY <1>2, Zenon DEF Good, Io, Inv, TypeOK
  <2>2. Valid /\ head.sum = Txn /\ \A k \in 1 .. i[p] - 1 : disk[shadow_lba[k]] = shadow_data[k]
    BY <1>1, <2>1, Zenon DEF Inv, ApplyOk
  <2>3. Valid' /\ head'.sum = Txn'
    BY <2>2, ZenonT(40) DEF Checkpoint, Valid, Committed, Recovered, Txn, ramVars
  <2>4. \A k \in 1 .. i[p] : disk'[shadow_lba[k]] = shadow_data[k]
    <3>1. \A k \in 1 .. i[p] : k \in Slots /\ k \in 1 .. shadow_count
      BY <1>1, <1>3, SizeAssumption DEF Slots
    <3>2. \A k \in 1 .. i[p] - 1 : shadow_lba[k] # shadow_lba[i[p]]
      BY <1>1, <3>1, SizeAssumption DEF Inv, Distinct, TypeOK
    <3> QED BY <1>1, <2>1, <2>2, <3>1, <3>2 DEF Inv, TypeOK
  <2> QED BY <1>1, <1>3, <1>4, <1>5, <2>3, <2>4 DEF Checkpoint, ApplyOk, ramVars
<1> QED BY <1>3, <1>4, <1>6, <1>7, <1>8, <1>9, SumDistinct, Continues, Zenon DEF Checkpoint, ramVars, InTxn

-----------------------------------------------------------------------------
(* While recovery reads the journal, nothing is open or shadowed.          *)
LEMMA Recovering ==
    ASSUME Inv, pc[Boot] = "recover"
    PROVE  Busy(Boot) /\ depth = 0 /\ shadow_count = 0
<1>1. Busy(Boot) /\ \A p \in Callers : pc[p] = "off"
  BY Zenon DEF Inv, Exclusive, Busy
<1> QED BY <1>1, Zenon DEF Inv, Table, Busy, InTxn, Procs

(* The mount after recovery.                                               *)
LEMMA Mounts ==
    ASSUME Updaters = {}, Inv, Busy(Boot), Mount, UNCHANGED <<lock, outer>>,
           TypeOK', LogDistinct', Unmarked', shadow_count' = 0, depth' = 0
    PROVE  Inv'
<1>1. /\ pc'[Boot] = "off" /\ \A q \in Callers : pc'[q] = "idle"
      /\ \A q \in Procs : ~Busy(q)'
  BY CallerAssumption, Zenon DEF Mount, Busy, Procs
<1>2. \A q \in Callers : lock # q
  BY Zenon DEF Inv, Exclusive, Busy
<1>3. Exclusive'
  BY <1>1, <1>2, CallerAssumption, Zenon DEF Inv, Exclusive, Busy, Procs
<1>4. Distinct' /\ Table'
  BY <1>1 DEF Distinct, Table, InTxn, Busy
<1>5. \A q \in Procs : LoopOk(q)' /\ ApplyOk(q)' /\ LogOk(q)'
  BY <1>1, Zenon DEF LoopOk, ApplyOk, LogOk, Busy, Logging, Applying
<1> QED BY <1>3, <1>4, <1>5, Zenon DEF Inv, Procs

(* The cleared descriptor.                                                 *)
LEMMA NoHeadType == NoHead \in Descriptor /\ NoHead.sum = <<>> /\ ~NoHead.mark
BY DEF NoHead, Descriptor

(* The end of a commit, or of the recovery at boot.                        *)
LEMMA InvalidateInv == \A p \in Procs : Preserved(Invalidate(p))
<1> SUFFICES ASSUME Updaters = {}, Inv, NEW p \in Procs, Invalidate(p)
             PROVE  Inv'
  BY Zenon DEF Preserved
<1>1. pc[p] = "inval" /\ pc[p] \in Applying
  BY Zenon DEF Invalidate, Applying
<1>2. /\ Busy(p) /\ depth = 0 /\ shadow_count \in 1 .. MaxTxn
      /\ p # Boot => p \in Callers /\ pc[Boot] = "off"
  BY <1>1, Committing, Zenon
<1>3. head' \in {head, NoHead} /\ (~IoFails => head' = NoHead)
  BY <1>2, SizeAssumption DEF Invalidate, Io
<1>4. NoHead \in Descriptor /\ 0 \in Sectors /\ <<>> \in Seq(Block)
  BY SizeAssumption DEF NoHead, Descriptor, Sectors
<1>5. Unmarked'
  BY <1>3 DEF Unmarked, Committed, NoHead
<1>6. depth' = 0 /\ shadow_count' = 0
  BY <1>2, Zenon DEF Invalidate
<1>9. LogDistinct'
  BY <1>3, SumDistinct DEF NoHead
<1>7. CASE p # Boot
  <2>1. p \in Callers /\ Returned(p)
    BY <1>2, <1>7, Zenon DEF Invalidate
  <2>2. "idle" \in Steps /\ lock' \in Callers \cup {NoOne}
    BY <2>1, Zenon DEF Steps, Returned, Inv, TypeOK
  <2>3. TypeOK'
    <3>1. /\ arg' \in [Procs -> Sectors] /\ i' \in [Procs -> Nat] /\ n' \in [Procs -> Nat]
          /\ desc' \in [Procs -> Seq(Block)] /\ outer' \in [Procs -> BOOLEAN]
          /\ pc' \in [Procs -> Steps]
      BY <1>4, <2>1, <2>2, Zenon DEF Returned, EndCall, Goto, Inv, TypeOK
    <3> QED BY <1>3, <1>4, <1>6, <2>2, <3>1, SizeAssumption DEF Invalidate, Inv, TypeOK
  <2> QED BY <1>2, <1>5, <1>6, <1>9, <2>1, <2>3, Returns, Zenon
<1>8. CASE p = Boot
  <2>1. Mount /\ UNCHANGED <<lock, outer, arg, desc, i, n>>
    BY <1>8, Zenon DEF Invalidate
  <2>2. TypeOK'
    BY <1>3, <1>4, <1>6, <2>1, SizeAssumption DEF Invalidate, Mount, Steps, Inv, TypeOK
  <2> QED BY <1>2, <1>5, <1>6, <1>8, <1>9, <2>1, <2>2, Mounts, Zenon
<1> QED BY <1>7, <1>8, Zenon

(* Recovery finds nothing to redo ...                                      *)
LEMMA RecoverNothingInv == Preserved(RecoverNothing)
<1> SUFFICES ASSUME Updaters = {}, Inv, RecoverNothing
             PROVE  Inv'
  BY Zenon DEF Preserved
<1>1. depth' = 0 /\ shadow_count' = 0
  BY Recovering, Zenon DEF RecoverNothing, ramVars
<1>2. TypeOK'
  BY Zenon DEF RecoverNothing, Mount, Steps, Inv, TypeOK, diskVars, ramVars
<1>3. Unmarked'
  BY Zenon DEF RecoverNothing, Unmarked, Committed, diskVars
<1> QED BY <1>1, <1>2, <1>3, SumDistinct, Recovering, Mounts, Zenon DEF RecoverNothing, diskVars

(* ... or a damaged journal, which it clears ...                           *)
LEMMA RecoverTornInv == Preserved(RecoverTorn)
<1> SUFFICES ASSUME Updaters = {}, Inv, RecoverTorn
             PROVE  Inv'
  BY Zenon DEF Preserved
<1>1. depth' = 0 /\ shadow_count' = 0
  BY Recovering, Zenon DEF RecoverTorn, ramVars
<1>2. head' \in {head, NoHead} /\ (~IoFails => head' = NoHead)
  BY Zenon DEF RecoverTorn, Io
<1>3. TypeOK'
  <2>1. head' \in Descriptor
    BY <1>2, NoHeadType, Zenon DEF Inv, TypeOK
  <2>2. pc' \in [Procs -> Steps]
    BY Zenon DEF RecoverTorn, Mount, Steps
  <2> QED BY <2>1, <2>2, Zenon DEF RecoverTorn, Inv, TypeOK, ramVars
<1>4. Unmarked'
  BY <1>2 DEF Unmarked, Committed, NoHead
<1>5. LogDistinct'
  BY <1>2, SumDistinct DEF NoHead
<1> QED BY <1>1, <1>3, <1>4, <1>5, Recovering, Mounts, Zenon DEF RecoverTorn

(* ... or a committed transaction, which it loads and checkpoints.         *)
LEMMA RecoverRedoInv == Preserved(RecoverRedo)
<1> SUFFICES ASSUME Updaters = {}, Inv, RecoverRedo
             PROVE  Inv'
  BY Zenon DEF Preserved
<1>1. Boot \in Procs /\ Busy(Boot) /\ "ckpt" \in Steps /\ Goto(Boot, "ckpt")
  BY Zenon DEF RecoverRedo, Busy, Procs, Steps
<1>2. pc'[Boot] = "ckpt"
  BY <1>1, OwnStep, Zenon
<1>3. PICK t \in Seq(Block), len \in Slots :
        /\ t = head.sum /\ len = Len(t)
        /\ shadow_count' = len
        /\ shadow_lba' = [k \in Slots |-> IF k <= len THEN t[k].lba ELSE shadow_lba[k]]
        /\ shadow_data' = [k \in Slots |-> IF k <= len THEN t[k].val ELSE shadow_data[k]]
        /\ i' = [i EXCEPT ![Boot] = 1] /\ n' = [n EXCEPT ![Boot] = len]
  BY Zenon DEF RecoverRedo, Valid, Committed, Inv, TypeOK, Descriptor
<1>4. \A k \in 1 .. len : /\ k \in Slots /\ k <= len /\ k \in DOMAIN t
                          /\ t[k] \in [lba : Sectors, val : Values]
  <2>1. len \in Nat /\ DOMAIN t = 1 .. len /\ \A k \in 1 .. len : k \in Slots /\ k <= len
    BY <1>3, SeqFacts, SizeAssumption DEF Slots
  <2>2. \A k \in 1 .. len : t[k] \in [lba : Sectors, val : Values]
    BY <1>3, SeqFacts, Zenon DEF Block
  <2> QED BY <2>1, <2>2, Zenon
<1>5. \A k \in 1 .. len : shadow_lba'[k] = t[k].lba /\ shadow_data'[k] = t[k].val
  BY <1>3, <1>4, Zenon
<1>6. TypeOK'
  <2>1. shadow_lba' \in [Slots -> Sectors] /\ shadow_data' \in [Slots -> Values]
    <3>1. \A k \in Slots : k <= len => t[k].lba \in Sectors /\ t[k].val \in Values
      BY <1>4, SizeAssumption DEF Slots
    <3> QED BY <1>3, <3>1, Zenon DEF Inv, TypeOK
  <2>2. shadow_count' \in 0 .. MaxTxn /\ i' \in [Procs -> Nat] /\ n' \in [Procs -> Nat]
    BY <1>1, <1>3, SizeAssumption DEF Slots, Inv, TypeOK
  <2>3. pc' \in [Procs -> Steps]
    BY <1>1, Zenon DEF Goto, Inv, TypeOK
  <2> QED BY <2>1, <2>2, <2>3, Zenon DEF RecoverRedo, Inv, TypeOK, diskVars
<1>7. Txn' = head.sum
  <2>1. \A k \in 1 .. len : [lba |-> shadow_lba'[k], val |-> shadow_data'[k]] = t[k]
    BY <1>4, <1>5, Zenon
  <2>2. t = [k \in 1 .. len |-> t[k]]
    BY <1>3, SeqFacts, ZenonT(40)
  <2>3. Txn' = [k \in 1 .. len |-> [lba |-> shadow_lba'[k], val |-> shadow_data'[k]]]
    BY <1>3, Zenon DEF Txn
  <2>4. Txn' = [k \in 1 .. len |-> t[k]]
    BY <2>1, <2>3, Zenon
  <2> QED BY <1>3, <2>2, <2>4, Zenon
<1>8. Distinct'
  <2>1. \A j, k \in 1 .. len : t[j].lba = t[k].lba => j = k
    BY <1>3, <1>4, Zenon DEF Inv, LogDistinct
  <2>2. \A j, k \in 1 .. len : shadow_lba'[j] = shadow_lba'[k] => j = k
    BY <1>5, <2>1, Zenon
  <2> QED BY <1>3, <2>2, Zenon DEF Distinct
<1>9. LogDistinct' /\ Unmarked' /\ depth' = 0
  BY <1>1, <1>2, SumDistinct, Recovering, Zenon DEF RecoverRedo, Unmarked, Applying, diskVars
<1>10. i'[Boot] = 1 /\ n'[Boot] = len
  BY <1>1, <1>3, Zenon DEF Inv, TypeOK
<1>11. LoopOk(Boot)'
  BY <1>2, <1>3, <1>10, SizeAssumption DEF LoopOk, Slots
<1>12. ApplyOk(Boot)'
  <2>1. Valid' /\ head' = head
    BY Zenon DEF RecoverRedo, Valid, Committed, Recovered, diskVars
  <2> QED BY <1>2, <1>7, <1>10, <2>1 DEF ApplyOk
<1> QED BY <1>1, <1>6, <1>8, <1>9, <1>11, <1>12, Continues, Zenon DEF RecoverRedo

(* Power is lost.                                                          *)
LEMMA PowerLossInv == Preserved(PowerLoss)
<1> SUFFICES ASSUME Updaters = {}, Inv, PowerLoss
             PROVE  Inv'
  BY Zenon DEF Preserved
<1>1. pc'[Boot] = "recover" /\ \A q \in Callers : pc'[q] = "off" /\ ~outer'[q]
  BY CallerAssumption, Zenon DEF PowerLoss, Procs
<1>2. TypeOK'
  BY SizeAssumption DEF PowerLoss, Steps, Inv, TypeOK, Sectors, diskVars
<1>3. Exclusive'
  BY <1>1, CallerAssumption, Zenon DEF PowerLoss, Exclusive, Busy, Procs
<1>4. Distinct' /\ LogDistinct' /\ Table' /\ Unmarked'
  BY <1>1, SumDistinct DEF PowerLoss, Distinct, Table, InTxn, Unmarked, diskVars
<1>5. \A q \in Procs : LoopOk(q)' /\ ApplyOk(q)' /\ LogOk(q)'
  BY <1>1, ZenonT(40) DEF LoopOk, ApplyOk, LogOk, Logging, Applying, Procs
<1> QED BY <1>2, <1>3, <1>4, <1>5, Zenon DEF Inv, Procs

(* A state in which nothing has happened yet satisfies Inv.                *)
LEMMA InitFrom ==
    ASSUME Init, head \in Descriptor, \A k \in DOMAIN head.sum : k = 1
    PROVE  Inv
<1>1. pc[Boot] = "recover" /\ \A q \in Callers : pc[q] = "off" /\ ~outer[q]
  BY CallerAssumption, Zenon DEF Init, Procs
<1>4. TypeOK
  BY SizeAssumption DEF Init, Steps, TypeOK, Sectors
<1>5. Exclusive
  BY <1>1, CallerAssumption, Zenon DEF Init, Exclusive, Busy, Procs
<1>6. Distinct /\ LogDistinct /\ Table /\ Unmarked
  BY <1>1 DEF Init, Distinct, LogDistinct, Table, InTxn, Unmarked
<1>7. \A q \in Procs : LoopOk(q) /\ ApplyOk(q) /\ LogOk(q)
  BY <1>1, Zenon DEF LoopOk, ApplyOk, LogOk, Logging, Applying, Procs
<1> QED BY <1>4, <1>5, <1>6, <1>7, Zenon DEF Inv, Procs

(* Every initial state satisfies Inv.                                      *)
LEMMA InitInv == Init => Inv
<1> SUFFICES ASSUME Init PROVE Inv
  BY Zenon
<1>2. CASE head = NoHead
  BY <1>2, InitFrom DEF NoHead, Descriptor
<1>3. CASE head # NoHead
  <2>1. PICK b \in Block : head = [magic |-> TRUE, mark |-> TRUE, sum |-> <<b>>]
    BY <1>3, Zenon DEF Init
  <2>2. <<b>> \in Seq(Block) /\ DOMAIN <<b>> = {1}
    OBVIOUS
  <2> QED BY <2>1, <2>2, InitFrom, Zenon DEF Descriptor
<1> QED BY <1>2, <1>3, Zenon

-----------------------------------------------------------------------------
(* Every step preserves Inv.                                               *)
LEMMA StepInv ==
    ASSUME Updaters = {}, Inv, [Next]_vars
    PROVE  Inv'
<1>1. CASE UNCHANGED vars
  <2>1. TypeOK' /\ Exclusive' /\ Distinct' /\ LogDistinct' /\ Table' /\ Unmarked'
    BY <1>1, ZenonT(40) DEF Inv, vars, diskVars, ramVars, procVars, TypeOK, Exclusive, Busy, Distinct,
       LogDistinct, Table, Unmarked, Committed
  <2>2. \A p \in Procs : LoopOk(p)' /\ ApplyOk(p)'
    BY <1>1, ZenonT(40) DEF Inv, vars, diskVars, ramVars, procVars, LoopOk, ApplyOk, Good, Valid,
       Committed, Recovered, Txn
  <2>3. \A p \in Callers : LogOk(p)'
    BY <1>1, Zenon DEF Inv, vars, diskVars, ramVars, procVars, LogOk, Txn
  <2> QED BY <2>1, <2>2, <2>3, Zenon DEF Inv
<1>2. CASE \E p \in Callers : Transaction(p)
  <2>1. \A p \in Callers : ~OpenOuter(p)
    BY Zenon DEF OpenOuter
  <2> QED BY <1>2, <2>1, OpenFileInv, StartWriteInv, WriteSectorInv, CommitInv, Zenon
          DEF Transaction, Preserved
<1>3. CASE \E p \in Callers : Durability(p)
  BY <1>3, WriteHeadInv, WriteTailInv, WriteDataInv, WriteMarkInv, WriteMarkTailInv, Zenon
     DEF Durability, Preserved
<1>4. CASE \E p \in Procs : Checkpoint(p) \/ Invalidate(p)
  BY <1>4, CheckpointInv, InvalidateInv, Zenon DEF Preserved
<1>5. CASE Recover \/ PowerLoss
  BY <1>5, RecoverNothingInv, RecoverTornInv, RecoverRedoInv, PowerLossInv, Zenon
     DEF Recover, Preserved
<1> QED BY <1>1, <1>2, <1>3, <1>4, <1>5, Zenon DEF Next

(* Inv holds in every reachable state, for every size of disk, journal and *)
(* transaction and any number of callers under fat32_lock.                 *)
THEOREM Invariance == ASSUME Updaters = {} PROVE Spec => []Inv
<1>1. Inv /\ [Next]_vars => Inv'
  BY StepInv, Zenon
<1> QED BY <1>1, InitInv, PTL DEF Spec

-----------------------------------------------------------------------------
(* Writing a transaction to a disk: its targets get its blocks and nothing *)
(* else changes ...                                                        *)
LEMMA ApplyFacts ==
    ASSUME NEW t \in Seq(Block), \A j, k \in DOMAIN t : t[j].lba = t[k].lba => j = k,
           NEW d \in [Sectors -> Values]
    PROVE  /\ Apply(d, t) \in [Sectors -> Values]
           /\ \A k \in DOMAIN t : Apply(d, t)[t[k].lba] = t[k].val
           /\ \A s \in Sectors : (\A k \in DOMAIN t : t[k].lba # s) => Apply(d, t)[s] = d[s]
<1>1. \A k \in DOMAIN t : t[k] \in [lba : Sectors, val : Values]
  <2>1. DOMAIN t = 1 .. Len(t) /\ \A k \in 1 .. Len(t) : t[k] \in Block
    BY SeqFacts, Zenon
  <2> QED BY <2>1, Zenon DEF Block
<1>2. \A s \in Sectors, k \in DOMAIN t :
        t[k].lba = s => (CHOOSE j \in DOMAIN t : t[j].lba = s) = k
  BY Zenon
<1>3. \A s \in Sectors : Apply(d, t)[s] = IF \E k \in DOMAIN t : t[k].lba = s
                                          THEN t[CHOOSE k \in DOMAIN t : t[k].lba = s].val
                                          ELSE d[s]
  BY Zenon DEF Apply
<1>4. \A k \in DOMAIN t : Apply(d, t)[t[k].lba] = t[k].val
  BY <1>1, <1>2, <1>3, Zenon
<1>5. \A s \in Sectors : (\A k \in DOMAIN t : t[k].lba # s) => Apply(d, t)[s] = d[s]
  BY <1>3, Zenon
<1>6. \A s \in Sectors : Apply(d, t)[s] \in Values
  <2> SUFFICES ASSUME NEW s \in Sectors PROVE Apply(d, t)[s] \in Values
    BY Zenon
  <2>1. CASE \E k \in DOMAIN t : t[k].lba = s
    BY <1>1, <1>4, <2>1, Zenon
  <2>2. CASE \A k \in DOMAIN t : t[k].lba # s
    BY <1>5, <2>2, Zenon
  <2> QED BY <2>1, <2>2, Zenon
<1>7. Apply(d, t) = [s \in Sectors |-> Apply(d, t)[s]]
  BY Zenon DEF Apply
<1> QED BY <1>4, <1>5, <1>6, <1>7, Zenon

(* ... and that is all there is to it.                                     *)
LEMMA ApplyUnique ==
    ASSUME NEW t \in Seq(Block), \A j, k \in DOMAIN t : t[j].lba = t[k].lba => j = k,
           NEW d \in [Sectors -> Values], NEW e \in [Sectors -> Values],
           \A k \in DOMAIN t : e[t[k].lba] = t[k].val,
           \A s \in Sectors : (\A k \in DOMAIN t : t[k].lba # s) => e[s] = d[s]
    PROVE  e = Apply(d, t)
<1>1. /\ Apply(d, t) \in [Sectors -> Values]
      /\ \A k \in DOMAIN t : Apply(d, t)[t[k].lba] = t[k].val
      /\ \A s \in Sectors : (\A k \in DOMAIN t : t[k].lba # s) => Apply(d, t)[s] = d[s]
  BY ApplyFacts, Zenon
<1>2. ASSUME NEW s \in Sectors PROVE e[s] = Apply(d, t)[s]
  <2>1. CASE \E k \in DOMAIN t : t[k].lba = s
    <3>1. PICK k \in DOMAIN t : t[k].lba = s
      BY <2>1, Zenon
    <3>2. e[t[k].lba] = Apply(d, t)[t[k].lba]
      BY <1>1, Zenon
    <3> QED BY <3>1, <3>2, Zenon
  <2>2. CASE \A k \in DOMAIN t : t[k].lba # s
    BY <1>1, <2>2, Zenon
  <2> QED BY <2>1, <2>2, Zenon
<1> QED BY <1>1, <1>2

(* A transaction may be applied again, as recovery does.                   *)
LEMMA ApplyTwice ==
    ASSUME NEW t \in Seq(Block), \A j, k \in DOMAIN t : t[j].lba = t[k].lba => j = k,
           NEW d \in [Sectors -> Values]
    PROVE  Apply(Apply(d, t), t) = Apply(d, t)
<1>1. /\ Apply(d, t) \in [Sectors -> Values]
      /\ \A k \in DOMAIN t : Apply(d, t)[t[k].lba] = t[k].val
  BY ApplyFacts, Zenon
<1> QED BY <1>1, ApplyUnique, Zenon

(* An empty one changes nothing.                                           *)
LEMMA ApplyNothing ==
    ASSUME NEW d \in [Sectors -> Values] PROVE Apply(d, <<>>) = d
BY DEF Apply

-----------------------------------------------------------------------------
(* The open transaction and the one in the journal may be applied.         *)
LEMMA TxnDistinct ==
    ASSUME Inv
    PROVE  /\ Txn \in Seq(Block) /\ \A j, k \in DOMAIN Txn : Txn[j].lba = Txn[k].lba => j = k
           /\ head.sum \in Seq(Block)
           /\ \A j, k \in DOMAIN head.sum : head.sum[j].lba = head.sum[k].lba => j = k
<1>1. Txn \in Seq(Block) /\ \A j, k \in DOMAIN Txn : Txn[j].lba = Txn[k].lba => j = k
  BY TxnFacts DEF Inv, Distinct
<1>2. head.sum \in Seq(Block)
  BY Zenon DEF Inv, TypeOK, Descriptor
<1> QED BY <1>1, <1>2, Zenon DEF Inv, LogDistinct

(* What a reboot finds is a disk.                                          *)
LEMMA ViewType == ASSUME Inv PROVE View \in [Sectors -> Values] /\ disk \in [Sectors -> Values]
<1>1. disk \in [Sectors -> Values]
  BY Zenon DEF Inv, TypeOK
<1> QED BY <1>1, TxnDistinct, ApplyFacts, Zenon DEF View

(* A call returns from a commit of nothing or from its checkpoint.         *)
LEMMA ReturnSteps ==
    ASSUME Updaters = {}, Inv, Next, NEW p \in Callers, pc[p] \notin {"idle", "off"}, pc'[p] = "idle"
    PROVE  (Commit(p) /\ Returned(p)) \/ Invalidate(p)
<1>1. p \in Procs /\ p # Boot /\ pc \in [Procs -> Steps]
  BY CallerAssumption, Zenon DEF Procs, Inv, TypeOK
<1>2. ASSUME NEW q \in Procs, NEW l, Goto(q, l), l # "idle" PROVE FALSE
  BY <1>1, <1>2, Zenon DEF Goto
<1>3. \A q \in Callers : ~OpenOuter(q) /\ ~OpenFile(q) /\ ~StartWrite(q) /\ ~WriteSector(q)
  BY <1>1, <1>2, Zenon DEF OpenOuter, OpenFile, StartWrite, WriteSector, Procs
<1>4. \A q \in Callers : Commit(q) => q = p /\ Returned(p)
  BY <1>1, <1>2 DEF Commit, Returned, Goto, Procs
<1>5. \A q \in Callers : ~Durability(q)
  <2>1. ASSUME NEW q \in Callers, NEW l, NEW m, Loop(q, l, m), l # "idle", m # "idle" PROVE FALSE
    BY <1>2, <2>1, Zenon DEF Loop, Procs
  <2>2. \A q \in Callers, done \in BOOLEAN :
          /\ ~Durable(q, done, Step(q, "tail")) /\ ~Durable(q, done, Step(q, "marktail"))
          /\ ~Durable(q, done, Loop(q, "data", "mark")) /\ ~Durable(q, done, Loop(q, "ckpt", "inval"))
    BY <1>2, <2>1, Zenon DEF Durable, Step, Procs
  <2>3. \A q \in Callers : ~WriteHead(q) /\ ~WriteTail(q) /\ ~WriteMark(q) /\ ~WriteMarkTail(q)
    BY <2>2, Zenon DEF WriteHead, WriteTail, WriteMark, WriteMarkTail
  <2>4. \A q \in Callers : ~WriteData(q)
    BY <1>2, <2>1, Zenon DEF WriteData, Durable, Procs
  <2> QED BY <2>3, <2>4, Zenon DEF Durability
<1>6. \A q \in Procs : ~Checkpoint(q)
  BY <1>2, Zenon DEF Checkpoint
<1>7. \A q \in Procs : Invalidate(q) => q = p
  <2>1. pc[Boot] = "inval" => pc[p] = "off"
    BY Zenon DEF Inv, Exclusive, Busy
  <2> QED BY <1>1, <2>1, Zenon DEF Invalidate, Returned, Goto, Procs
<1>8. ~Recover /\ ~PowerLoss
  <2>1. pc[Boot] # "recover"
    BY Zenon DEF Inv, Exclusive, Busy
  <2> QED BY <1>1, <2>1, CallerAssumption, Zenon DEF Recover, RecoverNothing, RecoverTorn, RecoverRedo, PowerLoss
<1> QED BY <1>3, <1>4, <1>5, <1>6, <1>7, <1>8, Zenon DEF Next, Transaction

(* A call that is about to return true has its blocks on the disk, with    *)
(* the journal cleared or still holding the same blocks.                   *)
LEMMA DurableStep ==
    ASSUME Updaters = {}, Inv, Next, NEW p \in Callers, pc[p] \notin {"idle", "off"}, pc'[p] = "idle",
           ok'[p]
    PROVE  \A k \in DOMAIN Txn : View'[Txn[k].lba] = Txn[k].val
<1>1. CASE Commit(p) /\ Returned(p)
  <2>1. pc[p] = "open" /\ depth = 1
    BY <1>1, Zenon DEF Commit, Inv, Table, InTxn
  <2>2. shadow_count = 0
    BY <1>1, <2>1 DEF Commit, Returned, Goto, Inv, TypeOK, Procs
  <2> QED BY <2>2 DEF Txn
<1>2. CASE Invalidate(p)
  <2>1. p \in Procs /\ p # Boot /\ pc[p] = "inval" /\ pc[p] \in Applying
    BY <1>2, CallerAssumption, Zenon DEF Invalidate, Procs, Applying
  <2>2. /\ Valid /\ head.sum = Txn
        /\ \A k \in 1 .. shadow_count : disk[shadow_lba[k]] = shadow_data[k]
    BY <1>2, <2>1, Zenon DEF Invalidate, Inv, ApplyOk, Good
  <2>3. \A k \in DOMAIN Txn : disk[Txn[k].lba] = Txn[k].val
    BY <2>2, TxnFacts DEF Inv
  <2>4. \A k \in DOMAIN Txn : Apply(disk, Txn)[Txn[k].lba] = Txn[k].val
    BY TxnDistinct, ViewType, ApplyFacts, ZenonT(40)
  <2>5. head' \in {head, NoHead} /\ disk' = disk
    BY <1>2, Zenon DEF Invalidate
  <2>6. View' \in {disk, Apply(disk, Txn)}
    <3>1. CASE head' = head
      <4>1. View' = disk \/ View' = Apply(disk, head.sum)
        BY <2>5, <3>1, Zenon DEF View, Apply
      <4> QED BY <2>2, <4>1, Zenon
    <3>2. CASE head' = NoHead
      BY <2>5, <3>2, NoHeadType, Zenon DEF View, Valid, Committed
    <3> QED BY <2>5, <3>1, <3>2, Zenon
  <2> QED BY <2>3, <2>4, <2>6, Zenon
<1> QED BY <1>1, <1>2, ReturnSteps, Zenon

(* Whatever I/O fails, a file operation under fat32_lock that returns true *)
(* has made every block of its transaction durable.                        *)
THEOREM CallsAreDurable == ASSUME Updaters = {} PROVE Spec => SuccessMeansDurable
<1>1. Inv /\ [Next]_vars
      => [\A p \in Callers :
            pc[p] \notin {"idle", "off"} /\ pc'[p] = "idle" /\ ~outer'[p] /\ ok'[p]
            => \A k \in DOMAIN Txn : View'[Txn[k].lba] = Txn[k].val]_vars
  BY DurableStep, Zenon DEF vars
<1> QED BY <1>1, Invariance, PTL DEF SuccessMeansDurable, Spec

-----------------------------------------------------------------------------
(* Without I/O errors, nothing is committed in the journal outside a       *)
(* checkpoint and before the commit point: a reboot would find the disk.   *)
LEMMA NotCommitted ==
    ASSUME Inv, ~IoFails, pc[Boot] # "recover", \A p \in Procs : pc[p] \notin Applying
    PROVE  ~Committed /\ ~Valid /\ View = disk
BY Zenon DEF Inv, Unmarked, Valid, View

(* What is read inside a transaction and between transactions.             *)
LEMMA ReadsOk == ASSUME Inv, ~IoFails PROVE ReadYourWrites
<1> SUFFICES ASSUME Settled, NEW s \in Sectors PROVE ReadSector(s) = Apply(View, Txn)[s]
  BY Zenon DEF ReadYourWrites, Working
<1>1. pc[Boot] # "recover" /\ \A p \in Procs : pc[p] \notin Applying
  BY Zenon DEF Settled, Applying, Procs
<1>2. View = disk
  BY <1>1, NotCommitted, Zenon
<1>3. /\ Txn \in Seq(Block) /\ \A j, k \in DOMAIN Txn : Txn[j].lba = Txn[k].lba => j = k
      /\ DOMAIN Txn = 1 .. shadow_count
      /\ \A k \in 1 .. shadow_count : Txn[k].lba = shadow_lba[k] /\ Txn[k].val = shadow_data[k]
      /\ disk \in [Sectors -> Values]
  BY TxnDistinct, TxnFacts, ViewType, Zenon DEF Inv
<1>4. /\ \A k \in DOMAIN Txn : Apply(disk, Txn)[Txn[k].lba] = Txn[k].val
      /\ (\A k \in DOMAIN Txn : Txn[k].lba # s) => Apply(disk, Txn)[s] = disk[s]
  BY <1>3, ApplyFacts, ZenonT(40)
<1>5. CASE Shadowed(s)
  <2>1. PICK k \in 1 .. shadow_count :
          k = (CHOOSE j \in 1 .. shadow_count : shadow_lba[j] = s) /\ shadow_lba[k] = s
    BY <1>5, Zenon DEF Shadowed
  <2>2. depth > 0
    <3>1. shadow_count # 0
      BY <2>1
    <3>2. \E p \in Callers : pc[p] \in InTxn
      BY <3>1, Zenon DEF Settled, Inv, Table, Exclusive, Busy, InTxn, Procs
    <3> QED BY <3>2 DEF Inv, Table
  <2> QED BY <1>2, <1>3, <1>4, <1>5, <2>1, <2>2 DEF ReadSector
<1>6. CASE ~Shadowed(s)
  BY <1>2, <1>3, <1>4, <1>6 DEF ReadSector, Shadowed
<1> QED BY <1>5, <1>6, Zenon

(* Without I/O errors, a read returns what the open transaction wrote, or  *)
(* what a reboot would find.                                               *)
THEOREM ReadersSeeWrites ==
    ASSUME Updaters = {}, ~IoFails PROVE Spec => []ReadYourWrites
<1>1. Inv => ReadYourWrites
  BY ReadsOk, Zenon
<1> QED BY <1>1, Invariance, PTL

-----------------------------------------------------------------------------
(* A step that leaves the disk alone changes nothing a reboot would find.  *)
LEMMA ViewFrame == UNCHANGED diskVars => View' = View
<1> SUFFICES ASSUME UNCHANGED diskVars PROVE View' = View
  BY Zenon
<1>1. (Valid' <=> Valid) /\ disk' = disk /\ head' = head
  BY Zenon DEF Valid, Committed, Recovered, diskVars
<1> QED BY <1>1, Zenon DEF View, Apply

(* A step that leaves the shadow table alone, too.                         *)
LEMMA WorkingFrame ==
    ASSUME View' = View, UNCHANGED <<shadow_count, shadow_lba, shadow_data>>
    PROVE  Working' = Working
<1>1. Txn' = Txn
  BY Zenon DEF Txn
<1> QED BY <1>1, Zenon DEF Working, Apply

(* Shadowing a sector is a write of the open transaction.                  *)
LEMMA WriteSectorSim ==
    ASSUME Updaters = {}, Inv, Inv', NEW p \in Callers, WriteSector(p)
    PROVE  Store!Write \/ UNCHANGED <<View, Working>>
<1>1. View' = View
  BY ViewFrame, Zenon DEF WriteSector
<1>2. CASE Full(p)
  BY <1>1, <1>2, WorkingFrame, Zenon DEF WriteSector, ramVars
<1>3. CASE ~Full(p)
  <2> DEFINE c == CurLba(p)
             k == SlotOf(c)
  <2>1. PICK v \in Values :
          /\ shadow_lba' = [shadow_lba EXCEPT ![k] = c]
          /\ shadow_data' = [shadow_data EXCEPT ![k] = v]
          /\ shadow_count' = IF k > shadow_count THEN k ELSE shadow_count
    BY <1>3, Zenon DEF WriteSector
  <2>2. /\ c \in Sectors /\ k \in Slots
        /\ \/ k \in 1 .. shadow_count /\ shadow_lba[k] = c
           \/ k = shadow_count + 1 /\ \A j \in 1 .. shadow_count : shadow_lba[j] # c
    BY <1>3, SlotFacts, Zenon DEF WriteSector
  <2> HIDE DEF c, k
  <2>3. PICK t :
          /\ t = Txn' /\ t \in Seq(Block) /\ DOMAIN t = 1 .. shadow_count'
          /\ \A j \in 1 .. shadow_count' : t[j].lba = shadow_lba'[j] /\ t[j].val = shadow_data'[j]
    <3>1. /\ shadow_count' \in 0 .. MaxTxn /\ shadow_lba' \in [Slots -> Sectors]
          /\ shadow_data' \in [Slots -> Values]
          /\ Txn' = [j \in 1 .. shadow_count' |-> [lba |-> shadow_lba'[j], val |-> shadow_data'[j]]]
      BY Zenon DEF Inv, TypeOK, Txn
    <3> QED BY <3>1, TableFacts
  <2>4. \A j, m \in DOMAIN t : t[j].lba = t[m].lba => j = m
    BY <2>3 DEF Inv, Distinct
  <2>5. PICK d \in [Sectors -> Values], w \in [Sectors -> Values] :
          /\ d = View /\ w = Working /\ View' = d /\ Working' = Apply(d, t)
          /\ \A j \in 1 .. shadow_count : w[shadow_lba[j]] = shadow_data[j]
          /\ \A s \in Sectors : (\A j \in 1 .. shadow_count : shadow_lba[j] # s) => w[s] = d[s]
    <3>1. View \in [Sectors -> Values]
      BY ViewType, Zenon
    <3>2. /\ Txn \in Seq(Block) /\ \A j, m \in DOMAIN Txn : Txn[j].lba = Txn[m].lba => j = m
          /\ DOMAIN Txn = 1 .. shadow_count
          /\ \A j \in 1 .. shadow_count : Txn[j].lba = shadow_lba[j] /\ Txn[j].val = shadow_data[j]
      BY TxnDistinct, TxnFacts, Zenon DEF Inv
    <3>3. /\ Working \in [Sectors -> Values]
          /\ \A j \in DOMAIN Txn : Working[Txn[j].lba] = Txn[j].val
          /\ \A s \in Sectors : (\A j \in DOMAIN Txn : Txn[j].lba # s) => Working[s] = View[s]
      BY <3>1, <3>2, ApplyFacts, Zenon DEF Working
    <3>4. Working' = Apply(View, t)
      BY <1>1, <2>3, Zenon DEF Working, Apply
    <3> QED BY <1>1, <3>1, <3>2, <3>3, <3>4
  <2>6. /\ shadow_count \in 0 .. MaxTxn /\ MaxTxn \in Nat
        /\ \A j \in 1 .. shadow_count : j \in Slots /\ j \in 1 .. shadow_count'
        /\ k \in 1 .. shadow_count'
        /\ \A j \in 1 .. shadow_count' : j = k \/ j \in 1 .. shadow_count
    BY <2>1, <2>2, SizeAssumption DEF Inv, TypeOK, Slots
  <2>7. /\ t[k].lba = c /\ t[k].val = v
        /\ \A j \in 1 .. shadow_count \ {k} : t[j].lba = shadow_lba[j] /\ t[j].val = shadow_data[j]
    BY <2>1, <2>2, <2>3, <2>6, ZenonT(40) DEF Inv, TypeOK
  <2> DEFINE e == [w EXCEPT ![c] = v]
  <2>8. \A j \in DOMAIN t : e[t[j].lba] = t[j].val
    <3>1. ASSUME NEW j \in 1 .. shadow_count, j # k PROVE e[t[j].lba] = t[j].val
      <4>1. t[j].lba # c
        BY <2>3, <2>4, <2>6, <2>7, <3>1, Zenon
      <4> QED BY <2>5, <2>6, <2>7, <3>1, <4>1 DEF Inv, TypeOK
    <3>2. e[t[k].lba] = t[k].val
      BY <2>2, <2>7, Zenon
    <3> QED BY <2>3, <2>6, <3>1, <3>2, Zenon
  <2>9. \A s \in Sectors : (\A j \in DOMAIN t : t[j].lba # s) => e[s] = d[s]
    <3> SUFFICES ASSUME NEW s \in Sectors, \A j \in DOMAIN t : t[j].lba # s PROVE e[s] = d[s]
      BY Zenon
    <3>1. s # c
      BY <2>3, <2>6, <2>7, Zenon
    <3>2. \A j \in 1 .. shadow_count : shadow_lba[j] # s
      BY <2>2, <2>3, <2>6, <2>7, <3>1
    <3> QED BY <2>5, <3>1, <3>2, Zenon
  <2>10. e \in [Sectors -> Values]
    BY Zenon
  <2>11. e = Apply(d, t)
    <3> HIDE DEF e
    <3> QED BY <2>3, <2>4, <2>8, <2>9, <2>10, ApplyUnique, Zenon
  <2>12. Working' = [Working EXCEPT ![c] = v]
    BY <2>5, <2>11, Zenon
  <2> QED BY <1>1, <2>2, <2>12, Zenon DEF Store!Write
<1> QED BY <1>2, <1>3, Zenon

(* Opening a transaction, starting a write or a commit changes nothing.    *)
LEMMA OpenSim ==
    ASSUME NEW p \in Callers, OpenFile(p) \/ StartWrite(p) \/ Commit(p)
    PROVE  UNCHANGED <<View, Working>>
<1>1. UNCHANGED <<diskVars, shadow_count, shadow_lba, shadow_data>>
  BY Zenon DEF OpenFile, StartWrite, Commit, ramVars
<1> QED BY <1>1, ViewFrame, WorkingFrame, Zenon

(* Before the commit point the writes of the journal change nothing.       *)
LEMMA LogSim ==
    ASSUME Updaters = {}, Inv, ~IoFails, NEW p \in Callers,
           WriteHead(p) \/ WriteTail(p) \/ WriteData(p)
    PROVE  UNCHANGED <<View, Working>>
<1>1. p \in Procs /\ pc[p] \in {"head", "tail", "data"} /\ pc[p] \in Logging
  BY Zenon DEF WriteHead, WriteTail, WriteData, Logging, Procs
<1>2. pc[Boot] # "recover" /\ \A q \in Procs : pc[q] \notin Applying
  BY <1>1, Committing, CallerAssumption, Zenon DEF Busy, Applying, Procs
<1>3. ~Committed /\ View = disk
  BY <1>2, NotCommitted, Zenon
<1>4. disk' = disk /\ (head' = head \/ head' = [magic |-> TRUE, mark |-> FALSE, sum |-> desc[p]])
  BY Zenon DEF WriteHead, WriteTail, WriteData
<1>5. View' = disk
  BY <1>3, <1>4 DEF View, Valid, Committed
<1>6. UNCHANGED <<shadow_count, shadow_lba, shadow_data>>
  BY Zenon DEF WriteHead, WriteTail, WriteData, ramVars
<1> QED BY <1>3, <1>5, <1>6, WorkingFrame, Zenon

(* The write of the commit marker is the commit.                           *)
LEMMA MarkSim ==
    ASSUME Updaters = {}, Inv, Inv', ~IoFails, NEW p \in Callers, WriteMark(p)
    PROVE  Store!Commit
<1>1. p \in Procs /\ p # Boot /\ pc[p] = "mark" /\ pc[p] \in Logging /\ "marktail" \in Steps
  BY CallerAssumption, Zenon DEF WriteMark, Logging, Procs, Steps
<1>2. pc[Boot] # "recover" /\ Busy(p) /\ \A q \in Procs : pc[q] \notin Applying
  BY <1>1, Committing, CallerAssumption, Zenon DEF Busy, Applying, Procs
<1>3. View = disk
  BY <1>2, NotCommitted, Zenon
<1>4. disk' = disk /\ Txn' = Txn /\ Goto(p, "marktail")
  BY Zenon DEF WriteMark, Durable, Step, Io, Txn, ramVars
<1>5. pc'[p] = "marktail"
  BY <1>1, <1>2, <1>4, OwnStep, Zenon
<1>6. Valid' /\ head'.sum = Txn
  BY <1>1, <1>4, <1>5, Zenon DEF Inv, ApplyOk, Good, Applying
<1>7. View' = Apply(disk, Txn)
  BY <1>4, <1>6, Zenon DEF View, Apply
<1>8. View' = Working
  BY <1>3, <1>7, Zenon DEF Working
<1>9. Working' = Apply(Apply(disk, Txn), Txn)
  BY <1>4, <1>7, Zenon DEF Working, Apply
<1>10. Working' = Working
  BY <1>3, <1>9, TxnDistinct, ViewType, ApplyTwice, Zenon DEF Working
<1> QED BY <1>8, <1>10, Zenon DEF Store!Commit

(* What follows the commit point changes nothing.                          *)
LEMMA MarkTailSim ==
    ASSUME Updaters = {}, Inv, Inv', ~IoFails, NEW p \in Callers, WriteMarkTail(p)
    PROVE  UNCHANGED <<View, Working>>
<1>1. p \in Procs /\ p # Boot /\ pc[p] = "marktail" /\ pc[p] \in Applying /\ pc[p] \in Logging
  BY CallerAssumption, Zenon DEF WriteMarkTail, Logging, Applying, Procs
<1>2. Busy(p) /\ shadow_count \in 1 .. MaxTxn
  BY <1>1, Committing, Zenon
<1>3. Goto(p, "ckpt") /\ "ckpt" \in Steps
  BY <1>2, SizeAssumption DEF WriteMarkTail, Durable, Loop, Io, Steps
<1>4. pc'[p] = "ckpt"
  BY <1>1, <1>2, <1>3, OwnStep, Zenon
<1>5. Valid /\ Valid' /\ head' = head /\ disk' = disk
  BY <1>1, <1>4, Zenon DEF WriteMarkTail, Inv, ApplyOk, Good, Applying
<1>6. View' = View
  BY <1>5, Zenon DEF View, Apply
<1> QED BY <1>6, WorkingFrame, Zenon DEF WriteMarkTail, ramVars

(* The checkpoint writes what a reboot would write.                        *)
LEMMA CheckpointSim ==
    ASSUME Updaters = {}, Inv, Inv', ~IoFails, NEW p \in Procs, Checkpoint(p)
    PROVE  UNCHANGED <<View, Working>>
<1>1. pc[p] = "ckpt" /\ pc[p] \in Applying /\ i[p] \in 1 .. n[p] /\ n[p] = shadow_count
  BY Zenon DEF Checkpoint, Applying, Inv, LoopOk
<1>2. Valid /\ head.sum = Txn
  BY <1>1, Zenon DEF Inv, ApplyOk, Good
<1>3. /\ Txn \in Seq(Block) /\ \A j, k \in DOMAIN Txn : Txn[j].lba = Txn[k].lba => j = k
      /\ DOMAIN Txn = 1 .. shadow_count
      /\ \A k \in 1 .. shadow_count : Txn[k].lba = shadow_lba[k] /\ Txn[k].val = shadow_data[k]
      /\ disk \in [Sectors -> Values]
  BY TxnDistinct, TxnFacts, ViewType, Zenon DEF Inv
<1>4. PICK e \in [Sectors -> Values] :
        e = disk' /\ e = [disk EXCEPT ![Txn[i[p]].lba] = Txn[i[p]].val]
  <2>1. disk' \in [Sectors -> Values]
    BY Zenon DEF Inv, TypeOK
  <2> QED BY <1>1, <1>3, <2>1, Zenon DEF Checkpoint, Io
<1>5. Apply(e, Txn) = Apply(disk, Txn)
  <2>1. /\ Apply(e, Txn) \in [Sectors -> Values]
        /\ \A k \in DOMAIN Txn : Apply(e, Txn)[Txn[k].lba] = Txn[k].val
        /\ \A s \in Sectors : (\A k \in DOMAIN Txn : Txn[k].lba # s) => Apply(e, Txn)[s] = e[s]
    BY <1>3, <1>4, ApplyFacts, Zenon
  <2>2. \A s \in Sectors : (\A k \in DOMAIN Txn : Txn[k].lba # s) => e[s] = disk[s]
    BY <1>1, <1>3, <1>4
  <2>3. \A s \in Sectors : (\A k \in DOMAIN Txn : Txn[k].lba # s) => Apply(e, Txn)[s] = disk[s]
    BY <2>1, <2>2, Zenon
  <2> QED BY <1>3, <2>1, <2>3, ApplyUnique, Zenon
<1>6. Valid' /\ head' = head
  <2>1. UNCHANGED <<head, tail, data>>
    BY Zenon DEF Checkpoint
  <2>2. Committed' /\ Recovered' = Recovered
    BY <1>2, <2>1, Zenon DEF Valid, Committed, Recovered
  <2> QED BY <1>2, <2>1, <2>2, Zenon DEF Valid
<1>7. View' = Apply(e, Txn) /\ View = Apply(disk, Txn)
  BY <1>2, <1>4, <1>6, ZenonT(40) DEF View, Apply
<1> QED BY <1>5, <1>7, WorkingFrame, Zenon DEF Checkpoint, ramVars

(* Nor does clearing the journal at the end of it.                         *)
LEMMA InvalidateSim ==
    ASSUME Updaters = {}, Inv, Inv', ~IoFails, NEW p \in Procs, Invalidate(p)
    PROVE  UNCHANGED <<View, Working>>
<1>1. pc[p] = "inval" /\ pc[p] \in Applying
  BY Zenon DEF Invalidate, Applying
<1>2. /\ Valid /\ head.sum = Txn /\ shadow_count \in 1 .. MaxTxn
      /\ \A k \in 1 .. shadow_count : disk[shadow_lba[k]] = shadow_data[k]
  BY <1>1, Committing, Zenon DEF Inv, ApplyOk, Good
<1>3. /\ Txn \in Seq(Block) /\ \A j, k \in DOMAIN Txn : Txn[j].lba = Txn[k].lba => j = k
      /\ disk \in [Sectors -> Values]
      /\ \A k \in DOMAIN Txn : disk[Txn[k].lba] = Txn[k].val
  BY <1>2, TxnDistinct, TxnFacts, ViewType DEF Inv
<1>4. disk = Apply(disk, Txn)
  BY <1>3, ApplyUnique, Zenon
<1>5. View = disk /\ Working = disk
  BY <1>2, <1>4, Zenon DEF View, Working
<1>6. disk' = disk /\ head' = NoHead /\ shadow_count' = 0
  BY <1>2, SizeAssumption DEF Invalidate, Io
<1>7. View' = disk /\ Txn' = <<>>
  BY <1>6, NoHeadType DEF View, Valid, Committed, Txn
<1>8. Working' = Apply(disk, <<>>)
  BY <1>7, Zenon DEF Working, Apply
<1> QED BY <1>3, <1>5, <1>7, <1>8, ApplyNothing, Zenon

(* A recovery that finds nothing to redo changes nothing, and one that     *)
(* finds a transaction puts the shadow table where the journal is.         *)
LEMMA RecoverSim ==
    ASSUME Updaters = {}, Inv, Inv', ~IoFails, Recover
    PROVE  UNCHANGED <<View, Working>>
<1>1. CASE RecoverNothing
  BY <1>1, ViewFrame, WorkingFrame, Zenon DEF RecoverNothing, ramVars
<1>2. CASE RecoverTorn
  <2>1. ~Valid /\ disk' = disk /\ head' = NoHead
    BY <1>2, Zenon DEF RecoverTorn, Io
  <2>2. View' = View
    BY <2>1, Zenon DEF View, Valid, Committed, NoHead
  <2> QED BY <1>2, <2>2, WorkingFrame, Zenon DEF RecoverTorn, ramVars
<1>3. CASE RecoverRedo
  <2>1. View' = View /\ View = Apply(disk, head.sum)
    BY <1>3, ViewFrame, Zenon DEF RecoverRedo, View
  <2>2. pc[Boot] = "recover" /\ \A q \in Callers : ~Busy(q)
    BY <1>3, Zenon DEF RecoverRedo, Inv, Exclusive, Busy
  <2>3. shadow_count = 0
    BY <2>2, Zenon DEF Inv, Table, Procs
  <2>4. Working = View
    BY <2>3, ViewType, ApplyNothing DEF Working, Txn
  <2>5. head'.sum = Txn' /\ head' = head
    <3>1. pc'[Boot] = "ckpt" /\ Boot \in Procs /\ head' = head
      BY <1>3, Zenon DEF RecoverRedo, Goto, Inv, TypeOK, Procs, diskVars
    <3> QED BY <3>1, Zenon DEF Inv, ApplyOk, Good, Applying
  <2>6. Working' = Apply(Apply(disk, head.sum), head.sum)
    BY <2>1, <2>5, Zenon DEF Working, Apply
  <2> QED BY <2>1, <2>4, <2>6, TxnDistinct, ViewType, ApplyTwice, Zenon
<1> QED BY <1>1, <1>2, <1>3, Zenon DEF Recover

(* Power loss takes the open transaction with it.                          *)
LEMMA PowerLossSim == ASSUME Inv, PowerLoss PROVE Store!Lose
<1>1. View' = View /\ Txn' = <<>>
  BY ViewFrame DEF PowerLoss, Txn
<1>2. Working' = Apply(View, <<>>)
  BY <1>1, Zenon DEF Working, Apply
<1> QED BY <1>1, <1>2, ViewType, ApplyNothing, Zenon DEF Store!Lose

(* Every step of the journal is a step of the atomic store, or none.       *)
LEMMA StepSim ==
    ASSUME Updaters = {}, Inv, Inv', ~IoFails, [Next]_vars
    PROVE  [Store!Next]_<<View, Working>>
<1>1. CASE UNCHANGED vars
  BY <1>1, ViewFrame, WorkingFrame, Zenon DEF vars, ramVars
<1>2. CASE \E p \in Callers : Transaction(p)
  <2>1. \A p \in Callers : ~OpenOuter(p)
    BY Zenon DEF OpenOuter
  <2> QED BY <1>2, <2>1, OpenSim, WriteSectorSim, Zenon DEF Transaction, Store!Next
<1>3. CASE \E p \in Callers : Durability(p)
  BY <1>3, LogSim, MarkSim, MarkTailSim, Zenon DEF Durability, Store!Next
<1>4. CASE \E p \in Procs : Checkpoint(p) \/ Invalidate(p)
  BY <1>4, CheckpointSim, InvalidateSim, Zenon
<1>5. CASE Recover \/ PowerLoss
  BY <1>5, RecoverSim, PowerLossSim, Zenon DEF Store!Next
<1> QED BY <1>1, <1>2, <1>3, <1>4, <1>5, Zenon DEF Next

(* Without I/O errors the journal implements the atomic store: whatever    *)
(* the order of writes, commits, checkpoints, power losses and recoveries, *)
(* a reboot finds the blocks of a transaction all written or none.         *)
THEOREM Refinement ==
    ASSUME Updaters = {}, ~IoFails
    PROVE  Spec => AtomicTransactions
<1>1. Init => Store!Init
  <2> SUFFICES ASSUME Init PROVE Store!Init
    BY Zenon
  <2>1. Inv
    BY InitInv, Zenon
  <2>2. Txn = <<>>
    BY DEF Init, Txn
  <2> QED BY <2>1, <2>2, ViewType, ApplyNothing, Zenon DEF Store!Init, Working
<1>2. Inv /\ Inv' /\ [Next]_vars => [Store!Next]_<<View, Working>>
  BY StepSim, Zenon
<1>3. Spec => []Inv
  BY Invariance, Zenon
<1> QED BY <1>1, <1>2, <1>3, PTL DEF Spec, AtomicTransactions, Store!Spec

=============================================================================
