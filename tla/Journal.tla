------------------------------ MODULE Journal -------------------------------
(***************************************************************************)
(* The write-ahead journal under FAT32 (kernel/rust/journal.rs) and the    *)
(* transactions its callers open: fat32_write_file() and                   *)
(* fat32_delete_file() under fat32_lock (kernel/fs/fat32.c), and the       *)
(* callers that put several of them in one outer transaction without that  *)
(* lock (atomic_update.rs, crashdump.rs).  Every sector write is a step of *)
(* its own; power may be lost between any two, and the next boot recovers  *)
(* before it mounts.                                                       *)
(***************************************************************************)
EXTENDS Integers, Sequences

CONSTANTS
    NSectors,     \* sectors of the FAT32 partition
    Values,       \* contents of a sector
    MaxTxn,       \* MAX_TXN_BLOCKS
    HeadTargets,  \* target_lba entries in the first descriptor sector
    Files,        \* processes that write or delete one file at a time
    Updaters,     \* processes that nest several such calls
    Zero,         \* the content of a zeroed sector
    Boot,         \* the boot processor's call of rust_journal_recover()
    NoOne,        \* fat32_lock is free
    IoFails,      \* blockdev requests may fail
    MaxCall       \* bound: sectors of one write_sectors call

Sectors == 0 .. NSectors - 1
Slots == 1 .. MaxTxn
Callers == Files \cup Updaters
Procs == Callers \cup {Boot}

ASSUME SizeAssumption ==
    /\ NSectors \in Nat \ {0} /\ MaxTxn \in Nat \ {0} /\ HeadTargets \in Nat
    /\ MaxCall \in Nat \ {0}
    /\ Zero \in Values /\ IoFails \in BOOLEAN
ASSUME CallerAssumption ==
    Files \cap Updaters = {} /\ Boot \notin Callers /\ NoOne \notin Procs

VARIABLES
    disk,    \* the sectors of the file system
    head,    \* first descriptor sector; sum is what the checksum covers
    tail,    \* second descriptor sector: the other target_lba entries
    data,    \* the journal's data sectors
    depth, shadow_count, shadow_lba, shadow_data,  \* JournalState
    lock,    \* holder of fat32_lock
    pc,      \* where each process is
    outer,   \* p is inside its own outer transaction
    arg,     \* first lba of the write_sectors call p is in
    desc,    \* the descriptor p is writing, a local of commit_durable_internal
    i, n,    \* index and bound of the loop p is in
    ok       \* what p's call will return, so far

diskVars == <<disk, head, tail, data>>
ramVars == <<depth, shadow_count, shadow_lba, shadow_data>>
procVars == <<lock, pc, outer, arg, desc, i, n, ok>>
vars == <<diskVars, ramVars, procVars>>

Block == [lba : Sectors, val : Values]
Descriptor == [magic : BOOLEAN, mark : BOOLEAN, sum : Seq(Block)]
Steps == {"off", "idle", "open", "write", "head", "tail", "data", "mark", "marktail",
          "ckpt", "inval", "recover"}

(* lba s has been shadowed by the open transaction.                        *)
Shadowed(s) == \E k \in 1 .. shadow_count : shadow_lba[k] = s

(* The (lba, data) pairs of the shadow table, in order.                    *)
Txn == [k \in 1 .. shadow_count |-> [lba |-> shadow_lba[k], val |-> shadow_data[k]]]

(* d with the blocks of t written to their targets.                        *)
Apply(d, t) ==
    [s \in Sectors |-> IF \E k \in DOMAIN t : t[k].lba = s
                       THEN t[CHOOSE k \in DOMAIN t : t[k].lba = s].val
                       ELSE d[s]]

(* What recover_internal() reads back, and whether it accepts it.          *)
Recovered ==
    [k \in 1 .. Len(head.sum) |->
        [lba |-> IF k <= HeadTargets THEN head.sum[k].lba ELSE tail[k], val |-> data[k]]]
Committed == head.magic /\ head.mark /\ Len(head.sum) \in Slots
Valid == Committed /\ Recovered = head.sum

(* The file system a reboot would find now.                                *)
View == IF Valid THEN Apply(disk, head.sum) ELSE disk

NoHead == [magic |-> FALSE, mark |-> FALSE, sum |-> <<>>]

(* A blockdev write returns ok; one that failed may still have stored.     *)
Io(done, stored) == (done => stored) /\ (~done => IoFails)

-----------------------------------------------------------------------------
(* Power on, with a disk whose journal is empty, or holds a committed      *)
(* transaction whose other sectors are there or have gone bad.             *)
Init ==
    /\ disk \in [Sectors -> Values]
    /\ head \in {NoHead} \cup {[magic |-> TRUE, mark |-> TRUE, sum |-> <<b>>] : b \in Block}
    /\ tail = [k \in Slots |-> 0] /\ data = [k \in Slots |-> Zero]
    /\ depth = 0 /\ shadow_count = 0
    /\ shadow_lba = [k \in Slots |-> 0] /\ shadow_data = [k \in Slots |-> Zero]
    /\ lock = NoOne /\ outer = [p \in Procs |-> FALSE]
    /\ pc = [p \in Procs |-> IF p = Boot THEN "recover" ELSE "off"]
    /\ arg = [p \in Procs |-> 0] /\ desc = [p \in Procs |-> <<>>]
    /\ i = [p \in Procs |-> 1] /\ n = [p \in Procs |-> 0]
    /\ ok = [p \in Procs |-> TRUE]

Goto(p, l) == pc' = [pc EXCEPT ![p] = l]

(* rust_journal_begin().                                                   *)
Begin(p) == depth' = depth + 1 /\ ok' = [ok EXCEPT ![p] = TRUE]

(* atomic_update.rs and crashdump.rs open the outer transaction.           *)
OpenOuter(p) ==
    /\ p \in Updaters /\ pc[p] = "idle" /\ ~outer[p]
    /\ Begin(p) /\ outer' = [outer EXCEPT ![p] = TRUE]
    /\ UNCHANGED <<diskVars, shadow_count, shadow_lba, shadow_data, lock, pc, arg, desc, i, n>>

(* fat32_write_file() and fat32_delete_file() up to their transaction.     *)
OpenFile(p) ==
    /\ p \in Callers /\ pc[p] = "idle" /\ (p \in Updaters => outer[p])
    /\ lock = NoOne /\ lock' = p
    /\ Begin(p) /\ Goto(p, "open")
    /\ UNCHANGED <<diskVars, shadow_count, shadow_lba, shadow_data, outer, arg, desc, i, n>>

(* rust_journal_write_sectors(): the call, then one sector at a time.      *)
StartWrite(p) ==
    /\ pc[p] = "open" /\ Goto(p, "write")
    /\ \E s \in Sectors, c \in 1 .. MaxCall :
        /\ s + c <= NSectors
        /\ arg' = [arg EXCEPT ![p] = s] /\ n' = [n EXCEPT ![p] = c]
    /\ i' = [i EXCEPT ![p] = 1]
    /\ UNCHANGED <<diskVars, ramVars, lock, outer, desc, ok>>

(* rust_journal_read_sectors() of one sector.  Mutant: always the disk's.  *)
ReadSectorDisk(s) == disk[s]
ReadSector(s) ==
    IF depth > 0 /\ Shadowed(s)
    THEN shadow_data[CHOOSE k \in 1 .. shadow_count : shadow_lba[k] = s]
    ELSE disk[s]

(* The call is over: p's arguments and loop variables are gone.            *)
EndCall(p) == /\ arg' = [arg EXCEPT ![p] = 0]
              /\ i' = [i EXCEPT ![p] = 1] /\ n' = [n EXCEPT ![p] = 0]

CurLba(p) == arg[p] + i[p] - 1
Full(p) == ~Shadowed(CurLba(p)) /\ shadow_count >= MaxTxn

(* The slot of find_shadow(), or the next free one.                        *)
SlotOf(s) ==
    IF Shadowed(s) THEN CHOOSE k \in 1 .. shadow_count : shadow_lba[k] = s
                   ELSE shadow_count + 1

(* Into the shadow table: the callers are inside a transaction, so         *)
(* js.depth is not 0.  When the table is full the call returns false: the  *)
(* caller takes its error path, which may write more, and commits.         *)
WriteSector(p) ==
    /\ pc[p] = "write" /\ depth > 0
    /\ IF Full(p)
       THEN /\ Goto(p, "open") /\ EndCall(p)
            /\ ok' = [ok EXCEPT ![p] = FALSE] /\ UNCHANGED ramVars
       ELSE /\ \E v \in Values, k \in {SlotOf(CurLba(p))} :
                 /\ shadow_lba' = [shadow_lba EXCEPT ![k] = CurLba(p)]
                 /\ shadow_data' = [shadow_data EXCEPT ![k] = v]
                 /\ shadow_count' = IF k > shadow_count THEN k ELSE shadow_count
            /\ IF i[p] = n[p]
               THEN Goto(p, "open") /\ EndCall(p)
               ELSE i' = [i EXCEPT ![p] = @ + 1] /\ UNCHANGED <<pc, arg, n>>
            /\ UNCHANGED <<depth, ok>>
    /\ UNCHANGED <<diskVars, lock, outer, desc>>

-----------------------------------------------------------------------------
(* p's rust_journal_commit() has returned: to the outer transaction it is  *)
(* nested in, or to the caller.  fat32_lock is released if p holds it.     *)
Returned(p) ==
    /\ Goto(p, "idle")
    /\ lock' = IF lock = p THEN NoOne ELSE lock
    /\ outer' = [outer EXCEPT ![p] = @ /\ lock = p]
    /\ desc' = [desc EXCEPT ![p] = <<>>] /\ EndCall(p)

(* rust_journal_commit(): only the outermost commit does anything, and     *)
(* only when something was written.                                        *)
Commit(p) ==
    /\ \/ pc[p] = "open"
       \/ pc[p] = "idle" /\ outer[p]
    /\ depth' = depth - 1
    /\ ok' = [ok EXCEPT ![p] = @ \/ pc[p] = "idle"]
    /\ IF depth > 1 \/ shadow_count = 0
       THEN Returned(p)
       ELSE /\ Goto(p, "head") /\ desc' = [desc EXCEPT ![p] = Txn]
            /\ UNCHANGED <<lock, outer, arg, i, n>>
    /\ UNCHANGED <<diskVars, shadow_count, shadow_lba, shadow_data>>

(* A loop over 0..js.shadow_count starts; after follows when it is empty.  *)
Loop(p, l, after) ==
    /\ Goto(p, IF shadow_count = 0 THEN after ELSE l)
    /\ i' = [i EXCEPT ![p] = 1] /\ n' = [n EXCEPT ![p] = shadow_count]

(* commit_durable_internal() gives up on the first error, and              *)
(* checkpoint_internal() follows all the same.                             *)
Durable(p, done, next) ==
    /\ IF done THEN next ELSE Loop(p, "ckpt", "inval")
    /\ ok' = [ok EXCEPT ![p] = @ /\ done]

Step(p, l) == Goto(p, l) /\ UNCHANGED <<i, n>>

(* Descriptor without the commit marker, first and second sector.          *)
WriteHead(p) ==
    /\ pc[p] = "head"
    /\ \E done, stored \in BOOLEAN :
        /\ Io(done, stored)
        /\ head' = IF stored THEN [magic |-> TRUE, mark |-> FALSE, sum |-> desc[p]] ELSE head
        /\ Durable(p, done, Step(p, "tail"))
    /\ UNCHANGED <<disk, tail, data, ramVars, lock, outer, arg, desc>>

Targets(d) == [k \in Slots |-> IF k \in HeadTargets + 1 .. Len(d) THEN d[k].lba ELSE 0]

WriteTail(p) ==
    /\ pc[p] = "tail"
    /\ \E done, stored \in BOOLEAN :
        /\ Io(done, stored)
        /\ tail' = IF stored THEN Targets(desc[p]) ELSE tail
        /\ Durable(p, done, Loop(p, "data", "mark"))
    /\ UNCHANGED <<disk, head, data, ramVars, lock, outer, arg, desc>>

(* One data block.  Mutant: the commit marker is not written after them.   *)
WriteDataNoMark(p) ==
    /\ pc[p] = "data"
    /\ \E done, stored \in BOOLEAN :
        /\ Io(done, stored)
        /\ data' = IF stored THEN [data EXCEPT ![i[p]] = shadow_data[i[p]]] ELSE data
        /\ Durable(p, done, IF i[p] = n[p]
                            THEN Loop(p, "ckpt", "inval")
                            ELSE Goto(p, "data") /\ i' = [i EXCEPT ![p] = @ + 1] /\ UNCHANGED n)
    /\ UNCHANGED <<disk, head, tail, ramVars, lock, outer, arg, desc>>

WriteData(p) ==
    /\ pc[p] = "data"
    /\ \E done, stored \in BOOLEAN :
        /\ Io(done, stored)
        /\ data' = IF stored THEN [data EXCEPT ![i[p]] = shadow_data[i[p]]] ELSE data
        /\ Durable(p, done, /\ Goto(p, IF i[p] = n[p] THEN "mark" ELSE "data")
                            /\ i' = [i EXCEPT ![p] = @ + 1] /\ UNCHANGED n)
    /\ UNCHANGED <<disk, head, tail, ramVars, lock, outer, arg, desc>>

(* The commit point: the descriptor again, with its commit marker.         *)
WriteMark(p) ==
    /\ pc[p] = "mark"
    /\ \E done, stored \in BOOLEAN :
        /\ Io(done, stored)
        /\ head' = IF stored THEN [magic |-> TRUE, mark |-> TRUE, sum |-> desc[p]] ELSE head
        /\ Durable(p, done, Step(p, "marktail"))
    /\ UNCHANGED <<disk, tail, data, ramVars, lock, outer, arg, desc>>

WriteMarkTail(p) ==
    /\ pc[p] = "marktail"
    /\ \E done, stored \in BOOLEAN :
        /\ Io(done, stored)
        /\ tail' = IF stored THEN Targets(desc[p]) ELSE tail
        /\ Durable(p, done, Loop(p, "ckpt", "inval"))
    /\ UNCHANGED <<disk, head, data, ramVars, lock, outer, arg, desc>>

(* checkpoint_internal(): a block that cannot be written is skipped ...    *)
(* Mutant: and not reported.                                               *)
CheckpointSilent(p) ==
    /\ pc[p] = "ckpt"
    /\ \E done, stored \in BOOLEAN :
        /\ Io(done, stored)
        /\ disk' = IF stored THEN [disk EXCEPT ![shadow_lba[i[p]]] = shadow_data[i[p]]] ELSE disk
    /\ Goto(p, IF i[p] = n[p] THEN "inval" ELSE "ckpt")
    /\ i' = [i EXCEPT ![p] = @ + 1]
    /\ UNCHANGED <<head, tail, data, ramVars, lock, outer, arg, desc, n, ok>>

Checkpoint(p) ==
    /\ pc[p] = "ckpt"
    /\ \E done, stored \in BOOLEAN :
        /\ Io(done, stored)
        /\ disk' = IF stored THEN [disk EXCEPT ![shadow_lba[i[p]]] = shadow_data[i[p]]] ELSE disk
        /\ ok' = [ok EXCEPT ![p] = @ /\ done]
    /\ Goto(p, IF i[p] = n[p] THEN "inval" ELSE "ckpt")
    /\ i' = [i EXCEPT ![p] = @ + 1]
    /\ UNCHANGED <<head, tail, data, ramVars, lock, outer, arg, desc, n>>

(* The mount that follows recovery: the callers may run.                   *)
Mount == pc' = [p \in Procs |-> IF p = Boot THEN "off" ELSE "idle"]

(* ... and the result of zeroing the descriptor is not looked at.          *)
Invalidate(p) ==
    /\ pc[p] = "inval"
    /\ \E done, stored \in BOOLEAN :
        /\ Io(done, stored)
        /\ head' = IF stored /\ shadow_count > 0 THEN NoHead ELSE head
    /\ shadow_count' = 0
    /\ IF p = Boot THEN Mount /\ UNCHANGED <<lock, outer, arg, desc, i, n>> ELSE Returned(p)
    /\ UNCHANGED <<disk, tail, data, depth, shadow_lba, shadow_data, ok>>

-----------------------------------------------------------------------------
(* rust_journal_recover(), from vfs_init() before fat32_init().            *)
RecoverNothing ==
    /\ pc[Boot] = "recover" /\ (~Committed \/ IoFails)
    /\ Mount
    /\ UNCHANGED <<diskVars, ramVars, lock, outer, arg, desc, i, n, ok>>

RecoverTorn ==
    /\ pc[Boot] = "recover" /\ Committed /\ ~Valid
    /\ \E done, stored \in BOOLEAN : Io(done, stored) /\ head' = IF stored THEN NoHead ELSE head
    /\ Mount
    /\ UNCHANGED <<disk, tail, data, ramVars, lock, outer, arg, desc, i, n, ok>>

RecoverRedo ==
    /\ pc[Boot] = "recover" /\ Valid
    /\ shadow_count' = Len(head.sum)
    /\ shadow_lba' = [k \in Slots |-> IF k <= Len(head.sum) THEN head.sum[k].lba ELSE shadow_lba[k]]
    /\ shadow_data' = [k \in Slots |-> IF k <= Len(head.sum) THEN head.sum[k].val ELSE shadow_data[k]]
    /\ Goto(Boot, "ckpt")
    /\ i' = [i EXCEPT ![Boot] = 1] /\ n' = [n EXCEPT ![Boot] = Len(head.sum)]
    /\ UNCHANGED <<diskVars, depth, lock, outer, arg, desc, ok>>

(* Power is lost and comes back: memory is gone, the disk is not.          *)
PowerLoss ==
    /\ depth' = 0 /\ shadow_count' = 0
    /\ shadow_lba' = [k \in Slots |-> 0] /\ shadow_data' = [k \in Slots |-> Zero]
    /\ lock' = NoOne /\ outer' = [p \in Procs |-> FALSE]
    /\ pc' = [p \in Procs |-> IF p = Boot THEN "recover" ELSE "off"]
    /\ arg' = [p \in Procs |-> 0] /\ desc' = [p \in Procs |-> <<>>]
    /\ i' = [p \in Procs |-> 1] /\ n' = [p \in Procs |-> 0]
    /\ ok' = [p \in Procs |-> TRUE]
    /\ UNCHANGED diskVars

Recover == RecoverNothing \/ RecoverTorn \/ RecoverRedo
Transaction(p) == OpenOuter(p) \/ OpenFile(p) \/ StartWrite(p) \/ WriteSector(p) \/ Commit(p)
Durability(p) == WriteHead(p) \/ WriteTail(p) \/ WriteData(p) \/ WriteMark(p) \/ WriteMarkTail(p)

Next ==
    \/ \E p \in Callers : Transaction(p) \/ Durability(p)
    \/ \E p \in Procs : Checkpoint(p) \/ Invalidate(p)
    \/ Recover
    \/ PowerLoss

Spec == Init /\ [][Next]_vars

-----------------------------------------------------------------------------
TypeOK ==
    /\ disk \in [Sectors -> Values] /\ head \in Descriptor
    /\ tail \in [Slots -> Sectors] /\ data \in [Slots -> Values]
    /\ depth \in Nat /\ shadow_count \in 0 .. MaxTxn
    /\ shadow_lba \in [Slots -> Sectors] /\ shadow_data \in [Slots -> Values]
    /\ lock \in Callers \cup {NoOne} /\ pc \in [Procs -> Steps]
    /\ outer \in [Procs -> BOOLEAN] /\ arg \in [Procs -> Sectors]
    /\ desc \in [Procs -> Seq(Block)] /\ i \in [Procs -> Nat] /\ n \in [Procs -> Nat]
    /\ ok \in [Procs -> BOOLEAN]

(* The inductive invariant behind the theorems, for Updaters = {}.         *)
InTxn == {"open", "write"}
Logging == {"head", "tail", "data", "mark", "marktail"}
Applying == {"marktail", "ckpt", "inval"}
Busy(p) == pc[p] \notin {"off", "idle"}
Good(p) == ok[p] \/ ~IoFails

(* fat32_lock admits one caller, and none runs before recovery is over.    *)
Exclusive ==
    /\ \A p \in Callers : Busy(p) <=> lock = p
    /\ Busy(Boot) => \A p \in Callers : pc[p] = "off"
    /\ pc[Boot] \in {"off", "recover", "ckpt", "inval"}
    /\ \A p \in Callers : pc[p] # "recover" /\ ~outer[p]

(* The shadow table holds each sector once ...                             *)
Distinct == \A j, k \in 1 .. shadow_count : shadow_lba[j] = shadow_lba[k] => j = k

(* ... as does the journal.                                                *)
LogDistinct == \A j, k \in DOMAIN head.sum : head.sum[j].lba = head.sum[k].lba => j = k

(* The table is empty between calls.                                       *)
Table ==
    /\ \A p \in Callers : pc[p] \in InTxn => depth = 1
    /\ (\A p \in Callers : pc[p] \notin InTxn) => depth = 0
    /\ (\A p \in Procs : ~Busy(p) \/ pc[p] = "recover") => shadow_count = 0

(* Where p's loop is.                                                      *)
LoopOk(p) ==
    /\ pc[p] = "write" => i[p] \in 1 .. n[p] /\ arg[p] + n[p] <= NSectors
    /\ pc[p] \in {"data", "ckpt"} => i[p] \in 1 .. n[p] /\ n[p] = shadow_count
    /\ pc[p] \in Logging \cup Applying => shadow_count > 0

(* What the journal region holds at each step of p's commit.               *)
LogOk(p) ==
    /\ pc[p] \in Logging => desc[p] = Txn
    /\ pc[p] \in {"tail", "data", "mark"} =>
          head = [magic |-> TRUE, mark |-> FALSE, sum |-> desc[p]]
    /\ pc[p] \in {"data", "mark"} => tail = Targets(desc[p])
    /\ pc[p] = "data" => \A k \in 1 .. i[p] - 1 : data[k] = shadow_data[k]
    /\ pc[p] = "mark" => \A k \in 1 .. shadow_count : data[k] = shadow_data[k]

(* From the commit point to the end of the checkpoint the transaction is   *)
(* in the journal, and what was checkpointed is in its place.              *)
ApplyOk(p) ==
    Good(p) =>
        /\ pc[p] \in Applying => Valid /\ head.sum = Txn
        /\ pc[p] = "ckpt" => \A k \in 1 .. i[p] - 1 : disk[shadow_lba[k]] = shadow_data[k]
        /\ pc[p] = "inval" => \A k \in 1 .. shadow_count : disk[shadow_lba[k]] = shadow_data[k]

(* The journal is empty unless a transaction is being applied.             *)
Unmarked ==
    ~IoFails /\ pc[Boot] # "recover" /\ (\A p \in Procs : pc[p] \notin Applying) => ~Committed

Inv ==
    /\ TypeOK /\ Exclusive /\ Distinct /\ LogDistinct /\ Table /\ Unmarked
    /\ \A p \in Procs : LoopOk(p) /\ ApplyOk(p)
    /\ \A p \in Callers : LogOk(p)

(* A call of fat32.c, or the outer transaction around several, returns     *)
(* true only when every block it wrote would survive a power loss.         *)
SuccessMeansDurable ==
    [][\A p \in Callers :
         pc[p] \notin {"idle", "off"} /\ pc'[p] = "idle" /\ ~outer'[p] /\ ok'[p]
         => \A k \in DOMAIN Txn : View'[Txn[k].lba] = Txn[k].val]_vars

(* Without I/O errors, what the running system reads is what a reboot      *)
(* would find with the open transaction applied, unless a commit or a      *)
(* recovery is under way.                                                  *)
Working == Apply(View, Txn)
Settled == \A p \in Procs : pc[p] \in {"off", "idle", "open", "write"}
ReadYourWrites == Settled => \A s \in Sectors : ReadSector(s) = Working[s]

(* Without I/O errors a transaction reaches the file system whole or not   *)
(* at all, whenever the power fails, during recovery too.                  *)
Store == INSTANCE AtomicStore WITH store <- View, working <- Working
AtomicTransactions == Store!Spec

=============================================================================
