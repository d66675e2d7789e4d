------------------------------- MODULE Locks -------------------------------
(***************************************************************************)
(* The locks of the kernel: the per-driver locks of driver_locks.rs and    *)
(* the SpinLock<T> of spinlock.rs, which work alike.  Taking one disables  *)
(* interrupts on this CPU, saves the flags in a local and spins on a       *)
(* compare-and-exchange; dropping it stores false and puts the flags back. *)
(*                                                                         *)
(* A CPU executes a path, the sequence of lock operations of a kernel      *)
(* call, on a stack of frames: an interrupt pushes the frame of its        *)
(* handler.  The paths are those of the FAT32, ext2, ATA, block device,    *)
(* log and network code; the boot self-tests are two more, which run alone *)
(* and check what they see.  A counter of acquires or of contentions is    *)
(* kept as zero or not.                                                    *)
(***************************************************************************)
EXTENDS Naturals, Sequences, SequencesExt
LOCAL INSTANCE Relation

CONSTANTS Cpus, Boot, MaxCalls

VARIABLES locked, acquires, contentions, ifl, stack, left, booting, err

lkVars == <<locked, acquires, contentions, ifl, stack, left, booting, err>>

LockNames == {"fat32", "ext2", "ata", "blockdev", "log", "klog", "rx", "LOCK", "OUTER", "INNER"}

----------------------------------------------------------------------------
(* Lock operations.                                                        *)
Acq(l) == [op |-> "acq", lock |-> l, want |-> TRUE]
Rel(l) == [op |-> "rel", lock |-> l, want |-> TRUE]
Try(l, b) == [op |-> "try", lock |-> l, want |-> b]
IsLocked(l, b) == [op |-> "is_locked", lock |-> l, want |-> b]
Enabled(b) == [op |-> "enabled", lock |-> "log", want |-> b]
Start == [op |-> "start", lock |-> "log", want |-> TRUE]
Same == [op |-> "same", lock |-> "log", want |-> TRUE]
Stats(l) == [op |-> "stats", lock |-> l, want |-> TRUE]

Around(l, path) == <<Acq(l)>> \o path \o <<Rel(l)>>

(* kernel_log: the line goes out under log_lock, then into the ring.       *)
LogPath == Around("log", <<>>) \o Around("klog", <<>>)

(* A transfer on the ATA disk, which logs a failure with the lock held.    *)
AtaPaths == {Around("ata", <<>>), Around("ata", LogPath)}

(* The file systems: FAT32 sets the partition offset for every call, ext2  *)
(* uses absolute addresses.                                                *)
BlockPaths == {Around("blockdev", <<>>) \o a: a \in AtaPaths}
Fat32Paths == {Around("fat32", Around("blockdev", <<>>) \o b): b \in BlockPaths \cup {<<>>}}
Ext2Paths == {Around("ext2", a): a \in AtaPaths \cup {<<>>}}

(* net_poll takes the receive flag, and so does the card's handler.        *)
PollPath == Around("rx", <<>>)

Paths == Fat32Paths \cup Ext2Paths \cup {LogPath, PollPath}

rust_spinlock_selftest ==
    Around("LOCK", <<>>) \o Around("LOCK", <<>>) \o <<Start>> \o Around("LOCK", <<>>) \o <<Same>>
    \o Around("OUTER", <<Enabled(FALSE)>> \o Around("INNER", <<Enabled(FALSE)>>) \o <<Enabled(FALSE)>>)
    \o <<Same>>

rust_driver_locks_selftest ==
    <<IsLocked("fat32", FALSE)>> \o Around("fat32", <<IsLocked("fat32", TRUE)>>)
    \o <<IsLocked("fat32", FALSE)>>
    \o Around("fat32", <<IsLocked("ext2", FALSE)>>
         \o Around("ext2", <<IsLocked("ext2", TRUE), IsLocked("fat32", TRUE)>>)
         \o <<IsLocked("ext2", FALSE), IsLocked("fat32", TRUE)>>)
    \o <<IsLocked("fat32", FALSE)>>
    \o Around("ata", <<Try("ata", FALSE)>>) \o <<Try("ata", TRUE), Rel("ata")>>
    \o <<Start>>
    \o Around("fat32", <<Enabled(FALSE)>>
         \o Around("blockdev", <<Enabled(FALSE)>> \o Around("ata", <<Enabled(FALSE)>>) \o <<Enabled(FALSE)>>)
         \o <<Enabled(FALSE)>>)
    \o <<Same, Stats("fat32")>>

----------------------------------------------------------------------------
(* A frame: what is left of the path, the locks it holds with the flags    *)
(* saved for each, the flags saved by a call that spins, and the interrupt *)
(* flag a self-test noted.                                                 *)
Frame(path) == [todo |-> path, held |-> <<>>, spins |-> FALSE, flags |-> TRUE, start |-> TRUE]

Runs(c) == stack[c] # <<>>
Top(c) == Last(stack[c])
Now(c) == Head(Top(c).todo)
SetTop(c, f) == stack' = [stack EXCEPT ![c] = Front(@) \o <<f>>]
At(c, op) == Runs(c) /\ Top(c).todo # <<>> /\ Now(c).op = op
Holds(c) == {l \in LockNames: \E i \in DOMAIN stack[c]: \E j \in DOMAIN stack[c][i].held: stack[c][i].held[j].lock = l}

Step(f) == [f EXCEPT !.todo = Tail(@), !.spins = FALSE]

(* rust_driver_lock_acquire and SpinLock::lock.                            *)
cli_and_save_eflags(c) == ifl' = [ifl EXCEPT ![c] = FALSE]
restore_eflags(c, flags) == ifl' = [ifl EXCEPT ![c] = flags]

Take(c, f, flags) ==
    LET l == Now(c).lock
    IN  /\ ~locked[l] /\ locked' = [locked EXCEPT ![l] = TRUE]
        /\ acquires' = acquires \cup {l}
        /\ SetTop(c, [Step(f) EXCEPT !.held = Append(@, [lock |-> l, flags |-> flags])])

AcquireIrqOn(c) ==
    /\ At(c, "acq") /\ ~Top(c).spins
    /\ \/ Take(c, Top(c), ifl[c]) /\ UNCHANGED contentions
       \/ /\ locked[Now(c).lock]
          /\ contentions' = contentions \cup {Now(c).lock}
          /\ SetTop(c, [Top(c) EXCEPT !.spins = TRUE, !.flags = ifl[c]])
          /\ UNCHANGED <<locked, acquires>>
    /\ UNCHANGED <<ifl, left, booting, err>>

Acquire(c) ==
    /\ At(c, "acq") /\ ~Top(c).spins
    /\ cli_and_save_eflags(c)
    /\ \/ Take(c, Top(c), ifl[c]) /\ UNCHANGED contentions
       \/ /\ locked[Now(c).lock]
          /\ contentions' = contentions \cup {Now(c).lock}
          /\ SetTop(c, [Top(c) EXCEPT !.spins = TRUE, !.flags = ifl[c]])
          /\ UNCHANGED <<locked, acquires>>
    /\ UNCHANGED <<left, booting, err>>

(* The compare-and-exchange of the loop that succeeds.                     *)
SpinEnds(c) ==
    /\ At(c, "acq") /\ Top(c).spins
    /\ Take(c, Top(c), Top(c).flags)
    /\ UNCHANGED <<contentions, ifl, left, booting, err>>

(* rust_driver_lock_release and the drop of a guard.                       *)
Release(c) ==
    /\ At(c, "rel")
    /\ locked' = [locked EXCEPT ![Now(c).lock] = FALSE]
    /\ restore_eflags(c, Last(Top(c).held).flags)
    /\ SetTop(c, [Step(Top(c)) EXCEPT !.held = Front(@)])
    /\ UNCHANGED <<acquires, contentions, left, booting, err>>

(* What a self-test sees, against what it expects.                         *)
TryAcquire(c) ==
    /\ At(c, "try")
    /\ err' = (err \/ Now(c).want = locked[Now(c).lock])
    /\ IF locked[Now(c).lock]
         THEN SetTop(c, Step(Top(c))) /\ UNCHANGED <<locked, acquires, ifl>>
         ELSE Take(c, Top(c), ifl[c]) /\ cli_and_save_eflags(c)
    /\ UNCHANGED <<contentions, left, booting>>

Sees(c) ==
    CASE Now(c).op = "is_locked" -> locked[Now(c).lock]
      [] Now(c).op = "enabled" -> ifl[c]
      [] Now(c).op = "same" -> Top(c).start = ifl[c]
      [] Now(c).op = "stats" -> Now(c).lock \in acquires
      [] OTHER -> TRUE

Look(c) ==
    /\ \E op \in {"start", "is_locked", "enabled", "same", "stats"}: At(c, op)
    /\ err' = (err \/ Sees(c) # Now(c).want)
    /\ SetTop(c, [Step(Top(c)) EXCEPT !.start = IF Now(c).op = "start" THEN ifl[c] ELSE @])
    /\ UNCHANGED <<locked, acquires, contentions, ifl, left, booting>>

----------------------------------------------------------------------------
(* A kernel call enters through a trap gate or an interrupt gate; the      *)
(* return and the return from a handler leave interrupts enabled.          *)
Call(c, path, gate) ==
    /\ ~booting
    /\ ~Runs(c) /\ left[c] > 0
    /\ left' = [left EXCEPT ![c] = @ - 1]
    /\ stack' = [stack EXCEPT ![c] = <<Frame(path)>>]
    /\ ifl' = [ifl EXCEPT ![c] = gate]
    /\ UNCHANGED <<locked, acquires, contentions, booting, err>>

Interrupt(c) ==
    /\ ifl[c] /\ Len(stack[c]) < 2
    /\ stack' = [stack EXCEPT ![c] = Append(@, Frame(PollPath))]
    /\ ifl' = [ifl EXCEPT ![c] = FALSE]
    /\ UNCHANGED <<locked, acquires, contentions, left, booting, err>>

Return(c) ==
    /\ Runs(c) /\ Top(c).todo = <<>>
    /\ stack' = [stack EXCEPT ![c] = Front(@)]
    /\ ifl' = [ifl EXCEPT ![c] = TRUE]
    /\ booting' = (booting /\ (c # Boot \/ Len(stack[c]) > 1))
    /\ UNCHANGED <<locked, acquires, contentions, left, err>>

LkInit ==
    /\ locked = [l \in LockNames |-> FALSE]
    /\ acquires = {} /\ contentions = {}
    /\ ifl = [c \in Cpus |-> TRUE]
    /\ stack = [c \in Cpus |-> IF c = Boot THEN <<Frame(rust_driver_locks_selftest \o rust_spinlock_selftest)>> ELSE <<>>]
    /\ left = [c \in Cpus |-> MaxCalls]
    /\ booting = TRUE /\ err = FALSE

LkNext ==
    \E c \in Cpus:
      \/ \E path \in Paths, gate \in BOOLEAN: Call(c, path, gate)
      \/ Acquire(c) \/ SpinEnds(c) \/ Release(c) \/ TryAcquire(c) \/ Look(c)
      \/ Interrupt(c) \/ Return(c)

LkSpec == LkInit /\ [][LkNext]_lkVars

----------------------------------------------------------------------------
(* Whom a spinning CPU waits for.                                          *)
Waits(c) == IF At(c, "acq") /\ Top(c).spins THEN {d \in Cpus: Now(c).lock \in Holds(d)} ELSE {}

\* Every spin ends: no CPU waits for a lock that it holds itself, in the call a handler
\* interrupted or further out on its own path, nor for a CPU that waits for it in turn;
\* and the two boot self-tests see what they expect (driver_locks.rs, spinlock.rs).
SpinsEnd ==
    /\ ~err
    /\ LET after == TransitiveClosure([x, y \in Cpus |-> y \in Waits(x)], Cpus)
       IN  \A c \in Cpus: ~after[c, c]
=============================================================================
