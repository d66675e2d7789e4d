------------------------------- MODULE Update -------------------------------
(***************************************************************************)
(* Updates of the operating system: the A/B boot slots and their record    *)
(* BOOTSLOT.DAT (kernel/rust/atomic_update.rs), the calls main.c makes at  *)
(* every boot, the update page of the settings program, and the staging    *)
(* program novaupdate.  The calls of atomic_update.rs hold UPDATE_STATE's  *)
(* lock, so they are run one after the other; power may be lost between    *)
(* any two file operations of one.  A transaction of journal.rs is either  *)
(* on the disk or not (module Journal); what it has staged is its view.    *)
(* A signature is what it was computed over; the versions and digests the  *)
(* record keeps are left out, nothing reads them back.                     *)
(***************************************************************************)
EXTENDS Integers, Sequences

CONSTANTS
    Offered,      \* packages a caller of the system call may hand over
    TestPkg,      \* the package of rust_os_update_selftest
    FirstImage,   \* the image the disk was installed with
    MaxAttempts,  \* DEFAULT_MAX_BOOT_ATTEMPTS
    MaxCalls      \* bound on the calls between two boots

VARIABLES
    disk,     \* what is on the disk: image of each slot, boot record
    txn,      \* the view of the open transaction, as <<view>>, or <<>>
    mem,      \* OsUpdateState, as <<config>> once it is loaded
    todo,     \* calls still to be made, in order
    at,       \* step of the call at the head of todo
    panel,    \* step of the settings program's update page
    nu,       \* novaupdate: where it is and the files it has staged
    good,     \* history: images that were confirmed
    calls

upVars == <<disk, txn, mem, todo, at, panel, nu, good, calls>>

Slots == {"A", "B"}
Other(s) == IF s = "A" THEN "B" ELSE "A"

\* BootSlotConfig::default_new; a record whose checksum fails counts as absent.
default_new == [active |-> "A", fallback |-> "B", state |-> "normal", attempts |-> MaxAttempts]

UpInit ==
    /\ disk = [slot |-> [s \in Slots |-> IF s = "A" THEN {FirstImage} ELSE {}], cfg |-> {}]
    /\ txn = <<>> /\ mem = <<>> /\ todo = <<>> /\ at = "off"
    /\ panel = "idle" /\ nu = [pc |-> "idle", files |-> {}]
    /\ good = {FirstImage} /\ calls = 0

(***************************************************************************)
(* Files and transactions                                                  *)
(***************************************************************************)
View == IF txn = <<>> THEN disk ELSE txn[1]
\* One file operation: in the open transaction, or a transaction of its own.
Put(v) == IF txn = <<>> THEN disk' = v /\ UNCHANGED txn ELSE txn' = <<v>> /\ UNCHANGED disk
Begin == txn' = <<View>> /\ UNCHANGED disk
Commit == disk' = View /\ txn' = <<>>

(***************************************************************************)
(* atomic_update.rs                                                        *)
(***************************************************************************)
compute_signature(p) == <<p.size, p.payload>>
verify_update_package(p) == p.magic /\ p.size = Len(p.payload) /\ p.sig = compute_signature(p)

cfg == mem[1]
Call == Head(todo)
Quiet == UNCHANGED <<panel, nu, calls>>
Return == todo' = Tail(todo) /\ at' = "call"
Fail == todo' = SelectSeq(Tail(todo), LAMBDA c : c.op \notin {"reset"}) /\ at' = "call"

\* ensure_config_loaded: a record that is absent or invalid is replaced.
ensure_config_loaded ==
    /\ todo # <<>> /\ at = "call" /\ mem = <<>>
    /\ \/ \E c \in disk.cfg : mem' = <<c>> /\ UNCHANGED at
       \/ disk.cfg = {} /\ mem' = <<default_new>> /\ at' = "default"
    /\ Quiet /\ UNCHANGED <<disk, txn, todo, good>>

WriteDefault ==
    /\ at = "default" /\ at' = "call"
    /\ \/ disk' = [disk EXCEPT !.cfg = {default_new}]
       \/ UNCHANGED disk                            \* the write fails
    /\ Quiet /\ UNCHANGED <<txn, mem, todo, good>>

Loaded(op) == todo # <<>> /\ at = "call" /\ mem # <<>> /\ Call.op = op

\* A call that changes the record and then saves it.
Change(c) == mem' = <<c>> /\ at' = "save" /\ UNCHANGED <<disk, txn, todo>> /\ Quiet

rust_os_update_init == Loaded("init") /\ Return /\ Quiet /\ UNCHANGED <<disk, txn, mem, good>>

rust_os_update_boot_hook ==
    /\ Loaded("hook")
    /\ \/ /\ cfg.state = "testing" /\ cfg.attempts > 1
          /\ Change([cfg EXCEPT !.attempts = @ - 1])
       \/ /\ cfg.state = "testing" /\ cfg.attempts <= 1
          /\ Change([cfg EXCEPT !.active = cfg.fallback, !.state = "rolled_back", !.attempts = MaxAttempts])
       \/ cfg.state # "testing" /\ Return /\ Quiet /\ UNCHANGED <<disk, txn, mem>>
    /\ UNCHANGED good

rust_os_update_confirm_healthy ==
    /\ Loaded("confirm")
    /\ \/ /\ cfg.state = "testing"
          /\ Change([cfg EXCEPT !.state = "normal", !.attempts = MaxAttempts])
          /\ good' = good \cup disk.slot[cfg.active]
       \/ cfg.state # "testing" /\ Return /\ Quiet /\ UNCHANGED <<disk, txn, mem, good>>

rust_os_update_rollback ==
    /\ Loaded("rollback")
    /\ Change([cfg EXCEPT !.active = cfg.fallback, !.state = "rolled_back", !.attempts = MaxAttempts])
    /\ UNCHANGED good

\* The last lines of the self-test; they are skipped when rollback failed.
Reset ==
    /\ Loaded("reset")
    /\ Change([cfg EXCEPT !.active = "A", !.fallback = "B", !.state = "normal", !.attempts = MaxAttempts])
    /\ UNCHANGED good

\* save_config_locked: delete and write in one transaction, which is committed
\* whether the write succeeded or not.
SaveBegin == at = "save" /\ Begin /\ at' = "save_write" /\ Quiet /\ UNCHANGED <<mem, todo, good>>
SaveWrite ==
    /\ at = "save_write" /\ \E w \in {{}, {cfg}} : Put([View EXCEPT !.cfg = w])
    /\ at' = "commit"
    /\ Quiet /\ UNCHANGED <<mem, todo, good>>
CommitCall ==
    /\ at = "commit" /\ Commit
    /\ IF View.cfg = {} /\ Call.op = "rollback" THEN Fail ELSE Return
    /\ Quiet /\ UNCHANGED <<mem, good>>


\* The inactive slot.
Target(c) == IF c.active = "A" THEN "B" ELSE "A"

\* rust_os_update_apply_package: nothing is touched unless the package verifies.
Verify ==
    /\ Loaded("apply")
    /\ \/ verify_update_package(Call.pkg) /\ Begin /\ at' = "image" /\ UNCHANGED todo
       \/ ~verify_update_package(Call.pkg) /\ Return /\ UNCHANGED <<disk, txn>>
    /\ Quiet /\ UNCHANGED <<mem, good>>

DeleteImage ==
    /\ at = "image" /\ Put([View EXCEPT !.slot[Target(cfg)] = {}])
    /\ at' = "write"
    /\ Quiet /\ UNCHANGED <<mem, todo, good>>

\* A failed write commits the deletion; a good one goes on to the record.
WriteImage ==
    /\ at = "write"
    /\ \/ /\ Put([View EXCEPT !.slot[Target(cfg)] = {Call.pkg.payload}])
          /\ mem' = <<[cfg EXCEPT !.fallback = cfg.active, !.active = Target(cfg), !.state = "testing",
                                  !.attempts = MaxAttempts]>>
          /\ at' = "save_write"
       \/ at' = "commit" /\ UNCHANGED <<disk, txn, mem>>
    /\ Quiet /\ UNCHANGED <<todo, good>>

(***************************************************************************)
(* Boots, and the callers                                                  *)
(***************************************************************************)
C(op) == [op |-> op, pkg |-> TestPkg]
\* What main.c calls: init, the boot hook, and the self-test's own calls.
BootCalls == <<C("init"), C("hook"), C("apply"), C("hook"), C("hook"), C("hook"),
               C("apply"), C("confirm"), C("rollback"), C("reset")>>

Boot ==
    /\ at = "off" /\ at' = "call" /\ todo' = BootCalls
    /\ UNCHANGED <<disk, txn, mem, panel, nu, good, calls>>

PowerLoss ==
    /\ at # "off" /\ at' = "off"
    /\ txn' = <<>> /\ mem' = <<>> /\ todo' = <<>>
    /\ panel' = "idle" /\ nu' = [nu EXCEPT !.pc = "idle"] /\ calls' = 0
    /\ UNCHANGED <<disk, good>>

Running == at = "call" /\ todo = <<>>
\* Bound: novaupdate, which shares no state with the others, runs before them.
Ask(c) == Running /\ nu.pc = "idle" /\ calls < MaxCalls /\ calls' = calls + 1 /\ todo' = <<c>> /\ UNCHANGED <<disk, txn, mem, at, nu, good>>

\* handle_os_update for a process with uid 0; a short package is refused.
handle_os_update ==
    /\ \/ \E p \in Offered : Ask([op |-> "apply", pkg |-> p])
       \/ \E op \in {"confirm", "rollback"} : Ask(C(op))
    /\ UNCHANGED panel

\* The update page: check, review, then apply the package it builds itself;
\* the step is "complete" whatever the call returned.
Panel(from, to) == Running /\ nu.pc = "idle" /\ panel = from /\ panel' = to
PanelCheck == panel # "available" /\ Panel(panel, "available") /\ UNCHANGED <<disk, txn, mem, todo, at, nu, good, calls>>
PanelReview == Panel("available", "confirm") /\ UNCHANGED <<disk, txn, mem, todo, at, nu, good, calls>>
PanelIdle == panel # "idle" /\ Panel(panel, "idle") /\ UNCHANGED <<disk, txn, mem, todo, at, nu, good, calls>>
PanelApply == Panel("confirm", "complete") /\ Ask(C("apply"))
\* sync_from_kernel raises an alert for a roll-back found while idle.
sync_from_kernel ==
    /\ mem # <<>> /\ cfg.state = "rolled_back" /\ Panel("idle", "rolled_back")
    /\ UNCHANGED <<disk, txn, mem, todo, at, nu, good, calls>>

\* novaupdate: RozeHub first, GitHub when that fails or has nothing; an
\* answer is "err", "none" or "new".  The payload is built in, and its digest
\* is compared with the manifest's for the message only.
Step(from, to) == Running /\ calls = 0 /\ panel = "idle" /\ nu.pc = from /\ nu' = [nu EXCEPT !.pc = to] /\ UNCHANGED <<disk, txn, mem, todo, at, panel, good, calls>>
\* An answer of http_get: no address, no socket, no connection, nothing
\* sent, nothing received, or a response that parse_http_response refuses,
\* are errors; else what the manifest says.
Answers == {"err", "none", "new"}
check_rozehub == \E a \in Answers : Step("idle", IF a = "new" THEN "write_new" ELSE "github")
check_github == \E a \in Answers : Step("github", IF a = "new" THEN "write_new" ELSE "idle")
Stage(pc, f, next) ==
    /\ Running /\ calls = 0 /\ panel = "idle" /\ nu.pc = pc
    /\ nu' \in {[nu EXCEPT !.pc = "idle"]} \cup
               (IF f \in nu.files THEN {} ELSE {[pc |-> next, files |-> nu.files \cup {f}]})
    /\ UNCHANGED <<disk, txn, mem, todo, at, panel, good, calls>>
WriteNew == Stage("write_new", "NOVAOS.NEW", "write_cfg")
write_update_cfg == Stage("write_cfg", "UPDATE.CFG", "idle")

UpNext ==
    \/ Boot \/ PowerLoss \/ ensure_config_loaded \/ WriteDefault
    \/ rust_os_update_init \/ rust_os_update_boot_hook \/ rust_os_update_confirm_healthy
    \/ rust_os_update_rollback \/ Reset
    \/ SaveBegin \/ SaveWrite \/ CommitCall
    \/ Verify \/ DeleteImage \/ WriteImage
    \/ handle_os_update \/ PanelCheck \/ PanelReview \/ PanelIdle \/ PanelApply \/ sync_from_kernel
    \/ check_rozehub \/ check_github \/ WriteNew \/ write_update_cfg

UpSpec == UpInit /\ [][UpNext]_upVars


\* While an update is on trial, the slot the machine falls back to holds an
\* image known to be good: atomic_update.rs:12 promises a "failsafe rollback
\* to the last-known-good slot if an update fails to boot".
FallbackKnownGood ==
    \A c \in disk.cfg :
        c.state = "testing" => disk.slot[c.fallback] # {} /\ disk.slot[c.fallback] \subseteq good
=============================================================================
