-------------------------------- MODULE Crash -------------------------------
(***************************************************************************)
(* Crash dumps: the record a panic leaves in its own disk region, its      *)
(* report and export at the next boot (kernel/rust/crashdump.rs, called    *)
(* from vfs_init and kernel_main), the system call on the exported files,  *)
(* and the problem reporter that shows them (userland/crashrep-rs).        *)
(* A write of one sector is atomic; a transaction of journal.rs is on the  *)
(* disk or is not (module Journal).  Power may be lost between any two     *)
(* file operations, and a panic may come at any time, from any processor.  *)
(***************************************************************************)
EXTENDS Integers, Sequences

CONSTANTS
    Faults,     \* what may break: [vec, err, cr2, stack]; vec = 0 is a software panic
    TestFault,  \* the synthetic report of rust_crashdump_export_selftest
    MaxFrames,  \* MAX_STACK_FRAMES
    MaxPanics   \* bound on panics

VARIABLES
    region,   \* the crash-dump partition: its slot and the self-test's scratch
    disk,     \* CRASHDMP.TXT and CRASHDMP.DAT, sets of at most one content
    txn,      \* view of the open transaction, as <<view>>, or <<>>
    latest,   \* LATEST_REPORT, a set of at most one report
    exported, \* AUTO_EXPORTED
    pc,       \* what the kernel is doing
    rep,      \* the report export_crash_report was called with
    app,      \* the problem reporter: what it shows, or "closed"
    panics,   \* panics so far
    found     \* history: the crash found by this boot, until it is cleared

crVars == <<region, disk, txn, latest, exported, pc, rep, app, panics, found>>

NoReport == [id |-> 0, vec |-> 0, err |-> {}, cr2 |-> FALSE, stack |-> <<>>, seg |-> FALSE]
NoRecord == [magic |-> FALSE, pending |-> FALSE, sum |-> NoReport, report |-> NoReport]
Closed == [open |-> FALSE, shown |-> NoReport, from |-> "none"]

CrInit ==
    /\ region = [slot |-> NoRecord, scratch |-> NoRecord]
    /\ disk = [txt |-> {}, dat |-> {}] /\ txn = <<>>
    /\ latest = {} /\ exported = FALSE
    /\ pc = "off" /\ rep = NoReport /\ app = Closed
    /\ panics = 0 /\ found = {}

(***************************************************************************)
(* The record                                                              *)
(***************************************************************************)
\* walk_stack: frames are followed upwards while the saved frame pointer is
\* inside the identity map and larger than the last; mem maps a readable
\* frame pointer to <<return address, saved frame pointer>>.
walk_stack(mem, start) ==
    LET W[k \in 0 .. MaxFrames] ==
          IF k = 0 THEN [ebp |-> start, out |-> <<>>, go |-> TRUE]
          ELSE LET w == W[k - 1] IN
               IF ~w.go \/ w.ebp \notin DOMAIN mem THEN [w EXCEPT !.go = FALSE]
               ELSE [ebp |-> mem[w.ebp][2], out |-> Append(w.out, mem[w.ebp][1]), go |-> mem[w.ebp][2] > w.ebp]
    IN  W[MaxFrames].out

\* The report of panic n; a software panic has no registers.
Report(f, n) ==
    [id |-> n, vec |-> f.vec, err |-> f.err, cr2 |-> f.cr2, stack |-> walk_stack(f.mem, f.ebp), seg |-> f.vec # 0]

\* encode_record: the checksum covers everything after the pending field.
encode_record(r) == [magic |-> TRUE, pending |-> TRUE, sum |-> r, report |-> r]
Valid(rec) == rec.magic /\ rec.pending /\ rec.sum = rec.report
Consumed(rec) == [rec EXCEPT !.pending = FALSE]

\* rust_crashdump_write_panic on some processor, before the region is
\* configured or after; only that processor stops.
Panic ==
    /\ pc \notin {"off"} /\ panics < MaxPanics
    /\ panics' = panics + 1
    /\ \E f \in Faults :
         \/ /\ pc # "mount"
            /\ region' = [region EXCEPT !.slot = encode_record(Report(f, panics + 1))]
         \/ UNCHANGED region                     \* unusable, or the write failed
    /\ \E stop \in BOOLEAN : \/ stop /\ pc' = "halt" /\ txn' = <<>>
                             \/ ~stop /\ pc \in {"run", "halt"} /\ UNCHANGED <<pc, txn>>
    /\ UNCHANGED <<disk, latest, exported, rep, app, found>>

(***************************************************************************)
(* Boot: vfs_init, then the self-tests of kernel_main                      *)
(***************************************************************************)
PowerOff ==
    /\ pc # "off" /\ pc' = "off"
    /\ txn' = <<>> /\ latest' = {} /\ exported' = FALSE /\ rep' = NoReport /\ app' = Closed /\ found' = {}
    /\ UNCHANGED <<region, disk, panics>>

PowerOn ==
    /\ pc = "off" /\ pc' = "mount"
    /\ UNCHANGED <<region, disk, txn, latest, exported, rep, app, panics, found>>

\* rust_crashdump_check_and_report: the record is marked as consumed before
\* its report is used; that write's result is ignored.
rust_crashdump_check_and_report ==
    /\ pc = "mount"
    /\ LET rec == region.slot IN
       \/ /\ Valid(rec)
          /\ region' \in {region, [region EXCEPT !.slot = Consumed(rec)]}
          /\ latest' = {rec.report} /\ found' = {rec.report}
          /\ rep' = rec.report /\ pc' = "export"
       \/ ~Valid(rec) /\ pc' = "selftest" /\ UNCHANGED <<region, latest, found, rep>>
    /\ UNCHANGED <<disk, txn, exported, app, panics>>

\* rust_crashdump_selftest: the scratch sector is written, read back and read
\* once more; what is left there is its last record, consumed.
rust_crashdump_selftest ==
    /\ pc = "selftest" /\ pc' = "test_export"
    /\ region' = [region EXCEPT !.scratch = Consumed(encode_record(NoReport))]
    /\ UNCHANGED <<disk, txn, latest, exported, rep, app, panics, found>>

rust_crashdump_export_selftest ==
    /\ pc = "test_export" /\ pc' = "self_export" /\ rep' = Report(TestFault, 0)
    /\ UNCHANGED <<region, disk, txn, latest, exported, app, panics, found>>

(***************************************************************************)
(* Export                                                                  *)
(***************************************************************************)
View == IF txn = <<>> THEN disk ELSE txn[1]
Put(v) == IF txn = <<>> THEN disk' = v /\ UNCHANGED txn ELSE txn' = <<v>> /\ UNCHANGED disk


\* rust_journal_begin.
Begin == txn' = <<View>> /\ UNCHANGED disk
Commit == disk' = View /\ txn' = <<>>

\* format_crash_report: the register lines are there for a fault only, and
\* no line carries the segments and the flags.
format_crash_report(r) ==
    [id |-> r.id, regs |-> IF r.vec = 0 THEN {} ELSE {<<r.vec, r.err>>}, cr2 |-> r.cr2, stack |-> r.stack]

Exporting == {"export", "self_export", "call_export"}
Step(from, to) == pc \in from /\ pc' = to
Kept == UNCHANGED <<region, latest, exported, rep, app, panics, found>>

export_crash_report ==
    /\ pc \in Exporting /\ Begin
    /\ pc' = IF pc = "export" THEN "txt_boot" ELSE "txt"
    /\ Kept
\* Delete and write; a full disk fails the write.
WriteText ==
    /\ \/ Step({"txt_boot"}, "dat_boot") \/ Step({"txt"}, "dat")
    /\ \E w \in {{}, {format_crash_report(rep)}} : Put([View EXCEPT !.txt = w])
    /\ Kept
WriteBinary ==
    /\ \/ Step({"dat_boot"}, "end_boot") \/ Step({"dat"}, "end")
    /\ \E w \in {{}, {rep}} : Put([View EXCEPT !.dat = w])
    /\ Kept
ExportDone ==
    /\ \/ Step({"end_boot"}, "selftest") \/ Step({"end"}, "run")
    /\ Commit
    /\ IF View.txt # {} /\ View.dat # {} THEN exported' = TRUE /\ latest' = {rep} ELSE UNCHANGED <<exported, latest>>
    /\ UNCHANGED <<region, rep, app, panics, found>>

(***************************************************************************)
(* The system call, for a process with uid 0, and the problem reporter     *)
(***************************************************************************)
CallExport ==
    /\ pc = "run" /\ latest # {} /\ pc' = "call_export"
    /\ rep' = CHOOSE r \in latest : TRUE
    /\ UNCHANGED <<region, disk, txn, latest, exported, app, panics, found>>

\* rust_crashdump_clear_exported: one transaction; LATEST_REPORT stays.
rust_crashdump_clear_exported ==
    /\ pc = "run"
    /\ disk' = [txt |-> {}, dat |-> {}] /\ exported' = FALSE /\ found' = {}
    /\ UNCHANGED <<region, txn, latest, pc, rep, app, panics>>

\* parse_metadata_lines: what no line says stays zero.
parse_metadata_lines(t) ==
    LET r == IF t.regs = {} THEN <<0, {}>> ELSE CHOOSE x \in t.regs : TRUE
    IN  [id |-> t.id, vec |-> r[1], err |-> r[2], cr2 |-> t.cr2, stack |-> t.stack, seg |-> FALSE]
parse_crash_text(t) == parse_metadata_lines(t)
from_binary_report(r) == r

\* load_crash_dump: the text file first, then the kernel's own copy.
Load ==
    CASE disk.txt # {} -> [open |-> TRUE, shown |-> parse_crash_text(CHOOSE t \in disk.txt : TRUE), from |-> "file"]
      [] disk.txt = {} /\ latest # {} -> [open |-> TRUE, shown |-> from_binary_report(CHOOSE r \in latest : TRUE), from |-> "kernel"]
      [] OTHER -> [open |-> TRUE, shown |-> NoReport, from |-> "none"]

AppOpen ==
    /\ pc = "run" /\ ~app.open
    /\ app' = Load
    /\ UNCHANGED <<region, disk, txn, latest, exported, pc, rep, panics, found>>

\* Escape, "q", Dismiss.
AppClose ==
    /\ pc = "run" /\ app.open /\ app' = Closed
    /\ UNCHANGED <<region, disk, txn, latest, exported, pc, rep, panics, found>>

\* "c" and Clear Record: the report stays on the screen.
clear_crash_record == app.open /\ rust_crashdump_clear_exported

CrNext ==
    \/ Panic \/ PowerOff \/ PowerOn
    \/ rust_crashdump_check_and_report \/ rust_crashdump_selftest \/ rust_crashdump_export_selftest
    \/ export_crash_report \/ WriteText \/ WriteBinary \/ ExportDone
    \/ CallExport \/ clear_crash_record \/ AppOpen \/ AppClose


\* A crash that this boot found is what the exported report tells of, as
\* long as nobody cleared it and there was room for the files: vfs.c:204
\* says a pending record "is reported to console and auto-exported to
\* CRASHDMP.TXT/DAT for user-facing crash reporter applications".
FoundCrashIsExported ==
    pc = "run" => \A r \in found, t \in disk.txt : t.id = r.id
=============================================================================
