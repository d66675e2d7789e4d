------------------------------- MODULE Install ------------------------------
(***************************************************************************)
(* Installing the system on a disk: the partitioning and formatting engine *)
(* (kernel/rust/disk_installer.rs, behind SYS_DISK_INSTALL) and the wizard *)
(* that drives it (userland/installer-rs/installer.rs).  A disk keeps only  *)
(* how much of a format reached it.  A write may fail at any point; the    *)
(* device the file systems use is the global active device of blockdev.c,  *)
(* which a live format switches and has to switch back.                    *)
(***************************************************************************)
EXTENDS Integers, Sequences

CONSTANTS
    MaxU,       \* the largest u32 (a narrower word in the runs)
    Default,    \* PART1_DEFAULT_MB .. PART4_DEFAULT_MB
    Presets,    \* PRESETS of the wizard, a sequence of quadruples of MB
    Calls,      \* configurations other programs pass: [total, mb, fat32, ext2]
    Devices,    \* DISK_OPTIONS, a sequence of devices
    Attached,   \* the devices that answer
    System      \* the device the running system is on

VARIABLES
    active,     \* active_device
    job,        \* the format in progress: [on, cfg, dev, todo, lost, saved, by]
    disk,       \* per device: "old", "part" (written in part) or "new" (every structure)
    uid,        \* user the wizard runs as
    wiz         \* the wizard

inVars == <<active, job, disk, uid, wiz>>

(***************************************************************************)
(* Geometry                                                                *)
(***************************************************************************)
SatAdd(a, b) == IF a > MaxU - b THEN MaxU ELSE a + b
SatMul(a, b) == IF a > MaxU \div b THEN MaxU ELSE a * b
SatSub(a, b) == IF a < b THEN 0 ELSE a - b

\* start[i], count[i] of the four partitions, the disk and the FAT; ok is
\* FALSE for DISK_INSTALL_ERR_DISK_TOO_SMALL.
calculate_layout(total, mb) ==
    LET count == [i \in 1 .. 4 |-> SatMul(IF mb[i] = 0 THEN Default[i] ELSE mb[i], 2048)]
        start[i \in 1 .. 5] == IF i = 1 THEN 2048 ELSE SatAdd(start[i - 1], count[i - 1])
        all == IF total = 0 THEN SatAdd(start[5], 2048) ELSE total
        entries == SatAdd(count[1] \div 8, 2)
        fat == SatAdd(SatMul(entries, 4), 511) \div 512
    IN  [ok |-> all >= start[5], total |-> all,
         start |-> [i \in 1 .. 4 |-> start[i]], count |-> count, fat |-> fat,
         clusters |-> SatSub(count[1], SatAdd(32, SatMul(2, fat))) \div 8]

\* The table of the first sector.  verify_mbr_table refuses a partition that
\* leaves the word or reaches into the next one.
synthesize_mbr(l) ==
    [i \in 1 .. 4 |-> [type |-> IF i = 1 THEN "fat32" ELSE "linux", start |-> l.start[i], count |-> l.count[i]]]
verify_mbr_table(t) ==
    /\ \A i \in 1 .. 4 : t[i].start # 0 /\ t[i].count # 0 /\ t[i].start <= MaxU - t[i].count
    /\ \A i \in 1 .. 3 : t[i].start + t[i].count <= t[i + 1].start

\* What the synthesized structures say of the volume, for whoever mounts it:
\* sectors of the FAT32 partition, blocks of the ext2 one.
synthesize_fat32_bpb(l) ==
    [reserved |-> 32, fats |-> 2, fat_size |-> l.fat, hidden |-> l.start[1], total |-> l.count[1],
     cluster |-> 8, root |-> 2, fs_info |-> 1, backup |-> 6]
synthesize_fat32_fsinfo(l) == [free |-> SatSub(l.clusters, 1), next |-> 3]
synthesize_fat32_fat0 == <<"media", "dirty", "eof">>
synthesize_ext2_superblock(l) ==
    LET blocks == l.count[2] \div 2
        inodes == IF l.count[2] \div 16 < 1024 THEN 1024 ELSE l.count[2] \div 16 IN
    [blocks |-> blocks, inodes |-> inodes, free |-> SatSub(blocks, 38), first |-> 1]
synthesize_ext2_bgd(l) == [block_bitmap |-> 3, inode_bitmap |-> 4, inode_table |-> 5]
synthesize_ext2_root_inode == [block |-> <<37>>]

\* One write: the area, its partition (0: none), first sector (the sum wraps),
\* sectors, and whether a failure ends the format.
W(area, part, first, n, checked) ==
    [area |-> area, part |-> part, first |-> first % (MaxU + 1), n |-> n, checked |-> checked]

\* Of each FAT only the first sectors are cleared.
Cleared(fat) == IF fat < 8 THEN fat ELSE 8

\* The boot sector and FSInfo with their copies, both FATs and the cluster of the root directory.
Fat32Writes(l) ==
    LET p == l.start[1] fat1 == p + 32 fat2 == fat1 + l.fat root == fat1 + 2 * l.fat IN
    << W("bpb", 1, p, 1, TRUE), W("bpb2", 1, p + 6, 1, TRUE),
       W("info", 1, p + 1, 1, TRUE), W("info2", 1, p + 7, 1, TRUE),
       W("fat1", 1, fat1, 1, TRUE), W("fat1+", 1, fat1 + 1, Cleared(l.fat) - 1, FALSE),
       W("fat2", 1, fat2, 1, TRUE), W("fat2+", 1, fat2 + 1, Cleared(l.fat) - 1, FALSE),
       W("root", 1, root, 1, TRUE), W("root+", 1, root + 1, 7, FALSE) >>

\* ext2 with blocks of two sectors: the superblock, the group descriptor, two
\* bitmaps, the root inode and the block of the root directory (block 37).
Ext2Writes(l) ==
    LET p == l.start[2] IN
    << W("super", 2, p + 2, 2, TRUE), W("group", 2, p + 4, 1, TRUE),
       W("blocks", 2, p + 6, 1, FALSE), W("inodes", 2, p + 8, 1, FALSE),
       W("table", 2, p + 10, 1, FALSE), W("rootdir", 2, p + 74, 2, FALSE) >>

Writes(cfg) ==
    LET l == calculate_layout(cfg.total, cfg.mb) IN
    << W("mbr", 0, 0, 1, TRUE) >>
        \o (IF cfg.fat32 THEN Fat32Writes(l) ELSE <<>>)
        \o (IF cfg.ext2 THEN Ext2Writes(l) ELSE <<>>)
        \o << W("journal", 3, l.start[3], 1, FALSE), W("dump", 4, l.start[4], 1, FALSE) >>

(***************************************************************************)
(* The system call                                                         *)
(***************************************************************************)
Idle == [on |-> FALSE, cfg |-> <<>>, dev |-> System, todo |-> 0, lost |-> FALSE,
         saved |-> System, by |-> "none"]

\* A dry run answers from the arithmetic alone.
DryRun(cfg) ==
    LET l == calculate_layout(cfg.total, cfg.mb) IN
    IF ~l.ok THEN "too_small" ELSE IF verify_mbr_table(synthesize_mbr(l)) THEN "ok" ELSE "verify_fail"

Opened ==
    [step |-> 0, disk |-> 1, preset |-> 1, valid |-> FALSE, named |-> TRUE, same |-> TRUE,
     confirm |-> FALSE, stage |-> 0, done |-> FALSE, error |-> "ok"]

InInit ==
    /\ active = System /\ job = Idle /\ disk = [d \in Attached |-> "old"]
    /\ uid \in {0, 800}
    /\ wiz = Opened

\* DISK_INSTALL_OP_FORMAT, up to the first write: only root, then the layout
\* (a live format does not verify the table), then the device.
FormatCall(who, user, dev, cfg) ==
    IF user # 0 THEN [rc |-> "permission", job |-> Idle]
    ELSE IF ~calculate_layout(cfg.total, cfg.mb).ok THEN [rc |-> "too_small", job |-> Idle]
    ELSE IF dev \notin Attached THEN [rc |-> "no_device", job |-> Idle]
    ELSE [rc |-> "none",
          job |-> [on |-> TRUE, cfg |-> cfg, dev |-> dev, todo |-> 1, lost |-> FALSE,
                   saved |-> active, by |-> who]]

Begin(c) ==
    /\ job' = c.job
    /\ active' = IF c.job.on THEN c.job.dev ELSE active

\* The answer reaches the wizard, which takes a refused permission for success.
Answered(w, rc) ==
    [w EXCEPT !.error = IF rc \in {"ok", "permission"} THEN "ok" ELSE rc,
              !.stage = 7]

FormatEndKeeps(rc) ==
    /\ job' = Idle /\ active' = IF rc = "ok" THEN job.saved ELSE active
    /\ wiz' = IF job.by = "wizard" THEN Answered(wiz, rc) ELSE wiz
\* Every return of format_disk selects the saved device again.
FormatEnd(rc) ==
    /\ job' = Idle /\ active' = job.saved
    /\ wiz' = IF job.by = "wizard" THEN Answered(wiz, rc) ELSE wiz

\* One write of format_disk, to the device that is active.
FormatWrite ==
    /\ job.on /\ job.todo <= Len(Writes(job.cfg)) /\ UNCHANGED uid
    /\ LET w == Writes(job.cfg)[job.todo] IN
       \/ /\ disk' = [disk EXCEPT ![active] = "part"]
          /\ job' = [job EXCEPT !.todo = @ + 1] /\ UNCHANGED <<active, wiz>>
       \/ /\ ~w.checked /\ job' = [job EXCEPT !.todo = @ + 1, !.lost = TRUE]
          /\ UNCHANGED <<active, wiz, disk>>
       \/ /\ w.checked /\ FormatEnd("io_write") /\ UNCHANGED disk

FormatDone ==
    /\ job.on /\ job.todo > Len(Writes(job.cfg))
    /\ disk' = [disk EXCEPT ![active] = IF job.lost THEN @ ELSE "new"]
    /\ FormatEnd("ok") /\ UNCHANGED uid

\* Another program's format, before the wizard is used.
OtherFormat ==
    /\ ~job.on /\ wiz = Opened /\ \A d \in Attached : disk[d] = "old"
    /\ \E cfg \in Calls, d \in {Devices[i] : i \in DOMAIN Devices}, u \in {0, 800} :
           Begin(FormatCall("other", u, d, cfg))
    /\ UNCHANGED <<disk, uid, wiz>>

(***************************************************************************)
(* The wizard                                                              *)
(***************************************************************************)
Welcome == 0
DiskSelection == 1
UserAccount == 2
Summary == 3
Installing == 4
Complete == 5

Config(w) == [total |-> 0, mb |-> Presets[w.preset], fat32 |-> TRUE, ext2 |-> TRUE]
validate_disk_layout(w) == [w EXCEPT !.valid = DryRun(Config(w)) = "ok"]

\* The form keeps whether the user name is there and whether the passwords are
\* there and equal.
password_matches(w) == w.same

select_disk == \E i \in DOMAIN Devices : wiz' = validate_disk_layout([wiz EXCEPT !.disk = i])
select_preset == \E i \in DOMAIN Presets : wiz' = validate_disk_layout([wiz EXCEPT !.preset = i])

Back ==
    /\ wiz.step \in {DiskSelection, UserAccount, Summary}
    /\ wiz' = [wiz EXCEPT !.step = @ - 1]

\* The first stage runs at once.
Start(w) == [w EXCEPT !.step = Installing, !.stage = 1, !.done = FALSE]

\* The Next button (and Enter); the outcome of the dry run is not consulted.
NextStep ==
    \/ wiz.step = Welcome /\ wiz' = validate_disk_layout([wiz EXCEPT !.step = DiskSelection])
    \/ wiz.step = DiskSelection /\ wiz' = [validate_disk_layout(wiz) EXCEPT !.step = UserAccount]
    \/ wiz.step = UserAccount /\ password_matches(wiz) /\ wiz.named
       /\ wiz' = [wiz EXCEPT !.step = Summary]
    \/ wiz.step = Summary /\ wiz.confirm /\ wiz' = Start(wiz)

\* The numbered pills lead back to any earlier step, even while installing.
Pill == \E s \in Welcome .. Summary : s <= wiz.step /\ wiz' = [wiz EXCEPT !.step = s]

\* Typing and erasing, in whichever field is active: a user name that is typed
\* is there, one that is erased may be gone, and either password may change
\* whether the two agree.
handle_char ==
    /\ wiz.step = UserAccount
    /\ \/ wiz' = [wiz EXCEPT !.named = TRUE]
       \/ \E same \in BOOLEAN : wiz' = [wiz EXCEPT !.same = same]
handle_backspace ==
    /\ wiz.step = UserAccount
    /\ \/ wiz.named /\ \E n \in BOOLEAN : wiz' = [wiz EXCEPT !.named = n]
       \/ \E same \in BOOLEAN : wiz' = [wiz EXCEPT !.same = same]

Confirm == wiz.step = Summary /\ wiz' = [wiz EXCEPT !.confirm = ~@]

handle_click ==
    /\ ~job.on
    /\ \/ Back \/ NextStep \/ Pill \/ Confirm \/ handle_char \/ handle_backspace
       \/ wiz.step = DiskSelection /\ (select_disk \/ select_preset)
    /\ UNCHANGED <<active, job, disk, uid>>

\* execute_installation_step, on every twentieth turn of the loop: stages only
\* report, except 1 (a dry run), 6 (the format) and 7.
execute_installation_step ==
    /\ ~job.on /\ wiz.step = Installing /\ ~wiz.done /\ UNCHANGED <<uid, disk>>
    /\ \/ /\ wiz.stage \in 1 .. 5 /\ UNCHANGED <<job, active>>
          /\ wiz' = [IF wiz.stage = 1 THEN validate_disk_layout(wiz) ELSE wiz EXCEPT !.stage = @ + 1]
       \/ /\ wiz.stage = 6
          /\ LET c == FormatCall("wizard", uid, Devices[wiz.disk], Config(wiz)) IN
             Begin(c) /\ wiz' = IF c.job.on THEN wiz ELSE Answered(wiz, c.rc)
       \/ /\ wiz.stage = 7 /\ UNCHANGED <<job, active>>
          /\ wiz' = [wiz EXCEPT !.done = TRUE, !.step = Complete]

\* Reboot and Quit end the program; it is started again by hand.
Leave ==
    /\ wiz.step = Complete /\ ~job.on
    /\ wiz' = Opened
    /\ disk' = [d \in Attached |-> "old"] /\ UNCHANGED <<active, job, uid>>

InNext == FormatWrite \/ FormatDone \/ OtherFormat \/ handle_click \/ execute_installation_step \/ Leave
InSpec == InInit /\ [][InNext]_inVars

(***************************************************************************)
(* Properties                                                              *)
(***************************************************************************)
Inside(w, first, n) == first <= w.first /\ w.first - first <= n - w.n
Apart(v, w) == v.first + v.n <= w.first \/ w.first + w.n <= v.first
Placed(ws, area) == CHOOSE w \in {ws[i] : i \in DOMAIN ws} : w.area = area

\* The screen of the last step says the system was installed: the disk chosen
\* holds every structure the format writes.
CompleteIsInstalled ==
    wiz.step = Complete => Devices[wiz.disk] \in Attached /\ disk[Devices[wiz.disk]] = "new"
=============================================================================
