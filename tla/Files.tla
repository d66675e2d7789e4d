-------------------------------- MODULE Files --------------------------------
(* The file manager FILES.ELF (userland/files-rs/files.rs) on the root       *)
(* directory it shares with the programs cp and rm of a shell                *)
(* (userland/coreutils-rs).  Every system call is a step: the other side may *)
(* run between the reads, the write and the delete of a move.  File names    *)
(* are sequences of characters, directory entries 8.3 names; contents are    *)
(* sequences of blocks.                                                      *)
EXTENDS Integers, Sequences, SequencesExt
CONSTANTS
    BaseW, ExtW,       \* widths of the two halves of a directory entry (8, 3)
    NameCut, Suffix,   \* the Move button keeps NameCut characters, adds Suffix
    ReadMax,           \* most blocks one SYS_READ returns
    CopyMax, CpMax,    \* OP_COPY_BUF of the manager, COPY_BUF of cp
    MaxFiles,          \* MAX_FILES of the cached listing
    Present,           \* the directory at start: entry -> contents
    Copies,            \* cp commands typed at the shell: <<from, to>>
    MaxCommands        \* bound on the shell commands
VARIABLES fs, fm, job, sh, commands
fiVars == <<fs, fm, job, sh, commands>>

Low(a, b) == IF a < b THEN a ELSE b
Take(s, n) == SubSeq(s, 1, Low(n, Len(s)))
Drop(s, n) == SubSeq(s, n + 1, Len(s))

(* to_fat_8_3: the base ends at the first dot; the extension is the first    *)
(* ExtW characters after it, dots included.                                  *)
to_fat_8_3(name) ==
    LET dots == {i \in 1..Len(name): name[i] = "."}
        dot == IF dots = {} THEN Len(name) + 1 ELSE CHOOSE i \in dots: \A j \in dots: i <= j
    IN  <<Take(SubSeq(name, 1, dot - 1), BaseW), Take(Drop(name, dot), ExtW)>>
from_fat_8_3(raw) == IF raw[2] = <<>> THEN raw[1] ELSE raw[1] \o <<".">> \o raw[2]

Exists(name) == to_fat_8_3(name) \in DOMAIN fs
Content(name) == fs[to_fat_8_3(name)]
Without(name) == [r \in DOMAIN fs \ {to_fat_8_3(name)} |-> fs[r]]
With(name, data) ==
    [r \in DOMAIN fs \cup {to_fat_8_3(name)} |->
        IF r = to_fat_8_3(name) THEN data ELSE fs[r]]

(* SYS_READ at an offset: a missing file gives the error, a set {}.          *)
sys_read(name, at, room) ==
    IF Exists(name) THEN {Take(Drop(Content(name), at), Low(room, ReadMax))} ELSE {}

(* SYS_LIST_FILES lists the directory in its own order.                      *)
Listing == Take(SetToSeq({from_fat_8_3(r): r \in DOMAIN fs}), MaxFiles)

Idle == [pc |-> "idle", src |-> <<>>, dst |-> <<>>, data |-> <<>>, touched |-> FALSE]

FiInit ==
    /\ fs = Present
    /\ fm = [files |-> Listing, sel |-> {}, preview |-> FALSE]
    /\ job = Idle
    /\ sh = Idle
    /\ commands = 0

-----------------------------------------------------------------------------
(* The file manager.  on_left_click runs to its end before the next click.   *)
AtRest == job.pc = "idle"
Selected == fm.files[CHOOSE i \in fm.sel: TRUE]

refresh == fm' = [fm EXCEPT !.files = Listing, !.sel = {}]

ClickRefresh == AtRest /\ refresh /\ UNCHANGED <<fs, job, sh, commands>>

ClickFile ==
    /\ AtRest /\ ~fm.preview
    /\ \E i \in DOMAIN fm.files:
          fm' = IF fm.sel = {i}
                THEN [fm EXCEPT !.preview = sys_read(fm.files[i], 0, CopyMax) # {}]
                ELSE [fm EXCEPT !.sel = {i}]
    /\ UNCHANGED <<fs, job, sh, commands>>

ClickOpen ==
    /\ AtRest /\ fm.sel # {}
    /\ fm' = [fm EXCEPT !.preview = @ \/ sys_read(Selected, 0, CopyMax) # {}]
    /\ UNCHANGED <<fs, job, sh, commands>>

close_preview ==
    /\ AtRest /\ fm.preview
    /\ fm' = [fm EXCEPT !.preview = FALSE]
    /\ UNCHANGED <<fs, job, sh, commands>>

(* delete_selected: by the name in the cached listing; the listing is read   *)
(* again (a step of its own) only when the delete succeeded.                 *)
ClickDelete ==
    /\ AtRest /\ fm.sel # {}
    /\ Exists(Selected)
    /\ fs' = Without(Selected)
    /\ fm' = [fm EXCEPT !.sel = {}]
    /\ job' = [job EXCEPT !.pc = "list"]
    /\ UNCHANGED <<sh, commands>>

(* The Move button: SYS_OPEN does not look for the file, so a stale name     *)
(* gets as far as the first read.                                            *)
ClickMove ==
    /\ AtRest /\ fm.sel # {}
    /\ job' = [Idle EXCEPT !.pc = "read", !.src = Selected,
                           !.dst = Take(Selected, NameCut) \o Suffix]
    /\ UNCHANGED <<fs, fm, sh, commands>>

MoveRead ==
    /\ job.pc = "read"
    /\ LET got == sys_read(job.src, Len(job.data), CopyMax - Len(job.data)) IN
       job' = IF got \in {{}, {<<>>}} THEN [job EXCEPT !.pc = "write"]
              ELSE [job EXCEPT !.data = @ \o CHOOSE d \in got: TRUE]
    /\ UNCHANGED <<fs, fm, sh, commands>>

(* SYS_WRITE_FILE refuses an entry that exists.                              *)
MoveWrite ==
    /\ job.pc = "write"
    /\ IF Exists(job.dst)
       THEN job' = Idle /\ fs' = fs
       ELSE job' = [job EXCEPT !.pc = "delete"] /\ fs' = With(job.dst, job.data)
    /\ UNCHANGED <<fm, sh, commands>>

MoveDelete ==
    /\ job.pc = "delete"
    /\ fs' = IF Exists(job.src) THEN Without(job.src) ELSE fs
    /\ job' = [Idle EXCEPT !.pc = "list"]
    /\ UNCHANGED <<fm, sh, commands>>

Relist ==
    /\ job.pc = "list"
    /\ refresh
    /\ job' = Idle
    /\ UNCHANGED <<fs, sh, commands>>

-----------------------------------------------------------------------------
(* The shell runs one program at a time.  Touch marks a move whose two files *)
(* it changes; from_fat_8_3 of an entry names it.                            *)
Moving(name) ==
    /\ job.pc \in {"read", "write", "delete"}
    /\ to_fat_8_3(name) \in {to_fat_8_3(job.src), to_fat_8_3(job.dst)}
Touch(name) == job' = [job EXCEPT !.touched = @ \/ Moving(name)]

RmMain ==
    /\ sh.pc = "idle" /\ commands < MaxCommands
    /\ commands' = commands + 1
    /\ \E r \in DOMAIN fs: fs' = Without(from_fat_8_3(r)) /\ Touch(from_fat_8_3(r))
    /\ UNCHANGED <<fm, sh>>

CpOpen ==
    /\ sh.pc = "idle" /\ commands < MaxCommands
    /\ commands' = commands + 1
    /\ \E c \in Copies: sh' = [Idle EXCEPT !.pc = "read", !.src = c[1], !.dst = c[2]]
    /\ UNCHANGED <<fs, fm, job>>

(* cp gives up on a full buffer and on a read error, and writes only at the  *)
(* end of the file.                                                          *)
CpRead ==
    /\ sh.pc = "read"
    /\ LET room == CpMax - Len(sh.data)
           got == sys_read(sh.src, Len(sh.data), room) IN
       sh' = IF room = 0 \/ got = {} THEN Idle
             ELSE IF got = {<<>>} THEN [sh EXCEPT !.pc = "write"]
             ELSE [sh EXCEPT !.data = @ \o CHOOSE d \in got: TRUE]
    /\ UNCHANGED <<fs, fm, job, commands>>

CpWrite ==
    /\ sh.pc = "write"
    /\ sh' = Idle
    /\ IF Exists(sh.dst) THEN UNCHANGED <<fs, job>>
       ELSE fs' = With(sh.dst, sh.data) /\ Touch(sh.dst)
    /\ UNCHANGED <<fm, commands>>

FiNext ==
    \/ ClickRefresh \/ ClickFile \/ ClickOpen \/ close_preview \/ ClickDelete
    \/ ClickMove \/ MoveRead \/ MoveWrite \/ MoveDelete \/ Relist
    \/ RmMain \/ CpOpen \/ CpRead \/ CpWrite
FiSpec == FiInit /\ [][FiNext]_fiVars

-----------------------------------------------------------------------------
(* When move_file is about to delete the source, the destination holds the   *)
(* whole of it: "Read full source file into copy buffer" (files.rs:394).     *)
MovesFullFile ==
    job.pc = "delete" /\ ~job.touched /\ Exists(job.src)
        => Exists(job.dst) /\ Content(job.dst) = Content(job.src)

=============================================================================
