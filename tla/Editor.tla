------------------------------- MODULE Editor -------------------------------
(* The text editor EDIT.ELF (userland/edit-rs/editor.rs): an array of lines  *)
(* of bounded length, a cursor, a scrolled view, a one-line clipboard, and   *)
(* one file read with a single SYS_READ and written with the create-only     *)
(* SYS_WRITE_FILE.  Lines and columns count from 0 as in the code; buf.lines *)
(* is a sequence, so line l is buf.lines[l + 1].                             *)
EXTENDS Integers, Sequences, SequencesExt
CONSTANTS
    MaxLines, MaxChars,  \* MAX_LINES, MAX_LINE_CHARS
    ClipMax,             \* MAX_CLIPBOARD
    ReadMax,             \* what one SYS_READ returns at most
    WriteMax,            \* MAX_FILE_SIZE, the save buffer
    Keys,                \* printable characters typed
    Fonts,               \* sequence of [rows, cols] the screen shows per font
    OnDisk,              \* the files present: a function of their contents
    MaxEdits             \* bound on the editing commands of one run
VARIABLES disk, buf, view, file, clip, running, edits
edVars == <<disk, buf, view, file, clip, running, edits>>

Low(a, b) == IF a < b THEN a ELSE b
Cur(b) == b.lines[b.line + 1]
Take(s, n) == SubSeq(s, 1, Low(n, Len(s)))
Drop(s, n) == SubSeq(s, n + 1, Len(s))

(* adjust_scroll: the view follows the cursor.                               *)
Follow(at, from, shown) ==
    IF at < from THEN at ELSE IF at >= from + shown THEN at - (shown - 1) ELSE from
adjust_scroll(v, b) ==
    [v EXCEPT !.top = Follow(b.line, @, Fonts[v.font].rows),
              !.left = Follow(b.col, @, Fonts[v.font].cols)]

(* Line::insert_char and Editor::insert_char.                                *)
insert_char(b, c) ==
    IF Len(Cur(b)) >= MaxChars THEN b
    ELSE [b EXCEPT !.lines[b.line + 1] = InsertAt(@, Low(b.col, Len(@)) + 1, c),
                   !.col = @ + 1]
Insert(b, s) == FoldLeft(insert_char, b, s)

insert_newline(b) ==
    LET n == Low(b.col, Len(Cur(b))) IN
    [lines |-> SubSeq(b.lines, 1, b.line) \o <<Take(Cur(b), n), Drop(Cur(b), n)>>
                  \o Drop(b.lines, b.line + 1),
     line |-> b.line + 1, col |-> 0]

Join(lines, l) ==
    SubSeq(lines, 1, l) \o <<lines[l + 1] \o lines[l + 2]>> \o Drop(lines, l + 2)
Fits(b, l) == Len(b.lines[l + 1]) + Len(b.lines[l + 2]) <= MaxChars

backspace(b) ==
    IF b.col > 0
    THEN [b EXCEPT !.lines[b.line + 1] = RemoveAt(@, b.col), !.col = @ - 1]
    ELSE IF b.line > 0 /\ Fits(b, b.line - 1)
    THEN [lines |-> Join(b.lines, b.line - 1), line |-> b.line - 1,
          col |-> Len(b.lines[b.line])]
    ELSE b

cut_line(b) ==
    IF Len(b.lines) > 1
    THEN LET rest == RemoveAt(b.lines, b.line + 1) IN
         [lines |-> rest, line |-> Low(b.line, Len(rest) - 1), col |-> 0]
    ELSE [b EXCEPT !.lines = <<<<>>>>, !.col = 0]

NewDocument == [lines |-> <<<<>>>>, line |-> 0, col |-> 0]

(* load_file splits what it read at CR, LF or CR LF, drops what is past      *)
(* MaxChars of a line and the lines past MaxLines.                           *)
ParseStep(p, c) ==
    IF c = "nl" /\ p.cr THEN [p EXCEPT !.cr = FALSE]
    ELSE IF c \in {"nl", "cr"}
    THEN [lines |-> Append(p.lines, <<>>), cr |-> c = "cr"]
    ELSE [lines |-> IF Len(Last(p.lines)) < MaxChars
                    THEN Append(Front(p.lines), Append(Last(p.lines), c))
                    ELSE p.lines,
          cr |-> FALSE]
Parsed(bytes) ==
    Take(FoldLeft(ParseStep, [lines |-> <<<<>>>>, cr |-> FALSE], bytes).lines, MaxLines)

(* SYS_OPEN does not look for the file: a missing one is found out by        *)
(* SYS_READ, and then shown as an empty document of that name.               *)
Loaded(name) ==
    LET bytes == IF name \in DOMAIN disk THEN Take(disk[name], ReadMax) ELSE <<>> IN
    IF bytes = <<>> THEN NewDocument ELSE [NewDocument EXCEPT !.lines = Parsed(bytes)]

(* save_file_as: whole lines, each with its line feed, while they fit.       *)
SaveStep(out, line) ==
    IF out.full \/ Len(out.bytes) + Len(line) + 1 >= WriteMax
    THEN [out EXCEPT !.full = TRUE]
    ELSE [out EXCEPT !.bytes = @ \o Append(line, "nl")]
SavedBytes(lines) == FoldLeft(SaveStep, [bytes |-> <<>>, full |-> FALSE], lines).bytes

-----------------------------------------------------------------------------
Document(name, b) ==
    /\ buf = b
    /\ file = [name |-> name, modified |-> FALSE]

(* main: the argument or HELLO.TXT is loaded into the fresh document; the    *)
(* open is refused when the kernel's open-file table is full.                *)
EdInit ==
    /\ disk = OnDisk
    /\ Document("HELLO.TXT", Loaded("HELLO.TXT")) \/ Document("UNTITLED.TXT", NewDocument)
    /\ view = [top |-> 0, left |-> 0, font |-> 1]
    /\ clip = <<>>
    /\ running = TRUE
    /\ edits = 0

Open(name, b) ==
    /\ running
    /\ buf' = b
    /\ file' = [name |-> name, modified |-> FALSE]
    /\ view' = [view EXCEPT !.top = 0, !.left = 0]
    /\ UNCHANGED <<disk, clip, running, edits>>

Edit(b) ==
    /\ running
    /\ edits < MaxEdits
    /\ edits' = edits + 1
    /\ buf' = b
    /\ file' = [file EXCEPT !.modified = @ \/ b # buf]
    /\ view' = adjust_scroll(view, b)
    /\ UNCHANGED <<disk, clip, running>>

TypeKey == \E c \in Keys: Edit(insert_char(buf, c))
Tab == Edit(Insert(buf, <<" ", " ", " ", " ">>))
Newline == Len(buf.lines) < MaxLines /\ Edit(insert_newline(buf))
Backspace == Edit(backspace(buf))
Paste == clip # <<>> /\ Edit(Insert(buf, clip))

CopyLine ==
    /\ running
    /\ clip' = Take(Cur(buf), ClipMax)
    /\ UNCHANGED <<disk, buf, view, file, running, edits>>

(* cut_line scrolls only when it removed one of several lines.               *)
Cut ==
    /\ running
    /\ edits < MaxEdits
    /\ edits' = edits + 1
    /\ clip' = Take(Cur(buf), ClipMax)
    /\ buf' = cut_line(buf)
    /\ file' = [file EXCEPT !.modified = TRUE]
    /\ view' = IF Len(buf.lines) > 1 THEN adjust_scroll(view, buf') ELSE view
    /\ UNCHANGED <<disk, running>>

At(l, c) == [buf EXCEPT !.line = l, !.col = Low(c, Len(buf.lines[l + 1]))]
Bottom == Len(buf.lines) - 1
Rows == Fonts[view.font].rows

move_left ==
    IF buf.col > 0 THEN At(buf.line, buf.col - 1)
    ELSE IF buf.line > 0 THEN At(buf.line - 1, MaxChars)
    ELSE buf
move_right ==
    IF buf.col < Len(Cur(buf)) THEN At(buf.line, buf.col + 1)
    ELSE IF buf.line < Bottom THEN At(buf.line + 1, 0)
    ELSE buf

(* Arrow, Home, End and Page keys, and a click into the text.                *)
Moves ==
    {move_left, move_right, At(buf.line, 0), At(buf.line, MaxChars),
     At(IF buf.line < Rows THEN 0 ELSE buf.line - Rows, buf.col),
     At(Low(buf.line + Rows, Bottom), buf.col)}
    \cup {At(l, buf.col): l \in {buf.line - 1, buf.line + 1} \cap 0..Bottom}
Clicks ==
    {At(view.top + p[1], view.left + p[2]):
        p \in {q \in (0..Rows) \X (0..Fonts[view.font].cols): view.top + q[1] <= Bottom}}

MoveCursor ==
    /\ running
    /\ buf' \in Moves \cup Clicks
    /\ view' = adjust_scroll(view, buf')
    /\ UNCHANGED <<disk, file, clip, running, edits>>

(* perform_action New and Open: unsaved changes are not asked about.         *)
NewKey == Open("UNTITLED.TXT", NewDocument)
OpenKey ==
    LET name == IF file.name = "HELLO.TXT" THEN "SYSTEM.CFG" ELSE "HELLO.TXT"
    IN  Open(name, Loaded(name))

(* save_file: SYS_WRITE_FILE creates and never overwrites, so saving a file  *)
(* that exists leaves disk and buffer as they were.                          *)
Save ==
    /\ running
    /\ file.name \notin DOMAIN disk
    /\ disk' = [n \in DOMAIN disk \cup {file.name} |->
                   IF n = file.name THEN SavedBytes(buf.lines) ELSE disk[n]]
    /\ file' = [file EXCEPT !.modified = FALSE]
    /\ UNCHANGED <<buf, view, clip, running, edits>>

ToggleFont ==
    /\ running
    /\ view' = adjust_scroll([view EXCEPT !.font = (@ % Len(Fonts)) + 1], buf)
    /\ UNCHANGED <<disk, buf, file, clip, running, edits>>

(* The program ends; nothing is modelled after it, so every end is one state. *)
Quit ==
    /\ running
    /\ running' = FALSE
    /\ buf' = NewDocument
    /\ view' = [top |-> 0, left |-> 0, font |-> 1]
    /\ file' = [name |-> "UNTITLED.TXT", modified |-> FALSE]
    /\ clip' = <<>>
    /\ edits' = 0
    /\ UNCHANGED disk

EdNext ==
    \/ TypeKey \/ Tab \/ Newline \/ Backspace \/ Paste
    \/ CopyLine \/ Cut \/ MoveCursor \/ NewKey \/ OpenKey \/ Save
    \/ ToggleFont \/ Quit
EdSpec == EdInit /\ [][EdNext]_edVars

-----------------------------------------------------------------------------
(* The flat text the array of lines stands for, and the caret in it.         *)
Flat(lines) == FoldLeft(LAMBDA s, l: s \o <<"nl">> \o l, Head(lines), Tail(lines))
FlatCaret == Len(Flat(Append(SubSeq(buf.lines, 1, buf.line), Take(Cur(buf), buf.col))))

FT == INSTANCE FlatText WITH text <- Flat(buf.lines), caret <- FlatCaret,
                             documents <- {Flat(Loaded(n).lines): n \in DOMAIN disk}

=============================================================================
