------------------------------ MODULE FlatText ------------------------------
(* What a user expects of a text editor: one flat text with a caret between  *)
(* two of its characters.  Editor.tla, which stores the text as an array of  *)
(* lines of bounded length, is shown to implement this.                      *)
EXTENDS Integers, Sequences
VARIABLES text, caret,
          documents    \* the texts of the files that can be opened

flatVars == <<text, caret>>

Before == SubSeq(text, 1, caret)
After == SubSeq(text, caret + 1, Len(text))

(* Typing, a tab and a paste put characters at the caret and nothing else.   *)
Type ==
    \E n \in 1..(Len(text') - Len(text)):
        /\ text' = Before \o SubSeq(text', caret + 1, caret + n) \o After
        /\ caret' = caret + n

EraseBefore ==
    /\ caret > 0
    /\ text' = SubSeq(text, 1, caret - 1) \o After
    /\ caret' = caret - 1

Walk ==
    /\ text' = text
    /\ caret' \in 0..Len(text)

(* The line that holds the caret goes, with one of the breaks around it; the *)
(* caret is left at the start of a line.                                     *)
IsBreak(i) == i = 0 \/ i = Len(text) + 1 \/ text[i] = "nl"
CutLine ==
    \E a \in 0..caret, b \in (caret + 1)..(Len(text) + 1):
        /\ IsBreak(a) /\ IsBreak(b)
        /\ \A i \in (a + 1)..(b - 1): text[i] # "nl"
        /\ text' = IF a = 0 THEN SubSeq(text, b + 1, Len(text))
                   ELSE SubSeq(text, 1, a - 1) \o SubSeq(text, b, Len(text))
        /\ caret' = 0 \/ text'[caret'] = "nl"

(* New, Open and starting the program show another document from its start.  *)
Replace == text' \in documents \cup {<<>>} /\ caret' = 0

FlatInit == text \in documents \cup {<<>>} /\ caret = 0
FlatNext == Type \/ EraseBefore \/ Walk \/ CutLine \/ Replace
FlatSpec == FlatInit /\ [][FlatNext]_flatVars
=============================================================================
