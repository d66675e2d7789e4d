------------------------------- MODULE Layout -------------------------------
(***************************************************************************)
(* Rectangles on the screen.  Every desktop program draws its controls in  *)
(* one function and decides in another one which of them a click meant, so *)
(* the two copies of the coordinates have to agree.  A control is a tuple  *)
(* <<name, index, x, y, w, h>>: what it stands for, and where it is.       *)
(***************************************************************************)
EXTENDS Integers, Sequences, FiniteSets, FiniteSetsExt

(* One control. *)
One(name, i, x, y, w, h) == << <<name, i, x, y, w, h>> >>

(* n controls of the same size, each (dx, dy) from the one before. *)
Row(name, n, x, y, dx, dy, w, h) ==
    [i \in 1..n |-> <<name, i - 1, x + dx * (i - 1), y + dy * (i - 1), w, h>>]

(* Controls side by side, `gap' apart, of the widths given. *)
Bar(name, widths, x, y, gap, h) ==
    [i \in 1..Len(widths) |->
        <<name, i - 1, x + MapThenSumSet(LAMBDA j : widths[j] + gap, 1..(i - 1)), y, widths[i], h>>]

(* Controls that are there only under a condition. *)
When(condition, controls) == IF condition THEN controls ELSE <<>>

(* Rect::contains / point_in_rect: left and top edge in, right and bottom out. *)
Inside(c, px, py) ==
    /\ c[3] <= px /\ px < c[3] + c[5]
    /\ c[4] <= py /\ py < c[4] + c[6]

Meaning(c) == <<c[1], c[2]>>
Nothing    == <<"nothing", 0>>

(* What a click at (px, py) does: the first region of the handler it is in. *)
ClickAt(regions, px, py) ==
    LET hit == {k \in DOMAIN regions : Inside(regions[k], px, py)}
    IN IF hit = {} THEN Nothing ELSE Meaning(regions[Min(hit)])

(* A click at the middle of a control. *)
ClickOn(regions, c) == ClickAt(regions, c[3] + c[5] \div 2, c[4] + c[6] \div 2)
=============================================================================
