--------------------------------- MODULE Wm ---------------------------------
(* The window manager (userland/wm-rs/wm.rs): windows that float, snap to    *)
(* the work area, minimise to the dock and are dragged by their title bars.  *)
(* The mouse is its only input: no menu of ui-rs/menu.rs carries one of the  *)
(* window actions, so tiling and cycling are never reached and choosing a    *)
(* menu item only closes the menu.  Coordinates are pixels; a rectangle is   *)
(* <<x, y, w, h>>.  Windows and dock items count from 1.                     *)
EXTENDS Integers, Sequences, SequencesExt
CONSTANTS
    ScreenW, ScreenH,    \* the display, at least 800 x 600
    Scale,               \* font scale of ACCESS.CFG in percent
    Placed,              \* the rectangles the windows start with
    DockApps,            \* dock_apps: labels of the pinned applications
    MenuTitle, MenuItem, \* rectangles of a menu title and its open drop-down
    Points,              \* where the pointer goes
    MaxPresses           \* bound on the button presses
VARIABLES wm, pressed, presses, floated
wmVars == <<wm, pressed, presses, floated>>

Low(a, b) == IF a < b THEN a ELSE b
High(a, b) == IF a > b THEN a ELSE b
clamp(v, lo, hi) == High(lo, Low(v, hi))
In(p, r) == /\ p[1] >= r[1] /\ p[1] < r[1] + r[3]
            /\ p[2] >= r[2] /\ p[2] < r[2] + r[4]

(* The heights of the chrome, scaled for ACCESS.CFG.                         *)
scale_px(px) == (px * Scale + 50) \div 100
titlebar_h == IF Scale = 100 THEN 28 ELSE High(scale_px(28), 32)
menubar_h == High(scale_px(24), 24)
taskbar_h == High(scale_px(36), 36)
desktop_h == ScreenH - taskbar_h

WorkArea == <<0, menubar_h, ScreenW, desktop_h - menubar_h>>

calculate_snap_rect(snap) ==
    LET X == WorkArea[1]
        Y == WorkArea[2]
        W == WorkArea[3]
        H == WorkArea[4]
        right == snap \in {"Right", "TopRight", "BottomRight"}
        bottom == snap \in {"BottomLeft", "BottomRight"}
        w == IF snap = "Maximize" THEN W ELSE IF right THEN W - W \div 2 ELSE W \div 2
        h == IF snap \in {"Maximize", "Left", "Right"} THEN H
             ELSE IF bottom THEN H - H \div 2 ELSE H \div 2
    IN  <<IF right THEN X + W \div 2 ELSE X, IF bottom THEN Y + H \div 2 ELSE Y, w, h>>

detect_snap_target(p) ==
    LET side == IF p[1] <= 12 THEN "Left" ELSE IF p[1] >= ScreenW - 12 THEN "Right" ELSE ""
        top == p[2] <= menubar_h + 20
        bottom == p[2] >= desktop_h - 20
    IN  IF side = "" THEN IF p[2] <= menubar_h + 2 THEN {"Maximize"} ELSE {}
        ELSE IF side = "Left" THEN {IF top THEN "TopLeft" ELSE IF bottom THEN "BottomLeft" ELSE "Left"}
        ELSE {IF top THEN "TopRight" ELSE IF bottom THEN "BottomRight" ELSE "Right"}

(* snap_window: only a floating window's rectangle is remembered.            *)
snap_window_forgets(w, snap) ==
    IF snap = "Normal" THEN [w EXCEPT !.snap = snap, !.r = w.pre]
    ELSE [w EXCEPT !.snap = snap, !.r = calculate_snap_rect(snap), !.pre = w.r]
snap_window(w, snap) ==
    IF snap = "Normal" THEN [w EXCEPT !.snap = snap, !.r = w.pre]
    ELSE [w EXCEPT !.snap = snap, !.r = calculate_snap_rect(snap),
                   !.pre = IF w.snap = "Normal" THEN w.r ELSE w.pre]
toggle_maximize(w) == snap_window(w, IF w.snap = "Maximize" THEN "Normal" ELSE "Maximize")

-----------------------------------------------------------------------------
Windows == DOMAIN Placed
Shown(s, i) == s.win[i].open /\ ~s.win[i].min
(* The topmost of the windows `hit' that are shown.                          *)
Topmost(s, hit) ==
    LET at == {k \in DOMAIN s.z: Shown(s, s.z[k]) /\ s.z[k] \in hit}
    IN  IF at = {} THEN {} ELSE {s.z[CHOOSE k \in at: \A m \in at: m <= k]}

TitleBar(s, i) == LET r == s.win[i].r IN <<r[1], r[2], r[3], titlebar_h>>
titlebar_at(s, p) == Topmost(s, {i \in Windows: In(p, TitleBar(s, i))})
window_at(s, p) == Topmost(s, {i \in Windows: In(p, s.win[i].r)})
active_window(s) == Topmost(s, Windows)

raise(s, i) == [s EXCEPT !.z = Append(SelectSeq(s.z, LAMBDA j: j # i), i)]
minimize_window(s, i) == [s EXCEPT !.win[i].min = TRUE]
close_window(s, i) == [s EXCEPT !.win[i].open = FALSE, !.win[i].min = FALSE]
restore_window(s, i) == raise([s EXCEPT !.win[i].min = FALSE, !.win[i].open = TRUE], i)

DockRect(k) ==
    LET room == (ScreenW - 48 - 120) \div Len(DockApps)
        w == High(Low(room, 120), 48)
    IN  <<48 + (k - 1) * (w + 4), desktop_h + 2, w, taskbar_h - 4>>
dock_item_at(p) == {k \in DOMAIN DockApps: In(p, DockRect(k))}

menubar_item_at(p) == In(p, MenuTitle)
dropdown_item_at(s, p) == s.menu /\ In(p, MenuItem)

First(S) == CHOOSE i \in S: \A j \in S: i <= j

(* The open windows of an application, as the dock shows them.               *)
dock_items(s, app) == {i \in Windows: s.win[i].open /\ s.win[i].label = app}

(* on_dock_item_click: minimise the active window, restore a minimised one,  *)
(* raise a running one; a closed application gets its window back, or the    *)
(* first closed one.                                                         *)
on_dock_item_click(s, app) ==
    LET running == dock_items(s, app)
        own == {i \in Windows: s.win[i].label = app}
        closed == {i \in Windows: ~s.win[i].open}
    IN  IF running # {}
        THEN LET i == First(running) IN
             IF active_window(s) = {i} THEN minimize_window(s, i)
             ELSE IF s.win[i].min THEN restore_window(s, i)
             ELSE raise(s, i)
        ELSE IF own # {} THEN restore_window(s, First(own))
        ELSE IF closed = {} THEN s
        ELSE restore_window([s EXCEPT !.win[First(closed)].label = app], First(closed))

-----------------------------------------------------------------------------
(* A press on a title bar: its three buttons, else raise and start to drag;  *)
(* a snapped window first floats again under the pointer.                    *)
Float(w, p) ==
    IF w.snap = "Normal" THEN w
    ELSE LET old == High(w.r[3], 1)
             rel == clamp(p[1] - w.r[1], 0, old)
             pw == w.pre[3]
             ph == w.pre[4]
         IN  [w EXCEPT !.snap = "Normal",
                       !.r = <<clamp(p[1] - (pw * rel) \div old, 0, ScreenW - pw),
                               High(Low(p[2], desktop_h - ph), 0), pw, ph>>]

TitleButton(w, p) ==
    LET close == w.r[1] + w.r[3] - 20
        y == w.r[2] + (titlebar_h - 12) \div 2
        on(x) == In(p, <<x, y, 12, 12>>)
    IN  IF w.r[3] < 80 THEN "" ELSE IF on(close) THEN "close"
        ELSE IF on(close - 18) THEN "max" ELSE IF on(close - 36) THEN "min" ELSE ""

PressTitleBar(s, i, p) ==
    LET b == TitleButton(s.win[i], p)
        t == raise([s EXCEPT !.win[i] = Float(@, p)], i)
    IN  CASE b = "close" -> close_window(s, i)
          [] b = "max" -> [s EXCEPT !.win[i] = toggle_maximize(@)]
          [] b = "min" -> minimize_window(s, i)
          [] OTHER -> [t EXCEPT !.drag = {<<i, p[1] - t.win[i].r[1], p[2] - t.win[i].r[2]>>}]

PressDesktop(s, p) ==
    LET dock == dock_item_at(p)
        bar == titlebar_at(s, p)
        body == window_at(s, p)
    IN  IF p[2] < menubar_h THEN [s EXCEPT !.menu = menubar_item_at(p)]
        ELSE IF dock # {} THEN on_dock_item_click(s, DockApps[CHOOSE k \in dock: TRUE])
        ELSE IF bar # {} THEN PressTitleBar(s, CHOOSE i \in bar: TRUE, p)
        ELSE IF body # {} THEN raise(s, CHOOSE i \in body: TRUE)
        ELSE s

(* An open menu takes the press: an item or the title closes it, a press     *)
(* elsewhere closes it and counts.                                           *)
on_left_press(s, p) ==
    IF dropdown_item_at(s, p) \/ (s.menu /\ menubar_item_at(p)) THEN [s EXCEPT !.menu = FALSE]
    ELSE PressDesktop([s EXCEPT !.menu = FALSE], p)

DragTo(s, p) ==
    LET d == CHOOSE d \in s.drag: TRUE
        r == s.win[d[1]].r
    IN  [s EXCEPT !.win[d[1]].r = <<clamp(p[1] - d[2], 0, ScreenW - r[3]),
                                    clamp(p[2] - d[3], 0, desktop_h - r[4]), r[3], r[4]>>]

on_drag_release_at(s, p) ==
    LET i == (CHOOSE d \in s.drag: TRUE)[1]
        target == detect_snap_target(p)
        w == IF target = {} THEN s.win[i] ELSE snap_window(s.win[i], CHOOSE t \in target: TRUE)
    IN  [s EXCEPT !.win[i] = w, !.drag = {}]

(* apply_mouse: one report of the pointer's place and its left button.       *)
apply_mouse(p, left) ==
    LET down == left /\ ~pressed /\ wm.drag = {}
        s == IF down THEN on_left_press(wm, p) ELSE wm
        t == IF left /\ s.drag # {} THEN DragTo(s, p) ELSE s
        u == IF ~left /\ pressed /\ t.drag # {} THEN on_drag_release_at(t, p) ELSE t
    IN  /\ down => presses < MaxPresses
        /\ presses' = IF down THEN presses + 1 ELSE presses
        /\ wm' = u
        /\ pressed' = left
        /\ floated' = [i \in Windows |->
                         IF u.win[i].snap = "Normal" THEN u.win[i].r
                         ELSE IF t.win[i].snap = "Normal" THEN t.win[i].r ELSE floated[i]]

WmInit ==
    /\ wm = [win |-> [i \in Windows |-> [r |-> Placed[i], pre |-> Placed[i], snap |-> "Normal",
                                        open |-> TRUE, min |-> FALSE, label |-> i]],
             z |-> [i \in Windows |-> i], drag |-> {}, menu |-> FALSE]
    /\ pressed = FALSE
    /\ presses = 0
    /\ floated = Placed

Mouse == \E p \in Points, left \in BOOLEAN: apply_mouse(p, left)
WmNext == Mouse
WmSpec == WmInit /\ [][WmNext]_wmVars

-----------------------------------------------------------------------------
(* A snapped window remembers the rectangle it last had while it floated,    *)
(* through snaps from one edge to another, the maximise button, minimising,  *)
(* closing and reopening: restoring it brings that rectangle back.           *)
PreSnapIsLastFloating ==
    \A i \in Windows: wm.win[i].snap # "Normal" => wm.win[i].pre = floated[i]
=============================================================================
