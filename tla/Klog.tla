-------------------------------- MODULE Klog --------------------------------
(***************************************************************************)
(* The kernel log: the ring of the last KLOG_CAPACITY entries, its queries *)
(* (kernel/rust/klog.rs, under one spinlock, so every call is one step)    *)
(* and the log viewer (userland/klog-rs/klog.rs), which reads it in        *)
(* batches while the kernel keeps logging between two of its system calls. *)
(***************************************************************************)
EXTENDS Integers, Sequences

CONSTANTS
    Capacity,   \* KLOG_CAPACITY
    MaxCached,  \* MAX_CACHED_ENTRIES
    Batch,      \* QUERY_BATCH_SIZE
    Page,       \* rows of the table, 14 in the code
    Lines,      \* kernel lines that may be logged: [tag, text]
    Severities, \* options of the severity filter tried
    Queries,    \* search presets, sequences of letters; <<>> clears
    MaxLog      \* bound on entries logged

VARIABLES
    ring,     \* [entries, head, tail, count, next, dropped]
    logged,   \* history: every entry ever appended, by sequence number
    view,     \* the viewer
    poll,     \* its poll in progress: [on, start, newest, polled]
    cleared   \* history: the newest entry when the display was cleared last

klVars == <<ring, logged, view, poll, cleared>>

(***************************************************************************)
(* The ring                                                                *)
(***************************************************************************)
Err == 3
Warn == 4
Notice == 5
Info == 6
Debug == 7
AnySev == 8

NoEntry == [seq |-> 0, sev |-> Info, fac |-> "", msg |-> <<>>]

KlogRing(capacity) ==
    [entries |-> [i \in 0 .. capacity - 1 |-> NoEntry],
     head |-> 0, tail |-> 0, count |-> 0, next |-> 1, dropped |-> 0]

Stored(r, e) == [r EXCEPT !.entries[r.head] = e, !.head = (@ + 1) % Capacity, !.next = @ + 1]
appendKeepsTail(r, sev, fac, msg) ==
    LET e == [seq |-> r.next, sev |-> sev, fac |-> fac, msg |-> msg] IN
    IF r.count = Capacity THEN [Stored(r, e) EXCEPT !.dropped = @ + 1]
    ELSE [Stored(r, e) EXCEPT !.count = @ + 1]
append(r, sev, fac, msg) ==
    LET e == [seq |-> r.next, sev |-> sev, fac |-> fac, msg |-> msg] IN
    IF r.count = Capacity
    THEN [Stored(r, e) EXCEPT !.tail = (@ + 1) % Capacity, !.dropped = @ + 1]
    ELSE [Stored(r, e) EXCEPT !.count = @ + 1]

\* rust_klog_log_kernel_line: the tag a line starts with gives its severity and
\* facility; an empty line is not logged.
Classify(tag) ==
    CASE tag \in {"PANIC", "FAULT"} -> <<Err, "kernel">>
      [] tag = "WARN"    -> <<Warn, "kernel">>
      [] tag = ".."      -> <<Notice, "kernel">>
      [] tag = "SYSCALL" -> <<Debug, "syscall">>
      [] tag = "FW"      -> <<Notice, "firewall">>
      [] tag = "sandbox" -> <<Info, "sandbox">>
      [] OTHER           -> <<Info, "kernel">>

\* The entries from the oldest to the newest, and what a query returns: at most
\* max of them that pass the filters, and where to go on.
Listed(r) == [i \in 1 .. r.count |-> r.entries[(r.tail + i - 1) % Capacity]]
Passes(e, start, sev, fac) ==
    /\ start = 0 \/ e.seq >= start
    /\ sev > Debug \/ e.sev <= sev
    /\ fac = "" \/ e.fac = fac
Taken(s, max) == SubSeq(s, 1, IF Len(s) < max THEN Len(s) ELSE max)
read(r, start, sev, fac, max) ==
    LET Pass(e) == Passes(e, start, sev, fac)
        out == Taken(SelectSeq(Listed(r), Pass), max)
    IN  [out |-> out,
         next |-> IF r.count = 0 THEN r.next
                  ELSE IF out # <<>> THEN out[Len(out)].seq + 1
                  ELSE IF start > 0 THEN start ELSE r.next]
Newest(r) == IF r.count > 0 THEN r.entries[(r.head + Capacity - 1) % Capacity].seq ELSE 0

(***************************************************************************)
(* The viewer                                                              *)
(***************************************************************************)
Lower(c) == CASE c = "A" -> "a" [] c = "B" -> "b" [] OTHER -> c
find_ignore_case(hay, needle) ==
    \E i \in 0 .. Len(hay) - Len(needle) :
        \A j \in DOMAIN needle : Lower(hay[i + j]) = Lower(needle[j])

max_severity(option) ==
    CASE option = "All" -> AnySev [] option = "ErrorsOnly" -> Err [] option = "WarningsAbove" -> Warn
      [] option = "InfoAbove" -> Info [] option = "Debug" -> Debug

\* Position 0 of selected is None.
Viewer ==
    [cache |-> <<>>, last |-> 0, newest |-> 0, sev |-> "All", fac |-> "", query |-> <<>>,
     follow |-> TRUE, selected |-> 0, scroll |-> 0]

Filtered(v) ==
    LET Shown(e) == /\ Passes(e, 0, max_severity(v.sev), v.fac)
                    /\ v.query = <<>> \/ find_ignore_case(e.msg, v.query)
    IN  SelectSeq(v.cache, Shown)
Count(v) == Len(Filtered(v))

\* The selection and the scroll position are made to fit the new list.
rebuild_filtered_indices(v) ==
    LET n == Count(v) IN
    [v EXCEPT !.selected = IF @ = 0 \/ @ > n THEN n ELSE @,
              !.scroll = IF v.follow /\ n > 0 THEN (IF n > Page THEN n - Page ELSE 0)
                         ELSE IF @ >= n THEN (IF n > 0 THEN n - 1 ELSE 0) ELSE @]

KlInit ==
    /\ ring = KlogRing(Capacity) /\ logged = <<>>
    /\ view = Viewer /\ poll = [on |-> FALSE, start |-> 0, polled |-> FALSE] /\ cleared = 0

Appended(sev, fac, msg) ==
    /\ ring.next <= MaxLog
    /\ ring' = append(ring, sev, fac, msg)
    /\ logged' = Append(logged, [seq |-> ring.next, sev |-> sev, fac |-> fac, msg |-> msg])

rust_klog_log_kernel_line ==
    /\ \E l \in Lines : Appended(Classify(l.tag)[1], Classify(l.tag)[2], l.text)
    /\ UNCHANGED <<view, poll, cleared>>

\* poll_entries: the telemetry first, then batches until one is short or
\* reaches the newest entry the telemetry knew.
poll_entries(v) ==
    /\ view' = [v EXCEPT !.newest = Newest(ring)]
    /\ poll' = [on |-> TRUE, start |-> IF v.cache = <<>> THEN 0 ELSE v.last, polled |-> FALSE]

StartPoll == ~poll.on /\ poll_entries(view) /\ UNCHANGED <<ring, logged, cleared>>

\* The cache drops its oldest entries when it is full.
Cached(c, new) ==
    LET all == c \o new IN
    IF Len(all) > MaxCached THEN SubSeq(all, Len(all) - MaxCached + 1, Len(all)) ELSE all

PollBatch ==
    /\ poll.on
    /\ LET q == read(ring, poll.start, AnySev, "", Batch)
           more == q.out # <<>>
           v == IF more THEN [view EXCEPT !.cache = Cached(@, q.out), !.last = q.next] ELSE view
           on == Len(q.out) = Batch /\ q.next <= view.newest
       IN  /\ poll' = [on |-> on, start |-> IF on THEN q.next ELSE 0, polled |-> on]
           /\ view' = IF ~on /\ (more \/ poll.polled) THEN rebuild_filtered_indices(v) ELSE v
    /\ UNCHANGED <<ring, logged, cleared>>

\* The marker goes through SYS_KLOG_WRITE and is polled back at once.
inject_marker ==
    /\ ~poll.on /\ Appended(Notice, "admin", <<"m">>)
    /\ LET r == ring' IN
       /\ view' = [view EXCEPT !.newest = Newest(r)]
       /\ poll' = [on |-> TRUE, start |-> IF view.cache = <<>> THEN 0 ELSE view.last, polled |-> FALSE]
    /\ UNCHANGED cleared

clear_view ==
    /\ ~poll.on
    /\ view' = rebuild_filtered_indices([view EXCEPT !.cache = <<>>, !.last = view.newest + 1])
    /\ cleared' = view.newest
    /\ UNCHANGED <<ring, logged, poll>>

\* The severity pills, the facility chips, the search presets.
SetFilter ==
    \/ \E o \in Severities : view' = rebuild_filtered_indices([view EXCEPT !.sev = o])
    \/ \E f \in {"", "kernel"} : view' = rebuild_filtered_indices([view EXCEPT !.fac = f])
    \/ \E q \in Queries : view' = rebuild_filtered_indices([view EXCEPT !.query = q])

\* auto_refresh only says whether StartPoll comes by itself or by the Refresh
\* button; the click that turns it on also follows the tail.
ToggleLive == view' = [view EXCEPT !.follow = TRUE]

select_next ==
    /\ Count(view) > 0
    /\ view' = [view EXCEPT !.follow = FALSE,
           !.selected = IF @ = 0 THEN 1 ELSE IF @ < Count(view) THEN @ + 1 ELSE @,
           !.scroll = IF view.selected = 0 THEN 0
                      ELSE IF view.selected < Count(view) /\ view.selected >= @ + Page
                      THEN view.selected + 1 - Page ELSE @]
select_prev ==
    /\ Count(view) > 0
    /\ view' = [view EXCEPT !.follow = FALSE,
           !.selected = IF @ <= 1 THEN 1 ELSE @ - 1,
           !.scroll = IF view.selected = 0 THEN 0
                      ELSE IF view.selected > 1 /\ view.selected - 2 < @ THEN view.selected - 2 ELSE @]

Least(a, b) == IF a < b THEN a ELSE b
MaxScroll(v) == IF Count(v) > Page THEN Count(v) - Page ELSE 0
scroll_page_down ==
    /\ Count(view) > 0
    /\ view' = [view EXCEPT !.follow = FALSE, !.scroll = Least(@ + Page, MaxScroll(view)),
                            !.selected = IF @ = 0 THEN 0 ELSE Least(@ + Page, Count(view))]
scroll_page_up ==
    view' = [view EXCEPT !.follow = FALSE, !.scroll = IF @ >= Page THEN @ - Page ELSE 0,
                         !.selected = IF @ = 0 THEN 0 ELSE IF @ > Page THEN @ - 1 ELSE 1]

\* A click on a row of the table, or on the scroll bar.
ClickRow == \E row \in 0 .. Page - 1 :
    /\ view.scroll + row < Count(view)
    /\ view' = [view EXCEPT !.selected = view.scroll + row + 1, !.follow = FALSE]
ClickScrollBar == \E frac \in 0 .. Count(view) :
    view' = [view EXCEPT !.scroll = Least(frac, MaxScroll(view)), !.follow = FALSE]

handle_input ==
    /\ ~poll.on /\ UNCHANGED <<ring, logged, poll, cleared>>
    /\ \/ SetFilter \/ ToggleLive \/ select_next \/ select_prev
       \/ scroll_page_down \/ scroll_page_up \/ ClickRow \/ ClickScrollBar

KlNext ==
    \/ rust_klog_log_kernel_line \/ StartPoll \/ PollBatch \/ inject_marker \/ clear_view \/ handle_input
KlSpec == KlInit /\ [][KlNext]_klVars

(***************************************************************************)
(* Properties                                                              *)
(***************************************************************************)
\* Following the log, the viewer gets every entry once and in order: two entries
\* next to each other in its cache have nothing between them but entries the ring
\* had already overwritten when it asked (a gap no longer than what was dropped),
\* and each is the entry that was logged under its number.  Between
\* polls the selection and the scroll position name a row of the filtered list.
FollowsTheLog ==
    LET c == view.cache IN
    /\ \A i \in DOMAIN c : c[i] = logged[c[i].seq]
    /\ \A i \in 1 .. Len(c) - 1 :
           /\ c[i].seq < c[i + 1].seq
           /\ c[i + 1].seq > c[i].seq + 1 => c[i + 1].seq - 1 <= ring.dropped
    /\ c # <<>> => view.last = c[Len(c)].seq + 1
    /\ ~poll.on => /\ view.selected <= Count(view)
                   /\ view.scroll < Count(view) \/ view.scroll = 0

\* Once the display was cleared only entries logged afterwards are shown.
ClearedStayHidden == \A i \in DOMAIN view.cache : view.cache[i].seq > cleared
=============================================================================
