-------------------------------- MODULE Actmon --------------------------------
(***************************************************************************)
(* The Activity Monitor (userland/actmon-rs) over the process information  *)
(* calls of the kernel (kernel/rust/procman.rs).  A refresh is two calls:  *)
(* the totals, then a scan of the process table slot by slot into the      *)
(* monitor's copy.  Processes start and end during the scan and between    *)
(* refreshes; the user filters, sorts and selects rows of the copy.        *)
(***************************************************************************)
EXTENDS Integers, Sequences, FiniteSets, FiniteSetsExt, SequencesExt

CONSTANTS
  Slots,       \* the number of slots of the process table
  MaxEntries,  \* NOVA_PROC_MAX_ENTRIES: the rows a table answer holds
  MaxPid,      \* bound: the pids given out, one after the other
  Programs,    \* what may run: [name, user, cpu, mem], names in order
  Cpus,        \* the CPUs online
  Categories,  \* the filters the user picks: All, Apps, Kernel, Active
  Columns      \* the columns sorted by: Pid, Name, Cpu, Memory

VARIABLES
  procs,   \* the kernel's table: a sequence of slots, each a set of one process
  pids,    \* the last pid given out
  info,    \* the totals of the last refresh: processes and CPU load
  scan,    \* the scan of the table in progress: next slot, rows so far
  rows,    \* the monitor's copy of the table
  ui       \* its filter, sort column and direction, selection, row order

amVars == <<procs, pids, info, scan, rows, ui>>

None == 0
Idle == [pid |-> None, name |-> 0, user |-> FALSE, cpu |-> 70, mem |-> 4]


-----------------------------------------------------------------------------
(* The kernel's calls.                                                     *)

\* rust_proc_get_sysinfo: the load is what the idle task leaves, or without
\* one the busy shares spread over the CPUs.
Load(table) ==
  LET live == UNION Range(table)
      idle == {p \in live : p.name = 0}
      busy == MapThenSumSet(LAMBDA p : p.cpu, live \ idle)
  IN IF idle # {} /\ Idle.cpu > 0 THEN 100 - Idle.cpu ELSE Min({busy \div Cpus, 100})

Totals(table) == [total |-> Cardinality(UNION Range(table)), load |-> Load(table)]

\* rust_proc_get_table: one slot of the scan; unused slots are skipped, and a
\* full answer ends the scan.
Scanned(s) ==
  [at |-> s.at + 1,
   got |-> IF Len(s.got) < MaxEntries THEN s.got \o SetToSeq(procs[s.at]) ELSE s.got]

-----------------------------------------------------------------------------
(* Filtering and sorting.                                                  *)

Matches(e, cat) ==
  CASE cat = "Apps" -> e.user
    [] cat = "Kernel" -> ~e.user
    [] cat = "Active" -> e.cpu > 0
    [] OTHER -> TRUE

Key(e, col) ==
  CASE col = "Pid" -> e.pid
    [] col = "Name" -> e.name
    [] col = "Cpu" -> e.cpu
    [] OTHER -> e.mem

should_swap(a, b, col, dir) ==
  IF dir = "Ascending" THEN Key(a, col) > Key(b, col) ELSE Key(a, col) < Key(b, col)

Swapped(f, i, j) == [f EXCEPT ![i] = f[j], ![j] = f[i]]

\* One bubble pass: only neighbours are compared.
Neighbours(n) == [i \in 1..(n - 1) |-> <<i, i + 1>>]

\* The pairs of rows an exchange sort compares, in order.
Pairs(n) == FlattenSeq([i \in 1..n |-> [k \in 1..(n - i) |-> <<i, i + k>>]])

\* sort_filtered_indices: every row is compared with each later one, and the
\* indices, not the rows, are exchanged.
sort_filtered_indices(f, table, col, dir) ==
  FoldLeft(LAMBDA g, p : IF should_swap(table[g[p[1]]], table[g[p[2]]], col, dir)
                         THEN Swapped(g, p[1], p[2]) ELSE g,
           f, Pairs(Len(f)))

\* rebuild_filtered_indices: the rows that match, sorted; the first is selected
\* when nothing is.
rebuild_filtered_indices(u, table) ==
  LET f == sort_filtered_indices(
             SelectSeq([i \in 1..Len(table) |-> i], LAMBDA i : Matches(table[i], u.cat)),
             table, u.col, u.dir)
  IN [u EXCEPT !.order = f,
               !.sel = IF u.sel = {} /\ f # <<>> THEN {table[f[1]].pid} ELSE u.sel]

AmInit ==
  /\ procs = <<{Idle}>> \o [i \in 1..(Slots - 1) |-> {}]
  /\ pids = 0
  /\ info = Totals(procs)
  /\ scan = [at |-> 1, got |-> <<>>]
  /\ rows = <<>>
  /\ ui = [cat |-> "All", col |-> "Cpu", dir |-> "Descending", sel |-> {},
           order |-> <<>>]

-----------------------------------------------------------------------------
(* The machine.                                                            *)

Spawn ==
  /\ pids < MaxPid /\ pids' = pids + 1
  /\ \E i \in 2..Slots, prog \in Programs :
       /\ procs[i] = {}
       /\ procs' = [procs EXCEPT ![i] = {[pid |-> pids', name |-> prog.name,
                                         user |-> prog.user, cpu |-> prog.cpu, mem |-> prog.mem]}]
  /\ UNCHANGED <<info, scan, rows, ui>>

Exit ==
  /\ \E i \in 2..Slots : procs[i] # {} /\ procs' = [procs EXCEPT ![i] = {}]
  /\ UNCHANGED <<pids, info, scan, rows, ui>>

-----------------------------------------------------------------------------
(* The monitor.                                                            *)

Scanning == scan.at > 1

\* refresh_from_kernel: the totals, then the scan, whose first slot is read at
\* once; a live monitor refreshes by itself, a paused one when asked.
StartRefresh ==
  /\ ~Scanning
  /\ info' = Totals(procs)
  /\ scan' = Scanned(scan)
  /\ UNCHANGED <<procs, pids, rows, ui>>

ScanSlot ==
  /\ Scanning /\ scan.at <= Slots
  /\ scan' = Scanned(scan)
  /\ UNCHANGED <<procs, pids, info, rows, ui>>

\* The end of the refresh: the copy is replaced and the rows are filtered and
\* sorted again.
EndRefresh ==
  /\ scan.at = Slots + 1
  /\ rows' = scan.got
  /\ ui' = rebuild_filtered_indices(ui, rows')
  /\ scan' = [at |-> 1, got |-> <<>>]
  /\ UNCHANGED <<procs, pids, info>>

ClickCategory ==
  /\ ~Scanning
  /\ \E c \in Categories : ui' = rebuild_filtered_indices([ui EXCEPT !.cat = c], rows)
  /\ UNCHANGED <<procs, pids, info, scan, rows>>

\* toggle_sort: the same column turns the direction round, another starts in
\* its own; the rows are sorted again.
toggle_sort(col) ==
  LET dir == IF ui.col = col
             THEN IF ui.dir = "Ascending" THEN "Descending" ELSE "Ascending"
             ELSE IF col \in {"Pid", "Name"} THEN "Ascending" ELSE "Descending"
  IN ui' = [ui EXCEPT !.col = col, !.dir = dir,
                      !.order = sort_filtered_indices(ui.order, rows, col, dir)]

ClickHeader ==
  /\ ~Scanning
  /\ \E col \in Columns : toggle_sort(col)
  /\ UNCHANGED <<procs, pids, info, scan, rows>>

ClickRow ==
  /\ ~Scanning
  /\ \E k \in DOMAIN ui.order : ui' = [ui EXCEPT !.sel = {rows[ui.order[k]].pid}]
  /\ UNCHANGED <<procs, pids, info, scan, rows>>

handle_click == ClickCategory \/ ClickHeader \/ ClickRow

\* selected_entry: the row of the selected pid, when the filter shows one.
selected_entry == {i \in Range(ui.order) : {rows[i].pid} = ui.sel}

AmNext == Spawn \/ Exit \/ StartRefresh \/ ScanSlot \/ EndRefresh \/ handle_click

AmSpec == AmInit /\ [][AmNext]_amVars

-----------------------------------------------------------------------------
(* Properties.                                                             *)

\* The table the user sees (rebuild_filtered_indices, sort_filtered_indices):
\* whatever started or ended during a scan and however the user filtered and
\* sorted between refreshes, the rows shown are exactly the rows of the copy
\* that match the filter, each once, in the order of the sort column, and the
\* inspector describes at most one of them.
RowsOrdered ==
  /\ Len(ui.order) = Cardinality(Range(ui.order))
  /\ Range(ui.order) = {i \in DOMAIN rows : Matches(rows[i], ui.cat)}
  /\ \A k \in 1..(Len(ui.order) - 1) :
       ~should_swap(rows[ui.order[k]], rows[ui.order[k + 1]], ui.col, ui.dir)
  /\ Cardinality(selected_entry) <= 1
=============================================================================
