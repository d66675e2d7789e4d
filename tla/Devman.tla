-------------------------------- MODULE Devman --------------------------------
(***************************************************************************)
(* The device manager (kernel/rust/devman.rs): a query walks the PCI bus   *)
(* and the fixed platform devices into one static table and copies the     *)
(* table to the caller.  Nothing orders the queries of different CPUs, so  *)
(* the steps below interleave: the reset, each device filled in and        *)
(* counted, the count and then the entries copied out.                     *)
(***************************************************************************)
EXTENDS Integers, Sequences, FiniteSets, FiniteSetsExt

CONSTANTS
  Callers,      \* the CPUs that may be in a query
  Pci,          \* the functions on the PCI bus, in enumeration order
  Platform,     \* the platform devices added after them: driver and category
  Capacity      \* NOVA_DEV_MAX_DEVICES

VARIABLES
  table,    \* ENUM_TABLE: the count and the slots
  query,    \* where each caller's query stands
  answer,   \* what each caller's buffer holds
  mixed     \* ghost: callers whose query overlapped another one

dmVars == <<table, query, answer, mixed>>

Entry(driver, category) == [driver |-> driver, category |-> category]
Empty == Entry("none", 0)

Storage == 1
Network == 2
Usb == 3
Display == 4
Audio == 5
System == 7

\* pci_gather_callback: the driver and category of a PCI function, from its
\* class, subclass, programming interface and vendor.
Classify(d) ==
  CASE d.class = 1 /\ d.sub = 8 -> Entry("nvme", Storage)
    [] d.class = 1 /\ d.sub = 1 -> Entry("ata", Storage)
    [] d.class = 1 /\ d.sub \notin {1, 8} ->
         Entry(IF d.vendor = "virtio" THEN "virtio-blk" ELSE "blockdev", Storage)
    [] d.class = 2 /\ d.sub = 0 ->
         Entry(IF d.vendor = "realtek" THEN "rtl8139" ELSE "virtio-net", Network)
    [] d.class = 2 /\ d.sub = 128 -> Entry("wifi", Network)
    [] d.class = 3 ->
         Entry(CASE d.vendor = "bochs" -> "vbe" [] d.vendor = "virtio" -> "virtiogpu"
                 [] OTHER -> "vga", Display)
    [] d.class = 4 -> Entry("ac97", Audio)
    [] d.class = 12 /\ d.sub = 3 -> Entry(IF d.prog = 48 THEN "xhci" ELSE "uhci", Usb)
    [] d.class = 6 /\ d.sub = 0 -> Entry("pci", System)
    [] d.class = 6 /\ d.sub = 1 -> Entry("system", System)
    [] d.class = 6 /\ d.sub \notin {0, 1} -> Entry("acpi", System)
    [] OTHER -> Entry("pci", System)

\* Every device a query adds, in order.
Found == [i \in 1..Len(Pci) |-> Classify(Pci[i])] \o Platform

Whole == SubSeq(Found, 1, Min({Len(Found), Capacity}))

NoAnswer == [n |-> 0, list |-> <<>>]

DmInit ==
  /\ table = [count |-> 0, slots |-> [i \in 1..Capacity |-> Empty]]
  /\ query = [c \in Callers |-> [pc |-> "idle", at |-> 1]]
  /\ answer = [c \in Callers |-> NoAnswer]
  /\ mixed = {}

Busy == {c \in Callers : query[c].pc # "idle"}


Begin(c) ==
  /\ query[c].pc = "idle"
  /\ table' = [table EXCEPT !.count = 0]
  /\ query' = [query EXCEPT ![c] = [pc |-> "fill", at |-> 1]]
  /\ mixed' = IF Busy = {} THEN mixed \ {c} ELSE mixed \cup {c} \cup Busy
  /\ answer' = [answer EXCEPT ![c] = NoAnswer]

\* pci_gather_callback and add_platform: the next device goes into the slot at
\* the count, and nowhere once the table is full.
Fill(c) ==
  /\ query[c].pc = "fill" /\ query[c].at <= Len(Found)
  /\ IF table.count < Capacity
     THEN /\ table' = [table EXCEPT !.slots[table.count + 1] = Found[query[c].at]]
          /\ query' = [query EXCEPT ![c].pc = "count"]
     ELSE query' = [query EXCEPT ![c].at = @ + 1] /\ UNCHANGED table
  /\ UNCHANGED <<answer, mixed>>

Count(c) ==
  /\ query[c].pc = "count"
  /\ table' = [table EXCEPT !.count = @ + 1]
  /\ query' = [query EXCEPT ![c] = [pc |-> "fill", at |-> @.at + 1]]
  /\ UNCHANGED <<answer, mixed>>

CopyCount(c) ==
  /\ query[c].pc = "fill" /\ query[c].at > Len(Found)
  /\ answer' = [answer EXCEPT ![c] = [n |-> table.count, list |-> <<>>]]
  /\ query' = [query EXCEPT ![c].pc = "copy"]
  /\ UNCHANGED <<table, mixed>>

\* The entries up to the count are copied and the rest of the caller's buffer
\* is emptied.  A count that two queries have pushed past the capacity fails
\* the bounds check of the copy, and the kernel panics.
CopyEntries(c) ==
  /\ query[c].pc = "copy"
  /\ IF table.count > Capacity
     THEN query' = [query EXCEPT ![c].pc = "panic"] /\ UNCHANGED answer
     ELSE /\ query' = [query EXCEPT ![c] = [pc |-> "idle", at |-> 1]]
          /\ answer' = [answer EXCEPT ![c].list =
               [i \in 1..answer[c].n |-> IF i <= table.count THEN table.slots[i] ELSE Empty]]
  /\ UNCHANGED <<table, mixed>>

rust_dev_get_devices(c) ==
  /\ \A k \in Callers : query[k].pc # "panic"
  /\ Begin(c) \/ Fill(c) \/ Count(c) \/ CopyCount(c) \/ CopyEntries(c)

DmNext == \E c \in Callers : rust_dev_get_devices(c)

DmSpec == DmInit /\ [][DmNext]_dmVars

\* rust_dev_get_summary: the devices of one category in an answer.
CountOf(c, category) == Cardinality({i \in DOMAIN answer[c].list :
                                       answer[c].list[i].category = category})

\* The categories the summary counts.
Total(c) == MapThenSumSet(LAMBDA k : CountOf(c, k), 1..7)

Answered(c) == query[c].pc = "idle" /\ answer[c] # NoAnswer


\* The module's own claim, "Re-entrant, read-only queries" (devman.rs:14):
\* every query returns the machine's devices, whoever else is querying.
AnswerComplete == \A c \in Callers : Answered(c) => answer[c].list = Whole
=============================================================================
