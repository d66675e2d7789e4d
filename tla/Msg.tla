-------------------------------- MODULE Msg --------------------------------
(***************************************************************************)
(* Message passing (kernel/rust/msg.rs): one inbox per process, a table of *)
(* service names, and the calls open, close, send, recv, service, allow    *)
(* and set_policy, each made under the one STATE spinlock and so one step. *)
(*                                                                         *)
(* A message keeps what the code compares: sender, sender's uid, type, tag,*)
(* length and arrival number.  The slot array is a function from slot      *)
(* numbers, because a message goes to the first free slot while reception  *)
(* is by arrival number.  The counter `refused' is a statistic only stat() *)
(* reports and is left out; a call that returns an error and changes       *)
(* nothing is no step at all.                                              *)
(***************************************************************************)
EXTENDS Proc, Integers, FiniteSets, FiniteSetsExt

CONSTANTS
  Names,          \* service names that valid_name() accepts
  Uid,            \* Uid[p]: the user a process runs as; 0 is the superuser
  Types,          \* message types (0 means "any" in a receive filter)
  Tags,           \* message tags
  QueueDepth,     \* QUEUE_DEPTH
  MaxPerSender,   \* MAX_PER_SENDER
  MaxInboxes,     \* MAX_INBOXES
  MaxServices,    \* MAX_SERVICES
  MaxNames,       \* MAX_NAMES_PER_PROC
  MaxAllow,       \* MAX_ALLOW
  MaxSeq          \* bound on the arrival numbers one inbox hands out (the
                  \* code's u32 `delivered' wraps only after 2^32 of them)

VARIABLES
  inbox,          \* inbox[p]: the inbox of p, or NoInbox
  service,        \* service[n]: the pid that owns the name, 0 when free
  lastGot         \* history: arrival number last taken from p's inbox, per kind

msgVars == <<inbox, service, lastGot>>

ACCEPT_ANY == 0
ACCEPT_SAME_UID == 1
ACCEPT_ALLOWLIST == 2
Policies == ACCEPT_ANY .. ACCEPT_ALLOWLIST

Free == [used |-> FALSE]
NoInbox == [in_use |-> FALSE]
\* A message is of a kind: messages of one kind are matched by the same filters.
Kinds == Pids \X Types \X Tags
Kind(m) == <<m.sender, m.mtype, m.tag>>
NoneGot == [k \in Kinds |-> -1]

\* EMPTY_INBOX with the fields open() sets.
NewInbox(policy) ==
  [in_use |-> TRUE, policy |-> policy, allow |-> {}, count |-> 0,
   next_seq |-> 0, delivered |-> 0, slots |-> [i \in 1..QueueDepth |-> Free]]

MsgInit ==
  /\ inbox = [p \in Pids |-> NoInbox]
  /\ service = [n \in Names |-> 0]
  /\ lastGot = [p \in Pids |-> NoneGot]

Open(p) == inbox[p].in_use
Used(b) == {i \in 1..QueueDepth : b.slots[i].used}
UsedSlots(p) == Used(inbox[p])
Queued(p) == {inbox[p].slots[i] : i \in UsedSlots(p)}
NamesOf(p) == {n \in Names : service[n] = p}

---------------------------------------------------------------------------
MsgOpen(p, policy) ==
  /\ ~Open(p)
  /\ Cardinality({q \in Pids : Open(q)}) < MaxInboxes
  /\ inbox' = [inbox EXCEPT ![p] = NewInbox(policy)]
  /\ lastGot' = [lastGot EXCEPT ![p] = NoneGot]
  /\ UNCHANGED service

\* drop_process forgets to release the names (for a mutation).
DropKeepsNames(p) ==
  /\ service' = service
  /\ inbox' = [q \in Pids |-> IF q = p THEN NoInbox
                ELSE IF Open(q) THEN [inbox[q] EXCEPT !.allow = @ \ {p}]
                ELSE inbox[q]]
  /\ lastGot' = [lastGot EXCEPT ![p] = NoneGot]

\* drop_process: the names, the inbox with its messages, and the places in
\* other allowlists.
DropProcess(p) ==
  /\ service' = [n \in Names |-> IF service[n] = p THEN 0 ELSE service[n]]
  /\ inbox' = [q \in Pids |-> IF q = p THEN NoInbox
                ELSE IF Open(q) THEN [inbox[q] EXCEPT !.allow = @ \ {p}]
                ELSE inbox[q]]
  /\ lastGot' = [lastGot EXCEPT ![p] = NoneGot]

MsgClose(p) == Open(p) /\ DropProcess(p)

\* What the policy of to's inbox says of a sender.
Accepts(to, from) ==
  CASE inbox[to].policy = ACCEPT_SAME_UID -> Uid[from] \in {Uid[to], 0}
    [] inbox[to].policy = ACCEPT_ALLOWLIST -> from \in inbox[to].allow
    [] OTHER -> TRUE

FreeSlots(p) == {i \in 1..QueueDepth : ~inbox[p].slots[i].used}
HeldIn(b, from) == {i \in Used(b) : b.slots[i].sender = from}
HeldBy(p, from) == Cardinality(HeldIn(inbox[p], from))

\* Delivery: the first free slot, stamped with the inbox's next arrival number.
Enqueue(from, to, mtype, tag, len) ==
  LET b == inbox[to]
      m == [used |-> TRUE, sender |-> from, sender_uid |-> Uid[from], mtype |-> mtype,
            tag |-> tag, len |-> len, seq |-> b.next_seq]
  IN inbox' = [inbox EXCEPT ![to] =
       [b EXCEPT !.slots[Min(FreeSlots(to))] = m, !.next_seq = @ + 1, !.count = @ + 1]]

\* send() to a pid.
Send(from, to, mtype, tag, len) ==
  /\ mtype # 0
  /\ Live(to)
  /\ Open(to)
  /\ Accepts(to, from)
  /\ FreeSlots(to) # {} /\ HeldBy(to, from) < MaxPerSender
  /\ inbox[to].next_seq < MaxSeq
  /\ Enqueue(from, to, mtype, tag, len)
  /\ UNCHANGED <<service, lastGot>>

\* send() to a name: a name whose owner died is dropped and ENOENT returned.
SendName(from, n, mtype, tag, len) ==
  /\ service[n] # 0
  /\ IF Live(service[n]) THEN Send(from, service[n], mtype, tag, len)
     ELSE /\ service' = [service EXCEPT ![n] = 0]
          /\ UNCHANGED <<inbox, lastGot>>

\* The slots a receive filter matches; 0 stands for "any" sender or type, -1
\* for a receive without RECV_MATCH_TAG.
Matches(p, sender, mtype, tag) ==
  {i \in 1..QueueDepth :
     LET m == inbox[p].slots[i] IN
       /\ m.used
       /\ sender \in {0, m.sender}
       /\ mtype \in {0, m.mtype}
       /\ tag \in {-1, m.tag}}

\* The first matching slot instead of the oldest message (for a mutation).
FirstMatch(p, found) == Min(found)

\* The oldest match: the smallest arrival number.
Oldest(p, found) ==
  CHOOSE i \in found : \A j \in found : inbox[p].slots[i].seq <= inbox[p].slots[j].seq

\* recv() with a buffer of `cap' and without RECV_PEEK: a message longer than
\* the buffer stays queued (E2BIG), and a peek changes nothing.
Recv(p, sender, mtype, tag, cap) ==
  /\ Open(p)
  /\ Matches(p, sender, mtype, tag) # {}
  /\ LET i == Oldest(p, Matches(p, sender, mtype, tag))
         m == inbox[p].slots[i]
     IN /\ m.len <= cap
        /\ inbox' = [inbox EXCEPT ![p].slots[i] = Free,
                                  ![p].count = @ - 1, ![p].delivered = @ + 1]
        /\ lastGot' = [lastGot EXCEPT ![p][Kind(m)] = m.seq]
  /\ UNCHANGED service

\* SVC_REGISTER; a name of a dead owner is taken over.
Register(p, n) ==
  /\ Open(p)
  /\ service[n] # p
  /\ service[n] # 0 => ~Live(service[n])
  /\ Cardinality(NamesOf(p)) < MaxNames
  /\ service[n] = 0 => Cardinality({k \in Names : service[k] # 0}) < MaxServices
  /\ service' = [service EXCEPT ![n] = p]
  /\ UNCHANGED <<inbox, lastGot>>

Unregister(p, n) ==
  /\ service[n] = p
  /\ service' = [service EXCEPT ![n] = 0]
  /\ UNCHANGED <<inbox, lastGot>>

Allow(p, target) ==
  /\ Open(p)
  /\ target \notin inbox[p].allow
  /\ Cardinality(inbox[p].allow) < MaxAllow
  /\ inbox' = [inbox EXCEPT ![p].allow = @ \cup {target}]
  /\ UNCHANGED <<service, lastGot>>

Deny(p, target) ==
  /\ Open(p)
  /\ target \in inbox[p].allow
  /\ inbox' = [inbox EXCEPT ![p].allow = @ \ {target}]
  /\ UNCHANGED <<service, lastGot>>

SetPolicy(p, policy) ==
  /\ Open(p)
  /\ inbox' = [inbox EXCEPT ![p].policy = policy]
  /\ UNCHANGED <<service, lastGot>>
=============================================================================
