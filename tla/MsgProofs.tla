----------------------------- MODULE MsgProofs -----------------------------
(***************************************************************************)
(* Proofs about the messages of module Ipc: MsgInv is inductive, and every *)
(* inbox delivers once and in order, for every number of processes, names, *)
(* slots and senders.                                                      *)
(***************************************************************************)
EXTENDS Ipc, FiniteSetTheorems, TLAPS

-----------------------------------------------------------------------------
(* Min() of a set of natural numbers.                                      *)
LEMMA LeastNumber ==
    ASSUME NEW S \in SUBSET Nat, S # {}
    PROVE  Min(S) \in S /\ \A y \in S : Min(S) <= y
<1> DEFINE R == {ss \in Nat \X Nat : ss[1] < ss[2]}
<1>0. IsWellFoundedOn(R, Nat)
  BY NatLessThanWellFounded, Zenon DEF OpToRel
<1>1. \E x \in S : \A y \in S : <<y, x>> \notin R
  <2> HIDE DEF R
  <2> QED BY <1>0, WFMin, Zenon
<1>2. ASSUME NEW x \in S, NEW y \in S, <<y, x>> \notin R
      PROVE  x <= y
  <2>1. ~(y < x)
    BY <1>2, Zenon
  <2> QED BY <2>1
<1>3. \E x \in S : \A y \in S : x <= y
  BY <1>1, <1>2, Zenon
<1> QED BY <1>3, Zenon DEF Min

(* The slots of an inbox.                                                  *)
LEMMA InboxFacts ==
    ASSUME ConstantsOK, NEW b \in Inboxes
    PROVE  /\ b # NoInbox /\ b.in_use
           /\ b.count \in Nat /\ b.next_seq \in Nat /\ b.delivered \in Nat
           /\ Used(b) \subseteq 1..QueueDepth /\ IsFiniteSet(Used(b))
           /\ Cardinality(Used(b)) \in Nat
           /\ b.slots \in [1..QueueDepth -> {Free} \cup Messages]
           /\ \A i \in Used(b) : b.slots[i] \in Messages /\ Kind(b.slots[i]) \in Kinds
<1>1. b # NoInbox /\ b.in_use
  <2>1. b.in_use = TRUE
    BY Zenon DEF Inboxes
  <2>2. NoInbox.in_use = FALSE
    BY Zenon DEF NoInbox
  <2> QED BY <2>1, <2>2, Zenon
<1>2. /\ b.count \in Nat /\ b.next_seq \in Nat /\ b.delivered \in Nat
      /\ b.slots \in [1..QueueDepth -> {Free} \cup Messages]
  BY Zenon DEF Inboxes
<1>3. IsFiniteSet(1..QueueDepth)
  BY FS_Interval DEF ConstantsOK
<1>4. Used(b) \subseteq 1..QueueDepth /\ IsFiniteSet(Used(b)) /\ Cardinality(Used(b)) \in Nat
  BY <1>3, FS_Subset, FS_CardinalityType, Zenon DEF Used
<1>5. ASSUME NEW i \in Used(b)
      PROVE  b.slots[i] \in Messages /\ Kind(b.slots[i]) \in Kinds
  <2>1. Free.used = FALSE
    BY Zenon DEF Free
  <2>2. b.slots[i] \in Messages
    BY <1>2, <2>1, Zenon DEF Used
  <2> QED BY Zenon, <2>2 DEF Messages, Kind, Kinds
<1> QED BY <1>1, <1>2, <1>4, <1>5, Zenon

(* An open inbox is an inbox.                                              *)
LEMMA OpenFacts ==
    ASSUME ConstantsOK, MsgInv, NEW p \in Pids
    PROVE  Open(p) <=> inbox[p] \in Inboxes
BY InboxFacts DEF MsgInv, Open, NoInbox

(* What a step that replaces one inbox has to show.                        *)
LEMMA OneInbox ==
    ASSUME ConstantsOK, MsgInv, NEW p \in Pids, NEW b \in Inboxes, NEW g \in [Kinds -> Int],
           inbox' = [inbox EXCEPT ![p] = b], lastGot' = [lastGot EXCEPT ![p] = g],
           service' = service, InboxOk(b, g)
    PROVE  MsgInv'
<1>1. inbox' \in [Pids -> {NoInbox} \cup Inboxes] /\ lastGot' \in [Pids -> [Kinds -> Int]]
  BY Zenon DEF MsgInv
<1>2. inbox'[p] = b /\ lastGot'[p] = g /\ b.in_use
  BY InboxFacts, Zenon DEF MsgInv
<1>3. \A q \in Pids \ {p} : inbox'[q] = inbox[q] /\ lastGot'[q] = lastGot[q]
  BY Zenon DEF MsgInv
<1>4. ASSUME NEW q \in Pids, Open(q)'
      PROVE  InboxOk(inbox'[q], lastGot'[q])
  <2>1. CASE q = p
    BY <1>2, <2>1, Zenon
  <2>2. CASE q # p
    <3>1. inbox'[q] = inbox[q] /\ lastGot'[q] = lastGot[q]
      BY <1>3, <2>2, Zenon
    <3>2. Open(q)
      BY <1>4, <3>1, Zenon DEF Open
    <3> QED BY <3>1, <3>2, Zenon DEF MsgInv
  <2> QED BY <2>1, <2>2, Zenon
<1>5. ASSUME NEW n \in Names, service'[n] # 0
      PROVE  Open(service[n])'
  BY <1>2, <1>3, <1>5, Zenon DEF MsgInv, Open
<1> QED BY <1>1, <1>4, <1>5, Zenon DEF MsgInv, NamesOf

(* Changing the policy or the allowlist touches no message.                *)
LEMMA SameMessages ==
    ASSUME NEW b \in Inboxes, NEW c \in Inboxes, NEW g, InboxOk(b, g),
           c.slots = b.slots, c.count = b.count, c.next_seq = b.next_seq, c.delivered = b.delivered
    PROVE  InboxOk(c, g)
<1>1. Used(c) = Used(b)
  BY Zenon DEF Used
<1>2. \A q : HeldIn(c, q) = HeldIn(b, q)
  BY <1>1, Zenon DEF HeldIn
<1> QED BY <1>1, <1>2, Zenon DEF InboxOk

-----------------------------------------------------------------------------
(* MSG_OPEN, SVC_ALLOW, SVC_DENY and SVC_POLICY.                           *)
LEMMA OpenInv ==
    ASSUME ConstantsOK, MsgInv, NEW p \in Pids, NEW policy \in Policies, MsgOpen(p, policy)
    PROVE  MsgInv'
<1> DEFINE b == NewInbox(policy)
<1>1. b \in Inboxes /\ b.next_seq = 0 /\ b.count = 0 /\ b.delivered = 0
  BY Zenon DEF NewInbox, Inboxes
<1>2. Used(b) = {}
  BY Zenon DEF Used, NewInbox, Free
<1>3. NoneGot \in [Kinds -> Int] /\ \A k \in Kinds : NoneGot[k] < 0
  BY DEF NoneGot
<1>4. InboxOk(b, NoneGot)
  <2> HIDE DEF b
  <2>1. \A q : HeldIn(b, q) = {}
    BY <1>2, Zenon DEF HeldIn
  <2>2. Cardinality({}) = 0 /\ MaxPerSender \in Nat
    BY FS_EmptySet, Zenon DEF ConstantsOK
  <2> QED BY <1>1, <1>2, <1>3, <2>1, <2>2 DEF InboxOk
<1> HIDE DEF b
<1> QED BY <1>1, <1>3, <1>4, OneInbox, Zenon DEF MsgOpen, b

(* set_policy(), allow() and deny() leave the messages of every inbox and  *)
(* its counters as they are.                                               *)
LEMMA SettingsInv ==
    ASSUME ConstantsOK, MsgInv, NEW p \in Pids,
           \/ \E policy \in Policies : SetPolicy(p, policy)
           \/ \E q \in Pids : Allow(p, q) \/ Deny(p, q)
    PROVE  MsgInv'
<1>1. inbox[p] \in Inboxes /\ InboxOk(inbox[p], lastGot[p])
  BY OpenFacts, Zenon DEF SetPolicy, Allow, Deny, MsgInv
<1>2. PICK c \in Inboxes :
        /\ inbox' = [inbox EXCEPT ![p] = c]
        /\ c.slots = inbox[p].slots /\ c.count = inbox[p].count
        /\ c.next_seq = inbox[p].next_seq /\ c.delivered = inbox[p].delivered
  <2>1. CASE \E policy \in Policies : SetPolicy(p, policy)
    <3>1. PICK policy \in Policies : SetPolicy(p, policy)
      BY Zenon, <2>1
    <3>2. PICK c : c = [inbox[p] EXCEPT !.policy = policy]
      BY Zenon
    <3>3. /\ c \in Inboxes /\ c.slots = inbox[p].slots /\ c.count = inbox[p].count
          /\ c.next_seq = inbox[p].next_seq /\ c.delivered = inbox[p].delivered
      BY Zenon, <1>1, <3>2 DEF Inboxes
    <3>4. inbox' = [inbox EXCEPT ![p] = c]
      BY <3>1, <3>2, Zenon DEF SetPolicy
    <3> QED BY <3>3, <3>4, Zenon
  <2>2. CASE \E q \in Pids : Allow(p, q)
    <3>1. PICK q \in Pids : Allow(p, q)
      BY Zenon, <2>2
    <3>2. PICK c : c = [inbox[p] EXCEPT !.allow = @ \cup {q}]
      BY Zenon
    <3>3. /\ c \in Inboxes /\ c.slots = inbox[p].slots /\ c.count = inbox[p].count
          /\ c.next_seq = inbox[p].next_seq /\ c.delivered = inbox[p].delivered
      BY Zenon, <1>1, <3>2 DEF Inboxes
    <3>4. inbox' = [inbox EXCEPT ![p] = c]
      BY <3>1, <3>2, Zenon DEF Allow
    <3> QED BY <3>3, <3>4, Zenon
  <2>3. CASE \E q \in Pids : Deny(p, q)
    <3>1. PICK q \in Pids : Deny(p, q)
      BY Zenon, <2>3
    <3>2. PICK c : c = [inbox[p] EXCEPT !.allow = @ \ {q}]
      BY Zenon
    <3>3. /\ c \in Inboxes /\ c.slots = inbox[p].slots /\ c.count = inbox[p].count
          /\ c.next_seq = inbox[p].next_seq /\ c.delivered = inbox[p].delivered
      BY Zenon, <1>1, <3>2 DEF Inboxes
    <3>4. inbox' = [inbox EXCEPT ![p] = c]
      BY <3>1, <3>2, Zenon DEF Deny
    <3> QED BY <3>3, <3>4, Zenon
  <2> QED BY <2>1, <2>2, <2>3, Zenon
<1>3. service' = service /\ lastGot' = [lastGot EXCEPT ![p] = lastGot[p]]
  BY Zenon DEF SetPolicy, Allow, Deny, MsgInv
<1>4. lastGot[p] \in [Kinds -> Int] /\ InboxOk(c, lastGot[p])
  BY <1>1, <1>2, SameMessages, Zenon DEF MsgInv
<1> QED BY <1>2, <1>3, <1>4, OneInbox, Zenon

(* send(): the message goes to a free slot under the next arrival number.  *)
LEMMA EnqueueOk ==
    ASSUME ConstantsOK, NEW b \in Inboxes, NEW g \in [Kinds -> Int], InboxOk(b, g),
           NEW i \in 1..QueueDepth, ~b.slots[i].used,
           NEW m \in Messages, m.seq = b.next_seq,
           Cardinality(HeldIn(b, m.sender)) < MaxPerSender,
           NEW c \in Inboxes, c.slots = [b.slots EXCEPT ![i] = m],
           c.next_seq = b.next_seq + 1, c.count = b.count + 1, c.delivered = b.delivered
    PROVE  InboxOk(c, g)
<1>1. /\ c.slots[i] = m /\ \A j \in 1..QueueDepth \ {i} : c.slots[j] = b.slots[j]
      /\ m.used /\ Kind(m) \in Kinds /\ m.seq \in Nat
  BY Zenon, InboxFacts DEF Messages, Kind, Kinds
<1>2. i \notin Used(b) /\ Used(c) = Used(b) \cup {i}
  BY Zenon, <1>1 DEF Used
<1>3. Cardinality(Used(c)) = Cardinality(Used(b)) + 1
  BY <1>2, InboxFacts, FS_AddElement, Zenon
<1>4. /\ b.count \in Nat /\ b.next_seq \in Nat /\ b.delivered \in Nat /\ \A k \in Kinds : g[k] \in Int
      /\ \A j \in Used(b) : c.slots[j] = b.slots[j] /\ b.slots[j] \in Messages
                            /\ Kind(b.slots[j]) \in Kinds /\ b.slots[j].seq \in Nat
  <2>1. \A j \in Used(b) : b.slots[j] \in Messages /\ Kind(b.slots[j]) \in Kinds
    BY InboxFacts, Zenon
  <2>2. \A x \in Messages : x.seq \in Nat
    BY Zenon DEF Messages
  <2> QED BY <1>1, <1>2, <2>1, <2>2, InboxFacts, Zenon
<1>5. c.next_seq = c.delivered + c.count /\ c.count = Cardinality(Used(c))
  BY <1>3, <1>4 DEF InboxOk
<1>6. ASSUME NEW j \in Used(c)
      PROVE  c.slots[j].seq < c.next_seq /\ c.slots[j].seq > g[Kind(c.slots[j])]
  BY <1>1, <1>2, <1>4 DEF InboxOk
<1>7. ASSUME NEW j \in Used(c), NEW k \in Used(c), c.slots[j].seq = c.slots[k].seq
      PROVE  j = k
  BY <1>1, <1>2, <1>4, <1>7 DEF InboxOk
<1>8. \A k \in Kinds : g[k] < c.next_seq
  BY <1>4 DEF InboxOk
<1>9. ASSUME NEW q \in Pids
      PROVE  Cardinality(HeldIn(c, q)) <= MaxPerSender
  <2>1. IsFiniteSet(HeldIn(b, q)) /\ i \notin HeldIn(b, q)
    BY <1>2, InboxFacts, FS_Subset, Zenon DEF HeldIn
  <2>2. CASE q = m.sender
    <3>1. HeldIn(c, q) = HeldIn(b, q) \cup {i}
      BY <1>1, <1>2, <1>4, <2>2, Zenon DEF HeldIn
    <3>2. Cardinality(HeldIn(c, q)) = Cardinality(HeldIn(b, q)) + 1
      <4>1. Cardinality(HeldIn(b, q) \cup {i}) = Cardinality(HeldIn(b, q)) + 1
        BY <2>1, FS_AddElement, Zenon
      <4> QED BY <3>1, <4>1, Zenon
    <3>3. Cardinality(HeldIn(b, q)) \in Nat
      BY <2>1, FS_CardinalityType, Zenon
    <3> QED BY <2>2, <3>2, <3>3 DEF ConstantsOK
  <2>3. CASE q # m.sender
    <3>1. HeldIn(c, q) = HeldIn(b, q)
      BY <1>1, <1>2, <1>4, <2>3, Zenon DEF HeldIn
    <3> QED BY <3>1, Zenon DEF InboxOk
  <2> QED BY <2>2, <2>3, Zenon
<1> QED BY <1>5, <1>6, <1>7, <1>8, <1>9, Zenon DEF InboxOk

(* send(): the new message goes to the first free slot and takes the next  *)
(* arrival number of the inbox.                                            *)
LEMMA SendInv ==
    ASSUME ConstantsOK, MsgInv, NEW p \in Pids, NEW to \in Pids, NEW ty \in Types,
           NEW tag \in Tags, NEW len \in Lens, Send(p, to, ty, tag, len)
    PROVE  MsgInv'
<1> DEFINE b == inbox[to]
           i == Min(FreeSlots(to))
           m == [used |-> TRUE, sender |-> p, sender_uid |-> Uid[p], mtype |-> ty,
                 tag |-> tag, len |-> len, seq |-> b.next_seq]
           c == [b EXCEPT !.slots[i] = m, !.next_seq = @ + 1, !.count = @ + 1]
<1>1. b \in Inboxes /\ InboxOk(b, lastGot[to]) /\ lastGot[to] \in [Kinds -> Int]
  BY OpenFacts, Zenon DEF Send, MsgInv
<1>2. i \in 1..QueueDepth /\ ~b.slots[i].used
  <2>1. FreeSlots(to) \in SUBSET Nat /\ FreeSlots(to) # {}
    BY DEF FreeSlots, Send
  <2> QED BY <2>1, LeastNumber, Zenon DEF FreeSlots
<1>3. m \in Messages /\ m.seq = b.next_seq /\ m.sender = p
  BY Zenon, <1>1 DEF Messages, Inboxes
<1>4. /\ inbox' = [inbox EXCEPT ![to] = c]
      /\ lastGot' = [lastGot EXCEPT ![to] = lastGot[to]] /\ service' = service
  BY Zenon DEF Send, Enqueue, MsgInv
<1> HIDE DEF m, i
<1>7. Cardinality(HeldIn(b, m.sender)) < MaxPerSender
  BY <1>3, Zenon DEF Send, HeldBy
<1>5. /\ c \in Inboxes /\ c.slots = [b.slots EXCEPT ![i] = m]
      /\ c.next_seq = b.next_seq + 1 /\ c.count = b.count + 1 /\ c.delivered = b.delivered
  <2> HIDE DEF b
  <2>1. [b.slots EXCEPT ![i] = m] \in [1..QueueDepth -> {Free} \cup Messages]
    BY <1>1, <1>3, InboxFacts, Zenon
  <2>2. PICK s : s = [b.slots EXCEPT ![i] = m]
    BY Zenon
  <2>3. c = [b EXCEPT !.slots = s, !.next_seq = @ + 1, !.count = @ + 1]
    BY Zenon, <1>1, <2>2 DEF Inboxes
  <2> HIDE DEF c
  <2>4. PICK k \in Nat, n \in Nat : k = b.count + 1 /\ n = b.next_seq + 1
    <3>1. b.count \in Nat /\ b.next_seq \in Nat
      BY <1>1, InboxFacts, Zenon
    <3> QED BY <3>1
  <2>5. c = [b EXCEPT !.slots = s, !.next_seq = n, !.count = k]
    BY <2>3, <2>4, Zenon
  <2>6. s \in [1..QueueDepth -> {Free} \cup Messages]
    BY <2>1, <2>2, Zenon
  <2>7. c \in Inboxes /\ c.slots = s /\ c.next_seq = n /\ c.count = k /\ c.delivered = b.delivered
    BY Zenon, <1>1, <2>5, <2>6 DEF Inboxes
  <2> QED BY <2>2, <2>4, <2>7, Zenon
<1> HIDE DEF b, c
<1>6. InboxOk(c, lastGot[to])
  BY <1>1, <1>2, <1>3, <1>5, <1>7, EnqueueOk, Zenon
<1> QED BY <1>1, <1>4, <1>5, <1>6, OneInbox, Zenon

(* recv(): the oldest match leaves, and what stays of its kind is younger. *)
LEMMA DequeueOk ==
    ASSUME ConstantsOK, NEW b \in Inboxes, NEW g \in [Kinds -> Int], InboxOk(b, g),
           NEW i \in Used(b),
           \A j \in Used(b) : Kind(b.slots[j]) = Kind(b.slots[i]) => b.slots[i].seq <= b.slots[j].seq,
           NEW c \in Inboxes, c.slots = [b.slots EXCEPT ![i] = Free], c.next_seq = b.next_seq,
           c.count = b.count - 1, c.delivered = b.delivered + 1,
           NEW h, h = [g EXCEPT ![Kind(b.slots[i])] = b.slots[i].seq]
    PROVE  InboxOk(c, h)
<1> DEFINE m == b.slots[i]
<1>1. /\ i \in 1..QueueDepth /\ c.slots[i] = Free /\ ~Free.used
      /\ \A j \in 1..QueueDepth \ {i} : c.slots[j] = b.slots[j]
  <2>1. Free.used = FALSE
    BY Zenon DEF Free
  <2> QED BY <2>1, InboxFacts, Zenon
<1>2. Used(c) = Used(b) \ {i} /\ \A j \in Used(c) : c.slots[j] = b.slots[j] /\ j # i
  BY <1>1, Zenon DEF Used
<1>3. Cardinality(Used(c)) = Cardinality(Used(b)) - 1
  <2>1. IsFiniteSet(Used(b))
    BY InboxFacts, Zenon
  <2>2. Cardinality(Used(b) \ {i}) = Cardinality(Used(b)) - 1
    BY <2>1, FS_RemoveElement, Zenon
  <2> QED BY <1>2, <2>2, Zenon
<1>4. /\ b.count \in Nat /\ b.next_seq \in Nat /\ b.delivered \in Nat /\ \A k \in Kinds : g[k] \in Int
      /\ \A j \in Used(b) : Kind(b.slots[j]) \in Kinds /\ b.slots[j].seq \in Nat
  <2>1. \A j \in Used(b) : b.slots[j] \in Messages /\ Kind(b.slots[j]) \in Kinds
    BY InboxFacts, Zenon
  <2>2. \A x \in Messages : x.seq \in Nat
    BY Zenon DEF Messages
  <2> QED BY <2>1, <2>2, InboxFacts, Zenon
<1>5. /\ h[Kind(m)] = m.seq /\ Kind(m) \in Kinds /\ m.seq \in Nat
      /\ \A k \in Kinds \ {Kind(m)} : h[k] = g[k]
  BY <1>4, Zenon
<1> HIDE DEF m
<1>6. c.next_seq = c.delivered + c.count /\ c.count = Cardinality(Used(c))
  BY <1>3, <1>4 DEF InboxOk
<1>7. ASSUME NEW j \in Used(c)
      PROVE  c.slots[j].seq < c.next_seq /\ c.slots[j].seq > h[Kind(c.slots[j])]
  <2>1. j \in Used(b) /\ j # i /\ c.slots[j] = b.slots[j]
    BY <1>2, Zenon
  <2>2. b.slots[j].seq # m.seq
    BY <2>1, Zenon DEF InboxOk, m
  <2>3. Kind(b.slots[j]) = Kind(m) => m.seq <= b.slots[j].seq
    BY <2>1, Zenon DEF m
  <2>4. b.slots[j].seq < b.next_seq /\ b.slots[j].seq > g[Kind(b.slots[j])]
    BY <2>1, Zenon DEF InboxOk
  <2> QED BY <1>4, <1>5, <2>1, <2>2, <2>3, <2>4
<1>8. \A j, k \in Used(c) : c.slots[j].seq = c.slots[k].seq => j = k
  BY <1>2, Zenon DEF InboxOk
<1>9. \A k \in Kinds : h[k] < c.next_seq
  BY <1>5, Zenon DEF InboxOk, m
<1>10. ASSUME NEW q \in Pids
       PROVE  Cardinality(HeldIn(c, q)) <= MaxPerSender
  <2>1. HeldIn(c, q) \subseteq HeldIn(b, q) /\ IsFiniteSet(HeldIn(b, q))
    BY <1>2, InboxFacts, FS_Subset, Zenon DEF HeldIn
  <2>2. /\ Cardinality(HeldIn(c, q)) \in Nat /\ Cardinality(HeldIn(b, q)) \in Nat
        /\ Cardinality(HeldIn(c, q)) <= Cardinality(HeldIn(b, q))
    BY <2>1, FS_Subset, FS_CardinalityType, Zenon
  <2> QED BY <2>2 DEF InboxOk, ConstantsOK
<1> QED BY <1>6, <1>7, <1>8, <1>9, <1>10, Zenon DEF InboxOk

(* Oldest() is a match, and no match arrived before it.                    *)
LEMMA OldestFacts ==
    ASSUME ConstantsOK, NEW p \in Pids, inbox[p] \in Inboxes,
           NEW found \in SUBSET Used(inbox[p]), found # {}
    PROVE  LET i == Oldest(p, found) IN
           i \in found /\ \A j \in found : inbox[p].slots[i].seq <= inbox[p].slots[j].seq
<1> DEFINE S == {inbox[p].slots[i].seq : i \in found}
<1>1. S \in SUBSET Nat /\ S # {}
  <2>1. \A x \in Messages : x.seq \in Nat
    BY Zenon DEF Messages
  <2> QED BY <2>1, InboxFacts, Zenon
<1>2. Min(S) \in S /\ \A y \in S : Min(S) <= y
  <2> HIDE DEF S
  <2> QED BY <1>1, LeastNumber, Zenon
<1>3. \E i \in found : \A j \in found : inbox[p].slots[i].seq <= inbox[p].slots[j].seq
  BY <1>2, Zenon
<1> QED BY <1>3, Zenon DEF Oldest

(* recv(): the slot of the oldest matching message is emptied, and what is *)
(* left of its kind is younger.                                            *)
LEMMA RecvInv ==
    ASSUME ConstantsOK, MsgInv, NEW p \in Pids, NEW from, NEW ty, NEW tag, NEW cap,
           Recv(p, from, ty, tag, cap)
    PROVE  MsgInv'
<1> DEFINE found == Matches(p, from, ty, tag)
<1>1. PICK b \in Inboxes : b = inbox[p] /\ InboxOk(b, lastGot[p]) /\ lastGot[p] \in [Kinds -> Int]
  BY OpenFacts, Zenon DEF Recv, MsgInv
<1>2. found \in SUBSET Used(b) /\ found # {}
  BY <1>1, Zenon DEF Recv, Matches, Used
<1>3. PICK i : /\ i = Oldest(p, found) /\ i \in found
               /\ \A j \in found : b.slots[i].seq <= b.slots[j].seq
  BY <1>1, <1>2, OldestFacts, Zenon
<1>4. i \in Used(b)
      /\ \A j \in Used(b) : Kind(b.slots[j]) = Kind(b.slots[i]) => b.slots[i].seq <= b.slots[j].seq
  <2>1. i \in Used(b)
    BY <1>2, <1>3, Zenon
  <2>2. ASSUME NEW j \in Used(b), Kind(b.slots[j]) = Kind(b.slots[i])
        PROVE  j \in found
    <3>1. /\ b.slots[j].sender = b.slots[i].sender /\ b.slots[j].mtype = b.slots[i].mtype
          /\ b.slots[j].tag = b.slots[i].tag
      BY Zenon, <2>2 DEF Kind
    <3> QED BY <1>1, <1>3, <3>1, Zenon DEF Matches, Used
  <2> QED BY <1>3, <2>1, <2>2, Zenon
<1>5. PICK s, g : s = [b.slots EXCEPT ![i] = Free]
                  /\ g = [lastGot[p] EXCEPT ![Kind(b.slots[i])] = b.slots[i].seq]
  BY Zenon
<1>6. PICK k \in Nat, d \in Nat : k = b.count - 1 /\ d = b.delivered + 1
  <2>1. b.count \in Nat /\ b.delivered \in Nat /\ b.count = Cardinality(Used(b))
    BY <1>1, InboxFacts, Zenon DEF InboxOk
  <2>2. b.count # 0
    BY <1>4, <2>1, InboxFacts, FS_EmptySet, Zenon
  <2> QED BY <2>1, <2>2
<1>7. PICK c : c = [b EXCEPT !.slots = s, !.count = k, !.delivered = d]
  BY Zenon
<1>8. /\ inbox' = [inbox EXCEPT ![p] = c] /\ lastGot' = [lastGot EXCEPT ![p] = g]
      /\ service' = service
  BY <1>1, <1>3, <1>5, <1>6, <1>7, Zenon DEF Recv, MsgInv
<1>9. s \in [1..QueueDepth -> {Free} \cup Messages] /\ g \in [Kinds -> Int]
  <2>1. Kind(b.slots[i]) \in Kinds /\ b.slots[i].seq \in Int
    <3>1. b.slots[i] \in Messages /\ Kind(b.slots[i]) \in Kinds
      BY <1>4, InboxFacts, Zenon
    <3>2. \A x \in Messages : x.seq \in Int
      BY DEF Messages
    <3> QED BY <3>1, <3>2, Zenon
  <2> QED BY <1>1, <1>5, <2>1, InboxFacts, Zenon
<1>10. /\ c \in Inboxes /\ c.slots = s /\ c.next_seq = b.next_seq
       /\ c.count = k /\ c.delivered = d
  BY Zenon, <1>7, <1>9 DEF Inboxes
<1>11. InboxOk(c, g)
  BY <1>1, <1>4, <1>5, <1>6, <1>10, DequeueOk, Zenon
<1> QED BY <1>8, <1>9, <1>10, <1>11, OneInbox, Zenon

(* The names of a process, and what taking one more or giving some up does *)
(* to their number.                                                        *)
LEMMA FewerNames ==
    ASSUME ConstantsOK, MsgInv, NEW p \in Pids, NamesOf(p)' \subseteq NamesOf(p)
    PROVE  Cardinality(NamesOf(p)') <= MaxNames
<1>1. IsFiniteSet(NamesOf(p)) /\ Cardinality(NamesOf(p)) <= MaxNames
  BY FS_Subset, Zenon DEF NamesOf, ConstantsOK, MsgInv
<1>2. /\ Cardinality(NamesOf(p)') \in Nat /\ Cardinality(NamesOf(p)) \in Nat
      /\ Cardinality(NamesOf(p)') <= Cardinality(NamesOf(p))
  BY <1>1, FS_Subset, FS_CardinalityType, Zenon
<1> QED BY <1>1, <1>2 DEF ConstantsOK

(* drop_process(), at MSG_CLOSE and in the exit path.                      *)
LEMMA DropInv ==
    ASSUME ConstantsOK, MsgInv, NEW p \in Pids, DropProcess(p)
    PROVE  MsgInv'
<1>1. service' \in [Names -> Pids \cup {0}]
  BY Zenon DEF DropProcess, MsgInv
<1>2. NoneGot \in [Kinds -> Int]
  BY DEF NoneGot
<1>3. lastGot' \in [Pids -> [Kinds -> Int]] /\ \A q \in Pids \ {p} : lastGot'[q] = lastGot[q]
  BY <1>2, Zenon DEF DropProcess, MsgInv
<1>4. inbox'[p] = NoInbox /\ ~Open(p)'
  <2>1. NoInbox.in_use = FALSE
    BY Zenon DEF NoInbox
  <2> QED BY <2>1, Zenon DEF DropProcess, Open
<1>5. ASSUME NEW q \in Pids \ {p}, ~Open(q)
      PROVE  inbox'[q] = inbox[q] /\ inbox'[q] \in {NoInbox} \cup Inboxes
  BY <1>5, Zenon DEF DropProcess, MsgInv
<1>6. ASSUME NEW q \in Pids \ {p}, Open(q)
      PROVE  inbox'[q] \in Inboxes /\ Open(q)' /\ InboxOk(inbox'[q], lastGot'[q])
  <2>1. PICK b \in Inboxes : b = inbox[q] /\ InboxOk(b, lastGot[q])
    BY <1>6, OpenFacts, Zenon DEF MsgInv
  <2>2. PICK c : c = [b EXCEPT !.allow = @ \ {p}] /\ inbox'[q] = c
    BY <1>6, <2>1, Zenon DEF DropProcess
  <2>3. /\ c \in Inboxes /\ c.slots = b.slots /\ c.count = b.count
        /\ c.next_seq = b.next_seq /\ c.delivered = b.delivered
    <3>1. PICK a \in SUBSET Pids : a = b.allow \ {p}
      BY <2>1, Zenon DEF Inboxes
    <3>2. c = [b EXCEPT !.allow = a]
      BY <2>2, <3>1, Zenon
    <3> QED BY Zenon, <3>2 DEF Inboxes
  <2>4. InboxOk(c, lastGot[q])
    BY <2>1, <2>3, SameMessages, Zenon
  <2>5. c.in_use
    BY <2>3, InboxFacts, Zenon
  <2> QED BY <1>3, <2>2, <2>3, <2>4, <2>5, Zenon DEF Open
<1>7. inbox' \in [Pids -> {NoInbox} \cup Inboxes]
  <2>1. \A q \in Pids : inbox'[q] \in {NoInbox} \cup Inboxes
    BY <1>4, <1>5, <1>6, Zenon
  <2>2. inbox' = [q \in Pids |-> inbox'[q]]
    BY Zenon DEF DropProcess
  <2> QED BY <2>1, <2>2, Zenon
<1>8. \A q \in Pids : Open(q)' => q # p /\ Open(q) /\ InboxOk(inbox'[q], lastGot'[q])
  BY <1>4, <1>5, <1>6, Zenon DEF Open
<1>9. ASSUME NEW n \in Names, service'[n] # 0
      PROVE  Open(service[n])'
  <2>1. PICK q \in Pids \ {p} : service'[n] = q /\ service[n] = q
    BY <1>9, Zenon DEF DropProcess, MsgInv
  <2>2. Open(q) /\ q # 0
    BY <2>1, Zenon DEF MsgInv, ConstantsOK
  <2> QED BY <1>6, <2>1, <2>2, Zenon DEF Open
<1>10. ASSUME NEW q \in Pids PROVE Cardinality(NamesOf(q)') <= MaxNames
  <2>1. NamesOf(q)' \subseteq NamesOf(q)
    BY Zenon DEF DropProcess, NamesOf, ConstantsOK
  <2> QED BY <2>1, FewerNames, Zenon
<1> QED BY <1>1, <1>3, <1>7, <1>8, <1>9, <1>10, Zenon DEF MsgInv, NamesOf

(* SVC_REGISTER, SVC_UNREGISTER, and a send to a name whose owner is dead. *)
LEMMA NameInv ==
    ASSUME ConstantsOK, MsgInv, UNCHANGED <<inbox, lastGot>>, NEW n \in Names,
           \/ service' = [service EXCEPT ![n] = 0]
           \/ \E p \in Pids : Register(p, n)
    PROVE  MsgInv'
<1>1. CASE service' = [service EXCEPT ![n] = 0]
  <2>1. /\ service' \in [Names -> Pids \cup {0}] /\ service'[n] = 0
        /\ \A k \in Names \ {n} : service'[k] = service[k]
    BY <1>1, Zenon DEF MsgInv
  <2>2. ASSUME NEW q \in Pids PROVE Cardinality(NamesOf(q)') <= MaxNames
    <3>1. NamesOf(q)' \subseteq NamesOf(q)
      BY <2>1, Zenon DEF NamesOf, ConstantsOK
    <3> QED BY <3>1, FewerNames, Zenon
  <2> QED BY <2>1, <2>2, Zenon DEF MsgInv, Open, NamesOf
<1>2. ASSUME NEW p \in Pids, Register(p, n)
      PROVE  MsgInv'
  <2>1. /\ service' \in [Names -> Pids \cup {0}] /\ service'[n] = p /\ Open(p)
        /\ \A k \in Names \ {n} : service'[k] = service[k]
    BY <1>2, Zenon DEF Register, MsgInv
  <2>2. ASSUME NEW q \in Pids PROVE Cardinality(NamesOf(q)') <= MaxNames
    <3>1. CASE q # p
      <4>1. NamesOf(q)' \subseteq NamesOf(q)
        BY <2>1, <3>1, Zenon DEF NamesOf
      <4> QED BY <4>1, FewerNames, Zenon
    <3>2. CASE q = p
      <4>1. NamesOf(q)' = NamesOf(q) \cup {n} /\ IsFiniteSet(NamesOf(q))
        BY <2>1, <3>2, FS_Subset, Zenon DEF NamesOf, ConstantsOK
      <4>2. Cardinality(NamesOf(q)) < MaxNames /\ Cardinality(NamesOf(q)) \in Nat
        BY <1>2, <3>2, <4>1, FS_CardinalityType, Zenon DEF Register
      <4>3. Cardinality(NamesOf(q)') \in {Cardinality(NamesOf(q)), Cardinality(NamesOf(q)) + 1}
        BY <4>1, FS_AddElement, Zenon
      <4> QED BY <4>2, <4>3 DEF ConstantsOK
    <3> QED BY <3>1, <3>2, Zenon
  <2> QED BY <2>1, <2>2, Zenon DEF MsgInv, Open, NamesOf
<1> QED BY <1>1, <1>2, Zenon

(* Every call of the message service, and both hooks.                      *)
LEMMA MsgCallInv ==
    ASSUME ConstantsOK, MsgInv, NEW p \in Pids, MsgCall(p)
    PROVE  MsgInv'
<1>1. CASE \E policy \in Policies : MsgOpen(p, policy)
  BY <1>1, OpenInv, Zenon
<1>2. CASE \/ \E policy \in Policies : SetPolicy(p, policy)
           \/ \E q \in Pids : Allow(p, q) \/ Deny(p, q)
  BY <1>2, SettingsInv, Zenon
<1>3. CASE MsgClose(p)
  BY <1>3, DropInv, Zenon DEF MsgClose
<1>4. CASE \E q \in Pids, ty \in Types, tag \in Tags, len \in Lens : Send(p, q, ty, tag, len)
  BY <1>4, SendInv, Zenon
<1>5. ASSUME NEW n \in Names, NEW ty \in Types, NEW tag \in Tags, NEW len \in Lens,
             SendName(p, n, ty, tag, len)
      PROVE  MsgInv'
  <2>1. CASE Live(service[n])
    BY <1>5, <2>1, SendInv, Zenon DEF SendName, MsgInv
  <2>2. CASE ~Live(service[n])
    BY <1>5, <2>2, NameInv, Zenon DEF SendName
  <2> QED BY <2>1, <2>2, Zenon
<1>6. CASE \E from \in Pids \cup {0}, ty \in Types \cup {0}, tag \in Tags \cup {-1}, cap \in Lens :
             Recv(p, from, ty, tag, cap)
  BY <1>6, RecvInv, Zenon
<1>7. CASE \E n \in Names : Register(p, n) \/ Unregister(p, n)
  BY <1>7, NameInv, Zenon DEF Register, Unregister
<1> QED BY <1>1, <1>2, <1>3, <1>4, <1>5, <1>6, <1>7, Zenon DEF MsgCall

(* MsgInv depends on the variables of the message service only.            *)
LEMMA MsgSame ==
    ASSUME MsgInv, UNCHANGED msgVars
    PROVE  MsgInv'
BY Zenon DEF MsgInv, msgVars, Open, NamesOf

(* Each action of Ipc keeps MsgInv.                                        *)
LEMMA MsgStep ==
    ASSUME ConstantsOK, MsgInv, [IpcNext]_ipcVars
    PROVE  MsgInv'
<1>1. CASE UNCHANGED msgVars
  BY <1>1, MsgSame, Zenon
<1>2. ASSUME NEW p \in Pids, Call(p)
      PROVE  MsgInv'
  BY <1>1, <1>2, MsgCallInv, Zenon DEF Call
<1>3. ASSUME NEW p \in Pids, ExitMsg(p)
      PROVE  MsgInv'
  BY <1>3, DropInv, Zenon DEF ExitMsg
<1> QED BY <1>1, <1>2, <1>3, Zenon DEF IpcNext, ipcVars, ForkShare, ForkRecord, ExitShm, Terminate

(* The empty inboxes of boot satisfy MsgInv.                               *)
LEMMA MsgStart ==
    ASSUME ConstantsOK, MsgInit
    PROVE  MsgInv
<1>1. NoneGot \in [Kinds -> Int]
  BY DEF NoneGot
<1>2. \A p \in Pids : ~Open(p)
  <2>1. NoInbox.in_use = FALSE
    BY Zenon DEF NoInbox
  <2> QED BY <2>1, Zenon DEF Open, MsgInit
<1>3. \A p \in Pids : NamesOf(p) = {}
  BY Zenon DEF NamesOf, MsgInit, ConstantsOK
<1>4. Cardinality({}) <= MaxNames
  BY FS_EmptySet DEF ConstantsOK
<1> QED BY <1>1, <1>2, <1>3, <1>4, Zenon DEF MsgInv, MsgInit

(* A message that send() accepted is received once, or is still queued,    *)
(* and messages of a kind are received in the order of arrival.            *)
THEOREM MessagesDelivered == IpcSpec => []DeliveredOnceInOrder
<1>1. IpcInit => MsgInv
  BY IpcAssumption, MsgStart, Zenon DEF IpcInit
<1>2. MsgInv /\ [IpcNext]_ipcVars => MsgInv'
  BY IpcAssumption, MsgStep, Zenon
<1>3. MsgInv => DeliveredOnceInOrder
  BY Zenon DEF MsgInv, InboxOk, DeliveredOnceInOrder, Queued, UsedSlots
<1> QED BY <1>1, <1>2, <1>3, PTL DEF IpcSpec
=============================================================================
