-------------------------------- MODULE Tcp --------------------------------
(***************************************************************************)
(* The TCP stack (kernel/rust/tcp.rs): the connection table, the socket    *)
(* calls, rust_tcp_handle_packet and rust_tcp_poll.  CONNS' lock makes     *)
(* each critical section one step; a segment decided under it is sent by a *)
(* later step (Transmit), as the code sends it after unlocking.            *)
(*                                                                         *)
(* Deadlines are kept as the ticks left until them.  Byte number b of a    *)
(* stream is written b, so that a buffer shows which bytes it holds.  The  *)
(* peer is an ideal TCP that may send any part of its stream again, at any *)
(* time, with any acknowledgement it has ever been able to give: loss,     *)
(* delay, duplication and reordering are all among its choices.            *)
(***************************************************************************)
EXTENDS Integers, Sequences, SequencesExt, FiniteSets

CONSTANTS
  NSlots,       \* MAX_TCP_CONNS
  MaxBacklog,   \* MAX_BACKLOG
  SendCap, RecvCap, Mss,        \* SEND_BUF_CAP, RECV_BUF_CAP, TCP_MSS
  BaseRto, MaxRto, MaxRetries,  \* BASE_RTO_TICKS, MAX_RTO_TICKS, MAX_RETRIES
  TimeWaitTicks, ConnectTicks,  \* TIME_WAIT_TICKS, connect's own deadline
  SeqSpace,       \* sequence numbers are modulo SeqSpace
  OurIsn, PeerIsn,              \* initial sequence numbers (from the clock, in the code)
  Peers,        \* remote ends
  OurBytes, PeerBytes,          \* bounds on the bytes of each stream
  MaxSockets    \* bound on the sockets the programs open

VARIABLES
  socks,        \* CONNS
  cursor,       \* POLL_CURSOR
  polling,      \* a rust_tcp_poll is between its two critical sections
  pend,         \* segments decided under the lock and not sent yet
  calling,      \* the connect() in progress: its slot (0: none) and ticks left
  held,         \* slots that programs hold a handle to
  opened,       \* sockets opened so far
  role,         \* what the programs of this behaviour do: connect and send, or listen and read
  heard,        \* heard[p]: numbers of our bytes that peer p received (0: our SYN)
  stale         \* history: accept handed out something else than a live connection

tcpVars == <<socks, cursor, polling, pend, calling, held, opened, role, heard, stale>>

Slots == 1..NSlots
Off == -1                      \* rto_deadline = 0: the timer does not run
LocalPort == 80                \* the port of the listener and of bind
Ephemeral == 49152

Add(a, b) == (a + b) % SeqSpace
\* seq_ge, seq_gt: the signed difference of two sequence numbers.
SeqGe(a, b) == (a - b + SeqSpace) % SeqSpace < SeqSpace \div 2
SeqGt(a, b) == a # b /\ SeqGe(a, b)

\* TcpConn::new, with two history fields: bytes written by and read by the program.
NewConn == [in_use |-> FALSE, listener |-> FALSE, state |-> "Closed", port |-> 0, peer |-> "none",
            lid |-> 0, una |-> 0, sent |-> 0, sbuf |-> <<>>, rnext |-> 0, rbuf |-> <<>>,
            rto |-> Off, rtoTicks |-> BaseRto, retr |-> 0, finNeeded |-> FALSE, finSent |-> FALSE,
            finSeq |-> 0, peerFin |-> FALSE, tw |-> 0, backlog |-> <<>>, written |-> 0, got |-> <<>>]

Least(S) == CHOOSE i \in S : \A j \in S : i <= j
LesserOf(a, b) == IF a < b THEN a ELSE b

---------------------------------------------------------------------------
(* Buffers. *)

SendBufWrite(c, n) ==
  LET m == LesserOf(n, SendCap - Len(c.sbuf))
  IN [c EXCEPT !.sbuf = @ \o [k \in 1..m |-> c.written + k], !.written = @ + m]
SendBufConsume(c, n) ==
  [c EXCEPT !.sbuf = SubSeq(@, n + 1, Len(@)), !.sent = IF @ > n THEN @ - n ELSE 0]
RecvBufRead(c, n) ==
  LET m == LesserOf(n, Len(c.rbuf))
  IN [c EXCEPT !.got = @ \o SubSeq(c.rbuf, 1, m), !.rbuf = SubSeq(@, m + 1, Len(@))]
\* recv_buf_write, and recv_next past the bytes that fitted.
RecvBufWrite(c, bytes) ==
  LET m == LesserOf(Len(bytes), RecvCap - Len(c.rbuf))
  IN [c EXCEPT !.rbuf = @ \o SubSeq(bytes, 1, m), !.rnext = Add(@, m)]

---------------------------------------------------------------------------
(* The socket calls. *)

Socket ==
  LET free == {i \in Slots : ~socks[i].in_use}
  IN /\ opened < MaxSockets /\ free # {}
     /\ socks' = [socks EXCEPT ![Least(free)] = [NewConn EXCEPT !.in_use = TRUE]]
     /\ held' = held \cup {Least(free)}
     /\ opened' = opened + 1
     /\ UNCHANGED <<cursor, polling, pend, calling, role, heard, stale>>

PortTaken(port) == \E i \in Slots : socks[i].in_use /\ socks[i].port = port
FreeEphemeral == CHOOSE p \in Ephemeral..(Ephemeral + NSlots) :
                   ~PortTaken(p) /\ \A q \in Ephemeral..(p - 1) : PortTaken(q)

Bind(i, port) ==
  /\ i \in held /\ socks[i].in_use /\ socks[i].state = "Closed" /\ socks[i].port = 0
  /\ port # 0 => ~PortTaken(port)
  /\ socks' = [socks EXCEPT ![i].port = IF port # 0 THEN port ELSE FreeEphemeral]
  /\ UNCHANGED <<cursor, polling, pend, calling, held, opened, role, heard, stale>>

Listen(i) ==
  /\ role = "server" /\ i \in held
  /\ socks[i].in_use /\ socks[i].state = "Closed" /\ socks[i].port # 0
  /\ socks' = [socks EXCEPT ![i].listener = TRUE, ![i].state = "Listen", ![i].backlog = <<>>]
  /\ UNCHANGED <<cursor, polling, pend, calling, held, opened, role, heard, stale>>

\* rust_tcp_accept when it returns a slot (it yields while the backlog is empty),
\* and rust_tcp_accept_nonblock.
Accept(i) ==
  LET id == Head(socks[i].backlog)
  IN /\ i \in held /\ socks[i].in_use /\ socks[i].listener /\ socks[i].state = "Listen"
     /\ socks[i].backlog # <<>>
     /\ socks' = [socks EXCEPT ![i].backlog = Tail(@)]
     /\ held' = held \cup {id}
     /\ stale' = (stale \/ id \in held \/ ~socks[id].in_use \/ socks[id].state # "Established")
     /\ UNCHANGED <<cursor, polling, pend, calling, opened, role, heard>>

Connect(i, p) ==
  /\ role = "client" /\ calling.slot = 0 /\ i \in held
  /\ socks[i].in_use /\ ~socks[i].listener /\ socks[i].state = "Closed" /\ socks[i].peer = "none"
  /\ socks' = [socks EXCEPT ![i] = [@ EXCEPT
       !.port = IF @ = 0 THEN FreeEphemeral ELSE @, !.peer = p, !.una = OurIsn, !.sbuf = <<>>, !.sent = 0,
       !.rnext = 0, !.state = "SynSent", !.rtoTicks = BaseRto, !.retr = 0, !.rto = BaseRto]]
  /\ pend' = pend \cup {<<"syn", i>>}
  /\ calling' = [slot |-> i, left |-> ConnectTicks]
  /\ UNCHANGED <<cursor, polling, held, opened, role, heard, stale>>
\* connect's wait loop when it returns.
ConnectReturn ==
  LET i == calling.slot
  IN /\ i # 0 /\ <<"syn", i>> \notin pend
     /\ \/ socks[i].state # "SynSent" /\ UNCHANGED socks
        \/ socks[i].state = "SynSent" /\ calling.left = 0
           /\ socks' = [socks EXCEPT ![i].state = "Closed"]
     /\ calling' = [slot |-> 0, left |-> 0]
     /\ UNCHANGED <<cursor, polling, pend, held, opened, role, heard, stale>>

Send(i, n) ==
  /\ role = "client" /\ i \in held /\ calling.slot # i /\ socks[i].written + n <= OurBytes
  /\ socks[i].in_use /\ ~socks[i].listener /\ ~socks[i].finNeeded
  /\ socks[i].state \in {"Established", "CloseWait"}
  /\ socks' = [socks EXCEPT ![i] = SendBufWrite(@, n)]
  /\ UNCHANGED <<cursor, polling, pend, calling, held, opened, role, heard, stale>>
Recv(i, n) ==
  /\ i \in held /\ calling.slot # i
  /\ socks[i].in_use /\ ~socks[i].listener /\ socks[i].rbuf # <<>>
  /\ socks' = [socks EXCEPT ![i] = RecvBufRead(@, n)]
  /\ UNCHANGED <<cursor, polling, pend, calling, held, opened, role, heard, stale>>

Close(i) ==
  /\ i \in held /\ calling.slot # i
  /\ held' = held \ {i}
  /\ socks' = CASE ~socks[i].in_use -> socks
                [] socks[i].in_use /\ socks[i].listener ->
                     [j \in Slots |-> IF j = i \/ Contains(socks[i].backlog, j)
                                      THEN [socks[j] EXCEPT !.in_use = FALSE] ELSE socks[j]]
                [] socks[i].in_use /\ ~socks[i].listener /\ socks[i].state \in {"Closed", "SynSent", "SynReceived"} ->
                     [socks EXCEPT ![i].in_use = FALSE]
                [] socks[i].in_use /\ ~socks[i].listener /\ socks[i].state \in {"Established", "CloseWait"} ->
                     [socks EXCEPT ![i].finNeeded = TRUE]
                [] OTHER -> socks
  /\ UNCHANGED <<cursor, polling, pend, calling, opened, role, heard, stale>>

---------------------------------------------------------------------------
(* Incoming segments: seg = [peer, port, flags, seq, ack, data]. *)

\* SynSent and SynReceived: the handshake completes on the acknowledgement of our SYN.
Opened(c, seg) == [c EXCEPT !.una = seg.ack, !.sent = 0, !.state = "Established",
                            !.rtoTicks = BaseRto, !.retr = 0, !.rto = Off]

\* The acknowledgement of an open connection.
TakeAck(c, seg) ==
  LET raw == (seg.ack - c.una + SeqSpace) % SeqSpace
      d == [SendBufConsume(c, LesserOf(raw, Len(c.sbuf))) EXCEPT !.una = seg.ack, !.rtoTicks = BaseRto, !.retr = 0]
      e == IF d.sbuf = <<>> THEN [d EXCEPT !.rto = Off] ELSE d
      next == CASE e.state = "FinWait1" -> "FinWait2" [] e.state = "Closing" -> "TimeWait"
                [] e.state = "LastAck" -> "Closed" [] OTHER -> e.state
  IN IF ~("ACK" \in seg.flags /\ SeqGt(seg.ack, c.una)) THEN c
     ELSE IF ~(e.finSent /\ SeqGe(seg.ack, Add(e.finSeq, 1))) THEN e
     ELSE [e EXCEPT !.state = next, !.rto = Off, !.tw = IF next = "TimeWait" THEN TimeWaitTicks ELSE @,
                    !.in_use = next # "Closed"]
\* Its data, in order only.
TakeData(c, seg) ==
  IF c.in_use /\ seg.data # <<>> /\ seg.seq = c.rnext THEN RecvBufWrite(c, seg.data) ELSE c
\* Its FIN, once everything before it has been taken.
TakesFin(c, seg) == c.in_use /\ "FIN" \in seg.flags /\ Add(seg.seq, Len(seg.data)) = c.rnext
TakeFin(c, seg) ==
  LET next == CASE c.state = "Established" -> "CloseWait" [] c.state = "FinWait1" -> "Closing"
                [] c.state = "FinWait2" -> "TimeWait" [] OTHER -> c.state
  IN IF ~TakesFin(c, seg) THEN c
     ELSE [c EXCEPT !.rnext = Add(@, 1), !.peerFin = TRUE, !.state = next,
                    !.tw = IF next = "TimeWait" THEN TimeWaitTicks ELSE @]

\* The segment applied to the connection it belongs to.
OnConnection(i, seg) ==
  LET c == socks[i]
      acksSyn == "ACK" \in seg.flags /\ seg.ack = Add(c.una, 1)
      l == c.lid
      queued == l # 0 /\ socks[l].in_use /\ socks[l].listener /\ Len(socks[l].backlog) < MaxBacklog
      afterAck == TakeAck(c, seg)
      afterData == TakeData(afterAck, seg)
  IN CASE "RST" \in seg.flags ->
            socks' = [socks EXCEPT ![i].in_use = FALSE] /\ UNCHANGED pend
       [] "RST" \notin seg.flags /\ c.state = "SynSent" ->
            IF acksSyn /\ "SYN" \in seg.flags
            THEN /\ socks' = [socks EXCEPT ![i] = [Opened(c, seg) EXCEPT !.rnext = Add(seg.seq, 1)]]
                 /\ pend' = pend \cup {<<"ack", i>>}
            ELSE UNCHANGED <<socks, pend>>
       [] "RST" \notin seg.flags /\ c.state = "SynReceived" ->
            /\ socks' = IF ~acksSyn THEN socks
                        ELSE IF queued THEN [socks EXCEPT ![i] = Opened(c, seg), ![l].backlog = Append(@, i)]
                        ELSE [socks EXCEPT ![i] = [Opened(c, seg) EXCEPT !.in_use = FALSE]]
            /\ UNCHANGED pend
       [] OTHER ->
            /\ socks' = [socks EXCEPT ![i] = TakeFin(afterData, seg)]
            /\ pend' = IF afterData.rnext # afterAck.rnext \/ TakesFin(afterData, seg)
                       THEN pend \cup {<<"ack", i>>} ELSE pend

\* rust_tcp_handle_packet: the connection of the segment, else a listener for a SYN.
HandlePacket(seg) ==
  LET mine == {i \in Slots : /\ socks[i].in_use /\ ~socks[i].listener
                             /\ socks[i].port = seg.port /\ socks[i].peer = seg.peer}
      ears == {i \in Slots : /\ socks[i].in_use /\ socks[i].listener /\ socks[i].state = "Listen"
                             /\ socks[i].port = seg.port}
      free == {i \in Slots : ~socks[i].in_use}
  IN /\ \/ mine # {} /\ OnConnection(Least(mine), seg) /\ UNCHANGED heard
        \/ /\ mine = {} /\ "SYN" \in seg.flags /\ "ACK" \notin seg.flags /\ ears # {} /\ free # {}
           /\ socks' = [socks EXCEPT ![Least(free)] =
                [NewConn EXCEPT !.in_use = TRUE, !.state = "SynReceived", !.port = seg.port, !.peer = seg.peer,
                   !.lid = Least(ears), !.una = OurIsn, !.rnext = Add(seg.seq, 1), !.rto = BaseRto]]
           /\ pend' = pend \cup {<<"synack", Least(free)>>}
           /\ heard' = [heard EXCEPT ![seg.peer] = {}]   \* a new connection, a new initial number
     /\ UNCHANGED <<cursor, polling, calling, held, opened, role, stale>>

---------------------------------------------------------------------------
(* rust_tcp_poll. *)

SynStates == {"SynSent", "SynReceived"}
\* The housekeeping of one slot.
Housekeep(c) ==
  LET giveUp == c.retr >= MaxRetries
      slower == LesserOf(c.rtoTicks * 2, MaxRto)
  IN CASE ~c.in_use -> c
       [] c.in_use /\ c.state = "TimeWait" -> [c EXCEPT !.in_use = c.tw # 0]
       [] c.in_use /\ c.state \in SynStates /\ c.rto = 0 ->
            IF giveUp THEN [c EXCEPT !.in_use = FALSE]
            ELSE [c EXCEPT !.retr = @ + 1, !.rtoTicks = slower, !.rto = slower]
       [] c.in_use /\ c.state \notin SynStates \cup {"TimeWait"} /\ c.sent > 0 /\ c.rto = 0 ->
            IF giveUp THEN [c EXCEPT !.in_use = FALSE]
            ELSE [c EXCEPT !.sent = 0, !.retr = @ + 1, !.rtoTicks = slower, !.rto = Off]
       [] OTHER -> c

\* First critical section: the slots in order, up to a SYN to send again.
PollExpire ==
  LET again == {i \in Slots : /\ socks[i].in_use /\ socks[i].state \in SynStates
                              /\ socks[i].rto = 0 /\ socks[i].retr < MaxRetries}
      last == IF again = {} THEN NSlots ELSE Least(again)
  IN /\ ~polling
     /\ socks' = [i \in Slots |-> IF i <= last THEN Housekeep(socks[i]) ELSE socks[i]]
     /\ polling' = (again = {})
     /\ pend' = IF again = {} THEN pend
                ELSE pend \cup {<<IF socks[last].state = "SynSent" THEN "syn" ELSE "synack", last>>}
     /\ UNCHANGED <<cursor, calling, held, opened, role, heard, stale>>

\* The peer receives these byte numbers, or the segment is lost.
Delivered(p, numbers) == heard' \in {heard, [heard EXCEPT ![p] = @ \cup numbers]}
Number(c, seq) == (seq - OurIsn + SeqSpace) % SeqSpace

HasData(c) == Len(c.sbuf) > c.sent
HasFin(c) == c.finNeeded /\ ~c.finSent /\ c.sbuf = <<>>
\* Second critical section: one segment, round robin from the cursor.
PollSend ==
  LET active(c) == c.in_use /\ ~c.listener
                   /\ c.state \in {"Established", "CloseWait", "FinWait1", "FinWait2", "Closing", "LastAck"}
      ready == {k \in 0..(NSlots - 1) : LET c == socks[((cursor + k) % NSlots) + 1]
                                        IN active(c) /\ (HasData(c) \/ HasFin(c))}
      i == ((cursor + Least(ready)) % NSlots) + 1
      c == socks[i]
      n == LesserOf(Len(c.sbuf) - c.sent, Mss)
  IN /\ polling /\ polling' = FALSE
     /\ IF ready = {} THEN UNCHANGED <<socks, cursor, heard>>
        ELSE /\ cursor' = i % NSlots
             /\ IF HasData(c)
                THEN /\ socks' = [socks EXCEPT ![i].sent = @ + n, ![i].rto = IF @ = Off THEN c.rtoTicks ELSE @]
                     /\ Delivered(c.peer, {Number(c, Add(c.una, c.sent + k)) : k \in 0..(n - 1)})
                ELSE /\ socks' = [socks EXCEPT ![i] = [c EXCEPT !.finSent = TRUE, !.finSeq = c.una, !.rto = c.rtoTicks,
                          !.state = CASE @ = "Established" -> "FinWait1" [] @ = "CloseWait" -> "LastAck" [] OTHER -> @]]
                     /\ Delivered(c.peer, {Number(c, c.una)})
     /\ UNCHANGED <<pend, calling, held, opened, role, stale>>

\* send_syn, send_syn_ack, send_ack_only: the slot is read again, whatever it holds by
\* now; a peer that knows the connection ignores a SYN out of place.
Transmit(what) ==
  LET c == socks[what[2]]
  IN /\ what \in pend
     /\ pend' = pend \ {what}
     /\ IF what[1] # "ack" /\ c.peer # "none" THEN Delivered(c.peer, {Number(c, c.una)} \cap {0}) ELSE UNCHANGED heard
     /\ UNCHANGED <<socks, cursor, polling, calling, held, opened, role, stale>>

TcpTick ==
  LET down(t) == IF t > 0 THEN t - 1 ELSE t
  IN /\ ~polling
     /\ socks' = [i \in Slots |-> [socks[i] EXCEPT !.rto = down(@), !.tw = down(@)]]
     /\ calling' = [calling EXCEPT !.left = down(@)]
     /\ UNCHANGED <<cursor, polling, pend, held, opened, role, heard, stale>>

---------------------------------------------------------------------------
(* The peer's segments. *)

\* Everything the peer has received without a gap may be acknowledged, or less.
Acks(p) == {Add(OurIsn, k) : k \in {j \in 1..(OurBytes + 2) : \A b \in 0..(j - 1) : b \in heard[p]}}
Seg(p, port, flags, seq, ack, data) ==
  [peer |-> p, port |-> port, flags |-> flags, seq |-> seq, ack |-> ack, data |-> data]
FromPeer(p, port) ==
  {Seg(p, port, {"SYN"}, PeerIsn, 0, <<>>), Seg(p, port, {"RST"}, PeerIsn, 0, <<>>)}
  \cup {Seg(p, port, {"SYN", "ACK"}, PeerIsn, a, <<>>) : a \in Acks(p)}
  \cup {Seg(p, port, {"ACK"}, Add(PeerIsn, 1 + k), a, [j \in 1..n |-> k + j]) :
          a \in Acks(p), k \in 0..PeerBytes, n \in 0..PeerBytes}
  \cup {Seg(p, port, {"ACK", "FIN"}, Add(PeerIsn, 1 + PeerBytes - n), a, [j \in 1..n |-> PeerBytes - n + j]) :
          a \in Acks(p), n \in 0..PeerBytes}
\* A segment never runs past the end of the peer's stream.
Sendable(seg) == \A j \in DOMAIN seg.data : seg.data[j] <= PeerBytes

TcpInit ==
  /\ socks = [i \in Slots |-> NewConn] /\ cursor = 0 /\ polling = FALSE /\ pend = {}
  /\ calling = [slot |-> 0, left |-> 0] /\ held = {} /\ opened = 0
  /\ role \in {"client", "server"}
  /\ heard = [p \in Peers |-> {}] /\ stale = FALSE

TcpNext ==
  \/ Socket
  \/ \E i \in Slots : Bind(i, LocalPort) \/ Bind(i, 0) \/ Listen(i) \/ Accept(i) \/ Close(i)
  \/ \E i \in Slots, p \in Peers : Connect(i, p)
  \/ ConnectReturn
  \/ \E i \in Slots, n \in 1..2 : Send(i, n) \/ Recv(i, n)
  \/ \E p \in Peers, port \in {socks[i].port : i \in Slots} \ {0} :
       \E seg \in FromPeer(p, port) : Sendable(seg) /\ HandlePacket(seg)
  \/ PollExpire \/ PollSend \/ TcpTick
  \/ \E what \in pend : Transmit(what)

---------------------------------------------------------------------------

\* accept "returns its own id (a brand new socket, already Established - accept()ing
\* it again is never necessary)" (tcp.rs, rust_tcp_accept).
AcceptGivesNewSocket == ~stale
=============================================================================
