-------------------------------- MODULE Udp --------------------------------
(***************************************************************************)
(* UDP sockets (kernel/rust/udp.rs).  Every call holds the SOCKS lock for  *)
(* the part that touches the table; a datagram is sent after unlocking,    *)
(* from the values read under the lock.  Datagrams are numbered in order   *)
(* of arrival; a payload is its number, or "bad" when its checksum fails.  *)
(***************************************************************************)
EXTENDS Integers, Sequences, SequencesExt, FiniteSets

CONSTANTS
  NUdp,         \* MAX_UDP_SOCKS
  QueueLen,     \* RECV_QUEUE
  Hosts,        \* remote addresses (host and port)
  UdpPorts,     \* ports a program binds
  FirstPort, LastPort,  \* the ephemeral range
  MaxDgrams     \* bound on the datagrams that arrive

VARIABLES
  udp,          \* SOCKS
  arrived,      \* number of datagrams that arrived
  reads         \* history: reads[i][h]: the last datagram from h that was read on socket i

udpVars == <<udp, arrived, reads>>

UdpSlots == 1..NUdp
NewSock == [in_use |-> FALSE, port |-> 0, remote |-> "none", queue |-> <<>>]
NoReads == [h \in Hosts |-> 0]
LowestOf(S) == CHOOSE i \in S : \A j \in S : i <= j

\* push: a full queue loses its oldest datagram.
Push(q, d) == Append(IF Len(q) = QueueLen THEN Tail(q) ELSE q, d)

\* pop_matching: the datagrams behind the one taken move up.
PopAt(q, i) == RemoveAt(q, i)

\* ensure_bound: the port already bound, else the first free ephemeral port, else 0.
Taken(p) == \E i \in UdpSlots : udp[i].in_use /\ udp[i].port = p
EnsureBound(i) ==
  LET free == {p \in FirstPort..LastPort : ~Taken(p)}
  IN IF udp[i].port # 0 THEN udp[i].port ELSE IF free = {} THEN 0 ELSE LowestOf(free)

UdpSocket ==
  LET free == {i \in UdpSlots : ~udp[i].in_use}
  IN /\ free # {}
     /\ udp' = [udp EXCEPT ![LowestOf(free)] = [NewSock EXCEPT !.in_use = TRUE]]
     /\ reads' = [reads EXCEPT ![LowestOf(free)] = NoReads]
     /\ UNCHANGED arrived
UdpBind(i, port) ==
  LET p == IF port = 0 THEN EnsureBound(i) ELSE port
  IN /\ udp[i].in_use /\ udp[i].port = 0 /\ p # 0
     /\ port # 0 => ~Taken(port)
     /\ udp' = [udp EXCEPT ![i].port = p]
     /\ UNCHANGED <<arrived, reads>>
UdpConnect(i, r) ==
  /\ udp[i].in_use /\ EnsureBound(i) # 0
  /\ udp' = [udp EXCEPT ![i].port = EnsureBound(i), ![i].remote = r]
  /\ UNCHANGED <<arrived, reads>>
\* rust_udp_sendto binds the socket; rust_udp_send leaves the table as it is.
UdpSendTo(i) ==
  /\ udp[i].in_use /\ EnsureBound(i) # 0
  /\ udp' = [udp EXCEPT ![i].port = EnsureBound(i)]
  /\ UNCHANGED <<arrived, reads>>

\* rust_udp_recv (from the peer only) and rust_udp_recvfrom (from anyone).
Matching(i, from) == {k \in DOMAIN udp[i].queue : from = "any" \/ udp[i].queue[k].from = from}
Take(i, from) ==
  LET k == LowestOf(Matching(i, from))
  IN /\ Matching(i, from) # {}
     /\ reads' = [reads EXCEPT ![i][udp[i].queue[k].from] = udp[i].queue[k].n]
     /\ udp' = [udp EXCEPT ![i].queue = PopAt(@, k)]
     /\ UNCHANGED arrived
UdpRecv(i) == udp[i].in_use /\ udp[i].remote # "none" /\ Take(i, udp[i].remote)
UdpRecvFrom(i) == udp[i].in_use /\ Take(i, "any")
UdpClose(i) ==
  /\ udp[i].in_use
  /\ udp' = [udp EXCEPT ![i] = NewSock]
  /\ reads' = [reads EXCEPT ![i] = NoReads]
  /\ UNCHANGED arrived

\* rust_udp_handle_packet: the first socket of the port, if it is open to the sender.
UdpPacket(from, port, good) ==
  LET mine == {i \in UdpSlots : udp[i].in_use /\ udp[i].port = port}
      i == LowestOf(mine)
  IN /\ arrived < MaxDgrams /\ mine # {}
     /\ arrived' = arrived + 1
     /\ udp' = IF good /\ udp[i].remote \in {"none", from}
               THEN [udp EXCEPT ![i].queue = Push(@, [n |-> arrived + 1, from |-> from, port |-> port])] ELSE udp
     /\ UNCHANGED reads

UdpInit ==
  /\ udp = [i \in UdpSlots |-> NewSock] /\ arrived = 0 /\ reads = [i \in UdpSlots |-> NoReads]
UdpNext ==
  \/ UdpSocket
  \/ \E i \in UdpSlots : UdpSendTo(i) \/ UdpRecv(i) \/ UdpRecvFrom(i) \/ UdpClose(i)
  \/ \E i \in UdpSlots, p \in UdpPorts \cup {0} : UdpBind(i, p)
  \/ \E i \in UdpSlots, r \in Hosts : UdpConnect(i, r)
  \/ \E r \in Hosts, p \in UdpPorts \cup FirstPort..LastPort, good \in BOOLEAN : UdpPacket(r, p, good)

---------------------------------------------------------------------------
\* However sockets are bound, connected, filled past their queue and closed, what a
\* program reads from one sender comes in the order of arrival, each datagram once;
\* all of it came to the socket's own port; and a port belongs to one socket, so
\* that an answer reaches the socket that sent from that port.
UdpReadsInOrder ==
  \A i \in UdpSlots :
    LET q == udp[i].queue
    IN /\ \A k \in DOMAIN q : q[k].port = udp[i].port /\ q[k].n > reads[i][q[k].from]
       /\ \A j, k \in DOMAIN q : j < k => q[j].n < q[k].n
       /\ \A j \in UdpSlots \ {i} : udp[i].in_use /\ udp[j].in_use /\ udp[i].port # 0 => udp[i].port # udp[j].port
=============================================================================
