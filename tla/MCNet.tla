------------------------------- MODULE MCNet -------------------------------
(***************************************************************************)
(* The network side, for TLC: the packet filter, TCP, UDP and the queues   *)
(* of the network and block devices.  They share no state, so a behaviour  *)
(* drives one of them (focus) and leaves the others in their initial state.*)
(***************************************************************************)
EXTENDS Integers, Sequences, TLC

VARIABLES focus,
  rules, policyIn, policyOut, disabled, locked, conns, expects, kind, changes, ticks, idle, unearned,
  socks, cursor, polling, pend, calling, held, opened, role, heard, stale,
  udp, arrived, reads,
  device, avail, availIdx, used, usedIdx, devIdx, lastUsed, buffer, taken, delivered, frames,
  ring, isr, pending, timedOut

---------------------------------------------------------------------------
(* Packet filter: a flow of each protocol seen from both ends, a second    *)
(* one to fill the table (NConns), ticks that wrap (Start near Wrap).      *)

NoInner == [proto |-> "none", src |-> "", dst |-> "", sport |-> 0, dport |-> 0]
P(dir, proto, src, sport, dst, dport, flags, itype) ==
  [dir |-> dir, proto |-> proto, src |-> src, sport |-> sport, dst |-> dst, dport |-> dport,
   flags |-> flags, itype |-> itype, bad |-> FALSE, inner |-> NoInner]
TcpPkt(dir, port, flags) == IF dir = "out" THEN P("out", "tcp", "us", port, "peer", 80, flags, "none")
                                        ELSE P("in", "tcp", "peer", 80, "us", port, flags, "none")
UdpPkt(dir, local, remote) == IF dir = "out" THEN P("out", "udp", "us", local, "peer", remote, {}, "none")
                                          ELSE P("in", "udp", "peer", remote, "us", local, {}, "none")
Ping(dir, type) == IF dir = "out" THEN P("out", "icmp", "us", 7, "peer", 7, {}, type)
                                  ELSE P("in", "icmp", "peer", 7, "us", 7, {}, type)
Flags == {{"SYN"}, {"SYN", "ACK"}, {"ACK"}, {"FIN", "ACK"}, {"RST"}, {"SYN", "FIN"}}
MCTraffic ==
  "tcp" :> {TcpPkt(d, 1, f) : d \in {"in", "out"}, f \in Flags} \cup {TcpPkt("in", 2, {"SYN"})}
  @@ "udp" :> {UdpPkt("out", 1, 69), UdpPkt("in", 1, 69), UdpPkt("in", 1, 70), UdpPkt("in", 2, 53), UdpPkt("out", 2, 53)}
  @@ "icmp" :> {Ping(d, t) : d \in {"in", "out"}, t \in {"echo", "reply"}}
       \cup {[Ping("in", "error") EXCEPT !.inner = UdpPkt("out", 1, 53)], UdpPkt("out", 1, 53), UdpPkt("in", 1, 53)}
       \cup {[UdpPkt("in", 1, 53) EXCEPT !.bad = TRUE], [UdpPkt("in", 1, 53) EXCEPT !.proto = "other"]}
MCTimeout == [s \in {"SYN_SENT", "SYN_RECV", "ESTABLISHED", "FIN_WAIT", "LAST_ACK", "TIME_WAIT", "CLOSE",
   "UDP_UNREPLIED", "UDP_REPLIED", "ICMP_ECHO", "EXPECT"} |->
   IF s \in {"ESTABLISHED", "UDP_REPLIED"} THEN 2 ELSE 1]
MCRule == [word |-> "rule", act |-> "accept", dir |-> "in", keys |-> << <<"proto", "tcp">>, <<"dport", {2}>> >>]
MCBad == [MCRule EXCEPT !.keys = << <<"dport", {2}>> >>]
MCConfigs == {<<MCRule>>, <<MCRule, MCBad>>, <<[word |-> "policy", dir |-> "in", act |-> "accept"]>>}
MCRules == {[accept |-> TRUE, dir |-> "in", proto |-> "tcp", from |-> "any", to |-> "any", dport |-> {2},
             states |-> {}, icmp |-> "any"]}

FW == INSTANCE Firewall WITH Traffic <- MCTraffic, RuleSet <- MCRules, Configs <- MCConfigs, MaxRules <- 2,
        NConns <- 2, NExpect <- 1, HalfOpenMax <- 1, Wrap <- 16, Start <- 15, MaxTicks <- 2, MaxAdmin <- 1,
        Timeout <- MCTimeout

(* TCP: one connection and the listener beside it, buffers of a byte or two *)
(* so that they fill, sequence numbers that wrap in the middle of a stream. *)
T == INSTANCE Tcp WITH NSlots <- 2, MaxBacklog <- 1, SendCap <- 2, RecvCap <- 1, Mss <- 1, BaseRto <- 1,
       MaxRto <- 1, MaxRetries <- 1, TimeWaitTicks <- 1, ConnectTicks <- 1, SeqSpace <- 16, OurIsn <- 14,
       PeerIsn <- 15, Peers <- {"a"}, OurBytes <- 2, PeerBytes <- 2, MaxSockets <- 1

(* UDP: two sockets, two peers, a queue of three and one datagram more.     *)
U == INSTANCE Udp WITH NUdp <- 2, QueueLen <- 3, Hosts <- {"a", "b"}, UdpPorts <- {7}, FirstPort <- 8,
       LastPort <- 8, MaxDgrams <- 4

(* Device queues: indices wrap at 8, and more frames than that arrive.      *)
N == INSTANCE Nic WITH QSize <- 4, Buffers <- 2, IdxWrap <- 8, MaxFrames <- 10

---------------------------------------------------------------------------
fwVars == <<rules, policyIn, policyOut, disabled, locked, conns, expects, kind, changes, ticks, idle, unearned>>
tcpVars == <<socks, cursor, polling, pend, calling, held, opened, role, heard, stale>>
udpVars == <<udp, arrived, reads>>
nicVars == <<device, avail, availIdx, used, usedIdx, devIdx, lastUsed, buffer, taken, delivered, frames,
             ring, isr, pending, timedOut>>
vars == <<focus, fwVars, tcpVars, udpVars, nicVars>>
Init ==
  /\ focus \in {"fw", "tcp", "udp", "nic"}
  /\ FW!FwInit /\ T!TcpInit /\ U!UdpInit /\ N!NicInit
  /\ focus # "fw" => kind = "udp"
  /\ focus # "tcp" => role = "client"
  /\ focus # "nic" => device = "rtl"
Next ==
  \/ focus = "fw" /\ FW!FwNext /\ UNCHANGED <<focus, tcpVars, udpVars, nicVars>>
  \/ focus = "tcp" /\ T!TcpNext /\ UNCHANGED <<focus, fwVars, udpVars, nicVars>>
  \/ focus = "udp" /\ U!UdpNext /\ UNCHANGED <<focus, fwVars, tcpVars, nicVars>>
  \/ focus = "nic" /\ N!NicNext /\ UNCHANGED <<focus, fwVars, tcpVars, udpVars>>
Spec == Init /\ [][Next]_vars
\* The TCP stack alone, and the interrupt-driven card alone: interrupts
\* are taken and the idle loop polls again and again.
TcpSpec == Init /\ focus = "tcp" /\ [][Next]_vars
RtlSpec == /\ Init /\ focus = "nic" /\ device = "rtl" /\ [][Next]_vars
           /\ WF_nicVars(N!IrqHandler) /\ WF_nicVars(N!DriverReceive)

---------------------------------------------------------------------------
\* Firewall, AnswersAccepted: under the boot rules the answer to a datagram this host
\* sent is let through until the flow times out (firewall.rs, classify and filter).
AnswersAccepted == focus = "fw" => FW!AnswersAccepted
\* Udp, UdpReadsInOrder, and Nic, DeliveredAsReceived: what arrives is handed on in order,
\* once and with its own contents: datagrams to the socket of their port (udp.rs), frames and
\* block answers out of the device queues (virtio_net.rs, virtio_blk.rs, net_irq.rs).
ArrivalsInOrder ==
  /\ focus = "udp" => U!UdpReadsInOrder
  /\ focus = "nic" => N!DeliveredAsReceived
\* Tcp, AcceptGivesNewSocket: accept returns a new, established socket (tcp.rs, rust_tcp_accept).
AcceptGivesNewSocket == T!AcceptGivesNewSocket
\* Nic, BurstIsDrained: every frame of a burst is drained (net.c, net_driver_receive).
BurstIsDrained == N!BurstIsDrained
=============================================================================
