------------------------------ MODULE Firewall ------------------------------
(***************************************************************************)
(* The packet filter (kernel/rust/firewall.rs): a rule list with a policy  *)
(* per direction, a connection table with the TCP state machine, expected  *)
(* TFTP answers, and the administration calls.  Every call holds the STATE *)
(* spinlock.  A packet arrives parsed; ports and addresses are opaque but  *)
(* for port 0 and TFTP_PORT.  The tick counter wraps.  Statistics, hit     *)
(* counts and logging are left out: nothing reads them back.               *)
(***************************************************************************)
EXTENDS Integers, Sequences, SequencesExt, FiniteSets

CONSTANTS
  Traffic,      \* Traffic[k]: the packets of one kind of behaviour
  RuleSet,      \* rules an administrator may add
  Configs,      \* configuration texts, as sequences of lines
  MaxRules,     \* MAX_RULES
  NConns,       \* MAX_CONNS
  NExpect,      \* MAX_EXPECT
  HalfOpenMax,  \* HALF_OPEN_MAX
  Wrap,         \* the tick counter is modulo Wrap
  Start,        \* ticks at boot
  MaxTicks,     \* bound on the ticks that pass
  MaxAdmin,     \* bound on the administration calls
  Timeout       \* Timeout[s]: T_SYN, T_ESTABLISHED ... by connection state

VARIABLES
  rules, policyIn, policyOut, disabled, locked,   \* struct Firewall
  conns, expects,
  kind,         \* the packets of this behaviour
  changes,      \* administration calls made
  ticks,        \* ticks since boot (timer_get_ticks is Start + ticks, wrapped)
  idle,         \* history: ticks since a packet of the flow was accepted (any), and
                \* since one this host sent was (out)
  unearned      \* history: a packet of a silent flow was accepted as established

fwVars == <<rules, policyIn, policyOut, disabled, locked, conns, expects, kind, changes, ticks, idle, unearned>>

Now == (Start + ticks) % Wrap
Plus(t, d) == (t + d) % Wrap
Forever == MaxTicks + 1
NeverHeard == [any |-> Forever, out |-> Forever]
LongTimeout == CHOOSE d \in {Timeout[s] : s \in DOMAIN Timeout} :
                 \A s \in DOMAIN Timeout : Timeout[s] <= d

NoInner == [proto |-> "none", src |-> "", dst |-> "", sport |-> 0, dport |-> 0]
EmptyConn == [used |-> FALSE]
NoExpect == [used |-> FALSE]

\* The flow of a packet or key: its two endpoints, whichever sent it.
Flow(k) == [proto |-> k.proto, ends |-> {<<k.src, k.sport>>, <<k.dst, k.dport>>}]
Flows == {Flow(p) : p \in Traffic[kind]}

---------------------------------------------------------------------------
(* Rules and configuration. *)

\* A rule: "any", or an empty set of ports or states, matches everything.
Matches(r, p, state) ==
  /\ r.dir \in {"any", p.dir}
  /\ r.proto \in {"any", p.proto}
  /\ r.from \in {"any", p.src} /\ r.to \in {"any", p.dst}
  /\ r.dport # {} => p.proto \in {"tcp", "udp"} /\ p.dport \in r.dport
  /\ r.states # {} => state \in r.states
  /\ r.icmp # "any" => p.proto = "icmp" /\ p.itype = r.icmp

\* parse_rule_tokens on the key/value pairs after the action and direction: no
\* key twice, ports only with TCP or UDP, a type only with ICMP.
RuleOk(line) ==
  LET keys == {i \in DOMAIN line.keys : TRUE}
      val(k, d) == IF \E i \in keys : line.keys[i][1] = k
                   THEN line.keys[CHOOSE i \in keys : line.keys[i][1] = k][2] ELSE d
  IN /\ line.act \in {"accept", "drop"} /\ line.dir \in {"in", "out", "any"}
     /\ \A i, j \in keys : i # j => line.keys[i][1] # line.keys[j][1]
     /\ \A i \in keys : line.keys[i][1] \in {"proto", "from", "to", "dport", "state", "icmp-type"}
     /\ val("dport", {}) # {} => val("proto", "any") \in {"tcp", "udp"}
     /\ val("icmp-type", "any") # "any" => val("proto", "any") = "icmp"
RuleOf(line) ==
  LET val(k, d) == IF \E i \in DOMAIN line.keys : line.keys[i][1] = k
                   THEN line.keys[CHOOSE i \in DOMAIN line.keys : line.keys[i][1] = k][2] ELSE d
  IN [accept |-> line.act = "accept", dir |-> line.dir, proto |-> val("proto", "any"),
      from |-> val("from", "any"), to |-> val("to", "any"), dport |-> val("dport", {}),
      states |-> val("state", {}), icmp |-> val("icmp-type", "any")]

\* parse_config: a policy may be given once per direction (default: in drop, out
\* accept), and one bad line refuses the whole text.
ConfigOk(text) ==
  LET at(w) == {i \in DOMAIN text : text[i].word = w}
      pol(d) == {i \in at("policy") : text[i].dir = d}
  IN /\ \A i \in DOMAIN text : text[i].word \in {"blank", "policy", "rule"}
     /\ \A i \in at("policy") : text[i].act \in {"accept", "drop"} /\ text[i].dir \in {"in", "out"}
     /\ Cardinality(pol("in")) <= 1 /\ Cardinality(pol("out")) <= 1
     /\ \A i \in at("rule") : RuleOk(text[i])
     /\ Cardinality(at("rule")) <= MaxRules
Policy(text, dir, default) ==
  LET pol == {i \in DOMAIN text : text[i].word = "policy" /\ text[i].dir = dir}
  IN IF pol = {} THEN default ELSE \E i \in pol : text[i].act = "accept"
RulesOf(text) ==
  LET isRule(line) == line.word = "rule"
      only == SelectSeq(text, isRule)
  IN [i \in DOMAIN only |-> RuleOf(only[i])]

Baseline ==
  << [word |-> "policy", dir |-> "in", act |-> "drop"],
     [word |-> "policy", dir |-> "out", act |-> "accept"],
     [word |-> "rule", act |-> "accept", dir |-> "in",
      keys |-> << <<"state", {"established", "related"}>> >>] >>

LoadConfig(text) ==
  /\ rules' = RulesOf(text)
  /\ policyIn' = Policy(text, "in", FALSE)
  /\ policyOut' = Policy(text, "out", TRUE)

---------------------------------------------------------------------------
(* Connection tracking. *)

\* expired() without the wrap-around (for a mutation).
ExpiredPlain(expires) == Now >= expires
\* expired(): the signed difference of two wrapping counters.
Expired(expires) == (Now - expires + Wrap) % Wrap < Wrap \div 2

Active(i) == conns[i].used /\ ~Expired(conns[i].expires)
SlotFree(i) == ~Active(i)

\* side_of: 0 when the packet goes as the connection's first one did, 1 back.
SidesOf(c, k) ==
  IF c.proto # k.proto THEN {}
  ELSE IF <<c.a, c.b>> = << <<k.src, k.sport>>, <<k.dst, k.dport>> >> THEN {0}
  ELSE IF <<c.b, c.a>> = << <<k.src, k.sport>>, <<k.dst, k.dport>> >> THEN {1}
  ELSE {}

\* find(): <<slot, side>> of the first active entry for the key on a wanted side.
Found(k, sides) == {<<i, s>> : i \in {j \in 1..NConns : Active(j)}, s \in sides}
Find(k, sides) ==
  LET hits == {h \in Found(k, sides) : h[2] \in SidesOf(conns[h[1]], k)}
  IN IF hits = {} THEN <<0, 0>> ELSE CHOOSE h \in hits : \A g \in hits : h[1] <= g[1]

TcpClass(f) ==
  CASE f = {"SYN"} -> "Syn"
    [] f = {"SYN", "ACK"} -> "SynAck"
    [] f \cap {"SYN", "FIN", "RST"} = {} /\ "ACK" \in f -> "Ack"
    [] f \cap {"SYN", "RST"} = {} /\ {"FIN", "ACK"} \subseteq f -> "FinAck"
    [] f \cap {"SYN", "FIN"} = {} /\ "RST" \in f -> "Rst"
    [] OTHER -> "none"

\* tcp_next: the state and the side that sent the first FIN, or "none".
TcpNext(c, side, fc) ==
  LET to(s) == [state |-> s, fin |-> c.fin]
      none == [state |-> "none", fin |-> 0]
  IN CASE c.state = "SYN_SENT" ->
            IF fc = "Rst" THEN to("CLOSE")
            ELSE IF side = 0 /\ fc = "Syn" THEN to("SYN_SENT")
            ELSE IF side = 1 /\ fc \in {"Syn", "SynAck"} THEN to("SYN_RECV") ELSE none
       [] c.state = "SYN_RECV" ->
            IF fc = "Rst" THEN to("CLOSE")
            ELSE IF fc = "FinAck" THEN [state |-> "FIN_WAIT", fin |-> side]
            ELSE IF fc = "Ack" THEN to("ESTABLISHED")
            ELSE IF fc = "SynAck" \/ side = 0 THEN to("SYN_RECV") ELSE none
       [] c.state = "ESTABLISHED" ->
            IF fc = "Rst" THEN to("CLOSE")
            ELSE IF fc = "FinAck" THEN [state |-> "FIN_WAIT", fin |-> side]
            ELSE IF fc = "Ack" \/ (fc = "SynAck" /\ side = 1) THEN to("ESTABLISHED") ELSE none
       [] c.state = "FIN_WAIT" ->
            IF fc = "Rst" THEN to("CLOSE")
            ELSE IF fc = "Ack" THEN to("FIN_WAIT")
            ELSE IF fc = "FinAck" THEN to(IF side = c.fin THEN "FIN_WAIT" ELSE "LAST_ACK") ELSE none
       [] c.state = "LAST_ACK" ->
            IF fc = "Rst" THEN to("CLOSE")
            ELSE IF fc = "Ack" THEN to(IF side = c.fin THEN "TIME_WAIT" ELSE "LAST_ACK")
            ELSE IF fc = "FinAck" THEN to("LAST_ACK") ELSE none
       [] c.state = "TIME_WAIT" ->
            IF fc = "Rst" THEN to("CLOSE")
            ELSE IF fc \in {"Ack", "FinAck"} THEN to("TIME_WAIT") ELSE none
       [] OTHER -> IF fc \in {"Ack", "Rst", "FinAck"} THEN to("CLOSE") ELSE none

Expecting(p) == {e \in 1..NExpect :
  /\ p.dir = "in" /\ p.proto = "udp"
  /\ expects[e].used /\ ~Expired(expects[e].expires)
  /\ expects[e].remote = p.src /\ expects[e].to = <<p.dst, p.dport>>}

Cls(c, i, side, next, fin) == [class |-> c, idx |-> i, side |-> side, next |-> next, fin |-> fin]
Invalid == Cls("Invalid", 0, 0, "none", 0)
NewConn == Cls("New", 0, 0, "none", 0)

\* classify(), by protocol.
ClassifyTcp(p) ==
  LET h == Find(p, {0, 1})
      c == conns[h[1]]
      fc == TcpClass(p.flags)
      nx == TcpNext(c, h[2], fc)
  IN IF 0 \in {p.sport, p.dport} \/ fc = "none" THEN Invalid
     ELSE IF h[1] = 0 THEN (IF fc = "Syn" THEN NewConn ELSE Invalid)
     ELSE IF fc = "Syn" /\ c.state \in {"TIME_WAIT", "CLOSE"} THEN Cls("Replace", h[1], 0, "none", 0)
     ELSE IF nx.state = "none" THEN Invalid ELSE Cls("Existing", h[1], h[2], nx.state, nx.fin)
ClassifyUdp(p) ==
  LET h == Find(p, {0, 1})
  IN IF p.dport = 0 THEN Invalid
     ELSE IF h[1] # 0 THEN Cls("Existing", h[1], h[2], "UDP_REPLIED", 0)
     ELSE IF Expecting(p) # {}
          THEN Cls("RelatedNew", CHOOSE e \in Expecting(p) : \A d \in Expecting(p) : e <= d, 0, "none", 0)
     ELSE NewConn
ClassifyIcmp(p) ==
  LET h == Find(p, IF p.itype = "echo" THEN {0} ELSE {1})
      g == Find(p.inner, {0, 1})
  IN CASE p.itype = "echo" -> IF h[1] = 0 THEN NewConn ELSE Cls("Existing", h[1], 0, "ICMP_ECHO", 0)
       [] p.itype = "reply" -> IF h[1] # 0 /\ conns[h[1]].pending > 0
                               THEN Cls("Existing", h[1], 1, "ICMP_ECHO", 0) ELSE Invalid
       [] p.itype = "error" -> IF p.inner.proto = "none" \/ g[1] = 0 THEN Invalid
                               ELSE Cls("Related", g[1], 0, "none", 0)
       [] OTHER -> Invalid
Classify(p) ==
  CASE p.bad \/ p.proto \notin {"tcp", "udp", "icmp"} -> Invalid
    [] p.proto = "tcp" -> ClassifyTcp(p)
    [] p.proto = "udp" -> ClassifyUdp(p)
    [] OTHER -> ClassifyIcmp(p)

StateOf(cls) ==
  CASE cls.class = "Invalid" -> "invalid"
    [] cls.class \in {"New", "Replace"} -> "new"
    [] cls.class \in {"Related", "RelatedNew"} -> "related"
    [] OTHER -> IF cls.side = 1 \/ conns[cls.idx].replied THEN "established" ELSE "new"

\* The first rule that matches, or the policy of the direction.
Decision(p, state) ==
  LET hits == {i \in DOMAIN rules : Matches(rules[i], p, state)}
  IN IF hits = {} THEN (IF p.dir = "in" THEN policyIn ELSE policyOut)
     ELSE rules[CHOOSE i \in hits : \A j \in hits : i <= j].accept

HalfOpen == {i \in 1..NConns : Active(i) /\ conns[i].proto = "tcp" /\ conns[i].orig = "in"
                               /\ conns[i].state \in {"SYN_SENT", "SYN_RECV"}}

\* filter() up to its verdict (what rust_fw_probe reports without commit).
Verdict(p) ==
  LET cls == Classify(p)
      room == \E i \in 1..NConns : SlotFree(i)
  IN IF disabled THEN TRUE
     ELSE /\ cls.class # "Invalid"
          /\ Decision(p, StateOf(cls))
          /\ cls.class \in {"New", "RelatedNew"} => room
          /\ cls.class = "New" /\ p.proto = "tcp" /\ p.dir = "in"
               => Cardinality(HalfOpen) < HalfOpenMax

---------------------------------------------------------------------------
(* Committing a packet, and the other calls. *)

InitState(p) == CASE p.proto = "tcp" -> "SYN_SENT" [] p.proto = "udp" -> "UDP_UNREPLIED" [] OTHER -> "ICMP_ECHO"
\* start_conn.
StartConn(p, related) ==
  LET st == IF related THEN "UDP_REPLIED" ELSE InitState(p)
  IN [used |-> TRUE, proto |-> p.proto, orig |-> p.dir, state |-> st, fin |-> 0, replied |-> related,
      pending |-> IF p.proto = "icmp" THEN 1 ELSE 0,
      a |-> <<p.src, p.sport>>, b |-> <<p.dst, p.dport>>, expires |-> Plus(Now, Timeout[st])]
AllocSlot == CHOOSE i \in 1..NConns : SlotFree(i) /\ \A j \in 1..NConns : SlotFree(j) => i <= j

\* commit of a packet on a known connection.
Advance(c, cls, proto) ==
  LET st == IF proto = "udp" /\ cls.side = 0 THEN c.state ELSE cls.next
  IN [c EXCEPT !.state = st, !.fin = cls.fin, !.replied = @ \/ cls.side = 1,
        !.pending = IF proto # "icmp" THEN @ ELSE IF cls.side = 0 THEN (IF @ < 2 THEN @ + 1 ELSE @) ELSE @ - 1,
        !.expires = Plus(Now, Timeout[st])]

\* add_expect: the same expectation again, else a free slot, else slot 1.
ExpectSlot(e) ==
  LET same == {i \in 1..NExpect : expects[i].used /\ expects[i].remote = e.remote /\ expects[i].to = e.to}
      free == {i \in 1..NExpect : ~expects[i].used \/ Expired(expects[i].expires)}
  IN IF same # {} THEN CHOOSE i \in same : TRUE
     ELSE IF free # {} THEN CHOOSE i \in free : \A j \in free : i <= j ELSE 1

\* commit().
Commit(p, cls) ==
  LET i == IF cls.class \in {"New", "RelatedNew"} THEN AllocSlot ELSE cls.idx
      e == [used |-> TRUE, remote |-> p.dst, to |-> <<p.src, p.sport>>, expires |-> Plus(Now, Timeout["EXPECT"])]
      tftp == cls.class = "New" /\ p.proto = "udp" /\ p.dir = "out" /\ p.dport = 69
  IN /\ conns' = CASE cls.class = "Existing" -> [conns EXCEPT ![i] = Advance(@, cls, p.proto)]
                   [] cls.class = "Related" -> conns
                   [] OTHER -> [conns EXCEPT ![i] = StartConn(p, cls.class = "RelatedNew")]
     /\ expects' = IF cls.class = "RelatedNew" THEN [expects EXCEPT ![cls.idx].used = FALSE]
                   ELSE IF tftp THEN [expects EXCEPT ![ExpectSlot(e)] = e] ELSE expects

\* filter() with commit: the verdict, and the tables when it accepts.
Filter(p) ==
  LET cls == Classify(p)
      flow == IF cls.class = "Related" THEN Flow(p.inner) ELSE Flow(p)
  IN /\ unearned' = (unearned \/ (/\ ~disabled /\ Verdict(p) /\ StateOf(cls) = "established"
                                /\ idle[flow].any >= LongTimeout))
     /\ IF ~disabled /\ Verdict(p)
        THEN /\ Commit(p, cls)
             /\ idle' = IF cls.class = "Related" THEN idle
                       ELSE [idle EXCEPT ![flow].any = 0, ![flow].out = IF p.dir = "out" THEN 0 ELSE @]
        ELSE UNCHANGED <<conns, expects, idle>>
     /\ UNCHANGED <<rules, policyIn, policyOut, disabled, locked, kind, changes, ticks>>

Tick ==
  /\ ticks < MaxTicks
  /\ ticks' = ticks + 1
  /\ idle' = [f \in DOMAIN idle |-> [d \in {"any", "out"} |-> IF idle[f][d] < Forever THEN idle[f][d] + 1 ELSE Forever]]
  /\ UNCHANGED <<rules, policyIn, policyOut, disabled, locked, conns, expects, kind, changes, unearned>>

\* What every administration call does when the filter is locked: nothing.
Admin ==
  /\ ~locked /\ changes < MaxAdmin
  /\ changes' = changes + 1
  /\ UNCHANGED <<locked, conns, expects, kind, ticks, idle, unearned>>
ApplyConfig(text) ==
  /\ Admin /\ ConfigOk(text) /\ LoadConfig(text) /\ UNCHANGED disabled
AddRule(pos, r) ==
  /\ Admin /\ Len(rules) < MaxRules /\ pos <= Len(rules)
  /\ rules' = InsertAt(rules, pos + 1, r)
  /\ UNCHANGED <<policyIn, policyOut, disabled>>
DelRule(i) ==
  /\ Admin /\ i \in DOMAIN rules
  /\ rules' = RemoveAt(rules, i)
  /\ UNCHANGED <<policyIn, policyOut, disabled>>
FlushRules == Admin /\ rules' = <<>> /\ UNCHANGED <<policyIn, policyOut, disabled>>
SetPolicy(dir, accept) ==
  /\ Admin
  /\ policyIn' = IF dir = "in" THEN accept ELSE policyIn
  /\ policyOut' = IF dir = "out" THEN accept ELSE policyOut
  /\ UNCHANGED <<rules, disabled>>
SetEnabled(on) == Admin /\ disabled' = ~on /\ UNCHANGED <<rules, policyIn, policyOut>>
Lock ==
  /\ ~locked /\ locked' = TRUE
  /\ UNCHANGED <<rules, policyIn, policyOut, disabled, conns, expects, kind, changes, ticks, idle, unearned>>
FlushConns ==
  /\ conns' = [i \in 1..NConns |-> EmptyConn]
  /\ expects' = [i \in 1..NExpect |-> NoExpect]
  /\ idle' = [f \in DOMAIN idle |-> NeverHeard]
  /\ UNCHANGED <<rules, policyIn, policyOut, disabled, locked, kind, changes, ticks, unearned>>

FwInit ==
  /\ kind \in DOMAIN Traffic
  /\ rules = RulesOf(Baseline)
  /\ policyIn = Policy(Baseline, "in", FALSE) /\ policyOut = Policy(Baseline, "out", TRUE)
  /\ disabled = FALSE /\ locked = FALSE
  /\ conns = [i \in 1..NConns |-> EmptyConn] /\ expects = [i \in 1..NExpect |-> NoExpect]
  /\ ticks = 0 /\ changes = 0
  /\ idle = [f \in Flows |-> NeverHeard]
  /\ unearned = FALSE

FwNext ==
  \/ \E p \in Traffic[kind] : Filter(p)
  \/ Tick
  \/ \E text \in Configs : ApplyConfig(text)
  \/ \E r \in RuleSet, pos \in 0..MaxRules : AddRule(pos, r)
  \/ \E i \in 1..MaxRules : DelRule(i)
  \/ FlushRules
  \/ \E dir \in {"in", "out"}, accept \in BOOLEAN : SetPolicy(dir, accept)
  \/ \E on \in BOOLEAN : SetEnabled(on)
  \/ Lock \/ FlushConns

---------------------------------------------------------------------------

\* As long as the boot rules are in force, the answer to a datagram this host
\* sent is let through until the flow's timeout, across the wrap of the ticks
\* and with the table full.
AnswersAccepted ==
  rules = RulesOf(Baseline) /\ ~disabled =>
    \A p \in Traffic[kind] :
      p.proto = "udp" /\ p.dir = "in" /\ ~p.bad /\ p.dport # 0 /\ idle[Flow(p)].out < Timeout["UDP_UNREPLIED"]
        => Verdict(p)
=============================================================================
