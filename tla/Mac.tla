-------------------------------- MODULE Mac --------------------------------
(***************************************************************************)
(* Mandatory access control (mac.rs, and mac.c which calls it): profiles   *)
(* are parsed and loaded when a program starts, a process runs under the   *)
(* stack of profiles of the programs it descends from, and each profile    *)
(* must allow a request.                                                   *)
(*                                                                         *)
(* A profile text is a sequence of lines already split into tokens: the    *)
(* directive, its kind, the letters of its permission token and its items; *)
(* a name or pattern is a sequence of letters.  Counters and the audit     *)
(* ring are left out.  `under' is history: the texts of the profiles that  *)
(* the process and its ancestors were started with.                        *)
(***************************************************************************)
EXTENDS Naturals, Sequences, FiniteSets, SequencesExt

CONSTANTS
    MacPids, BootPid, MAX_PROFILES, MAX_STACK, MAX_FILE_RULES, MAX_NET_RULES, MAX_EXEC_RULES,
    Syscalls, Programs, Texts, OnDisk, Requests, BaseMax, MaxWrites

VARIABLES slots, frozen, procs, profiles, writes

macVars == <<slots, frozen, procs, profiles, writes>>

Always == {"exit", "mac_info"}

----------------------------------------------------------------------------
(* glob_match: * and ? and letters, backtracking to the last star only.    *)
fold == [c \in {"a", "A", "b", "B"} |-> IF c \in {"a", "A"} THEN "A" ELSE "B"]
SameLetter(p, t) == p = "?" \/ p = t \/ (p \in DOMAIN fold /\ t \in DOMAIN fold /\ fold[p] = fold[t])

GlobStep(pat, text, g) ==
    IF g.p <= Len(pat) /\ pat[g.p] = "*" THEN [g EXCEPT !.star = g.p, !.mark = g.t, !.p = @ + 1]
    ELSE IF g.p <= Len(pat) /\ SameLetter(pat[g.p], text[g.t]) THEN [g EXCEPT !.p = @ + 1, !.t = @ + 1]
    ELSE IF g.star # 0 THEN [g EXCEPT !.p = g.star + 1, !.mark = @ + 1, !.t = g.mark + 1]
    ELSE [g EXCEPT !.stop = TRUE]

(* The loop ends after at most as many steps as there are pairs of places. *)
glob_match(pat, text) ==
    LET steps == [i \in 1 .. (Len(pat) + 1) * (Len(text) + 1) |-> i]
        end == FoldLeft(LAMBDA g, i: IF g.stop \/ g.t > Len(text) THEN g ELSE GlobStep(pat, text, g),
                        [p |-> 1, t |-> 1, star |-> 0, mark |-> 0, stop |-> FALSE], steps)
    IN  ~end.stop /\ \A i \in end.p .. Len(pat): pat[i] = "*"

is_policy_file(name) == glob_match(<<"*", ".", "M">>, name)

----------------------------------------------------------------------------
(* parse: a policy, or nothing when any line is not understood.            *)
Empty == [complain |-> FALSE, all |-> FALSE, syscalls |-> {}, files |-> <<>>, nets |-> <<>>, execs |-> <<>>]

valid_pattern(p) == p # <<>> /\ "/" \notin Range(p)

ParseMode(pol, line) ==
    IF line.items = <<>> /\ line.kind \in {"enforce", "complain"}
      THEN {[pol EXCEPT !.complain = (line.kind = "complain")]} ELSE {}

ParseSyscall(pol, line) ==
    LET names == {line.items[i][1]: i \in DOMAIN line.items}
    IN  IF line.items # <<>> /\ names \subseteq Syscalls \cup {"*"}
          THEN {[pol EXCEPT !.all = @ \/ "*" \in names, !.syscalls = @ \cup (names \ {"*"})]} ELSE {}

Rules(line) == [i \in DOMAIN line.items |-> [pat |-> line.items[i], perms |-> line.perms]]

ParseFile(pol, line) ==
    IF line.perms \subseteq {"r", "w", "d"} /\ line.items # <<>>
       /\ (\A i \in DOMAIN line.items: valid_pattern(line.items[i]))
       /\ Len(pol.files) + Len(line.items) <= MAX_FILE_RULES
      THEN {[pol EXCEPT !.files = @ \o Rules(line)]} ELSE {}

(* An address is <<ip or "*", lowest port, highest port>>.                 *)
ParseNet(pol, line) ==
    IF line.perms \subseteq {"c", "b", "s"} /\ line.items # <<>>
       /\ (\A i \in DOMAIN line.items: Len(line.items[i]) = 3)
       /\ Len(pol.nets) + Len(line.items) <= MAX_NET_RULES
      THEN {[pol EXCEPT !.nets = @ \o Rules(line)]} ELSE {}

ParseExec(pol, line) ==
    IF line.items # <<>> /\ (\A i \in DOMAIN line.items: valid_pattern(line.items[i]))
       /\ Len(pol.execs) + Len(line.items) <= MAX_EXEC_RULES
      THEN {[pol EXCEPT !.execs = @ \o Rules(line)]} ELSE {}

ParseLine(pol, line) ==
    CASE line.word = "mode" -> ParseMode(pol, line)
      [] line.word = "allow" /\ line.kind = "syscall" -> ParseSyscall(pol, line)
      [] line.word = "allow" /\ line.kind = "file" -> ParseFile(pol, line)
      [] line.word = "allow" /\ line.kind = "net" -> ParseNet(pol, line)
      [] line.word = "allow" /\ line.kind = "exec" -> ParseExec(pol, line)
      [] OTHER -> {}

parse(text) ==
    IF Cardinality({i \in DOMAIN text: text[i].word = "mode"}) > 1 THEN {}
    ELSE FoldLeft(LAMBDA acc, line: UNION {ParseLine(pol, line): pol \in acc}, {Empty}, text)

Parsed == [t \in Texts |-> parse(t)]

----------------------------------------------------------------------------
(* What a policy allows.  A request is [kind, name, op]; the name of a     *)
(* network request is <<ip, port>>, with the port a position in Ports.     *)
Ports == <<"80", "81", "82">>
PortOf(s) == CHOOSE i \in DOMAIN Ports: Ports[i] = s

allows_syscall(pol, n) == n \in Always \/ (n \in Syscalls /\ (pol.all \/ n \in pol.syscalls))

allows_file(pol, name, op) ==
    op \in UNION {pol.files[i].perms: i \in {j \in DOMAIN pol.files: glob_match(pol.files[j].pat, name)}}

allows_net(pol, op, addr) ==
    \E i \in DOMAIN pol.nets:
        LET r == pol.nets[i]
        IN  /\ op \in r.perms /\ r.pat[1] \in {"*", addr[1]}
            /\ PortOf(addr[2]) \in PortOf(r.pat[2]) .. PortOf(r.pat[3])

allows_exec(pol, name) == \E i \in DOMAIN pol.execs: glob_match(pol.execs[i].pat, name)

Allows(pol, req) ==
    CASE req.kind = "syscall" -> allows_syscall(pol, req.op)
      [] req.kind = "file" -> req.name # <<>> /\ allows_file(pol, req.name, req.op)
      [] req.kind = "net" -> allows_net(pol, req.op, req.name)
      [] req.kind = "exec" -> req.name # <<>> /\ allows_exec(pol, req.name)

(* All that is asked of a policy, and what it answers.                     *)
PolicyName(base) == base \o <<".", "M">>
Ask(kind, name, op) == [kind |-> kind, name |-> name, op |-> op]

Asked ==
    Requests \cup {Ask("syscall", <<>>, n): n \in Syscalls} \cup {Ask("exec", prog, "x"): prog \in Programs}
             \cup {Ask("file", PolicyName(base), op): base \in DOMAIN OnDisk, op \in {"w", "d"}}

Allowed == [pol \in UNION {Parsed[t]: t \in Texts} |-> {req \in Asked: Allows(pol, req)}]

(* eval: every profile of the stack allows the request or only complains.  *)
eval(stack, req) ==
    \A i \in DOMAIN stack:
        /\ stack[i] \in DOMAIN slots
        /\ req \in Allowed[slots[stack[i]].policy] \/ slots[stack[i]].policy.complain

----------------------------------------------------------------------------

(* load: the slot of this profile, a new one if there is room.             *)
load(name, pol) ==
    LET same == {i \in DOMAIN slots: slots[i] = [name |-> name, policy |-> pol]}
    IN  IF same # {} THEN same
        ELSE IF frozen \/ Len(slots) = MAX_PROFILES THEN {} ELSE {Len(slots) + 1}

exec_stack(parent, id) ==
    IF id \in Range(parent) THEN {parent}
    ELSE IF Len(parent) >= MAX_STACK THEN {}
    ELSE {Append(parent, id)}

Running(p) == procs[p] # {}
Proc(p) == CHOOSE q \in procs[p]: TRUE
Grants(p, req) == eval(Proc(p).stack, req)
MayCall(p, n) == Grants(p, Ask("syscall", <<>>, n))
mac_is_admin(p) == Proc(p).root /\ Proc(p).stack = <<>>

base_of(prog) == SubSeq(prog, 1, (CHOOSE i \in DOMAIN prog: prog[i] = ".") - 1)

(* mac_prepare_exec and mac_apply_stack.                                   *)
Exec(p, child, prog) ==
    LET text == IF Len(base_of(prog)) \in 1 .. BaseMax THEN profiles[base_of(prog)] ELSE {}
        pols == UNION {Parsed[t]: t \in text}
        ids == UNION {load(base_of(prog), pol): pol \in pols}
        stacks == IF text = {} THEN {Proc(p).stack} ELSE UNION {exec_stack(Proc(p).stack, id): id \in ids}
    IN  /\ Running(p) /\ ~Running(child) /\ MayCall(p, "exec")
        /\ Grants(p, Ask("exec", prog, "x"))
        /\ slots' = IF ids \subseteq DOMAIN slots THEN slots
                    ELSE Append(slots, [name |-> base_of(prog), policy |-> CHOOSE pol \in pols: TRUE])
        /\ procs' = [procs EXCEPT ![child] =
                        {[stack |-> s, root |-> Proc(p).root, under |-> Proc(p).under \cup text]: s \in stacks}]
        /\ UNCHANGED <<frozen, profiles, writes>>

(* mac_inherit_fork                                                        *)
Fork(p, child) ==
    /\ Running(p) /\ ~Running(child) /\ MayCall(p, "fork")
    /\ procs' = [procs EXCEPT ![child] = procs[p]]
    /\ UNCHANGED <<slots, frozen, profiles, writes>>

(* SYS_LOGIN as a user who is not root.                                    *)
Login(p) ==
    /\ Running(p) /\ p # BootPid /\ MayCall(p, "login") /\ Proc(p).root
    /\ procs' = [procs EXCEPT ![p] = {[Proc(p) EXCEPT !.root = FALSE]}]
    /\ UNCHANGED <<slots, frozen, profiles, writes>>

Exit(p) ==
    /\ Running(p) /\ p # BootPid /\ MayCall(p, "exit")
    /\ procs' = [procs EXCEPT ![p] = {}]
    /\ UNCHANGED <<slots, frozen, profiles, writes>>

(* The names that belong to policy files. *)
PolicyBases == {base \in DOMAIN OnDisk: is_policy_file(PolicyName(base))}

PolicyWriteAllowed(p, base) ==
    base \in PolicyBases => mac_is_admin(p) /\ ~frozen

WritePolicy(p, base, text) ==
    /\ Running(p) /\ MayCall(p, "write_file") /\ profiles[base] = {}
    /\ Grants(p, Ask("file", PolicyName(base), "w"))
    /\ PolicyWriteAllowed(p, base)
    /\ profiles' = [profiles EXCEPT ![base] = {text}]
    /\ writes < MaxWrites /\ writes' = writes + 1
    /\ UNCHANGED <<slots, frozen, procs>>

DeletePolicy(p, base) ==
    /\ Running(p) /\ MayCall(p, "delete_file") /\ profiles[base] # {}
    /\ Grants(p, Ask("file", PolicyName(base), "d"))
    /\ PolicyWriteAllowed(p, base)
    /\ profiles' = [profiles EXCEPT ![base] = {}]
    /\ UNCHANGED <<slots, frozen, procs, writes>>

Freeze(p) ==
    /\ Running(p) /\ MayCall(p, "mac_ctl") /\ mac_is_admin(p)
    /\ frozen' = TRUE
    /\ UNCHANGED <<slots, procs, profiles, writes>>

MacInit ==
    /\ slots = <<>> /\ frozen = FALSE /\ writes = 0
    /\ procs = [p \in MacPids |-> IF p = BootPid THEN {[stack |-> <<>>, root |-> TRUE, under |-> {}]} ELSE {}]
    /\ profiles = OnDisk

MacNext ==
    \E p \in MacPids:
         \/ \E child \in MacPids, prog \in Programs: Exec(p, child, prog)
         \/ \E child \in MacPids: Fork(p, child)
         \/ Login(p) \/ Exit(p) \/ Freeze(p)
         \/ \E base \in DOMAIN OnDisk: DeletePolicy(p, base) \/ \E text \in Texts: WritePolicy(p, base, text)

MacSpec == MacInit /\ [][MacNext]_macVars

----------------------------------------------------------------------------
(* What a pattern means: the text splits into the pieces the pattern asks  *)
(* for.                                                                    *)
Means(pat, text) ==
    \E cut \in [1 .. Len(pat) + 1 -> 1 .. Len(text) + 1]:
        /\ cut[1] = 1 /\ cut[Len(pat) + 1] = Len(text) + 1
        /\ \A i \in DOMAIN pat:
             IF pat[i] = "*" THEN cut[i] <= cut[i + 1]
             ELSE cut[i + 1] = cut[i] + 1 /\ SameLetter(pat[i], text[cut[i]])

(* What a profile text means, line by line.                                *)
Permits(text, req) ==
    \/ req.kind = "syscall" /\ req.op \in Always
    \/ \E l \in Range(text): l.word = "mode" /\ l.kind = "complain"
    \/ \E l \in Range(text):
         /\ l.word = "allow" /\ l.kind = req.kind
         /\ \E it \in Range(l.items):
              CASE l.kind = "syscall" -> it[1] \in {"*", req.op}
                [] l.kind = "file" -> req.op \in l.perms /\ Means(it, req.name)
                [] l.kind = "net" -> /\ req.op \in l.perms /\ it[1] \in {"*", req.name[1]}
                                     /\ PortOf(req.name[2]) \in PortOf(it[2]) .. PortOf(it[3])
                [] l.kind = "exec" -> Means(it, req.name)

Permitted == [t \in Texts |-> {req \in Asked: Permits(t, req)}]

\* A process may do exactly what the profiles it runs under allow: whatever order programs
\* are started, forked, their profile files deleted and rewritten and the policy frozen in,
\* a request is granted if and only if every profile text that the process or one of its
\* ancestors was started with allows it or only complains, so that nothing it starts sheds
\* a profile and no stale or foreign profile is applied (mac.rs, load, exec_stack, eval).
ConfinedAsWritten ==
    \A p \in MacPids, req \in Asked:
        Running(p) => (Grants(p, req) <=> \A text \in Proc(p).under: req \in Permitted[text])
=============================================================================
