-------------------------- MODULE FirewallPanel --------------------------
(***************************************************************************)
(* The firewall panel of the settings shell (settings.rs, FirewallConfig)  *)
(* beside the kernel's packet filter, which a second administrator's tool  *)
(* (novafw) changes at any moment.  A synchronisation is one SYS_FW_INFO   *)
(* call followed by one GET_RULE call for each rule, so the other          *)
(* administrator's steps fall between them.  A policy is TRUE for accept;  *)
(* a rule is [verdict, dir, port, state].  `stale` counts the changes made *)
(* by others since the panel last synchronised, at most Foreign.           *)
(***************************************************************************)
EXTENDS Naturals, Sequences, SequencesExt, FiniteSetsExt

CONSTANTS
    PanelRules,
    KernelRules,
    OtherRules,
    OtherDirs,
    Presets,
    Baseline,
    Foreign

VARIABLES
    fw,
    fp,
    sync,
    file,
    root,
    stale

fpVars == <<fw, fp, sync, file, root, stale>>

Rule(verdict, dir, port, state) ==
    [verdict |-> verdict, dir |-> dir, port |-> port, state |-> state]

SshRule == Rule("accept", "in", 22, "new")

HttpRule == Rule("accept", "in", 80, "new")

(* init_defaults(): replies, and pings from the local network *)
PanelDefaults == <<Rule("accept", "in", 0, "established"),
                   Rule("accept", "in", 0, "new")>>

-----------------------------------------------------------------------------
(* The kernel's side: fw_sys_ctl(), refused to all but root and once locked *)

Permits == root /\ ~fw.locked

SetPolicy(dir, accept) ==
    IF dir = "in" THEN [fw EXCEPT !.pin = accept] ELSE [fw EXCEPT !.pout = accept]

Added(r) == [fw EXCEPT !.rules = Append(@, r)]

Deleted(i) == [fw EXCEPT !.rules = RemoveAt(@, i)]

(* The other administrator's tool, in the sessions that can see its effect *)
OtherAdmin ==
    /\ root
    /\ \/ /\ ~fw.locked
          /\ stale < Foreign
          /\ stale' = stale + 1
          /\ \/ \E d \in OtherDirs, a \in BOOLEAN : fw' = SetPolicy(d, a)
             \/ fw' = [fw EXCEPT !.enabled = ~@]
             \/ \E r \in OtherRules : Len(fw.rules) < KernelRules /\ fw' = Added(r)
             \/ \E i \in DOMAIN fw.rules : fw' = Deleted(i)
       \/ /\ ~fw.locked
          /\ fw' = [fw EXCEPT !.locked = TRUE]
          /\ UNCHANGED stale
    /\ UNCHANGED <<fp, sync, file, root>>

-----------------------------------------------------------------------------
(* FIREWALL.CFG: to_bytes() writes every field; parse_into() looks for the *)
(* few words it knows, and "dport 80" is found in "dport 8080" too.        *)

ParsedPort(p) ==
    IF p \in {22, 2222} THEN 22 ELSE IF p \in {80, 8080} THEN 80 ELSE 0

ParsedRule(r) == Rule(r.verdict, r.dir, ParsedPort(r.port), r.state)

ToBytes == [pin |-> fp.pin, pout |-> fp.pout, rules |-> fp.rules]

(* Only a session that is not root's reads the file back *)
Unread == [pin |-> FALSE, pout |-> TRUE, rules |-> <<>>]

ParsedFile(p, f) ==
    LET n == Min({Len(f.rules), PanelRules})
    IN  [p EXCEPT !.pin = f.pin, !.pout = f.pout,
                  !.rules = IF n = 0 THEN PanelDefaults
                            ELSE [i \in 1..n |-> ParsedRule(f.rules[i])]]

-----------------------------------------------------------------------------
(* sync_from_kernel(), a step for each system call *)

Idle == sync = {}

ClampedTo(p, n) == [p EXCEPT !.sel = IF @ > n /\ n > 0 THEN n ELSE @]

SyncInfo ==
    /\ Idle
    /\ IF root
       THEN /\ fp' = [fp EXCEPT !.enabled = fw.enabled, !.pin = fw.pin,
                                !.pout = fw.pout]
            /\ sync' = {[i |-> 1, n |-> Min({Len(fw.rules), PanelRules})]}
            /\ stale' = 0
       ELSE UNCHANGED <<fp, sync, stale>>
    /\ UNCHANGED <<fw, file, root>>

(* A rule that is gone by now keeps what the panel held at that place; a  *)
(* place the panel never filled holds the default rule.                    *)
SyncRule ==
    \E s \in sync :
       LET held == IF s.i <= Len(fp.rules) THEN fp.rules[s.i]
                   ELSE Rule("accept", "in", 0, "any")
           got == IF s.i <= Len(fw.rules) THEN fw.rules[s.i] ELSE held
       IN  /\ s.i <= s.n
           /\ fp' = [fp EXCEPT !.rules =
                        IF s.i <= Len(@) THEN [@ EXCEPT ![s.i] = got]
                        ELSE Append(@, got)]
           /\ sync' = {[s EXCEPT !.i = @ + 1]}
           /\ UNCHANGED <<fw, file, root, stale>>

SyncDoneUncut ==
    \E s \in sync :
       /\ s.i > s.n
       /\ fp' = ClampedTo(fp, s.n)
       /\ sync' = {}
       /\ UNCHANGED <<fw, file, root, stale>>

SyncDone ==
    \E s \in sync :
       /\ s.i > s.n
       /\ fp' = ClampedTo([fp EXCEPT !.rules = SubSeq(@, 1, s.n)], s.n)
       /\ sync' = {}
       /\ UNCHANGED <<fw, file, root, stale>>

(* After a change the kernel accepted, the panel synchronises *)
ThenSync(w) ==
    /\ fw' = w
    /\ fp' = [fp EXCEPT !.enabled = w.enabled, !.pin = w.pin, !.pout = w.pout]
    /\ sync' = {[i |-> 1, n |-> Min({Len(w.rules), PanelRules})]}
    /\ stale' = 0
    /\ UNCHANGED <<file, root>>

-----------------------------------------------------------------------------
(* The buttons *)

apply_policy_to_kernel(dir, accept) ==
    IF Permits
    THEN /\ fw' = SetPolicy(dir, accept)
         /\ fp' = IF dir = "in" THEN [fp EXCEPT !.pin = accept]
                  ELSE [fp EXCEPT !.pout = accept]
    ELSE UNCHANGED <<fw, fp>>

FirewallToggleEnabled ==
    /\ Idle
    /\ IF Permits
       THEN /\ fw' = [fw EXCEPT !.enabled = ~fp.enabled]
            /\ fp' = [fp EXCEPT !.enabled = ~@]
       ELSE UNCHANGED <<fw, fp>>
    /\ UNCHANGED <<sync, file, root, stale>>

(* next = !inbound_drop is handed over as "accept" *)
FirewallToggleInbound ==
    /\ Idle
    /\ apply_policy_to_kernel("in", fp.pin)
    /\ UNCHANGED <<sync, file, root, stale>>

FirewallToggleOutbound ==
    /\ Idle
    /\ apply_policy_to_kernel("out", ~fp.pout)
    /\ UNCHANGED <<sync, file, root, stale>>

FirewallSelectRule(i) ==
    /\ Idle
    /\ i \in DOMAIN fp.rules
    /\ fp' = [fp EXCEPT !.sel = i]
    /\ UNCHANGED <<fw, sync, file, root, stale>>

FirewallAddPreset(r) ==
    /\ Idle
    /\ IF Len(fp.rules) < PanelRules /\ Permits /\ Len(fw.rules) < KernelRules
       THEN ThenSync(Added(r))
       ELSE UNCHANGED fpVars

FirewallDeleteRule ==
    /\ Idle
    /\ IF fp.sel <= Len(fp.rules) /\ Permits /\ fp.sel <= Len(fw.rules)
       THEN ThenSync(Deleted(fp.sel))
       ELSE UNCHANGED fpVars

(* save_firewall_cfg(): the file, if it can be created, then both policies *)
SaveFirewall ==
    /\ Idle
    /\ IF file = {}
       THEN /\ file' = {IF root THEN Unread ELSE ToBytes}
            /\ fw' = IF Permits THEN [fw EXCEPT !.pin = fp.pin, !.pout = fp.pout]
                     ELSE fw
       ELSE UNCHANGED <<file, fw>>
    /\ UNCHANGED <<fp, sync, root, stale>>

(* load_firewall_cfg() where the kernel refuses: the file *)
LoadFirewallFile ==
    /\ Idle
    /\ ~root
    /\ file # {}
    /\ \E f \in file : fp' = ParsedFile(fp, f)
    /\ UNCHANGED <<fw, sync, file, root, stale>>

FpInit ==
    /\ fw = [enabled |-> TRUE, locked |-> FALSE, pin |-> FALSE, pout |-> TRUE,
             rules |-> Baseline]
    /\ fp = [enabled |-> TRUE, pin |-> FALSE, pout |-> TRUE,
             rules |-> PanelDefaults, sel |-> 1]
    /\ sync = {}
    /\ file \in {{}, {Unread}} \cup {{[Unread EXCEPT !.rules = <<r>>]} : r \in OtherRules}
    /\ root \in BOOLEAN
    /\ stale = Foreign

FpNext ==
    \/ OtherAdmin
    \/ SyncInfo
    \/ SyncRule
    \/ SyncDone
    \/ FirewallToggleEnabled
    \/ FirewallToggleInbound
    \/ FirewallToggleOutbound
    \/ \E i \in 1..PanelRules : FirewallSelectRule(i)
    \/ \E r \in Presets : FirewallAddPreset(r)
    \/ FirewallDeleteRule
    \/ SaveFirewall
    \/ LoadFirewallFile

FpSpec == FpInit /\ [][FpNext]_fpVars

-----------------------------------------------------------------------------

(* Once it has synchronised, and as long as no other administrator changed *)
(* the filter since the synchronisation began, the panel shows what the    *)
(* kernel enforces: after every button, whether the kernel accepted the    *)
(* change or refused it because the filter is locked.                      *)
PanelMatchesKernel ==
    root /\ Idle /\ stale = 0
       => /\ fp.enabled = fw.enabled
          /\ fp.pin = fw.pin
          /\ fp.pout = fw.pout
          /\ fp.rules = SubSeq(fw.rules, 1, Min({Len(fw.rules), PanelRules}))

=============================================================================
