------------------------------- MODULE Services -------------------------------
(***************************************************************************)
(* novainit (userland/novainit-rs), the permanent PID 1 that supervises    *)
(* the services of SERVICES.CFG, with the status table through which the   *)
(* kernel (kernel/rust/services.rs) hands operator requests to it and its  *)
(* reports to everyone else.  A supervision pass is a loop over the        *)
(* services; services end, and operators ask, between any two of its       *)
(* iterations.  Launching and reaping processes is the kernel's and is     *)
(* modelled by a small table of processes.                                 *)
(***************************************************************************)
EXTENDS Integers, Sequences, FiniteSets, FiniteSetsExt, SequencesExt

CONSTANTS
  Lines,         \* the lines of SERVICES.CFG, each a sequence of its fields
  MaxServices,   \* MAX_SERVICES: the services novainit keeps
  MaxRestarts,   \* MAX_RESTARTS: the restarts before it gives up
  Pids,          \* the slots of the process table
  Operators      \* the names an operator may ask about

VARIABLES
  services,   \* novainit's table
  procs,      \* processes: "free", "running", or ended "clean" or in a "crash"
  pass,       \* the supervision pass: next service, whether anything changed
  status,     \* the kernel's table: the states published, the pending request
  launched,   \* ghost: processes launched since the last operator's request,
              \* counted up to one more than the bound
  quit        \* ghost: the services whose last exit was not to be followed by
              \* a restart

svVars == <<services, procs, pass, status, launched, quit>>

NoPid == -1
None == "-"
NoAction == [op |-> "none", name |-> None]

-----------------------------------------------------------------------------
(* Reading the configuration.                                              *)

parse_restart(s) == IF s \in {"always", "on-crash"} THEN s ELSE "never"

\* split_fields accepts a line of exactly six fields.
split_fields(line) == Len(line) = 6

Service(line) ==
  [name |-> line[1], exec |-> line[2], depends_on |-> line[4],
   restart |-> parse_restart(line[5]), trusted |-> line[6] = "yes",
   pid |-> NoPid, started |-> FALSE, restart_count |-> 0, gave_up |-> FALSE]

\* The header, empty and malformed lines are skipped, and whatever follows the
\* first MaxServices services is ignored.
parse_services_from_bytes(lines) ==
  LET good == SelectSeq(SubSeq(lines, 2, Len(lines)), split_fields)
      n == Min({MaxServices, Len(good)})
  IN [i \in 1..n |-> Service(good[i])]

Policies == parse_services_from_bytes(Lines)
Index == DOMAIN Policies

-----------------------------------------------------------------------------
(* What a pass decides.                                                    *)

\* A dependency is satisfied once the service of that name has been started,
\* and never when no service has that name.
dependency_satisfied(svc) ==
  \/ svc.depends_on = None
  \/ LET named == {i \in Index : services[i].name = svc.depends_on}
     IN named # {} /\ services[Min(named)].started

should_restart_after_exit(policy, code) ==
  CASE policy = "always" -> TRUE
    [] policy = "on-crash" -> code # "clean"
    [] OTHER -> FALSE

\* The eligibility test this program first had: it read the restart count.
eligible_by_count(svc) ==
  ~svc.gave_up /\ (svc.restart_count = 0 \/ svc.restart \in {"always", "on-crash"})

eligible(svc) ==
  ~svc.gave_up /\ (~svc.started \/ svc.restart \in {"always", "on-crash"})

\* The state the supervisor reports for a service.
Report(svc) ==
  CASE svc.pid # NoPid -> "running"
    [] svc.gave_up -> "crashed"
    [] ~dependency_satisfied(svc) -> "blocked"
    [] svc.started /\ svc.restart # "never" -> "restarting"
    [] OTHER -> "stopped"

\* The kernel's side: a request is taken by whoever asks for it first, and
\* publishing replaces the states and keeps the request.
rust_service_status_get_action(st) == [st EXCEPT !.pending = NoAction]

rust_service_status_publish(st, states) == [st EXCEPT !.states = states]

SvInit ==
  /\ services = Policies
  /\ procs = [p \in Pids |-> "free"]
  /\ pass = [at |-> 0, changed |-> FALSE]
  /\ status = [states |-> [i \in Index |-> Report(Policies[i])], pending |-> NoAction]
  /\ launched = [i \in Index |-> 0]
  /\ quit = {}

-----------------------------------------------------------------------------
(* The supervisor.                                                         *)

Free == {p \in Pids : procs[p] = "free"}

\* exec (or exec_trusted) returns the pid of a new process, or fails: no slot
\* or no such program.
start_service(i, svc, table, count) ==
  \/ /\ Free # {}
     /\ LET p == Min(Free) IN
          /\ services' = [services EXCEPT ![i] = [svc EXCEPT !.pid = p, !.started = TRUE]]
          /\ procs' = [table EXCEPT ![p] = "running"]
          /\ launched' = [launched EXCEPT ![i] = Min({count + 1, MaxRestarts + 2})]
          /\ quit' = quit \ {i}
  \/ /\ services' = [services EXCEPT ![i] = [svc EXCEPT !.pid = NoPid]]
     /\ procs' = table
     /\ launched' = [launched EXCEPT ![i] = count]
     /\ UNCHANGED quit

\* process_pending_actions: the request is taken from the kernel's table and
\* applied to the first service of that name.
process_pending_actions ==
  /\ pass.at = 0
  /\ status' = rust_service_status_get_action(status)
  /\ LET act == status.pending
         named == {i \in Index : services[i].name = act.name}
         known == act.op # "none" /\ named # {}
         i == Min(named)
     IN /\ pass' = [at |-> 1, changed |-> known]
        /\ IF ~known
           THEN UNCHANGED <<services, procs, launched, quit>>
           ELSE IF act.op = "stop"
           THEN /\ services' = [services EXCEPT ![i].gave_up = TRUE, ![i].pid = NoPid]
                /\ UNCHANGED <<procs, launched, quit>>
           ELSE start_service(i, [services[i] EXCEPT !.gave_up = FALSE, !.restart_count = 0],
                              procs, 0)

Next_(changed) == pass' = [at |-> pass.at + 1, changed |-> pass.changed \/ changed]

\* A service without a process is started when it is eligible and its
\* dependency is satisfied.
StartIdle(i) ==
  /\ pass.at = i /\ services[i].pid = NoPid
  /\ IF eligible(services[i]) /\ dependency_satisfied(services[i])
     THEN start_service(i, services[i], procs, launched[i]) /\ Next_(TRUE)
     ELSE Next_(FALSE) /\ UNCHANGED <<services, procs, launched, quit>>
  /\ UNCHANGED status

StillRunning(i) ==
  /\ pass.at = i /\ services[i].pid # NoPid /\ procs[services[i].pid] = "running"
  /\ Next_(FALSE) /\ UNCHANGED <<services, procs, status, launched, quit>>

\* A service whose process has ended is reaped by the wait; it is restarted,
\* given up, or left as its policy says.
Ended(i) ==
  /\ pass.at = i /\ services[i].pid # NoPid /\ procs[services[i].pid] # "running"
  /\ LET svc == [services[i] EXCEPT !.pid = NoPid]
         code == procs[services[i].pid]
         table == [procs EXCEPT ![services[i].pid] = "free"]
         again == should_restart_after_exit(svc.restart, code)
     IN IF again /\ svc.restart_count >= MaxRestarts
        THEN /\ services' = [services EXCEPT ![i] = [svc EXCEPT !.gave_up = TRUE]]
             /\ procs' = table /\ UNCHANGED <<launched, quit>>
        ELSE IF again
        THEN start_service(i, [svc EXCEPT !.restart_count = @ + 1], table, launched[i])
        ELSE /\ services' = [services EXCEPT ![i] = svc]
             /\ procs' = table /\ quit' = quit \cup {i} /\ UNCHANGED launched
  /\ Next_(TRUE) /\ UNCHANGED status

\* The end of a pass: the table is published when the pass changed anything.
\* The kernel keeps the request that arrived meanwhile.
publish_supervision_status ==
  /\ pass.at = Len(services) + 1
  /\ pass' = [at |-> 0, changed |-> FALSE]
  /\ status' = IF pass.changed
               THEN rust_service_status_publish(status, [i \in Index |-> Report(services[i])])
               ELSE status
  /\ UNCHANGED <<services, procs, launched, quit>>

supervise_pass ==
  \/ process_pending_actions
  \/ \E i \in Index : StartIdle(i) \/ StillRunning(i) \/ Ended(i)
  \/ publish_supervision_status

-----------------------------------------------------------------------------
(* Everyone else.                                                          *)

\* A control request: the table holds one, and a later one replaces it.  The
\* supervisor treats RESTART as START.
rust_service_status_control ==
  /\ \E op \in {"stop", "start"}, n \in Operators :
       status' = [status EXCEPT !.pending = [op |-> op, name |-> n]]
  /\ UNCHANGED <<services, procs, pass, launched, quit>>

\* A process ends, cleanly or not; one that no service refers to any more is
\* removed with it.
ProcessEnds ==
  /\ \E p \in Pids, code \in {"clean", "crash"} :
       /\ procs[p] = "running"
       /\ procs' = [procs EXCEPT ![p] =
                      IF \E i \in Index : services[i].pid = p THEN code ELSE "free"]
  /\ UNCHANGED <<services, pass, status, launched, quit>>

SvNext == supervise_pass \/ rust_service_status_control \/ ProcessEnds

SvSpec == SvInit /\ [][SvNext]_svVars

-----------------------------------------------------------------------------
(* Properties.                                                             *)

\* The crash loop is bounded (novainit.rs, MAX_RESTARTS): between two requests
\* of an operator, a service that is always restarted is launched at most
\* MaxRestarts + 1 times, however its exits, the failures to launch it and the
\* passes interleave, and one that is never restarted is launched once.
CrashLoopBounded ==
  \A i \in Index :
    /\ services[i].restart = "always" => launched[i] <= MaxRestarts + 1
    /\ services[i].restart = "never" => launched[i] <= 1

\* What the supervisor says when a service ends cleanly under the on-crash
\* policy, "exited (not restarting, per its own policy)": no pass launches the
\* service again unless an operator asks.
NotRestartedPerPolicy ==
  [][\A i \in quit : pass.at = i => services'[i].pid = NoPid]_svVars
=============================================================================
