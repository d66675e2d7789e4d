------------------------------ MODULE Scheduler ------------------------------
(***************************************************************************)
(* The SMP scheduler and the life of a process: kernel/task/scheduler.c,   *)
(* the creation, exit, wait and reap paths of kernel/task/process.c, the   *)
(* limit tick of kernel/task/rlimit.c and switch_context().                *)
(*                                                                         *)
(* A process is a slot of the process table; slots and pids are never      *)
(* recycled, so the slot number stands for the pid.  What a suspended      *)
(* process will do next lives on its kernel stack, so the program counter  *)
(* and the two possible do_schedule() frames (one from a call, one from an *)
(* interrupt taken over it) belong to the process, and a CPU executes      *)
(* whatever process's stack its esp is on.                                 *)
(***************************************************************************)
EXTENDS Naturals, FiniteSets

CONSTANTS
    NProc,        \* slots in the process table
    Cpus,         \* CPUs that schedule
    Bsp,          \* the boot CPU, the only one with a timer
    Idle,         \* the idle task's slot
    KernelTasks,  \* ring-0 tasks: their kernel code runs with interrupts on
    BspOnly,      \* process_t.bsp_only
    Boot,         \* processes published before scheduler_start()
    Limited,      \* processes with a CPU share or a CPU time limit
    WaitsFor,     \* WaitsFor[p]: the pids process p may pass to SYS_WAIT
    NoProc,       \* a NULL process pointer; the boot stack; the kernel's CR3
    Stale         \* a saved esp that has already been consumed

Procs == 0 .. NProc - 1

ASSUME TableAssumption ==
    /\ NProc \in Nat \ {0}
    /\ NoProc \notin Procs /\ Stale \notin Procs /\ Stale # NoProc
ASSUME CpuAssumption == Bsp \in Cpus
ASSUME TaskAssumption ==
    /\ Idle \in KernelTasks /\ Idle \in BspOnly
    /\ KernelTasks \subseteq Boot /\ BspOnly \subseteq Boot
    /\ Boot \subseteq Procs
    /\ Limited \subseteq Procs \ KernelTasks
    /\ WaitsFor \in [Procs -> SUBSET (Procs \ {Idle})]
    /\ \A p \in Procs : p \notin WaitsFor[p]

VARIABLES
    state,      \* process_t.state
    off_cpu,    \* process_t.off_cpu
    esp,        \* whose stack the saved process_t.esp points into, or Stale
    throttled,  \* process_t.rl.throttled
    kstack,     \* process_t.kernel_stack_alloc is not NULL
    pgdir,      \* process_t.page_directory_phys is not 0
    kfrees,     \* how often the kernel stack was passed to kfree()
    pfrees,     \* how often the address space was freed
    pc,         \* where the process's own code is
    target,     \* the pid it waits for, or the child it is building
    frame,      \* its do_schedule() activations, see Levels
    irq,        \* what its interrupt handler does once do_schedule() returns
    current,    \* current[cpu]
    cursor,     \* search_cursor
    tss,        \* whose kernel stack a CPU's TSS.esp0 names
    cr3,        \* whose page directory a CPU has loaded
    onStack,    \* whose kernel stack a CPU's esp is on
    publish,    \* the *done_flag store switch_context() has yet to make
    boot        \* the boot frame: scheduler_start() or scheduler_ap_join()

memVars == <<kstack, pgdir, kfrees, pfrees>>
procVars == <<state, off_cpu, esp, throttled>>
codeVars == <<pc, target, irq>>
cpuVars == <<current, cursor, tss, cr3, onStack, publish, boot>>
vars == <<memVars, procVars, codeVars, frame, cpuVars>>

States == {"UNUSED", "ALLOCATING", "READY", "RUNNING", "TERMINATED"}
MaybeProc == Procs \cup {NoProc}

(* A process has at most two do_schedule() activations on its stack: one   *)
(* that its own code called, and one of an interrupt taken over that call. *)
(* cpu, prev and next are the locals cpu_index, prev and next.             *)
Levels == {"call", "tick"}
Frame == [at : {"none", "entry", "lock", "load", "switch", "out"},
          cpu : Cpus, prev : MaybeProc, next : MaybeProc]
NoFrame == [at |-> "none", cpu |-> Bsp, prev |-> NoProc, next |-> NoProc]
Entry(c) == [at |-> "entry", cpu |-> c, prev |-> NoProc, next |-> NoProc]

BootFrame == [at : {"pick", "load", "switch", "gone"}, next : MaybeProc]

TypeOK ==
    /\ state \in [Procs -> States]
    /\ off_cpu \in [Procs -> BOOLEAN]
    /\ esp \in [Procs -> Procs \cup {Stale}]
    /\ throttled \in [Procs -> BOOLEAN]
    /\ kstack \in [Procs -> BOOLEAN] /\ pgdir \in [Procs -> BOOLEAN]
    /\ kfrees \in [Procs -> Nat] /\ pfrees \in [Procs -> Nat]
    /\ pc \in [Procs -> {"run", "spawn", "wait", "knull", "pfree", "pnull", "exit", "dead"}]
    /\ target \in [Procs -> MaybeProc]
    /\ frame \in [Procs -> [Levels -> Frame]]
    /\ irq \in [Procs -> {"none", "listen", "park", "resched"}]
    /\ current \in [Cpus -> MaybeProc]
    /\ cursor \in Procs
    /\ tss \in [Cpus -> MaybeProc] /\ cr3 \in [Cpus -> MaybeProc]
    /\ onStack \in [Cpus -> MaybeProc] /\ publish \in [Cpus -> MaybeProc]
    /\ boot \in [Cpus -> BootFrame]

(* main() has created the boot tasks; the BSP is about to call             *)
(* scheduler_start(), each AP scheduler_ap_join().                         *)
Init ==
    /\ state = [p \in Procs |-> IF p \in Boot THEN "READY" ELSE "UNUSED"]
    /\ off_cpu = [p \in Procs |-> p \in Boot]
    /\ esp = [p \in Procs |-> IF p \in Boot THEN p ELSE Stale]
    /\ throttled = [p \in Procs |-> FALSE]
    /\ kstack = [p \in Procs |-> p \in Boot]
    /\ pgdir = [p \in Procs |-> p \in Boot]
    /\ kfrees = [p \in Procs |-> 0] /\ pfrees = [p \in Procs |-> 0]
    /\ pc = [p \in Procs |-> "run"]
    /\ target = [p \in Procs |-> NoProc]
    /\ frame = [p \in Procs |-> [l \in Levels |-> NoFrame]]
    /\ irq = [p \in Procs |-> "none"]
    /\ current = [c \in Cpus |-> NoProc]
    /\ cursor = NProc - 1
    /\ tss = [c \in Cpus |-> NoProc] /\ cr3 = [c \in Cpus |-> NoProc]
    /\ onStack = [c \in Cpus |-> NoProc] /\ publish = [c \in Cpus |-> NoProc]
    /\ boot = [c \in Cpus |-> [at |-> "pick", next |-> NoProc]]

-----------------------------------------------------------------------------
(* The activation a process is executing, or suspended in.               *)
Level(p) == IF frame[p]["tick"].at # "none" THEN "tick" ELSE "call"
Top(p) == frame[p][Level(p)]
SetTop(p, f) == frame' = [frame EXCEPT ![p][Level(p)] = f]
Return(p) == SetTop(p, NoFrame)

(* The stack that loading p's saved esp puts a CPU on.  Nothing clears an  *)
(* esp that has been consumed: it still points into the stack of p.        *)
Resumed(p) == IF esp[p] = Stale THEN p ELSE esp[p]

(* CPU c executes the code of process p: it is on p's stack and past the   *)
(* last instruction of switch_context().                                   *)
Executes(c, p) == onStack[c] = p /\ publish[c] = NoProc

(* ... and is not inside do_schedule().                                    *)
OwnCode(c, p) == Executes(c, p) /\ Top(p).at = "none"

(* EFLAGS.IF.  System calls run with interrupts off, so a user process is  *)
(* interruptible only in ring 3; a kernel task is, except in its locked    *)
(* section and what follows it, and in an interrupt handler.               *)
InterruptsOn(p) ==
    /\ irq[p] = "none" /\ frame[p]["tick"].at = "none"
    /\ IF p \in KernelTasks
       THEN frame[p]["call"].at \in {"none", "entry", "lock"}
       ELSE frame[p]["call"].at = "none" /\ pc[p] = "run"

-----------------------------------------------------------------------------
(* pick_next_locked(): the first eligible slot after search_cursor.        *)
ReadyWork(p, i) == state[p] = "READY" /\ off_cpu[p] /\ ~throttled[p]
                   /\ (i # Bsp => p \notin BspOnly)
(* Mutants: the scan forgets off_cpu, bsp_only, or throttled.              *)
EligibleNoHandshake(p, i) ==
    /\ ~throttled[p]
    /\ state[p] = "READY" \/ (state[p] = "RUNNING" /\ current[i] = p)
    /\ i # Bsp => p \notin BspOnly
EligibleThrottled(p, i) ==
    /\ (state[p] = "READY" /\ off_cpu[p]) \/ (state[p] = "RUNNING" /\ current[i] = p)
    /\ i # Bsp => p \notin BspOnly
Eligible(p, i) ==
    /\ ~throttled[p]
    /\ \/ state[p] = "READY" /\ off_cpu[p]
       \/ state[p] = "RUNNING" /\ current[i] = p
    /\ i # Bsp => p \notin BspOnly
(* Mutant: the scan always starts at slot 0.                               *)
DistanceFromZero(p) == p
Distance(p) == (p + NProc - 1 - cursor) % NProc
IsPick(p, i) ==
    /\ Eligible(p, i)
    /\ \A q \in Procs : Eligible(q, i) => Distance(p) <= Distance(q)

-----------------------------------------------------------------------------
(* scheduler_start() on the BSP, scheduler_ap_join() on an AP.             *)
BootPick(c) ==
    /\ boot[c].at = "pick"
    /\ \E first \in Procs :
        /\ IsPick(first, c)
        /\ cursor' = first
        /\ current' = [current EXCEPT ![c] = first]
        /\ state' = [state EXCEPT ![first] = "RUNNING"]
        /\ boot' = [boot EXCEPT ![c] = [at |-> "load", next |-> first]]
    /\ UNCHANGED <<memVars, off_cpu, esp, throttled, codeVars, frame, tss, cr3, onStack, publish>>

BootLoad(c) ==
    LET first == boot[c].next IN
    /\ boot[c].at = "load"
    /\ tss' = [tss EXCEPT ![c] = first]
    /\ cr3' = [cr3 EXCEPT ![c] = first]
    /\ off_cpu' = [off_cpu EXCEPT ![first] = FALSE]
    /\ boot' = [boot EXCEPT ![c].at = "switch"]
    /\ UNCHANGED <<memVars, state, esp, throttled, codeVars, frame, current, cursor, onStack, publish>>

(* switch_context(&startup_esp[c], first->esp, NULL): no done_flag.        *)
BootSwitch(c) ==
    LET first == boot[c].next
        owner == Resumed(first) IN
    /\ boot[c].at = "switch"
    /\ onStack' = [onStack EXCEPT ![c] = owner]
    /\ esp' = [esp EXCEPT ![first] = Stale]
    /\ Return(owner)
    /\ boot' = [boot EXCEPT ![c] = [at |-> "gone", next |-> NoProc]]
    /\ UNCHANGED <<memVars, state, off_cpu, throttled, codeVars, current, cursor, tss, cr3, publish>>

-----------------------------------------------------------------------------
(* do_schedule(cpu_index), up to the lock: prev = current[cpu_index], and  *)
(* the early returns.                                                      *)
EnterSchedule(c, p) ==
    LET i == Top(p).cpu
        prev == current[i] IN
    /\ Executes(c, p) /\ Top(p).at = "entry"
    /\ IF \/ prev = NoProc
          \/ state[prev] = "TERMINATED" /\ ~ \E q \in Procs : ReadyWork(q, i)
       THEN Return(p)
       ELSE SetTop(p, [Top(p) EXCEPT !.at = "lock", !.prev = prev])
    /\ UNCHANGED <<memVars, procVars, codeVars, cpuVars>>

(* Nothing to pick: the lock is released and prev runs on.                 *)
PickNothing(c, p) ==
    /\ Executes(c, p) /\ Top(p).at = "lock"
    /\ \A q \in Procs : ~Eligible(q, Top(p).cpu)
    /\ Return(p)
    /\ UNCHANGED <<memVars, procVars, codeVars, cpuVars>>

PickSame(c, p) ==
    LET i == Top(p).cpu
        prev == Top(p).prev IN
    /\ Executes(c, p) /\ Top(p).at = "lock"
    /\ IsPick(prev, i)
    /\ cursor' = prev
    /\ state' = [state EXCEPT ![prev] = "RUNNING"]
    /\ Return(p)
    /\ UNCHANGED <<memVars, off_cpu, esp, throttled, codeVars, current, tss, cr3, onStack, publish, boot>>

(* A mutant of PickOther below: prev becomes READY even when it is dead.   *)
PickRevives(c, p) ==
    LET i == Top(p).cpu
        prev == Top(p).prev IN
    /\ Executes(c, p) /\ Top(p).at = "lock"
    /\ \E next \in Procs \ {prev} :
        /\ IsPick(next, i)
        /\ cursor' = next
        /\ state' = [state EXCEPT ![prev] = "READY", ![next] = "RUNNING"]
        /\ off_cpu' = [off_cpu EXCEPT ![next] = FALSE]
        /\ current' = [current EXCEPT ![i] = next]
        /\ SetTop(p, [Top(p) EXCEPT !.at = "load", !.next = next])
    /\ UNCHANGED <<memVars, esp, throttled, codeVars, tss, cr3, onStack, publish, boot>>

PickOther(c, p) ==
    LET i == Top(p).cpu
        prev == Top(p).prev IN
    /\ Executes(c, p) /\ Top(p).at = "lock"
    /\ \E next \in Procs \ {prev} :
        /\ IsPick(next, i)
        /\ cursor' = next
        /\ state' = [state EXCEPT ![prev] = IF @ = "RUNNING" THEN "READY" ELSE @,
                                  ![next] = "RUNNING"]
        /\ off_cpu' = [off_cpu EXCEPT ![next] = FALSE]
        /\ current' = [current EXCEPT ![i] = next]
        /\ SetTop(p, [Top(p) EXCEPT !.at = "load", !.next = next])
    /\ UNCHANGED <<memVars, esp, throttled, codeVars, tss, cr3, onStack, publish, boot>>

(* tss_set_kernel_stack() by index, paging_switch_address_space() on the   *)
(* CPU that executes it.                                                   *)
LoadSpace(c, p) ==
    LET f == Top(p) IN
    /\ Executes(c, p) /\ f.at = "load"
    /\ tss' = [tss EXCEPT ![f.cpu] = f.next]
    /\ cr3' = [cr3 EXCEPT ![c] = f.next]
    /\ SetTop(p, [f EXCEPT !.at = "switch"])
    /\ UNCHANGED <<memVars, procVars, codeVars, current, cursor, onStack, publish, boot>>

(* switch_context(&prev->esp, next->esp, &prev->off_cpu): the running      *)
(* stack is saved as prev's, the one saved as next's is consumed and its   *)
(* suspended do_schedule() returns.                                        *)
SwitchContext(c, p) ==
    LET f == Top(p)
        owner == Resumed(f.next) IN
    /\ Executes(c, p) /\ f.at = "switch"
    /\ esp' = [esp EXCEPT ![f.prev] = p, ![f.next] = Stale]
    /\ onStack' = [onStack EXCEPT ![c] = owner]
    /\ publish' = [publish EXCEPT ![c] = f.prev]
    /\ frame' = [frame EXCEPT ![p][Level(p)].at = "out", ![owner][Level(owner)] = NoFrame]
    /\ UNCHANGED <<memVars, state, off_cpu, throttled, codeVars, current, cursor, tss, cr3, boot>>

(* The last instruction of switch_context() that names the old process:    *)
(* mov dword [done_flag], 1.                                               *)
PublishOffCpu(c) ==
    /\ publish[c] # NoProc
    /\ off_cpu' = [off_cpu EXCEPT ![publish[c]] = TRUE]
    /\ publish' = [publish EXCEPT ![c] = NoProc]
    /\ UNCHANGED <<memVars, state, esp, throttled, codeVars, frame, current, cursor, tss, cr3, onStack, boot>>

-----------------------------------------------------------------------------
(* scheduler_yield(): SYS_YIELD, the wait loop, and the last loop of       *)
(* process_exit_current().  The CPU index is read here and used later.     *)
Yield(c, p) ==
    /\ OwnCode(c, p) /\ irq[p] = "none"
    /\ pc[p] = "dead" \/ (pc[p] = "run" /\ p \notin KernelTasks)
    /\ SetTop(p, Entry(c))
    /\ UNCHANGED <<memVars, procVars, codeVars, cpuVars>>

-----------------------------------------------------------------------------
(* timer_tick() on the BSP: at the end of a quantum the hook               *)
(* scheduler_on_tick() runs first, the listeners after it.  When the hook  *)
(* switches away they run when the interrupted process is resumed.         *)
Tick(c, p, quantumEnds) ==
    /\ c = Bsp /\ Executes(c, p) /\ InterruptsOn(p)
    /\ irq' = [irq EXCEPT ![p] = "listen"]
    /\ frame' = IF quantumEnds THEN [frame EXCEPT ![p]["tick"] = Entry(c)] ELSE frame
    /\ UNCHANGED <<memVars, procVars, pc, target, cpuVars>>

(* rlimit_bsp_tick(): releases the throttled processes whose window has    *)
(* rolled over, then applies rl_verdict() to the current process.          *)
ListenAllow(c, p) ==
    /\ OwnCode(c, p) /\ irq[p] = "listen"
    /\ \E released \in SUBSET {q \in Procs : throttled[q] /\ state[q] \notin {"UNUSED", "TERMINATED"}} :
        /\ throttled' = [q \in Procs |-> throttled[q] /\ q \notin released]
        /\ IF released # {} THEN frame' = [frame EXCEPT ![p]["tick"] = Entry(c)] ELSE UNCHANGED frame
    /\ irq' = [irq EXCEPT ![p] = "none"]
    /\ UNCHANGED <<memVars, state, off_cpu, esp, pc, target, cpuVars>>

(* enforce_current() throttles it and reschedules; force_resched() comes   *)
(* once more when the same tick released another process.                  *)
ListenThrottle(c, p) ==
    /\ OwnCode(c, p) /\ irq[p] = "listen"
    /\ p \in Limited /\ state[p] = "RUNNING" /\ ~throttled[p]
    /\ \E released \in SUBSET {q \in Procs : throttled[q] /\ state[q] \notin {"UNUSED", "TERMINATED"}} :
        /\ throttled' = [q \in Procs |-> q = p \/ (throttled[q] /\ q \notin released)]
        /\ irq' = [irq EXCEPT ![p] = IF released # {} THEN "resched" ELSE "none"]
    /\ frame' = [frame EXCEPT ![p]["tick"] = Entry(c)]
    /\ UNCHANGED <<memVars, state, off_cpu, esp, pc, target, cpuVars>>

Resched(c, p) ==
    /\ OwnCode(c, p) /\ irq[p] = "resched"
    /\ irq' = [irq EXCEPT ![p] = "none"]
    /\ frame' = [frame EXCEPT ![p]["tick"] = Entry(c)]
    /\ UNCHANGED <<memVars, procVars, pc, target, cpuVars>>

(* rlimit_ipi_handler() on a CPU the limit tick was forwarded to; Exit is  *)
(* its other verdict.  rl_verdict() asks for a throttle only once.         *)
IpiThrottle(c, p) ==
    /\ Executes(c, p) /\ InterruptsOn(p)
    /\ p \in Limited /\ state[p] = "RUNNING"
    /\ throttled' = [throttled EXCEPT ![p] = TRUE]
    /\ irq' = [irq EXCEPT ![p] = "park"]
    /\ frame' = IF throttled[p] THEN frame ELSE [frame EXCEPT ![p]["tick"] = Entry(c)]
    /\ UNCHANGED <<memVars, state, off_cpu, esp, pc, target, cpuVars>>

(* Its loop: while (p->rl.throttled && scheduler_current() == p).          *)
Park(c, p) ==
    /\ OwnCode(c, p) /\ irq[p] = "park"
    /\ IF throttled[p] /\ current[c] = p
       THEN frame' = [frame EXCEPT ![p]["tick"] = Entry(c)] /\ UNCHANGED irq
       ELSE irq' = [irq EXCEPT ![p] = "none"] /\ UNCHANGED frame
    /\ UNCHANGED <<memVars, procVars, pc, target, cpuVars>>

-----------------------------------------------------------------------------
(* process_exit_current(), from SYS_EXIT, a fault, or enforce_current() in *)
(* a timer tick or limit IPI taken in ring 3.  The resource hooks come     *)
(* first, the state change after them.                                     *)
Exit(c, p) ==
    /\ OwnCode(c, p) /\ pc[p] = "run" /\ p # Idle
    /\ irq[p] = "none" \/ (irq[p] = "listen" /\ p \in Limited /\ state[p] = "RUNNING")
    /\ pc' = [pc EXCEPT ![p] = "exit"]
    /\ irq' = [irq EXCEPT ![p] = "none"]
    /\ UNCHANGED <<memVars, procVars, target, frame, cpuVars>>

Terminate(c, p) ==
    /\ OwnCode(c, p) /\ pc[p] = "exit" /\ irq[p] = "none"
    /\ state' = [state EXCEPT ![p] = "TERMINATED"]
    /\ pc' = [pc EXCEPT ![p] = "dead"]
    /\ UNCHANGED <<memVars, off_cpu, esp, throttled, target, irq, frame, cpuVars>>

(* allocate_slot(), under process_table_lock.                              *)
AllocateSlot(c, p) ==
    /\ OwnCode(c, p) /\ pc[p] = "run" /\ irq[p] = "none" /\ p # Idle
    /\ \E q \in Procs :
        /\ state[q] = "UNUSED" /\ \A r \in Procs : state[r] = "UNUSED" => q <= r
        /\ state' = [state EXCEPT ![q] = "ALLOCATING"]
        /\ target' = [target EXCEPT ![p] = q]
    /\ pc' = [pc EXCEPT ![p] = "spawn"]
    /\ UNCHANGED <<memVars, off_cpu, esp, throttled, irq, frame, cpuVars>>

(* The child's stack and address space are built; process_publish().       *)
Publish(c, p) ==
    LET q == target[p] IN
    /\ OwnCode(c, p) /\ pc[p] = "spawn" /\ irq[p] = "none"
    /\ kstack' = [kstack EXCEPT ![q] = TRUE]
    /\ pgdir' = [pgdir EXCEPT ![q] = TRUE]
    /\ esp' = [esp EXCEPT ![q] = q]
    /\ off_cpu' = [off_cpu EXCEPT ![q] = TRUE]
    /\ state' = [state EXCEPT ![q] = "READY"]
    /\ pc' = [pc EXCEPT ![p] = "run"]
    /\ target' = [target EXCEPT ![p] = NoProc]
    /\ UNCHANGED <<kfrees, pfrees, throttled, irq, frame, cpuVars>>

(* An allocation, load or quota failure: the slot stays ALLOCATING.        *)
Abandon(c, p) ==
    /\ OwnCode(c, p) /\ pc[p] = "spawn" /\ irq[p] = "none"
    /\ pc' = [pc EXCEPT ![p] = "run"]
    /\ target' = [target EXCEPT ![p] = NoProc]
    /\ UNCHANGED <<memVars, procVars, irq, frame, cpuVars>>

-----------------------------------------------------------------------------
(* process_wait(pid).                                                      *)
Wait(c, p, q) ==
    /\ OwnCode(c, p) /\ pc[p] = "run" /\ irq[p] = "none" /\ q \in WaitsFor[p]
    /\ pc' = [pc EXCEPT ![p] = "wait"]
    /\ target' = [target EXCEPT ![p] = q]
    /\ UNCHANGED <<memVars, procVars, irq, frame, cpuVars>>

(* Mutant: reapable as soon as it is TERMINATED.                           *)
ReapableWhenDead(q) == state[q] = "TERMINATED"
Reapable(q) == state[q] = "TERMINATED" /\ off_cpu[q]

Waiting(c, p) == OwnCode(c, p) /\ pc[p] = "wait" /\ irq[p] = "none"

NoSuchPid(c, p) ==
    /\ Waiting(c, p) /\ state[target[p]] = "UNUSED"
    /\ pc' = [pc EXCEPT ![p] = "run"]
    /\ target' = [target EXCEPT ![p] = NoProc]
    /\ UNCHANGED <<memVars, procVars, irq, frame, cpuVars>>

WaitYield(c, p) ==
    /\ Waiting(c, p) /\ state[target[p]] # "UNUSED" /\ ~Reapable(target[p])
    /\ SetTop(p, Entry(c))
    /\ UNCHANGED <<memVars, procVars, codeVars, cpuVars>>

(* try_reap_process() holds no lock: the tests, kfree() and the store of   *)
(* NULL are steps other CPUs can come between.  Mutant: a second wait on a *)
(* reaped process is not answered.                                         *)
ReapStackOnce(c, p) ==
    LET q == target[p] IN
    /\ Waiting(c, p) /\ Reapable(q) /\ kstack[q]
    /\ kfrees' = [kfrees EXCEPT ![q] = @ + 1]
    /\ pc' = [pc EXCEPT ![p] = "knull"]
    /\ UNCHANGED <<kstack, pgdir, pfrees, procVars, target, irq, frame, cpuVars>>

ReapStack(c, p) ==
    LET q == target[p] IN
    /\ Waiting(c, p) /\ Reapable(q)
    /\ kfrees' = IF kstack[q] THEN [kfrees EXCEPT ![q] = @ + 1] ELSE kfrees
    /\ pc' = [pc EXCEPT ![p] = IF kstack[q] THEN "knull" ELSE "pfree"]
    /\ UNCHANGED <<kstack, pgdir, pfrees, procVars, target, irq, frame, cpuVars>>

ClearStack(c, p) ==
    /\ OwnCode(c, p) /\ pc[p] = "knull" /\ irq[p] = "none"
    /\ kstack' = [kstack EXCEPT ![target[p]] = FALSE]
    /\ pc' = [pc EXCEPT ![p] = "pfree"]
    /\ UNCHANGED <<pgdir, kfrees, pfrees, procVars, target, irq, frame, cpuVars>>

(* free_user_address_space(): user processes only.                         *)
ReapSpace(c, p) ==
    LET q == target[p]
        frees == pgdir[q] /\ q \notin KernelTasks IN
    /\ OwnCode(c, p) /\ pc[p] = "pfree" /\ irq[p] = "none"
    /\ pfrees' = IF frees THEN [pfrees EXCEPT ![q] = @ + 1] ELSE pfrees
    /\ pc' = [pc EXCEPT ![p] = IF frees THEN "pnull" ELSE "run"]
    /\ target' = IF frees THEN target ELSE [target EXCEPT ![p] = NoProc]
    /\ UNCHANGED <<kstack, pgdir, kfrees, procVars, irq, frame, cpuVars>>

ClearSpace(c, p) ==
    /\ OwnCode(c, p) /\ pc[p] = "pnull" /\ irq[p] = "none"
    /\ pgdir' = [pgdir EXCEPT ![target[p]] = FALSE]
    /\ pc' = [pc EXCEPT ![p] = "run"]
    /\ target' = [target EXCEPT ![p] = NoProc]
    /\ UNCHANGED <<kstack, kfrees, pfrees, procVars, irq, frame, cpuVars>>

-----------------------------------------------------------------------------
BootStep(c) == BootPick(c) \/ BootLoad(c) \/ BootSwitch(c)

Schedule(c, p) ==
    \/ EnterSchedule(c, p) \/ PickNothing(c, p) \/ PickSame(c, p) \/ PickOther(c, p)
    \/ LoadSpace(c, p) \/ SwitchContext(c, p)

Interrupt(c, p) ==
    \/ Tick(c, p, TRUE) \/ Tick(c, p, FALSE)
    \/ ListenAllow(c, p) \/ ListenThrottle(c, p) \/ Resched(c, p)
    \/ IpiThrottle(c, p) \/ Park(c, p)

Syscall(c, p) ==
    \/ Yield(c, p) \/ Exit(c, p) \/ Terminate(c, p)
    \/ AllocateSlot(c, p) \/ Publish(c, p) \/ Abandon(c, p)
    \/ \E q \in Procs : Wait(c, p, q)
    \/ NoSuchPid(c, p) \/ WaitYield(c, p)
    \/ ReapStack(c, p) \/ ClearStack(c, p) \/ ReapSpace(c, p) \/ ClearSpace(c, p)

Next ==
    \E c \in Cpus :
        \/ BootStep(c)
        \/ PublishOffCpu(c)
        \/ \E p \in Procs : Schedule(c, p) \/ Interrupt(c, p) \/ Syscall(c, p)

Spec == Init /\ [][Next]_vars

(* A CPU that has kernel code to execute executes it.                      *)
KernelCode(c, p) ==
    \/ Schedule(c, p)
    \/ ListenAllow(c, p) \/ ListenThrottle(c, p) \/ Resched(c, p) \/ Park(c, p)
    \/ pc[p] = "dead" /\ Yield(c, p)
    \/ Terminate(c, p) \/ Publish(c, p) \/ Abandon(c, p)
    \/ NoSuchPid(c, p) \/ WaitYield(c, p)
    \/ ReapStack(c, p) \/ ClearStack(c, p) \/ ReapSpace(c, p) \/ ClearSpace(c, p)

(* A pending timer interrupt is delivered at the first instruction that    *)
(* runs with interrupts on, so quanta end again and again on the BSP.      *)
Fairness ==
    /\ \A c \in Cpus : WF_vars(BootStep(c)) /\ WF_vars(PublishOffCpu(c))
    /\ \A c \in Cpus, p \in Procs : WF_vars(KernelCode(c, p))
    /\ SF_vars(\E p \in Procs : Tick(Bsp, p, TRUE))

FairSpec == Spec /\ Fairness

-----------------------------------------------------------------------------
(* Two CPUs never execute on one kernel stack.                             *)
OneCpuPerStack ==
    \A c, d \in Cpus : c # d /\ onStack[c] = onStack[d] => onStack[c] = NoProc

(* The esp a CPU is about to load is the one its process was suspended     *)
(* with: not consumed before, and not another process's.                   *)
SavedContext ==
    \A c \in Cpus :
        /\ boot[c].at = "switch" => esp[boot[c].next] = boot[c].next
        /\ \A p \in Procs : Executes(c, p) /\ Top(p).at = "switch" => esp[Top(p).next] = Top(p).next

(* process_is_reapable() implies that no CPU is on the process's stack and *)
(* none has its page directory loaded; nothing freed is used afterwards.   *)
ReapSafe ==
    \A q \in Procs :
        Reapable(q) \/ kfrees[q] > 0 \/ pfrees[q] > 0
            => \A c \in Cpus : onStack[c] # q /\ tss[c] # q /\ cr3[c] # q

(* A RUNNING process is current on exactly one CPU, and a CPU's current    *)
(* process is RUNNING or has just died on it.                              *)
RunningIsCurrent ==
    /\ \A p \in Procs : state[p] = "RUNNING" =>
            \E c \in Cpus : current[c] = p /\ \A d \in Cpus : current[d] = p => d = c
    /\ \A c \in Cpus : current[c] # NoProc => state[current[c]] \in {"RUNNING", "TERMINATED"}

(* A bsp_only process is never executed by an AP.                          *)
BspOnlyStays == \A c \in Cpus : onStack[c] \in BspOnly => c = Bsp

(* wait() frees a dead process's stack and address space exactly once.     *)
FreedOnce == \A q \in Procs : kfrees[q] <= 1 /\ pfrees[q] <= 1

(* A throttled process executes nothing of its own until it is released.   *)
ThrottledDoesNotRun ==
    \A c \in Cpus, p \in Procs : OwnCode(c, p) /\ irq[p] = "none" => ~throttled[p]

(* A process that has terminated is never made runnable again.             *)
DeadStaysDead ==
    [][\A p \in Procs : state[p] = "TERMINATED" => state'[p] = "TERMINATED"]_vars

(* On one CPU every runnable process gets it: the search starts after the  *)
(* last pick, so nobody is overtaken for ever. On several, the cursor they *)
(* share can pass over a process pinned to the BSP for ever.               *)
NoStarvation ==
    \A p \in Procs : state[p] = "READY" ~> (state[p] = "RUNNING" \/ throttled[p])

(* process_wait() on a dead process returns.                               *)
WaitReturns ==
    \A p, q \in Procs :
        pc[p] = "wait" /\ target[p] = q /\ Reapable(q) ~> pc[p] = "run"

-----------------------------------------------------------------------------
(* The inductive invariant behind the safety properties.  It holds for any *)
(* numbers of CPUs and processes when every kernel task is pinned.         *)
KernelTasksPinned == KernelTasks \subseteq BspOnly

(* CPU c has chosen its next process and is still on the old one's stack.  *)
Leaving(c) == onStack[c] \in Procs /\ Top(onStack[c]).at \in {"load", "switch"}
Loaded(c) == boot[c].at = "switch" \/ (Leaving(c) /\ Top(onStack[c]).at = "switch")
(* ... to which no stack has been switched yet.                            *)
Incoming(c) == boot[c].at \in {"load", "switch"} \/ Leaving(c)

BootInv ==
    \A c \in Cpus :
        /\ boot[c].at # "gone" => onStack[c] = NoProc /\ publish[c] = NoProc
        /\ boot[c].at = "pick" => current[c] = NoProc
        /\ boot[c].at \in {"load", "switch"} => boot[c].next = current[c]
        /\ boot[c].at # "pick" => current[c] \in Procs
        /\ boot[c].at = "gone" => onStack[c] \in Procs

CpuOk(c) ==
    /\ boot[c].at = "gone" =>
        IF Leaving(c) THEN Top(onStack[c]).next = current[c] ELSE current[c] = onStack[c]
    /\ cr3[c] = (IF Loaded(c) THEN current[c] ELSE onStack[c])
    /\ tss[c] = cr3[c]
    /\ current[c] \in BspOnly \/ onStack[c] \in BspOnly => c = Bsp
CpuInv == \A c \in Cpus : CpuOk(c)

CurrentInv ==
    /\ \A c \in Cpus : current[c] \in Procs => state[current[c]] \in {"RUNNING", "TERMINATED"}
    /\ \A c, d \in Cpus : current[c] = current[d] /\ current[c] \in Procs => c = d
    /\ \A p \in Procs : state[p] = "RUNNING" => \E c \in Cpus : current[c] = p

StackInv ==
    /\ \A c \in Cpus : onStack[c] \in Procs => ~off_cpu[onStack[c]]
    /\ \A c, d \in Cpus : onStack[c] = onStack[d] /\ onStack[c] \in Procs => c = d

(* A process chosen but not yet switched to still has its context saved.   *)
IncomingInv ==
    \A c \in Cpus : Incoming(c) =>
        /\ esp[current[c]] = current[c] /\ state[current[c]] = "RUNNING"
        /\ off_cpu[current[c]] => boot[c].at = "load"
        /\ \A d \in Cpus : onStack[d] # current[c] /\ publish[d] # current[c]

(* Between switch_context()'s stack switch and its done_flag store.        *)
PublishInv ==
    \A c \in Cpus : publish[c] \in Procs =>
        /\ ~Leaving(c) /\ ~off_cpu[publish[c]]
        /\ esp[publish[c]] = publish[c]
        /\ state[publish[c]] \in {"READY", "TERMINATED"}
        /\ \A d \in Cpus : onStack[d] # publish[c] /\ current[d] # publish[c]
        /\ \A d \in Cpus : publish[d] = publish[c] => d = c

(* off_cpu is the handshake: nobody is on the stack and esp is valid.      *)
OffCpuInv ==
    \A p \in Procs : off_cpu[p] =>
        /\ esp[p] = p
        /\ state[p] \in {"READY", "RUNNING", "TERMINATED"}
        /\ \A c \in Cpus : current[c] = p => boot[c].at = "load"

FrameOk(p) ==
    /\ \A l \in Levels : frame[p][l].at \in {"lock", "load", "switch", "out"} => frame[p][l].prev = p
    /\ frame[p]["tick"].at # "none" => frame[p]["call"].at \in {"none", "entry", "lock"}
    /\ p \in KernelTasks => \A l \in Levels :
            frame[p][l].at \in {"entry", "lock", "load", "switch"} => frame[p][l].cpu = Bsp
    /\ p \notin KernelTasks /\ frame[p]["tick"].at # "none" => frame[p]["call"].at = "none"
    /\ (\A c \in Cpus : onStack[c] # p) => Top(p).at \in {"none", "out"}
    /\ \A c \in Cpus : onStack[c] = p =>
            /\ Top(p).at # "out"
            /\ Top(p).at \in {"entry", "lock", "load", "switch"} => Top(p).cpu = c
FrameInv == \A p \in Procs : FrameOk(p)

SpawnInv ==
    /\ \A p \in Procs : state[p] \in {"UNUSED", "ALLOCATING"} =>
            ~off_cpu[p] /\ \A c \in Cpus : onStack[c] # p
    /\ \A p \in Procs : pc[p] = "spawn" => target[p] \in Procs /\ state[target[p]] = "ALLOCATING"
    /\ \A p, q \in Procs : pc[p] = "spawn" /\ pc[q] = "spawn" /\ target[p] = target[q] => p = q

ReapInv ==
    /\ \A p \in Procs : pc[p] \in {"wait", "knull", "pfree", "pnull"} => target[p] \in Procs
    /\ \A p \in Procs : pc[p] \in {"knull", "pfree", "pnull"} => Reapable(target[p])
    /\ \A q \in Procs : kfrees[q] > 0 \/ pfrees[q] > 0 => Reapable(q)

Inv ==
    /\ TypeOK /\ BootInv /\ CpuInv /\ CurrentInv /\ StackInv /\ IncomingInv
    /\ PublishInv /\ OffCpuInv /\ FrameInv /\ SpawnInv /\ ReapInv

(* What keeps a throttled process from running when there is one CPU: the  *)
(* idle task can always be picked in its place.  TaskAssumption gives it   *)
(* no limit and Exit leaves it alone.                                      *)
OneCpu == Cpus = {Bsp}

IdleInv ==
    /\ state[Idle] \in {"READY", "RUNNING"} /\ pc[Idle] # "exit"
    /\ state[Idle] = "READY" => off_cpu[Idle] \/ \E c \in Cpus : Idle \in {onStack[c], publish[c]}

(* A throttled process is never the one being switched to, and while it is *)
(* on a CPU it is in the handler that throttled it, or in do_schedule()    *)
(* called from there.                                                      *)
ThrottleInv ==
    /\ \A p \in Procs : throttled[p] => p # Idle /\ state[p] \in {"READY", "RUNNING"}
    /\ \A c \in Cpus : Incoming(c) => ~throttled[current[c]]
    /\ \A c \in Cpus : onStack[c] \in Procs /\ throttled[onStack[c]] =>
            irq[onStack[c]] = "park" \/ frame[onStack[c]]["tick"].at # "none"

OneCpuInv == Inv /\ IdleInv /\ ThrottleInv

=============================================================================
