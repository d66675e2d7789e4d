-------------------------- MODULE SchedulerFrames ---------------------------
(***************************************************************************)
(* Inv is preserved by the steps that enter do_schedule() and leave it     *)
(* again without a switch, by the interrupt handlers that call it, when a  *)
(* CPU leaves its boot frame, and when a spawned process is published.     *)
(***************************************************************************)
EXTENDS Scheduler, TLAPS

(* The lemmas below state preservation through this definition, so that    *)
(* expanding Inv in a later proof does not expand it in all of them.       *)
Preserved(A) == Inv /\ KernelTasksPinned /\ A => Inv'

-----------------------------------------------------------------------------
(* What pick_next_locked() returns.                                        *)
LEMMA PickFacts ==
    ASSUME Inv, NEW i \in Cpus, NEW n \in Procs, IsPick(n, i)
    PROVE  /\ \/ state[n] = "READY" /\ off_cpu[n]
              \/ state[n] = "RUNNING" /\ current[i] = n
           /\ i # Bsp => n \notin BspOnly
BY Zenon DEF IsPick, Eligible

(* What setting the innermost activation of p does to the others.          *)
LEMMA SetTopOthers ==
    ASSUME TypeOK, NEW p \in Procs, NEW f \in Frame, SetTop(p, f)
    PROVE  /\ frame' \in [Procs -> [Levels -> Frame]]
           /\ \A q \in Procs \ {p} : frame'[q] = frame[q] /\ Top(q)' = Top(q)
           /\ frame'[p][Level(p)] = f
           /\ \A l \in Levels \ {Level(p)} : frame'[p][l] = frame[p][l]
BY DEF TypeOK, SetTop, Top, Level, Levels

(* Constant frames.                                                        *)
LEMMA FrameTypes ==
    /\ NoFrame \in Frame
    /\ NoFrame.at = "none"
    /\ \A c \in Cpus : Entry(c) \in Frame /\ Entry(c).at = "entry" /\ Entry(c).cpu = c
BY CpuAssumption, Zenon DEF NoFrame, Entry, Frame, MaybeProc

(* A step of CPU c that changes only p's activations, and neither starts   *)
(* nor ends a switch, keeps everything but FrameInv trivially.             *)
LEMMA FrameStep ==
    ASSUME Inv, NEW c \in Cpus, NEW p \in Procs, Executes(c, p),
           Top(p).at \notin {"load", "switch"},
           Top(p)'.at \notin {"load", "switch"},
           TypeOK', FrameInv',
           \A q \in Procs \ {p} : Top(q)' = Top(q),
           UNCHANGED <<memVars, state, off_cpu, esp, pc, target,
                       current, tss, cr3, onStack, publish, boot>>
    PROVE  Inv'
<1> USE DEF Inv, memVars
<1>1. \A d \in Cpus : /\ Leaving(d)' <=> Leaving(d)
                      /\ Loaded(d)' <=> Loaded(d)
                      /\ Incoming(d)' <=> Incoming(d)
                      /\ Leaving(d) => Top(onStack[d])' = Top(onStack[d])
  BY Zenon DEF Leaving, Loaded, Incoming, Executes
<1>2. BootInv'
  BY Zenon DEF BootInv
<1>3. CpuInv'
  BY <1>1, Zenon DEF CpuInv, CpuOk
<1>4. CurrentInv' /\ StackInv' /\ OffCpuInv'
  BY DEF CurrentInv, StackInv, OffCpuInv
<1>5. IncomingInv' /\ PublishInv'
  BY <1>1 DEF IncomingInv, PublishInv
<1>6. SpawnInv' /\ ReapInv'
  BY DEF SpawnInv, ReapInv, Reapable
<1> QED BY <1>2, <1>3, <1>4, <1>5, <1>6, Zenon

(* do_schedule() is entered from p's own code.                             *)
LEMMA PushCall ==
    ASSUME Inv, KernelTasksPinned, NEW c \in Cpus, NEW p \in Procs,
           OwnCode(c, p), SetTop(p, Entry(c)), UNCHANGED onStack
    PROVE  FrameInv' /\ Top(p)' = Entry(c)
<1> USE DEF Inv
<1>1. frame[p]["tick"].at = "none" /\ Level(p) = "call"
  BY Zenon DEF OwnCode, Top, Level
<1>2. /\ \A q \in Procs \ {p} : frame'[q] = frame[q] /\ Top(q)' = Top(q)
      /\ frame'[p]["call"] = Entry(c) /\ frame'[p]["tick"] = frame[p]["tick"]
  BY <1>1, SetTopOthers, FrameTypes DEF Levels
<1>3. Top(p)' = Entry(c)
  BY <1>1, <1>2, Zenon DEF Top, Level
<1>4. onStack[c] = p /\ (p \in KernelTasks => c = Bsp)
  BY Zenon DEF OwnCode, Executes, CpuInv, CpuOk, KernelTasksPinned
<1>5. \A d \in Cpus : onStack[d] = p => d = c
  BY <1>4, Zenon DEF StackInv
<1>6. \A q \in Procs \ {p} : FrameOk(q)'
  BY <1>2 DEF FrameInv, FrameOk
<1>7. FrameOk(p)'
  BY <1>1, <1>2, <1>3, <1>4, <1>5, FrameTypes DEF FrameInv, FrameOk, Levels
<1> QED BY <1>3, <1>6, <1>7, Zenon DEF FrameInv

(* An interrupt handler enters do_schedule() over p's own code, or over a  *)
(* call of a kernel task that has not reached the lock.                    *)
LEMMA PushTick ==
    ASSUME Inv, KernelTasksPinned, NEW c \in Cpus, NEW p \in Procs,
           Executes(c, p), OwnCode(c, p) \/ InterruptsOn(p),
           frame' = [frame EXCEPT ![p]["tick"] = Entry(c)], UNCHANGED onStack
    PROVE  /\ FrameInv' /\ Top(p)' = Entry(c)
           /\ frame' \in [Procs -> [Levels -> Frame]]
           /\ \A q \in Procs \ {p} : Top(q)' = Top(q)
           /\ Top(p).at \notin {"load", "switch"}
<1> USE DEF Inv
<1>1. /\ frame[p]["tick"].at = "none"
      /\ frame[p]["call"].at \in {"none", "entry", "lock"}
      /\ p \notin KernelTasks => frame[p]["call"].at = "none"
  BY Zenon DEF OwnCode, InterruptsOn, Top, Level
<1>2. /\ frame' \in [Procs -> [Levels -> Frame]]
      /\ \A q \in Procs \ {p} : frame'[q] = frame[q] /\ Top(q)' = Top(q)
      /\ frame'[p]["tick"] = Entry(c) /\ frame'[p]["call"] = frame[p]["call"]
  BY FrameTypes DEF TypeOK, Top, Level, Levels
<1>3. Top(p)' = Entry(c) /\ Top(p) = frame[p]["call"]
  BY <1>1, <1>2, FrameTypes, Zenon DEF Top, Level
<1>4. onStack[c] = p /\ (p \in KernelTasks => c = Bsp)
  BY Zenon DEF Executes, CpuInv, CpuOk, KernelTasksPinned
<1>5. \A d \in Cpus : onStack[d] = p => d = c
  BY <1>4, Zenon DEF StackInv
<1>6. \A q \in Procs \ {p} : FrameOk(q)'
  BY <1>2 DEF FrameInv, FrameOk
<1>7. FrameOk(p)'
  BY <1>1, <1>2, <1>3, <1>4, <1>5, FrameTypes DEF FrameInv, FrameOk, Levels
<1> QED BY <1>1, <1>2, <1>3, <1>6, <1>7, Zenon DEF FrameInv

(* do_schedule() returns to the code under it without a switch.            *)
LEMMA PopFrame ==
    ASSUME Inv, KernelTasksPinned, NEW c \in Cpus, NEW p \in Procs,
           Executes(c, p), Top(p).at \in {"entry", "lock"}, Return(p), UNCHANGED onStack
    PROVE  FrameInv' /\ Top(p)'.at \in {"none", "entry", "lock"}
<1> USE DEF Inv
<1>1. /\ \A q \in Procs \ {p} : frame'[q] = frame[q] /\ Top(q)' = Top(q)
      /\ frame'[p][Level(p)] = NoFrame
      /\ \A l \in Levels \ {Level(p)} : frame'[p][l] = frame[p][l]
  BY SetTopOthers, FrameTypes, ZenonT(40) DEF Return
<1>2. /\ frame'[p]["tick"].at = "none"
      /\ Top(p)' = frame'[p]["call"]
      /\ Top(p)'.at \in {"none", "entry", "lock"}
      /\ frame'[p]["call"].at = "none" \/ (p \in KernelTasks /\ frame'[p]["call"] = frame[p]["call"])
  BY SMTT(30), <1>1, FrameTypes DEF FrameInv, FrameOk, Top, Level, Levels
<1>3. onStack[c] = p /\ (p \in KernelTasks => c = Bsp)
  BY Zenon DEF Executes, CpuInv, CpuOk, KernelTasksPinned
<1>4. \A d \in Cpus : onStack[d] = p => d = c
  BY <1>3, Zenon DEF StackInv
<1>5. \A q \in Procs \ {p} : FrameOk(q)'
  BY <1>1 DEF FrameInv, FrameOk
<1>6. FrameOk(p)'
  BY <1>2, <1>3, <1>4, FrameTypes DEF FrameInv, FrameOk, Levels
<1> QED BY <1>2, <1>5, <1>6, Zenon DEF FrameInv

(* What Inv says of the process a CPU executes.                            *)
LEMMA Executing ==
    ASSUME Inv, NEW c \in Cpus, NEW p \in Procs, onStack[c] = p
    PROVE  /\ boot[c].at = "gone"
           /\ Top(p).at # "out"
           /\ Top(p).at \in {"entry", "lock", "load", "switch"} => Top(p).cpu = c
           /\ Top(p).at \in {"lock", "load", "switch"} => Top(p).prev = p
           /\ Top(p).at \notin {"load", "switch"} => ~Leaving(c) /\ current[c] = p
           /\ Top(p).at \in {"load", "switch"} =>
                Leaving(c) /\ Top(p).next = current[c] /\ current[c] # p /\ publish[c] = NoProc
           /\ Top(p) \in Frame /\ current[c] \in Procs
           /\ \A d \in Cpus : onStack[d] = p => d = c
<1> USE DEF Inv
<1>1. boot[c].at = "gone" /\ current[c] \in Procs
  BY TableAssumption, Zenon DEF BootInv
<1>2. Top(p) \in Frame /\ Level(p) \in Levels
  BY DEF TypeOK, Top, Level, Levels
<1>3. FrameOk(p)
  BY Zenon DEF FrameInv
<1>4. Top(p).at # "out" /\ (Top(p).at \in {"entry", "lock", "load", "switch"} => Top(p).cpu = c)
  BY <1>3, Zenon DEF FrameOk
<1>5. Top(p).at \in {"lock", "load", "switch"} => Top(p).prev = p
  BY <1>2, <1>3, Zenon DEF FrameOk, Top
<1>6. Top(p).at \notin {"load", "switch"} => ~Leaving(c) /\ current[c] = p
  BY <1>1, Zenon DEF CpuInv, CpuOk, Leaving
<1>7. Top(p).at \in {"load", "switch"} => Leaving(c) /\ Top(p).next = current[c]
  BY <1>1, Zenon DEF CpuInv, CpuOk, Leaving
<1>8. Leaving(c) => current[c] # p
  BY Zenon DEF IncomingInv, Incoming
<1>9. Leaving(c) => publish[c] = NoProc
  BY Zenon DEF PublishInv, TypeOK, MaybeProc
<1>10. \A d \in Cpus : onStack[d] = p => d = c
  BY Zenon DEF StackInv
<1> QED BY <1>1, <1>2, <1>4, <1>5, <1>6, <1>7, <1>8, <1>9, <1>10, Zenon

(* do_schedule() goes on: the innermost activation is replaced by one that *)
(* is further, on the same CPU and for the same process.                   *)
LEMMA AdvanceFrame ==
    ASSUME Inv, KernelTasksPinned, NEW c \in Cpus, NEW p \in Procs, NEW f \in Frame,
           onStack[c] = p, Top(p).at \in {"entry", "lock", "load"},
           f.at \in {"lock", "load", "switch"}, f.prev = p, f.cpu = c,
           SetTop(p, f), UNCHANGED onStack
    PROVE  /\ FrameInv' /\ Top(p)' = f
           /\ frame' \in [Procs -> [Levels -> Frame]]
           /\ \A q \in Procs \ {p} : frame'[q] = frame[q] /\ Top(q)' = Top(q)
<1>1. /\ frame' \in [Procs -> [Levels -> Frame]]
      /\ \A q \in Procs \ {p} : frame'[q] = frame[q] /\ Top(q)' = Top(q)
      /\ frame'[p][Level(p)] = f
      /\ \A l \in Levels \ {Level(p)} : frame'[p][l] = frame[p][l]
  BY SetTopOthers, Zenon DEF Inv
<1>2. Level(p)' = Level(p) /\ Top(p)' = f
  BY <1>1 DEF Top, Level, Levels
<1>3. \A q \in Procs \ {p} : FrameOk(q)'
  BY <1>1 DEF FrameInv, FrameOk, Inv
<1>4. FrameOk(p)
  BY Zenon DEF FrameInv, Inv
<1>5. p \in KernelTasks => c = Bsp
  BY ZenonT(40) DEF Inv, CpuInv, CpuOk, KernelTasksPinned
<1>6. \A d \in Cpus : onStack[d] = p => d = c
  BY Zenon DEF Inv, StackInv
<1>7. FrameOk(p)'
  BY <1>1, <1>2, <1>4, <1>5, <1>6 DEF FrameOk, Level, Levels
<1> QED BY <1>1, <1>2, <1>3, <1>7, Zenon DEF FrameInv

(* do_schedule() entered, up to the acquisition of scheduler_lock.         *)
LEMMA EnterScheduleInv == \A c \in Cpus, p \in Procs : Preserved(EnterSchedule(c, p))
<1> SUFFICES ASSUME Inv, KernelTasksPinned, NEW c \in Cpus, NEW p \in Procs,
                    EnterSchedule(c, p)
             PROVE  Inv'
  BY Zenon DEF Preserved
<1> DEFINE f == [Top(p) EXCEPT !.at = "lock", !.prev = current[Top(p).cpu]]
<1> USE DEF procVars, codeVars, cpuVars, memVars
<1>0. Executes(c, p) /\ onStack[c] = p /\ Top(p).at = "entry"
  BY Zenon DEF EnterSchedule, Executes
<1>1. Top(p).cpu = c /\ current[c] = p /\ Top(p) \in Frame
  BY <1>0, Executing
<1>2. f \in Frame /\ f.at = "lock" /\ f.prev = p /\ f.cpu = c
  BY <1>1, Zenon DEF Frame, MaybeProc
<1> HIDE DEF f
<1>3. CASE Return(p)
  <2>1. FrameInv' /\ Top(p)'.at \in {"none", "entry", "lock"}
    BY <1>0, <1>3, PopFrame, Zenon DEF EnterSchedule
  <2>2. TypeOK' /\ \A q \in Procs \ {p} : Top(q)' = Top(q)
    BY <1>3, SetTopOthers, FrameTypes, Zenon DEF EnterSchedule, Return, Inv, TypeOK
  <2> QED BY <1>0, <2>1, <2>2, FrameStep, Zenon DEF EnterSchedule
<1>4. CASE SetTop(p, f)
  <2>1. /\ FrameInv' /\ Top(p)' = f
        /\ frame' \in [Procs -> [Levels -> Frame]]
        /\ \A q \in Procs \ {p} : frame'[q] = frame[q] /\ Top(q)' = Top(q)
    BY <1>0, <1>2, <1>4, AdvanceFrame, Zenon DEF EnterSchedule
  <2>2. TypeOK'
    BY <2>1, Zenon DEF EnterSchedule, Inv, TypeOK
  <2> QED BY <1>0, <1>2, <2>1, <2>2, FrameStep DEF EnterSchedule
<1> QED BY <1>3, <1>4, Zenon DEF EnterSchedule, f

(* pick_next_locked() found nothing and do_schedule() returns.             *)
LEMMA PickNothingInv == \A c \in Cpus, p \in Procs : Preserved(PickNothing(c, p))
<1> SUFFICES ASSUME Inv, KernelTasksPinned, NEW c \in Cpus, NEW p \in Procs,
                    PickNothing(c, p)
             PROVE  Inv'
  BY Zenon DEF Preserved
<1> USE DEF procVars, codeVars, cpuVars, memVars
<1>1. FrameInv' /\ Top(p)'.at \in {"none", "entry", "lock"}
  BY PopFrame, Zenon DEF PickNothing
<1>2. TypeOK' /\ \A q \in Procs \ {p} : Top(q)' = Top(q)
  BY SetTopOthers, FrameTypes, Zenon DEF PickNothing, Return, Inv, TypeOK
<1> QED BY <1>1, <1>2, FrameStep, Zenon DEF PickNothing

(* The calls of scheduler_yield().                                         *)
LEMMA YieldInv == \A c \in Cpus, p \in Procs : Preserved(Yield(c, p) \/ WaitYield(c, p))
<1> SUFFICES ASSUME Inv, KernelTasksPinned, NEW c \in Cpus, NEW p \in Procs,
                    Yield(c, p) \/ WaitYield(c, p)
             PROVE  Inv'
  BY Zenon DEF Preserved
<1> USE DEF procVars, codeVars, cpuVars, memVars
<1>1. /\ OwnCode(c, p) /\ SetTop(p, Entry(c))
      /\ UNCHANGED <<memVars, procVars, codeVars, cpuVars>>
  BY Zenon DEF Yield, WaitYield, Waiting
<1>2. FrameInv' /\ Top(p)' = Entry(c)
  BY <1>1, PushCall, Zenon
<1>3. TypeOK' /\ \A q \in Procs \ {p} : Top(q)' = Top(q)
  BY <1>1, SetTopOthers, FrameTypes, Zenon DEF Inv, TypeOK
<1> QED BY <1>1, <1>2, <1>3, FrameStep, FrameTypes, Zenon DEF OwnCode

(* Interrupt handlers: they enter do_schedule() or leave the frames alone, *)
(* and otherwise change only throttled and irq.                            *)
Irqs == {"none", "listen", "park", "resched"}
InterruptEffect(c, p) ==
    /\ Executes(c, p) /\ (OwnCode(c, p) \/ InterruptsOn(p))
    /\ frame' = [frame EXCEPT ![p]["tick"] = Entry(c)] \/ UNCHANGED frame
    /\ UNCHANGED <<memVars, state, off_cpu, esp, pc, target, cpuVars>>
    /\ irq' \in [Procs -> Irqs]
    /\ throttled' \in [Procs -> BOOLEAN]

(* Each of the six handlers has that effect.                               *)
LEMMA InterruptEffects ==
    ASSUME irq \in [Procs -> Irqs], throttled \in [Procs -> BOOLEAN],
           NEW c \in Cpus, NEW p \in Procs, Interrupt(c, p)
    PROVE  InterruptEffect(c, p)
<1> USE DEF Irqs, OwnCode
<1>1. ASSUME NEW b \in BOOLEAN, Tick(c, p, b) PROVE InterruptEffect(c, p)
  BY <1>1, Zenon DEF Tick, InterruptEffect, procVars
<1>2. CASE ListenAllow(c, p)
  <2>1. PICK released : /\ throttled' = [q \in Procs |-> throttled[q] /\ q \notin released]
                        /\ frame' = [frame EXCEPT ![p]["tick"] = Entry(c)] \/ UNCHANGED frame
    BY <1>2, Zenon DEF ListenAllow
  <2>2. throttled' \in [Procs -> BOOLEAN]
    BY <2>1, Zenon
  <2> QED BY <1>2, <2>1, <2>2, Zenon DEF ListenAllow, InterruptEffect
<1>3. CASE ListenThrottle(c, p)
  <2>1. PICK released : /\ throttled' = [q \in Procs |-> q = p \/ (throttled[q] /\ q \notin released)]
                        /\ irq' = [irq EXCEPT ![p] = IF released # {} THEN "resched" ELSE "none"]
    BY <1>3, Zenon DEF ListenThrottle
  <2>2. throttled' \in [Procs -> BOOLEAN]
    BY <2>1, Zenon
  <2>3. irq' \in [Procs -> Irqs]
    BY <2>1, Zenon
  <2> QED BY <1>3, <2>2, <2>3, Zenon DEF ListenThrottle, InterruptEffect
<1>4. CASE Resched(c, p)
  BY <1>4, Zenon DEF Resched, InterruptEffect, procVars
<1>5. CASE IpiThrottle(c, p)
  <2>1. throttled' \in [Procs -> BOOLEAN]
    BY <1>5, Zenon DEF IpiThrottle
  <2> QED BY <1>5, <2>1, Zenon DEF IpiThrottle, InterruptEffect
<1>6. CASE Park(c, p)
  BY <1>6, Zenon DEF Park, InterruptEffect, procVars
<1> QED BY <1>1, <1>2, <1>3, <1>4, <1>5, <1>6, Zenon DEF Interrupt

(* Hence Inv is preserved by the interrupt handlers.                       *)
LEMMA InterruptInv == \A c \in Cpus, p \in Procs : Preserved(Interrupt(c, p))
<1> SUFFICES ASSUME Inv, KernelTasksPinned, NEW c \in Cpus, NEW p \in Procs,
                    Interrupt(c, p)
             PROVE  Inv'
  BY Zenon DEF Preserved
<1> USE DEF procVars, codeVars, cpuVars, memVars
<1>0. irq \in [Procs -> Irqs] /\ throttled \in [Procs -> BOOLEAN]
  BY Zenon DEF Inv, TypeOK, Irqs
<1>1. /\ Executes(c, p) /\ (OwnCode(c, p) \/ InterruptsOn(p))
      /\ frame' = [frame EXCEPT ![p]["tick"] = Entry(c)] \/ UNCHANGED frame
      /\ UNCHANGED <<memVars, state, off_cpu, esp, pc, target, cpuVars>>
  BY <1>0, InterruptEffects, Zenon DEF InterruptEffect
<1>2. throttled' \in [Procs -> BOOLEAN]
  BY <1>0, InterruptEffects, Zenon DEF InterruptEffect
<1>3. irq' \in [Procs -> {"none", "listen", "park", "resched"}]
  BY <1>0, InterruptEffects, Zenon DEF InterruptEffect, Irqs
<1>4. Top(p).at \notin {"load", "switch"}
  BY <1>1, Zenon DEF OwnCode, InterruptsOn, Top, Level
<1>5. CASE frame' = [frame EXCEPT ![p]["tick"] = Entry(c)]
  <2>1. /\ FrameInv' /\ Top(p)' = Entry(c)
        /\ frame' \in [Procs -> [Levels -> Frame]]
        /\ \A q \in Procs \ {p} : Top(q)' = Top(q)
    BY <1>1, <1>5, PushTick, Zenon
  <2>2. TypeOK'
    BY <1>1, <1>2, <1>3, <2>1, Zenon DEF Inv, TypeOK
  <2> QED BY <1>1, <1>4, <2>1, <2>2, FrameStep, FrameTypes, Zenon
<1>6. CASE UNCHANGED frame
  <2>1. \A q \in Procs : Top(q)' = Top(q)
    BY <1>6, Zenon DEF Top, Level
  <2>2. FrameInv'
    BY <1>1, <1>6, <2>1 DEF Inv, FrameInv, FrameOk
  <2>3. TypeOK'
    BY <1>1, <1>2, <1>3, <1>6, Zenon DEF Inv, TypeOK
  <2> QED BY <1>1, <1>4, <2>1, <2>2, <2>3, FrameStep, Zenon
<1> QED BY <1>1, <1>5, <1>6, Zenon

(* The process a CPU switches to returns from its suspended do_schedule(). *)
LEMMA ResumeFrame ==
    ASSUME Inv, KernelTasksPinned, NEW c \in Cpus, NEW n \in Procs,
           \A d \in Cpus : onStack[d] # n,
           n \in BspOnly => c = Bsp,
           frame' \in [Procs -> [Levels -> Frame]],
           frame'[n][Level(n)] = NoFrame,
           \A l \in Levels \ {Level(n)} : frame'[n][l] = frame[n][l],
           onStack'[c] = n, \A d \in Cpus \ {c} : onStack'[d] # n
    PROVE  FrameOk(n)' /\ Top(n)'.at \in {"none", "entry", "lock"}
<1>1. FrameOk(n)
  BY ZenonT(40) DEF Inv, FrameInv
<1>2. /\ frame'[n]["tick"].at = "none"
      /\ Top(n)' = frame'[n]["call"]
      /\ Top(n)'.at \in {"none", "entry", "lock"}
      /\ frame'[n]["call"].at = "none" \/ (n \in KernelTasks /\ frame'[n]["call"] = frame[n]["call"])
  BY SMTT(30), <1>1, FrameTypes DEF FrameOk, Top, Level, Levels
<1>3. n \in KernelTasks => c = Bsp
  BY Zenon DEF KernelTasksPinned
<1> QED BY <1>1, <1>2, <1>3, FrameTypes DEF FrameOk, Levels
-----------------------------------------------------------------------------
(* The boot frame loads the TSS and CR3 of its first process.              *)
LEMMA BootLoadInv == \A c \in Cpus : Preserved(BootLoad(c))
<1> SUFFICES ASSUME Inv, KernelTasksPinned, NEW c \in Cpus,
                    BootLoad(c)
             PROVE  Inv'
  BY Zenon DEF Preserved
<1> USE DEF codeVars, memVars
<1>1. PICK n : n = boot[c].next
  BY Zenon
<1>2. /\ boot[c].at = "load" /\ n = current[c] /\ n \in Procs
      /\ onStack[c] = NoProc /\ publish[c] = NoProc
  BY <1>1, Zenon DEF BootLoad, Inv, BootInv
<1>3. /\ Incoming(c) /\ esp[n] = n
      /\ \A d \in Cpus : onStack[d] # n /\ publish[d] # n
      /\ \A d \in Cpus : current[d] = n => d = c
      /\ state[n] = "RUNNING"
  BY Zenon, <1>2 DEF Incoming, Inv, IncomingInv, CurrentInv
<1>5. /\ off_cpu' \in [Procs -> BOOLEAN] /\ off_cpu'[n] = FALSE
      /\ \A r \in Procs \ {n} : off_cpu'[r] = off_cpu[r]
      /\ tss' \in [Cpus -> MaybeProc] /\ cr3' \in [Cpus -> MaybeProc]
      /\ tss'[c] = n /\ cr3'[c] = n
      /\ \A d \in Cpus \ {c} : tss'[d] = tss[d] /\ cr3'[d] = cr3[d]
      /\ boot' \in [Cpus -> BootFrame] /\ boot'[c].at = "switch" /\ boot'[c].next = n
      /\ \A d \in Cpus \ {c} : boot'[d] = boot[d]
  BY <1>1, <1>2, Zenon DEF BootLoad, Inv, TypeOK, MaybeProc, BootFrame
<1>6. UNCHANGED <<memVars, state, esp, throttled, codeVars, frame, current, cursor, onStack, publish>>
  BY Zenon DEF BootLoad
<1>7. \A r \in Procs : Top(r)' = Top(r)
  BY <1>6, Zenon DEF Top, Level
<1>8. /\ ~Leaving(c)' /\ Loaded(c)' /\ Incoming(c)'
      /\ \A d \in Cpus \ {c} : /\ Leaving(d)' <=> Leaving(d)
                               /\ Loaded(d)' <=> Loaded(d)
                               /\ Incoming(d)' <=> Incoming(d)
                               /\ Leaving(d) => Top(onStack[d])' = Top(onStack[d])
  BY <1>2, <1>5, <1>6, <1>7, TableAssumption, Zenon DEF Leaving, Loaded, Incoming
<1>9. TypeOK'
  BY <1>5, <1>6, Zenon DEF Inv, TypeOK
<1>10. BootInv'
  BY <1>2, <1>5, <1>6 DEF Inv, BootInv
<1>11. CpuInv'
  <2>1. CpuOk(c)'
    BY <1>2, <1>5, <1>6, <1>8, Zenon DEF Inv, CpuInv, CpuOk
  <2>2. \A d \in Cpus \ {c} : CpuOk(d)'
    BY <1>5, <1>6, <1>8 DEF Inv, CpuInv, CpuOk
  <2> QED BY <2>1, <2>2, Zenon DEF CpuInv
<1>12. CurrentInv'
  BY <1>6, Zenon DEF Inv, CurrentInv
<1>13. StackInv'
  BY <1>3, <1>5, <1>6, Zenon DEF Inv, StackInv
<1>14. IncomingInv'
  <2>1. \A d \in Cpus \ {c} : Incoming(d) => current[d] \in Procs /\ current[d] # n
    BY <1>3 DEF Inv, Incoming, Leaving, BootInv, TypeOK, BootFrame
  <2> QED BY <1>2, <1>3, <1>5, <1>6, <1>8, <2>1 DEF Inv, IncomingInv
<1>15. PublishInv'
  BY <1>2, <1>3, <1>5, <1>6, <1>8, TableAssumption DEF Inv, PublishInv
<1>16. OffCpuInv'
  BY <1>2, <1>3, <1>5, <1>6 DEF Inv, OffCpuInv
<1>17. FrameInv'
  <2>1. ASSUME NEW q \in Procs PROVE FrameOk(q)'
    <3>1. FrameOk(q) /\ Top(q)' = Top(q) /\ frame'[q] = frame[q] /\ onStack' = onStack
      BY <1>6, <1>7, Zenon DEF Inv, FrameInv
    <3> QED BY Zenon, <3>1 DEF FrameOk
  <2> QED BY <2>1, Zenon DEF FrameInv
<1>18. SpawnInv'
  BY <1>3, <1>5, <1>6, Zenon DEF Inv, SpawnInv
<1>19. ReapInv'
  BY <1>3, <1>5, <1>6 DEF Inv, ReapInv, Reapable
<1> QED BY <1>9, <1>10, <1>11, <1>12, <1>13, <1>14, <1>15, <1>16, <1>17, <1>18, <1>19, Zenon DEF Inv

(* The boot frame is abandoned for the stack of the first process.         *)
LEMMA BootSwitchInv == \A c \in Cpus : Preserved(BootSwitch(c))
<1> SUFFICES ASSUME Inv, KernelTasksPinned, NEW c \in Cpus,
                    BootSwitch(c)
             PROVE  Inv'
  BY Zenon DEF Preserved
<1> USE DEF codeVars, memVars
<1>1. PICK n : n = boot[c].next
  BY Zenon
<1>2. /\ boot[c].at = "switch" /\ n = current[c] /\ n \in Procs
      /\ onStack[c] = NoProc /\ publish[c] = NoProc
  BY <1>1, Zenon DEF BootSwitch, Inv, BootInv
<1>3. /\ Incoming(c) /\ esp[n] = n /\ ~off_cpu[n] /\ state[n] = "RUNNING"
      /\ \A d \in Cpus : onStack[d] # n /\ publish[d] # n
      /\ \A d \in Cpus : current[d] = n => d = c
  BY <1>2, Zenon DEF Incoming, Inv, IncomingInv, CurrentInv
<1>0. Resumed(n) = n
  BY <1>3, Zenon DEF Resumed
<1>4. /\ onStack' \in [Cpus -> MaybeProc] /\ onStack'[c] = n
      /\ \A d \in Cpus \ {c} : onStack'[d] = onStack[d]
      /\ esp' \in [Procs -> Procs \cup {Stale}] /\ \A q \in Procs \ {n} : esp'[q] = esp[q]
      /\ boot' \in [Cpus -> BootFrame] /\ boot'[c].at = "gone"
      /\ \A d \in Cpus \ {c} : boot'[d] = boot[d]
  BY <1>0, <1>1, <1>2, <1>3 DEF BootSwitch, Inv, TypeOK, MaybeProc, BootFrame
<1>5. UNCHANGED <<memVars, state, off_cpu, throttled, codeVars, current, cursor, tss, cr3, publish>>
  BY Zenon DEF BootSwitch
<1>6. /\ frame' \in [Procs -> [Levels -> Frame]]
      /\ \A q \in Procs \ {n} : frame'[q] = frame[q] /\ Top(q)' = Top(q)
      /\ frame'[n][Level(n)] = NoFrame
      /\ \A l \in Levels \ {Level(n)} : frame'[n][l] = frame[n][l]
  <2>1. SetTop(n, NoFrame)
    BY <1>0, <1>1, Zenon DEF BootSwitch, Return
  <2> QED BY <1>2, <2>1, SetTopOthers, FrameTypes, Zenon DEF Inv
<1>7. FrameOk(n)' /\ Top(n)'.at \in {"none", "entry", "lock"}
  <2>1. n \in BspOnly => c = Bsp
    BY <1>2, Zenon DEF Inv, CpuInv, CpuOk
  <2>2. \A d \in Cpus \ {c} : onStack'[d] # n
    BY <1>3, <1>4
  <2> QED BY <1>2, <1>3, <1>4, <1>6, <2>1, <2>2, ResumeFrame, Zenon
<1>8. FrameInv'
  <2>1. \A q \in Procs \ {n} : \A d \in Cpus : onStack'[d] = q <=> onStack[d] = q
    BY <1>2, <1>4, TableAssumption, Zenon
  <2>2. \A q \in Procs \ {n} : FrameOk(q)'
    BY <1>6, <2>1 DEF Inv, FrameInv, FrameOk
  <2> QED BY <1>7, <2>2, Zenon DEF FrameInv
<1>9. TypeOK'
  BY <1>4, <1>5, <1>6, Zenon DEF Inv, TypeOK
<1>10. /\ ~Leaving(c)' /\ ~Loaded(c)' /\ ~Incoming(c)' /\ Loaded(c)
       /\ \A d \in Cpus \ {c} : /\ Leaving(d)' <=> Leaving(d)
                                /\ Loaded(d)' <=> Loaded(d)
                                /\ Incoming(d)' <=> Incoming(d)
                                /\ Leaving(d) => Top(onStack[d])' = Top(onStack[d])
  <2>1. Top(onStack[c])' = Top(n)'
    BY <1>4, Zenon
  <2>2. \A d \in Cpus \ {c} : onStack[d] \in Procs => Top(onStack[d])' = Top(onStack[d])
    BY Zenon, <1>3, <1>4, <1>6
  <2>3. ~Leaving(c)' /\ ~Loaded(c)' /\ ~Incoming(c)' /\ Loaded(c)
    BY <1>2, <1>4, <1>7, <2>1, Zenon DEF Leaving, Loaded, Incoming
  <2> QED BY <1>4, <2>2, <2>3, Zenon DEF Leaving, Loaded, Incoming
<1>11. BootInv'
  BY <1>2, <1>4, <1>5 DEF Inv, BootInv
<1>12. CpuInv'
  <2>1. cr3[c] = n /\ tss[c] = n /\ (n \in BspOnly => c = Bsp)
    BY <1>2, <1>10, Zenon DEF Inv, CpuInv, CpuOk
  <2>2. CpuOk(c)'
    BY <1>2, <1>4, <1>5, <1>10, <2>1, Zenon DEF CpuOk
  <2>3. \A d \in Cpus \ {c} : CpuOk(d)'
    BY Zenon, <1>4, <1>5, <1>10 DEF Inv, CpuInv, CpuOk
  <2> QED BY <2>2, <2>3, Zenon DEF CpuInv
<1>13. CurrentInv'
  BY <1>5, Zenon DEF Inv, CurrentInv
<1>14. StackInv'
  BY <1>3, <1>4, <1>5 DEF Inv, StackInv
<1>15. IncomingInv'
  <2>1. ASSUME NEW d \in Cpus \ {c}, Incoming(d)
        PROVE  /\ esp'[current[d]] = current[d] /\ state[current[d]] = "RUNNING"
               /\ off_cpu[current[d]] => boot[d].at = "load"
               /\ \A e \in Cpus : onStack'[e] # current[d] /\ publish[e] # current[d]
    <3>1. current[d] \in Procs /\ current[d] # n
      BY <1>3, <2>1 DEF Inv, Incoming, Leaving, BootInv, TypeOK, BootFrame
    <3> QED BY <1>4, <2>1, <3>1 DEF Inv, IncomingInv
  <2>2. \A d \in Cpus : Incoming(d)' => d \in Cpus \ {c} /\ Incoming(d)
    BY <1>10, Zenon
  <2> QED BY <1>4, <1>5, <2>1, <2>2 DEF IncomingInv
<1>16. PublishInv'
  BY <1>2, <1>3, <1>4, <1>5, <1>10, TableAssumption DEF Inv, PublishInv
<1>17. OffCpuInv'
  BY <1>2, <1>3, <1>4, <1>5 DEF Inv, OffCpuInv
<1>18. SpawnInv'
  BY <1>3, <1>4, <1>5 DEF Inv, SpawnInv
<1>19. ReapInv'
  BY <1>5, Zenon DEF Inv, ReapInv, Reapable
<1> QED BY <1>8, <1>9, <1>11, <1>12, <1>13, <1>14, <1>15, <1>16, <1>17, <1>18, <1>19, Zenon DEF Inv

(* The child's slot is nobody's: no CPU is on it, none has picked it.      *)
LEMMA PublishProcInv == \A c \in Cpus, p \in Procs : Preserved(Publish(c, p))
<1> SUFFICES ASSUME Inv, KernelTasksPinned, NEW c \in Cpus, NEW p \in Procs,
                    Publish(c, p)
             PROVE  Inv'
  BY Zenon DEF Preserved
<1> DEFINE q == target[p]
<1> USE DEF procVars, codeVars, cpuVars, memVars
<1>1. q \in Procs /\ state[q] = "ALLOCATING" /\ ~off_cpu[q] /\ \A d \in Cpus : onStack[d] # q
  BY Zenon DEF Publish, Inv, SpawnInv
<1> HIDE DEF q
<1>2. \A d \in Cpus : current[d] # q /\ publish[d] # q
  BY <1>1 DEF Inv, CurrentInv, PublishInv
<1>3. /\ state' \in [Procs -> States] /\ state'[q] = "READY"
      /\ \A r \in Procs \ {q} : state'[r] = state[r]
      /\ off_cpu' \in [Procs -> BOOLEAN] /\ off_cpu'[q] = TRUE
      /\ \A r \in Procs \ {q} : off_cpu'[r] = off_cpu[r]
      /\ esp' \in [Procs -> Procs \cup {Stale}] /\ esp'[q] = q
      /\ \A r \in Procs \ {q} : esp'[r] = esp[r]
  BY <1>1, Zenon DEF Publish, Inv, TypeOK, States, q
<1>4. /\ pc' \in [Procs -> {"run", "spawn", "wait", "knull", "pfree", "pnull", "exit", "dead"}]
      /\ target' \in [Procs -> MaybeProc]
      /\ pc[p] = "spawn" /\ pc'[p] = "run"
      /\ \A r \in Procs \ {p} : pc'[r] = pc[r] /\ target'[r] = target[r]
  BY Zenon DEF Publish, Inv, TypeOK, MaybeProc
<1>5. TypeOK'
  BY <1>1, <1>3, <1>4, Zenon DEF Publish, Inv, TypeOK, q
<1>6. UNCHANGED <<frame, cpuVars, kfrees, pfrees>> /\ \A r \in Procs : Top(r)' = Top(r)
  BY Zenon DEF Publish, Top, Level
<1>7. \A d \in Cpus : /\ Leaving(d)' <=> Leaving(d)
                      /\ Loaded(d)' <=> Loaded(d)
                      /\ Incoming(d)' <=> Incoming(d)
                      /\ Leaving(d) => Top(onStack[d])' = Top(onStack[d])
  BY <1>6, Zenon DEF Leaving, Loaded, Incoming
<1>8. BootInv' /\ StackInv'
  BY Zenon, <1>1, <1>3, <1>6 DEF Inv, BootInv, StackInv
<1>9. CpuInv'
  BY <1>6, <1>7, Zenon DEF Inv, CpuInv, CpuOk
<1>10. CurrentInv'
  BY <1>1, <1>2, <1>3, <1>6 DEF Inv, CurrentInv
<1>11. \A d \in Cpus : Incoming(d) => current[d] \in Procs
  BY <1>6, Zenon DEF Inv, BootInv, Incoming, Leaving, BootFrame, TypeOK
<1>12. IncomingInv'
  BY <1>2, <1>3, <1>6, <1>7, <1>11 DEF Inv, IncomingInv
<1>13. PublishInv'
  BY <1>2, <1>3, <1>6, <1>7 DEF Inv, PublishInv
<1>14. OffCpuInv'
  BY <1>2, <1>3, <1>6 DEF Inv, OffCpuInv
<1>15. FrameInv'
  BY <1>6 DEF Inv, FrameInv, FrameOk
<1>16. SpawnInv'
  BY <1>1, <1>3, <1>4, <1>6 DEF Inv, SpawnInv, q
<1>17. ReapInv'
  BY <1>1, <1>3, <1>4, <1>6 DEF Inv, ReapInv, Reapable
<1> QED BY <1>5, <1>8, <1>9, <1>10, <1>12, <1>13, <1>14, <1>15, <1>16, <1>17, Zenon DEF Inv

-----------------------------------------------------------------------------
=============================================================================
