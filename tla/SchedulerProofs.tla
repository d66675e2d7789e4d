-------------------------- MODULE SchedulerProofs ---------------------------
(***************************************************************************)
(* Proofs about module Scheduler, for every number of CPUs and processes:  *)
(* with the kernel tasks pinned to the BSP, Inv is inductive, and it       *)
(* implies that no stack is shared, that a reapable process is unused and  *)
(* that every switch loads a saved context.  On one CPU a throttled        *)
(* process does not run.                                                   *)
(***************************************************************************)
EXTENDS SchedulerFrames

-----------------------------------------------------------------------------
(* A CPU that is still in its boot frame is on no process's stack.         *)
LEMMA BootPickInv == \A c \in Cpus : Preserved(BootPick(c))
<1> SUFFICES ASSUME Inv, KernelTasksPinned, NEW c \in Cpus,
                    BootPick(c)
             PROVE  Inv'
  BY Zenon DEF Preserved
<1> USE DEF codeVars, memVars
<1>1. PICK n \in Procs :
        /\ IsPick(n, c) /\ cursor' = n
        /\ current' = [current EXCEPT ![c] = n]
        /\ state' = [state EXCEPT ![n] = "RUNNING"]
        /\ boot' = [boot EXCEPT ![c] = [at |-> "load", next |-> n]]
  BY Zenon DEF BootPick
<1>2. /\ boot[c].at = "pick" /\ current[c] = NoProc /\ onStack[c] = NoProc /\ publish[c] = NoProc
  BY Zenon DEF BootPick, Inv, BootInv
<1>3. state[n] = "READY" /\ off_cpu[n] /\ (c # Bsp => n \notin BspOnly)
  BY <1>1, <1>2, PickFacts, TableAssumption
<1>4. /\ esp[n] = n
      /\ \A d \in Cpus : onStack[d] # n /\ publish[d] # n /\ current[d] # n
  BY <1>3, TableAssumption DEF Inv, OffCpuInv, StackInv, PublishInv, CurrentInv
<1>5. /\ state' \in [Procs -> States] /\ state'[n] = "RUNNING"
      /\ \A q \in Procs \ {n} : state'[q] = state[q]
      /\ current' \in [Cpus -> MaybeProc] /\ current'[c] = n
      /\ \A d \in Cpus \ {c} : current'[d] = current[d]
      /\ boot' \in [Cpus -> BootFrame] /\ boot'[c].at = "load" /\ boot'[c].next = n
      /\ \A d \in Cpus \ {c} : boot'[d] = boot[d]
  BY Zenon, <1>1 DEF Inv, TypeOK, States, MaybeProc, BootFrame
<1>6. UNCHANGED <<memVars, off_cpu, esp, throttled, codeVars, frame, tss, cr3, onStack, publish>>
  BY Zenon DEF BootPick
<1>7. \A r \in Procs : Top(r)' = Top(r)
  BY <1>6, Zenon DEF Top, Level
<1>8. /\ ~Leaving(c)' /\ ~Loaded(c)' /\ ~Loaded(c) /\ Incoming(c)'
      /\ \A d \in Cpus \ {c} : /\ Leaving(d)' <=> Leaving(d)
                               /\ Loaded(d)' <=> Loaded(d)
                               /\ Incoming(d)' <=> Incoming(d)
                               /\ Leaving(d) => Top(onStack[d])' = Top(onStack[d])
  BY <1>2, <1>5, <1>6, <1>7, TableAssumption, Zenon DEF Leaving, Loaded, Incoming
<1>9. TypeOK'
  BY <1>1, <1>5, <1>6, Zenon DEF Inv, TypeOK
<1>10. BootInv'
  BY <1>2, <1>5, <1>6 DEF Inv, BootInv
<1>11. CpuInv'
  <2>1. CpuOk(c)'
    BY <1>2, <1>3, <1>5, <1>6, <1>8, Zenon DEF Inv, CpuInv, CpuOk
  <2>2. \A d \in Cpus \ {c} : CpuOk(d)'
    BY Zenon, <1>5, <1>6, <1>8 DEF Inv, CpuInv, CpuOk
  <2> QED BY <2>1, <2>2, Zenon DEF CpuInv
<1>12. CurrentInv'
  BY <1>2, <1>4, <1>5, TableAssumption DEF Inv, CurrentInv
<1>13. StackInv'
  BY <1>6, Zenon DEF Inv, StackInv
<1>14. IncomingInv'
  <2>1. \A d \in Cpus \ {c} : Incoming(d) => current[d] \in Procs
    BY Zenon DEF Inv, Incoming, Leaving, BootInv, TypeOK, BootFrame
  <2>2. \A d \in Cpus \ {c} : Incoming(d) => state'[current[d]] = "RUNNING"
    BY Zenon, <1>4, <1>5, <2>1 DEF Inv, IncomingInv
  <2>3. /\ esp'[current'[c]] = current'[c] /\ state'[current'[c]] = "RUNNING"
        /\ boot'[c].at = "load"
        /\ \A e \in Cpus : onStack'[e] # current'[c] /\ publish'[e] # current'[c]
    BY <1>4, <1>5, <1>6, Zenon
  <2>4. \A d \in Cpus \ {c} : Incoming(d)' =>
          /\ esp'[current'[d]] = current'[d] /\ state'[current'[d]] = "RUNNING"
          /\ off_cpu'[current'[d]] => boot'[d].at = "load"
          /\ \A e \in Cpus : onStack'[e] # current'[d] /\ publish'[e] # current'[d]
    BY <1>5, <1>6, <1>8, <2>2 DEF Inv, IncomingInv
  <2> QED BY <2>3, <2>4, Zenon DEF IncomingInv
<1>15. PublishInv'
  BY <1>2, <1>4, <1>5, <1>6, <1>8, TableAssumption DEF Inv, PublishInv
<1>16. OffCpuInv'
  BY <1>2, <1>3, <1>4, <1>5, <1>6 DEF Inv, OffCpuInv
<1>17. FrameInv'
  <2>1. ASSUME NEW q \in Procs PROVE FrameOk(q)'
    <3>1. FrameOk(q) /\ Top(q)' = Top(q) /\ frame'[q] = frame[q] /\ onStack' = onStack
      BY <1>6, <1>7, Zenon DEF Inv, FrameInv
    <3> QED BY Zenon, <3>1 DEF FrameOk
  <2> QED BY <2>1, Zenon DEF FrameInv
<1>18. SpawnInv'
  BY <1>3, <1>5, <1>6 DEF Inv, SpawnInv
<1>19. ReapInv'
  BY <1>3, <1>5, <1>6 DEF Inv, ReapInv, Reapable
<1> QED BY <1>9, <1>10, <1>11, <1>12, <1>13, <1>14, <1>15, <1>16, <1>17, <1>18, <1>19, Zenon DEF Inv

(* The running process was picked again: no switch.                        *)
LEMMA PickSameInv == \A c \in Cpus, p \in Procs : Preserved(PickSame(c, p))
<1> SUFFICES ASSUME Inv, KernelTasksPinned, NEW c \in Cpus, NEW p \in Procs,
                    PickSame(c, p)
             PROVE  Inv'
  BY Zenon DEF Preserved
<1> USE DEF procVars, codeVars, cpuVars, memVars
<1>1. Executes(c, p) /\ onStack[c] = p /\ Top(p).at = "lock" /\ Return(p)
  BY Zenon DEF PickSame, Executes
<1>2. Top(p).cpu = c /\ Top(p).prev = p /\ current[c] = p
  BY Zenon, <1>1, Executing
<1>3. state[p] = "RUNNING"
  BY <1>1, <1>2, PickFacts DEF PickSame, Inv, StackInv
<1>4. UNCHANGED state /\ cursor' \in Procs
  BY <1>2, <1>3 DEF PickSame, Inv, TypeOK
<1>5. FrameInv' /\ Top(p)'.at \in {"none", "entry", "lock"}
  BY <1>1, PopFrame, ZenonT(40) DEF PickSame
<1>6. TypeOK' /\ \A q \in Procs \ {p} : Top(q)' = Top(q)
  BY <1>1, <1>4, SetTopOthers, FrameTypes DEF PickSame, Return, Inv, TypeOK
<1> QED BY <1>1, <1>4, <1>5, <1>6, FrameStep, Zenon DEF PickSame

(* The locked section that gives the CPU to another process: next was      *)
(* READY and off every CPU, so its context is saved and its stack free.    *)
LEMMA PickOtherInv == \A c \in Cpus, p \in Procs : Preserved(PickOther(c, p))
<1> SUFFICES ASSUME Inv, KernelTasksPinned, NEW c \in Cpus, NEW p \in Procs,
                    PickOther(c, p)
             PROVE  Inv'
  BY Zenon DEF Preserved
<1> USE DEF procVars, codeVars, cpuVars, memVars
<1>1. Executes(c, p) /\ onStack[c] = p /\ publish[c] = NoProc /\ Top(p).at = "lock"
  BY Zenon DEF PickOther, Executes
<1>2. /\ Top(p).cpu = c /\ Top(p).prev = p /\ current[c] = p /\ Top(p) \in Frame
      /\ boot[c].at = "gone" /\ ~Leaving(c)
      /\ \A d \in Cpus : onStack[d] = p => d = c
  BY <1>1, Executing
<1>3. PICK n \in Procs \ {p} :
        /\ IsPick(n, c) /\ cursor' = n
        /\ state' = [state EXCEPT ![p] = IF @ = "RUNNING" THEN "READY" ELSE @, ![n] = "RUNNING"]
        /\ off_cpu' = [off_cpu EXCEPT ![n] = FALSE]
        /\ current' = [current EXCEPT ![c] = n]
        /\ SetTop(p, [Top(p) EXCEPT !.at = "load", !.next = n])
  BY <1>2, Zenon DEF PickOther
<1>4. state[n] = "READY" /\ off_cpu[n] /\ (c # Bsp => n \notin BspOnly)
  BY <1>2, <1>3, PickFacts
<1>5. /\ esp[n] = n
      /\ \A d \in Cpus : onStack[d] # n /\ publish[d] # n /\ current[d] # n
  BY <1>4, TableAssumption DEF Inv, OffCpuInv, StackInv, PublishInv, CurrentInv
<1>6. state[p] \in {"RUNNING", "TERMINATED"} /\ ~off_cpu[p]
  BY Zenon, <1>1, <1>2 DEF Inv, CurrentInv, StackInv
<1> DEFINE f == [Top(p) EXCEPT !.at = "load", !.next = n]
<1>7. f \in Frame /\ f.at = "load" /\ f.prev = p /\ f.cpu = c /\ f.next = n
  BY <1>2, Zenon DEF Frame, MaybeProc
<1>8. SetTop(p, f)
  BY <1>3, Zenon
<1> HIDE DEF f
<1>9. /\ FrameInv' /\ Top(p)' = f
      /\ frame' \in [Procs -> [Levels -> Frame]]
      /\ \A q \in Procs \ {p} : frame'[q] = frame[q] /\ Top(q)' = Top(q)
  BY <1>1, <1>2, <1>7, <1>8, AdvanceFrame DEF PickOther
<1>10. /\ state' \in [Procs -> States] /\ state'[n] = "RUNNING" /\ state'[p] \in {"READY", "TERMINATED"}
       /\ \A q \in Procs \ {p, n} : state'[q] = state[q]
       /\ state[p] = "TERMINATED" => state'[p] = "TERMINATED"
       /\ off_cpu' \in [Procs -> BOOLEAN] /\ ~off_cpu'[n]
       /\ \A q \in Procs \ {n} : off_cpu'[q] = off_cpu[q]
       /\ current' \in [Cpus -> MaybeProc] /\ current'[c] = n
       /\ \A d \in Cpus \ {c} : current'[d] = current[d]
  BY <1>3, <1>6, Zenon DEF Inv, TypeOK, States, MaybeProc
<1>11. UNCHANGED <<memVars, esp, pc, target, tss, cr3, onStack, publish, boot>>
  BY Zenon DEF PickOther
<1>12. TypeOK'
  BY <1>3, <1>9, <1>10, Zenon DEF PickOther, Inv, TypeOK
<1>13. /\ Leaving(c)' /\ ~Loaded(c)' /\ ~Loaded(c) /\ Incoming(c)'
       /\ \A d \in Cpus \ {c} : /\ Leaving(d)' <=> Leaving(d)
                                /\ Loaded(d)' <=> Loaded(d)
                                /\ Incoming(d)' <=> Incoming(d)
                                /\ onStack[d] \in Procs => Top(onStack[d])' = Top(onStack[d])
  BY <1>1, <1>2, <1>7, <1>9, <1>11 DEF Leaving, Loaded, Incoming
<1>14. BootInv'
  BY <1>2, <1>3, <1>10, <1>11 DEF Inv, BootInv
<1>15. CpuInv'
  <2>1. Top(onStack[c])' = f /\ cr3[c] = p /\ tss[c] = p
    BY Zenon, <1>1, <1>2, <1>9, <1>11, <1>13 DEF Inv, CpuInv, CpuOk
  <2>2. CpuOk(c)'
    BY Zenon, <1>1, <1>2, <1>4, <1>7, <1>10, <1>11, <1>13, <2>1 DEF Inv, CpuInv, CpuOk
  <2>3. \A d \in Cpus \ {c} : CpuOk(d)'
    BY <1>10, <1>11, <1>13 DEF Inv, CpuInv, CpuOk, Leaving
  <2> QED BY <2>2, <2>3, Zenon DEF CpuInv
<1>16. CurrentInv'
  <2>1. \A d \in Cpus : current'[d] \in Procs => state'[current'[d]] \in {"RUNNING", "TERMINATED"}
    <3>1. \A d \in Cpus \ {c} : current[d] \in Procs => current[d] # p
      BY Zenon, <1>2 DEF Inv, CurrentInv
    <3> QED BY <1>5, <1>10, <3>1 DEF Inv, CurrentInv
  <2>2. \A d, e \in Cpus : current'[d] = current'[e] /\ current'[d] \in Procs => d = e
    BY <1>5, <1>10 DEF Inv, CurrentInv
  <2>3. \A q \in Procs : state'[q] = "RUNNING" => \E d \in Cpus : current'[d] = q
    <3>1. \A q \in Procs \ {p, n} : state'[q] = "RUNNING" => \E d \in Cpus \ {c} : current[d] = q
      BY <1>2, <1>10 DEF Inv, CurrentInv
    <3> QED BY <1>10, <3>1
  <2> QED BY <2>1, <2>2, <2>3, Zenon DEF CurrentInv
<1>17. StackInv'
  BY Zenon, <1>5, <1>10, <1>11 DEF Inv, StackInv
<1>18. IncomingInv'
  <2>1. \A d \in Cpus \ {c} : Incoming(d) => current[d] \in Procs \ {n}
    BY Zenon, <1>5 DEF Inv, Incoming, Leaving, BootInv, TypeOK, BootFrame
  <2>2. \A d \in Cpus \ {c} : Incoming(d) => current[d] # p
    BY <1>1, Zenon DEF Inv, IncomingInv
  <2> QED BY <1>5, <1>10, <1>11, <1>13, <2>1, <2>2 DEF Inv, IncomingInv
<1>19. PublishInv'
  BY <1>1, <1>3, <1>5, <1>10, <1>11, <1>13, TableAssumption DEF Inv, PublishInv
<1>20. OffCpuInv'
  BY <1>3, <1>6, <1>10, <1>11 DEF Inv, OffCpuInv
<1>21. SpawnInv'
  BY <1>4, <1>6, <1>10, <1>11 DEF Inv, SpawnInv
<1>22. ReapInv'
  BY <1>4, <1>6, <1>10, <1>11 DEF Inv, ReapInv, Reapable, memVars
<1> QED BY <1>9, <1>12, <1>14, <1>15, <1>16, <1>17, <1>18, <1>19, <1>20, <1>21, <1>22, Zenon DEF Inv

-----------------------------------------------------------------------------
(* switch_context()'s last store: from here on p may be picked or reaped.  *)
LEMMA PublishOffCpuInv == \A c \in Cpus : Preserved(PublishOffCpu(c))
<1> SUFFICES ASSUME Inv, KernelTasksPinned, NEW c \in Cpus,
                    PublishOffCpu(c)
             PROVE  Inv'
  BY Zenon DEF Preserved
<1> USE DEF codeVars, memVars
<1>1. PICK q \in Procs : q = publish[c]
  BY Zenon DEF PublishOffCpu, Inv, TypeOK, MaybeProc
<1>2. /\ ~Leaving(c) /\ ~off_cpu[q] /\ esp[q] = q /\ state[q] \in {"READY", "TERMINATED"}
      /\ \A d \in Cpus : onStack[d] # q /\ current[d] # q
      /\ \A d \in Cpus : publish[d] = q => d = c
  BY <1>1, Zenon DEF Inv, PublishInv
<1>3. /\ off_cpu' \in [Procs -> BOOLEAN] /\ off_cpu'[q] = TRUE
      /\ \A r \in Procs \ {q} : off_cpu'[r] = off_cpu[r]
      /\ publish' \in [Cpus -> MaybeProc] /\ publish'[c] = NoProc
      /\ \A d \in Cpus \ {c} : publish'[d] = publish[d]
  BY <1>1, Zenon DEF PublishOffCpu, Inv, TypeOK, MaybeProc
<1>4. UNCHANGED <<memVars, state, esp, throttled, codeVars, frame, current, cursor, tss, cr3, onStack, boot>>
  BY Zenon DEF PublishOffCpu
<1>5. \A r \in Procs : Top(r)' = Top(r)
  BY <1>4, Zenon DEF Top, Level
<1>6. \A d \in Cpus : /\ Leaving(d)' <=> Leaving(d)
                      /\ Loaded(d)' <=> Loaded(d)
                      /\ Incoming(d)' <=> Incoming(d)
                      /\ Leaving(d) => Top(onStack[d])' = Top(onStack[d])
  BY <1>4, <1>5, Zenon DEF Leaving, Loaded, Incoming
<1>7. TypeOK'
  BY <1>3, <1>4, Zenon DEF Inv, TypeOK
<1>8. BootInv' /\ CurrentInv'
  BY Zenon, <1>3, <1>4 DEF Inv, BootInv, CurrentInv
<1>9. CpuInv'
  BY <1>4, <1>6, Zenon DEF Inv, CpuInv, CpuOk
<1>10. StackInv'
  BY <1>2, <1>3, <1>4, Zenon DEF Inv, StackInv
<1>11. IncomingInv'
  <2>1. \A d \in Cpus : Incoming(d) => current[d] \in Procs
    BY Zenon DEF Inv, Incoming, Leaving, BootInv, TypeOK, BootFrame
  <2>2. \A d \in Cpus : Incoming(d) => off_cpu'[current[d]] = off_cpu[current[d]]
    BY <1>2, <1>3, <2>1, Zenon
  <2>3. \A d, e \in Cpus : Incoming(d) => publish'[e] # current[d]
    BY <1>3, <2>1, TableAssumption DEF Inv, IncomingInv
  <2> QED BY Zenon, <1>4, <1>6, <2>2, <2>3 DEF Inv, IncomingInv
<1>12. PublishInv'
  BY <1>2, <1>3, <1>4, <1>6, TableAssumption DEF Inv, PublishInv
<1>13. OffCpuInv'
  BY <1>2, <1>3, <1>4 DEF Inv, OffCpuInv
<1>14. FrameInv'
  BY <1>4, <1>5 DEF Inv, FrameInv, FrameOk
<1>15. SpawnInv'
  BY Zenon, <1>2, <1>3, <1>4 DEF Inv, SpawnInv
<1>16. ReapInv'
  BY Zenon, <1>2, <1>3, <1>4 DEF Inv, ReapInv, Reapable
<1> QED BY <1>7, <1>8, <1>9, <1>10, <1>11, <1>12, <1>13, <1>14, <1>15, <1>16, Zenon DEF Inv

(* The TSS and CR3 of the incoming process are loaded, without the lock.   *)
LEMMA LoadSpaceInv == \A c \in Cpus, p \in Procs : Preserved(LoadSpace(c, p))
<1> SUFFICES ASSUME Inv, KernelTasksPinned, NEW c \in Cpus, NEW p \in Procs,
                    LoadSpace(c, p)
             PROVE  Inv'
  BY Zenon DEF Preserved
<1> USE DEF procVars, codeVars, memVars
<1>1. onStack[c] = p /\ publish[c] = NoProc /\ Top(p).at = "load"
  BY Zenon DEF LoadSpace, Executes
<1>2. /\ Top(p).cpu = c /\ Top(p).prev = p /\ Top(p).next = current[c] /\ Top(p) \in Frame
      /\ boot[c].at = "gone" /\ Leaving(c) /\ current[c] \in Procs
      /\ \A d \in Cpus : onStack[d] = p => d = c
  BY <1>1, Executing
<1> DEFINE f == [Top(p) EXCEPT !.at = "switch"]
<1>3. f \in Frame /\ f.at = "switch" /\ f.prev = p /\ f.cpu = c /\ f.next = current[c]
  BY <1>2, Zenon DEF Frame
<1>4. SetTop(p, f)
  BY Zenon DEF LoadSpace
<1> HIDE DEF f
<1>5. UNCHANGED <<memVars, state, off_cpu, esp, pc, target, current, onStack, publish, boot>>
  BY Zenon DEF LoadSpace
<1>6. /\ FrameInv' /\ Top(p)' = f
      /\ frame' \in [Procs -> [Levels -> Frame]]
      /\ \A q \in Procs \ {p} : frame'[q] = frame[q] /\ Top(q)' = Top(q)
  BY <1>1, <1>3, <1>4, <1>5, AdvanceFrame, Zenon
<1>7. /\ cr3' \in [Cpus -> MaybeProc] /\ tss' \in [Cpus -> MaybeProc]
      /\ cr3'[c] = current[c] /\ tss'[c] = current[c]
      /\ \A d \in Cpus \ {c} : cr3'[d] = cr3[d] /\ tss'[d] = tss[d]
  BY Zenon, <1>2 DEF LoadSpace, Inv, TypeOK, MaybeProc
<1>8. TypeOK'
  BY <1>6, <1>7, Zenon DEF LoadSpace, Inv, TypeOK
<1>9. /\ Leaving(c)' /\ Loaded(c)' /\ Incoming(c)' /\ Incoming(c)
      /\ \A d \in Cpus \ {c} : /\ Leaving(d)' <=> Leaving(d)
                               /\ Loaded(d)' <=> Loaded(d)
                               /\ Incoming(d)' <=> Incoming(d)
                               /\ onStack[d] \in Procs => Top(onStack[d])' = Top(onStack[d])
  BY Zenon, <1>1, <1>2, <1>3, <1>5, <1>6 DEF Leaving, Loaded, Incoming
<1>10. BootInv' /\ CurrentInv' /\ StackInv' /\ OffCpuInv' /\ SpawnInv'
  <2>1. BootInv'
    BY <1>5, Zenon DEF Inv, BootInv
  <2>2. CurrentInv'
    BY <1>5, Zenon DEF Inv, CurrentInv
  <2>3. StackInv'
    BY <1>5, Zenon DEF Inv, StackInv
  <2>4. OffCpuInv'
    BY <1>5, Zenon DEF Inv, OffCpuInv
  <2>5. SpawnInv'
    BY <1>5, Zenon DEF Inv, SpawnInv
  <2> QED BY Zenon, <2>1, <2>2, <2>3, <2>4, <2>5
<1>11. CpuInv'
  <2>1. Top(onStack[c])' = f
    BY <1>1, <1>5, <1>6, Zenon
  <2>2. CpuOk(c)'
    BY <1>1, <1>2, <1>3, <1>5, <1>7, <1>9, <2>1, ZenonT(40) DEF Inv, CpuInv, CpuOk
  <2>3. \A d \in Cpus \ {c} : CpuOk(d)'
    BY <1>5, <1>7, <1>9 DEF Inv, CpuInv, CpuOk, Leaving
  <2> QED BY <2>2, <2>3, Zenon DEF CpuInv
<1>12. IncomingInv'
  BY Zenon, <1>5, <1>9 DEF Inv, IncomingInv
<1>13. PublishInv'
  BY Zenon, <1>1, <1>5, <1>9, TableAssumption DEF Inv, PublishInv
<1>14. ReapInv'
  BY <1>5, Zenon DEF Inv, ReapInv, Reapable
<1> QED BY <1>6, <1>8, <1>10, <1>11, <1>12, <1>13, <1>14, Zenon DEF Inv

-----------------------------------------------------------------------------
(* The stack switch itself.  p's context is saved and its done_flag store  *)
(* is pending, so p is on no CPU and cannot be picked before it.           *)
LEMMA SwitchContextInv == \A c \in Cpus, p \in Procs : Preserved(SwitchContext(c, p))
<1> SUFFICES ASSUME Inv, KernelTasksPinned, NEW c \in Cpus, NEW p \in Procs,
                    SwitchContext(c, p)
             PROVE  Inv'
  BY Zenon DEF Preserved
<1> USE DEF codeVars, memVars
<1>1. onStack[c] = p /\ publish[c] = NoProc /\ Top(p).at = "switch"
  BY Zenon DEF SwitchContext, Executes
<1>0. PICK n : n = current[c]
  BY Zenon
<1>2. /\ Top(p).cpu = c /\ Top(p).prev = p /\ Top(p).next = n /\ Top(p) \in Frame
      /\ boot[c].at = "gone" /\ Leaving(c) /\ n \in Procs /\ n # p
      /\ \A d \in Cpus : onStack[d] = p => d = c
  BY <1>0, <1>1, Executing
<1>3. /\ esp[n] = n /\ ~off_cpu[n]
      /\ \A d \in Cpus : onStack[d] # n /\ publish[d] # n
  BY <1>0, <1>2 DEF Inv, IncomingInv, Incoming
<1>4. ~off_cpu[p] /\ \A d \in Cpus : publish[d] # p
  BY <1>1, Zenon DEF Inv, StackInv, PublishInv
<1>5. \A d \in Cpus : current[d] = n => d = c
  BY <1>0, <1>2 DEF Inv, CurrentInv
<1>6. \A d \in Cpus : current[d] # p
  <2>1. ASSUME NEW d \in Cpus, d # c, current[d] = p PROVE FALSE
    <3>1. ~Incoming(d)
      BY Zenon, <1>1, <2>1 DEF Inv, IncomingInv
    <3>2. boot[d].at \in {"pick", "gone"}
      BY <3>1, Zenon DEF Incoming, Inv, TypeOK, BootFrame
    <3>3. boot[d].at = "gone"
      BY <2>1, <3>2, TableAssumption, Zenon DEF Inv, BootInv
    <3>4. onStack[d] = p
      BY <2>1, <3>1, <3>3, Zenon DEF Inv, CpuInv, CpuOk, Incoming
    <3> QED BY <1>2, <2>1, <3>4, Zenon
  <2> QED BY <1>0, <1>2, <2>1, Zenon
<1>7. state[p] \in {"READY", "TERMINATED"}
  <2>1. state[p] # "RUNNING"
    BY <1>6, Zenon DEF Inv, CurrentInv
  <2>2. state[p] \notin {"UNUSED", "ALLOCATING"}
    BY <1>1, Zenon DEF Inv, SpawnInv
  <2> QED BY <2>1, <2>2, Zenon DEF Inv, TypeOK, States
<1>8. /\ esp' = [esp EXCEPT ![p] = p, ![n] = Stale]
      /\ onStack' = [onStack EXCEPT ![c] = n]
      /\ publish' = [publish EXCEPT ![c] = p]
      /\ frame' = [frame EXCEPT ![p][Level(p)].at = "out", ![n][Level(n)] = NoFrame]
      /\ UNCHANGED <<memVars, state, off_cpu, throttled, codeVars, current, cursor, tss, cr3, boot>>
  <2>1. Resumed(n) = n
    BY <1>2, <1>3, Zenon DEF Resumed
  <2> QED BY <1>2, <1>3, <2>1, Zenon DEF SwitchContext
<1>9. /\ esp' \in [Procs -> Procs \cup {Stale}] /\ esp'[p] = p
      /\ \A q \in Procs \ {n, p} : esp'[q] = esp[q]
      /\ onStack' \in [Cpus -> MaybeProc] /\ onStack'[c] = n
      /\ \A d \in Cpus \ {c} : onStack'[d] = onStack[d]
      /\ publish' \in [Cpus -> MaybeProc] /\ publish'[c] = p
      /\ \A d \in Cpus \ {c} : publish'[d] = publish[d]
  BY <1>2, <1>8, Zenon DEF Inv, TypeOK, MaybeProc
<1>10. PICK lp \in Levels, ln \in Levels : lp = Level(p) /\ ln = Level(n)
  BY Zenon DEF Level, Levels
<1>11. /\ frame' \in [Procs -> [Levels -> Frame]]
       /\ frame'[p][lp] = [frame[p][lp] EXCEPT !.at = "out"]
       /\ \A l \in Levels \ {lp} : frame'[p][l] = frame[p][l]
       /\ frame'[n][ln] = NoFrame
       /\ \A l \in Levels \ {ln} : frame'[n][l] = frame[n][l]
       /\ \A q \in Procs \ {p, n} : frame'[q] = frame[q]
  <2>1. frame[p][lp] \in Frame /\ frame \in [Procs -> [Levels -> Frame]]
    BY Zenon DEF Inv, TypeOK
  <2>2. [frame[p][lp] EXCEPT !.at = "out"] \in Frame
    BY <2>1, Zenon DEF Frame
  <2>3. frame' = [frame EXCEPT ![p][lp].at = "out", ![n][ln] = NoFrame]
    BY <1>8, <1>10, Zenon
  <2> HIDE DEF Frame
  <2> QED BY <1>2, <2>1, <2>2, <2>3, FrameTypes, Zenon
<1>12. \A q \in Procs \ {p, n} : Top(q)' = Top(q)
  BY <1>11, Zenon DEF Top, Level
<1>13. Top(p)'.at = "out" /\ FrameOk(p)'
  <2>1. FrameOk(p)
    BY Zenon DEF Inv, FrameInv
  <2>2. frame'[p][lp].at = "out" /\ frame'[p][lp].prev = p /\ frame'[p][lp].cpu = c
    BY <1>2, <1>10, <1>11, Zenon DEF Top, Frame
  <2>3. Level(p)' = lp
    BY <1>10, <1>11, <2>2, Zenon DEF Level, Levels
  <2>4. \A d \in Cpus : onStack'[d] # p
    BY <1>2, <1>9, Zenon
  <2>5. Top(p)'.at = "out"
    BY <2>2, <2>3, Zenon DEF Top
  <2>6. IF lp = "call" THEN frame[p]["tick"].at = "none" ELSE frame[p]["tick"].at # "none"
    BY <1>10, Zenon DEF Level
  <2>9. /\ \A l \in Levels : frame[p][l].at \in {"lock", "load", "switch", "out"} => frame[p][l].prev = p
        /\ frame[p]["tick"].at # "none" => frame[p]["call"].at \in {"none", "entry", "lock"}
        /\ p \in KernelTasks => \A l \in Levels :
              frame[p][l].at \in {"entry", "lock", "load", "switch"} => frame[p][l].cpu = Bsp
        /\ p \notin KernelTasks /\ frame[p]["tick"].at # "none" => frame[p]["call"].at = "none"
    BY <2>1, Zenon DEF FrameOk
  <2>10. \A l \in Levels \ {lp} : frame'[p][l] = frame[p][l]
    BY <1>11, Zenon
  <2>7. /\ \A l \in Levels : frame'[p][l].at \in {"lock", "load", "switch", "out"} => frame'[p][l].prev = p
        /\ frame'[p]["tick"].at # "none" => frame'[p]["call"].at \in {"none", "entry", "lock"}
    BY <2>2, <2>6, <2>9, <2>10, Zenon DEF Levels
  <2>8. /\ p \in KernelTasks => \A l \in Levels :
              frame'[p][l].at \in {"entry", "lock", "load", "switch"} => frame'[p][l].cpu = Bsp
        /\ p \notin KernelTasks /\ frame'[p]["tick"].at # "none" => frame'[p]["call"].at = "none"
    BY Zenon, <2>2, <2>6, <2>9, <2>10 DEF Levels
  <2> QED BY <2>4, <2>5, <2>7, <2>8, Zenon DEF FrameOk
<1>14. Top(n)'.at \in {"none", "entry", "lock"} /\ FrameOk(n)'
  <2>1. n \in BspOnly => c = Bsp
    BY <1>0, Zenon DEF Inv, CpuInv, CpuOk
  <2>2. \A d \in Cpus \ {c} : onStack'[d] # n
    BY Zenon, <1>3, <1>9
  <2> QED BY <1>2, <1>3, <1>9, <1>10, <1>11, <2>1, <2>2, ResumeFrame
<1>15. FrameInv'
  <2>1. \A q \in Procs \ {p, n} : FrameOk(q)'
    <3>1. \A q \in Procs \ {p, n} : \A d \in Cpus : onStack'[d] = q <=> onStack[d] = q
      BY <1>1, <1>9, Zenon
    <3> QED BY <1>11, <1>12, <3>1 DEF Inv, FrameInv, FrameOk
  <2> QED BY <1>13, <1>14, <2>1, Zenon DEF FrameInv
<1>16. TypeOK'
  BY <1>8, <1>9, <1>11, Zenon DEF Inv, TypeOK
<1>17. /\ ~Leaving(c)' /\ ~Loaded(c)' /\ ~Incoming(c)' /\ Loaded(c)
       /\ \A d \in Cpus \ {c} : /\ Leaving(d)' <=> Leaving(d)
                                /\ Loaded(d)' <=> Loaded(d)
                                /\ Incoming(d)' <=> Incoming(d)
                                /\ onStack[d] \in Procs => Top(onStack[d])' = Top(onStack[d])
  <2>1. Top(onStack[c])' = Top(n)'
    BY <1>9, Zenon
  <2>2. \A d \in Cpus \ {c} : onStack[d] \in Procs => onStack[d] \in Procs \ {p, n}
    BY <1>2, <1>3, Zenon
  <2>3. \A d \in Cpus \ {c} : onStack[d] \in Procs => Top(onStack[d])' = Top(onStack[d])
    BY <1>9, <1>12, <2>2, Zenon
  <2>4. boot'[c].at = "gone"
    BY <1>2, <1>8, Zenon
  <2>5. ~Leaving(c)' /\ ~Loaded(c)' /\ ~Incoming(c)'
    BY <1>14, <2>1, <2>4, Zenon DEF Leaving, Loaded, Incoming
  <2>6. Loaded(c)
    BY <1>1, <1>2, Zenon DEF Loaded
  <2>7. \A d \in Cpus \ {c} : /\ Leaving(d)' <=> Leaving(d)
                              /\ Loaded(d)' <=> Loaded(d)
                              /\ Incoming(d)' <=> Incoming(d)
    BY <1>8, <1>9, <2>3, Zenon DEF Leaving, Loaded, Incoming
  <2> QED BY <2>3, <2>5, <2>6, <2>7, Zenon
<1>18. BootInv'
  BY <1>2, <1>8, <1>9 DEF Inv, BootInv
<1>19. CpuInv'
  <2>1. cr3[c] = n /\ tss[c] = n
    BY <1>0, <1>17, Zenon DEF Inv, CpuInv, CpuOk
  <2>2. n \in BspOnly => c = Bsp
    BY <1>0, Zenon DEF Inv, CpuInv, CpuOk
  <2>3. CpuOk(c)'
    BY <1>0, <1>8, <1>9, <1>17, <2>1, <2>2, Zenon DEF CpuOk
  <2>4. \A d \in Cpus \ {c} : CpuOk(d)'
    BY <1>8, <1>9, <1>17 DEF Inv, CpuInv, CpuOk, Leaving
  <2> QED BY <2>3, <2>4, Zenon DEF CpuInv
<1>20. CurrentInv'
  BY <1>8, Zenon DEF Inv, CurrentInv
<1>21. StackInv'
  BY <1>3, <1>8, <1>9 DEF Inv, StackInv
<1>22. IncomingInv'
  <2>1. ASSUME NEW d \in Cpus \ {c}, Incoming(d)
        PROVE  /\ esp'[current[d]] = current[d] /\ state[current[d]] = "RUNNING"
               /\ off_cpu[current[d]] => boot[d].at = "load"
               /\ \A e \in Cpus : onStack'[e] # current[d] /\ publish'[e] # current[d]
    <3>1. current[d] \in Procs
      BY Zenon, <2>1 DEF Inv, Incoming, Leaving, BootInv, TypeOK, BootFrame
    <3>2. current[d] # n /\ current[d] # p
      BY <1>5, <1>6, <2>1, Zenon
    <3> QED BY <1>9, <2>1, <3>1, <3>2 DEF Inv, IncomingInv
  <2>2. \A d \in Cpus : Incoming(d)' => d \in Cpus \ {c} /\ Incoming(d)
    BY <1>17, Zenon
  <2>3. UNCHANGED <<state, off_cpu, current, boot>>
    BY <1>8, ZenonT(40)
  <2> QED BY Zenon, <2>1, <2>2, <2>3 DEF IncomingInv
<1>23. PublishInv'
  <2>1. \A d \in Cpus \ {c} : publish[d] \in Procs => publish[d] # p /\ publish[d] # n
    BY <1>3, <1>4, Zenon
  <2>2. \A d \in Cpus : onStack'[d] # p
    BY <1>2, <1>9, Zenon
  <2>3. \A d \in Cpus \ {c} : publish[d] \in Procs =>
          \A e \in Cpus : onStack'[e] # publish[d]
    BY <1>9, <2>1 DEF Inv, PublishInv
  <2> QED BY <1>4, <1>6, <1>7, <1>8, <1>9, <1>17, <2>1, <2>2, <2>3 DEF Inv, PublishInv
<1>24. OffCpuInv'
  BY <1>3, <1>4, <1>8, <1>9 DEF Inv, OffCpuInv
<1>25. SpawnInv'
  <2>1. state[n] \notin {"UNUSED", "ALLOCATING"}
    BY <1>0, <1>2, Zenon DEF Inv, CurrentInv
  <2> QED BY <1>8, <1>9, <2>1 DEF Inv, SpawnInv
<1>26. ReapInv'
  BY <1>8, Zenon DEF Inv, ReapInv, Reapable
<1> QED BY <1>15, <1>16, <1>18, <1>19, <1>20, <1>21, <1>22, <1>23, <1>24, <1>25, <1>26, Zenon DEF Inv
(* What a step that touches no stack, frame or CPU leaves as it is.        *)
LEMMA QuietInv ==
    ASSUME Inv, UNCHANGED <<off_cpu, esp, frame, cpuVars>>,
           \A d \in Cpus : Incoming(d) => state'[current[d]] = state[current[d]]
    PROVE  /\ BootInv' /\ CpuInv' /\ StackInv' /\ IncomingInv' /\ FrameInv'
           /\ \A d \in Cpus : Leaving(d)' <=> Leaving(d)
<1> USE DEF cpuVars
<1>1. \A q \in Procs : Top(q)' = Top(q)
  BY Zenon DEF Top, Level
<1>2. \A d \in Cpus : /\ Leaving(d)' <=> Leaving(d)
                      /\ Loaded(d)' <=> Loaded(d)
                      /\ Incoming(d)' <=> Incoming(d)
                      /\ Leaving(d) => Top(onStack[d])' = Top(onStack[d])
  BY <1>1, Zenon DEF Leaving, Loaded, Incoming
<1>3. BootInv' /\ StackInv'
  BY Zenon DEF Inv, BootInv, StackInv
<1>4. CpuInv'
  BY <1>2, Zenon DEF Inv, CpuInv, CpuOk
<1>5. IncomingInv'
  BY <1>2 DEF Inv, IncomingInv
<1>6. FrameInv'
  BY <1>1 DEF Inv, FrameInv, FrameOk
<1> QED BY <1>2, <1>3, <1>4, <1>5, <1>6, Zenon

(* Steps of p's own code that touch no stack, frame or scheduler state.    *)
LocalStep(c, p) ==
    \/ Exit(c, p) \/ Abandon(c, p)
    \/ \E q \in Procs : Wait(c, p, q)
    \/ NoSuchPid(c, p) \/ ReapStack(c, p) \/ ClearStack(c, p)
    \/ ReapSpace(c, p) \/ ClearSpace(c, p)

(* What such a step does to the variables it changes.                      *)
Pcs == {"run", "spawn", "wait", "knull", "pfree", "pnull", "exit", "dead"}
LocalEffect(p) ==
    /\ pc' \in [Procs -> Pcs] /\ pc'[p] # "spawn"
    /\ target' \in [Procs -> MaybeProc]
    /\ \A q \in Procs \ {p} : pc'[q] = pc[q] /\ target'[q] = target[q]
    /\ pc'[p] \in {"wait", "knull", "pfree", "pnull"} => target'[p] \in Procs
    /\ pc'[p] \in {"knull", "pfree", "pnull"} => Reapable(target'[p])
    /\ irq' \in [Procs -> {"none", "listen", "park", "resched"}]
    /\ kstack' \in [Procs -> BOOLEAN] /\ pgdir' \in [Procs -> BOOLEAN]
    /\ kfrees' \in [Procs -> Nat] /\ pfrees' \in [Procs -> Nat]
    /\ \A q \in Procs : kfrees'[q] > 0 \/ pfrees'[q] > 0 => Reapable(q)

(* Each of those steps has that effect.                                    *)
LEMMA LocalEffects ==
    ASSUME Inv, NEW c \in Cpus, NEW p \in Procs, LocalStep(c, p)
    PROVE  LocalEffect(p)
<1>1. /\ pc \in [Procs -> Pcs] /\ target \in [Procs -> MaybeProc]
      /\ irq \in [Procs -> {"none", "listen", "park", "resched"}]
      /\ kfrees \in [Procs -> Nat] /\ pfrees \in [Procs -> Nat]
  BY Zenon DEF Inv, TypeOK, Pcs
<1>2. kstack \in [Procs -> BOOLEAN] /\ pgdir \in [Procs -> BOOLEAN]
  BY Zenon DEF Inv, TypeOK
<1>3. /\ pc[p] \in {"wait", "knull", "pfree", "pnull"} => target[p] \in Procs
      /\ pc[p] \in {"knull", "pfree", "pnull"} => Reapable(target[p])
      /\ \A q \in Procs : kfrees[q] > 0 \/ pfrees[q] > 0 => Reapable(q)
  BY Zenon DEF Inv, ReapInv
<1>4. CASE Exit(c, p)
  BY <1>1, <1>2, <1>3, <1>4, Zenon DEF LocalEffect, Exit, Pcs, memVars
<1>5. CASE Abandon(c, p)
  BY <1>1, <1>2, <1>3, <1>5, Zenon DEF LocalEffect, Abandon, Pcs, memVars, MaybeProc
<1>6. ASSUME NEW q \in Procs, Wait(c, p, q) PROVE LocalEffect(p)
  BY <1>1, <1>2, <1>3, <1>6, Zenon DEF LocalEffect, Wait, Pcs, memVars, MaybeProc
<1>7. CASE NoSuchPid(c, p)
  BY <1>1, <1>2, <1>3, <1>7, Zenon DEF LocalEffect, NoSuchPid, Pcs, memVars, MaybeProc
<1>8. CASE ReapStack(c, p)
  BY <1>1, <1>2, <1>3, <1>8 DEF LocalEffect, ReapStack, Waiting, Pcs
<1>9. CASE ClearStack(c, p)
  <2>1. kstack' \in [Procs -> BOOLEAN]
    BY <1>2, <1>9, Zenon DEF ClearStack
  <2> QED BY <1>1, <1>2, <1>3, <1>9, <2>1, Zenon DEF LocalEffect, ClearStack, Pcs
<1>10. CASE ReapSpace(c, p)
  BY <1>1, <1>2, <1>3, <1>10 DEF LocalEffect, ReapSpace, Pcs, MaybeProc
<1>11. CASE ClearSpace(c, p)
  <2>1. pgdir' \in [Procs -> BOOLEAN]
    BY <1>2, <1>11, Zenon DEF ClearSpace
  <2> QED BY <1>1, <1>2, <1>3, <1>11, <2>1, Zenon DEF LocalEffect, ClearSpace, Pcs, MaybeProc
<1> QED BY <1>4, <1>5, <1>6, <1>7, <1>8, <1>9, <1>10, <1>11, Zenon DEF LocalStep

(* Hence Inv is preserved by them.                                         *)
LEMMA LocalInv == \A c \in Cpus, p \in Procs : Preserved(LocalStep(c, p))
<1> SUFFICES ASSUME Inv, KernelTasksPinned, NEW c \in Cpus, NEW p \in Procs,
                    LocalStep(c, p)
             PROVE  Inv'
  BY Zenon DEF Preserved
<1> USE DEF procVars, codeVars, cpuVars, memVars
<1>1. OwnCode(c, p) /\ UNCHANGED <<procVars, frame, cpuVars>>
  BY Zenon DEF LocalStep, Exit, Abandon, Wait, NoSuchPid, ReapStack, ClearStack, ReapSpace, ClearSpace, Waiting
<1>2. /\ BootInv' /\ CpuInv' /\ StackInv' /\ IncomingInv' /\ FrameInv'
      /\ \A d \in Cpus : Leaving(d)' <=> Leaving(d)
  BY <1>1, QuietInv, Zenon
<1>3. CurrentInv' /\ OffCpuInv'
  BY <1>1 DEF Inv, CurrentInv, OffCpuInv
<1>4. PublishInv'
  BY <1>1, <1>2 DEF Inv, PublishInv
<1>5. LocalEffect(p)
  BY LocalEffects, Zenon
<1>6. TypeOK'
  BY <1>1, <1>5, Zenon DEF Inv, TypeOK, LocalEffect, Pcs
<1>7. SpawnInv'
  BY <1>1, <1>5 DEF Inv, SpawnInv, LocalEffect
<1>8. ReapInv'
  BY <1>1, <1>5 DEF Inv, ReapInv, Reapable, LocalEffect
<1> QED BY <1>2, <1>3, <1>4, <1>6, <1>7, <1>8, Zenon DEF Inv

(* process_exit_current() and the kills mark a process TERMINATED.         *)
LEMMA TerminateInv == \A c \in Cpus, p \in Procs : Preserved(Terminate(c, p))
<1> SUFFICES ASSUME Inv, KernelTasksPinned, NEW c \in Cpus, NEW p \in Procs,
                    Terminate(c, p)
             PROVE  Inv'
  BY Zenon DEF Preserved
<1> USE DEF procVars, codeVars, cpuVars, memVars
<1>1. onStack[c] = p /\ current[c] = p /\ Top(p).at = "none"
  BY Executing DEF Terminate, OwnCode, Executes
<1>2. /\ BootInv' /\ CpuInv' /\ StackInv' /\ IncomingInv' /\ FrameInv'
      /\ \A d \in Cpus : Leaving(d)' <=> Leaving(d)
  <2>1. \A d \in Cpus : Incoming(d) => state'[current[d]] = state[current[d]]
    BY <1>1 DEF Terminate, Inv, IncomingInv
  <2> QED BY <2>1, QuietInv, Zenon DEF Terminate
<1>3. /\ state' \in [Procs -> States] /\ state'[p] = "TERMINATED"
      /\ \A q \in Procs \ {p} : state'[q] = state[q]
      /\ pc' \in [Procs -> {"run", "spawn", "wait", "knull", "pfree", "pnull", "exit", "dead"}]
      /\ pc'[p] = "dead" /\ \A q \in Procs \ {p} : pc'[q] = pc[q]
  BY Zenon DEF Terminate, Inv, TypeOK, States
<1>4. TypeOK'
  BY <1>3, Zenon DEF Terminate, Inv, TypeOK
<1>5. CurrentInv' /\ OffCpuInv'
  BY <1>1, <1>3 DEF Terminate, Inv, CurrentInv, OffCpuInv
<1>6. PublishInv'
  BY <1>1, <1>2, <1>3 DEF Terminate, Inv, PublishInv
<1>7. state[p] \in {"RUNNING", "TERMINATED"}
  BY <1>1, Zenon DEF Inv, CurrentInv
<1>8. SpawnInv'
  BY <1>3, <1>7 DEF Terminate, Inv, SpawnInv
<1>9. ReapInv'
  BY <1>3 DEF Terminate, Inv, ReapInv, Reapable
<1> QED BY <1>2, <1>4, <1>5, <1>6, <1>8, <1>9, Zenon DEF Inv

(* A slot is claimed ALLOCATING for a child.                               *)
LEMMA AllocateSlotInv == \A c \in Cpus, p \in Procs : Preserved(AllocateSlot(c, p))
<1> SUFFICES ASSUME Inv, KernelTasksPinned, NEW c \in Cpus, NEW p \in Procs,
                    AllocateSlot(c, p)
             PROVE  Inv'
  BY Zenon DEF Preserved
<1> USE DEF procVars, codeVars, cpuVars, memVars
<1>1. PICK q \in Procs : /\ state[q] = "UNUSED"
                         /\ state' = [state EXCEPT ![q] = "ALLOCATING"]
                         /\ target' = [target EXCEPT ![p] = q]
  BY Zenon DEF AllocateSlot
<1>2. /\ BootInv' /\ CpuInv' /\ StackInv' /\ IncomingInv' /\ FrameInv'
      /\ \A d \in Cpus : Leaving(d)' <=> Leaving(d)
  <2>1. \A d \in Cpus : Incoming(d) => state'[current[d]] = state[current[d]]
    BY <1>1 DEF Inv, IncomingInv
  <2> QED BY <2>1, QuietInv, Zenon DEF AllocateSlot
<1>3. /\ state' \in [Procs -> States] /\ state'[q] = "ALLOCATING"
      /\ \A r \in Procs \ {q} : state'[r] = state[r]
      /\ pc' \in [Procs -> {"run", "spawn", "wait", "knull", "pfree", "pnull", "exit", "dead"}]
      /\ target' \in [Procs -> MaybeProc]
      /\ pc'[p] = "spawn" /\ target'[p] = q
      /\ \A r \in Procs \ {p} : pc'[r] = pc[r] /\ target'[r] = target[r]
  BY <1>1 DEF AllocateSlot, Inv, TypeOK, States, MaybeProc
<1>4. TypeOK'
  BY <1>3, ZenonT(40) DEF AllocateSlot, Inv, TypeOK
<1>5. CurrentInv' /\ OffCpuInv'
  BY <1>1, <1>3 DEF AllocateSlot, Inv, CurrentInv, OffCpuInv, TypeOK
<1>6. PublishInv'
  BY <1>1, <1>2, <1>3 DEF AllocateSlot, Inv, PublishInv
<1>7. SpawnInv'
  BY <1>1, <1>3 DEF AllocateSlot, Inv, SpawnInv
<1>8. ReapInv'
  BY <1>1, <1>3 DEF AllocateSlot, Inv, ReapInv, Reapable
<1> QED BY <1>2, <1>4, <1>5, <1>6, <1>7, <1>8, Zenon DEF Inv

(* Inv holds when scheduler_start() is reached.                            *)
LEMMA InitInv == Init => Inv
<1> SUFFICES ASSUME Init PROVE Inv
  BY Zenon
<1> USE TableAssumption, CpuAssumption, TaskAssumption
<1>1. \A p \in Procs : \A l \in Levels : frame[p][l] = NoFrame
  BY Zenon DEF Init
<1>2. \A p \in Procs : Top(p) = NoFrame
  BY <1>1, Zenon DEF Top, Level, Levels
<1>3. TypeOK
  BY FrameTypes DEF Init, TypeOK, States, MaybeProc, BootFrame, Procs
<1>4. \A c \in Cpus : ~Leaving(c) /\ ~Loaded(c) /\ ~Incoming(c)
  BY Zenon DEF Init, Leaving, Loaded, Incoming
<1>5. BootInv /\ CurrentInv /\ StackInv /\ OffCpuInv
  BY Zenon DEF Init, BootInv, CurrentInv, StackInv, OffCpuInv
<1>6. NoProc \notin BspOnly
  BY Zenon
<1>7. CpuInv /\ IncomingInv /\ PublishInv
  BY <1>4, <1>6, Zenon DEF Init, CpuInv, CpuOk, IncomingInv, PublishInv
<1>8. FrameInv
  BY <1>1, <1>2, FrameTypes, Zenon DEF Init, FrameInv, FrameOk, Levels
<1>9. SpawnInv /\ ReapInv
  <2>1. \A p \in Procs : state[p] \in {"UNUSED", "ALLOCATING"} => p \notin Boot
    BY Zenon DEF Init
  <2>2. \A p \in Procs : p \notin Boot => ~off_cpu[p]
    BY Zenon DEF Init
  <2>3. \A p \in Procs : pc[p] = "run" /\ kfrees[p] = 0 /\ pfrees[p] = 0
    BY Zenon DEF Init
  <2>4. \A p \in Procs, c \in Cpus : onStack[c] # p
    BY Zenon DEF Init
  <2>5. SpawnInv
    BY <2>1, <2>2, <2>3, <2>4, Zenon DEF SpawnInv
  <2>6. ReapInv
    BY <2>3 DEF ReapInv
  <2> QED BY <2>5, <2>6, Zenon
<1> QED BY <1>3, <1>5, <1>7, <1>8, <1>9, Zenon DEF Inv

(* Inv depends on the variables of the specification only.                 *)
LEMMA StutterInv == Inv /\ UNCHANGED vars => Inv'
<1> SUFFICES ASSUME Inv, UNCHANGED vars PROVE Inv'
  BY Zenon
<1> USE DEF vars, memVars, procVars, codeVars, cpuVars
<1>1. /\ BootInv' /\ CpuInv' /\ StackInv' /\ IncomingInv' /\ FrameInv'
      /\ \A d \in Cpus : Leaving(d)' <=> Leaving(d)
  BY QuietInv, Zenon
<1>2. TypeOK' /\ CurrentInv' /\ OffCpuInv'
  BY DEF Inv, TypeOK, CurrentInv, OffCpuInv
<1>3. PublishInv'
  BY <1>1, Zenon DEF Inv, PublishInv
<1>4. SpawnInv' /\ ReapInv'
  BY Zenon DEF Inv, SpawnInv, ReapInv, Reapable
<1> QED BY <1>1, <1>2, <1>3, <1>4, Zenon DEF Inv

(* Inv is inductive when the kernel tasks are pinned to the BSP.           *)
LEMMA NextInv == KernelTasksPinned /\ Inv /\ Next => Inv'
<1> SUFFICES ASSUME KernelTasksPinned, Inv, Next PROVE Inv'
  BY Zenon
<1>1. PICK c \in Cpus :
        \/ BootStep(c) \/ PublishOffCpu(c)
        \/ \E p \in Procs : Schedule(c, p) \/ Interrupt(c, p) \/ Syscall(c, p)
  BY Zenon DEF Next
<1>2. CASE BootStep(c)
  BY <1>2, BootPickInv, BootLoadInv, BootSwitchInv, Zenon DEF BootStep, Preserved
<1>3. CASE PublishOffCpu(c)
  BY <1>3, PublishOffCpuInv, Zenon DEF Preserved
<1>4. ASSUME NEW p \in Procs, Schedule(c, p) PROVE Inv'
  BY <1>4, EnterScheduleInv, PickNothingInv, PickSameInv, PickOtherInv, LoadSpaceInv, SwitchContextInv, Zenon
     DEF Schedule, Preserved
<1>5. ASSUME NEW p \in Procs, Interrupt(c, p) PROVE Inv'
  BY <1>5, InterruptInv, Zenon DEF Preserved
<1>6. ASSUME NEW p \in Procs, Syscall(c, p) PROVE Inv'
  BY <1>6, YieldInv, TerminateInv, AllocateSlotInv, PublishProcInv, LocalInv, Zenon DEF Syscall, LocalStep, Preserved
<1> QED BY <1>1, <1>2, <1>3, <1>4, <1>5, <1>6, Zenon

-----------------------------------------------------------------------------
(* With the kernel tasks pinned, the invariant holds for any number of     *)
(* CPUs and processes; in particular the model is type-correct.            *)
THEOREM Invariance ==
    ASSUME KernelTasksPinned PROVE Spec => []Inv
<1>1. Inv /\ [Next]_vars => Inv'
  BY NextInv, StutterInv, Zenon
<1> QED BY <1>1, InitInv, PTL DEF Spec

(* No two CPUs execute on one kernel stack, although do_schedule() drops   *)
(* its lock before the stack switch.                                       *)
THEOREM StacksNotShared ==
    ASSUME KernelTasksPinned PROVE Spec => []OneCpuPerStack
<1>1. Inv => OneCpuPerStack
  BY Zenon DEF Inv, StackInv, TypeOK, MaybeProc, OneCpuPerStack
<1> QED BY <1>1, Invariance, PTL

(* Every switch loads an esp that was saved by its own process and that no *)
(* other CPU has consumed.                                                 *)
THEOREM ContextsSaved ==
    ASSUME KernelTasksPinned PROVE Spec => []SavedContext
<1>1. Inv => SavedContext
  <2> SUFFICES ASSUME Inv, NEW c \in Cpus
               PROVE  /\ boot[c].at = "switch" => esp[boot[c].next] = boot[c].next
                      /\ \A p \in Procs : Executes(c, p) /\ Top(p).at = "switch"
                                            => esp[Top(p).next] = Top(p).next
    BY Zenon DEF SavedContext
  <2>1. boot[c].at = "switch" => esp[boot[c].next] = boot[c].next
    BY DEF Inv, IncomingInv, Incoming, BootInv
  <2>2. ASSUME NEW p \in Procs, Executes(c, p), Top(p).at = "switch"
        PROVE  esp[Top(p).next] = Top(p).next
    <3>1. Leaving(c) /\ Top(p).next = current[c]
      BY <2>2, Executing DEF Executes
    <3> QED BY <3>1 DEF Inv, IncomingInv, Incoming
  <2> QED BY <2>1, <2>2, Zenon
<1> QED BY <1>1, Invariance, PTL

(* process_is_reapable() means what its comment says: the stack and the    *)
(* page directory of a reapable or reaped process are in no CPU's          *)
(* registers.                                                              *)
THEOREM ReapingIsSafe ==
    ASSUME KernelTasksPinned PROVE Spec => []ReapSafe
<1>1. Inv => ReapSafe
  <2> SUFFICES ASSUME Inv, NEW q \in Procs, Reapable(q), NEW c \in Cpus
               PROVE  onStack[c] # q /\ tss[c] # q /\ cr3[c] # q
    BY Zenon DEF ReapSafe, Inv, ReapInv
  <2>1. onStack[c] # q
    BY Zenon DEF Inv, StackInv, Reapable
  <2>2. Loaded(c) => Incoming(c)
    BY Zenon DEF Loaded, Incoming
  <2>3. Loaded(c) => current[c] # q
    BY <2>2, Zenon DEF Inv, IncomingInv, Reapable
  <2> QED BY <2>1, <2>3, Zenon DEF Inv, CpuInv, CpuOk
<1> QED BY <1>1, Invariance, PTL

(* RUNNING means current on exactly one CPU.                               *)
THEOREM RunningHasOneCpu ==
    ASSUME KernelTasksPinned PROVE Spec => []RunningIsCurrent
<1>1. Inv => RunningIsCurrent
  <2> SUFFICES ASSUME Inv PROVE RunningIsCurrent
    BY Zenon
  <2>1. \A p \in Procs : state[p] = "RUNNING" =>
            \E c \in Cpus : current[c] = p /\ \A d \in Cpus : current[d] = p => d = c
    BY DEF Inv, CurrentInv
  <2>2. \A c \in Cpus : current[c] # NoProc => state[current[c]] \in {"RUNNING", "TERMINATED"}
    BY DEF Inv, CurrentInv, TypeOK, MaybeProc
  <2> QED BY <2>1, <2>2, Zenon DEF RunningIsCurrent
<1> QED BY <1>1, Invariance, PTL

(* An AP never executes a bsp_only process.                                *)
THEOREM PinningHolds ==
    ASSUME KernelTasksPinned PROVE Spec => []BspOnlyStays
<1>1. Inv => BspOnlyStays
  BY Zenon DEF Inv, CpuInv, CpuOk, BspOnlyStays
<1> QED BY <1>1, Invariance, PTL

(* No step of any CPU revives a terminated process.                        *)
THEOREM DeadStay ==
    ASSUME KernelTasksPinned PROVE Spec => DeadStaysDead
<1> DEFINE Kept == \A p \in Procs : state[p] = "TERMINATED" => state'[p] = "TERMINATED"
<1>1. Inv /\ [Next]_vars => [Kept]_vars
  <2> SUFFICES ASSUME Inv, Next PROVE Kept
    BY Zenon
  <2> USE DEF procVars
  <2>1. PICK c \in Cpus :
          \/ BootStep(c) \/ PublishOffCpu(c)
          \/ \E p \in Procs : Schedule(c, p) \/ Interrupt(c, p) \/ Syscall(c, p)
    BY Zenon DEF Next
  <2>2. CASE BootStep(c)
    BY <2>2, PickFacts DEF BootStep, BootPick, BootLoad, BootSwitch, Inv, TypeOK
  <2>3. CASE PublishOffCpu(c)
    BY <2>3, Zenon DEF PublishOffCpu
  <2>4. ASSUME NEW p \in Procs, Schedule(c, p) PROVE Kept
    <3>1. CASE PickSame(c, p)
      <4>1. Top(p).cpu = c /\ Top(p).prev = p
        BY <3>1, Executing DEF PickSame, Executes
      <4> QED BY SMTT(30), <3>1, <4>1, PickFacts DEF PickSame, Inv, TypeOK
    <3>2. CASE PickOther(c, p)
      <4>1. Top(p).cpu = c /\ Top(p).prev = p
        BY <3>2, Executing DEF PickOther, Executes
      <4> QED BY <3>2, <4>1, PickFacts DEF PickOther, Inv, TypeOK
    <3> QED BY <2>4, <3>1, <3>2, Zenon DEF Schedule, EnterSchedule, PickNothing, LoadSpace, SwitchContext
  <2>5. ASSUME NEW p \in Procs, Interrupt(c, p) PROVE Kept
    BY <2>5, Zenon DEF Interrupt, Tick, ListenAllow, ListenThrottle, Resched, IpiThrottle, Park
  <2>6. ASSUME NEW p \in Procs, Syscall(c, p) PROVE Kept
    <3>1. CASE Publish(c, p)
      <4>1. target[p] \in Procs /\ state[target[p]] = "ALLOCATING"
        BY <3>1, Zenon DEF Publish, Inv, SpawnInv
      <4> QED BY <3>1, <4>1, Zenon DEF Publish, Inv, TypeOK
    <3>2. CASE Terminate(c, p) \/ AllocateSlot(c, p)
      BY <3>2, Zenon DEF Terminate, AllocateSlot, Inv, TypeOK
    <3> QED BY <2>6, <3>1, <3>2, Zenon DEF Syscall, Yield, Exit, Abandon, Wait, NoSuchPid, WaitYield,
               ReapStack, ClearStack, ReapSpace, ClearSpace
  <2> QED BY <2>1, <2>2, <2>3, <2>4, <2>5, <2>6, Zenon
<1> QED BY <1>1, Invariance, PTL DEF Spec, DeadStaysDead

-----------------------------------------------------------------------------
(* What the one-CPU lemmas below show of a step A.                         *)
KeptOnOne(A) == OneCpu /\ KernelTasksPinned /\ OneCpuInv /\ A => IdleInv' /\ ThrottleInv'

(* A step that switches nothing, throttles nobody and leaves the idle task *)
(* and the interrupt frames of the throttled processes alone.              *)
LEMMA StayStep ==
    ASSUME IdleInv, ThrottleInv, Idle \in Procs,
           UNCHANGED <<onStack, publish, current, throttled>>,
           state'[Idle] = state[Idle], off_cpu'[Idle] = off_cpu[Idle], pc'[Idle] # "exit",
           \A d \in Cpus : Incoming(d)' => Incoming(d),
           \A q \in Procs : throttled[q] => /\ state'[q] = state[q] /\ irq'[q] = irq[q]
                                            /\ frame'[q]["tick"].at = "none" => frame[q]["tick"].at = "none"
    PROVE  IdleInv' /\ ThrottleInv'
<1>1. IdleInv'
  BY Zenon DEF IdleInv
<1>2. \A q \in Procs : throttled'[q] => q # Idle /\ state'[q] \in {"READY", "RUNNING"}
  BY Zenon DEF ThrottleInv
<1>3. \A d \in Cpus : Incoming(d)' => ~throttled'[current'[d]]
  BY Zenon DEF ThrottleInv
<1>4. ASSUME NEW d \in Cpus, onStack'[d] \in Procs, throttled'[onStack'[d]]
      PROVE  irq'[onStack'[d]] = "park" \/ frame'[onStack'[d]]["tick"].at # "none"
  <2>1. PICK q \in Procs : q = onStack[d] /\ q = onStack'[d] /\ throttled[q]
    BY <1>4, Zenon
  <2>2. irq[q] = "park" \/ frame[q]["tick"].at # "none"
    BY <2>1 DEF ThrottleInv
  <2> QED BY <2>1, <2>2, Zenon
<1> QED BY <1>1, <1>2, <1>3, <1>4, Zenon DEF ThrottleInv

(* The idle task is a slot of the table.                                   *)
LEMMA IdleIsProc == Idle \in Procs /\ Idle \notin Limited
BY TaskAssumption, Zenon

(* A throttled process in its own code is in the limit IPI's loop.         *)
LEMMA OwnCodeFree ==
    ASSUME ThrottleInv, NEW c \in Cpus, NEW p \in Procs, OwnCode(c, p), irq[p] # "park"
    PROVE  ~throttled[p]
BY Zenon DEF ThrottleInv, OwnCode, Executes, Top, Level

(* On one CPU a throttled process at the lock finds the idle task.         *)
LEMMA IdleEligible ==
    ASSUME OneCpu, OneCpuInv, NEW c \in Cpus, NEW p \in Procs, Executes(c, p),
           Top(p).at \notin {"load", "switch"}, throttled[p]
    PROVE  Eligible(Idle, c)
<1>1. onStack[c] = p /\ publish[c] = NoProc /\ c = Bsp /\ p # Idle /\ ~throttled[Idle]
  BY IdleIsProc, Zenon DEF Executes, OneCpu, OneCpuInv, ThrottleInv
<1>2. current[c] = p /\ \A d \in Cpus : d = c
  BY <1>1, Executing, Zenon DEF OneCpu, OneCpuInv
<1>3. state[Idle] # "RUNNING"
  BY <1>1, <1>2, IdleIsProc, Zenon DEF OneCpuInv, Inv, CurrentInv
<1>4. state[Idle] = "READY" /\ off_cpu[Idle]
  BY <1>1, <1>2, <1>3, IdleIsProc, TableAssumption, Zenon DEF OneCpuInv, IdleInv
<1> QED BY <1>1, <1>4, Zenon DEF Eligible

(* A step inside do_schedule(), or a call of it, in which p goes on.       *)
LEMMA GoOnStep ==
    ASSUME OneCpu, OneCpuInv, NEW c \in Cpus, NEW p \in Procs, NEW f \in Frame,
           Executes(c, p), SetTop(p, f),
           Top(p)'.at \in {"load", "switch"} => Top(p).at \in {"load", "switch"},
           f.at # "none" \/ ~throttled[p],
           UNCHANGED <<memVars, procVars, codeVars, current, onStack, publish, boot>>
    PROVE  IdleInv' /\ ThrottleInv'
<1> USE DEF procVars, codeVars
<1>1. /\ \A q \in Procs \ {p} : frame'[q] = frame[q] /\ Top(q)' = Top(q)
      /\ frame'[p][Level(p)] = f
      /\ \A l \in Levels \ {Level(p)} : frame'[p][l] = frame[p][l]
  BY SetTopOthers, Zenon DEF OneCpuInv, Inv
<1>2. \A q \in Procs : throttled[q] =>
         (frame'[q]["tick"].at = "none" => frame[q]["tick"].at = "none")
  BY <1>1 DEF Level, Levels
<1>3. \A d \in Cpus : Incoming(d)' => Incoming(d)
  BY Zenon DEF OneCpu, Incoming, Leaving, Executes
<1> QED BY <1>2, <1>3, StayStep, IdleIsProc, Zenon DEF OneCpuInv, IdleInv

(* The steps of do_schedule() that switch nothing: a throttled process     *)
(* passes the early returns, because it is current and alive, and does not *)
(* come back from pick_next_locked() to go on.                             *)
LEMMA EnterScheduleOne == \A c \in Cpus, p \in Procs : KeptOnOne(EnterSchedule(c, p))
<1> SUFFICES ASSUME OneCpu, KernelTasksPinned, OneCpuInv, NEW c \in Cpus, NEW p \in Procs,
                    EnterSchedule(c, p)
             PROVE  IdleInv' /\ ThrottleInv'
  BY Zenon DEF KeptOnOne
<1> DEFINE f == [Top(p) EXCEPT !.at = "lock", !.prev = current[Top(p).cpu]]
<1> USE DEF cpuVars
<1>0. Executes(c, p) /\ onStack[c] = p /\ Top(p).at = "entry" /\ Inv
  BY Zenon DEF EnterSchedule, Executes, OneCpuInv
<1>1. Top(p).cpu = c /\ current[c] = p /\ Top(p) \in Frame
  BY <1>0, Executing
<1>2. f \in Frame /\ f.at = "lock" /\ f.prev = p /\ f.cpu = c
  BY <1>1, Zenon DEF Frame, MaybeProc
<1> HIDE DEF f
<1>3. CASE Return(p) /\ ~throttled[p]
  <2>1. Top(p)'.at \in {"none", "entry", "lock"}
    BY <1>0, <1>3, PopFrame, Zenon DEF EnterSchedule
  <2> QED BY <1>0, <1>3, <2>1, GoOnStep, FrameTypes DEF EnterSchedule, Return
<1>4. CASE SetTop(p, f)
  <2>1. Top(p)' = f
    BY <1>0, <1>2, <1>4, AdvanceFrame, Zenon DEF EnterSchedule
  <2> QED BY <1>0, <1>2, <1>4, <2>1, GoOnStep DEF EnterSchedule
<1>5. throttled[p] => state[p] # "TERMINATED" /\ p # NoProc
  BY TableAssumption, Zenon DEF OneCpuInv, ThrottleInv
<1> QED BY <1>1, <1>3, <1>4, <1>5, Zenon DEF EnterSchedule, f

(* Nothing to pick: then p is not throttled.                               *)
LEMMA PickNothingOne == \A c \in Cpus, p \in Procs : KeptOnOne(PickNothing(c, p))
<1> SUFFICES ASSUME OneCpu, KernelTasksPinned, OneCpuInv, NEW c \in Cpus, NEW p \in Procs,
                    PickNothing(c, p)
             PROVE  IdleInv' /\ ThrottleInv'
  BY Zenon DEF KeptOnOne
<1> USE DEF cpuVars
<1>0. Executes(c, p) /\ onStack[c] = p /\ Top(p).at = "lock" /\ Inv
  BY Zenon DEF PickNothing, Executes, OneCpuInv
<1>1. Top(p).cpu = c
  BY <1>0, Executing
<1>2. ~throttled[p]
  BY <1>0, <1>1, IdleEligible, IdleIsProc, Zenon DEF PickNothing
<1>3. Top(p)'.at \in {"none", "entry", "lock"}
  BY <1>0, PopFrame, Zenon DEF PickNothing
<1> QED BY <1>0, <1>2, <1>3, GoOnStep, FrameTypes DEF PickNothing, Return

(* The TSS and CR3 of the next process are loaded.                         *)
LEMMA LoadSpaceOne == \A c \in Cpus, p \in Procs : KeptOnOne(LoadSpace(c, p))
<1> SUFFICES ASSUME OneCpu, KernelTasksPinned, OneCpuInv, NEW c \in Cpus, NEW p \in Procs,
                    LoadSpace(c, p)
             PROVE  IdleInv' /\ ThrottleInv'
  BY Zenon DEF KeptOnOne
<1> DEFINE f == [Top(p) EXCEPT !.at = "switch"]
<1>0. Executes(c, p) /\ onStack[c] = p /\ Top(p).at = "load" /\ SetTop(p, f) /\ Inv
  BY Zenon DEF LoadSpace, Executes, OneCpuInv
<1>1. Top(p) \in Frame
  BY <1>0, Executing
<1>2. f \in Frame /\ f.at = "switch"
  BY <1>1, Zenon DEF Frame
<1> HIDE DEF f
<1> QED BY <1>0, <1>2, GoOnStep DEF LoadSpace

(* The calls of scheduler_yield().                                         *)
LEMMA YieldOne == \A c \in Cpus, p \in Procs : KeptOnOne(Yield(c, p) \/ WaitYield(c, p))
<1> SUFFICES ASSUME OneCpu, KernelTasksPinned, OneCpuInv, NEW c \in Cpus, NEW p \in Procs,
                    Yield(c, p) \/ WaitYield(c, p)
             PROVE  IdleInv' /\ ThrottleInv'
  BY Zenon DEF KeptOnOne
<1> USE DEF cpuVars
<1>1. /\ OwnCode(c, p) /\ SetTop(p, Entry(c)) /\ Inv
      /\ UNCHANGED <<memVars, procVars, codeVars, cpuVars>>
  BY Zenon DEF Yield, WaitYield, Waiting, OneCpuInv
<1>2. Top(p)' = Entry(c)
  BY <1>1, PushCall, Zenon
<1> QED BY <1>1, <1>2, GoOnStep, FrameTypes DEF OwnCode

(* The pick is the process that is leaving: it runs on, and is eligible.   *)
LEMMA PickSameOne == \A c \in Cpus, p \in Procs : KeptOnOne(PickSame(c, p))
<1> SUFFICES ASSUME OneCpu, KernelTasksPinned, OneCpuInv, NEW c \in Cpus, NEW p \in Procs,
                    PickSame(c, p)
             PROVE  IdleInv' /\ ThrottleInv'
  BY Zenon DEF KeptOnOne
<1>0. Executes(c, p) /\ onStack[c] = p /\ Top(p).at = "lock" /\ Inv
  BY Zenon DEF PickSame, Executes, OneCpuInv
<1>1. Top(p).cpu = c /\ Top(p).prev = p
  BY <1>0, Executing
<1>2. IsPick(p, c) /\ state' = [state EXCEPT ![p] = "RUNNING"] /\ Return(p)
  BY <1>1, Zenon DEF PickSame
<1>3. ~throttled[p] /\ state[p] = "RUNNING"
  BY <1>0, <1>2, Zenon DEF IsPick, Eligible, Inv, StackInv
<1>4. UNCHANGED state
  BY <1>0, <1>2, <1>3, Zenon DEF Inv, TypeOK
<1>5. Top(p)'.at \in {"none", "entry", "lock"}
  BY <1>0, <1>2, PopFrame, Zenon DEF PickSame
<1> QED BY <1>0, <1>2, <1>3, <1>4, <1>5, GoOnStep, FrameTypes DEF PickSame, Return, procVars

(* The parts of ThrottleInv for the only CPU.                              *)
LEMMA OnlyCpu ==
    ASSUME OneCpu, NEW c \in Cpus,
           \A q \in Procs : throttled'[q] => q # Idle /\ state'[q] \in {"READY", "RUNNING"},
           Incoming(c)' => ~throttled'[current'[c]],
           onStack'[c] \in Procs /\ throttled'[onStack'[c]] =>
               irq'[onStack'[c]] = "park" \/ frame'[onStack'[c]]["tick"].at # "none"
    PROVE  ThrottleInv'
<1>1. \A d \in Cpus : d = c
  BY Zenon DEF OneCpu
<1> QED BY <1>1, Zenon DEF ThrottleInv

(* Another process is picked: it is not throttled.                         *)
LEMMA PickOtherOne == \A c \in Cpus, p \in Procs : KeptOnOne(PickOther(c, p))
<1> SUFFICES ASSUME OneCpu, KernelTasksPinned, OneCpuInv, NEW c \in Cpus, NEW p \in Procs,
                    PickOther(c, p)
             PROVE  IdleInv' /\ ThrottleInv'
  BY Zenon DEF KeptOnOne
<1> USE DEF codeVars
<1>0. Executes(c, p) /\ onStack[c] = p /\ Top(p).at = "lock" /\ Inv
  BY Zenon DEF PickOther, Executes, OneCpuInv
<1>1. Top(p).cpu = c /\ Top(p).prev = p /\ Top(p) \in Frame /\ Top(p).at \notin {"load", "switch"}
  BY <1>0, Executing
<1>2. PICK n \in Procs \ {p} :
        /\ IsPick(n, c)
        /\ state' = [state EXCEPT ![p] = IF @ = "RUNNING" THEN "READY" ELSE @, ![n] = "RUNNING"]
        /\ off_cpu' = [off_cpu EXCEPT ![n] = FALSE]
        /\ current' = [current EXCEPT ![c] = n]
        /\ SetTop(p, [Top(p) EXCEPT !.at = "load", !.next = n])
  BY <1>1, Zenon DEF PickOther
<1>3. PICK f \in Frame : f.at = "load" /\ SetTop(p, f)
  BY <1>1, <1>2, Zenon DEF Frame, MaybeProc
<1>4. /\ state'[n] = "RUNNING"
      /\ state'[p] = IF state[p] = "RUNNING" THEN "READY" ELSE state[p]
      /\ \A q \in Procs \ {n, p} : state'[q] = state[q]
      /\ off_cpu' = [off_cpu EXCEPT ![n] = FALSE]
      /\ current'[c] = n
  BY <1>0, <1>2 DEF Inv, TypeOK
<1>5. ~throttled[n]
  BY <1>2, Zenon DEF IsPick, Eligible
<1>6. UNCHANGED <<throttled, pc, irq, onStack, publish>>
  BY Zenon DEF PickOther
<1>7. \A q \in Procs : throttled'[q] => q # Idle /\ state'[q] \in {"READY", "RUNNING"}
  BY <1>4, <1>5, <1>6, Zenon DEF OneCpuInv, ThrottleInv
<1>8. frame'[p]["tick"].at = "none" => frame[p]["tick"].at = "none"
  BY <1>0, <1>3, SetTopOthers DEF Inv, Level, Levels
<1>9. throttled'[onStack'[c]] => irq'[onStack'[c]] = "park" \/ frame'[onStack'[c]]["tick"].at # "none"
  BY <1>0, <1>6, <1>8, Zenon DEF OneCpuInv, ThrottleInv
<1>10. ThrottleInv'
  BY <1>4, <1>5, <1>6, <1>7, <1>9, OnlyCpu, Zenon
<1>11. state'[Idle] \in {"READY", "RUNNING"} /\ pc'[Idle] # "exit"
  BY <1>4, <1>6, IdleIsProc, Zenon DEF OneCpuInv, IdleInv
<1>12. state'[Idle] = "READY" => off_cpu'[Idle] \/ onStack'[c] = Idle \/ publish'[c] = Idle
  <2> SUFFICES ASSUME state'[Idle] = "READY", Idle # p
               PROVE  off_cpu'[Idle] \/ publish'[c] = Idle
    BY <1>0, <1>6, Zenon
  <2>1. Idle # n /\ state[Idle] = "READY"
    BY <1>4, IdleIsProc, Zenon
  <2>2. off_cpu[Idle] \/ publish[c] = Idle
    BY <1>0, <2>1, Zenon DEF OneCpuInv, IdleInv, OneCpu
  <2> QED BY <1>0, <1>4, <1>6, <2>1, <2>2, IdleIsProc, Zenon DEF Inv, TypeOK
<1>13. IdleInv'
  BY <1>11, <1>12, Zenon DEF IdleInv
<1> QED BY <1>10, <1>13, Zenon

(* The stack switch: the process resumed is the one that was picked.       *)
LEMMA SwitchContextOne == \A c \in Cpus, p \in Procs : KeptOnOne(SwitchContext(c, p))
<1> SUFFICES ASSUME OneCpu, KernelTasksPinned, OneCpuInv, NEW c \in Cpus, NEW p \in Procs,
                    SwitchContext(c, p)
             PROVE  IdleInv' /\ ThrottleInv'
  BY Zenon DEF KeptOnOne
<1> USE DEF codeVars, memVars
<1>0. Executes(c, p) /\ onStack[c] = p /\ Top(p).at = "switch" /\ Inv
  BY Zenon DEF SwitchContext, Executes, OneCpuInv
<1>1. PICK n : n = Top(p).next
  BY Zenon
<1>2. n = current[c] /\ n \in Procs /\ n # p /\ Top(p).prev = p /\ Leaving(c) /\ boot[c].at = "gone"
  BY <1>0, <1>1, Executing
<1>3. Resumed(n) = n /\ ~throttled[n]
  BY <1>0, <1>2, TableAssumption, Zenon DEF Resumed, Inv, IncomingInv, Incoming, OneCpuInv, ThrottleInv
<1>4. onStack' = [onStack EXCEPT ![c] = n] /\ publish' = [publish EXCEPT ![c] = p]
  BY <1>1, <1>2, <1>3, Zenon DEF SwitchContext
<1>5. onStack'[c] = n /\ publish'[c] = p
  BY <1>0, <1>4, Zenon DEF Inv, TypeOK
<1>6. UNCHANGED <<state, off_cpu, throttled, pc, irq, current, boot>>
  BY Zenon DEF SwitchContext
<1>7. ThrottleInv'
  BY <1>2, <1>3, <1>5, <1>6, OnlyCpu, Zenon DEF OneCpuInv, ThrottleInv
<1>8. state'[Idle] = "READY" => off_cpu'[Idle] \/ onStack'[c] = Idle \/ publish'[c] = Idle
  BY <1>0, <1>5, <1>6, TableAssumption, IdleIsProc, Zenon DEF OneCpuInv, IdleInv, OneCpu, Executes
<1>9. IdleInv'
  BY <1>6, <1>8, Zenon DEF OneCpuInv, IdleInv
<1> QED BY <1>7, <1>9, Zenon

(* switch_context() publishes off_cpu.                                     *)
LEMMA PublishOffCpuOne == \A c \in Cpus : KeptOnOne(PublishOffCpu(c))
<1> SUFFICES ASSUME OneCpu, KernelTasksPinned, OneCpuInv, NEW c \in Cpus, PublishOffCpu(c)
             PROVE  IdleInv' /\ ThrottleInv'
  BY Zenon DEF KeptOnOne
<1> USE DEF codeVars
<1>1. UNCHANGED <<state, throttled, pc, irq, frame, current, onStack, boot>>
  BY Zenon DEF PublishOffCpu
<1>2. Incoming(c)' => Incoming(c)
  BY <1>1, Zenon DEF Incoming, Leaving, Top, Level
<1>3. ThrottleInv'
  BY <1>1, <1>2, OnlyCpu, Zenon DEF OneCpuInv, ThrottleInv
<1>4. publish[c] \in Procs /\ off_cpu' = [off_cpu EXCEPT ![publish[c]] = TRUE]
  BY Zenon DEF PublishOffCpu, OneCpuInv, Inv, TypeOK, MaybeProc
<1>5. off_cpu[Idle] \/ publish[c] = Idle => off_cpu'[Idle]
  BY <1>4, IdleIsProc, Zenon DEF OneCpuInv, Inv, TypeOK
<1>6. state'[Idle] = "READY" => off_cpu'[Idle] \/ onStack'[c] = Idle
  BY <1>1, <1>5, Zenon DEF OneCpuInv, IdleInv, OneCpu
<1>7. IdleInv'
  BY <1>1, <1>6, Zenon DEF OneCpuInv, IdleInv
<1> QED BY <1>3, <1>7, Zenon

(* The boot frame picks, loads and enters its first process.               *)
LEMMA BootOne == \A c \in Cpus : KeptOnOne(BootStep(c))
<1> SUFFICES ASSUME OneCpu, KernelTasksPinned, OneCpuInv, NEW c \in Cpus, BootStep(c)
             PROVE  IdleInv' /\ ThrottleInv'
  BY Zenon DEF KeptOnOne
<1> USE DEF codeVars
<1>0. Inv
  BY Zenon DEF OneCpuInv
<1>1. CASE BootPick(c)
  <2>1. PICK n \in Procs :
          /\ IsPick(n, c)
          /\ current' = [current EXCEPT ![c] = n]
          /\ state' = [state EXCEPT ![n] = "RUNNING"]
    BY <1>1, Zenon DEF BootPick
  <2>2. /\ state'[n] = "RUNNING" /\ current'[c] = n /\ ~throttled[n]
        /\ \A q \in Procs \ {n} : state'[q] = state[q]
    BY <1>0, <2>1, Zenon DEF Inv, TypeOK, IsPick, Eligible
  <2>3. UNCHANGED <<off_cpu, throttled, pc, irq, frame, onStack, publish>>
    BY <1>1, Zenon DEF BootPick
  <2>4. ThrottleInv'
    BY <2>2, <2>3, OnlyCpu, Zenon DEF OneCpuInv, ThrottleInv
  <2>5. IdleInv'
    BY <2>2, <2>3, IdleIsProc, Zenon DEF OneCpuInv, IdleInv
  <2> QED BY <2>4, <2>5, Zenon
<1>2. CASE BootLoad(c)
  <2>1. boot[c].at = "load" /\ boot[c].next = current[c] /\ current[c] \in Procs
    BY <1>0, <1>2, Zenon DEF BootLoad, Inv, BootInv
  <2>2. Incoming(c) /\ state[current[c]] = "RUNNING"
    BY <1>0, <2>1, Zenon DEF Incoming, Inv, IncomingInv
  <2>3. off_cpu' = [off_cpu EXCEPT ![current[c]] = FALSE]
    BY <1>2, <2>1, Zenon DEF BootLoad
  <2>4. UNCHANGED <<state, throttled, pc, irq, frame, current, onStack, publish>>
    BY <1>2, Zenon DEF BootLoad
  <2>5. ThrottleInv'
    BY <2>2, <2>4, OnlyCpu, Zenon DEF OneCpuInv, ThrottleInv
  <2>6. state[Idle] = "READY" => off_cpu'[Idle] = off_cpu[Idle]
    BY Zenon, <1>0, <2>1, <2>2, <2>3, IdleIsProc DEF Inv, TypeOK
  <2>7. IdleInv'
    BY <2>4, <2>6, Zenon DEF OneCpuInv, IdleInv
  <2> QED BY <2>5, <2>7, Zenon
<1>3. CASE BootSwitch(c)
  <2>1. PICK n : n = boot[c].next
    BY Zenon
  <2>2. boot[c].at = "switch" /\ n = current[c] /\ n \in Procs /\ onStack[c] = NoProc
    BY <1>0, <1>3, <2>1, Zenon DEF BootSwitch, Inv, BootInv
  <2>3. Resumed(n) = n /\ ~throttled[n]
    BY <1>0, <2>2, TableAssumption, Zenon DEF Resumed, Inv, IncomingInv, Incoming, OneCpuInv, ThrottleInv
  <2>4. onStack' = [onStack EXCEPT ![c] = n]
    BY <1>3, <2>1, <2>3, Zenon DEF BootSwitch
  <2>5. onStack'[c] = n
    BY <1>0, <2>4, Zenon DEF Inv, TypeOK
  <2>6. UNCHANGED <<state, off_cpu, throttled, pc, irq, current, publish>>
    BY <1>3, Zenon DEF BootSwitch
  <2>7. ThrottleInv'
    BY <2>2, <2>3, <2>5, <2>6, OnlyCpu, Zenon DEF OneCpuInv, ThrottleInv
  <2>8. state'[Idle] = "READY" => off_cpu'[Idle] \/ onStack'[c] = Idle \/ publish'[c] = Idle
    BY <2>2, <2>6, TableAssumption, IdleIsProc, Zenon DEF OneCpuInv, IdleInv, OneCpu
  <2>9. IdleInv'
    BY <2>6, <2>8, Zenon DEF OneCpuInv, IdleInv
  <2> QED BY <2>7, <2>9, Zenon
<1> QED BY <1>1, <1>2, <1>3, Zenon DEF BootStep

(* An interrupt handler: only a running process with a limit is throttled, *)
(* and what handler it is in then is as ThrottleInv says.                  *)
LEMMA HandlerStep ==
    ASSUME OneCpu, OneCpuInv, NEW c \in Cpus, NEW p \in Procs,
           Executes(c, p), OwnCode(c, p) \/ InterruptsOn(p),
           UNCHANGED <<state, off_cpu, pc, onStack, publish, current, boot>>,
           frame' = [frame EXCEPT ![p]["tick"] = Entry(c)] \/ UNCHANGED frame,
           \A q \in Procs \ {p} : throttled'[q] => throttled[q],
           throttled'[p] => throttled[p] \/ (p \in Limited /\ state[p] = "RUNNING"),
           throttled'[p] => irq'[p] = "park" \/ frame'[p]["tick"].at # "none"
    PROVE  IdleInv' /\ ThrottleInv'
<1>1. IdleInv'
  BY Zenon DEF OneCpuInv, IdleInv
<1>2. \A q \in Procs : throttled'[q] => q # Idle /\ state'[q] \in {"READY", "RUNNING"}
  BY IdleIsProc, Zenon DEF OneCpuInv, ThrottleInv
<1>3. /\ onStack[c] = p /\ boot[c].at = "gone"
      /\ frame[p]["tick"].at = "none" /\ frame[p]["call"].at \notin {"load", "switch"}
  BY Executing, Zenon DEF OneCpuInv, Executes, OwnCode, InterruptsOn, Top, Level
<1>4. frame'[p]["call"] = frame[p]["call"] /\ frame'[p]["tick"].at \notin {"load", "switch"}
  BY <1>3, FrameTypes DEF OneCpuInv, Inv, TypeOK, Levels
<1>5. ~Incoming(c)'
  BY <1>3, <1>4, Zenon DEF Incoming, Leaving, Top, Level
<1> QED BY <1>1, <1>2, <1>3, <1>5, OnlyCpu, Zenon

(* Hence every interrupt handler.                                          *)
LEMMA InterruptOne == \A c \in Cpus, p \in Procs : KeptOnOne(Interrupt(c, p))
<1> SUFFICES ASSUME OneCpu, KernelTasksPinned, OneCpuInv, NEW c \in Cpus, NEW p \in Procs,
                    Interrupt(c, p)
             PROVE  IdleInv' /\ ThrottleInv'
  BY Zenon DEF KeptOnOne
<1> USE DEF procVars, cpuVars
<1>0. /\ irq \in [Procs -> Irqs] /\ throttled \in [Procs -> BOOLEAN]
      /\ frame \in [Procs -> [Levels -> Frame]]
  BY Zenon DEF OneCpuInv, Inv, TypeOK, Irqs
<1>1. /\ Executes(c, p) /\ (OwnCode(c, p) \/ InterruptsOn(p))
      /\ UNCHANGED <<state, off_cpu, pc, onStack, publish, current, boot>>
      /\ frame' = [frame EXCEPT ![p]["tick"] = Entry(c)] \/ UNCHANGED frame
  BY <1>0, InterruptEffects, Zenon DEF InterruptEffect
<1>2. frame' = [frame EXCEPT ![p]["tick"] = Entry(c)] => frame'[p]["tick"].at # "none"
  BY <1>0, FrameTypes DEF Levels
<1>3. InterruptsOn(p) \/ (OwnCode(c, p) /\ irq[p] # "park") => ~throttled[p]
  BY <1>1, Zenon DEF OneCpuInv, ThrottleInv, InterruptsOn, OwnCode, Executes, Top, Level
<1>4. ASSUME NEW b \in BOOLEAN, Tick(c, p, b) PROVE IdleInv' /\ ThrottleInv'
  BY <1>1, <1>3, <1>4, HandlerStep, Zenon DEF Tick
<1>5. CASE ListenAllow(c, p)
  <2>1. \A q \in Procs : throttled'[q] => throttled[q]
    BY <1>5, Zenon DEF ListenAllow
  <2>2. ~throttled[p]
    BY <1>3, <1>5, Zenon DEF ListenAllow
  <2> QED BY <1>1, <2>1, <2>2, HandlerStep, Zenon
<1>6. CASE ListenThrottle(c, p)
  <2>1. \A q \in Procs \ {p} : throttled'[q] => throttled[q]
    BY <1>6, Zenon DEF ListenThrottle
  <2>2. p \in Limited /\ state[p] = "RUNNING" /\ frame'[p]["tick"].at # "none"
    BY <1>2, <1>6, Zenon DEF ListenThrottle
  <2> QED BY <1>1, <2>1, <2>2, HandlerStep, Zenon
<1>7. CASE Resched(c, p)
  <2>1. ~throttled[p] /\ UNCHANGED throttled
    BY <1>3, <1>7, Zenon DEF Resched
  <2> QED BY <1>1, <2>1, HandlerStep, Zenon
<1>8. CASE IpiThrottle(c, p)
  <2>1. /\ p \in Limited /\ state[p] = "RUNNING" /\ irq'[p] = "park"
        /\ \A q \in Procs \ {p} : throttled'[q] => throttled[q]
    BY <1>0, <1>8, Zenon DEF IpiThrottle
  <2> QED BY <1>1, <2>1, HandlerStep, Zenon
<1>9. CASE Park(c, p)
  <2>1. current[c] = p
    BY <1>1, <1>9, Executing DEF Park, OwnCode, Executes, OneCpuInv
  <2>2. throttled[p] => irq'[p] = "park"
    BY <1>9, <2>1, Zenon DEF Park
  <2>3. UNCHANGED throttled
    BY <1>9, Zenon DEF Park
  <2> QED BY <1>1, <2>2, <2>3, HandlerStep, Zenon
<1> QED BY <1>4, <1>5, <1>6, <1>7, <1>8, <1>9, Zenon DEF Interrupt

(* A system call that is not a call of scheduler_yield().  A process in    *)
(* its own code is not throttled, so none dies throttled.                  *)
LEMMA CallStep ==
    ASSUME OneCpuInv, UNCHANGED <<throttled, frame, current, onStack, publish, boot>>,
           state'[Idle] = state[Idle], off_cpu'[Idle] = off_cpu[Idle], pc'[Idle] # "exit",
           \A q \in Procs : throttled[q] => state'[q] = state[q] /\ irq'[q] = irq[q]
    PROVE  IdleInv' /\ ThrottleInv'
<1>1. \A d \in Cpus : Incoming(d)' => Incoming(d)
  BY Zenon DEF Incoming, Leaving, Top, Level
<1> QED BY <1>1, StayStep, IdleIsProc, Zenon DEF OneCpuInv

(* The system calls.                                                       *)
LEMMA SyscallOne == \A c \in Cpus, p \in Procs : KeptOnOne(Syscall(c, p))
<1> SUFFICES ASSUME OneCpu, KernelTasksPinned, OneCpuInv, NEW c \in Cpus, NEW p \in Procs,
                    Syscall(c, p)
             PROVE  IdleInv' /\ ThrottleInv'
  BY Zenon DEF KeptOnOne
<1> USE DEF procVars, cpuVars
<1>0. /\ pc \in [Procs -> Pcs] /\ irq \in [Procs -> Irqs] /\ state \in [Procs -> States]
      /\ off_cpu \in [Procs -> BOOLEAN] /\ pc[Idle] # "exit" /\ Idle \in Procs
      /\ state[Idle] \in {"READY", "RUNNING"}
  BY IdleIsProc, Zenon DEF OneCpuInv, IdleInv, Inv, TypeOK, Pcs, Irqs
<1>1. OwnCode(c, p) /\ irq[p] # "park" => ~throttled[p]
  BY OwnCodeFree, Zenon DEF OneCpuInv
<1>2. CASE Yield(c, p) \/ WaitYield(c, p)
  BY <1>2, YieldOne, Zenon DEF KeptOnOne
<1>3. CASE LocalStep(c, p)
  <2>1. UNCHANGED <<procVars, frame, cpuVars>>
    BY <1>3, Zenon DEF LocalStep, Exit, Abandon, Wait, NoSuchPid, ReapStack, ClearStack, ReapSpace, ClearSpace
  <2>2. pc'[Idle] # "exit"
    BY <1>0, <1>3 DEF LocalStep, Exit, Abandon, Wait, NoSuchPid, ReapStack, ClearStack, ReapSpace, ClearSpace
  <2>3. CASE Exit(c, p)
    <3>1. ~throttled[p] /\ irq' = [irq EXCEPT ![p] = "none"]
      BY <1>1, <2>3, Zenon DEF Exit
    <3>2. \A q \in Procs : throttled[q] => irq'[q] = irq[q]
      BY <1>0, <3>1, Zenon
    <3> QED BY <2>1, <2>2, <3>2, CallStep, Zenon
  <2>4. CASE UNCHANGED irq
    BY <2>1, <2>2, <2>4, CallStep, Zenon
  <2> QED BY <1>3, <2>3, <2>4, Zenon DEF LocalStep, Abandon, Wait, NoSuchPid, ReapStack, ClearStack,
             ReapSpace, ClearSpace
<1>4. CASE Terminate(c, p)
  <2>1. ~throttled[p] /\ p # Idle
    BY <1>0, <1>1, <1>4, Zenon DEF Terminate
  <2>2. /\ state'[Idle] = state[Idle] /\ pc'[Idle] = pc[Idle]
        /\ \A q \in Procs : throttled[q] => state'[q] = state[q]
    BY <1>0, <1>4, <2>1, Zenon DEF Terminate
  <2> QED BY <1>0, <1>4, <2>2, CallStep, Zenon DEF Terminate
<1>5. CASE AllocateSlot(c, p)
  <2>1. PICK q \in Procs : state[q] = "UNUSED" /\ state' = [state EXCEPT ![q] = "ALLOCATING"]
    BY <1>5, Zenon DEF AllocateSlot
  <2>2. ~throttled[q] /\ q # Idle
    BY <1>0, <2>1, Zenon DEF OneCpuInv, ThrottleInv
  <2>3. /\ state'[Idle] = state[Idle]
        /\ \A r \in Procs : throttled[r] => state'[r] = state[r]
    BY <1>0, <2>1, <2>2, Zenon
  <2>4. pc'[Idle] = pc[Idle]
    BY <1>0, <1>5, Zenon DEF AllocateSlot
  <2> QED BY <1>0, <1>5, <2>3, <2>4, CallStep, Zenon DEF AllocateSlot
<1>6. CASE Publish(c, p)
  <2>1. PICK q : q = target[p]
    BY Zenon
  <2>2. q \in Procs /\ state[q] = "ALLOCATING"
    BY <1>6, <2>1, Zenon DEF Publish, OneCpuInv, Inv, SpawnInv
  <2>3. ~throttled[q] /\ q # Idle
    BY <1>0, <2>2, Zenon DEF OneCpuInv, ThrottleInv
  <2>4. /\ state'[Idle] = state[Idle] /\ off_cpu'[Idle] = off_cpu[Idle] /\ pc'[Idle] # "exit"
        /\ \A r \in Procs : throttled[r] => state'[r] = state[r]
    BY <1>0, <1>6, <2>1, <2>2, <2>3, Zenon DEF Publish
  <2> QED BY <1>6, <2>4, CallStep, Zenon DEF Publish
<1> QED BY <1>2, <1>3, <1>4, <1>5, <1>6, Zenon DEF Syscall, LocalStep

(* On one CPU, where it needs the idle task, ThrottleInv is inductive too. *)
LEMMA OneCpuNext == OneCpu /\ KernelTasksPinned /\ OneCpuInv /\ [Next]_vars => OneCpuInv'
<1> SUFFICES ASSUME OneCpu, KernelTasksPinned, OneCpuInv, [Next]_vars PROVE OneCpuInv'
  BY Zenon
<1>1. Inv'
  BY NextInv, StutterInv, Zenon DEF OneCpuInv
<1>2. CASE UNCHANGED vars
  <2>1. IdleInv' /\ ThrottleInv'
    BY <1>2, CallStep, Zenon DEF vars, procVars, codeVars, cpuVars, OneCpuInv, IdleInv
  <2> QED BY <1>1, <2>1, Zenon DEF OneCpuInv
<1>3. ASSUME NEW c \in Cpus, BootStep(c) \/ PublishOffCpu(c) PROVE IdleInv' /\ ThrottleInv'
  BY <1>3, BootOne, PublishOffCpuOne, Zenon DEF KeptOnOne
<1>4. ASSUME NEW c \in Cpus, NEW p \in Procs, Schedule(c, p) PROVE IdleInv' /\ ThrottleInv'
  BY <1>4, EnterScheduleOne, PickNothingOne, PickSameOne, PickOtherOne, LoadSpaceOne, SwitchContextOne, Zenon
     DEF Schedule, KeptOnOne
<1>5. ASSUME NEW c \in Cpus, NEW p \in Procs, Interrupt(c, p) \/ Syscall(c, p)
      PROVE  IdleInv' /\ ThrottleInv'
  BY <1>5, InterruptOne, SyscallOne, Zenon DEF KeptOnOne
<1> QED BY <1>1, <1>2, <1>3, <1>4, <1>5, Zenon DEF Next, OneCpuInv

(* On one CPU a throttled process executes nothing of its own until        *)
(* rlimit_bsp_tick() releases it: from the moment it is throttled it is in *)
(* the handler, and pick_next_locked() always finds the idle task to run   *)
(* in its place.                                                           *)
THEOREM ThrottlingHolds ==
    ASSUME OneCpu, KernelTasksPinned PROVE Spec => []ThrottledDoesNotRun
<1>1. Init => OneCpuInv
  <2> SUFFICES ASSUME Init PROVE OneCpuInv
    BY Zenon
  <2>1. Inv
    BY InitInv, Zenon
  <2>2. IdleInv
    BY TaskAssumption, Zenon DEF Init, IdleInv
  <2>3. \A p \in Procs : ~throttled[p]
    BY Zenon DEF Init
  <2>4. \A c \in Cpus : ~Incoming(c)
    BY TableAssumption, Zenon DEF Init, Incoming, Leaving
  <2> QED BY <2>1, <2>2, <2>3, <2>4, Zenon DEF OneCpuInv, ThrottleInv
<1>2. OneCpuInv /\ [Next]_vars => OneCpuInv'
  BY OneCpuNext, Zenon
<1>3. OneCpuInv => ThrottledDoesNotRun
  BY OwnCodeFree DEF OneCpuInv, ThrottledDoesNotRun
<1> QED BY <1>1, <1>2, <1>3, PTL DEF Spec

=============================================================================
