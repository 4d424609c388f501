------------------------- MODULE BogSchedulerProofs -------------------------
(***************************************************************************)
(* Theorems about BogScheduler for every table size, quantum and set of    *)
(* applications.  Inv is the inductive invariant: types, agreement of the  *)
(* kernel's control state with the process records, and the run queue.     *)
(***************************************************************************)
EXTENDS BogScheduler, FiniteSetTheorems, SequenceTheorems, TLAPS

Inv == TypeOK /\ ControlMatches /\ ReadyIffQueued

\* A user program point stays one: the successor wraps around.
LEMMA NextEipType ==
    ASSUME cpu \in 0..(EipCount - 1)
    PROVE  next_eip \in 0..(EipCount - 1)
<1>1. EipCount \in Nat \ {0}
  BY SizesAssumption
<1>2. \A x \in Nat : x % EipCount \in 0..(EipCount - 1)
  BY <1>1
<1> QED
  BY <1>1, <1>2 DEF next_eip

\* What Scheduler::enqueue returns is again a queue of PIDs.
LEMMA EnqueueType ==
    ASSUME NEW q \in Seq(Pid), NEW p \in Pid, NEW s
    PROVE  enqueue(q, p, s) \in Seq(Pid)
BY DEF enqueue

\* What select_next leaves behind is again a queue of PIDs.
LEMMA DequeueType ==
    ASSUME NEW q \in Seq(Pid), NEW i \in DOMAIN q
    PROVE  dequeue(q, i) \in Seq(Pid)
BY SubSeqProperties DEF dequeue

\* The state rust_start sets up is well typed.
LEMMA TypeInit == Init => TypeOK
<1> SUFFICES ASSUME Init PROVE TypeOK
  OBVIOUS
<1>1. /\ admitted \in [Pid -> BOOLEAN]
      /\ isolated \in [Pid -> BOOLEAN]
      /\ isolation_proven \in BOOLEAN
      /\ v39_pending \in BOOLEAN
  BY Zenon DEF Init
<1>2. context \in [Pid -> [valid : BOOLEAN, eip : 0..(EipCount - 1)]]
  BY SizesAssumption DEF Init, NoContext
<1>3. /\ exit_status \in [Pid -> [code : Int, reason : Reasons]]
      /\ outcome \in [Pid -> [code : Int, reason : Reasons]]
  BY DEF Init, NoExit, Reasons
<1>4. pstate \in [Pid -> {"ABSENT"} \cup Live \cup Terminal]
  BY DEF Init
<1> QED
  BY <1>1, <1>2, <1>3, <1>4, SizesAssumption DEF Init, TypeOK, RecordTypeOK, SchedTypeOK, ActivationTypeOK,
     FlagTypeOK, NoFrame, Reasons

StateNames == {"ABSENT"} \cup Live \cup Terminal

\* A record written by an admission has the declared types.
LEMMA AdmitType ==
    ASSUME TypeOK, HasSlot, NEW a \in App, NEW s \in StateNames, NEW reason \in Reasons,
           NEW sp \in {"none", "identity", "private"}, NEW iso \in BOOLEAN,
           NEW dyn \in BOOLEAN, Admit(a, s, reason, sp, iso, dyn)
    PROVE  RecordTypeOK' /\ NewPid \in Pid
<1> USE DEF TypeOK, RecordTypeOK, Admit, StateNames
<1>0. NewPid \in Pid
  BY SizesAssumption DEF HasSlot, NewPid, Pid
<1>1. len' \in 0..MaxProcesses
  BY SizesAssumption DEF HasSlot, NewPid
<1>2. app' \in [Pid -> App \cup {"none"}]
  OBVIOUS
<1>3. pstate' \in [Pid -> {"ABSENT"} \cup Live \cup Terminal]
  OBVIOUS
<1>4. exit_status' \in [Pid -> [code : Int, reason : Reasons]]
  BY 0 \in Int, Zenon
<1>5. /\ admitted' \in [Pid -> BOOLEAN]
      /\ isolated' \in [Pid -> BOOLEAN]
  BY Zenon
<1>7. context' \in [Pid -> [valid : BOOLEAN, eip : 0..(EipCount - 1)]]
  BY Zenon
<1>6. space' \in [Pid -> {"none", "identity", "private"}]
  OBVIOUS
<1> QED
  BY <1>0, <1>1, <1>2, <1>3, <1>4, <1>5, <1>6, <1>7

\* The two flags stay Boolean.
LEMMA FlagTypeStep == FlagTypeOK /\ [Next]_vars => FlagTypeOK'
<1> SUFFICES ASSUME FlagTypeOK, [Next]_vars PROVE FlagTypeOK'
  OBVIOUS
<1> USE Zenon DEF FlagTypeOK, proofVars, loopVars
<1>1. ASSUME NEW a \in App, RunApp(a) PROVE FlagTypeOK'
  BY <1>1 DEF RunApp
<1>2. ASSUME NEW a \in App, SpawnApp(a) PROVE FlagTypeOK'
  BY <1>2 DEF SpawnApp
<1>3. ASSUME NEW a \in App, LoadDynamicApp(a) PROVE FlagTypeOK'
  BY <1>3 DEF LoadDynamicApp
<1>4. CASE RunV39StagedApp
  BY <1>4 DEF RunV39StagedApp
<1>5. ASSUME NEW n \in {1, DemoSteps}, SchedCommand(n) PROVE FlagTypeOK'
  BY <1>5 DEF SchedCommand
<1>6. CASE Panic
  BY <1>6 DEF Panic
<1>7. CASE SchedulerStep
  BY <1>7 DEF SchedulerStep
<1>8. CASE Dispatch
  BY <1>8 DEF Dispatch
<1>9. CASE EnterUser
  BY <1>9 DEF EnterUser
<1>10. CASE ScheduledReturn
  BY <1>10 DEF ScheduledReturn
<1>11. CASE RunReturn
  BY <1>11 DEF RunReturn
<1>12. CASE UserCompute
  BY <1>12 DEF UserCompute
<1>13. ASSUME NEW c \in ExitCodes, SysExit(c) PROVE FlagTypeOK'
  BY <1>13 DEF SysExit
<1>14. CASE SysYield
  BY <1>14 DEF SysYield
<1>15. CASE TimerTick
  BY <1>15 DEF TimerTick
<1>16. ASSUME NEW r \in Exceptions, UserException(r) PROVE FlagTypeOK'
  BY <1>16 DEF UserException
<1>17. CASE PageFault
  BY <1>17 DEF PageFault
<1>18. CASE UNCHANGED vars
  BY <1>18 DEF vars
<1> QED
  BY <1>1, <1>2, <1>3, <1>4, <1>5, <1>6, <1>7, <1>8, <1>9, <1>10, <1>11, <1>12, <1>13,
     <1>14, <1>15, <1>16, <1>17, <1>18 DEF Next, Halted

\* Outside the command loop the frame names a process, the active PID is it.
LEMMA FramePid ==
    ASSUME Inv
    PROVE  /\ mode \notin {"shell", "halted"} => frame.pid \in Pid
           /\ active_pid # 0 => active_pid = frame.pid /\ active_pid \in Pid
BY DEF Inv, ControlMatches, FrameMatches, TypeOK, SchedTypeOK, ActivationTypeOK, NoFrame, Pid

\* The new PID of a command that found a free record.
LEMMA NewPidType ==
    ASSUME TypeOK, HasSlot
    PROVE  NewPid \in Pid
BY SizesAssumption DEF HasSlot, NewPid, Pid, TypeOK, RecordTypeOK

\* The queue and the scheduler's registers keep their types.
LEMMA SchedTypeStep == Inv /\ [Next]_vars => SchedTypeOK'
<1> SUFFICES ASSUME Inv, [Next]_vars PROVE SchedTypeOK'
  OBVIOUS
<1>t. TypeOK
  BY DEF Inv
<1>s. SchedTypeOK
  BY <1>t DEF TypeOK
<1>f. mode \notin {"shell", "halted"} => frame.pid \in Pid
  BY FramePid
<1>p. Pid = 1..MaxProcesses /\ MaxProcesses \in Nat /\ Quantum \in Nat \ {0}
  BY SizesAssumption DEF Pid
<1> USE DEF SchedTypeOK, schedVars, proofVars, loopVars
<1>1. ASSUME NEW a \in App, RunApp(a) PROVE SchedTypeOK'
  BY <1>1, <1>s DEF RunApp
<1>2. ASSUME NEW a \in App, SpawnApp(a) PROVE SchedTypeOK'
  <2>1. run_queue' \in Seq(Pid)
    BY <1>2, <1>s, <1>t, NewPidType, EnqueueType DEF SpawnApp
  <2> QED
    BY <1>2, <1>s, <2>1 DEF SpawnApp
<1>3. ASSUME NEW a \in App, LoadDynamicApp(a) PROVE SchedTypeOK'
  <2>1. run_queue' \in Seq(Pid)
    BY <1>3, <1>s, <1>t, NewPidType, EnqueueType DEF LoadDynamicApp, AdmitDynamic
  <2> QED
    BY <1>3, <1>s, <2>1 DEF LoadDynamicApp
<1>4. CASE RunV39StagedApp
  <2>1. CASE HasSlot
    <3>1. run_queue' \in Seq(Pid)
      BY <1>4, <2>1, <1>s, <1>t, NewPidType, EnqueueType DEF RunV39StagedApp, AdmitDynamic
    <3>2. NewPid \in Pid
      BY <2>1, <1>t, NewPidType
    <3> QED
      BY <1>4, <2>1, <1>s, <1>p, <3>1, <3>2 DEF RunV39StagedApp
  <2>2. CASE ~HasSlot
    BY <1>4, <2>2, <1>s DEF RunV39StagedApp
  <2> QED
    BY <2>1, <2>2
<1>5. ASSUME NEW n \in {1, DemoSteps}, SchedCommand(n) PROVE SchedTypeOK'
  BY <1>5, <1>s, SizesAssumption DEF SchedCommand
<1>6. CASE Panic
  BY <1>6, <1>s DEF Panic
<1>7. CASE SchedulerStep
  <2>1. steps' \in Nat
    BY <1>7, <1>s DEF SchedulerStep, StepsLeft
  <2>2. run_queue' \in Seq(Pid) /\ current_pid' \in 0..MaxProcesses
    <3>1. CASE \E i \in select_next_at(run_queue) :
                  run_queue' = dequeue(run_queue, i) /\ current_pid' = run_queue[i]
      <4>1. PICK i \in DOMAIN run_queue :
                  run_queue' = dequeue(run_queue, i) /\ current_pid' = run_queue[i]
        BY <3>1 DEF select_next_at
      <4> QED
        BY <4>1, <1>s, <1>p, DequeueType
    <3>2. CASE run_queue' = <<>> /\ current_pid' = 0
      BY <3>2, <1>p
    <3> QED
      BY <1>7, <3>1, <3>2 DEF SchedulerStep
  <2> QED
    BY <1>7, <1>s, <2>1, <2>2 DEF SchedulerStep
<1>8. CASE Dispatch
  BY <1>8, <1>s, <1>f, <1>p DEF Dispatch, quantum_at_dispatch, cr3_at_dispatch
<1>9. CASE EnterUser
  BY <1>9, <1>s DEF EnterUser
<1>10. CASE ScheduledReturn
  <2>1. run_queue' \in Seq(Pid)
    BY <1>10, <1>s, <1>f, EnqueueType DEF ScheduledReturn
  <2> QED
    BY <1>10, <1>s, <1>p, <2>1 DEF ScheduledReturn, active_after_return
<1>11. CASE RunReturn
  BY <1>11, <1>s DEF RunReturn
<1>12. CASE UserCompute
  BY <1>12, <1>s DEF UserCompute
<1>13. ASSUME NEW c \in ExitCodes, SysExit(c) PROVE SchedTypeOK'
  BY <1>13, <1>s DEF SysExit
<1>14. CASE SysYield
  BY <1>14, <1>s DEF SysYield
<1>15. CASE TimerTick
  BY <1>15, <1>s, <1>p DEF TimerTick, quantum_expired, ticks_after
<1>16. ASSUME NEW r \in Exceptions, UserException(r) PROVE SchedTypeOK'
  BY <1>16, <1>s DEF UserException
<1>17. CASE PageFault
  BY <1>17, <1>s DEF PageFault
<1>18. CASE UNCHANGED vars
  BY <1>18, <1>s DEF vars
<1> QED
  BY <1>1, <1>2, <1>3, <1>4, <1>5, <1>6, <1>7, <1>8, <1>9, <1>10, <1>11, <1>12, <1>13,
     <1>14, <1>15, <1>16, <1>17, <1>18 DEF Next, Halted

\* The activation's registers and the history variables keep their types.
LEMMA ActivationTypeStep == Inv /\ [Next]_vars => ActivationTypeOK'
<1> SUFFICES ASSUME Inv, [Next]_vars PROVE ActivationTypeOK'
  OBVIOUS
<1>t. TypeOK
  BY DEF Inv
<1>s. ActivationTypeOK
  BY <1>t DEF TypeOK
<1>f. mode \notin {"shell", "halted"} => frame.pid \in Pid
  BY FramePid
<1>p. Pid = 1..MaxProcesses /\ MaxProcesses \in Nat /\ 0 \in 0..(EipCount - 1)
  BY SizesAssumption DEF Pid
<1>e. next_eip \in 0..(EipCount - 1)
  BY <1>s, NextEipType DEF ActivationTypeOK
<1> USE DEF ActivationTypeOK, userVars
<1>1. ASSUME NEW a \in App, RunApp(a) PROVE ActivationTypeOK'
  <2>1. frame' \in [kind : {"none", "run", "sched"}, pid : 0..MaxProcesses]
    <3>1. NewPid \in 0..MaxProcesses
      BY <1>1, <1>t, <1>p, NewPidType DEF RunApp
    <3>2. CASE frame' = [kind |-> "run", pid |-> NewPid]
      BY <3>1, <3>2
    <3>3. CASE frame' = frame
      BY <1>s, <3>3
    <3> QED
      BY <1>1, <3>2, <3>3 DEF RunApp
  <2> QED
    BY <1>1, <1>s, <1>p, <2>1 DEF RunApp, Reasons
<1>2. ASSUME NEW a \in App, SpawnApp(a) PROVE ActivationTypeOK'
  BY <1>2, <1>s DEF SpawnApp
<1>3. ASSUME NEW a \in App, LoadDynamicApp(a) PROVE ActivationTypeOK'
  BY <1>3, <1>s DEF LoadDynamicApp
<1>4. CASE RunV39StagedApp
  BY <1>4, <1>s DEF RunV39StagedApp
<1>5. ASSUME NEW n \in {1, DemoSteps}, SchedCommand(n) PROVE ActivationTypeOK'
  BY <1>5, <1>s DEF SchedCommand
<1>6. CASE Panic
  BY <1>6, <1>s DEF Panic
<1>7. CASE SchedulerStep
  <2>1. frame' \in [kind : {"none", "run", "sched"}, pid : 0..MaxProcesses]
    <3>1. \A i \in DOMAIN run_queue : run_queue[i] \in Pid
      BY <1>t DEF TypeOK, SchedTypeOK
    <3> QED
      BY <1>7, <1>s, <1>p, <3>1 DEF SchedulerStep, select_next_at
  <2> QED
    BY <1>7, <1>s, <2>1 DEF SchedulerStep
<1>8. CASE Dispatch
  <2>1. frame' \in [kind : {"none", "run", "sched"}, pid : 0..MaxProcesses]
    BY <1>8, <1>s, <1>p DEF Dispatch, NoFrame
  <2> QED
    BY <1>8, <1>s, <2>1 DEF Dispatch, Reasons
<1>9. CASE EnterUser
  <2>1. context[frame.pid].eip \in 0..(EipCount - 1)
    BY <1>9, <1>t, <1>f DEF EnterUser, TypeOK, RecordTypeOK
  <2> QED
    BY <1>9, <1>s, <1>p, <2>1 DEF EnterUser
<1>b. BackInShell => /\ mode' = "shell" /\ exit_code' \in Int /\ cpu' \in 0..(EipCount - 1)
                     /\ seen' \in Nat
                     /\ frame' \in [kind : {"none", "run", "sched"}, pid : 0..MaxProcesses]
  BY <1>p DEF BackInShell, NoFrame
<1>10. CASE ScheduledReturn
  BY <1>10, <1>s, <1>b DEF ScheduledReturn
<1>11. CASE RunReturn
  BY <1>11, <1>s, <1>b DEF RunReturn
<1>a. Advance => shadow' \in [Pid -> 0..(EipCount - 1)]
  BY <1>s, <1>e DEF Advance
<1>12. CASE UserCompute
  BY <1>12, <1>s, <1>e, <1>a DEF UserCompute
<1>v. \A c \in Int, r \in Reasons : Leaves(c, r) => outcome' \in [Pid -> [code : Int, reason : Reasons]]
  <2> SUFFICES ASSUME NEW c \in Int, NEW r \in Reasons, Leaves(c, r)
               PROVE  outcome' \in [Pid -> [code : Int, reason : Reasons]]
    OBVIOUS
  <2>1. [code |-> c, reason |-> r] \in [code : Int, reason : Reasons]
    BY Zenon
  <2> QED
    BY <1>s, <2>1 DEF Leaves
<1>j. \A c \in Int, r \in Reasons : longjmp_to_kernel(c, r) =>
          block_reason' \in Reasons /\ exit_code' \in Int /\ mode' = "returned"
  BY DEF longjmp_to_kernel
<1>13. ASSUME NEW c \in ExitCodes, SysExit(c) PROVE ActivationTypeOK'
  <2>1. c \in Int /\ "exit" \in Reasons /\ "none" \in Reasons
    BY ProgramAssumption DEF Reasons
  <2> QED
    BY <1>13, <1>s, <1>v, <1>j, <2>1 DEF SysExit
<1>14. CASE SysYield
  <2>1. YIELD_EXIT_CODE \in Int /\ "yield" \in Reasons
    BY DEF YIELD_EXIT_CODE, Reasons
  <2> QED
    BY <1>14, <1>s, <1>e, <1>a, <1>j, <2>1 DEF SysYield
<1>15. CASE TimerTick
  <2>1. PREEMPT_EXIT_CODE \in Int /\ "preempt" \in Reasons
    BY DEF PREEMPT_EXIT_CODE, Reasons
  <2> QED
    BY <1>15, <1>s, <1>j, <2>1 DEF TimerTick
<1>16. ASSUME NEW r \in Exceptions, UserException(r) PROVE ActivationTypeOK'
  <2>1. r \in Reasons
    BY ProgramAssumption DEF Reasons, Faults
  <2> QED
    BY <1>16, <1>s, <1>v, <1>j, <2>1 DEF UserException
<1>17. CASE PageFault
  <2>1. "page_fault" \in Reasons
    BY DEF Reasons, Faults
  <2>2. longjmp_to_kernel(1, "page_fault") /\ Leaves(1, "page_fault")
    BY <1>17 DEF PageFault
  <2>3. UNCHANGED <<frame, cpu, shadow, seen>>
    BY <1>17 DEF PageFault
  <2>4. outcome' \in [Pid -> [code : Int, reason : Reasons]]
    BY <1>v, <2>1, <2>2
  <2>5. block_reason' \in Reasons /\ exit_code' \in Int /\ mode' = "returned"
    BY <1>j, <2>1, <2>2
  <2> QED
    BY <1>s, <2>3, <2>4, <2>5
<1>18. CASE UNCHANGED vars
  BY <1>18, <1>s DEF vars
<1> QED
  BY <1>1, <1>2, <1>3, <1>4, <1>5, <1>6, <1>7, <1>8, <1>9, <1>10, <1>11, <1>12, <1>13,
     <1>14, <1>15, <1>16, <1>17, <1>18 DEF Next, Halted

\* The records keep their types.
LEMMA RecordTypeStep == Inv /\ [Next]_vars => RecordTypeOK'
<1> SUFFICES ASSUME Inv, [Next]_vars PROVE RecordTypeOK'
  OBVIOUS
<1>t. TypeOK
  BY DEF Inv
<1>s. RecordTypeOK
  BY <1>t DEF TypeOK
<1>f. /\ mode \notin {"shell", "halted"} => frame.pid \in Pid
      /\ active_pid # 0 => active_pid \in Pid
  BY FramePid
<1>g. isolation_proven \in BOOLEAN
  BY <1>t DEF TypeOK, FlagTypeOK
<1>m. \A s \in StateNames :
        /\ mark_running(s) \in StateNames /\ mark_ready(s) \in StateNames
        /\ mark_scheduled(s) \in StateNames /\ mark_yielded(s) \in StateNames
        /\ mark_preempted(s) \in StateNames /\ mark_exited(s) \in StateNames
        /\ mark_blocked(s) \in StateNames /\ mark_rejected(s) \in StateNames
  BY DEF StateNames, Live, Terminal, mark_running, mark_ready, mark_scheduled, mark_yielded,
         mark_preempted, mark_exited, mark_blocked, mark_rejected
<1>w. \A p \in Pid : pstate[p] \in StateNames
  BY <1>s DEF RecordTypeOK, StateNames
<1>u. UNCHANGED recordVars => RecordTypeOK'
  BY <1>s DEF RecordTypeOK, recordVars
<1>n. \A p \in Pid, s \in StateNames :
        pstate' = [pstate EXCEPT ![p] = s] => pstate' \in [Pid -> StateNames]
  BY <1>s DEF RecordTypeOK, StateNames
<1>q. ASSUME pstate' \in [Pid -> StateNames], UNCHANGED <<len, app, admitted, space>>,
             exit_status' \in [Pid -> [code : Int, reason : Reasons]],
             context' \in [Pid -> [valid : BOOLEAN, eip : 0..(EipCount - 1)]],
             isolated' \in [Pid -> BOOLEAN]
      PROVE  RecordTypeOK'
  BY <1>q, <1>s DEF RecordTypeOK, StateNames
<1>1. ASSUME NEW a \in App, RunApp(a) PROVE RecordTypeOK'
  BY <1>1, <1>t, AdmitType DEF RunApp, StateNames, Live, Terminal, Reasons, mark_running,
     mark_verified, mark_rejected
<1>2. ASSUME NEW a \in App, SpawnApp(a) PROVE RecordTypeOK'
  BY <1>2, <1>t, <1>g, AdmitType DEF SpawnApp, StateNames, Live, Terminal, Reasons,
     mark_ready, mark_verified, mark_rejected, space_of
<1>d. ASSUME NEW a \in App, NEW iso \in BOOLEAN, HasSlot, AdmitDynamic(a, iso)
      PROVE  RecordTypeOK'
  BY <1>d, <1>t, AdmitType DEF AdmitDynamic, admission, StateNames, Live, Terminal, Reasons,
     mark_ready, mark_verified, mark_rejected, space_of
<1>3. ASSUME NEW a \in App, LoadDynamicApp(a) PROVE RecordTypeOK'
  BY <1>3, <1>d, <1>g DEF LoadDynamicApp
<1>4. CASE RunV39StagedApp
  BY <1>4, <1>d, <1>u, AppAssumption DEF RunV39StagedApp
<1>5. ASSUME NEW n \in {1, DemoSteps}, SchedCommand(n) PROVE RecordTypeOK'
  BY <1>5, <1>u DEF SchedCommand
<1>6. CASE Panic
  BY <1>6, <1>u DEF Panic
<1>r. /\ exit_status \in [Pid -> [code : Int, reason : Reasons]]
      /\ context \in [Pid -> [valid : BOOLEAN, eip : 0..(EipCount - 1)]]
      /\ isolated \in [Pid -> BOOLEAN]
      /\ pstate \in [Pid -> StateNames]
  BY <1>s DEF RecordTypeOK, StateNames
<1>7. CASE SchedulerStep
  <2>1. pstate' \in [Pid -> StateNames]
    <3>1. \A i \in DOMAIN run_queue : run_queue[i] \in Pid
      BY <1>t DEF TypeOK, SchedTypeOK
    <3> QED
      BY <1>7, <1>r, <1>m, <1>w, <1>n, <3>1 DEF SchedulerStep, select_next_at
  <2> QED
    BY <1>7, <1>q, <1>r, <2>1, Zenon DEF SchedulerStep
<1>8. CASE Dispatch
  <2>1. pstate' \in [Pid -> StateNames]
    BY <1>8, <1>f, <1>r, <1>m, <1>w, <1>n DEF Dispatch
  <2> QED
    BY <1>8, <1>q, <1>r, <2>1, Zenon DEF Dispatch
<1>9. CASE EnterUser
  <2>1. pstate' \in [Pid -> StateNames]
    BY <1>9, <1>f, <1>r, <1>m, <1>w, <1>n DEF EnterUser
  <2> QED
    BY <1>9, <1>q, <1>r, <2>1, Zenon DEF EnterUser
<1>x. ASSUME NEW p \in Pid, NEW s, NEW c \in Int, NEW r \in Reasons
      PROVE  status_of(p, s, c, r) \in [code : Int, reason : Reasons]
  <2>1. [code |-> c, reason |-> r] \in [code : Int, reason : Reasons]
    BY Zenon
  <2> QED
    BY <1>r, <2>1 DEF status_of
<1>y. ASSUME NEW p \in Pid, Finish(p)
      PROVE  /\ pstate' \in [Pid -> StateNames]
             /\ exit_status' \in [Pid -> [code : Int, reason : Reasons]]
  <2>1. exit_code \in Int /\ final_reason \in Reasons
    BY <1>t DEF TypeOK, ActivationTypeOK, final_reason, Reasons
  <2>2. pstate' \in [Pid -> StateNames]
    BY <1>y, <1>m, <1>w, <1>n DEF Finish
  <2>3. PICK s : exit_status' = [exit_status EXCEPT ![p] = status_of(p, s, exit_code, final_reason)]
    BY <1>y DEF Finish
  <2> QED
    BY <1>r, <1>x, <2>1, <2>2, <2>3
<1>10. CASE ScheduledReturn
  <2>1. /\ pstate' \in [Pid -> StateNames]
        /\ exit_status' \in [Pid -> [code : Int, reason : Reasons]]
    BY <1>10, <1>f, <1>r, <1>y DEF ScheduledReturn
  <2> QED
    BY <1>10, <1>q, <1>r, <2>1, Zenon DEF ScheduledReturn
<1>11. CASE RunReturn
  <2>1. /\ pstate' \in [Pid -> StateNames]
        /\ exit_status' \in [Pid -> [code : Int, reason : Reasons]]
    BY <1>11, <1>f, <1>r, <1>y DEF RunReturn
  <2> QED
    BY <1>11, <1>q, <1>r, <2>1, Zenon DEF RunReturn
<1>12. CASE UserCompute
  BY <1>12, <1>u DEF UserCompute
<1>13. ASSUME NEW c \in ExitCodes, SysExit(c) PROVE RecordTypeOK'
  BY <1>13, <1>u DEF SysExit
<1>c. ASSUME NEW p \in Pid, NEW s, NEW eip \in 0..(EipCount - 1),
             context' = [context EXCEPT ![p] = save_context(s, context[p], eip)]
      PROVE  context' \in [Pid -> [valid : BOOLEAN, eip : 0..(EipCount - 1)]]
  <2>1. [valid |-> TRUE, eip |-> eip] \in [valid : BOOLEAN, eip : 0..(EipCount - 1)]
    BY Zenon
  <2>2. save_context(s, context[p], eip) \in [valid : BOOLEAN, eip : 0..(EipCount - 1)]
    BY <1>r, <2>1, Zenon DEF save_context
  <2> QED
    BY <1>c, <1>r, <2>2, Zenon
<1>i. cpu \in 0..(EipCount - 1) /\ next_eip \in 0..(EipCount - 1)
  BY <1>t, NextEipType DEF TypeOK, ActivationTypeOK
<1>14. CASE SysYield
  <2>1. active_pid \in Pid
    BY <1>14, <1>f DEF SysYield
  <2>2. pstate' \in [Pid -> StateNames]
    BY <1>14, <2>1, <1>m, <1>w, <1>n DEF SysYield
  <2>3. context' \in [Pid -> [valid : BOOLEAN, eip : 0..(EipCount - 1)]]
    BY <1>14, <2>1, <1>c, <1>i DEF SysYield, yield_context
  <2> QED
    BY <1>14, <1>q, <1>r, <2>2, <2>3, Zenon DEF SysYield
<1>15. CASE TimerTick
  <2>1. active_pid \in Pid
    BY <1>15, <1>f DEF TimerTick
  <2>2. pstate' \in [Pid -> StateNames]
    BY <1>15, <2>1, <1>m, <1>r, <1>w, <1>n DEF TimerTick
  <2>3. context' \in [Pid -> [valid : BOOLEAN, eip : 0..(EipCount - 1)]]
    <3>1. CASE context' = [context EXCEPT ![active_pid] =
                              save_context(pstate[active_pid], context[active_pid], cpu)]
      BY <3>1, <2>1, <1>c, <1>i
    <3>2. CASE context' = context
      BY <3>2, <1>r, Zenon
    <3> QED
      BY <1>15, <3>1, <3>2 DEF TimerTick
  <2> QED
    BY <1>15, <1>q, <1>r, <2>2, <2>3, Zenon DEF TimerTick
<1>16. ASSUME NEW r \in Exceptions, UserException(r) PROVE RecordTypeOK'
  BY <1>16, <1>u DEF UserException
<1>17. CASE PageFault
  <2>1. CASE active_pid = 0
    BY <1>17, <2>1, <1>q, <1>r, Zenon DEF PageFault
  <2>2. CASE active_pid # 0
    <3>1. active_pid \in Pid
      BY <2>2, <1>f
    <3>2. pstate' \in [Pid -> StateNames]
      BY <1>17, <2>2, <3>1, <1>m, <1>w, <1>n DEF PageFault
    <3>3. exit_status' \in [Pid -> [code : Int, reason : Reasons]]
      <4>1. exit_status' = [exit_status EXCEPT ![active_pid] =
                               status_of(active_pid, pstate'[active_pid], 1, "page_fault")]
        BY <1>17, <2>2 DEF PageFault
      <4>2. "page_fault" \in Reasons /\ 1 \in Int
        BY DEF Reasons, Faults
      <4> QED
        BY <4>1, <4>2, <3>1, <1>r, <1>x
    <3>4. isolated' \in [Pid -> BOOLEAN]
      BY <1>17, <2>2, <1>r, Zenon DEF PageFault
    <3> QED
      BY <1>17, <1>q, <1>r, <3>2, <3>3, <3>4, Zenon DEF PageFault
  <2> QED
    BY <2>1, <2>2
<1>18. CASE UNCHANGED vars
  BY <1>18, <1>u DEF vars
<1> QED
  BY <1>1, <1>2, <1>3, <1>4, <1>5, <1>6, <1>7, <1>8, <1>9, <1>10, <1>11, <1>12, <1>13,
     <1>14, <1>15, <1>16, <1>17, <1>18 DEF Next, Halted

\* The types are invariant given the rest of the invariant.
LEMMA TypeStep == Inv /\ [Next]_vars => TypeOK'
BY RecordTypeStep, SchedTypeStep, ActivationTypeStep, FlagTypeStep DEF Inv, TypeOK

\* Every step keeps control state and records in agreement.
LEMMA ControlStep == Inv /\ [Next]_vars => ControlMatches'
<1> SUFFICES ASSUME Inv, [Next]_vars PROVE ControlMatches'
  OBVIOUS
<1>t. TypeOK
  BY DEF Inv
<1>c. RecordsMatch /\ FrameMatches /\ ReturnMatches
  BY DEF Inv, ControlMatches
<1>p. Pid = 1..MaxProcesses /\ MaxProcesses \in Nat
  BY SizesAssumption DEF Pid
<1>s. pstate \in [Pid -> StateNames] /\ space \in [Pid -> {"none", "identity", "private"}]
      /\ len \in 0..MaxProcesses
  BY <1>t DEF TypeOK, RecordTypeOK, StateNames
<1>h. mode \in {"shell", "halted"} => /\ frame = NoFrame /\ current_pid = 0 /\ active_pid = 0
                                      /\ \A p \in Pid : pstate[p] \notin {"SCHEDULED", "RUNNING"}
  BY <1>c DEF RecordsMatch, FrameMatches, NoFrame
<1>a. ASSUME mode = "shell", HasSlot, NEW a, NEW s \in {"READY", "RUNNING", "REJECTED"}, NEW r,
             NEW sp \in {"none", "identity", "private"}, NEW iso, NEW dyn,
             Admit(a, s, r, sp, iso, dyn)
      PROVE  /\ NewPid \in Pid
             /\ pstate'[NewPid] = s /\ space'[NewPid] = sp
             /\ \A p \in Pid : p # NewPid => pstate'[p] = pstate[p] /\ space'[p] = space[p]
             /\ \A p \in Pid : p = NewPid => ~(p > len')
             /\ \A p \in Pid : p # NewPid => (p > len <=> p > len')
  BY <1>a, <1>t, <1>s, <1>p, NewPidType DEF Admit, NewPid
<1>b. ASSUME mode = "shell", HasSlot, NEW a, NEW s \in {"READY", "REJECTED"}, NEW r,
             NEW sp \in {"none", "identity", "private"}, NEW iso, NEW dyn,
             s = "READY" => sp # "none",
             Admit(a, s, r, sp, iso, dyn), UNCHANGED <<mode, frame, current_pid, active_pid>>
      PROVE  ControlMatches'
  <2>0. /\ NewPid \in Pid
        /\ pstate'[NewPid] = s /\ space'[NewPid] = sp
        /\ \A p \in Pid : p # NewPid => pstate'[p] = pstate[p] /\ space'[p] = space[p]
        /\ \A p \in Pid : p = NewPid => ~(p > len')
        /\ \A p \in Pid : p # NewPid => (p > len <=> p > len')
    BY <1>a, <1>b
  <2>1. RecordsMatch'
    BY <2>0, <1>b, <1>c, <1>h DEF RecordsMatch, Terminal, NoFrame
  <2>2. FrameMatches' /\ ReturnMatches'
    BY <1>b, <1>c DEF FrameMatches, ReturnMatches, NoFrame
  <2> QED
    BY <2>1, <2>2 DEF ControlMatches
<1>1. ASSUME NEW a \in App, RunApp(a) PROVE ControlMatches'
  <2>1. CASE a \notin Present
    BY <1>1, <1>b, <2>1 DEF RunApp, AtPrompt, mark_rejected, schedVars
  <2>2. CASE a \in Present
    <3>1. /\ mode = "shell" /\ HasSlot
          /\ Admit(a, "RUNNING", "none", "none", FALSE, FALSE)
          /\ mode' = "user" /\ frame' = [kind |-> "run", pid |-> NewPid]
          /\ UNCHANGED <<current_pid, active_pid, cr3>>
      BY <1>1, <2>2 DEF RunApp, AtPrompt, mark_running, mark_verified, schedVars
    <3>0. /\ NewPid \in Pid
          /\ pstate'[NewPid] = "RUNNING"
          /\ \A p \in Pid : p # NewPid => pstate'[p] = pstate[p] /\ space'[p] = space[p]
          /\ \A p \in Pid : p = NewPid => ~(p > len')
          /\ \A p \in Pid : p # NewPid => (p > len <=> p > len')
      BY <1>a, <3>1
    <3>2. RecordsMatch'
      BY <3>0, <1>c, <1>h, <3>1 DEF RecordsMatch, Terminal
    <3>3. FrameMatches' /\ ReturnMatches'
      BY <1>a, <1>c, <1>h, <3>1 DEF FrameMatches, ReturnMatches
    <3> QED
      BY <3>2, <3>3 DEF ControlMatches
  <2> QED
    BY <2>1, <2>2
<1>2. ASSUME NEW a \in App, SpawnApp(a) PROVE ControlMatches'
  BY <1>2, <1>b DEF SpawnApp, AtPrompt, mark_rejected, mark_ready, mark_verified, space_of
<1>d. ASSUME mode = "shell", HasSlot, NEW a, NEW iso, AdmitDynamic(a, iso),
             UNCHANGED <<mode, frame, current_pid, active_pid>>
      PROVE  ControlMatches'
  BY <1>d, <1>b DEF AdmitDynamic, mark_rejected, mark_ready, mark_verified, space_of
<1>3. ASSUME NEW a \in App, LoadDynamicApp(a) PROVE ControlMatches'
  BY <1>3, <1>d DEF LoadDynamicApp, AtPrompt
<1>u. UNCHANGED <<recordVars, current_pid, active_pid, cr3, mode, frame, block_reason, exit_code>>
        => ControlMatches'
  BY <1>c DEF ControlMatches, RecordsMatch, FrameMatches, ReturnMatches, recordVars
<1>4. CASE RunV39StagedApp
  <2>1. CASE HasSlot
    BY <1>4, <1>d, <2>1 DEF RunV39StagedApp
  <2>2. CASE ~HasSlot
    BY <1>4, <1>u, <2>2 DEF RunV39StagedApp
  <2> QED
    BY <2>1, <2>2
<1>5. ASSUME NEW n \in {1, DemoSteps}, SchedCommand(n) PROVE ControlMatches'
  BY <1>5, <1>u DEF SchedCommand, schedVars
<1>6. CASE Panic
  BY <1>6, <1>c, <1>h DEF Panic, AtPrompt, ControlMatches, RecordsMatch, FrameMatches,
     ReturnMatches, recordVars, schedVars
<1>7. CASE SchedulerStep
  <2>1. CASE select_next_at(run_queue) = {}
    BY <1>7, <2>1, <1>c, <1>h DEF SchedulerStep, ControlMatches, RecordsMatch, FrameMatches,
       ReturnMatches
  <2>2. CASE select_next_at(run_queue) # {}
    <3>1. PICK p \in Pid :
             /\ pstate[p] = "READY" /\ pstate' = [pstate EXCEPT ![p] = "SCHEDULED"]
             /\ current_pid' = p /\ mode' = "selected"
             /\ frame' = [kind |-> "sched", pid |-> p]
      <4>1. \A i \in DOMAIN run_queue : run_queue[i] \in Pid
        BY <1>t DEF TypeOK, SchedTypeOK
      <4> QED
        BY <1>7, <2>2, <4>1 DEF SchedulerStep, select_next_at, mark_scheduled
    <3>2. mode = "shell" /\ UNCHANGED <<len, space, active_pid>>
      BY <1>7 DEF SchedulerStep
    <3>3. RecordsMatch'
      BY <1>c, <1>h, <1>s, <3>1, <3>2 DEF RecordsMatch
    <3>4. FrameMatches' /\ ReturnMatches'
      BY <1>c, <1>h, <3>1, <3>2 DEF RecordsMatch, FrameMatches, ReturnMatches
    <3> QED
      BY <3>3, <3>4 DEF ControlMatches
  <2> QED
    BY <2>1, <2>2
<1>8. CASE Dispatch
  BY <1>8, <1>c DEF Dispatch, ControlMatches, RecordsMatch, FrameMatches, ReturnMatches,
     cr3_at_dispatch
<1>9. CASE EnterUser
  <2>1. frame.pid \in Pid /\ pstate[frame.pid] = "SCHEDULED"
    BY <1>9, <1>c DEF EnterUser, FrameMatches, RecordsMatch
  <2>2. pstate' = [pstate EXCEPT ![frame.pid] = "RUNNING"]
    BY <1>9, <2>1 DEF EnterUser, mark_running
  <2> QED
    BY <1>9, <1>c, <1>s, <2>1, <2>2 DEF EnterUser, ControlMatches, RecordsMatch, FrameMatches,
       ReturnMatches, schedVars
<1>z. ASSUME mode = "returned", NEW s \in Terminal \cup {"READY"},
             pstate' = [pstate EXCEPT ![frame.pid] = s], s = "READY" => pstate[frame.pid] = "READY",
             mode' = "shell", frame' = NoFrame, current_pid' = 0, active_pid' = 0,
             UNCHANGED <<len, space>>
      PROVE  ControlMatches'
  <2>1. frame.pid \in Pid /\ pstate[frame.pid] # "ABSENT"
    BY <1>z, <1>c DEF FrameMatches, RecordsMatch, ReturnMatches, Faults
  <2>2. RecordsMatch'
    BY <1>z, <1>c, <1>s, <2>1 DEF RecordsMatch, Terminal, NoFrame
  <2>3. FrameMatches' /\ ReturnMatches'
    BY <1>z DEF FrameMatches, ReturnMatches, NoFrame
  <2> QED
    BY <2>2, <2>3 DEF ControlMatches
<1>e. ASSUME mode = "returned", block_reason \notin {"yield", "preempt"}, Finish(frame.pid)
      PROVE  \E s \in Terminal : pstate' = [pstate EXCEPT ![frame.pid] = s]
  BY <1>e, <1>c DEF ReturnMatches, Finish, exits, mark_exited, mark_blocked, Terminal, Faults
<1>10. CASE ScheduledReturn
  <2>1. CASE requeues
    <3>1. pstate[frame.pid] = "READY" /\ frame.pid \in Pid
      BY <1>10, <1>c, <2>1 DEF ScheduledReturn, ReturnMatches, FrameMatches, requeues
    <3>2. pstate' = [pstate EXCEPT ![frame.pid] = "READY"]
      BY <1>10, <1>s, <2>1, <3>1 DEF ScheduledReturn
    <3> QED
      BY <1>10, <1>z, <3>1, <3>2 DEF ScheduledReturn, BackInShell, active_after_return
  <2>2. CASE ~requeues
    <3>1. block_reason \notin {"yield", "preempt"}
      BY <1>10, <1>c, <2>2 DEF ScheduledReturn, ReturnMatches, requeues
    <3> QED
      BY <1>10, <1>e, <1>z, <2>2, <3>1 DEF ScheduledReturn, BackInShell, active_after_return,
         Terminal
  <2> QED
    BY <2>1, <2>2
<1>11. CASE RunReturn
  <2>1. block_reason \notin {"yield", "preempt"} /\ current_pid = 0 /\ active_pid = 0
    BY <1>11, <1>c DEF RunReturn, ReturnMatches, FrameMatches
  <2> QED
    BY <1>11, <1>e, <1>z, <2>1 DEF RunReturn, BackInShell, Terminal, schedVars
<1>12. CASE UserCompute
  BY <1>12, <1>u DEF UserCompute, schedVars
<1>j. ASSUME mode = "user", NEW c, NEW r, longjmp_to_kernel(c, r),
             NEW s \in {"RUNNING", "READY", "BLOCKED"},
             pstate' = [pstate EXCEPT ![frame.pid] = s],
             UNCHANGED <<len, space, frame, current_pid, active_pid, cr3>>,
             \/ r = "exit" /\ s = "RUNNING"
             \/ r = "yield" /\ s = "READY" /\ c = YIELD_EXIT_CODE /\ active_pid # 0
             \/ r = "preempt" /\ s = "READY" /\ c = PREEMPT_EXIT_CODE /\ active_pid # 0
             \/ r \in Faults /\ s \in {"RUNNING", "BLOCKED"} /\ c = 1,
             s = "READY" => space[frame.pid] # "none"
      PROVE  ControlMatches'
  <2>1. frame.pid \in Pid /\ pstate[frame.pid] = "RUNNING" /\ frame.kind \in {"run", "sched"}
    BY <1>j, <1>c, <1>t DEF FrameMatches, TypeOK, ActivationTypeOK
  <2>2. RecordsMatch'
    BY <1>j, <1>c, <1>s, <2>1 DEF RecordsMatch, Terminal, longjmp_to_kernel
  <2>3. FrameMatches'
    BY <1>j, <1>c, <2>1 DEF FrameMatches, longjmp_to_kernel
  <2>4. pstate'[frame'.pid] = s
    BY <1>j, <1>s, <2>1
  <2>5. ReturnMatches'
    BY <1>j, <1>c, <2>1, <2>4 DEF ReturnMatches, FrameMatches, longjmp_to_kernel, Faults
  <2> QED
    BY <2>2, <2>3, <2>5 DEF ControlMatches
<1>k. mode = "user" => /\ frame.pid \in Pid /\ pstate[frame.pid] = "RUNNING"
                       /\ pstate = [pstate EXCEPT ![frame.pid] = "RUNNING"]
                       /\ active_pid # 0 => active_pid = frame.pid /\ frame.kind = "sched"
  BY <1>c, <1>s DEF FrameMatches
<1>13. ASSUME NEW c \in ExitCodes, SysExit(c) PROVE ControlMatches'
  BY <1>13, <1>j, <1>k DEF SysExit, InRing3, recordVars, schedVars
<1>14. CASE SysYield
  <2>1. space[frame.pid] # "none"
    BY <1>14, <1>k DEF SysYield, InRing3, CodeAccessible
  <2>2. pstate' = [pstate EXCEPT ![frame.pid] = "READY"]
    BY <1>14, <1>k DEF SysYield, InRing3, mark_ready, mark_yielded
  <2> QED
    BY <1>14, <1>j, <2>1, <2>2 DEF SysYield, InRing3, schedVars
<1>15. CASE TimerTick
  <2>1. CASE quantum_expired(ticks_after(quantum_ticks))
    <3>2. pstate' = [pstate EXCEPT ![frame.pid] = "READY"]
      BY <1>15, <1>k, <2>1 DEF TimerTick, InRing3, mark_ready, mark_preempted
    <3>3. space[frame.pid] # "none"
      BY <1>15, <1>c, <1>k DEF TimerTick, InRing3, FrameMatches
    <3> QED
      BY <1>15, <1>j, <2>1, <3>2, <3>3 DEF TimerTick, InRing3
  <2>2. CASE ~quantum_expired(ticks_after(quantum_ticks))
    BY <1>15, <1>c, <2>2 DEF TimerTick, ControlMatches, RecordsMatch, FrameMatches, ReturnMatches
  <2> QED
    BY <2>1, <2>2
<1>16. ASSUME NEW r \in Exceptions, UserException(r) PROVE ControlMatches'
  <2>1. r \in Faults
    BY ProgramAssumption DEF Faults
  <2> QED
    BY <1>16, <1>j, <1>k, <2>1 DEF UserException, InRing3, recordVars, schedVars
<1>17. CASE PageFault
  <2>1. CASE active_pid = 0
    BY <1>17, <1>j, <1>k, <2>1 DEF PageFault, InRing3, schedVars, Faults
  <2>2. CASE active_pid # 0
    <3>1. pstate' = [pstate EXCEPT ![frame.pid] = "BLOCKED"]
      BY <1>17, <1>k, <2>2 DEF PageFault, InRing3, mark_blocked
    <3> QED
      BY <1>17, <1>j, <2>2, <3>1 DEF PageFault, InRing3, schedVars, Faults
  <2> QED
    BY <2>1, <2>2
<1>18. CASE UNCHANGED vars
  BY <1>18, <1>u DEF vars, schedVars
<1> QED
  BY <1>1, <1>2, <1>3, <1>4, <1>5, <1>6, <1>7, <1>8, <1>9, <1>10, <1>11, <1>12, <1>13,
     <1>14, <1>15, <1>16, <1>17, <1>18 DEF Next, Halted

NoRepeats(q) == \A i, j \in DOMAIN q : q[i] = q[j] => i = j

\* A queue without repeats that misses a PID is not full.
LEMMA QueueHasRoom ==
    ASSUME NEW q \in Seq(Pid), NoRepeats(q), NEW p \in Pid, p \notin Queued(q)
    PROVE  Len(q) < MaxProcesses
<1>1. MaxProcesses \in Nat /\ Pid = 1..MaxProcesses
  BY SizesAssumption DEF Pid
<1>2. Len(q) \in Nat /\ DOMAIN q = 1..Len(q) /\ \A i \in 1..Len(q) : q[i] \in Pid
  BY LenProperties
<1> DEFINE T == Pid \ {p}
<1>3. q \in [1..Len(q) -> T]
  <2>1. \A i \in 1..Len(q) : q[i] \in T
    BY <1>2 DEF Queued
  <2> QED
    BY <1>2, <2>1, LenProperties
<1>4. IsFiniteSet(Pid) /\ Cardinality(Pid) = MaxProcesses
  <2>1. /\ IsFiniteSet(1..MaxProcesses)
        /\ Cardinality(1..MaxProcesses) = IF 1 > MaxProcesses THEN 0 ELSE MaxProcesses - 1 + 1
    BY <1>1, FS_Interval, 1 \in Int, MaxProcesses \in Int
  <2> QED
    BY <1>1, <2>1, SizesAssumption
<1>5. IsFiniteSet(T) /\ Cardinality(T) = MaxProcesses - 1
  BY <1>4, FS_RemoveElement
<1>6. IsFiniteSet(1..Len(q)) /\ Cardinality(1..Len(q)) = Len(q)
  <2>1. 1 \in Int /\ Len(q) \in Int
    BY <1>2
  <2>2. /\ IsFiniteSet(1..Len(q))
        /\ Cardinality(1..Len(q)) = IF 1 > Len(q) THEN 0 ELSE Len(q) - 1 + 1
    BY <2>1, FS_Interval, Zenon
  <2> QED
    BY <1>2, <2>2
<1>7. SUFFICES ASSUME Len(q) >= MaxProcesses PROVE FALSE
  BY <1>1, <1>2
<1>8. Cardinality(T) < Cardinality(1..Len(q))
  BY <1>1, <1>2, <1>5, <1>6, <1>7
<1>9. \E x, y \in 1..Len(q) : x # y /\ q[x] = q[y]
  <2> HIDE DEF T
  <2> QED
    BY <1>3, <1>5, <1>6, <1>8, FS_PigeonHole
<1> QED
  BY <1>2, <1>9 DEF NoRepeats

\* Scheduler::enqueue accepts a READY process that is not queued.
LEMMA EnqueueAdds ==
    ASSUME NEW q \in Seq(Pid), NoRepeats(q), NEW p \in Pid, p \notin Queued(q)
    PROVE  /\ Queued(enqueue(q, p, "READY")) = Queued(q) \cup {p}
           /\ NoRepeats(enqueue(q, p, "READY"))
<1>1. Len(q) < MaxProcesses /\ MaxProcesses \in Nat
  BY QueueHasRoom, SizesAssumption
<1>2. enqueue(q, p, "READY") = Append(q, p)
  BY <1>1, LenProperties DEF enqueue
<1> DEFINE r == Append(q, p)
<1>3. /\ Len(q) \in Nat /\ DOMAIN q = 1..Len(q)
      /\ DOMAIN r = 1..(Len(q) + 1)
      /\ \A i \in 1..Len(q) : r[i] = q[i]
      /\ r[Len(q) + 1] = p
  BY LenProperties, AppendProperties
<1> HIDE DEF r
<1>4. Queued(r) = Queued(q) \cup {p}
  <2>1. \A i \in DOMAIN r : r[i] \in Queued(q) \cup {p}
    BY <1>3 DEF Queued
  <2>2. \A x \in Queued(q) \cup {p} : \E i \in DOMAIN r : r[i] = x
    <3>1. \A i \in DOMAIN q : i \in DOMAIN r /\ r[i] = q[i]
      BY <1>3
    <3>2. Len(q) + 1 \in DOMAIN r
      BY <1>3
    <3> QED
      BY <1>3, <3>1, <3>2 DEF Queued
  <2> QED
    BY <2>1, <2>2 DEF Queued
<1>5. NoRepeats(r)
  <2> SUFFICES ASSUME NEW i \in DOMAIN r, NEW j \in DOMAIN r, r[i] = r[j] PROVE i = j
    BY DEF NoRepeats
  <2>1. \A k \in DOMAIN q : q[k] # p
    BY DEF Queued
  <2> QED
    BY <1>3, <2>1 DEF NoRepeats
<1> QED
  BY <1>2, <1>4, <1>5 DEF r

\* Shifting out the head removes it and nothing else.
LEMMA DequeueRemoves ==
    ASSUME NEW q \in Seq(Pid), NoRepeats(q), q # <<>>
    PROVE  /\ Queued(dequeue(q, 1)) = Queued(q) \ {q[1]}
           /\ NoRepeats(dequeue(q, 1))
           /\ q[1] \in Pid
<1> DEFINE r == dequeue(q, 1)
<1>1. Len(q) \in Nat /\ Len(q) >= 1 /\ DOMAIN q = 1..Len(q)
  BY LenProperties, EmptySeq
<1>2. /\ DOMAIN r = 1..(Len(q) - 1)
      /\ \A i \in 1..(Len(q) - 1) : r[i] = q[i + 1]
  <2>1. 1 + 1 \in 1..(Len(q) + 1) /\ Len(q) \in (1 + 1) - 1 .. Len(q)
    BY <1>1
  <2> QED
    BY <1>1, <2>1, SubSeqProperties, LenProperties DEF dequeue
<1> HIDE DEF r
<1>3. NoRepeats(r)
  BY <1>1, <1>2, SMTT(30) DEF NoRepeats
<1>4. \A x \in Queued(r) : x \in Queued(q) /\ x # q[1]
  <2> SUFFICES ASSUME NEW i \in DOMAIN r PROVE r[i] \in Queued(q) /\ r[i] # q[1]
    BY DEF Queued
  <2>1. i + 1 \in DOMAIN q /\ r[i] = q[i + 1] /\ i + 1 # 1 /\ 1 \in DOMAIN q
    BY <1>1, <1>2
  <2> QED
    BY <2>1 DEF Queued, NoRepeats
<1>5. \A x \in Queued(q) : x # q[1] => x \in Queued(r)
  <2> SUFFICES ASSUME NEW i \in DOMAIN q, q[i] # q[1] PROVE q[i] \in Queued(r)
    BY DEF Queued
  <2>1. i - 1 \in DOMAIN r /\ r[i - 1] = q[i]
    BY <1>1, <1>2
  <2> QED
    BY <2>1 DEF Queued
<1>6. q[1] \in Pid
  BY <1>1
<1> QED
  BY <1>3, <1>4, <1>5, <1>6 DEF r

\* Every step keeps the run queue exact.
LEMMA QueueStep == Inv /\ [Next]_vars => ReadyIffQueued'
<1> SUFFICES ASSUME Inv, [Next]_vars PROVE ReadyIffQueued'
  OBVIOUS
<1>t. TypeOK
  BY DEF Inv
<1>c. RecordsMatch /\ FrameMatches /\ ReturnMatches
  BY DEF Inv, ControlMatches
<1>s. pstate \in [Pid -> StateNames] /\ run_queue \in Seq(Pid)
  BY <1>t DEF TypeOK, RecordTypeOK, SchedTypeOK, StateNames
<1>r. /\ \A p \in Pid : pstate[p] = "READY" <=> p \in Queued(run_queue) \/ Returning(p)
      /\ NoRepeats(run_queue)
      /\ \A p \in Pid : Returning(p) => p \notin Queued(run_queue)
  BY DEF Inv, ReadyIffQueued, NoRepeats
<1>q. ASSUME /\ \A p \in Pid : pstate'[p] = "READY" <=> p \in Queued(run_queue') \/ Returning(p)'
             /\ NoRepeats(run_queue')
             /\ \A p \in Pid : Returning(p)' => p \notin Queued(run_queue')
      PROVE  ReadyIffQueued'
  BY <1>q DEF ReadyIffQueued, NoRepeats, Queued
<1>n. \A p \in Pid : mode # "returned" => ~Returning(p)
  BY DEF Returning
<1>m. \A p \in Pid : mode' # "returned" => ~Returning(p)'
  BY DEF Returning
\* An admission in the command loop.
<1>a. ASSUME mode = "shell", mode' \in {"shell", "user"}, HasSlot, NEW a,
             NEW s \in {"READY", "RUNNING", "REJECTED"}, NEW r, NEW sp, NEW iso, NEW dyn,
             Admit(a, s, r, sp, iso, dyn), run_queue' = enqueue(run_queue, NewPid, s)
      PROVE  ReadyIffQueued'
  <2>1. NewPid \in Pid /\ NewPid > len
    BY <1>a, <1>t, NewPidType DEF NewPid, TypeOK, RecordTypeOK
  <2>2. pstate[NewPid] = "ABSENT" /\ NewPid \notin Queued(run_queue)
    BY <2>1, <1>a, <1>c, <1>r DEF RecordsMatch
  <2>3. pstate'[NewPid] = s /\ \A p \in Pid : p # NewPid => pstate'[p] = pstate[p]
    BY <1>a, <1>s, <2>1 DEF Admit
  <2>4. CASE s = "READY"
    BY <1>a, <1>m, <1>n, <1>q, <1>r, <1>s, <2>1, <2>2, <2>3, <2>4, EnqueueAdds
  <2>5. CASE s # "READY"
    <3>1. run_queue' = run_queue
      BY <1>a, <2>5 DEF enqueue
    <3> QED
      BY <1>a, <1>m, <1>n, <1>q, <1>r, <2>2, <2>3, <2>5, <3>1
  <2> QED
    BY <2>4, <2>5
\* A step that leaves queue, records and the returning process alone.
<1>u. ASSUME UNCHANGED <<pstate, run_queue>>, mode # "returned", mode' # "returned"
      PROVE  ReadyIffQueued'
  BY <1>u, <1>m, <1>n, <1>q, <1>r
<1>1. ASSUME NEW a \in App, RunApp(a) PROVE ReadyIffQueued'
  <2>1. run_queue' = enqueue(run_queue, NewPid, "RUNNING")
        /\ run_queue' = enqueue(run_queue, NewPid, "REJECTED")
    BY <1>1 DEF RunApp, schedVars, enqueue
  <2> QED
    BY <1>1, <1>a, <2>1 DEF RunApp, AtPrompt, mark_running, mark_verified, mark_rejected
<1>2. ASSUME NEW a \in App, SpawnApp(a) PROVE ReadyIffQueued'
  <2>1. CASE a \in Present
    <3>1. NewPid \in Pid
      BY <1>2, <1>t, NewPidType DEF SpawnApp
    <3>2. pstate'[NewPid] = "READY"
      BY <1>2, <1>s, <2>1, <3>1 DEF SpawnApp, Admit, mark_ready, mark_verified
    <3> QED
      BY <1>2, <1>a, <2>1, <3>2 DEF SpawnApp, AtPrompt, mark_ready, mark_verified
  <2>2. CASE a \notin Present
    <3>1. run_queue' = enqueue(run_queue, NewPid, "REJECTED")
      BY <1>2, <2>2 DEF SpawnApp, enqueue
    <3> QED
      BY <1>2, <1>a, <2>2, <3>1 DEF SpawnApp, AtPrompt, mark_rejected
  <2> QED
    BY <2>1, <2>2
<1>d. ASSUME mode = "shell", mode' = "shell", HasSlot, NEW a, NEW iso, AdmitDynamic(a, iso)
      PROVE  ReadyIffQueued'
  BY <1>d, <1>a DEF AdmitDynamic, mark_rejected, mark_ready, mark_verified
<1>3. ASSUME NEW a \in App, LoadDynamicApp(a) PROVE ReadyIffQueued'
  BY <1>3, <1>d DEF LoadDynamicApp, AtPrompt
<1>4. CASE RunV39StagedApp
  <2>1. CASE HasSlot
    BY <1>4, <1>d, <2>1 DEF RunV39StagedApp
  <2>2. CASE ~HasSlot
    BY <1>4, <1>u, <2>2 DEF RunV39StagedApp, recordVars
  <2> QED
    BY <2>1, <2>2
<1>5. ASSUME NEW n \in {1, DemoSteps}, SchedCommand(n) PROVE ReadyIffQueued'
  BY <1>5, <1>u DEF SchedCommand, AtPrompt, recordVars, schedVars
<1>6. CASE Panic
  BY <1>6, <1>u DEF Panic, AtPrompt, recordVars, schedVars
<1>7. CASE SchedulerStep
  <2>1. mode = "shell" /\ mode' # "returned"
    BY <1>7 DEF SchedulerStep
  <2>2. \A i \in DOMAIN run_queue : run_queue[i] \in Pid /\ pstate[run_queue[i]] = "READY"
    BY <1>r, <1>s DEF Queued
  <2>3. CASE run_queue = <<>>
    <3>1. select_next_at(run_queue) = {}
      BY <2>3 DEF select_next_at
    <3>2. UNCHANGED <<pstate, run_queue>>
      BY <1>7, <2>3, <3>1 DEF SchedulerStep
    <3> QED
      BY <1>u, <2>1, <3>2
  <2>4. CASE run_queue # <<>>
    <3>1. DOMAIN run_queue = 1..Len(run_queue) /\ Len(run_queue) \in Nat /\ Len(run_queue) > 0
      BY <1>s, <2>4, LenProperties, EmptySeq
    <3>2. select_next_at(run_queue) = {1}
      BY <2>2, <3>1 DEF select_next_at
    <3>3. /\ run_queue' = dequeue(run_queue, 1)
          /\ pstate' = [pstate EXCEPT ![run_queue[1]] = "SCHEDULED"]
      BY <1>7, <2>2, <3>1, <3>2 DEF SchedulerStep, mark_scheduled
    <3> QED
      BY <1>m, <1>n, <1>q, <1>r, <1>s, <2>1, <2>4, <3>3, DequeueRemoves
  <2> QED
    BY <2>3, <2>4
\* A step that moves one process between states other than READY.
<1>o. ASSUME NEW p \in Pid, NEW s \in StateNames, s # "READY", pstate[p] # "READY",
             pstate' = [pstate EXCEPT ![p] = s], run_queue' = run_queue,
             \A x \in Pid : ~Returning(x) /\ ~Returning(x)'
      PROVE  ReadyIffQueued'
  BY <1>o, <1>q, <1>r, <1>s
<1>8. CASE Dispatch
  <2>1. UNCHANGED <<pstate, run_queue>>
    BY <1>8, <1>c DEF Dispatch, FrameMatches
  <2> QED
    BY <1>8, <1>u, <2>1 DEF Dispatch
<1>9. CASE EnterUser
  <2>1. frame.pid \in Pid /\ pstate[frame.pid] = "SCHEDULED"
    BY <1>9, <1>c DEF EnterUser, FrameMatches, RecordsMatch
  <2>2. pstate' = [pstate EXCEPT ![frame.pid] = "RUNNING"]
    BY <1>9, <2>1 DEF EnterUser, mark_running
  <2> QED
    BY <1>9, <1>m, <1>n, <1>o, <2>1, <2>2 DEF EnterUser, schedVars, StateNames, Live
<1>e. ASSUME mode = "returned", mode' = "shell", block_reason \notin {"yield", "preempt"},
             Finish(frame.pid), run_queue' = run_queue
      PROVE  ReadyIffQueued'
  <2>1. frame.pid \in Pid /\ pstate[frame.pid] \in {"RUNNING", "BLOCKED"}
    BY <1>e, <1>c DEF ReturnMatches, FrameMatches
  <2>2. PICK s \in {"EXITED", "BLOCKED"} : pstate' = [pstate EXCEPT ![frame.pid] = s]
    BY <1>e, <2>1 DEF Finish, mark_exited, mark_blocked
  <2>3. \A x \in Pid : ~Returning(x)
    BY <1>e DEF Returning
  <2> QED
    BY <1>e, <1>m, <1>o, <2>1, <2>2, <2>3 DEF StateNames, Terminal
<1>10. CASE ScheduledReturn
  <2>1. CASE requeues
    <3>1. /\ pstate[frame.pid] = "READY" /\ frame.pid \in Pid
          /\ \A x \in Pid : Returning(x) <=> x = frame.pid
      BY <1>10, <1>c, <1>t, <2>1 DEF ScheduledReturn, ReturnMatches, FrameMatches, requeues,
         Returning, TypeOK, ActivationTypeOK
    <3>2. pstate' = pstate /\ run_queue' = enqueue(run_queue, frame.pid, "READY")
      BY <1>10, <2>1, <3>1 DEF ScheduledReturn
    <3>3. mode' = "shell"
      BY <1>10 DEF ScheduledReturn, BackInShell
    <3> QED
      BY <1>m, <1>q, <1>r, <1>s, <3>1, <3>2, <3>3, EnqueueAdds
  <2>2. CASE ~requeues
    <3>1. block_reason \notin {"yield", "preempt"}
      BY <1>10, <1>c, <2>2 DEF ScheduledReturn, ReturnMatches, requeues
    <3> QED
      BY <1>10, <1>e, <2>2, <3>1 DEF ScheduledReturn, BackInShell
  <2> QED
    BY <2>1, <2>2
<1>11. CASE RunReturn
  <2>1. block_reason \notin {"yield", "preempt"}
    BY <1>11, <1>c DEF RunReturn, ReturnMatches
  <2> QED
    BY <1>11, <1>e, <2>1 DEF RunReturn, BackInShell, schedVars
<1>12. CASE UserCompute
  BY <1>12, <1>u DEF UserCompute, InRing3, recordVars, schedVars
<1>k. mode = "user" => /\ frame.pid \in Pid /\ pstate[frame.pid] = "RUNNING"
                       /\ pstate = [pstate EXCEPT ![frame.pid] = "RUNNING"]
                       /\ active_pid # 0 => active_pid = frame.pid /\ frame.kind = "sched"
  BY <1>c, <1>s DEF FrameMatches
<1>l. ASSUME mode = "user", NEW c, NEW r, r \notin {"yield", "preempt"}, longjmp_to_kernel(c, r),
             NEW s \in {"RUNNING", "BLOCKED"}, pstate' = [pstate EXCEPT ![frame.pid] = s],
             run_queue' = run_queue
      PROVE  ReadyIffQueued'
  <2>1. \A x \in Pid : ~Returning(x) /\ ~Returning(x)'
    BY <1>l DEF Returning, longjmp_to_kernel
  <2> QED
    BY <1>l, <1>k, <1>o, <2>1 DEF StateNames, Live, Terminal
<1>y. ASSUME mode = "user", active_pid # 0, NEW c, NEW r \in {"yield", "preempt"},
             longjmp_to_kernel(c, r), pstate' = [pstate EXCEPT ![frame.pid] = "READY"],
             UNCHANGED <<run_queue, frame>>
      PROVE  ReadyIffQueued'
  <2>1. \A x \in Pid : Returning(x)' <=> x = frame.pid
    BY <1>y, <1>k, <1>t DEF Returning, longjmp_to_kernel, TypeOK, ActivationTypeOK
  <2>2. frame.pid \notin Queued(run_queue)
    BY <1>y, <1>k, <1>r
  <2> QED
    BY <1>y, <1>k, <1>n, <1>q, <1>r, <1>s, <2>1, <2>2
<1>13. ASSUME NEW c \in ExitCodes, SysExit(c) PROVE ReadyIffQueued'
  BY <1>13, <1>l, <1>k DEF SysExit, InRing3, recordVars, schedVars
<1>14. CASE SysYield
  <2>1. pstate' = [pstate EXCEPT ![frame.pid] = "READY"]
    BY <1>14, <1>k DEF SysYield, InRing3, mark_ready, mark_yielded
  <2> QED
    BY <1>14, <1>y, <2>1 DEF SysYield, InRing3, schedVars
<1>15. CASE TimerTick
  <2>1. CASE quantum_expired(ticks_after(quantum_ticks))
    <3>1. pstate' = [pstate EXCEPT ![frame.pid] = "READY"]
      BY <1>15, <1>k, <2>1 DEF TimerTick, InRing3, mark_ready, mark_preempted
    <3> QED
      BY <1>15, <1>y, <2>1, <3>1 DEF TimerTick, InRing3
  <2>2. CASE ~quantum_expired(ticks_after(quantum_ticks))
    BY <1>15, <1>u, <2>2 DEF TimerTick, InRing3
  <2> QED
    BY <2>1, <2>2
<1>16. ASSUME NEW r \in Exceptions, UserException(r) PROVE ReadyIffQueued'
  <2>1. r \notin {"yield", "preempt"}
    BY ProgramAssumption
  <2> QED
    BY <1>16, <1>l, <1>k, <2>1 DEF UserException, InRing3, recordVars, schedVars
<1>17. CASE PageFault
  <2>1. CASE active_pid = 0
    BY <1>17, <1>l, <1>k, <2>1 DEF PageFault, InRing3, schedVars
  <2>2. CASE active_pid # 0
    <3>1. pstate' = [pstate EXCEPT ![frame.pid] = "BLOCKED"]
      BY <1>17, <1>k, <2>2 DEF PageFault, InRing3, mark_blocked
    <3> QED
      BY <1>17, <1>l, <2>2, <3>1 DEF PageFault, InRing3, schedVars
  <2> QED
    BY <2>1, <2>2
<1>18. CASE UNCHANGED vars
  <2>1. \A x \in Pid : Returning(x)' <=> Returning(x)
    BY <1>18 DEF vars, Returning
  <2> QED
    BY <1>18, <1>q, <1>r, <2>1 DEF vars, recordVars, schedVars
<1> QED
  BY <1>1, <1>2, <1>3, <1>4, <1>5, <1>6, <1>7, <1>8, <1>9, <1>10, <1>11, <1>12, <1>13,
     <1>14, <1>15, <1>16, <1>17, <1>18 DEF Next, Halted

\* ... and satisfies the inductive invariant: no record, no queue, no activation.
LEMMA InvInit == Init => Inv
<1> SUFFICES ASSUME Init PROVE Inv
  OBVIOUS
<1>1. TypeOK
  BY TypeInit
<1>2. ControlMatches
  BY SizesAssumption DEF Init, ControlMatches, RecordsMatch, FrameMatches, ReturnMatches, NoFrame, Pid
<1>3. ReadyIffQueued
  BY DEF Init, ReadyIffQueued, Queued, Returning
<1> QED
  BY <1>1, <1>2, <1>3 DEF Inv

\* The kernel's state is well typed, its control state and its process records
\* agree, and its run queue is exact, for every table size and application set.
THEOREM InvInvariant == Spec => []Inv
<1>1. Init => Inv
  BY InvInit
<1>2. Inv /\ [Next]_vars => Inv'
  BY TypeStep, ControlStep, QueueStep DEF Inv
<1> QED
  BY <1>1, <1>2, PTL DEF Spec

\* Every variable keeps its declared type (BogScheduler's TypeOK).
THEOREM TypeCorrect == Spec => []TypeOK
<1>1. Inv => TypeOK
  BY DEF Inv
<1> QED
  BY <1>1, InvInvariant, PTL

\* Every READY process is queued exactly once (Scheduler::enqueue is never
\* refused, select_next never drops a process).
THEOREM QueueExact == Spec => []ReadyIffQueued
<1>1. Inv => ReadyIffQueued
  BY DEF Inv
<1> QED
  BY <1>1, InvInvariant, PTL

\* Control state and process records agree at every position of the kernel.
THEOREM ControlCorrect == Spec => []ControlMatches
<1>1. Inv => ControlMatches
  BY DEF Inv
<1> QED
  BY <1>1, InvInvariant, PTL

\* The command loop never finds a process lost between two states.
THEOREM NoneStranded == Spec => []NoProcessStranded
<1>1. Inv => NoProcessStranded
  <2> SUFFICES ASSUME Inv, mode = "shell" PROVE NoProcessStranded
    BY DEF NoProcessStranded
  <2>1. RecordsMatch /\ FrameMatches /\ ReadyIffQueued /\ len \in 0..MaxProcesses
    BY DEF Inv, ControlMatches, TypeOK, RecordTypeOK
  <2>2. active_pid = 0 /\ current_pid = 0
    BY <2>1 DEF FrameMatches, NoFrame
  <2>3. \A p \in 1..len : p \in Pid /\ ~(p > len)
    BY <2>1, SizesAssumption DEF Pid
  <2>4. \A p \in Pid : ~Returning(p)
    BY DEF Returning
  <2> QED
    BY <2>1, <2>2, <2>3, <2>4 DEF NoProcessStranded, RecordsMatch, ReadyIffQueued
<1> QED
  BY <1>1, InvInvariant, PTL

\* Scheduled code always runs under its own page directory and active PID.
THEOREM OwnAddressSpace == Spec => []AddressSpaceMatches
<1>1. Inv => AddressSpaceMatches
  BY DEF Inv, ControlMatches, FrameMatches, AddressSpaceMatches
<1> QED
  BY <1>1, InvInvariant, PTL

-----------------------------------------------------------------------------
(* What happens to one process is charged to that process alone.          *)

\* A process that waits for the CPU resumes where it stopped, or at its entry point.
ResumePoint(p) == IF context[p].valid THEN context[p].eip = shadow[p] ELSE shadow[p] = 0

\* ContextPreserved, and the saved context of every process that is not running.
ResumeInv ==
    /\ \A p \in Pid : pstate[p] = "ABSENT" => ~context[p].valid /\ shadow[p] = 0
    /\ \A p \in Pid : pstate[p] \in {"READY", "SCHEDULED"} => ResumePoint(p)
    /\ ContextPreserved

\* QuantumIsOwn, and the fresh quantum before Ring 3 is entered.
QuantumInv == (mode = "entering" => quantum_ticks = 0) /\ QuantumIsOwn

\* OutcomeIsOwn, and how the process whose longjmp is not handled yet left Ring 3.
OutcomeInv ==
    /\ mode = "returned" /\ block_reason = "exit" =>
          outcome[frame.pid] = [code |-> exit_code, reason |-> "none"]
    /\ mode = "returned" /\ block_reason \in Faults =>
          outcome[frame.pid] = [code |-> 1, reason |-> block_reason]
    /\ OutcomeIsOwn

\* The quantum a process is charged with is its own after every step.
LEMMA QuantumStep == Inv /\ QuantumInv /\ [Next]_vars => QuantumInv'
<1> SUFFICES ASSUME Inv, QuantumInv, [Next]_vars PROVE QuantumInv'
  OBVIOUS
<1>f. FrameMatches /\ TypeOK
  BY DEF Inv, ControlMatches
<1>q. Quantum \in Nat \ {0} /\ seen \in Nat
  BY <1>f, SizesAssumption DEF TypeOK, ActivationTypeOK
<1> USE DEF QuantumInv, QuantumIsOwn, schedVars, userVars, FrameMatches
<1>1. ASSUME NEW a \in App, RunApp(a) PROVE QuantumInv'
  <2>1. \/ mode' = "user" /\ frame' = [kind |-> "run", pid |-> NewPid]
        \/ mode' = "shell"
    BY <1>1 DEF RunApp, AtPrompt
  <2>2. mode' # "entering" /\ (mode' = "user" => frame'.kind = "run")
    BY <2>1
  <2> QED
    BY <2>2
<1>2. ASSUME NEW a \in App, SpawnApp(a) PROVE QuantumInv'
  BY <1>2 DEF SpawnApp, AtPrompt
<1>3. ASSUME NEW a \in App, LoadDynamicApp(a) PROVE QuantumInv'
  BY <1>3 DEF LoadDynamicApp, AtPrompt
<1>4. CASE RunV39StagedApp
  BY <1>4 DEF RunV39StagedApp
<1>5. ASSUME NEW n \in {1, DemoSteps}, SchedCommand(n) PROVE QuantumInv'
  BY <1>5 DEF SchedCommand
<1>6. CASE Panic
  BY <1>6 DEF Panic
<1>7. CASE SchedulerStep
  BY <1>7 DEF SchedulerStep
<1>8. CASE Dispatch
  BY <1>8 DEF Dispatch, quantum_at_dispatch
<1>9. CASE EnterUser
  BY <1>9, <1>q DEF EnterUser
<1>10. CASE ScheduledReturn
  BY <1>10 DEF ScheduledReturn, BackInShell
<1>11. CASE RunReturn
  BY <1>11 DEF RunReturn, BackInShell
<1>12. CASE UserCompute
  BY <1>12 DEF UserCompute
<1>13. ASSUME NEW c \in ExitCodes, SysExit(c) PROVE QuantumInv'
  BY <1>13 DEF SysExit, longjmp_to_kernel
<1>14. CASE SysYield
  BY <1>14 DEF SysYield, longjmp_to_kernel
<1>15. CASE TimerTick
  BY <1>15, <1>f, <1>q DEF TimerTick, InRing3, longjmp_to_kernel, quantum_expired, ticks_after
<1>16. ASSUME NEW r \in Exceptions, UserException(r) PROVE QuantumInv'
  BY <1>16 DEF UserException, longjmp_to_kernel
<1>17. CASE PageFault
  BY <1>17 DEF PageFault, longjmp_to_kernel
<1>18. CASE UNCHANGED vars
  BY <1>18 DEF vars
<1> QED
  BY <1>1, <1>2, <1>3, <1>4, <1>5, <1>6, <1>7, <1>8, <1>9, <1>10, <1>11, <1>12, <1>13,
     <1>14, <1>15, <1>16, <1>17, <1>18 DEF Next, Halted

\* What the shell commands admit: run a RUNNING record, spawn and the dynamic loader a
\* READY one, and all of them a REJECTED one.
LEMMA Admissions ==
    ASSUME NEW a, NEW iso
    PROVE  /\ RunApp(a) => \/ Admit(a, "RUNNING", "none", "none", FALSE, FALSE)
                           \/ Admit(a, "REJECTED", "not_found_or_unverified", "none", FALSE, FALSE)
           /\ SpawnApp(a) => \/ Admit(a, "READY", "none", space_of(a),
                                      isolation_proven /\ space_of(a) = "private", FALSE)
                             \/ Admit(a, "REJECTED", "not_found_or_unverified", "none", FALSE, FALSE)
           /\ AdmitDynamic(a, iso) =>
                 \/ iso /\ Admit(a, "READY", "none", space_of(a), iso, TRUE)
                 \/ ~iso /\ Admit(a, "REJECTED", "isolation_not_proven", space_of(a), iso, TRUE)
<1>1. /\ mark_running(mark_verified("CREATED")) = "RUNNING"
      /\ mark_ready(mark_verified("CREATED")) = "READY"
      /\ mark_rejected(mark_verified("CREATED")) = "REJECTED"
      /\ mark_rejected("CREATED") = "REJECTED"
  BY DEF mark_running, mark_verified, mark_ready, mark_rejected
<1> QED
  BY <1>1, Zenon DEF RunApp, SpawnApp, AdmitDynamic, admission

\* Every step leaves each waiting process the context it will resume with.
LEMMA ResumeStep == Inv /\ ResumeInv /\ [Next]_vars => ResumeInv'
<1> SUFFICES ASSUME Inv, ResumeInv, [Next]_vars PROVE ResumeInv'
  OBVIOUS
<1>f. RecordsMatch /\ FrameMatches /\ TypeOK
  BY DEF Inv, ControlMatches
<1>t. pstate \in [Pid -> StateNames] /\ shadow \in [Pid -> 0..(EipCount - 1)]
  BY <1>f DEF TypeOK, RecordTypeOK, ActivationTypeOK, StateNames
<1>d. DOMAIN context = Pid
  BY <1>f DEF TypeOK, RecordTypeOK
<1>p. /\ mode \notin {"shell", "halted"} => frame.pid \in Pid
      /\ active_pid # 0 => active_pid = frame.pid /\ active_pid \in Pid /\ frame.kind = "sched"
  BY <1>f, FramePid DEF FrameMatches
<1>n. mode = "shell" => frame.kind = "none"
  BY <1>f DEF NoFrame, FrameMatches
<1>u. ASSUME UNCHANGED <<pstate, context, shadow>>, mode' = "user" => mode = "user" /\ UNCHANGED <<frame, cpu>>
      PROVE  ResumeInv'
  BY <1>u DEF ResumeInv, ResumePoint, ContextPreserved
\* A step that changes states only out of the waiting ones, and no context.
<1>w. ASSUME UNCHANGED <<context, shadow>>, mode' # "user",
             \A p \in Pid : pstate'[p] = "ABSENT" => pstate[p] = "ABSENT",
             \A p \in Pid : pstate'[p] \in {"READY", "SCHEDULED"} =>
                              pstate[p] \in {"ABSENT", "READY", "SCHEDULED"}
      PROVE  ResumeInv'
  BY <1>w DEF ResumeInv, ResumePoint, ContextPreserved
<1>a. ASSUME HasSlot, NEW b, NEW s, NEW r, NEW sp, NEW iso, NEW dyn, s # "ABSENT",
             Admit(b, s, r, sp, iso, dyn)
      PROVE  /\ UNCHANGED context
             /\ \A p \in Pid : pstate'[p] = "ABSENT" => pstate[p] = "ABSENT"
             /\ \A p \in Pid : pstate'[p] # pstate[p] => pstate[p] = "ABSENT"
  <2>1. NewPid \in Pid /\ pstate[NewPid] = "ABSENT"
    BY <1>a, <1>f, NewPidType DEF RecordsMatch, NewPid, TypeOK, RecordTypeOK
  <2> QED
    BY <1>a, <1>t, <2>1 DEF Admit
<1>1. ASSUME NEW a \in App, RunApp(a) PROVE ResumeInv'
  <2>1. CASE a \in Present
    <3>1. Admit(a, "RUNNING", "none", "none", FALSE, FALSE)
      BY <1>1, <2>1 DEF RunApp, mark_running, mark_verified
    <3>2. frame'.kind = "run" /\ UNCHANGED <<shadow, context>>
      BY <1>1, <2>1, <3>1 DEF RunApp, Admit
    <3>3. NewPid \in Pid
      BY <1>1, <1>f, NewPidType DEF RunApp
    <3> QED
      BY <3>1, <3>2, <3>3, <1>t DEF Admit, ResumeInv, ResumePoint, ContextPreserved
  <2>2. CASE a \notin Present
    <3>1. Admit(a, "REJECTED", "not_found_or_unverified", "none", FALSE, FALSE)
      BY <1>1, <2>2 DEF RunApp, mark_rejected
    <3>2. UNCHANGED <<mode, shadow>> /\ mode = "shell" /\ HasSlot
      BY <1>1, <2>2 DEF RunApp, AtPrompt
    <3> QED
      BY <3>1, <3>2, <1>a, <1>w
  <2> QED
    BY <2>1, <2>2
<1>2. ASSUME NEW a \in App, SpawnApp(a) PROVE ResumeInv'
  <2>1. \/ Admit(a, "READY", "none", space_of(a), isolation_proven /\ space_of(a) = "private", FALSE)
        \/ Admit(a, "REJECTED", "not_found_or_unverified", "none", FALSE, FALSE)
    BY <1>2, Admissions
  <2>2. UNCHANGED <<mode, shadow>> /\ mode = "shell" /\ HasSlot
    BY <1>2 DEF SpawnApp, AtPrompt, userVars
  <2> QED
    BY <2>1, <2>2, <1>a, <1>w
<1>g. ASSUME NEW b, NEW iso, HasSlot, AdmitDynamic(b, iso), mode = "shell", UNCHANGED <<mode, shadow>>
      PROVE  ResumeInv'
  <2>1. \/ Admit(b, "READY", "none", space_of(b), iso, TRUE)
        \/ Admit(b, "REJECTED", "isolation_not_proven", space_of(b), iso, TRUE)
    BY <1>g, Admissions
  <2> QED
    BY <2>1, <1>g, <1>a, <1>w
<1>3. ASSUME NEW a \in App, LoadDynamicApp(a) PROVE ResumeInv'
  BY <1>3, <1>g DEF LoadDynamicApp, AtPrompt, userVars
<1>4. CASE RunV39StagedApp
  BY <1>4, <1>g, <1>u DEF RunV39StagedApp, userVars, recordVars
<1>5. ASSUME NEW n \in {1, DemoSteps}, SchedCommand(n) PROVE ResumeInv'
  BY <1>5, <1>u DEF SchedCommand, userVars, recordVars
<1>6. CASE Panic
  BY <1>6, <1>u DEF Panic, userVars, recordVars
<1>7. CASE SchedulerStep
  <2>1. \A i \in DOMAIN run_queue : run_queue[i] \in Pid
    BY <1>f DEF TypeOK, SchedTypeOK
  <2>2. CASE select_next_at(run_queue) = {}
    BY <1>7, <2>2, <1>u DEF SchedulerStep, userVars
  <2>3. CASE select_next_at(run_queue) # {}
    <3>1. PICK i \in select_next_at(run_queue) :
              pstate' = [pstate EXCEPT ![run_queue[i]] = mark_scheduled(pstate[run_queue[i]])]
      BY <1>7, <2>3 DEF SchedulerStep
    <3>2. mode' # "user" /\ UNCHANGED <<context, shadow>>
      BY <1>7 DEF SchedulerStep, userVars
    <3>3. run_queue[i] \in Pid /\ pstate[run_queue[i]] = "READY"
      BY <2>1, <3>1 DEF select_next_at
    <3> QED
      BY <3>1, <3>2, <3>3, <1>t, <1>w DEF mark_scheduled
  <2> QED
    BY <2>2, <2>3
<1>8. CASE Dispatch
  <2>1. frame.pid \in Pid /\ UNCHANGED <<context, shadow>> /\ mode' # "user"
    BY <1>8, <1>p DEF Dispatch, userVars
  <2>2. \/ pstate' = pstate
        \/ pstate' = [pstate EXCEPT ![frame.pid] = mark_rejected(pstate[frame.pid])]
    BY <1>8 DEF Dispatch
  <2> QED
    BY <2>1, <2>2, <1>t, <1>w DEF mark_rejected
<1>9. CASE EnterUser
  <2>1. frame.pid \in Pid /\ pstate[frame.pid] = "SCHEDULED" /\ space[frame.pid] # "none"
    BY <1>9, <1>f, <1>p DEF EnterUser, RecordsMatch, FrameMatches
  <2>2. /\ pstate' = [pstate EXCEPT ![frame.pid] = "RUNNING"]
        /\ UNCHANGED <<context, shadow, frame>>
        /\ cpu' = IF context[frame.pid].valid THEN context[frame.pid].eip ELSE 0
    BY <1>9, <2>1 DEF EnterUser, mark_running, restore_eligible
  <2> QED
    BY <2>1, <2>2, <1>t DEF ResumeInv, ResumePoint, ContextPreserved
<1>e. ASSUME NEW p \in Pid, Finish(p)
      PROVE  /\ \A q \in Pid : pstate'[q] = "ABSENT" => pstate[q] = "ABSENT"
             /\ \A q \in Pid : pstate'[q] \in {"READY", "SCHEDULED"} => pstate'[q] = pstate[q]
  BY <1>e, <1>t DEF Finish, mark_exited, mark_blocked
<1>10. CASE ScheduledReturn
  <2>1. frame.pid \in Pid /\ UNCHANGED <<context, shadow>> /\ mode' # "user"
    BY <1>10, <1>p DEF ScheduledReturn, BackInShell
  <2>2. Finish(frame.pid) \/ pstate' = pstate
    BY <1>10 DEF ScheduledReturn
  <2> QED
    BY <2>1, <2>2, <1>e, <1>w
<1>11. CASE RunReturn
  <2>1. frame.pid \in Pid /\ UNCHANGED <<context, shadow>> /\ mode' # "user" /\ Finish(frame.pid)
    BY <1>11, <1>p DEF RunReturn, BackInShell
  <2> QED
    BY <2>1, <1>e, <1>w
<1>r. mode = "user" => frame.pid \in Pid /\ pstate[frame.pid] = "RUNNING"
  BY <1>f, <1>p DEF FrameMatches
<1>12. CASE UserCompute
  <2>1. UNCHANGED <<pstate, context, frame, mode>> /\ mode = "user" /\ cpu' = next_eip /\ Advance
    BY <1>12 DEF UserCompute, InRing3, recordVars
  <2> QED
    BY <2>1, <1>r, <1>t DEF Advance, ResumeInv, ResumePoint, ContextPreserved
<1>13. ASSUME NEW c \in ExitCodes, SysExit(c) PROVE ResumeInv'
  BY <1>13, <1>u DEF SysExit, longjmp_to_kernel, recordVars
<1>14. CASE SysYield
  <2>1. /\ active_pid = frame.pid /\ frame.pid \in Pid /\ frame.kind = "sched"
        /\ pstate[frame.pid] = "RUNNING"
    BY <1>14, <1>p, <1>r DEF SysYield, InRing3
  <2>2. /\ context' = [context EXCEPT ![frame.pid] = [valid |-> TRUE, eip |-> next_eip]]
        /\ pstate' = [pstate EXCEPT ![frame.pid] = "READY"]
        /\ shadow' = [shadow EXCEPT ![frame.pid] = next_eip]
        /\ mode' = "returned"
    BY <1>14, <2>1 DEF SysYield, yield_context, save_context, mark_yielded, mark_ready, Advance,
       longjmp_to_kernel
  <2> QED
    BY <2>1, <2>2, <1>t, <1>d DEF ResumeInv, ResumePoint, ContextPreserved
<1>15. CASE TimerTick
  <2>1. /\ active_pid = frame.pid /\ frame.pid \in Pid /\ frame.kind = "sched" /\ mode = "user"
        /\ pstate[frame.pid] = "RUNNING" /\ UNCHANGED <<shadow, cpu, frame>>
    BY <1>15, <1>p, <1>r DEF TimerTick, InRing3
  <2>2. CASE quantum_expired(ticks_after(quantum_ticks))
    <3>1. /\ context' = [context EXCEPT ![frame.pid] = [valid |-> TRUE, eip |-> cpu]]
          /\ pstate' = [pstate EXCEPT ![frame.pid] = "READY"]
          /\ mode' = "returned"
      BY <1>15, <2>1, <2>2 DEF TimerTick, save_context, mark_preempted, mark_ready, longjmp_to_kernel
    <3> QED
      BY <2>1, <3>1, <1>t, <1>d DEF ResumeInv, ResumePoint, ContextPreserved
  <2>3. CASE ~quantum_expired(ticks_after(quantum_ticks))
    BY <1>15, <2>1, <2>3, <1>u DEF TimerTick
  <2> QED
    BY <2>2, <2>3
<1>16. ASSUME NEW r \in Exceptions, UserException(r) PROVE ResumeInv'
  BY <1>16, <1>u DEF UserException, longjmp_to_kernel, recordVars
<1>17. CASE PageFault
  <2>1. UNCHANGED <<context, shadow>> /\ mode' # "user"
    BY <1>17 DEF PageFault, longjmp_to_kernel
  <2>2. \/ pstate' = pstate
        \/ active_pid \in Pid /\ pstate' = [pstate EXCEPT ![active_pid] = mark_blocked(pstate[active_pid])]
    BY <1>17, <1>p DEF PageFault
  <2> QED
    BY <2>1, <2>2, <1>t, <1>w DEF mark_blocked
<1>18. CASE UNCHANGED vars
  BY <1>18, <1>u DEF vars, userVars, recordVars
<1> QED
  BY <1>1, <1>2, <1>3, <1>4, <1>5, <1>6, <1>7, <1>8, <1>9, <1>10, <1>11, <1>12, <1>13,
     <1>14, <1>15, <1>16, <1>17, <1>18 DEF Next, Halted

\* Every step charges a process with nothing but the way it left Ring 3 itself.
LEMMA OutcomeStep == Inv /\ OutcomeInv /\ [Next]_vars => OutcomeInv'
<1> SUFFICES ASSUME Inv, OutcomeInv, [Next]_vars PROVE OutcomeInv'
  OBVIOUS
<1>f. RecordsMatch /\ FrameMatches /\ ReturnMatches /\ TypeOK
  BY DEF Inv, ControlMatches
<1>t. pstate \in [Pid -> StateNames] /\ DOMAIN exit_status = Pid /\ DOMAIN outcome = Pid
  BY <1>f DEF TypeOK, RecordTypeOK, ActivationTypeOK, StateNames
<1>p. /\ mode \notin {"shell", "halted"} => frame.pid \in Pid
      /\ active_pid # 0 => active_pid = frame.pid
  BY <1>f, FramePid DEF FrameMatches
<1>r. mode = "user" => frame.pid \in Pid /\ pstate[frame.pid] = "RUNNING"
  BY <1>f, <1>p DEF FrameMatches
\* A step that finishes no process and performs no longjmp.
<1>w. ASSUME UNCHANGED outcome, mode' # "returned",
             \A p \in Pid : pstate'[p] \in {"EXITED", "BLOCKED"} =>
                              pstate'[p] = pstate[p] /\ exit_status'[p] = exit_status[p]
      PROVE  OutcomeInv'
  BY <1>w DEF OutcomeInv, OutcomeIsOwn
<1>u. ASSUME UNCHANGED <<pstate, exit_status, outcome>>, mode' # "returned" PROVE OutcomeInv'
  BY <1>u, <1>w
<1>a. ASSUME HasSlot, NEW b, NEW s \in {"READY", "RUNNING", "REJECTED"}, NEW r, NEW sp, NEW iso, NEW dyn,
             Admit(b, s, r, sp, iso, dyn)
      PROVE  \A p \in Pid : pstate'[p] \in {"EXITED", "BLOCKED"} =>
                               pstate'[p] = pstate[p] /\ exit_status'[p] = exit_status[p]
  BY <1>a, <1>f, <1>t, NewPidType DEF Admit
<1>1. ASSUME NEW a \in App, RunApp(a) PROVE OutcomeInv'
  <2>1. \/ Admit(a, "RUNNING", "none", "none", FALSE, FALSE)
        \/ Admit(a, "REJECTED", "not_found_or_unverified", "none", FALSE, FALSE)
    BY <1>1, Admissions
  <2>2. UNCHANGED outcome /\ mode' # "returned" /\ HasSlot
    BY <1>1 DEF RunApp, AtPrompt
  <2> QED
    BY <2>1, <2>2, <1>a, <1>w
<1>2. ASSUME NEW a \in App, SpawnApp(a) PROVE OutcomeInv'
  <2>1. \/ Admit(a, "READY", "none", space_of(a), isolation_proven /\ space_of(a) = "private", FALSE)
        \/ Admit(a, "REJECTED", "not_found_or_unverified", "none", FALSE, FALSE)
    BY <1>2, Admissions
  <2>2. UNCHANGED outcome /\ mode' # "returned" /\ HasSlot
    BY <1>2 DEF SpawnApp, AtPrompt, userVars
  <2> QED
    BY <2>1, <2>2, <1>a, <1>w
<1>g. ASSUME NEW b, NEW iso, HasSlot, AdmitDynamic(b, iso), mode = "shell", UNCHANGED <<mode, outcome>>
      PROVE  OutcomeInv'
  <2>1. \/ Admit(b, "READY", "none", space_of(b), iso, TRUE)
        \/ Admit(b, "REJECTED", "isolation_not_proven", space_of(b), iso, TRUE)
    BY <1>g, Admissions
  <2> QED
    BY <2>1, <1>g, <1>a, <1>w
<1>3. ASSUME NEW a \in App, LoadDynamicApp(a) PROVE OutcomeInv'
  BY <1>3, <1>g DEF LoadDynamicApp, AtPrompt, userVars
<1>4. CASE RunV39StagedApp
  BY <1>4, <1>g, <1>u DEF RunV39StagedApp, userVars, recordVars
<1>5. ASSUME NEW n \in {1, DemoSteps}, SchedCommand(n) PROVE OutcomeInv'
  BY <1>5, <1>u DEF SchedCommand, AtPrompt, userVars, recordVars
<1>6. CASE Panic
  BY <1>6, <1>u DEF Panic, userVars, recordVars
<1>7. CASE SchedulerStep
  <2>1. \A i \in DOMAIN run_queue : run_queue[i] \in Pid
    BY <1>f DEF TypeOK, SchedTypeOK
  <2>2. UNCHANGED <<outcome, exit_status>> /\ mode' # "returned"
    BY <1>7 DEF SchedulerStep, userVars
  <2>3. CASE select_next_at(run_queue) = {}
    BY <1>7, <2>2, <2>3, <1>u DEF SchedulerStep
  <2>4. CASE select_next_at(run_queue) # {}
    <3>1. PICK i \in select_next_at(run_queue) :
              pstate' = [pstate EXCEPT ![run_queue[i]] = mark_scheduled(pstate[run_queue[i]])]
      BY <1>7, <2>4 DEF SchedulerStep
    <3>2. run_queue[i] \in Pid
      BY <2>1, <3>1 DEF select_next_at
    <3> QED
      BY <2>2, <3>1, <3>2, <1>t, <1>w DEF mark_scheduled
  <2> QED
    BY <2>3, <2>4
<1>8. CASE Dispatch
  <2>1. frame.pid \in Pid /\ UNCHANGED <<exit_status, outcome>> /\ mode' # "returned"
    BY <1>8, <1>p DEF Dispatch, userVars
  <2>2. \/ pstate' = pstate
        \/ pstate' = [pstate EXCEPT ![frame.pid] = mark_rejected(pstate[frame.pid])]
    BY <1>8 DEF Dispatch
  <2> QED
    BY <2>1, <2>2, <1>t, <1>w DEF mark_rejected
<1>9. CASE EnterUser
  <2>1. frame.pid \in Pid
    BY <1>9, <1>p DEF EnterUser
  <2> QED
    BY <1>9, <2>1, <1>t, <1>w DEF EnterUser, mark_running
\* The return path: exit_code and block_reason are what outcome holds.
<1>e. ASSUME mode = "returned", Finish(frame.pid), UNCHANGED outcome, mode' # "returned",
             block_reason \notin {"yield", "preempt"}
      PROVE  OutcomeInv'
  <2> DEFINE p == frame.pid
  <2>0. p \in Pid /\ block_reason \in {"exit"} \cup Faults
    BY <1>e, <1>p, <1>f DEF ReturnMatches
  <2>1. \A q \in Pid : q # p => pstate'[q] = pstate[q] /\ exit_status'[q] = exit_status[q]
    BY <1>e, <1>t DEF Finish
  <2>2. CASE block_reason = "exit"
    <3>1. pstate[p] = "RUNNING" /\ exits
      BY <1>e, <2>2, <1>f DEF ReturnMatches, exits
    <3>2. pstate'[p] = "EXITED" /\ exit_status'[p] = [code |-> exit_code, reason |-> "none"]
      <4>1. final_reason = "none"
        BY <2>2, <3>1 DEF final_reason
      <4>2. /\ pstate' = [pstate EXCEPT ![p] = "EXITED"]
            /\ exit_status' = [exit_status EXCEPT ![p] = status_of(p, "EXITED", exit_code, "none")]
        BY <1>e, <3>1, <4>1 DEF Finish, mark_exited
      <4> QED
        BY <2>0, <3>1, <4>2, <1>t DEF status_of
    <3>3. outcome[p] = [code |-> exit_code, reason |-> "none"]
      BY <1>e, <2>2 DEF OutcomeInv
    <3>4. exit_status'[p] = outcome'[p] /\ outcome'[p].reason = "none"
      BY <1>e, <3>2, <3>3
    <3> QED
      BY <1>e, <2>0, <2>1, <3>2, <3>4 DEF OutcomeInv, OutcomeIsOwn
  <2>3. CASE block_reason \in Faults
    <3>1. ~exits /\ exit_code = 1 /\ pstate[p] \in {"RUNNING", "BLOCKED"} /\ block_reason # "none"
      BY <1>e, <2>3, <1>f DEF ReturnMatches, exits, Faults
    <3>2. outcome[p] = [code |-> 1, reason |-> block_reason]
      BY <1>e, <2>3 DEF OutcomeInv
    <3>3. CASE pstate[p] = "RUNNING"
      <4>1. pstate'[p] = "BLOCKED" /\ exit_status'[p] = [code |-> 1, reason |-> block_reason]
        BY <1>e, <2>0, <3>1, <3>3, <1>t DEF Finish, mark_blocked, status_of, final_reason
      <4>2. exit_status'[p] = outcome'[p] /\ outcome'[p].reason # "none"
        BY <1>e, <3>1, <3>2, <4>1
      <4> QED
        BY <1>e, <2>0, <2>1, <4>1, <4>2 DEF OutcomeInv, OutcomeIsOwn
    <3>4. CASE pstate[p] = "BLOCKED"
      <4>1. pstate'[p] = pstate[p] /\ exit_status'[p] = exit_status[p]
        BY <1>e, <2>0, <3>1, <3>4, <1>t DEF Finish, mark_blocked, status_of
      <4> QED
        BY <1>e, <2>1, <4>1, <1>w
    <3> QED
      BY <3>1, <3>3, <3>4
  <2> QED
    BY <2>0, <2>2, <2>3
<1>10. CASE ScheduledReturn
  <2>1. UNCHANGED outcome /\ mode = "returned" /\ mode' # "returned"
    BY <1>10 DEF ScheduledReturn, BackInShell
  <2>2. CASE requeues
    BY <1>10, <2>1, <2>2, <1>u DEF ScheduledReturn
  <2>3. CASE ~requeues
    <3>1. block_reason \notin {"yield", "preempt"}
      BY <2>1, <2>3, <1>f DEF ReturnMatches, requeues
    <3> QED
      BY <1>10, <2>1, <2>3, <3>1, <1>e DEF ScheduledReturn
  <2> QED
    BY <2>2, <2>3
<1>11. CASE RunReturn
  <2>1. block_reason \notin {"yield", "preempt"}
    BY <1>11, <1>f DEF RunReturn, ReturnMatches
  <2> QED
    BY <1>11, <2>1, <1>e DEF RunReturn, BackInShell
<1>12. CASE UserCompute
  BY <1>12, <1>u DEF UserCompute, InRing3, recordVars
\* A program that ends itself or faults: its outcome is written, its record may be.
<1>j. ASSUME mode = "user", NEW c, NEW r, Leaves(c, r), UNCHANGED frame, mode' = "returned",
             \A q \in Pid : q # frame.pid => pstate'[q] = pstate[q] /\ exit_status'[q] = exit_status[q],
             \/ pstate'[frame.pid] = "RUNNING"
             \/ /\ pstate'[frame.pid] = "BLOCKED" /\ r # "none"
                /\ exit_status'[frame.pid] = [code |-> c, reason |-> r]
      PROVE  OutcomeIsOwn' /\ outcome'[frame'.pid] = [code |-> c, reason |-> r]
  <2>1. frame.pid \in Pid
    BY <1>j, <1>r
  <2>2. /\ outcome'[frame.pid] = [code |-> c, reason |-> r]
        /\ \A q \in Pid : q # frame.pid => outcome'[q] = outcome[q]
    BY <1>j, <2>1, <1>t DEF Leaves
  <2>3. outcome'[frame.pid].reason = r
    BY <2>2
  <2> QED
    BY <1>j, <2>1, <2>2, <2>3 DEF OutcomeInv, OutcomeIsOwn
<1>13. ASSUME NEW c \in ExitCodes, SysExit(c) PROVE OutcomeInv'
  <2>1. /\ mode = "user" /\ Leaves(c, "none") /\ UNCHANGED <<frame, pstate, exit_status>>
        /\ mode' = "returned" /\ block_reason' = "exit" /\ exit_code' = c
    BY <1>13 DEF SysExit, InRing3, longjmp_to_kernel, recordVars
  <2>2. OutcomeIsOwn' /\ outcome'[frame'.pid] = [code |-> c, reason |-> "none"]
    BY <2>1, <1>r, <1>j
  <2> QED
    BY <2>1, <2>2 DEF OutcomeInv, Faults
<1>14. CASE SysYield
  <2>1. /\ active_pid = frame.pid /\ frame.pid \in Pid /\ pstate[frame.pid] = "RUNNING"
        /\ UNCHANGED <<outcome, exit_status, frame>> /\ block_reason' = "yield"
    BY <1>14, <1>p, <1>r DEF SysYield, InRing3, longjmp_to_kernel
  <2>2. pstate' = [pstate EXCEPT ![frame.pid] = "READY"]
    BY <1>14, <2>1 DEF SysYield, mark_yielded, mark_ready
  <2> QED
    BY <2>1, <2>2, <1>t DEF OutcomeInv, OutcomeIsOwn, Faults
<1>15. CASE TimerTick
  <2>1. /\ active_pid = frame.pid /\ frame.pid \in Pid /\ pstate[frame.pid] = "RUNNING"
        /\ UNCHANGED <<outcome, exit_status, frame>>
    BY <1>15, <1>p, <1>r DEF TimerTick, InRing3
  <2>2. CASE quantum_expired(ticks_after(quantum_ticks))
    <3>1. pstate' = [pstate EXCEPT ![frame.pid] = "READY"] /\ block_reason' = "preempt"
      BY <1>15, <2>1, <2>2 DEF TimerTick, mark_preempted, mark_ready, longjmp_to_kernel
    <3> QED
      BY <2>1, <3>1, <1>t DEF OutcomeInv, OutcomeIsOwn, Faults
  <2>3. CASE ~quantum_expired(ticks_after(quantum_ticks))
    BY <1>15, <2>1, <2>3, <1>u DEF TimerTick, InRing3
  <2> QED
    BY <2>2, <2>3
<1>16. ASSUME NEW r \in Exceptions, UserException(r) PROVE OutcomeInv'
  <2>1. /\ mode = "user" /\ Leaves(1, r) /\ UNCHANGED <<frame, pstate, exit_status>>
        /\ mode' = "returned" /\ block_reason' = r
    BY <1>16 DEF UserException, InRing3, longjmp_to_kernel, recordVars
  <2>2. OutcomeIsOwn' /\ outcome'[frame'.pid] = [code |-> 1, reason |-> r]
    BY <2>1, <1>r, <1>j
  <2>3. r # "exit"
    BY ProgramAssumption
  <2> QED
    BY <2>1, <2>2, <2>3 DEF OutcomeInv
<1>17. CASE PageFault
  <2>1. /\ mode = "user" /\ Leaves(1, "page_fault") /\ UNCHANGED frame
        /\ mode' = "returned" /\ block_reason' = "page_fault"
    BY <1>17 DEF PageFault, InRing3, longjmp_to_kernel
  <2>2. CASE active_pid = 0
    <3>1. UNCHANGED <<pstate, exit_status>>
      BY <1>17, <2>2 DEF PageFault
    <3>2. OutcomeIsOwn' /\ outcome'[frame'.pid] = [code |-> 1, reason |-> "page_fault"]
      BY <2>1, <3>1, <1>r, <1>j
    <3> QED
      BY <2>1, <3>2 DEF OutcomeInv
  <2>3. CASE active_pid # 0
    <3>1. active_pid = frame.pid /\ frame.pid \in Pid /\ pstate[frame.pid] = "RUNNING"
      BY <2>1, <2>3, <1>p, <1>r
    <3>2. pstate' = [pstate EXCEPT ![frame.pid] = "BLOCKED"]
      BY <1>17, <2>3, <3>1 DEF PageFault, mark_blocked
    <3>3. exit_status' = [exit_status EXCEPT ![frame.pid] = status_of(frame.pid, pstate'[frame.pid], 1, "page_fault")]
      BY <1>17, <2>3, <3>1 DEF PageFault
    <3>4. /\ pstate'[frame.pid] = "BLOCKED"
          /\ exit_status'[frame.pid] = [code |-> 1, reason |-> "page_fault"]
          /\ \A q \in Pid : q # frame.pid => pstate'[q] = pstate[q] /\ exit_status'[q] = exit_status[q]
      BY <3>1, <3>2, <3>3, <1>t DEF status_of
    <3>5. OutcomeIsOwn' /\ outcome'[frame'.pid] = [code |-> 1, reason |-> "page_fault"]
      BY <2>1, <3>4, <1>j
    <3> QED
      BY <2>1, <3>5 DEF OutcomeInv
  <2> QED
    BY <2>2, <2>3
<1>18. CASE UNCHANGED vars
  BY <1>18 DEF vars, userVars, recordVars, OutcomeInv, OutcomeIsOwn
<1> QED
  BY <1>1, <1>2, <1>3, <1>4, <1>5, <1>6, <1>7, <1>8, <1>9, <1>10, <1>11, <1>12, <1>13,
     <1>14, <1>15, <1>16, <1>17, <1>18 DEF Next, Halted

\* Where a process resumes, what its quantum is charged with and how it is reported to
\* have ended are its own (AttributedToOwner), for any number of processes, any quantum and
\* any exit codes, the kernel's internal ones included.
THEOREM OwnAttribution == Spec => []AttributedToOwner
<1>1. Init => QuantumInv /\ ResumeInv /\ OutcomeInv
  BY DEF Init, QuantumInv, QuantumIsOwn, ResumeInv, ResumePoint, ContextPreserved, OutcomeInv,
         OutcomeIsOwn, NoContext
<1>2. QuantumInv /\ ResumeInv /\ OutcomeInv => AttributedToOwner
  BY DEF AttributedToOwner, QuantumInv, ResumeInv, OutcomeInv
<1> QED
  BY <1>1, <1>2, InvInvariant, QuantumStep, ResumeStep, OutcomeStep, PTL DEF Spec

\* A process of application a that a page fault blocked.
Evidence(a) ==
    \E p \in Pid : app[p] = a /\ pstate[p] = "BLOCKED" /\ exit_status[p].reason = "page_fault"

\* IsolationProved, with the evidence behind every *_FAULTED flag: a flag outlives nothing,
\* since a BLOCKED record never changes again.
IsolationInv ==
    /\ \A p \in Pid : pstate[p] = "ABSENT" => ~admitted[p]
    /\ \A a \in faulted : Evidence(a)
    /\ isolation_proven => ProofApps \subseteq faulted
    /\ IsolationUniform
    /\ IsolationGate

\* Every step keeps the evidence, the isolation of private address spaces and the gate of
\* the dynamic loader.
LEMMA IsolationStep == Inv /\ IsolationInv /\ [Next]_vars => IsolationInv'
<1> SUFFICES ASSUME Inv, IsolationInv, [Next]_vars PROVE IsolationInv'
  OBVIOUS
<1>f. RecordsMatch /\ FrameMatches /\ ReturnMatches /\ TypeOK
  BY DEF Inv, ControlMatches
<1>t. /\ pstate \in [Pid -> StateNames] /\ DOMAIN exit_status = Pid /\ DOMAIN app = Pid
      /\ DOMAIN space = Pid /\ isolated \in [Pid -> BOOLEAN] /\ admitted \in [Pid -> BOOLEAN]
      /\ isolation_proven \in BOOLEAN /\ len \in 0..MaxProcesses
  BY <1>f DEF TypeOK, RecordTypeOK, FlagTypeOK, StateNames
<1>p. /\ mode \notin {"shell", "halted"} => frame.pid \in Pid
      /\ active_pid # 0 => active_pid = frame.pid
  BY <1>f, FramePid DEF FrameMatches
<1>r. mode = "user" => frame.pid \in Pid /\ pstate[frame.pid] = "RUNNING"
  BY <1>f, <1>p DEF FrameMatches
<1>v. \A p \in 1..len : p \in Pid
  BY <1>t, SizesAssumption DEF Pid
\* A step that admits nothing, proves nothing and leaves finished records alone.
<1>w. ASSUME UNCHANGED <<len, app, admitted, space, isolated, faulted, isolation_proven>>,
             \A p \in Pid : /\ pstate[p] = "BLOCKED" => pstate'[p] = "BLOCKED" /\ exit_status'[p] = exit_status[p]
                            /\ pstate'[p] = "ABSENT" => pstate[p] = "ABSENT"
                            /\ pstate[p] = "REJECTED" => pstate'[p] = "REJECTED"
      PROVE  IsolationInv'
  BY <1>w DEF IsolationInv, Evidence, IsolationUniform, IsolationGate
<1>u. ASSUME UNCHANGED <<recordVars, proofVars>> PROVE IsolationInv'
  BY <1>u, <1>w DEF recordVars, proofVars
\* An admission writes one record, which was ABSENT.
<1>a. ASSUME HasSlot, NEW b, NEW s \in {"READY", "RUNNING", "REJECTED"}, NEW r,
             NEW sp, NEW iso \in BOOLEAN, NEW dyn \in BOOLEAN,
             Admit(b, s, r, sp, iso, dyn), UNCHANGED proofVars,
             isolation_proven /\ sp = "private" => iso,
             dyn /\ s # "REJECTED" => iso /\ (isolation_proven \/ b = V39App)
      PROVE  IsolationInv'
  <2>1. /\ NewPid \in Pid /\ pstate[NewPid] = "ABSENT" /\ len' = NewPid
        /\ \A p \in Pid \ {NewPid} : /\ pstate'[p] = pstate[p] /\ exit_status'[p] = exit_status[p]
                                     /\ app'[p] = app[p] /\ admitted'[p] = admitted[p]
                                     /\ space'[p] = space[p] /\ isolated'[p] = isolated[p]
        /\ pstate'[NewPid] = s /\ app'[NewPid] = b /\ admitted'[NewPid] = dyn
        /\ space'[NewPid] = sp /\ isolated'[NewPid] = iso
    <3>1. NewPid \in Pid /\ pstate[NewPid] = "ABSENT" /\ len' = NewPid
      BY <1>a, <1>f, <1>t, NewPidType DEF Admit, RecordsMatch, NewPid
    <3>2. /\ pstate'[NewPid] = s /\ app'[NewPid] = b /\ space'[NewPid] = sp
          /\ \A p \in Pid \ {NewPid} : /\ pstate'[p] = pstate[p] /\ exit_status'[p] = exit_status[p]
                                       /\ app'[p] = app[p] /\ space'[p] = space[p]
      BY <1>a, <3>1, <1>t DEF Admit
    <3>3. /\ admitted' = [admitted EXCEPT ![NewPid] = dyn]
          /\ isolated' = [isolated EXCEPT ![NewPid] = iso]
      BY <1>a DEF Admit
    <3>4. /\ admitted'[NewPid] = dyn /\ isolated'[NewPid] = iso
          /\ \A p \in Pid \ {NewPid} : admitted'[p] = admitted[p] /\ isolated'[p] = isolated[p]
      BY <3>1, <3>3, <1>t, Zenon
    <3> QED
      BY <3>1, <3>2, <3>4
  <2>2. UNCHANGED <<faulted, isolation_proven>>
    BY <1>a DEF proofVars
  <2>3. \A a \in faulted' : Evidence(a)'
    BY <2>1, <2>2 DEF IsolationInv, Evidence
  <2>4. IsolationUniform'
    <3>1. \A p \in 1..len' : p = NewPid \/ p \in 1..len
      BY <2>1, <1>t DEF NewPid
    <3>2. \A p \in 1..len : p # NewPid
      BY <1>t DEF NewPid
    <3> QED
      BY <2>1, <2>2, <3>1, <3>2, <1>a, <1>v DEF IsolationInv, IsolationUniform
  <2>5. IsolationGate'
    BY <2>1, <2>2, <1>a DEF IsolationInv, IsolationGate
  <2>6. \A p \in Pid : pstate'[p] = "ABSENT" => ~admitted'[p]
    BY <2>1, <1>a DEF IsolationInv
  <2> QED
    BY <2>2, <2>3, <2>4, <2>5, <2>6 DEF IsolationInv
<1>1. ASSUME NEW a \in App, RunApp(a) PROVE IsolationInv'
  <2>1. \/ Admit(a, "RUNNING", "none", "none", FALSE, FALSE)
        \/ Admit(a, "REJECTED", "not_found_or_unverified", "none", FALSE, FALSE)
    BY <1>1, Admissions
  <2>2. UNCHANGED proofVars /\ HasSlot
    BY <1>1 DEF RunApp
  <2>3. "none" # "private"
    OBVIOUS
  <2> QED
    BY <2>1, <2>2, <2>3, <1>a, Zenon
<1>2. ASSUME NEW a \in App, SpawnApp(a) PROVE IsolationInv'
  <2>1. \/ Admit(a, "READY", "none", space_of(a), isolation_proven /\ space_of(a) = "private", FALSE)
        \/ Admit(a, "REJECTED", "not_found_or_unverified", "none", FALSE, FALSE)
    BY <1>2, Admissions
  <2>2. UNCHANGED proofVars /\ HasSlot
    BY <1>2 DEF SpawnApp
  <2>3. "none" # "private" /\ (isolation_proven /\ space_of(a) = "private") \in BOOLEAN
    OBVIOUS
  <2> QED
    BY <2>1, <2>2, <2>3, <1>a, Zenon
<1>g. ASSUME NEW b, NEW iso \in BOOLEAN, HasSlot, AdmitDynamic(b, iso), UNCHANGED proofVars,
             isolation_proven /\ space_of(b) = "private" => iso,
             iso => isolation_proven \/ b = V39App
      PROVE  IsolationInv'
  <2>1. \/ iso /\ Admit(b, "READY", "none", space_of(b), iso, TRUE)
        \/ ~iso /\ Admit(b, "REJECTED", "isolation_not_proven", space_of(b), iso, TRUE)
    BY <1>g, Admissions
  <2> QED
    BY <2>1, <1>g, <1>a
<1>3. ASSUME NEW a \in App, LoadDynamicApp(a) PROVE IsolationInv'
  BY <1>3, <1>g, <1>t DEF LoadDynamicApp
<1>4. CASE RunV39StagedApp
  <2>1. CASE HasSlot
    BY <1>4, <2>1, <1>g DEF RunV39StagedApp
  <2>2. CASE ~HasSlot
    BY <1>4, <2>2, <1>u DEF RunV39StagedApp
  <2> QED
    BY <2>1, <2>2
<1>5. ASSUME NEW n \in {1, DemoSteps}, SchedCommand(n) PROVE IsolationInv'
  BY <1>5, <1>u DEF SchedCommand
<1>6. CASE Panic
  BY <1>6, <1>u DEF Panic
<1>7. CASE SchedulerStep
  <2>1. \A i \in DOMAIN run_queue : run_queue[i] \in Pid
    BY <1>f DEF TypeOK, SchedTypeOK
  <2>2. UNCHANGED <<len, app, exit_status, admitted, space, isolated, faulted, isolation_proven>>
    BY <1>7 DEF SchedulerStep, proofVars
  <2>3. CASE select_next_at(run_queue) = {}
    BY <1>7, <2>2, <2>3, <1>w DEF SchedulerStep
  <2>4. CASE select_next_at(run_queue) # {}
    <3>1. PICK i \in select_next_at(run_queue) :
              pstate' = [pstate EXCEPT ![run_queue[i]] = mark_scheduled(pstate[run_queue[i]])]
      BY <1>7, <2>4 DEF SchedulerStep
    <3>2. run_queue[i] \in Pid
      BY <2>1, <3>1 DEF select_next_at
    <3> QED
      BY <2>2, <3>1, <3>2, <1>t, <1>w DEF mark_scheduled
  <2> QED
    BY <2>3, <2>4
<1>8. CASE Dispatch
  <2>1. /\ frame.pid \in Pid
        /\ UNCHANGED <<len, app, exit_status, admitted, space, isolated, faulted, isolation_proven>>
    BY <1>8, <1>p DEF Dispatch, proofVars
  <2>2. \/ pstate' = pstate
        \/ pstate' = [pstate EXCEPT ![frame.pid] = mark_rejected(pstate[frame.pid])]
    BY <1>8 DEF Dispatch
  <2> QED
    BY <2>1, <2>2, <1>t, <1>w DEF mark_rejected
<1>9. CASE EnterUser
  <2>1. frame.pid \in Pid
    BY <1>9, <1>p DEF EnterUser
  <2> QED
    BY <1>9, <2>1, <1>t, <1>w DEF EnterUser, mark_running, proofVars
<1>e. ASSUME frame.pid \in Pid, Finish(frame.pid),
             UNCHANGED <<len, app, admitted, space, isolated, faulted, isolation_proven>>
      PROVE  IsolationInv'
  <2>1. PICK c, r, s :
          /\ s \in {mark_exited(pstate[frame.pid]), mark_blocked(pstate[frame.pid])}
          /\ pstate' = [pstate EXCEPT ![frame.pid] = s]
          /\ exit_status' = [exit_status EXCEPT ![frame.pid] = status_of(frame.pid, s, c, r)]
    <3> DEFINE t == IF exits THEN mark_exited(pstate[frame.pid]) ELSE mark_blocked(pstate[frame.pid])
    <3>1. /\ pstate' = [pstate EXCEPT ![frame.pid] = t]
          /\ exit_status' = [exit_status EXCEPT ![frame.pid] =
                                status_of(frame.pid, t, exit_code, final_reason)]
      BY <1>e DEF Finish
    <3>2. t \in {mark_exited(pstate[frame.pid]), mark_blocked(pstate[frame.pid])}
      OBVIOUS
    <3> QED
      BY <3>1, <3>2, Zenon
  <2> QED
    BY <1>e, <2>1, <1>t, <1>w DEF mark_exited, mark_blocked, status_of
<1>10. CASE ScheduledReturn
  <2>1. /\ UNCHANGED <<len, app, admitted, space, isolated, faulted, isolation_proven>>
        /\ frame.pid \in Pid
    BY <1>10, <1>p DEF ScheduledReturn, proofVars
  <2>2. CASE requeues
    BY <1>10, <2>1, <2>2, <1>w DEF ScheduledReturn
  <2>3. CASE ~requeues
    BY <1>10, <2>1, <2>3, <1>e DEF ScheduledReturn
  <2> QED
    BY <2>2, <2>3
<1>11. CASE RunReturn
  BY <1>11, <1>p, <1>e DEF RunReturn, proofVars
<1>12. CASE UserCompute
  BY <1>12, <1>u DEF UserCompute
<1>13. ASSUME NEW c \in ExitCodes, SysExit(c) PROVE IsolationInv'
  BY <1>13, <1>u DEF SysExit
<1>y. ASSUME active_pid # 0, mode = "user",
             UNCHANGED <<len, app, exit_status, admitted, space, isolated, faulted, isolation_proven>>,
             NEW s \in {"READY", "RUNNING"}, pstate' = [pstate EXCEPT ![active_pid] = s]
      PROVE  IsolationInv'
  BY <1>y, <1>p, <1>r, <1>t, <1>w
<1>14. CASE SysYield
  <2>1. active_pid # 0 /\ mode = "user" /\ pstate[active_pid] = "RUNNING"
    BY <1>14, <1>p, <1>r DEF SysYield, InRing3
  <2> QED
    BY <1>14, <2>1, <1>y DEF SysYield, proofVars, mark_yielded, mark_ready
<1>15. CASE TimerTick
  <2>1. active_pid # 0 /\ mode = "user" /\ pstate[active_pid] = "RUNNING"
    BY <1>15, <1>p, <1>r DEF TimerTick, InRing3
  <2>2. CASE quantum_expired(ticks_after(quantum_ticks))
    BY <1>15, <2>1, <2>2, <1>y DEF TimerTick, proofVars, mark_preempted, mark_ready
  <2>3. CASE ~quantum_expired(ticks_after(quantum_ticks))
    BY <1>15, <2>3, <1>w DEF TimerTick, proofVars
  <2> QED
    BY <2>2, <2>3
<1>16. ASSUME NEW r \in Exceptions, UserException(r) PROVE IsolationInv'
  BY <1>16, <1>u DEF UserException
<1>17. CASE PageFault
  <2>1. CASE active_pid = 0
    BY <1>17, <2>1, <1>w DEF PageFault, proofVars
  <2>2. CASE active_pid # 0
    <3> DEFINE p == active_pid
               complete == proof_complete(faulted') /\ ~isolation_proven
    <3>1. p = frame.pid /\ p \in Pid /\ pstate[p] = "RUNNING"
      BY <1>17, <2>2, <1>p, <1>r DEF PageFault, InRing3
    <3>2. /\ pstate' = [pstate EXCEPT ![p] = "BLOCKED"]
          /\ exit_status' = [exit_status EXCEPT ![p] = status_of(p, pstate'[p], 1, "page_fault")]
          /\ faulted' = faulted \cup ({app[p]} \cap ProofApps)
          /\ isolation_proven' = (isolation_proven \/ complete)
          /\ isolated' = [q \in Pid |-> isolated[q] \/ (complete /\ isolates(q) /\ space[q] = "private")]
          /\ UNCHANGED <<len, app, admitted, space>>
      BY <1>17, <2>2, <3>1 DEF PageFault, mark_blocked
    <3>3. /\ pstate'[p] = "BLOCKED" /\ exit_status'[p].reason = "page_fault"
          /\ \A q \in Pid : q # p => pstate'[q] = pstate[q] /\ exit_status'[q] = exit_status[q]
      BY <3>1, <3>2, <1>t DEF status_of
    <3>4. \A a \in faulted : Evidence(a)'
      BY <3>1, <3>2, <3>3 DEF IsolationInv, Evidence
    <3>5. ASSUME NEW a, a = app[p] PROVE Evidence(a)'
      BY <3>1, <3>2, <3>3, <3>5 DEF Evidence
    <3>6. \A a \in faulted' : Evidence(a)'
      BY <3>2, <3>4, <3>5
    <3>7. isolation_proven' => ProofApps \subseteq faulted'
      BY <3>2 DEF IsolationInv, proof_complete
    <3>8. IsolationUniform'
      <4>1. ASSUME isolation_proven', NEW q \in 1..len, space[q] = "private" PROVE isolated'[q]
        <5>1. isolated'[q] = (isolated[q] \/ (complete /\ isolates(q) /\ space[q] = "private"))
          BY <3>2, <4>1, <1>v, Zenon
        <5>2. isolates(q)
          BY <1>t DEF isolates
        <5>3. isolation_proven \/ complete
          BY <3>2, <4>1, Zenon
        <5> QED
          BY <4>1, <5>1, <5>2, <5>3 DEF IsolationInv, IsolationUniform
      <4> QED
        BY <3>2, <4>1 DEF IsolationUniform
    <3>9. IsolationGate'
      BY <3>1, <3>2, <3>3, <1>t DEF IsolationInv, IsolationGate
    <3>10. \A q \in Pid : pstate'[q] = "ABSENT" => ~admitted'[q]
      BY <3>2, <3>3 DEF IsolationInv
    <3> QED
      BY <3>6, <3>7, <3>8, <3>9, <3>10 DEF IsolationInv
  <2> QED
    BY <2>1, <2>2
<1>18. CASE UNCHANGED vars
  BY <1>18, <1>u DEF vars
<1> QED
  BY <1>1, <1>2, <1>3, <1>4, <1>5, <1>6, <1>7, <1>8, <1>9, <1>10, <1>11, <1>12, <1>13,
     <1>14, <1>15, <1>16, <1>17, <1>18 DEF Next, Halted

\* The isolation receipt is emitted only when every proof application has a process that a
\* page fault blocked, it then holds for every private address space, and no dynamic
\* application but the staged one is queued without it (IsolationProved), for any set of
\* applications.
THEOREM IsolationHolds == Spec => []IsolationProved
<1>1. Init => IsolationInv
  BY DEF Init, IsolationInv, IsolationUniform, IsolationGate
<1>2. IsolationInv => IsolationProved
  BY DEF IsolationInv, Evidence, IsolationProved, IsolationEarned
<1> QED
  BY <1>1, <1>2, InvInvariant, IsolationStep, PTL DEF Spec
=============================================================================
