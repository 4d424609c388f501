---------------------------- MODULE BogScheduler ----------------------------
(***************************************************************************)
(* The process table, the FIFO round-robin scheduler and the Ring 3 entry  *)
(* and exit paths of BogKernel (kernel/bogk-core/src/lib.rs, ProcessRecord,*)
(* ProcessTable, Scheduler; kernel/bogk-kernel/src/main.rs, the run/spawn/ *)
(* load/sched shell commands, the timer, exception and exit/yield paths).  *)
(*                                                                         *)
(* The kernel is one thread of control.  `mode' is its position:           *)
(*   "shell"     the command loop of rust_start                            *)
(*   "selected"  select_next chose a PID, execute_scheduled_process begins *)
(*   "entering"  CR3 and the active PID are set, Ring 3 not yet entered    *)
(*   "user"      the CPU is in Ring 3                                      *)
(*   "returned"  longjmp_to_kernel came back to the setjmp_kernel call     *)
(*   "halted"    the panic command stopped the machine                     *)
(* Every gate of the IDT is an interrupt gate, so a handler is atomic.     *)
(* Receipts written to the serial port are left out.                       *)
(***************************************************************************)
EXTENDS Integers, Sequences

CONSTANTS
    MaxProcesses,   \* MAX_PROCESSES
    Quantum,        \* SCHEDULER_QUANTUM
    DemoSteps,      \* scheduler steps of the `sched demo' command
    EipCount,       \* a user program loops over this many program points
    App,            \* application paths a command may name
    Present,        \* paths bogfs_read finds
    Unmapped,       \* present paths whose code map_low_user_range refuses
    Dynamic,        \* present paths parse_dynamic_app accepts
    ProofApps,      \* the v31_bad_* applications of the isolation proof
    V39App,         \* the staged /apps/hello.bogapp of a v39 disk image
    ExitCodes,      \* arguments user programs give to sys_exit
    Exceptions      \* exceptions other than page faults that they raise

ASSUME SizesAssumption ==
    /\ MaxProcesses \in Nat \ {0}
    /\ Quantum \in Nat \ {0}
    /\ DemoSteps \in Nat \ {0}
    /\ EipCount \in Nat \ {0}

ASSUME AppAssumption ==
    /\ Present \subseteq App
    /\ Unmapped \subseteq Present
    /\ Dynamic \subseteq Present \ Unmapped
    /\ ProofApps \subseteq App
    /\ V39App \in App
    /\ "none" \notin App

ASSUME ProgramAssumption ==
    /\ ExitCodes \subseteq Int
    /\ Exceptions \subseteq {"gpf", "invalid_opcode", "user_exception"}

VARIABLES
    len,            \* PROCESS_TABLE.len; the next PID is len + 1
    app,            \* ProcessRecord.path
    pstate,         \* ProcessRecord.state, "ABSENT" beyond len
    exit_status,    \* ProcessRecord.exit_status
    context,        \* ProcessRecord.context
    admitted,       \* ProcessRecord.dynamic_loader_admitted
    space,          \* how far ProcessRecord.address_space was established
    isolated,       \* AddressSpaceMetadata.process_isolation_enforced
    run_queue,      \* SCHEDULER.run_queue[..run_queue_len]
    current_pid,    \* SCHEDULER.current_pid, 0 for None
    quantum_ticks,  \* SCHEDULER.quantum_ticks
    active_pid,     \* ACTIVE_SCHEDULED_PID
    cr3,            \* owner of the loaded page directory, 0 the kernel's
    block_reason,   \* ACTIVE_BLOCK_REASON
    faulted,        \* the proof applications whose *_FAULTED flag is set
    isolation_proven, \* PROCESS_ISOLATION_RECEIPT_EMITTED
    v39_pending,    \* V39_EXECUTION_PENDING && !V39_EXECUTION_DONE
    steps,          \* scheduler_step calls the current command still makes
    until,          \* PID whose completion ends the v39 loop, 0 for none
    mode,           \* position of the kernel, see above
    frame,          \* the activation that called setjmp_kernel
    exit_code,      \* the value longjmp_to_kernel passes
    cpu,            \* program point of the code in Ring 3
    shadow,         \* history: the program point each process has reached
    seen,           \* history: ticks the scheduled process has received, at most Quantum
    outcome         \* history: how each process left Ring 3 for good

recordVars == <<len, app, pstate, exit_status, context, admitted, space, isolated>>
schedVars  == <<run_queue, current_pid, quantum_ticks>>
proofVars  == <<faulted, isolation_proven>>
loopVars   == <<v39_pending, steps, until>>
userVars   == <<cpu, shadow, seen, outcome>>
vars == <<recordVars, schedVars, active_pid, cr3, block_reason, proofVars,
          loopVars, mode, frame, exit_code, userVars>>

Pid == 1..MaxProcesses

YIELD_EXIT_CODE   == 2147483646
PREEMPT_EXIT_CODE == 2147483645

NoExit    == [code |-> 0, reason |-> "none"]
NoContext == [valid |-> FALSE, eip |-> 0]
NoFrame   == [kind |-> "none", pid |-> 0]

Live     == {"CREATED", "VERIFIED", "READY", "SCHEDULED", "RUNNING", "YIELDED", "PREEMPTED"}
Terminal == {"EXITED", "BLOCKED", "REJECTED"}
Faults   == {"gpf", "page_fault", "invalid_opcode", "user_exception"}
Reasons  == {"none", "exit", "yield", "preempt", "nonzero_exit",
             "not_found_or_unverified", "isolation_not_proven"} \cup Faults

-----------------------------------------------------------------------------
(* The transition methods of ProcessRecord: each leaves the state alone    *)
(* when the record is not in a state the transition starts from.           *)

mark_verified(s)  == IF s = "CREATED" THEN "VERIFIED" ELSE s
mark_running(s)   == IF s \in {"VERIFIED", "SCHEDULED"} THEN "RUNNING" ELSE s
mark_ready(s)     == IF s \in {"VERIFIED", "YIELDED", "PREEMPTED"} THEN "READY" ELSE s
mark_scheduled(s) == IF s = "READY" THEN "SCHEDULED" ELSE s
mark_yielded(s)   == IF s = "RUNNING" THEN "YIELDED" ELSE s
mark_preempted(s) == IF s = "RUNNING" THEN "PREEMPTED" ELSE s

mark_exited(s)    == IF s = "RUNNING" THEN "EXITED" ELSE s
mark_blocked(s)   == IF s = "RUNNING" THEN "BLOCKED" ELSE s
mark_rejected(s)  == IF s \in {"CREATED", "VERIFIED"} THEN "REJECTED" ELSE s

\* exit_status is written by the transition that succeeds, and only by it.
status_of(p, s, code, reason) ==
    IF pstate[p] # s THEN [code |-> code, reason |-> reason] ELSE exit_status[p]

\* save_context: only a RUNNING record takes a new context.
save_context(s, old, eip) ==
    IF s = "RUNNING" THEN [valid |-> TRUE, eip |-> eip] ELSE old

restore_eligible(p) == pstate[p] = "SCHEDULED" /\ context[p].valid /\ space[p] # "none"

Queued(q) == {q[i] : i \in DOMAIN q}

\* Mutant: a requeued process goes to the head of the queue.
enqueue_front(q, p, s) ==
    IF Len(q) = MaxProcesses \/ p \in Queued(q) \/ s # "READY" THEN q ELSE <<p>> \o q
\* Scheduler::enqueue: full, already queued and not READY are refused.
enqueue(q, p, s) ==
    IF Len(q) = MaxProcesses \/ p \in Queued(q) \/ s # "READY" THEN q ELSE Append(q, p)

\* Positions of run_queue at which select_next stops: the first READY one.
select_next_at(q) ==
    {i \in DOMAIN q : /\ pstate[q[i]] = "READY"
                      /\ \A j \in 1..(i - 1) : pstate[q[j]] # "READY"}
\* Mutant: the selected entry stays at the head of the queue.
dequeue_keeping(q, i) == SubSeq(q, i, Len(q))
\* select_next shifts out every entry up to and including the selected one.
dequeue(q, i) == SubSeq(q, i + 1, Len(q))
-----------------------------------------------------------------------------
Init ==
    /\ len = 0
    /\ app = [p \in Pid |-> "none"]
    /\ pstate = [p \in Pid |-> "ABSENT"]
    /\ exit_status = [p \in Pid |-> NoExit]
    /\ context = [p \in Pid |-> NoContext]
    /\ admitted = [p \in Pid |-> FALSE]
    /\ space = [p \in Pid |-> "none"]
    /\ isolated = [p \in Pid |-> FALSE]
    /\ run_queue = <<>>
    /\ current_pid = 0
    /\ quantum_ticks = 0
    /\ active_pid = 0
    /\ cr3 = 0
    /\ block_reason = "none"
    /\ faulted = {}
    /\ isolation_proven = FALSE
    /\ v39_pending \in BOOLEAN
    /\ steps = 0
    /\ until = 0
    /\ mode = "shell"
    /\ frame = NoFrame
    /\ exit_code = 0
    /\ cpu = 0
    /\ shadow = [p \in Pid |-> 0]
    /\ seen = 0
    /\ outcome = [p \in Pid |-> NoExit]

\* The v39 loop stops early once its process completed.
StepsLeft == IF until # 0 /\ pstate[until] = "EXITED" THEN 0 ELSE steps

\* The command loop is ready for a command.
AtPrompt == mode = "shell" /\ StepsLeft = 0 /\ ~v39_pending

\* ProcessTable::create, when the table has a free record.
HasSlot == len < MaxProcesses
NewPid  == len + 1

\* What PROCESS_TABLE.create and the admission that follows leave in the
\* record of the new PID.
Admit(a, s, reason, sp, iso, dyn) ==
    /\ len' = NewPid
    /\ app' = [app EXCEPT ![NewPid] = a]
    /\ pstate' = [pstate EXCEPT ![NewPid] = s]
    /\ exit_status' = [exit_status EXCEPT ![NewPid] = [code |-> 0, reason |-> reason]]
    /\ space' = [space EXCEPT ![NewPid] = sp]
    /\ isolated' = [isolated EXCEPT ![NewPid] = iso]
    /\ admitted' = [admitted EXCEPT ![NewPid] = dyn]
    /\ UNCHANGED context

space_of(a) == IF a \in Unmapped THEN "identity" ELSE "private"
-----------------------------------------------------------------------------
(* Shell commands.                                                         *)

\* run <app>: execute on the shared code buffer, outside the scheduler.
RunApp(a) ==
    /\ AtPrompt /\ HasSlot
    /\ \/ /\ a \in Present
          /\ Admit(a, mark_running(mark_verified("CREATED")), "none", "none", FALSE, FALSE)
          /\ block_reason' = "none"
          /\ mode' = "user"
          /\ frame' = [kind |-> "run", pid |-> NewPid]
          /\ cpu' = 0
       \/ /\ a \notin Present
          /\ Admit(a, mark_rejected("CREATED"), "not_found_or_unverified", "none", FALSE, FALSE)
          /\ UNCHANGED <<block_reason, mode, frame, cpu>>
    /\ UNCHANGED <<schedVars, active_pid, cr3, proofVars, loopVars, exit_code, shadow, seen, outcome>>

\* spawn <app>: admit, build the address space, queue.
SpawnApp(a) ==
    /\ AtPrompt /\ HasSlot
    /\ \/ /\ a \in Present
          /\ Admit(a, mark_ready(mark_verified("CREATED")), "none", space_of(a),
                   isolation_proven /\ space_of(a) = "private", FALSE)
          /\ run_queue' = enqueue(run_queue, NewPid, pstate'[NewPid])
       \/ /\ a \notin Present
          /\ Admit(a, mark_rejected("CREATED"), "not_found_or_unverified", "none", FALSE, FALSE)
          /\ UNCHANGED run_queue
    /\ UNCHANGED <<current_pid, quantum_ticks, active_pid, cr3, block_reason, proofVars,
                   loopVars, mode, frame, exit_code, userVars>>

\* `if !process_isolation_enforced' guards the admission.
admission(iso) == iso

\* load_dynamic_app_command and run_v39_staged_app admit only an isolated
\* process; a process that is not isolated is rejected after its PID exists.
AdmitDynamic(a, iso) ==
    LET s == IF admission(iso) THEN mark_ready(mark_verified("CREATED"))
                               ELSE mark_rejected(mark_verified("CREATED"))
    IN /\ Admit(a, s, IF admission(iso) THEN "none" ELSE "isolation_not_proven", space_of(a), iso, TRUE)
       /\ run_queue' = enqueue(run_queue, NewPid, s)

\* load <app>: a missing or malformed file returns before a PID exists.
LoadDynamicApp(a) ==
    /\ AtPrompt /\ HasSlot
    /\ a \in Dynamic
    /\ AdmitDynamic(a, isolation_proven)
    /\ UNCHANGED <<current_pid, quantum_ticks, active_pid, cr3, block_reason, proofVars,
                   loopVars, mode, frame, exit_code, userVars>>

\* The staged v39 application is admitted once, marked isolated without the
\* proof receipt, and stepped until it completes.
RunV39StagedApp ==
    /\ mode = "shell" /\ v39_pending
    /\ v39_pending' = FALSE
    /\ IF HasSlot
       THEN /\ AdmitDynamic(V39App, space_of(V39App) = "private")
            /\ IF space_of(V39App) = "private"
               THEN steps' = MaxProcesses /\ until' = NewPid
               ELSE UNCHANGED <<steps, until>>
       ELSE UNCHANGED <<recordVars, run_queue, steps, until>>
    /\ UNCHANGED <<current_pid, quantum_ticks, active_pid, cr3, block_reason, proofVars,
                   mode, frame, exit_code, userVars>>

\* sched step makes one scheduler_step, sched demo DemoSteps of them.
SchedCommand(n) ==
    /\ AtPrompt
    /\ steps' = n
    /\ until' = 0
    /\ UNCHANGED <<recordVars, schedVars, active_pid, cr3, block_reason, proofVars,
                   v39_pending, mode, frame, exit_code, userVars>>

\* panic
Panic ==
    /\ AtPrompt
    /\ mode' = "halted"
    /\ UNCHANGED <<recordVars, schedVars, active_pid, cr3, block_reason, proofVars,
                   loopVars, frame, exit_code, userVars>>
-----------------------------------------------------------------------------
(* scheduler_step and execute_scheduled_process.                           *)

SchedulerStep ==
    /\ mode = "shell" /\ StepsLeft > 0
    /\ steps' = StepsLeft - 1
    /\ \/ \E i \in select_next_at(run_queue) :
            LET p == run_queue[i] IN
            /\ run_queue' = dequeue(run_queue, i)
            /\ current_pid' = p
            /\ pstate' = [pstate EXCEPT ![p] = mark_scheduled(@)]
            /\ mode' = "selected"
            /\ frame' = [kind |-> "sched", pid |-> p]
       \/ /\ select_next_at(run_queue) = {}
          /\ run_queue' = <<>>
          /\ current_pid' = 0
          /\ UNCHANGED <<pstate, mode, frame>>
    /\ UNCHANGED <<len, app, exit_status, context, admitted, space, isolated, quantum_ticks,
                   active_pid, cr3, block_reason, proofVars, v39_pending, until, exit_code,
                   userVars>>

\* execute_scheduled_process resets the quantum of the process it dispatches.
quantum_at_dispatch(q) == 0

\* Mutant: a restored context runs under whatever directory is loaded.
cr3_at_dispatch_first_only(p) == IF restore_eligible(p) THEN cr3 ELSE p
\* The directory execute_scheduled_process loads.
cr3_at_dispatch(p) == p

\* The process directory is loaded before Ring 3 is entered; a record with no
\* address space is refused (mark_rejected has no effect on SCHEDULED).
Dispatch ==
    /\ mode = "selected"
    /\ IF space[frame.pid] = "none"
       THEN /\ pstate' = [pstate EXCEPT ![frame.pid] = mark_rejected(@)]
            /\ current_pid' = 0
            /\ mode' = "shell"
            /\ frame' = NoFrame
            /\ UNCHANGED <<quantum_ticks, active_pid, cr3, block_reason>>
       ELSE /\ block_reason' = "none"
            /\ cr3' = cr3_at_dispatch(frame.pid)
            /\ active_pid' = frame.pid
            /\ quantum_ticks' = quantum_at_dispatch(quantum_ticks)
            /\ mode' = "entering"
            /\ UNCHANGED <<pstate, current_pid, frame>>
    /\ UNCHANGED <<len, app, exit_status, context, admitted, space, isolated, run_queue,
                   proofVars, loopVars, exit_code, userVars>>

\* restore_user_context resumes a saved context, enter_ring3 starts afresh.
EnterUser ==
    /\ mode = "entering"
    /\ cpu' = IF restore_eligible(frame.pid) THEN context[frame.pid].eip ELSE 0
    /\ pstate' = [pstate EXCEPT ![frame.pid] = mark_running(@)]
    /\ mode' = "user"
    /\ seen' = 0
    /\ UNCHANGED <<len, app, exit_status, context, admitted, space, isolated, schedVars,
                   active_pid, cr3, block_reason, proofVars, loopVars, frame, exit_code, shadow, outcome>>

\* Mutant: the exit code alone decides whether the process gave up the CPU.
requeues_by_code == exit_code \in {YIELD_EXIT_CODE, PREEMPT_EXIT_CODE}
\* The process yielded or was preempted: its code and its reason agree.
requeues ==
    \/ exit_code = YIELD_EXIT_CODE /\ block_reason = "yield"
    \/ exit_code = PREEMPT_EXIT_CODE /\ block_reason = "preempt"

\* The process is over: sys_exit or code 0 exits it, anything else blocks it.
exits == block_reason = "exit" \/ exit_code = 0
final_reason ==
    CASE exits                  -> "none"
      [] block_reason = "none"  -> "nonzero_exit"
      [] OTHER                  -> block_reason

Finish(p) ==
    LET s == IF exits THEN mark_exited(pstate[p]) ELSE mark_blocked(pstate[p])
    IN /\ pstate' = [pstate EXCEPT ![p] = s]
       /\ exit_status' = [exit_status EXCEPT ![p] = status_of(p, s, exit_code, final_reason)]

active_after_return == 0

\* The activation ends; its locals and the user registers are dead.
BackInShell ==
    /\ mode' = "shell"
    /\ frame' = NoFrame
    /\ exit_code' = 0
    /\ cpu' = 0
    /\ seen' = 0

\* The branches after setjmp_kernel returns for the second time.
ScheduledReturn ==
    /\ mode = "returned" /\ frame.kind = "sched"
    /\ IF requeues
       THEN /\ run_queue' = enqueue(run_queue, frame.pid, pstate[frame.pid])
            /\ UNCHANGED <<pstate, exit_status>>
       ELSE /\ Finish(frame.pid)
            /\ UNCHANGED run_queue
    /\ active_pid' = active_after_return
    /\ current_pid' = 0
    /\ BackInShell
    /\ UNCHANGED <<len, app, context, admitted, space, isolated, quantum_ticks, cr3,
                   block_reason, proofVars, loopVars, shadow, outcome>>

RunReturn ==
    /\ mode = "returned" /\ frame.kind = "run"
    /\ Finish(frame.pid)
    /\ BackInShell
    /\ UNCHANGED <<len, app, context, admitted, space, isolated, schedVars, active_pid, cr3,
                   block_reason, proofVars, loopVars, shadow, outcome>>
-----------------------------------------------------------------------------
(* Ring 3: user steps and the handlers that interrupt them.                *)

InRing3 == mode = "user"

\* The first instruction can be fetched: run code lives in a kernel buffer
\* that only the kernel's own directory leaves user accessible, a process in
\* its private pages.
CodeAccessible ==
    \/ frame.kind = "run" /\ cr3 = 0
    \/ frame.kind = "sched" /\ cr3 = frame.pid /\ space[frame.pid] = "private"

next_eip == (cpu + 1) % EipCount

\* The program point a process has reached.
Advance ==
    shadow' = IF frame.kind = "sched" THEN [shadow EXCEPT ![frame.pid] = next_eip] ELSE shadow

longjmp_to_kernel(code, reason) ==
    /\ block_reason' = reason
    /\ exit_code' = code
    /\ mode' = "returned"

\* History: the program in Ring 3 ended itself, or faulted.
Leaves(code, reason) ==
    outcome' = [outcome EXCEPT ![frame.pid] = [code |-> code, reason |-> reason]]

\* Computation, and every system call that neither exits nor yields.
UserCompute ==
    /\ InRing3 /\ CodeAccessible
    /\ cpu' = next_eip
    /\ Advance
    /\ UNCHANGED <<recordVars, schedVars, active_pid, cr3, block_reason, proofVars, loopVars,
                   mode, frame, exit_code, seen, outcome>>

SysExit(code) ==
    /\ InRing3 /\ CodeAccessible
    /\ longjmp_to_kernel(code, "exit")
    /\ Leaves(code, "none")
    /\ UNCHANGED <<recordVars, schedVars, active_pid, cr3, proofVars, loopVars, frame, cpu,
                   shadow, seen>>

\* Mutant: the record leaves RUNNING before its context is saved.
yield_context_late(p, eip) == save_context(mark_yielded(pstate[p]), context[p], eip)
\* The context sys_yield stores: the point after the system call.
yield_context(p, eip) == save_context(pstate[p], context[p], eip)

\* sys_yield without an active process returns an error: see UserCompute.
SysYield ==
    /\ InRing3 /\ CodeAccessible
    /\ active_pid # 0
    /\ context' = [context EXCEPT ![active_pid] = yield_context(active_pid, next_eip)]
    /\ pstate' = [pstate EXCEPT ![active_pid] = mark_ready(mark_yielded(@))]
    /\ cpu' = next_eip
    /\ Advance
    /\ longjmp_to_kernel(YIELD_EXIT_CODE, "yield")
    /\ UNCHANGED <<len, app, exit_status, admitted, space, isolated, schedVars, active_pid, cr3,
                   proofVars, loopVars, frame, seen, outcome>>

\* Mutant: the tick is not counted.
ticks_after_lost(q) == q
\* SCHEDULER.quantum_ticks += 1
ticks_after(q) == q + 1

\* SCHEDULER.quantum_ticks >= SCHEDULER_QUANTUM
quantum_expired(q) == q >= Quantum

\* handle_timer_interrupt; a tick outside Ring 3 or with no active process
\* changes only counters.
TimerTick ==
    /\ active_pid # 0 /\ InRing3
    /\ seen' = IF seen < Quantum THEN seen + 1 ELSE seen
    /\ IF quantum_expired(ticks_after(quantum_ticks))
       THEN /\ context' = [context EXCEPT ![active_pid] =
                              save_context(pstate[active_pid], @, cpu)]
            /\ pstate' = [pstate EXCEPT ![active_pid] = mark_ready(mark_preempted(@))]
            /\ quantum_ticks' = 0
            /\ longjmp_to_kernel(PREEMPT_EXIT_CODE, "preempt")
       ELSE /\ quantum_ticks' = ticks_after(quantum_ticks)
            /\ UNCHANGED <<context, pstate, block_reason, exit_code, mode>>
    /\ UNCHANGED <<len, app, exit_status, admitted, space, isolated, run_queue, current_pid,
                   active_pid, cr3, proofVars, loopVars, frame, cpu, shadow, outcome>>

\* common_exception_handler for an exception other than a page fault.
UserException(reason) ==
    /\ InRing3 /\ CodeAccessible
    /\ longjmp_to_kernel(1, reason)
    /\ Leaves(1, reason)
    /\ UNCHANGED <<recordVars, schedVars, active_pid, cr3, proofVars, loopVars, frame, cpu,
                   shadow, seen>>

\* Mutant: any one proof application is enough.
proof_complete_any(f) == f # {}
\* All four *_FAULTED flags are set.
proof_complete(f) == ProofApps \subseteq f

\* mark_process_isolation_proven is called for every PID of the table.
isolates(q) == q <= len

\* ... for a page fault.  The fault that completes the proof marks every
\* private address space isolated.
PageFault ==
    /\ InRing3
    /\ longjmp_to_kernel(1, "page_fault")
    /\ Leaves(1, "page_fault")
    /\ IF active_pid = 0
       THEN UNCHANGED <<pstate, exit_status, isolated, proofVars>>
       ELSE LET p == active_pid
                complete == proof_complete(faulted') /\ ~isolation_proven
            IN /\ pstate' = [pstate EXCEPT ![p] = mark_blocked(@)]
               /\ exit_status' = [exit_status EXCEPT ![p] = status_of(p, pstate'[p], 1, "page_fault")]
               /\ faulted' = faulted \cup ({app[p]} \cap ProofApps)
               /\ isolation_proven' = (isolation_proven \/ complete)
               /\ isolated' = [q \in Pid |-> isolated[q] \/ (complete /\ isolates(q) /\ space[q] = "private")]
    /\ UNCHANGED <<len, app, context, admitted, space, schedVars, active_pid, cr3, loopVars,
                   frame, cpu, shadow, seen>>

Halted == mode = "halted" /\ UNCHANGED vars

Next ==
    \/ \E a \in App : RunApp(a) \/ SpawnApp(a) \/ LoadDynamicApp(a)
    \/ RunV39StagedApp
    \/ \E n \in {1, DemoSteps} : SchedCommand(n)
    \/ Panic
    \/ SchedulerStep
    \/ Dispatch
    \/ EnterUser
    \/ ScheduledReturn
    \/ RunReturn
    \/ UserCompute
    \/ \E c \in ExitCodes : SysExit(c)
    \/ SysYield
    \/ TimerTick
    \/ \E r \in Exceptions : UserException(r)
    \/ PageFault
    \/ Halted

Spec == Init /\ [][Next]_vars

\* The timer interrupts Ring 3 code for ever (the programmable interval timer
\* is periodic and user EFLAGS keep IF set), and kernel code runs to its end.
\* Nothing makes the operator type a command or a program give up the CPU.
Fairness ==
    /\ WF_vars(TimerTick)
    /\ WF_vars(SchedulerStep)
    /\ WF_vars(Dispatch)
    /\ WF_vars(EnterUser)
    /\ WF_vars(ScheduledReturn)
    /\ WF_vars(RunReturn)

FairSpec == Spec /\ Fairness
-----------------------------------------------------------------------------
RecordTypeOK ==
    /\ len \in 0..MaxProcesses
    /\ app \in [Pid -> App \cup {"none"}]
    /\ pstate \in [Pid -> {"ABSENT"} \cup Live \cup Terminal]
    /\ exit_status \in [Pid -> [code : Int, reason : Reasons]]
    /\ context \in [Pid -> [valid : BOOLEAN, eip : 0..(EipCount - 1)]]
    /\ admitted \in [Pid -> BOOLEAN]
    /\ space \in [Pid -> {"none", "identity", "private"}]
    /\ isolated \in [Pid -> BOOLEAN]

SchedTypeOK ==
    /\ run_queue \in Seq(Pid)
    /\ current_pid \in 0..MaxProcesses
    /\ quantum_ticks \in 0..(Quantum - 1)
    /\ active_pid \in 0..MaxProcesses
    /\ cr3 \in 0..MaxProcesses
    /\ faulted \in SUBSET ProofApps
    /\ steps \in Nat
    /\ until \in 0..MaxProcesses

ActivationTypeOK ==
    /\ block_reason \in Reasons
    /\ mode \in {"shell", "selected", "entering", "user", "returned", "halted"}
    /\ frame \in [kind : {"none", "run", "sched"}, pid : 0..MaxProcesses]
    /\ exit_code \in Int
    /\ cpu \in 0..(EipCount - 1)
    /\ shadow \in [Pid -> 0..(EipCount - 1)]
    /\ seen \in Nat
    /\ outcome \in [Pid -> [code : Int, reason : Reasons]]

FlagTypeOK ==
    /\ isolation_proven \in BOOLEAN
    /\ v39_pending \in BOOLEAN

\* Every variable of the kernel has the type its declaration gives it; the
\* quantum counter stays below SCHEDULER_QUANTUM.
TypeOK == RecordTypeOK /\ SchedTypeOK /\ ActivationTypeOK /\ FlagTypeOK

\* The record whose yield or preemption the kernel has not yet requeued.
Returning(p) ==
    /\ mode = "returned" /\ frame = [kind |-> "sched", pid |-> p]
    /\ block_reason \in {"yield", "preempt"}

\* The run queue holds each READY process exactly once and nothing else; the
\* only READY process outside it is the one whose yield or preemption is being
\* returned (handle_timer_interrupt marks it READY, execute_scheduled_process
\* queues it after the longjmp).
ReadyIffQueued ==
    /\ \A p \in Pid : pstate[p] = "READY" <=> p \in Queued(run_queue) \/ Returning(p)
    /\ \A i, j \in DOMAIN run_queue : run_queue[i] = run_queue[j] => i = j
    /\ \A p \in Pid : Returning(p) => p \notin Queued(run_queue)

\* What the records, the frame and the scheduler's registers say of each other
\* at every position of the kernel; with ReadyIffQueued it is inductive.
RecordsMatch ==
    \A p \in Pid :
        /\ pstate[p] = "ABSENT" <=> p > len
        /\ pstate[p] \in {"ABSENT", "READY", "SCHEDULED", "RUNNING"} \cup Terminal
        /\ pstate[p] = "SCHEDULED" <=> mode \in {"selected", "entering"} /\ p = frame.pid
        /\ pstate[p] = "RUNNING" => mode \in {"user", "returned"} /\ p = frame.pid
        /\ pstate[p] = "READY" => space[p] # "none"

FrameMatches ==
    /\ mode \in {"shell", "halted"} => frame = NoFrame
    /\ mode \in {"selected", "entering"} => frame.kind = "sched"
    /\ mode \in {"user", "returned"} => frame.kind # "none"
    /\ frame.kind # "none" => frame.pid \in Pid
    /\ mode = "user" => pstate[frame.pid] = "RUNNING"
    /\ frame.kind = "sched" => space[frame.pid] # "none"
    /\ current_pid = (IF frame.kind = "sched" THEN frame.pid ELSE 0)
    /\ active_pid = (IF frame.kind = "sched" /\ mode # "selected" THEN frame.pid ELSE 0)
    /\ frame.kind = "sched" /\ mode # "selected" => cr3 = frame.pid

ReturnMatches ==
    mode = "returned" =>
        /\ block_reason \in {"exit", "yield", "preempt"} \cup Faults
        /\ block_reason \in {"yield", "preempt"} =>
              frame.kind = "sched" /\ pstate[frame.pid] = "READY"
        /\ block_reason = "yield" => exit_code = YIELD_EXIT_CODE
        /\ block_reason = "preempt" => exit_code = PREEMPT_EXIT_CODE
        /\ block_reason = "exit" => pstate[frame.pid] = "RUNNING"
        /\ block_reason \in Faults =>
              exit_code = 1 /\ pstate[frame.pid] \in {"RUNNING", "BLOCKED"}

\* The kernel's control state and the process records agree: only the process
\* of the open activation is SCHEDULED or RUNNING, the scheduler's current and
\* active PID and the loaded directory are its own, and the code passed to
\* longjmp_to_kernel is the one its reason calls for.
ControlMatches == RecordsMatch /\ FrameMatches /\ ReturnMatches

\* Whenever the command loop is back in control no process is lost between
\* states: each is queued or has terminated, no PID is current or active.  A
\* refused enqueue, or a sys_exit code equal to an internal return code, would
\* leave a process that can neither run again nor be reported as finished.
NoProcessStranded ==
    mode = "shell" =>
        /\ \A p \in 1..len : pstate[p] \in Terminal \/ p \in Queued(run_queue)
        /\ active_pid = 0 /\ current_pid = 0

\* A resumed program continues at exactly the point where its last yield or
\* preemption stopped it: save_context happens while the record is RUNNING.
ContextPreserved ==
    mode = "user" /\ frame.kind = "sched" => cpu = shadow[frame.pid]

\* Scheduled code runs under its own page directory, and the PID the timer,
\* the system calls and the page-fault handler act on is its own.
AddressSpaceMatches ==
    mode = "user" /\ frame.kind = "sched" =>
        cr3 = frame.pid /\ active_pid = frame.pid /\ current_pid = frame.pid

\* A process is charged only for ticks of its own time slice, so preemption
\* comes after a full quantum whatever its predecessor left behind.
QuantumIsOwn ==
    mode = "user" /\ frame.kind = "sched" => quantum_ticks = seen /\ seen < Quantum

\* The exit status recorded for a process is the way that process itself left
\* Ring 3: a timer tick, a fault or an exit of one process is never charged to
\* another, and a fault the exception handler recorded is not overwritten by
\* the return path that runs after it.
OutcomeIsOwn ==
    \A p \in Pid : pstate[p] \in {"EXITED", "BLOCKED"} =>
        /\ exit_status[p] = outcome[p]
        /\ pstate[p] = "EXITED" <=> outcome[p].reason = "none"

\* The point a process resumes at, the ticks that count against it and the outcome it is
\* recorded with are its own, however processes interleave (execute_scheduled_process,
\* handle_timer_interrupt, common_exception_handler).
AttributedToOwner == ContextPreserved /\ QuantumIsOwn /\ OutcomeIsOwn

\* Isolation is claimed only on evidence: every proof application has a process
\* that a page fault blocked.
IsolationEarned ==
    isolation_proven =>
        \A a \in ProofApps : \E p \in Pid :
            app[p] = a /\ pstate[p] = "BLOCKED" /\ exit_status[p].reason = "page_fault"

\* Once isolation is proven every private address space says so, those of
\* processes admitted before the proof and after it alike.
IsolationUniform ==
    isolation_proven => \A p \in 1..len : space[p] = "private" => isolated[p]

\* A process of the dynamic loader reaches the scheduler only with isolation
\* enforced; apart from the staged v39 application, only after the proof.
IsolationGate ==
    \A p \in Pid : admitted[p] /\ pstate[p] # "REJECTED" =>
        isolated[p] /\ (isolation_proven \/ app[p] = V39App)

\* The isolation claim rests on every proof fault, reaches every private address space,
\* and is what admits a dynamic application (common_exception_handler, load_dynamic_app_command).
IsolationProved == IsolationEarned /\ IsolationUniform /\ IsolationGate

\* Every dispatched process gives the CPU back: the timer preempts what does
\* not yield, exit or fault.
DispatchReturns == mode \in {"selected", "entering"} ~> mode = "shell"

\* Round robin starves nobody: as long as scheduler steps are made, a READY
\* process is eventually selected.
StarvationFree ==
    []<><<SchedulerStep>>_vars =>
        \A p \in Pid : pstate[p] = "READY" ~> pstate[p] # "READY"

-----------------------------------------------------------------------------
\* What the documents say and the code does not do (README, section 6).

\* docs/v27_process_model.md: a nonzero return advances to BLOCKED.
NonzeroReturnBlocks == \A p \in Pid : pstate[p] = "EXITED" => exit_status[p].code = 0

\* docs/v28_cooperative_scheduler.md: run preserves the direct execution path,
\* which needs the kernel's directory to be the one loaded.
RunUnderKernelMap == mode = "user" /\ frame.kind = "run" => CodeAccessible
=============================================================================
