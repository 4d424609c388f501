---------------------------- MODULE KernelState ----------------------------
(***************************************************************************)
(* The user-space kernel of bogvm/kernel.py as a file store: state.json,   *)
(* the receipts and processes directories and the system call log.  Every  *)
(* command reads state.json, works on its copy for as long as its          *)
(* application or system call takes, writes its receipt and then writes    *)
(* the copy back.  Commands are processes of their own and may die.        *)
(***************************************************************************)
EXTENDS Integers, Sequences, FiniteSets, SequencesExt

CONSTANTS
    Command,        \* the `bog kernel' processes
    Operation,      \* what a command asks for
    MaxReceipts,    \* bound on the receipts
    MaxCrashes,
    Absent

\* state.json as the commands write it.
States ==
    [format : {"7.0", "8.0"}, booted : BOOLEAN, process_sequence : Nat, processes : SUBSET Nat,
     receipt_sequence : Nat, syscall_count : Nat,
     receipts : Seq([name : [sequence : Nat, operation : Operation], id : Nat,
                     status : {"completed", "blocked"}])]

\* What the constants are; the MC modules assume it of each instance.
KernelAssumption ==
    /\ Operation \subseteq {"boot", "status", "run", "run-brokered", "syscall-read",
                            "syscall-write", "syscall-unknown", "replay"}
    /\ MaxReceipts \in Nat /\ MaxCrashes \in Nat
    /\ Absent \notin States     \* a missing state.json is no state

VARIABLES
    state,          \* state.json
    receipts,       \* receipts directory: name -> number of the command that wrote it
    processes,      \* processes directory: process id -> the same
    log,            \* syscall_log.jsonl: the "sequence" of each line
    commands,       \* where each command is, with its copy of the state
    issued,         \* history: number of commands begun
    emitted,        \* history: number of receipts written
    crashes         \* history

files == <<state, receipts, processes, log>>
vars  == <<files, commands, issued, emitted, crashes>>

Fresh(booted) ==
    [format |-> "8.0", booted |-> booted, process_sequence |-> 0, processes |-> {},
     receipt_sequence |-> 0, receipts |-> <<>>, syscall_count |-> 0]

Idle == [at |-> "idle"]

IsSyscall(op) == op \in {"syscall-read", "syscall-write", "syscall-unknown"}
IsRun(op)     == op \in {"run", "run-brokered"}

\* _read_state upgrades a state of v7 and writes it back.
Migrated == [state EXCEPT !.format = "8.0"]
IsBooted == IF state = Absent THEN FALSE ELSE state.booted
-----------------------------------------------------------------------------
Goto(c, at, id, op, copy, status) ==
    commands' = [commands EXCEPT ![c] = [at |-> at, id |-> id, op |-> op, copy |-> copy, status |-> status]]

Start(c, at, op, copy, status) ==
    /\ commands[c] = Idle /\ issued < MaxReceipts
    /\ issued' = issued + 1
    /\ Goto(c, at, issued + 1, op, copy, status)

Resume(c, at, copy, status) ==
    Goto(c, at, commands[c].id, commands[c].op, copy, status)

\* boot: a missing state is created; the copy is written before the receipt.
Boot(c) ==
    /\ "boot" \in Operation
    /\ LET copy == IF state = Absent THEN Fresh(TRUE) ELSE [Migrated EXCEPT !.booted = TRUE]
       IN  state' = copy /\ Start(c, "receipt", "boot", copy, "completed")
    /\ UNCHANGED <<receipts, processes, log, emitted, crashes>>

\* _require_booted_state fails: the command writes a state and a blocked receipt.
Unbooted(c) ==
    /\ ~IsBooted
    /\ \E op \in Operation \ {"boot"} :
          LET copy == IF state = Absent THEN Fresh(FALSE) ELSE Migrated
          IN  state' = copy /\ Start(c, "receipt", op, copy, "blocked")
    /\ UNCHANGED <<receipts, processes, log, emitted, crashes>>

\* _require_booted_state succeeds; a run takes the next process id in its copy, status writes it.
Booted(c) ==
    /\ IsBooted
    /\ \E op \in Operation \ {"boot"} :
          /\ state' = Migrated
          /\ Start(c, IF op \in {"status", "replay"} THEN "receipt" ELSE "work", op,
                   IF IsRun(op) THEN [Migrated EXCEPT !.process_sequence = @ + 1] ELSE Migrated, "completed")
    /\ UNCHANGED <<receipts, processes, log, emitted, crashes>>

\* The application runs, and its process record is written under the id taken above.
RunApp(c) ==
    /\ commands[c].at = "work" /\ IsRun(commands[c].op)
    /\ \E status \in {"completed", "blocked"} :
          LET pid == commands[c].copy.process_sequence
          IN  /\ processes' = [p \in DOMAIN processes \cup {pid} |->
                                  IF p = pid THEN commands[c].id ELSE processes[p]]
              /\ Resume(c, "receipt", [commands[c].copy EXCEPT !.processes = @ \cup {pid}], status)
    /\ UNCHANGED <<state, receipts, log, issued, emitted, crashes>>

\* _record_syscall: count the call in the copy and append the line of the log.
Syscall(c) ==
    /\ commands[c].at = "work" /\ IsSyscall(commands[c].op)
    /\ LET n == commands[c].copy.syscall_count + 1
       IN  /\ log' = Append(log, n)
           /\ \E status \in IF commands[c].op = "syscall-unknown" THEN {"blocked"} ELSE {"completed", "blocked"} :
                 Resume(c, "receipt", [commands[c].copy EXCEPT !.syscall_count = n], status)
    /\ UNCHANGED <<state, receipts, processes, issued, emitted, crashes>>

\* _record_receipt: the receipt file, named by number and operation ...
ReceiptName(c) == [sequence |-> commands[c].copy.receipt_sequence + 1, operation |-> commands[c].op]

Listing(c) ==
    [commands[c].copy EXCEPT !.receipt_sequence = @ + 1,
                             !.receipts = Append(@, [name |-> ReceiptName(c), id |-> commands[c].id,
                                                     status |-> commands[c].status])]

WriteReceipt_Once(c) ==
    /\ commands[c].at = "receipt"
    /\ receipts' = [n \in DOMAIN receipts \cup {ReceiptName(c)} |->
                       IF n \in DOMAIN receipts THEN receipts[n] ELSE commands[c].id]
    /\ emitted' = Append(emitted, commands[c].id)
    /\ Resume(c, "state", Listing(c), commands[c].status)
    /\ UNCHANGED <<state, processes, log, issued, crashes>>

WriteReceipt(c) ==
    /\ commands[c].at = "receipt"
    /\ receipts' = [n \in DOMAIN receipts \cup {ReceiptName(c)} |->
                       IF n = ReceiptName(c) THEN commands[c].id ELSE receipts[n]]
    /\ emitted' = Append(emitted, commands[c].id)
    /\ Resume(c, "state", Listing(c), commands[c].status)
    /\ UNCHANGED <<state, processes, log, issued, crashes>>

\* ... and then state.json, the whole copy.
WriteState(c) ==
    /\ commands[c].at = "state"
    /\ state' = commands[c].copy
    /\ commands' = [commands EXCEPT ![c] = Idle]
    /\ UNCHANGED <<receipts, processes, log, issued, emitted, crashes>>

Crash(c) ==
    /\ commands[c] # Idle /\ crashes < MaxCrashes
    /\ crashes' = crashes + 1
    /\ commands' = [commands EXCEPT ![c] = Idle]
    /\ UNCHANGED <<files, issued, emitted>>
-----------------------------------------------------------------------------
Init ==
    /\ state \in {Absent, [Fresh(TRUE) EXCEPT !.format = "7.0"]}
    /\ receipts = <<>> /\ processes = <<>> /\ log = <<>>
    /\ commands = [c \in Command |-> Idle]
    /\ issued = 0 /\ emitted = <<>> /\ crashes = 0

Next ==
    \E c \in Command :
        \/ Boot(c) \/ Unbooted(c) \/ Booted(c) \/ RunApp(c) \/ Syscall(c)
        \/ WriteReceipt(c) \/ WriteState(c) \/ Crash(c)

Spec == Init /\ [][Next]_vars
-----------------------------------------------------------------------------
Quiet == \A c \in Command : commands[c] = Idle

\* The counters stay in their ranges, and process ids count from one.
TypeOK ==
    /\ state # Absent => /\ state.receipt_sequence \in 0..MaxReceipts
                         /\ state.booted \in BOOLEAN
                         /\ state.processes \subseteq 1..MaxReceipts
    /\ issued \in 0..MaxReceipts /\ crashes \in 0..MaxCrashes

\* state.json lists receipts 1..n in order, each with the file its own command wrote,
\* although a death may leave an unlisted file whose number is used again.
ListedReceiptsIntact ==
    state # Absent =>
        /\ Len(state.receipts) = state.receipt_sequence
        /\ \A i \in DOMAIN state.receipts :
              LET r == state.receipts[i]
              IN  r.name.sequence = i /\ r.name \in DOMAIN receipts /\ receipts[r.name] = r.id

\* Without deaths the log numbers its lines as state.json counts them.
LogMatchesCount ==
    (Quiet /\ crashes = 0) =>
        /\ \A i \in DOMAIN log : log[i] = i
        /\ state # Absent => state.syscall_count = Len(log)

\* Without deaths state.json lists exactly the processes that have a record.
ProcessesListed ==
    (Quiet /\ crashes = 0 /\ state # Absent) => state.processes = DOMAIN processes

\* Without deaths state.json knows of every receipt once no command is under way.
ReceiptsListed ==
    (Quiet /\ crashes = 0) =>
        \A i \in DOMAIN emitted : \E j \in DOMAIN state.receipts : state.receipts[j].id = emitted[i]

\* state.json, the receipts, the process records and the system call log agree.
KernelFilesAgree ==
    TypeOK /\ ListedReceiptsIntact /\ LogMatchesCount /\ ProcessesListed /\ ReceiptsListed

----------------------------------------------------------------------------
\* What the documents say and the code does not do (README, section 6).

\* "Every kernel operation emits a receipt": a receipt once emitted keeps its file.
ReceiptsKept == \A i \in DOMAIN emitted : \E n \in DOMAIN receipts : receipts[n] = emitted[i]
============================================================================
