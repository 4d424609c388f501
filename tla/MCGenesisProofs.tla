-------------------------- MODULE MCGenesisProofs --------------------------
(***************************************************************************)
(* The scenarios of MCGenesis, for any sizes: what the theorems about the  *)
(* components say of their specifications holds of every behaviour of the  *)
(* composition, because a scenario never changes and only its component    *)
(* moves.                                                                  *)
(***************************************************************************)
EXTENDS MCGenesis, FiniteSetTheorems, TLAPS

\* A behaviour of scenario "ledger" is one of its component.
LEMMA LedgerAlone ==
    /\ Spec /\ scenario = "ledger" => Ledger!Spec /\ [](scenario = "ledger")
    /\ Spec /\ ~(scenario = "ledger") => []~(scenario = "ledger")
<1>1. Init /\ scenario = "ledger" => Ledger!Init
  BY DEF Init
<1>2. UNCHANGED vars => UNCHANGED <<scenario, Ledger!vars>>
  BY DEF vars, ledgerVars, Ledger!vars, Ledger!files
<1>3. scenario = "ledger" /\ [Next]_vars => (scenario = "ledger")' /\ [Ledger!Next]_(Ledger!vars)
  BY <1>2 DEF Next, LedgerStep, KernelStep, RegistryStep, BootStep, MeshStep, SwarmStep
<1>4. ~(scenario = "ledger") /\ [Next]_vars => ~(scenario = "ledger")'
  BY DEF Next, vars, LedgerStep, KernelStep, RegistryStep, BootStep, MeshStep, SwarmStep
<1> QED
  BY <1>1, <1>3, <1>4, PTL DEF Spec, Ledger!Spec

\* A behaviour of scenario "ledger_torn" is one of its component.
LEMMA LedgerWithTorn ==
    /\ Spec /\ scenario = "ledger_torn" => LedgerTorn!Spec /\ [](scenario = "ledger_torn")
    /\ Spec /\ ~(scenario = "ledger_torn") => []~(scenario = "ledger_torn")
<1>1. Init /\ scenario = "ledger_torn" => LedgerTorn!Init
  BY DEF Init
<1>2. UNCHANGED vars => UNCHANGED <<scenario, LedgerTorn!vars>>
  BY DEF vars, ledgerVars, LedgerTorn!vars, LedgerTorn!files
<1>3. scenario = "ledger_torn" /\ [Next]_vars => (scenario = "ledger_torn")' /\ [LedgerTorn!Next]_(LedgerTorn!vars)
  BY <1>2 DEF Next, LedgerStep, KernelStep, RegistryStep, BootStep, MeshStep, SwarmStep
<1>4. ~(scenario = "ledger_torn") /\ [Next]_vars => ~(scenario = "ledger_torn")'
  BY DEF Next, vars, LedgerStep, KernelStep, RegistryStep, BootStep, MeshStep, SwarmStep
<1> QED
  BY <1>1, <1>3, <1>4, PTL DEF Spec, LedgerTorn!Spec

\* A behaviour of scenario "ledger_two" is one of its component.
LEMMA LedgerShared ==
    /\ Spec /\ scenario = "ledger_two" => LedgerTwo!Spec /\ [](scenario = "ledger_two")
    /\ Spec /\ ~(scenario = "ledger_two") => []~(scenario = "ledger_two")
<1>1. Init /\ scenario = "ledger_two" => LedgerTwo!Init
  BY DEF Init
<1>2. UNCHANGED vars => UNCHANGED <<scenario, LedgerTwo!vars>>
  BY DEF vars, ledgerVars, LedgerTwo!vars, LedgerTwo!files
<1>3. scenario = "ledger_two" /\ [Next]_vars => (scenario = "ledger_two")' /\ [LedgerTwo!Next]_(LedgerTwo!vars)
  BY <1>2 DEF Next, LedgerStep, KernelStep, RegistryStep, BootStep, MeshStep, SwarmStep
<1>4. ~(scenario = "ledger_two") /\ [Next]_vars => ~(scenario = "ledger_two")'
  BY DEF Next, vars, LedgerStep, KernelStep, RegistryStep, BootStep, MeshStep, SwarmStep
<1> QED
  BY <1>1, <1>3, <1>4, PTL DEF Spec, LedgerTwo!Spec

\* A behaviour of scenario "kernel" is one of its component.
LEMMA KernelAlone ==
    /\ Spec /\ scenario = "kernel" => Kernel!Spec /\ [](scenario = "kernel")
    /\ Spec /\ ~(scenario = "kernel") => []~(scenario = "kernel")
<1>1. Init /\ scenario = "kernel" => Kernel!Init
  BY DEF Init
<1>2. UNCHANGED vars => UNCHANGED <<scenario, Kernel!vars>>
  BY DEF vars, kernelVars, Kernel!vars, Kernel!files
<1>3. scenario = "kernel" /\ [Next]_vars => (scenario = "kernel")' /\ [Kernel!Next]_(Kernel!vars)
  BY <1>2 DEF Next, LedgerStep, KernelStep, RegistryStep, BootStep, MeshStep, SwarmStep
<1>4. ~(scenario = "kernel") /\ [Next]_vars => ~(scenario = "kernel")'
  BY DEF Next, vars, LedgerStep, KernelStep, RegistryStep, BootStep, MeshStep, SwarmStep
<1> QED
  BY <1>1, <1>3, <1>4, PTL DEF Spec, Kernel!Spec

-----------------------------------------------------------------------------
\* No order of the writes of fs_write, rollback and checkout, by one process or by any
\* number of them, and no death between them leaves a root without its manifest and objects.
THEOREM RootsAlwaysRecoverable == Spec => []RootsRecoverable
<1>1. Ledger!Spec => []Ledger!RootsRecoverable
  BY LedgersAssumption, Ledger!RootsStayRecoverable
<1>2. LedgerTwo!Spec => []LedgerTwo!RootsRecoverable
  BY LedgersAssumption, LedgerTwo!RootsStayRecoverable
<1>3. /\ Ledger!RootsRecoverable /\ scenario = "ledger" => RootsRecoverable
      /\ LedgerTwo!RootsRecoverable /\ scenario = "ledger_two" => RootsRecoverable
      /\ ~(scenario = "ledger") /\ ~(scenario = "ledger_two") => RootsRecoverable
  BY DEF RootsRecoverable
<1> QED
  BY <1>1, <1>2, <1>3, LedgerAlone, LedgerShared, PTL

\* The ledger of one process, however many receipts it holds, is numbered and chained
\* (record), undisturbed sessions and portable proofs replay to the current root
\* (replay_session), and a file torn by a death is reported (`bog ledger verify').
THEOREM HistoryAlwaysReplays == Spec => []HistoryReplays
<1>1. Ledger!Spec => []Ledger!HistoryReplays
  BY LedgersAssumption, Ledger!HistoryHolds
<1>2. LedgerTorn!Spec => []LedgerTorn!HistoryReplays
  BY LedgersAssumption, LedgerTorn!HistoryHolds
<1>3. /\ Ledger!HistoryReplays /\ scenario = "ledger" => HistoryReplays
      /\ LedgerTorn!HistoryReplays /\ scenario = "ledger_torn" => HistoryReplays
      /\ ~(scenario = "ledger") /\ ~(scenario = "ledger_torn") => HistoryReplays
  BY DEF HistoryReplays
<1> QED
  BY <1>1, <1>2, <1>3, LedgerAlone, LedgerWithTorn, PTL

-----------------------------------------------------------------------------
(* The kernel simulator: one command at a time, which may die.             *)

\* What a command holds while it is under way.
Working ==
    [at : {"work", "receipt", "state"}, id : Nat, op : KernelOperations, copy : Kernel!States,
     status : {"completed", "blocked"}]

\* The receipts s lists are numbered from one and have their own files.
Intact(s) ==
    /\ Len(s.receipts) = s.receipt_sequence
    /\ \A i \in DOMAIN s.receipts :
          /\ s.receipts[i].name.sequence = i
          /\ s.receipts[i].name \in DOMAIN receipts
          /\ receipts[s.receipts[i].name] = s.receipts[i].id

\* No number is greater than the number of commands n.
Bounded(s, n) ==
    /\ s.receipt_sequence <= n /\ s.process_sequence <= n
    /\ s.processes \subseteq 1..n

\* s accounts for every line of the log, every process record and every receipt.
Accounts(s) ==
    /\ s.syscall_count = Len(log)
    /\ s.processes = DOMAIN processes
    /\ \A i \in DOMAIN emitted : \E j \in DOMAIN s.receipts : s.receipts[j].id = emitted[i]

NothingYet == log = <<>> /\ DOMAIN processes = {} /\ emitted = <<>>

\* state.json, and the copy of the command that is under way.
OnDisk == kernel_state # Absent => kernel_state \in Kernel!States /\ Intact(kernel_state) /\ Bounded(kernel_state, issued)

CopyHeld ==
    commands[Alone] # Kernel!Idle =>
        /\ commands[Alone] \in Working /\ issued > 0 /\ kernel_state # Absent
        /\ Bounded(commands[Alone].copy, issued) /\ Intact(commands[Alone].copy)
        /\ commands[Alone].at # "state" => /\ commands[Alone].copy.receipt_sequence < issued
                                     /\ commands[Alone].copy.receipt_sequence = kernel_state.receipt_sequence
        /\ commands[Alone].at = "work" /\ Kernel!IsRun(commands[Alone].op) => commands[Alone].copy.process_sequence > 0

\* Without deaths the copy under way, or else state.json, accounts for everything.
Accounted ==
    kernel_crashes = 0 => IF commands[Alone] # Kernel!Idle THEN Accounts(commands[Alone].copy)
                   ELSE IF kernel_state # Absent THEN Accounts(kernel_state) ELSE NothingYet

KernelHistories ==
    /\ issued \in 0..MaxReceipts /\ kernel_crashes \in 0..MaxDeaths
    /\ log \in Seq(Nat) /\ emitted \in Seq(Nat)
    /\ kernel_crashes = 0 => \A i \in DOMAIN log : log[i] = i

KernelShape == DOMAIN commands = {Alone}

KernelInv == KernelHistories /\ KernelShape /\ OnDisk /\ CopyHeld /\ Accounted

\* t is s but for fields that count nothing.
Same(t, s) ==
    /\ t.process_sequence = s.process_sequence /\ t.processes = s.processes
    /\ t.receipt_sequence = s.receipt_sequence /\ t.receipts = s.receipts /\ t.syscall_count = s.syscall_count

\* Such a state lists, bounds and accounts for the same.
LEMMA SameKeeps ==
    ASSUME NEW s, NEW t, Same(t, s)
    PROVE  /\ Intact(s) => Intact(t)
           /\ \A n : Bounded(s, n) => Bounded(t, n)
           /\ Accounts(s) => Accounts(t)
  BY DEF Same, Intact, Bounded, Accounts

\* _read_state changes the format only.
LEMMA MigratedSame ==
    ASSUME kernel_state \in Kernel!States
    PROVE  Kernel!Migrated \in Kernel!States /\ Same(Kernel!Migrated, kernel_state)
  BY DEF Kernel!Migrated, Kernel!States, Same

\* A fresh state accounts for nothing.
LEMMA FreshAccounts ==
    ASSUME NEW b \in BOOLEAN
    PROVE  /\ Kernel!Fresh(b) \in Kernel!States /\ Intact(Kernel!Fresh(b)) /\ \A n \in Nat : Bounded(Kernel!Fresh(b), n)
           /\ NothingYet => Accounts(Kernel!Fresh(b))
<1> DEFINE f == Kernel!Fresh(b)
<1>1. f \in Kernel!States
  BY DEF Kernel!Fresh, Kernel!States
<1>2. /\ f.process_sequence = 0 /\ f.processes = {} /\ f.receipt_sequence = 0
      /\ f.receipts = <<>> /\ f.syscall_count = 0
  BY DEF Kernel!Fresh
<1> HIDE DEF f
<1>3. Intact(f) /\ \A n \in Nat : Bounded(f, n)
  BY <1>2 DEF Intact, Bounded
<1>4. NothingYet => Accounts(f)
  BY <1>2 DEF NothingYet, Accounts
<1> QED
  BY <1>1, <1>3, <1>4 DEF f

\* More commands leave more room.
LEMMA BoundedMore ==
    ASSUME NEW s \in Kernel!States, NEW n \in Nat, Bounded(s, n)
    PROVE  Bounded(s, n + 1)
<1>1. s.receipt_sequence \in Nat /\ s.process_sequence \in Nat
  BY DEF Kernel!States
<1>2. s.receipt_sequence <= n + 1 /\ s.process_sequence <= n + 1
  BY <1>1 DEF Bounded
<1>3. s.processes \subseteq 1..(n + 1)
  BY DEF Bounded
<1> QED
  BY <1>2, <1>3 DEF Bounded

\* The command starts from a copy of what state.json says after it was read.
LEMMA StartInv ==
    ASSUME Kernel!KernelAssumption, KernelInv,
           NEW at \in {"work", "receipt"}, NEW op \in KernelOperations, NEW copy \in Kernel!States, NEW status \in {"completed", "blocked"},
           Kernel!Start(Alone, at, op, copy, status),
           kernel_state' \in Kernel!States, Intact(kernel_state'), Bounded(kernel_state', issued), kernel_crashes = 0 => Accounts(kernel_state'),
           Same(copy, kernel_state') \/ (copy = [kernel_state' EXCEPT !.process_sequence = @ + 1]),
           at = "work" /\ Kernel!IsRun(op) => copy = [kernel_state' EXCEPT !.process_sequence = @ + 1],
           UNCHANGED <<receipts, processes, log, emitted, kernel_crashes>>
    PROVE  KernelInv'
<1>1. PICK s : s = kernel_state'
  OBVIOUS
<1>2. s \in Kernel!States /\ Intact(s) /\ Bounded(s, issued) /\ (kernel_crashes = 0 => Accounts(s)) /\ s # Absent
  BY <1>1 DEF Kernel!KernelAssumption
<1>3. issued \in Nat /\ issued + 1 \in 0..MaxReceipts /\ issued' = issued + 1 /\ MaxReceipts \in Nat
  BY DEF KernelInv, KernelHistories, Kernel!Start, Kernel!KernelAssumption
<1> DEFINE r == [at |-> at, id |-> issued + 1, op |-> op, copy |-> copy, status |-> status]
<1>4. commands' = [commands EXCEPT ![Alone] = r]
  BY DEF Kernel!Start, Kernel!Goto
<1>5. r \in Working /\ r.at = at /\ r.op = op /\ r.copy = copy
  BY <1>3 DEF Working
<1> HIDE DEF r
<1>6. DOMAIN commands' = {Alone} /\ commands'[Alone] = r
  BY <1>4 DEF KernelInv, KernelShape
<1>7. /\ copy.processes = s.processes /\ copy.receipt_sequence = s.receipt_sequence
      /\ copy.receipts = s.receipts /\ copy.syscall_count = s.syscall_count
      /\ copy.process_sequence \in {s.process_sequence, s.process_sequence + 1}
      /\ at = "work" /\ Kernel!IsRun(op) => copy.process_sequence = s.process_sequence + 1
  BY <1>1, <1>2 DEF Same, Kernel!States
<1>8. s.process_sequence \in Nat /\ s.receipt_sequence \in Nat
  BY <1>2 DEF Kernel!States
<1>9. Bounded(s, issued + 1)
  BY <1>2, <1>3, BoundedMore
<1>10. Bounded(copy, issued + 1) /\ copy.receipt_sequence < issued + 1
  BY <1>2, <1>3, <1>7, <1>8, <1>9 DEF Bounded
<1>11. Intact(copy) /\ (kernel_crashes = 0 => Accounts(copy))
  BY <1>2, <1>7 DEF Intact, Accounts
<1>12. KernelHistories' /\ KernelShape'
  BY <1>3, <1>6 DEF KernelInv, KernelHistories, KernelShape
<1>13. OnDisk'
  BY <1>1, <1>2, <1>3, <1>9 DEF OnDisk, Intact, Bounded
<1>14. at = "work" /\ Kernel!IsRun(op) => copy.process_sequence > 0
  BY <1>7, <1>8
<1>15. CopyHeld'
  BY <1>1, <1>2, <1>3, <1>5, <1>6, <1>7, <1>10, <1>11, <1>14 DEF CopyHeld, Intact, Bounded
<1>16. commands'[Alone] # Kernel!Idle
  BY <1>5, <1>6 DEF Kernel!Idle
<1>17. Accounted'
  BY <1>5, <1>6, <1>11, <1>16 DEF Accounted, Accounts
<1> QED
  BY <1>12, <1>13, <1>15, <1>17 DEF KernelInv

\* What state.json says once it has been read, migrated and, if missing, created.
LEMMA ReadSound ==
    ASSUME Kernel!KernelAssumption, KernelInv, commands[Alone] = Kernel!Idle, NEW b \in BOOLEAN,
           NEW s, s = (IF kernel_state = Absent THEN Kernel!Fresh(b) ELSE Kernel!Migrated)
    PROVE  s \in Kernel!States /\ Intact(s) /\ Bounded(s, issued) /\ (kernel_crashes = 0 => Accounts(s))
<1>1. issued \in Nat /\ OnDisk /\ Accounted
  BY DEF KernelInv, KernelHistories, Kernel!KernelAssumption
<1>2. CASE kernel_state = Absent
  BY <1>1, <1>2, FreshAccounts DEF Accounted
<1>3. CASE kernel_state # Absent
  <2>1. kernel_state \in Kernel!States /\ Intact(kernel_state) /\ Bounded(kernel_state, issued)
    BY <1>1, <1>3 DEF OnDisk
  <2>2. kernel_crashes = 0 => Accounts(kernel_state)
    BY <1>1, <1>3 DEF Accounted
  <2>3. s = Kernel!Migrated
    BY <1>3
  <2> QED
    BY <2>1, <2>2, <2>3, MigratedSame, SameKeeps
<1> QED
  BY <1>2, <1>3

\* The commands that begin.
LEMMA BeginInv ==
    ASSUME Kernel!KernelAssumption, KernelInv, Kernel!Boot(Alone) \/ Kernel!Unbooted(Alone) \/ Kernel!Booted(Alone)
    PROVE  KernelInv'
<1>1. TRUE \in BOOLEAN /\ FALSE \in BOOLEAN
  OBVIOUS
<1>2. CASE Kernel!Boot(Alone)
  <2>1. PICK s : s = (IF kernel_state = Absent THEN Kernel!Fresh(TRUE) ELSE Kernel!Migrated)
    OBVIOUS
  <2>2. PICK copy : /\ copy = (IF kernel_state = Absent THEN Kernel!Fresh(TRUE) ELSE [Kernel!Migrated EXCEPT !.booted = TRUE])
                    /\ kernel_state' = copy /\ Kernel!Start(Alone, "receipt", "boot", copy, "completed")
    BY <1>2 DEF Kernel!Boot
  <2>3. commands[Alone] = Kernel!Idle /\ "boot" \in KernelOperations /\ UNCHANGED <<receipts, processes, log, emitted, kernel_crashes>>
    BY <1>2, <2>2 DEF Kernel!Boot, Kernel!Start
  <2>4. s \in Kernel!States /\ Intact(s) /\ Bounded(s, issued) /\ (kernel_crashes = 0 => Accounts(s))
    BY <1>1, <2>1, <2>3, ReadSound
  <2>5. copy \in Kernel!States /\ Same(copy, s)
    <3>1. CASE kernel_state = Absent
      BY <2>1, <2>2, <2>4, <3>1 DEF Same
    <3>2. CASE kernel_state # Absent
      <4>1. s = Kernel!Migrated /\ copy = [s EXCEPT !.booted = TRUE]
        BY <2>1, <2>2, <3>2
      <4> QED
        BY <2>4, <4>1 DEF Kernel!States, Same
    <3> QED
      BY <3>1, <3>2
  <2>6. Intact(copy) /\ Bounded(copy, issued) /\ (kernel_crashes = 0 => Accounts(copy))
    BY <2>4, <2>5, SameKeeps
  <2>7. Same(copy, copy)
    BY DEF Same
  <2> QED
    BY <2>2, <2>3, <2>5, <2>6, <2>7, StartInv
<1>3. CASE Kernel!Unbooted(Alone)
  <2>1. PICK op \in KernelOperations \ {"boot"} :
          LET copy == IF kernel_state = Absent THEN Kernel!Fresh(FALSE) ELSE Kernel!Migrated
          IN  kernel_state' = copy /\ Kernel!Start(Alone, "receipt", op, copy, "blocked")
    BY <1>3 DEF Kernel!Unbooted
  <2>2. PICK copy : copy = (IF kernel_state = Absent THEN Kernel!Fresh(FALSE) ELSE Kernel!Migrated)
    OBVIOUS
  <2>3. kernel_state' = copy /\ Kernel!Start(Alone, "receipt", op, copy, "blocked")
    BY <2>1, <2>2
  <2>4. commands[Alone] = Kernel!Idle /\ UNCHANGED <<receipts, processes, log, emitted, kernel_crashes>>
    BY <1>3, <2>3 DEF Kernel!Unbooted, Kernel!Start
  <2>5. copy \in Kernel!States /\ Intact(copy) /\ Bounded(copy, issued) /\ (kernel_crashes = 0 => Accounts(copy))
    BY <1>1, <2>2, <2>4, ReadSound
  <2>6. Same(copy, copy)
    BY DEF Same
  <2> QED
    BY <2>3, <2>4, <2>5, <2>6, StartInv
<1>4. CASE Kernel!Booted(Alone)
  <2>1. PICK op \in KernelOperations \ {"boot"} :
          /\ kernel_state' = Kernel!Migrated
          /\ Kernel!Start(Alone, IF op \in {"status", "replay"} THEN "receipt" ELSE "work", op,
                   IF Kernel!IsRun(op) THEN [Kernel!Migrated EXCEPT !.process_sequence = @ + 1] ELSE Kernel!Migrated, "completed")
    BY <1>4 DEF Kernel!Booted
  <2>2. PICK s, at, copy : /\ s = Kernel!Migrated /\ at = (IF op \in {"status", "replay"} THEN "receipt" ELSE "work")
                           /\ copy = (IF Kernel!IsRun(op) THEN [s EXCEPT !.process_sequence = @ + 1] ELSE s)
    OBVIOUS
  <2>3. kernel_state' = s /\ Kernel!Start(Alone, at, op, copy, "completed")
    BY <2>1, <2>2
  <2>4. commands[Alone] = Kernel!Idle /\ UNCHANGED <<receipts, processes, log, emitted, kernel_crashes>> /\ kernel_state # Absent
    BY <1>4, <2>3 DEF Kernel!Booted, Kernel!Start, Kernel!IsBooted
  <2>5. s \in Kernel!States /\ Intact(s) /\ Bounded(s, issued) /\ (kernel_crashes = 0 => Accounts(s))
    BY <1>1, <2>2, <2>4, ReadSound
  <2>6. copy \in Kernel!States
    <3>1. PICK n \in Nat : n = s.process_sequence + 1
      BY <2>5 DEF Kernel!States
    <3>2. copy = IF Kernel!IsRun(op) THEN [s EXCEPT !.process_sequence = n] ELSE s
      BY <2>2, <3>1
    <3> QED
      BY <2>5, <3>1, <3>2 DEF Kernel!States
  <2>7. Same(s, s) /\ at \in {"work", "receipt"}
    BY <2>2 DEF Same
  <2> QED
    BY <2>2, <2>3, <2>4, <2>5, <2>6, <2>7, StartInv
<1> QED
  BY <1>2, <1>3, <1>4

\* A command that goes on with a new copy.
LEMMA ResumeInv ==
    ASSUME KernelInv, commands[Alone] # Kernel!Idle,
           NEW at \in {"receipt", "state"}, NEW copy \in Kernel!States, NEW status \in {"completed", "blocked"},
           Kernel!Resume(Alone, at, copy, status)
    PROVE  /\ KernelShape' /\ commands'[Alone] \in Working /\ commands'[Alone] # Kernel!Idle
           /\ commands'[Alone].at = at /\ commands'[Alone].copy = copy
<1>1. commands[Alone].id \in Nat /\ commands[Alone].op \in KernelOperations /\ DOMAIN commands = {Alone}
  BY DEF KernelInv, CopyHeld, Working, KernelShape
<1> DEFINE r == [at |-> at, id |-> commands[Alone].id, op |-> commands[Alone].op, copy |-> copy, status |-> status]
<1>2. commands' = [commands EXCEPT ![Alone] = r]
  BY DEF Kernel!Resume, Kernel!Goto
<1>3. r \in Working /\ r.at = at /\ r.copy = copy /\ r # Kernel!Idle
  BY <1>1 DEF Working, Kernel!Idle
<1> HIDE DEF r
<1> QED
  BY <1>1, <1>2, <1>3 DEF KernelShape

\* The process record is written under the id the copy took.
LEMMA RunAppInv ==
    ASSUME KernelInv, Kernel!RunApp(Alone)
    PROVE  KernelInv'
<1>1. PICK status \in {"completed", "blocked"} :
          LET pid == commands[Alone].copy.process_sequence
          IN  /\ processes' = [p \in DOMAIN processes \cup {pid} |->
                                  IF p = pid THEN commands[Alone].id ELSE processes[p]]
              /\ Kernel!Resume(Alone, "receipt", [commands[Alone].copy EXCEPT !.processes = @ \cup {pid}], status)
  BY DEF Kernel!RunApp
<1>2. PICK old, pid : old = commands[Alone].copy /\ pid = old.process_sequence
  OBVIOUS
<1>3. /\ commands[Alone].at = "work" /\ Kernel!IsRun(commands[Alone].op) /\ commands[Alone] # Kernel!Idle
      /\ UNCHANGED <<kernel_state, receipts, log, issued, emitted, kernel_crashes>>
  BY DEF Kernel!RunApp, Kernel!Idle
<1>4. /\ old \in Kernel!States /\ pid > 0 /\ Bounded(old, issued) /\ Intact(old)
      /\ old.receipt_sequence < issued /\ old.receipt_sequence = kernel_state.receipt_sequence
      /\ kernel_state # Absent /\ issued > 0 /\ (kernel_crashes = 0 => Accounts(old))
  BY <1>2, <1>3 DEF KernelInv, CopyHeld, Working, Accounted
<1>5. pid \in Nat /\ issued \in Nat /\ old.processes \in SUBSET Nat
  BY <1>2, <1>4 DEF Kernel!States, KernelInv, KernelHistories
<1>6. PICK all : all = old.processes \cup {pid}
  OBVIOUS
<1> DEFINE copy == [old EXCEPT !.processes = all]
<1>7. /\ copy \in Kernel!States /\ copy.processes = all /\ copy.process_sequence = old.process_sequence
      /\ copy.receipt_sequence = old.receipt_sequence /\ copy.receipts = old.receipts
      /\ copy.syscall_count = old.syscall_count
  BY <1>4, <1>5, <1>6 DEF Kernel!States
<1>8. Kernel!Resume(Alone, "receipt", copy, status) /\ DOMAIN processes' = DOMAIN processes \cup {pid}
  BY <1>1, <1>2, <1>6
<1> HIDE DEF copy
<1>9. KernelShape' /\ commands'[Alone] \in Working /\ commands'[Alone] # Kernel!Idle /\ commands'[Alone].at = "receipt" /\ commands'[Alone].copy = copy
  BY <1>3, <1>7, <1>8, ResumeInv
<1>10. Bounded(copy, issued)
  BY <1>2, <1>4, <1>5, <1>6, <1>7 DEF Bounded
<1>11. Intact(copy)
  BY <1>4, <1>7 DEF Intact
<1>12. KernelHistories' /\ OnDisk'
  BY <1>3 DEF KernelInv, KernelHistories, OnDisk, Intact, Bounded
<1>13. CopyHeld'
  BY <1>3, <1>4, <1>7, <1>9, <1>10, <1>11 DEF CopyHeld, Intact, Bounded
<1>14. Accounted'
  BY <1>3, <1>4, <1>6, <1>7, <1>8, <1>9 DEF Accounted, Accounts
<1> QED
  BY <1>9, <1>12, <1>13, <1>14 DEF KernelInv

\* The log and the copy count the call together.
LEMMA SyscallInv ==
    ASSUME KernelInv, Kernel!Syscall(Alone)
    PROVE  KernelInv'
<1>1. PICK old, n : old = commands[Alone].copy /\ n = old.syscall_count + 1
  OBVIOUS
<1> DEFINE copy == [old EXCEPT !.syscall_count = n]
<1>2. PICK status \in {"completed", "blocked"} : Kernel!Resume(Alone, "receipt", copy, status) /\ log' = Append(log, n)
  BY <1>1 DEF Kernel!Syscall
<1>3. /\ commands[Alone].at = "work" /\ commands[Alone] # Kernel!Idle
      /\ UNCHANGED <<kernel_state, receipts, processes, issued, emitted, kernel_crashes>>
  BY DEF Kernel!Syscall, Kernel!Idle
<1>4. /\ old \in Kernel!States /\ Bounded(old, issued) /\ Intact(old)
      /\ old.receipt_sequence < issued /\ old.receipt_sequence = kernel_state.receipt_sequence
      /\ kernel_state # Absent /\ issued > 0 /\ (kernel_crashes = 0 => Accounts(old))
  BY <1>1, <1>3 DEF KernelInv, CopyHeld, Working, Accounted
<1>5. n \in Nat /\ log \in Seq(Nat) /\ (kernel_crashes = 0 => \A i \in DOMAIN log : log[i] = i)
  BY <1>1, <1>4 DEF Kernel!States, KernelInv, KernelHistories
<1>6. /\ copy \in Kernel!States /\ copy.processes = old.processes /\ copy.process_sequence = old.process_sequence
      /\ copy.receipt_sequence = old.receipt_sequence /\ copy.receipts = old.receipts
      /\ copy.syscall_count = n
  BY <1>4, <1>5 DEF Kernel!States
<1> HIDE DEF copy
<1>7. KernelShape' /\ commands'[Alone] \in Working /\ commands'[Alone] # Kernel!Idle /\ commands'[Alone].at = "receipt" /\ commands'[Alone].copy = copy
  BY <1>2, <1>3, <1>6, ResumeInv
<1>8. kernel_crashes = 0 => n = Len(log) + 1
  BY <1>1, <1>4 DEF Accounts
<1>9. log' \in Seq(Nat) /\ Len(log') = Len(log) + 1
  BY <1>2, <1>5
<1>10. kernel_crashes = 0 => \A i \in DOMAIN log' : log'[i] = i
  <2> SUFFICES ASSUME kernel_crashes = 0, NEW i \in DOMAIN log' PROVE log'[i] = i
    OBVIOUS
  <2>1. i \in 1..(Len(log) + 1) /\ Len(log) \in Nat
    BY <1>5, <1>9
  <2>2. CASE i = Len(log) + 1
    BY <1>2, <1>5, <1>8, <2>2
  <2>3. CASE i # Len(log) + 1
    BY <1>2, <1>5, <2>1, <2>3
  <2> QED
    BY <2>2, <2>3
<1>11. KernelHistories'
  BY <1>3, <1>9, <1>10 DEF KernelInv, KernelHistories
<1>12. OnDisk'
  BY <1>3 DEF KernelInv, OnDisk, Intact, Bounded
<1>13. Bounded(copy, issued) /\ Intact(copy)
  BY <1>4, <1>6 DEF Bounded, Intact
<1>14. CopyHeld'
  BY <1>3, <1>4, <1>6, <1>7, <1>13 DEF CopyHeld, Intact, Bounded
<1>15. Accounted'
  BY <1>3, <1>4, <1>6, <1>7, <1>8, <1>9 DEF Accounted, Accounts
<1> QED
  BY <1>7, <1>11, <1>12, <1>14, <1>15 DEF KernelInv

\* The receipt gets the next number, which no listed receipt has.
LEMMA WriteReceiptInv ==
    ASSUME KernelInv, Kernel!WriteReceipt(Alone)
    PROVE  KernelInv'
<1>1. PICK old, name, id, status : /\ old = commands[Alone].copy /\ name = Kernel!ReceiptName(Alone)
                                   /\ id = commands[Alone].id /\ status = commands[Alone].status
  OBVIOUS
<1>2. /\ commands[Alone].at = "receipt" /\ commands[Alone] # Kernel!Idle
      /\ receipts' = [n \in DOMAIN receipts \cup {name} |-> IF n = name THEN id ELSE receipts[n]]
      /\ emitted' = Append(emitted, id)
      /\ UNCHANGED <<kernel_state, processes, log, issued, kernel_crashes>>
  BY <1>1 DEF Kernel!WriteReceipt, Kernel!Idle
<1>3. /\ old \in Kernel!States /\ Bounded(old, issued) /\ Intact(old)
      /\ old.receipt_sequence < issued /\ old.receipt_sequence = kernel_state.receipt_sequence
      /\ kernel_state # Absent /\ issued > 0 /\ (kernel_crashes = 0 => Accounts(old))
      /\ id \in Nat /\ status \in {"completed", "blocked"} /\ commands[Alone].op \in KernelOperations
  BY <1>1, <1>2 DEF KernelInv, CopyHeld, Working, Accounted
<1>4. PICK n, r, list : /\ n = old.receipt_sequence + 1 /\ r = [name |-> name, id |-> id, status |-> status]
                        /\ list = Append(old.receipts, r)
  OBVIOUS
<1>5. n \in Nat /\ issued \in Nat /\ old.receipt_sequence \in Nat /\ n <= issued /\ n = old.receipt_sequence + 1
  BY <1>3, <1>4 DEF Kernel!States, KernelInv, KernelHistories
<1> DEFINE Line == [name : [sequence : Nat, operation : KernelOperations], id : Nat, status : {"completed", "blocked"}]
<1>6. name \in [sequence : Nat, operation : KernelOperations] /\ name.sequence = n
  BY <1>1, <1>3, <1>4, <1>5 DEF Kernel!ReceiptName
<1>7. r \in Line /\ r.name = name /\ r.id = id
  BY <1>3, <1>4, <1>6
<1>8. old.receipts \in Seq(Line) /\ Len(old.receipts) = n - 1
  BY <1>3, <1>5 DEF Kernel!States, Intact
<1> HIDE DEF Line
<1>9. /\ list \in Seq(Line) /\ Len(list) = n /\ list[n] = r /\ DOMAIN list = 1..n
      /\ \A i \in 1..(n - 1) : list[i] = old.receipts[i]
  BY <1>4, <1>5, <1>7, <1>8
<1> DEFINE half == [old EXCEPT !.receipt_sequence = n]
           copy == [half EXCEPT !.receipts = list]
<1>10. /\ half \in Kernel!States /\ half.processes = old.processes /\ half.process_sequence = old.process_sequence
       /\ half.receipt_sequence = n /\ half.syscall_count = old.syscall_count
  BY <1>3, <1>5 DEF Kernel!States
<1>11. copy = Kernel!Listing(Alone)
  BY <1>1, <1>4 DEF Kernel!Listing
<1> HIDE DEF half
<1>12. /\ copy \in Kernel!States /\ copy.processes = old.processes /\ copy.process_sequence = old.process_sequence
       /\ copy.receipt_sequence = n /\ copy.receipts = list /\ copy.syscall_count = old.syscall_count
  BY <1>9, <1>10 DEF Kernel!States, Line
<1> HIDE DEF copy
<1>13. Kernel!Resume(Alone, "state", copy, status)
  BY <1>1, <1>11 DEF Kernel!WriteReceipt
<1>14. KernelShape' /\ commands'[Alone] \in Working /\ commands'[Alone] # Kernel!Idle /\ commands'[Alone].at = "state" /\ commands'[Alone].copy = copy
  BY <1>2, <1>3, <1>12, <1>13, ResumeInv
<1>15. Bounded(copy, issued)
  BY <1>3, <1>5, <1>12 DEF Bounded
<1>16. ASSUME NEW s \in Kernel!States, Intact(s), s.receipt_sequence = old.receipt_sequence
       PROVE  \A i \in DOMAIN s.receipts : /\ s.receipts[i].name.sequence = i /\ s.receipts[i].name \in DOMAIN receipts'
                                           /\ receipts'[s.receipts[i].name] = s.receipts[i].id
  <2> SUFFICES ASSUME NEW i \in DOMAIN s.receipts
               PROVE  /\ s.receipts[i].name.sequence = i /\ s.receipts[i].name \in DOMAIN receipts'
                      /\ receipts'[s.receipts[i].name] = s.receipts[i].id
    OBVIOUS
  <2>1. PICK m, d : m = s.receipts[i].name /\ d = s.receipts[i].id
    OBVIOUS
  <2>2. m.sequence = i /\ m \in DOMAIN receipts /\ receipts[m] = d
    BY <1>16, <2>1 DEF Intact
  <2>3. i \in 1..(n - 1)
    <3>1. s.receipts \in Seq(Line) /\ Len(s.receipts) = n - 1
      BY <1>5, <1>16, SMTT(30) DEF Intact, Kernel!States, Line
    <3> QED
      BY <1>5, <3>1
  <2>4. m # name
    BY <1>5, <1>6, <2>2, <2>3
  <2> QED
    BY <1>2, <2>1, <2>2, <2>4
<1>17. Intact(copy)'
  <2>1. DOMAIN old.receipts = 1..(n - 1)
    BY <1>5, <1>8
  <2>2. \A i \in DOMAIN old.receipts :
            /\ old.receipts[i].name.sequence = i /\ old.receipts[i].name \in DOMAIN receipts'
            /\ receipts'[old.receipts[i].name] = old.receipts[i].id
    BY <1>3, <1>16
  <2>3. name \in DOMAIN receipts' /\ receipts'[name] = id
    BY <1>2
  <2>4. ASSUME NEW i \in 1..n PROVE /\ list[i].name.sequence = i /\ list[i].name \in DOMAIN receipts'
                                    /\ receipts'[list[i].name] = list[i].id
    <3>1. CASE i = n
      BY <1>6, <1>7, <1>9, <2>3, <3>1
    <3>2. CASE i # n
      <4>1. i \in 1..(n - 1) /\ list[i] = old.receipts[i]
        BY <1>5, <1>9, <3>2
      <4> QED
        BY <2>1, <2>2, <4>1
    <3> QED
      BY <3>1, <3>2
  <2> QED
    BY <1>12, <1>9, <2>4 DEF Intact
<1>18. KernelHistories'
  BY <1>2, <1>3 DEF KernelInv, KernelHistories
<1>19. OnDisk'
  BY <1>2, <1>3, <1>16 DEF KernelInv, OnDisk, Intact, Bounded
<1>20. CopyHeld'
  BY <1>2, <1>3, <1>14, <1>15, <1>17 DEF CopyHeld, Bounded, Intact
<1>21. Accounted'
  <2> SUFFICES ASSUME kernel_crashes = 0 PROVE Accounts(copy)'
    BY <1>2, <1>14 DEF Accounted, Accounts
  <2>1. emitted \in Seq(Nat)
    BY DEF KernelInv, KernelHistories
  <2>2. ASSUME NEW i \in DOMAIN emitted' PROVE \E j \in 1..n : list[j].id = emitted'[i]
    <3>1. i \in 1..(Len(emitted) + 1) /\ Len(emitted) \in Nat
      BY <1>2, <1>3, <2>1, <2>2
    <3>2. CASE i = Len(emitted) + 1
      <4>1. emitted'[i] = id
        BY <1>2, <1>3, <2>1, <3>2
      <4>2. n \in 1..n
        BY <1>5
      <4> QED
        BY <1>7, <1>9, <4>1, <4>2
    <3>3. CASE i # Len(emitted) + 1
      <4>1. i \in DOMAIN emitted /\ emitted'[i] = emitted[i]
        BY <1>2, <1>3, <2>1, <3>1, <3>3
      <4>2. PICK j \in DOMAIN old.receipts : old.receipts[j].id = emitted[i]
        BY <1>3, <4>1 DEF Accounts
      <4>3. j \in 1..(n - 1) /\ j \in 1..n
        BY <1>5, <1>8
      <4> QED
        BY <1>9, <4>1, <4>2, <4>3
    <3> QED
      BY <3>2, <3>3
  <2> QED
    BY <1>2, <1>3, <1>9, <1>12, <2>2 DEF Accounts
<1> QED
  BY <1>14, <1>18, <1>19, <1>20, <1>21 DEF KernelInv

\* The whole copy becomes state.json.
LEMMA WriteStateInv ==
    ASSUME Kernel!KernelAssumption, KernelInv, Kernel!WriteState(Alone)
    PROVE  KernelInv'
<1>1. PICK s : s = commands[Alone].copy
  OBVIOUS
<1>2. /\ commands[Alone].at = "state" /\ commands[Alone] # Kernel!Idle /\ kernel_state' = s
      /\ commands' = [commands EXCEPT ![Alone] = Kernel!Idle]
      /\ UNCHANGED <<receipts, processes, log, issued, emitted, kernel_crashes>>
  BY <1>1 DEF Kernel!WriteState, Kernel!Idle
<1>3. s \in Kernel!States /\ Intact(s) /\ Bounded(s, issued) /\ s # Absent /\ (kernel_crashes = 0 => Accounts(s))
  BY <1>1, <1>2 DEF KernelInv, CopyHeld, Working, Accounted, Kernel!KernelAssumption
<1>4. commands'[Alone] = Kernel!Idle /\ KernelShape'
  BY <1>2 DEF KernelInv, KernelShape
<1>5. KernelHistories'
  BY <1>2 DEF KernelInv, KernelHistories
<1>6. OnDisk'
  BY <1>2, <1>3 DEF OnDisk, Intact, Bounded
<1>7. CopyHeld'
  BY <1>4 DEF CopyHeld
<1>8. Accounted'
  BY <1>2, <1>3, <1>4 DEF Accounted, Accounts
<1> QED
  BY <1>4, <1>5, <1>6, <1>7, <1>8 DEF KernelInv

\* A death loses the copy and leaves the files.
LEMMA CrashInv ==
    ASSUME Kernel!KernelAssumption, KernelInv, Kernel!Crash(Alone)
    PROVE  KernelInv'
<1>1. /\ commands' = [commands EXCEPT ![Alone] = Kernel!Idle] /\ kernel_crashes < MaxDeaths /\ kernel_crashes' = kernel_crashes + 1
      /\ UNCHANGED <<kernel_state, receipts, processes, log, issued, emitted>>
  BY DEF Kernel!Crash, Kernel!files
<1>2. commands'[Alone] = Kernel!Idle /\ KernelShape'
  BY <1>1 DEF KernelInv, KernelShape
<1>3. kernel_crashes' \in 0..MaxDeaths /\ kernel_crashes' # 0
  BY <1>1 DEF KernelInv, KernelHistories, Kernel!KernelAssumption
<1>4. KernelHistories'
  BY <1>1, <1>3 DEF KernelInv, KernelHistories
<1>5. OnDisk'
  BY <1>1 DEF KernelInv, OnDisk, Intact, Bounded
<1>6. CopyHeld' /\ Accounted'
  BY <1>2, <1>3 DEF CopyHeld, Accounted
<1> QED
  BY <1>2, <1>4, <1>5, <1>6 DEF KernelInv

\* One command at a time keeps state.json, its own copy of it and the other files in step.
LEMMA KernelInvariance ==
    ASSUME Kernel!KernelAssumption
    PROVE  Kernel!Spec => []KernelInv
<1>1. Kernel!Init => KernelInv
  <2> SUFFICES ASSUME Kernel!Init PROVE KernelInv
    OBVIOUS
  <2>1. /\ receipts = <<>> /\ processes = <<>> /\ log = <<>> /\ emitted = <<>> /\ issued = 0 /\ kernel_crashes = 0
        /\ commands = [d \in {Alone} |-> Kernel!Idle]
    BY DEF Kernel!Init
  <2>2. DOMAIN processes = {} /\ NothingYet
    BY <2>1 DEF NothingYet
  <2>3. commands[Alone] = Kernel!Idle /\ KernelShape
    BY <2>1 DEF KernelShape
  <2>4. KernelHistories
    BY <2>1 DEF KernelHistories, Kernel!KernelAssumption
  <2>5. CASE kernel_state = Absent
    BY <2>2, <2>3, <2>4, <2>5 DEF KernelInv, OnDisk, CopyHeld, Accounted
  <2>6. CASE kernel_state # Absent
    <3>1. PICK f : f = Kernel!Fresh(TRUE)
      OBVIOUS
    <3>2. f \in Kernel!States /\ Intact(f) /\ Bounded(f, 0) /\ Accounts(f)
      BY <2>2, <3>1, FreshAccounts
    <3>3. kernel_state = [f EXCEPT !.format = "7.0"]
      BY <2>6, <3>1 DEF Kernel!Init
    <3>4. kernel_state \in Kernel!States /\ Same(kernel_state, f)
      BY <3>2, <3>3 DEF Kernel!States, Same
    <3>5. Intact(kernel_state) /\ Bounded(kernel_state, 0) /\ Accounts(kernel_state)
      BY <3>2, <3>4, SameKeeps
    <3> QED
      BY <2>1, <2>3, <2>4, <2>6, <3>4, <3>5 DEF KernelInv, OnDisk, CopyHeld, Accounted
  <2> QED
    BY <2>5, <2>6
<1>2. KernelInv /\ [Kernel!Next]_(Kernel!vars) => KernelInv'
  <2> SUFFICES ASSUME KernelInv, [Kernel!Next]_(Kernel!vars) PROVE KernelInv'
    OBVIOUS
  <2>1. CASE UNCHANGED Kernel!vars
    BY <2>1 DEF Kernel!vars, Kernel!files, KernelInv, KernelHistories, KernelShape, OnDisk, CopyHeld, Accounted, Accounts, NothingYet, Intact, Bounded
  <2>2. CASE Kernel!Next
    BY <2>2, BeginInv, RunAppInv, SyscallInv, WriteReceiptInv, WriteStateInv, CrashInv DEF Kernel!Next
  <2> QED
    BY <2>1, <2>2
<1> QED
  BY <1>1, <1>2, PTL DEF Kernel!Spec

\* The numbers state.json holds stay in their ranges, they count commands; however many
\* commands died, a receipt that it lists is the file its own command wrote, because
\* _record_receipt writes the file first and lists it last; and without deaths all files
\* are accounted for whenever no command is under way.
LEMMA KernelRules ==
    ASSUME Kernel!KernelAssumption, KernelInv
    PROVE  Kernel!KernelFilesAgree
<1>1. Kernel!TypeOK
  <2>1. issued \in 0..MaxReceipts /\ kernel_crashes \in 0..MaxDeaths /\ MaxReceipts \in Nat
    BY DEF KernelInv, KernelHistories, Kernel!KernelAssumption
  <2>2. ASSUME kernel_state # Absent
        PROVE  /\ kernel_state.receipt_sequence \in 0..MaxReceipts /\ kernel_state.booted \in BOOLEAN
               /\ kernel_state.processes \subseteq 1..MaxReceipts
    <3>1. /\ kernel_state.receipt_sequence \in Nat /\ kernel_state.booted \in BOOLEAN
          /\ kernel_state.receipt_sequence <= issued /\ kernel_state.processes \subseteq 1..issued
      BY <2>2 DEF KernelInv, OnDisk, Bounded, Kernel!States
    <3> QED
      BY <2>1, <3>1
  <2> QED
    BY <2>1, <2>2 DEF Kernel!TypeOK
<1>2. Kernel!ListedReceiptsIntact
  BY DEF KernelInv, OnDisk, Intact, Kernel!ListedReceiptsIntact
<1>3. Kernel!LogMatchesCount /\ Kernel!ProcessesListed /\ Kernel!ReceiptsListed
  <2> SUFFICES ASSUME Kernel!Quiet, kernel_crashes = 0
               PROVE  /\ \A i \in DOMAIN log : log[i] = i
                      /\ kernel_state # Absent =>
                           kernel_state.syscall_count = Len(log) /\ kernel_state.processes = DOMAIN processes
                      /\ \A i \in DOMAIN emitted :
                           \E j \in DOMAIN kernel_state.receipts : kernel_state.receipts[j].id = emitted[i]
    BY DEF Kernel!LogMatchesCount, Kernel!ProcessesListed, Kernel!ReceiptsListed
  <2>1. commands[Alone] = Kernel!Idle
    BY DEF Kernel!Quiet
  <2>2. IF kernel_state # Absent THEN Accounts(kernel_state) ELSE NothingYet
    BY <2>1 DEF KernelInv, Accounted
  <2> QED
    BY <2>2 DEF KernelInv, KernelHistories, Accounts, NothingYet
<1> QED
  BY <1>1, <1>2, <1>3 DEF Kernel!KernelFilesAgree

\* However many commands are given one after the other, and however many of them die,
\* state.json, the receipts, the process records and the system call log agree
\* (_record_receipt, _record_syscall).
THEOREM KernelFilesAlwaysAgree == Spec => []KernelFilesAgree
<1>1. Kernel!Spec => []KernelInv
  BY FilesAssumption, KernelInvariance
<1>2. KernelInv => KernelFilesAgree
  BY FilesAssumption, KernelRules DEF KernelFilesAgree
<1>3. ~(scenario = "kernel") => KernelFilesAgree
  BY DEF KernelFilesAgree
<1> QED
  BY <1>1, <1>2, <1>3, KernelAlone, PTL

-----------------------------------------------------------------------------
(* The registry: what an index lists is a packaged tree, the events are    *)
(* counted, and an install that completed is as the lock pinned it.        *)

Counted == /\ \E S : entries \in Seq(S)
           /\ lost \in Nat /\ Len(entries) + lost <= MaxEvents
Indexed ==
  registry # None => /\ "index" \in DOMAIN registry
                     /\ \A k \in DOMAIN registry.index : registry.index[k].tree \in PackageTrees
RegistryInv ==
  installed \in [PackageKeys -> PackageTrees \cup {None}] /\ Counted /\ Indexed /\ Registry!InstalledAsPinned

\* Recording an event that obeys the rule keeps the count and the rule.
LEMMA Recording ==
    ASSUME RegistryInv, MaxEvents \in Nat, Len(entries) + lost < MaxEvents, NEW event,
           event.event = "install" /\ event.completed =>
             /\ event.pin # None /\ event.tree = event.pin.tree
             /\ event.pin.by \in TrustedKeys /\ event.from \in TrustedKeys,
           entries' = Append(entries, event), lost' = lost
    PROVE  Counted' /\ Registry!InstalledAsPinned'
<1>1. PICK S : entries \in Seq(S)
  BY DEF RegistryInv, Counted
<1>2. entries \in Seq(S \cup {event}) /\ event \in S \cup {event}
  BY <1>1
<1>3. /\ entries' \in Seq(S \cup {event}) /\ Len(entries') = Len(entries) + 1 /\ Len(entries) \in Nat
      /\ DOMAIN entries = 1..Len(entries) /\ DOMAIN entries' = 1..(Len(entries) + 1)
      /\ \A i \in 1..Len(entries) : entries'[i] = entries[i]
      /\ entries'[Len(entries) + 1] = event
  BY <1>2
<1>4. Counted'
  BY <1>3 DEF RegistryInv, Counted
<1>5. ASSUME NEW i \in DOMAIN entries', entries'[i].event = "install", entries'[i].completed
      PROVE  /\ entries'[i].pin # None /\ entries'[i].tree = entries'[i].pin.tree
             /\ entries'[i].pin.by \in TrustedKeys /\ entries'[i].from \in TrustedKeys
  <2>1. CASE i = Len(entries) + 1
    BY <1>3, <1>5, <2>1
  <2>2. CASE i # Len(entries) + 1
    <3>1. i \in DOMAIN entries /\ entries'[i] = entries[i]
      BY <1>3, <1>5, <2>2
    <3> QED
      BY <1>5, <3>1 DEF RegistryInv, Registry!InstalledAsPinned
  <2> QED
    BY <2>1, <2>2
<1> QED
  BY <1>4, <1>5 DEF Registry!InstalledAsPinned

\* What Built makes lists trees that were published.
LEMMA BuiltIndexed ==
    ASSUME NEW trees \in Registry!Published, NEW s
    PROVE  /\ "index" \in DOMAIN Registry!Built(trees, s)
           /\ \A k \in DOMAIN Registry!Built(trees, s).index :
                Registry!Built(trees, s).index[k].tree \in PackageTrees
BY DEF Registry!Built, Registry!Bundle, Registry!Published

\* Every operation of the registry keeps the invariant.
LEMMA RegistryKept ==
    ASSUME FilesAssumption, RegistryInv, [Registry!Next]_(Registry!vars)
    PROVE  RegistryInv'
<1>0. MaxEvents \in Nat
  BY FilesAssumption DEF Registry!RegistryAssumption
<1>1. ASSUME NEW trees \in Registry!Published, Registry!CreateRegistry(trees) PROVE RegistryInv'
  <2>1. Indexed'
    BY <1>1, BuiltIndexed DEF Registry!CreateRegistry, Indexed
  <2>2. Counted' /\ Registry!InstalledAsPinned'
    BY <1>1, <1>0, Recording DEF Registry!CreateRegistry, Registry!Events, Registry!Recorded
  <2> QED
    BY <1>1, <2>1, <2>2 DEF RegistryInv, Registry!CreateRegistry
<1>2. ASSUME NEW trees \in Registry!Published, NEW s \in SigningKeys, Registry!SyncFrom(trees, s) PROVE RegistryInv'
  <2>1. Indexed'
    BY <1>2, BuiltIndexed DEF Registry!SyncFrom, Indexed
  <2>2. Counted' /\ Registry!InstalledAsPinned'
    BY <1>2, <1>0, Recording DEF Registry!SyncFrom, Registry!Events, Registry!Recorded
  <2> QED
    BY <1>2, <2>1, <2>2 DEF RegistryInv, Registry!SyncFrom
<1>3. CASE Registry!CreateLock
  <2>1. Counted' /\ Registry!InstalledAsPinned'
    BY <1>3, <1>0, Recording DEF Registry!CreateLock, Registry!Events, Registry!Recorded
  <2> QED
    BY <1>3, <2>1 DEF RegistryInv, Indexed, Registry!CreateLock
<1>4. ASSUME NEW k \in PackageKeys, Registry!Install(k) PROVE RegistryInv'
  <2> DEFINE ok == Registry!verify_registry /\ Registry!verify_lock /\ lock # None /\ k \in DOMAIN lock.index
             event == [event |-> "install", key |-> k, completed |-> ok, tree |-> installed'[k],
                       pin |-> IF ok THEN lock.index[k] ELSE None, from |-> IF ok THEN registry.by ELSE None]
  <2>1. /\ Len(entries) + lost < MaxEvents /\ UNCHANGED <<registry, lock>>
        /\ installed' = IF ok THEN [installed EXCEPT ![k] = registry.bundles[k].content] ELSE installed
        /\ \/ entries' = Append(entries, event) /\ lost' = lost
           \/ entries' = entries /\ lost' = lost + 1
    BY <1>4 DEF Registry!Install, Registry!Events, Registry!Recorded
  <2>2. ASSUME ok
        PROVE  /\ lock.index[k] # None /\ installed'[k] = lock.index[k].tree /\ lock.index[k].by \in TrustedKeys
               /\ registry.by \in TrustedKeys /\ registry.bundles[k].content \in PackageTrees
    <3>1. /\ registry # None /\ lock.index = registry.index /\ k \in DOMAIN registry.index
          /\ registry.bundles[k] # None /\ registry.by \in TrustedKeys
          /\ registry.bundles[k] = registry.index[k] /\ registry.bundles[k].content = registry.bundles[k].tree
          /\ registry.bundles[k].by \in TrustedKeys
      BY <2>2 DEF Registry!verify_registry, Registry!verify_lock, Registry!RegistryReadable
    <3>2. registry.index[k].tree \in PackageTrees
      BY <3>1 DEF RegistryInv, Indexed
    <3>3. installed'[k] = registry.bundles[k].content
      BY <2>1, <2>2 DEF RegistryInv
    <3> QED
      BY <3>1, <3>2, <3>3
  <2>3. installed' \in [PackageKeys -> PackageTrees \cup {None}]
    BY <2>1, <2>2 DEF RegistryInv
  <2>4. Counted' /\ Registry!InstalledAsPinned'
    <3>1. CASE entries' = Append(entries, event) /\ lost' = lost
      <4>1. /\ event.event = "install" /\ event.completed = ok /\ event.tree = installed'[k]
            /\ ok => event.pin = lock.index[k] /\ event.from = registry.by
        OBVIOUS
      <4> HIDE DEF event
      <4> QED
        BY <1>0, <2>1, <2>2, <3>1, <4>1, Recording
    <3>2. CASE entries' = entries /\ lost' = lost + 1
      <4>1. PICK S : entries \in Seq(S)
        BY DEF RegistryInv, Counted
      <4>2. Counted'
        BY <1>0, <2>1, <3>2, <4>1 DEF RegistryInv, Counted
      <4> QED
        BY <3>2, <4>2 DEF RegistryInv, Registry!InstalledAsPinned
    <3> QED
      BY <2>1, <3>1, <3>2
  <2> QED
    BY <2>1, <2>3, <2>4 DEF RegistryInv, Indexed
<1>5. ASSUME NEW k \in PackageKeys, Registry!Damage(k) PROVE RegistryInv'
  <2>1. registry # None /\ UNCHANGED <<lock, installed, entries, lost>>
    BY <1>5 DEF Registry!Damage
  <2>2. "index" \in DOMAIN registry' /\ registry'.index = registry.index
    BY <1>5, <2>1 DEF Registry!Damage, RegistryInv, Indexed
  <2> QED
    BY <2>1, <2>2 DEF RegistryInv, Indexed, Counted, Registry!InstalledAsPinned
<1>6. CASE UNCHANGED Registry!vars
  BY <1>6 DEF Registry!vars, RegistryInv, Indexed, Counted, Registry!InstalledAsPinned
<1> QED
  BY <1>1, <1>2, <1>3, <1>4, <1>5, <1>6 DEF Registry!Next

\* A behaviour of scenario "registry" is one of its component.
LEMMA RegistryAlone ==
    /\ Spec /\ scenario = "registry" => Registry!Spec /\ [](scenario = "registry")
    /\ Spec /\ ~(scenario = "registry") => []~(scenario = "registry")
<1>1. Init /\ scenario = "registry" => Registry!Init
  BY DEF Init
<1>2. UNCHANGED vars => UNCHANGED <<scenario, Registry!vars>>
  BY DEF vars, registryVars, Registry!vars
<1>3. scenario = "registry" /\ [Next]_vars => (scenario = "registry")' /\ [Registry!Next]_(Registry!vars)
  BY <1>2 DEF Next, LedgerStep, KernelStep, RegistryStep, BootStep, MeshStep, SwarmStep
<1>4. ~(scenario = "registry") /\ [Next]_vars => ~(scenario = "registry")'
  BY DEF Next, vars, LedgerStep, KernelStep, RegistryStep, BootStep, MeshStep, SwarmStep
<1> QED
  BY <1>1, <1>3, <1>4, PTL DEF Spec, Registry!Spec

\* Whatever packages, keys, mirrors, locks and damage there are, an install that completed
\* installed the tree a lock pinned, from a registry a trusted key signed (install,
\* verify_registry, verify_lock).
THEOREM AlwaysInstalledAsPinned == Spec => []InstalledAsPinned
<1>1. Registry!Init => RegistryInv
  BY FilesAssumption DEF Registry!Init, RegistryInv, Counted, Indexed, Registry!InstalledAsPinned, Registry!RegistryAssumption
<1>2. RegistryInv /\ [Registry!Next]_(Registry!vars) => RegistryInv'
  BY FilesAssumption, RegistryKept
<1>3. RegistryInv => InstalledAsPinned
  BY DEF InstalledAsPinned, RegistryInv, Counted, Registry!TypeOK, Registry!Events
<1>4. ~(scenario = "registry") => InstalledAsPinned
  BY DEF InstalledAsPinned
<1> QED
  BY <1>1, <1>2, <1>3, <1>4, RegistryAlone, PTL DEF Registry!Spec

-----------------------------------------------------------------------------
(* Folds over the numbers of a sequence, for the sums of the Swarm.        *)

\* Sums are folds: a fold that adds cost[i] at each number gives the running total.
LEMMA Adding ==
    ASSUME NEW n \in Nat, NEW cost \in [1..n -> Int]
    PROVE  \E total \in [0..n -> Int] :
             total[0] = 0 /\ \A k \in 1..n : total[k] = total[k - 1] + cost[k]
<1> DEFINE step == [x \in Int \X (1..n) |-> x[1] + cost[x[2]]]
<1>1. /\ step \in [Int \X (1..n) -> Int] /\ 0 \in Int
      /\ \A a \in Int, k \in 1..n : step[<<a, k>>] = a + cost[k]
  OBVIOUS
<1> HIDE DEF step
<1>2. PICK fold \in [SUBSET (1..n) -> Int] : Ledger!Folds(fold, 0, step, n)
  BY <1>1, Ledger!FoldExists, Zenon
<1> DEFINE total == [k \in 0..n |-> fold[1..k]]
<1>3. total \in [0..n -> Int]
  OBVIOUS
<1>4. total[0] = 0
  <2>1. 1..0 = {} /\ {} \in SUBSET (1..n) /\ 0 \in 0..n
    OBVIOUS
  <2>2. fold[{}] = 0
    BY <1>2, <2>1 DEF Ledger!Folds
  <2> QED
    BY <2>1, <2>2
<1>5. ASSUME NEW k \in 1..n PROVE total[k] = total[k - 1] + cost[k]
  <2>1. 1..k \in SUBSET (1..n) /\ 1..(k - 1) \in SUBSET (1..n) /\ k \in Nat /\ k # 0 /\ k - 1 \in 0..n
    OBVIOUS
  <2>2. fold[1..k] = step[<<fold[1..(k - 1)], k>>]
    BY <1>2, <2>1, Ledger!Prefix DEF Ledger!Folds
  <2> QED
    BY <1>1, <2>1, <2>2
<1> HIDE DEF total
<1> QED
  BY <1>3, <1>4, <1>5

\* The fold of AddCost ends with the last of the running totals.
LEMMA CostFolds ==
    ASSUME NEW n \in Nat, NEW seq, DOMAIN seq = 1..n, \A i \in 1..n : seq[i].cost \in Int,
           NEW total, total[0] = 0, \A k \in 1..n : total[k] = total[k - 1] + seq[k].cost
    PROVE  Swarm!FoldLeft(Swarm!AddCost, 0, seq) = total[n]
<1> DEFINE S == DOMAIN seq
           Step(f) == [s \in SUBSET S |-> IF s = {} THEN 0
                          ELSE Swarm!AddCost(f[s \ {Swarm!Max(s)}], seq[Swarm!Max(s)])]
           iter == CHOOSE f : f = Step(f)
           cost == [i \in 1..n |-> seq[i].cost]
           step == [x \in Int \X (1..n) |-> x[1] + cost[x[2]]]
<1>1. Swarm!FoldLeft(Swarm!AddCost, 0, seq) = iter[S]
  BY DEF Swarm!FoldLeft, Swarm!MapThenFoldSet
<1>2. \A s : Swarm!Max(s) = Ledger!Max(s)
  BY DEF Swarm!Max, Ledger!Max
<1>3. /\ step \in [Int \X (1..n) -> Int] /\ 0 \in Int
      /\ \A a \in Int, k \in 1..n : step[<<a, k>>] = a + seq[k].cost
  <2>1. cost \in [1..n -> Int] /\ \A k \in 1..n : cost[k] = seq[k].cost
    OBVIOUS
  <2> HIDE DEF cost
  <2> QED
    BY <2>1
<1> HIDE DEF step
<1>4. PICK fold \in [SUBSET (1..n) -> Int] : Ledger!Folds(fold, 0, step, n)
  BY <1>3, Ledger!FoldExists, Zenon
<1>5. ASSUME NEW s \in SUBSET (1..n), s # {}
      PROVE  s \ {Ledger!Max(s)} \in SUBSET (1..n) /\ Ledger!Max(s) \in 1..n
  BY <1>5, Ledger!Greatest
<1>6. fold = Step(fold)
  <2>1. ASSUME NEW s \in SUBSET (1..n)
        PROVE  fold[s] = IF s = {} THEN 0 ELSE Swarm!AddCost(fold[s \ {Swarm!Max(s)}], seq[Swarm!Max(s)])
    <3>1. CASE s = {}
      BY <1>4, <3>1 DEF Ledger!Folds
    <3>2. CASE s # {}
      <4>1. fold[s] = step[<<fold[s \ {Ledger!Max(s)}], Ledger!Max(s)>>]
        BY <1>4, <3>2 DEF Ledger!Folds
      <4>2. fold[s \ {Ledger!Max(s)}] \in Int /\ Ledger!Max(s) \in 1..n
        BY <1>4, <1>5, <3>2
      <4> QED
        BY <1>2, <1>3, <3>2, <4>1, <4>2 DEF Swarm!AddCost
    <3> QED
      BY <3>1, <3>2
  <2> QED
    BY <1>4, <2>1
<1>7. iter = Step(iter)
  BY <1>6
<1> HIDE DEF iter
<1>8. \A s \in SUBSET (1..n) : iter[s] = IF s = {} THEN 0
                                        ELSE Swarm!AddCost(iter[s \ {Ledger!Max(s)}], seq[Ledger!Max(s)])
  BY <1>2, <1>7
<1>9. iter[{}] = total[0]
  BY <1>8
<1>10. ASSUME NEW k \in 1..n, iter[1..(k - 1)] = total[k - 1] PROVE iter[1..k] = total[k]
  <2>1. 1..k \in SUBSET (1..n) /\ k \in Nat /\ k # 0
    BY <1>10
  <2>2. iter[1..k] = Swarm!AddCost(iter[1..(k - 1)], seq[k])
    BY <1>8, <2>1, Ledger!Prefix
  <2> QED
    BY <1>10, <2>2 DEF Swarm!AddCost
<1> HIDE DEF S, Step
<1>11. \A k \in 1..n : iter[1..(k - 1)] = total[k - 1] => iter[1..k] = total[k]
  BY <1>10
<1>12. iter[1..n] = total[n]
  BY <1>9, <1>11, Ledger!AlongPrefixes, ZenonT(60)
<1> QED
  BY <1>1, <1>12 DEF S

\* What is considered: a prefix of the candidates, no longer than the budget's cells.
LEMMA Considering ==
    ASSUME Swarm!SwarmAssumption, candidates \in Seq(Swarm!Proposal)
    PROVE  /\ Swarm!Considered \in Seq(Swarm!Proposal) /\ Len(Swarm!Considered) \in Nat
           /\ Len(Swarm!Considered) <= SwarmCells /\ Len(Swarm!Considered) <= Len(candidates)
           /\ DOMAIN Swarm!Considered = 1..Len(Swarm!Considered)
           /\ \A i \in 1..Len(Swarm!Considered) : Swarm!Considered[i] = candidates[i]
BY DEF Swarm!Considered, Swarm!SwarmAssumption

\* The fields of a proposal.
LEMMA Proposed ==
    ASSUME Swarm!SwarmAssumption, NEW p \in Swarm!Proposal
    PROVE  /\ p.cost \in Int /\ p.score \in Int /\ p.fits \in BOOLEAN
           /\ p.action \in {"write", "reject", "other"} /\ p.path \in {"inside", "escaping", "absolute", "missing"}
BY DEF Swarm!Proposal, Swarm!SwarmAssumption, Swarm!Paths

\* total_cost is the running total of the considered costs.
LEMMA Totals ==
    ASSUME Swarm!SwarmAssumption, candidates \in Seq(Swarm!Proposal)
    PROVE  \E total \in [0..Len(Swarm!Considered) -> Int] :
             /\ total[0] = 0
             /\ \A k \in 1..Len(Swarm!Considered) : /\ total[k] = total[k - 1] + Swarm!Considered[k].cost
                                                    /\ Swarm!total_cost(k) = total[k]
<1> DEFINE all == Swarm!Considered
           n == Len(all)
           cost == [i \in 1..n |-> all[i].cost]
<1>1. /\ all \in Seq(Swarm!Proposal) /\ n \in Nat
      /\ \A i \in 1..n : all[i] \in Swarm!Proposal /\ all[i].cost \in Int
  BY Considering, Proposed
<1> HIDE DEF n
<1>2. cost \in [1..n -> Int] /\ \A i \in 1..n : cost[i] = all[i].cost
  BY <1>1
<1> HIDE DEF cost
<1>3. PICK total \in [0..n -> Int] : total[0] = 0 /\ \A k \in 1..n : total[k] = total[k - 1] + cost[k]
  BY <1>1, <1>2, Adding
<1>4. ASSUME NEW k \in 1..n PROVE Swarm!total_cost(k) = total[k]
  <2> DEFINE seq == SubSeq(all, 1, k)
  <2>1. DOMAIN seq = 1..k /\ \A i \in 1..k : seq[i] = all[i] /\ i \in 1..n
    BY <1>1 DEF n
  <2> HIDE DEF seq
  <2>2. k \in Nat /\ (\A i \in 1..k : seq[i].cost \in Int) /\ \A i \in 1..k : total[i] = total[i - 1] + seq[i].cost
    <3>1. ASSUME NEW i \in 1..k PROVE seq[i].cost \in Int /\ total[i] = total[i - 1] + seq[i].cost
      <4>1. i \in 1..n /\ seq[i] = all[i]
        BY <2>1
      <4> QED
        BY <1>1, <1>2, <1>3, <4>1
    <3> QED
      BY <1>1, <3>1
  <2>3. Swarm!FoldLeft(Swarm!AddCost, 0, seq) = total[k]
    <3>1. DOMAIN seq = 1..k
      BY <2>1
    <3>2. total[0] = 0
      BY <1>3
    <3>3. k \in Nat
      BY <2>2
    <3>4. \A i \in 1..k : seq[i].cost \in Int
      BY <2>2
    <3>5. \A i \in 1..k : total[i] = total[i - 1] + seq[i].cost
      BY <2>2
    <3> QED
      BY <3>1, <3>2, <3>3, <3>4, <3>5, CostFolds, Zenon
  <2> QED
    BY <2>3 DEF Swarm!total_cost, seq
<1> QED
  BY <1>1, <1>2, <1>3, <1>4 DEF n

\* Of some cells, numbered apart, one is better than each of the others.
LEMMA BestExists ==
    ASSUME NEW n \in Nat, NEW cell,
           \A i \in 1..n : cell[i].index = i /\ cell[i].proposal.cost \in Int /\ cell[i].proposal.score \in Int,
           NEW S \in SUBSET (1..n), S # {}
    PROVE  \E i \in S : \A j \in S \ {i} : Swarm!Better(cell[i], cell[j])
<1> DEFINE Beats(T, i) == i \in T /\ \A j \in T \ {i} : Swarm!Better(cell[i], cell[j])
           bad == {k \in Nat : k <= n /\ \E T \in SUBSET (1..k) : T # {} /\ ~\E i \in T : Beats(T, i)}
<1>0. \A i, j \in 1..n : i # j => Swarm!Better(cell[i], cell[j]) \/ Swarm!Better(cell[j], cell[i])
  BY DEF Swarm!Better
<1>1. \A i, j, k \in 1..n : Swarm!Better(cell[i], cell[j]) /\ Swarm!Better(cell[j], cell[k]) => Swarm!Better(cell[i], cell[k])
  BY DEF Swarm!Better
<1>2. bad = {}
  <2> SUFFICES ASSUME bad # {} PROVE FALSE
    OBVIOUS
  <2>1. PICK k \in bad : \A other \in bad : k <= other
    BY Ledger!LeastOf
  <2>2. PICK T \in SUBSET (1..k) : T # {} /\ ~\E i \in T : Beats(T, i)
    OBVIOUS
  <2>3. k # 0 /\ k - 1 \in Nat /\ k - 1 <= n /\ k \in 1..n /\ k - 1 \notin bad
    <3>1. k # 0
      BY <2>2
    <3>2. k \in Nat /\ k <= n
      OBVIOUS
    <3>3. k - 1 \notin bad
      <4> HIDE DEF bad
      <4> QED
        BY <2>1, <3>2
    <3> QED
      BY <3>1, <3>2, <3>3
  <2> DEFINE U == T \ {k}
  <2>4. U \in SUBSET (1..(k - 1)) /\ U \in SUBSET (1..n)
    BY <2>3
  <2>5. k \in T
    <3> SUFFICES ASSUME k \notin T PROVE FALSE
      OBVIOUS
    <3>1. U = T
      OBVIOUS
    <3> QED
      BY <2>2, <2>3, <2>4, <3>1
  <2>6. U # {}
    <3> SUFFICES ASSUME U = {} PROVE FALSE
      OBVIOUS
    <3>1. T = {k}
      BY <2>5
    <3>2. Beats(T, k)
      BY <3>1
    <3> QED
      BY <2>2, <2>5, <3>2
  <2>7. PICK i \in U : Beats(U, i)
    BY <2>3, <2>4, <2>6
  <2>8. CASE Swarm!Better(cell[i], cell[k])
    <3>1. Beats(T, i)
      BY <2>7, <2>8
    <3> QED
      BY <2>2, <2>7, <3>1
  <2>9. CASE Swarm!Better(cell[k], cell[i])
    <3>1. Beats(T, k)
      <4> SUFFICES ASSUME NEW j \in T \ {k} PROVE Swarm!Better(cell[k], cell[j])
        BY <2>5
      <4> QED
        BY <1>1, <2>3, <2>4, <2>7, <2>9
    <3> QED
      BY <2>2, <2>5, <3>1
  <2> QED
    BY <1>0, <2>3, <2>4, <2>7, <2>8, <2>9
<1>3. n \notin bad
  BY <1>2
<1> QED
  BY <1>3

\* The cells of a tournament.
LEMMA TreeCells ==
    ASSUME Swarm!SwarmAssumption, candidates \in Seq(Swarm!Proposal)
    PROVE  /\ DOMAIN Swarm!Tree = 1..Len(Swarm!Considered) /\ Swarm!Tree \in Seq(Swarm!Cell)
           /\ Len(Swarm!Tree) = Len(Swarm!Considered)
           /\ \A i \in 1..Len(Swarm!Considered) :
                /\ Swarm!Tree[i].index = i /\ Swarm!Tree[i].proposal = Swarm!Considered[i]
                /\ Swarm!Tree[i].completed = Swarm!Passes(i)
<1> DEFINE n == Len(Swarm!Considered)
<1>1. n \in Nat /\ \A i \in 1..n : Swarm!Considered[i] \in Swarm!Proposal
  BY Considering
<1>2. \A i \in 1..n : Swarm!Passes(i) \in BOOLEAN
  BY DEF Swarm!Passes
<1> HIDE DEF n
<1>3. Swarm!Tree = [i \in 1..n |-> [index |-> i, proposal |-> Swarm!Considered[i], completed |-> Swarm!Passes(i)]]
  BY DEF Swarm!Tree, n
<1>4. \A i \in 1..n : Swarm!Tree[i] \in Swarm!Cell
  BY <1>1, <1>2, <1>3 DEF Swarm!Cell
<1>5. DOMAIN Swarm!Tree = 1..n /\ \A i \in 1..n :
          /\ Swarm!Tree[i].index = i /\ Swarm!Tree[i].proposal = Swarm!Considered[i]
          /\ Swarm!Tree[i].completed = Swarm!Passes(i)
  BY <1>3
<1>6. Swarm!Tree \in [1..n -> Swarm!Cell]
  BY <1>3, <1>4
<1>7. Swarm!Tree \in Seq(Swarm!Cell) /\ Len(Swarm!Tree) = n
  BY <1>1, <1>6
<1> QED
  BY <1>5, <1>7 DEF n

\* Selected is none when no cell is eligible, and otherwise the number of an eligible
\* cell that is better than every other one.
LEMMA SelectedBest ==
    ASSUME Swarm!SwarmAssumption, candidates \in Seq(Swarm!Proposal), NEW s, s = Swarm!Selected(Swarm!Range(Swarm!Tree))
    PROVE  \/ s = None
           \/ /\ s \in 1..Len(Swarm!Considered) /\ Swarm!Passes(s) /\ Swarm!Considered[s].action # "reject"
              /\ \A j \in 1..Len(Swarm!Considered) :
                   Swarm!Passes(j) /\ Swarm!Considered[j].action # "reject" /\ j # s
                     => Swarm!Better(Swarm!Tree[s], Swarm!Tree[j])
<1> DEFINE n == Len(Swarm!Considered)
           cell == Swarm!Tree
           E == Swarm!Eligible(Swarm!Range(cell))
           S == {i \in 1..n : Swarm!Passes(i) /\ Swarm!Considered[i].action # "reject"}
<1>1. n \in Nat /\ \A i \in 1..n : Swarm!Considered[i] \in Swarm!Proposal
  BY Considering
<1>2. DOMAIN cell = 1..n /\ \A i \in 1..n : /\ cell[i].index = i /\ cell[i].proposal = Swarm!Considered[i]
                                            /\ cell[i].completed = Swarm!Passes(i)
  BY TreeCells
<1> HIDE DEF n, cell
<1>3. E = {cell[i] : i \in S}
  BY <1>2 DEF Swarm!Eligible, Swarm!Range
<1>4. CASE E = {}
  BY <1>4 DEF Swarm!Selected, cell
<1>5. CASE E # {}
  <2>1. S # {} /\ S \in SUBSET (1..n)
    BY <1>3, <1>5
  <2>2. \A i \in 1..n : cell[i].index = i /\ cell[i].proposal.cost \in Int /\ cell[i].proposal.score \in Int
    BY <1>1, <1>2, Proposed
  <2>3. PICK i \in S : \A j \in S \ {i} : Swarm!Better(cell[i], cell[j])
    BY <1>1, <2>1, <2>2, BestExists
  <2> DEFINE best == CHOOSE c \in E : \A d \in E \ {c} : Swarm!Better(c, d)
  <2>4. cell[i] \in E /\ \A d \in E \ {cell[i]} : Swarm!Better(cell[i], d)
    BY <1>3, <2>3
  <2> HIDE DEF S, E
  <2>5. best \in E /\ \A d \in E \ {best} : Swarm!Better(best, d)
    BY <2>4
  <2>6. s = best.index
    BY <1>5 DEF Swarm!Selected, E, cell
  <2> HIDE DEF best
  <2>7. PICK k \in S : best = cell[k]
    BY <1>3, <2>5
  <2>8. s = k
    BY <1>2, <2>6, <2>7 DEF S
  <2>9. ASSUME NEW j \in S, j # s PROVE Swarm!Better(cell[s], cell[j])
    <3>1. cell[j] \in E /\ cell[j] # best
      BY <1>2, <1>3, <2>6, <2>9 DEF S
    <3> QED
      BY <2>5, <2>7, <2>8, <3>1
  <2> QED
    BY <2>7, <2>8, <2>9 DEF S, n, cell
<1> QED
  BY <1>4, <1>5

Raised == [cells |-> <<>>, selected |-> None, outcome |-> "raised"]
Held(s) == [cells |-> Swarm!Tree, selected |-> s, outcome |-> IF s = None THEN "blocked" ELSE "completed"]
Choice == Swarm!Selected(Swarm!Range(Swarm!Tree))
\* A receipt is one of an aborted tournament, or it holds the cells and the choice that
\* the candidates give.
SwarmInv ==
  /\ candidates \in Seq(Swarm!Proposal) /\ Len(candidates) <= MaxCandidates
  /\ receipt = None => written = {}
  /\ receipt # None => \/ receipt = Raised /\ written = {}
                       \/ /\ receipt = Held(Choice) /\ written = IF Choice = None THEN {} ELSE {Swarm!Considered[Choice]}
                          /\ Choice # None => Swarm!Considered[Choice].path # "absolute"

\* The cells depend on the candidates only.
LEMMA SameTree ==
    ASSUME candidates' = candidates
    PROVE  Swarm!Tree' = Swarm!Tree /\ Swarm!Considered' = Swarm!Considered /\ Choice' = Choice
<1>1. Swarm!Considered' = Swarm!Considered
  BY DEF Swarm!Considered
<1>2. \A i : Swarm!Passes(i)' = Swarm!Passes(i)
  BY <1>1 DEF Swarm!Passes, Swarm!total_cost
<1>3. Swarm!Tree' = Swarm!Tree
  BY <1>1, <1>2 DEF Swarm!Tree
<1> QED
  BY <1>1, <1>3 DEF Choice

\* What a tournament that was not aborted leaves is a receipt.
LEMMA HeldReceipt ==
    ASSUME Swarm!SwarmAssumption, candidates \in Seq(Swarm!Proposal)
    PROVE  Held(Choice) \in Swarm!Receipt /\ Len(Held(Choice).cells) <= SwarmCells
<1>1. Choice \in Nat \cup {None}
  <2>1. Choice = None \/ Choice \in 1..Len(Swarm!Considered)
    BY SelectedBest DEF Choice
  <2> QED
    BY <2>1
<1>2. Swarm!Tree \in Seq(Swarm!Cell) /\ Len(Swarm!Tree) <= SwarmCells
  BY TreeCells, Considering
<1> QED
  BY <1>1, <1>2 DEF Held, Swarm!Receipt

\* Proposing and the tournament keep the invariant.
LEMMA SwarmKept ==
    ASSUME Swarm!SwarmAssumption, SwarmInv, [Swarm!Next]_(Swarm!vars)
    PROVE  SwarmInv'
<1>1. ASSUME NEW p \in Swarm!Proposal, Swarm!Propose(p) PROVE SwarmInv'
  <2>1. candidates' \in Seq(Swarm!Proposal) /\ Len(candidates') <= MaxCandidates
    BY <1>1 DEF SwarmInv, Swarm!Propose, Swarm!SwarmAssumption
  <2> QED
    BY <1>1, <2>1 DEF SwarmInv, Swarm!Propose
<1>2. CASE Swarm!Tournament
  <2>1. candidates' = candidates /\ receipt = None /\ written = {}
    BY <1>2 DEF SwarmInv, Swarm!Tournament
  <2>2. Swarm!Tree' = Swarm!Tree /\ Swarm!Considered' = Swarm!Considered /\ Choice' = Choice
    BY <2>1, SameTree
  <2>3. CASE Choice # None /\ Swarm!Considered[Choice].path = "absolute"
    BY <1>2, <2>1, <2>2, <2>3 DEF SwarmInv, Swarm!Tournament, Choice, Raised
  <2>4. CASE ~(Choice # None /\ Swarm!Considered[Choice].path = "absolute")
    <3>1. receipt' = Held(Choice) /\ written' = IF Choice = None THEN {} ELSE {Swarm!Considered[Choice]}
      BY <1>2, <2>1, <2>4 DEF Swarm!Tournament, Choice, Held
    <3>2. Held(Choice)' = Held(Choice)
      BY <2>2 DEF Held
    <3>3. Held(Choice) # None
      BY HeldReceipt DEF SwarmInv, Swarm!SwarmAssumption
    <3> QED
      BY <2>1, <2>2, <2>4, <3>1, <3>2, <3>3 DEF SwarmInv
  <2> QED
    BY <2>3, <2>4
<1>3. CASE UNCHANGED Swarm!vars
  <2>1. candidates' = candidates /\ receipt' = receipt /\ written' = written
    BY <1>3 DEF Swarm!vars
  <2>2. Swarm!Tree' = Swarm!Tree /\ Swarm!Considered' = Swarm!Considered /\ Choice' = Choice
    BY <2>1, SameTree
  <2> QED
    BY <2>1, <2>2 DEF SwarmInv, Held, Raised
<1> QED
  BY <1>1, <1>2, <1>3 DEF Swarm!Next

\* With costs that are not negative, what the passed cells cost stays below what all of
\* them cost, and below the budget.
LEMMA PassedAffordable ==
    ASSUME Swarm!SwarmAssumption, candidates \in Seq(Swarm!Proposal), \A i \in DOMAIN candidates : candidates[i].cost >= 0
    PROVE  Swarm!PassedCost(Swarm!Tree) <= SwarmBudget
<1> DEFINE all == Swarm!Considered
           n == Len(all)
           spent == Swarm!Spent(Swarm!Tree)
           cost == [i \in 1..n |-> spent[i].cost]
<1>1. n \in Nat /\ SwarmBudget \in Nat
      /\ \A i \in 1..n : all[i].cost \in Int /\ all[i].cost >= 0
  <2>1. \A i \in 1..n : all[i] \in Swarm!Proposal /\ all[i] = candidates[i] /\ i \in DOMAIN candidates
    BY Considering
  <2> QED
    BY <2>1, Considering, Proposed DEF Swarm!SwarmAssumption
<1>2. DOMAIN spent = 1..n /\ \A i \in 1..n : spent[i].cost = IF Swarm!Passes(i) THEN all[i].cost ELSE 0
  BY TreeCells DEF Swarm!Spent
<1> HIDE DEF n, all, spent
<1>3. (\A i \in 1..n : spent[i].cost \in Int) /\ cost \in [1..n -> Int] /\ \A i \in 1..n : cost[i] = spent[i].cost
  BY <1>1, <1>2
<1> HIDE DEF cost
<1>4. PICK total \in [0..n -> Int] :
        total[0] = 0 /\ \A k \in 1..n : total[k] = total[k - 1] + all[k].cost /\ Swarm!total_cost(k) = total[k]
  BY Totals DEF n, all
<1>5. PICK passed \in [0..n -> Int] : passed[0] = 0 /\ \A k \in 1..n : passed[k] = passed[k - 1] + cost[k]
  BY <1>1, <1>3, Adding
<1>6. Swarm!PassedCost(Swarm!Tree) = passed[n]
  <2>1. \A k \in 1..n : passed[k] = passed[k - 1] + spent[k].cost
    BY <1>3, <1>5
  <2>2. passed[0] = 0 /\ DOMAIN spent = 1..n /\ n \in Nat
    BY <1>1, <1>2, <1>5
  <2>3. \A i \in 1..n : spent[i].cost \in Int
    BY <1>3
  <2>4. Swarm!FoldLeft(Swarm!AddCost, 0, spent) = passed[n]
    BY <2>1, <2>2, <2>3, CostFolds, Zenon
  <2> QED
    BY <2>4 DEF Swarm!PassedCost, spent
<1> DEFINE bad == {k \in Nat : k <= n /\ ~(passed[k] <= total[k] /\ passed[k] <= SwarmBudget)}
<1>7. bad = {}
  <2> SUFFICES ASSUME bad # {} PROVE FALSE
    OBVIOUS
  <2>1. PICK k \in bad : \A other \in bad : k <= other
    BY Ledger!LeastOf
  <2>2. k # 0
    BY <1>1, <1>4, <1>5
  <2>3. k \in 1..n /\ k - 1 \in Nat /\ k - 1 \in 0..n /\ k \in 0..n
    BY <1>1, <2>2
  <2>4. k - 1 \notin bad
    <3> HIDE DEF bad
    <3> QED
      BY <2>1, <2>3
  <2>5. passed[k - 1] <= total[k - 1] /\ passed[k - 1] <= SwarmBudget
    BY <1>1, <2>3, <2>4
  <2>6. /\ passed[k - 1] \in Int /\ total[k - 1] \in Int /\ passed[k] = passed[k - 1] + cost[k]
        /\ total[k] = total[k - 1] + all[k].cost /\ Swarm!total_cost(k) = total[k]
    BY <1>4, <1>5, <2>3
  <2>7. all[k].cost \in Int /\ all[k].cost >= 0 /\ cost[k] = IF Swarm!Passes(k) THEN all[k].cost ELSE 0
    BY <1>1, <1>2, <1>3, <2>3
  <2>8. Swarm!Passes(k) => total[k] <= SwarmBudget
    BY <2>6 DEF Swarm!Passes
  <2>9. passed[k] <= total[k] /\ passed[k] <= SwarmBudget
    <3> HIDE DEF bad
    <3>1. CASE Swarm!Passes(k)
      <4>1. cost[k] = all[k].cost /\ total[k] <= SwarmBudget
        BY <2>7, <2>8, <3>1
      <4>2. /\ passed[k] = passed[k - 1] + all[k].cost /\ total[k] = total[k - 1] + all[k].cost
            /\ all[k].cost \in Int /\ passed[k - 1] \in Int /\ total[k - 1] \in Int /\ SwarmBudget \in Nat
        BY <1>1, <2>6, <2>7, <4>1
      <4> QED
        BY <2>5, <4>1, <4>2
    <3>2. CASE ~Swarm!Passes(k)
      <4>1. cost[k] = 0
        BY <2>7, <3>2
      <4>2. /\ passed[k] = passed[k - 1] /\ total[k] = total[k - 1] + all[k].cost
            /\ all[k].cost \in Int /\ all[k].cost >= 0 /\ total[k - 1] \in Int /\ passed[k - 1] \in Int
        BY <2>6, <2>7, <4>1
      <4> QED
        BY <2>5, <4>2
    <3> QED
      BY <3>1, <3>2
  <2> QED
    BY <2>9
<1>8. n \notin bad
  BY <1>7
<1> QED
  BY <1>1, <1>6, <1>8

\* The invariant gives what is checked.
LEMMA SwarmRules ==
    ASSUME Swarm!SwarmAssumption, SwarmInv
    PROVE  Swarm!TypeOK /\ Swarm!AdmittedIsBest /\ Swarm!PassedWithinBudget /\ Swarm!ReceiptReplays
<1> DEFINE n == Len(Swarm!Considered)
<1>0. candidates \in Seq(Swarm!Proposal) /\ SwarmBudget \in Nat /\ SwarmCells \in Nat
  BY DEF SwarmInv, Swarm!SwarmAssumption
<1>1. CASE receipt = None
  BY <1>1 DEF SwarmInv, Swarm!TypeOK, Swarm!AdmittedIsBest, Swarm!PassedWithinBudget, Swarm!ReceiptReplays
<1>2. CASE receipt = Raised /\ written = {}
  <2>1. Raised \in Swarm!Receipt /\ Raised.cells = <<>> /\ Raised.selected = None
    BY DEF Raised, Swarm!Receipt
  <2>2. Swarm!Eligible(Swarm!Range(<<>>)) = {}
    BY DEF Swarm!Eligible, Swarm!Range
  <2>3. Swarm!ReceiptReplays
    BY <1>2, <2>1, <2>2 DEF Swarm!ReceiptReplays, Swarm!Replays, Swarm!Selected
  <2>4. Swarm!PassedCost(<<>>) = 0
    <3> DEFINE none == Swarm!Spent(<<>>)
               total == [k \in 0..0 |-> 0]
    <3>1. DOMAIN none = 1..0 /\ 1..0 = {}
      BY DEF Swarm!Spent
    <3>2. total[0] = 0 /\ 0 \in Nat
      OBVIOUS
    <3> HIDE DEF none, total
    <3>3. (\A i \in 1..0 : none[i].cost \in Int) /\ \A k \in 1..0 : total[k] = total[k - 1] + none[k].cost
      BY <3>1
    <3>4. Swarm!FoldLeft(Swarm!AddCost, 0, none) = total[0]
      BY <3>1, <3>2, <3>3, CostFolds, Zenon
    <3> QED
      BY <3>2, <3>4 DEF Swarm!PassedCost, none
  <2>5. Swarm!PassedWithinBudget
    BY <1>0, <1>2, <2>1, <2>4 DEF Swarm!PassedWithinBudget
  <2>6. Swarm!TypeOK
    BY <1>0, <1>2, <2>1 DEF Swarm!TypeOK, SwarmInv
  <2> QED
    BY <1>2, <2>3, <2>5, <2>6 DEF Swarm!AdmittedIsBest
<1>3. CASE /\ receipt = Held(Choice) /\ written = IF Choice = None THEN {} ELSE {Swarm!Considered[Choice]}
           /\ Choice # None => Swarm!Considered[Choice].path # "absolute"
  <2>1. Held(Choice).cells = Swarm!Tree /\ Held(Choice).selected = Choice
    BY DEF Held
  <2>2. Swarm!ReceiptReplays
    BY <1>3, <2>1 DEF Swarm!ReceiptReplays, Swarm!Replays, Choice
  <2>3. Swarm!PassedWithinBudget
    BY <1>0, <1>3, <2>1, PassedAffordable DEF Swarm!PassedWithinBudget
  <2>4. Swarm!TypeOK
    BY <1>0, <1>3, HeldReceipt DEF Swarm!TypeOK, SwarmInv
  <2>5. ASSUME NEW w \in written
        PROVE  /\ w.action = "write" /\ w.path = "inside" /\ w.fits /\ w.cost >= 0
               /\ \A i \in DOMAIN receipt.cells :
                    LET c == receipt.cells[i].proposal IN
                    c.score > w.score /\ c.action = "write" /\ c.fits /\ c.path \in {"inside", "absolute"} /\ c.cost >= 0
                      => Swarm!total_cost(i) > SwarmBudget
    <3>1. Choice # None /\ w = Swarm!Considered[Choice]
      BY <1>3, <2>5
    <3>2. /\ Choice \in 1..n /\ Swarm!Passes(Choice) /\ w.action # "reject"
          /\ \A j \in 1..n : Swarm!Passes(j) /\ Swarm!Considered[j].action # "reject" /\ j # Choice
                               => Swarm!Better(Swarm!Tree[Choice], Swarm!Tree[j])
      BY <1>0, <3>1, SelectedBest DEF Choice
    <3>3. w \in Swarm!Proposal /\ w.path # "absolute" /\ \A i \in 1..n : Swarm!Considered[i] \in Swarm!Proposal
      BY <1>0, <1>3, <3>1, <3>2, Considering
    <3>4. w.action = "write" /\ w.path = "inside" /\ w.fits /\ w.cost >= 0
      BY <3>1, <3>2, <3>3, Proposed DEF Swarm!Passes
    <3>5. ASSUME NEW i \in 1..n, Swarm!Considered[i].score > w.score, Swarm!Considered[i].action = "write",
                 Swarm!Considered[i].fits, Swarm!Considered[i].path \in {"inside", "absolute"}, Swarm!Considered[i].cost >= 0,
                 Swarm!total_cost(i) <= SwarmBudget
          PROVE  FALSE
      <4>1. Swarm!Passes(i) /\ Swarm!Considered[i].action # "reject"
        BY <3>5 DEF Swarm!Passes
      <4>2. Swarm!Considered[i].score \in Int /\ w.score \in Int
        BY <3>3, Proposed
      <4>3. i # Choice
        BY <3>1, <3>5, <4>2
      <4>4. Swarm!Better(Swarm!Tree[Choice], Swarm!Tree[i])
        BY <3>2, <4>1, <4>3
      <4>5. Swarm!Tree[Choice].proposal = w /\ Swarm!Tree[i].proposal = Swarm!Considered[i]
        BY <1>0, <3>1, <3>2, TreeCells
      <4> QED
        BY <3>5, <4>2, <4>4, <4>5 DEF Swarm!Better
    <3>6. \A i \in 1..n : Swarm!total_cost(i) \in Int
      <4>1. PICK total \in [0..n -> Int] : \A k \in 1..n : Swarm!total_cost(k) = total[k]
        BY <1>0, Totals
      <4>2. \A k \in 1..n : k \in 0..n
        BY <1>0, Considering
      <4> QED
        BY <4>1, <4>2
    <3>7. DOMAIN receipt.cells = 1..n /\ \A i \in 1..n : receipt.cells[i].proposal = Swarm!Considered[i]
      BY <1>0, <1>3, <2>1, TreeCells
    <3> HIDE DEF n
    <3> QED
      BY <1>0, <3>4, <3>5, <3>6, <3>7
  <2> QED
    BY <2>2, <2>3, <2>4, <2>5 DEF Swarm!AdmittedIsBest
<1> QED
  BY <1>1, <1>2, <1>3 DEF SwarmInv

\* A behaviour of scenario "swarm" is one of its component.
LEMMA SwarmAlone ==
    /\ Spec /\ scenario = "swarm" => Swarm!Spec /\ [](scenario = "swarm")
    /\ Spec /\ ~(scenario = "swarm") => []~(scenario = "swarm")
<1>1. Init /\ scenario = "swarm" => Swarm!Init
  BY DEF Init
<1>2. UNCHANGED vars => UNCHANGED <<scenario, Swarm!vars>>
  BY DEF vars, swarmVars, Swarm!vars
<1>3. scenario = "swarm" /\ [Next]_vars => (scenario = "swarm")' /\ [Swarm!Next]_(Swarm!vars)
  BY <1>2 DEF Next, LedgerStep, KernelStep, RegistryStep, BootStep, MeshStep, SwarmStep
<1>4. ~(scenario = "swarm") /\ [Next]_vars => ~(scenario = "swarm")'
  BY DEF Next, vars, LedgerStep, KernelStep, RegistryStep, BootStep, MeshStep, SwarmStep
<1> QED
  BY <1>1, <1>3, <1>4, PTL DEF Spec, Swarm!Spec

\* Whatever the proposals, their costs and scores, and the budget: the candidate Genesis
\* admitted is beaten by no eligible one, the candidates that passed were affordable
\* together when no cost is negative (tournament), and the receipt replays to its
\* selection (replay).
THEOREM AdmissionAlwaysFollowsRules == Spec => []AdmissionFollowsRules
<1>0. Swarm!SwarmAssumption
  BY RulesAssumption
<1>1. Swarm!Init => SwarmInv
  BY <1>0 DEF Swarm!Init, SwarmInv, Swarm!SwarmAssumption
<1>2. SwarmInv /\ [Swarm!Next]_(Swarm!vars) => SwarmInv'
  BY <1>0, SwarmKept
<1>3. SwarmInv => AdmissionFollowsRules
  BY <1>0, SwarmRules DEF AdmissionFollowsRules
<1>4. ~(scenario = "swarm") => AdmissionFollowsRules
  BY DEF AdmissionFollowsRules
<1> QED
  BY <1>1, <1>2, <1>3, <1>4, SwarmAlone, PTL DEF Swarm!Spec

-----------------------------------------------------------------------------
(* Finite sets: least members of a family, maxima, and sums.               *)

\* A family of finite sets that is not empty has a smallest member.
LEMMA Smallest ==
    ASSUME NEW F, F # {}, \A T \in F : IsFiniteSet(T)
    PROVE  \E T \in F : \A U \in F : Cardinality(T) <= Cardinality(U)
<1> DEFINE sizes == {Cardinality(T) : T \in F}
<1>1. \A T \in F : Cardinality(T) \in Nat
  BY FS_CardinalityType
<1>2. sizes \in SUBSET Nat /\ sizes # {}
  BY <1>1
<1>3. PICK least \in sizes : \A other \in sizes : least <= other
  BY <1>2, Ledger!LeastOf
<1> QED
  BY <1>3

\* Of finitely many things with two numbers each, one comes before no other in none of
\* the orders: none has a greater first number, or the same and a greater second one.
LEMMA Topmost ==
    ASSUME NEW C, IsFiniteSet(C), C # {}, NEW a \in [C -> Int], NEW p \in [C -> Int]
    PROVE  \E v \in C : \A w \in C : ~(a[w] > a[v] \/ (a[w] = a[v] /\ p[w] > p[v]))
<1> DEFINE Above(w, v) == a[w] > a[v] \/ (a[w] = a[v] /\ p[w] > p[v])
           F == {T \in SUBSET C : T # {} /\ ~\E v \in T : \A w \in T : ~Above(w, v)}
<1>0. /\ \A v \in C : ~Above(v, v)
      /\ \A u, v, w \in C : Above(u, v) /\ Above(v, w) => Above(u, w)
      /\ \A u, v \in C : Above(u, v) => ~Above(v, u)
      /\ \A u, v, w \in C : ~Above(u, v) /\ ~Above(v, w) => ~Above(u, w)
  OBVIOUS
<1> HIDE DEF Above
<1>1. F = {}
  <2> SUFFICES ASSUME F # {} PROVE FALSE
    OBVIOUS
  <2>1. \A T \in F : IsFiniteSet(T) /\ T \in SUBSET C
    BY FS_Subset
  <2>2. PICK T \in F : \A U \in F : Cardinality(T) <= Cardinality(U)
    <3> HIDE DEF F
    <3> QED
      BY <2>1, Smallest
  <2>3. PICK x \in T : TRUE
    OBVIOUS
  <2> DEFINE U == T \ {x}
  <2>4. U \notin F
    <3>1. IsFiniteSet(T) /\ Cardinality(T) \in Nat /\ Cardinality(U) = Cardinality(T) - 1
      BY <2>1, <2>3, FS_CardinalityType, FS_RemoveElement
    <3> HIDE DEF F, U
    <3> QED
      BY <2>2, <3>1
  <2>5. CASE U = {}
    <3>1. T = {x} /\ x \in C
      BY <2>3, <2>5
    <3> QED
      BY <1>0, <3>1
  <2>6. CASE U # {}
    <3>1. PICK v \in U : \A w \in U : ~Above(w, v)
      BY <2>4, <2>6
    <3>2. CASE Above(x, v)
      <4>1. \A w \in T : ~Above(w, x)
        BY <1>0, <2>3, <3>1, <3>2
      <4> QED
        BY <2>3, <4>1
    <3>3. CASE ~Above(x, v)
      <4>1. \A w \in T : ~Above(w, v)
        BY <3>1, <3>3
      <4> QED
        BY <3>1, <4>1
    <3> QED
      BY <3>2, <3>3
  <2> QED
    BY <2>5, <2>6
<1>2. C \notin F /\ C \in SUBSET C
  BY <1>1
<1> QED
  BY <1>2 DEF Above

\* Max is the greatest of finitely many numbers.
LEMMA GreatestOf ==
    ASSUME NEW S \in SUBSET Int, IsFiniteSet(S), S # {}
    PROVE  Mesh!Max(S) \in S /\ \A x \in S : x <= Mesh!Max(S)
<1> DEFINE a == [x \in S |-> x]
<1>1. a \in [S -> Int] /\ \A x \in S : a[x] = x
  OBVIOUS
<1> HIDE DEF a
<1>2. PICK v \in S : \A w \in S : ~(a[w] > a[v] \/ (a[w] = a[v] /\ a[w] > a[v]))
  BY <1>1, Topmost, Zenon
<1>3. \A w \in S : v >= w
  BY <1>1, <1>2
<1>4. Mesh!Max(S) \in S /\ \A w \in S : Mesh!Max(S) >= w
  BY <1>3 DEF Mesh!Max
<1> QED
  BY <1>4

-----------------------------------------------------------------------------
Sum(S) == Mesh!FoldSet(Mesh!AddSupport, 0, S)
Some(s) == CHOOSE x \in s : TRUE
\* f sums the supports of every set of claims in S.
Sums(f, S) ==
  \A s \in SUBSET S : f[s] = IF s = {} THEN 0 ELSE f[s \ {Some(s)}] + Some(s).support
Supported(S) == IsFiniteSet(S) /\ \A c \in S : c.support \in Int

\* There is such an f.
LEMMA SumExists ==
    ASSUME NEW S, Supported(S)
    PROVE  \E f \in [SUBSET S -> Int] : Sums(f, S)
<1> DEFINE Small(k) == {s \in SUBSET S : Cardinality(s) <= k}
           Value(f, s) == IF s = {} THEN 0 ELSE f[s \ {Some(s)}] + Some(s).support
           Good(k) == \E f \in [Small(k) -> Int] : \A s \in Small(k) : f[s] = Value(f, s)
           bad == {k \in Nat : ~Good(k)}
<1>1. \A s \in SUBSET S : IsFiniteSet(s) /\ Cardinality(s) \in Nat /\ (Cardinality(s) = 0 => s = {})
  BY FS_Subset, FS_CardinalityType, FS_EmptySet DEF Supported
<1>2. \A s \in SUBSET S : s # {} => /\ Some(s) \in s /\ Some(s).support \in Int /\ s \ {Some(s)} \in SUBSET S
                                    /\ Cardinality(s \ {Some(s)}) = Cardinality(s) - 1
  <2> SUFFICES ASSUME NEW s \in SUBSET S, s # {}
               PROVE  /\ Some(s) \in s /\ Some(s).support \in Int /\ s \ {Some(s)} \in SUBSET S
                      /\ Cardinality(s \ {Some(s)}) = Cardinality(s) - 1
    OBVIOUS
  <2>1. Some(s) \in s
    BY DEF Some
  <2> QED
    BY <1>1, <2>1, FS_RemoveElement DEF Supported
<1>3. Good(0)
  <2> DEFINE f == [s \in Small(0) |-> 0]
  <2>1. \A s \in Small(0) : s = {}
    BY <1>1
  <2>2. f \in [Small(0) -> Int] /\ \A s \in Small(0) : f[s] = Value(f, s)
    BY <2>1
  <2> HIDE DEF f
  <2> QED
    BY <2>2
<1>4. ASSUME NEW k \in Nat, Good(k) PROVE Good(k + 1)
  <2>1. PICK f \in [Small(k) -> Int] : \A s \in Small(k) : f[s] = Value(f, s)
    BY <1>4
  <2> DEFINE g == [s \in Small(k + 1) |-> IF s \in Small(k) THEN f[s] ELSE Value(f, s)]
  <2>2. \A s \in Small(k + 1) : s # {} => s \ {Some(s)} \in Small(k)
    BY <1>1, <1>2
  <2>3. \A s \in Small(k) : s \in Small(k + 1)
    BY <1>1
  <2> HIDE DEF Small
  <2>4. ASSUME NEW s \in Small(k + 1) PROVE Value(f, s) \in Int
    <3>1. s \in SUBSET S
      BY DEF Small
    <3> QED
      BY <1>2, <2>1, <2>2, <3>1
  <2>5. g \in [Small(k + 1) -> Int]
    BY <2>1, <2>4
  <2>6. \A s \in Small(k + 1) : g[s] = Value(f, s)
    BY <2>1
  <2>7. \A s \in Small(k) : g[s] = f[s]
    BY <2>3
  <2> HIDE DEF g
  <2>8. \A s \in Small(k + 1) : g[s] = Value(g, s)
    BY <2>2, <2>6, <2>7
  <2> QED
    BY <2>5, <2>8
<1> HIDE DEF Good
<1>5. bad = {}
  <2> SUFFICES ASSUME bad # {} PROVE FALSE
    OBVIOUS
  <2>1. PICK k \in bad : \A other \in bad : k <= other
    BY Ledger!LeastOf
  <2>2. k # 0
    BY <1>3
  <2>3. k - 1 \in Nat /\ k - 1 \notin bad /\ (k - 1) + 1 = k
    BY <2>1, <2>2
  <2> QED
    BY <1>4, <2>3
<1>6. Cardinality(S) \in Nat /\ Small(Cardinality(S)) = SUBSET S
  BY FS_Subset, FS_CardinalityType DEF Supported
<1>7. Good(Cardinality(S))
  BY <1>5, <1>6
<1> HIDE DEF Small
<1> QED
  BY <1>6, <1>7 DEF Good, Sums

\* Two such functions agree on what both sum.
LEMMA SumsAgree ==
    ASSUME NEW S, Supported(S), NEW T \in SUBSET S, NEW f, NEW g, Sums(f, S), Sums(g, T)
    PROVE  f[T] = g[T]
<1> DEFINE F == {s \in SUBSET T : f[s] # g[s]}
<1>1. F = {}
  <2> SUFFICES ASSUME F # {} PROVE FALSE
    OBVIOUS
  <2>1. \A s \in F : IsFiniteSet(s) /\ s \in SUBSET S
    BY FS_Subset DEF Supported
  <2>2. PICK s \in F : \A U \in F : Cardinality(s) <= Cardinality(U)
    <3> HIDE DEF F
    <3> QED
      BY <2>1, Smallest
  <2>3. s # {}
    BY <2>1 DEF Sums
  <2>4. Some(s) \in s
    BY <2>3 DEF Some
  <2>5. Cardinality(s) \in Nat /\ Cardinality(s \ {Some(s)}) = Cardinality(s) - 1
    BY <2>1, <2>4, FS_RemoveElement, FS_CardinalityType
  <2>6. s \ {Some(s)} \notin F
    <3> HIDE DEF F
    <3> QED
      BY <2>2, <2>5
  <2>7. f[s \ {Some(s)}] = g[s \ {Some(s)}]
    BY <2>6
  <2> QED
    BY <2>1, <2>3, <2>7 DEF Sums
<1> QED
  BY <1>1

\* Sum takes some claim and sums the others.
LEMMA SumOfSome ==
    ASSUME NEW S, Supported(S)
    PROVE  Sum(S) \in Int /\ Sum(S) = IF S = {} THEN 0 ELSE Sum(S \ {Some(S)}) + Some(S).support
<1> DEFINE Step(f, T) == [s \in SUBSET T |-> IF s = {} THEN 0 ELSE Mesh!AddSupport(Some(s), f[s \ {Some(s)}])]
           Iter(T) == CHOOSE f : f = Step(f, T)
<1>1. \A T : Sum(T) = Iter(T)[T]
  BY DEF Sum, Some, Mesh!FoldSet, Mesh!MapThenFoldSet
<1>2. ASSUME NEW T, Supported(T) PROVE Sums(Iter(T), T) /\ Iter(T)[T] \in Int
  <2>1. PICK f \in [SUBSET T -> Int] : Sums(f, T)
    BY <1>2, SumExists
  <2>2. f = Step(f, T)
    BY <2>1 DEF Sums, Mesh!AddSupport
  <2>3. Iter(T) = Step(Iter(T), T)
    BY <2>2
  <2> HIDE DEF Iter
  <2>4. Sums(Iter(T), T)
    BY <2>3 DEF Sums, Mesh!AddSupport
  <2>5. Iter(T)[T] = f[T] /\ T \in SUBSET T
    BY <1>2, <2>1, <2>4, SumsAgree
  <2> QED
    BY <2>1, <2>4, <2>5
<1> HIDE DEF Iter
<1>3. CASE S = {}
  BY <1>1, <1>2, <1>3 DEF Sums
<1>4. CASE S # {}
  <2> DEFINE T == S \ {Some(S)}
  <2>1. T \in SUBSET S /\ Supported(T) /\ S \in SUBSET S
    BY FS_Subset DEF Supported
  <2>2. Sums(Iter(S), S) /\ Sums(Iter(T), T)
    BY <1>2, <2>1
  <2> HIDE DEF T
  <2>3. Iter(S)[T] = Iter(T)[T]
    BY <2>1, <2>2, SumsAgree
  <2>4. Iter(S)[S] = Iter(S)[T] + Some(S).support
    BY <1>4, <2>1, <2>2 DEF Sums, T
  <2> QED
    BY <1>1, <1>2, <1>4, <2>3, <2>4 DEF T
<1> QED
  BY <1>3, <1>4

\* Any claim can be summed last.
LEMMA SumOfAny ==
    ASSUME NEW S, Supported(S), NEW c \in S
    PROVE  Sum(S) = Sum(S \ {c}) + c.support
<1> DEFINE F == {T \in SUBSET S : \E x \in T : Sum(T) # Sum(T \ {x}) + x.support}
<1>1. F = {}
  <2> SUFFICES ASSUME F # {} PROVE FALSE
    OBVIOUS
  <2>0. \A T \in SUBSET S : Supported(T) /\ IsFiniteSet(T)
    BY FS_Subset DEF Supported
  <2>1. PICK T \in F : \A U \in F : Cardinality(T) <= Cardinality(U)
    <3>1. \A T \in F : IsFiniteSet(T)
      BY <2>0
    <3> HIDE DEF F
    <3> QED
      BY <3>1, Smallest
  <2>2. PICK x \in T : Sum(T) # Sum(T \ {x}) + x.support
    OBVIOUS
  <2> DEFINE y == Some(T)
  <2>3. y \in T /\ Sum(T) = Sum(T \ {y}) + y.support
    BY <2>0, SumOfSome DEF Some
  <2>4. x # y
    BY <2>2, <2>3
  <2> HIDE DEF y
  <2>5. Cardinality(T) \in Nat /\ Cardinality(T \ {x}) = Cardinality(T) - 1 /\ Cardinality(T \ {y}) = Cardinality(T) - 1
    BY <2>0, <2>2, <2>3, FS_RemoveElement, FS_CardinalityType
  <2>6. T \ {x} \notin F /\ T \ {y} \notin F
    <3> HIDE DEF F
    <3> QED
      BY <2>1, <2>5
  <2>7. Sum(T \ {x}) = Sum((T \ {x}) \ {y}) + y.support
    BY <2>3, <2>4, <2>6
  <2>8. Sum(T \ {y}) = Sum((T \ {y}) \ {x}) + x.support
    BY <2>2, <2>4, <2>6
  <2>9. (T \ {x}) \ {y} = (T \ {y}) \ {x}
    OBVIOUS
  <2>10. Sum((T \ {y}) \ {x}) \in Int /\ x.support \in Int /\ y.support \in Int
    <3>1. (T \ {y}) \ {x} \in SUBSET S /\ x \in S /\ y \in S
      BY <2>2, <2>3
    <3> QED
      BY <2>0, <3>1, SumOfSome DEF Supported
  <2> HIDE DEF F
  <2>11. Sum(T) = Sum(T \ {x}) + x.support
    <3>1. PICK r \in Int : r = Sum((T \ {y}) \ {x})
      BY <2>10
    <3>2. Sum(T) = (r + x.support) + y.support
      BY <2>3, <2>8, <3>1
    <3>3. Sum(T \ {x}) = r + y.support
      BY <2>7, <2>9, <3>1
    <3> QED
      BY <2>10, <3>2, <3>3
  <2> QED
    BY <2>2, <2>11
<1>2. S \notin F /\ S \in SUBSET S
  BY <1>1
<1> QED
  BY <1>2

\* Supports of at least one add up to at least one.
LEMMA SumPositive ==
    ASSUME NEW S, Supported(S), \A c \in S : c.support >= 1
    PROVE  S # {} => Sum(S) >= 1
<1> DEFINE F == {T \in SUBSET S : T # {} /\ ~(Sum(T) >= 1)}
<1>1. F = {}
  <2> SUFFICES ASSUME F # {} PROVE FALSE
    OBVIOUS
  <2>0. \A T \in SUBSET S : Supported(T) /\ IsFiniteSet(T)
    BY FS_Subset DEF Supported
  <2>1. PICK T \in F : \A U \in F : Cardinality(T) <= Cardinality(U)
    <3>1. \A T \in F : IsFiniteSet(T)
      BY <2>0
    <3> HIDE DEF F
    <3> QED
      BY <3>1, Smallest
  <2>2. PICK x \in T : TRUE
    OBVIOUS
  <2>3. /\ Sum(T) = Sum(T \ {x}) + x.support /\ x.support \in Int /\ x.support >= 1
        /\ Sum(T \ {x}) \in Int /\ (T \ {x} = {} => Sum(T \ {x}) = 0)
    <3>1. T \ {x} \in SUBSET S /\ T \in SUBSET S /\ x \in S
      OBVIOUS
    <3> QED
      BY <2>0, <2>2, <3>1, SumOfAny, SumOfSome DEF Supported
  <2>4. Cardinality(T) \in Nat /\ Cardinality(T \ {x}) = Cardinality(T) - 1
    BY <2>0, <2>2, FS_RemoveElement, FS_CardinalityType
  <2>5. T \ {x} \notin F
    <3> HIDE DEF F
    <3> QED
      BY <2>1, <2>4
  <2>6. Sum(T \ {x}) >= 0
    BY <2>3, <2>5
  <2> QED
    BY <2>3, <2>6
<1>2. S \notin F /\ S \in SUBSET S
  BY <1>1
<1> QED
  BY <1>2

-----------------------------------------------------------------------------
\* The images of finitely many things are finitely many.
LEMMA ImageFinite ==
    ASSUME NEW S, IsFiniteSet(S), NEW f, DOMAIN f = S, NEW T, T \subseteq {f[x] : x \in S}
    PROVE  IsFiniteSet(T)
<1> DEFINE all == {f[x] : x \in S}
           g == [x \in S |-> f[x]]
<1>1. g \in Surjection(S, all)
  BY DEF Surjection
<1>2. IsFiniteSet(all)
  BY <1>1, FS_Surjection
<1> QED
  BY <1>2, FS_Subset

MeshFacts == claims \subseteq Mesh!Claim /\ IsFiniteSet(claims)

\* The claims for a candidate.
LEMMA ForCandidate ==
    ASSUME Mesh!MeshAssumption, MeshFacts, NEW ns, NEW ctx, NEW v \in Mesh!Candidates(ns, ctx)
    PROVE  /\ Mesh!pressure(ns, ctx, v) \in Int /\ Mesh!pressure(ns, ctx, v) >= 1
           /\ Mesh!authority(ns, ctx, v) \in Int
           /\ \E c \in Mesh!For(ns, ctx, v) : c.authority = Mesh!authority(ns, ctx, v)
           /\ \A c \in Mesh!For(ns, ctx, v) : c.authority <= Mesh!authority(ns, ctx, v)
<1> DEFINE S == Mesh!For(ns, ctx, v)
           f == [c \in S |-> c.authority]
           A == {c.authority : c \in S}
<1>1. S \in SUBSET claims /\ S # {} /\ \A c \in S : c.support >= 1
  BY DEF Mesh!For, Mesh!Valid, Mesh!verify_claim, Mesh!Candidates
<1>2. \A c \in claims : c.support \in Int /\ c.authority \in Int
  BY DEF MeshFacts, Mesh!Claim, Mesh!MeshAssumption
<1>3. IsFiniteSet(S)
  BY <1>1, FS_Subset DEF MeshFacts
<1> HIDE DEF S
<1>4. Sum(S) \in Int /\ Sum(S) >= 1
  BY <1>1, <1>2, <1>3, SumOfSome, SumPositive DEF Supported
<1>5. IsFiniteSet(A)
  <2>1. DOMAIN f = S /\ A \subseteq {f[c] : c \in S}
    OBVIOUS
  <2> HIDE DEF f, A
  <2> QED
    BY <1>3, <2>1, ImageFinite
<1>6. A \in SUBSET Int /\ A # {}
  BY <1>1, <1>2
<1>7. Mesh!Max(A) \in A /\ \A x \in A : x <= Mesh!Max(A)
  BY <1>5, <1>6, GreatestOf
<1>8. Mesh!pressure(ns, ctx, v) = Sum(S) /\ Mesh!authority(ns, ctx, v) = Mesh!Max(A)
  BY DEF Mesh!pressure, Mesh!authority, Sum, S
<1> QED
  BY <1>4, <1>6, <1>7, <1>8 DEF S

\* The candidates are finitely many.
LEMMA CandidatesFinite ==
    ASSUME MeshFacts, NEW ns, NEW ctx
    PROVE  IsFiniteSet(Mesh!Candidates(ns, ctx))
<1> DEFINE f == [c \in claims |-> c.value]
<1>1. Mesh!Candidates(ns, ctx) \subseteq {f[c] : c \in claims}
  BY DEF Mesh!Candidates, Mesh!For, Mesh!Valid
<1>2. DOMAIN f = claims
  OBVIOUS
<1> HIDE DEF f
<1> QED
  BY <1>1, <1>2, ImageFinite DEF MeshFacts

\* First and Second are what the ranking makes of the candidates.
LEMMA Ranking ==
    ASSUME Mesh!MeshAssumption, MeshFacts, NEW ns, NEW ctx, Mesh!Candidates(ns, ctx) # {}
    PROVE  LET C == Mesh!Candidates(ns, ctx)
               v == Mesh!First(ns, ctx)
               w == Mesh!Second(ns, ctx)
           IN /\ v \in C /\ \A x \in C : ~Mesh!Before(ns, ctx, x, v)
              /\ C # {v} => w \in C /\ w # v /\ \A x \in C \ {v} : ~Mesh!Before(ns, ctx, x, w)
<1> DEFINE C == Mesh!Candidates(ns, ctx)
           v == Mesh!First(ns, ctx)
           w == Mesh!Second(ns, ctx)
           a == [x \in C |-> Mesh!authority(ns, ctx, x)]
           p == [x \in C |-> Mesh!pressure(ns, ctx, x)]
<1>1. a \in [C -> Int] /\ p \in [C -> Int]
  BY ForCandidate
<1>2. \A x, y \in C : Mesh!Before(ns, ctx, x, y) <=> (a[x] > a[y] \/ (a[x] = a[y] /\ p[x] > p[y]))
  BY DEF Mesh!Before
<1>3. IsFiniteSet(C)
  BY CandidatesFinite
<1> HIDE DEF a, p, C
<1>4. ASSUME NEW D \in SUBSET C, D # {} PROVE \E x \in D : \A y \in D : ~Mesh!Before(ns, ctx, y, x)
  <2> DEFINE b == [x \in D |-> a[x]]
             q == [x \in D |-> p[x]]
  <2>1. IsFiniteSet(D) /\ b \in [D -> Int] /\ q \in [D -> Int] /\ \A x \in D : b[x] = a[x] /\ q[x] = p[x]
    BY <1>1, <1>3, FS_Subset
  <2> HIDE DEF b, q
  <2>2. PICK x \in D : \A y \in D : ~(b[y] > b[x] \/ (b[y] = b[x] /\ q[y] > q[x]))
    BY <1>4, <2>1, Topmost, Zenon
  <2> QED
    BY <1>2, <2>1, <2>2
<1>5. v \in C /\ \A x \in C : ~Mesh!Before(ns, ctx, x, v)
  <2>1. \E x \in C : \A y \in C : ~Mesh!Before(ns, ctx, y, x)
    BY <1>4 DEF C
  <2> QED
    BY <2>1 DEF Mesh!First, C
<1>6. ASSUME C # {v} PROVE w \in C /\ w # v /\ \A x \in C \ {v} : ~Mesh!Before(ns, ctx, x, w)
  <2>1. C \ {v} \in SUBSET C /\ C \ {v} # {}
    BY <1>5, <1>6
  <2>2. \E x \in C \ {v} : \A y \in C \ {v} : ~Mesh!Before(ns, ctx, y, x)
    BY <1>4, <2>1
  <2>3. \E x \in C \ {v} : \A y \in C \ {v, x} : ~Mesh!Before(ns, ctx, y, x)
    BY <2>2
  <2>4. w \in C \ {v} /\ \A y \in C \ {v, w} : ~Mesh!Before(ns, ctx, y, w)
    BY <2>3 DEF Mesh!Second, C
  <2>5. ~Mesh!Before(ns, ctx, w, w)
    BY <1>1, <1>2, <2>4
  <2> QED
    BY <2>4, <2>5
<1> QED
  BY <1>5, <1>6 DEF C

Top(ns, ctx) ==
  {v \in Mesh!Candidates(ns, ctx) :
     \A w \in Mesh!Candidates(ns, ctx) : Mesh!authority(ns, ctx, v) >= Mesh!authority(ns, ctx, w)}
Best(ns, ctx) ==
  {v \in Top(ns, ctx) : \A w \in Top(ns, ctx) \ {v} : Mesh!pressure(ns, ctx, v) > Mesh!pressure(ns, ctx, w)}

\* The outcome selects the best candidate, and nothing if there is none.
LEMMA OutcomeBest ==
    ASSUME Mesh!MeshAssumption, MeshFacts, NEW ns, NEW ctx, Mesh!Candidates(ns, ctx) # {}
    PROVE  /\ Best(ns, ctx) = {} =>
                /\ Mesh!Outcome(ns, ctx) = [policy |-> "split", selected |-> None]
                /\ Mesh!Cardinality(Mesh!Candidates(ns, ctx)) # 1
           /\ Best(ns, ctx) # {} =>
                /\ Best(ns, ctx) = {Mesh!First(ns, ctx)}
                /\ Mesh!Outcome(ns, ctx) = [policy |-> IF Mesh!Cardinality(Mesh!Candidates(ns, ctx)) = 1
                                                       THEN "converge" ELSE "winner",
                                            selected |-> Mesh!First(ns, ctx)]
<1> DEFINE C == Mesh!Candidates(ns, ctx)
           v == Mesh!First(ns, ctx)
           w == Mesh!Second(ns, ctx)
           A(x) == Mesh!authority(ns, ctx, x)
           P(x) == Mesh!pressure(ns, ctx, x)
<1>1. v \in C /\ \A x \in C : ~Mesh!Before(ns, ctx, x, v)
  BY Ranking
<1>2. C # {v} => w \in C /\ w # v /\ \A x \in C \ {v} : ~Mesh!Before(ns, ctx, x, w)
  BY Ranking
<1>3. \A x \in C : A(x) \in Int /\ P(x) \in Int
  BY ForCandidate
<1>4. \A x, y \in C : Mesh!Before(ns, ctx, x, y) <=> (A(x) > A(y) \/ (A(x) = A(y) /\ P(x) > P(y)))
  BY DEF Mesh!Before
<1>5. Mesh!Cardinality(C) = 1 <=> C = {v}
  <2>1. Mesh!Cardinality(C) = Cardinality(C)
    BY DEF Mesh!Cardinality, Cardinality
  <2>2. IsFiniteSet(C)
    BY CandidatesFinite
  <2> QED
    BY <1>1, <2>1, <2>2, FS_Singleton
<1>6. /\ Top(ns, ctx) = {x \in C : \A y \in C : A(x) >= A(y)}
      /\ Best(ns, ctx) = {x \in Top(ns, ctx) : \A y \in Top(ns, ctx) \ {x} : P(x) > P(y)}
      /\ Mesh!Outcome(ns, ctx) =
           IF Mesh!Cardinality(C) = 1 THEN [policy |-> "converge", selected |-> v]
           ELSE IF A(v) > A(w) \/ P(v) > P(w) THEN [policy |-> "winner", selected |-> v]
           ELSE [policy |-> "split", selected |-> None]
  BY DEF Top, Best, Mesh!Outcome
<1> HIDE DEF C, v, w, A, P
<1>7. v \in Top(ns, ctx) /\ Top(ns, ctx) \subseteq C /\ \A x \in Top(ns, ctx) : A(x) = A(v) /\ P(x) <= P(v)
  BY <1>1, <1>3, <1>4, <1>6
<1>8. \A x \in Best(ns, ctx) : x = v
  BY <1>1, <1>3, <1>6, <1>7
<1>9. CASE C = {v}
  <2>1. Best(ns, ctx) = {v}
    BY <1>6, <1>7, <1>9
  <2> QED
    BY <1>5, <1>6, <1>9, <2>1 DEF C, v
<1>10. CASE C # {v} /\ Mesh!Before(ns, ctx, v, w)
  <2>1. w \in C /\ (A(v) > A(w) \/ P(v) > P(w))
    BY <1>1, <1>2, <1>4, <1>10
  <2>2. \A x \in C \ {v} : Mesh!Before(ns, ctx, v, x)
    BY <1>1, <1>2, <1>3, <1>4, <1>10
  <2>3. v \in Best(ns, ctx)
    BY <1>1, <1>3, <1>4, <1>6, <1>7, <2>2
  <2>4. Best(ns, ctx) = {v}
    BY <1>8, <2>3
  <2> QED
    BY <1>5, <1>6, <1>10, <2>1, <2>4 DEF C, v
<1>11. CASE C # {v} /\ ~Mesh!Before(ns, ctx, v, w)
  <2>1. w \in C /\ w # v /\ A(v) = A(w) /\ P(v) = P(w)
    BY <1>1, <1>2, <1>3, <1>4, <1>11
  <2>2. w \in Top(ns, ctx)
    BY <1>3, <1>6, <1>7, <2>1
  <2>3. v \notin Best(ns, ctx)
    BY <1>1, <1>3, <1>6, <2>1, <2>2
  <2>4. Best(ns, ctx) = {}
    BY <1>8, <2>3
  <2>5. ~(A(v) > A(w) \/ P(v) > P(w))
    BY <1>1, <1>3, <2>1
  <2> QED
    BY <1>5, <1>6, <1>11, <2>4, <2>5 DEF C
<1> QED
  BY <1>9, <1>10, <1>11

\* What resolve selects was claimed.
LEMMA OutcomeClaimed ==
    ASSUME Mesh!MeshAssumption, MeshFacts, NEW ns, NEW ctx, Mesh!Candidates(ns, ctx) # {},
           Mesh!Outcome(ns, ctx).selected # None
    PROVE  /\ Mesh!Outcome(ns, ctx).selected \in Mesh!Candidates(ns, ctx)
           /\ Best(ns, ctx) = {Mesh!Outcome(ns, ctx).selected}
BY OutcomeBest, Ranking

MeshClaimed(r) ==
  \A ctx \in DOMAIN r.outcomes :
    r.outcomes[ctx].selected # None =>
      \E c \in claims : /\ c.namespace = r.namespace /\ c.context = ctx /\ c.value = r.outcomes[ctx].selected
                        /\ c.by \in trusted /\ c.support >= 1 /\ c.scoped

\* A resolution selects only what a trusted peer claimed.
ResolvesClaimed == \A ns : MeshClaimed(Mesh!Resolved(ns))
LEMMA ResolvedClaimed == MeshFacts => ResolvesClaimed
<1>0. Mesh!MeshAssumption
  BY FilesAssumption
<1> SUFFICES ASSUME MeshFacts, NEW ns, NEW ctx \in DOMAIN Mesh!Resolved(ns).outcomes,
                    Mesh!Resolved(ns).outcomes[ctx].selected # None
             PROVE  \E c \in claims : /\ c.namespace = Mesh!Resolved(ns).namespace /\ c.context = ctx
                                      /\ c.value = Mesh!Resolved(ns).outcomes[ctx].selected
                                      /\ c.by \in trusted /\ c.support >= 1 /\ c.scoped
  BY DEF MeshClaimed, ResolvesClaimed
<1>1. /\ ctx \in {c.context : c \in Mesh!Valid(ns)} /\ Mesh!Resolved(ns).namespace = ns
      /\ Mesh!Resolved(ns).outcomes[ctx] = Mesh!Outcome(ns, ctx)
  BY DEF Mesh!Resolved
<1>2. Mesh!Candidates(ns, ctx) # {}
  <2>1. PICK c \in Mesh!Valid(ns) : c.context = ctx
    BY <1>1
  <2>2. c \in Mesh!For(ns, ctx, c.value) /\ c.value \in Values
    BY <2>1 DEF Mesh!For, Mesh!Valid, MeshFacts, Mesh!Claim
  <2> QED
    BY <2>2 DEF Mesh!Candidates
<1>3. Mesh!Outcome(ns, ctx).selected \in Mesh!Candidates(ns, ctx)
  BY <1>0, <1>1, <1>2, OutcomeClaimed
<1>4. PICK c : c \in Mesh!For(ns, ctx, Mesh!Outcome(ns, ctx).selected)
  BY <1>3 DEF Mesh!Candidates
<1> QED
  BY <1>1, <1>4 DEF Mesh!For, Mesh!Valid, Mesh!verify_claim

\* What the operations keep.
MeshInv ==
  /\ MeshFacts /\ trusted \subseteq MeshPeers /\ OwnPeer \in trusted
  /\ mesh_state # None => MeshClaimed(mesh_state)

\* Adding claims keeps them finite.
LEMMA MeshFactsKept ==
    ASSUME MeshFacts, Mesh!Next
    PROVE  MeshFacts'
<1>1. ASSUME NEW c \in Mesh!Claim, claims' = claims \cup {c} PROVE MeshFacts'
  BY <1>1, FS_AddElement DEF MeshFacts
<1>2. ASSUME claims' = claims PROVE MeshFacts'
  BY <1>2 DEF MeshFacts
<1> QED
  BY <1>1, <1>2 DEF Mesh!Next, Mesh!Propose, Mesh!Import, Mesh!TrustPeer, Mesh!Resolve

\* Every operation keeps the invariant.
LEMMA MeshKept ==
    MeshInv /\ [Mesh!Next]_(Mesh!vars) => MeshInv'
<1>0. MeshFacts' => ResolvesClaimed'
  BY ResolvedClaimed, PTL
<1> SUFFICES ASSUME MeshInv, [Mesh!Next]_(Mesh!vars) PROVE MeshInv'
  OBVIOUS
<1>1. CASE UNCHANGED Mesh!vars
  BY <1>1 DEF Mesh!vars, MeshInv, MeshFacts, MeshClaimed
<1>2. CASE Mesh!Next
  <2>1. MeshFacts' /\ ResolvesClaimed /\ ResolvesClaimed'
    BY <1>0, <1>2, MeshFactsKept, ResolvedClaimed DEF MeshInv
  <2>2. ASSUME claims \subseteq claims', trusted \subseteq trusted', mesh_state' = mesh_state
        PROVE  (mesh_state # None => MeshClaimed(mesh_state))'
    BY <2>2 DEF MeshInv, MeshClaimed
  <2>3. ASSUME NEW c \in Mesh!Claim, Mesh!Propose(c) PROVE MeshInv'
    <3>1. mesh_state' = Mesh!Resolved(c.namespace)' /\ trusted' = trusted
      BY <2>3 DEF Mesh!Propose
    <3>2. MeshClaimed(mesh_state)'
      BY <2>1, <3>1 DEF ResolvesClaimed, MeshClaimed
    <3> QED
      BY <2>1, <3>1, <3>2 DEF MeshInv
  <2>4. ASSUME NEW c \in Mesh!Claim, Mesh!Import(c) PROVE MeshInv'
    <3>1. claims \subseteq claims' /\ trusted' = trusted /\ mesh_state' = mesh_state
      BY <2>4 DEF Mesh!Import
    <3> QED
      BY <2>1, <2>2, <3>1 DEF MeshInv
  <2>5. ASSUME NEW p \in MeshPeers, Mesh!TrustPeer(p) PROVE MeshInv'
    <3>1. claims' = claims /\ trusted' = trusted \cup {p} /\ mesh_state' = mesh_state
      BY <2>5 DEF Mesh!TrustPeer
    <3> QED
      BY <2>1, <2>2, <3>1 DEF MeshInv
  <2>6. ASSUME NEW ns \in Namespaces, Mesh!Resolve(ns) PROVE MeshInv'
    <3>1. claims' = claims /\ trusted' = trusted /\ mesh_state' = Mesh!Resolved(ns)
      BY <2>6 DEF Mesh!Resolve
    <3>2. MeshClaimed(Mesh!Resolved(ns))
      BY <2>1 DEF ResolvesClaimed
    <3>3. MeshClaimed(mesh_state)'
      BY <3>1, <3>2 DEF MeshClaimed
    <3> QED
      BY <2>1, <3>1, <3>3 DEF MeshInv
  <2> QED
    BY <1>2, <2>3, <2>4, <2>5, <2>6 DEF Mesh!Next
<1> QED
  BY <1>1, <1>2

\* The invariant gives what is checked.
LEMMA MeshRules ==
    ASSUME Mesh!MeshAssumption, MeshInv
    PROVE  Mesh!TypeOK /\ Mesh!SelectedBeatsAll /\ Mesh!SelectedWasClaimed
<1>1. Mesh!TypeOK
  BY ForCandidate DEF Mesh!TypeOK, MeshInv, MeshFacts
<1>2. Mesh!SelectedWasClaimed
  BY DEF Mesh!SelectedWasClaimed, MeshInv, MeshClaimed
<1>3. ASSUME NEW ns, NEW ctx, Mesh!Candidates(ns, ctx) # {}
      PROVE  /\ Mesh!Outcome(ns, ctx).selected = IF Best(ns, ctx) = {} THEN None ELSE CHOOSE v \in Best(ns, ctx) : TRUE
             /\ Mesh!Outcome(ns, ctx).policy = IF Mesh!Cardinality(Mesh!Candidates(ns, ctx)) = 1 THEN "converge"
                                               ELSE IF Best(ns, ctx) = {} THEN "split" ELSE "winner"
  BY <1>3, OutcomeBest DEF MeshInv
<1>4. Mesh!SelectedBeatsAll
  BY <1>3 DEF Mesh!SelectedBeatsAll, Top, Best
<1> QED
  BY <1>1, <1>2, <1>4

\* What the ranking says of every namespace and context.
MeshRanked ==
  \A ns, ctx :
    /\ \A v \in Mesh!Candidates(ns, ctx) :
         /\ Mesh!pressure(ns, ctx, v) \in Int /\ Mesh!authority(ns, ctx, v) \in Int
         /\ \E c \in Mesh!For(ns, ctx, v) : c.authority = Mesh!authority(ns, ctx, v)
         /\ \A c \in Mesh!For(ns, ctx, v) : c.authority <= Mesh!authority(ns, ctx, v)
    /\ \A v \in Best(ns, ctx) : Mesh!Outcome(ns, ctx).selected = v
LEMMA Ranked == MeshFacts => MeshRanked
<1>0. Mesh!MeshAssumption
  BY FilesAssumption
<1> SUFFICES ASSUME MeshFacts, NEW ns, NEW ctx
             PROVE  /\ \A v \in Mesh!Candidates(ns, ctx) :
                         /\ Mesh!pressure(ns, ctx, v) \in Int /\ Mesh!authority(ns, ctx, v) \in Int
                         /\ \E c \in Mesh!For(ns, ctx, v) : c.authority = Mesh!authority(ns, ctx, v)
                         /\ \A c \in Mesh!For(ns, ctx, v) : c.authority <= Mesh!authority(ns, ctx, v)
                    /\ \A v \in Best(ns, ctx) : Mesh!Outcome(ns, ctx).selected = v
  BY DEF MeshRanked
<1>1. ASSUME NEW v \in Best(ns, ctx) PROVE Mesh!Outcome(ns, ctx).selected = v
  <2>1. Mesh!Candidates(ns, ctx) # {} /\ Best(ns, ctx) # {}
    BY DEF Best, Top
  <2> QED
    BY <1>0, <2>1, OutcomeBest
<1> QED
  BY <1>0, <1>1, ForCandidate

\* One more trusted claim for the selected value keeps it the best.
LEMMA SupportKept ==
    MeshInv /\ MeshInv' /\ [Mesh!Next]_(Mesh!vars) => Mesh!SupportKeeps
<1>0. Mesh!MeshAssumption
  BY FilesAssumption
<1>1. MeshFacts' => MeshRanked'
  BY Ranked, PTL
<1> SUFFICES ASSUME MeshInv, MeshInv', [Mesh!Next]_(Mesh!vars), NEW ns, NEW ctx, Mesh!Candidates(ns, ctx) # {},
                    Mesh!Outcome(ns, ctx).selected # None, trusted' = trusted,
                    \A c \in claims' \ claims : c.namespace = ns /\ c.context = ctx => c.value = Mesh!Outcome(ns, ctx).selected
             PROVE  Mesh!Outcome(ns, ctx)'.selected = Mesh!Outcome(ns, ctx).selected
  BY DEF Mesh!SupportKeeps
<1>16. PICK won : won = Mesh!Outcome(ns, ctx).selected
  OBVIOUS
<1> DEFINE S(v) == Mesh!For(ns, ctx, v)
           T(v) == Mesh!For(ns, ctx, v)'
<1>2. MeshRanked /\ MeshRanked' /\ MeshFacts /\ MeshFacts'
  BY <1>1, Ranked DEF MeshInv
<1>3. won \in Mesh!Candidates(ns, ctx) /\ won \in Best(ns, ctx)
  BY <1>0, <1>2, <1>16, OutcomeClaimed
<1>4. PICK c : claims' = claims \cup {c}
  <2>1. CASE claims' = claims
    <3>1. PICK c : c \in claims
      BY <1>3 DEF Mesh!Candidates, Mesh!For, Mesh!Valid
    <3>2. claims' = claims \cup {c}
      BY <2>1, <3>1
    <3> QED
      BY <3>2
  <2> QED
    BY <2>1 DEF Mesh!Next, Mesh!vars, Mesh!Propose, Mesh!Import, Mesh!TrustPeer, Mesh!Resolve
<1>5. ASSUME NEW v PROVE /\ S(v) \subseteq T(v) /\ T(v) \subseteq S(v) \cup {c} /\ (v # won => T(v) = S(v))
                         /\ (c \in claims => T(v) = S(v)) /\ S(v) \subseteq claims
  BY <1>4, <1>16 DEF Mesh!For, Mesh!Valid, Mesh!verify_claim
<1>6. /\ \A v : Mesh!pressure(ns, ctx, v) = Sum(S(v)) /\ Mesh!pressure(ns, ctx, v)' = Sum(T(v))
      /\ \A v : Mesh!authority(ns, ctx, v) = Mesh!Max({x.authority : x \in S(v)})
      /\ \A v : Mesh!authority(ns, ctx, v)' = Mesh!Max({x.authority : x \in T(v)})
      /\ Mesh!Candidates(ns, ctx) = {v \in Values : S(v) # {}} /\ Mesh!Candidates(ns, ctx)' = {v \in Values : T(v) # {}}
  BY DEF Mesh!pressure, Mesh!authority, Sum, Mesh!Candidates
<1>7. /\ \A x \in T(won) : x.support \in Int /\ x.support >= 1
      /\ T(won) \subseteq claims' /\ IsFiniteSet(T(won))
  <2>1. T(won) \subseteq claims' /\ \A x \in T(won) : x.support >= 1
    BY DEF Mesh!For, Mesh!Valid, Mesh!verify_claim
  <2>2. IsFiniteSet(claims') /\ \A x \in claims' : x.support \in Int
    BY <1>0, <1>2 DEF MeshFacts, Mesh!Claim, Mesh!MeshAssumption
  <2> QED
    BY <2>1, <2>2, FS_Subset
<1> HIDE DEF S, T
<1>8. Mesh!Candidates(ns, ctx)' = Mesh!Candidates(ns, ctx)
  BY <1>3, <1>5, <1>6
<1>9. \A v : v # won => /\ Mesh!pressure(ns, ctx, v)' = Mesh!pressure(ns, ctx, v)
                        /\ Mesh!authority(ns, ctx, v)' = Mesh!authority(ns, ctx, v)
  BY <1>5, <1>6
<1>10. \A v \in Mesh!Candidates(ns, ctx) : /\ Mesh!pressure(ns, ctx, v) \in Int /\ Mesh!pressure(ns, ctx, v)' \in Int
                                          /\ Mesh!authority(ns, ctx, v) \in Int /\ Mesh!authority(ns, ctx, v)' \in Int
  BY <1>2, <1>8 DEF MeshRanked
<1>11. Mesh!pressure(ns, ctx, won)' >= Mesh!pressure(ns, ctx, won)
  <2>1. CASE T(won) = S(won)
    BY <1>3, <1>6, <1>10, <2>1
  <2>2. CASE T(won) # S(won)
    <3>1. c \in T(won) /\ T(won) \ {c} = S(won)
      BY <1>5, <2>2
    <3>2. Sum(T(won)) = Sum(T(won) \ {c}) + c.support
      BY <1>7, <3>1, SumOfAny DEF Supported
    <3>3. c.support \in Int /\ c.support >= 1 /\ Mesh!pressure(ns, ctx, won) \in Int
      BY <1>3, <1>7, <1>10, <3>1
    <3>4. Mesh!pressure(ns, ctx, won)' = Mesh!pressure(ns, ctx, won) + c.support
      BY <1>6, <3>1, <3>2
    <3> QED
      BY <3>3, <3>4
  <2> QED
    BY <2>1, <2>2
<1>12. Mesh!authority(ns, ctx, won)' >= Mesh!authority(ns, ctx, won)
  <2>1. PICK x \in S(won) : x.authority = Mesh!authority(ns, ctx, won)
    BY <1>2, <1>3 DEF MeshRanked, S
  <2>2. \A y \in T(won) : y.authority <= Mesh!authority(ns, ctx, won)'
    BY <1>2, <1>3, <1>8 DEF MeshRanked, T
  <2> QED
    BY <1>3, <1>5, <1>10, <2>1, <2>2
<1>13. won \in Top(ns, ctx)'
  <2>1. \A w \in Mesh!Candidates(ns, ctx) : Mesh!authority(ns, ctx, won) >= Mesh!authority(ns, ctx, w)
    BY <1>3 DEF Best, Top
  <2>2. \A w \in Mesh!Candidates(ns, ctx) : Mesh!authority(ns, ctx, won)' >= Mesh!authority(ns, ctx, w)'
    BY <1>3, <1>9, <1>10, <1>12, <2>1
  <2> QED
    BY <1>3, <1>8, <2>2 DEF Top
<1>14. ASSUME NEW w \in Top(ns, ctx)', w # won PROVE w \in Top(ns, ctx)
  <2>1. w \in Mesh!Candidates(ns, ctx) /\ \A x \in Mesh!Candidates(ns, ctx) : Mesh!authority(ns, ctx, w)' >= Mesh!authority(ns, ctx, x)'
    BY <1>8, <1>14 DEF Top
  <2>2. \A x \in Mesh!Candidates(ns, ctx) : Mesh!authority(ns, ctx, w) >= Mesh!authority(ns, ctx, x)
    BY <1>3, <1>9, <1>10, <1>12, <1>14, <2>1
  <2> QED
    BY <2>1, <2>2 DEF Top
<1>15. won \in Best(ns, ctx)'
  <2>1. ASSUME NEW w \in Top(ns, ctx)', w # won PROVE Mesh!pressure(ns, ctx, won)' > Mesh!pressure(ns, ctx, w)'
    <3>1. w \in Top(ns, ctx) /\ w \in Mesh!Candidates(ns, ctx)
      BY <1>14, <2>1 DEF Top
    <3>2. Mesh!pressure(ns, ctx, won) > Mesh!pressure(ns, ctx, w)
      BY <1>3, <2>1, <3>1 DEF Best
    <3> QED
      BY <1>3, <1>9, <1>10, <1>11, <2>1, <3>1, <3>2
  <2> QED
    BY <1>13, <2>1 DEF Best
<1> QED
  BY <1>2, <1>15, <1>16 DEF MeshRanked

\* A behaviour of scenario "mesh" is one of its component.
LEMMA MeshAlone ==
    /\ Spec /\ scenario = "mesh" => Mesh!Spec /\ [](scenario = "mesh")
    /\ Spec /\ ~(scenario = "mesh") => []~(scenario = "mesh")
<1>1. Init /\ scenario = "mesh" => Mesh!Init
  BY DEF Init
<1>2. UNCHANGED vars => UNCHANGED <<scenario, Mesh!vars>>
  BY DEF vars, meshVars, Mesh!vars
<1>3. scenario = "mesh" /\ [Next]_vars => (scenario = "mesh")' /\ [Mesh!Next]_(Mesh!vars)
  BY <1>2 DEF Next, LedgerStep, KernelStep, RegistryStep, BootStep, MeshStep, SwarmStep
<1>4. ~(scenario = "mesh") /\ [Next]_vars => ~(scenario = "mesh")'
  BY DEF Next, vars, LedgerStep, KernelStep, RegistryStep, BootStep, MeshStep, SwarmStep
<1> QED
  BY <1>1, <1>3, <1>4, PTL DEF Spec, Mesh!Spec

\* The invariant of the mesh holds of every behaviour.
LEMMA MeshAlways == Mesh!Spec => []MeshInv
<1>1. Mesh!Init => MeshInv
  BY FilesAssumption, FS_EmptySet DEF Mesh!Init, MeshInv, MeshFacts, Mesh!MeshAssumption
<1> QED
  BY <1>1, MeshKept, PTL DEF Mesh!Spec

\* Whatever peers, values, contexts and numbers there are, and however many claims: a
\* value is selected exactly when it beats every other candidate of its context
\* (resolve), and only if a trusted peer claimed it (_verify_claim).
THEOREM SelectionAlwaysFollowsRules == Spec => []SelectionFollowsRules
<1>1. MeshInv => SelectionFollowsRules
  BY FilesAssumption, MeshRules DEF SelectionFollowsRules
<1>2. ~(scenario = "mesh") => SelectionFollowsRules
  BY DEF SelectionFollowsRules
<1> QED
  BY <1>1, <1>2, MeshAlways, MeshAlone, PTL

-----------------------------------------------------------------------------
(* The machine: memory ranges, and the claims of its devices.              *)

\* Ranges of which no neighbours overlap do not overlap.
LEMMA RangesApart ==
    ASSUME NEW m, m.memory \subseteq [start : Int, size : Int], IsFiniteSet(m.memory), Boot!Valid(m)
    PROVE  \A r, s \in m.memory : r # s => r.start + r.size <= s.start \/ s.start + s.size <= r.start
<1> DEFINE M == m.memory
           Between(p) == {t \in M : Boot!Sorted(p[1], t) /\ Boot!Sorted(t, p[2])}
           bad == {p \in M \X M : Boot!Sorted(p[1], p[2]) /\ ~(p[1].start + p[1].size <= p[2].start)}
           F == {Between(p) : p \in bad}
<1>1. \A r \in M : r.start \in Int /\ r.size \in Int
  OBVIOUS
<1>2. \A r, s \in M : r # s => Boot!Sorted(r, s) \/ Boot!Sorted(s, r)
  <2> SUFFICES ASSUME NEW r \in M, NEW s \in M, r # s PROVE Boot!Sorted(r, s) \/ Boot!Sorted(s, r)
    OBVIOUS
  <2>1. r.start # s.start \/ r.size # s.size
    OBVIOUS
  <2> QED
    BY <1>1, <2>1 DEF Boot!Sorted
<1>3. /\ \A r, s, t \in M : Boot!Sorted(r, s) /\ Boot!Sorted(s, t) => Boot!Sorted(r, t)
      /\ \A r \in M : ~Boot!Sorted(r, r)
      /\ \A r, s \in M : Boot!Sorted(r, s) => r.start <= s.start
  BY <1>1 DEF Boot!Sorted
<1>4. bad = {}
  <2> SUFFICES ASSUME bad # {} PROVE FALSE
    OBVIOUS
  <2>1. F # {} /\ \A T \in F : IsFiniteSet(T)
    <3>1. PICK p \in bad : TRUE
      OBVIOUS
    <3>2. Between(p) \in F /\ \A T \in F : T \in SUBSET M
      BY <3>1
    <3> HIDE DEF F
    <3> QED
      BY <3>2, FS_Subset
  <2>2. PICK T \in F : \A U \in F : Cardinality(T) <= Cardinality(U)
    <3> HIDE DEF F
    <3> QED
      BY <2>1, Smallest
  <2>3. PICK p \in bad : T = Between(p)
    OBVIOUS
  <2>4. PICK r \in M, s \in M : p = <<r, s>>
    OBVIOUS
  <2>5. Boot!Sorted(r, s) /\ ~(r.start + r.size <= s.start)
    BY <2>3, <2>4
  <2>6. PICK t \in M : Boot!Sorted(r, t) /\ Boot!Sorted(t, s)
    <3> SUFFICES ASSUME ~\E t \in M : Boot!Sorted(r, t) /\ Boot!Sorted(t, s) PROVE FALSE
      OBVIOUS
    <3>1. <<r, s>> \in Boot!Neighbours(m)
      BY <2>4, <2>5 DEF Boot!Neighbours
    <3>2. s.start >= r.start + r.size
      BY <3>1 DEF Boot!Valid, Boot!Apart
    <3> QED
      BY <1>1, <2>5, <3>2
  <2> DEFINE q == <<r, t>>
  <2>7. Between(q) \subseteq T \ {t} /\ t \in T
    BY <1>3, <2>3, <2>4, <2>6
  <2>8. IsFiniteSet(T) /\ IsFiniteSet(T \ {t}) /\ Cardinality(T \ {t}) = Cardinality(T) - 1 /\ Cardinality(T) \in Nat
    BY <2>1, <2>7, FS_RemoveElement, FS_CardinalityType
  <2>9. Cardinality(Between(q)) <= Cardinality(T) - 1 /\ Cardinality(Between(q)) \in Nat
    <3>1. Between(q) \in SUBSET (T \ {t})
      BY <2>7
    <3> HIDE DEF Between
    <3>2. IsFiniteSet(Between(q)) /\ Cardinality(Between(q)) <= Cardinality(T \ {t})
      BY <2>8, <3>1, FS_Subset
    <3> QED
      BY <2>8, <3>2, FS_CardinalityType
  <2>10. Between(q) \notin F
    <3> HIDE DEF F, Between
    <3> QED
      BY <2>2, <2>8, <2>9
  <2>11. q \notin bad
    <3> HIDE DEF bad, Between
    <3> QED
      BY <2>10
  <2>12. r.start + r.size <= t.start
    BY <2>6, <2>11
  <2>13. t.start <= s.start
    BY <1>3, <2>6
  <2> QED
    BY <1>1, <2>5, <2>12, <2>13
<1>5. ASSUME NEW r \in M, NEW s \in M, Boot!Sorted(r, s) PROVE r.start + r.size <= s.start
  <2>1. <<r, s>> \notin bad
    BY <1>4
  <2> HIDE DEF M
  <2> QED
    BY <1>5, <2>1
<1> QED
  BY <1>2, <1>5

\* The claims on record, their numbers, the files they should have, and the one a call
\* is about to write.
Claimed == Boot!Range(hardware.accepted) \cup Boot!Range(hardware.quarantined)
Number(c) == c.before.sequence + 1
Filed == {<<Number(c), c>> : c \in Claimed}
Unfiled == IF pending.step = "file" THEN {<<Number(pending.claim), pending.claim>>} ELSE {}

\* The claims have the numbers from one to claim_sequence, each once.
NumberedOnce ==
  /\ \A c \in Claimed : Number(c) \in 1..hardware.sequence
  /\ \A c, d \in Claimed : Number(c) = Number(d) => c = d
  /\ \A n \in 1..hardware.sequence : \E c \in Claimed : Number(c) = n

\* What hardware_state.json holds.
StateShape ==
  /\ DOMAIN hardware = {"manifest", "tick", "sequence", "accepted", "quarantined", "events"}
  /\ manifest \in Boot!Manifests /\ Boot!Valid(manifest) /\ hardware.manifest = manifest
  /\ hardware.tick \in 0..MaxTick /\ hardware.events \in [manifest.devices -> Nat] /\ hardware.sequence \in Nat
  /\ \E S : hardware.accepted \in Seq(S) /\ hardware.quarantined \in Seq(S)

\* In the first boot a claim file is that of a claim, and only one may be outstanding
\* as long as nothing died.
FilesFollow ==
  boots = 1 => /\ claim_files \subseteq Filed
               /\ Unfiled \subseteq Filed
               /\ boot_crashes = 0 => Filed \subseteq claim_files \cup Unfiled

\* The call under way has the last number; calls, boots and deaths are within bounds.
PendingShape ==
  /\ DOMAIN pending = {"claim", "step"} /\ pending.step \in {"idle", "file", "record"}
  /\ pending.step = "file" => Number(pending.claim) = hardware.sequence
CallsCounted ==
  /\ boots \in Nat /\ boot_recorded \in Nat /\ boot_crashes \in 0..MaxDeaths /\ boots <= boot_recorded
  /\ boot_recorded + boot_crashes + (IF pending.step = "idle" THEN 0 ELSE 1) <= MaxCalls

\* The inductive invariant of BogBoot.
BootInv ==
  /\ CallsCounted /\ PendingShape
  /\ boots = 0 => manifest = None
  /\ manifest = None => pending.step = "idle" /\ claim_files = {}
  /\ manifest # None => StateShape /\ Boot!AdmittedInOrder /\ NumberedOnce /\ FilesFollow

\* What a claim makes of hardware_state.json.
LEMMA ClaimedState ==
    ASSUME StateShape, NEW source, NEW tick, NEW granted, Boot!Claim(source, tick, granted),
           NEW claim, claim = [source |-> source, tick |-> tick, granted |-> granted, before |-> hardware]
    PROVE  /\ DOMAIN hardware' = DOMAIN hardware /\ hardware'.manifest = hardware.manifest
           /\ hardware'.sequence = hardware.sequence + 1
           /\ Boot!Refused(source, tick, granted) =>
                /\ hardware'.tick = hardware.tick /\ hardware'.accepted = hardware.accepted
                /\ hardware'.quarantined = Append(hardware.quarantined, claim) /\ hardware'.events = hardware.events
           /\ ~Boot!Refused(source, tick, granted) =>
                /\ hardware'.tick = tick /\ hardware'.accepted = Append(hardware.accepted, claim)
                /\ hardware'.quarantined = hardware.quarantined
                /\ hardware'.events = [hardware.events EXCEPT ![source] = @ + 1]
<1>1. claim.source = source /\ claim.tick = tick
  OBVIOUS
<1>2. CASE Boot!Refused(source, tick, granted)
  <2>1. hardware' = [hardware EXCEPT !.sequence = @ + 1, !.quarantined = Append(@, claim)]
    BY <1>2 DEF Boot!Claim, Boot!Quarantined
  <2> QED
    BY <1>2, <2>1 DEF StateShape
<1>3. CASE ~Boot!Refused(source, tick, granted)
  <2>1. hardware' = [hardware EXCEPT !.sequence = @ + 1, !.tick = claim.tick, !.accepted = Append(@, claim),
                                     !.events[claim.source] = @ + 1]
    BY <1>3 DEF Boot!Claim, Boot!Admitted
  <2> QED
    BY <1>1, <1>3, <2>1 DEF StateShape
<1> QED
  BY <1>2, <1>3

\* Appending a claim to one of the lists adds it to the claims.
LEMMA RangeOfAppend ==
    ASSUME NEW S, NEW seq \in Seq(S), NEW e
    PROVE  Boot!Range(Append(seq, e)) = Boot!Range(seq) \cup {e}
<1> DEFINE T == S \cup {e}
<1>1. seq \in Seq(T) /\ e \in T
  OBVIOUS
<1>2. /\ Len(seq) \in Nat /\ DOMAIN seq = 1..Len(seq) /\ DOMAIN Append(seq, e) = 1..(Len(seq) + 1)
      /\ \A i \in 1..Len(seq) : Append(seq, e)[i] = seq[i]
      /\ Append(seq, e)[Len(seq) + 1] = e
  BY <1>1
<1> QED
  BY <1>2 DEF Boot!Range

\* irq_claim keeps the shape, the order of what was admitted, and the numbers.
LEMMA ClaimKeeps ==
    ASSUME Boot!BootAssumption, StateShape, Boot!AdmittedInOrder, NumberedOnce,
           manifest # None, NEW source, NEW tick \in 0..MaxTick, NEW granted \in BOOLEAN, Boot!Claim(source, tick, granted),
           NEW claim, claim = [source |-> source, tick |-> tick, granted |-> granted, before |-> hardware]
    PROVE  StateShape' /\ Boot!AdmittedInOrder' /\ NumberedOnce' /\ Claimed' = Claimed \cup {claim} /\ Number(claim) = hardware.sequence'
<1> DEFINE a == hardware.accepted
           q == hardware.quarantined
           n == hardware.sequence
           refused == Boot!Refused(source, tick, granted)
<1>1. /\ DOMAIN hardware' = DOMAIN hardware /\ hardware'.manifest = hardware.manifest
      /\ hardware'.sequence = n + 1
      /\ refused => /\ hardware'.tick = hardware.tick /\ hardware'.accepted = a
                    /\ hardware'.quarantined = Append(q, claim) /\ hardware'.events = hardware.events
      /\ ~refused => /\ hardware'.tick = tick /\ hardware'.accepted = Append(a, claim)
                     /\ hardware'.quarantined = q
                     /\ hardware'.events = [hardware.events EXCEPT ![source] = @ + 1]
  BY ClaimedState
<1>2. manifest' = manifest /\ n \in Nat
  BY DEF Boot!Claim, StateShape
<1>3. claim.source = source /\ claim.tick = tick /\ claim.granted = granted /\ claim.before.sequence = n /\ Number(claim) = n + 1
  BY DEF Number
<1>4. ~refused => source \in manifest.devices /\ granted /\ tick > hardware.tick
  <2>1. hardware.tick \in Int /\ tick \in Int
    BY DEF StateShape, Boot!BootAssumption
  <2> QED
    BY <2>1 DEF Boot!Refused
<1>5. PICK S0 : a \in Seq(S0) /\ q \in Seq(S0)
  BY DEF StateShape
<1>6. PICK S : a \in Seq(S) /\ q \in Seq(S) /\ claim \in S
  <2>1. a \in Seq(S0 \cup {claim}) /\ q \in Seq(S0 \cup {claim})
    BY <1>5
  <2> QED
    BY <2>1
<1>7. /\ Len(a) \in Nat /\ DOMAIN a = 1..Len(a) /\ Len(q) \in Nat
      /\ Append(a, claim) \in Seq(S) /\ Append(q, claim) \in Seq(S)
      /\ Len(Append(a, claim)) = Len(a) + 1 /\ Len(Append(q, claim)) = Len(q) + 1
      /\ DOMAIN Append(a, claim) = 1..(Len(a) + 1) /\ Append(a, claim)[Len(a) + 1] = claim
      /\ \A i \in 1..Len(a) : Append(a, claim)[i] = a[i]
  BY <1>6
<1>8. StateShape'
  <2>1. hardware'.tick \in 0..MaxTick
    BY <1>1 DEF StateShape
  <2>2. hardware'.events \in [manifest.devices -> Nat]
    BY <1>1, <1>4 DEF StateShape
  <2>3. hardware'.accepted \in Seq(S) /\ hardware'.quarantined \in Seq(S)
    BY <1>1, <1>6, <1>7
  <2>4. Boot!Valid(manifest)' = Boot!Valid(manifest)
    BY <1>2 DEF Boot!Valid, Boot!Apart, Boot!Neighbours
  <2> QED
    BY <1>1, <1>2, <2>1, <2>2, <2>3, <2>4 DEF StateShape
<1>9. Claimed' = Claimed \cup {claim}
  <2>1. /\ Boot!Range(Append(a, claim)) = Boot!Range(a) \cup {claim}
        /\ Boot!Range(Append(q, claim)) = Boot!Range(q) \cup {claim}
    BY <1>6, RangeOfAppend
  <2>2. Claimed' = Boot!Range(hardware'.accepted) \cup Boot!Range(hardware'.quarantined)
    BY DEF Claimed
  <2> QED
    BY <1>1, <2>1, <2>2 DEF Claimed
<1>10. NumberedOnce'
  <2>1. \A c : Number(c)' = Number(c)
    BY DEF Number
  <2>2. \A c \in Claimed \cup {claim} : Number(c) \in 1..(n + 1)
    BY <1>2, <1>3 DEF NumberedOnce
  <2>3. \A c, d \in Claimed \cup {claim} : Number(c) = Number(d) => c = d
    BY <1>2, <1>3 DEF NumberedOnce
  <2>4. \A k \in 1..(n + 1) : \E c \in Claimed \cup {claim} : Number(c) = k
    BY <1>2, <1>3 DEF NumberedOnce
  <2> QED
    BY <1>1, <1>9, <2>2, <2>3, <2>4 DEF NumberedOnce, Number
<1>11. Boot!AdmittedInOrder'
  <2>0. /\ \A i \in 1..Len(a) : a[i].granted /\ a[i].source \in manifest.devices
        /\ \A i \in 1..(Len(a) - 1) : a[i].tick < a[i + 1].tick
        /\ hardware.tick = IF a = <<>> THEN 0 ELSE a[Len(a)].tick
        /\ \A d \in manifest.devices : hardware.events[d] = Boot!Cardinality({i \in DOMAIN a : a[i].source = d})
        /\ n = Len(a) + Len(q)
    BY <1>7 DEF Boot!AdmittedInOrder, Boot!Last, Boot!Loads
  <2>1. CASE refused
    <3>1. /\ hardware'.tick = hardware.tick /\ hardware'.accepted = a /\ Len(hardware'.quarantined) = Len(q) + 1
          /\ hardware'.events = hardware.events /\ hardware'.sequence = n + 1
      BY <1>1, <1>7, <2>1
    <3>2. hardware'.sequence = Len(a) + Len(hardware'.quarantined)
      <4>1. Len(a) \in Nat /\ Len(q) \in Nat /\ n = Len(a) + Len(q)
        BY <1>7, <2>0
      <4> HIDE DEF a, q, n
      <4> QED
        BY <3>1, <4>1
    <3> HIDE DEF a
    <3> QED
      BY <1>2, <1>7, <2>0, <3>1, <3>2 DEF Boot!AdmittedInOrder, Boot!Last
  <2>2. CASE ~refused
    <3> DEFINE b == Append(a, claim)
    <3>1. hardware'.accepted = b /\ hardware'.tick = tick /\ hardware'.quarantined = q
          /\ hardware'.events = [hardware.events EXCEPT ![source] = @ + 1] /\ hardware'.sequence = n + 1
      BY <1>1, <2>2
    <3>2. /\ Len(b) = Len(a) + 1 /\ DOMAIN b = 1..(Len(a) + 1) /\ b[Len(a) + 1] = claim /\ b # <<>>
          /\ \A i \in 1..Len(a) : b[i] = a[i]
      BY <1>7
    <3>3. \A i \in DOMAIN b : b[i].granted /\ b[i].source \in manifest.devices
      BY <1>3, <1>4, <1>7, <2>0, <2>2, <3>2
    <3> HIDE DEF b
    <3>4. ASSUME NEW i \in 1..(Len(b) - 1) PROVE b[i].tick < b[i + 1].tick
      <4>1. CASE i = Len(a)
        <5>1. a # <<>> /\ b[i] = a[Len(a)] /\ b[i + 1] = claim /\ i \in 1..Len(a)
          BY <1>7, <3>2, <4>1
        <5> QED
          BY <1>3, <1>4, <2>0, <2>2, <5>1
      <4>2. CASE i # Len(a)
        <5>1. i \in 1..(Len(a) - 1) /\ b[i] = a[i] /\ b[i + 1] = a[i + 1]
          BY <1>7, <3>2, <4>2
        <5> QED
          BY <2>0, <5>1
      <4> QED
        BY <4>1, <4>2
    <3>5. ASSUME NEW d \in manifest.devices
          PROVE  hardware'.events[d] = Boot!Cardinality({i \in DOMAIN b : b[i].source = d})
      <4> DEFINE A == {i \in DOMAIN a : a[i].source = d}
                 B == {i \in DOMAIN b : b[i].source = d}
      <4>1. \A T : Boot!Cardinality(T) = Cardinality(T)
        BY DEF Boot!Cardinality, Cardinality
      <4>2. IsFiniteSet(A) /\ Len(a) + 1 \notin A
        <5>1. IsFiniteSet(1..Len(a)) /\ A \in SUBSET (1..Len(a))
          BY <1>7, FS_Interval
        <5> QED
          BY <1>7, <5>1, FS_Subset
      <4>3. hardware.events \in [manifest.devices -> Nat] /\ hardware.events[d] = Cardinality(A)
        BY <2>0, <4>1 DEF StateShape
      <4>4. CASE d = source
        <5>1. B = A \cup {Len(a) + 1}
          BY <1>3, <1>7, <3>2, <4>4
        <5> HIDE DEF A, B
        <5>2. Cardinality(B) = Cardinality(A) + 1
          BY <4>2, <5>1, FS_AddElement
        <5>3. hardware'.events[d] = hardware.events[d] + 1
          BY <3>1, <4>3, <4>4
        <5> QED
          BY <4>1, <4>3, <5>2, <5>3 DEF B
      <4>5. CASE d # source
        <5>1. \A i \in DOMAIN b : i \in B <=> i \in A
          BY <1>3, <1>7, <3>2, <4>5
        <5>2. DOMAIN a \subseteq DOMAIN b
          BY <1>7, <3>2
        <5>3. B = A
          BY <5>1, <5>2
        <5>4. hardware'.events[d] = hardware.events[d]
          BY <3>1, <4>3, <4>5
        <5> QED
          BY <4>1, <4>3, <5>3, <5>4
      <4> QED
        BY <4>4, <4>5
    <3>6. hardware'.tick = IF b = <<>> THEN 0 ELSE b[Len(b)].tick
      <4>1. b # <<>> /\ b[Len(b)] = claim
        BY <3>2
      <4> QED
        BY <1>3, <3>1, <4>1
    <3>7. hardware'.sequence = Len(b) + Len(q)
      <4>1. Len(a) \in Nat /\ Len(q) \in Nat /\ n = Len(a) + Len(q)
        BY <1>7, <2>0
      <4> HIDE DEF a, q, n
      <4> QED
        BY <3>1, <3>2, <4>1
    <3> QED
      BY <1>2, <3>1, <3>3, <3>4, <3>5, <3>6, <3>7 DEF Boot!AdmittedInOrder, Boot!Last
  <2> QED
    BY <2>1, <2>2
<1> QED
  BY <1>1, <1>3, <1>8, <1>9, <1>10, <1>11

\* What does not change the state keeps what is said of it.
LEMMA SameState ==
    ASSUME hardware' = hardware, manifest' = manifest
    PROVE  /\ StateShape' = StateShape /\ Boot!AdmittedInOrder' = Boot!AdmittedInOrder /\ NumberedOnce' = NumberedOnce
           /\ Claimed' = Claimed /\ Filed' = Filed
<1>1. Claimed' = Claimed
  BY DEF Claimed
<1>2. Filed' = Filed
  BY <1>1 DEF Filed, Number
<1>3. NumberedOnce' = NumberedOnce
  BY <1>1 DEF NumberedOnce, Number
<1>4. Boot!AdmittedInOrder' = Boot!AdmittedInOrder
  BY DEF Boot!AdmittedInOrder, Boot!Loads, Boot!Last
<1>5. Boot!Valid(manifest)' = Boot!Valid(manifest)
  BY DEF Boot!Valid, Boot!Apart, Boot!Neighbours
<1>6. StateShape' = StateShape
  BY <1>5 DEF StateShape
<1> QED
  BY <1>1, <1>2, <1>3, <1>4, <1>6

\* A manifest that is accepted starts a state without claims.
LEMMA BootStarts ==
    ASSUME Boot!BootAssumption, NEW m \in Boot!Manifests, Boot!Valid(m), manifest' = m, hardware' = Boot!Booted(m)
    PROVE  StateShape' /\ Boot!AdmittedInOrder' /\ NumberedOnce' /\ Claimed' = {} /\ Filed' = {}
<1>1. /\ DOMAIN hardware' = {"manifest", "tick", "sequence", "accepted", "quarantined", "events"}
      /\ hardware'.manifest = m /\ hardware'.tick = 0 /\ hardware'.sequence = 0
      /\ hardware'.accepted = <<>> /\ hardware'.quarantined = <<>> /\ hardware'.events = [d \in m.devices |-> 0]
  BY DEF Boot!Booted
<1>2. Claimed' = {}
  BY <1>1 DEF Claimed, Boot!Range
<1>3. Filed' = {}
  BY <1>2 DEF Filed
<1>4. NumberedOnce'
  BY <1>1, <1>2 DEF NumberedOnce
<1>5. Boot!Valid(manifest)'
  BY DEF Boot!Valid, Boot!Apart, Boot!Neighbours
<1>6. hardware'.accepted \in Seq({}) /\ hardware'.quarantined \in Seq({})
  BY <1>1
<1>7. StateShape'
  BY <1>1, <1>5, <1>6 DEF StateShape, Boot!BootAssumption
<1>8. \A T : Boot!Cardinality(T) = Cardinality(T)
  BY DEF Boot!Cardinality, Cardinality
<1>9. \A d : {i \in DOMAIN hardware'.accepted : hardware'.accepted[i].source = d} = {}
  BY <1>1
<1>10. \A d \in m.devices : hardware'.events[d] =
          Boot!Cardinality({i \in DOMAIN hardware'.accepted : hardware'.accepted[i].source = d})
  BY <1>1, <1>8, <1>9, FS_EmptySet
<1>11. Boot!AdmittedInOrder'
  BY <1>1, <1>10 DEF Boot!AdmittedInOrder
<1> QED
  BY <1>2, <1>3, <1>4, <1>7, <1>11

\* Every step keeps the invariant.
LEMMA BootKept ==
    ASSUME Boot!BootAssumption, BootInv, [Boot!Next]_(Boot!vars)
    PROVE  BootInv'
<1>0. /\ MaxCalls \in Nat /\ MaxDeaths \in Nat /\ boots \in Nat /\ boot_recorded \in Nat /\ boot_crashes \in Nat
      /\ None \notin Boot!Manifests
  BY DEF BootInv, CallsCounted, Boot!BootAssumption
<1>1. ASSUME NEW m \in Boot!Manifests, Boot!Boot(m) PROVE BootInv'
  <2>1. /\ pending.step = "idle" /\ boot_recorded + boot_crashes < MaxCalls /\ boots' = boots + 1
        /\ boot_recorded' = boot_recorded + 1 /\ UNCHANGED <<claim_files, pending, boot_crashes>>
    BY <1>1 DEF Boot!Boot, Boot!Idle
  <2>2. CallsCounted' /\ PendingShape' /\ Unfiled' = {}
    BY <1>0, <2>1 DEF CallsCounted, BootInv, PendingShape, Unfiled
  <2>3. CASE Boot!Valid(m)
    <3>1. manifest' = m /\ hardware' = Boot!Booted(m) /\ manifest' # None
      BY <1>0, <1>1, <2>3 DEF Boot!Boot
    <3>2. StateShape' /\ Boot!AdmittedInOrder' /\ NumberedOnce' /\ Filed' = {}
      BY <2>3, <3>1, BootStarts
    <3>3. FilesFollow'
      <4>1. boots' = 1 => claim_files' = {}
        BY <1>0, <2>1 DEF BootInv
      <4> QED
        BY <2>2, <3>2, <4>1 DEF FilesFollow
    <3> QED
      BY <1>0, <2>1, <2>2, <3>1, <3>2, <3>3 DEF BootInv
  <2>4. CASE ~Boot!Valid(m)
    <3>1. manifest' = manifest /\ hardware' = hardware
      BY <1>1, <2>4 DEF Boot!Boot
    <3>2. manifest # None => FilesFollow'
      BY <1>0, <2>1 DEF BootInv, FilesFollow
    <3> QED
      BY <1>0, <2>1, <2>2, <3>1, <3>2, SameState DEF BootInv
  <2> QED
    BY <2>3, <2>4
<1>2. ASSUME NEW source, NEW tick \in 0..MaxTick, NEW granted \in BOOLEAN, Boot!Claim(source, tick, granted)
      PROVE  BootInv'
  <2>1. PICK claim : claim = [source |-> source, tick |-> tick, granted |-> granted, before |-> hardware]
    OBVIOUS
  <2>2. /\ manifest # None /\ pending.step = "idle" /\ boot_recorded + boot_crashes < MaxCalls
        /\ pending' = [claim |-> claim, step |-> "file"]
        /\ UNCHANGED <<manifest, claim_files, boot_recorded, boots, boot_crashes>>
    BY <1>2, <2>1 DEF Boot!Claim, Boot!Idle, Boot!Loads
  <2>3. /\ StateShape' /\ Boot!AdmittedInOrder' /\ NumberedOnce' /\ Claimed' = Claimed \cup {claim}
        /\ Number(claim) = hardware.sequence'
    BY <1>2, <2>1, <2>2, ClaimKeeps DEF BootInv
  <2>4. /\ DOMAIN pending' = {"claim", "step"} /\ pending'.step = "file" /\ pending'.claim = claim
        /\ Number(pending.claim)' = Number(claim) /\ hardware'.sequence = hardware.sequence'
    BY <2>2 DEF Number
  <2>5. PendingShape' /\ CallsCounted'
    BY <1>0, <2>2, <2>3, <2>4 DEF CallsCounted, BootInv, PendingShape
  <2>6. Filed' = Filed \cup {<<Number(claim), claim>>}
    BY <2>3 DEF Filed, Number
  <2>7. Unfiled' = {<<Number(claim), claim>>} /\ Unfiled = {}
    BY <2>2, <2>4 DEF Unfiled
  <2>8. FilesFollow'
    BY <2>2, <2>6, <2>7 DEF BootInv, FilesFollow
  <2> QED
    BY <2>2, <2>3, <2>5, <2>8 DEF BootInv
<1>3. CASE Boot!WriteClaim
  <2>1. /\ pending.step = "file" /\ claim_files' = claim_files \cup {<<hardware.sequence, pending.claim>>}
        /\ pending' = [pending EXCEPT !.step = "record"] /\ UNCHANGED <<manifest, hardware, boot_recorded, boots, boot_crashes>>
    BY <1>3 DEF Boot!WriteClaim
  <2>2. manifest # None /\ Number(pending.claim) = hardware.sequence
    BY <2>1 DEF BootInv, PendingShape
  <2>3. DOMAIN pending' = {"claim", "step"} /\ pending'.step = "record"
    BY <2>1 DEF BootInv, PendingShape
  <2>4. CallsCounted' /\ PendingShape' /\ Unfiled' = {} /\ Unfiled = {<<hardware.sequence, pending.claim>>}
    BY <1>0, <2>1, <2>2, <2>3 DEF CallsCounted, BootInv, PendingShape, Unfiled
  <2>5. FilesFollow'
    BY <2>1, <2>2, <2>4, SameState DEF BootInv, FilesFollow
  <2> QED
    BY <2>1, <2>2, <2>4, <2>5, SameState DEF BootInv
<1>4. CASE Boot!Record \/ Boot!Crash
  <2>1. /\ pending.step # "idle" /\ pending' = Boot!NoCall /\ UNCHANGED <<manifest, hardware, claim_files, boots>>
        /\ \/ pending.step = "record" /\ boot_recorded' = boot_recorded + 1 /\ boot_crashes' = boot_crashes
           \/ boot_crashes < MaxDeaths /\ boot_crashes' = boot_crashes + 1 /\ boot_recorded' = boot_recorded
    BY <1>4 DEF Boot!Record, Boot!Crash
  <2>2. DOMAIN pending' = {"claim", "step"} /\ pending'.step = "idle"
    BY <2>1 DEF Boot!NoCall
  <2>3. CallsCounted' /\ PendingShape' /\ Unfiled' = {}
    BY <1>0, <2>1, <2>2 DEF CallsCounted, BootInv, PendingShape, Unfiled
  <2>4. manifest # None => FilesFollow'
    <3>1. pending.step = "record" => Unfiled = {}
      BY DEF Unfiled
    <3>2. boot_crashes' = 0 => boot_crashes = 0 /\ pending.step = "record"
      BY <1>0, <2>1
    <3> QED
      BY <2>1, <2>3, <3>1, <3>2, SameState DEF BootInv, FilesFollow
  <2> QED
    BY <2>1, <2>2, <2>3, <2>4, SameState DEF BootInv
<1>5. CASE UNCHANGED Boot!vars
  <2>1. UNCHANGED <<manifest, hardware, claim_files, boots, boot_recorded, boot_crashes, pending>>
    BY <1>5 DEF Boot!vars
  <2>2. Unfiled' = Unfiled /\ CallsCounted' = CallsCounted /\ PendingShape' = PendingShape
    BY <2>1 DEF Unfiled, Number, CallsCounted, PendingShape
  <2>3. FilesFollow' = FilesFollow
    BY <2>1, <2>2, SameState DEF FilesFollow
  <2> QED
    BY <2>1, <2>2, <2>3, SameState DEF BootInv
<1> QED
  BY <1>1, <1>2, <1>3, <1>4, <1>5 DEF Boot!Next

\* There are as many numbered claims as claim_sequence says.
LEMMA FiledCount ==
    ASSUME NumberedOnce, hardware.sequence \in Nat
    PROVE  IsFiniteSet(Filed) /\ Cardinality(Filed) = hardware.sequence
<1> DEFINE n == hardware.sequence
           f == [k \in 1..n |-> <<k, CHOOSE c \in Claimed : Number(c) = k>>]
<1>1. ASSUME NEW k \in 1..n PROVE f[k] \in Filed /\ f[k][1] = k
  <2>1. PICK c \in Claimed : Number(c) = k
    BY DEF NumberedOnce
  <2> DEFINE d == CHOOSE e \in Claimed : Number(e) = k
  <2>2. d \in Claimed /\ Number(d) = k
    BY <2>1
  <2>3. f[k] = <<k, d>>
    OBVIOUS
  <2> HIDE DEF f, d
  <2> QED
    BY <2>2, <2>3 DEF Filed
<1>2. ASSUME NEW c \in Claimed PROVE Number(c) \in 1..n /\ f[Number(c)] = <<Number(c), c>>
  <2>1. Number(c) \in 1..n
    BY DEF NumberedOnce
  <2> DEFINE d == CHOOSE e \in Claimed : Number(e) = Number(c)
  <2>2. d \in Claimed /\ Number(d) = Number(c)
    OBVIOUS
  <2>3. f[Number(c)] = <<Number(c), d>>
    BY <2>1
  <2> HIDE DEF f, d
  <2>4. d = c
    BY <2>2 DEF NumberedOnce
  <2> QED
    BY <2>1, <2>3, <2>4
<1>3. f = [k \in 1..n |-> f[k]]
  OBVIOUS
<1> HIDE DEF f
<1>4. f \in Bijection(1..n, Filed)
  <2>1. f \in [1..n -> Filed]
    BY <1>1, <1>3
  <2>2. \A j, k \in 1..n : f[j] = f[k] => j = k
    BY <1>1
  <2>3. \A t \in Filed : \E k \in 1..n : f[k] = t
    BY <1>2 DEF Filed
  <2>4. f \in Injection(1..n, Filed)
    BY <2>1, <2>2 DEF Injection, IsInjective
  <2>5. f \in Surjection(1..n, Filed)
    BY <2>1, <2>3 DEF Surjection
  <2> QED
    BY <2>4, <2>5 DEF Bijection
<1>5. ExistsBijection(1..n, Filed)
  BY <1>4 DEF ExistsBijection
<1>6. IsFiniteSet(Filed)
  BY <1>5, FS_NatBijection
<1> QED
  BY <1>5, <1>6, FS_CountingElements

\* The invariant gives what is checked.
LEMMA BootRules ==
    ASSUME Boot!BootAssumption, BootInv
    PROVE  /\ Boot!TypeOK /\ Boot!BootedRangesApart /\ Boot!AdmittedInOrder
           /\ Boot!FirstBootVerifies /\ Boot!VerifiedClaimsFiled
<1>0. \A T : Boot!Cardinality(T) = Cardinality(T)
  BY DEF Boot!Cardinality, Cardinality
<1>1. boots \in 0..MaxCalls /\ boot_crashes \in 0..MaxDeaths /\ boot_recorded \in Nat
  BY DEF BootInv, CallsCounted, Boot!BootAssumption
<1>2. CASE manifest = None
  BY <1>1, <1>2 DEF Boot!TypeOK, Boot!BootedRangesApart, Boot!AdmittedInOrder, Boot!FirstBootVerifies,
                    Boot!VerifiedClaimsFiled, Boot!Verifies, Boot!Loads
<1>3. CASE manifest # None
  <2>1. StateShape /\ Boot!AdmittedInOrder /\ NumberedOnce /\ FilesFollow /\ hardware.sequence \in Nat
    BY <1>3 DEF BootInv, StateShape
  <2>2. Boot!TypeOK
    BY <1>1, <2>1 DEF Boot!TypeOK, StateShape
  <2>3. Boot!BootedRangesApart
    <3>1. /\ manifest.memory \in SUBSET MemoryRanges /\ Boot!Valid(manifest)
          /\ MemoryRanges \subseteq [start : Int, size : Int] /\ Boot!IsFiniteSet(MemoryRanges)
      BY <2>1 DEF StateShape, Boot!Manifests, Boot!BootAssumption
    <3>2. IsFiniteSet(MemoryRanges)
      BY <3>1 DEF Boot!IsFiniteSet, IsFiniteSet
    <3>3. IsFiniteSet(manifest.memory) /\ manifest.memory \subseteq [start : Int, size : Int]
      BY <3>1, <3>2, FS_Subset
    <3> QED
      BY <3>1, <3>3, RangesApart DEF Boot!BootedRangesApart
  <2>4. IsFiniteSet(Filed) /\ Cardinality(Filed) = hardware.sequence
    BY <2>1, FiledCount
  <2>5. Boot!FirstBootVerifies
    <3> SUFFICES ASSUME pending.step = "idle", boots = 1, boot_crashes = 0 PROVE Boot!Verifies
      BY DEF Boot!FirstBootVerifies
    <3>1. claim_files = Filed
      BY <2>1 DEF FilesFollow, Unfiled
    <3> QED
      BY <1>0, <1>3, <2>1, <2>4, <3>1 DEF Boot!Verifies, Boot!Loads, StateShape
  <2>6. Boot!VerifiedClaimsFiled
    <3> SUFFICES ASSUME boots = 1, Boot!Verifies PROVE {f[2] : f \in claim_files} = Claimed
      BY DEF Boot!VerifiedClaimsFiled, Claimed
    <3>1. claim_files \in SUBSET Filed /\ Cardinality(claim_files) = hardware.sequence
      BY <1>0, <2>1 DEF FilesFollow, Boot!Verifies
    <3>2. claim_files = Filed
      BY <2>4, <3>1, FS_Subset
    <3>3. \A f \in Filed : f[2] \in Claimed
      BY DEF Filed
    <3>4. \A c \in Claimed : <<Number(c), c>> \in Filed /\ <<Number(c), c>>[2] = c
      BY DEF Filed
    <3> QED
      BY <3>2, <3>3, <3>4
  <2> QED
    BY <2>1, <2>2, <2>3, <2>5, <2>6
<1> QED
  BY <1>2, <1>3

\* A behaviour of scenario "boot" is one of its component.
LEMMA BootAlone ==
    /\ Spec /\ scenario = "boot" => Boot!Spec /\ [](scenario = "boot")
    /\ Spec /\ ~(scenario = "boot") => []~(scenario = "boot")
<1>1. Init /\ scenario = "boot" => Boot!Init
  BY DEF Init
<1>2. UNCHANGED vars => UNCHANGED <<scenario, Boot!vars>>
  BY DEF vars, bootVars, Boot!vars
<1>3. scenario = "boot" /\ [Next]_vars => (scenario = "boot")' /\ [Boot!Next]_(Boot!vars)
  BY <1>2 DEF Next, LedgerStep, KernelStep, RegistryStep, BootStep, MeshStep, SwarmStep
<1>4. ~(scenario = "boot") /\ [Next]_vars => ~(scenario = "boot")'
  BY DEF Next, vars, LedgerStep, KernelStep, RegistryStep, BootStep, MeshStep, SwarmStep
<1> QED
  BY <1>1, <1>3, <1>4, PTL DEF Spec, Boot!Spec

\* Whatever devices, ranges and ticks there are, and however many boots, claims and
\* deaths: the ranges of a machine that booted are disjoint (_validate_manifest), admitted
\* events come with ever later ticks and are counted once (irq_claim), and verify holds
\* after a first boot without deaths, and after a death only if every claim has its file.
THEOREM HardwareAlwaysVerifies == Spec => []HardwareVerifies
<1>1. Boot!Init => BootInv
  BY RulesAssumption DEF Boot!Init, Boot!NoCall, Boot!BootAssumption, BootInv, PendingShape, CallsCounted
<1>2. BootInv /\ [Boot!Next]_(Boot!vars) => BootInv'
  BY RulesAssumption, BootKept
<1>3. BootInv => HardwareVerifies
  BY RulesAssumption, BootRules DEF HardwareVerifies
<1>4. ~(scenario = "boot") => HardwareVerifies
  BY DEF HardwareVerifies
<1> QED
  BY <1>1, <1>2, <1>3, <1>4, BootAlone, PTL DEF Boot!Spec

-----------------------------------------------------------------------------
(* What no step does to the records.                                       *)

\* An index and its bundles are listed under the same names.
Shelved ==
  registry # None => /\ {"index", "bundles"} \subseteq DOMAIN registry
                     /\ registry.index = [k \in DOMAIN registry.index |-> registry.index[k]]
                     /\ registry.bundles = [k \in DOMAIN registry.index |-> registry.bundles[k]]

\* Building, mirroring and damage keep to the names.
LEMMA ShelvedKept == Shelved /\ [Registry!Next]_(Registry!vars) => Shelved'
<1> SUFFICES ASSUME Shelved, [Registry!Next]_(Registry!vars) PROVE Shelved'
  OBVIOUS
<1>1. ASSUME NEW trees, NEW s, registry' = Registry!Built(trees, s) PROVE Shelved'
  BY <1>1 DEF Shelved, Registry!Built
<1>2. ASSUME registry' = registry PROVE Shelved'
  BY <1>2 DEF Shelved
<1>3. ASSUME NEW k \in PackageKeys, Registry!Damage(k) PROVE Shelved'
  <2> DEFINE bundles == registry.bundles
             index == registry.index
  <2>1. /\ registry # None /\ k \in DOMAIN bundles /\ {"index", "bundles"} \subseteq DOMAIN registry
        /\ index = [j \in DOMAIN index |-> index[j]] /\ bundles = [j \in DOMAIN index |-> bundles[j]]
    BY <1>3 DEF Registry!Damage, Shelved
  <2>2. PICK b : registry' = [registry EXCEPT !.bundles[k] = b]
    <3>1. CASE registry' = [registry EXCEPT !.bundles[k] = None]
      BY <3>1
    <3>2. ASSUME NEW t \in PackageTrees, registry' = [registry EXCEPT !.bundles[k].content = t]
          PROVE  registry' = [registry EXCEPT !.bundles[k] = [registry.bundles[k] EXCEPT !.content = t]]
      BY <3>2
    <3> QED
      BY <1>3, <3>1, <3>2 DEF Registry!Damage
  <2>3. /\ DOMAIN registry' = DOMAIN registry /\ registry'.index = index
        /\ registry'.bundles = [bundles EXCEPT ![k] = b]
    BY <2>1, <2>2
  <2> HIDE DEF bundles, index
  <2>4. registry'.bundles = [j \in DOMAIN index |-> registry'.bundles[j]]
    BY <2>1, <2>3
  <2> QED
    BY <2>1, <2>3, <2>4 DEF Shelved
<1> QED
  BY <1>1, <1>2, <1>3 DEF Registry!Next, Registry!vars, Registry!CreateRegistry, Registry!SyncFrom,
                          Registry!CreateLock, Registry!Install

\* Only an install with a current lock changes the store.
LEMMA LockKept == Shelved /\ Registry!Next => Registry!LockCurrent
<1> SUFFICES ASSUME Shelved, Registry!Next, installed' # installed
             PROVE  lock.index = registry.index /\ registry.bundles = registry.index
  BY DEF Registry!LockCurrent
<1>1. PICK k \in PackageKeys : Registry!Install(k)
  BY DEF Registry!Next, Registry!CreateRegistry, Registry!SyncFrom, Registry!CreateLock, Registry!Damage
<1>2. Registry!verify_registry /\ Registry!verify_lock
  BY <1>1 DEF Registry!Install
<1>3. registry # None /\ \A j \in DOMAIN registry.index : registry.bundles[j] = registry.index[j]
  BY <1>2 DEF Registry!verify_registry, Registry!RegistryReadable
<1> QED
  BY <1>2, <1>3 DEF Registry!verify_lock, Shelved

\* However long the histories, no step changes or removes a receipt of a single process's
\* ledger (record), changes the store while lock and registry differ (verify_lock), or
\* takes the selection from a value when one more trusted claim for it arrives (resolve).
THEOREM StepsAlwaysRespectRecords == Spec => StepsRespectRecords
<1>1. (\E p : {Alone} = {p}) /\ (Ledger!Appends <=> LedgerTorn!Appends)
  BY DEF Ledger!Appends, LedgerTorn!Appends
<1>2. Ledger!Spec => [][Ledger!Appends]_(Ledger!vars)
  BY <1>1, Ledger!SingleWriterAppends
<1>3. LedgerTorn!Spec => [][LedgerTorn!Appends]_(LedgerTorn!vars)
  BY <1>1, LedgerTorn!SingleWriterAppends
<1>4. Registry!Spec => []Shelved
  <2>1. Registry!Init => Shelved
    BY DEF Registry!Init, Shelved
  <2> QED
    BY <2>1, ShelvedKept, PTL DEF Registry!Spec
<1>5. /\ UNCHANGED Ledger!vars => Ledger!Appends
      /\ UNCHANGED LedgerTorn!vars => LedgerTorn!Appends
  BY DEF Ledger!vars, Ledger!files, Ledger!Appends, LedgerTorn!vars, LedgerTorn!files, LedgerTorn!Appends
<1>6. Shelved /\ [Registry!Next]_(Registry!vars) => Registry!LockCurrent
  BY LockKept DEF Registry!LockCurrent, Registry!vars
<1>7. scenario \in {"ledger", "ledger_torn"} <=> scenario = "ledger" \/ scenario = "ledger_torn"
  OBVIOUS
<1> QED
  BY <1>1, <1>2, <1>3, <1>4, <1>5, <1>6, <1>7, SupportKept, LedgerAlone, LedgerWithTorn, RegistryAlone, MeshAlone,
     MeshAlways, PTL DEF StepsRespectRecords, Registry!Spec, Mesh!Spec
============================================================================
