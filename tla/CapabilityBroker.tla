-------------------------- MODULE CapabilityBroker --------------------------
(***************************************************************************)
(* One brokered run of bogvm/kernel.py: BogKernel.run_brokered, the thread *)
(* of its _CapabilityBroker, the application that talks to it through      *)
(* bog_runtime, and the replay of the process receipt.  The application is *)
(* arbitrary: it may send any request, write its runtime directory or the  *)
(* installed package behind the broker's back, and exit at any moment.     *)
(*                                                                         *)
(* A hash is the hashed value.  The installed package is the content of    *)
(* one granted file, and verifies when that content is the signed one.     *)
(***************************************************************************)
EXTENDS Integers, Sequences, FiniteSets

CONSTANTS
    Value,          \* contents of files
    Signed,         \* the content the package was signed with
    Request,        \* requests the application may send
    Granted,        \* capabilities of the manifest: <<operation, argument>>
    WritePath,      \* paths of the runtime directory
    MaxRequests,    \* bound on the requests of the run
    None

\* What the constants are; the MC modules assume it of each instance.
BrokerAssumption ==
    /\ Signed \in Value /\ None \notin Value
    /\ Request \subseteq [operation : {"read", "write", "env", "dependency", "receipt", "unknown"},
                          argument : STRING, data : Value \cup {None}, token : BOOLEAN]
    /\ \A request \in Request : request.operation = "write" => request.argument \in WritePath
    /\ MaxRequests \in Nat

VARIABLES
    installed,      \* content of the granted file of the package
    dependency,     \* TRUE: the dependency package verifies
    runtime,        \* the runtime directory
    before,         \* runtime_before
    run,            \* where run_brokered is: [at, returncode, failures]
    backlog,        \* connections not yet accepted
    thread,         \* what the broker thread does
    running,        \* broker.running
    calls,          \* broker.calls
    receipt,        \* the process receipt, or None
    joined,         \* history: thread.join(timeout=2) did not run out
    performed,      \* history: writes the broker performed
    tampered,       \* history: the package or the dependency was changed
    sent            \* requests sent so far

disk == <<installed, dependency, runtime>>
vars == <<disk, before, run, backlog, thread, running, calls, receipt, joined, performed, tampered, sent>>

Waiting == [at |-> "accept"]
Verified == installed = Signed
-----------------------------------------------------------------------------
(* run_brokered                                                            *)

\* A package that does not verify, or a manifest without capabilities, ends the run at once.
RefuseRun ==
    /\ run.at = "ready" /\ ~Verified
    /\ run' = [run EXCEPT !.at = "done"]
    /\ receipt' = [status |-> "blocked", calls |-> <<>>]
    /\ UNCHANGED <<disk, before, backlog, thread, running, calls, joined, performed, tampered, sent>>

StartBroker ==
    /\ run.at = "ready" /\ Verified
    /\ running' = TRUE
    /\ thread' = Waiting
    /\ before' = runtime
    /\ run' = [run EXCEPT !.at = "app"]
    /\ UNCHANGED <<disk, backlog, calls, receipt, joined, performed, tampered, sent>>

\* subprocess.run returns: the application ended, or could not be started.
AppExits ==
    /\ run.at = "app"
    /\ \E failed \in BOOLEAN :
          run' = [run EXCEPT !.at = "join", !.failures = @ \/ failed]
    /\ running' = FALSE
    /\ UNCHANGED <<disk, before, backlog, thread, calls, receipt, joined, performed, tampered, sent>>

\* stop(): the join ends with the thread or with its timeout; then the socket is closed.
StopJoined ==
    /\ run.at = "join" /\ thread.at = "gone"
    /\ run' = [run EXCEPT !.at = "package"]
    /\ UNCHANGED <<disk, before, backlog, thread, running, calls, receipt, joined, performed, tampered, sent>>

\* thread.join() without its timeout.
StopTimedOut_Never == StopJoined

StopTimedOut ==
    /\ run.at = "join" /\ thread.at # "gone"
    /\ run' = [run EXCEPT !.at = "package"] /\ joined' = FALSE
    /\ UNCHANGED <<disk, before, backlog, thread, running, calls, receipt, performed, tampered, sent>>

CheckPackage ==
    /\ run.at = "package"
    /\ run' = [run EXCEPT !.at = "runtime", !.failures = @ \/ ~Verified]
    /\ UNCHANGED <<disk, before, backlog, thread, running, calls, receipt, joined, performed, tampered, sent>>

IsWrite(call) == call.operation = "write" /\ call.status = "completed"

\* The indices of the calls that wrote their path last.
FinalWrites(cs) ==
    {i \in DOMAIN cs : IsWrite(cs[i]) /\ \A j \in DOMAIN cs : j > i /\ IsWrite(cs[j]) => cs[j].argument # cs[i].argument}

\* Raw changes, and brokered outputs that no longer hold what the broker wrote.
CheckRuntime ==
    /\ run.at = "runtime"
    /\ LET written == {calls[i].argument : i \in FinalWrites(calls)}
           raw     == {p \in WritePath : runtime[p] # before[p]} \ written
           changed == {i \in FinalWrites(calls) : runtime[calls[i].argument] # calls[i].sha256}
       IN  run' = [run EXCEPT !.at = "finalize", !.failures = @ \/ raw # {} \/ changed # {}]
    /\ UNCHANGED <<disk, before, backlog, thread, running, calls, receipt, joined, performed, tampered, sent>>

\* _finalize_brokered_process: the receipt schema knows five operations and raises on others.
Finalize ==
    /\ run.at = "finalize"
    /\ IF \E i \in DOMAIN calls : calls[i].operation = "unknown"
       THEN /\ run' = [run EXCEPT !.at = "raised"]
            /\ UNCHANGED receipt
       ELSE /\ run' = [run EXCEPT !.at = "done"]
            /\ receipt' = [status |-> IF run.failures THEN "blocked" ELSE "completed", calls |-> calls]
    /\ UNCHANGED <<disk, before, backlog, thread, running, calls, joined, performed, tampered, sent>>
-----------------------------------------------------------------------------
(* _CapabilityBroker._serve and _handle                                    *)

Accept ==
    /\ thread.at = "accept" /\ backlog # <<>> /\ run.at \in {"app", "join"}
    /\ thread' = [at |-> "verify", request |-> Head(backlog)]
    /\ backlog' = Tail(backlog)
    /\ UNCHANGED <<disk, before, run, running, calls, receipt, joined, performed, tampered, sent>>

\* The accept timed out or the socket was closed, and `while self.running' fails.
ServeEnds ==
    /\ thread.at = "accept" /\ ~running
    /\ thread' = [at |-> "gone"]
    /\ UNCHANGED <<disk, before, run, backlog, running, calls, receipt, joined, performed, tampered, sent>>

Official(request) == request.operation \in {"read", "write", "env", "dependency"}
Allowed(request)  == <<request.operation, request.argument>> \in Granted

\* The token, then the package.
HandleVerify ==
    /\ thread.at = "verify"
    /\ thread' = [at |-> "access", request |-> thread.request,
                  package |-> IF ~thread.request.token \/ ~Official(thread.request) THEN None
                              ELSE IF Verified THEN "completed" ELSE "blocked"]
    /\ UNCHANGED <<disk, before, run, backlog, running, calls, receipt, joined, performed, tampered, sent>>

\* What _handle writes down of a call; a field it does not set is None.
Evidence(request, package, allowed, sha256, dependency_status, status) ==
    [operation |-> request.operation, argument |-> IF request.token THEN request.argument ELSE None,
     package |-> package, allowed |-> allowed, sha256 |-> sha256,
     dependency_status |-> dependency_status, status |-> status]

HandleAccess ==
    /\ thread.at = "access"
    /\ LET request == thread.request
           may == /\ request.token /\ thread.package # "blocked"
                  /\ Official(request) => Allowed(request)
                  /\ request.operation # "unknown"
           fresh == request.operation = "dependency" /\ may
           ok == may /\ (fresh => dependency)
           sha == IF request.token /\ request.operation = "write" THEN request.data
                  ELSE IF ok /\ request.operation = "read" THEN installed
                  ELSE IF ok /\ request.operation = "receipt" THEN Len(calls) ELSE None
       IN  /\ thread' = [at |-> "record",
                         call |-> Evidence(request, thread.package,
                                           IF request.token /\ Official(request) THEN Allowed(request) ELSE None,
                                           sha, IF fresh THEN dependency ELSE None,
                                           IF ok THEN "completed" ELSE "blocked")]
           /\ IF ok /\ request.operation = "write"
              THEN /\ runtime' = [runtime EXCEPT ![request.argument] = request.data]
                   /\ performed' = Append(performed, <<request.argument, request.data>>)
              ELSE UNCHANGED <<runtime, performed>>
    /\ UNCHANGED <<installed, dependency, before, run, backlog, running, calls, receipt, joined, tampered, sent>>

HandleRecord_Running ==
    /\ thread.at = "record"
    /\ calls' = IF running THEN Append(calls, thread.call) ELSE calls
    /\ thread' = IF running THEN Waiting ELSE [at |-> "gone"]
    /\ UNCHANGED <<disk, before, run, backlog, running, receipt, joined, performed, tampered, sent>>

\* The call is listed, then answered: sendall to a client that is gone ends the thread.
HandleRecord ==
    /\ thread.at = "record"
    /\ calls' = Append(calls, thread.call)
    /\ \E answered \in BOOLEAN : thread' = IF answered /\ running THEN Waiting ELSE [at |-> "gone"]
    /\ UNCHANGED <<disk, before, run, backlog, running, receipt, joined, performed, tampered, sent>>
-----------------------------------------------------------------------------
(* The application.                                                        *)

AppRequests ==
    /\ run.at = "app" /\ sent < MaxRequests
    /\ \E request \in Request : backlog' = Append(backlog, request)
    /\ sent' = sent + 1
    /\ UNCHANGED <<disk, before, run, thread, running, calls, receipt, joined, performed, tampered>>

AppWritesRaw ==
    /\ run.at = "app"
    /\ \E p \in WritePath, v \in Value : runtime' = [runtime EXCEPT ![p] = v]
    /\ UNCHANGED <<installed, dependency, before, run, backlog, thread, running, calls, receipt, joined, performed, tampered, sent>>

\* Anyone may change the installed files, and restore them.
Tamper ==
    /\ run.at # "done"
    /\ \/ \E v \in Value : installed' = v /\ UNCHANGED dependency
       \/ \E d \in BOOLEAN : dependency' = d /\ UNCHANGED installed
    /\ tampered' = TRUE
    /\ UNCHANGED <<runtime, before, run, backlog, thread, running, calls, receipt, joined, performed, sent>>
-----------------------------------------------------------------------------
(* BogKernel.replay: _replay_call computes each evidence again.            *)

ReplayCall(call, final) ==
    [operation |-> call.operation, argument |-> call.argument, status |-> call.status,
     package |-> IF call.operation # "receipt" THEN IF Verified THEN "completed" ELSE "blocked" ELSE None,
     allowed |-> IF call.operation # "receipt" THEN <<call.operation, call.argument>> \in Granted ELSE None,
     sha256 |-> CASE call.operation = "read"  -> IF call.status = "completed" THEN installed ELSE None
                  [] call.operation = "write" -> IF call.status = "completed" /\ final
                                                 THEN runtime[call.argument] ELSE call.sha256
                  [] call.operation = "receipt" -> call.sha256
                  [] OTHER                    -> None,
     dependency_status |-> IF call.operation = "dependency" /\ <<call.operation, call.argument>> \in Granted
                           THEN dependency ELSE None]

\* A call without a path, which a wrong token leaves, raises instead.
ReplayVerified ==
    /\ Verified
    /\ \A i \in DOMAIN receipt.calls :
          /\ receipt.calls[i].operation # "receipt" => receipt.calls[i].argument # None
          /\ ReplayCall(receipt.calls[i], i \in FinalWrites(receipt.calls)) = receipt.calls[i]
-----------------------------------------------------------------------------
Init ==
    /\ installed \in Value /\ dependency = TRUE
    /\ runtime = [p \in WritePath |-> None] /\ before = runtime
    /\ run = [at |-> "ready", failures |-> FALSE]
    /\ backlog = <<>> /\ calls = <<>> /\ performed = <<>>
    /\ thread = [at |-> "gone"] /\ running = FALSE
    /\ receipt = None /\ joined = TRUE /\ tampered = FALSE /\ sent = 0

Main == \/ RefuseRun \/ StartBroker \/ StopJoined \/ StopTimedOut
        \/ CheckPackage \/ CheckRuntime \/ Finalize

Serve == Accept \/ ServeEnds \/ HandleVerify \/ HandleAccess \/ HandleRecord

Next == Main \/ Serve \/ AppExits \/ AppRequests \/ AppWritesRaw \/ Tamper

Spec == Init /\ [][Next]_vars

\* The main thread keeps going; nothing is assumed of the broker thread or the application.
FairSpec == Spec /\ WF_vars(Main)
-----------------------------------------------------------------------------
\* The threads are at one of their steps, and no request is served twice.
TypeOK ==
    /\ installed \in Value /\ dependency \in BOOLEAN /\ tampered \in BOOLEAN
    /\ runtime \in [WritePath -> Value \cup {None}]
    /\ run.at \in {"ready", "app", "join", "package", "runtime", "finalize", "done", "raised"}
    /\ thread.at \in {"accept", "verify", "access", "record", "gone"}
    /\ Len(backlog) + Len(calls) <= MaxRequests

Issued == receipt # None

\* A completed process receipt accounts for the runtime directory: every file holds the
\* last brokered write the receipt lists for it, or what it held before the run.
CompletedAccountsForFiles ==
    (Issued /\ joined /\ receipt.status = "completed") =>
        \A p \in WritePath :
            LET last == {i \in FinalWrites(receipt.calls) : receipt.calls[i].argument = p}
            IN  runtime[p] = IF last = {} THEN before[p] ELSE receipt.calls[CHOOSE i \in last : TRUE].sha256

\* The writes are those that cs lists as completed, in the same order.
ListedIn(writes, cs) ==
    \E at \in [DOMAIN writes -> DOMAIN cs] :
        /\ \A i, j \in DOMAIN writes : i < j => at[i] < at[j]
        /\ {at[i] : i \in DOMAIN writes} = {k \in DOMAIN cs : IsWrite(cs[k])}
        /\ \A i \in DOMAIN writes : writes[i] = <<cs[at[i]].argument, cs[at[i]].sha256>>

\* "Brokered calls ... become ordered syscall receipt nodes in a final process proof":
\* the receipt lists every write the broker performed, in order, if its thread had ended.
JoinedAccessReceipted == Issued /\ joined => ListedIn(performed, receipt.calls)

\* A file swapped between the verification of a request and the read of it, and put back,
\* does not get past the replay.
ForgedReadDetected ==
    (Issued /\ \E i \in DOMAIN receipt.calls :
        receipt.calls[i].operation = "read" /\ receipt.calls[i].status = "completed" /\ receipt.calls[i].sha256 # Signed)
    => ~ReplayVerified

\* The receipt of a completed run over untouched packages replays, unless it lists a call
\* without its path.
PathsListed == \A i \in DOMAIN receipt.calls : receipt.calls[i].argument # None
PathedReplays ==
    (Issued /\ joined /\ receipt.status = "completed" /\ ~tampered /\ PathsListed) => ReplayVerified

\* Once the application has ended the run ends too, even if the broker thread is stuck.
RunEnds == (run.at = "join") ~> (run.at \in {"done", "raised"})

----------------------------------------------------------------------------
\* What the documents say and the code does not do (README, section 6).

\* Every write is listed, even when the broker thread was given up.
EveryAccessReceipted == Issued => ListedIn(performed, receipt.calls)

\* Every completed run over untouched packages replays.
CompletedReplays == (Issued /\ receipt.status = "completed" /\ ~tampered) => ReplayVerified

\* Every run ends with a receipt, blocked or completed.
RunReceipted == run.at # "raised"
============================================================================
