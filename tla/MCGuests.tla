------------------------------ MODULE MCGuests ------------------------------
(***************************************************************************)
(* What runs as a guest of the kernel: the TS-Lang compiler and its stub,  *)
(* a brokered application, and the workspace roots and their journal.  The *)
(* three do not share state; a behaviour is a scenario of one of them, and *)
(* the variables of the others are Off.                                    *)
(***************************************************************************)
EXTENDS Integers, Sequences

CONSTANTS Scenarios, None, Off,
          Texts, Sentinels, ExitCodes, SourceHashes, InputFiles, BUFFER, LIMIT, MaxLines,
          FileContents, SignedContent, Requests, Grants, RuntimePaths, MaxRequests,
          WorkPaths, WorkContents, PathLength, ContentSize,
          MAX_OBJECTS, MAX_PATHS, MAX_CONTENT, MAX_PATH_B, MaxTried

VARIABLES scenario,
          source, file, code, status, esi, edi, length, buffer, trace,
          installed, dependency, runtime, before, run, backlog, thread, running,
          calls, receipt, joined, performed, tampered, sent,
          root, objects, index, accepted, tried, journal, head, active, image

tsVars == <<source, file, code, status, esi, edi, length, buffer, trace>>
brokerVars == <<installed, dependency, runtime, before, run, backlog, thread, running,
                calls, receipt, joined, performed, tampered, sent>>
rootVars == <<root, objects, index, accepted, tried, journal, head, active, image>>
vars == <<scenario, tsVars, brokerVars, rootVars>>

-----------------------------------------------------------------------------
Ts == INSTANCE TsLang WITH
        Text <- Texts, Forbidden <- Sentinels, Codes <- ExitCodes, Hashes <- SourceHashes, Files <- InputFiles

Broker == INSTANCE CapabilityBroker WITH
            Value <- FileContents, Signed <- SignedContent, Request <- Requests, Granted <- Grants,
            WritePath <- RuntimePaths

Work == INSTANCE WorkspaceRoot WITH
           Paths <- WorkPaths, Contents <- WorkContents, Length <- PathLength, Size <- ContentSize

ASSUME GuestAssumption == Ts!TsAssumption /\ Broker!BrokerAssumption /\ Work!WorkspaceAssumption

-----------------------------------------------------------------------------
(* Values for the runs: a missing file, and files shorter and longer than   *)
(* the buffer of two blocks; requests for everything, granted or not, one without the token   *)
(* and one of no known operation; two usable paths, one too long and one    *)
(* empty; two contents, one too large.                                      *)
SomeTexts == [ok |-> 2, no |-> 7, BOGOS |-> 5]
SomeHashes == {<<"a">>, <<"a", "b">>, None}
SomeFiles == {<<>>, <<"a">>, <<"a", "b", "c">>, None}

Ask(operation, argument, data) ==
  [operation |-> operation, argument |-> argument, data |-> data, token |-> TRUE]
SomeGrants == {<<"read", "r">>, <<"write", "w">>, <<"env", "e">>, <<"dependency", "d">>}
SomeRequests ==
  {Ask("write", "w", "v1"), Ask("write", "w", "v2"), Ask("write", "x", "v1"), Ask("read", "r", None),
   Ask("dependency", "d", None), Ask("unknown", "", None), [Ask("read", "r", None) EXCEPT !.token = FALSE]}

SomeLengths == [a |-> 2, b |-> 2, long |-> 4, empty |-> 0]
SomeSizes == [x |-> 1, huge |-> 9]

-----------------------------------------------------------------------------
TsOff == /\ source = Off /\ file = Off /\ code = Off /\ status = Off /\ esi = Off /\ edi = Off
         /\ length = Off /\ buffer = Off /\ trace = Off
BrokerOff == /\ installed = Off /\ dependency = Off /\ runtime = Off /\ before = Off /\ run = [at |-> Off]
             /\ backlog = Off /\ thread = Off /\ running = Off /\ calls = Off /\ receipt = Off
             /\ joined = Off /\ performed = Off /\ tampered = Off /\ sent = Off
RootOff == /\ root = Off /\ objects = Off /\ index = Off /\ accepted = Off /\ tried = Off
           /\ journal = Off /\ head = Off /\ active = Off /\ image = Off

Init ==
  /\ scenario \in Scenarios
  /\ IF scenario = "tslang" THEN Ts!Init ELSE TsOff
  /\ IF scenario = "broker" THEN Broker!Init ELSE BrokerOff
  /\ IF scenario = "roots" THEN Work!Init ELSE RootOff

TsStep == scenario = "tslang" /\ Ts!Next /\ UNCHANGED <<scenario, brokerVars, rootVars>>
BrokerStep == scenario = "broker" /\ Broker!Next /\ UNCHANGED <<scenario, tsVars, rootVars>>
RootStep == scenario = "roots" /\ Work!Next /\ UNCHANGED <<scenario, tsVars, brokerVars>>

Next == TsStep \/ BrokerStep \/ RootStep

\* The CPU goes on with the stub, and the main thread of run_brokered with its work;
\* authors, applications and the broker thread may stop anywhere.
Fairness ==
  /\ WF_vars(scenario = "tslang" /\ Ts!Stub /\ UNCHANGED <<scenario, brokerVars, rootVars>>)
  /\ WF_vars(scenario = "broker" /\ Broker!Main /\ UNCHANGED <<scenario, tsVars, rootVars>>)

Spec == Init /\ [][Next]_vars /\ Fairness

-----------------------------------------------------------------------------
\* Compiled jumps lead to instructions.  After a hash that did not match, the kernel is told
\* of the rejection and the exit only, and otherwise what the source says, in its order, up
\* to the first exit; of a file that is there, it is told to accept only what has the hash of
\* the source (the block layout and offsets of compile_to_bytecode, and the stub's opcodes).
CompiledAsWritten ==
  scenario = "tslang" => /\ Ts!TypeOK /\ Ts!SuccessPathKept
                         /\ Ts!RefusedPathKept /\ Ts!AcceptedWasVerified

\* Unless the broker thread was given up, a run that completed accounts for every file of
\* the runtime directory, whoever wrote it, every access the broker performed is in the
\* receipt, in order, and the receipt replays while the package stays as it was; one with a
\* changed read never does (run_brokered, replay).
AccessesReceipted ==
  scenario = "broker" => /\ Broker!TypeOK /\ Broker!CompletedAccountsForFiles
                         /\ Broker!JoinedAccessReceipted
                         /\ Broker!ForgedReadDetected /\ Broker!PathedReplays

\* An operation is accepted for the root it names and so at most once, the path index leads
\* to the objects the accepted operations left, slots are never used again, the image on
\* disk holds a root, a head and entries that belong together, and the golden vectors come
\* out (apply, append_journal).  Whatever was done to the entries on disk, what
\* verifies against the head is an unaltered suffix of them (verify_journal_chain).
WorkspaceHistory == scenario = "roots" => Work!WorkspaceHistory

\* A compiled program gives the CPU back, and once its application has ended run_brokered
\* ends, even with a broker thread that hangs.
EveryRunEnds == Ts!EveryRunEnds /\ Broker!RunEnds
=============================================================================
