------------------------------- MODULE TsLang -------------------------------
(***************************************************************************)
(* The TS-Lang compiler (scripts/tsc.py): the bytecode it lays out, and    *)
(* the interpreter stub it puts in front, which runs in Ring 3 over the    *)
(* legacy system calls of the kernel (handle_syscall 1 to 7).              *)
(*                                                                         *)
(* A file and a hash are sequences of blocks; a source line is what the    *)
(* compiler's patterns make of it.  Instructions keep their length in      *)
(* bytes and jumps their byte offsets, since the compiler computes the     *)
(* targets from the lengths of its blocks.                                 *)
(***************************************************************************)
EXTENDS Integers, Sequences, FiniteSetsExt

CONSTANTS Text,              \* messages and their lengths in bytes
          Forbidden,         \* messages that contain a kernel receipt sentinel
          Codes,             \* exit codes
          Hashes,            \* hash literals of sources; None is a malformed one
          Files,             \* contents of /input.dat; None when it is missing
          BUFFER, LIMIT,     \* 4096 bytes read at most, 65536 verified at most
          MaxLines,          \* bound on the source
          None

\* What the constants are; the MC modules assume it of each instance.
TsAssumption ==
  /\ BUFFER \in Nat /\ LIMIT \in Nat /\ BUFFER <= LIMIT /\ MaxLines \in Nat
  /\ Text \in [DOMAIN Text -> Nat] /\ Forbidden \subseteq DOMAIN Text /\ Codes \subseteq Nat /\ 0 \in Codes
  /\ \A f \in Files \ {None} : f \in Seq({f[i] : i \in DOMAIN f})

VARIABLES source, file,                     \* the program text, and the file it reads
          code, status,                     \* bytecode; "source", "running", "refused", "exited", "stray"
          esi, edi, length, buffer,         \* the stub's registers and its two memory cells
          trace                             \* what the kernel was told

vars == <<source, file, code, status, esi, edi, length, buffer, trace>>

Line == [op : {"accept", "receipt", "reject"}, value : DOMAIN Text] \cup [op : {"exit"}, value : Codes]
        \cup [op : {"hash"}, value : Hashes] \cup {[op |-> op, value |-> None] : op \in {"read", "yield"}}

ERROR == -1        \* 2^32 - 1 to a caller that compares it with LIMIT

-----------------------------------------------------------------------------
(* compile_to_bytecode *)

\* A later line of a kind replaces an earlier one.
LastValue(lines, op, default) ==
  LET at == {i \in DOMAIN lines : lines[i].op = op}
  IN IF at = {} THEN default ELSE lines[Max(at)].value

compiles(lines) == /\ \E i \in DOMAIN lines : lines[i].op = "read"
                   /\ LastValue(lines, "hash", None) # None

\* The lines of a kind, in their order.
Only(kinds, lines) ==
  LET kept[k \in 0..Len(lines)] ==
        IF k = 0 THEN <<>>
        ELSE IF lines[k] \in kinds THEN Append(kept[k - 1], lines[k]) ELSE kept[k - 1]
  IN kept[Len(lines)]

success_ops(lines) == Only({l \in Line : l.op \in {"accept", "receipt", "yield", "exit"}}, lines)

Bytes(op, value) ==
  CASE op = "read" -> 12                                           \* "/input.dat" and its NUL
    [] op = "hash" -> 33
    [] op \in {"accept", "receipt"} -> 2 + Text[value]
    [] op = "reject" -> IF value = None THEN 2 ELSE 2 + Text[value]
    [] op = "yield" -> 1
    [] OTHER -> 5

Total(block) ==
  LET sum[k \in 0..Len(block)] == IF k = 0 THEN 0 ELSE sum[k - 1] + Bytes(block[k].op, block[k].value)
  IN sum[Len(block)]

Instr(op, value) == [op |-> op, value |-> value]

\* Every instruction with the byte offset it comes to lie at.
Placed(block) ==
  [k \in DOMAIN block |-> [op |-> block[k].op, value |-> block[k].value, at |-> Total(SubSeq(block, 1, k - 1))]]

\* b1 b2 b3, the success block b4, b5 and b6, with the offsets of b5 and b6.
else_offset(head, b4) == Total(head) + 5 + Total(b4) + 5

compile_to_bytecode(lines) ==
  LET head == <<Instr("read", None), Instr("hash", LastValue(lines, "hash", None))>>
      b4 == success_ops(lines)
      b5 == Instr("reject", LastValue(lines, "reject", None))
      b6 == Instr("exit", LastValue(lines, "exit", 0))
      else == else_offset(head, b4)
  IN Placed(head \o <<Instr("jump_if_false", else)>> \o b4 \o <<Instr("jump", else + Total(<<b5>>)), b5, b6>>)

-----------------------------------------------------------------------------
Init ==
  /\ source = <<>> /\ file \in Files /\ code = <<>> /\ status = "source"
  /\ esi = 0 /\ edi = ERROR /\ length = 0 /\ buffer = <<>> /\ trace = <<>>

\* Two more lines for a source that opens with its two constants, as the examples do.
Bounded == Len(source) < MaxLines + (IF Len(source) >= 2 /\ source[1].op = "hash" /\ source[2].op = "read" THEN 2 ELSE 0)

Write(line) ==
  /\ status = "source" /\ Bounded
  /\ source' = Append(source, line)
  /\ UNCHANGED <<file, code, status, esi, edi, length, buffer, trace>>

Compile ==
  /\ status = "source"
  /\ IF compiles(source) THEN status' = "running" /\ code' = compile_to_bytecode(source)
                         ELSE status' = "refused" /\ UNCHANGED code
  /\ UNCHANGED <<source, file, esi, edi, length, buffer, trace>>

-----------------------------------------------------------------------------
(* interpreter_loop.  The instruction at byte offset esi, if one starts there. *)

Here == {k \in DOMAIN code : code[k].at = esi}
Fetched == code[CHOOSE k \in Here : TRUE]
At(op) == status = "running" /\ Here # {} /\ Fetched.op = op
Value == Fetched.value
Step == esi' = esi + Bytes(Fetched.op, Value)
Tell(call) == trace' = Append(trace, call)

\* sys_read_file: at most BUFFER blocks, or an error that leaves the buffer alone.
do_read_file ==
  /\ At("read") /\ Step
  /\ IF file = None THEN length' = ERROR /\ UNCHANGED buffer
     ELSE buffer' = SubSeq(file, 1, Min({BUFFER, Len(file)})) /\ length' = Len(buffer')
  /\ UNCHANGED <<source, file, code, status, edi, trace>>

\* sys_verify refuses a length over the limit, which the error of a read is.
do_verify ==
  /\ At("hash") /\ Step
  /\ edi' = IF length = ERROR \/ length > LIMIT THEN ERROR ELSE IF buffer = Value THEN 1 ELSE 0
  /\ UNCHANGED <<source, file, code, status, length, buffer, trace>>

do_jump_if_false_Never == At("jump_if_false") /\ Step         \* mutant: the verdict is not looked at
                          /\ UNCHANGED <<source, file, code, status, edi, length, buffer, trace>>

do_jump_if_false ==
  /\ At("jump_if_false")
  /\ IF edi = 0 THEN esi' = Value ELSE Step
  /\ UNCHANGED <<source, file, code, status, edi, length, buffer, trace>>

do_jump ==
  /\ At("jump") /\ esi' = Value
  /\ UNCHANGED <<source, file, code, status, edi, length, buffer, trace>>

\* sys_accept and sys_reject count and answer nothing the stub looks at.
do_claim ==
  /\ At("accept") \/ At("reject")
  /\ Tell([op |-> Fetched.op, value |-> Value]) /\ Step
  /\ UNCHANGED <<source, file, code, status, edi, length, buffer>>

\* sys_yield returns here when the process runs again.
do_yield ==
  /\ At("yield") /\ Tell([op |-> "yield", value |-> None]) /\ Step
  /\ UNCHANGED <<source, file, code, status, edi, length, buffer>>

\* sys_emit_receipt prints unless a sentinel is in the text; the stub ignores its answer.
do_emit_receipt ==
  /\ At("receipt") /\ Step
  /\ IF Value \in Forbidden THEN UNCHANGED trace ELSE Tell([op |-> "receipt", value |-> Value])
  /\ UNCHANGED <<source, file, code, status, edi, length, buffer>>

do_exit ==
  /\ At("exit") /\ status' = "exited" /\ Tell([op |-> "exit", value |-> Value])
  /\ UNCHANGED <<source, file, code, esi, edi, length, buffer>>

Stub == \/ do_read_file \/ do_verify \/ do_jump_if_false \/ do_jump
        \/ do_claim \/ do_yield \/ do_emit_receipt \/ do_exit

Next == Stub \/ Compile \/ \E line \in Line : Write(line)

Spec == Init /\ [][Next]_vars

\* The CPU goes on with the stub; the author may stop anywhere.
FairSpec == Spec /\ WF_vars(Stub)

-----------------------------------------------------------------------------
\* A running program is always at the first byte of one of its instructions: the
\* offsets compile_to_bytecode patches into its jumps lead to b5 and b6.
TypeOK ==
  /\ status \in {"source", "running", "refused", "exited"} /\ edi \in {ERROR, 0, 1}
  /\ length \in {ERROR} \cup 0..BUFFER /\ (file # None => length = Len(buffer))
  /\ status = "running" => Here # {}

\* Lines up to the first exit, and the exit a program without one is given.
ToExit(lines) ==
  LET exits == {i \in DOMAIN lines : lines[i].op = "exit"}
  IN IF exits = {} THEN Append(lines, Instr("exit", LastValue(source, "exit", 0)))
     ELSE SubSeq(lines, 1, Min(exits))

Shown(lines) == Only({l \in Line : ~(l.op = "receipt" /\ l.value \in Forbidden)}, lines)

\* "ordered output, yield, resumed output, and exit are preserved" (RELEASE_NOTES.md:308):
\* unless the hash did not match, the kernel is told what the source says, in its order, up
\* to the first exit, which is the last thing done.
SuccessPathKept ==
  status = "exited" /\ edi # 0 => trace = Shown(ToExit(success_ops(source)))

\* After a hash that did not match, the kernel is told of the rejection and of the
\* exit, and of nothing else, however long the success block is.
RefusedPathKept ==
  status = "exited" /\ edi = 0 =>
    trace = <<Instr("reject", LastValue(source, "reject", None)), Instr("exit", LastValue(source, "exit", 0))>>

Accepting == \E i \in DOMAIN trace : trace[i].op = "accept"

\* An accept reaches the kernel only if what could be read of the file has the hash of the
\* source, unless there is no file.
AcceptedWasVerified ==
  Accepting /\ file # None => SubSeq(file, 1, Min({BUFFER, Len(file)})) = LastValue(source, "hash", None)

\* A compiled program gives the CPU back: all of its jumps lead forward.
EveryRunEnds == status = "running" ~> status = "exited"

-----------------------------------------------------------------------------
\* What the documents say and the code does not do (README, section 6).

\* "Bytes are accepted only after [...] SHA-256 verification", so never without a file.
AcceptedHadFile == Accepting => file # None
=============================================================================
