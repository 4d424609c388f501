----------------------------- MODULE MCMachine -----------------------------
(***************************************************************************)
(* The BOGVM with programs over claims, over waves, over a data block, and *)
(* with files the assembler did not write.                                 *)
(***************************************************************************)
EXTENDS BogVm, TLC

\* The nodes are interchangeable.
Interchangeable == Permutations(Node)

-----------------------------------------------------------------------------
WaveOpcodes == {"CREATE_NODE", "CREATE_EDGE", "ACTIVATE", "PROPAGATE", "DECAY"}
ClaimOpcodes == {"HALT", "CREATE_NODE", "CREATE_EDGE", "CREATE_CLAIM", "ACTIVATE", "INTERFERE",
                 "COMPUTE_TENSION", "VERIFY", "ACCEPT", "REJECT", "QUARANTINE"}
DataOpcodes == {"NOOP", "EMIT_RECEIPT", "HALT", "DECLARE_BASIS", "LOAD_COEFFICIENTS", "SYNTHESIZE",
                "STORE_RESIDUAL", "APPLY_RESIDUAL", "VERIFY_HASH", "ACCEPT_DATA", "REJECT_DATA"}

\* Patches inside and outside a block of two bytes, and the bytes it may come to.
SomePatches == [offset : {0, 2}, byte : {9}]
SomeHashes == {<<255, 0>>, <<9, 0>>, <<9, 255>>, <<>>}

Program(assembled, named, opcodes, strengths, depths, length, edgeCount) ==
  [assembled |-> assembled, named |-> named, opcodes |-> opcodes, strengths |-> strengths,
   depths |-> depths, events |-> length, edges |-> edgeCount]

\* Claims, with an activation beyond the scale; waves over three edges, up to the energy
\* limit; a block, with a basis that wraps around and residuals inside and outside it; and
\* files that name what their manifest does not hold.
ClaimProgram == Program(TRUE, Symbols, ClaimOpcodes, {600, 1001}, {}, 8, 2)
WaveProgram  == Program(TRUE, Symbols, WaveOpcodes, {0, 600, 1000, 1001}, {1, 2}, 8, 3)
DataProgram  == Program(TRUE, Symbols, DataOpcodes, {}, {}, 9, 0)
RawPrograms  == {Program(FALSE, named, ClaimOpcodes \cup DataOpcodes, {600}, {}, 5, 1) : named \in SUBSET Symbols}

AllPrograms == {ClaimProgram, WaveProgram, DataProgram} \cup RawPrograms
OnlyData    == {DataProgram}
============================================================================
