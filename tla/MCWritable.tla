----------------------------- MODULE MCWritable -----------------------------
(* Two writable files of at most two blocks in a table of three blocks, as  *)
(* 64 and 96 bytes are; the read-only file and the one that fails its hash. *)
EXTENDS WritableBogFs, TLC

Interchangeable == Permutations(Admitted)
=============================================================================
