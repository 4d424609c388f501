------------------------------- MODULE Bases -------------------------------
(***************************************************************************)
(* The deterministic bases of bogvm/bases.py and the residual patches that  *)
(* turn a synthesised block into the wanted bytes.  Bytes are integers     *)
(* 0..255 and a block is a sequence of them; Python's offset i is index    *)
(* i + 1.  SHA-256 is taken as injective: a hash is the bytes themselves.  *)
(***************************************************************************)
EXTENDS Integers, Sequences, FiniteSets

Byte == 0..255

BASIS_ORDER ==
  <<"zero_block", "repeat_byte", "delta_u8", "dictionary_u8", "rle_u8",
    "ramp_u8", "triangle_u8", "sine8_u8", "fourier8_u8">>

\* The three lookup tables of the periodic bases.
TRIANGLE_U8_OFFSETS == <<0, 32, 64, 96, 128, 96, 64, 32>>
SINE8_U8_OFFSETS == <<0, 90, 127, 90, 0, -90, -127, -90>>
COSINE8_U8_OFFSETS == <<127, 90, 0, -90, -127, -90, 0, 90>>

\* A sequence given as a function, written out once (TLC would otherwise evaluate
\* an element each time it is used).
Listed(f) == <<>> \o f

At(table, i) == table[(i % Len(table)) + 1]

\* The value the basis adds to start_byte at offset i.  Python's // and TLA+'s
\* \div both round towards minus infinity for a positive divisor.
Wave(basis, delta, i) ==
  CASE basis = "delta_u8"    -> i * delta
    [] basis = "ramp_u8"     -> i
    [] basis = "triangle_u8" -> At(TRIANGLE_U8_OFFSETS, i)
    [] basis = "sine8_u8"    -> At(SINE8_U8_OFFSETS, i)
    [] basis = "fourier8_u8" -> (delta * At(SINE8_U8_OFFSETS, i)) \div 127
                                + ((delta \div 2) * At(COSINE8_U8_OFFSETS, i)) \div 127
    [] OTHER                 -> 0

synthesize_basis(basis, start_byte, length, delta) ==
  [j \in 1..length |->
     IF basis = "zero_block" THEN 0
     ELSE (start_byte + Wave(basis, delta, j - 1)) % 256]

\* Residuals are patches [offset, byte]; each overwrites one byte.
Patched(bytes, residuals) == Listed(
  [j \in 1..Len(bytes) |->
     IF \E r \in residuals : r.offset = j - 1
     THEN (CHOOSE r \in residuals : /\ r.offset = j - 1
                                    /\ \A o \in residuals : o.offset = j - 1 => o.byte <= r.byte).byte
     ELSE bytes[j]])
=============================================================================
