----------------------------- MODULE Transforms -----------------------------
(***************************************************************************)
(* The reversible byte transforms of bogvm/transforms.py.  A transform     *)
(* returns the new bytes and a parameter (the BWT primary index, else 0).  *)
(***************************************************************************)
EXTENDS Bases, Bitwise, TLC, SequencesExt

CONSTANT Failed       \* what a ValueError or ContainerError returns

TRANSFORM_ORDER ==
  <<"identity", "xor_previous", "delta_previous", "nibble_split", "mtf", "bwt", "bwt_mtf">>
BWT_TRANSFORMS == {"bwt", "bwt_mtf"}

\* Lexicographic order on byte strings, as Python compares bytes.
RECURSIVE LexLess(_, _)
LexLess(s, t) ==
  /\ t # <<>>
  /\ \/ s = <<>>
     \/ s[1] < t[1]
     \/ s[1] = t[1] /\ LexLess(Tail(s), Tail(t))

swap_nibbles(v) == (v % 16) * 16 + v \div 16

MoveToFront(alphabet, i) == <<alphabet[i]>> \o RemoveAt(alphabet, i)

mtf_encode(data) ==
  FoldLeft(LAMBDA acc, v : LET i == CHOOSE j \in 1..256 : acc.alphabet[j] = v
                           IN [alphabet |-> MoveToFront(acc.alphabet, i), out |-> Append(acc.out, i - 1)],
           [alphabet |-> Listed([j \in 1..256 |-> j - 1]), out |-> <<>>], data).out

mtf_decode(data) ==
  FoldLeft(LAMBDA acc, i : [alphabet |-> MoveToFront(acc.alphabet, i + 1),
                            out |-> Append(acc.out, acc.alphabet[i + 1])],
           [alphabet |-> Listed([j \in 1..256 |-> j - 1]), out |-> <<>>], data).out

\* Rotations sorted by (bytes, index): the last column and the rank of the input.
bwt_encode(data) ==
  LET rotation(i) == SubSeq(data, i, Len(data)) \o SubSeq(data, 1, i - 1)
      before(i, j) == \/ LexLess(rotation(i), rotation(j))
                      \/ rotation(i) = rotation(j) /\ i < j
      order == SortSeq([i \in 1..Len(data) |-> i], before)
  IN [bytes |-> Listed([r \in 1..Len(data) |-> rotation(order[r])[Len(data)]]),
      param |-> IF data = <<>> THEN 0 ELSE (CHOOSE r \in 1..Len(data) : order[r] = 1) - 1]

bwt_decode(data, primary_index) ==
  LET n == Len(data)
      table[k \in 0..n] == IF k = 0 THEN [i \in 1..n |-> <<>>]
                           ELSE SortSeq([i \in 1..n |-> <<data[i]>> \o table[k - 1][i]], LexLess)
  IN IF n = 0 THEN IF primary_index = 0 THEN <<>> ELSE Failed
     ELSE IF primary_index >= n THEN Failed ELSE table[n][primary_index + 1]

Before(data, i) == IF i = 1 THEN 0 ELSE data[i - 1]

apply_transform_with_param(name, data) ==
  LET plain(bytes) == [bytes |-> Listed(bytes), param |-> 0]
      index == DOMAIN data
  IN CASE name = "identity"       -> plain(data)
       [] name = "xor_previous"   -> plain([i \in index |-> data[i] ^^ Before(data, i)])
       [] name = "delta_previous" -> plain([i \in index |-> (data[i] - Before(data, i)) % 256])
       [] name = "nibble_split"   -> plain([i \in index |-> swap_nibbles(data[i])])
       [] name = "mtf"            -> plain(mtf_encode(data))
       [] name = "bwt"            -> bwt_encode(data)
       [] name = "bwt_mtf"        -> [bwt_encode(data) EXCEPT !.bytes = mtf_encode(@)]

\* Each output byte is rebuilt from the input byte and the output byte before it.
Accumulated(step(_, _), data) ==
  FoldLeft(LAMBDA out, v : Append(out, step(v, IF out = <<>> THEN 0 ELSE Last(out))), <<>>, data)

invert_transform(name, data, param) ==
  CASE name = "identity"       -> data
    [] name = "xor_previous"   -> Accumulated(LAMBDA v, prev : v ^^ prev, data)
    [] name = "delta_previous" -> Accumulated(LAMBDA v, prev : (prev + v) % 256, data)
    [] name = "nibble_split"   -> Listed([i \in DOMAIN data |-> swap_nibbles(data[i])])
    [] name = "mtf"            -> mtf_decode(data)
    [] name = "bwt"            -> bwt_decode(data, param)
    [] name = "bwt_mtf"        -> bwt_decode(mtf_decode(data), param)
=============================================================================
