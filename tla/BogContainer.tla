---------------------------- MODULE BogContainer ----------------------------
(***************************************************************************)
(* The residual optimizer (bogvm/optimizer.py), the .bog container and its *)
(* BOGPK byte encoding (bogvm/container.py), and the programs packed for   *)
(* the BOGVM (bogvm/packer.py).  One behaviour packs one input, encodes    *)
(* it, possibly damages the stored stream, and decodes it.  A hash is the  *)
(* hashed bytes.  The header of a stream is kept as fields; its body, the  *)
(* descriptors and the residuals, is kept byte for byte.                   *)
(***************************************************************************)
EXTENDS Transforms

CONSTANTS Inputs,                  \* the files to pack
          CANDIDATE_CHUNK_SIZES,   \* <<16, 32, 64, 128>> in the code
          FaultBytes,              \* values a damaged byte may take
          Counts                   \* values of the varuint check

VARIABLES phase, data, tournament, container, stream, decoded, damaged

vars == <<phase, data, tournament, container, stream, decoded, damaged>>

(***************************************************************************)
(* optimizer.py                                                            *)
(***************************************************************************)
BasisNames == {BASIS_ORDER[i] : i \in DOMAIN BASIS_ORDER}
Position(name, order) == CHOOSE i \in DOMAIN order : order[i] = name

Misses(bytes, basis, start, delta) ==
  LET generated == synthesize_basis(basis, start, Len(bytes), delta)
  IN Cardinality({j \in DOMAIN bytes : bytes[j] # generated[j]})

\* The start byte that most offsets agree on for this delta; the least one on a tie.
BestStart(bytes, delta) ==
  LET start(j) == (bytes[j] - (j - 1) * delta) % 256
      votes(s) == Cardinality({j \in DOMAIN bytes : start(j) = s})
      starts == {start(j) : j \in DOMAIN bytes}
  IN IF bytes = <<>> THEN 0
     ELSE CHOOSE s \in starts : \A o \in starts : votes(s) > votes(o) \/ (votes(s) = votes(o) /\ s <= o)

\* _coefficient_tuples_for_basis: <<start_byte, delta>> pairs to try.
Coefficients(basis, bytes) ==
  CASE basis = "zero_block" -> {<<0, 0>>}
    [] basis = "delta_u8" -> {<<BestStart(bytes, delta), delta>> : delta \in Byte}
    [] basis \in {"dictionary_u8", "rle_u8"} -> {<<BestStart(bytes, 0), 0>>}
    [] OTHER -> Byte \X {0}

\* Fewest residuals, then the earliest basis, then the least coefficients.
optimize_residual_plan(bytes) ==
  LET tried == UNION {{<<Misses(bytes, BASIS_ORDER[i], c[1], c[2]), i, c[1], c[2]>> :
                         c \in Coefficients(BASIS_ORDER[i], bytes)} : i \in DOMAIN BASIS_ORDER}
      best == CHOOSE x \in tried : \A y \in tried \ {x} : LexLess(x, y)
      generated == synthesize_basis(BASIS_ORDER[best[2]], best[3], Len(bytes), best[4])
  IN [length |-> Len(bytes), basis |-> BASIS_ORDER[best[2]], start |-> best[3], delta |-> best[4],
      residuals |-> SelectSeq([j \in DOMAIN bytes |-> [offset |-> j - 1, byte |-> bytes[j]]],
                              LAMBDA r : generated[r.offset + 1] # r.byte),
      hash |-> bytes]

RECURSIVE varuint_size(_)
varuint_size(value) == IF value < 128 THEN 1 ELSE 1 + varuint_size(value \div 128)

\* The gap stored before a residual: its offset, or the distance to the previous one.
Gap(residuals, k) ==
  IF k = 1 THEN residuals[1].offset ELSE residuals[k].offset - residuals[k - 1].offset - 1

delta_residual_size(residuals) ==
  FoldLeft(LAMBDA sum, k : sum + varuint_size(Gap(residuals, k)) + 1, 0, [k \in DOMAIN residuals |-> k])

TRANSFORM_COSTS == [identity |-> 0, xor_previous |-> 1, delta_previous |-> 1, nibble_split |-> 1,
                    mtf |-> 8, bwt |-> 16, bwt_mtf |-> 24]
BASIS_COSTS == [zero_block |-> 0, repeat_byte |-> 1, delta_u8 |-> 2, dictionary_u8 |-> 3, rle_u8 |-> 3,
                ramp_u8 |-> 2, triangle_u8 |-> 4, sine8_u8 |-> 5, fourier8_u8 |-> 6]

BitmaskSize(length, residuals) == (length + 7) \div 8 + Len(residuals)

score_reconstruction_plan(plan, transform) ==
  LET n == Len(plan.residuals)
      by_gap == delta_residual_size(plan.residuals)
      by_mask == BitmaskSize(plan.length, plan.residuals)
      size == 3 + (IF transform \in BWT_TRANSFORMS THEN 1 ELSE 0) + varuint_size(n)
              + (IF n = 0 \/ by_gap < by_mask THEN by_gap ELSE by_mask)
      decode == plan.length + n + TRANSFORM_COSTS[transform] + BASIS_COSTS[plan.basis]
  IN <<size * 16 + n + TRANSFORM_COSTS[transform] + decode, size, n, decode, TRANSFORM_COSTS[transform],
       Position(transform, TRANSFORM_ORDER)>>

\* A chunk's recipe under one transform.
Transformed(bytes, transform) ==
  LET t == apply_transform_with_param(transform, bytes)
  IN optimize_residual_plan(t.bytes) @@ [transform |-> transform, param |-> t.param, original |-> bytes]

\* The cheapest recipe over all transforms, or the identity when there is no tournament.
ChunkPlan(bytes, transform_tournament) ==
  IF ~transform_tournament THEN Transformed(bytes, "identity")
  ELSE LET plans == {Transformed(bytes, TRANSFORM_ORDER[i]) : i \in DOMAIN TRANSFORM_ORDER}
       IN CHOOSE p \in plans : \A o \in plans \ {p} :
            LexLess(score_reconstruction_plan(p, p.transform), score_reconstruction_plan(o, o.transform))

CeilDiv(n, k) == (n + k - 1) \div k
ChunkCount(n, chunk_size) == CeilDiv(n, chunk_size)
Smaller(a, b) == IF a < b THEN a ELSE b

chunked_plan(bytes, chunk_size, transform_tournament) ==
  LET n == ChunkCount(Len(bytes), chunk_size)
      slice(i) == SubSeq(bytes, (i - 1) * chunk_size + 1, Smaller(i * chunk_size, Len(bytes)))
  IN Listed([i \in 1..n |-> ChunkPlan(slice(i), transform_tournament) @@ [offset |-> (i - 1) * chunk_size]])

Total(chunks) == FoldLeft(LAMBDA sum, c : sum + Len(c.residuals), 0, chunks)

\* build_bog_container_v1 for a given chunk size.
Build(bytes, chunk_size, transform_tournament) ==
  LET chunks == chunked_plan(bytes, chunk_size, transform_tournament)
  IN [chunk_size |-> chunk_size, whole |-> bytes, total |-> Total(chunks), chunks |-> chunks]

\* auto_chunk: fewest residuals, then fewest chunks, then the smaller chunk size
\* (the residual density of one file orders the sizes as the residual count does).
Adaptive(bytes, transform_tournament) ==
  LET built == {Build(bytes, CANDIDATE_CHUNK_SIZES[i], transform_tournament) : i \in DOMAIN CANDIDATE_CHUNK_SIZES}
  IN CHOOSE b \in built : \A o \in built \ {b} :
       LexLess(<<b.total, Len(b.chunks), b.chunk_size>>, <<o.total, Len(o.chunks), o.chunk_size>>)

(***************************************************************************)
(* container.py: validation and reconstruction                             *)
(***************************************************************************)
Increasing(residuals) == \A k \in 2..Len(residuals) : residuals[k - 1].offset < residuals[k].offset

validate_chunk(c, offset, chunk_size) ==
  /\ c.offset = offset /\ c.length \in 1..chunk_size
  /\ c.basis \in BasisNames /\ c.transform \in {TRANSFORM_ORDER[i] : i \in DOMAIN TRANSFORM_ORDER}
  /\ c.start \in Byte /\ c.delta \in Byte
  /\ \A k \in DOMAIN c.residuals : c.residuals[k].offset < c.length /\ c.residuals[k].byte \in Byte
  /\ Increasing(c.residuals)

validate_bog_container(c) ==
  LET ends == FoldLeft(LAMBDA acc, k : Append(acc, Last(acc) + k.length), <<0>>, c.chunks)
  IN /\ c.chunk_size > 0 /\ c.total = Total(c.chunks)
     /\ \A i \in DOMAIN c.chunks : validate_chunk(c.chunks[i], ends[i], c.chunk_size)

Residuals(chunk) == {chunk.residuals[k] : k \in DOMAIN chunk.residuals}

\* What the recipe of a chunk yields, before and after its transform is undone.
Synthesized(c) == Patched(synthesize_basis(c.basis, c.start, c.length, c.delta), Residuals(c))
Original(c) == invert_transform(c.transform, Synthesized(c), c.param)

reconstruct_bog_container_bytes(c) ==
  LET chunk_ok(k) == Synthesized(k) = k.hash /\ Original(k) = k.original
      joined == FlattenSeq([i \in DOMAIN c.chunks |-> Original(c.chunks[i])])
  IN IF /\ validate_bog_container(c)
        /\ \A i \in DOMAIN c.chunks : chunk_ok(c.chunks[i])
        /\ joined = c.whole
     THEN joined ELSE Failed

(***************************************************************************)
(* container.py: the BOGPK stream                                          *)
(***************************************************************************)
SENTINEL == 255

RECURSIVE encode_varuint(_)
encode_varuint(value) ==
  IF value < 128 THEN <<value>> ELSE <<(value % 128) + 128>> \o encode_varuint(value \div 128)

encode_descriptor(c, bitmask) ==
  (Position(c.transform, TRANSFORM_ORDER) - 1) * 32 + (Position(c.basis, BASIS_ORDER) - 1) * 2
    + (IF bitmask THEN 1 ELSE 0)

Recipe(c) == <<c.transform, c.param, c.basis, c.start, c.delta>>

\* How many chunks from i on share one residual-free recipe.
zero_run(chunks, i) ==
  LET same(j) == chunks[j].residuals = <<>> /\ Recipe(chunks[j]) = Recipe(chunks[i])
      last == CHOOSE e \in (i - 1)..Len(chunks) : /\ \A j \in i..e : same(j)
                                                  /\ e < Len(chunks) => ~same(e + 1)
  IN last - i + 1

ParamBytes(c) == IF c.transform \in BWT_TRANSFORMS THEN encode_varuint(c.param) ELSE <<>>

UsesBitmask(c) ==
  c.residuals # <<>> /\ BitmaskSize(c.length, c.residuals) < delta_residual_size(c.residuals)

Mask(c) == [m \in 1..CeilDiv(c.length, 8) |->
              FoldLeft(LAMBDA sum, r : sum + (IF r.offset \div 8 = m - 1 THEN 2^(r.offset % 8) ELSE 0),
                       0, c.residuals)]

ResidualBytes(c) ==
  IF UsesBitmask(c) THEN Mask(c) \o [k \in DOMAIN c.residuals |-> c.residuals[k].byte]
  ELSE FlattenSeq([k \in DOMAIN c.residuals |-> Append(encode_varuint(Gap(c.residuals, k)), c.residuals[k].byte)])

RECURSIVE EncodeFrom(_, _)
EncodeFrom(chunks, i) ==
  IF i > Len(chunks) THEN [descriptors |-> <<>>, residuals |-> <<>>, runs |-> FALSE]
  ELSE LET c == chunks[i]
           run == zero_run(chunks, i)
           rest == EncodeFrom(chunks, i + (IF run >= 2 THEN run ELSE 1))
       IN IF run >= 2
          THEN [rest EXCEPT !.runs = TRUE,
                            !.descriptors = <<SENTINEL>> \o encode_varuint(run)
                                            \o <<encode_descriptor(c, FALSE), c.start, c.delta>> \o ParamBytes(c) \o @]
          ELSE [rest EXCEPT !.descriptors = <<encode_descriptor(c, UsesBitmask(c)), c.start, c.delta>> \o ParamBytes(c)
                                            \o encode_varuint(Len(c.residuals)) \o @,
                            !.residuals = ResidualBytes(c) \o @]

encode_bogpk_container(c) ==
  LET parts == EncodeFrom(c.chunks, 1)
  IN [version |-> 1, runs |-> parts.runs, code |-> Position(c.chunk_size, CANDIDATE_CHUNK_SIZES) - 1,
      length |-> FoldLeft(LAMBDA sum, k : sum + k.length, 0, c.chunks), count |-> Len(c.chunks),
      total |-> c.total, hash |-> c.whole, body |-> parts.descriptors \o parts.residuals]

\* A reader knows whether it is still good, how far it has read, and what it read.
Reader(pos) == [ok |-> TRUE, pos |-> pos, vals |-> <<>>]
Stop(r) == [r EXCEPT !.ok = FALSE]
Advance(r, n, value) == [ok |-> TRUE, pos |-> r.pos + n, vals |-> Append(r.vals, value)]

read_byte(body, r) ==
  IF ~r.ok \/ r.pos >= Len(body) THEN Stop(r) ELSE Advance(r, 1, body[r.pos + 1])

\* A varuint is accepted only in the one form the encoder writes, of at most ten bytes.
VaruintValue(raw) == FoldRight(LAMBDA b, sum : (b % 128) + 128 * sum, raw, 0)
Canonical(r, raw) ==
  IF encode_varuint(VaruintValue(raw)) = raw THEN Advance(r, Len(raw), VaruintValue(raw)) ELSE Stop(r)

decode_varuint(body, r) ==
  LET ends == {e \in (r.pos + 1)..Smaller(Len(body), r.pos + 10) :
                 body[e] < 128 /\ \A j \in (r.pos + 1)..(e - 1) : body[j] >= 128}
  IN IF ~r.ok \/ ends = {} THEN Stop(r) ELSE Canonical(r, SubSeq(body, r.pos + 1, CHOOSE e \in ends : TRUE))

TransformId(d) == d \div 32
BasisId(d) == (d \div 2) % 16
KnownDescriptor(d) == TransformId(d) < Len(TRANSFORM_ORDER) /\ BasisId(d) < Len(BASIS_ORDER)

read_transform_param(body, r, d) ==
  IF TRANSFORM_ORDER[TransformId(d) + 1] \in BWT_TRANSFORMS THEN decode_varuint(body, r)
  ELSE [r EXCEPT !.vals = Append(@, 0)]

\* After the descriptor byte just read: the start byte, the delta and the parameter.
ReadRecipe(body, r) ==
  IF ~r.ok \/ ~KnownDescriptor(Last(r.vals)) THEN Stop(r)
  ELSE read_transform_param(body, read_byte(body, read_byte(body, r)), Last(r.vals))

\* vals is the descriptor byte and what ReadRecipe read after it; n residuals follow.
decode_descriptor(vals, n) ==
  [transform |-> TRANSFORM_ORDER[TransformId(vals[1]) + 1], basis |-> BASIS_ORDER[BasisId(vals[1]) + 1],
   start |-> vals[2], delta |-> vals[3], param |-> vals[4], bitmask |-> vals[1] % 2 = 1, n |-> n]

\* The descriptors, one per chunk, with the number of residuals each announces: a run
\* after a sentinel stands for several.
RECURSIVE ReadDescriptors(_, _, _)
AddRun(s, d, read) ==
  IF ~d.ok \/ ~s.runs \/ d.vals[2] < 2 \/ Len(read) + d.vals[2] > s.count THEN [r |-> Stop(d), read |-> read]
  ELSE ReadDescriptors(s, Reader(d.pos),
                       read \o [j \in 1..d.vals[2] |-> decode_descriptor(SubSeq(d.vals, 3, 6), 0)])
AddOne(s, d, read) ==
  IF ~d.ok THEN [r |-> d, read |-> read]
  ELSE ReadDescriptors(s, Reader(d.pos), Append(read, decode_descriptor(d.vals, d.vals[5])))
AddMarked(s, mark, read) ==
  IF mark.ok /\ Last(mark.vals) = SENTINEL
  THEN AddRun(s, ReadRecipe(s.body, read_byte(s.body, decode_varuint(s.body, mark))), read)
  ELSE AddOne(s, decode_varuint(s.body, ReadRecipe(s.body, mark)), read)
ReadDescriptors(s, r, read) ==
  IF ~r.ok \/ Len(read) >= s.count THEN [r |-> r, read |-> read]
  ELSE AddMarked(s, read_byte(s.body, r), read)

RECURSIVE ReadGaps(_, _, _, _, _)
AddResidual(body, v, n, length, read) ==
  LET offset == (IF read = <<>> THEN 0 ELSE Last(read).offset + 1) + v.vals[1]
  IN IF ~v.ok \/ offset >= length THEN [r |-> Stop(v), read |-> read]
     ELSE ReadGaps(body, Reader(v.pos), n - 1, length, Append(read, [offset |-> offset, byte |-> v.vals[2]]))
ReadGaps(body, r, n, length, read) ==
  IF ~r.ok \/ n = 0 THEN [r |-> r, read |-> read]
  ELSE AddResidual(body, read_byte(body, decode_varuint(body, r)), n, length, read)

ReadBitmask(body, r, n, length) ==
  LET width == CeilDiv(length, 8)
      set(o) == (body[r.pos + 1 + o \div 8] \div 2^(o % 8)) % 2 = 1
      offsets == SelectSeq([j \in 1..length |-> j - 1], set)
      good == /\ r.pos + width + n <= Len(body)
              /\ \A o \in length..(8 * width - 1) : ~set(o)
              /\ Len(offsets) = n
  IN IF ~good THEN [r |-> Stop(r), read |-> <<>>]
     ELSE [r |-> Reader(r.pos + width + n),
           read |-> [k \in 1..n |-> [offset |-> offsets[k], byte |-> body[r.pos + width + k]]]]

decoded_chunk_length(s, i, size) == IF i < s.count - 1 THEN size ELSE s.length - (s.count - 1) * size

ReadResiduals(body, r, d, length) ==
  IF d.n > length THEN [r |-> Stop(r), read |-> <<>>]
  ELSE IF d.bitmask THEN ReadBitmask(body, r, d.n, length)
  ELSE ReadGaps(body, r, d.n, length, <<>>)

\* The chunk record of a descriptor and its residuals, with what it synthesizes.
Bare(d, i, size, length, residuals) ==
  [transform |-> d.transform, param |-> d.param, basis |-> d.basis, start |-> d.start,
   delta |-> d.delta, length |-> length, offset |-> i * size, residuals |-> residuals]
WithBytes(bare) == bare @@ [hash |-> Synthesized(bare), original |-> Original(bare)]

\* The residuals of the chunks, in order, and the chunk records rebuilt from them.
RECURSIVE ReadChunks(_, _, _, _)
AddChunk(s, r, chunk, descriptors, chunks) ==
  IF ~r.ok THEN [r |-> r, chunks |-> chunks]
  ELSE IF chunk.original = Failed THEN [r |-> Stop(r), chunks |-> chunks]
  ELSE ReadChunks(s, r, descriptors, Append(chunks, chunk))
ReadChunks(s, r, descriptors, chunks) ==
  IF ~r.ok \/ Len(chunks) = Len(descriptors) THEN [r |-> r, chunks |-> chunks]
  ELSE LET i == Len(chunks)
           size == CANDIDATE_CHUNK_SIZES[s.code + 1]
           length == decoded_chunk_length(s, i, size)
           res == ReadResiduals(s.body, r, descriptors[i + 1], length)
       IN AddChunk(s, res.r, WithBytes(Bare(descriptors[i + 1], i, size, length, res.read)), descriptors, chunks)

HeaderOK(s) ==
  /\ s.version = 1 /\ s.code < Len(CANDIDATE_CHUNK_SIZES)
  /\ s.count = ChunkCount(s.length, CANDIDATE_CHUNK_SIZES[s.code + 1])
  /\ s.total <= s.length

DecodeChunks(s, d) == ReadChunks(s, d.r, d.read, <<>>)
Joined(chunks) == FlattenSeq([i \in DOMAIN chunks |-> chunks[i].original])
Decoded(s, chunks) ==
  [chunk_size |-> CANDIDATE_CHUNK_SIZES[s.code + 1], whole |-> s.hash, total |-> s.total, chunks |-> chunks]

CheckDecoded_Unhashed(s, c) ==       \* mutant: the whole-file hash is not compared
  IF c.r.ok /\ Total(c.chunks) = s.total /\ c.r.pos = Len(s.body)
  THEN [Decoded(s, c.chunks) EXCEPT !.whole = Joined(c.chunks)] ELSE Failed

\* The residual total, the end of the stream, the length and the hash of the whole file.
CheckDecoded(s, c) ==
  IF /\ c.r.ok /\ Total(c.chunks) = s.total /\ c.r.pos = Len(s.body)
     /\ Len(Joined(c.chunks)) = s.length /\ Joined(c.chunks) = s.hash
  THEN Decoded(s, c.chunks) ELSE Failed

decode_bogpk_container(s) ==
  IF HeaderOK(s) THEN CheckDecoded(s, DecodeChunks(s, ReadDescriptors(s, Reader(0), <<>>))) ELSE Failed

(***************************************************************************)
(* The programs packed for the BOGVM: per block, its coefficients, its     *)
(* residuals, and the hash VERIFY_HASH must find.                          *)
(***************************************************************************)
Instructions(chunk, hash) ==
  [basis |-> chunk.basis, start |-> chunk.start, length |-> chunk.length, delta |-> chunk.delta,
   residuals |-> Residuals(chunk), hash |-> hash]

pack_bytes_to_bogasm(bytes) == LET p == optimize_residual_plan(bytes) IN <<Instructions(p, p.hash)>>

pack_chunked_bytes_to_bogasm(bytes, chunk_size) ==
  LET chunks == chunked_plan(bytes, chunk_size, FALSE)
  IN [i \in DOMAIN chunks |-> Instructions(chunks[i], chunks[i].hash)]

compile_bog_container_to_bogasm(c) == [i \in DOMAIN c.chunks |-> Instructions(c.chunks[i], c.chunks[i].hash)]

\* What the VM holds after SYNTHESIZE and APPLY_RESIDUAL of a packed block.
Executed(b) == Patched(synthesize_basis(b.basis, b.start, b.length, b.delta), b.residuals)
RunsExactly(program, bytes) ==
  /\ \A i \in DOMAIN program : Executed(program[i]) = program[i].hash
  /\ FlattenSeq([i \in DOMAIN program |-> Executed(program[i])]) = bytes

(***************************************************************************)
(* Behaviour                                                               *)
(***************************************************************************)
Init == /\ phase = "input" /\ data \in Inputs /\ tournament \in BOOLEAN
        /\ container = Failed /\ stream = Failed /\ decoded = Failed /\ damaged = FALSE

Pack(c) == /\ phase = "input" /\ phase' = "packed" /\ container' = c
           /\ UNCHANGED <<data, tournament, stream, decoded, damaged>>

\* write_bogpk_container
Write == /\ phase = "packed" /\ phase' = "stored" /\ validate_bog_container(container)
         /\ stream' = encode_bogpk_container(container)
         /\ UNCHANGED <<data, tournament, container, decoded, damaged>>

\* The stored stream is damaged once: a body byte, its end, or a header field.
Damage ==
  /\ phase = "stored" /\ ~damaged /\ damaged' = TRUE
  /\ \/ \E i \in DOMAIN stream.body, b \in FaultBytes : stream' = [stream EXCEPT !.body[i] = b]
     \/ stream.body # <<>> /\ stream' = [stream EXCEPT !.body = Front(@)]
     \/ \E b \in FaultBytes : stream' = [stream EXCEPT !.body = Append(@, b)]
     \/ stream' = [stream EXCEPT !.runs = ~@]
     \/ \E d \in {-1, 1} : \/ stream.length + d >= 0 /\ stream' = [stream EXCEPT !.length = @ + d]
                           \/ stream.count + d >= 0 /\ stream' = [stream EXCEPT !.count = @ + d]
                           \/ stream.total + d >= 0 /\ stream' = [stream EXCEPT !.total = @ + d]
                           \/ stream.code + d >= 0 /\ stream' = [stream EXCEPT !.code = @ + d]
  /\ UNCHANGED <<phase, data, tournament, container, decoded>>

\* read_bogpk_container
Read == /\ phase = "stored" /\ phase' = "read"
        /\ decoded' = decode_bogpk_container(stream)
        /\ UNCHANGED <<data, tournament, container, stream, damaged>>

Next == \/ \E i \in DOMAIN CANDIDATE_CHUNK_SIZES : Pack(Build(data, CANDIDATE_CHUNK_SIZES[i], tournament))
        \/ Pack(Adaptive(data, tournament))
        \/ Write \/ Damage \/ Read

Spec == Init /\ [][Next]_vars

-----------------------------------------------------------------------------
\* Packing followed by reconstruction gives back the file, whatever the chunk size
\* and the transform the tournament picked.
ContainerExact == phase = "packed" => reconstruct_bog_container_bytes(container) = data

\* An undamaged stream decodes to the very container that was encoded.
StreamRoundTrip == phase = "read" /\ ~damaged => decoded = container

\* A damaged stream is refused or still yields the file: never other bytes.
DamageDetected ==
  phase = "read" /\ decoded # Failed => reconstruct_bog_container_bytes(decoded) = data

\* The programs of packer.py, and the one compiled from a container without
\* transforms, make the VM verify every block and rebuild the file.
PackedProgramsExact ==
  phase = "packed" =>
    /\ RunsExactly(pack_bytes_to_bogasm(data), data)
    /\ RunsExactly(pack_chunked_bytes_to_bogasm(data, container.chunk_size), data)
    /\ ~tournament => RunsExactly(compile_bog_container_to_bogasm(container), data)

\* Every transform is undone by its inverse, on the file and on what is stored.
TransformsInvert ==
  phase = "input" =>
    \A i \in DOMAIN TRANSFORM_ORDER :
      LET t == apply_transform_with_param(TRANSFORM_ORDER[i], data)
      IN invert_transform(TRANSFORM_ORDER[i], t.bytes, t.param) = data

\* A number is read back from its varuint, whose length the optimizer predicts, and
\* the same number padded with a zero byte is refused.
VaruintCanonical ==
  phase = "input" => \A v \in Counts \cup {Len(data)} :
    LET bytes == encode_varuint(v)
        padded == Append([bytes EXCEPT ![Len(bytes)] = @ + 128], 0)
    IN /\ Len(bytes) = varuint_size(v)
       /\ decode_varuint(bytes, Reader(0)) = [ok |-> TRUE, pos |-> Len(bytes), vals |-> <<v>>]
       /\ ~decode_varuint(padded, Reader(0)).ok

\* No basis with any start byte, and no ramp through any byte of the file with any
\* step, needs fewer residuals than the plan the optimizer keeps.
OptimizerBest ==
  phase = "input" =>
    LET kept == Len(optimize_residual_plan(data).residuals)
    IN /\ \A b \in BasisNames, s \in Byte : kept <= Misses(data, b, s, 0)
       /\ \A j \in DOMAIN data, d \in Byte :
            kept <= Misses(data, "delta_u8", (data[j] - (j - 1) * d) % 256, d)
=============================================================================
