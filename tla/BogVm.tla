------------------------------- MODULE BogVm -------------------------------
(***************************************************************************)
(* The BOGVM interpreter of bogvm/vm.py, fed by the assembler of           *)
(* bogvm/assembler.py.  A program is a straight line of instructions, so   *)
(* a behaviour chooses one instruction per step.  When the program went    *)
(* through the assembler, an operand must pass its require_* checks first; *)
(* otherwise the .bogbin file was not written by the assembler and the     *)
(* VM's own checks are all there is.                                       *)
(***************************************************************************)
EXTENDS Bases, FiniteSetsExt, Functions

CONSTANTS Node, Claim, Block,   \* the symbols a program may name
          Programs,             \* what programs there are, see VmAssumption
          DataBases, Starts, Lengths, Deltas, Patches,   \* operands of the data opcodes
          Hashes,               \* the constants VERIFY_HASH names
          ENERGY_LIMIT,         \* 10^9 in the code
          None

Symbols == Node \cup Claim \cup Block

\* A program says whether it went through the assembler, which symbols its manifest holds
\* (after the assembler: all it names), which opcodes it uses, and the operands of ACTIVATE
\* and DECAY (strengths) and of PROPAGATE (depths); events and edges bound its length.
ASSUME VmAssumption ==
  /\ Programs \subseteq [assembled : BOOLEAN, named : SUBSET Symbols, opcodes : SUBSET STRING,
                         strengths : SUBSET Nat, depths : SUBSET Nat, events : Nat, edges : Nat]
  /\ \A p \in Programs : p.assembled => p.named = Symbols
  /\ IsFiniteSet(Node) /\ ENERGY_LIMIT \in Nat /\ Lengths \subseteq Nat
  /\ None \notin {"verified", "rejected", "abstained"}

SCALE == 1000

VARIABLES program,                                        \* the program that runs
          status, events, emitted,                        \* control and receipt ledger
          nodes, edges, claims,                           \* node_table, edge_table, claim_table
          activation, pressure, tension,
          verdict, accepted, rejected, quarantined,       \* verifier_results and the three lists
          seen, acceptedAs,                               \* history: endpoints found verified; endpoints accepted
          dataNames, basis, blocks,                       \* assembler's data names; active_basis, data_blocks
          hashed, acceptedData, rejectedData,
          checked, acceptedBytes                          \* history: bytes VERIFY_HASH found right; bytes accepted

control == <<status, events, emitted>>
graph   == <<nodes, edges, claims>>
field   == <<activation, pressure, tension>>
rulings == <<verdict, accepted, rejected, quarantined, seen, acceptedAs>>
data    == <<dataNames, basis, blocks, hashed, acceptedData, rejectedData, checked, acceptedBytes>>
vars    == <<program, control, graph, field, rulings, data>>

Assembled == program.assembled
Named     == program.named
Opcodes   == program.opcodes
MaxEvents == program.events
MaxEdges  == program.edges

EdgeTypes == {"support", "conflict"}

Init ==
  /\ program \in Programs
  /\ status = "running" /\ events = 0 /\ emitted = FALSE
  /\ nodes = {} /\ edges = <<>> /\ claims = [c \in Claim |-> None]
  /\ activation = [n \in Node |-> 0]
  /\ pressure = [c \in Claim |-> None] /\ tension = [c \in Claim |-> 0]
  /\ verdict = [c \in Claim |-> None] /\ seen = [c \in Claim |-> {}] /\ acceptedAs = [c \in Claim |-> None]
  /\ accepted = {} /\ rejected = {} /\ quarantined = {}
  /\ dataNames = IF Assembled THEN {} ELSE Block \cap Named
  /\ basis = None /\ blocks = [d \in Block |-> None]
  /\ hashed = [d \in Block |-> None] /\ checked = [d \in Block |-> {}] /\ acceptedBytes = [d \in Block |-> None]
  /\ acceptedData = {} /\ rejectedData = {}

(***************************************************************************)
(* How one instruction ends: logged, stopped by a VMError (which still     *)
(* yields a receipt), or by an exception nobody catches.                   *)
(***************************************************************************)
Fetch(op) == status = "running" /\ op \in Opcodes /\ events < MaxEvents

Log == events' = events + 1 /\ UNCHANGED <<status, emitted>>

VMError == /\ status' = "blocked" /\ events' = events + 1
           /\ UNCHANGED <<emitted, graph, field, rulings, data>>

KeyErrorRaised == /\ status' = "raised"
                  /\ UNCHANGED <<events, emitted, graph, field, rulings, data>>

NOOP == /\ \E op \in {"NOOP", "LOG_RECEIPT"} : Fetch(op)
        /\ Log /\ UNCHANGED <<graph, field, rulings, data>>

EMIT_RECEIPT == /\ Fetch("EMIT_RECEIPT") /\ emitted' = TRUE /\ events' = events + 1
                /\ UNCHANGED <<status, graph, field, rulings, data>>

\* HALT ends the run; without EMIT_RECEIPT the VM logs AUTO_RECEIPT itself.
HALT == /\ Fetch("HALT") /\ status' = "completed"
        /\ events' = events + (IF emitted THEN 1 ELSE 2)
        /\ UNCHANGED <<emitted, graph, field, rulings, data>>

\* The stream ends without HALT, or holds an unknown opcode or edge type.
BadStream == status = "running" /\ events > 0 /\ VMError

(***************************************************************************)
(* Graph opcodes                                                           *)
(***************************************************************************)
require_node(n)  == Assembled => n \in nodes
require_claim(c) == Assembled => claims[c] # None

CREATE_NODE(n) ==
  /\ Fetch("CREATE_NODE")
  /\ \/ n \notin Named /\ VMError
     \/ /\ n \in Named /\ nodes' = nodes \cup {n} /\ Log
        /\ UNCHANGED <<edges, claims, field, rulings, data>>

CREATE_EDGE(m, n, type) ==
  /\ Fetch("CREATE_EDGE") /\ Len(edges) < MaxEdges /\ require_node(m) /\ require_node(n)
  /\ \/ ~({m, n} \subseteq nodes) /\ VMError
     \/ /\ {m, n} \subseteq nodes
        /\ edges' = Append(edges, [source |-> m, target |-> n, type |-> type, weight |-> SCALE])
        /\ Log /\ UNCHANGED <<nodes, claims, field, rulings, data>>

\* Naming a claim again keeps its number and replaces its endpoints.
CREATE_CLAIM(c, m, n) ==
  /\ Fetch("CREATE_CLAIM") /\ require_node(m) /\ require_node(n)
  /\ \/ c \notin Named /\ VMError
     \/ c \in Named /\ ~({m, n} \subseteq nodes) /\ KeyErrorRaised
     \/ /\ c \in Named /\ {m, n} \subseteq nodes
        /\ claims' = [claims EXCEPT ![c] = [source |-> m, target |-> n]]
        /\ Log /\ UNCHANGED <<nodes, edges, field, rulings, data>>

ACTIVATE(n, strength) ==
  /\ Fetch("ACTIVATE") /\ require_node(n)
  /\ \/ (n \notin nodes \/ strength > SCALE) /\ VMError
     \/ /\ n \in nodes /\ strength <= SCALE
        /\ activation' = [activation EXCEPT ![n] = strength]
        /\ Log /\ UNCHANGED <<graph, pressure, tension, rulings, data>>

EdgesOf(type) == {i \in DOMAIN edges : edges[i].type = type}
Carried(amount, i) == (amount * edges[i].weight) \div SCALE

\* What every edge carries when the nodes hold the given amounts.
Flow(amounts) == [i \in DOMAIN edges |-> Carried(amounts[edges[i].source], i)]
Into(n, type) == {i \in EdgesOf(type) : edges[i].target = n}

TickWaveFirst(frontier, type) ==      \* mutant: a later edge overwrites an earlier one
  [n \in Node |-> LET into == {i \in Into(n, type) : frontier[edges[i].source] > 0}
                  IN IF into = {} THEN 0 ELSE Carried(frontier[edges[Max(into)].source], Max(into))]

\* One tick: what every node receives from the frontier over edges of the type.
TickWave(frontier, type) ==
  [n \in Node |-> SumFunctionOnSet(Flow(frontier), Into(n, type))]

\* depth ticks from source: the cumulative field and the energy spent.
Propagated(source, type, depth) ==
  LET start == [frontier |-> [n \in Node |-> IF n = source THEN activation[n] ELSE 0],
                cumulative |-> activation, energy |-> 0]
      wave[t \in 0..depth] ==
        IF t = 0 THEN start
        ELSE LET last == wave[t - 1]
                 scratch == TickWave(last.frontier, type)
             IN [frontier |-> scratch,
                 cumulative |-> [n \in Node |-> Max({last.cumulative[n], scratch[n]})],
                 energy |-> last.energy + SumFunctionOnSet(scratch, Node)]
  IN wave[depth]

PROPAGATE(source, type, depth) ==
  /\ Fetch("PROPAGATE") /\ require_node(source)
  /\ LET wave == Propagated(source, type, depth) IN
     \/ wave.energy > ENERGY_LIMIT /\ VMError
     \/ /\ wave.energy <= ENERGY_LIMIT
        /\ activation' = wave.cumulative
        /\ Log /\ UNCHANGED <<graph, pressure, tension, rulings, data>>

DECAY(factor) ==
  /\ Fetch("DECAY")
  /\ \/ factor > SCALE /\ VMError
     \/ /\ factor <= SCALE
        /\ activation' = [n \in Node |-> (activation[n] * factor) \div SCALE]
        /\ Log /\ UNCHANGED <<graph, pressure, tension, rulings, data>>

(***************************************************************************)
(* Claim opcodes                                                           *)
(***************************************************************************)
\* A claim the table does not hold: every claim opcode ends in a KeyError, most
\* of them while the log line or the error message is being put together.
UndeclaredClaim(c) ==
  /\ \E op \in {"INTERFERE", "COMPUTE_TENSION", "VERIFY", "ACCEPT", "REJECT", "QUARANTINE"} : Fetch(op)
  /\ require_claim(c) /\ claims[c] = None /\ KeyErrorRaised

OnClaim(op, c) == Fetch(op) /\ claims[c] # None

ConflictOn(n) == SumFunctionOnSet(Flow(activation), Into(n, "conflict"))

INTERFERE(c) ==
  /\ OnClaim("INTERFERE", c)
  /\ LET p == [support |-> activation[claims[c].target], conflict |-> ConflictOn(claims[c].target)] IN
     /\ pressure' = [pressure EXCEPT ![c] = p]
     /\ tension' = [tension EXCEPT ![c] = Min({p.support, p.conflict})]
  /\ Log /\ UNCHANGED <<graph, activation, rulings, data>>

COMPUTE_TENSION(c) ==
  /\ OnClaim("COMPUTE_TENSION", c)
  /\ tension' = [tension EXCEPT ![c] = IF pressure[c] = None THEN 0
                                       ELSE Min({pressure[c].support, pressure[c].conflict})]
  /\ Log /\ UNCHANGED <<graph, activation, pressure, rulings, data>>

\* Breadth-first search along support edges; a node reaches itself.
SupportPathAnyEdge(m, n) ==        \* mutant: conflict edges count as support
  \/ m = n
  \/ \E i \in EdgesOf("support") : edges[i].source = m /\ edges[i].target = n
  \/ \E i \in EdgesOf("conflict") : edges[i].source = m /\ edges[i].target = n

SupportPathExists(m, n) ==
  LET visited[k \in 0..Cardinality(Node)] ==
        IF k = 0 THEN {m}
        ELSE visited[k - 1] \cup {edges[i].target : i \in {j \in EdgesOf("support") :
                                                            edges[j].source \in visited[k - 1]}}
  IN n \in visited[Cardinality(Node)]

verify_claim(c) ==
  IF pressure[c] # None /\ pressure[c].conflict > 0 THEN "rejected"
  ELSE IF SupportPathExists(claims[c].source, claims[c].target) THEN "verified"
  ELSE "abstained"

VERIFY(c) ==
  /\ OnClaim("VERIFY", c)
  /\ verdict' = [verdict EXCEPT ![c] = verify_claim(c)]
  /\ seen' = IF verify_claim(c) = "verified" THEN [seen EXCEPT ![c] = @ \cup {claims[c]}] ELSE seen
  /\ Log /\ UNCHANGED <<graph, field, accepted, rejected, quarantined, acceptedAs, data>>

ACCEPT_Unlogged(c) ==             \* mutant: the repair of a contradiction is not logged
  /\ OnClaim("ACCEPT", c) /\ verdict[c] = "rejected"
  /\ rejected' = rejected \cup {c} /\ quarantined' = quarantined \cup {c}
  /\ UNCHANGED <<control, graph, field, verdict, seen, acceptedAs, accepted, data>>

\* A rejected claim is repaired (rejected and quarantined); a claim without a
\* verified verdict blocks the program.
ACCEPT(c) ==
  /\ OnClaim("ACCEPT", c)
  /\ \/ /\ verdict[c] = "rejected"
        /\ rejected' = rejected \cup {c} /\ quarantined' = quarantined \cup {c}
        /\ Log /\ UNCHANGED <<graph, field, verdict, seen, acceptedAs, accepted, data>>
     \/ /\ verdict[c] = "verified" /\ accepted' = accepted \cup {c}
        /\ acceptedAs' = [acceptedAs EXCEPT ![c] = claims[c]]
        /\ Log /\ UNCHANGED <<graph, field, verdict, seen, rejected, quarantined, data>>
     \/ verdict[c] \in {None, "abstained"} /\ VMError

REJECT(c) ==
  /\ OnClaim("REJECT", c) /\ rejected' = rejected \cup {c}
  /\ Log /\ UNCHANGED <<graph, field, verdict, seen, acceptedAs, accepted, quarantined, data>>

QUARANTINE(c) ==
  /\ OnClaim("QUARANTINE", c) /\ quarantined' = quarantined \cup {c}
  /\ Log /\ UNCHANGED <<graph, field, verdict, seen, acceptedAs, accepted, rejected, data>>

(***************************************************************************)
(* Data opcodes                                                            *)
(***************************************************************************)
\* The DATA_BLOCK directive only names the block; it emits no instruction.
DATA_BLOCK(d) ==
  /\ Assembled /\ status = "running" /\ "LOAD_COEFFICIENTS" \in Opcodes /\ d \notin dataNames
  /\ dataNames' = dataNames \cup {d}
  /\ UNCHANGED <<control, graph, field, rulings, basis, blocks, hashed, acceptedData, rejectedData,
                 checked, acceptedBytes>>

require_data(d) == Assembled => d \in dataNames

DECLARE_BASIS(b) ==
  /\ Fetch("DECLARE_BASIS")
  /\ \/ b \notin {BASIS_ORDER[i] : i \in DOMAIN BASIS_ORDER} /\ VMError
     \/ /\ b \in {BASIS_ORDER[i] : i \in DOMAIN BASIS_ORDER} /\ basis' = b
        /\ Log /\ UNCHANGED <<graph, field, rulings, dataNames, blocks, hashed, acceptedData, rejectedData,
                             checked, acceptedBytes>>

\* Changes blocks and nothing else.
OnlyBlocks == /\ Log
              /\ UNCHANGED <<graph, field, rulings, dataNames, basis, hashed, acceptedData, rejectedData,
                             checked, acceptedBytes>>

LOAD_COEFFICIENTS(d, start, length, delta) ==
  /\ Fetch("LOAD_COEFFICIENTS") /\ require_data(d)
  /\ \/ d \notin dataNames /\ VMError
     \/ /\ d \in dataNames
        /\ blocks' = [blocks EXCEPT ![d] = [basis |-> basis, start |-> start, delta |-> delta,
                                            length |-> length, bytes |-> <<>>, residuals |-> {}]]
        /\ OnlyBlocks

\* Every opcode below stops the program when the block was never loaded.
NotLoaded(d) ==
  /\ \E op \in {"SYNTHESIZE", "VERIFY_HASH", "ACCEPT_DATA", "REJECT_DATA", "STORE_RESIDUAL", "APPLY_RESIDUAL"} :
       Fetch(op)
  /\ require_data(d) /\ blocks[d] = None /\ VMError

OnBlock(op, d) == Fetch(op) /\ require_data(d) /\ blocks[d] # None

SYNTHESIZE(d) ==
  /\ OnBlock("SYNTHESIZE", d)
  /\ LET b == blocks[d] IN
     \/ b.basis = None /\ VMError
     \/ /\ b.basis # None
        /\ blocks' = [blocks EXCEPT ![d].bytes = synthesize_basis(b.basis, b.start, b.length, b.delta)]
        /\ OnlyBlocks

STORE_RESIDUAL(d, patch) ==
  /\ OnBlock("STORE_RESIDUAL", d)
  /\ \/ patch.offset >= blocks[d].length /\ VMError
     \/ /\ patch.offset < blocks[d].length
        /\ blocks' = [blocks EXCEPT ![d].residuals = @ \cup {patch}]
        /\ OnlyBlocks

\* Patches are applied in (offset, byte) order, so the greatest byte of an
\* offset wins; one outside the synthesised bytes blocks the program.
APPLY_RESIDUAL(d) ==
  /\ OnBlock("APPLY_RESIDUAL", d)
  /\ LET b == blocks[d] IN
     \/ (\E r \in b.residuals : r.offset >= Len(b.bytes)) /\ VMError
     \/ /\ \A r \in b.residuals : r.offset < Len(b.bytes)
        /\ blocks' = [blocks EXCEPT ![d].bytes = Patched(b.bytes, b.residuals)]
        /\ OnlyBlocks

VERIFY_HASH(d, hash) ==
  /\ OnBlock("VERIFY_HASH", d)
  /\ hashed' = [hashed EXCEPT ![d] = IF blocks[d].bytes = hash THEN "verified" ELSE "rejected"]
  /\ checked' = IF blocks[d].bytes = hash THEN [checked EXCEPT ![d] = @ \cup {hash}] ELSE checked
  /\ Log /\ UNCHANGED <<graph, field, rulings, dataNames, basis, blocks, acceptedData, rejectedData, acceptedBytes>>

ACCEPT_DATA(d) ==
  /\ OnBlock("ACCEPT_DATA", d)
  /\ \/ hashed[d] # "verified" /\ VMError
     \/ /\ hashed[d] = "verified" /\ acceptedData' = acceptedData \cup {d}
        /\ acceptedBytes' = [acceptedBytes EXCEPT ![d] = blocks[d].bytes]
        /\ Log /\ UNCHANGED <<graph, field, rulings, dataNames, basis, blocks, hashed, rejectedData, checked>>

REJECT_DATA(d) ==
  /\ OnBlock("REJECT_DATA", d)
  /\ \/ hashed[d] # "rejected" /\ VMError
     \/ /\ hashed[d] = "rejected" /\ rejectedData' = rejectedData \cup {d}
        /\ Log /\ UNCHANGED <<graph, field, rulings, dataNames, basis, blocks, hashed, acceptedData, checked, acceptedBytes>>

Step ==
  \/ NOOP \/ EMIT_RECEIPT \/ HALT \/ BadStream
  \/ \E n \in Node : CREATE_NODE(n)
  \/ \E m, n \in Node, type \in EdgeTypes : CREATE_EDGE(m, n, type)
  \/ \E c \in Claim, m, n \in Node : CREATE_CLAIM(c, m, n)
  \/ \E n \in Node, s \in program.strengths : ACTIVATE(n, s)
  \/ \E n \in Node, type \in EdgeTypes, k \in program.depths : PROPAGATE(n, type, k)
  \/ \E s \in program.strengths : DECAY(s)
  \/ \E c \in Claim : \/ UndeclaredClaim(c) \/ INTERFERE(c) \/ COMPUTE_TENSION(c)
                      \/ VERIFY(c) \/ ACCEPT(c) \/ REJECT(c) \/ QUARANTINE(c)
  \/ \E b \in DataBases : DECLARE_BASIS(b)
  \/ \E d \in Block :
       \/ DATA_BLOCK(d) \/ NotLoaded(d) \/ SYNTHESIZE(d) \/ APPLY_RESIDUAL(d)
       \/ ACCEPT_DATA(d) \/ REJECT_DATA(d)
       \/ \E s \in Starts, l \in Lengths, k \in Deltas : LOAD_COEFFICIENTS(d, s, l, k)
       \/ \E p \in Patches : STORE_RESIDUAL(d, p)
       \/ \E h \in Hashes : VERIFY_HASH(d, h)

Next == Step /\ UNCHANGED program

Spec == Init /\ [][Next]_vars

-----------------------------------------------------------------------------
\* Edges and claims join nodes that exist, and synthesized bytes are either absent or as
\* long as DECLARE_BASIS and LOAD_COEFFICIENTS promised.
TypeOK ==
  /\ status \in {"running", "completed", "blocked", "raised"}
  /\ events \in 0..(MaxEvents + 2) /\ emitted \in BOOLEAN
  /\ nodes \subseteq Node
  /\ \A i \in DOMAIN edges : {edges[i].source, edges[i].target} \subseteq nodes
  /\ \A c \in Claim : claims[c] # None => {claims[c].source, claims[c].target} \subseteq nodes
  /\ activation \in [Node -> Nat] /\ tension \in [Claim -> Nat]
  /\ accepted \cup rejected \cup quarantined \subseteq Claim
  /\ \A d \in Block : blocks[d] # None => Len(blocks[d].bytes) \in {0, blocks[d].length}
  /\ acceptedData \cup rejectedData \subseteq Block

\* Every accepted claim had been verified, and every pair of endpoints it was ever
\* verified with is joined by a chain of support edges (edges are never removed).
AcceptedWasSupported ==
  \A c \in accepted : seen[c] # {} /\ \A as \in seen[c] : \E k \in 0..Cardinality(Node) :
    \E walk \in [0..k -> Node] :
      /\ walk[0] = as.source /\ walk[k] = as.target
      /\ \A j \in 1..k : \E i \in EdgesOf("support") :
           edges[i].source = walk[j - 1] /\ edges[i].target = walk[j]

\* A propagation of depth k gives every node the greatest, over the ticks 1..k, of
\* the strength times the number of walks of that length that lead to it, and never
\* lowers a node ("propagation must not erase unrelated active sources").
WaveCountsWalks ==
  \A n \in nodes, type \in EdgeTypes, k \in program.depths :
    LET walks(t, end) == Cardinality({w \in [1..t -> EdgesOf(type)] :
                           /\ t > 0 => edges[w[1]].source = n /\ edges[w[t]].target = end
                           /\ \A j \in 1..(t - 1) : edges[w[j]].target = edges[w[j + 1]].source})
    IN Propagated(n, type, k).cumulative
         = [m \in Node |-> Max({activation[m]} \cup {activation[n] * walks(t, m) : t \in 1..k})]

\* A program the assembler accepted never stops the VM with an exception other
\* than VMError: it always gets a receipt.
AssembledNeverRaises == Assembled => status # "raised"

machine == <<graph, field, rulings, basis, blocks, hashed, acceptedData, rejectedData, status>>

\* LAW_005: no state of the VM changes without an event in the receipt ledger,
\* unless an exception ends the run without a receipt (naming a data block is the
\* assembler's step, not the VM's).
EveryTransitionLogged ==
  [][machine' # machine /\ status' # "raised" => events' > events]_vars

\* A block is accepted only if VERIFY_HASH once found its bytes right.
AcceptedDataWasVerified == \A d \in acceptedData : checked[d] # {}

\* A claim is accepted only if VERIFY found its endpoints joined by support edges, a block
\* only if VERIFY_HASH once found its bytes right, whoever wrote the program (ACCEPT,
\* ACCEPT_DATA); an assembled program never ends in an exception other than a VMError.
AcceptanceEarned == TypeOK /\ AcceptedWasSupported /\ AcceptedDataWasVerified /\ AssembledNeverRaises

-----------------------------------------------------------------------------
\* What the documents say and the code does not do (README, section 6).

\* "Run a .bogbin program and always return a receipt."
AlwaysReceipted == status # "raised"

\* LAW_002, no ACCEPT without VERIFY: a claim is accepted with endpoints it was
\* verified with.
AcceptedAsVerified == \A c \in accepted : acceptedAs[c] \in seen[c]

\* QUARANTINE moves a claim: a quarantined claim is no longer accepted.
QuarantineMoves == accepted \cap quarantined = {}

\* "Generated data is not accepted without hash verification": the bytes a block
\* holds when it is accepted are bytes VERIFY_HASH found right.
AcceptedBytesVerified == \A d \in acceptedData : acceptedBytes[d] \in checked[d]

\* VERIFY_HASH is a hard gate: a mismatch blocks the execution.
MismatchBlocks == status = "completed" => \A d \in Block : hashed[d] # "rejected"
=============================================================================
