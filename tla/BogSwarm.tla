------------------------------ MODULE BogSwarm ------------------------------
(***************************************************************************)
(* The BogPilot Swarm tournament (swarm.py): candidates are gated in order *)
(* against the budget, the best eligible one is admitted through Genesis,  *)
(* and the receipt can be replayed.                                        *)
(***************************************************************************)
EXTENDS Integers, Sequences, FiniteSets, SequencesExt

CONSTANTS Costs, Scores,      \* the numbers a proposal may give
          Cells, Budget,      \* budget["cells"], budget["cost"]
          MaxCandidates,      \* bound: proposals of a tournament
          None

VARIABLES candidates,   \* the proposals handed in, in order
          receipt,      \* the tournament's receipt, None before, "raised" when it had none
          written       \* what Genesis admitted

vars == <<candidates, receipt, written>>

Paths == {"inside", "escaping", "absolute", "missing"}
\* Proposals with at most one thing wrong besides their cost.
Proposal ==
  {p \in [action : {"write", "reject", "other"}, path : Paths, cost : Costs, score : Scores, fits : BOOLEAN] :
     Cardinality({x \in {"action", "path", "fits"} :
       CASE x = "action" -> p.action # "write" [] x = "path" -> p.path # "inside" [] x = "fits" -> ~p.fits}) <= 1}

\* hypothesis_tree, and the receipt that holds it.
Cell == [index : Nat, proposal : Proposal, completed : BOOLEAN]
Receipt == [cells : Seq(Cell), selected : Nat \cup {None}, outcome : {"raised", "blocked", "completed"}]

\* What the constants are; the MC modules assume it of each instance.
SwarmAssumption == /\ Cells \in Nat /\ Budget \in Nat /\ MaxCandidates \in Nat /\ Costs \cup Scores \subseteq Int
                   /\ None \notin Nat \cup Receipt

Init == candidates = <<>> /\ receipt = None /\ written = {}

Considered == SubSeq(candidates, 1, IF Len(candidates) < Cells THEN Len(candidates) ELSE Cells)

\* total_cost after the i-th candidate; blocked candidates count too.
AddCost(sum, c) == sum + c.cost
total_cost(i) == FoldLeft(AddCost, 0, SubSeq(Considered, 1, i))

Passes_Alone(i) ==                        \* mutant: every candidate has the budget to itself
  LET c == Considered[i] IN
  /\ c.action \in {"write", "reject"} /\ c.cost >= 0 /\ c.cost <= Budget /\ c.fits
  /\ c.action = "write" => c.path \notin {"missing", "escaping"}

Passes(i) ==
  LET c == Considered[i] IN
  /\ c.action \in {"write", "reject"} /\ c.cost >= 0 /\ total_cost(i) <= Budget /\ c.fits
  /\ c.action = "write" => c.path \notin {"missing", "escaping"}

\* hypothesis_tree: one cell per considered candidate.
Tree == [i \in 1..Len(Considered) |-> [index |-> i, proposal |-> Considered[i], completed |-> Passes(i)]]

\* eligible[0]: highest score, then lowest cost, then the proof hash, which the index stands for.
Eligible(cells) == {c \in cells : c.completed /\ c.proposal.action # "reject"}

Better(c, d) ==
  \/ c.proposal.score > d.proposal.score
  \/ c.proposal.score = d.proposal.score /\
       (c.proposal.cost < d.proposal.cost \/ (c.proposal.cost = d.proposal.cost /\ c.index < d.index))

Selected(cells) ==
  IF Eligible(cells) = {} THEN None
  ELSE (CHOOSE c \in Eligible(cells) : \A d \in Eligible(cells) \ {c} : Better(c, d)).index

Propose(p) ==
  /\ receipt = None /\ Len(candidates) < MaxCandidates
  /\ candidates' = Append(candidates, p) /\ UNCHANGED <<receipt, written>>

\* tournament: fs_write refuses an absolute path by raising, which ends the tournament.
Tournament ==
  LET s == Selected(Range(Tree)) IN
  /\ receipt = None
  /\ IF s # None /\ Considered[s].path = "absolute"
     THEN receipt' = [cells |-> <<>>, selected |-> None, outcome |-> "raised"] /\ UNCHANGED written
     ELSE /\ receipt' = [cells |-> Tree, selected |-> s, outcome |-> IF s = None THEN "blocked" ELSE "completed"]
          /\ written' = IF s = None THEN written ELSE written \cup {Considered[s]}
  /\ UNCHANGED candidates

\* replay: cell proofs, and the selection made again from the recorded cells.
Replays == Selected(Range(receipt.cells)) = receipt.selected

Next == (\E p \in Proposal : Propose(p)) \/ Tournament

Spec == Init /\ [][Next]_vars

-----------------------------------------------------------------------------
\* A tournament receipt holds no more cells than the tournament has, and one
\* tournament admits at most one write.
TypeOK == /\ candidates \in Seq(Proposal) /\ Len(candidates) <= MaxCandidates
          /\ \A v, w \in written : v = w
          /\ receipt # None => receipt \in Receipt /\ Len(receipt.cells) <= Cells

\* What Genesis admitted is a write inside the workspace that no eligible candidate
\* beats: any better scored proposal was refused for a reason of its own or for the
\* budget its predecessors had spent.
AdmittedIsBest ==
  \A w \in written :
    /\ w.action = "write" /\ w.path = "inside" /\ w.fits /\ w.cost >= 0
    /\ \A i \in DOMAIN receipt.cells :
         LET c == receipt.cells[i].proposal IN
         c.score > w.score /\ c.action = "write" /\ c.fits /\ c.path \in {"inside", "absolute"} /\ c.cost >= 0
           => total_cost(i) > Budget

\* The costs of the cells that passed.
Spent(cells) == [i \in DOMAIN cells |-> [cost |-> IF cells[i].completed THEN cells[i].proposal.cost ELSE 0]]
PassedCost(cells) == FoldLeft(AddCost, 0, Spent(cells))

\* Without negative costs, the candidates that passed were affordable together.
PassedWithinBudget ==
  receipt # None /\ (\A i \in DOMAIN candidates : candidates[i].cost >= 0) =>
    PassedCost(receipt.cells) <= Budget

\* A receipt replays to the selection it records.
ReceiptReplays == receipt # None => Replays

-----------------------------------------------------------------------------
\* What the documents say and the code does not do (README, section 6).

\* "budgeted candidate tournaments": what passed never costs more than the budget.
BudgetKept ==
  receipt # None => PassedCost(receipt.cells) <= Budget

\* "blocks unsafe paths": an unsafe proposal is a blocked cell, not the end of the run.
TournamentReceipted == receipt # None => receipt.outcome # "raised"
=============================================================================
