------------------------------- MODULE BogMesh -------------------------------
(***************************************************************************)
(* BogMesh (mesh.py) on one node: peers are trusted, claims are proposed   *)
(* here or imported from files, a namespace is resolved per context, and   *)
(* the outcome is kept in state.json.  The claim identifier is the claim   *)
(* itself; an altered file is a claim whose identifier is another's.       *)
(***************************************************************************)
EXTENDS Integers, FiniteSets, FiniteSetsExt

CONSTANTS Peers, Self,            \* signing keys; Self is this workspace's
          Values, Contexts, Namespaces,
          Authorities, Supports,  \* the numbers a claim may give
          MaxClaims,              \* bound: claim files
          None

\* What the constants are; the MC modules assume it of each instance.
MeshAssumption == Self \in Peers /\ MaxClaims \in Nat /\ Supports \subseteq Int /\ Authorities \subseteq Int

VARIABLES trusted, claims, state  \* peers/, claims/, state.json
vars == <<trusted, claims, state>>

Claim == [namespace : Namespaces, value : Values, context : Contexts, authority : Authorities,
          support : Supports, scoped : BOOLEAN, by : Peers]

Init == trusted = {Self} /\ claims = {} /\ state = None

\* _verify_claim
verify_claim(c) == c.by \in trusted /\ c.support >= 1 /\ c.scoped

\* resolve: the valid claims of a namespace, by context, then by value.
Valid(ns) == {c \in claims : c.namespace = ns /\ verify_claim(c)}
For(ns, ctx, v) == {c \in Valid(ns) : c.context = ctx /\ c.value = v}
Candidates(ns, ctx) == {v \in Values : For(ns, ctx, v) # {}}

AddSupport(c, n) == n + c.support
pressure(ns, ctx, v) == FoldSet(AddSupport, 0, For(ns, ctx, v))
authority(ns, ctx, v) == Max({c.authority : c \in For(ns, ctx, v)})

\* ranked: by authority, then pressure, then value hash (any order of the values).
Before(ns, ctx, v, w) ==
  \/ authority(ns, ctx, v) > authority(ns, ctx, w)
  \/ authority(ns, ctx, v) = authority(ns, ctx, w) /\ pressure(ns, ctx, v) > pressure(ns, ctx, w)

\* The first of the ranking and the one after it.
First(ns, ctx) ==
  CHOOSE v \in Candidates(ns, ctx) : \A w \in Candidates(ns, ctx) : ~Before(ns, ctx, w, v)
Second(ns, ctx) ==
  CHOOSE v \in Candidates(ns, ctx) \ {First(ns, ctx)} :
    \A w \in Candidates(ns, ctx) \ {First(ns, ctx), v} : ~Before(ns, ctx, w, v)

Outcome_Pressed(ns, ctx) ==                    \* mutant: only the pressures are compared
  LET v == First(ns, ctx)
      w == Second(ns, ctx)
  IN IF Cardinality(Candidates(ns, ctx)) = 1 THEN [policy |-> "converge", selected |-> v]
     ELSE IF pressure(ns, ctx, v) > pressure(ns, ctx, w)
     THEN [policy |-> "winner", selected |-> v]
     ELSE [policy |-> "split", selected |-> None]

Outcome(ns, ctx) ==
  LET v == First(ns, ctx)
      w == Second(ns, ctx)
  IN IF Cardinality(Candidates(ns, ctx)) = 1 THEN [policy |-> "converge", selected |-> v]
     ELSE IF authority(ns, ctx, v) > authority(ns, ctx, w) \/ pressure(ns, ctx, v) > pressure(ns, ctx, w)
     THEN [policy |-> "winner", selected |-> v]
     ELSE [policy |-> "split", selected |-> None]

Resolved(ns) ==
  [namespace |-> ns,
   outcomes |-> [ctx \in {c.context : c \in Valid(ns)} |-> Outcome(ns, ctx)],
   quarantined |-> {c \in claims : c.namespace = ns /\ ~verify_claim(c)}]

\* propose writes this node's claim whatever it says, and resolves its namespace.
Propose(c) ==
  /\ c.by = Self /\ Cardinality(claims) < MaxClaims
  /\ UNCHANGED trusted
  /\ claims' = claims \cup {c} /\ state' = Resolved(c.namespace)'

\* import_claim keeps a claim that verifies and leaves the resolution to a later call.
Import(c) ==
  /\ c.by # Self /\ Cardinality(claims) < MaxClaims
  /\ claims' = IF verify_claim(c) THEN claims \cup {c} ELSE claims
  /\ UNCHANGED <<trusted, state>>

TrustPeer(p) == trusted' = trusted \cup {p} /\ UNCHANGED <<claims, state>>

Resolve(ns) == state' = Resolved(ns) /\ UNCHANGED <<trusted, claims>>

\* verify: every claim file on its own, and the hash over state.json.
MeshVerifies == \A c \in claims : verify_claim(c)

Next == \/ \E c \in Claim : Propose(c) \/ Import(c)
        \/ \E p \in Peers : TrustPeer(p)
        \/ \E ns \in Namespaces : Resolve(ns)

Spec == Init /\ [][Next]_vars

-----------------------------------------------------------------------------
\* Only claims of the modelled kind are stored, the own key stays trusted, and a value
\* _verify_claim made a candidate has at least its own proposer's support.
TypeOK == /\ trusted \subseteq Peers /\ Self \in trusted /\ claims \subseteq Claim
          /\ \A ns \in Namespaces, ctx \in Contexts : \A v \in Candidates(ns, ctx) : pressure(ns, ctx, v) >= 1

\* A value is selected exactly when it beats every other candidate of its context in
\* authority, or ties for the highest authority and has more support than each of
\* those it ties with; otherwise nothing is.
SelectedBeatsAll ==
  \A ns \in Namespaces, ctx \in Contexts :
    LET C == Candidates(ns, ctx)
        top == {v \in C : \A w \in C : authority(ns, ctx, v) >= authority(ns, ctx, w)}
        best == {v \in top : \A w \in top \ {v} : pressure(ns, ctx, v) > pressure(ns, ctx, w)}
    IN C # {} => /\ Outcome(ns, ctx).selected = IF best = {} THEN None ELSE CHOOSE v \in best : TRUE
                 /\ Outcome(ns, ctx).policy = IF Cardinality(C) = 1 THEN "converge"
                                              ELSE IF best = {} THEN "split" ELSE "winner"

\* One more trusted claim for the value that is selected never takes the selection away
\* or moves it to another value.
SupportKeeps ==
  \A ns \in Namespaces, ctx \in Contexts :
    LET C == Candidates(ns, ctx)
        won == Outcome(ns, ctx).selected
    IN C # {} /\ won # None /\ trusted' = trusted
       /\ (\A c \in claims' \ claims : c.namespace = ns /\ c.context = ctx => c.value = won)
       => Outcome(ns, ctx)'.selected = won

\* Nothing untrusted counts: what the state selects was claimed by a trusted peer.
SelectedWasClaimed ==
  state # None => \A ctx \in DOMAIN state.outcomes :
    LET s == state.outcomes[ctx].selected
    IN s # None => \E c \in claims : /\ c.namespace = state.namespace /\ c.context = ctx /\ c.value = s
                                     /\ c.by \in trusted /\ c.support >= 1 /\ c.scoped

-----------------------------------------------------------------------------
\* What the documents say and the code does not do (README, section 6).

\* "The final mesh state conforms to deterministic resolution rules."
VerifiedStateCurrent ==
  MeshVerifies /\ state # None => state = Resolved(state.namespace)
=============================================================================
