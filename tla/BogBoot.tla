------------------------------- MODULE BogBoot -------------------------------
(***************************************************************************)
(* BogBoot and BogIRQ (bogboot.py): a device manifest is validated and     *)
(* boots a hardware state, device events become claims that are admitted   *)
(* or quarantined, and verify compares the claim files with the state.  A  *)
(* claim writes the state, then its file, then the ledger entry, and the   *)
(* process may die in between.                                             *)
(***************************************************************************)
EXTENDS Integers, Sequences, FiniteSets, SequencesExt

CONSTANTS Devices, MaxTick,
          MaxCalls, MaxCrashes,      \* bounds: boots and claims, deaths
          Ranges,              \* the memory ranges a manifest may list: [start, size]
          None

VARIABLES manifest, state,     \* device_manifest.json, hardware_state.json
          files,               \* irq_claims/ and quarantine/: <<claim_sequence, claim>>
          pending,             \* the claim of the irq_claim call under way, and how far it got
          recorded,            \* entries of the Genesis ledger
          boots, crashes

vars == <<manifest, state, files, pending, recorded, boots, crashes>>

\* The manifests that may be handed in.
Manifests == [devices : {Devices, Devices \ {"timer"}}, memory : SUBSET Ranges]

\* What the constants are; the MC modules assume it of each instance.
BootAssumption ==
  /\ {"serial", "timer"} \subseteq Devices /\ MaxTick \in Nat /\ MaxCalls \in Nat /\ MaxCrashes \in Nat
  /\ Ranges \subseteq [start : Int, size : Int] /\ IsFiniteSet(Ranges) /\ None \notin Manifests

\* _validate_manifest: the required devices, sound ranges, and no range that starts
\* before the one sorted just before it ends.
Sorted(r, s) == r.start < s.start \/ (r.start = s.start /\ r.size < s.size)

Neighbours(m) ==
  {p \in m.memory \X m.memory :
     Sorted(p[1], p[2]) /\ ~\E t \in m.memory : Sorted(p[1], t) /\ Sorted(t, p[2])}

Apart(m) == \A p \in Neighbours(m) : p[2].start >= p[1].start + p[1].size

Valid(m) ==
  /\ {"serial", "timer"} \subseteq m.devices
  /\ \A r \in m.memory : r.start >= 0 /\ r.size > 0
  /\ Apart(m)

Booted(m) ==
  [manifest |-> m, tick |-> 0, sequence |-> 0, accepted |-> <<>>, quarantined |-> <<>>,
   events |-> [d \in m.devices |-> 0]]

NoCall == [claim |-> None, step |-> "idle"]

Init == /\ manifest = None /\ state = None /\ files = {} /\ pending = NoCall
        /\ recorded = 0 /\ boots = 0 /\ crashes = 0

\* No call is under way, and another one may come: every call ends with its ledger entry
\* or with a death.
Idle == pending.step = "idle" /\ recorded + crashes < MaxCalls

\* boot: a manifest that fails is recorded and leaves the state as it was; one that
\* passes starts a new state beside whatever claim files there are.
Boot(m) ==
  /\ Idle /\ boots' = boots + 1
  /\ IF Valid(m) THEN manifest' = m /\ state' = Booted(m) ELSE UNCHANGED <<manifest, state>>
  /\ recorded' = recorded + 1
  /\ UNCHANGED <<files, pending, crashes>>

\* _load: there is a manifest, and with it the state that boot wrote beside it.
Loads == manifest # None

\* Why irq_claim refuses an event.
Refused_Repeat(source, tick, granted) ==      \* mutant: the same tick may come again
  source \notin manifest.devices \/ ~granted \/ tick < state.tick

Refused(source, tick, granted) ==
  source \notin manifest.devices \/ ~granted \/ tick <= state.tick

\* What the claim makes of the state.
Admitted(claim) ==
  [state EXCEPT !.sequence = @ + 1, !.tick = claim.tick, !.accepted = Append(@, claim),
                !.events[claim.source] = @ + 1]
Quarantined(claim) ==
  [state EXCEPT !.sequence = @ + 1, !.quarantined = Append(@, claim)]

\* irq_claim: state file, claim file, ledger entry.
Claim(source, tick, granted) ==
  LET claim == [source |-> source, tick |-> tick, granted |-> granted, before |-> state]
  IN /\ Loads /\ Idle
     /\ state' = IF Refused(source, tick, granted) THEN Quarantined(claim) ELSE Admitted(claim)
     /\ pending' = [claim |-> claim, step |-> "file"]
     /\ UNCHANGED <<manifest, files, recorded, boots, crashes>>

WriteClaim ==
  /\ pending.step = "file"
  /\ files' = files \cup {<<state.sequence, pending.claim>>}
  /\ pending' = [pending EXCEPT !.step = "record"]
  /\ UNCHANGED <<manifest, state, recorded, boots, crashes>>

Record ==
  /\ pending.step = "record"
  /\ recorded' = recorded + 1 /\ pending' = NoCall
  /\ UNCHANGED <<manifest, state, files, boots, crashes>>

Crash ==
  /\ pending.step # "idle" /\ crashes < MaxCrashes /\ crashes' = crashes + 1
  /\ pending' = NoCall
  /\ UNCHANGED <<manifest, state, files, recorded, boots>>

\* verify: manifest, hashes, and as many claim files as the state has claims.
Verifies == Loads /\ Valid(manifest) /\ state.manifest = manifest /\ Cardinality(files) = state.sequence

Next == \/ \E m \in Manifests : Boot(m)
        \/ \E source \in Devices \cup {"unknown"}, tick \in 0..MaxTick, granted \in BOOLEAN : Claim(source, tick, granted)
        \/ WriteClaim \/ Record \/ Crash

Spec == Init /\ [][Next]_vars

-----------------------------------------------------------------------------
\* The clock and the counters stay in their bounds, and state.json keeps an event list
\* for exactly the devices of the manifest boot accepted.
TypeOK ==
  /\ Loads => state.tick \in 0..MaxTick /\ DOMAIN state.events = manifest.devices
  /\ boots \in 0..MaxCalls /\ crashes \in 0..MaxCrashes /\ recorded \in Nat

\* No two memory ranges of a manifest that booted share an address, in whatever order
\* they were listed.
BootedRangesApart ==
  Loads =>
    \A r, s \in manifest.memory : r # s => r.start + r.size <= s.start \/ s.start + s.size <= r.start

\* Admitted events carry the declared capability, come with ever later ticks, are each
\* counted once, and the clock stands at the last of them: refused events left no trace
\* in what the devices see.
AdmittedInOrder ==
  Loads =>
    LET a == state.accepted IN
    /\ \A i \in DOMAIN a : a[i].granted /\ a[i].source \in manifest.devices
    /\ \A i \in 1..(Len(a) - 1) : a[i].tick < a[i + 1].tick
    /\ state.tick = IF a = <<>> THEN 0 ELSE Last(a).tick
    /\ \A d \in manifest.devices : state.events[d] = Cardinality({i \in DOMAIN a : a[i].source = d})
    /\ state.sequence = Len(a) + Len(state.quarantined)

\* Between calls, the state of a first boot that never crashed verifies.
FirstBootVerifies == Loads /\ pending.step = "idle" /\ boots = 1 /\ crashes = 0 => Verifies

\* When the state of a first boot verifies after a crash, every claim it counts has its
\* file: the numbers cannot agree by accident.
VerifiedClaimsFiled ==
  boots = 1 /\ Verifies => {f[2] : f \in files} = Range(state.accepted) \cup Range(state.quarantined)

-----------------------------------------------------------------------------
\* What the documents say and the code does not do (README, section 6).

\* Every accepted hardware event is in the ledger when the hardware state verifies.
VerifiedIsRecorded == boots = 1 /\ pending.step = "idle" /\ Verifies => recorded = boots + state.sequence

\* `hardware_ledger_verified' after every boot and claim that completed.
BootedVerifies == Loads /\ pending.step = "idle" /\ crashes = 0 => Verifies
=============================================================================
