---------------------------- MODULE AtomicRoots ----------------------------
(***************************************************************************)
(* What a two-slot root store promises.  `store' is the set of roots a     *)
(* mount would accept, `trusted' the root the kernel works on, None while  *)
(* the machine is down.  The root the kernel works on can always be found  *)
(* again, and whatever else can be found is that root after one complete   *)
(* operation, or a root found earlier: never part of an operation.         *)
(***************************************************************************)
CONSTANTS
    Seed,           \* the roots an image may be built with
    None,           \* no root
    After(_)        \* After(r): what one complete operation makes of root r

VARIABLES store, trusted

vars == <<store, trusted>>

Init ==
    /\ store \in {{r} : r \in Seed}
    /\ trusted = None

\* A mount finds one of the roots of the store; bad reads may hide the newest.
Mount ==
    /\ trusted = None
    /\ trusted' \in store
    /\ UNCHANGED store

\* An operation takes effect and is acknowledged; its predecessor stays.
Commit(r) ==
    /\ store' = {trusted, r}
    /\ trusted' = r

\* The other slot is given up, before a commit or because one failed.
Forget ==
    /\ trusted # None
    /\ store' = {trusted}
    /\ UNCHANGED trusted

\* An operation is reported as rejected although it can be found again.
Leak(r) ==
    /\ store' = {trusted, r}
    /\ UNCHANGED trusted

\* Power is lost, at any point of an operation.
Crash ==
    /\ trusted # None
    /\ \/ UNCHANGED store
       \/ store' = {trusted}
       \/ \E r \in After(trusted) : store' = {trusted, r}
    /\ trusted' = None

Next ==
    \/ Mount
    \/ trusted # None /\ \E r \in After(trusted) : Commit(r) \/ Leak(r)
    \/ Forget
    \/ Crash

Spec == Init /\ [][Next]_vars
=============================================================================
