---------------------------- MODULE IpcMailboxes ----------------------------
(***************************************************************************)
(* What the verified IPC of BogKernel promises to its users: a mailbox is  *)
(* opened once with a capacity, takes messages while it has room, and      *)
(* hands each of them over once, in the order in which they were put.      *)
(***************************************************************************)
EXTENDS Naturals, Sequences

CONSTANTS
    Mailbox,        \* the mailboxes there may be
    MaxCapacity,    \* the largest capacity a mailbox may be opened with
    Message         \* the messages there may be

VARIABLES
    capacity,       \* of each mailbox, 0 before it is opened
    box,            \* messages waiting in each mailbox
    taken           \* messages handed over, in order

vars == <<capacity, box, taken>>

Init ==
    /\ capacity = [i \in Mailbox |-> 0]
    /\ box = [i \in Mailbox |-> <<>>]
    /\ taken = [i \in Mailbox |-> <<>>]

Open(i, c) ==
    /\ capacity[i] = 0
    /\ capacity' = [capacity EXCEPT ![i] = c]
    /\ UNCHANGED <<box, taken>>

Put(i, m) ==
    /\ Len(box[i]) < capacity[i]
    /\ box' = [box EXCEPT ![i] = Append(@, m)]
    /\ UNCHANGED <<capacity, taken>>

Take(i) ==
    /\ box[i] # <<>>
    /\ box' = [box EXCEPT ![i] = Tail(@)]
    /\ taken' = [taken EXCEPT ![i] = Append(@, Head(box[i]))]
    /\ UNCHANGED capacity

Next ==
    \E i \in Mailbox :
        \/ \E c \in 1..MaxCapacity : Open(i, c)
        \/ \E m \in Message : Put(i, m)
        \/ Take(i)

Spec == Init /\ [][Next]_vars
=============================================================================
