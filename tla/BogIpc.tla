------------------------------- MODULE BogIpc -------------------------------
(***************************************************************************)
(* The v34 inter-process channels of BogKernel (kernel/bogk-kernel/src/    *)
(* main.rs, IPC_CHANNELS and the system calls 13 to 16).  A channel is a   *)
(* fixed array of messages with a depth, compacted by hand on a receive.   *)
(* System calls run with interrupts off, so each is one step; what         *)
(* interleaves are the calls of different processes, preempted or not, and *)
(* the end of processes that are an endpoint of a channel.                 *)
(*                                                                         *)
(* The bytes and the hash of a payload travel with its message_id, a       *)
(* message is its header.  A refused call changes nothing: it is a         *)
(* stuttering step, and its reasons are the negations of the conjuncts of  *)
(* the call that is accepted.                                              *)
(***************************************************************************)
EXTENDS Integers, Sequences

CONSTANTS
    Pid,                \* process identifiers
    MaxChannels,        \* IPC_MAX_CHANNELS
    MaxMessageSize,     \* IPC_MAX_MESSAGE_SIZE
    MaxQueueDepth,      \* IPC_MAX_QUEUE_DEPTH
    MaxMessages         \* bound: messages ever sent, below the 2^32 of the u32 id

ASSUME IpcAssumption ==
    /\ Pid \subseteq Nat \ {0}
    /\ MaxChannels \in Nat \ {0}
    /\ MaxMessageSize \in Nat \ {0}
    /\ MaxQueueDepth \in Nat \ {0}
    /\ MaxMessages \in Nat

VARIABLES
    life,               \* what IPC sees of each ProcessRecord
    channels,           \* IPC_CHANNELS
    next_channel_id,    \* NEXT_IPC_CHANNEL_ID
    next_message_id,    \* NEXT_IPC_MESSAGE_ID
    received,           \* history: messages delivered from each channel
    known               \* history: what each endpoint may conclude about the depth

vars == <<life, channels, next_channel_id, next_message_id, received, known>>

Index == 1..MaxChannels
Place == 0..(MaxQueueDepth - 1)
Size  == 1..MaxMessageSize
Depth == 1..MaxQueueDepth

EmptyMessage == [message_id |-> 0, from_pid |-> 0, payload_length |-> 0]

EmptyChannel ==
    [used |-> FALSE, channel_id |-> 0, owner_pid |-> 0, peer_pid |-> 0, max_message_size |-> 0,
     max_queue_depth |-> 0, queue_depth |-> 0, messages |-> [k \in Place |-> EmptyMessage]]

Message ==
    [message_id : 1..MaxMessages, from_pid : Pid, payload_length : Size]

\* The messages a channel holds, in order.
Queue(c) == [k \in 1..c.queue_depth |-> c.messages[k - 1]]
-----------------------------------------------------------------------------
Init ==
    /\ life = [p \in Pid |-> "absent"]
    /\ channels = [i \in Index |-> EmptyChannel]
    /\ next_channel_id = 1
    /\ next_message_id = 1
    /\ received = [i \in Index |-> <<>>]
    /\ known = [i \in Index |-> [owner |-> 0, peer |-> 0]]

\* A record is created by run or spawn, or by the dynamic loader, which alone
\* sets dynamic_loader_admitted; a refused load leaves an ended one.
Start(p, kind) ==
    /\ life[p] = "absent"
    /\ life' = [life EXCEPT ![p] = kind]
    /\ UNCHANGED <<channels, next_channel_id, next_message_id, received, known>>

\* The process exits or faults.  Its channels stay.
End(p) ==
    /\ life[p] \in {"spawned", "loaded"}
    /\ life' = [life EXCEPT ![p] = "ended"]
    /\ UNCHANGED <<channels, next_channel_id, next_message_id, received, known>>

\* active_ipc_pid: p runs, and the dynamic loader admitted it.
Authorized(p) == life[p] = "loaded"

ipc_peer_is_eligible(p) == p \in Pid /\ life[p] = "loaded"

\* Mutant: a channel one of whose endpoints has ended counts as free.
free_index_ended ==
    {i \in Index : \/ ~channels[i].used
                   \/ ~ipc_peer_is_eligible(channels[i].owner_pid)}
\* The unused channels; ipc_register_channel takes the first.
free_index == {i \in Index : ~channels[i].used}

\* ipc_register_channel; a peer argument of 0 names the caller.
Register(p, peer, size, depth) ==
    /\ Authorized(p)
    /\ size \in Size /\ depth \in Depth
    /\ ipc_peer_is_eligible(peer)
    /\ \E i \in free_index :
          /\ \A j \in free_index : i <= j
          /\ channels' = [channels EXCEPT ![i] =
                [EmptyChannel EXCEPT !.used = TRUE, !.channel_id = next_channel_id,
                                     !.owner_pid = p, !.peer_pid = peer,
                                     !.max_message_size = size, !.max_queue_depth = depth]]
          /\ known' = [known EXCEPT ![i] = [owner |-> 0, peer |-> 0]]
    /\ next_channel_id' = next_channel_id + 1
    /\ UNCHANGED <<life, next_message_id, received>>

\* ipc_channel_index
ipc_channel_index(id) == {i \in Index : channels[i].used /\ channels[i].channel_id = id}

\* Mutant: the queue takes one message more than the channel was opened for.
has_room_late(c) == c.queue_depth <= c.max_queue_depth /\ c.queue_depth < MaxQueueDepth
\* channel.queue_depth >= channel.max_queue_depth is queue_full.
has_room(c) == c.queue_depth < c.max_queue_depth

\* ipc_send: the payload is copied to the place after the last message.
Send(p, id, length) ==
    /\ Authorized(p)
    /\ next_message_id <= MaxMessages
    /\ \E i \in ipc_channel_index(id) :
          LET c == channels[i] IN
          /\ c.owner_pid = p
          /\ length \in 1..c.max_message_size
          /\ has_room(c)
          /\ ipc_peer_is_eligible(c.peer_pid)
          /\ channels' = [channels EXCEPT
                ![i].messages[c.queue_depth] =
                    [message_id |-> next_message_id, from_pid |-> p, payload_length |-> length],
                ![i].queue_depth = @ + 1]
          /\ known' = [known EXCEPT ![i].owner = @ + 1]
    /\ next_message_id' = next_message_id + 1
    /\ UNCHANGED <<life, next_channel_id, received>>

\* Mutant: the loop over the queue ends one message early.
compacted_short(c) ==
    [k \in Place |-> IF k + 1 < c.queue_depth - 1 THEN c.messages[k + 1]
                     ELSE IF k = c.queue_depth - 1 THEN EmptyMessage ELSE c.messages[k]]
\* Mutant: the vacated place keeps its message.
compacted_dirty(c) ==
    [k \in Place |-> IF k + 1 < c.queue_depth THEN c.messages[k + 1] ELSE c.messages[k]]
\* Every later message moves up one place, the vacated place is emptied.
compacted(c) ==
    [k \in Place |-> IF k + 1 < c.queue_depth THEN c.messages[k + 1]
                     ELSE IF k = c.queue_depth - 1 THEN EmptyMessage ELSE c.messages[k]]

\* Mutant: either endpoint may receive.
may_receive_any(c, p) == p \in {c.peer_pid, c.owner_pid}
\* channel.peer_pid != pid is unauthorized.
may_receive(c, p) == c.peer_pid = p

\* ipc_recv: the first message is copied out, then the queue is compacted.
Recv(p, id, output_len) ==
    /\ Authorized(p)
    /\ \E i \in ipc_channel_index(id) :
          LET c == channels[i] IN
          /\ may_receive(c, p)
          /\ c.queue_depth # 0
          /\ output_len >= c.messages[0].payload_length
          /\ channels' = [channels EXCEPT ![i].messages = compacted(c),
                                          ![i].queue_depth = @ - 1]
          /\ received' = [received EXCEPT ![i] = Append(@, c.messages[0])]
          /\ known' = [known EXCEPT ![i].peer =
                          IF c.peer_pid = p /\ @ > 0 THEN @ - 1 ELSE @]
    /\ UNCHANGED <<life, next_channel_id, next_message_id>>

\* ipc_poll returns the depth to either endpoint.
Poll(p, id) ==
    /\ Authorized(p)
    /\ \E i \in ipc_channel_index(id) :
          LET c == channels[i] IN
          /\ p \in {c.owner_pid, c.peer_pid}
          /\ known' = [known EXCEPT ![i] =
                [owner |-> IF p = c.owner_pid THEN c.queue_depth ELSE @.owner,
                 peer  |-> IF p = c.peer_pid THEN c.queue_depth ELSE @.peer]]
    /\ UNCHANGED <<life, channels, next_channel_id, next_message_id, received>>

Next ==
    \E p \in Pid :
        \/ \E kind \in {"spawned", "loaded", "ended"} : Start(p, kind)
        \/ End(p)
        \/ \E peer \in Pid, size \in Size, depth \in Depth : Register(p, peer, size, depth)
        \/ \E id \in Index :
              \/ \E length \in Size : Send(p, id, length) \/ Recv(p, id, length)
              \/ Poll(p, id)

Spec == Init /\ [][Next]_vars
-----------------------------------------------------------------------------
Channel ==
    [used : BOOLEAN, channel_id : 0..MaxChannels, owner_pid : Pid \cup {0}, peer_pid : Pid \cup {0},
     max_message_size : 0..MaxMessageSize, max_queue_depth : 0..MaxQueueDepth,
     queue_depth : 0..MaxQueueDepth, messages : [Place -> Message \cup {EmptyMessage}]]

\* The channel table keeps its types, and no channel id is given out beyond
\* the number of channels, since no channel is ever released.
TypeOK ==
    /\ life \in [Pid -> {"absent", "spawned", "loaded", "ended"}]
    /\ channels \in [Index -> Channel]
    /\ next_channel_id \in 1..(MaxChannels + 1)
    /\ next_message_id \in 1..(MaxMessages + 1)
    /\ received \in [Index -> Seq(Message)]
    /\ known \in [Index -> [owner : Nat, peer : Nat]]

\* A channel id names one channel for good: ids are given out in the order of
\* the table, so ipc_channel_index finds at most one entry, and an unused entry
\* holds nothing.
TableOrdered ==
    /\ next_channel_id <= MaxChannels + 1
    /\ \A i \in Index :
          IF i < next_channel_id
          THEN /\ channels[i].used /\ channels[i].channel_id = i
               /\ channels[i].owner_pid \in Pid /\ channels[i].peer_pid \in Pid
               /\ channels[i].max_message_size \in Size /\ channels[i].max_queue_depth \in Depth
          ELSE channels[i] = EmptyChannel /\ received[i] = <<>>

\* Exactly the places below queue_depth hold messages, no channel is filled
\* beyond the depth its owner asked for, each message came from the owner and
\* fits the channel, and nothing a process received stays in a vacated place.
SlotsExact ==
    \A i \in Index :
        LET c == channels[i] IN
        /\ c.queue_depth <= c.max_queue_depth
        /\ \A k \in Place :
              IF k < c.queue_depth
              THEN /\ c.messages[k].from_pid = c.owner_pid
                   /\ c.messages[k].payload_length \in 1..c.max_message_size
                   /\ c.messages[k].message_id \in 1..(next_message_id - 1)
              ELSE c.messages[k] = EmptyMessage

\* Delivered and waiting messages of a channel have increasing ids: no message
\* is delivered twice, kept after its delivery or overtaken.
IdsMonotonic ==
    \A i \in Index :
        LET all == received[i] \o Queue(channels[i]) IN
        \A j, k \in DOMAIN all : j < k => all[j].message_id < all[k].message_id

\* Channel ids grow along the table, used entries first, and message ids along every queue:
\* neither is given out twice (ipc_register_channel, ipc_send).
IdsOrdered == TableOrdered /\ IdsMonotonic

\* What an endpoint learnt from ipc_poll stays good until it acts on it: no
\* other process takes a message the peer saw, or fills room the owner saw.
PollHolds ==
    \A i \in Index :
        known[i].peer <= channels[i].queue_depth /\ channels[i].queue_depth <= known[i].owner

\* The endpoints of a channel never change, also when one of them has ended:
\* a message cannot reach a process its sender did not address.
EndpointsFixed ==
    [][\A i \in Index : channels[i].used =>
          /\ channels'[i].used
          /\ channels'[i].channel_id = channels[i].channel_id
          /\ channels'[i].owner_pid = channels[i].owner_pid
          /\ channels'[i].peer_pid = channels[i].peer_pid]_vars

\* The channel table implements bounded mailboxes that deliver each message
\* once and in order.
Mailboxes == INSTANCE IpcMailboxes WITH
    Mailbox     <- Index,
    MaxCapacity <- MaxQueueDepth,
    capacity    <- [i \in Index |-> channels[i].max_queue_depth],
    box         <- [i \in Index |-> Queue(channels[i])],
    taken       <- received

DeliversInOrder == Mailboxes!Spec
=============================================================================
