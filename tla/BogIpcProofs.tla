---------------------------- MODULE BogIpcProofs ----------------------------
(***************************************************************************)
(* Proofs about the IPC channels, for every number of channels, places,    *)
(* processes and messages.  The inductive invariant joins the types, the   *)
(* order of the channel table and the exact filling of each queue: the     *)
(* first two make ipc_channel_index find one entry, the last says which    *)
(* places a send and a compaction touch.                                   *)
(***************************************************************************)
EXTENDS BogIpc, TLAPS

Inv == TypeOK /\ TableOrdered /\ SlotsExact

\* The empty channel and the empty message have their types.
LEMMA EmptyTyped == EmptyChannel \in Channel /\ EmptyMessage \notin Message
  BY IpcAssumption DEF EmptyChannel, EmptyMessage, Channel, Message, Place

\* The initial channel table, with no channel and no message, satisfies Inv.
LEMMA InvInit == Init => Inv
<1> SUFFICES ASSUME Init PROVE Inv
  OBVIOUS
<1>1. TypeOK
  BY IpcAssumption, EmptyTyped DEF Init, TypeOK, Index
<1>2. TableOrdered
  BY IpcAssumption DEF Init, TableOrdered, Index
<1>3. SlotsExact
  BY IpcAssumption DEF Init, SlotsExact, Index, EmptyChannel, Place
<1> QED
  BY <1>1, <1>2, <1>3 DEF Inv

\* Start and End change life only, Poll what its caller knows.
LEMMA LifeStep ==
    ASSUME Inv, NEW p \in Pid,
           \/ \E kind \in {"spawned", "loaded", "ended"} : Start(p, kind)
           \/ End(p)
    PROVE  Inv'
<1> USE DEF Inv
<1>1. life' \in [Pid -> {"absent", "spawned", "loaded", "ended"}]
  BY DEF TypeOK, Start, End
<1>2. UNCHANGED <<channels, next_channel_id, next_message_id, received, known>>
  BY DEF Start, End
<1>3. TypeOK'
  BY <1>1, <1>2 DEF TypeOK
<1>4. TableOrdered' /\ SlotsExact'
  BY <1>2 DEF TableOrdered, SlotsExact
<1> QED
  BY <1>3, <1>4

\* ipc_poll changes no channel, only what its caller knows.
LEMMA PollStep ==
    ASSUME Inv, NEW p \in Pid, NEW id \in Index, Poll(p, id)
    PROVE  Inv'
<1> USE DEF Inv
<1> PICK i \in ipc_channel_index(id) :
       known' = [known EXCEPT ![i] =
                [owner |-> IF p = channels[i].owner_pid THEN channels[i].queue_depth ELSE @.owner,
                 peer  |-> IF p = channels[i].peer_pid THEN channels[i].queue_depth ELSE @.peer]]
  BY DEF Poll
<1>0. UNCHANGED <<life, channels, next_channel_id, next_message_id, received>>
  BY DEF Poll
<1>1. i \in Index /\ channels[i].queue_depth \in Nat
  BY IpcAssumption DEF ipc_channel_index, TypeOK, Channel
<1>2. known' \in [Index -> [owner : Nat, peer : Nat]]
  BY <1>1 DEF TypeOK
<1>3. TypeOK'
  BY <1>0, <1>2 DEF TypeOK
<1>4. TableOrdered' /\ SlotsExact'
  BY <1>0 DEF TableOrdered, SlotsExact
<1> QED
  BY <1>3, <1>4

\* A registration takes the first unused entry, which is entry next_channel_id.
LEMMA RegisterStep ==
    ASSUME Inv, NEW p \in Pid, NEW peer \in Pid, NEW size \in Size, NEW depth \in Depth,
           Register(p, peer, size, depth)
    PROVE  Inv'
<1> USE DEF Inv
<1> DEFINE new == [EmptyChannel EXCEPT !.used = TRUE, !.channel_id = next_channel_id,
                                     !.owner_pid = p, !.peer_pid = peer,
                                     !.max_message_size = size, !.max_queue_depth = depth]
<1> PICK i \in free_index :
          /\ \A j \in free_index : i <= j
          /\ channels' = [channels EXCEPT ![i] = new]
          /\ known' = [known EXCEPT ![i] = [owner |-> 0, peer |-> 0]]
  BY DEF Register
<1>0. UNCHANGED <<life, next_message_id, received>> /\ next_channel_id' = next_channel_id + 1
  BY DEF Register
<1>1. i \in Index /\ ~channels[i].used
  BY DEF free_index
<1>2. i = next_channel_id
  <2>0. ~(i < next_channel_id)
    BY <1>1, Zenon DEF TableOrdered
  <2>1. i \in Nat /\ next_channel_id \in Nat /\ i >= next_channel_id
    BY <2>0, <1>1, IpcAssumption DEF TypeOK, Index
  <2>2. CASE i > next_channel_id
    <3>1. next_channel_id \in Index
      BY <2>1, <2>2, <1>1, IpcAssumption DEF Index, TypeOK
    <3>2. channels[next_channel_id] = EmptyChannel
      BY <3>1, <2>1 DEF TableOrdered
    <3>3. next_channel_id \in free_index
      BY <3>1, <3>2 DEF free_index, EmptyChannel
    <3> QED
      BY <3>3, <2>1, <2>2
  <2> QED
    BY <2>1, <2>2
<1>3. new \in Channel
  <2>1. /\ next_channel_id \in 0..MaxChannels
        /\ size \in 0..MaxMessageSize /\ depth \in 0..MaxQueueDepth
    BY <1>1, <1>2, IpcAssumption DEF Size, Depth, Index
  <2> QED
    BY <2>1, EmptyTyped DEF Channel
<1>4. TypeOK'
  BY <1>0, <1>1, <1>2, <1>3, IpcAssumption, SMTT(30) DEF TypeOK, Index
<1>5. TableOrdered'
  <2>1. next_channel_id' <= MaxChannels + 1
    BY <1>0, <1>1, <1>2, IpcAssumption DEF Index
  <2>2. ASSUME NEW j \in Index
        PROVE  IF j < next_channel_id'
               THEN /\ channels'[j].used /\ channels'[j].channel_id = j
                    /\ channels'[j].owner_pid \in Pid /\ channels'[j].peer_pid \in Pid
                    /\ channels'[j].max_message_size \in Size /\ channels'[j].max_queue_depth \in Depth
               ELSE channels'[j] = EmptyChannel /\ received'[j] = <<>>
    <3>1. CASE j = i
      BY <3>1, <1>0, <1>1, <1>2 DEF TypeOK, EmptyChannel, Index
    <3>2. CASE j # i
      BY <3>2, <1>0, <1>1, <1>2 DEF TypeOK, TableOrdered, Index
    <3> QED
      BY <3>1, <3>2
  <2> QED
    BY <2>1, <2>2 DEF TableOrdered
<1>6. SlotsExact'
  <2> SUFFICES ASSUME NEW j \in Index
        PROVE  /\ channels'[j].queue_depth <= channels'[j].max_queue_depth
               /\ \A k \in Place :
                    IF k < channels'[j].queue_depth
                    THEN /\ channels'[j].messages[k].from_pid = channels'[j].owner_pid
                         /\ channels'[j].messages[k].payload_length \in 1..channels'[j].max_message_size
                         /\ channels'[j].messages[k].message_id \in 1..(next_message_id' - 1)
                    ELSE channels'[j].messages[k] = EmptyMessage
    BY DEF SlotsExact
  <2>1. CASE j = i
    BY <2>1, <1>1, IpcAssumption, SMTT(30) DEF TypeOK, EmptyChannel, Depth, Place
  <2>2. CASE j # i
    BY <2>2, <1>0, <1>1 DEF TypeOK, SlotsExact
  <2> QED
    BY <2>1, <2>2
<1> QED
  BY <1>4, <1>5, <1>6

\* A send fills the first empty place with a fresh message of the owner.
LEMMA SendStep ==
    ASSUME Inv, NEW p \in Pid, NEW id \in Index, NEW length \in Size, Send(p, id, length)
    PROVE  Inv'
<1> USE DEF Inv
<1> DEFINE msg == [message_id |-> next_message_id, from_pid |-> p, payload_length |-> length]
<1> PICK i \in ipc_channel_index(id) :
          /\ channels[i].owner_pid = p
          /\ length \in 1..channels[i].max_message_size
          /\ has_room(channels[i])
          /\ channels' = [channels EXCEPT
                ![i].messages[channels[i].queue_depth] = msg,
                ![i].queue_depth = @ + 1]
          /\ known' = [known EXCEPT ![i].owner = @ + 1]
  BY DEF Send
<1> DEFINE c == channels[i]
           d == [c EXCEPT !.messages = [c.messages EXCEPT ![c.queue_depth] = msg],
                          !.queue_depth = c.queue_depth + 1]
<1>0. /\ UNCHANGED <<life, next_channel_id, received>> /\ next_message_id' = next_message_id + 1
      /\ next_message_id <= MaxMessages
  BY DEF Send
<1>1. i \in Index /\ c.used /\ c \in Channel
  BY DEF ipc_channel_index, TypeOK
<1>2. /\ c.queue_depth \in Place /\ c.queue_depth < c.max_queue_depth
      /\ c.max_queue_depth \in 0..MaxQueueDepth
  BY <1>1, IpcAssumption DEF Channel, has_room, Place
<1>3. msg \in Message
  BY <1>0, IpcAssumption DEF Message, TypeOK
<1>4. channels' = [channels EXCEPT ![i] = d]
  BY <1>1, <1>2 DEF TypeOK, Channel
<1>5. d \in Channel
  <2>1. [c.messages EXCEPT ![c.queue_depth] = msg] \in [Place -> Message \cup {EmptyMessage}]
    BY <1>1, <1>3 DEF Channel
  <2>2. c.queue_depth + 1 \in 0..MaxQueueDepth
    BY <1>2, IpcAssumption DEF Place
  <2> HIDE DEF msg
  <2> QED
    BY <1>1, <2>1, <2>2 DEF Channel
<1>6. known' \in [Index -> [owner : Nat, peer : Nat]]
  BY <1>1, SMTT(30) DEF TypeOK
<1>7. TypeOK'
  <2>1. channels' \in [Index -> Channel]
    <3> HIDE DEF d
    <3> QED
      BY <1>1, <1>4, <1>5 DEF TypeOK
  <2>2. next_message_id' \in 1..(MaxMessages + 1)
    BY <1>0, IpcAssumption DEF TypeOK
  <2> QED
    BY <1>0, <1>6, <2>1, <2>2 DEF TypeOK
<1>8. d.used = c.used /\ d.channel_id = c.channel_id /\ d.owner_pid = c.owner_pid
      /\ d.peer_pid = c.peer_pid /\ d.max_message_size = c.max_message_size
      /\ d.max_queue_depth = c.max_queue_depth /\ d.queue_depth = c.queue_depth + 1
      /\ d.messages = [c.messages EXCEPT ![c.queue_depth] = msg]
  BY <1>1 DEF Channel
<1>9. i < next_channel_id
  BY <1>1 DEF TableOrdered, EmptyChannel
<1>10. channels'[i] = d /\ \A j \in Index \ {i} : channels'[j] = channels[j]
  BY <1>1, <1>4 DEF TypeOK
<1>11. TableOrdered'
  <2> HIDE DEF d
  <2>1. ASSUME NEW j \in Index
        PROVE  IF j < next_channel_id'
               THEN /\ channels'[j].used /\ channels'[j].channel_id = j
                    /\ channels'[j].owner_pid \in Pid /\ channels'[j].peer_pid \in Pid
                    /\ channels'[j].max_message_size \in Size /\ channels'[j].max_queue_depth \in Depth
               ELSE channels'[j] = EmptyChannel /\ received'[j] = <<>>
    <3>1. CASE j = i
      BY <3>1, <1>0, <1>1, <1>8, <1>9, <1>10, ZenonT(60) DEF TableOrdered
    <3>2. CASE j # i
      BY <3>2, <1>0, <1>10, Zenon DEF TableOrdered
    <3> QED
      BY <3>1, <3>2
  <2> QED
    BY <1>0, <2>1 DEF TableOrdered
<1>12. \A x \in 1..(next_message_id - 1) : x \in 1..(next_message_id' - 1)
  <2>1. next_message_id \in Nat
    BY IpcAssumption DEF TypeOK
  <2> QED
    BY <1>0, <2>1
<1>13. SlotsExact'
  <2> SUFFICES ASSUME NEW j \in Index
        PROVE  /\ channels'[j].queue_depth <= channels'[j].max_queue_depth
               /\ \A k \in Place :
                    IF k < channels'[j].queue_depth
                    THEN /\ channels'[j].messages[k].from_pid = channels'[j].owner_pid
                         /\ channels'[j].messages[k].payload_length \in 1..channels'[j].max_message_size
                         /\ channels'[j].messages[k].message_id \in 1..(next_message_id' - 1)
                    ELSE channels'[j].messages[k] = EmptyMessage
    BY DEF SlotsExact
  <2>1. CASE j = i
    <3>1. d.queue_depth <= d.max_queue_depth
      BY <1>2, <1>8, IpcAssumption DEF Place
    <3>2. ASSUME NEW k \in Place
          PROVE  IF k < d.queue_depth
                 THEN /\ d.messages[k].from_pid = d.owner_pid
                      /\ d.messages[k].payload_length \in 1..d.max_message_size
                      /\ d.messages[k].message_id \in 1..(next_message_id' - 1)
                 ELSE d.messages[k] = EmptyMessage
      <4>1. CASE k = c.queue_depth
        <5>1. d.messages[k] = msg
          BY <4>1, <1>1, <1>2, <1>8 DEF Channel
        <5>2. k < d.queue_depth
          BY <4>1, <1>2, <1>8, IpcAssumption DEF Place
        <5>3. next_message_id \in 1..(next_message_id' - 1)
          BY <1>0, IpcAssumption, SMTT(30) DEF TypeOK
        <5> HIDE DEF d
        <5> QED
          BY <5>1, <5>2, <5>3, <1>8
      <4>2. CASE k # c.queue_depth
        <5>1. d.messages[k] = c.messages[k]
          BY <4>2, <1>1, <1>8 DEF Channel
        <5>2. k < d.queue_depth <=> k < c.queue_depth
          BY <4>2, <1>2, <1>8, IpcAssumption, SMTT(30) DEF Place
        <5> HIDE DEF d
        <5> QED
          BY <5>1, <5>2, <1>1, <1>8, <1>12 DEF SlotsExact
      <4> QED
        BY <4>1, <4>2
    <3> QED
      BY <3>1, <3>2, <2>1, <1>10
  <2>2. CASE j # i
    <3>1. channels'[j] = channels[j]
      BY <2>2, <1>10
    <3> QED
      BY <3>1, <1>12 DEF SlotsExact
  <2> QED
    BY <2>1, <2>2, ZenonT(60)
<1> QED
  BY <1>7, <1>11, <1>13

\* A receive moves the later messages up and empties the place behind them.
LEMMA RecvStep ==
    ASSUME Inv, NEW p \in Pid, NEW id \in Index, NEW output_len \in Size, Recv(p, id, output_len)
    PROVE  Inv'
<1> USE DEF Inv
<1> PICK i \in ipc_channel_index(id) :
          /\ channels[i].queue_depth # 0
          /\ channels' = [channels EXCEPT ![i].messages = compacted(channels[i]),
                                          ![i].queue_depth = @ - 1]
          /\ received' = [received EXCEPT ![i] = Append(@, channels[i].messages[0])]
          /\ known' = [known EXCEPT ![i].peer =
                          IF channels[i].peer_pid = p /\ @ > 0 THEN @ - 1 ELSE @]
  BY DEF Recv
<1> DEFINE c == channels[i]
           d == [c EXCEPT !.messages = compacted(c), !.queue_depth = c.queue_depth - 1]
<1>0. UNCHANGED <<life, next_channel_id, next_message_id>>
  BY DEF Recv
<1>1. i \in Index /\ c.used /\ c \in Channel
  BY DEF ipc_channel_index, TypeOK
<1>2. c.queue_depth \in 1..MaxQueueDepth /\ c.queue_depth - 1 \in Place
  BY <1>1, IpcAssumption, SMTT(30) DEF Channel, Place
<1>3. compacted(c) \in [Place -> Message \cup {EmptyMessage}]
  <2>1. c.messages \in [Place -> Message \cup {EmptyMessage}]
    BY <1>1 DEF Channel
  <2>2. \A k \in Place : k + 1 < c.queue_depth => k + 1 \in Place
    BY <1>2, IpcAssumption DEF Place
  <2> QED
    BY <2>1, <2>2 DEF compacted
<1>4. channels' = [channels EXCEPT ![i] = d]
  BY <1>1 DEF TypeOK, Channel
<1>5. d \in Channel
  <2>1. c.queue_depth - 1 \in 0..MaxQueueDepth
    BY <1>2, IpcAssumption
  <2> QED
    BY <1>1, <1>3, <2>1 DEF Channel
<1>6. known' \in [Index -> [owner : Nat, peer : Nat]]
  <2>1. ASSUME NEW n \in Nat
        PROVE  (IF c.peer_pid = p /\ n > 0 THEN n - 1 ELSE n) \in Nat
    OBVIOUS
  <2> QED
    BY <1>1, <2>1 DEF TypeOK
<1>7. d.used = c.used /\ d.channel_id = c.channel_id /\ d.owner_pid = c.owner_pid
      /\ d.peer_pid = c.peer_pid /\ d.max_message_size = c.max_message_size
      /\ d.max_queue_depth = c.max_queue_depth /\ d.queue_depth = c.queue_depth - 1
      /\ d.messages = compacted(c)
  BY <1>1 DEF Channel
<1>8. i < next_channel_id
  BY <1>1 DEF TableOrdered, EmptyChannel
<1>9. channels'[i] = d /\ \A j \in Index \ {i} : channels'[j] = channels[j]
  BY <1>1, <1>4 DEF TypeOK
<1>10. c.messages[0] \in Message
  <2>1. 0 \in Place /\ 0 < c.queue_depth
    BY <1>2, IpcAssumption DEF Place
  <2>2. c.messages[0].from_pid = c.owner_pid /\ c.owner_pid \in Pid
    BY <1>1, <1>8, <2>1, Zenon DEF SlotsExact, TableOrdered
  <2>3. c.messages[0] # EmptyMessage
    BY <2>2, IpcAssumption DEF EmptyMessage
  <2> QED
    BY <1>1, <2>1, <2>3 DEF Channel
<1>11. TypeOK'
  <2>1. channels' \in [Index -> Channel]
    <3> HIDE DEF d
    <3> QED
      BY <1>1, <1>4, <1>5 DEF TypeOK
  <2>2. received' \in [Index -> Seq(Message)]
    <3>1. Append(received[i], c.messages[0]) \in Seq(Message)
      BY <1>1, <1>10 DEF TypeOK
    <3> QED
      BY <1>1, <3>1 DEF TypeOK
  <2> QED
    BY <1>0, <1>6, <2>1, <2>2 DEF TypeOK
<1>12. TableOrdered'
  <2> HIDE DEF d
  <2>1. ASSUME NEW j \in Index
        PROVE  IF j < next_channel_id'
               THEN /\ channels'[j].used /\ channels'[j].channel_id = j
                    /\ channels'[j].owner_pid \in Pid /\ channels'[j].peer_pid \in Pid
                    /\ channels'[j].max_message_size \in Size /\ channels'[j].max_queue_depth \in Depth
               ELSE channels'[j] = EmptyChannel /\ received'[j] = <<>>
    <3>1. CASE j = i
      BY <3>1, <1>0, <1>1, <1>7, <1>8, <1>9, Zenon DEF TableOrdered
    <3>2. CASE j # i
      <4>1. received'[j] = received[j]
        BY <3>2 DEF TypeOK
      <4> QED
        BY <3>2, <4>1, <1>0, <1>9, Zenon DEF TableOrdered
    <3> QED
      BY <3>1, <3>2
  <2> QED
    BY <1>0, <2>1 DEF TableOrdered
<1>13. SlotsExact'
  <2> HIDE DEF d
  <2> SUFFICES ASSUME NEW j \in Index
        PROVE  /\ channels'[j].queue_depth <= channels'[j].max_queue_depth
               /\ \A k \in Place :
                    IF k < channels'[j].queue_depth
                    THEN /\ channels'[j].messages[k].from_pid = channels'[j].owner_pid
                         /\ channels'[j].messages[k].payload_length \in 1..channels'[j].max_message_size
                         /\ channels'[j].messages[k].message_id \in 1..(next_message_id - 1)
                    ELSE channels'[j].messages[k] = EmptyMessage
    BY <1>0 DEF SlotsExact
  <2>1. CASE j = i
    <3>1. d.queue_depth <= d.max_queue_depth
      <4>1. c.queue_depth <= c.max_queue_depth /\ c.max_queue_depth \in 0..MaxQueueDepth
        BY <1>1 DEF SlotsExact, Channel
      <4> QED
        BY <4>1, <1>2, <1>7, IpcAssumption
    <3>2. ASSUME NEW k \in Place
          PROVE  IF k < d.queue_depth
                 THEN /\ d.messages[k].from_pid = d.owner_pid
                      /\ d.messages[k].payload_length \in 1..d.max_message_size
                      /\ d.messages[k].message_id \in 1..(next_message_id - 1)
                 ELSE d.messages[k] = EmptyMessage
      <4>1. CASE k < d.queue_depth
        <5>0. PICK depth : depth = c.queue_depth /\ d.queue_depth = depth - 1 /\ depth \in 1..MaxQueueDepth
          BY <1>2, <1>7, Zenon
        <5>1. k + 1 \in Place /\ k + 1 < c.queue_depth
          <6>1. k + 1 < depth
            BY <4>1, <5>0, IpcAssumption DEF Place
          <6> QED
            BY <5>0, <6>1, IpcAssumption DEF Place
        <5>2. d.messages[k] = c.messages[k + 1]
          BY <5>1, <1>7 DEF compacted
        <5> QED
          BY <4>1, <5>1, <5>2, <1>1, <1>7 DEF SlotsExact
      <4>2. CASE ~(k < d.queue_depth)
        <5>1. ~(k + 1 < c.queue_depth) /\ (k # c.queue_depth - 1 => ~(k < c.queue_depth))
          BY <4>2, <1>2, <1>7, IpcAssumption DEF Place
        <5>2. k # c.queue_depth - 1 => c.messages[k] = EmptyMessage
          BY <5>1, <1>1 DEF SlotsExact
        <5>3. d.messages[k] = EmptyMessage
          BY <5>1, <5>2, <1>7 DEF compacted
        <5> QED
          BY <4>2, <5>3
      <4> QED
        BY <4>1, <4>2
    <3> QED
      BY <3>1, <3>2, <2>1, <1>9
  <2>2. CASE j # i
    <3>1. channels'[j] = channels[j]
      BY <2>2, <1>9
    <3> QED
      BY <3>1 DEF SlotsExact
  <2> QED
    BY <2>1, <2>2
<1> QED
  BY <1>11, <1>12, <1>13

\* Inv is an invariant: every accepted call preserves it.
THEOREM InvInvariant == Spec => []Inv
<1>1. ASSUME Inv, [Next]_vars PROVE Inv'
  <2>1. CASE UNCHANGED vars
    BY <1>1, <2>1 DEF vars, Inv, TypeOK, TableOrdered, SlotsExact
  <2>2. CASE Next
    BY <1>1, <2>2, LifeStep, RegisterStep, SendStep, RecvStep, PollStep DEF Next
  <2> QED
    BY <1>1, <2>1, <2>2
<1> QED
  BY InvInit, <1>1, PTL DEF Spec

\* The channel table keeps its types for any number of channels and places; in
\* particular channel ids never run past the table, as none is released.
THEOREM TypeCorrect == Spec => []TypeOK
  BY InvInvariant, PTL DEF Inv

\* Each channel holds its owner's messages in its first queue_depth places, at
\* most as many as its owner asked for, and nothing behind them.
THEOREM QueuesExact == Spec => []SlotsExact
  BY InvInvariant, PTL DEF Inv

-----------------------------------------------------------------------------
(* The channel table implements IpcMailboxes.                              *)

\* The waiting messages of a channel form a sequence of messages as long as
\* queue_depth says.
LEMMA QueueTyped ==
    ASSUME Inv, NEW i \in Index
    PROVE  /\ Queue(channels[i]) \in Seq(Message)
           /\ Len(Queue(channels[i])) = channels[i].queue_depth
           /\ channels[i].queue_depth \in 0..MaxQueueDepth
<1> USE DEF Inv
<1> DEFINE c == channels[i]
<1>1. c \in Channel /\ c.queue_depth \in 0..MaxQueueDepth
  BY DEF TypeOK, Channel
<1>2. ASSUME NEW k \in 1..c.queue_depth PROVE c.messages[k - 1] \in Message
  <2>1. k - 1 \in Place /\ k - 1 < c.queue_depth
    BY <1>1, IpcAssumption DEF Place
  <2>2. i < next_channel_id
    BY <1>1, <2>1 DEF TableOrdered, EmptyChannel, TypeOK, Index
  <2>3. c.messages[k - 1].from_pid = c.owner_pid /\ c.owner_pid \in Pid
    BY <2>1, <2>2, Zenon DEF SlotsExact, TableOrdered
  <2>4. c.messages[k - 1] # EmptyMessage
    BY <2>3, IpcAssumption DEF EmptyMessage
  <2> QED
    BY <1>1, <2>1, <2>4 DEF Channel
<1> QED
  BY <1>1, <1>2 DEF Queue

\* An array with one more entry is the sequence with that entry appended.
LEMMA QueueAppend ==
    ASSUME NEW S, NEW n \in Nat, NEW f, NEW g, NEW x \in S,
           \A k \in 1..n : f[k - 1] \in S /\ g[k - 1] = f[k - 1],
           g[n] = x
    PROVE  [k \in 1..(n + 1) |-> g[k - 1]] = Append([k \in 1..n |-> f[k - 1]], x)
<1> DEFINE q == [k \in 1..n |-> f[k - 1]]
           r == [k \in 1..(n + 1) |-> g[k - 1]]
<1>1. q \in Seq(S) /\ Len(q) = n
  OBVIOUS
<1>2. Append(q, x) \in Seq(S) /\ Len(Append(q, x)) = n + 1
  BY <1>1
<1>3. r \in Seq(S) /\ Len(r) = n + 1
  OBVIOUS
<1>4. \A k \in 1..(n + 1) : r[k] = Append(q, x)[k]
  BY <1>1
<1> QED
  BY <1>2, <1>3, <1>4

\* An array moved up one entry is the tail of the sequence.
LEMMA QueueTail ==
    ASSUME NEW S, NEW n \in Nat \ {0}, NEW f, NEW g,
           \A k \in 1..n : f[k - 1] \in S,
           \A k \in 1..(n - 1) : g[k - 1] = f[k]
    PROVE  /\ [k \in 1..(n - 1) |-> g[k - 1]] = Tail([k \in 1..n |-> f[k - 1]])
           /\ Head([k \in 1..n |-> f[k - 1]]) = f[0]
           /\ [k \in 1..n |-> f[k - 1]] # <<>>
<1> DEFINE q == [k \in 1..n |-> f[k - 1]]
           r == [k \in 1..(n - 1) |-> g[k - 1]]
<1>1. q \in Seq(S) /\ Len(q) = n /\ q # <<>>
  OBVIOUS
<1>2. Tail(q) \in Seq(S) /\ Len(Tail(q)) = n - 1 /\ Head(q) = f[0]
  <2>1. q[1] = f[0]
    <3>1. 1 \in 1..n /\ 1 - 1 = 0
      OBVIOUS
    <3> QED
      BY <3>1
  <2> HIDE DEF q
  <2>2. Tail(q) \in Seq(S) /\ Len(Tail(q)) = n - 1
    BY <1>1
  <2>3. Head(q) = q[1]
    BY <1>1
  <2> QED
    BY <2>1, <2>2, <2>3
<1>3. r \in Seq(S) /\ Len(r) = n - 1
  <2>1. \A k \in 1..(n - 1) : g[k - 1] \in S
    <3> TAKE k \in 1..(n - 1)
    <3>1. k + 1 \in 1..n /\ (k + 1) - 1 = k
      OBVIOUS
    <3> QED
      BY <3>1
  <2> QED
    BY <2>1
<1>4. \A k \in 1..(n - 1) : r[k] = Tail(q)[k]
  BY <1>1
<1> QED
  BY <1>1, <1>2, <1>3, <1>4

\* Start, End and Poll leave the mailboxes alone.
LEMMA SilentStep ==
    ASSUME UNCHANGED <<channels, received>>
    PROVE  UNCHANGED Mailboxes!vars
  BY DEF Mailboxes!vars

\* A registration opens the mailbox of its entry.
LEMMA OpenStep ==
    ASSUME Inv, Inv', NEW p \in Pid, NEW peer \in Pid, NEW size \in Size, NEW depth \in Depth,
           Register(p, peer, size, depth)
    PROVE  \E i \in Index : Mailboxes!Open(i, depth)
<1> USE DEF Inv
<1> DEFINE new == [EmptyChannel EXCEPT !.used = TRUE, !.channel_id = next_channel_id,
                                     !.owner_pid = p, !.peer_pid = peer,
                                     !.max_message_size = size, !.max_queue_depth = depth]
<1> PICK i \in free_index : channels' = [channels EXCEPT ![i] = new]
  BY DEF Register
<1>1. i \in Index /\ ~channels[i].used /\ received' = received
  BY DEF free_index, Register
<1>2. channels[i] = EmptyChannel
  BY <1>1, Zenon DEF TableOrdered
<1>3. channels'[i] = new /\ \A j \in Index \ {i} : channels'[j] = channels[j]
  BY <1>1 DEF TypeOK
<1>4. new.max_queue_depth = depth /\ new.queue_depth = 0 /\ new.messages = EmptyChannel.messages
  BY DEF EmptyChannel
<1>5. EmptyChannel.max_queue_depth = 0 /\ EmptyChannel.queue_depth = 0
  BY DEF EmptyChannel
<1> HIDE DEF new
<1>6. \A j \in Index : Queue(channels'[j]) = Queue(channels[j])
  BY <1>2, <1>3, <1>4, <1>5 DEF Queue
<1>7. [j \in Index |-> channels'[j].max_queue_depth]
        = [[j \in Index |-> channels[j].max_queue_depth] EXCEPT ![i] = depth]
  <2>1. \A j \in Index : channels'[j].max_queue_depth
                           = IF j = i THEN depth ELSE channels[j].max_queue_depth
    BY <1>3, <1>4
  <2> QED
    BY <1>1, <2>1, Zenon
<1>8. Mailboxes!Open(i, depth)
  BY <1>1, <1>2, <1>5, <1>6, <1>7 DEF Mailboxes!Open
<1> QED
  BY <1>1, <1>8

\* A send puts its message at the end of the mailbox.
LEMMA PutStep ==
    ASSUME Inv, Inv', NEW p \in Pid, NEW id \in Index, NEW length \in Size, Send(p, id, length)
    PROVE  \E i \in Index, m \in Message : m.message_id = next_message_id /\ Mailboxes!Put(i, m)
<1> USE DEF Inv
<1> DEFINE msg == [message_id |-> next_message_id, from_pid |-> p, payload_length |-> length]
<1> PICK i \in ipc_channel_index(id) :
          /\ has_room(channels[i])
          /\ channels' = [channels EXCEPT
                ![i].messages[channels[i].queue_depth] = msg,
                ![i].queue_depth = @ + 1]
  BY DEF Send
<1> DEFINE c == channels[i]
           d == channels'[i]
<1>1. i \in Index /\ c \in Channel /\ received' = received /\ next_message_id <= MaxMessages
  BY DEF ipc_channel_index, TypeOK, Send
<1>2. /\ c.queue_depth \in Nat /\ c.queue_depth \in Place /\ c.queue_depth < c.max_queue_depth
  BY <1>1, IpcAssumption DEF Channel, has_room, Place
<1>3. msg \in Message
  BY <1>1, IpcAssumption DEF Message, TypeOK
<1>4. d.queue_depth = c.queue_depth + 1 /\ d.max_queue_depth = c.max_queue_depth
      /\ d.messages = [c.messages EXCEPT ![c.queue_depth] = msg]
  BY <1>1 DEF TypeOK, Channel
<1>5. \A j \in Index \ {i} : channels'[j] = channels[j]
  BY DEF TypeOK
<1> HIDE DEF msg, d
<1>6. Queue(d) = Append(Queue(c), msg)
  <2>1. \A k \in 1..c.queue_depth :
           c.messages[k - 1] \in Message /\ d.messages[k - 1] = c.messages[k - 1]
    <3>1. Queue(c) \in Seq(Message) /\ Len(Queue(c)) = c.queue_depth
      BY <1>1, QueueTyped
    <3> TAKE k \in 1..c.queue_depth
    <3>2. Queue(c)[k] \in Message
      BY <3>1
    <3>3. k - 1 \in Place /\ k - 1 # c.queue_depth
      BY <1>2, IpcAssumption DEF Place
    <3> QED
      BY <3>2, <3>3, <1>1, <1>4 DEF Queue, Channel
  <2>2. d.messages[c.queue_depth] = msg
    BY <1>1, <1>2, <1>4 DEF Channel
  <2> QED
    BY <1>2, <1>3, <1>4, <2>1, <2>2, QueueAppend DEF Queue
<1>7. [j \in Index |-> Queue(channels'[j])]
        = [[j \in Index |-> Queue(channels[j])] EXCEPT ![i] = Append(@, msg)]
  <2>1. \A j \in Index : Queue(channels'[j]) = IF j = i THEN Append(Queue(c), msg) ELSE Queue(channels[j])
    <3> TAKE j \in Index
    <3>1. CASE j = i
      BY <3>1, <1>6 DEF d
    <3>2. CASE j # i
      <4>1. channels'[j] = channels[j]
        BY <3>2, <1>5
      <4> QED
        BY <3>2, <4>1
    <3> QED
      BY <3>1, <3>2
  <2> QED
    BY <1>1, <2>1, Zenon
<1>8. [j \in Index |-> channels'[j].max_queue_depth] = [j \in Index |-> channels[j].max_queue_depth]
  <2>1. \A j \in Index : channels'[j].max_queue_depth = channels[j].max_queue_depth
    BY <1>4, <1>5 DEF d
  <2> QED
    BY <2>1, Zenon
<1>9. Len(Queue(c)) < c.max_queue_depth
  BY <1>1, <1>2, QueueTyped
<1>10. Mailboxes!Put(i, msg)
  BY <1>1, <1>7, <1>8, <1>9 DEF Mailboxes!Put
<1> QED
  <2>1. msg.message_id = next_message_id
    BY DEF msg
  <2> QED
    BY <1>1, <1>3, <1>10, <2>1

\* A receive takes the first message of the mailbox.
LEMMA TakeStep ==
    ASSUME Inv, Inv', NEW p \in Pid, NEW id \in Index, NEW output_len \in Size, Recv(p, id, output_len)
    PROVE  \E i \in Index : Mailboxes!Take(i)
<1> USE DEF Inv
<1> PICK i \in ipc_channel_index(id) :
          /\ channels[i].queue_depth # 0
          /\ channels' = [channels EXCEPT ![i].messages = compacted(channels[i]),
                                          ![i].queue_depth = @ - 1]
          /\ received' = [received EXCEPT ![i] = Append(@, channels[i].messages[0])]
  BY DEF Recv
<1> DEFINE c == channels[i]
           d == channels'[i]
<1>1. i \in Index /\ c \in Channel
  BY DEF ipc_channel_index, TypeOK
<1>2. c.queue_depth \in Nat \ {0} /\ c.queue_depth \in 1..MaxQueueDepth
  BY <1>1, IpcAssumption DEF Channel
<1>3. d.queue_depth = c.queue_depth - 1 /\ d.max_queue_depth = c.max_queue_depth
      /\ d.messages = compacted(c)
  BY <1>1 DEF TypeOK, Channel
<1>4. \A j \in Index \ {i} : channels'[j] = channels[j]
  BY DEF TypeOK
<1> HIDE DEF d
<1>5. Queue(d) = Tail(Queue(c)) /\ Head(Queue(c)) = c.messages[0] /\ Queue(c) # <<>>
  <2>1. \A k \in 1..c.queue_depth : c.messages[k - 1] \in Message
    <3>1. Queue(c) \in Seq(Message) /\ Len(Queue(c)) = c.queue_depth
      BY <1>1, QueueTyped
    <3> TAKE k \in 1..c.queue_depth
    <3>2. Queue(c)[k] \in Message
      BY <3>1
    <3> QED
      BY <3>2 DEF Queue
  <2>2. \A k \in 1..(c.queue_depth - 1) : d.messages[k - 1] = c.messages[k]
    <3> TAKE k \in 1..(c.queue_depth - 1)
    <3>1. k - 1 \in Place /\ (k - 1) + 1 = k /\ k < c.queue_depth
      BY <1>2, IpcAssumption DEF Place
    <3> QED
      BY <3>1, <1>3 DEF compacted
  <2> QED
    BY <1>2, <1>3, <2>1, <2>2, QueueTail DEF Queue
<1>6. [j \in Index |-> Queue(channels'[j])]
        = [[j \in Index |-> Queue(channels[j])] EXCEPT ![i] = Tail(@)]
  <2>1. \A j \in Index : Queue(channels'[j]) = IF j = i THEN Tail(Queue(c)) ELSE Queue(channels[j])
    <3> TAKE j \in Index
    <3>1. CASE j = i
      BY <3>1, <1>5 DEF d
    <3>2. CASE j # i
      <4>1. channels'[j] = channels[j]
        BY <3>2, <1>4
      <4> QED
        BY <3>2, <4>1
    <3> QED
      BY <3>1, <3>2
  <2> QED
    BY <1>1, <2>1, Zenon
<1>7. [j \in Index |-> channels'[j].max_queue_depth] = [j \in Index |-> channels[j].max_queue_depth]
  <2>1. \A j \in Index : channels'[j].max_queue_depth = channels[j].max_queue_depth
    BY <1>3, <1>4 DEF d
  <2> QED
    BY <2>1, Zenon
<1>8. Mailboxes!Take(i)
  BY <1>1, <1>5, <1>6, <1>7 DEF Mailboxes!Take
<1> QED
  BY <1>1, <1>8

\* The hand-compacted channel arrays deliver like bounded mailboxes: each
\* message once, in the order of its sending, whatever the sizes and whichever
\* processes end meanwhile.
THEOREM ImplementsMailboxes == Spec => DeliversInOrder
<1>1. Init => Mailboxes!Init
  <2> SUFFICES ASSUME Init PROVE Mailboxes!Init
    OBVIOUS
  <2>1. EmptyChannel.max_queue_depth = 0 /\ EmptyChannel.queue_depth = 0
    BY DEF EmptyChannel
  <2>2. Queue(EmptyChannel) = <<>>
    BY <2>1 DEF Queue
  <2> QED
    BY <2>1, <2>2 DEF Init, Mailboxes!Init
<1>2. ASSUME Inv, Inv', [Next]_vars PROVE [Mailboxes!Next]_(Mailboxes!vars)
  <2>1. CASE UNCHANGED vars
    BY <2>1, SilentStep DEF vars
  <2>2. ASSUME NEW p \in Pid, \/ \E kind \in {"spawned", "loaded", "ended"} : Start(p, kind)
                              \/ End(p)
                              \/ \E id \in Index : Poll(p, id)
        PROVE  UNCHANGED Mailboxes!vars
    <3>1. UNCHANGED <<channels, received>>
      BY <2>2 DEF Start, End, Poll
    <3> QED
      BY <3>1, SilentStep
  <2>3. CASE Next
    BY <1>2, <2>2, <2>3, OpenStep, PutStep, TakeStep DEF Next, Mailboxes!Next, Depth
  <2> QED
    BY <1>2, <2>1, <2>3
<1> QED
  BY <1>1, <1>2, InvInvariant, PTL DEF Spec, DeliversInOrder, Mailboxes!Spec

-----------------------------------------------------------------------------
(* The ids along a channel grow: what the mailboxes do to the sequence of  *)
(* all its messages, delivered and waiting.                                *)

\* Every message of a channel, delivered or waiting.
All(i) == received[i] \o Queue(channels[i])

\* The ids of s grow and are all below n.
Growing(s, n) ==
    /\ \A j \in DOMAIN s : s[j].message_id < n
    /\ \A j, k \in DOMAIN s : j < k => s[j].message_id < s[k].message_id

\* IdsMonotonic, and the next id is above every id given out.
IdsInv == \A i \in Index : Growing(All(i), next_message_id)

\* Putting a message behind the waiting ones puts it behind all of them.
LEMMA PutBehind ==
    ASSUME NEW S, NEW s \in Seq(S), NEW t \in Seq(S), NEW m \in S
    PROVE  s \o Append(t, m) = Append(s \o t, m)
<1> DEFINE u == s \o Append(t, m)
           v == Append(s \o t, m)
<1>1. u \in Seq(S) /\ v \in Seq(S) /\ Len(u) = Len(v)
  OBVIOUS
<1>2. \A k \in 1..Len(u) : u[k] = v[k]
  OBVIOUS
<1> QED
  BY <1>1, <1>2

\* Handing the first waiting message over leaves the sequence of all messages as it is.
LEMMA TakeKeepsAll ==
    ASSUME NEW S, NEW s \in Seq(S), NEW t \in Seq(S), t # <<>>
    PROVE  Append(s, Head(t)) \o Tail(t) = s \o t
<1> DEFINE u == Append(s, Head(t)) \o Tail(t)
           v == s \o t
<1>1. Head(t) \in S /\ Tail(t) \in Seq(S) /\ Len(Tail(t)) = Len(t) - 1 /\ Len(t) > 0
  OBVIOUS
<1>2. u \in Seq(S) /\ v \in Seq(S) /\ Len(u) = Len(v)
  BY <1>1
<1>3. \A k \in 1..Len(u) : u[k] = v[k]
  BY <1>1
<1> QED
  BY <1>2, <1>3

\* The id of a message is a number.
LEMMA IdTyped ==
    ASSUME NEW m \in Message
    PROVE  m.message_id \in Int
<1>1. m.message_id \in 1..MaxMessages
  BY DEF Message
<1> QED
  BY <1>1, IpcAssumption

\* A sequence stays growing when a message with the next id is appended.
LEMMA GrowingAppend ==
    ASSUME NEW s \in Seq(Message), NEW n \in Nat, Growing(s, n),
           NEW m \in Message, m.message_id = n
    PROVE  Growing(Append(s, m), n + 1)
<1>1. Append(s, m) \in Seq(Message) /\ DOMAIN Append(s, m) = 1..(Len(s) + 1) /\ DOMAIN s = 1..Len(s)
  OBVIOUS
<1>2. \A j \in 1..(Len(s) + 1) : Append(s, m)[j] = IF j = Len(s) + 1 THEN m ELSE s[j]
  OBVIOUS
<1>3. \A j \in 1..Len(s) : s[j].message_id \in Int
  BY IdTyped
<1>4. Len(s) \in Nat
  OBVIOUS
<1> DEFINE t == Append(s, m)
<1> HIDE DEF t
<1>5. ASSUME NEW j \in 1..(Len(s) + 1) PROVE t[j].message_id < n + 1
  BY <1>1, <1>2, <1>3, <1>4 DEF Growing, t
<1>6. ASSUME NEW j \in 1..(Len(s) + 1), NEW k \in 1..(Len(s) + 1), j < k
      PROVE  t[j].message_id < t[k].message_id
  <2>1. j \in 1..Len(s) /\ t[j] = s[j]
    BY <1>2, <1>4, <1>6 DEF t
  <2>2. CASE k = Len(s) + 1
    BY <1>1, <1>2, <2>1, <2>2 DEF Growing, t
  <2>3. CASE k # Len(s) + 1
    BY <1>1, <1>2, <1>4, <1>6, <2>1, <2>3 DEF Growing, t
  <2> QED
    BY <2>2, <2>3
<1>7. DOMAIN t = 1..(Len(s) + 1)
  BY <1>1 DEF t
<1>8. Growing(t, n + 1)
  BY <1>5, <1>6, <1>7 DEF Growing
<1> QED
  BY <1>8 DEF t

\* Delivered and waiting messages together are a sequence of messages.
LEMMA AllTyped ==
    ASSUME Inv, NEW i \in Index
    PROVE  /\ received[i] \in Seq(Message) /\ Queue(channels[i]) \in Seq(Message)
           /\ All(i) \in Seq(Message)
  BY QueueTyped DEF Inv, TypeOK, All

\* Every step keeps the ids of every channel growing.
LEMMA IdsStep == Inv /\ Inv' /\ IdsInv /\ [Next]_vars => IdsInv'
<1> SUFFICES ASSUME Inv, Inv', IdsInv, [Next]_vars, NEW j \in Index
             PROVE  Growing(All(j), next_message_id)'
  BY DEF IdsInv
<1>0. next_message_id \in Nat /\ Growing(All(j), next_message_id)
  BY IpcAssumption DEF Inv, TypeOK, IdsInv
<1>1. CASE UNCHANGED <<channels, received, next_message_id>>
  BY <1>0, <1>1 DEF All
<1>2. ASSUME NEW p \in Pid, NEW peer \in Pid, NEW size \in Size, NEW depth \in Depth,
             Register(p, peer, size, depth)
      PROVE  Growing(All(j), next_message_id)'
  <2>1. PICK i \in Index : Mailboxes!Open(i, depth)
    BY <1>2, OpenStep
  <2>2. [k \in Index |-> Queue(channels[k])]' = [k \in Index |-> Queue(channels[k])] /\ received' = received
    BY <2>1 DEF Mailboxes!Open
  <2>3. Queue(channels'[j]) = Queue(channels[j])
    BY <2>2
  <2>4. next_message_id' = next_message_id
    BY <1>2 DEF Register
  <2> QED
    BY <1>0, <2>2, <2>3, <2>4 DEF All
<1>3. ASSUME NEW p \in Pid, NEW id \in Index, NEW length \in Size, Send(p, id, length)
      PROVE  Growing(All(j), next_message_id)'
  <2>1. PICK i \in Index, m \in Message : m.message_id = next_message_id /\ Mailboxes!Put(i, m)
    BY <1>3, PutStep
  <2>2. /\ [k \in Index |-> Queue(channels[k])]'
              = [[k \in Index |-> Queue(channels[k])] EXCEPT ![i] = Append(@, m)]
        /\ received' = received /\ next_message_id' = next_message_id + 1
    BY <1>3, <2>1 DEF Mailboxes!Put, Send
  <2>3. CASE j = i
    <3>1. Queue(channels'[j]) = Append(Queue(channels[j]), m)
      BY <2>2, <2>3, Zenon
    <3>2. All(j)' = Append(All(j), m)
      <4>1. All(j)' = received[j] \o Append(Queue(channels[j]), m)
        BY <2>2, <3>1 DEF All
      <4>2. received[j] \o Append(Queue(channels[j]), m) = Append(received[j] \o Queue(channels[j]), m)
        <5>1. received[j] \in Seq(Message) /\ Queue(channels[j]) \in Seq(Message)
          BY AllTyped
        <5>2. \A s, t \in Seq(Message) : s \o Append(t, m) = Append(s \o t, m)
          BY <2>1, PutBehind
        <5> QED
          BY <5>1, <5>2, Zenon
      <4> QED
        BY <4>1, <4>2 DEF All
    <3> QED
      BY <1>0, <2>1, <2>2, <3>2, AllTyped, GrowingAppend
  <2>4. CASE j # i
    <3>1. Queue(channels'[j]) = Queue(channels[j])
      BY <2>2, <2>4, Zenon
    <3>2. All(j)' = All(j)
      BY <2>2, <3>1 DEF All
    <3>3. \A k \in DOMAIN All(j) : All(j)[k].message_id \in Int
      BY AllTyped, IdTyped
    <3> QED
      BY <1>0, <2>2, <3>2, <3>3 DEF Growing
  <2> QED
    BY <2>3, <2>4
<1>4. ASSUME NEW p \in Pid, NEW id \in Index, NEW output_len \in Size, Recv(p, id, output_len)
      PROVE  Growing(All(j), next_message_id)'
  <2>1. PICK i \in Index : Mailboxes!Take(i)
    BY <1>4, TakeStep
  <2>2. /\ [k \in Index |-> Queue(channels[k])][i] # <<>>
        /\ [k \in Index |-> Queue(channels[k])]'
              = [[k \in Index |-> Queue(channels[k])] EXCEPT ![i] = Tail(@)]
        /\ received' = [received EXCEPT ![i] = Append(@, Head([k \in Index |-> Queue(channels[k])][i]))]
        /\ next_message_id' = next_message_id
    BY <1>4, <2>1 DEF Mailboxes!Take, Recv
  <2>3. All(j)' = All(j)
    <3>1. CASE j = i
      <4>1. /\ Queue(channels[j]) # <<>> /\ Queue(channels'[j]) = Tail(Queue(channels[j]))
            /\ received'[j] = Append(received[j], Head(Queue(channels[j])))
        BY <2>2, <3>1 DEF Inv, TypeOK
      <4> QED
        BY <4>1, AllTyped, TakeKeepsAll DEF All
    <3>2. CASE j # i
      <4>1. Queue(channels'[j]) = Queue(channels[j]) /\ received'[j] = received[j]
        BY <2>2, <3>2 DEF Inv, TypeOK
      <4> QED
        BY <4>1 DEF All
    <3> QED
      BY <3>1, <3>2
  <2> QED
    BY <1>0, <2>2, <2>3
<1>5. CASE Next
  BY <1>1, <1>2, <1>3, <1>4, <1>5 DEF Next, Start, End, Poll
<1>6. CASE UNCHANGED vars
  BY <1>1, <1>6 DEF vars
<1> QED
  BY <1>5, <1>6

\* Channel ids follow the table and message ids grow along every channel, delivered and
\* waiting messages together (IdsOrdered): no message is delivered twice, overtaken, or
\* kept after its delivery.
THEOREM IdsNeverRepeat == Spec => []IdsOrdered
<1>1. Init => IdsInv
  <2> SUFFICES ASSUME Init, NEW i \in Index PROVE Growing(All(i), next_message_id)
    BY DEF IdsInv
  <2>1. received[i] = <<>> /\ channels[i] = EmptyChannel
    BY DEF Init
  <2>2. Queue(channels[i]) = <<>>
    BY <2>1 DEF Queue, EmptyChannel
  <2>3. All(i) = <<>>
    BY <2>1, <2>2 DEF All
  <2> QED
    BY <2>3 DEF Growing
<1>2. Inv /\ IdsInv => IdsOrdered
  BY DEF Inv, IdsInv, IdsOrdered, IdsMonotonic, Growing, All
<1> QED
  BY <1>1, <1>2, InvInvariant, IdsStep, PTL DEF Spec

-----------------------------------------------------------------------------
(* What an endpoint may conclude from a poll.                              *)

\* Every accepted call keeps what both endpoints know of a depth true.
LEMMA PollHoldsStep ==
    ASSUME Inv, PollHolds, Next
    PROVE  PollHolds'
<1> USE DEF Inv
<1> PICK p \in Pid :
        \/ \E kind \in {"spawned", "loaded", "ended"} : Start(p, kind)
        \/ End(p)
        \/ \E peer \in Pid, size \in Size, depth \in Depth : Register(p, peer, size, depth)
        \/ \E id \in Index :
              \/ \E length \in Size : Send(p, id, length) \/ Recv(p, id, length)
              \/ Poll(p, id)
  BY DEF Next
<1> SUFFICES ASSUME NEW j \in Index
             PROVE  /\ known'[j].peer <= channels'[j].queue_depth
                    /\ channels'[j].queue_depth <= known'[j].owner
  BY DEF PollHolds
<1> DEFINE c == channels[j]
<1>0. /\ c \in Channel /\ c.queue_depth \in Nat
      /\ known[j] \in [owner : Nat, peer : Nat]
      /\ known[j].peer <= c.queue_depth /\ c.queue_depth <= known[j].owner
  BY IpcAssumption DEF TypeOK, Channel, PollHolds
<1>1. CASE (\E kind \in {"spawned", "loaded", "ended"} : Start(p, kind)) \/ End(p)
  BY <1>0, <1>1 DEF Start, End
<1>2. ASSUME NEW peer \in Pid, NEW size \in Size, NEW depth \in Depth, Register(p, peer, size, depth)
      PROVE  known'[j].peer <= channels'[j].queue_depth /\ channels'[j].queue_depth <= known'[j].owner
  <2> DEFINE new == [EmptyChannel EXCEPT !.used = TRUE, !.channel_id = next_channel_id,
                                     !.owner_pid = p, !.peer_pid = peer,
                                     !.max_message_size = size, !.max_queue_depth = depth]
  <2> PICK i \in Index :
          /\ channels' = [channels EXCEPT ![i] = new]
          /\ known' = [known EXCEPT ![i] = [owner |-> 0, peer |-> 0]]
    BY <1>2 DEF Register, free_index
  <2>1. new.queue_depth = 0
    BY DEF EmptyChannel
  <2> HIDE DEF new
  <2> QED
    BY <1>0, <2>1 DEF TypeOK
<1>3. ASSUME NEW id \in Index, NEW length \in Size, Send(p, id, length)
      PROVE  known'[j].peer <= channels'[j].queue_depth /\ channels'[j].queue_depth <= known'[j].owner
  <2> PICK i \in Index :
          /\ channels' = [channels EXCEPT
                ![i].messages[channels[i].queue_depth] =
                    [message_id |-> next_message_id, from_pid |-> p, payload_length |-> length],
                ![i].queue_depth = @ + 1]
          /\ known' = [known EXCEPT ![i].owner = @ + 1]
    BY <1>3 DEF Send, ipc_channel_index
  <2>1. CASE j = i
    <3>1. channels'[j].queue_depth = c.queue_depth + 1
      BY <2>1, <1>0 DEF TypeOK, Channel
    <3>2. known'[j].owner = known[j].owner + 1 /\ known'[j].peer = known[j].peer
      BY <2>1 DEF TypeOK
    <3> QED
      BY <3>1, <3>2, <1>0
  <2>2. CASE j # i
    <3>1. channels'[j] = c /\ known'[j] = known[j]
      BY <2>2 DEF TypeOK
    <3> QED
      BY <3>1, <1>0
  <2> QED
    BY <2>1, <2>2
<1>4. ASSUME NEW id \in Index, NEW length \in Size, Recv(p, id, length)
      PROVE  known'[j].peer <= channels'[j].queue_depth /\ channels'[j].queue_depth <= known'[j].owner
  <2> PICK i \in Index :
          /\ channels[i].peer_pid = p /\ channels[i].queue_depth # 0
          /\ channels' = [channels EXCEPT ![i].messages = compacted(channels[i]),
                                          ![i].queue_depth = @ - 1]
          /\ known' = [known EXCEPT ![i].peer =
                          IF channels[i].peer_pid = p /\ @ > 0 THEN @ - 1 ELSE @]
    BY <1>4 DEF Recv, ipc_channel_index, may_receive
  <2>1. CASE j = i
    <3>1. channels'[j].queue_depth = c.queue_depth - 1
      BY <2>1, <1>0 DEF TypeOK, Channel
    <3>2. /\ known'[j].owner = known[j].owner
          /\ known'[j].peer = IF known[j].peer > 0 THEN known[j].peer - 1 ELSE known[j].peer
      BY <2>1 DEF TypeOK
    <3> QED
      BY <3>1, <3>2, <1>0, <2>1
  <2>2. CASE j # i
    <3>1. channels'[j] = c /\ known'[j] = known[j]
      BY <2>2 DEF TypeOK
    <3> QED
      BY <3>1, <1>0
  <2> QED
    BY <2>1, <2>2
<1>5. ASSUME NEW id \in Index, Poll(p, id)
      PROVE  known'[j].peer <= channels'[j].queue_depth /\ channels'[j].queue_depth <= known'[j].owner
  <2> PICK i \in Index :
          known' = [known EXCEPT ![i] =
                [owner |-> IF p = channels[i].owner_pid THEN channels[i].queue_depth ELSE @.owner,
                 peer  |-> IF p = channels[i].peer_pid THEN channels[i].queue_depth ELSE @.peer]]
    BY <1>5 DEF Poll, ipc_channel_index
  <2>1. channels' = channels
    BY <1>5 DEF Poll
  <2> QED
    BY <2>1, <1>0 DEF TypeOK
<1> QED
  BY <1>1, <1>2, <1>3, <1>4, <1>5

\* A depth an endpoint was told of stays a bound until that endpoint itself
\* sends or receives: no other process can take a message the peer saw or fill
\* the room the owner saw.
THEOREM PollReliable == Spec => []PollHolds
<1>1. Init => PollHolds
  BY DEF Init, PollHolds, EmptyChannel
<1>2. ASSUME Inv, PollHolds, [Next]_vars PROVE PollHolds'
  <2>1. CASE UNCHANGED vars
    BY <1>2, <2>1 DEF vars, PollHolds
  <2> QED
    BY <1>2, <2>1, PollHoldsStep
<1> QED
  BY <1>1, <1>2, InvInvariant, PTL DEF Spec

\* Once a channel exists its id and endpoints are fixed, so a message reaches
\* only the process its sender addressed, also after an endpoint has ended.
THEOREM EndpointsNeverChange == Spec => EndpointsFixed
<1>1. ASSUME Inv, [Next]_vars,
             NEW i \in Index, channels[i].used
      PROVE  /\ channels'[i].used
             /\ channels'[i].channel_id = channels[i].channel_id
             /\ channels'[i].owner_pid = channels[i].owner_pid
             /\ channels'[i].peer_pid = channels[i].peer_pid
  <2>0. channels \in [Index -> Channel] /\ channels[i] \in Channel
    BY <1>1 DEF Inv, TypeOK
  <2>1. CASE channels' = channels
    BY <1>1, <2>1
  <2>2. ASSUME NEW p \in Pid, NEW peer \in Pid, NEW size \in Size, NEW depth \in Depth,
               Register(p, peer, size, depth)
        PROVE  channels'[i] = channels[i]
    <3> PICK k \in free_index, x \in {[EmptyChannel EXCEPT !.used = TRUE, !.channel_id = next_channel_id,
                                     !.owner_pid = p, !.peer_pid = peer,
                                     !.max_message_size = size, !.max_queue_depth = depth]} :
            channels' = [channels EXCEPT ![k] = x]
      BY <2>2 DEF Register
    <3>1. k # i
      BY <1>1, Zenon DEF free_index
    <3> QED
      BY <3>1, <2>0
  <2>3. ASSUME NEW p \in Pid, NEW id \in Index, NEW length \in Size,
               Send(p, id, length) \/ Recv(p, id, length)
        PROVE  \E k \in Index : \E m, n : channels' = [channels EXCEPT ![k].messages = m, ![k].queue_depth = n]
    <3>1. CASE Send(p, id, length)
      <4> PICK k \in Index :
             channels' = [channels EXCEPT
                ![k].messages[channels[k].queue_depth] =
                    [message_id |-> next_message_id, from_pid |-> p, payload_length |-> length],
                ![k].queue_depth = @ + 1]
        BY <3>1 DEF Send, ipc_channel_index
      <4> DEFINE m == [channels[k].messages EXCEPT ![channels[k].queue_depth] =
                          [message_id |-> next_message_id, from_pid |-> p, payload_length |-> length]]
                 n == channels[k].queue_depth + 1
      <4>1. channels' = [channels EXCEPT ![k].messages = m, ![k].queue_depth = n]
        BY <2>0 DEF Channel
      <4> QED
        BY <4>1
    <3>2. CASE Recv(p, id, length)
      <4> PICK k \in Index :
             channels' = [channels EXCEPT ![k].messages = compacted(channels[k]),
                                          ![k].queue_depth = @ - 1]
        BY <3>2 DEF Recv, ipc_channel_index
      <4>1. channels' = [channels EXCEPT ![k].messages = compacted(channels[k]),
                                         ![k].queue_depth = channels[k].queue_depth - 1]
        BY <2>0 DEF Channel
      <4> QED
        BY <4>1
    <3> QED
      BY <2>3, <3>1, <3>2
  <2>4. ASSUME NEW k \in Index, NEW m, NEW n,
               channels' = [channels EXCEPT ![k].messages = m, ![k].queue_depth = n]
        PROVE  /\ channels'[i].used = channels[i].used
               /\ channels'[i].channel_id = channels[i].channel_id
               /\ channels'[i].owner_pid = channels[i].owner_pid
               /\ channels'[i].peer_pid = channels[i].peer_pid
    BY <2>0, <2>4 DEF Channel
  <2>5. CASE UNCHANGED vars
    BY <1>1, <2>5 DEF vars
  <2>6. CASE Next
    BY <1>1, <2>1, <2>2, <2>3, <2>4, <2>6 DEF Next, Start, End, Poll
  <2> QED
    BY <1>1, <2>5, <2>6
<1>2. ASSUME Inv, [Next]_vars
      PROVE  [\A i \in Index : channels[i].used =>
                 /\ channels'[i].used
                 /\ channels'[i].channel_id = channels[i].channel_id
                 /\ channels'[i].owner_pid = channels[i].owner_pid
                 /\ channels'[i].peer_pid = channels[i].peer_pid]_vars
  BY <1>1, <1>2
<1> QED
  BY <1>2, InvInvariant, PTL DEF Spec, EndpointsFixed

=============================================================================
