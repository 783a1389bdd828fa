------------------------------ MODULE Delivery ------------------------------
(***************************************************************************)
(* How a message reaches one client of the game server: send_to_player     *)
(* spawns a task per message, the tasks compete for the slots of a bounded *)
(* tokio channel, the writer task moves messages from the channel to the   *)
(* socket, and the client reads pieces of the stream when it likes and     *)
(* cuts them into packets again.  GameSession ends where send_to_player is *)
(* called; this module starts there and ends with what the client decodes. *)
(*                                                                         *)
(* A message is the number of its send_to_player call.  A channel slot is  *)
(* a permit of the channel's semaphore: a task that finds none waits in    *)
(* line, a receive hands the permit to the first in line, and the holder   *)
(* of a permit still has to be run before its message is in the channel.   *)
(*                                                                         *)
(* In the stream a message is a run of units <<number, place>>, each as    *)
(* wide as the server's packet has it: the two bytes of the header are a   *)
(* unit each, fields of one group are a unit together.                     *)
(***************************************************************************)
EXTENDS Naturals, Sequences, FiniteSets, SequencesExt

CONSTANTS
  Capacity,     \* mpsc::channel(32)
  Kinds,        \* bound: what is sent, in the order of the send_to_player calls
  BoardLength,  \* bytes of an encoded board, never empty; its field holds 16 bits
  SocketRoom,   \* bound: units the socket buffers hold
  ReadSize      \* units a read takes at most, 4096 bytes

ASSUME CapacityAssumption == Capacity \in Nat \ {0}
ASSUME SocketAssumption ==
  /\ Kinds \in Seq({"start", "board", "shop"})
  /\ {BoardLength, SocketRoom, ReadSize} \subseteq Nat \ {0}
  /\ BoardLength < 65536
  /\ SocketRoom >= 5

VARIABLES
  registered,  \* the channel's sender is in client_channel
  sent,        \* messages handed to send_to_player so far
  spawned,     \* tasks that have not run yet
  waiters,     \* tasks in line for a slot
  granted,     \* tasks that own a slot and have not used it yet
  channel,     \* messages in the channel
  writer,      \* "running", or "ended" once the socket is shut down
  writing,     \* the message the writer task holds, 0 for none
  socket,      \* units between the two ends
  data,        \* units the client has read and not decoded
  decoding,    \* the loop over them is running
  peer,        \* the client: "open" or "gone"
  received,    \* what the client has decoded, in order; 0 is nothing that was sent
  cut,         \* history: a read has ended between the bytes of a header
  pushed       \* history: the messages that had entered the channel when a
               \* message was sent: [1..sent -> SUBSET 1..sent]

taskVars == <<sent, spawned, waiters, granted, pushed>>
clientVars == <<data, decoding, received, cut>>
vars == <<registered, taskVars, channel, writer, writing, socket, peer, clientVars>>

Message == DOMAIN Kinds

\* The packets of the server, as the bytes of their groups of fields after version
\* and code: the answer; the figures, the length and the board; stats and slots.
StartPacket        == <<1, 1, 1>>
BoardPacket        == <<1, 1, 5 * 2 + 1 + 2 * 4, 2, BoardLength>>
ShopResponsePacket == <<1, 1, 5 * 2, 6 * 2>>

Layout(n) ==
  CASE Kinds[n] = "start" -> StartPacket
    [] Kinds[n] = "board" -> BoardPacket
    [] Kinds[n] = "shop"  -> ShopResponsePacket

Frame(n) == [i \in DOMAIN Layout(n) |-> <<n, i>>]
Tasks   == spawned \cup ToSet(waiters) \cup granted

Init ==
  /\ registered = TRUE
  /\ sent = 0
  /\ spawned = {}
  /\ waiters = <<>>
  /\ granted = {}
  /\ channel = <<>>
  /\ writer = "running"
  /\ writing = 0
  /\ socket = <<>>
  /\ peer = "open"
  /\ data = <<>> /\ decoding = FALSE
  /\ received = <<>>
  /\ cut = FALSE
  /\ pushed = <<>>

-----------------------------------------------------------------------------
(* send_to_player and its tasks                                            *)

\* Without a sender in the map the message is dropped before it is counted.
SendToPlayer ==
  /\ registered
  /\ sent < Len(Kinds)
  /\ sent' = sent + 1
  /\ spawned' = spawned \cup {sent + 1}
  /\ pushed' = Append(pushed, (1..sent) \ Tasks)
  /\ UNCHANGED <<registered, waiters, granted, channel, writer, writing,
                 socket, peer, clientVars>>

OneSlotTooMany == Len(channel) + Cardinality(granted) <= Capacity
HasSlot == Len(channel) + Cardinality(granted) < Capacity

Push(n) == channel' = Append(channel, n)

GiveUp(n) == UNCHANGED waiters
StandInLine(n) == waiters' = Append(waiters, n)

\* A task runs for the first time: the channel is closed and the message is
\* lost, or there is a slot, or it waits for one.
Poll(n) ==
  /\ n \in spawned
  /\ spawned' = spawned \ {n}
  /\ \/ /\ writer = "ended"
        /\ UNCHANGED <<waiters, channel>>
     \/ /\ writer = "running"
        /\ HasSlot
        /\ Push(n)
        /\ UNCHANGED waiters
     \/ /\ writer = "running"
        /\ ~HasSlot
        /\ StandInLine(n)
        /\ UNCHANGED channel
  /\ UNCHANGED <<registered, sent, granted, pushed, writer, writing, socket,
                 peer, clientVars>>

UseSlot(n) ==
  /\ n \in granted
  /\ granted' = granted \ {n}
  /\ IF writer = "ended" THEN UNCHANGED channel ELSE Push(n)
  /\ UNCHANGED <<registered, sent, spawned, waiters, pushed, writer, writing,
                 socket, peer, clientVars>>

-----------------------------------------------------------------------------
(* The writer task                                                         *)

\* The slot of the message taken goes to the first in line.
GrantFirst ==
  IF waiters = <<>>
  THEN UNCHANGED <<waiters, granted>>
  ELSE /\ waiters' = Tail(waiters)
       /\ granted' = granted \cup {Head(waiters)}

RecvNewest ==
  /\ writer = "running"
  /\ writing = 0
  /\ channel # <<>>
  /\ writing' = Last(channel)
  /\ channel' = Front(channel)
  /\ GrantFirst
  /\ UNCHANGED <<registered, sent, spawned, pushed, writer, socket, peer,
                 clientVars>>

Recv ==
  /\ writer = "running"
  /\ writing = 0
  /\ channel # <<>>
  /\ writing' = Head(channel)
  /\ channel' = Tail(channel)
  /\ GrantFirst
  /\ UNCHANGED <<registered, sent, spawned, pushed, writer, socket, peer,
                 clientVars>>

\* write_all waits for room; what is written to a client that has gone is
\* lost, until the writer learns of it.
Write ==
  /\ writing # 0
  /\ \/ /\ peer = "open"
        /\ Len(socket) + Len(Frame(writing)) <= SocketRoom
        /\ socket' = socket \o Frame(writing)
     \/ peer = "gone" /\ UNCHANGED socket
  /\ writing' = 0
  /\ UNCHANGED <<registered, taskVars, channel, writer, peer, clientVars>>

\* rx.close and the end of the task: the tasks in line give up, the messages
\* in the channel are dropped with it.
Close ==
  /\ writer' = "ended"
  /\ writing' = 0
  /\ channel' = <<>>
  /\ waiters' = <<>>

WriteFails ==
  /\ writing # 0
  /\ peer = "gone"
  /\ Close
  /\ UNCHANGED <<registered, sent, spawned, granted, pushed, socket, peer,
                 clientVars>>

\* recv returns None once every sender is dropped, the tasks' clones included,
\* and the channel is empty.
SenderHeldByHandler == FALSE
EverySenderDropped == ~registered /\ Tasks = {} /\ channel = <<>>

RecvNone ==
  /\ writer = "running"
  /\ writing = 0
  /\ EverySenderDropped
  /\ Close
  /\ UNCHANGED <<registered, sent, spawned, granted, pushed, socket, peer,
                 clientVars>>

-----------------------------------------------------------------------------
(* The map entry and the client                                            *)

\* remove_player, by the client's own handler or by one that shares its id,
\* or a later joiner's channel that replaces the entry.
Unregister ==
  /\ registered
  /\ registered' = FALSE
  /\ UNCHANGED <<taskVars, channel, writer, writing, socket, peer, clientVars>>

HangUp ==
  /\ peer = "open"
  /\ peer' = "gone"
  /\ UNCHANGED <<registered, taskVars, channel, writer, writing, socket, clientVars>>

-----------------------------------------------------------------------------
(* ListenForPackets                                                        *)

\* A read returns what is there or a part of it.
Read ==
  /\ peer = "open" /\ ~decoding
  /\ \E n \in 1..Min({ReadSize, Len(socket)}) :
       /\ data' = data \o SubSeq(socket, 1, n)
       /\ socket' = SubSeq(socket, n + 1, Len(socket))
  /\ decoding' = TRUE
  /\ UNCHANGED <<registered, taskVars, channel, writer, writing, peer, received, cut>>

Consume(n) == data' = SubSeq(data, n + 1, Len(data))

\* The bytes of the first k units, for each k.
Bytes(units) ==
  LET sum[k \in 0..Len(units)] ==
        IF k = 0 THEN 0 ELSE sum[k - 1] + Layout(units[k][1])[units[k][2]]
  IN  sum

\* What the client takes for a packet, by its code and the length in it.
TotalLen(n) ==
  CASE Kinds[n] = "start" -> 3
    [] Kinds[n] = "board" -> 23 + BoardLength
    [] Kinds[n] = "shop"  -> 24

\* DeSerialize on data that begins with a packet: a whole one is consumed, for
\* the rest of another the loop waits.
Complete == {k \in DOMAIN data : Bytes(data)[k] >= TotalLen(data[1][1])}

Packet ==
  IF Complete # {}
  THEN /\ Consume(Min(Complete))
       /\ received' = Append(received, data[1][1])
       /\ UNCHANGED decoding
  ELSE decoding' = FALSE /\ UNCHANGED <<data, received>>

\* On data that begins elsewhere it finds whatever the bytes happen to say:
\* no packet, some packet, or the beginning of one.
Garbage ==
  \/ data' = <<>> /\ UNCHANGED <<decoding, received>>
  \/ \E n \in 2..Len(data) : Consume(n) /\ received' = Append(received, 0) /\ UNCHANGED decoding
  \/ decoding' = FALSE /\ UNCHANGED <<data, received>>

\* One turn of the loop.  A single byte is not waited for: it is discarded.
DeSerialize ==
  /\ peer = "open" /\ decoding
  /\ \/ data = <<>> /\ decoding' = FALSE /\ UNCHANGED <<data, received, cut>>
     \/ Len(data) = 1 /\ data' = <<>> /\ cut' = TRUE /\ UNCHANGED <<decoding, received>>
     \/ /\ Len(data) > 1
        /\ IF data[1][2] = 1 THEN Packet ELSE Garbage
        /\ UNCHANGED cut
  /\ UNCHANGED <<registered, taskVars, channel, writer, writing, socket, peer>>

Writer == Recv \/ Write \/ WriteFails \/ RecvNone

Next ==
  \/ SendToPlayer
  \/ \E n \in Message : Poll(n) \/ UseSlot(n)
  \/ Writer
  \/ Unregister
  \/ Read \/ DeSerialize
  \/ HangUp

Spec == Init /\ [][Next]_vars

\* The runtime runs every task that can run, and the handler of a client that
\* hung up reaches its cleanup (Cleanup of GameSession).
ServerFairness ==
  /\ \A n \in Message : WF_vars(Poll(n)) /\ WF_vars(UseSlot(n))
  /\ WF_vars(Writer)
  /\ WF_vars(Unregister /\ peer = "gone")

FairSpec == Spec /\ ServerFairness

\* Moreover the client keeps reading.
ReadingSpec == FairSpec /\ WF_vars(Read) /\ WF_vars(DeSerialize)

-----------------------------------------------------------------------------
(* Properties                                                              *)

Unit == UNION {ToSet(Frame(n)) : n \in 1..sent}

\* Types; the channel never holds more than its slots, and nobody waits while
\* a slot is free.
TypeOK ==
  /\ registered \in BOOLEAN
  /\ sent \in 0..Len(Kinds)
  /\ spawned \subseteq 1..sent
  /\ granted \subseteq 1..sent
  /\ waiters \in Seq(1..sent)
  /\ channel \in Seq(1..sent)
  /\ Len(channel) + Cardinality(granted) <= Capacity
  /\ waiters # <<>> => ~HasSlot
  /\ writer \in {"running", "ended"}
  /\ writing \in 0..sent
  /\ socket \in Seq(Unit) /\ Len(socket) <= SocketRoom
  /\ data \in Seq(Unit) /\ decoding \in BOOLEAN
  /\ peer \in {"open", "gone"}
  /\ received \in Seq(0..sent) /\ cut \in BOOLEAN
  /\ pushed \in Seq(SUBSET Message) /\ Len(pushed) = sent

\* The message in the writer's hands.
Held == IF writing = 0 THEN {} ELSE {writing}

\* What is under way to the client, and the places where a message begins in it.
Stream == data \o socket
Begun  == {i \in DOMAIN Stream : Stream[i][2] = 1}

\* Every unit is followed by the next one of its message, and the last one of a
\* message by the first one of another or by nothing.
WholeFrom(i) ==
  LET u == Stream[i]
  IN  IF u[2] < Len(Layout(u[1]))
      THEN i < Len(Stream) /\ Stream[i + 1] = <<u[1], u[2] + 1>>
      ELSE i < Len(Stream) => Stream[i + 1][2] = 1

\* As long as the client is there the stream is one whole message after another,
\* and every message is in exactly one place, even when its map entry has been
\* removed: as many places are taken as messages were sent, and none is missing.
\* None is lost, none is sent twice and none is decoded from the bytes of others,
\* unless a read has ended between the two bytes of a header.
EachMessageOnce ==
  peer = "open" /\ ~cut =>
    /\ Stream # <<>> => Stream[1][2] = 1
    /\ \A i \in DOMAIN Stream : WholeFrom(i)
    /\ Cardinality(spawned) + Len(waiters) + Cardinality(granted) + Len(channel)
         + Cardinality(Held) + Cardinality(Begun) + Len(received) = sent
    /\ Tasks \cup ToSet(channel) \cup Held \cup {Stream[i][1] : i \in Begun}
         \cup ToSet(received) = 1..sent

\* A message can only be overtaken while it has not entered the channel: what
\* was in the channel before another message was sent is received before it.
NoOvertaking ==
  \A i, j \in DOMAIN received :
    i < j /\ received[i] # 0 => received[j] \notin pushed[received[i]]

\* A client that stays and reads gets every message, unless a read has ended
\* between the two bytes of a header.
EveryMessageArrives ==
  \A n \in Message :
    n <= sent ~> peer = "gone" \/ cut \/ n \in ToSet(received)

\* After a client has hung up nothing of its delivery is left behind: no task,
\* no message and no writer.
NothingLeftBehind ==
  peer = "gone" ~> writer = "ended" /\ Tasks = {} /\ channel = <<>>

=============================================================================
