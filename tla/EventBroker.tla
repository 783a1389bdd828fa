----------------------------- MODULE EventBroker -----------------------------
(***************************************************************************)
(* The request path of the Go server: one ProcessClient goroutine per      *)
(* connection (server/main.go), the event queue and the response channels  *)
(* of the EventBroker (server/event), and the one ProcessMessage goroutine *)
(* that runs the subscribers.                                              *)
(*                                                                         *)
(* There is one unbuffered response channel per EVENT TYPE, shared by all  *)
(* the connections that ask for that type.  Publishing a request and       *)
(* waiting on the channel are two steps; the runtime serves the goroutines *)
(* that wait on a channel first come, first served.                        *)
(*                                                                         *)
(* What the subscribers compute is abstracted to the kind of the answer;   *)
(* FindRoom itself is in Matchmaking.                                      *)
(***************************************************************************)
EXTENDS Naturals, Sequences, FiniteSets

CONSTANTS
  Conn,       \* client connections
  EventType,  \* the event types in use, of those main.go subscribes to
  None

Subscribed == {"login", "signin", "find-room", "create-room", "join-room"}

ASSUME ConnAssumption == IsFiniteSet(Conn)
ASSUME EventTypeAssumption == EventType \subseteq Subscribed

\* What the subscriber of a type may return: FindRoom returns nil for a room
\* type it does not know, CreateRoom and JoinRoom always do.
Answers(type) ==
  CASE type \in {"login", "signin"} -> {"auth"}
    [] type = "find-room"           -> {"room", "nil"}
    [] OTHER                        -> {"nil"}

Request == [from : Conn, type : EventType]
Reply   == [from : Conn, type : EventType, answer : {"auth", "room", "nil"}]

ASSUME NoneAssumption == None \notin Request \cup Reply

VARIABLES
  client,    \* [Conn -> Phase]: where ProcessClient stands
  asked,     \* [Conn -> Request or None]: its last request
  got,       \* [Conn -> Reply or None]: what it received for that request
  open,      \* [Conn -> BOOLEAN]: the peer has not closed the connection
  queue,     \* eventQueue: the requests published and not yet dequeued
  holding,   \* the reply ProcessMessage wants to send, or None
  waiting    \* per event type, the goroutines parked on its channel

clientVars == <<client, asked, got, open>>
queueVars  == <<queue, holding, waiting>>
brokerVars == <<clientVars, queueVars>>

\* reading -> published -> parked -> reading | done
Phase == {"reading", "published", "parked", "done"}

BrokerInit ==
  /\ client = [c \in Conn |-> "reading"]
  /\ asked = [c \in Conn |-> None]
  /\ got = [c \in Conn |-> None]
  /\ open = [c \in Conn |-> TRUE]
  /\ queue = <<>>
  /\ holding = None
  /\ waiting = [type \in EventType |-> <<>>]

-----------------------------------------------------------------------------
(* ProcessClient                                                           *)

EnqueueFirst(request) == queue' = <<request>> \o queue
Enqueue(request) == queue' = Append(queue, request)

\* The channel on which answers to a type of event are sent and awaited.
ResponseChannel(type) == type

\* A request is read, decoded and published.  (What cannot be decoded is
\* skipped and changes nothing.)
Publish(c, type) ==
  LET request == [from |-> c, type |-> type]
  IN  /\ client[c] = "reading"
      /\ open[c]
      /\ Enqueue(request)
      /\ client' = [client EXCEPT ![c] = "published"]
      /\ asked' = [asked EXCEPT ![c] = request]
      /\ got' = [got EXCEPT ![c] = None]
      /\ UNCHANGED <<open, holding, waiting>>

\* <-broker.ResponseChannel(type): the goroutine parks behind those that wait.
JoinChannel(c) ==
  /\ client' = [client EXCEPT ![c] = "parked"]
  /\ waiting' = [waiting EXCEPT ![ResponseChannel(asked[c].type)] = Append(@, c)]
  /\ UNCHANGED <<asked, got, open, queue, holding>>

Park(c) == client[c] = "published" /\ JoinChannel(c)

\* The loop ends only when a read fails.
Disconnected(c) ==
  /\ client[c] = "reading"
  /\ ~open[c]
  /\ client' = [client EXCEPT ![c] = "done"]
  /\ UNCHANGED <<asked, got, open, queueVars>>

\* The peer closes its end, whatever the goroutine is doing.
Close(c) ==
  /\ open[c]
  /\ open' = [open EXCEPT ![c] = FALSE]
  /\ UNCHANGED <<client, asked, got, queueVars>>

-----------------------------------------------------------------------------
(* ProcessMessage                                                          *)

\* Dequeue blocks on the condition variable while the queue is empty; the
\* subscriber runs to its end before anything else is dequeued.
HoldUnlessNil(reply) == holding' = IF reply.answer = "nil" THEN None ELSE reply
Hold(reply) == holding' = reply

Dequeue ==
  /\ holding = None
  /\ queue # <<>>
  /\ queue' = Tail(queue)
  /\ \E answer \in Answers(Head(queue).type) :
       Hold([from |-> Head(queue).from, type |-> Head(queue).type,
             answer |-> answer])
  /\ UNCHANGED <<clientVars, waiting>>

\* The goroutine that has waited longest on a channel is released.
Release(channel) == waiting' = [waiting EXCEPT ![channel] = Tail(@)]

\* After an answer the loop reads on, unless it was a room: the game server
\* has the player now.  Nothing is written to the peer for nil.
NextPhase(answer) == IF answer = "room" THEN "done" ELSE "reading"

\* channel <- respMsg blocks until a goroutine waits on the channel, and hands
\* the answer, nil or not, to the one that has waited longest, whoever asked.
Respond ==
  /\ holding # None
  /\ waiting[ResponseChannel(holding.type)] # <<>>
  /\ LET c == Head(waiting[ResponseChannel(holding.type)])
     IN  /\ Release(ResponseChannel(holding.type))
         /\ got' = [got EXCEPT ![c] = holding]
         /\ client' = [client EXCEPT ![c] = NextPhase(holding.answer)]
  /\ holding' = None
  /\ UNCHANGED <<asked, open, queue>>

BrokerNext ==
  \/ \E c \in Conn :
       \/ \E type \in EventType : Publish(c, type)
       \/ Park(c)
       \/ Disconnected(c)
       \/ Close(c)
  \/ Dequeue
  \/ Respond

BrokerSpec == BrokerInit /\ [][BrokerNext]_brokerVars

\* Goroutines that can run are run; peers owe nothing.
BrokerFairness ==
  /\ WF_brokerVars(Dequeue)
  /\ WF_brokerVars(Respond)
  /\ \A c \in Conn : WF_brokerVars(Park(c)) /\ WF_brokerVars(Disconnected(c))

FairBrokerSpec == BrokerSpec /\ BrokerFairness

-----------------------------------------------------------------------------
(* Properties                                                              *)

BrokerTypeOK ==
  /\ client \in [Conn -> Phase]
  /\ asked \in [Conn -> Request \cup {None}]
  /\ got \in [Conn -> Reply \cup {None}]
  /\ open \in [Conn -> BOOLEAN]
  /\ queue \in Seq(Request)
  /\ holding \in Reply \cup {None}
  /\ waiting \in [EventType -> Seq(Conn)]

Outstanding(type) ==
  {c \in Conn : client[c] \in {"published", "parked"} /\ asked[c].type = type}
Queued(type) == {i \in DOMAIN queue : queue[i].type = type}
InHand(type) == IF holding # None /\ holding.type = type THEN 1 ELSE 0

\* For every event type there are exactly as many answers to come (queued or
\* in the broker's hand) as goroutines that want one.  So the broker is never
\* stuck on a channel nobody will read, and no goroutine waits for an answer
\* that nobody owes, even though answers do not carry their addressee.
OneAnswerOwed ==
  \A type \in EventType :
    Cardinality(Outstanding(type)) = Cardinality(Queued(type)) + InHand(type)

\* Every request that is published is answered, and the server comes back to
\* the connection (or has handed it to a game).
EveryRequestAnswered ==
  \A c \in Conn : client[c] = "published" ~> client[c] \in {"reading", "done"}

-----------------------------------------------------------------------------
(* What the documents say and the code does not do                         *)

\* broker.go:58: ProcessMessage "sends responses to the appropriate channels".
AnswerIsOwn == \A c \in Conn : got[c] # None => got[c].from = c

=============================================================================
