---------------------------- MODULE GameSession -----------------------------
(***************************************************************************)
(* The session layer of the Rust game server (game/src/main.rs and the     *)
(* player bookkeeping of GameManager in game/src/game/mod.rs): one task    *)
(* per client connection, one tick task, and the GameManager that they     *)
(* share behind a mutex.  A step of this module is one critical section of *)
(* that mutex, or a stretch of a task that touches no shared state, so the *)
(* interleavings are those the tokio scheduler can produce.                *)
(*                                                                         *)
(* Messages are abstracted to their kind; how a spawned send task, the     *)
(* bounded channel and the writer task deliver them is Delivery.  What a   *)
(* tick does to the board is in the modules of the game's entities.        *)
(***************************************************************************)
EXTENDS Naturals, FiniteSets

CONSTANTS
  Client,      \* connections; a client that comes back is a new connection
  MaxPlayers,  \* seats: the --max-players argument of the process
  None         \* absence of a map entry

ASSUME ClientAssumption == IsFiniteSet(Client) /\ None \notin Client
ASSUME MaxPlayersAssumption == MaxPlayers \in Nat

VARIABLES
  handler,        \* [Client -> Phase]: where handle_client stands
  playerId,       \* [Client -> Nat]: player_id of the handler, 0 before it
  playersCount,   \* GameManager.players_count
  gameStarted,    \* GameManager.game_started
  startTimeSet,   \* GameManager.game_start_time is Some
  champions,      \* GameManager.champions: id -> client it was built for
  clientChannel,  \* GameManager.client_channel: id -> client that reads it
  playerAction,   \* GameManager.player_action: id -> client that stored it
  tickTask,       \* where the tick task stands
  updates,        \* frames of the last tick: id -> client its champion had
  inbox,          \* [Client -> SUBSET Kind]: kinds handed to send_to_player
  exited          \* std::process::exit has run

managerVars == <<playersCount, gameStarted, startTimeSet, champions,
                 clientChannel, playerAction>>
handlerVars == <<handler, playerId>>
tickVars    == <<tickTask, updates>>
vars        == <<handlerVars, managerVars, tickVars, inbox, exited>>

PlayerId == 1..MaxPlayers
Entry    == Client \cup {None}

\* accepted -> verify -> reading -> cleanup -> gone; a handler that turns its
\* client away goes from accepted to gone.
Phase == {"accepted", "verify", "reading", "cleanup", "gone"}
Kind  == {"start", "shop", "end"}

\* A client is seated from add_player to remove_player.
Seated(c)     == handler[c] \in {"verify", "reading", "cleanup"}
SeatedClients == {c \in Client : Seated(c)}
\* The clients whose handler has already given its seat back.
Departed      == {c \in Client : handler[c] = "gone" /\ playerId[c] # 0}

Init ==
  /\ handler = [c \in Client |-> "accepted"]
  /\ playerId = [c \in Client |-> 0]
  /\ playersCount = 0
  /\ gameStarted = FALSE
  /\ startTimeSet = FALSE
  /\ champions = [id \in PlayerId |-> None]
  /\ clientChannel = [id \in PlayerId |-> None]
  /\ playerAction = [id \in PlayerId |-> None]
  /\ tickTask = "check"
  /\ updates = [id \in PlayerId |-> None]
  /\ inbox = [c \in Client |-> {}]
  /\ exited = FALSE

-----------------------------------------------------------------------------
(* GameManager operations used under the lock                              *)

\* send_to_player: a message for an id without a channel is dropped.
SendToPlayers(ids, kind) ==
  inbox' = [c \in Client |->
              IF \E id \in ids : clientChannel[id] = c
              THEN inbox[c] \cup {kind}
              ELSE inbox[c]]

\* client_channel.insert: whatever channel the id had is dropped.
ForgetsToInsert(id, c) == UNCHANGED clientChannel
InsertChannel(id, c) == clientChannel' = [clientChannel EXCEPT ![id] = c]

\* add_player and the insertion of the channel, one critical section: the id
\* is the new player count, whoever else may hold it.
AddPlayer(c) ==
  LET id == playersCount + 1
  IN  /\ playersCount' = id
      /\ playerId' = [playerId EXCEPT ![c] = id]
      /\ champions' = [champions EXCEPT ![id] = c]
      /\ InsertChannel(id, c)
      /\ gameStarted' = (gameStarted \/ id = MaxPlayers)
      /\ startTimeSet' = (startTimeSet \/ id = MaxPlayers)
      /\ UNCHANGED playerAction

\* The four effects of remove_player on the maps and on the match.
KeepsSeat == UNCHANGED playersCount
FreeSeat == playersCount' = playersCount - 1

ForgetAction(id) == playerAction' = [playerAction EXCEPT ![id] = None]

KeepsChannel(id) == UNCHANGED clientChannel
ForgetChannel(id) == clientChannel' = [clientChannel EXCEPT ![id] = None]

StopIfShort == gameStarted' = (gameStarted /\ ~(playersCount' < MaxPlayers))

\* remove_player: the champion and its cell stay on the board.
RemovePlayer(id) ==
  IF playersCount > 0
  THEN /\ FreeSeat
       /\ ForgetAction(id)
       /\ ForgetChannel(id)
       /\ StopIfShort
       /\ UNCHANGED <<startTimeSet, champions>>
  ELSE UNCHANGED managerVars

-----------------------------------------------------------------------------
(* handle_client, one task per connection                                  *)

\* The first packet is not a spell selection, or the client hung up.
BadHello(c) ==
  /\ handler[c] = "accepted"
  /\ handler' = [handler EXCEPT ![c] = "gone"]
  /\ UNCHANGED <<playerId, managerVars, tickVars, inbox>>

SeatLeftOrLast == playersCount <= MaxPlayers
SeatLeft == playersCount < MaxPlayers

Join(c) ==
  /\ handler[c] = "accepted"
  /\ SeatLeft
  /\ AddPlayer(c)
  /\ handler' = [handler EXCEPT ![c] = "verify"]
  /\ UNCHANGED <<tickVars, inbox>>

\* "Server is full": written straight to the socket, no channel exists yet.
Reject(c) ==
  /\ handler[c] = "accepted"
  /\ ~SeatLeft
  /\ handler' = [handler EXCEPT ![c] = "gone"]
  /\ UNCHANGED <<playerId, managerVars, tickVars, inbox>>

\* The second critical section: a StartPacket to every channel, if the game
\* (still) runs.
VerifyStartsItself(c) ==
  /\ handler[c] = "verify"
  /\ handler' = [handler EXCEPT ![c] = "reading"]
  /\ IF gameStarted THEN SendToPlayers({playerId[c]}, "start") ELSE UNCHANGED inbox
  /\ UNCHANGED <<playerId, managerVars, tickVars>>

VerifyStart(c) ==
  /\ handler[c] = "verify"
  /\ handler' = [handler EXCEPT ![c] = "reading"]
  /\ IF gameStarted THEN SendToPlayers(PlayerId, "start") ELSE UNCHANGED inbox
  /\ UNCHANGED <<playerId, managerVars, tickVars>>

\* Code 8: the last action stored for an id before a tick is the one played.
StoreAction(c) ==
  /\ handler[c] = "reading"
  /\ playerAction' = [playerAction EXCEPT ![playerId[c]] = c]
  /\ UNCHANGED <<handlerVars, playersCount, gameStarted, startTimeSet,
                 champions, clientChannel, tickVars, inbox>>

\* Codes 14 and 16: the stats and inventory of the champion of the id, to the
\* channel of the id (16 answers a purchase that succeeds).
ShopReply(c) ==
  /\ handler[c] = "reading"
  /\ champions[playerId[c]] # None
  /\ SendToPlayers({playerId[c]}, "shop")
  /\ UNCHANGED <<handlerVars, managerVars, tickVars>>

\* The read loop breaks: end of stream, or a packet it does not know.
StopReading(c) ==
  /\ handler[c] = "reading"
  /\ handler' = [handler EXCEPT ![c] = "cleanup"]
  /\ UNCHANGED <<playerId, managerVars, tickVars, inbox>>

Cleanup(c) ==
  /\ handler[c] = "cleanup"
  /\ RemovePlayer(playerId[c])
  /\ handler' = [handler EXCEPT ![c] = "gone"]
  /\ UNCHANGED <<playerId, tickVars, inbox>>

Handler(c) ==
  /\ ~exited
  /\ \/ BadHello(c) \/ Join(c) \/ Reject(c) \/ VerifyStart(c)
     \/ StoreAction(c) \/ ShopReply(c) \/ StopReading(c) \/ Cleanup(c)
  /\ UNCHANGED exited

-----------------------------------------------------------------------------
(* The tick task                                                           *)

\* game_started is read under the lock and acted upon after it is released.
TickAlwaysArms ==
  /\ tickTask = "check"
  /\ tickTask' = "armed"
  /\ UNCHANGED <<handlerVars, managerVars, updates, inbox, exited>>

TickCheck ==
  /\ tickTask = "check"
  /\ tickTask' = IF gameStarted THEN "armed" ELSE "waiting"
  /\ UNCHANGED <<handlerVars, managerVars, updates, inbox, exited>>

TickWait ==
  /\ tickTask = "waiting"
  /\ tickTask' = "check"
  /\ UNCHANGED <<handlerVars, managerVars, updates, inbox, exited>>

\* game_tick and clear_action, in one critical section 40 ms after the check:
\* one frame per champion there is, whether or not its client is still here.
TickRun ==
  /\ tickTask = "armed"
  /\ tickTask' = "send"
  /\ updates' = champions
  /\ playerAction' = [id \in PlayerId |-> None]
  /\ UNCHANGED <<handlerVars, playersCount, gameStarted, startTimeSet,
                 champions, clientChannel, inbox, exited>>

\* A base has fallen inside game_tick.  The futures that would send the
\* EndGamePacket are created and dropped, never awaited, and the process
\* exits, so nothing reaches any inbox.
TickGameOver ==
  /\ tickTask = "armed"
  /\ exited' = TRUE
  /\ UNCHANGED <<handlerVars, managerVars, tickVars, inbox>>

\* The frames are sent in a later critical section, to the channels of then.
TickSend ==
  /\ tickTask = "send"
  /\ tickTask' = "check"
  /\ updates' = [id \in PlayerId |-> None]
  /\ UNCHANGED <<handlerVars, managerVars, inbox, exited>>

Tick ==
  /\ ~exited
  /\ TickCheck \/ TickWait \/ TickRun \/ TickGameOver \/ TickSend

Next == Tick \/ \E c \in Client : Handler(c)

Spec == Init /\ [][Next]_vars

\* tokio's mutex queues its waiters and every task that can run is run; a
\* client may stay silent for ever, so the reads are not fair.
Fairness ==
  /\ WF_vars(Tick)
  /\ \A c \in Client :
       WF_vars(~exited /\ (VerifyStart(c) \/ Cleanup(c)) /\ UNCHANGED exited)

FairSpec == Spec /\ Fairness

-----------------------------------------------------------------------------
(* Properties                                                              *)

TypeOK ==
  /\ handler \in [Client -> Phase]
  /\ playerId \in [Client -> 0..MaxPlayers]
  /\ playersCount \in 0..MaxPlayers
  /\ gameStarted \in BOOLEAN
  /\ startTimeSet \in BOOLEAN
  /\ champions \in [PlayerId -> Entry]
  /\ clientChannel \in [PlayerId -> Entry]
  /\ playerAction \in [PlayerId -> Entry]
  /\ tickTask \in {"check", "armed", "send", "waiting"}
  /\ updates \in [PlayerId -> Entry]
  /\ inbox \in [Client -> SUBSET Kind]
  /\ exited \in BOOLEAN

\* players_count, which add_player and remove_player only ever step by one,
\* is the number of clients that are seated, whatever the order in which the
\* handlers come and go; so a seat is neither lost nor given twice.
CountIsSeated == playersCount = Cardinality(SeatedClients)

\* The game is started exactly while every seat is taken: no interleaving of
\* a join with a departure leaves a full game stopped or a short one started.
StartedIffFull == gameStarted <=> playersCount = MaxPlayers /\ MaxPlayers > 0

\* Whatever is filed under an id belongs to a seated client that holds the id:
\* no cleanup leaves the channel of a client that has left, and an action that
\* waits for the tick goes with its player, so that the next holder of the id
\* never plays it.
Holds(c, id) == Seated(c) /\ playerId[c] = id

ChannelsAreLive ==
  \A id \in PlayerId : clientChannel[id] # None => Holds(clientChannel[id], id)

ActionsAreLive ==
  \A id \in PlayerId : playerAction[id] # None => Holds(playerAction[id], id)

EntriesAreLive == ChannelsAreLive /\ ActionsAreLive

\* As long as nobody has left, ids are handed out once each, every seated
\* client's channel is the one in the map, its champion was built for it, and
\* a frame on its way to it shows that champion.
\* (The first departure ends this: see UniqueChampions.)
FirstGeneration ==
  Departed = {} =>
    /\ \A c \in SeatedClients :
         /\ clientChannel[playerId[c]] = c
         /\ champions[playerId[c]] = c
    /\ \A id \in PlayerId : updates[id] \in {None, clientChannel[id]}

\* The session implements the abstract life cycle of a match.
Lifecycle == INSTANCE SessionLifecycle WITH
  members <- SeatedClients,
  running <- gameStarted,
  hasRun  <- startTimeSet,
  over    <- exited

ImplementsLifecycle == Lifecycle!Spec

\* Every client seated when the game runs is sent a StartPacket, or somebody
\* leaves, or the process ends: the second critical section of the last joiner
\* reaches the clients that joined before it and the joiner itself.
StartReachesSeated ==
  \A c \in Client :
    (gameStarted /\ Seated(c)) ~> ("start" \in inbox[c] \/ Departed # {} \/ exited)

-----------------------------------------------------------------------------
(* What the documents say and the code does not do                         *)

\* README.md:74: "Players control unique champions".
UniqueChampions ==
  \A c, d \in SeatedClients : c # d => playerId[c] # playerId[d]

=============================================================================
