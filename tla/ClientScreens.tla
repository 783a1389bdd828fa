---------------------------- MODULE ClientScreens ----------------------------
(***************************************************************************)
(* The terminal client (client/main.go and its models): which screen is    *)
(* shown, which connections it holds, and the messages that move it.  Each *)
(* connection has a goroutine, ListenForPackets, that reads packets and    *)
(* hands them to the one Update loop through one channel, so packets of    *)
(* one connection stay in order and those of different connections mix.    *)
(* Nothing tells Update which connection a message came from.              *)
(*                                                                         *)
(* Packets that only change what a screen draws (boards, statistics) are   *)
(* left out.  The servers are modelled by what they send: ProcessClient of *)
(* the lobby server and the session of the game server.                    *)
(***************************************************************************)
EXTENDS Naturals, Sequences, FiniteSets

CONSTANTS
  MaxLinks,  \* bound: connections the client ever makes
  MaxFeed,   \* bound: packets under way on one connection
  MaxAsked   \* bound: requests under way on one connection

ASSUME BoundAssumption == MaxLinks \in Nat /\ MaxFeed \in Nat /\ MaxAsked \in Nat

VARIABLES
  screen,     \* MetaModel.state, or "quit"
  dialling,   \* Update is in the loop that dials the game server
  lobby,      \* MetaModel.Connection: a link, 0 for nil
  game,       \* MetaModel.GameConnection
  links,      \* the connections made so far, in order
  backs,      \* BackToGameMsg commands that are yet to arrive
  swallowed,  \* history: a close has arrived on the shop screen
  misled      \* history: the start of another connection than the current game
              \* connection has opened the game screen

history == <<swallowed, misled>>
screensVars == <<screen, dialling, lobby, game, links, backs, history>>

Screen == {"dc", "animation", "login", "lobby", "game", "shop", "gameover",
           "redial", "quit"}
Packet == {"yes", "no", "room", "start", "shop", "close"}

\* A connection: what it leads to; the packets read or sent and not yet seen by
\* Update, "close" for the error that ends the listener; whether the listener
\* runs; the requests the server has yet to see; the server's side of it.
Link == [kind : {"lobby", "game"}, feed : Seq(Packet), listening : BOOLEAN,
         asked : Seq({"login", "room", "shop"}),
         server : {"serving", "handedOver", "waiting", "playing", "closed"}]

NewLobbyLink == [kind |-> "lobby", feed |-> <<>>, listening |-> TRUE,
                 asked |-> <<>>, server |-> "serving"]
NewGameLink  == [kind |-> "game", feed |-> <<>>, listening |-> TRUE,
                 asked |-> <<>>, server |-> "waiting"]

ScreensInit ==
  /\ screen = "dc"
  /\ dialling = FALSE
  /\ lobby = 0
  /\ game = 0
  /\ links = <<>>
  /\ backs = 0
  /\ swallowed = FALSE
  /\ misled = FALSE

\* Update runs one message at a time and is stuck while it dials.
Updating == ~dialling /\ screen \notin {"redial", "quit"}

\* What a server's side that is handed over or closed will never read is left out.
Reads(l) == links[l].server \in {"serving", "waiting", "playing"}

Asks(l, request) ==
  /\ Reads(l)
  /\ Len(links[l].asked) < MaxAsked
  /\ links' = [links EXCEPT ![l].asked = Append(@, request)]

-----------------------------------------------------------------------------
(* Keys and commands                                                       *)

\* AttemptReconnect keeps trying; ConnectionMsg arrives once.
Connect ==
  /\ screen = "dc"
  /\ Len(links) < MaxLinks
  /\ links' = Append(links, NewLobbyLink)
  /\ lobby' = Len(links) + 1
  /\ screen' = "animation"
  /\ UNCHANGED <<dialling, game, backs, history>>

PressEnter ==
  /\ screen = "animation"
  /\ screen' = "login"
  /\ UNCHANGED <<dialling, lobby, game, links, backs, history>>

\* The login or the account form is sent; the queue tab asks for a room; "p"
\* asks for the shop, and a purchase is answered as if the shop was asked for.
Ask ==
  /\ Updating
  /\ \/ screen = "login" /\ Asks(lobby, "login")
     \/ screen = "lobby" /\ Asks(lobby, "room")
     \/ screen \in {"game", "shop"} /\ game # 0 /\ Asks(game, "shop")
  /\ UNCHANGED <<screen, dialling, lobby, game, backs, history>>

LeaveShop ==
  /\ screen = "shop"
  /\ backs = 0
  /\ backs' = 1
  /\ UNCHANGED <<screen, dialling, lobby, game, links, history>>

BackToGame ==
  /\ Updating
  /\ backs > 0
  /\ backs' = backs - 1
  /\ screen' = IF screen = "shop" THEN "game" ELSE screen
  /\ UNCHANGED <<dialling, lobby, game, links, history>>

Quit ==
  /\ Updating
  /\ screen \in {"dc", "login", "lobby", "game"}
  /\ screen' = "quit"
  /\ UNCHANGED <<dialling, lobby, game, links, backs, history>>

\* The client closes a connection: what its listener has read by then still
\* comes, and the bridge to Update may hold a packet; then the read fails.
CutOff(link, n) ==
  [link EXCEPT !.server = "closed", !.asked = <<>>,
     !.feed = IF link.listening THEN Append(SubSeq(@, 1, n), "close") ELSE @]

CloseGame ==
  IF game = 0
  THEN UNCHANGED links
  ELSE \E n \in 0..Len(links[game].feed) :
         /\ \A i \in 1..n : links[game].feed[i] # "close"
         /\ links' = [links EXCEPT ![game] = CutOff(@, n)]

\* Five seconds after the game is over: the game connection is closed, and the
\* lobby server is dialled once.
GoToLobby ==
  /\ screen = "gameover"
  /\ CloseGame
  /\ game' = 0
  /\ screen' \in {"redial", "quit"}
  /\ UNCHANGED <<dialling, lobby, backs, history>>

\* The second half of the same message: Update handles nothing in between.
Redial ==
  /\ screen = "redial"
  /\ Len(links) < MaxLinks
  /\ links' = Append(links, NewLobbyLink)
  /\ lobby' = Len(links) + 1
  /\ screen' = "lobby"
  /\ UNCHANGED <<dialling, game, backs, history>>

-----------------------------------------------------------------------------
(* Packets                                                                 *)

\* What a packet does to the screen that gets it; elsewhere it is ignored.
TurnsDeaf(packet) ==
  CASE screen = "login" /\ packet = "yes"  -> "lobby"
    [] screen = "lobby" /\ packet = "start" -> "game"
    [] OTHER -> screen
Turns(packet) ==
  CASE screen = "login" /\ packet = "yes"  -> "lobby"
    [] screen = "lobby" /\ packet = "start" -> "game"
    [] screen = "game"  /\ packet = "shop"  -> "shop"
    [] screen = "game"  /\ packet = "close" -> "gameover"
    [] OTHER -> screen

\* ListenForPackets hands its next packet to Update; the close is its last.
Deliver(l) ==
  LET packet == Head(links[l].feed)
  IN  /\ Updating
      /\ links[l].listening
      /\ links[l].feed # <<>>
      /\ links' = [links EXCEPT ![l].feed = Tail(@),
                                ![l].listening = packet # "close"]
      /\ screen' = Turns(packet)
      /\ dialling' = (screen = "lobby" /\ packet = "room")
      /\ swallowed' = (swallowed \/ (screen = "shop" /\ packet = "close"))
      /\ misled' = (misled \/ (screen = "lobby" /\ packet = "start" /\ l # game))
      /\ UNCHANGED <<lobby, game, backs>>

\* The dial loop of LookRoomMsg succeeds: the spells are sent and the new
\* connection gets its listener.
Dialled ==
  /\ dialling
  /\ Len(links) < MaxLinks
  /\ links' = Append(links, NewGameLink)
  /\ game' = Len(links) + 1
  /\ dialling' = FALSE
  /\ UNCHANGED <<screen, lobby, backs, history>>

-----------------------------------------------------------------------------
(* The servers, as the client meets them until it ends                     *)

Sends(l, packet) == Append(links[l].feed, packet)
HasRoom(l) == Len(links[l].feed) < MaxFeed

AnswerLogin(l) ==
  /\ links[l].server = "serving"
  /\ links[l].asked # <<>> /\ Head(links[l].asked) = "login"
  /\ HasRoom(l)
  /\ \E answer \in {"yes", "no"} :
       links' = [links EXCEPT ![l].feed = Sends(l, answer), ![l].asked = Tail(@)]

\* ProcessClient returns once it has found a room; a ranked room is refused
\* without an answer.
KeepsServing == "serving"
AfterRoom == "handedOver"

AnswerRoom(l) ==
  /\ links[l].server = "serving"
  /\ links[l].asked # <<>> /\ Head(links[l].asked) = "room"
  /\ \/ links' = [links EXCEPT ![l].feed = Sends(l, "room"), ![l].asked = <<>>,
                               ![l].server = AfterRoom]
     \/ links' = [links EXCEPT ![l].asked = Tail(@)]

\* Nothing refers to the connection any more; when the collector finds it, its
\* finalizer closes it.
Collected(l) ==
  /\ links[l].server = "handedOver"
  /\ links' = [links EXCEPT ![l].feed = Sends(l, "close"), ![l].server = "closed"]

\* The match starts, or is announced again after a departure and a new join.
Announce(l) ==
  /\ links[l].server \in {"waiting", "playing"}
  /\ HasRoom(l)
  /\ links' = [links EXCEPT ![l].feed = Sends(l, "start"), ![l].server = "playing"]

\* A shop request, or a purchase that succeeds; one that fails has no answer.
AnswerShop(l) ==
  /\ links[l].server = "playing"
  /\ links[l].asked # <<>>
  /\ HasRoom(l)
  /\ \E feed \in {links[l].feed, Sends(l, "shop")} :
       links' = [links EXCEPT ![l].feed = feed, ![l].asked = Tail(@)]

\* The server was full, a base fell, or the writer of this client ended.
GameEnds(l) ==
  /\ links[l].server \in {"waiting", "playing"}
  /\ links' = [links EXCEPT ![l].feed = Sends(l, "close"), ![l].asked = <<>>,
                            ![l].server = "closed"]

Server(l) ==
  /\ screen # "quit"
  /\ \/ AnswerLogin(l)
     \/ AnswerRoom(l)
     \/ Collected(l)
     \/ Announce(l)
     \/ AnswerShop(l)
     \/ GameEnds(l)
  /\ UNCHANGED <<screen, dialling, lobby, game, backs, history>>

ScreensNext ==
  \/ Connect
  \/ PressEnter
  \/ Ask
  \/ LeaveShop
  \/ BackToGame
  \/ Quit
  \/ GoToLobby
  \/ Redial
  \/ Dialled
  \/ \E l \in DOMAIN links : Deliver(l) \/ Server(l)

ScreensSpec == ScreensInit /\ [][ScreensNext]_screensVars

\* Listeners, the bridge and Update keep running, commands and timers come in;
\* nothing is assumed of the player or of the servers.
ScreensFairness ==
  /\ \A l \in 1..MaxLinks : WF_screensVars(l \in DOMAIN links /\ Deliver(l))
  /\ WF_screensVars(BackToGame)
  /\ WF_screensVars(GoToLobby)
  /\ WF_screensVars(Redial)

FairScreensSpec == ScreensSpec /\ ScreensFairness

-----------------------------------------------------------------------------
(* Properties                                                              *)

\* Every game connection that is still open is the one the client would close:
\* it never keeps a seat in a match it has left, nor two seats.  This ends when
\* the start announced on a connection that was closed is taken for the start of
\* the next match: the room that was asked for comes after that, too.
OneGameConnection ==
  ~misled =>
    \A l \in DOMAIN links :
      links[l].kind = "game" /\ links[l].server # "closed" => l = game

\* A player whose game connection has ended does not stay on its screen, unless
\* a close came while the shop was shown, or the start of another connection than
\* the current one has opened that screen.
CloseIsNoticed ==
  \A l \in 1..MaxLinks :
    screen = "game" /\ game = l /\ l \in DOMAIN links /\ links[l].server = "closed"
    ~> screen \in {"gameover", "lobby", "quit"} \/ swallowed \/ misled

=============================================================================
