----------------------------- MODULE Matchmaking -----------------------------
(***************************************************************************)
(* How players get from the Go server into a game: RoomManager.FindRoom    *)
(* and StartGame (server/room_manager), the game server processes they     *)
(* start, one per port, and the clients that dial the port they were sent  *)
(* to.  FindRoom runs in the broker's only goroutine, so each call is one  *)
(* step.  Inside a process only what the room manager relies on is kept:   *)
(* who is seated, and whether the match has run (GameSession implements    *)
(* exactly this life cycle).                                               *)
(***************************************************************************)
EXTENDS Naturals, FiniteSets

CONSTANTS
  Client,        \* players, each asking for one room
  FirstPort,     \* 50053 in the code
  LastPort,      \* 50153 in the code
  ClassicSeats,  \* getMaxPlayers(CLASSIC), 8 in the code
  Absent

ASSUME PortAssumption ==
  FirstPort \in Nat /\ LastPort \in Nat /\ FirstPort <= LastPort
ASSUME SeatsAssumption == ClassicSeats \in Nat /\ ClassicSeats > 1
ASSUME PlayerAssumption == IsFiniteSet(Client)

Port  == FirstPort..LastPort
Seats == {1, ClassicSeats}

VARIABLES
  portCounter,   \* the next port to hand out
  classicRooms,  \* ClassicRooms: port -> PlayersIn, 0 for no entry
  opened,        \* history: port -> number of the classic room of its entry
  process,       \* port -> the process bound to it, or Absent
  player,        \* [Client -> Stage]
  sentTo,        \* [Client -> Port or Absent]: RoomIP of the LookRoomPacket
  room,          \* history: [Client -> Nat], the number of the room it was
                 \* given, 0 before
  roomCount      \* history: how many rooms have been created

roomVars  == <<portCounter, classicRooms, opened, roomCount>>
matchVars == <<roomVars, process, player, sentTo, room>>

\* asking -> dialling -> seated -> left; a full server turns a client away.
Stage == {"asking", "dialling", "seated", "left"}

\* A game server process: the room it was started for, its --max-players, the
\* connections it has seated, and whether its match has been started.
Process == [room : Nat, seats : Seats, members : SUBSET Client, hasRun : BOOLEAN]

ASSUME AbsentAssumption == Absent \notin Process

MatchInit ==
  /\ portCounter = FirstPort
  /\ classicRooms = [port \in Port |-> 0]
  /\ opened = [port \in Port |-> 0]
  /\ process = [port \in Port |-> Absent]
  /\ player = [c \in Client |-> "asking"]
  /\ sentTo = [c \in Client |-> Absent]
  /\ room = [c \in Client |-> 0]
  /\ roomCount = 0

-----------------------------------------------------------------------------
(* RoomManager                                                             *)

\* portCounter++ and the wrap.
SamePort(port) == port
NextPort(port) == IF port + 1 > LastPort THEN FirstPort ELSE port + 1

\* StartGame starts a process, unless its log file cannot be opened.  A new
\* process that finds its port taken exits.  FindRoom learns of neither.
StartGame(port, seats) ==
  \/ UNCHANGED process
  \/ /\ process[port] = Absent
     /\ process' = [process EXCEPT ![port] =
                      [room |-> roomCount + 1, seats |-> seats,
                       members |-> {}, hasRun |-> FALSE]]

\* A room nobody else is in yet, on the next port.
OpenRoom(c, seats) ==
  /\ StartGame(portCounter, seats)
  /\ portCounter' = NextPort(portCounter)
  /\ roomCount' = roomCount + 1
  /\ room' = [room EXCEPT ![c] = roomCount + 1]
  /\ sentTo' = [sentTo EXCEPT ![c] = portCounter]

Told(c) == player' = [player EXCEPT ![c] = "dialling"]

FindSoloRoom(c) ==
  /\ player[c] = "asking"
  /\ OpenRoom(c, 1)
  /\ Told(c)
  /\ UNCHANGED <<classicRooms, opened>>

HasSpace(port) == classicRooms[port] \in 1..(ClassicSeats - 1)

\* PlayersIn++, and an entry whose last seat is taken leaves the map.
NeverFull(playersIn) == playersIn + 1
NeverCounted(playersIn) == playersIn
OneMore(playersIn) ==
  IF playersIn + 1 = ClassicSeats THEN 0 ELSE playersIn + 1

\* The map is walked in any order.
JoinClassicRoom(c) ==
  /\ player[c] = "asking"
  /\ \E port \in Port :
       /\ HasSpace(port)
       /\ classicRooms' = [classicRooms EXCEPT ![port] = OneMore(@)]
       /\ sentTo' = [sentTo EXCEPT ![c] = port]
       /\ room' = [room EXCEPT ![c] = opened[port]]
  /\ Told(c)
  /\ UNCHANGED <<portCounter, opened, roomCount, process>>

OpenClassicRoom(c) ==
  /\ player[c] = "asking"
  /\ \A port \in Port : ~HasSpace(port)
  /\ OpenRoom(c, ClassicSeats)
  /\ classicRooms' = [classicRooms EXCEPT ![portCounter] = 1]
  /\ opened' = [opened EXCEPT ![portCounter] = roomCount + 1]
  /\ Told(c)

-----------------------------------------------------------------------------
(* Clients and game server processes                                       *)

\* game_started: set by the connection that takes the last seat.
FillsLate(count, seats) == count > seats
Fills(count, seats) == count = seats

\* The client dials until the port answers; the process seats it or, when it
\* is full, tells it so and hangs up.
Dial(c) ==
  LET here == process[sentTo[c]]
  IN  /\ player[c] = "dialling"
      /\ here # Absent
      /\ IF Cardinality(here.members) < here.seats
         THEN /\ process' = [process EXCEPT ![sentTo[c]] =
                   [@ EXCEPT !.members = here.members \cup {c},
                             !.hasRun = here.hasRun \/
                               Fills(Cardinality(here.members) + 1, here.seats)]]
              /\ player' = [player EXCEPT ![c] = "seated"]
         ELSE /\ player' = [player EXCEPT ![c] = "left"]
              /\ UNCHANGED process
      /\ UNCHANGED <<roomVars, sentTo, room>>

\* The client goes away, seated or not; the room manager is never told.
Leave(c) ==
  /\ player[c] \in {"dialling", "seated"}
  /\ process' = [port \in Port |->
                   IF player[c] = "seated" /\ port = sentTo[c]
                   THEN [process[port] EXCEPT !.members = @ \ {c}]
                   ELSE process[port]]
  /\ player' = [player EXCEPT ![c] = "left"]
  /\ UNCHANGED <<roomVars, sentTo, room>>

\* A base falls: the process exits and its port is free again.  There is no
\* other way for a process to end.
GameOver(port) ==
  /\ process[port] # Absent
  /\ process[port].hasRun
  /\ process' = [process EXCEPT ![port] = Absent]
  /\ player' = [c \in Client |->
                  IF c \in process[port].members THEN "left" ELSE player[c]]
  /\ UNCHANGED <<roomVars, sentTo, room>>

FindRoom(c) == FindSoloRoom(c) \/ JoinClassicRoom(c) \/ OpenClassicRoom(c)

MatchNext ==
  \/ \E c \in Client : FindRoom(c) \/ Dial(c) \/ Leave(c)
  \/ \E port \in Port : GameOver(port)

MatchSpec == MatchInit /\ [][MatchNext]_matchVars

\* A client keeps dialling.
FairMatchSpec == MatchSpec /\ \A c \in Client : WF_matchVars(Dial(c))

-----------------------------------------------------------------------------
(* Properties                                                              *)

MatchTypeOK ==
  /\ portCounter \in Port
  /\ classicRooms \in [Port -> 0..ClassicSeats]
  /\ opened \in [Port -> 0..roomCount]
  /\ process \in [Port -> Process \cup {Absent}]
  /\ player \in [Client -> Stage]
  /\ sentTo \in [Client -> Port \cup {Absent}]
  /\ room \in [Client -> 0..roomCount]
  /\ roomCount \in Nat

\* At most one classic room is open at any time, and it has a seat to give: a
\* player is never sent to an open second room while one waits to be filled,
\* so which room the walk over the map meets first does not matter.
OneOpenRoom ==
  /\ Cardinality({port \in Port : classicRooms[port] # 0}) <= 1
  /\ \A port \in Port : classicRooms[port] < ClassicSeats

InRoom(r) == {c \in Client : room[c] = r}

\* No room is promised to more players than it seats, and the entry of an open
\* room counts the players promised a seat in it, though it never counts down.
NoRoomOversold ==
  /\ \A r \in 1..roomCount : Cardinality(InRoom(r)) <= ClassicSeats
  /\ \A port \in Port :
       classicRooms[port] # 0 =>
         Cardinality(InRoom(opened[port])) = classicRooms[port]

\* While no port has been given to two rooms, every player sits in a process
\* that was started for its room.
SeatedInOwnRoom ==
  roomCount <= Cardinality(Port) =>
  \A c \in Client :
    player[c] = "seated" => process[sentTo[c]].room = room[c]

\* A room whose every promised seat is claimed by a client that stays gets its
\* match: the members all reach the process, and the process starts.
FullRoomPlays ==
  \A r \in 1..Cardinality(Client) :
    (\E port \in Port : process[port] # Absent /\ process[port].room = r
                        /\ Cardinality(InRoom(r)) = process[port].seats)
      ~> \/ \E c \in InRoom(r) : player[c] = "left"
         \/ \E port \in Port : process[port] # Absent /\ process[port].room = r
                               /\ process[port].hasRun

=============================================================================
