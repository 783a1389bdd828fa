------------------------------- MODULE MCLobby -------------------------------
(***************************************************************************)
(* The Go server's two halves side by side.  They share no variable and    *)
(* nothing but the kind of an answer: EventBroker may answer "room" at any *)
(* time, and in Matchmaking any player may be told a room at any time.     *)
(* Neither can tell what the other does in between, so a behaviour here    *)
(* moves one of them only, and every behaviour of either is one here.      *)
(***************************************************************************)
EXTENDS EventBroker, Matchmaking

LobbyInit == BrokerInit /\ MatchInit

RequestsOnly == MatchInit /\ BrokerNext /\ UNCHANGED matchVars
RoomsOnly    == BrokerInit /\ MatchNext /\ UNCHANGED brokerVars

LobbySpec == LobbyInit /\ [][RequestsOnly \/ RoomsOnly]_<<brokerVars, matchVars>>

FairLobbySpec == LobbySpec /\ BrokerFairness /\ \A c \in Client : WF_matchVars(Dial(c))

=============================================================================
