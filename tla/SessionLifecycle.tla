-------------------------- MODULE SessionLifecycle --------------------------
(***************************************************************************)
(* What one game server process promises about a match, without handlers,  *)
(* player ids, channels or the tick task: a set of members that never      *)
(* exceeds the number of seats, a match that runs exactly while every seat *)
(* is taken, and an end of the match that only a match that has run        *)
(* reaches and that nothing follows.                                       *)
(*                                                                         *)
(* GameSession is shown to implement this module.                          *)
(***************************************************************************)
EXTENDS Naturals, FiniteSets

CONSTANTS
  Client,      \* the connections that may ever reach this server
  MaxPlayers   \* seats: the --max-players argument of the process

VARIABLES
  members,     \* the clients seated in the match
  running,     \* whether the match is being played
  hasRun,      \* whether it has ever been played
  over         \* whether the process has ended

lifecycleVars == <<members, running, hasRun, over>>

Init ==
  /\ members = {}
  /\ running = FALSE
  /\ hasRun = FALSE
  /\ over = FALSE

Join(c) ==
  /\ ~over
  /\ c \notin members
  /\ Cardinality(members) < MaxPlayers
  /\ members' = members \cup {c}
  /\ running' = (Cardinality(members') = MaxPlayers)
  /\ hasRun' = (hasRun \/ running')
  /\ UNCHANGED over

Leave(c) ==
  /\ ~over
  /\ c \in members
  /\ members' = members \ {c}
  /\ running' = FALSE
  /\ UNCHANGED <<hasRun, over>>

Finish ==
  /\ ~over
  /\ hasRun
  /\ over' = TRUE
  /\ UNCHANGED <<members, running, hasRun>>

Next ==
  \/ \E c \in Client : Join(c) \/ Leave(c)
  \/ Finish

Spec == Init /\ [][Next]_lifecycleVars

=============================================================================
