--------------------------- MODULE MCGameSession ----------------------------
(* GameSession on small sets of connections.                               *)
EXTENDS GameSession
=============================================================================
