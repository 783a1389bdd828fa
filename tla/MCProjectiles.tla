--------------------------- MODULE MCProjectiles ---------------------------
(* A champion, a minion of its team and an enemy tower on a small board.   *)
(* Player ids count from 1 and minion ids are drawn from 1..99998, so ids  *)
(* of units are also ids of projectiles.                                   *)
EXTENDS Projectiles

MCUnit  == {1, 2, 50}
MCKind  == (1 :> "minion") @@ (2 :> "champion") @@ (50 :> "tower")
MCTeam  == (1 :> "Red") @@ (2 :> "Red") @@ (50 :> "Blue")
MCStart == (1 :> <<1, 0>>) @@ (2 :> <<0, 1>>) @@ (50 :> <<0, 2>>)
MCDirection == {<<0, -1>>, <<0, 1>>}
MCTowerRange == <<2, 3>>
MCBudget == {<<2, 0>>, <<1, 2>>}
=============================================================================
