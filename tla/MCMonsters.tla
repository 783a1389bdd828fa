----------------------------- MODULE MCMonsters -----------------------------
(* Two champions and one monster in a corridor; a tower shoots from afar.  *)
EXTENDS Monsters

MCHome      == (1 :> <<0, 0>>) @@ (2 :> <<0, 4>>)
MCSpawnCell == ("wolf" :> <<0, 3>>)
=============================================================================
