------------------------------ MODULE MCBattle ------------------------------
(* Two rows of five cells: the blue base and the shared return cell on the *)
(* left, a blue tower, and the red spawn on the right, where eve starts.   *)
EXTENDS Battle

MCTeamOf   == ("ann" :> "Blue") @@ ("eve" :> "Red") @@ ("t1" :> "Blue")
MCHome     == ("ann" :> <<1, 0>>) @@ ("eve" :> <<0, 4>>)
MCBaseCell == <<1, 0>>
MCCorner   == ("t1" :> <<1, 1>>)
MCFort     == ("Blue" :> {<<0, 0>>}) @@ ("Red" :> {})
MCLane     == << [team |-> "Red",  spawn |-> <<0, 4>>, goals |-> << <<0, 3>>, <<0, 0>> >>] >>
MCReach    == <<2, 3>>
MCAggro    == <<2, 4>>
MCView     == <<1, 3>>
MCSymmetry == Permutations(MinionId)
=============================================================================
