----------------------------- MODULE MCChampion -----------------------------
EXTENDS Champion, TLC

MCBase       == [health |-> 2, attack |-> 1, armor |-> 99]
MCIncrease   == [health |-> 1, attack |-> 1, armor |-> 1]
MCXpPerLevel == <<1, 2>>
MCCost       == [i \in Item |-> 1]
MCBonus      == [i \in Item |-> [health |-> 1, attack |-> 0, armor |-> 0]]
MCSpellCost  == (0 :> 1) @@ (1 :> 2)
MCCooldown   == (0 :> 2) @@ (1 :> 1)
MCReward     == {[xp |-> 1, gold |-> 1], [xp |-> 3, gold |-> 2]}
=============================================================================
