------------------------------ MODULE Champion ------------------------------
(***************************************************************************)
(* One champion of a match: its growth by rewards and items, its mana, its *)
(* deaths and its stuns, through the ticks of the match and the purchases  *)
(* that its player's task makes between two ticks, when it gets the lock.  *)
(*                                                                         *)
(* A tick is a beginning (the pass over the buffs and the turn of the      *)
(* champion), the effects that hit it, and an end with its rewards.  Where *)
(* it walks, who hits it and what its spells do is the business of Battle  *)
(* and Projectiles.  Time is counted in units of which one or more pass    *)
(* from tick to tick, as the sleep of the tick task may be late.           *)
(***************************************************************************)
EXTENDS Integers, Sequences, FiniteSets, FiniteSetsExt

CONSTANTS
  Base,        \* ChampionStats at level one: [health, attack, armor]
  Increase,    \* what a level adds, likewise
  XpPerLevel,  \* sequence: what each level but the last takes
  Item, Cost,  \* items and [Item -> their cost]
  Bonus,       \* [Item -> [health, attack, armor]]
  Slots,       \* size of the inventory
  Mana,        \* max_mana
  SpellCost, Cooldown,  \* [chosen slots -> mana_cost], [chosen slots -> cooldown_secs]
  TimerScale,  \* the ten seconds of a death timer
  StunTime,    \* stun_duration
  GoldMax,     \* greatest u16
  DeathsMax,   \* greatest u8
  Blow, HealAmount, \* damage and healing that may arrive
  Flight,      \* time a freeze wall may fly
  Reward,      \* what a dead monster or minion may be worth: [xp, gold]
  Lag,         \* bound: longest time between two ticks
  MaxTime, MaxWalls, MaxEffects, MaxEarned
               \* bounds: the clock, walls cast, effects in a tick, xp and gold earned

ASSUME StatsAssumption ==
  /\ {Base, Increase} \cup {Bonus[i] : i \in Item} \subseteq [health : Nat, attack : Nat, armor : Nat]
  /\ Base.health > 0
ASSUME BooksAssumption ==
  /\ XpPerLevel \in Seq(Nat \ {0})
  /\ Cost \in [Item -> 0..GoldMax]
  /\ IsFiniteSet(DOMAIN SpellCost)
  /\ SpellCost \in [DOMAIN SpellCost -> Nat] /\ Cooldown \in [DOMAIN SpellCost -> Nat]
  /\ Reward \subseteq [xp : Nat, gold : Nat]
ASSUME NumbersAssumption ==
  /\ {Slots, Mana, GoldMax, DeathsMax, StunTime, Flight, MaxTime, MaxWalls, MaxEffects, MaxEarned}
       \cup Blow \cup HealAmount \subseteq Nat
  /\ {TimerScale, Lag} \subseteq Nat \ {0}
  /\ Lag <= TimerScale

VARIABLES
  level, xp, gold, inventory, stats,  \* growth; stats is [health: max_health, attack, armor]
  health, deaths, deathTimer,         \* death_counter, and the end of the last death
  mana, lastCast,                     \* and when each slot was cast last
  stunTimer, buff,                    \* end of the stun; when the active buff was created
  now, phase, walls,                  \* the clock, "between" or "effects", walls in flight
  outcome,                            \* of the tick task: "running" or "crashed"
  effects,                            \* counter for a bound
  earned, casts, wounds, turn, lastWall, killed
    \* history: rewards, casts per slot, health missing, the turn of this tick, when the
    \* wall that hit last was cast, when the champion was killed last

growth  == <<level, xp, gold, inventory, stats>>
body    == <<health, deaths, deathTimer, wounds, killed>>
magic   == <<mana, lastCast, casts>>
stun    == <<stunTimer, buff, lastWall>>
tick    == <<now, phase, walls, turn, effects>>
vars    == <<growth, body, magic, stun, tick, outcome, earned>>

Never == -1
Empty == "no item"
ASSUME EmptyAssumption == Empty \notin Item

Init ==
  /\ level = 1 /\ xp = 0 /\ gold = 0
  /\ inventory = [s \in 1..Slots |-> Empty]
  /\ stats = Base
  /\ health = Base.health /\ deaths = 0 /\ deathTimer = 0
  /\ mana = Mana /\ lastCast = [s \in DOMAIN SpellCost |-> Never]
  /\ stunTimer = 0 /\ buff = Never
  /\ now = 0 /\ phase = "between" /\ walls = {} /\ outcome = "running" /\ effects = 0
  /\ earned = [xp |-> 0, gold |-> 0]
  /\ casts = [s \in DOMAIN SpellCost |-> 0]
  /\ wounds = 0 /\ turn = "none" /\ lastWall = Never /\ killed = Never

-----------------------------------------------------------------------------
(* Growth                                                                  *)

Filled(items) == {s \in 1..Slots : items[s] # Empty}

\* What recalculate_stats computes from the level and the items.
Totals(lvl, items) ==
  LET Total(base, increase, bonus) == base + increase * (lvl - 1) + SumFunction(bonus)
      filled == Filled(items)
  IN  [health |-> Total(Base.health, Increase.health, [s \in filled |-> Bonus[items[s]].health]),
       attack |-> Total(Base.attack, Increase.attack, [s \in filled |-> Bonus[items[s]].attack]),
       armor  |-> Total(Base.armor,  Increase.armor,  [s \in filled |-> Bonus[items[s]].armor])]

RecalculateStatsHeals(lvl, items) ==
  stats' = Totals(lvl, items) /\ health' = stats'.health

\* recalculate_stats: health grows with max_health, of the dead as of the living.
RecalculateStats(lvl, items) ==
  /\ stats' = Totals(lvl, items)
  /\ health' = LET more == Max({0, stats'.health - stats.health})
               IN  Min({stats'.health, health + more})

XpSpent(lvl) == SumFunctionOnSet(XpPerLevel, 1..lvl - 1)

\* The level that the loop of add_xp ends with, and the xp that is left.
LevelWith(all) == Max({l \in level..Len(XpPerLevel) + 1 : XpSpent(l) - XpSpent(level) <= all})
XpLeft(all) == all - (XpSpent(LevelWith(all)) - XpSpent(level))

AddXp(amount) ==
  /\ level' = LevelWith(xp + amount)
  /\ xp' = XpLeft(xp + amount)
  /\ IF level' = level THEN UNCHANGED <<stats, health>> ELSE RecalculateStats(level', inventory)

\* An item that can be paid goes to the first free slot; without one nothing
\* happens.
AddItem(i) ==
  /\ gold >= Cost[i]
  /\ \E s \in 1..Slots \ Filled(inventory) :
       /\ 1..s - 1 \subseteq Filled(inventory)
       /\ gold' = gold - Cost[i]
       /\ inventory' = [inventory EXCEPT ![s] = i]
       /\ RecalculateStats(level, inventory')

\* Code 16: the player's task buys a known item when it gets the lock.
Purchase(i) ==
  /\ phase = "between"
  /\ AddItem(i)
  /\ UNCHANGED <<level, xp, deaths, deathTimer, wounds, killed, magic, stun, tick, outcome, earned>>

-----------------------------------------------------------------------------
(* The beginning of a tick                                                 *)

\* The pass over the buffs: on_tick counts from the creation of the buff.
Expired == now' - buff > StunTime

\* set_stunned, to the end of the stun or to None, which is 0
SetStunned(end) == stunTimer' = end

OnRemove == buff' = Never /\ SetStunned(0)
BuffPass == IF buff # Never /\ Expired THEN OnRemove ELSE UNCHANGED <<buff, stunTimer>>

IsDead    == now' <= deathTimer
IsStunned == now' < stunTimer'

\* Spell::cast of every spell: the cooldown, then the mana.
OffCooldown(s) == lastCast[s] = Never \/ now' - lastCast[s] >= Cooldown[s]

PayOnCredit(s) == mana' = Max({0, mana - SpellCost[s]})
Pay(s) == mana >= SpellCost[s] /\ mana' = mana - SpellCost[s]

Cast(s) ==
  /\ OffCooldown(s)
  /\ Pay(s)
  /\ lastCast' = [lastCast EXCEPT ![s] = now']
  /\ casts' = [casts EXCEPT ![s] = @ + 1]

\* put_at_max_health, at each turn of the dead.
Return ==
  /\ turn' = "dead"
  /\ health' = stats.health
  /\ wounds' = 0
  /\ UNCHANGED magic

\* What becomes of the turn: any other action leaves the champion's books alone.
TakeTurn ==
  IF IsDead THEN Return
  ELSE /\ UNCHANGED <<health, wounds>>
       /\ IF IsStunned THEN turn' = "stunned" /\ UNCHANGED magic
          ELSE /\ turn' = "free"
               /\ UNCHANGED magic \/ \E s \in DOMAIN SpellCost : Cast(s)

\* The enemies have their turns as well and may cast a wall, whose stun is created
\* then.  Bound: MaxWalls.
EnemiesCast ==
  LET flying == {w \in walls : now' - w <= Flight}
  IN  walls' = flying \/ (Cardinality(flying) < MaxWalls /\ walls' = flying \cup {now'})

BeginTick ==
  /\ phase = "between" /\ outcome = "running"
  /\ \E d \in 1..Lag : now' = now + d
  /\ now' <= MaxTime
  /\ BuffPass
  /\ TakeTurn
  /\ EnemiesCast
  /\ phase' = "effects" /\ effects' = 0
  /\ UNCHANGED <<growth, deaths, deathTimer, killed, lastWall, outcome, earned>>

-----------------------------------------------------------------------------
(* The effects of a tick                                                   *)

ReducedDamage(damage) == damage \div (1 + stats.armor \div 100)

\* (sqrt(n) * 10) truncated
Timer(n) == Max({s \in 0..n * TimerScale : s * s <= n * TimerScale * TimerScale})

DieOnlyOnce ==
  IF now <= deathTimer THEN UNCHANGED <<deaths, deathTimer, outcome, phase>> /\ killed' = now
  ELSE /\ deaths' = deaths + 1
       /\ deathTimer' = now + Timer(deaths + 1)
       /\ killed' = now
       /\ UNCHANGED <<outcome, phase>>

\* A death: the counter first, whose overflow stops the task of the tick.
Die ==
  IF deaths = DeathsMax
  THEN /\ outcome' = "crashed" /\ phase' = "between"
       /\ UNCHANGED <<deaths, deathTimer, killed>>
  ELSE /\ deaths' = deaths + 1
       /\ deathTimer' = now + Timer(deaths + 1)
       /\ killed' = now
       /\ UNCHANGED <<outcome, phase>>

\* take_effect with Damage: the timer starts at every hit that leaves no health.
Damage(amount) ==
  /\ health' = Max({0, health - ReducedDamage(amount)})
  /\ wounds' = Min({stats.health, wounds + ReducedDamage(amount)})
  /\ IF health' = 0 THEN Die ELSE UNCHANGED <<deaths, deathTimer, killed, outcome, phase>>

\* with Heal, which the dead get as well
Heal(amount) ==
  /\ health' = Min({stats.health, health + amount})
  /\ wounds' = Max({0, wounds - amount})
  /\ UNCHANGED <<deaths, deathTimer, killed, outcome, phase>>

StunKeepsFirst(w) ==
  /\ SetStunned(now + StunTime)
  /\ buff' = IF buff = Never THEN w ELSE buff
  /\ lastWall' = w

\* with Buff, which replaces the one there is
Stun(w) ==
  /\ SetStunned(now + StunTime)
  /\ buff' = w
  /\ lastWall' = w

\* One effect list of the tick reaches the champion.  Bound: MaxEffects.
TakeEffect ==
  /\ phase = "effects" /\ effects < MaxEffects
  /\ effects' = effects + 1
  /\ \/ \E d \in Blow : Damage(d) /\ UNCHANGED stun
     \/ \E h \in HealAmount : Heal(h) /\ UNCHANGED stun
     \/ \E w \in walls, d \in Blow :
          Damage(d) /\ IF outcome' = "crashed" THEN UNCHANGED stun ELSE Stun(w)
  /\ UNCHANGED <<growth, magic, now, walls, turn, earned>>

AddGoldSaturates(amount) ==
  gold' = Min({GoldMax, gold + amount}) /\ UNCHANGED outcome

\* add_gold, whose overflow stops the task of the tick.
AddGold(amount) ==
  IF gold + amount > GoldMax
  THEN outcome' = "crashed" /\ UNCHANGED gold
  ELSE gold' = gold + amount /\ UNCHANGED outcome

\* The rewards of a tick; the sum of several is one.  Bound: MaxEarned.
EndTick ==
  /\ phase = "effects"
  /\ phase' = "between" /\ turn' = "none" /\ effects' = 0
  /\ \/ UNCHANGED <<growth, health, outcome, earned>>
     \/ \E r \in Reward :
          /\ {earned.xp + r.xp, earned.gold + r.gold} \subseteq 0..MaxEarned
          /\ AddXp(r.xp) /\ AddGold(r.gold)
          /\ earned' = [xp |-> earned.xp + r.xp,
                        gold |-> IF outcome' = "crashed" THEN earned.gold ELSE earned.gold + r.gold]
          /\ UNCHANGED inventory
  /\ UNCHANGED <<deaths, deathTimer, wounds, killed, magic, stun, now, walls>>

Next ==
  \/ \E i \in Item : Purchase(i)
  \/ BeginTick
  \/ TakeEffect
  \/ EndTick

Spec == Init /\ [][Next]_vars

-----------------------------------------------------------------------------
(* Properties                                                              *)

\* The books of a champion balance, however rewards, purchases and casts follow
\* each other: no gold, xp or mana is lost, made or spent twice.
BooksBalance ==
  /\ gold + SumFunction([s \in Filled(inventory) |-> Cost[inventory[s]]]) = earned.gold
  /\ xp + XpSpent(level) = earned.xp
  /\ level <= Len(XpPerLevel) => xp < XpPerLevel[level]
  /\ mana + SumFunction([s \in DOMAIN SpellCost |-> SpellCost[s] * casts[s]]) = Mana

\* The stats are those of the level and the items, whichever came first, and
\* what a champion gains keeps its wounds: growth neither heals nor hurts.
StatsAreSums ==
  /\ stats = Totals(level, inventory)
  /\ health = stats.health - wounds

\* A stun lasts as long as the wall that hit last is not older than the stun's
\* duration: it is counted from the cast, and neither an earlier wall nor the
\* time of the hit makes it longer or shorter.
StunIsTheLastWalls ==
  [][now' # now =>
       /\ turn' = "stunned" => lastWall # Never /\ now' - lastWall <= StunTime
       /\ turn' = "free" /\ lastWall # Never => now' - lastWall >= StunTime]_vars

\* A champion has no turn before the whole timer of its deaths has passed since it
\* was killed last, also when it is killed again while dead, and has health then.
DeadStayAway ==
  [][now' # now /\ turn' # "dead" =>
       health > 0 /\ (killed # Never => now' - killed > Timer(deaths))]_vars

-----------------------------------------------------------------------------
(* What the documents say and the code does not do                         *)

\* buff_mechanism.md:31: on_tick "checks if the elapsed time since application is
\* greater than its duration".  So a stun that is over has lasted from its
\* application, when its timer was set to StunTime later.
StunLastsFromApplication ==
  [][buff # Never /\ buff' = Never => now' > stunTimer]_vars

=============================================================================
