---------------------------- MODULE Projectiles ----------------------------
(***************************************************************************)
(* The projectile manager of a match: what towers and spells put in flight,*)
(* the pass that moves every projectile once per tick, what a hit does to  *)
(* the units of the match, and what projectiles and the strokes of melee   *)
(* attacks leave drawn on the board at the end of the tick.  The pass      *)
(* walks a HashMap, so the projectiles are met in any order.               *)
(*                                                                         *)
(* A unit is an entry of the champions, minions or towers map; it stands   *)
(* on one cell (a real tower covers four).  Damage and healing count       *)
(* points.  How units walk, fight and leave is the business of other       *)
(* modules: here they move and vanish at any time between two passes.      *)
(***************************************************************************)
EXTENDS Grid

CONSTANTS
  Unit,       \* ids of the units; champions, minions and towers
  Kind,       \* [Unit -> {"champion", "minion", "tower"}]
  Team,       \* [Unit -> the team]
  Start,      \* [Unit -> the cell it starts on]
  Health,     \* points of a whole unit
  Speed,      \* ticks per cell, stats of spells and towers
  SpellRange,      \* SpellStats.range
  WallWidth,  \* SpellStats.width of the freeze wall
  TowerRange, \* attack_range of a tower, rows and columns
  Cycle,      \* cycle of a MeleeAnimation: the frames it is drawn for
  Direction,  \* unit vectors in which champions face and minions walk
  Budget      \* bound: pairs of the projectiles and the strokes there may be

ASSUME UnitAssumption ==
  /\ Unit \subseteq Nat
  /\ Kind \in [Unit -> {"champion", "minion", "tower"}]
  /\ Start \in [Unit -> Cell] /\ \A u, v \in Unit : Start[u] = Start[v] => u = v
ASSUME NumberAssumption ==
  /\ {Health, Speed, SpellRange} \subseteq Nat \ {0}
  /\ WallWidth \in Nat
  /\ Cycle \in 1..8
  /\ TowerRange \in (1..Rows) \X (1..Cols)
  /\ Direction \subseteq {<<-1, 0>>, <<1, 0>>, <<0, -1>>, <<0, 1>>}
ASSUME BudgetAssumption ==
  /\ Budget \subseteq Nat \X Nat
  /\ \E most \in Budget : \A b \in Budget : b[1] <= most[1]

VARIABLES
  units,        \* [a subset of Unit -> [pos, health]]
  projectiles,  \* [ids -> Projectile]
  nextId,       \* next_projectile_id
  animations,   \* of melee attacks: {[owner, frame, last: the cell drawn last]}
  drawn,        \* [Cell -> its animation: "none", "shot" or "stroke"]
  hits,         \* history: how many units each projectile has hit
  age,          \* history: passes each skill shot has been through
  strokes       \* counter for a bound: melee attacks

vars == <<units, projectiles, nextId, animations, drawn, hits, age, strokes>>

MaxShots == Max({b[1] : b \in Budget})
Spell == {"fireball", "freeze wall", "healing wave"}

UnitsAt(c) == {u \in DOMAIN units : units[u].pos = c}

Init ==
  /\ units = [u \in Unit |-> [pos |-> Start[u], health |-> Health]]
  /\ projectiles = <<>>
  /\ nextId = 0
  /\ animations = {} /\ strokes = 0
  /\ drawn = [c \in Cell |-> "none"]
  /\ hits = [i \in 0..MaxShots - 1 |-> 0]
  /\ age = hits

-----------------------------------------------------------------------------
(* Creation                                                                *)

\* saturating_sub and saturating_add on coordinates
Shift(c, dir, n) == <<Max({0, c[1] + n * dir[1]}), Max({0, c[2] + n * dir[2]})>>

Sign(n) == IF n > 0 THEN 1 ELSE IF n < 0 THEN -1 ELSE 0

\* Bresenham::new(a, b).collect() for cells of one row or one column.
Line(a, b) ==
  LET dir == <<Sign(b[1] - a[1]), Sign(b[2] - a[2])>>
      length == Distance(a, b)
  IN  [i \in 1..length + 1 |-> Shift(a, dir, i - 1)]

NoTarget == -1

SkillShot(team, payload, a, b) ==
  [team |-> team, payload |-> payload, pos |-> a, path |-> Line(a, b),
   target |-> NoTarget, wait |-> 0]

HomingShot(team, a, u) ==
  [team |-> team, payload |-> "damage", pos |-> a, path |-> <<>>,
   target |-> u, wait |-> 0]

\* The projectiles get the next ids in the order they are created.
Create(shots) ==
  /\ \E b \in Budget : nextId + Len(shots) <= b[1] /\ strokes <= b[2]
  /\ projectiles' = [i \in DOMAIN projectiles \cup nextId..(nextId + Len(shots) - 1) |->
                       IF i < nextId THEN projectiles[i] ELSE shots[i - nextId + 1]]
  /\ nextId' = nextId + Len(shots)

\* The closest cells in a tower's window with an enemy champion or minion.
InRange(t) ==
  Closest(Middle(units[t].pos, TowerRange),
          {c \in CenterView(units[t].pos, TowerRange) :
             \E u \in UnitsAt(c) : Kind[u] # "tower" /\ Team[u] # Team[t]})

\* tower_turn
TowerShoots(t, u) ==
  /\ {t, u} \subseteq DOMAIN units
  /\ Kind[t] = "tower" /\ Kind[u] # "tower" /\ Team[t] # Team[u]
  /\ units[u].pos \in InRange(t)
  /\ Create(<<HomingShot(Team[t], units[t].pos, u)>>)
  /\ UNCHANGED <<units, animations, drawn, hits, age, strokes>>

\* From the cell in front of the caster over the range.
Fireball(team, c, dir) ==
  <<SkillShot(team, "damage", Shift(c, dir, 1), Shift(c, dir, SpellRange))>>
HealingWave(team, c, dir) ==
  <<SkillShot(team, "heal", Shift(c, dir, 1), Shift(c, dir, SpellRange))>>

\* The wall is width shots side by side, counted from the caster's axis.
Wall(team, c, dir) ==
  [i \in 1..WallWidth |->
     LET across == <<AbsDiff(0, dir[2]), AbsDiff(0, dir[1])>>
         from == Shift(Shift(c, dir, 1), across, i - 1 - WallWidth \div 2)
     IN  SkillShot(team, "damage", from, Shift(from, dir, SpellRange))]

\* Spell::cast once cooldown and mana allow it, which is the business of Champion;
\* create_from_blueprint makes a skill shot of each blueprint.
Cast(u, spell, dir) ==
  /\ u \in DOMAIN units
  /\ Kind[u] = "champion"
  /\ LET c == units[u].pos
     IN  Create(CASE spell = "fireball"     -> Fireball(Team[u], c, dir)
                  [] spell = "healing wave" -> HealingWave(Team[u], c, dir)
                  [] spell = "freeze wall"  -> Wall(Team[u], c, dir))
  /\ UNCHANGED <<units, animations, drawn, hits, age, strokes>>

-----------------------------------------------------------------------------
(* The pass                                                                *)

\* A homing projectile whose target has left its map.
Orphan(p) == p.target # NoTarget /\ p.target \notin DOMAIN units

Toward(p) ==
  LET goal == units[p.target].pos
  IN  <<Sign(goal[1] - p.pos[1]), Sign(goal[2] - p.pos[2])>>

AtGoal(p) ==
  IF p.target = NoTarget THEN p.path = <<>> ELSE p.pos = units[p.target].pos

Waits(p) == p.wait + 1 < Speed

\* A skill shot at the end of its path stays there.
EndsHomingOnly(p) == ~Orphan(p) /\ ~Waits(p) /\ p.target # NoTarget /\ AtGoal(p)

\* next_frame: TRUE for AnimationCommand::Done
Ends(p) == ~Orphan(p) /\ ~Waits(p) /\ AtGoal(p)

\* next_frame: the projectile after it
NextFrame(p) ==
  IF Waits(p) THEN [p EXCEPT !.wait = @ + 1]
  ELSE IF AtGoal(p) THEN [p EXCEPT !.wait = 0]
  ELSE IF p.target = NoTarget
       THEN [p EXCEPT !.wait = 0, !.pos = Head(p.path), !.path = Tail(p.path)]
       ELSE [p EXCEPT !.wait = 0, !.pos = <<@[1] + Toward(p)[1], @[2] + Toward(p)[2]>>]

Moved(p) == IF Orphan(p) THEN p ELSE NextFrame(p)

DamagesAll(p, u) == p.payload = "heal" => Team[u] = p.team

\* add_effects: healing takes to allies, damage to enemies.
Affects(p, u) == (p.payload = "heal") = (Team[u] = p.team)

Victims(p) ==
  IF Orphan(p) \/ Ends(p) THEN {}
  ELSE {u \in UnitsAt(NextFrame(p).pos) : Affects(p, u)}

\* take_effect, and what the tick does with a tower or a minion it destroys
TakeEffect(us, u, payload) ==
  LET health == IF payload = "damage" THEN Max({0, us[u].health - 1})
                ELSE IF Kind[u] = "tower" THEN us[u].health
                ELSE Min({Health, us[u].health + 1})
  IN  IF health = 0 /\ Kind[u] # "champion"
      THEN [v \in DOMAIN us \ {u} |-> us[v]]
      ELSE [us EXCEPT ![u].health = health]

\* The effects of the pass one after the other; a unit that has gone by then
\* is skipped.
ApplyEffects(order) ==
  LET Apply(us, i) ==
        LET there == Victims(projectiles[i]) \cap DOMAIN us
        IN  IF there = {} THEN us
            ELSE TakeEffect(us, CHOOSE u \in there : TRUE, projectiles[i].payload)
      after[k \in 0..Len(order)] ==
        IF k = 0 THEN units ELSE Apply(after[k - 1], order[k])
  IN  after[Len(order)]

\* Each projectile but the orphans clears the cell it was drawn on and draws
\* itself on the next, or clears that too when it hits.
Clears(p, c) ==
  ~Orphan(p) /\ (c = p.pos \/ (Victims(p) # {} /\ c = NextFrame(p).pos))
DrawsHitsToo(p, c) == ~Orphan(p) /\ ~Ends(p) /\ c = NextFrame(p).pos
Draws(p, c)  == ~Orphan(p) /\ ~Ends(p) /\ Victims(p) = {} /\ c = NextFrame(p).pos

\* What the commands of the pass leave on a cell: they are executed in the order
\* of the pass, so the last projectile that touches a cell decides.
AfterPass(order, c) ==
  LET touches == {k \in DOMAIN order : Clears(projectiles[order[k]], c)
                                         \/ Draws(projectiles[order[k]], c)}
  IN  IF touches = {} THEN drawn[c]
      ELSE IF Draws(projectiles[order[Max(touches)]], c) THEN "shot" ELSE "none"

FinishedOnly == {i \in DOMAIN projectiles : Ends(projectiles[i])}
Finished == {i \in DOMAIN projectiles : Ends(projectiles[i]) \/ Victims(projectiles[i]) # {}}

\* For an orphan the id pushed on projectiles_to_remove is the target's: the
\* pattern Target::Champion(id) shadows the projectile's own id.
LostTargets == {projectiles[i].target : i \in {j \in DOMAIN projectiles : Orphan(projectiles[j])}}

ProjectilesToRemove == Finished \cup LostTargets

UpdateAndCheckCollisions ==
  /\ nextId' = nextId
  /\ projectiles' = [i \in DOMAIN projectiles \ ProjectilesToRemove |-> Moved(projectiles[i])]
  /\ hits' = [i \in DOMAIN hits |->
                IF i \in DOMAIN projectiles
                THEN hits[i] + Cardinality(Victims(projectiles[i])) ELSE hits[i]]
  /\ age' = [i \in DOMAIN age |->
               IF i \in DOMAIN projectiles /\ projectiles[i].target = NoTarget
               THEN age[i] + 1 ELSE age[i]]

-----------------------------------------------------------------------------
(* The strokes of melee attacks, and the end of the tick                   *)

NoCell == <<-1, -1>>

NewStroke(u) == [owner |-> u, frame |-> 0, last |-> NoCell]

\* calculate_next_pos: around the owner, from its right on clockwise
FramePos(c, frame) ==
  LET around == << <<0, 1>>, <<1, 1>>, <<1, 0>>, <<1, -1>>, <<0, -1>>, <<-1, -1>>, <<-1, 0>>, <<-1, 1>> >>
  IN  Shift(c, around[frame], 1)

\* The animations that are drawn once more: neither finished nor without owner.
Kept(us) == {a \in animations : a.owner \in DOMAIN us /\ a.frame < Cycle}

NextStroke(us, a) ==
  [a EXCEPT !.frame = @ + 1, !.last = FramePos(us[a.owner].pos, a.frame + 1)]

\* The cells where the animations were drawn are cleared first.
CellsToClearOfKept == {a.last : a \in Kept(units')}
CellsToClear == {a.last : a \in animations}

\* After the commands of the pass and of the animations, those of the melee
\* attacks of this tick join and are drawn from the next tick on.
Render(order, attackers) ==
  LET strokesNow == {NextStroke(units', a) : a \in Kept(units')}
  IN  /\ drawn' = [c \in Cell |-> IF c \in {a.last : a \in strokesNow} THEN "stroke"
                                  ELSE IF c \in CellsToClear THEN "none" ELSE AfterPass(order, c)]
      /\ animations' = strokesNow \cup {NewStroke(u) : u \in attackers}

\* Champions and minions may have attacked in their turns.
EndOfTick ==
  /\ UpdateAndCheckCollisions
  /\ \E attackers \in SUBSET {u \in DOMAIN units : Kind[u] # "tower"} :
       /\ strokes' = strokes + Cardinality(attackers)
       /\ \E b \in Budget : nextId <= b[1] /\ strokes' <= b[2]
       /\ \E order \in SetToSeqs(DOMAIN projectiles) :
            units' = ApplyEffects(order) /\ Render(order, attackers)

-----------------------------------------------------------------------------
(* The units between two passes                                            *)

\* Champions and minions walk; a champion that died is put back at its base.
Move(u, c) ==
  /\ u \in DOMAIN units
  /\ UnitsAt(c) = {}
  /\ \/ Kind[u] = "champion"
     \/ Kind[u] # "tower" /\ \E dir \in Direction : c = Shift(units[u].pos, dir, 1)
  /\ units' = [units EXCEPT ![u].pos = c]
  /\ UNCHANGED <<projectiles, nextId, animations, drawn, hits, age, strokes>>

\* A minion or a tower is destroyed by melee.  Champions stay in their map when
\* they die and even when their player leaves.
Vanish(u) ==
  /\ u \in DOMAIN units
  /\ Kind[u] # "champion"
  /\ units' = [v \in DOMAIN units \ {u} |-> units[v]]
  /\ UNCHANGED <<projectiles, nextId, animations, drawn, hits, age, strokes>>

Next ==
  \/ \E t, u \in Unit : TowerShoots(t, u)
  \/ \E u \in Unit, spell \in Spell, dir \in Direction : Cast(u, spell, dir)
  \/ EndOfTick
  \/ \E u \in Unit, c \in Cell : Move(u, c)
  \/ \E u \in Unit : Vanish(u)

Spec == Init /\ [][Next]_vars

-----------------------------------------------------------------------------
(* Properties                                                              *)

\* A projectile hits at most one unit, once, and is out of the map from then on.
OneHit ==
  \A i \in DOMAIN hits : hits[i] = 0 \/ (hits[i] = 1 /\ i \notin DOMAIN projectiles)

\* Nobody is hurt by its own side: a unit that loses health or falls in a pass
\* is paid for with an enemy projectile that leaves the map in that pass.
NoFriendlyFire ==
  [][units' # units /\ projectiles' # projectiles =>
       \A u \in DOMAIN units :
         u \notin DOMAIN units' \/ units'[u].health < units[u].health =>
           \E i \in DOMAIN projectiles \ DOMAIN projectiles' :
             projectiles[i].team # Team[u] /\ projectiles[i].payload = "damage"]_vars

\* What is drawn on the board is a projectile or the stroke of a melee attack that
\* is there, whatever was drawn over and cleared in between, as long as no unit has
\* gone whose id is also the id of a projectile.
NoGhosts ==
  (\A u \in Unit \ DOMAIN units : u >= nextId) =>
    \A c \in Cell :
      /\ drawn[c] = "shot" => \E i \in DOMAIN projectiles : projectiles[i].pos = c
      /\ drawn[c] = "stroke" => \E a \in animations : a.last = c

\* A skill shot does not fly for ever: it is gone after the pass that finds it
\* at the end of its path.
SkillShotsEnd ==
  \A i \in DOMAIN projectiles : age[i] < Speed * (SpellRange + 2)

=============================================================================
