-------------------------- MODULE ProjectilesProofs --------------------------
(***************************************************************************)
(* Theorems about Projectiles, for any number of units, projectiles and    *)
(* strokes, any board, speed, range and width of a wall, and every order   *)
(* in which a pass meets the projectiles.                                  *)
(***************************************************************************)
EXTENDS Projectiles, FiniteSetTheorems, SequenceTheorems, WellFoundedInduction, TLAPS

Place == Nat \X Nat

\* Of the units: each is alive but for champions, and no two share a cell.
Hale(u, r) ==
  /\ DOMAIN r = {"pos", "health"}
  /\ r.pos \in Cell
  /\ r.health \in 0..Health
  /\ Kind[u] # "champion" => r.health # 0

UnitsInv ==
  /\ DOMAIN units \subseteq Unit
  /\ \A u \in DOMAIN units : Hale(u, units[u])
  /\ \A u, v \in DOMAIN units : units[u].pos = units[v].pos => u = v

\* Of what is in flight.
Flying(p) ==
  /\ DOMAIN p = {"team", "payload", "pos", "path", "target", "wait"}
  /\ p.payload \in {"damage", "heal"}
  /\ p.target \in Unit \cup {NoTarget}
  /\ p.wait \in 0..Speed - 1
  /\ p.path \in Seq(Place)

\* The passes a skill shot has been through and those it has left.
Passes(p, n) == n + Speed * Len(p.path) + (Speed - p.wait)

Young(p, n) ==
  IF p.target = NoTarget THEN Passes(p, n) <= Speed * (SpellRange + 2) ELSE n = 0

ShotsInv ==
  /\ nextId \in Nat /\ nextId <= MaxShots
  /\ DOMAIN projectiles \subseteq 0..nextId - 1
  /\ \A i \in DOMAIN projectiles : Flying(projectiles[i]) /\ Young(projectiles[i], age[i])

CountsInv ==
  /\ DOMAIN hits = 0..MaxShots - 1 /\ DOMAIN age = 0..MaxShots - 1
  /\ \A i \in 0..MaxShots - 1 : age[i] \in Nat /\ (i >= nextId => hits[i] = 0 /\ age[i] = 0)

ProjectilesInv ==
  UnitsInv /\ ShotsInv /\ CountsInv /\ OneHit /\ NoGhosts

-----------------------------------------------------------------------------
(* Numbers, lines and ranges                                               *)

\* What the assumptions say of health, speed and ranges.
LEMMA Numbers ==
  /\ Health \in Nat /\ Health # 0 /\ Speed \in Nat /\ Speed # 0
  /\ SpellRange \in Nat /\ SpellRange # 0 /\ WallWidth \in Nat
BY NumberAssumption

\* The shots that may be in flight are bounded.
LEMMA MaxShotsIs ==
  MaxShots \in Nat /\ \A b \in Budget : b[1] \in Nat /\ b[1] <= MaxShots
<1> DEFINE S == {b[1] : b \in Budget}
<1>1. \A x \in S : x \in Nat
  BY BudgetAssumption
<1>2. \E x \in S : \A y \in S : x >= y
  <2>1. PICK most \in Budget : \A b \in Budget : b[1] <= most[1]
    BY BudgetAssumption
  <2>2. most[1] \in S /\ \A y \in S : most[1] >= y
    BY <1>1, <2>1
  <2> QED  BY <2>2
<1>3. MaxShots \in S /\ \A y \in S : MaxShots >= y
  <2>1. MaxShots = CHOOSE x \in S : \A y \in S : x >= y
    BY DEF MaxShots, Max
  <2> HIDE DEF S
  <2> QED  BY <1>2, <2>1
<1> QED  BY <1>1, <1>3

\* saturating_sub
LEMMA MaxOfTwo ==
  ASSUME NEW n \in Int, NEW m \in Int
  PROVE  Max({m, n}) = IF n > m THEN n ELSE m
<1>1. \E x \in {m, n} : \A y \in {m, n} : x >= y
  OBVIOUS
<1>2. Max({m, n}) \in {m, n} /\ \A y \in {m, n} : Max({m, n}) >= y
  BY <1>1 DEF Max
<1> QED  BY <1>2

\* A shift stops at the first row and column.
LEMMA ShiftIs ==
  ASSUME NEW c \in Int \X Int, NEW dir \in Int \X Int, NEW n \in Int
  PROVE  /\ Shift(c, dir, n) \in Place
         /\ \A k \in {1, 2} :
              Shift(c, dir, n)[k] = IF c[k] + n * dir[k] > 0 THEN c[k] + n * dir[k] ELSE 0
<1>1. \A k \in {1, 2} : c[k] + n * dir[k] \in Int
  OBVIOUS
<1>2. \A k \in {1, 2} :
        Max({0, c[k] + n * dir[k]}) = IF c[k] + n * dir[k] > 0 THEN c[k] + n * dir[k] ELSE 0
  BY <1>1, MaxOfTwo
<1> QED  BY <1>1, <1>2 DEF Shift, Place

\* The distance is the greater of the two differences.
LEMMA DistanceIs ==
  ASSUME NEW a \in Place, NEW b \in Place
  PROVE  /\ Distance(a, b) \in Nat
         /\ \A n \in Nat : AbsDiff(a[1], b[1]) <= n /\ AbsDiff(a[2], b[2]) <= n => Distance(a, b) <= n
<1>1. AbsDiff(a[1], b[1]) \in Nat /\ AbsDiff(a[2], b[2]) \in Nat
  BY DEF AbsDiff, Place
<1> QED  BY <1>1, MaxOfTwo DEF Distance

\* From one cell ahead to the range, and from any cell over the range.
LEMMA ReachIs ==
  ASSUME NEW c \in Place, NEW dir \in Direction
  PROVE  /\ Distance(Shift(c, dir, 1), Shift(c, dir, SpellRange)) <= SpellRange
         /\ Distance(c, Shift(c, dir, SpellRange)) <= SpellRange
<1>1. dir \in Int \X Int /\ c \in Int \X Int /\ 1 \in Int /\ SpellRange \in Int
  BY NumberAssumption DEF Place
<1>2. /\ Shift(c, dir, 1) \in Place /\ Shift(c, dir, SpellRange) \in Place
      /\ \A k \in {1, 2} :
           /\ Shift(c, dir, 1)[k] = IF c[k] + 1 * dir[k] > 0 THEN c[k] + 1 * dir[k] ELSE 0
           /\ Shift(c, dir, SpellRange)[k] =
                IF c[k] + SpellRange * dir[k] > 0 THEN c[k] + SpellRange * dir[k] ELSE 0
  <2>1. \A n \in Int : /\ Shift(c, dir, n) \in Place
                      /\ \A k \in {1, 2} : Shift(c, dir, n)[k] =
                           IF c[k] + n * dir[k] > 0 THEN c[k] + n * dir[k] ELSE 0
    BY <1>1, ShiftIs
  <2> QED  BY <1>1, <2>1, Zenon
<1>3. \A k \in {1, 2} : dir[k] \in {-1, 0, 1}
  BY NumberAssumption
<1>4. \A k \in {1, 2} : SpellRange * dir[k] = IF dir[k] = 0 THEN 0 ELSE
                                              IF dir[k] = 1 THEN SpellRange ELSE -SpellRange
  BY <1>3, Numbers
<1>5. \A k \in {1, 2} :
        /\ AbsDiff(Shift(c, dir, 1)[k], Shift(c, dir, SpellRange)[k]) <= SpellRange
        /\ AbsDiff(c[k], Shift(c, dir, SpellRange)[k]) <= SpellRange
  <2>1. ASSUME NEW k \in {1, 2}, NEW x, NEW y, NEW m,
               x = Shift(c, dir, 1)[k], y = Shift(c, dir, SpellRange)[k], m = SpellRange * dir[k]
        PROVE  AbsDiff(x, y) <= SpellRange /\ AbsDiff(c[k], y) <= SpellRange
    <3>1. /\ x = (IF c[k] + dir[k] > 0 THEN c[k] + dir[k] ELSE 0)
          /\ y = (IF c[k] + m > 0 THEN c[k] + m ELSE 0)
          /\ c[k] \in Nat
      BY <1>2, <1>3, <2>1 DEF Place
    <3>2. \/ dir[k] = 0 /\ m = 0
          \/ dir[k] = 1 /\ m = SpellRange
          \/ dir[k] = -1 /\ m = -SpellRange
      <4>1. /\ dir[k] \in {-1, 0, 1}
            /\ m = IF dir[k] = 0 THEN 0 ELSE IF dir[k] = 1 THEN SpellRange ELSE -SpellRange
        BY <1>3, <1>4, <2>1, Zenon
      <4> QED  BY <4>1, Numbers
    <3> QED  BY <3>1, <3>2, Numbers DEF AbsDiff
  <2> QED  BY <2>1
<1> QED  BY <1>2, <1>5, Numbers, DistanceIs

\* A line is no longer than the range of spells, with its start.
LEMMA LineIs ==
  ASSUME NEW a \in Place, NEW b \in Place, Distance(a, b) <= SpellRange
  PROVE  Line(a, b) \in Seq(Place) /\ Len(Line(a, b)) <= SpellRange + 1
<1> DEFINE dir == <<Sign(b[1] - a[1]), Sign(b[2] - a[2])>>
           n == Distance(a, b) + 1
<1>1. Distance(a, b) \in Nat
  BY DistanceIs
<1>2. a \in Int \X Int /\ dir \in Int \X Int
  BY DEF Place, Sign
<1>3. \A i \in 1..n : i - 1 \in Int
  BY <1>1
<1>4. \A i \in 1..n : Shift(a, dir, i - 1) \in Place
  <2> HIDE DEF dir, n
  <2> QED  BY <1>2, <1>3, ShiftIs
<1>5. Line(a, b) = [i \in 1..n |-> Shift(a, dir, i - 1)]
  BY DEF Line
<1>6. Line(a, b) \in [1..n -> Place] /\ n \in Nat
  <2> HIDE DEF dir
  <2> QED  BY <1>1, <1>4, <1>5
<1> QED  BY <1>1, <1>6, Numbers

-----------------------------------------------------------------------------
(* Creation                                                                *)

\* How products with the speed grow.
LEMMA TimesSpeed ==
  /\ \A n \in Nat : Speed * n \in Nat /\ Speed * (n + 1) = Speed * n + Speed
  /\ \A n, m \in Nat : n <= m => Speed * n <= Speed * m
BY Numbers

\* A projectile that has not flown yet.
Fresh(p) == Flying(p) /\ p.wait = 0 /\ (p.target = NoTarget => Len(p.path) <= SpellRange + 1)

\* What was just fired is within its range.
LEMMA FreshIsYoung ==
  ASSUME NEW p, Fresh(p)
  PROVE  Young(p, 0)
<1>1. CASE p.target # NoTarget
  BY <1>1 DEF Young
<1>2. CASE p.target = NoTarget
  <2>1. Len(p.path) \in Nat /\ Len(p.path) <= SpellRange + 1 /\ p.wait = 0 /\ SpellRange \in Nat
    BY <1>2, Numbers DEF Fresh, Flying
  <2>2. Speed * Len(p.path) <= Speed * (SpellRange + 1)
    <3>1. SpellRange + 1 \in Nat
      BY <2>1
    <3> QED  BY <2>1, <3>1, TimesSpeed, Zenon
  <2>3. Speed * ((SpellRange + 1) + 1) = Speed * (SpellRange + 1) + Speed
    BY <2>1, TimesSpeed
  <2>4. Speed * Len(p.path) \in Nat /\ Speed * (SpellRange + 1) \in Nat /\ Speed \in Nat
    BY <2>1, TimesSpeed, Numbers
  <2>5. (SpellRange + 1) + 1 = SpellRange + 2
    BY <2>1
  <2>6. ASSUME NEW x \in Nat, NEW y \in Nat, NEW z, x <= y, z = y + Speed
        PROVE  0 + x + (Speed - 0) <= z
    BY <2>6, Numbers
  <2>7. 0 + Speed * Len(p.path) + (Speed - 0) <= Speed * (SpellRange + 2)
    BY <2>2, <2>3, <2>4, <2>5, <2>6
  <2> QED  BY <1>2, <2>1, <2>7 DEF Young, Passes
<1> QED  BY <1>1, <1>2

\* A skill shot starts fresh,
LEMMA SkillShotIsFresh ==
  ASSUME NEW team, NEW payload \in {"damage", "heal"}, NEW a \in Place, NEW b \in Place,
         Distance(a, b) <= SpellRange
  PROVE  Fresh(SkillShot(team, payload, a, b))
<1>1. Line(a, b) \in Seq(Place) /\ Len(Line(a, b)) <= SpellRange + 1
  BY LineIs
<1>2. 0 \in 0..Speed - 1
  BY Numbers
<1> QED  BY <1>1, <1>2 DEF Fresh, Flying, SkillShot

\* so does a shot that follows its target,
LEMMA HomingShotIsFresh ==
  ASSUME NEW team, NEW a, NEW u \in Unit
  PROVE  Fresh(HomingShot(team, a, u))
<1>1. u # NoTarget
  BY UnitAssumption DEF NoTarget
<1>2. 0 \in 0..Speed - 1 /\ <<>> \in Seq(Place)
  BY Numbers
<1> QED  BY <1>1, <1>2 DEF Fresh, Flying, HomingShot

\* What a caster puts in flight.
Shots(team, spell, c, dir) ==
  CASE spell = "fireball"     -> Fireball(team, c, dir)
    [] spell = "healing wave" -> HealingWave(team, c, dir)
    [] spell = "freeze wall"  -> Wall(team, c, dir)

\* and all the shots of a spell.
LEMMA SpellsAreFresh ==
  ASSUME NEW team, NEW spell \in Spell, NEW c \in Place, NEW dir \in Direction
  PROVE  LET shots == Shots(team, spell, c, dir)
         IN  Len(shots) \in Nat /\ \A k \in 1..Len(shots) : Fresh(shots[k])
<1>1. dir \in Int \X Int /\ \A x \in Place : x \in Int \X Int
  BY NumberAssumption DEF Place
<1>2. \A x \in Place, n \in Int : Shift(x, dir, n) \in Place
  BY <1>1, ShiftIs
<1>3. /\ Shift(c, dir, 1) \in Place /\ Shift(c, dir, SpellRange) \in Place
      /\ Distance(Shift(c, dir, 1), Shift(c, dir, SpellRange)) <= SpellRange
  BY <1>2, ReachIs, Numbers
<1>4. CASE spell = "fireball"
  <2>1. Shots(team, spell, c, dir) =
          <<SkillShot(team, "damage", Shift(c, dir, 1), Shift(c, dir, SpellRange))>>
    BY <1>4 DEF Shots, Fireball
  <2>2. Fresh(SkillShot(team, "damage", Shift(c, dir, 1), Shift(c, dir, SpellRange)))
    BY <1>3, SkillShotIsFresh
  <2> QED  BY <2>1, <2>2
<1>5. CASE spell = "healing wave"
  <2>1. Shots(team, spell, c, dir) =
          <<SkillShot(team, "heal", Shift(c, dir, 1), Shift(c, dir, SpellRange))>>
    BY <1>5 DEF Shots, HealingWave
  <2>2. Fresh(SkillShot(team, "heal", Shift(c, dir, 1), Shift(c, dir, SpellRange)))
    BY <1>3, SkillShotIsFresh
  <2> QED  BY <2>1, <2>2
<1>6. CASE spell = "freeze wall"
  <2> DEFINE across == <<AbsDiff(0, dir[2]), AbsDiff(0, dir[1])>>
             From(i) == Shift(Shift(c, dir, 1), across, i - 1 - WallWidth \div 2)
             Shot(i) == SkillShot(team, "damage", From(i), Shift(From(i), dir, SpellRange))
  <2>1. across \in Int \X Int
    BY <1>1 DEF AbsDiff
  <2>2. ASSUME NEW i \in 1..WallWidth
        PROVE  Fresh(Shot(i))
    <3>1. i - 1 - WallWidth \div 2 \in Int
      BY Numbers
    <3>2. From(i) \in Place
      <4>1. Shift(c, dir, 1) \in Int \X Int
        BY <1>1, <1>3
      <4> HIDE DEF across
      <4> QED  BY <2>1, <3>1, <4>1, ShiftIs
    <3> HIDE DEF From
    <3>3. Shift(From(i), dir, SpellRange) \in Place
      BY <1>2, <3>2, Numbers
    <3>4. Distance(From(i), Shift(From(i), dir, SpellRange)) <= SpellRange
      BY <3>2, ReachIs
    <3> QED  BY <3>2, <3>3, <3>4, SkillShotIsFresh
  <2>3. Shots(team, spell, c, dir) = [i \in 1..WallWidth |-> Shot(i)]
    BY <1>6 DEF Shots, Wall
  <2> HIDE DEF Shot
  <2>4. Len([i \in 1..WallWidth |-> Shot(i)]) = WallWidth
    BY Numbers
  <2> QED  BY <2>2, <2>3, <2>4, Numbers
<1> QED  BY <1>4, <1>5, <1>6 DEF Spell

\* The new ids are those from nextId on, none of which has been counted yet.
LEMMA CreateKeeps ==
  ASSUME ProjectilesInv, NEW shots, Len(shots) \in Nat, \A k \in 1..Len(shots) : Fresh(shots[k]),
         Create(shots), UNCHANGED <<units, animations, drawn, hits, age>>
  PROVE  ProjectilesInv'
<1> DEFINE n == Len(shots)
<1>1. /\ nextId \in Nat /\ n \in Nat /\ nextId' = nextId + n
      /\ DOMAIN projectiles \subseteq 0..nextId - 1
      /\ DOMAIN projectiles' = DOMAIN projectiles \cup nextId..(nextId + n - 1)
      /\ \A i \in DOMAIN projectiles' :
           projectiles'[i] = IF i < nextId THEN projectiles[i] ELSE shots[i - nextId + 1]
  BY DEF Create, ProjectilesInv, ShotsInv
<1>2. nextId' \in Nat /\ nextId' <= MaxShots /\ MaxShots \in Nat
  <2>1. PICK b \in Budget : nextId + n <= b[1]
    BY DEF Create
  <2> QED  BY <1>1, <2>1, MaxShotsIs
<1> HIDE DEF n
<1>3. \A i \in DOMAIN projectiles : i \in DOMAIN projectiles' /\ projectiles'[i] = projectiles[i]
  BY <1>1
<1>4. ASSUME NEW i \in DOMAIN projectiles' \ DOMAIN projectiles
      PROVE  i >= nextId /\ i \in 0..MaxShots - 1 /\ Fresh(projectiles'[i])
  <2>1. i \in nextId..(nextId + n - 1)
    BY <1>1
  <2>2. projectiles'[i] = shots[i - nextId + 1] /\ i - nextId + 1 \in 1..n
    BY <1>1, <2>1
  <2> QED  BY <1>1, <1>2, <2>1, <2>2 DEF n
<1>5. ShotsInv'
  <2>1. ASSUME NEW i \in DOMAIN projectiles'
        PROVE  Flying(projectiles'[i]) /\ Young(projectiles'[i], age[i])
    <3>1. CASE i \in DOMAIN projectiles
      BY <1>3, <3>1 DEF ProjectilesInv, ShotsInv
    <3>2. CASE i \notin DOMAIN projectiles
      <4>1. age[i] = 0
        BY <1>4, <3>2 DEF ProjectilesInv, CountsInv
      <4> QED  BY <1>4, <3>2, <4>1, FreshIsYoung DEF Fresh
    <3> QED  BY <3>1, <3>2
  <2>2. DOMAIN projectiles' \subseteq 0..nextId' - 1
    BY <1>1
  <2>3. age' = age
    OBVIOUS
  <2> QED  BY <1>2, <2>1, <2>2, <2>3 DEF ShotsInv, Flying, Young, Passes
<1>6. CountsInv'
  BY <1>1, <1>2 DEF ProjectilesInv, CountsInv
<1>7. OneHit'
  <2>1. ASSUME NEW i \in DOMAIN hits, hits[i] # 0
        PROVE  hits[i] = 1 /\ i \notin DOMAIN projectiles'
    <3>1. hits[i] = 1 /\ i \notin DOMAIN projectiles
      BY <2>1 DEF ProjectilesInv, OneHit
    <3>2. i \in 0..MaxShots - 1 /\ ~(i >= nextId)
      BY <2>1 DEF ProjectilesInv, CountsInv
    <3> QED  BY <1>4, <3>1, <3>2
  <2> QED  BY <2>1 DEF OneHit
<1>8. NoGhosts'
  <2>1. SUFFICES ASSUME \A u \in Unit \ DOMAIN units : u >= nextId'
                 PROVE  NoGhosts'
    BY DEF NoGhosts
  <2>2. \A u \in Unit \ DOMAIN units : u >= nextId
    BY <1>1, <2>1, UnitAssumption
  <2>3. \A c \in Cell :
          /\ drawn[c] = "shot" => \E i \in DOMAIN projectiles : projectiles[i].pos = c
          /\ drawn[c] = "stroke" => \E a \in animations : a.last = c
    BY <2>2 DEF ProjectilesInv, NoGhosts
  <2> QED  BY <1>3, <2>3 DEF NoGhosts
<1>9. UnitsInv'
  BY DEF ProjectilesInv, UnitsInv, Hale
<1> QED  BY <1>5, <1>6, <1>7, <1>8, <1>9 DEF ProjectilesInv

\* A tower shoots at a unit.
LEMMA InvTowerShoots ==
  ASSUME ProjectilesInv, NEW t \in Unit, NEW u \in Unit, TowerShoots(t, u)
  PROVE  ProjectilesInv'
<1> DEFINE p == HomingShot(Team[t], units[t].pos, u)
<1>1. Fresh(p)
  BY HomingShotIsFresh
<1>2. Create(<<p>>) /\ UNCHANGED <<units, animations, drawn, hits, age>>
  BY DEF TowerShoots
<1> HIDE DEF p
<1>3. Len(<<p>>) \in Nat /\ \A k \in 1..Len(<<p>>) : Fresh(<<p>>[k])
  BY <1>1
<1> QED  BY <1>2, <1>3, CreateKeeps

\* A spell is cast.
LEMMA InvCast ==
  ASSUME ProjectilesInv, NEW u \in Unit, NEW spell \in Spell, NEW dir \in Direction, Cast(u, spell, dir)
  PROVE  ProjectilesInv'
<1>1. units[u].pos \in Place
  <2>1. units[u].pos \in Cell
    BY DEF Cast, ProjectilesInv, UnitsInv, Hale
  <2> QED  BY <2>1, SizeAssumption DEF Cell, Place
<1>2. PICK shots : shots = Shots(Team[u], spell, units[u].pos, dir)
  OBVIOUS
<1>3. Len(shots) \in Nat /\ \A k \in 1..Len(shots) : Fresh(shots[k])
  BY <1>1, <1>2, SpellsAreFresh
<1>4. Create(shots) /\ UNCHANGED <<units, animations, drawn, hits, age>>
  BY <1>2 DEF Cast, Shots
<1> QED  BY <1>3, <1>4, CreateKeeps

-----------------------------------------------------------------------------
(* Init, and the units between two passes                                  *)

\* Nothing flies and nothing is drawn at the start.
LEMMA InvInitially ==
  ASSUME Init
  PROVE  ProjectilesInv
<1>1. UnitsInv
  BY UnitAssumption, Numbers DEF Init, UnitsInv, Hale
<1>2. ShotsInv
  BY MaxShotsIs DEF Init, ShotsInv
<1>3. CountsInv
  BY MaxShotsIs DEF Init, CountsInv
<1>4. OneHit
  BY DEF Init, OneHit
<1>5. NoGhosts
  BY DEF Init, NoGhosts
<1> QED  BY <1>1, <1>2, <1>3, <1>4, <1>5 DEF ProjectilesInv

\* What does not depend on where the units are and what they suffer.
LEMMA OthersKeep ==
  ASSUME ProjectilesInv, UnitsInv', DOMAIN units' \subseteq DOMAIN units,
         UNCHANGED <<projectiles, nextId, animations, drawn, hits, age>>
  PROVE  ProjectilesInv'
<1>1. ShotsInv' /\ CountsInv' /\ OneHit'
  BY DEF ProjectilesInv, ShotsInv, CountsInv, OneHit, Flying, Young, Passes
<1>2. NoGhosts'
  BY DEF ProjectilesInv, NoGhosts
<1> QED  BY <1>1, <1>2 DEF ProjectilesInv

\* A unit moves.
LEMMA InvMove ==
  ASSUME ProjectilesInv, NEW u \in Unit, NEW c \in Cell, Move(u, c)
  PROVE  ProjectilesInv'
<1>1. /\ DOMAIN units' = DOMAIN units /\ u \in DOMAIN units
      /\ units'[u] = [units[u] EXCEPT !.pos = c]
      /\ \A v \in DOMAIN units \ {u} : units'[v] = units[v]
  BY DEF Move
<1>2. \A v \in DOMAIN units : Hale(v, units[v]) /\ units[v].pos # c
  BY DEF Move, UnitsAt, ProjectilesInv, UnitsInv
<1>3. Hale(u, units'[u]) /\ units'[u].pos = c
  BY <1>1, <1>2 DEF Hale
<1>4. UnitsInv'
  <2>1. \A v \in DOMAIN units' : Hale(v, units'[v])
    BY <1>1, <1>2, <1>3
  <2>2. \A v, w \in DOMAIN units' : units'[v].pos = units'[w].pos => v = w
    BY <1>1, <1>2, <1>3 DEF ProjectilesInv, UnitsInv
  <2> QED  BY <1>1, <2>1, <2>2 DEF ProjectilesInv, UnitsInv, Hale
<1> QED  BY <1>1, <1>4, OthersKeep DEF Move

\* A unit is gone.
LEMMA InvVanish ==
  ASSUME ProjectilesInv, NEW u \in Unit, Vanish(u)
  PROVE  ProjectilesInv'
<1>1. UnitsInv' /\ DOMAIN units' \subseteq DOMAIN units
  BY DEF Vanish, ProjectilesInv, UnitsInv, Hale
<1> QED  BY <1>1, OthersKeep DEF Vanish

-----------------------------------------------------------------------------
(* The pass                                                                *)

\* A projectile that is neither lost nor done flies on.
LEMMA NextFrameIs ==
  ASSUME NEW p, Flying(p), ~Ends(p), ~Orphan(p)
  PROVE  /\ Flying(NextFrame(p)) /\ NextFrame(p).target = p.target
         /\ p.target = NoTarget =>
              \A n \in Nat : Young(p, n) => Young(NextFrame(p), n + 1)
<1>1. /\ DOMAIN p = {"team", "payload", "pos", "path", "target", "wait"}
      /\ p.payload \in {"damage", "heal"} /\ p.target \in Unit \cup {NoTarget}
      /\ p.wait \in 0..Speed - 1 /\ p.path \in Seq(Place)
      /\ Speed \in Nat /\ Speed # 0
  BY Numbers DEF Flying
<1>2. CASE Waits(p)
  <2>1. NextFrame(p) = [p EXCEPT !.wait = @ + 1] /\ p.wait + 1 < Speed
    BY <1>2 DEF NextFrame, Waits
  <2>2. Flying(NextFrame(p)) /\ NextFrame(p).target = p.target
    BY <1>1, <2>1 DEF Flying
  <2>3. ASSUME NEW n \in Nat, p.target = NoTarget, Young(p, n)
        PROVE  Young(NextFrame(p), n + 1)
    <3>1. NextFrame(p).path = p.path /\ NextFrame(p).wait = p.wait + 1
      BY <1>1, <2>1
    <3>2. Speed * Len(p.path) \in Nat
      BY <1>1, TimesSpeed
    <3>3. Passes(NextFrame(p), n + 1) = Passes(p, n)
      BY <1>1, <3>1, <3>2 DEF Passes
    <3> QED  BY <2>2, <2>3, <3>3 DEF Young
  <2> QED  BY <2>2, <2>3
<1>3. CASE ~Waits(p) /\ p.target = NoTarget
  <2>1. /\ p.path # <<>> /\ p.wait = Speed - 1
        /\ NextFrame(p) = [p EXCEPT !.wait = 0, !.pos = Head(p.path), !.path = Tail(p.path)]
    BY <1>1, <1>3 DEF NextFrame, Waits, Ends, AtGoal
  <2>2. Tail(p.path) \in Seq(Place) /\ Len(p.path) = Len(Tail(p.path)) + 1
        /\ Len(Tail(p.path)) \in Nat
    BY <1>1, <2>1
  <2>3. Flying(NextFrame(p)) /\ NextFrame(p).target = p.target
    BY <1>1, <2>1, <2>2 DEF Flying
  <2>4. ASSUME NEW n \in Nat, p.target = NoTarget, Young(p, n)
        PROVE  Young(NextFrame(p), n + 1)
    <3>1. NextFrame(p).path = Tail(p.path) /\ NextFrame(p).wait = 0
      BY <1>1, <2>1
    <3>2. /\ Speed * Len(Tail(p.path)) \in Nat
          /\ Speed * (Len(Tail(p.path)) + 1) = Speed * Len(Tail(p.path)) + Speed
      BY <2>2, TimesSpeed
    <3>3. Speed * Len(p.path) = Speed * Len(Tail(p.path)) + Speed
      BY <2>2, <3>2
    <3>4. Passes(NextFrame(p), n + 1) = Passes(p, n)
      <4>1. ASSUME NEW x \in Nat, NEW y, y = x + Speed
            PROVE  (n + 1) + x + (Speed - 0) = n + y + (Speed - (Speed - 1))
        BY <1>1, <4>1
      <4> QED  BY <2>1, <3>1, <3>2, <3>3, <4>1 DEF Passes
    <3> QED  BY <2>3, <2>4, <3>4 DEF Young
  <2> QED  BY <2>3, <2>4
<1>4. CASE ~Waits(p) /\ p.target # NoTarget
  <2>1. NextFrame(p) = [p EXCEPT !.wait = 0, !.pos = <<@[1] + Toward(p)[1], @[2] + Toward(p)[2]>>]
    BY <1>4 DEF NextFrame, Ends
  <2> QED  BY <1>1, <1>4, <2>1 DEF Flying
<1> QED  BY <1>2, <1>3, <1>4

\* A cell shows one unit, so a projectile has one victim at most.
LEMMA OneVictim ==
  ASSUME UnitsInv, NEW p
  PROVE  /\ Cardinality(Victims(p)) \in {0, 1}
         /\ Cardinality(Victims(p)) = 0 => Victims(p) = {}
         /\ \A u \in Victims(p) : u \in DOMAIN units /\ Affects(p, u)
<1>1. \A u, v \in Victims(p) : u = v
  BY DEF Victims, UnitsAt, UnitsInv
<1>2. \A u \in Victims(p) : u \in DOMAIN units /\ Affects(p, u)
  BY DEF Victims, UnitsAt
<1>3. CASE Victims(p) = {}
  BY <1>2, <1>3, FS_EmptySet
<1>4. CASE Victims(p) # {}
  <2>1. PICK u : Victims(p) = {u}
    BY <1>1, <1>4
  <2>2. Cardinality({u}) = 1
    BY FS_Singleton
  <2> QED  BY <1>2, <2>1, <2>2
<1> QED  BY <1>3, <1>4

\* The pass over the projectiles keeps what is said of shots and hits.
LEMMA PassKeeps ==
  ASSUME ProjectilesInv, UpdateAndCheckCollisions
  PROVE  ShotsInv' /\ CountsInv' /\ OneHit'
<1>1. /\ nextId' = nextId /\ nextId \in Nat /\ DOMAIN projectiles \subseteq 0..nextId - 1
      /\ DOMAIN projectiles' = DOMAIN projectiles \ ProjectilesToRemove
      /\ \A i \in DOMAIN projectiles' : projectiles'[i] = Moved(projectiles[i])
      /\ DOMAIN hits' = 0..MaxShots - 1 /\ DOMAIN age' = 0..MaxShots - 1
      /\ nextId <= MaxShots /\ MaxShots \in Nat
  BY MaxShotsIs DEF UpdateAndCheckCollisions, ProjectilesInv, ShotsInv, CountsInv
<1>2. \A i \in DOMAIN projectiles :
        Flying(projectiles[i]) /\ Young(projectiles[i], age[i]) /\ i \in 0..MaxShots - 1
  BY <1>1 DEF ProjectilesInv, ShotsInv
<1>3. \A i \in 0..MaxShots - 1 : /\ age[i] \in Nat
                                 /\ i >= nextId => hits[i] = 0 /\ age[i] = 0
  BY DEF ProjectilesInv, CountsInv
<1>4. \A i \in 0..MaxShots - 1 :
        /\ age'[i] = IF i \in DOMAIN projectiles /\ projectiles[i].target = NoTarget
                     THEN age[i] + 1 ELSE age[i]
        /\ hits'[i] = IF i \in DOMAIN projectiles
                      THEN hits[i] + Cardinality(Victims(projectiles[i])) ELSE hits[i]
  BY DEF UpdateAndCheckCollisions, ProjectilesInv, CountsInv
<1>5. ASSUME NEW i \in DOMAIN projectiles'
      PROVE  Flying(projectiles'[i]) /\ Young(projectiles'[i], age'[i])
  <2>1. i \in DOMAIN projectiles /\ ~Ends(projectiles[i]) /\ i \in 0..MaxShots - 1
    BY <1>1, <1>2 DEF ProjectilesToRemove, Finished
  <2>2. PICK p : p = projectiles[i]
    OBVIOUS
  <2>3. Flying(p) /\ Young(p, age[i]) /\ age[i] \in Nat /\ projectiles'[i] = Moved(p) /\ ~Ends(p)
    BY <1>1, <1>2, <1>3, <2>1, <2>2
  <2>4. age'[i] = IF p.target = NoTarget THEN age[i] + 1 ELSE age[i]
    BY <1>4, <2>1, <2>2
  <2>5. CASE Orphan(p)
    BY <2>3, <2>4, <2>5 DEF Moved, Orphan
  <2>6. CASE ~Orphan(p)
    <3>1. Moved(p) = NextFrame(p)
      BY <2>6 DEF Moved
    <3>2. Flying(NextFrame(p)) /\ NextFrame(p).target = p.target
      BY <2>3, <2>6, NextFrameIs
    <3>3. p.target = NoTarget => Young(NextFrame(p), age[i] + 1)
      BY <2>3, <2>6, NextFrameIs
    <3>4. p.target # NoTarget => Young(NextFrame(p), age[i])
      BY <2>3, <3>2 DEF Young
    <3> QED  BY <2>3, <2>4, <3>1, <3>2, <3>3, <3>4
  <2> QED  BY <2>5, <2>6
<1>6. ShotsInv'
  <2>1. DOMAIN projectiles' \subseteq 0..nextId' - 1
    BY <1>1
  <2> QED  BY <1>1, <1>5, <2>1 DEF ShotsInv, Flying, Young, Passes
<1>7. CountsInv'
  <2>1. ASSUME NEW i \in 0..MaxShots - 1
        PROVE  age'[i] \in Nat /\ (i >= nextId => hits'[i] = 0 /\ age'[i] = 0)
    <3>1. CASE i \in DOMAIN projectiles
      <4>1. ~(i >= nextId)
        BY <1>1, <3>1
      <4> QED  BY <1>3, <1>4, <4>1
    <3>2. CASE i \notin DOMAIN projectiles
      BY <1>3, <1>4, <3>2
    <3> QED  BY <3>1, <3>2
  <2> QED  BY <1>1, <2>1 DEF CountsInv
<1>8. OneHit'
  <2>1. ASSUME NEW i \in 0..MaxShots - 1
        PROVE  hits'[i] = 0 \/ (hits'[i] = 1 /\ i \notin DOMAIN projectiles')
    <3>1. hits[i] = 0 \/ (hits[i] = 1 /\ i \notin DOMAIN projectiles)
      BY DEF ProjectilesInv, OneHit, CountsInv
    <3>2. CASE i \notin DOMAIN projectiles
      BY <1>1, <1>4, <3>1, <3>2
    <3>3. CASE i \in DOMAIN projectiles
      <4>1. PICK n : n = Cardinality(Victims(projectiles[i]))
        OBVIOUS
      <4>2. n \in {0, 1} /\ (n = 0 => Victims(projectiles[i]) = {})
            /\ (n # 0 => Victims(projectiles[i]) # {})
        BY <4>1, OneVictim, FS_EmptySet DEF ProjectilesInv
      <4>3. hits'[i] = n
        BY <1>4, <3>1, <3>3, <4>1, <4>2
      <4>4. Victims(projectiles[i]) # {} => i \notin DOMAIN projectiles'
        BY <1>1, <3>3 DEF ProjectilesToRemove, Finished
      <4> QED  BY <4>2, <4>3, <4>4
    <3> QED  BY <3>2, <3>3
  <2> QED  BY <1>1, <2>1 DEF OneHit
<1> QED  BY <1>6, <1>7, <1>8

-----------------------------------------------------------------------------
(* The effects                                                             *)

\* The smaller of two numbers.
LEMMA MinOfTwo ==
  ASSUME NEW n \in Int, NEW m \in Int
  PROVE  Min({m, n}) = IF n < m THEN n ELSE m
<1>1. \E x \in {m, n} : \A y \in {m, n} : x <= y
  OBVIOUS
<1>2. Min({m, n}) \in {m, n} /\ \A y \in {m, n} : Min({m, n}) <= y
  BY <1>1 DEF Min
<1> QED  BY <1>2

\* take_effect: one unit alone is touched, where it stands, and healing takes
\* nothing from it.
LEMMA TakeEffectIs ==
  ASSUME NEW us, NEW u \in DOMAIN us, Hale(u, us[u]), NEW payload \in {"damage", "heal"}
  PROVE  LET after == TakeEffect(us, u, payload)
         IN  /\ DOMAIN us \ {u} \subseteq DOMAIN after /\ DOMAIN after \subseteq DOMAIN us
             /\ \A v \in DOMAIN us \ {u} : after[v] = us[v]
             /\ u \in DOMAIN after => Hale(u, after[u]) /\ after[u].pos = us[u].pos
             /\ payload = "heal" => u \in DOMAIN after /\ after[u].health >= us[u].health
<1>1. /\ us[u].health \in 0..Health /\ Health \in Nat /\ Health # 0
      /\ DOMAIN us[u] = {"pos", "health"} /\ us[u].pos \in Cell
      /\ Kind[u] # "champion" => us[u].health # 0
  BY Numbers DEF Hale
<1>2. /\ Max({0, us[u].health - 1}) = IF us[u].health - 1 > 0 THEN us[u].health - 1 ELSE 0
      /\ Min({Health, us[u].health + 1}) =
           IF us[u].health + 1 < Health THEN us[u].health + 1 ELSE Health
  BY <1>1, MaxOfTwo, MinOfTwo
<1>3. PICK h : h = IF payload = "damage" THEN Max({0, us[u].health - 1})
                   ELSE IF Kind[u] = "tower" THEN us[u].health
                   ELSE Min({Health, us[u].health + 1})
  OBVIOUS
<1>4. /\ h \in 0..Health
      /\ payload = "heal" => h >= us[u].health /\ (Kind[u] # "champion" => h # 0)
  BY <1>1, <1>2, <1>3
<1>5. CASE h = 0 /\ Kind[u] # "champion"
  <2>1. TakeEffect(us, u, payload) = [v \in DOMAIN us \ {u} |-> us[v]]
    BY <1>3, <1>5 DEF TakeEffect
  <2> QED  BY <1>4, <1>5, <2>1
<1>6. CASE ~(h = 0 /\ Kind[u] # "champion")
  <2>1. TakeEffect(us, u, payload) = [us EXCEPT ![u].health = h]
    BY <1>3, <1>6 DEF TakeEffect
  <2>2. PICK after : after = TakeEffect(us, u, payload)
    OBVIOUS
  <2>3. /\ DOMAIN after = DOMAIN us /\ \A v \in DOMAIN us \ {u} : after[v] = us[v]
        /\ after[u] = [us[u] EXCEPT !.health = h]
    BY <2>1, <2>2
  <2>4. Hale(u, after[u]) /\ after[u].pos = us[u].pos /\ after[u].health = h
    BY <1>1, <1>4, <1>6, <2>3 DEF Hale
  <2> QED  BY <1>4, <2>2, <2>3, <2>4
<1> QED  BY <1>5, <1>6

\* The units after one more projectile, by those before.
HitBy(us, i) ==
  LET there == Victims(projectiles[i]) \cap DOMAIN us
  IN  IF there = {} THEN us
      ELSE TakeEffect(us, CHOOSE u \in there : TRUE, projectiles[i].payload)

Upto(f, order, n) ==
  f = [k \in 0..n |-> IF k = 0 THEN units ELSE HitBy(f[k - 1], order[k])]

\* Every set of naturals has a least member.
LEMMA LeastNumber ==
  ASSUME NEW S \in SUBSET Nat, S # {}
  PROVE  \E m \in S : \A k \in S : m <= k
<1> DEFINE R == {ss \in Nat \X Nat : ss[1] < ss[2]}
<1>1. IsWellFoundedOn(R, Nat)
  BY NatLessThanWellFounded, Zenon DEF OpToRel
<1> HIDE DEF R
<1>2. PICK m \in S : \A k \in S : <<k, m>> \notin R
  BY <1>1, WFMin
<1>3. ASSUME NEW k \in S  PROVE m <= k
  <2>1. k \in Nat /\ m \in Nat
    OBVIOUS
  <2>2. ~(k < m)
    BY <1>2, <2>1 DEF R
  <2> QED  BY <2>1, <2>2
<1> QED  BY <1>3

\* The recursion of ApplyEffects has a solution, projectile by projectile.
LEMMA EffectsAreApplied ==
  ASSUME NEW order
  PROVE  \A n \in Nat : \E f : Upto(f, order, n)
<1> DEFINE Bad == {n \in Nat : ~\E f : Upto(f, order, n)}
<1>1. ASSUME Bad # {}  PROVE FALSE
  <2>1. PICK n \in Bad : \A k \in Bad : n <= k
    BY <1>1, LeastNumber
  <2>2. n \in Nat /\ ~\E f : Upto(f, order, n)
    BY <2>1
  <2>3. CASE n = 0
    <3> DEFINE g == [k \in 0..0 |-> units]
    <3>1. Upto(g, order, 0)
      BY DEF Upto
    <3> QED  BY <2>2, <2>3, <3>1
  <2>4. CASE n # 0
    <3>1. n - 1 \in Nat /\ n - 1 \notin Bad
      <4> HIDE DEF Bad
      <4> QED  BY <2>1, <2>2, <2>4
    <3>2. PICK f : Upto(f, order, n - 1)
      BY <3>1
    <3> DEFINE g == [k \in 0..n |-> IF k = n THEN HitBy(f[n - 1], order[n]) ELSE f[k]]
    <3>3. \A k \in 0..n - 1 : f[k] = IF k = 0 THEN units ELSE HitBy(f[k - 1], order[k])
      BY <3>2 DEF Upto
    <3>4. ASSUME NEW k \in 0..n
          PROVE  g[k] = IF k = 0 THEN units ELSE HitBy(g[k - 1], order[k])
      <4>1. CASE k = n
        <5>1. g[k] = HitBy(f[n - 1], order[n]) /\ g[k - 1] = f[n - 1]
          BY <2>2, <2>4, <4>1
        <5> QED  BY <2>4, <4>1, <5>1
      <4>2. CASE k # n
        <5>1. k \in 0..n - 1 /\ g[k] = f[k] /\ (k # 0 => g[k - 1] = f[k - 1])
          BY <2>2, <4>2
        <5> QED  BY <3>3, <5>1
      <4> QED  BY <4>1, <4>2
    <3>5. Upto(g, order, n)
      <4>1. g = [k \in 0..n |-> g[k]]
        OBVIOUS
      <4> HIDE DEF g
      <4> QED  BY <3>4, <4>1 DEF Upto
    <3> QED  BY <2>2, <3>5
  <2> QED  BY <2>3, <2>4
<1> QED  BY <1>1

\* Effects are applied one after the other.
LEMMA ApplyEffectsIs ==
  ASSUME NEW order, Len(order) \in Nat
  PROVE  \E f : /\ f[0] = units /\ ApplyEffects(order) = f[Len(order)]
                /\ \A k \in 1..Len(order) : f[k] = HitBy(f[k - 1], order[k])
<1>1. PICK f : Upto(f, order, Len(order))
  BY EffectsAreApplied
<1>2. ApplyEffects(order) = (CHOOSE g : Upto(g, order, Len(order)))[Len(order)]
  BY DEF ApplyEffects, Upto, HitBy
<1>3. PICK g : g = CHOOSE h : Upto(h, order, Len(order))
  OBVIOUS
<1>4. Upto(g, order, Len(order)) /\ ApplyEffects(order) = g[Len(order)]
  BY <1>1, <1>2, <1>3
<1>5. g[0] = units /\ \A k \in 1..Len(order) : g[k] = HitBy(g[k - 1], order[k])
  BY <1>4 DEF Upto
<1> QED  BY <1>4, <1>5

\* How the units fare in the course of a pass: who lost something was hit.
WasHit(u, order, k) ==
  \E j \in 1..k : u \in Victims(projectiles[order[j]]) /\ projectiles[order[j]].payload = "damage"

Fare(us, order, k) ==
  /\ DOMAIN us \subseteq DOMAIN units
  /\ \A u \in DOMAIN us : Hale(u, us[u]) /\ us[u].pos = units[u].pos
  /\ \A u \in DOMAIN units :
       u \notin DOMAIN us \/ us[u].health < units[u].health => WasHit(u, order, k)

\* One more effect harms nobody but whom it hits, and moves nobody.
LEMMA OneEffect ==
  ASSUME UnitsInv, NEW order, NEW k \in Nat, NEW us, Fare(us, order, k),
         Flying(projectiles[order[k + 1]])
  PROVE  Fare(HitBy(us, order[k + 1]), order, k + 1)
<1> DEFINE p == projectiles[order[k + 1]]
           there == Victims(p) \cap DOMAIN us
<1>1. \A u : WasHit(u, order, k) => WasHit(u, order, k + 1)
  BY DEF WasHit
<1>2. CASE there = {}
  <2>1. HitBy(us, order[k + 1]) = us
    BY <1>2 DEF HitBy
  <2> QED  BY <1>1, <2>1 DEF Fare
<1>3. CASE there # {}
  <2>1. PICK u \in there : HitBy(us, order[k + 1]) = TakeEffect(us, u, p.payload)
    BY <1>3 DEF HitBy
  <2>2. PICK after : after = TakeEffect(us, u, p.payload)
    OBVIOUS
  <2>3. p.payload \in {"damage", "heal"} /\ u \in DOMAIN us /\ Hale(u, us[u]) /\ u \in Victims(p)
    BY <2>1 DEF Flying, Fare
  <2> HIDE DEF p, there
  <2>4. /\ DOMAIN us \ {u} \subseteq DOMAIN after /\ DOMAIN after \subseteq DOMAIN us
        /\ \A v \in DOMAIN us \ {u} : after[v] = us[v]
        /\ u \in DOMAIN after => Hale(u, after[u]) /\ after[u].pos = us[u].pos
        /\ p.payload = "heal" => u \in DOMAIN after /\ after[u].health >= us[u].health
    BY <2>2, <2>3, TakeEffectIs
  <2>5. p.payload = "damage" => WasHit(u, order, k + 1)
    <3>1. k + 1 \in 1..k + 1
      OBVIOUS
    <3> QED  BY <2>3, <3>1 DEF WasHit, p
  <2>6. ASSUME NEW v \in DOMAIN units, v \notin DOMAIN after \/ after[v].health < units[v].health
        PROVE  WasHit(v, order, k + 1)
    <3>1. CASE v # u
      BY <1>1, <2>4, <2>6, <3>1 DEF Fare
    <3>2. CASE v = u /\ p.payload = "damage"
      BY <2>5, <3>2
    <3>3. CASE v = u /\ p.payload = "heal"
      <4>1. us[u].health \in Nat /\ after[u].health \in Nat /\ units[u].health \in Nat
        BY <2>3, <2>4, <3>3, <2>6 DEF Hale, UnitsInv
      <4>2. us[u].health < units[u].health
        BY <2>4, <2>6, <3>3, <4>1
      <4> QED  BY <1>1, <2>3, <3>3, <2>6, <4>2 DEF Fare
    <3> QED  BY <2>3, <3>1, <3>2, <3>3
  <2>7. \A v \in DOMAIN after : Hale(v, after[v]) /\ after[v].pos = units[v].pos
    BY <2>3, <2>4 DEF Fare
  <2> QED  BY <2>1, <2>2, <2>4, <2>6, <2>7 DEF Fare
<1> QED  BY <1>2, <1>3

\* So do all the effects of a pass.
LEMMA EffectsOfPass ==
  ASSUME UnitsInv, NEW order, Len(order) \in Nat,
         \A k \in 1..Len(order) : Flying(projectiles[order[k]])
  PROVE  Fare(ApplyEffects(order), order, Len(order))
<1>1. PICK f : /\ f[0] = units /\ ApplyEffects(order) = f[Len(order)]
               /\ \A k \in 1..Len(order) : f[k] = HitBy(f[k - 1], order[k])
  BY ApplyEffectsIs
<1> DEFINE Bad == {k \in 0..Len(order) : ~Fare(f[k], order, k)}
<1>2. ASSUME Bad # {}  PROVE FALSE
  <2>0. Bad \in SUBSET Nat
    OBVIOUS
  <2>1. PICK k \in Bad : \A i \in Bad : k <= i
    BY <1>2, <2>0, LeastNumber
  <2>2. k \in 0..Len(order) /\ k \in Nat /\ ~Fare(f[k], order, k)
    BY <2>1
  <2>3. k # 0
    <3>1. \A u \in DOMAIN units : ~(units[u].health < units[u].health)
      BY DEF UnitsInv, Hale
    <3>2. Fare(f[0], order, 0)
      BY <1>1, <3>1 DEF Fare, UnitsInv
    <3> QED  BY <2>2, <3>2
  <2>4. k - 1 \in Nat /\ k \in 1..Len(order) /\ k - 1 \in 0..Len(order) /\ k - 1 \notin Bad
        /\ (k - 1) + 1 = k
    <3> HIDE DEF Bad
    <3> QED  BY <2>1, <2>2, <2>3
  <2>5. Fare(f[k - 1], order, k - 1)
    BY <2>4
  <2>6. Flying(projectiles[order[(k - 1) + 1]])
    BY <2>4
  <2>7. Fare(HitBy(f[k - 1], order[(k - 1) + 1]), order, (k - 1) + 1)
    BY <2>4, <2>5, <2>6, OneEffect
  <2>8. f[k] = HitBy(f[k - 1], order[(k - 1) + 1])
    BY <1>1, <2>4
  <2> QED  BY <2>2, <2>4, <2>7, <2>8
<1> QED  BY <1>1, <1>2

-----------------------------------------------------------------------------
(* What the pass leaves drawn                                              *)

\* A set of numbers up to n that is not empty has a greatest.
LEMMA LastOne ==
  ASSUME NEW S, NEW n \in Nat, S \subseteq 1..n, S # {}
  PROVE  Max(S) \in S
<1> DEFINE D == {n - k : k \in S}
<1>1. D \in SUBSET Nat /\ D # {}
  <2>1. \A k \in S : k \in 1..n /\ n - k \in Nat
    OBVIOUS
  <2>2. PICK k \in S : TRUE
    OBVIOUS
  <2>3. n - k \in D
    OBVIOUS
  <2> QED  BY <2>1, <2>3
<1>2. PICK d \in D : \A e \in D : d <= e
  BY <1>1, LeastNumber
<1>3. PICK k \in S : d = n - k
  BY <1>2
<1>4. ASSUME NEW i \in S  PROVE k >= i
  <2>1. d <= n - i
    BY <1>2
  <2> QED  BY <1>3, <2>1
<1>5. \E x \in S : \A y \in S : x >= y
  BY <1>4
<1> QED  BY <1>5 DEF Max

\* The order in which a pass meets the projectiles.
LEMMA OrderIs ==
  ASSUME ProjectilesInv, NEW order \in SetToSeqs(DOMAIN projectiles)
  PROVE  /\ Len(order) \in Nat /\ DOMAIN order = 1..Len(order)
         /\ \A k \in 1..Len(order) : order[k] \in DOMAIN projectiles
         /\ \A i \in DOMAIN projectiles : \E k \in 1..Len(order) : order[k] = i
<1>1. nextId \in Nat /\ DOMAIN projectiles \subseteq 0..nextId - 1
  BY DEF ProjectilesInv, ShotsInv
<1>2. IsFiniteSet(0..nextId - 1)
  BY <1>1, FS_Interval
<1>3. IsFiniteSet(DOMAIN projectiles)
  BY <1>1, <1>2, FS_Subset
<1>4. Cardinality(DOMAIN projectiles) \in Nat
  BY <1>3, FS_CardinalityType
<1>5. order \in [1..Cardinality(DOMAIN projectiles) -> DOMAIN projectiles]
  BY DEF SetToSeqs
<1> DEFINE n == Cardinality(DOMAIN projectiles)
<1>6. order \in Injection(1..n, DOMAIN projectiles)
  BY <1>5 DEF SetToSeqs, Injection, IsInjective
<1>7. Cardinality(1..n) = n
  BY <1>4, FS_Interval
<1>8. order \in Surjection(1..n, DOMAIN projectiles)
  BY <1>3, <1>6, <1>7, FS_Injection
<1>9. Len(order) = n
  BY <1>4, <1>5
<1> QED  BY <1>4, <1>5, <1>8, <1>9 DEF Surjection

\* A projectile that has neither hit nor ended is in the map after the pass, as
\* long as no unit has gone whose id it has.
LEMMA StaysInFlight ==
  ASSUME ProjectilesInv, UpdateAndCheckCollisions,
         \A u \in Unit \ DOMAIN units : u >= nextId,
         NEW i \in DOMAIN projectiles, ~Ends(projectiles[i]), Victims(projectiles[i]) = {}
  PROVE  i \in DOMAIN projectiles' /\ projectiles'[i] = Moved(projectiles[i])
<1>1. i \notin LostTargets
  <2>1. SUFFICES ASSUME NEW j \in DOMAIN projectiles, Orphan(projectiles[j]),
                        i = projectiles[j].target
                 PROVE  FALSE
    BY DEF LostTargets
  <2>2. i \in Unit \ DOMAIN units
    BY <2>1 DEF Orphan, ProjectilesInv, ShotsInv, Flying
  <2>3. i \in 0..nextId - 1 /\ nextId \in Nat
    BY DEF ProjectilesInv, ShotsInv
  <2> QED  BY <2>2, <2>3
<1>2. i \notin ProjectilesToRemove
  BY <1>1 DEF ProjectilesToRemove, Finished
<1> QED  BY <1>2 DEF UpdateAndCheckCollisions

\* Where the pass leaves a shot drawn there is one; a stroke was drawn before.
LEMMA ShotsAreDrawn ==
  ASSUME ProjectilesInv, UpdateAndCheckCollisions,
         \A u \in Unit \ DOMAIN units : u >= nextId,
         NEW order \in SetToSeqs(DOMAIN projectiles), NEW c \in Cell
  PROVE  /\ AfterPass(order, c) = "shot" => \E i \in DOMAIN projectiles' : projectiles'[i].pos = c
         /\ AfterPass(order, c) = "stroke" => drawn[c] = "stroke"
<1>1. /\ Len(order) \in Nat /\ DOMAIN order = 1..Len(order)
      /\ \A k \in 1..Len(order) : order[k] \in DOMAIN projectiles
      /\ \A i \in DOMAIN projectiles : \E k \in 1..Len(order) : order[k] = i
  BY OrderIs
<1> DEFINE touches == {k \in DOMAIN order : Clears(projectiles[order[k]], c)
                                              \/ Draws(projectiles[order[k]], c)}
<1>2. AfterPass(order, c) =
        IF touches = {} THEN drawn[c]
        ELSE IF Draws(projectiles[order[Max(touches)]], c) THEN "shot" ELSE "none"
  BY DEF AfterPass
<1>3. CASE touches = {}
  <2>1. SUFFICES ASSUME drawn[c] = "shot"
                 PROVE  \E i \in DOMAIN projectiles' : projectiles'[i].pos = c
    BY <1>2, <1>3
  <2>2. PICK i \in DOMAIN projectiles : projectiles[i].pos = c
    BY <2>1 DEF ProjectilesInv, NoGhosts
  <2>3. CASE Orphan(projectiles[i])
    <3>1. ~Ends(projectiles[i]) /\ Victims(projectiles[i]) = {} /\ Moved(projectiles[i]) = projectiles[i]
      BY <2>3 DEF Ends, Victims, Moved
    <3>2. i \in DOMAIN projectiles' /\ projectiles'[i] = Moved(projectiles[i])
      BY <3>1, StaysInFlight
    <3> QED  BY <2>2, <3>1, <3>2
  <2>4. CASE ~Orphan(projectiles[i])
    <3>1. Clears(projectiles[i], c)
      BY <2>2, <2>4 DEF Clears
    <3>2. \E k \in 1..Len(order) : order[k] = i
      BY <1>1
    <3> QED  BY <1>1, <1>3, <3>1, <3>2
  <2> QED  BY <2>3, <2>4
<1>4. CASE touches # {}
  <2>1. PICK k \in touches : k = Max(touches)
    <3>1. touches \subseteq 1..Len(order)
      BY <1>1
    <3> HIDE DEF touches
    <3> QED  BY <1>1, <1>4, <3>1, LastOne
  <2>2. k \in 1..Len(order)
    BY <1>1
  <2>3. PICK i \in DOMAIN projectiles : i = order[k]
    BY <1>1, <2>2
  <2>4. SUFFICES ASSUME Draws(projectiles[i], c)
                 PROVE  \E j \in DOMAIN projectiles' : projectiles'[j].pos = c
    <3> HIDE DEF touches
    <3> QED  BY <1>2, <1>4, <2>1, <2>3
  <2>5. ~Orphan(projectiles[i]) /\ ~Ends(projectiles[i]) /\ Victims(projectiles[i]) = {}
        /\ c = NextFrame(projectiles[i]).pos
    BY <2>4 DEF Draws
  <2>6. i \in DOMAIN projectiles' /\ projectiles'[i] = Moved(projectiles[i])
    BY <2>5, StaysInFlight
  <2> QED  BY <2>5, <2>6 DEF Moved
<1> QED  BY <1>3, <1>4

\* What is rendered leaves nothing drawn for which there is no reason.
LEMMA NothingLeftDrawn ==
  ASSUME ProjectilesInv, UpdateAndCheckCollisions, DOMAIN units' \subseteq DOMAIN units,
         NEW order \in SetToSeqs(DOMAIN projectiles), NEW attackers, Render(order, attackers)
  PROVE  NoGhosts'
<1>1. SUFFICES ASSUME \A u \in Unit \ DOMAIN units' : u >= nextId', NEW c \in Cell
               PROVE  /\ drawn'[c] = "shot" => \E i \in DOMAIN projectiles' : projectiles'[i].pos = c
                      /\ drawn'[c] = "stroke" => \E a \in animations' : a.last = c
  BY DEF NoGhosts
<1>2. \A u \in Unit \ DOMAIN units : u >= nextId
  BY <1>1 DEF UpdateAndCheckCollisions
<1> DEFINE now == {NextStroke(units', a) : a \in Kept(units')}
<1>3. /\ drawn'[c] = IF c \in {a.last : a \in now} THEN "stroke"
                     ELSE IF c \in CellsToClear THEN "none" ELSE AfterPass(order, c)
      /\ now \subseteq animations'
  BY DEF Render
<1>4. /\ AfterPass(order, c) = "shot" => \E i \in DOMAIN projectiles' : projectiles'[i].pos = c
      /\ AfterPass(order, c) = "stroke" => drawn[c] = "stroke"
  BY <1>2, ShotsAreDrawn
<1>5. drawn[c] = "stroke" => c \in CellsToClear
  BY <1>2 DEF ProjectilesInv, NoGhosts, CellsToClear
<1> HIDE DEF now
<1> QED  BY <1>3, <1>4, <1>5

-----------------------------------------------------------------------------
(* The theorems                                                            *)

\* What a pass does to the units and to the inventory of projectiles.
LEMMA PassIs ==
  ASSUME ProjectilesInv, EndOfTick
  PROVE  /\ UpdateAndCheckCollisions
         /\ \E order \in SetToSeqs(DOMAIN projectiles) :
              Fare(units', order, Len(order)) /\ \E attackers : Render(order, attackers)
<1>1. PICK order \in SetToSeqs(DOMAIN projectiles) :
        units' = ApplyEffects(order) /\ \E attackers : Render(order, attackers)
  BY DEF EndOfTick
<1>2. Len(order) \in Nat /\ \A k \in 1..Len(order) : order[k] \in DOMAIN projectiles
  BY OrderIs
<1>3. \A k \in 1..Len(order) : Flying(projectiles[order[k]])
  BY <1>2 DEF ProjectilesInv, ShotsInv
<1>4. Fare(ApplyEffects(order), order, Len(order))
  BY <1>2, <1>3, EffectsOfPass DEF ProjectilesInv
<1> QED  BY <1>1, <1>4 DEF EndOfTick

\* The end of a tick: the pass, the effects and the drawing.
LEMMA InvEndOfTick ==
  ASSUME ProjectilesInv, EndOfTick
  PROVE  ProjectilesInv'
<1>1. UpdateAndCheckCollisions
  BY PassIs
<1>2. PICK order \in SetToSeqs(DOMAIN projectiles) :
        Fare(units', order, Len(order)) /\ \E attackers : Render(order, attackers)
  BY PassIs
<1>3. DOMAIN units' \subseteq DOMAIN units
      /\ \A u \in DOMAIN units' : Hale(u, units'[u]) /\ units'[u].pos = units[u].pos
  BY <1>2 DEF Fare
<1>4. UnitsInv'
  <2>1. \A u, v \in DOMAIN units' : units'[u].pos = units'[v].pos => u = v
    BY <1>3 DEF ProjectilesInv, UnitsInv
  <2> QED  BY <1>3, <2>1 DEF ProjectilesInv, UnitsInv, Hale
<1>5. ShotsInv' /\ CountsInv' /\ OneHit'
  BY <1>1, PassKeeps
<1>6. NoGhosts'
  BY <1>1, <1>2, <1>3, NothingLeftDrawn
<1> QED  BY <1>4, <1>5, <1>6 DEF ProjectilesInv

\* Stuttering changes nothing.
LEMMA InvStays ==
  ASSUME ProjectilesInv, UNCHANGED vars
  PROVE  ProjectilesInv'
<1>1. UnitsInv'
  BY DEF ProjectilesInv, UnitsInv, Hale, vars
<1> QED  BY <1>1, OthersKeep DEF vars

\* The inductive invariant holds in every state of every match.
THEOREM ProjectilesInvariant == Spec => []ProjectilesInv
<1>1. Init => ProjectilesInv
  BY InvInitially
<1>2. ProjectilesInv /\ [Next]_vars => ProjectilesInv'
  <2> SUFFICES ASSUME ProjectilesInv, [Next]_vars  PROVE ProjectilesInv'
    OBVIOUS
  <2>1. CASE UNCHANGED vars
    BY <2>1, InvStays
  <2>2. CASE \E t, u \in Unit : TowerShoots(t, u)
    BY <2>2, InvTowerShoots
  <2>3. CASE \E u \in Unit, spell \in Spell, dir \in Direction : Cast(u, spell, dir)
    BY <2>3, InvCast
  <2>4. CASE EndOfTick
    BY <2>4, InvEndOfTick
  <2>5. CASE \E u \in Unit, c \in Cell : Move(u, c)
    BY <2>5, InvMove
  <2>6. CASE \E u \in Unit : Vanish(u)
    BY <2>6, InvVanish
  <2> QED  BY <2>1, <2>2, <2>3, <2>4, <2>5, <2>6 DEF Next
<1> QED  BY <1>1, <1>2, PTL DEF Spec

\* OneHit for every match: what hits is out of the map in the same pass, so no
\* projectile hits twice, however many there are and whoever moves in between.
THEOREM EachHitsOnce == Spec => []OneHit
<1>1. ProjectilesInv => OneHit
  BY DEF ProjectilesInv
<1> QED  BY <1>1, ProjectilesInvariant, PTL

\* NoGhosts for every match: the commands of a pass, in whatever order, leave
\* nothing drawn that is not there, unless an id of a lost unit is taken for that
\* of a projectile.
THEOREM NothingDrawnForNobody == Spec => []NoGhosts
<1>1. ProjectilesInv => NoGhosts
  BY DEF ProjectilesInv
<1> QED  BY <1>1, ProjectilesInvariant, PTL

\* SkillShotsEnd for every match: next_frame brings every skill shot to the end of
\* its path within the passes its range and speed allow.
THEOREM SkillShotsAlwaysEnd == Spec => []SkillShotsEnd
<1>1. ASSUME ProjectilesInv, NEW i \in DOMAIN projectiles
      PROVE  age[i] < Speed * (SpellRange + 2)
  <2>1. PICK p : p = projectiles[i]
    OBVIOUS
  <2>2. Flying(p) /\ Young(p, age[i]) /\ age[i] \in Nat
    BY <1>1, <2>1, MaxShotsIs DEF ProjectilesInv, ShotsInv, CountsInv
  <2>3. SpellRange + 2 \in Nat /\ SpellRange + 2 >= 1
    BY Numbers
  <2>4. Speed * 1 <= Speed * (SpellRange + 2) /\ Speed * (SpellRange + 2) \in Nat /\ Speed * 1 = Speed
    BY <2>3, TimesSpeed, Numbers
  <2>5. CASE p.target # NoTarget
    BY <2>2, <2>4, <2>5, Numbers DEF Young
  <2>6. CASE p.target = NoTarget
    <3>1. Len(p.path) \in Nat /\ p.wait \in 0..Speed - 1
      BY <2>2 DEF Flying
    <3>2. Speed * Len(p.path) \in Nat
      BY <3>1, TimesSpeed
    <3>3. age[i] + Speed * Len(p.path) + (Speed - p.wait) <= Speed * (SpellRange + 2)
      BY <2>2, <2>6 DEF Young, Passes
    <3>4. ASSUME NEW x \in Nat, NEW y \in Nat, age[i] + x + (Speed - p.wait) <= y
          PROVE  age[i] < y
      BY <2>2, <3>1, <3>4, Numbers
    <3> QED  BY <2>4, <3>2, <3>3, <3>4
  <2> QED  BY <2>5, <2>6
<1>2. ProjectilesInv => SkillShotsEnd
  BY <1>1 DEF SkillShotsEnd
<1> QED  BY <1>2, ProjectilesInvariant, PTL

\* The body of NoFriendlyFire.
Paid ==
  units' # units /\ projectiles' # projectiles =>
    \A u \in DOMAIN units :
      u \notin DOMAIN units' \/ units'[u].health < units[u].health =>
        \E i \in DOMAIN projectiles \ DOMAIN projectiles' :
          projectiles[i].team # Team[u] /\ projectiles[i].payload = "damage"

\* NoFriendlyFire for every match: add_effects spares the projectile's own side in
\* every order of the pass, and what hurts somebody is gone with the pass.
THEOREM OwnSideIsSpared == Spec => NoFriendlyFire
<1>1. ProjectilesInv /\ [Next]_vars => Paid
  <2> SUFFICES ASSUME ProjectilesInv, [Next]_vars  PROVE Paid
    OBVIOUS
  <2>1. CASE UNCHANGED units \/ UNCHANGED projectiles
    BY <2>1 DEF Paid
  <2>2. CASE EndOfTick
    <3>1. UpdateAndCheckCollisions
      BY <2>2, PassIs
    <3>2. PICK order \in SetToSeqs(DOMAIN projectiles) : Fare(units', order, Len(order))
      BY <2>2, PassIs
    <3>3. ASSUME NEW u \in DOMAIN units,
                 u \notin DOMAIN units' \/ units'[u].health < units[u].health
          PROVE  \E i \in DOMAIN projectiles \ DOMAIN projectiles' :
                   projectiles[i].team # Team[u] /\ projectiles[i].payload = "damage"
      <4>1. WasHit(u, order, Len(order))
        BY <3>2, <3>3 DEF Fare
      <4>2. PICK i \in DOMAIN projectiles :
              u \in Victims(projectiles[i]) /\ projectiles[i].payload = "damage"
        <5>1. \A k \in 1..Len(order) : order[k] \in DOMAIN projectiles
          BY OrderIs
        <5> QED  BY <4>1, <5>1 DEF WasHit
      <4>3. projectiles[i].team # Team[u]
        <5>1. Affects(projectiles[i], u)
          BY <4>2 DEF Victims
        <5> QED  BY <4>2, <5>1 DEF Affects
      <4>4. i \notin DOMAIN projectiles'
        BY <3>1, <4>2 DEF UpdateAndCheckCollisions, ProjectilesToRemove, Finished
      <4> QED  BY <4>2, <4>3, <4>4
    <3> QED  BY <3>3 DEF Paid
  <2>3. CASE \E t, u \in Unit : TowerShoots(t, u)
    BY <2>1, <2>3 DEF TowerShoots
  <2>4. CASE \E u \in Unit, spell \in Spell, dir \in Direction : Cast(u, spell, dir)
    BY <2>1, <2>4 DEF Cast
  <2>5. CASE \E u \in Unit, c \in Cell : Move(u, c)
    BY <2>1, <2>5 DEF Move
  <2>6. CASE \E u \in Unit : Vanish(u)
    BY <2>1, <2>6 DEF Vanish
  <2> QED  BY <2>1, <2>2, <2>3, <2>4, <2>5, <2>6 DEF Next, vars
<1>2. Spec => [][Paid]_vars
  BY <1>1, ProjectilesInvariant, PTL DEF Spec
<1> QED  BY <1>2 DEF Paid, NoFriendlyFire

=============================================================================
