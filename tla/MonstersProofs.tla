---------------------------- MODULE MonstersProofs ----------------------------
(***************************************************************************)
(* Theorems about Monsters, for any number of champions, towers, monsters  *)
(* and lives, any board, leash and health, and every order of the turns.   *)
(***************************************************************************)
EXTENDS Monsters, FiniteSetTheorems, SequenceTheorems, WellFoundedInduction, TLAPS

Fields == {"def", "state", "target", "path", "health", "pos", "dead"}

\* What holds of every monster between two steps.
Sound(r) ==
  /\ DOMAIN r = Fields
  /\ r.state \in {"Idle", "Aggro", "Returning", "Dead"} /\ r.health \in 0..Health
  /\ (r.state = "Aggro") = (r.target # NoTarget)
  /\ r.state = "Idle" => AtSpawn(r) /\ r.health = Health
  /\ (r.state = "Dead") = (r.health = 0)

\* Ids are not used twice, and hits are those of champions.
MonstersInv ==
  /\ champions \in [Champion -> Cell] /\ DOMAIN board = Cell
  /\ nextId \in Nat /\ DOMAIN monsters \subseteq 1..nextId - 1 /\ rewarded \subseteq 1..nextId - 1
  /\ pending \in Seq(Champion \X Nat)
  /\ \A m \in DOMAIN monsters : Sound(monsters[m])
  /\ RewardsAreForTheDead

-----------------------------------------------------------------------------
(* One monster                                                             *)

\* What the assumptions say of health and targets.
LEMMA Numbers ==
  /\ Health \in Nat /\ Health # 0
  /\ NoTarget \notin Champion /\ NoTarget \notin Tower
BY NumberAssumption, TargetAssumption

\* A monster starts at its camp with full health.
LEMMA NewIsSound ==
  ASSUME NEW d
  PROVE  Sound(NewMonster(d))
BY Numbers DEF Sound, NewMonster, Fields, AtSpawn

\* take_effect, for a hit of any attacker: the dead stay dead.
LEMMA HitIsSound ==
  ASSUME NEW r, Sound(r), NEW a, a # NoTarget
  PROVE  Sound(TakeHit(r, a)) /\ (r.health = 0 => TakeHit(r, a).health = 0)
<1>1. r.health \in 0..Health /\ Health \in Nat /\ Health # 0 /\ DOMAIN r = Fields
  BY Numbers DEF Sound
<1>2. PICK h \in 0..Health : h = Max({0, r.health - 1}) /\ (r.health = 0 => h = 0)
                            /\ h # Health
  <2>1. \E z \in {0, r.health - 1} : \A y \in {0, r.health - 1} : z >= y
    BY <1>1
  <2>2. /\ Max({0, r.health - 1}) \in {0, r.health - 1}
        /\ \A y \in {0, r.health - 1} : Max({0, r.health - 1}) >= y
    BY <2>1 DEF Max
  <2> QED  BY <1>1, <2>2
<1>3. CASE h = 0
  <2>1. TakeHit(r, a) = [r EXCEPT !.health = 0, !.state = "Dead", !.target = NoTarget, !.dead = 0]
    BY <1>2, <1>3 DEF TakeHit
  <2> QED  BY <1>1, <2>1 DEF Sound, Fields
<1>4. CASE h # 0
  <2>1. TakeHit(r, a) = [r EXCEPT !.health = h, !.state = "Aggro",
                                  !.target = IF @ = NoTarget THEN a ELSE @]
    BY <1>2, <1>4 DEF TakeHit
  <2> QED  BY <1>1, <1>2, <1>4, <2>1 DEF Sound, Fields
<1> QED  BY <1>3, <1>4

-----------------------------------------------------------------------------
(* The turn of a monster                                                   *)

\* What the turn of m does to the monsters,
OnlyMonster(m) ==
  /\ DOMAIN monsters' = DOMAIN monsters
  /\ \A i \in DOMAIN monsters \ {m} : monsters'[i] = monsters[i]
  /\ Sound(monsters'[m])
  /\ monsters[m].health = 0 => monsters'[m].health = 0

\* and to the board: m moves, or clears the cell it died on.
BoardOfTurn(m) ==
  \/ board' = board
  \/ board' = MovedOn(board, monsters[m].pos, monsters'[m].pos)
  \/ board' = [board EXCEPT ![monsters[m].pos] = Nobody] /\ monsters'[m].pos = monsters[m].pos

\* To stay is a turn of one monster,
LEMMA StayingIsATurn ==
  ASSUME MonstersInv, NEW m \in DOMAIN monsters, UNCHANGED <<monsters, board>>
  PROVE  OnlyMonster(m) /\ BoardOfTurn(m)
BY DEF MonstersInv, OnlyMonster, BoardOfTurn

\* so is a step along a path,
LEMMA FollowIsATurn ==
  ASSUME MonstersInv, NEW m \in DOMAIN monsters, monsters[m].state # "Idle",
         NEW path, Follow(m, path)
  PROVE  OnlyMonster(m) /\ BoardOfTurn(m)
<1>1. Sound(monsters[m])
  BY DEF MonstersInv
<1>2. /\ DOMAIN monsters' = DOMAIN monsters
      /\ \A i \in DOMAIN monsters \ {m} : monsters'[i] = monsters[i]
      /\ DOMAIN monsters'[m] = Fields
      /\ \A f \in Fields \ {"pos", "path"} : monsters'[m][f] = monsters[m][f]
      /\ monsters'[m].pos = Head(path)
  BY <1>1 DEF Follow, Sound, Fields
<1>3. Sound(monsters'[m]) /\ monsters'[m].health = monsters[m].health
  BY <1>1, <1>2 DEF Sound, Fields
<1>4. board' = MovedOn(board, monsters[m].pos, monsters'[m].pos)
  BY <1>2 DEF Follow, MoveCell
<1> QED  BY <1>2, <1>3, <1>4 DEF OnlyMonster, BoardOfTurn

\* letting go of a target,
LEMMA LettingGoIsATurn ==
  ASSUME MonstersInv, NEW m \in DOMAIN monsters, monsters[m].state = "Aggro", StartReturning(m)
  PROVE  OnlyMonster(m) /\ BoardOfTurn(m)
<1>1. Sound(monsters[m])
  BY DEF MonstersInv
<1>2. /\ DOMAIN monsters' = DOMAIN monsters
      /\ \A i \in DOMAIN monsters \ {m} : monsters'[i] = monsters[i]
      /\ DOMAIN monsters'[m] = Fields
      /\ monsters'[m].state = "Returning" /\ monsters'[m].target = NoTarget
      /\ monsters'[m].health = monsters[m].health
  <2>1. PICK way : monsters' = [monsters EXCEPT ![m].state = "Returning", ![m].target = NoTarget,
                                                ![m].path = way]
    BY DEF StartReturning
  <2> QED  BY <1>1, <2>1 DEF Sound, Fields
<1>3. Sound(monsters'[m])
  BY <1>1, <1>2 DEF Sound, Fields
<1> QED  BY <1>2, <1>3 DEF OnlyMonster, BoardOfTurn, StartReturning

\* the pursuit of one,
LEMMA PursuitIsATurn ==
  ASSUME MonstersInv, NEW m \in DOMAIN monsters, monsters[m].state = "Aggro", AggroTurn(m)
  PROVE  OnlyMonster(m) /\ BoardOfTurn(m)
<1>1. Sound(monsters[m])
  BY DEF MonstersInv
<1>2. CASE StartReturning(m)
  BY <1>2, LettingGoIsATurn
<1>3. CASE Chase(m)
  <2>1. CASE UNCHANGED <<monsters, board>>
    BY <2>1, StayingIsATurn
  <2>2. CASE monsters' = [monsters EXCEPT ![m].path = NoPath] /\ UNCHANGED board
    <3>1. /\ DOMAIN monsters' = DOMAIN monsters
          /\ \A i \in DOMAIN monsters \ {m} : monsters'[i] = monsters[i]
          /\ DOMAIN monsters'[m] = Fields
          /\ \A f \in Fields \ {"path"} : monsters'[m][f] = monsters[m][f]
      BY <1>1, <2>2 DEF Sound, Fields
    <3>2. Sound(monsters'[m]) /\ monsters'[m].health = monsters[m].health
      BY <1>1, <3>1 DEF Sound, Fields, AtSpawn
    <3> QED  BY <2>2, <3>1, <3>2 DEF OnlyMonster, BoardOfTurn
  <2>3. CASE \E path : Follow(m, path)
    BY <2>3, FollowIsATurn
  <2> QED  BY <1>3, <2>1, <2>2, <2>3 DEF Chase
<1> QED  BY <1>2, <1>3 DEF AggroTurn

\* the way home,
LEMMA WayHomeIsATurn ==
  ASSUME MonstersInv, NEW m \in DOMAIN monsters, monsters[m].state = "Returning", ReturningTurn(m)
  PROVE  OnlyMonster(m) /\ BoardOfTurn(m)
<1>1. Sound(monsters[m]) /\ monsters[m].health # 0 /\ monsters[m].target = NoTarget
  BY DEF MonstersInv, Sound
<1>2. ASSUME NEW r, DOMAIN r = Fields, \A f \in Fields \ {"pos", "path"} : r[f] = monsters[m][f]
      PROVE  /\ AtSpawn(r) /\ Reset(m, r) => OnlyMonster(m) /\ monsters'[m].pos = r.pos
             /\ monsters' = [monsters EXCEPT ![m] = r] => OnlyMonster(m) /\ monsters'[m].pos = r.pos
  <2>1. ASSUME AtSpawn(r), Reset(m, r)
        PROVE  OnlyMonster(m) /\ monsters'[m].pos = r.pos
    <3>1. monsters' = [monsters EXCEPT ![m] =
                         [r EXCEPT !.state = "Idle", !.health = Health, !.path = NoPath]]
      BY <2>1 DEF Reset
    <3>2. /\ DOMAIN monsters' = DOMAIN monsters
          /\ \A i \in DOMAIN monsters \ {m} : monsters'[i] = monsters[i]
          /\ monsters'[m] = [r EXCEPT !.state = "Idle", !.health = Health, !.path = NoPath]
      BY <3>1
    <3>3. Sound(monsters'[m]) /\ monsters'[m].pos = r.pos
      BY <1>1, <1>2, <2>1, <3>2, Numbers DEF Sound, Fields, AtSpawn
    <3> QED  BY <1>1, <3>2, <3>3 DEF OnlyMonster
  <2>2. ASSUME monsters' = [monsters EXCEPT ![m] = r]
        PROVE  OnlyMonster(m) /\ monsters'[m].pos = r.pos
    <3>1. /\ DOMAIN monsters' = DOMAIN monsters
          /\ \A i \in DOMAIN monsters \ {m} : monsters'[i] = monsters[i]
          /\ monsters'[m] = r
      BY <2>2
    <3>2. Sound(r)
      BY <1>1, <1>2 DEF Sound, Fields
    <3> QED  BY <1>1, <3>1, <3>2 DEF OnlyMonster
  <2> QED  BY <2>1, <2>2
<1>3. CASE monsters[m].path \in {NoPath, <<>>}
  <2>1. CASE AtSpawn(monsters[m])
    <3>1. Reset(m, monsters[m]) /\ board' = board
      BY <1>3, <2>1 DEF ReturningTurn
    <3>2. OnlyMonster(m)
      BY <1>1, <1>2, <2>1, <3>1 DEF Sound
    <3> QED  BY <3>1, <3>2 DEF BoardOfTurn
  <2>2. CASE ~AtSpawn(monsters[m])
    <3>1. UNCHANGED <<monsters, board>>
      BY <1>3, <2>2 DEF ReturningTurn
    <3> QED  BY <3>1, StayingIsATurn
  <2> QED  BY <2>1, <2>2
<1>4. CASE monsters[m].path \notin {NoPath, <<>>}
  <2>1. PICK r : /\ r = [monsters[m] EXCEPT !.pos = Head(monsters[m].path), !.path = Tail(monsters[m].path)]
                 /\ board' = MoveCell(monsters[m].pos, Head(monsters[m].path))
                 /\ IF AtSpawn(r) THEN Reset(m, r) ELSE monsters' = [monsters EXCEPT ![m] = r]
    BY <1>4 DEF ReturningTurn
  <2>2. /\ DOMAIN r = Fields /\ r.pos = Head(monsters[m].path)
        /\ \A f \in Fields \ {"pos", "path"} : r[f] = monsters[m][f]
    BY <1>1, <2>1 DEF Sound, Fields
  <2>3. OnlyMonster(m) /\ monsters'[m].pos = r.pos
    BY <1>2, <2>1, <2>2
  <2> QED  BY <2>1, <2>2, <2>3 DEF BoardOfTurn, MoveCell
<1> QED  BY <1>3, <1>4

\* and lying dead.
LEMMA DeathIsATurn ==
  ASSUME MonstersInv, NEW m \in DOMAIN monsters, monsters[m].state = "Dead", DeadTurn(m)
  PROVE  OnlyMonster(m) /\ BoardOfTurn(m)
<1>1. Sound(monsters[m])
  BY DEF MonstersInv
<1>2. /\ DOMAIN monsters' = DOMAIN monsters
      /\ \A i \in DOMAIN monsters \ {m} : monsters'[i] = monsters[i]
      /\ DOMAIN monsters'[m] = Fields
      /\ \A f \in Fields \ {"dead"} : monsters'[m][f] = monsters[m][f]
  BY <1>1 DEF DeadTurn, Sound, Fields
<1>3. Sound(monsters'[m]) /\ monsters'[m].health = monsters[m].health
      /\ monsters'[m].pos = monsters[m].pos
  BY <1>1, <1>2 DEF Sound, Fields, AtSpawn
<1> QED  BY <1>2, <1>3 DEF OnlyMonster, BoardOfTurn, DeadTurn

\* In every state the turn of a monster changes that monster alone and its cells.
LEMMA TurnOfOneMonster ==
  ASSUME MonstersInv, NEW m \in DOMAIN monsters, MonsterTurn(m)
  PROVE  OnlyMonster(m) /\ BoardOfTurn(m)
<1>1. CASE monsters[m].state = "Idle"
  BY <1>1, StayingIsATurn DEF MonsterTurn
<1>2. CASE monsters[m].state = "Aggro"
  BY <1>2, PursuitIsATurn DEF MonsterTurn
<1>3. CASE monsters[m].state = "Returning"
  BY <1>3, WayHomeIsATurn DEF MonsterTurn
<1>4. CASE monsters[m].state = "Dead"
  BY <1>4, DeathIsATurn DEF MonsterTurn
<1> QED  BY <1>1, <1>2, <1>3, <1>4 DEF MonstersInv, Sound

-----------------------------------------------------------------------------
(* The effects                                                             *)

\* The monsters before hit k + 1 of a list, by those before hit k.
HitBy(before, hit) ==
  IF hit[2] \notin DOMAIN monsters THEN before
  ELSE [before EXCEPT ![hit[2]] = TakeHit(@, hit[1])]

Upto(f, hits, n) ==
  f = [k \in 0..n |-> IF k = 0 THEN monsters ELSE HitBy(f[k - 1], hits[k])]

\* Every set of naturals has a least member.
LEMMA LeastNumber ==
  ASSUME NEW S \in SUBSET Nat, S # {}
  PROVE  \E m \in S : \A k \in S : m <= k
<1> DEFINE R == {ss \in Nat \X Nat : ss[1] < ss[2]}
<1>1. IsWellFoundedOn(R, Nat)
  BY NatLessThanWellFounded, Zenon DEF OpToRel
<1> HIDE DEF R
<1>2. PICK m \in S : \A k \in S : <<k, m>> \notin R
  BY <1>1, WFMin
<1>3. ASSUME NEW k \in S  PROVE m <= k
  <2>1. k \in Nat /\ m \in Nat
    OBVIOUS
  <2>2. ~(k < m)
    BY <1>2, <2>1 DEF R
  <2> QED  BY <2>1, <2>2
<1> QED  BY <1>3

\* The recursion of AfterHits has a solution, hit by hit.
LEMMA HitsAreApplied ==
  ASSUME NEW hits
  PROVE  \A n \in Nat : \E f : Upto(f, hits, n)
<1> DEFINE Bad == {n \in Nat : ~\E f : Upto(f, hits, n)}
<1>1. ASSUME Bad # {}  PROVE FALSE
  <2>1. PICK n \in Bad : \A k \in Bad : n <= k
    BY <1>1, LeastNumber
  <2>2. n \in Nat /\ ~\E f : Upto(f, hits, n)
    BY <2>1
  <2>3. CASE n = 0
    <3> DEFINE g == [k \in 0..0 |-> monsters]
    <3>1. Upto(g, hits, 0)
      BY DEF Upto
    <3> QED  BY <2>2, <2>3, <3>1
  <2>4. CASE n # 0
    <3>1. n - 1 \in Nat /\ n - 1 \notin Bad
      <4> HIDE DEF Bad
      <4> QED  BY <2>1, <2>2, <2>4
    <3>2. PICK f : Upto(f, hits, n - 1)
      BY <3>1
    <3> DEFINE g == [k \in 0..n |-> IF k = n THEN HitBy(f[n - 1], hits[n]) ELSE f[k]]
    <3>3. \A k \in 0..n - 1 : f[k] = IF k = 0 THEN monsters ELSE HitBy(f[k - 1], hits[k])
      BY <3>2 DEF Upto
    <3>4. ASSUME NEW k \in 0..n
          PROVE  g[k] = IF k = 0 THEN monsters ELSE HitBy(g[k - 1], hits[k])
      <4>1. CASE k = n
        <5>1. g[k] = HitBy(f[n - 1], hits[n]) /\ g[k - 1] = f[n - 1]
          BY <2>2, <2>4, <4>1
        <5> QED  BY <2>4, <4>1, <5>1
      <4>2. CASE k # n
        <5>1. k \in 0..n - 1 /\ g[k] = f[k] /\ (k # 0 => g[k - 1] = f[k - 1])
          BY <2>2, <4>2
        <5> QED  BY <3>3, <5>1
      <4> QED  BY <4>1, <4>2
    <3>5. Upto(g, hits, n)
      <4>1. g = [k \in 0..n |-> g[k]]
        OBVIOUS
      <4> HIDE DEF g
      <4> QED  BY <3>4, <4>1 DEF Upto
    <3> QED  BY <2>2, <3>5
  <2> QED  BY <2>3, <2>4
<1> QED  BY <1>1

\* Hits are applied one after the other.
LEMMA AfterHitsIs ==
  ASSUME NEW hits, Len(hits) \in Nat
  PROVE  /\ AfterHits(hits)[0] = monsters
         /\ \A k \in 1..Len(hits) : AfterHits(hits)[k] = HitBy(AfterHits(hits)[k - 1], hits[k])
<1>1. PICK f : Upto(f, hits, Len(hits))
  BY HitsAreApplied
<1>2. AfterHits(hits) = CHOOSE g : Upto(g, hits, Len(hits))
  BY DEF AfterHits, Upto, HitBy
<1>3. Upto(AfterHits(hits), hits, Len(hits))
  BY <1>1, <1>2
<1> QED  BY <1>3 DEF Upto

\* Between two hits of a tick nobody comes, goes or comes back to life.
Standing(f, k) ==
  /\ DOMAIN f[k] = DOMAIN monsters
  /\ \A m \in DOMAIN monsters :
       /\ Sound(f[k][m])
       /\ \A j \in 0..k : f[j][m].health = 0 => f[k][m].health = 0

\* One more hit leaves every monster sound and the dead dead.
LEMMA OneHit ==
  ASSUME NEW f, NEW k \in Nat, Standing(f, k), NEW hit, hit[1] # NoTarget,
         f[k + 1] = HitBy(f[k], hit)
  PROVE  Standing(f, k + 1)
<1>1. DOMAIN f[k + 1] = DOMAIN monsters
  BY DEF HitBy, Standing
<1>2. ASSUME NEW m \in DOMAIN monsters
      PROVE  Sound(f[k + 1][m]) /\ (f[k][m].health = 0 => f[k + 1][m].health = 0)
  <2>1. Sound(f[k][m])
    BY DEF Standing
  <2>2. CASE hit[2] = m
    <3>1. f[k + 1][m] = TakeHit(f[k][m], hit[1])
      BY <2>2 DEF HitBy, Standing
    <3> QED  BY <2>1, <3>1, HitIsSound
  <2>3. CASE hit[2] # m
    <3>1. f[k + 1][m] = f[k][m]
      BY <2>3 DEF HitBy, Standing
    <3> QED  BY <2>1, <3>1
  <2> QED  BY <2>2, <2>3
<1>3. ASSUME NEW m \in DOMAIN monsters, NEW j \in 0..k + 1, f[j][m].health = 0
      PROVE  f[k + 1][m].health = 0
  <2>1. CASE j = k + 1
    BY <1>3, <2>1
  <2>2. CASE j # k + 1
    <3>1. j \in 0..k
      BY <2>2
    <3>2. f[k][m].health = 0
      BY <1>3, <3>1 DEF Standing
    <3> QED  BY <1>2, <3>2
  <2> QED  BY <2>1, <2>2
<1> QED  BY <1>1, <1>2, <1>3 DEF Standing

\* So do all the hits of a tick.
LEMMA AllHits ==
  ASSUME MonstersInv, NEW hits \in Seq((Champion \cup Tower) \X Nat)
  PROVE  \A k \in 0..Len(hits) : Standing(AfterHits(hits), k)
<1> DEFINE f == AfterHits(hits)
           Bad == {k \in 0..Len(hits) : ~Standing(f, k)}
<1>0. Len(hits) \in Nat
  OBVIOUS
<1>1. f[0] = monsters /\ \A k \in 1..Len(hits) : f[k] = HitBy(f[k - 1], hits[k])
  BY <1>0, AfterHitsIs
<1> HIDE DEF f
<1>2. ASSUME Bad # {}  PROVE FALSE
  <2>0. Bad \in SUBSET Nat
    BY <1>0
  <2>1. PICK k \in Bad : \A i \in Bad : k <= i
    BY <1>2, <2>0, LeastNumber
  <2>2. k \in 0..Len(hits) /\ k \in Nat /\ ~Standing(f, k)
    BY <1>0, <2>1
  <2>3. k # 0
    <3>1. Standing(f, 0)
      BY <1>1 DEF Standing, MonstersInv
    <3> QED  BY <2>2, <3>1
  <2>4. k - 1 \in Nat /\ k \in 1..Len(hits) /\ k - 1 \notin Bad
    <3> HIDE DEF Bad
    <3> QED  BY <1>0, <2>1, <2>2, <2>3
  <2>5. Standing(f, k - 1)
    BY <1>0, <2>2, <2>4
  <2>6. hits[k][1] # NoTarget /\ f[(k - 1) + 1] = HitBy(f[k - 1], hits[k])
    <3>1. hits[k] \in (Champion \cup Tower) \X Nat
      BY <2>4
    <3>2. (k - 1) + 1 = k
      BY <2>4
    <3> QED  BY <1>1, <2>4, <3>1, <3>2, Numbers
  <2>7. Standing(f, (k - 1) + 1)
    BY <2>4, <2>5, <2>6, OneHit
  <2> QED  BY <2>2, <2>4, <2>7
<1> QED  BY <1>2 DEF f

-----------------------------------------------------------------------------
(* The steps                                                               *)

\* All monsters start idle at their camps.
LEMMA InvInitially ==
  ASSUME Init
  PROVE  MonstersInv
<1>1. champions \in [Champion -> Cell] /\ DOMAIN board = Cell
  BY PlaceAssumption DEF Init
<1>2. PICK order \in SetToSeqs(Definition) : monsters = [i \in 1..Len(order) |-> NewMonster(order[i])]
  BY DEF Init
<1>3. Len(order) = Cardinality(Definition) /\ Cardinality(Definition) \in Nat
  <2>1. Cardinality(Definition) \in Nat
    BY PlaceAssumption, FS_CardinalityType
  <2>2. order \in [1..Cardinality(Definition) -> Definition]
    BY <1>2 DEF SetToSeqs
  <2> QED  BY <2>1, <2>2
<1>4. nextId \in Nat /\ DOMAIN monsters \subseteq 1..nextId - 1 /\ rewarded \subseteq 1..nextId - 1
  BY <1>2, <1>3 DEF Init
<1>5. \A m \in DOMAIN monsters : Sound(monsters[m])
  BY <1>2, NewIsSound
<1> QED  BY <1>1, <1>4, <1>5 DEF MonstersInv, RewardsAreForTheDead, Init

\* Stuttering changes nothing.
LEMMA InvStays ==
  ASSUME MonstersInv, UNCHANGED vars
  PROVE  MonstersInv'
BY DEF MonstersInv, RewardsAreForTheDead, Sound, AtSpawn, vars

\* A champion returns, walks, stays or attacks.
LEMMA InvPlayerTurn ==
  ASSUME MonstersInv, NEW c \in Champion, PlayerTurn(c)
  PROVE  MonstersInv'
<1>1. DOMAIN board' = Cell /\ champions' \in [Champion -> Cell]
  BY PlaceAssumption DEF MonstersInv, PlayerTurn, PlaceAtBase, Walk, Stay, MoveCell, MovedOn
<1>2. pending' \in Seq(Champion \X Nat)
  <2>1. CASE UNCHANGED pending
    BY <2>1 DEF MonstersInv
  <2>2. CASE \E m \in MonstersAround(champions'[c], board') : pending' = Append(pending, <<c, m>>)
    <3>1. PICK m \in DOMAIN monsters : pending' = Append(pending, <<c, m>>)
      BY <2>2 DEF MonstersAround
    <3>2. <<c, m>> \in Champion \X Nat
      BY DEF MonstersInv
    <3> QED  BY <3>1, <3>2 DEF MonstersInv
  <2> QED  BY <2>1, <2>2 DEF PlayerTurn
<1> QED  BY <1>1, <1>2 DEF PlayerTurn, MonstersInv, RewardsAreForTheDead, Sound, AtSpawn

\* The turn of a monster.
LEMMA InvMonsterTurn ==
  ASSUME MonstersInv, NEW m \in DOMAIN monsters, MonsterTurn(m)
  PROVE  MonstersInv'
<1>1. OnlyMonster(m) /\ BoardOfTurn(m)
  BY TurnOfOneMonster
<1>2. UNCHANGED <<champions, nextId, pending, rewarded>>
  BY DEF MonsterTurn
<1>3. DOMAIN board' = Cell
  BY <1>1 DEF BoardOfTurn, MovedOn, MonstersInv
<1>4. \A i \in DOMAIN monsters : Sound(monsters'[i])
  BY <1>1 DEF OnlyMonster, MonstersInv
<1>5. \A i \in rewarded : i \in DOMAIN monsters => monsters'[i].health = 0
  BY <1>1 DEF OnlyMonster, MonstersInv, RewardsAreForTheDead
<1>6. DOMAIN monsters' = DOMAIN monsters
  BY <1>1 DEF OnlyMonster
<1> QED  BY <1>2, <1>3, <1>4, <1>5, <1>6 DEF MonstersInv, RewardsAreForTheDead, Sound, AtSpawn

\* A monster whose timer is over starts anew.
LEMMA InvRespawn ==
  ASSUME MonstersInv, NEW m \in DOMAIN monsters, Respawn(m)
  PROVE  MonstersInv'
<1> DEFINE new == NewMonster(monsters[m].def)
<1>1. /\ DOMAIN monsters' = (DOMAIN monsters \ {m}) \cup {nextId}
      /\ monsters'[nextId] = new
      /\ \A i \in DOMAIN monsters \ {m} : monsters'[i] = monsters[i]
  BY DEF Respawn, MonstersInv
<1>2. Sound(new)
  BY NewIsSound
<1>3. /\ DOMAIN board' = Cell
      /\ nextId' = nextId + 1 /\ UNCHANGED <<champions, pending, rewarded>>
  BY DEF Respawn, MonstersInv
<1>4. \A i \in DOMAIN monsters' : Sound(monsters'[i])
  BY <1>1, <1>2 DEF MonstersInv
<1>5. nextId \notin rewarded /\ nextId \notin DOMAIN monsters
  BY DEF MonstersInv
<1>6. \A i \in rewarded : i \in DOMAIN monsters' => monsters'[i].health = 0
  BY <1>1, <1>5 DEF MonstersInv, RewardsAreForTheDead
<1>7. nextId' \in Nat /\ DOMAIN monsters' \subseteq 1..nextId' - 1 /\ rewarded' \subseteq 1..nextId' - 1
  BY <1>1, <1>3 DEF MonstersInv
<1> QED  BY <1>3, <1>4, <1>6, <1>7 DEF MonstersInv, RewardsAreForTheDead, Sound, AtSpawn

\* The hits of a tick.
LEMMA InvApplyEffects ==
  ASSUME MonstersInv, ApplyEffects
  PROVE  MonstersInv'
<1>1. PICK shots \in Shots :
        LET hits == pending \o shots
        IN  /\ monsters' = AfterHits(hits)[Len(hits)]
            /\ \A m \in rewarded' \ rewarded : \E k \in 1..Len(hits) :
                 /\ hits[k][2] = m /\ m \in DOMAIN monsters
                 /\ AfterHits(hits)[k][m].health = 0
  BY DEF ApplyEffects
<1> DEFINE hits == pending \o shots
<1>2. hits \in Seq((Champion \cup Tower) \X Nat)
  <2>1. shots \in Seq((Champion \cup Tower) \X Nat)
    <3>1. CASE shots = <<>>
      BY <3>1
    <3>2. CASE \E a \in Champion \cup Tower, m \in DOMAIN monsters : shots = << <<a, m>> >>
      <4>1. PICK a \in Champion \cup Tower, m \in DOMAIN monsters : shots = << <<a, m>> >>
        BY <3>2
      <4>2. <<a, m>> \in (Champion \cup Tower) \X Nat
        BY DEF MonstersInv
      <4> QED  BY <4>1, <4>2
    <3> QED  BY <3>1, <3>2 DEF Shots
  <2>2. pending \in Seq((Champion \cup Tower) \X Nat)
    BY DEF MonstersInv
  <2> QED  BY <2>1, <2>2
<1>3. Len(hits) \in Nat
  BY <1>2
<1>4. /\ monsters' = AfterHits(hits)[Len(hits)]
      /\ \A m \in rewarded' \ rewarded : \E k \in 1..Len(hits) :
           m \in DOMAIN monsters /\ AfterHits(hits)[k][m].health = 0
  BY <1>1
<1>5. AfterHits(hits)[0] = monsters
  BY <1>3, AfterHitsIs
<1> HIDE DEF hits
<1>6. Standing(AfterHits(hits), Len(hits))
  BY <1>2, <1>3, AllHits
<1>7. DOMAIN monsters' = DOMAIN monsters /\ \A m \in DOMAIN monsters : Sound(monsters'[m])
  BY <1>4, <1>6 DEF Standing
<1>8. \A m \in rewarded' : m \in DOMAIN monsters => monsters'[m].health = 0
  <2>1. ASSUME NEW m \in rewarded', m \in DOMAIN monsters
        PROVE  \E k \in 0..Len(hits) : AfterHits(hits)[k][m].health = 0
    <3>1. CASE m \in rewarded
      <4>1. monsters[m].health = 0
        BY <2>1, <3>1 DEF MonstersInv, RewardsAreForTheDead
      <4> QED  BY <1>3, <1>5, <4>1
    <3>2. CASE m \notin rewarded
      BY <1>3, <1>4, <2>1, <3>2
    <3> QED  BY <3>1, <3>2
  <2>2. ASSUME NEW m \in DOMAIN monsters, NEW k \in 0..Len(hits), AfterHits(hits)[k][m].health = 0
        PROVE  AfterHits(hits)[Len(hits)][m].health = 0
    BY <1>6, <2>2 DEF Standing
  <2> QED  BY <1>4, <2>1, <2>2
<1>9. rewarded' \subseteq 1..nextId - 1
  BY <1>4 DEF MonstersInv
<1>10. UNCHANGED <<champions, nextId, board>> /\ pending' = <<>>
  BY DEF ApplyEffects
<1> QED  BY <1>7, <1>8, <1>9, <1>10 DEF MonstersInv, RewardsAreForTheDead, Sound, AtSpawn

\* The inductive invariant holds in every state of every match.
THEOREM MonstersInvariant == Spec => []MonstersInv
<1>1. Init => MonstersInv
  BY InvInitially
<1>2. MonstersInv /\ [Next]_vars => MonstersInv'
  <2> SUFFICES ASSUME MonstersInv, [Next]_vars  PROVE MonstersInv'
    OBVIOUS
  <2>1. CASE UNCHANGED vars
    BY <2>1, InvStays
  <2>2. ASSUME NEW c \in Champion, PlayerTurn(c)  PROVE MonstersInv'
    BY <2>2, InvPlayerTurn
  <2>3. ASSUME NEW m \in DOMAIN monsters, MonsterTurn(m)  PROVE MonstersInv'
    BY <2>3, InvMonsterTurn
  <2>4. ASSUME NEW m \in DOMAIN monsters, Respawn(m)  PROVE MonstersInv'
    BY <2>4, InvRespawn
  <2>5. CASE ApplyEffects
    BY <2>5, InvApplyEffects
  <2> QED  BY <2>1, <2>2, <2>3, <2>4, <2>5 DEF Next
<1> QED  BY <1>1, <1>2, PTL DEF Spec

\* PursuitHasTarget for every match: attach_target, start_returning and reset
\* between them never leave a monster in pursuit of nobody, whoever hits it and
\* in whatever order the turns come.
THEOREM PursuitAlwaysHasTarget == Spec => []PursuitHasTarget
<1>1. MonstersInv => PursuitHasTarget
  BY DEF MonstersInv, Sound, PursuitHasTarget
<1> QED  BY <1>1, MonstersInvariant, PTL

\* RestIsWhole for every match: a monster that rests is healed and at home, and
\* zero health and the state Dead come and go together.
THEOREM RestIsAlwaysWhole == Spec => []RestIsWhole
<1>1. MonstersInv => RestIsWhole
  BY DEF MonstersInv, Sound, RestIsWhole
<1> QED  BY <1>1, MonstersInvariant, PTL

\* RewardsAreForTheDead for every match: no instance that lives has been paid for.
THEOREM LivingAreNotPaidFor == Spec => []RewardsAreForTheDead
<1>1. MonstersInv => RewardsAreForTheDead
  BY DEF MonstersInv
<1> QED  BY <1>1, MonstersInvariant, PTL

-----------------------------------------------------------------------------
(* What happens to a champion on the board                                 *)

\* The body of ChampionsStayShown.
StaysShown(c) ==
  board[champions[c]] = TheChampion(c) /\ board'[champions'[c]] # TheChampion(c) =>
    \/ \E m \in DOMAIN monsters : monsters[m].pos = champions[c]
    \/ \E m \in DOMAIN monsters' : monsters'[m].pos = champions'[c]
    \/ \E d \in Champion \ {c} : champions[d] = champions[c] \/ champions'[d] = champions'[c]

\* Whoever moves from a to b touches the content of no other cell and takes
\* his own with him.
LEMMA MovedOnIs ==
  ASSUME NEW a, NEW b \in DOMAIN board
  PROVE  /\ MovedOn(board, a, b)[b] = board[a]
         /\ \A x \in DOMAIN board : x # a /\ x # b => MovedOn(board, a, b)[x] = board[x]
BY DEF MovedOn

\* In the turn of a player a champion is only hidden by who shares its cell,
LEMMA ShownInPlayerTurn ==
  ASSUME MonstersInv, NEW c \in Champion, NEW p \in Champion, PlayerTurn(p)
  PROVE  StaysShown(c)
<1>1. champions \in [Champion -> Cell] /\ DOMAIN board = Cell
  BY DEF MonstersInv
<1>2. CASE UNCHANGED <<board, champions>>
  BY <1>2 DEF StaysShown
<1>3. ASSUME NEW x \in Cell, board' = MovedOn(board, champions[p], x),
             champions' = [champions EXCEPT ![p] = x]
      PROVE  StaysShown(c)
  <2>1. CASE c = p
    <3>1. champions'[c] = x /\ board'[x] = board[champions[c]]
      BY <1>1, <1>3, <2>1, MovedOnIs
    <3> QED  BY <3>1 DEF StaysShown
  <2>2. CASE c # p
    <3>1. champions'[c] = champions[c] /\ champions'[p] = x /\ champions[c] \in Cell
      BY <1>1, <1>3, <2>2
    <3>2. CASE champions[c] = champions[p] \/ champions[c] = x
      BY <2>2, <3>1, <3>2 DEF StaysShown
    <3>3. CASE champions[c] # champions[p] /\ champions[c] # x
      <4>1. board'[champions'[c]] = board[champions[c]]
        BY <1>1, <1>3, <3>1, <3>3, MovedOnIs
      <4> QED  BY <4>1 DEF StaysShown
    <3> QED  BY <3>2, <3>3
  <2> QED  BY <2>1, <2>2
<1>4. CASE PlaceAtBase(p)
  BY <1>3, <1>4, PlaceAssumption DEF PlaceAtBase, MoveCell
<1>5. ASSUME NEW x \in Cell, Walk(p, x)  PROVE StaysShown(c)
  BY <1>3, <1>5 DEF Walk, MoveCell
<1> QED  BY <1>2, <1>4, <1>5 DEF PlayerTurn, Stay

\* so in the turn of a monster,
LEMMA ShownInMonsterTurn ==
  ASSUME MonstersInv, NEW c \in Champion, NEW m \in DOMAIN monsters, MonsterTurn(m)
  PROVE  StaysShown(c)
<1>1. champions' = champions /\ champions[c] \in Cell /\ DOMAIN board = Cell
  BY DEF MonsterTurn, MonstersInv
<1>2. DOMAIN monsters' = DOMAIN monsters /\ BoardOfTurn(m)
  BY TurnOfOneMonster DEF OnlyMonster
<1>3. CASE monsters[m].pos = champions[c] \/ monsters'[m].pos = champions[c]
  BY <1>1, <1>2, <1>3 DEF StaysShown
<1>4. CASE monsters[m].pos # champions[c] /\ monsters'[m].pos # champions[c]
  <2>1. board'[champions[c]] = board[champions[c]]
    BY <1>1, <1>2, <1>4 DEF BoardOfTurn, MovedOn
  <2> QED  BY <1>1, <2>1 DEF StaysShown
<1> QED  BY <1>3, <1>4

\* and at a respawn.
LEMMA ShownInRespawn ==
  ASSUME MonstersInv, NEW c \in Champion, NEW m \in DOMAIN monsters, Respawn(m)
  PROVE  StaysShown(c)
<1>1. champions' = champions /\ champions[c] \in Cell /\ DOMAIN board = Cell
  BY DEF Respawn, MonstersInv
<1>2. PICK x : /\ board' = [board EXCEPT ![x] = TheMonster(nextId)]
               /\ nextId \in DOMAIN monsters' /\ monsters'[nextId].pos = x
  BY DEF Respawn, NewMonster
<1>3. CASE x = champions[c]
  BY <1>1, <1>2, <1>3 DEF StaysShown
<1>4. CASE x # champions[c]
  <2>1. board'[champions[c]] = board[champions[c]]
    BY <1>1, <1>2, <1>4
  <2> QED  BY <1>1, <2>1 DEF StaysShown
<1> QED  BY <1>3, <1>4

\* ChampionsStayShown for every match: a champion that the board shows where it
\* stands goes off the board only by somebody whose own record has him on that
\* cell; no other walk, chase, return, death or respawn does it.
THEOREM ChampionsGoOnlyByOthers == Spec => ChampionsStayShown
<1>1. ASSUME MonstersInv, [Next]_vars, NEW c \in Champion
      PROVE  StaysShown(c)
  <2>1. CASE UNCHANGED vars
    BY <2>1 DEF vars, StaysShown
  <2>2. CASE \E p \in Champion : PlayerTurn(p)
    BY <1>1, <2>2, ShownInPlayerTurn
  <2>3. CASE \E m \in DOMAIN monsters : MonsterTurn(m)
    BY <1>1, <2>3, ShownInMonsterTurn
  <2>4. CASE \E m \in DOMAIN monsters : Respawn(m)
    BY <1>1, <2>4, ShownInRespawn
  <2>5. CASE ApplyEffects
    BY <2>5 DEF ApplyEffects, StaysShown
  <2> QED  BY <1>1, <2>1, <2>2, <2>3, <2>4, <2>5 DEF Next
<1>2. MonstersInv /\ [Next]_vars => [\A c \in Champion : StaysShown(c)]_vars
  BY <1>1
<1>3. [][\A c \in Champion : StaysShown(c)]_vars => ChampionsStayShown
  BY PTL DEF ChampionsStayShown, StaysShown
<1> QED  BY <1>2, <1>3, MonstersInvariant, PTL DEF Spec

=============================================================================
