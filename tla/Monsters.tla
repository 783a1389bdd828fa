------------------------------ MODULE Monsters ------------------------------
(***************************************************************************)
(* The neutral monsters of a match: a monster that is hit chases the first *)
(* attacker, lets go at the end of its leash, walks home and heals there,  *)
(* dies, and is replaced by a new instance after a time.                   *)
(*                                                                         *)
(* A tick is the players' turn, the monsters' turn, the respawns and the   *)
(* effects of the hits, under one lock; the steps of a turn are taken in   *)
(* any order because the code walks HashMaps.  Where the board says that   *)
(* somebody stands and where he stands by his own record are two things,   *)
(* kept apart here as in the code.  Health counts hits.                    *)
(***************************************************************************)
EXTENDS Grid

CONSTANTS
  Champion,      \* player ids, from 1
  Tower,         \* tower ids: their shots hit monsters that are in the way
  Home,          \* [Champion -> where it starts and is put back]
  Definition,    \* ids of the monster definitions
  SpawnCell,     \* [Definition -> where it spawns]
  Health,        \* hits a monster takes
  Leash,         \* MonsterStats.leash_range
  RespawnTurns,  \* bound: turns a monster stays dead at most
  MaxInstances   \* bound: instances spawned

\* A tower's id is drawn, and may be a champion's.
ASSUME IdAssumption == Champion \cup Tower \subseteq Nat
ASSUME NumberAssumption ==
  /\ {Health, Leash} \subseteq Nat \ {0}
  /\ {RespawnTurns, MaxInstances} \subseteq Nat
ASSUME PlaceAssumption ==
  /\ IsFiniteSet(Definition)
  /\ Home \in [Champion -> Cell] /\ SpawnCell \in [Definition -> Cell]

VARIABLES
  champions,  \* [Champion -> cell]
  monsters,   \* active_monsters: [instance ids -> Monster]
  nextId,     \* next_instance_id
  board,      \* [Cell -> what the cell contains]
  playersDue, \* whose turn in this tick is still due, of the champions
  monstersDue,\* and of the monsters, which follow
  pending,    \* pending_effects: hits <<attacker, monster>> of the tick
  rewarded    \* history: the instances a champion was rewarded for

vars == <<champions, monsters, nextId, board, playersDue, monstersDue, pending, rewarded>>

TheChampion(c) == <<"champion", c>>
TheMonster(m)  == <<"monster", m>>

\* None in target_champion_id, where there may be any id.
NoTarget == 0
ASSUME TargetAssumption == NoTarget \notin Champion \cup Tower

NewMonster(d) ==
  [def |-> d, state |-> "Idle", target |-> NoTarget, path |-> NoPath,
   health |-> Health, pos |-> SpawnCell[d], dead |-> 0]

\* The match five seconds after its start: spawn_initial_monsters has run.
Init ==
  /\ champions = Home
  /\ \E order \in SetToSeqs(Definition) :
       monsters = [i \in 1..Len(order) |-> NewMonster(order[i])]
  /\ nextId = Cardinality(Definition) + 1
  /\ board = [x \in Cell |->
                IF \E c \in Champion : Home[c] = x
                THEN TheChampion(CHOOSE c \in Champion : Home[c] = x)
                ELSE IF \E i \in DOMAIN monsters : monsters[i].pos = x
                     THEN TheMonster(CHOOSE i \in DOMAIN monsters : monsters[i].pos = x)
                     ELSE Nobody]
  /\ playersDue = Champion
  /\ monstersDue = DOMAIN monsters
  /\ pending = <<>>
  /\ rewarded = {}

-----------------------------------------------------------------------------
(* The board                                                               *)

Passable(x) == board[x] = Nobody

MoveCellClearsLast(a, b) == [board EXCEPT ![b] = board[a], ![a] = Nobody]

MoveCell(a, b) == MovedOn(board, a, b)

Open == {x \in Cell : Passable(x)}

-----------------------------------------------------------------------------
(* The players' turn                                                       *)

\* A champion steps in one of four directions if the cell is passable.
Walk(c, x) ==
  LET a == champions[c]
  IN  /\ Adjacent(a, x) /\ (a[1] = x[1] \/ a[2] = x[2])
      /\ Passable(x)
      /\ board' = MoveCell(a, x)
      /\ champions' = [champions EXCEPT ![c] = x]

\* A dead champion is put back at its base at every tick until it lives again.
PlaceAtBase(c) ==
  /\ board' = MoveCell(champions[c], Home[c])
  /\ champions' = [champions EXCEPT ![c] = Home[c]]

Stay == UNCHANGED <<board, champions>>

\* The monsters the board shows around a cell, the cell included.
MonstersAround(x, b) ==
  {m \in DOMAIN monsters : \E y \in Cell : Distance(x, y) <= 1 /\ b[y] = TheMonster(m)}

\* The attack is on what the board shows after the action, when the cooldown
\* allows one.
PlayerTurn(c) ==
  /\ c \in playersDue
  /\ \/ PlaceAtBase(c) /\ UNCHANGED pending
     \/ /\ Stay \/ \E x \in Cell : Walk(c, x)
        /\ \/ UNCHANGED pending
           \/ \E m \in MonstersAround(champions'[c], board') :
                pending' = Append(pending, <<c, m>>)
  /\ playersDue' = playersDue \ {c}
  /\ UNCHANGED <<monsters, nextId, monstersDue, rewarded>>

-----------------------------------------------------------------------------
(* The monsters' turn                                                      *)

\* One monster steps to the next cell of its path.
Follow(m, path) ==
  /\ board' = MoveCell(monsters[m].pos, Head(path))
  /\ monsters' = [monsters EXCEPT ![m].pos = Head(path), ![m].path = Tail(path)]

StartReturningStillAngry(m) ==
  /\ \E path \in FindPath(monsters[m].pos, SpawnCell[monsters[m].def], Open) :
       monsters' = [monsters EXCEPT ![m].state = "Returning",
                      ![m].path = IF path = NoPath THEN NoPath
                                  ELSE Append(path, SpawnCell[monsters[m].def])]
  /\ UNCHANGED board

StartReturning(m) ==
  /\ \E path \in FindPath(monsters[m].pos, SpawnCell[monsters[m].def], Open) :
       monsters' = [monsters EXCEPT ![m].state = "Returning", ![m].target = NoTarget,
                      ![m].path = IF path = NoPath THEN NoPath
                                  ELSE Append(path, SpawnCell[monsters[m].def])]
  /\ UNCHANGED board

ResetUnhealed(m, rec) ==
  monsters' = [monsters EXCEPT ![m] = [rec EXCEPT !.state = "Idle", !.path = NoPath]]

Reset(m, rec) ==
  monsters' = [monsters EXCEPT ![m] =
                 [rec EXCEPT !.state = "Idle", !.health = Health, !.path = NoPath]]

AtEndOfLeash(m) == Distance(monsters[m].pos, SpawnCell[monsters[m].def]) >= Leash

\* A monster next to its target attacks, which changes nothing here.
Chase(m) ==
  LET goal == champions[monsters[m].target]
  IN  IF Adjacent(monsters[m].pos, goal) THEN UNCHANGED <<monsters, board>>
      ELSE \E path \in IF monsters[m].path = NoPath
                       THEN FindPath(monsters[m].pos, goal, Open) ELSE {monsters[m].path} :
             IF path = NoPath THEN UNCHANGED <<monsters, board>>
             ELSE IF path = <<>>
                  THEN monsters' = [monsters EXCEPT ![m].path = NoPath] /\ UNCHANGED board
                  ELSE Follow(m, path)

AggroTurn(m) ==
  IF monsters[m].target \notin Champion \/ AtEndOfLeash(m)
  THEN StartReturning(m)
  ELSE Chase(m)

AtSpawn(rec) == rec.pos = SpawnCell[rec.def]

ReturningTurnPeeks(m) ==
  LET rec == monsters[m]
  IN  IF rec.path \in {NoPath, <<>>}
      THEN UNCHANGED <<monsters, board>>
      ELSE /\ board' = MoveCell(rec.pos, Head(rec.path))
           /\ LET moved == [rec EXCEPT !.pos = Head(rec.path)]
              IN  IF AtSpawn(moved) THEN Reset(m, moved)
                  ELSE monsters' = [monsters EXCEPT ![m] = moved]

ReturningTurn(m) ==
  LET rec == monsters[m]
  IN  IF rec.path \in {NoPath, <<>>}
      THEN /\ IF AtSpawn(rec) THEN Reset(m, rec) ELSE UNCHANGED monsters
           /\ UNCHANGED board
      ELSE /\ board' = MoveCell(rec.pos, Head(rec.path))
           /\ LET moved == [rec EXCEPT !.pos = Head(rec.path), !.path = Tail(rec.path)]
              IN  IF AtSpawn(moved) THEN Reset(m, moved)
                  ELSE monsters' = [monsters EXCEPT ![m] = moved]

DeadTurn(m) ==
  /\ board' = [board EXCEPT ![monsters[m].pos] = Nobody]
  /\ monsters' = [monsters EXCEPT ![m].dead = Min({@ + 1, RespawnTurns})]

MonsterTurn(m) ==
  /\ playersDue = {}
  /\ m \in monstersDue
  /\ CASE monsters[m].state = "Idle"      -> UNCHANGED <<monsters, board>>
       [] monsters[m].state = "Aggro"     -> AggroTurn(m)
       [] monsters[m].state = "Returning" -> ReturningTurn(m)
       [] monsters[m].state = "Dead"      -> DeadTurn(m)
  /\ monstersDue' = monstersDue \ {m}
  /\ UNCHANGED <<champions, nextId, playersDue, pending, rewarded>>

CanRespawn(m) == monsters[m].state = "Dead" /\ monsters[m].dead = RespawnTurns

TurnsAreOver == playersDue = {} /\ monstersDue = {}
Respawning == {m \in DOMAIN monsters : CanRespawn(m) /\ nextId <= MaxInstances}

RespawnSameId(m) ==
  /\ TurnsAreOver
  /\ m \in Respawning
  /\ monsters' = [monsters EXCEPT ![m] = NewMonster(@.def)]
  /\ board' = [board EXCEPT ![SpawnCell[monsters[m].def]] = TheMonster(m)]
  /\ UNCHANGED <<champions, nextId, playersDue, monstersDue, pending, rewarded>>

\* The instance that is back gets a new id; its cell is taken whoever stands
\* there.
Respawn(m) ==
  /\ TurnsAreOver
  /\ m \in Respawning
  /\ LET d == monsters[m].def
     IN  /\ monsters' = [i \in (DOMAIN monsters \ {m}) \cup {nextId} |->
                           IF i = nextId THEN NewMonster(d) ELSE monsters[i]]
         /\ board' = [board EXCEPT ![SpawnCell[d]] = TheMonster(nextId)]
  /\ nextId' = nextId + 1
  /\ UNCHANGED <<champions, playersDue, monstersDue, pending, rewarded>>

-----------------------------------------------------------------------------
(* The effects                                                             *)

\* take_effect, then attach_target: the first attacker is the target, and a
\* dead monster takes none.
TakeHit(rec, attacker) ==
  LET health == Max({0, rec.health - 1})
  IN  IF health = 0
      THEN [rec EXCEPT !.health = 0, !.state = "Dead", !.target = NoTarget, !.dead = 0]
      ELSE [rec EXCEPT !.health = health, !.state = "Aggro",
                       !.target = IF @ = NoTarget THEN attacker ELSE @]

\* A shot that has reached a monster: what it hits is read from the board.
Shots ==
  {<<>>} \cup {<< <<a, m>> >> : a \in Champion \cup Tower,
               m \in {i \in DOMAIN monsters : \E x \in Cell : board[x] = TheMonster(i)}}

\* The monsters after each of the hits, of which those on nobody change nothing.
AfterHits(hits) ==
  LET after[k \in 0..Len(hits)] ==
        IF k = 0 THEN monsters
        ELSE IF hits[k][2] \notin DOMAIN monsters THEN after[k - 1]
        ELSE [after[k - 1] EXCEPT ![hits[k][2]] = TakeHit(@, hits[k][1])]
  IN  after

\* apply_effects_to_monster for each effect in turn; every one that leaves the
\* monster without health yields a reward, which a tower cannot collect.
ApplyEffects ==
  /\ TurnsAreOver
  /\ Respawning = {}
  /\ \E shots \in Shots :
       LET hits == pending \o shots
           Pays(k) == /\ hits[k][1] \in Champion
                      /\ hits[k][2] \in DOMAIN monsters
                      /\ AfterHits(hits)[k][hits[k][2]].health = 0
       IN  /\ monsters' = AfterHits(hits)[Len(hits)]
           /\ rewarded' = rewarded \cup {hits[k][2] : k \in {j \in 1..Len(hits) : Pays(j)}}
  /\ pending' = <<>>
  /\ playersDue' = Champion
  /\ monstersDue' = DOMAIN monsters
  /\ UNCHANGED <<champions, nextId, board>>

Next ==
  \/ \E c \in Champion : PlayerTurn(c)
  \/ \E m \in 1..nextId : m \in DOMAIN monsters /\ (MonsterTurn(m) \/ Respawn(m))
  \/ ApplyEffects

Spec == Init /\ [][Next]_vars

\* The tick timer runs one tick after the other (Tick of GameSession).
FairSpec == Spec /\ WF_vars(Next)

-----------------------------------------------------------------------------
(* Properties                                                              *)

\* Types.
TypeOK ==
  /\ champions \in [Champion -> Cell]
  /\ nextId \in Nat /\ DOMAIN monsters \subseteq 1..nextId - 1
  /\ \A m \in DOMAIN monsters :
       /\ monsters[m].state \in {"Idle", "Aggro", "Returning", "Dead"}
       /\ monsters[m].target \in Champion \cup Tower \cup {NoTarget}
       /\ monsters[m].health \in 0..Health
       /\ monsters[m].pos \in Cell
       /\ monsters[m].dead \in 0..RespawnTurns
  /\ playersDue \subseteq Champion /\ monstersDue \subseteq DOMAIN monsters
  /\ rewarded \subseteq 1..nextId - 1

\* A monster is after somebody exactly while it is in pursuit: one that has let
\* go or died does not remember, one in pursuit is never without a target.
PursuitHasTarget ==
  \A m \in DOMAIN monsters :
    (monsters[m].state = "Aggro") = (monsters[m].target # NoTarget)

\* A monster at rest is whole and at home, and one without health is dead.
RestIsWhole ==
  \A m \in DOMAIN monsters :
    /\ monsters[m].state = "Idle" => AtSpawn(monsters[m]) /\ monsters[m].health = Health
    /\ (monsters[m].state = "Dead") = (monsters[m].health = 0)

\* A champion that is on the board where it stands stays on it, walking, fighting
\* and returning, unless by its own record a monster, alive or dead, or another
\* champion is on its cell, before the step or after: that one wipes it off the board
\* or carries it away.
ChampionsStayShown ==
  [][\A c \in Champion :
       board[champions[c]] = TheChampion(c) /\ board'[champions'[c]] # TheChampion(c) =>
         \/ \E m \in DOMAIN monsters : monsters[m].pos = champions[c]
         \/ \E m \in DOMAIN monsters' : monsters'[m].pos = champions'[c]
         \/ \E d \in Champion \ {c} : champions[d] = champions[c] \/ champions'[d] = champions'[c]]_vars

\* A reward is for a monster that is dead or has been replaced.
RewardsAreForTheDead ==
  \A m \in rewarded : m \in DOMAIN monsters => monsters[m].health = 0

\* A monster that has a way home does not return for ever.
ReturnEnds ==
  \A m \in 1..MaxInstances :
    m \in DOMAIN monsters /\ monsters[m].state = "Returning" /\ monsters[m].path # NoPath
      ~> m \notin DOMAIN monsters \/ monsters[m].state # "Returning"

=============================================================================
