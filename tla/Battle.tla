------------------------------- MODULE Battle -------------------------------
(***************************************************************************)
(* A tick of a match: the turns of champions and minions, a wave, and the  *)
(* hits of the tick applied at its end, up to the fall of a base.          *)
(*                                                                         *)
(* The tick holds the lock of the match, which a joiner may take between   *)
(* two ticks; the turns are taken in any order where the code walks a      *)
(* HashMap.  What a cell shows and where a unit stands by its own record   *)
(* are two things, as in the code: a unit walks by its record, carries     *)
(* along what its cell shows, and is seen and hit by what cells show.      *)
(* Health counts hits, time counts tens of seconds or ticks.  Monsters and *)
(* projectiles in flight have modules of their own; here a shot is a hit   *)
(* on somebody who is shown.                                               *)
(***************************************************************************)
EXTENDS BoardView

CONSTANTS
  Team,            \* the two teams
  Champion, Tower, \* their ids
  TeamOf,          \* [Champion \cup Tower -> Team]
  Home,            \* [Champion -> cell of its start]
  BaseCell,        \* where dead champions of both teams are put
  Corner,          \* [Tower -> its lower left cell]
  Fort,            \* [Team -> cells of its base]
  Lane,            \* teams and lanes in the order of make_wave's loops: a sequence
                   \* of [team, spawn: a cell, goals: a sequence of cells]
  MinionId,        \* bound: what generate_minion_id draws from
  ChampionHealth, MinionHealth, TowerHealth, FortHealth,
  Reach,           \* a champion's attack range, rows and columns
  Aggro,           \* a minion's aggro range
  DeathTurns,      \* ticks of a death timer
  Reward,          \* gold for a minion
  MaxArrivals      \* bound: waves made, and players that join in another's place

ASSUME NumbersAssumption ==
  /\ {ChampionHealth, MinionHealth, TowerHealth, FortHealth, DeathTurns} \subseteq Nat \ {0}
  /\ {Reward, MaxArrivals} \subseteq Nat
  /\ {Reach, Aggro} \subseteq (1..Rows) \X (1..Cols)
  /\ IsFiniteSet(Champion)

VARIABLES
  champions,   \* [Champion -> [pos, health, dead, gold]]
  minions,     \* [ids in use -> [lane, pos, health, checkpoint, path]]
  towers,      \* [Tower -> health], 0 once it is destroyed and removed
  forts,       \* [Team -> health of its base]
  board,       \* [Cell -> what it shows]
  rubble,      \* cells of terrain TowerDestroyed
  championsDue,\* whose turn is due in this tick, of the champions
  minionsDue,  \* of the minions' movement, which follows
  waveDue,     \* and make_wave after that
  pending,     \* the hits of the champions: {<<champion, target>>}
  waves,       \* waves made
  rejoins,     \* counter for a bound
  outcome,     \* "running", "won" or "crashed"
  displaced    \* history: what was wiped off its cell or carried elsewhere

turns == <<championsDue, minionsDue, waveDue>>
vars  == <<champions, minions, towers, forts, board, rubble, turns, pending, waves,
           rejoins, outcome, displaced>>

TheChampion(c)  == <<"champion", c, TeamOf[c]>>
TheTower(t)     == <<"tower", t, TeamOf[t]>>
Side(rec)       == Lane[rec.lane].team
TheMinion(m, t) == <<"minion", m, t>>
TheFort(t)      == <<"base", t, t>>

\* Effects are addressed by kind and id, without the team.
Target(shown) == <<shown[1], shown[2]>>

LowerRow(t)  == {Corner[t], <<Corner[t][1], Corner[t][2] + 1>>}
Footprint(t) == LowerRow(t) \cup {<<x[1] - 1, x[2]>> : x \in LowerRow(t)}

\* The map: nothing starts or is put where somebody else starts, and no tower is
\* built on the way of a return or a wave.
ASSUME MapAssumption ==
  /\ TeamOf \in [Champion \cup Tower -> Team] /\ BaseCell \in Cell
  /\ Home \in [Champion -> Cell] /\ \A c, d \in Champion : Home[c] = Home[d] => c = d
  /\ Fort \in [Team -> SUBSET Cell] /\ \A t, u \in Team : t # u => Fort[t] \cap Fort[u] = {}
  /\ Lane \in Seq([team : Team, spawn : Cell, goals : Seq(Cell) \ {<<>>}])
  /\ \A i, j \in DOMAIN Lane : Lane[i].spawn = Lane[j].spawn => i = j
  /\ \A c \in Champion, t \in Team : Home[c] \notin Fort[t]
  /\ \A t \in Tower :
       /\ Footprint(t) \subseteq Cell /\ BaseCell \notin Footprint(t)
       /\ \A u \in Tower \ {t} : Footprint(t) \cap Footprint(u) = {}
       /\ \A c \in Champion : Home[c] \notin Footprint(t)
       /\ \A i \in DOMAIN Lane : Lane[i].spawn \notin Footprint(t)
       /\ \A u \in Team : Fort[u] \cap Footprint(t) = {}

NewChampion(c) == [pos |-> Home[c], health |-> ChampionHealth, dead |-> 0, gold |-> 0]

Init ==
  /\ champions = [c \in Champion |-> NewChampion(c)]
  /\ minions = <<>>
  /\ towers = [t \in Tower |-> TowerHealth]
  /\ forts = [t \in Team |-> FortHealth]
  /\ board = [x \in Cell |->
                LET here == {TheChampion(c) : c \in {d \in Champion : Home[d] = x}}
                            \cup {TheTower(t) : t \in {u \in Tower : x \in Footprint(u)}}
                            \cup {TheFort(t) : t \in {u \in Team : x \in Fort[u]}}
                IN  IF here = {} THEN Nobody ELSE CHOOSE u \in here : TRUE]
  /\ rubble = {}
  /\ championsDue = Champion /\ minionsDue = {} /\ waveDue = TRUE
  /\ pending = {}
  /\ waves = 0 /\ rejoins = 0
  /\ outcome = "running"
  /\ displaced = {}

-----------------------------------------------------------------------------
(* The board                                                               *)

Passable(x) == board[x] = Nobody /\ x \notin rubble

\* u goes from a to b: what a shows goes along, what b shows is lost.
Carry(u, a, b) ==
  /\ board' = MovedOn(board, a, b)
  /\ displaced' = displaced \cup ({board[a], board[b]} \ {u, Nobody})

\* The cells in sight that show an enemy of one of the kinds.
Seen(cells, x, range, kinds, team) ==
  {y \in CenterView(x, range) : cells[y] # Nobody /\ cells[y][1] \in kinds /\ cells[y][3] # team}

\* Of those the closest to the middle of the window.
Nearest(cells, x, range, kinds, team) ==
  Closest(Middle(x, range), Seen(cells, x, range, kinds, team))

\* Whom a minion goes for.
Foes(rec) == Nearest(board, rec.pos, Aggro, {"champion", "minion", "tower"}, Side(rec))

-----------------------------------------------------------------------------
(* The players' turn                                                       *)

Walk(c, x) ==
  LET a == champions[c].pos
  IN  /\ Adjacent(a, x) /\ (a[1] = x[1] \/ a[2] = x[2])
      /\ Passable(x)
      /\ Carry(TheChampion(c), a, x)
      /\ champions' = [champions EXCEPT ![c].pos = x]

Stay == UNCHANGED <<board, displaced, champions>>

\* In attack mode a champion only looks for champions.
Attackable == {{"champion", "minion", "tower", "base"}, {"champion"}}

\* The attack comes after the action, when the cooldown allows one; a stun
\* takes both, any other action stays on the cell.
Act(c) ==
  /\ Stay \/ \E x \in Cell : Walk(c, x)
  /\ \/ UNCHANGED pending
     \/ \E kinds \in Attackable :
          \E y \in Nearest(board', champions'[c].pos, Reach, kinds, TeamOf[c]) :
            pending' = pending \cup {<<c, Target(board'[y])>>}

\* put_at_max_health and place_at_base, at each tick of the death timer.
PlaceAtBase(c) ==
  /\ Carry(TheChampion(c), champions[c].pos, BaseCell)
  /\ champions' = [champions EXCEPT ![c].health = ChampionHealth, ![c].pos = BaseCell,
                                    ![c].dead = @ - 1]

ChampionTurn(c) ==
  /\ outcome = "running"
  /\ c \in championsDue
  /\ IF champions[c].dead > 0 THEN PlaceAtBase(c) /\ UNCHANGED pending ELSE Act(c)
  /\ championsDue' = championsDue \ {c}
  /\ UNCHANGED <<minions, towers, forts, rubble, minionsDue, waveDue, waves, rejoins, outcome>>

-----------------------------------------------------------------------------
(* The minions' movement                                                   *)

Goals(rec) == Lane[rec.lane].goals

AtGoal(m) == Adjacent(minions[m].pos, Goals(minions[m])[minions[m].checkpoint])

\* change_goal tests the checkpoint it leaves and reads the one after it.
AtLaneEnd(m) == AtGoal(m) /\ minions[m].checkpoint = Len(Goals(minions[m]))

Towards(a, b) ==
  LET Sign(i) == IF i > 0 THEN 1 ELSE IF i < 0 THEN -1 ELSE 0
  IN  <<a[1] + Sign(b[1] - a[1]), a[2] + Sign(b[2] - a[2])>>

\* move_minion, after which the record reads rec.
MoveMinion(m, rec, x) ==
  /\ Carry(TheMinion(m, Side(rec)), rec.pos, x)
  /\ minions' = [minions EXCEPT ![m] = [rec EXCEPT !.pos = x]]

\* Without a path, or with one that is blocked: a step towards the closest
\* enemy in sight or the goal; a way around if that step is blocked.
Advance(m, rec) ==
  \E goal \in IF Foes(rec) = {} THEN {Goals(rec)[rec.checkpoint]} ELSE Foes(rec) :
    LET x == Towards(rec.pos, goal)
    IN  IF Adjacent(rec.pos, goal)
        THEN minions' = [minions EXCEPT ![m] = rec] /\ UNCHANGED <<board, displaced>>
        ELSE IF Passable(x) THEN MoveMinion(m, rec, x)
        ELSE \E path \in FindPath(rec.pos, goal, {y \in Cell : Passable(y)}) :
               /\ minions' = [minions EXCEPT ![m] = [rec EXCEPT !.path = path]]
               /\ UNCHANGED <<board, displaced>>

\* A step of the path that is still open, or a new decision.
Proceed(m, rec) ==
  LET x == Towards(rec.pos, Head(rec.path))
      rest == Tail(rec.path)
  IN  IF rec.path # NoPath /\ Passable(x)
      THEN MoveMinion(m, [rec EXCEPT !.path = IF rest = <<>> THEN NoPath ELSE rest], x)
      ELSE Advance(m, [rec EXCEPT !.path = NoPath])

StunnedTurn == UNCHANGED <<minions, board, displaced, outcome>>

\* movement_phase; a stunned minion does nothing.  Reading past the last
\* checkpoint panics in the task of the tick.
MinionTurn(m) ==
  /\ outcome = "running" /\ championsDue = {}
  /\ m \in minionsDue
  /\ minionsDue' = minionsDue \ {m}
  /\ \/ StunnedTurn
     \/ AtLaneEnd(m) /\ outcome' = "crashed" /\ UNCHANGED <<minions, board, displaced>>
     \/ /\ ~AtLaneEnd(m)
        /\ Proceed(m, [minions[m] EXCEPT !.checkpoint = IF AtGoal(m) THEN @ + 1 ELSE @])
        /\ UNCHANGED outcome
  /\ UNCHANGED <<champions, towers, forts, rubble, championsDue, waveDue, pending, waves,
                 rejoins>>

-----------------------------------------------------------------------------
(* make_wave                                                               *)

NewMinion(i) ==
  [lane |-> i, pos |-> Lane[i].spawn, health |-> MinionHealth, checkpoint |-> 1, path |-> NoPath]

\* One minion for each team and lane; ids are drawn without a look at those in
\* use, and a minion whose id is drawn again is gone.
MakeWave ==
  \E id \in [DOMAIN Lane -> MinionId] :
    LET drawn == {id[i] : i \in DOMAIN Lane}
        Owner(m) == Max({i \in DOMAIN Lane : id[i] = m})
        Lost(i) == {board[Lane[i].spawn]}
                   \cup {TheMinion(m, Side(minions[m])) : m \in {id[i]} \cap DOMAIN minions}
                   \cup {TheMinion(id[j], Lane[j].team) : j \in {k \in 1..i - 1 : id[k] = id[i]}}
    IN  /\ minions' = [m \in DOMAIN minions \cup drawn |->
                         IF m \in drawn THEN NewMinion(Owner(m)) ELSE minions[m]]
        /\ board' = [x \in Cell |->
                       IF \E i \in DOMAIN Lane : Lane[i].spawn = x
                       THEN LET i == CHOOSE j \in DOMAIN Lane : Lane[j].spawn = x
                            IN  TheMinion(id[i], Lane[i].team)
                       ELSE board[x]]
        /\ displaced' = displaced \cup ((UNION {Lost(i) : i \in DOMAIN Lane}) \ {Nobody})

WaveTurn ==
  /\ outcome = "running" /\ championsDue = {} /\ minionsDue = {} /\ waveDue
  /\ waveDue' = FALSE
  /\ \/ UNCHANGED <<minions, board, displaced, waves>>
     \/ waves + rejoins < MaxArrivals /\ waves' = waves + 1 /\ MakeWave
  /\ UNCHANGED <<champions, towers, forts, rubble, championsDue, minionsDue, pending,
                 rejoins, outcome>>

-----------------------------------------------------------------------------
(* The hits of a tick                                                      *)

\* attack_phase: a minion may hit the closest enemy in sight, however far, if
\* it is none of the bases.
MinionHits ==
  UNION {{<<m, Target(board[y])>> : y \in Foes(minions[m])} : m \in DOMAIN minions}

\* Projectiles of towers and spells reach whom a cell on their way shows; a
\* monster hits its champion by id.
Exposed == {<<"champion", c>> : c \in Champion}
           \cup {Target(board[x]) : x \in {y \in Cell :
                   board[y] # Nobody /\ board[y][1] \in {"champion", "minion", "tower"}}}

AtMostOne(S) == {{}} \cup {{u} : u \in S}

After(health, hits) == Max({0, health - hits})

\* Neither towers nor bases take more than damage.
TowerAfter(t, hits) == After(towers[t], hits)
FortAfter(t, hits)  == After(forts[t], hits)

\* take_effect of a champion: the timer starts at every hit that leaves it
\* without health.
Hurt(rec, hits) ==
  LET health == After(rec.health, hits)
  IN  [rec EXCEPT !.health = health, !.dead = IF hits > 0 /\ health = 0 THEN DeathTurns ELSE @]

\* What a dead minion is worth to c: champions of the other team within two
\* cells of where it stood share.
Share(c, m) ==
  LET near == {d \in Champion : /\ TeamOf[d] # Side(minions[m])
                                /\ Distance(champions[d].pos, minions[m].pos) <= 2}
  IN  IF c \in near THEN Reward \div Cardinality(near) ELSE 0

Bounty(c, dead) == SumFunction([m \in dead |-> Share(c, m)])

ClearedOfMinionsLeft(dead, fallen) == UNION {Footprint(t) : t \in fallen}
ClearedHalfTowers(dead, fallen) ==
  {minions[m].pos : m \in dead} \cup UNION {LowerRow(t) : t \in fallen}

\* handle_minion_death and destroy_tower clear the cells of the records.
Cleared(dead, fallen) ==
  {minions[m].pos : m \in dead} \cup UNION {Footprint(t) : t \in fallen}

SurvivorsWithTheDead(dead) == DOMAIN minions

Survivors(dead) == DOMAIN minions \ dead

\* A heal reaches whom it is shot at, in any order with the hits of the tick.
Healed(heals, u, health, full) == Min({full, health + Cardinality(heals \cap {u})})

\* What the effects of a tick leave: blows are pairs of who and whom.
ApplyEffects(blows, first, last) ==
  LET Hits(kind, id) == Cardinality({h \in blows : h[2] = <<kind, id>>})
      Struck(c) ==
        Hurt([champions[c] EXCEPT !.health = Healed(first, <<"champion", c>>, @, ChampionHealth)],
             Hits("champion", c))
      Left(m) == After(Healed(first, <<"minion", m>>, minions[m].health, MinionHealth),
                       Hits("minion", m))
      dead == {m \in DOMAIN minions : Left(m) = 0}
      fallen == {t \in Tower : towers[t] > 0 /\ TowerAfter(t, Hits("tower", t)) = 0}
      cleared == Cleared(dead, fallen)
      gone == {TheMinion(m, Side(minions[m])) : m \in dead} \cup {TheTower(t) : t \in fallen}
  IN  /\ champions' = [c \in Champion |->
           [Struck(c) EXCEPT !.health = Healed(last, <<"champion", c>>, @, ChampionHealth),
                             !.gold = @ + Bounty(c, dead)]]
      /\ minions' = [m \in Survivors(dead) |->
           [minions[m] EXCEPT !.health = Healed(last, <<"minion", m>>, Left(m), MinionHealth)]]
      /\ towers' = [t \in Tower |-> TowerAfter(t, Hits("tower", t))]
      /\ forts' = [t \in Team |-> FortAfter(t, Hits("base", t))]
      /\ board' = [x \in Cell |-> IF x \in cleared THEN Nobody ELSE board[x]]
      /\ rubble' = rubble \cup UNION {LowerRow(t) : t \in fallen}
      /\ displaced' = displaced \cup ({board[x] : x \in cleared} \ (gone \cup {Nobody}))

\* The effects of the tick are applied in the order they were collected, of
\* which every unit only sees its own.  Bound: one hit and one heal by
\* projectiles and monsters in a tick; the heal comes first or last, and to
\* somebody who is wounded or hit.
Strike ==
  /\ outcome = "running" /\ championsDue = {} /\ minionsDue = {} /\ ~waveDue
  /\ \E aims \in {S \in SUBSET MinionHits : \A h, i \in S : h[1] = i[1] => h = i},
        shots \in AtMostOne(Exposed) :
       LET blows == pending \cup aims \cup {<<"shot", u>> : u \in shots}
           wounded == {h[2] : h \in {i \in blows : i[2][1] \in {"champion", "minion"}}}
                      \cup {<<"champion", c>> : c \in {d \in Champion : champions[d].health < ChampionHealth}}
                      \cup {<<"minion", m>> : m \in {i \in DOMAIN minions : minions[i].health < MinionHealth}}
       IN  \E heal \in AtMostOne(wounded), early \in BOOLEAN :
             ApplyEffects(blows, IF early THEN heal ELSE {}, IF early THEN {} ELSE heal)
  /\ outcome' = IF \E t \in Team : forts'[t] = 0 THEN "won" ELSE outcome
  /\ pending' = {}
  /\ championsDue' = Champion /\ minionsDue' = DOMAIN minions' /\ waveDue' = TRUE
  /\ UNCHANGED <<waves, rejoins>>

-----------------------------------------------------------------------------
(* A player joins in the place of one that left                            *)

\* place_cell: whoever the cell shows is lost, and so is the place of a unit that
\* is shown elsewhere already.
Put(u, x) ==
  /\ board' = [board EXCEPT ![x] = u]
  /\ displaced' = displaced \cup ({board[x]} \ {u, Nobody})
                            \cup (IF \E y \in Cell \ {x} : board[y] = u THEN {u} ELSE {})

\* add_player in a match that is short of players: the champion of the id is replaced
\* by a new one on its start, and what shows the old one stays.  A departure changes
\* neither champions nor board; when there is a seat, and of which id, is for
\* GameSession to say: all may leave and come back one by one, so any id it may be.
\* Bound: MaxArrivals.
Rejoin(c) ==
  /\ outcome = "running"
  /\ championsDue = Champion
  /\ waves + rejoins < MaxArrivals /\ rejoins' = rejoins + 1
  /\ Put(TheChampion(c), Home[c])
  /\ champions' = [champions EXCEPT ![c] = NewChampion(c)]
  /\ UNCHANGED <<minions, towers, forts, rubble, turns, pending, waves, outcome>>

Next ==
  \/ \E c \in Champion : ChampionTurn(c)
  \/ \E m \in MinionId : MinionTurn(m)
  \/ WaveTurn
  \/ Strike
  \/ \E c \in Champion : Rejoin(c)

Spec == Init /\ [][Next]_vars

-----------------------------------------------------------------------------
(* Properties                                                              *)

\* Where a unit stands by its own record.
StandsOn(u) ==
  IF u[1] = "champion" THEN {champions[u[2]].pos}
  ELSE IF u[1] = "minion"
  THEN {minions[m].pos : m \in {i \in DOMAIN minions : TheMinion(i, Side(minions[i])) = u}}
  ELSE IF u[1] = "tower" THEN IF towers[u[2]] > 0 THEN Footprint(u[2]) ELSE {}
  ELSE Fort[u[2]]

Unit == {TheChampion(c) : c \in Champion} \cup {TheTower(t) : t \in Tower}
        \cup {TheMinion(m, t) : m \in MinionId, t \in Team} \cup {TheFort(t) : t \in Team}

\* The board shows everybody exactly where they stand by their own record, and
\* nobody who is gone, but for those whom a wave, a champion's return, a new player
\* or the death of another has wiped off their cell or taken along, and a champion
\* that was replaced while another cell than its start showed it.
ShownWhereTheyStand ==
  \A u \in Unit \ displaced : {x \in Cell : board[x] = u} = StandsOn(u)

\* A tower blocks its cells until it falls, whatever walks, spawns or returns,
\* and leaves its lower cells blocked and its upper cells free to enter.
TowersStandWhole ==
  \A t \in Tower :
    IF towers[t] > 0
    THEN LowerRow(t) \cap rubble = {} /\ \A x \in Footprint(t) : board[x] = TheTower(t)
    ELSE LowerRow(t) \subseteq rubble /\ \A x \in Footprint(t) : board[x] # TheTower(t)

\* No gold but for minions that are gone, and never more than they are worth.
RewardsAreEarned ==
  SumFunction([c \in Champion |-> champions[c].gold])
    <= Reward * (waves * Len(Lane) - Cardinality(DOMAIN minions))

\* The values of the packet for c.
Encoded(c) ==
  LET levels == [m \in DOMAIN minions |-> HealthLevel(minions[m].health, MinionHealth)]
      cells == Flattened(champions[c].pos)
  IN  [i \in DOMAIN cells |->
         EncodedValue(board[cells[i]], IF cells[i] \in rubble THEN "rubble" ELSE "floor", levels)]

\* A player sees the whole of the window its champion is in: the client's grid is
\* filled, everybody who stands in the window by their own record is seen there as
\* what they are, and a minion without a record only where one lost its id.
ClientSeesTheBoard ==
  \A c \in Champion :
    LET grid == DecodeRLE(RunLengthEncode(Encoded(c)))
        window == CenterView(champions[c].pos, View)
        low == <<Min({x[1] : x \in window}), Min({x[2] : x \in window})>>
        At(x) == grid[(x[1] - low[1]) * View[2] + x[2] - low[2] + 1][1]
    IN  /\ Len(grid) = View[1] * View[2]
        /\ champions[c].pos \in window
        /\ \A u \in Unit \ displaced : \A x \in StandsOn(u) \cap window : At(x) = u[1]
        /\ \A x \in window : At(x) = "placeholder" => board[x] \in displaced

\* A blow is struck at what a cell shows in the turn of a champion and lands by kind
\* and id at the end of the tick, after the minions and a wave: until then it has an
\* enemy to land on, unless the enemy's id was drawn again or its picture is an old one.
BlowsMeetEnemies ==
  \A h \in pending :
    \E u \in Unit : /\ Target(u) = h[2] /\ u[3] # TeamOf[h[1]]
                    /\ StandsOn(u) # {} \/ u \in displaced

=============================================================================
