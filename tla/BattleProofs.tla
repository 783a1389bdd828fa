----------------------------- MODULE BattleProofs -----------------------------
(***************************************************************************)
(* Theorems about Battle, for any map without overlaps, any number of      *)
(* champions, towers, lanes and minions, and every order of the turns.     *)
(***************************************************************************)
EXTENDS Battle, FiniteSetTheorems, SequenceTheorems, WellFoundedInduction, TLAPS

\* A cell shows u there and nowhere else.
Shown(u, places) == \A x \in Cell : board[x] = u <=> x \in places

PlacesOf(m, team) == {minions[i].pos : i \in {j \in DOMAIN minions : j = m /\ Side(minions[j]) = team}}

ChampionsShown == \A c \in Champion : TheChampion(c) \in displaced \/ Shown(TheChampion(c), {champions[c].pos})
MinionsShown == \A m \in MinionId, t \in Team :
                  TheMinion(m, t) \in displaced \/ Shown(TheMinion(m, t), PlacesOf(m, t))
FortsShown == \A t \in Team : TheFort(t) \in displaced \/ Shown(TheFort(t), Fort[t])

\* Towers are never wiped off, because nobody stands or is put where one does.
TowersShown ==
  \A t \in Tower :
    IF towers[t] > 0
    THEN /\ Shown(TheTower(t), Footprint(t))
         /\ \A c \in Champion : champions[c].pos \notin Footprint(t)
         /\ \A m \in DOMAIN minions : minions[m].pos \notin Footprint(t)
         /\ LowerRow(t) \cap rubble = {}
    ELSE Shown(TheTower(t), {}) /\ LowerRow(t) \subseteq rubble

Path == {NoPath} \cup (Seq(Cell) \ {<<>>})

MinionRecord(rec) ==
  /\ DOMAIN rec = {"lane", "pos", "health", "checkpoint", "path"}
  /\ rec.lane \in DOMAIN Lane /\ rec.pos \in Cell
  /\ rec.checkpoint \in 1..Len(Goals(rec)) /\ rec.path \in Path

\* No minion is asked for a goal behind the last one of its lane.
Records ==
  /\ DOMAIN champions = Champion
  /\ \A c \in Champion : /\ DOMAIN champions[c] = {"pos", "health", "dead", "gold"}
                         /\ champions[c].pos \in Cell
  /\ DOMAIN minions \subseteq MinionId /\ \A m \in DOMAIN minions : MinionRecord(minions[m])
  /\ IsFiniteSet(DOMAIN minions) /\ IsFiniteSet(pending) /\ minionsDue \subseteq DOMAIN minions
  /\ towers \in [Tower -> Nat] /\ forts \in [Team -> Nat] /\ DOMAIN board = Cell

BattleInv ==
  Records /\ ChampionsShown /\ MinionsShown /\ FortsShown /\ TowersShown

-----------------------------------------------------------------------------
(* The board                                                               *)

\* Cells are pairs of coordinates on the board.
LEMMA CellIs ==
  /\ Rows \in Nat /\ Cols \in Nat
  /\ \A x \in Cell : x = <<x[1], x[2]>> /\ x[1] \in 0..Rows - 1 /\ x[2] \in 0..Cols - 1
BY SizeAssumption DEF Cell

\* The greater of two numbers.
LEMMA MaxOfTwo ==
  ASSUME NEW n \in Int, NEW m \in Int
  PROVE  Max({m, n}) = IF n > m THEN n ELSE m
<1>1. \E x \in {m, n} : \A y \in {m, n} : x >= y
  OBVIOUS
<1>2. Max({m, n}) \in {m, n} /\ \A y \in {m, n} : Max({m, n}) >= y
  BY <1>1 DEF Max
<1> QED  BY <1>2

\* The smaller of two numbers.
LEMMA MinOfTwo ==
  ASSUME NEW n \in Int, NEW m \in Int
  PROVE  Min({m, n}) = IF n < m THEN n ELSE m
<1>1. \E x \in {m, n} : \A y \in {m, n} : x <= y
  OBVIOUS
<1>2. Min({m, n}) \in {m, n} /\ \A y \in {m, n} : Min({m, n}) <= y
  BY <1>1 DEF Min
<1> QED  BY <1>2

\* center_view stays on the board.
LEMMA SpanIs ==
  ASSUME NEW size \in Nat, NEW view \in 1..size, NEW at \in 0..size - 1
  PROVE  Span(at, size, view) \subseteq 0..size - 1
<1>1. PICK half \in Nat : half = view \div 2
  OBVIOUS
<1>2. PICK low : low = Max({0, at - half}) /\ low \in Nat
  BY <1>1, MaxOfTwo
<1>3. PICK high : /\ high = IF low = 0 THEN Min({view - 1, size - 1}) ELSE Min({at + half, size - 1})
                  /\ high \in Int /\ high <= size - 1
  <2>1. Min({view - 1, size - 1}) \in Int /\ Min({view - 1, size - 1}) <= size - 1
    BY MinOfTwo
  <2>2. Min({at + half, size - 1}) \in Int /\ Min({at + half, size - 1}) <= size - 1
    BY <1>1, MinOfTwo
  <2> QED  BY <2>1, <2>2
<1>4. Span(at, size, view) = (IF high = size - 1 THEN size - view ELSE low)..high
  BY <1>1, <1>2, <1>3 DEF Span
<1> QED  BY <1>2, <1>3, <1>4

\* So does the window around a cell.
LEMMA ViewIs ==
  ASSUME NEW x \in Cell, NEW view \in (1..Rows) \X (1..Cols)
  PROVE  CenterView(x, view) \subseteq Cell
<1>1. Span(x[1], Rows, view[1]) \subseteq 0..Rows - 1
  BY CellIs, SpanIs
<1>2. Span(x[2], Cols, view[2]) \subseteq 0..Cols - 1
  BY CellIs, SpanIs
<1> QED  BY <1>1, <1>2 DEF CenterView, Cell

\* A step from one cell towards another ends on the board.
LEMMA TowardsIs ==
  ASSUME NEW a \in Cell, NEW b \in Cell
  PROVE  Towards(a, b) \in Cell
BY CellIs DEF Towards, Cell

-----------------------------------------------------------------------------
(* Paths                                                                   *)

\* The ways of k steps by those of one step less.
OneStepOn(ws, k, open) ==
  UNION {{Append(w, x) : x \in {y \in open :
            /\ Adjacent(y, Last(w))
            /\ \A i \in 1..k - 1 : Distance(y, w[i]) > 1}} : w \in ws}

Upto(f, a, open, n) ==
  f = [k \in 0..n |-> IF k = 0 THEN {<<a>>} ELSE OneStepOn(f[k - 1], k, open)]

\* Every set of naturals has a least member.
LEMMA LeastNumber ==
  ASSUME NEW S \in SUBSET Nat, S # {}
  PROVE  \E m \in S : \A k \in S : m <= k
<1> DEFINE R == {ss \in Nat \X Nat : ss[1] < ss[2]}
<1>1. IsWellFoundedOn(R, Nat)
  BY NatLessThanWellFounded, Zenon DEF OpToRel
<1> HIDE DEF R
<1>2. PICK m \in S : \A k \in S : <<k, m>> \notin R
  BY <1>1, WFMin
<1>3. ASSUME NEW k \in S  PROVE m <= k
  <2>1. k \in Nat /\ m \in Nat
    OBVIOUS
  <2>2. ~(k < m)
    BY <1>2, <2>1 DEF R
  <2> QED  BY <2>1, <2>2
<1> QED  BY <1>3

\* The recursion of WaysFrom has a solution, length by length.
LEMMA WaysExist ==
  ASSUME NEW a, NEW open
  PROVE  \A n \in Nat : \E f : Upto(f, a, open, n)
<1> DEFINE Bad == {n \in Nat : ~\E f : Upto(f, a, open, n)}
<1>1. ASSUME Bad # {}  PROVE FALSE
  <2>1. PICK n \in Bad : \A k \in Bad : n <= k
    BY <1>1, LeastNumber
  <2>2. n \in Nat /\ ~\E f : Upto(f, a, open, n)
    BY <2>1
  <2>3. CASE n = 0
    <3> DEFINE g == [k \in 0..0 |-> {<<a>>}]
    <3>1. Upto(g, a, open, 0)
      BY DEF Upto
    <3> QED  BY <2>2, <2>3, <3>1
  <2>4. CASE n # 0
    <3>1. n - 1 \in Nat /\ n - 1 \notin Bad
      <4> HIDE DEF Bad
      <4> QED  BY <2>1, <2>2, <2>4
    <3>2. PICK f : Upto(f, a, open, n - 1)
      BY <3>1
    <3> DEFINE g == [k \in 0..n |-> IF k = n THEN OneStepOn(f[n - 1], n, open) ELSE f[k]]
    <3>3. \A k \in 0..n - 1 : f[k] = IF k = 0 THEN {<<a>>} ELSE OneStepOn(f[k - 1], k, open)
      BY <3>2 DEF Upto
    <3>4. ASSUME NEW k \in 0..n
          PROVE  g[k] = IF k = 0 THEN {<<a>>} ELSE OneStepOn(g[k - 1], k, open)
      <4>1. CASE k = n
        <5>1. g[k] = OneStepOn(f[n - 1], n, open) /\ g[k - 1] = f[n - 1]
          BY <2>2, <2>4, <4>1
        <5> QED  BY <2>4, <4>1, <5>1
      <4>2. CASE k # n
        <5>1. k \in 0..n - 1 /\ g[k] = f[k] /\ (k # 0 => g[k - 1] = f[k - 1])
          BY <2>2, <4>2
        <5> QED  BY <3>3, <5>1
      <4> QED  BY <4>1, <4>2
    <3>5. Upto(g, a, open, n)
      <4>1. g = [k \in 0..n |-> g[k]]
        OBVIOUS
      <4> HIDE DEF g
      <4> QED  BY <3>4, <4>1 DEF Upto
    <3> QED  BY <2>2, <3>5
  <2> QED  BY <2>3, <2>4
<1> QED  BY <1>1

\* A way of n steps has n + 1 cells.
LEMMA WaysAreOnTheBoard ==
  ASSUME NEW a \in Cell, NEW open \in SUBSET Cell, NEW n \in 0..Rows * Cols,
         NEW w \in WaysFrom(a, open)[n]
  PROVE  w \in Seq(Cell) /\ Len(w) = n + 1
<1>1. PICK most : most = Rows * Cols /\ most \in Nat
  BY CellIs
<1>2. PICK f : f = WaysFrom(a, open)
  OBVIOUS
<1>3. Upto(f, a, open, most)
  <2>1. \E g : Upto(g, a, open, most)
    BY <1>1, WaysExist
  <2>2. f = CHOOSE g : Upto(g, a, open, most)
    BY <1>1, <1>2 DEF WaysFrom, Upto, OneStepOn
  <2> QED  BY <2>1, <2>2
<1> DEFINE Good(k) == \A v \in f[k] : v \in Seq(Cell) /\ Len(v) = k + 1
           Bad == {k \in Nat : k <= most /\ ~Good(k)}
<1>4. ASSUME Bad # {}  PROVE FALSE
  <2>1. PICK k \in Bad : \A j \in Bad : k <= j
    BY <1>4, LeastNumber
  <2>2. k \in 0..most /\ ~Good(k)
    BY <1>1, <2>1
  <2>3. f[k] = IF k = 0 THEN {<<a>>} ELSE OneStepOn(f[k - 1], k, open)
    BY <1>3, <2>2 DEF Upto
  <2>4. k # 0
    <3>1. <<a>> \in Seq(Cell) /\ Len(<<a>>) = 0 + 1
      OBVIOUS
    <3>2. k = 0 => Good(k)
      BY <2>3, <3>1
    <3> QED  BY <2>2, <3>2
  <2>5. Good(k - 1)
    <3>1. k - 1 \in Nat /\ k - 1 <= most /\ k - 1 \notin Bad
      <4> HIDE DEF Bad
      <4> QED  BY <1>1, <2>1, <2>2, <2>4
    <3> HIDE DEF Good
    <3> QED  BY <3>1
  <2>6. ASSUME NEW v \in f[k]  PROVE v \in Seq(Cell) /\ Len(v) = k + 1
    <3>1. PICK u \in f[k - 1], x \in open : v = Append(u, x)
      BY <2>3, <2>4, <2>6 DEF OneStepOn
    <3>2. u \in Seq(Cell) /\ Len(u) = k - 1 + 1
      BY <2>5, <3>1
    <3> QED  BY <2>2, <3>1, <3>2
  <2> QED  BY <2>2, <2>6
<1>5. n \in Nat /\ n <= most /\ n \notin Bad
  <2> HIDE DEF Bad
  <2> QED  BY <1>1, <1>4
<1> QED  BY <1>2, <1>5

\* What the search returns is no path, or a way over cells of the board.
LEMMA PathIs ==
  ASSUME NEW a \in Cell, NEW goal, NEW open \in SUBSET Cell
  PROVE  FindPath(a, goal, open) \subseteq Path
<1>1. CASE Distance(a, goal) <= 1
  BY <1>1 DEF FindPath, Path
<1>2. CASE ~(Distance(a, goal) <= 1)
  <2> DEFINE ways == WaysFrom(a, open)
             Arriving(n) == {w \in ways[n] : Adjacent(Last(w), goal)}
             lengths == {n \in 1..Rows * Cols : Arriving(n) # {}}
  <2>1. FindPath(a, goal, open)
          = IF lengths = {} THEN {NoPath} ELSE {Tail(w) : w \in Arriving(Min(lengths))}
    BY <1>2 DEF FindPath
  <2>2. CASE lengths = {}
    BY <2>1, <2>2 DEF Path
  <2>3. CASE lengths # {}
    <3>1. Min(lengths) \in lengths
      <4>1. lengths \in SUBSET Nat
        BY CellIs
      <4> HIDE DEF lengths
      <4>2. \E n \in lengths : \A k \in lengths : n <= k
        BY <2>3, <4>1, LeastNumber
      <4> QED  BY <4>2 DEF Min
    <3>2. PICK n \in 1..Rows * Cols : n = Min(lengths)
      BY <3>1
    <3>3. n \in 0..Rows * Cols /\ n \in Nat /\ n # 0
      BY <3>2, CellIs
    <3>4. ASSUME NEW w \in Arriving(n)  PROVE Tail(w) \in Path
      <4>1. w \in Seq(Cell) /\ Len(w) = n + 1
        BY <3>3, WaysAreOnTheBoard
      <4>2. Tail(w) \in Seq(Cell) /\ Len(Tail(w)) = n
        BY <3>3, <4>1
      <4>3. PICK t \in Seq(Cell) : t = Tail(w) /\ Len(t) # 0
        BY <3>3, <4>2
      <4>4. t # <<>>
        BY <4>3
      <4> QED  BY <4>3, <4>4 DEF Path
    <3> HIDE DEF lengths, Arriving
    <3> QED  BY <2>1, <2>3, <3>2, <3>4
  <2> QED  BY <2>2, <2>3
<1> QED  BY <1>1, <1>2

-----------------------------------------------------------------------------
(* Units                                                                   *)

\* Cells show different things for different units, and for nobody.
LEMMA UnitsDiffer ==
  /\ \A c : /\ TheChampion(c) # Nobody /\ \A d : TheChampion(c) = TheChampion(d) => c = d
            /\ \A t : TheChampion(c) # TheTower(t) /\ TheChampion(c) # TheFort(t)
            /\ \A m, t : TheChampion(c) # TheMinion(m, t)
  /\ \A m, t : /\ TheMinion(m, t) # Nobody
               /\ \A i, u : TheMinion(m, t) = TheMinion(i, u) => m = i /\ t = u
               /\ \A u : TheMinion(m, t) # TheTower(u) /\ TheMinion(m, t) # TheFort(u)
  /\ \A t : /\ TheTower(t) # Nobody /\ TheFort(t) # Nobody
            /\ \A u : TheTower(t) # TheFort(u) /\ (TheTower(t) = TheTower(u) => t = u)
            /\ \A u : TheFort(t) = TheFort(u) => t = u
BY DEF TheChampion, TheMinion, TheTower, TheFort, Nobody

\* What the map says of its lanes, lane by lane.
LEMMA LaneIs ==
  /\ Len(Lane) \in Nat /\ DOMAIN Lane = 1..Len(Lane)
  /\ \A i \in DOMAIN Lane :
       /\ Lane[i].team \in Team /\ Lane[i].spawn \in Cell
       /\ Len(Lane[i].goals) \in Nat \ {0} /\ \A k \in 1..Len(Lane[i].goals) : Lane[i].goals[k] \in Cell
<1>1. Lane \in Seq([team : Team, spawn : Cell, goals : Seq(Cell) \ {<<>>}])
  BY MapAssumption
<1>2. Len(Lane) \in Nat /\ DOMAIN Lane = 1..Len(Lane)
  BY <1>1
<1>3. ASSUME NEW i \in DOMAIN Lane
      PROVE  /\ Lane[i].team \in Team /\ Lane[i].spawn \in Cell
             /\ Len(Lane[i].goals) \in Nat \ {0} /\ \A k \in 1..Len(Lane[i].goals) : Lane[i].goals[k] \in Cell
  <2>1. Lane[i] \in [team : Team, spawn : Cell, goals : Seq(Cell) \ {<<>>}]
    BY <1>1, <1>2, ElementOfSeq
  <2>2. PICK goals \in Seq(Cell) : goals = Lane[i].goals /\ goals # <<>>
    BY <2>1
  <2>3. Len(goals) \in Nat \ {0} /\ \A k \in 1..Len(goals) : goals[k] \in Cell
    BY <2>2
  <2> QED  BY <2>1, <2>2, <2>3
<1> QED  BY <1>2, <1>3

\* What a unit does that goes from a to b: whoever is lost is recorded.
LEMMA CarryIs ==
  ASSUME DOMAIN board = Cell, NEW a \in Cell, NEW b \in Cell, NEW u,
         board' = MovedOn(board, a, b),
         displaced' = displaced \cup ({board[a], board[b]} \ {u, Nobody})
  PROVE  /\ DOMAIN board' = Cell /\ displaced \subseteq displaced'
         /\ \A x \in Cell : board'[x] = IF x = b THEN board[a] ELSE IF x = a THEN Nobody ELSE board[x]
         /\ board[a] \in {u, Nobody} \/ board[a] \in displaced'
         /\ board[b] \in {u, Nobody} \/ board[b] \in displaced'
BY DEF MovedOn

-----------------------------------------------------------------------------
(* The initial states                                                      *)

Here(x) == {TheChampion(c) : c \in {d \in Champion : Home[d] = x}}
           \cup {TheTower(t) : t \in {u \in Tower : x \in Footprint(u)}}
           \cup {TheFort(t) : t \in {u \in Team : x \in Fort[u]}}

\* Nobody shares a cell of the map at the start.
LEMMA NobodyShares ==
  ASSUME NEW x, NEW u \in Here(x), NEW v \in Here(x)
  PROVE  u = v
<1> USE DEF Here
<1>1. CASE \E c \in Champion : Home[c] = x
  <2>1. PICK c \in Champion : Home[c] = x
    BY <1>1
  <2>2. \A w \in Here(x) : w = TheChampion(c)
    BY <2>1, MapAssumption
  <2> QED  BY <2>2
<1>2. CASE ~\E c \in Champion : Home[c] = x
  <2>1. CASE \E t \in Tower : x \in Footprint(t)
    <3>1. PICK t \in Tower : x \in Footprint(t)
      BY <2>1
    <3>2. (\A t2 \in Tower \ {t} : x \notin Footprint(t2)) /\ (\A t2 \in Team : x \notin Fort[t2])
      BY <3>1, MapAssumption
    <3>3. \A w \in Here(x) : w = TheTower(t)
      BY <1>2, <3>2
    <3> QED  BY <3>3
  <2>2. CASE ~\E t \in Tower : x \in Footprint(t)
    <3>1. PICK t \in Team : u = TheFort(t) /\ x \in Fort[t]
      BY <1>2, <2>2
    <3>2. PICK t2 \in Team : v = TheFort(t2) /\ x \in Fort[t2]
      BY <1>2, <2>2
    <3>3. t = t2
      BY <3>1, <3>2, MapAssumption
    <3> QED  BY <3>1, <3>2, <3>3
  <2> QED  BY <2>1, <2>2
<1> QED  BY <1>1, <1>2

\* Everybody starts where the map puts them.
LEMMA InvInitially == Init => BattleInv
<1> SUFFICES ASSUME Init  PROVE BattleInv
  OBVIOUS
<1>1. DOMAIN board = Cell /\ \A x \in Cell : board[x] = IF Here(x) = {} THEN Nobody ELSE CHOOSE u \in Here(x) : TRUE
  BY DEF Init, Here
<1>2. ASSUME NEW x \in Cell, NEW u, u # Nobody
      PROVE  board[x] = u <=> u \in Here(x)
  <2>1. CASE Here(x) = {}
    BY <1>1, <1>2, <2>1
  <2>2. CASE Here(x) # {}
    <3>1. board[x] \in Here(x)
      BY <1>1, <2>2
    <3> QED  BY <3>1, NobodyShares
  <2> QED  BY <2>1, <2>2
<1>3. Records
  <2>1. DOMAIN minions = {} /\ minionsDue = {} /\ pending = {}
    BY DEF Init
  <2>2. IsFiniteSet({})
    BY FS_EmptySet
  <2>3. DOMAIN champions = Champion /\ \A c \in Champion :
          /\ DOMAIN champions[c] = {"pos", "health", "dead", "gold"} /\ champions[c].pos = Home[c]
          /\ Home[c] \in Cell
    BY MapAssumption DEF Init, NewChampion
  <2>4. towers \in [Tower -> Nat] /\ forts \in [Team -> Nat]
    BY NumbersAssumption DEF Init
  <2> QED  BY <1>1, <2>1, <2>2, <2>3, <2>4 DEF Records
<1>4. ChampionsShown
  <2>1. ASSUME NEW c \in Champion, NEW x \in Cell
        PROVE  board[x] = TheChampion(c) <=> x = Home[c]
    <3>1. board[x] = TheChampion(c) <=> TheChampion(c) \in Here(x)
      BY <1>2, UnitsDiffer
    <3>2. TheChampion(c) \in Here(x) <=> Home[c] = x
      BY UnitsDiffer DEF Here
    <3> QED  BY <3>1, <3>2
  <2> QED  BY <2>1 DEF ChampionsShown, Shown, Init, NewChampion
<1>5. MinionsShown
  <2>1. ASSUME NEW m, NEW t, NEW x \in Cell  PROVE board[x] # TheMinion(m, t)
    <3>1. board[x] = TheMinion(m, t) <=> TheMinion(m, t) \in Here(x)
      BY <1>2, UnitsDiffer
    <3> QED  BY <3>1, UnitsDiffer DEF Here
  <2>2. \A m, t : PlacesOf(m, t) = {}
    BY DEF PlacesOf, Init
  <2> QED  BY <2>1, <2>2 DEF MinionsShown, Shown
<1>6. FortsShown
  <2>1. ASSUME NEW t \in Team, NEW x \in Cell
        PROVE  board[x] = TheFort(t) <=> x \in Fort[t]
    <3>1. board[x] = TheFort(t) <=> TheFort(t) \in Here(x)
      BY <1>2, UnitsDiffer
    <3>2. TheFort(t) \in Here(x) <=> x \in Fort[t]
      BY UnitsDiffer DEF Here
    <3> QED  BY <3>1, <3>2
  <2> QED  BY <2>1 DEF FortsShown, Shown
<1>7. TowersShown
  <2>1. ASSUME NEW t \in Tower, NEW x \in Cell
        PROVE  board[x] = TheTower(t) <=> x \in Footprint(t)
    <3>1. board[x] = TheTower(t) <=> TheTower(t) \in Here(x)
      BY <1>2, UnitsDiffer
    <3>2. TheTower(t) \in Here(x) <=> x \in Footprint(t)
      BY UnitsDiffer DEF Here
    <3> QED  BY <3>1, <3>2
  <2>2. \A t \in Tower : towers[t] > 0
    BY NumbersAssumption DEF Init
  <2>3. rubble = {} /\ DOMAIN minions = {} /\ \A c \in Champion : champions[c].pos = Home[c]
    BY DEF Init, NewChampion
  <2>4. \A c \in Champion, t \in Tower : Home[c] \notin Footprint(t)
    BY MapAssumption
  <2> QED  BY <2>1, <2>2, <2>3, <2>4 DEF TowersShown, Shown
<1> QED  BY <1>3, <1>4, <1>5, <1>6, <1>7 DEF BattleInv

-----------------------------------------------------------------------------
(* The turns of champions and minions                                      *)

EverybodyShown == ChampionsShown /\ MinionsShown /\ FortsShown /\ TowersShown

\* A champion that goes to a cell without a tower wipes off nobody unrecorded.
LEMMA ChampionGoes ==
  ASSUME BattleInv, NEW c \in Champion, NEW b \in Cell,
         \A t \in Tower : towers[t] > 0 => b \notin Footprint(t),
         Carry(TheChampion(c), champions[c].pos, b),
         DOMAIN champions' = Champion, champions'[c].pos = b,
         \A d \in Champion \ {c} : champions'[d].pos = champions[d].pos,
         UNCHANGED <<minions, towers, forts, rubble>>
  PROVE  EverybodyShown' /\ DOMAIN board' = Cell
<1>1. PICK a \in Cell : a = champions[c].pos
  BY DEF BattleInv, Records
<1>2. TheChampion(c) # Nobody /\ DOMAIN board = Cell
  BY UnitsDiffer DEF BattleInv, Records
<1>3. /\ DOMAIN board' = Cell /\ displaced \subseteq displaced'
      /\ \A x \in Cell : board'[x] = IF x = b THEN board[a] ELSE IF x = a THEN Nobody ELSE board[x]
      /\ board[a] \in {TheChampion(c), Nobody} \/ board[a] \in displaced'
      /\ board[b] \in {TheChampion(c), Nobody} \/ board[b] \in displaced'
  <2>1. /\ board' = MovedOn(board, a, b)
        /\ displaced' = displaced \cup ({board[a], board[b]} \ {TheChampion(c), Nobody})
    BY <1>1 DEF Carry
  <2> QED  BY <1>2, <2>1, CarryIs
<1>4. ChampionsShown'
  <2>1. ASSUME NEW d \in Champion, TheChampion(d) \notin displaced', NEW x \in Cell
        PROVE  board'[x] = TheChampion(d) <=> x = champions'[d].pos
    <3>1. TheChampion(d) \notin displaced /\ Shown(TheChampion(d), {champions[d].pos})
      BY <1>3, <2>1 DEF BattleInv, ChampionsShown
    <3>2. CASE d = c
      BY <1>1, <1>2, <1>3, <2>1, <3>1, <3>2 DEF Shown
    <3>3. CASE d # c
      BY <1>3, <2>1, <3>1, <3>3, UnitsDiffer DEF Shown
    <3> QED  BY <3>2, <3>3
  <2> QED  BY <2>1 DEF ChampionsShown, Shown, TheChampion
<1>5. MinionsShown'
  <2>1. ASSUME NEW m \in MinionId, NEW t \in Team, TheMinion(m, t) \notin displaced', NEW x \in Cell
        PROVE  board'[x] = TheMinion(m, t) <=> x \in PlacesOf(m, t)
    <3>1. TheMinion(m, t) \notin displaced /\ Shown(TheMinion(m, t), PlacesOf(m, t))
      BY <1>3, <2>1 DEF BattleInv, MinionsShown
    <3> QED  BY <1>3, <2>1, <3>1, UnitsDiffer DEF Shown
  <2>2. \A m, t : PlacesOf(m, t)' = PlacesOf(m, t)
    BY DEF PlacesOf, Side
  <2> QED  BY <2>1, <2>2 DEF MinionsShown, Shown, TheMinion
<1>6. FortsShown'
  <2>1. ASSUME NEW t \in Team, TheFort(t) \notin displaced', NEW x \in Cell
        PROVE  board'[x] = TheFort(t) <=> x \in Fort[t]
    <3>1. TheFort(t) \notin displaced /\ Shown(TheFort(t), Fort[t])
      BY <1>3, <2>1 DEF BattleInv, FortsShown
    <3> QED  BY <1>3, <2>1, <3>1, UnitsDiffer DEF Shown
  <2> QED  BY <2>1 DEF FortsShown, Shown, TheFort
<1>7. TowersShown'
  <2>1. ASSUME NEW t \in Tower  PROVE board[a] # TheTower(t) /\ (towers[t] > 0 => a \notin Footprint(t))
    <3>1. CASE towers[t] > 0
      BY <1>1, <3>1 DEF BattleInv, TowersShown, Shown
    <3>2. CASE ~(towers[t] > 0)
      BY <1>1, <3>2 DEF BattleInv, TowersShown, Shown
    <3> QED  BY <3>1, <3>2
  <2>2. ASSUME NEW t \in Tower  PROVE board[b] # TheTower(t)
    <3>1. CASE towers[t] > 0
      BY <3>1 DEF BattleInv, TowersShown, Shown
    <3>2. CASE ~(towers[t] > 0)
      BY <3>2 DEF BattleInv, TowersShown, Shown
    <3> QED  BY <3>1, <3>2
  <2>3. ASSUME NEW t \in Tower, NEW x \in Cell
        PROVE  board'[x] = TheTower(t) <=> board[x] = TheTower(t)
    BY <1>3, <2>1, <2>2, UnitsDiffer
  <2>4. ASSUME NEW t \in Tower, towers[t] > 0
        PROVE  \A d \in Champion : champions'[d].pos \notin Footprint(t)
    BY <2>4 DEF BattleInv, TowersShown
  <2> QED  BY <2>3, <2>4 DEF BattleInv, TowersShown, Shown, TheTower
<1> QED  BY <1>3, <1>4, <1>5, <1>6, <1>7 DEF EverybodyShown

\* Nor does a minion.
LEMMA MinionGoes ==
  ASSUME BattleInv, NEW m \in DOMAIN minions, NEW b \in Cell,
         \A t \in Tower : towers[t] > 0 => b \notin Footprint(t),
         Carry(TheMinion(m, Side(minions[m])), minions[m].pos, b),
         DOMAIN minions' = DOMAIN minions, minions'[m].pos = b, minions'[m].lane = minions[m].lane,
         \A i \in DOMAIN minions \ {m} : minions'[i] = minions[i],
         UNCHANGED <<champions, towers, forts, rubble>>
  PROVE  EverybodyShown' /\ DOMAIN board' = Cell
<1>1. PICK a \in Cell : a = minions[m].pos
  BY DEF BattleInv, Records, MinionRecord
<1>2. PICK u : u = TheMinion(m, Side(minions[m]))
  OBVIOUS
<1>3. /\ DOMAIN board' = Cell /\ displaced \subseteq displaced'
      /\ \A x \in Cell : board'[x] = IF x = b THEN board[a] ELSE IF x = a THEN Nobody ELSE board[x]
      /\ board[a] \in {u, Nobody} \/ board[a] \in displaced'
      /\ board[b] \in {u, Nobody} \/ board[b] \in displaced'
  <2>1. u # Nobody /\ DOMAIN board = Cell
    BY <1>2, UnitsDiffer DEF BattleInv, Records
  <2>2. /\ board' = MovedOn(board, a, b)
        /\ displaced' = displaced \cup ({board[a], board[b]} \ {u, Nobody})
    BY <1>1, <1>2 DEF Carry
  <2> QED  BY <2>1, <2>2, CarryIs
<1>4. ChampionsShown'
  <2>1. ASSUME NEW d \in Champion, TheChampion(d) \notin displaced', NEW x \in Cell
        PROVE  board'[x] = TheChampion(d) <=> x = champions[d].pos
    <3>1. TheChampion(d) \notin displaced /\ Shown(TheChampion(d), {champions[d].pos})
      BY <1>3, <2>1 DEF BattleInv, ChampionsShown
    <3> QED  BY <1>2, <1>3, <2>1, <3>1, UnitsDiffer DEF Shown
  <2> QED  BY <2>1 DEF ChampionsShown, Shown, TheChampion
<1>5. MinionsShown'
  <2>1. ASSUME NEW i \in MinionId, NEW t \in Team, TheMinion(i, t) \notin displaced'
        PROVE  \A x \in Cell : board'[x] = TheMinion(i, t) <=> x \in PlacesOf(i, t)'
    <3>1. TheMinion(i, t) \notin displaced /\ Shown(TheMinion(i, t), PlacesOf(i, t))
      BY <1>3, <2>1 DEF BattleInv, MinionsShown
    <3>2. CASE TheMinion(i, t) = u
      <4>1. i = m /\ t = Side(minions[m])
        BY <1>2, <3>2, UnitsDiffer
      <4>2. PlacesOf(i, t) = {a} /\ PlacesOf(i, t)' = {b}
        BY <1>1, <4>1 DEF PlacesOf, Side
      <4>3. u # Nobody
        BY <1>2, UnitsDiffer
      <4> QED  BY <1>3, <3>1, <3>2, <4>2, <4>3 DEF Shown
    <3>3. CASE TheMinion(i, t) # u
      <4>1. i # m \/ t # Side(minions[m])
        BY <1>2, <3>3
      <4>2. PlacesOf(i, t)' = PlacesOf(i, t)
        BY <4>1 DEF PlacesOf, Side
      <4> QED  BY <1>3, <2>1, <3>1, <3>3, <4>2, UnitsDiffer DEF Shown
    <3> QED  BY <3>2, <3>3
  <2> QED  BY <2>1 DEF MinionsShown, Shown, TheMinion
<1>6. FortsShown'
  <2>1. ASSUME NEW t \in Team, TheFort(t) \notin displaced', NEW x \in Cell
        PROVE  board'[x] = TheFort(t) <=> x \in Fort[t]
    <3>1. TheFort(t) \notin displaced /\ Shown(TheFort(t), Fort[t])
      BY <1>3, <2>1 DEF BattleInv, FortsShown
    <3> QED  BY <1>2, <1>3, <2>1, <3>1, UnitsDiffer DEF Shown
  <2> QED  BY <2>1 DEF FortsShown, Shown, TheFort
<1>7. TowersShown'
  <2>1. ASSUME NEW t \in Tower  PROVE board[a] # TheTower(t) /\ (towers[t] > 0 => a \notin Footprint(t))
    <3>1. CASE towers[t] > 0
      BY <1>1, <3>1 DEF BattleInv, TowersShown, Shown
    <3>2. CASE ~(towers[t] > 0)
      BY <1>1, <3>2 DEF BattleInv, TowersShown, Shown
    <3> QED  BY <3>1, <3>2
  <2>2. ASSUME NEW t \in Tower  PROVE board[b] # TheTower(t)
    <3>1. CASE towers[t] > 0
      BY <3>1 DEF BattleInv, TowersShown, Shown
    <3>2. CASE ~(towers[t] > 0)
      BY <3>2 DEF BattleInv, TowersShown, Shown
    <3> QED  BY <3>1, <3>2
  <2>3. ASSUME NEW t \in Tower, NEW x \in Cell
        PROVE  board'[x] = TheTower(t) <=> board[x] = TheTower(t)
    BY <1>3, <2>1, <2>2, UnitsDiffer
  <2>4. ASSUME NEW t \in Tower, towers[t] > 0
        PROVE  \A i \in DOMAIN minions : minions'[i].pos \notin Footprint(t)
    BY <2>4 DEF BattleInv, TowersShown
  <2> QED  BY <2>3, <2>4 DEF BattleInv, TowersShown, Shown, TheTower
<1> QED  BY <1>3, <1>4, <1>5, <1>6, <1>7 DEF EverybodyShown

\* Nobody moves.
LEMMA AllStay ==
  ASSUME BattleInv, UNCHANGED <<board, displaced, towers, forts, rubble>>,
         \A c \in Champion : champions'[c].pos = champions[c].pos,
         DOMAIN minions' = DOMAIN minions,
         \A m \in DOMAIN minions : /\ minions'[m].pos = minions[m].pos
                                   /\ minions'[m].lane = minions[m].lane
  PROVE  EverybodyShown'
<1>1. \A m, t : PlacesOf(m, t)' = PlacesOf(m, t)
  BY DEF PlacesOf, Side
<1>2. ChampionsShown'
  BY DEF BattleInv, ChampionsShown, Shown, TheChampion
<1>3. MinionsShown'
  BY <1>1 DEF BattleInv, MinionsShown, Shown, TheMinion
<1>4. FortsShown'
  BY DEF BattleInv, FortsShown, Shown, TheFort
<1>5. TowersShown'
  BY DEF BattleInv, TowersShown, Shown, TheTower
<1> QED  BY <1>2, <1>3, <1>4, <1>5 DEF EverybodyShown

\* An open cell is no tower's.
LEMMA OpenIsNoTower ==
  ASSUME BattleInv, NEW x \in Cell, Passable(x), NEW t \in Tower, towers[t] > 0
  PROVE  x \notin Footprint(t)
BY UnitsDiffer DEF BattleInv, TowersShown, Shown, Passable

\* Whoever is aimed at is on the board.
LEMMA NearestIs ==
  ASSUME NEW cells, NEW x \in Cell, NEW range \in {Reach, Aggro}, NEW kinds, NEW team
  PROVE  Nearest(cells, x, range, kinds, team) \subseteq Cell
<1>1. CenterView(x, range) \subseteq Cell
  BY NumbersAssumption, ViewIs
<1> QED  BY <1>1 DEF Nearest, Closest, Seen

\* The turn of a champion: a return, or an action and an attack.
LEMMA InvChampionTurn ==
  ASSUME BattleInv, NEW c \in Champion, ChampionTurn(c)
  PROVE  BattleInv'
<1>1. /\ outcome = "running"
      /\ UNCHANGED <<minions, towers, forts, rubble, minionsDue, waveDue, waves, outcome>>
  BY DEF ChampionTurn
<1>2. /\ DOMAIN champions = Champion /\ champions[c].pos \in Cell
      /\ DOMAIN champions[c] = {"pos", "health", "dead", "gold"}
      /\ IsFiniteSet(pending) /\ DOMAIN board = Cell
  BY DEF BattleInv, Records
<1>3. /\ DOMAIN champions' = Champion
      /\ \A d \in Champion \ {c} : champions'[d] = champions[d]
      /\ DOMAIN champions'[c] = {"pos", "health", "dead", "gold"} /\ champions'[c].pos \in Cell
      /\ EverybodyShown' /\ DOMAIN board' = Cell
  <2>1. CASE PlaceAtBase(c)
    <3>1. /\ DOMAIN champions' = Champion
          /\ \A d \in Champion \ {c} : champions'[d] = champions[d]
          /\ DOMAIN champions'[c] = {"pos", "health", "dead", "gold"} /\ champions'[c].pos = BaseCell
      BY <1>2, <2>1 DEF PlaceAtBase
    <3>2. BaseCell \in Cell /\ \A t \in Tower : BaseCell \notin Footprint(t)
      BY MapAssumption
    <3>3. Carry(TheChampion(c), champions[c].pos, BaseCell)
      BY <2>1 DEF PlaceAtBase
    <3>4. EverybodyShown' /\ DOMAIN board' = Cell
      BY <1>1, <3>1, <3>2, <3>3, ChampionGoes
    <3> QED  BY <3>1, <3>2, <3>4
  <2>2. CASE Stay
    <3>1. UNCHANGED <<board, displaced, champions>>
      BY <2>2 DEF Stay
    <3>2. EverybodyShown'
      BY <1>1, <3>1, AllStay
    <3> QED  BY <1>2, <3>1, <3>2
  <2>3. CASE \E x \in Cell : Walk(c, x)
    <3>1. PICK x \in Cell : Walk(c, x)
      BY <2>3
    <3>2. /\ DOMAIN champions' = Champion
          /\ \A d \in Champion \ {c} : champions'[d] = champions[d]
          /\ DOMAIN champions'[c] = {"pos", "health", "dead", "gold"} /\ champions'[c].pos = x
      BY <1>2, <3>1 DEF Walk
    <3>3. \A t \in Tower : towers[t] > 0 => x \notin Footprint(t)
      BY <3>1, OpenIsNoTower DEF Walk
    <3>4. Carry(TheChampion(c), champions[c].pos, x)
      BY <3>1 DEF Walk
    <3>5. EverybodyShown' /\ DOMAIN board' = Cell
      BY <1>1, <3>2, <3>3, <3>4, ChampionGoes
    <3> QED  BY <3>2, <3>5
  <2> QED  BY <2>1, <2>2, <2>3 DEF ChampionTurn, Act
<1>4. IsFiniteSet(pending')
  <2>1. pending' = pending \/ \E h : pending' = pending \cup {h}
    BY DEF ChampionTurn, Act
  <2> QED  BY <1>2, <2>1, FS_AddElement
<1>5. Records'
  <2>1. \A d \in Champion : /\ DOMAIN champions'[d] = {"pos", "health", "dead", "gold"}
                            /\ champions'[d].pos \in Cell
    BY <1>3 DEF BattleInv, Records
  <2> QED  BY <1>1, <1>3, <1>4, <2>1 DEF BattleInv, Records, MinionRecord, Goals
<1> QED  BY <1>3, <1>5 DEF BattleInv, EverybodyShown

\* A new champion on a start wipes off whoever is there, and its own old place counts
\* as lost where it is shown elsewhere.
LEMMA InvRejoin ==
  ASSUME BattleInv, NEW c \in Champion, Rejoin(c)
  PROVE  BattleInv'
<1>1. UNCHANGED <<minions, towers, forts, rubble, minionsDue, pending>>
  BY DEF Rejoin, turns
<1>2. PICK b \in Cell : b = Home[c] /\ \A t \in Tower : b \notin Footprint(t)
  BY MapAssumption
<1>3. DOMAIN board = Cell /\ DOMAIN champions = Champion /\ TheChampion(c) # Nobody
  BY UnitsDiffer DEF BattleInv, Records
<1>4. /\ DOMAIN board' = Cell /\ displaced \subseteq displaced'
      /\ \A x \in Cell : board'[x] = IF x = b THEN TheChampion(c) ELSE board[x]
      /\ board[b] \in {TheChampion(c), Nobody} \/ board[b] \in displaced'
      /\ TheChampion(c) \notin displaced' => \A x \in Cell \ {b} : board[x] # TheChampion(c)
  BY <1>2, <1>3 DEF Rejoin, Put
<1>5. /\ DOMAIN champions' = Champion /\ champions'[c].pos = b
      /\ DOMAIN champions'[c] = {"pos", "health", "dead", "gold"}
      /\ \A d \in Champion \ {c} : champions'[d] = champions[d]
  BY <1>2, <1>3 DEF Rejoin, NewChampion
<1>6. ChampionsShown'
  <2>1. ASSUME NEW d \in Champion, TheChampion(d) \notin displaced', NEW x \in Cell
        PROVE  board'[x] = TheChampion(d) <=> x = champions'[d].pos
    <3>1. CASE d = c
      BY <1>4, <1>5, <2>1, <3>1
    <3>2. CASE d # c
      <4>1. TheChampion(d) \notin displaced /\ Shown(TheChampion(d), {champions[d].pos})
        BY <1>4, <2>1 DEF BattleInv, ChampionsShown
      <4> QED  BY <1>4, <1>5, <2>1, <3>2, <4>1, UnitsDiffer DEF Shown
    <3> QED  BY <3>1, <3>2
  <2> QED  BY <2>1 DEF ChampionsShown, Shown, TheChampion
<1>7. MinionsShown'
  <2>1. ASSUME NEW m \in MinionId, NEW t \in Team, TheMinion(m, t) \notin displaced', NEW x \in Cell
        PROVE  board'[x] = TheMinion(m, t) <=> x \in PlacesOf(m, t)
    <3>1. Shown(TheMinion(m, t), PlacesOf(m, t))
      BY <1>4, <2>1 DEF BattleInv, MinionsShown
    <3> QED  BY <1>4, <2>1, <3>1, UnitsDiffer DEF Shown
  <2>2. \A m, t : PlacesOf(m, t)' = PlacesOf(m, t)
    BY <1>1 DEF PlacesOf, Side
  <2> QED  BY <2>1, <2>2 DEF MinionsShown, Shown, TheMinion
<1>8. FortsShown'
  <2>1. ASSUME NEW t \in Team, TheFort(t) \notin displaced', NEW x \in Cell
        PROVE  board'[x] = TheFort(t) <=> x \in Fort[t]
    <3>1. Shown(TheFort(t), Fort[t])
      BY <1>4, <2>1 DEF BattleInv, FortsShown
    <3> QED  BY <1>4, <2>1, <3>1, UnitsDiffer DEF Shown
  <2> QED  BY <2>1 DEF FortsShown, Shown, TheFort
<1>9. TowersShown'
  <2>1. ASSUME NEW t \in Tower, NEW x \in Cell
        PROVE  board'[x] = TheTower(t) <=> board[x] = TheTower(t)
    <3>1. IF towers[t] > 0 THEN Shown(TheTower(t), Footprint(t)) ELSE Shown(TheTower(t), {})
      BY DEF BattleInv, TowersShown
    <3>2. board[b] # TheTower(t)
      BY <1>2, <3>1 DEF Shown
    <3> QED  BY <1>4, <3>2, UnitsDiffer
  <2>2. \A t \in Tower, d \in Champion :
          towers[t] > 0 => champions'[d].pos \notin Footprint(t)
    BY <1>2, <1>5 DEF BattleInv, TowersShown
  <2> QED  BY <1>1, <2>1, <2>2 DEF BattleInv, TowersShown, Shown, TheTower
<1>10. Records'
  <2>1. \A d \in Champion : /\ DOMAIN champions'[d] = {"pos", "health", "dead", "gold"}
                            /\ champions'[d].pos \in Cell
    BY <1>2, <1>5 DEF BattleInv, Records
  <2> QED  BY <1>1, <1>4, <1>5, <2>1 DEF BattleInv, Records, MinionRecord, Goals
<1> QED  BY <1>6, <1>7, <1>8, <1>9, <1>10 DEF BattleInv

\* What the turn of m does: m goes to an open cell, or stays.
MinionStep(m) ==
  /\ DOMAIN minions' = DOMAIN minions /\ \A i \in DOMAIN minions \ {m} : minions'[i] = minions[i]
  /\ MinionRecord(minions'[m]) /\ minions'[m].lane = minions[m].lane
  /\ \/ UNCHANGED <<board, displaced>> /\ minions'[m].pos = minions[m].pos
     \/ \E x \in Cell : /\ Passable(x) /\ minions'[m].pos = x
                        /\ Carry(TheMinion(m, Side(minions[m])), minions[m].pos, x)

\* rec is the record of m up to its checkpoint and its path.
SameMinion(m, rec) == rec.pos = minions[m].pos /\ rec.lane = minions[m].lane

\* A move is a step of the minion alone.
LEMMA MoveIsAStep ==
  ASSUME BattleInv, NEW m \in DOMAIN minions, NEW rec, MinionRecord(rec), SameMinion(m, rec),
         NEW x \in Cell, Passable(x), MoveMinion(m, rec, x)
  PROVE  MinionStep(m)
<1>1. /\ DOMAIN minions' = DOMAIN minions /\ \A i \in DOMAIN minions \ {m} : minions'[i] = minions[i]
      /\ minions'[m] = [rec EXCEPT !.pos = x]
  BY DEF MoveMinion
<1>2. MinionRecord([rec EXCEPT !.pos = x])
  BY DEF MinionRecord, Goals
<1>3. minions'[m].lane = minions[m].lane /\ minions'[m].pos = x
  BY <1>1 DEF MinionRecord, SameMinion
<1>4. Carry(TheMinion(m, Side(minions[m])), minions[m].pos, x)
  BY DEF MoveMinion, SameMinion, Carry, Side
<1> QED  BY <1>1, <1>2, <1>3, <1>4 DEF MinionStep

\* So is waiting with a new path or checkpoint,
LEMMA WaitIsAStep ==
  ASSUME BattleInv, NEW m \in DOMAIN minions, NEW rec, MinionRecord(rec), SameMinion(m, rec),
         minions' = [minions EXCEPT ![m] = rec], UNCHANGED <<board, displaced>>
  PROVE  MinionStep(m)
BY DEF MinionStep, SameMinion

\* a new decision,
LEMMA AdvanceIsAStep ==
  ASSUME BattleInv, NEW m \in DOMAIN minions, NEW rec, MinionRecord(rec), SameMinion(m, rec),
         Advance(m, rec)
  PROVE  MinionStep(m)
<1>1. rec.pos \in Cell /\ rec.lane \in DOMAIN Lane /\ rec.checkpoint \in 1..Len(Goals(rec))
  BY DEF MinionRecord
<1>2. Foes(rec) \subseteq Cell /\ Goals(rec)[rec.checkpoint] \in Cell
  BY <1>1, NearestIs, LaneIs DEF Foes, Goals
<1>3. PICK goal \in Cell :
        IF Adjacent(rec.pos, goal)
        THEN minions' = [minions EXCEPT ![m] = rec] /\ UNCHANGED <<board, displaced>>
        ELSE IF Passable(Towards(rec.pos, goal)) THEN MoveMinion(m, rec, Towards(rec.pos, goal))
        ELSE \E path \in FindPath(rec.pos, goal, {y \in Cell : Passable(y)}) :
               /\ minions' = [minions EXCEPT ![m] = [rec EXCEPT !.path = path]]
               /\ UNCHANGED <<board, displaced>>
  BY <1>2 DEF Advance
<1>4. PICK x \in Cell : x = Towards(rec.pos, goal)
  BY <1>1, TowardsIs
<1>5. CASE Adjacent(rec.pos, goal)
  BY <1>3, <1>5, WaitIsAStep
<1>6. CASE ~Adjacent(rec.pos, goal) /\ Passable(x)
  <2>1. MoveMinion(m, rec, x)
    BY <1>3, <1>4, <1>6
  <2> QED  BY <1>6, <2>1, MoveIsAStep
<1>7. CASE ~Adjacent(rec.pos, goal) /\ ~Passable(x)
  <2>1. PICK path \in FindPath(rec.pos, goal, {y \in Cell : Passable(y)}) :
          /\ minions' = [minions EXCEPT ![m] = [rec EXCEPT !.path = path]]
          /\ UNCHANGED <<board, displaced>>
    BY <1>3, <1>4, <1>7
  <2>2. path \in Path
    <3>1. FindPath(rec.pos, goal, {y \in Cell : Passable(y)}) \subseteq Path
      BY <1>1, PathIs
    <3> QED  BY <2>1, <3>1
  <2>3. PICK after : after = [rec EXCEPT !.path = path]
    OBVIOUS
  <2>4. MinionRecord(after) /\ SameMinion(m, after)
    BY <2>2, <2>3 DEF MinionRecord, Goals, SameMinion
  <2> QED  BY <2>1, <2>3, <2>4, WaitIsAStep
<1> QED  BY <1>5, <1>6, <1>7

\* and going on along a path.
LEMMA ProceedIsAStep ==
  ASSUME BattleInv, NEW m \in DOMAIN minions, NEW rec, MinionRecord(rec), SameMinion(m, rec),
         Proceed(m, rec)
  PROVE  MinionStep(m)
<1>1. PICK x : x = Towards(rec.pos, Head(rec.path))
  OBVIOUS
<1>2. PICK rest : rest = IF Tail(rec.path) = <<>> THEN NoPath ELSE Tail(rec.path)
  OBVIOUS
<1>3. CASE rec.path # NoPath /\ Passable(x)
  <2>1. rec.path \in Seq(Cell) /\ rec.path # <<>>
    BY <1>3 DEF MinionRecord, Path
  <2>2. Head(rec.path) \in Cell /\ Tail(rec.path) \in Seq(Cell)
    BY <2>1
  <2>3. x \in Cell /\ rest \in Path
    BY <1>1, <1>2, <2>2, TowardsIs DEF MinionRecord, Path
  <2>4. PICK after : after = [rec EXCEPT !.path = rest]
    OBVIOUS
  <2>5. MinionRecord(after) /\ SameMinion(m, after)
    BY <2>3, <2>4 DEF MinionRecord, Goals, SameMinion
  <2>6. MoveMinion(m, after, x)
    BY <1>1, <1>2, <1>3, <2>4 DEF Proceed
  <2> QED  BY <1>3, <2>3, <2>5, <2>6, MoveIsAStep
<1>4. CASE ~(rec.path # NoPath /\ Passable(x))
  <2>1. PICK after : after = [rec EXCEPT !.path = NoPath]
    OBVIOUS
  <2>2. MinionRecord(after) /\ SameMinion(m, after)
    BY <2>1 DEF MinionRecord, Goals, SameMinion, Path
  <2>3. Advance(m, after)
    BY <1>1, <1>4, <2>1 DEF Proceed
  <2> QED  BY <2>2, <2>3, AdvanceIsAStep
<1> QED  BY <1>3, <1>4

\* So a minion that is not at the end of its lane goes to an open cell, or stays.
LEMMA TurnIsAStep ==
  ASSUME BattleInv, NEW m \in DOMAIN minions, ~AtLaneEnd(m), NEW next,
         next = IF AtGoal(m) THEN minions[m].checkpoint + 1 ELSE minions[m].checkpoint,
         Proceed(m, [minions[m] EXCEPT !.checkpoint = next])
  PROVE  MinionStep(m)
<1>1. MinionRecord(minions[m])
  BY DEF BattleInv, Records
<1>2. PICK rec : rec = [minions[m] EXCEPT !.checkpoint = next]
  OBVIOUS
<1>3. next \in 1..Len(Goals(minions[m]))
  <2>1. minions[m].checkpoint \in 1..Len(Goals(minions[m])) /\ Len(Goals(minions[m])) \in Nat
    BY <1>1, LaneIs DEF MinionRecord, Goals
  <2> QED  BY <2>1 DEF AtLaneEnd
<1>4. MinionRecord(rec) /\ SameMinion(m, rec)
  BY <1>1, <1>2, <1>3 DEF MinionRecord, SameMinion, Goals
<1>5. Proceed(m, rec)
  BY <1>2
<1> QED  BY <1>4, <1>5, ProceedIsAStep

\* The turn of a minion, up to the panic at the end of its lane.
LEMMA InvMinionTurn ==
  ASSUME BattleInv, NEW m \in MinionId, MinionTurn(m)
  PROVE  BattleInv'
<1>1. /\ outcome = "running" /\ m \in minionsDue /\ minionsDue' = minionsDue \ {m}
      /\ UNCHANGED <<champions, towers, forts, rubble, championsDue, waveDue, pending, waves>>
  BY DEF MinionTurn
<1>2. m \in DOMAIN minions /\ minionsDue \subseteq DOMAIN minions /\ MinionRecord(minions[m])
  BY <1>1 DEF BattleInv, Records
<1> DEFINE next == IF AtGoal(m) THEN minions[m].checkpoint + 1 ELSE minions[m].checkpoint
<1>0. \/ UNCHANGED <<minions, board, displaced, outcome>>
      \/ AtLaneEnd(m) /\ outcome' = "crashed" /\ UNCHANGED <<minions, board, displaced>>
      \/ ~AtLaneEnd(m) /\ Proceed(m, [minions[m] EXCEPT !.checkpoint = next]) /\ UNCHANGED outcome
  BY DEF MinionTurn, StunnedTurn
<1>4. CASE AtLaneEnd(m) /\ outcome' = "crashed" /\ UNCHANGED <<minions, board, displaced>>
  <2>1. EverybodyShown'
    BY <1>1, <1>4, AllStay
  <2>2. Records'
    BY <1>1, <1>2, <1>4 DEF BattleInv, Records, MinionRecord, Goals
  <2> QED  BY <2>1, <2>2 DEF BattleInv, EverybodyShown
<1>5. CASE UNCHANGED <<minions, board, displaced, outcome>>
  <2>1. EverybodyShown'
    BY <1>1, <1>5, AllStay
  <2>2. Records'
    BY <1>1, <1>2, <1>5 DEF BattleInv, Records, MinionRecord, Goals
  <2> QED  BY <2>1, <2>2 DEF BattleInv, EverybodyShown
<1>6. CASE /\ ~AtLaneEnd(m) /\ Proceed(m, [minions[m] EXCEPT !.checkpoint = next])
           /\ UNCHANGED outcome
  <2>5. MinionStep(m)
    <3>1. PICK n : n = next
      OBVIOUS
    <3> QED  BY <1>2, <1>6, <3>1, TurnIsAStep
  <2>6. EverybodyShown' /\ DOMAIN board' = Cell
    <3>1. CASE UNCHANGED <<board, displaced>> /\ minions'[m].pos = minions[m].pos
      <4>1. EverybodyShown'
        BY <1>1, <2>5, <3>1, AllStay DEF MinionStep
      <4> QED  BY <3>1, <4>1 DEF BattleInv, Records
    <3>2. CASE \E x \in Cell : /\ Passable(x) /\ minions'[m].pos = x
                               /\ Carry(TheMinion(m, Side(minions[m])), minions[m].pos, x)
      <4>1. PICK x \in Cell : /\ Passable(x) /\ minions'[m].pos = x
                              /\ Carry(TheMinion(m, Side(minions[m])), minions[m].pos, x)
        BY <3>2
      <4>2. \A t \in Tower : towers[t] > 0 => x \notin Footprint(t)
        BY <4>1, OpenIsNoTower
      <4> QED  BY <1>1, <1>2, <2>5, <4>1, <4>2, MinionGoes DEF MinionStep
    <3> QED  BY <2>5, <3>1, <3>2 DEF MinionStep
  <2>7. Records'
    <3>1. DOMAIN minions' = DOMAIN minions /\ \A i \in DOMAIN minions : MinionRecord(minions'[i])
      BY <2>5 DEF MinionStep, BattleInv, Records
    <3> QED  BY <1>1, <1>2, <2>6, <3>1 DEF BattleInv, Records, MinionRecord, Goals
  <2> QED  BY <2>6, <2>7 DEF BattleInv, EverybodyShown
<1> QED  BY <1>0, <1>4, <1>5, <1>6

-----------------------------------------------------------------------------
(* A wave                                                                  *)

\* A bounded set of numbers has a greatest one.
LEMMA MaxIs ==
  ASSUME NEW S \in SUBSET Nat, S # {}, NEW N \in Nat, \A x \in S : x <= N
  PROVE  Max(S) \in S /\ \A y \in S : y <= Max(S)
<1> DEFINE Below == {N - x : x \in S}
<1>1. Below \in SUBSET Nat /\ Below # {}
  <2>1. \A x \in S : N - x \in Nat
    OBVIOUS
  <2> QED  BY <2>1
<1>2. PICK m \in Below : \A k \in Below : m <= k
  BY <1>1, LeastNumber
<1>3. PICK x \in S : m = N - x
  BY <1>2
<1>4. \A y \in S : x >= y
  <2>1. ASSUME NEW y \in S  PROVE x >= y
    <3>1. m <= N - y
      BY <1>2
    <3> QED  BY <1>3, <3>1
  <2> QED  BY <2>1
<1>5. \E z \in S : \A y \in S : z >= y
  BY <1>4
<1>6. Max(S) \in S /\ \A y \in S : Max(S) >= y
  <2> HIDE DEF Below
  <2> QED  BY <1>5 DEF Max
<1> QED  BY <1>6

\* Who is lost when id[i] is placed.
LostBy(id, i) ==
  {board[Lane[i].spawn]}
  \cup {TheMinion(m, Side(minions[m])) : m \in {id[i]} \cap DOMAIN minions}
  \cup {TheMinion(id[j], Lane[j].team) : j \in {k \in 1..i - 1 : id[k] = id[i]}}

\* What a wave leaves: the last of those that drew an id has it, and whoever is
\* wiped off or loses its record is lost.
LEMMA WaveIs ==
  ASSUME Records, MakeWave
  PROVE  \E id \in [DOMAIN Lane -> MinionId] :
           /\ DOMAIN minions' = DOMAIN minions \cup {id[i] : i \in DOMAIN Lane}
           /\ \A m \in DOMAIN minions : (\A i \in DOMAIN Lane : id[i] # m) => minions'[m] = minions[m]
           /\ \A i \in DOMAIN Lane :
                \E j \in DOMAIN Lane : /\ id[j] = id[i] /\ minions'[id[i]] = NewMinion(j)
                                       /\ \A k \in DOMAIN Lane : id[k] = id[i] => k <= j
           /\ DOMAIN board' = Cell /\ displaced \subseteq displaced'
           /\ \A x \in Cell : (\A i \in DOMAIN Lane : Lane[i].spawn # x) => board'[x] = board[x]
           /\ \A i \in DOMAIN Lane :
                /\ board'[Lane[i].spawn] = TheMinion(id[i], Lane[i].team)
                /\ board[Lane[i].spawn] \in displaced' \cup {Nobody}
                /\ id[i] \in DOMAIN minions => TheMinion(id[i], Side(minions[id[i]])) \in displaced'
                /\ \A j \in DOMAIN Lane : j < i /\ id[j] = id[i] => TheMinion(id[j], Lane[j].team) \in displaced'
<1>1. PICK id \in [DOMAIN Lane -> MinionId] :
        LET drawn == {id[i] : i \in DOMAIN Lane}
            Owner(m) == Max({i \in DOMAIN Lane : id[i] = m})
            Lost(i) == {board[Lane[i].spawn]}
                       \cup {TheMinion(m, Side(minions[m])) : m \in {id[i]} \cap DOMAIN minions}
                       \cup {TheMinion(id[j], Lane[j].team) : j \in {k \in 1..i - 1 : id[k] = id[i]}}
        IN  /\ minions' = [m \in DOMAIN minions \cup drawn |->
                             IF m \in drawn THEN NewMinion(Owner(m)) ELSE minions[m]]
            /\ board' = [x \in Cell |->
                           IF \E i \in DOMAIN Lane : Lane[i].spawn = x
                           THEN LET i == CHOOSE j \in DOMAIN Lane : Lane[j].spawn = x
                                IN  TheMinion(id[i], Lane[i].team)
                           ELSE board[x]]
            /\ displaced' = displaced \cup ((UNION {Lost(i) : i \in DOMAIN Lane}) \ {Nobody})
  BY DEF MakeWave
<1> DEFINE drawn == {id[i] : i \in DOMAIN Lane}
           Owner(m) == Max({i \in DOMAIN Lane : id[i] = m})
<1>2. minions' = [m \in DOMAIN minions \cup drawn |->
                    IF m \in drawn THEN NewMinion(Owner(m)) ELSE minions[m]]
  BY <1>1
<1>3. board' = [x \in Cell |->
                  IF \E i \in DOMAIN Lane : Lane[i].spawn = x
                  THEN LET i == CHOOSE j \in DOMAIN Lane : Lane[j].spawn = x
                       IN  TheMinion(id[i], Lane[i].team)
                  ELSE board[x]]
  BY <1>1
<1>4. displaced' = displaced \cup ((UNION {LostBy(id, i) : i \in DOMAIN Lane}) \ {Nobody})
  BY <1>1 DEF LostBy
<1>5. ASSUME NEW i \in DOMAIN Lane, NEW u \in LostBy(id, i)  PROVE u = Nobody \/ u \in displaced'
  <2>1. PICK one : one = LostBy(id, i)
    OBVIOUS
  <2>2. PICK all : all = {LostBy(id, j) : j \in DOMAIN Lane}
    OBVIOUS
  <2>3. u \in UNION all
    <3>1. one \in all /\ u \in one
      BY <1>5, <2>1, <2>2
    <3> QED  BY <3>1
  <2> QED  BY <1>4, <2>2, <2>3
<1>6. ASSUME NEW i \in DOMAIN Lane
      PROVE  \E j \in DOMAIN Lane : /\ id[j] = id[i] /\ minions'[id[i]] = NewMinion(j)
                                    /\ \A k \in DOMAIN Lane : id[k] = id[i] => k <= j
  <2> DEFINE S == {k \in DOMAIN Lane : id[k] = id[i]}
  <2>1. Max(S) \in S /\ \A k \in S : k <= Max(S)
    <3>1. S \in SUBSET Nat /\ S # {} /\ \A k \in S : k <= Len(Lane)
      BY LaneIs
    <3> HIDE DEF S
    <3> QED  BY <3>1, LaneIs, MaxIs
  <2>2. minions'[id[i]] = NewMinion(Max(S))
    BY <1>2
  <2> QED  BY <2>1, <2>2
<1>7. ASSUME NEW i \in DOMAIN Lane
      PROVE  board'[Lane[i].spawn] = TheMinion(id[i], Lane[i].team)
  <2>1. PICK x \in Cell : x = Lane[i].spawn
    BY LaneIs
  <2>2. PICK j \in DOMAIN Lane : j = (CHOOSE k \in DOMAIN Lane : Lane[k].spawn = x) /\ Lane[j].spawn = x
    BY <2>1
  <2>3. i = j
    BY <2>1, <2>2, MapAssumption
  <2> QED  BY <1>3, <2>1, <2>2, <2>3
<1>8. ASSUME NEW i \in DOMAIN Lane
      PROVE  /\ board[Lane[i].spawn] \in displaced' \cup {Nobody}
             /\ id[i] \in DOMAIN minions => TheMinion(id[i], Side(minions[id[i]])) \in displaced'
             /\ \A j \in DOMAIN Lane : j < i /\ id[j] = id[i] => TheMinion(id[j], Lane[j].team) \in displaced'
  <2>1. board[Lane[i].spawn] \in LostBy(id, i)
    BY DEF LostBy
  <2>2. id[i] \in DOMAIN minions => TheMinion(id[i], Side(minions[id[i]])) \in LostBy(id, i)
    BY DEF LostBy
  <2>3. ASSUME NEW j \in DOMAIN Lane, j < i, id[j] = id[i]
        PROVE  TheMinion(id[j], Lane[j].team) \in LostBy(id, i)
    BY <2>3, LaneIs DEF LostBy
  <2> QED  BY <1>5, <2>1, <2>2, <2>3, UnitsDiffer
<1>9. \A m \in DOMAIN minions : (\A i \in DOMAIN Lane : id[i] # m) => minions'[m] = minions[m]
  BY <1>2
<1>10. /\ DOMAIN minions' = DOMAIN minions \cup {id[i] : i \in DOMAIN Lane}
       /\ DOMAIN board' = Cell /\ displaced \subseteq displaced'
       /\ \A x \in Cell : (\A i \in DOMAIN Lane : Lane[i].spawn # x) => board'[x] = board[x]
  BY <1>2, <1>3, <1>4
<1> HIDE DEF drawn, Owner
<1> QED  BY <1>6, <1>7, <1>8, <1>9, <1>10

\* A wave shows its minions on its spawns, and loses nobody unrecorded.
LEMMA InvWave ==
  ASSUME BattleInv, MakeWave, UNCHANGED <<champions, towers, forts, rubble, pending, minionsDue>>
  PROVE  Records' /\ EverybodyShown'
<1> DEFINE Spawn(i) == Lane[i].spawn
<1>1. PICK id \in [DOMAIN Lane -> MinionId] :
           /\ DOMAIN minions' = DOMAIN minions \cup {id[i] : i \in DOMAIN Lane}
           /\ \A m \in DOMAIN minions : (\A i \in DOMAIN Lane : id[i] # m) => minions'[m] = minions[m]
           /\ \A i \in DOMAIN Lane :
                \E j \in DOMAIN Lane : /\ id[j] = id[i] /\ minions'[id[i]] = NewMinion(j)
                                       /\ \A k \in DOMAIN Lane : id[k] = id[i] => k <= j
           /\ DOMAIN board' = Cell /\ displaced \subseteq displaced'
           /\ \A x \in Cell : (\A i \in DOMAIN Lane : Lane[i].spawn # x) => board'[x] = board[x]
           /\ \A i \in DOMAIN Lane :
                /\ board'[Lane[i].spawn] = TheMinion(id[i], Lane[i].team)
                /\ board[Lane[i].spawn] \in displaced' \cup {Nobody}
                /\ id[i] \in DOMAIN minions => TheMinion(id[i], Side(minions[id[i]])) \in displaced'
                /\ \A j \in DOMAIN Lane : j < i /\ id[j] = id[i] => TheMinion(id[j], Lane[j].team) \in displaced'
  BY WaveIs DEF BattleInv
<1>2. ASSUME NEW u, u # Nobody, u \notin displaced', \A m, t : u # TheMinion(m, t), NEW x \in Cell
      PROVE  board'[x] = u <=> board[x] = u
  <2>1. CASE \E i \in DOMAIN Lane : Lane[i].spawn = x
    <3>1. PICK i \in DOMAIN Lane : Lane[i].spawn = x
      BY <2>1
    <3>2. board'[x] = TheMinion(id[i], Lane[i].team) /\ board[x] \in displaced' \cup {Nobody}
      BY <1>1, <3>1
    <3> QED  BY <1>2, <3>2
  <2>2. CASE ~\E i \in DOMAIN Lane : Lane[i].spawn = x
    BY <1>1, <2>2
  <2> QED  BY <2>1, <2>2
<1>3. ChampionsShown'
  <2>1. ASSUME NEW c \in Champion, TheChampion(c) \notin displaced', NEW x \in Cell
        PROVE  board'[x] = TheChampion(c) <=> x = champions[c].pos
    <3>1. Shown(TheChampion(c), {champions[c].pos})
      BY <1>1, <2>1 DEF BattleInv, ChampionsShown
    <3>2. board'[x] = TheChampion(c) <=> board[x] = TheChampion(c)
      BY <1>2, <2>1, UnitsDiffer
    <3> QED  BY <3>1, <3>2 DEF Shown
  <2> QED  BY <2>1 DEF ChampionsShown, Shown, TheChampion
<1>4. FortsShown'
  <2>1. ASSUME NEW t \in Team, TheFort(t) \notin displaced', NEW x \in Cell
        PROVE  board'[x] = TheFort(t) <=> x \in Fort[t]
    <3>1. Shown(TheFort(t), Fort[t])
      BY <1>1, <2>1 DEF BattleInv, FortsShown
    <3>2. board'[x] = TheFort(t) <=> board[x] = TheFort(t)
      BY <1>2, <2>1, UnitsDiffer
    <3> QED  BY <3>1, <3>2 DEF Shown
  <2> QED  BY <2>1 DEF FortsShown, Shown, TheFort
<1>5. \A i \in DOMAIN Lane : /\ MinionRecord(NewMinion(i)) /\ NewMinion(i).pos = Lane[i].spawn
                             /\ Side(NewMinion(i)) = Lane[i].team
  BY LaneIs DEF MinionRecord, NewMinion, Goals, Path, Side
<1>6. ASSUME NEW m \in DOMAIN minions'
      PROVE  \/ /\ m \in DOMAIN minions /\ minions'[m] = minions[m]
                /\ \A i \in DOMAIN Lane : id[i] # m
             \/ \E j \in DOMAIN Lane : /\ id[j] = m /\ minions'[m] = NewMinion(j)
                                       /\ \A k \in DOMAIN Lane : id[k] = m => k <= j
  <2>1. CASE \E i \in DOMAIN Lane : id[i] = m
    BY <1>1, <2>1
  <2>2. CASE ~\E i \in DOMAIN Lane : id[i] = m
    BY <1>1, <1>6, <2>2
  <2> QED  BY <2>1, <2>2
<1>7. MinionsShown'
  <2>1. ASSUME NEW m \in MinionId, NEW t \in Team, TheMinion(m, t) \notin displaced', NEW x \in Cell
        PROVE  board'[x] = TheMinion(m, t) <=> x \in PlacesOf(m, t)'
    <3>1. Shown(TheMinion(m, t), PlacesOf(m, t))
      BY <1>1, <2>1 DEF BattleInv, MinionsShown
    <3>2. CASE \E j \in DOMAIN Lane : id[j] = m
      <4>1. PICK j \in DOMAIN Lane : /\ id[j] = m /\ minions'[m] = NewMinion(j)
                                     /\ \A k \in DOMAIN Lane : id[k] = m => k <= j
        BY <1>1, <3>2
      <4>2. m \in DOMAIN minions'
        BY <1>1, <4>1
      <4>3. PlacesOf(m, t)' = IF Lane[j].team = t THEN {Lane[j].spawn} ELSE {}
        BY <1>5, <4>1, <4>2 DEF PlacesOf, Side
      <4>4. board[x] # TheMinion(m, t)
        <5>1. m \in DOMAIN minions => Side(minions[m]) # t
          BY <1>1, <2>1, <4>1
        <5>2. PlacesOf(m, t) = {}
          BY <5>1 DEF PlacesOf
        <5> QED  BY <3>1, <5>2 DEF Shown
      <4>5. CASE \E i \in DOMAIN Lane : Lane[i].spawn = x
        <5>1. PICK i \in DOMAIN Lane : Lane[i].spawn = x
          BY <4>5
        <5>2. board'[x] = TheMinion(id[i], Lane[i].team)
          BY <1>1, <5>1
        <5>3. id[i] = m /\ Lane[i].team = t => i = j
          <6>1. ASSUME id[i] = m, Lane[i].team = t, i # j  PROVE FALSE
            <7>1. i < j
              BY <4>1, <6>1, LaneIs
            <7>2. TheMinion(id[i], Lane[i].team) \in displaced'
              BY <1>1, <4>1, <6>1, <7>1
            <7> QED  BY <2>1, <6>1, <7>2
          <6> QED  BY <6>1
        <5>4. Lane[j].spawn = x => i = j
          BY <5>1, MapAssumption
        <5> QED  BY <4>1, <4>3, <5>1, <5>2, <5>3, <5>4, UnitsDiffer
      <4>6. CASE ~\E i \in DOMAIN Lane : Lane[i].spawn = x
        BY <1>1, <4>3, <4>4, <4>6
      <4> QED  BY <4>5, <4>6
    <3>3. CASE ~\E j \in DOMAIN Lane : id[j] = m
      <4>1. PlacesOf(m, t)' = PlacesOf(m, t)
        <5>1. /\ m \in DOMAIN minions' <=> m \in DOMAIN minions
              /\ m \in DOMAIN minions => minions'[m] = minions[m]
          BY <1>1, <3>3
        <5> QED  BY <5>1 DEF PlacesOf, Side
      <4>2. board'[x] = TheMinion(m, t) <=> board[x] = TheMinion(m, t)
        <5>1. CASE \E i \in DOMAIN Lane : Lane[i].spawn = x
          <6>1. PICK i \in DOMAIN Lane : Lane[i].spawn = x
            BY <5>1
          <6>2. board'[x] = TheMinion(id[i], Lane[i].team) /\ board[x] \in displaced' \cup {Nobody}
            BY <1>1, <6>1
          <6> QED  BY <2>1, <3>3, <6>2, UnitsDiffer
        <5>2. CASE ~\E i \in DOMAIN Lane : Lane[i].spawn = x
          BY <1>1, <5>2
        <5> QED  BY <5>1, <5>2
      <4> QED  BY <3>1, <4>1, <4>2 DEF Shown
    <3> QED  BY <3>2, <3>3
  <2> QED  BY <2>1 DEF MinionsShown, Shown, TheMinion
<1>8. TowersShown'
  <2>1. ASSUME NEW t \in Tower, NEW i \in DOMAIN Lane
        PROVE  board[Lane[i].spawn] # TheTower(t) /\ Lane[i].spawn \notin Footprint(t)
    <3>1. Lane[i].spawn \in Cell /\ Lane[i].spawn \notin Footprint(t)
      BY LaneIs, MapAssumption
    <3> QED  BY <3>1 DEF BattleInv, TowersShown, Shown
  <2>2. ASSUME NEW t \in Tower, NEW x \in Cell
        PROVE  board'[x] = TheTower(t) <=> board[x] = TheTower(t)
    <3>1. CASE \E i \in DOMAIN Lane : Lane[i].spawn = x
      <4>1. PICK i \in DOMAIN Lane : Lane[i].spawn = x
        BY <3>1
      <4> QED  BY <1>1, <2>1, <4>1, UnitsDiffer
    <3>2. CASE ~\E i \in DOMAIN Lane : Lane[i].spawn = x
      BY <1>1, <3>2
    <3> QED  BY <3>1, <3>2
  <2>3. ASSUME NEW t \in Tower, towers[t] > 0, NEW m \in DOMAIN minions'
        PROVE  minions'[m].pos \notin Footprint(t)
    <3>1. CASE m \in DOMAIN minions /\ minions'[m] = minions[m]
      BY <2>3, <3>1 DEF BattleInv, TowersShown
    <3>2. CASE \E j \in DOMAIN Lane : minions'[m] = NewMinion(j)
      BY <1>5, <2>1, <3>2
    <3> QED  BY <1>6, <3>1, <3>2
  <2> QED  BY <2>2, <2>3 DEF BattleInv, TowersShown, Shown, TheTower
<1>9. Records'
  <2>1. IsFiniteSet({id[i] : i \in DOMAIN Lane})
    <3>1. id \in Surjection(DOMAIN Lane, {id[i] : i \in DOMAIN Lane})
      BY DEF Surjection
    <3>2. IsFiniteSet(DOMAIN Lane)
      BY LaneIs, FS_Interval
    <3> QED  BY <3>1, <3>2, FS_Surjection
  <2>2. IsFiniteSet(DOMAIN minions')
    <3>1. IsFiniteSet(DOMAIN minions)
      BY DEF BattleInv, Records
    <3>2. IsFiniteSet(DOMAIN minions \cup {id[i] : i \in DOMAIN Lane})
      BY <2>1, <3>1, FS_Union
    <3> QED  BY <1>1, <3>2
  <2>3. DOMAIN minions' \subseteq MinionId /\ minionsDue \subseteq DOMAIN minions'
    BY <1>1 DEF BattleInv, Records
  <2>4. \A m \in DOMAIN minions' : MinionRecord(minions'[m])
    BY <1>5, <1>6 DEF BattleInv, Records
  <2> QED  BY <1>1, <2>2, <2>3, <2>4 DEF BattleInv, Records, MinionRecord, Goals
<1> QED  BY <1>3, <1>4, <1>7, <1>8, <1>9 DEF EverybodyShown

\* A wave, or none.
LEMMA InvWaveTurn ==
  ASSUME BattleInv, WaveTurn
  PROVE  BattleInv'
<1>1. /\ outcome = "running"
      /\ UNCHANGED <<champions, towers, forts, rubble, championsDue, minionsDue, pending, outcome>>
  BY DEF WaveTurn
<1>2. CASE MakeWave
  BY <1>1, <1>2, InvWave DEF BattleInv, EverybodyShown
<1>3. CASE UNCHANGED <<minions, board, displaced>>
  <2>1. EverybodyShown'
    BY <1>1, <1>3, AllStay
  <2>2. Records'
    BY <1>1, <1>3 DEF BattleInv, Records, MinionRecord, Goals
  <2> QED  BY <2>1, <2>2 DEF BattleInv, EverybodyShown
<1> QED  BY <1>2, <1>3 DEF WaveTurn

-----------------------------------------------------------------------------
(* The hits of a tick                                                      *)

\* Hits leave no negative health, and nothing where there was none.
LEMMA AfterIs ==
  ASSUME NEW health \in Nat, NEW hits \in Nat
  PROVE  After(health, hits) \in Nat /\ (health = 0 => After(health, hits) = 0)
BY MaxOfTwo DEF After

\* A hit changes neither place nor gold of a champion.
LEMMA HurtIs ==
  ASSUME NEW rec, NEW hits, DOMAIN rec = {"pos", "health", "dead", "gold"}
  PROVE  /\ DOMAIN Hurt(rec, hits) = DOMAIN rec
         /\ Hurt(rec, hits).pos = rec.pos /\ Hurt(rec, hits).gold = rec.gold
<1>1. PICK h : h = After(rec.health, hits)
  OBVIOUS
<1>2. PICK d : d = IF hits > 0 /\ h = 0 THEN DeathTurns ELSE rec.dead
  OBVIOUS
<1>3. Hurt(rec, hits) = [rec EXCEPT !.health = h, !.dead = d]
  BY <1>1, <1>2 DEF Hurt
<1> QED  BY <1>3

\* What the effects of a tick do to the records and the board, whatever they are.
LEMMA EffectsAre ==
  ASSUME Records, NEW blows, IsFiniteSet(blows), NEW first, NEW last,
         ApplyEffects(blows, first, last)
  PROVE  /\ DOMAIN champions' = Champion
         /\ \A c \in Champion : DOMAIN champions'[c] = DOMAIN champions[c] /\ champions'[c].pos = champions[c].pos
         /\ towers' \in [Tower -> Nat] /\ forts' \in [Team -> Nat]
         /\ \A t \in Tower : towers[t] = 0 => towers'[t] = 0
         /\ \E dead \in SUBSET DOMAIN minions, fallen \in SUBSET Tower :
              /\ fallen = {t \in Tower : towers[t] > 0 /\ towers'[t] = 0}
              /\ DOMAIN minions' = DOMAIN minions \ dead
              /\ \A m \in DOMAIN minions \ dead : \E h : minions'[m] = [minions[m] EXCEPT !.health = h]
              /\ board' = [x \in Cell |-> IF x \in Cleared(dead, fallen) THEN Nobody ELSE board[x]]
              /\ rubble' = rubble \cup UNION {LowerRow(t) : t \in fallen}
              /\ displaced' = displaced \cup ({board[x] : x \in Cleared(dead, fallen)}
                   \ ({TheMinion(m, Side(minions[m])) : m \in dead} \cup {TheTower(t) : t \in fallen} \cup {Nobody}))
<1> DEFINE Hits(kind, id) == Cardinality({h \in blows : h[2] = <<kind, id>>})
           Left(m) == After(Healed(first, <<"minion", m>>, minions[m].health, MinionHealth), Hits("minion", m))
           dead == {m \in DOMAIN minions : Left(m) = 0}
           fallen == {t \in Tower : towers[t] > 0 /\ TowerAfter(t, Hits("tower", t)) = 0}
<1>1. ASSUME NEW kind, NEW id  PROVE Hits(kind, id) \in Nat
  <2>1. IsFiniteSet({h \in blows : h[2] = <<kind, id>>})
    BY FS_Subset
  <2> QED  BY <2>1, FS_CardinalityType
<1>2. /\ towers' = [t \in Tower |-> TowerAfter(t, Hits("tower", t))]
      /\ forts' = [t \in Team |-> FortAfter(t, Hits("base", t))]
  BY DEF ApplyEffects
<1>3. /\ minions' = [m \in Survivors(dead) |->
           [minions[m] EXCEPT !.health = Healed(last, <<"minion", m>>, Left(m), MinionHealth)]]
      /\ board' = [x \in Cell |-> IF x \in Cleared(dead, fallen) THEN Nobody ELSE board[x]]
      /\ rubble' = rubble \cup UNION {LowerRow(t) : t \in fallen}
      /\ displaced' = displaced \cup ({board[x] : x \in Cleared(dead, fallen)}
           \ ({TheMinion(m, Side(minions[m])) : m \in dead} \cup {TheTower(t) : t \in fallen} \cup {Nobody}))
  BY DEF ApplyEffects
<1>4. /\ DOMAIN champions' = Champion
      /\ \A c \in Champion :
           \E heal, hits, h, g :
             champions'[c] = [Hurt([champions[c] EXCEPT !.health = heal], hits) EXCEPT !.health = h, !.gold = g]
  BY DEF ApplyEffects
<1> HIDE DEF Hits, Left
<1>5. \A c \in Champion : DOMAIN champions'[c] = DOMAIN champions[c] /\ champions'[c].pos = champions[c].pos
  <2>1. ASSUME NEW c \in Champion
        PROVE  DOMAIN champions'[c] = DOMAIN champions[c] /\ champions'[c].pos = champions[c].pos
    <3>1. PICK heal, hits, h, g :
             champions'[c] = [Hurt([champions[c] EXCEPT !.health = heal], hits) EXCEPT !.health = h, !.gold = g]
      BY <1>4
    <3>2. PICK rec : rec = [champions[c] EXCEPT !.health = heal]
      OBVIOUS
    <3>3. DOMAIN champions[c] = {"pos", "health", "dead", "gold"}
      BY DEF Records
    <3>4. DOMAIN rec = {"pos", "health", "dead", "gold"} /\ rec.pos = champions[c].pos
      BY <3>2, <3>3
    <3>5. DOMAIN Hurt(rec, hits) = DOMAIN rec /\ Hurt(rec, hits).pos = rec.pos
      BY <3>4, HurtIs
    <3> QED  BY <3>1, <3>2, <3>3, <3>4, <3>5
  <2> QED  BY <2>1
<1>6. /\ \A t \in Tower : towers'[t] \in Nat /\ (towers[t] = 0 => towers'[t] = 0)
      /\ \A t \in Team : forts'[t] \in Nat
  <2>1. \A t \in Tower : towers[t] \in Nat /\ \A t2 \in Team : forts[t2] \in Nat
    BY DEF Records
  <2>2. \A t \in Team : forts[t] \in Nat
    BY DEF Records
  <2> QED  BY <1>1, <1>2, <2>1, <2>2, AfterIs DEF TowerAfter, FortAfter
<1>7. towers' \in [Tower -> Nat] /\ forts' \in [Team -> Nat]
  BY <1>2, <1>6
<1>8. fallen = {t \in Tower : towers[t] > 0 /\ towers'[t] = 0}
  BY <1>2
<1>9. /\ DOMAIN minions' = DOMAIN minions \ dead
      /\ \A m \in DOMAIN minions \ dead : \E h : minions'[m] = [minions[m] EXCEPT !.health = h]
  BY <1>3 DEF Survivors
<1>10. dead \in SUBSET DOMAIN minions /\ fallen \in SUBSET Tower
  OBVIOUS
<1> HIDE DEF dead, fallen
<1> QED  BY <1>3, <1>4, <1>5, <1>6, <1>7, <1>8, <1>9, <1>10

\* The blows of a tick are finitely many: an aim for each minion, at most.
LEMMA BlowsAreFinite ==
  ASSUME Records, NEW aims \in SUBSET MinionHits, \A h, i \in aims : h[1] = i[1] => h = i,
         NEW T, NEW shots \in AtMostOne(T)
  PROVE  IsFiniteSet(pending \cup aims \cup {<<"shot", u>> : u \in shots})
<1>1. IsFiniteSet(pending) /\ IsFiniteSet(DOMAIN minions)
  BY DEF Records
<1>2. IsFiniteSet(aims)
  <2> DEFINE f == [h \in aims |-> h[1]]
  <2>1. \A h \in aims : h[1] \in DOMAIN minions
    BY DEF MinionHits
  <2>2. f \in Injection(aims, DOMAIN minions)
    BY <2>1 DEF Injection, IsInjective
  <2> HIDE DEF f
  <2> QED  BY <1>1, <2>2, FS_Injection
<1>3. IsFiniteSet({<<"shot", u>> : u \in shots})
  <2>1. CASE shots = {}
    <3>1. {<<"shot", u>> : u \in shots} = {}
      BY <2>1
    <3> QED  BY <3>1, FS_EmptySet
  <2>2. CASE \E v : shots = {v}
    <3>1. PICK v : shots = {v}
      BY <2>2
    <3>2. {<<"shot", u>> : u \in shots} = {<<"shot", v>>}
      BY <3>1
    <3> QED  BY <3>2, FS_Singleton
  <2> QED  BY <2>1, <2>2 DEF AtMostOne
<1>4. IsFiniteSet(pending \cup aims)
  BY <1>1, <1>2, FS_Union
<1> QED  BY <1>3, <1>4, FS_Union

\* The effects of a tick clear the cells of their dead and nobody else's unrecorded.
LEMMA InvEffects ==
  ASSUME BattleInv, NEW blows, IsFiniteSet(blows), NEW first, NEW last,
         ApplyEffects(blows, first, last), pending' = {}, minionsDue' = DOMAIN minions'
  PROVE  Records' /\ EverybodyShown'
<1>1. /\ DOMAIN champions' = Champion
      /\ \A c \in Champion : DOMAIN champions'[c] = DOMAIN champions[c] /\ champions'[c].pos = champions[c].pos
      /\ towers' \in [Tower -> Nat] /\ forts' \in [Team -> Nat]
      /\ \A t \in Tower : towers[t] = 0 => towers'[t] = 0
  BY EffectsAre DEF BattleInv
<1>2. PICK dead \in SUBSET DOMAIN minions, fallen \in SUBSET Tower :
              /\ fallen = {t \in Tower : towers[t] > 0 /\ towers'[t] = 0}
              /\ DOMAIN minions' = DOMAIN minions \ dead
              /\ \A m \in DOMAIN minions \ dead : \E h : minions'[m] = [minions[m] EXCEPT !.health = h]
              /\ board' = [x \in Cell |-> IF x \in Cleared(dead, fallen) THEN Nobody ELSE board[x]]
              /\ rubble' = rubble \cup UNION {LowerRow(t) : t \in fallen}
              /\ displaced' = displaced \cup ({board[x] : x \in Cleared(dead, fallen)}
                   \ ({TheMinion(m, Side(minions[m])) : m \in dead} \cup {TheTower(t) : t \in fallen} \cup {Nobody}))
  BY EffectsAre DEF BattleInv
<1>3. PICK cleared : cleared = Cleared(dead, fallen)
  OBVIOUS
<1>4. DOMAIN board' = Cell /\ \A x \in Cell : board'[x] = IF x \in cleared THEN Nobody ELSE board[x]
  BY <1>2, <1>3
<1>5. displaced \subseteq displaced'
  BY <1>2
<1>6. ASSUME NEW x \in cleared
      PROVE  \/ board[x] \in displaced' \/ board[x] = Nobody
             \/ \E m \in dead : board[x] = TheMinion(m, Side(minions[m]))
             \/ \E t \in fallen : board[x] = TheTower(t)
  BY <1>2, <1>3
<1>7. (\A m \in dead : minions[m].pos \in cleared) /\ \A t \in fallen : Footprint(t) \subseteq cleared
  BY <1>3 DEF Cleared
<1>8. ASSUME NEW x \in cleared
      PROVE  (\E m \in dead : x = minions[m].pos) \/ \E t \in fallen : x \in Footprint(t)
  BY <1>3 DEF Cleared
<1>9. ASSUME NEW m \in DOMAIN minions \ dead
      PROVE  /\ minions'[m].pos = minions[m].pos /\ minions'[m].lane = minions[m].lane
             /\ MinionRecord(minions'[m])
  <2>1. PICK h : minions'[m] = [minions[m] EXCEPT !.health = h]
    BY <1>2
  <2>2. MinionRecord(minions[m])
    BY DEF BattleInv, Records
  <2> QED  BY <2>1, <2>2 DEF MinionRecord, Goals
<1>10. ChampionsShown'
  <2>1. ASSUME NEW c \in Champion, TheChampion(c) \notin displaced', NEW x \in Cell
        PROVE  board'[x] = TheChampion(c) <=> x = champions'[c].pos
    <3>1. Shown(TheChampion(c), {champions[c].pos})
      BY <1>5, <2>1 DEF BattleInv, ChampionsShown
    <3>2. x \in cleared => board[x] # TheChampion(c)
      BY <1>6, <2>1, UnitsDiffer
    <3> QED  BY <1>1, <1>4, <3>1, <3>2, UnitsDiffer DEF Shown
  <2> QED  BY <2>1 DEF ChampionsShown, Shown, TheChampion
<1>11. FortsShown'
  <2>1. ASSUME NEW t \in Team, TheFort(t) \notin displaced', NEW x \in Cell
        PROVE  board'[x] = TheFort(t) <=> x \in Fort[t]
    <3>1. Shown(TheFort(t), Fort[t])
      BY <1>5, <2>1 DEF BattleInv, FortsShown
    <3>2. x \in cleared => board[x] # TheFort(t)
      BY <1>6, <2>1, UnitsDiffer
    <3> QED  BY <1>4, <3>1, <3>2, UnitsDiffer DEF Shown
  <2> QED  BY <2>1 DEF FortsShown, Shown, TheFort
<1>12. MinionsShown'
  <2>1. ASSUME NEW m \in MinionId, NEW t \in Team, TheMinion(m, t) \notin displaced', NEW x \in Cell
        PROVE  board'[x] = TheMinion(m, t) <=> x \in PlacesOf(m, t)'
    <3>1. Shown(TheMinion(m, t), PlacesOf(m, t))
      BY <1>5, <2>1 DEF BattleInv, MinionsShown
    <3>2. CASE m \in dead /\ Side(minions[m]) = t
      <4>1. PlacesOf(m, t) = {minions[m].pos}
        BY <3>2 DEF PlacesOf
      <4>2. PlacesOf(m, t)' = {}
        BY <1>2, <3>2 DEF PlacesOf
      <4>3. minions[m].pos \in cleared
        BY <1>7, <3>2
      <4> QED  BY <1>4, <3>1, <4>1, <4>2, <4>3, UnitsDiffer DEF Shown
    <3>3. CASE ~(m \in dead /\ Side(minions[m]) = t)
      <4>1. PlacesOf(m, t)' = PlacesOf(m, t)
        <5>1. CASE m \in DOMAIN minions \ dead
          BY <1>2, <1>9, <5>1 DEF PlacesOf, Side
        <5>2. CASE m \notin DOMAIN minions \ dead
          BY <1>2, <3>3, <5>2 DEF PlacesOf, Side
        <5> QED  BY <5>1, <5>2
      <4>2. x \in cleared => board[x] # TheMinion(m, t)
        BY <1>6, <2>1, <3>3, UnitsDiffer
      <4> QED  BY <1>4, <3>1, <4>1, <4>2, UnitsDiffer DEF Shown
    <3> QED  BY <3>2, <3>3
  <2> QED  BY <2>1 DEF MinionsShown, Shown, TheMinion
<1>13. TowersShown'
  <2>1. ASSUME NEW t \in Tower, towers'[t] > 0
        PROVE  /\ \A x \in Cell : board'[x] = TheTower(t) <=> x \in Footprint(t)
               /\ \A c \in Champion : champions'[c].pos \notin Footprint(t)
               /\ \A m \in DOMAIN minions' : minions'[m].pos \notin Footprint(t)
               /\ LowerRow(t) \cap rubble' = {}
    <3>1. towers[t] > 0 /\ t \notin fallen
      <4>1. towers[t] \in Nat /\ towers[t] # 0
        BY <1>1, <2>1 DEF BattleInv, Records
      <4> QED  BY <1>2, <2>1, <4>1
    <3>2. /\ Shown(TheTower(t), Footprint(t))
          /\ \A c \in Champion : champions[c].pos \notin Footprint(t)
          /\ \A m \in DOMAIN minions : minions[m].pos \notin Footprint(t)
          /\ LowerRow(t) \cap rubble = {}
      BY <3>1 DEF BattleInv, TowersShown
    <3>3. \A u \in fallen : Footprint(t) \cap Footprint(u) = {}
      BY <3>1, MapAssumption
    <3>4. cleared \cap Footprint(t) = {}
      BY <1>8, <3>2, <3>3
    <3>5. \A u \in fallen : LowerRow(t) \cap LowerRow(u) = {}
      BY <3>3 DEF Footprint
    <3>6. LowerRow(t) \cap rubble' = {}
      BY <1>2, <3>2, <3>5
    <3>7. \A x \in Cell : board'[x] = TheTower(t) <=> x \in Footprint(t)
      BY <1>4, <3>2, <3>4, UnitsDiffer DEF Shown
    <3> QED  BY <1>1, <1>2, <1>9, <3>2, <3>6, <3>7
  <2>2. ASSUME NEW t \in Tower, ~(towers'[t] > 0)
        PROVE  (\A x \in Cell : board'[x] # TheTower(t)) /\ LowerRow(t) \subseteq rubble'
    <3>1. towers'[t] = 0 /\ towers[t] \in Nat
      BY <1>1, <2>2 DEF BattleInv, Records
    <3>2. CASE t \in fallen
      <4>1. Shown(TheTower(t), Footprint(t)) /\ Footprint(t) \subseteq cleared
        BY <1>2, <1>7, <3>2 DEF BattleInv, TowersShown
      <4>2. LowerRow(t) \subseteq rubble'
        BY <1>2, <3>2
      <4> QED  BY <1>4, <4>1, <4>2, UnitsDiffer DEF Shown
    <3>3. CASE t \notin fallen
      <4>1. ~(towers[t] > 0)
        BY <1>2, <3>1, <3>3
      <4>2. Shown(TheTower(t), {}) /\ LowerRow(t) \subseteq rubble
        BY <4>1 DEF BattleInv, TowersShown
      <4> QED  BY <1>2, <1>4, <4>2, UnitsDiffer DEF Shown
    <3> QED  BY <3>2, <3>3
  <2> QED  BY <2>1, <2>2 DEF TowersShown, Shown, TheTower
<1>14. Records'
  <2>1. \A c \in Champion : DOMAIN champions'[c] = {"pos", "health", "dead", "gold"} /\ champions'[c].pos \in Cell
    BY <1>1 DEF BattleInv, Records
  <2>2. IsFiniteSet(DOMAIN minions')
    <3>1. IsFiniteSet(DOMAIN minions) /\ DOMAIN minions' \in SUBSET DOMAIN minions
      BY <1>2 DEF BattleInv, Records
    <3> QED  BY <3>1, FS_Subset
  <2>3. IsFiniteSet(pending')
    BY FS_EmptySet
  <2>4. DOMAIN minions' \subseteq MinionId /\ \A m \in DOMAIN minions' : MinionRecord(minions'[m])
    BY <1>2, <1>9 DEF BattleInv, Records
  <2> QED  BY <1>1, <1>4, <2>1, <2>2, <2>3, <2>4 DEF Records, MinionRecord, Goals
<1> QED  BY <1>10, <1>11, <1>12, <1>13, <1>14 DEF EverybodyShown

\* The end of a tick, whatever was hit and healed in it.
LEMMA InvStrike ==
  ASSUME BattleInv, Strike
  PROVE  BattleInv'
<1>1. /\ outcome = "running" /\ pending' = {} /\ minionsDue' = DOMAIN minions'
      /\ outcome' = IF \E t \in Team : forts'[t] = 0 THEN "won" ELSE outcome
  BY DEF Strike
<1>2. \E blows, first, last : IsFiniteSet(blows) /\ ApplyEffects(blows, first, last)
  <2>1. PICK aims \in SUBSET MinionHits, shots \in AtMostOne(Exposed) :
          /\ \A h, i \in aims : h[1] = i[1] => h = i
          /\ \E first, last : ApplyEffects(pending \cup aims \cup {<<"shot", u>> : u \in shots}, first, last)
    BY DEF Strike
  <2>2. IsFiniteSet(pending \cup aims \cup {<<"shot", u>> : u \in shots})
    BY <2>1, BlowsAreFinite DEF BattleInv
  <2> QED  BY <2>1, <2>2
<1>3. Records' /\ EverybodyShown'
  BY <1>1, <1>2, InvEffects
<1> QED  BY <1>3 DEF BattleInv, EverybodyShown

-----------------------------------------------------------------------------
(* Sums                                                                    *)

\* The element that a sum takes next.
Next1(s) == CHOOSE x \in s : TRUE

\* g holds the sum of f over each subset in D.
Sums(g, f, D) ==
  g = [s \in D |-> IF s = {} THEN 0 ELSE f[Next1(s)] + g[s \ {Next1(s)}]]

\* The element taken next is one of the set.
LEMMA NextIsIn ==
  ASSUME NEW s, s # {}
  PROVE  Next1(s) \in s
BY DEF Next1

\* A finite set without one of its elements is smaller.
LEMMA OneLess ==
  ASSUME NEW s, IsFiniteSet(s), NEW x \in s
  PROVE  /\ IsFiniteSet(s \ {x}) /\ Cardinality(s \ {x}) = Cardinality(s) - 1
         /\ Cardinality(s) \in Nat /\ Cardinality(s \ {x}) \in Nat
<1>1. IsFiniteSet(s \ {x}) /\ Cardinality(s \ {x}) = Cardinality(s) - 1
  BY FS_RemoveElement
<1>2. Cardinality(s) \in Nat /\ Cardinality(s \ {x}) \in Nat
  BY <1>1, FS_CardinalityType
<1> QED  BY <1>1, <1>2

\* There is such a function.
LEMMA SumsExist ==
  ASSUME NEW S, IsFiniteSet(S), NEW f
  PROVE  \E g : Sums(g, f, SUBSET S)
<1> DEFINE D(n) == {s \in SUBSET S : Cardinality(s) <= n}
           Bad == {n \in Nat : ~\E g : Sums(g, f, D(n))}
<1>0. \A s \in SUBSET S : IsFiniteSet(s) /\ Cardinality(s) \in Nat
  BY FS_Subset, FS_CardinalityType
<1>1. Bad = {}
  <2>1. SUFFICES ASSUME Bad # {}  PROVE FALSE
    OBVIOUS
  <2>2. PICK n \in Bad : \A k \in Bad : n <= k
    BY <2>1, LeastNumber
  <2>3. CASE n = 0
    <3> DEFINE g == [s \in D(0) |-> 0]
    <3>1. \A s \in D(0) : s = {}
      BY <1>0, FS_EmptySet
    <3>2. Sums(g, f, D(0))
      BY <3>1 DEF Sums
    <3> QED  BY <2>2, <2>3, <3>2
  <2>4. CASE n # 0
    <3>1. n - 1 \in Nat /\ n - 1 \notin Bad
      <4>1. n \in Nat
        BY <2>2
      <4> HIDE DEF Bad
      <4> QED  BY <2>2, <2>4, <4>1
    <3>2. PICK g : Sums(g, f, D(n - 1))
      BY <3>1
    <3> DEFINE h == [s \in D(n) |-> IF s = {} THEN 0 ELSE f[Next1(s)] + g[s \ {Next1(s)}]]
    <3>3. ASSUME NEW s \in D(n - 1)  PROVE h[s] = g[s]
      <4>1. s \in D(n)
        BY <1>0, <2>2
      <4> QED  BY <3>2, <4>1 DEF Sums
    <3>4. \A s \in D(n) : s # {} => s \ {Next1(s)} \in D(n - 1)
      <4>1. ASSUME NEW s \in D(n), s # {}  PROVE s \ {Next1(s)} \in D(n - 1)
        BY <1>0, <2>2, <4>1, NextIsIn, OneLess
      <4> QED  BY <4>1
    <3>5. h = [s \in D(n) |-> IF s = {} THEN 0 ELSE f[Next1(s)] + h[s \ {Next1(s)}]]
      <4> HIDE DEF D
      <4> QED  BY <3>3, <3>4
    <3>6. Sums(h, f, D(n))
      <4> HIDE DEF D, h
      <4> QED  BY <3>5 DEF Sums
    <3> QED  BY <2>2, <3>6
  <2> QED  BY <2>3, <2>4
<1>2. Cardinality(S) \in Nat /\ D(Cardinality(S)) = SUBSET S
  <2>1. \A s \in SUBSET S : Cardinality(s) <= Cardinality(S)
    BY FS_Subset
  <2> QED  BY <1>0, <2>1
<1> QED  BY <1>1, <1>2

\* The sums are those of the community modules.
LEMMA SumIs ==
  ASSUME NEW S, IsFiniteSet(S), NEW f
  PROVE  \E g : Sums(g, f, SUBSET S) /\ SumFunctionOnSet(f, S) = g[S]
<1> DEFINE G == CHOOSE g : Sums(g, f, SUBSET S)
<1>1. Sums(G, f, SUBSET S)
  BY SumsExist
<1>2. SumFunctionOnSet(f, S) = G[S]
  BY DEF SumFunctionOnSet, FoldFunctionOnSet, MapThenFoldSet, Sums, Next1
<1> QED  BY <1>1, <1>2

\* Functions with the same numbers on S have the same sum there, whatever else
\* the sums were collected for.
SameOn(f, e, S) == \A x \in S : f[x] \in Nat /\ e[x] = f[x]

\* Sums of functions that agree on a finite set agree there.
LEMMA SumsAgree ==
  ASSUME NEW f, NEW T, NEW g, Sums(g, f, SUBSET T), NEW e, NEW U, NEW h, Sums(h, e, SUBSET U),
         NEW S, IsFiniteSet(S), S \subseteq T, S \subseteq U, SameOn(f, e, S)
  PROVE  g[S] = h[S] /\ g[S] \in Nat
<1> DEFINE Bad == {n \in Nat : \E s \in SUBSET S : Cardinality(s) = n /\ ~(g[s] = h[s] /\ g[s] \in Nat)}
<1>0. \A s \in SUBSET S : IsFiniteSet(s) /\ Cardinality(s) \in Nat
  BY FS_Subset, FS_CardinalityType
<1>1. Bad = {}
  <2>1. SUFFICES ASSUME Bad # {}  PROVE FALSE
    OBVIOUS
  <2>2. PICK n \in Bad : \A k \in Bad : n <= k
    BY <2>1, LeastNumber
  <2>3. PICK s \in SUBSET S : Cardinality(s) = n /\ ~(g[s] = h[s] /\ g[s] \in Nat)
    BY <2>2
  <2>4. /\ g[s] = IF s = {} THEN 0 ELSE f[Next1(s)] + g[s \ {Next1(s)}]
        /\ h[s] = IF s = {} THEN 0 ELSE e[Next1(s)] + h[s \ {Next1(s)}]
    BY <2>3 DEF Sums
  <2>5. CASE s = {}
    BY <2>3, <2>4, <2>5
  <2>6. CASE s # {}
    <3>1. PICK x \in s : x = Next1(s)
      BY <2>6, NextIsIn
    <3>2. Cardinality(s \ {x}) = n - 1 /\ n - 1 \in Nat
      BY <1>0, <2>3, <3>1, OneLess
    <3>3. n - 1 \notin Bad
      <4>1. n \in Nat
        BY <2>2
      <4> HIDE DEF Bad
      <4> QED  BY <2>2, <4>1
    <3>4. g[s \ {x}] = h[s \ {x}] /\ g[s \ {x}] \in Nat
      BY <2>3, <3>2, <3>3
    <3>5. f[x] \in Nat /\ e[x] = f[x]
      BY <2>3 DEF SameOn
    <3> QED  BY <2>3, <2>4, <2>6, <3>1, <3>4, <3>5
  <2> QED  BY <2>5, <2>6
<1>2. Cardinality(S) \in Nat
  BY <1>0
<1> QED  BY <1>1, <1>2

\* A sum is a number, nothing for the empty set, and otherwise the next value
\* and the sum of the others, whatever function holds those.
LEMMA SumStep ==
  ASSUME NEW S, IsFiniteSet(S), NEW f, \A x \in S : f[x] \in Nat
  PROVE  /\ SumFunctionOnSet(f, S) \in Nat
         /\ S = {} => SumFunctionOnSet(f, S) = 0
         /\ S # {} => \A e : (\A x \in S \ {Next1(S)} : e[x] = f[x]) =>
              SumFunctionOnSet(f, S) = f[Next1(S)] + SumFunctionOnSet(e, S \ {Next1(S)})
<1>1. PICK g : Sums(g, f, SUBSET S) /\ SumFunctionOnSet(f, S) = g[S]
  BY SumIs
<1>2. g[S] \in Nat
  <2>1. SameOn(f, f, S)
    BY DEF SameOn
  <2> QED  BY <1>1, <2>1, SumsAgree
<1>3. g[S] = IF S = {} THEN 0 ELSE f[Next1(S)] + g[S \ {Next1(S)}]
  BY <1>1 DEF Sums
<1>4. ASSUME S # {}, NEW e, \A x \in S \ {Next1(S)} : e[x] = f[x]
      PROVE  SumFunctionOnSet(e, S \ {Next1(S)}) = g[S \ {Next1(S)}]
  <2>1. PICK P : P = S \ {Next1(S)}
    OBVIOUS
  <2>2. IsFiniteSet(P) /\ P \subseteq S /\ \A x \in P : f[x] \in Nat /\ e[x] = f[x]
    BY <1>4, <2>1, FS_Subset
  <2>3. PICK h : Sums(h, e, SUBSET P) /\ SumFunctionOnSet(e, P) = h[P]
    BY <2>2, SumIs
  <2>4. g[P] = h[P]
    <3>1. Sums(g, f, SUBSET S) /\ Sums(h, e, SUBSET P) /\ P \subseteq P
      BY <1>1, <2>3
    <3>2. SameOn(f, e, P)
      BY <2>2 DEF SameOn
    <3>3. g[P] = h[P] /\ g[P] \in Nat
      BY <2>2, <3>1, <3>2, SumsAgree
    <3> QED  BY <3>3
  <2> QED  BY <2>1, <2>3, <2>4
<1> QED  BY <1>1, <1>2, <1>3, <1>4

\* The sum of sums.
LEMMA SumPlus ==
  ASSUME NEW S, IsFiniteSet(S), NEW f, NEW e, NEW h,
         \A x \in S : f[x] \in Nat /\ e[x] \in Nat /\ h[x] = f[x] + e[x]
  PROVE  SumFunctionOnSet(h, S) = SumFunctionOnSet(f, S) + SumFunctionOnSet(e, S)
<1> DEFINE Good(s) == SumFunctionOnSet(h, s) = SumFunctionOnSet(f, s) + SumFunctionOnSet(e, s)
           Bad == {n \in Nat : \E s \in SUBSET S : Cardinality(s) = n /\ ~Good(s)}
<1>0. \A s \in SUBSET S : IsFiniteSet(s) /\ Cardinality(s) \in Nat
  BY FS_Subset, FS_CardinalityType
<1>1. ASSUME Bad # {}  PROVE FALSE
  <2>1. PICK n \in Bad : \A k \in Bad : n <= k
    BY <1>1, LeastNumber
  <2>2. PICK s \in SUBSET S : Cardinality(s) = n /\ ~Good(s)
    BY <2>1
  <2>3. IsFiniteSet(s) /\ \A x \in s : f[x] \in Nat /\ e[x] \in Nat /\ h[x] \in Nat /\ h[x] = f[x] + e[x]
    BY <1>0
  <2>4. s # {}
    <3>1. ASSUME s = {}  PROVE FALSE
      <4>1. SumFunctionOnSet(h, s) = 0
        BY <2>3, <3>1, SumStep
      <4>2. SumFunctionOnSet(f, s) = 0
        BY <2>3, <3>1, SumStep
      <4>3. SumFunctionOnSet(e, s) = 0
        BY <2>3, <3>1, SumStep
      <4> QED  BY <2>2, <4>1, <4>2, <4>3
    <3> QED  BY <3>1
  <2>5. PICK x \in s : x = Next1(s)
    BY <2>4, NextIsIn
  <2>6. PICK r \in SUBSET S : r = s \ {x} /\ Cardinality(r) = n - 1 /\ n - 1 \in Nat
    <3>1. Cardinality(s \ {x}) = n - 1 /\ n - 1 \in Nat
      BY <2>2, <2>3, OneLess
    <3> QED  BY <2>2, <3>1
  <2>7. Good(r)
    <3>1. n - 1 \notin Bad
      <4>1. n \in Nat
        BY <2>1
      <4> HIDE DEF Bad
      <4> QED  BY <2>1, <4>1
    <3> HIDE DEF Good
    <3> QED  BY <2>6, <3>1
  <2>8. /\ SumFunctionOnSet(h, s) = h[x] + SumFunctionOnSet(h, r)
        /\ SumFunctionOnSet(f, s) = f[x] + SumFunctionOnSet(f, r)
        /\ SumFunctionOnSet(e, s) = e[x] + SumFunctionOnSet(e, r)
    <3>1. SumFunctionOnSet(h, s) = h[Next1(s)] + SumFunctionOnSet(h, s \ {Next1(s)})
      BY <2>3, <2>4, SumStep
    <3>2. SumFunctionOnSet(f, s) = f[Next1(s)] + SumFunctionOnSet(f, s \ {Next1(s)})
      BY <2>3, <2>4, SumStep
    <3>3. SumFunctionOnSet(e, s) = e[Next1(s)] + SumFunctionOnSet(e, s \ {Next1(s)})
      BY <2>3, <2>4, SumStep
    <3> QED  BY <2>5, <2>6, <3>1, <3>2, <3>3
  <2>9. SumFunctionOnSet(f, r) \in Nat /\ SumFunctionOnSet(e, r) \in Nat
    BY <1>0, <2>3, <2>6, SumStep
  <2>10. f[x] \in Nat /\ e[x] \in Nat /\ h[x] = f[x] + e[x]
    BY <2>3
  <2> QED  BY <2>2, <2>7, <2>8, <2>9, <2>10
<1>2. Cardinality(S) \in Nat /\ Cardinality(S) \notin Bad
  <2> HIDE DEF Bad
  <2> QED  BY <1>0, <1>1
<1> HIDE DEF Good
<1>3. Good(S)
  BY <1>2
<1> QED  BY <1>3 DEF Good

\* The sum of what is k on N and nothing elsewhere.
LEMMA SumOfEqual ==
  ASSUME NEW S, IsFiniteSet(S), NEW N \in SUBSET S, NEW k \in Nat, NEW f,
         \A x \in S : f[x] = IF x \in N THEN k ELSE 0
  PROVE  SumFunctionOnSet(f, S) = Cardinality(N) * k
<1> DEFINE Good(s) == SumFunctionOnSet(f, s) = Cardinality(s \cap N) * k
           Bad == {n \in Nat : \E s \in SUBSET S : Cardinality(s) = n /\ ~Good(s)}
<1>0. \A s \in SUBSET S : IsFiniteSet(s) /\ Cardinality(s) \in Nat
  BY FS_Subset, FS_CardinalityType
<1>1. ASSUME Bad # {}  PROVE FALSE
  <2>1. PICK n \in Bad : \A j \in Bad : n <= j
    BY <1>1, LeastNumber
  <2>2. PICK s \in SUBSET S : Cardinality(s) = n /\ ~Good(s)
    BY <2>1
  <2>3. IsFiniteSet(s) /\ (\A x \in s : f[x] \in Nat /\ f[x] = IF x \in N THEN k ELSE 0)
    BY <1>0
  <2>4. s # {}
    <3>1. ASSUME s = {}  PROVE FALSE
      <4>1. s \cap N = {} /\ Cardinality({}) = 0
        BY <3>1, FS_EmptySet
      <4>2. SumFunctionOnSet(f, s) = 0
        BY <2>3, <3>1, SumStep
      <4>3. Cardinality(s \cap N) = 0 /\ 0 * k = 0
        <5>1. Cardinality(s \cap N) = 0
          BY <4>1
        <5> QED  BY <5>1
      <4> QED  BY <2>2, <4>2, <4>3
    <3> QED  BY <3>1
  <2>5. PICK x \in s : x = Next1(s)
    BY <2>4, NextIsIn
  <2>6. PICK r \in SUBSET S : r = s \ {x} /\ Cardinality(r) = n - 1 /\ n - 1 \in Nat
    <3>1. Cardinality(s \ {x}) = n - 1 /\ n - 1 \in Nat
      BY <2>2, <2>3, OneLess
    <3> QED  BY <2>2, <3>1
  <2>7. Good(r)
    <3>1. n - 1 \notin Bad
      <4>1. n \in Nat
        BY <2>1
      <4> HIDE DEF Bad
      <4> QED  BY <2>1, <4>1
    <3> HIDE DEF Good
    <3> QED  BY <2>6, <3>1
  <2>8. SumFunctionOnSet(f, s) = f[x] + SumFunctionOnSet(f, r)
    <3>1. SumFunctionOnSet(f, s) = f[Next1(s)] + SumFunctionOnSet(f, s \ {Next1(s)})
      BY <2>3, <2>4, SumStep
    <3> QED  BY <2>5, <2>6, <3>1
  <2>9. PICK v \in Nat : v = Cardinality(r \cap N)
    BY <1>0
  <2>10. CASE x \in N
    <3>1. (s \cap N) \ {x} = r \cap N /\ x \in s \cap N /\ IsFiniteSet(s \cap N)
      BY <1>0, <2>6, <2>10
    <3>2. Cardinality(s \cap N) = v + 1
      <4>1. PICK p : p = s \cap N
        OBVIOUS
      <4>2. Cardinality(p \ {x}) = Cardinality(p) - 1 /\ Cardinality(p) \in Nat
        BY <3>1, <4>1, OneLess
      <4>3. Cardinality(p \ {x}) = v
        BY <2>9, <3>1, <4>1
      <4> QED  BY <4>1, <4>2, <4>3
    <3>3. f[x] = k
      BY <2>3, <2>10
    <3>4. (v + 1) * k = k + v * k
      OBVIOUS
    <3> QED  BY <2>2, <2>7, <2>8, <2>9, <3>2, <3>3, <3>4
  <2>11. CASE x \notin N
    <3>1. s \cap N = r \cap N
      BY <2>6, <2>11
    <3>2. f[x] = 0
      BY <2>3, <2>11
    <3>3. PICK p \in Nat : p = v * k
      BY <2>9
    <3>4. SumFunctionOnSet(f, r) = p
      BY <2>7, <2>9, <3>3
    <3>5. SumFunctionOnSet(f, s) = p
      BY <2>8, <3>2, <3>4
    <3>6. Cardinality(s \cap N) * k = p
      BY <2>9, <3>1, <3>3
    <3> QED  BY <2>2, <3>5, <3>6
  <2> QED  BY <2>10, <2>11
<1>2. Cardinality(S) \in Nat /\ Cardinality(S) \notin Bad
  <2> HIDE DEF Bad
  <2> QED  BY <1>0, <1>1
<1>3. Good(S)
  <2> HIDE DEF Good
  <2> QED  BY <1>2
<1>4. S \cap N = N
  OBVIOUS
<1> QED  BY <1>3, <1>4

\* The equal shares of a reward do not exceed it.
LEMMA Shares ==
  ASSUME NEW n \in Nat \ {0}, NEW r \in Nat
  PROVE  r \div n \in Nat /\ n * (r \div n) <= r
OBVIOUS

-----------------------------------------------------------------------------
(* Gold                                                                    *)

\* A share is never negative.
LEMMA ShareIs ==
  ASSUME NEW c \in Champion, NEW m
  PROVE  Share(c, m) \in Nat
<1> DEFINE near == {d \in Champion : /\ TeamOf[d] # Side(minions[m])
                                     /\ Distance(champions[d].pos, minions[m].pos) <= 2}
<1>1. Share(c, m) = IF c \in near THEN Reward \div Cardinality(near) ELSE 0
  BY DEF Share
<1>2. near \in SUBSET Champion
  OBVIOUS
<1> HIDE DEF near
<1>3. IsFiniteSet(near) /\ Cardinality(near) \in Nat /\ (Cardinality(near) = 0 => near = {})
  BY <1>2, NumbersAssumption, FS_Subset, FS_CardinalityType, FS_EmptySet
<1>4. Reward \in Nat
  BY NumbersAssumption
<1> QED  BY <1>1, <1>3, <1>4, Shares

\* The shares of a minion are never more than it is worth.
LEMMA OneReward ==
  ASSUME NEW m
  PROVE  SumFunctionOnSet([c \in Champion |-> Share(c, m)], Champion) \in 0..Reward
<1> DEFINE near == {d \in Champion : /\ TeamOf[d] # Side(minions[m])
                                     /\ Distance(champions[d].pos, minions[m].pos) <= 2}
           f == [c \in Champion |-> Share(c, m)]
<1>1. \A c \in Champion : f[c] = IF c \in near THEN Reward \div Cardinality(near) ELSE 0
  BY DEF Share
<1>2. near \in SUBSET Champion
  OBVIOUS
<1> HIDE DEF near, f
<1>3. IsFiniteSet(near) /\ Cardinality(near) \in Nat /\ (Cardinality(near) = 0 => near = {})
  BY <1>2, NumbersAssumption, FS_Subset, FS_CardinalityType, FS_EmptySet
<1>4. Reward \in Nat /\ IsFiniteSet(Champion)
  BY NumbersAssumption
<1>5. CASE Cardinality(near) = 0
  <2>1. \A c \in Champion : f[c] = IF c \in {} THEN 0 ELSE 0
    BY <1>1, <1>3, <1>5
  <2>2. SumFunctionOnSet(f, Champion) = Cardinality({}) * 0
    BY <1>4, <2>1, SumOfEqual
  <2> QED  BY <1>4, <2>2, FS_EmptySet DEF f
<1>6. CASE Cardinality(near) # 0
  <2>1. PICK n \in Nat \ {0} : n = Cardinality(near)
    BY <1>3, <1>6
  <2>2. PICK k \in Nat : k = Reward \div n
    BY <1>4, <2>1, Shares
  <2>3. n * k <= Reward /\ n * k \in Nat
    BY <1>4, <2>1, <2>2, Shares
  <2>4. SumFunctionOnSet(f, Champion) = n * k
    BY <1>1, <1>2, <1>4, <2>1, <2>2, SumOfEqual
  <2> QED  BY <1>4, <2>3, <2>4 DEF f
<1> QED  BY <1>5, <1>6

BountiesOf(dead) == SumFunctionOnSet([c \in Champion |-> Bounty(c, dead)], Champion)

\* A bounty is the sum of the shares, one death after the other.
LEMMA BountyIs ==
  ASSUME NEW dead, IsFiniteSet(dead), NEW c \in Champion
  PROVE  /\ Bounty(c, dead) \in Nat
         /\ dead = {} => Bounty(c, dead) = 0
         /\ dead # {} => Bounty(c, dead) = Share(c, Next1(dead)) + Bounty(c, dead \ {Next1(dead)})
<1> DEFINE f == [m \in dead |-> Share(c, m)]
           e == [m \in dead \ {Next1(dead)} |-> Share(c, m)]
<1>1. /\ Bounty(c, dead) = SumFunctionOnSet(f, dead)
      /\ Bounty(c, dead \ {Next1(dead)}) = SumFunctionOnSet(e, dead \ {Next1(dead)})
  BY DEF Bounty, SumFunction
<1>2. \A m \in dead : f[m] \in Nat
  BY ShareIs
<1>3. (\A m \in dead \ {Next1(dead)} : e[m] = f[m]) /\ (dead # {} => f[Next1(dead)] = Share(c, Next1(dead)))
  BY NextIsIn
<1> HIDE DEF f, e
<1>4. SumFunctionOnSet(f, dead) \in Nat /\ (dead = {} => SumFunctionOnSet(f, dead) = 0)
  BY <1>2, SumStep
<1>5. dead # {} => SumFunctionOnSet(f, dead) = f[Next1(dead)] + SumFunctionOnSet(e, dead \ {Next1(dead)})
  BY <1>2, <1>3, SumStep
<1> QED  BY <1>1, <1>3, <1>4, <1>5

\* All the gold that the deaths of a tick are worth.
LEMMA BountiesAre ==
  ASSUME NEW dead, IsFiniteSet(dead)
  PROVE  BountiesOf(dead) \in Nat /\ BountiesOf(dead) <= Reward * Cardinality(dead)
<1> DEFINE Good(s) == BountiesOf(s) \in Nat /\ BountiesOf(s) <= Reward * Cardinality(s)
           Bad == {n \in Nat : \E s \in SUBSET dead : Cardinality(s) = n /\ ~Good(s)}
<1>0. \A s \in SUBSET dead : IsFiniteSet(s) /\ Cardinality(s) \in Nat
  BY FS_Subset, FS_CardinalityType
<1>1. IsFiniteSet(Champion) /\ Reward \in Nat
  BY NumbersAssumption
<1>2. ASSUME Bad # {}  PROVE FALSE
  <2>1. PICK n \in Bad : \A j \in Bad : n <= j
    BY <1>2, LeastNumber
  <2>2. PICK s \in SUBSET dead : Cardinality(s) = n /\ ~Good(s)
    BY <2>1
  <2>3. IsFiniteSet(s)
    BY <1>0
  <2>4. CASE s = {}
    <3> DEFINE b == [c \in Champion |-> Bounty(c, s)]
    <3>1. \A c \in Champion : b[c] = IF c \in {} THEN 0 ELSE 0
      BY <2>3, <2>4, BountyIs
    <3>2. BountiesOf(s) = SumFunctionOnSet(b, Champion)
      BY DEF BountiesOf
    <3> HIDE DEF b
    <3>3. SumFunctionOnSet(b, Champion) = Cardinality({}) * 0
      BY <1>1, <3>1, SumOfEqual
    <3>4. BountiesOf(s) = 0 /\ Cardinality(s) = 0
      BY <2>4, <3>2, <3>3, FS_EmptySet
    <3> QED  BY <1>1, <2>2, <3>4
  <2>5. CASE s # {}
    <3>1. PICK m \in s : m = Next1(s)
      BY <2>5, NextIsIn
    <3>2. PICK r \in SUBSET dead : r = s \ {m} /\ Cardinality(r) = n - 1 /\ n - 1 \in Nat
      <4>1. Cardinality(s \ {m}) = n - 1 /\ n - 1 \in Nat
        BY <2>2, <2>3, OneLess
      <4> QED  BY <2>2, <4>1
    <3>3. Good(r)
      <4>1. n - 1 \notin Bad
        <5>1. n \in Nat
          BY <2>1
        <5> HIDE DEF Bad
        <5> QED  BY <2>1, <5>1
      <4> HIDE DEF Good
      <4> QED  BY <3>2, <4>1
    <3> DEFINE b == [c \in Champion |-> Bounty(c, s)]
               a == [c \in Champion |-> Bounty(c, r)]
               f == [c \in Champion |-> Share(c, m)]
    <3>4. \A c \in Champion : f[c] \in Nat /\ a[c] \in Nat /\ b[c] = f[c] + a[c]
      <4>1. ASSUME NEW c \in Champion
            PROVE  Share(c, m) \in Nat /\ Bounty(c, r) \in Nat /\ Bounty(c, s) = Share(c, m) + Bounty(c, r)
        <5>1. Bounty(c, s) = Share(c, Next1(s)) + Bounty(c, s \ {Next1(s)})
          BY <2>3, <2>5, BountyIs
        <5>2. IsFiniteSet(r)
          BY <1>0
        <5> QED  BY <3>1, <3>2, <5>1, <5>2, BountyIs, ShareIs
      <4> QED  BY <4>1
    <3>5. /\ BountiesOf(s) = SumFunctionOnSet(b, Champion) /\ BountiesOf(r) = SumFunctionOnSet(a, Champion)
          /\ SumFunctionOnSet(f, Champion) \in 0..Reward
      BY OneReward DEF BountiesOf
    <3> HIDE DEF a, b, f
    <3>6. SumFunctionOnSet(b, Champion) = SumFunctionOnSet(f, Champion) + SumFunctionOnSet(a, Champion)
      BY <1>1, <3>4, SumPlus
    <3>7. PICK p \in 0..Reward : p = SumFunctionOnSet(f, Champion)
      BY <3>5
    <3>8. BountiesOf(s) = p + BountiesOf(r) /\ BountiesOf(r) \in Nat /\ BountiesOf(r) <= Reward * (n - 1)
      BY <3>2, <3>3, <3>5, <3>6, <3>7
    <3>9. Reward * n = Reward * (n - 1) + Reward /\ Reward * (n - 1) \in Nat
      BY <1>1, <3>2
    <3> QED  BY <1>1, <2>2, <3>7, <3>8, <3>9
  <2> QED  BY <2>4, <2>5
<1>3. Cardinality(dead) \in Nat /\ Cardinality(dead) \notin Bad
  <2> HIDE DEF Bad
  <2> QED  BY <1>0, <1>2
<1> HIDE DEF Good
<1>4. Good(dead)
  BY <1>3
<1> QED  BY <1>4 DEF Good

\* A product grows with a factor.
LEMMA TimesGrows ==
  ASSUME NEW a \in Nat, NEW b \in Nat, NEW c \in Nat, b <= c
  PROVE  a * b <= a * c
<1>1. PICK d \in Nat : c = b + d
  <2>1. c - b \in Nat /\ c = b + (c - b)
    OBVIOUS
  <2> QED  BY <2>1
<1>2. a * c = a * b + a * d
  BY <1>1
<1>3. a * b \in Nat /\ a * d \in Nat
  BY <1>1
<1> QED  BY <1>2, <1>3

\* The minions that waves made and that are gone.
Gone == waves * Len(Lane) - Cardinality(DOMAIN minions)

Gold == SumFunctionOnSet([c \in Champion |-> champions[c].gold], Champion)

\* All gold was paid for minions that are gone.
GoldInv ==
  /\ \A c \in Champion : champions[c].gold \in Nat
  /\ waves \in Nat /\ Gone \in Nat
  /\ Gold <= Reward * Gone

\* Nobody starts with gold.
LEMMA GoldInitially == Init => GoldInv
<1> SUFFICES ASSUME Init  PROVE GoldInv
  OBVIOUS
<1> DEFINE g == [c \in Champion |-> champions[c].gold]
<1>1. /\ \A c \in Champion : champions[c].gold = 0
      /\ \A c \in Champion : g[c] = IF c \in {} THEN 0 ELSE 0
      /\ waves = 0 /\ DOMAIN minions = {}
  BY DEF Init, NewChampion
<1>2. Gold = SumFunctionOnSet(g, Champion)
  BY DEF Gold
<1> HIDE DEF g
<1>3. SumFunctionOnSet(g, Champion) = Cardinality({}) * 0
  BY <1>1, NumbersAssumption, SumOfEqual
<1>4. Gold = 0 /\ Cardinality(DOMAIN minions) = 0
  BY <1>1, <1>2, <1>3, FS_EmptySet
<1>5. Gone = 0
  BY <1>1, <1>4, LaneIs DEF Gone
<1>6. Reward * 0 = 0
  BY NumbersAssumption
<1> QED  BY <1>1, <1>4, <1>5, <1>6 DEF GoldInv

\* Nothing is owed where neither gold nor the minions change.
LEMMA GoldStays ==
  ASSUME GoldInv, \A c \in Champion : champions'[c].gold = champions[c].gold,
         DOMAIN minions' = DOMAIN minions, waves' = waves
  PROVE  GoldInv'
<1>1. [c \in Champion |-> champions'[c].gold] = [c \in Champion |-> champions[c].gold]
  OBVIOUS
<1>2. Gold' = Gold
  BY <1>1 DEF Gold
<1>3. Gone' = Gone
  BY DEF Gone
<1> QED  BY <1>2, <1>3 DEF GoldInv

\* A wave makes no more minions than there are lanes.
LEMMA GoldOfWave ==
  ASSUME Records, GoldInv, MakeWave, waves' = waves + 1, UNCHANGED champions
  PROVE  GoldInv'
<1>1. PICK id \in [DOMAIN Lane -> MinionId] :
        DOMAIN minions' = DOMAIN minions \cup {id[i] : i \in DOMAIN Lane}
  BY WaveIs
<1>2. PICK drawn : drawn = {id[i] : i \in DOMAIN Lane}
  OBVIOUS
<1>3. PICK l \in Nat : l = Len(Lane) /\ DOMAIN Lane = 1..l
  BY LaneIs
<1>4. IsFiniteSet(drawn) /\ Cardinality(drawn) <= l
  <2>1. IsFiniteSet(1..l) /\ Cardinality(1..l) = l
    BY FS_Interval
  <2>2. id \in Surjection(1..l, drawn)
    BY <1>2, <1>3 DEF Surjection
  <2> QED  BY <2>1, <2>2, FS_Surjection
<1>5. PICK before : before = DOMAIN minions
  OBVIOUS
<1>6. IsFiniteSet(before) /\ DOMAIN minions' = before \cup drawn
  BY <1>1, <1>2, <1>5 DEF Records
<1>7. /\ Cardinality(before) \in Nat /\ Cardinality(drawn) \in Nat
      /\ Cardinality(before \cap drawn) \in Nat /\ Cardinality(before \cup drawn) \in Nat
  <2>1. IsFiniteSet(before \cap drawn) /\ IsFiniteSet(before \cup drawn)
    BY <1>4, <1>6, FS_Subset, FS_Union
  <2> QED  BY <1>4, <1>6, <2>1, FS_CardinalityType
<1>8. Cardinality(before \cup drawn) = Cardinality(before) + Cardinality(drawn) - Cardinality(before \cap drawn)
  BY <1>4, <1>6, FS_Union
<1>9. Cardinality(before \cup drawn) <= Cardinality(before) + l
  BY <1>4, <1>7, <1>8
<1>10. PICK n \in Nat, n2 \in Nat :
         /\ n = Cardinality(DOMAIN minions) /\ n2 = Cardinality(DOMAIN minions') /\ n2 <= n + l
  BY <1>5, <1>6, <1>7, <1>9
<1>11. PICK made \in Nat : made = waves * l /\ (waves + 1) * l = made + l
  <2>1. waves \in Nat
    BY DEF GoldInv
  <2> QED  BY <2>1
<1>12. Gone = made - n /\ Gone' = made + l - n2
  BY <1>3, <1>10, <1>11 DEF Gone
<1>13. Gone' \in Nat /\ Gone \in Nat /\ Gone <= Gone'
  BY <1>10, <1>12 DEF GoldInv
<1>14. Reward * Gone <= Reward * Gone' /\ Reward * Gone \in Nat /\ Reward * Gone' \in Nat
  BY <1>13, NumbersAssumption, TimesGrows
<1>15. Gold \in Nat /\ Gold' = Gold
  <2> DEFINE g == [c \in Champion |-> champions[c].gold]
  <2>1. \A c \in Champion : g[c] \in Nat
    BY DEF GoldInv
  <2>2. Gold = SumFunctionOnSet(g, Champion) /\ Gold' = Gold
    BY DEF Gold
  <2> HIDE DEF g
  <2> QED  BY <2>1, <2>2, NumbersAssumption, SumStep
<1>16. Gold' <= Reward * Gone'
  BY <1>14, <1>15 DEF GoldInv
<1> QED  BY <1>13, <1>16 DEF GoldInv

\* The effects of a tick pay for their dead.
LEMMA GoldIs ==
  ASSUME Records, GoldInv, NEW blows, NEW first, NEW last, ApplyEffects(blows, first, last)
  PROVE  \E dead \in SUBSET DOMAIN minions :
           /\ DOMAIN minions' = DOMAIN minions \ dead
           /\ \A c \in Champion : champions'[c].gold = champions[c].gold + Bounty(c, dead)
<1> DEFINE Hits(kind, id) == Cardinality({h \in blows : h[2] = <<kind, id>>})
           Left(m) == After(Healed(first, <<"minion", m>>, minions[m].health, MinionHealth), Hits("minion", m))
           dead == {m \in DOMAIN minions : Left(m) = 0}
           Struck(c) ==
             Hurt([champions[c] EXCEPT !.health = Healed(first, <<"champion", c>>, @, ChampionHealth)],
                  Hits("champion", c))
<1>1. DOMAIN minions' = DOMAIN minions \ dead
  BY DEF ApplyEffects, Survivors
<1>2. champions' = [c \in Champion |->
           [Struck(c) EXCEPT !.health = Healed(last, <<"champion", c>>, @, ChampionHealth),
                             !.gold = @ + Bounty(c, dead)]]
  BY DEF ApplyEffects
<1>3. ASSUME NEW c \in Champion
      PROVE  "gold" \in DOMAIN Struck(c) /\ Struck(c).gold = champions[c].gold
  <2>1. DOMAIN champions[c] = {"pos", "health", "dead", "gold"}
    BY DEF Records
  <2>2. PICK rec : rec = [champions[c] EXCEPT !.health = Healed(first, <<"champion", c>>, @, ChampionHealth)]
    OBVIOUS
  <2>3. DOMAIN rec = {"pos", "health", "dead", "gold"} /\ rec.gold = champions[c].gold
    BY <2>1, <2>2
  <2>4. PICK hits : hits = Hits("champion", c)
    OBVIOUS
  <2>5. Struck(c) = Hurt(rec, hits)
    BY <2>2, <2>4
  <2>6. DOMAIN Hurt(rec, hits) = DOMAIN rec /\ Hurt(rec, hits).gold = rec.gold
    BY <2>3, HurtIs
  <2> QED  BY <2>3, <2>5, <2>6
<1> HIDE DEF Hits, Left, dead, Struck
<1>4. ASSUME NEW c \in Champion  PROVE champions'[c].gold = champions[c].gold + Bounty(c, dead)
  <2>1. PICK h : h = Healed(last, <<"champion", c>>, Struck(c).health, ChampionHealth)
    OBVIOUS
  <2>2. PICK s : s = Struck(c)
    OBVIOUS
  <2>3. PICK b : b = Bounty(c, dead)
    OBVIOUS
  <2>4. champions'[c] = [s EXCEPT !.health = h, !.gold = @ + b]
    BY <1>2, <2>1, <2>2, <2>3
  <2> QED  BY <1>3, <2>2, <2>3, <2>4
<1>5. dead \in SUBSET DOMAIN minions
  BY DEF dead
<1> QED  BY <1>1, <1>4, <1>5

\* The bounties of a tick are covered by the minions that died in it.
LEMMA GoldOfEffects ==
  ASSUME Records, GoldInv, NEW blows, NEW first, NEW last, ApplyEffects(blows, first, last),
         waves' = waves
  PROVE  GoldInv'
<1>1. PICK dead \in SUBSET DOMAIN minions :
        /\ DOMAIN minions' = DOMAIN minions \ dead
        /\ \A c \in Champion : champions'[c].gold = champions[c].gold + Bounty(c, dead)
  BY GoldIs
<1>2. IsFiniteSet(dead) /\ IsFiniteSet(DOMAIN minions)
  BY <1>1, FS_Subset DEF Records
<1>3. PICK n \in Nat, d \in Nat :
        n = Cardinality(DOMAIN minions) /\ d = Cardinality(dead) /\ Cardinality(DOMAIN minions') = n - d
  <2>1. Cardinality(DOMAIN minions \ dead) = Cardinality(DOMAIN minions) - Cardinality(DOMAIN minions \cap dead)
    BY <1>2, FS_Difference
  <2>2. DOMAIN minions \cap dead = dead
    BY <1>1
  <2> QED  BY <1>1, <1>2, <2>1, <2>2, FS_CardinalityType
<1>4. PICK made \in Nat : made = waves * Len(Lane)
  BY LaneIs DEF GoldInv
<1>5. Gone = made - n /\ Gone' = made - (n - d) /\ Gone \in Nat
  BY <1>3, <1>4 DEF Gone, GoldInv
<1>6. PICK gone \in Nat : gone = Gone /\ Gone' = gone + d
  BY <1>3, <1>4, <1>5
<1>7. Reward * (gone + d) = Reward * gone + Reward * d /\ Reward * gone \in Nat /\ Reward * d \in Nat
  BY NumbersAssumption
<1> DEFINE g == [c \in Champion |-> champions[c].gold]
           p == [c \in Champion |-> Bounty(c, dead)]
           h == [c \in Champion |-> champions'[c].gold]
<1>8. \A c \in Champion : g[c] \in Nat /\ p[c] \in Nat /\ h[c] = g[c] + p[c]
  <2>1. \A c \in Champion : champions[c].gold \in Nat /\ Bounty(c, dead) \in Nat
    BY <1>2, BountyIs DEF GoldInv
  <2> QED  BY <1>1, <2>1
<1>9. /\ Gold = SumFunctionOnSet(g, Champion) /\ Gold' = SumFunctionOnSet(h, Champion)
      /\ BountiesOf(dead) = SumFunctionOnSet(p, Champion)
      /\ \A c \in Champion : h[c] = champions'[c].gold
  BY DEF Gold, BountiesOf
<1> HIDE DEF g, p, h
<1>10. Gold' = Gold + BountiesOf(dead)
  BY <1>8, <1>9, NumbersAssumption, SumPlus
<1>11. Gold \in Nat
  BY <1>8, <1>9, NumbersAssumption, SumStep
<1>12. BountiesOf(dead) \in Nat /\ BountiesOf(dead) <= Reward * d
  BY <1>2, <1>3, BountiesAre
<1>13. Gold <= Reward * gone
  BY <1>6 DEF GoldInv
<1>14. Gold' <= Reward * (gone + d)
  BY <1>7, <1>10, <1>11, <1>12, <1>13
<1>15. \A c \in Champion : champions'[c].gold \in Nat
  BY <1>8, <1>9
<1>16. Gone' \in Nat /\ waves' \in Nat /\ Gold' <= Reward * Gone'
  BY <1>6, <1>14 DEF GoldInv
<1> QED  BY <1>15, <1>16 DEF GoldInv

\* The gold of a champion that is replaced is gone.
LEMMA GoldOfRejoin ==
  ASSUME Records, GoldInv, NEW c \in Champion, Rejoin(c)
  PROVE  GoldInv'
<1>1. UNCHANGED <<minions, waves>> /\ Gone' = Gone
  BY DEF Rejoin, Gone
<1>2. \A d \in Champion : champions'[d].gold = IF d = c THEN 0 ELSE champions[d].gold
  BY DEF Records, Rejoin, NewChampion
<1> DEFINE g == [d \in Champion |-> champions[d].gold]
           h == [d \in Champion |-> champions'[d].gold]
           lost == [d \in Champion |-> IF d = c THEN champions[d].gold ELSE 0]
<1>3. \A d \in Champion : h[d] \in Nat /\ lost[d] \in Nat /\ g[d] = h[d] + lost[d]
  BY <1>2 DEF GoldInv
<1>4. Gold = SumFunctionOnSet(g, Champion) /\ Gold' = SumFunctionOnSet(h, Champion)
  BY DEF Gold
<1> HIDE DEF g, h, lost
<1>5. Gold = Gold' + SumFunctionOnSet(lost, Champion)
  BY <1>3, <1>4, NumbersAssumption, SumPlus
<1>6. Gold' \in Nat /\ SumFunctionOnSet(lost, Champion) \in Nat
  BY <1>3, <1>4, NumbersAssumption, SumStep
<1>7. Reward * Gone \in Nat
  BY NumbersAssumption DEF GoldInv
<1>8. Gold' <= Reward * Gone'
  BY <1>1, <1>5, <1>6, <1>7 DEF GoldInv
<1>9. \A d \in Champion : champions'[d].gold \in Nat
  BY <1>2 DEF GoldInv
<1> QED  BY <1>1, <1>8, <1>9 DEF GoldInv

\* In every step the gold stays covered by the minions that are gone.
LEMMA GoldStep ==
  ASSUME Records, GoldInv, [Next]_vars
  PROVE  GoldInv'
<1>1. /\ DOMAIN champions = Champion
      /\ \A c \in Champion : DOMAIN champions[c] = {"pos", "health", "dead", "gold"}
  BY DEF Records
<1>2. CASE UNCHANGED vars
  <2>1. UNCHANGED <<champions, minions, waves>>
    BY <1>2 DEF vars
  <2> QED  BY <2>1, GoldStays
<1>3. ASSUME NEW c \in Champion, ChampionTurn(c)  PROVE GoldInv'
  <2>1. UNCHANGED <<minions, waves>>
    BY <1>3 DEF ChampionTurn
  <2>2. \A d \in Champion : champions'[d].gold = champions[d].gold
    <3>1. CASE UNCHANGED champions
      BY <3>1
    <3>2. CASE \E x : champions' = [champions EXCEPT ![c].pos = x]
      BY <1>1, <3>2
    <3>3. CASE PlaceAtBase(c)
      BY <1>1, <3>3 DEF PlaceAtBase
    <3> QED  BY <1>3, <3>1, <3>2, <3>3 DEF ChampionTurn, Act, Stay, Walk
  <2> QED  BY <2>1, <2>2, GoldStays
<1>4. ASSUME NEW m \in MinionId, MinionTurn(m)  PROVE GoldInv'
  <2>1. UNCHANGED <<champions, waves>>
    BY <1>4 DEF MinionTurn
  <2>2. DOMAIN minions' = DOMAIN minions
    BY <1>4 DEF MinionTurn, StunnedTurn, Proceed, Advance, MoveMinion
  <2> QED  BY <2>1, <2>2, GoldStays
<1>5. CASE WaveTurn
  <2>1. UNCHANGED champions
    BY <1>5 DEF WaveTurn
  <2>2. CASE UNCHANGED <<minions, waves>>
    BY <2>1, <2>2, GoldStays
  <2>3. CASE waves' = waves + 1 /\ MakeWave
    BY <2>1, <2>3, GoldOfWave
  <2> QED  BY <1>5, <2>2, <2>3 DEF WaveTurn
<1>6. CASE Strike
  <2>1. waves' = waves /\ \E blows, first, last : ApplyEffects(blows, first, last)
    BY <1>6 DEF Strike
  <2> QED  BY <2>1, GoldOfEffects
<1>7. ASSUME NEW c \in Champion, Rejoin(c)  PROVE GoldInv'
  BY <1>7, GoldOfRejoin
<1> QED  BY <1>2, <1>3, <1>4, <1>5, <1>6, <1>7 DEF Next

-----------------------------------------------------------------------------
(* What is sent of the board                                               *)

\* Rows or columns around at: as many as asked for, on the board, with at among
\* them.
LEMMA WholeSpan ==
  ASSUME NEW size \in Nat, NEW view \in 1..size, view % 2 = 1, NEW at \in 0..size - 1
  PROVE  /\ Min(Span(at, size, view)) \in Nat
         /\ Span(at, size, view) = Min(Span(at, size, view))..(Min(Span(at, size, view)) + view - 1)
         /\ Cardinality(Span(at, size, view)) = view /\ at \in Span(at, size, view)
<1>1. PICK half \in Nat : half = view \div 2 /\ view = 2 * half + 1
  OBVIOUS
<1>2. PICK low : low = Max({0, at - half}) /\ low \in Nat /\ low = IF at > half THEN at - half ELSE 0
  BY <1>1, MaxOfTwo
<1>3. PICK high : /\ high = IF low = 0 THEN Min({view - 1, size - 1}) ELSE Min({at + half, size - 1})
                  /\ low = 0 => high = view - 1
                  /\ low # 0 => high = IF size - 1 < at + half THEN size - 1 ELSE at + half
  <2>1. Min({view - 1, size - 1}) = view - 1
    BY MinOfTwo
  <2>2. Min({at + half, size - 1}) = IF size - 1 < at + half THEN size - 1 ELSE at + half
    BY <1>1, MinOfTwo
  <2> QED  BY <2>1, <2>2
<1>4. PICK first : first = IF high = size - 1 THEN size - view ELSE low
  OBVIOUS
<1>5. Span(at, size, view) = first..high
  BY <1>1, <1>2, <1>3, <1>4 DEF Span
<1>6. first \in Nat /\ high = first + view - 1 /\ at \in first..high
  <2>1. CASE low = 0
    <3>1. high = view - 1
      BY <1>3, <2>1
    <3>3. at <= half
      <4>1. low = IF at > half THEN at - half ELSE 0
        BY <1>2
      <4> QED  BY <1>1, <2>1, <4>1
    <3>2. first = 0
      BY <1>4, <2>1, <3>1
    <3> QED  BY <1>1, <3>1, <3>2, <3>3
  <2>2. CASE low # 0 /\ size - 1 < at + half
    <3>1. high = size - 1 /\ first = size - view
      BY <1>3, <1>4, <2>2
    <3> QED  BY <1>1, <2>2, <3>1
  <2>3. CASE low # 0 /\ ~(size - 1 < at + half)
    <3>1. low = at - half /\ high = at + half /\ low \in Nat
      BY <1>1, <1>2, <1>3, <2>3
    <3>2. first = low
      BY <1>1, <1>4, <3>1
    <3> QED  BY <1>1, <3>1, <3>2
  <2> QED  BY <2>1, <2>2, <2>3
<1>7. Cardinality(first..high) = view
  BY <1>6, FS_Interval
<1>8. Min(first..high) = first
  <2>1. first \in first..high /\ \A y \in first..high : first <= y
    BY <1>6
  <2>2. Min(first..high) \in first..high /\ \A y \in first..high : Min(first..high) <= y
    BY <2>1 DEF Min
  <2> QED  BY <1>6, <2>1, <2>2
<1> QED  BY <1>5, <1>6, <1>7, <1>8

\* A cell's row and column are found again from its number in the window.
LEMMA RowAndColumn ==
  ASSUME NEW width \in Nat \ {0}, NEW r \in Nat, NEW c \in 0..width - 1
  PROVE  (r * width + c) \div width = r /\ (r * width + c) % width = c
<1>1. PICK n \in Nat : n = r * width + c
  OBVIOUS
<1>2. PICK q \in Nat, m \in 0..width - 1 : q = n \div width /\ m = n % width /\ n = q * width + m
  OBVIOUS
<1>3. ASSUME q < r PROVE FALSE
  <2>1. PICK d \in Nat : r = q + 1 + d
    BY <1>3
  <2>2. r * width = q * width + width + d * width
    BY <2>1
  <2>3. d * width >= 0 /\ q * width \in Nat /\ r * width \in Nat /\ d * width \in Nat
    OBVIOUS
  <2> QED  BY <1>1, <1>2, <2>2, <2>3
<1>4. ASSUME r < q PROVE FALSE
  <2>1. PICK d \in Nat : q = r + 1 + d
    BY <1>4
  <2>2. q * width = r * width + width + d * width
    BY <2>1
  <2>3. d * width >= 0 /\ q * width \in Nat /\ r * width \in Nat /\ d * width \in Nat
    OBVIOUS
  <2> QED  BY <1>1, <1>2, <2>2, <2>3
<1>5. q = r
  BY <1>3, <1>4
<1> QED  BY <1>1, <1>2, <1>5

\* Every cell of the window has its place in the list of cells.
LEMMA WindowIs ==
  ASSUME NEW x \in Cell
  PROVE  LET low == <<Min(Span(x[1], Rows, View[1])), Min(Span(x[2], Cols, View[2]))>>
             Place(y) == (y[1] - low[1]) * View[2] + y[2] - low[2] + 1
         IN  /\ Len(Flattened(x)) = View[1] * View[2] /\ View[1] * View[2] \in Nat
             /\ DOMAIN Flattened(x) = 1..View[1] * View[2]
             /\ x \in CenterView(x, View)
             /\ \A y \in CenterView(x, View) :
                  Place(y) \in 1..View[1] * View[2] /\ Flattened(x)[Place(y)] = y
<1> DEFINE rows == Span(x[1], Rows, View[1])
           cols == Span(x[2], Cols, View[2])
           top  == Min(rows)
           left == Min(cols)
<1>1. /\ Rows \in Nat /\ Cols \in Nat /\ x = <<x[1], x[2]>> /\ x[1] \in 0..Rows - 1 /\ x[2] \in 0..Cols - 1
      /\ View[1] \in 1..Rows /\ View[2] \in 1..Cols /\ View[1] % 2 = 1 /\ View[2] % 2 = 1
  <2>1. Rows \in Nat /\ Cols \in Nat
    BY SizeAssumption
  <2>2. x \in (0..Rows - 1) \X (0..Cols - 1)
    BY DEF Cell
  <2>3. View \in (1..Rows) \X (1..Cols)
    BY ViewAssumption
  <2>4. View[1] % 2 \in {1} /\ View[2] % 2 \in {1}
    <3>1. View[1] % 2 \in {View[1] % 2, View[2] % 2} /\ View[2] % 2 \in {View[1] % 2, View[2] % 2}
      OBVIOUS
    <3> QED  BY <3>1, ViewAssumption, Zenon
  <2> QED  BY <2>1, <2>2, <2>3, <2>4
<1>2. /\ top \in Nat /\ rows = top..(top + View[1] - 1) /\ Cardinality(rows) = View[1] /\ x[1] \in rows
      /\ left \in Nat /\ cols = left..(left + View[2] - 1) /\ Cardinality(cols) = View[2] /\ x[2] \in cols
  BY <1>1, WholeSpan
<1>3. Flattened(x) = [i \in 1..View[1] * View[2] |->
                        <<top + ((i - 1) \div View[2]), left + ((i - 1) % View[2])>>]
  BY <1>2 DEF Flattened
<1>4. CenterView(x, View) = rows \X cols
  BY DEF CenterView
<1> HIDE DEF rows, cols, top, left
<1>5. PICK H \in Nat, W \in Nat \ {0} : H = View[1] /\ W = View[2]
  BY <1>1
<1>6. H * W \in Nat
  BY <1>5
<1>7. ASSUME NEW y \in rows \X cols
      PROVE  /\ (y[1] - top) * W + y[2] - left + 1 \in 1..H * W
             /\ Flattened(x)[(y[1] - top) * W + y[2] - left + 1] = y
  <2>1. PICK r \in 0..H - 1, c \in 0..W - 1 : y[1] = top + r /\ y[2] = left + c /\ y = <<y[1], y[2]>>
    <3>1. y[1] \in rows /\ y[2] \in cols /\ y = <<y[1], y[2]>>
      OBVIOUS
    <3>2. PICK a \in Nat, b \in Nat : a = y[1] /\ b = y[2] /\ a \in top..(top + H - 1) /\ b \in left..(left + W - 1)
      BY <1>2, <1>5, <3>1
    <3>3. a - top \in 0..H - 1 /\ b - left \in 0..W - 1 /\ a = top + (a - top) /\ b = left + (b - left)
      <4>1. top \in Nat /\ left \in Nat /\ H \in Nat /\ W \in Nat
        BY <1>2, <1>5
      <4> QED  BY <3>2, <4>1
    <3> QED  BY <3>1, <3>2, <3>3
  <2>2. y[1] - top = r /\ y[2] - left = c
    BY <1>2, <1>5, <2>1
  <2>3. PICK i : i = r * W + c + 1 /\ i \in Nat
    BY <1>5, <2>1
  <2>4. r * W \in Nat
    BY <1>5, <2>1
  <2>5. (y[1] - top) * W + y[2] - left + 1 = i
    BY <1>2, <1>5, <2>1, <2>2, <2>3, <2>4
  <2>6. i \in 1..H * W
    <3>1. PICK d \in Nat : H = r + 1 + d
      BY <1>5, <2>1
    <3>2. H * W = r * W + W + d * W /\ d * W \in Nat
      BY <1>5, <2>1, <3>1
    <3> QED  BY <1>5, <1>6, <2>1, <2>3, <2>4, <3>2
  <2>7. (i - 1) \div W = r /\ (i - 1) % W = c
    <3>1. i - 1 = r * W + c
      BY <2>1, <2>3, <2>4
    <3>2. r \in Nat /\ c \in 0..W - 1 /\ W \in Nat \ {0}
      BY <1>5, <2>1
    <3>3. (r * W + c) \div W = r /\ (r * W + c) % W = c
      BY <3>2, RowAndColumn
    <3> QED  BY <3>1, <3>3
  <2>8. Flattened(x)[i] = <<top + r, left + c>>
    BY <1>3, <1>5, <2>6, <2>7
  <2> QED  BY <2>1, <2>5, <2>6, <2>8
<1>8. x \in rows \X cols
  BY <1>1, <1>2
<1>9. Len(Flattened(x)) = H * W /\ DOMAIN Flattened(x) = 1..H * W
  BY <1>3, <1>5, <1>6
<1> QED  BY <1>4, <1>5, <1>6, <1>7, <1>8, <1>9 DEF rows, cols, top, left

-----------------------------------------------------------------------------
(* The codec of the board                                                  *)

\* One turn of the encoder's loop, from what it had before.
Turn(before, values, i) ==
  IF i = 1 THEN [rle |-> <<>>, count |-> 1]
  ELSE IF values[i] = values[i - 1] THEN [before EXCEPT !.count = @ + 1]
  ELSE [rle |-> Append(before.rle, <<values[i - 1], before.count>>), count |-> 1]

Loops(f, values, n) == f = [i \in 1..n |-> Turn(f[i - 1], values, i)]

\* The loop of the encoder has a result for any number of cells.
LEMMA LoopsExist ==
  ASSUME NEW values, NEW N \in Nat
  PROVE  \E f : Loops(f, values, N)
<1> DEFINE Bad == {n \in Nat : ~\E f : Loops(f, values, n)}
<1>1. ASSUME Bad # {} PROVE FALSE
  <2>1. PICK n \in Bad : \A k \in Bad : n <= k
    BY <1>1, LeastNumber
  <2>2. n \in Nat /\ ~\E f : Loops(f, values, n)
    BY <2>1
  <2>3. CASE n = 0
    <3> DEFINE g == [k \in 1..0 |-> 0]
    <3>1. g = [i \in 1..0 |-> Turn(g[i - 1], values, i)]
      OBVIOUS
    <3> QED  BY <2>2, <2>3, <3>1 DEF Loops
  <2>4. CASE n # 0
    <3>1. n - 1 \in Nat /\ n - 1 \notin Bad
      <4> HIDE DEF Bad
      <4> QED  BY <2>1, <2>2, <2>4
    <3>2. PICK f : Loops(f, values, n - 1)
      BY <3>1
    <3> DEFINE g == [i \in 1..n |-> Turn(f[i - 1], values, i)]
    <3>3. ASSUME NEW i \in 1..(n - 1) PROVE g[i] = f[i]
      BY <2>2, <3>2 DEF Loops
    <3>4. ASSUME NEW i \in 1..n PROVE g[i] = Turn(g[i - 1], values, i)
      <4>1. CASE i = 1
        BY <4>1 DEF Turn
      <4>2. CASE i # 1
        <5>1. i - 1 \in 1..(n - 1)
          BY <2>2, <4>2
        <5>2. g[i - 1] = f[i - 1]
          BY <3>3, <5>1
        <5> QED  BY <5>2
      <4> QED  BY <4>1, <4>2
    <3>5. g = [i \in 1..n |-> g[i]]
      OBVIOUS
    <3> HIDE DEF g
    <3>6. g = [i \in 1..n |-> Turn(g[i - 1], values, i)]
      BY <3>4, <3>5
    <3> QED  BY <2>2, <3>6 DEF Loops
  <2> QED  BY <2>3, <2>4
<1> QED  BY <1>1

\* What the encoder has after each cell.
LEMMA RunsAre ==
  ASSUME NEW S, NEW values \in Seq(S), NEW i \in 1..Len(values)
  PROVE  Runs(values)[i] = Turn(Runs(values)[i - 1], values, i)
<1> DEFINE g == CHOOSE f : Loops(f, values, Len(values))
<1>1. Len(values) \in Nat
  OBVIOUS
<1>2. Loops(g, values, Len(values))
  BY <1>1, LoopsExist
<1>3. Runs(values) = g
  BY DEF Runs, Loops, Turn
<1> HIDE DEF g
<1> QED  BY <1>2, <1>3 DEF Loops

Repeat(run) == [i \in 1..run[2] |-> run[1]]

Decodes(f, runs, n) == f = [k \in 0..n |-> IF k = 0 THEN <<>> ELSE f[k - 1] \o Repeat(runs[k])]

\* So has the loop of the decoder for any number of runs.
LEMMA DecodesExist ==
  ASSUME NEW runs, NEW N \in Nat
  PROVE  \E f : Decodes(f, runs, N)
<1> DEFINE Bad == {n \in Nat : ~\E f : Decodes(f, runs, n)}
<1>1. ASSUME Bad # {} PROVE FALSE
  <2>1. PICK n \in Bad : \A k \in Bad : n <= k
    BY <1>1, LeastNumber
  <2>2. n \in Nat /\ ~\E f : Decodes(f, runs, n)
    BY <2>1
  <2>3. CASE n = 0
    <3> DEFINE g == [k \in 0..0 |-> <<>>]
    <3>1. g = [k \in 0..0 |-> IF k = 0 THEN <<>> ELSE g[k - 1] \o Repeat(runs[k])]
      OBVIOUS
    <3> QED  BY <2>2, <2>3, <3>1 DEF Decodes
  <2>4. CASE n # 0
    <3>1. n - 1 \in Nat /\ n - 1 \notin Bad
      <4> HIDE DEF Bad
      <4> QED  BY <2>1, <2>2, <2>4
    <3>2. PICK f : Decodes(f, runs, n - 1)
      BY <3>1
    <3> DEFINE g == [k \in 0..n |-> IF k = 0 THEN <<>> ELSE f[k - 1] \o Repeat(runs[k])]
    <3>3. ASSUME NEW k \in 0..(n - 1) PROVE g[k] = f[k]
      BY <2>2, <3>2 DEF Decodes
    <3>4. ASSUME NEW k \in 0..n PROVE g[k] = IF k = 0 THEN <<>> ELSE g[k - 1] \o Repeat(runs[k])
      <4>1. CASE k = 0
        BY <4>1
      <4>2. CASE k # 0
        <5>1. k - 1 \in 0..(n - 1)
          BY <2>2, <4>2
        <5>2. g[k - 1] = f[k - 1]
          BY <3>3, <5>1
        <5> QED  BY <4>2, <5>2
      <4> QED  BY <4>1, <4>2
    <3>5. g = [k \in 0..n |-> g[k]]
      OBVIOUS
    <3> HIDE DEF g
    <3>6. g = [k \in 0..n |-> IF k = 0 THEN <<>> ELSE g[k - 1] \o Repeat(runs[k])]
      BY <3>4, <3>5
    <3> QED  BY <2>2, <3>6 DEF Decodes
  <2> QED  BY <2>3, <2>4
<1> QED  BY <1>1

\* What the decoder has after each run.
LEMMA DecodedIs ==
  ASSUME NEW T, NEW runs \in Seq(T)
  PROVE  /\ Decoded(runs)[0] = <<>>
         /\ \A k \in 1..Len(runs) : Decoded(runs)[k] = Decoded(runs)[k - 1] \o Repeat(runs[k])
<1> DEFINE g == CHOOSE f : Decodes(f, runs, Len(runs))
<1>1. Len(runs) \in Nat
  OBVIOUS
<1>2. Decodes(g, runs, Len(runs))
  BY <1>1, DecodesExist
<1>3. Decoded(runs) = g
  BY DEF Decoded, Decodes, Repeat
<1> HIDE DEF g
<1>4. \A k \in 0..Len(runs) : g[k] = IF k = 0 THEN <<>> ELSE g[k - 1] \o Repeat(runs[k])
  BY <1>2 DEF Decodes
<1>5. g[0] = <<>>
  <2>1. 0 \in 0..Len(runs)
    BY <1>1
  <2> QED  BY <1>4, <2>1
<1>6. ASSUME NEW k \in 1..Len(runs) PROVE g[k] = g[k - 1] \o Repeat(runs[k])
  <2>1. k \in 0..Len(runs) /\ k # 0
    BY <1>1
  <2> QED  BY <1>4, <2>1
<1> QED  BY <1>3, <1>5, <1>6

\* A run is repeated as often as it says.
LEMMA RepeatIs ==
  ASSUME NEW S, NEW run \in S \X Nat
  PROVE  /\ Repeat(run) \in Seq(S) /\ Len(Repeat(run)) = run[2]
         /\ \A i \in 1..run[2] : Repeat(run)[i] = run[1]
<1>1. run[1] \in S /\ run[2] \in Nat
  OBVIOUS
<1>2. Repeat(run) \in [1..run[2] -> S]
  BY <1>1 DEF Repeat
<1> QED  BY <1>1, <1>2, SeqDef DEF Repeat

\* What runs of values decode to are values.
LEMMA DecodedValues ==
  ASSUME NEW S, NEW T, \A t \in T : Repeat(t) \in Seq(S), NEW runs \in Seq(T), NEW k \in 0..Len(runs)
  PROVE  Decoded(runs)[k] \in Seq(S)
<1> DEFINE Bad == {n \in 0..Len(runs) : Decoded(runs)[n] \notin Seq(S)}
<1>1. Len(runs) \in Nat /\ \A n \in 1..Len(runs) : runs[n] \in T
  OBVIOUS
<1>2. /\ Decoded(runs)[0] = <<>>
      /\ \A n \in 1..Len(runs) : Decoded(runs)[n] = Decoded(runs)[n - 1] \o Repeat(runs[n])
  BY DecodedIs
<1>3. ASSUME Bad # {} PROVE FALSE
  <2>1. PICK n \in Bad : \A j \in Bad : n <= j
    <3>1. Bad \in SUBSET Nat
      OBVIOUS
    <3> HIDE DEF Bad
    <3> QED  BY <1>3, <3>1, LeastNumber
  <2>2. n \in 0..Len(runs) /\ Decoded(runs)[n] \notin Seq(S)
    BY <2>1
  <2>3. n # 0
    <3>1. <<>> \in Seq(S)
      OBVIOUS
    <3> QED  BY <1>2, <2>2, <3>1
  <2>4. n - 1 \in 0..Len(runs) /\ n \in 1..Len(runs)
    BY <1>1, <2>2, <2>3
  <2>5. Decoded(runs)[n - 1] \in Seq(S)
    <3>1. n - 1 \notin Bad
      <4> HIDE DEF Bad
      <4> QED  BY <1>1, <2>1, <2>4
    <3> QED  BY <2>4, <3>1
  <2>6. Repeat(runs[n]) \in Seq(S)
    BY <1>1, <2>4
  <2>7. Decoded(runs)[n] = Decoded(runs)[n - 1] \o Repeat(runs[n])
    BY <1>2, <2>4
  <2>9. Decoded(runs)[n - 1] \o Repeat(runs[n]) \in Seq(S)
    BY <2>5, <2>6, ConcatProperties
  <2> QED  BY <2>2, <2>7, <2>9
<1> QED  BY <1>3

\* The first runs decode to the same values when others follow.
LEMMA DecodedAlike ==
  ASSUME NEW T, NEW runs \in Seq(T), NEW more \in Seq(T),
         Len(more) = Len(runs) + 1, \A n \in 1..Len(runs) : more[n] = runs[n]
  PROVE  Decoded(more)[Len(runs)] = Decoded(runs)[Len(runs)]
<1> DEFINE Bad == {n \in 0..Len(runs) : Decoded(more)[n] # Decoded(runs)[n]}
<1>1. Len(runs) \in Nat
  OBVIOUS
<1>2. /\ Decoded(runs)[0] = <<>> /\ Decoded(more)[0] = <<>>
      /\ \A n \in 1..Len(runs) : Decoded(runs)[n] = Decoded(runs)[n - 1] \o Repeat(runs[n])
      /\ \A n \in 1..Len(runs) + 1 : Decoded(more)[n] = Decoded(more)[n - 1] \o Repeat(more[n])
  BY <1>1, DecodedIs
<1>3. ASSUME Bad # {} PROVE FALSE
  <2>1. PICK n \in Bad : \A j \in Bad : n <= j
    <3>1. Bad \in SUBSET Nat
      OBVIOUS
    <3> HIDE DEF Bad
    <3> QED  BY <1>3, <3>1, LeastNumber
  <2>2. n \in 0..Len(runs) /\ Decoded(more)[n] # Decoded(runs)[n]
    BY <2>1
  <2>3. n # 0
    BY <1>2, <2>2
  <2>4. n - 1 \in 0..Len(runs) /\ n \in 1..Len(runs) /\ n \in 1..Len(runs) + 1
    BY <1>1, <2>2, <2>3
  <2>5. Decoded(more)[n - 1] = Decoded(runs)[n - 1]
    <3>1. n - 1 \notin Bad
      <4> HIDE DEF Bad
      <4> QED  BY <1>1, <2>1, <2>4
    <3> QED  BY <2>4, <3>1
  <2>7. Decoded(runs)[n] = Decoded(runs)[n - 1] \o Repeat(runs[n])
    BY <1>2, <2>4
  <2>8. Decoded(more)[n] = Decoded(more)[n - 1] \o Repeat(more[n])
    BY <1>2, <2>4
  <2>9. more[n] = runs[n]
    BY <2>4
  <2> QED  BY <2>2, <2>5, <2>7, <2>8, <2>9
<1>4. Len(runs) \in 0..Len(runs) /\ Len(runs) \notin Bad
  BY <1>1, <1>3
<1> QED  BY <1>4

\* The sequence more is s followed by the values of run.
Longer(S, s, more, run) ==
  /\ s \in Seq(S) /\ more \in Seq(S) /\ Len(s) \in Nat /\ Len(more) = Len(s) + run[2]
  /\ \A j \in 1..Len(s) : more[j] = s[j]
  /\ \A j \in 1..run[2] : more[Len(s) + j] = run[1]

\* One more run adds its values to what is decoded.
LEMMA OneMoreRun ==
  ASSUME NEW S, NEW runs \in Seq(S \X Nat), NEW run \in S \X Nat, NEW more, more = Append(runs, run)
  PROVE  Longer(S, DecodeRLE(runs), DecodeRLE(more), run)
<1>1. more = Append(runs, run)
  OBVIOUS
<1>2. PICK n : n = Len(runs) + 1
  OBVIOUS
<1>3. /\ more \in Seq(S \X Nat) /\ Len(runs) \in Nat /\ Len(more) = n
      /\ more[n] = run /\ n - 1 = Len(runs) /\ n \in 1..n /\ Len(runs) \in 0..Len(runs)
  BY <1>1, <1>2
<1>4. Decoded(more)[n] = Decoded(more)[Len(runs)] \o Repeat(run)
  <2>1. \A k \in 1..Len(more) : Decoded(more)[k] = Decoded(more)[k - 1] \o Repeat(more[k])
    BY <1>3, DecodedIs
  <2>2. Decoded(more)[n] = Decoded(more)[n - 1] \o Repeat(more[n])
    BY <1>3, <2>1
  <2> QED  BY <1>3, <2>2
<1>5. Decoded(runs)[Len(runs)] \in Seq(S) /\ Decoded(more)[Len(runs)] = Decoded(runs)[Len(runs)]
  <2>1. \A k \in 1..Len(runs) : more[k] = runs[k]
    BY <1>1
  <2>2. PICK T : T = S \X Nat
    OBVIOUS
  <2>3. \A t \in T : Repeat(t) \in Seq(S)
    BY <2>2, RepeatIs
  <2>4. runs \in Seq(T) /\ more \in Seq(T) /\ Len(more) = Len(runs) + 1
    BY <1>2, <1>3, <2>2
  <2>5. Decoded(runs)[Len(runs)] \in Seq(S)
    BY <1>3, <2>3, <2>4, DecodedValues
  <2>6. Decoded(more)[Len(runs)] = Decoded(runs)[Len(runs)]
    BY <2>1, <2>4, DecodedAlike
  <2> QED  BY <2>5, <2>6
<1>6. PICK d \in Seq(S) : d = DecodeRLE(runs)
  BY <1>5 DEF DecodeRLE
<1>7. Decoded(more)[Len(runs)] = d
  BY <1>5, <1>6 DEF DecodeRLE
<1>8. DecodeRLE(more) = d \o Repeat(run)
  BY <1>3, <1>4, <1>7 DEF DecodeRLE
<1>9. PICK r \in Seq(S) : r = Repeat(run) /\ Len(r) = run[2] /\ \A i \in 1..run[2] : r[i] = run[1]
  BY RepeatIs
<1>10. /\ d \o r \in Seq(S) /\ Len(d \o r) = Len(d) + Len(r) /\ Len(d) \in Nat /\ Len(r) \in Nat
       /\ \A j \in 1..Len(d) : (d \o r)[j] = d[j]
       /\ \A j \in 1..Len(r) : (d \o r)[Len(d) + j] = r[j]
  OBVIOUS
<1> QED  BY <1>1, <1>6, <1>8, <1>9, <1>10 DEF Longer

\* What the encoder has after i cells: the complete runs are those of the cells before
\* the run it is in, whose cells are all alike.
HasEncoded(S, values, i, loop) ==
  /\ loop = [rle |-> loop.rle, count |-> loop.count]
  /\ loop.rle \in Seq(S \X Nat) /\ loop.count \in 1..i
  /\ Len(DecodeRLE(loop.rle)) = i - loop.count
  /\ \A j \in 1..i - loop.count : DecodeRLE(loop.rle)[j] = values[j]
  /\ \A j \in i - loop.count + 1..i : values[j] = values[i]

\* No runs decode to nothing.
LEMMA NoRuns == DecodeRLE(<<>>) = <<>>
<1>1. <<>> \in Seq({}) /\ Len(<<>>) = 0
  OBVIOUS
<1> QED  BY <1>1, DecodedIs DEF DecodeRLE

\* The runs of the encoder when its run of the i-th cell ends.
Ended(loop, values, i) == Append(loop.rle, <<values[i], loop.count>>)

\* The runs stand for the first n values.
StandFor(S, runs, values, n) ==
  /\ runs \in Seq(S \X Nat) /\ DecodeRLE(runs) \in Seq(S) /\ Len(DecodeRLE(runs)) = n
  /\ \A j \in 1..n : DecodeRLE(runs)[j] = values[j]

\* The run of the encoder becomes one of the runs of its list.
LEMMA RunEnds ==
  ASSUME NEW S, NEW values \in Seq(S), NEW i \in 1..Len(values), NEW loop, HasEncoded(S, values, i, loop),
         NEW runs, runs = Ended(loop, values, i)
  PROVE  StandFor(S, runs, values, i)
<1>1. PICK rle \in Seq(S \X Nat), count \in 1..i : rle = loop.rle /\ count = loop.count
  BY DEF HasEncoded
<1>2. PICK run \in S \X Nat : run = <<values[i], count>> /\ run[1] = values[i] /\ run[2] = count
  <2>1. values[i] \in S /\ count \in Nat
    OBVIOUS
  <2>2. /\ <<values[i], count>> \in S \X Nat
        /\ <<values[i], count>>[1] = values[i] /\ <<values[i], count>>[2] = count
    BY <2>1
  <2> QED  BY <2>2
<1>3. /\ Len(DecodeRLE(rle)) = i - count
      /\ \A j \in 1..i - count : DecodeRLE(rle)[j] = values[j]
      /\ \A j \in i - count + 1..i : values[j] = values[i]
  BY <1>1 DEF HasEncoded
<1>4. runs = Append(rle, run)
  BY <1>1, <1>2 DEF Ended
<1>5. /\ DecodeRLE(runs) \in Seq(S) /\ Len(DecodeRLE(runs)) = Len(DecodeRLE(rle)) + run[2]
      /\ \A j \in 1..Len(DecodeRLE(rle)) : DecodeRLE(runs)[j] = DecodeRLE(rle)[j]
      /\ \A j \in 1..run[2] : DecodeRLE(runs)[Len(DecodeRLE(rle)) + j] = run[1]
  <2>1. Longer(S, DecodeRLE(rle), DecodeRLE(runs), run)
    BY <1>4, OneMoreRun
  <2> QED  BY <2>1 DEF Longer
<1>6. runs \in Seq(S \X Nat)
  BY <1>4
<1>7. Len(DecodeRLE(runs)) = i
  BY <1>2, <1>3, <1>5
<1>8. ASSUME NEW j \in 1..i PROVE DecodeRLE(runs)[j] = values[j]
  <2>1. CASE j \in 1..i - count
    BY <1>3, <1>5, <2>1
  <2>2. CASE j \notin 1..i - count
    <3>1. PICK m \in 1..count : j = i - count + m
      <4>1. j - (i - count) \in 1..count /\ j = i - count + (j - (i - count))
        BY <2>2
      <4> QED  BY <4>1
    <3>2. DecodeRLE(runs)[i - count + m] = run[1]
      BY <1>2, <1>3, <1>5
    <3>3. j \in i - count + 1..i
      BY <3>1
    <3> QED  BY <1>2, <1>3, <3>1, <3>2, <3>3
  <2> QED  BY <2>1, <2>2
<1> QED  BY <1>5, <1>6, <1>7, <1>8 DEF StandFor

\* Whatever it is given, the encoder has encoded the cells it has seen.
LEMMA EncoderLoop ==
  ASSUME NEW S, NEW values \in Seq(S), NEW k \in 1..Len(values)
  PROVE  HasEncoded(S, values, k, Runs(values)[k])
<1> DEFINE Bad == {n \in 1..Len(values) : ~HasEncoded(S, values, n, Runs(values)[n])}
<1>1. Len(values) \in Nat
  OBVIOUS
<1>2. ASSUME Bad # {} PROVE FALSE
  <2>1. PICK i \in Bad : \A j \in Bad : i <= j
    <3>1. Bad \in SUBSET Nat
      OBVIOUS
    <3> HIDE DEF Bad
    <3> QED  BY <1>2, <3>1, LeastNumber
  <2>2. i \in 1..Len(values) /\ ~HasEncoded(S, values, i, Runs(values)[i])
    BY <2>1
  <2>3. PICK loop : loop = Runs(values)[i] /\ loop = Turn(Runs(values)[i - 1], values, i)
    BY <2>2, RunsAre
  <2>4. CASE i = 1
    <3>1. loop = [rle |-> <<>>, count |-> 1] /\ loop.rle = <<>> /\ loop.count = 1
      BY <2>3, <2>4 DEF Turn
    <3>2. loop.rle \in Seq(S \X Nat) /\ Len(DecodeRLE(loop.rle)) = 0
      BY <3>1, NoRuns
    <3>3. HasEncoded(S, values, i, loop)
      BY <2>4, <3>1, <3>2 DEF HasEncoded
    <3> QED  BY <2>2, <2>3, <3>3
  <2>5. CASE i # 1
    <3>1. i - 1 \in 1..Len(values) /\ i \in Nat
      BY <1>1, <2>2, <2>5
    <3>2. PICK before : before = Runs(values)[i - 1] /\ HasEncoded(S, values, i - 1, before)
      <4>1. i - 1 \notin Bad
        <5> HIDE DEF Bad
        <5> QED  BY <1>1, <2>1, <3>1
      <4> QED  BY <3>1, <4>1
    <3>3. PICK rle \in Seq(S \X Nat), count \in 1..i - 1 : before = [rle |-> rle, count |-> count]
      BY <3>2 DEF HasEncoded
    <3>4. /\ before.rle = rle /\ before.count = count
          /\ Len(DecodeRLE(rle)) = i - 1 - count
          /\ \A j \in 1..i - 1 - count : DecodeRLE(rle)[j] = values[j]
          /\ \A j \in i - 1 - count + 1..i - 1 : values[j] = values[i - 1]
      BY <3>2, <3>3 DEF HasEncoded
    <3>5. CASE values[i] = values[i - 1]
      <4>1. loop = [rle |-> rle, count |-> count + 1] /\ loop.rle = rle /\ loop.count = count + 1
        BY <2>3, <2>5, <3>2, <3>3, <3>5 DEF Turn
      <4>2. count + 1 \in 1..i /\ i - (count + 1) = i - 1 - count
        BY <3>1
      <4>3. ASSUME NEW j \in i - (count + 1) + 1..i PROVE values[j] = values[i]
        <5>1. j = i \/ j \in i - 1 - count + 1..i - 1
          BY <3>1
        <5> QED  BY <3>4, <3>5, <5>1
      <4>4. HasEncoded(S, values, i, loop)
        BY <3>4, <4>1, <4>2, <4>3 DEF HasEncoded
      <4> QED  BY <2>2, <2>3, <4>4
    <3>6. CASE values[i] # values[i - 1]
      <4>1. PICK runs : runs = Ended(before, values, i - 1)
        OBVIOUS
      <4>2. loop = [rle |-> runs, count |-> 1] /\ loop.rle = runs /\ loop.count = 1
        BY <2>3, <2>5, <3>2, <3>4, <3>6, <4>1 DEF Turn, Ended
      <4>3. /\ runs \in Seq(S \X Nat) /\ Len(DecodeRLE(runs)) = i - 1
            /\ \A j \in 1..i - 1 : DecodeRLE(runs)[j] = values[j]
        <5>1. StandFor(S, runs, values, i - 1)
          BY <3>1, <3>2, <4>1, RunEnds
        <5> QED  BY <5>1 DEF StandFor
      <4>4. ASSUME NEW j \in i - 1 + 1..i PROVE values[j] = values[i]
        BY <3>1
      <4>5. 1 \in 1..i
        BY <3>1
      <4>6. HasEncoded(S, values, i, loop)
        BY <4>2, <4>3, <4>4, <4>5 DEF HasEncoded
      <4> QED  BY <2>2, <2>3, <4>6
    <3> QED  BY <3>5, <3>6
  <2> QED  BY <2>4, <2>5
<1> QED  BY <1>2

\* What the client decodes is what the server encoded, whatever that was.
LEMMA RoundTrip ==
  ASSUME NEW S, NEW values \in Seq(S)
  PROVE  DecodeRLE(RunLengthEncode(values)) = values
<1>1. CASE values = <<>>
  BY <1>1, NoRuns DEF RunLengthEncode
<1>2. CASE values # <<>>
  <2>1. PICK n : n = Len(values) /\ n \in 1..Len(values) /\ n \in Nat
    BY <1>2, EmptySeq
  <2>2. PICK loop : loop = Runs(values)[n] /\ HasEncoded(S, values, n, loop)
    BY <2>1, EncoderLoop
  <2>3. PICK runs : runs = Ended(loop, values, n)
    OBVIOUS
  <2>4. RunLengthEncode(values) = runs
    BY <1>2, <2>1, <2>2, <2>3 DEF RunLengthEncode, Last, Ended
  <2>5. /\ DecodeRLE(runs) \in Seq(S) /\ Len(DecodeRLE(runs)) = n
        /\ \A j \in 1..n : DecodeRLE(runs)[j] = values[j]
    <3>1. StandFor(S, runs, values, n)
      BY <2>1, <2>2, <2>3, RunEnds
    <3> QED  BY <3>1 DEF StandFor
  <2>6. DecodeRLE(runs) = values
    BY <2>1, <2>5, SeqEqual
  <2> QED  BY <2>4, <2>6
<1> QED  BY <1>1, <1>2

-----------------------------------------------------------------------------
(* What a client sees                                                      *)

\* What a cell shows is nobody or one of the units there may be.
ContentInv == \A x \in Cell : board[x] = Nobody \/ board[x] \in Unit

\* Nothing but units is placed on the map.
LEMMA ContentInitially == Init => ContentInv
<1> SUFFICES ASSUME Init, NEW x \in Cell  PROVE board[x] = Nobody \/ board[x] \in Unit
  BY DEF ContentInv
<1>1. board[x] = IF Here(x) = {} THEN Nobody ELSE CHOOSE u \in Here(x) : TRUE
  BY DEF Init, Here
<1>2. Here(x) \subseteq Unit
  BY DEF Here, Unit
<1> QED  BY <1>1, <1>2

\* Whoever goes takes along what is on the own cell.
LEMMA ContentCarried ==
  ASSUME ContentInv, DOMAIN board = Cell, NEW a \in Cell, NEW b \in Cell, NEW u, Carry(u, a, b)
  PROVE  ContentInv'
<1>1. \A x \in Cell : board'[x] = IF x = b THEN board[a] ELSE IF x = a THEN Nobody ELSE board[x]
  BY DEF Carry, MovedOn
<1>2. Unit' = Unit
  BY DEF Unit, TheChampion, TheTower, TheMinion, TheFort
<1> QED  BY <1>1, <1>2 DEF ContentInv

\* Nothing is put on a cell but what was on another, or a minion of a wave.
LEMMA ContentStep ==
  ASSUME BattleInv, ContentInv, [Next]_vars
  PROVE  ContentInv'
<1>1. Records /\ DOMAIN board = Cell
  BY DEF BattleInv, Records
<1>2. Unit' = Unit
  BY DEF Unit, TheChampion, TheTower, TheMinion, TheFort
<1>3. ASSUME UNCHANGED board  PROVE ContentInv'
  BY <1>2, <1>3 DEF ContentInv
<1>4. CASE UNCHANGED vars
  BY <1>3, <1>4 DEF vars
<1>5. ASSUME NEW c \in Champion, ChampionTurn(c)  PROVE ContentInv'
  <2>1. champions[c].pos \in Cell /\ BaseCell \in Cell
    BY <1>1, MapAssumption DEF Records
  <2>2. CASE UNCHANGED board
    BY <1>3, <2>2
  <2>3. CASE \E x \in Cell : Walk(c, x)
    BY <1>1, <2>1, <2>3, ContentCarried DEF Walk
  <2>4. CASE PlaceAtBase(c)
    BY <1>1, <2>1, <2>4, ContentCarried DEF PlaceAtBase
  <2> QED  BY <1>5, <2>2, <2>3, <2>4 DEF ChampionTurn, Act, Stay
<1>6. ASSUME NEW m \in MinionId, MinionTurn(m)  PROVE ContentInv'
  <2>1. m \in DOMAIN minions /\ MinionRecord(minions[m])
    BY <1>1, <1>6 DEF MinionTurn, Records
  <2>2. minions[m].pos \in Cell
    BY <2>1 DEF MinionRecord
  <2>3. CASE UNCHANGED board
    BY <1>3, <2>3
  <2>4. CASE ~UNCHANGED board
    <3>1. PICK next : /\ next = IF AtGoal(m) THEN minions[m].checkpoint + 1 ELSE minions[m].checkpoint
                      /\ ~AtLaneEnd(m) /\ Proceed(m, [minions[m] EXCEPT !.checkpoint = next])
      BY <1>6, <2>4 DEF MinionTurn, StunnedTurn
    <3>2. MinionStep(m)
      BY <2>1, <3>1, TurnIsAStep
    <3>3. PICK x \in Cell : Carry(TheMinion(m, Side(minions[m])), minions[m].pos, x)
      BY <2>4, <3>2 DEF MinionStep
    <3> QED  BY <1>1, <2>2, <3>3, ContentCarried
  <2> QED  BY <2>3, <2>4
<1>7. CASE WaveTurn
  <2>1. CASE UNCHANGED board
    BY <1>3, <2>1
  <2>2. CASE MakeWave
    <3>1. PICK id \in [DOMAIN Lane -> MinionId] :
            /\ \A x \in Cell : (\A i \in DOMAIN Lane : Lane[i].spawn # x) => board'[x] = board[x]
            /\ \A i \in DOMAIN Lane : board'[Lane[i].spawn] = TheMinion(id[i], Lane[i].team)
      BY <1>1, <2>2, WaveIs
    <3>2. \A i \in DOMAIN Lane : TheMinion(id[i], Lane[i].team) \in Unit
      BY LaneIs DEF Unit
    <3> QED  BY <1>2, <3>1, <3>2 DEF ContentInv
  <2> QED  BY <1>7, <2>1, <2>2 DEF WaveTurn
<1>8. CASE Strike
  <2>1. PICK blows, first, last : ApplyEffects(blows, first, last)
    BY <1>8 DEF Strike
  <2>2. \E cleared : board' = [x \in Cell |-> IF x \in cleared THEN Nobody ELSE board[x]]
    BY <2>1 DEF ApplyEffects
  <2> QED  BY <1>2, <2>2 DEF ContentInv
<1>9. ASSUME NEW c \in Champion, Rejoin(c)  PROVE ContentInv'
  <2>1. \A x \in Cell : board'[x] = board[x] \/ board'[x] = TheChampion(c)
    BY <1>1, <1>9 DEF Rejoin, Put
  <2>2. TheChampion(c) \in Unit
    BY DEF Unit
  <2> QED  BY <1>2, <2>1, <2>2 DEF ContentInv
<1> QED  BY <1>4, <1>5, <1>6, <1>7, <1>8, <1>9 DEF Next

\* What one client's packet shows.
PacketIs(c) ==
  LET x == champions[c].pos
      window == CenterView(x, View)
      low == <<Min(Span(x[1], Rows, View[1])), Min(Span(x[2], Cols, View[2]))>>
      Place(y) == (y[1] - low[1]) * View[2] + y[2] - low[2] + 1
  IN  /\ Len(Encoded(c)) = View[1] * View[2] /\ DecodeRLE(RunLengthEncode(Encoded(c))) = Encoded(c)
      /\ x \in window
      /\ \A y \in window :
           Encoded(c)[Place(y)]
             = EncodedValue(board[y], IF y \in rubble THEN "rubble" ELSE "floor",
                            [m \in DOMAIN minions |-> HealthLevel(minions[m].health, MinionHealth)])

\* The cells of the window, decoded as they were encoded, each at its place.
LEMMA PacketShows ==
  ASSUME NEW c \in Champion, champions[c].pos \in Cell
  PROVE  PacketIs(c)
<1> DEFINE levels == [m \in DOMAIN minions |-> HealthLevel(minions[m].health, MinionHealth)]
           Value(y) == EncodedValue(board[y], IF y \in rubble THEN "rubble" ELSE "floor", levels)
<1>1. PICK x \in Cell : x = champions[c].pos
  OBVIOUS
<1>2. PICK low : low = <<Min(Span(x[1], Rows, View[1])), Min(Span(x[2], Cols, View[2]))>>
  OBVIOUS
<1>3. PICK size : size = View[1] * View[2]
  OBVIOUS
<1>4. /\ size \in Nat /\ Len(Flattened(x)) = size /\ DOMAIN Flattened(x) = 1..size
      /\ x \in CenterView(x, View)
      /\ \A y \in CenterView(x, View) :
           /\ (y[1] - low[1]) * View[2] + y[2] - low[2] + 1 \in 1..size
           /\ Flattened(x)[(y[1] - low[1]) * View[2] + y[2] - low[2] + 1] = y
  BY <1>2, <1>3, WindowIs
<1>5. PICK values : values = Encoded(c)
  OBVIOUS
<1>6. values = [i \in 1..size |-> Value(Flattened(x)[i])]
  BY <1>1, <1>4, <1>5 DEF Encoded
<1> HIDE DEF Value
<1>7. PICK S : S = {values[i] : i \in 1..size}
  OBVIOUS
<1>8. values \in Seq(S) /\ Len(values) = size
  <2>1. values \in [1..size -> S]
    BY <1>6, <1>7
  <2>2. values \in Seq(S)
    BY <1>4, <2>1, SeqDef
  <2>3. DOMAIN values = 1..size
    BY <1>6
  <2> QED  BY <1>4, <2>2, <2>3, LenProperties
<1>9. DecodeRLE(RunLengthEncode(values)) = values
  BY <1>8, RoundTrip
<1>10. ASSUME NEW y \in CenterView(x, View)
       PROVE  values[(y[1] - low[1]) * View[2] + y[2] - low[2] + 1] = Value(y)
  BY <1>4, <1>6
<1>11. /\ Len(Encoded(c)) = View[1] * View[2] /\ DecodeRLE(RunLengthEncode(Encoded(c))) = Encoded(c)
       /\ champions[c].pos \in CenterView(champions[c].pos, View)
  BY <1>1, <1>3, <1>4, <1>5, <1>8, <1>9
<1> QED  BY <1>1, <1>2, <1>5, <1>10, <1>11 DEF PacketIs, Value

\* The first cell of a window.
LEMMA CornerOf ==
  ASSUME NEW x, NEW y \in CenterView(x, View)
  PROVE  /\ {z[1] : z \in CenterView(x, View)} = Span(x[1], Rows, View[1])
         /\ {z[2] : z \in CenterView(x, View)} = Span(x[2], Cols, View[2])
<1>1. PICK rows : rows = Span(x[1], Rows, View[1])
  OBVIOUS
<1>2. PICK cols : cols = Span(x[2], Cols, View[2])
  OBVIOUS
<1>3. y[1] \in rows /\ y[2] \in cols /\ CenterView(x, View) = rows \X cols
  BY <1>1, <1>2 DEF CenterView
<1>4. {z[1] : z \in rows \X cols} = rows
  <2>1. \A r \in rows : <<r, y[2]>> \in rows \X cols /\ <<r, y[2]>>[1] = r
    BY <1>3
  <2> QED  BY <2>1
<1>5. {z[2] : z \in rows \X cols} = cols
  <2>1. \A k \in cols : <<y[1], k>> \in rows \X cols /\ <<y[1], k>>[2] = k
    BY <1>3
  <2> QED  BY <2>1
<1> QED  BY <1>1, <1>2, <1>3, <1>4, <1>5

\* Everybody is encoded as what they are, a minion as long as it has a record.
LEMMA EncodedIs ==
  ASSUME NEW u \in Unit, NEW terrain, NEW levels
  PROVE  \/ EncodedValue(u, terrain, levels)[1] = u[1] /\ u[1] # "placeholder"
         \/ /\ EncodedValue(u, terrain, levels)[1] = "placeholder"
            /\ \E m \in MinionId, t \in Team : u = TheMinion(m, t) /\ m \notin DOMAIN levels
<1> USE DEF EncodedValue, MinionValue, Nobody
<1>1. CASE \E c \in Champion : u = TheChampion(c)
  BY <1>1 DEF TheChampion
<1>2. CASE \E t \in Tower : u = TheTower(t)
  BY <1>2 DEF TheTower
<1>3. CASE \E t \in Team : u = TheFort(t)
  BY <1>3 DEF TheFort
<1>4. CASE \E m \in MinionId, t \in Team : u = TheMinion(m, t)
  <2>1. PICK m \in MinionId, t \in Team : u = TheMinion(m, t)
    BY <1>4
  <2>2. u = <<"minion", m, t>> /\ u[1] = "minion" /\ u[2] = m /\ u[3] = t /\ u # <<"nobody">>
    BY <2>1 DEF TheMinion
  <2>3. CASE m \in DOMAIN levels
    BY <2>2, <2>3
  <2>4. CASE m \notin DOMAIN levels
    BY <2>1, <2>2, <2>4
  <2> QED  BY <2>3, <2>4
<1> QED  BY <1>1, <1>2, <1>3, <1>4 DEF Unit

-----------------------------------------------------------------------------
(* Blows and their targets                                                 *)

\* There is an enemy for the blow h to land on, or one whose picture was lost.
Lands(h) == \E u \in Unit : /\ Target(u) = h[2] /\ u[3] # TeamOf[h[1]]
                            /\ StandsOn(u) # {} \/ u \in displaced

\* Before the hits of the tick nobody leaves the match unrecorded.
NobodyLeaves ==
  /\ displaced \subseteq displaced' /\ UNCHANGED towers
  /\ \A m \in DOMAIN minions :
       \/ m \in DOMAIN minions' /\ minions'[m].lane = minions[m].lane
       \/ TheMinion(m, Side(minions[m])) \in displaced'

\* As long as nobody leaves, a blow keeps its target.
LEMMA BlowsKeep ==
  ASSUME NobodyLeaves, NEW h, Lands(h)
  PROVE  Lands(h)'
<1>1. PICK u \in Unit : /\ Target(u) = h[2] /\ u[3] # TeamOf[h[1]]
                        /\ StandsOn(u) # {} \/ u \in displaced
  BY DEF Lands
<1>2. StandsOn(u)' # {} \/ u \in displaced'
  <2>1. CASE u \in displaced
    BY <2>1 DEF NobodyLeaves
  <2>2. CASE u[1] = "champion"
    BY <2>2 DEF StandsOn
  <2>3. CASE u[1] = "minion" /\ StandsOn(u) # {}
    <3>1. PICK m \in DOMAIN minions : TheMinion(m, Side(minions[m])) = u
      BY <2>3 DEF StandsOn
    <3>2. CASE u \in displaced'
      BY <3>2
    <3>3. CASE m \in DOMAIN minions' /\ minions'[m].lane = minions[m].lane
      <4>1. TheMinion(m, Side(minions'[m])) = u
        BY <3>1, <3>3 DEF Side
      <4> QED  BY <2>3, <3>3, <4>1 DEF StandsOn, TheMinion, Side
    <3> QED  BY <3>1, <3>2, <3>3 DEF NobodyLeaves
  <2>4. CASE u[1] \notin {"champion", "minion"} /\ StandsOn(u) # {}
    BY <2>4 DEF StandsOn, NobodyLeaves
  <2> QED  BY <1>1, <2>1, <2>2, <2>3, <2>4
<1>3. u \in Unit' /\ Target(u)' = h[2]
  BY <1>1 DEF Unit, TheChampion, TheTower, TheMinion, TheFort, Target
<1> QED  BY <1>1, <1>2, <1>3 DEF Lands, Target

\* A champion strikes at somebody of the other team that a cell shows by then.
LEMMA BlowMeets ==
  ASSUME ContentInv', ShownWhereTheyStand', NEW c \in Champion, champions'[c].pos \in Cell, NEW kinds,
         NEW y \in Nearest(board', champions'[c].pos, Reach, kinds, TeamOf[c]),
         NEW h, h = <<c, Target(board'[y])>>
  PROVE  Lands(h)'
<1>1. PICK u : u = board'[y] /\ u # Nobody /\ u[3] # TeamOf[c]
  BY DEF Nearest, Closest, Seen
<1>2. y \in Cell /\ u \in Unit'
  BY <1>1, NearestIs DEF ContentInv
<1>3. StandsOn(u)' # {} \/ u \in displaced'
  BY <1>1, <1>2 DEF ShownWhereTheyStand
<1>4. PICK t : t = Target(u)
  OBVIOUS
<1>5. h[1] = c /\ h[2] = t
  BY <1>1, <1>4
<1> QED  BY <1>1, <1>2, <1>3, <1>4, <1>5 DEF Lands, Target

\* Nobody leaves in the turns of champions and minions, by a wave and by a
\* replacement.
LEMMA NobodyLeavesBefore ==
  ASSUME BattleInv, [Next]_vars, ~Strike
  PROVE  NobodyLeaves
<1>1. Records
  BY DEF BattleInv
<1>2. ASSUME UNCHANGED <<minions, towers>>, displaced \subseteq displaced'  PROVE NobodyLeaves
  BY <1>2 DEF NobodyLeaves
<1>3. CASE UNCHANGED vars
  BY <1>2, <1>3 DEF vars
<1>4. ASSUME NEW c \in Champion, ChampionTurn(c)  PROVE NobodyLeaves
  <2>1. displaced \subseteq displaced'
    BY <1>4 DEF ChampionTurn, PlaceAtBase, Act, Stay, Walk, Carry
  <2> QED  BY <1>2, <1>4, <2>1 DEF ChampionTurn
<1>5. ASSUME NEW m \in MinionId, MinionTurn(m)  PROVE NobodyLeaves
  <2>1. UNCHANGED towers /\ m \in DOMAIN minions /\ MinionRecord(minions[m])
    BY <1>1, <1>5 DEF MinionTurn, Records
  <2>2. CASE UNCHANGED <<minions, displaced>>
    BY <1>2, <2>1, <2>2
  <2>3. CASE ~UNCHANGED <<minions, displaced>>
    <3>1. PICK next : /\ next = IF AtGoal(m) THEN minions[m].checkpoint + 1 ELSE minions[m].checkpoint
                      /\ ~AtLaneEnd(m) /\ Proceed(m, [minions[m] EXCEPT !.checkpoint = next])
      BY <1>5, <2>3 DEF MinionTurn, StunnedTurn
    <3>2. MinionStep(m)
      BY <2>1, <3>1, TurnIsAStep
    <3>3. displaced \subseteq displaced'
      BY <3>2 DEF MinionStep, Carry
    <3> QED  BY <2>1, <3>2, <3>3 DEF NobodyLeaves, MinionStep
  <2> QED  BY <2>2, <2>3
<1>6. CASE WaveTurn
  <2>1. UNCHANGED towers
    BY <1>6 DEF WaveTurn
  <2>2. CASE UNCHANGED <<minions, displaced>>
    BY <1>2, <2>1, <2>2
  <2>3. CASE MakeWave
    <3>1. PICK id \in [DOMAIN Lane -> MinionId] :
            /\ DOMAIN minions \subseteq DOMAIN minions' /\ displaced \subseteq displaced'
            /\ \A m \in DOMAIN minions : (\A i \in DOMAIN Lane : id[i] # m) => minions'[m] = minions[m]
            /\ \A i \in DOMAIN Lane :
                 id[i] \in DOMAIN minions => TheMinion(id[i], Side(minions[id[i]])) \in displaced'
      BY <1>1, <2>3, WaveIs
    <3> QED  BY <2>1, <3>1 DEF NobodyLeaves
  <2> QED  BY <1>6, <2>2, <2>3 DEF WaveTurn
<1>7. ASSUME NEW c \in Champion, Rejoin(c)  PROVE NobodyLeaves
  BY <1>2, <1>7 DEF Rejoin, Put
<1> QED  BY <1>3, <1>4, <1>5, <1>6, <1>7 DEF Next

\* In every step the blows struck keep or have a target.
LEMMA BlowsStep ==
  ASSUME BattleInv, BlowsMeetEnemies, [Next]_vars,
         BattleInv', ContentInv', ShownWhereTheyStand'
  PROVE  BlowsMeetEnemies'
<1>1. CASE Strike
  BY <1>1 DEF Strike, BlowsMeetEnemies
<1>2. CASE ~Strike
  <2>1. NobodyLeaves /\ \A h \in pending : Lands(h)
    BY <1>2, NobodyLeavesBefore DEF BlowsMeetEnemies, Lands
  <2>2. \A h \in pending : Lands(h)'
    BY <2>1, BlowsKeep
  <2>3. ASSUME NEW h \in pending', h \notin pending  PROVE Lands(h)'
    <3>1. PICK c \in Champion : ChampionTurn(c)
      BY <1>2, <2>3 DEF Next, vars, MinionTurn, WaveTurn, Rejoin
    <3>2. PICK kinds \in Attackable :
            \E y \in Nearest(board', champions'[c].pos, Reach, kinds, TeamOf[c]) :
              h = <<c, Target(board'[y])>>
      BY <2>3, <3>1 DEF ChampionTurn, Act
    <3>3. champions'[c].pos \in Cell
      BY DEF BattleInv, Records
    <3>4. PICK y \in Nearest(board', champions'[c].pos, Reach, kinds, TeamOf[c]) :
            h = <<c, Target(board'[y])>>
      BY <3>2
    <3> QED  BY <3>3, <3>4, BlowMeets
  <2>4. \A h \in pending' : Lands(h)'
    BY <2>2, <2>3
  <2> QED  BY <2>4 DEF BlowsMeetEnemies, Lands
<1> QED  BY <1>1, <1>2

-----------------------------------------------------------------------------
(* The theorems                                                            *)

\* In every step of a match, a player's replacement by a new one included, towers keep
\* their cells and everybody is shown where their record says, unless they were wiped
\* off, taken along or are the picture that a replaced champion left; and no minion
\* has a checkpoint behind the last one of its lane.
THEOREM BattleInvariant == Spec => []BattleInv
<1>1. ASSUME BattleInv, [Next]_vars  PROVE BattleInv'
  <2>1. CASE UNCHANGED vars
    <3>1. UNCHANGED <<champions, minions, towers, forts, board, rubble, minionsDue, pending,
                      outcome, displaced>>
      BY <2>1 DEF vars, turns
    <3>2. EverybodyShown'
      BY <1>1, <3>1, AllStay
    <3>3. Records'
      BY <1>1, <3>1 DEF BattleInv, Records, MinionRecord, Goals
    <3> QED  BY <3>2, <3>3 DEF BattleInv, EverybodyShown
  <2>2. CASE \E c \in Champion : ChampionTurn(c)
    BY <1>1, <2>2, InvChampionTurn
  <2>3. CASE \E m \in MinionId : MinionTurn(m)
    BY <1>1, <2>3, InvMinionTurn
  <2>4. CASE WaveTurn
    BY <1>1, <2>4, InvWaveTurn
  <2>5. CASE Strike
    BY <1>1, <2>5, InvStrike
  <2>6. CASE \E c \in Champion : Rejoin(c)
    BY <1>1, <2>6, InvRejoin
  <2> QED  BY <1>1, <2>1, <2>2, <2>3, <2>4, <2>5, <2>6 DEF Next
<1> QED  BY <1>1, InvInitially, PTL DEF Spec

\* The board shows everybody exactly where they stand by their own record, and
\* nobody who is gone, except whom the code wiped off or carried elsewhere and
\* champions that were replaced while a cell other than the start showed them.
THEOREM AllAreShownWhereTheyStand == Spec => []ShownWhereTheyStand
<1>1. BattleInv => ShownWhereTheyStand
  <2> SUFFICES ASSUME BattleInv, NEW u \in Unit \ displaced
               PROVE  {x \in Cell : board[x] = u} = StandsOn(u)
    BY DEF ShownWhereTheyStand
  <2>1. CASE \E c \in Champion : u = TheChampion(c)
    <3>1. PICK c \in Champion : u = TheChampion(c)
      BY <2>1
    <3>2. StandsOn(u) = {champions[c].pos} /\ champions[c].pos \in Cell
      BY <3>1 DEF StandsOn, TheChampion, BattleInv, Records
    <3>3. Shown(u, {champions[c].pos})
      BY <3>1 DEF BattleInv, ChampionsShown
    <3> QED  BY <3>2, <3>3 DEF Shown
  <2>2. CASE \E t \in Tower : u = TheTower(t)
    <3>1. PICK t \in Tower : u = TheTower(t)
      BY <2>2
    <3>2. StandsOn(u) = IF towers[t] > 0 THEN Footprint(t) ELSE {}
      BY <3>1 DEF StandsOn, TheTower
    <3>3. Shown(u, IF towers[t] > 0 THEN Footprint(t) ELSE {}) /\ Footprint(t) \subseteq Cell
      BY <3>1, MapAssumption DEF BattleInv, TowersShown
    <3> QED  BY <3>2, <3>3 DEF Shown
  <2>3. CASE \E m \in MinionId, t \in Team : u = TheMinion(m, t)
    <3>1. PICK m \in MinionId, t \in Team : u = TheMinion(m, t)
      BY <2>3
    <3>2. StandsOn(u) = PlacesOf(m, t)
      <4>1. u[1] = "minion"
        BY <3>1 DEF TheMinion
      <4>2. StandsOn(u) = {minions[i].pos : i \in {j \in DOMAIN minions : TheMinion(j, Side(minions[j])) = u}}
        BY <4>1 DEF StandsOn
      <4>3. \A j : TheMinion(j, Side(minions[j])) = u <=> j = m /\ Side(minions[j]) = t
        BY <3>1, UnitsDiffer
      <4> QED  BY <4>2, <4>3 DEF PlacesOf
    <3>3. PlacesOf(m, t) \subseteq Cell
      BY DEF BattleInv, Records, MinionRecord, PlacesOf
    <3>4. Shown(u, PlacesOf(m, t))
      BY <3>1 DEF BattleInv, MinionsShown
    <3> QED  BY <3>2, <3>3, <3>4 DEF Shown
  <2>4. CASE \E t \in Team : u = TheFort(t)
    <3>1. PICK t \in Team : u = TheFort(t)
      BY <2>4
    <3>2. StandsOn(u) = Fort[t] /\ Fort[t] \subseteq Cell
      BY <3>1, MapAssumption DEF StandsOn, TheFort
    <3>3. Shown(u, Fort[t])
      BY <3>1 DEF BattleInv, FortsShown
    <3> QED  BY <3>2, <3>3 DEF Shown
  <2> QED  BY <2>1, <2>2, <2>3, <2>4 DEF Unit
<1> QED  BY <1>1, BattleInvariant, PTL

\* A tower blocks its four cells until it falls; then all of them are free of
\* it, and the lower two are rubble.
THEOREM TowersStandOrFallWhole == Spec => []TowersStandWhole
<1>1. BattleInv => TowersStandWhole
  <2> SUFFICES ASSUME BattleInv, NEW t \in Tower
               PROVE  IF towers[t] > 0
                      THEN LowerRow(t) \cap rubble = {} /\ \A x \in Footprint(t) : board[x] = TheTower(t)
                      ELSE LowerRow(t) \subseteq rubble /\ \A x \in Footprint(t) : board[x] # TheTower(t)
    BY DEF TowersStandWhole
  <2>1. Footprint(t) \subseteq Cell
    BY MapAssumption
  <2> QED  BY <2>1 DEF BattleInv, TowersShown, Shown
<1> QED  BY <1>1, BattleInvariant, PTL

\* The champions never hold more gold than the minions were worth that waves made
\* and that are gone, however many champions stand by when one dies.
THEOREM GoldIsForTheGone == Spec => []RewardsAreEarned
<1>1. GoldInv => RewardsAreEarned
  <2>1. SumFunction([c \in Champion |-> champions[c].gold]) = Gold
    BY DEF SumFunction, Gold
  <2> QED  BY <2>1 DEF GoldInv, RewardsAreEarned, Gone
<1>2. BattleInv => Records
  BY DEF BattleInv
<1> QED  BY <1>1, <1>2, BattleInvariant, GoldInitially, GoldStep, PTL DEF Spec

\* Whoever stands in the window of a champion is seen there, with the whole of it.
THEOREM EveryClientSeesTheBoard == Spec => []ClientSeesTheBoard
<1>1. BattleInv /\ ContentInv /\ ShownWhereTheyStand => ClientSeesTheBoard
  <2> SUFFICES ASSUME BattleInv, ContentInv, ShownWhereTheyStand, NEW c \in Champion
               PROVE  LET grid == DecodeRLE(RunLengthEncode(Encoded(c)))
                          window == CenterView(champions[c].pos, View)
                          low == <<Min({x[1] : x \in window}), Min({x[2] : x \in window})>>
                          At(x) == grid[(x[1] - low[1]) * View[2] + x[2] - low[2] + 1][1]
                      IN  /\ Len(grid) = View[1] * View[2]
                          /\ champions[c].pos \in window
                          /\ \A u \in Unit \ displaced : \A x \in StandsOn(u) \cap window : At(x) = u[1]
                          /\ \A x \in window : At(x) = "placeholder" => board[x] \in displaced
    BY DEF ClientSeesTheBoard
  <2>1. PICK here \in Cell : here = champions[c].pos
    BY DEF BattleInv, Records
  <2>2. PICK window : window = CenterView(here, View) /\ window \subseteq Cell
    BY ViewIs, ViewAssumption
  <2>3. PICK levels : levels = [m \in DOMAIN minions |-> HealthLevel(minions[m].health, MinionHealth)]
    OBVIOUS
  <2>4. PICK low : low = <<Min(Span(here[1], Rows, View[1])), Min(Span(here[2], Cols, View[2]))>>
    OBVIOUS
  <2>5. PICK grid : grid = DecodeRLE(RunLengthEncode(Encoded(c)))
    OBVIOUS
  <2> DEFINE At(x) == grid[(x[1] - low[1]) * View[2] + x[2] - low[2] + 1][1]
  <2>6. /\ Len(grid) = View[1] * View[2] /\ here \in window
        /\ \A x \in window :
             At(x) = EncodedValue(board[x], IF x \in rubble THEN "rubble" ELSE "floor", levels)[1]
    <3>1. PacketIs(c)
      BY <2>1, PacketShows
    <3> QED  BY <2>1, <2>2, <2>3, <2>4, <2>5, <3>1 DEF PacketIs
  <2>7. low = <<Min({x[1] : x \in window}), Min({x[2] : x \in window})>>
    <3>1. /\ {x[1] : x \in window} = Span(here[1], Rows, View[1])
          /\ {x[2] : x \in window} = Span(here[2], Cols, View[2])
      BY <2>2, <2>6, CornerOf
    <3> QED  BY <2>4, <3>1
  <2> HIDE DEF At
  <2>8. DOMAIN levels = DOMAIN minions
    BY <2>3
  <2>9. ASSUME NEW u \in Unit \ displaced, NEW x \in StandsOn(u) \cap window
        PROVE  At(x) = u[1]
    <3>1. board[x] = u
      BY <2>2, <2>9 DEF ShownWhereTheyStand
    <3>2. ASSUME NEW m, NEW t, u = TheMinion(m, t)  PROVE m \in DOMAIN levels
      <4>1. u[1] = "minion"
        BY <3>2 DEF TheMinion
      <4>2. PICK i \in DOMAIN minions : TheMinion(i, Side(minions[i])) = u
        BY <2>9, <4>1 DEF StandsOn
      <4> QED  BY <2>8, <3>2, <4>2, UnitsDiffer
    <3>3. PICK terrain : terrain = IF x \in rubble THEN "rubble" ELSE "floor"
      OBVIOUS
    <3>4. At(x) = EncodedValue(u, terrain, levels)[1]
      BY <2>6, <3>1, <3>3
    <3>5. EncodedValue(u, terrain, levels)[1] = u[1]
      BY <3>2, EncodedIs
    <3> QED  BY <3>4, <3>5
  <2>10. ASSUME NEW x \in window, At(x) = "placeholder"
         PROVE  board[x] \in displaced
    <3>1. PICK terrain : terrain = (IF x \in rubble THEN "rubble" ELSE "floor") /\ terrain # "placeholder"
      OBVIOUS
    <3>2. EncodedValue(board[x], terrain, levels)[1] = "placeholder"
      BY <2>6, <2>10, <3>1
    <3>3. x \in Cell /\ board[x] \in Unit
      <4>1. board[x] # Nobody
        <5>1. EncodedValue(Nobody, terrain, levels)[1] = terrain
          BY DEF EncodedValue
        <5> QED  BY <3>1, <3>2, <5>1
      <4> QED  BY <2>2, <4>1 DEF ContentInv
    <3>4. PICK m \in MinionId, t \in Team : board[x] = TheMinion(m, t) /\ m \notin DOMAIN minions
      BY <2>8, <3>2, <3>3, EncodedIs
    <3>5. PlacesOf(m, t) = {}
      BY <3>4 DEF PlacesOf
    <3>6. TheMinion(m, t) \in displaced \/ Shown(TheMinion(m, t), PlacesOf(m, t))
      BY DEF BattleInv, MinionsShown
    <3> QED  BY <3>3, <3>4, <3>5, <3>6 DEF Shown
  <2> QED  BY <2>1, <2>2, <2>5, <2>6, <2>7, <2>9, <2>10 DEF At
<1>2. Init => ContentInv
  BY ContentInitially
<1>3. BattleInv /\ ContentInv /\ [Next]_vars => ContentInv'
  BY ContentStep
<1> QED  BY <1>1, <1>2, <1>3, BattleInvariant, AllAreShownWhereTheyStand, PTL DEF Spec

\* Every blow that a champion has struck in a tick has an enemy to land on when the
\* hits of the tick are applied, whatever walked, spawned or joined in between.
THEOREM BlowsAlwaysMeetEnemies == Spec => []BlowsMeetEnemies
<1>1. Init => BlowsMeetEnemies
  BY DEF Init, BlowsMeetEnemies
<1>2. /\ BattleInv /\ BlowsMeetEnemies /\ [Next]_vars
      /\ BattleInv' /\ ContentInv' /\ ShownWhereTheyStand'
      => BlowsMeetEnemies'
  BY BlowsStep
<1>3. Init => ContentInv
  BY ContentInitially
<1>4. BattleInv /\ ContentInv /\ [Next]_vars => ContentInv'
  BY ContentStep
<1> QED  BY <1>1, <1>2, <1>3, <1>4, BattleInvariant, AllAreShownWhereTheyStand, PTL DEF Spec

=============================================================================
