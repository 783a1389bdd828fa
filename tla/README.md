# TermArena in TLA+

TermArena is a MOBA played in the terminal. Terminal clients (`client/`, Go) log in to a lobby
server (`server/`, Go), which asks an authentication service (`auth/`, Rust, gRPC) about
credentials, finds rooms and starts one game server process per room (`game/`, Rust, tokio). The
client then leaves the lobby and talks to its game server until the match is over.

This directory holds TLA+ models of those parts, translated from the source, the TLC
configurations that check them on small instances, and TLAPS proofs about them for every
instance. `PROJECT.json` maps every definition to the lines it stands for, lists the hazards the
properties are aimed at, and names for every checked property a plausible change of the code (a
mutant, kept beside the definition it replaces) that breaks it.

    tlc -workers 2 -config <run>.cfg <module>.tla     one run
    tlapm <module>Proofs.tla                          the proofs about a module

## 1. Inventory

### Parts, their state and what they do

| Part | Source | State | Operations | What is hard about it |
|---|---|---|---|---|
| Game session | `game/src/main.rs`, `game/src/game/mod.rs` | `players_count`, `game_started`, `game_start_time`, and the maps `champions`, `client_channel`, `player_action` keyed by player id | one task per connection (hello, join, start, actions, shop, cleanup), one tick task | critical sections of many tasks on one mutex; ids are reused after a departure; the process exits in mid tick |
| Delivery | `send_to_player`, writer task of `handle_client` | a spawned task per message, an mpsc channel of 32, the socket | spawn, wait for a slot, push, receive, write, close | tasks overtake each other; a client that stops reading; removal while messages are under way |
| Lobby requests | `server/main.go`, `server/event` | connections, FIFO queue, one unbuffered response channel per event type | read, publish, wait, process, answer | an answer carries no addressee; the only broker goroutine blocks on the hand-over |
| Rooms | `server/room_manager` | open classic rooms, port counter, game processes | find room, start process, dial | the counter wraps; rooms are never told who came or left |
| Authentication | `auth/src/main.rs`, `server/authentification` | users in memory and in a file | log in, sign up, load | the caller's one second deadline; a crash between file and memory |
| Terminal client | `client/` | screen, two connections with a listener each, one message loop | connect, log in, look for a room, play, shop, leave | messages that arrive on another screen than the one they were for |
| Wire format | `shared/packet.go`, `client/communication`, `game/src/packet` | the byte stream | serialise, parse | reads that split or join packets |
| Champions, items, buffs | `entities/champion.rs`, `item.rs`, `buffs/` | health, mana, gold, levels, death timer, stun, position | action, attack, take effects, death, return | several effects in a tick; counters of 8 and 16 bits |
| Minions and waves | `entities/minion.rs`, `minion_manager.rs` | lane, checkpoint, path, health | wave, move, attack, die | the end of the lane; random ids |
| Monsters | `entities/monster.rs`, `monster_manager.rs` | state, target, path, leash, respawn timer | spawn, chase, return, die, respawn, reward | paths computed on a board that has changed; rewards for a monster that is already dead |
| Projectiles and spells | `projectile_manager.rs`, `projectile.rs`, `spell/` | projectiles in flight, what is drawn of them | create, advance, collide, remove | targets that vanish; removal by the wrong id |
| Towers, bases, tick | `entities/tower.rs`, `base.rs`, `game/mod.rs` | health, cells | the turns of a tick, effects, end of the match | the order of turns; a victim may be hit twice or be gone |
| Board and algorithms | `board.rs`, `cell.rs`, `algorithms/` | content, terrain and animation of each cell | move, place, clear, view, encode, search, lines | content and records that differ; windows at the border; limits of the search |
| Animations | `animation/` | last drawn cell | draw, clear | owners that are gone; cells shared with projectiles |
| Legacy CTF room | `server/game` | board, flags, players | actions, ticks | not reachable: its import in `server/main.go:13` is commented out |
| Load client, generated gRPC, configuration | `simulation/`, `server/proto`, `config.rs` | none of their own | | |

### How the parts interact

* Client to lobby server: TCP packets. `ProcessClient` decodes one packet per read, publishes it in
  the broker's queue and waits on the response channel of its type. The broker's goroutine takes
  one event after the other and calls the subscriber (`Authentificate`, `SignIn`, `FindRoom`, ...).
* Lobby server to authentication service: a gRPC call with a deadline of a second, made in the
  broker's goroutine.
* Lobby server to game server: `StartGame` starts a process on a port and lets it go; nothing comes
  back. The client is sent the port and dials it.
* Inside a game server: handlers and the tick task share `GameManager` behind one tokio mutex;
  messages to clients leave through spawned tasks, a channel per client and a writer task.
* Inside a tick: the turns run one after the other over `HashMap`s, so within a turn the order is
  open; hits are collected and applied at the end. The board and the records of the entities are
  updated separately.
* Inside the client: a listener goroutine per connection sends to one channel, one `Update` loop
  takes from it. Nothing says which connection a message came from.

### What makes each part correct

* Session: the count is the number of seated clients, the match runs exactly while it is full,
  entries filed under an id belong to its holder, nobody sees another's frames before the first
  departure, everybody seated hears the start.
* Delivery and wire format: no message is lost or doubled while the client is there, however the
  stream is cut into reads; order is kept from the channel on; everything ends after it has left.
* Lobby requests: answers owed equal goroutines waiting, every request is answered in kind.
* Rooms: one open room at a time, none oversold, players sit in the process of their own room.
* Client: one game connection, the end of a game is noticed.
* Projectiles and animations: one hit, never one's own side, flight ends, nothing stays drawn.
* Monsters: pursuit has a target, rest is whole and at home, nobody goes off the board on the own
  cell, rewards are for the dead, the return ends.
* Minions, towers, tick: the board shows everybody where their record has them, towers block their
  cells until they fall, gold is for minions that are gone, a blow still has an enemy to land on when
  it is applied.
* Champions: gold, experience and mana are neither lost nor made, the stats are those of level and
  items whatever the order, a stun ends by one clock, the dead wait for their whole timer.
* Views: what a client decodes is the whole window around its champion, as the board has it.
* Authentication: memory and file agree on every name, before and after restarts; whoever was told
  that the account is set up can log in.

## 2. Modules

| Module | Models | Notes |
|---|---|---|
| `SessionLifecycle` | abstract: what a match promises | members up to the seats; runs while full; over only after it has run, and for good |
| `GameSession` | `handle_client`, the tick task, the session part of `GameManager` | a step is one critical section; implements `SessionLifecycle` (`ImplementsLifecycle`) |
| `GameSessionProofs`, `DeliveryProofs`, `ProjectilesProofs`, `MonstersProofs`, `BattleProofs`, `ChampionProofs`, `AuthServiceProofs` | the theorems about the module each is named after | section 5; TLC runs none of them |
| `LobbyProofs` | the theorems about `EventBroker`, `Matchmaking` and `ClientScreens`, the way into a match | extends the three, which is why their specifications bear names of their own (`BrokerSpec`, `MatchSpec`, `ScreensSpec`) |
| `Delivery` | `send_to_player`, its tasks, the channel, the writer task, the socket, and the client's `ListenForPackets` and `DeSerialize`, for one client | starts where `GameSession` puts a kind into `inbox`; packets as wide as the server writes them, cut as the client does |
| `EventBroker` | `ProcessClient`, `EventBroker`, `Queue` | the subscriber's result is a choice among the kinds it can return |
| `Matchmaking` | `FindRoom`, `StartGame`, the processes and the players sent to them | a process is a `SessionLifecycle` reduced to who is seated and whether it has run |
| `ClientScreens` | `MetaModel.Update`, the screens, `ListenForPackets` | the servers are what `EventBroker` and `GameSession` can send |
| `Grid` | the board's cells, the window of cells around a unit, the distances the code measures, the search for a path | extended by all modules with a board |
| `BoardView` | `run_length_encode`, `get_encoded_cell_value` and the client's `DecodeRLE` | operators only; `Battle` applies them to its states |
| `Projectiles` | projectile manager, `next_frame`, the spells' and towers' shots, their effects, the strokes of melee attacks and the drawing at the end of a tick | units walk and vanish at any time between two passes |
| `Monsters` | monster manager, monsters, the champions' turn as far as it touches them | board contents and own positions are two variables, as in the code |
| `Battle` | champions' turn, minions and waves, the effects at the end of a tick, towers, bases, end of the match, the champion of a player that joins in another's place, the views that are sent | a tick as a sequence of turns; shots are hits on somebody the board shows |
| `Champion` | levels, items, gold, mana, cooldowns, death timer, stun and buffs of one champion, and the purchases of its player's task | a clock; the rest of the match is what rewards and effects may arrive |
| `AuthService` | `authentificate`, `signin`, `load_users` and the caller with its deadline | one step per stretch between awaits |
| `MCLobby` | `EventBroker` and `Matchmaking` side by side | the two share no variable; see the bounds of `lobby` |
| the other `MC*` | instances for TLC | |

### How state and actions correspond to the code

*Atomicity.* In `GameSession` everything between taking and releasing the mutex is one step:
`Join`, `VerifyStart`, `StoreAction`, `ShopReply` and `Cleanup` of a handler; `TickCheck`, `TickRun`
and `TickSend` of the tick task, which reads `game_started` in one critical section, ticks in the
next and sends in a third. In `EventBroker` publishing and waiting are two steps of a goroutine,
processing and answering two steps of the broker. In `Delivery` a task, the channel and the writer
take a step at each await, and the client one for each read and one for each packet it decodes. A
tick holds the mutex throughout: the steps of `Projectiles`, `Monsters` and `Battle` are turns inside it,
taken in any order where the code walks a `HashMap`. Between two ticks one step of a handler changes
champions and board in the middle of a match: `add_player`, when somebody joins after a departure. It
is `Rejoin` of `Battle`. The departure itself changes neither, and which id is given out is `GameSession`'s
to say; as it lets everybody leave and come back one by one, `Rejoin` takes any id. `Champion` has the one handler that touches what a tick does: a purchase, between two ticks,
also after the task of the tick has panicked. `Battle` keeps the order of the turns of `game_tick` (champions, minions, wave, effects)
by what is still due in the tick. In `AuthService` a handler takes a step between two awaits while
the caller, the blocking threads that write and the process that may be killed take theirs.

*Data.* Clients, connections and units are model values or small numbers, messages are kinds or
numbers, health is counted in hits, time in turns (`RespawnTurns`, `DeathTurns`) or not at all where
only the order matters (the sleeps of the tick task). In the stream of `Delivery` a message is a run
of units, version and code one each and a group of fields one together, with their width in bytes, so
that a read can end anywhere and a body can be taken for a header. In `Battle` gold stands for gold
and experience, which are shared alike; statistics, cooldowns and stuns are "may or may not". They
are `Champion`'s subject, where health and gold count points, widths (`GoldMax`, `DeathsMax`) are
constants, and time is a clock that a tick advances by one or more units, as the tick task's sleep may
be late. Ranges are rows and columns of a window (`Reach`, `Aggro`, `TowerRange`, `View`), as
`center_view` takes them. Accounts are names with a password each; hashing is left
out. Ids are numbers where the code mixes up name spaces:
in `Projectiles` units and projectiles draw ids from the same numbers, because the code once uses
one for the other.

*History variables* (`opened`, `room`, `roomCount`, `pushed`, `cut`, `hits`, `age`, `rewarded`,
`swallowed`, `misled`, `displaced`, `told`, `spoiled`, `earned`, `casts`, `wounds`, `turn`, `lastWall`, `killed`) are
read by properties only.

*Errors.* A port that is taken ends the new process; a log file that cannot be opened leaves a room
without one; a peer may hang up at any point. A missing game binary is left out (the first request
would show it).

## 3. Runs

| Run | Instance | Shows | Size |
|---|---|---|---|
| `session` | 3 clients, 2 seats | the properties of the session and the refinement of `SessionLifecycle`, in every interleaving of critical sections | 53,296 states |
| `session_ids` | same | *violation* of `UniqueChampions` | |
| `delivery` | channel of 2; a start, a board and a shop answer of 3, 5 and 4 units; reads of up to 6, socket room for 6 | nothing lost, doubled, garbled or left behind; where overtaking ends; every message reaches a client that reads | 108,100 |
| `lobby` | 3 connections, 2 event types; 3 players, 2 ports, 2 seats | answers owed and goroutines waiting balance; every request is answered; rooms are filled one at a time and never oversold; a full room plays | 237,594 |
| `broker_own` | 2 connections, 3 event types | *violation* of `AnswerIsOwn` | |
| `screens` | 6 connections made, 2 packets and 1 request under way on each | one game connection, the end of a game is noticed, up to the exceptions named | 136,231 |
| `projectiles` | a champion, a minion, a tower; 2x3 cells; 2 shots, or 1 shot and 2 strokes | one hit, no friendly fire, flights end, no ghosts but for the exception named | 584,349 |
| `monsters` | 2 champions, a tower, one monster definition, 2 lives; corridor of 5; leash 2 | the monster's states, paths, rewards and its return, and who can take a champion off the board | 548,576 |
| `battle` | 2 champions, a tower, a base, a lane, 2 arrivals of waves or players; 2x5 cells; 2 minion ids; views of 1x3 | board and records, towers, gold, the clients' views and whom blows land on | 299,349 |
| `champion` | 3 levels, an item and a slot, 2 spells, 2 walls, 2 effects in a tick, 2 deaths, gold up to 2, clock up to 6 | the books, the stats, the stun's clock and the wait of the dead | 1,244,546 |
| `champion_stun` | same | *violation* of `StunLastsFromApplication` | |
| `auth` | 2 names, 2 passwords, 2 handlers, 4 sign-ups | memory and file agree, an account that was confirmed works, through deadlines, failed writes and restarts | 1,487,608 |

### Why the bounds are enough

* `session`: two seats are the least with a first joiner that has to be told of the start by
  another's handler; the third client is the one that is turned away or takes over a seat and, with
  it, an id that is still held. Two departures and a second start occur. More seats add symmetry.
* `delivery`: the three packets are those a player gets, with their three ways to know the end (a
  fixed length, a length in the packet, six slots). Capacity 2 and three messages give a full channel, a granted slot not yet used and a
  writer that holds a message, all at once. A read may end at every unit: inside a header, inside a
  body, or behind the border to the next packet; the socket fills while the writer is in a message.
* `lobby`: with three connections and two types there can be a queue with both types, two
  goroutines parked on one channel and one not yet parked; two ports wrap with the third room, and three
  players fill a room and open another. The two modules share no variable and nothing but the kind of
  an answer: `EventBroker` may answer with a room, a nil or a refusal at any time, and any player of
  `Matchmaking` may be told a room at any time. Neither can tell what the other does in between, so a
  behaviour of the run moves one of them only; every behaviour of either is one.
* `screens`: with four connections, two to the lobby server and two to matches, one game connection at
  a time would seem to be kept without exception. It takes six to meet the one of section 4: a match that is
  left with its start still under way, and two lobby connections after it whose rooms are both dialled.
* `projectiles`: six cells hold a shot, a target that steps out of its way and one that steps in;
  two shots are the least for a wrong removal and for one pass with two orders; the freeze wall
  puts both in flight with one cast. Speed 2 makes a shot wait, health 2 survive a hit. With one shot
  there may be two strokes, which draw over it and over each other; a cycle of two frames of the eight
  has one that moves on and one that ends.
* `monsters`: from its spawn cell the monster reaches the end of its leash on one side and not on
  the other, so returns with and without a way to walk occur; two champions get in its way and each
  other's; two lives give a respawn under a new id and rewards for the old one.
* `battle`: one champion starts on the shared return cell and one on the spawn cell, so waves and
  returns meet somebody; two ids for two waves give both the same and different ids; in the
  place of a wave a player may join, or two, before, between and after the deaths of the old champion; in ten cells
  the minion has to walk around a tower and reaches the end of its lane. Every health is one hit, so
  deaths, falls and the end of the match are near; every hit and heal of a tick may miss. Minion ids
  are symmetric: they are only compared. Every window of the run meets a border of the board, on one
  side or both, and every champion's view is encoded in every state.
* `champion`: the second reward brings two levels at once; one item fills the inventory; mana pays for
  one spell and not the other, or twice for the cheaper one. Two walls in flight of different age, two
  effects in a tick and a lag of two let a stun end before, with and after its second clock and a
  champion die twice in a tick or while it is dead; the clock ends after the longest timer. The third
  death and the third piece of gold overflow.
* `auth`: two handlers are the one the caller waits for and one it has given up; a third would wait
  for the lock behind both. Two passwords tell two sign-ups of one name apart, two names let a torn
  line of one take the other's along.

Bounds that are not in the code are constants commented as such (`Kinds`, `SocketRoom`, `MaxLinks`,
`MaxFeed`, `MaxAsked`, `Budget`, `MaxInstances`, `MaxArrivals`, `RespawnTurns`, `Handler`, `MinionId`, `Rows`,
`Cols`, `Lag`, `MaxTime`, `MaxWalls`, `MaxEffects`, `MaxEarned`), as are the smaller values of those that are
(`Capacity` for 32, `ReadSize` for 4096, `GoldMax` for 65,535, `DeathsMax` for 255, `TimerScale` for ten
seconds). Deadlock is checked in `auth`, `monsters` and `projectiles`. The other systems may stop: a match ends and
its process exits, everybody hangs up, leaves or quits, the delivery to a client that has gone ends as
well, and a champion's ticks end with a panic or with the clock.

### Fairness

* `GameSession`: weak fairness of the tick task and, per handler, of the critical sections it is
  about to enter (`VerifyStart`, `Cleanup`). tokio's mutex is first in, first out, and the runtime
  polls every ready task. Reads are not fair: a client may be silent for ever.
* `Delivery`: spawned tasks and the writer run; a handler whose client hung up reaches its cleanup.
  `ReadingSpec` adds that the client reads.
* `EventBroker`: goroutines that can run do, the broker's own included. Peers owe nothing.
* `Matchmaking`: a client that was sent to a room dials (the client's loop dials until it succeeds).
* `ClientScreens`: listeners, the message loop and timers run; nothing is assumed of player and
  servers.
* `Monsters`: the tick timer fires again and again (`WF(Next)`, no choice inside a tick is fair).
* `Projectiles`, `Battle`, `Champion`, `AuthService`: none, only safety is claimed; that flights end is stated as
  a bound on their age.

## 4. Where the code and its documents differ

Each of these is a run that TLC ends with a counterexample.

* `session_ids`: `add_player` uses the new count as the id. After a departure the next joiner gets an
  id that is still held; two clients then share a champion, the older one is sent nothing any more
  and the cleanup of either removes the other's channel.
* `broker_own`: a response channel belongs to an event type. Two connections that publish in one
  order and wait in the other are given each other's answers.
* `champion_stun`: a stun is counted from the cast of the wall, not from the hit, because the buff
  is created with the projectile (`freeze_wall.rs:111`) and `on_tick` measures from there;
  `buff_mechanism.md:31` speaks of the "elapsed time since application". A wall that flies for its
  whole range stuns for that much less.

The models have further behaviour of this kind. Some of it the properties state as exceptions:

* `FirstGeneration` ends with the first departure, and `SeatedInOwnRoom` holds until a port is given
  out twice.
* `NoGhosts` excepts units that share an id with a projectile: the id put up for removal is that of
  the lost target.
* `ReturnEnds` excepts a monster that found its way home blocked: it never looks again.
* `CloseIsNoticed` excepts a close that the shop screen swallows (`client/main.go:185`).
* It and `OneGameConnection` end when the client is `misled`, which the attempt to prove the latter
  brought to light. No message says which connection it came from: the late close of the first lobby
  connection ends a match whose start is still under way; back in the lobby, that start opens the game
  screen for a match that was left, and the close behind it brings the player to the lobby a second
  time, while a room is still to be answered on the first. Both answers are then dialled, and the game
  connection of the first is forgotten open (`client/main.go:138`), with its seat.
* `ShownWhereTheyStand` excepts the `displaced`: all dead champions, of both teams, are put on one
  cell over whoever stands there, at every tick of their timer; a wave is put on its spawn cell in the
  same way; a minion whose id is drawn again leaves its picture on the board, and so does a champion whose
  id a joiner is given in the middle of a match; the joiner is put on its start over whoever stands there.
* `ChampionsStayShown` excepts the cells of monsters, also of dead ones, and of other champions: a dead
  monster clears the cell it died on in every tick until it respawns, and a champion that has stepped
  there is wiped off the board and then moves as nothing, so that nobody can hit it; a champion whose
  cell shows a monster carries that along, and is carried off when the monster moves.
* `BlowsMeetEnemies` excepts the `displaced`, too: a champion may strike at the picture of a minion whose
  id was drawn again since or before, and the blow then lands on the new minion, of whichever team, or on nobody.
* `MemoryFollowsFile` and `ToldCanLogIn` except the `spoiled`: a sign-up that was dropped, or that
  failed, after its line had reached the file exists only from the next restart on; a line written
  in part takes the next one with it.
* `EachMessageOnce` and `EveryMessageArrives` except the `cut`: a read that ends between the two bytes
  of a header makes the client drop the first one and take what follows for headers.

Of a champion the properties state what the code does where a document has it otherwise, or nowhere:

* `StunIsTheLastWalls`: of several walls the last one to hit sets both clocks, whenever it was cast; a wall
  that hits late may so lift the stun of one that was cast after it.
* `DeadStayAway`: every blow that leaves no health counts as a death and starts the timer anew, so two
  in one tick cost two deaths and the longer timer; the 256th stops the tick in a debug build.
* `BooksBalance`: mana is never given back, so a champion can cast only so often in a match; gold is a
  `u16` to which rewards are added without a check, and a debug build panics in the tick when it
  overflows (the release build, which the `Makefile` makes, wraps). Levels and wounds stay right up to there.
* `ReducedDamage`: `armor / 100` is an integer, so armour below 100 does nothing; with the figures of
  `stats.toml` and `items.toml` a champion never gets there (5, 2 for each of 17 levels and six items of 10 make 99).
* The two slots may hold the same spell; each has a cooldown of its own.

`Middle` of `Grid` is where a target is measured from: the middle of the window, which at the border of
the board is not where the unit stands, so the closest in the code's sense need not be the closest.
The strokes of a melee attack are drawn around the champion, tower or minion that has the attacker's
number, in this order; a monster's may thus be drawn around a champion.

Three more are only described. A minion that has reached the last checkpoint makes `change_goal` read
behind it, and the task of the tick panics (`minion.rs:125`): the match stands still for everybody, which is
`Battle`'s outcome "crashed". The futures that would send the `EndGamePacket` (`mod.rs:636`) are
neither awaited nor spawned, and the process exits at once: no client is ever told. The lobby
connection is dropped, not handed over, after a room has been found; when its finalizer closes it,
the client, which cannot tell connections apart, shows the end of the match (`client/main.go:172`).

## 5. Proofs

Eight modules hold the proofs. Each theorem is about the specification of its component for every
value of the constants that the named assumptions admit, where a run has one small instance.

| Module | Theorems and the properties they state |
|---|---|
| `GameSessionProofs` | `TypeCorrect` (`TypeOK`), `CountCorrect` (`CountIsSeated`), `StartedCorrect` (`StartedIffFull`), `EntriesCorrect` (`EntriesAreLive`), `FirstGenerationCorrect` (`FirstGeneration`), `TicksCorrect`, `LifecycleRefined` (`ImplementsLifecycle`) |
| `DeliveryProofs` | `DeliveryInvariant`, `DeliveryTypes` (`TypeOK`), `NothingLostOrTwice` (`EachMessageOnce`), `ChannelOrder` (`NoOvertaking`) |
| `LobbyProofs` | `BrokerInvariant`, `AnswersMatch` (`OneAnswerOwed`), `BrokerNeverStuck`; `ScreensInvariant`, `OneGameAtATime` (`OneGameConnection`); `RoomsInvariant`, `OneRoomIsOpen` (`OneOpenRoom`), `SeatsArePromisedOnce` (`NoRoomOversold`), `PlayersMeetTheirRoom` (`SeatedInOwnRoom`) |
| `ProjectilesProofs` | `ProjectilesInvariant`, `EachHitsOnce` (`OneHit`), `NothingDrawnForNobody` (`NoGhosts`), `SkillShotsAlwaysEnd` (`SkillShotsEnd`), `OwnSideIsSpared` (`NoFriendlyFire`) |
| `MonstersProofs` | `MonstersInvariant`, `PursuitAlwaysHasTarget` (`PursuitHasTarget`), `RestIsAlwaysWhole` (`RestIsWhole`), `LivingAreNotPaidFor` (`RewardsAreForTheDead`), `ChampionsGoOnlyByOthers` (`ChampionsStayShown`) |
| `BattleProofs` | `BattleInvariant`, `AllAreShownWhereTheyStand` (`ShownWhereTheyStand`), `TowersStandOrFallWhole` (`TowersStandWhole`), `GoldIsForTheGone` (`RewardsAreEarned`), `BlowsAlwaysMeetEnemies` (`BlowsMeetEnemies`), `EveryClientSeesTheBoard` (`ClientSeesTheBoard`) |
| `ChampionProofs` | `ChampionInvariant`, `BooksAlwaysBalance` (`BooksBalance`), `StatsAlwaysSums` (`StatsAreSums`), `StunsAreTheLastWalls` (`StunIsTheLastWalls`), `TheDeadStayAway` (`DeadStayAway`) |
| `AuthServiceProofs` | `ServiceInvariant`, `LockFollowsSignUp` (`TypeOK`), `RestartForgetsNothing` (`MemoryFollowsFile`), `ConfirmedAccountsLast` (`ToldCanLogIn`) |

### The arguments

None of the properties is inductive as it stands. What each needs besides itself:

* *Session.* That `players_count` stays within the seats is only known because it counts the seated
  clients, and a cleanup may only be taken to decrement it because the handler's own client is seated
  and so the count is not zero. Ids stay in range because a handler has an id exactly from its join on
  (`IdsInv`). `StartedIffFull` is inductive with the count: the joiner that fills the last seat starts
  the match, any departure leaves it short. `SessionInv` is the conjunction of these. `EntriesAreLive`
  is inductive relative to it: a cleanup clears exactly the entries under its own id. `FirstGeneration`
  needs that ids handed out are at most the count, that ids beyond it have no champion, and that
  frames under way are those of the champion the id has. The refinement needs `StartInv`: what the
  tick task read before it slept still implies that the match has been started once.
* *Delivery.* The stream is made of whole messages and begins with one unless a header was cut
  (`StreamInv`); a read moves the border between socket and client and leaves the stream alone, and a
  packet takes exactly one message off its front, because the bytes by which the client measures it are
  those of its units, and are enough only with the last one. A task is in one of three places, and once the
  writer has ended with the client still there nothing is left (`TasksInv`): so each step moves a message
  from one place to the next, and their numbers add up. For the order, what is received, in the stream,
  in the writer's hands and in the channel is in this order free of messages that entered before it
  (`OrderInv`), and whoever is still a task is in nobody's record (`PushedInv`).
* *Client.* A room's answer is dialled at most once per lobby connection: until the client is `misled`, every
  lobby connection but the current one is `Spent`, its server has handed it over and no answer is left
  in its feed, and so is the current one from the dialling to the return to the lobby (`RoomInv`). Since a
  lobby connection is spent before the next is made, and a game connection closed, there is one at most.
* *Lobby requests.* Counting is not enough: the step that hands an answer over takes the first
  goroutine parked on a channel. `LinesInv` says that this line holds every goroutine parked
  there, each at one place, and nobody else, so that what is handed over goes to somebody who is owed an
  answer. `BrokerNeverStuck` follows: the broker never holds an answer that nobody will take.
* *Rooms.* A port's room follows from its number until the numbers go round (`PortsInv`); the members
  of a process are the clients seated there; an entry always has a seat left to give, so that the
  count of promised seats stays within the room.
* *Projectiles.* A skill shot's age, the length of what is left of its path and its wait add up to no more than
  its range allows (`Young`), for which the lemmas about the lines of `Line` give their lengths. No two units share a cell (`UnitsInv`),
  so a projectile has one victim at most, and what has hit leaves the map in the same pass. Of the
  commands of a pass for a cell the last one counts (`LastOne`): if it draws, its projectile is still in
  the map, unless a lost target has its id.
* *Monsters.* `Sound` relates state, target, place and health of a monster and is kept by each of its
  operations; ids are given out once, so whoever has been paid for stays dead.
* *Battle.* Every kind of unit is either recorded as displaced or shown exactly where it stands. A move
  keeps that for two reasons which are both needed: whoever was on the target cell is recorded, and nobody stands
  on a tower, because no start, spawn, base or free cell is one. A new champion is shown on its start,
  and exactly there unless another cell shows the one it replaces, which is recorded. A blow is struck at
  somebody shown, so at a unit that stands or is recorded; nobody leaves between the turn of the champions and
  the hits but into the record, and no player joins in between (`NobodyLeavesBefore`, `BlowsKeep`). Every path that is found leads
  over cells of the board, by induction over its length (`WaysAreOnTheBoard`). A minion's checkpoint
  never exceeds its lane, because the step that would take it further panics. For the gold, the shares
  of one death are at most its reward (a number of champions times the integer part of a share), a
  tick's bounties at most the reward for each of its dead, and a wave makes at most a minion per lane.
* *Views.* `RoundTrip`: decoding an encoded view gives the view back. After i cells the runs the encoder
  has closed, with the run it is in, stand for those i cells (`StandFor`, `EncoderLoop`), and appending a
  run to what the decoder has read appends its cells (`OneMoreRun`). The cell at a place of the grid is
  then found by row and column (`RowAndColumn`), since the window is whole for an odd view no larger
  than the board (`WindowIs`). A placeholder is seen
  only where a minion has lost its id because the board shows nobody but units (`ContentInv`), which
  every turn of a tick keeps.
* *Champion.* The books balance because each sale, level and cast moves a sum by what the step takes;
  the statistics because a sum over slots changes by the slot that was filled. The last wall's buff is the active
  one and without one the last wall is too old (`StunInv`); the timer of a champion that was killed
  is that of its last killing blow (`BodyInv`), and it outlasts the tick it was set in.
* *Accounts.* For every name that is not `spoiled` memory and file agree except while the sign-up that holds the
  mutex stores that name (`SyncInv`); that a record on its way belongs to the handler that waits for it,
  or to one that has gone (`JobsInv`), is what makes an abandoned write spoil its own name only.

Sums, paths, the bytes of a packet, the runs of a view and the look-up in a list of records are
recursive. What they compute is proved by looking at
a least counterexample, whose existence follows from the well-foundedness of the numbers
(`LeastNumber`), without the library's induction theorems.

### The assumptions

They are the `ASSUME`s of the modules; TLC evaluates them for every run.

* Finite sets: of clients, connections, monster definitions, champions and kinds of spells.
* A `None`, `Empty` or `NoTarget` is none of the values it is told apart from: these are `Option`s.
* Numbers are natural, and health, speed, leash, seats and timers not zero where the code's constants
  and files are not. `Cycle` is at most the eight frames of a stroke; directions are the four of a wall.
* `Champion`: prices fit the purse, levels cost something, and a tick is late by no more than the death
  timer's unit (`Lag <= TimerScale`).
* `BudgetAssumption` of `Projectiles`: one of the bounds of the run has the most shots.
* `MapAssumption` of `Battle`: starts, spawns, bases and towers do not overlap and lie on the board, as the
  constants of `game/mod.rs`, `minion.rs:68-104` and the placement of the towers have it; nothing is
  assumed of walls or of what is next to what.
* `SocketAssumption` of `Delivery`: a board is encoded in at least a byte and fits the 16 bits of its length
  (`board_packet.rs:31` panics otherwise); the socket's buffers hold the longest packet.
* `ViewAssumption` of `BoardView`: the view has odd sides and is no larger than the board, as 21 by 51 of
  `board.rs:167` is on a map with a tower at (196, 150) (`game/mod.rs:80`).
* `SizeAssumption`, and that a range is no larger than the board: the code's window is not clamped twice.

### What is only model-checked

Liveness (`StartReachesSeated`, `EveryRequestAnswered`, `FullRoomPlays`, `EveryMessageArrives`,
`NothingLeftBehind`, `CloseIsNoticed`, `ReturnEnds`), which is out of the prover's reach. Every safety
property of the runs is stated by a theorem.

`StartedIffFull`, `AnswerHasTaker` and `WaiterIsOwed` are listed by no run of their own: the `session`
run sees the first as a part of `ImplementsLifecycle`, whose match runs exactly while every seat is
taken; the others are the safety half of `EveryRequestAnswered`, which the `lobby` run checks.

## 6. Not modelled

* The joiner in the middle of a match outside `Battle`: `Champion` follows one champion from its creation
  to the end or to its replacement, which starts another one; the replacement is no step
  of `Monsters` and `Projectiles`. To `Monsters` it would only add another way to have a champion's picture on a
  cell its record does not name, which `ChampionsStayShown` excepts.
* In `AuthService` a start that fails: a line cut inside a character of several bytes ends the service with an
  error (`auth/src/main.rs:41`), which is a start that never comes. A last line that lacks only its line end is
  loaded by the code and lost in the model; its name is `spoiled`, so that no property speaks of it.
* Cursors, forms, colours, the map file, printing and logging.
* Bytes, but for the client's framing in `Delivery`: packets are kinds. The lobby server decodes one
  packet per read (`server/main.go:81`), and its decoders of a room take all bytes that were read
  (`packet.go:806-830`).
* Animations in `BoardView`: one that is drawn on a cell hides its content from the client
  (`board.rs:202-210`). `Projectiles` has where they are drawn. `TowerHitAnimation` is dead code.
* Damage figures (`base_damage`, `damage_ratio`), attack speeds and the minions' own stuns, which are
  "may or may not" in `Battle`; lines that are neither horizontal nor vertical, which nothing asks for.
* Wall-clock time, but for the clock of `Champion`: sleeps, timers and cooldowns are "may have elapsed"
  or counts of turns.
* Undefined behaviour: the Rust code is safe and the Go goroutines share state only through the
  queue and channels, so there is none to choose from. Panics of the tick are listed as hazards.
* Generated gRPC code, the load client, configuration parsing. The legacy CTF room comes last: it is
  compiled but nothing reaches it.

## 7. Plan

In this order, most important first.

The core is done: the session with its proofs, delivery with the client's framing, lobby requests,
rooms, the client's screens, projectiles with the strokes of melee, monsters, the battle with the
clients' views, champions and authentication, with their safety proved. What remains:

1. Abstract specifications: for `Battle` a duel in which the living act and rewards follow deaths, for
   `AuthService` a set of names with one password each; the detailed ones shown to implement them.
2. `Framing`: the readers of the lobby server and the game server, as `Delivery` has the client's.
3. The search for a path with a small limit of cells against shortest paths.
4. The legacy room, if it is ever switched on.

Theorems worth proving next: the refinements of item 1.
