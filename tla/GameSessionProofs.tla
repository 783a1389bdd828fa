-------------------------- MODULE GameSessionProofs --------------------------
(***************************************************************************)
(* Theorems about GameSession, for every set of clients, number of seats   *)
(* and schedule.                                                           *)
(***************************************************************************)
EXTENDS GameSession, FiniteSetTheorems, TLAPS

\* Where a handler stands and the id it holds go together.
IdsInv ==
  \A c \in Client :
    /\ handler[c] = "accepted" => playerId[c] = 0
    /\ Seated(c) => playerId[c] \in PlayerId

\* The first half of FirstGeneration, with the bound on the ids that makes it
\* inductive: the next id handed out is new.
FirstGenerationInv ==
  Departed = {} =>
    \A c \in SeatedClients :
      /\ playerId[c] \in 1..playersCount
      /\ clientChannel[playerId[c]] = c
      /\ champions[playerId[c]] = c

\* The second half: an id beyond the count has no champion yet, so the frame a
\* tick has made for an id is never that of an earlier holder.
FramesInv ==
  Departed = {} =>
    \A id \in PlayerId :
      /\ champions[id] = clientChannel[id]
      /\ updates[id] \in {None, champions[id]}
      /\ id > playersCount => champions[id] = None

\* The tick task and the two start fields: what the tick task has read before
\* it slept, it has read after the match was first started.
TicksAfterStart ==
  /\ tickTask \in {"armed", "send"} => startTimeSet
  /\ exited => startTimeSet

StartInv ==
  /\ gameStarted => startTimeSet
  /\ TicksAfterStart

SessionInv ==
  /\ TypeOK
  /\ IdsInv
  /\ CountIsSeated
  /\ StartedIffFull

-----------------------------------------------------------------------------
\* The seated clients are finitely many, so their number is a natural number.
LEMMA SeatedFinite ==
  /\ IsFiniteSet(SeatedClients)
  /\ Cardinality(SeatedClients) \in Nat
<1>1. IsFiniteSet(SeatedClients)
  BY ClientAssumption, FS_Subset DEF SeatedClients
<1>. QED  BY <1>1, FS_CardinalityType

\* A step of one handler that neither seats nor unseats a client.
LEMMA SameSeats ==
  ASSUME TypeOK, NEW c \in Client, NEW p \in Phase,
         handler' = [handler EXCEPT ![c] = p],
         Seated(c) <=> p \in {"verify", "reading", "cleanup"}
  PROVE  SeatedClients' = SeatedClients
BY DEF TypeOK, SeatedClients, Seated, Phase

\* add_player seats exactly the client it is called for.
LEMMA JoinSeats ==
  ASSUME SessionInv, NEW c \in Client, Join(c)
  PROVE  /\ SeatedClients' = SeatedClients \cup {c}
         /\ c \notin SeatedClients
         /\ Cardinality(SeatedClients') = Cardinality(SeatedClients) + 1
<1>1. /\ SeatedClients' = SeatedClients \cup {c}
      /\ c \notin SeatedClients
  BY DEF SessionInv, TypeOK, Join, SeatedClients, Seated, Phase
<1>. QED  BY <1>1, SeatedFinite, FS_AddElement

\* remove_player unseats exactly the client of the handler that cleans up, and
\* the branch that warns about an empty game is never taken.
LEMMA CleanupUnseats ==
  ASSUME SessionInv, NEW c \in Client, Cleanup(c)
  PROVE  /\ SeatedClients' = SeatedClients \ {c}
         /\ c \in SeatedClients
         /\ Cardinality(SeatedClients') = Cardinality(SeatedClients) - 1
         /\ playersCount > 0
         /\ playersCount' = playersCount - 1
         /\ gameStarted' = FALSE
         /\ playerId[c] \in PlayerId
<1>1. /\ SeatedClients' = SeatedClients \ {c}
      /\ c \in SeatedClients
      /\ playerId[c] \in PlayerId
  BY DEF SessionInv, TypeOK, IdsInv, Cleanup, SeatedClients, Seated, Phase
<1>2. Cardinality(SeatedClients') = Cardinality(SeatedClients) - 1
  BY <1>1, SeatedFinite, FS_RemoveElement
<1>3. Cardinality(SeatedClients) # 0
  BY <1>1, SeatedFinite, FS_EmptySet
<1>4. playersCount > 0
  BY <1>3, SeatedFinite DEF SessionInv, CountIsSeated
<1>5. /\ playersCount' = playersCount - 1
      /\ gameStarted' = (gameStarted /\ ~(playersCount' < MaxPlayers))
  BY <1>4 DEF Cleanup, RemovePlayer, FreeSeat, StopIfShort
<1>6. playersCount' < MaxPlayers
  BY <1>4, <1>5, MaxPlayersAssumption DEF SessionInv, TypeOK
<1>. QED  BY <1>1, <1>2, <1>4, <1>5, <1>6

-----------------------------------------------------------------------------
\* The initial state satisfies the inductive invariant.
LEMMA InitSession == Init => SessionInv
<1>. SUFFICES ASSUME Init PROVE SessionInv
  OBVIOUS
<1>1. SeatedClients = {}
  BY DEF Init, SeatedClients, Seated
<1>2. CountIsSeated
  BY <1>1, FS_EmptySet DEF Init, CountIsSeated
<1>3. TypeOK
  <2>1. playerId \in [Client -> 0..MaxPlayers] /\ playersCount \in 0..MaxPlayers
    BY MaxPlayersAssumption DEF Init
  <2>2. inbox \in [Client -> SUBSET Kind]
    BY DEF Init
  <2>. QED  BY <2>1, <2>2 DEF Init, TypeOK, Phase, Entry
<1>4. IdsInv /\ StartedIffFull
  BY MaxPlayersAssumption DEF Init, IdsInv, Seated, StartedIffFull
<1>. QED  BY <1>2, <1>3, <1>4 DEF SessionInv

\* Sending to players changes only inboxes, and keeps them well typed.
LEMMA SendToPlayersType ==
  ASSUME TypeOK, NEW ids, NEW kind \in Kind, SendToPlayers(ids, kind)
  PROVE  inbox' \in [Client -> SUBSET Kind]
BY DEF TypeOK, SendToPlayers

\* Every step keeps the state well typed.
LEMMA StepType == SessionInv /\ [Next]_vars => TypeOK'
<1>. SUFFICES ASSUME SessionInv, [Next]_vars PROVE TypeOK'
  OBVIOUS
<1>. USE MaxPlayersAssumption DEF managerVars, handlerVars, tickVars
<1>1. CASE UNCHANGED vars
  BY <1>1 DEF SessionInv, TypeOK, vars
<1>2. CASE Tick
  BY <1>2 DEF SessionInv, TypeOK, Tick, TickCheck, TickWait, TickRun,
              TickGameOver, TickSend, Entry
<1>3. ASSUME NEW c \in Client, Handler(c) PROVE TypeOK'
  <2>1. CASE BadHello(c) \/ Reject(c) \/ StopReading(c)
    BY <1>3, <2>1 DEF SessionInv, TypeOK, Handler, BadHello, Reject,
                      StopReading, Phase
  <2>2. CASE Join(c)
    <3>1. playersCount + 1 \in PlayerId /\ playersCount + 1 \in 0..MaxPlayers
      BY <2>2 DEF SessionInv, TypeOK, Join, SeatLeft, PlayerId
    <3>. QED  BY <1>3, <2>2, <3>1 DEF SessionInv, TypeOK, Handler, Join,
                                      AddPlayer, InsertChannel, SeatLeft, Phase, Entry
  <2>3. CASE VerifyStart(c)
    <3>1. inbox' \in [Client -> SUBSET Kind]
      BY <2>3, SendToPlayersType DEF SessionInv, TypeOK, VerifyStart, Kind
    <3>. QED  BY <1>3, <2>3, <3>1 DEF SessionInv, TypeOK, Handler,
                                      VerifyStart, Phase
  <2>4. CASE StoreAction(c)
    BY <1>3, <2>4 DEF SessionInv, TypeOK, Handler, StoreAction, Entry
  <2>5. CASE ShopReply(c)
    <3>1. inbox' \in [Client -> SUBSET Kind]
      BY <2>5, SendToPlayersType DEF SessionInv, ShopReply, Kind
    <3>. QED  BY <1>3, <2>5, <3>1 DEF SessionInv, TypeOK, Handler, ShopReply
  <2>6. CASE Cleanup(c)
    <3>1. /\ playersCount > 0 /\ gameStarted' = FALSE
          /\ playersCount' = playersCount - 1
      BY <2>6, CleanupUnseats
    <3>2. playersCount' \in 0..MaxPlayers
      BY <3>1, MaxPlayersAssumption DEF SessionInv, TypeOK
    <3>. QED  BY <1>3, <2>6, <3>1, <3>2 DEF SessionInv, TypeOK, Handler,
                                      Cleanup, RemovePlayer, FreeSeat,
                                      ForgetAction, ForgetChannel, Phase, Entry
  <2>. QED  BY <1>3, <2>1, <2>2, <2>3, <2>4, <2>5, <2>6 DEF Handler
<1>. QED  BY <1>1, <1>2, <1>3 DEF Next

\* Every step keeps phases and ids together.
LEMMA StepIds == SessionInv /\ [Next]_vars => IdsInv'
<1>. SUFFICES ASSUME SessionInv, [Next]_vars PROVE IdsInv'
  OBVIOUS
<1>. USE DEF IdsInv, Seated, managerVars, handlerVars, tickVars
<1>1. CASE UNCHANGED vars
  BY <1>1 DEF SessionInv, vars
<1>2. CASE Tick
  BY <1>2 DEF SessionInv, Tick, TickCheck, TickWait, TickRun, TickGameOver, TickSend
<1>3. ASSUME NEW c \in Client, Handler(c) PROVE IdsInv'
  <2>1. CASE Join(c)
    BY <2>1, MaxPlayersAssumption DEF SessionInv, TypeOK, Join, AddPlayer, InsertChannel, SeatLeft, PlayerId
  <2>2. CASE ~Join(c)
    BY <1>3, <2>2 DEF SessionInv, TypeOK, Handler, BadHello, Reject, VerifyStart,
                      StoreAction, ShopReply, StopReading, Cleanup, Phase
  <2>. QED  BY <2>1, <2>2
<1>. QED  BY <1>1, <1>2, <1>3 DEF Next

\* Every step keeps the count of seats and the started flag in line.
LEMMA StepCount ==
  SessionInv /\ [Next]_vars => CountIsSeated' /\ StartedIffFull'
<1>. SUFFICES ASSUME SessionInv, [Next]_vars
              PROVE  CountIsSeated' /\ StartedIffFull'
  OBVIOUS
<1>. USE DEF managerVars, handlerVars, tickVars
<1>1. ASSUME SeatedClients' = SeatedClients,
             UNCHANGED <<playersCount, gameStarted>>
      PROVE  CountIsSeated' /\ StartedIffFull'
  BY <1>1 DEF SessionInv, CountIsSeated, StartedIffFull
<1>2. CASE UNCHANGED vars
  BY <1>1, <1>2 DEF vars, SeatedClients, Seated
<1>3. CASE Tick
  BY <1>1, <1>3 DEF Tick, TickCheck, TickWait, TickRun, TickGameOver,
                    TickSend, SeatedClients, Seated
<1>4. ASSUME NEW c \in Client, Handler(c)
      PROVE  CountIsSeated' /\ StartedIffFull'
  <2>1. CASE Join(c)
    <3>1. CountIsSeated'
      BY <2>1, JoinSeats DEF SessionInv, CountIsSeated, Join, AddPlayer, InsertChannel, SeatLeft
    <3>2. playersCount # MaxPlayers
      BY <2>1, MaxPlayersAssumption DEF SessionInv, TypeOK, Join, SeatLeft
    <3>3. ~gameStarted
      BY <3>2 DEF SessionInv, StartedIffFull
    <3>4. gameStarted' <=> playersCount' = MaxPlayers
      BY <2>1, <3>3 DEF Join, AddPlayer, InsertChannel, SeatLeft
    <3>5. playersCount' = MaxPlayers => MaxPlayers > 0
      BY <2>1, MaxPlayersAssumption DEF SessionInv, TypeOK, Join, AddPlayer, InsertChannel, SeatLeft
    <3>. QED  BY <3>1, <3>4, <3>5 DEF StartedIffFull
  <2>2. CASE Cleanup(c)
    <3>1. CountIsSeated'
      BY <2>2, CleanupUnseats DEF SessionInv, CountIsSeated
    <3>2. playersCount' = playersCount - 1 /\ gameStarted' = FALSE
      BY <2>2, CleanupUnseats
    <3>3. playersCount' # MaxPlayers
      BY <3>2, MaxPlayersAssumption DEF SessionInv, TypeOK
    <3>. QED  BY <3>1, <3>2, <3>3 DEF StartedIffFull
  <2>3. CASE BadHello(c) \/ Reject(c)
    <3>1. SeatedClients' = SeatedClients
      BY <2>3, SameSeats DEF SessionInv, BadHello, Reject, Phase, Seated
    <3>. QED  BY <1>1, <2>3, <3>1 DEF BadHello, Reject
  <2>4. CASE VerifyStart(c) \/ StopReading(c)
    <3>1. SeatedClients' = SeatedClients
      BY <2>4, SameSeats DEF SessionInv, VerifyStart, StopReading, Phase, Seated
    <3>. QED  BY <1>1, <2>4, <3>1 DEF VerifyStart, StopReading
  <2>5. CASE StoreAction(c) \/ ShopReply(c)
    BY <1>1, <2>5 DEF StoreAction, ShopReply, SeatedClients, Seated
  <2>. QED  BY <1>4, <2>1, <2>2, <2>3, <2>4, <2>5 DEF Handler
<1>. QED  BY <1>2, <1>3, <1>4 DEF Next

\* SessionInv is inductive.
LEMMA StepSession == SessionInv /\ [Next]_vars => SessionInv'
BY StepType, StepIds, StepCount DEF SessionInv

\* The inductive invariant holds in every reachable state.
THEOREM SessionInvariant == Spec => []SessionInv
BY InitSession, StepSession, PTL DEF Spec

\* The state is well typed; in particular players_count never passes the number
\* of seats and every id in use is a seat.
THEOREM TypeCorrect == Spec => []TypeOK
BY SessionInvariant, PTL DEF SessionInv

\* players_count counts the seated clients.
THEOREM CountCorrect == Spec => []CountIsSeated
BY SessionInvariant, PTL DEF SessionInv

\* The game is started exactly while it is full.
THEOREM StartedCorrect == Spec => []StartedIffFull
BY SessionInvariant, PTL DEF SessionInv

-----------------------------------------------------------------------------
(* What the maps of the GameManager hold                                   *)

\* Every step keeps channels live.  A cleanup frees the id it holds, so an
\* entry under another id belongs to another client.
LEMMA StepChannels ==
  SessionInv /\ ChannelsAreLive /\ [Next]_vars => ChannelsAreLive'
<1>. SUFFICES ASSUME SessionInv, ChannelsAreLive, [Next]_vars
              PROVE  ChannelsAreLive'
  OBVIOUS
<1>. USE DEF ChannelsAreLive, Holds, Seated, managerVars, handlerVars, tickVars
<1>1. CASE UNCHANGED vars
  BY <1>1 DEF vars
<1>2. CASE Tick
  BY <1>2 DEF Tick, TickCheck, TickWait, TickRun, TickGameOver, TickSend
<1>3. ASSUME NEW c \in Client, Handler(c) PROVE ChannelsAreLive'
  <2>1. CASE Join(c)
    BY <2>1, ClientAssumption
       DEF SessionInv, TypeOK, Join, AddPlayer, InsertChannel, SeatLeft, Entry, Phase
  <2>2. CASE Cleanup(c)
    <3>1. playersCount > 0 /\ playerId[c] \in PlayerId
      BY <2>2, CleanupUnseats
    <3>2. clientChannel' = [clientChannel EXCEPT ![playerId[c]] = None]
      BY <2>2, <3>1 DEF Cleanup, RemovePlayer, ForgetChannel, ForgetAction
    <3>. QED  BY <2>2, <3>1, <3>2 DEF SessionInv, TypeOK, Cleanup, Entry, Phase
  <2>3. CASE ~Join(c) /\ ~Cleanup(c)
    BY <1>3, <2>3 DEF SessionInv, TypeOK, Handler, BadHello, Reject, VerifyStart,
                      StoreAction, ShopReply, StopReading, Phase, Entry
  <2>. QED  BY <2>1, <2>2, <2>3
<1>. QED  BY <1>1, <1>2, <1>3 DEF Next

\* The channels in the map belong to clients that are here.
LEMMA ChannelsCorrect == Spec => []ChannelsAreLive
<1>1. Init => ChannelsAreLive
  BY DEF Init, ChannelsAreLive
<1>. QED  BY <1>1, StepChannels, SessionInvariant, PTL DEF Spec

\* Every step keeps the stored actions live.
LEMMA StepActions ==
  SessionInv /\ ActionsAreLive /\ [Next]_vars => ActionsAreLive'
<1>. SUFFICES ASSUME SessionInv, ActionsAreLive, [Next]_vars
              PROVE  ActionsAreLive'
  OBVIOUS
<1>. USE DEF ActionsAreLive, Holds, Seated, managerVars, handlerVars, tickVars
<1>1. CASE UNCHANGED vars
  BY <1>1 DEF vars
<1>2. CASE Tick
  BY <1>2 DEF Tick, TickCheck, TickWait, TickRun, TickGameOver, TickSend
<1>3. ASSUME NEW c \in Client, Handler(c) PROVE ActionsAreLive'
  <2>1. CASE Join(c)
    BY <2>1, ClientAssumption
       DEF SessionInv, TypeOK, Join, AddPlayer, InsertChannel, SeatLeft, Entry, Phase
  <2>2. CASE Cleanup(c)
    <3>1. playersCount > 0 /\ playerId[c] \in PlayerId
      BY <2>2, CleanupUnseats
    <3>2. playerAction' = [playerAction EXCEPT ![playerId[c]] = None]
      BY <2>2, <3>1 DEF Cleanup, RemovePlayer, ForgetChannel, ForgetAction
    <3>. QED  BY <2>2, <3>1, <3>2 DEF SessionInv, TypeOK, Cleanup, Entry, Phase
  <2>3. CASE StoreAction(c)
    BY <2>3 DEF SessionInv, TypeOK, StoreAction, Entry
  <2>4. CASE ~Join(c) /\ ~Cleanup(c) /\ ~StoreAction(c)
    BY <1>3, <2>4 DEF SessionInv, TypeOK, Handler, BadHello, Reject, VerifyStart,
                      ShopReply, StopReading, Phase, Entry
  <2>. QED  BY <2>1, <2>2, <2>3, <2>4
<1>. QED  BY <1>1, <1>2, <1>3 DEF Next

\* The actions a tick will play were stored by clients that are here.
LEMMA ActionsCorrect == Spec => []ActionsAreLive
<1>1. Init => ActionsAreLive
  BY DEF Init, ActionsAreLive
<1>. QED  BY <1>1, StepActions, SessionInvariant, PTL DEF Spec

\* Every channel and every waiting action is its holder's.
THEOREM EntriesCorrect == Spec => []EntriesAreLive
BY ChannelsCorrect, ActionsCorrect, PTL DEF EntriesAreLive

-----------------------------------------------------------------------------
(* Until the first departure                                               *)

\* A client that has departed stays departed.
LEMMA DepartedGrows ==
  ASSUME SessionInv, [Next]_vars
  PROVE  Departed \subseteq Departed'
<1>. USE DEF Departed, managerVars, handlerVars, tickVars
<1>1. CASE UNCHANGED vars
  BY <1>1 DEF vars
<1>2. CASE Tick
  BY <1>2 DEF Tick, TickCheck, TickWait, TickRun, TickGameOver, TickSend
<1>3. ASSUME NEW c \in Client, Handler(c) PROVE Departed \subseteq Departed'
  BY <1>3 DEF SessionInv, TypeOK, Handler, BadHello, Join, Reject, VerifyStart,
              StoreAction, ShopReply, StopReading, Cleanup, AddPlayer, InsertChannel
<1>. QED  BY <1>1, <1>2, <1>3 DEF Next

\* A cleanup makes its client a departed one.
LEMMA CleanupDeparts ==
  ASSUME SessionInv, NEW c \in Client, Cleanup(c)
  PROVE  Departed' # {}
<1>1. playerId[c] \in PlayerId
  BY CleanupUnseats
<1>2. playerId'[c] # 0 /\ handler'[c] = "gone"
  BY <1>1, MaxPlayersAssumption DEF SessionInv, TypeOK, Cleanup, PlayerId
<1>. QED  BY <1>2 DEF Departed

\* Every step keeps the bound on the ids, and with it their uniqueness.
LEMMA StepFirstGeneration ==
  SessionInv /\ FirstGenerationInv /\ [Next]_vars => FirstGenerationInv'
<1>. SUFFICES ASSUME SessionInv, FirstGenerationInv, [Next]_vars,
                     Departed' = {}, NEW d \in SeatedClients'
              PROVE  /\ playerId'[d] \in 1..playersCount'
                     /\ clientChannel'[playerId'[d]] = d
                     /\ champions'[playerId'[d]] = d
  BY DEF FirstGenerationInv
<1>1. Departed = {}
  BY DepartedGrows
<1>2. \A e \in SeatedClients : /\ playerId[e] \in 1..playersCount
                               /\ clientChannel[playerId[e]] = e
                               /\ champions[playerId[e]] = e
  BY <1>1 DEF FirstGenerationInv
<1>. USE DEF SeatedClients, Seated, managerVars, handlerVars, tickVars
<1>3. CASE UNCHANGED vars
  BY <1>2, <1>3 DEF vars
<1>4. CASE Tick
  BY <1>2, <1>4 DEF Tick, TickCheck, TickWait, TickRun, TickGameOver, TickSend
<1>5. ASSUME NEW c \in Client, Handler(c)
      PROVE  /\ playerId'[d] \in 1..playersCount'
             /\ clientChannel'[playerId'[d]] = d
             /\ champions'[playerId'[d]] = d
  <2>1. CASE Join(c)
    <3>1. /\ playersCount + 1 \in PlayerId
          /\ playersCount \in Nat
          /\ playersCount' = playersCount + 1
      BY <2>1, MaxPlayersAssumption
         DEF SessionInv, TypeOK, Join, AddPlayer, InsertChannel, SeatLeft, PlayerId
    <3>2. CASE d = c
      BY <2>1, <3>1, <3>2 DEF SessionInv, TypeOK, Join, AddPlayer, InsertChannel, SeatLeft
    <3>3. CASE d # c
      <4>1. d \in SeatedClients /\ playerId'[d] = playerId[d]
        BY <2>1, <3>3 DEF SessionInv, TypeOK, Join, AddPlayer, InsertChannel, SeatLeft
      <4>2. playerId[d] \in 1..playersCount
        BY <1>2, <4>1
      <4>3. playerId[d] # playersCount + 1 /\ playerId[d] \in 1..playersCount'
        BY <3>1, <4>2
      <4>4. /\ clientChannel'[playerId[d]] = clientChannel[playerId[d]]
            /\ champions'[playerId[d]] = champions[playerId[d]]
        BY <2>1, <4>1, <4>3 DEF SessionInv, TypeOK, IdsInv, Join, AddPlayer, InsertChannel, SeatLeft
      <4>. QED  BY <1>2, <4>1, <4>3, <4>4
    <3>. QED  BY <3>2, <3>3
  <2>2. CASE Cleanup(c)
    BY <2>2, CleanupDeparts
  <2>3. CASE ~Join(c) /\ ~Cleanup(c)
    <3>1. d \in SeatedClients /\ UNCHANGED <<playerId, playersCount, clientChannel, champions>>
      BY <1>5, <2>3 DEF SessionInv, TypeOK, Handler, BadHello, Reject,
                        VerifyStart, StoreAction, ShopReply, StopReading, Phase
    <3>. QED  BY <1>2, <3>1
  <2>. QED  BY <2>1, <2>2, <2>3
<1>. QED  BY <1>3, <1>4, <1>5 DEF Next

\* Every step keeps champions, channels and frames in agreement, id by id.
LEMMA StepFrames ==
  SessionInv /\ FramesInv /\ [Next]_vars => FramesInv'
<1>. SUFFICES ASSUME SessionInv, FramesInv, [Next]_vars,
                     Departed' = {}, NEW id \in PlayerId
              PROVE  /\ champions'[id] = clientChannel'[id]
                     /\ updates'[id] \in {None, champions'[id]}
                     /\ id > playersCount' => champions'[id] = None
  BY DEF FramesInv, PlayerId
<1>1. Departed = {}
  BY DepartedGrows
<1>2. /\ champions[id] = clientChannel[id]
      /\ updates[id] \in {None, champions[id]}
      /\ id > playersCount => champions[id] = None
  BY <1>1 DEF FramesInv
<1>. USE DEF managerVars, handlerVars, tickVars
<1>3. CASE UNCHANGED vars
  BY <1>2, <1>3 DEF vars
<1>4. CASE Tick
  BY <1>2, <1>4 DEF Tick, TickCheck, TickWait, TickRun, TickGameOver, TickSend
<1>5. ASSUME NEW c \in Client, Handler(c)
      PROVE  /\ champions'[id] = clientChannel'[id]
             /\ updates'[id] \in {None, champions'[id]}
             /\ id > playersCount' => champions'[id] = None
  <2>1. CASE Join(c)
    <3>1. /\ playersCount \in Nat /\ playersCount' = playersCount + 1
          /\ id \in Nat /\ updates' = updates
      BY <2>1, MaxPlayersAssumption
         DEF SessionInv, TypeOK, Join, AddPlayer, SeatLeft, PlayerId
    <3>2. /\ champions' = [champions EXCEPT ![playersCount + 1] = c]
          /\ clientChannel' = [clientChannel EXCEPT ![playersCount + 1] = c]
      BY <2>1 DEF Join, AddPlayer, InsertChannel
    <3>3. CASE id = playersCount + 1
      <4>1. champions[id] = None /\ updates[id] = None
        BY <1>2, <3>1, <3>3
      <4>2. champions'[id] = c /\ clientChannel'[id] = c
        BY <3>2, <3>3 DEF SessionInv, TypeOK
      <4>. QED  BY <3>1, <3>3, <4>1, <4>2
    <3>4. CASE id # playersCount + 1
      <4>1. champions'[id] = champions[id] /\ clientChannel'[id] = clientChannel[id]
        BY <3>2, <3>4 DEF SessionInv, TypeOK
      <4>. QED  BY <1>2, <3>1, <4>1
    <3>. QED  BY <3>3, <3>4
  <2>2. CASE Cleanup(c)
    BY <2>2, CleanupDeparts
  <2>3. CASE ~Join(c) /\ ~Cleanup(c)
    <3>1. UNCHANGED <<playersCount, clientChannel, champions, updates>>
      BY <1>5, <2>3 DEF SessionInv, TypeOK, Handler, BadHello, Reject,
                        VerifyStart, StoreAction, ShopReply, StopReading, Phase
    <3>. QED  BY <1>2, <3>1
  <2>. QED  BY <2>1, <2>2, <2>3
<1>. QED  BY <1>3, <1>4, <1>5 DEF Next

\* Until somebody leaves, every seated client has the id, the channel and the
\* champion that were made for it, no other client shares them, and the frames
\* it is sent are its own.
THEOREM FirstGenerationCorrect == Spec => []FirstGeneration
<1>1. Init => FirstGenerationInv /\ FramesInv
  BY DEF Init, FirstGenerationInv, FramesInv, SeatedClients, Seated
<1>2. FirstGenerationInv /\ FramesInv => FirstGeneration
  BY DEF FirstGenerationInv, FramesInv, FirstGeneration
<1>. QED
  BY <1>1, <1>2, StepFirstGeneration, StepFrames, SessionInvariant, PTL DEF Spec

-----------------------------------------------------------------------------
(* The tick task and the life cycle of the match                           *)

\* Every step keeps the tick task behind the first start.
LEMMA StepStart == SessionInv /\ StartInv /\ [Next]_vars => StartInv'
<1>. SUFFICES ASSUME SessionInv, StartInv, [Next]_vars PROVE StartInv'
  OBVIOUS
<1>. USE DEF StartInv, TicksAfterStart, managerVars, handlerVars, tickVars
<1>1. CASE UNCHANGED vars
  BY <1>1 DEF vars
<1>2. CASE Tick
  <2>1. CASE TickCheck
    BY <1>2, <2>1 DEF TickCheck, Tick
  <2>2. CASE ~TickCheck
    BY <1>2, <2>2 DEF Tick, TickWait, TickRun, TickGameOver, TickSend
  <2>. QED  BY <2>1, <2>2
<1>3. ASSUME NEW c \in Client, Handler(c) PROVE StartInv'
  <2>1. UNCHANGED <<tickTask, exited>>
    BY <1>3 DEF Handler, BadHello, Join, Reject, VerifyStart, StoreAction,
                ShopReply, StopReading, Cleanup
  <2>2. (startTimeSet => startTimeSet') /\ (gameStarted' => startTimeSet')
    <3>1. CASE Join(c)
      BY <3>1 DEF Join, AddPlayer, InsertChannel, SeatLeft
    <3>2. CASE Cleanup(c)
      BY <3>2, CleanupUnseats DEF Cleanup, RemovePlayer
    <3>3. CASE ~Join(c) /\ ~Cleanup(c)
      BY <1>3, <3>3 DEF Handler, BadHello, Reject, VerifyStart, StoreAction,
                        ShopReply, StopReading
    <3>. QED  BY <3>1, <3>2, <3>3
  <2>. QED  BY <2>1, <2>2
<1>. QED  BY <1>1, <1>2, <1>3 DEF Next

\* No tick is prepared, sent or ends the process before the first start.
THEOREM TicksCorrect == Spec => []TicksAfterStart
<1>1. Init => StartInv
  BY DEF Init, StartInv, TicksAfterStart
<1>. QED  BY <1>1, StepStart, SessionInvariant, PTL DEF Spec, StartInv

\* Every step of the session is a step of the abstract match, or leaves it
\* alone.
LEMMA StepLifecycle ==
  SessionInv /\ StartInv /\ [Next]_vars
    => [Lifecycle!Next]_(Lifecycle!lifecycleVars)
<1>. SUFFICES ASSUME SessionInv, StartInv, [Next]_vars
              PROVE  Lifecycle!Next \/ UNCHANGED Lifecycle!lifecycleVars
  OBVIOUS
<1>. USE DEF Lifecycle!lifecycleVars, managerVars, handlerVars, tickVars
<1>1. ASSUME SeatedClients' = SeatedClients,
             UNCHANGED <<gameStarted, startTimeSet, exited>>
      PROVE  UNCHANGED Lifecycle!lifecycleVars
  BY <1>1
<1>2. CASE UNCHANGED vars
  BY <1>1, <1>2 DEF vars, SeatedClients, Seated
<1>3. CASE Tick
  <2>1. CASE TickGameOver
    <3>1. SeatedClients' = SeatedClients
      BY <2>1 DEF TickGameOver, SeatedClients, Seated
    <3>2. ~exited /\ startTimeSet /\ exited' = TRUE
      BY <1>3, <2>1 DEF Tick, TickGameOver, StartInv, TicksAfterStart
    <3>3. Lifecycle!Finish
      BY <2>1, <3>1, <3>2 DEF TickGameOver, Lifecycle!Finish
    <3>. QED  BY <3>3 DEF Lifecycle!Next
  <2>2. CASE ~TickGameOver
    BY <1>1, <1>3, <2>2 DEF Tick, TickCheck, TickWait, TickRun, TickSend,
                            SeatedClients, Seated
  <2>. QED  BY <2>1, <2>2
<1>4. ASSUME NEW c \in Client, Handler(c)
      PROVE  Lifecycle!Next \/ UNCHANGED Lifecycle!lifecycleVars
  <2>1. CASE Join(c)
    <3>1. /\ SeatedClients' = SeatedClients \cup {c}
          /\ c \notin SeatedClients
          /\ Cardinality(SeatedClients') = Cardinality(SeatedClients) + 1
      BY <2>1, JoinSeats
    <3>2. Cardinality(SeatedClients) = playersCount
      BY DEF SessionInv, CountIsSeated
    <3>3. playersCount # MaxPlayers /\ playersCount < MaxPlayers
      BY <2>1, MaxPlayersAssumption DEF SessionInv, TypeOK, Join, SeatLeft
    <3>4. gameStarted = FALSE
      BY <3>3 DEF SessionInv, TypeOK, StartedIffFull
    <3>5. gameStarted' = (Cardinality(SeatedClients') = MaxPlayers)
      BY <2>1, <3>1, <3>2, <3>4 DEF Join, AddPlayer, InsertChannel, SeatLeft
    <3>6. startTimeSet' = (startTimeSet \/ gameStarted')
      BY <2>1, <3>4 DEF Join, AddPlayer, InsertChannel, SeatLeft
    <3>7. \A S : Lifecycle!Cardinality(S) = Cardinality(S)
      BY DEF Cardinality, Lifecycle!Cardinality
    <3>8. Lifecycle!Join(c)
      BY <1>4, <3>1, <3>2, <3>3, <3>5, <3>6, <3>7 DEF Handler, Lifecycle!Join
    <3>. QED  BY <3>8 DEF Lifecycle!Next
  <2>2. CASE Cleanup(c)
    <3>1. /\ SeatedClients' = SeatedClients \ {c}
          /\ c \in SeatedClients
          /\ playersCount > 0
          /\ gameStarted' = FALSE
      BY <2>2, CleanupUnseats
    <3>2. Lifecycle!Leave(c)
      BY <1>4, <2>2, <3>1 DEF Handler, Cleanup, RemovePlayer, Lifecycle!Leave
    <3>. QED  BY <3>2 DEF Lifecycle!Next
  <2>3. CASE BadHello(c) \/ Reject(c)
    <3>1. SeatedClients' = SeatedClients
      BY <2>3, SameSeats DEF SessionInv, BadHello, Reject, Phase, Seated
    <3>. QED  BY <1>1, <1>4, <2>3, <3>1 DEF Handler, BadHello, Reject
  <2>4. CASE VerifyStart(c) \/ StopReading(c)
    <3>1. SeatedClients' = SeatedClients
      BY <2>4, SameSeats DEF SessionInv, VerifyStart, StopReading, Phase, Seated
    <3>. QED  BY <1>1, <1>4, <2>4, <3>1 DEF Handler, VerifyStart, StopReading
  <2>5. CASE StoreAction(c) \/ ShopReply(c)
    BY <1>1, <1>4, <2>5 DEF Handler, StoreAction, ShopReply, SeatedClients, Seated
  <2>. QED  BY <1>4, <2>1, <2>2, <2>3, <2>4, <2>5 DEF Handler
<1>. QED  BY <1>2, <1>3, <1>4 DEF Next

\* The session implements the life cycle of a match: never more members than
\* seats, running exactly while full, over only after it has run and for good.
THEOREM LifecycleRefined == Spec => ImplementsLifecycle
<1>1. Init => Lifecycle!Init
  BY DEF Init, Lifecycle!Init, SeatedClients, Seated
<1>2. Init => StartInv
  BY DEF Init, StartInv, TicksAfterStart
<1>. QED  BY <1>1, <1>2, StepStart, StepLifecycle, SessionInvariant, PTL
          DEF Spec, Lifecycle!Spec, ImplementsLifecycle

=============================================================================
