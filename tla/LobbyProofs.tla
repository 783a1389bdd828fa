----------------------------- MODULE LobbyProofs ------------------------------
(***************************************************************************)
(* Theorems about the way into a match: ClientScreens, the terminal client *)
(* between its connections; EventBroker, the request path of the Go        *)
(* server; Matchmaking, the rooms it promises.  Each of the three has      *)
(* variables and a specification of its own.                               *)
(***************************************************************************)
EXTENDS ClientScreens, EventBroker, Matchmaking,
        FiniteSetTheorems, SequenceTheorems, TLAPS

-----------------------------------------------------------------------------
(* The terminal client                                                     *)

\* A lobby connection is served, handed over or closed, a game connection waits,
\* plays or is closed, and a room is only answered on a lobby connection.
LinkInv(l) ==
  /\ links[l] \in Link
  /\ links[l].kind = "lobby" => links[l].server \in {"serving", "handedOver", "closed"}
  /\ links[l].kind = "game"  => links[l].server \in {"waiting", "playing", "closed"}
  /\ \A i \in DOMAIN links[l].feed : links[l].feed[i] = "room" => links[l].kind = "lobby"

\* Types, and where Update's two connections lead to.
LinksInv ==
  /\ links \in Seq(Link)
  /\ \A l \in DOMAIN links : LinkInv(l)
  /\ lobby \in 0..Len(links) /\ game \in 0..Len(links)
  /\ lobby # 0 => links[lobby].kind = "lobby"
  /\ game # 0 => links[game].kind = "game"
  /\ lobby = 0 => links = <<>> /\ ~dialling /\ screen \in {"dc", "quit"}
  /\ screen = "dc" => links = <<>>
  /\ screen \in Screen /\ dialling \in BOOLEAN /\ misled \in BOOLEAN

\* A lobby connection that can not bring a room any more.
NoRoom(l) == \A i \in DOMAIN links[l].feed : links[l].feed[i] # "room"
Spent(l) == links[l].server # "serving" /\ NoRoom(l)

OneRoom(l) ==
  \A i, j \in DOMAIN links[l].feed :
    links[l].feed[i] = "room" /\ links[l].feed[j] = "room" => i = j

\* Only the current lobby connection can bring a room, once, and it is spent from
\* the dialling on until a new one is made: by then the game connection is closed.
RoomInv ==
  /\ \A l \in DOMAIN links :
       /\ links[l].kind = "lobby" /\ l # lobby => Spent(l)
       /\ links[l].server = "serving" => NoRoom(l)
       /\ OneRoom(l)
       /\ links[l].kind = "game" /\ links[l].server # "closed" => l = game
  /\ dialling => screen = "lobby" /\ game = 0 /\ Spent(lobby)
  /\ game # 0 => Spent(lobby)
  /\ screen \in {"game", "shop", "gameover", "redial"} => Spent(lobby)
  /\ screen = "redial" => game = 0

\* Rooms come one at a time until a start of an old match is taken for a new one.
ScreensInv == LinksInv /\ (~misled => RoomInv)

Others == <<screen, dialling, lobby, game, backs, history>>

\* A link that changes on its own: what it must keep for the invariant.
Keeps(old, new) ==
  /\ new \in Link
  /\ new.kind = old.kind
  /\ \/ new.server = old.server
     \/ new.server = "closed"
     \/ old.server \in {"waiting", "playing"} /\ new.server = "playing"
  /\ \A i \in DOMAIN new.feed :
       new.feed[i] = "room" => i \in DOMAIN old.feed /\ old.feed[i] = "room"

\* Such a change keeps the invariant.
LEMMA LinkKept ==
  ASSUME ScreensInv, NEW l \in DOMAIN links, NEW new, Keeps(links[l], new),
         links' = [links EXCEPT ![l] = new], UNCHANGED Others
  PROVE  ScreensInv'
<1>1. /\ links' \in Seq(Link) /\ Len(links') = Len(links) /\ DOMAIN links' = DOMAIN links
      /\ links'[l] = new
      /\ \A k \in DOMAIN links : k # l => links'[k] = links[k]
  BY DEF ScreensInv, LinksInv, Keeps
<1>2. LinksInv'
  <2>1. ASSUME NEW k \in DOMAIN links PROVE LinkInv(k)'
    BY <1>1 DEF ScreensInv, LinksInv, LinkInv, Keeps, Link
  <2>2. /\ (lobby # 0 => links[lobby].kind = "lobby")'
        /\ (game # 0 => links[game].kind = "game")'
    BY <1>1 DEF ScreensInv, LinksInv, Keeps, Others
  <2>3. links = <<>> => links' = <<>>
    OBVIOUS
  <2>4. QED
    BY <1>1, <2>1, <2>2, <2>3 DEF ScreensInv, LinksInv, Others, history
<1>3. ASSUME ~misled PROVE RoomInv'
  <2>1. RoomInv
    BY <1>3 DEF ScreensInv
  <2>2. ASSUME NEW k \in DOMAIN links, Spent(k) PROVE Spent(k)'
    BY <1>1, <2>2 DEF Spent, NoRoom, Keeps, Link
  <2>3. ASSUME NEW k \in DOMAIN links
        PROVE  /\ (links[k].kind = "lobby" /\ k # lobby => Spent(k))'
               /\ (links[k].server = "serving" => NoRoom(k))'
               /\ OneRoom(k)'
               /\ (links[k].kind = "game" /\ links[k].server # "closed" => k = game)'
    BY <1>1, <2>1, <2>2 DEF RoomInv, NoRoom, OneRoom, Keeps, Link, Others
  <2>4. (lobby # 0 => lobby \in DOMAIN links) /\ (lobby = 0 => links = <<>>) /\ (game # 0 => lobby \in DOMAIN links)
    BY DEF ScreensInv, LinksInv
  <2>5. QED
    BY <1>1, <2>1, <2>2, <2>3, <2>4 DEF RoomInv, Others
<1>4. misled' = misled
  BY DEF Others, history
<1>5. QED
  BY <1>2, <1>3, <1>4 DEF ScreensInv

\* The answer with a room is the one step that adds a room to a connection: the
\* connection had none, and none follows.
LEMMA RoomAnswered ==
  ASSUME ScreensInv, NEW l \in DOMAIN links, links[l].server = "serving",
         links' = [links EXCEPT ![l] = [links[l] EXCEPT
                     !.feed = Append(@, "room"), !.asked = <<>>, !.server = "handedOver"]],
         UNCHANGED Others
  PROVE  ScreensInv'
<1> DEFINE old == links[l]
<1>1. old \in Link /\ old.feed \in Seq(Packet) /\ links \in Seq(Link) /\ LinkInv(l) /\ old.kind = "lobby"
  <2>1. old \in Link /\ links \in Seq(Link) /\ LinkInv(l)
    BY DEF ScreensInv, LinksInv
  <2>2. QED
    BY <2>1 DEF LinkInv, Link
<1>2. PICK new : /\ links' = [links EXCEPT ![l] = new] /\ new \in Link
                 /\ new.kind = "lobby" /\ new.server = "handedOver"
                 /\ new.feed = Append(old.feed, "room")
  <2>1. Append(old.feed, "room") \in Seq(Packet)
    BY <1>1 DEF Packet
  <2>2. <<>> \in Seq({"login", "room", "shop"})
    OBVIOUS
  <2> DEFINE answered == [old EXCEPT !.feed = Append(@, "room"), !.asked = <<>>,
                                     !.server = "handedOver"]
  <2>3. answered \in Link
    BY <1>1, <2>1, <2>2 DEF Link
  <2>4. /\ answered.kind = "lobby" /\ answered.server = "handedOver"
        /\ answered.feed = Append(old.feed, "room")
    BY <1>1 DEF Link
  <2>5. links' = [links EXCEPT ![l] = answered]
    OBVIOUS
  <2> HIDE DEF answered
  <2>6. QED
    BY <2>3, <2>4, <2>5
<1>3. /\ links' \in Seq(Link) /\ Len(links') = Len(links) /\ DOMAIN links' = DOMAIN links
      /\ links'[l] = new
      /\ \A k \in DOMAIN links : k # l => links'[k] = links[k]
  BY <1>1, <1>2
<1>4. LinksInv'
  <2>1. ASSUME NEW k \in DOMAIN links PROVE LinkInv(k)'
    <3>1. CASE k = l
      BY <1>2, <1>3, <3>1 DEF LinkInv
    <3>2. CASE k # l
      BY <1>3, <3>2 DEF ScreensInv, LinksInv, LinkInv
    <3>3. QED
      BY <3>1, <3>2
  <2>2. QED
    BY <1>1, <1>2, <1>3, <2>1 DEF ScreensInv, LinksInv, Others, history
<1>5. ASSUME ~misled PROVE RoomInv'
  <2>1. RoomInv /\ lobby \in DOMAIN links
    BY <1>5 DEF ScreensInv, LinksInv
  <2>2. l = lobby /\ NoRoom(l) /\ ~Spent(lobby)
    BY <1>1, <2>1 DEF RoomInv, Spent
  <2>3. OneRoom(l)'
    <3>1. ASSUME NEW i \in DOMAIN new.feed, new.feed[i] = "room" PROVE i = Len(old.feed) + 1
      BY <1>1, <1>2, <2>2, <3>1 DEF NoRoom
    <3>2. QED
      BY <1>3, <3>1 DEF OneRoom
  <2>4. ASSUME NEW k \in DOMAIN links
        PROVE  /\ (links[k].kind = "lobby" /\ k # lobby => Spent(k))'
               /\ (links[k].server = "serving" => NoRoom(k))'
               /\ OneRoom(k)'
               /\ (links[k].kind = "game" /\ links[k].server # "closed" => k = game)'
    <3>1. CASE k = l
      BY <1>2, <1>3, <2>2, <2>3, <3>1 DEF Others
    <3>2. CASE k # l
      BY <1>3, <2>1, <3>2 DEF RoomInv, Spent, NoRoom, OneRoom, Others
    <3>3. QED
      BY <3>1, <3>2
  <2>5. QED
    BY <1>3, <2>1, <2>2, <2>4 DEF RoomInv, Others
<1>6. QED
  BY <1>4, <1>5 DEF ScreensInv, Others, history

\* Closing a connection takes packets from it and adds a close.
LEMMA CutOffKeeps ==
  ASSUME NEW link \in Link, NEW n \in 0..Len(link.feed)
  PROVE  Keeps(link, CutOff(link, n)) /\ CutOff(link, n).server = "closed"
<1> DEFINE new == CutOff(link, n)
           short == Append(SubSeq(link.feed, 1, n), "close")
<1>1. /\ link.feed \in Seq(Packet) /\ SubSeq(link.feed, 1, n) \in Seq(Packet)
      /\ Len(SubSeq(link.feed, 1, n)) = n
      /\ \A i \in 1..n : SubSeq(link.feed, 1, n)[i] = link.feed[i]
  BY DEF Link
<1>2. short \in Seq(Packet) /\ Len(short) = n + 1 /\ short[n + 1] = "close"
      /\ \A i \in 1..n : short[i] = link.feed[i]
  BY <1>1 DEF Packet
<1> HIDE DEF short
<1>3. new = [link EXCEPT !.server = "closed", !.asked = <<>>,
                         !.feed = IF link.listening THEN short ELSE link.feed]
  BY DEF CutOff, short
<1>4. new \in Link
  <2>1. <<>> \in Seq({"login", "room", "shop"})
    OBVIOUS
  <2>2. (IF link.listening THEN short ELSE link.feed) \in Seq(Packet)
    BY <1>2 DEF Link
  <2>3. QED
    BY <2>1, <2>2, <1>3 DEF Link
<1>5. new.kind = link.kind /\ new.server = "closed"
      /\ new.feed = IF link.listening THEN short ELSE link.feed
  BY <1>3 DEF Link
<1>6. \A i \in DOMAIN new.feed :
        new.feed[i] = "room" => i \in DOMAIN link.feed /\ link.feed[i] = "room"
  BY <1>1, <1>2, <1>5
<1>7. QED
  BY <1>4, <1>5, <1>6 DEF Keeps

\* The two kinds of connection that are made.
LEMMA NewLinks == NewLobbyLink \in Link /\ NewGameLink \in Link
  BY DEF NewLobbyLink, NewGameLink, Link

\* A connection is made: the others stay.
Added(link) ==
  /\ links' \in Seq(Link) /\ Len(links') = Len(links) + 1
  /\ DOMAIN links' = DOMAIN links \cup {Len(links) + 1}
  /\ links'[Len(links) + 1] = link
  /\ \A k \in DOMAIN links : links'[k] = links[k]

\* That is what Append does.
LEMMA AppendAdds ==
  ASSUME NEW link \in Link, links \in Seq(Link), links' = Append(links, link)
  PROVE  Added(link)
  BY DEF Added

\* Every step of the client, of its connections and of their servers' sides keeps
\* the invariant.
LEMMA NextKeepsInv == ScreensInv /\ [ScreensNext]_screensVars => ScreensInv'
<1> SUFFICES ASSUME ScreensInv, [ScreensNext]_screensVars PROVE ScreensInv'
  OBVIOUS
<1> DEFINE End == Len(links) + 1
<1>1. ASSUME Connect PROVE ScreensInv'
  <2>1. links = <<>> /\ game = 0 /\ links' = <<NewLobbyLink>> /\ Len(links') = 1
    BY <1>1 DEF Connect, ScreensInv, LinksInv
  <2>2. NewLobbyLink \in Link
    BY DEF NewLobbyLink, Link
  <2> links' \in Seq(Link) /\ DOMAIN links' = {1} /\ links'[1] = NewLobbyLink
    BY <2>1, <2>2
  <2>3. LinksInv'
    BY <1>1, <2>1, <2>2 DEF Connect, ScreensInv, LinksInv, LinkInv, NewLobbyLink, Screen, history
  <2>4. ASSUME ~misled PROVE RoomInv'
    BY <1>1, <2>1, <2>4
    DEF Connect, ScreensInv, LinksInv, RoomInv, NewLobbyLink, Spent, NoRoom, OneRoom, history
  <2>5. QED
    BY <1>1, <2>3, <2>4 DEF Connect, ScreensInv, history
<1>2. CASE PressEnter
  BY <1>2 DEF PressEnter, ScreensInv, LinksInv, LinkInv, RoomInv, Spent, NoRoom, OneRoom, Screen, history
<1>3. ASSUME Ask PROVE ScreensInv'
  <2>1. PICK l \in {lobby, game}, request \in {"login", "room", "shop"} :
          Asks(l, request) /\ screen \in {"login", "lobby", "game", "shop"} /\ (l = game => game # 0 \/ l = lobby)
    BY <1>3 DEF Ask
  <2>2. l \in DOMAIN links
    BY <2>1 DEF ScreensInv, LinksInv
  <2> DEFINE new == [links[l] EXCEPT !.asked = Append(@, request)]
  <2>3. links' = [links EXCEPT ![l] = new] /\ UNCHANGED Others
    BY <1>3, <2>1 DEF Ask, Asks, Others
  <2>4. Keeps(links[l], new)
    <3>1. links[l] \in Link
      BY <2>2 DEF ScreensInv, LinksInv
    <3>2. Append(links[l].asked, request) \in Seq({"login", "room", "shop"})
      BY <3>1 DEF Link
    <3>3. new \in Link
      BY <3>1, <3>2 DEF Link
    <3>4. QED
      BY <3>1, <3>3 DEF Keeps, Link
  <2>5. QED
    BY <2>2, <2>3, <2>4, LinkKept
<1>4. CASE LeaveShop
  BY <1>4 DEF LeaveShop, ScreensInv, LinksInv, LinkInv, RoomInv, Spent, NoRoom, OneRoom, history
<1>5. CASE BackToGame
  BY <1>5 DEF BackToGame, ScreensInv, LinksInv, LinkInv, RoomInv, Spent, NoRoom, OneRoom, Screen, history
<1>6. CASE Quit
  BY <1>6 DEF Quit, Updating, ScreensInv, LinksInv, LinkInv, RoomInv, Spent, NoRoom, OneRoom, Screen, history
<1>7. ASSUME GoToLobby PROVE ScreensInv'
  <2>1. LinksInv' /\ (~misled => RoomInv')
    <3>1. CASE game = 0
      BY <1>7, <3>1 DEF GoToLobby, CloseGame, ScreensInv, LinksInv, LinkInv, RoomInv, Spent, NoRoom,
                        OneRoom, Screen, history
    <3>2. CASE game # 0
      <4>1. game \in DOMAIN links
        BY <3>2 DEF ScreensInv, LinksInv
      <4>2. PICK n \in 0..Len(links[game].feed) :
              links' = [links EXCEPT ![game] = CutOff(@, n)]
        BY <1>7, <3>2 DEF GoToLobby, CloseGame
      <4>3. PICK cut : cut = CutOff(links[game], n) /\ Keeps(links[game], cut) /\ cut.server = "closed"
        BY <4>1, CutOffKeeps DEF ScreensInv, LinksInv
      <4>4. /\ links' \in Seq(Link) /\ Len(links') = Len(links) /\ DOMAIN links' = DOMAIN links
            /\ links'[game] = cut
            /\ \A k \in DOMAIN links : k # game => links'[k] = links[k]
        BY <4>1, <4>2, <4>3 DEF ScreensInv, LinksInv, Keeps
      <4>5. LinksInv'
        <5>1. ASSUME NEW k \in DOMAIN links PROVE LinkInv(k)'
          <6>1. LinkInv(k)
            BY DEF ScreensInv, LinksInv
          <6>2. CASE k = game
            BY <4>3, <4>4, <6>1, <6>2 DEF LinkInv, Keeps, Link
          <6>3. CASE k # game
            BY <4>4, <6>1, <6>3 DEF LinkInv
          <6>4. QED
            BY <6>2, <6>3
        <5>2. QED
          BY <1>7, <4>1, <4>3, <4>4, <5>1 DEF GoToLobby, ScreensInv, LinksInv, Keeps, Screen, history
      <4>6. ASSUME ~misled PROVE RoomInv'
        <5>1. RoomInv
          BY <4>6 DEF ScreensInv
        <5>2. ASSUME NEW k \in DOMAIN links, Spent(k) PROVE Spent(k)'
          <6>1. CASE k = game
            BY <4>3, <4>4, <5>2, <6>1 DEF Spent, NoRoom, Keeps
          <6>2. CASE k # game
            BY <4>4, <5>2, <6>2 DEF Spent, NoRoom
          <6>3. QED
            BY <6>1, <6>2
        <5>3. ASSUME NEW k \in DOMAIN links
              PROVE  /\ (links[k].kind = "lobby" /\ k # lobby => Spent(k))'
                     /\ (links[k].server = "serving" => NoRoom(k))'
                     /\ OneRoom(k)'
                     /\ (links[k].kind = "game" /\ links[k].server # "closed" => k = game)'
          <6>1. CASE k = game
            BY <1>7, <4>3, <4>4, <5>1, <5>2, <6>1 DEF GoToLobby, RoomInv, NoRoom, OneRoom, Keeps
          <6>2. CASE k # game
            BY <1>7, <4>4, <5>1, <5>2, <6>2 DEF GoToLobby, RoomInv, NoRoom, OneRoom
          <6>3. QED
            BY <6>1, <6>2
        <5>4. lobby \in DOMAIN links
          BY <4>1 DEF ScreensInv, LinksInv
        <5>5. QED
          BY <1>7, <4>4, <5>1, <5>2, <5>3, <5>4 DEF GoToLobby, RoomInv
      <4>7. QED
        BY <4>5, <4>6
    <3>3. QED
      BY <3>1, <3>2
  <2>2. QED
    BY <1>7, <2>1 DEF GoToLobby, ScreensInv, history
<1>8. ASSUME Redial PROVE ScreensInv'
  <2>1. Added(NewLobbyLink)
    BY <1>8, NewLinks, AppendAdds DEF Redial, ScreensInv, LinksInv
  <2>2. ASSUME NEW k \in DOMAIN links, Spent(k) PROVE Spent(k)'
    BY <2>1, <2>2 DEF Added, Spent, NoRoom
  <2>3. LinksInv'
    BY <1>8, <2>1, NewLinks
    DEF Redial, Added, ScreensInv, LinksInv, LinkInv, NewLobbyLink, Screen, history
  <2>4. ASSUME ~misled PROVE RoomInv'
    <3>1. RoomInv /\ lobby \in DOMAIN links /\ game = 0
      BY <1>8, <2>4 DEF Redial, ScreensInv, LinksInv, RoomInv
    <3>2. ASSUME NEW k \in DOMAIN links'
          PROVE  /\ (links[k].kind = "lobby" /\ k # lobby => Spent(k))'
                 /\ (links[k].server = "serving" => NoRoom(k))'
                 /\ OneRoom(k)'
                 /\ (links[k].kind = "game" /\ links[k].server # "closed" => k = game)'
      <4>1. CASE k \in DOMAIN links
        BY <1>8, <2>1, <2>2, <3>1, <4>1 DEF Redial, Added, RoomInv, NoRoom, OneRoom
      <4>2. CASE k = End
        BY <1>8, <2>1, <4>2 DEF Redial, Added, NewLobbyLink, NoRoom, OneRoom
      <4>3. QED
        BY <2>1, <4>1, <4>2 DEF Added
    <3>3. QED
      BY <1>8, <3>1, <3>2 DEF Redial, RoomInv, ScreensInv, LinksInv
  <2>5. QED
    BY <1>8, <2>3, <2>4 DEF Redial, ScreensInv, history
<1>9. ASSUME Dialled PROVE ScreensInv'
  <2>1. Added(NewGameLink)
    BY <1>9, NewLinks, AppendAdds DEF Dialled, ScreensInv, LinksInv
  <2>2. ASSUME NEW k \in DOMAIN links, Spent(k) PROVE Spent(k)'
    BY <2>1, <2>2 DEF Added, Spent, NoRoom
  <2>3. LinksInv'
    <3>1. ASSUME NEW k \in DOMAIN links' PROVE LinkInv(k)'
      <4>1. CASE k \in DOMAIN links
        BY <2>1, <4>1 DEF Added, ScreensInv, LinksInv, LinkInv
      <4>2. CASE k = End
        BY <2>1, <4>2, NewLinks DEF Added, LinkInv, NewGameLink
      <4>3. QED
        BY <2>1, <4>1, <4>2 DEF Added
    <3>2. lobby # 0 /\ lobby \in DOMAIN links /\ links' # <<>> /\ screen # "dc"
      BY <1>9, <2>1 DEF Dialled, Added, ScreensInv, LinksInv
    <3>3. /\ (lobby # 0 => links[lobby].kind = "lobby")'
          /\ (game # 0 => links[game].kind = "game")'
          /\ lobby' \in 0..Len(links') /\ game' \in 0..Len(links') /\ links' \in Seq(Link)
      BY <1>9, <2>1, <3>2 DEF Dialled, Added, ScreensInv, LinksInv, NewGameLink
    <3>4. QED
      BY <1>9, <3>1, <3>2, <3>3 DEF Dialled, ScreensInv, LinksInv, history
  <2>4. ASSUME ~misled PROVE RoomInv'
    <3>1. RoomInv /\ lobby \in DOMAIN links /\ game = 0 /\ screen = "lobby"
      BY <1>9, <2>4 DEF Dialled, ScreensInv, LinksInv, RoomInv
    <3>2. ASSUME NEW k \in DOMAIN links'
          PROVE  /\ (links[k].kind = "lobby" /\ k # lobby => Spent(k))'
                 /\ (links[k].server = "serving" => NoRoom(k))'
                 /\ OneRoom(k)'
                 /\ (links[k].kind = "game" /\ links[k].server # "closed" => k = game)'
      <4>1. CASE k \in DOMAIN links
        BY <1>9, <2>1, <2>2, <3>1, <4>1 DEF Dialled, Added, RoomInv, NoRoom, OneRoom
      <4>2. CASE k = End
        BY <1>9, <2>1, <4>2 DEF Dialled, Added, NewGameLink, NoRoom, OneRoom
      <4>3. QED
        BY <2>1, <4>1, <4>2 DEF Added
    <3>3. QED
      BY <1>9, <2>2, <3>1, <3>2 DEF Dialled, RoomInv, ScreensInv, LinksInv
  <2>5. QED
    BY <1>9, <2>3, <2>4 DEF Dialled, ScreensInv, history
<1>10. ASSUME NEW l \in DOMAIN links, Deliver(l) PROVE ScreensInv'
  <2> DEFINE old == links[l]
             packet == Head(old.feed)
  <2>1. /\ links \in Seq(Link) /\ old \in Link /\ old.feed \in Seq(Packet) /\ old.feed # <<>>
        /\ packet = old.feed[1] /\ 1 \in DOMAIN old.feed /\ packet \in Packet
    <3>1. links \in Seq(Link) /\ old \in Link
      BY DEF ScreensInv, LinksInv
    <3>2. old.feed \in Seq(Packet) /\ old.feed # <<>>
      BY <1>10, <3>1 DEF Deliver, Link
    <3>3. QED
      BY <3>1, <3>2
  <2>2. PICK new : /\ new \in Link /\ new.kind = old.kind /\ new.server = old.server
                   /\ new.feed = Tail(old.feed)
                   /\ links' = [links EXCEPT ![l] = new]
    <3>1. Tail(old.feed) \in Seq(Packet)
      BY <2>1
    <3>2. links' = [links EXCEPT ![l] = [old EXCEPT !.feed = Tail(@), !.listening = packet # "close"]]
      BY <1>10 DEF Deliver
    <3>3. [old EXCEPT !.feed = Tail(@), !.listening = packet # "close"] \in Link
      BY <2>1, <3>1 DEF Link
    <3>4. QED
      BY <2>1, <3>2, <3>3 DEF Link
  <2>3. /\ Len(new.feed) = Len(old.feed) - 1
        /\ \A i \in DOMAIN new.feed : i + 1 \in DOMAIN old.feed /\ new.feed[i] = old.feed[i + 1]
        /\ DOMAIN new.feed \subseteq Nat
    BY <2>1, <2>2
  <2>4. /\ links' \in Seq(Link) /\ Len(links') = Len(links) /\ DOMAIN links' = DOMAIN links
        /\ links'[l] = new
        /\ \A k \in DOMAIN links : k # l => links'[k] = links[k]
    BY <2>1, <2>2
  <2>9. NoRoom(l) => NoRoom(l)'
    BY <2>3, <2>4 DEF NoRoom
  <2>10. OneRoom(l) => OneRoom(l)'
    <3>1. SUFFICES ASSUME OneRoom(l), NEW i \in DOMAIN new.feed, NEW j \in DOMAIN new.feed,
                          new.feed[i] = "room", new.feed[j] = "room"
                   PROVE  i = j
      BY <2>4 DEF OneRoom
    <3>2. i + 1 = j + 1 /\ i \in Nat /\ j \in Nat
      BY <2>3, <3>1 DEF OneRoom
    <3>3. QED
      BY <3>2
  <2>5. /\ screen' = Turns(packet) /\ dialling' = (screen = "lobby" /\ packet = "room")
        /\ misled' = (misled \/ (screen = "lobby" /\ packet = "start" /\ l # game))
        /\ UNCHANGED <<lobby, game>> /\ screen \notin {"redial", "quit"} /\ ~dialling
    BY <1>10 DEF Deliver, Updating
  <2> HIDE DEF packet
  <2>6. LinksInv'
    <3>1. ASSUME NEW k \in DOMAIN links PROVE LinkInv(k)'
      <4>1. LinkInv(k)
        BY DEF ScreensInv, LinksInv
      <4>2. CASE k = l
        BY <2>2, <2>3, <2>4, <4>1, <4>2 DEF LinkInv
      <4>3. CASE k # l
        BY <2>4, <4>1, <4>3 DEF LinkInv
      <4>4. QED
        BY <4>2, <4>3
    <3>2. screen' \in Screen /\ (screen' \in {"dc", "quit"} => screen' = screen)
      BY <2>5 DEF Turns, Screen, ScreensInv, LinksInv
    <3>3. lobby # 0 /\ links # <<>>
      BY DEF ScreensInv, LinksInv
    <3>4. QED
      BY <2>2, <2>4, <2>5, <3>1, <3>2, <3>3 DEF ScreensInv, LinksInv
  <2>7. ASSUME ~misled' PROVE RoomInv'
    <3>1. RoomInv /\ lobby \in DOMAIN links /\ (screen = "lobby" /\ packet = "start" => l = game)
      <4>1. ~misled /\ (screen = "lobby" /\ packet = "start" => l = game)
        BY <2>5, <2>7 DEF ScreensInv, LinksInv
      <4>2. lobby \in DOMAIN links
        BY DEF ScreensInv, LinksInv
      <4>3. QED
        BY <4>1, <4>2 DEF ScreensInv
    <3>2. ASSUME NEW k \in DOMAIN links, Spent(k) PROVE Spent(k)'
      <4>1. CASE k = l
        BY <2>2, <2>4, <2>9, <3>2, <4>1 DEF Spent
      <4>2. CASE k # l
        BY <2>4, <3>2, <4>2 DEF Spent, NoRoom
      <4>3. QED
        BY <4>1, <4>2
    <3>3. ASSUME NEW k \in DOMAIN links
          PROVE  /\ (links[k].kind = "lobby" /\ k # lobby => Spent(k))'
                 /\ (links[k].server = "serving" => NoRoom(k))'
                 /\ OneRoom(k)'
                 /\ (links[k].kind = "game" /\ links[k].server # "closed" => k = game)'
      <4>1. CASE k = l
        BY <2>2, <2>4, <2>5, <2>9, <2>10, <3>1, <3>2, <4>1 DEF RoomInv
      <4>2. CASE k # l
        BY <2>4, <2>5, <3>1, <3>2, <4>2 DEF RoomInv, NoRoom, OneRoom
      <4>3. QED
        BY <4>1, <4>2
    <3>4. packet = "room" => l = lobby /\ ~NoRoom(lobby) /\ Spent(lobby)'
      <4>1. ASSUME packet = "room" PROVE l = lobby /\ ~NoRoom(lobby) /\ old.server # "serving"
        BY <2>1, <3>1, <4>1 DEF ScreensInv, LinksInv, LinkInv, RoomInv, Spent, NoRoom, packet
      <4>2. ASSUME packet = "room", NEW i \in DOMAIN new.feed PROVE new.feed[i] # "room"
        <5>1. OneRoom(l) /\ old.feed[1] = "room" /\ 1 \in DOMAIN old.feed
          BY <2>1, <3>1, <4>2 DEF RoomInv, packet
        <5>2. i \in Nat \ {0} /\ i + 1 # 1
          BY <2>1, <2>2, <2>3
        <5>3. i + 1 \in DOMAIN old.feed /\ new.feed[i] = old.feed[i + 1]
          BY <2>3
        <5>4. QED
          BY <5>1, <5>2, <5>3 DEF OneRoom
      <4>3. QED
        BY <2>2, <2>4, <2>5, <4>1, <4>2 DEF Spent, NoRoom
    <3>5. (dialling => screen = "lobby" /\ game = 0 /\ Spent(lobby))'
      BY <2>5, <3>1, <3>4 DEF RoomInv, Turns, Spent
    <3>6. (game # 0 => Spent(lobby))'
      BY <2>5, <3>1, <3>2 DEF RoomInv, Spent
    <3>7. (screen \in {"game", "shop", "gameover", "redial"} => Spent(lobby))'
      <4>1. CASE screen \in {"game", "shop", "gameover", "redial"}
        BY <2>5, <3>1, <3>2, <4>1 DEF RoomInv, Spent
      <4>2. CASE screen \notin {"game", "shop", "gameover", "redial"}
        BY <2>5, <3>1, <3>2, <4>2 DEF RoomInv, Turns, Spent, ScreensInv, LinksInv
      <4>3. QED
        BY <4>1, <4>2
    <3>8. screen' # "redial"
      BY <2>5 DEF Turns
    <3>9. QED
      BY <2>4, <3>3, <3>5, <3>6, <3>7, <3>8 DEF RoomInv
  <2>8. QED
    BY <2>6, <2>7 DEF ScreensInv
<1>11. ASSUME NEW l \in DOMAIN links, Server(l) PROVE ScreensInv'
  <2> DEFINE old == links[l]
  <2>1. /\ links \in Seq(Link) /\ old \in Link /\ old.feed \in Seq(Packet)
        /\ old.asked \in Seq({"login", "room", "shop"}) /\ LinkInv(l)
    <3>1. links \in Seq(Link) /\ old \in Link /\ LinkInv(l)
      BY DEF ScreensInv, LinksInv
    <3>2. QED
      BY <3>1 DEF Link
  <2>2. UNCHANGED Others
    BY <1>11 DEF Server, Others
  <2>3. ASSUME NEW packet \in Packet \ {"room"}
        PROVE  /\ Sends(l, packet) \in Seq(Packet)
               /\ \A i \in DOMAIN Sends(l, packet) : Sends(l, packet)[i] = "room" =>
                    i \in DOMAIN old.feed /\ old.feed[i] = "room"
    BY <2>1 DEF Sends
  <2>4. old.asked # <<>> => Tail(old.asked) \in Seq({"login", "room", "shop"})
    BY <2>1
  <2>5. <<>> \in Seq({"login", "room", "shop"})
    OBVIOUS
  <2>6. CASE AnswerLogin(l)
    <3>1. PICK answer \in {"yes", "no"} :
            links' = [links EXCEPT ![l] = [old EXCEPT !.feed = Sends(l, answer), !.asked = Tail(@)]]
      BY <2>6 DEF AnswerLogin
    <3>2. Keeps(old, [old EXCEPT !.feed = Sends(l, answer), !.asked = Tail(@)])
      <4>1. [old EXCEPT !.feed = Sends(l, answer), !.asked = Tail(@)] \in Link
        BY <2>1, <2>3, <2>4, <2>6 DEF AnswerLogin, Link, Packet
      <4>2. answer \in Packet \ {"room"}
        BY DEF Packet
      <4>3. QED
        BY <2>1, <2>3, <4>1, <4>2 DEF Keeps, Link
    <3>3. QED
      BY <2>2, <3>1, <3>2, LinkKept
  <2>7. CASE AnswerRoom(l)
    <3>1. CASE links' = [links EXCEPT ![l].asked = Tail(@)]
      <4>1. Keeps(old, [old EXCEPT !.asked = Tail(@)])
        BY <2>1, <2>4, <2>7 DEF AnswerRoom, Keeps, Link
      <4>2. QED
        BY <2>2, <3>1, <4>1, LinkKept
    <3>2. CASE links' = [links EXCEPT ![l].feed = Sends(l, "room"), ![l].asked = <<>>,
                                      ![l].server = AfterRoom]
      BY <2>1, <2>2, <2>5, <2>7, <3>2, RoomAnswered DEF AnswerRoom, Sends, AfterRoom, Others
    <3>3. QED
      BY <2>7, <3>1, <3>2 DEF AnswerRoom
  <2>8. CASE Collected(l)
    <3>1. Keeps(old, [old EXCEPT !.feed = Sends(l, "close"), !.server = "closed"])
      BY <2>1, <2>3 DEF Keeps, Link, Packet
    <3>2. QED
      BY <2>2, <2>8, <3>1, LinkKept DEF Collected
  <2>9. CASE Announce(l)
    <3>1. Keeps(old, [old EXCEPT !.feed = Sends(l, "start"), !.server = "playing"])
      BY <2>1, <2>3, <2>9 DEF Announce, Keeps, Link, Packet
    <3>2. QED
      BY <2>2, <2>9, <3>1, LinkKept DEF Announce
  <2>10. CASE AnswerShop(l)
    <3>1. PICK feed \in {old.feed, Sends(l, "shop")} :
            links' = [links EXCEPT ![l] = [old EXCEPT !.feed = feed, !.asked = Tail(@)]]
      BY <2>10 DEF AnswerShop
    <3>2. Keeps(old, [old EXCEPT !.feed = feed, !.asked = Tail(@)])
      <4>1. /\ feed \in Seq(Packet)
            /\ \A i \in DOMAIN feed :
                 feed[i] = "room" => i \in DOMAIN old.feed /\ old.feed[i] = "room"
        BY <2>1, <2>3 DEF Packet
      <4>2. [old EXCEPT !.feed = feed, !.asked = Tail(@)] \in Link
        BY <2>1, <2>4, <2>10, <4>1 DEF AnswerShop, Link
      <4>3. QED
        BY <2>1, <4>1, <4>2 DEF Keeps, Link
    <3>3. QED
      BY <2>2, <3>1, <3>2, LinkKept
  <2>11. CASE GameEnds(l)
    <3>1. Keeps(old, [old EXCEPT !.feed = Sends(l, "close"), !.asked = <<>>, !.server = "closed"])
      BY <2>1, <2>3, <2>5 DEF Keeps, Link, Packet
    <3>2. QED
      BY <2>2, <2>11, <3>1, LinkKept DEF GameEnds
  <2>12. QED
    BY <1>11, <2>6, <2>7, <2>8, <2>9, <2>10, <2>11 DEF Server
<1>12. CASE UNCHANGED screensVars
  BY <1>12 DEF screensVars, ScreensInv, LinksInv, LinkInv, RoomInv, Spent, NoRoom, OneRoom, history
<1>13. QED
  BY <1>1, <1>2, <1>3, <1>4, <1>5, <1>6, <1>7, <1>8, <1>9, <1>10, <1>11, <1>12 DEF ScreensNext

\* The invariant holds, however many connections the client makes.
THEOREM ScreensInvariant == ScreensSpec => []ScreensInv
<1>1. ScreensInit => ScreensInv
  <2> SUFFICES ASSUME ScreensInit PROVE ScreensInv
    OBVIOUS
  <2>1. links \in Seq(Link) /\ DOMAIN links = {} /\ Len(links) = 0 /\ links = <<>>
    BY DEF ScreensInit
  <2>2. QED
    <3>1. LinksInv
      <4>1. lobby = 0 /\ game = 0 /\ screen = "dc" /\ dialling = FALSE /\ misled = FALSE
        BY DEF ScreensInit
      <4>2. lobby \in 0..Len(links) /\ game \in 0..Len(links)
        BY <2>1, <4>1
      <4>3. screen \in Screen
        BY <4>1 DEF Screen
      <4>4. \A l \in DOMAIN links : LinkInv(l)
        BY <2>1
      <4>5. QED
        BY <2>1, <4>1, <4>2, <4>3, <4>4 DEF LinksInv
    <3>2. RoomInv
      BY <2>1 DEF ScreensInit, RoomInv
    <3>3. QED
      BY <3>1, <3>2 DEF ScreensInv
<1>2. QED
  BY <1>1, NextKeepsInv, PTL DEF ScreensSpec

\* The client of an orderly course has at most one open game connection, the one
\* Update holds: it never keeps a seat in a match it has left.
THEOREM OneGameAtATime == ScreensSpec => []OneGameConnection
<1>1. ScreensInv => OneGameConnection
  BY DEF ScreensInv, RoomInv, OneGameConnection
<1>2. QED
  BY <1>1, ScreensInvariant, PTL

-----------------------------------------------------------------------------
(* The broker                                                              *)

\* A goroutine that waits for an answer has asked for it.
AskedInv == \A c \in Conn : client[c] \in {"published", "parked"} => asked[c] \in Request

Waits(c, type) == client[c] = "parked" /\ asked[c].type = type

\* The line at a channel holds every goroutine parked there, each at one place:
\* the goroutine that Respond releases is one that is owed an answer.
LineInv(type) ==
  /\ \A i \in DOMAIN waiting[type] : Waits(waiting[type][i], type)
  /\ \A c \in Conn : Waits(c, type) => \E i \in DOMAIN waiting[type] : waiting[type][i] = c
  /\ \A i, j \in DOMAIN waiting[type] : waiting[type][i] = waiting[type][j] => i = j

LinesInv == \A type \in EventType : LineInv(type)

BrokerInv == BrokerTypeOK /\ AskedInv /\ LinesInv /\ OneAnswerOwed

-----------------------------------------------------------------------------
(* The steps                                                               *)

\* Types are kept by every step.
LEMMA TypesKept == BrokerTypeOK /\ AskedInv /\ LinesInv /\ [BrokerNext]_brokerVars => BrokerTypeOK'
<1> SUFFICES ASSUME BrokerTypeOK, AskedInv, LinesInv, [BrokerNext]_brokerVars PROVE BrokerTypeOK'
  OBVIOUS
<1> USE DEF BrokerTypeOK, Phase
<1>1. ASSUME NEW c \in Conn, NEW type \in EventType, Publish(c, type) PROVE BrokerTypeOK'
  <2>1. [from |-> c, type |-> type] \in Request
    BY DEF Request
  <2> QED  BY <1>1, <2>1 DEF Publish, Enqueue
<1>2. ASSUME NEW c \in Conn, Park(c) PROVE BrokerTypeOK'
  <2>1. asked[c].type \in EventType
    BY <1>2 DEF Park, AskedInv, Request
  <2> QED  BY <1>2, <2>1 DEF Park, JoinChannel, ResponseChannel
<1>3. ASSUME NEW c \in Conn, Disconnected(c) PROVE BrokerTypeOK'
  BY <1>3 DEF Disconnected, queueVars
<1>4. ASSUME NEW c \in Conn, Close(c) PROVE BrokerTypeOK'
  BY <1>4 DEF Close, queueVars
<1>5. CASE Dequeue
  <2>1. Head(queue) \in Request /\ Tail(queue) \in Seq(Request)
    BY <1>5, HeadTailProperties DEF Dequeue
  <2>2. \A answer \in Answers(Head(queue).type) :
          [from |-> Head(queue).from, type |-> Head(queue).type, answer |-> answer] \in Reply
    BY <2>1 DEF Request, Reply, Answers
  <2> QED  BY <1>5, <2>1, <2>2 DEF Dequeue, Hold, clientVars
<1>6. CASE Respond
  <2>1. holding \in Reply /\ holding.type \in EventType
    BY <1>6 DEF Respond, Reply
  <2>2. /\ Head(waiting[holding.type]) \in Conn
        /\ Tail(waiting[holding.type]) \in Seq(Conn)
    BY <1>6, <2>1, HeadTailProperties DEF Respond, ResponseChannel
  <2> QED  BY <1>6, <2>1, <2>2 DEF Respond, ResponseChannel, Release, NextPhase
<1>7. CASE UNCHANGED brokerVars
  BY <1>7 DEF brokerVars, clientVars, queueVars
<1> QED  BY <1>1, <1>2, <1>3, <1>4, <1>5, <1>6, <1>7 DEF BrokerNext

\* A goroutine enters the line that its own request names, at the end, and
\* leaves it from the front.
LEMMA LinesKept ==
  BrokerTypeOK /\ AskedInv /\ LinesInv /\ [BrokerNext]_brokerVars => (AskedInv /\ LinesInv)'
<1> SUFFICES ASSUME BrokerTypeOK, AskedInv, LinesInv, [BrokerNext]_brokerVars PROVE (AskedInv /\ LinesInv)'
  OBVIOUS
<1> USE DEF AskedInv, LinesInv, LineInv, Waits, BrokerTypeOK
<1>1. ASSUME NEW c \in Conn, NEW type \in EventType, Publish(c, type)
      PROVE  (AskedInv /\ LinesInv)'
  <2>1. [from |-> c, type |-> type] \in Request
    BY DEF Request
  <2> QED  BY <1>1, <2>1 DEF Publish
<1>2. ASSUME NEW c \in Conn, Park(c) PROVE (AskedInv /\ LinesInv)'
  <2>1. asked[c].type \in EventType /\ client[c] = "published"
    BY <1>2 DEF Park, Request
  <2>2. AskedInv'
    BY <1>2, <2>1 DEF Park, JoinChannel
  <2>3. \A d \in Conn, type \in EventType :
          Waits(d, type)' <=> Waits(d, type) \/ (d = c /\ type = asked[c].type)
    BY <1>2, <2>1 DEF Park, JoinChannel
  <2>4. ASSUME NEW type \in EventType, type # asked[c].type PROVE LineInv(type)'
    <3>1. waiting'[type] = waiting[type]
      BY <1>2, <2>4 DEF Park, JoinChannel, ResponseChannel
    <3> QED  BY <2>3, <2>4, <3>1
  <2>5. ASSUME NEW type \in EventType, type = asked[c].type PROVE LineInv(type)'
    <3> DEFINE line == waiting[type]
    <3>1. /\ line \in Seq(Conn) /\ Len(line) \in Nat
          /\ DOMAIN line = 1..Len(line) /\ line \in [1..Len(line) -> Conn]
          /\ waiting'[type] = Append(line, c)
      BY <1>2, <2>5 DEF Park, JoinChannel, ResponseChannel
    <3>2. /\ DOMAIN waiting'[type] = 1..Len(line) + 1
          /\ \A i \in 1..Len(line) : waiting'[type][i] = line[i]
          /\ waiting'[type][Len(line) + 1] = c
      BY <3>1
    <3>3. \A i \in DOMAIN line : line[i] # c
      BY <2>1
    <3>4. /\ \A i \in DOMAIN line : Waits(line[i], type)
          /\ \A d \in Conn : Waits(d, type) => \E i \in DOMAIN line : line[i] = d
          /\ \A i, j \in DOMAIN line : line[i] = line[j] => i = j
      OBVIOUS
    <3> HIDE DEF line, BrokerTypeOK, AskedInv, LinesInv
    <3> QED  BY <2>3, <2>5, <3>1, <3>2, <3>3, <3>4
  <2> QED  BY <2>2, <2>4, <2>5
<1>3. ASSUME NEW c \in Conn, Disconnected(c) PROVE (AskedInv /\ LinesInv)'
  BY <1>3 DEF Disconnected, queueVars
<1>4. ASSUME NEW c \in Conn, Close(c) PROVE (AskedInv /\ LinesInv)'
  BY <1>4 DEF Close, queueVars
<1>5. CASE Dequeue
  BY <1>5 DEF Dequeue, clientVars
<1>6. CASE Respond
  <2>1. PICK type \in EventType, line \in Seq(Conn), c \in Conn :
          /\ line = waiting[type] /\ line # <<>> /\ c = Head(line)
          /\ client' = [client EXCEPT ![c] = NextPhase(holding.answer)]
          /\ waiting' = [waiting EXCEPT ![type] = Tail(line)]
          /\ asked' = asked
    <3>1. holding.type \in EventType /\ waiting[holding.type] \in Seq(Conn)
      BY <1>6 DEF Respond, Reply
    <3>2. Head(waiting[holding.type]) \in Conn
      BY <1>6, <3>1, HeadTailProperties DEF Respond, ResponseChannel
    <3> USE <3>1, <3>2
    <3> WITNESS holding.type \in EventType, waiting[holding.type] \in Seq(Conn),
                Head(waiting[holding.type]) \in Conn
    <3> QED  BY <1>6 DEF Respond, ResponseChannel, Release
  <2>2. /\ Len(line) \in Nat \ {0} /\ DOMAIN line = 1..Len(line)
        /\ line \in [1..Len(line) -> Conn] /\ 1 \in DOMAIN line /\ c = line[1]
        /\ DOMAIN Tail(line) = 1..Len(line) - 1
        /\ \A i \in 1..Len(line) - 1 : Tail(line)[i] = line[i + 1]
    BY <2>1
  <2>3. /\ \A i \in DOMAIN line : Waits(line[i], type)
        /\ \A d \in Conn : Waits(d, type) => \E i \in DOMAIN line : line[i] = d
        /\ \A i, j \in DOMAIN line : line[i] = line[j] => i = j
    BY <2>1
  <2>4. Waits(c, type)
    BY <2>2, <2>3
  <2>5. NextPhase(holding.answer) \in {"reading", "done"}
    BY DEF NextPhase
  <2>6. AskedInv'
    BY <2>1, <2>5
  <2>7. \A d \in Conn, t \in EventType : Waits(d, t)' <=> Waits(d, t) /\ d # c
    BY <2>1, <2>5
  <2>8. ASSUME NEW t \in EventType, t # type PROVE LineInv(t)'
    <3>1. waiting'[t] = waiting[t]
      BY <2>1, <2>8
    <3>2. \A i \in DOMAIN waiting[t] : waiting[t][i] # c
      BY <2>4, <2>8
    <3> QED  BY <2>4, <2>7, <2>8, <3>1, <3>2
  <2> HIDE DEF BrokerTypeOK, AskedInv, LinesInv, Waits
  <2>9. \A i \in 1..Len(line) - 1 : line[i + 1] # c /\ i + 1 \in DOMAIN line
    BY <2>2, <2>3
  <2>10. \A d \in Conn : Waits(d, type)' => \E i \in DOMAIN Tail(line) : Tail(line)[i] = d
    <3> SUFFICES ASSUME NEW d \in Conn, Waits(d, type)'
                 PROVE  \E i \in DOMAIN Tail(line) : Tail(line)[i] = d
      OBVIOUS
    <3>1. PICK i \in DOMAIN line : line[i] = d /\ d # c
      BY <2>3, <2>7
    <3>2. i - 1 \in DOMAIN Tail(line) /\ Tail(line)[i - 1] = d
      BY <2>2, <3>1
    <3> QED  BY <3>2
  <2>11. \A i \in DOMAIN Tail(line) : Waits(Tail(line)[i], type)'
    BY <2>2, <2>3, <2>7, <2>9
  <2>12. \A i, j \in DOMAIN Tail(line) : Tail(line)[i] = Tail(line)[j] => i = j
    BY <2>2, <2>3, <2>9
  <2>13. LineInv(type)'
    <3>1. waiting'[type] = Tail(line)
      BY <2>1 DEF BrokerTypeOK
    <3> QED  BY <2>10, <2>11, <2>12, <3>1 DEF Waits
  <2> QED  BY <2>6, <2>8, <2>13 DEF LinesInv
<1>7. CASE UNCHANGED brokerVars
  BY <1>7 DEF brokerVars, clientVars, queueVars
<1> QED  BY <1>1, <1>2, <1>3, <1>4, <1>5, <1>6, <1>7 DEF BrokerNext

-----------------------------------------------------------------------------
(* One answer for each that waits                                          *)

\* Waiting subscribers and queued events of a type are finitely many.
LEMMA CountsFinite ==
  ASSUME BrokerTypeOK, NEW type \in EventType
  PROVE  /\ IsFiniteSet(Outstanding(type)) /\ Cardinality(Outstanding(type)) \in Nat
         /\ IsFiniteSet(Queued(type)) /\ Cardinality(Queued(type)) \in Nat
<1>1. IsFiniteSet(Outstanding(type))
  BY ConnAssumption, FS_Subset DEF Outstanding
<1>2. IsFiniteSet(Queued(type))
  <2>1. Len(queue) \in Nat /\ Queued(type) \subseteq 1..Len(queue)
    BY DEF BrokerTypeOK, Queued
  <2>2. IsFiniteSet(1..Len(queue))
    BY <2>1, FS_Interval
  <2> QED  BY <2>1, <2>2, FS_Subset
<1> QED  BY <1>1, <1>2, FS_CardinalityType

\* A request at the end of the queue is one more of its type.
LEMMA QueuedAppend ==
  ASSUME BrokerTypeOK, NEW r \in Request, queue' = Append(queue, r), NEW type \in EventType
  PROVE  Cardinality(Queued(type)') =
           Cardinality(Queued(type)) + (IF r.type = type THEN 1 ELSE 0)
<1>1. /\ queue \in Seq(Request) /\ Len(queue) \in Nat /\ DOMAIN queue = 1..Len(queue)
      /\ DOMAIN queue' = 1..Len(queue) + 1
      /\ \A i \in 1..Len(queue) : queue'[i] = queue[i]
      /\ queue'[Len(queue) + 1] = r
  BY DEF BrokerTypeOK
<1>2. CASE r.type = type
  <2>1. /\ Queued(type)' = Queued(type) \cup {Len(queue) + 1}
        /\ Len(queue) + 1 \notin Queued(type)
    BY <1>1, <1>2 DEF Queued
  <2> QED  BY <1>2, <2>1, CountsFinite, FS_AddElement
<1>3. CASE r.type # type
  <2>1. Queued(type)' = Queued(type)
    BY <1>1, <1>3 DEF Queued
  <2> QED  BY <1>3, <2>1, CountsFinite
<1> QED  BY <1>2, <1>3

\* Taking the first request moves the others one place ahead.
LEMMA QueuedTail ==
  ASSUME BrokerTypeOK, queue # <<>>, queue' = Tail(queue), NEW type \in EventType
  PROVE  Cardinality(Queued(type)') =
           Cardinality(Queued(type)) - (IF Head(queue).type = type THEN 1 ELSE 0)
<1>1. /\ queue \in Seq(Request) /\ Len(queue) \in Nat \ {0} /\ DOMAIN queue = 1..Len(queue)
      /\ Head(queue) = queue[1]
      /\ DOMAIN queue' = 1..Len(queue) - 1
      /\ \A i \in 1..Len(queue) - 1 : queue'[i] = queue[i + 1]
  BY DEF BrokerTypeOK
<1> DEFINE Rest == Queued(type) \ {1}
           shift == [i \in Rest |-> i - 1]
<1>2. /\ Rest \subseteq 2..Len(queue)
      /\ \A i \in 2..Len(queue) : i \in Rest <=> i - 1 \in Queued(type)'
      /\ Queued(type)' \subseteq 1..Len(queue) - 1
  BY <1>1 DEF Queued
<1>3. shift \in Bijection(Rest, Queued(type)')
  <2>1. shift \in [Rest -> Queued(type)']
    BY <1>2
  <2>2. \A i, j \in Rest : shift[i] = shift[j] => i = j
    BY <1>1, <1>2
  <2>3. \A k \in Queued(type)' : k + 1 \in Rest /\ shift[k + 1] = k
    BY <1>1, <1>2
  <2> QED  BY <2>1, <2>2, <2>3 DEF Bijection, Injection, Surjection, IsInjective
<1>4. IsFiniteSet(Rest) /\ Cardinality(Queued(type)') = Cardinality(Rest)
  BY <1>3, CountsFinite, FS_Subset, FS_Bijection DEF ExistsBijection
<1>5. CASE Head(queue).type = type
  <2>1. 1 \in Queued(type)
    BY <1>1, <1>5 DEF Queued
  <2> QED  BY <1>4, <1>5, <2>1, CountsFinite, FS_RemoveElement
<1>6. CASE Head(queue).type # type
  <2>1. Rest = Queued(type) /\ Cardinality(Queued(type)) \in Nat
    BY <1>1, <1>6, CountsFinite DEF Queued
  <2> HIDE DEF Rest
  <2> QED  BY <1>4, <1>6, <2>1
<1> QED  BY <1>5, <1>6

\* Every step moves one of the three counts of a type and another with it.
LEMMA OneAnswerKept ==
  BrokerInv /\ [BrokerNext]_brokerVars => OneAnswerOwed'
<1> SUFFICES ASSUME BrokerInv, [BrokerNext]_brokerVars, NEW type \in EventType
             PROVE  Cardinality(Outstanding(type)') =
                      Cardinality(Queued(type)') + InHand(type)'
  BY DEF OneAnswerOwed
<1>0. /\ BrokerTypeOK /\ AskedInv /\ LinesInv
      /\ Cardinality(Outstanding(type)) = Cardinality(Queued(type)) + InHand(type)
      /\ Cardinality(Outstanding(type)) \in Nat /\ Cardinality(Queued(type)) \in Nat
  BY CountsFinite DEF BrokerInv, OneAnswerOwed
<1>1. ASSUME NEW c \in Conn, NEW t \in EventType, Publish(c, t)
      PROVE  Cardinality(Outstanding(type)') = Cardinality(Queued(type)') + InHand(type)'
  <2> DEFINE r == [from |-> c, type |-> t]
  <2>1. r \in Request /\ r.type = t /\ queue' = Append(queue, r) /\ holding' = holding
    BY <1>1 DEF Publish, Enqueue, Request
  <2>2. InHand(type)' = InHand(type) /\ InHand(type) \in {0, 1}
    BY <2>1 DEF InHand
  <2>3. Cardinality(Queued(type)') =
          Cardinality(Queued(type)) + (IF t = type THEN 1 ELSE 0)
    BY <1>0, <2>1, QueuedAppend
  <2>4. Cardinality(Outstanding(type)') =
          Cardinality(Outstanding(type)) + (IF t = type THEN 1 ELSE 0)
    <3>1. CASE t = type
      <4>1. /\ Outstanding(type)' = Outstanding(type) \cup {c}
            /\ c \notin Outstanding(type)
        BY <1>0, <1>1, <3>1 DEF Publish, Outstanding, BrokerTypeOK
      <4> QED  BY <1>0, <3>1, <4>1, CountsFinite, FS_AddElement
    <3>2. CASE t # type
      <4>1. Outstanding(type)' = Outstanding(type)
        BY <1>0, <1>1, <3>2 DEF Publish, Outstanding, BrokerTypeOK
      <4> QED  BY <1>0, <3>2, <4>1
    <3> QED  BY <3>1, <3>2
  <2> QED  BY <1>0, <2>2, <2>3, <2>4
<1>2. ASSUME NEW c \in Conn, Park(c) \/ Disconnected(c) \/ Close(c)
      PROVE  Cardinality(Outstanding(type)') = Cardinality(Queued(type)') + InHand(type)'
  <2>1. Outstanding(type)' = Outstanding(type) /\ queue' = queue /\ holding' = holding
    BY <1>0, <1>2 DEF Park, JoinChannel, Disconnected, Close, queueVars, Outstanding, BrokerTypeOK
  <2> QED  BY <1>0, <2>1 DEF Queued, InHand
<1>3. CASE Dequeue
  <2>1. /\ holding = None /\ queue # <<>> /\ queue' = Tail(queue)
        /\ UNCHANGED clientVars
        /\ holding'.type = Head(queue).type /\ holding' \in Reply
    <3>1. Head(queue) \in Request
      BY <1>0, <1>3, HeadTailProperties DEF Dequeue, BrokerTypeOK
    <3> QED  BY <1>3, <3>1 DEF Dequeue, Hold, Request, Reply, Answers
  <2>2. Outstanding(type)' = Outstanding(type)
    BY <2>1 DEF clientVars, Outstanding
  <2>3. Cardinality(Queued(type)') =
          Cardinality(Queued(type)) - (IF Head(queue).type = type THEN 1 ELSE 0)
    BY <1>0, <2>1, QueuedTail
  <2>4. InHand(type) = 0 /\ InHand(type)' = IF Head(queue).type = type THEN 1 ELSE 0
    BY <2>1, NoneAssumption DEF InHand
  <2> QED  BY <1>0, <2>2, <2>3, <2>4
<1>4. CASE Respond
  <2> DEFINE t == holding.type
             c == Head(waiting[t])
  <2>1. /\ t \in EventType /\ waiting[t] \in Seq(Conn) /\ waiting[t] # <<>>
        /\ holding # None /\ holding' = None /\ queue' = queue /\ asked' = asked
        /\ client' = [client EXCEPT ![c] = NextPhase(holding.answer)]
    BY <1>0, <1>4 DEF Respond, ResponseChannel, BrokerTypeOK, Reply
  <2>2. c \in Conn /\ Waits(c, t)
    <3>1. 1 \in DOMAIN waiting[t] /\ c = waiting[t][1] /\ c \in Conn
      BY <2>1
    <3> QED  BY <1>0, <2>1, <3>1 DEF LinesInv, LineInv
  <2>3. Outstanding(type)' = Outstanding(type) \ (IF t = type THEN {c} ELSE {})
    BY <1>0, <2>1, <2>2 DEF Outstanding, Waits, BrokerTypeOK, NextPhase
  <2>4. t = type => c \in Outstanding(type)
    BY <2>2 DEF Outstanding, Waits
  <2>5. Cardinality(Outstanding(type)') =
          Cardinality(Outstanding(type)) - (IF t = type THEN 1 ELSE 0)
    <3>1. CASE t = type
      <4>1. /\ Outstanding(type)' = Outstanding(type) \ {c} /\ c \in Outstanding(type)
            /\ IsFiniteSet(Outstanding(type))
        BY <1>0, <2>3, <2>4, <3>1, CountsFinite
      <4>2. Cardinality(Outstanding(type)') = Cardinality(Outstanding(type)) - 1
        <5>1. PICK O : O = Outstanding(type)
          OBVIOUS
        <5>2. Cardinality(O \ {c}) = Cardinality(O) - 1
          BY <4>1, <5>1, FS_RemoveElement
        <5> QED  BY <4>1, <5>1, <5>2
      <4> QED  BY <3>1, <4>2
    <3>2. CASE t # type
      BY <1>0, <2>3, <3>2
    <3> QED  BY <3>1, <3>2
  <2>6. /\ Queued(type)' = Queued(type)
        /\ InHand(type)' = 0
        /\ InHand(type) = IF t = type THEN 1 ELSE 0
    BY <2>1 DEF Queued, InHand
  <2> QED  BY <1>0, <2>5, <2>6
<1>5. CASE UNCHANGED brokerVars
  BY <1>0, <1>5 DEF brokerVars, clientVars, queueVars, Outstanding, Queued, InHand
<1> QED  BY <1>1, <1>2, <1>3, <1>4, <1>5 DEF BrokerNext

-----------------------------------------------------------------------------
(* Theorems                                                                *)

\* The inductive invariant of the request path: types, lines and counts.
THEOREM BrokerInvariant == BrokerSpec => []BrokerInv
<1>1. BrokerInit => BrokerInv
  <2> SUFFICES ASSUME BrokerInit PROVE BrokerInv
    OBVIOUS
  <2>1. BrokerTypeOK /\ AskedInv /\ LinesInv
    BY DEF BrokerInit, BrokerTypeOK, Phase, AskedInv, LinesInv, LineInv, Waits
  <2>2. \A type \in EventType :
          Outstanding(type) = {} /\ Queued(type) = {} /\ InHand(type) = 0
    BY DEF BrokerInit, Outstanding, Queued, InHand
  <2> QED  BY <2>1, <2>2, FS_EmptySet DEF BrokerInv, OneAnswerOwed
<1>2. BrokerInv /\ [BrokerNext]_brokerVars => BrokerInv'
  BY TypesKept, LinesKept, OneAnswerKept DEF BrokerInv
<1> QED  BY <1>1, <1>2, PTL DEF BrokerSpec

\* For every event type, connections and schedule: as many answers are to come
\* as goroutines want one (ProcessClient, ProcessMessage).
THEOREM AnswersMatch == BrokerSpec => []OneAnswerOwed
BY BrokerInvariant, PTL DEF BrokerInv

\* ProcessMessage never holds an answer that no goroutine will take, and no
\* goroutine waits in a line while neither the queue nor the broker has an
\* answer for it: the safety half of EveryRequestAnswered.
AnswerHasTaker ==
  holding # None =>
    \E c \in Conn : client[c] \in {"published", "parked"} /\ asked[c].type = holding.type
WaiterIsOwed ==
  \A c \in Conn :
    client[c] \in {"published", "parked"} =>
      \/ holding # None /\ holding.type = asked[c].type
      \/ \E i \in DOMAIN queue : queue[i].type = asked[c].type

\* The broker's goroutine is never left with an answer that nobody takes, and
\* nobody waits for an answer that was not asked for (ProcessMessage,
\* ProcessClient).
THEOREM BrokerNeverStuck == BrokerSpec => [](AnswerHasTaker /\ WaiterIsOwed)
<1>1. BrokerInv => AnswerHasTaker /\ WaiterIsOwed
  <2> SUFFICES ASSUME BrokerInv PROVE AnswerHasTaker /\ WaiterIsOwed
    OBVIOUS
  <2>0. BrokerTypeOK /\ AskedInv /\ OneAnswerOwed
    BY DEF BrokerInv
  <2>1. AnswerHasTaker
    <3> SUFFICES ASSUME holding # None PROVE Outstanding(holding.type) # {}
      BY DEF AnswerHasTaker, Outstanding
    <3>1. holding.type \in EventType
      BY <2>0 DEF BrokerTypeOK, Reply
    <3>2. Cardinality(Outstanding(holding.type)) # 0
      BY <2>0, <3>1, CountsFinite DEF OneAnswerOwed, InHand
    <3> QED  BY <3>2, FS_EmptySet
  <2>2. WaiterIsOwed
    <3> SUFFICES ASSUME NEW c \in Conn, client[c] \in {"published", "parked"},
                        Queued(asked[c].type) = {}
                 PROVE  holding # None /\ holding.type = asked[c].type
      BY DEF WaiterIsOwed, Queued
    <3>1. asked[c].type \in EventType
      BY <2>0 DEF AskedInv, Request
    <3>2. c \in Outstanding(asked[c].type)
      BY DEF Outstanding
    <3>3. Cardinality(Outstanding(asked[c].type)) # 0
      BY <2>0, <3>1, <3>2, CountsFinite, FS_EmptySet
    <3> QED  BY <2>0, <3>1, <3>3, FS_EmptySet, CountsFinite DEF OneAnswerOwed, InHand
  <2> QED  BY <2>1, <2>2
<1> QED  BY <1>1, BrokerInvariant, PTL

-----------------------------------------------------------------------------
(* The rooms                                                               *)

\* A client has a room and an address from the moment it is answered.
PlayersInv ==
  \A c \in Client :
    /\ player[c] = "asking" => room[c] = 0
    /\ player[c] # "asking" => room[c] # 0 /\ sentTo[c] \in Port

\* One entry at most, which has a seat to give and a room of its own.
EntriesInv ==
  /\ \A p, q \in Port : classicRooms[p] # 0 /\ classicRooms[q] # 0 => p = q
  /\ \A p \in Port : classicRooms[p] < ClassicSeats
  /\ \A p \in Port : classicRooms[p] # 0 => opened[p] # 0

\* The members of a process are the clients that sit there.
SeatedInv ==
  \A c \in Client :
    player[c] = "seated" =>
      process[sentTo[c]] # Absent /\ c \in process[sentTo[c]].members
MembersInv ==
  \A p \in Port : process[p] # Absent =>
    \A c \in process[p].members : player[c] = "seated" /\ sentTo[c] = p

\* The port of a room follows from its number until the numbers go round.
PortOf(r) == FirstPort + r - 1
PortsInv ==
  roomCount <= LastPort - FirstPort + 1 =>
    /\ roomCount <= LastPort - FirstPort => portCounter = PortOf(roomCount + 1)
    /\ \A c \in Client : room[c] # 0 => sentTo[c] = PortOf(room[c])
    /\ \A p \in Port : opened[p] # 0 => p = PortOf(opened[p])
    /\ \A p \in Port : process[p] # Absent => p = PortOf(process[p].room)

RoomsInv ==
  /\ MatchTypeOK /\ PlayersInv /\ EntriesInv /\ NoRoomOversold
  /\ SeatedInv /\ MembersInv /\ PortsInv

-----------------------------------------------------------------------------
(* Lemmas                                                                  *)

\* The players of a room are finitely many.
LEMMA InRoomFinite ==
  ASSUME NEW r
  PROVE  IsFiniteSet(InRoom(r)) /\ Cardinality(InRoom(r)) \in Nat
BY PlayerAssumption, FS_Subset, FS_CardinalityType DEF InRoom

\* The number of the next room is nobody's yet.
LEMMA NextRoomEmpty ==
  ASSUME MatchTypeOK
  PROVE  InRoom(roomCount + 1) = {}
BY DEF MatchTypeOK, InRoom

\* A client that gets room r is one more in it, and none elsewhere.
LEMMA OneMoreInRoom ==
  ASSUME MatchTypeOK, NEW c \in Client, room[c] = 0, NEW r \in Nat \ {0},
         room' = [room EXCEPT ![c] = r]
  PROVE  /\ Cardinality(InRoom(r)') = Cardinality(InRoom(r)) + 1
         /\ \A q \in Nat \ {0, r} : InRoom(q)' = InRoom(q)
<1>1. /\ InRoom(r)' = InRoom(r) \cup {c} /\ c \notin InRoom(r)
      /\ \A q \in Nat \ {0, r} : InRoom(q)' = InRoom(q)
  BY DEF MatchTypeOK, InRoom
<1> QED  BY <1>1, InRoomFinite, FS_AddElement

\* What OpenRoom does, whether or not a process comes of it.
LEMMA OpenRoomEffect ==
  ASSUME MatchTypeOK, NEW c \in Client, NEW seats \in Seats, OpenRoom(c, seats)
  PROVE  /\ portCounter' \in Port /\ roomCount' = roomCount + 1
         /\ room' = [room EXCEPT ![c] = roomCount + 1]
         /\ sentTo' = [sentTo EXCEPT ![c] = portCounter]
         /\ process' \in [Port -> Process \cup {Absent}]
         /\ \A p \in Port : \/ process'[p] = process[p]
                            \/ /\ p = portCounter /\ process[p] = Absent
                               /\ process'[p].room = roomCount + 1
                               /\ process'[p].members = {}
<1>1. portCounter' \in Port
  BY PortAssumption DEF OpenRoom, NextPort, MatchTypeOK, Port
<1>2. CASE UNCHANGED process
  BY <1>1, <1>2 DEF OpenRoom, MatchTypeOK
<1>3. CASE ~UNCHANGED process
  <2> DEFINE new == [room |-> roomCount + 1, seats |-> seats, members |-> {}, hasRun |-> FALSE]
  <2>1. new \in Process
    BY DEF MatchTypeOK, Process
  <2>2. process[portCounter] = Absent /\ process' = [process EXCEPT ![portCounter] = new]
    BY <1>3 DEF OpenRoom, StartGame
  <2> QED  BY <1>1, <2>1, <2>2 DEF OpenRoom, MatchTypeOK
<1> QED  BY <1>2, <1>3

-----------------------------------------------------------------------------
(* FindRoom                                                                *)

\* A room on the next port, for one player or for several.
LEMMA OpenRoomKeeps ==
  ASSUME RoomsInv, NEW c \in Client, NEW seats \in Seats,
         player[c] = "asking", OpenRoom(c, seats), Told(c),
         \/ UNCHANGED <<classicRooms, opened>>
         \/ /\ \A p \in Port : classicRooms[p] = 0
            /\ classicRooms' = [classicRooms EXCEPT ![portCounter] = 1]
            /\ opened' = [opened EXCEPT ![portCounter] = roomCount + 1]
  PROVE  RoomsInv'
<1>0. /\ MatchTypeOK /\ PlayersInv /\ EntriesInv /\ NoRoomOversold /\ SeatedInv /\ MembersInv /\ PortsInv
      /\ room[c] = 0 /\ roomCount \in Nat /\ portCounter \in Port
      /\ player' = [player EXCEPT ![c] = "dialling"]
      /\ 1 \in 0..ClassicSeats /\ 1 < ClassicSeats /\ ClassicSeats \in Nat
  BY SeatsAssumption DEF RoomsInv, Told, PlayersInv, MatchTypeOK
<1>1. /\ portCounter' \in Port /\ roomCount' = roomCount + 1
      /\ room' = [room EXCEPT ![c] = roomCount + 1]
      /\ sentTo' = [sentTo EXCEPT ![c] = portCounter]
      /\ process' \in [Port -> Process \cup {Absent}]
      /\ \A p \in Port : \/ process'[p] = process[p]
                         \/ /\ p = portCounter /\ process[p] = Absent
                            /\ process'[p].room = roomCount + 1
                            /\ process'[p].members = {}
  BY <1>0, OpenRoomEffect
<1>2. MatchTypeOK'
  <2>1. roomCount' \in Nat /\ 0..roomCount \subseteq 0..roomCount' /\ roomCount' \in 0..roomCount'
    BY <1>0, <1>1
  <2>2. opened' \in [Port -> 0..roomCount'] /\ classicRooms' \in [Port -> 0..ClassicSeats]
    BY <1>0, <1>1, <2>1 DEF MatchTypeOK
  <2> QED  BY <1>0, <1>1, <2>1, <2>2 DEF MatchTypeOK, Stage
<1>3. PlayersInv'
  BY <1>0, <1>1 DEF PlayersInv, MatchTypeOK
<1>4. EntriesInv'
  BY <1>0 DEF EntriesInv, MatchTypeOK
<1>5. NoRoomOversold'
  <2>1. PICK n \in Nat \ {0} : n = roomCount + 1
    BY <1>0
  <2>2. /\ Cardinality(InRoom(n)') = 1
        /\ \A q \in 1..roomCount : InRoom(q)' = InRoom(q)
    <3>1. Cardinality(InRoom(n)) = 0
      BY <1>0, <2>1, NextRoomEmpty, FS_EmptySet
    <3>2. room' = [room EXCEPT ![c] = n]
      BY <1>1, <2>1
    <3>3. /\ Cardinality(InRoom(n)') = Cardinality(InRoom(n)) + 1
          /\ \A q \in Nat \ {0, n} : InRoom(q)' = InRoom(q)
      BY <1>0, <3>2, OneMoreInRoom
    <3>4. 1..roomCount \subseteq Nat \ {0, n}
      BY <1>0, <2>1
    <3> QED  BY <3>1, <3>3, <3>4
  <2>3. 1..roomCount' = 1..roomCount \cup {n}
    BY <1>0, <1>1, <2>1
  <2>4. \A r \in 1..roomCount' : Cardinality(InRoom(r)') <= ClassicSeats
    BY <1>0, <2>2, <2>3 DEF NoRoomOversold
  <2>5. ASSUME NEW p \in Port, classicRooms'[p] # 0
        PROVE  Cardinality(InRoom(opened[p])') = classicRooms'[p]
    <3>1. PICK r : r = opened'[p]
      OBVIOUS
    <3>2. CASE classicRooms'[p] = classicRooms[p] /\ opened'[p] = opened[p]
      <4>1. r \in 1..roomCount /\ Cardinality(InRoom(r)) = classicRooms[p]
        BY <1>0, <2>5, <3>1, <3>2 DEF MatchTypeOK, EntriesInv, NoRoomOversold
      <4>2. Cardinality(InRoom(r)') = classicRooms'[p]
        BY <2>2, <3>2, <4>1
      <4> QED  BY <3>1, <4>2
    <3>3. CASE classicRooms'[p] = 1 /\ opened'[p] = n
      BY <2>2, <3>3
    <3> QED  BY <1>0, <2>1, <2>5, <3>2, <3>3 DEF MatchTypeOK
  <2> QED  BY <2>4, <2>5 DEF NoRoomOversold
<1>6. SeatedInv'
  <2> SUFFICES ASSUME NEW d \in Client, player'[d] = "seated"
               PROVE  process'[sentTo'[d]] # Absent /\ d \in process'[sentTo'[d]].members
    BY DEF SeatedInv
  <2>1. d # c /\ player[d] = "seated" /\ sentTo'[d] = sentTo[d] /\ sentTo[d] \in Port
    BY <1>0, <1>1 DEF MatchTypeOK, PlayersInv
  <2> QED  BY <1>0, <1>1, <2>1 DEF SeatedInv
<1>7. PortsInv'
  <2> SUFFICES ASSUME roomCount + 1 <= LastPort - FirstPort + 1
               PROVE  /\ roomCount' <= LastPort - FirstPort => portCounter' = PortOf(roomCount' + 1)
                      /\ \A d \in Client : room'[d] # 0 => sentTo'[d] = PortOf(room'[d])
                      /\ \A p \in Port : opened'[p] # 0 => p = PortOf(opened'[p])
                      /\ \A p \in Port : process'[p] # Absent => p = PortOf(process'[p].room)
    BY <1>1 DEF PortsInv, PortOf
  <2>1. /\ portCounter = PortOf(roomCount + 1)
        /\ \A d \in Client : room[d] # 0 => sentTo[d] = PortOf(room[d])
        /\ \A p \in Port : opened[p] # 0 => p = PortOf(opened[p])
        /\ \A p \in Port : process[p] # Absent => p = PortOf(process[p].room)
    BY <1>0, PortAssumption DEF PortsInv
  <2>2. roomCount' <= LastPort - FirstPort => portCounter' = PortOf(roomCount' + 1)
    BY <1>0, <1>1, <2>1, PortAssumption DEF OpenRoom, NextPort, PortOf
  <2>3. \A d \in Client : room'[d] # 0 => sentTo'[d] = PortOf(room'[d])
    BY <1>0, <1>1, <2>1 DEF MatchTypeOK
  <2>4. \A p \in Port : opened'[p] # 0 => p = PortOf(opened'[p])
    BY <1>0, <2>1 DEF MatchTypeOK
  <2>5. \A p \in Port : process'[p] # Absent => p = PortOf(process'[p].room)
    BY <1>0, <1>1, <2>1
  <2> QED  BY <2>2, <2>3, <2>4, <2>5
<1>8. MembersInv'
  <2> SUFFICES ASSUME NEW p \in Port, process'[p] # Absent, NEW d \in process'[p].members
               PROVE  player'[d] = "seated" /\ sentTo'[d] = p
    BY DEF MembersInv
  <2>1. process[p] # Absent /\ d \in process[p].members
    BY <1>1
  <2>2. player[d] = "seated" /\ sentTo[d] = p
    BY <1>0, <2>1 DEF MembersInv
  <2> QED  BY <1>0, <1>1, <2>1, <2>2 DEF MatchTypeOK, Process
<1> QED  BY <1>2, <1>3, <1>4, <1>5, <1>6, <1>7, <1>8 DEF RoomsInv

\* A player joins a room that has space.
LEMMA JoinRoomKeeps ==
  ASSUME RoomsInv, NEW c \in Client, JoinClassicRoom(c)
  PROVE  RoomsInv'
<1>1. PICK port \in Port :
        /\ HasSpace(port)
        /\ classicRooms' = [classicRooms EXCEPT ![port] = OneMore(@)]
        /\ sentTo' = [sentTo EXCEPT ![c] = port]
        /\ room' = [room EXCEPT ![c] = opened[port]]
  BY DEF JoinClassicRoom
<1>2. PICK n \in 1..ClassicSeats, r \in 1..roomCount :
        /\ n = classicRooms[port] /\ n < ClassicSeats
        /\ r = opened[port]
        /\ classicRooms' = [classicRooms EXCEPT ![port] = IF n + 1 = ClassicSeats THEN 0 ELSE n + 1]
        /\ room' = [room EXCEPT ![c] = r]
  <2>1. /\ classicRooms[port] \in 1..ClassicSeats /\ classicRooms[port] < ClassicSeats
        /\ classicRooms \in [Port -> 0..ClassicSeats]
        /\ opened[port] \in 1..roomCount
    BY <1>1, SeatsAssumption DEF RoomsInv, HasSpace, MatchTypeOK, EntriesInv
  <2>2. classicRooms' = [classicRooms EXCEPT ![port] = OneMore(classicRooms[port])]
    BY <1>1, <2>1
  <2> QED  BY <1>1, <2>1, <2>2 DEF OneMore
<1>3. /\ MatchTypeOK /\ PlayersInv /\ EntriesInv /\ NoRoomOversold /\ SeatedInv /\ MembersInv /\ PortsInv
      /\ player[c] = "asking" /\ room[c] = 0 /\ roomCount \in Nat
      /\ player' = [player EXCEPT ![c] = "dialling"]
      /\ UNCHANGED <<portCounter, opened, roomCount, process>>
      /\ ClassicSeats \in Nat /\ ClassicSeats > 1
  BY SeatsAssumption DEF RoomsInv, JoinClassicRoom, Told, PlayersInv, MatchTypeOK
<1>4. MatchTypeOK'
  BY <1>1, <1>2, <1>3 DEF MatchTypeOK, Stage
<1>5. PlayersInv'
  BY <1>1, <1>2, <1>3 DEF PlayersInv, MatchTypeOK
<1>6. EntriesInv'
  BY <1>2, <1>3 DEF EntriesInv, MatchTypeOK
<1>7. NoRoomOversold'
  <2>1. /\ Cardinality(InRoom(r)') = Cardinality(InRoom(r)) + 1
        /\ \A q \in Nat \ {0, r} : InRoom(q)' = InRoom(q)
        /\ Cardinality(InRoom(r)) = n
    <3>1. r \in Nat \ {0}
      BY <1>2, <1>3
    <3>2. Cardinality(InRoom(r)) = n
      BY <1>2, <1>3 DEF NoRoomOversold
    <3> QED  BY <1>2, <1>3, <3>1, <3>2, OneMoreInRoom
  <2>2. \A q \in 1..roomCount' : Cardinality(InRoom(q)') <= ClassicSeats
    BY <1>2, <1>3, <2>1 DEF NoRoomOversold
  <2>3. ASSUME NEW p \in Port, classicRooms'[p] # 0
        PROVE  Cardinality(InRoom(opened[p])') = classicRooms'[p]
    <3>1. p = port
      BY <1>2, <1>3, <2>3 DEF EntriesInv, MatchTypeOK
    <3>2. opened'[p] = r /\ classicRooms'[p] = n + 1
      BY <1>2, <1>3, <2>3, <3>1 DEF MatchTypeOK
    <3> QED  BY <2>1, <3>2
  <2> QED  BY <2>2, <2>3 DEF NoRoomOversold
<1>8. SeatedInv'
  BY <1>1, <1>3 DEF SeatedInv, MatchTypeOK
<1>9. MembersInv'
  BY <1>1, <1>3 DEF MembersInv, MatchTypeOK, Process
<1>10. PortsInv'
  BY <1>1, <1>2, <1>3 DEF PortsInv, PortOf, MatchTypeOK
<1> QED  BY <1>4, <1>5, <1>6, <1>7, <1>8, <1>9, <1>10 DEF RoomsInv

\* A player that asks is sent to a room, whichever it is.
LEMMA FindRoomKeeps ==
  ASSUME RoomsInv, NEW c \in Client, FindRoom(c)
  PROVE  RoomsInv'
<1>1. CASE FindSoloRoom(c)
  BY <1>1, OpenRoomKeeps DEF FindSoloRoom, Seats
<1>2. CASE JoinClassicRoom(c)
  BY <1>2, JoinRoomKeeps
<1>3. CASE OpenClassicRoom(c)
  <2>1. \A p \in Port : classicRooms[p] = 0
    BY <1>3, SeatsAssumption DEF OpenClassicRoom, HasSpace, RoomsInv, MatchTypeOK, EntriesInv
  <2> QED  BY <1>3, <2>1, OpenRoomKeeps DEF OpenClassicRoom, Seats
<1> QED  BY <1>1, <1>2, <1>3 DEF FindRoom

-----------------------------------------------------------------------------
(* Clients and processes                                                   *)

\* The books of the room manager are not touched by clients and processes.
LEMMA BooksStay ==
  ASSUME RoomsInv, UNCHANGED <<roomVars, sentTo, room>>
  PROVE  EntriesInv' /\ NoRoomOversold'
BY DEF RoomsInv, roomVars, EntriesInv, NoRoomOversold, InRoom

\* A player that dials is seated or turned away.
LEMMA DialKeeps ==
  ASSUME RoomsInv, NEW c \in Client, Dial(c)
  PROVE  RoomsInv'
<1>0. /\ MatchTypeOK /\ PlayersInv /\ SeatedInv /\ MembersInv /\ PortsInv
      /\ EntriesInv' /\ NoRoomOversold'
      /\ UNCHANGED <<portCounter, classicRooms, opened, roomCount, sentTo, room>>
      /\ player[c] = "dialling" /\ sentTo[c] \in Port
  BY BooksStay DEF RoomsInv, Dial, PlayersInv, roomVars
<1>1. CASE player' = [player EXCEPT ![c] = "left"] /\ UNCHANGED process
  BY <1>0, <1>1 DEF RoomsInv, MatchTypeOK, Process, PlayersInv, SeatedInv, MembersInv, PortsInv, Stage
<1>2. ASSUME NEW here \in Process, NEW filled \in Process,
             here = process[sentTo[c]], filled.room = here.room,
             filled.members = here.members \cup {c},
             process' = [process EXCEPT ![sentTo[c]] = filled],
             player' = [player EXCEPT ![c] = "seated"]
      PROVE  RoomsInv'
  <2>1. MatchTypeOK'
    BY <1>0, <1>2 DEF MatchTypeOK, Stage
  <2>2. PlayersInv'
    BY <1>0, <1>2 DEF PlayersInv, MatchTypeOK
  <2>3. SeatedInv'
    <3> SUFFICES ASSUME NEW d \in Client, player'[d] = "seated"
                 PROVE  process'[sentTo[d]] # Absent /\ d \in process'[sentTo[d]].members
      BY <1>0 DEF SeatedInv
    <3>1. d = c \/ player[d] = "seated"
      BY <1>0, <1>2 DEF MatchTypeOK
    <3>2. sentTo[d] \in Port
      BY <1>0, <3>1 DEF PlayersInv
    <3>3. CASE sentTo[d] = sentTo[c]
      BY <1>0, <1>2, <3>1, <3>3, AbsentAssumption DEF SeatedInv, MatchTypeOK
    <3>4. CASE sentTo[d] # sentTo[c]
      BY <1>0, <1>2, <3>1, <3>2, <3>4 DEF SeatedInv, MatchTypeOK
    <3> QED  BY <3>3, <3>4
  <2>4. \A p \in Port : process'[p] # Absent =>
          /\ process[p] # Absent /\ process'[p].room = process[p].room
          /\ process'[p].members = process[p].members \cup (IF p = sentTo[c] THEN {c} ELSE {})
    BY <1>0, <1>2, AbsentAssumption DEF MatchTypeOK
  <2>5. PortsInv'
    BY <1>0, <2>4 DEF PortsInv
  <2>6. MembersInv'
    <3> SUFFICES ASSUME NEW p \in Port, process'[p] # Absent, NEW d \in process'[p].members
                 PROVE  player'[d] = "seated" /\ sentTo[d] = p
      BY <1>0 DEF MembersInv
    <3>1. d \in process[p].members \/ (d = c /\ p = sentTo[c])
      <4>1. CASE p = sentTo[c]
        BY <2>4, <4>1
      <4>2. CASE p # sentTo[c]
        BY <2>4, <4>2
      <4> QED  BY <4>1, <4>2
    <3> QED  BY <1>0, <1>2, <2>4, <3>1 DEF MembersInv, MatchTypeOK, Process
  <2> QED  BY <1>0, <2>1, <2>2, <2>3, <2>5, <2>6 DEF RoomsInv
<1> QED
  <2> DEFINE here == process[sentTo[c]]
             filled == [here EXCEPT !.members = here.members \cup {c},
                          !.hasRun = here.hasRun \/
                            Fills(Cardinality(here.members) + 1, here.seats)]
  <2>1. here \in Process
    BY <1>0 DEF Dial, MatchTypeOK
  <2>2. filled \in Process /\ filled.room = here.room
        /\ filled.members = here.members \cup {c}
    BY <2>1 DEF Process, Fills
  <2>3. \/ player' = [player EXCEPT ![c] = "left"] /\ UNCHANGED process
        \/ /\ process' = [process EXCEPT ![sentTo[c]] = filled]
           /\ player' = [player EXCEPT ![c] = "seated"]
    BY <1>0, <2>1 DEF Dial, MatchTypeOK
  <2> QED  BY <1>1, <1>2, <2>1, <2>2, <2>3

\* A client that goes away takes nobody else's seat.
LEMMA LeaveKeeps ==
  ASSUME RoomsInv, NEW c \in Client, Leave(c)
  PROVE  RoomsInv'
<1>0. /\ MatchTypeOK /\ PlayersInv /\ SeatedInv /\ MembersInv /\ PortsInv
      /\ EntriesInv' /\ NoRoomOversold'
      /\ UNCHANGED <<portCounter, classicRooms, opened, roomCount, sentTo, room>>
      /\ player[c] \in {"dialling", "seated"} /\ sentTo[c] \in Port
      /\ player' = [player EXCEPT ![c] = "left"]
  BY BooksStay DEF RoomsInv, Leave, PlayersInv, roomVars
<1>1. player[c] = "seated" => process[sentTo[c]] \in Process \ {Absent}
  BY <1>0, AbsentAssumption DEF SeatedInv, MatchTypeOK
<1>2. \A p \in Port :
        IF player[c] = "seated" /\ p = sentTo[c]
        THEN /\ process'[p] = [process[p] EXCEPT !.members = @ \ {c}]
             /\ process'[p] \in Process \ {Absent}
             /\ process'[p].room = process[p].room
             /\ process'[p].members = process[p].members \ {c}
        ELSE process'[p] = process[p]
  BY <1>1, AbsentAssumption DEF Leave, Process
<1>3. process' \in [Port -> Process \cup {Absent}]
  BY <1>0, <1>2 DEF Leave, MatchTypeOK
<1>4. MatchTypeOK'
  BY <1>0, <1>3 DEF MatchTypeOK, Stage
<1>5. PlayersInv'
  BY <1>0 DEF PlayersInv, MatchTypeOK
<1>6. SeatedInv'
  <2> SUFFICES ASSUME NEW d \in Client, player'[d] = "seated"
               PROVE  process'[sentTo[d]] # Absent /\ d \in process'[sentTo[d]].members
    BY <1>0 DEF SeatedInv
  <2>1. d # c /\ player[d] = "seated" /\ sentTo[d] \in Port
    BY <1>0 DEF MatchTypeOK, PlayersInv
  <2> QED  BY <1>0, <1>2, <2>1 DEF SeatedInv
<1>7. PortsInv'
  <2>1. \A p \in Port : process'[p] # Absent => process[p] # Absent /\ process'[p].room = process[p].room
    BY <1>1, <1>2
  <2> QED  BY <1>0, <2>1 DEF PortsInv
<1>8. MembersInv'
  <2> SUFFICES ASSUME NEW p \in Port, process'[p] # Absent, NEW d \in process'[p].members
               PROVE  player'[d] = "seated" /\ sentTo[d] = p
    BY <1>0 DEF MembersInv
  <2>1. process[p] # Absent /\ d \in process[p].members
    BY <1>1, <1>2
  <2>2. player[d] = "seated" /\ sentTo[d] = p
    BY <1>0, <2>1 DEF MembersInv
  <2>3. d # c
    BY <1>2, <2>2
  <2> QED  BY <1>0, <2>2, <2>3 DEF MatchTypeOK
<1> QED  BY <1>0, <1>4, <1>5, <1>6, <1>7, <1>8 DEF RoomsInv

\* The members of a process that exits have left; nobody else sits in it.
LEMMA GameOverKeeps ==
  ASSUME RoomsInv, NEW port \in Port, GameOver(port)
  PROVE  RoomsInv'
<1>0. /\ MatchTypeOK /\ PlayersInv /\ SeatedInv /\ MembersInv /\ PortsInv
      /\ EntriesInv' /\ NoRoomOversold'
      /\ UNCHANGED <<portCounter, classicRooms, opened, roomCount, sentTo, room>>
      /\ process[port] \in Process
      /\ process' = [process EXCEPT ![port] = Absent]
      /\ \A c \in Client :
           player'[c] = IF c \in process[port].members THEN "left" ELSE player[c]
  BY BooksStay DEF RoomsInv, GameOver, roomVars, MatchTypeOK
<1>1. MatchTypeOK'
  <2>1. player' \in [Client -> Stage]
    BY <1>0 DEF GameOver, MatchTypeOK, Stage
  <2> QED  BY <1>0, <2>1 DEF MatchTypeOK
<1>2. PlayersInv'
  <2>1. \A c \in process[port].members : player[c] = "seated"
    BY <1>0, AbsentAssumption DEF MembersInv
  <2> QED  BY <1>0, <2>1 DEF PlayersInv
<1>3. SeatedInv'
  <2> SUFFICES ASSUME NEW d \in Client, player'[d] = "seated"
               PROVE  process'[sentTo[d]] # Absent /\ d \in process'[sentTo[d]].members
    BY <1>0 DEF SeatedInv
  <2>1. d \notin process[port].members /\ player[d] = "seated" /\ sentTo[d] \in Port
    BY <1>0 DEF PlayersInv
  <2>2. sentTo[d] # port
    BY <1>0, <2>1 DEF SeatedInv
  <2> QED  BY <1>0, <2>1, <2>2 DEF SeatedInv, MatchTypeOK
<1>4. MembersInv'
  <2> SUFFICES ASSUME NEW p \in Port, process'[p] # Absent, NEW d \in process'[p].members
               PROVE  player'[d] = "seated" /\ sentTo[d] = p
    BY <1>0 DEF MembersInv
  <2>1. p # port /\ process[p] # Absent /\ d \in process[p].members
    BY <1>0 DEF MatchTypeOK
  <2>2. d \in Client /\ player[d] = "seated" /\ sentTo[d] = p
    BY <1>0, <2>1 DEF MembersInv, MatchTypeOK, Process
  <2>3. d \notin process[port].members
    BY <1>0, <2>1, <2>2, AbsentAssumption DEF MembersInv
  <2> QED  BY <1>0, <2>2, <2>3
<1>5. PortsInv'
  BY <1>0 DEF PortsInv, MatchTypeOK
<1> QED  BY <1>0, <1>1, <1>2, <1>3, <1>4, <1>5 DEF RoomsInv

-----------------------------------------------------------------------------
(* Theorems                                                                *)

\* The inductive invariant of matchmaking: what the room manager, the clients
\* and the processes know of each other.
THEOREM RoomsInvariant == MatchSpec => []RoomsInv
<1>1. MatchInit => RoomsInv
  <2> SUFFICES ASSUME MatchInit PROVE RoomsInv
    OBVIOUS
  <2>1. MatchTypeOK
    BY PortAssumption, SeatsAssumption DEF MatchInit, MatchTypeOK, Port, Stage
  <2>2. PlayersInv /\ SeatedInv /\ MembersInv /\ PortsInv
    BY PortAssumption DEF MatchInit, PlayersInv, SeatedInv, MembersInv, PortsInv, PortOf
  <2>3. EntriesInv /\ NoRoomOversold
    BY SeatsAssumption DEF MatchInit, EntriesInv, NoRoomOversold
  <2> QED  BY <2>1, <2>2, <2>3 DEF RoomsInv
<1>2. RoomsInv /\ [MatchNext]_matchVars => RoomsInv'
  <2> SUFFICES ASSUME RoomsInv, [MatchNext]_matchVars PROVE RoomsInv'
    OBVIOUS
  <2>1. CASE UNCHANGED matchVars
    BY <2>1 DEF matchVars, roomVars, RoomsInv, MatchTypeOK, PlayersInv, SeatedInv, MembersInv,
                PortsInv, EntriesInv, NoRoomOversold, InRoom
  <2> QED  BY <2>1, FindRoomKeeps, DialKeeps, LeaveKeeps, GameOverKeeps DEF MatchNext
<1> QED  BY <1>1, <1>2, PTL DEF MatchSpec

\* FindRoom never has more than one classic room open, and that one has a seat.
THEOREM OneRoomIsOpen == MatchSpec => []OneOpenRoom
<1>1. RoomsInv => OneOpenRoom
  <2> SUFFICES ASSUME RoomsInv PROVE OneOpenRoom
    OBVIOUS
  <2> DEFINE Open == {port \in Port : classicRooms[port] # 0}
  <2>1. /\ \A p, q \in Open : p = q
        /\ \A p \in Port : classicRooms[p] < ClassicSeats
    BY DEF RoomsInv, EntriesInv
  <2>2. Cardinality(Open) <= 1
    <3>1. CASE Open = {}
      BY <3>1, FS_EmptySet
    <3>2. CASE Open # {}
      <4>1. PICK p : Open = {p}
        BY <2>1, <3>2
      <4>2. Cardinality(Open) = 1
        BY <4>1, FS_Singleton
      <4> QED  BY <4>2
    <3> QED  BY <3>1, <3>2
  <2> QED  BY <2>1, <2>2 DEF OneOpenRoom
<1> QED  BY <1>1, RoomsInvariant, PTL

\* FindRoom never promises more seats in a room than it has, and its entry
\* counts the promises.
THEOREM SeatsArePromisedOnce == MatchSpec => []NoRoomOversold
BY RoomsInvariant, PTL DEF RoomsInv

\* Until the ports have gone round, a player sits in the process of its room.
THEOREM PlayersMeetTheirRoom == MatchSpec => []SeatedInOwnRoom
<1>1. RoomsInv => SeatedInOwnRoom
  <2> SUFFICES ASSUME RoomsInv, roomCount <= Cardinality(Port),
                      NEW c \in Client, player[c] = "seated"
               PROVE  process[sentTo[c]].room = room[c]
    BY DEF SeatedInOwnRoom
  <2>1. Cardinality(Port) = LastPort - FirstPort + 1
    BY PortAssumption, FS_Interval DEF Port
  <2>2. sentTo[c] \in Port /\ process[sentTo[c]] \in Process \ {Absent}
    BY AbsentAssumption DEF RoomsInv, MatchTypeOK, PlayersInv, SeatedInv
  <2>3. sentTo[c] = PortOf(process[sentTo[c]].room) /\ process[sentTo[c]].room \in Nat
    BY <2>1, <2>2 DEF RoomsInv, PortsInv, Process
  <2>4. room[c] # 0 => sentTo[c] = PortOf(room[c])
    BY <2>1 DEF RoomsInv, PortsInv
  <2>5. room[c] # 0
    BY DEF RoomsInv, PlayersInv
  <2> QED  BY <2>3, <2>4, <2>5, PortAssumption DEF RoomsInv, MatchTypeOK, PortOf
<1> QED  BY <1>1, RoomsInvariant, PTL

=============================================================================
