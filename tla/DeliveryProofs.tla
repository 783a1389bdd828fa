---------------------------- MODULE DeliveryProofs ----------------------------
(***************************************************************************)
(* Theorems about Delivery, for every number of slots, every sequence of   *)
(* messages, every length of a board, and every size of the socket and of  *)
(* the reads.                                                              *)
(***************************************************************************)
EXTENDS Delivery, FiniteSetTheorems, FunctionTheorems, SequenceTheorems, WellFoundedInduction, TLAPS

\* Where a task is, and what is left once the writer has ended.
TasksInv ==
  /\ spawned \cap ToSet(waiters) = {}
  /\ spawned \cap granted = {}
  /\ granted \cap ToSet(waiters) = {}
  /\ \A i, j \in DOMAIN waiters : waiters[i] = waiters[j] => i = j
  /\ writer = "ended" => waiters = <<>> /\ channel = <<>> /\ writing = 0
  /\ writer = "ended" /\ peer = "open" => ~registered /\ Tasks = {}

\* The stream is cut out of whole messages, and begins with one as long as no
\* header was cut.
StreamInv ==
  /\ \A i \in DOMAIN Stream : WholeFrom(i)
  /\ ~cut => (Stream # <<>> => Stream[1][2] = 1)

\* Message b had not entered the channel when a was sent; 0 is nothing sent.
Clear(a, b) == a # 0 => b \notin pushed[a]
AllClear(A, B) == \A a \in A, b \in B : Clear(a, b)
Numbers == {Stream[i][1] : i \in DOMAIN Stream}

\* The sets of pushed hold earlier messages, and none that is still a task.
PushedInv ==
  /\ \A m \in 1..sent : pushed[m] \subseteq 1..(m - 1)
  /\ AllClear(1..sent, Tasks)

\* What is ahead, in the client, the stream, the writer's hands or the channel, is
\* clear of what is behind.
OrderInv ==
  /\ \A i, j \in DOMAIN received : i < j => Clear(received[i], received[j])
  /\ \A i, j \in DOMAIN Stream : i < j => Clear(Stream[i][1], Stream[j][1])
  /\ \A i, j \in DOMAIN channel : i < j => Clear(channel[i], channel[j])
  /\ AllClear(ToSet(received), Numbers \cup Held \cup ToSet(channel))
  /\ AllClear(Numbers, Held \cup ToSet(channel))
  /\ AllClear(Held, ToSet(channel))

\* All of it together is inductive.
DeliveryInv == TypeOK /\ TasksInv /\ StreamInv /\ EachMessageOnce /\ PushedInv /\ OrderInv

-----------------------------------------------------------------------------
(* Sequences, numbers and packets                                          *)

\* A set of numbers has a least one.
LEMMA LeastNumber ==
  ASSUME NEW S \in SUBSET Nat, S # {}
  PROVE  \E m \in S : \A k \in S : m <= k
<1> DEFINE R == {ss \in Nat \X Nat : ss[1] < ss[2]}
<1>1. IsWellFoundedOn(R, Nat)
  BY NatLessThanWellFounded, Zenon DEF OpToRel
<1> HIDE DEF R
<1>2. PICK m \in S : \A k \in S : <<k, m>> \notin R
  BY <1>1, WFMin
<1>3. ASSUME NEW k \in S  PROVE m <= k
  <2>1. k \in Nat /\ m \in Nat
    OBVIOUS
  <2>2. ~(k < m)
    BY <1>2, <2>1 DEF R
  <2> QED  BY <2>1, <2>2
<1> QED  BY <1>3

\* Which is what Min takes.
LEMMA MinIs ==
  ASSUME NEW S \in SUBSET Nat, NEW m \in S, \A k \in S : m <= k
  PROVE  Min(S) = m
<1>1. Min(S) \in S /\ \A k \in S : Min(S) <= k
  BY DEF Min
<1>2. Min(S) \in Nat /\ m \in Nat /\ Min(S) <= m /\ m <= Min(S)
  BY <1>1
<1> HIDE DEF Min
<1> QED  BY <1>2

\* A sequence over a set is one over a greater set.
LEMMA SeqWidens ==
  ASSUME NEW S, NEW T, S \subseteq T, NEW s \in Seq(S)
  PROVE  s \in Seq(T)
BY SeqDef

\* What Append adds.
LEMMA AppendSet ==
  ASSUME NEW S, NEW s \in Seq(S), NEW x \in S
  PROVE  /\ Append(s, x) \in Seq(S) /\ Len(Append(s, x)) = Len(s) + 1
         /\ DOMAIN Append(s, x) = DOMAIN s \cup {Len(s) + 1}
         /\ Append(s, x)[Len(s) + 1] = x /\ \A i \in DOMAIN s : Append(s, x)[i] = s[i]
         /\ ToSet(Append(s, x)) = ToSet(s) \cup {x}
<1>1. /\ Append(s, x) \in Seq(S) /\ Len(Append(s, x)) = Len(s) + 1
      /\ DOMAIN Append(s, x) = DOMAIN s \cup {Len(s) + 1}
      /\ Append(s, x)[Len(s) + 1] = x /\ \A i \in DOMAIN s : Append(s, x)[i] = s[i]
  OBVIOUS
<1> HIDE DEF ToSet
<1>2. ToSet(Append(s, x)) = ToSet(s) \cup {x}
  BY <1>1, Zenon DEF ToSet
<1> QED  BY <1>1, <1>2

\* What Tail takes away.
LEMMA TailSet ==
  ASSUME NEW S, NEW s \in Seq(S), s # <<>>
  PROVE  /\ Head(s) \in S /\ Tail(s) \in Seq(S) /\ Len(Tail(s)) = Len(s) - 1 /\ Len(s) \in Nat \ {0}
         /\ \A i \in DOMAIN Tail(s) : i + 1 \in DOMAIN s /\ Tail(s)[i] = s[i + 1]
         /\ ToSet(s) = {Head(s)} \cup ToSet(Tail(s)) /\ Head(s) = s[1] /\ 1 \in DOMAIN s
<1>1. /\ Head(s) \in S /\ Tail(s) \in Seq(S) /\ Len(Tail(s)) = Len(s) - 1
      /\ \A i \in DOMAIN Tail(s) : i + 1 \in DOMAIN s /\ Tail(s)[i] = s[i + 1]
      /\ Head(s) = s[1] /\ 1 \in DOMAIN s /\ Len(s) \in Nat \ {0}
      /\ DOMAIN Tail(s) = 1..(Len(s) - 1) /\ DOMAIN s = 1..Len(s)
  OBVIOUS
<1>2. ToSet(s) = {Head(s)} \cup ToSet(Tail(s))
  <2>1. ASSUME NEW i \in DOMAIN s PROVE s[i] \in {Head(s)} \cup ToSet(Tail(s))
    <3>1. CASE i = 1
      BY <1>1, <3>1
    <3>2. CASE i # 1
      <4>1. i - 1 \in DOMAIN Tail(s) /\ s[i] = Tail(s)[i - 1]
        BY <1>1, <3>2
      <4> QED  BY <4>1 DEF ToSet
    <3> QED  BY <3>1, <3>2
  <2>2. ASSUME NEW i \in DOMAIN Tail(s) PROVE Tail(s)[i] \in ToSet(s)
    BY <1>1 DEF ToSet
  <2>3. Head(s) \in ToSet(s)
    BY <1>1 DEF ToSet
  <2> QED  BY <2>1, <2>2, <2>3 DEF ToSet
<1> QED  BY <1>1, <1>2

\* The packets.
LEMMA Layouts ==
  ASSUME NEW n \in Message
  PROVE  /\ Layout(n) \in Seq(Nat \ {0}) /\ Len(Layout(n)) \in 3..5 /\ DOMAIN Layout(n) = 1..Len(Layout(n))
         /\ Kinds[n] = "start" => Layout(n) = StartPacket /\ Len(Layout(n)) = 3 /\ TotalLen(n) = 3
         /\ Kinds[n] = "board" => Layout(n) = BoardPacket /\ Len(Layout(n)) = 5 /\ TotalLen(n) = 23 + BoardLength
         /\ Kinds[n] = "shop" => Layout(n) = ShopResponsePacket /\ Len(Layout(n)) = 4 /\ TotalLen(n) = 24
         /\ Kinds[n] \in {"start", "board", "shop"} /\ TotalLen(n) \in Nat
<1>1. Kinds[n] \in {"start", "board", "shop"} /\ BoardLength \in Nat \ {0}
  BY SocketAssumption DEF Message
<1>2. CASE Kinds[n] = "start"
  BY <1>2 DEF Layout, TotalLen, StartPacket
<1>3. CASE Kinds[n] = "board"
  BY <1>1, <1>3 DEF Layout, TotalLen, BoardPacket
<1>4. CASE Kinds[n] = "shop"
  BY <1>4 DEF Layout, TotalLen, ShopResponsePacket
<1> QED  BY <1>1, <1>2, <1>3, <1>4

\* What a unit is.
LEMMA Units ==
  ASSUME sent \in 0..Len(Kinds), NEW u
  PROVE  u \in Unit <=> \E n \in 1..sent : \E i \in DOMAIN Layout(n) : u = <<n, i>>
BY DEF Unit, Frame, ToSet

\* The units of one message.
LEMMA FrameIs ==
  ASSUME sent \in 0..Len(Kinds), NEW n \in 1..sent
  PROVE  /\ n \in Message /\ Frame(n) \in Seq(Unit) /\ Len(Frame(n)) = Len(Layout(n))
         /\ \A i \in 1..Len(Layout(n)) : Frame(n)[i] = <<n, i>>
<1>1. n \in Message
  BY SocketAssumption DEF Message
<1>2. DOMAIN Frame(n) = 1..Len(Layout(n)) /\ Len(Layout(n)) \in Nat
  BY <1>1, Layouts DEF Frame
<1>3. \A i \in 1..Len(Layout(n)) : Frame(n)[i] = <<n, i>> /\ Frame(n)[i] \in Unit
  BY <1>1, <1>2, Layouts, Units DEF Frame
<1> QED  BY <1>1, <1>2, <1>3, SeqDef DEF Frame

-----------------------------------------------------------------------------
(* What each step does to the stream                                       *)

\* The stream is a sequence of units.
LEMMA StreamIs ==
  ASSUME TypeOK
  PROVE  /\ Stream \in Seq(Unit) /\ Len(Stream) = Len(data) + Len(socket)
         /\ \A i \in DOMAIN data : i \in DOMAIN Stream /\ Stream[i] = data[i]
         /\ \A i \in DOMAIN socket : Len(data) + i \in DOMAIN Stream /\ Stream[Len(data) + i] = socket[i]
<1>1. data \in Seq(Unit) /\ socket \in Seq(Unit)
  BY DEF TypeOK
<1>2. /\ data \o socket \in Seq(Unit) /\ Len(data \o socket) = Len(data) + Len(socket)
      /\ \A i \in DOMAIN data : i \in DOMAIN (data \o socket) /\ (data \o socket)[i] = data[i]
      /\ \A i \in DOMAIN socket :
           Len(data) + i \in DOMAIN (data \o socket) /\ (data \o socket)[Len(data) + i] = socket[i]
  BY <1>1
<1> QED  BY <1>2 DEF Stream

\* What a read takes and leaves.
LEMMA ReadParts ==
  ASSUME NEW S, NEW s \in Seq(S), NEW n \in 1..Len(s)
  PROVE  /\ SubSeq(s, 1, n) \in Seq(S) /\ SubSeq(s, n + 1, Len(s)) \in Seq(S)
         /\ Len(SubSeq(s, n + 1, Len(s))) = Len(s) - n
         /\ SubSeq(s, 1, n) \o SubSeq(s, n + 1, Len(s)) = s
<1>0. Len(s) \in Nat /\ n \in Nat /\ n <= Len(s) /\ 1 <= n
  OBVIOUS
<1>1. (\A i \in 1..n : s[i] \in S) /\ (\A i \in (n + 1)..Len(s) : s[i] \in S)
  BY <1>0
<1>2. SubSeq(s, 1, n) \o SubSeq(s, n + 1, Len(s)) = SubSeq(s, 1, Len(s))
  BY <1>0, ConcatAdjacentSubSeq
<1>3. SubSeq(s, 1, Len(s)) = s
  BY SubSeqFull
<1>4. SubSeq(s, 1, n) \in Seq(S)
  BY <1>0, <1>1, SubSeqProperties, SMTT(40)
<1>5. /\ SubSeq(s, n + 1, Len(s)) \in Seq(S)
      /\ Len(SubSeq(s, n + 1, Len(s))) = IF n + 1 <= Len(s) THEN Len(s) - (n + 1) + 1 ELSE 0
  BY <1>0, <1>1, SubSeqProperties, SMTT(40)
<1>6. Len(SubSeq(s, n + 1, Len(s))) = Len(s) - n
  BY <1>0, <1>5
<1> QED  BY <1>2, <1>3, <1>4, <1>5, <1>6

\* The client's data grow by what the socket loses.
LEMMA ReadKeeps ==
  ASSUME NEW S, NEW d \in Seq(S), NEW s \in Seq(S), NEW n \in 1..Len(s)
  PROVE  (d \o SubSeq(s, 1, n)) \o SubSeq(s, n + 1, Len(s)) = d \o s
<1>1. PICK a, b : a = SubSeq(s, 1, n) /\ b = SubSeq(s, n + 1, Len(s))
  OBVIOUS
<1>2. a \in Seq(S) /\ b \in Seq(S) /\ a \o b = s
  BY <1>1, ReadParts
<1>3. ASSUME NEW x \in Seq(S), NEW y \in Seq(S) PROVE (d \o x) \o y = d \o (x \o y)
  BY ONLY d \in Seq(S), <1>3, ConcatAssociative, SMTT(40)
<1>4. (d \o a) \o b = d \o (a \o b)
  BY <1>2, <1>3, Zenon
<1> QED  BY <1>1, <1>2, <1>4

\* What is consumed goes from its front.
Dropped(k) ==
  /\ Stream' \in Seq(Unit) /\ Len(Stream') = Len(Stream) - k
  /\ \A i \in DOMAIN Stream' : i + k \in DOMAIN Stream /\ Stream'[i] = Stream[i + k]

\* Consuming drops units that the client has read.
LEMMA ConsumeDrops ==
  ASSUME TypeOK, NEW n \in 0..Len(data), Consume(n), UNCHANGED socket
  PROVE  Dropped(n) /\ data' \in Seq(Unit) /\ n \in Nat
<1>1. /\ data \in Seq(Unit) /\ socket \in Seq(Unit) /\ socket' = socket
      /\ data' = SubSeq(data, n + 1, Len(data)) /\ Stream' = data' \o socket'
      /\ Len(data) \in Nat /\ Len(socket) \in Nat /\ n \in Nat
  BY DEF TypeOK, Consume, Stream
<1>2. /\ data' \in Seq(Unit) /\ Len(data') = Len(data) - n
      /\ \A i \in 1..(Len(data) - n) : data'[i] = data[i + n]
  <2>1. \A i \in (n + 1)..Len(data) : data[i] \in Unit
    BY <1>1
  <2>2. /\ data' \in Seq(Unit)
        /\ Len(data') = IF n + 1 <= Len(data) THEN Len(data) - (n + 1) + 1 ELSE 0
        /\ \A i \in 1..Len(data) - (n + 1) + 1 : data'[i] = data[n + 1 + i - 1]
    BY <1>1, <2>1, SubSeqProperties
  <2> QED  BY <1>1, <2>2, SMTT(40)
<1>3. /\ Stream' \in Seq(Unit) /\ Len(Stream') = Len(data) - n + Len(socket)
      /\ \A i \in 1..(Len(data) - n + Len(socket)) :
           Stream'[i] = IF i <= Len(data) - n THEN data'[i] ELSE socket[i - (Len(data) - n)]
  <2>1. /\ data' \o socket' \in Seq(Unit) /\ Len(data' \o socket') = Len(data') + Len(socket')
        /\ \A i \in 1..(Len(data') + Len(socket')) :
             (data' \o socket')[i] = IF i <= Len(data') THEN data'[i] ELSE socket'[i - Len(data')]
    <3>1. data' \in Seq(Unit) /\ socket' \in Seq(Unit)
      BY <1>1, <1>2
    <3> QED  BY <3>1, ConcatProperties, ZenonT(30)
  <2> QED  BY <1>1, <1>2, <2>1
<1>4. /\ DOMAIN Stream = 1..(Len(data) + Len(socket))
      /\ \A i \in 1..(Len(data) + Len(socket)) :
           Stream[i] = IF i <= Len(data) THEN data[i] ELSE socket[i - Len(data)]
  BY <1>1, ConcatProperties, StreamIs DEF Stream
<1>5. ASSUME NEW i \in DOMAIN Stream' PROVE i + n \in DOMAIN Stream /\ Stream'[i] = Stream[i + n]
  <2>1. i \in 1..(Len(data) - n + Len(socket)) /\ i \in Nat
    BY <1>1, <1>3
  <2>2. i + n \in 1..(Len(data) + Len(socket))
    BY <1>1, <2>1
  <2>3. CASE i <= Len(data) - n
    <3>1. i \in 1..(Len(data) - n) /\ i + n <= Len(data)
      BY <1>1, <2>1, <2>3
    <3> QED  BY <1>2, <1>3, <1>4, <2>1, <2>2, <2>3, <3>1
  <2>4. CASE ~(i <= Len(data) - n)
    <3>1. ~(i + n <= Len(data)) /\ i + n - Len(data) = i - (Len(data) - n)
      BY <1>1, <2>1, <2>4
    <3>2. Stream'[i] = socket[i - (Len(data) - n)]
      BY <1>3, <2>1, <2>4
    <3>3. Stream[i + n] = socket[i + n - Len(data)]
      <4>1. PICK j : j = i + n
        OBVIOUS
      <4>2. j \in 1..(Len(data) + Len(socket)) /\ ~(j <= Len(data))
        BY <2>2, <3>1, <4>1
      <4>3. Stream[j] = socket[j - Len(data)]
        BY <1>4, <4>2
      <4> QED  BY <1>1, <2>1, <4>1, <4>3
    <3> QED  BY <1>4, <2>2, <3>1, <3>2, <3>3
  <2> QED  BY <2>3, <2>4
<1>6. Len(Stream') = Len(Stream) - n
  BY <1>1, <1>3, StreamIs
<1> QED  BY <1>1, <1>2, <1>3, <1>5, <1>6 DEF Dropped

\* g counts the bytes of the first k units, for k up to n.
Counts(g, units, n) ==
  g = [k \in 0..n |-> IF k = 0 THEN 0 ELSE g[k - 1] + Layout(units[k][1])[units[k][2]]]

\* There is such a function.
LEMMA CountsExist ==
  ASSUME NEW units, NEW N \in Nat
  PROVE  \E g : Counts(g, units, N)
<1> DEFINE Bad == {n \in Nat : ~\E g : Counts(g, units, n)}
<1>1. ASSUME Bad # {} PROVE FALSE
  <2>1. PICK n \in Bad : \A k \in Bad : n <= k
    BY <1>1, LeastNumber
  <2>2. n \in Nat /\ ~\E g : Counts(g, units, n)
    BY <2>1
  <2>3. CASE n = 0
    <3> DEFINE g == [k \in 0..0 |-> 0]
    <3>1. g = [k \in 0..0 |-> IF k = 0 THEN 0 ELSE g[k - 1] + Layout(units[k][1])[units[k][2]]]
      OBVIOUS
    <3> QED  BY <2>2, <2>3, <3>1 DEF Counts
  <2>4. CASE n # 0
    <3>1. n - 1 \in Nat /\ n - 1 \notin Bad
      <4> HIDE DEF Bad
      <4> QED  BY <2>1, <2>2, <2>4
    <3>2. PICK g : Counts(g, units, n - 1)
      BY <3>1
    <3> DEFINE h == [k \in 0..n |-> IF k = 0 THEN 0 ELSE g[k - 1] + Layout(units[k][1])[units[k][2]]]
    <3>3. ASSUME NEW k \in 0..(n - 1) PROVE h[k] = g[k]
      BY <2>2, <3>2 DEF Counts
    <3>4. ASSUME NEW k \in 0..n
          PROVE  h[k] = IF k = 0 THEN 0 ELSE h[k - 1] + Layout(units[k][1])[units[k][2]]
      <4>1. CASE k = 0
        BY <4>1
      <4>2. CASE k # 0
        <5>1. k - 1 \in 0..(n - 1)
          BY <2>2, <4>2
        <5>2. h[k - 1] = g[k - 1]
          BY <3>3, <5>1
        <5> QED  BY <4>2, <5>2
      <4> QED  BY <4>1, <4>2
    <3>5. DOMAIN h = 0..n
      OBVIOUS
    <3>6. h = [k \in 0..n |-> h[k]]
      OBVIOUS
    <3> HIDE DEF h
    <3>7. h = [k \in 0..n |-> IF k = 0 THEN 0 ELSE h[k - 1] + Layout(units[k][1])[units[k][2]]]
      BY <3>4, <3>6
    <3> QED  BY <2>2, <3>7 DEF Counts
  <2> QED  BY <2>3, <2>4
<1> QED  BY <1>1

\* What Bytes counts.
LEMMA BytesAre ==
  ASSUME NEW S, NEW units \in Seq(S)
  PROVE  /\ Bytes(units)[0] = 0
         /\ \A k \in 1..Len(units) :
              Bytes(units)[k] = Bytes(units)[k - 1] + Layout(units[k][1])[units[k][2]]
<1> DEFINE g == CHOOSE f : Counts(f, units, Len(units))
<1>1. Len(units) \in Nat
  OBVIOUS
<1>2. Counts(g, units, Len(units))
  BY <1>1, CountsExist
<1>3. Bytes(units) = g
  BY DEF Bytes, Counts
<1> HIDE DEF g
<1>4. \A k \in 0..Len(units) :
        g[k] = IF k = 0 THEN 0 ELSE g[k - 1] + Layout(units[k][1])[units[k][2]]
  BY <1>2 DEF Counts
<1> QED  BY <1>1, <1>3, <1>4

\* A header at the front of the data: what is taken for a packet is the message
\* the header is of, no less and no more.
LEMMA WholeMessageTaken ==
  ASSUME TypeOK, StreamInv, Len(data) > 1, data[1][2] = 1, Complete # {}
  PROVE  /\ data[1][1] \in 1..sent /\ data[1][1] \in Message
         /\ Min(Complete) = Len(Layout(data[1][1])) /\ Min(Complete) \in 0..Len(data)
         /\ \A i \in 1..Len(Layout(data[1][1])) :
              i \in DOMAIN Stream /\ Stream[i] = <<data[1][1], i>>
<1> DEFINE n == data[1][1]
           L == Len(Layout(n))
           B == Bytes(data)
<1>1. /\ data \in Seq(Unit) /\ Len(data) \in Nat /\ 1 \in DOMAIN data /\ sent \in 0..Len(Kinds)
      /\ data[1] \in Unit
  BY DEF TypeOK
<1>2. n \in 1..sent /\ n \in Message /\ data[1] = <<n, 1>>
  <2>1. PICK m \in 1..sent : \E i \in DOMAIN Layout(m) : data[1] = <<m, i>>
    BY <1>1, Units
  <2> QED  BY <1>1, <2>1, FrameIs
<1>3. L \in 3..5
  BY <1>2, Layouts
<1> HIDE DEF n, L
<1>4. ASSUME NEW i \in 1..L
      PROVE  i \in DOMAIN Stream /\ Stream[i] = <<n, i>>
  <2>1. Stream \in Seq(Unit) /\ 1 \in DOMAIN Stream /\ Stream[1] = <<n, 1>>
    BY <1>1, <1>2, StreamIs
  <2> DEFINE At(j) == j \in DOMAIN Stream /\ Stream[j] = <<n, j>>
  <2>2. ASSUME NEW j \in Nat, NEW k, k = j + 1, At(j), j < L PROVE At(k)
    BY <1>3, <2>1, <2>2 DEF StreamInv, WholeFrom, L
  <2>3. At(1)
    BY <2>1
  <2> HIDE DEF At
  <2>4. At(2)
    BY <1>3, <2>2, <2>3
  <2>5. At(3)
    BY <1>3, <2>2, <2>4
  <2>6. L > 3 => At(4)
    BY <1>3, <2>2, <2>5
  <2>7. L > 4 => At(5)
    BY <1>3, <2>2, <2>6
  <2>8. i \in {1, 2, 3, 4, 5} /\ (i = 4 => L > 3) /\ (i = 5 => L > 4)
    BY <1>3
  <2>9. At(i)
    BY <2>3, <2>4, <2>5, <2>6, <2>7, <2>8
  <2> QED  BY <2>9 DEF At
<1>5. \A i \in 1..L : i \in DOMAIN data => data[i] = <<n, i>>
  BY <1>1, <1>3, <1>4, StreamIs
<1>6. /\ B[0] = 0
      /\ \A k \in 1..Len(data) : B[k] = B[k - 1] + Layout(data[k][1])[data[k][2]]
  BY <1>1, BytesAre
<1>7. /\ L \in Complete /\ \A k \in Complete : L <= k
  <2> DEFINE T == TotalLen(n)
  <2>1. ASSUME NEW k \in 1..Len(data), k <= L PROVE B[k] = B[k - 1] + Layout(n)[k]
    <3>1. k \in 1..L /\ k \in DOMAIN data
      BY <1>1, <1>3, <2>1
    <3>2. data[k] = <<n, k>>
      BY <1>5, <3>1
    <3>3. B[k] = B[k - 1] + Layout(data[k][1])[data[k][2]]
      BY <1>6
    <3> QED  BY <3>2, <3>3
  <2>2. Complete = {k \in DOMAIN data : B[k] >= T} /\ DOMAIN data = 1..Len(data)
    BY <1>1 DEF Complete, n
  <2>3. B[0] = 0
    BY <1>6
  <2> HIDE DEF B, T
  <2>4. ASSUME NEW k \in Nat, NEW j, j = k + 1, j <= L, j <= Len(data)
        PROVE  B[j] = B[k] + Layout(n)[j]
    BY <1>1, <1>3, <2>1, <2>4
  <2>5. /\ 1 <= Len(data) => B[1] = B[0] + Layout(n)[1]
        /\ 2 <= Len(data) => B[2] = B[1] + Layout(n)[2]
        /\ 3 <= Len(data) => B[3] = B[2] + Layout(n)[3]
        /\ 4 <= L /\ 4 <= Len(data) => B[4] = B[3] + Layout(n)[4]
        /\ 5 <= L /\ 5 <= Len(data) => B[5] = B[4] + Layout(n)[5]
    BY <1>1, <1>3, <2>4
  <2>6. /\ \A k \in 1..(L - 1) : k <= Len(data) => ~(B[k] >= T)
        /\ L <= Len(data) => B[L] >= T
    <3>1. CASE Kinds[n] = "start"
      <4>1. L = 3 /\ Layout(n) = <<1, 1, 1>> /\ T = 3
        BY <1>2, <3>1, Layouts DEF L, T, StartPacket
      <4> QED  BY <1>1, <2>3, <2>5, <4>1
    <3>2. CASE Kinds[n] = "board"
      <4>1. L = 5 /\ Layout(n) = <<1, 1, 19, 2, BoardLength>> /\ T = 23 + BoardLength
        BY <1>2, <3>2, Layouts DEF L, T, BoardPacket
      <4>2. BoardLength \in Nat \ {0}
        BY SocketAssumption
      <4> QED  BY <1>1, <2>3, <2>5, <4>1, <4>2
    <3>3. CASE Kinds[n] = "shop"
      <4>1. L = 4 /\ Layout(n) = <<1, 1, 10, 12>> /\ T = 24
        BY <1>2, <3>3, Layouts DEF L, T, ShopResponsePacket
      <4> QED  BY <1>1, <2>3, <2>5, <4>1
    <3> QED  BY <1>2, <3>1, <3>2, <3>3, Layouts
  <2>7. PICK k0 \in Complete : TRUE
    OBVIOUS
  <2>8. k0 >= L
    BY <1>1, <1>3, <2>2, <2>6, <2>7
  <2>9. L \in 1..Len(data) /\ B[L] >= T
    BY <1>1, <1>3, <2>2, <2>6, <2>7, <2>8
  <2>10. ASSUME NEW k \in Complete PROVE L <= k
    BY <1>1, <1>3, <2>2, <2>6
  <2> QED  BY <2>2, <2>9, <2>10
<1>8. Complete \subseteq Nat /\ L <= Len(data)
  BY <1>1, <1>7 DEF Complete
<1> QED  BY <1>1, <1>2, <1>3, <1>4, <1>7, <1>8, MinIs DEF n, L

-----------------------------------------------------------------------------
(* Types and tasks                                                         *)

\* The units there are change only with a message sent.
LEMMA UnitStays == sent' = sent => Unit' = Unit
BY DEF Unit

\* Types are kept, and no step takes a slot that is not there: a receive hands its
\* slot over, and only without a slot does a task wait.
LEMMA TypesKept ==
  ASSUME TypeOK, TasksInv, StreamInv, [Next]_vars
  PROVE  TypeOK'
<1>a. /\ sent \in 0..Len(Kinds) /\ sent \in Nat /\ Len(Kinds) \in Nat /\ Message = 1..Len(Kinds)
      /\ waiters \in Seq(1..sent) /\ channel \in Seq(1..sent) /\ received \in Seq(0..sent)
      /\ IsFiniteSet(granted) /\ Cardinality(granted) \in Nat /\ Len(channel) \in Nat
      /\ Capacity \in Nat
  <2>1. Kinds \in Seq({"start", "board", "shop"})
    BY SocketAssumption
  <2>2. IsFiniteSet(granted)
    <3>1. sent \in Int /\ granted \subseteq 1..sent
      BY <2>1 DEF TypeOK
    <3>2. IsFiniteSet(1..sent)
      BY <3>1, FS_Interval
    <3> QED  BY <3>1, <3>2, FS_Subset
  <2> QED  BY <2>1, <2>2, FS_CardinalityType, CapacityAssumption DEF TypeOK, Message
<1>1. ASSUME SendToPlayer PROVE TypeOK'
  <2>1. sent' = sent + 1 /\ sent' \in 0..Len(Kinds) /\ 1..sent \subseteq 1..sent' /\ 0..sent \subseteq 0..sent'
    BY <1>1, <1>a DEF SendToPlayer
  <2>2. Unit \subseteq Unit'
    BY <2>1 DEF Unit
  <2>3. /\ waiters' \in Seq(1..sent') /\ channel' \in Seq(1..sent') /\ received' \in Seq(0..sent')
        /\ socket' \in Seq(Unit') /\ data' \in Seq(Unit')
    BY <1>1, <1>a, <2>1, <2>2, SeqWidens DEF SendToPlayer, TypeOK, clientVars
  <2>4. pushed' \in Seq(SUBSET Message) /\ Len(pushed') = sent'
    <3>1. (1..sent) \ Tasks \in SUBSET Message
      BY <1>a
    <3>2. pushed \in Seq(SUBSET Message) /\ Len(pushed) = sent
      BY DEF TypeOK
    <3> QED  BY <1>1, <2>1, <3>1, <3>2, AppendSet DEF SendToPlayer
  <2>5. /\ UNCHANGED <<registered, waiters, granted, channel, writer, writing, socket, peer,
                        data, decoding, received, cut>>
        /\ spawned' = spawned \cup {sent + 1}
    BY <1>1 DEF SendToPlayer, clientVars
  <2>6. HasSlot' = HasSlot /\ sent + 1 \in 1..sent' /\ writing' \in 0..sent'
    BY <1>a, <2>1, <2>5 DEF HasSlot, TypeOK
  <2> QED  BY <2>1, <2>3, <2>4, <2>5, <2>6 DEF TypeOK
<1>2. ASSUME NEW n \in Message, Poll(n) PROVE TypeOK'
  <2>1. n \in 1..sent /\ Unit' = Unit
    BY <1>2, UnitStays DEF Poll, TypeOK
  <2>2. CASE writer = "ended" /\ UNCHANGED <<waiters, channel>>
    BY <1>2, <2>1, <2>2 DEF Poll, TypeOK, HasSlot, clientVars
  <2>3. CASE writer = "running" /\ HasSlot /\ Push(n) /\ UNCHANGED waiters
    <3>1. channel' \in Seq(1..sent) /\ Len(channel') = Len(channel) + 1
      BY <1>a, <2>1, <2>3, AppendSet DEF Push
    <3>2. UNCHANGED <<registered, sent, granted, waiters, pushed, writer, writing, socket, peer,
                      data, decoding, received, cut>>
      BY <1>2, <2>3 DEF Poll, clientVars
    <3>3. spawned' = spawned \ {n} /\ Len(channel') + Cardinality(granted') <= Capacity
      BY <1>2, <1>a, <2>3, <3>1, <3>2 DEF Poll, HasSlot
    <3>4. waiters' = <<>>
      BY <2>3, <3>2 DEF TypeOK
    <3> QED  BY <2>1, <3>1, <3>2, <3>3, <3>4 DEF TypeOK
  <2>4. CASE writer = "running" /\ ~HasSlot /\ StandInLine(n) /\ UNCHANGED channel
    <3>1. waiters' \in Seq(1..sent)
      BY <1>a, <2>1, <2>4, AppendSet DEF StandInLine
    <3> QED  BY <1>2, <1>a, <2>1, <2>4, <3>1 DEF Poll, TypeOK, HasSlot, clientVars
  <2> QED  BY <1>2, <2>2, <2>3, <2>4 DEF Poll
<1>3. ASSUME NEW n \in Message, UseSlot(n) PROVE TypeOK'
  <2>1. n \in 1..sent /\ Unit' = Unit /\ n \in granted /\ granted' = granted \ {n}
    BY <1>3, UnitStays DEF UseSlot, TypeOK
  <2>2. Cardinality(granted') = Cardinality(granted) - 1
    BY <1>a, <2>1, FS_RemoveElement
  <2>3. CASE writer = "ended"
    <3>1. channel' = channel /\ waiters = <<>>
      BY <1>3, <2>3 DEF UseSlot, TasksInv
    <3> QED  BY <1>3, <1>a, <2>1, <2>2, <3>1 DEF UseSlot, TypeOK, HasSlot, clientVars
  <2>4. CASE writer # "ended"
    <3>1. Push(n)
      BY <1>3, <2>4 DEF UseSlot
    <3>2. channel' \in Seq(1..sent) /\ Len(channel') = Len(channel) + 1
      BY <1>a, <2>1, <3>1, AppendSet DEF Push
    <3>3. UNCHANGED <<registered, sent, spawned, waiters, pushed, writer, writing, socket, peer, clientVars>>
      BY <1>3 DEF UseSlot
    <3>4. Len(channel') + Cardinality(granted') = Len(channel) + Cardinality(granted)
      BY <1>a, <2>2, <3>2
    <3>5. HasSlot' = HasSlot
      BY <3>4 DEF HasSlot
    <3> QED  BY <2>1, <3>2, <3>3, <3>4, <3>5 DEF TypeOK, clientVars
  <2> QED  BY <2>3, <2>4
<1>4. ASSUME Recv PROVE TypeOK'
  <2>1. /\ Unit' = Unit /\ channel # <<>> /\ writing' \in 1..sent /\ channel' \in Seq(1..sent)
        /\ Len(channel') = Len(channel) - 1 /\ Len(channel) >= 1
    BY <1>4, <1>a, UnitStays, TailSet DEF Recv
  <2>2. UNCHANGED <<registered, sent, spawned, pushed, writer, socket, peer, clientVars>> /\ GrantFirst
    BY <1>4 DEF Recv
  <2>3. CASE waiters = <<>>
    <3>1. waiters' = waiters /\ granted' = granted
      BY <2>2, <2>3 DEF GrantFirst
    <3>2. Len(channel') + Cardinality(granted') <= Capacity /\ writing' \in 0..sent
      BY <1>a, <2>1, <3>1, SMTT(40) DEF TypeOK
    <3> QED  BY <2>1, <2>2, <2>3, <3>1, <3>2 DEF TypeOK, clientVars
  <2>4. CASE waiters # <<>>
    <3>1. waiters' = Tail(waiters) /\ granted' = granted \cup {Head(waiters)}
      BY <2>2, <2>4 DEF GrantFirst
    <3>2. /\ waiters' \in Seq(1..sent) /\ Head(waiters) \in 1..sent /\ Head(waiters) \in ToSet(waiters)
      BY <1>a, <2>4, <3>1, TailSet
    <3>3. Head(waiters) \notin granted
      BY <3>2 DEF TasksInv
    <3>4. Cardinality(granted') = Cardinality(granted) + 1
      BY <1>a, <3>1, <3>3, FS_AddElement
    <3>5. Len(channel') + Cardinality(granted') = Len(channel) + Cardinality(granted)
      BY <1>a, <2>1, <3>4
    <3>6. HasSlot' = HasSlot
      BY <3>5 DEF HasSlot
    <3>7. granted' \subseteq 1..sent
      BY <3>1, <3>2 DEF TypeOK
    <3>8. Len(channel') + Cardinality(granted') <= Capacity /\ ~HasSlot'
      BY <2>4, <3>5, <3>6 DEF TypeOK
    <3>9. writing' \in 0..sent
      BY <1>a, <2>1
    <3> QED  BY <2>1, <2>2, <3>2, <3>7, <3>8, <3>9 DEF TypeOK, clientVars
  <2> QED  BY <2>3, <2>4
<1>5. ASSUME Write PROVE TypeOK'
  <2>1. Unit' = Unit /\ writing \in 1..sent
    BY <1>5, UnitStays DEF Write, TypeOK, taskVars
  <2>2. socket' \in Seq(Unit) /\ Len(socket') <= SocketRoom
    <3>1. CASE socket' = socket \o Frame(writing) /\ Len(socket) + Len(Frame(writing)) <= SocketRoom
      <4>1. Frame(writing) \in Seq(Unit) /\ socket \in Seq(Unit)
        BY <1>a, <2>1, FrameIs DEF TypeOK
      <4> QED  BY <3>1, <4>1, ConcatProperties
    <3>2. CASE UNCHANGED socket
      BY <3>2 DEF TypeOK
    <3> QED  BY <1>5, <3>1, <3>2 DEF Write
  <2> QED  BY <1>5, <1>a, <2>1, <2>2 DEF Write, TypeOK, HasSlot, clientVars, taskVars
<1>6. ASSUME WriteFails \/ RecvNone PROVE TypeOK'
  <2>1. /\ UNCHANGED <<registered, sent, spawned, granted, pushed, socket, peer, clientVars>>
        /\ channel' = <<>> /\ waiters' = <<>> /\ writer' = "ended" /\ writing' = 0
    BY <1>6 DEF WriteFails, RecvNone, Close
  <2>2. Unit' = Unit /\ <<>> \in Seq(1..sent) /\ Len(<<>>) = 0
    BY <2>1, UnitStays
  <2>3. Len(channel') + Cardinality(granted') <= Capacity
    BY <1>a, <2>1, <2>2 DEF TypeOK
  <2> QED  BY <1>a, <2>1, <2>2, <2>3 DEF TypeOK, clientVars
<1>7. ASSUME Unregister \/ HangUp PROVE TypeOK'
  BY <1>7, UnitStays DEF Unregister, HangUp, TypeOK, HasSlot, clientVars, taskVars
<1>8. ASSUME Read PROVE TypeOK'
  <2>1. PICK n \in 1..Min({ReadSize, Len(socket)}) :
          data' = data \o SubSeq(socket, 1, n) /\ socket' = SubSeq(socket, n + 1, Len(socket))
    BY <1>8 DEF Read
  <2>2. n \in 1..Len(socket) /\ Unit' = Unit
    <3>1. {ReadSize, Len(socket)} \in SUBSET Nat
      BY SocketAssumption DEF TypeOK
    <3>2. Min({ReadSize, Len(socket)}) \in Nat /\ Min({ReadSize, Len(socket)}) <= Len(socket)
      <4>1. \E m \in {ReadSize, Len(socket)} : \A k \in {ReadSize, Len(socket)} : m <= k
        BY <3>1, LeastNumber
      <4> QED  BY <3>1, <4>1, MinIs
    <3> QED  BY <1>8, <3>1, <3>2, UnitStays DEF Read, taskVars
  <2>3. socket \in Seq(Unit) /\ data \in Seq(Unit)
    BY DEF TypeOK
  <2>4. data' \in Seq(Unit) /\ socket' \in Seq(Unit) /\ Len(socket') = Len(socket) - n
    <3>1. /\ SubSeq(socket, 1, n) \in Seq(Unit) /\ SubSeq(socket, n + 1, Len(socket)) \in Seq(Unit)
          /\ Len(SubSeq(socket, n + 1, Len(socket))) = Len(socket) - n
      BY <2>2, <2>3, ReadParts
    <3>2. data \o SubSeq(socket, 1, n) \in Seq(Unit)
      BY <2>3, <3>1, ConcatProperties
    <3> QED  BY <2>1, <3>1, <3>2
  <2>5. Len(socket') <= SocketRoom
    <3>1. Len(socket) <= SocketRoom /\ Len(socket) \in Nat /\ SocketRoom \in Nat
      BY <2>3, SocketAssumption DEF TypeOK
    <3> QED  BY <2>2, <2>4, <3>1
  <2>6. decoding' = TRUE /\ UNCHANGED <<registered, taskVars, channel, writer, writing, peer, received, cut>>
    BY <1>8 DEF Read
  <2> QED  BY <2>2, <2>4, <2>5, <2>6 DEF TypeOK, HasSlot, taskVars
<1>9. ASSUME DeSerialize PROVE TypeOK'
  <2>1. /\ Unit' = Unit /\ UNCHANGED <<registered, taskVars, channel, writer, writing, socket, peer>>
        /\ <<>> \in Seq(Unit)
    BY <1>9, UnitStays DEF DeSerialize, taskVars
  <2>2. /\ data' \in Seq(Unit) /\ decoding' \in BOOLEAN /\ received' \in Seq(0..sent) /\ cut' \in BOOLEAN
    <3>1. CASE data = <<>> /\ decoding' = FALSE /\ UNCHANGED <<data, received, cut>>
      BY <2>1, <3>1 DEF TypeOK
    <3>2. CASE Len(data) = 1 /\ data' = <<>> /\ cut' = TRUE /\ UNCHANGED <<decoding, received>>
      BY <2>1, <3>2 DEF TypeOK
    <3>3. CASE Len(data) > 1 /\ data[1][2] = 1 /\ Packet /\ UNCHANGED cut
      <4>1. CASE Complete # {}
        <5>1. Consume(Min(Complete)) /\ received' = Append(received, data[1][1]) /\ UNCHANGED decoding
          BY <3>3, <4>1 DEF Packet
        <5>2. data[1][1] \in 0..sent /\ Min(Complete) \in 0..Len(data)
          BY <1>a, <3>3, <4>1, WholeMessageTaken
        <5>3. data' \in Seq(Unit)
          BY <2>1, <5>1, <5>2, ConsumeDrops
        <5>4. received' \in Seq(0..sent)
          BY <1>a, <5>1, <5>2, AppendSet
        <5> QED  BY <3>3, <5>1, <5>3, <5>4 DEF TypeOK
      <4>2. CASE Complete = {}
        BY <3>3, <4>2 DEF Packet, TypeOK
      <4> QED  BY <4>1, <4>2
    <3>4. CASE Len(data) > 1 /\ Garbage /\ UNCHANGED cut
      <4>1. CASE data' = <<>> /\ UNCHANGED <<decoding, received>>
        BY <2>1, <3>4, <4>1 DEF TypeOK
      <4>2. ASSUME NEW n \in 2..Len(data), Consume(n), received' = Append(received, 0), UNCHANGED decoding
            PROVE  /\ data' \in Seq(Unit) /\ decoding' \in BOOLEAN /\ received' \in Seq(0..sent)
                   /\ cut' \in BOOLEAN
        <5>1. n \in 0..Len(data)
          OBVIOUS
        <5>2. data' \in Seq(Unit)
          BY <2>1, <4>2, <5>1, ConsumeDrops
        <5>3. received' \in Seq(0..sent)
          BY <1>a, <4>2, AppendSet
        <5> QED  BY <3>4, <4>2, <5>2, <5>3 DEF TypeOK
      <4>3. CASE decoding' = FALSE /\ UNCHANGED <<data, received>>
        BY <3>4, <4>3 DEF TypeOK
      <4> QED  BY <3>4, <4>1, <4>2, <4>3 DEF Garbage
    <3> QED  BY <1>9, <3>1, <3>2, <3>3, <3>4 DEF DeSerialize
  <2> QED  BY <1>a, <2>1, <2>2 DEF TypeOK, HasSlot, taskVars
<1>10. CASE UNCHANGED vars
  BY <1>10, UnitStays DEF vars, TypeOK, HasSlot, clientVars, taskVars
<1> QED
  BY <1>1, <1>2, <1>3, <1>4, <1>5, <1>6, <1>7, <1>8, <1>9, <1>10 DEF Next, Writer

\* The sets of tasks stay apart, and the end of the writer is the end of them all.
LEMMA TasksKept ==
  ASSUME TypeOK, TasksInv, [Next]_vars
  PROVE  TasksInv'
<1>1. waiters \in Seq(1..sent) /\ ToSet(<<>>) = {} /\ spawned \subseteq 1..sent /\ granted \subseteq 1..sent
      /\ sent \in Nat
  BY SocketAssumption DEF TypeOK, ToSet
<1>2. ToSet(waiters) \subseteq 1..sent
  BY <1>1 DEF ToSet
<1>3. ASSUME SendToPlayer PROVE TasksInv'
  <2>1. sent + 1 \notin 1..sent
    BY <1>1
  <2>2. UNCHANGED <<waiters, granted, channel, writer, writing, peer, registered>> /\ registered
        /\ spawned' = spawned \cup {sent + 1}
    BY <1>3 DEF SendToPlayer
  <2>3. ToSet(waiters)' = ToSet(waiters)
    BY <2>2
  <2> QED  BY <1>1, <1>2, <2>1, <2>2, <2>3 DEF TasksInv
<1>4. ASSUME NEW n \in Message, Poll(n) PROVE TasksInv'
  <2>1. n \in spawned /\ spawned' = spawned \ {n} /\ UNCHANGED <<registered, granted, writer, writing, peer>>
    BY <1>4 DEF Poll
  <2>2. CASE waiters' = waiters
    <3>1. writer = "ended" => channel' = channel
      BY <1>4 DEF Poll
    <3>2. ToSet(waiters)' = ToSet(waiters)
      BY <2>2
    <3>3. Tasks' \subseteq Tasks
      BY <2>1, <3>2 DEF Tasks
    <3> QED  BY <2>1, <2>2, <3>1, <3>2, <3>3 DEF TasksInv
  <2>3. CASE writer = "running" /\ StandInLine(n)
    <3>1. /\ waiters' = Append(waiters, n) /\ ToSet(waiters') = ToSet(waiters) \cup {n}
          /\ DOMAIN waiters' = DOMAIN waiters \cup {Len(waiters) + 1}
          /\ waiters'[Len(waiters) + 1] = n /\ \A i \in DOMAIN waiters : waiters'[i] = waiters[i]
      BY <1>1, <2>1, <2>3, AppendSet DEF StandInLine
    <3>2. \A i \in DOMAIN waiters : waiters[i] # n
      BY <2>1 DEF TasksInv, ToSet
    <3>3. \A i, j \in DOMAIN waiters' : waiters'[i] = waiters'[j] => i = j
      BY <3>1, <3>2 DEF TasksInv
    <3>4. n \notin granted
      BY <2>1 DEF TasksInv
    <3> QED  BY <2>1, <2>3, <3>1, <3>3, <3>4 DEF TasksInv
  <2> QED  BY <1>4, <2>2, <2>3 DEF Poll
<1>5. ASSUME NEW n \in Message, UseSlot(n) PROVE TasksInv'
  <2>1. /\ granted' = granted \ {n} /\ UNCHANGED <<registered, spawned, waiters, writer, writing, peer>>
        /\ writer = "ended" => channel' = channel
    BY <1>5 DEF UseSlot
  <2>2. ToSet(waiters)' = ToSet(waiters)
    BY <2>1
  <2>3. Tasks' \subseteq Tasks
    BY <2>1, <2>2 DEF Tasks
  <2> QED  BY <2>1, <2>2, <2>3 DEF TasksInv
<1>6. ASSUME Recv PROVE TasksInv'
  <2>1. UNCHANGED <<spawned, writer, peer>> /\ writer = "running" /\ GrantFirst
    BY <1>6 DEF Recv
  <2>2. CASE waiters = <<>>
    <3>1. waiters' = waiters /\ granted' = granted
      BY <2>1, <2>2 DEF GrantFirst
    <3>2. ToSet(waiters)' = ToSet(waiters)
      BY <3>1
    <3> QED  BY <2>1, <3>1, <3>2 DEF TasksInv
  <2>3. CASE waiters # <<>>
    <3>1. waiters' = Tail(waiters) /\ granted' = granted \cup {Head(waiters)}
      BY <2>1, <2>3 DEF GrantFirst
    <3>2. /\ ToSet(waiters) = {Head(waiters)} \cup ToSet(waiters') /\ Head(waiters) = waiters[1]
          /\ 1 \in DOMAIN waiters
          /\ \A i \in DOMAIN waiters' : i + 1 \in DOMAIN waiters /\ waiters'[i] = waiters[i + 1]
          /\ waiters' \in Seq(1..sent)
      BY <1>1, <2>3, <3>1, TailSet
    <3>3. \A i \in DOMAIN waiters' : i \in Nat /\ i # 0
      BY <3>2
    <3>4. \A i, j \in DOMAIN waiters' : waiters'[i] = waiters'[j] => i = j
      BY <3>2, <3>3 DEF TasksInv
    <3>5. Head(waiters) \notin ToSet(waiters')
      <4>1. ASSUME NEW i \in DOMAIN waiters' PROVE waiters'[i] # waiters[1]
        BY <3>2, <3>3 DEF TasksInv
      <4> QED  BY <3>2, <4>1 DEF ToSet
    <3>6. Head(waiters) \notin spawned
      BY <3>2 DEF TasksInv
    <3> QED  BY <2>1, <3>1, <3>2, <3>4, <3>5, <3>6 DEF TasksInv
  <2> QED  BY <2>2, <2>3
<1>7. ASSUME Write PROVE TasksInv'
  BY <1>7 DEF Write, TasksInv, taskVars, Tasks
<1>8. ASSUME WriteFails \/ RecvNone PROVE TasksInv'
  <2>1. /\ UNCHANGED <<registered, spawned, granted, peer>>
        /\ channel' = <<>> /\ waiters' = <<>> /\ writer' = "ended" /\ writing' = 0
        /\ peer = "open" => ~registered /\ Tasks = {}
    BY <1>8 DEF WriteFails, RecvNone, Close, EverySenderDropped
  <2>2. ToSet(waiters)' = {} /\ DOMAIN waiters' = {}
    BY <1>1, <2>1
  <2> QED  BY <2>1, <2>2 DEF TasksInv, Tasks
<1>9. ASSUME Unregister \/ HangUp \/ Read \/ DeSerialize \/ UNCHANGED vars PROVE TasksInv'
  <2>1. UNCHANGED <<taskVars, channel, writer, writing>>
    BY <1>9 DEF Unregister, HangUp, Read, DeSerialize, vars
  <2>2. (registered' => registered) /\ (peer' = "open" => peer = "open")
    BY <1>9 DEF Unregister, HangUp, Read, DeSerialize, vars
  <2> QED  BY <2>1, <2>2 DEF TasksInv, taskVars, Tasks
<1> QED
  BY <1>3, <1>4, <1>5, <1>6, <1>7, <1>8, <1>9 DEF Next, Writer

-----------------------------------------------------------------------------
(* The stream                                                              *)

\* What a write adds to it.
LEMMA WriteAdds ==
  ASSUME TypeOK, Write, socket' = socket \o Frame(writing)
  PROVE  /\ writing \in 1..sent /\ writing \in Message
         /\ Stream' \in Seq(Unit) /\ Len(Stream') = Len(Stream) + Len(Layout(writing))
         /\ \A i \in DOMAIN Stream : i \in DOMAIN Stream' /\ Stream'[i] = Stream[i]
         /\ \A k \in 1..Len(Layout(writing)) :
              Len(Stream) + k \in DOMAIN Stream' /\ Stream'[Len(Stream) + k] = <<writing, k>>
<1>1. writing \in 1..sent /\ sent \in 0..Len(Kinds) /\ data' = data
  BY DEF Write, TypeOK, clientVars
<1>2. /\ writing \in Message /\ Frame(writing) \in Seq(Unit) /\ Len(Frame(writing)) = Len(Layout(writing))
      /\ \A i \in 1..Len(Layout(writing)) : Frame(writing)[i] = <<writing, i>>
  BY <1>1, FrameIs
<1> DEFINE f == Frame(writing)
<1> HIDE DEF f
<1>3. data \in Seq(Unit) /\ socket \in Seq(Unit) /\ f \in Seq(Unit)
  BY <1>2 DEF TypeOK, f
<1>4. Stream' = Stream \o f
  <2>1. Stream' = data \o (socket \o f)
    BY <1>1 DEF Stream, f
  <2>2. data \o (socket \o f) = (data \o socket) \o f
    BY <1>3, ConcatAssociative, SMTT(40)
  <2> QED  BY <2>1, <2>2 DEF Stream
<1>5. Stream \in Seq(Unit)
  BY StreamIs
<1>6. PICK s : s = Stream
  OBVIOUS
<1>7. /\ s \o f \in Seq(Unit) /\ Len(s \o f) = Len(s) + Len(f)
      /\ \A i \in DOMAIN s : i \in DOMAIN (s \o f) /\ (s \o f)[i] = s[i]
      /\ \A k \in 1..Len(f) : Len(s) + k \in DOMAIN (s \o f) /\ (s \o f)[Len(s) + k] = f[k]
  BY <1>3, <1>5, <1>6
<1>8. Len(f) = Len(Layout(writing)) /\ \A i \in 1..Len(Layout(writing)) : f[i] = <<writing, i>>
  BY <1>2 DEF f
<1> QED  BY <1>1, <1>2, <1>4, <1>6, <1>7, <1>8

\* Reading only moves the line between the two ends.
LEMMA ReadStays ==
  ASSUME TypeOK, Read
  PROVE  Stream' = Stream
<1>1. PICK n \in 1..Min({ReadSize, Len(socket)}) :
        data' = data \o SubSeq(socket, 1, n) /\ socket' = SubSeq(socket, n + 1, Len(socket))
  BY DEF Read
<1>2. n \in 1..Len(socket)
  <2>1. {ReadSize, Len(socket)} \in SUBSET Nat
    BY SocketAssumption DEF TypeOK
  <2>2. Min({ReadSize, Len(socket)}) \in Nat /\ Min({ReadSize, Len(socket)}) <= Len(socket)
    <3>1. \E m \in {ReadSize, Len(socket)} : \A k \in {ReadSize, Len(socket)} : m <= k
      BY <2>1, LeastNumber
    <3> QED  BY <2>1, <3>1, MinIs
  <2> QED  BY <2>1, <2>2
<1>3. socket \in Seq(Unit) /\ data \in Seq(Unit)
  BY DEF TypeOK
<1>4. (data \o SubSeq(socket, 1, n)) \o SubSeq(socket, n + 1, Len(socket)) = data \o socket
  BY <1>2, <1>3, ReadKeeps
<1> QED  BY <1>1, <1>4 DEF Stream

\* Message n is at the front of the stream and is taken from it.
Takes(n) ==
  /\ \A i \in 1..Len(Layout(n)) : i \in DOMAIN Stream /\ Stream[i] = <<n, i>>
  /\ Dropped(Len(Layout(n)))
  /\ received' = Append(received, n)
  /\ UNCHANGED cut

\* One turn of the loop leaves the stream, takes the message at its front, or
\* works on what was cut in a header.
LEMMA Decoded ==
  ASSUME TypeOK, StreamInv, DeSerialize
  PROVE  \/ Stream' = Stream /\ UNCHANGED <<received, cut>>
         \/ \E n \in 1..sent : n \in Message /\ Takes(n)
         \/ /\ cut'
            /\ \E k \in Nat : Dropped(k)
            /\ received' \in {received, Append(received, 0)}
<1>1. UNCHANGED socket /\ data \in Seq(Unit) /\ Len(data) \in Nat
  BY DEF DeSerialize, TypeOK
<1>2. CASE UNCHANGED <<data, received, cut>>
  BY <1>1, <1>2 DEF Stream
<1>3. CASE data' = <<>> /\ cut' /\ UNCHANGED received
  <2>1. Consume(Len(data))
    BY <1>1, <1>3 DEF Consume
  <2>2. Dropped(Len(data))
    BY <1>1, <2>1, ConsumeDrops
  <2> QED  BY <1>1, <1>3, <2>2
<1>4. CASE Len(data) > 1 /\ data[1][2] = 1 /\ Complete # {} /\ Packet /\ UNCHANGED cut
  <2>1. Consume(Min(Complete)) /\ received' = Append(received, data[1][1])
    BY <1>4 DEF Packet
  <2>2. /\ data[1][1] \in 1..sent /\ data[1][1] \in Message
        /\ Min(Complete) = Len(Layout(data[1][1])) /\ Min(Complete) \in 0..Len(data)
        /\ \A i \in 1..Len(Layout(data[1][1])) :
              i \in DOMAIN Stream /\ Stream[i] = <<data[1][1], i>>
    BY <1>4, WholeMessageTaken
  <2>3. Dropped(Min(Complete))
    BY <1>1, <2>1, <2>2, ConsumeDrops
  <2>4. Takes(data[1][1])
    BY <1>4, <2>1, <2>2, <2>3 DEF Takes
  <2> QED  BY <2>2, <2>4
<1>5. CASE Len(data) > 1 /\ data[1][2] # 1 /\ Garbage /\ UNCHANGED cut
  <2>1. cut
    <3>1. 1 \in DOMAIN data
      BY <1>1, <1>5
    <3>2. Stream[1] = data[1] /\ Stream # <<>>
      BY <3>1, StreamIs
    <3> QED  BY <1>5, <3>2 DEF StreamInv, TypeOK
  <2>2. CASE data' = <<>> /\ UNCHANGED received
    BY <1>3, <1>5, <2>1, <2>2
  <2>3. ASSUME NEW n \in 2..Len(data), Consume(n), received' = Append(received, 0)
        PROVE  cut' /\ (\E k \in Nat : Dropped(k)) /\ received' \in {received, Append(received, 0)}
    <3>1. n \in 0..Len(data)
      OBVIOUS
    <3>2. Dropped(n) /\ n \in Nat
      BY <1>1, <2>3, <3>1, ConsumeDrops
    <3> QED  BY <1>5, <2>1, <2>3, <3>2
  <2> QED  BY <1>2, <1>5, <2>2, <2>3 DEF Garbage
<1>6. Len(data) > 1 /\ data[1][2] = 1 /\ Packet /\ UNCHANGED cut =>
        UNCHANGED <<data, received, cut>> \/ Complete # {}
  BY DEF Packet
<1> QED  BY <1>2, <1>3, <1>4, <1>5, <1>6 DEF DeSerialize

\* A step that leaves the stream, the length of its messages and the cut alone.
LEMMA StreamStays ==
  ASSUME StreamInv, Stream' = Stream, UNCHANGED cut
  PROVE  StreamInv'
<1>1. ASSUME NEW i \in DOMAIN Stream PROVE WholeFrom(i)'
  <2>1. WholeFrom(i)
    BY <1>1 DEF StreamInv
  <2> QED  BY <2>1 DEF WholeFrom
<1> QED  BY <1>1 DEF StreamInv

\* What is left of whole messages when units go from the front.
LEMMA DroppedWhole ==
  ASSUME TypeOK, \A i \in DOMAIN Stream : WholeFrom(i), NEW k \in Nat, Dropped(k)
  PROVE  \A i \in DOMAIN Stream' : WholeFrom(i)'
<1>1. /\ Stream \in Seq(Unit) /\ Stream' \in Seq(Unit) /\ Len(Stream') = Len(Stream) - k
      /\ \A i \in DOMAIN Stream' : i + k \in DOMAIN Stream /\ Stream'[i] = Stream[i + k]
  BY StreamIs DEF Dropped
<1>2. ASSUME NEW i \in DOMAIN Stream' PROVE WholeFrom(i)'
  <2>1. PICK j : j = i + k
    OBVIOUS
  <2>2. j \in DOMAIN Stream /\ Stream'[i] = Stream[j] /\ WholeFrom(j)
    BY <1>1, <1>2, <2>1
  <2>3. i \in Nat /\ j \in Nat /\ Len(Stream') \in Nat /\ Len(Stream) \in Nat
    BY <1>1, <2>2
  <2>4. i < Len(Stream') <=> j < Len(Stream)
    BY <1>1, <2>1, <2>3
  <2>5. i < Len(Stream') => Stream'[i + 1] = Stream[j + 1]
    <3> SUFFICES ASSUME i < Len(Stream') PROVE Stream'[i + 1] = Stream[j + 1]
      OBVIOUS
    <3>1. PICK a : a = i + 1
      OBVIOUS
    <3>2. a \in DOMAIN Stream'
      BY <1>1, <2>3, <3>1
    <3>3. Stream'[a] = Stream[a + k]
      BY <1>1, <3>2
    <3>4. a + k = j + 1
      BY <2>1, <2>3, <3>1
    <3> QED  BY <3>1, <3>3, <3>4
  <2> QED  BY <2>2, <2>4, <2>5 DEF WholeFrom
<1> QED  BY <1>2

\* The stream stays cut out of whole messages.
LEMMA StreamKept ==
  ASSUME TypeOK, StreamInv, [Next]_vars
  PROVE  StreamInv'
<1>1. CASE Write /\ socket' = socket \o Frame(writing)
  <2> DEFINE n == writing
             L == Len(Layout(n))
             N == Len(Stream)
  <2>1. /\ n \in Message /\ Stream' \in Seq(Unit) /\ Len(Stream') = N + L
        /\ \A i \in DOMAIN Stream : i \in DOMAIN Stream' /\ Stream'[i] = Stream[i]
        /\ \A k \in 1..L : N + k \in DOMAIN Stream' /\ Stream'[N + k] = <<n, k>>
    BY <1>1, WriteAdds
  <2>2. L \in 3..5 /\ N \in Nat /\ DOMAIN Stream = 1..N
    BY <2>1, Layouts, StreamIs
  <2>3. DOMAIN Stream' = 1..(N + L)
    BY <2>1
  <2>4. Stream'[N + 1] = <<n, 1>>
    <3>1. PICK k : k = 1
      OBVIOUS
    <3>2. k \in 1..L
      <4> HIDE DEF L
      <4> QED  BY <2>2, <3>1
    <3>3. Stream'[N + k] = <<n, k>>
      BY <2>1, <3>2, Zenon
    <3> QED  BY <3>1, <3>3
  <2>5. ASSUME NEW i \in DOMAIN Stream' PROVE WholeFrom(i)'
    <3>1. CASE i \in DOMAIN Stream
      <4>1. WholeFrom(i) /\ Stream'[i] = Stream[i]
        BY <2>1, <3>1 DEF StreamInv
      <4>2. CASE i = N
        <5>1. ~(i < N)
          BY <2>2, <4>2
        <5>2. ~(Stream[i][2] < Len(Layout(Stream[i][1])))
          BY <4>1, <5>1 DEF WholeFrom
        <5> QED  BY <2>4, <4>1, <4>2, <5>2 DEF WholeFrom
      <4>3. CASE i # N
        <5>1. i < N /\ i + 1 \in DOMAIN Stream
          BY <2>2, <3>1, <4>3
        <5>2. Stream'[i + 1] = Stream[i + 1] /\ i < N + L
          BY <2>1, <2>2, <3>1, <5>1
        <5> QED  BY <2>1, <4>1, <5>1, <5>2 DEF WholeFrom
      <4> QED  BY <4>2, <4>3
    <3>2. CASE i \notin DOMAIN Stream
      <4>1. PICK k \in 1..L : i = N + k
        <5>1. i - N \in 1..L /\ i = N + (i - N)
          BY <2>2, <2>3, <3>2
        <5> QED  BY <5>1
      <4>2. Stream'[i] = <<n, k>> /\ k \in Nat
        <5>1. k \in Nat
          BY <2>2, <4>1
        <5>2. Stream'[N + k] = <<n, k>>
          BY <2>1, <4>1, Zenon
        <5> QED  BY <4>1, <5>1, <5>2
      <4>3. CASE k < L
        <5>1. PICK j : j = k + 1
          OBVIOUS
        <5>2. j \in 1..L /\ i + 1 = N + j /\ i < N + L
          BY <2>2, <4>1, <4>2, <4>3, <5>1
        <5>3. Stream'[i + 1] = <<n, k + 1>>
          BY <2>1, <5>1, <5>2
        <5> QED  BY <2>1, <4>2, <4>3, <5>2, <5>3 DEF WholeFrom
      <4>4. CASE ~(k < L)
        <5>1. ~(i < N + L)
          BY <2>2, <4>1, <4>2, <4>4
        <5> QED  BY <2>1, <4>2, <4>4, <5>1 DEF WholeFrom
      <4> QED  BY <4>3, <4>4
    <3> QED  BY <3>1, <3>2
  <2>6. Stream'[1][2] = 1 \/ cut'
    <3>1. cut' = cut
      BY <1>1 DEF Write, clientVars
    <3>2. CASE N = 0
      BY <2>4, <3>2
    <3>3. CASE N # 0
      <4>1. 1 \in DOMAIN Stream
        BY <2>2, <3>3
      <4>2. Stream'[1] = Stream[1] /\ Stream # <<>>
        BY <2>1, <4>1
      <4> QED  BY <3>1, <4>2 DEF StreamInv
    <3> QED  BY <3>2, <3>3
  <2> QED  BY <2>5, <2>6 DEF StreamInv
<1>2. CASE DeSerialize
  <2>1. CASE Stream' = Stream /\ UNCHANGED <<received, cut>>
    BY <2>1, StreamStays
  <2>2. ASSUME NEW n \in 1..sent, n \in Message, Takes(n) PROVE StreamInv'
    <3>1. Len(Layout(n)) \in 3..5
      BY <2>2, Layouts
    <3> DEFINE L == Len(Layout(n))
    <3>2. L \in Nat /\ Dropped(L) /\ L \in 1..L
      <4>1. Dropped(L)
        BY <2>2, Zenon DEF Takes
      <4> HIDE DEF L
      <4>2. L \in 3..5
        BY <3>1 DEF L
      <4> QED  BY <4>1, <4>2
    <3>3. \A i \in DOMAIN Stream' : WholeFrom(i)'
      BY <3>2, DroppedWhole DEF StreamInv
    <3>4. Stream' # <<>> => Stream'[1][2] = 1
      <4> SUFFICES ASSUME Stream' # <<>> PROVE Stream'[1][2] = 1
        OBVIOUS
      <4>1. Stream' \in Seq(Unit) /\ Len(Stream') = Len(Stream) - L /\ Len(Stream) \in Nat
        BY <3>2, StreamIs DEF Dropped
      <4>2. 1 \in DOMAIN Stream' /\ L < Len(Stream)
        BY <3>2, <4>1
      <4>3. Stream'[1] = Stream[1 + L] /\ 1 + L = L + 1
        BY <3>2, <4>2 DEF Dropped
      <4>4. WholeFrom(L) /\ Stream[L] = <<n, L>>
        BY <2>2, <3>2 DEF StreamInv, Takes
      <4>5. Stream[L + 1][2] = 1
        BY <3>2, <4>2, <4>4 DEF WholeFrom
      <4> QED  BY <4>3, <4>5
    <3> QED  BY <3>3, <3>4 DEF StreamInv
  <2>3. ASSUME cut', NEW k \in Nat, Dropped(k) PROVE StreamInv'
    <3>1. \A i \in DOMAIN Stream' : WholeFrom(i)'
      BY <2>3, DroppedWhole DEF StreamInv
    <3> QED  BY <2>3, <3>1 DEF StreamInv
  <2> QED  BY <1>2, <2>1, <2>2, <2>3, Decoded
<1>3. CASE Read
  <2>1. UNCHANGED cut
    BY <1>3 DEF Read
  <2> QED  BY <1>3, <2>1, ReadStays, StreamStays
<1>4. CASE UNCHANGED <<data, socket, cut>>
  BY <1>4, StreamStays DEF Stream
<1>5. [Next]_vars => \/ Write /\ socket' = socket \o Frame(writing)
                     \/ Read \/ DeSerialize \/ UNCHANGED <<data, socket, cut>>
  <2>1. SendToPlayer \/ Recv \/ WriteFails \/ RecvNone \/ Unregister \/ HangUp =>
          UNCHANGED <<data, socket, cut>>
    BY DEF SendToPlayer, Recv, WriteFails, RecvNone, Unregister, HangUp, clientVars
  <2>2. ASSUME NEW n \in Message, Poll(n) \/ UseSlot(n) PROVE UNCHANGED <<data, socket, cut>>
    BY <2>2 DEF Poll, UseSlot, clientVars
  <2>3. Write => socket' = socket \o Frame(writing) \/ UNCHANGED <<data, socket, cut>>
    BY DEF Write, clientVars
  <2>4. UNCHANGED vars => UNCHANGED <<data, socket, cut>>
    BY DEF vars, clientVars
  <2> QED  BY <2>1, <2>2, <2>3, <2>4 DEF Next, Writer
<1> QED  BY <1>1, <1>2, <1>3, <1>4, <1>5

-----------------------------------------------------------------------------
(* The order                                                               *)

\* All that is in a line has been sent.
LEMMA LinedSent ==
  ASSUME TypeOK
  PROVE  /\ Numbers \subseteq 1..sent /\ Held \subseteq 1..sent /\ ToSet(channel) \subseteq 1..sent
         /\ ToSet(received) \subseteq 0..sent /\ Tasks \subseteq 1..sent /\ ToSet(waiters) \subseteq 1..sent
         /\ sent \in Nat
<1>1. sent \in Nat /\ sent \in 0..Len(Kinds)
  BY SocketAssumption DEF TypeOK
<1>2. Numbers \subseteq 1..sent
  <2>1. ASSUME NEW i \in DOMAIN Stream PROVE Stream[i][1] \in 1..sent
    <3>1. Stream[i] \in Unit
      BY StreamIs
    <3> QED  BY <1>1, <3>1, Units
  <2> QED  BY <2>1 DEF Numbers
<1>3. Held \subseteq 1..sent
  BY <1>1 DEF Held, TypeOK
<1>4. ToSet(channel) \subseteq 1..sent /\ ToSet(waiters) \subseteq 1..sent /\ ToSet(received) \subseteq 0..sent
  <2>1. channel \in Seq(1..sent) /\ waiters \in Seq(1..sent) /\ received \in Seq(0..sent)
    BY DEF TypeOK
  <2>2. \A S : \A s \in Seq(S) : ToSet(s) \subseteq S
    BY DEF ToSet
  <2> QED  BY <2>1, <2>2
<1> QED  BY <1>1, <1>2, <1>3, <1>4 DEF Tasks, TypeOK

\* The tasks are in nobody's set of messages that had entered the channel.
LEMMA PushedKept ==
  ASSUME TypeOK, PushedInv, [Next]_vars
  PROVE  PushedInv' /\ \A b : \A a \in 0..sent : Clear(a, b) => Clear(a, b)'
<1>0. sent \in Nat /\ Tasks \subseteq 1..sent /\ pushed \in Seq(SUBSET Message) /\ Len(pushed) = sent
  BY LinedSent DEF TypeOK
<1>1. CASE SendToPlayer
  <2> DEFINE p == (1..sent) \ Tasks
  <2>1. sent' = sent + 1 /\ pushed' = Append(pushed, p) /\ Tasks' = Tasks \cup {sent + 1}
    BY <1>1 DEF SendToPlayer, Tasks
  <2>2. p \in SUBSET Message
    BY <1>0, SocketAssumption DEF Message, TypeOK
  <2>3. pushed'[sent + 1] = p /\ \A m \in 1..sent : pushed'[m] = pushed[m]
    BY <1>0, <2>1, <2>2
  <2>4. sent + 1 - 1 = sent /\ sent + 1 \notin 1..sent
    BY <1>0
  <2>5. ASSUME NEW m \in 1..sent' PROVE pushed'[m] \subseteq 1..(m - 1)
    <3>1. CASE m = sent + 1
      <4>1. pushed'[m] = p
        BY <2>3, <3>1, Zenon
      <4>2. m - 1 = sent
        BY <1>0, <3>1
      <4> QED  BY <4>1, <4>2
    <3>2. CASE m # sent + 1
      <4>1. m \in 1..sent
        BY <1>0, <2>1, <3>2
      <4> QED  BY <2>3, <4>1 DEF PushedInv
    <3> QED  BY <3>1, <3>2
  <2>6. ASSUME NEW m \in 1..sent', NEW t \in Tasks' PROVE t \notin pushed'[m]
    <3>1. CASE m = sent + 1
      BY <2>1, <2>3, <2>4, <3>1
    <3>2. CASE m # sent + 1
      <4>1. m \in 1..sent /\ m \in Nat
        BY <1>0, <2>1, <3>2
      <4>2. pushed'[m] = pushed[m] /\ pushed[m] \subseteq 1..(m - 1) /\ m # 0
        BY <2>3, <4>1 DEF PushedInv
      <4>3. CASE t = sent + 1
        BY <1>0, <4>1, <4>2, <4>3
      <4>4. CASE t \in Tasks
        BY <4>1, <4>2, <4>4 DEF PushedInv, AllClear, Clear
      <4> QED  BY <2>1, <4>3, <4>4
    <3> QED  BY <3>1, <3>2
  <2>7. \A b : \A a \in 0..sent : Clear(a, b) => Clear(a, b)'
    <3>1. \A a \in 0..sent : a # 0 => a \in 1..sent
      BY <1>0
    <3> QED  BY <2>3, <3>1 DEF Clear
  <2> QED  BY <2>5, <2>6, <2>7 DEF PushedInv, AllClear, Clear
<1>2. CASE UNCHANGED <<sent, pushed>> /\ Tasks' \subseteq Tasks
  BY <1>2 DEF PushedInv, AllClear, Clear
<1>3. ASSUME NEW n \in Message, Poll(n) PROVE UNCHANGED <<sent, pushed>> /\ Tasks' \subseteq Tasks
  <2>1. n \in spawned /\ spawned' = spawned \ {n} /\ UNCHANGED <<sent, pushed, granted>>
    BY <1>3 DEF Poll
  <2>2. ToSet(waiters)' \subseteq ToSet(waiters) \cup {n}
    <3>1. CASE waiters' = waiters
      BY <3>1
    <3>2. CASE StandInLine(n)
      <4>1. waiters \in Seq(1..sent) /\ n \in 1..sent
        BY <2>1 DEF TypeOK
      <4>2. waiters' = Append(waiters, n)
        BY <3>2 DEF StandInLine
      <4>3. ToSet(Append(waiters, n)) = ToSet(waiters) \cup {n}
        <5>1. PICK S : S = 1..sent
          OBVIOUS
        <5>2. waiters \in Seq(S) /\ n \in S
          BY <4>1, <5>1
        <5> QED  BY <5>2, AppendSet
      <4>4. ToSet(waiters)' = ToSet(Append(waiters, n))
        BY <4>2 DEF ToSet
      <4> QED  BY <4>3, <4>4
    <3> QED  BY <1>3, <3>1, <3>2 DEF Poll
  <2> QED  BY <2>1, <2>2 DEF Tasks
<1>4. ASSUME NEW n \in Message, UseSlot(n) PROVE UNCHANGED <<sent, pushed>> /\ Tasks' \subseteq Tasks
  BY <1>4 DEF UseSlot, Tasks
<1>5. ASSUME Recv PROVE UNCHANGED <<sent, pushed>> /\ Tasks' \subseteq Tasks
  <2>1. UNCHANGED <<sent, pushed, spawned>> /\ GrantFirst
    BY <1>5 DEF Recv
  <2>2. CASE waiters = <<>>
    BY <2>1, <2>2 DEF GrantFirst, Tasks
  <2>3. CASE waiters # <<>>
    <3>1. waiters' = Tail(waiters) /\ granted' = granted \cup {Head(waiters)}
      BY <2>1, <2>3 DEF GrantFirst
    <3>2. ToSet(waiters) = {Head(waiters)} \cup ToSet(waiters')
      BY <2>3, <3>1, TailSet DEF TypeOK
    <3> QED  BY <2>1, <3>1, <3>2 DEF Tasks
  <2> QED  BY <2>2, <2>3
<1>6. ASSUME WriteFails \/ RecvNone PROVE UNCHANGED <<sent, pushed>> /\ Tasks' \subseteq Tasks
  BY <1>6 DEF WriteFails, RecvNone, Close, Tasks, ToSet
<1>7. ASSUME Write \/ Unregister \/ HangUp \/ Read \/ DeSerialize \/ UNCHANGED vars
      PROVE  UNCHANGED <<sent, pushed>> /\ Tasks' \subseteq Tasks
  <2>1. UNCHANGED taskVars
    BY <1>7 DEF Write, Unregister, HangUp, Read, DeSerialize, vars
  <2> QED  BY <2>1 DEF taskVars, Tasks
<1> QED
  BY <1>1, <1>2, <1>3, <1>4, <1>5, <1>6, <1>7 DEF Next, Writer

\* What a step that keeps the sets of pushed does not disturb: lines that lose
\* messages or stay.
LEMMA OrderStays ==
  ASSUME TypeOK, OrderInv, \A b : \A a \in 0..sent : Clear(a, b) => Clear(a, b)',
         UNCHANGED received, Stream' = Stream, channel' \in {channel, <<>>}, Held' \subseteq Held
  PROVE  OrderInv'
<1>1. /\ Numbers \subseteq 0..sent /\ Held \subseteq 0..sent /\ ToSet(channel) \subseteq 0..sent
      /\ ToSet(received) \subseteq 0..sent
  BY LinedSent
<1>2. Numbers' = Numbers /\ ToSet(received)' = ToSet(received)
  BY DEF Numbers
<1>3. ToSet(channel)' \subseteq ToSet(channel)
  BY DEF ToSet
<1>4. /\ \A i \in DOMAIN received : received[i] \in ToSet(received)
      /\ \A i \in DOMAIN Stream : Stream[i][1] \in Numbers
      /\ \A i \in DOMAIN channel : channel[i] \in ToSet(channel)
  BY DEF ToSet, Numbers
<1>5. \A i, j \in DOMAIN received' : i < j => Clear(received[i], received[j])'
  BY <1>1, <1>4 DEF OrderInv
<1>6. \A i, j \in DOMAIN Stream' : i < j => Clear(Stream[i][1], Stream[j][1])'
  BY <1>1, <1>4 DEF OrderInv
<1>7. \A i, j \in DOMAIN channel' : i < j => Clear(channel[i], channel[j])'
  <2>1. CASE channel' = channel
    BY <1>1, <1>4, <2>1 DEF OrderInv
  <2>2. CASE channel' = <<>>
    BY <2>2
  <2> QED  BY <2>1, <2>2
<1>8. /\ AllClear(ToSet(received), Numbers \cup Held \cup ToSet(channel))'
      /\ AllClear(Numbers, Held \cup ToSet(channel))'
      /\ AllClear(Held, ToSet(channel))'
  BY <1>1, <1>2, <1>3 DEF OrderInv, AllClear
<1> QED  BY <1>5, <1>6, <1>7, <1>8 DEF OrderInv

\* A task's message joins the end of the channel: the tasks are in no set.
LEMMA OrderPushed ==
  ASSUME TypeOK, PushedInv, OrderInv, NEW n \in Tasks, Push(n),
         UNCHANGED <<received, pushed, writing>>, Stream' = Stream
  PROVE  OrderInv'
<1>1. /\ Numbers \subseteq 1..sent /\ Held \subseteq 1..sent /\ ToSet(channel) \subseteq 1..sent
      /\ ToSet(received) \subseteq 0..sent /\ n \in 1..sent /\ sent \in Nat
  BY LinedSent
<1>2. \A a \in 0..sent : Clear(a, n)
  BY <1>1 DEF PushedInv, AllClear, Clear
<1>3. \A a, b : Clear(a, b)' = Clear(a, b)
  BY DEF Clear
<1>4. Numbers' = Numbers /\ ToSet(received)' = ToSet(received) /\ Held' = Held
  BY DEF Numbers, Held
<1>5. channel \in Seq(1..sent) /\ channel' = Append(channel, n)
  BY DEF TypeOK, Push
<1>6. /\ DOMAIN channel' = DOMAIN channel \cup {Len(channel) + 1} /\ channel'[Len(channel) + 1] = n
      /\ \A i \in DOMAIN channel : channel'[i] = channel[i] /\ i < Len(channel) + 1
      /\ ToSet(channel') = ToSet(channel) \cup {n}
  BY <1>1, <1>5, AppendSet
<1>7. ASSUME NEW i \in DOMAIN channel', NEW j \in DOMAIN channel', i < j
      PROVE  Clear(channel'[i], channel'[j])
  <2>1. i \in DOMAIN channel
    BY <1>5, <1>6, <1>7
  <2>2. channel'[i] = channel[i] /\ channel[i] \in 0..sent
    <3>1. channel[i] \in ToSet(channel)
      BY <2>1 DEF ToSet
    <3> QED  BY <1>1, <1>6, <2>1, <3>1
  <2>3. CASE j \in DOMAIN channel
    BY <1>6, <1>7, <2>1, <2>2, <2>3 DEF OrderInv
  <2>4. CASE j = Len(channel) + 1
    BY <1>2, <1>6, <2>2, <2>4
  <2> QED  BY <1>6, <2>3, <2>4
<1>8. ToSet(channel)' = ToSet(channel) \cup {n}
  BY <1>6
<1>9. \A i, j \in DOMAIN channel' : i < j => Clear(channel[i], channel[j])'
  BY <1>3, <1>7
<1>10. \A i, j \in DOMAIN received' : i < j => Clear(received[i], received[j])'
  BY <1>3 DEF OrderInv
<1>11. \A i, j \in DOMAIN Stream' : i < j => Clear(Stream[i][1], Stream[j][1])'
  BY <1>3 DEF OrderInv
<1>12. /\ AllClear(ToSet(received), Numbers \cup Held \cup ToSet(channel))'
       /\ AllClear(Numbers, Held \cup ToSet(channel))'
       /\ AllClear(Held, ToSet(channel))'
  BY <1>1, <1>2, <1>3, <1>4, <1>8 DEF OrderInv, AllClear
<1> QED  BY <1>9, <1>10, <1>11, <1>12 DEF OrderInv

\* The first of the channel goes into the writer's hands.
LEMMA OrderRecv ==
  ASSUME TypeOK, OrderInv, Recv
  PROVE  OrderInv'
<1>1. /\ UNCHANGED <<pushed, received, data, socket>> /\ writing = 0 /\ channel # <<>>
      /\ writing' = Head(channel) /\ channel' = Tail(channel)
  BY DEF Recv, clientVars
<1>2. Stream' = Stream /\ Numbers' = Numbers /\ ToSet(received)' = ToSet(received)
  BY <1>1 DEF Stream, Numbers
<1>3. \A a, b : Clear(a, b)' = Clear(a, b)
  BY <1>1 DEF Clear
<1>4. /\ Head(channel) = channel[1] /\ 1 \in DOMAIN channel /\ channel' \in Seq(1..sent)
      /\ \A i \in DOMAIN channel' : i + 1 \in DOMAIN channel /\ channel'[i] = channel[i + 1]
      /\ ToSet(channel) = {Head(channel)} \cup ToSet(channel') /\ channel \in Seq(1..sent)
  BY <1>1, TailSet DEF TypeOK
<1>5. Held' \subseteq {Head(channel)} /\ Held = {}
  BY <1>1 DEF Held
<1>6. ASSUME NEW i \in DOMAIN channel', NEW j \in DOMAIN channel', i < j
      PROVE  Clear(channel'[i], channel'[j])
  <2>1. i + 1 < j + 1
    BY <1>4, <1>6
  <2> QED  BY <1>4, <2>1 DEF OrderInv
<1>7. \A b \in ToSet(channel') : Clear(Head(channel), b)
  <2>1. ASSUME NEW i \in DOMAIN channel' PROVE Clear(channel[1], channel'[i])
    <3>1. 1 < i + 1
      BY <1>4
    <3> QED  BY <1>4, <3>1 DEF OrderInv
  <2> QED  BY <1>4, <2>1 DEF ToSet
<1>8. \A i, j \in DOMAIN channel' : i < j => Clear(channel[i], channel[j])'
  BY <1>3, <1>6
<1>9. \A i, j \in DOMAIN received' : i < j => Clear(received[i], received[j])'
  BY <1>1, <1>3 DEF OrderInv
<1>10. \A i, j \in DOMAIN Stream' : i < j => Clear(Stream[i][1], Stream[j][1])'
  BY <1>2, <1>3 DEF OrderInv
<1>11. /\ AllClear(ToSet(received), Numbers \cup Held \cup ToSet(channel))'
       /\ AllClear(Numbers, Held \cup ToSet(channel))'
       /\ AllClear(Held, ToSet(channel))'
  BY <1>2, <1>3, <1>4, <1>5, <1>7 DEF OrderInv, AllClear
<1> QED  BY <1>8, <1>9, <1>10, <1>11 DEF OrderInv

\* The message in the writer's hands becomes the end of the stream.
LEMMA OrderWritten ==
  ASSUME TypeOK, PushedInv, OrderInv, Write, socket' = socket \o Frame(writing)
  PROVE  OrderInv'
<1> DEFINE n == writing
           N == Len(Stream)
           L == Len(Layout(n))
<1>1. /\ UNCHANGED <<pushed, received, channel>> /\ writing' = 0
  BY DEF Write, clientVars, taskVars
<1>2. /\ n \in 1..sent /\ Stream' \in Seq(Unit) /\ Len(Stream') = N + L /\ n \in Message
      /\ \A i \in DOMAIN Stream : i \in DOMAIN Stream' /\ Stream'[i] = Stream[i]
      /\ \A k \in 1..L : N + k \in DOMAIN Stream' /\ Stream'[N + k] = <<n, k>>
  BY WriteAdds
<1>3. /\ N \in Nat /\ L \in Nat /\ DOMAIN Stream = 1..N /\ DOMAIN Stream' = 1..(N + L)
      /\ Held = {n} /\ Held' = {}
  <2>1. L \in 3..5
    BY <1>2, Layouts
  <2>2. N \in Nat /\ DOMAIN Stream = 1..N
    BY StreamIs
  <2>3. DOMAIN Stream' = 1..(N + L)
    BY <1>2
  <2>4. Held = {n} /\ Held' = {}
    BY <1>1 DEF Held, Write
  <2> QED  BY <2>1, <2>2, <2>3, <2>4
<1>4. ASSUME NEW i \in DOMAIN Stream', i \notin DOMAIN Stream PROVE Stream'[i][1] = n
  <2>1. PICK k \in 1..L : i = N + k
    <3>1. i - N \in 1..L /\ i = N + (i - N)
      BY <1>3, <1>4
    <3> QED  BY <3>1
  <2>2. Stream'[N + k] = <<n, k>>
    BY <1>2, <2>1, Zenon
  <2> QED  BY <2>1, <2>2
<1>5. Clear(n, n)
  <2>1. pushed[n] \subseteq 1..(n - 1) /\ n \in Nat
    BY <1>2 DEF PushedInv
  <2> QED  BY <2>1 DEF Clear
<1>6. \A m \in Numbers : Clear(m, n)
  BY <1>3 DEF OrderInv, AllClear
<1>7. \A a, b : Clear(a, b)' = Clear(a, b)
  BY <1>1 DEF Clear
<1> HIDE DEF n, N, L
<1>8. ASSUME NEW i \in DOMAIN Stream', NEW j \in DOMAIN Stream', i < j
      PROVE  Clear(Stream'[i][1], Stream'[j][1])
  <2>1. CASE i \in DOMAIN Stream /\ j \in DOMAIN Stream
    BY <1>2, <1>8, <2>1 DEF OrderInv
  <2>2. CASE i \in DOMAIN Stream /\ j \notin DOMAIN Stream
    <3>1. Stream'[i] = Stream[i] /\ Stream[i][1] \in Numbers
      BY <1>2, <2>2 DEF Numbers
    <3> QED  BY <1>4, <1>6, <2>2, <3>1
  <2>3. CASE i \notin DOMAIN Stream
    <3>1. j \notin DOMAIN Stream
      BY <1>3, <1>8, <2>3
    <3> QED  BY <1>4, <1>5, <2>3, <3>1
  <2> QED  BY <2>1, <2>2, <2>3
<1>9. Numbers' \subseteq Numbers \cup {n}
  <2>1. ASSUME NEW i \in DOMAIN Stream' PROVE Stream'[i][1] \in Numbers \cup {n}
    BY <1>2, <1>4 DEF Numbers
  <2> QED  BY <2>1 DEF Numbers
<1>10. \A i, j \in DOMAIN Stream' : i < j => Clear(Stream[i][1], Stream[j][1])'
  BY <1>7, <1>8
<1>11. \A i, j \in DOMAIN received' : i < j => Clear(received[i], received[j])'
  BY <1>1, <1>7 DEF OrderInv
<1>12. \A i, j \in DOMAIN channel' : i < j => Clear(channel[i], channel[j])'
  BY <1>1, <1>7 DEF OrderInv
<1>13. ToSet(channel)' = ToSet(channel) /\ ToSet(received)' = ToSet(received)
  BY <1>1
<1>14. /\ AllClear(ToSet(received), Numbers \cup Held \cup ToSet(channel))'
       /\ AllClear(Numbers, Held \cup ToSet(channel))'
       /\ AllClear(Held, ToSet(channel))'
  BY <1>3, <1>7, <1>9, <1>13 DEF OrderInv, AllClear
<1> QED  BY <1>10, <1>11, <1>12, <1>14 DEF OrderInv

\* Units leave the front of the stream, and nothing or a message that is clear
\* of what is left is received.
LEMMA OrderDecoded ==
  ASSUME TypeOK, OrderInv, UNCHANGED <<pushed, channel, writing>>,
         NEW k \in Nat, Dropped(k), NEW m \in 0..sent,
         received' \in {received, Append(received, m)},
         \A r \in ToSet(received) : Clear(r, m),
         \A b \in Numbers' \cup Held \cup ToSet(channel) : Clear(m, b)
  PROVE  OrderInv'
<1>1. /\ \A i \in DOMAIN Stream' : i + k \in DOMAIN Stream /\ Stream'[i] = Stream[i + k]
      /\ Stream' \in Seq(Unit)
  BY DEF Dropped
<1>2. \A a, b : Clear(a, b)' = Clear(a, b)
  BY DEF Clear
<1>3. Numbers' \subseteq Numbers
  BY <1>1 DEF Numbers
<1>4. Held' = Held /\ ToSet(channel)' = ToSet(channel)
  BY DEF Held
<1>5. /\ received \in Seq(0..sent) /\ \A i \in DOMAIN received : received[i] \in ToSet(received)
  BY DEF TypeOK, ToSet
<1>6. ToSet(received)' \subseteq ToSet(received) \cup {m}
  <2>1. CASE received' = received
    BY <2>1
  <2>2. CASE received' = Append(received, m)
    <3>1. ToSet(Append(received, m)) = ToSet(received) \cup {m}
      <4>1. PICK S : S = 0..sent
        OBVIOUS
      <4>2. received \in Seq(S) /\ m \in S
        BY <1>5, <4>1
      <4> QED  BY <4>2, AppendSet
    <3>2. ToSet(received)' = ToSet(Append(received, m))
      BY <2>2 DEF ToSet
    <3> QED  BY <3>1, <3>2
  <2> QED  BY <2>1, <2>2
<1>7. ASSUME NEW i \in DOMAIN received', NEW j \in DOMAIN received', i < j
      PROVE  Clear(received'[i], received'[j])
  <2>1. CASE received' = received
    BY <1>7, <2>1 DEF OrderInv
  <2>2. CASE received' = Append(received, m)
    <3>1. /\ DOMAIN received' = DOMAIN received \cup {Len(received) + 1} /\ received'[Len(received) + 1] = m
          /\ \A a \in DOMAIN received : received'[a] = received[a]
      BY <1>5, <2>2, AppendSet
    <3>2. i \in DOMAIN received
      BY <1>5, <1>7, <3>1
    <3>3. CASE j \in DOMAIN received
      BY <1>7, <3>1, <3>2, <3>3 DEF OrderInv
    <3>4. CASE j = Len(received) + 1
      BY <1>5, <3>1, <3>2, <3>4
    <3> QED  BY <3>1, <3>3, <3>4
  <2> QED  BY <2>1, <2>2
<1>8. ASSUME NEW i \in DOMAIN Stream', NEW j \in DOMAIN Stream', i < j
      PROVE  Clear(Stream'[i][1], Stream'[j][1])
  <2>1. i + k < j + k
    BY <1>1, <1>8
  <2> QED  BY <1>1, <2>1 DEF OrderInv
<1>9. \A i, j \in DOMAIN received' : i < j => Clear(received[i], received[j])'
  BY <1>2, <1>7
<1>10. \A i, j \in DOMAIN Stream' : i < j => Clear(Stream[i][1], Stream[j][1])'
  BY <1>2, <1>8
<1>11. \A i, j \in DOMAIN channel' : i < j => Clear(channel[i], channel[j])'
  BY <1>2 DEF OrderInv
<1>12. /\ AllClear(ToSet(received), Numbers \cup Held \cup ToSet(channel))'
       /\ AllClear(Numbers, Held \cup ToSet(channel))'
       /\ AllClear(Held, ToSet(channel))'
  BY <1>2, <1>3, <1>4, <1>6 DEF OrderInv, AllClear
<1> QED  BY <1>9, <1>10, <1>11, <1>12 DEF OrderInv

\* The lines stay in an order that overtakes nobody's set.
LEMMA OrderKept ==
  ASSUME TypeOK, TasksInv, StreamInv, PushedInv, OrderInv, [Next]_vars
  PROVE  OrderInv'
<1>0. /\ PushedInv' /\ \A b : \A a \in 0..sent : Clear(a, b) => Clear(a, b)'
      /\ ToSet(received) \subseteq 0..sent /\ sent \in Nat
  BY PushedKept, LinedSent
<1>1. CASE /\ UNCHANGED <<received, data, socket>> /\ channel' \in {channel, <<>>}
           /\ writing' \in {writing, 0}
  <2>1. Stream' = Stream /\ Held' \subseteq Held
    BY <1>1 DEF Stream, Held
  <2> QED  BY <1>0, <1>1, <2>1, OrderStays
<1>2. ASSUME NEW n \in Message, Poll(n) \/ UseSlot(n) PROVE OrderInv'
  <2>1. UNCHANGED <<received, pushed, writing, data, socket>> /\ n \in Tasks
    BY <1>2 DEF Poll, UseSlot, clientVars, Tasks
  <2>2. Push(n) \/ channel' = channel
    BY <1>2 DEF Poll, UseSlot
  <2>3. Stream' = Stream
    BY <2>1 DEF Stream
  <2> QED  BY <1>1, <2>1, <2>2, <2>3, OrderPushed
<1>3. CASE Write /\ socket' = socket \o Frame(writing)
  BY <1>3, OrderWritten
<1>4. CASE Read
  <2>1. UNCHANGED <<received, channel, writing>> /\ Stream' = Stream
    BY <1>4, ReadStays DEF Read
  <2>2. Held' = Held
    BY <2>1 DEF Held
  <2> QED  BY <1>0, <2>1, <2>2, OrderStays
<1>5. CASE DeSerialize
  <2>1. UNCHANGED <<pushed, channel, writing>>
    BY <1>5 DEF DeSerialize, taskVars
  <2>2. Held' = Held
    BY <2>1 DEF Held
  <2>3. CASE Stream' = Stream /\ UNCHANGED received
    BY <1>0, <2>1, <2>2, <2>3, OrderStays
  <2>4. ASSUME NEW n \in 1..sent, n \in Message, Takes(n) PROVE OrderInv'
    <3> DEFINE L == Len(Layout(n))
    <3>1. L \in 3..5
      BY <2>4, Layouts
    <3>2. /\ \A i \in 1..L : i \in DOMAIN Stream /\ Stream[i] = <<n, i>>
          /\ Dropped(L) /\ received' = Append(received, n)
      BY <2>4 DEF Takes
    <3> HIDE DEF L
    <3>3. 1 \in DOMAIN Stream /\ Stream[1][1] = n
      <4>1. 1 \in 1..L
        BY <3>1
      <4>2. 1 \in DOMAIN Stream /\ Stream[1] = <<n, 1>>
        BY <3>2, <4>1
      <4> QED  BY <4>2
    <3>4. n \in Numbers
      BY <3>3 DEF Numbers
    <3>5. \A x \in ToSet(received) : Clear(x, n)
      BY <3>4 DEF OrderInv, AllClear
    <3>6. \A b \in Numbers' : Clear(n, b)
      <4>1. ASSUME NEW i \in DOMAIN Stream' PROVE Clear(n, Stream'[i][1])
        <5>1. i + L \in DOMAIN Stream /\ Stream'[i] = Stream[i + L] /\ i \in Nat /\ i # 0
          BY <3>2 DEF Dropped
        <5>2. 1 < i + L
          BY <3>1, <5>1
        <5> QED  BY <3>3, <5>1, <5>2 DEF OrderInv
      <4> QED  BY <4>1 DEF Numbers
    <3>7. \A b \in Held \cup ToSet(channel) : Clear(n, b)
      BY <3>4 DEF OrderInv, AllClear
    <3>8. n \in 0..sent /\ L \in Nat
      BY <1>0, <3>1
    <3> QED  BY <2>1, <3>2, <3>5, <3>6, <3>7, <3>8, OrderDecoded
  <2>5. ASSUME NEW k \in Nat, Dropped(k), received' \in {received, Append(received, 0)} PROVE OrderInv'
    <3>1. \A b : Clear(0, b)
      BY DEF Clear
    <3>2. \A x \in ToSet(received) : Clear(x, 0)
      <4>1. ASSUME NEW x \in 1..sent PROVE 0 \notin pushed[x]
        BY <1>0 DEF PushedInv
      <4>2. \A x \in ToSet(received) : x # 0 => x \in 1..sent
        BY <1>0
      <4> QED  BY <4>1, <4>2 DEF Clear
    <3>3. 0 \in 0..sent
      BY <1>0
    <3> QED  BY <2>1, <2>5, <3>1, <3>2, <3>3, OrderDecoded
  <2> QED  BY <1>5, <2>3, <2>4, <2>5, Decoded
<1>6. SendToPlayer \/ WriteFails \/ RecvNone \/ Unregister \/ HangUp \/ UNCHANGED vars =>
        /\ UNCHANGED <<received, data, socket>> /\ channel' \in {channel, <<>>}
        /\ writing' \in {writing, 0}
  BY DEF SendToPlayer, WriteFails, RecvNone, Close, Unregister, HangUp, vars, clientVars
<1>7. ASSUME Write, UNCHANGED socket PROVE OrderInv'
  BY <1>1, <1>7 DEF Write, clientVars
<1>8. Write => socket' = socket \o Frame(writing) \/ UNCHANGED socket
  BY DEF Write
<1> QED
  BY <1>1, <1>2, <1>3, <1>4, <1>5, <1>6, <1>7, <1>8, OrderRecv DEF Next, Writer

-----------------------------------------------------------------------------
(* Every message in one place                                              *)

\* The places, and how many they are.
Taken ==
  Tasks \cup ToSet(channel) \cup Held \cup {Stream[i][1] : i \in Begun} \cup ToSet(received)
Count ==
  Cardinality(spawned) + Len(waiters) + Cardinality(granted) + Len(channel)
    + Cardinality(Held) + Cardinality(Begun) + Len(received)

\* They are finite.
LEMMA CountsAre ==
  ASSUME TypeOK
  PROVE  /\ IsFiniteSet(spawned) /\ Cardinality(spawned) \in Nat
         /\ IsFiniteSet(granted) /\ Cardinality(granted) \in Nat
         /\ IsFiniteSet(Begun) /\ Cardinality(Begun) \in Nat
         /\ Cardinality(Held) \in Nat
         /\ Len(waiters) \in Nat /\ Len(channel) \in Nat /\ Len(received) \in Nat /\ sent \in Nat
<1>1. sent \in Nat /\ sent \in Int
  BY SocketAssumption DEF TypeOK
<1>2. IsFiniteSet(1..sent)
  BY <1>1, FS_Interval
<1>3. IsFiniteSet(spawned) /\ IsFiniteSet(granted)
  BY <1>2, FS_Subset DEF TypeOK
<1>4. IsFiniteSet(Begun)
  <2>1. Stream \in Seq(Unit)
    BY StreamIs
  <2>2. Begun \subseteq 1..Len(Stream) /\ Len(Stream) \in Int
    BY <2>1 DEF Begun
  <2>3. IsFiniteSet(1..Len(Stream))
    BY <2>2, FS_Interval
  <2> QED  BY <2>2, <2>3, FS_Subset
<1>5. Cardinality(Held) \in Nat
  <2>1. CASE writing = 0
    BY <2>1, FS_EmptySet DEF Held
  <2>2. CASE writing # 0
    BY <2>2, FS_Singleton DEF Held
  <2> QED  BY <2>1, <2>2
<1> QED  BY <1>1, <1>3, <1>4, <1>5, FS_CardinalityType DEF TypeOK

\* A message sent is one more task.
LEMMA OnceSent ==
  ASSUME TypeOK, Count = sent, Taken = 1..sent, SendToPlayer
  PROVE  Count' = sent' /\ Taken' = 1..sent'
<1>1. /\ spawned' = spawned \cup {sent + 1} /\ sent' = sent + 1
      /\ UNCHANGED <<waiters, granted, channel, writing, data, socket, received>>
  BY DEF SendToPlayer, clientVars
<1>2. Stream' = Stream /\ Held' = Held
  BY <1>1 DEF Stream, Held
<1>3. Begun' = Begun
  BY <1>2 DEF Begun
<1>4. sent + 1 \notin spawned
  BY CountsAre DEF TypeOK
<1>5. Cardinality(spawned') = Cardinality(spawned) + 1
  BY <1>1, <1>4, CountsAre, FS_AddElement
<1>6. Count' = Count + 1
  <2>1. /\ Cardinality(spawned)' = Cardinality(spawned) + 1 /\ Len(waiters)' = Len(waiters)
        /\ Cardinality(granted)' = Cardinality(granted) /\ Len(channel)' = Len(channel)
        /\ Cardinality(Held)' = Cardinality(Held) /\ Cardinality(Begun)' = Cardinality(Begun)
        /\ Len(received)' = Len(received)
    BY <1>1, <1>2, <1>3, <1>5
  <2>2. PICK a, b, c, d, e, f, g \in Nat :
          /\ a = Cardinality(spawned) /\ b = Len(waiters) /\ c = Cardinality(granted)
          /\ d = Len(channel) /\ e = Cardinality(Held) /\ f = Cardinality(Begun) /\ g = Len(received)
    BY CountsAre, Zenon
  <2>3. (a + 1) + b + c + d + e + f + g = (a + b + c + d + e + f + g) + 1
    OBVIOUS
  <2> QED  BY <2>1, <2>2, <2>3 DEF Count
<1>7. Taken' = Taken \cup {sent + 1}
  BY <1>1, <1>2, <1>3 DEF Taken, Tasks
<1>8. 1..sent' = (1..sent) \cup {sent + 1}
  BY <1>1, CountsAre
<1> QED  BY <1>1, <1>6, <1>7, <1>8

\* A task moves its message into a line or into the channel.
LEMMA OncePolled ==
  ASSUME TypeOK, TasksInv, peer = "open", Count = sent, Taken = 1..sent,
         NEW n \in Message, Poll(n) \/ UseSlot(n)
  PROVE  Count' = Count /\ Taken' = Taken /\ UNCHANGED sent
<1>1. UNCHANGED <<sent, writing, data, socket, received>> /\ n \in Tasks
  BY DEF Poll, UseSlot, clientVars, Tasks
<1>2. Stream' = Stream /\ Held' = Held
  BY <1>1 DEF Stream, Held
<1>3. Begun' = Begun
  BY <1>2 DEF Begun
<1>4. writer = "running" /\ n \in 1..sent
  <2>1. writer # "ended"
    BY <1>1 DEF TasksInv
  <2> QED  BY <1>1, <2>1, LinedSent DEF TypeOK
<1>5. Push(n) => Len(channel') = Len(channel) + 1 /\ ToSet(channel)' = ToSet(channel) \cup {n}
  <2> SUFFICES ASSUME Push(n)
               PROVE  Len(channel') = Len(channel) + 1 /\ ToSet(channel)' = ToSet(channel) \cup {n}
    OBVIOUS
  <2>1. channel' = Append(channel, n) /\ channel \in Seq(1..sent)
    BY DEF Push, TypeOK
  <2>2. /\ Len(Append(channel, n)) = Len(channel) + 1
        /\ ToSet(Append(channel, n)) = ToSet(channel) \cup {n}
    <3>1. PICK S : S = 1..sent
      OBVIOUS
    <3>2. channel \in Seq(S) /\ n \in S
      BY <1>4, <2>1, <3>1
    <3> QED  BY <3>2, AppendSet
  <2> QED  BY <2>1, <2>2
<1>6. StandInLine(n) => Len(waiters') = Len(waiters) + 1 /\ ToSet(waiters)' = ToSet(waiters) \cup {n}
  <2> SUFFICES ASSUME StandInLine(n)
               PROVE  Len(waiters') = Len(waiters) + 1 /\ ToSet(waiters)' = ToSet(waiters) \cup {n}
    OBVIOUS
  <2>1. waiters' = Append(waiters, n) /\ waiters \in Seq(1..sent)
    BY DEF StandInLine, TypeOK
  <2>2. /\ Len(Append(waiters, n)) = Len(waiters) + 1
        /\ ToSet(Append(waiters, n)) = ToSet(waiters) \cup {n}
    <3>1. PICK S : S = 1..sent
      OBVIOUS
    <3>2. waiters \in Seq(S) /\ n \in S
      BY <1>4, <2>1, <3>1
    <3> QED  BY <3>2, AppendSet
  <2> QED  BY <2>1, <2>2
<1>7. CASE Poll(n)
  <2>1. n \in spawned /\ spawned' = spawned \ {n} /\ granted' = granted
    BY <1>7 DEF Poll
  <2>2. Cardinality(spawned') = Cardinality(spawned) - 1
    BY <2>1, CountsAre, FS_RemoveElement
  <2>3. CASE Push(n) /\ UNCHANGED waiters
    <3>1. Count' = Count
      <4>1. /\ Cardinality(spawned)' = Cardinality(spawned) - 1 /\ Len(waiters)' = Len(waiters)
            /\ Cardinality(granted)' = Cardinality(granted) /\ Len(channel)' = Len(channel) + 1
            /\ Cardinality(Held)' = Cardinality(Held) /\ Cardinality(Begun)' = Cardinality(Begun)
            /\ Len(received)' = Len(received)
        BY <1>1, <1>2, <1>3, <1>5, <2>1, <2>2, <2>3
      <4>2. PICK a, b, c, d, e, f, g \in Nat :
              /\ a = Cardinality(spawned) /\ b = Len(waiters) /\ c = Cardinality(granted)
              /\ d = Len(channel) /\ e = Cardinality(Held) /\ f = Cardinality(Begun) /\ g = Len(received)
        BY CountsAre, Zenon
      <4>3. (a - 1) + b + c + (d + 1) + e + f + g = a + b + c + d + e + f + g
        OBVIOUS
      <4> QED  BY <4>1, <4>2, <4>3 DEF Count
    <3>2. Taken' = Taken
      BY <1>1, <1>2, <1>3, <1>5, <2>1, <2>3 DEF Taken, Tasks
    <3> QED  BY <1>1, <3>1, <3>2
  <2>4. CASE StandInLine(n) /\ UNCHANGED channel
    <3>1. Count' = Count
      <4>1. /\ Cardinality(spawned)' = Cardinality(spawned) - 1 /\ Len(waiters)' = Len(waiters) + 1
            /\ Cardinality(granted)' = Cardinality(granted) /\ Len(channel)' = Len(channel)
            /\ Cardinality(Held)' = Cardinality(Held) /\ Cardinality(Begun)' = Cardinality(Begun)
            /\ Len(received)' = Len(received)
        BY <1>1, <1>2, <1>3, <1>6, <2>1, <2>2, <2>4
      <4>2. PICK a, b, c, d, e, f, g \in Nat :
              /\ a = Cardinality(spawned) /\ b = Len(waiters) /\ c = Cardinality(granted)
              /\ d = Len(channel) /\ e = Cardinality(Held) /\ f = Cardinality(Begun) /\ g = Len(received)
        BY CountsAre, Zenon
      <4>3. (a - 1) + (b + 1) + c + d + e + f + g = a + b + c + d + e + f + g
        OBVIOUS
      <4> QED  BY <4>1, <4>2, <4>3 DEF Count
    <3>2. Taken' = Taken
      BY <1>1, <1>2, <1>3, <1>6, <2>1, <2>4 DEF Taken, Tasks
    <3> QED  BY <1>1, <3>1, <3>2
  <2> QED  BY <1>4, <1>7, <2>3, <2>4 DEF Poll
<1>8. CASE UseSlot(n)
  <2>1. n \in granted /\ granted' = granted \ {n} /\ UNCHANGED <<spawned, waiters>> /\ Push(n)
    BY <1>4, <1>8 DEF UseSlot
  <2>2. Cardinality(granted') = Cardinality(granted) - 1
    BY <2>1, CountsAre, FS_RemoveElement
  <2>3. Count' = Count
    <3>1. /\ Cardinality(spawned)' = Cardinality(spawned) /\ Len(waiters)' = Len(waiters)
          /\ Cardinality(granted)' = Cardinality(granted) - 1 /\ Len(channel)' = Len(channel) + 1
          /\ Cardinality(Held)' = Cardinality(Held) /\ Cardinality(Begun)' = Cardinality(Begun)
          /\ Len(received)' = Len(received)
      BY <1>1, <1>2, <1>3, <1>5, <2>1, <2>2
    <3>2. PICK a, b, c, d, e, f, g \in Nat :
            /\ a = Cardinality(spawned) /\ b = Len(waiters) /\ c = Cardinality(granted)
            /\ d = Len(channel) /\ e = Cardinality(Held) /\ f = Cardinality(Begun) /\ g = Len(received)
      BY CountsAre, Zenon
    <3>3. a + b + (c - 1) + (d + 1) + e + f + g = a + b + c + d + e + f + g
      OBVIOUS
    <3> QED  BY <3>1, <3>2, <3>3 DEF Count
  <2>4. Taken' = Taken
    BY <1>1, <1>2, <1>3, <1>5, <2>1 DEF Taken, Tasks
  <2> QED  BY <1>1, <2>3, <2>4
<1> QED  BY <1>7, <1>8

\* The writer takes a message, and its slot goes to the first in line.
LEMMA OnceRecv ==
  ASSUME TypeOK, TasksInv, Recv
  PROVE  Count' = Count /\ Taken' = Taken /\ UNCHANGED sent
<1>1. /\ UNCHANGED <<sent, spawned, data, socket, received>> /\ writing = 0 /\ channel # <<>>
      /\ writing' = Head(channel) /\ channel' = Tail(channel) /\ GrantFirst
  BY DEF Recv, clientVars
<1>2. Stream' = Stream
  BY <1>1 DEF Stream
<1>3. Begun' = Begun
  BY <1>2 DEF Begun
<1>4. /\ Len(channel') = Len(channel) - 1 /\ ToSet(channel) = {Head(channel)} \cup ToSet(channel')
      /\ Head(channel) \in 1..sent
  BY <1>1, TailSet DEF TypeOK
<1>5. Held = {} /\ Held' = {Head(channel)} /\ Cardinality(Held) = 0 /\ Cardinality(Held') = 1
  <2>1. Held = {} /\ Held' = {Head(channel)}
    BY <1>1, <1>4 DEF Held
  <2> QED  BY <2>1, FS_EmptySet, FS_Singleton
<1>6. ToSet(channel)' = ToSet(channel')
  OBVIOUS
<1>7. CASE waiters = <<>>
  <2>1. UNCHANGED <<waiters, granted>>
    BY <1>1, <1>7 DEF GrantFirst
  <2>2. Count' = Count
    BY <1>1, <1>2, <1>3, <1>4, <1>5, <2>1, CountsAre DEF Count
  <2>3. Taken' = Taken
    BY <1>1, <1>2, <1>3, <1>4, <1>5, <2>1 DEF Taken, Tasks
  <2> QED  BY <1>1, <2>2, <2>3
<1>8. CASE waiters # <<>>
  <2>1. waiters' = Tail(waiters) /\ granted' = granted \cup {Head(waiters)}
    BY <1>1, <1>8 DEF GrantFirst
  <2>2. /\ Len(waiters') = Len(waiters) - 1 /\ ToSet(waiters) = {Head(waiters)} \cup ToSet(waiters')
    BY <1>8, <2>1, TailSet DEF TypeOK
  <2>3. Head(waiters) \notin granted
    BY <2>2 DEF TasksInv
  <2>4. Cardinality(granted') = Cardinality(granted) + 1
    BY <2>1, <2>3, CountsAre, FS_AddElement
  <2>5. Count' = Count
    BY <1>1, <1>2, <1>3, <1>4, <1>5, <2>2, <2>4, CountsAre DEF Count
  <2>6. ToSet(waiters)' = ToSet(waiters')
    OBVIOUS
  <2>7. Tasks' = Tasks
    BY <1>1, <2>1, <2>2, <2>6 DEF Tasks
  <2>8. Taken' = Taken
    BY <1>1, <1>2, <1>3, <1>4, <1>5, <1>6, <2>7 DEF Taken
  <2> QED  BY <1>1, <2>5, <2>8
<1> QED  BY <1>7, <1>8

\* What the writer held begins at the end of the stream.
LEMMA OnceWritten ==
  ASSUME TypeOK, Write, socket' = socket \o Frame(writing)
  PROVE  Count' = Count /\ Taken' = Taken /\ UNCHANGED sent
<1> DEFINE n == writing
           N == Len(Stream)
           L == Len(Layout(n))
<1>1. /\ UNCHANGED <<sent, spawned, waiters, granted, channel, received>> /\ writing' = 0 /\ n # 0
  BY DEF Write, clientVars, taskVars
<1>2. /\ n \in 1..sent /\ Stream' \in Seq(Unit) /\ Len(Stream') = N + L /\ n \in Message
      /\ \A i \in DOMAIN Stream : i \in DOMAIN Stream' /\ Stream'[i] = Stream[i]
      /\ \A k \in 1..L : N + k \in DOMAIN Stream' /\ Stream'[N + k] = <<n, k>>
  BY WriteAdds
<1>3. L \in 3..5 /\ N \in Nat /\ DOMAIN Stream = 1..N
  <2>1. L \in 3..5
    BY <1>2, Layouts
  <2> QED  BY <2>1, StreamIs
<1>4. Held = {n} /\ Held' = {} /\ Cardinality(Held) = 1 /\ Cardinality(Held') = 0
  <2>1. Held = {n} /\ Held' = {}
    BY <1>1 DEF Held
  <2> QED  BY <2>1, FS_EmptySet, FS_Singleton
<1> HIDE DEF n, N, L
<1>5. \A k \in 1..L : Stream'[N + k][1] = n /\ Stream'[N + k][2] = k
  BY <1>2
<1>6. ASSUME NEW i \in DOMAIN Stream' PROVE i \in DOMAIN Stream \/ (\E k \in 1..L : i = N + k)
  <2>1. DOMAIN Stream' = 1..(N + L)
    BY <1>2
  <2>2. i \in DOMAIN Stream \/ (i - N \in 1..L /\ i = N + (i - N))
    BY <1>3, <2>1
  <2> QED  BY <2>2
<1>7. 1 \in 1..L /\ N + 1 \notin DOMAIN Stream
  BY <1>3
<1>8. Begun' = Begun \cup {N + 1} /\ N + 1 \notin Begun /\ Stream'[N + 1][1] = n
  <2>1. Begun \subseteq DOMAIN Stream /\ \A i \in Begun : i \in Begun'
    BY <1>2 DEF Begun
  <2>2. N + 1 \in Begun' /\ Stream'[N + 1][1] = n
    <3>1. N + 1 \in DOMAIN Stream'
      BY <1>2, <1>7
    <3>2. Stream'[N + 1][1] = n /\ Stream'[N + 1][2] = 1
      BY <1>5, <1>7
    <3> QED  BY <3>1, <3>2 DEF Begun
  <2>3. ASSUME NEW i \in Begun' PROVE i \in Begun \cup {N + 1}
    <3>1. i \in DOMAIN Stream' /\ Stream'[i][2] = 1
      BY DEF Begun
    <3>2. CASE i \in DOMAIN Stream
      BY <1>2, <3>1, <3>2 DEF Begun
    <3>3. ASSUME NEW k \in 1..L, i = N + k PROVE i = N + 1
      <4>1. Stream'[i][2] = k
        BY <1>5, <3>3
      <4> QED  BY <3>1, <3>3, <4>1
    <3> QED  BY <1>6, <3>1, <3>2, <3>3
  <2> QED  BY <1>7, <2>1, <2>2, <2>3
<1>9. Cardinality(Begun') = Cardinality(Begun) + 1
  BY <1>8, CountsAre, FS_AddElement
<1>10. Count' = Count
  <2>1. /\ Cardinality(spawned)' = Cardinality(spawned) /\ Len(waiters)' = Len(waiters)
        /\ Cardinality(granted)' = Cardinality(granted) /\ Len(channel)' = Len(channel)
        /\ Cardinality(Held)' = Cardinality(Held) - 1 /\ Cardinality(Begun)' = Cardinality(Begun) + 1
        /\ Len(received)' = Len(received)
    BY <1>1, <1>4, <1>9
  <2>2. PICK a, b, c, d, e, f, g \in Nat :
          /\ a = Cardinality(spawned) /\ b = Len(waiters) /\ c = Cardinality(granted)
          /\ d = Len(channel) /\ e = Cardinality(Held) /\ f = Cardinality(Begun) /\ g = Len(received)
    BY CountsAre, Zenon
  <2>3. a + b + c + d + (e - 1) + (f + 1) + g = a + b + c + d + e + f + g
    OBVIOUS
  <2> QED  BY <2>1, <2>2, <2>3 DEF Count
<1>11. {Stream[i][1] : i \in Begun}' = {Stream[i][1] : i \in Begun} \cup {n}
  <2>1. \A i \in Begun : Stream'[i] = Stream[i]
    BY <1>2 DEF Begun
  <2> QED  BY <1>8, <2>1
<1>12. Tasks' = Tasks
  BY <1>1 DEF Tasks
<1>13. Taken' = Taken
  BY <1>1, <1>4, <1>11, <1>12 DEF Taken
<1> QED  BY <1>1, <1>10, <1>13

\* A message taken from the front of the stream has been received.
LEMMA OnceTaken ==
  ASSUME TypeOK, NEW n \in 1..sent, n \in Message, Takes(n),
         UNCHANGED <<taskVars, channel, writing>>
  PROVE  Count' = Count /\ Taken' = Taken
<1> DEFINE L == Len(Layout(n))
<1>1. L \in 3..5
  BY Layouts
<1>2. /\ \A i \in 1..L : i \in DOMAIN Stream /\ Stream[i] = <<n, i>>
      /\ Dropped(L) /\ received' = Append(received, n)
  BY DEF Takes
<1> HIDE DEF L
<1>3. /\ Stream \in Seq(Unit) /\ Stream' \in Seq(Unit) /\ Len(Stream') = Len(Stream) - L
      /\ \A i \in DOMAIN Stream' : i + L \in DOMAIN Stream /\ Stream'[i] = Stream[i + L]
  BY <1>2, StreamIs DEF Dropped
<1>4. 1 \in Begun /\ \A i \in Begun : i # 1 => i > L
  <2>1. 1 \in 1..L
    BY <1>1
  <2>2. 1 \in Begun
    <3>1. 1 \in DOMAIN Stream /\ Stream[1] = <<n, 1>>
      BY <1>2, <2>1
    <3> QED  BY <3>1 DEF Begun
  <2>3. ASSUME NEW i \in Begun, i # 1 PROVE i > L
    <3>1. i \in DOMAIN Stream /\ Stream[i][2] = 1 /\ i \in Nat /\ i # 0
      BY <1>3 DEF Begun
    <3>2. i \notin 1..L
      <4> SUFFICES ASSUME i \in 1..L PROVE FALSE
        OBVIOUS
      <4>1. Stream[i] = <<n, i>>
        BY <1>2
      <4> QED  BY <2>3, <3>1, <4>1
    <3> QED  BY <1>1, <3>1, <3>2
  <2> QED  BY <2>2, <2>3
<1> DEFINE A == Begun'
           B == Begun \ {1}
           f == [i \in A |-> i + L]
<1>5. ASSUME NEW i \in A PROVE i \in Nat /\ i + L \in B /\ Stream'[i] = Stream[i + L]
  <2>1. i \in DOMAIN Stream' /\ Stream'[i][2] = 1 /\ i \in Nat /\ i # 0
    BY <1>3 DEF Begun
  <2>2. i + L \in DOMAIN Stream /\ Stream'[i] = Stream[i + L] /\ i + L # 1
    BY <1>1, <1>3, <2>1
  <2> QED  BY <2>1, <2>2 DEF Begun
<1>6. ASSUME NEW j \in B PROVE \E i \in A : j = i + L
  <2>1. j \in DOMAIN Stream /\ Stream[j][2] = 1 /\ j > L /\ j \in Nat /\ j <= Len(Stream)
    BY <1>3, <1>4 DEF Begun
  <2>2. PICK i : i = j - L
    OBVIOUS
  <2>3. i \in DOMAIN Stream' /\ j = i + L
    BY <1>1, <1>3, <2>1, <2>2
  <2>4. Stream'[i] = Stream[j]
    BY <1>3, <2>3
  <2> QED  BY <2>1, <2>3, <2>4 DEF Begun
<1>7. Cardinality(A) = Cardinality(B)
  <2>1. f \in Bijection(A, B)
    <3>1. f \in [A -> B]
      BY <1>5
    <3>2. \A i, j \in A : f[i] = f[j] => i = j
      BY <1>1, <1>5
    <3>3. \A j \in B : \E i \in A : f[i] = j
      BY <1>6
    <3> HIDE DEF f, A, B
    <3> QED  BY <3>1, <3>2, <3>3, Fun_IsBij
  <2>2. IsFiniteSet(B)
    BY CountsAre, FS_Subset
  <2> QED
    <3>1. ExistsBijection(A, B)
      BY <2>1 DEF ExistsBijection
    <3> HIDE DEF A, B, f
    <3>2. ExistsBijection(B, A)
      BY <3>1, Fun_ExistsBijSymmetric
    <3> QED  BY <2>2, <3>2, FS_Bijection
<1>8. Cardinality(B) = Cardinality(Begun) - 1
  BY <1>4, CountsAre, FS_RemoveElement
<1>9. Held' = Held /\ Tasks' = Tasks /\ UNCHANGED <<spawned, waiters, granted, channel>>
  BY DEF Held, Tasks, taskVars
<1>10. Len(received') = Len(received) + 1 /\ ToSet(received)' = ToSet(received) \cup {n}
  <2>1. PICK S : S = 0..sent
    OBVIOUS
  <2>2. received \in Seq(S) /\ n \in S
    BY <2>1, CountsAre DEF TypeOK
  <2>3. ToSet(Append(received, n)) = ToSet(received) \cup {n}
    BY <2>2, AppendSet
  <2>4. Len(Append(received, n)) = Len(received) + 1
    BY <2>2, AppendSet
  <2> QED  BY <1>2, <2>3, <2>4
<1>11. {Stream[i][1] : i \in Begun} = {Stream[i][1] : i \in Begun}' \cup {n}
  <2>1. 1 \in 1..L
    BY <1>1
  <2>2. Stream[1][1] = n
    <3>1. Stream[1] = <<n, 1>>
      BY <1>2, <2>1
    <3> QED  BY <3>1
  <2>3. \A i \in Begun' : i + L \in Begun /\ Stream'[i] = Stream[i + L]
    BY <1>5
  <2>4. ASSUME NEW j \in Begun PROVE Stream[j][1] \in {Stream[i][1] : i \in Begun}' \cup {n}
    <3>1. CASE j = 1
      BY <2>2, <3>1
    <3>2. CASE j # 1
      <4>1. PICK i \in Begun' : j = i + L
        BY <1>6, <3>2
      <4> QED  BY <2>3, <4>1
    <3> QED  BY <3>1, <3>2
  <2> QED  BY <1>4, <2>2, <2>3, <2>4
<1>12. Count' = Count
  <2>1. /\ Cardinality(spawned)' = Cardinality(spawned) /\ Len(waiters)' = Len(waiters)
        /\ Cardinality(granted)' = Cardinality(granted) /\ Len(channel)' = Len(channel)
        /\ Cardinality(Held)' = Cardinality(Held) /\ Cardinality(Begun)' = Cardinality(Begun) - 1
        /\ Len(received)' = Len(received) + 1
    BY <1>7, <1>8, <1>9, <1>10
  <2>2. PICK a, b, c, d, e, h, g \in Nat :
          /\ a = Cardinality(spawned) /\ b = Len(waiters) /\ c = Cardinality(granted)
          /\ d = Len(channel) /\ e = Cardinality(Held) /\ h = Cardinality(Begun) /\ g = Len(received)
    BY CountsAre, Zenon
  <2>3. a + b + c + d + e + (h - 1) + (g + 1) = a + b + c + d + e + h + g
    OBVIOUS
  <2> QED  BY <2>1, <2>2, <2>3 DEF Count
<1>13. Taken' = Taken
  <2> DEFINE C == {Stream[i][1] : i \in Begun}
  <2>1. C = C' \cup {n}
    BY <1>11
  <2>2. ToSet(channel)' = ToSet(channel)
    BY <1>9
  <2>3. Taken = Tasks \cup ToSet(channel) \cup Held \cup C \cup ToSet(received)
    BY DEF Taken
  <2>4. Taken' = Tasks' \cup ToSet(channel)' \cup Held' \cup C' \cup ToSet(received)'
    BY DEF Taken
  <2> HIDE DEF C
  <2> QED  BY <1>9, <1>10, <2>1, <2>2, <2>3, <2>4
<1> QED  BY <1>12, <1>13

\* Every message stays in exactly one place.
LEMMA OnceKept ==
  ASSUME TypeOK, TasksInv, StreamInv, EachMessageOnce, [Next]_vars
  PROVE  EachMessageOnce'
<1>1. (peer' = "open" => peer = "open") /\ (cut => cut')
  <2>1. SendToPlayer \/ Writer \/ Unregister \/ Read \/ HangUp \/ UNCHANGED vars =>
          (peer' = "open" => peer = "open") /\ cut' = cut
    BY DEF SendToPlayer, Writer, Recv, Write, WriteFails, RecvNone, Unregister, Read, HangUp,
           vars, clientVars
  <2>2. DeSerialize => peer' = peer /\ (cut => cut')
    <3>1. DeSerialize => peer' = peer /\ (cut' = cut \/ cut' = TRUE)
      BY DEF DeSerialize
    <3> QED  BY <3>1
  <2>3. ASSUME NEW n \in Message, Poll(n) \/ UseSlot(n) PROVE peer' = peer /\ cut' = cut
    BY <2>3 DEF Poll, UseSlot, clientVars
  <2> QED  BY <2>1, <2>2, <2>3 DEF Next
<1> SUFFICES ASSUME peer' = "open", ~cut' PROVE
      /\ (Stream # <<>> => Stream[1][2] = 1)'
      /\ (\A i \in DOMAIN Stream : WholeFrom(i))'
      /\ Count' = sent' /\ Taken' = 1..sent'
  BY DEF EachMessageOnce, Count, Taken
<1>2. peer = "open" /\ ~cut /\ Count = sent /\ Taken = 1..sent
  BY <1>1 DEF EachMessageOnce, Count, Taken
<1>3. (Stream # <<>> => Stream[1][2] = 1)' /\ (\A i \in DOMAIN Stream : WholeFrom(i))'
  BY StreamKept DEF StreamInv
<1>4. CASE SendToPlayer
  BY <1>2, <1>3, <1>4, OnceSent
<1>5. ASSUME NEW n \in Message, Poll(n) \/ UseSlot(n) PROVE Count' = sent' /\ Taken' = 1..sent'
  BY <1>2, <1>5, OncePolled
<1>6. CASE Recv
  BY <1>2, <1>3, <1>6, OnceRecv
<1>7. CASE Write
  <2>1. socket' = socket \o Frame(writing)
    BY <1>2, <1>7 DEF Write
  <2> QED  BY <1>2, <1>3, <1>7, <2>1, OnceWritten
<1>8. ~WriteFails
  BY <1>2 DEF WriteFails
<1>9. ASSUME UNCHANGED <<sent, spawned, waiters, granted, channel, writing, received>>, Stream' = Stream
      PROVE  Count' = sent' /\ Taken' = 1..sent'
  <2>1. Begun' = Begun /\ Held' = Held /\ Tasks' = Tasks
    BY <1>9 DEF Begun, Held, Tasks
  <2>2. Count' = Count
    BY <1>9, <2>1 DEF Count
  <2>3. Taken' = Taken
    BY <1>9, <2>1 DEF Taken
  <2> QED  BY <1>2, <1>9, <2>2, <2>3
<1>10. CASE RecvNone
  <2>1. /\ Tasks = {} /\ channel = <<>> /\ writing = 0
        /\ channel' = <<>> /\ waiters' = <<>> /\ writing' = 0
        /\ UNCHANGED <<sent, spawned, granted, received, data, socket>>
    BY <1>10 DEF RecvNone, EverySenderDropped, Close, clientVars
  <2>2. waiters = <<>>
    <3>1. ToSet(waiters) = {}
      BY <2>1 DEF Tasks
    <3>2. waiters \in Seq(1..sent)
      BY DEF TypeOK
    <3>3. waiters # <<>> => 1 \in DOMAIN waiters
      BY <3>2
    <3> QED  BY <3>1, <3>3 DEF ToSet
  <2>3. Stream' = Stream
    BY <2>1 DEF Stream
  <2> QED  BY <1>3, <1>9, <2>1, <2>2, <2>3
<1>11. CASE Read
  <2>1. UNCHANGED <<taskVars, channel, writing, received>>
    BY <1>11 DEF Read
  <2> QED  BY <1>3, <1>9, <1>11, <2>1, ReadStays DEF taskVars
<1>12. CASE DeSerialize
  <2>1. UNCHANGED <<taskVars, channel, writing>>
    BY <1>12 DEF DeSerialize
  <2>2. CASE Stream' = Stream /\ UNCHANGED <<received, cut>>
    BY <1>3, <1>9, <2>1, <2>2 DEF taskVars
  <2>3. ASSUME NEW n \in 1..sent, n \in Message, Takes(n) PROVE Count' = sent' /\ Taken' = 1..sent'
    <3>1. Count' = Count /\ Taken' = Taken
      BY <2>1, <2>3, OnceTaken
    <3> QED  BY <1>2, <2>1, <3>1 DEF taskVars
  <2> QED  BY <1>3, <1>12, <2>2, <2>3, Decoded
<1>13. CASE Unregister \/ HangUp \/ UNCHANGED vars
  <2>1. UNCHANGED <<taskVars, channel, writing, received, data, socket>>
    BY <1>13 DEF Unregister, HangUp, vars, clientVars
  <2>2. Stream' = Stream
    BY <2>1 DEF Stream
  <2> QED  BY <1>3, <1>9, <2>1, <2>2 DEF taskVars
<1> QED
  BY <1>3, <1>4, <1>5, <1>6, <1>7, <1>8, <1>10, <1>11, <1>12, <1>13 DEF Next, Writer

-----------------------------------------------------------------------------
(* The theorems                                                            *)

\* At the start there is nothing.
LEMMA InitDelivery == Init => DeliveryInv
<1> SUFFICES ASSUME Init PROVE DeliveryInv
  OBVIOUS
<1>1. /\ sent = 0 /\ spawned = {} /\ waiters = <<>> /\ granted = {} /\ channel = <<>> /\ writing = 0
      /\ socket = <<>> /\ data = <<>> /\ received = <<>> /\ pushed = <<>> /\ registered = TRUE
      /\ writer = "running" /\ peer = "open" /\ decoding = FALSE /\ cut = FALSE
  BY DEF Init
<1>2. Stream = <<>> /\ DOMAIN Stream = {} /\ Begun = {} /\ Numbers = {} /\ Held = {} /\ Tasks = {}
  <2>1. Stream = <<>> /\ DOMAIN Stream = {}
    BY <1>1 DEF Stream
  <2>2. ToSet(waiters) = {}
    BY <1>1 DEF ToSet
  <2> QED  BY <1>1, <2>1, <2>2 DEF Begun, Numbers, Held, Tasks
<1>3. Cardinality({}) = 0
  BY FS_EmptySet
<1>4. Kinds \in Seq({"start", "board", "shop"}) /\ Len(Kinds) \in Nat /\ Capacity \in Nat \ {0}
      /\ SocketRoom \in Nat
  BY SocketAssumption, CapacityAssumption
<1>5. TypeOK
  <2>1. \A S : <<>> \in Seq(S) /\ Len(<<>>) = 0
    OBVIOUS
  <2>2. 0 \in 0..Len(Kinds) /\ 0 \in 0..0 /\ 0 <= SocketRoom /\ 0 + 0 <= Capacity
    BY <1>4
  <2> QED  BY <1>1, <1>3, <2>1, <2>2 DEF TypeOK
<1>6. TasksInv
  BY <1>1, <1>2 DEF TasksInv, ToSet
<1>7. StreamInv
  BY <1>2 DEF StreamInv
<1>8. EachMessageOnce
  <2>1. Count = 0
    BY <1>1, <1>2, <1>3 DEF Count
  <2>2. Taken = {}
    BY <1>1, <1>2 DEF Taken, ToSet
  <2>3. 1..sent = {}
    BY <1>1
  <2> QED  BY <1>1, <1>2, <2>1, <2>2, <2>3 DEF EachMessageOnce, Count, Taken
<1>9. PushedInv
  BY <1>1, <1>2 DEF PushedInv, AllClear
<1>10. OrderInv
  <2>1. ToSet(received) = {} /\ ToSet(channel) = {}
    BY <1>1 DEF ToSet
  <2> QED  BY <1>1, <1>2, <2>1 DEF OrderInv, AllClear
<1> QED  BY <1>5, <1>6, <1>7, <1>8, <1>9, <1>10 DEF DeliveryInv

\* The inductive invariant of the whole delivery.
THEOREM DeliveryInvariant == Spec => []DeliveryInv
<1>1. DeliveryInv /\ [Next]_vars => DeliveryInv'
  BY TypesKept, TasksKept, StreamKept, OnceKept, PushedKept, OrderKept DEF DeliveryInv
<1> QED  BY <1>1, InitDelivery, PTL DEF Spec

\* The channel holds no more than its slots and nobody waits while one is free.
THEOREM DeliveryTypes == Spec => []TypeOK
<1>1. DeliveryInv => TypeOK
  BY DEF DeliveryInv
<1> QED  BY <1>1, DeliveryInvariant, PTL

\* Every message is in exactly one place.
THEOREM NothingLostOrTwice == Spec => []EachMessageOnce
<1>1. DeliveryInv => EachMessageOnce
  BY DEF DeliveryInv
<1> QED  BY <1>1, DeliveryInvariant, PTL

\* What was in the channel before a message was sent is received before it.
THEOREM ChannelOrder == Spec => []NoOvertaking
<1>1. DeliveryInv => NoOvertaking
  BY DEF DeliveryInv, OrderInv, Clear, NoOvertaking
<1> QED  BY <1>1, DeliveryInvariant, PTL
=============================================================================
