---------------------------- MODULE ChampionProofs ----------------------------
(***************************************************************************)
(* Theorems about Champion, for all statistics, prices, timers and limits  *)
(* that its assumptions admit and every order of rewards, purchases, casts,*)
(* hits and ticks.                                                         *)
(***************************************************************************)
EXTENDS Champion, FiniteSetTheorems, WellFoundedInduction, TLAPS

\* Ranges of what the books are kept in.
BooksInv ==
  /\ level \in 1..Len(XpPerLevel) + 1 /\ xp \in Nat /\ gold \in 0..GoldMax
  /\ inventory \in [1..Slots -> Item \cup {Empty}]
  /\ mana \in Nat /\ casts \in [DOMAIN SpellCost -> Nat]

\* The timer of a champion that was killed is that of its last hit that left no
\* health, and health is missing entirely only at the time of that hit.
\* A task that has crashed has no effects left to apply.
BodyInv ==
  /\ now \in Nat /\ deaths \in Nat /\ deathTimer \in Nat
  /\ wounds \in 0..stats.health
  /\ killed # Never => killed \in Nat /\ deaths > 0 /\ deathTimer = killed + Timer(deaths)
  /\ outcome = "running" /\ health = 0 => killed = now
  /\ phase = "effects" => outcome = "running"

\* The active buff is the last wall's; without a buff there is no stun, and the
\* last wall is too old for one.
StunInv ==
  /\ now \in Nat /\ walls \subseteq 0..now
  /\ buff \in Nat \cup {Never} /\ lastWall \in Nat \cup {Never} /\ stunTimer \in Nat
  /\ buff = Never => stunTimer = 0 /\ (lastWall # Never => now - lastWall > StunTime)
  /\ buff # Never => buff = lastWall /\ stunTimer >= buff + StunTime

ChampionInv == BooksInv /\ BooksBalance /\ StatsAreSums /\ BodyInv /\ StunInv

-----------------------------------------------------------------------------
(* Sums over finite sets.  The sum of a function is a recursive function   *)
(* over the subsets of the set; what it is follows by looking at a least   *)
(* subset for which it would be otherwise.                                 *)

\* A set of numbers has a least one.
LEMMA LeastNumber ==
  ASSUME NEW S \in SUBSET Nat, S # {}
  PROVE  \E m \in S : \A k \in S : m <= k
<1> DEFINE R == {ss \in Nat \X Nat : ss[1] < ss[2]}
<1>1. IsWellFoundedOn(R, Nat)
  BY NatLessThanWellFounded, Zenon DEF OpToRel
<1> HIDE DEF R
<1>2. PICK m \in S : \A k \in S : <<k, m>> \notin R
  BY <1>1, WFMin
<1>3. ASSUME NEW k \in S  PROVE m <= k
  <2>1. k \in Nat /\ m \in Nat
    OBVIOUS
  <2>2. ~(k < m)
    BY <1>2, <2>1 DEF R
  <2> QED  BY <2>1, <2>2
<1> QED  BY <1>3

\* The element that a sum takes next.
Next1(s) == CHOOSE x \in s : TRUE

\* g holds the sum of f over each subset in D.
Sums(g, f, D) ==
  g = [s \in D |-> IF s = {} THEN 0 ELSE f[Next1(s)] + g[s \ {Next1(s)}]]

\* The element taken next is one of the set.
LEMMA NextIsIn ==
  ASSUME NEW s, s # {}
  PROVE  Next1(s) \in s
BY DEF Next1

\* A finite set without one of its elements is smaller.
LEMMA OneLess ==
  ASSUME NEW s, IsFiniteSet(s), NEW x \in s
  PROVE  /\ IsFiniteSet(s \ {x}) /\ Cardinality(s \ {x}) = Cardinality(s) - 1
         /\ Cardinality(s) \in Nat /\ Cardinality(s \ {x}) \in Nat
<1>1. IsFiniteSet(s \ {x}) /\ Cardinality(s \ {x}) = Cardinality(s) - 1
  BY FS_RemoveElement
<1>2. Cardinality(s) \in Nat /\ Cardinality(s \ {x}) \in Nat
  BY <1>1, FS_CardinalityType
<1> QED  BY <1>1, <1>2

\* There is such a function.
LEMMA SumsExist ==
  ASSUME NEW S, IsFiniteSet(S), NEW f
  PROVE  \E g : Sums(g, f, SUBSET S)
<1> DEFINE D(n) == {s \in SUBSET S : Cardinality(s) <= n}
           Bad == {n \in Nat : ~\E g : Sums(g, f, D(n))}
<1>0. \A s \in SUBSET S : IsFiniteSet(s) /\ Cardinality(s) \in Nat
  BY FS_Subset, FS_CardinalityType
<1>1. Bad = {}
  <2>1. SUFFICES ASSUME Bad # {}  PROVE FALSE
    OBVIOUS
  <2>2. PICK n \in Bad : \A k \in Bad : n <= k
    BY <2>1, LeastNumber
  <2>3. CASE n = 0
    <3> DEFINE g == [s \in D(0) |-> 0]
    <3>1. \A s \in D(0) : s = {}
      BY <1>0, FS_EmptySet
    <3>2. Sums(g, f, D(0))
      BY <3>1 DEF Sums
    <3> QED  BY <2>2, <2>3, <3>2
  <2>4. CASE n # 0
    <3>1. n - 1 \in Nat /\ n - 1 \notin Bad
      <4>1. n \in Nat
        BY <2>2
      <4> HIDE DEF Bad
      <4> QED  BY <2>2, <2>4, <4>1
    <3>2. PICK g : Sums(g, f, D(n - 1))
      BY <3>1
    <3> DEFINE h == [s \in D(n) |-> IF s = {} THEN 0 ELSE f[Next1(s)] + g[s \ {Next1(s)}]]
    <3>3. ASSUME NEW s \in D(n - 1)  PROVE h[s] = g[s]
      <4>1. s \in D(n)
        BY <1>0, <2>2
      <4> QED  BY <3>2, <4>1 DEF Sums
    <3>4. \A s \in D(n) : s # {} => s \ {Next1(s)} \in D(n - 1)
      <4>1. ASSUME NEW s \in D(n), s # {}  PROVE s \ {Next1(s)} \in D(n - 1)
        BY <1>0, <2>2, <4>1, NextIsIn, OneLess
      <4> QED  BY <4>1
    <3>5. h = [s \in D(n) |-> IF s = {} THEN 0 ELSE f[Next1(s)] + h[s \ {Next1(s)}]]
      <4> HIDE DEF D
      <4> QED  BY <3>3, <3>4
    <3>6. Sums(h, f, D(n))
      <4> HIDE DEF D, h
      <4> QED  BY <3>5 DEF Sums
    <3> QED  BY <2>2, <3>6
  <2> QED  BY <2>3, <2>4
<1>2. Cardinality(S) \in Nat /\ D(Cardinality(S)) = SUBSET S
  <2>1. \A s \in SUBSET S : Cardinality(s) <= Cardinality(S)
    BY FS_Subset
  <2> QED  BY <1>0, <2>1
<1> QED  BY <1>1, <1>2

\* The sums are those of the community modules.
LEMMA SumIs ==
  ASSUME NEW S, IsFiniteSet(S), NEW f
  PROVE  \E g : Sums(g, f, SUBSET S) /\ SumFunctionOnSet(f, S) = g[S]
<1> DEFINE G == CHOOSE g : Sums(g, f, SUBSET S)
<1>1. Sums(G, f, SUBSET S)
  BY SumsExist
<1>2. SumFunctionOnSet(f, S) = G[S]
  BY DEF SumFunctionOnSet, FoldFunctionOnSet, MapThenFoldSet, Sums, Next1
<1> QED  BY <1>1, <1>2

\* A sum depends on the values over its set alone, and is a number.
LEMMA SumsAgree ==
  ASSUME NEW f, NEW T, NEW g, Sums(g, f, SUBSET T), NEW U, NEW h, Sums(h, f, SUBSET U)
  PROVE  \A S : /\ IsFiniteSet(S) /\ S \subseteq T /\ S \subseteq U
                /\ \A x \in S : f[x] \in Nat
                => g[S] = h[S] /\ g[S] \in Nat
<1> SUFFICES ASSUME NEW S, IsFiniteSet(S), S \subseteq T, S \subseteq U,
                    \A x \in S : f[x] \in Nat
             PROVE  g[S] = h[S] /\ g[S] \in Nat
  OBVIOUS
<1> DEFINE Bad == {n \in Nat : \E s \in SUBSET S : Cardinality(s) = n /\ ~(g[s] = h[s] /\ g[s] \in Nat)}
<1>0. \A s \in SUBSET S : IsFiniteSet(s) /\ Cardinality(s) \in Nat
  BY FS_Subset, FS_CardinalityType
<1>1. Bad = {}
  <2>1. SUFFICES ASSUME Bad # {}  PROVE FALSE
    OBVIOUS
  <2>2. PICK n \in Bad : \A k \in Bad : n <= k
    BY <2>1, LeastNumber
  <2>3. PICK s \in SUBSET S : Cardinality(s) = n /\ ~(g[s] = h[s] /\ g[s] \in Nat)
    BY <2>2
  <2>4. /\ g[s] = IF s = {} THEN 0 ELSE f[Next1(s)] + g[s \ {Next1(s)}]
        /\ h[s] = IF s = {} THEN 0 ELSE f[Next1(s)] + h[s \ {Next1(s)}]
    BY <2>3 DEF Sums
  <2>5. CASE s = {}
    BY <2>3, <2>4, <2>5
  <2>6. CASE s # {}
    <3>1. PICK x \in s : x = Next1(s)
      BY <2>6, NextIsIn
    <3>2. Cardinality(s \ {x}) = n - 1 /\ n - 1 \in Nat
      BY <1>0, <2>3, <3>1, OneLess
    <3>3. n - 1 \notin Bad
      <4>1. n \in Nat
        BY <2>2
      <4> HIDE DEF Bad
      <4> QED  BY <2>2, <4>1
    <3>4. g[s \ {x}] = h[s \ {x}] /\ g[s \ {x}] \in Nat
      BY <2>3, <3>2, <3>3
    <3>5. f[x] \in Nat
      BY <2>3
    <3> QED  BY <2>3, <2>4, <2>6, <3>1, <3>4, <3>5
  <2> QED  BY <2>5, <2>6
<1>2. Cardinality(S) \in Nat
  BY <1>0
<1> QED  BY <1>1, <1>2

\* It does not matter which element is taken first.
LEMMA SumsTake ==
  ASSUME NEW T, NEW S, S \subseteq T, IsFiniteSet(S), NEW f, \A y \in S : f[y] \in Nat,
         NEW g, Sums(g, f, SUBSET T), NEW x \in S
  PROVE  g[S] = f[x] + g[S \ {x}]
<1> DEFINE Bad == {n \in Nat : \E s \in SUBSET S : \E y \in s :
                     Cardinality(s) = n /\ g[s] # f[y] + g[s \ {y}]}
<1>0. \A s \in SUBSET S : IsFiniteSet(s) /\ Cardinality(s) \in Nat
  BY FS_Subset, FS_CardinalityType
<1>a. ASSUME NEW s \in SUBSET S  PROVE g[s] \in Nat
  <2>1. \A s0 : /\ IsFiniteSet(s0) /\ s0 \subseteq T /\ s0 \subseteq T
                /\ \A y \in s0 : f[y] \in Nat
                => g[s0] = g[s0] /\ g[s0] \in Nat
    BY SumsAgree
  <2> QED  BY <1>0, <2>1
<1>1. Bad = {}
  <2>1. SUFFICES ASSUME Bad # {}  PROVE FALSE
    OBVIOUS
  <2>2. PICK n \in Bad : \A k \in Bad : n <= k
    BY <2>1, LeastNumber
  <2>a. PICK s \in SUBSET S : \E y \in s : Cardinality(s) = n /\ g[s] # f[y] + g[s \ {y}]
    BY <2>2
  <2>3. PICK y \in s : Cardinality(s) = n /\ g[s] # f[y] + g[s \ {y}]
    BY <2>a
  <2>4. PICK c \in s : c = Next1(s) /\ g[s] = f[c] + g[s \ {c}]
    BY <2>3, NextIsIn DEF Sums
  <2>5. c # y
    BY <2>3, <2>4
  <2>6. /\ Cardinality(s \ {c}) = n - 1 /\ Cardinality(s \ {y}) = n - 1 /\ n - 1 \in Nat
    BY <1>0, <2>3, OneLess
  <2>7. n - 1 \notin Bad
    <3>1. n \in Nat
      BY <2>2
    <3> HIDE DEF Bad
    <3> QED  BY <2>2, <3>1
  <2>8. g[s \ {c}] = f[y] + g[(s \ {c}) \ {y}] /\ g[s \ {y}] = f[c] + g[(s \ {y}) \ {c}]
    BY <2>3, <2>5, <2>6, <2>7
  <2>9. (s \ {c}) \ {y} = (s \ {y}) \ {c}
    OBVIOUS
  <2>10. PICK v \in Nat : v = g[(s \ {c}) \ {y}]
    BY <1>a
  <2>11. g[s \ {c}] = f[y] + v /\ g[s \ {y}] = f[c] + v
    BY <2>8, <2>9, <2>10
  <2>12. PICK a \in Nat, b \in Nat : a = f[c] /\ b = f[y]
    OBVIOUS
  <2>13. g[s] = a + (b + v) /\ g[s] # b + (a + v)
    BY <2>3, <2>4, <2>11, <2>12
  <2> QED  BY <2>13
<1>2. Cardinality(S) \in Nat
  BY <1>0
<1> QED  BY <1>1, <1>2

\* The facts about sums that the rest uses.
LEMMA SumEmpty ==
  ASSUME NEW f  PROVE SumFunctionOnSet(f, {}) = 0
<1>1. PICK g : Sums(g, f, SUBSET {}) /\ SumFunctionOnSet(f, {}) = g[{}]
  BY FS_EmptySet, SumIs
<1> QED  BY <1>1 DEF Sums

\* A sum of naturals is one.
LEMMA SumNat ==
  ASSUME NEW S, IsFiniteSet(S), NEW f, \A x \in S : f[x] \in Nat
  PROVE  SumFunctionOnSet(f, S) \in Nat
<1>1. PICK g : Sums(g, f, SUBSET S) /\ SumFunctionOnSet(f, S) = g[S]
  BY SumIs
<1>2. \A s : /\ IsFiniteSet(s) /\ s \subseteq S /\ s \subseteq S
             /\ \A x \in s : f[x] \in Nat
             => g[s] = g[s] /\ g[s] \in Nat
  BY <1>1, SumsAgree
<1> QED  BY <1>1, <1>2

\* The sum only depends on the values summed.
LEMMA SumSame ==
  ASSUME NEW S, IsFiniteSet(S), NEW f, \A x \in S : f[x] \in Nat,
         NEW e, \A x \in S : e[x] = f[x]
  PROVE  SumFunctionOnSet(e, S) = SumFunctionOnSet(f, S)
<1>1. PICK g : Sums(g, f, SUBSET S) /\ SumFunctionOnSet(f, S) = g[S]
  BY SumIs
<1>2. PICK h : Sums(h, e, SUBSET S) /\ SumFunctionOnSet(e, S) = h[S]
  BY SumIs
<1>3. Sums(h, f, SUBSET S)
  <2>1. \A s \in SUBSET S : s # {} => e[Next1(s)] = f[Next1(s)]
    BY NextIsIn
  <2> QED  BY <1>2, <2>1 DEF Sums
<1>4. \A s : /\ IsFiniteSet(s) /\ s \subseteq S /\ s \subseteq S
             /\ \A x \in s : f[x] \in Nat
             => g[s] = h[s] /\ g[s] \in Nat
  BY <1>1, <1>3, SumsAgree
<1> QED  BY <1>1, <1>2, <1>4

\* Any of the values may be taken out of the sum.
LEMMA SumTake ==
  ASSUME NEW S, IsFiniteSet(S), NEW f, \A y \in S : f[y] \in Nat, NEW x \in S
  PROVE  SumFunctionOnSet(f, S) = f[x] + SumFunctionOnSet(f, S \ {x})
<1>0. IsFiniteSet(S \ {x})
  BY FS_Subset
<1>1. PICK g : Sums(g, f, SUBSET S) /\ SumFunctionOnSet(f, S) = g[S]
  BY SumIs
<1>2. PICK h : Sums(h, f, SUBSET (S \ {x})) /\ SumFunctionOnSet(f, S \ {x}) = h[S \ {x}]
  BY <1>0, SumIs
<1>3. g[S] = f[x] + g[S \ {x}]
  BY <1>1, SumsTake
<1>4. g[S \ {x}] = h[S \ {x}]
  <2> DEFINE P == S \ {x}
  <2>1. IsFiniteSet(P) /\ P \subseteq S /\ (\A y \in P : f[y] \in Nat) /\ Sums(h, f, SUBSET P)
    BY <1>0, <1>2
  <2> HIDE DEF P
  <2>a. \A s : /\ IsFiniteSet(s) /\ s \subseteq S /\ s \subseteq P
               /\ \A y \in s : f[y] \in Nat
               => g[s] = h[s] /\ g[s] \in Nat
    BY <1>1, <2>1, SumsAgree
  <2>2. g[P] = h[P]
    BY <2>1, <2>a
  <2> QED  BY <2>2 DEF P
<1> QED  BY <1>1, <1>2, <1>3, <1>4

\* A sum of zeros.
LEMMA SumOfNothing ==
  ASSUME NEW S, IsFiniteSet(S), NEW f, \A x \in S : f[x] = 0
  PROVE  SumFunctionOnSet(f, S) = 0
<1>1. PICK g : Sums(g, f, SUBSET S) /\ SumFunctionOnSet(f, S) = g[S]
  BY SumIs
<1>2. PICK z : z = [s \in SUBSET S |-> 0]
  OBVIOUS
<1>3. Sums(z, f, SUBSET S) /\ z[S] = 0
  BY <1>2, NextIsIn DEF Sums
<1>4. \A s : /\ IsFiniteSet(s) /\ s \subseteq S /\ s \subseteq S
             /\ \A x \in s : f[x] \in Nat
             => g[s] = z[s] /\ g[s] \in Nat
  BY <1>1, <1>3, SumsAgree
<1> QED  BY <1>1, <1>3, <1>4

\* One more element, and one value that grows.
LEMMA SumAdd ==
  ASSUME NEW S, IsFiniteSet(S), NEW x, x \notin S, NEW f, \A y \in S \cup {x} : f[y] \in Nat,
         NEW e, \A y \in S : e[y] = f[y]
  PROVE  /\ SumFunctionOnSet(f, S \cup {x}) = f[x] + SumFunctionOnSet(e, S)
         /\ SumFunctionOnSet(e, S) \in Nat
<1>1. IsFiniteSet(S \cup {x})
  BY FS_AddElement
<1>2. (S \cup {x}) \ {x} = S
  OBVIOUS
<1>3. SumFunctionOnSet(f, S \cup {x}) = f[x] + SumFunctionOnSet(f, (S \cup {x}) \ {x})
  <2> DEFINE Q == S \cup {x}
  <2>1. IsFiniteSet(Q) /\ (\A y \in Q : f[y] \in Nat) /\ x \in Q
    BY <1>1
  <2> HIDE DEF Q
  <2>2. SumFunctionOnSet(f, Q) = f[x] + SumFunctionOnSet(f, Q \ {x})
    BY <2>1, SumTake
  <2> QED  BY <2>2 DEF Q
<1>4. SumFunctionOnSet(e, S) = SumFunctionOnSet(f, S) /\ SumFunctionOnSet(f, S) \in Nat
  BY SumSame, SumNat
<1> QED  BY <1>2, <1>3, <1>4

\* A value that grows lets the sum grow by as much.
LEMMA SumGrow ==
  ASSUME NEW S, IsFiniteSet(S), NEW x \in S, NEW d \in Nat, NEW f, \A y \in S : f[y] \in Nat,
         NEW e, e[x] = f[x] + d, \A y \in S \ {x} : e[y] = f[y]
  PROVE  SumFunctionOnSet(e, S) = SumFunctionOnSet(f, S) + d
<1>1. IsFiniteSet(S \ {x}) /\ \A y \in S : e[y] \in Nat
  BY FS_Subset
<1>2. SumFunctionOnSet(f, S) = f[x] + SumFunctionOnSet(f, S \ {x})
  BY SumTake
<1>3. SumFunctionOnSet(e, S) = e[x] + SumFunctionOnSet(e, S \ {x})
  BY <1>1, SumTake
<1>4. /\ SumFunctionOnSet(e, S \ {x}) = SumFunctionOnSet(f, S \ {x})
      /\ SumFunctionOnSet(f, S \ {x}) \in Nat
  <2> DEFINE P == S \ {x}
  <2>1. IsFiniteSet(P) /\ (\A y \in P : f[y] \in Nat) /\ (\A y \in P : e[y] = f[y])
    BY <1>1
  <2> HIDE DEF P
  <2>2. SumFunctionOnSet(e, P) = SumFunctionOnSet(f, P) /\ SumFunctionOnSet(f, P) \in Nat
    BY <2>1, SumSame, SumNat
  <2> QED  BY <2>2 DEF P
<1>5. f[x] \in Nat
  OBVIOUS
<1> QED  BY <1>2, <1>3, <1>4, <1>5

-----------------------------------------------------------------------------
(* Numbers                                                                 *)

\* A bounded set of numbers has a greatest one.
LEMMA MaxIs ==
  ASSUME NEW S \in SUBSET Nat, S # {}, NEW N \in Nat, \A x \in S : x <= N
  PROVE  Max(S) \in S /\ \A y \in S : y <= Max(S)
<1> DEFINE Below == {N - x : x \in S}
<1>1. Below \in SUBSET Nat /\ Below # {}
  <2>1. \A x \in S : N - x \in Nat
    OBVIOUS
  <2> QED  BY <2>1
<1>2. PICK m \in Below : \A k \in Below : m <= k
  BY <1>1, LeastNumber
<1>3. PICK x \in S : m = N - x
  BY <1>2
<1>4. \A y \in S : x >= y
  <2>1. ASSUME NEW y \in S  PROVE x >= y
    <3>1. m <= N - y
      BY <1>2
    <3> QED  BY <1>3, <3>1
  <2> QED  BY <2>1
<1>5. \E z \in S : \A y \in S : z >= y
  BY <1>4
<1>6. Max(S) \in S /\ \A y \in S : Max(S) >= y
  <2> HIDE DEF Below
  <2> QED  BY <1>5 DEF Max
<1> QED  BY <1>6

\* The greater of two numbers.
LEMMA MaxOfTwo ==
  ASSUME NEW a \in Int, NEW b \in Int
  PROVE  Max({a, b}) = IF a >= b THEN a ELSE b
<1>1. \E z \in {a, b} : \A y \in {a, b} : z >= y
  OBVIOUS
<1>2. Max({a, b}) \in {a, b} /\ \A y \in {a, b} : Max({a, b}) >= y
  BY <1>1 DEF Max
<1> QED  BY <1>2

\* The smaller of two numbers.
LEMMA MinOfTwo ==
  ASSUME NEW a \in Int, NEW b \in Int
  PROVE  Min({a, b}) = IF a <= b THEN a ELSE b
<1>1. \E z \in {a, b} : \A y \in {a, b} : z <= y
  OBVIOUS
<1>2. Min({a, b}) \in {a, b} /\ \A y \in {a, b} : Min({a, b}) <= y
  BY <1>1 DEF Min
<1> QED  BY <1>2

\* What a difference of two times says of them.
LEMMA Difference ==
  ASSUME NEW a \in Nat, NEW b \in Nat, NEW t \in Nat
  PROVE  /\ a - b > t <=> b + t < a
         /\ a - b <= t <=> a <= b + t
         /\ a - b >= t <=> b + t <= a
OBVIOUS

\* A product grows with a factor.
LEMMA TimesGrows ==
  ASSUME NEW a \in Nat, NEW b \in Nat, NEW c \in Nat, b <= c
  PROVE  a * b <= a * c /\ a * b \in Nat /\ a * c \in Nat
<1>1. PICK d \in Nat : c = b + d
  <2>1. c - b \in Nat /\ c = b + (c - b)
    OBVIOUS
  <2> QED  BY <2>1
<1>2. a * c = a * b + a * d
  BY <1>1
<1>3. a * b \in Nat /\ a * d \in Nat /\ a * c \in Nat
  BY <1>1
<1> QED  BY <1>2, <1>3

\* The timer of any death lasts at least as long as that of the first, which is
\* longer than the time between two ticks.
LEMMA TimerLasts ==
  ASSUME NEW n \in Nat \ {0}
  PROVE  Timer(n) \in Nat /\ TimerScale <= Timer(n) /\ Lag <= Timer(n)
<1> DEFINE S == {s \in 0..n * TimerScale : s * s <= n * TimerScale * TimerScale}
<1>1. TimerScale \in Nat \ {0} /\ Lag <= TimerScale /\ Lag \in Nat
  BY NumbersAssumption
<1>2. TimerScale * 1 <= TimerScale * n /\ n * TimerScale \in Nat /\ TimerScale * n = n * TimerScale
  BY <1>1, TimesGrows
<1>3. TimerScale * TimerScale <= TimerScale * (n * TimerScale)
  BY <1>1, <1>2, TimesGrows
<1>4. TimerScale \in S
  BY <1>1, <1>2, <1>3
<1>5. S \in SUBSET Nat /\ S # {} /\ \A x \in S : x <= n * TimerScale
  BY <1>1, <1>2, <1>4
<1>6. Max(S) \in S /\ TimerScale <= Max(S)
  <2> HIDE DEF S
  <2> QED  BY <1>2, <1>4, <1>5, MaxIs
<1>7. Timer(n) = Max(S)
  BY DEF Timer
<1> QED  BY <1>1, <1>5, <1>6, <1>7

\* Armor never turns damage into healing.
LEMMA DamageIsANumber ==
  ASSUME NEW d \in Nat, NEW a \in Nat
  PROVE  d \div (1 + a \div 100) \in Nat
<1>1. PICK q \in Nat : q = a \div 100
  <2>1. a \div 100 \in Nat
    OBVIOUS
  <2> QED  BY <2>1
<1>2. 1 + q \in Nat /\ 1 + q > 0
  OBVIOUS
<1> QED  BY <1>1, <1>2

-----------------------------------------------------------------------------
(* Levels and statistics                                                   *)

Items == [1..Slots -> Item \cup {Empty}]

\* The slots that hold an item are finitely many.
LEMMA FilledIsFinite ==
  ASSUME NEW items \in Items
  PROVE  IsFiniteSet(Filled(items)) /\ \A s \in Filled(items) : items[s] \in Item
<1>1. Slots \in Nat
  BY NumbersAssumption
<1>2. IsFiniteSet(1..Slots)
  BY <1>1, FS_Interval
<1>3. Filled(items) \subseteq 1..Slots
  BY DEF Filled
<1>4. IsFiniteSet(Filled(items))
  BY <1>2, <1>3, FS_Subset
<1> QED  BY <1>3, <1>4 DEF Filled, Items

\* What a level costs is a number, and the next one costs more by its threshold.
LEMMA XpSpentIs ==
  ASSUME NEW lvl \in 1..Len(XpPerLevel) + 1
  PROVE  /\ XpSpent(lvl) \in Nat
         /\ lvl <= Len(XpPerLevel) => /\ XpSpent(lvl + 1) = XpPerLevel[lvl] + XpSpent(lvl)
                                       /\ XpPerLevel[lvl] \in Nat \ {0}
<1>1. /\ Len(XpPerLevel) \in Nat
      /\ \A l \in 1..Len(XpPerLevel) : XpPerLevel[l] \in Nat \ {0}
  BY BooksAssumption
<1>2. 0 \in Int /\ 1 \in Int /\ lvl - 1 \in Int /\ lvl \in Nat
  BY <1>1
<1>3. IsFiniteSet(1..lvl - 1) /\ lvl \notin 1..lvl - 1
  BY <1>2, FS_Interval
<1>4. \A l \in 1..lvl - 1 : XpPerLevel[l] \in Nat
  BY <1>1, <1>2
<1>5. XpSpent(lvl) \in Nat
  BY <1>3, <1>4, SumNat DEF XpSpent
<1>6. ASSUME lvl <= Len(XpPerLevel)
      PROVE  XpSpent(lvl + 1) = XpPerLevel[lvl] + XpSpent(lvl) /\ XpPerLevel[lvl] \in Nat \ {0}
  <2>1. XpPerLevel[lvl] \in Nat \ {0}
    BY <1>1, <1>2, <1>6
  <2>2. \A l \in (1..lvl - 1) \cup {lvl} : XpPerLevel[l] \in Nat
    BY <1>4, <2>1
  <2>3. (1..lvl - 1) \cup {lvl} = 1..(lvl + 1) - 1
    BY <1>2
  <2> DEFINE S == 1..lvl - 1
  <2>4. IsFiniteSet(S) /\ lvl \notin S /\ \A l \in S \cup {lvl} : XpPerLevel[l] \in Nat
    BY <1>3, <2>2
  <2> HIDE DEF S
  <2>5. SumFunctionOnSet(XpPerLevel, S \cup {lvl}) = XpPerLevel[lvl] + SumFunctionOnSet(XpPerLevel, S)
    BY <2>4, SumAdd
  <2>6. SumFunctionOnSet(XpPerLevel, 1..(lvl + 1) - 1) =
          XpPerLevel[lvl] + SumFunctionOnSet(XpPerLevel, 1..lvl - 1)
    BY <2>3, <2>5 DEF S
  <2> QED  BY <2>1, <2>6 DEF XpSpent
<1> QED  BY <1>5, <1>6

\* The loop of add_xp stops at the first level whose threshold is not reached.
LEMMA LevelWithIs ==
  ASSUME BooksInv, NEW all \in Nat
  PROVE  /\ LevelWith(all) \in 1..Len(XpPerLevel) + 1 /\ level <= LevelWith(all)
         /\ XpLeft(all) \in Nat
         /\ XpLeft(all) + XpSpent(LevelWith(all)) = all + XpSpent(level)
         /\ LevelWith(all) <= Len(XpPerLevel) => XpLeft(all) < XpPerLevel[LevelWith(all)]
<1> DEFINE S == {l \in level..Len(XpPerLevel) + 1 : XpSpent(l) - XpSpent(level) <= all}
<1>1. PICK top \in Nat : top = Len(XpPerLevel)
  <2>1. Len(XpPerLevel) \in Nat
    BY BooksAssumption
  <2> QED  BY <2>1
<1>2. level \in 1..top + 1 /\ level \in Nat
  BY <1>1 DEF BooksInv
<1>4. level \in S /\ S \in SUBSET Nat /\ S # {}
  <2>1. XpSpent(level) \in Nat
    <3>1. level \in 1..Len(XpPerLevel) + 1
      BY DEF BooksInv
    <3> HIDE DEF S
    <3> QED  BY <3>1, XpSpentIs
  <2>2. XpSpent(level) - XpSpent(level) <= all
    BY <2>1
  <2>3. level \in level..Len(XpPerLevel) + 1
    BY <1>1, <1>2
  <2>4. S \subseteq Nat
    BY <1>1, <1>2
  <2> QED  BY <2>2, <2>3, <2>4
<1>a. top + 1 \in Nat /\ \A l \in S : l <= top + 1
  BY <1>1, <1>2
<1>5. Max(S) \in S /\ \A l \in S : l <= Max(S)
  <2> DEFINE N == top + 1
  <2>1. N \in Nat /\ \A l \in S : l <= N
    BY <1>a
  <2> HIDE DEF S, N
  <2> QED  BY <1>4, <2>1, MaxIs
<1>6. PICK high \in 1..top + 1 : high = Max(S)
  <2>1. Max(S) \in level..Len(XpPerLevel) + 1
    BY <1>5
  <2>2. Max(S) \in 1..top + 1
    <3> HIDE DEF S
    <3> QED  BY <1>1, <1>2, <2>1
  <2> HIDE DEF S
  <2> QED  BY <2>2
<1>7. LevelWith(all) = high
  BY <1>6 DEF LevelWith
<1>8. level <= high /\ XpSpent(high) - XpSpent(level) <= all
  BY <1>1, <1>2, <1>5, <1>6
<1>9. high <= top => ~(XpSpent(high + 1) - XpSpent(level) <= all)
  <2>1. SUFFICES ASSUME high <= top, XpSpent(high + 1) - XpSpent(level) <= all  PROVE FALSE
    OBVIOUS
  <2>2. high + 1 \in S
    BY <1>1, <1>2, <1>8, <2>1
  <2> QED  BY <1>5, <1>6, <2>2
<1>10. /\ XpSpent(high) \in Nat /\ XpSpent(level) \in Nat
       /\ high <= top => /\ XpSpent(high + 1) = XpPerLevel[high] + XpSpent(high)
                          /\ XpPerLevel[high] \in Nat
  <2>1. high \in 1..Len(XpPerLevel) + 1 /\ level \in 1..Len(XpPerLevel) + 1
    BY <1>1, <1>2
  <2> HIDE DEF S
  <2>2. XpSpent(level) \in Nat
    BY <2>1, XpSpentIs
  <2>3. /\ XpSpent(high) \in Nat
        /\ high <= Len(XpPerLevel) => /\ XpSpent(high + 1) = XpPerLevel[high] + XpSpent(high)
                                      /\ XpPerLevel[high] \in Nat \ {0}
    BY <2>1, XpSpentIs
  <2> QED  BY <1>1, <2>2, <2>3
<1> HIDE DEF S
<1> QED  BY <1>1, <1>7, <1>8, <1>9, <1>10 DEF XpLeft

\* What the items give to one of the statistics.
Worth(of, items) == SumFunction([s \in Filled(items) |-> of[items[s]]])

\* What the items add is never negative.
LEMMA BonusIs ==
  ASSUME NEW items \in Items, NEW of \in [Item -> Nat]
  PROVE  Worth(of, items) \in Nat
<1> DEFINE f == [s \in Filled(items) |-> of[items[s]]]
<1>1. IsFiniteSet(Filled(items)) /\ \A s \in Filled(items) : f[s] \in Nat
  BY FilledIsFinite
<1>2. SumFunctionOnSet(f, Filled(items)) \in Nat
  <2> HIDE DEF f
  <2> QED  BY <1>1, SumNat
<1> QED  BY <1>2 DEF SumFunction, Worth

\* A new item adds what it is worth.
LEMMA BonusAdds ==
  ASSUME NEW items \in Items, NEW of \in [Item -> Nat], NEW i \in Item,
         NEW s \in 1..Slots \ Filled(items), NEW more, more = [items EXCEPT ![s] = i]
  PROVE  /\ more \in Items
         /\ Worth(of, more) = of[i] + Worth(of, items)
<1> DEFINE e == [t \in Filled(items) |-> of[items[t]]]
           f == [t \in Filled(more) |-> of[more[t]]]
<1>1. more \in Items /\ more[s] = i /\ \A t \in 1..Slots \ {s} : more[t] = items[t]
  BY DEF Items
<1>2. Filled(more) = Filled(items) \cup {s} /\ s \notin Filled(items)
  BY <1>1, EmptyAssumption DEF Filled
<1>3. /\ IsFiniteSet(Filled(items)) /\ DOMAIN e = Filled(items)
      /\ DOMAIN f = Filled(items) \cup {s}
  BY <1>2, FilledIsFinite
<1>4. /\ \A t \in Filled(items) \cup {s} : f[t] \in Nat
      /\ \A t \in Filled(items) : e[t] = f[t]
      /\ f[s] = of[i]
  <2>1. \A t \in Filled(items) : more[t] = items[t] /\ items[t] \in Item
    BY <1>1, <1>2, FilledIsFinite DEF Filled
  <2> QED  BY <1>1, <1>2, <2>1
<1>5. SumFunctionOnSet(f, Filled(items) \cup {s}) = f[s] + SumFunctionOnSet(e, Filled(items))
  <2> HIDE DEF e, f
  <2> QED  BY <1>2, <1>3, <1>4, SumAdd
<1>6. SumFunction(f) = of[i] + SumFunction(e)
  <2> HIDE DEF e, f
  <2> QED  BY <1>3, <1>4, <1>5 DEF SumFunction
<1> QED  BY <1>1, <1>6 DEF Worth

OfHealth == [i \in Item |-> Bonus[i].health]
OfArmor  == [i \in Item |-> Bonus[i].armor]

\* The totals are those of the level and of the items.
LEMMA TotalsAre ==
  ASSUME NEW lvl \in Nat \ {0}, NEW items \in Items
  PROVE  /\ Totals(lvl, items).health = Base.health + Increase.health * (lvl - 1)
              + Worth(OfHealth, items)
         /\ Totals(lvl, items).health \in Nat \ {0}
         /\ Totals(lvl, items).armor \in Nat
<1>1. /\ Base.health \in Nat \ {0} /\ Base.armor \in Nat
      /\ Increase.health \in Nat /\ Increase.armor \in Nat
      /\ OfHealth \in [Item -> Nat] /\ OfArmor \in [Item -> Nat]
  BY StatsAssumption DEF OfHealth, OfArmor
<1>2. \A s \in Filled(items) : items[s] \in Item
  BY FilledIsFinite
<1>3. /\ [s \in Filled(items) |-> Bonus[items[s]].health] = [s \in Filled(items) |-> OfHealth[items[s]]]
      /\ [s \in Filled(items) |-> Bonus[items[s]].armor] = [s \in Filled(items) |-> OfArmor[items[s]]]
  BY <1>2 DEF OfHealth, OfArmor
<1> DEFINE h == Worth(OfHealth, items)
           a == Worth(OfArmor, items)
<1>4. h \in Nat /\ a \in Nat
  <2>1. h \in Nat
    BY <1>1, BonusIs
  <2>2. a \in Nat
    BY <1>1, BonusIs
  <2> QED  BY <2>1, <2>2
<1>5. /\ Totals(lvl, items).health = Base.health + Increase.health * (lvl - 1) + h
      /\ Totals(lvl, items).armor = Base.armor + Increase.armor * (lvl - 1) + a
  BY <1>3 DEF Totals, Worth
<1>6. lvl - 1 \in Nat
  OBVIOUS
<1>7. Increase.health * (lvl - 1) \in Nat /\ Increase.armor * (lvl - 1) \in Nat
  <2>1. Increase.health * (lvl - 1) \in Nat
    BY <1>1, <1>6, TimesGrows
  <2>2. Increase.armor * (lvl - 1) \in Nat
    BY <1>1, <1>6, TimesGrows
  <2> QED  BY <2>1, <2>2
<1>8. Totals(lvl, items).health \in Nat \ {0} /\ Totals(lvl, items).armor \in Nat
  <2>1. PICK p \in Nat, q \in Nat : p = Increase.health * (lvl - 1) /\ q = Increase.armor * (lvl - 1)
    BY <1>7
  <2> HIDE DEF h, a
  <2>2. Totals(lvl, items).health = Base.health + p + h /\ Totals(lvl, items).armor = Base.armor + q + a
    BY <1>5, <2>1
  <2> QED  BY <1>1, <1>4, <2>1, <2>2
<1> QED  BY <1>5, <1>8

\* Neither a level nor an item takes health away.
LEMMA TotalsGrow ==
  ASSUME NEW lvl \in Nat \ {0}, NEW items \in Items,
         NEW high \in Nat \ {0}, lvl <= high
  PROVE  Totals(lvl, items).health <= Totals(high, items).health
<1> DEFINE h == Worth(OfHealth, items)
<1>1. /\ Totals(lvl, items).health = Base.health + Increase.health * (lvl - 1) + h
      /\ Totals(high, items).health = Base.health + Increase.health * (high - 1) + h
  BY TotalsAre
<1>2. h \in Nat /\ Base.health \in Nat /\ Increase.health \in Nat
  <2>1. Base.health \in Nat /\ Increase.health \in Nat /\ OfHealth \in [Item -> Nat]
    BY StatsAssumption DEF OfHealth
  <2> QED  BY <2>1, BonusIs
<1>3. lvl - 1 \in Nat /\ high - 1 \in Nat /\ lvl - 1 <= high - 1
  OBVIOUS
<1>4. /\ Increase.health * (lvl - 1) <= Increase.health * (high - 1)
      /\ Increase.health * (lvl - 1) \in Nat /\ Increase.health * (high - 1) \in Nat
  BY <1>2, <1>3, TimesGrows
<1> HIDE DEF h
<1> QED  BY <1>1, <1>2, <1>4

\* One more item never lowers the health of the totals.
LEMMA TotalsAdd ==
  ASSUME NEW lvl \in Nat \ {0}, NEW items \in Items, NEW i \in Item,
         NEW s \in 1..Slots \ Filled(items), NEW more, more = [items EXCEPT ![s] = i]
  PROVE  more \in Items /\ Totals(lvl, items).health <= Totals(lvl, more).health
<1> DEFINE h == Worth(OfHealth, items)
           g == Worth(OfHealth, more)
<1>1. Base.health \in Nat /\ Increase.health \in Nat /\ OfHealth \in [Item -> Nat]
  BY StatsAssumption DEF OfHealth
<1>2. more \in Items /\ g = OfHealth[i] + h
  BY <1>1, BonusAdds
<1>3. h \in Nat /\ OfHealth[i] \in Nat
  BY <1>1, BonusIs
<1>4. /\ Totals(lvl, items).health = Base.health + Increase.health * (lvl - 1) + h
      /\ Totals(lvl, more).health = Base.health + Increase.health * (lvl - 1) + g
  BY <1>2, TotalsAre
<1>5. lvl - 1 \in Nat
  OBVIOUS
<1>6. Increase.health * (lvl - 1) \in Nat
  BY <1>1, <1>5, TimesGrows
<1> HIDE DEF g, h
<1> QED  BY <1>1, <1>2, <1>3, <1>4, <1>6

\* What recalculate_stats gives, and what it leaves of the wounds.
LEMMA Recalculated ==
  ASSUME StatsAreSums, NEW lvl \in Nat \ {0}, NEW items \in Items,
         wounds \in 0..stats.health, stats.health \in Nat,
         stats.health <= Totals(lvl, items).health,
         RecalculateStats(lvl, items)
  PROVE  /\ stats' = Totals(lvl, items)
         /\ health' = stats'.health - wounds
         /\ health <= health'
         /\ wounds \in 0..stats'.health
<1>1. stats' = Totals(lvl, items) /\ stats'.health \in Nat /\ stats.health <= stats'.health
  BY TotalsAre DEF RecalculateStats
<1>2. health = stats.health - wounds /\ health \in Int /\ wounds \in Nat
  BY DEF StatsAreSums
<1>3. Max({0, stats'.health - stats.health}) = stats'.health - stats.health
  BY <1>1, MaxOfTwo
<1>4. Min({stats'.health, stats'.health - wounds}) = stats'.health - wounds
  BY <1>1, <1>2, MinOfTwo
<1>5. health + (stats'.health - stats.health) = stats'.health - wounds
  BY <1>1, <1>2
<1>6. health' = Min({stats'.health, health + (stats'.health - stats.health)})
  BY <1>3 DEF RecalculateStats
<1>7. health' = stats'.health - wounds
  BY <1>4, <1>5, <1>6
<1> QED  BY <1>1, <1>2, <1>7

-----------------------------------------------------------------------------
(* The steps                                                               *)

\* What the champion has spent on its spells.
Spent(c) == SumFunction([s \in DOMAIN SpellCost |-> SpellCost[s] * c[s]])

\* One more cast adds its cost to what is spent.
LEMMA SpentGrows ==
  ASSUME NEW c \in [DOMAIN SpellCost -> Nat], NEW s \in DOMAIN SpellCost,
         NEW d, d = [c EXCEPT ![s] = @ + 1]
  PROVE  /\ d \in [DOMAIN SpellCost -> Nat] /\ Spent(c) \in Nat
         /\ Spent(d) = Spent(c) + SpellCost[s]
<1> DEFINE S == DOMAIN SpellCost
           f == [t \in S |-> SpellCost[t] * c[t]]
           e == [t \in S |-> SpellCost[t] * d[t]]
<1>1. IsFiniteSet(S) /\ \A t \in S : SpellCost[t] \in Nat
  BY BooksAssumption
<1>2. d \in [S -> Nat] /\ d[s] = c[s] + 1 /\ \A t \in S \ {s} : d[t] = c[t]
  OBVIOUS
<1>3. \A t \in S : f[t] \in Nat
  <2>1. ASSUME NEW t \in S  PROVE SpellCost[t] * c[t] \in Nat
    <3>1. SpellCost[t] \in Nat /\ c[t] \in Nat
      BY <1>1
    <3> QED  BY <3>1, TimesGrows
  <2> QED  BY <2>1
<1>4. e[s] = f[s] + SpellCost[s] /\ \A t \in S \ {s} : e[t] = f[t]
  <2>1. PICK a \in Nat, b \in Nat : a = SpellCost[s] /\ b = c[s]
    BY <1>1
  <2>2. a * (b + 1) = a * b + a
    OBVIOUS
  <2> QED  BY <1>2, <2>1, <2>2
<1>5. SumFunctionOnSet(e, S) = SumFunctionOnSet(f, S) + SpellCost[s] /\ SumFunctionOnSet(f, S) \in Nat
  <2>1. SpellCost[s] \in Nat /\ s \in S
    BY <1>1
  <2> HIDE DEF S, e, f
  <2>2. SumFunctionOnSet(e, S) = SumFunctionOnSet(f, S) + SpellCost[s]
    BY <1>1, <1>3, <1>4, <2>1, SumGrow
  <2>3. SumFunctionOnSet(f, S) \in Nat
    BY <1>1, <1>3, SumNat
  <2> QED  BY <2>2, <2>3
<1> QED  BY <1>2, <1>5 DEF Spent, SumFunction

\* What the conjuncts of the invariant say where they are used.
LEMMA Facts ==
  ASSUME ChampionInv
  PROVE  /\ level \in Nat \ {0} /\ inventory \in Items /\ xp \in Nat
         /\ stats = Totals(level, inventory)
         /\ stats.health \in Nat \ {0} /\ stats.armor \in Nat
         /\ wounds \in 0..stats.health /\ health = stats.health - wounds /\ health \in Nat
         /\ XpPerLevel \in Seq(Nat) /\ Len(XpPerLevel) \in Nat
<1>1. Len(XpPerLevel) \in Nat /\ XpPerLevel \in Seq(Nat)
  BY BooksAssumption
<1>2. level \in Nat \ {0} /\ inventory \in Items /\ xp \in Nat
  BY <1>1 DEF ChampionInv, BooksInv, Items
<1>3. stats = Totals(level, inventory) /\ health = stats.health - wounds
  BY DEF ChampionInv, StatsAreSums
<1>4. stats.health \in Nat \ {0} /\ stats.armor \in Nat
  BY <1>2, <1>3, TotalsAre
<1>5. wounds \in 0..stats.health
  BY DEF ChampionInv, BodyInv
<1>6. health \in Nat
  BY <1>3, <1>4, <1>5
<1> QED  BY <1>1, <1>2, <1>3, <1>4, <1>5, <1>6

\* A purchase between two ticks.
LEMMA PurchaseKeeps ==
  ASSUME ChampionInv, NEW i \in Item, Purchase(i)
  PROVE  ChampionInv'
<1>0. /\ BooksInv /\ BooksBalance /\ StatsAreSums /\ BodyInv /\ StunInv
      /\ UNCHANGED <<level, xp, deaths, deathTimer, wounds, killed, mana, casts, stunTimer,
                     buff, lastWall, now, walls, phase, outcome, earned>>
      /\ gold >= Cost[i]
  BY DEF ChampionInv, Purchase, AddItem, magic, stun, tick
<1>1. PICK s \in 1..Slots \ Filled(inventory) :
        /\ gold' = gold - Cost[i]
        /\ inventory' = [inventory EXCEPT ![s] = i]
        /\ RecalculateStats(level, inventory')
  BY DEF Purchase, AddItem
<1>2. /\ level \in Nat \ {0} /\ inventory \in Items
      /\ stats = Totals(level, inventory)
      /\ stats.health \in Nat \ {0}
      /\ wounds \in 0..stats.health /\ health \in Nat
  BY Facts
<1>3. Cost \in [Item -> Nat] /\ Cost[i] \in Nat /\ GoldMax \in Nat
  <2>1. GoldMax \in Nat
    BY NumbersAssumption
  <2> QED  BY <2>1, BooksAssumption
<1>4. PICK more \in Items : more = inventory'
  BY <1>1, <1>2, TotalsAdd
<1>5. /\ Totals(level, inventory).health <= Totals(level, more).health
      /\ Worth(Cost, more) = Cost[i] + Worth(Cost, inventory)
      /\ Worth(Cost, inventory) \in Nat
  BY <1>1, <1>2, <1>3, <1>4, TotalsAdd, BonusAdds, BonusIs
<1>6. /\ stats' = Totals(level, more) /\ health' = stats'.health - wounds
      /\ health <= health' /\ wounds \in 0..stats'.health
  BY <1>0, <1>1, <1>2, <1>4, <1>5, Recalculated
<1>7. BooksInv'
  BY <1>0, <1>1, <1>3, <1>4 DEF BooksInv, Items
<1>8. BooksBalance'
  <2>1. gold + Worth(Cost, inventory) = earned.gold
    BY <1>0 DEF BooksBalance, Worth
  <2>2. gold' + Worth(Cost, more) = earned.gold
    BY <1>0, <1>1, <1>3, <1>5, <2>1 DEF BooksInv
  <2>3. gold' + SumFunction([t \in Filled(inventory') |-> Cost[inventory'[t]]]) = earned.gold
    BY <1>4, <2>2 DEF Worth
  <2> QED  BY <1>0, <2>3 DEF BooksBalance
<1>9. StatsAreSums'
  BY <1>0, <1>4, <1>6 DEF StatsAreSums
<1>10. BodyInv'
  BY <1>0, <1>2, <1>6 DEF BodyInv, StatsAreSums
<1>11. StunInv'
  BY <1>0 DEF StunInv
<1> QED  BY <1>7, <1>8, <1>9, <1>10, <1>11 DEF ChampionInv

\* Rewards at the end of a tick.
LEMMA EndTickKeeps ==
  ASSUME ChampionInv, EndTick
  PROVE  ChampionInv'
<1>0. /\ BooksInv /\ BooksBalance /\ StatsAreSums /\ BodyInv /\ StunInv
      /\ UNCHANGED <<deaths, deathTimer, wounds, killed, mana, casts, stunTimer, buff,
                     lastWall, now, walls>>
  BY DEF ChampionInv, EndTick, magic, stun
<1>1. StunInv'
  BY <1>0 DEF StunInv
<1>2. CASE UNCHANGED <<growth, health, outcome, earned>>
  <2>1. UNCHANGED <<level, xp, gold, inventory, stats, health, outcome, earned>>
    BY <1>2 DEF growth
  <2>2. BooksInv' /\ BooksBalance' /\ StatsAreSums' /\ BodyInv'
    BY <1>0, <2>1 DEF BooksInv, BooksBalance, StatsAreSums, BodyInv, EndTick
  <2> QED  BY <1>1, <2>2 DEF ChampionInv
<1>3. ASSUME NEW r \in Reward, AddXp(r.xp), AddGold(r.gold), UNCHANGED inventory,
             earned' = [xp |-> earned.xp + r.xp,
                        gold |-> IF outcome' = "crashed" THEN earned.gold ELSE earned.gold + r.gold]
      PROVE  ChampionInv'
  <2>1. r.xp \in Nat /\ r.gold \in Nat /\ GoldMax \in Nat
    BY BooksAssumption, NumbersAssumption
  <2>2. /\ level \in Nat \ {0} /\ inventory \in Items /\ xp \in Nat
        /\ stats = Totals(level, inventory)
        /\ stats.health \in Nat \ {0}
        /\ wounds \in 0..stats.health /\ health = stats.health - wounds /\ health \in Nat
        /\ Len(XpPerLevel) \in Nat
    BY Facts
  <2>3. PICK all \in Nat : all = xp + r.xp
    BY <2>1, <2>2
  <2>4. level' = LevelWith(all) /\ xp' = XpLeft(all)
    BY <1>3, <2>3 DEF AddXp
  <2>5. /\ level' \in 1..Len(XpPerLevel) + 1 /\ level <= level' /\ xp' \in Nat
        /\ xp' + XpSpent(level') = all + XpSpent(level)
        /\ level' <= Len(XpPerLevel) => xp' < XpPerLevel[level']
    BY <1>0, <2>4, LevelWithIs
  <2>6. /\ stats' = Totals(level', inventory) /\ health' = stats'.health - wounds
        /\ health <= health' /\ wounds \in 0..stats'.health
    <3>1. CASE level' = level
      BY <1>3, <2>2, <3>1 DEF AddXp
    <3>2. CASE level' # level
      <4>1. PICK high \in Nat \ {0} : high = level' /\ level <= high
        BY <2>2, <2>5
      <4>2. stats.health <= Totals(high, inventory).health
        BY <2>2, <4>1, TotalsGrow
      <4>3. RecalculateStats(high, inventory)
        BY <1>3, <3>2, <4>1 DEF AddXp
      <4> QED  BY <1>0, <2>2, <4>1, <4>2, <4>3, Recalculated
    <3> QED  BY <3>1, <3>2
  <2>7. /\ gold' \in 0..GoldMax
        /\ \/ gold' = gold + r.gold /\ earned'.gold = earned.gold + r.gold
           \/ gold' = gold /\ earned'.gold = earned.gold
    <3>1. CASE gold + r.gold > GoldMax
      <4>1. gold' = gold /\ outcome' = "crashed"
        BY <1>3, <3>1 DEF AddGold
      <4> QED  BY <1>0, <1>3, <4>1 DEF BooksInv
    <3>2. CASE ~(gold + r.gold > GoldMax)
      <4>1. gold' = gold + r.gold /\ outcome' = outcome
        BY <1>3, <3>2 DEF AddGold
      <4>2. outcome = "running"
        BY <1>0 DEF BodyInv, EndTick
      <4>3. gold \in 0..GoldMax /\ gold' \in 0..GoldMax
        BY <1>0, <2>1, <3>2, <4>1 DEF BooksInv
      <4>4. earned'.gold = earned.gold + r.gold
        <5>1. outcome' # "crashed"
          BY <4>1, <4>2
        <5> QED  BY <1>3, <5>1
      <4> QED  BY <4>1, <4>3, <4>4
    <3> QED  BY <3>1, <3>2
  <2>8. BooksInv'
    BY <1>0, <1>3, <2>5, <2>7 DEF BooksInv
  <2>9. BooksBalance'
    <3>1. Worth(Cost, inventory) \in Nat
      <4>1. Cost \in [Item -> Nat]
        BY <2>1, BooksAssumption
      <4> QED  BY <2>2, <4>1, BonusIs
    <3>2. gold + Worth(Cost, inventory) = earned.gold /\ gold \in Nat
      BY <1>0, <2>1 DEF BooksBalance, BooksInv, Worth
    <3>3. gold' + Worth(Cost, inventory) = earned'.gold
      BY <2>1, <2>7, <3>1, <3>2
    <3>4. xp' + XpSpent(level') = earned'.xp
      <4>1. XpSpent(level) \in Nat
        <5>1. level \in 1..Len(XpPerLevel) + 1
          BY <1>0 DEF BooksInv
        <5> QED  BY <5>1, XpSpentIs
      <4>2. xp + XpSpent(level) = earned.xp /\ earned'.xp = earned.xp + r.xp
        BY <1>0, <1>3 DEF BooksBalance
      <4> QED  BY <2>1, <2>2, <2>3, <2>5, <4>1, <4>2
    <3>5. SumFunction([t \in Filled(inventory') |-> Cost[inventory'[t]]]) = Worth(Cost, inventory)
      BY <1>3 DEF Worth
    <3>6. mana' + SumFunction([t \in DOMAIN SpellCost |-> SpellCost[t] * casts'[t]]) = Mana
      BY <1>0 DEF BooksBalance
    <3>7. gold' + SumFunction([t \in Filled(inventory') |-> Cost[inventory'[t]]]) = earned'.gold
      BY <3>3, <3>5
    <3>8. (XpSpent(level))' = XpSpent(level')
      BY DEF XpSpent
    <3> QED  BY <2>5, <3>4, <3>6, <3>7, <3>8 DEF BooksBalance
  <2>10. StatsAreSums'
    BY <1>0, <1>3, <2>6 DEF StatsAreSums
  <2>11. BodyInv'
    <3>1. (outcome' = "running" => outcome = "running") /\ phase' = "between"
      BY <1>3 DEF AddGold, EndTick
    <3>2. health' = 0 => health = 0
      BY <2>2, <2>6
    <3> QED  BY <1>0, <2>6, <3>1, <3>2 DEF BodyInv
  <2> QED  BY <1>1, <2>8, <2>9, <2>10, <2>11 DEF ChampionInv
<1> QED  BY <1>2, <1>3 DEF EndTick

\* The beginning of a tick: the buff and the stun first.
LEMMA BuffsKept ==
  ASSUME ChampionInv, BeginTick
  PROVE  StunInv'
<1>0. StunInv /\ now' \in Nat /\ now < now' /\ lastWall' = lastWall
  <2>1. Lag \in Nat
    BY NumbersAssumption
  <2> QED  BY <2>1 DEF ChampionInv, StunInv, BeginTick
<1>1. walls' \subseteq 0..now'
  <2>1. walls' \subseteq walls \cup {now'}
    BY DEF BeginTick, EnemiesCast
  <2> QED  BY <1>0, <2>1 DEF StunInv
<1>2. CASE buff # Never /\ Expired
  <2>1. buff' = Never /\ stunTimer' = 0 /\ buff = lastWall /\ now' - buff > StunTime
    BY <1>0, <1>2 DEF BeginTick, BuffPass, OnRemove, SetStunned, Expired, StunInv
  <2> QED  BY <1>0, <1>1, <2>1 DEF StunInv
<1>3. CASE ~(buff # Never /\ Expired)
  <2>1. buff' = buff /\ stunTimer' = stunTimer
    BY <1>3 DEF BeginTick, BuffPass
  <2>2. StunTime \in Nat
    BY NumbersAssumption
  <2>3. buff = Never /\ lastWall # Never => now' - lastWall > StunTime
    <3>1. SUFFICES ASSUME buff = Never, lastWall # Never  PROVE now' - lastWall > StunTime
      OBVIOUS
    <3>2. lastWall \in Nat /\ now \in Nat /\ now - lastWall > StunTime
      BY <1>0, <3>1 DEF StunInv
    <3>3. lastWall + StunTime < now
      BY <2>2, <3>2, Difference
    <3>4. lastWall + StunTime < now'
      BY <1>0, <2>2, <3>2, <3>3
    <3> QED  BY <1>0, <2>2, <3>2, <3>4, Difference
  <2> QED  BY <1>0, <1>1, <2>1, <2>3 DEF StunInv
<1> QED  BY <1>2, <1>3

\* Who lives at the beginning of a tick has health.
LEMMA TheDeadAreDead ==
  ASSUME ChampionInv, BeginTick, ~IsDead
  PROVE  health > 0 /\ (killed # Never => now' - killed > Timer(deaths))
<1>0. /\ BodyInv /\ health \in Nat /\ outcome = "running"
      /\ now' \in Nat /\ now' <= now + Lag /\ Lag \in Nat
  <2>1. Lag \in Nat
    BY NumbersAssumption
  <2>2. BodyInv /\ health \in Nat /\ outcome = "running"
    BY Facts DEF ChampionInv, BeginTick
  <2>3. now \in Nat /\ \E d \in 1..Lag : now' = now + d
    BY <2>2 DEF BodyInv, BeginTick
  <2> QED  BY <2>1, <2>2, <2>3
<1>1. killed # Never => now' - killed > Timer(deaths)
  <2>1. SUFFICES ASSUME killed # Never  PROVE now' - killed > Timer(deaths)
    OBVIOUS
  <2>2. killed \in Nat /\ deaths \in Nat \ {0} /\ deathTimer = killed + Timer(deaths)
    BY <1>0, <2>1 DEF BodyInv
  <2>3. Timer(deaths) \in Nat
    BY <2>2, TimerLasts
  <2>4. now' > deathTimer
    BY <1>0, <2>2, <2>3 DEF IsDead
  <2> QED  BY <1>0, <2>2, <2>3, <2>4
<1>2. health # 0
  <2>1. SUFFICES ASSUME health = 0  PROVE FALSE
    OBVIOUS
  <2>2. killed = now /\ now \in Nat
    BY <1>0, <2>1 DEF BodyInv
  <2>3. deaths \in Nat \ {0} /\ killed # Never
    BY <1>0, <2>2 DEF BodyInv, Never
  <2>4. Timer(deaths) \in Nat /\ Lag <= Timer(deaths)
    BY <2>3, TimerLasts
  <2> QED  BY <1>0, <1>1, <2>2, <2>3, <2>4
<1> QED  BY <1>0, <1>1, <1>2

\* A tick begins: the clock, the buffs, the turn and the walls of enemies.
LEMMA BeginTickKeeps ==
  ASSUME ChampionInv, BeginTick
  PROVE  ChampionInv'
<1>0. /\ BooksInv /\ BooksBalance /\ StatsAreSums /\ BodyInv
      /\ UNCHANGED <<level, xp, gold, inventory, stats, deaths, deathTimer, killed, outcome, earned>>
      /\ outcome = "running" /\ now' \in Nat
  <2>1. Lag \in Nat /\ now \in Nat
    BY NumbersAssumption DEF ChampionInv, BodyInv
  <2> QED  BY <2>1 DEF ChampionInv, BeginTick, growth
<1>1. StunInv'
  BY BuffsKept
<1>2. /\ stats.health \in Nat \ {0} /\ wounds \in 0..stats.health
      /\ health = stats.health - wounds /\ health \in Nat
  BY Facts
<1>3. /\ wounds' \in 0..stats.health /\ health' = stats.health - wounds' /\ health' # 0
  <2>1. CASE IsDead
    BY <1>2, <2>1 DEF BeginTick, TakeTurn, Return
  <2>2. CASE ~IsDead
    <3>1. health > 0
      BY <2>2, TheDeadAreDead
    <3>2. health' = health /\ wounds' = wounds
      BY <2>2 DEF BeginTick, TakeTurn
    <3> QED  BY <1>2, <3>1, <3>2
  <2> QED  BY <2>1, <2>2
<1>4. StatsAreSums' /\ BodyInv'
  BY <1>0, <1>3 DEF StatsAreSums, BodyInv
<1>5. /\ mana' \in Nat /\ casts' \in [DOMAIN SpellCost -> Nat]
      /\ mana' + Spent(casts') = mana + Spent(casts)
  <2>1. mana \in Nat /\ casts \in [DOMAIN SpellCost -> Nat]
    BY <1>0 DEF BooksInv
  <2>2. CASE UNCHANGED magic
    BY <2>1, <2>2 DEF magic
  <2>3. ASSUME NEW s \in DOMAIN SpellCost, Cast(s)
        PROVE  /\ mana' \in Nat /\ casts' \in [DOMAIN SpellCost -> Nat]
               /\ mana' + Spent(casts') = mana + Spent(casts)
    <3>1. SpellCost[s] \in Nat /\ mana >= SpellCost[s] /\ mana' = mana - SpellCost[s]
      BY <2>3, BooksAssumption DEF Cast, Pay
    <3>2. PICK d : d = [casts EXCEPT ![s] = @ + 1] /\ d = casts'
      BY <2>3 DEF Cast
    <3>3. /\ d \in [DOMAIN SpellCost -> Nat] /\ Spent(casts) \in Nat
          /\ Spent(d) = Spent(casts) + SpellCost[s]
      BY <2>1, <3>2, SpentGrows
    <3>4. Spent(casts') = Spent(d)
      BY <3>2
    <3> QED  BY <2>1, <3>1, <3>2, <3>3, <3>4
  <2> QED  BY <2>2, <2>3 DEF BeginTick, TakeTurn, Return
<1>6. BooksInv'
  BY <1>0, <1>5 DEF BooksInv
<1>7. BooksBalance'
  <2>1. mana' + Spent(casts') = Mana
    BY <1>0, <1>5 DEF BooksBalance, Spent
  <2> QED  BY <1>0, <2>1 DEF BooksBalance, Spent, XpSpent
<1> QED  BY <1>1, <1>4, <1>6, <1>7 DEF ChampionInv

\* A hit: what the books of the body say after it.
LEMMA DamageKeeps ==
  ASSUME ChampionInv, NEW d \in Blow, Damage(d), UNCHANGED <<stats, now, level, inventory>>,
         phase = "effects"
  PROVE  StatsAreSums' /\ BodyInv'
<1>0. BodyInv /\ StatsAreSums /\ outcome = "running"
  BY DEF ChampionInv, BodyInv
<1>1. /\ stats.health \in Nat \ {0} /\ stats.armor \in Nat /\ wounds \in 0..stats.health
      /\ health = stats.health - wounds /\ health \in Nat
  BY Facts
<1>2. d \in Nat
  BY NumbersAssumption
<1>3. PICK loss \in Nat : loss = ReducedDamage(d)
  BY <1>1, <1>2, DamageIsANumber DEF ReducedDamage
<1>4. health' = IF 0 >= health - loss THEN 0 ELSE health - loss
  <2>1. health' = Max({0, health - loss})
    BY <1>3 DEF Damage
  <2> QED  BY <1>1, <2>1, MaxOfTwo
<1>5. wounds' = IF stats.health <= wounds + loss THEN stats.health ELSE wounds + loss
  <2>1. wounds' = Min({stats.health, wounds + loss})
    BY <1>3 DEF Damage
  <2> QED  BY <1>1, <2>1, MinOfTwo
<1>6. wounds' \in 0..stats.health /\ health' = stats.health - wounds'
  BY <1>1, <1>4, <1>5
<1>7. StatsAreSums'
  BY <1>0, <1>6 DEF StatsAreSums
<1>8. CASE health' # 0
  <2>1. UNCHANGED <<deaths, deathTimer, killed, outcome, phase>>
    BY <1>8 DEF Damage
  <2> QED  BY <1>0, <1>6, <1>7, <1>8, <2>1 DEF BodyInv
<1>9. CASE health' = 0 /\ deaths = DeathsMax
  <2>1. outcome' = "crashed" /\ phase' = "between" /\ UNCHANGED <<deaths, deathTimer, killed>>
    BY <1>9 DEF Damage, Die
  <2> QED  BY <1>0, <1>6, <1>7, <2>1 DEF BodyInv
<1>10. CASE health' = 0 /\ deaths # DeathsMax
  <2>1. /\ deaths' = deaths + 1 /\ deathTimer' = now + Timer(deaths + 1) /\ killed' = now
        /\ UNCHANGED <<outcome, phase>>
    BY <1>10 DEF Damage, Die
  <2>2. now \in Nat /\ deaths + 1 \in Nat \ {0}
    BY <1>0 DEF BodyInv
  <2>3. Timer(deaths + 1) \in Nat
    BY <2>2, TimerLasts
  <2>4. Timer(deaths)' = Timer(deaths + 1)
    BY <2>1 DEF Timer
  <2> QED  BY <1>0, <1>6, <1>7, <2>1, <2>2, <2>3, <2>4 DEF BodyInv
<1> QED  BY <1>8, <1>9, <1>10

\* A heal stops at the health there may be at most.
LEMMA HealKeeps ==
  ASSUME ChampionInv, NEW h \in HealAmount, Heal(h), UNCHANGED <<stats, now, level, inventory>>
  PROVE  StatsAreSums' /\ BodyInv'
<1>0. BodyInv /\ StatsAreSums
  BY DEF ChampionInv
<1>1. /\ stats.health \in Nat \ {0} /\ wounds \in 0..stats.health
      /\ health = stats.health - wounds /\ health \in Nat /\ h \in Nat
  BY Facts, NumbersAssumption
<1>2. health' = IF stats.health <= health + h THEN stats.health ELSE health + h
  <2>1. health' = Min({stats.health, health + h})
    BY DEF Heal
  <2> QED  BY <1>1, <2>1, MinOfTwo
<1>3. wounds' = IF 0 >= wounds - h THEN 0 ELSE wounds - h
  <2>1. wounds' = Max({0, wounds - h})
    BY DEF Heal
  <2> QED  BY <1>1, <2>1, MaxOfTwo
<1>4. /\ wounds' \in 0..stats.health /\ health' = stats.health - wounds'
      /\ health' = 0 => health = 0
  BY <1>1, <1>2, <1>3
<1>5. UNCHANGED <<deaths, deathTimer, killed, outcome, phase>>
  BY DEF Heal
<1>6. StatsAreSums'
  BY <1>0, <1>4 DEF StatsAreSums
<1>7. BodyInv'
  BY <1>0, <1>4, <1>5 DEF BodyInv
<1> QED  BY <1>6, <1>7

\* A stun by a wall that stands.
LEMMA StunKeeps ==
  ASSUME StunInv, NEW w \in walls, Stun(w), UNCHANGED <<now, walls>>
  PROVE  StunInv'
<1>1. w \in Nat /\ w <= now /\ now \in Nat /\ StunTime \in Nat
  BY NumbersAssumption DEF StunInv
<1>2. stunTimer' = now + StunTime /\ buff' = w /\ lastWall' = w
  BY DEF Stun, SetStunned
<1> QED  BY <1>1, <1>2 DEF StunInv, Never

\* One of the effects of a tick: a hit, a heal or a stun by a wall.
LEMMA TakeEffectKeeps ==
  ASSUME ChampionInv, TakeEffect
  PROVE  ChampionInv'
<1>0. /\ BooksInv /\ BooksBalance /\ StunInv /\ phase = "effects"
      /\ UNCHANGED <<level, xp, gold, inventory, stats, mana, casts, now, walls, earned>>
  BY DEF ChampionInv, TakeEffect, growth, magic
<1>1. BooksInv' /\ BooksBalance'
  BY <1>0 DEF BooksInv, BooksBalance, XpSpent
<1>2. UNCHANGED stun => StunInv'
  BY <1>0 DEF StunInv, stun
<1>3. ASSUME NEW d \in Blow, Damage(d), UNCHANGED stun  PROVE ChampionInv'
  BY <1>0, <1>1, <1>2, <1>3, DamageKeeps DEF ChampionInv
<1>4. ASSUME NEW h \in HealAmount, Heal(h), UNCHANGED stun  PROVE ChampionInv'
  BY <1>0, <1>1, <1>2, <1>4, HealKeeps DEF ChampionInv
<1>5. ASSUME NEW w \in walls, NEW d \in Blow, Damage(d), Stun(w)  PROVE ChampionInv'
  BY <1>0, <1>1, <1>5, DamageKeeps, StunKeeps DEF ChampionInv
<1> QED  BY <1>3, <1>4, <1>5 DEF TakeEffect

-----------------------------------------------------------------------------
(* The theorems                                                            *)

\* The growth, the body and the stuns of a champion in every state.
THEOREM ChampionInvariant == Spec => []ChampionInv
<1>1. Init => ChampionInv
  <2> SUFFICES ASSUME Init  PROVE ChampionInv
    OBVIOUS
  <2>1. PICK none \in Items : none = inventory /\ Filled(none) = {}
    <3>1. inventory \in Items /\ Filled(inventory) = {}
      BY DEF Init, Items, Filled
    <3> QED  BY <3>1
  <2>2. \A of : Worth(of, none) = 0
    <3>1. ASSUME NEW of  PROVE Worth(of, none) = 0
      <4>1. SumFunctionOnSet([s \in Filled(none) |-> of[none[s]]], {}) = 0
        BY SumEmpty
      <4> QED  BY <2>1, <4>1 DEF Worth, SumFunction
    <3> QED  BY <3>1
  <2>3. /\ {Base, Increase} \subseteq [health : Nat, attack : Nat, armor : Nat] /\ Base.health > 0
        /\ Len(XpPerLevel) \in Nat /\ GoldMax \in Nat /\ Mana \in Nat
    BY StatsAssumption, BooksAssumption, NumbersAssumption
  <2>4. Totals(1, inventory) = Base
    <3>1. /\ SumFunction([s \in Filled(none) |-> Bonus[none[s]].health]) = 0
          /\ SumFunction([s \in Filled(none) |-> Bonus[none[s]].attack]) = 0
          /\ SumFunction([s \in Filled(none) |-> Bonus[none[s]].armor]) = 0
      BY <2>1, SumEmpty DEF SumFunction
    <3>2. /\ Increase.health * (1 - 1) = 0 /\ Increase.attack * (1 - 1) = 0
          /\ Increase.armor * (1 - 1) = 0
      BY <2>3
    <3>3. Totals(1, none) = [health |-> Base.health, attack |-> Base.attack, armor |-> Base.armor]
      BY <2>3, <3>1, <3>2 DEF Totals
    <3> QED  BY <2>1, <2>3, <3>3
  <2>5. StatsAreSums /\ BodyInv /\ StunInv
    BY <2>3, <2>4 DEF Init, StatsAreSums, BodyInv, StunInv, Never
  <2>6. BooksInv
    BY <2>1, <2>3 DEF Init, BooksInv, Items
  <2>7. BooksBalance
    <3>1. gold + SumFunction([s \in Filled(inventory) |-> Cost[inventory[s]]]) = earned.gold
      <4>1. gold = 0 /\ earned.gold = 0
        BY DEF Init
      <4>2. Worth(Cost, inventory) = 0
        BY <2>1, <2>2
      <4>3. gold + Worth(Cost, inventory) = earned.gold
        BY <4>1, <4>2
      <4> QED  BY <4>3 DEF Worth
    <3>2. XpSpent(1) = 0
      BY SumEmpty DEF XpSpent
    <3>3. 1 <= Len(XpPerLevel) => 0 < XpPerLevel[1]
      BY <2>3, BooksAssumption
    <3>4. mana + SumFunction([s \in DOMAIN SpellCost |-> SpellCost[s] * casts[s]]) = Mana
      <4> DEFINE S == DOMAIN SpellCost
                 f == [s \in S |-> SpellCost[s] * casts[s]]
      <4>1. \A s \in S : f[s] = 0
        BY BooksAssumption DEF Init
      <4>2. SumFunctionOnSet(f, S) = 0
        <5>1. IsFiniteSet(S)
          BY BooksAssumption
        <5> HIDE DEF S, f
        <5> QED  BY <4>1, <5>1, SumOfNothing
      <4> QED  BY <2>3, <4>2 DEF Init, SumFunction
    <3> QED  BY <3>1, <3>2, <3>3, <3>4 DEF Init, BooksBalance
  <2> QED  BY <2>5, <2>6, <2>7 DEF ChampionInv
<1>2. ChampionInv /\ [Next]_vars => ChampionInv'
  <2> SUFFICES ASSUME ChampionInv, [Next]_vars  PROVE ChampionInv'
    OBVIOUS
  <2>1. CASE Next
    BY <2>1, PurchaseKeeps, BeginTickKeeps, TakeEffectKeeps, EndTickKeeps DEF Next
  <2>2. CASE UNCHANGED vars
    <3>1. /\ BooksInv /\ BooksBalance /\ StatsAreSums /\ BodyInv /\ StunInv
          /\ UNCHANGED <<level, xp, gold, inventory, stats, health, deaths, deathTimer, wounds,
                         killed, mana, casts, stunTimer, buff, lastWall, now, phase, walls,
                         outcome, earned>>
      BY <2>2 DEF ChampionInv, vars, growth, body, magic, stun, tick
    <3>2. BooksInv' /\ BooksBalance' /\ StatsAreSums'
      BY <3>1 DEF BooksInv, BooksBalance, StatsAreSums, XpSpent
    <3>3. BodyInv' /\ StunInv'
      BY <3>1 DEF BodyInv, StunInv
    <3> QED  BY <3>2, <3>3 DEF ChampionInv
  <2> QED  BY <2>1, <2>2
<1> QED  BY <1>1, <1>2, PTL DEF Spec

\* No gold, xp or mana is lost, made or spent twice, in any order of rewards,
\* purchases and casts and for any prices and thresholds.
THEOREM BooksAlwaysBalance == Spec => []BooksBalance
<1>1. ChampionInv => BooksBalance
  BY DEF ChampionInv
<1> QED  BY <1>1, ChampionInvariant, PTL

\* The statistics are those of the level and the items, and growth keeps the wounds.
THEOREM StatsAlwaysSums == Spec => []StatsAreSums
<1>1. ChampionInv => StatsAreSums
  BY DEF ChampionInv
<1> QED  BY <1>1, ChampionInvariant, PTL

\* Time passes only at the beginning of a tick.
LEMMA OnlyTicksTakeTime ==
  ASSUME [Next]_vars, now' # now
  PROVE  BeginTick
BY DEF Next, vars, tick, Purchase, TakeEffect, EndTick

\* A stun is the last wall's, from its cast to its end.
THEOREM StunsAreTheLastWalls == Spec => StunIsTheLastWalls
<1> DEFINE Stuns == now' # now =>
             /\ turn' = "stunned" => lastWall # Never /\ now' - lastWall <= StunTime
             /\ turn' = "free" /\ lastWall # Never => now' - lastWall >= StunTime
<1>1. ChampionInv /\ [Next]_vars => Stuns
  <2> SUFFICES ASSUME ChampionInv, [Next]_vars, now' # now
               PROVE  /\ turn' = "stunned" => lastWall # Never /\ now' - lastWall <= StunTime
                      /\ turn' = "free" /\ lastWall # Never => now' - lastWall >= StunTime
    OBVIOUS
  <2>0. BeginTick
    BY OnlyTicksTakeTime
  <2>1. /\ StunInv /\ StunInv' /\ StunTime \in Nat /\ now' \in Nat /\ now < now'
        /\ lastWall' = lastWall
    <3>1. Lag \in Nat /\ StunTime \in Nat
      BY NumbersAssumption
    <3>2. StunInv /\ StunInv'
      BY <2>0, BuffsKept DEF ChampionInv
    <3>3. now \in Nat /\ \E d \in 1..Lag : now' = now + d
      BY <2>0, <3>2 DEF StunInv, BeginTick
    <3>4. lastWall' = lastWall
      BY <2>0 DEF BeginTick
    <3> QED  BY <3>1, <3>2, <3>3, <3>4
  <2>2. turn' = "stunned" => now' < stunTimer'
    BY <2>0 DEF BeginTick, TakeTurn, Return, IsStunned
  <2>3. turn' = "free" => ~(now' < stunTimer')
    BY <2>0 DEF BeginTick, TakeTurn, Return, IsStunned
  <2>4. buff' # Never => buff' = buff /\ ~Expired
    BY <2>0 DEF BeginTick, BuffPass, OnRemove
  <2>5. ASSUME turn' = "stunned"  PROVE lastWall # Never /\ now' - lastWall <= StunTime
    <3>1. buff' # Never
      <4>1. stunTimer' # 0
        BY <2>1, <2>2, <2>5
      <4> QED  BY <2>1, <4>1 DEF StunInv
    <3>2. buff' = lastWall /\ buff' \in Nat
      BY <2>1, <3>1 DEF StunInv
    <3>3. ~(now' - buff' > StunTime)
      BY <2>4, <3>1 DEF Expired
    <3>4. now' <= lastWall + StunTime
      <4>1. PICK w \in Nat : w = lastWall /\ ~(now' - w > StunTime)
        BY <3>2, <3>3
      <4>2. ~(w + StunTime < now')
        BY <2>1, <4>1, Difference
      <4>3. now' <= w + StunTime
        BY <2>1, <4>2
      <4> QED  BY <4>1, <4>3
    <3> QED  BY <2>1, <3>1, <3>2, <3>4, Difference
  <2>6. ASSUME turn' = "free", lastWall # Never  PROVE now' - lastWall >= StunTime
    <3>1. lastWall \in Nat
      BY <2>1, <2>6 DEF StunInv
    <3>2. CASE buff' = Never
      <4>1. now' - lastWall > StunTime
        BY <2>1, <2>6, <3>2 DEF StunInv
      <4>2. lastWall + StunTime < now'
        BY <2>1, <3>1, <4>1, Difference
      <4>3. lastWall + StunTime <= now'
        BY <2>1, <3>1, <4>2
      <4> QED  BY <2>1, <3>1, <4>3, Difference
    <3>3. CASE buff' # Never
      <4>1. buff' = lastWall /\ stunTimer' >= buff' + StunTime /\ stunTimer' \in Nat
        BY <2>1, <3>3 DEF StunInv
      <4>2. now' >= stunTimer'
        BY <2>1, <2>3, <2>6, <4>1
      <4>3. lastWall + StunTime <= now'
        BY <2>1, <3>1, <4>1, <4>2
      <4> QED  BY <2>1, <3>1, <4>3, Difference
    <3> QED  BY <3>2, <3>3
  <2> QED  BY <2>5, <2>6
<1>2. ChampionInv /\ [Next]_vars => [Stuns]_vars
  BY <1>1
<1> HIDE DEF Stuns
<1>3. Spec => [][Stuns]_vars
  BY <1>2, ChampionInvariant, PTL DEF Spec
<1> QED  BY <1>3 DEF Stuns, StunIsTheLastWalls

\* The dead stay away for the whole of their timer and come back with health.
THEOREM TheDeadStayAway == Spec => DeadStayAway
<1> DEFINE Away == now' # now /\ turn' # "dead" =>
                     health > 0 /\ (killed # Never => now' - killed > Timer(deaths))
<1>1. ChampionInv /\ [Next]_vars => Away
  <2> SUFFICES ASSUME ChampionInv, [Next]_vars, now' # now, turn' # "dead"
               PROVE  health > 0 /\ (killed # Never => now' - killed > Timer(deaths))
    OBVIOUS
  <2>1. BeginTick
    BY OnlyTicksTakeTime
  <2>2. ~IsDead
    BY <2>1 DEF BeginTick, TakeTurn, Return
  <2> QED  BY <2>1, <2>2, TheDeadAreDead
<1>2. ChampionInv /\ [Next]_vars => [Away]_vars
  BY <1>1
<1> HIDE DEF Away
<1>3. Spec => [][Away]_vars
  BY <1>2, ChampionInvariant, PTL DEF Spec
<1> QED  BY <1>3 DEF Away, DeadStayAway

=============================================================================
