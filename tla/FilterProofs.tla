----------------------------- MODULE FilterProofs -----------------------------
(***************************************************************************)
(* What the filter rules of TopicFilter decide for every pair of filters:  *)
(* filters of any number of levels over any names.                         *)
(***************************************************************************)
EXTENDS TopicFilter, Integers, FiniteSetTheorems, SequenceTheorems, TLAPS

\* What FilterParts leaves of a filter that registration accepts: "#" comes last.
Claim == {p \in Seq(Levels) : p # <<>> /\ \A i \in DOMAIN p : p[i] = "#" => i = Len(p)}

LEMMA PartsAreClaims ==
  ASSUME NEW f \in Seq(Levels), f # <<>>, ValidFilter(f)
  PROVE  FilterParts(f) \in Claim
  <1>1. CASE Shared(f)
    <2>1. SubSeq(f, 3, Len(f)) \in Seq(Levels) /\ Len(SubSeq(f, 3, Len(f))) # 0
      <3>1. Len(f) \in Nat /\ Len(f) >= 3
        <4>1. Len(f) >= 3
          BY <1>1, Zenon DEF Shared
        <4>2. QED
          BY <4>1
      <3>2. \A i \in 3..Len(f) : f[i] \in Levels
        BY ElementOfSeq
      <3>3. QED
        BY <3>1, <3>2, SubSeqProperties
    <2>2. FilterParts(f) = SubSeq(f, 3, Len(f))
      BY <1>1, Zenon DEF FilterParts
    <2>3. \A i \in DOMAIN FilterParts(f) : FilterParts(f)[i] = "#" => i = Len(FilterParts(f))
      BY Zenon DEF ValidFilter
    <2>4. FilterParts(f) \in Seq(Levels) /\ FilterParts(f) # <<>>
      BY <2>1, <2>2, EmptySeq
    <2>5. QED
      BY <2>3, <2>4, Zenon DEF Claim
  <1>2. CASE ~Shared(f)
    <2>1. FilterParts(f) = f
      BY <1>2, Zenon DEF FilterParts
    <2>2. \A i \in DOMAIN FilterParts(f) : FilterParts(f)[i] = "#" => i = Len(FilterParts(f))
      BY Zenon DEF ValidFilter
    <2>3. QED
      BY <2>1, <2>2 DEF Claim
  <1>3. QED
    BY <1>1, <1>2

-----------------------------------------------------------------------------
(* Induction.                                                              *)

\* Every set of naturals has a least element: the naturals below each of its elements
\* are finite sets, which strict inclusion orders well.
LEMMA LeastElement ==
  ASSUME NEW S \in SUBSET Nat, S # {}
  PROVE  \E n \in S : \A m \in S : n <= m
  <1>. DEFINE less     == StrictSubsetOrdering(Nat)
              below(n) == {k \in Nat : k < n}
              U        == {below(n) : n \in S}
  <1>1. ASSUME NEW n \in Nat
        PROVE  below(n) \in FiniteSubsetsOf(Nat)
    <2>1. below(n) \subseteq 0..n
      OBVIOUS
    <2>2. IsFiniteSet(0..n)
      BY FS_Interval
    <2>3. IsFiniteSet(below(n))
      BY <2>1, <2>2, FS_Subset
    <2>4. QED
      BY <2>3 DEF FiniteSubsetsOf
  <1>2. U \subseteq FiniteSubsetsOf(Nat) /\ U # {}
    BY <1>1
  <1>3. IsWellFoundedOn(less, FiniteSubsetsOf(Nat))
    BY FS_StrictSubsetOrderingWellFounded
  <1>4. PICK u \in U : \A v \in U : <<v, u>> \notin less
    <2>. HIDE DEF less, U
    <2>. QED
      BY <1>2, <1>3, WFMin
  <1>5. PICK n \in S : u = below(n)
    OBVIOUS
  <1>6. ASSUME NEW m \in S, m < n
        PROVE  FALSE
    <2>1. m \in below(n) /\ m \notin below(m) /\ below(m) \subseteq below(n)
      BY <1>6
    <2>2. <<below(m), below(n)>> \in less
      BY <2>1 DEF StrictSubsetOrdering
    <2>3. QED
      BY <2>2, <1>4, <1>5
  <1>7. QED
    BY <1>6

\* So has every set of them with a bound a greatest one: the least of its bounds.
LEMMA GreatestElement ==
  ASSUME NEW S \in SUBSET Nat, S # {}, NEW n \in Nat, \A s \in S : s <= n
  PROVE  \E x \in S : \A s \in S : x >= s
  <1>. DEFINE B == {k \in Nat : \A s \in S : s <= k}
  <1>1. B \in SUBSET Nat /\ n \in B
    OBVIOUS
  <1>2. PICK x \in B : \A k \in B : x <= k
    <2>. HIDE DEF B
    <2>. QED
      BY <1>1, LeastElement
  <1>3. x \in Nat /\ \A s \in S : s <= x
    BY <1>2
  <1>4. ASSUME x \notin S
        PROVE  FALSE
    <2>1. PICK s \in S : TRUE
      OBVIOUS
    <2>2. \A r \in S : r < x
      BY <1>3, <1>4
    <2>3. x - 1 \in B
      BY <1>3, <2>1, <2>2
    <2>4. QED
      BY <1>2, <1>3, <2>3
  <1>5. QED
    BY <1>3, <1>4

\* What holds at the end of an interval, and at each place if at the next, holds
\* throughout: the holes nearest to the end would be a least one.
LEMMA Downwards ==
  ASSUME NEW n \in Nat, NEW P \in SUBSET (1..n), n \in P,
         \A i \in 1..n : i + 1 \in P => i \in P
  PROVE  1..n \subseteq P
  <1>. DEFINE S == {k \in 0..n : n - k \in (1..n) \ P}
  <1>1. SUFFICES ASSUME S # {} PROVE FALSE
    <2>1. ASSUME NEW i \in 1..n, i \notin P
          PROVE  n - i \in S
      BY <2>1
    <2>2. QED
      BY <2>1
  <1>2. S \in SUBSET Nat
    OBVIOUS
  <1>3. PICK k \in S : \A m \in S : k <= m
    BY <1>1, <1>2, LeastElement
  <1>4. k # 0 /\ k - 1 \notin S
    BY <1>3
  <1>5. (n - k) + 1 \in P
    BY <1>4
  <1>6. QED
    BY <1>5

\* What holds at 0, and at each place if at the one before, holds up to the end.
LEMMA Upwards ==
  ASSUME NEW n \in Nat, NEW P \in SUBSET (0..n), 0 \in P,
         \A i \in 0..(n - 1) : i \in P => i + 1 \in P
  PROVE  0..n \subseteq P
  <1>. DEFINE S == (0..n) \ P
  <1>1. SUFFICES ASSUME S # {} PROVE FALSE
    OBVIOUS
  <1>2. PICK k \in S : \A m \in S : k <= m
    <2>1. S \in SUBSET Nat
      OBVIOUS
    <2>2. QED
      BY <1>1, <2>1, LeastElement
  <1>3. k # 0 /\ k - 1 \in P
    BY <1>2
  <1>4. QED
    BY <1>2, <1>3

-----------------------------------------------------------------------------
(* The overlap, without its recursion.                                     *)

Deeper(a, b) == Max({Len(a), Len(b)})

\* The two filters agree on level i, and neither ends there.
Meets(a, b, i) ==
  /\ i <= Len(a) /\ i <= Len(b)
  /\ a[i] # "#" /\ b[i] # "#"
  /\ a[i] = "+" \/ b[i] = "+" \/ a[i] = b[i]

\* One of them takes everything from level i on, or both are over.
Closes(a, b, i) ==
  \/ i > Len(a) /\ i > Len(b)
  \/ i > Len(a) /\ i = Len(b) /\ b[i] = "#"
  \/ i > Len(b) /\ i = Len(a) /\ a[i] = "#"
  \/ i <= Len(a) /\ i <= Len(b) /\ (a[i] = "#" \/ b[i] = "#")

OverlapFrom(a, b, i) ==
  \E k \in i..(Deeper(a, b) + 1) : Closes(a, b, k) /\ \A j \in i..(k - 1) : Meets(a, b, j)

LEMMA DeeperIsMax ==
  ASSUME NEW a \in Claim, NEW b \in Claim
  PROVE  /\ Deeper(a, b) \in Nat /\ Deeper(a, b) > 0
         /\ Len(a) <= Deeper(a, b) /\ Len(b) <= Deeper(a, b)
         /\ Deeper(a, b) = Len(a) \/ Deeper(a, b) = Len(b)
  <1>1. Len(a) \in Nat \ {0} /\ Len(b) \in Nat \ {0}
    BY DEF Claim
  <1>2. \E x \in {Len(a), Len(b)} : \A y \in {Len(a), Len(b)} : x >= y
    <2>1. CASE Len(a) >= Len(b)
      BY <1>1, <2>1
    <2>2. CASE Len(b) >= Len(a)
      BY <1>1, <2>2
    <2>3. QED
      BY <1>1, <2>1, <2>2
  <1>3. QED
    BY <1>1, <1>2 DEF Deeper, Max

LEMMA OverlapSteps ==
  ASSUME NEW a \in Claim, NEW b \in Claim, NEW i \in 1..(Deeper(a, b) + 1)
  PROVE  OverlapFrom(a, b, i) <=> (Closes(a, b, i) \/ (Meets(a, b, i) /\ OverlapFrom(a, b, i + 1)))
  <1>. DEFINE n == Deeper(a, b) + 1
  <1>1. n \in Nat /\ Len(a) \in Nat /\ Len(b) \in Nat
        /\ Closes(a, b, n) /\ ~Meets(a, b, n)
    BY DeeperIsMax DEF Closes, Meets, Claim
  <1>2. ASSUME OverlapFrom(a, b, i), ~Closes(a, b, i)
        PROVE  Meets(a, b, i) /\ OverlapFrom(a, b, i + 1)
    <2>1. PICK k \in i..n : Closes(a, b, k) /\ \A j \in i..(k - 1) : Meets(a, b, j)
      BY <1>2 DEF OverlapFrom
    <2>2. k # i
      BY <1>2, <2>1
    <2>3. Meets(a, b, i) /\ k \in (i + 1)..n
      BY <2>1, <2>2, <1>1
    <2>4. QED
      BY <2>1, <2>3, <1>1 DEF OverlapFrom
  <1>3. ASSUME Closes(a, b, i)
        PROVE  OverlapFrom(a, b, i)
    <2>1. i \in i..n /\ i..(i - 1) = {}
      BY <1>1
    <2>2. QED
      BY <1>3, <2>1 DEF OverlapFrom
  <1>4. ASSUME Meets(a, b, i), OverlapFrom(a, b, i + 1)
        PROVE  OverlapFrom(a, b, i)
    <2>1. PICK k \in (i + 1)..n : Closes(a, b, k) /\ \A j \in (i + 1)..(k - 1) : Meets(a, b, j)
      BY <1>4 DEF OverlapFrom
    <2>2. k \in i..n /\ \A j \in i..(k - 1) : Meets(a, b, j)
      BY <2>1, <1>4, <1>1
    <2>3. QED
      BY <2>1, <2>2 DEF OverlapFrom
  <1>5. QED
    BY <1>2, <1>3, <1>4

\* The recursion of filtersOverlap has one solution, and it is OverlapFrom: from the
\* deepest level down, two solutions agree.
LEMMA OverlapUnfolds ==
  ASSUME NEW a \in Claim, NEW b \in Claim
  PROVE  FiltersOverlap(a, b) <=> OverlapFrom(a, b, 1)
  <1>. DEFINE n          == Deeper(a, b) + 1
              tail(p, i) == i = Len(p) /\ p[i] = "#"
              rule(f, i) ==
                CASE i > Len(a) /\ i > Len(b)  -> TRUE
                  [] i > Len(a) /\ i <= Len(b) -> tail(b, i)
                  [] i <= Len(a) /\ i > Len(b) -> tail(a, i)
                  [] OTHER -> \/ a[i] = "#" \/ b[i] = "#"
                              \/ (a[i] = "+" \/ b[i] = "+" \/ a[i] = b[i]) /\ f[i + 1]
              solves(f)  == f = [i \in 1..n |-> rule(f, i)]
              given      == [i \in 1..n |-> OverlapFrom(a, b, i)]
              from       == CHOOSE f : solves(f)
  <1>1. n \in Nat /\ n > 1 /\ Len(a) \in Nat /\ Len(b) \in Nat /\ Len(a) < n /\ Len(b) < n
    BY DeeperIsMax DEF Claim
  <1>2. solves(given)
    <2>1. ASSUME NEW i \in 1..n
          PROVE  OverlapFrom(a, b, i) = rule(given, i)
      <3>1. OverlapFrom(a, b, i) \in BOOLEAN /\ rule(given, i) \in BOOLEAN
        BY DEF OverlapFrom
      <3>2. OverlapFrom(a, b, i) <=> rule(given, i)
        BY <1>1, OverlapSteps DEF Closes, Meets
      <3>3. QED
        BY <3>1, <3>2
    <2>2. QED
      BY <2>1
  <1>3. solves(from)
    BY <1>2
  <1>4. FiltersOverlap(a, b) = from[1]
    BY DEF FiltersOverlap, Deeper
  <1>5. \A i \in 1..n : from[i] = rule(from, i) /\ OverlapFrom(a, b, i) = rule(given, i)
    BY <1>2, <1>3
  <1>. HIDE DEF from
  <1>. DEFINE P == {i \in 1..n : from[i] = OverlapFrom(a, b, i)}
  <1>6. n \in P
    <2>1. rule(from, n) = TRUE /\ rule(given, n) = TRUE /\ n \in 1..n
      BY <1>1
    <2>2. QED
      BY <1>5, <2>1
  <1>7. \A i \in 1..n : i + 1 \in P => i \in P
    <2>1. ASSUME NEW i \in 1..n, i + 1 \in P
          PROVE  rule(from, i) = rule(given, i)
      BY <2>1
    <2>2. QED
      BY <2>1, <1>5
  <1>8. 1..n \subseteq P
    <2>1. P \in SUBSET (1..n)
      OBVIOUS
    <2>. HIDE DEF P
    <2>. QED
      BY <2>1, <1>1, <1>6, <1>7, Downwards
  <1>9. QED
    BY <1>1, <1>4, <1>8
-----------------------------------------------------------------------------
(* The overlap, level by level and without an order.                       *)

Topic == Seq(Levels \ Wild) \ {<<>>}

\* p claims everything below its last level.
Rest(p) == p[Len(p)] = "#"

\* Where both name a level they name the same one, and neither is too short for the other.
Compatible(a, b) ==
  /\ \A i \in 1..Len(a) : i <= Len(b) /\ a[i] \notin Wild /\ b[i] \notin Wild => a[i] = b[i]
  /\ ~Rest(a) => Len(a) >= (IF Rest(b) THEN Len(b) - 1 ELSE Len(b))
  /\ ~Rest(b) => Len(b) >= (IF Rest(a) THEN Len(a) - 1 ELSE Len(a))

LEMMA ClaimFacts ==
  ASSUME NEW p \in Claim
  PROVE  /\ Len(p) \in Nat \ {0}
         /\ DOMAIN p = 1..Len(p)
         /\ \A i \in 1..Len(p) : p[i] \in Levels /\ (p[i] = "#" => i = Len(p))
         /\ Rest(p) \in BOOLEAN
  BY DEF Claim, Rest

LEMMA OverlapIsCompatible ==
  ASSUME NEW a \in Claim, NEW b \in Claim
  PROVE  FiltersOverlap(a, b) <=> Compatible(a, b)
  <1>. DEFINE n == Deeper(a, b) + 1
  <1>1. /\ n \in Nat /\ n > 1 /\ Len(a) \in Nat \ {0} /\ Len(b) \in Nat \ {0}
        /\ Len(a) < n /\ Len(b) < n /\ (n = Len(a) + 1 \/ n = Len(b) + 1)
    BY DeeperIsMax, ClaimFacts
  <1>2. /\ \A i \in 1..Len(a) : a[i] = "#" <=> (i = Len(a) /\ Rest(a))
        /\ \A i \in 1..Len(b) : b[i] = "#" <=> (i = Len(b) /\ Rest(b))
    BY ClaimFacts DEF Rest
  <1>3. ASSUME OverlapFrom(a, b, 1)
        PROVE  Compatible(a, b)
    <2>1. PICK k \in 1..n : Closes(a, b, k) /\ \A j \in 1..(k - 1) : Meets(a, b, j)
      BY <1>3 DEF OverlapFrom
    <2>2. /\ k - 1 <= Len(a) /\ k - 1 <= Len(b)
          /\ Rest(a) => k <= Len(a)
          /\ Rest(b) => k <= Len(b)
      BY <2>1, <1>1, <1>2 DEF Meets
    <2>3. ASSUME NEW i \in 1..Len(a), i <= Len(b), a[i] \notin Wild, b[i] \notin Wild
          PROVE  a[i] = b[i]
      <3>1. i < k
        BY <2>1, <2>2, <2>3, <1>1, <1>2 DEF Closes, Wild
      <3>2. QED
        BY <3>1, <2>1, <2>3 DEF Meets, Wild
    <2>4. ASSUME ~Rest(a)
          PROVE  Len(a) >= (IF Rest(b) THEN Len(b) - 1 ELSE Len(b))
      BY <2>4, <2>1, <2>2, <1>1, <1>2 DEF Closes
    <2>5. ASSUME ~Rest(b)
          PROVE  Len(b) >= (IF Rest(a) THEN Len(a) - 1 ELSE Len(a))
      BY <2>5, <2>1, <2>2, <1>1, <1>2 DEF Closes
    <2>6. QED
      BY <2>3, <2>4, <2>5 DEF Compatible
  <1>4. ASSUME Compatible(a, b)
        PROVE  OverlapFrom(a, b, 1)
    <2>. DEFINE k == IF Rest(a) /\ (~Rest(b) \/ Len(a) <= Len(b)) THEN Len(a)
                     ELSE IF Rest(b) THEN Len(b) ELSE n
    <2>1. /\ k \in 1..n
          /\ Rest(a) => k <= Len(a)
          /\ Rest(b) => k <= Len(b)
          /\ k - 1 <= Len(a) /\ k - 1 <= Len(b)
      BY <1>4, <1>1, ClaimFacts DEF Compatible
    <2>2. Closes(a, b, k)
      BY <1>4, <1>1, <1>2 DEF Compatible, Closes
    <2>3. ASSUME NEW j \in 1..(k - 1)
          PROVE  Meets(a, b, j)
      <3>. HIDE DEF k
      <3>1. j \in 1..Len(a) /\ j \in 1..Len(b) /\ a[j] # "#" /\ b[j] # "#"
        BY <2>1, <1>1, <1>2
      <3>2. a[j] = "+" \/ b[j] = "+" \/ a[j] = b[j]
        BY <3>1, <1>4 DEF Compatible, Wild
      <3>3. QED
        BY <3>1, <3>2 DEF Meets
    <2>4. QED
      <3>. HIDE DEF k
      <3>. QED
        BY <2>1, <2>2, <2>3 DEF OverlapFrom
  <1>5. QED
    BY <1>3, <1>4, OverlapUnfolds

\* MatchFilter, with the level "#" stands at named.
LEMMA MatchIs ==
  ASSUME NEW p \in Claim, NEW t \in Topic
  PROVE  MatchFilter(p, t) <=>
           /\ ~(t[1] \in Reserved /\ p[1] \in Wild)
           /\ IF Rest(p) THEN Len(t) >= Len(p) - 1 ELSE Len(t) = Len(p)
           /\ \A i \in 1..Len(p) : p[i] \in {"+", "#", t[i]}
  <1>1. Len(p) \in Nat \ {0} /\ \A i \in 1..Len(p) : p[i] = "#" <=> (i = Len(p) /\ Rest(p))
    BY ClaimFacts DEF Rest
  <1>2. CASE Rest(p)
    <2>1. p[Len(p)] = "#"
      BY <1>2 DEF Rest
    <2>2. (\A i \in 1..(Len(p) - 1) : p[i] # "#" /\ p[i] \in {"+", t[i]})
            <=> (\A i \in 1..Len(p) : p[i] \in {"+", "#", t[i]})
      BY <1>1, <2>1
    <2>3. QED
      BY <2>1, <2>2, <1>2 DEF MatchFilter
  <1>3. CASE ~Rest(p)
    <2>1. p[Len(p)] # "#"
      BY <1>3 DEF Rest
    <2>2. (\A i \in 1..Len(p) : p[i] # "#" /\ p[i] \in {"+", t[i]})
            <=> (\A i \in 1..Len(p) : p[i] \in {"+", "#", t[i]})
      BY <1>1, <1>3
    <2>3. QED
      BY <2>1, <2>2, <1>3 DEF MatchFilter
  <1>4. QED
    BY <1>2, <1>3

\* Two filters that match one topic overlap: registration never overlooks a pair that
\* would run two handlers for one message (filtersOverlap, command.go:1586).
THEOREM OverlapSound ==
  ASSUME NEW a \in Claim, NEW b \in Claim, NEW t \in Topic,
         MatchFilter(a, t), MatchFilter(b, t)
  PROVE  FiltersOverlap(a, b)
  <1>1. /\ Len(a) \in Nat \ {0} /\ Len(b) \in Nat \ {0} /\ Len(t) \in Nat
        /\ IF Rest(a) THEN Len(t) >= Len(a) - 1 ELSE Len(t) = Len(a)
        /\ IF Rest(b) THEN Len(t) >= Len(b) - 1 ELSE Len(t) = Len(b)
        /\ \A i \in 1..Len(a) : a[i] \in {"+", "#", t[i]}
        /\ \A i \in 1..Len(b) : b[i] \in {"+", "#", t[i]}
    BY MatchIs, ClaimFacts DEF Topic
  <1>2. Compatible(a, b)
    BY <1>1 DEF Compatible, Wild
  <1>3. QED
    BY <1>2, OverlapIsCompatible

\* Outside the reserved trees no pair is refused that shares no topic: overlapping
\* filters both match a topic that is no deeper than they are, spelled with the names
\* they use and any other one (filtersOverlap, command.go:1586).
THEOREM OverlapComplete ==
  ASSUME NEW a \in Claim, NEW b \in Claim, NEW name \in Levels \ (Wild \cup Reserved),
         \A i \in 1..Len(a) : a[i] \notin Reserved,
         \A i \in 1..Len(b) : b[i] \notin Reserved,
         FiltersOverlap(a, b)
  PROVE  \E t \in Topic :
           /\ MatchFilter(a, t) /\ MatchFilter(b, t)
           /\ Len(t) <= Len(a) \/ Len(t) <= Len(b)
           /\ \A i \in 1..Len(t) : \/ t[i] = name
                                   \/ i \in 1..Len(a) /\ t[i] = a[i]
                                   \/ i \in 1..Len(b) /\ t[i] = b[i]
  <1>1. Compatible(a, b)
    BY OverlapIsCompatible
  <1>. DEFINE n == IF Rest(a) /\ Rest(b)
                   THEN IF Len(a) >= Len(b) THEN Len(a) ELSE Len(b)
                   ELSE IF Rest(a) THEN Len(b) ELSE Len(a)
              t == [i \in 1..n |-> IF i <= Len(a) /\ a[i] \notin Wild THEN a[i]
                                   ELSE IF i <= Len(b) /\ b[i] \notin Wild THEN b[i]
                                   ELSE name]
  <1>2. /\ n \in Nat \ {0}
        /\ IF Rest(a) THEN n >= Len(a) - 1 ELSE n = Len(a)
        /\ IF Rest(b) THEN n >= Len(b) - 1 ELSE n = Len(b)
        /\ n <= Len(a) \/ n <= Len(b)
    BY <1>1, ClaimFacts DEF Compatible
  <1>. HIDE DEF n
  <1>3. \A i \in 1..n : /\ t[i] \in Levels \ Wild /\ t[i] \notin Reserved
                        /\ \/ t[i] = name
                           \/ i \in 1..Len(a) /\ t[i] = a[i]
                           \/ i \in 1..Len(b) /\ t[i] = b[i]
    BY <1>2, ClaimFacts
  <1>4. t \in Seq(Levels \ Wild) /\ Len(t) = n
    <2>1. t \in [1..n -> Levels \ Wild]
      BY <1>3
    <2>. HIDE DEF t
    <2>2. QED
      BY <2>1, <1>2
  <1>5. t \in Topic
    BY <1>2, <1>4, EmptySeq DEF Topic
  <1>6. \A i \in 1..Len(a) : i <= n => a[i] \in {"+", "#", t[i]}
    BY <1>2, ClaimFacts DEF Wild
  <1>7. \A i \in 1..Len(b) : i <= n => b[i] \in {"+", "#", t[i]}
    <2>1. ASSUME NEW i \in 1..Len(b), i <= n, b[i] \notin Wild
          PROVE  t[i] = b[i]
      BY <2>1, <1>1, <1>2, ClaimFacts DEF Compatible
    <2>2. QED
      BY <2>1 DEF Wild
  <1>. HIDE DEF t
  <1>8. t[1] \notin Reserved
    <2>1. 1 \in 1..n
      BY <1>2
    <2>2. QED
      BY <2>1, <1>3
  <1>9. /\ \A i \in 1..Len(a) : i > n => a[i] = "#"
        /\ \A i \in 1..Len(b) : i > n => b[i] = "#"
    BY <1>2, ClaimFacts DEF Rest
  <1>10. MatchFilter(a, t) /\ MatchFilter(b, t)
    <2>1. /\ \A i \in 1..Len(a) : a[i] \in {"+", "#", t[i]}
          /\ \A i \in 1..Len(b) : b[i] \in {"+", "#", t[i]}
      BY <1>2, <1>6, <1>7, <1>9, ClaimFacts
    <2>2. QED
      BY <2>1, <1>2, <1>4, <1>5, <1>8, MatchIs
  <1>11. QED
    BY <1>2, <1>3, <1>4, <1>5, <1>10

-----------------------------------------------------------------------------
(* Specificity.                                                            *)

LEMMA RankIs ==
  ASSUME NEW p \in Claim, NEW i \in Nat \ {0}
  PROVE  LevelRank(p, i) = IF Rest(p) /\ i >= Len(p) THEN 0
                           ELSE IF i > Len(p) THEN 3
                           ELSE IF p[i] = "+" THEN 1 ELSE 2
  <1>1. /\ Len(p) \in Nat \ {0}
        /\ \A j \in 1..Len(p) : p[j] = "#" <=> (j = Len(p) /\ Rest(p))
    BY ClaimFacts DEF Rest
  <1>2. (\E j \in 1..i : j <= Len(p) /\ p[j] = "#") <=> (Rest(p) /\ i >= Len(p))
    BY <1>1
  <1>3. QED
    BY <1>2 DEF LevelRank, rankRemainder, rankEnd, rankSingle, rankLiteral

LEMMA RankBounds ==
  ASSUME NEW p \in Claim, NEW i \in Nat \ {0}
  PROVE  LevelRank(p, i) \in Nat
  BY RankIs

\* b is nowhere stricter than a, at whatever level one looks.
AtLeast(a, b) == \A i \in Nat \ {0} : LevelRank(b, i) <= LevelRank(a, i)

\* compareSpecificity compares as far as the deeper filter goes; beyond that nothing
\* is decided anew.
LEMMA AtLeastIs ==
  ASSUME NEW a \in Claim, NEW b \in Claim
  PROVE  ~Stricter(b, a) <=> AtLeast(a, b)
  <1>1. /\ Len(a) \in Nat \ {0} /\ Len(b) \in Nat \ {0}
        /\ Deeper(b, a) \in Nat /\ Len(a) <= Deeper(b, a) /\ Len(b) <= Deeper(b, a)
    BY DeeperIsMax, ClaimFacts
  <1>2. ASSUME AtLeast(a, b) PROVE ~Stricter(b, a)
    <2>1. \A i \in 1..Deeper(b, a) : LevelRank(b, i) <= LevelRank(a, i)
                                     /\ LevelRank(a, i) \in Nat /\ LevelRank(b, i) \in Nat
      BY <1>1, <1>2, RankIs DEF AtLeast
    <2>2. \A i \in 1..Deeper(b, a) : ~(LevelRank(b, i) > LevelRank(a, i))
      BY <2>1
    <2>3. QED
      BY <2>2 DEF Stricter, Deeper
  <1>3. ASSUME ~Stricter(b, a), NEW i \in Nat \ {0} PROVE LevelRank(b, i) <= LevelRank(a, i)
    <2>1. \A j \in 1..Deeper(b, a) : ~(LevelRank(b, j) > LevelRank(a, j))
      BY <1>3 DEF Stricter, Deeper
    <2>2. CASE i <= Deeper(b, a)
      BY <2>1, <2>2, <1>1, RankIs
    <2>3. CASE i > Deeper(b, a)
      <3>1. Rest(a) => LevelRank(a, Len(a)) = 0
        BY <1>1, RankIs
      <3>2. Rest(a) => LevelRank(b, Len(a)) = 0
        BY <3>1, <2>1, <1>1, RankIs
      <3>3. Rest(a) => Rest(b)
        BY <3>2, <1>1, RankIs
      <3>4. QED
        BY <3>3, <2>3, <1>1, RankIs
    <2>4. QED
      BY <2>2, <2>3, <1>1
  <1>4. QED
    BY <1>2, <1>3 DEF AtLeast

\* The strongest of several routes is found by comparing them two at a time:
\* outranking is transitive and nothing outranks what outranks it
\* (resolveLocked, command.go:1203).
THEOREM OutranksIsAnOrder ==
  ASSUME NEW a \in Claim, NEW b \in Claim, Outranks(a, b)
  PROVE  /\ ~Outranks(b, a)
         /\ \A c \in Claim : Outranks(b, c) => Outranks(a, c)
  <1>1. AtLeast(a, b)
    BY AtLeastIs DEF Outranks
  <1>2. ASSUME NEW c \in Claim, Outranks(b, c)
        PROVE  Outranks(a, c)
    <2>1. AtLeast(b, c)
      BY <1>2, AtLeastIs DEF Outranks
    <2>2. AtLeast(a, c)
      BY <1>1, <2>1, RankIs DEF AtLeast
    <2>3. ~AtLeast(b, a)
      BY AtLeastIs DEF Outranks
    <2>4. ~AtLeast(c, a)
      BY <2>1, <2>3, RankIs DEF AtLeast
    <2>5. QED
      BY <2>2, <2>4, AtLeastIs DEF Outranks
  <1>3. QED
    BY <1>2 DEF Outranks

\* Of two overlapping filters the one that outranks the other matches no topic the
\* other does not (compareSpecificity, command.go:1365).
THEOREM WinnerMatchesLess ==
  ASSUME NEW a \in Claim, NEW b \in Claim, FiltersOverlap(a, b), Outranks(a, b),
         NEW t \in Topic, t[1] \notin Reserved, MatchFilter(a, t)
  PROVE  MatchFilter(b, t)
  <1>1. Compatible(a, b)
    BY OverlapIsCompatible
  <1>2. \A i \in Nat \ {0} : LevelRank(b, i) <= LevelRank(a, i)
    BY AtLeastIs DEF Outranks, AtLeast
  <1>3. /\ Len(a) \in Nat \ {0} /\ Len(b) \in Nat \ {0} /\ Len(t) \in Nat
        /\ IF Rest(a) THEN Len(t) >= Len(a) - 1 ELSE Len(t) = Len(a)
        /\ \A i \in 1..Len(a) : a[i] \in {"+", "#", t[i]} /\ (a[i] = "#" <=> (i = Len(a) /\ Rest(a)))
        /\ \A i \in 1..Len(b) : b[i] = "#" <=> (i = Len(b) /\ Rest(b))
    BY MatchIs, ClaimFacts DEF Topic, Rest
  <1>4. Rest(a) => Rest(b) /\ Len(b) <= Len(a)
    <2>1. Rest(a) => LevelRank(a, Len(a)) = 0 /\ LevelRank(b, Len(a)) = 0
      BY <1>2, <1>3, RankIs
    <2>2. QED
      BY <2>1, <1>3, RankIs
  <1>5. IF Rest(b) THEN Len(t) >= Len(b) - 1 ELSE Len(t) = Len(b)
    BY <1>1, <1>3, <1>4 DEF Compatible
  <1>6. ASSUME NEW i \in 1..Len(b), b[i] \notin Wild
        PROVE  b[i] = t[i]
    <2>1. LevelRank(b, i) = 2
      BY <1>3, <1>6, RankIs DEF Wild
    <2>2. LevelRank(a, i) >= 2
      BY <2>1, <1>2, <1>3
    <2>3. i <= Len(a)
      BY <1>1, <1>3, <1>4, <1>6 DEF Compatible, Wild
    <2>4. a[i] \notin Wild
      BY <2>2, <2>3, <1>3, RankIs DEF Wild
    <2>5. QED
      BY <2>3, <2>4, <1>1, <1>3, <1>6 DEF Compatible, Wild
  <1>7. \A i \in 1..Len(b) : b[i] \in {"+", "#", t[i]}
    BY <1>6 DEF Wild
  <1>8. QED
    BY <1>5, <1>7, MatchIs

\* Two overlapping filters of one strength are one filter: the pairs registration
\* refuses as ambiguous differ in both directions (handle, command.go:664).
THEOREM EqualStrengthIsEqual ==
  ASSUME NEW a \in Claim, NEW b \in Claim, FiltersOverlap(a, b),
         ~Stricter(a, b), ~Stricter(b, a)
  PROVE  a = b
  <1>1. Compatible(a, b)
    BY OverlapIsCompatible
  <1>2. Len(a) \in Nat \ {0} /\ Len(b) \in Nat \ {0}
    BY ClaimFacts
  <1>3. \A i \in Nat \ {0} : LevelRank(b, i) = LevelRank(a, i)
    <2>1. AtLeast(a, b) /\ AtLeast(b, a)
      BY AtLeastIs
    <2>2. QED
      BY <2>1, RankIs DEF AtLeast
  <1>4. /\ \A i \in 1..Len(a) : a[i] = "#" <=> (i = Len(a) /\ Rest(a))
        /\ \A i \in 1..Len(b) : b[i] = "#" <=> (i = Len(b) /\ Rest(b))
    BY ClaimFacts DEF Rest
  <1>5. Rest(a) => Rest(b) /\ Len(b) <= Len(a)
    <2>1. Rest(a) => LevelRank(a, Len(a)) = 0 /\ LevelRank(b, Len(a)) = 0
      BY <1>2, <1>3, RankIs
    <2>2. QED
      BY <2>1, <1>2, RankIs
  <1>6. Rest(b) => Rest(a) /\ Len(a) <= Len(b)
    <2>1. Rest(b) => LevelRank(b, Len(b)) = 0 /\ LevelRank(a, Len(b)) = 0
      BY <1>2, <1>3, RankIs
    <2>2. QED
      BY <2>1, <1>2, RankIs
  <1>7. Len(a) = Len(b)
    BY <1>1, <1>2, <1>5, <1>6 DEF Compatible
  <1>8. ASSUME NEW i \in 1..Len(a)
        PROVE  a[i] = b[i]
    <2>1. LevelRank(a, i) = LevelRank(b, i)
      BY <1>3, <1>2
    <2>2. CASE a[i] = "#" \/ b[i] = "#"
      BY <2>2, <1>4, <1>5, <1>6, <1>7
    <2>3. CASE a[i] # "#" /\ b[i] # "#"
      <3>1. (a[i] = "+") <=> (b[i] = "+")
        BY <2>1, <2>3, <1>2, <1>4, <1>7, RankIs
      <3>2. QED
        BY <3>1, <2>3, <1>1, <1>7 DEF Compatible, Wild
    <2>4. QED
      BY <2>2, <2>3
  <1>9. QED
    <2>1. a \in Seq(Levels) /\ b \in Seq(Levels)
      BY DEF Claim
    <2>2. QED
      BY <2>1, <1>7, <1>8, SeqEqual

-----------------------------------------------------------------------------
(* The order subscriptions go out in.                                      *)

Sums(f, p, width) == f = [i \in 0..width |-> IF i = 0 THEN 0 ELSE f[i - 1] + LevelRank(p, i)]

\* The sum specificityScore adds up exists over every width, and is a natural.
LEMMA SumExists ==
  ASSUME NEW p \in Claim, NEW width \in Nat
  PROVE  \E f \in [0..width -> Nat] : Sums(f, p, width)
  <1>. DEFINE S == {w \in Nat : ~\E f \in [0..w -> Nat] : Sums(f, p, w)}
  <1>1. SUFFICES ASSUME S # {} PROVE FALSE
    OBVIOUS
  <1>2. PICK w \in S : \A m \in S : w <= m
    <2>1. S \in SUBSET Nat
      OBVIOUS
    <2>. HIDE DEF S
    <2>2. QED
      BY <1>1, <2>1, LeastElement
  <1>3. w # 0
    <2>1. SUFFICES ASSUME w = 0 PROVE FALSE
      OBVIOUS
    <2>. DEFINE f == [i \in 0..0 |-> 0]
    <2>2. f \in [0..0 -> Nat] /\ Sums(f, p, 0)
      BY DEF Sums
    <2>3. QED
      BY <2>1, <2>2, <1>2
  <1>4. PICK g \in [0..(w - 1) -> Nat] : Sums(g, p, w - 1)
    <2>1. w - 1 \in Nat /\ w - 1 \notin S
      BY <1>2, <1>3
    <2>2. QED
      BY <2>1
  <1>. DEFINE h == [i \in 0..w |-> IF i = w THEN g[w - 1] + LevelRank(p, w) ELSE g[i]]
  <1>5. /\ w \in Nat \ {0} /\ LevelRank(p, w) \in Nat
        /\ \A i \in 0..(w - 1) : g[i] \in Nat
                                 /\ g[i] = IF i = 0 THEN 0 ELSE g[i - 1] + LevelRank(p, i)
    <2>1. \A i \in 0..(w - 1) : g[i] = IF i = 0 THEN 0 ELSE g[i - 1] + LevelRank(p, i)
      BY <1>4 DEF Sums
    <2>2. w \in Nat \ {0} /\ \A i \in 0..(w - 1) : g[i] \in Nat
      BY <1>2, <1>3, <1>4
    <2>3. LevelRank(p, w) \in Nat
      BY <2>2, RankBounds
    <2>4. QED
      BY <2>1, <2>2, <2>3
  <1>6. h \in [0..w -> Nat]
    BY <1>5
  <1>7. \A i \in 0..w : h[i] = IF i = 0 THEN 0 ELSE h[i - 1] + LevelRank(p, i)
    BY <1>5
  <1>8. Sums(h, p, w)
    <2>. HIDE DEF h
    <2>. QED
      BY <1>6, <1>7 DEF Sums
  <1>9. QED
    BY <1>2, <1>6, <1>8

LEMMA ScoreUnfolds ==
  ASSUME NEW p \in Claim, NEW width \in Nat
  PROVE  \E f \in [0..width -> Nat] :
           /\ SpecificityScore(p, width) = f[width]
           /\ f[0] = 0
           /\ \A i \in 1..width : f[i] = f[i - 1] + LevelRank(p, i)
  <1>. DEFINE f == CHOOSE g : Sums(g, p, width)
  <1>1. Sums(f, p, width)
    BY SumExists
  <1>2. SpecificityScore(p, width) = f[width]
    BY DEF SpecificityScore, Sums
  <1>. HIDE DEF f
  <1>3. /\ f = [i \in 0..width |-> f[i]]
        /\ f[0] = 0
        /\ \A i \in 1..width : f[i] = f[i - 1] + LevelRank(p, i)
    BY <1>1 DEF Sums
  <1>4. \A i \in 1..width : LevelRank(p, i) \in Nat
    BY RankBounds
  <1>. DEFINE P == {i \in 0..width : f[i] \in Nat}
  <1>5. 0..width \subseteq P
    <2>1. P \in SUBSET (0..width) /\ 0 \in P
      BY <1>3
    <2>2. ASSUME NEW i \in 0..(width - 1), i \in P PROVE i + 1 \in P
      <3>1. i + 1 \in 1..width /\ (i + 1) - 1 = i
        OBVIOUS
      <3>2. f[i + 1] = f[i] + LevelRank(p, i + 1)
        BY <3>1, <1>3
      <3>3. QED
        BY <2>2, <3>1, <3>2, <1>4
    <2>. HIDE DEF P
    <2>3. QED
      BY <2>1, <2>2, Upwards
  <1>6. f \in [0..width -> Nat]
    BY <1>3, <1>5
  <1>7. QED
    BY <1>2, <1>3, <1>6

\* The key subscriptions are sorted by agrees with what registration decided: over a
\* width that covers both, the filter that outranks another has the higher score, and
\* so is subscribed before it (routeSubsLocked, command.go:1274).
THEOREM ScoreAgrees ==
  ASSUME NEW a \in Claim, NEW b \in Claim, Outranks(a, b),
         NEW width \in Nat, width >= Len(a), width >= Len(b)
  PROVE  SpecificityScore(a, width) > SpecificityScore(b, width)
  <1>1. PICK f \in [0..width -> Nat], ra \in [1..width -> Nat] :
           /\ SpecificityScore(a, width) = f[width]
           /\ f[0] = 0
           /\ \A i \in 1..width : ra[i] = LevelRank(a, i) /\ f[i] = f[i - 1] + ra[i]
    <2>. DEFINE ra == [i \in 1..width |-> LevelRank(a, i)]
    <2>1. ra \in [1..width -> Nat]
      BY RankBounds
    <2>2. QED
      BY <2>1, ScoreUnfolds
  <1>2. PICK g \in [0..width -> Nat], rb \in [1..width -> Nat] :
           /\ SpecificityScore(b, width) = g[width]
           /\ g[0] = 0
           /\ \A i \in 1..width : rb[i] = LevelRank(b, i) /\ g[i] = g[i - 1] + rb[i]
    <2>. DEFINE rb == [i \in 1..width |-> LevelRank(b, i)]
    <2>1. rb \in [1..width -> Nat]
      BY RankBounds
    <2>2. QED
      BY <2>1, ScoreUnfolds
  <1>3. \A i \in 1..width : rb[i] <= ra[i]
    <2>1. AtLeast(a, b)
      BY AtLeastIs DEF Outranks
    <2>2. QED
      BY <2>1, <1>1, <1>2 DEF AtLeast
  <1>4. PICK k \in 1..width : ra[k] > rb[k]
    <2>1. PICK k \in 1..Deeper(a, b) : LevelRank(a, k) > LevelRank(b, k)
      BY DEF Outranks, Stricter, Deeper
    <2>2. Deeper(a, b) <= width
      BY DeeperIsMax
    <2>3. k \in 1..width
      BY <2>1, <2>2, DeeperIsMax
    <2>4. QED
      BY <2>1, <2>3, <1>1, <1>2
  <1>. DEFINE P == {i \in 0..width : f[i] >= g[i] /\ (i >= k => f[i] > g[i])}
  <1>5. 0..width \subseteq P
    <2>1. P \in SUBSET (0..width) /\ 0 \in P
      BY <1>1, <1>2
    <2>2. ASSUME NEW i \in 0..(width - 1), i \in P PROVE i + 1 \in P
      <3>1. i + 1 \in 1..width /\ (i + 1) - 1 = i
        OBVIOUS
      <3>2. f[i + 1] = f[i] + ra[i + 1] /\ g[i + 1] = g[i] + rb[i + 1]
        BY <3>1, <1>1, <1>2
      <3>3. f[i] \in Nat /\ g[i] \in Nat /\ f[i] >= g[i] /\ (i >= k => f[i] > g[i])
        BY <2>2
      <3>4. rb[i + 1] <= ra[i + 1] /\ (i + 1 = k => ra[i + 1] > rb[i + 1])
        BY <3>1, <1>3, <1>4
      <3>5. ra[i + 1] \in Nat /\ rb[i + 1] \in Nat
        BY <3>1
      <3>6. \A x, y, r, q \in Nat : x >= y /\ q <= r =>
              x + r >= y + q /\ (x > y \/ r > q => x + r > y + q)
        OBVIOUS
      <3>7. f[i + 1] >= g[i + 1] /\ (f[i] > g[i] \/ ra[i + 1] > rb[i + 1] => f[i + 1] > g[i + 1])
        BY <3>2, <3>3, <3>4, <3>5, <3>6
      <3>8. i + 1 >= k => i >= k \/ i + 1 = k
        OBVIOUS
      <3>9. QED
        BY <3>1, <3>3, <3>4, <3>7, <3>8
    <2>. HIDE DEF P
    <2>3. QED
      BY <2>1, <2>2, Upwards
  <1>6. f[width] > g[width]
    BY <1>5
  <1>7. QED
    BY <1>1, <1>2, <1>6
====
