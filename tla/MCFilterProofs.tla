---------------------------- MODULE MCFilterProofs ----------------------------
(***************************************************************************)
(* The three properties MCFilters checks of pairs of filters, for every    *)
(* depth and every set of reserved and mixed levels; and two instances on  *)
(* one broker, for all their names and all coordinates.                    *)
(***************************************************************************)
EXTENDS MCFilters, FilterProofs

\* What is left of a filter the consumer may register.
Spelled == {p \in Claim : Len(p) <= MaxLevels + 1 /\ \A i \in 1..Len(p) : p[i] \notin Mixed}

LEMMA StringsAre ==
  ASSUME NEW S, NEW n \in Nat, NEW s \in Strings(S, n)
  PROVE  s \in Seq(S) /\ s # <<>> /\ Len(s) <= n
  <1>1. PICK k \in 1..n : s \in [1..k -> S]
    BY DEF Strings
  <1>2. QED
    BY <1>1

LEMMA StringsContain ==
  ASSUME NEW S, NEW n \in Nat, NEW s \in Seq(S), s # <<>>, Len(s) <= n
  PROVE  s \in Strings(S, n)
  <1>1. Len(s) \in 1..n /\ s \in [1..Len(s) -> S]
    BY LenProperties, EmptySeq
  <1>2. QED
    BY <1>1 DEF Strings

LEMMA TopicsAre ==
  AllTopics = {t \in Topic : Len(t) <= MaxLevels + 1 /\ \A i \in 1..Len(t) : t[i] \notin Mixed}
  <1>1. ASSUME NEW t \in AllTopics
        PROVE  t \in Topic /\ Len(t) <= MaxLevels + 1 /\ \A i \in 1..Len(t) : t[i] \notin Mixed
    <2>1. t \in Seq(Names) /\ t # <<>> /\ Len(t) <= MaxLevels + 1
      BY BoundAssumption, StringsAre DEF BoundAssumption, AllTopics
    <2>2. Names \subseteq Levels \ Wild /\ Names \cap Mixed = {}
      BY DEF Names
    <2>3. \A i \in 1..Len(t) : t[i] \notin Mixed
      BY <2>1, <2>2, ElementOfSeq
    <2>4. QED
      BY <2>1, <2>2, <2>3, SeqMonotonic DEF Topic
  <1>2. ASSUME NEW t \in Topic, Len(t) <= MaxLevels + 1, \A i \in 1..Len(t) : t[i] \notin Mixed
        PROVE  t \in AllTopics
    <2>1. t \in Seq(Levels \ Wild) /\ t # <<>>
      BY DEF Topic
    <2>2. \A i \in 1..Len(t) : t[i] \in Names
      BY <1>2, <2>1, ElementOfSeq DEF Names
    <2>3. t \in Seq(Names)
      <3>1. t \in [1..Len(t) -> Levels \ Wild] /\ Len(t) \in Nat
        BY <2>1, LenProperties
      <3>2. t \in [1..Len(t) -> Names]
        BY <2>2, <3>1
      <3>3. QED
        BY <3>1, <3>2
    <2>4. QED
      BY <1>2, <2>1, <2>3, BoundAssumption, StringsContain DEF BoundAssumption, AllTopics
  <1>3. QED
    BY <1>1, <1>2

LEMMA AfterTwo ==
  ASSUME NEW S, NEW x \in S, NEW y \in S, NEW w \in Seq(S), w # <<>>, NEW f, f = <<x, y>> \o w
  PROVE  Len(f) >= 2 /\ Len(f) >= 3 /\ f[1] = x /\ SubSeq(f, 3, Len(f)) = w
  <1>1. <<x, y>> \in Seq(S) /\ Len(<<x, y>>) = 2 /\ Len(w) \in Nat \ {0}
    BY EmptySeq
  <1>2. /\ f \in Seq(S) /\ Len(f) = 2 + Len(w)
        /\ \A i \in 1..(2 + Len(w)) : f[i] = IF i <= 2 THEN <<x, y>>[i] ELSE w[i - 2]
    BY <1>1, ConcatProperties
  <1>3. f[1] = x /\ \A i \in 1..Len(w) : f[i + 2] = w[i]
    BY <1>1, <1>2
  <1>4. Len(f) \in Int /\ \A i \in 3..Len(f) : f[i] \in S
    BY <1>2, ElementOfSeq
  <1>5. /\ SubSeq(f, 3, Len(f)) \in Seq(S)
        /\ Len(SubSeq(f, 3, Len(f))) = IF 3 <= Len(f) THEN Len(f) - 3 + 1 ELSE 0
        /\ \A i \in 1..(Len(f) - 3 + 1) : SubSeq(f, 3, Len(f))[i] = f[3 + i - 1]
    BY <1>4, SubSeqProperties
  <1>6. /\ Len(SubSeq(f, 3, Len(f))) = Len(w)
        /\ \A i \in 1..Len(w) : SubSeq(f, 3, Len(f))[i] = w[i]
    BY <1>1, <1>2, <1>3, <1>5
  <1>7. SubSeq(f, 3, Len(f)) = w
    BY <1>5, <1>6, SeqEqual
  <1>8. QED
    BY <1>1, <1>2, <1>3, <1>7

LEMMA FiltersAreSpelled ==
  ASSUME NEW f \in Registrable
  PROVE  FilterParts(f) \in Spelled
  <1>1. ValidFilter(f)
    BY DEF Registrable
  <1>2. MaxLevels \in Nat \ {0} /\ Simple \subseteq Levels /\ Simple \cap Mixed = {}
    BY BoundAssumption, LevelsAssumption DEF BoundAssumption, LevelsAssumption, Simple, Wild
  <1>3. \A i \in DOMAIN FilterParts(f) : FilterParts(f)[i] \notin Mixed
    BY <1>1, Zenon DEF ValidFilter
  <1>4. CASE f \in Strings(Levels, MaxLevels)
    <2>1. f \in Seq(Levels) /\ f # <<>> /\ Len(f) <= MaxLevels
      BY <1>2, <1>4, StringsAre
    <2>2. FilterParts(f) \in Claim
      BY <1>1, <2>1, PartsAreClaims
    <2>3. FilterParts(f) = f \/ FilterParts(f) = SubSeq(f, 3, Len(f))
      BY Zenon DEF FilterParts
    <2>4. Len(SubSeq(f, 3, Len(f))) <= MaxLevels
      <3>1. Len(f) \in Int /\ \A i \in 3..Len(f) : f[i] \in Levels
        BY <2>1, ElementOfSeq
      <3>2. Len(SubSeq(f, 3, Len(f))) = IF 3 <= Len(f) THEN Len(f) - 3 + 1 ELSE 0
        BY <3>1, SubSeqProperties
      <3>3. QED
        BY <1>2, <2>1, <3>1, <3>2
    <2>5. QED
      BY <1>2, <1>3, <2>1, <2>2, <2>3, <2>4, ClaimFacts DEF Spelled
  <1>5. CASE f \in SharedFilters
    <2>1. PICK g \in Simple, w \in Tails : f = <<Share, g>> \o w
      BY <1>5 DEF SharedFilters
    <2>2. (w \in Seq(Simple) /\ w # <<>> /\ Len(w) <= 2) \/ w = <<"">>
      BY StringsAre DEF Tails
    <2>3. PICK S : Share \in S /\ g \in S /\ w \in Seq(S) /\ w # <<>>
      <3>1. CASE w = <<"">>
        <4>0. <<"">> \in Seq({""}) /\ <<"">> # <<>>
          OBVIOUS
        <4>1. w \in Seq({""}) /\ w # <<>>
          BY <3>1, <4>0, Zenon
        <4>2. w \in Seq({"", Share, g})
          BY <4>1, SeqMonotonic
        <4>3. QED
          BY <4>1, <4>2
      <3>2. CASE w \in Seq(Simple) /\ w # <<>>
        <4>1. w \in Seq(Simple \cup {Share})
          BY <3>2, SeqMonotonic
        <4>2. QED
          BY <3>2, <4>1
      <3>3. QED
        BY <2>2, <3>1, <3>2
    <2>4. Len(f) >= 2 /\ Len(f) >= 3 /\ f[1] = Share /\ SubSeq(f, 3, Len(f)) = w
      BY <2>1, <2>3, AfterTwo
    <2>5. Shared(f)
      BY <1>1, <2>4, Zenon DEF ValidFilter
    <2>6. FilterParts(f) = w /\ w # <<"">>
      BY <2>4, <2>5, Zenon DEF FilterParts, Shared
    <2>7. w \in Seq(Simple) /\ Len(w) <= 2 /\ w # <<>>
      BY <2>2, <2>6
    <2>8. \A i \in 1..Len(w) : w[i] \in Simple
      BY <2>7, ElementOfSeq
    <2>9. w \in Seq(Levels) /\ DOMAIN w = 1..Len(w)
      BY <1>2, <2>7, SeqMonotonic
    <2>10. w \in Claim
      <3>1. "#" \notin Simple
        BY DEF Simple
      <3>2. QED
        BY <2>7, <2>8, <2>9, <3>1 DEF Claim
    <2>11. Len(w) <= MaxLevels + 1
      BY <1>2, <2>7
    <2>12. \A i \in 1..Len(w) : w[i] \notin Mixed
      BY <1>2, <2>8
    <2>13. QED
      BY <2>6, <2>10, <2>11, <2>12 DEF Spelled
  <1>6. QED
    BY <1>4, <1>5 DEF Registrable, AllFilters

LEMMA ClaimsAreSpelled ==
  Claims \subseteq Spelled
  BY FiltersAreSpelled DEF Claims

\* The pair compared stays the one it was, and both its filters can be registered.
Pair == left \in Registrable /\ right \in Registrable

\* "#", which stands in where two instances are compared, can be registered too.
LEMMA RemainderRegistrable == <<"#">> \in Registrable
  <1>1. "#" \in Levels /\ "#" \notin Mixed /\ MaxLevels \in Nat \ {0}
    BY BoundAssumption, LevelsAssumption DEF BoundAssumption, LevelsAssumption, Wild
  <1>2. <<"#">> \in [1..1 -> Levels] /\ 1 \in 1..MaxLevels
    BY <1>1
  <1>3. <<"#">> \in AllFilters
    BY <1>2 DEF AllFilters, Strings
  <1>4. ~Shared(<<"#">>) /\ FilterParts(<<"#">>) = <<"#">>
    BY DEF Shared, FilterParts
  <1>5. ValidFilter(<<"#">>)
    <2>1. <<"#">> # <<"">> /\ ~(Len(<<"#">>) >= 2)
      <3>1. <<"#">>[1] = "#" /\ <<"">>[1] = "" /\ "#" # "" /\ Len(<<"#">>) = 1
        OBVIOUS
      <3>2. QED
        BY <3>1
    <2>2. \A i \in DOMAIN <<"#">> : <<"#">>[i] \notin Mixed /\ (<<"#">>[i] = "#" => i = Len(<<"#">>))
      BY <1>1
    <2>3. QED
      BY <1>4, <2>1, <2>2 DEF ValidFilter
  <1>6. QED
    BY <1>3, <1>5 DEF Registrable

LEMMA PairFixed ==
  Spec => []Pair
  <1>1. Init => Pair
    BY RemainderRegistrable DEF Init, Pair
  <1>2. Pair /\ [Next]_<<left, right, site>> => Pair'
    BY DEF Next, Pair
  <1>3. QED
    BY <1>1, <1>2, PTL DEF Spec

LEMMA PairClaims ==
  ASSUME Pair
  PROVE  /\ pa \in Claims /\ pb \in Claims /\ pa \in Claim /\ pb \in Claim
         /\ Len(pa) <= MaxLevels + 1 /\ Len(pb) <= MaxLevels + 1
         /\ \A i \in 1..Len(pa) : pa[i] \notin Mixed
         /\ \A i \in 1..Len(pb) : pb[i] \notin Mixed
  <1>1. pa \in Claims /\ pb \in Claims
    BY DEF Pair, pa, pb, Claims
  <1>2. pa \in Spelled /\ pb \in Spelled
    BY <1>1, ClaimsAreSpelled
  <1>3. QED
    BY <1>1, <1>2 DEF Spelled

LEMMA MatchedByIs ==
  ASSUME NEW p \in Claims
  PROVE  MatchedBy[p] = {t \in AllTopics : MatchFilter(p, t)}
  BY DEF MatchedBy

\* Registration finds an overlap exactly where two filters share a topic: filtersOverlap
\* answers what enumerating the topics answers, at any depth (command.go:1586).
THEOREM OverlapIsExactAtAnyDepth ==
  Spec => []OverlapIsExact
  <1>1. ASSUME Pair PROVE OverlapIsExact
    <2>1. ASSUME NEW t \in MatchedBy[pa] \cap MatchedBy[pb]
          PROVE  FiltersOverlap(pa, pb)
      <3>1. t \in Topic /\ MatchFilter(pa, t) /\ MatchFilter(pb, t)
        BY <1>1, PairClaims, MatchedByIs, TopicsAre
      <3>2. QED
        BY <1>1, <3>1, PairClaims, OverlapSound
    <2>2. ASSUME FiltersOverlap(pa, pb), Plain(pa), Plain(pb)
          PROVE  MatchedBy[pa] \cap MatchedBy[pb] # {}
      <3>1. /\ \A i \in 1..Len(pa) : pa[i] \notin Reserved
            /\ \A i \in 1..Len(pb) : pb[i] \notin Reserved
        BY <1>1, <2>2, PairClaims, ClaimFacts DEF Plain
      <3>2. "a" \in Levels \ (Wild \cup Reserved) /\ "a" \notin Mixed
        BY BoundAssumption DEF BoundAssumption, Wild
      <3>3. PICK t \in Topic :
               /\ MatchFilter(pa, t) /\ MatchFilter(pb, t)
               /\ Len(t) <= Len(pa) \/ Len(t) <= Len(pb)
               /\ \A i \in 1..Len(t) : \/ t[i] = "a"
                                       \/ i \in 1..Len(pa) /\ t[i] = pa[i]
                                       \/ i \in 1..Len(pb) /\ t[i] = pb[i]
        BY <1>1, <2>2, <3>1, <3>2, PairClaims, OverlapComplete
      <3>4. Len(t) <= MaxLevels + 1
        <4>1. Len(t) \in Nat /\ Len(pa) \in Nat /\ Len(pb) \in Nat
          BY <1>1, PairClaims, ClaimFacts DEF Topic
        <4>2. QED
          BY <1>1, <3>3, <4>1, PairClaims, BoundAssumption DEF BoundAssumption
      <3>5. \A i \in 1..Len(t) : t[i] \notin Mixed
        BY <1>1, <3>2, <3>3, PairClaims
      <3>6. t \in AllTopics
        BY <3>4, <3>5, TopicsAre
      <3>7. QED
        BY <1>1, <3>3, <3>6, PairClaims, MatchedByIs
    <2>3. QED
      BY <2>1, <2>2 DEF OverlapIsExact
  <1>2. QED
    BY <1>1, PairFixed, PTL

\* Whatever the depth, the claim that wins is the narrower one, and a tie is one filter
\* registered twice (compareSpecificity, command.go:1365).
THEOREM WinnerIsNarrowerAtAnyDepth ==
  Spec => []WinnerIsNarrower
  <1>1. ASSUME Pair PROVE WinnerIsNarrower
    <2>1. ASSUME FiltersOverlap(pa, pb), Outranks(pa, pb),
                 NEW t \in MatchedBy[pa], t[1] \notin Reserved
          PROVE  t \in MatchedBy[pb]
      <3>1. t \in AllTopics /\ t \in Topic /\ MatchFilter(pa, t)
        BY <1>1, PairClaims, MatchedByIs, TopicsAre
      <3>2. MatchFilter(pb, t)
        BY <1>1, <2>1, <3>1, PairClaims, WinnerMatchesLess
      <3>3. QED
        BY <1>1, <3>1, <3>2, PairClaims, MatchedByIs
    <2>2. ASSUME FiltersOverlap(pa, pb), ~Stricter(pa, pb), ~Stricter(pb, pa)
          PROVE  pa = pb
      BY <1>1, <2>2, PairClaims, EqualStrengthIsEqual
    <2>3. QED
      BY <2>1, <2>2 DEF WinnerIsNarrower
  <1>2. QED
    BY <1>1, PairFixed, PTL

\* Whatever the depth, pairwise decisions add up to one order of the routes, and the
\* score subscriptions are sorted by follows it
\* (resolveLocked, command.go:1203; routeSubsLocked, command.go:1274).
THEOREM RankingIsAnOrderAtAnyDepth ==
  Spec => []RankingIsAnOrder
  <1>1. ASSUME Pair PROVE RankingIsAnOrder
    <2>1. SUFFICES ASSUME Outranks(pa, pb)
                   PROVE  /\ \A c \in Claims : Outranks(pb, c) => Outranks(pa, c)
                          /\ SpecificityScore(pa, MaxLevels + 1) > SpecificityScore(pb, MaxLevels + 1)
      BY DEF RankingIsAnOrder
    <2>2. \A c \in Claims : Outranks(pb, c) => Outranks(pa, c)
      <3>1. Claims \subseteq Claim
        BY ClaimsAreSpelled DEF Spelled
      <3>2. QED
        BY <1>1, <2>1, <3>1, PairClaims, OutranksIsAnOrder
    <2>3. MaxLevels + 1 \in Nat /\ MaxLevels + 1 >= Len(pa) /\ MaxLevels + 1 >= Len(pb)
      BY <1>1, PairClaims, ClaimFacts, BoundAssumption DEF BoundAssumption
    <2>4. SpecificityScore(pa, MaxLevels + 1) > SpecificityScore(pb, MaxLevels + 1)
      BY <1>1, <2>1, <2>3, PairClaims, ScoreAgrees
    <2>5. QED
      BY <2>2, <2>4
  <1>2. QED
    BY <1>1, PairFixed, PTL
-----------------------------------------------------------------------------
(* Two instances: what Join keeps, what a function tree matches, and below which *)
(* branch of an instance's name every topic it publishes lies.                *)

\* What an unsafe level becomes.
Blank == "_"
\* Join drops the empty levels.
Dropped(x) == x = ""

\* What a level may be once it is made safe and kept.
Plainly(S) == S \ ({""} \cup Wild \cup Mixed)

Keeping(f, parts, width) ==
  f = [n \in 0..width |->
         IF n = 0 THEN <<>>
         ELSE IF Dropped(L!Safe(parts[n])) THEN f[n - 1] ELSE Append(f[n - 1], L!Safe(parts[n]))]

LEMMA SafeIs ==
  ASSUME NEW S, Blank \in S, NEW x \in S
  PROVE  /\ L!Safe(x) \in S /\ (~Dropped(L!Safe(x)) => L!Safe(x) \in Plainly(S))
         /\ ~Dropped(x) => ~Dropped(L!Safe(x))
  <1>1. Blank \notin Mixed /\ Blank # "" /\ Blank # "+" /\ Blank # "#"
    BY NamesAssumption DEF NamesAssumption, Blank
  <1>2. CASE x \in Wild \cup Mixed
    BY <1>1, <1>2 DEF L!Safe, Plainly, Dropped, Wild, Blank
  <1>3. CASE x \notin Wild \cup Mixed
    BY <1>3 DEF L!Safe, Plainly, Dropped
  <1>4. QED
    BY <1>2, <1>3

LEMMA KeepingExists ==
  ASSUME NEW S, Blank \in S, NEW parts \in Seq(S), NEW width \in 0..Len(parts)
  PROVE  \E f \in [0..width -> Seq(Plainly(S))] : Keeping(f, parts, width)
  <1>. DEFINE B == {w \in 0..Len(parts) : ~\E f \in [0..w -> Seq(Plainly(S))] : Keeping(f, parts, w)}
  <1>1. SUFFICES ASSUME B # {} PROVE FALSE
    OBVIOUS
  <1>2. PICK w \in B : \A m \in B : w <= m
    <2>1. B \in SUBSET Nat
      OBVIOUS
    <2>. HIDE DEF B
    <2>2. QED
      BY <1>1, <2>1, LeastElement
  <1>3. w # 0
    <2>1. SUFFICES ASSUME w = 0 PROVE FALSE
      OBVIOUS
    <2>. DEFINE f == [i \in 0..0 |-> <<>>]
    <2>2. f \in [0..0 -> Seq(Plainly(S))] /\ Keeping(f, parts, 0)
      BY EmptySeq DEF Keeping
    <2>3. QED
      BY <2>1, <2>2, <1>2
  <1>4. PICK g \in [0..(w - 1) -> Seq(Plainly(S))] : Keeping(g, parts, w - 1)
    <2>1. w \in 0..Len(parts) /\ Len(parts) \in Nat
      BY <1>2
    <2>2. w - 1 \in 0..Len(parts) /\ ~(w <= w - 1)
      BY <2>1, <1>3
    <2>3. w - 1 \notin B
      <3>. HIDE DEF B
      <3>. QED
        BY <1>2, <2>2
    <2>4. QED
      BY <2>2, <2>3
  <1>. DEFINE x    == L!Safe(parts[w])
              next == IF Dropped(x) THEN g[w - 1] ELSE Append(g[w - 1], x)
              h    == [i \in 0..w |-> IF i = w THEN next ELSE g[i]]
  <1>5. /\ w \in 1..Len(parts) /\ x \in S /\ (~Dropped(x) => x \in Plainly(S))
        /\ \A i \in 0..(w - 1) : g[i] \in Seq(Plainly(S))
    <2>1. w \in 1..Len(parts) /\ parts[w] \in S
      BY <1>2, <1>3, ElementOfSeq
    <2>2. QED
      BY <2>1, <1>4, SafeIs
  <1>6. next \in Seq(Plainly(S))
    <2>1. g[w - 1] \in Seq(Plainly(S))
      BY <1>5
    <2>. HIDE DEF x
    <2>2. QED
      BY <2>1, <1>5, AppendProperties
  <1>7. h \in [0..w -> Seq(Plainly(S))]
    <2>. HIDE DEF next
    <2>. QED
      BY <1>5, <1>6
  <1>8. \A i \in 0..w : h[i] = IF i = 0 THEN <<>>
                               ELSE IF Dropped(L!Safe(parts[i])) THEN h[i - 1]
                               ELSE Append(h[i - 1], L!Safe(parts[i]))
    <2>1. \A i \in 0..(w - 1) : g[i] = IF i = 0 THEN <<>>
                                       ELSE IF Dropped(L!Safe(parts[i])) THEN g[i - 1]
                                       ELSE Append(g[i - 1], L!Safe(parts[i]))
      BY <1>4 DEF Keeping
    <2>2. h[w] = next /\ h[w - 1] = g[w - 1]
      BY <1>5
    <2>3. ASSUME NEW i \in 0..(w - 1)
          PROVE  h[i] = g[i] /\ (i # 0 => h[i - 1] = g[i - 1])
      BY <1>5
    <2>. HIDE DEF h
    <2>4. QED
      <3>1. h[w] = IF w = 0 THEN <<>> ELSE IF Dropped(L!Safe(parts[w])) THEN h[w - 1]
                   ELSE Append(h[w - 1], L!Safe(parts[w]))
        BY <2>2, <1>5
      <3>2. ASSUME NEW i \in 0..(w - 1)
            PROVE  h[i] = IF i = 0 THEN <<>> ELSE IF Dropped(L!Safe(parts[i])) THEN h[i - 1]
                          ELSE Append(h[i - 1], L!Safe(parts[i]))
        BY <2>1, <2>3
      <3>3. \A i \in 0..w : i = w \/ i \in 0..(w - 1)
        BY <1>5
      <3>4. QED
        BY <3>1, <3>2, <3>3
  <1>9. Keeping(h, parts, w)
    <2>1. h = [i \in 0..w |-> h[i]]
      OBVIOUS
    <2>. HIDE DEF h
    <2>. QED
      BY <1>8, <2>1 DEF Keeping
  <1>10. QED
    BY <1>2, <1>7, <1>9

LEMMA JoinKeeps ==
  ASSUME NEW S, Blank \in S, NEW parts \in Seq(S)
  PROVE  /\ L!Join(parts) \in Seq(Plainly(S))
         /\ (\E i \in 1..Len(parts) : ~Dropped(parts[i])) => L!Join(parts) # <<>>
  <1>. DEFINE n == Len(parts)
              f == CHOOSE g : Keeping(g, parts, n)
  <1>1. n \in Nat /\ n \in 0..n
    OBVIOUS
  <1>2. Keeping(f, parts, n)
    BY <1>1, KeepingExists
  <1>3. L!Join(parts) = f[n]
    BY DEF L!Join, Keeping, Dropped
  <1>. HIDE DEF f
  <1>4. /\ f[0] = <<>>
        /\ \A i \in 1..n : f[i] = IF Dropped(L!Safe(parts[i])) THEN f[i - 1]
                                  ELSE Append(f[i - 1], L!Safe(parts[i]))
    <2>1. f = [i \in 0..n |-> IF i = 0 THEN <<>>
                              ELSE IF Dropped(L!Safe(parts[i])) THEN f[i - 1]
                              ELSE Append(f[i - 1], L!Safe(parts[i]))]
      BY <1>2 DEF Keeping
    <2>2. 0 \in 0..n /\ \A i \in 1..n : i \in 0..n /\ i # 0
      BY <1>1
    <2>3. f[0] = <<>>
      BY <2>1, <2>2
    <2>4. ASSUME NEW i \in 1..n
          PROVE  f[i] = IF Dropped(L!Safe(parts[i])) THEN f[i - 1]
                        ELSE Append(f[i - 1], L!Safe(parts[i]))
      BY <2>1, <2>2
    <2>5. QED
      BY <2>3, <2>4
  <1>0. f[0] \in Seq(Plainly(S))
    BY <1>4, EmptySeq
  <1>. DEFINE P == {i \in 0..n : /\ f[i] \in Seq(Plainly(S))
                                 /\ (\E k \in 1..i : ~Dropped(parts[k])) => f[i] # <<>>}
  <1>5. 0 \in P
    <2>1. 0 \in 0..n /\ 1..0 = {}
      BY <1>1
    <2>2. ~\E k \in 1..0 : ~Dropped(parts[k])
      BY <2>1
    <2>3. QED
      BY <2>1, <2>2, <1>0
  <1>6. ASSUME NEW i \in 0..(n - 1), i \in P
        PROVE  i + 1 \in P
    <2>. DEFINE x == L!Safe(parts[i + 1])
    <2>1. i + 1 \in 1..n /\ (i + 1) - 1 = i /\ parts[i + 1] \in S
      BY <1>1, ElementOfSeq
    <2>2. x \in S /\ (~Dropped(x) => x \in Plainly(S)) /\ (~Dropped(parts[i + 1]) => ~Dropped(x))
      BY <2>1, SafeIs
    <2>3. f[i + 1] = IF Dropped(x) THEN f[i] ELSE Append(f[i], x)
      BY <1>4, <2>1
    <2>4. f[i] \in Seq(Plainly(S)) /\ ((\E k \in 1..i : ~Dropped(parts[k])) => f[i] # <<>>)
      BY <1>6
    <2>. HIDE DEF x
    <2>5. CASE Dropped(x)
      <3>1. \A k \in 1..(i + 1) : ~Dropped(parts[k]) => k \in 1..i
        BY <2>2, <2>5
      <3>2. QED
        BY <2>1, <2>3, <2>4, <2>5, <3>1
    <2>6. CASE ~Dropped(x)
      <3>1. f[i + 1] \in Seq(Plainly(S)) /\ Len(f[i + 1]) = Len(f[i]) + 1 /\ Len(f[i]) \in Nat
        BY <2>2, <2>3, <2>4, <2>6, AppendProperties
      <3>2. f[i + 1] # <<>>
        BY <3>1, EmptySeq
      <3>3. QED
        BY <2>1, <3>1, <3>2
    <2>7. QED
      BY <2>5, <2>6
  <1>7. 0..n \subseteq P
    <2>1. P \in SUBSET (0..n)
      OBVIOUS
    <2>. HIDE DEF P
    <2>2. QED
      BY <2>1, <1>1, <1>5, <1>6, Upwards
  <1>8. n \in P
    BY <1>1, <1>7
  <1>9. QED
    BY <1>3, <1>8
-----------------------------------------------------------------------------
(* Instances side by side.                                                 *)

\* The adapter's function and those of the grammar.
Reservations == L!Functions \cup {"ha"}
Leaves       == {"online", "event", "impulse", "device_error", "stats"}
Vocabulary   == Reservations \cup Leaves \cup {"#", Blank}

\* Names the constructor accepts and the consumer's guard finds no function in.
InstanceName(S) ==
  {n \in Seq(S) : L!NameValid(n, TRUE) /\ \A i \in 2..Len(n) : ~L!IsReservedFunction(n[i])}

\* A closing "#" and no other wildcard: the filter matches what its levels begin.
LEMMA RemainderMatches ==
  ASSUME NEW S, NEW p \in Seq(S), Len(p) >= 2, p[Len(p)] = "#",
         \A i \in 1..(Len(p) - 1) : p[i] \notin Wild,
         NEW t
  PROVE  MatchFilter(p, t) <=> /\ Len(t) >= Len(p) - 1
                               /\ \A i \in 1..(Len(p) - 1) : p[i] = t[i]
  <1>1. Len(p) \in Nat /\ 1 \in 1..(Len(p) - 1)
    OBVIOUS
  <1>2. p[1] \notin Wild
    BY <1>1
  <1>3. MatchFilter(p, t) <=> /\ Len(t) >= Len(p) - 1
                              /\ \A i \in 1..(Len(p) - 1) : p[i] # "#" /\ p[i] \in {"+", t[i]}
    BY <1>2, Zenon DEF MatchFilter
  <1>4. \A i \in 1..(Len(p) - 1) : p[i] # "#" /\ p[i] # "+"
    BY DEF Wild
  <1>5. QED
    BY <1>3, <1>4

LEMMA Single ==
  ASSUME NEW S, NEW n \in Seq(S), Len(n) = 1
  PROVE  n = <<n[1]>>
  <1>1. n \in [1..1 -> S]
    BY LenProperties
  <1>2. n = [i \in 1..1 |-> n[1]]
    BY <1>1
  <1>3. QED
    BY <1>2

LEMMA NameFacts ==
  ASSUME NEW S, NEW n \in InstanceName(S)
  PROVE  /\ n \in Seq(S) /\ Len(n) \in Nat \ {0}
         /\ \A i \in 1..Len(n) : n[i] \notin {""} \cup Wild \cup Mixed
         /\ \A i \in 2..Len(n) : n[i] \notin Reservations
  <1>1. n \in Seq(S) /\ n # <<>> /\ n # <<"">>
        /\ \A i \in DOMAIN n : n[i] \notin Wild \cup Mixed
    BY DEF InstanceName, L!NameValid
  <1>2. Len(n) > 1 => ~L!In(n, "")
    BY DEF InstanceName, L!NameValid
  <1>3. Len(n) \in Nat \ {0} /\ DOMAIN n = 1..Len(n)
    BY <1>1, EmptySeq, LenProperties
  <1>4. ASSUME NEW i \in 1..Len(n), Dropped(n[i])
        PROVE  FALSE
    <2>1. CASE Len(n) > 1
      BY <1>2, <1>3, <1>4, <2>1 DEF L!In, Dropped
    <2>2. CASE Len(n) = 1
      <3>1. i = 1
        BY <2>2
      <3>2. Dropped(n[1])
        BY <1>4, <3>1
      <3>3. n = <<n[1]>>
        BY <1>1, <2>2, Single
      <3>4. n[1] = ""
        BY <3>2 DEF Dropped
      <3>5. QED
        BY <1>1, <3>3, <3>4, Zenon
    <2>3. QED
      BY <1>3, <2>1, <2>2
  <1>5. \A i \in 2..Len(n) : n[i] \notin Reservations
    BY DEF InstanceName, L!IsReservedFunction, Reservations
  <1>6. QED
    BY <1>1, <1>3, <1>4, <1>5 DEF Dropped

LEMMA Joined ==
  ASSUME NEW S, NEW a \in Seq(S), NEW b \in Seq(S), NEW t, t = a \o b
  PROVE  /\ t \in Seq(S) /\ Len(t) = Len(a) + Len(b) /\ Len(a) \in Nat /\ Len(b) \in Nat
         /\ \A i \in 1..Len(a) : t[i] = a[i]
         /\ \A i \in 1..Len(b) : t[Len(a) + i] = b[i]
  <1>1. /\ t \in Seq(S) /\ Len(t) = Len(a) + Len(b)
        /\ \A i \in 1..Len(a) + Len(b) : t[i] = IF i <= Len(a) THEN a[i] ELSE b[i - Len(a)]
    BY ConcatProperties, Zenon
  <1>2. Len(a) \in Nat /\ Len(b) \in Nat
    OBVIOUS
  <1>3. \A i \in 1..Len(a) : t[i] = a[i]
    BY <1>1, <1>2
  <1>4. ASSUME NEW i \in 1..Len(b)
        PROVE  t[Len(a) + i] = b[i]
    <2>1. Len(a) + i \in 1..Len(a) + Len(b) /\ ~(Len(a) + i <= Len(a)) /\ (Len(a) + i) - Len(a) = i
      BY <1>2
    <2>2. QED
      BY <1>1, <2>1
  <1>5. QED
    BY <1>1, <1>2, <1>3, <1>4

LEMMA Placed ==
  ASSUME NEW S, NEW n \in Seq(S), NEW f \in S, NEW rest \in Seq(S), NEW t, t = n \o <<f>> \o rest
  PROVE  /\ t \in Seq(S) /\ Len(t) = Len(n) + 1 + Len(rest) /\ Len(n) \in Nat /\ Len(rest) \in Nat
         /\ \A i \in 1..Len(n) : t[i] = n[i]
         /\ t[Len(n) + 1] = f
         /\ \A i \in 1..Len(rest) : t[Len(n) + 1 + i] = rest[i]
  <1>. DEFINE one == <<f>>
              m   == n \o one
  <1>1. one \in Seq(S) /\ Len(one) = 1 /\ one[1] = f
    OBVIOUS
  <1>2. t = m \o rest /\ m = n \o one
    OBVIOUS
  <1>. HIDE DEF one, m
  <1>3. /\ m \in Seq(S) /\ Len(m) = Len(n) + 1 /\ Len(n) \in Nat
        /\ \A i \in 1..Len(n) : m[i] = n[i]
        /\ \A i \in 1..1 : m[Len(n) + i] = one[i]
    BY <1>1, <1>2, Joined
  <1>4. /\ t \in Seq(S) /\ Len(t) = Len(m) + Len(rest) /\ Len(rest) \in Nat
        /\ \A i \in 1..Len(m) : t[i] = m[i]
        /\ \A i \in 1..Len(rest) : t[Len(m) + i] = rest[i]
    BY <1>2, <1>3, Joined
  <1>5. \A i \in 1..Len(n) : t[i] = n[i]
    BY <1>3, <1>4
  <1>6. t[Len(n) + 1] = f
    BY <1>1, <1>3, <1>4
  <1>7. QED
    BY <1>3, <1>4, <1>5, <1>6

LEMMA Ended ==
  ASSUME NEW S, NEW n \in Seq(S), NEW g \in S, NEW h \in S, NEW p, p = n \o <<g, h>>
  PROVE  /\ p \in Seq(S) /\ Len(p) = Len(n) + 2 /\ Len(n) \in Nat
         /\ \A i \in 1..Len(n) : p[i] = n[i]
         /\ p[Len(n) + 1] = g /\ p[Len(n) + 2] = h
  <1>. DEFINE two == <<g, h>>
  <1>1. two \in Seq(S) /\ Len(two) = 2 /\ two[1] = g /\ two[2] = h
    OBVIOUS
  <1>2. p = n \o two
    OBVIOUS
  <1>. HIDE DEF two
  <1>3. /\ p \in Seq(S) /\ Len(p) = Len(n) + Len(two) /\ Len(n) \in Nat
        /\ \A i \in 1..Len(n) : p[i] = n[i]
        /\ \A i \in 1..Len(two) : p[Len(n) + i] = two[i]
    BY <1>1, <1>2, Joined
  <1>4. QED
    BY <1>1, <1>3

\* A function tree takes a topic only for its own name and function.
LEMMA TreeMatches ==
  ASSUME NEW S, Vocabulary \subseteq S, NEW n \in InstanceName(S), NEW g \in Reservations, NEW t
  PROVE  MatchFilter(n \o <<g, "#">>, t) <=> /\ Len(t) >= Len(n) + 1
                                             /\ \A i \in 1..Len(n) : n[i] = t[i]
                                             /\ t[Len(n) + 1] = g
  <1>. DEFINE p == n \o <<g, "#">>
  <1>1. /\ n \in Seq(S) /\ Len(n) \in Nat \ {0}
        /\ \A i \in 1..Len(n) : n[i] \notin Wild
    BY NameFacts
  <1>2. g \in S /\ "#" \in S /\ g \notin Wild
    BY DEF Vocabulary, Reservations, L!Functions, Wild
  <1>3. /\ p \in Seq(S) /\ Len(p) = Len(n) + 2
        /\ \A i \in 1..Len(n) : p[i] = n[i]
        /\ p[Len(n) + 1] = g /\ p[Len(n) + 2] = "#"
    <2>1. p = n \o <<g, "#">>
      OBVIOUS
    <2>. HIDE DEF p
    <2>2. PICK h : h = "#"
      OBVIOUS
    <2>3. n \in Seq(S) /\ g \in S /\ h \in S /\ p = n \o <<g, h>>
      BY <1>1, <1>2, <2>1, <2>2, Zenon
    <2>4. /\ p \in Seq(S) /\ Len(p) = Len(n) + 2
          /\ \A i \in 1..Len(n) : p[i] = n[i]
          /\ p[Len(n) + 1] = g /\ p[Len(n) + 2] = h
      BY <2>3, Ended
    <2>5. QED
      BY <2>2, <2>4, Zenon
  <1>. HIDE DEF p
  <1>5. p[Len(p)] = "#" /\ Len(p) - 1 = Len(n) + 1 /\ Len(p) >= 2
    BY <1>1, <1>3
  <1>6. \A i \in 1..(Len(p) - 1) : p[i] \notin Wild
    BY <1>1, <1>2, <1>3, <1>5
  <1>7. MatchFilter(p, t) <=> /\ Len(t) >= Len(p) - 1
                              /\ \A i \in 1..(Len(p) - 1) : p[i] = t[i]
    BY <1>3, <1>5, <1>6, RemainderMatches
  <1>8. MatchFilter(p, t) <=> /\ Len(t) >= Len(n) + 1
                              /\ \A i \in 1..Len(n) : n[i] = t[i]
                              /\ t[Len(n) + 1] = g
    BY <1>1, <1>3, <1>5, <1>7
  <1>9. QED
    BY <1>8 DEF p

\* The grammar of one instance, under another's: where the names part, one of them
\* has a function below its first level.
LEMMA TreesApart ==
  ASSUME NEW S, Vocabulary \subseteq S,
         NEW n \in InstanceName(S), NEW m \in InstanceName(S), n # m,
         NEW f \in Reservations, NEW g \in Reservations, NEW rest \in Seq(S)
  PROVE  ~MatchFilter(m \o <<g, "#">>, n \o <<f>> \o rest)
  <1>. DEFINE t == n \o <<f>> \o rest
  <1>1. f \in S
    BY DEF Vocabulary
  <1>2. /\ n \in Seq(S) /\ Len(n) \in Nat \ {0} /\ \A i \in 2..Len(n) : n[i] \notin Reservations
        /\ m \in Seq(S) /\ Len(m) \in Nat \ {0} /\ \A i \in 2..Len(m) : m[i] \notin Reservations
    BY NameFacts
  <1>3. /\ Len(t) = Len(n) + 1 + Len(rest)
        /\ \A i \in 1..Len(n) : t[i] = n[i]
        /\ t[Len(n) + 1] = f
    BY <1>1, <1>2, Placed
  <1>. HIDE DEF t
  <1>4. SUFFICES ASSUME /\ \A i \in 1..Len(m) : m[i] = t[i]
                        /\ t[Len(m) + 1] = g
                 PROVE  FALSE
    <2>1. MatchFilter(m \o <<g, "#">>, t) => /\ \A i \in 1..Len(m) : m[i] = t[i]
                                            /\ t[Len(m) + 1] = g
      BY TreeMatches
    <2>2. QED
      BY <2>1, Zenon DEF t
  <1>5. CASE Len(n) = Len(m)
    BY <1>2, <1>3, <1>4, <1>5, SeqEqual
  <1>6. CASE Len(n) > Len(m)
    <2>1. Len(m) + 1 \in 2..Len(n) /\ Len(m) + 1 \in 1..Len(n)
      BY <1>2, <1>6
    <2>2. n[Len(m) + 1] = g
      BY <2>1, <1>3, <1>4
    <2>3. QED
      BY <2>1, <2>2, <1>2
  <1>7. CASE Len(n) < Len(m)
    <2>1. Len(n) + 1 \in 2..Len(m) /\ Len(n) + 1 \in 1..Len(m)
      BY <1>2, <1>7
    <2>2. m[Len(n) + 1] = f
      BY <2>1, <1>3, <1>4
    <2>3. QED
      BY <2>1, <2>2, <1>2
  <1>8. QED
    BY <1>2, <1>5, <1>6, <1>7

\* Coordinates over the levels of S.
SlotOver(S) == [scope : Seq(S), address : S, channel : S, bucket : S, path : Seq(S)]

LEMMA FnIs ==
  ASSUME NEW S, NEW n \in InstanceName(S), NEW f, NEW item
  PROVE  L!Fn(L!SmartHome(n), f, item) =
           IF L!Join(item) = <<>> THEN <<>> ELSE n \o <<f>> \o L!Join(item)
  <1>1. n # <<>>
    BY DEF InstanceName, L!NameValid
  <1>2. L!SmartHome(n).root = n
    BY DEF L!SmartHome
  <1>3. QED
    BY <1>1, <1>2, Zenon DEF L!Fn

LEMMA Between ==
  ASSUME NEW S, NEW front \in Seq(S), NEW x \in S, NEW y \in S, NEW z \in S, NEW back \in Seq(S)
  PROVE  LET t == front \o <<x, y, z>> \o back
         IN  t \in Seq(S) /\ Len(front) + 1 \in 1..Len(t) /\ t[Len(front) + 1] = x
  <1>1. PICK three : three = <<x, y, z>>
    OBVIOUS
  <1>2. three \in Seq(S)
    BY <1>1
  <1>3. Len(three) = 3 /\ three[1] = x
    BY <1>1
  <1>4. PICK m : m = front \o three
    OBVIOUS
  <1>5. /\ m \in Seq(S) /\ Len(m) = Len(front) + Len(three) /\ Len(front) \in Nat
        /\ \A i \in 1..Len(three) : m[Len(front) + i] = three[i]
    BY <1>2, <1>4, Joined
  <1>6. m \in Seq(S)
    BY <1>5
  <1>7. PICK t : t = m \o back
    OBVIOUS
  <1>8. /\ t \in Seq(S) /\ Len(t) = Len(m) + Len(back) /\ Len(back) \in Nat
        /\ \A i \in 1..Len(m) : t[i] = m[i]
    BY <1>6, <1>7, Joined
  <1>9. t \in Seq(S) /\ Len(front) + 1 \in 1..Len(t) /\ t[Len(front) + 1] = x
    BY <1>3, <1>5, <1>8
  <1>10. QED
    BY <1>1, <1>4, <1>7, <1>9, Zenon

LEMMA ItemIs ==
  ASSUME NEW S, NEW s \in SlotOver(S)
  PROVE  /\ L!Item(s) \in Seq(S)
         /\ \E i \in 1..Len(L!Item(s)) : L!Item(s)[i] = s.address
  <1>1. PICK scope \in Seq(S), address \in S, channel \in S, bucket \in S, path \in Seq(S) :
          s = [scope |-> scope, address |-> address, channel |-> channel, bucket |-> bucket,
               path |-> path]
    BY DEF SlotOver
  <1>2. L!Item(s) = scope \o <<address, channel, bucket>> \o path /\ s.address = address
    BY <1>1 DEF L!Item
  <1>3. LET t == scope \o <<address, channel, bucket>> \o path
        IN  t \in Seq(S) /\ Len(scope) + 1 \in 1..Len(t) /\ t[Len(scope) + 1] = address
    BY Between
  <1>4. QED
    BY <1>2, <1>3, Zenon

\* What the maintenance function says is no command of it.
LEMMA StatsIs ==
  ASSUME NEW rest, rest = L!Join(<<"stats">>)
  PROVE  \A i \in 1..Len(rest) : rest[i] # "set"
  <1>. DEFINE T == {"stats", Blank}
  <1>1. <<"stats">> \in Seq(T) /\ Blank \in T
    OBVIOUS
  <1>2. rest \in Seq(Plainly(T))
    <2>. HIDE DEF T
    <2>. QED
      BY <1>1, JoinKeeps
  <1>3. \A x \in Plainly(T) : x # "set"
    BY DEF Plainly, Blank
  <1>. HIDE DEF T
  <1>4. \A i \in 1..Len(rest) : rest[i] \in Plainly(T)
    BY <1>2, ElementOfSeq
  <1>5. QED
    BY <1>3, <1>4, Zenon

\* A topic of an instance's tree: what follows its name and function.
Branch(S, n, f, t) == \E rest \in Seq(Plainly(S)) : t = n \o <<f>> \o rest

LEMMA FnBranches ==
  ASSUME NEW S, Vocabulary \subseteq S, NEW n \in InstanceName(S), NEW f, NEW item \in Seq(S),
         NEW t, t = L!Fn(L!SmartHome(n), f, item), t # <<>>
  PROVE  Branch(S, n, f, t) /\ t = n \o <<f>> \o L!Join(item)
  <1>1. Blank \in S
    BY DEF Vocabulary
  <1>2. L!Join(item) \in Seq(Plainly(S))
    BY <1>1, JoinKeeps
  <1>3. t = n \o <<f>> \o L!Join(item)
    BY FnIs, Zenon
  <1>4. QED
    BY <1>2, <1>3, Zenon DEF Branch

LEMMA PublishedBranches ==
  ASSUME NEW S, Vocabulary \subseteq S, NEW n \in InstanceName(S), NEW s \in SlotOver(S),
         NEW t \in PublishedBy(L!SmartHome(n), s), t # <<>>
  PROVE  \/ \E f \in Reservations \ {"set", "maintenance"} : Branch(S, n, f, t)
         \/ Branch(S, n, "maintenance", t) /\ t = n \o <<"maintenance">> \o L!Join(<<"stats">>)
  <1>. DEFINE l == L!SmartHome(n)
              Said == Reservations \ {"set", "maintenance"}
  <1>1. /\ n \in Seq(S) /\ n # <<>> /\ l.root = n /\ L!IsSmartHome(l)
    BY NameFacts, EmptySeq DEF InstanceName, L!NameValid, L!SmartHome, L!IsSmartHome
  <1>2. /\ s.scope \in Seq(S) /\ s.address \in S /\ s.channel \in S /\ L!Item(s) \in Seq(S)
    BY ItemIs DEF SlotOver
  <1>3. {"status", "connected", "info", "meta", "ha"} \subseteq Said
    BY DEF Reservations, L!Functions
  <1>4. {"online", "event", "impulse", "device_error", "stats"} \subseteq S
    BY DEF Vocabulary, Leaves
  <1>5. ASSUME NEW f \in Said, NEW item \in Seq(S), t = L!Fn(l, f, item)
        PROVE  \E g \in Said : Branch(S, n, g, t)
    BY <1>5, FnBranches
  <1>6. ASSUME NEW f \in Said, t = n \o <<f>>
        PROVE  \E g \in Said : Branch(S, n, g, t)
    <2>1. t \in Seq(S \cup {f})
      <3>1. n \in Seq(S \cup {f})
        BY <1>1, SeqMonotonic
      <3>2. <<f>> \in Seq(S \cup {f})
        OBVIOUS
      <3>3. QED
        BY <1>6, <3>1, <3>2, ConcatProperties
    <2>2. t = t \o <<>>
      BY <2>1, ConcatEmptySeq
    <2>3. <<>> \in Seq(Plainly(S))
      BY EmptySeq
    <2>4. QED
      BY <1>6, <2>2, <2>3, Zenon DEF Branch
  <1>7. CASE t = L!StateTopic(l, s)
    BY <1>1, <1>2, <1>3, <1>5, <1>7 DEF L!StateTopic
  <1>8. CASE t = L!AvailabilityTopic(l, s)
    <2>. DEFINE item == s.scope \o <<s.address, "online">>
    <2>1. <<s.address, "online">> \in Seq(S)
      BY <1>2, <1>4
    <2>2. item \in Seq(S)
      BY <1>2, <2>1, ConcatProperties, Zenon
    <2>3. l.kind = "smarthome"
      BY <1>1 DEF L!IsSmartHome
    <2>4. t = L!Fn(l, "status", item)
      BY <1>8, <2>3 DEF L!AvailabilityTopic
    <2>. HIDE DEF item
    <2>5. QED
      BY <1>3, <1>5, <2>2, <2>4
  <1>9. CASE t = L!Bridge(l)
    BY <1>1, <1>3, <1>6, <1>9, Zenon DEF L!Bridge
  <1>10. CASE t = L!InfoTopic(l)
    BY <1>1, <1>3, <1>6, <1>10, Zenon DEF L!InfoTopic
  <1>11. CASE t = L!Fn(l, "meta", L!Item(s)) \/ t = L!Fn(l, "ha", L!Item(s))
    BY <1>2, <1>3, <1>5, <1>11
  <1>12. CASE t = L!MaintenanceTopic(l, <<"stats">>)
    <2>1. <<"stats">> \in Seq(S)
      BY <1>4
    <2>2. QED
      BY <1>12, <2>1, FnBranches DEF L!MaintenanceTopic
  <1>13. ASSUME NEW k \in L!PulseKinds, t = L!PulseTopic(l, k, s)
         PROVE  \E g \in Said : Branch(S, n, g, t)
    <2>. DEFINE item == s.scope \o <<s.address, s.channel, L!PulseLeaf(k)>>
    <2>1. L!PulseLeaf(k) \in S
      BY <1>4, <1>13 DEF L!PulseLeaf, L!PulseKinds
    <2>2. <<s.address, s.channel, L!PulseLeaf(k)>> \in Seq(S)
      BY <1>2, <2>1
    <2>3. item \in Seq(S)
      BY <1>2, <2>2, ConcatProperties, Zenon
    <2>4. t = L!Fn(l, "status", item)
      BY <1>1, <1>13 DEF L!PulseTopic
    <2>. HIDE DEF item
    <2>5. QED
      BY <1>3, <1>5, <2>3, <2>4
  <1>14. QED
    BY <1>7, <1>8, <1>9, <1>10, <1>11, <1>12, <1>13 DEF PublishedBy

\* A branch, level by level.
LEMMA BranchLevels ==
  ASSUME NEW S, Vocabulary \subseteq S, NEW n \in InstanceName(S), NEW f \in Reservations,
         NEW t, Branch(S, n, f, t)
  PROVE  /\ Len(t) >= Len(n) + 1
         /\ \A i \in 1..Len(n) : t[i] = n[i]
         /\ t[Len(n) + 1] = f
         /\ \A i \in DOMAIN t : t[i] \notin {""} \cup Wild \cup Mixed
  <1>1. PICK rest \in Seq(Plainly(S)) : t = n \o <<f>> \o rest
    BY DEF Branch
  <1>2. rest \in Seq(S)
    BY SeqMonotonic DEF Plainly
  <1>3. f \in S
    BY DEF Vocabulary
  <1>4. /\ n \in Seq(S) /\ Len(n) \in Nat \ {0}
        /\ \A i \in 1..Len(n) : n[i] \notin {""} \cup Wild \cup Mixed
    BY NameFacts
  <1>5. n \in Seq(S)
    BY <1>4
  <1>6. /\ t \in Seq(S) /\ Len(t) = Len(n) + 1 + Len(rest) /\ Len(n) \in Nat /\ Len(rest) \in Nat
        /\ \A i \in 1..Len(n) : t[i] = n[i]
        /\ t[Len(n) + 1] = f
        /\ \A i \in 1..Len(rest) : t[Len(n) + 1 + i] = rest[i]
    BY <1>1, <1>2, <1>3, <1>5, Placed
  <1>7. f \notin {""} \cup Wild \cup Mixed
    BY NamesAssumption DEF NamesAssumption, Reservations, L!Functions, Wild
  <1>8. \A i \in 1..Len(rest) : rest[i] \notin {""} \cup Wild \cup Mixed
    <2>1. \A i \in 1..Len(rest) : rest[i] \in Plainly(S)
      BY <1>1, ElementOfSeq
    <2>2. QED
      BY <2>1 DEF Plainly
  <1>. DEFINE Bad == {""} \cup Wild \cup Mixed
  <1>9. \A i \in DOMAIN t : t[i] \notin Bad
    <2>1. /\ \A k \in 1..Len(n) : n[k] \notin Bad
          /\ f \notin Bad
          /\ \A k \in 1..Len(rest) : rest[k] \notin Bad
      BY <1>4, <1>7, <1>8
    <2>. HIDE DEF Bad
    <2>2. SUFFICES ASSUME NEW i \in 1..Len(t) PROVE t[i] \notin Bad
      BY <1>6
    <2>3. CASE i \in 1..Len(n)
      BY <1>6, <2>1, <2>3
    <2>4. CASE i = Len(n) + 1
      BY <1>6, <2>1, <2>4
    <2>5. CASE i > Len(n) + 1
      <3>1. i - (Len(n) + 1) \in 1..Len(rest) /\ i = Len(n) + 1 + (i - (Len(n) + 1))
        BY <1>6, <2>5
      <3>2. t[i] = rest[i - (Len(n) + 1)]
        BY <1>6, <3>1
      <3>3. QED
        BY <2>1, <3>1, <3>2
    <2>6. QED
      BY <1>6, <2>3, <2>4, <2>5
  <1>10. Len(t) >= Len(n) + 1
    BY <1>6
  <1>11. QED
    BY <1>6, <1>9, <1>10, Zenon

\* A topic that begins with the levels of a name and the level of a function.
Begins(t, n, f) ==
  /\ Len(t) >= Len(n) + 1
  /\ \A i \in 1..Len(n) : t[i] = n[i]
  /\ t[Len(n) + 1] = f

LEMMA BranchStart ==
  ASSUME NEW S, Vocabulary \subseteq S, NEW n \in InstanceName(S), NEW f \in Reservations,
         NEW t, Branch(S, n, f, t)
  PROVE  Begins(t, n, f)
  <1>1. PICK rest \in Seq(Plainly(S)) : t = n \o <<f>> \o rest
    BY DEF Branch
  <1>2. rest \in Seq(S)
    BY SeqMonotonic DEF Plainly
  <1>3. f \in S
    BY DEF Vocabulary
  <1>4. n \in Seq(S)
    BY NameFacts
  <1>5. /\ Len(t) = Len(n) + 1 + Len(rest) /\ Len(n) \in Nat /\ Len(rest) \in Nat
        /\ \A i \in 1..Len(n) : t[i] = n[i]
        /\ t[Len(n) + 1] = f
    BY <1>1, <1>2, <1>3, <1>4, Placed
  <1>6. Len(t) >= Len(n) + 1
    BY <1>5
  <1>7. QED
    BY <1>5, <1>6, Zenon DEF Begins

LEMMA BranchApart ==
  ASSUME NEW S, Vocabulary \subseteq S, NEW n \in InstanceName(S), NEW f \in Reservations,
         NEW t, Branch(S, n, f, t),
         NEW m \in InstanceName(S), n # m, NEW g \in Reservations
  PROVE  ~MatchFilter(m \o <<g, "#">>, t)
  <1>1. PICK rest \in Seq(Plainly(S)) : t = n \o <<f>> \o rest
    BY DEF Branch
  <1>2. rest \in Seq(S)
    BY SeqMonotonic DEF Plainly
  <1>3. QED
    BY <1>1, <1>2, TreesApart, Zenon

\* An instance listens below set and below maintenance/set, and publishes under neither.
LEMMA NeverItsOwnCommand ==
  ASSUME NEW S, Vocabulary \subseteq S, NEW n \in InstanceName(S), NEW s \in SlotOver(S),
         NEW t \in PublishedBy(L!SmartHome(n), s), t # <<>>
  PROVE  /\ \E f \in Reservations : Branch(S, n, f, t)
         /\ ~MatchFilter(n \o <<"set", "#">>, t)
         /\ ~MatchFilter(n \o <<"maintenance", "set", "#">>, t)
  <1>1. {"set", "maintenance"} \subseteq Reservations
    BY DEF Reservations, L!Functions
  <1>2. \/ \E f \in Reservations \ {"set", "maintenance"} : Branch(S, n, f, t)
        \/ Branch(S, n, "maintenance", t) /\ t = n \o <<"maintenance">> \o L!Join(<<"stats">>)
    BY PublishedBranches
  <1>3. PICK f \in Reservations \ {"set"} :
          /\ Branch(S, n, f, t)
          /\ f = "maintenance" => t = n \o <<"maintenance">> \o L!Join(<<"stats">>)
    BY <1>1, <1>2
  <1>4. Len(t) >= Len(n) + 1 /\ t[Len(n) + 1] = f /\ f # "set" /\ f \in Reservations
    <2>1. f # "set"
      OBVIOUS
    <2>2. PICK g : g = f
      OBVIOUS
    <2>3. g \in Reservations /\ Branch(S, n, g, t)
      BY <1>3, <2>2, Zenon
    <2>4. Begins(t, n, g)
      BY <2>3, BranchStart, Zenon
    <2>5. QED
      BY <2>1, <2>2, <2>3, <2>4, Zenon DEF Begins
  <1>5. ~MatchFilter(n \o <<"set", "#">>, t)
    BY <1>1, <1>4, TreeMatches
  <1>6. ASSUME MatchFilter(n \o <<"maintenance", "set", "#">>, t)
        PROVE  FALSE
    <2>1. /\ n \in Seq(S) /\ Len(n) \in Nat \ {0}
          /\ \A i \in 1..Len(n) : n[i] \notin Wild
      BY NameFacts
    <2>2. PICK p : p = n \o <<"maintenance", "set", "#">>
      OBVIOUS
    <2>3. /\ p \in Seq(S) /\ Len(p) = Len(n) + 3
          /\ \A i \in 1..Len(n) : p[i] = n[i]
          /\ p[Len(n) + 1] = "maintenance" /\ p[Len(n) + 2] = "set" /\ p[Len(n) + 3] = "#"
      <3>1. PICK three : three = <<"maintenance", "set", "#">>
        OBVIOUS
      <3>2. three \in Seq(S)
        BY <1>1, <3>1 DEF Vocabulary
      <3>3. n \in Seq(S) /\ p = n \o three
        BY <2>1, <2>2, <3>1
      <3>4. /\ p \in Seq(S) /\ Len(p) = Len(n) + Len(three) /\ Len(n) \in Nat
            /\ \A i \in 1..Len(n) : p[i] = n[i]
            /\ \A i \in 1..Len(three) : p[Len(n) + i] = three[i]
        BY <3>2, <3>3, Joined
      <3>5. Len(three) = 3 /\ three[1] = "maintenance" /\ three[2] = "set" /\ three[3] = "#"
        BY <3>1
      <3>6. QED
        BY <3>4, <3>5
    <2>4. \A i \in 1..(Len(p) - 1) : p[i] \notin Wild
      <3>1. "maintenance" \notin Wild /\ "set" \notin Wild
        BY DEF Wild
      <3>2. \A i \in 1..(Len(p) - 1) : i \in 1..Len(n) \/ i = Len(n) + 1 \/ i = Len(n) + 2
        BY <2>1, <2>3
      <3>3. QED
        BY <2>1, <2>3, <3>1, <3>2
    <2>5. Len(p) >= 2 /\ p[Len(p)] = "#"
      BY <2>1, <2>3
    <2>6. /\ Len(t) >= Len(p) - 1
          /\ \A i \in 1..(Len(p) - 1) : p[i] = t[i]
      <3>1. MatchFilter(p, t)
        BY <1>6, <2>2, Zenon
      <3>2. p \in Seq(S)
        BY <2>3
      <3>3. QED
        BY <2>4, <2>5, <3>1, <3>2, RemainderMatches
    <2>7. Len(t) >= Len(n) + 2 /\ t[Len(n) + 1] = "maintenance" /\ t[Len(n) + 2] = "set"
      BY <2>1, <2>3, <2>6
    <2>8. t = n \o <<"maintenance">> \o L!Join(<<"stats">>)
      BY <1>3, <1>4, <2>7
    <2>9. PICK rest : rest = L!Join(<<"stats">>)
      OBVIOUS
    <2>10. \A i \in 1..Len(rest) : rest[i] # "set"
      BY <2>9, StatsIs
    <2>11. rest \in Seq(S)
      <3>1. <<"stats">> \in Seq(S) /\ Blank \in S
        BY DEF Vocabulary, Leaves
      <3>2. rest \in Seq(Plainly(S))
        BY <2>9, <3>1, JoinKeeps
      <3>3. QED
        BY <3>2, SeqMonotonic DEF Plainly
    <2>12. "maintenance" \in S
      BY <1>1 DEF Vocabulary
    <2>13. n \in Seq(S)
      BY <2>1
    <2>14. PICK f2 : f2 = "maintenance"
      OBVIOUS
    <2>15. f2 \in S /\ t = n \o <<f2>> \o rest
      BY <2>8, <2>9, <2>12, <2>14, Zenon
    <2>16. /\ Len(t) = Len(n) + 1 + Len(rest) /\ Len(n) \in Nat /\ Len(rest) \in Nat
           /\ \A i \in 1..Len(rest) : t[Len(n) + 1 + i] = rest[i]
      BY <2>11, <2>13, <2>15, Placed
    <2>17. 1 \in 1..Len(rest) /\ (Len(n) + 1) + 1 = Len(n) + 2
      BY <2>7, <2>16
    <2>18. QED
      BY <2>7, <2>10, <2>16, <2>17
  <1>7. QED
    BY <1>3, <1>4, <1>5, <1>6

\* Whatever two instances are called and however deep their names are, and whatever a
\* coordinate spells: what one publishes is a topic, is no command of its own and lies
\* in no function tree of the other, and its commands reach it and not the other
\* (smarthome.go:51-69, 184-217; instance.go:239-273).
THEOREM TwoInstancesKeepApart ==
  ASSUME NEW S, Vocabulary \subseteq S,
         NEW one \in InstanceName(S), NEW other \in InstanceName(S),
         NEW s \in SlotOver(S), L!SlotValid(s)
  PROVE  KeptApart(one, other, s)
  <1>. DEFINE l == L!SmartHome(one)
              c == L!CommandTopic(l, s)
  <1>1. ASSUME NEW t \in PublishedBy(l, s) \ {<<>>}
        PROVE  /\ \A i \in DOMAIN t : t[i] \notin {""} \cup Wild \cup Mixed
               /\ ~MatchFilter(one \o <<"set", "#">>, t)
               /\ ~MatchFilter(one \o <<"maintenance", "set", "#">>, t)
               /\ one # other => \A g \in Reservations : ~MatchFilter(other \o <<g, "#">>, t)
    <2>1. PICK f \in Reservations : Branch(S, one, f, t)
      BY <1>1, NeverItsOwnCommand
    <2>2. ~MatchFilter(one \o <<"set", "#">>, t) /\ ~MatchFilter(one \o <<"maintenance", "set", "#">>, t)
      BY <1>1, NeverItsOwnCommand
    <2>3. \A i \in DOMAIN t : t[i] \notin {""} \cup Wild \cup Mixed
      BY <2>1, BranchLevels
    <2>4. one # other => \A g \in Reservations : ~MatchFilter(other \o <<g, "#">>, t)
      BY <2>1, BranchApart, Zenon
    <2>5. QED
      BY <2>2, <2>3, <2>4
  <1>2. "set" \in Reservations
    BY DEF Reservations, L!Functions
  <1>3. Branch(S, one, "set", c)
    <2>1. L!Item(s) \in Seq(S) /\ \E i \in 1..Len(L!Item(s)) : L!Item(s)[i] = s.address
      BY ItemIs
    <2>2. ~Dropped(s.address)
      BY DEF L!SlotValid, Dropped
    <2>3. L!Join(L!Item(s)) # <<>>
      BY <2>1, <2>2, JoinKeeps DEF Vocabulary
    <2>4. c = L!Fn(l, "set", L!Item(s))
      BY DEF L!CommandTopic, L!IsSmartHome, L!SmartHome
    <2>5. c = one \o <<"set">> \o L!Join(L!Item(s))
      BY <2>3, <2>4, FnIs, Zenon
    <2>6. L!Join(L!Item(s)) \in Seq(Plainly(S))
      BY <2>1, JoinKeeps DEF Vocabulary
    <2>7. QED
      BY <2>5, <2>6, Zenon DEF Branch
  <1>4. MatchFilter(one \o <<"set", "#">>, c)
    <2>1. Len(c) >= Len(one) + 1 /\ (\A i \in 1..Len(one) : c[i] = one[i]) /\ c[Len(one) + 1] = "set"
      <3>1. PICK f : f = "set"
        OBVIOUS
      <3>2. f \in Reservations /\ Branch(S, one, f, c)
        BY <1>2, <1>3, <3>1, Zenon
      <3>3. Begins(c, one, f)
        BY <3>2, BranchStart, Zenon
      <3>4. QED
        BY <3>1, <3>3, Zenon DEF Begins
    <2>2. \A i \in 1..Len(one) : one[i] = c[i]
      BY <2>1
    <2>3. QED
      BY <1>2, <2>1, <2>2, TreeMatches, Zenon
  <1>5. one # other => \A g \in Reservations : ~MatchFilter(other \o <<g, "#">>, c)
    BY <1>2, <1>3, BranchApart, Zenon
  <1>. HIDE DEF l, c
  <1>6. QED
    BY <1>1, <1>4, <1>5 DEF KeptApart, Reservations, l, c
\* The levels the checked names and coordinates are spelled with.
Spellings == Vocabulary \cup {"h", "y", "", "+", "$s", "d", "values", "v", "p"}

LEMMA RecordWithin ==
  ASSUME NEW A, NEW B, NEW C, NEW D, NEW E, NEW S, NEW T,
         A \subseteq T, B \subseteq S, C \subseteq S, D \subseteq S, E \subseteq T
  PROVE  [scope : A, address : B, channel : C, bucket : D, path : E]
           \subseteq [scope : T, address : S, channel : S, bucket : S, path : T]
  OBVIOUS

\* Every pair of instances and coordinate the model starts from is of the general form.
LEMMA SitesAre ==
  /\ InstanceNames \subseteq InstanceName(Spellings)
  /\ \A s \in Slots : s \in SlotOver(Spellings) /\ L!SlotValid(s)
  <1>. DEFINE Letters == {"h", "y", "", "+", "$s"} \cup L!Functions \cup {"ha"}
  <1>1. Letters \subseteq Spellings
    BY DEF Spellings, Vocabulary, Reservations
  <1>2. InstanceNames \subseteq InstanceName(Spellings)
    <2>1. SUFFICES ASSUME NEW n \in InstanceNames PROVE n \in Seq(Spellings)
      BY DEF InstanceNames, InstanceName
    <2>2. n \in Strings(Letters, 2)
      BY DEF InstanceNames
    <2>. HIDE DEF Letters
    <2>3. PICK k \in 1..2 : n \in [1..k -> Letters]
      BY <2>2 DEF Strings
    <2>4. n \in Seq(Letters)
      BY <2>3
    <2>5. QED
      BY <1>1, <2>4, SeqMonotonic
  <1>3. ASSUME NEW s \in Slots
        PROVE  s \in SlotOver(Spellings) /\ L!SlotValid(s)
    <2>1. L!SlotValid(s)
      BY DEF Slots
    <2>2. /\ s \in [scope : {<<>>, <<"ha">>, <<"">>}, address : {"d", "set", ""},
                    channel : {"", "#"}, bucket : {"", "values", "v"},
                    path : {<<"p">>, <<"+", "set">>, <<"">>}]
      BY DEF Slots
    <2>3. {"d", "set", "", "#", "values", "v", "ha", "p", "+"} \subseteq Spellings
      BY DEF Spellings, Vocabulary, Reservations, L!Functions
    <2>4. /\ {<<>>, <<"ha">>, <<"">>} \subseteq Seq(Spellings)
          /\ {<<"p">>, <<"+", "set">>, <<"">>} \subseteq Seq(Spellings)
      <3>1. /\ <<>> \in Seq(Spellings)
            /\ \A x \in Spellings : <<x>> \in Seq(Spellings)
            /\ \A x, y \in Spellings : <<x, y>> \in Seq(Spellings)
        OBVIOUS
      <3>2. QED
        BY <2>3, <3>1, Zenon
    <2>5. s \in SlotOver(Spellings)
      <3>1. /\ {"d", "set", ""} \subseteq Spellings /\ {"", "#"} \subseteq Spellings
            /\ {"", "values", "v"} \subseteq Spellings
        BY <2>3 DEF Spellings, Vocabulary, Reservations, L!Functions
      <3>2. [scope : {<<>>, <<"ha">>, <<"">>}, address : {"d", "set", ""}, channel : {"", "#"},
             bucket : {"", "values", "v"}, path : {<<"p">>, <<"+", "set">>, <<"">>}]
              \subseteq SlotOver(Spellings)
        BY <2>4, <3>1, RecordWithin, Zenon DEF SlotOver
      <3>3. QED
        BY <2>2, <3>2, Zenon
    <2>6. QED
      BY <2>1, <2>5
  <1>4. QED
    BY <1>2, <1>3

\* The theorem above, for every site the specification starts from
\* (smarthome.go:51-69, 184-217; instance.go:239-273).
THEOREM InstancesAlwaysKeepApart ==
  Spec => []InstancesKeepApart
  <1>. DEFINE Sited == site # NoSite => site \in Sites
  <1>1. Init => Sited
    BY DEF Init
  <1>2. Sited /\ [Next]_<<left, right, site>> => Sited'
    BY DEF Next, Sites, NoSite
  <1>3. Sited => InstancesKeepApart
    <2>1. SUFFICES ASSUME site \in Sites
                   PROVE  KeptApart(site.one, site.other, site.slot)
      BY DEF InstancesKeepApart
    <2>2. /\ site.one \in InstanceName(Spellings) /\ site.other \in InstanceName(Spellings)
          /\ site.slot \in SlotOver(Spellings) /\ L!SlotValid(site.slot)
      BY <2>1, SitesAre DEF Sites
    <2>3. Vocabulary \subseteq Spellings
      BY DEF Spellings
    <2>4. QED
      BY <2>2, <2>3, TwoInstancesKeepApart, Zenon
  <1>4. QED
    BY <1>1, <1>2, <1>3, PTL DEF Spec
====
