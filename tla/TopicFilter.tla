----------------------------- MODULE TopicFilter -----------------------------
(* MQTT topic filters as the command router reads them: what a filter        *)
(* matches, when two of them claim a common topic, and which of two claims   *)
(* is the narrower one (src/publisher/command.go). A topic and a filter are  *)
(* the sequences of their levels.                                            *)
EXTENDS Naturals, Sequences, FiniteSetsExt

CONSTANTS
  Levels,       \* the levels in use, wildcards among them
  Reserved,     \* those that begin with "$"
  Mixed         \* those that hold a wildcard among other characters

Wild  == {"+", "#"}

ASSUME LevelsAssumption ==
  /\ Reserved \cup Mixed \subseteq Levels
  /\ Wild \cap (Reserved \cup Mixed) = {}

Share == "$share"

\* $share/{ShareName}/{filter}; anything else is the plain filter it looks like.
Shared(f) ==
  /\ Len(f) >= 3
  /\ f[1] = Share
  /\ f[2] \notin {""} \cup Wild \cup Mixed
  /\ SubSeq(f, 3, Len(f)) # <<"">>

FilterParts(f) == IF Shared(f) THEN SubSeq(f, 3, Len(f)) ELSE f

ValidFilter(f) ==
  /\ f # <<"">>
  /\ Len(f) >= 2 /\ f[1] = Share => Shared(f)
  /\ LET p == FilterParts(f)
     IN  \A i \in DOMAIN p : p[i] \notin Mixed /\ (p[i] = "#" => i = Len(p))

\* p matches the topic t: "+" takes one level, a closing "#" the rest, even none
\* of it; neither reaches a reserved tree from the first level.
MatchFilter(p, t) ==
  LET n    == Len(p)
      rest == p[n] = "#"
      head == IF rest THEN n - 1 ELSE n
  IN  /\ ~(t[1] \in Reserved /\ p[1] \in Wild)
      /\ IF rest THEN Len(t) >= head ELSE Len(t) = head
      /\ \A i \in 1..head : p[i] # "#" /\ p[i] \in {"+", t[i]}

\* Mutant of FiltersOverlap: filters of different depth are taken for disjoint.
FiltersOverlapEqualDepth(a, b) ==
  /\ Len(a) = Len(b)
  /\ \A i \in DOMAIN a : a[i] \in Wild \/ b[i] \in Wild \/ a[i] = b[i]

\* Level by level from the left, until a "#", an end or two different names.
FiltersOverlap(a, b) ==
  LET tail(p, i) == i = Len(p) /\ p[i] = "#"
      from[i \in 1..Max({Len(a), Len(b)}) + 1] ==
        CASE i > Len(a) /\ i > Len(b)                                -> TRUE
          [] i > Len(a) /\ i <= Len(b)                               -> tail(b, i)
          [] i <= Len(a) /\ i > Len(b)                               -> tail(a, i)
          [] OTHER ->
               \/ a[i] = "#" \/ b[i] = "#"
               \/ (a[i] = "+" \/ b[i] = "+" \/ a[i] = b[i]) /\ from[i + 1]
  IN  from[1]

rankRemainder == 0
rankSingle    == 1
rankLiteral   == 2
rankEnd       == 3

\* Mutant of LevelRank: the shorter filter is the weaker one.
LevelRankEndWeakest(p, i) ==
  IF i > Len(p) \/ p[i] = "#" THEN rankRemainder
  ELSE IF p[i] = "+" THEN rankSingle
  ELSE rankLiteral

LevelRank(p, i) ==
  IF \E j \in 1..i : j <= Len(p) /\ p[j] = "#" THEN rankRemainder
  ELSE IF i > Len(p) THEN rankEnd
  ELSE IF p[i] = "+" THEN rankSingle
  ELSE rankLiteral

\* a's claim is stricter than b's at some level.
Stricter(a, b) ==
  \E i \in 1..Max({Len(a), Len(b)}) : LevelRank(a, i) > LevelRank(b, i)

\* compareSpecificity's +1; without it either way the pair has no winner.
Outranks(a, b) == Stricter(a, b) /\ ~Stricter(b, a)

\* Mutant of SpecificityScore: only the levels the filter has.
SpecificityScoreOwnLevels(p, width) ==
  LET total[i \in 0..Len(p)] == IF i = 0 THEN 0 ELSE total[i - 1] + LevelRank(p, i)
  IN  total[Len(p)]

\* The sum of the ranks over width levels, the key subscriptions are sorted by.
SpecificityScore(p, width) ==
  LET total[i \in 0..width] == IF i = 0 THEN 0 ELSE total[i - 1] + LevelRank(p, i)
  IN  total[width]
=============================================================================
