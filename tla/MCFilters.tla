------------------------------ MODULE MCFilters ------------------------------
(* TopicFilter against its definition by enumeration: every pair of filters  *)
(* of at most MaxLevels levels, every topic of at most MaxLevels + 1. And the *)
(* topics of two mqtt-smarthome instances on one broker, against the filters  *)
(* each of them subscribes to.                                                *)
EXTENDS TopicFilter

CONSTANT MaxLevels

ASSUME BoundAssumption ==
  /\ MaxLevels \in Nat \ {0}
  /\ {"a"} \cup Wild \subseteq Levels
  /\ "a" \notin Reserved \cup Mixed

Names    == Levels \ (Wild \cup Mixed)
Strings(S, n) == UNION {[1..k -> S] : k \in 1..n}
Simple   == {"a", "+"}
Tails    == Strings(Simple, 2) \cup {<<"">>}
SharedFilters == UNION {{<<Share, g>> \o w : w \in Tails} : g \in Simple}
AllFilters    == Strings(Levels, MaxLevels) \cup SharedFilters
Registrable == {f \in AllFilters : ValidFilter(f)}
Claims     == {FilterParts(f) : f \in Registrable}
AllTopics  == Strings(Names, MaxLevels + 1)

L == INSTANCE TopicLayout WITH
       Unsafe <- Wild \cup Mixed, Wild <- Wild \cup Mixed, Dollar <- Reserved

ASSUME NamesAssumption == ({"", "_", "ha"} \cup L!Functions) \cap Mixed = {}

\* What an operator may call an instance: NewSmartHomeMultiLevel accepts it, and below
\* its first level the consumer's guard finds no function (smarthome.go:60-69, 155).
InstanceNames ==
  {n \in Strings({"h", "y", "", "+", "$s"} \cup L!Functions \cup {"ha"}, 2) :
     L!NameValid(n, TRUE) /\ \A i \in 2..Len(n) : ~L!IsReservedFunction(n[i])}
\* Coordinates that spell functions, wildcards and nothing.
Slots ==
  {s \in [scope : {<<>>, <<"ha">>, <<"">>}, address : {"d", "set", ""}, channel : {"", "#"},
           bucket : {"", "values", "v"}, path : {<<"p">>, <<"+", "set">>, <<"">>}] :
     L!SlotValid(s)}
NoSite == [none |-> TRUE]
Sites  == [one : InstanceNames, other : InstanceNames, slot : Slots]

VARIABLES
  left, right,     \* the two filters compared
  site      \* or two instances and a coordinate

Init ==
  \/ left \in Registrable /\ right \in Registrable /\ site = NoSite
  \/ left = <<"#">> /\ right = <<"#">> /\ site \in Sites
Next == UNCHANGED <<left, right, site>>
Spec == Init /\ [][Next]_<<left, right, site>>
-----------------------------------------------------------------------------
pa == FilterParts(left)
pb == FilterParts(right)
Plain(p) == \A i \in DOMAIN p : p[i] \notin Reserved
MatchedBy == [p \in Claims |-> {t \in AllTopics : MatchFilter(p, t)}]

\* A topic two filters share is never overlooked at registration (one message
\* would run two handlers), and no pair of filters outside the reserved trees is
\* refused that shares none (filtersOverlap, command.go:1586).
OverlapIsExact ==
  /\ MatchedBy[pa] \cap MatchedBy[pb] # {} => FiltersOverlap(pa, pb)
  /\ FiltersOverlap(pa, pb) /\ Plain(pa) /\ Plain(pb) => MatchedBy[pa] \cap MatchedBy[pb] # {}

\* The claim that wins is the narrower one: of two overlapping filters, the one
\* that outranks the other matches no topic the other does not, and two
\* overlapping filters of equal strength are one filter
\* (compareSpecificity, command.go:1365).
WinnerIsNarrower ==
  FiltersOverlap(pa, pb) =>
    /\ Outranks(pa, pb) => {t \in MatchedBy[pa] : t[1] \notin Reserved} \subseteq MatchedBy[pb]
    /\ ~Stricter(pa, pb) /\ ~Stricter(pb, pa) => pa = pb

\* What registration decides pair by pair holds for any number of routes, and
\* the order subscriptions go out in agrees with it: outranking is transitive,
\* and the score of the narrower claim is the higher one
\* (resolveLocked, command.go:1203; routeSubsLocked, command.go:1274).
RankingIsAnOrder ==
  Outranks(pa, pb) =>
    /\ \A c \in Claims : Outranks(pb, c) => Outranks(pa, c)
    /\ SpecificityScore(pa, MaxLevels + 1) > SpecificityScore(pb, MaxLevels + 1)

\* Every topic an instance publishes, for one coordinate.
PublishedBy(l, s) ==
  {L!StateTopic(l, s), L!AvailabilityTopic(l, s), L!Bridge(l), L!InfoTopic(l),
   L!Fn(l, "meta", L!Item(s)), L!Fn(l, "ha", L!Item(s)), L!MaintenanceTopic(l, <<"stats">>)}
    \cup {L!PulseTopic(l, k, s) : k \in L!PulseKinds}

\* What one instance publishes, and what it is commanded by, beside another.
KeptApart(one, other, s) ==
  LET l     == L!SmartHome(one)
      own   == {one \o <<"set", "#">>, one \o <<"maintenance", "set", "#">>}
      trees == {other \o <<f, "#">> : f \in L!Functions \cup {"ha"}}
  IN  /\ \A t \in PublishedBy(l, s) \ {<<>>} :
           /\ \A i \in DOMAIN t : t[i] \notin {""} \cup Wild \cup Mixed
           /\ \A p \in own : ~MatchFilter(p, t)
           /\ one # other => \A p \in trees : ~MatchFilter(p, t)
      /\ MatchFilter(one \o <<"set", "#">>, L!CommandTopic(l, s))
      /\ one # other => \A p \in trees : ~MatchFilter(p, L!CommandTopic(l, s))

\* What an instance publishes is a topic, never comes back to it as a command, and
\* lies in no function tree of another instance, whatever the coordinates spell and
\* however deep the names are; its commands do reach it (smarthome.go:51-69, 184-217,
\* instance.go:239-273).
InstancesKeepApart == site # NoSite => KeptApart(site.one, site.other, site.slot)
=============================================================================
