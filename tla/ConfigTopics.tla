----------------------------- MODULE ConfigTopics -----------------------------
(***************************************************************************)
(* The retained discovery config topics of package publisher (topic.go),   *)
(* as sequences of levels: the three forms Home Assistant accepts, taking  *)
(* one apart, and the per-entity topics a device document replaces         *)
(* (publisher.go, SupersededTopics).                                       *)
(***************************************************************************)
EXTENDS Document, SequencesExt

CONSTANT DefaultPrefix      \* discovery.DefaultPrefix, as levels

BundleSegment == "device"

\* An empty prefix is Home Assistant's; one trailing slash is trimmed.
TopicPrefix(prefix) ==
  IF prefix = <<"">> THEN DefaultPrefix
  ELSE IF Last(prefix) = "" THEN Front(prefix) ELSE prefix

EntityConfigTopic(prefix, platform, node, object) ==
  TopicPrefix(prefix) \o <<platform, node, object, "config">>
BundleConfigTopic(prefix, node) == TopicPrefix(prefix) \o <<BundleSegment, node, "config">>

ConfigTopic(platform, node, object, bundle) ==
  [platform |-> platform, nodeID |-> node, objectID |-> object, bundle |-> bundle]

\* Mutant of ParseConfigTopic: an entity's topic always has a node id.
ParseWithNodeID(prefix, topic) ==
  LET p     == TopicPrefix(prefix)
      parts == SubSeq(topic, Len(p) + 1, Len(topic))
  IN  IF Len(parts) = 4 THEN {ConfigTopic(parts[1], parts[2], parts[3], FALSE)}
      ELSE IF Len(parts) = 3 /\ parts[1] = BundleSegment THEN {ConfigTopic("", parts[2], "", TRUE)}
      ELSE {}
\* At most one: what a topic is the config of.
ParseConfigTopic(prefix, topic) ==
  LET p     == TopicPrefix(prefix)
      parts == SubSeq(topic, Len(p) + 1, Len(topic))
      full(n) == \A i \in 1..n : parts[i] # ""
  IN  IF ~IsStrictPrefix(p, topic) \/ Last(topic) # "config" THEN {}
      ELSE CASE Len(parts) = 4 ->
                  When(full(3), {ConfigTopic(parts[1], parts[2], parts[3], FALSE)})
             [] Len(parts) = 3 /\ parts[1] = BundleSegment ->
                  When(full(2), {ConfigTopic("", parts[2], "", TRUE)})
             [] Len(parts) = 3 /\ parts[1] # BundleSegment ->
                  When(full(2), {ConfigTopic(parts[1], "", parts[2], FALSE)})
             [] OTHER -> {}
-----------------------------------------------------------------------------
(* A LegacyTopicFunc, by its name: at most one topic for an entity.        *)

LegacyEntity(prefix, platform, node, object, uid) ==
  [prefix |-> prefix, platform |-> platform, nodeID |-> node, objectID |-> object, uniqueID |-> uid]

LegacyTopicWithNodeID(e) ==
  When("" \notin {e.platform, e.nodeID, e.objectID},
       {EntityConfigTopic(e.prefix, e.platform, e.nodeID, e.objectID)})
LegacyTopicByUniqueID(e) ==
  When("" \notin {e.platform, e.uniqueID},
       {TopicPrefix(e.prefix) \o <<e.platform, e.uniqueID, "config">>})
LegacyTopicByObjectID(e) ==
  When("" \notin {e.platform, e.objectID},
       {TopicPrefix(e.prefix) \o <<e.platform, e.objectID, "config">>})

LegacyTopic(form, e) ==
  CASE form = "nodeID"   -> LegacyTopicWithNodeID(e)
    [] form = "uniqueID" -> LegacyTopicByUniqueID(e)
    [] form = "objectID" -> LegacyTopicByObjectID(e)

\* Naming no form names the first; naming one replaces it.
Forms(stated) == IF stated = {} THEN {"nodeID"} ELSE stated

LegacyTopics(stated, e) == UNION {LegacyTopic(form, e) : form \in Forms(stated)}

\* A tombstone is keyed on what was remembered of it, if its entry lacks it.
SupersededEntity(prefix, b, k) ==
  LET own == UniqueID(b.components[k])
      uid == IF own = "" /\ k \in DOMAIN b.tombstones THEN UniqueID(b.tombstones[k]) ELSE own
  IN  LegacyEntity(prefix, Platform(b.components[k]), b.nodeID, k, uid)
SupersededTopics(prefix, b, stated) ==
  UNION {LegacyTopics(stated, SupersededEntity(prefix, b, k)) :
           k \in {k \in DOMAIN b.components : Platform(b.components[k]) # ""}}

\* Mutant of WithheldTopics: in the form every consumer starts from.
WithheldTopicsDefaultForm(prefix, b, stated) ==
  SupersededTopics(prefix, [b EXCEPT !.components = b.withheld, !.tombstones = NoKeys], {})
\* What containment took out still owns its per-entity configs.
WithheldTopics(prefix, b, stated) ==
  SupersededTopics(prefix, [b EXCEPT !.components = b.withheld, !.tombstones = NoKeys], stated)
=============================================================================
