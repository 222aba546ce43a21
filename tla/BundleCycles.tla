----------------------------- MODULE BundleCycles -----------------------------
(***************************************************************************)
(* A device's document over the consumer's publish cycles: render what the *)
(* catalogue declares, take out what Home Assistant would refuse, tombstone*)
(* what left, retract the per-entity configs the document replaces, publish*)
(* it, and remember what it declared.  The steps are contain.go's ("Order"),*)
(* in either order it allows, and Runtime.PublishBundle's.                 *)
(*                                                                         *)
(* The consumer, the broker and Home Assistant are external: a document    *)
(* with a document error is ignored; an entry that carries only a platform *)
(* deletes its entity; a refused or an omitted component changes nothing.  *)
(***************************************************************************)
EXTENDS ConfigTopics

CONSTANTS
  Catalogues,  \* what the device may have at first: under each key a component, or Absent
  Offers,      \* what each key may change to
  Absent,
  Installed,   \* the entities an earlier build published, one config each
  Settings,    \* what may be configured: [ignore, strip, forms, identified, prefix]
  Node,
  MaxChanges

\* KeyOrder lists every key once, so none comes before itself.
ASSUME OrderAssumption == \A k \in DOMAIN Offers : k \notin Earlier(k)

VARIABLES
  setting,     \* ContainOptions, Config.LegacyEntityTopics and Prefix, and whether the
               \* device has an identifier, fixed for a life
  catalogue,   \* what the device has
  changes,
  stage,       \* how far the cycle is
  bundle,      \* the document the cycle works on
  todo,        \* legacy topics PublishBundle still has to retract
  previous,    \* the KeepSet the consumer remembers
  legacy,      \* per-entity config topics retained
  kept,        \* Runtime.kept of the document: topics the sweep leaves alone
  document,    \* the components of the retained document
  registry,    \* the keys Home Assistant has an entity for
  settled      \* the last change of the catalogue has been published

vars == <<setting, catalogue, changes, stage, bundle, todo, previous,
          legacy, kept, document, registry, settled>>

Keys       == DOMAIN Offers
Declared   == {k \in Keys : catalogue[k] # Absent}
OldTopics(k) ==
  LegacyTopics(setting.forms,
    LegacyEntity(setting.prefix, Platform(Installed[k]), Node, k, UniqueID(Installed[k])))
NoBundle   == Document(Node, "origin", TRUE, NoKeys)

Init ==
  /\ setting \in Settings
  /\ catalogue \in Catalogues
  /\ changes = 0 /\ stage = "idle" /\ bundle = NoBundle /\ todo = {}
  /\ previous = Installed /\ registry = DOMAIN Installed /\ document = NoKeys
  /\ legacy = UNION {OldTopics(k) : k \in DOMAIN Installed} /\ kept = {}
  /\ settled = FALSE

\* The device's catalogue changes: a component leaves, arrives, or renders anew.
Change(k) ==
  /\ stage = "idle" /\ changes < MaxChanges
  /\ \E c \in Offers[k] \ {catalogue[k]} : catalogue' = [catalogue EXCEPT ![k] = c]
  /\ changes' = changes + 1 /\ settled' = FALSE
  /\ UNCHANGED <<setting, stage, bundle, todo, previous, legacy, kept, document, registry>>

Render ==
  /\ stage = "idle" /\ ~settled
  /\ bundle' = Document(Node, "origin", setting.identified, Restrict(catalogue, Declared))
  /\ stage' = "rendered"
  /\ UNCHANGED <<setting, catalogue, changes, todo, previous, legacy, kept, document, registry, settled>>

Contained(b) == Contain(b, setting.ignore, setting.strip)
Worthwhile(b) == Publishable(Contained(b), Inspect(b, setting.ignore))

EndCycle == stage' = "idle" /\ bundle' = NoBundle /\ todo' = {}

\* Contain, by the consumer before it tombstones or by PublishBundle after.
ContainFrom(from, to) ==
  /\ stage = from
  /\ IF Worthwhile(bundle)
     THEN bundle' = Contained(bundle) /\ stage' = to /\ UNCHANGED todo
     ELSE EndCycle
  /\ UNCHANGED <<setting, catalogue, changes, previous, legacy, kept, document, registry, settled>>
ConsumerContains  == ContainFrom("rendered", "contained")
PublisherContains == ContainFrom("removed", "ready")

\* The consumer's diff: remembered, and not in the document it holds.
Gone == DOMAIN previous \ DOMAIN bundle.components
PlatformOf == [k \in Keys \cap DOMAIN previous |-> Platform(previous[k])]

\* Tombstones, by the remembered components; a consumer that also states the
\* platforms, before or after, changes nothing by it.
Removals(b) ==
  LET known(d) == RemoveComponents(d, previous, Gone)
      stated(d) == RemovePlatforms(d, PlatformOf, Gone)
  IN  {known(b), known(stated(b)), stated(known(b))}
RemoveGone ==
  /\ stage \in {"rendered", "contained"}
  /\ bundle' \in Removals(bundle)
  \* A document contained already may be published as it is, or contained again.
  /\ stage' \in IF stage = "contained" THEN {"ready", "removed"} ELSE {"removed"}
  /\ UNCHANGED <<setting, catalogue, changes, todo, previous, legacy, kept, document, registry, settled>>

\* The rest of PublishBundle: what is withheld is kept from the sweep; then nothing at
\* all for the document it published last, else the legacy topics first, one at a time, then the document.
Begin ==
  /\ stage = "ready"
  /\ stage' = "sending"
  /\ todo' = IF bundle.components = document THEN {}
             ELSE SupersededTopics(setting.prefix, bundle, setting.forms) \cap legacy
  /\ kept' = WithheldTopics(setting.prefix, bundle, setting.forms)
  /\ UNCHANGED <<setting, catalogue, changes, bundle, previous, legacy, document, registry, settled>>

Supersede(t) ==
  /\ stage = "sending" /\ t \in todo
  /\ legacy' = legacy \ {t} /\ todo' = todo \ {t}
  /\ UNCHANGED <<setting, catalogue, changes, stage, bundle, previous, kept, document, registry, settled>>

\* What Home Assistant makes of a document.
Processed(entities, b) ==
  LET fs == Inspect(b, setting.ignore)
      removed == {k \in DOMAIN b.components : IsRemoval(Encoded(b.components[k]))}
  IN  IF \E f \in Errors(fs) : f.scope = "document" THEN entities
      ELSE (entities \ removed) \cup (DOMAIN b.components \ (removed \cup FailingComponents(fs)))

PublishDocument ==
  /\ stage = "sending" /\ todo = {}
  /\ document' = bundle.components
  /\ registry' = Processed(registry, bundle)
  /\ previous' = KeepSet(bundle) /\ settled' = TRUE
  /\ EndCycle
  /\ UNCHANGED <<setting, catalogue, changes, legacy, kept>>

\* A retraction or the publish is refused: the caller gets the error, and the
\* next cycle starts from what it remembered.
Fail ==
  /\ stage = "sending" /\ EndCycle
  /\ UNCHANGED <<setting, catalogue, changes, previous, legacy, kept, document, registry, settled>>

\* A sweep after the cycle: of the configs under the prefix that this process does not
\* claim, as many as it gets to.
Sweep ==
  /\ stage = "idle" /\ settled
  /\ \E S \in SUBSET {t \in legacy \ kept : ParseConfigTopic(setting.prefix, t) # {}} :
       legacy' = legacy \ S
  /\ UNCHANGED <<setting, catalogue, changes, stage, bundle, todo, previous, kept,
                 document, registry, settled>>

Next ==
  \/ \E k \in Keys : Change(k)
  \/ Render \/ ConsumerContains \/ RemoveGone \/ PublisherContains
  \/ Begin \/ (\E t \in todo : Supersede(t)) \/ PublishDocument \/ Fail
  \/ Sweep

Spec == Init /\ [][Next]_vars
-----------------------------------------------------------------------------
(* What the proofs suppose of the catalogue and of the device; the run's   *)
(* instance of both satisfies it (MCCycles).                               *)

\* Every schema of an entity platform knows the unique id; one of a platform that
\* registers no entity is flat and requires a key of its own.
NamingCatalog ==
  /\ "" \notin Catalog.supported
  /\ \A p \in DOMAIN Catalog.schema \ NonEntityPlatforms :
       LET s == Catalog.schema[p]
       IN  \A allowed \in IF s.allowed # {} THEN {s.allowed}
                          ELSE {s.variants[v].allowed : v \in DOMAIN s.variants} :
              "unique_id" \in allowed
  /\ \A p \in NonEntityPlatforms \cap Catalog.supported :
       /\ p \in DOMAIN Catalog.schema
       /\ \E k \in Catalog.schema[p].required :
             k \in Catalog.schema[p].allowed \ {"platform", "state_class"}

Rendered(k) == ({c[k] : c \in Catalogues} \cup Offers[k]) \ {Absent}
\* A component names a platform that Home Assistant has, or none; its Extra does not
\* name another, nor another unique id.  What arrives later names one and is an entity
\* or a tag; an installed entity keeps its platform and its unique id.
NamedDevice ==
  /\ "" \notin Keys /\ DOMAIN Installed \subseteq Keys
  /\ \A c \in Catalogues : c = [k \in Keys |-> c[k]]
  /\ \A k \in Keys : \A c \in Rendered(k) :
       /\ Platform(c) \in Catalog.supported \cup {""}
       /\ Str(Encoded(c), "platform") \in Catalog.supported =>
            IdentityKey(Encoded(c)) = <<Platform(c), UniqueID(c)>>
       /\ c \in Offers[k] \/ k \in DOMAIN Installed => Platform(c) # "" /\ ~IsRemoval(Encoded(c))
  /\ \A k \in DOMAIN Installed :
       /\ Platform(Installed[k]) \in Catalog.supported \ NonEntityPlatforms
       /\ \A c \in Rendered(k) : /\ Platform(c) = Platform(Installed[k])
                                 /\ UniqueID(c) = UniqueID(Installed[k])
\* The topics have levels, the forms are the three that publisher exports, and no
\* platform is called as the segment a document's topic has in its place.
NamedTopics ==
  /\ Node # "" /\ BundleSegment \notin Catalog.supported
  /\ DefaultPrefix \in Seq(STRING)
  /\ \A s \in Settings : /\ s.prefix \in Seq(STRING)
                         /\ s.forms \subseteq {"nodeID", "uniqueID", "objectID"}
\* The schemas allow what they require and what the rules read, and require no state
\* class: a key that is stripped for being unknown is one that no rule is about.
KnowingCatalog ==
  /\ "" \notin DOMAIN Catalog.stateClassUnits
  /\ \A p \in DOMAIN Catalog.schema :
       LET s == Catalog.schema[p]
           read == IF p = "sensor" THEN {"state_class", "device_class", "unit_of_measurement", "options"}
                   ELSE IF p = "number" THEN {"min", "max", "step"} ELSE {}
           knows(keys) == read \subseteq keys.allowed /\ keys.required \subseteq keys.allowed \ {"state_class"}
       IN  IF s.allowed # {} THEN knows(s)
           ELSE \A v \in DOMAIN s.variants :
                  knows(s.variants[v]) /\ s.discriminator \in s.variants[v].allowed \ {"state_class", "availability"}
\* Stripping takes away no state class that a last_reset_value_template needs, and no
\* unique id of what registers no entity.
Spoiled(body) ==
  /\ "last_reset_value_template" \in DOMAIN body
  /\ Str(body, "state_class") = "total"
  /\ StateClassImpossible("total", Str(body, "device_class"))
Separable(body) ==
  /\ Str(body, "platform") = "sensor" => ~Spoiled(body)
  /\ Str(body, "platform") \in NonEntityPlatforms => Str(body, "unique_id") = ""
SeparableDevice == \A k \in Keys : \A c \in Rendered(k) : Separable(Encoded(c))
\* No fleet is on both of the short forms, which look alike.  An installed entity is
\* rendered as something that Inspect looks into, and a component that has its identity
\* too comes after it.
DistinctDevice ==
  /\ \A s \in Settings : ~({"uniqueID", "objectID"} \subseteq s.forms)
  /\ \A k \in DOMAIN Installed : \A c \in Rendered(k) : Inspectable(c)
  /\ \A k \in DOMAIN Installed : \A j \in Keys \ {k} : \A c \in Rendered(j) :
       Platform(c) = Platform(Installed[k]) /\ UniqueID(c) = UniqueID(Installed[k]) => k \in Earlier(j)
-----------------------------------------------------------------------------
\* An entity the device still has is never deleted, and the config an earlier
\* build left it is cleared only by a document that describes it: being withheld
\* is not being removed, whichever order the consumer contains and tombstones in.
\* (A component that shared its unique id and was removed does clear it.)
\* (Bundle.Withheld, bundle.go:340; contain.go:118).
Usurped(k) == \E j \in DOMAIN bundle.tombstones \ {k} :
                UniqueID(bundle.tombstones[j]) = UniqueID(Installed[k])
NoDeclaredEntityDeleted ==
  [][/\ registry \cap Declared \subseteq registry'
     /\ \A k \in DOMAIN Installed \cap Declared :
          k \in DOMAIN bundle.components \/ Usurped(k) \/ OldTopics(k) \cap legacy \subseteq legacy']_vars

\* An entity that left is gone for good once a cycle succeeds, with the config an
\* earlier build published for it, which would bring it back: whether it left as
\* a published component or as a withheld one, and however often its cycle failed
\* (Bundle.KeepSet, bundle.go:463; rememberTombstone, bundle.go:484).
GoneLeaves ==
  settled => /\ registry \subseteq Declared
             /\ \A k \in DOMAIN Installed \ Declared : OldTopics(k) \cap legacy = {}

\* Whatever form and prefix the fleet is on, the config a device's entity left
\* behind is one the sweep can see, as that entity's, and never takes for a
\* document; and the device's document it takes for nothing else
\* (ParseConfigTopic, topic.go:57: the third form used to be invisible).
LeftoversParse ==
  /\ ParseConfigTopic(setting.prefix, BundleConfigTopic(setting.prefix, Node))
       = {ConfigTopic("", Node, "", TRUE)}
  /\ \A t \in legacy : \E k \in DOMAIN Installed :
        \E node \in {"", Node}, object \in {k, UniqueID(Installed[k])} :
          ParseConfigTopic(setting.prefix, t)
            = {ConfigTopic(Platform(Installed[k]), node, object, FALSE)}

\* What containment leaves Home Assistant refuses nothing of; and it took nothing
\* out for another's fault: a withheld component, put back on its own, is refused
\* or costs the document, unless its identity is another's too
\* (Contain, contain.go:109).
ContainedIsAccepted ==
  stage \in {"contained", "ready"} =>
    /\ Errors(Inspect(bundle, setting.ignore)) = {}
    /\ \A k \in DOMAIN bundle.withheld \ DOMAIN bundle.components :
         LET back == [bundle EXCEPT !.components = Over([j \in {k} |-> bundle.withheld[k]], @)]
             twin(j) == j # k /\ IdentityKey(Encoded(bundle.withheld[j]))
                                   = IdentityKey(Encoded(bundle.withheld[k]))
         IN  \/ Errors(Inspect(back, setting.ignore)) # {}
             \/ \E j \in DOMAIN bundle.withheld : twin(j)

\* The rules Inspect has and Validate never had, and the kinds that Validate refuses and
\* Home Assistant only warns of or drops.
NewRules == {"entity_category", "number_bounds", "unit_device_class", "unit_state_class",
             "numeric_expectation", "last_reset"}
OnlyWarned == {"origin", "no_components", "unknown_key", "state_class"}
Verdict(f) ==
  [component |-> f.component, kind |-> IF f.kind = "non_finite" THEN "unencodable" ELSE f.kind]
Found(fs, i) == \E f \in fs : Verdict(f) = i /\ (f.severity = "warning" => f.kind \in OnlyWarned)
Unnamed(k) == [component |-> k, kind |-> "unique_id_missing"]
OnTag(b, k) == /\ k \in DOMAIN b.components
               /\ Str(Encoded(b.components[k]), "platform") \in NonEntityPlatforms
Agree(b, ignore) ==
  LET fs == Inspect(b, ignore)
      issues == ValidateIgnoring(b, ignore)
      exempt(k) == OnTag(b, k) /\ Unnamed(k) \in issues
  IN  /\ \A f \in Errors(fs) : f.kind \in NewRules \/ exempt(f.component) \/ Verdict(f) \in issues
      /\ \A i \in issues : (exempt(i.component) /\ i = Unnamed(i.component)) \/ Found(fs, i)

\* What the two read apart and no comment says so, a document on common ground is
\* without: a node name only one of them takes; platform or availability written over by
\* Extra or Fields; a sensor's empty list of options, or one beside a blank unit; an
\* impossible state class of anything else; an entry with no topic, where Inspect was
\* told not to look or had stopped.
Overridden(c) == (DOMAIN c.fields \cup DOMAIN c.extra) \cap {"platform", "availability"} # {}
Topicless(body) == \E i \in DOMAIN Entries(body) : Str(Entries(body)[i], "topic") = ""
CommonBody(body) ==
  IF Str(body, "platform") = "sensor"
  THEN "options" \in DOMAIN body => body.options # {} /\ Str(body, "unit_of_measurement") # BlankUnit
  ELSE ~StateClassImpossible(Str(body, "state_class"), Str(body, "device_class"))
LookedInto(b, k, ignore) ==
  "availability" \notin ignore /\ \A f \in ComponentFindings(b, k, ignore) : f.scope # "document"
CommonGround(b, ignore) ==
  /\ b.nodeID \in Catalog.nodeIDs <=> b.nodeID \in Catalog.slugs
  /\ \A k \in DOMAIN b.components :
       /\ ~Overridden(b.components[k]) /\ CommonBody(Encoded(b.components[k]))
       /\ Topicless(Encoded(b.components[k])) => LookedInto(b, k, ignore)

\* Over a document on common ground Inspect and Validate differ only where the code
\* says they do.  What Home Assistant refuses Validate reports, but for the rules it
\* never had (inspect.go:343) and for what is wrong with a tag besides the unique id it
\* asks of it.  What Validate reports Inspect refuses, but for that unique id and the
\* four kinds that are warnings to Home Assistant (the FindingKinds, inspect.go:98): so
\* no rule the two share is lost, or made a warning, in one of them alone.
VerdictsAgree ==
  stage = "rendered" /\ CommonGround(bundle, setting.ignore) => Agree(bundle, setting.ignore)
=============================================================================
