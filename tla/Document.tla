------------------------------- MODULE Document -------------------------------
(***************************************************************************)
(* A device document of package discovery (bundle.go), what Home Assistant *)
(* would do with it (inspect.go), the older all-or-nothing verdict         *)
(* (validate.go), and containment, which takes out what would be refused   *)
(* (contain.go).                                                           *)
(*                                                                         *)
(* An encoded component is a function from JSON keys to values: strings,   *)
(* but for options (a set), availability (a sequence of entries) and min,  *)
(* max and step, each a set holding the number in units of 1e-4, or empty  *)
(* when the value is not a number.                                         *)
(***************************************************************************)
EXTENDS Integers, Sequences, FiniteSetsExt, Functions

CONSTANTS
  Catalog,    \* the tables go-ha-catalog ships (external)
  KeyOrder    \* every component key there is, in sorted order

Null     == "null"      \* JSON null
BlankUnit == " "        \* a unit of spaces only
NoKeys   == <<>>        \* a struct that set nothing, an empty map
NonEntityPlatforms    == {"device_automation", "tag"}
ConfigCategoryRefused == {"sensor", "binary_sensor"}
AvailabilityEntryKeys == {"topic", "payload_available", "payload_not_available", "value_template"}
EntityCategories      == {"config", "diagnostic"}
NumberMinStep         == 10
NumberDefault         == [min |-> 0, max |-> 1000000, step |-> 10000]

\* A component: its typed fields, a platform's Fields struct, Extra, NameNull;
\* which of its bounds are NaN or infinite; whether JSON can hold the rest.
TypedKeys == {"platform", "name", "unique_id", "device_class", "state_class",
              "unit_of_measurement", "entity_category", "availability",
              "availability_topic", "options", "min", "max", "step", "state_topic"}
TypedOnly(fields) ==
  [typed |-> fields, fields |-> NoKeys, extra |-> NoKeys, nameNull |-> FALSE,
   nonFinite |-> {}, encodable |-> TRUE]
Tombstone(platform) == TypedOnly([platform |-> platform])

\* A map written over another.
Over(f, g) == [k \in DOMAIN f \cup DOMAIN g |-> IF k \in DOMAIN f THEN f[k] ELSE g[k]]

\* json.Marshal of a component: Extra over Fields over the typed half.
Encoded(c) ==
  LET merged == Over(c.extra, Over(c.fields, c.typed))
  IN  IF c.nameNull THEN Over([name |-> Null], merged) ELSE merged

Str(body, key)  == IF key \in DOMAIN body THEN body[key] ELSE ""
IsRemoval(body) == DOMAIN body \subseteq {"platform"}
Platform(c) == Str(c.typed, "platform")
UniqueID(c) == Str(c.typed, "unique_id")

\* A document.  nodeID, origin and identified stand for what is said of them:
\* a node id is "", or a member of Catalog.nodeIDs (what Home Assistant's topic
\* pattern matches), or of Catalog.slugs (what sanitizeCheck leaves alone).
Document(nodeID, origin, identified, components) ==
  [nodeID |-> nodeID, origin |-> origin, identified |-> identified,
   components |-> components, tombstones |-> NoKeys, withheld |-> NoKeys]

When(condition, things) == IF condition THEN things ELSE {}
Earlier(key) ==
  LET at == CHOOSE i \in DOMAIN KeyOrder : KeyOrder[i] = key
  IN  {KeyOrder[i] : i \in 1..(at - 1)}
-----------------------------------------------------------------------------
(* Inspect: what Home Assistant refuses or drops, finding by finding.      *)

Finding(scope, component, kind, severity, keys, strippable) ==
  [scope |-> scope, component |-> component, kind |-> kind,
   severity |-> severity, keys |-> keys, strippable |-> strippable]
\* A key is a path: of the component, or of an entry of its availability list.
Paths(keys) == {<<k>> : k \in keys}
DocError(component, kind, keys)  == {Finding("document", component, kind, "error", Paths(keys), FALSE)}
CompError(component, kind, keys) == {Finding("component", component, kind, "error", Paths(keys), FALSE)}
CompWarning(component, kind, keys) ==
  {Finding("component", component, kind, "warning", Paths(keys), FALSE)}
Strippable(component, kind, path) ==
  {Finding("component", component, kind, "warning", {path}, TRUE)}

\* The keys a platform's schema allows this body, and those it requires.  A
\* platform that dispatches to variants and finds none allows all, requires none.
Schema(platform, body) ==
  LET s == Catalog.schema[platform]
      variant == Str(body, s.discriminator)
  IN  IF s.allowed # {} THEN [allowed |-> s.allowed, required |-> s.required]
      ELSE IF variant \in DOMAIN s.variants THEN s.variants[variant]
      ELSE [allowed  |-> UNION {s.variants[v].allowed : v \in DOMAIN s.variants},
            required |-> {}]

UnknownKeys(platform, body, ignore) ==
  LET allowed == Schema(platform, body).allowed
  IN  IF allowed = {} THEN {} ELSE DOMAIN body \ (allowed \cup ignore \cup {"platform"})
MissingKeys(platform, body) == Schema(platform, body).required \ DOMAIN body

UnknownKeyFindings(key, platform, body, ignore) ==
  UNION {Strippable(key, "unknown_key", <<k>>) : k \in UnknownKeys(platform, body, ignore)}
RequiredKeyFindings(key, platform, body) ==
  UNION {CompError(key, "required_key", {k}) : k \in MissingKeys(platform, body)}
KeyFindings(key, platform, body, ignore) ==
  UnknownKeyFindings(key, platform, body, ignore) \cup RequiredKeyFindings(key, platform, body)

Entries(body) == IF "availability" \in DOMAIN body THEN body.availability ELSE <<>>
EntryFindings(key, entry, i) ==
  When(Str(entry, "topic") = "", CompError(key, "availability_topic", {}))
  \cup UNION {Strippable(key, "availability_key", <<"availability", i, k>>)
                : k \in DOMAIN entry \ AvailabilityEntryKeys}
AvailabilityFindings(key, body) ==
  UNION {EntryFindings(key, Entries(body)[i], i) : i \in DOMAIN Entries(body)}

EntityCategoryFindings(key, platform, body) ==
  LET category == Str(body, "entity_category")
      refused  == category = "config" /\ platform \in ConfigCategoryRefused
  IN  When("entity_category" \in DOMAIN body /\ category # Null /\
             (category \notin EntityCategories \/ refused),
           CompError(key, "entity_category", {"entity_category"}))

LegacyUnit(unit) ==
  unit \in DOMAIN Catalog.ambiguousUnits /\ Catalog.ambiguousUnits[unit] # unit
Canonical(unit) == IF LegacyUnit(unit) THEN Catalog.ambiguousUnits[unit] ELSE unit
StateClassImpossible(stateClass, deviceClass) ==
  /\ stateClass # "" /\ deviceClass \in DOMAIN Catalog.stateClasses
  /\ stateClass \notin Catalog.stateClasses[deviceClass]
NonNumeric(deviceClass) ==
  deviceClass \in Catalog.deviceClasses["sensor"] \ Catalog.numericClasses

SensorFindings(key, body) ==
  LET stateClass  == Str(body, "state_class")
      deviceClass == Str(body, "device_class")
      unit == IF Str(body, "unit_of_measurement") = BlankUnit THEN ""
              ELSE Str(body, "unit_of_measurement")
      hasOptions == "options" \in DOMAIN body
      listed == hasOptions /\ body.options # {}
  IN  When("last_reset_value_template" \in DOMAIN body /\ stateClass # "total",
           CompError(key, "last_reset", {"last_reset_value_template", "state_class"}))
      \cup When(hasOptions /\ ~listed, CompError(key, "options", {"options"}))
      \cup When(listed /\ deviceClass # "enum", CompError(key, "options", {"options", "device_class"}))
      \cup When(listed /\ stateClass # "", CompError(key, "options", {"options", "state_class"}))
      \cup When(listed /\ unit # "", CompError(key, "options", {"options", "unit_of_measurement"}))
      \cup When(stateClass \in DOMAIN Catalog.stateClassUnits /\
                unit \notin Catalog.stateClassUnits[stateClass],
                CompError(key, "unit_state_class", {"unit_of_measurement", "state_class"}))
      \cup When(LegacyUnit(unit), CompWarning(key, "legacy_unit", {"unit_of_measurement"}))
      \cup When(unit # "" /\ deviceClass \in DOMAIN Catalog.deviceClassUnits /\
                Canonical(unit) \notin Catalog.deviceClassUnits[deviceClass],
                CompError(key, "unit_device_class", {"unit_of_measurement", "device_class"}))
      \cup When(StateClassImpossible(stateClass, deviceClass),
                Strippable(key, "state_class", <<"state_class">>))
      \cup When(NonNumeric(deviceClass) /\ unit # "" /\ ~hasOptions,
                CompError(key, "numeric_expectation", {"unit_of_measurement", "device_class"}))

\* An absent bound is the catalogue's default, else Home Assistant's.
Bound(body, name) ==
  IF name \in DOMAIN body THEN body[name]
  ELSE {Over(Catalog.numberDefaults, NumberDefault)[name]}
UnreadBoundFindings(key, body) ==
  UNION {CompError(key, "number_bounds", {n}) : n \in {n \in DOMAIN NumberDefault : Bound(body, n) = {}}}
NumberFindings(key, body) ==
  LET low == Bound(body, "min")  high == Bound(body, "max")  step == Bound(body, "step")
  IN  When(LegacyUnit(Str(body, "unit_of_measurement")),
           CompWarning(key, "legacy_unit", {"unit_of_measurement"}))
      \cup UnreadBoundFindings(key, body)
      \cup When(\E s \in step : s < NumberMinStep, CompError(key, "number_bounds", {"step"}))
      \cup When(\E l \in low, h \in high : l > h, CompError(key, "number_bounds", {"min", "max"}))
DeviceClassUnknown(platform, body) ==
  LET deviceClass == Str(body, "device_class")
  IN  /\ deviceClass # "" /\ platform \in DOMAIN Catalog.deviceClasses
      /\ deviceClass \notin Catalog.deviceClasses[platform]

\* Whether the inspector gets as far as the component's identity.
Inspectable(c) ==
  /\ c.nonFinite = {} /\ c.encodable
  /\ Str(Encoded(c), "platform") \in Catalog.supported
  /\ ~IsRemoval(Encoded(c))
IdentityKey(body) == <<Str(body, "platform"), Str(body, "unique_id")>>
\* Mutant of Duplicate: one unique id serves one component, whatever its platform.
DuplicateOnAnyPlatform(b, key) ==
  LET body == Encoded(b.components[key])
  IN  /\ Str(body, "unique_id") # ""
      /\ \E k \in Earlier(key) \cap DOMAIN b.components :
            Inspectable(b.components[k]) /\ UniqueID(b.components[k]) = Str(body, "unique_id")
\* An earlier component that came this far holds the same identity.
Duplicate(b, key) ==
  LET body == Encoded(b.components[key])
  IN  /\ Str(body, "unique_id") # ""
      /\ \E k \in Earlier(key) \cap DOMAIN b.components :
            Inspectable(b.components[k]) /\ IdentityKey(Encoded(b.components[k])) = IdentityKey(body)

BodyFindings(b, key, body, ignore) ==
  LET platform == body.platform
  IN  When(Duplicate(b, key), CompError(key, "unique_id_duplicate", {"unique_id"}))
      \cup When(platform \in DOMAIN Catalog.schema, KeyFindings(key, platform, body, ignore))
      \cup When("availability" \notin ignore, AvailabilityFindings(key, body))
      \cup When(DeviceClassUnknown(platform, body), CompError(key, "device_class", {"device_class"}))
      \cup EntityCategoryFindings(key, platform, body)
      \cup When(platform = "sensor", SensorFindings(key, body))
      \cup When(platform = "number", NumberFindings(key, body))

ComponentFindings(b, key, ignore) ==
  LET c == b.components[key]
      body == Encoded(c)
      platform == Str(body, "platform")
  IN  CASE c.nonFinite # {} -> DocError(key, "non_finite", c.nonFinite)
        [] c.nonFinite = {} /\ ~c.encodable -> DocError(key, "unencodable", {})
        [] OTHER ->
             IF platform = "" THEN DocError(key, "platform_missing", {"platform"})
             ELSE IF platform \notin Catalog.supported
                  THEN DocError(key, "platform_unsupported", {"platform"})
             ELSE IF IsRemoval(body) THEN {}
             ELSE IF Str(body, "unique_id") = "" /\ platform \notin NonEntityPlatforms
                  THEN DocError(key, "unique_id_missing", {"unique_id"})
             ELSE BodyFindings(b, key, body, ignore)

DocumentFindings(b) ==
  When(b.nodeID \notin Catalog.nodeIDs, DocError("", "node_id", {}))
  \cup When(b.origin = "", {Finding("document", "", "origin", "warning", {<<"origin.name">>}, FALSE)})
  \cup When(~b.identified, DocError("", "device_identity", {"device.identifiers", "device.connections"}))
  \cup When(DOMAIN b.components = {},
            {Finding("document", "", "no_components", "warning", {<<"components">>}, FALSE)})

Inspect(b, ignore) ==
  DocumentFindings(b) \cup UNION {ComponentFindings(b, k, ignore) : k \in DOMAIN b.components}

Errors(fs)            == {f \in fs : f.severity = "error"}
ForComponent(fs, key) == {f \in fs : f.component = key}
DocumentErrors(fs)    == {f \in Errors(fs) : f.component = ""}
\* Mutant of FailingComponents: only what Home Assistant refuses by itself is withheld.
FailingComponentsByScope(fs) == {f.component : f \in {f \in Errors(fs) : f.scope = "component"}}
FailingComponents(fs) == {f.component : f \in Errors(fs)} \ {""}
-----------------------------------------------------------------------------
(* Validate: every issue it finds withholds the whole document.            *)

Issue(component, kind) == {[component |-> component, kind |-> kind]}

\* Reads the typed platform, where Inspect reads the encoded one.
Registers(c) == c.encodable /\ c.nonFinite = {} /\ Platform(c) \in Catalog.supported
ValidateDuplicate(b, key) ==
  LET id(k) == <<Platform(b.components[k]), Str(Encoded(b.components[k]), "unique_id")>>
  IN  \E k \in Earlier(key) \cap DOMAIN b.components : Registers(b.components[k]) /\ id(k) = id(key)

SensorRelationIssues(key, platform, body) ==
  LET stateClass  == Str(body, "state_class")
      deviceClass == Str(body, "device_class")
      listed == platform = "sensor" /\ "options" \in DOMAIN body /\ body.options # {}
  IN  When(StateClassImpossible(stateClass, deviceClass), Issue(key, "state_class"))
      \cup When(listed /\ (deviceClass # "enum" \/ stateClass # "" \/
                           Str(body, "unit_of_measurement") # ""), Issue(key, "options"))

ValidateBody(b, key, platform, body, ignore) ==
  IF platform = "" THEN Issue(key, "platform_missing")
  ELSE IF platform \notin Catalog.supported THEN Issue(key, "platform_unsupported")
  ELSE IF Str(body, "unique_id") = ""
       THEN When(~IsRemoval(body), Issue(key, "unique_id_missing"))
  ELSE When(ValidateDuplicate(b, key), Issue(key, "unique_id_duplicate"))
       \cup When(platform \in DOMAIN Catalog.schema /\ UnknownKeys(platform, body, ignore) # {},
                 Issue(key, "unknown_key"))
       \cup When(platform \in DOMAIN Catalog.schema /\ MissingKeys(platform, body) # {},
                 Issue(key, "required_key"))
       \cup When(DeviceClassUnknown(platform, body), Issue(key, "device_class"))
       \cup SensorRelationIssues(key, platform, body)

ValidateComponent(b, key, ignore) ==
  LET c == b.components[key]
      entries == IF "availability" \in DOMAIN c.typed THEN c.typed.availability ELSE <<>>
  IN  When(\E i \in DOMAIN entries : Str(entries[i], "topic") = "", Issue(key, "availability_topic"))
      \cup IF c.encodable /\ c.nonFinite = {}
           THEN ValidateBody(b, key, Platform(c), Encoded(c), ignore)
           ELSE Issue(key, "unencodable")

ValidateIgnoring(b, ignore) ==
  When(b.nodeID \notin Catalog.slugs, Issue("", "node_id"))
  \cup When(b.origin = "", Issue("", "origin"))
  \cup When(~b.identified, Issue("", "device_identity"))
  \cup When(DOMAIN b.components = {}, Issue("", "no_components"))
  \cup UNION {ValidateComponent(b, k, ignore) : k \in DOMAIN b.components}

-----------------------------------------------------------------------------
(* Contain: the document without what Home Assistant would refuse.         *)

StripEntry(entry, keys) == Restrict(entry, DOMAIN entry \ keys)
\* The encoded component without the findings' keys.
StripBody(body, fs) ==
  LET paths == UNION {f.keys : f \in fs}
      rest  == Restrict(body, {k \in DOMAIN body : <<k>> \notin paths})
      entry(i) == StripEntry(body.availability[i],
                     {k \in DOMAIN body.availability[i] : <<"availability", i, k>> \in paths})
  IN  IF "availability" \in DOMAIN rest
      THEN [rest EXCEPT !.availability = [i \in DOMAIN rest.availability |-> entry(i)]]
      ELSE rest
\* A component of what is left: the typed half carries what it can, Extra the rest.
ComponentFromBody(body) ==
  LET null(k) == k \in {"name", "entity_category"} /\ body[k] = Null
      typed   == {k \in DOMAIN body \cap TypedKeys : ~null(k)}
  IN  [TypedOnly(Restrict(body, typed)) EXCEPT !.extra = Restrict(body, DOMAIN body \ typed)]
StripComponent(c, fs) == ComponentFromBody(StripBody(Encoded(c), fs))

Contain(b, ignore, strip) ==
  LET fs      == Inspect(b, ignore)
      failing == FailingComponents(fs) \cap DOMAIN b.components
      kept    == DOMAIN b.components \ failing
      minor(k) == {f \in ForComponent(fs, k) : f.strippable}
  IN  [b EXCEPT
        !.components = [k \in kept |-> IF strip /\ minor(k) # {}
                                       THEN StripComponent(b.components[k], minor(k))
                                       ELSE b.components[k]],
        !.withheld = Over(Restrict(b.components, failing), b.withheld)]

\* c is what Contain made of a document with the findings fs.
Publishable(c, fs) ==
  /\ DocumentErrors(fs) = {}
  /\ DOMAIN c.components # {} \/ DOMAIN c.withheld = {}
-----------------------------------------------------------------------------
(* Removal: an entry that carries a platform and nothing else.             *)

\* A record with a unique id is never replaced by one without.
RememberTombstone(tombstones, key, was) ==
  IF key \in DOMAIN tombstones /\ UniqueID(tombstones[key]) # "" /\ UniqueID(was) = ""
  THEN tombstones[key] ELSE was

\* Mutant of Removable: withheld is as good as gone.
RemovableWithheldToo(b, key, was) == Platform(was) # ""
\* Whether Remove and RemoveComponents do anything with a key; was is the component it was.
Removable(b, key, was) == Platform(was) # "" /\ key \notin DOMAIN b.withheld

\* All the keys at once: no key's removal reads another's.
RemoveEach(b, was, keys) ==
  LET gone == {k \in keys : Removable(b, k, was[k])}
  IN  [b EXCEPT !.components = Over([k \in gone |-> Tombstone(Platform(was[k]))], @),
                !.tombstones = Over([k \in gone |-> RememberTombstone(b.tombstones, k, was[k])], @)]
RemoveComponents(b, was, keys) == RemoveEach(b, was, keys \cap DOMAIN was)
\* Remove knows only the platform; what the document still declares it keeps.
RemovePlatforms(b, platformOf, keys) ==
  LET was(k) == IF k \in DOMAIN b.components
                THEN [b.components[k] EXCEPT !.typed = Over([platform |-> platformOf[k]], @)]
                ELSE Tombstone(platformOf[k])
  IN  RemoveEach(b, [k \in keys \cap DOMAIN platformOf |-> was(k)], keys \cap DOMAIN platformOf)

\* Mutant of KeepSet: what was published is what was declared.
KeepSetPublished(b) == b.components
KeepSet(b) == Over(b.components, b.withheld)
=============================================================================
