----------------------------- MODULE CycleProofs -----------------------------
(***************************************************************************)
(* What a device's publish cycles leave in Home Assistant, whatever its    *)
(* components, its catalogue, its settings and its old topics are: a gone  *)
(* component leaves, what is left over parses, and nothing that is         *)
(* declared is deleted. The conditions on names are stated and explained   *)
(* in BundleCycles.                                                        *)
(***************************************************************************)
EXTENDS BundleCycles, SequenceTheorems, TLAPS

-----------------------------------------------------------------------------
(* What a component is, and what a finding says of it.                     *)

\* The identity a component is encoded with.
EncodedPlatform(c) == Str(Encoded(c), "platform")
EncodedID(c)       == Str(Encoded(c), "unique_id")
Removal(c)         == IsRemoval(Encoded(c))

\* What Home Assistant needs before it looks at a component's keys.
Sound(c) ==
  /\ c.nonFinite = {} /\ c.encodable
  /\ EncodedPlatform(c) # "" /\ EncodedPlatform(c) \in Catalog.supported
  /\ Removal(c) \/ EncodedID(c) # "" \/ EncodedPlatform(c) \in NonEntityPlatforms
Live(c) == Sound(c) /\ ~Removal(c)

\* A finding about one component that is that component's own.
Own(f, key) == f.component = key /\ f.scope = "component"

LEMMA WhenIs ==
  ASSUME NEW condition, NEW things, NEW x
  PROVE  x \in When(condition, things) <=> condition /\ x \in things
  BY DEF When

LEMMA DocErrorIs ==
  ASSUME NEW key, NEW kind, NEW keys
  PROVE  /\ \A f \in DocError(key, kind, keys) :
              f.component = key /\ f.scope = "document" /\ f.severity = "error" /\ ~f.strippable
         /\ DocError(key, kind, keys) # {}
  BY DEF DocError, Finding

LEMMA CompErrorIs ==
  ASSUME NEW key, NEW kind, NEW keys
  PROVE  /\ \A f \in CompError(key, kind, keys) :
              Own(f, key) /\ f.severity = "error" /\ ~f.strippable
         /\ CompError(key, kind, keys) # {}
  BY DEF CompError, Finding, Own

LEMMA CompWarningIs ==
  ASSUME NEW key, NEW kind, NEW keys
  PROVE  \A f \in CompWarning(key, kind, keys) :
              Own(f, key) /\ f.severity = "warning" /\ ~f.strippable
  BY DEF CompWarning, Finding, Own

LEMMA StrippableIs ==
  ASSUME NEW key, NEW kind, NEW path
  PROVE  \A f \in Strippable(key, kind, path) :
              Own(f, key) /\ f.severity = "warning" /\ f.keys = {path}
  BY DEF Strippable, Finding, Own

-----------------------------------------------------------------------------
(* Every finding about a body is its component's own; which keys may go.   *)

\* A key containment may take out of a component.
Spare(platform, body, ignore, k) ==
  \/ k = "state_class"
  \/ platform \in DOMAIN Catalog.schema /\ k \in UnknownKeys(platform, body, ignore)
\* A finding below the document: the component's own, and strippable of spare keys only.
Minor(f, key, platform, body, ignore) ==
  /\ Own(f, key)
  /\ f.strippable => /\ f.severity = "warning"
                     /\ \A k : <<k>> \in f.keys => Spare(platform, body, ignore, k)

LEMMA ErrorIsMinor ==
  ASSUME NEW key, NEW platform, NEW body, NEW ignore, NEW kind, NEW keys,
         NEW f \in CompError(key, kind, keys)
  PROVE  Minor(f, key, platform, body, ignore)
  BY CompErrorIs DEF Minor

LEMMA WarningIsMinor ==
  ASSUME NEW key, NEW platform, NEW body, NEW ignore, NEW kind, NEW keys,
         NEW f \in CompWarning(key, kind, keys)
  PROVE  Minor(f, key, platform, body, ignore)
  BY CompWarningIs DEF Minor

LEMMA StripIsMinor ==
  ASSUME NEW key, NEW platform, NEW body, NEW ignore, NEW kind, NEW path,
         \A k : path = <<k>> => Spare(platform, body, ignore, k),
         NEW f \in Strippable(key, kind, path)
  PROVE  Minor(f, key, platform, body, ignore)
  <1>1. Own(f, key) /\ f.severity = "warning" /\ f.keys = {path}
    BY StrippableIs
  <1>2. \A k : <<k>> \in f.keys => Spare(platform, body, ignore, k)
    BY <1>1
  <1>3. QED
    BY <1>1, <1>2 DEF Minor

LEMMA KeysAreMinor ==
  ASSUME NEW key, NEW platform, platform \in DOMAIN Catalog.schema, NEW body, NEW ignore,
         NEW f \in KeyFindings(key, platform, body, ignore)
  PROVE  Minor(f, key, platform, body, ignore)
  <1>1. ASSUME f \in UnknownKeyFindings(key, platform, body, ignore)
        PROVE  Minor(f, key, platform, body, ignore)
    <2>1. PICK k \in UnknownKeys(platform, body, ignore) : f \in Strippable(key, "unknown_key", <<k>>)
      BY <1>1 DEF UnknownKeyFindings
    <2>2. \A j : <<k>> = <<j>> => Spare(platform, body, ignore, j)
      <3>1. \A j : <<k>> = <<j>> => j = k
        OBVIOUS
      <3>2. QED
        BY <3>1, Zenon DEF Spare
    <2>3. QED
      BY <2>1, <2>2, StripIsMinor, Zenon
  <1>2. ASSUME f \in RequiredKeyFindings(key, platform, body)
        PROVE  Minor(f, key, platform, body, ignore)
    <2>1. PICK k \in MissingKeys(platform, body) : f \in CompError(key, "required_key", {k})
      BY <1>2 DEF RequiredKeyFindings
    <2>2. QED
      BY <2>1, ErrorIsMinor, Zenon
  <1>3. QED
    BY <1>1, <1>2 DEF KeyFindings

LEMMA AvailabilityIsMinor ==
  ASSUME NEW key, NEW platform, NEW body, NEW ignore,
         NEW f \in AvailabilityFindings(key, body)
  PROVE  Minor(f, key, platform, body, ignore)
  <1>1. PICK i \in DOMAIN Entries(body) : f \in EntryFindings(key, Entries(body)[i], i)
    BY DEF AvailabilityFindings
  <1>. DEFINE entry == Entries(body)[i]
  <1>2. CASE f \in When(Str(entry, "topic") = "", CompError(key, "availability_topic", {}))
    <2>1. f \in CompError(key, "availability_topic", {})
      BY <1>2, WhenIs, Zenon
    <2>2. QED
      BY <2>1, ErrorIsMinor, Zenon
  <1>3. CASE f \in UNION {Strippable(key, "availability_key", <<"availability", i, k>>)
                             : k \in DOMAIN entry \ AvailabilityEntryKeys}
    <2>1. PICK k : f \in Strippable(key, "availability_key", <<"availability", i, k>>)
      BY <1>3
    <2>2. \A j : <<"availability", i, k>> # <<j>>
      <3>1. PICK a : a = "availability"
        OBVIOUS
      <3>2. \A j : <<a, i, k>> # <<j>>
        OBVIOUS
      <3>3. QED
        BY <3>1, <3>2, Zenon
    <2>3. QED
      BY <2>1, <2>2, StripIsMinor, Zenon
  <1>4. QED
    BY <1>1, <1>2, <1>3, Zenon DEF EntryFindings

LEMMA CategoryIsMinor ==
  ASSUME NEW key, NEW platform, NEW body, NEW ignore,
         NEW f \in EntityCategoryFindings(key, platform, body)
  PROVE  Minor(f, key, platform, body, ignore)
  <1>1. f \in CompError(key, "entity_category", {"entity_category"})
    BY WhenIs DEF EntityCategoryFindings
  <1>2. QED
    BY <1>1, ErrorIsMinor

LEMMA StateClassIsMinor ==
  ASSUME NEW key, NEW platform, NEW body, NEW ignore,
         NEW f \in Strippable(key, "state_class", <<"state_class">>)
  PROVE  Minor(f, key, platform, body, ignore)
  <1>1. \A j : <<"state_class">> = <<j>> => Spare(platform, body, ignore, j)
    <2>1. PICK a : a = "state_class"
      OBVIOUS
    <2>2. \A j : <<a>> = <<j>> => j = a
      OBVIOUS
    <2>3. QED
      BY <2>1, <2>2, Zenon DEF Spare
  <1>2. QED
    BY <1>1, StripIsMinor, Zenon

LEMMA SensorIsMinor ==
  ASSUME NEW key, NEW platform, NEW body, NEW ignore, NEW f \in SensorFindings(key, body)
  PROVE  Minor(f, key, platform, body, ignore)
  <1>1. \E c :
          \/ f \in When(c, CompError(key, "last_reset", {"last_reset_value_template", "state_class"}))
          \/ f \in When(c, CompError(key, "options", {"options"}))
          \/ f \in When(c, CompError(key, "options", {"options", "device_class"}))
          \/ f \in When(c, CompError(key, "options", {"options", "state_class"}))
          \/ f \in When(c, CompError(key, "options", {"options", "unit_of_measurement"}))
          \/ f \in When(c, CompError(key, "unit_state_class", {"unit_of_measurement", "state_class"}))
          \/ f \in When(c, CompWarning(key, "legacy_unit", {"unit_of_measurement"}))
          \/ f \in When(c, CompError(key, "unit_device_class", {"unit_of_measurement", "device_class"}))
          \/ f \in When(c, Strippable(key, "state_class", <<"state_class">>))
          \/ f \in When(c, CompError(key, "numeric_expectation", {"unit_of_measurement", "device_class"}))
    BY Zenon DEF SensorFindings
  <1>2. \/ \E kind, keys : f \in CompError(key, kind, keys)
        \/ \E kind, keys : f \in CompWarning(key, kind, keys)
        \/ f \in Strippable(key, "state_class", <<"state_class">>)
    BY <1>1, WhenIs, Zenon
  <1>3. QED
    BY <1>2, ErrorIsMinor, WarningIsMinor, StateClassIsMinor, Zenon

LEMMA NumberIsMinor ==
  ASSUME NEW key, NEW platform, NEW body, NEW ignore, NEW f \in NumberFindings(key, body)
  PROVE  Minor(f, key, platform, body, ignore)
  <1>1. \E c :
          \/ f \in When(c, CompWarning(key, "legacy_unit", {"unit_of_measurement"}))
          \/ f \in UnreadBoundFindings(key, body)
          \/ f \in When(c, CompError(key, "number_bounds", {"step"}))
          \/ f \in When(c, CompError(key, "number_bounds", {"min", "max"}))
    BY Zenon DEF NumberFindings
  <1>2. ASSUME f \in UnreadBoundFindings(key, body)
        PROVE  Minor(f, key, platform, body, ignore)
    <2>1. PICK n : f \in CompError(key, "number_bounds", {n})
      BY <1>2 DEF UnreadBoundFindings
    <2>2. QED
      BY <2>1, ErrorIsMinor, Zenon
  <1>3. QED
    BY <1>1, <1>2, WhenIs, ErrorIsMinor, WarningIsMinor, Zenon

LEMMA BodyIsMinor ==
  ASSUME NEW b, NEW key, NEW body, NEW ignore, NEW f \in BodyFindings(b, key, body, ignore)
  PROVE  Minor(f, key, body.platform, body, ignore)
  <1>. DEFINE platform == body.platform
  <1>1. \/ f \in CompError(key, "unique_id_duplicate", {"unique_id"})
        \/ platform \in DOMAIN Catalog.schema /\ f \in KeyFindings(key, platform, body, ignore)
        \/ f \in AvailabilityFindings(key, body)
        \/ f \in CompError(key, "device_class", {"device_class"})
        \/ f \in EntityCategoryFindings(key, platform, body)
        \/ f \in SensorFindings(key, body)
        \/ f \in NumberFindings(key, body)
    BY WhenIs, Zenon DEF BodyFindings
  <1>2. QED
    BY <1>1, ErrorIsMinor, KeysAreMinor, AvailabilityIsMinor, CategoryIsMinor, SensorIsMinor,
       NumberIsMinor, Zenon

-----------------------------------------------------------------------------
(* Records, and the tombstone.                                             *)

LEMMA OverIs ==
  ASSUME NEW f, NEW g
  PROVE  /\ DOMAIN Over(f, g) = DOMAIN f \cup DOMAIN g
         /\ \A x \in DOMAIN f : Over(f, g)[x] = f[x]
         /\ \A x \in DOMAIN g \ DOMAIN f : Over(f, g)[x] = g[x]
  BY DEF Over

LEMMA OverNothing ==
  ASSUME NEW f, NEW g, DOMAIN f = {}
  PROVE  DOMAIN Over(f, g) = DOMAIN g /\ \A x \in DOMAIN g : Over(f, g)[x] = g[x]
  BY DEF Over

LEMMA RestrictIs ==
  ASSUME NEW f, NEW S
  PROVE  DOMAIN Restrict(f, S) = S /\ \A x \in S : Restrict(f, S)[x] = f[x]
  BY DEF Restrict

LEMMA NoKeysIs == DOMAIN NoKeys = {}
  BY DEF NoKeys

\* A component with nothing but its typed half is encoded as that half.
LEMMA TypedOnlyIs ==
  ASSUME NEW t, NEW c, c = TypedOnly(t)
  PROVE  /\ c.nonFinite = {} /\ c.encodable = TRUE /\ c.nameNull = FALSE
         /\ c.typed = t /\ c.extra = NoKeys /\ c.fields = NoKeys
  BY DEF TypedOnly

LEMMA StrIs ==
  ASSUME NEW f, NEW g, NEW x, x \in DOMAIN f <=> x \in DOMAIN g, x \in DOMAIN f => f[x] = g[x]
  PROVE  Str(f, x) = Str(g, x)
  BY Zenon DEF Str

LEMMA TombstoneIs ==
  ASSUME NEW platform, platform # "", platform \in Catalog.supported
  PROVE  LET c == Tombstone(platform)
         IN  /\ Sound(c) /\ Removal(c)
             /\ Platform(c) = platform /\ UniqueID(c) = ""
  <1>. DEFINE t == [platform |-> platform]
              c == Tombstone(platform)
              d == Over(c.fields, c.typed)
              e == Over(c.extra, d)
  <1>1. /\ c.nonFinite = {} /\ c.encodable = TRUE /\ c.nameNull = FALSE
        /\ c.typed = t /\ c.extra = NoKeys /\ c.fields = NoKeys
    BY TypedOnlyIs DEF Tombstone
  <1>2. DOMAIN t = {"platform"} /\ t["platform"] = platform
    OBVIOUS
  <1>3. DOMAIN d = {"platform"} /\ d["platform"] = platform
    <2>1. DOMAIN c.fields = {} /\ DOMAIN c.typed = {"platform"} /\ c.typed["platform"] = platform
      BY <1>1, <1>2, NoKeysIs
    <2>. HIDE DEF c, t
    <2>2. DOMAIN d = DOMAIN c.typed /\ \A x \in DOMAIN c.typed : d[x] = c.typed[x]
      BY <2>1, OverNothing, Zenon
    <2>. HIDE DEF d
    <2>3. QED
      BY <2>1, <2>2
  <1>4. DOMAIN e = {"platform"} /\ e["platform"] = platform
    <2>1. DOMAIN c.extra = {}
      BY <1>1, NoKeysIs
    <2>. HIDE DEF c, t, d
    <2>2. DOMAIN e = DOMAIN d /\ \A x \in DOMAIN d : e[x] = d[x]
      BY <2>1, OverNothing, Zenon
    <2>. HIDE DEF e
    <2>3. QED
      BY <1>3, <2>2
  <1>5. Encoded(c) = e
    <2>. HIDE DEF t
    <2>1. ~c.nameNull
      BY <1>1
    <2>. HIDE DEF c
    <2>2. QED
      BY <2>1, Zenon DEF Encoded
  <1>. HIDE DEF e, d, t, c
  <1>6. EncodedPlatform(c) = platform /\ Removal(c)
    BY <1>4, <1>5 DEF EncodedPlatform, Str, Removal, IsRemoval
  <1>7. Platform(c) = platform /\ UniqueID(c) = ""
    BY <1>1, <1>2 DEF Platform, UniqueID, Str
  <1>8. Sound(c)
    BY <1>1, <1>6 DEF Sound
  <1>9. QED
    BY <1>6, <1>7, <1>8 DEF c

-----------------------------------------------------------------------------
(* What containment leaves of a body.                                      *)

LEMMA StripBodyIs ==
  ASSUME NEW body, NEW fs, NEW left, left = StripBody(body, fs)
  PROVE  /\ DOMAIN left \subseteq DOMAIN body
         /\ \A x \in DOMAIN body : (\A f \in fs : <<x>> \notin f.keys) =>
              x \in DOMAIN left /\ (x # "availability" => left[x] = body[x])
         /\ \A x \in DOMAIN left \ {"availability"} : left[x] = body[x]
         /\ \A x \in DOMAIN body \ DOMAIN left : \E f \in fs : <<x>> \in f.keys
  <1>. DEFINE paths == UNION {f.keys : f \in fs}
              spared == {k \in DOMAIN body : <<k>> \notin paths}
              rest == Restrict(body, spared)
  <1>1. DOMAIN rest = spared /\ \A x \in spared : rest[x] = body[x]
    BY RestrictIs
  <1>2. PICK entries : left = IF "availability" \in DOMAIN rest
                              THEN [rest EXCEPT !.availability = entries] ELSE rest
    BY DEF StripBody
  <1>3. rest = [x \in spared |-> body[x]]
    BY DEF Restrict
  <1>4. DOMAIN left = spared
    BY <1>1, <1>2, <1>3
  <1>5. \A x \in spared : x # "availability" => left[x] = body[x]
    BY <1>1, <1>2, <1>3
  <1>6. \A x \in DOMAIN body : (\A f \in fs : <<x>> \notin f.keys) => x \in spared
    OBVIOUS
  <1>7. \A x \in DOMAIN body \ spared : \E f \in fs : <<x>> \in f.keys
    OBVIOUS
  <1>8. QED
    BY <1>4, <1>5, <1>6, <1>7

LEMMA FromBodyIs ==
  ASSUME NEW body, NEW c, c = ComponentFromBody(body)
  PROVE  /\ c.nonFinite = {} /\ c.encodable = TRUE
         /\ DOMAIN Encoded(c) = DOMAIN body /\ \A x \in DOMAIN body : Encoded(c)[x] = body[x]
         /\ EncodedPlatform(c) = Str(body, "platform") /\ Platform(c) = Str(body, "platform")
         /\ EncodedID(c) = Str(body, "unique_id") /\ UniqueID(c) = Str(body, "unique_id")
  <1>. DEFINE null(k) == k \in {"name", "entity_category"} /\ body[k] = Null
              typed == {k \in DOMAIN body \cap TypedKeys : ~null(k)}
              t == Restrict(body, typed)
              e == Restrict(body, DOMAIN body \ typed)
              d == Over(c.fields, c.typed)
              m == Over(c.extra, d)
  <1>1. c = [TypedOnly(t) EXCEPT !.extra = e]
    BY DEF ComponentFromBody
  <1>2. /\ c.nonFinite = {} /\ c.encodable = TRUE /\ c.nameNull = FALSE
        /\ c.typed = t /\ c.extra = e /\ c.fields = NoKeys
    <2>. HIDE DEF t, e
    <2>1. QED
      BY <1>1 DEF TypedOnly
  <1>3. DOMAIN t = typed /\ \A x \in typed : t[x] = body[x]
    BY RestrictIs
  <1>4. DOMAIN e = DOMAIN body \ typed /\ \A x \in DOMAIN body \ typed : e[x] = body[x]
    BY RestrictIs
  <1>5. typed \subseteq DOMAIN body /\ \A x \in TypedKeys \ {"name", "entity_category"} :
          x \in typed <=> x \in DOMAIN body
    OBVIOUS
  <1>. HIDE DEF typed, t, e
  <1>6. DOMAIN d = typed /\ \A x \in typed : d[x] = body[x]
    <2>1. DOMAIN c.fields = {}
      BY <1>2, NoKeysIs
    <2>2. DOMAIN d = DOMAIN c.typed /\ \A x \in DOMAIN c.typed : d[x] = c.typed[x]
      <3>1. PICK f, g : f = c.fields /\ g = c.typed /\ DOMAIN f = {}
        BY <2>1, Zenon
      <3>2. DOMAIN Over(f, g) = DOMAIN g /\ \A x \in DOMAIN g : Over(f, g)[x] = g[x]
        <4>1. DOMAIN f = {}
          BY <3>1
        <4>2. QED
          BY <4>1, OverNothing, SMT
      <3>3. QED
        BY <3>1, <3>2, Zenon
    <2>3. QED
      BY <2>2, <1>2, <1>3, Zenon
  <1>. HIDE DEF d
  <1>7. DOMAIN m = DOMAIN body /\ \A x \in DOMAIN body : m[x] = body[x]
    <2>1. /\ DOMAIN m = DOMAIN c.extra \cup DOMAIN d
          /\ \A x \in DOMAIN c.extra : m[x] = c.extra[x]
          /\ \A x \in DOMAIN d \ DOMAIN c.extra : m[x] = d[x]
      <3>1. PICK f : f = c.extra
        OBVIOUS
      <3>2. /\ DOMAIN Over(f, d) = DOMAIN f \cup DOMAIN d
            /\ \A x \in DOMAIN f : Over(f, d)[x] = f[x]
            /\ \A x \in DOMAIN d \ DOMAIN f : Over(f, d)[x] = d[x]
        BY OverIs
      <3>3. QED
        BY <3>1, <3>2, Zenon
    <2>. HIDE DEF m
    <2>2. DOMAIN c.extra = DOMAIN body \ typed /\ \A x \in DOMAIN body \ typed : c.extra[x] = body[x]
      BY <1>2, <1>4, Zenon
    <2>3. QED
      BY <2>1, <2>2, <1>5, <1>6
  <1>8. Encoded(c) = m
    <2>1. ~c.nameNull
      BY <1>2
    <2>2. QED
      BY <2>1, Zenon DEF Encoded, d
  <1>. HIDE DEF m
  <1>9. \A x : Str(Encoded(c), x) = Str(body, x)
    BY <1>7, <1>8, Zenon DEF Str
  <1>10. \A x \in TypedKeys \ {"name", "entity_category"} : Str(c.typed, x) = Str(body, x)
    BY <1>2, <1>3, <1>5, Zenon DEF Str
  <1>11. {"platform", "unique_id"} \subseteq TypedKeys \ {"name", "entity_category"}
    BY DEF TypedKeys
  <1>12. Platform(c) = Str(body, "platform") /\ UniqueID(c) = Str(body, "unique_id")
    BY <1>10, <1>11, Zenon DEF Platform, UniqueID
  <1>13. EncodedPlatform(c) = Str(body, "platform") /\ EncodedID(c) = Str(body, "unique_id")
    BY <1>9, Zenon DEF EncodedPlatform, EncodedID
  <1>14. QED
    BY <1>2, <1>7, <1>8, <1>12, <1>13, Zenon

-----------------------------------------------------------------------------
(* What it takes out is never what a component is known by.                *)

\* What the platform cannot do without: an entity its unique id, another a key it requires.
Entity(platform) == platform \notin NonEntityPlatforms

LEMMA SchemaKnows ==
  ASSUME NamingCatalog, NEW platform \in DOMAIN Catalog.schema, Entity(platform), NEW body, NEW ignore
  PROVE  "unique_id" \notin UnknownKeys(platform, body, ignore)
  <1>. DEFINE s == Catalog.schema[platform]
  <1>1. PICK id : id = "unique_id"
    OBVIOUS
  <1>2. \A allowed \in IF s.allowed # {} THEN {s.allowed}
                       ELSE {s.variants[v].allowed : v \in DOMAIN s.variants} : id \in allowed
    BY <1>1, Zenon DEF NamingCatalog, Entity
  <1>3. ASSUME s.allowed # {} PROVE id \in Schema(platform, body).allowed
    <2>1. id \in s.allowed
      BY <1>2, <1>3
    <2>2. QED
      BY <1>3, <2>1 DEF Schema
  <1>4. ASSUME s.allowed = {} PROVE Schema(platform, body).allowed = {} \/ id \in Schema(platform, body).allowed
    <2>1. \A v \in DOMAIN s.variants : id \in s.variants[v].allowed
      BY <1>2, <1>4
    <2>2. CASE Str(body, s.discriminator) \in DOMAIN s.variants
      BY <1>4, <2>1, <2>2 DEF Schema
    <2>3. CASE Str(body, s.discriminator) \notin DOMAIN s.variants
      <3>1. Schema(platform, body).allowed = UNION {s.variants[v].allowed : v \in DOMAIN s.variants}
        BY <1>4, <2>3 DEF Schema
      <3>2. QED
        BY <2>1, <3>1
    <2>4. QED
      BY <2>2, <2>3
  <1>5. id \notin UnknownKeys(platform, body, ignore)
    BY <1>3, <1>4 DEF UnknownKeys
  <1>6. QED
    BY <1>1, <1>5

LEMMA IdentityIsNotSpare ==
  ASSUME NamingCatalog, NEW platform, NEW body, NEW ignore
  PROVE  /\ ~Spare(platform, body, ignore, "platform")
         /\ Entity(platform) => ~Spare(platform, body, ignore, "unique_id")
  <1>1. "platform" \notin UnknownKeys(platform, body, ignore)
    BY DEF UnknownKeys
  <1>2. "platform" # "state_class" /\ "unique_id" # "state_class"
    OBVIOUS
  <1>3. QED
    BY <1>1, <1>2, SchemaKnows, Zenon DEF Spare

\* The key a platform without entities requires is there, and is kept.
LEMMA RequiredIsNotSpare ==
  ASSUME NamingCatalog, NEW platform \in Catalog.supported, ~Entity(platform), NEW body, NEW ignore,
         MissingKeys(platform, body) = {}
  PROVE  \E k \in DOMAIN body : k # "platform" /\ ~Spare(platform, body, ignore, k)
  <1>1. PICK k \in Catalog.schema[platform].required :
          k \in Catalog.schema[platform].allowed \ {"platform", "state_class"}
    BY Zenon DEF NamingCatalog, Entity
  <1>2. /\ Schema(platform, body).required = Catalog.schema[platform].required
        /\ Schema(platform, body).allowed = Catalog.schema[platform].allowed
    BY <1>1 DEF Schema
  <1>3. k \in DOMAIN body
    BY <1>1, <1>2 DEF MissingKeys
  <1>4. k \notin UnknownKeys(platform, body, ignore)
    BY <1>1, <1>2 DEF UnknownKeys
  <1>5. k # "platform" /\ k # "state_class"
    BY <1>1
  <1>6. QED
    BY <1>3, <1>4, <1>5, Zenon DEF Spare

\* The findings spare a key: they name none that the component is known by.
Sparing(fs, c, ignore) ==
  \A f \in fs : \A k : <<k>> \in f.keys => Spare(EncodedPlatform(c), Encoded(c), ignore, k)

\* A component of the same platform that Home Assistant looks at; and, for an entity, of
\* the same unique id.
Stripped(s, c) ==
  /\ Live(s)
  /\ Platform(s) = EncodedPlatform(s) /\ EncodedPlatform(s) = EncodedPlatform(c)
  /\ Entity(EncodedPlatform(c)) =>
       EncodedID(s) = EncodedID(c) /\ UniqueID(s) = EncodedID(s)

LEMMA StripIs ==
  ASSUME NamingCatalog, NEW c, NEW fs, NEW ignore, Live(c), Sparing(fs, c, ignore),
         ~Entity(EncodedPlatform(c)) => MissingKeys(EncodedPlatform(c), Encoded(c)) = {},
         NEW s, s = StripComponent(c, fs)
  PROVE  Stripped(s, c)
  <1>. DEFINE platform == EncodedPlatform(c)
              body == Encoded(c)
  <1>1. PICK left : left = StripBody(body, fs) /\ s = ComponentFromBody(left)
    BY DEF StripComponent
  <1>2. /\ DOMAIN left \subseteq DOMAIN body
        /\ \A x \in DOMAIN body : (\A f \in fs : <<x>> \notin f.keys) =>
             x \in DOMAIN left /\ (x # "availability" => left[x] = body[x])
    BY <1>1, StripBodyIs
  <1>3. /\ s.nonFinite = {} /\ s.encodable = TRUE
        /\ DOMAIN Encoded(s) = DOMAIN left
        /\ EncodedPlatform(s) = Str(left, "platform") /\ Platform(s) = Str(left, "platform")
        /\ EncodedID(s) = Str(left, "unique_id") /\ UniqueID(s) = Str(left, "unique_id")
    BY <1>1, FromBodyIs, Zenon
  <1>4. \A x \in DOMAIN body : ~Spare(platform, body, ignore, x) =>
          x \in DOMAIN left /\ (x # "availability" => left[x] = body[x])
    BY <1>2, Zenon DEF Sparing
  <1>5. \A x : ~Spare(platform, body, ignore, x) /\ x # "availability" => Str(left, x) = Str(body, x)
    BY <1>2, <1>4, Zenon DEF Str
  <1>6. ~Spare(platform, body, ignore, "platform") /\ (Entity(platform) => ~Spare(platform, body, ignore, "unique_id"))
    BY IdentityIsNotSpare, Zenon
  <1>7. "platform" # "availability" /\ "unique_id" # "availability"
    OBVIOUS
  <1>8. /\ EncodedPlatform(s) = platform /\ Platform(s) = platform
        /\ Entity(platform) => EncodedID(s) = EncodedID(c) /\ UniqueID(s) = EncodedID(c)
    <2>1. Str(left, "platform") = platform
      BY <1>5, <1>6, <1>7, Zenon DEF EncodedPlatform
    <2>2. Entity(platform) => Str(left, "unique_id") = EncodedID(c)
      BY <1>5, <1>6, <1>7, Zenon DEF EncodedID
    <2>3. QED
      BY <1>3, <2>1, <2>2, Zenon
  <1>9. \E k \in DOMAIN left : k # "platform"
    <2>1. CASE Entity(platform)
      <3>1. "unique_id" \in DOMAIN body
        BY <2>1, Zenon DEF Live, Sound, Entity, EncodedID, Str
      <3>2. "unique_id" \in DOMAIN left
        BY <1>4, <1>6, <2>1, <3>1, Zenon
      <3>3. "unique_id" # "platform"
        OBVIOUS
      <3>4. QED
        BY <3>2, <3>3, Zenon
    <2>2. CASE ~Entity(platform)
      <3>1. platform \in Catalog.supported
        BY DEF Live, Sound
      <3>2. PICK k \in DOMAIN body : k # "platform" /\ ~Spare(platform, body, ignore, k)
        BY <2>2, <3>1, RequiredIsNotSpare, Zenon
      <3>3. QED
        BY <1>4, <3>2, Zenon
    <2>3. QED
      BY <2>1, <2>2
  <1>10. ~Removal(s)
    BY <1>3, <1>9, Zenon DEF Removal, IsRemoval
  <1>11. Sound(s)
    <2>1. platform # "" /\ platform \in Catalog.supported /\ (EncodedID(c) # "" \/ ~Entity(platform))
      BY DEF Live, Sound, Entity
    <2>2. QED
      BY <1>3, <1>8, <2>1, Zenon DEF Sound, Entity
  <1>12. QED
    BY <1>8, <1>10, <1>11, Zenon DEF Stripped, Live

-----------------------------------------------------------------------------
(* The findings of one component, by how far its inspection gets.          *)

Refused(f) == f.severity = "error"

\* The findings of a component, by how far its inspection gets.
LEMMA ComponentFindingsAre ==
  ASSUME NEW b, NEW key, NEW ignore, NEW c, c = b.components[key]
  PROVE  /\ Sound(c) /\ Removal(c) => ComponentFindings(b, key, ignore) = {}
         /\ Live(c) => ComponentFindings(b, key, ignore) = BodyFindings(b, key, Encoded(c), ignore)
         /\ ~Sound(c) => \E kind, keys : ComponentFindings(b, key, ignore) = DocError(key, kind, keys)
  <1>. DEFINE S == ComponentFindings(b, key, ignore)
  <1>1. CASE c.nonFinite # {}
    <2>1. S = DocError(key, "non_finite", c.nonFinite)
      BY <1>1, Zenon DEF ComponentFindings
    <2>2. ~Sound(c)
      BY <1>1, Zenon DEF Sound, Live
    <2>3. QED
      BY <2>1, <2>2, Zenon DEF Live
  <1>2. CASE c.nonFinite = {} /\ ~c.encodable
    <2>1. S = DocError(key, "unencodable", {})
      BY <1>2, Zenon DEF ComponentFindings
    <2>2. ~Sound(c)
      BY <1>2, Zenon DEF Sound, Live
    <2>3. QED
      BY <2>1, <2>2, Zenon DEF Live
  <1>3. CASE c.nonFinite = {} /\ c.encodable
    <2>1. S = IF EncodedPlatform(c) = "" THEN DocError(key, "platform_missing", {"platform"})
              ELSE IF EncodedPlatform(c) \notin Catalog.supported
                   THEN DocError(key, "platform_unsupported", {"platform"})
              ELSE IF Removal(c) THEN {}
              ELSE IF EncodedID(c) = "" /\ EncodedPlatform(c) \notin NonEntityPlatforms
                   THEN DocError(key, "unique_id_missing", {"unique_id"})
              ELSE BodyFindings(b, key, Encoded(c), ignore)
      BY <1>3, Zenon DEF ComponentFindings, EncodedPlatform, EncodedID, Removal
    <2>2. CASE EncodedPlatform(c) = "" \/ EncodedPlatform(c) \notin Catalog.supported
      BY <2>1, <2>2, Zenon DEF Sound, Live
    <2>3. CASE ~(EncodedPlatform(c) = "" \/ EncodedPlatform(c) \notin Catalog.supported)
      <3>1. CASE Removal(c)
        BY <1>3, <2>1, <2>3, <3>1, Zenon DEF Sound, Live
      <3>2. CASE ~Removal(c) /\ EncodedID(c) = "" /\ EncodedPlatform(c) \notin NonEntityPlatforms
        BY <1>3, <2>1, <2>3, <3>2, Zenon DEF Sound, Live
      <3>3. CASE ~Removal(c) /\ ~(EncodedID(c) = "" /\ EncodedPlatform(c) \notin NonEntityPlatforms)
        BY <1>3, <2>1, <2>3, <3>3, Zenon DEF Sound, Live
      <3>4. QED
        BY <3>1, <3>2, <3>3, Zenon
    <2>4. QED
      BY <2>2, <2>3, Zenon
  <1>4. QED
    BY <1>1, <1>2, <1>3

LEMMA EncodedPlatformIs ==
  ASSUME NEW c, EncodedPlatform(c) # ""
  PROVE  Encoded(c).platform = EncodedPlatform(c)
  BY DEF EncodedPlatform, Str

LEMMA SoundFindings ==
  ASSUME NEW b, NEW key, NEW ignore, NEW c, c = b.components[key], Sound(c),
         NEW f \in ComponentFindings(b, key, ignore)
  PROVE  Live(c) /\ Minor(f, key, EncodedPlatform(c), Encoded(c), ignore)
  <1>1. Live(c) /\ f \in BodyFindings(b, key, Encoded(c), ignore)
    <2>1. ~Removal(c)
      BY ComponentFindingsAre
    <2>2. QED
      BY <2>1, ComponentFindingsAre, Zenon DEF Live
  <1>2. Encoded(c).platform = EncodedPlatform(c)
    BY EncodedPlatformIs, Zenon DEF Sound
  <1>3. QED
    BY <1>1, <1>2, BodyIsMinor, Zenon DEF Live

LEMMA UnsoundFindings ==
  ASSUME NEW b, NEW key, NEW ignore, NEW c, c = b.components[key], ~Sound(c)
  PROVE  /\ \A f \in ComponentFindings(b, key, ignore) : f.component = key
         /\ \E f \in ComponentFindings(b, key, ignore) : Refused(f)
  <1>1. PICK kind, keys : ComponentFindings(b, key, ignore) = DocError(key, kind, keys)
    BY ComponentFindingsAre, Zenon
  <1>2. \A f \in DocError(key, kind, keys) : f.component = key /\ Refused(f)
    BY DocErrorIs DEF Refused
  <1>3. \E f \in DocError(key, kind, keys) : TRUE
    BY DocErrorIs
  <1>4. QED
    BY <1>1, <1>2, <1>3, Zenon

LEMMA FindingIsOwn ==
  ASSUME NEW b, NEW key, NEW ignore, NEW f \in ComponentFindings(b, key, ignore)
  PROVE  f.component = key
  <1>1. PICK c : c = b.components[key]
    OBVIOUS
  <1>2. CASE Sound(c)
    <2>1. Minor(f, key, EncodedPlatform(c), Encoded(c), ignore)
      BY <1>1, <1>2, SoundFindings, Zenon
    <2>2. QED
      BY <2>1, Zenon DEF Minor, Own
  <1>3. CASE ~Sound(c)
    BY <1>1, <1>3, UnsoundFindings, Zenon
  <1>4. QED
    BY <1>2, <1>3

\* A component that no entity comes of is refused without the keys it requires.
LEMMA RequiredOrRefused ==
  ASSUME NamingCatalog, NEW b, NEW key, NEW ignore, NEW c, c = b.components[key], Live(c),
         ~Entity(EncodedPlatform(c)), MissingKeys(EncodedPlatform(c), Encoded(c)) # {}
  PROVE  \E f \in ComponentFindings(b, key, ignore) : Refused(f)
  <1>. DEFINE platform == EncodedPlatform(c)
  <1>1. Encoded(c).platform = platform /\ platform \in Catalog.supported
    BY EncodedPlatformIs, Zenon DEF Live, Sound
  <1>2. platform \in DOMAIN Catalog.schema
    BY <1>1, Zenon DEF NamingCatalog, Entity
  <1>3. PICK k \in MissingKeys(platform, Encoded(c)) : TRUE
    OBVIOUS
  <1>4. PICK f : f \in CompError(key, "required_key", {k}) /\ Refused(f)
    BY CompErrorIs DEF Refused
  <1>5. f \in RequiredKeyFindings(key, platform, Encoded(c))
    BY <1>3, <1>4 DEF RequiredKeyFindings
  <1>6. f \in When(platform \in DOMAIN Catalog.schema, KeyFindings(key, platform, Encoded(c), ignore))
    BY <1>2, <1>5 DEF KeyFindings, When
  <1>7. f \in BodyFindings(b, key, Encoded(c), ignore)
    BY <1>1, <1>6, Zenon DEF BodyFindings
  <1>8. f \in ComponentFindings(b, key, ignore)
    BY <1>7, ComponentFindingsAre, Zenon DEF Live
  <1>9. QED
    BY <1>4, <1>8

-----------------------------------------------------------------------------
(* The findings of a document, and what containment makes of it.           *)

LEMMA DocumentFindingIs ==
  ASSUME NEW b, NEW f \in DocumentFindings(b)
  PROVE  f.component = ""
  <1>1. /\ \A kind, keys : \A g \in DocError("", kind, keys) : g.component = ""
        /\ \A kind, severity, keys : Finding("document", "", kind, severity, keys, FALSE).component = ""
    BY DEF DocError, Finding
  <1>2. \E c, kind, keys : \/ f \in When(c, DocError("", kind, keys))
                           \/ \E severity : f \in When(c, {Finding("document", "", kind, severity, keys, FALSE)})
    BY Zenon DEF DocumentFindings
  <1>3. \/ \E kind, keys : f \in DocError("", kind, keys)
        \/ \E kind, severity, keys : f \in {Finding("document", "", kind, severity, keys, FALSE)}
    BY <1>2, WhenIs, Zenon
  <1>4. QED
    BY <1>1, <1>3, Zenon

LEMMA InspectIs ==
  ASSUME NEW b, NEW ignore, NEW f
  PROVE  f \in Inspect(b, ignore) <=>
           f \in DocumentFindings(b) \/ \E k \in DOMAIN b.components : f \in ComponentFindings(b, k, ignore)
  BY DEF Inspect

\* What is said of a component is what its own inspection says.
LEMMA FindingsOf ==
  ASSUME NEW b, NEW ignore, NEW k \in DOMAIN b.components, k # "", NEW f
  PROVE  f \in Inspect(b, ignore) /\ f.component = k <=> f \in ComponentFindings(b, k, ignore)
  <1>1. ASSUME f \in Inspect(b, ignore), f.component = k PROVE f \in ComponentFindings(b, k, ignore)
    <2>1. f \notin DocumentFindings(b)
      BY <1>1, DocumentFindingIs
    <2>2. PICK j \in DOMAIN b.components : f \in ComponentFindings(b, j, ignore)
      BY <1>1, <2>1, InspectIs, Zenon
    <2>3. j = k
      BY <1>1, <2>2, FindingIsOwn
    <2>4. QED
      BY <2>2, <2>3
  <1>2. ASSUME f \in ComponentFindings(b, k, ignore) PROVE f \in Inspect(b, ignore) /\ f.component = k
    BY <1>2, InspectIs, FindingIsOwn
  <1>3. QED
    BY <1>1, <1>2, Zenon

Failing(b, ignore) == FailingComponents(Inspect(b, ignore)) \cap DOMAIN b.components

LEMMA FailingIs ==
  ASSUME NEW b, NEW ignore, NEW k \in DOMAIN b.components, k # ""
  PROVE  k \in Failing(b, ignore) <=> \E f \in ComponentFindings(b, k, ignore) : Refused(f)
  <1>1. k \in Failing(b, ignore) <=> \E f \in Inspect(b, ignore) : Refused(f) /\ f.component = k
    BY DEF Failing, FailingComponents, Errors, Refused
  <1>2. QED
    BY <1>1, FindingsOf, Zenon

\* The fields of a document, which the changes below touch some of.
IsDocument(b) ==
  b = [nodeID |-> b.nodeID, origin |-> b.origin, identified |-> b.identified,
       components |-> b.components, tombstones |-> b.tombstones, withheld |-> b.withheld]

\* What stays of a component that containment keeps.
Keeps(s, c) == s = c \/ (Live(c) /\ Stripped(s, c))

MinorOf(b, ignore, k) == {f \in ForComponent(Inspect(b, ignore), k) : f.strippable}

LEMMA KeptIsSound ==
  ASSUME NamingCatalog, NEW b, NEW ignore, NEW k \in DOMAIN b.components, k # "", k \notin Failing(b, ignore)
  PROVE  /\ Sound(b.components[k])
         /\ MinorOf(b, ignore, k) # {} =>
              Live(b.components[k]) /\ Stripped(StripComponent(b.components[k], MinorOf(b, ignore, k)), b.components[k])
  <1>1. PICK c : c = b.components[k]
    OBVIOUS
  <1>2. PICK fs : fs = MinorOf(b, ignore, k)
    OBVIOUS
  <1>3. ~ \E f \in ComponentFindings(b, k, ignore) : Refused(f)
    BY FailingIs, Zenon
  <1>4. Sound(c)
    BY <1>1, <1>3, UnsoundFindings, Zenon
  <1>5. \A f \in fs : f \in ComponentFindings(b, k, ignore) /\ f.strippable
    <2>1. SUFFICES ASSUME NEW f \in fs PROVE f \in ComponentFindings(b, k, ignore) /\ f.strippable
      OBVIOUS
    <2>2. f \in Inspect(b, ignore) /\ f.component = k /\ f.strippable
      BY <1>2, <2>1 DEF MinorOf, ForComponent
    <2>3. QED
      BY <2>2, FindingsOf, Zenon
  <1>6. ASSUME fs # {} PROVE Live(c) /\ Stripped(StripComponent(c, fs), c)
    <2>1. PICK f \in fs : TRUE
      BY <1>6
    <2>2. Live(c)
      BY <1>1, <1>4, <1>5, <2>1, SoundFindings, Zenon
    <2>3. Sparing(fs, c, ignore)
      <3>1. \A g \in fs : Minor(g, k, EncodedPlatform(c), Encoded(c), ignore) /\ g.strippable
        BY <1>1, <1>4, <1>5, SoundFindings, Zenon
      <3>2. QED
        BY <3>1, Zenon DEF Sparing, Minor
    <2>4. ~Entity(EncodedPlatform(c)) => MissingKeys(EncodedPlatform(c), Encoded(c)) = {}
      BY <1>1, <1>3, <2>2, RequiredOrRefused, Zenon
    <2>5. PICK s : s = StripComponent(c, fs)
      OBVIOUS
    <2>6. Stripped(s, c)
      BY <2>2, <2>3, <2>4, <2>5, StripIs, Zenon
    <2>7. QED
      BY <2>2, <2>5, <2>6
  <1>7. QED
    BY <1>1, <1>2, <1>4, <1>6, Zenon

\* The document after containment, and what it took out of it.
WithoutFailing(d, b) ==
  /\ IsDocument(d)
  /\ d.nodeID = b.nodeID /\ d.identified = b.identified /\ d.tombstones = b.tombstones
  /\ DOMAIN d.components \subseteq DOMAIN b.components
  /\ DOMAIN d.withheld = (DOMAIN b.components \ DOMAIN d.components) \cup DOMAIN b.withheld
  /\ \A k \in DOMAIN d.components : Sound(b.components[k]) /\ Keeps(d.components[k], b.components[k])
  /\ \A k \in DOMAIN b.components : Sound(b.components[k]) /\ Removal(b.components[k]) => k \in DOMAIN d.components
  /\ \A k \in DOMAIN b.components \ DOMAIN d.components : d.withheld[k] = b.components[k]
  /\ \A k \in DOMAIN b.withheld \ (DOMAIN b.components \ DOMAIN d.components) : d.withheld[k] = b.withheld[k]

LEMMA ContainIs ==
  ASSUME NamingCatalog, NEW b, IsDocument(b), "" \notin DOMAIN b.components, NEW ignore, NEW strip,
         NEW d, d = Contain(b, ignore, strip)
  PROVE  WithoutFailing(d, b)
  <1>1. PICK failing : failing = Failing(b, ignore)
    OBVIOUS
  <1>2. PICK now : now = [k \in DOMAIN b.components \ failing |->
                            IF strip /\ MinorOf(b, ignore, k) # {}
                            THEN StripComponent(b.components[k], MinorOf(b, ignore, k))
                            ELSE b.components[k]]
    OBVIOUS
  <1>3. PICK out : out = Over(Restrict(b.components, failing), b.withheld)
    OBVIOUS
  <1>4. d = [b EXCEPT !.components = now, !.withheld = out]
    BY <1>1, <1>2, <1>3 DEF Contain, Failing, MinorOf
  <1>5. /\ IsDocument(d)
        /\ d.nodeID = b.nodeID /\ d.identified = b.identified /\ d.tombstones = b.tombstones
        /\ d.components = now /\ d.withheld = out
    BY <1>4 DEF IsDocument
  <1>6. failing \subseteq DOMAIN b.components
    BY <1>1 DEF Failing
  <1>7. DOMAIN now = DOMAIN b.components \ failing
    BY <1>2
  <1>8. \A k \in DOMAIN now : Sound(b.components[k]) /\ Keeps(now[k], b.components[k])
    <2>1. SUFFICES ASSUME NEW k \in DOMAIN now PROVE Sound(b.components[k]) /\ Keeps(now[k], b.components[k])
      OBVIOUS
    <2>2. k \in DOMAIN b.components /\ k # "" /\ k \notin Failing(b, ignore)
      BY <1>1, <1>7, <2>1
    <2>3. now[k] = IF strip /\ MinorOf(b, ignore, k) # {}
                   THEN StripComponent(b.components[k], MinorOf(b, ignore, k)) ELSE b.components[k]
      BY <1>2, <1>7, <2>1
    <2>4. QED
      BY <2>2, <2>3, KeptIsSound, Zenon DEF Keeps
  <1>9. /\ DOMAIN out = failing \cup DOMAIN b.withheld
        /\ \A k \in failing : out[k] = b.components[k]
        /\ \A k \in DOMAIN b.withheld \ failing : out[k] = b.withheld[k]
    <2>1. DOMAIN Restrict(b.components, failing) = failing
          /\ \A k \in failing : Restrict(b.components, failing)[k] = b.components[k]
      BY RestrictIs
    <2>2. PICK r, w : r = Restrict(b.components, failing) /\ w = b.withheld
      OBVIOUS
    <2>3. /\ DOMAIN Over(r, w) = DOMAIN r \cup DOMAIN w
          /\ \A x \in DOMAIN r : Over(r, w)[x] = r[x]
          /\ \A x \in DOMAIN w \ DOMAIN r : Over(r, w)[x] = w[x]
      BY OverIs
    <2>4. QED
      BY <1>3, <2>1, <2>2, <2>3
  <1>10. DOMAIN b.components \ DOMAIN now = failing
    BY <1>6, <1>7
  <1>11. ASSUME NEW k \in DOMAIN b.components, Sound(b.components[k]), Removal(b.components[k])
         PROVE  k \in DOMAIN now
    <2>1. ComponentFindings(b, k, ignore) = {}
      BY <1>11, ComponentFindingsAre, Zenon
    <2>2. k \notin Failing(b, ignore)
      BY <2>1, FailingIs
    <2>3. QED
      BY <1>1, <1>7, <1>11, <2>2
  <1>12. QED
    BY <1>5, <1>7, <1>8, <1>9, <1>10, <1>11, Zenon DEF WithoutFailing

-----------------------------------------------------------------------------
(* The documents publishing takes, and the registry Home Assistant makes of them. *)

\* The device can be told from others, and its document's topic is one Home Assistant takes.
Addressed(b) == b.nodeID \in Catalog.nodeIDs /\ b.identified

LEMMA DocErrorRefuses ==
  ASSUME NEW key, NEW kind, NEW keys
  PROVE  \E f \in DocError(key, kind, keys) : Refused(f)
  <1>1. \A f \in DocError(key, kind, keys) : Refused(f)
    BY DocErrorIs DEF Refused
  <1>2. \E f \in DocError(key, kind, keys) : TRUE
    BY DocErrorIs
  <1>3. QED
    BY <1>1, <1>2

LEMMA PublishableIsAddressed ==
  ASSUME NEW b, NEW ignore, NEW d, Publishable(d, Inspect(b, ignore))
  PROVE  Addressed(b)
  <1>1. \A f \in DocumentFindings(b) : ~Refused(f)
    <2>1. \A f \in Inspect(b, ignore) : f.component = "" => ~Refused(f)
      BY DEF Publishable, DocumentErrors, Errors, Refused
    <2>2. QED
      BY <2>1, DocumentFindingIs, InspectIs, Zenon
  <1>2. \A kind, keys : \E f \in DocError("", kind, keys) : Refused(f)
    BY DocErrorRefuses, Zenon
  <1>3. ASSUME b.nodeID \notin Catalog.nodeIDs PROVE FALSE
    <2>1. PICK f : f \in DocError("", "node_id", {}) /\ Refused(f)
      BY <1>2, Zenon
    <2>2. f \in DocumentFindings(b)
      BY <1>3, <2>1, WhenIs, Zenon DEF DocumentFindings
    <2>3. QED
      BY <1>1, <2>1, <2>2
  <1>4. ASSUME ~b.identified PROVE FALSE
    <2>1. PICK f : f \in DocError("", "device_identity", {"device.identifiers", "device.connections"}) /\ Refused(f)
      BY <1>2, Zenon
    <2>2. f \in DocumentFindings(b)
      BY <1>4, <2>1, WhenIs, Zenon DEF DocumentFindings
    <2>3. QED
      BY <1>1, <2>1, <2>2
  <1>5. QED
    BY <1>3, <1>4, Zenon DEF Addressed

\* A document that Home Assistant would take, each component for itself.
Accepted(b) == Addressed(b) /\ \A k \in DOMAIN b.components : Sound(b.components[k])

LEMMA AddressedIsFine ==
  ASSUME NEW b, Addressed(b), NEW f \in DocumentFindings(b)
  PROVE  ~Refused(f)
  <1>1. PICK e, w : e = "error" /\ w = "warning" /\ e # w
    OBVIOUS
  <1>2. \/ f \in {Finding("document", "", "origin", "warning", {<<"origin.name">>}, FALSE)}
        \/ f \in {Finding("document", "", "no_components", "warning", {<<"components">>}, FALSE)}
    <2>1. b.nodeID \in Catalog.nodeIDs /\ b.identified
      BY Zenon DEF Addressed
    <2>2. \/ b.nodeID \notin Catalog.nodeIDs
          \/ f \in When(b.origin = "", {Finding("document", "", "origin", "warning", {<<"origin.name">>}, FALSE)})
          \/ f \in When(~b.identified, DocError("", "device_identity", {"device.identifiers", "device.connections"}))
          \/ f \in When(DOMAIN b.components = {},
                      {Finding("document", "", "no_components", "warning", {<<"components">>}, FALSE)})
      BY WhenIs, Zenon DEF DocumentFindings
    <2>3. QED
      BY <2>1, <2>2, WhenIs, Zenon
  <1>3. \A kind, keys : Finding("document", "", kind, w, keys, FALSE).severity = w
    BY DEF Finding
  <1>4. f.severity = w
    BY <1>1, <1>2, <1>3, Zenon
  <1>5. QED
    BY <1>1, <1>4, Zenon DEF Refused

LEMMA AcceptedHasNoDocumentError ==
  ASSUME NEW b, NEW ignore, Accepted(b), NEW f \in Inspect(b, ignore), Refused(f)
  PROVE  f.scope = "component"
  <1>1. f \notin DocumentFindings(b)
    BY AddressedIsFine DEF Accepted
  <1>2. PICK k \in DOMAIN b.components : f \in ComponentFindings(b, k, ignore)
    BY <1>1, InspectIs, Zenon
  <1>3. PICK c : c = b.components[k]
    OBVIOUS
  <1>4. Minor(f, k, EncodedPlatform(c), Encoded(c), ignore)
    BY <1>2, <1>3, SoundFindings, Zenon DEF Accepted
  <1>5. QED
    BY <1>4, Zenon DEF Minor, Own

RemovalsOf(b) == {k \in DOMAIN b.components : Removal(b.components[k])}

\* A document that is taken changes the registry component by component.
LEMMA ProcessedIs ==
  ASSUME Accepted(bundle), "" \notin DOMAIN bundle.components, NEW entities
  PROVE  /\ Processed(entities, bundle) \subseteq
              (entities \cup DOMAIN bundle.components) \ RemovalsOf(bundle)
         /\ entities \ RemovalsOf(bundle) \subseteq Processed(entities, bundle)
  <1>. DEFINE fs == Inspect(bundle, setting.ignore)
  <1>1. ~ \E f \in Errors(fs) : f.scope = "document"
    <2>1. \A f \in Errors(fs) : f \in Inspect(bundle, setting.ignore) /\ Refused(f)
      BY DEF Errors, Refused
    <2>2. \A f \in Errors(fs) : f.scope = "component"
      BY <2>1, AcceptedHasNoDocumentError, Zenon
    <2>3. "component" # "document"
      OBVIOUS
    <2>4. QED
      BY <2>2, <2>3, Zenon
  <1>2. Processed(entities, bundle) =
          (entities \ RemovalsOf(bundle)) \cup (DOMAIN bundle.components \ (RemovalsOf(bundle) \cup FailingComponents(fs)))
    BY <1>1, Zenon DEF Processed, RemovalsOf, Removal
  <1>3. QED
    BY <1>2

-----------------------------------------------------------------------------
(* The step that removes what is gone.                                     *)

LEMMA PlatformOnly ==
  ASSUME NEW c, NEW platform, c.typed = [platform |-> platform]
  PROVE  Platform(c) = platform /\ UniqueID(c) = ""
  BY DEF Platform, UniqueID, Str

LEMMA TombstoneNames ==
  ASSUME NEW platform
  PROVE  Platform(Tombstone(platform)) = platform /\ UniqueID(Tombstone(platform)) = ""
  <1>1. Tombstone(platform).typed = [platform |-> platform]
    BY TypedOnlyIs DEF Tombstone
  <1>2. QED
    BY <1>1, PlatformOnly

\* d is b with the keys T removed, each as the component it was.
Removed(d, b, T, was) ==
  /\ IsDocument(d)
  /\ d.nodeID = b.nodeID /\ d.identified = b.identified /\ d.withheld = b.withheld
  /\ DOMAIN d.components = T \cup DOMAIN b.components
  /\ \A k \in T : d.components[k] = Tombstone(Platform(was[k]))
  /\ \A k \in DOMAIN b.components \ T : d.components[k] = b.components[k]
  /\ DOMAIN d.tombstones = T \cup DOMAIN b.tombstones
  /\ \A k \in T : d.tombstones[k] = RememberTombstone(b.tombstones, k, was[k])

LEMMA RemoveEachIs ==
  ASSUME NEW b, IsDocument(b), NEW was, NEW keys, NEW T, T = {k \in keys : Removable(b, k, was[k])},
         NEW d, d = RemoveEach(b, was, keys)
  PROVE  Removed(d, b, T, was)
  <1>1. PICK gone : gone = [k \in T |-> Tombstone(Platform(was[k]))]
    OBVIOUS
  <1>2. PICK told : told = [k \in T |-> RememberTombstone(b.tombstones, k, was[k])]
    OBVIOUS
  <1>3. PICK now, after : now = Over(gone, b.components) /\ after = Over(told, b.tombstones)
    OBVIOUS
  <1>4. d = [b EXCEPT !.components = now, !.tombstones = after]
    BY <1>1, <1>2, <1>3 DEF RemoveEach
  <1>5. /\ IsDocument(d)
        /\ d.nodeID = b.nodeID /\ d.identified = b.identified /\ d.withheld = b.withheld
        /\ d.components = now /\ d.tombstones = after
    BY <1>4 DEF IsDocument
  <1>6. PICK c, t : c = b.components /\ t = b.tombstones
    OBVIOUS
  <1>7. /\ DOMAIN Over(gone, c) = DOMAIN gone \cup DOMAIN c
        /\ \A k \in DOMAIN gone : Over(gone, c)[k] = gone[k]
        /\ \A k \in DOMAIN c \ DOMAIN gone : Over(gone, c)[k] = c[k]
        /\ DOMAIN Over(told, t) = DOMAIN told \cup DOMAIN t
        /\ \A k \in DOMAIN told : Over(told, t)[k] = told[k]
    BY OverIs
  <1>8. /\ DOMAIN gone = T /\ DOMAIN told = T
        /\ \A k \in T : /\ gone[k] = Tombstone(Platform(was[k]))
                        /\ told[k] = RememberTombstone(b.tombstones, k, was[k])
    BY <1>1, <1>2
  <1>9. /\ DOMAIN d.components = T \cup DOMAIN b.components
        /\ \A k \in T : d.components[k] = Tombstone(Platform(was[k]))
        /\ \A k \in DOMAIN b.components \ T : d.components[k] = b.components[k]
    BY <1>3, <1>5, <1>6, <1>7, <1>8
  <1>10. /\ DOMAIN d.tombstones = T \cup DOMAIN b.tombstones
         /\ \A k \in T : d.tombstones[k] = RememberTombstone(b.tombstones, k, was[k])
    BY <1>3, <1>5, <1>6, <1>7, <1>8
  <1>11. QED
    BY <1>5, <1>9, <1>10, Zenon DEF Removed

\* The keys that a removal deletes: named when last published, and not withheld now.
Leaving == {k \in Gone : Platform(previous[k]) # "" /\ k \notin DOMAIN bundle.withheld}

\* Whichever calls the consumer makes: the tombstones, each remembering what it was.
LEMMA RemovalIs ==
  ASSUME IsDocument(bundle), DOMAIN bundle.tombstones = {}, DOMAIN previous \subseteq Keys,
         NEW d \in Removals(bundle)
  PROVE  /\ IsDocument(d)
         /\ d.nodeID = bundle.nodeID /\ d.identified = bundle.identified /\ d.withheld = bundle.withheld
         /\ DOMAIN d.components = Leaving \cup DOMAIN bundle.components
         /\ \A k \in Leaving : d.components[k] = Tombstone(Platform(previous[k]))
         /\ \A k \in DOMAIN bundle.components : d.components[k] = bundle.components[k]
         /\ DOMAIN d.tombstones = Leaving
         /\ \A k \in Leaving : UniqueID(d.tombstones[k]) = UniqueID(previous[k])
  <1>. DEFINE known(b)  == RemoveComponents(b, previous, Gone)
              stated(b) == RemovePlatforms(b, PlatformOf, Gone)
              stem(b, k) == IF k \in DOMAIN b.components
                            THEN [b.components[k] EXCEPT !.typed = Over([platform |-> PlatformOf[k]], @)]
                            ELSE Tombstone(PlatformOf[k])
              was(b) == [k \in Gone |-> stem(b, k)]
              Tombs(b) == /\ IsDocument(b)
                          /\ b.nodeID = bundle.nodeID /\ b.identified = bundle.identified
                          /\ b.withheld = bundle.withheld
                          /\ DOMAIN b.components = Leaving \cup DOMAIN bundle.components
                          /\ \A k \in Leaving : b.components[k] = Tombstone(Platform(previous[k]))
                          /\ \A k \in DOMAIN bundle.components : b.components[k] = bundle.components[k]
                          /\ DOMAIN b.tombstones = Leaving
  <1>1. d = known(bundle) \/ d = known(stated(bundle)) \/ d = stated(known(bundle))
    BY DEF Removals
  <1>2. Gone \subseteq DOMAIN previous /\ Gone \cap DOMAIN bundle.components = {} /\ Leaving \subseteq Gone
    BY DEF Gone, Leaving
  <1>3. /\ Gone \cap DOMAIN previous = Gone /\ Gone \cap DOMAIN PlatformOf = Gone
        /\ \A k \in Gone : PlatformOf[k] = Platform(previous[k])
    BY <1>2 DEF PlatformOf
  <1>4. \A b, c : c = known(b) <=> c = RemoveEach(b, previous, Gone)
    BY <1>3, Zenon DEF RemoveComponents
  <1>5. \A b, c : c = stated(b) <=> c = RemoveEach(b, was(b), Gone)
    BY <1>3, Zenon DEF RemovePlatforms
  \* Which removal does what: all that matters is the platforms it goes by.
  <1>6. ASSUME NEW b, IsDocument(b), b.withheld = bundle.withheld, NEW w, NEW c, c = RemoveEach(b, w, Gone),
               \A k \in Gone : Platform(w[k]) = Platform(previous[k])
        PROVE  Removed(c, b, Leaving, w)
    <2>1. {k \in Gone : Removable(b, k, w[k])} = Leaving
      BY <1>6 DEF Removable, Leaving
    <2>2. QED
      BY <1>6, <2>1, RemoveEachIs
  <1>7. ASSUME NEW b, b = bundle \/ Tombs(b), NEW w, NEW c, Removed(c, b, Leaving, w),
               \A k \in Gone : Platform(w[k]) = Platform(previous[k])
        PROVE  Tombs(c)
    <2>1. /\ b.nodeID = bundle.nodeID /\ b.identified = bundle.identified /\ b.withheld = bundle.withheld
          /\ Leaving \cup DOMAIN b.components = Leaving \cup DOMAIN bundle.components
          /\ \A k \in DOMAIN bundle.components : k \in DOMAIN b.components /\ b.components[k] = bundle.components[k]
          /\ Leaving \cup DOMAIN b.tombstones = Leaving
      BY <1>7
    <2>2. \A k \in Leaving : Platform(w[k]) = Platform(previous[k])
      BY <1>2, <1>7
    <2>3. \A k \in DOMAIN bundle.components : k \notin Leaving
      BY <1>2
    <2>4. /\ IsDocument(c)
          /\ c.nodeID = b.nodeID /\ c.identified = b.identified /\ c.withheld = b.withheld
          /\ DOMAIN c.components = Leaving \cup DOMAIN b.components
          /\ \A k \in Leaving : c.components[k] = Tombstone(Platform(w[k]))
          /\ \A k \in DOMAIN b.components \ Leaving : c.components[k] = b.components[k]
          /\ DOMAIN c.tombstones = Leaving \cup DOMAIN b.tombstones
      BY <1>7 DEF Removed
    <2>5. \A k \in Leaving : c.components[k] = Tombstone(Platform(previous[k]))
      BY <2>2, <2>4
    <2>6. \A k \in DOMAIN bundle.components : c.components[k] = bundle.components[k]
      BY <2>1, <2>3, <2>4
    <2>7. QED
      BY <2>1, <2>4, <2>5, <2>6
  <1>8. PICK k1 : k1 = known(bundle)
    OBVIOUS
  <1>9. Removed(k1, bundle, Leaving, previous)
    <2>1. k1 = RemoveEach(bundle, previous, Gone)
      BY <1>4, <1>8
    <2>2. QED
      BY <1>6, <2>1
  <1>10. Tombs(k1) /\ \A k \in Leaving : UniqueID(k1.tombstones[k]) = UniqueID(previous[k])
    <2>1. Tombs(k1)
      <3>. HIDE DEF Tombs
      <3>1. QED
        BY <1>7, <1>9
    <2>2. \A k \in Leaving : k1.tombstones[k] = previous[k]
      BY <1>9 DEF Removed, RememberTombstone
    <2>3. QED
      BY <2>1, <2>2
  <1>11. PICK s1 : s1 = stated(bundle)
    OBVIOUS
  <1>12. \A k \in Gone : was(bundle)[k] = Tombstone(Platform(previous[k]))
    BY <1>2, <1>3
  <1>13. \A k \in Gone : Platform(was(bundle)[k]) = Platform(previous[k]) /\ UniqueID(was(bundle)[k]) = ""
    BY <1>12, TombstoneNames
  <1>14. Tombs(s1) /\ \A k \in Leaving : UniqueID(s1.tombstones[k]) = ""
    <2>1. PICK w : w = was(bundle)
      OBVIOUS
    <2>2. \A k \in Gone : Platform(w[k]) = Platform(previous[k]) /\ UniqueID(w[k]) = ""
      BY <1>13, <2>1
    <2>3. s1 = RemoveEach(bundle, w, Gone)
      BY <1>5, <1>11, <2>1
    <2>. HIDE DEF Tombs, was, known, stated
    <2>4. Removed(s1, bundle, Leaving, w)
      BY <1>6, <2>2, <2>3
    <2>5. Tombs(s1)
      BY <1>7, <2>2, <2>4
    <2>6. \A k \in Leaving : s1.tombstones[k] = w[k]
      BY <2>4 DEF Removed, RememberTombstone
    <2>7. QED
      BY <1>2, <2>2, <2>5, <2>6
  <1>15. PICK k2 : k2 = known(s1)
    OBVIOUS
  <1>16. Tombs(k2) /\ \A k \in Leaving : UniqueID(k2.tombstones[k]) = UniqueID(previous[k])
    <2>1. k2 = RemoveEach(s1, previous, Gone)
      BY <1>4, <1>15
    <2>2. IsDocument(s1) /\ s1.withheld = bundle.withheld
      BY <1>14
    <2>3. Removed(k2, s1, Leaving, previous)
      BY <1>6, <2>1, <2>2
    <2>4. Tombs(k2)
      <3>. HIDE DEF Tombs
      <3>1. QED
        BY <1>7, <1>14, <2>3
    <2>5. \A k \in Leaving : k2.tombstones[k] = RememberTombstone(s1.tombstones, k, previous[k])
      BY <2>3 DEF Removed
    <2>6. \A k \in Leaving : k2.tombstones[k] = previous[k]
      BY <1>14, <2>5, Zenon DEF RememberTombstone
    <2>7. QED
      BY <2>4, <2>6
  <1>17. PICK s2 : s2 = stated(k1)
    OBVIOUS
  <1>18. \A k \in Gone : Platform(was(k1)[k]) = Platform(previous[k]) /\ UniqueID(was(k1)[k]) = ""
    <2>1. SUFFICES ASSUME NEW k \in Gone
                   PROVE  Platform(was(k1)[k]) = Platform(previous[k]) /\ UniqueID(was(k1)[k]) = ""
      OBVIOUS
    <2>2. was(k1)[k] = stem(k1, k)
      BY <2>1
    <2>3. CASE k \notin DOMAIN k1.components
      BY <1>3, <2>1, <2>2, <2>3, TombstoneNames
    <2>4. CASE k \in DOMAIN k1.components
      <3>1. k1.components[k] = Tombstone(Platform(previous[k]))
        BY <1>2, <1>10, <2>1, <2>4
      <3>2. PICK p : p = Platform(previous[k]) /\ PlatformOf[k] = p
        BY <1>3, <2>1
      <3>3. was(k1)[k] = [Tombstone(p) EXCEPT !.typed = Over([platform |-> p], @)]
        BY <2>2, <2>4, <3>1, <3>2
      <3>4. was(k1)[k].typed = Over([platform |-> p], [platform |-> p])
        BY <3>3 DEF Tombstone, TypedOnly
      <3>5. Over([platform |-> p], [platform |-> p]) = [platform |-> p]
        BY DEF Over
      <3>6. PICK c : c = was(k1)[k] /\ c.typed = [platform |-> p]
        BY <3>4, <3>5
      <3>7. Platform(c) = p /\ UniqueID(c) = ""
        BY <3>6, PlatformOnly, Zenon
      <3>8. QED
        BY <3>2, <3>6, <3>7, Zenon
    <2>5. QED
      BY <2>3, <2>4
  <1>19. Tombs(s2) /\ \A k \in Leaving : UniqueID(s2.tombstones[k]) = UniqueID(previous[k])
    <2>1. PICK w : w = was(k1)
      OBVIOUS
    <2>2. \A k \in Gone : Platform(w[k]) = Platform(previous[k]) /\ UniqueID(w[k]) = ""
      BY <1>18, <2>1
    <2>3. s2 = RemoveEach(k1, w, Gone)
      BY <1>5, <1>17, <2>1
    <2>4. IsDocument(k1) /\ k1.withheld = bundle.withheld /\ DOMAIN k1.tombstones = Leaving
      BY <1>10
    <2>. HIDE DEF Tombs, was, known, stated
    <2>5. Removed(s2, k1, Leaving, w)
      BY <1>6, <2>2, <2>3, <2>4
    <2>6. Tombs(s2)
      BY <1>7, <1>10, <2>2, <2>5
    <2>7. \A k \in Leaving : s2.tombstones[k] = RememberTombstone(k1.tombstones, k, w[k])
      BY <2>5 DEF Removed
    <2>8. \A k \in Leaving : UniqueID(w[k]) = ""
      BY <1>2, <2>2
    <2>9. \A k \in Leaving : UniqueID(s2.tombstones[k]) = UniqueID(previous[k])
      <3>1. SUFFICES ASSUME NEW k \in Leaving PROVE UniqueID(s2.tombstones[k]) = UniqueID(previous[k])
        OBVIOUS
      <3>2. CASE UniqueID(previous[k]) # ""
        <4>1. s2.tombstones[k] = k1.tombstones[k]
          BY <1>10, <2>4, <2>7, <2>8, <3>1, <3>2, Zenon DEF RememberTombstone
        <4>2. QED
          BY <1>10, <4>1
      <3>3. CASE UniqueID(previous[k]) = ""
        <4>1. s2.tombstones[k] = w[k]
          BY <1>10, <2>7, <3>1, <3>3, Zenon DEF RememberTombstone
        <4>2. QED
          BY <2>8, <3>3, <4>1
      <3>4. QED
        BY <3>2, <3>3
    <2>10. QED
      BY <2>6, <2>9
  <1>20. d = k1 \/ d = k2 \/ d = s2
    BY <1>1, <1>8, <1>11, <1>15, <1>17
  <1>21. QED
    BY <1>10, <1>16, <1>19, <1>20

-----------------------------------------------------------------------------
(* The inductive invariant.                                                *)

\* What an earlier publish declared and the device has no more.
Left == {k \in DOMAIN previous \ Declared : Platform(previous[k]) # ""}

CatalogueInv ==
  /\ catalogue = [k \in Keys |-> catalogue[k]]
  /\ \A k \in Declared : catalogue[k] \in Rendered(k)
MemoryInv ==
  /\ DOMAIN previous \subseteq Keys
  /\ \A k \in DOMAIN previous : Platform(previous[k]) \in Catalog.supported \cup {""}
\* An entity Home Assistant has, the consumer remembers, by a platform; and if the
\* device has it still, that is no removal.
RegistryInv ==
  /\ registry \subseteq DOMAIN previous
  /\ \A k \in registry : Platform(previous[k]) # ""
  /\ \A k \in registry \cap Declared : Platform(catalogue[k]) # "" /\ ~Removal(catalogue[k])
\* Of an entity whose old config is still retained, the consumer remembers what that
\* config is keyed on, and no document that was taken describes it.
LegacyInv ==
  /\ legacy \subseteq UNION {OldTopics(k) : k \in DOMAIN Installed}
  /\ \A k \in DOMAIN Installed : OldTopics(k) \cap legacy # {} =>
       /\ k \in DOMAIN previous /\ k \notin DOMAIN document
       /\ Platform(previous[k]) = Platform(Installed[k])
       /\ UniqueID(previous[k]) = UniqueID(Installed[k])

\* The document in hand: every declared component, published or withheld, as what
\* containment made of it; and once the removals are in, a tombstone for each that left.
HoldsDeclared(b) ==
  /\ IsDocument(b) /\ b.nodeID = Node
  /\ Declared \subseteq DOMAIN b.components \cup DOMAIN b.withheld
  /\ DOMAIN b.withheld \subseteq Declared \ DOMAIN b.components
  /\ \A k \in DOMAIN b.components \cap Declared : Keeps(b.components[k], catalogue[k])
  /\ \A k \in DOMAIN b.withheld : Keeps(b.withheld[k], catalogue[k])
HoldsTombstones(b, keys) ==
  /\ DOMAIN b.components \ Declared = keys
  /\ DOMAIN b.tombstones = keys
  /\ \A k \in keys : /\ b.components[k] = Tombstone(Platform(previous[k]))
                     /\ UniqueID(b.tombstones[k]) = UniqueID(previous[k])
BundleInv ==
  /\ stage \in {"idle", "rendered", "contained", "removed", "ready", "sending"}
  /\ stage # "idle" => ~settled /\ HoldsDeclared(bundle)
  /\ stage \in {"rendered", "contained"} => HoldsTombstones(bundle, {})
  /\ stage \in {"removed", "ready", "sending"} => HoldsTombstones(bundle, Left)
  /\ stage \in {"contained", "ready", "sending"} => Accepted(bundle)
SendingInv ==
  stage = "sending" =>
    \A k \in DOMAIN Installed \cap DOMAIN bundle.components : OldTopics(k) \cap legacy \subseteq todo

CycleInv == CatalogueInv /\ MemoryInv /\ RegistryInv /\ LegacyInv /\ BundleInv /\ SendingInv /\ GoneLeaves

LEMMA KeepsOn ==
  ASSUME NEW e, NEW d, NEW c, Keeps(d, c), Keeps(e, d)
  PROVE  Keeps(e, c)
  <1>1. CASE e = d \/ d = c
    BY <1>1, Zenon DEF Keeps
  <1>2. CASE Live(c) /\ Stripped(d, c) /\ Stripped(e, d)
    <2>1. /\ Live(e) /\ Platform(e) = EncodedPlatform(e) /\ EncodedPlatform(e) = EncodedPlatform(c)
          /\ Entity(EncodedPlatform(c)) => EncodedID(e) = EncodedID(c) /\ UniqueID(e) = EncodedID(e)
      BY <1>2 DEF Stripped
    <2>2. QED
      BY <1>2, <2>1 DEF Keeps, Stripped
  <1>3. QED
    BY <1>1, <1>2 DEF Keeps

\* What is left of a rendered component is known by the same names.
LEMMA KeepsNames ==
  ASSUME NamedDevice, NEW k \in Keys, NEW c \in Rendered(k), NEW d, Keeps(d, c), Sound(d)
  PROVE  /\ Platform(d) = EncodedPlatform(d) /\ Platform(d) = Platform(c)
         /\ Entity(Platform(c)) => UniqueID(d) = UniqueID(c)
         /\ Removal(d) => Removal(c)
         /\ Platform(d) \in Catalog.supported /\ Platform(d) # ""
  <1>1. Sound(c)
    BY Zenon DEF Keeps, Live
  <1>2. EncodedPlatform(c) \in Catalog.supported /\ EncodedPlatform(c) # ""
    BY <1>1, Zenon DEF Sound
  <1>3. IdentityKey(Encoded(c)) = <<Platform(c), UniqueID(c)>>
    BY <1>2, Zenon DEF NamedDevice, EncodedPlatform
  <1>4. EncodedPlatform(c) = Platform(c) /\ EncodedID(c) = UniqueID(c)
    BY <1>3 DEF IdentityKey, EncodedPlatform, EncodedID
  <1>5. CASE d = c
    BY <1>2, <1>4, <1>5, Zenon
  <1>6. CASE Live(c) /\ Stripped(d, c)
    BY <1>2, <1>4, <1>6, Zenon DEF Stripped, Live
  <1>7. QED
    BY <1>5, <1>6 DEF Keeps

LEMMA KeepsPlatform ==
  ASSUME NamedDevice, NEW k \in Keys, NEW c \in Rendered(k), NEW d, Keeps(d, c)
  PROVE  /\ Platform(d) = Platform(c)
         /\ Entity(Platform(c)) => UniqueID(d) = UniqueID(c)
         /\ Platform(d) \in Catalog.supported \cup {""}
  <1>1. CASE d = c
    BY <1>1, Zenon DEF NamedDevice
  <1>2. CASE Live(c) /\ Stripped(d, c)
    <2>1. Sound(d)
      BY <1>2, Zenon DEF Stripped, Live
    <2>2. QED
      BY <2>1, KeepsNames
  <1>3. QED
    BY <1>1, <1>2 DEF Keeps

LEMMA DeclaredKeys == Declared \subseteq Keys
  BY DEF Declared

LEMMA InitInv ==
  ASSUME NamingCatalog, NamedDevice, Init
  PROVE  CycleInv
  <1>1. CatalogueInv
    <2>1. catalogue = [k \in Keys |-> catalogue[k]]
      BY Zenon DEF Init, NamedDevice
    <2>2. \A k \in Declared : catalogue[k] \in Rendered(k)
      BY DEF Init, Declared, Rendered
    <2>3. QED
      BY <2>1, <2>2 DEF CatalogueInv
  <1>2. /\ DOMAIN Installed \subseteq Keys
        /\ \A k \in DOMAIN Installed : Platform(Installed[k]) \in Catalog.supported
        /\ \A k \in DOMAIN Installed : Platform(Installed[k]) # ""
    BY Zenon DEF NamedDevice, NamingCatalog
  <1>3. MemoryInv
    BY <1>2 DEF MemoryInv, Init
  <1>4. RegistryInv
    <2>1. ASSUME NEW k \in DOMAIN Installed \cap Declared
          PROVE  Platform(catalogue[k]) # "" /\ ~Removal(catalogue[k])
      <3>1. k \in Keys /\ catalogue[k] \in Rendered(k)
        BY <1>1, <2>1, DeclaredKeys DEF CatalogueInv
      <3>2. QED
        BY <2>1, <3>1, Zenon DEF NamedDevice, Removal
    <2>2. QED
      BY <1>2, <2>1 DEF RegistryInv, Init
  <1>5. LegacyInv
    <2>1. document = NoKeys /\ previous = Installed /\ legacy = UNION {OldTopics(k) : k \in DOMAIN Installed}
      BY DEF Init
    <2>2. DOMAIN document = {}
      BY <2>1, NoKeysIs
    <2>3. QED
      BY <2>1, <2>2 DEF LegacyInv
  <1>6. BundleInv /\ SendingInv /\ GoneLeaves
    BY DEF Init, BundleInv, SendingInv, GoneLeaves
  <1>7. QED
    BY <1>1, <1>3, <1>4, <1>5, <1>6 DEF CycleInv

\* What only the cycle itself moves leaves the rest of the invariant alone.
LEMMA Steady ==
  ASSUME CatalogueInv, MemoryInv, RegistryInv, LegacyInv,
         UNCHANGED <<setting, catalogue, previous, legacy, document, registry>>
  PROVE  /\ CatalogueInv' /\ MemoryInv' /\ RegistryInv' /\ LegacyInv'
         /\ Declared' = Declared /\ Left' = Left /\ \A k : OldTopics(k)' = OldTopics(k)
  <1>1. Declared' = Declared
    BY DEF Declared
  <1>2. Left' = Left
    BY <1>1 DEF Left
  <1>3. \A k : OldTopics(k)' = OldTopics(k)
    BY DEF OldTopics
  <1>4. CatalogueInv'
    BY <1>1 DEF CatalogueInv
  <1>5. MemoryInv'
    BY DEF MemoryInv
  <1>6. RegistryInv'
    BY <1>1 DEF RegistryInv
  <1>7. LegacyInv'
    <2>1. (UNION {OldTopics(k) : k \in DOMAIN Installed})' = UNION {OldTopics(k) : k \in DOMAIN Installed}
      BY DEF OldTopics
    <2>2. QED
      BY <1>3, <2>1 DEF LegacyInv
  <1>8. QED
    BY <1>1, <1>2, <1>3, <1>4, <1>5, <1>6, <1>7

-----------------------------------------------------------------------------
(* The steps up to containment keep it.                                    *)

LEMMA ChangeKeeps ==
  ASSUME NamedDevice, CycleInv, NEW k \in Keys, Change(k)
  PROVE  CycleInv'
  <1>1. PICK c \in Offers[k] : catalogue' = [catalogue EXCEPT ![k] = c]
    BY DEF Change
  <1>2. /\ stage = "idle" /\ stage' = "idle" /\ settled' = FALSE
        /\ UNCHANGED <<setting, previous, legacy, document, registry>>
    BY DEF Change
  <1>3. /\ catalogue = [j \in Keys |-> catalogue[j]]
        /\ \A j \in Declared : catalogue[j] \in Rendered(j)
    BY DEF CycleInv, CatalogueInv
  <1>4. /\ catalogue' = [j \in Keys |-> catalogue'[j]]
        /\ catalogue'[k] = c /\ \A j \in Keys \ {k} : catalogue'[j] = catalogue[j]
    <2>1. PICK old : old = catalogue
      OBVIOUS
    <2>2. PICK new : new = catalogue'
      OBVIOUS
    <2>3. old = [j \in Keys |-> old[j]] /\ new = [old EXCEPT ![k] = c]
      BY <1>1, <1>3, <2>1, <2>2
    <2>4. /\ new = [j \in Keys |-> new[j]] /\ new[k] = c
          /\ \A j \in Keys \ {k} : new[j] = old[j]
      BY <2>3
    <2>5. QED
      BY <2>1, <2>2, <2>4
  <1>5. c # Absent => c \in Rendered(k)
    BY DEF Rendered
  <1>6. \A j \in Declared' : j \in Keys /\ catalogue'[j] \in Rendered(j) /\ (j # k => j \in Declared)
    BY <1>3, <1>4, <1>5 DEF Declared
  <1>7. CatalogueInv'
    BY <1>4, <1>6 DEF CatalogueInv
  <1>8. MemoryInv'
    BY <1>2 DEF CycleInv, MemoryInv
  <1>9. RegistryInv'
    <2>1. ASSUME NEW j \in registry \cap Declared'
          PROVE  Platform(catalogue'[j]) # "" /\ ~Removal(catalogue'[j])
      <3>1. CASE j = k
        <4>1. c # Absent
          BY <1>4, <2>1, <3>1 DEF Declared
        <4>2. QED
          BY <1>4, <1>5, <3>1, <4>1, Zenon DEF NamedDevice, Removal
      <3>2. CASE j # k
        <4>1. j \in registry \cap Declared /\ catalogue'[j] = catalogue[j]
          BY <1>4, <1>6, <2>1, <3>2
        <4>2. QED
          BY <4>1 DEF CycleInv, RegistryInv
      <3>3. QED
        BY <3>1, <3>2
    <2>2. QED
      BY <1>2, <2>1 DEF CycleInv, RegistryInv
  <1>10. LegacyInv'
    <2>1. \A j : OldTopics(j)' = OldTopics(j)
      BY <1>2 DEF OldTopics
    <2>2. (UNION {OldTopics(j) : j \in DOMAIN Installed})' = UNION {OldTopics(j) : j \in DOMAIN Installed}
      BY <1>2 DEF OldTopics
    <2>3. QED
      BY <1>2, <2>1, <2>2 DEF CycleInv, LegacyInv
  <1>11. BundleInv' /\ SendingInv' /\ GoneLeaves'
    BY <1>2 DEF BundleInv, SendingInv, GoneLeaves
  <1>12. QED
    BY <1>7, <1>8, <1>9, <1>10, <1>11 DEF CycleInv

LEMMA RenderKeeps ==
  ASSUME CycleInv, Render
  PROVE  CycleInv'
  <1>1. /\ stage' = "rendered" /\ ~settled /\ UNCHANGED <<setting, catalogue, previous, legacy, document, registry, settled>>
        /\ bundle' = Document(Node, "origin", setting.identified, Restrict(catalogue, Declared))
    BY DEF Render
  <1>2. /\ CatalogueInv' /\ MemoryInv' /\ RegistryInv' /\ LegacyInv'
        /\ Declared' = Declared /\ Left' = Left
    BY <1>1, Steady DEF CycleInv
  <1>3. PICK b : b = bundle'
    OBVIOUS
  <1>4. /\ IsDocument(b) /\ b.nodeID = Node
        /\ b.components = Restrict(catalogue, Declared) /\ b.tombstones = NoKeys /\ b.withheld = NoKeys
    BY <1>1, <1>3 DEF Document, IsDocument
  <1>5. /\ DOMAIN b.components = Declared /\ \A k \in Declared : b.components[k] = catalogue[k]
        /\ DOMAIN b.tombstones = {} /\ DOMAIN b.withheld = {}
    BY <1>4, RestrictIs, NoKeysIs
  <1>6. HoldsDeclared(b) /\ HoldsTombstones(b, {})
    BY <1>4, <1>5 DEF HoldsDeclared, HoldsTombstones, Keeps
  <1>7. HoldsDeclared(bundle)' /\ HoldsTombstones(bundle, {})'
    BY <1>1, <1>2, <1>3, <1>6 DEF HoldsDeclared, HoldsTombstones
  <1>8. BundleInv' /\ SendingInv' /\ GoneLeaves'
    BY <1>1, <1>7 DEF BundleInv, SendingInv, GoneLeaves
  <1>9. QED
    BY <1>2, <1>8 DEF CycleInv

\* The cycle ends with nothing published.
LEMMA EndKeeps ==
  ASSUME CycleInv, stage # "idle", EndCycle,
         UNCHANGED <<setting, catalogue, previous, legacy, document, registry, settled>>
  PROVE  CycleInv'
  <1>1. stage' = "idle" /\ ~settled
    BY DEF EndCycle, CycleInv, BundleInv
  <1>2. CatalogueInv' /\ MemoryInv' /\ RegistryInv' /\ LegacyInv'
    BY Steady DEF CycleInv
  <1>3. BundleInv' /\ SendingInv' /\ GoneLeaves'
    BY <1>1 DEF BundleInv, SendingInv, GoneLeaves
  <1>4. QED
    BY <1>2, <1>3 DEF CycleInv

\* Containment loses no component and no tombstone.
LEMMA WithoutFailingHolds ==
  ASSUME NEW b, NEW d, NEW T, HoldsDeclared(b), HoldsTombstones(b, T), WithoutFailing(d, b),
         \A k \in T : Sound(b.components[k]) /\ Removal(b.components[k])
  PROVE  /\ HoldsDeclared(d) /\ HoldsTombstones(d, T)
         /\ \A k \in DOMAIN d.components : Sound(d.components[k])
  <1>1. /\ IsDocument(d) /\ d.nodeID = Node /\ d.tombstones = b.tombstones
        /\ DOMAIN d.components \subseteq DOMAIN b.components
        /\ DOMAIN d.withheld = (DOMAIN b.components \ DOMAIN d.components) \cup DOMAIN b.withheld
    BY DEF WithoutFailing, HoldsDeclared
  <1>2. \A k \in DOMAIN d.components : Sound(b.components[k]) /\ Keeps(d.components[k], b.components[k])
    BY DEF WithoutFailing
  <1>3. T \subseteq DOMAIN d.components /\ DOMAIN b.components \ Declared = T
    <2>1. T \subseteq DOMAIN b.components
      BY DEF HoldsTombstones
    <2>2. QED
      BY <2>1 DEF WithoutFailing, HoldsTombstones
  <1>4. DOMAIN b.components \ DOMAIN d.components \subseteq Declared
    BY <1>3
  <1>5. \A k \in T : d.components[k] = b.components[k]
    BY <1>2, <1>3, Zenon DEF Keeps, Live
  <1>6. HoldsTombstones(d, T)
    BY <1>1, <1>3, <1>5 DEF HoldsTombstones
  <1>7. /\ Declared \subseteq DOMAIN d.components \cup DOMAIN d.withheld
        /\ DOMAIN d.withheld \subseteq Declared \ DOMAIN d.components
    BY <1>1, <1>4 DEF HoldsDeclared
  <1>8. \A k \in DOMAIN d.components \cap Declared : Keeps(d.components[k], catalogue[k])
    <2>1. SUFFICES ASSUME NEW k \in DOMAIN d.components \cap Declared
                   PROVE  Keeps(d.components[k], catalogue[k])
      OBVIOUS
    <2>2. Keeps(b.components[k], catalogue[k]) /\ Keeps(d.components[k], b.components[k])
      BY <1>1, <1>2, <2>1 DEF HoldsDeclared
    <2>3. QED
      BY <2>2, KeepsOn
  <1>9. \A k \in DOMAIN d.withheld : Keeps(d.withheld[k], catalogue[k])
    <2>1. SUFFICES ASSUME NEW k \in DOMAIN d.withheld PROVE Keeps(d.withheld[k], catalogue[k])
      OBVIOUS
    <2>2. CASE k \in DOMAIN b.components \ DOMAIN d.components
      BY <1>4, <2>2 DEF WithoutFailing, HoldsDeclared
    <2>3. CASE k \notin DOMAIN b.components \ DOMAIN d.components
      BY <1>1, <2>1, <2>3 DEF WithoutFailing, HoldsDeclared
    <2>4. QED
      BY <2>2, <2>3
  <1>10. HoldsDeclared(d)
    BY <1>1, <1>7, <1>8, <1>9 DEF HoldsDeclared
  <1>11. \A k \in DOMAIN d.components : Sound(d.components[k])
    BY <1>2, Zenon DEF Keeps, Stripped, Live
  <1>12. QED
    BY <1>6, <1>10, <1>11

\* The tombstones a removal leaves are ones Home Assistant takes.
LEMMA TombstonesAreSound ==
  ASSUME NamingCatalog, MemoryInv, NEW k \in DOMAIN previous, Platform(previous[k]) # ""
  PROVE  /\ Sound(Tombstone(Platform(previous[k]))) /\ Removal(Tombstone(Platform(previous[k])))
         /\ Platform(Tombstone(Platform(previous[k]))) = Platform(previous[k])
         /\ UniqueID(Tombstone(Platform(previous[k]))) = ""
  <1>1. PICK p : p = Platform(previous[k]) /\ p # "" /\ p \in Catalog.supported
    BY DEF MemoryInv
  <1>2. QED
    BY <1>1, TombstoneIs, Zenon

LEMMA BundleKeys ==
  ASSUME NamedDevice, MemoryInv, NEW b, NEW T, HoldsTombstones(b, T), T \subseteq DOMAIN previous
  PROVE  DOMAIN b.components \subseteq Keys /\ "" \notin DOMAIN b.components
  <1>1. DOMAIN b.components \subseteq Keys
    BY DeclaredKeys DEF HoldsTombstones, MemoryInv
  <1>2. "" \notin Keys
    BY DEF NamedDevice
  <1>3. QED
    BY <1>1, <1>2

LEMMA ContainKeeps ==
  ASSUME NamingCatalog, NamedDevice, CycleInv, NEW from, NEW to, ContainFrom(from, to),
         <<from, to>> \in {<<"rendered", "contained">>, <<"removed", "ready">>}
  PROVE  CycleInv'
  <1>1. /\ stage = from /\ from # "idle"
        /\ UNCHANGED <<setting, catalogue, previous, legacy, document, registry, settled>>
    BY DEF ContainFrom
  <1>2. CASE ~Worthwhile(bundle)
    <2>1. EndCycle
      BY <1>2 DEF ContainFrom
    <2>2. QED
      BY <1>1, <2>1, EndKeeps
  <1>3. CASE Worthwhile(bundle)
    <2>1. stage' = to /\ bundle' = Contained(bundle) /\ ~settled
      BY <1>1, <1>3 DEF ContainFrom, CycleInv, BundleInv
    <2>2. PICK b, d, T : /\ b = bundle /\ d = bundle'
                         /\ T = IF from = "rendered" THEN {} ELSE Left
      OBVIOUS
    <2>3. HoldsDeclared(b) /\ HoldsTombstones(b, T)
      BY <1>1, <2>2 DEF CycleInv, BundleInv
    <2>4. T \subseteq Left /\ T \subseteq DOMAIN previous
      BY <2>2 DEF Left
    <2>5. WithoutFailing(d, b)
      <3>1. "" \notin DOMAIN b.components /\ IsDocument(b)
        BY <2>3, <2>4, BundleKeys DEF CycleInv, HoldsDeclared
      <3>2. d = Contain(b, setting.ignore, setting.strip)
        BY <2>1, <2>2 DEF Contained
      <3>3. QED
        BY <3>1, <3>2, ContainIs
    <2>6. \A k \in T : Sound(b.components[k]) /\ Removal(b.components[k])
      <3>1. \A k \in T : b.components[k] = Tombstone(Platform(previous[k]))
        BY <2>3 DEF HoldsTombstones
      <3>2. \A k \in T : k \in DOMAIN previous /\ Platform(previous[k]) # ""
        BY <2>4 DEF Left
      <3>3. QED
        BY <3>1, <3>2, TombstonesAreSound DEF CycleInv
    <2>7. /\ HoldsDeclared(d) /\ HoldsTombstones(d, T)
          /\ \A k \in DOMAIN d.components : Sound(d.components[k])
      BY <2>3, <2>5, <2>6, WithoutFailingHolds
    <2>8. Accepted(d)
      <3>1. Addressed(b)
        BY <1>3, <2>2, PublishableIsAddressed DEF Worthwhile
      <3>2. d.nodeID = b.nodeID /\ d.identified = b.identified
        BY <2>5 DEF WithoutFailing
      <3>3. QED
        BY <2>7, <3>1, <3>2 DEF Addressed, Accepted
    <2>9. /\ CatalogueInv' /\ MemoryInv' /\ RegistryInv' /\ LegacyInv'
          /\ Declared' = Declared /\ Left' = Left
      BY <1>1, Steady DEF CycleInv
    <2>10. HoldsDeclared(bundle)' /\ HoldsTombstones(bundle, T)' /\ Accepted(bundle)'
      <3>1. HoldsDeclared(bundle)'
        BY <1>1, <2>2, <2>7, <2>9 DEF HoldsDeclared
      <3>2. HoldsTombstones(bundle, T)'
        BY <1>1, <2>2, <2>7, <2>9 DEF HoldsTombstones
      <3>3. Accepted(bundle)'
        BY <2>2, <2>8
      <3>4. QED
        BY <3>1, <3>2, <3>3
    <2>11. T = (IF from = "rendered" THEN {} ELSE Left') /\ stage' = to /\ ~settled'
      BY <1>1, <2>1, <2>2, <2>9
    <2>12. BundleInv'
      <3>1. CASE from = "rendered" /\ to = "contained"
        BY <2>10, <2>11, <3>1 DEF BundleInv
      <3>2. CASE from = "removed" /\ to = "ready"
        BY <2>10, <2>11, <3>2 DEF BundleInv, HoldsTombstones
      <3>3. QED
        BY <3>1, <3>2
    <2>13. SendingInv' /\ GoneLeaves'
      BY <2>11 DEF SendingInv, GoneLeaves
    <2>14. QED
      BY <2>9, <2>12, <2>13 DEF CycleInv
  <1>4. QED
    BY <1>2, <1>3

-----------------------------------------------------------------------------
(* So do the removal of what is gone, the migration and the sweep.         *)

LEMMA RemoveKeeps ==
  ASSUME NamingCatalog, NamedDevice, CycleInv, RemoveGone
  PROVE  CycleInv'
  <1>1. /\ stage \in {"rendered", "contained"}
        /\ UNCHANGED <<setting, catalogue, previous, legacy, document, registry, settled>>
        /\ stage' \in IF stage = "contained" THEN {"ready", "removed"} ELSE {"removed"}
    BY DEF RemoveGone
  <1>2. ~settled /\ HoldsDeclared(bundle) /\ HoldsTombstones(bundle, {})
    BY <1>1 DEF CycleInv, BundleInv
  <1>3. PICK d : d = bundle' /\ d \in Removals(bundle)
    BY DEF RemoveGone
  <1>4. DOMAIN bundle.components \subseteq Declared /\ DOMAIN bundle.tombstones = {} /\ IsDocument(bundle)
    BY <1>2 DEF HoldsTombstones, HoldsDeclared
  <1>5. DOMAIN previous \subseteq Keys
    BY DEF CycleInv, MemoryInv
  <1>6. Leaving = Left
    <2>1. /\ Declared \subseteq DOMAIN bundle.components \cup DOMAIN bundle.withheld
          /\ DOMAIN bundle.withheld \subseteq Declared
      BY <1>2 DEF HoldsDeclared
    <2>2. QED
      BY <1>4, <2>1 DEF Leaving, Gone, Left
  <1>7. /\ IsDocument(d)
        /\ d.nodeID = bundle.nodeID /\ d.identified = bundle.identified /\ d.withheld = bundle.withheld
        /\ DOMAIN d.components = Left \cup DOMAIN bundle.components
        /\ \A k \in Left : d.components[k] = Tombstone(Platform(previous[k]))
        /\ \A k \in DOMAIN bundle.components : d.components[k] = bundle.components[k]
        /\ DOMAIN d.tombstones = Left
        /\ \A k \in Left : UniqueID(d.tombstones[k]) = UniqueID(previous[k])
    BY <1>3, <1>4, <1>5, <1>6, RemovalIs
  <1>8. Left \cap Declared = {} /\ \A k \in Left : k \in DOMAIN previous /\ Platform(previous[k]) # ""
    BY DEF Left
  <1>9. HoldsTombstones(d, Left)
    BY <1>4, <1>7, <1>8 DEF HoldsTombstones
  <1>10. HoldsDeclared(d)
    <2>1. /\ d.nodeID = Node
          /\ Declared \subseteq DOMAIN d.components \cup DOMAIN d.withheld
          /\ DOMAIN d.withheld \subseteq Declared \ DOMAIN d.components
      BY <1>2, <1>7, <1>8 DEF HoldsDeclared
    <2>2. \A k \in DOMAIN d.components \cap Declared : Keeps(d.components[k], catalogue[k])
      BY <1>2, <1>7, <1>8 DEF HoldsDeclared
    <2>3. \A k \in DOMAIN d.withheld : Keeps(d.withheld[k], catalogue[k])
      BY <1>2, <1>7 DEF HoldsDeclared
    <2>4. QED
      BY <1>7, <2>1, <2>2, <2>3 DEF HoldsDeclared
  <1>11. ASSUME stage = "contained" PROVE Accepted(d)
    <2>1. Accepted(bundle)
      BY <1>11 DEF CycleInv, BundleInv
    <2>2. \A k \in Left : Sound(d.components[k])
      BY <1>7, <1>8, TombstonesAreSound DEF CycleInv
    <2>3. \A k \in DOMAIN bundle.components : Sound(d.components[k])
      BY <1>7, <2>1 DEF Accepted
    <2>4. QED
      BY <1>7, <2>1, <2>2, <2>3 DEF Accepted, Addressed
  <1>12. /\ CatalogueInv' /\ MemoryInv' /\ RegistryInv' /\ LegacyInv'
         /\ Declared' = Declared /\ Left' = Left
    BY <1>1, Steady DEF CycleInv
  <1>13. HoldsDeclared(bundle)'
    BY <1>1, <1>3, <1>10, <1>12 DEF HoldsDeclared
  <1>14. HoldsTombstones(bundle, Left)'
    BY <1>1, <1>3, <1>9, <1>12 DEF HoldsTombstones
  <1>15. BundleInv'
    <2>1. CASE stage' = "ready"
      <3>1. Accepted(bundle)'
        BY <1>1, <1>3, <1>11, <2>1
      <3>2. QED
        BY <1>1, <1>2, <1>13, <1>14, <2>1, <3>1 DEF BundleInv
    <2>2. CASE stage' = "removed"
      BY <1>1, <1>2, <1>13, <1>14, <2>2 DEF BundleInv
    <2>3. QED
      BY <1>1, <2>1, <2>2
  <1>16. SendingInv' /\ GoneLeaves'
    BY <1>1, <1>2 DEF SendingInv, GoneLeaves
  <1>17. QED
    BY <1>12, <1>15, <1>16 DEF CycleInv

\* Under the key of an installed entity whose old config is still there, the document
\* in hand, published or tombstone, is superseded by that entity's own identity.
LEMMA OldIdentity ==
  ASSUME NamingCatalog, NamedDevice, CycleInv, stage \in {"ready", "sending"},
         NEW k \in DOMAIN Installed \cap DOMAIN bundle.components,
         k \in Declared \/ OldTopics(k) \cap legacy # {}
  PROVE  /\ Platform(bundle.components[k]) # ""
         /\ SupersededEntity(setting.prefix, bundle, k) =
              LegacyEntity(setting.prefix, Platform(Installed[k]), Node, k, UniqueID(Installed[k]))
  <1>1. HoldsDeclared(bundle) /\ HoldsTombstones(bundle, Left) /\ Accepted(bundle)
    BY DEF CycleInv, BundleInv
  <1>2. bundle.nodeID = Node
    BY <1>1 DEF HoldsDeclared
  <1>3. PICK c, own : c = bundle.components[k] /\ own = UniqueID(c)
    OBVIOUS
  <1>4. /\ Platform(Installed[k]) # "" /\ Entity(Platform(Installed[k]))
    BY Zenon DEF NamedDevice, NamingCatalog, Entity
  <1>5. CASE k \in Declared
    <2>1. k \in Keys /\ catalogue[k] \in Rendered(k)
      BY <1>5, DeclaredKeys DEF CycleInv, CatalogueInv
    <2>2. Keeps(c, catalogue[k]) /\ Sound(c)
      BY <1>1, <1>3, <1>5 DEF HoldsDeclared, Accepted
    <2>3. Platform(catalogue[k]) = Platform(Installed[k]) /\ UniqueID(catalogue[k]) = UniqueID(Installed[k])
      BY <2>1, Zenon DEF NamedDevice
    <2>4. Platform(c) = Platform(Installed[k]) /\ own = UniqueID(Installed[k])
      BY <1>3, <1>4, <2>1, <2>2, <2>3, KeepsNames, Zenon
    <2>5. k \notin DOMAIN bundle.tombstones
      BY <1>1, <1>5 DEF HoldsTombstones, Left
    <2>6. SupersededEntity(setting.prefix, bundle, k) = LegacyEntity(setting.prefix, Platform(c), bundle.nodeID, k, own)
      BY <1>3, <2>5, Zenon DEF SupersededEntity
    <2>7. QED
      BY <1>2, <1>3, <1>4, <2>4, <2>6
  <1>6. CASE k \notin Declared
    <2>1. k \in Left
      BY <1>1, <1>6 DEF HoldsTombstones
    <2>2. k \in DOMAIN previous /\ Platform(previous[k]) # ""
      BY <2>1 DEF Left
    <2>3. Platform(previous[k]) = Platform(Installed[k]) /\ UniqueID(previous[k]) = UniqueID(Installed[k])
      BY <1>6 DEF CycleInv, LegacyInv
    <2>4. /\ c = Tombstone(Platform(previous[k])) /\ k \in DOMAIN bundle.tombstones
          /\ UniqueID(bundle.tombstones[k]) = UniqueID(previous[k])
      BY <1>1, <1>3, <2>1 DEF HoldsTombstones
    <2>5. Platform(c) = Platform(previous[k]) /\ own = ""
      BY <1>3, <2>2, <2>4, TombstonesAreSound, Zenon DEF CycleInv
    <2>6. SupersededEntity(setting.prefix, bundle, k)
            = LegacyEntity(setting.prefix, Platform(c), bundle.nodeID, k, UniqueID(bundle.tombstones[k]))
      BY <1>3, <2>4, <2>5, Zenon DEF SupersededEntity
    <2>7. QED
      BY <1>2, <1>3, <1>4, <2>3, <2>4, <2>5, <2>6
  <1>7. QED
    BY <1>5, <1>6

LEMMA OldIsSuperseded ==
  ASSUME NamingCatalog, NamedDevice, CycleInv, stage \in {"ready", "sending"},
         NEW k \in DOMAIN Installed \cap DOMAIN bundle.components,
         k \in Declared \/ OldTopics(k) \cap legacy # {}
  PROVE  OldTopics(k) \subseteq SupersededTopics(setting.prefix, bundle, setting.forms)
  <1>1. LegacyTopics(setting.forms, SupersededEntity(setting.prefix, bundle, k)) = OldTopics(k)
    BY OldIdentity DEF OldTopics
  <1>2. Platform(bundle.components[k]) # ""
    BY OldIdentity
  <1>3. QED
    BY <1>1, <1>2 DEF SupersededTopics

LEMMA BeginKeeps ==
  ASSUME NamingCatalog, NamedDevice, CycleInv, Begin
  PROVE  CycleInv'
  <1>1. /\ stage = "ready" /\ stage' = "sending"
        /\ UNCHANGED <<setting, catalogue, bundle, previous, legacy, document, registry, settled>>
        /\ todo' = IF bundle.components = document THEN {}
                   ELSE SupersededTopics(setting.prefix, bundle, setting.forms) \cap legacy
    BY DEF Begin
  <1>2. /\ CatalogueInv' /\ MemoryInv' /\ RegistryInv' /\ LegacyInv'
        /\ Declared' = Declared /\ Left' = Left /\ \A k : OldTopics(k)' = OldTopics(k)
    BY <1>1, Steady DEF CycleInv
  <1>3. ~settled /\ HoldsDeclared(bundle) /\ HoldsTombstones(bundle, Left) /\ Accepted(bundle)
    BY <1>1 DEF CycleInv, BundleInv
  <1>4. HoldsDeclared(bundle)' /\ HoldsTombstones(bundle, Left)' /\ Accepted(bundle)'
    BY <1>1, <1>2, <1>3 DEF HoldsDeclared, HoldsTombstones
  <1>5. BundleInv' /\ GoneLeaves'
    BY <1>1, <1>3, <1>4 DEF BundleInv, GoneLeaves
  <1>6. ASSUME NEW k \in DOMAIN Installed \cap DOMAIN bundle.components, OldTopics(k) \cap legacy # {}
        PROVE  OldTopics(k) \cap legacy \subseteq todo'
    <2>1. k \notin DOMAIN document
      BY <1>6 DEF CycleInv, LegacyInv
    <2>2. bundle.components # document
      BY <1>6, <2>1
    <2>3. OldTopics(k) \subseteq SupersededTopics(setting.prefix, bundle, setting.forms)
      BY <1>1, <1>6, OldIsSuperseded
    <2>4. QED
      BY <1>1, <2>2, <2>3
  <1>7. SendingInv'
    BY <1>1, <1>2, <1>6 DEF SendingInv
  <1>8. QED
    BY <1>2, <1>5, <1>7 DEF CycleInv

\* Fewer old configs is all that a retraction or a sweep does to the invariant.
LEMMA FewerOld ==
  ASSUME CycleInv, legacy' \subseteq legacy, UNCHANGED <<setting, catalogue, stage, bundle, previous, document, registry, settled>>
  PROVE  /\ CatalogueInv' /\ MemoryInv' /\ RegistryInv' /\ LegacyInv' /\ BundleInv' /\ GoneLeaves'
         /\ \A k : OldTopics(k)' = OldTopics(k)
  <1>1. Declared' = Declared
    BY DEF Declared
  <1>2. Left' = Left
    BY <1>1 DEF Left
  <1>3. \A k : OldTopics(k)' = OldTopics(k)
    BY DEF OldTopics
  <1>4. CatalogueInv' /\ MemoryInv' /\ RegistryInv'
    BY <1>1 DEF CycleInv, CatalogueInv, MemoryInv, RegistryInv
  <1>5. LegacyInv'
    <2>1. (UNION {OldTopics(k) : k \in DOMAIN Installed})' = UNION {OldTopics(k) : k \in DOMAIN Installed}
      BY DEF OldTopics
    <2>2. QED
      BY <1>3, <2>1 DEF CycleInv, LegacyInv
  <1>6. BundleInv'
    BY <1>1, <1>2 DEF CycleInv, BundleInv, HoldsDeclared, HoldsTombstones
  <1>7. GoneLeaves'
    BY <1>1, <1>3 DEF CycleInv, GoneLeaves
  <1>8. QED
    BY <1>3, <1>4, <1>5, <1>6, <1>7

LEMMA SupersedeKeeps ==
  ASSUME CycleInv, NEW t \in todo, Supersede(t)
  PROVE  CycleInv'
  <1>1. /\ legacy' = legacy \ {t} /\ todo' = todo \ {t}
        /\ UNCHANGED <<setting, catalogue, stage, bundle, previous, document, registry, settled>>
    BY DEF Supersede
  <1>2. /\ CatalogueInv' /\ MemoryInv' /\ RegistryInv' /\ LegacyInv' /\ BundleInv' /\ GoneLeaves'
        /\ \A k : OldTopics(k)' = OldTopics(k)
    BY <1>1, FewerOld
  <1>3. SendingInv'
    BY <1>1, <1>2 DEF CycleInv, SendingInv
  <1>4. QED
    BY <1>2, <1>3 DEF CycleInv

LEMMA SweepKeeps ==
  ASSUME CycleInv, Sweep
  PROVE  CycleInv'
  <1>1. /\ legacy' \subseteq legacy /\ stage = "idle"
        /\ UNCHANGED <<setting, catalogue, stage, bundle, previous, document, registry, settled>>
    BY DEF Sweep
  <1>2. CatalogueInv' /\ MemoryInv' /\ RegistryInv' /\ LegacyInv' /\ BundleInv' /\ GoneLeaves'
    BY <1>1, FewerOld
  <1>3. SendingInv'
    BY <1>1 DEF SendingInv
  <1>4. QED
    BY <1>2, <1>3 DEF CycleInv

-----------------------------------------------------------------------------
(* So does the publish: what is gone leaves the registry.                  *)

\* What is remembered of a document that was taken: each component as it was published,
\* or as it was withheld.
LEMMA KeepSetIs ==
  ASSUME NEW b, NEW T, HoldsDeclared(b), HoldsTombstones(b, T), T \cap Declared = {}
  PROVE  /\ DOMAIN KeepSet(b) = DOMAIN b.components \cup DOMAIN b.withheld
         /\ Declared \subseteq DOMAIN KeepSet(b) /\ DOMAIN KeepSet(b) \subseteq Declared \cup T
         /\ \A k \in T : KeepSet(b)[k] = Tombstone(Platform(previous[k]))
         /\ \A k \in Declared : Keeps(KeepSet(b)[k], catalogue[k])
  <1>1. PICK c, w, s : c = b.components /\ w = b.withheld /\ s = KeepSet(b)
    OBVIOUS
  <1>2. /\ DOMAIN s = DOMAIN c \cup DOMAIN w
        /\ \A k \in DOMAIN c : s[k] = c[k]
        /\ \A k \in DOMAIN w \ DOMAIN c : s[k] = w[k]
    <2>1. s = Over(c, w)
      BY <1>1 DEF KeepSet
    <2>2. /\ DOMAIN Over(c, w) = DOMAIN c \cup DOMAIN w
          /\ \A k \in DOMAIN c : Over(c, w)[k] = c[k]
          /\ \A k \in DOMAIN w \ DOMAIN c : Over(c, w)[k] = w[k]
      BY OverIs
    <2>3. QED
      BY <2>1, <2>2
  <1>3. /\ Declared \subseteq DOMAIN c \cup DOMAIN w
        /\ DOMAIN w \subseteq Declared \ DOMAIN c
        /\ \A k \in DOMAIN c \cap Declared : Keeps(c[k], catalogue[k])
        /\ \A k \in DOMAIN w : Keeps(w[k], catalogue[k])
    BY <1>1 DEF HoldsDeclared
  <1>4. /\ DOMAIN c \ Declared = T
        /\ \A k \in T : c[k] = Tombstone(Platform(previous[k]))
    BY <1>1 DEF HoldsTombstones
  <1>5. \A k \in T : s[k] = Tombstone(Platform(previous[k]))
    BY <1>2, <1>4
  <1>6. \A k \in Declared : Keeps(s[k], catalogue[k])
    <2>1. SUFFICES ASSUME NEW k \in Declared PROVE Keeps(s[k], catalogue[k])
      OBVIOUS
    <2>2. CASE k \in DOMAIN c
      BY <1>2, <1>3, <2>1, <2>2
    <2>3. CASE k \in DOMAIN w \ DOMAIN c
      BY <1>2, <1>3, <2>3
    <2>4. QED
      BY <1>3, <2>1, <2>2, <2>3
  <1>7. QED
    BY <1>1, <1>2, <1>3, <1>4, <1>5, <1>6

\* After a publish Home Assistant has only what the device declares, and of that only
\* what names a platform and is no removal.
LEMMA RegisteredIs ==
  ASSUME NamingCatalog, NamedDevice, CycleInv, stage = "sending",
         NEW k \in Processed(registry, bundle)
  PROVE  k \in Declared /\ Platform(catalogue[k]) # "" /\ ~Removal(catalogue[k])
  <1>1. HoldsDeclared(bundle) /\ HoldsTombstones(bundle, Left) /\ Accepted(bundle)
    BY DEF CycleInv, BundleInv
  <1>2. "" \notin DOMAIN bundle.components
    <2>1. Left \subseteq DOMAIN previous
      BY DEF Left
    <2>2. QED
      BY <1>1, <2>1, BundleKeys DEF CycleInv
  <1>3. k \in registry \cup DOMAIN bundle.components /\ k \notin RemovalsOf(bundle)
    BY <1>1, <1>2, ProcessedIs
  <1>4. k \notin Left
    <2>1. SUFFICES ASSUME k \in Left PROVE FALSE
      OBVIOUS
    <2>2. /\ k \in DOMAIN bundle.components
          /\ bundle.components[k] = Tombstone(Platform(previous[k]))
      BY <1>1, <2>1 DEF HoldsTombstones
    <2>3. Removal(bundle.components[k])
      BY <2>1, <2>2, TombstonesAreSound DEF Left, CycleInv
    <2>4. QED
      BY <1>3, <2>2, <2>3 DEF RemovalsOf
  <1>5. k \in Declared
    <2>1. CASE k \in registry
      BY <1>4, <2>1 DEF CycleInv, RegistryInv, Left
    <2>2. CASE k \in DOMAIN bundle.components
      BY <1>1, <1>4, <2>2 DEF HoldsTombstones
    <2>3. QED
      BY <1>3, <2>1, <2>2
  <1>6. CASE k \in DOMAIN bundle.components
    <2>1. PICK c, d : c = catalogue[k] /\ d = bundle.components[k]
      OBVIOUS
    <2>2. Keeps(d, c) /\ Sound(d) /\ ~Removal(d)
      BY <1>1, <1>3, <1>5, <1>6, <2>1 DEF HoldsDeclared, Accepted, RemovalsOf
    <2>3. k \in Keys /\ c \in Rendered(k)
      BY <1>5, <2>1, DeclaredKeys DEF CycleInv, CatalogueInv
    <2>4. Platform(c) # ""
      BY <2>2, <2>3, KeepsNames, Zenon
    <2>5. ~Removal(c)
      BY <2>2, Zenon DEF Keeps, Live
    <2>6. QED
      BY <1>5, <2>1, <2>4, <2>5
  <1>7. CASE k \in registry
    BY <1>5, <1>7 DEF CycleInv, RegistryInv
  <1>8. QED
    BY <1>3, <1>6, <1>7

\* The old configs that outlive a publish belong to what it withheld.
LEMMA OldIsWithheld ==
  ASSUME NamedDevice, NamingCatalog, CycleInv, stage = "sending", todo = {},
         NEW k \in DOMAIN Installed, OldTopics(k) \cap legacy # {}
  PROVE  k \in Declared /\ k \notin DOMAIN bundle.components
  <1>1. k \notin DOMAIN bundle.components
    BY DEF CycleInv, SendingInv
  <1>2. k \in DOMAIN previous /\ Platform(previous[k]) = Platform(Installed[k])
    BY DEF CycleInv, LegacyInv
  <1>3. Platform(Installed[k]) # ""
    BY Zenon DEF NamedDevice, NamingCatalog
  <1>4. DOMAIN bundle.components \ Declared = Left
    BY DEF CycleInv, BundleInv, HoldsTombstones
  <1>5. QED
    BY <1>1, <1>2, <1>3, <1>4 DEF Left

LEMMA PublishKeeps ==
  ASSUME NamingCatalog, NamedDevice, CycleInv, PublishDocument
  PROVE  CycleInv'
  <1>1. /\ stage = "sending" /\ todo = {}
        /\ document' = bundle.components /\ registry' = Processed(registry, bundle)
        /\ previous' = KeepSet(bundle) /\ settled' = TRUE /\ stage' = "idle"
        /\ UNCHANGED <<setting, catalogue, legacy>>
    BY DEF PublishDocument, EndCycle
  <1>2. HoldsDeclared(bundle) /\ HoldsTombstones(bundle, Left) /\ Accepted(bundle)
    BY <1>1 DEF CycleInv, BundleInv
  <1>3. Declared' = Declared /\ \A k : OldTopics(k)' = OldTopics(k)
    BY <1>1 DEF Declared, OldTopics
  <1>4. Left \cap Declared = {} /\ \A k \in Left : k \in DOMAIN previous /\ Platform(previous[k]) # ""
    BY DEF Left
  <1>5. PICK now : now = previous'
    OBVIOUS
  <1>6. /\ Declared \subseteq DOMAIN now /\ DOMAIN now \subseteq Declared \cup Left
        /\ \A k \in Left : now[k] = Tombstone(Platform(previous[k]))
        /\ \A k \in Declared : Keeps(now[k], catalogue[k])
    BY <1>1, <1>2, <1>4, <1>5, KeepSetIs
  <1>7. \A k \in Declared : k \in Keys /\ catalogue[k] \in Rendered(k)
    BY DeclaredKeys DEF CycleInv, CatalogueInv
  <1>8. \A k \in Declared : /\ Platform(now[k]) = Platform(catalogue[k])
                            /\ Entity(Platform(catalogue[k])) => UniqueID(now[k]) = UniqueID(catalogue[k])
                            /\ Platform(now[k]) \in Catalog.supported \cup {""}
    <2>1. SUFFICES ASSUME NEW k \in Declared
                   PROVE  /\ Platform(now[k]) = Platform(catalogue[k])
                          /\ Entity(Platform(catalogue[k])) => UniqueID(now[k]) = UniqueID(catalogue[k])
                          /\ Platform(now[k]) \in Catalog.supported \cup {""}
      OBVIOUS
    <2>2. PICK c, d : c = catalogue[k] /\ d = now[k]
      OBVIOUS
    <2>3. k \in Keys /\ c \in Rendered(k) /\ Keeps(d, c)
      BY <1>6, <1>7, <2>1, <2>2
    <2>4. /\ Platform(d) = Platform(c)
          /\ Entity(Platform(c)) => UniqueID(d) = UniqueID(c)
          /\ Platform(d) \in Catalog.supported \cup {""}
      BY <2>3, KeepsPlatform, Zenon
    <2>5. QED
      BY <2>2, <2>4
  <1>9. CatalogueInv'
    BY <1>1, <1>3 DEF CycleInv, CatalogueInv
  <1>10. MemoryInv'
    <2>1. DOMAIN now \subseteq Keys
      BY <1>4, <1>6, <1>7 DEF CycleInv, MemoryInv
    <2>2. \A k \in Left : Platform(now[k]) \in Catalog.supported \cup {""}
      <3>1. \A k \in Left : Platform(now[k]) = Platform(previous[k])
        BY <1>4, <1>6, TombstonesAreSound DEF CycleInv
      <3>2. QED
        BY <1>4, <3>1 DEF CycleInv, MemoryInv
    <2>3. QED
      BY <1>5, <1>6, <1>8, <2>1, <2>2 DEF MemoryInv
  <1>11. \A k \in registry' : k \in Declared /\ Platform(catalogue[k]) # "" /\ ~Removal(catalogue[k])
    BY <1>1, RegisteredIs
  <1>12. RegistryInv'
    <2>1. \A k \in registry' : k \in DOMAIN now /\ Platform(now[k]) # ""
      BY <1>6, <1>8, <1>11
    <2>2. QED
      BY <1>1, <1>3, <1>5, <1>11, <2>1 DEF RegistryInv
  <1>13. \A k \in DOMAIN Installed : OldTopics(k) \cap legacy # {} =>
           k \in Declared /\ k \notin DOMAIN bundle.components
    BY <1>1, OldIsWithheld
  <1>14. LegacyInv'
    <2>1. legacy' \subseteq (UNION {OldTopics(k) : k \in DOMAIN Installed})'
      <3>1. (UNION {OldTopics(k) : k \in DOMAIN Installed})' = UNION {OldTopics(k) : k \in DOMAIN Installed}
        BY <1>1 DEF OldTopics
      <3>2. QED
        BY <1>1, <3>1 DEF CycleInv, LegacyInv
    <2>2. ASSUME NEW k \in DOMAIN Installed, OldTopics(k)' \cap legacy' # {}
          PROVE  /\ k \in DOMAIN now /\ k \notin DOMAIN document'
                 /\ Platform(now[k]) = Platform(Installed[k])
                 /\ UniqueID(now[k]) = UniqueID(Installed[k])
      <3>1. k \in Declared /\ k \notin DOMAIN document'
        BY <1>1, <1>3, <1>13, <2>2
      <3>2. Platform(catalogue[k]) = Platform(Installed[k]) /\ UniqueID(catalogue[k]) = UniqueID(Installed[k])
        BY <1>7, <3>1, Zenon DEF NamedDevice
      <3>3. Entity(Platform(Installed[k]))
        BY Zenon DEF NamedDevice, Entity
      <3>4. QED
        BY <1>6, <1>8, <3>1, <3>2, <3>3
    <2>3. QED
      BY <1>5, <2>1, <2>2 DEF LegacyInv
  <1>15. GoneLeaves'
    <2>1. registry' \subseteq Declared'
      BY <1>3, <1>11
    <2>2. \A k \in DOMAIN Installed \ Declared' : OldTopics(k)' \cap legacy' = {}
      BY <1>1, <1>3, <1>13
    <2>3. QED
      BY <2>1, <2>2 DEF GoneLeaves
  <1>16. BundleInv' /\ SendingInv'
    BY <1>1 DEF BundleInv, SendingInv
  <1>17. QED
    BY <1>9, <1>10, <1>12, <1>14, <1>15, <1>16 DEF CycleInv

LEMMA StepKeeps ==
  ASSUME NamingCatalog, NamedDevice, CycleInv, [Next]_vars
  PROVE  CycleInv'
  <1>1. ASSUME NEW k \in Keys, Change(k) PROVE CycleInv'
    BY <1>1, ChangeKeeps
  <1>2. CASE Render
    BY <1>2, RenderKeeps
  <1>3. CASE ConsumerContains
    BY <1>3, ContainKeeps DEF ConsumerContains
  <1>4. CASE RemoveGone
    BY <1>4, RemoveKeeps
  <1>5. CASE PublisherContains
    BY <1>5, ContainKeeps DEF PublisherContains
  <1>6. CASE Begin
    BY <1>6, BeginKeeps
  <1>7. ASSUME NEW t \in todo, Supersede(t) PROVE CycleInv'
    BY <1>7, SupersedeKeeps
  <1>8. CASE PublishDocument
    BY <1>8, PublishKeeps
  <1>9. CASE Fail
    <2>1. /\ stage = "sending" /\ EndCycle
          /\ UNCHANGED <<setting, catalogue, previous, legacy, document, registry, settled>>
      BY <1>9 DEF Fail
    <2>2. QED
      BY <2>1, EndKeeps
  <1>10. CASE Sweep
    BY <1>10, SweepKeeps
  <1>11. CASE UNCHANGED vars
    <2>1. /\ UNCHANGED <<setting, catalogue, previous, legacy, document, registry>>
          /\ UNCHANGED <<stage, bundle, todo, settled>>
      BY <1>11 DEF vars
    <2>2. /\ CatalogueInv' /\ MemoryInv' /\ RegistryInv' /\ LegacyInv' /\ BundleInv' /\ GoneLeaves'
          /\ \A k : OldTopics(k)' = OldTopics(k)
      BY <2>1, FewerOld
    <2>3. SendingInv'
      BY <2>1, <2>2 DEF CycleInv, SendingInv
    <2>4. QED
      BY <2>2, <2>3 DEF CycleInv
  <1>12. QED
    BY <1>1, <1>2, <1>3, <1>4, <1>5, <1>6, <1>7, <1>8, <1>9, <1>10, <1>11 DEF Next

\* What holds between the steps of every cycle of a device, whatever its
\* components, their settings, the catalogue and the order of its changes are: the
\* facts about the bundle as it is made (BundleInv), about what is remembered of the
\* last one (MemoryInv), about the registry and about the old topics.
THEOREM CyclesInvariant == NamingCatalog /\ NamedDevice /\ Spec => []CycleInv
  <1>1. SUFFICES ASSUME NamingCatalog, NamedDevice PROVE Spec => []CycleInv
    OBVIOUS
  <1>2. Init => CycleInv
    BY <1>1, InitInv
  <1>3. CycleInv /\ [Next]_vars => CycleInv'
    BY <1>1, StepKeeps
  <1>4. QED
    BY <1>2, <1>3, PTL DEF Spec

\* A component removed from its device is out of Home Assistant's registry once the
\* document has settled, whether it was withheld, contained or published before it
\* went (Bundle.RemoveComponents and KeepSet, bundle.go:426-482).
THEOREM GoneAlwaysLeaves == NamingCatalog /\ NamedDevice /\ Spec => []GoneLeaves
  <1>1. CycleInv => GoneLeaves
    BY DEF CycleInv
  <1>2. QED
    BY <1>1, CyclesInvariant, PTL

-----------------------------------------------------------------------------
(* Every topic of an older release parses.                                 *)

\* What follows a prefix, taken off it again.
Follows(q, p, t) == IsStrictPrefix(p, t) /\ Last(t) = q[Len(q)] /\ SubSeq(t, Len(p) + 1, Len(t)) = q

LEMMA AfterPrefix ==
  ASSUME NEW P, NEW Q, NEW p \in Seq(P), NEW q \in Seq(Q), Len(q) > 0, NEW t, t = p \o q
  PROVE  Follows(q, p, t)
  <1>. DEFINE S == P \cup Q
  <1>0. p \in Seq(S) /\ q \in Seq(S)
    BY SeqMonotonic
  <1>. HIDE DEF S
  <1>2. /\ t \in Seq(S) /\ Len(t) = Len(p) + Len(q)
        /\ \A i \in 1..Len(p) : t[i] = p[i]
        /\ \A i \in 1..Len(q) : t[Len(p) + i] = q[i]
    BY <1>0
  <1>3. Len(p) \in Nat /\ Len(q) \in Nat /\ Len(t) \in Nat
    BY <1>0, <1>2
  <1>4. SubSeq(t, 1, Len(p)) = SubSeq(p, 1, Len(p))
    BY <1>0, <1>2, <1>3
  <1>5. IsStrictPrefix(p, t)
    BY <1>0, <1>2, <1>3, <1>4 DEF IsStrictPrefix, IsPrefix
  <1>6. t[Len(t)] = q[Len(q)]
    BY <1>2, <1>3
  <1>7. SubSeq(t, Len(p) + 1, Len(t)) = q
    <2>1. PICK m, n : m = Len(p) + 1 /\ n = Len(t)
      OBVIOUS
    <2>2. /\ SubSeq(t, m, n) \in Seq(S)
          /\ Len(SubSeq(t, m, n)) = IF m <= n THEN n - m + 1 ELSE 0
          /\ \A i \in 1..(n - m + 1) : SubSeq(t, m, n)[i] = t[m + i - 1]
      <3>1. \A i \in m..n : t[i] \in S
        BY <1>0, <1>2, <1>3, <2>1
      <3>2. QED
        BY <1>3, <2>1, <3>1, SubSeqProperties
    <2>3. Len(SubSeq(t, m, n)) = Len(q) /\ n - m + 1 = Len(q)
      BY <1>2, <1>3, <2>1, <2>2
    <2>4. \A i \in 1..Len(q) : SubSeq(t, m, n)[i] = q[i]
      BY <1>2, <1>3, <2>1, <2>2, <2>3
    <2>5. SubSeq(t, m, n) = q
      BY <1>0, <2>2, <2>3, <2>4, SeqEqual
    <2>6. QED
      BY <2>1, <2>5
  <1>8. QED
    BY <1>5, <1>6, <1>7 DEF Last, Follows

LEMMA PrefixIs ==
  ASSUME NamedTopics, setting \in Settings
  PROVE  TopicPrefix(setting.prefix) \in Seq(STRING)
  <1>1. PICK p : p = setting.prefix /\ p \in Seq(STRING) /\ DefaultPrefix \in Seq(STRING)
    BY DEF NamedTopics
  <1>2. Front(p) \in Seq(STRING)
    <2>1. Len(p) \in Nat /\ \A i \in 1..(Len(p) - 1) : p[i] \in STRING
      BY <1>1
    <2>2. SubSeq(p, 1, Len(p) - 1) \in Seq(STRING)
      BY <2>1, SubSeqProperties
    <2>3. QED
      BY <2>2 DEF Front
  <1>3. TopicPrefix(p) \in {DefaultPrefix, Front(p), p}
    BY DEF TopicPrefix
  <1>4. QED
    BY <1>1, <1>2, <1>3

\* A topic under the configured prefix, by what follows it.
Named(x)   == x # ""
Full(q, n) == \A i \in 1..n : q[i] # ""
Parsed(q)  ==
  CASE Len(q) = 4 ->
         When(Full(q, 3), {ConfigTopic(q[1], q[2], q[3], FALSE)})
    [] Len(q) = 3 /\ q[1] = BundleSegment ->
         When(Full(q, 2), {ConfigTopic("", q[2], "", TRUE)})
    [] Len(q) = 3 /\ q[1] # BundleSegment ->
         When(Full(q, 2), {ConfigTopic(q[1], "", q[2], FALSE)})
    [] OTHER -> {}
LEMMA ParseIs ==
  ASSUME NEW prefix, NEW t, NEW q, Follows(q, TopicPrefix(prefix), t), q[Len(q)] = "config"
  PROVE  ParseConfigTopic(prefix, t) = Parsed(q)
  BY DEF ParseConfigTopic, Full, Follows, Parsed

LEMMA ParsedThree ==
  ASSUME NEW q, Full(q, 2), Len(q) = 3
  PROVE  Parsed(q) = IF q[1] = BundleSegment THEN {ConfigTopic("", q[2], "", TRUE)}
                     ELSE {ConfigTopic(q[1], "", q[2], FALSE)}
  <1>1. CASE q[1] = BundleSegment
    BY <1>1 DEF Parsed, When
  <1>2. CASE q[1] # BundleSegment
    BY <1>2 DEF Parsed, When
  <1>3. QED
    BY <1>1, <1>2

LEMMA ParsedFour ==
  ASSUME NEW q, Full(q, 3), Len(q) = 4
  PROVE  Parsed(q) = {ConfigTopic(q[1], q[2], q[3], FALSE)}
  BY DEF Parsed, When

LEMMA ThreeFollow ==
  ASSUME NEW S, NEW p \in Seq(S), NEW a, NEW b, NEW last
  PROVE  Follows(<<a, b, last>>, p, p \o <<a, b, last>>)
  <1>1. PICK q, T, t : q = <<a, b, last>> /\ T = {a, b, last} /\ t = p \o q
    OBVIOUS
  <1>2. q \in Seq(T) /\ Len(q) > 0
    BY <1>1
  <1>3. Follows(q, p, t)
    BY <1>1, <1>2, AfterPrefix
  <1>4. QED
    BY <1>1, <1>3

LEMMA FourFollow ==
  ASSUME NEW S, NEW p \in Seq(S), NEW a, NEW b, NEW c, NEW last
  PROVE  Follows(<<a, b, c, last>>, p, p \o <<a, b, c, last>>)
  <1>1. PICK q, T, t : q = <<a, b, c, last>> /\ T = {a, b, c, last} /\ t = p \o q
    OBVIOUS
  <1>2. q \in Seq(T) /\ Len(q) > 0
    BY <1>1
  <1>3. Follows(q, p, t)
    BY <1>1, <1>2, AfterPrefix
  <1>4. QED
    BY <1>1, <1>3

LEMMA FullIs ==
  ASSUME NEW q, NEW n \in 2..3, Named(q[1]), Named(q[2]), n = 3 => Named(q[3])
  PROVE  Full(q, n)
  <1>1. \A i \in 1..n : Named(q[i])
    <2>1. \A i \in 1..n : i = 1 \/ i = 2 \/ (i = 3 /\ n = 3)
      OBVIOUS
    <2>2. QED
      BY <2>1, Zenon
  <1>2. QED
    BY <1>1, Zenon DEF Full, Named

LEMMA ThreeLevels ==
  ASSUME NamedTopics, setting \in Settings, NEW a, NEW b, Named(a), Named(b)
  PROVE  ParseConfigTopic(setting.prefix, TopicPrefix(setting.prefix) \o <<a, b, "config">>)
           = IF a = BundleSegment THEN {ConfigTopic("", b, "", TRUE)} ELSE {ConfigTopic(a, "", b, FALSE)}
  <1>1. PICK t, q, last : /\ q = <<a, b, last>> /\ t = TopicPrefix(setting.prefix) \o <<a, b, last>>
                          /\ last = "config"
    OBVIOUS
  <1>2. Len(q) = 3 /\ q[1] = a /\ q[2] = b /\ q[3] = last
    BY <1>1
  <1>3. q[Len(q)] = "config" /\ Full(q, 2)
    <2>1. Named(q[1]) /\ Named(q[2])
      BY <1>2, Zenon
    <2>2. 2 \in 2..3 /\ 2 # 3
      OBVIOUS
    <2>3. QED
      BY <1>1, <1>2, <2>1, <2>2, FullIs, Zenon
  <1>4. Follows(q, TopicPrefix(setting.prefix), t)
    BY <1>1, PrefixIs, ThreeFollow, Zenon
  <1>5. ParseConfigTopic(setting.prefix, t) =
          IF q[1] = BundleSegment THEN {ConfigTopic("", q[2], "", TRUE)}
          ELSE {ConfigTopic(q[1], "", q[2], FALSE)}
    <2>1. ParseConfigTopic(setting.prefix, t) = Parsed(q)
      BY <1>3, <1>4, ParseIs
    <2>2. QED
      BY <1>2, <1>3, <2>1, ParsedThree, Zenon
  <1>6. QED
    BY <1>1, <1>2, <1>5

LEMMA FourLevels ==
  ASSUME NamedTopics, setting \in Settings, NEW a, NEW b, NEW c, Named(a), Named(b), Named(c)
  PROVE  ParseConfigTopic(setting.prefix, TopicPrefix(setting.prefix) \o <<a, b, c, "config">>)
           = {ConfigTopic(a, b, c, FALSE)}
  <1>1. PICK t, q, last : /\ q = <<a, b, c, last>> /\ t = TopicPrefix(setting.prefix) \o <<a, b, c, last>>
                          /\ last = "config"
    OBVIOUS
  <1>2. Len(q) = 4 /\ q[1] = a /\ q[2] = b /\ q[3] = c /\ q[4] = last
    BY <1>1
  <1>3. q[Len(q)] = "config" /\ Full(q, 3)
    <2>1. Named(q[1]) /\ Named(q[2]) /\ Named(q[3])
      BY <1>2, Zenon
    <2>2. 3 \in 2..3
      OBVIOUS
    <2>3. QED
      BY <1>1, <1>2, <2>1, <2>2, FullIs, Zenon
  <1>4. Follows(q, TopicPrefix(setting.prefix), t)
    BY <1>1, PrefixIs, FourFollow, Zenon
  <1>5. ParseConfigTopic(setting.prefix, t) = {ConfigTopic(q[1], q[2], q[3], FALSE)}
    <2>1. ParseConfigTopic(setting.prefix, t) = Parsed(q)
      BY <1>3, <1>4, ParseIs
    <2>2. QED
      BY <1>2, <1>3, <2>1, ParsedFour, Zenon
  <1>6. QED
    BY <1>1, <1>2, <1>5

\* Whatever form it was published in, an installed entity's config is parsed as its own.
LEMMA OldTopicParses ==
  ASSUME NamedDevice, NamedTopics, setting \in Settings, NEW k \in DOMAIN Installed, NEW t \in OldTopics(k)
  PROVE  \E node \in {"", Node}, object \in {k, UniqueID(Installed[k])} :
           ParseConfigTopic(setting.prefix, t)
             = {ConfigTopic(Platform(Installed[k]), node, object, FALSE)}
  <1>1. PICK p, uid, e : /\ p = Platform(Installed[k]) /\ uid = UniqueID(Installed[k])
                         /\ e = LegacyEntity(setting.prefix, p, Node, k, uid)
    OBVIOUS
  <1>2. p # BundleSegment
    BY <1>1, Zenon DEF NamedDevice, NamedTopics
  <1>3. /\ e.prefix = setting.prefix /\ e.platform = p /\ e.nodeID = Node
        /\ e.objectID = k /\ e.uniqueID = uid
    BY <1>1 DEF LegacyEntity
  <1>4. PICK form \in Forms(setting.forms) : t \in LegacyTopic(form, e)
    BY <1>1 DEF OldTopics, LegacyTopics
  <1>5. form \in {"nodeID", "uniqueID", "objectID"}
    BY <1>4 DEF Forms, NamedTopics
  <1>6. \/ t \in LegacyTopicWithNodeID(e) \/ t \in LegacyTopicByUniqueID(e)
        \/ t \in LegacyTopicByObjectID(e)
    BY <1>4, <1>5 DEF LegacyTopic
  <1>7. CASE t \in LegacyTopicWithNodeID(e)
    <2>1. /\ p # "" /\ Node # "" /\ k # ""
          /\ t = TopicPrefix(setting.prefix) \o <<p, Node, k, "config">>
      BY <1>3, <1>7 DEF LegacyTopicWithNodeID, When, EntityConfigTopic
    <2>2. ParseConfigTopic(setting.prefix, t) = {ConfigTopic(p, Node, k, FALSE)}
      BY <2>1, FourLevels, Zenon DEF Named
    <2>3. QED
      BY <1>1, <2>2
  <1>8. CASE t \in LegacyTopicByUniqueID(e)
    <2>1. p # "" /\ uid # "" /\ t = TopicPrefix(setting.prefix) \o <<p, uid, "config">>
      BY <1>3, <1>8 DEF LegacyTopicByUniqueID, When
    <2>2. ParseConfigTopic(setting.prefix, t) = {ConfigTopic(p, "", uid, FALSE)}
      BY <1>2, <2>1, ThreeLevels DEF Named
    <2>3. QED
      BY <1>1, <2>2
  <1>9. CASE t \in LegacyTopicByObjectID(e)
    <2>1. p # "" /\ k # "" /\ t = TopicPrefix(setting.prefix) \o <<p, k, "config">>
      BY <1>3, <1>9 DEF LegacyTopicByObjectID, When
    <2>2. ParseConfigTopic(setting.prefix, t) = {ConfigTopic(p, "", k, FALSE)}
      BY <1>2, <2>1, ThreeLevels DEF Named
    <2>3. QED
      BY <1>1, <2>2
  <1>10. QED
    BY <1>6, <1>7, <1>8, <1>9

LEMMA OldParse ==
  ASSUME NamedDevice, NamedTopics, setting \in Settings, LegacyInv
  PROVE  LeftoversParse
  <1>1. ParseConfigTopic(setting.prefix, BundleConfigTopic(setting.prefix, Node))
          = {ConfigTopic("", Node, "", TRUE)}
    <2>1. BundleSegment # "" /\ Node # ""
      BY DEF BundleSegment, NamedTopics
    <2>2. ParseConfigTopic(setting.prefix, TopicPrefix(setting.prefix) \o <<BundleSegment, Node, "config">>)
            = {ConfigTopic("", Node, "", TRUE)}
      BY <2>1, ThreeLevels DEF Named
    <2>3. QED
      BY <2>2 DEF BundleConfigTopic
  <1>2. \A t \in legacy : \E k \in DOMAIN Installed : t \in OldTopics(k)
    BY DEF LegacyInv
  <1>3. QED
    BY <1>1, <1>2, OldTopicParses DEF LeftoversParse

\* The settings are fixed for a life.
LEMMA SettingIsFixed == Spec => [](setting \in Settings)
  <1>1. Init => setting \in Settings
    BY DEF Init
  <1>2. setting \in Settings /\ [Next]_vars => (setting \in Settings)'
    <2>1. [Next]_vars => setting' = setting
      BY DEF Next, vars, Change, Render, ConsumerContains, PublisherContains, ContainFrom, RemoveGone,
             Begin, Supersede, PublishDocument, Fail, Sweep
    <2>2. QED
      BY <2>1
  <1>3. QED
    BY <1>1, <1>2, PTL DEF Spec

\* Whatever old topic a device has left is one the sweep can attribute: it parses to
\* the node, the key or the unique id the device has (ParseConfigTopic, topic.go:59).
THEOREM LeftoversAlwaysParse == NamingCatalog /\ NamedDevice /\ NamedTopics /\ Spec => []LeftoversParse
  <1>1. SUFFICES ASSUME NamingCatalog, NamedDevice, NamedTopics PROVE Spec => []LeftoversParse
    OBVIOUS
  <1>2. CycleInv /\ setting \in Settings => LeftoversParse
    BY <1>1, OldParse DEF CycleInv
  <1>3. QED
    BY <1>1, <1>2, CyclesInvariant, SettingIsFixed, PTL

-----------------------------------------------------------------------------
(* Two entities never share an old topic.                                  *)

\* A topic tells what follows its prefix.
LEMMA SameThree ==
  ASSUME NEW S, NEW p \in Seq(S), NEW a, NEW b, NEW c, NEW d, NEW last,
         p \o <<a, b, last>> = p \o <<c, d, last>>
  PROVE  a = c /\ b = d
  <1>1. PICK q, r, t : q = <<a, b, last>> /\ r = <<c, d, last>> /\ t = p \o <<a, b, last>> /\ t = p \o <<c, d, last>>
    OBVIOUS
  <1>2. Follows(q, p, t) /\ Follows(r, p, t)
    BY <1>1, ThreeFollow, Zenon
  <1>3. q = r
    BY <1>2 DEF Follows
  <1>4. q[1] = a /\ q[2] = b /\ r[1] = c /\ r[2] = d
    BY <1>1
  <1>5. QED
    BY <1>3, <1>4

LEMMA SameFour ==
  ASSUME NEW S, NEW p \in Seq(S), NEW a, NEW b, NEW c, NEW d, NEW e, NEW f, NEW last,
         p \o <<a, b, e, last>> = p \o <<c, d, f, last>>
  PROVE  e = f
  <1>1. PICK q, r, t : q = <<a, b, e, last>> /\ r = <<c, d, f, last>> /\ t = p \o <<a, b, e, last>> /\ t = p \o <<c, d, f, last>>
    OBVIOUS
  <1>2. Follows(q, p, t) /\ Follows(r, p, t)
    BY <1>1, FourFollow, Zenon
  <1>3. q = r
    BY <1>2 DEF Follows
  <1>4. q[3] = e /\ r[3] = f
    BY <1>1
  <1>5. QED
    BY <1>3, <1>4

LEMMA ThreeIsNotFour ==
  ASSUME NEW S, NEW p \in Seq(S), NEW a, NEW b, NEW c, NEW d, NEW e, NEW last,
         p \o <<a, b, last>> = p \o <<c, d, e, last>>
  PROVE  FALSE
  <1>1. PICK q, r, t : q = <<a, b, last>> /\ r = <<c, d, e, last>> /\ t = p \o <<a, b, last>> /\ t = p \o <<c, d, e, last>>
    OBVIOUS
  <1>2. Follows(q, p, t) /\ Follows(r, p, t)
    BY <1>1, ThreeFollow, FourFollow, Zenon
  <1>3. q = r
    BY <1>2 DEF Follows
  <1>4. Len(q) = 3 /\ Len(r) = 4
    BY <1>1
  <1>5. QED
    BY <1>3, <1>4

ByNode(e, t)   == t = TopicPrefix(e.prefix) \o <<e.platform, e.nodeID, e.objectID, "config">>
ByID(e, t)     == e.uniqueID # "" /\ t = TopicPrefix(e.prefix) \o <<e.platform, e.uniqueID, "config">>
ByObject(e, t) == t = TopicPrefix(e.prefix) \o <<e.platform, e.objectID, "config">>

LEMMA TopicsOf ==
  ASSUME NamedTopics, setting \in Settings, NEW e, NEW t \in LegacyTopics(setting.forms, e)
  PROVE  \/ ByNode(e, t)
         \/ ByID(e, t) /\ "uniqueID" \in setting.forms
         \/ ByObject(e, t) /\ "objectID" \in setting.forms
  <1>1. PICK form \in Forms(setting.forms) : t \in LegacyTopic(form, e)
    BY DEF LegacyTopics
  <1>2. form \in {"nodeID", "uniqueID", "objectID"} /\ (form # "nodeID" => form \in setting.forms)
    BY <1>1 DEF Forms, NamedTopics
  <1>3. CASE form = "nodeID"
    BY <1>1, <1>3 DEF LegacyTopic, LegacyTopicWithNodeID, EntityConfigTopic, When, ByNode
  <1>4. CASE form = "uniqueID"
    <2>1. t \in LegacyTopicByUniqueID(e)
      BY <1>1, <1>4 DEF LegacyTopic
    <2>2. ByID(e, t)
      BY <2>1 DEF LegacyTopicByUniqueID, When, ByID
    <2>3. QED
      BY <1>2, <1>4, <2>2
  <1>5. CASE form = "objectID"
    <2>1. t \in LegacyTopicByObjectID(e)
      BY <1>1, <1>5 DEF LegacyTopic
    <2>2. ByObject(e, t)
      BY <2>1 DEF LegacyTopicByObjectID, When, ByObject
    <2>3. QED
      BY <1>2, <1>5, <2>2
  <1>6. QED
    BY <1>2, <1>3, <1>4, <1>5

\* One topic is that of two entities only by a unique id they share.
LEMMA SharedTopic ==
  ASSUME NamedTopics, DistinctDevice, setting \in Settings, NEW e, NEW f,
         e.prefix = setting.prefix, f.prefix = setting.prefix, e.objectID # f.objectID,
         NEW t \in LegacyTopics(setting.forms, e) \cap LegacyTopics(setting.forms, f)
  PROVE  e.platform = f.platform /\ e.uniqueID = f.uniqueID /\ ByID(e, t)
  <1>1. PICK p, S : p = TopicPrefix(setting.prefix) /\ p \in Seq(S)
    BY PrefixIs
  <1>2. PICK last : last = "config"
    OBVIOUS
  <1>3. /\ ByNode(e, t)   => t = p \o <<e.platform, e.nodeID, e.objectID, last>>
        /\ ByID(e, t)     => t = p \o <<e.platform, e.uniqueID, last>>
        /\ ByObject(e, t) => t = p \o <<e.platform, e.objectID, last>>
        /\ ByNode(f, t)   => t = p \o <<f.platform, f.nodeID, f.objectID, last>>
        /\ ByID(f, t)     => t = p \o <<f.platform, f.uniqueID, last>>
        /\ ByObject(f, t) => t = p \o <<f.platform, f.objectID, last>>
    BY <1>1, <1>2 DEF ByNode, ByID, ByObject
  <1>4. ~("uniqueID" \in setting.forms /\ "objectID" \in setting.forms)
    BY DEF DistinctDevice
  <1>5. ~(ByNode(e, t) /\ ByNode(f, t))
    BY <1>1, <1>3, SameFour
  <1>6. ~(ByNode(e, t) /\ (ByID(f, t) \/ ByObject(f, t)))
    BY <1>1, <1>3, ThreeIsNotFour
  <1>7. ~(ByNode(f, t) /\ (ByID(e, t) \/ ByObject(e, t)))
    BY <1>1, <1>3, ThreeIsNotFour
  <1>8. ~(ByObject(e, t) /\ ByObject(f, t))
    BY <1>1, <1>3, SameThree
  <1>9. ByID(e, t) /\ ByID(f, t) => e.platform = f.platform /\ e.uniqueID = f.uniqueID
    BY <1>1, <1>3, SameThree
  <1>10. /\ ByNode(e, t) \/ (ByID(e, t) /\ "uniqueID" \in setting.forms) \/ (ByObject(e, t) /\ "objectID" \in setting.forms)
         /\ ByNode(f, t) \/ (ByID(f, t) /\ "uniqueID" \in setting.forms) \/ (ByObject(f, t) /\ "objectID" \in setting.forms)
    BY TopicsOf
  <1>11. QED
    BY <1>4, <1>5, <1>6, <1>7, <1>8, <1>9, <1>10, Zenon

-----------------------------------------------------------------------------
(* Two identities: what is published and what is withheld.                 *)

\* What a document publishes and what it withholds of an installed entity's are two
\* identities.
Apart(b) ==
  \A k \in DOMAIN b.withheld \cap DOMAIN Installed : \A j \in DOMAIN b.components \cap Declared :
    UniqueID(Installed[k]) # "" =>
      ~(Platform(catalogue[j]) = Platform(Installed[k]) /\ UniqueID(catalogue[j]) = UniqueID(Installed[k]))
ClearInv ==
  /\ setting \in Settings
  /\ stage # "idle" => Apart(bundle)
  /\ stage = "sending" => /\ todo \subseteq SupersededTopics(setting.prefix, bundle, setting.forms)
                          /\ kept = WithheldTopics(setting.prefix, bundle, setting.forms)
  /\ settled => \A k \in DOMAIN Installed \cap Declared : OldTopics(k) \cap legacy \subseteq kept

LEMMA CompErrorRefuses ==
  ASSUME NEW key, NEW kind, NEW keys
  PROVE  \E f \in CompError(key, kind, keys) : Refused(f)
  <1>1. PICK f \in CompError(key, kind, keys) : TRUE
    BY CompErrorIs
  <1>2. QED
    BY <1>1, CompErrorIs DEF Refused

\* What an earlier component of the document already is, Home Assistant refuses.
LEMMA DuplicateFails ==
  ASSUME NEW b, NEW ignore, NEW j \in DOMAIN b.components, j # "", NEW c, c = b.components[j], Live(c),
         EncodedID(c) # "", NEW k \in Earlier(j) \cap DOMAIN b.components, Inspectable(b.components[k]),
         IdentityKey(Encoded(b.components[k])) = IdentityKey(Encoded(c))
  PROVE  j \in Failing(b, ignore)
  <1>1. Duplicate(b, j)
    BY Zenon DEF Duplicate, EncodedID
  <1>2. PICK f : f \in CompError(j, "unique_id_duplicate", {"unique_id"}) /\ Refused(f)
    BY CompErrorRefuses, Zenon
  <1>3. f \in When(Duplicate(b, j), CompError(j, "unique_id_duplicate", {"unique_id"}))
    BY <1>1, <1>2, WhenIs, Zenon
  <1>4. f \in BodyFindings(b, j, Encoded(c), ignore)
    BY <1>3, Zenon DEF BodyFindings
  <1>5. f \in ComponentFindings(b, j, ignore)
    BY <1>4, ComponentFindingsAre, Zenon DEF Live
  <1>6. QED
    BY <1>2, <1>5, FailingIs, Zenon

LEMMA ContainDropsFailing ==
  ASSUME NEW b, IsDocument(b), NEW ignore, NEW strip, NEW d, d = Contain(b, ignore, strip)
  PROVE  DOMAIN d.components \cap Failing(b, ignore) = {}
  <1>1. PICK now, out : /\ now = [k \in DOMAIN b.components \ Failing(b, ignore) |->
                                   IF strip /\ MinorOf(b, ignore, k) # {}
                                   THEN StripComponent(b.components[k], MinorOf(b, ignore, k))
                                   ELSE b.components[k]]
                        /\ out = Over(Restrict(b.components, Failing(b, ignore)), b.withheld)
    OBVIOUS
  <1>2. d = [b EXCEPT !.components = now, !.withheld = out]
    BY <1>1 DEF Contain, Failing, MinorOf
  <1>3. d.components = now
    BY <1>2 DEF IsDocument
  <1>4. QED
    BY <1>1, <1>3

\* What is left of a component that Home Assistant would look at is encoded with the
\* names that the device gave it.
LEMMA KeepsIdentity ==
  ASSUME NamedDevice, NEW k \in Keys, NEW c \in Rendered(k), NEW d, Keeps(d, c),
         EncodedPlatform(d) \in Catalog.supported, Entity(Platform(c))
  PROVE  IdentityKey(Encoded(d)) = <<Platform(c), UniqueID(c)>>
  <1>1. CASE d = c
    BY <1>1, Zenon DEF NamedDevice, EncodedPlatform
  <1>2. CASE Live(c) /\ Stripped(d, c)
    <2>1. EncodedPlatform(c) \in Catalog.supported
      BY <1>2, Zenon DEF Live, Sound
    <2>2. IdentityKey(Encoded(c)) = <<Platform(c), UniqueID(c)>>
      BY <2>1, Zenon DEF NamedDevice, EncodedPlatform
    <2>3. EncodedPlatform(c) = Platform(c) /\ EncodedID(c) = UniqueID(c)
      BY <2>2 DEF IdentityKey, EncodedPlatform, EncodedID
    <2>4. EncodedPlatform(d) = Platform(c) /\ EncodedID(d) = UniqueID(c)
      BY <1>2, <2>3, Zenon DEF Stripped
    <2>5. QED
      BY <2>4 DEF IdentityKey, EncodedPlatform, EncodedID
  <1>3. QED
    BY <1>1, <1>2 DEF Keeps

LEMMA RemovalHasNoID ==
  ASSUME NEW c, Removal(c)
  PROVE  EncodedID(c) = ""
  BY DEF Removal, IsRemoval, EncodedID, Str

LEMMA LiveIsInspectable ==
  ASSUME NEW c
  PROVE  Live(c) => Inspectable(c)
  BY Zenon DEF Live, Sound, Inspectable, Removal, EncodedPlatform

\* Containment never withholds an installed entity for a component it publishes.
LEMMA ContainApart ==
  ASSUME NamingCatalog, NamedDevice, DistinctDevice, CatalogueInv, NEW b, NEW T,
         HoldsDeclared(b), HoldsTombstones(b, T), "" \notin DOMAIN b.components,
         \A k \in T : Sound(b.components[k]) /\ Removal(b.components[k]),
         Apart(b), NEW ignore, NEW strip, NEW d, d = Contain(b, ignore, strip)
  PROVE  Apart(d)
  <1>1. WithoutFailing(d, b) /\ DOMAIN d.components \cap Failing(b, ignore) = {}
    <2>1. IsDocument(b)
      BY DEF HoldsDeclared
    <2>2. WithoutFailing(d, b)
      BY <2>1, ContainIs
    <2>3. DOMAIN d.components \cap Failing(b, ignore) = {}
      BY <2>1, ContainDropsFailing
    <2>4. QED
      BY <2>2, <2>3
  <1>2. SUFFICES ASSUME NEW k \in DOMAIN d.withheld \cap DOMAIN Installed,
                        NEW j \in DOMAIN d.components \cap Declared,
                        UniqueID(Installed[k]) # "",
                        Platform(catalogue[j]) = Platform(Installed[k]),
                        UniqueID(catalogue[j]) = UniqueID(Installed[k])
                 PROVE  FALSE
    BY Zenon DEF Apart
  <1>3. j \in DOMAIN b.components \cap Declared /\ j \in Keys
    BY <1>1, <1>2, DeclaredKeys DEF WithoutFailing
  <1>4. CASE k \in DOMAIN b.withheld
    BY <1>2, <1>3, <1>4, Zenon DEF Apart
  <1>5. CASE k \in DOMAIN b.components \ DOMAIN d.components
    <2>1. k \in Declared
      <3>1. HoldsDeclared(d)
        BY <1>1, WithoutFailingHolds, Zenon
      <3>2. QED
        BY <1>2, <3>1 DEF HoldsDeclared
    <2>2. k \in Keys /\ catalogue[k] \in Rendered(k) /\ catalogue[j] \in Rendered(j)
      BY <1>3, <2>1, DeclaredKeys DEF CatalogueInv
    <2>3. j # k
      BY <1>2, <1>5
    <2>4. k \in Earlier(j)
      BY <1>2, <1>3, <2>2, <2>3, Zenon DEF DistinctDevice
    <2>5. Entity(Platform(Installed[k])) /\ Platform(catalogue[k]) = Platform(Installed[k])
           /\ UniqueID(catalogue[k]) = UniqueID(Installed[k])
      BY <1>2, <2>2, Zenon DEF NamedDevice, Entity
    <2>6. Inspectable(b.components[k]) /\ Keeps(b.components[k], catalogue[k])
      <3>1. Keeps(b.components[k], catalogue[k])
        BY <1>5, <2>1 DEF HoldsDeclared
      <3>2. Inspectable(catalogue[k])
        BY <1>2, <2>2, Zenon DEF DistinctDevice
      <3>3. QED
        BY <3>1, <3>2, LiveIsInspectable, Zenon DEF Keeps, Stripped
    <2>7. IdentityKey(Encoded(b.components[k])) = <<Platform(catalogue[k]), UniqueID(catalogue[k])>>
      <3>1. EncodedPlatform(b.components[k]) \in Catalog.supported
        BY <2>6, Zenon DEF Inspectable, EncodedPlatform
      <3>2. QED
        BY <2>2, <2>5, <2>6, <3>1, KeepsIdentity, Zenon
    <2>8. Sound(b.components[j]) /\ Keeps(b.components[j], catalogue[j])
      BY <1>1, <1>2, <1>3 DEF WithoutFailing, HoldsDeclared
    <2>9. PICK c, x : c = b.components[j] /\ x = catalogue[j]
      OBVIOUS
    <2>10. IdentityKey(Encoded(c)) = <<Platform(x), UniqueID(x)>>
      <3>1. EncodedPlatform(c) \in Catalog.supported
        BY <2>8, <2>9, Zenon DEF Sound
      <3>2. Entity(Platform(x)) /\ x \in Rendered(j) /\ Keeps(c, x)
        BY <1>2, <2>2, <2>5, <2>8, <2>9
      <3>3. QED
        BY <1>3, <3>1, <3>2, KeepsIdentity
    <2>11. Live(c) /\ EncodedID(c) # ""
      <3>1. EncodedID(c) = UniqueID(Installed[k])
        BY <1>2, <2>9, <2>10 DEF IdentityKey, EncodedID
      <3>2. EncodedID(c) # ""
        BY <1>2, <3>1, Zenon
      <3>3. ~Removal(c)
        BY <3>2, RemovalHasNoID
      <3>4. QED
        BY <2>8, <2>9, <3>2, <3>3, Zenon DEF Live
    <2>12. j \in Failing(b, ignore)
      <3>1. j # ""
        BY <1>3
      <3>2. IdentityKey(Encoded(b.components[k])) = IdentityKey(Encoded(c))
        BY <1>2, <2>5, <2>7, <2>9, <2>10
      <3>3. k \in Earlier(j) \cap DOMAIN b.components
        BY <1>5, <2>4
      <3>4. QED
        BY <1>3, <2>6, <2>9, <2>11, <3>1, <3>2, <3>3, DuplicateFails, Zenon
    <2>13. QED
      BY <1>1, <1>2, <2>12
  <1>6. QED
    BY <1>1, <1>2, <1>4, <1>5 DEF WithoutFailing

-----------------------------------------------------------------------------
(* Nothing declared is deleted.                                            *)

LEMMA InitClear == Init => ClearInv
  BY DEF Init, ClearInv

\* The old config of what is withheld is kept from the sweep.
LEMMA WithheldIsKept ==
  ASSUME NamedDevice, NamingCatalog, CatalogueInv, HoldsDeclared(bundle),
         NEW k \in DOMAIN Installed \cap DOMAIN bundle.withheld
  PROVE  OldTopics(k) \subseteq WithheldTopics(setting.prefix, bundle, setting.forms)
  <1>1. PICK b, w : w = bundle.withheld /\ b = [bundle EXCEPT !.components = w, !.tombstones = NoKeys]
    OBVIOUS
  <1>2. b.components = w /\ b.tombstones = NoKeys /\ b.nodeID = Node
    BY <1>1 DEF HoldsDeclared, IsDocument
  <1>3. k \in Declared /\ k \in Keys /\ catalogue[k] \in Rendered(k) /\ Keeps(w[k], catalogue[k])
    BY <1>1, DeclaredKeys DEF HoldsDeclared, CatalogueInv
  <1>4. /\ Platform(catalogue[k]) = Platform(Installed[k]) /\ UniqueID(catalogue[k]) = UniqueID(Installed[k])
        /\ Platform(Installed[k]) # "" /\ Entity(Platform(Installed[k]))
    BY <1>3, Zenon DEF NamedDevice, NamingCatalog, Entity
  <1>5. Platform(w[k]) = Platform(Installed[k]) /\ UniqueID(w[k]) = UniqueID(Installed[k])
    BY <1>3, <1>4, KeepsPlatform, Zenon
  <1>6. k \notin DOMAIN b.tombstones
    BY <1>2, NoKeysIs
  <1>7. SupersededEntity(setting.prefix, b, k)
          = LegacyEntity(setting.prefix, Platform(w[k]), Node, k, UniqueID(w[k]))
    BY <1>2, <1>6, Zenon DEF SupersededEntity
  <1>8. LegacyTopics(setting.forms, SupersededEntity(setting.prefix, b, k)) = OldTopics(k)
    BY <1>5, <1>7 DEF OldTopics
  <1>9. k \in DOMAIN b.components /\ Platform(b.components[k]) # ""
    BY <1>1, <1>2, <1>4, <1>5
  <1>10. OldTopics(k) \subseteq SupersededTopics(setting.prefix, b, setting.forms)
    BY <1>8, <1>9 DEF SupersededTopics
  <1>11. QED
    BY <1>1, <1>10 DEF WithheldTopics

\* What a publish retracts is no config of an entity that it withholds, unless one that
\* left had its unique id.
LEMMA SupersedeSpares ==
  ASSUME NamingCatalog, NamedDevice, NamedTopics, DistinctDevice, CycleInv, ClearInv,
         stage = "sending", NEW t \in todo,
         NEW k \in DOMAIN Installed \cap Declared, k \notin DOMAIN bundle.components, ~Usurped(k)
  PROVE  t \notin OldTopics(k)
  <1>1. SUFFICES ASSUME t \in OldTopics(k) PROVE FALSE
    OBVIOUS
  <1>2. HoldsDeclared(bundle) /\ HoldsTombstones(bundle, Left) /\ Accepted(bundle) /\ Apart(bundle)
    BY DEF CycleInv, BundleInv, ClearInv
  <1>3. setting \in Settings /\ t \in SupersededTopics(setting.prefix, bundle, setting.forms)
    BY DEF ClearInv
  <1>4. PICK j \in DOMAIN bundle.components :
          t \in LegacyTopics(setting.forms, SupersededEntity(setting.prefix, bundle, j))
    BY <1>3 DEF SupersededTopics
  <1>5. j # k
    BY <1>4
  <1>6. k \in DOMAIN bundle.withheld
    BY <1>2 DEF HoldsDeclared
  <1>7. PICK e, f : /\ e = LegacyEntity(setting.prefix, Platform(Installed[k]), Node, k, UniqueID(Installed[k]))
                    /\ f = SupersededEntity(setting.prefix, bundle, j)
    OBVIOUS
  <1>8. /\ e.prefix = setting.prefix /\ e.objectID = k /\ e.platform = Platform(Installed[k])
        /\ e.uniqueID = UniqueID(Installed[k])
        /\ f.prefix = setting.prefix /\ f.objectID = j /\ f.platform = Platform(bundle.components[j])
        /\ f.uniqueID = IF UniqueID(bundle.components[j]) = "" /\ j \in DOMAIN bundle.tombstones
                        THEN UniqueID(bundle.tombstones[j]) ELSE UniqueID(bundle.components[j])
    BY <1>7 DEF LegacyEntity, SupersededEntity
  <1>9. t \in LegacyTopics(setting.forms, e) \cap LegacyTopics(setting.forms, f)
    BY <1>1, <1>4, <1>7 DEF OldTopics
  <1>10. e.platform = f.platform /\ e.uniqueID = f.uniqueID /\ ByID(e, t)
    BY <1>3, <1>5, <1>8, <1>9, SharedTopic
  <1>11. UniqueID(Installed[k]) # ""
    BY <1>8, <1>10, Zenon DEF ByID
  <1>12. CASE j \in Declared
    <2>1. PICK c, x : c = bundle.components[j] /\ x = catalogue[j]
      OBVIOUS
    <2>2. j \in Keys /\ x \in Rendered(j) /\ Keeps(c, x) /\ Sound(c)
      BY <1>2, <1>12, <2>1, DeclaredKeys DEF CycleInv, CatalogueInv, HoldsDeclared, Accepted
    <2>3. j \notin DOMAIN bundle.tombstones
      BY <1>2, <1>12 DEF HoldsTombstones, Left
    <2>4. Platform(c) = Platform(Installed[k]) /\ UniqueID(c) = UniqueID(Installed[k])
      BY <1>8, <1>10, <2>1, <2>3, Zenon
    <2>5. Platform(c) = Platform(x) /\ (Entity(Platform(x)) => UniqueID(c) = UniqueID(x))
      BY <2>2, KeepsNames, Zenon
    <2>6. Entity(Platform(Installed[k]))
      BY Zenon DEF NamedDevice, Entity
    <2>7. Platform(x) = Platform(Installed[k]) /\ UniqueID(x) = UniqueID(Installed[k])
      BY <2>4, <2>5, <2>6
    <2>8. QED
      BY <1>2, <1>6, <1>11, <1>12, <2>1, <2>7, Zenon DEF Apart
  <1>13. CASE j \notin Declared
    <2>1. j \in Left
      BY <1>2, <1>13 DEF HoldsTombstones
    <2>2. bundle.components[j] = Tombstone(Platform(previous[j])) /\ j \in DOMAIN bundle.tombstones
      BY <1>2, <2>1 DEF HoldsTombstones
    <2>3. UniqueID(bundle.components[j]) = ""
      <3>1. j \in DOMAIN previous /\ Platform(previous[j]) # ""
        BY <2>1 DEF Left
      <3>2. QED
        BY <2>2, <3>1, TombstonesAreSound, Zenon DEF CycleInv
    <2>4. UniqueID(bundle.tombstones[j]) = UniqueID(Installed[k])
      BY <1>8, <1>10, <2>2, <2>3, Zenon
    <2>5. QED
      BY <1>5, <2>2, <2>4, Zenon DEF Usurped
  <1>14. QED
    BY <1>12, <1>13

\* Nothing that a published document withholds is left to the sweep.
LEMMA PublishClear ==
  ASSUME NamingCatalog, NamedDevice, CycleInv, ClearInv, PublishDocument
  PROVE  ClearInv'
  <1>1. /\ stage = "sending" /\ todo = {} /\ stage' = "idle"
        /\ UNCHANGED <<setting, catalogue, legacy, kept>>
    BY DEF PublishDocument, EndCycle
  <1>2. HoldsDeclared(bundle) /\ kept = WithheldTopics(setting.prefix, bundle, setting.forms)
    BY <1>1 DEF CycleInv, BundleInv, ClearInv
  <1>3. \A k \in DOMAIN Installed \cap Declared : OldTopics(k) \cap legacy \subseteq kept
    <2>1. SUFFICES ASSUME NEW k \in DOMAIN Installed \cap Declared PROVE OldTopics(k) \cap legacy \subseteq kept
      OBVIOUS
    <2>2. CASE k \in DOMAIN bundle.components
      BY <1>1, <2>1, <2>2 DEF CycleInv, SendingInv
    <2>3. CASE k \in DOMAIN bundle.withheld
      BY <1>2, <2>1, <2>3, WithheldIsKept DEF CycleInv
    <2>4. QED
      BY <1>2, <2>1, <2>2, <2>3 DEF HoldsDeclared
  <1>4. Declared' = Declared /\ \A k : OldTopics(k)' = OldTopics(k)
    BY <1>1 DEF Declared, OldTopics
  <1>5. QED
    BY <1>1, <1>3, <1>4 DEF ClearInv

LEMMA ClearKeeps ==
  ASSUME NamingCatalog, NamedDevice, NamedTopics, DistinctDevice, CycleInv, ClearInv, [Next]_vars
  PROVE  ClearInv'
  <1>. USE DEF ClearInv
  <1>1. ASSUME NEW k \in Keys, Change(k) PROVE ClearInv'
    BY <1>1 DEF Change
  <1>2. CASE Render
    <2>1. /\ stage' = "rendered" /\ ~settled' /\ setting' = setting
          /\ bundle' = Document(Node, "origin", setting.identified, Restrict(catalogue, Declared))
      BY <1>2 DEF Render
    <2>2. DOMAIN bundle'.withheld = {}
      BY <2>1, NoKeysIs DEF Document
    <2>3. Apart(bundle)'
      BY <2>2 DEF Apart
    <2>4. QED
      BY <2>1, <2>3
  <1>3. ASSUME NEW from, NEW to, ContainFrom(from, to),
               <<from, to>> \in {<<"rendered", "contained">>, <<"removed", "ready">>}
        PROVE  ClearInv'
    <2>1. /\ stage = from /\ from # "idle" /\ to # "sending"
          /\ UNCHANGED <<setting, catalogue, previous, legacy, kept, settled>>
      BY <1>3 DEF ContainFrom
    <2>2. ~settled'
      BY <2>1 DEF CycleInv, BundleInv
    <2>3. CASE EndCycle
      BY <2>1, <2>2, <2>3 DEF EndCycle
    <2>4. CASE ~EndCycle
      <3>1. stage' = to /\ bundle' = Contain(bundle, setting.ignore, setting.strip)
        BY <1>3, <2>4 DEF ContainFrom, Contained
      <3>2. PICK b, d, T : /\ b = bundle /\ d = bundle'
                           /\ T = IF from = "rendered" THEN {} ELSE Left
        OBVIOUS
      <3>3. HoldsDeclared(b) /\ HoldsTombstones(b, T) /\ Apart(b)
        BY <1>3, <2>1, <3>2 DEF CycleInv, BundleInv
      <3>4. T \subseteq Left /\ T \subseteq DOMAIN previous
        BY <3>2 DEF Left
      <3>5. "" \notin DOMAIN b.components
        BY <3>3, <3>4, BundleKeys DEF CycleInv
      <3>6. \A k \in T : Sound(b.components[k]) /\ Removal(b.components[k])
        <4>1. \A k \in T : b.components[k] = Tombstone(Platform(previous[k]))
          BY <3>3 DEF HoldsTombstones
        <4>2. \A k \in T : k \in DOMAIN previous /\ Platform(previous[k]) # ""
          BY <3>4 DEF Left
        <4>3. QED
          BY <4>1, <4>2, TombstonesAreSound DEF CycleInv
      <3>7. d = Contain(b, setting.ignore, setting.strip)
        BY <3>1, <3>2
      <3>8. Apart(d)
        BY <3>3, <3>5, <3>6, <3>7, ContainApart, Zenon DEF CycleInv
      <3>9. Apart(bundle)'
        BY <2>1, <3>2, <3>8 DEF Apart, Declared
      <3>10. QED
        BY <2>1, <2>2, <3>1, <3>9
    <2>5. QED
      BY <2>3, <2>4
  <1>4. CASE RemoveGone
    <2>1. /\ stage \in {"rendered", "contained"} /\ stage' \in {"ready", "removed"} /\ ~settled'
          /\ UNCHANGED <<setting, catalogue>> /\ bundle' \in Removals(bundle)
      BY <1>4 DEF RemoveGone, CycleInv, BundleInv
    <2>2. HoldsDeclared(bundle) /\ HoldsTombstones(bundle, {}) /\ Apart(bundle)
      BY <2>1 DEF CycleInv, BundleInv
    <2>3. PICK d : d = bundle'
      OBVIOUS
    <2>4. d.withheld = bundle.withheld /\ DOMAIN d.components = Leaving \cup DOMAIN bundle.components
      BY <2>1, <2>2, <2>3, RemovalIs DEF HoldsDeclared, HoldsTombstones, CycleInv, MemoryInv
    <2>5. Leaving \cap Declared = {}
      <3>1. Declared \subseteq DOMAIN bundle.components \cup DOMAIN bundle.withheld
        BY <2>2 DEF HoldsDeclared
      <3>2. QED
        BY <3>1 DEF Leaving, Gone
    <2>6. Apart(d)
      BY <2>2, <2>4, <2>5 DEF Apart
    <2>7. Apart(bundle)'
      BY <2>1, <2>3, <2>6 DEF Apart, Declared
    <2>8. QED
      BY <2>1, <2>7
  <1>5. CASE Begin
    <2>1. /\ stage = "ready" /\ UNCHANGED <<setting, catalogue, bundle, legacy, settled>>
          /\ todo' \subseteq SupersededTopics(setting.prefix, bundle, setting.forms)
          /\ kept' = WithheldTopics(setting.prefix, bundle, setting.forms)
      BY <1>5 DEF Begin
    <2>2. ~settled' /\ Apart(bundle)
      BY <2>1 DEF CycleInv, BundleInv
    <2>3. Apart(bundle)'
      BY <2>1, <2>2 DEF Apart, Declared
    <2>4. /\ SupersededTopics(setting.prefix, bundle, setting.forms)' = SupersededTopics(setting.prefix, bundle, setting.forms)
          /\ WithheldTopics(setting.prefix, bundle, setting.forms)' = WithheldTopics(setting.prefix, bundle, setting.forms)
      BY <2>1
    <2>5. QED
      BY <2>1, <2>2, <2>3, <2>4
  <1>6. ASSUME NEW t \in todo, Supersede(t) PROVE ClearInv'
    <2>1. /\ stage = "sending" /\ todo' \subseteq todo
          /\ UNCHANGED <<setting, catalogue, stage, bundle, kept, settled>>
      BY <1>6 DEF Supersede
    <2>2. ~settled' /\ Apart(bundle)
      BY <2>1 DEF CycleInv, BundleInv
    <2>3. Apart(bundle)'
      BY <2>1, <2>2 DEF Apart, Declared
    <2>4. QED
      BY <2>1, <2>2, <2>3
  <1>7. CASE PublishDocument
    BY <1>7, PublishClear
  <1>8. CASE Fail
    <2>1. stage = "sending" /\ stage' = "idle" /\ UNCHANGED <<setting, settled>>
      BY <1>8 DEF Fail, EndCycle
    <2>2. QED
      BY <2>1 DEF CycleInv, BundleInv
  <1>9. CASE Sweep
    <2>1. /\ stage' = "idle" /\ legacy' \subseteq legacy /\ UNCHANGED <<setting, catalogue, kept, settled>>
      BY <1>9 DEF Sweep
    <2>2. Declared' = Declared /\ \A k : OldTopics(k)' = OldTopics(k)
      BY <2>1 DEF Declared, OldTopics
    <2>3. QED
      BY <2>1, <2>2
  <1>10. CASE UNCHANGED vars
    <2>1. UNCHANGED <<setting, catalogue, stage, bundle, todo, legacy, kept, settled>>
      BY <1>10 DEF vars
    <2>2. /\ Declared' = Declared /\ \A k : OldTopics(k)' = OldTopics(k)
          /\ (Apart(bundle) => Apart(bundle)')
      BY <2>1 DEF Declared, OldTopics, Apart
    <2>3. QED
      BY <2>1, <2>2
  <1>11. QED
    BY <1>1, <1>2, <1>3, <1>4, <1>5, <1>6, <1>7, <1>8, <1>9, <1>10
    DEF Next, ConsumerContains, PublisherContains

\* What a step does to the registry and to the old configs, of what the device declares.
SparesDeclared ==
  /\ registry \cap Declared \subseteq registry'
  /\ \A k \in DOMAIN Installed \cap Declared :
       k \in DOMAIN bundle.components \/ Usurped(k) \/ OldTopics(k) \cap legacy \subseteq legacy'

LEMMA StepSpares ==
  ASSUME NamingCatalog, NamedDevice, NamedTopics, DistinctDevice, CycleInv, ClearInv, [Next]_vars
  PROVE  SparesDeclared
  <1>1. CASE PublishDocument
    <2>1. /\ stage = "sending" /\ registry' = Processed(registry, bundle) /\ legacy' = legacy
      BY <1>1 DEF PublishDocument
    <2>2. HoldsDeclared(bundle) /\ HoldsTombstones(bundle, Left) /\ Accepted(bundle)
      BY <2>1 DEF CycleInv, BundleInv
    <2>3. "" \notin DOMAIN bundle.components
      <3>1. Left \subseteq DOMAIN previous
        BY DEF Left
      <3>2. QED
        BY <2>2, <3>1, BundleKeys DEF CycleInv
    <2>4. \A k \in registry \cap Declared : k \notin RemovalsOf(bundle)
      <3>1. SUFFICES ASSUME NEW k \in registry \cap Declared, k \in DOMAIN bundle.components
                     PROVE  ~Removal(bundle.components[k])
        BY DEF RemovalsOf
      <3>2. ~Removal(catalogue[k]) /\ Keeps(bundle.components[k], catalogue[k])
        BY <2>2, <3>1 DEF CycleInv, RegistryInv, HoldsDeclared
      <3>3. QED
        BY <3>2, Zenon DEF Keeps, Stripped, Live
    <2>5. registry \ RemovalsOf(bundle) \subseteq registry'
      BY <2>1, <2>2, <2>3, ProcessedIs
    <2>6. QED
      BY <2>1, <2>4, <2>5 DEF SparesDeclared
  <1>2. ASSUME NEW t \in todo, Supersede(t) PROVE SparesDeclared
    <2>1. stage = "sending" /\ registry' = registry /\ legacy' = legacy \ {t}
      BY <1>2 DEF Supersede
    <2>2. \A k \in DOMAIN Installed \cap Declared :
            k \in DOMAIN bundle.components \/ Usurped(k) \/ t \notin OldTopics(k)
      BY <1>2, <2>1, SupersedeSpares
    <2>3. QED
      BY <2>1, <2>2 DEF SparesDeclared
  <1>3. CASE Sweep
    <2>1. /\ settled /\ registry' = registry
          /\ \E S : S \subseteq legacy \ kept /\ legacy' = legacy \ S
      BY <1>3 DEF Sweep
    <2>2. \A k \in DOMAIN Installed \cap Declared : OldTopics(k) \cap legacy \subseteq kept
      BY <2>1 DEF ClearInv
    <2>3. QED
      BY <2>1, <2>2 DEF SparesDeclared
  <1>4. CASE ~PublishDocument /\ ~(\E t \in todo : Supersede(t)) /\ ~Sweep
    <2>1. UNCHANGED <<registry, legacy>>
      BY <1>4 DEF Next, vars, Change, Render, ConsumerContains, PublisherContains, ContainFrom,
                  RemoveGone, Begin, Fail
    <2>2. QED
      BY <2>1 DEF SparesDeclared
  <1>5. QED
    BY <1>1, <1>2, <1>3, <1>4

\* No step of a cycle deletes from Home Assistant's registry what the device declares
\* before it: no published document drops it from the registry, and no retraction
\* takes the old config of what is only withheld (Runtime.supersede,
\* runtime.go:780; Contain, contain.go:109).
THEOREM NothingDeclaredIsDeleted ==
  NamingCatalog /\ NamedDevice /\ NamedTopics /\ DistinctDevice /\ Spec => NoDeclaredEntityDeleted
  <1>1. SUFFICES ASSUME NamingCatalog, NamedDevice, NamedTopics, DistinctDevice
                 PROVE  Spec => NoDeclaredEntityDeleted
    OBVIOUS
  <1>2. Spec => []CycleInv
    BY <1>1, CyclesInvariant, PTL
  <1>3. CycleInv /\ ClearInv /\ [Next]_vars => ClearInv'
    BY <1>1, ClearKeeps
  <1>4. CycleInv /\ ClearInv /\ [Next]_vars => SparesDeclared
    BY <1>1, StepSpares
  <1>5. SparesDeclared <=>
          /\ registry \cap Declared \subseteq registry'
          /\ \A k \in DOMAIN Installed \cap Declared :
               k \in DOMAIN bundle.components \/ Usurped(k) \/ OldTopics(k) \cap legacy \subseteq legacy'
    BY DEF SparesDeclared
  <1>6. QED
    BY <1>2, <1>3, <1>4, <1>5, InitClear, PTL DEF Spec, NoDeclaredEntityDeleted

-----------------------------------------------------------------------------
(* What a strippable finding names.                                        *)

\* What a strippable finding names: a key the schema does not know, a state class its
\* device class does not allow, a key that is none of an availability entry's.
Ousted(platform, body, ignore, x) ==
  \/ platform \in DOMAIN Catalog.schema /\ x \in UnknownKeys(platform, body, ignore)
  \/ /\ platform = "sensor" /\ x = "state_class"
     /\ StateClassImpossible(Str(body, "state_class"), Str(body, "device_class"))
Idle(path) == \E i, k : path = <<"availability", i, k>> /\ k \notin AvailabilityEntryKeys
Strips(f, platform, body, ignore) ==
  f.strippable => \A path \in f.keys :
    Idle(path) \/ \E x : path = <<x>> /\ Ousted(platform, body, ignore, x)

LEMMA NoStrips ==
  ASSUME NEW key, NEW platform, NEW body, NEW ignore, NEW kind, NEW keys, NEW f,
         f \in CompError(key, kind, keys) \/ f \in CompWarning(key, kind, keys)
  PROVE  Strips(f, platform, body, ignore)
  <1>1. ~f.strippable
    BY CompErrorIs, CompWarningIs
  <1>2. QED
    BY <1>1, Zenon DEF Strips

LEMMA StripsOne ==
  ASSUME NEW key, NEW platform, NEW body, NEW ignore, NEW kind, NEW path, NEW f \in Strippable(key, kind, path),
         Idle(path) \/ \E x : path = <<x>> /\ Ousted(platform, body, ignore, x)
  PROVE  Strips(f, platform, body, ignore)
  <1>1. f.keys = {path}
    BY StrippableIs
  <1>2. QED
    BY <1>1, Zenon DEF Strips

LEMMA KeysStrip ==
  ASSUME NEW key, NEW platform \in DOMAIN Catalog.schema, NEW body, NEW ignore,
         NEW f \in KeyFindings(key, platform, body, ignore)
  PROVE  Strips(f, platform, body, ignore)
  <1>1. CASE f \in UnknownKeyFindings(key, platform, body, ignore)
    <2>1. PICK k \in UnknownKeys(platform, body, ignore) : f \in Strippable(key, "unknown_key", <<k>>)
      BY <1>1 DEF UnknownKeyFindings
    <2>2. Ousted(platform, body, ignore, k)
      BY Zenon DEF Ousted
    <2>3. QED
      BY <2>1, <2>2, StripsOne, Zenon
  <1>2. CASE f \in RequiredKeyFindings(key, platform, body)
    <2>1. PICK k \in MissingKeys(platform, body) : f \in CompError(key, "required_key", {k})
      BY <1>2 DEF RequiredKeyFindings
    <2>2. QED
      BY <2>1, NoStrips, Zenon
  <1>3. QED
    BY <1>1, <1>2 DEF KeyFindings

LEMMA EntriesStrip ==
  ASSUME NEW key, NEW platform, NEW body, NEW ignore, NEW f \in AvailabilityFindings(key, body)
  PROVE  Strips(f, platform, body, ignore)
  <1>1. PICK i \in DOMAIN Entries(body) : f \in EntryFindings(key, Entries(body)[i], i)
    BY DEF AvailabilityFindings
  <1>2. PICK entry : entry = Entries(body)[i]
    OBVIOUS
  <1>3. CASE f \in When(Str(entry, "topic") = "", CompError(key, "availability_topic", {}))
    <2>1. f \in CompError(key, "availability_topic", {})
      BY <1>3, WhenIs, Zenon
    <2>2. QED
      BY <2>1, NoStrips, Zenon
  <1>4. CASE f \in UNION {Strippable(key, "availability_key", <<"availability", i, k>>)
                             : k \in DOMAIN entry \ AvailabilityEntryKeys}
    <2>1. PICK k \in DOMAIN entry \ AvailabilityEntryKeys :
            f \in Strippable(key, "availability_key", <<"availability", i, k>>)
      BY <1>4
    <2>2. k \notin AvailabilityEntryKeys
      OBVIOUS
    <2>3. Idle(<<"availability", i, k>>)
      BY <2>2, Zenon DEF Idle
    <2>4. QED
      BY <2>1, <2>3, StripsOne, Zenon
  <1>5. QED
    BY <1>1, <1>2, <1>3, <1>4 DEF EntryFindings

LEMMA SensorStrips ==
  ASSUME NEW key, NEW body, NEW ignore, NEW f \in SensorFindings(key, body)
  PROVE  Strips(f, "sensor", body, ignore)
  <1>1. \/ \E kind, keys : f \in CompError(key, kind, keys) \/ f \in CompWarning(key, kind, keys)
        \/ /\ StateClassImpossible(Str(body, "state_class"), Str(body, "device_class"))
           /\ f \in Strippable(key, "state_class", <<"state_class">>)
    BY Zenon DEF SensorFindings, When
  <1>2. StateClassImpossible(Str(body, "state_class"), Str(body, "device_class"))
          => Ousted("sensor", body, ignore, "state_class")
    BY Zenon DEF Ousted
  <1>3. QED
    BY <1>1, <1>2, NoStrips, StripsOne, Zenon

LEMMA NumberStrips ==
  ASSUME NEW key, NEW platform, NEW body, NEW ignore, NEW f \in NumberFindings(key, body)
  PROVE  Strips(f, platform, body, ignore)
  <1>1. \/ f \in UnreadBoundFindings(key, body)
        \/ \E kind, keys : f \in CompError(key, kind, keys) \/ f \in CompWarning(key, kind, keys)
    BY Zenon DEF NumberFindings, When
  <1>2. ASSUME f \in UnreadBoundFindings(key, body) PROVE \E keys : f \in CompError(key, "number_bounds", keys)
    BY <1>2 DEF UnreadBoundFindings
  <1>3. QED
    BY <1>1, <1>2, NoStrips, Zenon

LEMMA BodyStrips ==
  ASSUME NEW b, NEW key, NEW body, NEW ignore, NEW platform, platform = body.platform,
         NEW f \in BodyFindings(b, key, body, ignore)
  PROVE  Strips(f, platform, body, ignore)
  <1>1. \/ f \in CompError(key, "unique_id_duplicate", {"unique_id"})
        \/ platform \in DOMAIN Catalog.schema /\ f \in KeyFindings(key, platform, body, ignore)
        \/ f \in AvailabilityFindings(key, body)
        \/ f \in CompError(key, "device_class", {"device_class"})
        \/ f \in EntityCategoryFindings(key, platform, body)
        \/ platform = "sensor" /\ f \in SensorFindings(key, body)
        \/ f \in NumberFindings(key, body)
    BY Zenon DEF BodyFindings, When
  <1>2. f \in EntityCategoryFindings(key, platform, body) => f \in CompError(key, "entity_category", {"entity_category"})
    BY Zenon DEF EntityCategoryFindings, When
  <1>3. ASSUME platform = "sensor", f \in SensorFindings(key, body) PROVE Strips(f, platform, body, ignore)
    BY <1>3, SensorStrips, Zenon
  <1>4. ASSUME platform \in DOMAIN Catalog.schema, f \in KeyFindings(key, platform, body, ignore)
        PROVE  Strips(f, platform, body, ignore)
    BY <1>4, KeysStrip, Zenon
  <1>5. QED
    BY <1>1, <1>2, <1>3, <1>4, NoStrips, EntriesStrip, NumberStrips, Zenon

-----------------------------------------------------------------------------
(* What stripping leaves of a body.                                        *)

\* What stripping leaves of a body: its values, with the topics of its availability.
SameTopics(left, body) ==
  /\ DOMAIN Entries(left) \subseteq DOMAIN Entries(body)
  /\ \A i \in DOMAIN Entries(left) : Str(Entries(left)[i], "topic") = Str(Entries(body)[i], "topic")
LeftOf(left, body, platform, ignore) ==
  /\ DOMAIN left \subseteq DOMAIN body
  /\ \A x \in DOMAIN left \ {"availability"} : left[x] = body[x]
  /\ \A x \in DOMAIN body \ DOMAIN left : Ousted(platform, body, ignore, x)
  /\ SameTopics(left, body)

LEMMA StripEntryIs ==
  ASSUME NEW entry, NEW keys, keys \cap AvailabilityEntryKeys = {}
  PROVE  Str(StripEntry(entry, keys), "topic") = Str(entry, "topic")
  <1>1. PICK topic : topic = "topic"
    OBVIOUS
  <1>2. topic \in AvailabilityEntryKeys
    BY <1>1 DEF AvailabilityEntryKeys
  <1>3. topic \in DOMAIN StripEntry(entry, keys) <=> topic \in DOMAIN entry
    BY <1>2, RestrictIs DEF StripEntry
  <1>4. topic \in DOMAIN entry => StripEntry(entry, keys)[topic] = entry[topic]
    BY <1>2, RestrictIs DEF StripEntry
  <1>5. QED
    BY <1>1, <1>3, <1>4, StrIs, Zenon

\* What the findings name of an entry is nothing Home Assistant reads of it.
LEMMA EntriesLeft ==
  ASSUME NEW body, NEW fs, \A f \in fs : \A path \in f.keys : Idle(path) \/ \E x : path = <<x>>,
         NEW left, left = StripBody(body, fs)
  PROVE  SameTopics(left, body)
  <1>. DEFINE paths == UNION {f.keys : f \in fs}
              spared == {k \in DOMAIN body : <<k>> \notin paths}
              rest == Restrict(body, spared)
              named(i) == {k \in DOMAIN body.availability[i] : <<"availability", i, k>> \in paths}
              entry(i) == StripEntry(body.availability[i], named(i))
  <1>1. PICK where : where = "availability"
    OBVIOUS
  <1>2. DOMAIN rest = spared /\ \A x \in spared : rest[x] = body[x]
    BY RestrictIs
  <1>3. CASE where \notin spared
    <2>1. left = rest
      BY <1>1, <1>2, <1>3 DEF StripBody
    <2>2. Entries(left) = <<>>
      BY <1>1, <1>2, <1>3, <2>1 DEF Entries
    <2>3. DOMAIN Entries(left) = {}
      BY <2>2
    <2>4. QED
      BY <2>3 DEF SameTopics
  <1>4. CASE where \in spared
    <2>1. where \in DOMAIN body /\ rest[where] = body[where]
      BY <1>2, <1>4
    <2>2. rest.availability = body.availability
      BY <1>1, <2>1
    <2>3. left = [rest EXCEPT !.availability = [i \in DOMAIN rest.availability |-> entry(i)]]
      BY <1>1, <1>2, <1>4 DEF StripBody
    <2>4. PICK entries : entries = [i \in DOMAIN body.availability |-> entry(i)]
      OBVIOUS
    <2>5. left = [rest EXCEPT !.availability = entries]
      BY <2>2, <2>3, <2>4
    <2>6. rest = [x \in spared |-> body[x]]
      BY DEF Restrict
    <2>7. where \in DOMAIN left /\ left[where] = entries
      BY <1>1, <1>4, <2>5, <2>6
    <2>8. Entries(left) = entries /\ Entries(body) = body.availability
      BY <1>1, <2>1, <2>7 DEF Entries
    <2>9. ASSUME NEW i \in DOMAIN body.availability PROVE Str(entry(i), "topic") = Str(body.availability[i], "topic")
      <3>1. ASSUME NEW k \in named(i), k \in AvailabilityEntryKeys PROVE FALSE
        <4>1. PICK path : path = <<"availability", i, k>>
          OBVIOUS
        <4>2. PICK f \in fs : path \in f.keys
          BY <3>1, <4>1
        <4>3. CASE Idle(path)
          <5>1. PICK j, n : path = <<"availability", j, n>> /\ n \notin AvailabilityEntryKeys
            BY <4>3 DEF Idle
          <5>2. n = k
            <6>1. <<"availability", i, k>>[3] = k /\ <<"availability", j, n>>[3] = n
              OBVIOUS
            <6>2. QED
              BY <4>1, <5>1, <6>1
          <5>3. QED
            BY <3>1, <5>1, <5>2
        <4>4. CASE \E x : path = <<x>>
          <5>1. PICK x : path = <<x>>
            BY <4>4
          <5>2. Len(<<x>>) = 1 /\ Len(<<"availability", i, k>>) = 3
            OBVIOUS
          <5>3. QED
            BY <4>1, <5>1, <5>2
        <4>5. QED
          BY <4>2, <4>3, <4>4
      <3>2. named(i) \cap AvailabilityEntryKeys = {}
        BY <3>1
      <3>3. QED
        BY <3>2, StripEntryIs
    <2>10. DOMAIN entries = DOMAIN body.availability /\ \A i \in DOMAIN entries : entries[i] = entry(i)
      BY <2>4
    <2>11. QED
      BY <2>8, <2>9, <2>10 DEF SameTopics
  <1>5. QED
    BY <1>3, <1>4

LEMMA LeftIs ==
  ASSUME NEW c, NEW fs, NEW platform, NEW ignore, NEW body, body = Encoded(c),
         \A f \in fs : f.strippable /\ Strips(f, platform, body, ignore),
         NEW s, s = StripComponent(c, fs)
  PROVE  LeftOf(Encoded(s), body, platform, ignore)
  <1>1. PICK left, now : left = StripBody(body, fs) /\ s = ComponentFromBody(left) /\ now = Encoded(s)
    BY DEF StripComponent
  <1>2. /\ DOMAIN left \subseteq DOMAIN body
        /\ \A x \in DOMAIN left \ {"availability"} : left[x] = body[x]
        /\ \A x \in DOMAIN body \ DOMAIN left : \E f \in fs : <<x>> \in f.keys
    BY <1>1, StripBodyIs
  <1>3. DOMAIN now = DOMAIN left /\ \A x \in DOMAIN left : now[x] = left[x]
    <2>1. DOMAIN Encoded(s) = DOMAIN left /\ \A x \in DOMAIN left : Encoded(s)[x] = left[x]
      <3>1. s = ComponentFromBody(left)
        BY <1>1
      <3>2. QED
        BY <3>1, FromBodyIs, Zenon
    <2>2. QED
      BY <1>1, <2>1
  <1>4. \A f \in fs : \A path \in f.keys : Idle(path) \/ \E x : path = <<x>> /\ Ousted(platform, body, ignore, x)
    BY Zenon DEF Strips
  <1>5. ASSUME NEW x \in DOMAIN body \ DOMAIN left PROVE Ousted(platform, body, ignore, x)
    <2>1. PICK f \in fs : <<x>> \in f.keys
      BY <1>2, <1>5
    <2>2. ~Idle(<<x>>)
      <3>1. \A i, k : <<x>> # <<"availability", i, k>>
        <4>1. \A i, k : Len(<<x>>) = 1 /\ Len(<<"availability", i, k>>) = 3
          OBVIOUS
        <4>2. QED
          BY <4>1
      <3>2. QED
        BY <3>1, Zenon DEF Idle
    <2>3. PICK y : <<x>> = <<y>> /\ Ousted(platform, body, ignore, y)
      BY <1>4, <2>1, <2>2, Zenon
    <2>4. x = y
      BY <2>3
    <2>5. QED
      BY <2>3, <2>4
  <1>6. SameTopics(left, body)
    BY <1>1, <1>4, EntriesLeft, Zenon
  <1>7. Entries(now) = Entries(left)
    BY <1>3, Zenon DEF Entries
  <1>8. SameTopics(now, body)
    BY <1>6, <1>7 DEF SameTopics
  <1>9. LeftOf(now, body, platform, ignore)
    BY <1>2, <1>3, <1>5, <1>8 DEF LeftOf
  <1>10. QED
    BY <1>1, <1>9

-----------------------------------------------------------------------------
(* No rule reads a key that is stripped for being unknown.                 *)

\* The keys the rules of a platform read, beside those of every platform.
Read(platform) ==
  IF platform = "sensor" THEN {"state_class", "device_class", "unit_of_measurement", "options"}
  ELSE IF platform = "number" THEN {"min", "max", "step"} ELSE {}
Knows(platform, keys) ==
  Read(platform) \subseteq keys.allowed /\ keys.required \subseteq keys.allowed \ {"state_class"}

\* What a schema that dispatches is for a body: a variant's, or all that any has.
LEMMA SchemaKinds ==
  ASSUME KnowingCatalog, NEW platform \in DOMAIN Catalog.schema, NEW body,
         NEW s, s = Catalog.schema[platform], NEW schema, schema = Schema(platform, body)
  PROVE  \/ schema.allowed = {} /\ schema.required = {}
         \/ Knows(platform, schema) /\ (s.allowed # {} \/ s.discriminator \in schema.allowed)
  <1>. DEFINE knows(keys) == Knows(platform, keys)
  <1>1. /\ s.allowed # {} => knows(s)
        /\ s.allowed = {} => \A v \in DOMAIN s.variants :
             knows(s.variants[v]) /\ s.discriminator \in s.variants[v].allowed \ {"state_class", "availability"}
    BY Zenon DEF KnowingCatalog, Knows, Read
  <1>2. CASE s.allowed # {}
    <2>1. schema.allowed = s.allowed /\ schema.required = s.required
      BY <1>2 DEF Schema
    <2>2. QED
      BY <1>1, <1>2, <2>1 DEF Knows
  <1>3. CASE s.allowed = {} /\ Str(body, s.discriminator) \in DOMAIN s.variants
    <2>1. PICK v \in DOMAIN s.variants : schema = s.variants[v]
      BY <1>3 DEF Schema
    <2>2. QED
      BY <1>1, <1>3, <2>1
  <1>4. CASE s.allowed = {} /\ Str(body, s.discriminator) \notin DOMAIN s.variants
    <2>1. schema = [allowed |-> UNION {s.variants[v].allowed : v \in DOMAIN s.variants}, required |-> {}]
      BY <1>4 DEF Schema
    <2>2. schema.allowed = UNION {s.variants[v].allowed : v \in DOMAIN s.variants} /\ schema.required = {}
      BY <2>1
    <2>3. CASE DOMAIN s.variants = {}
      BY <2>2, <2>3
    <2>4. CASE DOMAIN s.variants # {}
      <3>1. PICK v \in DOMAIN s.variants : TRUE
        BY <2>4
      <3>2. s.variants[v].allowed \subseteq schema.allowed
        BY <2>2
      <3>3. knows(s.variants[v]) /\ s.discriminator \in s.variants[v].allowed
        BY <1>1, <1>4
      <3>4. QED
        BY <2>2, <3>2, <3>3 DEF Knows
    <2>5. QED
      BY <2>3, <2>4
  <1>5. QED
    BY <1>2, <1>3, <1>4

\* A key the rules read is stripped only as an impossible state class.
LEMMA ReadIsKept ==
  ASSUME KnowingCatalog, NEW platform, NEW body, NEW left, NEW ignore,
         LeftOf(left, body, platform, ignore), NEW x \in Read(platform),
         ~(x = "state_class" /\ StateClassImpossible(Str(body, "state_class"), Str(body, "device_class")))
  PROVE  /\ x \in DOMAIN left <=> x \in DOMAIN body
         /\ x \in DOMAIN body => left[x] = body[x]
  <1>1. ASSUME platform \in DOMAIN Catalog.schema PROVE x \notin UnknownKeys(platform, body, ignore)
    <2>1. PICK s, schema : s = Catalog.schema[platform] /\ schema = Schema(platform, body)
      OBVIOUS
    <2>2. schema.allowed = {} \/ Knows(platform, schema)
      BY <1>1, <2>1, SchemaKinds, Zenon
    <2>3. QED
      BY <2>1, <2>2 DEF UnknownKeys, Knows
  <1>2. ~Ousted(platform, body, ignore, x)
    BY <1>1, Zenon DEF Ousted
  <1>3. x # "availability"
    BY DEF Read
  <1>4. QED
    BY <1>2, <1>3 DEF LeftOf

LEMMA ReadStr ==
  ASSUME KnowingCatalog, NEW platform, NEW body, NEW left, NEW ignore,
         LeftOf(left, body, platform, ignore), NEW x \in Read(platform),
         ~(x = "state_class" /\ StateClassImpossible(Str(body, "state_class"), Str(body, "device_class")))
  PROVE  Str(left, x) = Str(body, x)
  <1>1. (x \in DOMAIN left <=> x \in DOMAIN body) /\ (x \in DOMAIN body => left[x] = body[x])
    BY ReadIsKept
  <1>2. QED
    BY <1>1, StrIs, Zenon

LEMMA StrLeft ==
  ASSUME NEW platform, NEW body, NEW left, NEW ignore, LeftOf(left, body, platform, ignore),
         NEW x, x # "availability"
  PROVE  x \in DOMAIN left => x \in DOMAIN body /\ left[x] = body[x] /\ Str(left, x) = Str(body, x)
  BY DEF LeftOf, Str

\* The schema of what is left is the schema there was, and no key of it is missing.
LEMMA MissingStays ==
  ASSUME KnowingCatalog, NEW platform \in DOMAIN Catalog.schema, NEW body, NEW left, NEW ignore,
         LeftOf(left, body, platform, ignore)
  PROVE  MissingKeys(platform, left) \subseteq MissingKeys(platform, body)
  <1>1. PICK s, schema : s = Catalog.schema[platform] /\ schema = Schema(platform, body)
    OBVIOUS
  <1>2. \/ schema.allowed = {} /\ schema.required = {}
        \/ Knows(platform, schema) /\ (s.allowed # {} \/ s.discriminator \in schema.allowed)
    BY <1>1, SchemaKinds, Zenon
  <1>3. Schema(platform, left) = schema
    <2>1. CASE s.allowed # {}
      BY <1>1, <2>1 DEF Schema
    <2>2. CASE s.allowed = {} /\ DOMAIN s.variants = {}
      BY <1>1, <2>2 DEF Schema
    <2>3. CASE s.allowed = {} /\ DOMAIN s.variants # {}
      <3>1. PICK disc : disc = s.discriminator
        OBVIOUS
      <3>2. PICK v \in DOMAIN s.variants : disc \in s.variants[v].allowed \ {"state_class", "availability"}
        BY <1>1, <2>3, <3>1, Zenon DEF KnowingCatalog
      <3>3. disc # "availability" /\ disc # "state_class"
        BY <3>2
      <3>4. disc \notin UnknownKeys(platform, body, ignore)
        BY <1>1, <1>2, <2>3, <3>1 DEF UnknownKeys
      <3>5. ~Ousted(platform, body, ignore, disc)
        BY <3>3, <3>4, Zenon DEF Ousted
      <3>6. disc \in DOMAIN left <=> disc \in DOMAIN body
        BY <3>5 DEF LeftOf
      <3>7. disc \in DOMAIN left => left[disc] = body[disc]
        BY <3>3 DEF LeftOf
      <3>8. Str(left, disc) = Str(body, disc)
        BY <3>6, <3>7, StrIs, Zenon
      <3>9. QED
        BY <1>1, <2>3, <3>1, <3>8 DEF Schema
    <2>4. QED
      BY <2>1, <2>2, <2>3
  <1>4. ASSUME NEW k \in schema.required, k \notin DOMAIN left, k \in DOMAIN body PROVE FALSE
    <2>1. Ousted(platform, body, ignore, k)
      BY <1>4 DEF LeftOf
    <2>2. k \in schema.allowed /\ k # "state_class"
      BY <1>2, <1>4 DEF Knows
    <2>3. k \notin UnknownKeys(platform, body, ignore)
      BY <1>1, <2>2 DEF UnknownKeys
    <2>4. QED
      BY <2>1, <2>2, <2>3, Zenon DEF Ousted
  <1>5. QED
    BY <1>1, <1>3, <1>4 DEF MissingKeys

-----------------------------------------------------------------------------
(* What a sensor or a number is refused for, it was refused for before.    *)

\* What a sensor is refused for, by what the rules read of it.
SensorRule(f, key, resets, options, listed, stateClass, deviceClass, raw) ==
  LET unit == IF raw = BlankUnit THEN "" ELSE raw
  IN  \/ /\ resets /\ stateClass # "total"
         /\ f \in CompError(key, "last_reset", {"last_reset_value_template", "state_class"})
      \/ options /\ ~listed /\ f \in CompError(key, "options", {"options"})
      \/ listed /\ deviceClass # "enum" /\ f \in CompError(key, "options", {"options", "device_class"})
      \/ listed /\ stateClass # "" /\ f \in CompError(key, "options", {"options", "state_class"})
      \/ listed /\ unit # "" /\ f \in CompError(key, "options", {"options", "unit_of_measurement"})
      \/ /\ stateClass \in DOMAIN Catalog.stateClassUnits
         /\ unit \notin Catalog.stateClassUnits[stateClass]
         /\ f \in CompError(key, "unit_state_class", {"unit_of_measurement", "state_class"})
      \/ /\ unit # "" /\ deviceClass \in DOMAIN Catalog.deviceClassUnits
         /\ Canonical(unit) \notin Catalog.deviceClassUnits[deviceClass]
         /\ f \in CompError(key, "unit_device_class", {"unit_of_measurement", "device_class"})
      \/ /\ NonNumeric(deviceClass) /\ unit # "" /\ ~options
         /\ f \in CompError(key, "numeric_expectation", {"unit_of_measurement", "device_class"})
SensorRuleOf(f, key, body) ==
  SensorRule(f, key, "last_reset_value_template" \in DOMAIN body, "options" \in DOMAIN body,
             "options" \in DOMAIN body /\ body.options # {}, Str(body, "state_class"),
             Str(body, "device_class"), Str(body, "unit_of_measurement"))

LEMMA SensorRules ==
  ASSUME NEW f, NEW key, NEW body, Refused(f)
  PROVE  f \in SensorFindings(key, body) <=> SensorRuleOf(f, key, body)
  <1>1. \A kind, keys : f \notin CompWarning(key, kind, keys)
    BY CompWarningIs DEF Refused
  <1>2. \A kind, path : f \notin Strippable(key, kind, path)
    BY StrippableIs DEF Refused
  <1>3. f \in SensorFindings(key, body) => SensorRuleOf(f, key, body)
    BY <1>1, <1>2, Zenon DEF SensorFindings, When, SensorRuleOf, SensorRule
  <1>4. SensorRuleOf(f, key, body) => f \in SensorFindings(key, body)
    BY Zenon DEF SensorFindings, When, SensorRuleOf, SensorRule
  <1>5. QED
    BY <1>3, <1>4

LEMMA SensorStays ==
  ASSUME KnowingCatalog, NEW key, NEW body, NEW left, NEW ignore, LeftOf(left, body, "sensor", ignore),
         ~Spoiled(body), NEW f \in SensorFindings(key, left), Refused(f)
  PROVE  f \in SensorFindings(key, body)
  <1>1. PICK sensor : sensor = "sensor" /\ LeftOf(left, body, sensor, ignore)
    OBVIOUS
  <1>2. Read(sensor) = {"state_class", "device_class", "unit_of_measurement", "options"}
    BY <1>1 DEF Read
  <1>3. PICK deviceKey, unitKey, optionsKey, classKey, resetKey :
          /\ deviceKey = "device_class" /\ unitKey = "unit_of_measurement" /\ optionsKey = "options"
          /\ classKey = "state_class" /\ resetKey = "last_reset_value_template"
    OBVIOUS
  <1>4. /\ deviceKey \in Read(sensor) /\ deviceKey # "state_class"
        /\ unitKey \in Read(sensor) /\ unitKey # "state_class"
        /\ optionsKey \in Read(sensor) /\ optionsKey # "state_class"
        /\ classKey \in Read(sensor) /\ classKey # "availability" /\ resetKey # "availability"
    BY <1>2, <1>3
  <1>5. Str(left, "device_class") = Str(body, "device_class")
    <2>1. Str(left, deviceKey) = Str(body, deviceKey)
      BY <1>1, <1>4, ReadStr
    <2>2. QED
      BY <1>3, <2>1
  <1>6. Str(left, "unit_of_measurement") = Str(body, "unit_of_measurement")
    <2>1. Str(left, unitKey) = Str(body, unitKey)
      BY <1>1, <1>4, ReadStr
    <2>2. QED
      BY <1>3, <2>1
  <1>7. ("options" \in DOMAIN left <=> "options" \in DOMAIN body) /\ ("options" \in DOMAIN body => left.options = body.options)
    <2>1. /\ optionsKey \in DOMAIN left <=> optionsKey \in DOMAIN body
          /\ optionsKey \in DOMAIN body => left[optionsKey] = body[optionsKey]
      BY <1>1, <1>4, ReadIsKept
    <2>2. QED
      BY <1>3, <2>1
  <1>8. "last_reset_value_template" \in DOMAIN left => "last_reset_value_template" \in DOMAIN body
    <2>1. resetKey \in DOMAIN left => resetKey \in DOMAIN body
      BY <1>1, <1>4, StrLeft
    <2>2. QED
      BY <1>3, <2>1
  <1>9. \/ Str(left, "state_class") = Str(body, "state_class")
        \/ Str(left, "state_class") = "" /\ StateClassImpossible(Str(body, "state_class"), Str(body, "device_class"))
    <2>1. CASE ~StateClassImpossible(Str(body, "state_class"), Str(body, "device_class"))
      <3>1. Str(left, classKey) = Str(body, classKey)
        BY <1>1, <1>4, <2>1, ReadStr
      <3>2. QED
        BY <1>3, <3>1
    <2>2. CASE StateClassImpossible(Str(body, "state_class"), Str(body, "device_class"))
      <3>1. "state_class" \in DOMAIN left => Str(left, "state_class") = Str(body, "state_class")
        <4>1. classKey \in DOMAIN left => Str(left, classKey) = Str(body, classKey)
          BY <1>1, <1>4, StrLeft
        <4>2. QED
          BY <1>3, <4>1
      <3>2. "state_class" \notin DOMAIN left => Str(left, "state_class") = ""
        BY Zenon DEF Str
      <3>3. QED
        BY <2>2, <3>1, <3>2, Zenon
    <2>3. QED
      BY <2>1, <2>2
  <1>10. PICK resets, was, options, listed, stateClass, old, deviceClass, raw :
          /\ resets = ("last_reset_value_template" \in DOMAIN left)
          /\ was = ("last_reset_value_template" \in DOMAIN body)
          /\ options = ("options" \in DOMAIN body)
          /\ listed = ("options" \in DOMAIN body /\ body.options # {})
          /\ stateClass = Str(left, "state_class") /\ old = Str(body, "state_class")
          /\ deviceClass = Str(body, "device_class") /\ raw = Str(body, "unit_of_measurement")
    OBVIOUS
  <1>11. SensorRule(f, key, resets, options, listed, stateClass, deviceClass, raw)
    <2>1. SensorRuleOf(f, key, left)
      BY SensorRules
    <2>2. ("options" \in DOMAIN left /\ left.options # {}) = listed
      BY <1>7, <1>10
    <2>3. ("options" \in DOMAIN left) = options
      BY <1>7, <1>10
    <2>4. QED
      BY <1>5, <1>6, <1>10, <2>1, <2>2, <2>3 DEF SensorRuleOf
  <1>12. resets => was
    BY <1>8, <1>10
  <1>13. stateClass = old \/ (stateClass = "" /\ StateClassImpossible(old, deviceClass))
    BY <1>9, <1>10, Zenon
  <1>14. ~(was /\ old = "total" /\ StateClassImpossible("total", deviceClass))
    BY <1>10, Zenon DEF Spoiled
  <1>15. resets /\ stateClass # "total" => was /\ old # "total"
    BY <1>12, <1>13, <1>14, Zenon
  <1>16. stateClass # "" => old # ""
    BY <1>13, Zenon
  <1>17. stateClass \in DOMAIN Catalog.stateClassUnits => stateClass = old
    BY <1>13, Zenon DEF KnowingCatalog
  <1>18. SensorRule(f, key, was, options, listed, old, deviceClass, raw)
    BY <1>11, <1>15, <1>16, <1>17, Zenon DEF SensorRule
  <1>19. SensorRuleOf(f, key, body)
    BY <1>10, <1>18, Zenon DEF SensorRuleOf
  <1>20. QED
    BY <1>19, SensorRules

LEMMA NumberStays ==
  ASSUME KnowingCatalog, NEW key, NEW body, NEW left, NEW ignore, LeftOf(left, body, "number", ignore),
         NEW f \in NumberFindings(key, left), Refused(f)
  PROVE  f \in NumberFindings(key, body)
  <1>1. PICK number : number = "number" /\ LeftOf(left, body, number, ignore)
    OBVIOUS
  <1>2. Read(number) = {"min", "max", "step"}
    BY <1>1 DEF Read
  <1>3. "min" # "state_class" /\ "max" # "state_class" /\ "step" # "state_class"
    OBVIOUS
  <1>4. \A n \in Read(number) : Bound(left, n) = Bound(body, n)
    <2>1. SUFFICES ASSUME NEW n \in Read(number) PROVE Bound(left, n) = Bound(body, n)
      OBVIOUS
    <2>2. (n \in DOMAIN left <=> n \in DOMAIN body) /\ (n \in DOMAIN body => left[n] = body[n])
      BY <1>1, <1>2, <1>3, <2>1, ReadIsKept
    <2>3. QED
      BY <2>2, Zenon DEF Bound
  <1>5. DOMAIN NumberDefault = Read(number)
    BY <1>2 DEF NumberDefault
  <1>6. UnreadBoundFindings(key, left) = UnreadBoundFindings(key, body)
    BY <1>4, <1>5 DEF UnreadBoundFindings
  <1>7. /\ Bound(left, "min") = Bound(body, "min") /\ Bound(left, "max") = Bound(body, "max")
        /\ Bound(left, "step") = Bound(body, "step")
    BY <1>2, <1>4
  <1>8. \A kind, keys : f \notin CompWarning(key, kind, keys)
    BY CompWarningIs DEF Refused
  <1>9. PICK low, high, step : low = Bound(body, "min") /\ high = Bound(body, "max") /\ step = Bound(body, "step")
    OBVIOUS
  <1>10. \/ f \in UnreadBoundFindings(key, body)
         \/ f \in When(\E s \in step : s < NumberMinStep, CompError(key, "number_bounds", {"step"}))
         \/ f \in When(\E l \in low, h \in high : l > h, CompError(key, "number_bounds", {"min", "max"}))
    <2>1. \/ f \in When(LegacyUnit(Str(left, "unit_of_measurement")),
                        CompWarning(key, "legacy_unit", {"unit_of_measurement"}))
          \/ f \in UnreadBoundFindings(key, left)
          \/ f \in When(\E s \in step : s < NumberMinStep, CompError(key, "number_bounds", {"step"}))
          \/ f \in When(\E l \in low, h \in high : l > h, CompError(key, "number_bounds", {"min", "max"}))
      BY <1>7, <1>9 DEF NumberFindings
    <2>2. QED
      BY <1>6, <1>8, <2>1, WhenIs, Zenon
  <1>11. QED
    BY <1>9, <1>10 DEF NumberFindings

-----------------------------------------------------------------------------
(* Stripping makes no error.                                               *)

LEMMA KeyErrorsStay ==
  ASSUME KnowingCatalog, NEW platform \in DOMAIN Catalog.schema, NEW body, NEW left, NEW ignore,
         LeftOf(left, body, platform, ignore), NEW key,
         NEW f \in KeyFindings(key, platform, left, ignore), Refused(f)
  PROVE  f \in KeyFindings(key, platform, body, ignore)
  <1>1. f \notin UnknownKeyFindings(key, platform, left, ignore)
    <2>1. ASSUME NEW k, f \in Strippable(key, "unknown_key", <<k>>) PROVE FALSE
      BY <2>1, StrippableIs DEF Refused
    <2>2. QED
      BY <2>1 DEF UnknownKeyFindings
  <1>2. PICK k \in MissingKeys(platform, left) : f \in CompError(key, "required_key", {k})
    BY <1>1 DEF KeyFindings, RequiredKeyFindings
  <1>3. k \in MissingKeys(platform, body)
    BY MissingStays
  <1>4. QED
    BY <1>2, <1>3 DEF KeyFindings, RequiredKeyFindings

LEMMA EntryErrorsStay ==
  ASSUME NEW body, NEW left, SameTopics(left, body), NEW key,
         NEW f \in AvailabilityFindings(key, left), Refused(f)
  PROVE  f \in AvailabilityFindings(key, body)
  <1>1. PICK i \in DOMAIN Entries(left) : f \in EntryFindings(key, Entries(left)[i], i)
    BY DEF AvailabilityFindings
  <1>2. PICK entry, was : entry = Entries(left)[i] /\ was = Entries(body)[i]
    OBVIOUS
  <1>3. i \in DOMAIN Entries(body) /\ Str(entry, "topic") = Str(was, "topic")
    BY <1>2 DEF SameTopics
  <1>4. ASSUME NEW k, f \in Strippable(key, "availability_key", <<"availability", i, k>>) PROVE FALSE
    BY <1>4, StrippableIs DEF Refused
  <1>5. f \in When(Str(entry, "topic") = "", CompError(key, "availability_topic", {}))
    BY <1>1, <1>2, <1>4 DEF EntryFindings
  <1>6. f \in EntryFindings(key, was, i)
    BY <1>3, <1>5 DEF EntryFindings
  <1>7. QED
    BY <1>2, <1>3, <1>6 DEF AvailabilityFindings

LEMMA ClassErrorsStay ==
  ASSUME NEW platform, NEW body, NEW left, NEW ignore, LeftOf(left, body, platform, ignore), NEW key, NEW f
  PROVE  /\ DeviceClassUnknown(platform, left) => DeviceClassUnknown(platform, body)
         /\ f \in EntityCategoryFindings(key, platform, left) => f \in EntityCategoryFindings(key, platform, body)
  <1>1. PICK classKey, categoryKey : classKey = "device_class" /\ categoryKey = "entity_category"
    OBVIOUS
  <1>2. classKey # "availability" /\ categoryKey # "availability"
    BY <1>1
  <1>3. classKey \in DOMAIN left => Str(left, classKey) = Str(body, classKey)
    BY <1>2, StrLeft
  <1>4. classKey \notin DOMAIN left => Str(left, classKey) = ""
    BY Zenon DEF Str
  <1>5. DeviceClassUnknown(platform, left) => DeviceClassUnknown(platform, body)
    <2>1. PICK now, was : now = Str(left, classKey) /\ was = Str(body, classKey)
      OBVIOUS
    <2>2. now = was \/ now = ""
      BY <1>3, <1>4, <2>1
    <2>3. now = Str(left, "device_class") /\ was = Str(body, "device_class")
      BY <1>1, <2>1
    <2>4. QED
      BY <2>2, <2>3 DEF DeviceClassUnknown
  <1>6. categoryKey \in DOMAIN left => categoryKey \in DOMAIN body /\ Str(left, categoryKey) = Str(body, categoryKey)
    BY <1>2, StrLeft
  <1>7. ASSUME f \in EntityCategoryFindings(key, platform, left) PROVE f \in EntityCategoryFindings(key, platform, body)
    <2>1. categoryKey \in DOMAIN left
      BY <1>1, <1>7, Zenon DEF EntityCategoryFindings, When
    <2>2. PICK now, was : now = Str(left, "entity_category") /\ was = Str(body, "entity_category")
      OBVIOUS
    <2>3. now = was /\ "entity_category" \in DOMAIN body
      BY <1>1, <1>6, <2>1, <2>2
    <2>4. QED
      BY <1>7, <2>2, <2>3 DEF EntityCategoryFindings, When
  <1>8. QED
    BY <1>5, <1>7

\* What Home Assistant refuses of what is left it refused before: stripping makes no error.
LEMMA ErrorsStay ==
  ASSUME KnowingCatalog, NEW body, NEW left, NEW ignore, NEW platform,
         platform = body.platform, platform = left.platform, LeftOf(left, body, platform, ignore),
         platform = "sensor" => ~Spoiled(body),
         NEW key, NEW b, NEW d, NEW f \in BodyFindings(d, key, left, ignore), Refused(f)
  PROVE  Duplicate(d, key) \/ f \in BodyFindings(b, key, body, ignore)
  <1>1. \/ Duplicate(d, key)
        \/ platform \in DOMAIN Catalog.schema /\ f \in KeyFindings(key, platform, left, ignore)
        \/ "availability" \notin ignore /\ f \in AvailabilityFindings(key, left)
        \/ DeviceClassUnknown(platform, left) /\ f \in CompError(key, "device_class", {"device_class"})
        \/ f \in EntityCategoryFindings(key, platform, left)
        \/ platform = "sensor" /\ f \in SensorFindings(key, left)
        \/ platform = "number" /\ f \in NumberFindings(key, left)
    BY Zenon DEF BodyFindings, When
  <1>2. \/ platform \in DOMAIN Catalog.schema /\ f \in KeyFindings(key, platform, body, ignore)
        \/ "availability" \notin ignore /\ f \in AvailabilityFindings(key, body)
        \/ DeviceClassUnknown(platform, body) /\ f \in CompError(key, "device_class", {"device_class"})
        \/ f \in EntityCategoryFindings(key, platform, body)
        \/ platform = "sensor" /\ f \in SensorFindings(key, body)
        \/ platform = "number" /\ f \in NumberFindings(key, body)
        => f \in BodyFindings(b, key, body, ignore)
    BY Zenon DEF BodyFindings, When
  <1>3. CASE platform \in DOMAIN Catalog.schema /\ f \in KeyFindings(key, platform, left, ignore)
    BY <1>2, <1>3, KeyErrorsStay, Zenon
  <1>4. CASE "availability" \notin ignore /\ f \in AvailabilityFindings(key, left)
    <2>1. SameTopics(left, body)
      BY DEF LeftOf
    <2>2. QED
      BY <1>2, <1>4, <2>1, EntryErrorsStay, Zenon
  <1>5. CASE DeviceClassUnknown(platform, left) /\ f \in CompError(key, "device_class", {"device_class"})
    BY <1>2, <1>5, ClassErrorsStay, Zenon
  <1>6. CASE f \in EntityCategoryFindings(key, platform, left)
    BY <1>2, <1>6, ClassErrorsStay, Zenon
  <1>7. CASE platform = "sensor" /\ f \in SensorFindings(key, left)
    <2>1. LeftOf(left, body, "sensor", ignore)
      BY <1>7
    <2>2. QED
      BY <1>2, <1>7, <2>1, SensorStays, Zenon
  <1>8. CASE platform = "number" /\ f \in NumberFindings(key, left)
    <2>1. LeftOf(left, body, "number", ignore)
      BY <1>8
    <2>2. QED
      BY <1>2, <1>8, <2>1, NumberStays, Zenon
  <1>9. QED
    BY <1>1, <1>3, <1>4, <1>5, <1>6, <1>7, <1>8

-----------------------------------------------------------------------------
(* What containment leaves of a component it keeps.                        *)

\* A component after its warnings are stripped, with the identity it had.
LeftOver(s, c, ignore) ==
  /\ Live(s) /\ Live(c)
  /\ EncodedPlatform(s) = EncodedPlatform(c) /\ EncodedID(s) = EncodedID(c)
  /\ LeftOf(Encoded(s), Encoded(c), EncodedPlatform(c), ignore)
  /\ Separable(Encoded(c)) /\ Separable(Encoded(s))
Same(s, c, ignore) == s = c \/ (KnowingCatalog /\ LeftOver(s, c, ignore))

\* A body that can be stripped can be stripped again.
LEMMA SeparableStays ==
  ASSUME KnowingCatalog, NEW body, NEW left, NEW ignore, NEW platform, platform = Str(body, "platform"),
         platform = Str(left, "platform"), LeftOf(left, body, platform, ignore), Separable(body)
  PROVE  Separable(left)
  <1>1. PICK resetKey, classKey, deviceKey, idKey :
          /\ resetKey = "last_reset_value_template" /\ classKey = "state_class"
          /\ deviceKey = "device_class" /\ idKey = "unique_id"
    OBVIOUS
  <1>2. resetKey # "availability" /\ classKey # "availability" /\ idKey # "availability" /\ deviceKey # "state_class"
    BY <1>1
  <1>3. ASSUME platform = "sensor", Spoiled(left) PROVE FALSE
    <2>1. LeftOf(left, body, "sensor", ignore)
      BY <1>3
    <2>2. PICK sensor : sensor = "sensor" /\ LeftOf(left, body, sensor, ignore)
      BY <2>1
    <2>3. deviceKey \in Read(sensor)
      BY <1>1, <2>2 DEF Read
    <2>4. Str(left, deviceKey) = Str(body, deviceKey)
      BY <1>2, <2>2, <2>3, ReadStr
    <2>5. resetKey \in DOMAIN left /\ Str(left, classKey) = "total"
      BY <1>1, <1>3 DEF Spoiled
    <2>6. resetKey \in DOMAIN body
      BY <1>2, <2>2, <2>5, StrLeft
    <2>7. classKey \in DOMAIN left
      BY <2>5, Zenon DEF Str
    <2>8. Str(body, classKey) = "total"
      <3>1. Str(left, classKey) = Str(body, classKey)
        BY <1>2, <2>2, <2>7, StrLeft
      <3>2. QED
        BY <2>5, <3>1
    <2>9. Spoiled(body)
      BY <1>1, <1>3, <2>4, <2>6, <2>8 DEF Spoiled
    <2>10. QED
      BY <1>3, <2>9 DEF Separable
  <1>4. ASSUME platform \in NonEntityPlatforms, Str(left, idKey) # "" PROVE FALSE
    <2>1. idKey \in DOMAIN left
      BY <1>4, Zenon DEF Str
    <2>2. Str(left, idKey) = Str(body, idKey)
      BY <1>2, <2>1, StrLeft
    <2>3. Str(body, idKey) = ""
      BY <1>1, <1>4 DEF Separable
    <2>4. QED
      BY <1>4, <2>2, <2>3
  <1>5. QED
    BY <1>1, <1>3, <1>4 DEF Separable

\* What containment leaves of a component it keeps.
LEMMA KeptIsSame ==
  ASSUME NamingCatalog, KnowingCatalog, NEW b, NEW ignore, NEW k \in DOMAIN b.components, k # "",
         k \notin Failing(b, ignore), NEW c, c = b.components[k], Separable(Encoded(c)),
         NEW fs, fs = MinorOf(b, ignore, k), fs # {}, NEW s, s = StripComponent(c, fs)
  PROVE  LeftOver(s, c, ignore)
  <1>1. Sound(c) /\ Live(c) /\ Stripped(s, c)
    BY KeptIsSound
  <1>2. PICK platform, body, left : platform = EncodedPlatform(c) /\ body = Encoded(c) /\ left = Encoded(s)
    OBVIOUS
  <1>3. platform # "" /\ body.platform = platform
    <2>1. EncodedPlatform(c) # ""
      BY <1>1, Zenon DEF Sound
    <2>2. QED
      BY <1>2, <2>1, EncodedPlatformIs
  <1>4. \A f \in fs : f.strippable /\ Strips(f, platform, body, ignore)
    <2>1. SUFFICES ASSUME NEW f \in fs PROVE f.strippable /\ Strips(f, platform, body, ignore)
      OBVIOUS
    <2>2. f \in Inspect(b, ignore) /\ f.component = k /\ f.strippable
      BY <2>1 DEF MinorOf, ForComponent
    <2>3. f \in ComponentFindings(b, k, ignore)
      BY <2>2, FindingsOf, Zenon
    <2>4. ComponentFindings(b, k, ignore) = BodyFindings(b, k, body, ignore)
      <3>1. ComponentFindings(b, k, ignore) = BodyFindings(b, k, Encoded(c), ignore)
        BY <1>1, ComponentFindingsAre
      <3>2. QED
        BY <1>2, <3>1
    <2>5. f \in BodyFindings(b, k, body, ignore)
      BY <2>3, <2>4
    <2>6. Strips(f, platform, body, ignore)
      BY <1>3, <2>5, BodyStrips
    <2>7. QED
      BY <2>2, <2>6
  <1>5. LeftOf(left, body, platform, ignore)
    BY <1>2, <1>4, LeftIs
  <1>6. Str(body, "platform") = platform /\ Str(left, "platform") = platform
    BY <1>1, <1>2, Zenon DEF Stripped, EncodedPlatform
  <1>7. Separable(body) /\ Separable(left)
    BY <1>2, <1>5, <1>6, SeparableStays
  <1>8. EncodedID(s) = EncodedID(c)
    <2>1. CASE Entity(platform)
      BY <1>1, <1>2, <2>1, Zenon DEF Stripped
    <2>2. CASE ~Entity(platform)
      BY <1>2, <1>6, <1>7, <2>2 DEF Separable, Entity, EncodedID
    <2>3. QED
      BY <2>1, <2>2
  <1>9. QED
    BY <1>1, <1>2, <1>5, <1>6, <1>7, <1>8 DEF LeftOver, Stripped, EncodedPlatform

\* What is refused of what is left was refused of the component, but for a duplicate.
LEMMA LeftErrors ==
  ASSUME KnowingCatalog, NEW b, NEW d, NEW k, NEW ignore, NEW c, c = b.components[k], NEW s, s = d.components[k],
         LeftOver(s, c, ignore), NEW f \in ComponentFindings(d, k, ignore), Refused(f)
  PROVE  (\E g \in ComponentFindings(b, k, ignore) : Refused(g)) \/ Duplicate(d, k)
  <1>1. PICK platform, body, left : platform = EncodedPlatform(c) /\ body = Encoded(c) /\ left = Encoded(s)
    OBVIOUS
  <1>2. EncodedPlatform(c) # "" /\ EncodedPlatform(s) # ""
    BY Zenon DEF LeftOver, Live, Sound
  <1>3. platform = body.platform /\ platform = left.platform
    <2>1. Encoded(c).platform = EncodedPlatform(c) /\ Encoded(s).platform = EncodedPlatform(s)
      BY <1>2, EncodedPlatformIs
    <2>2. QED
      BY <1>1, <2>1 DEF LeftOver
  <1>4. ComponentFindings(d, k, ignore) = BodyFindings(d, k, Encoded(s), ignore)
    BY ComponentFindingsAre DEF LeftOver
  <1>5. ComponentFindings(b, k, ignore) = BodyFindings(b, k, Encoded(c), ignore)
    BY ComponentFindingsAre DEF LeftOver
  <1>6. LeftOf(left, body, platform, ignore) /\ Separable(body)
    BY <1>1 DEF LeftOver
  <1>7. Str(body, "platform") = platform
    BY <1>1 DEF EncodedPlatform
  <1>8. platform = "sensor" => ~Spoiled(body)
    BY <1>6, <1>7 DEF Separable
  <1>9. f \in BodyFindings(d, k, left, ignore)
    BY <1>1, <1>4
  <1>10. Duplicate(d, k) \/ f \in BodyFindings(b, k, body, ignore)
    BY <1>3, <1>6, <1>8, <1>9, ErrorsStay
  <1>11. QED
    BY <1>1, <1>5, <1>10

LEMMA SameIdentities ==
  ASSUME NEW s, NEW c, NEW ignore, Same(s, c, ignore)
  PROVE  /\ IdentityKey(Encoded(s)) = IdentityKey(Encoded(c))
         /\ Inspectable(s) <=> Inspectable(c)
         /\ Live(s) <=> Live(c)
         /\ EncodedID(s) = EncodedID(c)
  <1>1. CASE s = c
    BY <1>1
  <1>2. CASE LeftOver(s, c, ignore)
    <2>1. EncodedPlatform(s) = EncodedPlatform(c) /\ EncodedID(s) = EncodedID(c) /\ Live(s) /\ Live(c)
      BY <1>2 DEF LeftOver
    <2>2. \A x : Live(x) => Inspectable(x)
      BY Zenon DEF Live, Sound, Inspectable, Removal, EncodedPlatform
    <2>3. IdentityKey(Encoded(s)) = IdentityKey(Encoded(c))
      BY <2>1 DEF IdentityKey, EncodedPlatform, EncodedID
    <2>4. QED
      BY <2>1, <2>2, <2>3
  <1>3. QED
    BY <1>1, <1>2 DEF Same

-----------------------------------------------------------------------------
(* What makes a component refused, in any document.                        *)

SameIdentity(x, y) == IdentityKey(Encoded(x)) = IdentityKey(Encoded(y))

\* Refused in whatever document it is.
Faulty(c, k, ignore) ==
  \A d : d.components[k] = c => \E f \in ComponentFindings(d, k, ignore) : Refused(f)
\* Refused for an earlier component of the document, or withheld with its twin.
Beaten(b, k, c) ==
  /\ Live(c) /\ EncodedID(c) # ""
  /\ \E j \in Earlier(k) \cap DOMAIN b.components :
        j # k /\ Inspectable(b.components[j]) /\ SameIdentity(b.components[j], c)
Paired(b, k, c) == \E j \in DOMAIN b.withheld : j # k /\ SameIdentity(b.withheld[j], c)

Clean(b, ignore) ==
  \A k \in DOMAIN b.components : ~ \E f \in ComponentFindings(b, k, ignore) : Refused(f)
Excused(b, ignore) ==
  \A k \in DOMAIN b.withheld :
    \/ Faulty(b.withheld[k], k, ignore)
    \/ Beaten(b, k, b.withheld[k]) \/ Paired(b, k, b.withheld[k])

\* What is found of a component is found in every document, but for a duplicate.
LEMMA FindingsMove ==
  ASSUME NEW b, NEW d, NEW k, NEW ignore, NEW c, c = b.components[k], c = d.components[k],
         NEW f \in ComponentFindings(b, k, ignore), Refused(f)
  PROVE  (\E g \in ComponentFindings(d, k, ignore) : Refused(g)) \/ (Live(c) /\ Duplicate(b, k))
  <1>1. CASE ~Sound(c)
    BY <1>1, UnsoundFindings, Zenon
  <1>2. CASE Sound(c) /\ ~Duplicate(b, k)
    <2>1. Live(c)
      BY <1>2, SoundFindings, Zenon
    <2>2. f \in BodyFindings(b, k, Encoded(c), ignore)
      BY <2>1, ComponentFindingsAre, Zenon
    <2>3. f \notin When(Duplicate(b, k), CompError(k, "unique_id_duplicate", {"unique_id"}))
      BY <1>2, Zenon DEF When
    <2>4. f \in BodyFindings(d, k, Encoded(c), ignore)
      BY <2>2, <2>3, Zenon DEF BodyFindings
    <2>5. f \in ComponentFindings(d, k, ignore)
      BY <2>1, <2>4, ComponentFindingsAre, Zenon
    <2>6. QED
      BY <2>5
  <1>3. CASE Sound(c) /\ Duplicate(b, k)
    <2>1. Live(c)
      BY <1>3, SoundFindings, Zenon
    <2>2. QED
      BY <1>3, <2>1
  <1>4. QED
    BY <1>1, <1>2, <1>3

\* The inspector's duplicate is an earlier component, and the other way round.
LEMMA DuplicateIsBeaten ==
  ASSUME NEW b, NEW k \in Keys, NEW c, c = b.components[k], Live(c)
  PROVE  Duplicate(b, k) <=> Beaten(b, k, c)
  <1>1. k \notin Earlier(k)
    BY OrderAssumption DEF Keys
  <1>2. Duplicate(b, k) <=>
          /\ EncodedID(c) # ""
          /\ \E j \in Earlier(k) \cap DOMAIN b.components :
                Inspectable(b.components[j]) /\ SameIdentity(b.components[j], c)
    BY Zenon DEF Duplicate, EncodedID, SameIdentity
  <1>3. ASSUME NEW j \in Earlier(k) PROVE j # k
    BY <1>1, <1>3
  <1>4. QED
    BY <1>2, <1>3, Zenon DEF Beaten

LEMMA BeatenIsRefused ==
  ASSUME NEW b, NEW k \in DOMAIN b.components, k \in Keys, NEW c, c = b.components[k], Beaten(b, k, c), NEW ignore
  PROVE  \E f \in ComponentFindings(b, k, ignore) : Refused(f)
  <1>1. Live(c) /\ Duplicate(b, k)
    <2>1. Live(c)
      BY DEF Beaten
    <2>2. QED
      BY <2>1, DuplicateIsBeaten
  <1>2. PICK f : f \in CompError(k, "unique_id_duplicate", {"unique_id"}) /\ Refused(f)
    BY CompErrorRefuses, Zenon
  <1>3. f \in When(Duplicate(b, k), CompError(k, "unique_id_duplicate", {"unique_id"}))
    BY <1>1, <1>2, WhenIs, Zenon
  <1>4. f \in BodyFindings(b, k, Encoded(c), ignore)
    BY <1>3, Zenon DEF BodyFindings
  <1>5. f \in ComponentFindings(b, k, ignore)
    BY <1>1, <1>4, ComponentFindingsAre, Zenon
  <1>6. QED
    BY <1>2, <1>5

\* A refused component is faulty, or an earlier one has its identity.
LEMMA RefusedIsExcused ==
  ASSUME NEW b, NEW k \in Keys, NEW c, c = b.components[k], NEW ignore,
         NEW f \in ComponentFindings(b, k, ignore), Refused(f)
  PROVE  Faulty(c, k, ignore) \/ Beaten(b, k, c)
  <1>1. CASE Live(c) /\ Duplicate(b, k)
    BY <1>1, DuplicateIsBeaten
  <1>2. CASE ~(Live(c) /\ Duplicate(b, k))
    <2>1. SUFFICES ASSUME NEW d, d.components[k] = c
                   PROVE  \E g \in ComponentFindings(d, k, ignore) : Refused(g)
      BY Zenon DEF Faulty
    <2>2. QED
      BY <1>2, <2>1, FindingsMove, Zenon
  <1>3. QED
    BY <1>1, <1>2

\* A document with no more live components than a clean one is clean, stripped or not.
LEMMA CleanKeeps ==
  ASSUME NEW b, NEW d, NEW ignore, DOMAIN d.components \subseteq Keys,
         \A k \in DOMAIN d.components :
           \/ Sound(d.components[k]) /\ Removal(d.components[k])
           \/ /\ k \in DOMAIN b.components /\ Same(d.components[k], b.components[k], ignore)
              /\ ~ \E f \in ComponentFindings(b, k, ignore) : Refused(f)
  PROVE  Clean(d, ignore)
  <1>1. SUFFICES ASSUME NEW k \in DOMAIN d.components, NEW f \in ComponentFindings(d, k, ignore), Refused(f)
                 PROVE  FALSE
    BY Zenon DEF Clean
  <1>2. PICK s, c : s = d.components[k] /\ c = b.components[k]
    OBVIOUS
  <1>3. ~(Sound(s) /\ Removal(s))
    BY <1>1, <1>2, ComponentFindingsAre
  <1>4. k \in DOMAIN b.components /\ Same(s, c, ignore) /\ ~ \E g \in ComponentFindings(b, k, ignore) : Refused(g)
    BY <1>1, <1>2, <1>3
  <1>5. Live(s) /\ Duplicate(d, k)
    <2>1. CASE s = c
      BY <1>1, <1>2, <1>4, <2>1, FindingsMove, Zenon
    <2>2. CASE KnowingCatalog /\ LeftOver(s, c, ignore)
      BY <1>1, <1>2, <1>4, <2>2, LeftErrors DEF LeftOver
    <2>3. QED
      BY <1>4, <2>1, <2>2 DEF Same
  <1>6. Beaten(d, k, s) /\ k \in Keys
    BY <1>1, <1>2, <1>5, DuplicateIsBeaten
  <1>7. PICK j \in Earlier(k) \cap DOMAIN d.components :
          j # k /\ Inspectable(d.components[j]) /\ SameIdentity(d.components[j], s)
    BY <1>6 DEF Beaten
  <1>8. ~Removal(d.components[j])
    BY <1>7, Zenon DEF Inspectable, Removal
  <1>9. j \in DOMAIN b.components /\ Same(d.components[j], b.components[j], ignore)
    BY <1>1, <1>7, <1>8
  <1>10. Beaten(b, k, c)
    <2>1. Inspectable(b.components[j])
      BY <1>7, <1>9, SameIdentities
    <2>2. SameIdentity(b.components[j], c)
      BY <1>4, <1>7, <1>9, SameIdentities DEF SameIdentity
    <2>3. Live(c) /\ EncodedID(c) # ""
      BY <1>4, <1>5, <1>6, SameIdentities DEF Beaten
    <2>4. QED
      BY <1>7, <1>9, <2>1, <2>2, <2>3 DEF Beaten
  <1>11. QED
    BY <1>2, <1>4, <1>6, <1>10, BeatenIsRefused, Zenon

\* What containment sets aside, with what was set aside before.
SetAside(out, f, S, g) ==
  /\ DOMAIN out = S \cup DOMAIN g
  /\ \A x \in S : out[x] = f[x]
  /\ \A x \in DOMAIN g \ S : out[x] = g[x]
LEMMA SetAsideIs ==
  ASSUME NEW f, NEW S, NEW g, NEW out, out = Over(Restrict(f, S), g)
  PROVE  SetAside(out, f, S, g)
  BY DEF SetAside, Over, Restrict

\* A document whose components can be stripped.
Whole(b) == \A k \in DOMAIN b.components : Separable(Encoded(b.components[k]))

\* What containment makes of a document.
LEMMA ContainCleans ==
  ASSUME NamingCatalog, NEW b, IsDocument(b), NamedDevice, DOMAIN b.components \subseteq Keys,
         DOMAIN b.withheld \cap DOMAIN b.components = {}, NEW ignore, Excused(b, ignore),
         NEW strip, strip => KnowingCatalog /\ Whole(b), NEW d, d = Contain(b, ignore, strip)
  PROVE  Clean(d, ignore) /\ Excused(d, ignore) /\ (strip => Whole(d))
  <1>1. PICK failing, now, out :
          /\ failing = Failing(b, ignore)
          /\ now = [k \in DOMAIN b.components \ failing |->
                      IF strip /\ MinorOf(b, ignore, k) # {}
                      THEN StripComponent(b.components[k], MinorOf(b, ignore, k)) ELSE b.components[k]]
          /\ out = Over(Restrict(b.components, failing), b.withheld)
    OBVIOUS
  <1>2. d = [b EXCEPT !.components = now, !.withheld = out]
    BY <1>1 DEF Contain, Failing, MinorOf
  <1>3. d.components = now /\ d.withheld = out
    BY <1>2 DEF IsDocument
  <1>4. failing \subseteq DOMAIN b.components
    BY <1>1 DEF Failing
  <1>5. /\ DOMAIN out = failing \cup DOMAIN b.withheld
        /\ \A k \in failing : out[k] = b.components[k]
        /\ \A k \in DOMAIN b.withheld \ failing : out[k] = b.withheld[k]
    <2>1. PICK f, g : f = b.components /\ g = b.withheld
      OBVIOUS
    <2>2. out = Over(Restrict(f, failing), g)
      BY <1>1, <2>1
    <2>3. SetAside(out, f, failing, g)
      BY <2>2, SetAsideIs, Zenon
    <2>4. QED
      BY <2>1, <2>3 DEF SetAside
  <1>6. \A k \in DOMAIN b.components : k \in failing <=> \E f \in ComponentFindings(b, k, ignore) : Refused(f)
    <2>1. SUFFICES ASSUME NEW k \in DOMAIN b.components
                   PROVE  k \in failing <=> \E f \in ComponentFindings(b, k, ignore) : Refused(f)
      OBVIOUS
    <2>2. k # ""
      BY <2>1 DEF NamedDevice
    <2>3. QED
      BY <1>1, <2>2, FailingIs
  <1>7. \A k \in DOMAIN b.components \ failing :
          Same(now[k], b.components[k], ignore) /\ (strip => Separable(Encoded(now[k])))
    <2>1. SUFFICES ASSUME NEW k \in DOMAIN b.components \ failing
                   PROVE  Same(now[k], b.components[k], ignore) /\ (strip => Separable(Encoded(now[k])))
      OBVIOUS
    <2>2. now[k] = IF strip /\ MinorOf(b, ignore, k) # {}
                   THEN StripComponent(b.components[k], MinorOf(b, ignore, k)) ELSE b.components[k]
      BY <1>1
    <2>3. CASE strip /\ MinorOf(b, ignore, k) # {}
      <3>1. k # "" /\ k \notin Failing(b, ignore) /\ Separable(Encoded(b.components[k]))
        BY <1>1, <2>1, <2>3 DEF NamedDevice, Whole
      <3>2. LeftOver(now[k], b.components[k], ignore)
        BY <2>2, <2>3, <3>1, KeptIsSame
      <3>3. QED
        BY <2>3, <3>2 DEF Same, LeftOver
    <2>4. CASE ~(strip /\ MinorOf(b, ignore, k) # {})
      BY <2>2, <2>4 DEF Same, Whole
    <2>5. QED
      BY <2>3, <2>4
  <1>8. strip => Whole(d)
    BY <1>1, <1>3, <1>7 DEF Whole
  <1>9. Clean(d, ignore)
    <2>1. DOMAIN d.components \subseteq Keys
      BY <1>1, <1>3
    <2>2. \A k \in DOMAIN d.components :
             /\ k \in DOMAIN b.components /\ Same(d.components[k], b.components[k], ignore)
             /\ ~ \E f \in ComponentFindings(b, k, ignore) : Refused(f)
      BY <1>1, <1>3, <1>6, <1>7
    <2>3. QED
      BY <2>1, <2>2, CleanKeeps, Zenon
  \* Who beat a withheld component is published still, or withheld by now.
  <1>10. ASSUME NEW k \in DOMAIN d.withheld, NEW c, Beaten(b, k, c)
        PROVE  Beaten(d, k, c) \/ Paired(d, k, c)
    <2>1. PICK j \in Earlier(k) \cap DOMAIN b.components :
            j # k /\ Inspectable(b.components[j]) /\ SameIdentity(b.components[j], c)
      BY <1>10 DEF Beaten
    <2>2. CASE j \in failing
      <3>1. j \in DOMAIN d.withheld /\ d.withheld[j] = b.components[j]
        BY <1>3, <1>5, <2>2
      <3>2. QED
        BY <2>1, <3>1 DEF Paired
    <2>3. CASE j \notin failing
      <3>1. j \in DOMAIN d.components /\ Same(d.components[j], b.components[j], ignore)
        BY <1>1, <1>3, <1>7, <2>1, <2>3
      <3>2. Inspectable(d.components[j]) /\ SameIdentity(d.components[j], c)
        BY <2>1, <3>1, SameIdentities DEF SameIdentity
      <3>3. QED
        BY <1>10, <2>1, <3>1, <3>2 DEF Beaten
    <2>4. QED
      BY <2>2, <2>3
  <1>11. ASSUME NEW k \in DOMAIN d.withheld
        PROVE  Faulty(d.withheld[k], k, ignore) \/ Beaten(d, k, d.withheld[k]) \/ Paired(d, k, d.withheld[k])
    <2>1. PICK c : c = d.withheld[k]
      OBVIOUS
    <2>2. CASE k \in failing
      <3>1. c = b.components[k] /\ k \in Keys
        BY <1>3, <1>4, <1>5, <2>1, <2>2
      <3>2. PICK f \in ComponentFindings(b, k, ignore) : Refused(f)
        BY <1>4, <1>6, <2>2
      <3>3. Faulty(c, k, ignore) \/ Beaten(b, k, c)
        BY <3>1, <3>2, RefusedIsExcused, Zenon
      <3>4. QED
        BY <1>10, <2>1, <3>3
    <2>3. CASE k \in DOMAIN b.withheld \ failing
      <3>1. c = b.withheld[k]
        BY <1>3, <1>5, <2>1, <2>3
      <3>2. Faulty(c, k, ignore) \/ Beaten(b, k, c) \/ Paired(b, k, c)
        BY <2>3, <3>1 DEF Excused
      <3>3. ASSUME Paired(b, k, c) PROVE Paired(d, k, c)
        <4>1. PICK j \in DOMAIN b.withheld : j # k /\ SameIdentity(b.withheld[j], c)
          BY <3>3 DEF Paired
        <4>2. j \notin failing
          BY <1>4, <4>1
        <4>3. j \in DOMAIN d.withheld /\ d.withheld[j] = b.withheld[j]
          BY <1>3, <1>5, <4>1, <4>2
        <4>4. QED
          BY <4>1, <4>3 DEF Paired
      <3>4. QED
        BY <1>10, <2>1, <3>2, <3>3
    <2>4. QED
      BY <1>3, <1>5, <1>11, <2>2, <2>3
  <1>12. QED
    BY <1>9, <1>11, <1>8 DEF Excused

-----------------------------------------------------------------------------
(* Containment leaves what Home Assistant accepts.                         *)

\* What stripping asks for, where it is done.
Careful == setting.strip => KnowingCatalog /\ SeparableDevice
AcceptInv ==
  Careful =>
    /\ Excused(bundle, setting.ignore)
    /\ setting.strip => Whole(bundle)
    /\ stage \in {"contained", "ready"} => Clean(bundle, setting.ignore)

LEMMA NothingWithheld ==
  ASSUME NEW b, DOMAIN b.withheld = {}, NEW ignore
  PROVE  Excused(b, ignore)
  BY DEF Excused

LEMMA FreshDocument ==
  ASSUME NEW components, NEW identified
  PROVE  /\ DOMAIN Document(Node, "origin", identified, components).withheld = {}
         /\ Document(Node, "origin", identified, components).components = components
  BY NoKeysIs DEF Document

LEMMA NothingToStrip == DOMAIN NoBundle.withheld = {} /\ Whole(NoBundle)
  BY FreshDocument, NoKeysIs DEF NoBundle, Whole

\* What the catalogue renders can be stripped; so can a tombstone.
LEMMA RenderedIsWhole ==
  ASSUME CycleInv, SeparableDevice, NEW b, b.components = Restrict(catalogue, Declared)
  PROVE  Whole(b)
  <1>1. SUFFICES ASSUME NEW k \in DOMAIN b.components PROVE Separable(Encoded(b.components[k]))
    BY DEF Whole
  <1>2. k \in Declared /\ b.components[k] = catalogue[k]
    BY RestrictIs
  <1>3. k \in Keys /\ catalogue[k] \in Rendered(k)
    BY <1>2, DeclaredKeys DEF CycleInv, CatalogueInv
  <1>4. QED
    BY <1>2, <1>3 DEF SeparableDevice

LEMMA RemovalIsSeparable ==
  ASSUME NEW c, Removal(c)
  PROVE  Separable(Encoded(c))
  <1>1. PICK resetKey, idKey : resetKey = "last_reset_value_template" /\ idKey = "unique_id"
    OBVIOUS
  <1>2. resetKey # "platform" /\ idKey # "platform"
    BY <1>1
  <1>3. resetKey \notin DOMAIN Encoded(c) /\ idKey \notin DOMAIN Encoded(c)
    BY <1>2 DEF Removal, IsRemoval
  <1>4. "last_reset_value_template" \notin DOMAIN Encoded(c) /\ Str(Encoded(c), "unique_id") = ""
    BY <1>1, <1>3, Zenon DEF Str
  <1>5. QED
    BY <1>4, Zenon DEF Separable, Spoiled

\* Tombstones make nobody's fault and nobody's duplicate.
LEMMA RemovalAccepts ==
  ASSUME NamingCatalog, NamedDevice, CycleInv, AcceptInv, Careful, RemoveGone
  PROVE  /\ Excused(bundle', setting.ignore)
         /\ setting.strip => Whole(bundle')
         /\ stage = "contained" => Clean(bundle', setting.ignore)
  <1>1. stage \in {"rendered", "contained"}
    BY DEF RemoveGone
  <1>2. HoldsDeclared(bundle) /\ HoldsTombstones(bundle, {})
    BY <1>1 DEF CycleInv, BundleInv
  <1>3. PICK d, ignore : d = bundle' /\ d \in Removals(bundle) /\ ignore = setting.ignore
    BY DEF RemoveGone
  <1>4. DOMAIN bundle.components \subseteq Declared /\ DOMAIN bundle.tombstones = {} /\ IsDocument(bundle)
    BY <1>2 DEF HoldsTombstones, HoldsDeclared
  <1>5. DOMAIN previous \subseteq Keys
    BY DEF CycleInv, MemoryInv
  <1>6. /\ d.withheld = bundle.withheld
        /\ DOMAIN d.components = Leaving \cup DOMAIN bundle.components
        /\ \A k \in Leaving : d.components[k] = Tombstone(Platform(previous[k]))
        /\ \A k \in DOMAIN bundle.components : d.components[k] = bundle.components[k]
    BY <1>3, <1>4, <1>5, RemovalIs
  <1>7. Leaving \subseteq DOMAIN previous /\ \A k \in Leaving : Platform(previous[k]) # ""
    BY DEF Leaving, Gone
  <1>8. Excused(d, ignore)
    <2>1. Excused(bundle, ignore)
      BY <1>3 DEF AcceptInv
    <2>2. \A k, c : Beaten(bundle, k, c) => Beaten(d, k, c)
      BY <1>6 DEF Beaten
    <2>3. \A k, c : Paired(bundle, k, c) => Paired(d, k, c)
      BY <1>6 DEF Paired
    <2>4. QED
      BY <1>6, <2>1, <2>2, <2>3 DEF Excused
  <1>9. ASSUME stage = "contained" PROVE Clean(d, ignore)
    <2>1. Clean(bundle, ignore)
      BY <1>3, <1>9 DEF AcceptInv
    <2>2. DOMAIN d.components \subseteq Keys
      BY <1>4, <1>5, <1>6, <1>7, DeclaredKeys
    <2>3. \A k \in Leaving : Sound(d.components[k]) /\ Removal(d.components[k])
      BY <1>6, <1>7, TombstonesAreSound DEF CycleInv
    <2>4. \A k \in DOMAIN bundle.components :
            Same(d.components[k], bundle.components[k], ignore)
            /\ ~ \E f \in ComponentFindings(bundle, k, ignore) : Refused(f)
      BY <1>6, <2>1 DEF Clean, Same
    <2>5. QED
      BY <1>6, <2>2, <2>3, <2>4, CleanKeeps, Zenon
  <1>10. ASSUME setting.strip PROVE Whole(d)
    <2>1. Whole(bundle)
      BY <1>10 DEF AcceptInv
    <2>2. \A k \in Leaving : Removal(d.components[k])
      BY <1>6, <1>7, TombstonesAreSound DEF CycleInv
    <2>3. QED
      BY <1>6, <2>1, <2>2, RemovalIsSeparable DEF Whole
  <1>11. QED
    BY <1>3, <1>8, <1>9, <1>10

LEMMA ContainAccepts ==
  ASSUME NamingCatalog, NamedDevice, CycleInv, AcceptInv, Careful,
         stage \in {"rendered", "removed"}
  PROVE  /\ Clean(Contained(bundle), setting.ignore) /\ Excused(Contained(bundle), setting.ignore)
         /\ setting.strip => Whole(Contained(bundle))
  <1>1. PICK T : T \subseteq DOMAIN previous /\ HoldsDeclared(bundle) /\ HoldsTombstones(bundle, T)
    <2>1. CASE stage = "rendered"
      <3>1. HoldsDeclared(bundle) /\ HoldsTombstones(bundle, {})
        BY <2>1 DEF CycleInv, BundleInv
      <3>2. QED
        BY <3>1
    <2>2. CASE stage = "removed"
      <3>1. HoldsDeclared(bundle) /\ HoldsTombstones(bundle, Left) /\ Left \subseteq DOMAIN previous
        BY <2>2 DEF CycleInv, BundleInv, Left
      <3>2. QED
        BY <3>1
    <2>3. QED
      BY <2>1, <2>2
  <1>2. PICK b, ignore, d : b = bundle /\ ignore = setting.ignore /\ d = Contained(bundle)
    OBVIOUS
  <1>3. d = Contain(b, ignore, setting.strip)
    BY <1>2 DEF Contained
  <1>4. IsDocument(b) /\ DOMAIN b.withheld \cap DOMAIN b.components = {}
    BY <1>1, <1>2 DEF HoldsDeclared
  <1>5. DOMAIN b.components \subseteq Keys
    BY <1>1, <1>2, BundleKeys DEF CycleInv
  <1>6. Excused(b, ignore) /\ (setting.strip => KnowingCatalog /\ Whole(b))
    BY <1>2 DEF AcceptInv, Careful
  <1>7. Clean(d, ignore) /\ Excused(d, ignore) /\ (setting.strip => Whole(d))
    BY <1>3, <1>4, <1>5, <1>6, ContainCleans
  <1>8. QED
    BY <1>2, <1>7

LEMMA StepAccepts ==
  ASSUME NamingCatalog, NamedDevice, CycleInv, AcceptInv, [Next]_vars
  PROVE  AcceptInv'
  <1>1. setting' = setting
    BY DEF Next, vars, Change, Render, ConsumerContains, PublisherContains, ContainFrom, RemoveGone, Begin,
           Supersede, PublishDocument, Fail, Sweep
  <1>2. SUFFICES ASSUME Careful
                 PROVE  /\ Excused(bundle, setting.ignore)'
                        /\ (setting.strip => Whole(bundle))'
                        /\ (stage \in {"contained", "ready"})' => Clean(bundle, setting.ignore)'
    BY <1>1 DEF AcceptInv, Careful
  <1>3. CASE bundle' = bundle /\ (stage' = stage \/ stage' = "sending")
    BY <1>1, <1>2, <1>3 DEF AcceptInv, Whole
  <1>4. CASE EndCycle
    <2>1. DOMAIN bundle'.withheld = {} /\ stage' = "idle"
      BY <1>4, NothingToStrip DEF EndCycle
    <2>2. Whole(bundle)'
      BY <1>4, NothingToStrip DEF EndCycle, Whole
    <2>3. QED
      BY <2>1, <2>2, NothingWithheld
  <1>5. CASE Render
    <2>1. /\ DOMAIN bundle'.withheld = {} /\ stage' = "rendered"
          /\ bundle'.components = Restrict(catalogue, Declared)
      BY <1>5, FreshDocument DEF Render
    <2>2. (setting.strip => Whole(bundle))'
      <3>1. setting.strip => Whole(bundle')
        BY <1>2, <2>1, RenderedIsWhole DEF Careful
      <3>2. QED
        BY <1>1, <3>1 DEF Whole
    <2>3. QED
      BY <2>1, <2>2, NothingWithheld
  <1>6. CASE RemoveGone
    <2>1. /\ Excused(bundle', setting.ignore) /\ (setting.strip => Whole(bundle'))
          /\ stage = "contained" => Clean(bundle', setting.ignore)
      BY <1>2, <1>6, RemovalAccepts
    <2>2. stage' \in {"contained", "ready"} => stage = "contained"
      BY <1>6 DEF RemoveGone
    <2>3. QED
      BY <1>1, <2>1, <2>2 DEF Whole
  <1>7. CASE ConsumerContains \/ PublisherContains
    <2>1. CASE Worthwhile(bundle)
      <3>1. bundle' = Contained(bundle) /\ stage \in {"rendered", "removed"}
        BY <1>7, <2>1 DEF ConsumerContains, PublisherContains, ContainFrom
      <3>2. /\ Clean(Contained(bundle), setting.ignore) /\ Excused(Contained(bundle), setting.ignore)
            /\ setting.strip => Whole(Contained(bundle))
        BY <1>2, <3>1, ContainAccepts
      <3>3. QED
        BY <1>1, <3>1, <3>2 DEF Whole
    <2>2. CASE ~Worthwhile(bundle)
      BY <1>4, <1>7, <2>2 DEF ConsumerContains, PublisherContains, ContainFrom
    <2>3. QED
      BY <2>1, <2>2
  <1>8. ASSUME NEW k \in Keys, Change(k) PROVE bundle' = bundle /\ stage' = stage
    BY <1>8 DEF Change
  <1>9. ASSUME NEW t \in todo, Supersede(t) PROVE bundle' = bundle /\ stage' = stage
    BY <1>9 DEF Supersede
  <1>10. Begin => bundle' = bundle /\ stage' = "sending"
    BY DEF Begin
  <1>11. (Sweep \/ UNCHANGED vars) => bundle' = bundle /\ stage' = stage
    BY DEF Sweep, vars
  <1>12. (PublishDocument \/ Fail) => EndCycle
    BY DEF PublishDocument, Fail
  <1>13. QED
    BY <1>3, <1>4, <1>5, <1>6, <1>7, <1>8, <1>9, <1>10, <1>11, <1>12 DEF Next

\* A withheld component, put back on its own.
LEMMA PutBack ==
  ASSUME NEW b, IsDocument(b), NEW k \in DOMAIN b.withheld \ DOMAIN b.components, k \in Keys, NEW ignore,
         Excused(b, ignore), ~Paired(b, k, b.withheld[k]),
         NEW back, back = [b EXCEPT !.components = Over([j \in {k} |-> b.withheld[k]], @)]
  PROVE  Errors(Inspect(back, ignore)) # {}
  <1>1. PICK c : c = b.withheld[k]
    OBVIOUS
  <1>2. PICK one, all : one = [j \in {k} |-> c] /\ all = Over(one, b.components)
    OBVIOUS
  <1>3. back.components = all
    BY <1>1, <1>2 DEF IsDocument
  <1>4. /\ DOMAIN all = {k} \cup DOMAIN b.components
        /\ all[k] = c
        /\ \A j \in DOMAIN b.components \ {k} : all[j] = b.components[j]
    BY <1>2 DEF Over
  <1>5. \E f \in ComponentFindings(back, k, ignore) : Refused(f)
    <2>1. CASE Faulty(c, k, ignore)
      BY <1>3, <1>4, <2>1 DEF Faulty
    <2>2. CASE Beaten(b, k, c)
      <3>1. Beaten(back, k, c)
        BY <1>3, <1>4, <2>2 DEF Beaten
      <3>2. QED
        BY <1>3, <1>4, <3>1, BeatenIsRefused
    <2>3. QED
      BY <1>1, <2>1, <2>2 DEF Excused
  <1>6. QED
    BY <1>3, <1>4, <1>5, InspectIs DEF Errors, Refused

LEMMA AcceptedAtLast ==
  ASSUME NamingCatalog, NamedDevice, CycleInv, AcceptInv, Careful
  PROVE  ContainedIsAccepted
  <1>1. SUFFICES ASSUME stage \in {"contained", "ready"}
                 PROVE  /\ Errors(Inspect(bundle, setting.ignore)) = {}
                        /\ \A k \in DOMAIN bundle.withheld \ DOMAIN bundle.components :
                             LET back == [bundle EXCEPT !.components = Over([j \in {k} |-> bundle.withheld[k]], @)]
                                 twin(j) == j # k /\ IdentityKey(Encoded(bundle.withheld[j]))
                                                       = IdentityKey(Encoded(bundle.withheld[k]))
                             IN  \/ Errors(Inspect(back, setting.ignore)) # {}
                                 \/ \E j \in DOMAIN bundle.withheld : twin(j)
    BY Zenon DEF ContainedIsAccepted
  <1>2. /\ Accepted(bundle) /\ HoldsDeclared(bundle)
        /\ Clean(bundle, setting.ignore) /\ Excused(bundle, setting.ignore)
    BY <1>1 DEF CycleInv, BundleInv, AcceptInv
  <1>3. Errors(Inspect(bundle, setting.ignore)) = {}
    <2>1. SUFFICES ASSUME NEW f \in Inspect(bundle, setting.ignore), Refused(f) PROVE FALSE
      BY DEF Errors, Refused
    <2>2. f \notin DocumentFindings(bundle)
      BY <1>2, <2>1, AddressedIsFine DEF Accepted
    <2>3. PICK k \in DOMAIN bundle.components : f \in ComponentFindings(bundle, k, setting.ignore)
      BY <2>1, <2>2, InspectIs, Zenon
    <2>4. QED
      BY <1>2, <2>1, <2>3 DEF Clean
  <1>4. ASSUME NEW k \in DOMAIN bundle.withheld \ DOMAIN bundle.components,
               NEW back, back = [bundle EXCEPT !.components = Over([j \in {k} |-> bundle.withheld[k]], @)]
        PROVE  \/ Errors(Inspect(back, setting.ignore)) # {}
               \/ \E j \in DOMAIN bundle.withheld :
                    j # k /\ IdentityKey(Encoded(bundle.withheld[j])) = IdentityKey(Encoded(bundle.withheld[k]))
    <2>1. IsDocument(bundle) /\ k \in Keys
      BY <1>2, <1>4, DeclaredKeys DEF HoldsDeclared
    <2>2. CASE Paired(bundle, k, bundle.withheld[k])
      BY <2>2, Zenon DEF Paired, SameIdentity
    <2>3. CASE ~Paired(bundle, k, bundle.withheld[k])
      BY <1>2, <1>4, <2>1, <2>3, PutBack
    <2>4. QED
      BY <2>2, <2>3
  <1>5. QED
    BY <1>3, <1>4, Zenon

\* Once the catalogue has been asked what stripping needs of it, or nothing is stripped.
LEMMA CarefulIsAccepted ==
  ASSUME NamingCatalog, NamedDevice
  PROVE  Spec => [](Careful => ContainedIsAccepted)
  <1>1. Spec => []CycleInv
    BY CyclesInvariant, PTL
  <1>2. Init => AcceptInv
    BY NothingToStrip, NothingWithheld DEF Init, AcceptInv
  <1>3. CycleInv /\ AcceptInv /\ [Next]_vars => AcceptInv'
    BY StepAccepts
  <1>4. CycleInv /\ AcceptInv => (Careful => ContainedIsAccepted)
    BY AcceptedAtLast
  <1>5. QED
    BY <1>1, <1>2, <1>3, <1>4, PTL DEF Spec

\* Unless warnings are stripped, what containment leaves is accepted by Home Assistant,
\* whatever tombstones are added and however often it is contained; and each withheld
\* component was at fault itself, or shares its identity with another
\* (Contain, contain.go:109).
THEOREM UnstrippedIsAccepted ==
  NamingCatalog /\ NamedDevice /\ Spec => [](setting.strip \/ ContainedIsAccepted)
  <1>1. SUFFICES ASSUME NamingCatalog, NamedDevice
                 PROVE  Spec => [](setting.strip \/ ContainedIsAccepted)
    OBVIOUS
  <1>2. (Careful => ContainedIsAccepted) => setting.strip \/ ContainedIsAccepted
    BY DEF Careful
  <1>3. QED
    BY <1>1, <1>2, CarefulIsAccepted, PTL

\* And where warnings are stripped, if the schemas know what the rules read: stripping
\* makes no component refused, takes none of its identity, and what is left can be
\* stripped again (stripComponent, contain.go:215).
THEOREM ContainmentIsAccepted ==
  NamingCatalog /\ NamedDevice /\ KnowingCatalog /\ SeparableDevice /\ Spec => []ContainedIsAccepted
  <1>1. SUFFICES ASSUME NamingCatalog, NamedDevice, KnowingCatalog, SeparableDevice
                 PROVE  Spec => []ContainedIsAccepted
    OBVIOUS
  <1>2. (Careful => ContainedIsAccepted) => ContainedIsAccepted
    BY <1>1 DEF Careful
  <1>3. QED
    BY <1>1, <1>2, CarefulIsAccepted, PTL

-----------------------------------------------------------------------------
(* What is said of a component, and what the two judges read of it.        *)

\* What is said of a component, whatever else is.
Says(f, key, kind) == f.component = key /\ f.kind = kind

LEMMA ErrorSays ==
  ASSUME NEW key, NEW kind, NEW keys, NEW f \in CompError(key, kind, keys)
  PROVE  Says(f, key, kind) /\ f.keys = Paths(keys) /\ Own(f, key)
  BY DEF CompError, Finding, Says, Own

LEMMA DocErrorSays ==
  ASSUME NEW key, NEW kind, NEW keys, NEW f \in DocError(key, kind, keys)
  PROVE  Says(f, key, kind) /\ f.scope = "document"
  BY DEF DocError, Finding, Says

\* And said as an error, if it is not of what is only warned of.
Gravely(f) == f.severity = "warning" => f.kind \in OnlyWarned
Tells(f, key, kind) == Says(f, key, kind) /\ Gravely(f)

LEMMA ErrorExists ==
  ASSUME NEW key, NEW kind, NEW keys
  PROVE  /\ \E f \in CompError(key, kind, keys) : Tells(f, key, kind)
         /\ \E f \in DocError(key, kind, keys) : Tells(f, key, kind)
  BY DEF CompError, DocError, Finding, Says, Tells, Gravely

LEMMA StrippableSays ==
  ASSUME NEW key, NEW kind \in OnlyWarned, NEW path
  PROVE  \E f \in Strippable(key, kind, path) : Tells(f, key, kind)
  BY DEF Strippable, Finding, Says, Tells, Gravely

LEMMA VerdictIs ==
  ASSUME NEW f, NEW key, NEW kind, kind # "non_finite", Says(f, key, kind)
  PROVE  Verdict(f) \in Issue(key, kind)
  BY Zenon DEF Verdict, Issue, Says

LEMMA IssueIs ==
  ASSUME NEW key, NEW kind, NEW i \in Issue(key, kind)
  PROVE  /\ i = [component |-> key, kind |-> kind]
         /\ Says(i, key, kind)
         /\ \A f : Says(f, key, kind) /\ kind # "non_finite" => Verdict(f) = i
  <1>1. i = [component |-> key, kind |-> kind]
    BY DEF Issue
  <1>2. Says(i, key, kind)
    BY <1>1 DEF Says
  <1>3. ASSUME NEW f, Says(f, key, kind), kind # "non_finite" PROVE Verdict(f) = i
    BY <1>1, <1>3, Zenon DEF Verdict, Says
  <1>4. QED
    BY <1>1, <1>2, <1>3

-----------------------------------------------------------------------------
\* What is read of a component nothing overrides.
LEMMA TypedAlike ==
  ASSUME NEW c, ~Overridden(c), NEW key \in {"platform", "availability"}
  PROVE  /\ key \in DOMAIN Encoded(c) <=> key \in DOMAIN c.typed
         /\ key \in DOMAIN Encoded(c) => Encoded(c)[key] = c.typed[key]
  <1>1. key \notin DOMAIN c.extra /\ key \notin DOMAIN c.fields
    BY DEF Overridden
  <1>2. key # "name"
    OBVIOUS
  <1>. DEFINE merged == Over(c.extra, Over(c.fields, c.typed))
  <1>3. /\ key \in DOMAIN merged <=> key \in DOMAIN c.typed
        /\ key \in DOMAIN merged => merged[key] = c.typed[key]
    BY <1>1 DEF Over
  <1>4. /\ key \in DOMAIN Over([name |-> Null], merged) <=> key \in DOMAIN merged
        /\ key \in DOMAIN merged => Over([name |-> Null], merged)[key] = merged[key]
    BY <1>2 DEF Over
  <1>5. Encoded(c) = merged \/ Encoded(c) = Over([name |-> Null], merged)
    BY DEF Encoded
  <1>6. QED
    BY <1>3, <1>4, <1>5

TypedEntries(c) == IF "availability" \in DOMAIN c.typed THEN c.typed.availability ELSE <<>>

LEMMA ReadAlike ==
  ASSUME NEW c, ~Overridden(c)
  PROVE  Platform(c) = EncodedPlatform(c) /\ TypedEntries(c) = Entries(Encoded(c))
  <1>1. Platform(c) = EncodedPlatform(c)
    BY TypedAlike, Zenon DEF Platform, EncodedPlatform, Str
  <1>2. TypedEntries(c) = Entries(Encoded(c))
    BY TypedAlike, Zenon DEF TypedEntries, Entries
  <1>3. QED
    BY <1>1, <1>2

\* A component with a unique id is no tombstone.
LEMMA IdentifiedIsLive ==
  ASSUME NEW c, EncodedID(c) # ""
  PROVE  ~Removal(c)
  BY DEF EncodedID, Str, Removal, IsRemoval

LEMMA RegistersAlike ==
  ASSUME NEW c, ~Overridden(c), EncodedID(c) # ""
  PROVE  Registers(c) <=> Inspectable(c)
  <1>1. ~IsRemoval(Encoded(c))
    BY IdentifiedIsLive DEF Removal
  <1>2. Platform(c) = Str(Encoded(c), "platform")
    BY ReadAlike, Zenon DEF EncodedPlatform
  <1>3. QED
    BY <1>1, <1>2, Zenon DEF Registers, Inspectable

LEMMA DuplicatesAlike ==
  ASSUME NEW b, NEW key \in DOMAIN b.components, EncodedID(b.components[key]) # "",
         \A k \in DOMAIN b.components : ~Overridden(b.components[k])
  PROVE  Duplicate(b, key) <=> ValidateDuplicate(b, key)
  <1>. DEFINE id(k) == <<Platform(b.components[k]), Str(Encoded(b.components[k]), "unique_id")>>
  <1>1. \A k \in (Earlier(key) \cap DOMAIN b.components) \cup {key} :
          id(k) = IdentityKey(Encoded(b.components[k]))
    BY ReadAlike, Zenon DEF EncodedPlatform, IdentityKey
  <1>2. ASSUME NEW k \in Earlier(key) \cap DOMAIN b.components, id(k) = id(key)
        PROVE  Registers(b.components[k]) <=> Inspectable(b.components[k])
    <2>1. EncodedID(b.components[k]) = EncodedID(b.components[key])
      BY <1>2 DEF EncodedID
    <2>2. QED
      BY <2>1, RegistersAlike, Zenon
  <1>3. id(key) = IdentityKey(Encoded(b.components[key]))
    BY <1>1
  <1>4. \A k \in Earlier(key) \cap DOMAIN b.components :
          Registers(b.components[k]) /\ id(k) = id(key)
            <=> /\ Inspectable(b.components[k])
                /\ IdentityKey(Encoded(b.components[k])) = IdentityKey(Encoded(b.components[key]))
    BY <1>1, <1>2, <1>3, Zenon
  <1>5. ValidateDuplicate(b, key) <=>
          \E k \in Earlier(key) \cap DOMAIN b.components : Registers(b.components[k]) /\ id(k) = id(key)
    BY Zenon DEF ValidateDuplicate
  <1>6. Duplicate(b, key) <=>
          \E k \in Earlier(key) \cap DOMAIN b.components :
             /\ Inspectable(b.components[k])
             /\ IdentityKey(Encoded(b.components[k])) = IdentityKey(Encoded(b.components[key]))
    BY Zenon DEF Duplicate, EncodedID
  <1>7. QED
    BY <1>4, <1>5, <1>6, Zenon

-----------------------------------------------------------------------------
(* The two judges, rule by rule.                                           *)

Newer(f) == f.kind \in NewRules
Misplaced(body) ==
  /\ "options" \in DOMAIN body /\ body.options # {}
  /\ \/ Str(body, "device_class") # "enum" \/ Str(body, "state_class") # ""
     \/ Str(body, "unit_of_measurement") # ""

LEMMA ValidateIs ==
  ASSUME NEW b, NEW key, NEW ignore, NEW c, c = b.components[key], ~Overridden(c), NEW x
  PROVE  x \in ValidateComponent(b, key, ignore) <=>
           \/ Topicless(Encoded(c)) /\ x \in Issue(key, "availability_topic")
           \/ x \in IF c.encodable /\ c.nonFinite = {}
                    THEN ValidateBody(b, key, EncodedPlatform(c), Encoded(c), ignore)
                    ELSE Issue(key, "unencodable")
  <1>. DEFINE topicless == \E i \in DOMAIN TypedEntries(c) : Str(TypedEntries(c)[i], "topic") = ""
  <1>1. topicless <=> Topicless(Encoded(c))
    <2>1. TypedEntries(c) = Entries(Encoded(c))
      BY ReadAlike
    <2>2. QED
      BY <2>1 DEF Topicless
  <1>2. ValidateComponent(b, key, ignore) =
          When(topicless, Issue(key, "availability_topic"))
          \cup IF c.encodable /\ c.nonFinite = {}
               THEN ValidateBody(b, key, Platform(c), Encoded(c), ignore)
               ELSE Issue(key, "unencodable")
    BY Zenon DEF ValidateComponent, TypedEntries
  <1>3. Platform(c) = EncodedPlatform(c)
    BY ReadAlike
  <1>4. x \in When(topicless, Issue(key, "availability_topic")) <=>
          topicless /\ x \in Issue(key, "availability_topic")
    BY WhenIs, Zenon
  <1>. HIDE DEF topicless
  <1>5. QED
    BY <1>1, <1>2, <1>3, <1>4, Zenon

LEMMA RelationsAre ==
  ASSUME NEW key, NEW platform, NEW body, NEW x
  PROVE  x \in SensorRelationIssues(key, platform, body) <=>
           \/ /\ StateClassImpossible(Str(body, "state_class"), Str(body, "device_class"))
              /\ x \in Issue(key, "state_class")
           \/ platform = "sensor" /\ Misplaced(body) /\ x \in Issue(key, "options")
  BY Zenon DEF SensorRelationIssues, When, Misplaced

LEMMA ValidateBodyIs ==
  ASSUME NEW b, NEW key, NEW platform, NEW body, NEW ignore, NEW x,
         platform # "", platform \in Catalog.supported, Str(body, "unique_id") # ""
  PROVE  x \in ValidateBody(b, key, platform, body, ignore) <=>
           \/ ValidateDuplicate(b, key) /\ x \in Issue(key, "unique_id_duplicate")
           \/ /\ platform \in DOMAIN Catalog.schema /\ UnknownKeys(platform, body, ignore) # {}
              /\ x \in Issue(key, "unknown_key")
           \/ /\ platform \in DOMAIN Catalog.schema /\ MissingKeys(platform, body) # {}
              /\ x \in Issue(key, "required_key")
           \/ DeviceClassUnknown(platform, body) /\ x \in Issue(key, "device_class")
           \/ x \in SensorRelationIssues(key, platform, body)
  BY Zenon DEF ValidateBody, When

\* What a sensor is refused for.
LEMMA SensorErrors ==
  ASSUME NEW key, NEW body, "options" \in DOMAIN body => body.options # {},
         NEW f \in SensorFindings(key, body), Refused(f)
  PROVE  Newer(f) \/ (Misplaced(body) /\ Says(f, key, "options"))
  <1>1. \/ \E kind \in {"last_reset", "unit_state_class", "unit_device_class", "numeric_expectation"} : \E keys :
             f \in CompError(key, kind, keys)
        \/ \E keys : Misplaced(body) /\ f \in CompError(key, "options", keys)
        \/ \E kind, keys : f \in CompWarning(key, kind, keys)
        \/ \E kind, path : f \in Strippable(key, kind, path)
    <2>. DEFINE stateClass == Str(body, "state_class")
                deviceClass == Str(body, "device_class")
                raw == Str(body, "unit_of_measurement")
                unit == IF raw = BlankUnit THEN "" ELSE raw
                listed == "options" \in DOMAIN body /\ body.options # {}
    <2>1. \/ f \in CompError(key, "last_reset", {"last_reset_value_template", "state_class"})
          \/ listed /\ deviceClass # "enum" /\ f \in CompError(key, "options", {"options", "device_class"})
          \/ listed /\ stateClass # "" /\ f \in CompError(key, "options", {"options", "state_class"})
          \/ listed /\ unit # "" /\ f \in CompError(key, "options", {"options", "unit_of_measurement"})
          \/ f \in CompError(key, "unit_state_class", {"unit_of_measurement", "state_class"})
          \/ f \in CompWarning(key, "legacy_unit", {"unit_of_measurement"})
          \/ f \in CompError(key, "unit_device_class", {"unit_of_measurement", "device_class"})
          \/ f \in Strippable(key, "state_class", <<"state_class">>)
          \/ f \in CompError(key, "numeric_expectation", {"unit_of_measurement", "device_class"})
      BY Zenon DEF SensorFindings, When
    <2>2. unit # "" => raw # ""
      BY Zenon DEF BlankUnit
    <2>. HIDE DEF unit
    <2>3. ASSUME listed /\ (deviceClass # "enum" \/ stateClass # "" \/ unit # "") PROVE Misplaced(body)
      BY <2>2, <2>3, Zenon DEF Misplaced
    <2>4. QED
      BY <2>1, <2>3, Zenon
  <1>2. ASSUME NEW kind \in {"last_reset", "unit_state_class", "unit_device_class", "numeric_expectation"},
               NEW keys, f \in CompError(key, kind, keys)
        PROVE  Newer(f)
    <2>1. f.kind = kind
      BY <1>2, ErrorSays DEF Says
    <2>2. kind \in NewRules
      BY Zenon DEF NewRules
    <2>3. QED
      BY <2>1, <2>2, Zenon DEF Newer
  <1>3. ASSUME NEW kind, NEW keys, f \in CompWarning(key, kind, keys) PROVE FALSE
    BY <1>3, CompWarningIs DEF Refused
  <1>4. ASSUME NEW kind, NEW path, f \in Strippable(key, kind, path) PROVE FALSE
    BY <1>4, StrippableIs DEF Refused
  <1>5. ASSUME NEW keys, f \in CompError(key, "options", keys) PROVE Says(f, key, "options")
    BY <1>5, ErrorSays, Zenon
  <1>6. QED
    BY <1>1, <1>2, <1>3, <1>4, <1>5, Zenon

LEMMA NumberErrors ==
  ASSUME NEW key, NEW body, NEW f \in NumberFindings(key, body), Refused(f)
  PROVE  Newer(f)
  <1>1. (\E keys : f \in CompError(key, "number_bounds", keys)) \/ (\E kind, keys : f \in CompWarning(key, kind, keys))
    <2>1. \/ f \in CompWarning(key, "legacy_unit", {"unit_of_measurement"})
          \/ f \in UnreadBoundFindings(key, body)
          \/ f \in CompError(key, "number_bounds", {"step"})
          \/ f \in CompError(key, "number_bounds", {"min", "max"})
      BY Zenon DEF NumberFindings, When
    <2>2. ASSUME f \in UnreadBoundFindings(key, body) PROVE \E keys : f \in CompError(key, "number_bounds", keys)
      BY <2>2 DEF UnreadBoundFindings
    <2>3. QED
      BY <2>1, <2>2, Zenon
  <1>2. ASSUME NEW kind, NEW keys, f \in CompWarning(key, kind, keys) PROVE FALSE
    BY <1>2, CompWarningIs DEF Refused
  <1>3. ASSUME NEW keys, f \in CompError(key, "number_bounds", keys) PROVE Newer(f)
    <2>1. f.kind = "number_bounds"
      BY <1>3, ErrorSays DEF Says
    <2>2. "number_bounds" \in NewRules
      BY DEF NewRules
    <2>3. QED
      BY <2>1, <2>2, Zenon DEF Newer
  <1>4. QED
    BY <1>1, <1>2, <1>3, Zenon

-----------------------------------------------------------------------------
(* What Inspect refuses of a component, Validate reports.                  *)

\* Of the errors below the identity.
Ruled(platform, body, f, key) ==
  \/ Newer(f)
  \/ /\ platform \in DOMAIN Catalog.schema /\ MissingKeys(platform, body) # {}
     /\ Says(f, key, "required_key")
  \/ Topicless(body) /\ Says(f, key, "availability_topic")
  \/ DeviceClassUnknown(platform, body) /\ Says(f, key, "device_class")
  \/ platform = "sensor" /\ Misplaced(body) /\ Says(f, key, "options")

LEMMA BodyErrors ==
  ASSUME NEW b, NEW key, NEW body, NEW ignore, NEW f \in BodyFindings(b, key, body, ignore), Refused(f),
         body.platform = "sensor" /\ "options" \in DOMAIN body => body.options # {}
  PROVE  \/ Duplicate(b, key) /\ Says(f, key, "unique_id_duplicate")
         \/ Ruled(body.platform, body, f, key)
  <1>1. PICK platform : platform = body.platform
    OBVIOUS
  <1>2. \/ Duplicate(b, key) /\ f \in CompError(key, "unique_id_duplicate", {"unique_id"})
        \/ platform \in DOMAIN Catalog.schema /\ f \in KeyFindings(key, platform, body, ignore)
        \/ f \in AvailabilityFindings(key, body)
        \/ DeviceClassUnknown(platform, body) /\ f \in CompError(key, "device_class", {"device_class"})
        \/ f \in EntityCategoryFindings(key, platform, body)
        \/ platform = "sensor" /\ f \in SensorFindings(key, body)
        \/ f \in NumberFindings(key, body)
    BY <1>1, Zenon DEF BodyFindings, When
  <1>3. ASSUME NEW kind, NEW path, f \in Strippable(key, kind, path) PROVE FALSE
    BY <1>3, StrippableIs DEF Refused
  <1>4. ASSUME platform \in DOMAIN Catalog.schema, f \in KeyFindings(key, platform, body, ignore)
        PROVE  Ruled(platform, body, f, key)
    <2>1. ASSUME f \in UnknownKeyFindings(key, platform, body, ignore) PROVE FALSE
      BY <1>3, <2>1 DEF UnknownKeyFindings
    <2>2. f \in RequiredKeyFindings(key, platform, body)
      BY <1>4, <2>1 DEF KeyFindings
    <2>3. PICK k \in MissingKeys(platform, body) : f \in CompError(key, "required_key", {k})
      BY <2>2 DEF RequiredKeyFindings
    <2>4. Says(f, key, "required_key")
      BY <2>3, ErrorSays
    <2>5. MissingKeys(platform, body) # {}
      BY <2>3
    <2>6. QED
      BY <1>4, <2>4, <2>5, Zenon DEF Ruled
  <1>5. ASSUME f \in AvailabilityFindings(key, body) PROVE Ruled(platform, body, f, key)
    <2>1. PICK i \in DOMAIN Entries(body) : f \in EntryFindings(key, Entries(body)[i], i)
      BY <1>5 DEF AvailabilityFindings
    <2>2. PICK entry : entry = Entries(body)[i]
      OBVIOUS
    <2>3. f \notin UNION {Strippable(key, "availability_key", <<"availability", i, k>>)
                            : k \in DOMAIN entry \ AvailabilityEntryKeys}
      BY <1>3
    <2>4. f \in When(Str(entry, "topic") = "", CompError(key, "availability_topic", {}))
      BY <2>1, <2>2, <2>3 DEF EntryFindings
    <2>5. Str(entry, "topic") = "" /\ f \in CompError(key, "availability_topic", {})
      BY <2>4, WhenIs, Zenon
    <2>6. Says(f, key, "availability_topic")
      BY <2>5, ErrorSays
    <2>7. QED
      BY <2>1, <2>2, <2>5, <2>6, Zenon DEF Ruled, Topicless
  <1>6. ASSUME f \in EntityCategoryFindings(key, platform, body) PROVE Newer(f)
    <2>1. f \in CompError(key, "entity_category", {"entity_category"})
      BY <1>6, Zenon DEF EntityCategoryFindings, When
    <2>2. f.kind = "entity_category"
      BY <2>1, ErrorSays DEF Says
    <2>3. "entity_category" \in NewRules
      BY DEF NewRules
    <2>4. QED
      BY <2>2, <2>3, Zenon DEF Newer
  <1>7. ASSUME NEW kind, NEW keys, f \in CompError(key, kind, keys) PROVE Says(f, key, kind)
    BY <1>7, ErrorSays
  <1>8. ASSUME platform = "sensor", f \in SensorFindings(key, body) PROVE Ruled(platform, body, f, key)
    BY <1>1, <1>8, SensorErrors, Zenon DEF Ruled
  <1>9. ASSUME f \in NumberFindings(key, body) PROVE Newer(f)
    BY <1>9, NumberErrors
  <1>10. Newer(f) => Ruled(platform, body, f, key)
    BY Zenon DEF Ruled
  <1>11. DeviceClassUnknown(platform, body) /\ Says(f, key, "device_class") => Ruled(platform, body, f, key)
    BY Zenon DEF Ruled
  <1>12. \/ Duplicate(b, key) /\ Says(f, key, "unique_id_duplicate")
         \/ Ruled(platform, body, f, key)
    BY <1>2, <1>4, <1>5, <1>6, <1>7, <1>8, <1>9, <1>10, <1>11, Zenon
  <1>13. QED
    BY <1>1, <1>12

Reported(b, key, ignore, f) ==
  \/ Verdict(f) \in ValidateComponent(b, key, ignore)
  \/ OnTag(b, key) /\ Unnamed(key) \in ValidateComponent(b, key, ignore)

\* What is said of a component is reported, by the name Validate has for it.
LEMMA SaidIsReported ==
  ASSUME NEW b, NEW key, NEW ignore, NEW f, NEW kind, kind # "non_finite", Says(f, key, kind),
         \A x \in Issue(key, kind) : x \in ValidateComponent(b, key, ignore)
  PROVE  Reported(b, key, ignore, f)
  <1>1. Verdict(f) \in Issue(key, kind)
    BY VerdictIs
  <1>2. QED
    BY <1>1, Zenon DEF Reported

\* What is said of a document error.
LEMMA IdentityErrors ==
  ASSUME NEW b, NEW key, NEW ignore, NEW c, c = b.components[key], c.nonFinite = {}, c.encodable,
         NEW f \in ComponentFindings(b, key, ignore)
  PROVE  \/ EncodedPlatform(c) = "" /\ Says(f, key, "platform_missing")
         \/ /\ EncodedPlatform(c) # "" /\ EncodedPlatform(c) \notin Catalog.supported
            /\ Says(f, key, "platform_unsupported")
         \/ /\ EncodedPlatform(c) # "" /\ EncodedPlatform(c) \in Catalog.supported /\ ~Removal(c)
            /\ \/ EncodedID(c) = "" /\ EncodedPlatform(c) \in NonEntityPlatforms
               \/ EncodedID(c) = "" /\ Says(f, key, "unique_id_missing")
               \/ EncodedID(c) # "" /\ f \in BodyFindings(b, key, Encoded(c), ignore)
  <1>1. ComponentFindings(b, key, ignore) =
          IF EncodedPlatform(c) = "" THEN DocError(key, "platform_missing", {"platform"})
          ELSE IF EncodedPlatform(c) \notin Catalog.supported
               THEN DocError(key, "platform_unsupported", {"platform"})
          ELSE IF Removal(c) THEN {}
          ELSE IF EncodedID(c) = "" /\ EncodedPlatform(c) \notin NonEntityPlatforms
               THEN DocError(key, "unique_id_missing", {"unique_id"})
          ELSE BodyFindings(b, key, Encoded(c), ignore)
    BY Zenon DEF ComponentFindings, EncodedPlatform, EncodedID, Removal
  <1>2. ASSUME NEW kind, NEW keys, f \in DocError(key, kind, keys) PROVE Says(f, key, kind)
    BY <1>2, DocErrorSays
  <1>3. f \notin {}
    OBVIOUS
  <1>4. CASE EncodedPlatform(c) = ""
    BY <1>1, <1>2, <1>4, Zenon
  <1>5. CASE EncodedPlatform(c) # "" /\ EncodedPlatform(c) \notin Catalog.supported
    BY <1>1, <1>2, <1>5, Zenon
  <1>6. CASE EncodedPlatform(c) # "" /\ EncodedPlatform(c) \in Catalog.supported
    <2>1. ~Removal(c)
      BY <1>1, <1>6, <1>3, Zenon
    <2>2. \/ EncodedID(c) = "" /\ EncodedPlatform(c) \in NonEntityPlatforms
          \/ EncodedID(c) = "" /\ Says(f, key, "unique_id_missing")
          \/ EncodedID(c) # "" /\ f \in BodyFindings(b, key, Encoded(c), ignore)
      BY <1>1, <1>2, <1>6, <2>1, Zenon
    <2>3. QED
      BY <1>6, <2>1, <2>2, Zenon
  <1>7. QED
    BY <1>4, <1>5, <1>6, Zenon

LEMMA ErrorsAreReported ==
  ASSUME NEW b, NEW ignore, NEW key \in DOMAIN b.components,
         NEW f \in ComponentFindings(b, key, ignore), Refused(f), ~Newer(f), CommonGround(b, ignore)
  PROVE  Reported(b, key, ignore, f)
  <1>1. \A k \in DOMAIN b.components : ~Overridden(b.components[k]) /\ CommonBody(Encoded(b.components[k]))
    BY Zenon DEF CommonGround
  <1>2. PICK c : c = b.components[key]
    OBVIOUS
  <1>3. ~Overridden(c) /\ CommonBody(Encoded(c))
    BY <1>1, <1>2
  <1>4. CASE c.nonFinite # {} \/ ~c.encodable
    <2>1. f \in DocError(key, "non_finite", c.nonFinite) \/ f \in DocError(key, "unencodable", {})
      BY <1>2, <1>4, Zenon DEF ComponentFindings
    <2>2. Says(f, key, "non_finite") \/ Says(f, key, "unencodable")
      BY <2>1, DocErrorSays
    <2>3. Verdict(f) \in Issue(key, "unencodable")
      BY <2>2, Zenon DEF Says, Verdict, Issue
    <2>4. QED
      BY <1>2, <1>3, <1>4, <2>3, ValidateIs, Zenon DEF Reported
  <1>5. CASE c.nonFinite = {} /\ c.encodable
    <2>1. PICK platform, body : platform = EncodedPlatform(c) /\ body = Encoded(c)
      OBVIOUS
    <2>2. \A x : x \in ValidateBody(b, key, platform, body, ignore) => x \in ValidateComponent(b, key, ignore)
      BY <1>2, <1>3, <1>5, <2>1, ValidateIs, Zenon
    <2>3. CASE platform = "" /\ Says(f, key, "platform_missing")
      <3>1. ValidateBody(b, key, platform, body, ignore) = Issue(key, "platform_missing")
        BY <2>3, Zenon DEF ValidateBody
      <3>2. QED
        BY <2>2, <2>3, <3>1, SaidIsReported, Zenon
    <2>4. CASE platform # "" /\ platform \notin Catalog.supported /\ Says(f, key, "platform_unsupported")
      <3>1. ValidateBody(b, key, platform, body, ignore) = Issue(key, "platform_unsupported")
        BY <2>4, Zenon DEF ValidateBody
      <3>2. QED
        BY <2>2, <2>4, <3>1, SaidIsReported, Zenon
    <2>5. CASE /\ platform # "" /\ platform \in Catalog.supported /\ ~Removal(c) /\ EncodedID(c) = ""
               /\ (platform \in NonEntityPlatforms \/ Says(f, key, "unique_id_missing"))
      <3>1. ValidateBody(b, key, platform, body, ignore) = Issue(key, "unique_id_missing")
        BY <2>1, <2>5, Zenon DEF ValidateBody, EncodedID, Removal, When
      <3>2. Unnamed(key) \in Issue(key, "unique_id_missing")
        BY DEF Issue, Unnamed
      <3>3. CASE platform \in NonEntityPlatforms
        <4>1. OnTag(b, key)
          BY <1>2, <2>1, <3>3, Zenon DEF OnTag, EncodedPlatform
        <4>2. QED
          BY <2>2, <3>1, <3>2, <4>1, Zenon DEF Reported
      <3>4. CASE Says(f, key, "unique_id_missing")
        BY <2>2, <3>1, <3>4, SaidIsReported, Zenon
      <3>5. QED
        BY <2>5, <3>3, <3>4
    <2>6. CASE /\ platform # "" /\ platform \in Catalog.supported /\ EncodedID(c) # ""
               /\ f \in BodyFindings(b, key, body, ignore)
      <3>1. Str(body, "unique_id") # ""
        BY <2>1, <2>6, Zenon DEF EncodedID
      <3>2. body.platform = platform
        BY <2>1, <2>6, EncodedPlatformIs, Zenon
      <3>3. \/ Duplicate(b, key) /\ Says(f, key, "unique_id_duplicate")
            \/ Ruled(platform, body, f, key)
        <4>1. platform = "sensor" /\ "options" \in DOMAIN body => body.options # {}
          BY <1>3, <2>1, Zenon DEF CommonBody, EncodedPlatform
        <4>2. QED
          BY <2>6, <3>2, <4>1, BodyErrors
      <3>4. CASE Duplicate(b, key) /\ Says(f, key, "unique_id_duplicate")
        <4>1. ValidateDuplicate(b, key)
          BY <1>1, <1>2, <2>6, <3>4, DuplicatesAlike, Zenon
        <4>2. \A x \in Issue(key, "unique_id_duplicate") : x \in ValidateComponent(b, key, ignore)
          BY <2>2, <2>6, <3>1, <4>1, ValidateBodyIs, Zenon
        <4>3. QED
          BY <3>4, <4>2, SaidIsReported, Zenon
      <3>5. CASE /\ platform \in DOMAIN Catalog.schema /\ MissingKeys(platform, body) # {}
                 /\ Says(f, key, "required_key")
        <4>1. \A x \in Issue(key, "required_key") : x \in ValidateComponent(b, key, ignore)
          BY <2>2, <2>6, <3>1, <3>5, ValidateBodyIs, Zenon
        <4>2. QED
          BY <3>5, <4>1, SaidIsReported, Zenon
      <3>6. CASE Topicless(body) /\ Says(f, key, "availability_topic")
        <4>1. \A x \in Issue(key, "availability_topic") : x \in ValidateComponent(b, key, ignore)
          BY <1>2, <1>3, <2>1, <3>6, ValidateIs, Zenon
        <4>2. QED
          BY <3>6, <4>1, SaidIsReported, Zenon
      <3>7. CASE DeviceClassUnknown(platform, body) /\ Says(f, key, "device_class")
        <4>1. \A x \in Issue(key, "device_class") : x \in ValidateComponent(b, key, ignore)
          BY <2>2, <2>6, <3>1, <3>7, ValidateBodyIs, Zenon
        <4>2. QED
          BY <3>7, <4>1, SaidIsReported, Zenon
      <3>8. CASE platform = "sensor" /\ Misplaced(body) /\ Says(f, key, "options")
        <4>1. \A x \in Issue(key, "options") : x \in ValidateComponent(b, key, ignore)
          BY <2>2, <2>6, <3>1, <3>8, ValidateBodyIs, RelationsAre, Zenon
        <4>2. QED
          BY <3>8, <4>1, SaidIsReported, Zenon
      <3>9. QED
        BY <3>3, <3>4, <3>5, <3>6, <3>7, <3>8, Zenon DEF Ruled
    <2>7. QED
      BY <1>2, <1>5, <2>1, <2>3, <2>4, <2>5, <2>6, IdentityErrors
  <1>6. QED
    BY <1>4, <1>5

-----------------------------------------------------------------------------
(* What Validate reports, Inspect says.                                    *)

Noted(S, key, kind) == \E f \in S : Tells(f, key, kind)

LEMMA NotedIsFound ==
  ASSUME NEW S, NEW key, NEW kind, kind # "non_finite", Noted(S, key, kind),
         NEW i \in Issue(key, kind)
  PROVE  Found(S, i)
  <1>1. PICK f \in S : Says(f, key, kind) /\ Gravely(f)
    BY Zenon DEF Noted, Tells
  <1>2. Verdict(f) = i
    BY <1>1, IssueIs, Zenon
  <1>3. QED
    BY <1>1, <1>2, Zenon DEF Found, Gravely

\* The rules the two share, of a component they come to the end with.
LEMMA BodyNotes ==
  ASSUME NEW b, NEW key, NEW body, NEW ignore, NEW S, S = BodyFindings(b, key, body, ignore),
         NEW platform, platform = body.platform
  PROVE  /\ Duplicate(b, key) => Noted(S, key, "unique_id_duplicate")
         /\ platform \in DOMAIN Catalog.schema /\ UnknownKeys(platform, body, ignore) # {}
              => Noted(S, key, "unknown_key")
         /\ platform \in DOMAIN Catalog.schema /\ MissingKeys(platform, body) # {}
              => Noted(S, key, "required_key")
         /\ Topicless(body) /\ "availability" \notin ignore => Noted(S, key, "availability_topic")
         /\ DeviceClassUnknown(platform, body) => Noted(S, key, "device_class")
         /\ platform = "sensor" /\ StateClassImpossible(Str(body, "state_class"), Str(body, "device_class"))
              => Noted(S, key, "state_class")
         /\ platform = "sensor" /\ Misplaced(body) /\ Str(body, "unit_of_measurement") # BlankUnit
              => Noted(S, key, "options")
  <1>1. \A f : f \in S <=>
          \/ Duplicate(b, key) /\ f \in CompError(key, "unique_id_duplicate", {"unique_id"})
          \/ platform \in DOMAIN Catalog.schema /\ f \in KeyFindings(key, platform, body, ignore)
          \/ "availability" \notin ignore /\ f \in AvailabilityFindings(key, body)
          \/ DeviceClassUnknown(platform, body) /\ f \in CompError(key, "device_class", {"device_class"})
          \/ f \in EntityCategoryFindings(key, platform, body)
          \/ platform = "sensor" /\ f \in SensorFindings(key, body)
          \/ platform = "number" /\ f \in NumberFindings(key, body)
    BY Zenon DEF BodyFindings, When
  <1>2. \A kind, keys : \E f \in CompError(key, kind, keys) : Tells(f, key, kind)
    BY ErrorExists
  <1>3. Duplicate(b, key) => Noted(S, key, "unique_id_duplicate")
    BY <1>1, <1>2, Zenon DEF Noted
  <1>4. DeviceClassUnknown(platform, body) => Noted(S, key, "device_class")
    BY <1>1, <1>2, Zenon DEF Noted
  <1>5. ASSUME platform \in DOMAIN Catalog.schema, NEW k \in UnknownKeys(platform, body, ignore)
        PROVE  Noted(S, key, "unknown_key")
    <2>1. PICK f \in Strippable(key, "unknown_key", <<k>>) : Tells(f, key, "unknown_key")
      BY StrippableSays DEF OnlyWarned
    <2>2. f \in KeyFindings(key, platform, body, ignore)
      BY <1>5, <2>1 DEF KeyFindings, UnknownKeyFindings
    <2>3. QED
      BY <1>1, <1>5, <2>1, <2>2, Zenon DEF Noted
  <1>6. ASSUME platform \in DOMAIN Catalog.schema, NEW k \in MissingKeys(platform, body)
        PROVE  Noted(S, key, "required_key")
    <2>1. PICK f \in CompError(key, "required_key", {k}) : Tells(f, key, "required_key")
      BY <1>2
    <2>2. f \in KeyFindings(key, platform, body, ignore)
      BY <1>6, <2>1 DEF KeyFindings, RequiredKeyFindings
    <2>3. QED
      BY <1>1, <1>6, <2>1, <2>2, Zenon DEF Noted
  <1>7. ASSUME Topicless(body), "availability" \notin ignore PROVE Noted(S, key, "availability_topic")
    <2>1. PICK i \in DOMAIN Entries(body) : Str(Entries(body)[i], "topic") = ""
      BY <1>7 DEF Topicless
    <2>2. PICK f \in CompError(key, "availability_topic", {}) : Tells(f, key, "availability_topic")
      BY <1>2
    <2>3. f \in EntryFindings(key, Entries(body)[i], i)
      BY <2>1, <2>2, Zenon DEF EntryFindings, When
    <2>4. f \in AvailabilityFindings(key, body)
      BY <2>3 DEF AvailabilityFindings
    <2>5. QED
      BY <1>1, <1>7, <2>2, <2>4, Zenon DEF Noted
  <1>8. ASSUME platform = "sensor", StateClassImpossible(Str(body, "state_class"), Str(body, "device_class"))
        PROVE  Noted(S, key, "state_class")
    <2>1. PICK f \in Strippable(key, "state_class", <<"state_class">>) : Tells(f, key, "state_class")
      BY StrippableSays DEF OnlyWarned
    <2>2. f \in SensorFindings(key, body)
      BY <1>8, <2>1, Zenon DEF SensorFindings, When
    <2>3. QED
      BY <1>1, <1>8, <2>1, <2>2, Zenon DEF Noted
  <1>9. ASSUME platform = "sensor", Misplaced(body), Str(body, "unit_of_measurement") # BlankUnit
        PROVE  Noted(S, key, "options")
    <2>1. \A keys : \E f \in CompError(key, "options", keys) : Tells(f, key, "options")
      BY <1>2
    <2>2. \/ \A f \in CompError(key, "options", {"options", "device_class"}) : f \in SensorFindings(key, body)
          \/ \A f \in CompError(key, "options", {"options", "state_class"}) : f \in SensorFindings(key, body)
          \/ \A f \in CompError(key, "options", {"options", "unit_of_measurement"}) : f \in SensorFindings(key, body)
      BY <1>9, Zenon DEF SensorFindings, When, Misplaced
    <2>3. \E f \in SensorFindings(key, body) : Tells(f, key, "options")
      BY <2>1, <2>2, Zenon
    <2>4. QED
      BY <1>1, <1>9, <2>3, Zenon DEF Noted
  <1>10. QED
    BY <1>3, <1>4, <1>5, <1>6, <1>7, <1>8, <1>9

\* Whatever Validate says of a component is about that component.
LEMMA IssueIsOwn ==
  ASSUME NEW b, NEW key, NEW ignore, NEW i \in ValidateComponent(b, key, ignore)
  PROVE  i.component = key
  <1>. DEFINE c == b.components[key]
              own == \E kind : i \in Issue(key, kind)
  <1>1. \/ i \in Issue(key, "availability_topic") \/ i \in Issue(key, "unencodable")
        \/ i \in ValidateBody(b, key, Platform(c), Encoded(c), ignore)
    BY Zenon DEF ValidateComponent, When
  <1>2. ASSUME i \in ValidateBody(b, key, Platform(c), Encoded(c), ignore) PROVE own
    <2>1. i \in SensorRelationIssues(key, Platform(c), Encoded(c)) => own
      BY RelationsAre, Zenon
    <2>2. QED
      BY <1>2, <2>1, Zenon DEF ValidateBody, When
  <1>3. own
    BY <1>1, <1>2, Zenon
  <1>4. QED
    BY <1>3 DEF Issue

LEMMA IssuesAreFound ==
  ASSUME NEW b, NEW ignore, NEW key \in DOMAIN b.components,
         NEW i \in ValidateComponent(b, key, ignore), CommonGround(b, ignore)
  PROVE  (OnTag(b, key) /\ i = Unnamed(key)) \/ Found(ComponentFindings(b, key, ignore), i)
  <1>1. PICK c, S, platform, body :
          /\ c = b.components[key] /\ S = ComponentFindings(b, key, ignore)
          /\ platform = EncodedPlatform(c) /\ body = Encoded(c)
    OBVIOUS
  <1>2. \A k \in DOMAIN b.components : ~Overridden(b.components[k])
    BY Zenon DEF CommonGround
  <1>3. ~Overridden(c) /\ CommonBody(body)
    BY <1>1, Zenon DEF CommonGround
  <1>4. \/ Topicless(body) /\ i \in Issue(key, "availability_topic")
        \/ c.encodable /\ c.nonFinite = {} /\ i \in ValidateBody(b, key, platform, body, ignore)
        \/ ~(c.encodable /\ c.nonFinite = {}) /\ i \in Issue(key, "unencodable")
    BY <1>1, <1>3, ValidateIs, Zenon
  <1>5. Live(c) => S = BodyFindings(b, key, body, ignore) /\ platform = body.platform
    <2>1. Live(c) => ComponentFindings(b, key, ignore) = BodyFindings(b, key, Encoded(c), ignore)
      BY <1>1, ComponentFindingsAre, Zenon
    <2>2. Live(c) => Encoded(c).platform = EncodedPlatform(c)
      BY EncodedPlatformIs, Zenon DEF Live, Sound
    <2>3. QED
      BY <1>1, <2>1, <2>2
  <1>6. CASE Topicless(body) /\ i \in Issue(key, "availability_topic")
    <2>1. LookedInto(b, key, ignore)
      BY <1>1, <1>6, Zenon DEF CommonGround
    <2>2. "availability" \notin ignore /\ \A f \in S : f.scope # "document"
      BY <1>1, <2>1, Zenon DEF LookedInto
    <2>3. Sound(c)
      <3>1. SUFFICES ASSUME ~Sound(c) PROVE FALSE
        OBVIOUS
      <3>2. PICK kind, keys : S = DocError(key, kind, keys)
        BY <1>1, <3>1, ComponentFindingsAre, Zenon
      <3>3. QED
        BY <2>2, <3>2, DocErrorIs
    <2>4. ~Removal(c)
      <3>1. "availability" \in DOMAIN body
        <4>1. SUFFICES ASSUME Entries(body) = <<>> PROVE FALSE
          BY Zenon DEF Entries
        <4>2. DOMAIN Entries(body) = {}
          BY <4>1
        <4>3. QED
          BY <1>6, <4>2, Zenon DEF Topicless
      <3>2. "availability" # "platform"
        OBVIOUS
      <3>3. QED
        BY <1>1, <3>1, <3>2 DEF Removal, IsRemoval
    <2>5. Live(c)
      BY <2>3, <2>4, Zenon DEF Live
    <2>6. Noted(S, key, "availability_topic")
      BY <1>5, <1>6, <2>2, <2>5, BodyNotes, Zenon
    <2>7. QED
      BY <1>1, <1>6, <2>6, NotedIsFound, Zenon
  <1>7. CASE ~(c.encodable /\ c.nonFinite = {}) /\ i \in Issue(key, "unencodable")
    <2>1. S = DocError(key, "non_finite", c.nonFinite) \/ S = DocError(key, "unencodable", {})
      BY <1>1, <1>7, Zenon DEF ComponentFindings
    <2>2. PICK f \in S : (Says(f, key, "non_finite") \/ Says(f, key, "unencodable")) /\ Gravely(f)
      BY <2>1, ErrorExists, Zenon DEF Tells
    <2>3. Verdict(f) = [component |-> key, kind |-> "unencodable"]
      BY <2>2, Zenon DEF Verdict, Says
    <2>4. i = [component |-> key, kind |-> "unencodable"]
      BY <1>7, IssueIs
    <2>5. QED
      BY <1>1, <2>2, <2>3, <2>4 DEF Found, Gravely
  <1>8. CASE c.encodable /\ c.nonFinite = {} /\ i \in ValidateBody(b, key, platform, body, ignore)
    <2>1. S = IF platform = "" THEN DocError(key, "platform_missing", {"platform"})
              ELSE IF platform \notin Catalog.supported
                   THEN DocError(key, "platform_unsupported", {"platform"})
              ELSE IF Removal(c) THEN {}
              ELSE IF EncodedID(c) = "" /\ platform \notin NonEntityPlatforms
                   THEN DocError(key, "unique_id_missing", {"unique_id"})
              ELSE BodyFindings(b, key, body, ignore)
      BY <1>1, <1>8, Zenon DEF ComponentFindings, EncodedPlatform, EncodedID, Removal
    <2>2. \A kind, keys : Noted(DocError(key, kind, keys), key, kind)
      BY ErrorExists DEF Noted
    <2>3. CASE platform = ""
      <3>1. i \in Issue(key, "platform_missing") /\ Noted(S, key, "platform_missing")
        BY <1>8, <2>1, <2>2, <2>3, Zenon DEF ValidateBody
      <3>2. QED
        BY <1>1, <3>1, NotedIsFound, Zenon
    <2>4. CASE platform # "" /\ platform \notin Catalog.supported
      <3>1. i \in Issue(key, "platform_unsupported") /\ Noted(S, key, "platform_unsupported")
        BY <1>8, <2>1, <2>2, <2>4, Zenon DEF ValidateBody
      <3>2. QED
        BY <1>1, <3>1, NotedIsFound, Zenon
    <2>5. CASE platform # "" /\ platform \in Catalog.supported /\ EncodedID(c) = ""
      <3>1. ~Removal(c) /\ i \in Issue(key, "unique_id_missing")
        BY <1>1, <1>8, <2>5, Zenon DEF ValidateBody, EncodedID, Removal, When
      <3>2. i = Unnamed(key)
        BY <3>1, IssueIs DEF Unnamed
      <3>3. CASE platform \in NonEntityPlatforms
        BY <1>1, <3>2, <3>3, Zenon DEF OnTag, EncodedPlatform
      <3>4. CASE platform \notin NonEntityPlatforms
        <4>1. Noted(S, key, "unique_id_missing")
          BY <2>1, <2>2, <2>5, <3>1, <3>4, Zenon
        <4>2. QED
          BY <1>1, <3>1, <4>1, NotedIsFound, Zenon
      <3>5. QED
        BY <3>3, <3>4
    <2>6. CASE platform # "" /\ platform \in Catalog.supported /\ EncodedID(c) # ""
      <3>1. Live(c)
        BY <1>1, <1>8, <2>6, IdentifiedIsLive, Zenon DEF Live, Sound
      <3>2. S = BodyFindings(b, key, body, ignore) /\ platform = body.platform
        BY <1>5, <3>1
      <3>3. Str(body, "unique_id") # ""
        BY <1>1, <2>6, Zenon DEF EncodedID
      <3>4. \/ ValidateDuplicate(b, key) /\ i \in Issue(key, "unique_id_duplicate")
            \/ /\ platform \in DOMAIN Catalog.schema /\ UnknownKeys(platform, body, ignore) # {}
               /\ i \in Issue(key, "unknown_key")
            \/ /\ platform \in DOMAIN Catalog.schema /\ MissingKeys(platform, body) # {}
               /\ i \in Issue(key, "required_key")
            \/ DeviceClassUnknown(platform, body) /\ i \in Issue(key, "device_class")
            \/ /\ StateClassImpossible(Str(body, "state_class"), Str(body, "device_class"))
               /\ i \in Issue(key, "state_class")
            \/ platform = "sensor" /\ Misplaced(body) /\ i \in Issue(key, "options")
        <4>1. i \in SensorRelationIssues(key, platform, body) <=>
                \/ /\ StateClassImpossible(Str(body, "state_class"), Str(body, "device_class"))
                   /\ i \in Issue(key, "state_class")
                \/ platform = "sensor" /\ Misplaced(body) /\ i \in Issue(key, "options")
          BY RelationsAre, Zenon
        <4>2. i \in ValidateBody(b, key, platform, body, ignore)
          BY <1>8
        <4>3. \/ ValidateDuplicate(b, key) /\ i \in Issue(key, "unique_id_duplicate")
              \/ /\ platform \in DOMAIN Catalog.schema /\ UnknownKeys(platform, body, ignore) # {}
                 /\ i \in Issue(key, "unknown_key")
              \/ /\ platform \in DOMAIN Catalog.schema /\ MissingKeys(platform, body) # {}
                 /\ i \in Issue(key, "required_key")
              \/ DeviceClassUnknown(platform, body) /\ i \in Issue(key, "device_class")
              \/ i \in SensorRelationIssues(key, platform, body)
          BY <2>6, <3>3, <4>2, ValidateBodyIs, Zenon
        <4>4. QED
          BY <4>1, <4>3, Zenon
      <3>5. CASE ValidateDuplicate(b, key) /\ i \in Issue(key, "unique_id_duplicate")
        <4>1. Duplicate(b, key)
          BY <1>1, <1>2, <2>6, <3>5, DuplicatesAlike, Zenon
        <4>2. Noted(S, key, "unique_id_duplicate")
          BY <3>2, <4>1, BodyNotes, Zenon
        <4>3. QED
          BY <1>1, <3>5, <4>2, NotedIsFound, Zenon
      <3>6. CASE /\ platform \in DOMAIN Catalog.schema /\ UnknownKeys(platform, body, ignore) # {}
                 /\ i \in Issue(key, "unknown_key")
        <4>1. Noted(S, key, "unknown_key")
          BY <3>2, <3>6, BodyNotes, Zenon
        <4>2. QED
          BY <1>1, <3>6, <4>1, NotedIsFound, Zenon
      <3>7. CASE /\ platform \in DOMAIN Catalog.schema /\ MissingKeys(platform, body) # {}
                 /\ i \in Issue(key, "required_key")
        <4>1. Noted(S, key, "required_key")
          BY <3>2, <3>7, BodyNotes, Zenon
        <4>2. QED
          BY <1>1, <3>7, <4>1, NotedIsFound, Zenon
      <3>8. CASE DeviceClassUnknown(platform, body) /\ i \in Issue(key, "device_class")
        <4>1. Noted(S, key, "device_class")
          BY <3>2, <3>8, BodyNotes, Zenon
        <4>2. QED
          BY <1>1, <3>8, <4>1, NotedIsFound, Zenon
      <3>9. CASE /\ StateClassImpossible(Str(body, "state_class"), Str(body, "device_class"))
                 /\ i \in Issue(key, "state_class")
        <4>1. platform = "sensor"
          BY <1>1, <1>3, <3>9, Zenon DEF CommonBody, EncodedPlatform
        <4>2. Noted(S, key, "state_class")
          BY <3>2, <3>9, <4>1, BodyNotes, Zenon
        <4>3. QED
          BY <1>1, <3>9, <4>2, NotedIsFound, Zenon
      <3>10. CASE platform = "sensor" /\ Misplaced(body) /\ i \in Issue(key, "options")
        <4>1. Str(body, "unit_of_measurement") # BlankUnit
          BY <1>1, <1>3, <3>10, Zenon DEF CommonBody, EncodedPlatform, Misplaced
        <4>2. Noted(S, key, "options")
          BY <3>2, <3>10, <4>1, BodyNotes, Zenon
        <4>3. QED
          BY <1>1, <3>10, <4>2, NotedIsFound, Zenon
      <3>11. QED
        BY <3>4, <3>5, <3>6, <3>7, <3>8, <3>9, <3>10, Zenon
    <2>7. QED
      BY <2>3, <2>4, <2>5, <2>6, Zenon
  <1>9. QED
    BY <1>4, <1>6, <1>7, <1>8, Zenon

-----------------------------------------------------------------------------
(* The two judgements agree where they say so.                             *)

\* Of any document on common ground.
LEMMA DocumentVerdicts ==
  ASSUME NEW b, NEW ignore, CommonGround(b, ignore)
  PROVE  Agree(b, ignore)
  <1>. DEFINE fs == Inspect(b, ignore)
              issues == ValidateIgnoring(b, ignore)
              exempt(k) == OnTag(b, k) /\ Unnamed(k) \in issues
  <1>0. b.nodeID \in Catalog.nodeIDs <=> b.nodeID \in Catalog.slugs
    BY Zenon DEF CommonGround
  <1>1. \A x : x \in issues <=>
          \/ b.nodeID \notin Catalog.slugs /\ x \in Issue("", "node_id")
          \/ b.origin = "" /\ x \in Issue("", "origin")
          \/ ~b.identified /\ x \in Issue("", "device_identity")
          \/ DOMAIN b.components = {} /\ x \in Issue("", "no_components")
          \/ \E k \in DOMAIN b.components : x \in ValidateComponent(b, k, ignore)
    BY DEF ValidateIgnoring, When
  <1>2. \A f : f \in DocumentFindings(b) <=>
          \/ b.nodeID \notin Catalog.nodeIDs /\ f \in DocError("", "node_id", {})
          \/ b.origin = "" /\ f = Finding("document", "", "origin", "warning", {<<"origin.name">>}, FALSE)
          \/ ~b.identified /\ f \in DocError("", "device_identity", {"device.identifiers", "device.connections"})
          \/ /\ DOMAIN b.components = {}
             /\ f = Finding("document", "", "no_components", "warning", {<<"components">>}, FALSE)
    BY DEF DocumentFindings, When
  <1>. HIDE DEF fs, issues
  <1>3. ASSUME NEW f \in Errors(fs), ~Newer(f), ~exempt(f.component)
        PROVE  Verdict(f) \in issues
    <2>1. f \in Inspect(b, ignore) /\ Refused(f)
      BY <1>3 DEF Errors, Refused, fs
    <2>2. CASE f \in DocumentFindings(b)
      <3>1. \/ b.nodeID \notin Catalog.slugs /\ f \in DocError("", "node_id", {})
            \/ ~b.identified /\ f \in DocError("", "device_identity", {"device.identifiers", "device.connections"})
        <4>1. \A component, kind, keys : f # Finding("document", component, kind, "warning", keys, FALSE)
          BY <2>1 DEF Finding, Refused
        <4>2. QED
          BY <1>0, <1>2, <2>1, <2>2, <4>1, Zenon
      <3>2. CASE b.nodeID \notin Catalog.slugs /\ f \in DocError("", "node_id", {})
        <4>1. Says(f, "", "node_id")
          BY <3>2, DocErrorSays
        <4>2. Verdict(f) \in Issue("", "node_id")
          BY <4>1, VerdictIs, Zenon
        <4>3. QED
          BY <1>1, <3>2, <4>2, Zenon
      <3>3. CASE ~b.identified /\ f \in DocError("", "device_identity", {"device.identifiers", "device.connections"})
        <4>1. Says(f, "", "device_identity")
          BY <3>3, DocErrorSays
        <4>2. Verdict(f) \in Issue("", "device_identity")
          BY <4>1, VerdictIs, Zenon
        <4>3. QED
          BY <1>1, <3>3, <4>2, Zenon
      <3>4. QED
        BY <3>1, <3>2, <3>3
    <2>3. CASE f \notin DocumentFindings(b)
      <3>1. PICK k \in DOMAIN b.components : f \in ComponentFindings(b, k, ignore)
        BY <2>1, <2>3, InspectIs, Zenon
      <3>2. f.component = k
        BY <3>1, FindingIsOwn
      <3>3. Reported(b, k, ignore, f)
        BY <1>3, <2>1, <3>1, ErrorsAreReported, Zenon
      <3>4. QED
        BY <1>1, <1>3, <3>2, <3>3, Zenon DEF Reported
    <2>4. QED
      BY <2>2, <2>3
  <1>4. ASSUME NEW i \in issues
        PROVE  (exempt(i.component) /\ i = Unnamed(i.component)) \/ Found(fs, i)
    <2>1. \A f : f \in DocumentFindings(b) => f \in fs
      BY InspectIs, Zenon DEF fs
    <2>2. ASSUME NEW kind, kind # "non_finite", i \in Issue("", kind),
                 \E f \in DocumentFindings(b) : Tells(f, "", kind)
          PROVE  Found(fs, i)
      <3>1. Noted(fs, "", kind)
        BY <2>1, <2>2, Zenon DEF Noted
      <3>2. QED
        BY <2>2, <3>1, NotedIsFound, Zenon
    <2>3. CASE b.nodeID \notin Catalog.slugs /\ i \in Issue("", "node_id")
      <3>1. \E f \in DocError("", "node_id", {}) : Tells(f, "", "node_id")
        BY ErrorExists
      <3>2. QED
        BY <1>0, <1>2, <2>2, <2>3, <3>1, Zenon
    <2>4. CASE b.origin = "" /\ i \in Issue("", "origin")
      <3>1. Tells(Finding("document", "", "origin", "warning", {<<"origin.name">>}, FALSE), "", "origin")
        BY DEF Finding, Says, Tells, Gravely, OnlyWarned
      <3>2. QED
        BY <1>2, <2>2, <2>4, <3>1, Zenon
    <2>5. CASE ~b.identified /\ i \in Issue("", "device_identity")
      <3>1. \E f \in DocError("", "device_identity", {"device.identifiers", "device.connections"}) :
              Tells(f, "", "device_identity")
        BY ErrorExists
      <3>2. QED
        BY <1>2, <2>2, <2>5, <3>1, Zenon
    <2>6. CASE DOMAIN b.components = {} /\ i \in Issue("", "no_components")
      <3>1. Tells(Finding("document", "", "no_components", "warning", {<<"components">>}, FALSE), "", "no_components")
        BY DEF Finding, Says, Tells, Gravely, OnlyWarned
      <3>2. QED
        BY <1>2, <2>2, <2>6, <3>1, Zenon
    <2>7. ASSUME NEW k \in DOMAIN b.components, i \in ValidateComponent(b, k, ignore)
          PROVE  (exempt(i.component) /\ i = Unnamed(i.component)) \/ Found(fs, i)
      <3>1. i.component = k
        BY <2>7, IssueIsOwn
      <3>2. (OnTag(b, k) /\ i = Unnamed(k)) \/ Found(ComponentFindings(b, k, ignore), i)
        BY <2>7, IssuesAreFound
      <3>3. \A f \in ComponentFindings(b, k, ignore) : f \in fs
        BY InspectIs, Zenon DEF fs
      <3>4. QED
        BY <1>4, <3>1, <3>2, <3>3, Zenon DEF Found
    <2>8. QED
      BY <1>1, <2>3, <2>4, <2>5, <2>6, <2>7, Zenon
  <1>5. QED
    BY <1>3, <1>4, Zenon DEF Agree, Newer, fs, issues

\* Over a document on common ground the two judgements differ only where the code says
\* so, whatever the catalogue, the components and the ignored keys are (Inspect,
\* inspect.go:331; ValidateIgnoring, validate.go).
THEOREM VerdictsAlwaysAgree == Spec => []VerdictsAgree
  <1>1. VerdictsAgree
    BY DocumentVerdicts, Zenon DEF VerdictsAgree
  <1>2. QED
    BY <1>1, PTL
=============================================================================
