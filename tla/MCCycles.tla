------------------------------- MODULE MCCycles ------------------------------
(* Instances of BundleCycles for TLC: a device with entities a and b, which  *)
(* an earlier build published one config each, and a third component c, in   *)
(* every way it can be rendered well or badly.                               *)
EXTENDS BundleCycles, TLC

DefKeyOrder == <<"a", "b", "c">>
DefPrefix   == <<"homeassistant">>

Keyset(allowed, required) == [allowed |-> allowed, required |-> required]
Flat(allowed, required) ==
  [allowed |-> allowed, required |-> required, discriminator |-> "schema", variants |-> NoKeys]
Common == {"unique_id", "name", "device_class", "entity_category", "availability"}
DefCatalog ==
  [supported |-> {"sensor", "number", "light", "tag"},
   nodeIDs |-> {"node"}, slugs |-> {"node", "no.de"},
   schema |->
     [sensor |-> Flat(Common \cup {"state_class", "unit_of_measurement", "options", "state_topic",
                                   "last_reset_value_template"}, {"state_topic"}),
      number |-> Flat(Common \cup {"min", "max", "step", "unit_of_measurement", "command_topic"},
                      {"command_topic"}),
      light  |-> [allowed |-> {}, required |-> {}, discriminator |-> "schema",
                  variants |-> [basic    |-> Keyset(Common \cup {"schema", "command_topic"}, {"command_topic"}),
                                template |-> Keyset(Common \cup {"schema", "command_on_template"},
                                                    {"command_on_template"})]],
      tag    |-> Flat({"topic"}, {"topic"})],
   deviceClasses   |-> [sensor |-> {"temperature", "energy", "enum"}, number |-> {"temperature"}],
   stateClasses    |-> [temperature |-> {"measurement"}, energy |-> {"total"}, enum |-> {}],
   stateClassUnits |-> [measurement_angle |-> {"deg"}],
   deviceClassUnits |-> [temperature |-> {"degC"}, energy |-> {"kWh"}],
   ambiguousUnits  |-> ("uA" :> "muA") @@ ("muA" :> "muA"),
   numericClasses  |-> {"temperature", "energy"},
   numberDefaults  |-> [min |-> 0]]

Sensor(uid, more) == TypedOnly(more @@ [platform |-> "sensor", unique_id |-> uid, state_topic |-> "t"])
Number(more)      == [TypedOnly(more @@ [platform |-> "number", unique_id |-> "c"])
                        EXCEPT !.fields = "command_topic" :> "t"]
With(c, extra)    == [c EXCEPT !.extra = extra]
Plain(uid)        == Sensor(uid, NoKeys)
NoTopic(uid)      == TypedOnly([platform |-> "sensor", unique_id |-> uid])
Broken(c)         == [c EXCEPT !.encodable = FALSE]
Of(platform)      == "platform" :> platform
Temperature       == "device_class" :> "temperature"

\* Of the sensor's relations, each alone and together.
Sensors ==
  {Sensor("c", m) : m \in
     { Temperature, "device_class" :> "nonsense", "entity_category" :> "config",
       "entity_category" :> "diagnostic", "unit_of_measurement" :> "uA",
       Temperature @@ ("state_class" :> "total"),
       Temperature @@ ("state_class" :> "measurement") @@ ("unit_of_measurement" :> "degC"),
       Temperature @@ ("unit_of_measurement" :> "kWh"),
       ("device_class" :> "enum") @@ ("unit_of_measurement" :> "kWh"),
       "state_class" :> "measurement_angle",
       ("options" :> {"on"}) @@ ("device_class" :> "enum"),
       ("options" :> {"on"}) @@ ("device_class" :> "enum") @@ ("unit_of_measurement" :> BlankUnit),
       ("options" :> {"on"}) @@ ("state_class" :> "total"),
       "availability" :> <<"topic" :> "up", "value_template" :> "x">>,
       "availability" :> <<("topic" :> "up") @@ ("odd" :> "x")>> }}
  \cup {With(Plain("c"), m) : m \in
     { "options" :> {}, "last_reset_value_template" :> "x", "entity_category" :> Null,
       "translation_key" :> "x", "odd" :> "x", "platform" :> "", "platform" :> "mystery",
       "availability" :> <<"value_template" :> "x">>,
       ("last_reset_value_template" :> "x") @@ ("state_class" :> "total") }}
Numbers ==
  {Number(m) : m \in
     { NoKeys, "step" :> {9}, "min" :> {2000000}, "max" :> {-1}, "min" :> {},
       ("min" :> {-1}) @@ ("max" :> {-1}) @@ ("step" :> {10}), "unit_of_measurement" :> "uA",
       Temperature @@ ("state_class" :> "total") }}
  \cup {[Number(NoKeys) EXCEPT !.nonFinite = {"max"}]}
Others ==
  { TypedOnly(Of("light") @@ ("unique_id" :> "c")),
    With(TypedOnly(Of("light") @@ ("unique_id" :> "c")), "odd" :> "x"),
    With(TypedOnly(Of("light") @@ ("unique_id" :> "c")), "schema" :> "basic"),
    With(TypedOnly(Of("light") @@ ("unique_id" :> "c")),
         ("schema" :> "template") @@ ("command_on_template" :> "x")),
    With(TypedOnly(Of("tag")), "topic" :> "t"), Tombstone("sensor"),
    With(TypedOnly(Of("tag")), "odd" :> "x"),
    TypedOnly(NoKeys),
    TypedOnly(Of("sensor") @@ ("state_topic" :> "t")),
    TypedOnly(Of("sensor") @@ ("availability" :> <<"value_template" :> "x">>)), Broken(Plain("c")),
    [Plain("c") EXCEPT !.nameNull = TRUE] }
\* c may take the identity of a, or of b, published or withheld; or just the unique id.
Twins == {Plain("a"), NoTopic("b"),
          [Number(NoKeys) EXCEPT !.typed = ("unique_id" :> "a") @@ @]}

DefOffers ==
  ("a" :> {Absent, Plain("a"), NoTopic("a")})
  @@ ("b" :> {Absent, Plain("b"), NoTopic("b")}) @@ ("c" :> {Absent, Plain("c")})
Renderings(third) ==
  {("a" :> x) @@ ("b" :> y) @@ ("c" :> z) : x \in DefOffers["a"], y \in DefOffers["b"], z \in third}
DefCatalogues ==
  Renderings({Absent, Plain("c"), NoTopic("c")} \cup Sensors \cup Numbers \cup Others \cup Twins)
\* A component of a platform the catalogue does not know.
StrangeCatalogues == Renderings({TypedOnly(Of("mystery") @@ ("unique_id" :> "c"))})
ASSUME NamedAssumption ==
  Catalogues = DefCatalogues => NamingCatalog /\ NamedDevice /\ NamedTopics /\ DistinctDevice
                                /\ KnowingCatalog /\ SeparableDevice
DefInstalled == [k \in {"a", "b"} |-> Plain(k)]
Setting(strip, forms, identified, prefix) ==
  [ignore |-> {"translation_key"}, strip |-> strip, forms |-> forms,
   identified |-> identified, prefix |-> prefix]
DefSettings ==
  {Setting(TRUE, {"uniqueID"}, TRUE, <<"">>), Setting(FALSE, {}, TRUE, <<"ha", "x", "">>),
   Setting(TRUE, {"nodeID", "objectID"}, TRUE, <<"ha">>), Setting(FALSE, {}, FALSE, <<"ha">>)}
=============================================================================
