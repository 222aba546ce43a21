-------------------------- MODULE AvailabilityRules --------------------------
(* What a config declares about availability (src/discovery/context.go,      *)
(* src/model/description.go), what the publishing side writes for it         *)
(* (src/publisher/availability.go), and what Home Assistant makes of the two.*)
EXTENDS TopicLayout, FiniteSets

CONSTANT NoDevice   \* a device that declares no parent, an absent resolver

(* A device has a uid and may have a parent; an entity binds roles to slots, *)
(* and its description declares availability levels and a mode.              *)
Binding(role, slot) == [role |-> role, slot |-> slot]

\* Bind: the first binding of a role; a set of at most one.
Bind(e, role) ==
  {e.binds[i] : i \in {j \in DOMAIN e.binds :
     e.binds[j].role = role /\ \A h \in 1..(j - 1) : e.binds[h].role # role}}

\* Resolved: LevelNone wins over the rest; nothing declared is bridge and device.
Resolved(e) ==
  IF In(e.levels, "none") THEN [levels |-> <<>>, mode |-> ""]
  ELSE [levels |-> IF e.levels = <<>> THEN <<"bridge", "device">> ELSE e.levels,
        mode   |-> IF e.mode = "" THEN "all" ELSE e.mode]

\* DeviceSlot: the device's address in the containers of the entity's first binding.
DeviceSlot(dev, e) ==
  IF e.binds = <<>> THEN Slot(<<>>, dev.uid, "", "", <<>>)
  ELSE Slot(e.binds[1].slot.scope, dev.uid, e.binds[1].slot.channel, "", <<>>)

\* ParentSlot: the same with the parent's address; the caller checks there is one.
HasParent(dev) == dev.via # NoDevice

\* Mutant of ParentSlot: the channel is dropped.
ParentSlotOfDevice(dev, e) == [DeviceSlot(dev, e) EXCEPT !.address = dev.via, !.channel = ""]

ParentSlot(dev, e) == [DeviceSlot(dev, e) EXCEPT !.address = dev.via]

\* BindingSlot: the resolver a consumer may give AvailabilityFrom.
BindingSlot(e) == IF e.binds = <<>> THEN {} ELSE {e.binds[1].slot}

-----------------------------------------------------------------------------
(* The declaring side.                                                       *)

Entry(t, template, yes, no) == [topic |-> t, template |-> template, yes |-> yes, no |-> no]
Plain(t)     == Entry(t, "", "online", "offline")
\* ConnectedAvailability at 2, OnlineAvailability.
Connected(t) == Entry(t, "connected", "online", "offline")
OnlineItem(t, enc) == Entry(t, IF enc = "status" THEN "val" ELSE "", "true", "false")

\* selfAvailability: the value of the bound datapoint, or the flag in the entity's own
\* envelope.
SelfEntries(l, enc, e) ==
  IF Bind(e, "availability") # {}
  THEN {Entry(StateTopic(l, b.slot),
              CASE enc = "envelope" -> "value" [] enc = "status" -> "val" [] enc = "raw" -> "",
              "true", "false") : b \in Bind(e, "availability")}
  ELSE IF enc # "envelope" THEN {}
  ELSE {Entry(StateTopic(l, b.slot), "available", "true", "false") : b \in Bind(e, "state")}

\* availability, the device level resolved from a set of at most one slot.
DeclaredLevel(l, enc, dev, e, level, slots, skipEmpty) ==
  LET device(s) == IF IsSmartHome(l) THEN OnlineItem(AvailabilityTopic(l, s), enc)
                   ELSE Plain(AvailabilityTopic(l, s))
      named(S) == {device(s) : s \in {u \in S : skipEmpty => AvailabilityTopic(l, u) # <<>>}}
  IN  CASE level = "bridge" -> {IF IsSmartHome(l) THEN Connected(Bridge(l)) ELSE Plain(Bridge(l))}
        [] level = "device" -> named(slots)
        [] level = "parent" ->
             IF HasParent(dev) THEN named({[s EXCEPT !.address = dev.via] : s \in slots}) ELSE {}
        [] level = "self"   -> SelfEntries(l, enc, e)

\* Availability and, with BindingSlot as resolver, AvailabilityFrom.
Declared(l, enc, dev, e) ==
  UNION {DeclaredLevel(l, enc, dev, e, Resolved(e).levels[i], {DeviceSlot(dev, e)}, FALSE) :
           i \in DOMAIN Resolved(e).levels}
DeclaredFrom(l, enc, dev, e) ==
  UNION {DeclaredLevel(l, enc, dev, e, Resolved(e).levels[i], BindingSlot(e), TRUE) :
           i \in DOMAIN Resolved(e).levels}
-----------------------------------------------------------------------------
(* The publishing side, and Home Assistant.                                  *)

Token(online)     == [form |-> "token", is |-> online]
Bool(b)           == [form |-> "bool", is |-> b]
Envelope(v, a)    == [form |-> "envelope", value |-> v, available |-> a]
Level(n)          == [form |-> "level", n |-> n]

\* SelfAvailabilityPayload; a status object is the state plane's to render.
SelfPayload(enc, b) ==
  CASE enc = "raw" -> Bool(b) [] enc = "envelope" -> Envelope(b, TRUE)

\* What a template makes of a payload: one of the payload words, or neither.
TokenWord(b) == IF b THEN "online" ELSE "offline"
BoolWord(b)  == IF b THEN "true" ELSE "false"
Rendered(template, p) ==
  CASE template = "" /\ p.form = "token" -> TokenWord(p.is)
    [] template = "" /\ p.form = "bool" -> BoolWord(p.is)
    [] template = "value" /\ p.form = "envelope" -> BoolWord(p.value)
    [] template = "available" /\ p.form = "envelope" -> BoolWord(p.available)
    [] template = "connected" -> TokenWord(p.form = "level" /\ p.n >= 2)
    [] OTHER -> "unreadable"
Reads(entry, p) == Rendered(entry.template, p)
=============================================================================
