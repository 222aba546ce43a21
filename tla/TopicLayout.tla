----------------------------- MODULE TopicLayout -----------------------------
(* Coordinates and the topics they render to (src/model/slot.go,             *)
(* src/topic/). A topic is the sequence of its levels, and <<>> is no topic; *)
(* every level Safe has to change becomes the same one, "_".                 *)
EXTENDS Naturals, Sequences

CONSTANTS
  Unsafe,       \* levels with a separator, a wildcard, a NUL or a space in them
  Wild, Dollar  \* name levels with a wildcard or NUL, or with a leading $

ASSUME LayoutAssumption == "" \notin Unsafe /\ "_" \notin Unsafe

Buckets == {"", "values", "master", "calculated", "custom"}
Slot(scope, address, channel, bucket, path) ==
  [scope |-> scope, address |-> address, channel |-> channel, bucket |-> bucket, path |-> path]

In(seq, x) == \E i \in DOMAIN seq : seq[i] = x
SlotValid(s) ==
  /\ s.address # "" /\ s.bucket \in Buckets /\ s.path # <<>>
  /\ ~In(s.path, "") /\ ~In(s.scope, "")

Safe(x) == IF x \in Unsafe THEN "_" ELSE x
\* Join: every level made safe, the empty ones dropped.
Join(parts) ==
  LET kept[n \in 0..Len(parts)] ==
        IF n = 0 THEN <<>>
        ELSE IF Safe(parts[n]) = "" THEN kept[n - 1] ELSE Append(kept[n - 1], Safe(parts[n]))
  IN  kept[Len(parts)]

\* The path of a coordinate below its root, in both layouts.
Item(s) == s.scope \o <<s.address, s.channel, s.bucket>> \o s.path

Functions == {"connected", "status", "set", "get", "info", "meta", "maintenance"}
\* Mutant of IsReservedFunction: IsFunction, which leaves the adapter's function out.
IsReservedFunctionWithoutHA(x) == x \in Functions

IsReservedFunction(x) == x \in Functions \cup {"ha"}

\* checkName: an instance name, as the levels it splits into.
NameValid(name, multiLevel) ==
  /\ name # <<>> /\ name # <<"">>
  /\ name[1] \notin Dollar
  /\ \A i \in DOMAIN name : name[i] \notin Wild
  /\ Len(name) > 1 => multiLevel /\ ~In(name, "")

(* A layout: the library's default below a root, mqtt-smarthome below a name, *)
(* or a consumer's own, which is the default with availability per channel.   *)
Default(root)   == [kind |-> "default", root |-> <<root>>]
SmartHome(name) == [kind |-> "smarthome", root |-> name]
PerChannel(root) == [kind |-> "channel", root |-> <<root>>]
IsSmartHome(l)  == l.kind = "smarthome"

\* fn: the name verbatim, then the function, then the item made safe.
Fn(l, function, item) ==
  IF l.root = <<>> \/ Join(item) = <<>> THEN <<>> ELSE l.root \o <<function>> \o Join(item)

StateTopic(l, s) ==
  IF IsSmartHome(l) THEN Fn(l, "status", Item(s)) ELSE Join(l.root \o Item(s))

CommandTopic(l, s) ==
  IF IsSmartHome(l) THEN Fn(l, "set", Item(s)) ELSE Join(l.root \o Item(s) \o <<"set">>)

AvailabilityTopic(l, s) ==
  CASE l.kind = "default"   -> Join(l.root \o s.scope \o <<s.address, "availability">>)
    [] l.kind = "channel"   -> Join(l.root \o s.scope \o <<s.address, s.channel, "availability">>)
    [] l.kind = "smarthome" ->
         IF s.address = "" THEN <<>> ELSE Fn(l, "status", s.scope \o <<s.address, "online">>)

\* Connected, and the Default's own bridge topic.
Bridge(l) ==
  IF ~IsSmartHome(l) THEN Join(l.root \o <<"bridge", "status">>)
  ELSE IF l.root = <<>> THEN <<>> ELSE l.root \o <<"connected">>

InfoTopic(l) == IF l.root = <<>> THEN <<>> ELSE l.root \o <<"info">>
MaintenanceTopic(l, item) == Fn(l, "maintenance", item)

PulseKinds == {"datapoint_event", "channel_event", "channel_impulse", "channel_device_error"}
PulseLeaf(k) ==
  CASE k \in {"datapoint_event", "channel_event"} -> "event"
    [] k = "channel_impulse" -> "impulse"
    [] k = "channel_device_error" -> "device_error"

\* PulseTopic: where an occurrence goes, <<>> where the layout names no such topic.
PulseTopic(l, k, s) ==
  CASE s.address = "" \/ k \notin PulseKinds -> <<>>
    [] IsSmartHome(l) ->
         IF k = "datapoint_event" THEN <<>>
         ELSE Fn(l, "status", s.scope \o <<s.address, s.channel, PulseLeaf(k)>>)
    [] l.kind = "channel" -> <<>>
    [] OTHER ->
         IF k = "datapoint_event" /\ s.path = <<>> THEN <<>>
         ELSE Join(l.root \o s.scope \o <<s.address, s.channel, PulseLeaf(k)>>
                     \o (IF k = "datapoint_event" THEN s.path ELSE <<>>))
=============================================================================
