---------------------------- MODULE MCAvailability ---------------------------
(* Instances of AvailabilityGate for TLC: a battery pack b under an inverter *)
(* h. Its sensor binds channel 1 and a synthesised availability datapoint,    *)
(* and is available with its parent; a lamp is available with its parent, a   *)
(* button by itself; the inverter's meter declares nothing, which is bridge   *)
(* and device.                                                                *)
EXTENDS AvailabilityGate, TLC

CONSTANTS p1, p2

DefEmpty == [form |-> "empty"]

h == [uid |-> "h", via |-> NoDevice]
b == [uid |-> "b", via |-> "h"]
at(channel, leaf, address) == Slot(<<>>, address, channel, "values", <<leaf>>)
usable == Binding("availability", at("1", "usable", "b"))
sensor == [key |-> "sensor", mode |-> "", levels |-> <<"bridge", "parent", "self">>,
           binds |-> <<Binding("state", at("1", "power", "b")), usable>>]
lamp   == [key |-> "lamp", mode |-> "", levels |-> <<"bridge", "parent">>,
           binds |-> <<Binding("state", at("1", "light", "b"))>>]
button == [key |-> "button", mode |-> "", levels |-> <<"bridge", "self">>, binds |-> <<usable>>]
meter  == [key |-> "meter", mode |-> "", levels |-> <<>>,
           binds |-> <<Binding("state", at("1", "load", "h"))>>]
DefDeviceOf == "sensor" :> b @@ "lamp" :> b @@ "button" :> b @@ "meter" :> h
DefEntityOf == "sensor" :> sensor @@ "lamp" :> lamp @@ "button" :> button @@ "meter" :> meter

DefLayoutOf == "own" :> Default("x") @@ "zones" :> PerChannel("x") @@ "smarthome" :> SmartHome(<<"x">>)
DefEncodingOf == "own" :> "envelope" @@ "zones" :> "status" @@ "smarthome" :> "raw"
Layouts == {DefLayoutOf[s] : s \in DOMAIN DefLayoutOf}
Other == <<"x", "command">>
DefGone == {Other, <<"x", "h", "availability">>}
DefGuarded == {Other}
DefTopics ==
  {Other} \cup
  UNION {{Bridge(l), StateTopic(l, usable.slot),
          AvailabilityTopic(l, DeviceSlot(h, meter)),
          AvailabilityTopic(l, [DeviceSlot(h, meter) EXCEPT !.channel = ""])} :
           l \in Layouts}

DefMayCall == p1 :> {"device", "parent", "self", "reset"}
           @@ p2 :> {"retract", "sweep", "republish", "forget"}
=============================================================================
