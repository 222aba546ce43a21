----------------------------- MODULE MCCommands ------------------------------
(* Instances of CommandRouter for TLC: a general route, the special case of   *)
(* one parameter, and a route that crosses both.                              *)
EXTENDS CommandProperties, TLC

CONSTANTS c1, c2

General == <<"c", "+", "s">>
Special == <<"c", "p", "s">>
Crossed == <<"c", "p", "+">>      \* overlaps General, and neither is the narrower

Pressed == <<"c", "p", "s">>
Written == <<"c", "q", "s">>

ThreeFilters == {General, Special, Crossed}
TwoFilters   == {General, Special}
TwoTopics    == {Pressed, Written}
OneTopic     == {Pressed}
NoTopic      == None
\* The goroutine that owns the router, and a connection callback or a test.
DefMayCall == c1 :> {"start", "stop"} @@ c2 :> {"resubscribe", "waitIdle", "stop"}
DefPool == [t \in Topics |-> IF t = Pressed THEN 1 ELSE NumWorkers]
=============================================================================
