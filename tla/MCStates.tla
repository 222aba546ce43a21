------------------------------- MODULE MCStates ------------------------------
(* Instances of StateGate for TLC: a datapoint's topic a, and b, which the  *)
(* consumer subscribes to for commands.                                      *)
EXTENDS StateGate, TLC

CONSTANTS p1, p2, a, b, v1, v2, x

DefMayCall == p1 :> {"value", "status", "publish", "evict", "reset", "pulse"}
           @@ p2 :> {"evictPrefix", "republish", "forget"}
\* The value stands still while the clock, and the extension, move; it changes.
DefOffers == {<<a, v1, None, 1>>, <<a, v1, x, 2>>, <<a, v2, None, 1>>}
=============================================================================
