----------------------------- MODULE MCLifecycle -----------------------------
(* Instances of Lifecycle for TLC.                                           *)
EXTENDS Lifecycle

CONSTANTS w1, w2, c1

DefCallers == Announcers \cup {w1, w2}
DefTopics  == {c1, Status, Birth}
=============================================================================
