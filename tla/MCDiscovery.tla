----------------------------- MODULE MCDiscovery -----------------------------
(* Instances of DiscoveryRuntime for TLC: one device with document topic d  *)
(* and two entities, two renderings of its document, and what the           *)
(* goroutines of a process life call.                                       *)
EXTENDS DiscoveryInvariant, TLC

CONSTANTS p1, p2, d, e1, e2, f, x, y, c, old

\* f is a sibling instance's entity under the same prefix.

DefDocOf    == [e \in Ents |-> d]
\* x has both entities' components; y was rendered when e2's was withheld;
\* c and old are per-entity configs.
DefLegacy   == [b \in Bodies |-> IF b = x THEN {e1, e2} ELSE IF b = y THEN {e1} ELSE {}]
DefWithheld == [b \in Bodies |-> IF b = y THEN {e2} ELSE {}]

Bundle(b)     == [op |-> "bundle", topic |-> d, body |-> b, scope |-> {}]
Component(e)  == [op |-> "component", topic |-> e, body |-> c, scope |-> {}]
Publish(t, b) == [op |-> "publish", topic |-> t, body |-> b, scope |-> {}]
Over(op, S)   == [op |-> op, topic |-> None, body |-> Empty, scope |-> S]

Left(S, b) == [t \in Topics |-> IF t \in S THEN b ELSE IF t = f THEN old ELSE Empty]

\* One form per process life: a build that publishes documents (with a sweep, or
\* Resets and replays, beside it), then perhaps one rolled back to per-entity
\* configs.
OneFormPlans ==
  { (p1 :> {Bundle(x)} @@ p2 :> {Bundle(y), Over("sweep", {e2})}),
    (p1 :> {Bundle(x)} @@ p2 :> {Over("reset", {}), Over("republish", {}), Over("retract", {d})}),
    (p1 :> {Component(e1)} @@ p2 :> {Component(e2), Over("republish", {})}),
    (p1 :> {Component(e1)} @@ p2 :> {Publish(e1, Empty), Over("selfsweep", Topics)}) }
OneFormLeftovers == { Left({e1, e2}, old), Left({d}, x) }

\* One goroutine that does everything in turn; or two goroutines, one per topic.
Everything ==
  { Bundle(x), Bundle(y), Publish(e2, c), Publish(e2, old), Publish(e2, Empty),
    Over("retract", {d, e1}), Over("republish", {}), Over("reset", {}),
    Over("sweep", {d, e1, e2}), Over("selfsweep", Topics), Over("report", {e1}) }
GatePlans ==
  { (p1 :> Everything @@ p2 :> {}),
    (p1 :> {Publish(e1, c), Publish(e1, old), Publish(e1, Empty)}
      @@ p2 :> {Publish(e2, c), Over("retract", {e2}), Over("reset", {}), Over("sweep", {e2})}) }
SequentialLeftovers == { Left({e1, e2}, old), Left({}, old) }

\* One goroutine keeping a device's document up to date and sweeping beside it.
DocumentPlans ==
  { (p1 :> {Bundle(x), Bundle(y), Over("republish", {}), Over("retract", {d}), Over("sweep", {e1, e2})}
      @@ p2 :> {}) }

\* Every method that waits for the snapshot slot, and some that do not.
LivePlans == { (p1 :> {Bundle(y), Over("sweep", {e1})} @@ p2 :> {Over("sweep", {e2}), Over("report", {e2})}) }
==============================================================================
