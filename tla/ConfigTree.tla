------------------------------ MODULE ConfigTree ------------------------------
(***************************************************************************)
(* What the discovery plane promises of the broker's retained tree, and    *)
(* all it promises: configs are written one at a time, never beside a      *)
(* config of the other form that describes the same entity; anything of    *)
(* its own may be cleared; a sibling's topics are left alone; and a broker *)
(* may forget.                                                             *)
(***************************************************************************)
CONSTANTS Docs, Ents, Bodies, Empty, Legacy,
          Foreign,   \* topics of other writers in the same namespace
          Initial    \* what is retained before the first write

VARIABLE tree

Topics == Docs \cup Ents

\* No document is retained beside a per-entity config its components replace.
OneForm(t) == \A d \in Docs : t[d] # Empty => \A e \in Legacy[t[d]] : t[e] = Empty

Init == tree \in Initial

Write(t, b) ==
  /\ t \notin Foreign
  /\ tree' = [tree EXCEPT ![t] = b]
  /\ OneForm(tree')

Clear(t) ==
  /\ t \notin Foreign
  /\ tree' = [tree EXCEPT ![t] = Empty]

Lose == tree' = [t \in Topics |-> Empty]

Next ==
  \/ \E t \in Topics : Clear(t) \/ \E b \in Bodies : Write(t, b)
  \/ Lose

Spec == Init /\ [][Next]_tree

=============================================================================
