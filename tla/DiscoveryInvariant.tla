-------------------------- MODULE DiscoveryInvariant --------------------------
(***************************************************************************)
(* Why one process life in one discovery form never conflicts: the         *)
(* assumptions on its callers, the inductive invariant behind              *)
(* NoFormConflict, and the abstract tree the runtime implements.  Why the  *)
(* dedup gate describes the broker where each topic has one writer.  What  *)
(* every frame is whatever is called, why a sweep's window overlooks no    *)
(* orphan, and why no sweep clears what a document withholds: for each the *)
(* conditions and the inductive invariant.                                 *)
(***************************************************************************)
EXTENDS DiscoveryRuntime

\* A form call writes this config in this life.
Writes(t, b) == \E p \in Callers : \E c \in plan[p] : c.op \in Forms /\ c.topic = t /\ c.body = b

\* Each process life keeps to one form per device: no call writes a topic that
\* another one retracts, raw Publish only retracts, and a document covers
\* entities of its own node.
OneFormPerLife ==
  \A pl \in Plans : \A p, q \in Callers : \A c \in pl[p] :
    /\ c.op = "publish" => c.body = Empty
    /\ c.op = "bundle" => \A e \in Legacy[c.body] : DocOf[e] = c.topic
    /\ c.op \in Forms => \A k \in pl[q] : k.op \in Forms => c.topic \notin Replaced(k.topic, k.body)

\* A retained document describes entities of its own node.
OwnNode(tree) == \A d \in Docs : tree[d] # Empty => \A e \in Legacy[tree[d]] : DocOf[e] = d

LeftoversConsistent == \A tree \in Leftovers : NoConflict(tree) /\ OwnNode(tree)

\* The conditions under which the two forms never meet: acknowledged writes, one
\* form per life, and, where supersede trusts a snapshot, a window long enough.
Regime ==
  /\ QoS = 1 /\ OneFormPerLife /\ LeftoversConsistent
  /\ SupersedeObserved => LongWindow

\* The topics a call may write to; SelfClaimed sweeps only those already written.
Reach(c) ==
  IF c.op \in Forms THEN {c.topic} \cup Replaced(c.topic, c.body)
  ELSE IF c.op = "publish" THEN {c.topic}
  ELSE IF c.op \in {"retract", "sweep"} THEN c.scope ELSE {}

Reached == UNION {Reach(c) : c \in UNION {pl[p] : pl \in Plans, p \in Callers}}

\* The tree the runtime implements: topics no call reaches belong to others.
Tree == INSTANCE ConfigTree WITH
          tree <- retained, Initial <- Leftovers, Foreign <- Topics \ Reached

\* Every step on the broker is a step of the abstract tree: a config is written
\* only where its other form is gone, nobody else's topic is ever touched, and
\* whatever else the runtime does is invisible (PublishBundle, PublishComponent,
\* Retract, Republish, Sweep).
ImplementsTree == Tree!Spec

-----------------------------------------------------------------------------
\* Nothing of the other form is retained where config b of topic t goes.
Cleared(t, b) == \A s \in Replaced(t, b) : retained[s] = Empty

\* A config under way is one of this life's own, and its place is clear.
Sound(t, b) == t \in Reached /\ (b # Empty => Writes(t, b) /\ Cleared(t, b))

\* The topics this life replaces and therefore never writes.
Off == {s \in Topics : \E t \in Topics, b \in Bodies : Writes(t, b) /\ s \in Replaced(t, b)}

\* The declared set, which a replay copies, is sound; the memo never claims a
\* retraction the broker has not applied; a finished snapshot is truthful.
Truthful(held) == \A t \in (Off \cap Prefixed) \ held : retained[t] = Empty

MemoryOK ==
  /\ claimed \subseteq Reached
  /\ \A t \in Topics : declared[t] # Empty => Sound(t, declared[t])
  /\ superseded \subseteq Off /\ \A t \in superseded : retained[t] = Empty
  /\ observedTaken => Truthful(observed)

\* What each label says of the call it belongs to.
LabelsMatch(p) ==
  /\ pc[p] \in {"keep", "gate", "observe"} => call[p].op \in Forms
  /\ pc[p] \in {"pubGate", "announce"} => call[p].op = "publish"
  /\ pc[p] = "announce" => call[p].body # Empty
  /\ pc[p] = "copy" => call[p].op = "republish"
  /\ pc[p] \in {"slot", "window"} => call[p].op \in Forms \cup Sweeps
  /\ call[p].op \in Forms /\ pc[p] \in {"observe", "slot", "window"} => SupersedeObserved
  /\ pc[p] \in {"readGen", "syncGen"} => call[p].op \notin {"retract", "reset"}
  /\ call[p].op = "publish" => pc[p] # "work"
  /\ call[p].op = "report" => pc[p] \notin {"work", "sent", "applied"}
  /\ pc[p] \in {"sent", "applied"} => msg[p] \in Message
  /\ pc[p] = "window" => view[p] \subseteq Topics

CallSound(p) ==
  /\ call[p].op \in Forms => Writes(call[p].topic, call[p].body)
  /\ call[p].op = "publish" => Sound(call[p].topic, call[p].body)
  /\ call[p].op = "sweep" => call[p].scope \subseteq Reached

MessagesSound(p) ==
  /\ pc[p] \in {"sent", "applied"} => Sound(msg[p].topic, msg[p].body)
  /\ call[p].op # "report" => \A m \in todo[p] : Sound(m.topic, m.body)

\* While supersede walks, every replaced topic is clear, queued or in flight.
WalkCovers(p) ==
  LET replaced == Replaced(call[p].topic, call[p].body)
  IN  call[p].op \in Forms =>
        /\ todo[p] \subseteq Clears(replaced)
        /\ pc[p] \in {"sent", "applied"} => msg[p] \in Clears(replaced)
        /\ pc[p] = "applied" => retained[msg[p].topic] = Empty
        /\ pc[p] \in {"observe", "slot", "window", "work", "sent", "applied"} =>
             \A s \in replaced :
               \/ retained[s] = Empty
               \/ [topic |-> s, body |-> Empty] \in todo[p]
               \/ pc[p] = "sent" /\ msg[p].topic = s

SnapshotTruthful(p) ==
  view[p] # Blind /\ pc[p] # "window" =>
    /\ call[p].op \in Forms /\ pc[p] \in {"slot", "work", "sent", "applied"}
    /\ Truthful(view[p])

CallerOK(p) ==
  LabelsMatch(p) /\ CallSound(p) /\ MessagesSound(p) /\ WalkCovers(p) /\ SnapshotTruthful(p)

\* The inductive invariant of a life in one form over an acknowledging broker.
IInv ==
  /\ TypeOK /\ wire = <<>>
  /\ NoConflict(retained) /\ OwnNode(retained)
  /\ MemoryOK
  /\ \A p \in Callers : CallerOK(p)

-----------------------------------------------------------------------------
(* The dedup gate, with one writer per topic.                              *)

\* What a call may write to, and what a caller's calls may.
May(c) ==
  IF c.op = "republish" THEN Topics
  ELSE IF c.op \in Forms THEN {c.topic} \cup Replaced(c.topic, c.body)
  ELSE IF c.op = "publish" THEN {c.topic}
  ELSE IF c.op = "reset" THEN {} ELSE c.scope
Mine(p) == UNION {May(c) : c \in plan[p]}

\* The conditions under which the gate describes the broker: acknowledged writes whose
\* acknowledgement arrives, one goroutine per topic, and a store that is lost, if at
\* all, between calls and with a connection the transport can name.
GateRegime ==
  /\ QoS = 1 /\ "lostAck" \notin Faults
  /\ \A pl \in Plans : \A p, q \in Callers : p # q =>
       \A c \in pl[p], k \in pl[q] : May(c) \cap May(k) = {}
  /\ "storeLoss" \in Faults => Generational /\ "reconnect" \notin Faults

GateTyped ==
  /\ pc = [p \in Callers |-> pc[p]] /\ call = [p \in Callers |-> call[p]]
  /\ todo = [p \in Callers |-> todo[p]] /\ msg = [p \in Callers |-> msg[p]]
  /\ retained = [t \in Topics |-> retained[t]] /\ declared = [t \in Topics |-> declared[t]]
  /\ gated \subseteq Topics /\ wire = <<>> /\ plan \in Plans
  /\ gen \in Nat /\ connection \in Nat /\ seen \in [Callers -> Nat]

Sending(p) == pc[p] \in {"sent", "applied"}

\* Everything a caller does is about topics of its own.
Attributed(p) ==
  /\ pc[p] \in {"keep", "gate"} => call[p].op \in Forms
  /\ pc[p] = "copy" => call[p].op = "republish"
  /\ pc[p] \in {"pubGate", "announce"} => call[p].op = "publish"
  /\ May(call[p]) \subseteq Mine(p)
  /\ \A m \in todo[p] : m.topic \in Mine(p)
  /\ Sending(p) => msg[p].topic \in Mine(p)

\* What a publish has under way is its config, what a replay has left is declared, every
\* other call clears; and what was applied is retained.
Faithful(p) ==
  /\ call[p].op = "publish" /\ Sending(p) =>
       msg[p].topic = call[p].topic /\ msg[p].body = call[p].body
  /\ call[p].op = "republish" =>
       /\ \A m \in todo[p] : declared[m.topic] = m.body
       /\ Sending(p) => declared[msg[p].topic] = msg[p].body
  /\ call[p].op \notin {"publish", "republish"} =>
       (\A m \in todo[p] : m.body = Empty) /\ (Sending(p) => msg[p].body = Empty)
  /\ pc[p] = "applied" => retained[msg[p].topic] = msg[p].body

\* A publish that has passed checkGeneration knows its connection.
Current(p) ==
  /\ seen[p] <= connection
  /\ Generational /\ call[p].op = "publish" /\ (Sending(p) \/ pc[p] \in {"pubGate", "announce"}) => genSeen

Orderly(p) == Attributed(p) /\ Faithful(p) /\ Current(p)

\* And so does the gate.
Dated == gen <= connection /\ (Generational /\ gated # {} => genSeen)

Described ==
  \A t \in gated :
    /\ Generational => gen = connection
    /\ ~\E p \in Callers : pc[p] = "applied" /\ msg[p].topic = t
    => retained[t] = declared[t]

GateInv == GateTyped /\ Dated /\ Described /\ \A p \in Callers : Orderly(p)

-----------------------------------------------------------------------------
(* What a frame is, whatever the callers do.                               *)

Cleaning == {"sweep", "selfsweep"}

\* The topics a call may declare, announce or forget.
Alters(c) == IF c.op \in {"republish", "report"} THEN {} ELSE May(c)

\* A caller is in a call of its plan, or in the closing Publish of one.
Planned(p) ==
  \/ call[p] = NoCall
  \/ call[p] \in plan[p]
  \/ \E c \in plan[p] : c.op \in Forms /\
       call[p] = [op |-> "publish", topic |-> c.topic, body |-> c.body, scope |-> {}]

Labelled(p) ==
  /\ pc[p] = "idle" => call[p] = NoCall
  /\ pc[p] = "keep" => call[p].op = "bundle"
  /\ pc[p] \in {"gate", "observe"} => call[p].op \in Forms
  /\ pc[p] \in {"pubGate", "announce"} => call[p].op = "publish"
  /\ pc[p] = "announce" => call[p].body # Empty
  /\ pc[p] = "copy" => call[p].op = "republish"
  /\ pc[p] \in {"slot", "window"} => call[p].op \in Forms \cup Sweeps
  /\ call[p].op \in Forms /\ pc[p] \in {"observe", "slot", "window"} => SupersedeObserved
  /\ pc[p] \in {"readGen", "syncGen"} => call[p].op \notin {"retract", "reset"}
  /\ call[p].op = "publish" => pc[p] # "work"
  /\ call[p].op = "report" => pc[p] \notin {"work", "sent", "applied"}

\* Its messages are about topics its call alters; a replay's and a report's are not
\* its own.
InScope(p) ==
  /\ call[p].op \notin {"republish", "report"} =>
       /\ \A m \in todo[p] : m.topic \in Alters(call[p])
       /\ Sending(p) => msg[p].topic \in Alters(call[p])
  /\ Sending(p) => msg[p] \in Message
  /\ pc[p] = "window" => view[p] \subseteq Topics

Framed(p) == Planned(p) /\ Labelled(p) /\ InScope(p)

Typed == TypeOK /\ \A p \in Callers : Framed(p)

-----------------------------------------------------------------------------
(* Sweeps beside other calls.                                              *)

\* A document has one writer, and nobody else sweeps what it withholds.
BundlesApart ==
  \A pl \in Plans : \A p, q \in Callers : p # q =>
    \A c \in pl[p], k \in pl[q] : k.op = "bundle" =>
      /\ c.op = "bundle" => c.topic # k.topic
      /\ c.op \in Cleaning => c.scope \cap Withheld[k.body] = {}

\* Nobody alters what another caller sweeps.
SweeperAlone ==
  \A pl \in Plans : \A p, q \in Callers : p # q =>
    \A c \in pl[p], k \in pl[q] : c.op \in Cleaning => c.scope \cap Alters(k) = {}

\* The conditions under which a window lists every orphan.
OrphanRegime == LongWindow /\ BundlesApart /\ SweeperAlone

\* A claim outlives its publish only with the declaration, and a sweep clears what
\* nobody claims.
ClaimsFounded ==
  /\ \A t \in announced :
       \/ declared[t] # Empty
       \/ \E q \in Callers : Sending(q) /\ call[q].op = "publish" /\ call[q].topic = t /\ call[q].body # Empty
  /\ \A p \in Callers : call[p].op \in Cleaning /\ Sending(p) => msg[p].topic \notin announced

\* The caller's documents withhold t of d's components.
Withholds(q, d, t) == \E c \in plan[q] : c.op = "bundle" /\ c.topic = d /\ t \in Withheld[c.body]

KeptFounded == \A d \in Docs : \A t \in kept[d] : \E q \in Callers : Withholds(q, d, t)

\* Of what the window was shown, everything unclaimed is listed.
Listed(p) ==
  pc[p] = "window" /\ call[p].op \in Cleaning =>
    /\ view[p] \subseteq call[p].scope
    /\ \A t \in view[p] : [topic |-> t, body |-> Empty] \in todo[p] \/ declared[t] # Empty \/ t \in Kept

OrphanInv == ClaimsFounded /\ KeptFounded /\ \A p \in Callers : Listed(p)

\* The conditions under which no sweep clears what a declared document withholds: no
\* document fails between containment's bookkeeping and its answer, and none is
\* published raw.
KeepRegime ==
  /\ BundlesApart
  /\ \A pl \in Plans : \A p \in Callers : \A c \in pl[p] :
       c.op = "publish" /\ c.topic \in Docs => c.body = Empty
  /\ Faults \cap {"refuse", "lostAck"} = {}
  /\ "cancel" \in Faults => ~SupersedeObserved

\* q is on its way to the answer for document d, and has changed what d withholds.
Keeping(q, d) ==
  /\ call[q].topic = d
  /\ \/ call[q].op = "bundle" /\ pc[q] \notin {"readGen", "syncGen", "keep"}
     \/ call[q].op = "publish" /\ call[q].body # Empty

\* What is declared of a document was published by its writer's PublishBundle.
DocsFounded ==
  \A d \in Docs : declared[d] # Empty =>
    \E q \in Callers : \E c \in plan[q] : c.op = "bundle" /\ c.topic = d /\ c.body = declared[d]

\* What a declared document withholds is kept, unless its successor is on its way.
KeptCurrent ==
  \A d \in Docs :
    /\ \A q \in Callers : Keeping(q, d) => kept[d] = Withheld[call[q].body]
    /\ declared[d] # Empty => Withheld[declared[d]] \subseteq kept[d] \/ \E q \in Callers : Keeping(q, d)

\* A retraction on its way is not of what a declared document withholds.
Spared(p) ==
  call[p].op \in Cleaning /\ Sending(p) =>
    \A d \in Docs : declared[d] # Empty => msg[p].topic \notin Withheld[declared[d]]

KeepInv == DocsFounded /\ KeptCurrent /\ \A p \in Callers : Spared(p)

=============================================================================
