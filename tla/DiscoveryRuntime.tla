--------------------------- MODULE DiscoveryRuntime ---------------------------
(***************************************************************************)
(* The discovery plane of package publisher (publisher.go, sweep.go): the  *)
(* Runtime that writes retained Home Assistant discovery configs, in one   *)
(* of two forms, over a transport that may refuse, lose or duplicate its   *)
(* calls, against a broker that keeps what it was last sent.               *)
(*                                                                         *)
(* A caller is a goroutine inside one method of the Runtime.  Every        *)
(* section the code runs under Runtime.mu is one action; every call of     *)
(* the transport is two (handed over, answered), with the broker between   *)
(* them, because mu is never held across one.                              *)
(***************************************************************************)
EXTENDS Integers, Sequences, FiniteSets

CONSTANTS
  Callers,       \* goroutines calling into the runtime
  Docs,          \* device document topics        <prefix>/device/<node>/config
  Ents,          \* per-entity config topics      <prefix>/<platform>/.../config
  Bodies,        \* config payloads
  Empty,         \* the zero-length payload; as a retained value, "nothing retained"
  None,          \* no caller, no topic
  DocOf,         \* the document of an entity's node
  Legacy,        \* SupersededTopics of a document body: what its components had
  Withheld,      \* WithheldTopics of a document body: what containment left out
  Prefixed,      \* topics under Config.Prefix, all a snapshot window can see
  Plans,         \* what the goroutines of one process life may call
  Leftovers,     \* what earlier builds may have left retained
  QoS,           \* 0: handed to the socket; 1: acknowledged by the broker
  Generational,  \* the transport can name its connection
  SupersedeObserved, \* Config.SupersedeObserved
  LongWindow,    \* a snapshot window outlasts the broker's retained delivery
  Faults,        \* which of FaultKinds may happen
  MaxConnection, MaxEpoch, MaxWire   \* bounds on reconnects, Resets, QoS 0 backlog

Topics    == Docs \cup Ents
Forms     == {"bundle", "component"}
Sweeps    == {"sweep", "selfsweep", "report"}
Ops       == Forms \cup Sweeps \cup {"publish", "retract", "republish", "reset"}
FaultKinds == {"refuse", "lostAck", "cancel", "crash", "storeLoss",
               "reconnect", "idleReconnect"}
Labels    == {"idle", "readGen", "syncGen", "keep", "gate", "observe", "slot",
              "window", "work", "pubGate", "announce", "copy", "sent", "applied"}

Values    == Bodies \cup {Empty}
Call      == [op : Ops, topic : Topics \cup {None}, body : Values, scope : SUBSET Topics]
Message   == [topic : Topics, body : Values]
\* retainedConfigs answered nil: nothing is known, retract everything.
Blind     == {None}
NoCall    == [op |-> "retract", topic |-> None, body |-> Empty, scope |-> {}]
NoMessage == [topic |-> None, body |-> Empty]

\* The topics of the other discovery form that a config replaces.
Replaced(t, b) == IF t \in Docs THEN Legacy[b] ELSE {DocOf[t]}

\* One retraction for each topic of S.
Clears(S) == [topic : S, body : {Empty}]

NoConflict(tree) ==
  \A d \in Docs : tree[d] # Empty => \A e \in Legacy[tree[d]] : tree[e] = Empty

ASSUME RuntimeAssumption ==
  /\ Docs \cap Ents = {} /\ None \notin Topics \cup Callers
  /\ Empty \notin Bodies
  /\ DocOf \in [Ents -> Docs]
  /\ Legacy \in [Bodies -> SUBSET Ents] /\ Withheld \in [Bodies -> SUBSET Ents]
  /\ Prefixed \subseteq Topics
  /\ Plans \subseteq [Callers -> SUBSET Call] /\ Plans # {}
  /\ \A pl \in Plans, p \in Callers : \A c \in pl[p] :
        /\ c.op \in Forms => c.topic \in Topics /\ c.body \in Bodies
        /\ c.op = "bundle" => c.topic \in Docs
        /\ c.op = "component" => c.topic \in Ents
        /\ c.op = "publish" => c.topic \in Topics
  /\ Leftovers \subseteq [Topics -> Values]
  /\ QoS \in {0, 1} /\ Faults \subseteq FaultKinds
  /\ {Generational, SupersedeObserved, LongWindow} \subseteq BOOLEAN
  /\ {MaxConnection, MaxEpoch, MaxWire} \subseteq Nat

VARIABLES
  retained, wire, connection,   \* the broker's tree, the QoS 0 socket, its generation
  declared, gated, announced, superseded, claimed, kept,      \* under Runtime.mu
  observed, observedTaken, epoch, gen, genSeen,               \* under Runtime.mu
  slot,                         \* sweepMu: the caller holding the snapshot slot
  plan,                         \* what this process life calls
  pc, call, todo, msg, view, seen, mark   \* each caller's own frame

broker == <<retained, wire, connection>>
gates  == <<declared, gated, announced, superseded, claimed, kept>>
memos  == <<observed, observedTaken, epoch, gen, genSeen>>
frames == <<pc, call, todo, msg, view, seen, mark>>
vars   == <<broker, gates, memos, slot, plan, frames>>

-----------------------------------------------------------------------------
(* The runtime New returns knows nothing; no caller is inside a method.    *)

Nothing == [t \in Topics |-> Empty]
Each(v) == [p \in Callers |-> v]

Init ==
  /\ retained \in Leftovers /\ wire = <<>> /\ connection = 0 /\ plan \in Plans
  /\ declared = Nothing /\ kept = [d \in Docs |-> {}]
  /\ gated = {} /\ announced = {} /\ superseded = {} /\ claimed = {}
  /\ observed = {} /\ observedTaken = FALSE /\ epoch = 0
  /\ gen = 0 /\ genSeen = FALSE /\ slot = None
  /\ pc = Each("idle") /\ call = Each(NoCall) /\ todo = Each({}) /\ msg = Each(NoMessage)
  /\ view = Each(Blind) /\ seen = Each(0) /\ mark = Each(0)

Go(p, label) == pc' = [pc EXCEPT ![p] = label]

\* The method returns: its frame is gone.
Return(p) ==
  /\ Go(p, "idle")
  /\ call' = [call EXCEPT ![p] = NoCall]
  /\ todo' = [todo EXCEPT ![p] = {}]
  /\ msg'  = [msg  EXCEPT ![p] = NoMessage]
  /\ view' = [view EXCEPT ![p] = Blind]
  /\ seen' = [seen EXCEPT ![p] = 0]
  /\ mark' = [mark EXCEPT ![p] = 0]

\* Hand message m to the transport.
Send(p, m) ==
  /\ Go(p, "sent")
  /\ msg'  = [msg  EXCEPT ![p] = m]
  /\ todo' = [todo EXCEPT ![p] = @ \ {m}]

\* Mutants of Forget: each leaves one memo of the old connection standing.
ForgetButGate ==
  /\ gated' = gated /\ superseded' = {}
  /\ observed' = {} /\ observedTaken' = FALSE
  /\ epoch' = epoch + 1

ForgetButSuperseded ==
  /\ gated' = {} /\ superseded' = superseded
  /\ observed' = {} /\ observedTaken' = FALSE
  /\ epoch' = epoch + 1

\* resetLocked: drop what describes a connection rather than the process.
Forget ==
  /\ gated' = {} /\ superseded' = {}
  /\ observed' = {} /\ observedTaken' = FALSE
  /\ epoch' = epoch + 1

\* The dedup gate of Publish, PublishBundle and PublishComponent.
Suppressed(t, b) == t \in gated /\ declared[t] = b

Kept == UNION {kept[d] : d \in Docs}

\* Mutant of Claims: containment's kept topics are not consulted.
ClaimsButKept(t) == declared[t] # Empty \/ t \in announced

Claims(t) == declared[t] # Empty \/ t \in announced \/ t \in Kept

-----------------------------------------------------------------------------
(* Entering a method, and checkGeneration.                                 *)

AfterCheck(op) ==
  CASE op = "publish"   -> "pubGate"
    [] op = "bundle"    -> "keep"
    [] op = "component" -> "gate"
    [] op = "republish" -> "copy"
    [] OTHER            -> "slot"

\* Retract alone does not look at the connection's generation.
Entry(op) ==
  CASE op = "retract" -> "work"
    [] op # "retract" /\ Generational -> "readGen"
    [] OTHER -> AfterCheck(op)

Begin(p) ==
  /\ pc[p] = "idle"
  /\ \E c \in plan[p] :
       /\ c.op # "reset"
       /\ call' = [call EXCEPT ![p] = c]
       /\ Go(p, Entry(c.op))
       /\ todo' = [todo EXCEPT ![p] = IF c.op = "retract" THEN Clears(c.scope) ELSE {}]
  /\ UNCHANGED <<broker, gates, memos, slot, plan, msg, view, seen, mark>>

\* Reset, one critical section from end to end.
Reset(p) ==
  /\ pc[p] = "idle" /\ epoch < MaxEpoch
  /\ \E c \in plan[p] : c.op = "reset"
  /\ Forget
  /\ UNCHANGED <<broker, declared, announced, claimed, kept, gen, genSeen, slot, plan, frames>>

\* The generation is read before mu is taken.
ReadGeneration(p) ==
  /\ pc[p] = "readGen"
  /\ seen' = [seen EXCEPT ![p] = connection]
  /\ Go(p, "syncGen")
  /\ UNCHANGED <<broker, gates, memos, slot, plan, call, todo, msg, view, mark>>

SyncGeneration(p) ==
  /\ pc[p] = "syncGen"
  /\ gen' = seen[p] /\ genSeen' = TRUE
  /\ IF genSeen /\ gen # seen[p]
     THEN Forget
     ELSE UNCHANGED <<gated, superseded, observed, observedTaken, epoch>>
  /\ Go(p, AfterCheck(call[p].op))
  /\ UNCHANGED <<broker, declared, announced, claimed, kept, slot, plan,
                 call, todo, msg, view, seen, mark>>

-----------------------------------------------------------------------------
(* PublishBundle and PublishComponent up to their closing Publish.         *)

KeepWithheld(p) ==
  /\ pc[p] = "keep"
  /\ kept' = [kept EXCEPT ![call[p].topic] = Withheld[call[p].body]]
  /\ Go(p, "gate")
  /\ UNCHANGED <<broker, declared, gated, announced, superseded, claimed, memos, slot, plan,
                 call, todo, msg, view, seen, mark>>

FormGate(p) ==
  /\ pc[p] = "gate"
  /\ IF Suppressed(call[p].topic, call[p].body)
     THEN Return(p)
     ELSE /\ todo' = [todo EXCEPT ![p] = Clears(Replaced(call[p].topic, call[p].body))]
          /\ Go(p, IF SupersedeObserved THEN "observe" ELSE "work")
          /\ UNCHANGED <<call, msg, view, seen, mark>>
  /\ UNCHANGED <<broker, gates, memos, slot, plan>>

\* retainedConfigs, first section: nothing pending, a snapshot at hand, or a
\* snapshot to take.
Observe(p) ==
  /\ pc[p] = "observe"
  /\ LET pending == Replaced(call[p].topic, call[p].body) \ superseded
     IN  /\ view' = [view EXCEPT ![p] =
                       IF pending # {} /\ observedTaken THEN observed ELSE Blind]
         /\ Go(p, IF pending = {} \/ observedTaken THEN "work" ELSE "slot")
  /\ mark' = [mark EXCEPT ![p] = epoch]
  /\ UNCHANGED <<broker, gates, memos, slot, plan, call, todo, msg, seen>>

\* Mutants of SupersedeStep: a topic this process never published is skipped ...
SupersedeStepKnownOnly(p) ==
  /\ pc[p] = "work" /\ call[p].op \in Forms
  /\ \E m \in todo[p] :
       LET t     == m.topic
           blank == declared[t] = Empty
       IN  IF t \in superseded \/ blank
           THEN /\ superseded' = superseded \cup {t}
                /\ todo' = [todo EXCEPT ![p] = @ \ {m}]
                /\ UNCHANGED <<pc, msg>>
           ELSE Send(p, m) /\ UNCHANGED superseded
  /\ UNCHANGED <<broker, declared, gated, announced, claimed, kept, memos, slot, plan,
                 call, view, seen, mark>>

\* ... or a topic no snapshot could have shown.
SupersedeStepAnyPrefix(p) ==
  /\ pc[p] = "work" /\ call[p].op \in Forms
  /\ \E m \in todo[p] :
       LET t     == m.topic
           blank == view[p] # Blind /\ t \notin view[p] /\ declared[t] = Empty
       IN  IF t \in superseded \/ blank
           THEN /\ superseded' = superseded \cup {t}
                /\ todo' = [todo EXCEPT ![p] = @ \ {m}]
                /\ UNCHANGED <<pc, msg>>
           ELSE Send(p, m) /\ UNCHANGED superseded
  /\ UNCHANGED <<broker, declared, gated, announced, claimed, kept, memos, slot, plan,
                 call, view, seen, mark>>

\* supersede's walk.  A topic done already, or one the snapshot shows empty,
\* costs no message.
SupersedeStep(p) ==
  /\ pc[p] = "work" /\ call[p].op \in Forms
  /\ \E m \in todo[p] :
       LET t     == m.topic
           blank == view[p] # Blind /\ t \notin view[p] /\ declared[t] = Empty /\ t \in Prefixed
       IN  IF t \in superseded \/ blank
           THEN /\ superseded' = superseded \cup {t}
                /\ todo' = [todo EXCEPT ![p] = @ \ {m}]
                /\ UNCHANGED <<pc, msg>>
           ELSE Send(p, m) /\ UNCHANGED superseded
  /\ UNCHANGED <<broker, declared, gated, announced, claimed, kept, memos, slot, plan,
                 call, view, seen, mark>>

SupersedeAnswered(p) ==
  /\ pc[p] = "applied" /\ call[p].op \in Forms
  /\ LET t == msg[p].topic
     IN  /\ superseded' = superseded \cup {t}
         /\ declared' = [declared EXCEPT ![t] = Empty]
         /\ gated' = gated \ {t} /\ announced' = announced \ {t}
  /\ Go(p, "work")
  /\ msg' = [msg EXCEPT ![p] = NoMessage]
  /\ UNCHANGED <<broker, claimed, kept, memos, slot, plan, call, todo, view, seen, mark>>

\* The closing Publish of the document or of the entity's config.
SupersedeEnds(p) ==
  /\ pc[p] = "work" /\ call[p].op \in Forms /\ todo[p] = {}
  /\ call' = [call EXCEPT ![p] =
                [op |-> "publish", topic |-> @.topic, body |-> @.body, scope |-> {}]]
  /\ Go(p, Entry("publish"))
  /\ view' = [view EXCEPT ![p] = Blind]
  /\ seen' = [seen EXCEPT ![p] = 0] /\ mark' = [mark EXCEPT ![p] = 0]
  /\ UNCHANGED <<broker, gates, memos, slot, plan, todo, msg>>

-----------------------------------------------------------------------------
(* Publish.                                                                *)

PublishGate(p) ==
  /\ pc[p] = "pubGate"
  /\ LET t == call[p].topic
         b == call[p].body
     IN  \/ /\ Suppressed(t, b) \/ (b = Empty /\ declared[t] = Empty)
            /\ Return(p)
         \/ /\ ~Suppressed(t, b) /\ b # Empty
            /\ Go(p, "announce")
            /\ UNCHANGED <<call, todo, msg, view, seen, mark>>
         \/ /\ ~Suppressed(t, b) /\ b = Empty /\ declared[t] # Empty
            /\ Send(p, [topic |-> t, body |-> b])
            /\ UNCHANGED <<call, view, seen, mark>>
  /\ UNCHANGED <<broker, gates, memos, slot, plan>>

\* The claim is taken before the transport call, so a concurrent sweep sees it.
Announce(p) ==
  /\ pc[p] = "announce"
  /\ announced' = announced \cup {call[p].topic}
  /\ Send(p, [topic |-> call[p].topic, body |-> call[p].body])
  /\ UNCHANGED <<broker, declared, gated, superseded, claimed, kept, memos, slot, plan,
                 call, view, seen, mark>>

PublishAnswered(p) ==
  /\ pc[p] = "applied" /\ call[p].op = "publish"
  /\ LET t == call[p].topic
         b == call[p].body
     IN  /\ declared' = [declared EXCEPT ![t] = b]
         /\ IF b = Empty
            THEN gated' = gated \ {t} /\ announced' = announced \ {t} /\ UNCHANGED claimed
            ELSE gated' = gated \cup {t} /\ claimed' = claimed \cup {t} /\ UNCHANGED announced
  /\ Return(p)
  /\ UNCHANGED <<broker, superseded, kept, memos, slot, plan>>

-----------------------------------------------------------------------------
(* Retract and Republish: best effort, one message per topic.              *)

\* Republish copies the declared set and walks the copy without mu.
CopyDeclared(p) ==
  /\ pc[p] = "copy"
  /\ todo' = [todo EXCEPT ![p] =
        {[topic |-> t, body |-> declared[t]] : t \in {u \in Topics : declared[u] # Empty}}]
  /\ Go(p, "work")
  /\ UNCHANGED <<broker, gates, memos, slot, plan, call, msg, view, seen, mark>>

WalkStep(p) ==
  /\ pc[p] = "work" /\ call[p].op \in {"retract", "republish"}
  /\ \E m \in todo[p] : Send(p, m)
  /\ UNCHANGED <<broker, gates, memos, slot, plan, call, view, seen, mark>>

\* Mutant of RetractAnswered: the cleared topic stays declared.
RetractAnsweredKeepingDeclared(p) ==
  /\ pc[p] = "applied" /\ call[p].op = "retract"
  /\ Go(p, "work")
  /\ msg' = [msg EXCEPT ![p] = NoMessage]
  /\ UNCHANGED <<broker, gates, memos, slot, plan, call, todo, view, seen, mark>>

RetractAnswered(p) ==
  /\ pc[p] = "applied" /\ call[p].op = "retract"
  /\ declared' = [declared EXCEPT ![msg[p].topic] = Empty]
  /\ gated' = gated \ {msg[p].topic} /\ announced' = announced \ {msg[p].topic}
  /\ Go(p, "work")
  /\ msg' = [msg EXCEPT ![p] = NoMessage]
  /\ UNCHANGED <<broker, superseded, claimed, kept, memos, slot, plan, call, todo, view, seen, mark>>

RepublishAnswered(p) ==
  /\ pc[p] = "applied" /\ call[p].op = "republish"
  /\ Go(p, "work")
  /\ msg' = [msg EXCEPT ![p] = NoMessage]
  /\ UNCHANGED <<broker, gates, memos, slot, plan, call, todo, view, seen, mark>>

-----------------------------------------------------------------------------
(* The snapshot window and Sweep.                                          *)

\* Mutant of Owned: SelfClaimed is not looked at.
OwnedWithoutClaim(p, t) == t \in call[p].scope

\* ownsForSweep: Owns is the scope, SelfClaimed narrows it to Claimed().
Owned(p, t) == t \in call[p].scope /\ (call[p].op = "selfsweep" => t \in claimed)

\* A retained config the window's handler looks at: for supersede any, for a
\* sweep the owned ones.
Collectable(p, t) ==
  /\ t \in Prefixed /\ retained[t] # Empty
  /\ call[p].op \in Sweeps => Owned(p, t)

\* Mutant of TakeSlot: the window opens without sweepMu.
TakeSlotUnlocked(p) ==
  /\ pc[p] = "slot"
  /\ view' = [view EXCEPT ![p] = {}]
  /\ Go(p, "window") /\ slot' = p
  /\ UNCHANGED <<broker, gates, memos, plan, call, todo, msg, seen, mark>>

\* sweepMu is free: take it, unless another bundle took the snapshot meanwhile.
TakeSlot(p) ==
  /\ pc[p] = "slot" /\ slot = None
  /\ IF call[p].op \in Forms /\ observedTaken
     THEN /\ view' = [view EXCEPT ![p] = observed]
          /\ Go(p, "work") /\ UNCHANGED slot
     ELSE /\ view' = [view EXCEPT ![p] = {}]
          /\ Go(p, "window") /\ slot' = p
  /\ UNCHANGED <<broker, gates, memos, plan, call, todo, msg, seen, mark>>

\* The subscribe is refused, or no budget is left for a window: supersede
\* falls back to the blind round, a sweep reports the error.
SnapshotRefused(p) ==
  /\ "refuse" \in Faults
  /\ pc[p] = "slot" /\ slot = None
  /\ IF call[p].op \in Forms
     THEN ~observedTaken /\ Go(p, "work") /\ UNCHANGED <<call, todo, msg, view, seen, mark>>
     ELSE Return(p)
  /\ UNCHANGED <<broker, gates, memos, slot, plan>>

\* One delivery; view holds the topics delivered so far.  A sweep lists the
\* topic unless somebody claims it just then.
Collect(p) ==
  /\ pc[p] = "window"
  /\ \E t \in Topics :
       /\ Collectable(p, t)
       /\ view' = [view EXCEPT ![p] = @ \cup {t}]
       /\ todo' = IF call[p].op \in Sweeps /\ ~Claims(t)
                  THEN [todo EXCEPT ![p] = @ \cup Clears({t})] ELSE todo
  /\ UNCHANGED <<broker, gates, memos, slot, plan, pc, call, msg, seen, mark>>

\* The timer fires.  A snapshot whose window spanned a reset serves this call only.
CloseWindow(p) ==
  /\ pc[p] = "window"
  /\ LongWindow => \A t \in Topics : Collectable(p, t) => t \in view[p]
  /\ IF call[p].op \in Forms
     THEN /\ IF epoch = mark[p]
             THEN observed' = view[p] /\ observedTaken' = TRUE
             ELSE UNCHANGED <<observed, observedTaken>>
          /\ slot' = None /\ Go(p, "work")
          /\ UNCHANGED <<call, todo, msg, view, seen, mark>>
     ELSE /\ UNCHANGED <<observed, observedTaken>>
          /\ IF call[p].op = "report"
             THEN slot' = None /\ Return(p)
             ELSE /\ Go(p, "work") /\ view' = [view EXCEPT ![p] = Blind]
                  /\ UNCHANGED <<slot, call, todo, msg, seen, mark>>
  /\ UNCHANGED <<broker, gates, epoch, gen, genSeen, plan>>

\* The verdict of the window is checked once more before each retraction.
SweepStep(p) ==
  /\ pc[p] = "work" /\ call[p].op \in Sweeps
  /\ \E m \in todo[p] :
       IF Claims(m.topic)
       THEN todo' = [todo EXCEPT ![p] = @ \ {m}] /\ UNCHANGED <<pc, msg>>
       ELSE Send(p, m)
  /\ UNCHANGED <<broker, gates, memos, slot, plan, call, view, seen, mark>>

SweepAnswered(p) ==
  /\ pc[p] = "applied" /\ call[p].op \in Sweeps
  /\ declared' = [declared EXCEPT ![msg[p].topic] = Empty]
  /\ gated' = gated \ {msg[p].topic}
  /\ Go(p, "work")
  /\ msg' = [msg EXCEPT ![p] = NoMessage]
  /\ UNCHANGED <<broker, announced, superseded, claimed, kept, memos, slot, plan,
                 call, todo, view, seen, mark>>

\* Mutant of WalkEnds: the slot is not given back.
WalkEndsHolding(p) ==
  /\ pc[p] = "work" /\ call[p].op \notin Forms /\ todo[p] = {}
  /\ Return(p)
  /\ UNCHANGED <<broker, gates, memos, slot, plan>>

\* The end of a walk: Retract, Republish and Sweep return.
WalkEnds(p) ==
  /\ pc[p] = "work" /\ call[p].op \notin Forms /\ todo[p] = {}
  /\ Return(p)
  /\ slot' = IF slot = p THEN None ELSE slot
  /\ UNCHANGED <<broker, gates, memos, plan>>

\* The caller's context ends where the code looks at it.
Cancel(p) ==
  /\ "cancel" \in Faults
  /\ pc[p] \in {"slot", "window"} \/ (pc[p] = "work" /\ call[p].op \notin Forms)
  /\ Return(p)
  /\ slot' = IF slot = p THEN None ELSE slot
  /\ UNCHANGED <<broker, gates, memos, plan>>

-----------------------------------------------------------------------------
(* The transport and the broker.                                           *)

\* QoS 1: the broker applies the message, then acknowledges it.
BrokerApplies(p) ==
  /\ QoS = 1 /\ pc[p] = "sent"
  /\ retained' = [retained EXCEPT ![msg[p].topic] = msg[p].body]
  /\ Go(p, "applied")
  /\ UNCHANGED <<wire, connection, gates, memos, slot, plan, call, todo, msg, view, seen, mark>>

\* QoS 0: the socket takes it, and that is the answer.
SocketTakes(p) ==
  /\ QoS = 0 /\ pc[p] = "sent" /\ Len(wire) < MaxWire
  /\ wire' = Append(wire, msg[p])
  /\ Go(p, "applied")
  /\ UNCHANGED <<retained, connection, gates, memos, slot, plan, call, todo, msg, view, seen, mark>>

BrokerReads ==
  /\ wire # <<>>
  /\ retained' = [retained EXCEPT ![Head(wire).topic] = Head(wire).body]
  /\ wire' = Tail(wire)
  /\ UNCHANGED <<connection, gates, memos, slot, plan, frames>>

\* Mutant of Refused: the claim of a failed publish stays.
RefusedKeepingClaim(p) ==
  /\ \/ "refuse" \in Faults /\ pc[p] = "sent"
     \/ "lostAck" \in Faults /\ pc[p] = "applied"
  /\ IF call[p].op \in Forms \cup {"publish"}
     THEN Return(p)
     ELSE /\ Go(p, "work") /\ msg' = [msg EXCEPT ![p] = NoMessage]
          /\ UNCHANGED <<call, todo, view, seen, mark>>
  /\ UNCHANGED <<broker, gates, memos, slot, plan>>

\* The transport returns an error, for a message that never arrived or for one
\* whose acknowledgement was lost.
Refused(p) ==
  /\ \/ "refuse" \in Faults /\ pc[p] = "sent"
     \/ "lostAck" \in Faults /\ pc[p] = "applied"
  /\ announced' = IF call[p].op = "publish" /\ call[p].body # Empty
                  THEN announced \ {call[p].topic} ELSE announced
  /\ IF call[p].op \in Forms \cup {"publish"}
     THEN Return(p)
     ELSE /\ Go(p, "work") /\ msg' = [msg EXCEPT ![p] = NoMessage]
          /\ UNCHANGED <<call, todo, view, seen, mark>>
  /\ UNCHANGED <<broker, declared, gated, superseded, claimed, kept, memos, slot, plan>>

\* A new connection: what the old socket still held is gone, and a broker
\* without persistence may come back empty.
Reconnect ==
  /\ connection < MaxConnection
  /\ \/ "reconnect" \in Faults
     \/ "idleReconnect" \in Faults /\ \A p \in Callers : pc[p] = "idle"
  /\ connection' = connection + 1 /\ wire' = <<>>
  /\ \/ UNCHANGED retained
     \/ "storeLoss" \in Faults /\ retained' = [t \in Topics |-> Empty]
  /\ UNCHANGED <<gates, memos, slot, plan, frames>>

\* The process dies and its successor, perhaps another build, starts.
Crash ==
  /\ "crash" \in Faults
  /\ wire' = <<>> /\ connection' = 0 /\ plan' \in Plans
  /\ declared' = Nothing /\ kept' = [d \in Docs |-> {}]
  /\ gated' = {} /\ announced' = {} /\ superseded' = {} /\ claimed' = {}
  /\ observed' = {} /\ observedTaken' = FALSE /\ epoch' = 0
  /\ gen' = 0 /\ genSeen' = FALSE /\ slot' = None
  /\ pc' = Each("idle") /\ call' = Each(NoCall) /\ todo' = Each({}) /\ msg' = Each(NoMessage)
  /\ view' = Each(Blind) /\ seen' = Each(0) /\ mark' = Each(0)
  /\ UNCHANGED retained

-----------------------------------------------------------------------------
Step(p) ==
  \/ ReadGeneration(p) \/ SyncGeneration(p)
  \/ KeepWithheld(p) \/ FormGate(p) \/ Observe(p)
  \/ SupersedeStep(p) \/ SupersedeAnswered(p) \/ SupersedeEnds(p)
  \/ PublishGate(p) \/ Announce(p) \/ PublishAnswered(p)
  \/ CopyDeclared(p) \/ WalkStep(p) \/ RetractAnswered(p) \/ RepublishAnswered(p)
  \/ TakeSlot(p) \/ CloseWindow(p) \/ SweepStep(p) \/ SweepAnswered(p) \/ WalkEnds(p)
  \/ BrokerApplies(p) \/ SocketTakes(p)

Next ==
  \/ \E p \in Callers :
        \/ Begin(p) \/ Reset(p) \/ Step(p) \/ Collect(p)
        \/ SnapshotRefused(p) \/ Cancel(p) \/ Refused(p)
  \/ BrokerReads \/ Reconnect \/ Crash

Spec == Init /\ [][Next]_vars

\* Every method step the Go scheduler, the timers and the transport's own
\* deadlines are bound to make; sweepMu is handed to every waiter in the end.
Fairness ==
  /\ \A p \in Callers : WF_vars(Step(p)) /\ SF_vars(TakeSlot(p))
  /\ WF_vars(BrokerReads)

FairSpec == Spec /\ Fairness

-----------------------------------------------------------------------------
(* Properties.                                                             *)

\* The types of the state.
TypeOK ==
  /\ retained \in [Topics -> Values] /\ wire \in Seq(Message) /\ connection \in Nat
  /\ declared \in [Topics -> Values]
  /\ gated \subseteq Topics /\ announced \subseteq Topics
  /\ superseded \subseteq Topics /\ claimed \subseteq Topics
  /\ kept \in [Docs -> SUBSET Ents]
  /\ observed \subseteq Topics /\ observedTaken \in BOOLEAN
  /\ epoch \in Nat /\ gen \in Nat /\ genSeen \in BOOLEAN
  /\ slot \in Callers \cup {None}
  /\ plan \in Plans
  /\ pc \in [Callers -> Labels]
  /\ call \in [Callers -> Call] /\ todo \in [Callers -> SUBSET Message]
  /\ msg \in [Callers -> Message \cup {NoMessage}]
  /\ view \in [Callers -> SUBSET (Topics \cup {None})]
  /\ seen \in [Callers -> Nat] /\ mark \in [Callers -> Nat]

\* The broker never retains a device document together with a per-entity
\* config the document's components supersede: Home Assistant would refuse
\* whichever came second (PublishBundle, PublishComponent).
NoFormConflict == NoConflict(retained)

InFlight(t) ==
  \/ \E p \in Callers : pc[p] \in {"sent", "applied"} /\ msg[p].topic = t
  \/ \E i \in 1..Len(wire) : wire[i].topic = t

\* A config the dedup gate would suppress is, byte for byte, what the broker
\* retains, unless the connection changed since or a write of it is under way.
GateSound ==
  \A t \in gated :
    (Generational => gen = connection) /\ ~InFlight(t) => retained[t] = declared[t]

\* Once nothing is under way and the runtime has seen the current connection,
\* a document it would not publish again stands alone: the gate never freezes a
\* refused migration.
GatedDocsStandAlone ==
  (/\ \A p \in Callers : pc[p] = "idle"
   /\ wire = <<>> /\ gen = connection) =>
  \A d \in Docs \cap gated : \A e \in Legacy[declared[d]] : retained[e] = Empty

\* Caller p's sweep has topic t cleared at the broker in this step.
SweepClears(p, t) ==
  /\ pc[p] = "sent" /\ call[p].op \in Sweeps /\ msg[p].topic = t
  /\ pc'[p] = "applied"

\* A sweep never clears the per-entity config of a component that the document
\* last published for its node withholds (WithheldTopics).
KeptSurvive ==
  [][\A p \in Callers, t \in Topics : SweepClears(p, t) =>
       \A d \in Docs : declared[d] # Empty => t \notin Withheld[declared[d]]]_vars

\* A sweep's window overlooks no orphan: what the sweep owns and the broker still
\* retains when the window closes is on its list, or declared, or kept by
\* containment, or being published just then; above all, a publish that failed
\* leaves no claim behind to shield what it failed to overwrite (Publish, Sweep).
WindowMissesNoOrphan ==
  [][\A p \in Callers :
       call[p].op \in {"sweep", "selfsweep"} /\ pc[p] = "window" /\ pc'[p] = "work" =>
       \A t \in Prefixed : Owned(p, t) /\ retained[t] # Empty =>
         \/ [topic |-> t, body |-> Empty] \in todo[p]
         \/ declared[t] # Empty \/ t \in Kept \/ InFlight(t)]_vars

\* Two windows are never open at once: the client keys subscriptions by filter.
OneWindow == \A p, q \in Callers : pc[p] = "window" /\ pc[q] = "window" => p = q

\* Every call returns.
CallsReturn == \A p \in Callers : pc[p] # "idle" ~> pc[p] = "idle"

=============================================================================
