--------------------------- MODULE DiscoveryProofs ---------------------------
(***************************************************************************)
(* Whatever the callers, the topics and the faults are, the state is well  *)
(* typed, every frame is of a call in its caller's plan, and no two        *)
(* snapshot windows are open at once.  In the regime of DiscoveryInvariant *)
(* the two discovery forms never meet on the broker, the runtime           *)
(* implements ConfigTree, and documents the gate would not publish again   *)
(* stand alone; where each topic has one writer, the gate describes the    *)
(* broker; where nobody else writes what a sweep owns, its window          *)
(* overlooks no orphan; and no sweep clears what a declared document       *)
(* withholds.                                                              *)
(***************************************************************************)
EXTENDS DiscoveryInvariant, TLAPS

-----------------------------------------------------------------------------
(* Facts about the constants and the plan of a life.                       *)

LEMMA CallsTyped ==
  ASSUME plan \in Plans, NEW p \in Callers, NEW c \in plan[p]
  PROVE  /\ c \in Call
         /\ c.op \in Forms => c.topic \in Topics /\ c.body \in Bodies
         /\ c.op = "bundle" => c.topic \in Docs
         /\ c.op = "component" => c.topic \in Ents
         /\ c.op = "publish" => c.topic \in Topics
         /\ Reach(c) \subseteq Reached
  <1>1. plan \in [Callers -> SUBSET Call]
    BY RuntimeAssumption
  <1>2. plan[p] \in SUBSET Call
    BY <1>1
  <1>3. c \in UNION {pl[q] : pl \in Plans, q \in Callers}
    OBVIOUS
  <1>4. Reach(c) \subseteq Reached
    BY <1>3 DEF Reached
  <1>5. QED
    BY <1>2, <1>4, RuntimeAssumption

LEMMA MessagesTyped ==
  /\ \A S \in SUBSET Topics : Clears(S) \subseteq Message
  /\ \A t \in Topics, b \in Values : [topic |-> t, body |-> b] \in Message
  BY DEF Clears, Message, Values

LEMMA EntriesAreLabels ==
  ASSUME NEW op
  PROVE  AfterCheck(op) \in Labels /\ Entry(op) \in Labels
  BY DEF AfterCheck, Entry, Labels

\* A queue that loses a message, and a frame that gains one, keep their types.
LEMMA LesserQueue ==
  ASSUME TypeOK, NEW p \in Callers, NEW m
  PROVE  [todo EXCEPT ![p] = @ \ {m}] \in [Callers -> SUBSET Message]
  <1>1. todo[p] \ {m} \in SUBSET Message /\ todo \in [Callers -> SUBSET Message]
    BY DEF TypeOK
  <1>2. QED
    BY <1>1

LEMMA MessageSet ==
  ASSUME TypeOK, NEW p \in Callers, NEW m \in Message
  PROVE  [msg EXCEPT ![p] = m] \in [Callers -> Message \cup {NoMessage}]
  BY DEF TypeOK

\* What a caller's call is about.
LEMMA CallFacts ==
  ASSUME Typed, NEW p \in Callers
  PROVE  /\ call[p].op \in Forms => /\ call[p] \in plan[p] /\ call[p].topic \in Topics /\ call[p].body \in Bodies
                                    /\ Replaced(call[p].topic, call[p].body) \subseteq Topics
         /\ call[p].op = "bundle" => call[p].topic \in Docs
         /\ call[p].op = "component" => call[p].topic \in Ents
         /\ call[p].op \in Cleaning => call[p] \in plan[p]
         /\ call[p].op = "publish" => call[p].topic \in Topics /\ call[p].body \in Values
  <1>1. plan \in Plans /\ call[p] \in Call /\ Planned(p)
    BY DEF Typed, TypeOK, Framed
  <1>2. CASE call[p] = NoCall
    BY <1>2 DEF NoCall, Forms, Cleaning
  <1>3. CASE call[p] \in plan[p]
    <2>1. call[p].op \in Forms => Replaced(call[p].topic, call[p].body) \subseteq Topics
      BY <1>1, <1>3, CallsTyped, RuntimeAssumption DEF Replaced, Topics
    <2>2. QED
      BY <1>1, <1>3, <2>1, CallsTyped DEF Call
  <1>4. ASSUME NEW c \in plan[p], c.op \in Forms,
               call[p] = [op |-> "publish", topic |-> c.topic, body |-> c.body, scope |-> {}]
        PROVE  call[p].op = "publish" /\ call[p].topic \in Topics /\ call[p].body \in Values
    BY <1>1, <1>4, CallsTyped DEF Values
  <1>5. QED
    BY <1>1, <1>2, <1>3, <1>4 DEF Planned, Forms, Cleaning

\* Type correctness, action by action.
LEMMA TypeInductive ==
  ASSUME Typed, [Next]_vars
  PROVE  TypeOK'
  <1>. TypeOK
    BY DEF Typed
  <1>. plan \in Plans /\ None \notin Topics
    BY RuntimeAssumption DEF TypeOK
  <1>1. ASSUME NEW p \in Callers, Return(p),
               UNCHANGED <<broker, gates, memos, plan>>, slot' \in Callers \cup {None}
        PROVE  TypeOK'
    BY <1>1 DEF TypeOK, Return, Go, broker, gates, memos, NoCall, NoMessage, Call, Values, Ops, Blind, Labels
  <1>2. ASSUME NEW p \in Callers, Begin(p)
        PROVE  TypeOK'
    <2>1. PICK c \in plan[p] : /\ call' = [call EXCEPT ![p] = c] /\ Go(p, Entry(c.op))
                               /\ todo' = [todo EXCEPT ![p] = IF c.op = "retract" THEN Clears(c.scope) ELSE {}]
      BY <1>2 DEF Begin
    <2>2. c \in Call /\ Clears(c.scope) \subseteq Message /\ Entry(c.op) \in Labels
      BY CallsTyped, MessagesTyped, EntriesAreLabels DEF Call
    <2>3. QED
      BY <1>2, <2>1, <2>2 DEF Begin, TypeOK, Go, broker, gates, memos
  <1>3. ASSUME NEW p \in Callers, Reset(p)
        PROVE  TypeOK'
    <2>1. observedTaken' \in BOOLEAN
      BY <1>3 DEF Reset, Forget
    <2>2. QED
      BY <1>3, <2>1 DEF Reset, Forget, TypeOK, broker, frames
  <1>4. ASSUME NEW p \in Callers, ReadGeneration(p)
        PROVE  TypeOK'
    BY <1>4 DEF ReadGeneration, Go, TypeOK, broker, gates, memos, Labels
  <1>5. ASSUME NEW p \in Callers, SyncGeneration(p)
        PROVE  TypeOK'
    <2>1. observedTaken' \in BOOLEAN /\ genSeen' \in BOOLEAN
      BY <1>5 DEF SyncGeneration, Forget, TypeOK
    <2>2. QED
      BY <1>5, <2>1, EntriesAreLabels DEF SyncGeneration, Forget, Go, TypeOK, broker
  <1>6. ASSUME NEW p \in Callers, KeepWithheld(p)
        PROVE  TypeOK'
    <2>1. call[p].body \in Bodies
      BY <1>6, CallFacts DEF KeepWithheld, Typed, Framed, Labelled, Forms
    <2>2. Withheld[call[p].body] \in SUBSET Ents
      BY <2>1, RuntimeAssumption
    <2>3. QED
      BY <1>6, <2>2 DEF KeepWithheld, Go, TypeOK, broker, memos, Labels
  <1>7. ASSUME NEW p \in Callers, FormGate(p)
        PROVE  TypeOK'
    <2>1. Replaced(call[p].topic, call[p].body) \subseteq Topics
      BY <1>7, CallFacts DEF FormGate, Typed, Framed, Labelled
    <2>2. Clears(Replaced(call[p].topic, call[p].body)) \subseteq Message
      BY <2>1, MessagesTyped
    <2>3. CASE Return(p)
      BY <1>1, <1>7, <2>3 DEF FormGate, TypeOK
    <2>4. CASE ~Return(p)
      <3>1. /\ todo' = [todo EXCEPT ![p] = Clears(Replaced(call[p].topic, call[p].body))]
            /\ pc' = [pc EXCEPT ![p] = IF SupersedeObserved THEN "observe" ELSE "work"]
            /\ UNCHANGED <<broker, gates, memos, slot, plan, call, msg, view, seen, mark>>
        BY <1>7, <2>4 DEF FormGate, Go
      <3>2. todo' \in [Callers -> SUBSET Message] /\ pc' \in [Callers -> Labels]
        BY <2>2, <3>1 DEF TypeOK, Labels
      <3>3. QED
        BY <3>1, <3>2 DEF TypeOK, broker, gates, memos
    <2>5. QED
      BY <2>3, <2>4
  <1>8. ASSUME NEW p \in Callers, Observe(p)
        PROVE  TypeOK'
    BY <1>8 DEF Observe, Go, TypeOK, broker, gates, memos, Labels, Blind
  <1>9. ASSUME NEW p \in Callers, SupersedeStep(p)
        PROVE  TypeOK'
    <2>1. PICK m \in todo[p] :
            \/ superseded' = superseded \cup {m.topic} /\ todo' = [todo EXCEPT ![p] = @ \ {m}]
               /\ UNCHANGED <<pc, msg>>
            \/ Send(p, m) /\ UNCHANGED superseded
      BY <1>9 DEF SupersedeStep
    <2>2. m \in Message /\ m.topic \in Topics
      BY DEF TypeOK, Message
    <2>3. superseded' \subseteq Topics /\ pc' \in [Callers -> Labels]
      BY <2>1, <2>2 DEF Send, Go, TypeOK, Labels
    <2>4. todo' \in [Callers -> SUBSET Message]
      BY <2>1, LesserQueue DEF Send
    <2>5. msg' \in [Callers -> Message \cup {NoMessage}]
      <3>1. UNCHANGED msg \/ msg' = [msg EXCEPT ![p] = m]
        BY <2>1 DEF Send
      <3>2. QED
        BY <2>2, <3>1, MessageSet DEF TypeOK
    <2>6. QED
      BY <1>9, <2>3, <2>4, <2>5 DEF SupersedeStep, TypeOK, broker, memos
  <1>10. ASSUME NEW p \in Callers, SupersedeAnswered(p)
         PROVE  TypeOK'
    <2>1. msg[p] \in Message
      BY <1>10 DEF SupersedeAnswered, Typed, Framed, InScope, Sending
    <2>2. QED
      BY <1>10, <2>1 DEF SupersedeAnswered, Go, TypeOK, broker, memos, Labels, Message, Values
  <1>11. ASSUME NEW p \in Callers, SupersedeEnds(p)
         PROVE  TypeOK'
    <2>1. [op |-> "publish", topic |-> call[p].topic, body |-> call[p].body, scope |-> {}] \in Call
      BY DEF TypeOK, Call, Ops
    <2>2. call' \in [Callers -> Call]
      BY <1>11, <2>1 DEF SupersedeEnds, TypeOK
    <2>3. QED
      BY <1>11, <2>2, EntriesAreLabels DEF SupersedeEnds, Go, TypeOK, broker, gates, memos, Blind
  <1>12. ASSUME NEW p \in Callers, PublishGate(p)
         PROVE  TypeOK'
    <2>1. call[p].topic \in Topics /\ call[p].body \in Values
      BY <1>12, CallFacts DEF PublishGate, Typed, Framed, Labelled
    <2>2. CASE Return(p)
      BY <1>1, <1>12, <2>2 DEF PublishGate, TypeOK
    <2>3. CASE ~Return(p)
      <3>1. [topic |-> call[p].topic, body |-> call[p].body] \in Message
        BY <2>1, MessagesTyped
      <3>2. CASE Send(p, [topic |-> call[p].topic, body |-> call[p].body])
        <4>1. todo' \in [Callers -> SUBSET Message] /\ msg' \in [Callers -> Message \cup {NoMessage}]
          BY <3>1, <3>2, LesserQueue, MessageSet DEF Send
        <4>2. UNCHANGED <<call, view, seen, mark, broker, gates, memos, slot, plan>>
          BY <1>12, <2>3, <3>2 DEF PublishGate
        <4>3. QED
          BY <3>2, <4>1, <4>2 DEF Send, Go, TypeOK, broker, gates, memos, Labels
      <3>3. CASE ~Send(p, [topic |-> call[p].topic, body |-> call[p].body])
        BY <1>12, <2>3, <3>3 DEF PublishGate, Go, TypeOK, broker, gates, memos, Labels
      <3>4. QED
        BY <3>2, <3>3
    <2>4. QED
      BY <2>2, <2>3
  <1>13. ASSUME NEW p \in Callers, Announce(p)
         PROVE  TypeOK'
    <2>1. call[p].topic \in Topics /\ call[p].body \in Values
      BY <1>13, CallFacts DEF Announce, Typed, Framed, Labelled
    <2>2. QED
      BY <1>13, <2>1, MessagesTyped DEF Announce, Send, Go, TypeOK, broker, memos, Labels
  <1>14. ASSUME NEW p \in Callers, PublishAnswered(p)
         PROVE  TypeOK'
    <2>1. call[p].topic \in Topics /\ call[p].body \in Values
      BY <1>14, CallFacts DEF PublishAnswered
    <2>2. QED
      BY <1>14, <2>1 DEF PublishAnswered, Return, Go, TypeOK, broker, memos,
                         NoCall, NoMessage, Call, Values, Ops, Blind, Labels
  <1>15. ASSUME NEW p \in Callers, CopyDeclared(p)
         PROVE  TypeOK'
    <2>1. {[topic |-> t, body |-> declared[t]] : t \in {u \in Topics : declared[u] # Empty}} \subseteq Message
      BY MessagesTyped DEF TypeOK
    <2>2. QED
      BY <1>15, <2>1 DEF CopyDeclared, Go, TypeOK, broker, gates, memos, Labels
  <1>16. ASSUME NEW p \in Callers, WalkStep(p)
         PROVE  TypeOK'
    BY <1>16 DEF WalkStep, Send, Go, TypeOK, broker, gates, memos, Labels
  <1>17. ASSUME NEW p \in Callers, RetractAnswered(p)
         PROVE  TypeOK'
    BY <1>17 DEF RetractAnswered, Go, TypeOK, broker, memos, Labels, Values
  <1>18. ASSUME NEW p \in Callers, RepublishAnswered(p)
         PROVE  TypeOK'
    BY <1>18 DEF RepublishAnswered, Go, TypeOK, broker, gates, memos, Labels
  <1>19. ASSUME NEW p \in Callers, TakeSlot(p)
         PROVE  TypeOK'
    <2>1. view' \in [Callers -> SUBSET (Topics \cup {None})] /\ slot' \in Callers \cup {None}
      <3>1. /\ \E held \in {observed, {}} : view' = [view EXCEPT ![p] = held]
            /\ slot' \in {slot, p}
        BY <1>19 DEF TakeSlot
      <3>2. QED
        BY <3>1 DEF TypeOK
    <2>2. QED
      <3>1. /\ \E label \in {"work", "window"} : pc' = [pc EXCEPT ![p] = label]
            /\ UNCHANGED <<broker, gates, memos, plan, call, todo, msg, seen, mark>>
        BY <1>19 DEF TakeSlot, Go
      <3>2. pc' \in [Callers -> Labels]
        BY <3>1 DEF TypeOK, Labels
      <3>3. QED
        BY <2>1, <3>1, <3>2 DEF TypeOK, broker, gates, memos
  <1>20. ASSUME NEW p \in Callers, SnapshotRefused(p)
         PROVE  TypeOK'
    <2>1. CASE Return(p)
      BY <1>1, <1>20, <2>1 DEF SnapshotRefused, TypeOK
    <2>2. CASE ~Return(p)
      BY <1>20, <2>2 DEF SnapshotRefused, Go, TypeOK, broker, gates, memos, Labels
    <2>3. QED
      BY <2>1, <2>2
  <1>21. ASSUME NEW p \in Callers, Collect(p)
         PROVE  TypeOK'
    <2>1. PICK t \in Topics :
            /\ view' = [view EXCEPT ![p] = @ \cup {t}]
            /\ todo' = [todo EXCEPT ![p] = @ \cup Clears({t})] \/ UNCHANGED todo
      BY <1>21 DEF Collect
    <2>2. Clears({t}) \subseteq Message
      BY MessagesTyped
    <2>3. view' \in [Callers -> SUBSET (Topics \cup {None})]
      <3>1. view[p] \cup {t} \in SUBSET (Topics \cup {None})
        BY DEF TypeOK
      <3>2. QED
        BY <2>1, <3>1 DEF TypeOK
    <2>4. todo' \in [Callers -> SUBSET Message]
      <3>1. todo[p] \cup Clears({t}) \in SUBSET Message
        BY <2>2 DEF TypeOK
      <3>2. QED
        BY <2>1, <3>1 DEF TypeOK
    <2>5. QED
      BY <1>21, <2>3, <2>4 DEF Collect, TypeOK, broker, gates, memos
  <1>22. ASSUME NEW p \in Callers, CloseWindow(p)
         PROVE  TypeOK'
    <2>1. CASE call[p].op \in Forms
      <3>1. observed' \subseteq Topics /\ observedTaken' \in BOOLEAN
        BY <1>22, <2>1 DEF CloseWindow, TypeOK, Typed, Framed, InScope
      <3>2. QED
        BY <1>22, <2>1, <3>1 DEF CloseWindow, Go, TypeOK, broker, gates, Labels
    <2>2. CASE call[p].op \notin Forms /\ call[p].op = "report"
      BY <1>1, <1>22, <2>2 DEF CloseWindow, memos
    <2>3. CASE call[p].op \notin Forms /\ call[p].op # "report"
      <3>1. view' = [view EXCEPT ![p] = Blind] /\ pc' = [pc EXCEPT ![p] = "work"]
        BY <1>22, <2>3 DEF CloseWindow, Go
      <3>2. view' \in [Callers -> SUBSET (Topics \cup {None})] /\ pc' \in [Callers -> Labels]
        BY <3>1 DEF TypeOK, Blind, Labels
      <3>3. QED
        BY <1>22, <2>3, <3>2 DEF CloseWindow, TypeOK, broker, gates
    <2>4. QED
      BY <2>1, <2>2, <2>3
  <1>23. ASSUME NEW p \in Callers, SweepStep(p)
         PROVE  TypeOK'
    <2>1. PICK m \in todo[p] :
            \/ todo' = [todo EXCEPT ![p] = @ \ {m}] /\ UNCHANGED <<pc, msg>>
            \/ Send(p, m)
      BY <1>23 DEF SweepStep
    <2>2. todo' \in [Callers -> SUBSET Message] /\ msg' \in [Callers -> Message \cup {NoMessage}]
      <3>1. m \in Message
        BY DEF TypeOK
      <3>2. todo' \in [Callers -> SUBSET Message]
        BY <2>1, LesserQueue DEF Send
      <3>3. msg' \in [Callers -> Message \cup {NoMessage}]
        <4>1. UNCHANGED msg \/ msg' = [msg EXCEPT ![p] = m]
          BY <2>1 DEF Send
        <4>2. QED
          BY <3>1, <4>1, MessageSet DEF TypeOK
      <3>4. QED
        BY <3>2, <3>3
    <2>3. pc' \in [Callers -> Labels]
      BY <2>1 DEF Send, Go, TypeOK, Labels
    <2>4. QED
      BY <1>23, <2>2, <2>3 DEF SweepStep, TypeOK, broker, gates, memos
  <1>24. ASSUME NEW p \in Callers, SweepAnswered(p)
         PROVE  TypeOK'
    BY <1>24 DEF SweepAnswered, Go, TypeOK, broker, memos, Labels, Values
  <1>25. ASSUME NEW p \in Callers, WalkEnds(p) \/ Cancel(p)
         PROVE  TypeOK'
    BY <1>1, <1>25 DEF WalkEnds, Cancel, TypeOK
  <1>26. ASSUME NEW p \in Callers, BrokerApplies(p)
         PROVE  TypeOK'
    BY <1>26 DEF BrokerApplies, Go, TypeOK, gates, memos, Labels, Values, Message, Typed, Framed, InScope, Sending
  <1>27. ASSUME NEW p \in Callers, Refused(p)
         PROVE  TypeOK'
    <2>1. CASE Return(p)
      BY <1>27, <2>1 DEF Refused, Return, Go, TypeOK, broker, memos, NoCall, NoMessage, Call, Values,
                         Ops, Blind, Labels
    <2>2. CASE ~Return(p)
      BY <1>27, <2>2 DEF Refused, Go, TypeOK, broker, memos, Labels
    <2>3. QED
      BY <2>1, <2>2
  <1>28. CASE Reconnect
    BY <1>28 DEF Reconnect, TypeOK, gates, memos, frames, Values
  <1>29. CASE Crash
    <2>1. observedTaken' \in BOOLEAN /\ genSeen' \in BOOLEAN
      BY <1>29 DEF Crash
    <2>2. /\ call' \in [Callers -> Call] /\ msg' \in [Callers -> Message \cup {NoMessage}]
          /\ pc' \in [Callers -> Labels] /\ declared' \in [Topics -> Values]
      BY <1>29 DEF Crash, Nothing, Each, NoCall, Call, Ops, Values, Labels
    <2>3. wire' \in Seq(Message)
      BY <1>29 DEF Crash
    <2>4. QED
      BY <1>29, <2>1, <2>2, <2>3 DEF Crash, Each, TypeOK, Blind
  <1>30. CASE UNCHANGED vars
    BY <1>30 DEF vars, broker, gates, memos, frames, TypeOK
  <1>31. ASSUME NEW p \in Callers, SocketTakes(p)
         PROVE  TypeOK'
    <2>1. msg[p] \in Message
      BY <1>31 DEF SocketTakes, Typed, Framed, InScope, Sending
    <2>2. wire' \in Seq(Message)
      BY <1>31, <2>1 DEF SocketTakes, TypeOK
    <2>3. QED
      BY <1>31, <2>2 DEF SocketTakes, Go, TypeOK, gates, memos, Labels
  <1>32. CASE BrokerReads
    <2>1. Head(wire) \in Message /\ Tail(wire) \in Seq(Message)
      BY <1>32 DEF BrokerReads, TypeOK
    <2>2. retained' \in [Topics -> Values]
      BY <1>32, <2>1 DEF BrokerReads, TypeOK, Message
    <2>3. QED
      BY <1>32, <2>1, <2>2 DEF BrokerReads, TypeOK, gates, memos, frames
  <1>33. QED
    BY <1>2, <1>3, <1>4, <1>5, <1>6, <1>7, <1>8, <1>9, <1>10, <1>11, <1>12, <1>13, <1>14, <1>15,
       <1>16, <1>17, <1>18, <1>19, <1>20, <1>21, <1>22, <1>23, <1>24, <1>25, <1>26, <1>27, <1>28,
       <1>29, <1>30, <1>31, <1>32 DEF Next, Step

-----------------------------------------------------------------------------
(* What a frame is.                                                        *)

\* A step that touches no frame but p's.
OthersKeep(p) ==
  \A q \in Callers \ {p} :
    /\ pc'[q] = pc[q] /\ call'[q] = call[q] /\ todo'[q] = todo[q]
    /\ msg'[q] = msg[q] /\ view'[q] = view[q]

LEMMA EntryLabels ==
  ASSUME NEW op \in Ops
  PROVE  /\ Entry(op) \in {"work", "readGen", "pubGate", "keep", "gate", "copy", "slot"}
         /\ Entry(op) = "work" <=> op = "retract"
         /\ Entry(op) = "pubGate" => op = "publish"
         /\ Entry(op) \in {"keep", "gate"} => op \in Forms
         /\ Entry(op) = "keep" => op = "bundle"
         /\ Entry(op) = "copy" => op = "republish"
         /\ Entry(op) = "slot" /\ op # "reset" => op \in Sweeps
  BY DEF Entry, AfterCheck, Ops, Forms, Sweeps

LEMMA CheckedLabels ==
  ASSUME NEW op \in Ops
  PROVE  /\ AfterCheck(op) \in {"pubGate", "keep", "gate", "copy", "slot"}
         /\ AfterCheck(op) = "pubGate" => op = "publish"
         /\ AfterCheck(op) \in {"keep", "gate"} => op \in Forms
         /\ AfterCheck(op) = "keep" => op = "bundle"
         /\ AfterCheck(op) = "copy" => op = "republish"
         /\ AfterCheck(op) = "slot" /\ op \notin {"reset", "retract"} => op \in Sweeps
  BY DEF AfterCheck, Ops, Forms, Sweeps

\* What a call alters: what it names, and what it replaces.
LEMMA AltersFacts ==
  ASSUME NEW c \in Call
  PROVE  /\ c.op \in Cleaning \cup {"retract"} => Alters(c) = c.scope
         /\ c.op = "publish" => Alters(c) = {c.topic}
         /\ c.op \in Forms => Alters(c) = {c.topic} \cup Replaced(c.topic, c.body)
  BY DEF Alters, May, Forms, Cleaning

LEMMA OthersFramed ==
  ASSUME Typed, UNCHANGED plan, NEW p \in Callers, OthersKeep(p), Framed(p)'
  PROVE  \A q \in Callers : Framed(q)'
  <1>1. SUFFICES ASSUME NEW q \in Callers, q # p PROVE Framed(q)'
    OBVIOUS
  <1>2. Framed(q)
    BY DEF Typed
  <1>3. pc'[q] = pc[q] /\ call'[q] = call[q] /\ todo'[q] = todo[q] /\ msg'[q] = msg[q] /\ view'[q] = view[q]
    BY <1>1 DEF OthersKeep
  <1>4. Planned(q)'
    BY <1>2, <1>3 DEF Framed, Planned
  <1>5. Labelled(q)'
    BY <1>2, <1>3 DEF Framed, Labelled
  <1>6. InScope(q)'
    BY <1>2, <1>3 DEF Framed, InScope, Sending
  <1>7. QED
    BY <1>4, <1>5, <1>6 DEF Framed

LEMMA ReturnFrames ==
  ASSUME Typed, NEW p \in Callers, Return(p), UNCHANGED plan
  PROVE  OthersKeep(p) /\ \A q \in Callers : Framed(q)'
  <1>1. /\ pc'[p] = "idle" /\ call'[p] = NoCall /\ todo'[p] = {} /\ OthersKeep(p)
    BY DEF Typed, TypeOK, Return, Go, OthersKeep
  <1>2. Framed(p)'
    BY <1>1 DEF Framed, Planned, Labelled, InScope, Sending, NoCall, Forms, Sweeps
  <1>3. QED
    BY <1>1, <1>2, OthersFramed

\* Going on in the same call, with nothing on the wire.
LEMMA MoveFrames ==
  ASSUME Typed, NEW p \in Callers, UNCHANGED <<call, plan>>, OthersKeep(p),
         pc'[p] \notin {"sent", "applied"}, Labelled(p)',
         call[p].op \notin {"republish", "report"} => \A m \in todo'[p] : m.topic \in Alters(call[p]),
         pc'[p] = "window" => view'[p] \subseteq Topics
  PROVE  \A q \in Callers : Framed(q)'
  <1>1. Planned(p)'
    BY DEF Typed, Framed, Planned
  <1>2. InScope(p)'
    BY DEF InScope, Sending
  <1>3. QED
    BY <1>1, <1>2, OthersFramed DEF Framed

\* Handing a message over.
LEMMA SendFrames ==
  ASSUME Typed, NEW p \in Callers, NEW m \in Message, Send(p, m), UNCHANGED <<call, view, plan>>,
         call[p].op # "report", call[p].op # "republish" => m.topic \in Alters(call[p])
  PROVE  OthersKeep(p) /\ \A q \in Callers : Framed(q)'
  <1>1. /\ pc'[p] = "sent" /\ msg'[p] = m /\ todo'[p] = todo[p] \ {m} /\ call'[p] = call[p]
        /\ OthersKeep(p)
    BY DEF Typed, TypeOK, Send, Go, OthersKeep
  <1>2. Planned(p)'
    BY DEF Typed, Framed, Planned
  <1>3. Labelled(p)'
    BY <1>1 DEF Labelled
  <1>4. InScope(p)'
    BY <1>1 DEF Typed, Framed, InScope, Sending
  <1>5. QED
    BY <1>1, <1>2, <1>3, <1>4, OthersFramed DEF Framed

LEMMA FramesNext ==
  ASSUME Typed, [Next]_vars
  PROVE  \A q \in Callers : Framed(q)'
  <1>0. TypeOK /\ plan \in Plans /\ \A p \in Callers : call[p] \in Call /\ Framed(p)
    BY DEF Typed, TypeOK
  <1>1. ASSUME NEW p \in Callers, Begin(p) PROVE \A q \in Callers : Framed(q)'
    <2>1. PICK c \in plan[p] : /\ c.op # "reset" /\ call' = [call EXCEPT ![p] = c] /\ Go(p, Entry(c.op))
                               /\ todo' = [todo EXCEPT ![p] = IF c.op = "retract" THEN Clears(c.scope) ELSE {}]
      BY <1>1 DEF Begin
    <2>2. /\ call'[p] = c /\ pc'[p] = Entry(c.op) /\ UNCHANGED plan /\ OthersKeep(p)
          /\ todo'[p] = (IF c.op = "retract" THEN Clears(c.scope) ELSE {})
      BY <1>0, <1>1, <2>1 DEF Begin, Go, TypeOK, OthersKeep
    <2>3. c \in Call /\ c.op \in Ops
      BY <1>0, CallsTyped DEF Call
    <2>4. Planned(p)'
      BY <2>2 DEF Planned
    <2>5. Labelled(p)'
      BY <2>1, <2>2, <2>3, EntryLabels DEF Labelled, Forms, Sweeps
    <2>6. InScope(p)'
      <3>1. pc'[p] \notin {"sent", "applied", "window"}
        BY <2>2, <2>3, EntryLabels
      <3>2. c.op = "retract" => \A m \in Clears(c.scope) : m.topic \in Alters(c)
        BY <2>3, AltersFacts DEF Clears
      <3>3. QED
        BY <2>2, <3>1, <3>2 DEF InScope, Sending
    <2>7. QED
      BY <1>0, <2>2, <2>4, <2>5, <2>6, OthersFramed DEF Framed
  <1>2. ASSUME NEW p \in Callers, Reset(p) PROVE \A q \in Callers : Framed(q)'
    BY <1>0, <1>2, OthersFramed DEF Reset, frames, OthersKeep, Framed, Planned, Labelled, InScope, Sending
  <1>3. ASSUME NEW p \in Callers, ReadGeneration(p) \/ SyncGeneration(p) PROVE \A q \in Callers : Framed(q)'
    <2>1. /\ UNCHANGED <<call, todo, view, plan>> /\ OthersKeep(p)
          /\ pc'[p] = "syncGen" \/ pc'[p] = AfterCheck(call[p].op)
          /\ pc[p] \in {"readGen", "syncGen"}
      BY <1>0, <1>3 DEF ReadGeneration, SyncGeneration, Go, TypeOK, OthersKeep
    <2>2. call[p].op \in Ops /\ call[p].op \notin {"retract", "reset"}
      BY <1>0, <2>1 DEF Call, Framed, Labelled
    <2>3. Labelled(p)' /\ pc'[p] \notin {"sent", "applied", "window"}
      BY <2>1, <2>2, CheckedLabels DEF Labelled, Forms, Sweeps
    <2>4. QED
      BY <1>0, <2>1, <2>3, MoveFrames DEF Framed, InScope
  <1>4. ASSUME NEW p \in Callers, KeepWithheld(p) PROVE \A q \in Callers : Framed(q)'
    <2>1. UNCHANGED <<call, todo, view, plan>> /\ OthersKeep(p) /\ pc'[p] = "gate" /\ call[p].op \in Forms
      BY <1>0, <1>4 DEF KeepWithheld, Go, TypeOK, OthersKeep, Framed, Labelled, Forms
    <2>2. QED
      BY <1>0, <2>1, MoveFrames DEF Framed, InScope, Labelled, Forms
  <1>5. ASSUME NEW p \in Callers, FormGate(p) PROVE \A q \in Callers : Framed(q)'
    <2>1. CASE Return(p)
      BY <1>5, <2>1, ReturnFrames DEF FormGate
    <2>2. CASE ~Return(p)
      <3>1. /\ UNCHANGED <<call, view, plan>> /\ OthersKeep(p)
            /\ pc'[p] = (IF SupersedeObserved THEN "observe" ELSE "work") /\ call[p].op \in Forms
            /\ todo'[p] = Clears(Replaced(call[p].topic, call[p].body))
        BY <1>0, <1>5, <2>2 DEF FormGate, Go, TypeOK, OthersKeep, Framed, Labelled
      <3>2. \A m \in todo'[p] : m.topic \in Alters(call[p])
        BY <1>0, <3>1, AltersFacts DEF Clears
      <3>3. QED
        BY <3>1, <3>2, MoveFrames DEF Labelled, Forms
    <2>3. QED
      BY <2>1, <2>2
  <1>6. ASSUME NEW p \in Callers, Observe(p) PROVE \A q \in Callers : Framed(q)'
    <2>1. UNCHANGED <<call, todo, plan>> /\ OthersKeep(p) /\ pc'[p] \in {"work", "slot"} /\ call[p].op \in Forms /\ SupersedeObserved
      BY <1>0, <1>6 DEF Observe, Go, TypeOK, OthersKeep, Framed, Labelled
    <2>2. QED
      BY <1>0, <2>1, MoveFrames DEF Framed, InScope, Labelled, Forms
  <1>7. ASSUME NEW p \in Callers, SupersedeStep(p) \/ SweepStep(p) \/ WalkStep(p) PROVE \A q \in Callers : Framed(q)'
    <2>1. PICK m \in todo[p] : \/ todo' = [todo EXCEPT ![p] = @ \ {m}] /\ UNCHANGED <<pc, msg>>
                               \/ Send(p, m)
      BY <1>7 DEF SupersedeStep, SweepStep, WalkStep
    <2>2. UNCHANGED <<call, view, plan>> /\ pc[p] = "work" /\ call[p].op # "report" /\ m \in Message
      BY <1>0, <1>7 DEF SupersedeStep, SweepStep, WalkStep, Framed, Labelled, TypeOK
    <2>3. call[p].op # "republish" => m.topic \in Alters(call[p])
      BY <1>0, <2>2 DEF Framed, InScope
    <2>4. CASE Send(p, m)
      BY <2>2, <2>3, <2>4, SendFrames
    <2>5. CASE todo' = [todo EXCEPT ![p] = @ \ {m}] /\ UNCHANGED <<pc, msg>>
      <3>1. OthersKeep(p) /\ todo'[p] \subseteq todo[p] /\ pc'[p] = "work"
        BY <1>0, <2>2, <2>5 DEF TypeOK, OthersKeep
      <3>2. Labelled(p)'
        BY <1>0, <2>2, <2>5 DEF Framed, Labelled
      <3>3. QED
        BY <1>0, <2>2, <3>1, <3>2, MoveFrames DEF Framed, InScope
    <2>6. QED
      BY <2>1, <2>4, <2>5
  <1>8. ASSUME NEW p \in Callers, SupersedeAnswered(p) \/ RetractAnswered(p) \/ RepublishAnswered(p) \/ SweepAnswered(p)
        PROVE  \A q \in Callers : Framed(q)'
    <2>1. UNCHANGED <<call, todo, view, plan>> /\ OthersKeep(p) /\ pc'[p] = "work" /\ pc[p] = "applied"
          /\ call[p].op # "publish" /\ call[p].op # "report"
      BY <1>0, <1>8 DEF SupersedeAnswered, RetractAnswered, RepublishAnswered, SweepAnswered, Go, TypeOK, OthersKeep,
         Forms, Sweeps, Framed, Labelled
    <2>2. QED
      BY <1>0, <2>1, MoveFrames DEF Framed, InScope, Labelled
  <1>9. ASSUME NEW p \in Callers, SupersedeEnds(p) PROVE \A q \in Callers : Framed(q)'
    <2>1. /\ call'[p] = [op |-> "publish", topic |-> call[p].topic, body |-> call[p].body, scope |-> {}]
          /\ pc'[p] = Entry("publish") /\ UNCHANGED plan /\ OthersKeep(p) /\ todo'[p] = {}
          /\ call[p].op \in Forms
      BY <1>0, <1>9 DEF SupersedeEnds, Go, TypeOK, OthersKeep
    <2>2. call[p] \in plan[p]
      BY <2>1, CallFacts
    <2>3. Planned(p)'
      BY <2>1, <2>2 DEF Planned
    <2>4. pc'[p] \in {"readGen", "pubGate"}
      BY <2>1 DEF Entry, AfterCheck
    <2>5. Labelled(p)' /\ InScope(p)'
      BY <2>1, <2>4 DEF Labelled, InScope, Sending, Forms
    <2>6. QED
      BY <2>1, <2>3, <2>5, OthersFramed DEF Framed
  <1>10. ASSUME NEW p \in Callers, PublishGate(p) \/ Announce(p) PROVE \A q \in Callers : Framed(q)'
    <2>1. call[p].op = "publish" /\ UNCHANGED plan
      BY <1>0, <1>10 DEF PublishGate, Announce, Framed, Labelled
    <2>2. /\ [topic |-> call[p].topic, body |-> call[p].body] \in Message
          /\ call[p].topic \in Alters(call[p])
      BY <1>0, <2>1, CallFacts, MessagesTyped, AltersFacts
    <2>3. CASE Return(p)
      BY <2>1, <2>3, ReturnFrames
    <2>4. CASE Send(p, [topic |-> call[p].topic, body |-> call[p].body]) /\ UNCHANGED <<call, view>>
      BY <2>1, <2>2, <2>4, SendFrames
    <2>5. CASE Go(p, "announce") /\ call[p].body # Empty /\ UNCHANGED <<call, todo, msg, view>>
      <3>1. OthersKeep(p) /\ pc'[p] = "announce"
        BY <1>0, <2>5 DEF Go, TypeOK, OthersKeep
      <3>2. QED
        BY <1>0, <2>1, <2>5, <3>1, MoveFrames DEF Framed, InScope, Labelled, Forms
    <2>6. QED
      BY <1>10, <2>3, <2>4, <2>5 DEF PublishGate, Announce
  <1>11. ASSUME NEW p \in Callers, CopyDeclared(p) PROVE \A q \in Callers : Framed(q)'
    <2>1. UNCHANGED <<call, view, plan>> /\ OthersKeep(p) /\ pc'[p] = "work" /\ call[p].op = "republish"
      BY <1>0, <1>11 DEF CopyDeclared, Go, TypeOK, OthersKeep, Framed, Labelled
    <2>2. QED
      BY <1>0, <2>1, MoveFrames DEF Labelled, Forms
  <1>12. ASSUME NEW p \in Callers, TakeSlot(p) PROVE \A q \in Callers : Framed(q)'
    <2>1. /\ UNCHANGED <<call, todo, plan>> /\ OthersKeep(p) /\ pc[p] = "slot"
          /\ \/ pc'[p] = "work" /\ call[p].op \in Forms
             \/ pc'[p] = "window" /\ view'[p] = {}
      BY <1>0, <1>12 DEF TakeSlot, Go, TypeOK, OthersKeep
    <2>2. Labelled(p)'
      BY <1>0, <2>1 DEF Framed, Labelled, Forms, Sweeps
    <2>3. QED
      BY <1>0, <2>1, <2>2, MoveFrames DEF Framed, InScope
  <1>13. ASSUME NEW p \in Callers, SnapshotRefused(p) PROVE \A q \in Callers : Framed(q)'
    <2>1. CASE Return(p)
      BY <1>13, <2>1, ReturnFrames DEF SnapshotRefused
    <2>2. CASE ~Return(p)
      <3>1. UNCHANGED <<call, todo, view, plan>> /\ OthersKeep(p) /\ pc'[p] = "work" /\ call[p].op \in Forms
        BY <1>0, <1>13, <2>2 DEF SnapshotRefused, Go, TypeOK, OthersKeep
      <3>2. QED
        BY <1>0, <3>1, MoveFrames DEF Framed, InScope, Labelled, Forms
    <2>3. QED
      BY <2>1, <2>2
  <1>14. ASSUME NEW p \in Callers, Collect(p) PROVE \A q \in Callers : Framed(q)'
    <2>1. PICK t \in Topics :
            /\ Collectable(p, t) /\ view' = [view EXCEPT ![p] = @ \cup {t}]
            /\ todo' = IF call[p].op \in Sweeps /\ ~Claims(t) THEN [todo EXCEPT ![p] = @ \cup Clears({t})] ELSE todo
      BY <1>14 DEF Collect
    <2>2. UNCHANGED <<call, pc, plan>> /\ OthersKeep(p) /\ pc'[p] = "window" /\ view'[p] = view[p] \cup {t}
      BY <1>0, <1>14, <2>1 DEF Collect, TypeOK, OthersKeep
    <2>3. call[p].op \notin {"republish", "report"} => \A m \in todo'[p] : m.topic \in Alters(call[p])
      <3>1. todo'[p] = todo[p] \/ (todo'[p] = todo[p] \cup Clears({t}) /\ call[p].op \in Sweeps)
        BY <1>0, <2>1 DEF TypeOK
      <3>2. call[p].op \in Sweeps => t \in call[p].scope
        BY <2>1 DEF Collectable, Owned
      <3>3. \A m \in Clears({t}) : m.topic = t
        BY DEF Clears
      <3>4. QED
        BY <1>0, <3>1, <3>2, <3>3, AltersFacts DEF Framed, InScope, Sweeps, Cleaning
    <2>4. Labelled(p)'
      BY <1>0, <2>2 DEF Framed, Labelled
    <2>5. view'[p] \subseteq Topics
      BY <1>0, <2>2 DEF Framed, InScope
    <2>6. QED
      BY <2>2, <2>3, <2>4, <2>5, MoveFrames
  <1>15. ASSUME NEW p \in Callers, CloseWindow(p) PROVE \A q \in Callers : Framed(q)'
    <2>1. CASE Return(p)
      BY <1>15, <2>1, ReturnFrames DEF CloseWindow
    <2>2. CASE ~Return(p)
      <3>1. UNCHANGED <<call, todo, plan>> /\ OthersKeep(p) /\ pc'[p] = "work" /\ pc[p] = "window" /\ call[p].op # "report"
        BY <1>0, <1>15, <2>2 DEF CloseWindow, Go, TypeOK, OthersKeep, Forms
      <3>2. call[p].op \in Forms \cup Sweeps
        BY <1>0, <3>1 DEF Framed, Labelled
      <3>3. Labelled(p)'
        BY <3>1, <3>2 DEF Labelled, Forms, Sweeps
      <3>4. QED
        BY <1>0, <3>1, <3>3, MoveFrames DEF Framed, InScope
    <2>3. QED
      BY <2>1, <2>2
  <1>16. ASSUME NEW p \in Callers, PublishAnswered(p) \/ WalkEnds(p) \/ Cancel(p) PROVE \A q \in Callers : Framed(q)'
    BY <1>16, ReturnFrames DEF PublishAnswered, WalkEnds, Cancel
  <1>17. ASSUME NEW p \in Callers, BrokerApplies(p) \/ SocketTakes(p) PROVE \A q \in Callers : Framed(q)'
    <2>1. UNCHANGED <<call, todo, msg, view, plan>> /\ OthersKeep(p) /\ pc'[p] = "applied" /\ pc[p] = "sent"
      BY <1>0, <1>17 DEF BrokerApplies, SocketTakes, Go, TypeOK, OthersKeep
    <2>2. Planned(p)' /\ Labelled(p)' /\ InScope(p)'
      BY <1>0, <2>1 DEF Framed, Planned, Labelled, InScope, Sending, Forms
    <2>3. QED
      BY <2>1, <2>2, OthersFramed DEF Framed
  <1>18. ASSUME NEW p \in Callers, Refused(p) PROVE \A q \in Callers : Framed(q)'
    <2>1. CASE Return(p)
      BY <1>18, <2>1, ReturnFrames DEF Refused
    <2>2. CASE ~Return(p)
      <3>1. /\ UNCHANGED <<call, todo, view, plan>> /\ OthersKeep(p) /\ pc'[p] = "work" /\ pc[p] \in {"sent", "applied"}
            /\ call[p].op \notin Forms \cup {"publish"}
        BY <1>0, <1>18, <2>2 DEF Refused, Go, TypeOK, OthersKeep
      <3>2. QED
        BY <1>0, <3>1, MoveFrames DEF Framed, InScope, Labelled, Forms
    <2>3. QED
      BY <2>1, <2>2
  <1>19. CASE BrokerReads \/ Reconnect \/ UNCHANGED vars
    <2>1. UNCHANGED <<pc, call, todo, msg, view, plan>>
      BY <1>19 DEF BrokerReads, Reconnect, vars, frames
    <2>2. QED
      BY <1>0, <2>1 DEF Framed, Planned, Labelled, InScope, Sending
  <1>20. CASE Crash
    <2>1. SUFFICES ASSUME NEW q \in Callers PROVE Framed(q)'
      OBVIOUS
    <2>2. pc'[q] = "idle" /\ call'[q] = NoCall /\ todo'[q] = {}
      BY <1>20 DEF Crash, Each
    <2>3. QED
      BY <2>2 DEF Framed, Planned, Labelled, InScope, Sending, NoCall, Forms, Sweeps
  <1>21. QED
    BY <1>1, <1>2, <1>3, <1>4, <1>5, <1>6, <1>7, <1>8, <1>9, <1>10, <1>11, <1>12, <1>13, <1>14, <1>15, <1>16,
       <1>17, <1>18, <1>19, <1>20 DEF Next, Step

LEMMA TypedInit ==
  ASSUME Init
  PROVE  Typed
  <1>1. TypeOK
    <2>1. /\ call \in [Callers -> Call] /\ msg \in [Callers -> Message \cup {NoMessage}]
          /\ pc \in [Callers -> Labels] /\ declared \in [Topics -> Values]
      BY DEF Init, Nothing, Each, NoCall, Call, Ops, Values, Labels
    <2>2. retained \in [Topics -> Values]
      BY RuntimeAssumption DEF Init
    <2>3. observedTaken \in BOOLEAN /\ genSeen \in BOOLEAN
      BY DEF Init
    <2>4. wire \in Seq(Message)
      BY DEF Init
    <2>5. /\ todo \in [Callers -> SUBSET Message] /\ kept \in [Docs -> SUBSET Ents]
          /\ view \in [Callers -> SUBSET (Topics \cup {None})]
          /\ seen \in [Callers -> Nat] /\ mark \in [Callers -> Nat]
      BY DEF Init, Each, Blind
    <2>6. QED
      BY <2>1, <2>2, <2>3, <2>4, <2>5 DEF Init, TypeOK
  <1>2. ASSUME NEW q \in Callers PROVE Framed(q)
    <2>1. pc[q] = "idle" /\ call[q] = NoCall /\ todo[q] = {}
      BY DEF Init, Each
    <2>2. QED
      BY <2>1 DEF Framed, Planned, Labelled, InScope, Sending, NoCall, Forms, Sweeps
  <1>3. QED
    BY <1>1, <1>2 DEF Typed

\* Types and frames together are inductive.
LEMMA StaysTyped == Spec => []Typed
  <1>1. Typed /\ [Next]_vars => Typed'
    BY TypeInductive, FramesNext DEF Typed
  <1>2. QED
    BY <1>1, TypedInit, PTL DEF Spec

\* The state is well typed, whatever the callers call and the faults do (all of
\* publisher.go and sweep.go's bookkeeping).
THEOREM TypeCorrect == Spec => []TypeOK
  <1>1. Typed => TypeOK
    BY DEF Typed
  <1>2. QED
    BY <1>1, StaysTyped, PTL

-----------------------------------------------------------------------------
(* A life in one form: facts about what it writes and replaces.            *)

LEMMA ReachedTopics == Reached \subseteq Topics
  <1>1. ASSUME NEW pl \in Plans, NEW p \in Callers, NEW c \in pl[p]
        PROVE  Reach(c) \subseteq Topics
    <2>1. c \in Call
      BY RuntimeAssumption
    <2>2. /\ c.op \in Forms => c.topic \in Topics /\ c.body \in Bodies
          /\ c.op = "publish" => c.topic \in Topics
      BY RuntimeAssumption
    <2>3. c.op \in Forms => Replaced(c.topic, c.body) \subseteq Topics
      BY <2>2, RuntimeAssumption DEF Replaced, Topics
    <2>4. c.scope \subseteq Topics
      BY <2>1 DEF Call
    <2>5. QED
      BY <2>2, <2>3, <2>4 DEF Reach
  <1>2. QED
    BY <1>1 DEF Reached

\* What a life writes it never replaces, and what it replaces is in Off.
LEMMA WritesFacts ==
  ASSUME Regime, plan \in Plans, NEW t, NEW b, Writes(t, b)
  PROVE  /\ t \in Topics /\ b \in Bodies /\ t \notin Off /\ t \in Reached
         /\ Replaced(t, b) \subseteq Off /\ Replaced(t, b) \subseteq Reached
         /\ t \in Docs => \A e \in Legacy[b] : DocOf[e] = t
  <1>. PICK p \in Callers : \E c \in plan[p] : c.op \in Forms /\ c.topic = t /\ c.body = b
    BY DEF Writes
  <1>1. PICK c \in plan[p] : c.op \in Forms /\ c.topic = t /\ c.body = b
    OBVIOUS
  <1>2. t \in Topics /\ b \in Bodies
    BY <1>1, CallsTyped
  <1>3. t \in Reached /\ Replaced(t, b) \subseteq Reached
    <2>1. Reach(c) = {t} \cup Replaced(t, b)
      BY <1>1 DEF Reach, Forms
    <2>2. QED
      BY <1>1, <2>1, CallsTyped
  <1>4. t \notin Off
    <2>1. SUFFICES ASSUME NEW u \in Topics, NEW v \in Bodies, Writes(u, v)
                   PROVE  t \notin Replaced(u, v)
      BY DEF Off
    <2>2. \E q \in Callers : \E k \in plan[q] : k.op \in Forms /\ k.topic = u /\ k.body = v
      BY <2>1 DEF Writes
    <2>3. QED
      BY <1>1, <2>2 DEF Regime, OneFormPerLife
  <1>5. Replaced(t, b) \subseteq Topics
    BY <1>2, RuntimeAssumption DEF Replaced, Topics
  <1>6. Replaced(t, b) \subseteq Off
    BY <1>2, <1>5 DEF Off
  <1>7. ASSUME t \in Docs PROVE \A e \in Legacy[b] : DocOf[e] = t
    <2>1. c.op = "bundle"
      BY <1>1, <1>7, CallsTyped, RuntimeAssumption DEF Forms
    <2>2. QED
      BY <1>1, <2>1 DEF Regime, OneFormPerLife
  <1>8. QED
    BY <1>2, <1>3, <1>4, <1>6, <1>7

\* A step that leaves the tree and the plan alone leaves every judgement about
\* them alone.
LEMMA SameTree ==
  ASSUME UNCHANGED <<retained, plan>>
  PROVE  /\ \A t, b : Writes(t, b)' <=> Writes(t, b)
         /\ \A t, b : Sound(t, b)' <=> Sound(t, b)
         /\ Off' = Off
         /\ \A held : Truthful(held)' <=> Truthful(held)
         /\ NoConflict(retained)' <=> NoConflict(retained)
         /\ OwnNode(retained)' <=> OwnNode(retained)
  <1>1. \A t, b : Writes(t, b)' <=> Writes(t, b)
    BY DEF Writes
  <1>2. \A t, b : Sound(t, b)' <=> Sound(t, b)
    BY <1>1 DEF Sound, Cleared
  <1>3. Off' = Off
    BY <1>1 DEF Off
  <1>4. QED
    BY <1>1, <1>2, <1>3 DEF Truthful, NoConflict, OwnNode

\* ... and so does the memory, if the step leaves it alone too.
LEMMA SameMemory ==
  ASSUME UNCHANGED <<retained, plan, declared, claimed, superseded, observed, observedTaken>>
  PROVE  MemoryOK' <=> MemoryOK
  BY SameTree DEF MemoryOK

\* A caller whose frame a step leaves alone is as sound as before.
LEMMA SameCaller ==
  ASSUME UNCHANGED <<retained, plan>>, NEW q \in Callers,
         pc'[q] = pc[q], call'[q] = call[q], todo'[q] = todo[q], msg'[q] = msg[q],
         view'[q] = view[q]
  PROVE  CallerOK(q)' <=> CallerOK(q)
  BY SameTree DEF CallerOK, LabelsMatch, CallSound, MessagesSound, WalkCovers, SnapshotTruthful

\* A caller at rest has nothing to answer for.
LEMMA Idle ==
  ASSUME NEW q \in Callers, pc[q] = "idle", call[q] = NoCall, todo[q] = {}, view[q] = Blind
  PROVE  CallerOK(q)
  BY DEF CallerOK, LabelsMatch, CallSound, MessagesSound, WalkCovers, SnapshotTruthful,
         NoCall, Forms, Sweeps

LEMMA IdleAfter ==
  ASSUME NEW q \in Callers, pc'[q] = "idle", call'[q] = NoCall, todo'[q] = {}, view'[q] = Blind
  PROVE  CallerOK(q)'
  BY DEF CallerOK, LabelsMatch, CallSound, MessagesSound, WalkCovers, SnapshotTruthful,
         NoCall, Forms, Sweeps

LEMMA Returned ==
  ASSUME TypeOK, NEW p \in Callers, Return(p)
  PROVE  CallerOK(p)'
  BY IdleAfter DEF TypeOK, Return, Go

-----------------------------------------------------------------------------
(* The two forms: one lemma per action.                                    *)

LEMMA LocalStep ==
  ASSUME IInv, TypeOK', UNCHANGED <<retained, wire, plan>>,
         NEW p \in Callers, OthersKeep(p), MemoryOK', CallerOK(p)'
  PROVE  IInv'
  <1>1. \A q \in Callers : CallerOK(q)'
    <2>1. SUFFICES ASSUME NEW q \in Callers, q # p PROVE CallerOK(q)'
      OBVIOUS
    <2>2. CallerOK(q)' <=> CallerOK(q)
      BY <2>1, SameCaller DEF OthersKeep
    <2>3. QED
      BY <2>2 DEF IInv
  <1>2. wire' = <<>> /\ NoConflict(retained)' /\ OwnNode(retained)'
    BY SameTree DEF IInv
  <1>3. QED
    BY <1>1, <1>2 DEF IInv

LEMMA ReturningStep ==
  ASSUME IInv, TypeOK', UNCHANGED <<retained, wire, plan>>,
         NEW p \in Callers, Return(p), MemoryOK'
  PROVE  IInv'
  <1>1. OthersKeep(p)
    BY DEF IInv, TypeOK, Return, Go, OthersKeep
  <1>2. QED
    BY <1>1, Returned, LocalStep DEF IInv

-----------------------------------------------------------------------------
(* Entering a method.                                                      *)

LEMMA BeginKeeps ==
  ASSUME Regime, IInv, TypeOK', NEW p \in Callers, Begin(p)
  PROVE  IInv'
  <1>. plan \in Plans /\ TypeOK
    BY DEF IInv, TypeOK
  <1>1. PICK c \in plan[p] : /\ c.op # "reset" /\ call' = [call EXCEPT ![p] = c] /\ Go(p, Entry(c.op))
                             /\ todo' = [todo EXCEPT ![p] = IF c.op = "retract" THEN Clears(c.scope) ELSE {}]
    BY DEF Begin
  <1>2. /\ call'[p] = c /\ pc'[p] = Entry(c.op)
        /\ todo'[p] = (IF c.op = "retract" THEN Clears(c.scope) ELSE {})
        /\ msg' = msg /\ view' = view
        /\ UNCHANGED <<retained, wire, plan, gates, memos>>
    BY <1>1 DEF Begin, Go, TypeOK, broker
  <1>3. OthersKeep(p)
    BY <1>1, <1>2 DEF Begin, Go, TypeOK, OthersKeep
  <1>4. MemoryOK'
    BY <1>2, SameMemory DEF IInv, gates, memos
  <1>5. c \in Call /\ Reach(c) \subseteq Reached
    BY CallsTyped
  <1>6. LabelsMatch(p)'
    BY <1>1, <1>2, <1>5, EntryLabels DEF LabelsMatch, Forms, Sweeps, Call
  <1>7. c.op \in Forms => Writes(c.topic, c.body)
    BY DEF Writes
  <1>8. c.op = "publish" => Sound(c.topic, c.body)
    <2>1. c.op = "publish" => c.body = Empty
      BY DEF Regime, OneFormPerLife
    <2>2. c.op = "publish" => c.topic \in Reached
      BY <1>5 DEF Reach, Forms
    <2>3. QED
      BY <2>1, <2>2 DEF Sound
  <1>9. c.op \in {"sweep", "retract"} => c.scope \subseteq Reached
    BY <1>5 DEF Reach, Forms
  <1>10. CallSound(p)'
    BY <1>2, <1>7, <1>8, <1>9, SameTree DEF CallSound
  <1>11. MessagesSound(p)'
    <2>1. pc'[p] \notin {"sent", "applied"}
      BY <1>2, <1>5, EntryLabels DEF Call
    <2>2. \A m \in todo'[p] : Sound(m.topic, m.body)
      BY <1>2, <1>9 DEF Clears, Sound
    <2>3. QED
      BY <2>1, <2>2, <1>2, SameTree DEF MessagesSound
  <1>12. WalkCovers(p)'
    <2>1. c.op \in Forms => pc'[p] \in {"readGen", "keep", "gate"} /\ todo'[p] = {}
      BY <1>2 DEF Entry, AfterCheck, Forms
    <2>2. QED
      BY <1>2, <2>1 DEF WalkCovers
  <1>13. SnapshotTruthful(p)'
    <2>1. view[p] = Blind
      BY DEF Begin, IInv, CallerOK, SnapshotTruthful
    <2>2. QED
      BY <1>2, <2>1 DEF SnapshotTruthful, Blind
  <1>14. QED
    BY <1>2, <1>3, <1>4, <1>6, <1>10, <1>11, <1>12, <1>13, LocalStep DEF CallerOK

\* resetLocked keeps the memory sound: it only forgets.
LEMMA ForgetKeeps ==
  ASSUME IInv, UNCHANGED <<retained, plan, declared, claimed>>,
         Forget \/ UNCHANGED <<superseded, observed, observedTaken>>
  PROVE  MemoryOK'
  <1>1. CASE Forget
    BY <1>1, SameTree DEF IInv, MemoryOK, Forget
  <1>2. CASE UNCHANGED <<superseded, observed, observedTaken>>
    BY <1>2, SameMemory DEF IInv
  <1>3. QED
    BY <1>1, <1>2

LEMMA ResetKeeps ==
  ASSUME Regime, IInv, TypeOK', NEW p \in Callers, Reset(p)
  PROVE  IInv'
  <1>1. MemoryOK'
    BY ForgetKeeps DEF Reset, broker
  <1>2. OthersKeep(p) /\ (CallerOK(p)' <=> CallerOK(p)) /\ UNCHANGED <<retained, wire, plan>>
    BY SameCaller DEF Reset, broker, frames, OthersKeep
  <1>3. QED
    BY <1>1, <1>2, LocalStep DEF IInv

LEMMA GenerationKeeps ==
  ASSUME Regime, IInv, TypeOK', NEW p \in Callers, ReadGeneration(p) \/ SyncGeneration(p)
  PROVE  IInv'
  <1>. TypeOK /\ CallerOK(p)
    BY DEF IInv
  <1>1. MemoryOK'
    <2>1. CASE ReadGeneration(p)
      BY <2>1, ForgetKeeps DEF ReadGeneration, broker, gates, memos
    <2>2. CASE SyncGeneration(p)
      BY <2>2, ForgetKeeps DEF SyncGeneration, broker
    <2>3. QED
      BY <2>1, <2>2
  <1>2. OthersKeep(p) /\ UNCHANGED <<retained, wire, plan, call, todo, msg, view>>
    BY DEF ReadGeneration, SyncGeneration, Go, TypeOK, OthersKeep, broker
  <1>3. /\ call[p].op \in Ops \ {"retract", "reset"}
        /\ pc'[p] = "syncGen" \/ pc'[p] = AfterCheck(call[p].op)
    BY DEF ReadGeneration, SyncGeneration, Go, TypeOK, CallerOK, LabelsMatch, Call
  <1>4. pc'[p] \in {"syncGen", "pubGate", "keep", "gate", "copy", "slot"}
    BY <1>3, CheckedLabels
  <1>5. LabelsMatch(p)'
    BY <1>2, <1>3, <1>4, CheckedLabels DEF CallerOK, LabelsMatch, Forms, Sweeps
  <1>6. CallSound(p)' /\ MessagesSound(p)'
    BY <1>2, <1>4, SameTree DEF CallerOK, CallSound, MessagesSound
  <1>7. SnapshotTruthful(p)'
    <2>1. view[p] = Blind
      BY DEF ReadGeneration, SyncGeneration, CallerOK, SnapshotTruthful
    <2>2. QED
      BY <1>2, <2>1 DEF SnapshotTruthful, Blind
  <1>8. WalkCovers(p)'
    <2>1. call[p].op \in Forms => pc'[p] \in {"syncGen", "keep", "gate"}
      BY <1>3 DEF AfterCheck, Forms
    <2>2. QED
      BY <1>2, <2>1 DEF CallerOK, WalkCovers
  <1>9. QED
    BY <1>1, <1>2, <1>5, <1>6, <1>7, <1>8, LocalStep DEF CallerOK

-----------------------------------------------------------------------------
(* PublishBundle and PublishComponent up to their closing Publish.         *)

LEMMA KeepWithheldKeeps ==
  ASSUME Regime, IInv, TypeOK', NEW p \in Callers, KeepWithheld(p)
  PROVE  IInv'
  <1>. TypeOK /\ CallerOK(p)
    BY DEF IInv
  <1>1. OthersKeep(p) /\ UNCHANGED <<retained, wire, plan, call, todo, msg, view>> /\ pc'[p] = "gate"
    BY DEF KeepWithheld, Go, TypeOK, OthersKeep, broker
  <1>2. MemoryOK'
    BY SameMemory DEF KeepWithheld, IInv, memos, broker
  <1>3. pc[p] = "keep"
    BY DEF KeepWithheld
  <1>4. CallerOK(p)'
    BY <1>1, <1>3, SameTree DEF CallerOK, LabelsMatch, CallSound, MessagesSound, WalkCovers, SnapshotTruthful
  <1>5. QED
    BY <1>1, <1>2, <1>4, LocalStep

LEMMA FormGateKeeps ==
  ASSUME Regime, IInv, TypeOK', NEW p \in Callers, FormGate(p)
  PROVE  IInv'
  <1>. TypeOK /\ CallerOK(p) /\ plan \in Plans
    BY DEF IInv, TypeOK
  <1>. DEFINE replaced == Replaced(call[p].topic, call[p].body)
  <1>1. MemoryOK' /\ UNCHANGED <<retained, wire, plan>>
    BY SameMemory DEF FormGate, IInv, gates, memos, broker
  <1>2. CASE Return(p)
    BY <1>1, <1>2, ReturningStep
  <1>3. CASE ~Return(p)
    <2>1. /\ OthersKeep(p) /\ UNCHANGED <<call, msg, view>>
          /\ todo'[p] = Clears(replaced) /\ pc'[p] \in {"observe", "work"}
          /\ pc'[p] = "observe" => SupersedeObserved
      BY <1>3 DEF FormGate, Go, TypeOK, OthersKeep
    <2>2. call[p].op \in Forms /\ Writes(call[p].topic, call[p].body)
      BY DEF FormGate, CallerOK, LabelsMatch, CallSound
    <2>3. replaced \subseteq Reached
      BY <2>2, WritesFacts
    <2>4. \A m \in Clears(replaced) : Sound(m.topic, m.body)
      BY <2>3 DEF Clears, Sound
    <2>5. \A s \in replaced : [topic |-> s, body |-> Empty] \in Clears(replaced)
      BY DEF Clears
    <2>6. LabelsMatch(p)' /\ CallSound(p)'
      BY <1>1, <2>1, <2>2, SameTree DEF CallerOK, LabelsMatch, CallSound, Forms
    <2>7. MessagesSound(p)'
      BY <1>1, <2>1, <2>4, SameTree DEF MessagesSound
    <2>8. WalkCovers(p)'
      BY <1>1, <2>1, <2>5 DEF WalkCovers
    <2>9. SnapshotTruthful(p)'
      <3>1. view[p] = Blind
        BY DEF FormGate, CallerOK, SnapshotTruthful
      <3>2. QED
        BY <2>1, <3>1 DEF SnapshotTruthful, Blind
    <2>10. QED
      BY <1>1, <2>1, <2>6, <2>7, <2>8, <2>9, LocalStep DEF CallerOK
  <1>4. QED
    BY <1>2, <1>3

LEMMA ObserveKeeps ==
  ASSUME Regime, IInv, TypeOK', NEW p \in Callers, Observe(p)
  PROVE  IInv'
  <1>. TypeOK /\ CallerOK(p)
    BY DEF IInv
  <1>1. MemoryOK' /\ OthersKeep(p) /\ UNCHANGED <<retained, wire, plan, call, todo, msg>>
    BY SameMemory DEF Observe, Go, TypeOK, OthersKeep, broker, gates, memos, IInv
  <1>2. /\ pc[p] = "observe" /\ pc'[p] \in {"work", "slot"}
        /\ view'[p] = Blind \/ (observedTaken /\ view'[p] = observed)
        /\ pc'[p] = "slot" => view'[p] = Blind
    BY DEF Observe, Go, TypeOK
  <1>3. LabelsMatch(p)' /\ CallSound(p)' /\ MessagesSound(p)' /\ WalkCovers(p)'
    BY <1>1, <1>2, SameTree DEF CallerOK, LabelsMatch, CallSound, MessagesSound, WalkCovers, Forms
  <1>4. SnapshotTruthful(p)'
    <2>1. call[p].op \in Forms
      BY <1>2 DEF CallerOK, LabelsMatch
    <2>2. view'[p] = Blind \/ Truthful(view'[p])
      BY <1>2 DEF IInv, MemoryOK
    <2>3. QED
      BY <1>1, <1>2, <2>1, <2>2, SameTree DEF SnapshotTruthful, Blind
  <1>5. QED
    BY <1>1, <1>3, <1>4, LocalStep DEF CallerOK

LEMMA SupersedeStepKeeps ==
  ASSUME Regime, IInv, TypeOK', NEW p \in Callers, SupersedeStep(p)
  PROVE  IInv'
  <1>. TypeOK /\ CallerOK(p) /\ plan \in Plans
    BY DEF IInv, TypeOK
  <1>. DEFINE replaced == Replaced(call[p].topic, call[p].body)
  <1>1. /\ pc[p] = "work" /\ call[p].op \in Forms
        /\ UNCHANGED <<retained, wire, plan, declared, claimed, observed, observedTaken, call, view>>
    BY DEF SupersedeStep, broker, memos
  <1>2. PICK m \in todo[p] :
          \/ /\ \/ m.topic \in superseded
                \/ view[p] # Blind /\ m.topic \notin view[p] /\ m.topic \in Prefixed
             /\ superseded' = superseded \cup {m.topic}
             /\ todo' = [todo EXCEPT ![p] = @ \ {m}] /\ UNCHANGED <<pc, msg>>
          \/ Send(p, m) /\ UNCHANGED superseded
    BY DEF SupersedeStep
  <1>3. Writes(call[p].topic, call[p].body) /\ replaced \subseteq Off
    BY <1>1, WritesFacts DEF CallerOK, CallSound
  <1>4. /\ m \in Clears(replaced) /\ m.topic \in replaced /\ m.body = Empty
        /\ m \in Message /\ Sound(m.topic, m.body)
    BY <1>1 DEF CallerOK, WalkCovers, MessagesSound, Clears, TypeOK, Forms
  <1>5. OthersKeep(p) /\ todo'[p] = todo[p] \ {m}
    BY <1>1, <1>2 DEF Send, Go, TypeOK, OthersKeep
  <1>6. CASE Send(p, m) /\ UNCHANGED superseded
    <2>1. pc'[p] = "sent" /\ msg'[p] = m
      BY <1>6 DEF Send, Go, TypeOK
    <2>2. MemoryOK'
      BY <1>1, <1>6, SameMemory DEF IInv
    <2>3. LabelsMatch(p)' /\ CallSound(p)'
      BY <1>1, <1>4, <1>5, <2>1, SameTree DEF LabelsMatch, CallerOK, CallSound, Forms
    <2>4. MessagesSound(p)'
      BY <1>1, <1>4, <1>5, <2>1, SameTree DEF MessagesSound, CallerOK
    <2>5. WalkCovers(p)'
      BY <1>1, <1>4, <1>5, <2>1 DEF WalkCovers, CallerOK, Clears
    <2>6. SnapshotTruthful(p)'
      BY <1>1, <2>1, SameTree DEF SnapshotTruthful, CallerOK
    <2>7. QED
      BY <1>1, <1>5, <2>2, <2>3, <2>4, <2>5, <2>6, LocalStep DEF CallerOK
  <1>7. CASE /\ \/ m.topic \in superseded
                \/ view[p] # Blind /\ m.topic \notin view[p] /\ m.topic \in Prefixed
             /\ superseded' = superseded \cup {m.topic} /\ UNCHANGED <<pc, msg>>
    <2>1. retained[m.topic] = Empty
      BY <1>1, <1>3, <1>4, <1>7 DEF IInv, MemoryOK, CallerOK, SnapshotTruthful, Truthful
    <2>2. MemoryOK'
      <3>1. superseded' \subseteq Off' /\ \A t \in superseded' : retained'[t] = Empty
        BY <1>1, <1>3, <1>4, <1>7, <2>1, SameTree DEF IInv, MemoryOK
      <3>2. QED
        BY <1>1, <3>1, SameTree DEF IInv, MemoryOK
    <2>3. LabelsMatch(p)' /\ CallSound(p)' /\ MessagesSound(p)' /\ SnapshotTruthful(p)'
      BY <1>1, <1>5, <1>7, SameTree DEF LabelsMatch, CallerOK, CallSound, MessagesSound, SnapshotTruthful
    <2>4. WalkCovers(p)'
      BY <1>1, <1>4, <1>5, <1>7, <2>1 DEF WalkCovers, CallerOK, Clears
    <2>5. QED
      BY <1>1, <1>5, <2>2, <2>3, <2>4, LocalStep DEF CallerOK
  <1>8. QED
    BY <1>2, <1>6, <1>7

\* Taking a topic out of the declared set leaves the rest of it sound.
LEMMA Undeclared ==
  ASSUME IInv, UNCHANGED <<retained, plan>>, NEW t, declared' = [declared EXCEPT ![t] = Empty]
  PROVE  \A u \in Topics : declared'[u] # Empty => Sound(u, declared[u])'
  <1>1. SUFFICES ASSUME NEW u \in Topics, declared'[u] # Empty PROVE Sound(u, declared[u])'
    OBVIOUS
  <1>2. declared'[u] = declared[u] /\ declared[u] # Empty
    BY <1>1 DEF IInv, TypeOK
  <1>3. Sound(u, declared[u])
    BY <1>2 DEF IInv, MemoryOK
  <1>4. QED
    BY <1>2, <1>3, SameTree

LEMMA SupersedeAnsweredKeeps ==
  ASSUME Regime, IInv, TypeOK', NEW p \in Callers, SupersedeAnswered(p)
  PROVE  IInv'
  <1>. TypeOK /\ CallerOK(p) /\ plan \in Plans
    BY DEF IInv, TypeOK
  <1>. DEFINE replaced == Replaced(call[p].topic, call[p].body)
             t == msg[p].topic
  <1>1. /\ pc[p] = "applied" /\ call[p].op \in Forms /\ pc'[p] = "work"
        /\ superseded' = superseded \cup {t} /\ declared' = [declared EXCEPT ![t] = Empty]
        /\ UNCHANGED <<retained, wire, plan, claimed, observed, observedTaken, call, todo, view>>
        /\ OthersKeep(p)
    BY DEF SupersedeAnswered, Go, TypeOK, OthersKeep, broker, memos
  <1>2. t \in replaced /\ retained[t] = Empty
    BY <1>1 DEF CallerOK, WalkCovers, Clears
  <1>3. replaced \subseteq Off
    BY <1>1, WritesFacts DEF CallerOK, CallSound
  <1>4. MemoryOK'
    <2>1. \A u \in Topics : declared'[u] # Empty => Sound(u, declared[u])'
      BY <1>1, Undeclared
    <2>2. superseded' \subseteq Off' /\ \A u \in superseded' : retained'[u] = Empty
      BY <1>1, <1>2, <1>3, SameTree DEF IInv, MemoryOK
    <2>3. QED
      BY <1>1, <2>1, <2>2, SameTree DEF IInv, MemoryOK
  <1>5. CallerOK(p)'
    BY <1>1, SameTree DEF CallerOK, LabelsMatch, CallSound, MessagesSound, WalkCovers, SnapshotTruthful, Forms
  <1>6. QED
    BY <1>1, <1>4, <1>5, LocalStep

LEMMA SupersedeEndsKeeps ==
  ASSUME Regime, IInv, TypeOK', NEW p \in Callers, SupersedeEnds(p)
  PROVE  IInv'
  <1>. TypeOK /\ CallerOK(p) /\ plan \in Plans
    BY DEF IInv, TypeOK
  <1>1. /\ pc[p] = "work" /\ call[p].op \in Forms /\ todo[p] = {}
        /\ pc'[p] \in {"readGen", "pubGate"} /\ view'[p] = Blind
        /\ call'[p].op = "publish" /\ call'[p].topic = call[p].topic /\ call'[p].body = call[p].body
        /\ UNCHANGED <<retained, wire, plan, todo, msg>>
        /\ OthersKeep(p)
    BY DEF SupersedeEnds, Go, TypeOK, OthersKeep, broker, Entry, AfterCheck
  <1>2. MemoryOK'
    BY SameMemory DEF SupersedeEnds, IInv, gates, memos, broker
  <1>3. Writes(call[p].topic, call[p].body)
    BY <1>1 DEF CallerOK, CallSound
  <1>4. Cleared(call[p].topic, call[p].body)
    BY <1>1 DEF CallerOK, WalkCovers, Cleared
  <1>5. Sound(call[p].topic, call[p].body)
    BY <1>3, <1>4, WritesFacts DEF Sound
  <1>6. LabelsMatch(p)' /\ SnapshotTruthful(p)' /\ WalkCovers(p)'
    BY <1>1 DEF LabelsMatch, SnapshotTruthful, WalkCovers, Forms
  <1>7. CallSound(p)' /\ MessagesSound(p)'
    BY <1>1, <1>5, SameTree DEF CallSound, MessagesSound, Forms
  <1>8. QED
    BY <1>1, <1>2, <1>6, <1>7, LocalStep DEF CallerOK

-----------------------------------------------------------------------------
(* Publish.                                                                *)

LEMMA PublishGateKeeps ==
  ASSUME Regime, IInv, TypeOK', NEW p \in Callers, PublishGate(p)
  PROVE  IInv'
  <1>. TypeOK /\ CallerOK(p)
    BY DEF IInv
  <1>. DEFINE m == [topic |-> call[p].topic, body |-> call[p].body]
  <1>1. MemoryOK' /\ UNCHANGED <<retained, wire, plan>>
    BY SameMemory DEF PublishGate, IInv, gates, memos, broker
  <1>2. pc[p] = "pubGate" /\ call[p].op = "publish" /\ Sound(call[p].topic, call[p].body)
    BY DEF PublishGate, CallerOK, LabelsMatch, CallSound
  <1>3. CASE Return(p)
    BY <1>1, <1>3, ReturningStep
  <1>4. CASE Go(p, "announce") /\ call[p].body # Empty /\ UNCHANGED <<call, todo, msg, view>>
    <2>1. OthersKeep(p) /\ pc'[p] = "announce"
      BY <1>4 DEF Go, TypeOK, OthersKeep
    <2>2. CallerOK(p)'
      BY <1>1, <1>2, <1>4, <2>1, SameTree DEF CallerOK, LabelsMatch, CallSound, MessagesSound,
                                              WalkCovers, SnapshotTruthful, Forms
    <2>3. QED
      BY <1>1, <2>1, <2>2, LocalStep
  <1>5. CASE Send(p, m) /\ UNCHANGED <<call, view>>
    <2>1. /\ OthersKeep(p) /\ pc'[p] = "sent" /\ msg'[p] = m /\ todo'[p] = todo[p] \ {m}
          /\ m \in Message
      <3>1. m \in Message
        BY <1>2, ReachedTopics DEF Sound, Message, TypeOK, Call
      <3>2. QED
        BY <1>5, <3>1 DEF Send, Go, TypeOK, OthersKeep
    <2>2. CallerOK(p)'
      BY <1>1, <1>2, <1>5, <2>1, SameTree DEF CallerOK, LabelsMatch, CallSound, MessagesSound,
                                              WalkCovers, SnapshotTruthful, Forms
    <2>3. QED
      BY <1>1, <2>1, <2>2, LocalStep
  <1>6. QED
    BY <1>3, <1>4, <1>5 DEF PublishGate

LEMMA AnnounceKeeps ==
  ASSUME Regime, IInv, TypeOK', NEW p \in Callers, Announce(p)
  PROVE  IInv'
  <1>. TypeOK /\ CallerOK(p)
    BY DEF IInv
  <1>. DEFINE m == [topic |-> call[p].topic, body |-> call[p].body]
  <1>1. MemoryOK' /\ UNCHANGED <<retained, wire, plan, call, view>>
    BY SameMemory DEF Announce, IInv, memos, broker
  <1>2. pc[p] = "announce" /\ call[p].op = "publish" /\ Sound(call[p].topic, call[p].body)
    BY DEF Announce, CallerOK, LabelsMatch, CallSound
  <1>3. /\ OthersKeep(p) /\ pc'[p] = "sent" /\ msg'[p] = m /\ todo'[p] = todo[p] \ {m}
        /\ m \in Message
    <2>1. m \in Message
      BY <1>2, ReachedTopics DEF Sound, Message, TypeOK, Call
    <2>2. QED
      BY <2>1 DEF Announce, Send, Go, TypeOK, OthersKeep
  <1>4. CallerOK(p)'
    BY <1>1, <1>2, <1>3, SameTree DEF CallerOK, LabelsMatch, CallSound, MessagesSound,
                                      WalkCovers, SnapshotTruthful, Forms
  <1>5. QED
    BY <1>1, <1>3, <1>4, LocalStep

LEMMA PublishAnsweredKeeps ==
  ASSUME Regime, IInv, TypeOK', NEW p \in Callers, PublishAnswered(p)
  PROVE  IInv'
  <1>. TypeOK /\ CallerOK(p)
    BY DEF IInv
  <1>. DEFINE t == call[p].topic
             b == call[p].body
  <1>1. /\ declared' = [declared EXCEPT ![t] = b] /\ claimed' \subseteq claimed \cup {t} /\ Return(p)
        /\ UNCHANGED <<retained, wire, plan, superseded, observed, observedTaken>>
    BY DEF PublishAnswered, broker, memos
  <1>2. Sound(t, b) /\ t \in Reached
    BY DEF PublishAnswered, CallerOK, CallSound, Sound
  <1>3. \A u \in Topics : declared'[u] # Empty => Sound(u, declared[u])'
    <2>1. SUFFICES ASSUME NEW u \in Topics, declared'[u] # Empty PROVE Sound(u, declared[u])'
      OBVIOUS
    <2>2. CASE u = t
      <3>1. declared'[u] = b
        BY <1>1, <2>2 DEF TypeOK
      <3>2. QED
        BY <1>1, <1>2, <2>2, <3>1, SameTree
    <2>3. CASE u # t
      <3>1. declared'[u] = declared[u] /\ Sound(u, declared[u])
        BY <1>1, <2>1, <2>3 DEF IInv, TypeOK, MemoryOK
      <3>2. QED
        BY <1>1, <3>1, SameTree
    <2>4. QED
      BY <2>2, <2>3
  <1>4. MemoryOK'
    BY <1>1, <1>2, <1>3, SameTree DEF IInv, MemoryOK
  <1>5. QED
    BY <1>1, <1>4, ReturningStep

-----------------------------------------------------------------------------
(* Retract and Republish.                                                  *)

LEMMA CopyDeclaredKeeps ==
  ASSUME Regime, IInv, TypeOK', NEW p \in Callers, CopyDeclared(p)
  PROVE  IInv'
  <1>. TypeOK /\ CallerOK(p)
    BY DEF IInv
  <1>1. MemoryOK' /\ UNCHANGED <<retained, wire, plan, call, msg, view>>
    BY SameMemory DEF CopyDeclared, IInv, gates, memos, broker
  <1>2. /\ OthersKeep(p) /\ pc[p] = "copy" /\ pc'[p] = "work"
        /\ todo'[p] = {[topic |-> t, body |-> declared[t]] : t \in {u \in Topics : declared[u] # Empty}}
    BY DEF CopyDeclared, Go, TypeOK, OthersKeep
  <1>3. \A m \in todo'[p] : Sound(m.topic, m.body)
    BY <1>2 DEF IInv, MemoryOK
  <1>4. MessagesSound(p)'
    BY <1>1, <1>2, <1>3, SameTree DEF MessagesSound
  <1>5. LabelsMatch(p)' /\ CallSound(p)' /\ WalkCovers(p)' /\ SnapshotTruthful(p)'
    BY <1>1, <1>2, SameTree DEF CallerOK, LabelsMatch, CallSound, WalkCovers, SnapshotTruthful, Forms
  <1>6. QED
    BY <1>1, <1>2, <1>4, <1>5, LocalStep DEF CallerOK

\* A walk hands one of its messages on.
LEMMA WalkSends ==
  ASSUME IInv, TypeOK', NEW p \in Callers, NEW m \in todo[p], Send(p, m), MemoryOK',
         pc[p] = "work", call[p].op \notin Forms, UNCHANGED <<retained, wire, plan, call, view>>
  PROVE  IInv'
  <1>. TypeOK /\ CallerOK(p)
    BY DEF IInv
  <1>1. /\ OthersKeep(p) /\ pc'[p] = "sent" /\ msg'[p] = m /\ todo'[p] = todo[p] \ {m}
        /\ m \in Message
    BY DEF Send, Go, TypeOK, OthersKeep
  <1>2. call[p].op \notin {"publish", "report"} /\ Sound(m.topic, m.body)
    BY DEF CallerOK, LabelsMatch, MessagesSound
  <1>3. LabelsMatch(p)' /\ CallSound(p)' /\ MessagesSound(p)'
    BY <1>1, <1>2, SameTree DEF CallerOK, LabelsMatch, CallSound, MessagesSound
  <1>4. WalkCovers(p)' /\ SnapshotTruthful(p)'
    BY <1>1, SameTree DEF CallerOK, WalkCovers, SnapshotTruthful
  <1>5. QED
    BY <1>1, <1>3, <1>4, LocalStep DEF CallerOK

\* A walk hears of one of its messages, and goes on.
LEMMA WalkHears ==
  ASSUME IInv, TypeOK', NEW p \in Callers, Go(p, "work"), MemoryOK', OthersKeep(p),
         pc[p] \in {"sent", "applied"}, call[p].op \notin Forms \cup {"publish"},
         UNCHANGED <<retained, wire, plan, call, todo, view>>
  PROVE  IInv'
  <1>. TypeOK /\ CallerOK(p) /\ pc'[p] = "work"
    BY DEF IInv, TypeOK, Go
  <1>1. CallerOK(p)'
    BY SameTree DEF CallerOK, LabelsMatch, CallSound, MessagesSound, WalkCovers, SnapshotTruthful
  <1>2. QED
    BY <1>1, LocalStep

LEMMA WalkStepKeeps ==
  ASSUME Regime, IInv, TypeOK', NEW p \in Callers, WalkStep(p)
  PROVE  IInv'
  <1>1. PICK m \in todo[p] : Send(p, m)
    BY DEF WalkStep
  <1>2. MemoryOK'
    BY SameMemory DEF WalkStep, IInv, gates, memos, broker
  <1>3. QED
    BY <1>1, <1>2, WalkSends DEF WalkStep, broker, Forms

LEMMA WalkAnsweredKeeps ==
  ASSUME Regime, IInv, TypeOK', NEW p \in Callers,
         RetractAnswered(p) \/ RepublishAnswered(p) \/ SweepAnswered(p)
  PROVE  IInv'
  <1>. TypeOK
    BY DEF IInv
  <1>1. /\ declared' = [declared EXCEPT ![msg[p].topic] = Empty] \/ UNCHANGED declared
        /\ UNCHANGED <<retained, wire, plan, claimed, superseded, observed, observedTaken, call, todo, view>>
        /\ Go(p, "work") /\ pc[p] = "applied" /\ OthersKeep(p)
        /\ call[p].op \notin Forms \cup {"publish"}
    BY DEF RetractAnswered, RepublishAnswered, SweepAnswered, broker, gates, memos, Go, OthersKeep,
           TypeOK, Forms, Sweeps
  <1>2. \A u \in Topics : declared'[u] # Empty => Sound(u, declared[u])'
    BY <1>1, Undeclared, SameTree DEF IInv, MemoryOK
  <1>3. MemoryOK'
    BY <1>1, <1>2, SameTree DEF IInv, MemoryOK
  <1>4. QED
    BY <1>1, <1>3, WalkHears

-----------------------------------------------------------------------------
(* The snapshot window and Sweep.                                          *)

LEMMA TakeSlotKeeps ==
  ASSUME Regime, IInv, TypeOK', NEW p \in Callers, TakeSlot(p)
  PROVE  IInv'
  <1>. TypeOK /\ CallerOK(p)
    BY DEF IInv
  <1>1. MemoryOK' /\ UNCHANGED <<retained, wire, plan, call, todo, msg>> /\ OthersKeep(p)
    BY SameMemory DEF TakeSlot, IInv, gates, memos, broker, Go, TypeOK, OthersKeep
  <1>2. /\ pc[p] = "slot" /\ pc'[p] \in {"work", "window"} /\ call[p].op \in Forms \cup Sweeps
        /\ pc'[p] = "work" => call[p].op \in Forms /\ observedTaken /\ view'[p] = observed
        /\ pc'[p] = "window" => view'[p] = {}
    BY DEF TakeSlot, Go, TypeOK, CallerOK, LabelsMatch
  <1>3. LabelsMatch(p)' /\ CallSound(p)' /\ MessagesSound(p)' /\ WalkCovers(p)'
    BY <1>1, <1>2, SameTree DEF CallerOK, LabelsMatch, CallSound, MessagesSound, WalkCovers, Forms
  <1>4. SnapshotTruthful(p)'
    BY <1>1, <1>2, SameTree DEF SnapshotTruthful, IInv, MemoryOK
  <1>5. QED
    BY <1>1, <1>3, <1>4, LocalStep DEF CallerOK

LEMMA SnapshotRefusedKeeps ==
  ASSUME Regime, IInv, TypeOK', NEW p \in Callers, SnapshotRefused(p)
  PROVE  IInv'
  <1>. TypeOK /\ CallerOK(p)
    BY DEF IInv
  <1>1. MemoryOK' /\ UNCHANGED <<retained, wire, plan>>
    BY SameMemory DEF SnapshotRefused, IInv, gates, memos, broker
  <1>2. CASE Return(p)
    BY <1>1, <1>2, ReturningStep
  <1>3. CASE ~Return(p)
    <2>1. /\ pc[p] = "slot" /\ pc'[p] = "work" /\ call[p].op \in Forms
          /\ UNCHANGED <<call, todo, msg, view>> /\ OthersKeep(p)
      BY <1>3 DEF SnapshotRefused, Go, TypeOK, OthersKeep
    <2>2. CallerOK(p)'
      BY <1>1, <2>1, SameTree DEF CallerOK, LabelsMatch, CallSound, MessagesSound, WalkCovers,
                                  SnapshotTruthful, Forms
    <2>3. QED
      BY <1>1, <2>1, <2>2, LocalStep
  <1>4. QED
    BY <1>2, <1>3

LEMMA CollectKeeps ==
  ASSUME Regime, IInv, TypeOK', NEW p \in Callers, Collect(p)
  PROVE  IInv'
  <1>. TypeOK /\ CallerOK(p)
    BY DEF IInv
  <1>1. /\ MemoryOK' /\ UNCHANGED <<retained, wire, plan, pc, call, msg>>
        /\ pc[p] = "window" /\ OthersKeep(p)
    BY SameMemory DEF Collect, IInv, gates, memos, broker, TypeOK, OthersKeep
  <1>2. PICK t \in Topics : /\ Collectable(p, t)
                           /\ view' = [view EXCEPT ![p] = @ \cup {t}]
                           /\ todo' = IF call[p].op \in Sweeps /\ ~Claims(t)
                                      THEN [todo EXCEPT ![p] = @ \cup Clears({t})] ELSE todo
    BY DEF Collect
  <1>3. view'[p] \subseteq Topics
    BY <1>1, <1>2 DEF TypeOK, CallerOK, LabelsMatch
  <1>4. LabelsMatch(p)' /\ CallSound(p)' /\ SnapshotTruthful(p)'
    BY <1>1, <1>3, SameTree DEF CallerOK, LabelsMatch, CallSound, SnapshotTruthful
  <1>5. MessagesSound(p)' /\ WalkCovers(p)'
    <2>1. CASE UNCHANGED todo
      BY <1>1, <2>1, SameTree DEF CallerOK, MessagesSound, WalkCovers
    <2>2. CASE call[p].op \in Sweeps /\ todo' = [todo EXCEPT ![p] = @ \cup Clears({t})]
      <3>1. todo'[p] = todo[p] \cup Clears({t})
        BY <2>2 DEF TypeOK
      <3>2. call[p].op # "report" => t \in Reached
        BY <1>2, <2>2 DEF Collectable, Owned, CallerOK, CallSound, Sweeps, IInv, MemoryOK
      <3>3. MessagesSound(p)'
        BY <1>1, <3>1, <3>2, SameTree DEF CallerOK, MessagesSound, Clears, Sound
      <3>4. QED
        BY <1>1, <2>2, <3>3 DEF WalkCovers, Sweeps, Forms
    <2>3. QED
      BY <1>2, <2>1, <2>2
  <1>6. QED
    BY <1>1, <1>4, <1>5, LocalStep DEF CallerOK

LEMMA CloseWindowKeeps ==
  ASSUME Regime, IInv, TypeOK', NEW p \in Callers, CloseWindow(p)
  PROVE  IInv'
  <1>. TypeOK /\ CallerOK(p)
    BY DEF IInv
  <1>1. UNCHANGED <<retained, wire, plan, declared, superseded, claimed>> /\ pc[p] = "window"
    BY DEF CloseWindow, broker, gates
  <1>2. CASE call[p].op \in Forms
    <2>1. /\ pc'[p] = "work" /\ UNCHANGED <<call, todo, msg, view>> /\ OthersKeep(p)
          /\ (observedTaken' /\ observed' = view[p]) \/ UNCHANGED <<observed, observedTaken>>
      BY <1>2 DEF CloseWindow, Go, TypeOK, OthersKeep
    <2>2. Truthful(view[p])
      BY <1>1, <1>2 DEF CloseWindow, CallerOK, LabelsMatch, Regime, Collectable, Truthful, Off,
                             Forms, Sweeps
    <2>3. MemoryOK'
      BY <1>1, <2>1, <2>2, SameTree DEF IInv, MemoryOK
    <2>4. CallerOK(p)'
      BY <1>1, <1>2, <2>1, <2>2, SameTree DEF CallerOK, LabelsMatch, CallSound, MessagesSound,
                                              WalkCovers, SnapshotTruthful, Forms
    <2>5. QED
      BY <1>1, <2>1, <2>3, <2>4, LocalStep
  <1>3. CASE call[p].op \notin Forms
    <2>1. MemoryOK'
      BY <1>1, <1>3, SameMemory DEF CloseWindow, IInv
    <2>2. CASE call[p].op = "report"
      BY <1>1, <1>3, <2>1, <2>2, ReturningStep DEF CloseWindow
    <2>3. CASE call[p].op # "report"
      <3>1. /\ pc'[p] = "work" /\ UNCHANGED <<call, todo, msg>> /\ OthersKeep(p)
            /\ call[p].op \in Sweeps /\ view'[p] = Blind
        BY <1>1, <1>3, <2>3 DEF CloseWindow, Go, TypeOK, OthersKeep, CallerOK, LabelsMatch
      <3>2. CallerOK(p)'
        BY <1>1, <1>3, <2>3, <3>1, SameTree DEF CallerOK, LabelsMatch, CallSound, MessagesSound,
                                                WalkCovers, SnapshotTruthful, Sweeps
      <3>3. QED
        BY <1>1, <2>1, <3>1, <3>2, LocalStep
    <2>4. QED
      BY <2>2, <2>3
  <1>4. QED
    BY <1>2, <1>3

LEMMA SweepStepKeeps ==
  ASSUME Regime, IInv, TypeOK', NEW p \in Callers, SweepStep(p)
  PROVE  IInv'
  <1>. TypeOK /\ CallerOK(p)
    BY DEF IInv
  <1>1. /\ MemoryOK' /\ UNCHANGED <<retained, wire, plan, call, view>>
        /\ pc[p] = "work" /\ call[p].op \notin Forms
    BY SameMemory DEF SweepStep, IInv, gates, memos, broker, Forms, Sweeps
  <1>2. PICK m \in todo[p] :
          \/ todo' = [todo EXCEPT ![p] = @ \ {m}] /\ UNCHANGED <<pc, msg>>
          \/ Send(p, m)
    BY DEF SweepStep
  <1>3. CASE Send(p, m)
    BY <1>1, <1>3, WalkSends
  <1>4. CASE todo' = [todo EXCEPT ![p] = @ \ {m}] /\ UNCHANGED <<pc, msg>>
    <2>1. OthersKeep(p) /\ todo'[p] = todo[p] \ {m}
      BY <1>1, <1>4 DEF TypeOK, OthersKeep
    <2>2. CallerOK(p)'
      BY <1>1, <1>4, <2>1, SameTree DEF CallerOK, LabelsMatch, CallSound, MessagesSound, WalkCovers,
                                        SnapshotTruthful
    <2>3. QED
      BY <1>1, <2>1, <2>2, LocalStep
  <1>5. QED
    BY <1>2, <1>3, <1>4

\* WalkEnds and Cancel: the method returns, whatever it left undone.
LEMMA EndKeeps ==
  ASSUME Regime, IInv, TypeOK', NEW p \in Callers, WalkEnds(p) \/ Cancel(p)
  PROVE  IInv'
  <1>1. MemoryOK' /\ UNCHANGED <<retained, wire, plan>> /\ Return(p)
    BY SameMemory DEF WalkEnds, Cancel, IInv, gates, memos, broker
  <1>2. QED
    BY <1>1, ReturningStep

LEMMA RefusedKeeps ==
  ASSUME Regime, IInv, TypeOK', NEW p \in Callers, Refused(p)
  PROVE  IInv'
  <1>. TypeOK
    BY DEF IInv
  <1>1. MemoryOK' /\ UNCHANGED <<retained, wire, plan>>
    BY SameMemory DEF Refused, IInv, memos, broker
  <1>2. CASE Return(p)
    BY <1>1, <1>2, ReturningStep
  <1>3. CASE ~Return(p)
    <2>1. /\ Go(p, "work") /\ OthersKeep(p) /\ pc[p] \in {"sent", "applied"}
          /\ UNCHANGED <<call, todo, view>> /\ call[p].op \notin Forms \cup {"publish"}
      BY <1>3 DEF Refused, Go, TypeOK, OthersKeep
    <2>2. QED
      BY <1>1, <2>1, WalkHears
  <1>4. QED
    BY <1>2, <1>3

-----------------------------------------------------------------------------
(* The broker, the connection, the process.                                *)

\* A change of the tree that writes no topic of Off disturbs no judgement
\* about the tree.
LEMMA OffStays ==
  ASSUME Regime, IInv, UNCHANGED plan,
         \A s \in Off : retained[s] = Empty => retained'[s] = Empty
  PROVE  /\ \A t, b : Writes(t, b)' <=> Writes(t, b)
         /\ \A t, b : Sound(t, b) => Sound(t, b)'
         /\ Off' = Off
         /\ \A held : Truthful(held) => Truthful(held)'
  <1>. plan \in Plans
    BY DEF IInv, TypeOK
  <1>1. \A t, b : Writes(t, b)' <=> Writes(t, b)
    BY DEF Writes
  <1>2. Off' = Off
    BY <1>1 DEF Off
  <1>3. ASSUME NEW t, NEW b, Sound(t, b) PROVE Sound(t, b)'
    <2>1. CASE b = Empty
      BY <1>3, <2>1 DEF Sound
    <2>2. CASE b # Empty
      <3>1. Writes(t, b) /\ Cleared(t, b)
        BY <1>3, <2>2 DEF Sound
      <3>2. Replaced(t, b) \subseteq Off
        BY <3>1, WritesFacts
      <3>3. Cleared(t, b)'
        BY <3>1, <3>2 DEF Cleared
      <3>4. QED
        BY <1>1, <1>3, <3>1, <3>3 DEF Sound
    <2>3. QED
      BY <2>1, <2>2
  <1>4. QED
    BY <1>1, <1>2, <1>3 DEF Truthful

LEMMA OffStaysMemory ==
  ASSUME Regime, IInv, UNCHANGED <<plan, declared, claimed, superseded, observed, observedTaken>>,
         \A s \in Off : retained[s] = Empty => retained'[s] = Empty
  PROVE  MemoryOK'
  BY OffStays DEF IInv, MemoryOK

\* A caller whose own frame the step leaves alone, its label excepted.
LEMMA OffStaysCaller ==
  ASSUME Regime, IInv, UNCHANGED plan,
         \A s \in Off : retained[s] = Empty => retained'[s] = Empty,
         NEW q \in Callers, pc'[q] = pc[q],
         call'[q] = call[q], todo'[q] = todo[q], msg'[q] = msg[q], view'[q] = view[q]
  PROVE  CallerOK(q)'
  <1>. CallerOK(q) /\ plan \in Plans
    BY DEF IInv, TypeOK
  <1>1. LabelsMatch(q)'
    BY DEF CallerOK, LabelsMatch
  <1>2. CallSound(q)' /\ MessagesSound(q)' /\ SnapshotTruthful(q)'
    BY OffStays DEF CallerOK, CallSound, MessagesSound, SnapshotTruthful
  <1>3. WalkCovers(q)'
    <2>1. SUFFICES ASSUME call[q].op \in Forms PROVE WalkCovers(q)'
      BY DEF WalkCovers
    <2>2. Replaced(call[q].topic, call[q].body) \subseteq Off
      BY <2>1, WritesFacts DEF CallerOK, CallSound
    <2>3. pc[q] \in {"sent", "applied"} => msg[q].topic \in Replaced(call[q].topic, call[q].body)
      BY <2>1 DEF CallerOK, WalkCovers, Clears
    <2>4. QED
      BY <2>2, <2>3 DEF CallerOK, WalkCovers
  <1>4. QED
    BY <1>1, <1>2, <1>3 DEF CallerOK

\* A sound write keeps the two forms apart.
LEMMA SoundWrite ==
  ASSUME Regime, IInv, NEW t \in Topics, NEW b \in Values, Sound(t, b),
         retained' = [retained EXCEPT ![t] = b]
  PROVE  NoConflict(retained') /\ OwnNode(retained') /\ t \in Reached
         /\ \A s \in Off : retained[s] = Empty => retained'[s] = Empty
  <1>. TypeOK /\ plan \in Plans /\ NoConflict(retained) /\ OwnNode(retained)
    BY DEF IInv, TypeOK
  <1>1. \A s \in Off : retained[s] = Empty => retained'[s] = Empty
    <2>1. SUFFICES ASSUME NEW s \in Off, retained[s] = Empty PROVE retained'[s] = Empty
      OBVIOUS
    <2>2. s \in Topics
      BY DEF Off
    <2>3. b # Empty => t # s
      BY <2>1, WritesFacts DEF Sound
    <2>4. QED
      BY <2>1, <2>2, <2>3 DEF TypeOK
  <1>2. SUFFICES ASSUME NEW n \in Docs, retained'[n] # Empty, NEW e \in Legacy[retained'[n]]
                 PROVE  retained'[e] = Empty /\ DocOf[e] = n
    BY <1>1 DEF NoConflict, OwnNode, Sound
  <1>3. n \in Topics /\ retained'[n] \in Bodies
    BY <1>2 DEF TypeOK, Topics, Values
  <1>4. e \in Ents /\ e \in Topics /\ e \notin Docs
    BY <1>3, RuntimeAssumption DEF Topics
  <1>5. CASE t = n
    <2>1. retained'[n] = b /\ b # Empty
      BY <1>2, <1>3, <1>5 DEF TypeOK
    <2>2. Writes(t, b) /\ Cleared(t, b)
      BY <2>1 DEF Sound
    <2>3. e \in Replaced(t, b) /\ DocOf[e] = n
      BY <1>2, <1>5, <2>1, <2>2, WritesFacts DEF Replaced
    <2>4. retained[e] = Empty /\ e # t
      BY <1>4, <1>5, <2>2, <2>3 DEF Cleared
    <2>5. QED
      BY <1>4, <2>3, <2>4 DEF TypeOK
  <1>6. CASE t # n
    <2>1. retained'[n] = retained[n]
      BY <1>3, <1>6 DEF TypeOK
    <2>2. retained[e] = Empty /\ DocOf[e] = n
      BY <1>2, <2>1 DEF NoConflict, OwnNode
    <2>3. CASE t = e /\ b # Empty
      <3>1. Cleared(e, b) /\ Replaced(e, b) = {n}
        BY <1>4, <2>2, <2>3 DEF Sound, Replaced
      <3>2. QED
        BY <1>2, <2>1, <3>1 DEF Cleared
    <2>4. CASE t # e \/ b = Empty
      BY <1>4, <2>2, <2>4 DEF TypeOK
    <2>5. QED
      BY <2>3, <2>4
  <1>7. QED
    BY <1>5, <1>6

LEMMA MessageApplied ==
  ASSUME Regime, IInv, NEW p \in Callers, BrokerApplies(p)
  PROVE  /\ msg[p].topic \in Topics /\ msg[p].body \in Values /\ Sound(msg[p].topic, msg[p].body)
         /\ retained' = [retained EXCEPT ![msg[p].topic] = msg[p].body]
  <1>1. msg[p] \in Message
    BY DEF IInv, CallerOK, LabelsMatch, BrokerApplies
  <1>2. QED
    BY <1>1 DEF IInv, CallerOK, MessagesSound, BrokerApplies, Message

LEMMA BrokerAppliesKeeps ==
  ASSUME Regime, IInv, TypeOK', NEW p \in Callers, BrokerApplies(p)
  PROVE  IInv'
  <1>. TypeOK /\ CallerOK(p) /\ plan \in Plans
    BY DEF IInv, TypeOK
  <1>1. /\ UNCHANGED <<wire, plan, declared, claimed, superseded, observed, observedTaken>>
        /\ UNCHANGED <<call, todo, msg, view>>
        /\ pc[p] = "sent" /\ pc'[p] = "applied" /\ OthersKeep(p)
    BY DEF BrokerApplies, Go, TypeOK, OthersKeep, gates, memos
  <1>2. /\ NoConflict(retained') /\ OwnNode(retained')
        /\ \A s \in Off : retained[s] = Empty => retained'[s] = Empty
    BY MessageApplied, SoundWrite
  <1>3. MemoryOK'
    BY <1>1, <1>2, OffStaysMemory
  <1>4. \A q \in Callers \ {p} : CallerOK(q)'
    BY <1>1, <1>2, OffStaysCaller DEF OthersKeep
  <1>5. LabelsMatch(p)'
    BY <1>1 DEF CallerOK, LabelsMatch
  <1>6. CallSound(p)' /\ MessagesSound(p)' /\ SnapshotTruthful(p)'
    BY <1>1, <1>2, OffStays DEF CallerOK, CallSound, MessagesSound, SnapshotTruthful
  <1>7. WalkCovers(p)'
    <2>1. SUFFICES ASSUME call[p].op \in Forms PROVE WalkCovers(p)'
      BY <1>1 DEF WalkCovers
    <2>2. Replaced(call[p].topic, call[p].body) \subseteq Off
      BY <2>1, WritesFacts DEF CallerOK, CallSound
    <2>3. retained'[msg[p].topic] = Empty
      BY <1>1, <2>1, MessageApplied DEF CallerOK, WalkCovers, Clears, TypeOK
    <2>4. QED
      BY <1>1, <1>2, <2>2, <2>3 DEF CallerOK, WalkCovers
  <1>8. QED
    BY <1>1, <1>2, <1>3, <1>4, <1>5, <1>6, <1>7 DEF IInv, CallerOK

LEMMA ReconnectKeeps ==
  ASSUME Regime, IInv, TypeOK', Reconnect
  PROVE  IInv'
  <1>1. /\ wire' = <<>>
        /\ UNCHANGED <<plan, declared, claimed, superseded, observed, observedTaken, pc, call, todo, msg, view>>
        /\ UNCHANGED retained \/ retained' = [t \in Topics |-> Empty]
    BY DEF Reconnect, gates, memos, frames
  <1>2. \A s \in Off : retained[s] = Empty => retained'[s] = Empty
    BY <1>1 DEF Off
  <1>3. NoConflict(retained') /\ OwnNode(retained')
    <2>1. CASE UNCHANGED retained
      BY <2>1 DEF IInv
    <2>2. CASE retained' = [t \in Topics |-> Empty]
      BY <2>2 DEF NoConflict, OwnNode, Topics
    <2>3. QED
      BY <1>1, <2>1, <2>2
  <1>4. MemoryOK' /\ \A q \in Callers : CallerOK(q)'
    BY <1>1, <1>2, OffStaysMemory, OffStaysCaller
  <1>5. QED
    BY <1>1, <1>3, <1>4 DEF IInv

LEMMA CrashKeeps ==
  ASSUME Regime, IInv, TypeOK', Crash
  PROVE  IInv'
  <1>1. \A q \in Callers : CallerOK(q)'
    BY IdleAfter DEF Crash, Each
  <1>2. MemoryOK'
    BY DEF Crash, MemoryOK, Nothing
  <1>3. wire' = <<>> /\ NoConflict(retained') /\ OwnNode(retained')
    BY DEF Crash, IInv
  <1>4. QED
    BY <1>1, <1>2, <1>3 DEF IInv

-----------------------------------------------------------------------------
(* The theorems.                                                           *)

LEMMA StartSound ==
  ASSUME Regime, Init
  PROVE  IInv
  <1>1. TypeOK
    BY TypedInit DEF Typed
  <1>2. \A q \in Callers : CallerOK(q)
    BY Idle DEF Init, Each
  <1>3. MemoryOK
    BY DEF Init, MemoryOK, Nothing
  <1>4. NoConflict(retained) /\ OwnNode(retained) /\ wire = <<>>
    BY DEF Init, Regime, LeftoversConsistent
  <1>5. QED
    BY <1>1, <1>2, <1>3, <1>4 DEF IInv

LEMMA StepSound ==
  ASSUME Regime, IInv, TypeOK', [Next]_vars
  PROVE  IInv'
  <1>1. ASSUME NEW p \in Callers, Begin(p) \/ Reset(p) \/ Collect(p) \/ SnapshotRefused(p) \/ Cancel(p)
                                  \/ Refused(p)
        PROVE  IInv'
    BY <1>1, BeginKeeps, ResetKeeps, CollectKeeps, SnapshotRefusedKeeps, EndKeeps, RefusedKeeps
  <1>2. ASSUME NEW p \in Callers, Step(p)
        PROVE  IInv'
    <2>1. ~SocketTakes(p)
      BY DEF SocketTakes, Regime
    <2>2. QED
      BY <1>2, <2>1, GenerationKeeps, KeepWithheldKeeps, FormGateKeeps, ObserveKeeps, SupersedeStepKeeps,
         SupersedeAnsweredKeeps, SupersedeEndsKeeps, PublishGateKeeps, AnnounceKeeps, PublishAnsweredKeeps,
         CopyDeclaredKeeps, WalkStepKeeps, WalkAnsweredKeeps, TakeSlotKeeps, CloseWindowKeeps,
         SweepStepKeeps, EndKeeps, BrokerAppliesKeeps
      DEF Step
  <1>3. ~BrokerReads
    BY DEF BrokerReads, IInv
  <1>4. CASE UNCHANGED vars
    <2>1. \A q \in Callers : CallerOK(q)'
      BY <1>4, SameCaller DEF vars, broker, frames, IInv
    <2>2. MemoryOK'
      BY <1>4, SameMemory DEF vars, broker, gates, memos, IInv
    <2>3. QED
      BY <1>4, <2>1, <2>2 DEF vars, broker, IInv
  <1>5. QED
    BY <1>1, <1>2, <1>3, <1>4, ReconnectKeeps, CrashKeeps DEF Next

\* In the regime, the inductive invariant holds throughout.
THEOREM Invariance == ASSUME Regime PROVE Spec => []IInv
  <1>1. Init => IInv
    BY StartSound
  <1>2. IInv /\ TypeOK' /\ [Next]_vars => IInv'
    BY StepSound
  <1>3. QED
    BY <1>1, <1>2, TypeCorrect, PTL DEF Spec

\* A device document and a per-entity config it replaces are never both
\* retained: whatever the callers interleave, whatever is refused, whichever
\* acknowledgement is lost, across reconnects, an emptied broker and restarts
\* into the other form (PublishBundle, PublishComponent, Republish, Sweep).
THEOREM FormsNeverMeet == ASSUME Regime PROVE Spec => []NoFormConflict
  <1>1. IInv => NoFormConflict
    BY DEF IInv, NoFormConflict
  <1>2. QED
    BY <1>1, Invariance, PTL

\* The runtime implements the abstract tree: it writes only where the other
\* form is gone and never touches a topic none of its calls reaches.
THEOREM Implementation == ASSUME Regime PROVE Spec => ImplementsTree
  <1>1. Init => Tree!Init
    BY DEF Init, Tree!Init
  <1>2. IInv /\ [Next]_vars => [Tree!Next]_retained
    <2>. SUFFICES ASSUME IInv, [Next]_vars PROVE [Tree!Next]_retained
      OBVIOUS
    <2>. TypeOK
      BY DEF IInv
    <2>1. ASSUME NEW p \in Callers, BrokerApplies(p)
          PROVE  Tree!Next
      <3>. DEFINE t == msg[p].topic
                 b == msg[p].body
      <3>1. /\ t \in Topics /\ b \in Values /\ retained' = [retained EXCEPT ![t] = b]
            /\ t \notin Topics \ Reached /\ NoConflict(retained')
        BY <2>1, MessageApplied, SoundWrite
      <3>2. t \in Tree!Topics
        BY <3>1 DEF Topics, Tree!Topics
      <3>3. CASE b = Empty
        BY <3>1, <3>2, <3>3 DEF Tree!Next, Tree!Clear
      <3>4. CASE b # Empty
        <4>1. b \in Bodies
          BY <3>1, <3>4 DEF Values
        <4>2. Tree!OneForm(retained')
          BY <3>1 DEF NoConflict, Tree!OneForm
        <4>3. Tree!Write(t, b)
          BY <3>1, <4>2 DEF Tree!Write
        <4>4. QED
          BY <3>2, <4>1, <4>3 DEF Tree!Next
      <3>5. QED
        BY <3>3, <3>4
    <2>2. CASE Reconnect
      <3>1. UNCHANGED retained \/ retained' = [t \in Tree!Topics |-> Empty]
        BY <2>2 DEF Reconnect, Topics, Tree!Topics
      <3>2. QED
        BY <3>1 DEF Tree!Next, Tree!Lose
    <2>3. CASE Crash \/ UNCHANGED vars
      BY <2>3 DEF Crash, vars, broker
    <2>4. ASSUME NEW p \in Callers, ~BrokerApplies(p),
                 Begin(p) \/ Reset(p) \/ Step(p) \/ Collect(p) \/ SnapshotRefused(p) \/ Cancel(p) \/ Refused(p)
          PROVE  UNCHANGED retained
      BY <2>4 DEF Step, Begin, Reset, ReadGeneration, SyncGeneration, KeepWithheld, FormGate, Observe,
                  SupersedeStep, SupersedeAnswered, SupersedeEnds, PublishGate, Announce, PublishAnswered,
                  CopyDeclared, WalkStep, RetractAnswered, RepublishAnswered, TakeSlot, CloseWindow,
                  SweepStep, SweepAnswered, WalkEnds, SocketTakes, Collect, SnapshotRefused, Cancel,
                  Refused, broker
    <2>5. ~BrokerReads
      BY DEF BrokerReads, IInv
    <2>6. QED
      BY <2>1, <2>2, <2>3, <2>4, <2>5 DEF Next
  <1>3. QED
    BY <1>1, <1>2, Invariance, PTL DEF Spec, ImplementsTree, Tree!Spec

-----------------------------------------------------------------------------
(* Gated documents.                                                        *)

\* What the gate would suppress is declared.
GatedDeclared == \A t \in gated : declared[t] # Empty

LEMMA GatedStaysDeclared ==
  ASSUME IInv, GatedDeclared, [Next]_vars
  PROVE  GatedDeclared'
  <1>1. ASSUME NEW t, declared' = [declared EXCEPT ![t] = Empty], gated' = gated \ {t}
        PROVE  GatedDeclared'
    BY <1>1 DEF GatedDeclared, IInv, TypeOK
  <1>2. ASSUME NEW p \in Callers, PublishAnswered(p) PROVE GatedDeclared'
    <2>1. /\ declared' = [declared EXCEPT ![call[p].topic] = call[p].body]
          /\ gated' = IF call[p].body = Empty THEN gated \ {call[p].topic} ELSE gated \cup {call[p].topic}
      BY <1>2 DEF PublishAnswered
    <2>2. call[p].topic \in Topics
      <3>1. Sound(call[p].topic, call[p].body)
        BY <1>2 DEF PublishAnswered, IInv, CallerOK, CallSound
      <3>2. QED
        BY <3>1, ReachedTopics DEF Sound
    <2>3. declared \in [Topics -> Values] /\ gated \subseteq Topics
      BY DEF IInv, TypeOK
    <2>4. CASE call[p].body = Empty
      BY <1>1, <2>1, <2>4
    <2>5. CASE call[p].body # Empty
      BY <2>1, <2>2, <2>3, <2>5 DEF GatedDeclared
    <2>6. QED
      BY <2>4, <2>5
  <1>3. ASSUME NEW p \in Callers, SupersedeAnswered(p) \/ RetractAnswered(p) \/ SweepAnswered(p) PROVE GatedDeclared'
    <2>1. declared' = [declared EXCEPT ![msg[p].topic] = Empty] /\ gated' = gated \ {msg[p].topic}
      BY <1>3 DEF SupersedeAnswered, RetractAnswered, SweepAnswered
    <2>2. QED
      BY <1>1, <2>1
  <1>4. ASSUME gated' \subseteq gated, UNCHANGED declared PROVE GatedDeclared'
    BY <1>4 DEF GatedDeclared
  <1>5. ASSUME NEW p \in Callers, Reset(p) \/ SyncGeneration(p) PROVE GatedDeclared'
    BY <1>4, <1>5 DEF Reset, SyncGeneration, Forget
  <1>6. CASE Crash
    BY <1>6 DEF Crash, GatedDeclared
  <1>7. CASE Reconnect \/ BrokerReads \/ UNCHANGED vars
    BY <1>4, <1>7 DEF Reconnect, BrokerReads, vars, gates
  <1>8. ASSUME NEW p \in Callers,
               \/ Begin(p) \/ ReadGeneration(p) \/ KeepWithheld(p) \/ FormGate(p) \/ Observe(p)
               \/ SupersedeStep(p) \/ SupersedeEnds(p) \/ PublishGate(p) \/ Announce(p) \/ CopyDeclared(p)
               \/ WalkStep(p) \/ RepublishAnswered(p) \/ TakeSlot(p) \/ CloseWindow(p) \/ SweepStep(p)
               \/ WalkEnds(p) \/ BrokerApplies(p) \/ SocketTakes(p)
               \/ Collect(p) \/ SnapshotRefused(p) \/ Cancel(p) \/ Refused(p)
        PROVE  GatedDeclared'
    <2>1. UNCHANGED <<gated, declared>>
      BY <1>8 DEF Begin, ReadGeneration, KeepWithheld, FormGate, Observe, SupersedeStep, SupersedeEnds, PublishGate,
         Announce, CopyDeclared, WalkStep, RepublishAnswered, TakeSlot, CloseWindow, SweepStep, WalkEnds,
         BrokerApplies, SocketTakes, Collect, SnapshotRefused, Cancel, Refused, gates
    <2>2. QED
      BY <1>4, <2>1
  <1>9. QED
    BY <1>2, <1>3, <1>5, <1>6, <1>7, <1>8 DEF Next, Step

\* Once nothing is under way, a document the gate would not publish again stands alone:
\* the dedup gate never freezes a migration the broker refused half of (PublishBundle,
\* PublishComponent, checkGeneration).
THEOREM GatedDocumentsStandAlone ==
  ASSUME Regime
  PROVE  Spec => []GatedDocsStandAlone
  <1>1. Init => GatedDeclared
    BY DEF Init, GatedDeclared
  <1>2. IInv /\ GatedDeclared => GatedDocsStandAlone
    <2>1. SUFFICES ASSUME IInv, GatedDeclared, NEW d \in Docs \cap gated, NEW e \in Legacy[declared[d]]
                   PROVE  retained[e] = Empty
      BY DEF GatedDocsStandAlone
    <2>2. Sound(d, declared[d]) /\ declared[d] # Empty
      BY <2>1 DEF IInv, MemoryOK, GatedDeclared, Topics
    <2>3. QED
      BY <2>1, <2>2 DEF Sound, Cleared, Replaced
  <1>3. IInv /\ GatedDeclared /\ [Next]_vars => GatedDeclared'
    BY GatedStaysDeclared
  <1>4. QED
    BY <1>1, <1>2, <1>3, Invariance, PTL DEF Spec

-----------------------------------------------------------------------------
(* The snapshot window, under any regime.                                  *)

\* Whoever has a window open holds the slot.
Held ==
  /\ pc = [p \in Callers |-> pc[p]]
  /\ \A p \in Callers : pc[p] = "window" => slot = p

\* A caller that goes anywhere else, and at most gives the slot back.
LEMMA ElsewhereHeld ==
  ASSUME Held, NEW p \in Callers, NEW l, l # "window", pc' = [pc EXCEPT ![p] = l],
         slot' = slot \/ (slot = p /\ slot' = None)
  PROVE  Held'
  BY DEF Held

LEMMA EntryNoWindow == \A op : Entry(op) # "window" /\ AfterCheck(op) # "window"
  BY DEF Entry, AfterCheck

LEMMA StillHeld ==
  ASSUME Held, UNCHANGED <<pc, slot>>
  PROVE  Held'
  BY DEF Held

LEMMA HeldNext ==
  ASSUME Held, [Next]_vars
  PROVE  Held'
  <1>1. ASSUME NEW p \in Callers, Step(p) PROVE Held'
    <2>1. CASE ReadGeneration(p) \/ SyncGeneration(p)
      <3>1. PICK l : l # "window" /\ pc' = [pc EXCEPT ![p] = l] /\ slot' = slot
        BY <2>1, EntryNoWindow DEF ReadGeneration, SyncGeneration, Go
      <3>2. QED
        BY <3>1, ElsewhereHeld
    <2>2. CASE KeepWithheld(p) \/ FormGate(p) \/ Observe(p)
      <3>1. PICK l : l # "window" /\ pc' = [pc EXCEPT ![p] = l] /\ slot' = slot
        BY <2>2 DEF KeepWithheld, FormGate, Observe, Go, Return
      <3>2. QED
        BY <3>1, ElsewhereHeld
    <2>3. CASE SupersedeStep(p)
      <3>1. slot' = slot /\ (pc' = pc \/ pc' = [pc EXCEPT ![p] = "sent"])
        BY <2>3 DEF SupersedeStep, Send, Go
      <3>2. QED
        BY <3>1, ElsewhereHeld, StillHeld
    <2>4. CASE SupersedeAnswered(p) \/ SupersedeEnds(p) \/ PublishGate(p) \/ Announce(p) \/ PublishAnswered(p)
      <3>1. PICK l : l # "window" /\ pc' = [pc EXCEPT ![p] = l] /\ slot' = slot
        BY <2>4, EntryNoWindow DEF SupersedeAnswered, SupersedeEnds, PublishGate, Announce, PublishAnswered, Send, Go, Return
      <3>2. QED
        BY <3>1, ElsewhereHeld
    <2>5. CASE CopyDeclared(p) \/ WalkStep(p) \/ RetractAnswered(p) \/ RepublishAnswered(p) \/ SweepAnswered(p)
      <3>1. PICK l : l # "window" /\ pc' = [pc EXCEPT ![p] = l] /\ slot' = slot
        BY <2>5 DEF CopyDeclared, WalkStep, RetractAnswered, RepublishAnswered, SweepAnswered, Send, Go
      <3>2. QED
        BY <3>1, ElsewhereHeld
    <2>6. CASE TakeSlot(p)
      <3>1. slot = None /\ \A q \in Callers : pc[q] # "window"
        BY <2>6, RuntimeAssumption DEF TakeSlot, Held
      <3>2. CASE pc' = [pc EXCEPT ![p] = "window"] /\ slot' = p
        BY <3>1, <3>2 DEF Held
      <3>3. CASE pc' = [pc EXCEPT ![p] = "work"] /\ slot' = slot
        BY <3>3, ElsewhereHeld
      <3>4. QED
        BY <2>6, <3>2, <3>3 DEF TakeSlot, Go
    <2>7. CASE CloseWindow(p)
      <3>1. slot = p
        BY <2>7 DEF CloseWindow, Held
      <3>2. PICK l : l # "window" /\ pc' = [pc EXCEPT ![p] = l] /\ (slot' = slot \/ slot' = None)
        BY <2>7 DEF CloseWindow, Go, Return
      <3>3. QED
        BY <3>1, <3>2, ElsewhereHeld
    <2>8. CASE SweepStep(p)
      <3>1. slot' = slot /\ (pc' = pc \/ pc' = [pc EXCEPT ![p] = "sent"])
        BY <2>8 DEF SweepStep, Send, Go
      <3>2. QED
        BY <3>1, ElsewhereHeld, StillHeld
    <2>9. CASE WalkEnds(p)
      <3>1. pc' = [pc EXCEPT ![p] = "idle"] /\ (slot' = slot \/ (slot = p /\ slot' = None))
        BY <2>9 DEF WalkEnds, Return, Go
      <3>2. QED
        BY <3>1, ElsewhereHeld
    <2>10. CASE BrokerApplies(p) \/ SocketTakes(p)
      <3>1. pc' = [pc EXCEPT ![p] = "applied"] /\ slot' = slot
        BY <2>10 DEF BrokerApplies, SocketTakes, Go
      <3>2. QED
        BY <3>1, ElsewhereHeld
    <2>11. QED
      BY <1>1, <2>1, <2>2, <2>3, <2>4, <2>5, <2>6, <2>7, <2>8, <2>9, <2>10 DEF Step
  <1>2. ASSUME NEW p \in Callers, Begin(p) PROVE Held'
    <2>1. PICK l : l # "window" /\ pc' = [pc EXCEPT ![p] = l] /\ slot' = slot
      BY <1>2, EntryNoWindow DEF Begin, Go
    <2>2. QED
      BY <2>1, ElsewhereHeld
  <1>3. ASSUME NEW p \in Callers, Reset(p) \/ Collect(p) PROVE Held'
    BY <1>3, StillHeld DEF Reset, Collect, frames
  <1>4. ASSUME NEW p \in Callers, SnapshotRefused(p) \/ Cancel(p) \/ Refused(p) PROVE Held'
    <2>1. PICK l : l # "window" /\ pc' = [pc EXCEPT ![p] = l] /\ (slot' = slot \/ (slot = p /\ slot' = None))
      BY <1>4 DEF SnapshotRefused, Cancel, Refused, Go, Return
    <2>2. QED
      BY <2>1, ElsewhereHeld
  <1>5. CASE BrokerReads \/ Reconnect \/ UNCHANGED vars
    BY <1>5, StillHeld DEF BrokerReads, Reconnect, frames, vars
  <1>6. CASE Crash
    BY <1>6 DEF Crash, Each, Held
  <1>7. QED
    BY <1>1, <1>2, <1>3, <1>4, <1>5, <1>6 DEF Next

\* Two snapshot windows are never open at once, whatever the callers do and whichever
\* of them is cancelled, refused or cut off: the client keys its subscriptions by filter,
\* and a second window would end the first (sweep.go, sweepMu).
THEOREM WindowsKeepApart == Spec => []OneWindow
  <1>1. Init => Held
    BY DEF Init, Each, Held
  <1>2. Held /\ [Next]_vars => Held'
    BY HeldNext
  <1>3. Held => OneWindow
    BY DEF Held, OneWindow
  <1>4. QED
    BY <1>1, <1>2, <1>3, PTL DEF Spec

-----------------------------------------------------------------------------
(* The dedup gate, with one writer per topic.                              *)

LEMMA MineTopics ==
  ASSUME plan \in Plans, NEW p \in Callers
  PROVE  Mine(p) \subseteq Topics
  <1>1. SUFFICES ASSUME NEW c \in plan[p] PROVE May(c) \subseteq Topics
    BY DEF Mine
  <1>2. /\ c \in Call
        /\ c.op \in Forms => c.topic \in Topics /\ c.body \in Bodies
        /\ c.op = "publish" => c.topic \in Topics
    BY CallsTyped
  <1>3. c.op \in Forms => Replaced(c.topic, c.body) \subseteq Topics
    BY <1>2, RuntimeAssumption DEF Replaced, Topics
  <1>4. c.scope \subseteq Topics
    BY <1>2 DEF Call
  <1>5. QED
    BY <1>2, <1>3, <1>4 DEF May

LEMMA MineApart ==
  ASSUME GateRegime, plan \in Plans, NEW p \in Callers, NEW q \in Callers, p # q
  PROVE  Mine(p) \cap Mine(q) = {}
  <1>1. \A c \in plan[p], k \in plan[q] : May(c) \cap May(k) = {}
    BY DEF GateRegime
  <1>2. QED
    BY <1>1 DEF Mine

LEMMA MineStays ==
  ASSUME UNCHANGED plan
  PROVE  \A p : Mine(p)' = Mine(p)
  BY DEF Mine

\* A step that touches no frame but p's.
OthersStand(p) ==
  \A q \in Callers \ {p} :
    /\ pc'[q] = pc[q] /\ call'[q] = call[q] /\ todo'[q] = todo[q]
    /\ msg'[q] = msg[q] /\ seen'[q] = seen[q]

LEMMA OthersOrderly ==
  ASSUME GateInv, NEW p \in Callers, OthersStand(p), UNCHANGED <<retained, declared, plan, connection>>,
         genSeen => genSeen', Orderly(p)'
  PROVE  \A q \in Callers : Orderly(q)'
  <1>1. SUFFICES ASSUME NEW q \in Callers, q # p PROVE Orderly(q)'
    OBVIOUS
  <1>2. Orderly(q)
    BY DEF GateInv
  <1>3. pc'[q] = pc[q] /\ call'[q] = call[q] /\ todo'[q] = todo[q] /\ msg'[q] = msg[q] /\ seen'[q] = seen[q]
    BY <1>1 DEF OthersStand
  <1>4. Attributed(q)'
    BY <1>2, <1>3, MineStays DEF Orderly, Attributed, Sending
  <1>5. Faithful(q)'
    BY <1>2, <1>3 DEF Orderly, Faithful, Sending
  <1>6. Current(q)'
    BY <1>2, <1>3 DEF Orderly, Current, Sending
  <1>7. QED
    BY <1>4, <1>5, <1>6 DEF Orderly

\* A step of p's own, with nothing applied, that leaves the tree and the gate alone.
Quietly(p) ==
  /\ UNCHANGED <<retained, wire, connection, declared, gated, gen, genSeen, plan>>
  /\ pc[p] # "applied" /\ OthersStand(p)

FramesTyped ==
  /\ pc = [p \in Callers |-> pc[p]] /\ call = [p \in Callers |-> call[p]]
  /\ todo = [p \in Callers |-> todo[p]] /\ msg = [p \in Callers |-> msg[p]]
  /\ seen \in [Callers -> Nat]

LEMMA QuietStep ==
  ASSUME GateInv, NEW p \in Callers, Quietly(p), FramesTyped', Orderly(p)'
  PROVE  GateInv'
  <1>1. \A q \in Callers : Orderly(q)'
    BY OthersOrderly DEF Quietly
  <1>2. GateTyped'
    BY DEF GateInv, GateTyped, FramesTyped, Quietly
  <1>3. Dated'
    BY DEF GateInv, Dated, Quietly
  <1>4. Described'
    <2>1. SUFFICES ASSUME NEW t \in gated, Generational => gen = connection,
                          ~\E q \in Callers : pc'[q] = "applied" /\ msg'[q].topic = t
                   PROVE  retained[t] = declared[t]
      BY DEF Described, Quietly
    <2>2. \A q \in Callers : ~(pc[q] = "applied" /\ msg[q].topic = t)
      BY <2>1 DEF Quietly, OthersStand
    <2>3. QED
      BY <2>1, <2>2 DEF GateInv, Described
  <1>5. QED
    BY <1>1, <1>2, <1>3, <1>4 DEF GateInv

LEMMA GateEntries ==
  \A op : /\ Entry(op) \in {"keep", "gate"} => op \in Forms
          /\ AfterCheck(op) \in {"keep", "gate"} => op \in Forms
          /\ Entry(op) = "copy" \/ AfterCheck(op) = "copy" => op = "republish"
          /\ Entry(op) \in {"pubGate", "announce"} \/ AfterCheck(op) \in {"pubGate", "announce"} => op = "publish"
          /\ Entry(op) \notin {"sent", "applied", "announce"} /\ AfterCheck(op) \notin {"sent", "applied", "announce"}
          /\ Generational => Entry(op) # "pubGate"
  BY RuntimeAssumption DEF Entry, AfterCheck, Forms

\* The frame of a method that returned.
LEMMA ReturnsOrderly ==
  ASSUME GateTyped, NEW p \in Callers, Return(p), connection' \in Nat
  PROVE  FramesTyped' /\ OthersStand(p) /\ Orderly(p)'
  <1>1. /\ pc'[p] = "idle" /\ call'[p] = NoCall /\ todo'[p] = {} /\ seen'[p] = 0
        /\ OthersStand(p) /\ FramesTyped'
    BY DEF GateTyped, Return, Go, OthersStand, FramesTyped
  <1>2. Attributed(p)'
    BY <1>1 DEF Attributed, NoCall, May, Forms, Sending
  <1>3. Faithful(p)' /\ Current(p)'
    BY <1>1 DEF Faithful, Current, NoCall, Sending
  <1>4. QED
    BY <1>1, <1>2, <1>3 DEF Orderly

\* Handing a message over.
LEMMA SendsOrderly ==
  ASSUME GateInv, NEW p \in Callers, NEW m, Send(p, m), UNCHANGED <<call, seen, plan, declared, connection, genSeen>>,
         m.topic \in Mine(p),
         call[p].op = "publish" => m.topic = call[p].topic /\ m.body = call[p].body /\ (Generational => genSeen),
         call[p].op # "publish" => m \in todo[p]
  PROVE  FramesTyped' /\ OthersStand(p) /\ Orderly(p)'
  <1>1. /\ pc'[p] = "sent" /\ msg'[p] = m /\ todo'[p] = todo[p] \ {m} /\ call'[p] = call[p] /\ seen'[p] = seen[p]
        /\ OthersStand(p) /\ FramesTyped'
    BY DEF GateInv, GateTyped, Send, Go, OthersStand, FramesTyped
  <1>2. Attributed(p)'
    BY <1>1, MineStays DEF GateInv, Orderly, Attributed, Sending
  <1>3. Faithful(p)'
    BY <1>1 DEF GateInv, Orderly, Faithful, Sending
  <1>4. Current(p)'
    BY <1>1 DEF GateInv, Orderly, Current, Sending
  <1>5. QED
    BY <1>1, <1>2, <1>3, <1>4 DEF Orderly

\* Going on elsewhere in a method, with fewer messages left, or ones of its own.
LEMMA GoesOrderly ==
  ASSUME GateInv, NEW p \in Callers, NEW l, pc' = [pc EXCEPT ![p] = l], NEW T, todo' = [todo EXCEPT ![p] = T],
         UNCHANGED <<call, msg, plan, declared, connection>>, genSeen => genSeen',
         seen' \in [Callers -> Nat], seen'[p] <= connection, \A q \in Callers \ {p} : seen'[q] = seen[q],
         l \notin {"sent", "applied", "copy", "keep", "announce"},
         l = "gate" => call[p].op \in Forms,
         l = "pubGate" => call[p].op = "publish" /\ (Generational => genSeen'),
         \A m \in T : m.topic \in Mine(p), call[p].op = "republish" => \A m \in T : declared[m.topic] = m.body,
         call[p].op \notin {"publish", "republish"} => \A m \in T : m.body = Empty
  PROVE  FramesTyped' /\ OthersStand(p) /\ Orderly(p)'
  <1>1. /\ pc'[p] = l /\ todo'[p] = T /\ call'[p] = call[p]
        /\ OthersStand(p) /\ FramesTyped'
    BY DEF GateInv, GateTyped, OthersStand, FramesTyped
  <1>2. Attributed(p)'
    BY <1>1, MineStays DEF GateInv, Orderly, Attributed, Sending
  <1>3. Faithful(p)'
    BY <1>1 DEF GateInv, Orderly, Faithful, Sending
  <1>4. Current(p)'
    BY <1>1 DEF GateInv, Orderly, Current, Sending
  <1>5. QED
    BY <1>1, <1>2, <1>3, <1>4 DEF Orderly

\* The steps of a method that leave the tree and the gate alone.
LEMMA WalksKeepGate ==
  ASSUME GateRegime, GateInv, NEW p \in Callers,
         \/ Begin(p) \/ ReadGeneration(p) \/ KeepWithheld(p) \/ FormGate(p) \/ Observe(p)
         \/ SupersedeStep(p) \/ SupersedeEnds(p) \/ PublishGate(p) \/ Announce(p) \/ CopyDeclared(p) \/ WalkStep(p)
         \/ TakeSlot(p) \/ CloseWindow(p) \/ SweepStep(p) \/ WalkEnds(p)
         \/ Collect(p) \/ SnapshotRefused(p) \/ Cancel(p) \/ Refused(p)
  PROVE  GateInv'
  <1>0. /\ GateTyped /\ Attributed(p) /\ Faithful(p) /\ Current(p) /\ plan \in Plans
        /\ Mine(p)' = Mine(p) \/ plan' # plan
    BY MineStays DEF GateInv, Orderly, GateTyped
  <1>1. ASSUME Quietly(p), FramesTyped', Orderly(p)' PROVE GateInv'
    BY <1>1, QuietStep
  <1> DEFINE Around == /\ UNCHANGED <<retained, wire, connection, declared, gated, gen, genSeen, plan>>
                       /\ pc[p] # "applied"
  <1>2. ASSUME Around, Return(p) PROVE GateInv'
    <2>1. connection' \in Nat
      BY <1>0, <1>2 DEF GateTyped
    <2>2. FramesTyped' /\ OthersStand(p) /\ Orderly(p)'
      BY <1>0, <1>2, <2>1, ReturnsOrderly
    <2>3. QED
      BY <1>1, <1>2, <2>2 DEF Quietly
  <1>3. CASE Begin(p)
    <2>1. PICK c \in plan[p] : /\ c.op # "reset" /\ call' = [call EXCEPT ![p] = c] /\ Go(p, Entry(c.op))
                               /\ todo' = [todo EXCEPT ![p] = IF c.op = "retract" THEN Clears(c.scope) ELSE {}]
      BY <1>3 DEF Begin
    <2>2. Around /\ UNCHANGED <<msg, seen>>
      BY <1>3 DEF Begin, broker, gates, memos
    <2>3. /\ pc'[p] = Entry(c.op) /\ call'[p] = c /\ seen'[p] = seen[p]
          /\ todo'[p] = (IF c.op = "retract" THEN Clears(c.scope) ELSE {})
          /\ OthersStand(p) /\ FramesTyped'
      BY <1>0, <2>1, <2>2 DEF Go, GateTyped, OthersStand, FramesTyped
    <2>4. May(c) \subseteq Mine(p)
      BY DEF Mine
    <2>5. \A m \in todo'[p] : m.topic \in Mine(p)
      <3>1. c.op = "retract" => May(c) = c.scope
        BY DEF May, Forms
      <3>2. QED
        BY <2>3, <2>4, <3>1 DEF Clears
    <2>6. Attributed(p)'
      BY <2>2, <2>3, <2>4, <2>5, MineStays, GateEntries DEF Attributed, Sending
    <2>7. Faithful(p)'
      <3>1. \A m \in todo'[p] : m.body = Empty
        BY <2>3 DEF Clears
      <3>2. call'[p].op = "republish" => todo'[p] = {}
        BY <2>3
      <3>3. pc'[p] \notin {"sent", "applied"}
        BY <2>3, GateEntries
      <3>4. QED
        BY <3>1, <3>2, <3>3 DEF Faithful, Sending
    <2>8. Current(p)'
      BY <1>0, <2>2, <2>3, GateEntries DEF Current, Sending
    <2>9. QED
      BY <1>1, <2>2, <2>3, <2>6, <2>7, <2>8 DEF Quietly, Orderly
  <1>4. CASE ReadGeneration(p)
    <2>1. Around
      BY <1>4 DEF ReadGeneration, broker, gates, memos
    <2>2. /\ pc'[p] = "syncGen" /\ UNCHANGED <<call, todo, msg>> /\ seen'[p] = connection
          /\ OthersStand(p) /\ FramesTyped'
      BY <1>0, <1>4 DEF ReadGeneration, Go, GateTyped, OthersStand, FramesTyped
    <2>3. Attributed(p)'
      BY <1>0, <2>1, <2>2, MineStays DEF Attributed, Sending
    <2>4. Faithful(p)'
      BY <1>0, <2>1, <2>2 DEF Faithful, Sending
    <2>5. Current(p)'
      BY <1>0, <2>1, <2>2 DEF GateTyped, Current, Sending
    <2>6. QED
      BY <1>1, <2>1, <2>2, <2>3, <2>4, <2>5 DEF Quietly, Orderly
  <1>5. ASSUME Around, UNCHANGED <<call, msg, seen>>, NEW l, pc' = [pc EXCEPT ![p] = l],
               NEW T, todo' = [todo EXCEPT ![p] = T], \A m \in T : m.topic \in Mine(p),
               call[p].op = "republish" => \A m \in T : declared[m.topic] = m.body,
               call[p].op \notin {"publish", "republish"} => \A m \in T : m.body = Empty,
               l \in {"idle", "gate", "observe", "slot", "window", "work"}, l = "gate" => call[p].op \in Forms
        PROVE  GateInv'
    <2>1. seen' \in [Callers -> Nat] /\ seen'[p] <= connection /\ \A q \in Callers \ {p} : seen'[q] = seen[q]
      BY <1>0, <1>5 DEF GateTyped, Current
    <2>2. FramesTyped' /\ OthersStand(p) /\ Orderly(p)'
      BY <1>5, <2>1, GoesOrderly
    <2>3. QED
      BY <1>1, <1>5, <2>2 DEF Quietly
  <1>6. ASSUME Around, UNCHANGED <<call, todo, msg, seen>>, NEW l, pc' = [pc EXCEPT ![p] = l],
               l \in {"gate", "observe", "slot", "window", "work"}, l = "gate" => call[p].op \in Forms
        PROVE  GateInv'
    <2>1. todo' = [todo EXCEPT ![p] = todo[p]]
      BY <1>0, <1>6 DEF GateTyped
    <2>2. \A m \in todo[p] : m.topic \in Mine(p)
      BY <1>0 DEF Attributed
    <2>3. call[p].op = "republish" => \A m \in todo[p] : declared[m.topic] = m.body
      BY <1>0 DEF Faithful
    <2>4. call[p].op \notin {"publish", "republish"} => \A m \in todo[p] : m.body = Empty
      BY <1>0 DEF Faithful
    <2>5. QED
      BY <1>5, <1>6, <2>1, <2>2, <2>3, <2>4
  <1>7. ASSUME Around, UNCHANGED <<pc, call, msg, seen>>, NEW T, todo' = [todo EXCEPT ![p] = T],
               \A m \in T : m.topic \in Mine(p) /\ m.body = Empty, call[p].op # "republish"
        PROVE  GateInv'
    <2>1. OthersStand(p) /\ FramesTyped' /\ todo'[p] = T /\ pc'[p] = pc[p] /\ call'[p] = call[p] /\ msg'[p] = msg[p] /\ seen'[p] = seen[p]
      BY <1>0, <1>7 DEF GateTyped, OthersStand, FramesTyped
    <2>2. Attributed(p)'
      BY <1>0, <1>7, <2>1, MineStays DEF Attributed, Sending
    <2>3. Faithful(p)'
      BY <1>0, <1>7, <2>1 DEF Faithful, Sending
    <2>4. Current(p)'
      BY <1>0, <1>7, <2>1 DEF Current, Sending
    <2>5. QED
      BY <1>1, <1>7, <2>1, <2>2, <2>3, <2>4 DEF Quietly, Orderly
  <1>8. ASSUME Around, UNCHANGED <<call, seen>>, NEW m, Send(p, m), m.topic \in Mine(p),
               call[p].op = "publish" => m.topic = call[p].topic /\ m.body = call[p].body /\ (Generational => genSeen),
               call[p].op # "publish" => m \in todo[p]
        PROVE  GateInv'
    BY <1>1, <1>8, SendsOrderly DEF Quietly
  <1>9. CASE KeepWithheld(p)
    <2>1. call[p].op \in Forms
      BY <1>0, <1>9 DEF KeepWithheld, Attributed
    <2>2. Around /\ UNCHANGED <<call, todo, msg, seen>> /\ pc' = [pc EXCEPT ![p] = "gate"]
      BY <1>9 DEF KeepWithheld, Go, broker, memos
    <2>3. QED
      BY <1>6, <2>1, <2>2
  <1>10. CASE FormGate(p)
    <2>1. Around
      BY <1>10 DEF FormGate, broker, gates, memos
    <2>2. CASE Return(p)
      BY <1>2, <2>1, <2>2
    <2>3. CASE ~Return(p)
      <3>1. /\ todo' = [todo EXCEPT ![p] = Clears(Replaced(call[p].topic, call[p].body))]
            /\ pc' = [pc EXCEPT ![p] = IF SupersedeObserved THEN "observe" ELSE "work"]
            /\ UNCHANGED <<call, msg, seen>>
        BY <1>10, <2>3 DEF FormGate, Go
      <3>2. call[p].op \in Forms
        BY <1>0, <1>10 DEF FormGate, Attributed
      <3>3. Replaced(call[p].topic, call[p].body) \subseteq Mine(p)
        BY <1>0, <3>2 DEF Attributed, May, Forms
      <3>4. \A m \in Clears(Replaced(call[p].topic, call[p].body)) : m.topic \in Mine(p)
        BY <3>3 DEF Clears
      <3>5. PICK l \in {"observe", "work"} : pc' = [pc EXCEPT ![p] = l]
        BY <3>1
      <3>6. call[p].op # "republish"
        BY <3>2 DEF Forms
      <3>7. \A m \in Clears(Replaced(call[p].topic, call[p].body)) : m.body = Empty
        BY DEF Clears
      <3>8. QED
        BY <1>5, <2>1, <3>1, <3>4, <3>5, <3>6, <3>7
    <2>4. QED
      BY <2>2, <2>3
  <1>11. CASE Observe(p)
    <2>1. Around /\ UNCHANGED <<call, todo, msg, seen>>
      BY <1>11 DEF Observe, broker, gates, memos
    <2>2. PICK l \in {"work", "slot"} : pc' = [pc EXCEPT ![p] = l]
      BY <1>11 DEF Observe, Go
    <2>3. QED
      BY <1>6, <2>1, <2>2
  <1>12. CASE SupersedeStep(p)
    <2>1. PICK m \in todo[p] : \/ todo' = [todo EXCEPT ![p] = @ \ {m}] /\ UNCHANGED <<pc, msg>>
                               \/ Send(p, m)
      BY <1>12 DEF SupersedeStep
    <2>2. Around /\ UNCHANGED <<call, seen>> /\ call[p].op \notin {"republish", "publish"}
      BY <1>12 DEF SupersedeStep, broker, memos, Forms
    <2>3. m.topic \in Mine(p) /\ \A n \in todo[p] \ {m} : n.topic \in Mine(p) /\ n.body = Empty
      BY <1>0, <2>2 DEF Attributed, Faithful
    <2>4. CASE Send(p, m)
      BY <1>8, <2>2, <2>3, <2>4
    <2>5. CASE todo' = [todo EXCEPT ![p] = todo[p] \ {m}] /\ UNCHANGED <<pc, msg>>
      BY <1>7, <2>2, <2>3, <2>5
    <2>6. QED
      BY <2>1, <2>4, <2>5
  <1>13. CASE SupersedeEnds(p)
    <2>1. /\ call[p].op \in Forms /\ pc' = [pc EXCEPT ![p] = Entry("publish")] /\ UNCHANGED <<todo, msg>>
          /\ call' = [call EXCEPT ![p] = [op |-> "publish", topic |-> call[p].topic, body |-> call[p].body, scope |-> {}]]
          /\ seen' = [seen EXCEPT ![p] = 0] /\ todo[p] = {}
      BY <1>13 DEF SupersedeEnds, Go
    <2>2. Around
      BY <1>13 DEF SupersedeEnds, broker, gates, memos
    <2>3. /\ pc'[p] = Entry("publish") /\ call'[p].op = "publish" /\ call'[p].topic = call[p].topic /\ seen'[p] = 0 /\ todo'[p] = {}
          /\ OthersStand(p) /\ FramesTyped'
      BY <1>0, <2>1 DEF GateTyped, OthersStand, FramesTyped
    <2>4. May(call'[p]) \subseteq Mine(p)
      BY <1>0, <2>1, <2>3 DEF Attributed, May, Forms
    <2>5. (May(call[p]))' = May(call'[p])
      BY DEF May, Replaced
    <2>6. Attributed(p)'
      BY <2>2, <2>3, <2>4, <2>5, MineStays, GateEntries DEF Attributed, Sending
    <2>7. Faithful(p)'
      BY <2>3, GateEntries DEF Faithful, Sending
    <2>8. Current(p)'
      BY <1>0, <2>2, <2>3, GateEntries DEF Current, Sending, GateTyped
    <2>9. QED
      BY <1>1, <2>2, <2>3, <2>6, <2>7, <2>8 DEF Quietly, Orderly
  <1>14. CASE PublishGate(p)
    <2>1. Around
      BY <1>14 DEF PublishGate, broker, gates, memos
    <2>2. CASE Return(p)
      BY <1>2, <2>1, <2>2
    <2>3. call[p].op = "publish" /\ call[p].topic \in Mine(p) /\ (Generational => genSeen)
      BY <1>0, <1>14 DEF PublishGate, Attributed, Current, May, Forms
    <2>4. CASE Go(p, "announce") /\ UNCHANGED <<call, todo, msg, seen>>
      <3>1. pc'[p] = "announce" /\ OthersStand(p) /\ FramesTyped' /\ UNCHANGED <<call, todo, msg, seen>>
        BY <1>0, <2>4 DEF Go, GateTyped, OthersStand, FramesTyped
      <3>2. Attributed(p)'
        BY <1>0, <2>1, <2>3, <3>1, MineStays DEF Attributed, Sending
      <3>3. Faithful(p)' /\ Current(p)'
        BY <1>0, <2>1, <2>3, <3>1 DEF Faithful, Current, Sending
      <3>4. QED
        BY <1>1, <2>1, <3>1, <3>2, <3>3 DEF Quietly, Orderly
    <2>5. ASSUME NEW m, m = [topic |-> call[p].topic, body |-> call[p].body], Send(p, m), UNCHANGED <<call, seen>>
          PROVE  GateInv'
      <3>1. m.topic = call[p].topic /\ m.body = call[p].body
        BY <2>5
      <3>2. QED
        BY <1>8, <2>1, <2>3, <2>5, <3>1
    <2>6. QED
      BY <1>14, <2>2, <2>4, <2>5 DEF PublishGate
  <1>15. CASE Announce(p)
    <2>1. Around /\ UNCHANGED <<call, seen>>
      BY <1>15 DEF Announce, broker, memos
    <2>2. call[p].op = "publish" /\ call[p].topic \in Mine(p) /\ (Generational => genSeen)
      BY <1>0, <1>15 DEF Announce, Attributed, Current, May, Forms
    <2>3. PICK m : m = [topic |-> call[p].topic, body |-> call[p].body] /\ Send(p, m)
      BY <1>15 DEF Announce
    <2>4. m.topic = call[p].topic /\ m.body = call[p].body
      BY <2>3
    <2>5. QED
      BY <1>8, <2>1, <2>2, <2>3, <2>4
  <1>16. CASE CopyDeclared(p)
    <2>1. PICK T : /\ T = {[topic |-> t, body |-> declared[t]] : t \in {u \in Topics : declared[u] # Empty}}
                   /\ todo' = [todo EXCEPT ![p] = T] /\ pc' = [pc EXCEPT ![p] = "work"]
      BY <1>16 DEF CopyDeclared, Go
    <2>2. Around /\ UNCHANGED <<call, msg, seen>>
      BY <1>16 DEF CopyDeclared, broker, gates, memos
    <2>3. Topics \subseteq Mine(p)
      BY <1>0, <1>16 DEF CopyDeclared, Attributed, May
    <2>4. \A m \in T : m.topic \in Topics /\ declared[m.topic] = m.body
      BY <2>1
    <2>5. \A m \in T : m.topic \in Mine(p)
      BY <2>3, <2>4
    <2>6. call[p].op = "republish" => \A m \in T : declared[m.topic] = m.body
      BY <2>4
    <2>7. PICK l \in {"work"} : pc' = [pc EXCEPT ![p] = l]
      BY <2>1
    <2>8. todo' = [todo EXCEPT ![p] = T]
      BY <2>1
    <2>9. call[p].op = "republish"
      BY <1>0, <1>16 DEF CopyDeclared, Attributed
    <2>10. QED
      BY <1>5, <2>2, <2>5, <2>6, <2>7, <2>8, <2>9
  <1>17. CASE WalkStep(p)
    <2>1. PICK m \in todo[p] : Send(p, m)
      BY <1>17 DEF WalkStep
    <2>2. Around /\ UNCHANGED <<call, seen>> /\ call[p].op # "publish"
      BY <1>17 DEF WalkStep, broker, gates, memos
    <2>3. m.topic \in Mine(p)
      BY <1>0 DEF Attributed
    <2>4. QED
      BY <1>8, <2>1, <2>2, <2>3
  <1>18. CASE TakeSlot(p)
    <2>1. Around /\ UNCHANGED <<call, todo, msg, seen>>
      BY <1>18 DEF TakeSlot, broker, gates, memos
    <2>2. PICK l \in {"work", "window"} : pc' = [pc EXCEPT ![p] = l]
      BY <1>18 DEF TakeSlot, Go
    <2>3. QED
      BY <1>6, <2>1, <2>2
  <1>19. CASE CloseWindow(p)
    <2>1. Around
      BY <1>19 DEF CloseWindow, broker, gates
    <2>2. Return(p) \/ (pc' = [pc EXCEPT ![p] = "work"] /\ UNCHANGED <<call, todo, msg, seen>>)
      BY <1>19 DEF CloseWindow, Go
    <2>3. QED
      BY <1>2, <1>6, <2>1, <2>2
  <1>20. CASE SweepStep(p)
    <2>1. PICK m \in todo[p] : \/ todo' = [todo EXCEPT ![p] = @ \ {m}] /\ UNCHANGED <<pc, msg>>
                               \/ Send(p, m)
      BY <1>20 DEF SweepStep
    <2>2. Around /\ UNCHANGED <<call, seen>> /\ call[p].op \notin {"republish", "publish"}
      BY <1>20 DEF SweepStep, broker, gates, memos, Sweeps
    <2>3. m.topic \in Mine(p) /\ \A n \in todo[p] \ {m} : n.topic \in Mine(p) /\ n.body = Empty
      BY <1>0, <2>2 DEF Attributed, Faithful
    <2>4. CASE Send(p, m)
      BY <1>8, <2>2, <2>3, <2>4
    <2>5. CASE todo' = [todo EXCEPT ![p] = todo[p] \ {m}] /\ UNCHANGED <<pc, msg>>
      BY <1>7, <2>2, <2>3, <2>5
    <2>6. QED
      BY <2>1, <2>4, <2>5
  <1>21. CASE WalkEnds(p) \/ Cancel(p)
    <2>1. Around /\ Return(p)
      BY <1>21 DEF WalkEnds, Cancel, broker, gates, memos
    <2>2. QED
      BY <1>2, <2>1
  <1>22. CASE Collect(p)
    <2>1. PICK t \in Topics : /\ Collectable(p, t)
                              /\ todo' = IF call[p].op \in Sweeps /\ ~Claims(t)
                                         THEN [todo EXCEPT ![p] = @ \cup Clears({t})] ELSE todo
      BY <1>22 DEF Collect
    <2>2. Around /\ UNCHANGED <<pc, call, msg, seen>>
      BY <1>22 DEF Collect, broker, gates, memos
    <2>3. CASE call[p].op \in Sweeps /\ ~Claims(t)
      <3>1. t \in call[p].scope /\ call[p].op # "republish"
        BY <2>1, <2>3 DEF Collectable, Owned, Sweeps
      <3>2. t \in Mine(p)
        BY <1>0, <2>3, <3>1 DEF Attributed, May, Sweeps, Forms
      <3>3. \A m \in todo[p] \cup Clears({t}) : m.topic \in Mine(p) /\ m.body = Empty
        BY <1>0, <2>3, <3>2 DEF Attributed, Faithful, Clears, Sweeps
      <3>4. todo' = [todo EXCEPT ![p] = todo[p] \cup Clears({t})]
        BY <2>1, <2>3
      <3>5. QED
        BY <1>7, <2>2, <3>1, <3>3, <3>4
    <2>4. CASE ~(call[p].op \in Sweeps /\ ~Claims(t))
      <3>1. UNCHANGED todo
        BY <2>1, <2>4
      <3>2. OthersStand(p) /\ FramesTyped'
        BY <1>0, <2>2, <3>1 DEF GateTyped, OthersStand, FramesTyped
      <3>3. Attributed(p)' /\ Faithful(p)' /\ Current(p)'
        BY <1>0, <2>2, <3>1, MineStays DEF Attributed, Faithful, Current, Sending
      <3>4. QED
        BY <1>1, <2>2, <3>2, <3>3 DEF Quietly, Orderly
    <2>5. QED
      BY <2>3, <2>4
  <1>23. CASE SnapshotRefused(p)
    <2>1. Around
      BY <1>23 DEF SnapshotRefused, broker, gates, memos
    <2>2. Return(p) \/ (pc' = [pc EXCEPT ![p] = "work"] /\ UNCHANGED <<call, todo, msg, seen>>)
      BY <1>23 DEF SnapshotRefused, Go
    <2>3. QED
      BY <1>2, <1>6, <2>1, <2>2
  <1>24. CASE Refused(p)
    <2>1. Around
      BY <1>24 DEF Refused, GateRegime, broker, memos
    <2>2. CASE Return(p)
      BY <1>2, <2>1, <2>2
    <2>3. CASE Go(p, "work") /\ msg' = [msg EXCEPT ![p] = NoMessage] /\ UNCHANGED <<call, todo, seen>>
      <3>1. /\ pc'[p] = "work" /\ OthersStand(p) /\ FramesTyped' /\ UNCHANGED <<call, todo, seen>>
        BY <1>0, <2>3 DEF Go, GateTyped, OthersStand, FramesTyped
      <3>2. Attributed(p)' /\ Faithful(p)' /\ Current(p)'
        BY <1>0, <2>1, <3>1, MineStays DEF Attributed, Faithful, Current, Sending
      <3>3. QED
        BY <1>1, <2>1, <3>1, <3>2 DEF Quietly, Orderly
    <2>4. QED
      BY <1>24, <2>2, <2>3 DEF Refused
  <1>25. QED
    BY <1>3, <1>4, <1>9, <1>10, <1>11, <1>12, <1>13, <1>14, <1>15, <1>16, <1>17, <1>18, <1>19, <1>20, <1>21, <1>22,
       <1>23, <1>24

\* A step of p's that leaves connection and tree alone keeps the others in order, if what
\* it declares is a topic of its own.
LEMMA OthersUnmoved ==
  ASSUME GateRegime, GateInv, NEW p \in Callers, OthersStand(p), UNCHANGED <<plan, connection>>, genSeen => genSeen',
         NEW t \in Mine(p), \A u \in Topics \ {t} : declared'[u] = declared[u] /\ retained'[u] = retained[u],
         Orderly(p)'
  PROVE  \A q \in Callers : Orderly(q)'
  <1>1. SUFFICES ASSUME NEW q \in Callers, q # p PROVE Orderly(q)'
    OBVIOUS
  <1>2. Attributed(q) /\ Faithful(q) /\ Current(q) /\ plan \in Plans
    BY DEF GateInv, Orderly, GateTyped
  <1>3. pc'[q] = pc[q] /\ call'[q] = call[q] /\ todo'[q] = todo[q] /\ msg'[q] = msg[q] /\ seen'[q] = seen[q]
    BY <1>1 DEF OthersStand
  <1>4. \A u \in Mine(q) : declared'[u] = declared[u] /\ retained'[u] = retained[u]
    BY <1>1, <1>2, MineApart, MineTopics
  <1>5. Attributed(q)'
    BY <1>2, <1>3, MineStays DEF Attributed, Sending
  <1>6. Faithful(q)'
    BY <1>2, <1>3, <1>4 DEF Attributed, Faithful, Sending
  <1>7. Current(q)'
    BY <1>2, <1>3 DEF Current, Sending
  <1>8. QED
    BY <1>5, <1>6, <1>7 DEF Orderly

\* The answer to a write is taken down.
LEMMA AnswerKeepsGate ==
  ASSUME GateRegime, GateInv, NEW p \in Callers, pc[p] = "applied",
         declared' = [declared EXCEPT ![msg[p].topic] = msg[p].body], gated' \subseteq gated \cup {msg[p].topic},
         UNCHANGED <<retained, wire, connection, gen, genSeen, plan>>,
         OthersStand(p), FramesTyped', Orderly(p)', pc'[p] # "applied",
         Generational /\ gated' # {} => genSeen
  PROVE  GateInv'
  <1>1. /\ msg[p].topic \in Mine(p) /\ msg[p].topic \in Topics
        /\ retained[msg[p].topic] = msg[p].body
    <2>1. Attributed(p) /\ Faithful(p) /\ plan \in Plans
      BY DEF GateInv, Orderly, GateTyped
    <2>2. QED
      BY <2>1, MineTopics DEF Attributed, Faithful, Sending
  <1>2. declared = [t \in Topics |-> declared[t]]
    BY DEF GateInv, GateTyped
  <1>3. \A u \in Topics \ {msg[p].topic} : declared'[u] = declared[u] /\ retained'[u] = retained[u]
    BY <1>2
  <1>4. declared'[msg[p].topic] = msg[p].body
    BY <1>1, <1>2
  <1>5. \A q \in Callers : Orderly(q)'
    BY <1>1, <1>3, OthersUnmoved
  <1>6. GateTyped'
    BY <1>1 DEF GateInv, GateTyped, FramesTyped
  <1>7. Dated'
    BY DEF GateInv, Dated
  <1>8. Described'
    <2>1. SUFFICES ASSUME NEW t \in gated', Generational => gen = connection,
                          ~\E q \in Callers : pc'[q] = "applied" /\ msg'[q].topic = t
                   PROVE  retained[t] = declared'[t]
      BY DEF Described
    <2>2. CASE t = msg[p].topic
      BY <1>1, <1>4, <2>2
    <2>3. CASE t # msg[p].topic
      <3>1. t \in gated /\ t \in Topics
        BY <2>3 DEF GateInv, GateTyped
      <3>2. \A q \in Callers : ~(pc[q] = "applied" /\ msg[q].topic = t)
        BY <2>1, <2>3 DEF OthersStand
      <3>3. QED
        BY <1>3, <2>1, <2>3, <3>1, <3>2 DEF GateInv, Described
    <2>4. QED
      BY <2>2, <2>3
  <1>9. QED
    BY <1>5, <1>6, <1>7, <1>8 DEF GateInv

\* A walk that goes on after an answer.
LEMMA WalksOn ==
  ASSUME GateInv, NEW p \in Callers, Go(p, "work"), msg' = [msg EXCEPT ![p] = NoMessage],
         UNCHANGED <<call, todo, seen, plan, connection, genSeen>>,
         call[p].op # "publish", call[p].op = "republish" => UNCHANGED declared
  PROVE  FramesTyped' /\ OthersStand(p) /\ Orderly(p)' /\ pc'[p] # "applied"
  <1>1. Attributed(p) /\ Faithful(p) /\ Current(p)
    BY DEF GateInv, Orderly
  <1>2. pc'[p] = "work" /\ OthersStand(p) /\ FramesTyped'
    BY DEF GateInv, GateTyped, Go, OthersStand, FramesTyped
  <1>3. Attributed(p)'
    BY <1>1, <1>2, MineStays DEF Attributed, Sending
  <1>4. Faithful(p)'
    BY <1>1, <1>2 DEF Faithful, Sending
  <1>5. Current(p)'
    BY <1>1, <1>2 DEF Current, Sending
  <1>6. QED
    BY <1>2, <1>3, <1>4, <1>5 DEF Orderly

LEMMA AnswersKeepGate ==
  ASSUME GateRegime, GateInv, NEW p \in Callers,
         \/ SupersedeAnswered(p) \/ PublishAnswered(p) \/ RetractAnswered(p) \/ RepublishAnswered(p) \/ SweepAnswered(p)
  PROVE  GateInv'
  <1>0. /\ GateTyped /\ Attributed(p) /\ Faithful(p) /\ Current(p) /\ plan \in Plans /\ Dated
        /\ declared = [t \in Topics |-> declared[t]] /\ gated \subseteq Topics
        /\ pc[p] = "applied" => msg[p].topic \in Topics
    <2>1. plan \in Plans /\ Attributed(p)
      BY DEF GateInv, GateTyped, Orderly
    <2>2. pc[p] = "applied" => msg[p].topic \in Topics
      BY <2>1, MineTopics DEF Attributed, Sending
    <2>3. QED
      BY <2>1, <2>2 DEF GateInv, Orderly, GateTyped
  <1>1. ASSUME pc[p] = "applied", UNCHANGED <<retained, wire, connection, gen, genSeen, plan>>,
               call[p].op # "publish", gated' \subseteq gated, Go(p, "work"), msg' = [msg EXCEPT ![p] = NoMessage],
               UNCHANGED <<call, todo, seen>>, declared' = [declared EXCEPT ![msg[p].topic] = msg[p].body],
               call[p].op = "republish" => UNCHANGED declared
        PROVE  GateInv'
    <2>1. FramesTyped' /\ OthersStand(p) /\ Orderly(p)' /\ pc'[p] # "applied"
      BY <1>1, WalksOn
    <2>2. Generational /\ gated' # {} => genSeen
      BY <1>0, <1>1 DEF Dated
    <2>3. gated' \subseteq gated \cup {msg[p].topic}
      BY <1>1
    <2>4. QED
      BY <1>1, <2>1, <2>2, <2>3, AnswerKeepsGate
  <1>2. CASE PublishAnswered(p)
    <2>1. /\ pc[p] = "applied" /\ Return(p) /\ msg[p].topic = call[p].topic /\ msg[p].body = call[p].body
          /\ (Generational => genSeen)
      BY <1>0, <1>2 DEF PublishAnswered, Faithful, Current, Sending
    <2>2. UNCHANGED <<retained, wire, connection, gen, genSeen, plan>>
      BY <1>2 DEF PublishAnswered, broker, memos
    <2>3. connection' \in Nat
      BY <1>0, <2>2 DEF GateTyped
    <2>4. FramesTyped' /\ OthersStand(p) /\ Orderly(p)'
      BY <1>0, <2>1, <2>3, ReturnsOrderly
    <2>5. pc'[p] # "applied"
      BY <1>0, <2>1 DEF GateTyped, Return, Go
    <2>6. declared' = [declared EXCEPT ![msg[p].topic] = msg[p].body]
      BY <1>2, <2>1 DEF PublishAnswered
    <2>7. gated' \subseteq gated \cup {msg[p].topic}
      BY <1>2, <2>1 DEF PublishAnswered
    <2>8. QED
      BY <2>1, <2>2, <2>4, <2>5, <2>6, <2>7, AnswerKeepsGate
  <1>3. CASE RepublishAnswered(p)
    <2>1. /\ pc[p] = "applied" /\ Go(p, "work") /\ msg' = [msg EXCEPT ![p] = NoMessage] /\ call[p].op = "republish"
          /\ UNCHANGED <<retained, wire, connection, gen, genSeen, plan, call, todo, seen, declared, gated>>
      BY <1>3 DEF RepublishAnswered, broker, gates, memos
    <2>2. declared[msg[p].topic] = msg[p].body
      BY <1>0, <2>1 DEF Faithful, Sending
    <2>3. declared' = [declared EXCEPT ![msg[p].topic] = msg[p].body]
      BY <1>0, <2>1, <2>2
    <2>4. QED
      BY <1>1, <2>1, <2>3
  <1>4. ASSUME SupersedeAnswered(p) \/ RetractAnswered(p) \/ SweepAnswered(p)
        PROVE  /\ pc[p] = "applied" /\ Go(p, "work") /\ msg' = [msg EXCEPT ![p] = NoMessage]
               /\ call[p].op \notin {"publish", "republish"}
               /\ UNCHANGED <<retained, wire, connection, gen, genSeen, plan, call, todo, seen>>
               /\ gated' \subseteq gated /\ declared' = [declared EXCEPT ![msg[p].topic] = Empty]
    BY <1>4 DEF SupersedeAnswered, RetractAnswered, SweepAnswered, broker, memos, Forms, Sweeps
  <1>5. CASE SupersedeAnswered(p) \/ RetractAnswered(p) \/ SweepAnswered(p)
    <2>1. msg[p].body = Empty
      BY <1>0, <1>4, <1>5 DEF Faithful, Sending
    <2>2. QED
      BY <1>1, <1>4, <1>5, <2>1
  <1>6. QED
    BY <1>2, <1>3, <1>5

\* checkGeneration and Reset: a gate that outlives one is of the connection it named.
LEMMA ResetKeepsGate ==
  ASSUME GateInv, NEW p \in Callers, Reset(p)
  PROVE  GateInv'
  <1>1. /\ UNCHANGED <<retained, wire, connection, declared, gen, genSeen, plan, pc, call, todo, msg, seen>>
        /\ gated' = {}
    BY DEF Reset, Forget, broker, frames
  <1>2. GateTyped' /\ Dated' /\ Described'
    BY <1>1 DEF GateInv, GateTyped, Dated, Described
  <1>3. ASSUME NEW q \in Callers PROVE Orderly(q)'
    <2>1. Attributed(q) /\ Faithful(q) /\ Current(q)
      BY DEF GateInv, Orderly
    <2>2. Attributed(q)'
      BY <1>1, <2>1, MineStays DEF Attributed, Sending
    <2>3. Faithful(q)'
      BY <1>1, <2>1 DEF Faithful, Sending
    <2>4. Current(q)'
      BY <1>1, <2>1 DEF Current, Sending
    <2>5. QED
      BY <2>2, <2>3, <2>4 DEF Orderly
  <1>4. QED
    BY <1>2, <1>3 DEF GateInv

LEMMA SyncKeepsGate ==
  ASSUME GateInv, NEW p \in Callers, SyncGeneration(p)
  PROVE  GateInv'
  <1>0. GateTyped /\ Dated /\ Attributed(p) /\ Faithful(p) /\ Current(p)
    BY DEF GateInv, Orderly
  <1>1. /\ UNCHANGED <<retained, wire, connection, declared, plan, call, todo, msg, seen>>
        /\ gen' = seen[p] /\ genSeen' = TRUE /\ pc[p] = "syncGen"
        /\ pc' = [pc EXCEPT ![p] = AfterCheck(call[p].op)]
    BY DEF SyncGeneration, Go, broker
  <1>2. \/ gated' = {}
        \/ gated' = gated /\ ~(genSeen /\ gen # seen[p])
    BY DEF SyncGeneration, Forget
  <1>3. pc'[p] = AfterCheck(call[p].op) /\ OthersStand(p) /\ FramesTyped'
    BY <1>0, <1>1 DEF GateTyped, OthersStand, FramesTyped
  <1>4. Attributed(p)'
    BY <1>0, <1>1, <1>3, MineStays, GateEntries DEF Attributed, Sending
  <1>5. Faithful(p)'
    BY <1>0, <1>1, <1>3, GateEntries DEF Faithful, Sending
  <1>6. Current(p)'
    BY <1>0, <1>1 DEF Current
  <1>7. \A q \in Callers : Orderly(q)'
    BY <1>1, <1>3, <1>4, <1>5, <1>6, OthersOrderly DEF Orderly
  <1>8. GateTyped'
    BY <1>0, <1>1, <1>2, <1>3 DEF GateTyped, FramesTyped
  <1>9. Dated'
    BY <1>0, <1>1 DEF Dated, Current
  <1>10. Described'
    <2>1. SUFFICES ASSUME NEW t \in gated', Generational => gen' = connection,
                          ~\E q \in Callers : pc'[q] = "applied" /\ msg'[q].topic = t
                   PROVE  retained[t] = declared[t]
      BY <1>1 DEF Described
    <2>2. t \in gated /\ ~(genSeen /\ gen # seen[p])
      BY <1>2
    <2>3. Generational => gen = connection
      BY <1>0, <1>1, <2>1, <2>2 DEF Dated
    <2>4. \A q \in Callers : ~(pc[q] = "applied" /\ msg[q].topic = t)
      BY <1>1, <1>3, <2>1 DEF OthersStand
    <2>5. QED
      BY <2>2, <2>3, <2>4 DEF GateInv, Described
  <1>11. QED
    BY <1>7, <1>8, <1>9, <1>10 DEF GateInv

LEMMA BrokerKeepsGate ==
  ASSUME GateRegime, GateInv, NEW p \in Callers, BrokerApplies(p)
  PROVE  GateInv'
  <1>0. /\ GateTyped /\ Attributed(p) /\ Faithful(p) /\ Current(p) /\ plan \in Plans
        /\ retained = [t \in Topics |-> retained[t]]
    BY DEF GateInv, Orderly, GateTyped
  <1>1. /\ UNCHANGED <<wire, connection, declared, gated, gen, genSeen, plan, call, todo, msg, seen>>
        /\ retained' = [retained EXCEPT ![msg[p].topic] = msg[p].body]
        /\ pc[p] = "sent" /\ pc' = [pc EXCEPT ![p] = "applied"]
    BY DEF BrokerApplies, Go, gates, memos
  <1>2. msg[p].topic \in Mine(p) /\ msg[p].topic \in Topics
    BY <1>0, <1>1, MineTopics DEF Attributed, Sending
  <1>3. \A u \in Topics \ {msg[p].topic} : declared'[u] = declared[u] /\ retained'[u] = retained[u]
    BY <1>0, <1>1
  <1>4. retained'[msg[p].topic] = msg[p].body
    BY <1>0, <1>1, <1>2
  <1>5. pc'[p] = "applied" /\ OthersStand(p) /\ FramesTyped'
    BY <1>0, <1>1 DEF GateTyped, OthersStand, FramesTyped
  <1>6. Attributed(p)'
    BY <1>0, <1>1, <1>5, MineStays DEF Attributed, Sending
  <1>7. Faithful(p)'
    BY <1>0, <1>1, <1>4, <1>5 DEF Faithful, Sending
  <1>8. Current(p)'
    BY <1>0, <1>1, <1>5 DEF Current, Sending
  <1>9. \A q \in Callers : Orderly(q)'
    BY <1>1, <1>2, <1>3, <1>5, <1>6, <1>7, <1>8, OthersUnmoved DEF Orderly
  <1>10. GateTyped'
    BY <1>0, <1>1, <1>2, <1>5 DEF GateTyped, FramesTyped
  <1>11. Dated'
    BY <1>1 DEF GateInv, Dated
  <1>12. Described'
    <2>1. SUFFICES ASSUME NEW t \in gated, Generational => gen = connection,
                          ~\E q \in Callers : pc'[q] = "applied" /\ msg'[q].topic = t
                   PROVE  retained'[t] = declared[t]
      BY <1>1 DEF Described
    <2>2. t # msg[p].topic /\ t \in Topics
      BY <1>0, <1>1, <1>5, <2>1 DEF GateTyped
    <2>3. \A q \in Callers : ~(pc[q] = "applied" /\ msg[q].topic = t)
      BY <1>1, <1>5, <2>1 DEF OthersStand
    <2>4. QED
      BY <1>3, <2>1, <2>2, <2>3 DEF GateInv, Described
  <1>13. QED
    BY <1>9, <1>10, <1>11, <1>12 DEF GateInv

\* A connection is new to a gate that names connections.
LEMMA ReconnectKeepsGate ==
  ASSUME GateRegime, GateInv, Reconnect
  PROVE  GateInv'
  <1>0. GateTyped /\ Dated /\ Described
    BY DEF GateInv
  <1>1. /\ UNCHANGED <<declared, gated, gen, genSeen, plan, pc, call, todo, msg, seen>>
        /\ wire' = <<>> /\ connection' = connection + 1
    BY DEF Reconnect, gates, memos, frames
  <1>2. \/ UNCHANGED retained
        \/ /\ Generational /\ retained' = [t \in Topics |-> Empty]
           /\ \A q \in Callers : pc[q] = "idle"
    BY DEF Reconnect, GateRegime
  <1>3. GateTyped'
    BY <1>0, <1>1, <1>2 DEF GateTyped
  <1>4. Dated'
    BY <1>0, <1>1 DEF Dated, GateTyped
  <1>5. Described'
    <2>1. Generational => gen # connection'
      BY <1>0, <1>1 DEF Dated, GateTyped
    <2>2. QED
      BY <1>0, <1>1, <1>2, <2>1 DEF Described
  <1>6. ASSUME NEW q \in Callers PROVE Orderly(q)'
    <2>1. Attributed(q) /\ Faithful(q) /\ Current(q)
      BY DEF GateInv, Orderly
    <2>2. Attributed(q)'
      BY <1>1, <2>1, MineStays DEF Attributed, Sending
    <2>3. Faithful(q)'
      BY <1>1, <1>2, <2>1 DEF Faithful, Sending
    <2>4. Current(q)'
      BY <1>0, <1>1, <2>1 DEF Current, Sending, GateTyped
    <2>5. QED
      BY <2>2, <2>3, <2>4 DEF Orderly
  <1>7. QED
    BY <1>3, <1>4, <1>5, <1>6 DEF GateInv

\* A life begins with an empty gate, whatever the broker has.
LEMMA LifeStartsGate ==
  ASSUME retained = [t \in Topics |-> retained[t]], wire = <<>>, connection = 0, plan \in Plans,
         declared = Nothing, gated = {}, gen = 0, pc = Each("idle"), call = Each(NoCall), todo = Each({}),
         msg = Each(NoMessage), seen = Each(0)
  PROVE  GateInv
  <1>1. GateTyped /\ Dated /\ Described
    BY DEF GateTyped, Dated, Described, Nothing, Each
  <1>2. ASSUME NEW q \in Callers PROVE Orderly(q)
    <2>1. pc[q] = "idle" /\ call[q] = NoCall /\ todo[q] = {} /\ msg[q] = NoMessage /\ seen[q] = 0
      BY DEF Each
    <2>2. Attributed(q)
      <3>1. May(call[q]) = {}
        BY <2>1 DEF NoCall, May, Forms
      <3>2. QED
        BY <2>1, <3>1 DEF Attributed, Sending
    <2>3. Faithful(q) /\ Current(q)
      BY <2>1 DEF Faithful, Current, NoCall, Sending
    <2>4. QED
      BY <2>2, <2>3 DEF Orderly
  <1>3. QED
    BY <1>1, <1>2 DEF GateInv

LEMMA CrashKeepsGate ==
  ASSUME GateInv, Crash
  PROVE  GateInv'
  <1>1. (retained = [t \in Topics |-> retained[t]])'
    BY DEF GateInv, GateTyped, Crash
  <1>2. (/\ wire = <<>> /\ connection = 0 /\ plan \in Plans /\ declared = Nothing /\ gated = {} /\ gen = 0
         /\ pc = Each("idle") /\ call = Each(NoCall) /\ todo = Each({}) /\ msg = Each(NoMessage) /\ seen = Each(0))'
    BY DEF Crash, Nothing, Each
  <1>3. QED
    BY <1>1, <1>2, LifeStartsGate, PTL

LEMMA GateInductive ==
  ASSUME GateRegime
  PROVE  Spec => []GateInv
  <1>1. Init => GateInv
    <2>1. Init => retained = [t \in Topics |-> retained[t]]
      BY RuntimeAssumption DEF Init
    <2>2. QED
      BY <2>1, LifeStartsGate DEF Init
  <1>2. ASSUME GateInv, [Next]_vars PROVE GateInv'
    <2>1. CASE UNCHANGED vars
      <3>1. UNCHANGED <<retained, wire, connection, declared, gated, gen, genSeen, plan, pc, call, todo, msg, seen>>
        BY <2>1 DEF vars, broker, gates, memos, frames
      <3>2. GateTyped' /\ Dated' /\ Described'
        BY <1>2, <3>1 DEF GateInv, GateTyped, Dated, Described
      <3>3. ASSUME NEW q \in Callers PROVE Orderly(q)'
        <4>1. Attributed(q) /\ Faithful(q) /\ Current(q)
          BY <1>2 DEF GateInv, Orderly
        <4>2. Attributed(q)'
          BY <3>1, <4>1, MineStays DEF Attributed, Sending
        <4>3. Faithful(q)' /\ Current(q)'
          BY <3>1, <4>1 DEF Faithful, Current, Sending
        <4>4. QED
          BY <4>2, <4>3 DEF Orderly
      <3>4. QED
        BY <3>2, <3>3 DEF GateInv
    <2>2. ASSUME NEW p \in Callers,
                 \/ Begin(p) \/ Reset(p) \/ Step(p) \/ Collect(p)
                 \/ SnapshotRefused(p) \/ Cancel(p) \/ Refused(p)
          PROVE  GateInv'
      <3>1. CASE Reset(p)
        BY <1>2, <3>1, ResetKeepsGate
      <3>2. CASE SyncGeneration(p)
        BY <1>2, <3>2, SyncKeepsGate
      <3>3. CASE BrokerApplies(p)
        BY <1>2, <3>3, BrokerKeepsGate
      <3>4. CASE \/ SupersedeAnswered(p) \/ PublishAnswered(p) \/ RetractAnswered(p) \/ RepublishAnswered(p)
                 \/ SweepAnswered(p)
        BY <1>2, <3>4, AnswersKeepGate
      <3>5. CASE SocketTakes(p)
        BY <3>5 DEF SocketTakes, GateRegime
      <3>6. CASE \/ Begin(p) \/ ReadGeneration(p) \/ KeepWithheld(p) \/ FormGate(p) \/ Observe(p)
                 \/ SupersedeStep(p) \/ SupersedeEnds(p) \/ PublishGate(p) \/ Announce(p) \/ CopyDeclared(p)
                 \/ WalkStep(p) \/ TakeSlot(p) \/ CloseWindow(p) \/ SweepStep(p) \/ WalkEnds(p)
                 \/ Collect(p) \/ SnapshotRefused(p) \/ Cancel(p) \/ Refused(p)
        BY <1>2, <3>6, WalksKeepGate
      <3>7. QED
        BY <2>2, <3>1, <3>2, <3>3, <3>4, <3>5, <3>6 DEF Step
    <2>3. CASE BrokerReads
      BY <1>2, <2>3 DEF GateInv, GateTyped, BrokerReads
    <2>4. CASE Reconnect
      BY <1>2, <2>4, ReconnectKeepsGate
    <2>5. CASE Crash
      BY <1>2, <2>5, CrashKeepsGate
    <2>6. QED
      BY <1>2, <2>1, <2>2, <2>3, <2>4, <2>5 DEF Next
  <1>3. QED
    BY <1>1, <1>2, PTL DEF Spec

\* A config the dedup gate would suppress is, byte for byte, what the broker retains,
\* unless the connection changed since or a write of it is under way (Publish's gate,
\* checkGeneration): for every number of goroutines and topics, every plan of calls that
\* gives each topic one writer, and every interleaving with Resets, refusals,
\* cancellations, reconnects and crashes, as long as the broker's answers arrive.
THEOREM TheGateDescribesTheBroker ==
  ASSUME GateRegime
  PROVE  Spec => []GateSound
  <1>1. GateInv => GateSound
    BY DEF GateInv, GateSound, Described, InFlight
  <1>2. QED
    BY <1>1, GateInductive, PTL

-----------------------------------------------------------------------------
(* What a window is shown.                                                 *)

\* Nobody else's call is about what a sweep owns.
LEMMA SweepApart ==
  ASSUME SweeperAlone, Typed, NEW p \in Callers, NEW q \in Callers, p # q, call[p].op \in Cleaning
  PROVE  call[p].scope \cap Alters(call[q]) = {}
  <1>1. call[p] \in plan[p] /\ plan \in Plans /\ Planned(q) /\ call[q] \in Call
    BY CallFacts DEF Typed, TypeOK, Framed
  <1>2. \A k \in plan[q] : call[p].scope \cap Alters(k) = {}
    BY <1>1 DEF SweeperAlone
  <1>3. CASE call[q] = NoCall
    BY <1>3 DEF NoCall, Alters, May, Forms
  <1>4. CASE call[q] \in plan[q]
    BY <1>2, <1>4
  <1>5. ASSUME NEW c \in plan[q], c.op \in Forms,
               call[q] = [op |-> "publish", topic |-> c.topic, body |-> c.body, scope |-> {}]
        PROVE  call[p].scope \cap Alters(call[q]) = {}
    <2>1. c \in Call
      BY <1>1, CallsTyped
    <2>2. Alters(call[q]) = {c.topic}
      BY <1>1, <1>5, AltersFacts
    <2>3. c.topic \in Alters(c)
      BY <1>5, <2>1, AltersFacts
    <2>4. QED
      BY <1>2, <2>2, <2>3
  <1>6. QED
    BY <1>1, <1>3, <1>4, <1>5 DEF Planned

\* A window's list stands as long as nothing it was shown changes hands.
LEMMA StillListed ==
  ASSUME NEW q \in Callers, Listed(q), UNCHANGED <<plan>>,
         pc'[q] = pc[q], call'[q] = call[q], todo'[q] = todo[q], view'[q] = view[q],
         pc[q] = "window" /\ call[q].op \in Cleaning =>
           \A t \in view[q] : (declared[t] # Empty => declared'[t] # Empty) /\ (t \in Kept => t \in Kept')
  PROVE  Listed(q)'
  BY DEF Listed

\* A step that leaves claims and declarations alone.
LEMMA ClaimsStand ==
  ASSUME Typed, OrphanInv, NEW p \in Callers, OthersKeep(p), UNCHANGED <<plan, declared, announced, kept>>,
         Sending(p) /\ call[p].op = "publish" /\ call[p].body # Empty => Sending(p)' /\ call'[p] = call[p],
         call'[p].op \in Cleaning /\ Sending(p)' => msg'[p].topic \notin announced,
         Listed(p)'
  PROVE  OrphanInv'
  <1>1. ASSUME NEW t \in announced
        PROVE  \/ declared'[t] # Empty
               \/ \E q \in Callers : Sending(q)' /\ call'[q].op = "publish" /\ call'[q].topic = t /\ call'[q].body # Empty
    <2>1. CASE declared[t] # Empty
      BY <2>1
    <2>2. ASSUME NEW q \in Callers, Sending(q), call[q].op = "publish", call[q].topic = t, call[q].body # Empty
          PROVE  Sending(q)' /\ call'[q] = call[q]
      BY <2>2 DEF OthersKeep, Sending
    <2>3. QED
      BY <2>1, <2>2 DEF OrphanInv, ClaimsFounded
  <1>2. ASSUME NEW q \in Callers, call'[q].op \in Cleaning, Sending(q)'
        PROVE  msg'[q].topic \notin announced
    BY <1>2 DEF OthersKeep, Sending, OrphanInv, ClaimsFounded
  <1>3. ClaimsFounded'
    BY <1>1, <1>2 DEF ClaimsFounded
  <1>4. KeptFounded'
    BY DEF OrphanInv, KeptFounded, Withholds
  <1>5. ASSUME NEW q \in Callers PROVE Listed(q)'
    <2>1. Kept' = Kept
      BY DEF Kept
    <2>2. CASE q # p
      BY <2>1, <2>2, StillListed DEF OthersKeep, OrphanInv
    <2>3. QED
      BY <2>2
  <1>6. QED
    BY <1>3, <1>4, <1>5 DEF OrphanInv

\* An answer, for a topic of the caller's own: nobody's window was shown it.
LEMMA AnswerFounded ==
  ASSUME SweeperAlone, Typed, OrphanInv, NEW p \in Callers, OthersKeep(p), UNCHANGED <<plan, kept>>,
         NEW t \in Alters(call[p]), \A u \in Topics \ {t} : declared'[u] = declared[u],
         announced' \subseteq announced, t \in announced' => declared'[t] # Empty,
         call[p].op = "publish" => call[p].topic = t,
         pc'[p] \notin {"window", "sent", "applied"}
  PROVE  OrphanInv'
  <1>1. ASSUME NEW u \in announced'
        PROVE  \/ declared'[u] # Empty
               \/ \E q \in Callers : Sending(q)' /\ call'[q].op = "publish" /\ call'[q].topic = u /\ call'[q].body # Empty
    <2>1. CASE u = t
      BY <2>1
    <2>2. CASE u # t /\ declared[u] # Empty
      BY <2>2 DEF Typed, TypeOK
    <2>3. ASSUME u # t, NEW q \in Callers, Sending(q), call[q].op = "publish", call[q].topic = u, call[q].body # Empty
          PROVE  Sending(q)' /\ call'[q] = call[q]
      BY <2>3 DEF OthersKeep, Sending
    <2>4. QED
      BY <2>1, <2>2, <2>3 DEF OrphanInv, ClaimsFounded
  <1>2. ASSUME NEW q \in Callers, call'[q].op \in Cleaning, Sending(q)'
        PROVE  msg'[q].topic \notin announced'
    BY <1>2 DEF OthersKeep, Sending, OrphanInv, ClaimsFounded
  <1>3. ClaimsFounded'
    BY <1>1, <1>2 DEF ClaimsFounded
  <1>4. KeptFounded'
    BY DEF OrphanInv, KeptFounded, Withholds
  <1>5. ASSUME NEW q \in Callers PROVE Listed(q)'
    <2>1. Kept' = Kept
      BY DEF Kept
    <2>2. CASE q # p
      <3>1. ASSUME pc[q] = "window", call[q].op \in Cleaning, NEW u \in view[q]
            PROVE  declared'[u] = declared[u]
        <4>1. u \in call[q].scope /\ u \in Topics
          BY <3>1 DEF OrphanInv, Listed, Typed, TypeOK, Call, Framed, InScope
        <4>2. u # t
          BY <2>2, <3>1, <4>1, SweepApart
        <4>3. QED
          BY <4>1, <4>2
      <3>2. QED
        BY <2>1, <2>2, <3>1, StillListed DEF OthersKeep, OrphanInv
    <2>3. CASE q = p
      BY <2>3 DEF Listed
    <2>4. QED
      BY <2>2, <2>3
  <1>6. QED
    BY <1>3, <1>4, <1>5 DEF OrphanInv

LEMMA OrphanAnswers ==
  ASSUME SweeperAlone, Typed, OrphanInv, NEW p \in Callers,
         SupersedeAnswered(p) \/ PublishAnswered(p) \/ RetractAnswered(p) \/ SweepAnswered(p)
  PROVE  OrphanInv'
  <1>0. TypeOK /\ Framed(p) /\ call[p] \in Call
    BY DEF Typed, TypeOK
  <1>1. ASSUME pc[p] = "applied", call[p].op \notin {"publish", "republish", "report"}, Go(p, "work"),
               msg' = [msg EXCEPT ![p] = NoMessage], UNCHANGED <<plan, kept, call, todo, view>>,
               declared' = [declared EXCEPT ![msg[p].topic] = Empty],
               announced' \subseteq announced, msg[p].topic \notin announced'
        PROVE  OrphanInv'
    <2>1. OthersKeep(p) /\ pc'[p] = "work" /\ msg[p].topic \in Alters(call[p])
      BY <1>0, <1>1 DEF Go, TypeOK, OthersKeep, Framed, InScope, Sending
    <2>2. \A u \in Topics \ {msg[p].topic} : declared'[u] = declared[u]
      BY <1>0, <1>1 DEF TypeOK
    <2>3. QED
      BY <1>1, <2>1, <2>2, AnswerFounded
  <1>2. CASE SupersedeAnswered(p) \/ RetractAnswered(p)
    BY <1>1, <1>2 DEF SupersedeAnswered, RetractAnswered, Forms
  <1>3. CASE SweepAnswered(p)
    <2>1. call[p].op \in Cleaning
      BY <1>0, <1>3 DEF SweepAnswered, Framed, Labelled, Sweeps, Cleaning
    <2>2. msg[p].topic \notin announced
      BY <1>3, <2>1 DEF SweepAnswered, OrphanInv, ClaimsFounded, Sending
    <2>3. QED
      BY <1>1, <1>3, <2>1, <2>2 DEF SweepAnswered, Cleaning
  <1>4. CASE PublishAnswered(p)
    <2>1. call[p].op = "publish" /\ call[p].topic \in Alters(call[p]) /\ call[p].topic \in Topics
      BY <1>0, <1>4, AltersFacts, CallFacts DEF PublishAnswered
    <2>2. Return(p) /\ UNCHANGED <<plan, kept>>
      BY <1>4 DEF PublishAnswered
    <2>3. OthersKeep(p) /\ pc'[p] = "idle"
      BY <1>0, <2>2 DEF Return, Go, TypeOK, OthersKeep
    <2>4. /\ \A u \in Topics \ {call[p].topic} : declared'[u] = declared[u]
          /\ declared'[call[p].topic] = call[p].body
      BY <1>0, <1>4, <2>1 DEF PublishAnswered, TypeOK
    <2>5. announced' \subseteq announced /\ (call[p].topic \in announced' => declared'[call[p].topic] # Empty)
      BY <1>4, <2>4 DEF PublishAnswered
    <2>6. QED
      BY <2>1, <2>2, <2>3, <2>4, <2>5, AnswerFounded
  <1>5. QED
    BY <1>2, <1>3, <1>4

LEMMA OrphanKeeps ==
  ASSUME BundlesApart, Typed, OrphanInv, NEW p \in Callers, KeepWithheld(p)
  PROVE  OrphanInv'
  <1>0. TypeOK /\ call[p].op = "bundle" /\ call[p] \in plan[p] /\ call[p].topic \in Docs /\ plan \in Plans
    BY CallFacts DEF KeepWithheld, Typed, TypeOK, Framed, Labelled, Forms
  <1>1. /\ UNCHANGED <<plan, declared, announced, call, todo, msg, view>> /\ pc'[p] = "gate"
        /\ OthersKeep(p)
        /\ kept' = [kept EXCEPT ![call[p].topic] = Withheld[call[p].body]]
    BY <1>0 DEF KeepWithheld, Go, TypeOK, OthersKeep
  <1>2. ClaimsFounded'
    BY <1>0, <1>1 DEF OrphanInv, ClaimsFounded, Sending, OthersKeep, KeepWithheld, Cleaning
  <1>3. ASSUME NEW d \in Docs, NEW t \in kept'[d] PROVE \E q \in Callers : Withholds(q, d, t)'
    <2>1. CASE d = call[p].topic
      BY <1>0, <1>1, <1>3, <2>1 DEF TypeOK, Withholds
    <2>2. CASE d # call[p].topic
      BY <1>0, <1>1, <1>3, <2>2 DEF TypeOK, OrphanInv, KeptFounded, Withholds
    <2>3. QED
      BY <2>1, <2>2
  <1>4. ASSUME NEW q \in Callers PROVE Listed(q)'
    <2>1. CASE q = p
      BY <1>1, <2>1 DEF Listed
    <2>2. CASE q # p
      <3>1. ASSUME pc[q] = "window", call[q].op \in Cleaning, NEW t \in view[q], t \in Kept
            PROVE  t \in Kept'
        <4>1. t \in call[q].scope /\ call[q] \in plan[q]
          BY <3>1, CallFacts DEF OrphanInv, Listed
        <4>2. PICK d \in Docs : t \in kept[d]
          BY <3>1 DEF Kept
        <4>3. PICK r \in Callers : \E c \in plan[r] : c.op = "bundle" /\ c.topic = d /\ t \in Withheld[c.body]
          BY <4>2 DEF OrphanInv, KeptFounded, Withholds
        <4>4. PICK c \in plan[r] : c.op = "bundle" /\ c.topic = d /\ t \in Withheld[c.body]
          BY <4>3
        <4>5. r = q
          BY <1>0, <3>1, <4>1, <4>4 DEF BundlesApart
        <4>6. d # call[p].topic
          BY <1>0, <2>2, <4>4, <4>5 DEF BundlesApart
        <4>7. t \in kept'[d]
          BY <1>0, <1>1, <4>2, <4>6 DEF TypeOK
        <4>8. QED
          BY <4>7 DEF Kept
      <3>2. QED
        BY <1>1, <2>2, <3>1, StillListed DEF OthersKeep, OrphanInv
    <2>3. QED
      BY <2>1, <2>2
  <1>5. QED
    BY <1>2, <1>3, <1>4 DEF OrphanInv, KeptFounded

LEMMA OrphanClaims ==
  ASSUME SweeperAlone, Typed, OrphanInv, NEW p \in Callers, Announce(p)
  PROVE  OrphanInv'
  <1>0. TypeOK /\ call[p].op = "publish" /\ call[p].body # Empty /\ call[p] \in Call
    BY DEF Announce, Typed, TypeOK, Framed, Labelled
  <1>1. /\ UNCHANGED <<plan, declared, kept, call, view>> /\ pc'[p] = "sent" /\ OthersKeep(p)
        /\ announced' = announced \cup {call[p].topic} /\ pc[p] = "announce"
    BY <1>0 DEF Announce, Send, Go, TypeOK, OthersKeep
  <1>2. ASSUME NEW t \in announced'
        PROVE  \/ declared'[t] # Empty
               \/ \E q \in Callers : Sending(q)' /\ call'[q].op = "publish" /\ call'[q].topic = t /\ call'[q].body # Empty
    <2>1. CASE t = call[p].topic
      BY <1>0, <1>1, <2>1 DEF Sending
    <2>2. CASE t \in announced
      <3>1. CASE declared[t] # Empty
        BY <1>1, <3>1
      <3>2. ASSUME NEW q \in Callers, Sending(q), call[q].op = "publish", call[q].topic = t, call[q].body # Empty
            PROVE  Sending(q)'
        BY <1>1, <3>2 DEF OthersKeep, Sending
      <3>3. QED
        BY <1>1, <2>2, <3>1, <3>2 DEF OrphanInv, ClaimsFounded
    <2>3. QED
      BY <1>1, <2>1, <2>2
  <1>3. ASSUME NEW q \in Callers, call'[q].op \in Cleaning, Sending(q)'
        PROVE  msg'[q].topic \notin announced'
    <2>1. q # p
      BY <1>0, <1>1, <1>3 DEF Cleaning
    <2>2. call[q].op \in Cleaning /\ Sending(q) /\ msg'[q] = msg[q] /\ call[q] \in Call
      BY <1>0, <1>1, <1>3, <2>1 DEF OthersKeep, Sending, TypeOK
    <2>3. msg[q].topic \in call[q].scope
      BY <2>2, AltersFacts DEF Typed, Framed, InScope, Cleaning
    <2>4. call[p].topic \notin call[q].scope
      BY <1>0, <2>1, <2>2, SweepApart, AltersFacts
    <2>5. QED
      BY <1>1, <2>2, <2>3, <2>4 DEF OrphanInv, ClaimsFounded
  <1>4. KeptFounded'
    BY <1>1 DEF OrphanInv, KeptFounded, Withholds
  <1>5. ASSUME NEW q \in Callers PROVE Listed(q)'
    <2>1. Kept' = Kept
      BY <1>1 DEF Kept
    <2>2. CASE q # p
      BY <1>1, <2>1, <2>2, StillListed DEF OthersKeep, OrphanInv
    <2>3. CASE q = p
      BY <1>1, <2>3 DEF Listed
    <2>4. QED
      BY <2>2, <2>3
  <1>6. QED
    BY <1>2, <1>3, <1>4, <1>5 DEF OrphanInv, ClaimsFounded

LEMMA OrphanRefused ==
  ASSUME SweeperAlone, Typed, OrphanInv, NEW p \in Callers, Refused(p)
  PROVE  OrphanInv'
  <1>0. TypeOK /\ call[p] \in Call /\ Sending(p)
    BY DEF Typed, TypeOK, Refused, Sending
  <1>1. UNCHANGED <<plan, declared, kept>> /\ OthersKeep(p) /\ pc'[p] \in {"idle", "work"}
    BY <1>0 DEF Refused, Return, Go, TypeOK, OthersKeep
  <1>2. CASE call[p].op = "publish" /\ call[p].body # Empty
    <2>1. announced' = announced \ {call[p].topic} /\ call[p].topic \in Alters(call[p])
      BY <1>0, <1>2, AltersFacts DEF Refused
    <2>2. QED
      BY <1>1, <1>2, <2>1, AnswerFounded
  <1>3. CASE ~(call[p].op = "publish" /\ call[p].body # Empty)
    <2>1. UNCHANGED announced
      BY <1>3 DEF Refused
    <2>2. Listed(p)' /\ ~Sending(p)'
      BY <1>1 DEF Listed, Sending
    <2>3. QED
      BY <1>1, <1>3, <2>1, <2>2, ClaimsStand
  <1>4. QED
    BY <1>2, <1>3

\* A delivery: what the window is shown it lists, unless it is claimed for good.
LEMMA OrphanCollects ==
  ASSUME SweeperAlone, Typed, OrphanInv, NEW p \in Callers, Collect(p)
  PROVE  OrphanInv'
  <1>0. TypeOK /\ pc[p] = "window" /\ call[p] \in Call /\ call[p].op \in Forms \cup Sweeps
    BY DEF Collect, Typed, TypeOK, Framed, Labelled
  <1>1. PICK t \in Topics :
          /\ Collectable(p, t)
          /\ view' = [view EXCEPT ![p] = @ \cup {t}]
          /\ todo' = IF call[p].op \in Sweeps /\ ~Claims(t)
                     THEN [todo EXCEPT ![p] = @ \cup Clears({t})] ELSE todo
    BY DEF Collect
  <1>2. UNCHANGED <<plan, declared, announced, kept, pc, call, msg>> /\ view'[p] = view[p] \cup {t} /\ OthersKeep(p)
        /\ todo[p] \subseteq todo'[p]
    BY <1>0, <1>1 DEF Collect, gates, TypeOK, OthersKeep
  <1>3. ASSUME call[p].op \in Cleaning
        PROVE  Listed(p)'
    <2>1. call[p].op \in Sweeps /\ t \in call[p].scope
      BY <1>1, <1>3 DEF Cleaning, Sweeps, Collectable, Owned
    <2>2. [topic |-> t, body |-> Empty] \in todo'[p] \/ declared[t] # Empty \/ t \in Kept
      <3>1. CASE ~Claims(t)
        <4>1. todo'[p] = todo[p] \cup Clears({t})
          BY <1>0, <1>1, <2>1, <3>1 DEF TypeOK
        <4>2. [topic |-> t, body |-> Empty] \in Clears({t})
          BY DEF Clears
        <4>3. QED
          BY <4>1, <4>2
      <3>2. CASE t \in announced /\ declared[t] = Empty
        <4>1. PICK q \in Callers : Sending(q) /\ call[q].op = "publish" /\ call[q].topic = t
          BY <3>2 DEF OrphanInv, ClaimsFounded
        <4>2. q # p /\ call[q] \in Call
          BY <1>0, <4>1 DEF Sending, TypeOK
        <4>3. t \in Alters(call[q])
          BY <4>1, <4>2, AltersFacts
        <4>4. QED
          BY <1>3, <2>1, <4>2, <4>3, SweepApart
      <3>3. QED
        BY <3>1, <3>2 DEF Claims
    <2>3. Kept' = Kept
      BY <1>2 DEF Kept
    <2>4. view[p] \subseteq call[p].scope /\ \A u \in view[p] :
            [topic |-> u, body |-> Empty] \in todo[p] \/ declared[u] # Empty \/ u \in Kept
      BY <1>0, <1>3 DEF OrphanInv, Listed
    <2>5. view'[p] \subseteq call[p].scope
      BY <1>2, <2>1, <2>4
    <2>6. \A u \in view'[p] : [topic |-> u, body |-> Empty] \in todo'[p] \/ declared[u] # Empty \/ u \in Kept
      BY <1>2, <2>2, <2>4
    <2>7. QED
      BY <1>2, <2>3, <2>5, <2>6 DEF Listed
  <1>4. Listed(p)'
    BY <1>2, <1>3 DEF Listed
  <1>5. ~Sending(p) /\ ~Sending(p)'
    BY <1>0, <1>2 DEF Sending
  <1>6. QED
    BY <1>2, <1>4, <1>5, ClaimsStand

LEMMA OrphanWalks ==
  ASSUME Typed, OrphanInv, NEW p \in Callers,
         \/ Begin(p) \/ Reset(p) \/ ReadGeneration(p) \/ SyncGeneration(p) \/ FormGate(p) \/ Observe(p)
         \/ SupersedeStep(p) \/ SupersedeEnds(p) \/ PublishGate(p) \/ CopyDeclared(p) \/ WalkStep(p)
         \/ RepublishAnswered(p) \/ TakeSlot(p) \/ SnapshotRefused(p) \/ CloseWindow(p) \/ SweepStep(p)
         \/ WalkEnds(p) \/ Cancel(p) \/ BrokerApplies(p) \/ SocketTakes(p)
  PROVE  OrphanInv'
  <1>0. TypeOK /\ Framed(p) /\ plan \in Plans /\ call[p] \in Call
    BY DEF Typed, TypeOK
  <1>1. UNCHANGED <<plan, declared, announced, kept>>
    BY DEF Begin, Reset, ReadGeneration, SyncGeneration, FormGate, Observe, SupersedeStep, SupersedeEnds,
           PublishGate, CopyDeclared, WalkStep, RepublishAnswered, TakeSlot, SnapshotRefused, CloseWindow,
           SweepStep, WalkEnds, Cancel, BrokerApplies, SocketTakes, gates
  <1>2. ASSUME OthersKeep(p), ~Sending(p), pc'[p] \notin {"window", "sent", "applied"} PROVE OrphanInv'
    BY <1>1, <1>2, ClaimsStand DEF Listed, Sending
  <1>3. ASSUME Return(p), ~Sending(p) PROVE OrphanInv'
    BY <1>0, <1>2, <1>3 DEF Return, Go, TypeOK, OthersKeep
  <1>4. CASE Begin(p)
    <2>1. PICK c \in plan[p] : c.op # "reset" /\ call' = [call EXCEPT ![p] = c] /\ Go(p, Entry(c.op))
                               /\ todo' = [todo EXCEPT ![p] = IF c.op = "retract" THEN Clears(c.scope) ELSE {}]
      BY <1>4 DEF Begin
    <2>2. pc'[p] = Entry(c.op) /\ OthersKeep(p) /\ c.op \in Ops /\ pc[p] = "idle"
      BY <1>0, <1>4, <2>1, CallsTyped DEF Begin, Go, TypeOK, OthersKeep, Call
    <2>3. QED
      BY <1>2, <2>2, EntryLabels DEF Sending
  <1>5. CASE Reset(p)
    <2>1. OthersKeep(p) /\ pc[p] = "idle" /\ pc'[p] = "idle"
      BY <1>5 DEF Reset, frames, OthersKeep
    <2>2. QED
      BY <1>2, <2>1 DEF Sending
  <1>6. CASE ReadGeneration(p) \/ SyncGeneration(p)
    <2>1. OthersKeep(p) /\ pc[p] \in {"readGen", "syncGen"} /\ pc'[p] \in {"syncGen", AfterCheck(call[p].op)}
      BY <1>0, <1>6 DEF ReadGeneration, SyncGeneration, Go, TypeOK, OthersKeep
    <2>2. call[p].op \in Ops
      BY <1>0 DEF Call
    <2>3. QED
      BY <1>2, <2>1, <2>2, CheckedLabels DEF Sending
  <1>7. CASE FormGate(p) \/ Observe(p) \/ CopyDeclared(p) \/ SnapshotRefused(p) \/ WalkEnds(p) \/ Cancel(p)
    <2>1. pc[p] \notin {"sent", "applied"}
      BY <1>7 DEF FormGate, Observe, CopyDeclared, SnapshotRefused, WalkEnds, Cancel
    <2>2. CASE Return(p)
      BY <1>3, <2>1, <2>2 DEF Sending
    <2>3. CASE ~Return(p)
      <3>1. OthersKeep(p) /\ pc'[p] \in {"observe", "work", "slot"}
        BY <1>0, <1>7, <2>3 DEF FormGate, Observe, CopyDeclared, SnapshotRefused, WalkEnds, Cancel, Go, TypeOK, OthersKeep
      <3>2. QED
        BY <1>2, <2>1, <3>1 DEF Sending
    <2>4. QED
      BY <2>2, <2>3
  <1>8. CASE SupersedeEnds(p) \/ RepublishAnswered(p)
    <2>1. /\ OthersKeep(p) /\ pc'[p] \in {"work", "readGen", "pubGate"}
          /\ ~(Sending(p) /\ call[p].op = "publish")
      BY <1>0, <1>8 DEF SupersedeEnds, RepublishAnswered, Entry, AfterCheck, Go, TypeOK, OthersKeep, Sending
    <2>2. QED
      BY <1>1, <2>1, ClaimsStand DEF Listed, Sending
  <1>9. CASE SupersedeStep(p) \/ WalkStep(p) \/ SweepStep(p)
    <2>1. PICK m \in todo[p] : \/ todo' = [todo EXCEPT ![p] = @ \ {m}] /\ UNCHANGED <<pc, msg>>
                               \/ Send(p, m) /\ (call[p].op \in Sweeps => m.topic \notin announced)
      BY <1>9 DEF SupersedeStep, WalkStep, SweepStep, Claims, Forms, Sweeps
    <2>2. UNCHANGED <<call, view>> /\ pc[p] = "work"
      BY <1>9 DEF SupersedeStep, WalkStep, SweepStep
    <2>3. /\ OthersKeep(p) /\ pc'[p] \in {"work", "sent"}
          /\ pc'[p] = "sent" /\ call[p].op \in Sweeps => msg'[p].topic \notin announced
      BY <1>0, <2>1, <2>2 DEF Send, Go, TypeOK, OthersKeep
    <2>4. QED
      BY <1>1, <2>2, <2>3, ClaimsStand DEF Listed, Sending, Cleaning, Sweeps
  <1>10. CASE PublishGate(p)
    <2>1. pc[p] = "pubGate" /\ call[p].op = "publish"
      BY <1>0, <1>10 DEF PublishGate, Framed, Labelled
    <2>2. CASE Return(p)
      BY <1>3, <2>1, <2>2 DEF Sending
    <2>3. CASE ~Return(p)
      <3>1. OthersKeep(p) /\ pc'[p] \in {"announce", "sent"} /\ call'[p].op = "publish"
        BY <1>0, <1>10, <2>1, <2>3 DEF PublishGate, Send, Go, TypeOK, OthersKeep
      <3>2. QED
        BY <1>1, <2>1, <3>1, ClaimsStand DEF Listed, Sending, Cleaning
    <2>4. QED
      BY <2>2, <2>3
  <1>11. CASE TakeSlot(p)
    <2>1. /\ OthersKeep(p) /\ pc[p] = "slot" /\ UNCHANGED call
          /\ pc'[p] = "work" \/ (pc'[p] = "window" /\ view'[p] = {})
      BY <1>0, <1>11 DEF TakeSlot, Go, TypeOK, OthersKeep
    <2>2. QED
      BY <1>1, <2>1, ClaimsStand DEF Listed, Sending
  <1>12. CASE CloseWindow(p)
    <2>1. OthersKeep(p) /\ pc[p] = "window" /\ pc'[p] \in {"idle", "work"}
      BY <1>0, <1>12 DEF CloseWindow, Return, Go, TypeOK, OthersKeep
    <2>2. QED
      BY <1>2, <2>1 DEF Sending
  <1>13. CASE BrokerApplies(p) \/ SocketTakes(p)
    <2>1. OthersKeep(p) /\ pc[p] = "sent" /\ pc'[p] = "applied" /\ UNCHANGED <<call, msg>>
      BY <1>0, <1>13 DEF BrokerApplies, SocketTakes, Go, TypeOK, OthersKeep
    <2>2. QED
      BY <1>1, <2>1, ClaimsStand DEF Listed, Sending, OrphanInv, ClaimsFounded
  <1>14. QED
    BY <1>4, <1>5, <1>6, <1>7, <1>8, <1>9, <1>10, <1>11, <1>12, <1>13

LEMMA OrphanNext ==
  ASSUME OrphanRegime, Typed, OrphanInv, [Next]_vars
  PROVE  OrphanInv'
  <1>. SweeperAlone /\ BundlesApart
    BY DEF OrphanRegime
  <1>1. ASSUME NEW p \in Callers,
               \/ Begin(p) \/ Reset(p) \/ Step(p) \/ Collect(p) \/ SnapshotRefused(p) \/ Cancel(p) \/ Refused(p)
        PROVE  OrphanInv'
    BY <1>1, OrphanWalks, OrphanAnswers, OrphanKeeps, OrphanClaims, OrphanRefused, OrphanCollects DEF Step
  <1>2. CASE BrokerReads \/ Reconnect \/ UNCHANGED vars
    <2>1. UNCHANGED <<plan, declared, announced, kept, pc, call, todo, msg, view>>
      BY <1>2 DEF BrokerReads, Reconnect, vars, gates, frames
    <2>2. QED
      BY <2>1 DEF OrphanInv, ClaimsFounded, KeptFounded, Listed, Kept, Withholds, Sending
  <1>3. CASE Crash
    <2>1. announced' = {} /\ kept' = [d \in Docs |-> {}] /\ \A q \in Callers : pc'[q] = "idle"
      BY <1>3 DEF Crash, Each
    <2>2. QED
      BY <2>1 DEF OrphanInv, ClaimsFounded, KeptFounded, Listed, Sending
  <1>4. QED
    BY <1>1, <1>2, <1>3 DEF Next

\* Only the timer takes a sweep from its window to its walk.
LEMMA WindowCloses ==
  ASSUME Typed, [Next]_vars, NEW p \in Callers, pc[p] = "window", pc'[p] = "work"
  PROVE  CloseWindow(p)
  <1>0. TypeOK
    BY DEF Typed
  <1>1. ASSUME NEW q \in Callers,
               \/ Begin(q) \/ Reset(q) \/ Step(q) \/ Collect(q) \/ SnapshotRefused(q) \/ Cancel(q) \/ Refused(q)
        PROVE  CloseWindow(p)
    <2>1. CASE q # p
      <3>1. pc'[p] = pc[p]
        BY <1>0, <1>1, <2>1 DEF TypeOK, Begin, Reset, Step, Collect, SnapshotRefused, Cancel, Refused, ReadGeneration,
           SyncGeneration, KeepWithheld, FormGate, Observe, SupersedeStep, SupersedeAnswered, SupersedeEnds,
           PublishGate, Announce, PublishAnswered, CopyDeclared, WalkStep, RetractAnswered, RepublishAnswered,
           TakeSlot, CloseWindow, SweepStep, SweepAnswered, WalkEnds, BrokerApplies, SocketTakes, Return, Send, Go, frames
      <3>2. QED
        BY <3>1
    <2>2. CASE q = p
      BY <1>0, <1>1, <2>2 DEF TypeOK, Begin, Reset, Step, Collect, SnapshotRefused, Cancel, Refused, ReadGeneration,
         SyncGeneration, KeepWithheld, FormGate, Observe, SupersedeStep, SupersedeAnswered, SupersedeEnds,
         PublishGate, Announce, PublishAnswered, CopyDeclared, WalkStep, RetractAnswered, RepublishAnswered,
         TakeSlot, SweepStep, SweepAnswered, WalkEnds, BrokerApplies, SocketTakes, Return, Go
    <2>3. QED
      BY <2>1, <2>2
  <1>2. CASE BrokerReads \/ Reconnect \/ UNCHANGED vars
    BY <1>2 DEF BrokerReads, Reconnect, vars, frames
  <1>3. CASE Crash
    BY <1>3 DEF Crash, Each
  <1>4. QED
    BY <1>1, <1>2, <1>3 DEF Next

\* A sweep's window overlooks no orphan: what the sweep owns and the broker still retains
\* when the window closes is on its list, or declared, or kept by containment
\* (discoveryWindow, the claims of Publish): for every number of callers, every tree and
\* every fault, a crash or a failed publish included, as long as nobody else writes what
\* the sweep owns, each document has one writer, and the window outlasts the delivery.
THEOREM SweepsOverlookNoOrphan ==
  ASSUME OrphanRegime
  PROVE  Spec => WindowMissesNoOrphan
  <1>1. Typed /\ Init => OrphanInv
    <2>1. SUFFICES ASSUME Typed, Init PROVE OrphanInv
      OBVIOUS
    <2>2. announced = {} /\ kept = [d \in Docs |-> {}] /\ \A q \in Callers : pc[q] = "idle"
      BY <2>1 DEF Init, Each
    <2>3. QED
      BY <2>2 DEF OrphanInv, ClaimsFounded, KeptFounded, Listed, Sending
  <1>2. Typed /\ OrphanInv /\ [Next]_vars => OrphanInv'
    BY OrphanNext
  <1>3. Typed /\ OrphanInv /\ [Next]_vars =>
          [\A p \in Callers :
             call[p].op \in {"sweep", "selfsweep"} /\ pc[p] = "window" /\ pc'[p] = "work" =>
             \A t \in Prefixed : Owned(p, t) /\ retained[t] # Empty =>
               \/ [topic |-> t, body |-> Empty] \in todo[p]
               \/ declared[t] # Empty \/ t \in Kept \/ InFlight(t)]_vars
    <2>1. SUFFICES ASSUME Typed, OrphanInv, [Next]_vars, NEW p \in Callers, call[p].op \in Cleaning,
                          pc[p] = "window", pc'[p] = "work",
                          NEW t \in Prefixed, Owned(p, t), retained[t] # Empty
                   PROVE  [topic |-> t, body |-> Empty] \in todo[p] \/ declared[t] # Empty \/ t \in Kept
      BY DEF Cleaning
    <2>2. CloseWindow(p)
      BY <2>1, WindowCloses
    <2>3. Collectable(p, t) /\ t \in Topics
      BY <2>1, RuntimeAssumption DEF Collectable
    <2>4. t \in view[p]
      BY <2>2, <2>3 DEF CloseWindow, OrphanRegime
    <2>5. QED
      BY <2>1, <2>4 DEF OrphanInv, Listed
  <1>4. QED
    BY <1>1, <1>2, <1>3, StaysTyped, PTL DEF Spec, WindowMissesNoOrphan

-----------------------------------------------------------------------------
(* What a document withholds.                                              *)

\* A document on its way is of a PublishBundle in its caller's plan.
LEMMA KeepersWrite ==
  ASSUME KeepRegime, Typed, NEW q \in Callers, NEW d \in Docs, Keeping(q, d)
  PROVE  \E c \in plan[q] : c.op = "bundle" /\ c.topic = d /\ c.body = call[q].body
  <1>1. plan \in Plans /\ Planned(q) /\ call[q].topic = d
    BY DEF Typed, TypeOK, Framed, Keeping
  <1>2. CASE call[q].op = "bundle"
    BY <1>1, <1>2, CallFacts DEF Forms
  <1>3. CASE call[q].op = "publish" /\ call[q].body # Empty
    <2>1. ~(call[q] \in plan[q])
      BY <1>1, <1>3 DEF KeepRegime
    <2>2. PICK c \in plan[q] : c.op \in Forms /\
                 call[q] = [op |-> "publish", topic |-> c.topic, body |-> c.body, scope |-> {}]
      <3>1. call[q] # NoCall
        BY <1>3 DEF NoCall
      <3>2. QED
        BY <1>1, <2>1, <3>1 DEF Planned
    <2>3. c.op = "bundle"
      BY <1>1, <2>2, CallsTyped, RuntimeAssumption DEF Forms
    <2>4. QED
      BY <1>1, <2>2, <2>3
  <1>4. QED
    BY <1>2, <1>3 DEF Keeping

LEMMA OneKeeper ==
  ASSUME KeepRegime, Typed, NEW q \in Callers, NEW r \in Callers, NEW d \in Docs,
         Keeping(q, d), NEW c \in plan[r], c.op = "bundle", c.topic = d
  PROVE  q = r
  <1>1. plan \in Plans
    BY DEF Typed, TypeOK
  <1>2. PICK k \in plan[q] : k.op = "bundle" /\ k.topic = d
    BY KeepersWrite
  <1>3. QED
    BY <1>1, <1>2 DEF KeepRegime, BundlesApart

\* Nobody else's sweep owns what a document of this caller withholds.
LEMMA SweepsElsewhere ==
  ASSUME KeepRegime, Typed, NEW p \in Callers, NEW q \in Callers, p # q,
         call[p].op \in Cleaning, Sending(p), NEW c \in plan[q], c.op = "bundle"
  PROVE  msg[p].topic \notin Withheld[c.body]
  <1>1. plan \in Plans /\ call[p] \in plan[p] /\ call[p] \in Call
    BY CallFacts DEF Typed, TypeOK
  <1>2. msg[p].topic \in call[p].scope
    BY <1>1, AltersFacts DEF Typed, Framed, InScope, Cleaning
  <1>3. QED
    BY <1>1, <1>2 DEF KeepRegime, BundlesApart

\* A step that publishes no document and keeps nothing new.
LEMMA KeepStands ==
  ASSUME Typed, KeepInv, NEW p \in Callers, OthersKeep(p), UNCHANGED <<plan, kept>>,
         \A d \in Docs : declared'[d] \in {declared[d], Empty},
         \A d \in Docs : Keeping(p, d)' => Keeping(p, d) /\ call'[p].body = call[p].body,
         \A d \in Docs : Keeping(p, d) /\ ~Keeping(p, d)' /\ declared'[d] # Empty =>
           Withheld[declared'[d]] \subseteq kept[d],
         Spared(p)'
  PROVE  KeepInv'
  <1>1. DocsFounded'
    <2>1. ASSUME NEW d \in Docs, declared'[d] # Empty PROVE declared'[d] = declared[d] /\ declared[d] # Empty
      BY <2>1
    <2>2. QED
      BY <2>1 DEF KeepInv, DocsFounded
  <1>2. \A q \in Callers, d \in Docs : q # p => (Keeping(q, d)' <=> Keeping(q, d)) /\ call'[q] = call[q]
    BY DEF OthersKeep, Keeping
  <1>3. ASSUME NEW d \in Docs, NEW q \in Callers, Keeping(q, d)' PROVE kept[d] = Withheld[call'[q].body]
    BY <1>2, <1>3 DEF KeepInv, KeptCurrent
  <1>4. ASSUME NEW d \in Docs, declared'[d] # Empty
        PROVE  Withheld[declared'[d]] \subseteq kept[d] \/ \E q \in Callers : Keeping(q, d)'
    <2>1. declared'[d] = declared[d]
      BY <1>4
    <2>2. CASE Withheld[declared[d]] \subseteq kept[d]
      BY <2>1, <2>2
    <2>3. ASSUME NEW q \in Callers, Keeping(q, d), ~Keeping(q, d)' PROVE Withheld[declared'[d]] \subseteq kept[d]
      BY <1>2, <1>4, <2>3
    <2>4. QED
      BY <1>4, <2>1, <2>2, <2>3 DEF KeepInv, KeptCurrent
  <1>5. KeptCurrent'
    BY <1>3, <1>4 DEF KeptCurrent
  <1>6. ASSUME NEW q \in Callers, q # p PROVE Spared(q)'
    <2>1. Spared(q) /\ pc'[q] = pc[q] /\ call'[q] = call[q] /\ msg'[q] = msg[q]
      BY <1>6 DEF OthersKeep, KeepInv
    <2>2. QED
      BY <2>1 DEF Spared, Sending
  <1>7. QED
    BY <1>1, <1>5, <1>6 DEF KeepInv

\* ... while the caller goes on in its call, or its call was no document's.
LEMMA KeepGoes ==
  ASSUME Typed, KeepInv, NEW p \in Callers, OthersKeep(p), UNCHANGED <<plan, kept, declared>>,
         call'[p] = call[p], pc'[p] \in {"readGen", "syncGen", "keep"} <=> pc[p] \in {"readGen", "syncGen", "keep"},
         Spared(p)'
  PROVE  KeepInv'
  <1>1. \A d \in Docs : Keeping(p, d)' <=> Keeping(p, d)
    BY DEF Keeping
  <1>2. QED
    BY <1>1, KeepStands

LEMMA KeepReturns ==
  ASSUME Typed, KeepInv, NEW p \in Callers, Return(p), UNCHANGED <<plan, kept, declared>>,
         \A d \in Docs : Keeping(p, d) => declared[d] = call[p].body
  PROVE  KeepInv'
  <1>1. OthersKeep(p) /\ pc'[p] = "idle" /\ call'[p] = NoCall
    BY DEF Typed, TypeOK, Return, Go, OthersKeep
  <1>2. Spared(p)' /\ \A d \in Docs : ~Keeping(p, d)'
    BY <1>1 DEF Spared, Sending, Keeping, NoCall
  <1>3. \A d \in Docs : Keeping(p, d) => Withheld[declared[d]] \subseteq kept[d]
    BY DEF KeepInv, KeptCurrent
  <1>4. QED
    BY <1>1, <1>2, <1>3, KeepStands

\* An answer that clears a config.
LEMMA KeepClears ==
  ASSUME Typed, KeepInv, NEW p \in Callers,
         SupersedeAnswered(p) \/ RetractAnswered(p) \/ SweepAnswered(p)
  PROVE  KeepInv'
  <1>1. /\ pc[p] = "applied" /\ Go(p, "work") /\ UNCHANGED <<plan, kept, call, todo, view>>
        /\ msg' = [msg EXCEPT ![p] = NoMessage] /\ declared' = [declared EXCEPT ![msg[p].topic] = Empty]
    BY DEF SupersedeAnswered, RetractAnswered, SweepAnswered
  <1>2. OthersKeep(p) /\ pc'[p] = "work" /\ call'[p] = call[p]
    BY <1>1 DEF Typed, TypeOK, Go, OthersKeep
  <1>3. \A d \in Docs : declared'[d] \in {declared[d], Empty}
    BY <1>1 DEF Typed, TypeOK, Topics
  <1>4. \A d \in Docs : Keeping(p, d)' <=> Keeping(p, d)
    BY <1>1, <1>2 DEF Keeping
  <1>5. Spared(p)'
    BY <1>2 DEF Spared, Sending
  <1>6. QED
    BY <1>1, <1>2, <1>3, <1>4, <1>5, KeepStands

LEMMA KeepPublishes ==
  ASSUME KeepRegime, Typed, KeepInv, NEW p \in Callers, PublishAnswered(p)
  PROVE  KeepInv'
  <1>0. TypeOK /\ call[p].op = "publish" /\ call[p].topic \in Topics /\ pc[p] = "applied"
    BY CallFacts DEF PublishAnswered, Typed
  <1>1. Return(p) /\ UNCHANGED <<plan, kept>> /\ declared' = [declared EXCEPT ![call[p].topic] = call[p].body]
    BY DEF PublishAnswered
  <1>2. OthersKeep(p) /\ pc'[p] = "idle" /\ call'[p] = NoCall
    BY <1>0, <1>1 DEF TypeOK, Return, Go, OthersKeep
  <1>3. Spared(p)' /\ \A d \in Docs : ~Keeping(p, d)'
    BY <1>2 DEF Spared, Sending, Keeping, NoCall
  <1>4. CASE call[p].topic \in Ents \/ call[p].body = Empty
    <2>1. \A d \in Docs : declared'[d] \in {declared[d], Empty}
      BY <1>0, <1>1, <1>4, RuntimeAssumption DEF TypeOK, Topics
    <2>2. \A d \in Docs : ~Keeping(p, d)
      BY <1>0, <1>4, RuntimeAssumption DEF Keeping
    <2>3. QED
      BY <1>1, <1>2, <1>3, <2>1, <2>2, KeepStands
  <1>5. CASE call[p].topic \in Docs /\ call[p].body # Empty
    <2>. PICK e \in Docs : e = call[p].topic
      BY <1>5
    <2>1. Keeping(p, e) /\ e \in Docs
      BY <1>0, <1>5 DEF Keeping
    <2>2. PICK c \in plan[p] : c.op = "bundle" /\ c.topic = e /\ c.body = call[p].body
      BY <2>1, KeepersWrite
    <2>3. kept[e] = Withheld[call[p].body]
      BY <2>1 DEF KeepInv, KeptCurrent
    <2>4. /\ \A d \in Docs \ {e} : declared'[d] = declared[d]
          /\ declared'[e] = call[p].body
      BY <1>0, <1>1 DEF TypeOK, Topics
    <2>5. DocsFounded'
      BY <1>1, <2>2, <2>4 DEF KeepInv, DocsFounded
    <2>6. \A q \in Callers, d \in Docs : q # p => (Keeping(q, d)' <=> Keeping(q, d)) /\ call'[q] = call[q]
      BY <1>2 DEF OthersKeep, Keeping
    <2>7. ASSUME NEW d \in Docs, NEW q \in Callers, Keeping(q, d)' PROVE kept[d] = Withheld[call'[q].body]
      BY <1>3, <2>6, <2>7 DEF KeepInv, KeptCurrent
    <2>8. ASSUME NEW d \in Docs, declared'[d] # Empty
          PROVE  Withheld[declared'[d]] \subseteq kept[d] \/ \E q \in Callers : Keeping(q, d)'
      <3>1. CASE d = e
        BY <2>3, <2>4, <3>1
      <3>2. CASE d # e
        <4>1. ~Keeping(p, d)
          BY <3>2 DEF Keeping
        <4>2. QED
          BY <2>4, <2>6, <2>8, <3>2, <4>1 DEF KeepInv, KeptCurrent
      <3>3. QED
        BY <3>1, <3>2
    <2>9. ASSUME NEW q \in Callers, q # p PROVE Spared(q)'
      <3>1. Spared(q) /\ pc'[q] = pc[q] /\ call'[q] = call[q] /\ msg'[q] = msg[q]
        BY <1>2, <2>9 DEF OthersKeep, KeepInv
      <3>2. call[q].op \in Cleaning /\ Sending(q) => msg[q].topic \notin Withheld[call[p].body]
        BY <2>2, <2>9, SweepsElsewhere
      <3>3. ASSUME call[q].op \in Cleaning, Sending(q), NEW d \in Docs, declared'[d] # Empty
            PROVE  msg[q].topic \notin Withheld[declared'[d]]
        BY <2>4, <3>1, <3>2, <3>3 DEF Spared
      <3>4. QED
        BY <3>1, <3>3 DEF Spared, Sending
    <2>10. KeptCurrent'
      BY <1>1, <2>7, <2>8 DEF KeptCurrent
    <2>11. QED
      BY <1>3, <2>5, <2>9, <2>10 DEF KeepInv
  <1>6. QED
    BY <1>0, <1>4, <1>5 DEF Topics

LEMMA KeepChanges ==
  ASSUME KeepRegime, Typed, KeepInv, NEW p \in Callers, KeepWithheld(p)
  PROVE  KeepInv'
  <1>0. TypeOK /\ call[p].op = "bundle" /\ call[p] \in plan[p] /\ call[p].topic \in Docs
    BY CallFacts DEF KeepWithheld, Typed, TypeOK, Framed, Labelled, Forms
  <1>1. /\ UNCHANGED <<plan, declared, call, msg>> /\ pc[p] = "keep" /\ pc'[p] = "gate" /\ OthersKeep(p)
        /\ kept' = [kept EXCEPT ![call[p].topic] = Withheld[call[p].body]]
    BY <1>0 DEF KeepWithheld, Go, TypeOK, OthersKeep
  <1>. PICK e \in Docs : e = call[p].topic
    BY <1>0
  <1>2. kept'[e] = Withheld[call[p].body] /\ \A d \in Docs \ {e} : kept'[d] = kept[d]
    BY <1>0, <1>1 DEF TypeOK
  <1>3. Keeping(p, e)' /\ ~Keeping(p, e)
    BY <1>0, <1>1 DEF Keeping
  <1>4. \A q \in Callers, d \in Docs : q # p => (Keeping(q, d)' <=> Keeping(q, d))
    BY <1>1 DEF OthersKeep, Keeping
  <1>5. ASSUME NEW d \in Docs, NEW q \in Callers, Keeping(q, d)' PROVE kept'[d] = Withheld[call'[q].body]
    <2>1. CASE q = p
      BY <1>1, <1>2, <1>5, <2>1 DEF Keeping
    <2>2. CASE q # p
      <3>1. Keeping(q, d)
        BY <1>4, <1>5, <2>2
      <3>2. d # e
        BY <1>0, <2>2, <3>1, OneKeeper
      <3>3. QED
        BY <1>1, <1>2, <3>1, <3>2 DEF KeepInv, KeptCurrent
    <2>3. QED
      BY <2>1, <2>2
  <1>6. ASSUME NEW d \in Docs, declared[d] # Empty
        PROVE  Withheld[declared[d]] \subseteq kept'[d] \/ \E q \in Callers : Keeping(q, d)'
    <2>1. CASE d = e
      BY <1>3, <2>1
    <2>2. CASE d # e
      <3>1. \A q \in Callers : Keeping(q, d) => Keeping(q, d)'
        BY <1>0, <1>4, <2>2 DEF Keeping
      <3>2. Withheld[declared[d]] \subseteq kept[d] \/ \E q \in Callers : Keeping(q, d)
        BY <1>6 DEF KeepInv, KeptCurrent
      <3>3. kept'[d] = kept[d]
        BY <1>2, <2>2
      <3>4. CASE Withheld[declared[d]] \subseteq kept[d]
        BY <3>3, <3>4
      <3>5. ASSUME NEW q \in Callers, Keeping(q, d) PROVE Keeping(q, d)'
        BY <3>1, <3>5
      <3>6. QED
        BY <3>2, <3>4, <3>5
    <2>3. QED
      BY <2>1, <2>2
  <1>7. KeptCurrent'
    BY <1>1, <1>5, <1>6 DEF KeptCurrent
  <1>8. DocsFounded' /\ \A q \in Callers : Spared(q)'
    BY <1>1 DEF KeepInv, DocsFounded, Spared, Sending, OthersKeep
  <1>9. QED
    BY <1>7, <1>8 DEF KeepInv

\* The sweep's last look: what it sends for is kept by no document.
LEMMA KeepSweeps ==
  ASSUME KeepRegime, Typed, KeepInv, NEW p \in Callers, SweepStep(p)
  PROVE  KeepInv'
  <1>0. TypeOK /\ Framed(p) /\ call[p] \in Call /\ pc[p] = "work" /\ call[p].op \in Sweeps
    BY DEF SweepStep, Typed, TypeOK
  <1>1. call[p].op \in Cleaning /\ UNCHANGED <<plan, kept, declared, call, view>>
    BY <1>0 DEF SweepStep, gates, Framed, Labelled, Sweeps, Cleaning
  <1>2. PICK m \in todo[p] : IF Claims(m.topic) THEN todo' = [todo EXCEPT ![p] = @ \ {m}] /\ UNCHANGED <<pc, msg>>
                                               ELSE Send(p, m)
    BY DEF SweepStep
  <1>3. CASE Claims(m.topic)
    <2>1. OthersKeep(p) /\ pc'[p] = "work"
      BY <1>0, <1>1, <1>2, <1>3 DEF TypeOK, OthersKeep
    <2>2. Spared(p)'
      BY <2>1 DEF Spared, Sending
    <2>3. QED
      BY <1>0, <1>1, <2>1, <2>2, KeepGoes
  <1>4. CASE ~Claims(m.topic)
    <2>1. OthersKeep(p) /\ pc'[p] = "sent" /\ msg'[p] = m
      BY <1>0, <1>1, <1>2, <1>4 DEF Send, Go, TypeOK, OthersKeep
    <2>2. m.topic \in call[p].scope /\ call[p] \in plan[p] /\ plan \in Plans
      BY <1>0, <1>1, AltersFacts, CallFacts DEF Framed, InScope, Cleaning, TypeOK
    <2>3. ASSUME NEW d \in Docs, declared[d] # Empty PROVE m.topic \notin Withheld[declared[d]]
      <3>1. CASE Withheld[declared[d]] \subseteq kept[d]
        BY <1>4, <3>1 DEF Claims, Kept
      <3>2. ASSUME NEW q \in Callers, Keeping(q, d) PROVE m.topic \notin Withheld[declared[d]]
        <4>1. PICK r \in Callers : \E c \in plan[r] : c.op = "bundle" /\ c.topic = d /\ c.body = declared[d]
          BY <2>3 DEF KeepInv, DocsFounded
        <4>2. PICK c \in plan[r] : c.op = "bundle" /\ c.topic = d /\ c.body = declared[d]
          BY <4>1
        <4>3. q = r
          BY <3>2, <4>2, OneKeeper
        <4>4. q # p
          BY <1>1, <3>2 DEF Keeping, Cleaning
        <4>5. QED
          BY <1>1, <2>2, <4>2, <4>3, <4>4 DEF KeepRegime, BundlesApart
      <3>3. QED
        BY <2>3, <3>1, <3>2 DEF KeepInv, KeptCurrent
    <2>4. Spared(p)'
      BY <1>1, <2>1, <2>3 DEF Spared
    <2>5. QED
      BY <1>0, <1>1, <2>1, <2>4, KeepGoes
  <1>5. QED
    BY <1>3, <1>4

LEMMA KeepWalks ==
  ASSUME KeepRegime, Typed, KeepInv, NEW p \in Callers,
         \/ Begin(p) \/ Reset(p) \/ ReadGeneration(p) \/ SyncGeneration(p) \/ FormGate(p) \/ Observe(p)
         \/ SupersedeStep(p) \/ SupersedeEnds(p) \/ PublishGate(p) \/ Announce(p) \/ CopyDeclared(p) \/ WalkStep(p)
         \/ RepublishAnswered(p) \/ TakeSlot(p) \/ SnapshotRefused(p) \/ Collect(p) \/ CloseWindow(p)
         \/ WalkEnds(p) \/ Cancel(p) \/ Refused(p) \/ BrokerApplies(p) \/ SocketTakes(p)
  PROVE  KeepInv'
  <1>0. TypeOK /\ Framed(p) /\ plan \in Plans /\ call[p] \in Call
    BY DEF Typed, TypeOK
  <1>1. UNCHANGED <<plan, declared, kept>>
    BY DEF Begin, Reset, ReadGeneration, SyncGeneration, FormGate, Observe, SupersedeStep, SupersedeEnds,
           PublishGate, Announce, CopyDeclared, WalkStep, RepublishAnswered, TakeSlot, SnapshotRefused, Collect,
           CloseWindow, WalkEnds, Cancel, Refused, BrokerApplies, SocketTakes, gates
  <1>2. ASSUME OthersKeep(p), call'[p] = call[p], pc'[p] \notin {"sent", "applied"},
               pc'[p] \in {"readGen", "syncGen", "keep"} <=> pc[p] \in {"readGen", "syncGen", "keep"}
        PROVE  KeepInv'
    BY <1>1, <1>2, KeepGoes DEF Spared, Sending
  <1>3. ASSUME OthersKeep(p), call'[p] = call[p], call[p].op \notin Cleaning, pc[p] \notin {"readGen", "syncGen", "keep"},
               pc'[p] \notin {"readGen", "syncGen", "keep"}
        PROVE  KeepInv'
    BY <1>1, <1>3, KeepGoes DEF Spared
  <1>4. CASE Begin(p)
    <2>1. PICK c \in plan[p] : c.op # "reset" /\ call' = [call EXCEPT ![p] = c] /\ Go(p, Entry(c.op))
      BY <1>4 DEF Begin
    <2>2. /\ pc'[p] = Entry(c.op) /\ call'[p] = c /\ OthersKeep(p) /\ c.op \in Ops /\ pc[p] = "idle"
      BY <1>0, <1>4, <2>1, CallsTyped DEF Begin, Go, TypeOK, OthersKeep, Call
    <2>3. c.op = "bundle" => pc'[p] \in {"readGen", "keep"}
      BY <2>2 DEF Entry, AfterCheck
    <2>4. \A d \in Docs : ~Keeping(p, d)'
      BY <1>0, <2>2, <2>3 DEF Keeping, KeepRegime
    <2>5. ASSUME NEW d \in Docs, Keeping(p, d), declared[d] # Empty PROVE FALSE
      <3>1. call[p] = NoCall
        BY <1>0, <2>2 DEF Framed, Labelled
      <3>2. QED
        BY <2>5, <3>1 DEF Keeping, NoCall
    <2>6. Spared(p)'
      BY <2>2, EntryLabels DEF Spared, Sending
    <2>7. QED
      BY <1>1, <2>2, <2>4, <2>5, <2>6, KeepStands
  <1>5. CASE Reset(p)
    <2>1. OthersKeep(p) /\ pc[p] = "idle" /\ pc'[p] = "idle" /\ call'[p] = call[p]
      BY <1>5 DEF Reset, frames, OthersKeep
    <2>2. QED
      BY <1>2, <2>1
  <1>6. CASE ReadGeneration(p)
    <2>1. OthersKeep(p) /\ pc[p] = "readGen" /\ pc'[p] = "syncGen" /\ call'[p] = call[p]
      BY <1>0, <1>6 DEF ReadGeneration, Go, TypeOK, OthersKeep
    <2>2. QED
      BY <1>2, <2>1
  <1>7. CASE SyncGeneration(p)
    <2>1. OthersKeep(p) /\ pc[p] = "syncGen" /\ pc'[p] = AfterCheck(call[p].op) /\ call'[p] = call[p]
      BY <1>0, <1>7 DEF SyncGeneration, Go, TypeOK, OthersKeep
    <2>2. (call[p].op = "bundle" <=> pc'[p] = "keep") /\ pc'[p] \notin {"readGen", "syncGen", "sent", "applied"}
      BY <2>1 DEF AfterCheck
    <2>3. \A d \in Docs : Keeping(p, d)' <=> Keeping(p, d)
      BY <2>1, <2>2 DEF Keeping
    <2>4. Spared(p)'
      BY <2>2 DEF Spared, Sending
    <2>5. QED
      BY <1>1, <2>1, <2>3, <2>4, KeepStands
  <1>8. CASE FormGate(p)
    <2>1. CASE Suppressed(call[p].topic, call[p].body)
      <3>1. Return(p) /\ \A d \in Docs : Keeping(p, d) => declared[d] = call[p].body
        BY <1>8, <2>1 DEF FormGate, Suppressed, Keeping
      <3>2. QED
        BY <1>1, <3>1, KeepReturns
    <2>2. CASE ~Suppressed(call[p].topic, call[p].body)
      <3>1. OthersKeep(p) /\ pc[p] = "gate" /\ pc'[p] \in {"observe", "work"} /\ call'[p] = call[p]
        BY <1>0, <1>8, <2>2 DEF FormGate, Go, TypeOK, OthersKeep
      <3>2. QED
        BY <1>2, <3>1
    <2>3. QED
      BY <2>1, <2>2
  <1>9. CASE Observe(p) \/ CopyDeclared(p) \/ TakeSlot(p) \/ Collect(p) \/ RepublishAnswered(p)
    <2>1. /\ OthersKeep(p) /\ call'[p] = call[p] /\ pc[p] \in {"observe", "copy", "slot", "window", "applied"}
          /\ pc'[p] \in {"work", "slot", "window"}
      BY <1>0, <1>9 DEF Observe, CopyDeclared, TakeSlot, Collect, RepublishAnswered, Go, TypeOK, OthersKeep
    <2>2. QED
      BY <1>2, <2>1
  <1>10. CASE SupersedeStep(p) \/ WalkStep(p)
    <2>1. PICK m \in todo[p] : \/ todo' = [todo EXCEPT ![p] = @ \ {m}] /\ UNCHANGED <<pc, msg>>
                               \/ Send(p, m)
      BY <1>10 DEF SupersedeStep, WalkStep
    <2>2. UNCHANGED <<call, view>> /\ pc[p] = "work" /\ call[p].op \notin Cleaning
      BY <1>10 DEF SupersedeStep, WalkStep, Forms, Cleaning
    <2>3. OthersKeep(p) /\ pc'[p] \in {"work", "sent"} /\ call'[p] = call[p]
      BY <1>0, <2>1, <2>2 DEF Send, Go, TypeOK, OthersKeep
    <2>4. QED
      BY <1>3, <2>2, <2>3
  <1>11. CASE SupersedeEnds(p)
    <2>1. /\ call'[p] = [op |-> "publish", topic |-> call[p].topic, body |-> call[p].body, scope |-> {}]
          /\ pc'[p] = Entry("publish") /\ OthersKeep(p) /\ call[p].op \in Forms /\ pc[p] = "work"
      BY <1>0, <1>11 DEF SupersedeEnds, Go, TypeOK, OthersKeep
    <2>2. call[p].body # Empty /\ (call[p].op = "component" => call[p].topic \in Ents)
      BY <2>1, CallFacts, RuntimeAssumption
    <2>3. \A d \in Docs : Keeping(p, d)' <=> Keeping(p, d)
      BY <2>1, <2>2, RuntimeAssumption DEF Keeping, Forms
    <2>4. Spared(p)'
      BY <2>1 DEF Spared, Cleaning
    <2>5. QED
      BY <1>1, <2>1, <2>3, <2>4, KeepStands
  <1>12. CASE PublishGate(p) \/ Announce(p)
    <2>1. call[p].op = "publish" /\ pc[p] \in {"pubGate", "announce"}
      BY <1>0, <1>12 DEF PublishGate, Announce, Framed, Labelled
    <2>2. CASE Return(p)
      <3>1. PublishGate(p)
        BY <1>0, <1>12, <2>2 DEF Announce, Send, Return, Go, TypeOK
      <3>2. \A d \in Docs : Keeping(p, d) => declared[d] = call[p].body
        BY <1>0, <2>1, <2>2, <3>1 DEF PublishGate, Suppressed, Keeping, Send, Return, Go, TypeOK
      <3>3. QED
        BY <1>1, <2>2, <3>2, KeepReturns
    <2>3. CASE ~Return(p)
      <3>1. OthersKeep(p) /\ pc'[p] \in {"announce", "sent"} /\ call'[p] = call[p]
        BY <1>0, <1>12, <2>3 DEF PublishGate, Announce, Send, Go, TypeOK, OthersKeep
      <3>2. QED
        BY <1>3, <2>1, <3>1 DEF Cleaning
    <2>4. QED
      BY <2>2, <2>3
  <1>13. CASE CloseWindow(p)
    <2>1. pc[p] = "window"
      BY <1>13 DEF CloseWindow
    <2>2. CASE Return(p)
      <3>1. call[p].op = "report"
        BY <1>0, <1>13, <2>2 DEF CloseWindow, Return, Go, TypeOK
      <3>2. QED
        BY <1>1, <2>2, <3>1, KeepReturns DEF Keeping
    <2>3. CASE ~Return(p)
      <3>1. OthersKeep(p) /\ pc'[p] = "work" /\ call'[p] = call[p]
        BY <1>0, <1>13, <2>3 DEF CloseWindow, Go, TypeOK, OthersKeep
      <3>2. QED
        BY <1>2, <2>1, <3>1
    <2>4. QED
      BY <2>2, <2>3
  <1>14. CASE WalkEnds(p) \/ Cancel(p)
    <2>1. Return(p) /\ call[p].op \notin Forms \cup {"publish"}
      BY <1>0, <1>14 DEF WalkEnds, Cancel, KeepRegime, Framed, Labelled, Sweeps, Forms
    <2>2. QED
      BY <1>1, <2>1, KeepReturns DEF Keeping, Forms
  <1>15. CASE SnapshotRefused(p) \/ Refused(p)
    BY <1>15 DEF SnapshotRefused, Refused, KeepRegime
  <1>16. CASE BrokerApplies(p) \/ SocketTakes(p)
    <2>1. OthersKeep(p) /\ pc[p] = "sent" /\ pc'[p] = "applied" /\ call'[p] = call[p] /\ msg'[p] = msg[p]
      BY <1>0, <1>16 DEF BrokerApplies, SocketTakes, Go, TypeOK, OthersKeep
    <2>2. Spared(p)'
      BY <1>1, <2>1 DEF Spared, Sending, KeepInv
    <2>3. QED
      BY <1>1, <2>1, <2>2, KeepGoes
  <1>17. QED
    BY <1>4, <1>5, <1>6, <1>7, <1>8, <1>9, <1>10, <1>11, <1>12, <1>13, <1>14, <1>15, <1>16

LEMMA KeepNext ==
  ASSUME KeepRegime, Typed, KeepInv, [Next]_vars
  PROVE  KeepInv'
  <1>1. ASSUME NEW p \in Callers,
               \/ Begin(p) \/ Reset(p) \/ Step(p) \/ Collect(p) \/ SnapshotRefused(p) \/ Cancel(p) \/ Refused(p)
        PROVE  KeepInv'
    BY <1>1, KeepWalks, KeepClears, KeepPublishes, KeepChanges, KeepSweeps DEF Step
  <1>2. CASE BrokerReads \/ Reconnect \/ UNCHANGED vars
    <2>1. UNCHANGED <<plan, declared, kept, pc, call, msg>>
      BY <1>2 DEF BrokerReads, Reconnect, vars, gates, frames
    <2>2. QED
      BY <2>1 DEF KeepInv, DocsFounded, KeptCurrent, Keeping, Spared, Sending
  <1>3. CASE Crash
    <2>1. declared' = Nothing /\ \A q \in Callers : pc'[q] = "idle" /\ call'[q] = NoCall
      BY <1>3 DEF Crash, Each
    <2>2. \A d \in Docs : declared'[d] = Empty
      BY <2>1 DEF Nothing, Topics
    <2>3. \A q \in Callers, d \in Docs : ~Keeping(q, d)'
      BY <2>1 DEF Keeping, NoCall
    <2>4. QED
      BY <2>1, <2>2, <2>3 DEF KeepInv, DocsFounded, KeptCurrent, Spared, Sending
  <1>4. QED
    BY <1>1, <1>2, <1>3 DEF Next

\* A sweep never clears the per-entity config of a component that the document last
\* published for its node withholds (PublishBundle's WithheldTopics, Sweep's claims):
\* for every number of callers and every interleaving with crashes and reconnects, as
\* long as each document has one writer, who publishes it as a bundle and is answered.
THEOREM WithheldConfigsSurvive ==
  ASSUME KeepRegime
  PROVE  Spec => KeptSurvive
  <1>1. Init => KeepInv
    <2>1. SUFFICES ASSUME Init PROVE KeepInv
      OBVIOUS
    <2>2. declared = Nothing /\ \A q \in Callers : pc[q] = "idle" /\ call[q] = NoCall
      BY <2>1 DEF Init, Each
    <2>3. \A d \in Docs : declared[d] = Empty
      BY <2>2 DEF Nothing, Topics
    <2>4. \A q \in Callers, d \in Docs : ~Keeping(q, d)
      BY <2>2 DEF Keeping, NoCall
    <2>5. QED
      BY <2>2, <2>3, <2>4 DEF KeepInv, DocsFounded, KeptCurrent, Spared, Sending
  <1>2. Typed /\ KeepInv /\ [Next]_vars => KeepInv'
    BY KeepNext
  <1>3. Typed /\ KeepInv =>
          [\A p \in Callers, t \in Topics : SweepClears(p, t) =>
             \A d \in Docs : declared[d] # Empty => t \notin Withheld[declared[d]]]_vars
    <2>1. SUFFICES ASSUME Typed, KeepInv, NEW p \in Callers, NEW t \in Topics, SweepClears(p, t),
                          NEW d \in Docs, declared[d] # Empty
                   PROVE  t \notin Withheld[declared[d]]
      OBVIOUS
    <2>2. Sending(p) /\ msg[p].topic = t /\ call[p].op \in Cleaning
      BY <2>1 DEF SweepClears, Sending, Typed, Framed, Labelled, Sweeps, Cleaning
    <2>3. QED
      BY <2>1, <2>2 DEF KeepInv, Spared
  <1>4. QED
    BY <1>1, <1>2, <1>3, StaysTyped, PTL DEF Spec, KeptSurvive
=============================================================================
