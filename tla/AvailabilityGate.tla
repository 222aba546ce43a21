-------------------------- MODULE AvailabilityGate ---------------------------
(* AvailabilityPublisher (src/publisher/availability.go): the retained       *)
(* reachability topics behind a transition gate, whose map is also the index *)
(* of what this process wrote. A flip reads the gate under mu, publishes     *)
(* without it, and records under mu again. Composed with the broker, with    *)
(* what the configs declare and with what Home Assistant reads from both.    *)
EXTENDS RetainedBroker, AvailabilityRules

CONSTANTS
  Units, DeviceOf, EntityOf,         \* the entities, and the device of each
  Settings, LayoutOf, EncodingOf,    \* what a consumer may configure
  QoS,         \* AvailabilityConfig.QoS, resolved
  Guarded,     \* topics a CommandFilters entry matches
  Gone,        \* the topics a consumer's own removal list names
  MayCall,     \* caller -> what it calls: a subset of Operations
  OneWriter,   \* the caller contract: one goroutine at a time works on a topic
  MaxUnheard   \* bound on the topics a lost answer is outstanding for

Operations == {"device", "parent", "self", "retract", "sweep", "republish", "forget", "reset"}

ASSUME GateAssumption ==
  /\ QoS \in {0, 1} /\ OneWriter \in BOOLEAN /\ MaxUnheard \in Nat
  /\ Guarded \subseteq Topics /\ Gone \subseteq Topics
  /\ MayCall \in [Callers -> SUBSET Operations]
  /\ EncodingOf \in [Settings -> {"raw", "envelope", "status"}]
  /\ <<>> \notin Topics
  /\ \A b \in BOOLEAN : Empty \notin {Token(b), Bool(b), Envelope(b, TRUE)}

VARIABLES
  setting,        \* the layout and encoding in use
  last,           \* topic -> the payload the broker accepted, Empty when absent
  gated,          \* topics whose entry may suppress a repeat
  pc, op,         \* caller -> where it is, and in which call
  item,           \* caller -> the topic, payload and fact it is about
  todo, copy,     \* a walk: topics left, and Republish's snapshot
  asked, failed,  \* a walk: what it set out to clear; whether an error was joined
  \* history
  told,           \* fact -> what a call that returned nil said of it, or None
  cleared,        \* topics a Retract or a Sweep reported gone, and nobody used since
  about,          \* topic -> the facts it carries under this setting
  settled,        \* Reset was called since the connection changed
  forgotten,      \* topics Forget dropped and nobody published since
  unheard         \* topics where the last call failed for its answer being lost

memory  == <<last, gated>>
callers == <<pc, op, item, todo, copy, asked, failed>>
config  == <<setting, about>>
history == <<told, cleared, settled, forgotten, unheard>>
vars    == <<broker, config, memory, callers, history>>

layout   == LayoutOf[setting]
encoding == EncodingOf[setting]
-----------------------------------------------------------------------------
(* Facts: what the consumer knows, apart from the topics it is told through. *)

LevelsOf(u) == {Resolved(EntityOf[u]).levels[i] : i \in DOMAIN Resolved(EntityOf[u]).levels}

Reach(l, s) == <<"reach", s.scope, s.address, IF l.kind = "channel" THEN s.channel ELSE "">>
FactsIn(l, dev, e, level) ==
  CASE level = "bridge" -> {<<"bridge">>}
    [] level = "device" -> {Reach(l, DeviceSlot(dev, e))}
    [] level = "parent" -> IF HasParent(dev)
                           THEN {Reach(l, [DeviceSlot(dev, e) EXCEPT !.address = dev.via])} ELSE {}
    [] level = "self"   -> {<<"self", b.slot>> : b \in Bind(e, "availability")}

\* DeviceTopic, ParentTopic, and the state topic Self writes: where a flip at a level
\* goes; an empty set is a level there is nothing to flip at.
TargetsIn(l, dev, e, level) ==
  CASE level = "bridge" -> {}
    [] level = "device" -> {AvailabilityTopic(l, DeviceSlot(dev, e))}
    [] level = "parent" -> IF HasParent(dev) THEN {AvailabilityTopic(l, ParentSlot(dev, e))} ELSE {}
    [] level = "self"   -> {StateTopic(l, b.slot) : b \in Bind(e, "availability")}

\* None of it depends on the state: tabulated per setting and entity.
FactTable ==
  [s \in Settings |-> [u \in Units |->
     [v \in LevelsOf(u) |-> FactsIn(LayoutOf[s], DeviceOf[u], EntityOf[u], v)]]]
TargetTable ==
  [s \in Settings |-> [u \in Units |->
     [v \in LevelsOf(u) |-> TargetsIn(LayoutOf[s], DeviceOf[u], EntityOf[u], v)]]]
ASSUME TargetAssumption ==
  \A s \in Settings, u \in Units : \A v \in LevelsOf(u) : TargetTable[s][u][v] \subseteq Topics \cup {<<>>}
DeclarationTable ==
  [s \in Settings |-> [u \in Units |->
     {Declared(LayoutOf[s], EncodingOf[s], DeviceOf[u], EntityOf[u]),
      DeclaredFrom(LayoutOf[s], EncodingOf[s], DeviceOf[u], EntityOf[u])}]]
FactsOfTable ==
  [s \in Settings |-> [u \in Units |-> UNION {FactTable[s][u][v] : v \in LevelsOf(u)}]]
FactsAtTable ==
  [s \in Settings |-> [t \in Topics |->
     UNION {UNION {FactTable[s][u][v] : v \in {x \in LevelsOf(u) : t \in TargetTable[s][u][x]}} :
              u \in Units}]]
AllFactsTable == [s \in Settings |-> UNION {FactsOfTable[s][u] : u \in Units}]

BridgeTable   == [s \in Settings |-> Bridge(LayoutOf[s])]

BridgeTopic       == BridgeTable[setting]
Facts(u, level)   == FactTable[setting][u][level]
Targets(u, level) == TargetTable[setting][u][level]
FactsOf(u)        == FactsOfTable[setting][u]
AllFacts          == AllFactsTable[setting]
FactsAt(S)        == UNION {about[t] : t \in S}

NoItem == [topic |-> <<>>, payload |-> Empty, fact |-> None, online |-> FALSE]

Init ==
  /\ setting \in Settings
  /\ BrokerInit([t \in Topics |->
       IF t # BridgeTopic THEN Empty ELSE IF IsSmartHome(layout) THEN Level(2) ELSE Token(TRUE)])
  /\ last = [t \in Topics |-> Empty] /\ gated = {}
  /\ pc = [c \in Callers |-> "idle"] /\ op = [c \in Callers |-> "none"]
  /\ item = [c \in Callers |-> NoItem]
  /\ todo = [c \in Callers |-> {}] /\ asked = [c \in Callers |-> {}]
  /\ copy = [c \in Callers |-> <<>>]
  /\ failed = [c \in Callers |-> FALSE]
  /\ told = [f \in AllFacts |-> IF f = <<"bridge">> THEN TRUE ELSE None]
  /\ about = FactsAtTable[setting]
  /\ cleared = {} /\ settled = TRUE /\ forgotten = {} /\ unheard = {}
-----------------------------------------------------------------------------
\* guard.
Collides(t) == t \in Guarded

\* Topics, and Online's second result.
Known     == {t \in DOMAIN last : last[t] # Empty}
Busy(c)   == {item[c].topic} \cup todo[c] \cup asked[c]
Calls(c, o) == o \in MayCall[c] /\ pc[c] = "idle"
Free(c, S) == OneWriter => \A d \in Callers \ {c} : Busy(d) \cap S = {}

Unsure(S) ==
  /\ told' = [f \in AllFacts |-> IF f \in FactsAt(S) THEN None ELSE told[f]]
  /\ cleared' = cleared \ S
Heard(t) == unheard' = unheard \ {t}
Idle(c) ==
  /\ pc' = [pc EXCEPT ![c] = "idle"] /\ op' = [op EXCEPT ![c] = "none"]
  /\ item' = [item EXCEPT ![c] = NoItem] /\ todo' = [todo EXCEPT ![c] = {}]
  /\ asked' = [asked EXCEPT ![c] = {}] /\ failed' = [failed EXCEPT ![c] = FALSE]
  /\ copy' = [copy EXCEPT ![c] = <<>>]

\* write, up to the transport: the guard, then the gate under mu. A repeat returns nil
\* and sends nothing.
Write(c, t, p, f, online) ==
  /\ Free(c, {t}) /\ t # <<>> /\ ~Collides(t)
  /\ IF t \in gated /\ last[t] = p
     THEN /\ told' = IF settled /\ t \notin unheard THEN [told EXCEPT ![f] = online] ELSE told
          /\ UNCHANGED <<broker, config, memory, callers, cleared, settled, forgotten, unheard>>
     ELSE /\ pc' = [pc EXCEPT ![c] = "send"] /\ op' = [op EXCEPT ![c] = "flip"]
          /\ item' = [item EXCEPT ![c] = [topic |-> t, payload |-> p, fact |-> f, online |-> online]]
          /\ Unsure({t})
          /\ UNCHANGED <<broker, config, memory, todo, copy, asked, failed, settled, forgotten, unheard>>

\* Device and Publish: under mqtt-smarthome the item is the state plane's.
Device(c, u, online) ==
  /\ ~IsSmartHome(layout)
  /\ \E t \in Targets(u, "device"), f \in Facts(u, "device") : Write(c, t, Token(online), f, online)

\* Parent, for a device that has one.
Parent(c, u, online) ==
  /\ ~IsSmartHome(layout)
  /\ \E t \in Targets(u, "parent"), f \in Facts(u, "parent") : Write(c, t, Token(online), f, online)

\* Self, for an entity with an availability binding.
Self(c, u, available) ==
  /\ encoding # "status"
  /\ \E t \in Targets(u, "self"), f \in Facts(u, "self") :
       Write(c, t, SelfPayload(encoding, available), f, available)

\* A walk over topics, sent one at a time without mu.
Walk(c, o, S, clearing) ==
  /\ Free(c, S)
  /\ pc' = [pc EXCEPT ![c] = "walk"] /\ op' = [op EXCEPT ![c] = o]
  /\ todo' = [todo EXCEPT ![c] = S] /\ asked' = [asked EXCEPT ![c] = clearing]
  /\ copy' = [copy EXCEPT ![c] = [t \in S |-> IF o = "republish" THEN last[t] ELSE Empty]]
  /\ Unsure(S)
  /\ UNCHANGED <<broker, config, memory, item, failed, settled, forgotten, unheard>>

\* Retract, of topics this process may never have written.
Retract(c, S) == Walk(c, "retract", S, S)

\* Sweep: what the index holds and live does not claim is retracted.
Sweep(c, live) == Walk(c, "sweep", Known \ live, Known \ live)

\* Republish: the payloads are copied under mu.
Republish(c) == Walk(c, "republish", Known, {})

\* The entries leave the map.
Drop(S) ==
  /\ last' = [t \in DOMAIN last |-> IF t \in S THEN Empty ELSE last[t]]
  /\ gated' = gated \ S

\* Forget.
Forget(S) ==
  /\ Drop(S) /\ forgotten' = forgotten \cup S
  /\ cleared' = cleared \ S
  /\ UNCHANGED <<broker, config, callers, told, settled, unheard>>

\* Reset: every entry kept, none of them a reason to suppress.
Reset ==
  /\ gated' = {} /\ settled' = TRUE
  /\ UNCHANGED <<broker, config, last, callers, told, cleared, forgotten, unheard>>
-----------------------------------------------------------------------------
HandOver(c) ==
  /\ pc[c] = "send"
  /\ Send(c, item[c].topic, item[c].payload, QoS, TRUE) \/ Refuse(c)
  /\ pc' = [pc EXCEPT ![c] = "wait"]
  /\ UNCHANGED <<config, memory, op, item, todo, copy, asked, failed, history>>

\* write, answered: recorded when accepted; a failure neither records nor removes.
Record(c) ==
  LET i == item[c]
  IN  /\ pc[c] = "wait" /\ op[c] = "flip" /\ answer[c] = "accepted"
      /\ last' = [last EXCEPT ![i.topic] = i.payload] /\ gated' = gated \cup {i.topic}
      /\ told' = [told EXCEPT ![i.fact] = i.online]
      /\ forgotten' = IF \E j \in DOMAIN wire : wire[j].topic = i.topic
                      THEN forgotten ELSE forgotten \ {i.topic}
      /\ Answered(c) /\ Idle(c) /\ Heard(i.topic)
      /\ UNCHANGED <<retained, wire, connection, config, cleared, settled>>

\* Mutant of WriteFails: the entry is deleted, as a retry might seem to want.
WriteFailsDeleting(c) ==
  /\ pc[c] = "wait" /\ op[c] = "flip" /\ answer[c] = "failed"
  /\ last' = [last EXCEPT ![item[c].topic] = Empty] /\ gated' = gated \ {item[c].topic}
  /\ Answered(c) /\ Idle(c)
  /\ UNCHANGED <<retained, wire, connection, config, history>>

WriteFails(c) ==
  /\ pc[c] = "wait" /\ op[c] = "flip" /\ answer[c] = "failed"
  /\ Answered(c) /\ Idle(c)
  /\ UNCHANGED <<retained, wire, connection, config, memory, history>>

\* One topic of a walk: a guarded one is an error of the list, the others are sent.
WalkStep(c) ==
  /\ pc[c] = "walk"
  /\ \E t \in todo[c] :
       /\ todo' = [todo EXCEPT ![c] = @ \ {t}]
       /\ IF Collides(t)
          THEN /\ failed' = [failed EXCEPT ![c] = TRUE]
               /\ UNCHANGED <<broker, pc, item>>
          ELSE /\ Send(c, t, copy[c][t], QoS, TRUE) \/ Refuse(c)
               /\ pc' = [pc EXCEPT ![c] = "wait"]
               /\ item' = [item EXCEPT ![c] = [NoItem EXCEPT !.topic = t, !.payload = copy[c][t]]]
               /\ UNCHANGED failed
       /\ UNCHANGED <<config, memory, op, copy, asked, history>>

\* Its answer. A retraction accepted leaves the map; the walk goes on after an error.
WalkAnswered(c) ==
  LET t    == item[c].topic
      ok   == answer[c] = "accepted"
      gone == IF ok /\ op[c] # "republish" THEN {t} ELSE {}
  IN  /\ pc[c] = "wait" /\ op[c] # "flip" /\ answer[c] \in {"accepted", "failed"}
      /\ Drop(gone)
      /\ failed' = [failed EXCEPT ![c] = @ \/ ~ok]
      /\ pc' = [pc EXCEPT ![c] = "walk"] /\ item' = [item EXCEPT ![c] = NoItem]
      /\ Answered(c) /\ IF ok THEN Heard(t) ELSE UNCHANGED unheard
      /\ UNCHANGED <<retained, wire, connection, config, op, todo, copy, asked, told, cleared, settled, forgotten>>

\* Mutant of Report: the list that was attempted.
ReportAttempted(c, error) == IF op[c] = "retract" /\ error THEN {} ELSE asked[c]

\* What a Retract or a Sweep that ends tells its caller is gone.
Report(c, error) ==
  CASE ~error -> asked[c]
    [] error /\ op[c] = "sweep" -> {t \in asked[c] : t \notin Known}
    [] OTHER -> {}

\* The list is done, or the context has ended, which is an error too.
WalkEnds(c) ==
  /\ pc[c] = "walk"
  /\ \/ todo[c] = {} /\ cleared' = cleared \cup Report(c, failed[c])
     \/ "cancel" \in Faults /\ todo[c] # {} /\ cleared' = cleared \cup Report(c, TRUE)
  /\ Idle(c)
  /\ UNCHANGED <<broker, config, memory, told, settled, forgotten, unheard>>
-----------------------------------------------------------------------------
Read ==
  /\ BrokerReads
  /\ UNCHANGED <<config, memory, callers, history>>

LoseAnswer(c) ==
  /\ pc[c] = "wait" /\ AnswerLost(c)
  /\ unheard' = unheard \cup {item[c].topic} /\ Cardinality(unheard') <= MaxUnheard
  /\ UNCHANGED <<config, memory, callers, told, cleared, settled, forgotten>>

\* The will goes out when the connection drops, unless the store went with it.
NewConnection ==
  /\ Reconnect(\E c \in Callers : pc[c] # "idle", [retained EXCEPT ![BridgeTopic] = IF IsSmartHome(layout) THEN Level(0) ELSE Token(FALSE)])
  /\ settled' = FALSE /\ told' = [f \in AllFacts |-> None] /\ cleared' = {}
  /\ UNCHANGED <<config, memory, callers, forgotten, unheard>>

\* Runtime.AnnounceOnline, which every reconnect owes (birth.go).
Announce ==
  /\ told[<<"bridge">>] = None
  /\ retained' = [retained EXCEPT ![BridgeTopic] =
                    IF IsSmartHome(layout) THEN Level(2) ELSE Token(TRUE)]
  /\ told' = [told EXCEPT ![<<"bridge">>] = TRUE]
  /\ UNCHANGED <<wire, answer, connection, config, memory, callers, cleared, settled, forgotten, unheard>>

\* A consumer flips the levels its entities declare.
At(level) == {u \in Units : level \in LevelsOf(u)}

Begin(c) ==
  \/ Calls(c, "device") /\ \E u \in At("device"), b \in BOOLEAN : Device(c, u, b)
  \/ Calls(c, "parent") /\ \E u \in At("parent"), b \in BOOLEAN : Parent(c, u, b)
  \/ Calls(c, "self")   /\ \E u \in At("self"), b \in BOOLEAN : Self(c, u, b)
  \/ Calls(c, "retract") /\ Retract(c, Gone)
  \/ Calls(c, "sweep")   /\ \E live \in SUBSET Known : live # Known /\ Sweep(c, live)
  \/ Calls(c, "republish") /\ Republish(c)
  \/ Calls(c, "forget")  /\ \E t \in Known \cap Gone : Forget({t})
  \/ Calls(c, "reset")   /\ Reset

Step(c) ==
  HandOver(c) \/ Record(c) \/ WriteFails(c) \/ WalkStep(c) \/ WalkAnswered(c) \/ WalkEnds(c)

Next ==
  \/ \E c \in Callers : Begin(c) \/ Step(c) \/ LoseAnswer(c)
  \/ Read \/ NewConnection \/ Announce

Spec == Init /\ [][Next]_vars
-----------------------------------------------------------------------------
Quiet(t) ==
  /\ \A c \in Callers : t # item[c].topic /\ t \notin todo[c] \cup asked[c]
  /\ \A i \in DOMAIN wire : wire[i].topic # t

\* A context declares by the device, or by the entity's binding.
Declarations(u) == DeclarationTable[setting][u]

\* Home Assistant, availability_mode all, on what the broker retains.
SeenAvailable(entries) ==
  \A entry \in entries : Reads(entry, retained[entry.topic]) = entry.yes

\* Home Assistant shows an entity available exactly when the last flips of all its
\* levels that returned nil said so: the declared topic, template and payload words
\* and the published ones agree, whatever was suppressed, retracted, replayed, refused
\* or reconnected in between (context.go:203-325, availability.go:202-225, 362-403, 463-498).
HomeAssistantSees ==
  \A u \in Units :
    (\A f \in FactsOf(u) : told[f] # None) =>
      \A entries \in Declarations(u) :
        (\A entry \in entries : Quiet(entry.topic)) =>
          (SeenAvailable(entries) <=> \A f \in FactsOf(u) : told[f] = TRUE)

\* What the broker retains of this process is in the index, so Sweep and Republish
\* reach it: no flip that failed and no Reset drops a topic (availability.go:468-492).
NothingLeftBehind ==
  \A t \in DOMAIN retained \ {BridgeTopic} :
    retained[t] # Empty /\ t \notin forgotten \cup unheard /\ QoS = 1 /\ Quiet(t)
    => last[t] # Empty

\* A topic Retract or Sweep reported gone is gone, also when the pass failed half way
\* or was cancelled (availability.go:735-745).
ReportedIsGone ==
  \A t \in cleared : Quiet(t) => retained[t] = Empty
=============================================================================
