-------------------------- MODULE AvailabilityProofs -------------------------
(***************************************************************************)
(* What Retract and Sweep report gone is gone, what the broker retains of  *)
(* this process is in the index, and Home Assistant shows what the flips   *)
(* said, whatever the callers, the topics, the layouts and the faults of   *)
(* the transport are.                                                      *)
(***************************************************************************)
EXTENDS AvailabilityGate, TLAPS

(***************************************************************************)
(* Where a topic settles once the broker has read what is on the wire.     *)
(***************************************************************************)

\* The messages of w for t that the broker will keep.
For(w, t) == {i \in 1..Len(w) : w[i].retain /\ w[i].topic = t}

\* What t holds once the broker, retaining r, has read all of w is in S.
Lands(w, r, t, S) ==
  /\ \A i \in For(w, t) : (\A j \in For(w, t) : j <= i) => w[i].payload \in S
  /\ For(w, t) = {} => r[t] \in S

\* The last message decides.
LEMMA LandsOnLast ==
  ASSUME NEW M, NEW w \in Seq(M), NEW r, NEW t, NEW i \in For(w, t), \A j \in For(w, t) : j <= i
  PROVE  Lands(w, r, t, {w[i].payload})
  <1>1. ASSUME NEW k \in For(w, t), \A j \in For(w, t) : j <= k PROVE k = i
    BY <1>1 DEF For
  <1>2. QED
    BY <1>1 DEF Lands

LEMMA LandsBehindOther ==
  ASSUME NEW M, NEW w \in Seq(M), NEW r, NEW t, NEW S, NEW m \in M,
         ~(m.retain /\ m.topic = t), Lands(w, r, t, S)
  PROVE  Lands(Append(w, m), r, t, S)
  <1>. DEFINE v == Append(w, m)
  <1>1. /\ Len(w) \in Nat /\ Len(v) = Len(w) + 1 /\ v[Len(w) + 1] = m
        /\ \A i \in 1..Len(w) : v[i] = w[i]
    OBVIOUS
  <1>. HIDE DEF v
  <1>2. For(v, t) = For(w, t) /\ \A i \in For(w, t) : v[i] = w[i]
    BY <1>1 DEF For
  <1>3. Lands(v, r, t, S)
    BY <1>2 DEF Lands
  <1>4. QED
    BY <1>3 DEF v

LEMMA LandsAfterAppend ==
  ASSUME NEW M, NEW w \in Seq(M), NEW r, NEW t, NEW m \in M, m.retain, m.topic = t
  PROVE  /\ Len(w) + 1 \in For(Append(w, m), t)
         /\ \A j \in For(Append(w, m), t) : j <= Len(w) + 1
         /\ Lands(Append(w, m), r, t, {m.payload})
  <1>1. /\ Len(w) \in Nat /\ Len(Append(w, m)) = Len(w) + 1 /\ Append(w, m)[Len(w) + 1] = m
        /\ Append(w, m) \in Seq(M)
    OBVIOUS
  <1>2. Len(w) + 1 \in For(Append(w, m), t) /\ \A j \in For(Append(w, m), t) : j <= Len(w) + 1
    BY <1>1 DEF For
  <1>3. QED
    BY <1>1, <1>2, LandsOnLast

\* The broker's reading changes nothing of where a topic settles.
LEMMA LandsRead ==
  ASSUME NEW X, NEW M, NEW w \in Seq(M), NEW r \in [Topics -> X], NEW t \in Topics, NEW S,
         w # <<>>, Lands(w, r, t, S),
         NEW s, s = IF Head(w).retain THEN [r EXCEPT ![Head(w).topic] = Head(w).payload] ELSE r
  PROVE  Lands(Tail(w), s, t, S)
  <1>. DEFINE v == Tail(w)
  <1>1. /\ Len(w) \in Nat \ {0} /\ Len(v) = Len(w) - 1 /\ Head(w) = w[1]
        /\ \A i \in 1..Len(v) : v[i] = w[i + 1]
    OBVIOUS
  <1>. HIDE DEF v
  <1>2. \A i \in For(v, t) : i + 1 \in For(w, t) /\ v[i] = w[i + 1]
    BY <1>1 DEF For
  <1>3. \A j \in For(w, t) : j # 1 => j - 1 \in For(v, t)
    BY <1>1 DEF For
  <1>4. ASSUME NEW i \in For(v, t), \A j \in For(v, t) : j <= i
        PROVE  v[i].payload \in S
    <2>1. \A j \in For(w, t) : j <= i + 1
      <3>1. SUFFICES ASSUME NEW j \in For(w, t), j # 1 PROVE j <= i + 1
        BY <1>1 DEF For
      <3>2. j - 1 <= i
        BY <1>3, <1>4, <3>1
      <3>3. QED
        BY <3>2 DEF For
    <2>2. QED
      BY <1>2, <2>1 DEF Lands
  <1>5. ASSUME For(v, t) = {} PROVE s[t] \in S
    <2>1. \A j \in For(w, t) : j = 1
      BY <1>3, <1>5
    <2>2. CASE 1 \in For(w, t)
      <3>1. w[1].payload \in S
        BY <2>1, <2>2 DEF Lands
      <3>2. s[t] = w[1].payload
        BY <1>1, <2>2 DEF For
      <3>3. QED
        BY <3>1, <3>2
    <2>3. CASE 1 \notin For(w, t)
      <3>1. r[t] \in S
        BY <2>1, <2>3 DEF Lands
      <3>2. s[t] = r[t]
        <4>1. w[1] \in M /\ 1 \in 1..Len(w)
          BY <1>1
        <4>2. ~(w[1].retain /\ w[1].topic = t)
          BY <2>3, <4>1 DEF For
        <4>3. QED
          BY <1>1, <4>1, <4>2
      <3>3. QED
        BY <3>1, <3>2
    <2>4. QED
      BY <2>2, <2>3
  <1>6. Lands(v, s, t, S)
    BY <1>4, <1>5 DEF Lands
  <1>7. QED
    BY <1>6 DEF v

\* Nor does it matter whose a message is.
LEMMA LandsUnnamed ==
  ASSUME NEW w, NEW v, NEW r, NEW t, NEW S, Len(v) = Len(w), Lands(w, r, t, S),
         \A i \in 1..Len(w) : v[i].retain = w[i].retain /\ v[i].topic = w[i].topic /\ v[i].payload = w[i].payload
  PROVE  For(v, t) = For(w, t) /\ Lands(v, r, t, S)
  <1>1. For(v, t) = For(w, t)
    BY DEF For
  <1>2. \A i \in For(w, t) : v[i].payload = w[i].payload
    BY DEF For
  <1>3. QED
    BY <1>1, <1>2 DEF Lands

-----------------------------------------------------------------------------

(* The messages, and where a topic settles.                                *)

\* What a flip writes, and what anybody writes.
Flips    == {Token(b) : b \in BOOLEAN} \cup {Bool(b) : b \in BOOLEAN} \cup {Envelope(b, TRUE) : b \in BOOLEAN}
Payloads == Flips \cup {Level(n) : n \in 0..2} \cup {Empty}
Messages == {m \in [from : Callers \cup {None}, topic : Topics, payload : Payloads, retain : BOOLEAN] : m.retain}

Settles(t, S) == Lands(wire, retained, t, S)

Writes(c)  == Busy(c) \cap Topics
Waits(c)   == pc[c] = "wait"
Pending(t) == \E c \in Callers : Waits(c) /\ item[c].topic = t /\ answer[c] # "failed"
Clears(c)  == op[c] \in {"retract", "sweep"}

\* The caller contract: one goroutine at a time works on a topic, a connection changes
\* between calls, Forget is called where Sweep is; and the bridge's topic is the
\* announcer's own.
Regime ==
  /\ OneWriter = TRUE /\ "reconnect" \notin Faults
  /\ \A c, d \in Callers : "forget" \in MayCall[c] /\ "sweep" \in MayCall[d] => c = d
  /\ \A s \in Settings : /\ BridgeTable[s] \notin Gone
                         /\ \A u \in Units : \A v \in LevelsOf(u) : BridgeTable[s] \notin TargetTable[s][u][v]

-----------------------------------------------------------------------------
(* The inductive invariant.                                                  *)

BrokerTyped ==
  /\ retained \in [Topics -> Payloads]
  /\ wire \in Seq(Messages) /\ answer \in [Callers -> Answers]

MemoryTyped ==
  /\ setting \in Settings /\ last \in [Topics -> Payloads]
  /\ gated \subseteq Topics /\ \A t \in gated : last[t] # Empty

CallersTyped ==
  /\ pc \in [Callers -> {"idle", "send", "wait", "walk"}]
  /\ op \in [Callers -> {"none", "flip", "retract", "sweep", "republish"}]
  /\ item = [c \in Callers |-> item[c]] /\ copy = [c \in Callers |-> copy[c]]
  /\ todo \in [Callers -> SUBSET Topics] /\ asked \in [Callers -> SUBSET Topics]
  /\ failed \in [Callers -> BOOLEAN]

\* A frame says what its caller is doing.
Framed(c) ==
  /\ pc[c] = "idle" <=> op[c] = "none"
  /\ pc[c] \in {"idle", "walk"} => item[c] = NoItem
  /\ pc[c] = "send" => op[c] = "flip"
  /\ pc[c] \in {"send", "wait"} => item[c].topic \in Topics /\ item[c].payload \in Payloads
  /\ op[c] = "flip" => pc[c] \in {"send", "wait"} /\ item[c].payload # Empty
  /\ op[c] \in {"none", "flip"} => todo[c] = {}
  /\ item[c].topic \notin todo[c]
  /\ ~Clears(c) => asked[c] = {}
  /\ Clears(c) => todo[c] \subseteq asked[c] /\ \A t \in todo[c] : copy[c][t] = Empty
  /\ Clears(c) /\ pc[c] = "wait" => item[c].payload = Empty /\ item[c].topic \in asked[c]
  /\ op[c] = "republish" => \A t \in todo[c] : copy[c][t] \in Payloads
  /\ op[c] = "sweep" => "sweep" \in MayCall[c]

\* No topic has two writers, none is the bridge's, and none is reported gone.
Alone ==
  /\ \A c, d \in Callers : c # d => Writes(c) \cap Writes(d) = {}
  /\ \A c \in Callers : Writes(c) \cap cleared = {} /\ BridgeTopic \notin Writes(c)
  /\ cleared \subseteq Topics /\ BridgeTopic \notin cleared \cup Known

\* A message whose answer is awaited is its topic's last.
Sent ==
  \A i \in 1..Len(wire) : \A c \in Callers : wire[i].from = c =>
    /\ Waits(c) /\ answer[c] = "sent"
    /\ wire[i].topic = item[c].topic /\ wire[i].payload = item[c].payload
    /\ \A j \in For(wire, item[c].topic) : j <= i

\* An accepted message is what its topic settles on; at QoS 1 it has.
Landed ==
  \A c \in Callers : Waits(c) /\ answer[c] = "accepted" =>
    /\ Settles(item[c].topic, {item[c].payload})
    /\ QoS = 1 => For(wire, item[c].topic) = {}

\* At QoS 1 somebody waits for every message on the wire, or was left without an answer.
Delivered ==
  QoS = 1 => \A t \in Topics : For(wire, t) # {} => t \in unheard \/ Pending(t)

\* What Republish copied is known, unless it was forgotten meanwhile.
Copied(c) == op[c] = "republish" => Writes(c) \subseteq Known \cup forgotten

\* A topic of a list that was answered without an error, or that left the index on the
\* way, settles on nothing; what a Sweep has not come to is in the index.
Walked(c) ==
  /\ Clears(c) => \A t \in asked[c] \ (todo[c] \cup {item[c].topic}) :
       ~failed[c] \/ (op[c] = "sweep" /\ t \notin Known) => Settles(t, {Empty})
  /\ op[c] = "sweep" => (todo[c] \cup {item[c].topic}) \cap Topics \subseteq Known

\* What was reported gone settles on nothing.
Reported == \A t \in cleared : Settles(t, {Empty})

\* A topic nobody has in mind holds nothing of this process.
Traced ==
  QoS = 1 =>
    \A t \in Topics \ (Known \cup forgotten \cup unheard \cup {BridgeTopic}) :
      ~Pending(t) => retained[t] = Empty

AvInv ==
  /\ BrokerTyped /\ MemoryTyped /\ CallersTyped
  /\ \A c \in Callers : Framed(c) /\ Copied(c) /\ Walked(c)
  /\ Alone /\ Sent /\ Landed /\ Delivered /\ Reported /\ Traced

-----------------------------------------------------------------------------
(* What its parts depend on.                                                 *)

LEMMA BridgeWords ==
  Level(0) \in Payloads /\ Level(2) \in Payloads /\ Token(TRUE) \in Payloads /\ Token(FALSE) \in Payloads
  <1>1. 0 \in 0..2 /\ 2 \in 0..2
    OBVIOUS
  <1>2. \A n \in 0..2 : Level(n) \in Payloads
    BY DEF Payloads
  <1>3. \A b \in BOOLEAN : Token(b) \in Payloads
    BY DEF Payloads, Flips
  <1>4. QED
    BY <1>1, <1>2, <1>3

LEMMA WaitersWrite ==
  ASSUME NEW c \in Callers, Framed(c), Waits(c)
  PROVE  item[c].topic \in Topics /\ item[c].topic \in Writes(c)
  BY DEF Framed, Waits, Writes, Busy

\* Nobody else's call moves.
Others(c) ==
  \A d \in Callers \ {c} :
    /\ pc'[d] = pc[d] /\ op'[d] = op[d] /\ item'[d] = item[d] /\ todo'[d] = todo[d]
    /\ asked'[d] = asked[d] /\ failed'[d] = failed[d] /\ copy'[d] = copy[d] /\ answer'[d] = answer[d]

LEMMA OthersStand ==
  ASSUME NEW c \in Callers, Others(c)
  PROVE  \A d \in Callers \ {c} : /\ Waits(d)' = Waits(d) /\ Writes(d)' = Writes(d)
                                  /\ Clears(d)' = Clears(d) /\ (Framed(d) => Framed(d)')
  <1>1. SUFFICES ASSUME NEW d \in Callers \ {c}
        PROVE  /\ Waits(d)' = Waits(d) /\ Writes(d)' = Writes(d)
               /\ Clears(d)' = Clears(d) /\ (Framed(d) => Framed(d)')
    OBVIOUS
  <1>2. Waits(d)' = Waits(d) /\ Writes(d)' = Writes(d) /\ Clears(d)' = Clears(d)
    BY DEF Others, Waits, Writes, Clears, Busy
  <1>3. Framed(d) => Framed(d)'
    BY <1>2 DEF Others, Framed
  <1>4. QED
    BY <1>2, <1>3

\* Where calls stand still, so do their frames.
LEMMA CallsStand ==
  ASSUME UNCHANGED callers
  PROVE  /\ CallersTyped' = CallersTyped
         /\ \A c \in Callers : /\ Waits(c)' = Waits(c) /\ Writes(c)' = Writes(c)
                               /\ Clears(c)' = Clears(c) /\ Framed(c)' = Framed(c)
  <1>1. CallersTyped' = CallersTyped
    BY DEF callers, CallersTyped
  <1>2. \A c \in Callers : Waits(c)' = Waits(c) /\ Writes(c)' = Writes(c) /\ Clears(c)' = Clears(c)
    BY DEF callers, Waits, Writes, Clears, Busy
  <1>3. \A c \in Callers : Framed(c)' = Framed(c)
    BY <1>2 DEF callers, Framed
  <1>4. QED
    BY <1>1, <1>2, <1>3

\* A step that moves no call, no message and no entry keeps everything.
LEMMA StandsStill ==
  ASSUME AvInv, UNCHANGED <<broker, config, last, callers, cleared, forgotten, unheard>>,
         gated' \subseteq gated
  PROVE  AvInv'
  <1>1. BrokerTyped' /\ MemoryTyped' /\ Known' = Known /\ BridgeTopic' = BridgeTopic
    BY DEF AvInv, BrokerTyped, MemoryTyped, Known, BridgeTopic, broker, config
  <1>2. CallersTyped' /\ \A c \in Callers : /\ Waits(c)' = Waits(c) /\ Writes(c)' = Writes(c)
                                            /\ Clears(c)' = Clears(c) /\ Framed(c)'
    BY CallsStand DEF AvInv
  <1>3. \A t : Pending(t)' = Pending(t)
    BY <1>2 DEF Pending, callers, broker
  <1>4. \A c \in Callers : Copied(c)' /\ Walked(c)'
    BY <1>1, <1>2 DEF AvInv, Copied, Walked, Settles, callers, broker
  <1>5. Alone'
    BY <1>1, <1>2 DEF AvInv, Alone
  <1>6. Sent' /\ Landed'
    BY <1>2 DEF AvInv, Sent, Landed, Settles, callers, broker
  <1>7. Delivered' /\ Reported' /\ Traced'
    BY <1>1, <1>3 DEF AvInv, Delivered, Reported, Traced, Settles, broker
  <1>8. QED
    BY <1>1, <1>2, <1>4, <1>5, <1>6, <1>7 DEF AvInv

LEMMA SuppressedKeeps ==
  ASSUME AvInv, UNCHANGED <<broker, config, memory, callers, cleared, settled, forgotten, unheard>>
  PROVE  AvInv'
  BY StandsStill DEF memory

LEMMA ResetKeeps ==
  ASSUME AvInv, Reset
  PROVE  AvInv'
  <1>1. UNCHANGED <<broker, config, last, callers, cleared, forgotten, unheard>> /\ gated' \subseteq gated
    BY DEF Reset
  <1>2. QED
    BY <1>1, StandsStill

\* A topic is forgotten while no sweep is under way.
LEMMA ForgetKeeps ==
  ASSUME AvInv, Regime, NEW c \in Callers, Calls(c, "forget"), NEW S \in SUBSET Topics, Forget(S)
  PROVE  AvInv'
  <1>1. /\ UNCHANGED <<retained, wire, answer, setting, callers, unheard>>
        /\ last' = [t \in DOMAIN last |-> IF t \in S THEN Empty ELSE last[t]]
        /\ gated' = gated \ S /\ forgotten' = forgotten \cup S /\ cleared' = cleared \ S
    BY DEF Forget, Drop, broker, config
  <1>2. BrokerTyped' /\ MemoryTyped'
    BY <1>1 DEF AvInv, BrokerTyped, MemoryTyped, Payloads
  <1>3. Known' = Known \ S /\ BridgeTopic' = BridgeTopic
    BY <1>1 DEF AvInv, MemoryTyped, Known, BridgeTopic
  <1>4. CallersTyped' /\ \A d \in Callers : /\ Waits(d)' = Waits(d) /\ Writes(d)' = Writes(d)
                                            /\ Clears(d)' = Clears(d) /\ Framed(d)'
    BY <1>1, CallsStand DEF AvInv
  <1>5. \A t : Pending(t)' = Pending(t)
    BY <1>1, <1>4 DEF Pending, callers
  <1>6. \A d \in Callers : op[d] # "sweep"
    BY DEF AvInv, Framed, Regime, Calls
  <1>7. \A d \in Callers : Copied(d)' /\ Walked(d)'
    BY <1>1, <1>3, <1>4, <1>6 DEF AvInv, Copied, Walked, Settles, callers
  <1>8. Alone'
    BY <1>1, <1>3, <1>4 DEF AvInv, Alone
  <1>9. Sent' /\ Landed'
    BY <1>1, <1>4 DEF AvInv, Sent, Landed, Settles, callers
  <1>10. Delivered' /\ Reported' /\ Traced'
    BY <1>1, <1>3, <1>5 DEF AvInv, Delivered, Reported, Traced, Settles
  <1>11. QED
    BY <1>2, <1>4, <1>7, <1>8, <1>9, <1>10 DEF AvInv

-----------------------------------------------------------------------------
(* Calls that begin.                                                         *)

\* A topic somebody may write next is nobody's now.
LEMMA FreeToWrite ==
  ASSUME AvInv, Regime, NEW c \in Callers, pc[c] = "idle", NEW S, Free(c, S)
  PROVE  /\ Writes(c) = {} /\ \A d \in Callers : Writes(d) \cap S = {}
         /\ \A t \in S : ~Pending(t)
  <1>1. item[c] = NoItem /\ todo[c] = {} /\ asked[c] = {}
    BY DEF AvInv, Framed, Clears
  <1>2. Writes(c) = {}
    BY <1>1, GateAssumption DEF GateAssumption, Writes, Busy, NoItem
  <1>3. \A d \in Callers : Writes(d) \cap S = {}
    BY <1>2 DEF Free, Writes, Regime
  <1>4. ASSUME NEW t \in S, Pending(t) PROVE FALSE
    <2>1. PICK d \in Callers : Waits(d) /\ item[d].topic = t
      BY <1>4 DEF Pending
    <2>2. QED
      BY <1>3, <2>1, WaitersWrite DEF AvInv
  <1>5. QED
    BY <1>2, <1>3, <1>4

\* c, idle so far, takes topics nobody else writes; nobody holds them to be gone.
LEMMA BeginKeeps ==
  ASSUME AvInv, Regime, NEW c \in Callers, pc[c] = "idle",
         UNCHANGED <<broker, config, memory, settled, forgotten, unheard>>, Others(c),
         CallersTyped', Framed(c)', pc'[c] # "wait",
         NEW S \in SUBSET Topics, Writes(c)' \subseteq S, Free(c, S), BridgeTopic \notin S,
         cleared' = cleared \ S,
         op'[c] = "republish" => S \subseteq Known,
         Clears(c)' => asked'[c] = todo'[c],
         op'[c] = "sweep" => S \subseteq Known /\ item'[c] = NoItem
  PROVE  AvInv'
  <1>1. \A d \in Callers \ {c} : /\ Waits(d)' = Waits(d) /\ Writes(d)' = Writes(d)
                                 /\ Clears(d)' = Clears(d) /\ Framed(d)'
    BY OthersStand DEF AvInv
  <1>2. ~Waits(c) /\ ~Waits(c)'
    BY DEF Waits
  <1>3. \A u : Pending(u)' = Pending(u)
    BY <1>1, <1>2 DEF Pending, Others
  <1>4. \A d \in Callers : Writes(d) \cap S = {}
    BY FreeToWrite
  <1>5. BrokerTyped' /\ MemoryTyped' /\ Known' = Known /\ BridgeTopic' = BridgeTopic
    BY DEF AvInv, BrokerTyped, MemoryTyped, Known, BridgeTopic, broker, config, memory
  <1>6. Copied(c)' /\ Walked(c)'
    <2>1. Copied(c)'
      BY <1>5 DEF Copied
    <2>2. Clears(c)' => asked'[c] \ (todo'[c] \cup {item'[c].topic}) = {}
      OBVIOUS
    <2>3. op'[c] = "sweep" => (todo'[c] \cup {item'[c].topic}) \cap Topics \subseteq Known
      BY GateAssumption DEF GateAssumption, Writes, Busy, NoItem
    <2>4. QED
      BY <1>5, <2>1, <2>2, <2>3 DEF Walked
  <1>7. ASSUME NEW d \in Callers \ {c} PROVE Copied(d)' /\ Walked(d)'
    BY <1>1, <1>5, <1>7 DEF AvInv, Copied, Walked, Settles, Others, broker
  <1>8. Alone'
    BY <1>1, <1>4, <1>5 DEF AvInv, Alone
  <1>9. Sent'
    BY <1>1, <1>2 DEF AvInv, Sent, broker, Others
  <1>10. Landed'
    BY <1>1, <1>2 DEF AvInv, Landed, Settles, broker, Others
  <1>11. Delivered' /\ Reported' /\ Traced'
    BY <1>3, <1>5 DEF AvInv, Delivered, Reported, Traced, Settles, broker
  <1>12. QED
    BY <1>1, <1>5, <1>6, <1>7, <1>8, <1>9, <1>10, <1>11 DEF AvInv

\* A flip writes a topic of its own, and never the zero-length payload.
LEMMA WriteKeeps ==
  ASSUME AvInv, Regime, NEW c \in Callers, pc[c] = "idle", NEW t \in Topics, t # BridgeTopic,
         NEW p \in Flips, NEW f, NEW online, Write(c, t, p, f, online)
  PROVE  AvInv'
  <1>1. CASE t \in gated /\ last[t] = p
    BY <1>1, SuppressedKeeps DEF Write
  <1>2. CASE ~(t \in gated /\ last[t] = p)
    <2>1. /\ pc' = [pc EXCEPT ![c] = "send"] /\ op' = [op EXCEPT ![c] = "flip"]
          /\ item' = [item EXCEPT ![c] = [topic |-> t, payload |-> p, fact |-> f, online |-> online]]
          /\ cleared' = cleared \ {t} /\ Free(c, {t})
          /\ UNCHANGED <<broker, config, memory, todo, copy, asked, failed, settled, forgotten, unheard>>
      BY <1>2 DEF Write, Unsure
    <2>2. CallersTyped
      BY DEF AvInv
    <2>3. /\ Others(c) /\ pc'[c] = "send" /\ op'[c] = "flip"
          /\ item'[c].topic = t /\ item'[c].payload = p
      BY <2>1, <2>2 DEF CallersTyped, Others, broker
    <2>4. todo'[c] = {} /\ asked'[c] = {}
      BY <2>1 DEF AvInv, Framed, Clears
    <2>5. CallersTyped'
      BY <2>1, <2>2 DEF CallersTyped
    <2>6. p \in Payloads /\ p # Empty
      BY GateAssumption DEF GateAssumption, Flips, Payloads
    <2>7. ~Clears(c)'
      BY <2>3 DEF Clears
    <2>8. Framed(c)'
      BY <2>3, <2>4, <2>6, <2>7 DEF Framed
    <2>9. Writes(c)' \subseteq {t} /\ {t} \in SUBSET Topics
      BY <2>3, <2>4 DEF Writes, Busy
    <2>10. QED
      BY <2>1, <2>3, <2>5, <2>7, <2>8, <2>9, BeginKeeps
  <1>3. QED
    BY <1>1, <1>2

\* Where a flip may go.
LEMMA TargetsTyped ==
  ASSUME AvInv, Regime, NEW u \in Units, NEW v \in LevelsOf(u), NEW t \in Targets(u, v), t # <<>>
  PROVE  t \in Topics /\ t # BridgeTopic
  BY TargetAssumption DEF TargetAssumption, AvInv, MemoryTyped, Regime, Targets, BridgeTopic

LEMMA FlipsTyped ==
  ASSUME AvInv, NEW b \in BOOLEAN
  PROVE  Token(b) \in Flips /\ (encoding # "status" => SelfPayload(encoding, b) \in Flips)
  <1>1. encoding \in {"raw", "envelope", "status"}
    BY GateAssumption DEF GateAssumption, AvInv, MemoryTyped, encoding
  <1>2. QED
    BY <1>1 DEF Flips, SelfPayload

\* A walk begins, with nothing on its way yet.
LEMMA WalkKeeps ==
  ASSUME AvInv, Regime, NEW c \in Callers, pc[c] = "idle", NEW o \in {"retract", "sweep", "republish"},
         NEW S \in SUBSET Topics, BridgeTopic \notin S, NEW A, A = IF o = "republish" THEN {} ELSE S,
         o # "retract" => S \subseteq Known, o = "sweep" => "sweep" \in MayCall[c], Walk(c, o, S, A)
  PROVE  AvInv'
  <1>1. /\ pc' = [pc EXCEPT ![c] = "walk"] /\ op' = [op EXCEPT ![c] = o]
        /\ todo' = [todo EXCEPT ![c] = S] /\ asked' = [asked EXCEPT ![c] = A]
        /\ copy' = [copy EXCEPT ![c] = [t \in S |-> IF o = "republish" THEN last[t] ELSE Empty]]
        /\ cleared' = cleared \ S /\ Free(c, S)
        /\ UNCHANGED <<broker, config, memory, item, failed, settled, forgotten, unheard>>
    BY DEF Walk, Unsure
  <1>2. CallersTyped
    BY DEF AvInv
  <1>3. /\ Others(c) /\ pc'[c] = "walk" /\ op'[c] = o /\ todo'[c] = S /\ asked'[c] = A
    BY <1>1, <1>2 DEF CallersTyped, Others, broker
  <1>4. item'[c] = NoItem
    BY <1>1 DEF AvInv, Framed
  <1>5. \A t \in S : copy'[c][t] = IF o = "republish" THEN last[t] ELSE Empty
    <2>1. PICK g : g = [t \in S |-> IF o = "republish" THEN last[t] ELSE Empty]
      OBVIOUS
    <2>2. copy'[c] = g
      BY <1>1, <1>2, <2>1 DEF CallersTyped
    <2>3. QED
      BY <2>1, <2>2
  <1>6. CallersTyped'
    <2>1. A \in SUBSET Topics
      OBVIOUS
    <2>2. copy' = [d \in Callers |-> copy'[d]]
      BY <1>1, <1>2 DEF CallersTyped
    <2>3. QED
      BY <1>1, <1>2, <2>1, <2>2 DEF CallersTyped
  <1>7. Clears(c)' <=> o # "republish"
    BY <1>3 DEF Clears
  <1>8. Framed(c)'
    <2>1. \A t \in S : o = "republish" => copy'[c][t] \in Payloads
      BY <1>5 DEF AvInv, MemoryTyped
    <2>2. item'[c].topic \notin todo'[c]
      BY <1>3, <1>4, GateAssumption DEF GateAssumption, NoItem
    <2>3. QED
      BY <1>3, <1>4, <1>5, <1>7, <2>1, <2>2 DEF Framed
  <1>9. Writes(c)' \subseteq S
    BY <1>3, <1>4, GateAssumption DEF GateAssumption, Writes, Busy, NoItem
  <1>10. QED
    BY <1>1, <1>3, <1>4, <1>6, <1>7, <1>8, <1>9, BeginKeeps

LEMMA BeginsKeep ==
  ASSUME AvInv, Regime, NEW c \in Callers, Begin(c)
  PROVE  AvInv'
  <1>1. \A o : Calls(c, o) => pc[c] = "idle" /\ o \in MayCall[c]
    BY DEF Calls
  <1>2. BridgeTopic \notin Known /\ BridgeTopic \notin Gone /\ Gone \subseteq Topics /\ Known \subseteq Topics
    BY GateAssumption DEF GateAssumption, AvInv, Alone, MemoryTyped, Known, Regime, BridgeTopic
  <1>3. ASSUME NEW u \in At("device"), NEW b \in BOOLEAN, Device(c, u, b), pc[c] = "idle" PROVE AvInv'
    <2>1. PICK t \in Targets(u, "device"), f \in Facts(u, "device") : Write(c, t, Token(b), f, b)
      BY <1>3 DEF Device
    <2>2. t \in Topics /\ t # BridgeTopic
      BY <2>1, TargetsTyped DEF At, Write
    <2>3. QED
      BY <1>3, <2>1, <2>2, FlipsTyped, WriteKeeps
  <1>4. ASSUME NEW u \in At("parent"), NEW b \in BOOLEAN, Parent(c, u, b), pc[c] = "idle" PROVE AvInv'
    <2>1. PICK t \in Targets(u, "parent"), f \in Facts(u, "parent") : Write(c, t, Token(b), f, b)
      BY <1>4 DEF Parent
    <2>2. t \in Topics /\ t # BridgeTopic
      BY <2>1, TargetsTyped DEF At, Write
    <2>3. QED
      BY <1>4, <2>1, <2>2, FlipsTyped, WriteKeeps
  <1>5. ASSUME NEW u \in At("self"), NEW b \in BOOLEAN, Self(c, u, b), pc[c] = "idle" PROVE AvInv'
    <2>1. PICK t \in Targets(u, "self"), f \in Facts(u, "self") : Write(c, t, SelfPayload(encoding, b), f, b)
      BY <1>5 DEF Self
    <2>2. t \in Topics /\ t # BridgeTopic
      BY <2>1, TargetsTyped DEF At, Write
    <2>3. SelfPayload(encoding, b) \in Flips
      BY <1>5, FlipsTyped DEF Self
    <2>4. QED
      BY <1>5, <2>1, <2>2, <2>3, WriteKeeps
  <1>6. CASE Calls(c, "retract") /\ Retract(c, Gone)
    BY <1>1, <1>2, <1>6, WalkKeeps DEF Retract
  <1>7. CASE Calls(c, "sweep") /\ \E live \in SUBSET Known : live # Known /\ Sweep(c, live)
    <2>1. PICK live \in SUBSET Known : Sweep(c, live)
      BY <1>7
    <2>2. PICK S \in SUBSET Topics : S = Known \ live
      BY <1>2
    <2>3. Walk(c, "sweep", S, S)
      BY <2>1, <2>2 DEF Sweep
    <2>4. QED
      BY <1>1, <1>2, <1>7, <2>2, <2>3, WalkKeeps
  <1>8. CASE Calls(c, "republish") /\ Republish(c)
    <2>1. PICK S \in SUBSET Topics : S = Known
      BY <1>2
    <2>2. Walk(c, "republish", S, {})
      BY <1>8, <2>1 DEF Republish
    <2>3. QED
      BY <1>1, <1>2, <1>8, <2>1, <2>2, WalkKeeps
  <1>9. CASE Calls(c, "forget") /\ \E t \in Known \cap Gone : Forget({t})
    <2>1. PICK S \in SUBSET Topics : Forget(S)
      BY <1>2, <1>9
    <2>2. QED
      BY <1>9, <2>1, ForgetKeeps
  <1>10. CASE Calls(c, "reset") /\ Reset
    BY <1>10, ResetKeeps
  <1>11. QED
    BY <1>1, <1>3, <1>4, <1>5, <1>6, <1>7, <1>8, <1>9, <1>10 DEF Begin

-----------------------------------------------------------------------------
(* The transport call.                                                       *)

LEMMA Typed ==
  ASSUME AvInv
  PROVE  /\ wire \in Seq(Messages) /\ Len(wire) \in Nat
         /\ retained \in [Topics -> Payloads] /\ answer \in [Callers -> Answers]
  BY DEF AvInv, BrokerTyped

\* c hands over the payload of a topic it writes.
LEMMA SendingKeeps ==
  ASSUME AvInv, NEW c \in Callers, pc[c] # "wait", pc'[c] = "wait",
         UNCHANGED <<config, memory, history>>,
         \A d \in Callers \ {c} : pc'[d] = pc[d] /\ item'[d] = item[d],
         NEW t \in Writes(c), NEW p \in Payloads, item'[c].topic = t, item'[c].payload = p,
         Send(c, t, p, QoS, TRUE) \/ Refuse(c)
  PROVE  /\ BrokerTyped' /\ Sent' /\ Landed' /\ Delivered' /\ Traced'
         /\ \A d \in Callers \ {c} : answer'[d] = answer[d]
         /\ \A u \in Topics \ {t} : \A S : Lands(wire, retained, u, S) => Lands(wire', retained', u, S)
  <1>1. \A d \in Callers \ {c} : Waits(d)' = Waits(d)
    BY DEF Waits
  <1>2. ~Waits(c) /\ Waits(c)' /\ t \in Topics
    BY DEF Waits, Writes
  <1>3. wire \in Seq(Messages) /\ Len(wire) \in Nat /\ answer \in [Callers -> Answers]
    BY Typed
  <1>4. \A i \in 1..Len(wire) : wire[i].from # c
    BY <1>2 DEF AvInv, Sent
  <1>5. \A d \in Callers \ {c} : Waits(d) => item[d].topic \in Topics /\ item[d].topic # t
    <2>1. SUFFICES ASSUME NEW d \in Callers \ {c}, Waits(d)
          PROVE  item[d].topic \in Topics /\ item[d].topic # t
      OBVIOUS
    <2>2. item[d].topic \in Topics /\ item[d].topic \in Writes(d)
      BY <2>1, WaitersWrite DEF AvInv
    <2>3. QED
      BY <2>2 DEF AvInv, Alone
  <1>6. Known' = Known /\ BridgeTopic' = BridgeTopic
    BY DEF Known, BridgeTopic, memory, config
  <1>7. CASE Refuse(c)
    <2>1. UNCHANGED <<retained, wire>> /\ answer'[c] = "failed" /\ \A d \in Callers \ {c} : answer'[d] = answer[d]
      BY <1>3, <1>7 DEF Refuse
    <2>2. \A u : Pending(u)' = Pending(u)
      BY <1>1, <1>2, <2>1 DEF Pending
    <2>3. BrokerTyped'
      BY <1>7 DEF Refuse, AvInv, BrokerTyped, Answers
    <2>4. Sent'
      BY <1>1, <1>2, <1>4, <2>1 DEF AvInv, Sent
    <2>5. Landed'
      BY <1>1, <1>2, <2>1 DEF AvInv, Landed, Settles
    <2>6. Delivered' /\ Traced'
      BY <1>6, <2>1, <2>2 DEF AvInv, Delivered, Traced, history
    <2>7. QED
      BY <2>1, <2>3, <2>4, <2>5, <2>6
  <1>8. CASE Send(c, t, p, QoS, TRUE)
    <2>1. PICK m \in Messages : m = [from |-> IF QoS = 0 THEN None ELSE c, topic |-> t, payload |-> p, retain |-> TRUE]
      <3>1. PICK f \in Callers \cup {None} : f = IF QoS = 0 THEN None ELSE c
        OBVIOUS
      <3>2. [from |-> f, topic |-> t, payload |-> p, retain |-> TRUE] \in Messages
        BY <1>2 DEF Messages
      <3>3. QED
        BY <3>1, <3>2
    <2>2. /\ retained' = retained /\ wire' = Append(wire, m)
          /\ answer'[c] = IF QoS = 0 THEN "accepted" ELSE "sent"
          /\ \A d \in Callers \ {c} : answer'[d] = answer[d]
      BY <1>3, <1>8, <2>1 DEF Send, Message
    <2>3. BrokerTyped'
      <3>1. wire' \in Seq(Messages)
        BY <1>3, <2>2
      <3>2. answer' \in [Callers -> Answers]
        BY <1>3, <1>8 DEF Send, Answers
      <3>3. QED
        BY <2>2, <3>1, <3>2 DEF AvInv, BrokerTyped
    <2>4. \A u \in Topics : Pending(u)' <=> Pending(u) \/ u = t
      BY <1>1, <1>2, <2>2 DEF Pending
    <2>5. \A u \in Topics \ {t} : \A S : Lands(wire, retained, u, S) => Lands(wire', retained', u, S)
      <3>1. SUFFICES ASSUME NEW u \in Topics \ {t}, NEW S, Lands(wire, retained, u, S)
            PROVE  Lands(Append(wire, m), retained, u, S)
        BY <2>2
      <3>2. ~(m.retain /\ m.topic = u)
        BY <2>1
      <3>3. QED
        BY <1>3, <3>1, <3>2, LandsBehindOther
    <2>6. Len(wire') = Len(wire) + 1 /\ wire'[Len(wire) + 1] = m /\ \A i \in 1..Len(wire) : wire'[i] = wire[i]
      BY <1>3, <2>2
    <2>7. \A u \in Topics \ {t} : For(wire', u) = For(wire, u)
      BY <1>3, <2>1, <2>6 DEF For
    <2>8. (\A j \in For(wire', t) : j <= Len(wire) + 1) /\ Lands(wire', retained', t, {p})
      <3>1. m.retain /\ m.topic = t /\ m.payload = p
        BY <2>1
      <3>2. /\ \A j \in For(Append(wire, m), t) : j <= Len(wire) + 1
            /\ Lands(Append(wire, m), retained, t, {m.payload})
        BY <1>3, <3>1, LandsAfterAppend
      <3>3. QED
        BY <2>2, <3>1, <3>2
    <2>9. Sent'
      <3>1. SUFFICES ASSUME NEW i \in 1..Len(wire'), NEW d \in Callers, wire'[i].from = d
            PROVE  /\ Waits(d)' /\ answer'[d] = "sent"
                   /\ wire'[i].topic = item'[d].topic /\ wire'[i].payload = item'[d].payload
                   /\ \A j \in For(wire', item'[d].topic) : j <= i
        BY DEF Sent
      <3>2. CASE i = Len(wire) + 1
        <4>1. wire'[i] = m
          BY <2>6, <3>2
        <4>2. d = c /\ QoS # 0
          BY <2>1, <3>1, <4>1, BrokerAssumption
        <4>3. m.topic = t /\ m.payload = p
          BY <2>1
        <4>4. QED
          BY <1>2, <2>2, <2>8, <3>2, <4>1, <4>2, <4>3
      <3>3. CASE i \in 1..Len(wire)
        <4>1. wire'[i] = wire[i] /\ d # c
          BY <1>4, <2>6, <3>1, <3>3
        <4>2. /\ Waits(d) /\ answer[d] = "sent"
              /\ wire[i].topic = item[d].topic /\ wire[i].payload = item[d].payload
              /\ \A j \in For(wire, item[d].topic) : j <= i
          BY <3>1, <3>3, <4>1 DEF AvInv, Sent
        <4>3. For(wire', item[d].topic) = For(wire, item[d].topic)
          BY <1>5, <2>7, <4>1, <4>2
        <4>4. QED
          BY <1>1, <2>2, <4>1, <4>2, <4>3
      <3>4. QED
        BY <1>3, <2>6, <3>2, <3>3
    <2>10. Landed'
      <3>1. SUFFICES ASSUME NEW d \in Callers, Waits(d)', answer'[d] = "accepted"
            PROVE  /\ Lands(wire', retained', item'[d].topic, {item'[d].payload})
                   /\ QoS = 1 => For(wire', item'[d].topic) = {}
        BY DEF Landed, Settles
      <3>2. CASE d = c
        <4>1. item'[d].topic = t /\ {item'[d].payload} = {p}
          BY <3>2
        <4>2. QoS # 1
          BY <2>2, <3>1, <3>2
        <4>3. Lands(wire', retained', t, {p})
          BY <2>8
        <4>4. QED
          BY <4>1, <4>2, <4>3
      <3>3. CASE d # c
        <4>1. Waits(d) /\ answer[d] = "accepted" /\ item'[d] = item[d]
          BY <1>1, <2>2, <3>1, <3>3
        <4>2. Lands(wire, retained, item[d].topic, {item[d].payload}) /\ (QoS = 1 => For(wire, item[d].topic) = {})
          BY <4>1 DEF AvInv, Landed, Settles
        <4>3. item[d].topic \in Topics \ {t}
          BY <1>5, <3>3, <4>1
        <4>4. QED
          BY <2>5, <2>7, <4>1, <4>2, <4>3
      <3>4. QED
        BY <3>2, <3>3
    <2>11. Delivered'
      BY <2>4, <2>7 DEF AvInv, Delivered, history
    <2>12. Traced'
      BY <1>6, <2>2, <2>4 DEF AvInv, Traced, history
    <2>13. QED
      BY <2>2, <2>3, <2>5, <2>9, <2>10, <2>11, <2>12
  <1>9. QED
    BY <1>7, <1>8

\* What the sender's topics leave as it was.
LEMMA SentKeeps ==
  ASSUME AvInv, NEW c \in Callers, NEW t \in Writes(c), UNCHANGED <<config, memory, history>>, Others(c),
         BrokerTyped', Sent', Landed', Delivered', Traced', CallersTyped', Framed(c)',
         Writes(c)' \subseteq Writes(c), op'[c] = op[c], Walked(c)',
         \A u \in Topics \ {t} : \A S : Lands(wire, retained, u, S) => Lands(wire', retained', u, S)
  PROVE  AvInv'
  <1>1. \A d \in Callers \ {c} : /\ Waits(d)' = Waits(d) /\ Writes(d)' = Writes(d)
                                 /\ Clears(d)' = Clears(d) /\ Framed(d)'
    BY OthersStand DEF AvInv
  <1>2. MemoryTyped' /\ Known' = Known /\ BridgeTopic' = BridgeTopic
    BY DEF AvInv, MemoryTyped, Known, BridgeTopic, config, memory
  <1>3. \A d \in Callers : Copied(d)'
    BY <1>1, <1>2 DEF AvInv, Copied, Others, history
  <1>4. ASSUME NEW d \in Callers \ {c} PROVE Walked(d)'
    <2>1. t \notin Writes(d) /\ asked[d] \subseteq Writes(d)
      BY DEF AvInv, Alone, CallersTyped, Writes, Busy
    <2>2. SUFFICES ASSUME Clears(d), NEW u \in asked[d] \ (todo[d] \cup {item[d].topic}),
                          ~failed[d] \/ (op[d] = "sweep" /\ u \notin Known)
          PROVE  Lands(wire', retained', u, {Empty})
      BY <1>1, <1>2 DEF AvInv, Walked, Others, Settles
    <2>3. u \in Topics \ {t} /\ Lands(wire, retained, u, {Empty})
      BY <2>1, <2>2 DEF AvInv, CallersTyped, Walked, Settles
    <2>4. QED
      BY <2>3
  <1>5. Alone'
    BY <1>1, <1>2 DEF AvInv, Alone, history
  <1>6. Reported'
    <2>1. SUFFICES ASSUME NEW u \in cleared PROVE Lands(wire', retained', u, {Empty})
      BY DEF Reported, Settles, history
    <2>2. u \in Topics \ {t} /\ Lands(wire, retained, u, {Empty})
      BY DEF AvInv, Alone, Reported, Settles
    <2>3. QED
      BY <2>2
  <1>7. QED
    BY <1>1, <1>2, <1>3, <1>4, <1>5, <1>6 DEF AvInv

LEMMA HandOverKeeps ==
  ASSUME AvInv, NEW c \in Callers, HandOver(c)
  PROVE  AvInv'
  <1>1. /\ pc[c] = "send" /\ pc' = [pc EXCEPT ![c] = "wait"]
        /\ Send(c, item[c].topic, item[c].payload, QoS, TRUE) \/ Refuse(c)
        /\ UNCHANGED <<config, memory, op, item, todo, copy, asked, failed, history>>
    BY DEF HandOver
  <1>2. PICK t \in Writes(c) : t = item[c].topic
    BY <1>1 DEF AvInv, Framed, Writes, Busy
  <1>3. PICK p \in Payloads : p = item[c].payload
    BY <1>1 DEF AvInv, Framed
  <1>4. pc'[c] = "wait" /\ (\A d \in Callers \ {c} : pc'[d] = pc[d]) /\ CallersTyped'
    BY <1>1 DEF AvInv, CallersTyped
  <1>5. /\ BrokerTyped' /\ Sent' /\ Landed' /\ Delivered' /\ Traced'
        /\ \A d \in Callers \ {c} : answer'[d] = answer[d]
        /\ \A u \in Topics \ {t} : \A S : Lands(wire, retained, u, S) => Lands(wire', retained', u, S)
    BY <1>1, <1>2, <1>3, <1>4, SendingKeeps
  <1>6. Others(c)
    BY <1>1, <1>4, <1>5 DEF Others
  <1>7. Clears(c)' = Clears(c) /\ ~Clears(c) /\ op[c] = "flip"
    BY <1>1 DEF AvInv, Framed, Clears
  <1>8. Framed(c)'
    BY <1>1, <1>4, <1>7 DEF AvInv, Framed
  <1>9. Writes(c)' \subseteq Writes(c) /\ Walked(c)'
    BY <1>1, <1>7 DEF Writes, Busy, Walked
  <1>10. QED
    BY <1>1, <1>4, <1>5, <1>6, <1>8, <1>9, SentKeeps

LEMMA WalkStepKeeps ==
  ASSUME AvInv, NEW c \in Callers, WalkStep(c)
  PROVE  AvInv'
  <1>1. PICK t \in todo[c] :
          /\ todo' = [todo EXCEPT ![c] = @ \ {t}]
          /\ IF Collides(t)
             THEN /\ failed' = [failed EXCEPT ![c] = TRUE]
                  /\ UNCHANGED <<broker, pc, item>>
             ELSE /\ Send(c, t, copy[c][t], QoS, TRUE) \/ Refuse(c)
                  /\ pc' = [pc EXCEPT ![c] = "wait"]
                  /\ item' = [item EXCEPT ![c] = [NoItem EXCEPT !.topic = t, !.payload = copy[c][t]]]
                  /\ UNCHANGED failed
          /\ UNCHANGED <<config, memory, op, copy, asked, history>>
    BY DEF WalkStep
  <1>2. /\ pc[c] = "walk" /\ item[c] = NoItem /\ NoItem.topic \notin Topics
        /\ t \in Topics /\ t \in Writes(c) /\ todo[c] \subseteq Topics /\ asked[c] \subseteq Topics
    BY GateAssumption DEF GateAssumption, WalkStep, AvInv, Framed, CallersTyped, Writes, Busy, NoItem
  <1>3. /\ todo'[c] = todo[c] \ {t} /\ \A d \in Callers \ {c} : todo'[d] = todo[d]
    BY <1>1 DEF AvInv, CallersTyped
  <1>4. op[c] # "flip" /\ op[c] # "none" /\ Clears(c)' = Clears(c)
    BY <1>1, <1>2 DEF AvInv, Framed, Clears
  <1>5. /\ Clears(c) => \A u \in asked[c] \ todo[c] :
             ~failed[c] \/ (op[c] = "sweep" /\ u \notin Known) => Settles(u, {Empty})
        /\ op[c] = "sweep" => todo[c] \subseteq Known
    BY <1>2 DEF AvInv, Walked
  <1>6. CASE Collides(t)
    <2>1. UNCHANGED <<broker, pc, item>> /\ failed' = [failed EXCEPT ![c] = TRUE]
      BY <1>1, <1>6
    <2>2. Others(c) /\ CallersTyped' /\ failed'[c] = TRUE
      BY <1>1, <1>3, <2>1 DEF AvInv, CallersTyped, Others, broker
    <2>3. Framed(c)'
      BY <1>1, <1>3, <1>4, <2>1 DEF AvInv, Framed
    <2>4. Writes(c)' \subseteq Writes(c)
      BY <1>1, <1>3, <2>1 DEF Writes, Busy
    <2>5. Known' = Known
      BY <1>1 DEF Known, memory
    <2>6. Walked(c)'
      <3>1. ASSUME Clears(c), NEW u \in asked[c] \ (todo'[c] \cup {item'[c].topic}), op[c] = "sweep", u \notin Known
            PROVE  Settles(u, {Empty})
        BY <1>3, <1>5, <3>1
      <3>2. op[c] = "sweep" => (todo'[c] \cup {item'[c].topic}) \cap Topics \subseteq Known
        BY <1>2, <1>3, <1>5, <2>1
      <3>3. QED
        BY <1>1, <1>4, <2>1, <2>2, <2>5, <3>1, <3>2 DEF Walked, Settles, broker
    <2>7. \A d \in Callers : Waits(d)' = Waits(d)
      BY <2>1 DEF Waits
    <2>8. \A u : Pending(u)' = Pending(u)
      BY <2>1, <2>7 DEF Pending, broker
    <2>9. BrokerTyped' /\ Sent' /\ Landed'
      BY <2>1, <2>7 DEF AvInv, BrokerTyped, Sent, Landed, Settles, broker
    <2>10. Delivered' /\ Traced'
      BY <1>1, <2>1, <2>5, <2>8 DEF AvInv, Delivered, Traced, BridgeTopic, broker, config, history
    <2>11. \A u \in Topics \ {t} : \A S : Lands(wire, retained, u, S) => Lands(wire', retained', u, S)
      BY <2>1 DEF broker
    <2>12. QED
      BY <1>1, <1>2, <2>2, <2>3, <2>4, <2>6, <2>9, <2>10, <2>11, SentKeeps
  <1>7. CASE ~Collides(t)
    <2>1. PICK p \in Payloads : p = copy[c][t] /\ (Clears(c) => p = Empty)
      <3>1. Clears(c) => copy[c][t] = Empty
        BY DEF AvInv, Framed
      <3>2. ~Clears(c) => copy[c][t] \in Payloads
        BY <1>4 DEF AvInv, Framed, Clears, CallersTyped
      <3>3. QED
        BY <3>1, <3>2 DEF Payloads
    <2>2. /\ Send(c, t, p, QoS, TRUE) \/ Refuse(c)
          /\ pc' = [pc EXCEPT ![c] = "wait"]
          /\ item' = [item EXCEPT ![c] = [NoItem EXCEPT !.topic = t, !.payload = p]]
          /\ UNCHANGED failed
      BY <1>1, <1>7, <2>1
    <2>3. /\ pc'[c] = "wait" /\ item'[c].topic = t /\ item'[c].payload = p
          /\ \A d \in Callers \ {c} : pc'[d] = pc[d] /\ item'[d] = item[d]
      BY <2>2 DEF AvInv, CallersTyped, NoItem
    <2>4. /\ BrokerTyped' /\ Sent' /\ Landed' /\ Delivered' /\ Traced'
          /\ \A d \in Callers \ {c} : answer'[d] = answer[d]
          /\ \A u \in Topics \ {t} : \A S : Lands(wire, retained, u, S) => Lands(wire', retained', u, S)
      BY <1>1, <1>2, <2>2, <2>3, SendingKeeps
    <2>5. Others(c)
      BY <1>1, <1>3, <2>2, <2>3, <2>4 DEF Others
    <2>6. CallersTyped'
      BY <1>1, <2>2 DEF AvInv, CallersTyped
    <2>7. Framed(c)'
      <3>1. /\ todo[c] \subseteq todo[c] /\ op'[c] = op[c] /\ asked'[c] = asked[c] /\ copy'[c] = copy[c]
            /\ t \notin todo'[c] /\ todo'[c] \subseteq todo[c]
        BY <1>1, <1>3
      <3>2. /\ Clears(c) => todo[c] \subseteq asked[c] /\ \A u \in todo[c] : copy[c][u] = Empty
            /\ ~Clears(c) => asked[c] = {}
            /\ op[c] = "republish" => \A u \in todo[c] : copy[c][u] \in Payloads
            /\ op[c] = "sweep" => "sweep" \in MayCall[c]
        BY DEF AvInv, Framed
      <3>3. QED
        BY <1>2, <1>4, <2>1, <2>3, <3>1, <3>2 DEF Framed
    <2>8. Writes(c)' \subseteq Writes(c)
      BY <1>1, <1>2, <1>3, <2>3 DEF Writes, Busy
    <2>9. Known' = Known
      BY <1>1 DEF Known, memory
    <2>10. Walked(c)'
      <3>1. ASSUME Clears(c), NEW u \in asked[c] \ (todo'[c] \cup {item'[c].topic}),
                   ~failed[c] \/ (op[c] = "sweep" /\ u \notin Known)
            PROVE  Lands(wire', retained', u, {Empty})
        <4>1. u \in asked[c] \ todo[c] /\ u \in Topics \ {t}
          BY <1>2, <1>3, <2>3, <3>1
        <4>2. Lands(wire, retained, u, {Empty})
          BY <1>5, <3>1, <4>1 DEF Settles
        <4>3. QED
          BY <2>4, <4>1, <4>2
      <3>2. op[c] = "sweep" => (todo'[c] \cup {item'[c].topic}) \cap Topics \subseteq Known
        BY <1>3, <1>5, <2>3
      <3>3. op' = op /\ asked' = asked /\ failed' = failed
        BY <1>1, <2>2
      <3>4. QED
        BY <1>4, <2>9, <3>1, <3>2, <3>3 DEF Walked, Settles
    <2>11. op' = op
      BY <1>1
    <2>12. QED
      BY <1>1, <1>2, <2>4, <2>5, <2>6, <2>7, <2>8, <2>10, <2>11, SentKeeps
  <1>8. QED
    BY <1>6, <1>7

-----------------------------------------------------------------------------
(* The end of a call, and of a walk's step.                                  *)

LEMMA IdleTyped ==
  ASSUME CallersTyped, NEW c \in Callers, Idle(c), \A d \in Callers \ {c} : answer'[d] = answer[d]
  PROVE  /\ CallersTyped' /\ Others(c) /\ Framed(c)' /\ Writes(c)' = {}
         /\ pc'[c] = "idle" /\ op'[c] = "none" /\ todo'[c] = {}
  <1>1. CallersTyped' /\ Others(c)
    BY DEF Idle, CallersTyped, Others
  <1>2. /\ pc'[c] = "idle" /\ op'[c] = "none" /\ item'[c] = NoItem /\ todo'[c] = {}
        /\ asked'[c] = {} /\ NoItem.topic \notin Topics
    BY GateAssumption DEF GateAssumption, Idle, CallersTyped, NoItem
  <1>3. ~Clears(c)'
    BY <1>2 DEF Clears
  <1>4. QED
    BY <1>1, <1>2, <1>3 DEF Framed, Writes, Busy

\* c lets go of what it was about; the wire and the broker stand still.
LEMMA LetGo ==
  ASSUME AvInv, NEW c \in Callers, UNCHANGED <<retained, wire>>, Others(c),
         ~Waits(c) \/ answer[c] # "sent", ~Waits(c)'
  PROVE  /\ Sent' /\ Landed'
         /\ \A u : Pending(u) => Pending(u)' \/ (Waits(c) /\ u = item[c].topic /\ answer[c] # "failed")
         /\ \A u : \A S : Settles(u, S)' = Settles(u, S)
  <1>1. \A d \in Callers \ {c} : Waits(d)' = Waits(d)
    BY OthersStand
  <1>2. \A i \in 1..Len(wire) : wire[i].from # c
    BY DEF AvInv, Sent
  <1>3. Sent'
    BY <1>1, <1>2 DEF AvInv, Sent, Others
  <1>4. Landed'
    BY <1>1 DEF AvInv, Landed, Settles, Others
  <1>5. \A u : Pending(u) => Pending(u)' \/ (Waits(c) /\ u = item[c].topic /\ answer[c] # "failed")
    BY <1>1 DEF Pending, Others
  <1>6. \A u : \A S : Settles(u, S)' = Settles(u, S)
    BY DEF Settles
  <1>7. QED
    BY <1>3, <1>4, <1>5, <1>6

LEMMA AnsweredTyped ==
  ASSUME BrokerTyped, NEW c \in Callers, Answered(c), UNCHANGED <<retained, wire>>
  PROVE  BrokerTyped' /\ \A d \in Callers \ {c} : answer'[d] = answer[d]
  BY DEF Answered, BrokerTyped, Answers

LEMMA RecordKeeps ==
  ASSUME AvInv, NEW c \in Callers, Record(c)
  PROVE  AvInv'
  <1>1. PICK t \in Topics : t = item[c].topic
    BY DEF AvInv, Framed, Record
  <1>2. PICK p \in Payloads : p = item[c].payload /\ p # Empty
    BY DEF AvInv, Framed, Record
  <1>3. /\ Waits(c) /\ answer[c] = "accepted" /\ t \in Writes(c)
    BY <1>1 DEF Record, Waits, Writes, Busy
  <1>4. /\ last' = [last EXCEPT ![t] = p] /\ gated' = gated \cup {t}
        /\ forgotten \subseteq forgotten' \cup {t} /\ unheard' = unheard \ {t}
        /\ Answered(c) /\ Idle(c)
        /\ UNCHANGED <<retained, wire, setting, cleared>>
    BY <1>1, <1>2 DEF Record, Heard, config
  <1>5. BrokerTyped' /\ \A d \in Callers \ {c} : answer'[d] = answer[d]
    BY <1>4, AnsweredTyped DEF AvInv
  <1>6. /\ CallersTyped' /\ Others(c) /\ Framed(c)' /\ Writes(c)' = {}
        /\ pc'[c] = "idle" /\ op'[c] = "none" /\ todo'[c] = {}
    BY <1>4, <1>5, IdleTyped DEF AvInv
  <1>7. ~Waits(c)' /\ ~Clears(c)'
    BY <1>6 DEF Waits, Clears
  <1>8. /\ Sent' /\ Landed' /\ \A u : \A S : Settles(u, S)' = Settles(u, S)
        /\ \A u : Pending(u) => Pending(u)' \/ u = t
    BY <1>1, <1>3, <1>4, <1>6, <1>7, LetGo
  <1>9. \A d \in Callers \ {c} : /\ Waits(d)' = Waits(d) /\ Writes(d)' = Writes(d)
                                 /\ Clears(d)' = Clears(d) /\ Framed(d)'
    BY <1>6, OthersStand DEF AvInv
  <1>10. MemoryTyped' /\ Known' = Known \cup {t} /\ BridgeTopic' = BridgeTopic
    BY <1>1, <1>2, <1>4 DEF AvInv, MemoryTyped, Known, BridgeTopic
  <1>11. Copied(c)' /\ Walked(c)'
    BY <1>6, <1>7 DEF Copied, Walked
  <1>12. ASSUME NEW d \in Callers \ {c} PROVE Copied(d)' /\ Walked(d)'
    BY <1>4, <1>6, <1>8, <1>9, <1>10 DEF AvInv, Copied, Walked, Others
  <1>13. Alone'
    BY <1>3, <1>4, <1>6, <1>9, <1>10 DEF AvInv, Alone
  <1>14. QoS = 1 => For(wire, t) = {}
    BY <1>1, <1>3 DEF AvInv, Landed
  <1>15. Delivered' /\ Reported'
    BY <1>4, <1>8, <1>14 DEF AvInv, Delivered, Reported
  <1>16. Traced'
    BY <1>4, <1>8, <1>10 DEF AvInv, Traced
  <1>17. QED
    BY <1>5, <1>6, <1>8, <1>9, <1>10, <1>11, <1>12, <1>13, <1>15, <1>16 DEF AvInv

LEMMA WriteFailsKeeps ==
  ASSUME AvInv, NEW c \in Callers, WriteFails(c)
  PROVE  AvInv'
  <1>1. /\ answer[c] = "failed" /\ Answered(c) /\ Idle(c)
        /\ UNCHANGED <<retained, wire, config, memory, history>>
    BY DEF WriteFails
  <1>2. BrokerTyped' /\ \A d \in Callers \ {c} : answer'[d] = answer[d]
    BY <1>1, AnsweredTyped DEF AvInv
  <1>3. /\ CallersTyped' /\ Others(c) /\ Framed(c)' /\ Writes(c)' = {}
        /\ pc'[c] = "idle" /\ op'[c] = "none" /\ todo'[c] = {}
    BY <1>1, <1>2, IdleTyped DEF AvInv
  <1>4. ~Waits(c)' /\ ~Clears(c)'
    BY <1>3 DEF Waits, Clears
  <1>5. /\ Sent' /\ Landed' /\ \A u : \A S : Settles(u, S)' = Settles(u, S)
        /\ \A u : Pending(u) => Pending(u)'
    BY <1>1, <1>3, <1>4, LetGo
  <1>6. \A d \in Callers \ {c} : /\ Waits(d)' = Waits(d) /\ Writes(d)' = Writes(d)
                                 /\ Clears(d)' = Clears(d) /\ Framed(d)'
    BY <1>3, OthersStand DEF AvInv
  <1>7. MemoryTyped' /\ Known' = Known /\ BridgeTopic' = BridgeTopic
    BY <1>1 DEF AvInv, MemoryTyped, Known, BridgeTopic, memory, config
  <1>8. Copied(c)' /\ Walked(c)'
    BY <1>3, <1>4 DEF Copied, Walked
  <1>9. ASSUME NEW d \in Callers \ {c} PROVE Copied(d)' /\ Walked(d)'
    BY <1>1, <1>3, <1>5, <1>6, <1>7 DEF AvInv, Copied, Walked, Others, history
  <1>10. Alone'
    BY <1>1, <1>3, <1>6, <1>7 DEF AvInv, Alone, history
  <1>11. Delivered' /\ Reported' /\ Traced'
    BY <1>1, <1>5, <1>7 DEF AvInv, Delivered, Reported, Traced, history
  <1>12. QED
    BY <1>2, <1>3, <1>5, <1>6, <1>7, <1>8, <1>9, <1>10, <1>11 DEF AvInv

\* A list goes on after its answer: a retraction accepted has settled its topic on
\* nothing, one that failed leaves it in the index.
LEMMA WalkAnsweredKeeps ==
  ASSUME AvInv, NEW c \in Callers, WalkAnswered(c)
  PROVE  AvInv'
  <1>1. /\ pc[c] = "wait" /\ op[c] # "flip" /\ Waits(c) /\ answer[c] \in {"accepted", "failed"}
    BY DEF WalkAnswered, Waits
  <1>2. PICK t \in Topics : t = item[c].topic
    BY <1>1 DEF AvInv, Framed
  <1>3. PICK ok \in BOOLEAN : ok <=> answer[c] = "accepted"
    OBVIOUS
  <1>4. PICK gone : gone = IF ok /\ op[c] # "republish" THEN {t} ELSE {}
    OBVIOUS
  <1>5. /\ last' = [u \in DOMAIN last |-> IF u \in gone THEN Empty ELSE last[u]] /\ gated' = gated \ gone
        /\ failed' = [failed EXCEPT ![c] = @ \/ ~ok]
        /\ pc' = [pc EXCEPT ![c] = "walk"] /\ item' = [item EXCEPT ![c] = NoItem] /\ Answered(c)
        /\ unheard' = IF ok THEN unheard \ {t} ELSE unheard
        /\ UNCHANGED <<retained, wire, setting, op, todo, copy, asked, cleared, forgotten>>
    <2>1. /\ failed' = [failed EXCEPT ![c] = @ \/ ~(answer[c] = "accepted")]
          /\ Drop(IF answer[c] = "accepted" /\ op[c] # "republish" THEN {item[c].topic} ELSE {})
          /\ pc' = [pc EXCEPT ![c] = "walk"] /\ item' = [item EXCEPT ![c] = NoItem] /\ Answered(c)
          /\ UNCHANGED <<retained, wire, setting, op, todo, copy, asked, cleared, forgotten>>
          /\ IF answer[c] = "accepted" THEN unheard' = unheard \ {item[c].topic} ELSE unheard' = unheard
      BY DEF WalkAnswered, config, Heard
    <2>2. failed' = [failed EXCEPT ![c] = @ \/ ~ok]
      <3>1. (answer[c] = "accepted") = ok
        BY <1>3
      <3>2. QED
        BY <2>1, <3>1
    <2>3. Drop(gone)
      BY <1>2, <1>3, <1>4, <2>1
    <2>4. unheard' = IF ok THEN unheard \ {t} ELSE unheard
      BY <1>2, <1>3, <2>1
    <2>5. QED
      BY <2>1, <2>2, <2>3, <2>4 DEF Drop
  <1>6. BrokerTyped' /\ \A d \in Callers \ {c} : answer'[d] = answer[d]
    BY <1>5, AnsweredTyped DEF AvInv
  <1>7. /\ pc'[c] = "walk" /\ item'[c] = NoItem /\ NoItem.topic \notin Topics
        /\ CallersTyped' /\ Others(c)
    <2>1. NoItem.topic \notin Topics
      BY GateAssumption DEF GateAssumption, NoItem
    <2>2. failed' \in [Callers -> BOOLEAN] /\ \A d \in Callers \ {c} : failed'[d] = failed[d]
      BY <1>5 DEF AvInv, CallersTyped
    <2>3. QED
      BY <1>5, <1>6, <2>1, <2>2 DEF AvInv, CallersTyped, Others
  <1>8. failed'[c] = (failed[c] \/ ~ok)
    BY <1>5 DEF AvInv, CallersTyped
  <1>9. Clears(c)' = Clears(c) /\ ~Waits(c)' /\ t \in Writes(c) /\ t \notin todo[c]
    BY <1>2, <1>5, <1>7 DEF Clears, Waits, Writes, Busy, AvInv, Framed
  <1>10. op[c] # "none" /\ (Clears(c) => t \in asked[c] /\ item[c].payload = Empty)
    BY <1>1, <1>2 DEF AvInv, Framed
  <1>11. Framed(c)'
    <2>1. /\ ~Clears(c) => asked[c] = {}
          /\ Clears(c) => todo[c] \subseteq asked[c] /\ \A u \in todo[c] : copy[c][u] = Empty
          /\ op[c] = "republish" => \A u \in todo[c] : copy[c][u] \in Payloads
          /\ op[c] = "sweep" => "sweep" \in MayCall[c]
      BY DEF AvInv, Framed
    <2>2. item'[c].topic \notin todo'[c]
      BY <1>5, <1>7 DEF AvInv, CallersTyped
    <2>3. QED
      BY <1>1, <1>5, <1>7, <1>9, <1>10, <2>1, <2>2 DEF Framed
  <1>12. Writes(c)' \subseteq Writes(c)
    BY <1>5, <1>7 DEF Writes, Busy
  <1>13. /\ Sent' /\ Landed' /\ \A u : \A S : Settles(u, S)' = Settles(u, S)
         /\ \A u : Pending(u) => Pending(u)' \/ (u = t /\ ok)
    <2>1. answer[c] # "sent"
      BY <1>1
    <2>2. /\ Sent' /\ Landed' /\ \A u : \A S : Settles(u, S)' = Settles(u, S)
          /\ \A u : Pending(u) => Pending(u)' \/ (Waits(c) /\ u = item[c].topic /\ answer[c] # "failed")
      BY <1>5, <1>7, <1>9, <2>1, LetGo
    <2>3. QED
      BY <1>1, <1>2, <1>3, <2>2
  <1>14. \A d \in Callers \ {c} : /\ Waits(d)' = Waits(d) /\ Writes(d)' = Writes(d)
                                  /\ Clears(d)' = Clears(d) /\ Framed(d)' /\ t \notin Writes(d)
    BY <1>7, <1>9, OthersStand DEF AvInv, Alone
  <1>15. MemoryTyped' /\ Known' = Known \ gone /\ BridgeTopic' = BridgeTopic /\ gone \subseteq {t}
    BY <1>4, <1>5 DEF AvInv, MemoryTyped, Known, BridgeTopic, Payloads
  <1>16. ok => Settles(t, {item[c].payload}) /\ (QoS = 1 => For(wire, t) = {})
    BY <1>1, <1>2, <1>3 DEF AvInv, Landed
  <1>17. op[c] = "sweep" => (todo[c] \cup {t}) \cap Topics \subseteq Known
    BY <1>2 DEF AvInv, Walked
  <1>18. Clears(c) => \A u \in asked[c] \ (todo[c] \cup {t}) :
           ~failed[c] \/ (op[c] = "sweep" /\ u \notin Known) => Settles(u, {Empty})
    BY <1>2 DEF AvInv, Walked
  <1>19. Copied(c)'
    <2>1. ~(op[c] = "republish" /\ gone # {})
      BY <1>4
    <2>2. QED
      BY <1>5, <1>12, <1>15, <2>1 DEF AvInv, Copied
  <1>20. Walked(c)'
    <2>1. ASSUME Clears(c), NEW u \in asked[c] \ todo[c],
                 ~(failed[c] \/ ~ok) \/ (op[c] = "sweep" /\ u \notin Known')
          PROVE  Settles(u, {Empty})
      <3>1. CASE u = t
        <4>1. CASE ok
          BY <1>10, <1>16, <2>1, <3>1, <4>1
        <4>2. CASE ~ok
          BY <1>4, <1>15, <1>17, <2>1, <3>1, <4>2
        <4>3. QED
          BY <4>1, <4>2
      <3>2. CASE u # t
        BY <1>15, <1>18, <2>1, <3>2
      <3>3. QED
        BY <3>1, <3>2
    <2>2. op[c] = "sweep" => (todo[c] \cup {NoItem.topic}) \cap Topics \subseteq Known'
      BY <1>7, <1>9, <1>15, <1>17
    <2>3. Clears(c) => \A u \in asked'[c] \ (todo'[c] \cup {item'[c].topic}) :
            ~failed'[c] \/ (op'[c] = "sweep" /\ u \notin Known') => Settles(u, {Empty})'
      BY <1>5, <1>8, <1>13, <2>1
    <2>4. QED
      BY <1>5, <1>7, <1>9, <2>2, <2>3 DEF Walked
  <1>21. ASSUME NEW d \in Callers \ {c} PROVE Copied(d)' /\ Walked(d)'
    <2>1. Copied(d)'
      BY <1>5, <1>7, <1>14, <1>15 DEF AvInv, Copied, Others
    <2>2. asked[d] \subseteq Writes(d) /\ (todo[d] \cup {item[d].topic}) \cap Topics \subseteq Writes(d)
      BY DEF AvInv, CallersTyped, Writes, Busy
    <2>3. Walked(d)'
      BY <1>7, <1>13, <1>14, <1>15, <2>2 DEF AvInv, Walked, Others
    <2>4. QED
      BY <2>1, <2>3
  <1>22. Alone'
    BY <1>5, <1>12, <1>14, <1>15 DEF AvInv, Alone
  <1>23. Delivered' /\ Reported'
    BY <1>5, <1>13, <1>16 DEF AvInv, Delivered, Reported
  <1>24. Traced'
    <2>1. SUFFICES ASSUME QoS = 1, NEW u \in Topics \ (Known' \cup forgotten \cup unheard' \cup {BridgeTopic}), ~Pending(u)'
          PROVE  retained[u] = Empty
      BY <1>5, <1>15 DEF Traced
    <2>2. CASE ok /\ u = t
      <3>1. op[c] # "republish"
        <4>1. op[c] = "republish" => gone = {} /\ t \in Known \cup forgotten
          BY <1>4, <1>9 DEF AvInv, Copied
        <4>2. QED
          BY <1>15, <2>1, <2>2, <4>1
      <3>2. Clears(c)
        BY <1>1, <1>10, <3>1 DEF AvInv, CallersTyped, Clears
      <3>3. QED
        BY <1>10, <1>16, <2>1, <2>2, <3>2 DEF Settles, Lands
    <2>3. CASE ~(ok /\ u = t)
      <3>1. u \notin gone /\ u \notin unheard /\ ~Pending(u)
        BY <1>4, <1>5, <1>13, <2>1, <2>3
      <3>2. QED
        BY <1>15, <2>1, <3>1 DEF AvInv, Traced
    <2>4. QED
      BY <2>2, <2>3
  <1>25. QED
    BY <1>6, <1>7, <1>11, <1>13, <1>14, <1>15, <1>19, <1>20, <1>21, <1>22, <1>23, <1>24 DEF AvInv

LEMMA WalkEndsKeeps ==
  ASSUME AvInv, NEW c \in Callers, WalkEnds(c)
  PROVE  AvInv'
  <1>1. /\ pc[c] = "walk" /\ Idle(c)
        /\ UNCHANGED <<broker, config, memory, forgotten, unheard>>
    BY DEF WalkEnds
  <1>2. PICK R : cleared' = cleared \cup R /\ R \subseteq asked[c] /\ \A u \in R : Settles(u, {Empty})
    <2>1. item[c] = NoItem /\ NoItem.topic \notin Topics /\ asked[c] \subseteq Topics /\ todo[c] \subseteq asked[c] \cup todo[c]
      BY <1>1, GateAssumption DEF GateAssumption, AvInv, Framed, CallersTyped, NoItem
    <2>2. ~Clears(c) => asked[c] = {}
      BY DEF AvInv, Framed
    <2>3. Clears(c) => \A u \in asked[c] \ todo[c] : ~failed[c] \/ (op[c] = "sweep" /\ u \notin Known) => Settles(u, {Empty})
      BY <2>1 DEF AvInv, Walked
    <2>4. op[c] = "sweep" => todo[c] \cap Topics \subseteq Known
      BY DEF AvInv, Walked
    <2>5. ASSUME NEW error \in BOOLEAN, ~error => todo[c] = {} /\ ~failed[c]
          PROVE  Report(c, error) \subseteq asked[c] /\ \A u \in Report(c, error) : Settles(u, {Empty})
      <3>1. CASE ~error
        <4>1. Report(c, error) = asked[c]
          BY <3>1 DEF Report
        <4>2. QED
          BY <2>2, <2>3, <2>5, <3>1, <4>1
      <3>2. CASE error /\ op[c] = "sweep"
        <4>1. Report(c, error) = {u \in asked[c] : u \notin Known}
          BY <3>2 DEF Report
        <4>2. Clears(c)
          BY <3>2 DEF Clears
        <4>3. QED
          BY <2>1, <2>3, <2>4, <3>2, <4>1, <4>2
      <3>3. CASE error /\ op[c] # "sweep"
        <4>1. Report(c, error) = {}
          BY <3>3 DEF Report
        <4>2. QED
          BY <4>1
      <3>4. QED
        BY <3>1, <3>2, <3>3
    <2>6. CASE todo[c] = {} /\ cleared' = cleared \cup Report(c, failed[c])
      <3>1. failed[c] \in BOOLEAN
        BY DEF AvInv, CallersTyped
      <3>2. QED
        BY <2>5, <2>6, <3>1
    <2>7. CASE cleared' = cleared \cup Report(c, TRUE)
      BY <2>5, <2>7
    <2>8. QED
      BY <2>6, <2>7 DEF WalkEnds
  <1>3. /\ CallersTyped' /\ Others(c) /\ Framed(c)' /\ Writes(c)' = {}
        /\ pc'[c] = "idle" /\ op'[c] = "none" /\ todo'[c] = {}
    BY <1>1, IdleTyped DEF AvInv, broker
  <1>4. ~Waits(c) /\ ~Waits(c)' /\ ~Clears(c)' /\ UNCHANGED <<retained, wire>>
    BY <1>1, <1>3 DEF Waits, Clears, broker
  <1>5. /\ Sent' /\ Landed' /\ \A u : \A S : Settles(u, S)' = Settles(u, S)
        /\ \A u : Pending(u) => Pending(u)'
    BY <1>3, <1>4, LetGo
  <1>6. \A d \in Callers \ {c} : /\ Waits(d)' = Waits(d) /\ Writes(d)' = Writes(d)
                                 /\ Clears(d)' = Clears(d) /\ Framed(d)'
    BY <1>3, OthersStand DEF AvInv
  <1>7. BrokerTyped' /\ MemoryTyped' /\ Known' = Known /\ BridgeTopic' = BridgeTopic
    BY <1>1 DEF AvInv, BrokerTyped, MemoryTyped, Known, BridgeTopic, broker, memory, config
  <1>8. Copied(c)' /\ Walked(c)'
    BY <1>3, <1>4 DEF Copied, Walked
  <1>9. ASSUME NEW d \in Callers \ {c} PROVE Copied(d)' /\ Walked(d)'
    BY <1>1, <1>3, <1>5, <1>6, <1>7 DEF AvInv, Copied, Walked, Others
  <1>10. R \subseteq Writes(c)
    BY <1>2 DEF AvInv, CallersTyped, Writes, Busy
  <1>11. Alone'
    BY <1>2, <1>3, <1>6, <1>7, <1>10 DEF AvInv, Alone, Writes
  <1>12. Delivered' /\ Reported' /\ Traced'
    BY <1>1, <1>2, <1>4, <1>5, <1>7 DEF AvInv, Delivered, Reported, Traced
  <1>13. QED
    BY <1>3, <1>5, <1>6, <1>7, <1>8, <1>9, <1>11, <1>12 DEF AvInv

-----------------------------------------------------------------------------
(* The broker and the connection.                                            *)

LEMMA ReadKeeps ==
  ASSUME AvInv, Read
  PROVE  AvInv'
  <1>1. UNCHANGED <<config, memory, callers, history>>
    BY DEF Read
  <1>2. PICK m \in Messages : m = wire[1]
    BY Typed DEF Read, BrokerReads
  <1>3. /\ wire \in Seq(Messages) /\ Len(wire) \in Nat \ {0} /\ wire' = Tail(wire)
        /\ Len(wire') = Len(wire) - 1 /\ \A i \in 1..Len(wire') : wire'[i] = wire[i + 1]
        /\ retained' = [retained EXCEPT ![m.topic] = m.payload]
        /\ answer' = IF m.from = None THEN answer ELSE [answer EXCEPT ![m.from] = "accepted"]
    <2>1. wire \in Seq(Messages) /\ wire # <<>>
      BY Typed DEF Read, BrokerReads
    <2>2. Head(wire) = m /\ m.retain
      <3>1. Head(wire) = m
        BY <1>2, <2>1
      <3>2. m.retain
        BY DEF Messages
      <3>3. QED
        BY <3>1, <3>2
    <2>3. /\ wire' = Tail(wire)
          /\ retained' = [retained EXCEPT ![m.topic] = m.payload]
          /\ answer' = IF m.from = None THEN answer ELSE [answer EXCEPT ![m.from] = "accepted"]
      BY <2>2 DEF Read, BrokerReads
    <2>4. QED
      BY <2>1, <2>3
  <1>4. BrokerTyped'
    <2>1. wire' \in Seq(Messages)
      BY <1>3
    <2>2. retained' \in [Topics -> Payloads]
      BY <1>3, Typed DEF Messages
    <2>3. answer' \in [Callers -> Answers]
      BY <1>3, Typed DEF Messages, Answers
    <2>4. QED
      BY <2>1, <2>2, <2>3 DEF BrokerTyped
  <1>5. CallersTyped' /\ \A d \in Callers : /\ Waits(d)' = Waits(d) /\ Writes(d)' = Writes(d)
                                            /\ Clears(d)' = Clears(d) /\ Framed(d)'
    BY <1>1, CallsStand DEF AvInv
  <1>6. MemoryTyped' /\ Known' = Known /\ BridgeTopic' = BridgeTopic
    BY <1>1 DEF AvInv, MemoryTyped, Known, BridgeTopic, memory, config
  <1>7. \A u \in Topics : \A S : Lands(wire, retained, u, S) => Lands(wire', retained', u, S)
    <2>1. m = Head(wire) /\ wire # <<>> /\ retained \in [Topics -> Payloads]
      BY <1>2, <1>3, Typed
    <2>2. m.retain
      BY DEF Messages
    <2>3. retained' = IF Head(wire).retain THEN [retained EXCEPT ![Head(wire).topic] = Head(wire).payload] ELSE retained
      BY <1>3, <2>1, <2>2
    <2>4. QED
      BY <1>3, <2>1, <2>3, LandsRead
  <1>8. \A u : \A i \in For(wire', u) : i + 1 \in For(wire, u)
    BY <1>3 DEF For
  <1>9. m.from \in Callers =>
          /\ Waits(m.from) /\ answer[m.from] = "sent"
          /\ m.topic = item[m.from].topic /\ m.payload = item[m.from].payload
          /\ \A j \in For(wire, m.topic) : j <= 1
    BY <1>2, <1>3 DEF AvInv, Sent
  <1>10. m.from \in Callers \cup {None} /\ answer \in [Callers -> Answers] /\ m.retain
    BY Typed DEF Messages
  <1>11. \A d \in Callers : answer'[d] = IF d = m.from THEN "accepted" ELSE answer[d]
    BY <1>3, <1>10, BrokerAssumption
  <1>12. \A u : Pending(u)' = Pending(u)
    BY <1>1, <1>5, <1>9, <1>11 DEF Pending, callers
  <1>13. Sent'
    <2>1. SUFFICES ASSUME NEW i \in 1..Len(wire'), NEW d \in Callers, wire'[i].from = d
          PROVE  /\ Waits(d) /\ answer'[d] = "sent"
                 /\ wire'[i].topic = item[d].topic /\ wire'[i].payload = item[d].payload
                 /\ \A j \in For(wire', item[d].topic) : j <= i
      BY <1>1, <1>5 DEF Sent, callers
    <2>2. i + 1 \in 1..Len(wire) /\ wire'[i] = wire[i + 1] /\ i \in Nat \ {0}
      BY <1>3
    <2>3. /\ Waits(d) /\ answer[d] = "sent"
          /\ wire[i + 1].topic = item[d].topic /\ wire[i + 1].payload = item[d].payload
          /\ \A j \in For(wire, item[d].topic) : j <= i + 1
      BY <2>1, <2>2 DEF AvInv, Sent
    <2>4. d # m.from
      <3>1. wire[i + 1].retain
        <4>1. wire[i + 1] \in Messages
          BY <1>3, <2>2
        <4>2. QED
          BY <4>1 DEF Messages
      <3>2. i + 1 \in For(wire, item[d].topic)
        BY <2>2, <2>3, <3>1 DEF For
      <3>3. QED
        BY <1>9, <2>2, <3>2
    <2>5. ASSUME NEW j \in For(wire', item[d].topic) PROVE j <= i
      <3>1. j \in Nat
        BY <2>5 DEF For
      <3>2. j + 1 \in For(wire, item[d].topic)
        BY <1>8, <2>5
      <3>3. j + 1 <= i + 1
        BY <2>3, <3>2
      <3>4. QED
        BY <2>2, <3>1, <3>3
    <2>6. QED
      BY <1>11, <2>2, <2>3, <2>4, <2>5
  <1>14. Landed'
    <2>1. SUFFICES ASSUME NEW d \in Callers, Waits(d), answer'[d] = "accepted"
          PROVE  /\ Lands(wire', retained', item[d].topic, {item[d].payload})
                 /\ QoS = 1 => For(wire', item[d].topic) = {}
      BY <1>1, <1>5 DEF Landed, Settles, callers
    <2>2. item[d].topic \in Topics
      BY <2>1, WaitersWrite DEF AvInv
    <2>3. CASE d = m.from
      <3>1. 1 \in For(wire, item[d].topic) /\ \A j \in For(wire, item[d].topic) : j <= 1
        BY <1>2, <1>3, <1>9, <1>10, <2>3 DEF For
      <3>2. Lands(wire, retained, item[d].topic, {wire[1].payload})
        BY <1>3, <3>1, LandsOnLast
      <3>3. wire[1].payload = item[d].payload
        BY <1>2, <1>9, <2>3
      <3>4. For(wire', item[d].topic) = {}
        <4>1. ASSUME NEW j \in For(wire', item[d].topic) PROVE FALSE
          <5>1. j \in 1..Len(wire') /\ j + 1 <= 1
            BY <1>8, <3>1, <4>1 DEF For
          <5>2. QED
            BY <1>3, <5>1
        <4>2. QED
          BY <4>1
      <3>5. QED
        BY <1>7, <2>2, <3>2, <3>3, <3>4
    <2>4. CASE d # m.from
      <3>1. Lands(wire, retained, item[d].topic, {item[d].payload}) /\ (QoS = 1 => For(wire, item[d].topic) = {})
        BY <1>11, <2>1, <2>4 DEF AvInv, Landed, Settles
      <3>2. QED
        BY <1>7, <1>8, <2>2, <3>1
    <2>5. QED
      BY <2>3, <2>4
  <1>15. Delivered'
    BY <1>1, <1>8, <1>12 DEF AvInv, Delivered, history
  <1>16. \A d \in Callers : Copied(d)' /\ Walked(d)'
    <2>1. SUFFICES ASSUME NEW d \in Callers PROVE Copied(d)' /\ Walked(d)'
      OBVIOUS
    <2>2. Copied(d)'
      BY <1>1, <1>5, <1>6 DEF AvInv, Copied, callers, history
    <2>3. asked[d] \subseteq Topics
      BY DEF AvInv, CallersTyped
    <2>4. Walked(d)'
      BY <1>1, <1>5, <1>6, <1>7, <2>3 DEF AvInv, Walked, Settles, callers
    <2>5. QED
      BY <2>2, <2>4
  <1>17. Alone' /\ Reported'
    <2>1. Alone'
      BY <1>1, <1>5, <1>6 DEF AvInv, Alone, history
    <2>2. Reported'
      BY <1>1, <1>7 DEF AvInv, Alone, Reported, Settles, history
    <2>3. QED
      BY <2>1, <2>2
  <1>18. Traced'
    <2>1. SUFFICES ASSUME QoS = 1, NEW u \in Topics \ (Known \cup forgotten \cup unheard \cup {BridgeTopic}), ~Pending(u)
          PROVE  retained'[u] = Empty
      BY <1>1, <1>6, <1>12 DEF Traced, history
    <2>2. For(wire, u) = {}
      BY <2>1 DEF AvInv, Delivered
    <2>3. m.topic # u
      BY <1>2, <1>3, <1>10, <2>2 DEF For
    <2>4. retained'[u] = retained[u]
      BY <1>3, <2>3, Typed
    <2>5. QED
      BY <2>1, <2>4 DEF AvInv, Traced
  <1>19. QED
    BY <1>4, <1>5, <1>6, <1>13, <1>14, <1>15, <1>16, <1>17, <1>18 DEF AvInv

LEMMA LoseAnswerKeeps ==
  ASSUME AvInv, NEW c \in Callers, LoseAnswer(c)
  PROVE  AvInv'
  <1>. DEFINE lost(i) == IF wire[i].from = c THEN [wire[i] EXCEPT !.from = None] ELSE wire[i]
  <1>1. /\ UNCHANGED <<config, memory, callers, cleared, forgotten, retained>>
        /\ unheard' = unheard \cup {item[c].topic}
        /\ wire' = [i \in DOMAIN wire |-> lost(i)] /\ answer' = [answer EXCEPT ![c] = "failed"]
    BY DEF LoseAnswer, AnswerLost
  <1>2. wire \in Seq(Messages) /\ Len(wire) \in Nat /\ answer \in [Callers -> Answers]
    BY Typed
  <1>3. \A i \in DOMAIN wire : lost(i) \in Messages
    <2>1. SUFFICES ASSUME NEW i \in DOMAIN wire PROVE lost(i) \in Messages
      OBVIOUS
    <2>2. PICK m \in Messages : m = wire[i]
      BY <1>2
    <2>3. [m EXCEPT !.from = None] \in Messages
      BY DEF Messages
    <2>4. QED
      BY <2>2, <2>3
  <1>4. Len(wire') = Len(wire) /\ \A i \in 1..Len(wire) : wire'[i] = lost(i) /\ wire[i] \in Messages
    BY <1>1, <1>2
  <1>5. \A i \in 1..Len(wire) :
          /\ wire'[i].retain = wire[i].retain /\ wire'[i].topic = wire[i].topic /\ wire'[i].payload = wire[i].payload
          /\ wire'[i].from = IF wire[i].from = c THEN None ELSE wire[i].from
    BY <1>4 DEF Messages
  <1>. HIDE DEF lost
  <1>6. BrokerTyped'
    <2>1. wire' \in Seq(Messages)
      BY <1>1, <1>2, <1>3
    <2>2. QED
      BY <1>1, <1>2, <2>1 DEF AvInv, BrokerTyped, Answers
  <1>7. CallersTyped' /\ \A d \in Callers : /\ Waits(d)' = Waits(d) /\ Writes(d)' = Writes(d)
                                            /\ Clears(d)' = Clears(d) /\ Framed(d)'
    BY <1>1, CallsStand DEF AvInv
  <1>8. MemoryTyped' /\ Known' = Known /\ BridgeTopic' = BridgeTopic
    BY <1>1 DEF AvInv, MemoryTyped, Known, BridgeTopic, memory, config
  <1>9. \A u : \A S : For(wire', u) = For(wire, u) /\ (Lands(wire, retained, u, S) => Lands(wire', retained', u, S))
    <2>1. \A u : \A S : Lands(wire, retained, u, S) => Lands(wire', retained, u, S)
      BY <1>4, <1>5, LandsUnnamed
    <2>2. \A u : For(wire', u) = For(wire, u)
      BY <1>4, <1>5 DEF For
    <2>3. QED
      BY <1>1, <2>1, <2>2
  <1>10. answer'[c] = "failed" /\ \A d \in Callers \ {c} : answer'[d] = answer[d]
    BY <1>1, <1>2
  <1>11. \A u : Pending(u) => Pending(u)' \/ u = item[c].topic
    BY <1>1, <1>7, <1>10 DEF Pending, callers
  <1>12. Sent'
    <2>1. SUFFICES ASSUME NEW i \in 1..Len(wire'), NEW d \in Callers, wire'[i].from = d
          PROVE  /\ Waits(d) /\ answer'[d] = "sent"
                 /\ wire'[i].topic = item[d].topic /\ wire'[i].payload = item[d].payload
                 /\ \A j \in For(wire', item[d].topic) : j <= i
      BY <1>1, <1>7 DEF Sent, callers
    <2>2. i \in 1..Len(wire) /\ wire[i].from = d /\ d # c
      BY <1>4, <1>5, <2>1, BrokerAssumption
    <2>3. /\ Waits(d) /\ answer[d] = "sent"
          /\ wire[i].topic = item[d].topic /\ wire[i].payload = item[d].payload
          /\ \A j \in For(wire, item[d].topic) : j <= i
      BY <2>2 DEF AvInv, Sent
    <2>4. QED
      BY <1>5, <1>9, <1>10, <2>2, <2>3
  <1>13. Landed'
    <2>1. SUFFICES ASSUME NEW d \in Callers, Waits(d), answer'[d] = "accepted"
          PROVE  /\ Lands(wire', retained', item[d].topic, {item[d].payload})
                 /\ QoS = 1 => For(wire', item[d].topic) = {}
      BY <1>1, <1>7 DEF Landed, Settles, callers
    <2>2. answer[d] = "accepted"
      BY <1>10, <2>1
    <2>3. Lands(wire, retained, item[d].topic, {item[d].payload}) /\ (QoS = 1 => For(wire, item[d].topic) = {})
      BY <2>1, <2>2 DEF AvInv, Landed, Settles
    <2>4. QED
      BY <1>9, <2>3
  <1>14. Delivered' /\ Reported'
    BY <1>1, <1>9, <1>11 DEF AvInv, Delivered, Reported, Settles
  <1>15. \A d \in Callers : Copied(d)' /\ Walked(d)'
    BY <1>1, <1>7, <1>8, <1>9 DEF AvInv, Copied, Walked, Settles, callers
  <1>16. Alone'
    BY <1>1, <1>7, <1>8 DEF AvInv, Alone
  <1>17. Traced'
    BY <1>1, <1>8, <1>11 DEF AvInv, Traced
  <1>18. QED
    BY <1>6, <1>7, <1>8, <1>12, <1>13, <1>14, <1>15, <1>16, <1>17 DEF AvInv

\* Nobody is in a call when the connection changes.
LEMMA NewConnectionKeeps ==
  ASSUME AvInv, Regime, NewConnection
  PROVE  AvInv'
  <1>1. /\ \A c \in Callers : pc[c] = "idle"
        /\ UNCHANGED <<config, memory, callers, forgotten, unheard>>
        /\ wire' = <<>> /\ cleared' = {}
        /\ answer' = [c \in Callers |-> IF answer[c] = "sent" THEN "failed" ELSE answer[c]]
    BY DEF NewConnection, Reconnect, Regime
  <1>2. \/ retained' = [retained EXCEPT ![BridgeTopic] = IF IsSmartHome(layout) THEN Level(0) ELSE Token(FALSE)]
        \/ retained' = [t \in Topics |-> Empty]
    BY DEF NewConnection, Reconnect
  <1>3. PICK p \in Payloads : p = IF IsSmartHome(layout) THEN Level(0) ELSE Token(FALSE)
    BY BridgeWords
  <1>4. /\ retained' \in [Topics -> Payloads]
        /\ \A t \in Topics \ {BridgeTopic} : retained'[t] \in {retained[t], Empty}
    <2>1. retained' = [retained EXCEPT ![BridgeTopic] = p] \/ retained' = [t \in Topics |-> Empty]
      BY <1>2, <1>3
    <2>2. Empty \in Payloads
      BY DEF Payloads
    <2>3. QED
      BY <2>1, <2>2, Typed
  <1>5. BrokerTyped'
    BY <1>1, <1>4 DEF AvInv, BrokerTyped, Answers
  <1>6. CallersTyped' /\ \A d \in Callers : /\ Waits(d)' = Waits(d) /\ Writes(d)' = Writes(d)
                                            /\ Clears(d)' = Clears(d) /\ Framed(d)'
    BY <1>1, CallsStand DEF AvInv
  <1>7. MemoryTyped' /\ Known' = Known /\ BridgeTopic' = BridgeTopic
    BY <1>1 DEF AvInv, MemoryTyped, Known, BridgeTopic, memory, config
  <1>8. \A d \in Callers : ~Waits(d) /\ ~Clears(d)
    BY <1>1 DEF AvInv, Framed, Waits, Clears
  <1>9. \A u : For(wire', u) = {} /\ ~Pending(u)
    BY <1>1, <1>8 DEF For, Pending
  <1>10. Sent' /\ Landed' /\ Delivered' /\ Reported'
    BY <1>1, <1>6, <1>8, <1>9 DEF Sent, Landed, Delivered, Reported
  <1>11. \A d \in Callers : Copied(d)' /\ Walked(d)'
    <2>1. \A d \in Callers : op[d] # "sweep"
      BY <1>8 DEF Clears
    <2>2. QED
      BY <1>1, <1>6, <1>7, <1>8, <2>1 DEF AvInv, Copied, Walked, callers
  <1>12. Alone'
    BY <1>1, <1>6, <1>7 DEF AvInv, Alone
  <1>13. Traced'
    BY <1>1, <1>4, <1>7, <1>9 DEF AvInv, Traced
  <1>14. QED
    BY <1>5, <1>6, <1>7, <1>10, <1>11, <1>12, <1>13 DEF AvInv

\* The announcer writes the bridge's topic, and nobody else does.
LEMMA AnnounceKeeps ==
  ASSUME AvInv, Announce
  PROVE  AvInv'
  <1>1. UNCHANGED <<wire, answer, config, memory, callers, cleared, forgotten, unheard>>
    BY DEF Announce
  <1>2. PICK p \in Payloads : retained' = [retained EXCEPT ![BridgeTopic] = p]
    <2>1. (IF IsSmartHome(layout) THEN Level(2) ELSE Token(TRUE)) \in Payloads
      BY BridgeWords
    <2>2. QED
      BY <2>1 DEF Announce
  <1>3. retained' \in [Topics -> Payloads] /\ \A t \in Topics \ {BridgeTopic} : retained'[t] = retained[t]
    BY <1>2, Typed
  <1>4. BrokerTyped'
    BY <1>1, <1>3 DEF AvInv, BrokerTyped
  <1>5. CallersTyped' /\ \A d \in Callers : /\ Waits(d)' = Waits(d) /\ Writes(d)' = Writes(d)
                                            /\ Clears(d)' = Clears(d) /\ Framed(d)'
    BY <1>1, CallsStand DEF AvInv
  <1>6. MemoryTyped' /\ Known' = Known /\ BridgeTopic' = BridgeTopic
    BY <1>1 DEF AvInv, MemoryTyped, Known, BridgeTopic, memory, config
  <1>7. \A u : Pending(u)' = Pending(u)
    BY <1>1, <1>5 DEF Pending, callers
  <1>8. \A u \in Topics \ {BridgeTopic} : \A S : Settles(u, S) => Lands(wire', retained', u, S)
    BY <1>1, <1>3 DEF Settles, Lands
  <1>9. \A d \in Callers : BridgeTopic \notin Writes(d) /\ asked[d] \subseteq Writes(d)
    BY DEF AvInv, Alone, CallersTyped, Writes, Busy
  <1>10. Sent'
    BY <1>1, <1>5 DEF AvInv, Sent, callers
  <1>11. Landed'
    <2>1. SUFFICES ASSUME NEW d \in Callers, Waits(d), answer[d] = "accepted"
          PROVE  /\ Lands(wire', retained', item[d].topic, {item[d].payload})
                 /\ QoS = 1 => For(wire, item[d].topic) = {}
      BY <1>1, <1>5 DEF Landed, Settles, callers
    <2>2. item[d].topic \in Topics \ {BridgeTopic}
      BY <1>9, <2>1, WaitersWrite DEF AvInv
    <2>3. QED
      BY <1>8, <2>1, <2>2 DEF AvInv, Landed
  <1>12. Delivered'
    BY <1>1, <1>7 DEF AvInv, Delivered
  <1>13. \A d \in Callers : Copied(d)' /\ Walked(d)'
    <2>1. SUFFICES ASSUME NEW d \in Callers PROVE Copied(d)' /\ Walked(d)'
      OBVIOUS
    <2>2. Copied(d)'
      BY <1>1, <1>5, <1>6 DEF AvInv, Copied, callers
    <2>3. asked[d] \subseteq Topics \ {BridgeTopic}
      BY <1>9 DEF AvInv, CallersTyped
    <2>4. Walked(d)'
      BY <1>1, <1>5, <1>6, <1>8, <2>3 DEF AvInv, Walked, Settles, callers
    <2>5. QED
      BY <2>2, <2>4
  <1>14. Alone' /\ Reported'
    <2>1. Alone'
      BY <1>1, <1>5, <1>6 DEF AvInv, Alone
    <2>2. Reported'
      BY <1>1, <1>8 DEF AvInv, Alone, Reported, Settles
    <2>3. QED
      BY <2>1, <2>2
  <1>15. Traced'
    BY <1>1, <1>3, <1>6, <1>7 DEF AvInv, Traced
  <1>16. QED
    BY <1>4, <1>5, <1>6, <1>10, <1>11, <1>12, <1>13, <1>14, <1>15 DEF AvInv

-----------------------------------------------------------------------------
(* The theorems.                                                             *)

LEMMA Initially ==
  ASSUME Init
  PROVE  AvInv
  <1>1. /\ setting \in Settings /\ wire = <<>> /\ answer = [c \in Callers |-> "none"]
        /\ last = [t \in Topics |-> Empty] /\ gated = {} /\ cleared = {}
        /\ \A c \in Callers : /\ pc[c] = "idle" /\ op[c] = "none" /\ item[c] = NoItem
                              /\ todo[c] = {} /\ asked[c] = {}
    BY DEF Init, BrokerInit
  <1>2. PICK p \in Payloads : p = IF IsSmartHome(layout) THEN Level(2) ELSE Token(TRUE)
    BY BridgeWords
  <1>3. retained = [t \in Topics |-> IF t # BridgeTopic THEN Empty ELSE p]
    BY <1>2 DEF Init, BrokerInit
  <1>4. BrokerTyped /\ MemoryTyped
    <2>1. Empty \in Payloads
      BY DEF Payloads
    <2>2. BrokerTyped
      BY <1>1, <1>3, <2>1 DEF BrokerTyped, Answers
    <2>3. MemoryTyped
      BY <1>1, <2>1 DEF MemoryTyped
    <2>4. QED
      BY <2>2, <2>3
  <1>5. CallersTyped
    BY DEF Init, CallersTyped
  <1>6. \A c \in Callers : ~Waits(c) /\ ~Clears(c) /\ Writes(c) = {}
    BY <1>1, GateAssumption DEF GateAssumption, Waits, Clears, Writes, Busy, NoItem
  <1>7. \A c \in Callers : Framed(c)
    BY <1>1, <1>6 DEF Framed
  <1>8. \A c \in Callers : Copied(c) /\ Walked(c)
    BY <1>1, <1>6 DEF Copied, Walked
  <1>9. Known = {}
    BY <1>1 DEF Known
  <1>10. Alone
    BY <1>1, <1>6, <1>9 DEF Alone
  <1>11. \A u : For(wire, u) = {}
    BY <1>1 DEF For
  <1>12. Sent /\ Landed /\ Delivered /\ Reported
    BY <1>1, <1>6, <1>11 DEF Sent, Landed, Delivered, Reported
  <1>13. Traced
    BY <1>3 DEF Traced
  <1>14. QED
    BY <1>4, <1>5, <1>7, <1>8, <1>10, <1>12, <1>13 DEF AvInv

LEMMA Inductive ==
  ASSUME AvInv, Regime, [Next]_vars
  PROVE  AvInv'
  <1>1. CASE \E c \in Callers : Begin(c)
    BY <1>1, BeginsKeep
  <1>2. CASE \E c \in Callers : Step(c)
    BY <1>2, HandOverKeeps, RecordKeeps, WriteFailsKeeps, WalkStepKeeps, WalkAnsweredKeeps, WalkEndsKeeps DEF Step
  <1>3. CASE \E c \in Callers : LoseAnswer(c)
    BY <1>3, LoseAnswerKeeps
  <1>4. CASE Read
    BY <1>4, ReadKeeps
  <1>5. CASE NewConnection
    BY <1>5, NewConnectionKeeps
  <1>6. CASE Announce
    BY <1>6, AnnounceKeeps
  <1>7. CASE UNCHANGED vars
    BY <1>7, SuppressedKeeps DEF vars, history
  <1>8. QED
    BY <1>1, <1>2, <1>3, <1>4, <1>5, <1>6, <1>7 DEF Next

\* Where nothing of t is on its way, what it settles on is what is retained.
LEMMA QuietSettles ==
  ASSUME AvInv, NEW t \in Topics, Quiet(t)
  PROVE  /\ ~Pending(t) /\ \A S : Settles(t, S) => retained[t] \in S
  <1>1. For(wire, t) = {}
    BY Typed DEF For, Quiet
  <1>2. ~Pending(t)
    BY DEF Quiet, Pending
  <1>3. QED
    BY <1>1, <1>2 DEF Settles, Lands

\* A topic that Retract or Sweep reported gone is gone, also when the pass failed half
\* way or was cancelled, for every set of callers, topics and settings, where one
\* goroutine at a time works on a topic and Forget does not run beside a Sweep
\* (availability.go:735-745).
THEOREM ReportedGoneIsGone ==
  ASSUME Regime
  PROVE  Spec => []ReportedIsGone
  <1>1. Init => AvInv
    BY Initially
  <1>2. AvInv /\ [Next]_vars => AvInv'
    BY Inductive
  <1>3. AvInv => ReportedIsGone
    <2>1. SUFFICES ASSUME AvInv, NEW t \in cleared, Quiet(t) PROVE retained[t] = Empty
      BY DEF ReportedIsGone
    <2>2. t \in Topics /\ Settles(t, {Empty})
      BY <2>1 DEF AvInv, Alone, Reported
    <2>3. QED
      BY <2>1, <2>2, QuietSettles
  <1>4. QED
    BY <1>1, <1>2, <1>3, PTL DEF Spec

\* What the broker retains of this process is in the index Sweep and Republish work
\* from, or was forgotten by request, or was written by a flip that never heard its
\* answer (availability.go:468-492).
THEOREM TheIndexReachesAll ==
  ASSUME Regime
  PROVE  Spec => []NothingLeftBehind
  <1>1. Init => AvInv
    BY Initially
  <1>2. AvInv /\ [Next]_vars => AvInv'
    BY Inductive
  <1>3. AvInv => NothingLeftBehind
    <2>1. SUFFICES ASSUME AvInv, NEW t \in DOMAIN retained \ {BridgeTopic},
                          retained[t] # Empty, t \notin forgotten \cup unheard, QoS = 1, Quiet(t)
          PROVE  last[t] # Empty
      BY DEF NothingLeftBehind
    <2>2. t \in Topics
      BY <2>1, Typed
    <2>3. ~Pending(t)
      BY <2>1, <2>2, QuietSettles
    <2>4. t \in Known
      BY <2>1, <2>2, <2>3 DEF AvInv, Traced
    <2>5. QED
      BY <2>4 DEF Known
  <1>4. QED
    BY <1>1, <1>2, <1>3, PTL DEF Spec

-----------------------------------------------------------------------------
(* What Home Assistant sees: the second half of the inductive invariant.     *)

\* What the flips and the declarations take from the consumer: the layout is one the
\* code knows, the four levels are, the bridge's topic exists; an entity with a level of
\* its own binds its availability (selfAvailability would read its state otherwise); its
\* first binding has its device's address (BindingSlot against DeviceSlot); and the
\* datapoint Self writes is no device's availability topic.
Naming ==
  /\ \A s \in Settings : /\ LayoutOf[s].kind \in {"default", "channel", "smarthome"}
                         /\ BridgeTable[s] \in Topics
  /\ \A u \in Units :
       /\ Len(EntityOf[u].binds) \in Nat /\ DOMAIN EntityOf[u].binds = 1..Len(EntityOf[u].binds)
       /\ LevelsOf(u) \subseteq {"bridge", "device", "parent", "self"}
       /\ "self" \in LevelsOf(u) => Bind(EntityOf[u], "availability") # {}
       /\ LevelsOf(u) \cap {"device", "parent"} # {} =>
            /\ EntityOf[u].binds # <<>>
            /\ LET s == EntityOf[u].binds[1].slot
               IN  s = Slot(s.scope, DeviceOf[u].uid, s.channel, s.bucket, s.path)
  /\ \A s \in Settings : \A u, w \in Units : \A v \in LevelsOf(u) \ {"self"} :
       "self" \in LevelsOf(w) => TargetTable[s][u][v] \cap TargetTable[s][w]["self"] = {}

\* The topics Self writes; where there is anything to flip; what a flip leaves there.
SelfTopics   == UNION {Targets(u, "self") : u \in At("self")}
Flippable(t) == IF t \in SelfTopics THEN encoding # "status" ELSE ~IsSmartHome(layout)
Word(t, b)   == IF t \in SelfTopics THEN SelfPayload(encoding, b) ELSE Token(b)
BridgeWord   == IF IsSmartHome(layout) THEN Level(2) ELSE Token(TRUE)

Untouched(t) == \A c \in Callers : t \notin Writes(c)

HistoryTyped ==
  /\ about = FactsAtTable[setting]
  /\ told = [f \in AllFacts |-> told[f]]

\* A flip under way carries the word for what it will say, of a fact its topic carries.
Flipping(c) ==
  op[c] = "flip" =>
    /\ item[c].fact \in about[item[c].topic] /\ Flippable(item[c].topic)
    /\ \E b \in BOOLEAN : item[c].online = b /\ item[c].payload = Word(item[c].topic, b)

\* What Republish has still to send is what the gate holds.
Copies(c) ==
  op[c] = "republish" =>
    /\ \A t \in todo[c] \cap gated : copy[c][t] = last[t]
    /\ item[c].topic \in gated => item[c].payload = last[item[c].topic]

\* An entry the gate may suppress by is what its topic settles on.
Gate ==
  settled => \A t \in gated \ unheard : Pending(t) \/ Settles(t, {last[t]})

\* What was said of a fact is what its topic settles on, and nobody is about to change it.
Said ==
  \A t \in Topics : \A f \in about[t] : told[f] # None =>
    /\ Flippable(t) /\ Untouched(t)
    /\ \E b \in BOOLEAN : told[f] = b /\ Settles(t, {Word(t, b)})

\* What was said of a fact was said at a topic.
Carried ==
  \A f \in AllFacts \ {<<"bridge">>} : told[f] # None => \E t \in Topics : f \in about[t]

BridgeSays ==
  /\ <<"bridge">> \in AllFacts /\ told[<<"bridge">>] # None =>
       told[<<"bridge">>] = TRUE /\ retained[BridgeTopic] = BridgeWord
  /\ \A i \in 1..Len(wire) : wire[i].topic # BridgeTopic

ToldInv ==
  /\ HistoryTyped /\ Gate /\ Said /\ Carried /\ BridgeSays
  /\ \A c \in Callers : Flipping(c) /\ Copies(c)

-----------------------------------------------------------------------------
(* A fact has one topic, and a topic one kind of word.                       *)

\* A role is bound once.
LEMMA BoundOnce ==
  ASSUME NEW e, NEW n \in Nat, DOMAIN e.binds = 1..n, NEW role, NEW a \in Bind(e, role), NEW b \in Bind(e, role)
  PROVE  a = b
  <1>1. PICK i \in 1..n : a = e.binds[i] /\ e.binds[i].role = role /\ \A h \in 1..(i - 1) : e.binds[h].role # role
    BY DEF Bind
  <1>2. PICK j \in 1..n : b = e.binds[j] /\ e.binds[j].role = role /\ \A h \in 1..(j - 1) : e.binds[h].role # role
    BY DEF Bind
  <1>3. i = j
    BY <1>1, <1>2
  <1>4. QED
    BY <1>1, <1>2, <1>3

\* A topic of reachability is fixed by what its fact names.
LEMMA ReachFixes ==
  ASSUME NEW l, l.kind \in {"default", "channel", "smarthome"}, NEW r, NEW s, Reach(l, r) = Reach(l, s)
  PROVE  AvailabilityTopic(l, r) = AvailabilityTopic(l, s)
  <1>1. r.scope = s.scope /\ r.address = s.address
    BY DEF Reach
  <1>2. l.kind = "channel" => r.channel = s.channel
    BY DEF Reach
  <1>3. CASE l.kind = "default"
    BY <1>1, <1>3 DEF AvailabilityTopic
  <1>4. CASE l.kind = "channel"
    BY <1>1, <1>2, <1>4 DEF AvailabilityTopic
  <1>5. CASE l.kind = "smarthome"
    BY <1>1, <1>5 DEF AvailabilityTopic
  <1>6. QED
    BY <1>3, <1>4, <1>5

\* The fact and the topic of a level name the same thing.
LEMMA LevelNames ==
  ASSUME Naming, setting \in Settings, NEW u \in Units, NEW v \in LevelsOf(u), v # "bridge",
         NEW f \in Facts(u, v)
  PROVE  \/ v # "self" /\ \E r : f = Reach(layout, r) /\ Facts(u, v) = {f} /\ Targets(u, v) = {AvailabilityTopic(layout, r)}
         \/ v = "self" /\ \E r : f = <<"self", r>> /\ Facts(u, v) = {f} /\ Targets(u, v) = {StateTopic(layout, r)}
  <1>1. /\ Facts(u, v) = FactsIn(layout, DeviceOf[u], EntityOf[u], v)
        /\ Targets(u, v) = TargetsIn(layout, DeviceOf[u], EntityOf[u], v)
    BY DEF Facts, Targets, FactTable, TargetTable, layout
  <1>2. v \in {"device", "parent", "self"}
    BY DEF Naming
  <1>3. CASE v = "device"
    BY <1>1, <1>3 DEF FactsIn, TargetsIn
  <1>4. CASE v = "parent"
    <2>1. HasParent(DeviceOf[u])
      BY <1>1, <1>4 DEF FactsIn
    <2>2. /\ Facts(u, v) = {Reach(layout, ParentSlot(DeviceOf[u], EntityOf[u]))}
          /\ Targets(u, v) = {AvailabilityTopic(layout, ParentSlot(DeviceOf[u], EntityOf[u]))}
      BY <1>1, <1>4, <2>1 DEF FactsIn, TargetsIn, ParentSlot
    <2>3. QED
      BY <1>4, <2>2
  <1>5. CASE v = "self"
    <2>1. /\ Facts(u, v) = {<<"self", b.slot>> : b \in Bind(EntityOf[u], "availability")}
          /\ Targets(u, v) = {StateTopic(layout, b.slot) : b \in Bind(EntityOf[u], "availability")}
      BY <1>1, <1>5 DEF FactsIn, TargetsIn
    <2>2. PICK b \in Bind(EntityOf[u], "availability") : f = <<"self", b.slot>>
      BY <2>1
    <2>3. Len(EntityOf[u].binds) \in Nat /\ DOMAIN EntityOf[u].binds = 1..Len(EntityOf[u].binds)
      BY DEF Naming
    <2>4. \A a \in Bind(EntityOf[u], "availability") : a = b
      BY <2>3, BoundOnce
    <2>5. Bind(EntityOf[u], "availability") = {b}
      BY <2>4
    <2>6. QED
      BY <1>5, <2>1, <2>2, <2>5
  <1>6. QED
    BY <1>2, <1>3, <1>4, <1>5

\* A fact has one topic.
LEMMA FactFixesTopic ==
  ASSUME Naming, setting \in Settings, NEW u \in Units, NEW v \in LevelsOf(u), v # "bridge",
         NEW w \in Units, NEW x \in LevelsOf(w), x # "bridge",
         NEW f, f \in Facts(u, v), f \in Facts(w, x)
  PROVE  Targets(u, v) = Targets(w, x)
  <1>0. layout.kind \in {"default", "channel", "smarthome"}
    BY DEF Naming, layout
  <1>1. \A r, s : Reach(layout, r) # <<"self", s>>
    BY DEF Reach
  <1>2. CASE v # "self"
    <2>1. PICK r : f = Reach(layout, r) /\ Targets(u, v) = {AvailabilityTopic(layout, r)}
      BY <1>2, LevelNames
    <2>2. x # "self"
      BY <1>1, <2>1, LevelNames
    <2>3. PICK s : f = Reach(layout, s) /\ Targets(w, x) = {AvailabilityTopic(layout, s)}
      BY <2>2, LevelNames
    <2>4. AvailabilityTopic(layout, r) = AvailabilityTopic(layout, s)
      <3>1. Reach(layout, r) = Reach(layout, s)
        BY <2>1, <2>3
      <3>2. QED
        BY <1>0, <3>1, ReachFixes
    <2>5. QED
      BY <2>1, <2>3, <2>4
  <1>3. CASE v = "self"
    <2>1. PICK r : f = <<"self", r>> /\ Targets(u, v) = {StateTopic(layout, r)}
      BY <1>3, LevelNames
    <2>2. x = "self"
      BY <1>1, <2>1, LevelNames
    <2>3. PICK s : f = <<"self", s>> /\ Targets(w, x) = {StateTopic(layout, s)}
      BY <2>2, LevelNames
    <2>4. r = s
      BY <2>1, <2>3
    <2>5. QED
      BY <2>1, <2>3, <2>4
  <1>4. QED
    BY <1>2, <1>3

\* What a topic carries, under this setting.
LEMMA AboutIs ==
  ASSUME HistoryTyped, setting \in Settings, NEW t \in Topics, NEW f
  PROVE  f \in about[t] <=> \E u \in Units : \E v \in LevelsOf(u) : t \in Targets(u, v) /\ f \in Facts(u, v)
  <1>1. about[t] = UNION {UNION {FactTable[setting][u][v] : v \in {x \in LevelsOf(u) : t \in TargetTable[setting][u][x]}} :
                            u \in Units}
    BY DEF HistoryTyped, FactsAtTable
  <1>2. QED
    BY <1>1 DEF Targets, Facts

LEMMA NeverTheBridge ==
  ASSUME Naming, HistoryTyped, setting \in Settings, NEW t \in Topics, NEW f \in about[t]
  PROVE  f # <<"bridge">> /\ f \in AllFacts
  <1>0. PICK u \in Units : \E v \in LevelsOf(u) : t \in Targets(u, v) /\ f \in Facts(u, v)
    BY AboutIs
  <1>1. PICK v \in LevelsOf(u) : t \in Targets(u, v) /\ f \in Facts(u, v)
    BY <1>0
  <1>2. v # "bridge"
    BY <1>1 DEF Targets, TargetTable, TargetsIn
  <1>3. \A r : Reach(layout, r) # <<"bridge">> /\ <<"self", r>> # <<"bridge">>
    BY DEF Reach
  <1>4. f # <<"bridge">>
    BY <1>1, <1>2, <1>3, LevelNames
  <1>5. f \in AllFacts
    BY <1>1 DEF AllFacts, AllFactsTable, FactsOfTable, Facts
  <1>6. QED
    BY <1>4, <1>5

LEMMA OneTopic ==
  ASSUME Naming, HistoryTyped, setting \in Settings, NEW t \in Topics, NEW f \in about[t],
         NEW u \in Units, NEW v \in LevelsOf(u), v # "bridge", f \in Facts(u, v)
  PROVE  Targets(u, v) = {t}
  <1>0. PICK w \in Units : \E x \in LevelsOf(w) : t \in Targets(w, x) /\ f \in Facts(w, x)
    BY AboutIs
  <1>1. PICK x \in LevelsOf(w) : t \in Targets(w, x) /\ f \in Facts(w, x)
    BY <1>0
  <1>2. x # "bridge"
    BY <1>1 DEF Targets, TargetTable, TargetsIn
  <1>3. Targets(w, x) = {t}
    BY <1>1, <1>2, LevelNames
  <1>4. Targets(u, v) = Targets(w, x)
    BY <1>1, <1>2, FactFixesTopic
  <1>5. QED
    BY <1>3, <1>4

LEMMA OneTopicEach ==
  ASSUME Naming, HistoryTyped, setting \in Settings, NEW t \in Topics, NEW f \in about[t], NEW r \in Topics, f \in about[r]
  PROVE  t = r
  <1>0. PICK w \in Units : \E x \in LevelsOf(w) : r \in Targets(w, x) /\ f \in Facts(w, x)
    BY AboutIs
  <1>1. PICK x \in LevelsOf(w) : r \in Targets(w, x) /\ f \in Facts(w, x)
    BY <1>0
  <1>2. x # "bridge"
    BY <1>1 DEF Targets, TargetTable, TargetsIn
  <1>3. Targets(w, x) = {t}
    BY <1>1, <1>2, OneTopic
  <1>4. QED
    BY <1>1, <1>3

\* Self topics and reachability topics are different.
LEMMA KindsApart ==
  ASSUME Naming, setting \in Settings, NEW u \in Units, NEW v \in LevelsOf(u), NEW t \in Targets(u, v)
  PROVE  t \in SelfTopics <=> v = "self"
  <1>1. CASE v = "self"
    BY <1>1 DEF SelfTopics, At
  <1>2. CASE v # "self"
    <2>1. ASSUME t \in SelfTopics PROVE FALSE
      <3>1. PICK w \in Units : "self" \in LevelsOf(w) /\ t \in Targets(w, "self")
        BY <2>1 DEF SelfTopics, At
      <3>2. QED
        BY <1>2, <3>1 DEF Naming, Targets
    <2>2. QED
      BY <1>2, <2>1
  <1>3. QED
    BY <1>1, <1>2

-----------------------------------------------------------------------------
(* What the declarations read, where all that was said stands.               *)

\* What was said of a fact is what its topic, once quiet, retains.
LEMMA ToldAt ==
  ASSUME AvInv, ToldInv, Naming, NEW u \in Units, NEW v \in LevelsOf(u), v # "bridge",
         NEW f \in Facts(u, v), told[f] # None
  PROVE  \E t \in Topics : /\ Targets(u, v) = {t} /\ t # <<>>
                           /\ IF v = "self" THEN encoding # "status" ELSE ~IsSmartHome(layout)
                           /\ \E b \in BOOLEAN : /\ told[f] = b
                                                 /\ Quiet(t) => retained[t] = IF v = "self" THEN SelfPayload(encoding, b) ELSE Token(b)
  <1>1. setting \in Settings /\ HistoryTyped
    BY DEF AvInv, MemoryTyped, ToldInv
  <1>2. f \in AllFacts
    BY <1>1 DEF AllFacts, AllFactsTable, FactsOfTable, Facts
  <1>3. f # <<"bridge">>
    <2>1. \A r : Reach(layout, r) # <<"bridge">> /\ <<"self", r>> # <<"bridge">>
      BY DEF Reach
    <2>2. QED
      BY <1>1, <2>1, LevelNames
  <1>4. PICK t \in Topics : f \in about[t]
    BY <1>2, <1>3 DEF ToldInv, Carried
  <1>5. Targets(u, v) = {t}
    BY <1>1, <1>4, OneTopic
  <1>6. t \in SelfTopics <=> v = "self"
    BY <1>1, <1>5, KindsApart
  <1>7. Flippable(t) /\ \E b \in BOOLEAN : told[f] = b /\ Settles(t, {Word(t, b)})
    BY <1>4 DEF ToldInv, Said
  <1>8. PICK b \in BOOLEAN : told[f] = b /\ Settles(t, {Word(t, b)})
    BY <1>7
  <1>9. Quiet(t) => retained[t] = Word(t, b)
    BY <1>8, QuietSettles
  <1>10. Word(t, b) = IF v = "self" THEN SelfPayload(encoding, b) ELSE Token(b)
    BY <1>6 DEF Word
  <1>11. t # <<>>
    BY GateAssumption DEF GateAssumption
  <1>12. IF v = "self" THEN encoding # "status" ELSE ~IsSmartHome(layout)
    BY <1>6, <1>7 DEF Flippable
  <1>13. QED
    BY <1>5, <1>8, <1>9, <1>10, <1>11, <1>12

\* The words a declaration and a flip use agree.
LEMMA WordsAgree ==
  ASSUME NEW b \in BOOLEAN, NEW t
  PROVE  /\ Reads(Plain(t), Token(b)) = "online" <=> b
         /\ Reads(Entry(t, "", "true", "false"), Bool(b)) = "true" <=> b
         /\ Reads(Entry(t, "value", "true", "false"), Envelope(b, TRUE)) = "true" <=> b
  <1>1. Reads(Plain(t), Token(b)) = TokenWord(b)
    BY DEF Reads, Plain, Entry, Rendered, Token
  <1>2. Reads(Entry(t, "", "true", "false"), Bool(b)) = BoolWord(b)
    BY DEF Reads, Entry, Rendered, Bool
  <1>3. Reads(Entry(t, "value", "true", "false"), Envelope(b, TRUE)) = BoolWord(b)
    BY DEF Reads, Entry, Rendered, Envelope
  <1>4. QED
    BY <1>1, <1>2, <1>3 DEF TokenWord, BoolWord

LEMMA BridgeReads ==
  ASSUME NEW t
  PROVE  Reads(Plain(t), Token(TRUE)) = "online" /\ Reads(Connected(t), Level(2)) = "online"
  <1>1. Reads(Plain(t), Token(TRUE)) = TokenWord(TRUE)
    BY DEF Reads, Plain, Entry, Rendered, Token
  <1>2. Reads(Connected(t), Level(2)) = "online"
    <2>1. Level(2).form = "level" /\ Level(2).n >= 2
      BY DEF Level
    <2>2. Reads(Connected(t), Level(2)) = IF Level(2).form = "level" /\ Level(2).n >= 2 THEN "online" ELSE "offline"
      <3>1. Connected(t).template = "connected"
        BY DEF Connected, Entry
      <3>2. QED
        BY <3>1 DEF Reads, Rendered, TokenWord
    <2>3. QED
      BY <2>1, <2>2
  <1>3. QED
    BY <1>1, <1>2 DEF TokenWord

\* The entries read as the facts were said.
SeenAs(entries, F) ==
  SeenAvailable(entries) <=> \A f \in F : told[f] = TRUE

LEMMA BridgeSeen ==
  ASSUME AvInv, ToldInv, NEW u \in Units, "bridge" \in LevelsOf(u), \A f \in Facts(u, "bridge") : told[f] # None,
         NEW slots, NEW skip
  PROVE  SeenAs(DeclaredLevel(layout, encoding, DeviceOf[u], EntityOf[u], "bridge", slots, skip), Facts(u, "bridge"))
  <1>1. setting \in Settings
    BY DEF AvInv, MemoryTyped
  <1>2. Facts(u, "bridge") = {<<"bridge">>}
    BY <1>1 DEF Facts, FactTable, FactsIn
  <1>3. <<"bridge">> \in AllFacts
    BY <1>1, <1>2 DEF AllFacts, AllFactsTable, FactsOfTable, Facts
  <1>4. told[<<"bridge">>] = TRUE /\ retained[BridgeTopic] = BridgeWord
    BY <1>2, <1>3 DEF ToldInv, BridgeSays
  <1>5. BridgeTopic = Bridge(layout)
    BY <1>1 DEF BridgeTopic, BridgeTable, layout
  <1>6. DeclaredLevel(layout, encoding, DeviceOf[u], EntityOf[u], "bridge", slots, skip)
          = {IF IsSmartHome(layout) THEN Connected(Bridge(layout)) ELSE Plain(Bridge(layout))}
    BY DEF DeclaredLevel
  <1>7. SeenAvailable({IF IsSmartHome(layout) THEN Connected(Bridge(layout)) ELSE Plain(Bridge(layout))})
    <2>1. CASE IsSmartHome(layout)
      <3>1. Connected(Bridge(layout)).topic = BridgeTopic /\ Connected(Bridge(layout)).yes = "online"
        BY <1>5 DEF Connected, Entry
      <3>2. Reads(Connected(Bridge(layout)), retained[BridgeTopic]) = "online"
        BY <1>4, <2>1, BridgeReads DEF BridgeWord
      <3>3. QED
        BY <2>1, <3>1, <3>2 DEF SeenAvailable
    <2>2. CASE ~IsSmartHome(layout)
      <3>1. Plain(Bridge(layout)).topic = BridgeTopic /\ Plain(Bridge(layout)).yes = "online"
        BY <1>5 DEF Plain, Entry
      <3>2. Reads(Plain(Bridge(layout)), retained[BridgeTopic]) = "online"
        BY <1>4, <2>2, BridgeReads DEF BridgeWord
      <3>3. QED
        BY <2>2, <3>1, <3>2 DEF SeenAvailable
    <2>3. QED
      BY <2>1, <2>2
  <1>8. QED
    BY <1>2, <1>4, <1>6, <1>7 DEF SeenAs

\* A slot a context may resolve a device's level from.
Resolves(u, slots, skip) ==
  \/ slots = {DeviceSlot(DeviceOf[u], EntityOf[u])} /\ skip = FALSE
  \/ slots = BindingSlot(EntityOf[u]) /\ skip = TRUE

\* Both contexts name the topic a flip goes to.
LEMMA BothName ==
  ASSUME Naming, NEW u \in Units, LevelsOf(u) \cap {"device", "parent"} # {}, NEW l, l.kind \in {"default", "channel", "smarthome"},
         NEW slots, NEW skip, Resolves(u, slots, skip)
  PROVE  \E s : /\ slots = {s}
                /\ AvailabilityTopic(l, s) = AvailabilityTopic(l, DeviceSlot(DeviceOf[u], EntityOf[u]))
                /\ \A a : AvailabilityTopic(l, [s EXCEPT !.address = a])
                          = AvailabilityTopic(l, [DeviceSlot(DeviceOf[u], EntityOf[u]) EXCEPT !.address = a])
  <1>1. CASE slots = {DeviceSlot(DeviceOf[u], EntityOf[u])}
    BY <1>1
  <1>2. CASE slots = BindingSlot(EntityOf[u])
    <2>1. EntityOf[u].binds # <<>>
      BY DEF Naming
    <2>2. PICK s : s = EntityOf[u].binds[1].slot
      OBVIOUS
    <2>3. slots = {s}
      BY <1>2, <2>1, <2>2 DEF BindingSlot
    <2>4. s = Slot(s.scope, DeviceOf[u].uid, s.channel, s.bucket, s.path)
      BY <2>2 DEF Naming
    <2>5. PICK d : d = DeviceSlot(DeviceOf[u], EntityOf[u])
      OBVIOUS
    <2>6. d = Slot(s.scope, DeviceOf[u].uid, s.channel, "", <<>>)
      BY <2>1, <2>2, <2>5 DEF DeviceSlot
    <2>7. d.scope = s.scope /\ d.address = s.address /\ d.channel = s.channel
      <3>1. s.address = DeviceOf[u].uid
        <4>1. s.address = Slot(s.scope, DeviceOf[u].uid, s.channel, s.bucket, s.path).address
          BY <2>4
        <4>2. QED
          BY <4>1 DEF Slot
      <3>2. QED
        BY <2>6, <3>1 DEF Slot
    <2>8. Reach(l, s) = Reach(l, d)
      BY <2>7 DEF Reach
    <2>9. ASSUME NEW a PROVE Reach(l, [s EXCEPT !.address = a]) = Reach(l, [d EXCEPT !.address = a])
      BY <2>4, <2>6 DEF Slot, Reach
    <2>10. QED
      BY <2>3, <2>5, <2>8, <2>9, ReachFixes
  <1>3. QED
    BY <1>1, <1>2 DEF Resolves

LEMMA ReachSeen ==
  ASSUME AvInv, ToldInv, Naming, NEW u \in Units, NEW v \in LevelsOf(u), v \in {"device", "parent"},
         NEW f \in Facts(u, v), told[f] # None,
         NEW slots, NEW skip, Resolves(u, slots, skip),
         \A entry \in DeclaredLevel(layout, encoding, DeviceOf[u], EntityOf[u], v, slots, skip) : Quiet(entry.topic)
  PROVE  SeenAs(DeclaredLevel(layout, encoding, DeviceOf[u], EntityOf[u], v, slots, skip), Facts(u, v))
  <1>1. setting \in Settings
    BY DEF AvInv, MemoryTyped
  <1>2. PICK t \in Topics : /\ Targets(u, v) = {t} /\ t # <<>> /\ ~IsSmartHome(layout)
                            /\ \E b \in BOOLEAN : told[f] = b /\ (Quiet(t) => retained[t] = Token(b))
    BY ToldAt
  <1>3. PICK b \in BOOLEAN : told[f] = b /\ (Quiet(t) => retained[t] = Token(b))
    BY <1>2
  <1>4. layout.kind \in {"default", "channel", "smarthome"}
    BY <1>1 DEF Naming, layout
  <1>5. PICK s : /\ slots = {s}
                 /\ AvailabilityTopic(layout, s) = AvailabilityTopic(layout, DeviceSlot(DeviceOf[u], EntityOf[u]))
                 /\ \A a : AvailabilityTopic(layout, [s EXCEPT !.address = a])
                           = AvailabilityTopic(layout, [DeviceSlot(DeviceOf[u], EntityOf[u]) EXCEPT !.address = a])
    BY <1>4, BothName
  <1>6. Targets(u, v) = TargetsIn(layout, DeviceOf[u], EntityOf[u], v)
    BY <1>1 DEF Targets, TargetTable, layout
  <1>7. DeclaredLevel(layout, encoding, DeviceOf[u], EntityOf[u], v, slots, skip) = {Plain(t)}
    <2>1. CASE v = "device"
      <3>1. AvailabilityTopic(layout, s) = t
        BY <1>2, <1>5, <1>6, <2>1 DEF TargetsIn
      <3>2. QED
        BY <1>2, <1>5, <2>1, <3>1 DEF DeclaredLevel
    <2>2. CASE v = "parent"
      <3>1. HasParent(DeviceOf[u]) /\ AvailabilityTopic(layout, [s EXCEPT !.address = DeviceOf[u].via]) = t
        BY <1>2, <1>5, <1>6, <2>2 DEF TargetsIn, ParentSlot
      <3>2. PICK r : r = [s EXCEPT !.address = DeviceOf[u].via]
        OBVIOUS
      <3>3. {[q EXCEPT !.address = DeviceOf[u].via] : q \in slots} = {r}
        BY <1>5, <3>2
      <3>4. AvailabilityTopic(layout, r) = t
        BY <3>1, <3>2
      <3>5. QED
        BY <1>2, <2>2, <3>1, <3>3, <3>4 DEF DeclaredLevel
    <2>3. QED
      BY <2>1, <2>2
  <1>8. Plain(t).topic = t /\ Plain(t).yes = "online"
    BY DEF Plain, Entry
  <1>9. retained[t] = Token(b)
    BY <1>3, <1>7, <1>8
  <1>10. SeenAvailable({Plain(t)}) <=> b
    <2>1. Reads(Plain(t), retained[t]) = "online" <=> b
      BY <1>9, WordsAgree
    <2>2. QED
      BY <1>8, <2>1 DEF SeenAvailable
  <1>11. Facts(u, v) = {f}
    BY <1>1, LevelNames
  <1>12. (\A g \in Facts(u, v) : told[g] = TRUE) <=> b
    BY <1>3, <1>11
  <1>13. QED
    BY <1>7, <1>10, <1>12 DEF SeenAs

LEMMA SelfSeen ==
  ASSUME AvInv, ToldInv, Naming, NEW u \in Units, "self" \in LevelsOf(u),
         NEW f \in Facts(u, "self"), told[f] # None, NEW slots, NEW skip,
         \A entry \in DeclaredLevel(layout, encoding, DeviceOf[u], EntityOf[u], "self", slots, skip) : Quiet(entry.topic)
  PROVE  SeenAs(DeclaredLevel(layout, encoding, DeviceOf[u], EntityOf[u], "self", slots, skip), Facts(u, "self"))
  <1>1. setting \in Settings
    BY DEF AvInv, MemoryTyped
  <1>2. PICK t \in Topics : /\ Targets(u, "self") = {t} /\ encoding # "status"
                            /\ \E b \in BOOLEAN : told[f] = b /\ (Quiet(t) => retained[t] = SelfPayload(encoding, b))
    BY ToldAt
  <1>3. PICK b \in BOOLEAN : told[f] = b /\ (Quiet(t) => retained[t] = SelfPayload(encoding, b))
    BY <1>2
  <1>4. {StateTopic(layout, a.slot) : a \in Bind(EntityOf[u], "availability")} = {t}
    BY <1>1, <1>2 DEF Targets, TargetTable, TargetsIn, layout
  <1>5. Bind(EntityOf[u], "availability") # {}
    BY DEF Naming
  <1>6. encoding = "raw" \/ encoding = "envelope"
    BY <1>1, <1>2, GateAssumption DEF GateAssumption, encoding
  <1>7. PICK x : x = Entry(t, IF encoding = "raw" THEN "" ELSE "value", "true", "false")
    OBVIOUS
  <1>8. DeclaredLevel(layout, encoding, DeviceOf[u], EntityOf[u], "self", slots, skip) = {x}
    <2>1. DeclaredLevel(layout, encoding, DeviceOf[u], EntityOf[u], "self", slots, skip)
            = SelfEntries(layout, encoding, EntityOf[u])
      BY DEF DeclaredLevel
    <2>2. SelfEntries(layout, encoding, EntityOf[u])
            = {Entry(StateTopic(layout, a.slot), IF encoding = "raw" THEN "" ELSE "value", "true", "false") :
                 a \in Bind(EntityOf[u], "availability")}
      BY <1>5, <1>6 DEF SelfEntries
    <2>3. \A a \in Bind(EntityOf[u], "availability") : StateTopic(layout, a.slot) = t
      BY <1>4
    <2>4. QED
      BY <1>5, <1>7, <2>1, <2>2, <2>3
  <1>9. x.topic = t /\ x.yes = "true"
    BY <1>7 DEF Entry
  <1>10. retained[t] = SelfPayload(encoding, b)
    BY <1>3, <1>8, <1>9
  <1>11. Reads(x, retained[t]) = "true" <=> b
    <2>1. CASE encoding = "raw"
      <3>1. retained[t] = Bool(b) /\ x = Entry(t, "", "true", "false")
        BY <1>7, <1>10, <2>1 DEF SelfPayload
      <3>2. QED
        BY <3>1, WordsAgree
    <2>2. CASE encoding = "envelope"
      <3>1. retained[t] = Envelope(b, TRUE) /\ x = Entry(t, "value", "true", "false")
        BY <1>7, <1>10, <2>2 DEF SelfPayload
      <3>2. QED
        BY <3>1, WordsAgree
    <2>3. QED
      BY <1>6, <2>1, <2>2
  <1>12. SeenAvailable({x}) <=> b
    BY <1>9, <1>11 DEF SeenAvailable
  <1>13. Facts(u, "self") = {f}
    BY <1>1, LevelNames
  <1>14. (\A g \in Facts(u, "self") : told[g] = TRUE) <=> b
    BY <1>3, <1>13
  <1>15. QED
    BY <1>8, <1>12, <1>14 DEF SeenAs

LEMMA LevelSeen ==
  ASSUME AvInv, ToldInv, Naming, NEW u \in Units, NEW v \in LevelsOf(u), \A f \in Facts(u, v) : told[f] # None,
         NEW slots, NEW skip, Resolves(u, slots, skip),
         \A entry \in DeclaredLevel(layout, encoding, DeviceOf[u], EntityOf[u], v, slots, skip) : Quiet(entry.topic)
  PROVE  SeenAs(DeclaredLevel(layout, encoding, DeviceOf[u], EntityOf[u], v, slots, skip), Facts(u, v))
  <1>1. Facts(u, v) = FactsIn(layout, DeviceOf[u], EntityOf[u], v)
    BY DEF AvInv, MemoryTyped, Facts, FactTable, layout
  <1>2. v \in {"bridge", "device", "parent", "self"}
    BY DEF Naming
  <1>3. CASE v = "bridge"
    BY <1>3, BridgeSeen
  <1>4. CASE v = "parent" /\ ~HasParent(DeviceOf[u])
    <2>1. Facts(u, v) = {}
      BY <1>1, <1>4 DEF FactsIn
    <2>2. DeclaredLevel(layout, encoding, DeviceOf[u], EntityOf[u], v, slots, skip) = {}
      BY <1>4 DEF DeclaredLevel
    <2>3. QED
      BY <2>1, <2>2 DEF SeenAs, SeenAvailable
  <1>5. CASE v = "device" \/ (v = "parent" /\ HasParent(DeviceOf[u]))
    <2>1. PICK f : f \in Facts(u, v)
      BY <1>1, <1>5 DEF FactsIn
    <2>2. QED
      BY <1>5, <2>1, ReachSeen
  <1>6. CASE v = "self"
    <2>1. Bind(EntityOf[u], "availability") # {}
      BY <1>6 DEF Naming
    <2>2. PICK f : f \in Facts(u, v)
      BY <1>1, <1>6, <2>1 DEF FactsIn
    <2>3. QED
      BY <1>6, <2>2, SelfSeen
  <1>7. QED
    BY <1>2, <1>3, <1>4, <1>5, <1>6

\* The list of entries a context declares.
DeclaredBy(u, slots, skip) ==
  UNION {DeclaredLevel(layout, encoding, DeviceOf[u], EntityOf[u], Resolved(EntityOf[u]).levels[i], slots, skip) :
           i \in DOMAIN Resolved(EntityOf[u]).levels}

LEMMA HomeAssistantFollows ==
  ASSUME AvInv, ToldInv, Naming
  PROVE  HomeAssistantSees
  <1>1. setting \in Settings
    BY DEF AvInv, MemoryTyped
  <1>2. SUFFICES ASSUME NEW u \in Units, \A f \in FactsOf(u) : told[f] # None,
                        NEW entries \in Declarations(u), \A entry \in entries : Quiet(entry.topic)
        PROVE  SeenAvailable(entries) <=> \A f \in FactsOf(u) : told[f] = TRUE
    BY DEF HomeAssistantSees
  <1>3. PICK slots, skip : Resolves(u, slots, skip) /\ entries = DeclaredBy(u, slots, skip)
    <2>1. Declarations(u) = {Declared(layout, encoding, DeviceOf[u], EntityOf[u]),
                             DeclaredFrom(layout, encoding, DeviceOf[u], EntityOf[u])}
      BY <1>1 DEF Declarations, DeclarationTable, layout, encoding
    <2>2. CASE entries = Declared(layout, encoding, DeviceOf[u], EntityOf[u])
      <3>1. Resolves(u, {DeviceSlot(DeviceOf[u], EntityOf[u])}, FALSE)
        BY DEF Resolves
      <3>2. entries = DeclaredBy(u, {DeviceSlot(DeviceOf[u], EntityOf[u])}, FALSE)
        BY <2>2 DEF Declared, DeclaredBy
      <3>3. QED
        BY <3>1, <3>2, Zenon
    <2>3. CASE entries = DeclaredFrom(layout, encoding, DeviceOf[u], EntityOf[u])
      <3>1. Resolves(u, BindingSlot(EntityOf[u]), TRUE)
        BY DEF Resolves
      <3>2. entries = DeclaredBy(u, BindingSlot(EntityOf[u]), TRUE)
        BY <2>3 DEF DeclaredFrom, DeclaredBy
      <3>3. QED
        BY <3>1, <3>2, Zenon
    <2>4. QED
      BY <1>2, <2>1, <2>2, <2>3
  <1>. DEFINE at(v) == DeclaredLevel(layout, encoding, DeviceOf[u], EntityOf[u], v, slots, skip)
  <1>4. entries = UNION {at(v) : v \in LevelsOf(u)}
    BY <1>3 DEF LevelsOf, DeclaredBy
  <1>5. FactsOf(u) = UNION {Facts(u, v) : v \in LevelsOf(u)}
    BY <1>1 DEF FactsOf, FactsOfTable, Facts
  <1>6. ASSUME NEW v \in LevelsOf(u) PROVE SeenAs(at(v), Facts(u, v))
    <2>1. \A f \in Facts(u, v) : told[f] # None
      BY <1>2, <1>5
    <2>2. \A entry \in at(v) : Quiet(entry.topic)
      BY <1>2, <1>4
    <2>3. QED
      BY <1>3, <2>1, <2>2, LevelSeen
  <1>. HIDE DEF at
  <1>7. SeenAvailable(entries) <=> \A v \in LevelsOf(u) : SeenAvailable(at(v))
    BY <1>4 DEF SeenAvailable
  <1>8. (\A f \in FactsOf(u) : told[f] = TRUE) <=> \A v \in LevelsOf(u) : \A f \in Facts(u, v) : told[f] = TRUE
    BY <1>5
  <1>9. QED
    BY <1>6, <1>7, <1>8 DEF SeenAs

-----------------------------------------------------------------------------
(* What a step leaves standing of what was said.                             *)

LEMMA ConfigStands ==
  ASSUME UNCHANGED config
  PROVE  /\ AllFacts' = AllFacts /\ BridgeTopic' = BridgeTopic /\ BridgeWord' = BridgeWord
         /\ SelfTopics' = SelfTopics /\ encoding' = encoding /\ layout' = layout
         /\ \A t : Flippable(t)' = Flippable(t)
         /\ \A t : \A b : Word(t, b)' = Word(t, b)
  BY DEF config, AllFacts, BridgeTopic, BridgeWord, Flippable, Word, SelfTopics, Targets, encoding, layout

\* Nobody is told anything new, and what was said still stands where it was.
LEMMA SaidStands ==
  ASSUME AvInv, ToldInv, Naming, UNCHANGED config, told' = [f \in AllFacts |-> told'[f]],
         \A f \in AllFacts \ {<<"bridge">>} : told'[f] = told[f] \/ told'[f] = None,
         \A t \in Topics : \/ Untouched(t) => Untouched(t)' /\ \A S : Settles(t, S) => Settles(t, S)'
                           \/ \A f \in about[t] : told'[f] = None
  PROVE  HistoryTyped' /\ Said' /\ Carried'
  <1>1. setting \in Settings /\ HistoryTyped
    BY DEF AvInv, MemoryTyped, ToldInv
  <1>2. HistoryTyped'
    BY <1>1, ConfigStands DEF HistoryTyped, config
  <1>3. Said'
    <2>1. SUFFICES ASSUME NEW t \in Topics, NEW f \in about[t], told'[f] # None
          PROVE  Flippable(t) /\ Untouched(t)' /\ \E b \in BOOLEAN : told'[f] = b /\ Settles(t, {Word(t, b)})'
      BY ConfigStands DEF Said, config
    <2>2. told'[f] = told[f]
      BY <1>1, <2>1, NeverTheBridge
    <2>3. Flippable(t) /\ Untouched(t) /\ \E b \in BOOLEAN : told[f] = b /\ Settles(t, {Word(t, b)})
      BY <2>1, <2>2 DEF ToldInv, Said
    <2>4. Untouched(t)' /\ \A S : Settles(t, S) => Settles(t, S)'
      BY <2>1, <2>3
    <2>5. PICK b \in BOOLEAN : told[f] = b /\ Settles(t, {Word(t, b)})
      BY <2>3
    <2>6. PICK S : S = {Word(t, b)}
      OBVIOUS
    <2>7. Settles(t, S)'
      BY <2>4, <2>5, <2>6
    <2>8. S = {Word(t, b)}'
      BY <2>6, ConfigStands
    <2>9. Settles(t, {Word(t, b)})'
      BY <2>7, <2>8
    <2>10. QED
      BY <2>2, <2>3, <2>4, <2>5, <2>9
  <1>4. Carried'
    BY ConfigStands DEF ToldInv, Carried, config
  <1>5. QED
    BY <1>2, <1>3, <1>4

\* A call that ends well says what its topic settles on.
LEMMA SaidAnew ==
  ASSUME AvInv, ToldInv, Naming, UNCHANGED config,
         NEW t \in Topics, NEW g \in about[t], NEW online, told' = [told EXCEPT ![g] = online],
         Flippable(t), Untouched(t)', \E b \in BOOLEAN : online = b /\ Settles(t, {Word(t, b)}),
         \A r \in Topics : Untouched(r) => Untouched(r)', \A r \in Topics : \A S : Settles(r, S)' = Settles(r, S)
  PROVE  HistoryTyped' /\ Said' /\ Carried'
  <1>1. setting \in Settings /\ HistoryTyped
    BY DEF AvInv, MemoryTyped, ToldInv
  <1>2. g \in AllFacts /\ told' = [f \in AllFacts |-> IF f = g THEN online ELSE told[f]]
    <2>1. g \in AllFacts
      BY <1>1, NeverTheBridge
    <2>2. QED
      BY <1>1, <2>1 DEF HistoryTyped
  <1>3. HistoryTyped'
    BY <1>1, <1>2, ConfigStands DEF HistoryTyped, config
  <1>4. ASSUME NEW r \in Topics, NEW b \in BOOLEAN, Settles(r, {Word(r, b)}) PROVE Settles(r, {Word(r, b)})'
    <2>1. PICK S : S = {Word(r, b)}
      OBVIOUS
    <2>2. Settles(r, S)'
      BY <1>4, <2>1
    <2>3. S = {Word(r, b)}'
      BY <2>1, ConfigStands
    <2>4. QED
      BY <2>2, <2>3
  <1>5. Said'
    <2>1. SUFFICES ASSUME NEW r \in Topics, NEW f \in about[r], told'[f] # None
          PROVE  Flippable(r) /\ Untouched(r)' /\ \E b \in BOOLEAN : told'[f] = b /\ Settles(r, {Word(r, b)})'
      BY ConfigStands DEF Said, config
    <2>2. f \in AllFacts
      BY <1>1, NeverTheBridge
    <2>3. CASE f = g
      <3>1. r = t
        BY <1>1, <2>3, OneTopicEach
      <3>2. told'[f] = online
        BY <1>2, <2>2, <2>3
      <3>3. PICK b \in BOOLEAN : online = b /\ Settles(t, {Word(t, b)})
        OBVIOUS
      <3>4. Settles(t, {Word(t, b)})'
        BY <1>4, <3>3
      <3>5. QED
        BY <3>1, <3>2, <3>3, <3>4
    <2>4. CASE f # g
      <3>1. told'[f] = told[f]
        BY <1>2, <2>2, <2>4
      <3>2. Flippable(r) /\ Untouched(r) /\ \E b \in BOOLEAN : told[f] = b /\ Settles(r, {Word(r, b)})
        BY <2>1, <3>1 DEF ToldInv, Said
      <3>3. PICK b \in BOOLEAN : told[f] = b /\ Settles(r, {Word(r, b)})
        BY <3>2
      <3>4. Settles(r, {Word(r, b)})'
        BY <1>4, <3>3
      <3>5. QED
        BY <3>1, <3>2, <3>3, <3>4
    <2>5. QED
      BY <2>3, <2>4
  <1>6. Carried'
    <2>1. SUFFICES ASSUME NEW f \in AllFacts \ {<<"bridge">>}, told'[f] # None PROVE \E r \in Topics : f \in about[r]
      BY ConfigStands DEF Carried, config
    <2>2. CASE f = g
      BY <2>2
    <2>3. CASE f # g
      BY <1>2, <2>1, <2>3 DEF ToldInv, Carried
    <2>4. QED
      BY <2>2, <2>3
  <1>7. QED
    BY <1>3, <1>5, <1>6

\* What the bridge says, where neither its topic nor what was said of it changes.
LEMMA BridgeStands ==
  ASSUME AvInv, ToldInv, UNCHANGED config, \A i \in 1..Len(wire') : wire'[i].topic # BridgeTopic,
         <<"bridge">> \in AllFacts => told'[<<"bridge">>] = told[<<"bridge">>],
         retained'[BridgeTopic] = retained[BridgeTopic]
  PROVE  BridgeSays'
  BY ConfigStands DEF ToldInv, BridgeSays

\* Nothing is said, and no topic is taken up.
LEMMA NothingSaid ==
  ASSUME AvInv, ToldInv, Naming, UNCHANGED <<config, told>>, \A d \in Callers : Writes(d)' \subseteq Writes(d),
         \A u \in Topics : Untouched(u) => \A S : Settles(u, S) => Settles(u, S)',
         \A i \in 1..Len(wire') : wire'[i].topic # BridgeTopic, retained'[BridgeTopic] = retained[BridgeTopic],
         Gate', \A d \in Callers : Flipping(d)' /\ Copies(d)'
  PROVE  ToldInv'
  <1>1. \A u : Untouched(u) => Untouched(u)'
    BY DEF Untouched
  <1>2. told' = [f \in AllFacts |-> told'[f]]
    BY DEF ToldInv, HistoryTyped
  <1>3. HistoryTyped' /\ Said' /\ Carried'
    BY <1>1, <1>2, SaidStands
  <1>4. BridgeSays'
    BY BridgeStands
  <1>5. QED
    BY <1>3, <1>4 DEF ToldInv

\* A walk or a flip that begins unsays what its topics carry.
LEMMA UnsureSays ==
  ASSUME AvInv, ToldInv, Naming, UNCHANGED <<config, broker>>, NEW c \in Callers, Others(c),
         NEW S \in SUBSET Topics, Writes(c)' \subseteq Writes(c) \cup S, Unsure(S)
  PROVE  HistoryTyped' /\ Said' /\ Carried' /\ BridgeSays'
  <1>1. setting \in Settings /\ HistoryTyped
    BY DEF AvInv, MemoryTyped, ToldInv
  <1>2. told' = [f \in AllFacts |-> IF f \in FactsAt(S) THEN None ELSE told[f]]
    BY DEF Unsure
  <1>3. told' = [f \in AllFacts |-> told'[f]] /\ \A f \in AllFacts : told'[f] = told[f] \/ told'[f] = None
    BY <1>2
  <1>4. \A t \in S : \A f \in about[t] : told'[f] = None
    <2>1. SUFFICES ASSUME NEW t \in S, NEW f \in about[t] PROVE told'[f] = None
      OBVIOUS
    <2>2. f \in AllFacts /\ f \in FactsAt(S)
      BY <1>1, NeverTheBridge DEF FactsAt
    <2>3. QED
      BY <1>2, <2>2
  <1>5. \A t : t \notin S /\ Untouched(t) => Untouched(t)'
    BY OthersStand DEF Untouched
  <1>6. \A t : \A R : Settles(t, R) => Settles(t, R)'
    BY DEF Settles, broker
  <1>7. HistoryTyped' /\ Said' /\ Carried'
    BY <1>3, <1>4, <1>5, <1>6, SaidStands
  <1>8. <<"bridge">> \notin FactsAt(S)
    BY <1>1, NeverTheBridge DEF FactsAt
  <1>9. BridgeSays'
    BY <1>2, <1>8, BridgeStands DEF broker, ToldInv, BridgeSays
  <1>10. QED
    BY <1>7, <1>9

-----------------------------------------------------------------------------
(* Calls that begin.                                                         *)

\* The words of a flip stand while the setting does, and the copies of a replay
\* while nobody else writes the entries.
LEMMA OthersSay ==
  ASSUME ToldInv, UNCHANGED config, NEW c \in Callers, Others(c), NEW d \in Callers \ {c},
         \A t \in Writes(d) : t \in gated' => t \in gated /\ last'[t] = last[t],
         todo[d] \subseteq Topics, gated' \subseteq Topics
  PROVE  Flipping(d)' /\ Copies(d)'
  <1>1. op'[d] = op[d] /\ item'[d] = item[d] /\ todo'[d] = todo[d] /\ copy'[d] = copy[d]
    BY DEF Others
  <1>2. Flipping(d)'
    BY <1>1, ConfigStands DEF ToldInv, Flipping, config, Flippable, Word
  <1>3. Copies(d)'
    <2>1. \A t \in todo[d] \cup {item[d].topic} : t \in gated' => t \in gated /\ last'[t] = last[t]
      BY DEF Writes, Busy
    <2>2. SUFFICES ASSUME op[d] = "republish"
          PROVE  /\ \A t \in todo[d] \cap gated' : copy[d][t] = last'[t]
                 /\ item[d].topic \in gated' => item[d].payload = last'[item[d].topic]
      BY <1>1 DEF Copies
    <2>3. /\ \A t \in todo[d] \cap gated : copy[d][t] = last[t]
          /\ item[d].topic \in gated => item[d].payload = last[item[d].topic]
      BY <2>2 DEF ToldInv, Copies
    <2>4. QED
      BY <2>1, <2>3
  <1>4. QED
    BY <1>2, <1>3

LEMMA CallersSay ==
  ASSUME ToldInv, UNCHANGED <<config, op, item, todo, copy>>, gated' \subseteq gated,
         \A t \in gated' : last'[t] = last[t]
  PROVE  \A d \in Callers : Flipping(d)' /\ Copies(d)'
  <1>1. ASSUME NEW d \in Callers PROVE Flipping(d)'
    BY ConfigStands DEF ToldInv, Flipping, config, Flippable, Word
  <1>2. ASSUME NEW d \in Callers PROVE Copies(d)'
    BY DEF ToldInv, Copies
  <1>3. QED
    BY <1>1, <1>2

\* The gate holds what it held, of topics that settle where they did.
LEMMA GateStands ==
  ASSUME ToldInv, settled' => settled, gated' \subseteq gated, \A t \in gated' : last'[t] = last[t],
         \A t \in gated' \ unheard' : t \notin unheard /\ (Pending(t) => Pending(t)'),
         \A t \in gated' : \A S : Settles(t, S) => Settles(t, S)'
  PROVE  Gate'
  <1>1. SUFFICES ASSUME settled, NEW t \in gated', t \notin unheard', ~Pending(t)'
        PROVE  Settles(t, {last[t]})'
    BY DEF Gate
  <1>2. t \in gated /\ t \notin unheard /\ ~Pending(t)
    BY <1>1
  <1>3. Settles(t, {last[t]})
    BY <1>1, <1>2 DEF ToldInv, Gate
  <1>4. PICK S : S = {last[t]}
    OBVIOUS
  <1>5. Settles(t, S)'
    BY <1>3, <1>4
  <1>6. S = {last'[t]}
    BY <1>4
  <1>7. QED
    BY <1>5, <1>6 DEF Settles

LEMMA SayingStands ==
  ASSUME AvInv, ToldInv, Naming,
         UNCHANGED <<broker, config, callers, told, unheard>>, gated' \subseteq gated,
         \A t \in gated' : last'[t] = last[t], settled' => settled \/ gated' = {}
  PROVE  ToldInv'
  <1>1. \A d \in Callers : Writes(d)' = Writes(d) /\ Waits(d)' = Waits(d)
    BY CallsStand
  <1>2. \A t : Pending(t)' = Pending(t)
    BY <1>1 DEF Pending, callers, broker
  <1>3. \A t : \A S : Settles(t, S) => Settles(t, S)'
    BY DEF Settles, broker
  <1>4. Gate'
    <2>1. CASE settled' => settled
      BY <1>2, <1>3, <2>1, GateStands
    <2>2. CASE gated' = {}
      BY <2>2 DEF Gate
    <2>3. QED
      BY <2>1, <2>2
  <1>5. \A d \in Callers : Flipping(d)' /\ Copies(d)'
    BY CallersSay DEF callers
  <1>6. \A i \in 1..Len(wire') : wire'[i].topic # BridgeTopic
    BY DEF broker, ToldInv, BridgeSays
  <1>7. QED
    BY <1>1, <1>3, <1>4, <1>5, <1>6, NothingSaid DEF broker

LEMMA ResetSays ==
  ASSUME AvInv, ToldInv, Naming, Reset
  PROVE  ToldInv'
  BY SayingStands DEF Reset

LEMMA ForgetSays ==
  ASSUME AvInv, ToldInv, Naming, NEW S, Forget(S)
  PROVE  ToldInv'
  <1>1. /\ UNCHANGED <<broker, config, callers, told, unheard, settled>>
        /\ last' = [t \in DOMAIN last |-> IF t \in S THEN Empty ELSE last[t]]
        /\ gated' = gated \ S
    BY DEF Forget, Drop
  <1>2. gated' \subseteq gated /\ \A t \in gated' : last'[t] = last[t]
    BY <1>1 DEF AvInv, MemoryTyped
  <1>3. QED
    BY <1>1, <1>2, SayingStands

\* A call that begins: nothing is on its way yet.
LEMMA BeginSays ==
  ASSUME AvInv, ToldInv, Naming, NEW c \in Callers, pc[c] = "idle", pc'[c] # "wait", Others(c),
         UNCHANGED <<broker, config, memory, settled, forgotten, unheard>>,
         NEW S \in SUBSET Topics, Writes(c)' \subseteq Writes(c) \cup S, Unsure(S), Flipping(c)', Copies(c)'
  PROVE  ToldInv'
  <1>1. HistoryTyped' /\ Said' /\ Carried' /\ BridgeSays'
    BY UnsureSays
  <1>2. \A d \in Callers : Waits(d)' = Waits(d)
    BY OthersStand DEF Waits
  <1>3. \A t : Pending(t) => Pending(t)'
    BY <1>2 DEF Pending, Waits, Others
  <1>4. \A t : \A R : Settles(t, R) => Settles(t, R)'
    BY DEF Settles, broker
  <1>5. Gate'
    BY <1>3, <1>4, GateStands DEF memory
  <1>6. \A d \in Callers \ {c} : Flipping(d)' /\ Copies(d)'
    BY OthersSay DEF memory, AvInv, CallersTyped, MemoryTyped
  <1>7. QED
    BY <1>1, <1>5, <1>6 DEF ToldInv

LEMMA WriteSays ==
  ASSUME AvInv, ToldInv, Naming, Regime, NEW c \in Callers, pc[c] = "idle", NEW t \in Topics,
         NEW f \in about[t], NEW online \in BOOLEAN, Flippable(t), Write(c, t, Word(t, online), f, online)
  PROVE  ToldInv'
  <1>0. setting \in Settings /\ HistoryTyped
    BY DEF AvInv, MemoryTyped, ToldInv
  <1>1. CASE t \in gated /\ last[t] = Word(t, online)
    <2>1. /\ told' = IF settled /\ t \notin unheard THEN [told EXCEPT ![f] = online] ELSE told
          /\ UNCHANGED <<broker, config, memory, callers, cleared, settled, forgotten, unheard>>
      BY <1>1 DEF Write
    <2>2. CASE settled /\ t \notin unheard
      <3>1. Free(c, {t})
        BY DEF Write
      <3>2. ~Pending(t) /\ Untouched(t)
        BY <3>1, FreeToWrite DEF Untouched
      <3>3. Settles(t, {Word(t, online)})
        BY <1>1, <2>2, <3>2 DEF ToldInv, Gate
      <3>4. \A d \in Callers : Writes(d)' = Writes(d) /\ Waits(d)' = Waits(d)
        BY <2>1, CallsStand
      <3>5. \A r : Untouched(r)' = Untouched(r)
        BY <3>4 DEF Untouched
      <3>6. \A r : \A S : Settles(r, S)' = Settles(r, S)
        BY <2>1 DEF Settles, broker
      <3>7. told' = [told EXCEPT ![f] = online]
        BY <2>1, <2>2
      <3>8. HistoryTyped' /\ Said' /\ Carried'
        BY <2>1, <3>2, <3>3, <3>5, <3>6, <3>7, SaidAnew
      <3>9. <<"bridge">> \in AllFacts => told'[<<"bridge">>] = told[<<"bridge">>]
        BY <1>0, <3>7, NeverTheBridge DEF HistoryTyped
      <3>10. BridgeSays'
        BY <2>1, <3>9, BridgeStands DEF broker, ToldInv, BridgeSays
      <3>11. \A r : Pending(r)' = Pending(r)
        BY <2>1, <3>4 DEF Pending, callers, broker
      <3>12. Gate'
        BY <2>1, <3>6, <3>11, GateStands DEF memory
      <3>13. \A d \in Callers : Flipping(d)' /\ Copies(d)'
        BY <2>1, CallersSay DEF callers, memory
      <3>14. QED
        BY <3>8, <3>10, <3>12, <3>13 DEF ToldInv
    <2>3. CASE ~(settled /\ t \notin unheard)
      <3>1. told' = told
        BY <2>1, <2>3
      <3>2. QED
        BY <2>1, <3>1, SayingStands DEF memory
    <2>4. QED
      BY <2>2, <2>3
  <1>2. CASE ~(t \in gated /\ last[t] = Word(t, online))
    <2>1. PICK p : p = Word(t, online)
      OBVIOUS
    <2>2. /\ pc' = [pc EXCEPT ![c] = "send"] /\ op' = [op EXCEPT ![c] = "flip"]
          /\ item' = [item EXCEPT ![c] = [topic |-> t, payload |-> p, fact |-> f, online |-> online]]
          /\ Unsure({t})
          /\ UNCHANGED <<broker, config, memory, todo, copy, asked, failed, settled, forgotten, unheard>>
      BY <1>2, <2>1 DEF Write
    <2>3. /\ Others(c) /\ pc'[c] = "send" /\ op'[c] = "flip"
          /\ item'[c] = [topic |-> t, payload |-> p, fact |-> f, online |-> online]
      BY <2>2 DEF AvInv, CallersTyped, Others, broker
    <2>4. Writes(c)' \subseteq Writes(c) \cup {t} /\ {t} \in SUBSET Topics
      BY <2>2, <2>3 DEF Writes, Busy
    <2>5. Flipping(c)'
      <3>1. /\ item'[c].fact = f /\ item'[c].topic = t /\ item'[c].online = online /\ item'[c].payload = p
        BY <2>3
      <3>2. f \in about'[t] /\ Flippable(t)' /\ p = Word(t, online)'
        BY <2>1, <2>2, ConfigStands DEF config
      <3>3. Flippable(item[c].topic)'
        BY <3>1, <3>2 DEF Flippable
      <3>4. item'[c].payload = Word(item[c].topic, online)'
        BY <3>1, <3>2 DEF Word
      <3>5. QED
        BY <3>1, <3>2, <3>3, <3>4 DEF Flipping
    <2>6. Copies(c)'
      BY <2>3 DEF Copies
    <2>7. QED
      BY <2>2, <2>3, <2>4, <2>5, <2>6, BeginSays
  <1>3. QED
    BY <1>1, <1>2

LEMMA WalkSays ==
  ASSUME AvInv, ToldInv, Naming, NEW c \in Callers, pc[c] = "idle", NEW o \in {"retract", "sweep", "republish"},
         NEW S \in SUBSET Topics, NEW A \in SUBSET S, Walk(c, o, S, A)
  PROVE  ToldInv'
  <1>1. /\ pc' = [pc EXCEPT ![c] = "walk"] /\ op' = [op EXCEPT ![c] = o]
        /\ todo' = [todo EXCEPT ![c] = S] /\ asked' = [asked EXCEPT ![c] = A]
        /\ copy' = [copy EXCEPT ![c] = [t \in S |-> IF o = "republish" THEN last[t] ELSE Empty]]
        /\ Unsure(S)
        /\ UNCHANGED <<broker, config, memory, item, failed, settled, forgotten, unheard>>
    BY DEF Walk
  <1>2. CallersTyped
    BY DEF AvInv
  <1>3. /\ Others(c) /\ pc'[c] = "walk" /\ op'[c] = o /\ todo'[c] = S /\ asked'[c] = A
    BY <1>1, <1>2 DEF CallersTyped, Others, broker
  <1>4. item'[c] = NoItem /\ NoItem.topic \notin gated
    BY <1>1, GateAssumption DEF GateAssumption, AvInv, Framed, MemoryTyped, NoItem
  <1>5. \A t \in S : copy'[c][t] = IF o = "republish" THEN last[t] ELSE Empty
    <2>1. PICK g : g = [t \in S |-> IF o = "republish" THEN last[t] ELSE Empty]
      OBVIOUS
    <2>2. copy'[c] = g
      BY <1>1, <1>2, <2>1 DEF CallersTyped
    <2>3. QED
      BY <2>1, <2>2
  <1>6. Writes(c)' \subseteq Writes(c) \cup S
    BY <1>1, <1>3 DEF Writes, Busy
  <1>7. Flipping(c)'
    BY <1>3 DEF Flipping
  <1>8. Copies(c)'
    BY <1>1, <1>3, <1>4, <1>5 DEF Copies, memory
  <1>9. QED
    BY <1>1, <1>3, <1>6, <1>7, <1>8, BeginSays

LEMMA BeginsSay ==
  ASSUME AvInv, ToldInv, Naming, Regime, NEW c \in Callers, Begin(c)
  PROVE  ToldInv'
  <1>1. \A o : Calls(c, o) => pc[c] = "idle"
    BY DEF Calls
  <1>2. setting \in Settings /\ HistoryTyped
    BY DEF AvInv, MemoryTyped, ToldInv
  <1>3. Gone \subseteq Topics /\ Known \subseteq Topics
    BY GateAssumption DEF GateAssumption, AvInv, MemoryTyped, Known
  <1>4. ASSUME NEW u \in Units, NEW v \in LevelsOf(u), NEW t \in Targets(u, v), t # <<>>, NEW f \in Facts(u, v)
        PROVE  t \in Topics /\ f \in about[t] /\ (t \in SelfTopics <=> v = "self")
    <2>1. t \in Topics
      BY <1>4, TargetsTyped
    <2>2. QED
      BY <1>2, <1>4, <2>1, AboutIs, KindsApart
  <1>5. ASSUME NEW u \in At("device"), NEW b \in BOOLEAN, Device(c, u, b), pc[c] = "idle" PROVE ToldInv'
    <2>1. PICK t \in Targets(u, "device"), f \in Facts(u, "device") : Write(c, t, Token(b), f, b)
      BY <1>5 DEF Device
    <2>2. u \in Units /\ "device" \in LevelsOf(u) /\ t # <<>> /\ ~IsSmartHome(layout)
      BY <1>5, <2>1 DEF At, Write, Device
    <2>3. t \in Topics /\ f \in about[t] /\ t \notin SelfTopics
      BY <1>4, <2>2
    <2>4. Flippable(t) /\ Word(t, b) = Token(b)
      BY <2>2, <2>3 DEF Flippable, Word
    <2>5. Write(c, t, Word(t, b), f, b)
      BY <2>1, <2>4
    <2>6. QED
      BY <1>5, <2>3, <2>4, <2>5, WriteSays
  <1>6. ASSUME NEW u \in At("parent"), NEW b \in BOOLEAN, Parent(c, u, b), pc[c] = "idle" PROVE ToldInv'
    <2>1. PICK t \in Targets(u, "parent"), f \in Facts(u, "parent") : Write(c, t, Token(b), f, b)
      BY <1>6 DEF Parent
    <2>2. u \in Units /\ "parent" \in LevelsOf(u) /\ t # <<>> /\ ~IsSmartHome(layout)
      BY <1>6, <2>1 DEF At, Write, Parent
    <2>3. t \in Topics /\ f \in about[t] /\ t \notin SelfTopics
      BY <1>4, <2>2
    <2>4. Flippable(t) /\ Word(t, b) = Token(b)
      BY <2>2, <2>3 DEF Flippable, Word
    <2>5. Write(c, t, Word(t, b), f, b)
      BY <2>1, <2>4
    <2>6. QED
      BY <1>6, <2>3, <2>4, <2>5, WriteSays
  <1>7. ASSUME NEW u \in At("self"), NEW b \in BOOLEAN, Self(c, u, b), pc[c] = "idle" PROVE ToldInv'
    <2>1. PICK t \in Targets(u, "self"), f \in Facts(u, "self") : Write(c, t, SelfPayload(encoding, b), f, b)
      BY <1>7 DEF Self
    <2>2. u \in Units /\ "self" \in LevelsOf(u) /\ t # <<>> /\ encoding # "status"
      BY <1>7, <2>1 DEF At, Write, Self
    <2>3. t \in Topics /\ f \in about[t] /\ t \in SelfTopics
      BY <1>4, <2>2
    <2>4. Flippable(t) /\ Word(t, b) = SelfPayload(encoding, b)
      BY <2>2, <2>3 DEF Flippable, Word
    <2>5. Write(c, t, Word(t, b), f, b)
      BY <2>1, <2>4
    <2>6. QED
      BY <1>7, <2>3, <2>4, <2>5, WriteSays
  <1>8. CASE Calls(c, "retract") /\ Retract(c, Gone)
    <2>1. PICK S \in SUBSET Topics : S = Gone
      BY <1>3
    <2>2. S \in SUBSET S /\ Walk(c, "retract", S, S)
      BY <1>8, <2>1 DEF Retract
    <2>3. QED
      BY <1>1, <1>8, <2>2, WalkSays
  <1>9. CASE Calls(c, "sweep") /\ \E live \in SUBSET Known : live # Known /\ Sweep(c, live)
    <2>1. PICK live \in SUBSET Known : Sweep(c, live)
      BY <1>9
    <2>2. PICK S \in SUBSET Topics : S = Known \ live
      BY <1>3
    <2>3. S \in SUBSET S /\ Walk(c, "sweep", S, S)
      BY <2>1, <2>2 DEF Sweep
    <2>4. QED
      BY <1>1, <1>9, <2>3, WalkSays
  <1>10. CASE Calls(c, "republish") /\ Republish(c)
    <2>1. PICK S \in SUBSET Topics : S = Known
      BY <1>3
    <2>2. {} \in SUBSET S /\ Walk(c, "republish", S, {})
      BY <1>10, <2>1 DEF Republish
    <2>3. QED
      BY <1>1, <1>10, <2>2, WalkSays
  <1>11. CASE Calls(c, "forget") /\ \E t \in Known \cap Gone : Forget({t})
    BY <1>11, ForgetSays
  <1>12. CASE Calls(c, "reset") /\ Reset
    BY <1>12, ResetSays
  <1>13. QED
    BY <1>1, <1>5, <1>6, <1>7, <1>8, <1>9, <1>10, <1>11, <1>12 DEF Begin

-----------------------------------------------------------------------------
(* The transport call.                                                       *)

\* c hands over the payload of a topic it writes; the gate waits for the answer.
LEMMA SendingSays ==
  ASSUME AvInv, ToldInv, NEW c \in Callers, pc[c] # "wait", pc'[c] = "wait",
         UNCHANGED <<config, memory, history>>,
         \A d \in Callers \ {c} : pc'[d] = pc[d] /\ item'[d] = item[d],
         NEW t \in Writes(c), NEW p \in Payloads, item'[c].topic = t, item'[c].payload = p,
         Send(c, t, p, QoS, TRUE) \/ Refuse(c)
  PROVE  /\ Gate' /\ retained'[BridgeTopic] = retained[BridgeTopic]
         /\ \A i \in 1..Len(wire') : wire'[i].topic # BridgeTopic
         /\ \A u \in Topics : Untouched(u) => \A S : Settles(u, S) => Settles(u, S)'
  <1>1. \A u \in Topics \ {t} : \A S : Lands(wire, retained, u, S) => Lands(wire', retained', u, S)
    BY SendingKeeps
  <1>2. \A d \in Callers \ {c} : answer'[d] = answer[d]
    BY SendingKeeps
  <1>3. \A u \in Topics : Untouched(u) => \A S : Settles(u, S) => Settles(u, S)'
    BY <1>1 DEF Settles, Untouched
  <1>4. \A u : Pending(u) => Pending(u)'
    BY <1>2 DEF Pending, Waits
  <1>5. wire \in Seq(Messages) /\ Len(wire) \in Nat /\ answer \in [Callers -> Answers] /\ retained' = retained
    BY Typed DEF Send, Refuse
  <1>6. \A u \in gated : u \in Topics
    BY DEF AvInv, MemoryTyped
  <1>7. CASE Refuse(c)
    <2>1. UNCHANGED <<retained, wire>>
      BY <1>7 DEF Refuse
    <2>2. \A u : \A S : Settles(u, S) => Settles(u, S)'
      BY <2>1 DEF Settles
    <2>3. Gate'
      BY <1>4, <2>2, GateStands DEF memory, history
    <2>4. QED
      BY <1>3, <2>1, <2>3 DEF ToldInv, BridgeSays
  <1>8. CASE Send(c, t, p, QoS, TRUE)
    <2>1. answer'[c] # "failed"
      BY <1>5, <1>8 DEF Send
    <2>2. Pending(t)'
      BY <2>1 DEF Pending, Waits
    <2>3. \A u \in gated : u # t => \A S : Settles(u, S) => Settles(u, S)'
      BY <1>1, <1>6 DEF Settles
    <2>4. Gate'
      <3>1. SUFFICES ASSUME settled, NEW u \in gated \ unheard, ~Pending(u)' PROVE Settles(u, {last[u]})'
        BY DEF Gate, memory, history
      <3>2. u # t /\ ~Pending(u)
        BY <1>4, <2>2, <3>1
      <3>3. Settles(u, {last[u]})
        BY <3>1, <3>2 DEF ToldInv, Gate
      <3>4. PICK S : S = {last[u]}
        OBVIOUS
      <3>5. Settles(u, S)'
        BY <2>3, <3>1, <3>2, <3>3, <3>4
      <3>6. S = {last[u]}'
        BY <3>4 DEF memory
      <3>7. QED
        BY <3>5, <3>6
    <2>5. ASSUME NEW i \in 1..Len(wire') PROVE wire'[i].topic # BridgeTopic
      <3>1. PICK m : m = [from |-> IF QoS = 0 THEN None ELSE c, topic |-> t, payload |-> p, retain |-> TRUE]
        OBVIOUS
      <3>2. wire' = Append(wire, m) /\ m.topic = t
        BY <1>8, <3>1 DEF Send, Message
      <3>3. t # BridgeTopic
        BY DEF AvInv, Alone
      <3>4. Len(wire') = Len(wire) + 1 /\ wire'[Len(wire) + 1] = m /\ \A j \in 1..Len(wire) : wire'[j] = wire[j]
        BY <1>5, <3>2
      <3>5. CASE i = Len(wire) + 1
        BY <3>2, <3>3, <3>4, <3>5
      <3>6. CASE i \in 1..Len(wire)
        BY <3>4, <3>6 DEF ToldInv, BridgeSays
      <3>7. QED
        BY <1>5, <2>5, <3>4, <3>5, <3>6
    <2>6. QED
      BY <1>3, <1>5, <2>4, <2>5
  <1>9. QED
    BY <1>7, <1>8

LEMMA HandOverSays ==
  ASSUME AvInv, ToldInv, Naming, NEW c \in Callers, HandOver(c)
  PROVE  ToldInv'
  <1>1. /\ pc[c] = "send" /\ pc' = [pc EXCEPT ![c] = "wait"]
        /\ Send(c, item[c].topic, item[c].payload, QoS, TRUE) \/ Refuse(c)
        /\ UNCHANGED <<config, memory, op, item, todo, copy, asked, failed, history>>
    BY DEF HandOver
  <1>2. PICK t \in Writes(c) : t = item[c].topic
    BY <1>1 DEF AvInv, Framed, Writes, Busy
  <1>3. PICK p \in Payloads : p = item[c].payload
    BY <1>1 DEF AvInv, Framed
  <1>4. pc'[c] = "wait" /\ \A d \in Callers \ {c} : pc'[d] = pc[d]
    BY <1>1 DEF AvInv, CallersTyped
  <1>5. /\ Gate' /\ retained'[BridgeTopic] = retained[BridgeTopic]
        /\ \A i \in 1..Len(wire') : wire'[i].topic # BridgeTopic
        /\ \A u \in Topics : Untouched(u) => \A S : Settles(u, S) => Settles(u, S)'
    BY <1>1, <1>2, <1>3, <1>4, SendingSays
  <1>6. \A d \in Callers : Flipping(d)' /\ Copies(d)'
    BY <1>1, CallersSay DEF memory
  <1>7. \A d \in Callers : Writes(d)' \subseteq Writes(d)
    BY <1>1 DEF Writes, Busy
  <1>8. QED
    BY <1>1, <1>5, <1>6, <1>7, NothingSaid DEF history

LEMMA WalkStepSays ==
  ASSUME AvInv, ToldInv, Naming, NEW c \in Callers, WalkStep(c)
  PROVE  ToldInv'
  <1>1. PICK t \in todo[c] :
          /\ todo' = [todo EXCEPT ![c] = @ \ {t}]
          /\ IF Collides(t)
             THEN /\ failed' = [failed EXCEPT ![c] = TRUE]
                  /\ UNCHANGED <<broker, pc, item>>
             ELSE /\ Send(c, t, copy[c][t], QoS, TRUE) \/ Refuse(c)
                  /\ pc' = [pc EXCEPT ![c] = "wait"]
                  /\ item' = [item EXCEPT ![c] = [NoItem EXCEPT !.topic = t, !.payload = copy[c][t]]]
                  /\ UNCHANGED failed
          /\ UNCHANGED <<config, memory, op, copy, asked, history>>
    BY DEF WalkStep
  <1>2. /\ pc[c] = "walk" /\ item[c] = NoItem /\ NoItem.topic \notin Topics /\ op[c] # "flip"
        /\ t \in Topics /\ t \in Writes(c) /\ gated \subseteq Topics
    BY GateAssumption DEF GateAssumption, WalkStep, AvInv, Framed, CallersTyped, MemoryTyped, Writes, Busy, NoItem
  <1>3. /\ todo'[c] = todo[c] \ {t} /\ \A d \in Callers \ {c} : todo'[d] = todo[d]
    BY <1>1 DEF AvInv, CallersTyped
  <1>4. \A u \in todo[c] \cap gated : op[c] = "republish" => copy[c][u] = last[u]
    BY DEF ToldInv, Copies
  <1>5. CASE Collides(t)
    <2>1. UNCHANGED <<broker, pc, item>>
      BY <1>1, <1>5
    <2>2. \A d \in Callers : Writes(d)' \subseteq Writes(d)
      BY <1>1, <1>3, <2>1 DEF Writes, Busy
    <2>3. \A u : \A S : Settles(u, S) => Settles(u, S)'
      BY <2>1 DEF Settles, broker
    <2>4. \A u : Pending(u) => Pending(u)'
      BY <2>1 DEF Pending, Waits, broker
    <2>5. Gate'
      BY <1>1, <2>3, <2>4, GateStands DEF memory, history
    <2>6. ASSUME NEW d \in Callers PROVE Flipping(d)' /\ Copies(d)'
      <3>1. Flipping(d)'
        BY <1>1, <2>1, ConfigStands DEF ToldInv, Flipping, config, Flippable, Word
      <3>2. todo'[d] \subseteq todo[d]
        BY <1>3
      <3>3. Copies(d)'
        BY <1>1, <2>1, <3>2 DEF ToldInv, Copies, memory
      <3>4. QED
        BY <3>1, <3>3
    <2>7. \A i \in 1..Len(wire') : wire'[i].topic # BridgeTopic
      BY <2>1 DEF broker, ToldInv, BridgeSays
    <2>8. QED
      BY <1>1, <2>1, <2>2, <2>3, <2>5, <2>6, <2>7, NothingSaid DEF broker, history
  <1>6. CASE ~Collides(t)
    <2>1. PICK p \in Payloads : p = copy[c][t]
      <3>1. Clears(c) => copy[c][t] = Empty
        BY DEF AvInv, Framed
      <3>2. ~Clears(c) => copy[c][t] \in Payloads
        BY <1>2 DEF AvInv, Framed, Clears, CallersTyped
      <3>3. QED
        BY <3>1, <3>2 DEF Payloads
    <2>2. /\ Send(c, t, p, QoS, TRUE) \/ Refuse(c)
          /\ pc' = [pc EXCEPT ![c] = "wait"]
          /\ item' = [item EXCEPT ![c] = [NoItem EXCEPT !.topic = t, !.payload = p]]
      BY <1>1, <1>6, <2>1
    <2>3. /\ pc'[c] = "wait" /\ item'[c].topic = t /\ item'[c].payload = p
          /\ \A d \in Callers \ {c} : pc'[d] = pc[d] /\ item'[d] = item[d]
      BY <2>2 DEF AvInv, CallersTyped, NoItem
    <2>4. /\ Gate' /\ retained'[BridgeTopic] = retained[BridgeTopic]
          /\ \A i \in 1..Len(wire') : wire'[i].topic # BridgeTopic
          /\ \A u \in Topics : Untouched(u) => \A S : Settles(u, S) => Settles(u, S)'
      BY <1>1, <1>2, <2>2, <2>3, SendingSays
    <2>5. \A d \in Callers : Writes(d)' \subseteq Writes(d)
      BY <1>1, <1>2, <1>3, <2>3 DEF Writes, Busy
    <2>6. ASSUME NEW d \in Callers PROVE Flipping(d)' /\ Copies(d)'
      <3>1. CASE d = c
        <4>1. Flipping(c)'
          BY <1>1, <1>2 DEF Flipping
        <4>2. Copies(c)'
          BY <1>1, <1>3, <1>4, <2>1, <2>3 DEF Copies, memory
        <4>3. QED
          BY <3>1, <4>1, <4>2
      <3>2. CASE d # c
        <4>1. op'[d] = op[d] /\ item'[d] = item[d] /\ todo'[d] = todo[d] /\ copy'[d] = copy[d]
          BY <1>1, <1>3, <2>3, <3>2
        <4>2. Flipping(d)'
          BY <1>1, <4>1, ConfigStands DEF ToldInv, Flipping, config, Flippable, Word
        <4>3. Copies(d)'
          BY <1>1, <4>1 DEF ToldInv, Copies, memory
        <4>4. QED
          BY <4>2, <4>3
      <3>3. QED
        BY <3>1, <3>2
    <2>7. QED
      BY <1>1, <2>4, <2>5, <2>6, NothingSaid DEF history
  <1>7. QED
    BY <1>5, <1>6

-----------------------------------------------------------------------------
(* The end of a call, and of a walk's step.                                  *)

\* An accepted flip is recorded, and is what its topic settles on.
LEMMA RecordSays ==
  ASSUME AvInv, ToldInv, Naming, NEW c \in Callers, Record(c)
  PROVE  ToldInv'
  <1>0. setting \in Settings /\ HistoryTyped
    BY DEF AvInv, MemoryTyped, ToldInv
  <1>1. op[c] = "flip" /\ Waits(c) /\ answer[c] = "accepted"
    BY DEF Record, Waits
  <1>2. PICK t \in Topics : t = item[c].topic
    BY <1>1 DEF AvInv, Framed, Waits
  <1>3. PICK f \in about[t] : f = item[c].fact
    BY <1>1, <1>2 DEF ToldInv, Flipping
  <1>4. Flippable(t) /\ \E b \in BOOLEAN : item[c].online = b /\ item[c].payload = Word(t, b)
    BY <1>1, <1>2 DEF ToldInv, Flipping
  <1>5. PICK b \in BOOLEAN : item[c].online = b /\ item[c].payload = Word(t, b)
    BY <1>4
  <1>6. PICK p : p = item[c].payload
    OBVIOUS
  <1>7. PICK online : online = item[c].online
    OBVIOUS
  <1>8. /\ last' = [last EXCEPT ![t] = p] /\ gated' = gated \cup {t}
        /\ told' = [told EXCEPT ![f] = online]
        /\ unheard' = unheard \ {t} /\ Answered(c) /\ Idle(c)
        /\ UNCHANGED <<retained, wire, config, settled>>
    BY <1>2, <1>3, <1>6, <1>7 DEF Record, Heard
  <1>9. \A d \in Callers \ {c} : answer'[d] = answer[d]
    BY <1>8, AnsweredTyped DEF AvInv
  <1>10. /\ Others(c) /\ Writes(c)' = {} /\ pc'[c] = "idle" /\ op'[c] = "none" /\ todo'[c] = {}
    BY <1>8, <1>9, IdleTyped DEF AvInv
  <1>11. ~Waits(c)'
    BY <1>10 DEF Waits
  <1>12. /\ \A u : \A S : Settles(u, S)' = Settles(u, S)
         /\ \A u : Pending(u) => Pending(u)' \/ u = t
    BY <1>1, <1>2, <1>8, <1>10, <1>11, LetGo
  <1>13. \A d \in Callers \ {c} : Writes(d)' = Writes(d) /\ t \notin Writes(d)
    <2>1. t \in Writes(c)
      BY <1>2 DEF Writes, Busy
    <2>2. QED
      BY <1>10, <2>1, OthersStand DEF AvInv, Alone
  <1>14. Untouched(t)' /\ \A r : Untouched(r) => Untouched(r)'
    BY <1>10, <1>13 DEF Untouched
  <1>15. Settles(t, {p})
    BY <1>1, <1>2, <1>6 DEF AvInv, Landed
  <1>16. online = b /\ p = Word(t, b)
    BY <1>5, <1>6, <1>7
  <1>17. HistoryTyped' /\ Said' /\ Carried'
    <2>1. \E a \in BOOLEAN : online = a /\ Settles(t, {Word(t, a)})
      BY <1>15, <1>16
    <2>2. QED
      BY <1>4, <1>8, <1>12, <1>14, <2>1, SaidAnew
  <1>18. BridgeSays'
    <2>1. <<"bridge">> \in AllFacts => told'[<<"bridge">>] = told[<<"bridge">>]
      BY <1>0, <1>8, NeverTheBridge DEF HistoryTyped
    <2>2. QED
      BY <1>8, <2>1, BridgeStands DEF ToldInv, BridgeSays
  <1>19. last'[t] = p /\ \A u \in gated : u # t => last'[u] = last[u]
    BY <1>8 DEF AvInv, MemoryTyped
  <1>20. Gate'
    <2>1. SUFFICES ASSUME settled, NEW u \in gated \cup {t}, u \notin unheard \ {t}, ~Pending(u)'
          PROVE  Settles(u, {last[u]})'
      BY <1>8 DEF Gate
    <2>2. PICK S : S = {last[u]}'
      OBVIOUS
    <2>3. CASE u = t
      BY <1>12, <1>15, <1>19, <2>2, <2>3
    <2>4. CASE u # t
      <3>1. Settles(u, {last[u]})
        BY <1>12, <2>1, <2>4 DEF ToldInv, Gate
      <3>2. S = {last[u]}
        BY <1>19, <2>1, <2>2, <2>4
      <3>3. QED
        BY <1>12, <2>2, <3>1, <3>2
    <2>5. QED
      BY <2>3, <2>4
  <1>21. Flipping(c)' /\ Copies(c)'
    BY <1>10 DEF Flipping, Copies
  <1>22. ASSUME NEW d \in Callers \ {c} PROVE Flipping(d)' /\ Copies(d)'
    <2>1. \A u \in Writes(d) : u \in gated' => u \in gated /\ last'[u] = last[u]
      BY <1>8, <1>13, <1>19
    <2>2. todo[d] \subseteq Topics /\ gated' \subseteq Topics
      BY <1>8 DEF AvInv, CallersTyped, MemoryTyped
    <2>3. QED
      BY <1>8, <1>10, <2>1, <2>2, OthersSay
  <1>23. QED
    BY <1>17, <1>18, <1>20, <1>21, <1>22 DEF ToldInv

\* A call that ends without recording anything.
LEMMA EndSays ==
  ASSUME AvInv, ToldInv, Naming, NEW c \in Callers, UNCHANGED <<retained, wire, config, told, settled>>, Others(c),
         ~Waits(c)', Writes(c)' \subseteq Writes(c), Gate', Flipping(c)', Copies(c)',
         gated' \subseteq gated, \A t \in gated' : last'[t] = last[t]
  PROVE  ToldInv'
  <1>1. \A d \in Callers : Writes(d)' \subseteq Writes(d)
    BY OthersStand
  <1>2. \A u : \A S : Settles(u, S) => Settles(u, S)'
    BY DEF Settles
  <1>3. ASSUME NEW d \in Callers \ {c} PROVE Flipping(d)' /\ Copies(d)'
    BY OthersSay DEF AvInv, CallersTyped, MemoryTyped
  <1>4. QED
    BY <1>1, <1>2, <1>3, NothingSaid DEF ToldInv, BridgeSays

LEMMA WriteFailsSays ==
  ASSUME AvInv, ToldInv, Naming, NEW c \in Callers, WriteFails(c)
  PROVE  ToldInv'
  <1>1. /\ answer[c] = "failed" /\ Answered(c) /\ Idle(c)
        /\ UNCHANGED <<retained, wire, config, memory, history>>
    BY DEF WriteFails
  <1>2. \A d \in Callers \ {c} : answer'[d] = answer[d]
    BY <1>1, AnsweredTyped DEF AvInv
  <1>3. /\ Others(c) /\ Writes(c)' = {} /\ pc'[c] = "idle" /\ op'[c] = "none"
    BY <1>1, <1>2, IdleTyped DEF AvInv
  <1>4. ~Waits(c)'
    BY <1>3 DEF Waits
  <1>5. /\ \A u : \A S : Settles(u, S)' = Settles(u, S)
        /\ \A u : Pending(u) => Pending(u)'
    BY <1>1, <1>3, <1>4, LetGo
  <1>6. Gate'
    BY <1>1, <1>5, GateStands DEF memory, history
  <1>7. Flipping(c)' /\ Copies(c)'
    BY <1>3 DEF Flipping, Copies
  <1>8. QED
    BY <1>1, <1>3, <1>4, <1>6, <1>7, EndSays DEF memory, history

LEMMA WalkEndsSays ==
  ASSUME AvInv, ToldInv, Naming, NEW c \in Callers, WalkEnds(c)
  PROVE  ToldInv'
  <1>1. /\ pc[c] = "walk" /\ Idle(c)
        /\ UNCHANGED <<broker, config, memory, told, settled, forgotten, unheard>>
    BY DEF WalkEnds
  <1>2. /\ Others(c) /\ Writes(c)' = {} /\ pc'[c] = "idle" /\ op'[c] = "none"
    BY <1>1, IdleTyped DEF AvInv, broker
  <1>3. ~Waits(c) /\ ~Waits(c)' /\ UNCHANGED <<retained, wire>>
    BY <1>1, <1>2 DEF Waits, broker
  <1>4. /\ \A u : \A S : Settles(u, S)' = Settles(u, S)
        /\ \A u : Pending(u) => Pending(u)'
    BY <1>2, <1>3, LetGo
  <1>5. Gate'
    BY <1>1, <1>4, GateStands DEF memory
  <1>6. Flipping(c)' /\ Copies(c)'
    BY <1>2 DEF Flipping, Copies
  <1>7. QED
    BY <1>1, <1>2, <1>3, <1>5, <1>6, EndSays DEF memory

\* A retraction accepted leaves the gate; a copy accepted is what the gate holds.
LEMMA WalkAnsweredSays ==
  ASSUME AvInv, ToldInv, Naming, NEW c \in Callers, WalkAnswered(c)
  PROVE  ToldInv'
  <1>1. /\ pc[c] = "wait" /\ op[c] # "flip" /\ Waits(c) /\ answer[c] \in {"accepted", "failed"}
    BY DEF WalkAnswered, Waits
  <1>2. PICK t \in Topics : t = item[c].topic
    BY <1>1 DEF AvInv, Framed
  <1>3. PICK gone : gone = IF answer[c] = "accepted" /\ op[c] # "republish" THEN {t} ELSE {}
    OBVIOUS
  <1>4. /\ last' = [u \in DOMAIN last |-> IF u \in gone THEN Empty ELSE last[u]] /\ gated' = gated \ gone
        /\ pc' = [pc EXCEPT ![c] = "walk"] /\ item' = [item EXCEPT ![c] = NoItem] /\ Answered(c)
        /\ unheard' = IF answer[c] = "accepted" THEN unheard \ {t} ELSE unheard
        /\ UNCHANGED <<retained, wire, config, op, todo, copy, asked, told, settled>>
    <2>1. /\ Drop(IF answer[c] = "accepted" /\ op[c] # "republish" THEN {item[c].topic} ELSE {})
          /\ pc' = [pc EXCEPT ![c] = "walk"] /\ item' = [item EXCEPT ![c] = NoItem] /\ Answered(c)
          /\ UNCHANGED <<retained, wire, config, op, todo, copy, asked, told, settled>>
          /\ IF answer[c] = "accepted" THEN unheard' = unheard \ {item[c].topic} ELSE unheard' = unheard
      BY DEF WalkAnswered, Heard
    <2>2. Drop(gone)
      BY <1>2, <1>3, <2>1
    <2>3. QED
      BY <1>2, <2>1, <2>2 DEF Drop
  <1>5. \A d \in Callers \ {c} : answer'[d] = answer[d] /\ failed'[d] = failed[d]
    <2>1. \A d \in Callers \ {c} : answer'[d] = answer[d]
      BY <1>4, AnsweredTyped DEF AvInv
    <2>2. failed' = [failed EXCEPT ![c] = @ \/ ~(answer[c] = "accepted")]
      BY DEF WalkAnswered
    <2>3. \A d \in Callers \ {c} : failed'[d] = failed[d]
      BY <2>2 DEF AvInv, CallersTyped
    <2>4. QED
      BY <2>1, <2>3
  <1>6. /\ pc'[c] = "walk" /\ item'[c] = NoItem /\ NoItem.topic \notin Topics /\ Others(c)
    <2>1. NoItem.topic \notin Topics
      BY GateAssumption DEF GateAssumption, NoItem
    <2>2. QED
      BY <1>4, <1>5, <2>1 DEF AvInv, CallersTyped, Others
  <1>7. ~Waits(c)'
    BY <1>6 DEF Waits
  <1>8. Writes(c)' \subseteq Writes(c)
    BY <1>4, <1>6 DEF Writes, Busy
  <1>9. /\ \A u : \A S : Settles(u, S)' = Settles(u, S)
        /\ \A u : Pending(u) => Pending(u)' \/ (u = t /\ answer[c] = "accepted")
    <2>1. answer[c] # "sent"
      BY <1>1
    <2>2. /\ \A u : \A S : Settles(u, S)' = Settles(u, S)
          /\ \A u : Pending(u) => Pending(u)' \/ (Waits(c) /\ u = item[c].topic /\ answer[c] # "failed")
      BY <1>4, <1>6, <1>7, <2>1, LetGo
    <2>3. QED
      BY <1>1, <1>2, <2>2
  <1>10. gated' \subseteq gated /\ gated' \subseteq Topics /\ \A u \in gated' : last'[u] = last[u]
    BY <1>4 DEF AvInv, MemoryTyped
  <1>11. Gate'
    <2>1. SUFFICES ASSUME settled, NEW u \in gated', u \notin unheard', ~Pending(u)'
          PROVE  Settles(u, {last[u]})'
      BY <1>4 DEF Gate
    <2>2. PICK S : S = {last[u]}'
      OBVIOUS
    <2>3. S = {last[u]}
      BY <1>10, <2>1, <2>2
    <2>4. CASE u = t /\ answer[c] = "accepted"
      <3>1. op[c] = "republish"
        BY <1>3, <1>4, <2>1, <2>4
      <3>2. item[c].payload = last[t]
        BY <1>2, <1>10, <2>1, <2>4, <3>1 DEF ToldInv, Copies
      <3>3. Settles(t, {item[c].payload})
        BY <1>1, <1>2, <2>4 DEF AvInv, Landed
      <3>4. QED
        BY <1>9, <2>2, <2>3, <2>4, <3>2, <3>3
    <2>5. CASE ~(u = t /\ answer[c] = "accepted")
      <3>1. u \in gated /\ u \notin unheard /\ ~Pending(u)
        BY <1>4, <1>9, <1>10, <2>1, <2>5
      <3>2. Settles(u, {last[u]})
        BY <2>1, <3>1 DEF ToldInv, Gate
      <3>3. QED
        BY <1>9, <2>2, <2>3, <3>2
    <2>6. QED
      BY <2>4, <2>5
  <1>12. Flipping(c)'
    BY <1>1, <1>4 DEF Flipping
  <1>13. Copies(c)'
    BY <1>4, <1>6, <1>10 DEF ToldInv, Copies
  <1>14. QED
    BY <1>4, <1>6, <1>7, <1>8, <1>10, <1>11, <1>12, <1>13, EndSays

-----------------------------------------------------------------------------
(* The broker and the connection.                                            *)

LEMMA ReadSays ==
  ASSUME AvInv, ToldInv, Naming, Read
  PROVE  ToldInv'
  <1>1. UNCHANGED <<config, memory, callers, history>>
    BY DEF Read
  <1>2. PICK m \in Messages : m = wire[1]
    BY Typed DEF Read, BrokerReads
  <1>3. /\ wire \in Seq(Messages) /\ wire # <<>> /\ Len(wire) \in Nat \ {0} /\ wire' = Tail(wire)
        /\ Len(wire') = Len(wire) - 1 /\ \A i \in 1..Len(wire') : wire'[i] = wire[i + 1]
        /\ Head(wire) = m
        /\ retained' = IF Head(wire).retain THEN [retained EXCEPT ![Head(wire).topic] = Head(wire).payload] ELSE retained
        /\ answer' = IF m.from = None THEN answer ELSE [answer EXCEPT ![m.from] = "accepted"]
    <2>1. wire \in Seq(Messages) /\ wire # <<>> /\ Head(wire) = m
      BY <1>2, Typed DEF Read, BrokerReads
    <2>2. /\ wire' = Tail(wire)
          /\ retained' = IF Head(wire).retain THEN [retained EXCEPT ![Head(wire).topic] = Head(wire).payload] ELSE retained
          /\ answer' = IF m.from = None THEN answer ELSE [answer EXCEPT ![m.from] = "accepted"]
      BY <2>1 DEF Read, BrokerReads
    <2>3. QED
      BY <2>1, <2>2
  <1>4. retained \in [Topics -> Payloads] /\ answer \in [Callers -> Answers]
    BY Typed
  <1>5. \A u \in Topics : \A S : Lands(wire, retained, u, S) => Lands(wire', retained', u, S)
    BY <1>3, <1>4, LandsRead
  <1>6. \A u \in Topics : \A S : Settles(u, S) => Settles(u, S)'
    BY <1>5 DEF Settles
  <1>7. m.topic # BridgeTopic /\ m.topic \in Topics
    BY <1>2, <1>3 DEF ToldInv, BridgeSays, Messages
  <1>8. retained'[BridgeTopic] = retained[BridgeTopic]
    BY <1>3, <1>4, <1>7
  <1>9. \A i \in 1..Len(wire') : wire'[i].topic # BridgeTopic
    <2>1. ASSUME NEW i \in 1..Len(wire') PROVE wire'[i].topic # BridgeTopic
      <3>1. i + 1 \in 1..Len(wire) /\ wire'[i] = wire[i + 1]
        BY <1>3
      <3>2. QED
        BY <3>1 DEF ToldInv, BridgeSays
    <2>2. QED
      BY <2>1
  <1>10. \A u : Pending(u) => Pending(u)'
    <2>1. \A d \in Callers : answer[d] # "failed" => answer'[d] # "failed"
      BY <1>3, <1>4
    <2>2. QED
      BY <1>1, <2>1 DEF Pending, Waits, callers
  <1>11. gated \subseteq Topics
    BY DEF AvInv, MemoryTyped
  <1>12. Gate'
    BY <1>1, <1>6, <1>10, <1>11, GateStands DEF memory, history
  <1>13. \A d \in Callers : Flipping(d)' /\ Copies(d)'
    BY <1>1, CallersSay DEF memory, callers
  <1>14. \A d \in Callers : Writes(d)' \subseteq Writes(d)
    BY <1>1, CallsStand
  <1>15. QED
    BY <1>1, <1>6, <1>8, <1>9, <1>12, <1>13, <1>14, NothingSaid DEF history

LEMMA LoseAnswerSays ==
  ASSUME AvInv, ToldInv, Naming, NEW c \in Callers, LoseAnswer(c)
  PROVE  ToldInv'
  <1>. DEFINE lost(i) == IF wire[i].from = c THEN [wire[i] EXCEPT !.from = None] ELSE wire[i]
  <1>1. /\ UNCHANGED <<config, memory, callers, told, settled, retained>>
        /\ unheard' = unheard \cup {item[c].topic}
        /\ wire' = [i \in DOMAIN wire |-> lost(i)] /\ answer' = [answer EXCEPT ![c] = "failed"]
    BY DEF LoseAnswer, AnswerLost
  <1>2. wire \in Seq(Messages) /\ Len(wire) \in Nat /\ answer \in [Callers -> Answers]
    BY Typed
  <1>3. Len(wire') = Len(wire) /\ \A i \in 1..Len(wire) : wire'[i] = lost(i) /\ wire[i] \in Messages
    BY <1>1, <1>2
  <1>4. \A i \in 1..Len(wire) :
          wire'[i].retain = wire[i].retain /\ wire'[i].topic = wire[i].topic /\ wire'[i].payload = wire[i].payload
    BY <1>3 DEF Messages
  <1>. HIDE DEF lost
  <1>5. \A u : \A S : Lands(wire, retained, u, S) => Lands(wire', retained, u, S)
    BY <1>3, <1>4, LandsUnnamed
  <1>6. \A u : \A S : Settles(u, S) => Settles(u, S)'
    BY <1>1, <1>5 DEF Settles
  <1>7. \A i \in 1..Len(wire') : wire'[i].topic # BridgeTopic
    BY <1>3, <1>4 DEF ToldInv, BridgeSays
  <1>8. \A u : Pending(u) => Pending(u)' \/ u = item[c].topic
    <2>1. \A d \in Callers \ {c} : answer'[d] = answer[d]
      BY <1>1, <1>2
    <2>2. QED
      BY <1>1, <2>1 DEF Pending, Waits, callers
  <1>9. Gate'
    BY <1>1, <1>6, <1>8, GateStands DEF memory
  <1>10. \A d \in Callers : Flipping(d)' /\ Copies(d)'
    BY <1>1, CallersSay DEF memory, callers
  <1>11. \A d \in Callers : Writes(d)' \subseteq Writes(d)
    BY <1>1, CallsStand
  <1>12. QED
    BY <1>1, <1>6, <1>7, <1>9, <1>10, <1>11, NothingSaid

\* With the connection everything that was said is unsaid.
LEMMA NewConnectionSays ==
  ASSUME AvInv, ToldInv, Naming, NewConnection
  PROVE  ToldInv'
  <1>1. /\ UNCHANGED <<config, memory, callers>> /\ wire' = <<>> /\ settled' = FALSE
        /\ told' = [f \in AllFacts |-> None]
    BY DEF NewConnection, Reconnect
  <1>2. told' = [f \in AllFacts |-> told'[f]] /\ \A f \in AllFacts : told'[f] = None
    BY <1>1
  <1>3. \A t \in Topics : \A f \in about[t] : told'[f] = None
    BY <1>2, NeverTheBridge DEF AvInv, MemoryTyped, ToldInv
  <1>4. HistoryTyped' /\ Said' /\ Carried'
    BY <1>1, <1>2, <1>3, SaidStands
  <1>5. BridgeSays'
    BY <1>1, <1>2, ConfigStands DEF BridgeSays
  <1>6. Gate'
    BY <1>1 DEF Gate
  <1>7. \A d \in Callers : Flipping(d)' /\ Copies(d)'
    BY <1>1, CallersSay DEF memory, callers
  <1>8. QED
    BY <1>4, <1>5, <1>6, <1>7 DEF ToldInv

LEMMA AnnounceSays ==
  ASSUME AvInv, ToldInv, Naming, Regime, Announce
  PROVE  ToldInv'
  <1>0. setting \in Settings /\ HistoryTyped
    BY DEF AvInv, MemoryTyped, ToldInv
  <1>1. /\ UNCHANGED <<wire, answer, config, memory, callers, settled, unheard>>
        /\ told' = [told EXCEPT ![<<"bridge">>] = TRUE]
        /\ retained' = [retained EXCEPT ![BridgeTopic] = BridgeWord]
    BY DEF Announce, BridgeWord
  <1>2. BridgeTopic \in Topics
    BY <1>0 DEF Naming, BridgeTopic
  <1>3. retained'[BridgeTopic] = BridgeWord /\ \A t \in Topics \ {BridgeTopic} : retained'[t] = retained[t]
    BY <1>1, <1>2, Typed
  <1>4. \A t \in Topics \ {BridgeTopic} : \A S : Settles(t, S) => Settles(t, S)'
    BY <1>1, <1>3 DEF Settles, Lands
  <1>5. told' = [f \in AllFacts |-> IF f = <<"bridge">> THEN TRUE ELSE told[f]]
    BY <1>0, <1>1 DEF HistoryTyped
  <1>6. \A d \in Callers : Writes(d)' = Writes(d) /\ Waits(d)' = Waits(d)
    BY <1>1, CallsStand
  <1>7. about[BridgeTopic] = {}
    <2>1. \A u \in Units : \A v \in LevelsOf(u) : BridgeTopic \notin Targets(u, v)
      BY <1>0 DEF Regime, BridgeTopic, Targets
    <2>2. \A f : f \notin about[BridgeTopic]
      BY <1>0, <1>2, <2>1, AboutIs
    <2>3. QED
      BY <2>2
  <1>8. HistoryTyped' /\ Said' /\ Carried'
    <2>1. told' = [f \in AllFacts |-> told'[f]] /\ \A f \in AllFacts \ {<<"bridge">>} : told'[f] = told[f]
      BY <1>5
    <2>2. \A t \in Topics : \/ Untouched(t) => Untouched(t)' /\ \A S : Settles(t, S) => Settles(t, S)'
                            \/ \A f \in about[t] : told'[f] = None
      BY <1>4, <1>6, <1>7 DEF Untouched
    <2>3. QED
      BY <1>1, <2>1, <2>2, SaidStands
  <1>9. BridgeSays'
    <2>1. <<"bridge">> \in AllFacts => told'[<<"bridge">>] = TRUE
      BY <1>5
    <2>2. QED
      BY <1>1, <1>3, <2>1, ConfigStands DEF ToldInv, BridgeSays
  <1>10. \A u : Pending(u)' = Pending(u)
    BY <1>1, <1>6 DEF Pending, callers
  <1>11. Gate'
    <2>1. \A u \in gated : u \in Topics \ {BridgeTopic}
      BY DEF AvInv, Alone, MemoryTyped, Known
    <2>2. QED
      BY <1>1, <1>4, <1>10, <2>1, GateStands DEF memory
  <1>12. \A d \in Callers : Flipping(d)' /\ Copies(d)'
    BY <1>1, CallersSay DEF memory, callers
  <1>13. QED
    BY <1>8, <1>9, <1>11, <1>12 DEF ToldInv

LEMMA InitiallySaid ==
  ASSUME Init, Naming
  PROVE  ToldInv
  <1>1. /\ setting \in Settings /\ wire = <<>> /\ gated = {} /\ about = FactsAtTable[setting]
        /\ told = [f \in AllFacts |-> IF f = <<"bridge">> THEN TRUE ELSE None]
        /\ \A c \in Callers : op[c] = "none"
    BY DEF Init, BrokerInit
  <1>2. HistoryTyped
    BY <1>1 DEF HistoryTyped
  <1>3. Gate
    BY <1>1 DEF Gate
  <1>4. Said
    <2>1. SUFFICES ASSUME NEW t \in Topics, NEW f \in about[t] PROVE told[f] = None
      BY DEF Said
    <2>2. f # <<"bridge">> /\ f \in AllFacts
      BY <1>1, <1>2, NeverTheBridge
    <2>3. QED
      BY <1>1, <2>2
  <1>5. Carried
    BY <1>1 DEF Carried
  <1>6. BridgeSays
    <2>1. BridgeTopic \in Topics
      BY <1>1 DEF Naming, BridgeTopic
    <2>2. retained[BridgeTopic] = BridgeWord
      BY <2>1 DEF Init, BrokerInit, BridgeWord
    <2>3. QED
      BY <1>1, <2>2 DEF BridgeSays
  <1>7. \A c \in Callers : Flipping(c) /\ Copies(c)
    BY <1>1 DEF Flipping, Copies
  <1>8. QED
    BY <1>2, <1>3, <1>4, <1>5, <1>6, <1>7 DEF ToldInv

LEMMA KeepsSaying ==
  ASSUME AvInv, ToldInv, Naming, Regime, [Next]_vars
  PROVE  ToldInv'
  <1>1. CASE \E c \in Callers : Begin(c)
    BY <1>1, BeginsSay
  <1>2. CASE \E c \in Callers : Step(c)
    BY <1>2, HandOverSays, RecordSays, WriteFailsSays, WalkStepSays, WalkAnsweredSays, WalkEndsSays DEF Step
  <1>3. CASE \E c \in Callers : LoseAnswer(c)
    BY <1>3, LoseAnswerSays
  <1>4. CASE Read
    BY <1>4, ReadSays
  <1>5. CASE NewConnection
    BY <1>5, NewConnectionSays
  <1>6. CASE Announce
    BY <1>6, AnnounceSays
  <1>7. CASE UNCHANGED vars
    BY <1>7, SayingStands DEF vars, history, memory
  <1>8. QED
    BY <1>1, <1>2, <1>3, <1>4, <1>5, <1>6, <1>7 DEF Next

\* Home Assistant shows an entity available exactly when the last flips of all its levels
\* that returned nil said so, whichever of the two contexts declared it: the topic, the
\* template and the payload words of the declaration are those of the publisher, and no
\* suppression, retraction, replay, refusal or reconnect comes between them, for every
\* set of devices, entities, layouts and callers (context.go:203-378, availability.go:202-225, 362-403).
THEOREM HomeAssistantIsTold ==
  ASSUME Regime, Naming
  PROVE  Spec => []HomeAssistantSees
  <1>1. Init => AvInv /\ ToldInv
    BY Initially, InitiallySaid
  <1>2. AvInv /\ ToldInv /\ [Next]_vars => AvInv' /\ ToldInv'
    BY Inductive, KeepsSaying
  <1>3. AvInv /\ ToldInv => HomeAssistantSees
    BY HomeAssistantFollows
  <1>4. QED
    BY <1>1, <1>2, <1>3, PTL DEF Spec
=============================================================================
