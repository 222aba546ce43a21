----------------------------- MODULE StateProofs -----------------------------
(***************************************************************************)
(* The maps of StatePublisher agree, whatever its callers, its topics and  *)
(* the faults of the transport are (IInv of StateGate), and what a caller   *)
(* was told is what the broker retains, whose `lc` moves with the value.    *)
(***************************************************************************)
EXTENDS StateGate, TLAPS

(***************************************************************************)
(* Where a topic settles once the broker has read what is on the wire.     *)
(***************************************************************************)

\* The messages of w for t that the broker will keep.
For(w, t) == {i \in 1..Len(w) : w[i].retain /\ w[i].topic = t}

\* What t holds once the broker, retaining r, has read all of w is in S.
Lands(w, r, t, S) ==
  /\ \A i \in For(w, t) : (\A j \in For(w, t) : j <= i) => w[i].payload \in S
  /\ For(w, t) = {} => r[t] \in S

LEMMA LandsWider ==
  ASSUME NEW w, NEW r, NEW t, NEW S, NEW R, S \subseteq R, Lands(w, r, t, S)
  PROVE  Lands(w, r, t, R)
  BY DEF Lands

\* The last message decides.
LEMMA LandsOnLast ==
  ASSUME NEW M, NEW w \in Seq(M), NEW r, NEW t, NEW i \in For(w, t), \A j \in For(w, t) : j <= i
  PROVE  Lands(w, r, t, {w[i].payload})
  <1>1. ASSUME NEW k \in For(w, t), \A j \in For(w, t) : j <= k PROVE k = i
    BY <1>1 DEF For
  <1>2. QED
    BY <1>1 DEF Lands

LEMMA LandsBehindOther ==
  ASSUME NEW M, NEW w \in Seq(M), NEW r, NEW t, NEW S, NEW m \in M,
         ~(m.retain /\ m.topic = t), Lands(w, r, t, S)
  PROVE  Lands(Append(w, m), r, t, S)
  <1>. DEFINE v == Append(w, m)
  <1>1. /\ Len(w) \in Nat /\ Len(v) = Len(w) + 1 /\ v[Len(w) + 1] = m
        /\ \A i \in 1..Len(w) : v[i] = w[i]
    OBVIOUS
  <1>. HIDE DEF v
  <1>2. For(v, t) = For(w, t) /\ \A i \in For(w, t) : v[i] = w[i]
    BY <1>1 DEF For
  <1>3. Lands(v, r, t, S)
    BY <1>2 DEF Lands
  <1>4. QED
    BY <1>3 DEF v

LEMMA LandsAfterAppend ==
  ASSUME NEW M, NEW w \in Seq(M), NEW r, NEW t, NEW m \in M, m.retain, m.topic = t
  PROVE  /\ Len(w) + 1 \in For(Append(w, m), t)
         /\ \A j \in For(Append(w, m), t) : j <= Len(w) + 1
         /\ Lands(Append(w, m), r, t, {m.payload})
  <1>1. /\ Len(w) \in Nat /\ Len(Append(w, m)) = Len(w) + 1 /\ Append(w, m)[Len(w) + 1] = m
        /\ Append(w, m) \in Seq(M)
    OBVIOUS
  <1>2. Len(w) + 1 \in For(Append(w, m), t) /\ \A j \in For(Append(w, m), t) : j <= Len(w) + 1
    BY <1>1 DEF For
  <1>3. QED
    BY <1>1, <1>2, LandsOnLast

\* The broker's reading changes nothing of where a topic settles.
LEMMA LandsRead ==
  ASSUME NEW X, NEW M, NEW w \in Seq(M), NEW r \in [Topics -> X], NEW t \in Topics, NEW S,
         w # <<>>, Lands(w, r, t, S),
         NEW s, s = IF Head(w).retain THEN [r EXCEPT ![Head(w).topic] = Head(w).payload] ELSE r
  PROVE  Lands(Tail(w), s, t, S)
  <1>. DEFINE v == Tail(w)
  <1>1. /\ Len(w) \in Nat \ {0} /\ Len(v) = Len(w) - 1 /\ Head(w) = w[1]
        /\ \A i \in 1..Len(v) : v[i] = w[i + 1]
    OBVIOUS
  <1>. HIDE DEF v
  <1>2. \A i \in For(v, t) : i + 1 \in For(w, t) /\ v[i] = w[i + 1]
    BY <1>1 DEF For
  <1>3. \A j \in For(w, t) : j # 1 => j - 1 \in For(v, t)
    BY <1>1 DEF For
  <1>4. ASSUME NEW i \in For(v, t), \A j \in For(v, t) : j <= i
        PROVE  v[i].payload \in S
    <2>1. \A j \in For(w, t) : j <= i + 1
      <3>1. SUFFICES ASSUME NEW j \in For(w, t), j # 1 PROVE j <= i + 1
        BY <1>1 DEF For
      <3>2. j - 1 <= i
        BY <1>3, <1>4, <3>1
      <3>3. QED
        BY <3>2 DEF For
    <2>2. QED
      BY <1>2, <2>1 DEF Lands
  <1>5. ASSUME For(v, t) = {} PROVE s[t] \in S
    <2>1. \A j \in For(w, t) : j = 1
      BY <1>3, <1>5
    <2>2. CASE 1 \in For(w, t)
      <3>1. w[1].payload \in S
        BY <2>1, <2>2 DEF Lands
      <3>2. s[t] = w[1].payload
        BY <1>1, <2>2 DEF For
      <3>3. QED
        BY <3>1, <3>2
    <2>3. CASE 1 \notin For(w, t)
      <3>1. r[t] \in S
        BY <2>1, <2>3 DEF Lands
      <3>2. s[t] = r[t]
        <4>1. w[1] \in M /\ 1 \in 1..Len(w)
          BY <1>1
        <4>2. ~(w[1].retain /\ w[1].topic = t)
          BY <2>3, <4>1 DEF For
        <4>3. QED
          BY <1>1, <4>1, <4>2
      <3>3. QED
        BY <3>1, <3>2
    <2>4. QED
      BY <2>2, <2>3
  <1>6. Lands(v, s, t, S)
    BY <1>4, <1>5 DEF Lands
  <1>7. QED
    BY <1>6 DEF v

\* Nor does it matter whose a message is.
LEMMA LandsUnnamed ==
  ASSUME NEW w, NEW v, NEW r, NEW t, NEW S, Len(v) = Len(w), Lands(w, r, t, S),
         \A i \in 1..Len(w) : v[i].retain = w[i].retain /\ v[i].topic = w[i].topic /\ v[i].payload = w[i].payload
  PROVE  For(v, t) = For(w, t) /\ Lands(v, r, t, S)
  <1>1. For(v, t) = For(w, t)
    BY DEF For
  <1>2. \A i \in For(w, t) : v[i].payload = w[i].payload
    BY DEF For
  <1>3. QED
    BY <1>1, <1>2 DEF Lands

-----------------------------------------------------------------------------

(* What the parts of IInv depend on.                                       *)

MemoryOK == MemoryTyped /\ gated \subseteq Known /\ \A t \in Topics : MemoFits(t)

LEMMA SameBroker ==
  ASSUME UNCHANGED <<retained, wire, answer>>
  PROVE  BrokerTyped' <=> BrokerTyped
  BY DEF BrokerTyped

LEMMA SameMemory ==
  ASSUME UNCHANGED memory
  PROVE  MemoryOK' <=> MemoryOK
  BY DEF MemoryOK, MemoryTyped, MemoFits, Known, memory

LEMMA SameCallers ==
  ASSUME UNCHANGED callers
  PROVE  /\ CallersTyped' <=> CallersTyped
         /\ \A c \in Callers : ItemFits(c)' <=> ItemFits(c)
  BY DEF CallersTyped, ItemFits, callers

\* A step of one caller leaves the items of the others alone.
LEMMA OneItem ==
  ASSUME \A d \in Callers : ItemFits(d), NEW c \in Callers, ItemFits(c)',
         \A d \in Callers \ {c} : pc'[d] = pc[d] /\ op'[d] = op[d] /\ item'[d] = item[d]
  PROVE  \A d \in Callers : ItemFits(d)'
  <1>1. SUFFICES ASSUME NEW d \in Callers, d # c PROVE ItemFits(d)'
    OBVIOUS
  <1>2. QED
    BY <1>1 DEF ItemFits

-----------------------------------------------------------------------------
(* The payloads.                                                           *)

LEMMA BytesTyped ==
  ASSUME NEW v \in Vals
  PROVE  Bytes(v) \in Payloads
  BY DEF Payloads

LEMMA StatusTyped ==
  ASSUME NEW v \in Vals, NEW x \in Exts, NEW ts \in Times, NEW lc \in Times, lc <= ts
  PROVE  /\ StatusObject(v, x, ts, lc) \in Payloads
         /\ StatusObject(v, x, ts, lc).kind = "status"
  BY DEF Payloads, StatusObject

\* A status object keeps what a memo records.
LEMMA MemoTyped ==
  ASSUME NEW p \in Payloads, p.kind = "status"
  PROVE  [val |-> p.val, ext |-> p.ext, lc |-> p.lc] \in Memos
  BY DEF Payloads, StatusObject, Bytes, Memos

\* `lc` is an observation's time, and not a later one.
LEMMA ChangedAtTyped ==
  ASSUME NEW memo \in Memos \cup {None}, NEW v, NEW ts \in Times
  PROVE  ChangedAt(memo, v, ts) \in Times /\ ChangedAt(memo, v, ts) <= ts
  BY StateAssumption DEF ChangedAt, Memos

-----------------------------------------------------------------------------
(* The beginning of a call.                                                *)

LEMMA SuppressKeeps ==
  ASSUME IInv, NEW t, NEW p, Suppress(t, p)
  PROVE  IInv'
  <1>1. UNCHANGED <<broker, memory, callers>>
    BY DEF Suppress
  <1>2. QED
    BY <1>1, SameBroker, SameMemory, SameCallers DEF IInv, MemoryOK, broker

LEMMA PrepareKeeps ==
  ASSUME IInv, NEW c \in Callers, NEW o \in {"publish", "status", "pulse"}, NEW t \in Topics,
         NEW p \in Sendable, Prepare(c, o, t, p),
         o = "publish" => p \in {Bytes(v) : v \in Vals},
         o = "status" => p \in {q \in Payloads : q.kind = "status"}
  PROVE  IInv'
  <1>1. UNCHANGED <<broker, memory, copy>> /\ Goto(c, o, "send", [topic |-> t, payload |-> p], {})
    BY DEF Prepare
  <1>2. CallersTyped'
    BY <1>1 DEF IInv, CallersTyped, Goto
  <1>3. ItemFits(c)'
    BY <1>1 DEF IInv, CallersTyped, Goto, ItemFits
  <1>4. \A d \in Callers \ {c} : pc'[d] = pc[d] /\ op'[d] = op[d] /\ item'[d] = item[d]
    BY <1>1 DEF IInv, CallersTyped, Goto
  <1>5. \A d \in Callers : ItemFits(d)'
    BY <1>3, <1>4, OneItem DEF IInv
  <1>6. QED
    BY <1>1, <1>2, <1>5, SameBroker, SameMemory DEF IInv, MemoryOK, broker

LEMMA PublishBytesKeeps ==
  ASSUME IInv, NEW c \in Callers, NEW t \in Topics, NEW v \in Vals, PublishBytes(c, t, v)
  PROVE  IInv'
  <1>1. Suppress(t, Bytes(v)) \/ Prepare(c, "publish", t, Bytes(v))
    BY DEF PublishBytes
  <1>2. Bytes(v) \in Sendable
    BY BytesTyped DEF Sendable
  <1>3. QED
    BY <1>1, <1>2, SuppressKeeps, PrepareKeeps

LEMMA PublishStatusKeeps ==
  ASSUME IInv, NEW c \in Callers, NEW t \in Topics, NEW v \in Vals, NEW x \in Exts,
         NEW ts \in Times, PublishStatus(c, t, v, x, ts)
  PROVE  IInv'
  <1>. DEFINE o == StatusObject(v, x, ts, ChangedAt(status[t], v, ts))
  <1>1. Suppress(t, o) \/ Prepare(c, "status", t, o)
    BY DEF PublishStatus
  <1>2. status[t] \in Memos \cup {None}
    BY DEF IInv, MemoryTyped
  <1>3. o \in Payloads /\ o.kind = "status"
    BY <1>2, ChangedAtTyped, StatusTyped
  <1>4. o \in Sendable
    BY <1>3 DEF Sendable
  <1>. HIDE DEF o
  <1>5. QED
    BY <1>1, <1>3, <1>4, SuppressKeeps, PrepareKeeps

LEMMA PublishValueKeeps ==
  ASSUME IInv, NEW c \in Callers, NEW t \in Topics, NEW v \in Vals, NEW ts \in Times,
         PublishValue(c, t, v, ts)
  PROVE  IInv'
  BY PublishBytesKeeps, PublishStatusKeeps, StateAssumption DEF PublishValue

LEMMA PulseKeeps ==
  ASSUME IInv, NEW c \in Callers, NEW t \in Topics, Pulse(c, t)
  PROVE  IInv'
  <1>1. Prepare(c, "pulse", t, Occurrence) /\ Occurrence \in Sendable
    BY DEF Pulse, Sendable
  <1>2. QED
    BY <1>1, PrepareKeeps

\* A walk begins: nothing is on its way yet.
LEMMA WalkBegins ==
  ASSUME IInv, NEW c \in Callers, NEW o \in {"evict", "republish"}, NEW S \in SUBSET Topics,
         Goto(c, o, "walk", NoItem, S), UNCHANGED <<broker, memory>>,
         copy' \in [Callers -> [Topics -> Payloads \cup {Empty}]]
  PROVE  IInv'
  <1>1. CallersTyped'
    BY DEF IInv, CallersTyped, Goto
  <1>2. ItemFits(c)'
    BY DEF IInv, CallersTyped, Goto, ItemFits
  <1>3. \A d \in Callers \ {c} : pc'[d] = pc[d] /\ op'[d] = op[d] /\ item'[d] = item[d]
    BY DEF IInv, CallersTyped, Goto
  <1>4. \A d \in Callers : ItemFits(d)'
    BY <1>2, <1>3, OneItem DEF IInv
  <1>5. QED
    BY <1>1, <1>4, SameBroker, SameMemory DEF IInv, MemoryOK, broker

LEMMA EvictKeeps ==
  ASSUME IInv, NEW c \in Callers, NEW S \in SUBSET Topics, Evict(c, S)
  PROVE  IInv'
  <1>1. Goto(c, "evict", "walk", NoItem, S) /\ UNCHANGED <<broker, memory, copy>>
    BY DEF Evict
  <1>2. QED
    BY <1>1, WalkBegins DEF IInv, CallersTyped

LEMMA RepublishKeeps ==
  ASSUME IInv, NEW c \in Callers, Republish(c)
  PROVE  IInv'
  <1>1. /\ Goto(c, "republish", "walk", NoItem, Known) /\ UNCHANGED <<broker, memory>>
        /\ copy' = [copy EXCEPT ![c] = published]
    BY DEF Republish
  <1>2. copy' \in [Callers -> [Topics -> Payloads \cup {Empty}]] /\ Known \in SUBSET Topics
    BY <1>1 DEF IInv, CallersTyped, MemoryTyped, Known
  <1>3. QED
    BY <1>1, <1>2, WalkBegins

LEMMA ForgetKeeps ==
  ASSUME IInv, NEW S \in SUBSET Topics, Forget(S)
  PROVE  IInv'
  <1>1. UNCHANGED <<broker, callers>>
    BY DEF Forget
  <1>2. MemoryTyped'
    BY DEF IInv, MemoryTyped, Forget
  <1>3. gated' \subseteq Known'
    BY DEF IInv, Forget, Known
  <1>4. \A t \in Topics : MemoFits(t)'
    BY DEF IInv, MemoFits, Forget
  <1>5. QED
    BY <1>1, <1>2, <1>3, <1>4, SameBroker, SameCallers DEF IInv, broker

LEMMA ResetKeeps ==
  ASSUME IInv, Reset
  PROVE  IInv'
  <1>1. UNCHANGED <<broker, published, status, callers>> /\ gated' = {}
    BY DEF Reset
  <1>2. MemoryTyped' /\ \A t \in Topics : MemoFits(t)'
    BY <1>1 DEF IInv, MemoryTyped, MemoFits
  <1>3. QED
    BY <1>1, <1>2, SameBroker, SameCallers DEF IInv, broker

LEMMA BeginKeeps ==
  ASSUME IInv, NEW c \in Callers, Begin(c)
  PROVE  IInv'
  <1>1. \A o \in Offers : o[1] \in Topics /\ o[2] \in Vals /\ o[3] \in Exts /\ o[4] \in Times
    BY StateAssumption
  <1>2. CASE \E o \in Offers : PublishBytes(c, o[1], o[2])
    BY <1>1, <1>2, PublishBytesKeeps
  <1>3. CASE \E o \in Offers : PublishValue(c, o[1], o[2], o[4])
    BY <1>1, <1>3, PublishValueKeeps
  <1>4. CASE \E o \in Offers : PublishStatus(c, o[1], o[2], o[3], o[4])
    BY <1>1, <1>4, PublishStatusKeeps
  <1>5. CASE \E t \in Topics : Pulse(c, t)
    BY <1>5, PulseKeeps
  <1>6. CASE \E S \in {Topics, Topics \ Guarded} : Evict(c, S)
    <2>1. PICK S \in SUBSET Topics : Evict(c, S)
      BY <1>6
    <2>2. QED
      BY <2>1, EvictKeeps
  <1>7. CASE EvictPrefix(c)
    <2>1. Known \cap Under \in SUBSET Topics
      BY DEF Known
    <2>2. QED
      BY <1>7, <2>1, EvictKeeps DEF EvictPrefix
  <1>8. CASE Republish(c)
    BY <1>8, RepublishKeeps
  <1>9. CASE \E t \in Topics : Forget({t})
    <2>1. PICK S \in SUBSET Topics : Forget(S)
      BY <1>9
    <2>2. QED
      BY <2>1, ForgetKeeps
  <1>10. CASE Reset
    BY <1>10, ResetKeeps
  <1>11. QED
    BY <1>2, <1>3, <1>4, <1>5, <1>6, <1>7, <1>8, <1>9, <1>10 DEF Begin

-----------------------------------------------------------------------------
(* The transport call, and what it leaves.                                 *)

LEMMA SendTyped ==
  ASSUME BrokerTyped, NEW c \in Callers, NEW t \in Topics, NEW p \in Sendable, NEW q,
         NEW retain \in BOOLEAN, retain => p \in Payloads \cup {Empty},
         Send(c, t, p, q, retain)
  PROVE  BrokerTyped'
  <1>. DEFINE m == Message(IF q = 0 THEN None ELSE c, t, p, retain)
  <1>1. m \in Messages
    BY DEF Messages, Message
  <1>2. wire' = Append(wire, m) /\ UNCHANGED retained
    BY DEF Send
  <1>. HIDE DEF m
  <1>3. wire' \in Seq(Messages)
    BY <1>1, <1>2 DEF BrokerTyped
  <1>4. answer' \in [Callers -> Answers]
    BY DEF Send, BrokerTyped, Answers
  <1>5. QED
    BY <1>2, <1>3, <1>4 DEF BrokerTyped

LEMMA RefuseTyped ==
  ASSUME BrokerTyped, NEW c \in Callers, Refuse(c)
  PROVE  BrokerTyped'
  BY DEF Refuse, BrokerTyped, Answers

LEMMA AnsweredTyped ==
  ASSUME BrokerTyped, NEW c \in Callers, Answered(c), UNCHANGED <<retained, wire>>
  PROVE  BrokerTyped'
  BY DEF Answered, BrokerTyped, Answers

LEMMA HandOverKeeps ==
  ASSUME IInv, NEW c \in Callers, HandOver(c)
  PROVE  IInv'
  <1>1. /\ pc[c] = "send" /\ item[c].topic \in Topics /\ item[c].payload \in Sendable
        /\ op[c] \in {"publish", "status", "pulse"}
    BY DEF HandOver, IInv, ItemFits, CallersTyped, NoItem, Sendable
  <1>2. op[c] # "pulse" => item[c].payload \in Payloads
    BY <1>1, BytesTyped DEF IInv, ItemFits
  <1>3. BrokerTyped'
    <2>1. CASE Send(c, item[c].topic, item[c].payload,
                    IF op[c] = "pulse" THEN 0 ELSE qos, op[c] # "pulse")
      BY <2>1, <1>1, <1>2, SendTyped DEF IInv
    <2>2. QED
      BY <2>1, RefuseTyped DEF HandOver, IInv
  <1>4. CallersTyped'
    BY DEF HandOver, IInv, CallersTyped
  <1>5. ItemFits(c)'
    BY <1>1 DEF HandOver, IInv, CallersTyped, ItemFits
  <1>6. \A d \in Callers : ItemFits(d)'
    BY <1>5, OneItem DEF HandOver, IInv, CallersTyped
  <1>7. QED
    BY <1>3, <1>4, <1>6, SameMemory DEF HandOver, IInv, MemoryOK

\* A call returns: nothing of it is left.
LEMMA DoneKeeps ==
  ASSUME CallersTyped, \A d \in Callers : ItemFits(d), NEW c \in Callers,
         Goto(c, "none", "idle", NoItem, {}),
         copy' \in [Callers -> [Topics -> Payloads \cup {Empty}]]
  PROVE  CallersTyped' /\ \A d \in Callers : ItemFits(d)'
  <1>1. CallersTyped'
    BY DEF CallersTyped, Goto
  <1>2. ItemFits(c)'
    BY DEF CallersTyped, Goto, ItemFits
  <1>3. \A d \in Callers \ {c} : pc'[d] = pc[d] /\ op'[d] = op[d] /\ item'[d] = item[d]
    BY DEF CallersTyped, Goto
  <1>4. QED
    BY <1>1, <1>2, <1>3, OneItem

LEMMA RecordKeeps ==
  ASSUME IInv, NEW c \in Callers, Record(c)
  PROVE  IInv'
  <1>. DEFINE t == item[c].topic
              p == item[c].payload
              memo == [val |-> p.val, ext |-> p.ext, lc |-> p.lc]
  <1>1. t \in Topics /\ p \in Payloads /\ op[c] \in {"publish", "status"}
    BY BytesTyped DEF Record, IInv, ItemFits
  <1>2. op[c] = "status" => p.kind = "status" /\ memo \in Memos
    BY <1>1, MemoTyped DEF Record, IInv, ItemFits
  <1>3. /\ published' = [published EXCEPT ![t] = p] /\ gated' = gated \cup {t}
        /\ status' = [status EXCEPT ![t] = IF op[c] = "publish" THEN None ELSE memo]
    BY DEF Record
  <1>. HIDE DEF t, p, memo
  <1>4. MemoryTyped'
    BY <1>1, <1>2, <1>3 DEF IInv, MemoryTyped
  <1>5. gated' \subseteq Known'
    BY <1>1, <1>3, PayloadAssumption DEF IInv, MemoryTyped, Known
  <1>6. \A u \in Topics : MemoFits(u)'
    <2>1. SUFFICES ASSUME NEW u \in Topics PROVE MemoFits(u)'
      OBVIOUS
    <2>2. CASE u = t
      BY <2>2, <1>1, <1>2, <1>3 DEF IInv, MemoryTyped, MemoFits, memo
    <2>3. CASE u # t
      BY <2>3, <1>1, <1>3 DEF IInv, MemoryTyped, MemoFits
    <2>4. QED
      BY <2>2, <2>3
  <1>7. BrokerTyped'
    BY AnsweredTyped DEF Record, IInv
  <1>8. CallersTyped' /\ \A d \in Callers : ItemFits(d)'
    BY DoneKeeps DEF Record, Done, IInv, CallersTyped
  <1>9. QED
    BY <1>4, <1>5, <1>6, <1>7, <1>8 DEF IInv

LEMMA CallFailsKeeps ==
  ASSUME IInv, NEW c \in Callers, CallFails(c)
  PROVE  IInv'
  <1>1. BrokerTyped'
    BY AnsweredTyped DEF CallFails, IInv
  <1>2. CallersTyped' /\ \A d \in Callers : ItemFits(d)'
    BY DoneKeeps DEF CallFails, Done, IInv, CallersTyped
  <1>3. QED
    BY <1>1, <1>2, SameMemory DEF CallFails, IInv, MemoryOK

LEMMA WalkStepKeeps ==
  ASSUME IInv, NEW c \in Callers, WalkStep(c)
  PROVE  IInv'
  <1>1. PICK t \in todo[c] :
          LET p == IF op[c] = "evict" THEN Empty ELSE copy[c][t]
          IN  IF Collides(t)
              THEN /\ todo' = [todo EXCEPT ![c] = @ \ {t}]
                   /\ UNCHANGED <<broker, config, memory, pc, op, item, copy, history>>
              ELSE /\ Send(c, t, p, qos, TRUE) \/ Refuse(c)
                   /\ pc' = [pc EXCEPT ![c] = "wait"]
                   /\ item' = [item EXCEPT ![c] = [topic |-> t, payload |-> p]]
                   /\ todo' = [todo EXCEPT ![c] = @ \ {t}]
                   /\ UNCHANGED <<config, memory, op, copy, history>>
    BY DEF WalkStep
  <1>. DEFINE p == IF op[c] = "evict" THEN Empty ELSE copy[c][t]
  <1>2. t \in Topics /\ p \in Payloads \cup {Empty} /\ p \in Sendable
    BY DEF IInv, CallersTyped, Sendable
  <1>3. CASE Collides(t)
    <2>1. CallersTyped' /\ \A d \in Callers : ItemFits(d)'
      BY <1>1, <1>3 DEF IInv, CallersTyped, ItemFits
    <2>2. QED
      BY <1>1, <1>3, <2>1, SameBroker, SameMemory DEF IInv, MemoryOK, broker
  <1>4. CASE ~Collides(t)
    <2>1. /\ Send(c, t, p, qos, TRUE) \/ Refuse(c)
          /\ pc' = [pc EXCEPT ![c] = "wait"]
          /\ item' = [item EXCEPT ![c] = [topic |-> t, payload |-> p]]
          /\ todo' = [todo EXCEPT ![c] = @ \ {t}]
          /\ UNCHANGED <<memory, op, copy>>
      BY <1>1, <1>4
    <2>. HIDE DEF p
    <2>2. BrokerTyped'
      BY <2>1, <1>2, SendTyped, RefuseTyped DEF IInv
    <2>3. CallersTyped'
      BY <2>1, <1>2 DEF IInv, CallersTyped
    <2>4. op[c] \notin {"publish", "status"}
      BY DEF WalkStep, IInv, ItemFits
    <2>5. ItemFits(c)'
      BY <2>1, <2>4, <1>2 DEF IInv, CallersTyped, ItemFits
    <2>6. \A d \in Callers \ {c} : pc'[d] = pc[d] /\ op'[d] = op[d] /\ item'[d] = item[d]
      BY <2>1 DEF IInv, CallersTyped
    <2>7. QED
      BY <2>1, <2>2, <2>3, <2>5, <2>6, OneItem, SameMemory DEF IInv, MemoryOK
  <1>5. QED
    BY <1>3, <1>4

LEMMA WalkAnsweredKeeps ==
  ASSUME IInv, NEW c \in Callers, WalkAnswered(c)
  PROVE  IInv'
  <1>. DEFINE evicted == IF answer[c] = "accepted" /\ op[c] = "evict" THEN {item[c].topic} ELSE {}
  <1>1. /\ published' = [u \in Topics |-> IF u \in evicted THEN Empty ELSE published[u]]
        /\ status' = [u \in Topics |-> IF u \in evicted THEN None ELSE status[u]]
        /\ gated' = gated \ evicted
        /\ op[c] \in {"evict", "republish"}
    BY DEF WalkAnswered
  <1>2. /\ pc' = [pc EXCEPT ![c] = "walk"] /\ item' = [item EXCEPT ![c] = NoItem]
        /\ UNCHANGED <<op, todo, copy, retained, wire>> /\ Answered(c)
    BY DEF WalkAnswered
  <1>. HIDE DEF evicted
  <1>3. MemoryTyped'
    BY <1>1 DEF IInv, MemoryTyped
  <1>4. gated' \subseteq Known'
    BY <1>1 DEF IInv, Known
  <1>5. \A u \in Topics : MemoFits(u)'
    BY <1>1 DEF IInv, MemoFits
  <1>6. CallersTyped'
    BY <1>2 DEF IInv, CallersTyped
  <1>7. ItemFits(c)'
    BY <1>1, <1>2 DEF IInv, CallersTyped, ItemFits
  <1>8. \A d \in Callers \ {c} : pc'[d] = pc[d] /\ op'[d] = op[d] /\ item'[d] = item[d]
    BY <1>2 DEF IInv, CallersTyped
  <1>9. QED
    BY <1>2, <1>3, <1>4, <1>5, <1>6, <1>7, <1>8, OneItem, AnsweredTyped DEF IInv

LEMMA WalkEndsKeeps ==
  ASSUME IInv, NEW c \in Callers, WalkEnds(c)
  PROVE  IInv'
  <1>1. copy' \in [Callers -> [Topics -> Payloads \cup {Empty}]]
    BY DEF WalkEnds, IInv, CallersTyped
  <1>2. CallersTyped' /\ \A d \in Callers : ItemFits(d)'
    BY <1>1, DoneKeeps DEF WalkEnds, IInv
  <1>3. QED
    BY <1>2, SameBroker, SameMemory DEF WalkEnds, IInv, MemoryOK, broker

-----------------------------------------------------------------------------
(* The broker and the connection.                                          *)

LEMMA ReadKeeps ==
  ASSUME IInv, Read
  PROVE  IInv'
  <1>. DEFINE m == Head(wire)
  <1>1. m \in Messages /\ Tail(wire) \in Seq(Messages)
    BY DEF Read, BrokerReads, IInv, BrokerTyped
  <1>2. /\ retained' = IF m.retain THEN [retained EXCEPT ![m.topic] = m.payload] ELSE retained
        /\ answer' = IF m.from = None THEN answer ELSE [answer EXCEPT ![m.from] = "accepted"]
        /\ wire' = Tail(wire)
    BY DEF Read, BrokerReads
  <1>. HIDE DEF m
  <1>3. retained' \in [Topics -> Payloads \cup {Empty, Old}]
    BY <1>1, <1>2 DEF IInv, BrokerTyped, Messages
  <1>4. answer' \in [Callers -> Answers]
    BY <1>1, <1>2 DEF IInv, BrokerTyped, Messages, Answers
  <1>5. BrokerTyped'
    BY <1>1, <1>2, <1>3, <1>4 DEF BrokerTyped
  <1>6. QED
    BY <1>5, SameCallers, SameMemory DEF Read, IInv, MemoryOK

LEMMA LoseAnswerKeeps ==
  ASSUME IInv, NEW c \in Callers, LoseAnswer(c)
  PROVE  IInv'
  <1>. DEFINE lost(i) == IF wire[i].from = c THEN [wire[i] EXCEPT !.from = None] ELSE wire[i]
  <1>1. wire' = [i \in DOMAIN wire |-> lost(i)] /\ UNCHANGED retained
        /\ answer' = [answer EXCEPT ![c] = "failed"]
    BY DEF LoseAnswer, AnswerLost
  <1>2. \A i \in DOMAIN wire : lost(i) \in Messages
    BY DEF IInv, BrokerTyped, Messages
  <1>3. wire \in Seq(Messages)
    BY DEF IInv, BrokerTyped
  <1>. HIDE DEF lost
  <1>4. wire' \in Seq(Messages)
    BY <1>1, <1>2, <1>3
  <1>5. BrokerTyped'
    BY <1>1, <1>4 DEF IInv, BrokerTyped, Answers
  <1>6. QED
    BY <1>5, SameCallers, SameMemory DEF LoseAnswer, IInv, MemoryOK

LEMMA NewConnectionKeeps ==
  ASSUME IInv, NewConnection
  PROVE  IInv'
  <1>1. /\ retained' = retained \/ retained' = [t \in Topics |-> Empty]
        /\ wire' = <<>>
        /\ answer' = [c \in Callers |-> IF answer[c] = "sent" THEN "failed" ELSE answer[c]]
    BY DEF NewConnection, Reconnect
  <1>2. BrokerTyped'
    BY <1>1 DEF IInv, BrokerTyped, Answers
  <1>3. QED
    BY <1>2, SameCallers, SameMemory DEF NewConnection, IInv, MemoryOK

-----------------------------------------------------------------------------
(* The theorem.                                                            *)

LEMMA Initially ==
  ASSUME Init
  PROVE  IInv
  <1>1. \A t \in Topics : retained[t] \in {Empty, Old}
    BY DEF Init, BrokerInit
  <1>2. BrokerTyped
    BY DEF Init, BrokerInit, BrokerTyped, Answers
  <1>3. CallersTyped /\ \A c \in Callers : ItemFits(c)
    BY DEF Init, CallersTyped, ItemFits
  <1>4. MemoryTyped /\ gated = {} /\ \A t \in Topics : MemoFits(t)
    BY DEF Init, MemoryTyped, MemoFits
  <1>5. QED
    BY <1>2, <1>3, <1>4 DEF IInv

LEMMA Inductive ==
  ASSUME IInv, [Next]_vars
  PROVE  IInv'
  <1>1. CASE \E c \in Callers : Begin(c)
    BY <1>1, BeginKeeps
  <1>2. CASE \E c \in Callers : Step(c)
    BY <1>2, HandOverKeeps, RecordKeeps, CallFailsKeeps, WalkStepKeeps, WalkAnsweredKeeps,
       WalkEndsKeeps DEF Step
  <1>3. CASE \E c \in Callers : LoseAnswer(c)
    BY <1>3, LoseAnswerKeeps
  <1>4. CASE Read
    BY <1>4, ReadKeeps
  <1>5. CASE NewConnection
    BY <1>5, NewConnectionKeeps
  <1>6. CASE UNCHANGED vars
    BY <1>6, SameBroker, SameCallers, SameMemory DEF vars, IInv, MemoryOK, broker
  <1>7. QED
    BY <1>1, <1>2, <1>3, <1>4, <1>5, <1>6 DEF Next

\* The index, the gate and the value memory of StatePublisher agree in every reachable
\* state: a repeat is suppressed, and `lc` carried, on the word of bytes the index still
\* has (state.go:204-289, 455-457; status.go:105-110, 154-159).
THEOREM MapsAgree == Spec => []IInv
  <1>1. Init => IInv
    BY Initially
  <1>2. IInv /\ [Next]_vars => IInv'
    BY Inductive
  <1>3. QED
    BY <1>1, <1>2, PTL DEF Spec

-----------------------------------------------------------------------------
(* What a caller was told is what the broker retains. The argument needs the *)
(* caller contract, and that no connection changes under a call.             *)

Settles(t, S) == Lands(wire, retained, t, S)

\* What is read as v.
Reading(v) == {p \in Payloads \cup {Empty, Old} : Content(p) = v}

Writer(c)  == op[c] \in {"publish", "status", "evict", "republish"}
Writes(c)  == IF Writer(c) THEN Busy(c) \cap Topics ELSE {}
Waits(c)   == pc[c] = "wait" /\ Writer(c)
Pending(t) == \E c \in Callers : Waits(c) /\ item[c].topic = t /\ answer[c] # "failed"

\* A call has an item only between its rendering and its record, and topics left only
\* on a walk.
Framed ==
  \A c \in Callers :
    /\ pc[c] \in {"idle", "walk"} => item[c] = NoItem
    /\ pc[c] \in {"idle", "send"} => todo[c] = {}
    /\ item[c].topic \notin todo[c]
    /\ pc[c] = "wait" /\ op[c] = "republish" => item[c].payload \in Payloads \cup {Empty}
    /\ pc[c] = "wait" /\ op[c] = "evict" => item[c].payload = Empty

Said == told \in [Topics -> {None} \cup {Content(p) : p \in Payloads \cup {Empty, Old}}]

\* No topic has two writers.
Alone ==
  \A c, d \in Callers : c # d => Writes(c) \cap Writes(d) = {}

\* Nobody was told anything of a topic that is being written.
Unclaimed ==
  \A c \in Callers : \A t \in Writes(c) : told[t] = None

\* A message whose answer is awaited is its topic's last.
Sent ==
  \A i \in 1..Len(wire) : \A c \in Callers : wire[i].from = c =>
    /\ Waits(c) /\ answer[c] = "sent" /\ wire[i].retain
    /\ wire[i].topic = item[c].topic /\ wire[i].payload = item[c].payload
    /\ \A j \in For(wire, item[c].topic) : j <= i

\* An accepted message is what its topic settles on; at QoS 1 it has.
Landed ==
  \A c \in Callers : Waits(c) /\ answer[c] = "accepted" =>
    /\ Settles(item[c].topic, {item[c].payload})
    /\ qos = 1 => For(wire, item[c].topic) = {}

\* At QoS 1 somebody waits for every message on the wire, or was left without an answer.
Delivered ==
  qos = 1 => \A t \in Topics : For(wire, t) # {} => t \in unheard \/ Pending(t)

\* So are the bytes a gate suppresses a repeat for.
Gated ==
  \A t \in Topics :
    settled /\ t \in gated \ unheard /\ ~Pending(t) => Settles(t, {published[t]})

\* What Republish copied is what the gate still compares with.
Copied ==
  \A c \in Callers : op[c] = "republish" =>
    /\ Writes(c) \subseteq Known \cup forgotten
    /\ \A t \in todo[c] \cap gated : copy[c][t] = published[t]
    /\ pc[c] = "wait" /\ item[c].topic \in gated => item[c].payload = published[item[c].topic]

Claimed ==
  \A t \in Topics : told[t] # None => Settles(t, Reading(told[t]))

\* A topic nobody has in mind holds nothing of this process.
Traced ==
  qos = 1 =>
    \A t \in Topics \ (Known \cup forgotten \cup unheard) : ~Pending(t) => retained[t] \in {Empty, Old}

Facts ==
  /\ IInv
  /\ Framed /\ Said /\ Alone /\ Unclaimed
  /\ Sent /\ Landed /\ Delivered
  /\ Gated /\ Copied /\ Claimed /\ Traced

-----------------------------------------------------------------------------
(* What the parts of Facts depend on.                                        *)

LEMMA Typed ==
  ASSUME IInv
  PROVE  /\ wire \in Seq(Messages) /\ Len(wire) \in Nat
         /\ retained \in [Topics -> Payloads \cup {Empty, Old}]
         /\ answer \in [Callers -> Answers]
         /\ pc \in [Callers -> {"idle", "send", "wait", "walk"}]
         /\ op \in [Callers -> {"none", "publish", "status", "pulse", "evict", "republish"}]
         /\ item \in [Callers -> {NoItem} \cup [topic : Topics, payload : Sendable]]
         /\ todo \in [Callers -> SUBSET Topics]
         /\ copy \in [Callers -> [Topics -> Payloads \cup {Empty}]]
  BY DEF IInv, BrokerTyped, CallersTyped

\* Whoever waits is about a topic.
LEMMA WaitersWrite ==
  ASSUME IInv, NEW c \in Callers, Waits(c)
  PROVE  item[c].topic \in Topics /\ item[c].topic \in Writes(c)
  BY DEF IInv, ItemFits, Waits, Writes, Busy

\* Nobody else's call moves.
Others(c) ==
  \A d \in Callers \ {c} :
    /\ pc'[d] = pc[d] /\ op'[d] = op[d] /\ item'[d] = item[d] /\ todo'[d] = todo[d]
    /\ copy'[d] = copy[d] /\ answer'[d] = answer[d]

LEMMA OthersWrite ==
  ASSUME NEW c \in Callers, Others(c)
  PROVE  \A d \in Callers \ {c} : /\ Waits(d)' = Waits(d) /\ Writes(d)' = Writes(d)
                                  /\ Writer(d)' = Writer(d)
  BY DEF Others, Waits, Writes, Writer, Busy

\* A topic is pending for c only, when c writes it.
LEMMA PendingFor ==
  ASSUME Facts, NEW c \in Callers, NEW t \in Writes(c), Pending(t)
  PROVE  Waits(c) /\ item[c].topic = t /\ answer[c] # "failed"
  <1>1. PICK d \in Callers : Waits(d) /\ item[d].topic = t /\ answer[d] # "failed"
    BY DEF Pending
  <1>2. t \in Writes(d)
    BY <1>1, WaitersWrite DEF Facts
  <1>3. d = c
    BY <1>2 DEF Facts, Alone
  <1>4. QED
    BY <1>1, <1>3

LEMMA SameCalls ==
  ASSUME UNCHANGED <<callers, answer>>
  PROVE  /\ Framed' = Framed /\ Alone' = Alone
         /\ \A c \in Callers : Waits(c)' = Waits(c) /\ Writes(c)' = Writes(c)
         /\ \A t : Pending(t)' = Pending(t)
  <1>1. \A c \in Callers : Waits(c)' = Waits(c) /\ Writes(c)' = Writes(c)
    BY DEF callers, Waits, Writes, Writer, Busy
  <1>2. \A t : Pending(t)' = Pending(t)
    BY <1>1 DEF callers, Pending
  <1>3. Framed' = Framed
    BY DEF callers, Framed
  <1>4. Alone' = Alone
    BY <1>1 DEF Alone
  <1>5. QED
    BY <1>1, <1>2, <1>3, <1>4

LEMMA SameSettling ==
  ASSUME UNCHANGED <<retained, wire>>
  PROVE  \A t, S : Lands(wire, retained, t, S)' = Lands(wire, retained, t, S)
  OBVIOUS

-----------------------------------------------------------------------------
(* Calls that end where they begin.                                          *)

\* A topic somebody may write next is nobody's now.
LEMMA FreeToWrite ==
  ASSUME Facts, OneWriter = TRUE, NEW c \in Callers, pc[c] = "idle", NEW S, Free(c, S)
  PROVE  /\ Writes(c) = {} /\ \A d \in Callers : Writes(d) \cap S = {}
         /\ \A t \in S : ~Pending(t)
  <1>1. Writes(c) = {}
    BY BrokerAssumption DEF Facts, Framed, Writes, Busy, NoItem
  <1>2. \A d \in Callers : Writes(d) \cap S = {}
    BY <1>1 DEF Free, Writes
  <1>3. ASSUME NEW t \in S, Pending(t) PROVE FALSE
    <2>1. PICK d \in Callers : Waits(d) /\ item[d].topic = t
      BY <1>3 DEF Pending
    <2>2. QED
      BY <1>2, <2>1, WaitersWrite DEF Facts
  <1>4. QED
    BY <1>1, <1>2, <1>3

LEMMA SuppressFacts ==
  ASSUME Facts, OneWriter = TRUE, NEW c \in Callers, pc[c] = "idle", NEW t \in Topics, Free(c, {t}),
         NEW p \in Payloads, Suppress(t, p), t \in gated, Content(p) = Content(published[t])
  PROVE  Facts'
  <1>1. UNCHANGED <<broker, config, memory, callers, settled, forgotten, unheard>>
    BY DEF Suppress
  <1>2. IInv'
    BY SuppressKeeps DEF Facts
  <1>3. /\ Framed' /\ Alone'
        /\ \A d \in Callers : Waits(d)' = Waits(d) /\ Writes(d)' = Writes(d)
        /\ \A u : Pending(u)' = Pending(u)
    BY <1>1, SameCalls DEF Facts, broker
  <1>4. told' = told \/ (settled /\ t \notin unheard /\ told' = [told EXCEPT ![t] = Content(p)])
    BY DEF Suppress, Tell
  <1>5. Said'
    BY <1>4 DEF Facts, Said
  <1>6. Unclaimed'
    <2>1. SUFFICES ASSUME NEW d \in Callers, NEW u \in Writes(d) PROVE told'[u] = None
      BY <1>3 DEF Unclaimed
    <2>2. u # t /\ u \in Topics
      BY FreeToWrite DEF Writes
    <2>3. QED
      BY <1>4, <2>2 DEF Facts, Unclaimed, Said
  <1>7. Sent' /\ Landed' /\ Delivered' /\ Gated' /\ Copied' /\ Traced'
    <2>1. Sent' /\ Landed'
      <3>1. Sent'
        BY <1>1, <1>3 DEF Facts, Sent, callers, broker
      <3>2. Landed'
        BY <1>1, <1>3 DEF Facts, Landed, Settles, callers, broker, config
      <3>3. QED
        BY <3>1, <3>2
    <2>2. Delivered' /\ Gated' /\ Traced'
      BY <1>1, <1>3 DEF Facts, Delivered, Gated, Traced, Settles, broker, memory, Known, config
    <2>3. Copied'
      BY <1>1, <1>3 DEF Facts, Copied, callers, memory, Known
    <2>4. QED
      BY <2>1, <2>2, <2>3
  <1>8. Claimed'
    <2>1. SUFFICES ASSUME NEW u \in Topics, told'[u] # None PROVE Lands(wire, retained, u, Reading(told'[u]))
      BY <1>1 DEF Claimed, Settles, broker, Reading
    <2>2. CASE told'[u] = told[u]
      BY <2>1, <2>2 DEF Facts, Claimed, Settles
    <2>3. CASE told'[u] # told[u]
      <3>1. u = t /\ settled /\ t \notin unheard /\ told'[t] = Content(p)
        BY <1>4, <2>3 DEF Facts, Said
      <3>2. ~Pending(t)
        BY FreeToWrite
      <3>3. Settles(t, {published[t]})
        BY <3>1, <3>2 DEF Facts, Gated
      <3>4. published[t] \in Reading(Content(p))
        BY DEF Facts, IInv, MemoryTyped, Reading
      <3>5. QED
        BY <3>1, <3>3, <3>4, LandsWider DEF Settles
    <2>4. QED
      BY <2>2, <2>3
  <1>9. QED
    BY <1>2, <1>3, <1>5, <1>6, <1>7, <1>8 DEF Facts

LEMMA ForgetFacts ==
  ASSUME Facts, NEW S \in SUBSET Topics, Forget(S)
  PROVE  Facts'
  <1>1. UNCHANGED <<broker, config, callers, told, settled, unheard>>
    BY DEF Forget
  <1>2. IInv'
    BY ForgetKeeps DEF Facts
  <1>3. /\ Framed' /\ Alone'
        /\ \A d \in Callers : Waits(d)' = Waits(d) /\ Writes(d)' = Writes(d)
        /\ \A u : Pending(u)' = Pending(u)
    BY <1>1, SameCalls DEF Facts, broker
  <1>4. Said' /\ Unclaimed' /\ Claimed'
    BY <1>1, <1>3 DEF Facts, Said, Unclaimed, Claimed, Settles, Reading, broker
  <1>5. Sent' /\ Landed' /\ Delivered'
    BY <1>1, <1>3 DEF Facts, Sent, Landed, Delivered, Settles, callers, broker, config
  <1>6. /\ gated' = gated \ S /\ forgotten' = forgotten \cup S
        /\ \A u \in Topics \ S : published'[u] = published[u]
        /\ Known \subseteq Known' \cup S
    BY DEF Forget, Known
  <1>7. Gated'
    BY <1>1, <1>3, <1>6 DEF Facts, Gated, Settles, broker
  <1>8. Copied'
    <2>1. SUFFICES ASSUME NEW d \in Callers, op[d] = "republish"
          PROVE  /\ Writes(d) \subseteq Known' \cup forgotten'
                 /\ \A u \in todo[d] \cap gated' : copy[d][u] = published'[u]
                 /\ pc[d] = "wait" /\ item[d].topic \in gated' => item[d].payload = published'[item[d].topic]
      BY <1>1, <1>3 DEF Copied, callers
    <2>2. Writes(d) \subseteq Known' \cup forgotten'
      BY <1>6, <2>1 DEF Facts, Copied
    <2>3. todo[d] \subseteq Topics /\ (pc[d] = "wait" => item[d].topic \in Topics)
      BY DEF Facts, IInv, CallersTyped, ItemFits
    <2>4. QED
      BY <1>6, <2>1, <2>2, <2>3 DEF Facts, Copied
  <1>9. Traced'
    BY <1>1, <1>3, <1>6 DEF Facts, Traced, broker, config
  <1>10. QED
    BY <1>2, <1>3, <1>4, <1>5, <1>7, <1>8, <1>9 DEF Facts

LEMMA ResetFacts ==
  ASSUME Facts, Reset
  PROVE  Facts'
  <1>1. UNCHANGED <<broker, config, published, callers, told, forgotten, unheard>> /\ gated' = {}
    BY DEF Reset
  <1>2. IInv'
    BY ResetKeeps DEF Facts
  <1>3. /\ Framed' /\ Alone'
        /\ \A d \in Callers : Waits(d)' = Waits(d) /\ Writes(d)' = Writes(d)
        /\ \A u : Pending(u)' = Pending(u)
    BY <1>1, SameCalls DEF Facts, broker
  <1>4. Said' /\ Unclaimed' /\ Claimed'
    BY <1>1, <1>3 DEF Facts, Said, Unclaimed, Claimed, Settles, Reading, broker
  <1>5. Sent' /\ Landed' /\ Delivered'
    BY <1>1, <1>3 DEF Facts, Sent, Landed, Delivered, Settles, callers, broker, config
  <1>6. Gated' /\ Traced'
    BY <1>1, <1>3 DEF Facts, Gated, Traced, Known, broker, config
  <1>7. Copied'
    BY <1>1, <1>3 DEF Facts, Copied, Known, callers
  <1>8. QED
    BY <1>2, <1>3, <1>4, <1>5, <1>6, <1>7 DEF Facts

-----------------------------------------------------------------------------
(* Calls that begin.                                                         *)

\* c, idle so far, takes topics nobody else writes; what it was told of them is void.
LEMMA BeginFacts ==
  ASSUME Facts, IInv', OneWriter = TRUE, NEW c \in Callers, pc[c] = "idle",
         UNCHANGED <<broker, config, memory, settled, forgotten, unheard>>, Others(c),
         pc'[c] \in {"send", "walk"},
         pc'[c] = "walk" => item'[c] = NoItem,
         pc'[c] = "send" => todo'[c] = {},
         NEW S \in SUBSET Topics, Writes(c)' \subseteq S, S # {} => Free(c, S), Unsure(S),
         op'[c] = "republish" => S \subseteq Known /\ pc'[c] = "walk" /\ copy'[c] = published
  PROVE  Facts'
  <1>1. \A d \in Callers \ {c} : Waits(d)' = Waits(d) /\ Writes(d)' = Writes(d) /\ Writer(d)' = Writer(d)
    BY OthersWrite
  <1>2. ~Waits(c) /\ ~Waits(c)'
    BY DEF Waits
  <1>3. \A u : Pending(u)' = Pending(u)
    BY <1>1, <1>2 DEF Pending, Others
  <1>4. \A d \in Callers : Writes(d) \cap S = {}
    BY FreeToWrite
  <1>5. Framed'
    <2>1. todo'[c] \in SUBSET Topics
      BY DEF IInv, CallersTyped
    <2>2. /\ pc'[c] \in {"idle", "walk"} => item'[c] = NoItem
          /\ pc'[c] \in {"idle", "send"} => todo'[c] = {}
          /\ item'[c].topic \notin todo'[c]
          /\ pc'[c] # "wait"
      BY <2>1, BrokerAssumption DEF NoItem
    <2>3. QED
      BY <2>2 DEF Facts, Framed, Others
  <1>6. Alone'
    BY <1>1, <1>4 DEF Facts, Alone
  <1>7. told' \in [Topics -> {None} \cup {told[u] : u \in Topics}] /\ \A u \in Topics : told'[u] = IF u \in S THEN None ELSE told[u]
    BY DEF Unsure
  <1>8. Said'
    BY <1>7 DEF Facts, Said
  <1>9. Unclaimed'
    <2>1. SUFFICES ASSUME NEW d \in Callers, NEW u \in Writes(d)' PROVE told'[u] = None
      BY DEF Unclaimed
    <2>2. u \in Topics
      BY DEF Writes
    <2>3. CASE d = c
      BY <1>7, <2>1, <2>2, <2>3
    <2>4. CASE d # c
      BY <1>1, <1>7, <2>1, <2>2, <2>4 DEF Facts, Unclaimed
    <2>5. QED
      BY <2>3, <2>4
  <1>10. Sent'
    BY <1>1, <1>2 DEF Facts, Sent, broker, Others
  <1>11. Landed'
    BY <1>1, <1>2 DEF Facts, Landed, Settles, broker, Others, config
  <1>12. Delivered' /\ Gated' /\ Traced'
    BY <1>3 DEF Facts, Delivered, Gated, Traced, Settles, broker, memory, Known, config
  <1>13. Copied'
    <2>1. SUFFICES ASSUME NEW d \in Callers, op'[d] = "republish"
          PROVE  /\ Writes(d)' \subseteq Known \cup forgotten
                 /\ \A u \in todo'[d] \cap gated : copy'[d][u] = published[u]
                 /\ pc'[d] = "wait" /\ item'[d].topic \in gated => item'[d].payload = published[item'[d].topic]
      BY DEF Copied, memory, Known
    <2>2. CASE d = c
      BY <2>1, <2>2
    <2>3. CASE d # c
      BY <1>1, <2>1, <2>3 DEF Facts, Copied, Others
    <2>4. QED
      BY <2>2, <2>3
  <1>14. Claimed'
    BY <1>7 DEF Facts, Claimed, Settles, broker, Reading
  <1>15. QED
    BY <1>5, <1>6, <1>8, <1>9, <1>10, <1>11, <1>12, <1>13, <1>14 DEF Facts

LEMMA GotoOthers ==
  ASSUME IInv, NEW c \in Callers, NEW o, NEW label, NEW i, NEW S, Goto(c, o, label, i, S),
         \A d \in Callers \ {c} : copy'[d] = copy[d] /\ answer'[d] = answer[d]
  PROVE  /\ Others(c)
         /\ pc'[c] = label /\ op'[c] = o /\ item'[c] = i /\ todo'[c] = S
  BY DEF Goto, Others, IInv, CallersTyped

LEMMA PrepareFacts ==
  ASSUME Facts, OneWriter = TRUE, NEW c \in Callers, pc[c] = "idle", NEW t \in Topics,
         NEW o \in {"publish", "status", "pulse"}, o # "pulse" => Free(c, {t}),
         NEW p, Prepare(c, o, t, p), IInv'
  PROVE  Facts'
  <1>. DEFINE S == IF o = "pulse" THEN {} ELSE {t}
  <1>1. /\ Goto(c, o, "send", [topic |-> t, payload |-> p], {}) /\ Unsure(S)
        /\ UNCHANGED <<broker, config, memory, copy, settled, forgotten, unheard>>
    BY DEF Prepare
  <1>2. /\ Others(c)
        /\ pc'[c] = "send" /\ op'[c] = o /\ item'[c] = [topic |-> t, payload |-> p] /\ todo'[c] = {}
    BY <1>1, GotoOthers DEF Facts, broker
  <1>3. Writes(c)' \subseteq S /\ S \subseteq Topics /\ (S # {} => Free(c, S))
    BY <1>2 DEF Writes, Writer, Busy
  <1>. HIDE DEF S
  <1>4. QED
    BY <1>1, <1>2, <1>3, BeginFacts

LEMMA PublishBytesFacts ==
  ASSUME Facts, OneWriter = TRUE, NEW c \in Callers, pc[c] = "idle", NEW t \in Topics, NEW v \in Vals,
         PublishBytes(c, t, v)
  PROVE  Facts'
  <1>1. Free(c, {t}) /\ IInv'
    BY PublishBytesKeeps DEF PublishBytes, Facts
  <1>2. CASE t \in gated /\ published[t] = Bytes(v)
    BY <1>1, <1>2, BytesTyped, SuppressFacts DEF PublishBytes
  <1>3. CASE ~(t \in gated /\ published[t] = Bytes(v))
    BY <1>1, <1>3, PrepareFacts DEF PublishBytes
  <1>4. QED
    BY <1>2, <1>3

LEMMA PublishStatusFacts ==
  ASSUME Facts, OneWriter = TRUE, NEW c \in Callers, pc[c] = "idle", NEW t \in Topics, NEW v \in Vals,
         NEW x \in Exts, NEW ts \in Times, PublishStatus(c, t, v, x, ts)
  PROVE  Facts'
  <1>. DEFINE o == StatusObject(v, x, ts, ChangedAt(status[t], v, ts))
              same == t \in gated /\ status[t] # None /\ status[t].val = v /\ status[t].ext = x
  <1>1. Free(c, {t}) /\ IInv' /\ (IF same THEN Suppress(t, o) ELSE Prepare(c, "status", t, o))
    BY PublishStatusKeeps DEF PublishStatus, Facts
  <1>2. CASE same
    <2>1. status[t] \in Memos \cup {None}
      BY DEF Facts, IInv, MemoryTyped
    <2>2. o \in Payloads
      BY <2>1, ChangedAtTyped, StatusTyped
    <2>3. Content(o) = <<"status", v, x>>
      BY <2>2, PayloadAssumption DEF Content, StatusObject
    <2>4. /\ published[t] \in Payloads /\ published[t].kind = "status"
          /\ published[t].val = v /\ published[t].ext = x
      <3>1. /\ published[t] \in Payloads /\ published[t].kind = "status"
            /\ status[t] = [val |-> published[t].val, ext |-> published[t].ext, lc |-> published[t].lc]
        BY <1>2 DEF Facts, IInv, MemoFits
      <3>2. status[t].val = published[t].val /\ status[t].ext = published[t].ext
        BY <3>1
      <3>3. QED
        BY <1>2, <3>1, <3>2
    <2>5. Content(published[t]) = <<"status", v, x>>
      BY <2>4, PayloadAssumption DEF Content
    <2>. HIDE DEF o
    <2>6. QED
      BY <1>1, <1>2, <2>2, <2>3, <2>5, SuppressFacts
  <1>3. CASE ~same
    BY <1>1, <1>3, PrepareFacts
  <1>4. QED
    BY <1>2, <1>3

LEMMA EvictFacts ==
  ASSUME Facts, OneWriter = TRUE, NEW c \in Callers, pc[c] = "idle", NEW S \in SUBSET Topics, Evict(c, S)
  PROVE  Facts'
  <1>1. /\ Goto(c, "evict", "walk", NoItem, S) /\ Unsure(S) /\ Free(c, S)
        /\ UNCHANGED <<broker, config, memory, copy, settled, forgotten, unheard>>
    BY DEF Evict
  <1>2. /\ Others(c)
        /\ pc'[c] = "walk" /\ op'[c] = "evict" /\ item'[c] = NoItem /\ todo'[c] = S
    BY <1>1, GotoOthers DEF Facts, broker
  <1>3. Writes(c)' \subseteq S
    BY <1>2, BrokerAssumption DEF Writes, Writer, Busy, NoItem
  <1>4. IInv'
    BY EvictKeeps DEF Facts
  <1>5. QED
    BY <1>1, <1>2, <1>3, <1>4, BeginFacts

LEMMA RepublishFacts ==
  ASSUME Facts, OneWriter = TRUE, NEW c \in Callers, pc[c] = "idle", Republish(c)
  PROVE  Facts'
  <1>0. PICK S \in SUBSET Topics : S = Known
    BY DEF Known
  <1>1. /\ Goto(c, "republish", "walk", NoItem, S) /\ Unsure(S) /\ Free(c, Topics)
        /\ copy' = [copy EXCEPT ![c] = published]
        /\ UNCHANGED <<broker, config, memory, settled, forgotten, unheard>>
    BY <1>0 DEF Republish
  <1>2. /\ Others(c)
        /\ pc'[c] = "walk" /\ op'[c] = "republish" /\ item'[c] = NoItem /\ todo'[c] = S
        /\ copy'[c] = published
    <2>1. \A d \in Callers \ {c} : copy'[d] = copy[d] /\ answer'[d] = answer[d]
      BY <1>1 DEF broker, Facts, IInv, CallersTyped
    <2>2. copy'[c] = published
      BY <1>1 DEF Facts, IInv, CallersTyped
    <2>3. QED
      BY <1>1, <2>1, <2>2, GotoOthers DEF Facts
  <1>3. Writes(c)' \subseteq S
    BY <1>2, BrokerAssumption DEF Writes, Writer, Busy, NoItem
  <1>4. IInv' /\ Free(c, S)
    BY <1>1, RepublishKeeps DEF Facts, Free
  <1>5. QED
    BY <1>0, <1>1, <1>2, <1>3, <1>4, BeginFacts

LEMMA BeginsFacts ==
  ASSUME Facts, OneWriter = TRUE, NEW c \in Callers, Begin(c)
  PROVE  Facts'
  <1>1. \A o \in Offers : o[1] \in Topics /\ o[2] \in Vals /\ o[3] \in Exts /\ o[4] \in Times
    BY StateAssumption
  <1>2. pc[c] = "idle"
    BY DEF Begin, Calls
  <1>3. CASE \E o \in Offers : PublishBytes(c, o[1], o[2])
    BY <1>1, <1>2, <1>3, PublishBytesFacts
  <1>4. CASE \E o \in Offers : PublishStatus(c, o[1], o[2], o[3], o[4])
    BY <1>1, <1>2, <1>4, PublishStatusFacts
  <1>5. CASE \E o \in Offers : PublishValue(c, o[1], o[2], o[4])
    <2>1. PICK o \in Offers : PublishValue(c, o[1], o[2], o[4])
      BY <1>5
    <2>2. PublishStatus(c, o[1], o[2], None, o[4]) \/ PublishBytes(c, o[1], o[2])
      BY <2>1 DEF PublishValue
    <2>3. QED
      BY <1>1, <1>2, <2>2, StateAssumption, PublishStatusFacts, PublishBytesFacts
  <1>6. CASE \E t \in Topics : Pulse(c, t)
    <2>1. PICK t \in Topics : Pulse(c, t)
      BY <1>6
    <2>2. QED
      BY <1>2, <2>1, PrepareFacts, PulseKeeps DEF Pulse, Facts
  <1>7. CASE \E S \in {Topics, Topics \ Guarded} : Evict(c, S)
    <2>1. PICK S \in SUBSET Topics : Evict(c, S)
      BY <1>7
    <2>2. QED
      BY <1>2, <2>1, EvictFacts
  <1>8. CASE EvictPrefix(c)
    <2>1. Known \cap Under \in SUBSET Topics
      BY DEF Known
    <2>2. QED
      BY <1>2, <1>8, <2>1, EvictFacts DEF EvictPrefix
  <1>9. CASE Republish(c)
    BY <1>2, <1>9, RepublishFacts
  <1>10. CASE \E t \in Topics : Forget({t})
    <2>1. PICK S \in SUBSET Topics : Forget(S)
      BY <1>10
    <2>2. QED
      BY <2>1, ForgetFacts
  <1>11. CASE Reset
    BY <1>11, ResetFacts
  <1>12. QED
    BY <1>3, <1>4, <1>5, <1>6, <1>7, <1>8, <1>9, <1>10, <1>11 DEF Begin

-----------------------------------------------------------------------------
(* The transport call.                                                       *)

\* c hands over the payload of a topic it writes, or an occurrence.
LEMMA SendingFacts ==
  ASSUME Facts, NEW c \in Callers, pc[c] # "wait", pc'[c] = "wait", UNCHANGED <<config, memory, history>>,
         \A d \in Callers \ {c} : pc'[d] = pc[d] /\ op'[d] = op[d] /\ item'[d] = item[d],
         op'[c] = op[c], op[c] \in {"publish", "status", "pulse", "evict", "republish"},
         NEW t \in Topics, NEW p \in Sendable, item'[c] = [topic |-> t, payload |-> p],
         NEW retain \in BOOLEAN, retain <=> Writer(c), retain => t \in Writes(c) /\ p \in Payloads \cup {Empty},
         NEW q, q = IF op[c] = "pulse" THEN 0 ELSE qos, Send(c, t, p, q, retain) \/ Refuse(c)
  PROVE  /\ Sent' /\ Landed' /\ Delivered'
         /\ Gated' /\ Claimed' /\ Traced'
  <1>1. \A d \in Callers \ {c} : Waits(d)' = Waits(d) /\ Writer(d)' = Writer(d)
    BY DEF Waits, Writer
  <1>2. ~Waits(c) /\ Waits(c)' = retain /\ Writer(c)' = Writer(c)
    BY DEF Waits, Writer
  <1>3. wire \in Seq(Messages) /\ Len(wire) \in Nat /\ answer \in [Callers -> Answers]
    BY Typed DEF Facts
  <1>4. \A i \in 1..Len(wire) : wire[i].from # c
    BY <1>2 DEF Facts, Sent
  <1>5. \A d \in Callers \ {c} : Waits(d) => item[d].topic \in Topics /\ item[d].topic \in Writes(d) /\ (retain => item[d].topic # t)
    <2>1. SUFFICES ASSUME NEW d \in Callers \ {c}, Waits(d)
          PROVE  item[d].topic \in Topics /\ item[d].topic \in Writes(d) /\ (retain => item[d].topic # t)
      OBVIOUS
    <2>2. item[d].topic \in Topics /\ item[d].topic \in Writes(d)
      BY <2>1, WaitersWrite DEF Facts
    <2>3. QED
      BY <2>2 DEF Facts, Alone
  <1>6. CASE Refuse(c)
    <2>1. UNCHANGED <<retained, wire>> /\ answer'[c] = "failed" /\ \A d \in Callers \ {c} : answer'[d] = answer[d]
      BY <1>3, <1>6 DEF Refuse
    <2>2. \A u : Pending(u)' = Pending(u)
      BY <1>1, <1>2, <2>1 DEF Pending
    <2>3. Sent'
      BY <1>1, <1>2, <1>4, <2>1 DEF Facts, Sent
    <2>4. Landed'
      BY <1>1, <1>2, <2>1 DEF Facts, Landed, Settles, config
    <2>5. Delivered' /\ Gated' /\ Claimed' /\ Traced'
      BY <2>1, <2>2 DEF Facts, Delivered, Gated, Claimed, Traced, Settles, Reading, Known, config, memory, history
    <2>6. QED
      BY <2>3, <2>4, <2>5
  <1>7. CASE Send(c, t, p, q, retain)
    <2>0. PICK m \in Messages : m = [from |-> IF q = 0 THEN None ELSE c, topic |-> t, payload |-> p, retain |-> retain]
      <3>1. PICK f \in Callers \cup {None} : f = IF q = 0 THEN None ELSE c
        OBVIOUS
      <3>2. [from |-> f, topic |-> t, payload |-> p, retain |-> retain] \in Messages
        BY DEF Messages
      <3>3. QED
        BY <3>1, <3>2
    <2>1. /\ retained' = retained /\ wire' = Append(wire, m)
          /\ answer'[c] = IF q = 0 THEN "accepted" ELSE "sent"
          /\ \A d \in Callers \ {c} : answer'[d] = answer[d]
      BY <1>3, <1>7, <2>0 DEF Send, Message
    <2>2. \A u \in Topics : Pending(u)' <=> Pending(u) \/ (retain /\ u = t)
      BY <1>1, <1>2, <2>1 DEF Pending
    <2>3. \A u, S : ~(retain /\ u = t) /\ Lands(wire, retained, u, S) => Lands(wire', retained', u, S)
      BY <1>3, <2>0, <2>1, LandsBehindOther
    <2>4. \A u : ~(retain /\ u = t) => For(wire', u) = For(wire, u)
      <3>1. Len(wire') = Len(wire) + 1 /\ wire'[Len(wire) + 1] = m /\ \A i \in 1..Len(wire) : wire'[i] = wire[i]
        BY <1>3, <2>1
      <3>2. QED
        BY <1>3, <2>0, <3>1 DEF For
    <2>5. retain => /\ \A j \in For(wire', t) : j <= Len(wire) + 1
                    /\ Lands(wire', retained', t, {p})
      <3>1. SUFFICES ASSUME retain PROVE /\ \A j \in For(wire', t) : j <= Len(wire) + 1
                                         /\ Lands(wire', retained', t, {p})
        OBVIOUS
      <3>2. m.retain /\ m.topic = t /\ m.payload = p
        BY <2>0, <3>1
      <3>3. /\ \A j \in For(Append(wire, m), t) : j <= Len(wire) + 1
            /\ Lands(Append(wire, m), retained, t, {m.payload})
        BY <1>3, <3>2, LandsAfterAppend
      <3>4. QED
        BY <2>1, <3>2, <3>3
    <2>6. Sent'
      <3>1. SUFFICES ASSUME NEW i \in 1..Len(wire'), NEW d \in Callers, wire'[i].from = d
            PROVE  /\ Waits(d)' /\ answer'[d] = "sent" /\ wire'[i].retain
                   /\ wire'[i].topic = item'[d].topic /\ wire'[i].payload = item'[d].payload
                   /\ \A j \in For(wire', item'[d].topic) : j <= i
        BY DEF Sent
      <3>2. Len(wire') = Len(wire) + 1 /\ wire'[Len(wire) + 1] = m /\ \A k \in 1..Len(wire) : wire'[k] = wire[k]
        BY <1>3, <2>1
      <3>3. CASE i = Len(wire) + 1
        <4>1. d = c /\ q # 0
          BY <2>0, <3>1, <3>2, <3>3, BrokerAssumption
        <4>2. retain
          BY <4>1 DEF Writer
        <4>3. Waits(c)' /\ answer'[c] = "sent" /\ wire'[i] = m /\ m.retain
          BY <1>2, <2>0, <2>1, <3>2, <3>3, <4>1, <4>2
        <4>4. m.topic = item'[c].topic /\ m.payload = item'[c].payload /\ item'[c].topic = t
          BY <2>0
        <4>5. QED
          BY <2>5, <3>3, <4>1, <4>2, <4>3, <4>4
      <3>4. CASE i \in 1..Len(wire)
        <4>1. wire'[i] = wire[i] /\ d # c
          BY <1>4, <3>1, <3>2, <3>4
        <4>2. /\ Waits(d) /\ answer[d] = "sent" /\ wire[i].retain
              /\ wire[i].topic = item[d].topic /\ wire[i].payload = item[d].payload
              /\ \A j \in For(wire, item[d].topic) : j <= i
          BY <3>1, <3>4, <4>1 DEF Facts, Sent
        <4>3. For(wire', item[d].topic) = For(wire, item[d].topic)
          BY <1>5, <2>4, <4>1, <4>2
        <4>4. QED
          BY <1>1, <2>1, <4>1, <4>2, <4>3
      <3>5. QED
        BY <1>3, <3>2, <3>3, <3>4
    <2>7. Landed'
      <3>1. SUFFICES ASSUME NEW d \in Callers, Waits(d)', answer'[d] = "accepted"
            PROVE  /\ Lands(wire', retained', item'[d].topic, {item'[d].payload})
                   /\ qos = 1 => For(wire', item'[d].topic) = {}
        BY DEF Landed, Settles, config
      <3>2. CASE d = c
        <4>1. retain /\ Writer(c)
          BY <1>2, <3>1, <3>2
        <4>2. q = 0 /\ q = qos
          BY <2>1, <3>1, <3>2, <4>1 DEF Writer
        <4>3. item'[d].topic = t /\ {item'[d].payload} = {p}
          BY <3>2
        <4>4. Lands(wire', retained', t, {p})
          BY <2>5, <4>1
        <4>5. qos # 1
          BY <4>2
        <4>6. QED
          BY <4>3, <4>4, <4>5
      <3>3. CASE d # c
        <4>1. Waits(d) /\ answer[d] = "accepted" /\ item'[d] = item[d]
          BY <1>1, <2>1, <3>1, <3>3
        <4>2. Lands(wire, retained, item[d].topic, {item[d].payload}) /\ (qos = 1 => For(wire, item[d].topic) = {})
          BY <4>1 DEF Facts, Landed, Settles
        <4>3. ~(retain /\ item[d].topic = t)
          BY <1>5, <3>3, <4>1
        <4>4. QED
          BY <2>3, <2>4, <4>1, <4>2, <4>3
      <3>4. QED
        BY <3>2, <3>3
    <2>8. Delivered'
      BY <2>2, <2>4 DEF Facts, Delivered, config, history
    <2>9. Gated'
      BY <2>2, <2>3 DEF Facts, Gated, Settles, memory, history
    <2>10. Claimed'
      <3>1. SUFFICES ASSUME NEW u \in Topics, told[u] # None PROVE Lands(wire', retained', u, Reading(told[u]))
        BY DEF Claimed, Settles, Reading, history
      <3>2. ~(retain /\ u = t)
        BY <3>1 DEF Facts, Unclaimed
      <3>3. QED
        BY <2>3, <3>1, <3>2 DEF Facts, Claimed, Settles
    <2>11. Traced'
      BY <2>1, <2>2 DEF Facts, Traced, Known, config, memory, history
    <2>12. QED
      BY <2>6, <2>7, <2>8, <2>9, <2>10, <2>11
  <1>8. QED
    BY <1>6, <1>7

LEMMA HandOverFacts ==
  ASSUME Facts, NEW c \in Callers, HandOver(c)
  PROVE  Facts'
  <1>. DEFINE t == item[c].topic
              p == item[c].payload
  <1>1. /\ pc[c] = "send" /\ t \in Topics /\ p \in Sendable /\ op[c] \in {"publish", "status", "pulse"}
        /\ item[c] = [topic |-> t, payload |-> p]
    <2>1. pc[c] = "send" /\ t \in Topics /\ op[c] \in {"publish", "status", "pulse"}
      BY DEF HandOver, Facts, IInv, ItemFits
    <2>2. item[c] \in {NoItem} \cup [topic : Topics, payload : Sendable]
      BY Typed DEF Facts
    <2>3. item[c] # NoItem
      BY <2>1, BrokerAssumption DEF NoItem
    <2>4. QED
      BY <2>1, <2>2, <2>3
  <1>2. op[c] # "pulse" => p \in Payloads
    BY <1>1, BytesTyped DEF Facts, IInv, ItemFits
  <1>3. IInv'
    BY HandOverKeeps DEF Facts
  <1>4. /\ UNCHANGED <<config, memory, op, item, todo, copy, history>>
        /\ pc'[c] = "wait" /\ \A d \in Callers \ {c} : pc'[d] = pc[d]
    BY DEF HandOver, Facts, IInv, CallersTyped
  <1>5. PICK retain \in BOOLEAN : retain <=> op[c] # "pulse"
    OBVIOUS
  <1>6. PICK q : q = IF op[c] = "pulse" THEN 0 ELSE qos
    OBVIOUS
  <1>7. Send(c, t, p, q, retain) \/ Refuse(c)
    <2>1. (op[c] # "pulse") = retain
      BY <1>5
    <2>2. Send(c, t, p, IF op[c] = "pulse" THEN 0 ELSE qos, op[c] # "pulse") \/ Refuse(c)
      BY DEF HandOver
    <2>3. QED
      BY <1>6, <2>1, <2>2
  <1>8. (retain <=> Writer(c)) /\ (retain => t \in Writes(c))
    BY <1>1, <1>5 DEF Writer, Writes, Busy
  <1>9. item'[c] = [topic |-> t, payload |-> p]
    BY <1>1, <1>4
  <1>. HIDE DEF t, p
  <1>10. Sent' /\ Landed' /\ Delivered' /\ Gated' /\ Claimed' /\ Traced'
    BY <1>1, <1>2, <1>4, <1>5, <1>6, <1>7, <1>8, <1>9, SendingFacts
  <1>11. \A d \in Callers : Writes(d)' = Writes(d)
    BY <1>4 DEF Writes, Writer, Busy
  <1>12. Framed'
    BY <1>1, <1>4 DEF Facts, Framed
  <1>13. Said' /\ Alone' /\ Unclaimed'
    BY <1>4, <1>11 DEF Facts, Said, Alone, Unclaimed, history
  <1>14. Copied'
    BY <1>1, <1>4, <1>11 DEF Facts, Copied, Known, memory, history
  <1>15. QED
    BY <1>3, <1>10, <1>12, <1>13, <1>14 DEF Facts

LEMMA WalkStepFacts ==
  ASSUME Facts, NEW c \in Callers, WalkStep(c)
  PROVE  Facts'
  <1>1. PICK t \in todo[c] :
          LET p == IF op[c] = "evict" THEN Empty ELSE copy[c][t]
          IN  IF Collides(t)
              THEN /\ todo' = [todo EXCEPT ![c] = @ \ {t}]
                   /\ UNCHANGED <<broker, config, memory, pc, op, item, copy, history>>
              ELSE /\ Send(c, t, p, qos, TRUE) \/ Refuse(c)
                   /\ pc' = [pc EXCEPT ![c] = "wait"]
                   /\ item' = [item EXCEPT ![c] = [topic |-> t, payload |-> p]]
                   /\ todo' = [todo EXCEPT ![c] = @ \ {t}]
                   /\ UNCHANGED <<config, memory, op, copy, history>>
    BY DEF WalkStep
  <1>. DEFINE p == IF op[c] = "evict" THEN Empty ELSE copy[c][t]
  <1>2. t \in Topics /\ p \in Payloads \cup {Empty} /\ p \in Sendable
    BY DEF Facts, IInv, CallersTyped, Sendable
  <1>3. pc[c] = "walk" /\ op[c] \in {"evict", "republish"} /\ item[c] = NoItem
    BY DEF WalkStep, Facts, IInv, ItemFits, Framed
  <1>4. /\ todo'[c] = todo[c] \ {t} /\ todo[c] \in SUBSET Topics
        /\ \A d \in Callers \ {c} : todo'[d] = todo[d]
        /\ UNCHANGED <<config, memory, op, copy, history>>
    BY <1>1 DEF Facts, IInv, CallersTyped
  <1>5. Writes(c) = todo[c]
    BY <1>3, <1>4, BrokerAssumption DEF Writes, Writer, Busy, NoItem
  <1>6. IInv'
    BY WalkStepKeeps DEF Facts
  <1>7. CASE Collides(t)
    <2>1. UNCHANGED <<broker, pc, item>>
      BY <1>1, <1>7
    <2>2. \A d \in Callers : Waits(d)' = Waits(d) /\ Writes(d)' \subseteq Writes(d)
      BY <1>4, <2>1 DEF Waits, Writes, Writer, Busy
    <2>3. \A u : Pending(u)' = Pending(u)
      BY <2>1, <2>2 DEF Pending, broker
    <2>4. Framed'
      BY <1>4, <2>1 DEF Facts, Framed
    <2>5. Said' /\ Alone' /\ Unclaimed'
      BY <1>4, <2>2 DEF Facts, Said, Alone, Unclaimed, history
    <2>6. Sent'
      BY <2>1, <2>2 DEF Facts, Sent, broker
    <2>7. Landed'
      BY <1>4, <2>1, <2>2 DEF Facts, Landed, Settles, broker, config
    <2>8. Delivered' /\ Gated' /\ Claimed' /\ Traced'
      BY <1>4, <2>1, <2>3 DEF Facts, Delivered, Gated, Claimed, Traced, Settles, Reading, Known, broker, config, memory, history
    <2>9. Copied'
      BY <1>4, <2>1, <2>2 DEF Facts, Copied, Known, memory, history
    <2>10. QED
      BY <1>6, <2>4, <2>5, <2>6, <2>7, <2>8, <2>9 DEF Facts
  <1>8. CASE ~Collides(t)
    <2>1. /\ Send(c, t, p, qos, TRUE) \/ Refuse(c)
          /\ pc' = [pc EXCEPT ![c] = "wait"]
          /\ item' = [item EXCEPT ![c] = [topic |-> t, payload |-> p]]
      BY <1>1, <1>8
    <2>2. /\ pc'[c] = "wait" /\ item'[c] = [topic |-> t, payload |-> p] /\ op'[c] = op[c]
          /\ \A d \in Callers \ {c} : pc'[d] = pc[d] /\ op'[d] = op[d] /\ item'[d] = item[d]
      BY <1>4, <2>1 DEF Facts, IInv, CallersTyped
    <2>3. Writer(c) /\ t \in Writes(c)
      BY <1>3, <1>5 DEF Writer
    <2>4. p = IF op[c] = "evict" THEN Empty ELSE copy[c][t]
      OBVIOUS
    <2>. HIDE DEF p
    <2>5. Sent' /\ Landed' /\ Delivered' /\ Gated' /\ Claimed' /\ Traced'
      BY <1>2, <1>3, <1>4, <2>1, <2>2, <2>3, SendingFacts
    <2>6. Writes(c)' = Writes(c)
      <3>1. Writer(c)' /\ Busy(c)' = {t} \cup (todo[c] \ {t})
        BY <1>3, <1>4, <2>2 DEF Writer, Busy
      <3>2. QED
        BY <1>4, <1>5, <3>1 DEF Writes
    <2>7. \A d \in Callers : Writes(d)' = Writes(d)
      BY <1>4, <2>2, <2>6 DEF Writes, Writer, Busy
    <2>8. Framed'
      <3>1. /\ pc'[c] = "wait" /\ item'[c].topic \notin todo'[c]
            /\ op[c] = "republish" => item'[c].payload \in Payloads \cup {Empty}
            /\ op[c] = "evict" => item'[c].payload = Empty
        BY <1>2, <1>4, <2>2, <2>4
      <3>2. QED
        BY <1>4, <2>2, <3>1 DEF Facts, Framed
    <2>9. Said' /\ Alone' /\ Unclaimed'
      BY <1>4, <2>7 DEF Facts, Said, Alone, Unclaimed, history
    <2>10. Copied'
      <3>1. SUFFICES ASSUME NEW d \in Callers, op[d] = "republish"
            PROVE  /\ Writes(d) \subseteq Known \cup forgotten
                   /\ \A u \in todo'[d] \cap gated : copy[d][u] = published[u]
                   /\ pc'[d] = "wait" /\ item'[d].topic \in gated => item'[d].payload = published[item'[d].topic]
        BY <1>4, <2>7 DEF Copied, Known, memory, history
      <3>2. CASE d = c
        <4>1. /\ Writes(c) \subseteq Known \cup forgotten
              /\ \A u \in todo[c] \cap gated : copy[c][u] = published[u]
          BY <3>1, <3>2 DEF Facts, Copied
        <4>2. item'[c].topic = t /\ item'[c].payload = copy[c][t]
          BY <2>2, <2>4, <3>1, <3>2
        <4>3. QED
          BY <1>4, <3>2, <4>1, <4>2
      <3>3. CASE d # c
        BY <1>4, <2>2, <3>1, <3>3 DEF Facts, Copied
      <3>4. QED
        BY <3>2, <3>3
    <2>11. QED
      BY <1>6, <2>5, <2>8, <2>9, <2>10 DEF Facts
  <1>9. QED
    BY <1>7, <1>8

-----------------------------------------------------------------------------
(* The end of a call, and of a walk's step.                                  *)

\* c lets go of what it was about; the wire and the broker stand still.
LEMMA LetGo ==
  ASSUME Facts, NEW c \in Callers, UNCHANGED <<retained, wire, config>>, answer[c] # "sent" \/ pc[c] # "wait",
         Others(c), pc'[c] \in {"idle", "walk"}, item'[c] = NoItem, todo'[c] \subseteq todo[c],
         pc'[c] = "idle" => todo'[c] = {},
         Writer(c)' => Writer(c)
  PROVE  /\ Framed' /\ Alone' /\ Sent' /\ Landed'
         /\ \A d \in Callers \ {c} : Writes(d)' = Writes(d)
         /\ Writes(c)' \subseteq todo[c] \cap Writes(c)
         /\ \A u : Pending(u) => Pending(u)' \/ (Waits(c) /\ u = item[c].topic /\ answer[c] # "failed")
  <1>1. \A d \in Callers \ {c} : Waits(d)' = Waits(d) /\ Writes(d)' = Writes(d) /\ Writer(d)' = Writer(d)
    BY OthersWrite
  <1>2. todo[c] \in SUBSET Topics
    BY Typed DEF Facts
  <1>3. Writes(c)' \subseteq todo[c] \cap Writes(c)
    BY <1>2, BrokerAssumption DEF Writes, Busy, NoItem
  <1>4. Framed'
    <2>1. /\ item'[c].topic \notin todo'[c] /\ pc'[c] \notin {"wait", "send"}
      BY <1>2, BrokerAssumption DEF NoItem
    <2>2. QED
      BY <2>1 DEF Facts, Framed, Others
  <1>5. Alone'
    BY <1>1, <1>3 DEF Facts, Alone
  <1>6. \A i \in 1..Len(wire) : wire[i].from # c
    BY DEF Facts, Sent, Waits
  <1>7. Sent'
    BY <1>1, <1>6 DEF Facts, Sent, Others
  <1>8. ~Waits(c)'
    BY DEF Waits
  <1>9. Landed'
    BY <1>1, <1>8 DEF Facts, Landed, Settles, Others, config
  <1>10. \A u : Pending(u) => Pending(u)' \/ (Waits(c) /\ u = item[c].topic /\ answer[c] # "failed")
    BY <1>1 DEF Pending, Others
  <1>11. QED
    BY <1>1, <1>3, <1>4, <1>5, <1>7, <1>9, <1>10

LEMMA RecordFacts ==
  ASSUME Facts, NEW c \in Callers, Record(c)
  PROVE  Facts'
  <1>. DEFINE t == item[c].topic
              p == item[c].payload
  <1>1. t \in Topics /\ p \in Payloads /\ Waits(c) /\ t \in Writes(c) /\ answer[c] = "accepted"
    BY BytesTyped, WaitersWrite DEF Record, Facts, IInv, ItemFits, Waits, Writer
  <1>2. /\ published' = [published EXCEPT ![t] = p] /\ gated' = gated \cup {t}
        /\ told' = [told EXCEPT ![t] = Content(p)] /\ forgotten \subseteq forgotten' \cup {t}
        /\ unheard' = unheard \ {t} /\ UNCHANGED <<retained, wire, config, settled>>
    BY DEF Record, Tell, Remember, Heard
  <1>3. Others(c) /\ pc'[c] = "idle" /\ op'[c] = "none" /\ item'[c] = NoItem /\ todo'[c] = {}
    <2>1. Goto(c, "none", "idle", NoItem, {}) /\ UNCHANGED copy /\ Answered(c)
      BY DEF Record, Done
    <2>2. \A d \in Callers \ {c} : copy'[d] = copy[d] /\ answer'[d] = answer[d]
      BY <2>1, Typed DEF Answered, Facts
    <2>3. QED
      BY <2>1, <2>2, GotoOthers DEF Facts
  <1>4. IInv'
    BY RecordKeeps DEF Facts
  <1>. HIDE DEF t, p
  <1>5. /\ Framed' /\ Alone' /\ Sent' /\ Landed'
        /\ \A d \in Callers \ {c} : Writes(d)' = Writes(d)
        /\ Writes(c)' = {}
        /\ \A u : u # t /\ Pending(u) => Pending(u)'
    <2>1. Writer(c)' => Writer(c)
      BY <1>3 DEF Writer
    <2>2. Writes(c)' = {}
      BY <1>3 DEF Writes, Writer
    <2>3. QED
      BY <1>1, <1>2, <1>3, <2>1, <2>2, LetGo DEF t
  <1>6. \A d \in Callers \ {c} : t \notin Writes(d)
    BY <1>1 DEF Facts, Alone
  <1>7. Settles(t, {p}) /\ (qos = 1 => For(wire, t) = {})
    BY <1>1 DEF Facts, Landed, t, p
  <1>8. /\ published \in [Topics -> Payloads \cup {Empty}] /\ Known \subseteq Known' /\ t \in Known'
        /\ published'[t] = p /\ \A u \in Topics \ {t} : published'[u] = published[u]
    BY <1>1, <1>2, PayloadAssumption DEF Facts, IInv, MemoryTyped, Known
  <1>9. Said'
    BY <1>1, <1>2 DEF Facts, Said
  <1>10. Unclaimed'
    BY <1>2, <1>5, <1>6 DEF Facts, Unclaimed, Said, Writes
  <1>11. Delivered'
    BY <1>2, <1>5, <1>7 DEF Facts, Delivered, config
  <1>12. Gated'
    <2>1. SUFFICES ASSUME NEW u \in Topics, settled, u \in gated' \ unheard', ~Pending(u)'
          PROVE  Lands(wire, retained, u, {published'[u]})
      BY <1>2 DEF Gated, Settles
    <2>2. CASE u = t
      BY <1>7, <1>8, <2>2 DEF Settles
    <2>3. CASE u # t
      BY <1>2, <1>5, <1>8, <2>1, <2>3 DEF Facts, Gated, Settles
    <2>4. QED
      BY <2>2, <2>3
  <1>13. Copied'
    <2>1. SUFFICES ASSUME NEW d \in Callers \ {c}, op[d] = "republish"
          PROVE  /\ Writes(d) \subseteq Known' \cup forgotten'
                 /\ \A u \in todo[d] \cap gated' : copy[d][u] = published'[u]
                 /\ pc[d] = "wait" /\ item[d].topic \in gated' => item[d].payload = published'[item[d].topic]
      BY <1>3, <1>5 DEF Copied, Others
    <2>2. Writes(d) = ({item[d].topic} \cup todo[d]) \cap Topics /\ todo[d] \subseteq Topics
          /\ (pc[d] = "wait" => item[d].topic \in Topics)
      BY <2>1 DEF Writes, Writer, Busy, Facts, IInv, CallersTyped, ItemFits
    <2>3. /\ Writes(d) \subseteq Known \cup forgotten
          /\ \A u \in todo[d] \cap gated : copy[d][u] = published[u]
          /\ pc[d] = "wait" /\ item[d].topic \in gated => item[d].payload = published[item[d].topic]
      BY <2>1 DEF Facts, Copied
    <2>4. QED
      BY <1>2, <1>6, <1>8, <2>2, <2>3
  <1>14. Claimed'
    <2>1. SUFFICES ASSUME NEW u \in Topics, told'[u] # None
          PROVE  Lands(wire, retained, u, Reading(told'[u]))
      BY <1>2 DEF Claimed, Settles, Reading
    <2>2. CASE u = t
      <3>1. told'[t] = Content(p) /\ p \in Reading(Content(p))
        BY <1>1, <1>2 DEF Facts, Said, Reading
      <3>2. QED
        BY <1>7, <2>2, <3>1, LandsWider DEF Settles
    <2>3. CASE u # t
      BY <1>2, <2>1, <2>3 DEF Facts, Claimed, Settles, Said
    <2>4. QED
      BY <2>2, <2>3
  <1>15. Traced'
    BY <1>2, <1>5, <1>8 DEF Facts, Traced, config
  <1>16. QED
    BY <1>4, <1>5, <1>9, <1>10, <1>11, <1>12, <1>13, <1>14, <1>15 DEF Facts

\* A call ends, or goes on with its walk, and has nothing to tell.
LEMMA LeavesFacts ==
  ASSUME Facts, IInv', NEW c \in Callers, UNCHANGED <<retained, wire, config, memory, history>>,
         Others(c), pc'[c] \in {"idle", "walk"}, item'[c] = NoItem, todo'[c] \subseteq todo[c],
         pc'[c] = "idle" => todo'[c] = {},
         (op'[c] = op[c] /\ copy'[c] = copy[c]) \/ op'[c] = "none",
         (~Waits(c) /\ (pc[c] = "wait" => answer[c] # "sent")) \/ answer[c] = "failed"
  PROVE  Facts'
  <1>1. Writer(c)' => Writer(c)
    BY DEF Writer
  <1>2. answer[c] # "sent" \/ pc[c] # "wait"
    OBVIOUS
  <1>3. /\ Framed' /\ Alone' /\ Sent' /\ Landed'
        /\ \A d \in Callers \ {c} : Writes(d)' = Writes(d)
        /\ Writes(c)' \subseteq todo[c] \cap Writes(c)
        /\ \A u : Pending(u) => Pending(u)' \/ (Waits(c) /\ u = item[c].topic /\ answer[c] # "failed")
    BY <1>1, <1>2, LetGo
  <1>4. \A u : Pending(u) => Pending(u)'
    BY <1>3
  <1>5. Said' /\ Unclaimed'
    BY <1>3 DEF Facts, Said, Unclaimed, history
  <1>6. Delivered' /\ Gated' /\ Claimed' /\ Traced'
    BY <1>4 DEF Facts, Delivered, Gated, Claimed, Traced, Settles, Reading, Known, config, memory, history
  <1>7. Copied'
    <2>1. SUFFICES ASSUME NEW d \in Callers, op'[d] = "republish"
          PROVE  /\ Writes(d)' \subseteq Known \cup forgotten
                 /\ \A u \in todo'[d] \cap gated : copy'[d][u] = published[u]
                 /\ pc'[d] = "wait" /\ item'[d].topic \in gated => item'[d].payload = published[item'[d].topic]
      BY DEF Copied, Known, memory, history
    <2>2. CASE d = c
      BY <1>3, <2>1, <2>2 DEF Facts, Copied
    <2>3. CASE d # c
      BY <1>3, <2>1, <2>3 DEF Facts, Copied, Others
    <2>4. QED
      BY <2>2, <2>3
  <1>8. QED
    BY <1>3, <1>5, <1>6, <1>7 DEF Facts

LEMMA CallFailsFacts ==
  ASSUME Facts, NEW c \in Callers, CallFails(c)
  PROVE  Facts'
  <1>1. /\ UNCHANGED <<retained, wire, config, memory, history, copy>> /\ Answered(c)
        /\ Goto(c, "none", "idle", NoItem, {})
        /\ pc[c] = "wait" /\ (answer[c] = "failed" \/ (op[c] = "pulse" /\ answer[c] = "accepted"))
    BY DEF CallFails, Done
  <1>2. \A d \in Callers \ {c} : copy'[d] = copy[d] /\ answer'[d] = answer[d]
    BY <1>1, Typed DEF Answered, Facts
  <1>3. Others(c) /\ pc'[c] = "idle" /\ op'[c] = "none" /\ item'[c] = NoItem /\ todo'[c] = {}
    BY <1>1, <1>2, GotoOthers DEF Facts
  <1>4. (~Waits(c) /\ answer[c] # "sent") \/ answer[c] = "failed"
    BY <1>1 DEF Waits, Writer
  <1>5. IInv'
    BY CallFailsKeeps DEF Facts
  <1>6. QED
    BY <1>1, <1>3, <1>4, <1>5, LeavesFacts

LEMMA WalkEndsFacts ==
  ASSUME Facts, NEW c \in Callers, WalkEnds(c)
  PROVE  Facts'
  <1>1. /\ UNCHANGED <<broker, config, memory, history>>
        /\ copy' = [copy EXCEPT ![c] = [t \in Topics |-> Empty]]
        /\ Goto(c, "none", "idle", NoItem, {}) /\ pc[c] = "walk"
    BY DEF WalkEnds
  <1>2. \A d \in Callers \ {c} : copy'[d] = copy[d] /\ answer'[d] = answer[d]
    BY <1>1, Typed DEF Facts, broker
  <1>3. Others(c) /\ pc'[c] = "idle" /\ op'[c] = "none" /\ item'[c] = NoItem /\ todo'[c] = {}
    BY <1>1, <1>2, GotoOthers DEF Facts
  <1>4. ~Waits(c) /\ pc[c] # "wait"
    BY <1>1 DEF Waits
  <1>5. IInv'
    BY WalkEndsKeeps DEF Facts
  <1>6. QED
    BY <1>1, <1>3, <1>4, <1>5, LeavesFacts DEF broker

LEMMA WalkAnsweredFacts ==
  ASSUME Facts, NEW c \in Callers, WalkAnswered(c)
  PROVE  Facts'
  <1>. DEFINE t  == item[c].topic
              p  == item[c].payload
              ok == answer[c] = "accepted"
              evicted == IF ok /\ op[c] = "evict" THEN {t} ELSE {}
  <1>1. /\ t \in Topics /\ p \in Payloads \cup {Empty} /\ Waits(c) /\ t \in Writes(c) /\ t \notin todo[c]
        /\ answer[c] \in {"accepted", "failed"} /\ op[c] \in {"evict", "republish"}
        /\ op[c] = "evict" => p = Empty
    <2>1. pc[c] = "wait" /\ answer[c] \in {"accepted", "failed"} /\ op[c] \in {"evict", "republish"}
      BY DEF WalkAnswered
    <2>2. Waits(c)
      BY <2>1 DEF Waits, Writer
    <2>3. t \in Topics /\ t \in Writes(c)
      BY <2>2, WaitersWrite DEF Facts
    <2>4. t \notin todo[c] /\ p \in Payloads \cup {Empty} /\ (op[c] = "evict" => p = Empty)
      BY <2>1 DEF Facts, Framed
    <2>5. QED
      BY <2>1, <2>2, <2>3, <2>4
  <1>2. /\ published' = [u \in Topics |-> IF u \in evicted THEN Empty ELSE published[u]]
        /\ gated' = gated \ evicted
        /\ IF ok THEN told' = [told EXCEPT ![t] = Content(p)] /\ unheard' = unheard \ {t}
                 ELSE UNCHANGED <<told, unheard>>
        /\ UNCHANGED <<retained, wire, config, op, todo, copy, settled, forgotten>>
    BY DEF WalkAnswered, Tell, Heard
  <1>3. Others(c) /\ pc'[c] = "walk" /\ item'[c] = NoItem
    <2>1. pc' = [pc EXCEPT ![c] = "walk"] /\ item' = [item EXCEPT ![c] = NoItem] /\ Answered(c)
      BY DEF WalkAnswered
    <2>2. QED
      BY <1>2, <2>1, Typed DEF Others, Answered, Facts
  <1>4. IInv'
    BY WalkAnsweredKeeps DEF Facts
  <1>5. Writer(c)' = Writer(c)
    BY <1>2 DEF Writer
  <1>6. /\ Framed' /\ Alone' /\ Sent' /\ Landed'
        /\ \A d \in Callers \ {c} : Writes(d)' = Writes(d)
        /\ Writes(c)' \subseteq todo[c] \cap Writes(c)
        /\ \A u : Pending(u) => Pending(u)' \/ (u = t /\ ok)
    <2>1. answer[c] # "sent" /\ todo'[c] \subseteq todo[c]
      BY <1>1, <1>2
    <2>2. /\ Framed' /\ Alone' /\ Sent' /\ Landed'
          /\ \A d \in Callers \ {c} : Writes(d)' = Writes(d)
          /\ Writes(c)' \subseteq todo[c] \cap Writes(c)
          /\ \A u : Pending(u) => Pending(u)' \/ (Waits(c) /\ u = item[c].topic /\ answer[c] # "failed")
      BY <1>2, <1>3, <1>5, <2>1, LetGo
    <2>3. QED
      BY <1>1, <2>2
  <1>7. \A d \in Callers : t \notin Writes(d)'
    BY <1>1, <1>6 DEF Facts, Alone
  <1>8. ok => Settles(t, {p}) /\ (qos = 1 => For(wire, t) = {})
    BY <1>1 DEF Facts, Landed
  <1>9. op[c] = "republish" => t \in Known \cup forgotten /\ (t \in gated => p = published[t])
    BY <1>1 DEF Facts, Copied, Waits
  <1>10. /\ \A u \in Topics \ {t} : published'[u] = published[u]
         /\ evicted = {} => published'[t] = published[t]
         /\ Known \subseteq Known' \cup evicted /\ evicted \subseteq {t}
    BY <1>1, <1>2 DEF Known
  <1>11. evicted = {} <=> ~(ok /\ op[c] = "evict")
    OBVIOUS
  <1>. HIDE DEF t, p, ok, evicted
  <1>12. Said'
    BY <1>1, <1>2 DEF Facts, Said
  <1>13. \A u \in Topics : told'[u] = IF ok /\ u = t THEN Content(p) ELSE told[u]
    BY <1>1, <1>2 DEF Facts, Said
  <1>14. Unclaimed'
    <2>1. SUFFICES ASSUME NEW d \in Callers, NEW u \in Writes(d)' PROVE told'[u] = None
      BY DEF Unclaimed
    <2>2. u # t /\ u \in Topics /\ u \in Writes(d)
      BY <1>6, <1>7 DEF Writes
    <2>3. QED
      BY <1>13, <2>2 DEF Facts, Unclaimed
  <1>15. Delivered'
    BY <1>2, <1>6, <1>8 DEF Facts, Delivered, config
  <1>16. Gated'
    <2>1. SUFFICES ASSUME NEW u \in Topics, settled, u \in gated' \ unheard', ~Pending(u)'
          PROVE  Lands(wire, retained, u, {published'[u]})
      BY <1>2 DEF Gated, Settles
    <2>2. CASE ok /\ u = t
      <3>1. u \notin evicted /\ u \in gated
        BY <1>2, <2>1
      <3>2. op[c] = "republish" /\ evicted = {}
        BY <1>1, <1>10, <1>11, <2>2, <3>1 DEF evicted
      <3>3. p = published'[u]
        BY <1>9, <1>10, <2>2, <3>1, <3>2
      <3>4. QED
        BY <1>8, <2>2, <3>3 DEF Settles
    <2>3. CASE ~(ok /\ u = t)
      <3>1. u \in gated \ unheard /\ ~Pending(u) /\ u \notin evicted
        BY <1>2, <1>6, <2>1, <2>3
      <3>2. published'[u] = published[u]
        BY <1>2, <3>1
      <3>3. QED
        BY <2>1, <3>1, <3>2 DEF Facts, Gated, Settles
    <2>4. QED
      BY <2>2, <2>3
  <1>17. Copied'
    <2>1. SUFFICES ASSUME NEW d \in Callers, op[d] = "republish"
          PROVE  /\ Writes(d)' \subseteq Known' \cup forgotten
                 /\ \A u \in todo[d] \cap gated' : copy[d][u] = published'[u]
                 /\ pc'[d] = "wait" /\ item'[d].topic \in gated' => item'[d].payload = published'[item'[d].topic]
      BY <1>2 DEF Copied
    <2>2. /\ Writes(d) \subseteq Known \cup forgotten
          /\ \A u \in todo[d] \cap gated : copy[d][u] = published[u]
          /\ pc[d] = "wait" /\ item[d].topic \in gated => item[d].payload = published[item[d].topic]
      BY <2>1 DEF Facts, Copied
    <2>3. Writes(d)' \subseteq Writes(d) /\ todo[d] \subseteq Topics
      BY <1>6 DEF Facts, IInv, CallersTyped
    <2>4. Writes(d)' \subseteq Known' \cup forgotten
      BY <1>7, <1>10, <2>2, <2>3
    <2>5. \A u \in todo[d] : u \in Writes(d)'
      BY <1>2, <2>1, <2>3 DEF Writes, Writer, Busy
    <2>6. \A u \in todo[d] \cap gated' : copy[d][u] = published'[u]
      BY <1>2, <1>7, <1>10, <2>2, <2>3, <2>5
    <2>7. ASSUME pc'[d] = "wait", item'[d].topic \in gated'
          PROVE  item'[d].payload = published'[item'[d].topic]
      <3>1. d # c /\ pc[d] = "wait" /\ item'[d] = item[d]
        BY <1>3, <2>7 DEF Others
      <3>2. Waits(d)
        BY <2>1, <3>1 DEF Waits, Writer
      <3>3. item[d].topic \in Topics /\ item[d].topic \in Writes(d)
        BY <3>2, WaitersWrite DEF Facts
      <3>4. item[d].topic # t
        BY <1>6, <1>7, <3>1, <3>3
      <3>5. QED
        BY <1>2, <1>10, <2>2, <2>7, <3>1, <3>3, <3>4
    <2>8. QED
      BY <2>4, <2>6, <2>7
  <1>18. Claimed'
    <2>1. SUFFICES ASSUME NEW u \in Topics, told'[u] # None
          PROVE  Lands(wire, retained, u, Reading(told'[u]))
      BY <1>2 DEF Claimed, Settles, Reading
    <2>2. CASE ok /\ u = t
      <3>1. told'[u] = Content(p) /\ p \in Reading(Content(p))
        BY <1>1, <1>13, <2>2 DEF Reading
      <3>2. QED
        BY <1>8, <2>2, <3>1, LandsWider DEF Settles
    <2>3. CASE ~(ok /\ u = t)
      BY <1>13, <2>1, <2>3 DEF Facts, Claimed, Settles
    <2>4. QED
      BY <2>2, <2>3
  <1>19. Traced'
    <2>1. SUFFICES ASSUME qos = 1, NEW u \in Topics \ (Known' \cup forgotten \cup unheard'), ~Pending(u)'
          PROVE  retained[u] \in {Empty, Old}
      BY <1>2 DEF Traced, config
    <2>2. CASE ok /\ u = t
      <3>1. op[c] = "evict"
        BY <1>1, <1>9, <1>10, <1>11, <2>1, <2>2
      <3>2. retained[t] = Empty
        BY <1>1, <1>8, <2>1, <2>2, <3>1 DEF Settles, Lands
      <3>3. QED
        BY <2>2, <3>2
    <2>3. CASE ~(ok /\ u = t)
      <3>1. u \notin Known /\ u \notin unheard /\ ~Pending(u)
        BY <1>2, <1>6, <1>10, <1>11, <2>1, <2>3 DEF evicted
      <3>2. QED
        BY <2>1, <3>1 DEF Facts, Traced
    <2>4. QED
      BY <2>2, <2>3
  <1>20. QED
    BY <1>4, <1>6, <1>12, <1>14, <1>15, <1>16, <1>17, <1>18, <1>19 DEF Facts

-----------------------------------------------------------------------------
(* The broker and the connection.                                            *)

LEMMA CallersOnly ==
  ASSUME UNCHANGED callers
  PROVE  /\ Framed' = Framed /\ Alone' = Alone
         /\ \A c \in Callers : Waits(c)' = Waits(c) /\ Writes(c)' = Writes(c)
  <1>1. \A c \in Callers : Waits(c)' = Waits(c) /\ Writes(c)' = Writes(c)
    BY DEF callers, Waits, Writes, Writer, Busy
  <1>2. Framed' = Framed
    BY DEF callers, Framed
  <1>3. QED
    BY <1>1, <1>2 DEF Alone

LEMMA ReadFacts ==
  ASSUME Facts, Read
  PROVE  Facts'
  <1>1. UNCHANGED <<config, memory, callers, told, settled, forgotten, unheard>>
    BY DEF Read
  <1>2. PICK m \in Messages : m = wire[1]
    BY Typed DEF Facts, Read, BrokerReads
  <1>3. /\ wire \in Seq(Messages) /\ Len(wire) \in Nat \ {0} /\ wire' = Tail(wire)
        /\ Len(wire') = Len(wire) - 1 /\ \A i \in 1..Len(wire') : wire'[i] = wire[i + 1]
        /\ retained' = IF m.retain THEN [retained EXCEPT ![m.topic] = m.payload] ELSE retained
        /\ answer' = IF m.from = None THEN answer ELSE [answer EXCEPT ![m.from] = "accepted"]
    <2>1. wire \in Seq(Messages) /\ wire # <<>>
      BY Typed DEF Facts, Read, BrokerReads
    <2>2. Head(wire) = m
      BY <1>2, <2>1
    <2>3. /\ wire' = Tail(wire)
          /\ retained' = IF m.retain THEN [retained EXCEPT ![m.topic] = m.payload] ELSE retained
          /\ answer' = IF m.from = None THEN answer ELSE [answer EXCEPT ![m.from] = "accepted"]
      BY <2>2 DEF Read, BrokerReads
    <2>4. QED
      BY <2>1, <2>3
  <1>4. IInv'
    BY ReadKeeps DEF Facts
  <1>5. /\ Framed' /\ Alone'
        /\ \A d \in Callers : Waits(d)' = Waits(d) /\ Writes(d)' = Writes(d)
    BY <1>1, CallersOnly DEF Facts
  <1>6. \A u \in Topics : \A S : Lands(wire, retained, u, S) => Lands(wire', retained', u, S)
    <2>1. m = Head(wire) /\ wire # <<>> /\ retained \in [Topics -> Payloads \cup {Empty, Old}]
      BY <1>2, <1>3, Typed DEF Facts
    <2>2. QED
      BY <1>3, <2>1, LandsRead
  <1>7. \A u : \A i \in For(wire', u) : i + 1 \in For(wire, u)
    BY <1>3 DEF For
  <1>8. m.from \in Callers =>
          /\ Waits(m.from) /\ answer[m.from] = "sent" /\ m.retain
          /\ m.topic = item[m.from].topic /\ m.payload = item[m.from].payload
          /\ \A j \in For(wire, m.topic) : j <= 1
    BY <1>2, <1>3 DEF Facts, Sent
  <1>9. m.from \in Callers \cup {None} /\ answer \in [Callers -> Answers]
    BY Typed DEF Messages, Facts
  <1>10. \A d \in Callers : answer'[d] = IF d = m.from THEN "accepted" ELSE answer[d]
    BY <1>3, <1>9, BrokerAssumption
  <1>11. \A u : Pending(u)' = Pending(u)
    BY <1>1, <1>5, <1>8, <1>10 DEF Pending, callers
  <1>12. Said' /\ Unclaimed'
    BY <1>1, <1>5 DEF Facts, Said, Unclaimed
  <1>13. Sent'
    <2>1. SUFFICES ASSUME NEW i \in 1..Len(wire'), NEW d \in Callers, wire'[i].from = d
          PROVE  /\ Waits(d) /\ answer'[d] = "sent" /\ wire'[i].retain
                 /\ wire'[i].topic = item[d].topic /\ wire'[i].payload = item[d].payload
                 /\ \A j \in For(wire', item[d].topic) : j <= i
      BY <1>1, <1>5 DEF Sent, callers
    <2>2. i + 1 \in 1..Len(wire) /\ wire'[i] = wire[i + 1] /\ i \in Nat \ {0}
      BY <1>3
    <2>3. /\ Waits(d) /\ answer[d] = "sent" /\ wire[i + 1].retain
          /\ wire[i + 1].topic = item[d].topic /\ wire[i + 1].payload = item[d].payload
          /\ \A j \in For(wire, item[d].topic) : j <= i + 1
      BY <2>1, <2>2 DEF Facts, Sent
    <2>4. d # m.from
      <3>1. i + 1 \in For(wire, item[d].topic)
        BY <2>2, <2>3 DEF For
      <3>2. QED
        BY <1>8, <2>2, <3>1
    <2>5. ASSUME NEW j \in For(wire', item[d].topic) PROVE j <= i
      <3>1. j \in Nat
        BY <2>5 DEF For
      <3>2. j + 1 \in For(wire, item[d].topic)
        BY <1>7, <2>5
      <3>3. j + 1 <= i + 1
        BY <2>3, <3>2
      <3>4. QED
        BY <2>2, <3>1, <3>3
    <2>6. QED
      BY <1>10, <2>2, <2>3, <2>4, <2>5
  <1>14. Landed'
    <2>1. SUFFICES ASSUME NEW d \in Callers, Waits(d), answer'[d] = "accepted"
          PROVE  /\ Lands(wire', retained', item[d].topic, {item[d].payload})
                 /\ qos = 1 => For(wire', item[d].topic) = {}
      BY <1>1, <1>5 DEF Landed, Settles, callers, config
    <2>2. item[d].topic \in Topics
      BY <2>1, WaitersWrite DEF Facts
    <2>3. CASE d = m.from
      <3>1. 1 \in For(wire, item[d].topic) /\ \A j \in For(wire, item[d].topic) : j <= 1
        BY <1>2, <1>3, <1>8, <2>3 DEF For
      <3>2. Lands(wire, retained, item[d].topic, {wire[1].payload})
        BY <1>3, <3>1, LandsOnLast
      <3>3. wire[1].payload = item[d].payload
        BY <1>2, <1>8, <2>3
      <3>4. For(wire', item[d].topic) = {}
        <4>1. ASSUME NEW j \in For(wire', item[d].topic) PROVE FALSE
          <5>1. j \in 1..Len(wire') /\ j + 1 <= 1
            BY <1>7, <3>1, <4>1 DEF For
          <5>2. QED
            BY <1>3, <5>1
        <4>2. QED
          BY <4>1
      <3>5. QED
        BY <1>6, <2>2, <3>2, <3>3, <3>4
    <2>4. CASE d # m.from
      <3>1. Lands(wire, retained, item[d].topic, {item[d].payload}) /\ (qos = 1 => For(wire, item[d].topic) = {})
        BY <1>10, <2>1, <2>4 DEF Facts, Landed, Settles
      <3>2. QED
        BY <1>6, <1>7, <2>2, <3>1
    <2>5. QED
      BY <2>3, <2>4
  <1>15. Delivered'
    BY <1>1, <1>7, <1>11 DEF Facts, Delivered, config
  <1>16. Gated' /\ Claimed'
    BY <1>1, <1>6, <1>11 DEF Facts, Gated, Claimed, Settles, Reading, memory
  <1>17. Copied'
    BY <1>1, <1>5 DEF Facts, Copied, Known, callers, memory
  <1>18. Traced'
    <2>1. SUFFICES ASSUME qos = 1, NEW u \in Topics \ (Known \cup forgotten \cup unheard), ~Pending(u)
          PROVE  retained'[u] \in {Empty, Old}
      BY <1>1, <1>11 DEF Traced, config, Known, memory
    <2>2. For(wire, u) = {}
      BY <2>1 DEF Facts, Delivered
    <2>3. ~(m.retain /\ m.topic = u)
      BY <1>2, <1>3, <2>2 DEF For
    <2>4. retained'[u] = retained[u]
      BY <1>3, <2>3, Typed DEF Facts, Messages
    <2>5. QED
      BY <2>1, <2>4 DEF Facts, Traced
  <1>19. QED
    BY <1>4, <1>5, <1>12, <1>13, <1>14, <1>15, <1>16, <1>17, <1>18 DEF Facts

LEMMA LoseAnswerFacts ==
  ASSUME Facts, NEW c \in Callers, LoseAnswer(c)
  PROVE  Facts'
  <1>. DEFINE lost(i) == IF wire[i].from = c THEN [wire[i] EXCEPT !.from = None] ELSE wire[i]
  <1>1. /\ UNCHANGED <<config, memory, callers, told, settled, forgotten, retained>>
        /\ unheard' = unheard \cup {item[c].topic}
        /\ wire' = [i \in DOMAIN wire |-> lost(i)] /\ answer' = [answer EXCEPT ![c] = "failed"]
        /\ \E i \in DOMAIN wire : wire[i].from = c
    BY DEF LoseAnswer, AnswerLost
  <1>2. IInv'
    BY LoseAnswerKeeps DEF Facts
  <1>3. /\ Framed' /\ Alone'
        /\ \A d \in Callers : Waits(d)' = Waits(d) /\ Writes(d)' = Writes(d)
    BY <1>1, CallersOnly DEF Facts
  <1>4. wire \in Seq(Messages) /\ Len(wire) \in Nat /\ wire' \in Seq(Messages) /\ answer \in [Callers -> Answers]
    BY <1>2, Typed DEF Facts, IInv, BrokerTyped
  <1>5. Len(wire') = Len(wire) /\ \A i \in 1..Len(wire) : wire'[i] = lost(i) /\ wire[i] \in Messages
    BY <1>1, <1>4
  <1>6. \A i \in 1..Len(wire) :
          /\ wire'[i].retain = wire[i].retain /\ wire'[i].topic = wire[i].topic /\ wire'[i].payload = wire[i].payload
          /\ wire'[i].from = IF wire[i].from = c THEN None ELSE wire[i].from
    BY <1>5 DEF Messages
  <1>. HIDE DEF lost
  <1>7. \A u, S : For(wire', u) = For(wire, u) /\ (Lands(wire, retained, u, S) => Lands(wire', retained', u, S))
    <2>1. \A u, S : Lands(wire, retained, u, S) => Lands(wire', retained, u, S)
      BY <1>5, <1>6, LandsUnnamed
    <2>2. \A u : For(wire', u) = For(wire, u)
      BY <1>5, <1>6 DEF For
    <2>3. QED
      BY <1>1, <2>1, <2>2
  <1>8. answer'[c] = "failed" /\ \A d \in Callers \ {c} : answer'[d] = answer[d]
    BY <1>1, <1>4
  <1>9. \A u : Pending(u) => Pending(u)' \/ u = item[c].topic
    BY <1>1, <1>3, <1>8 DEF Pending, callers
  <1>10. Said' /\ Unclaimed'
    BY <1>1, <1>3 DEF Facts, Said, Unclaimed
  <1>11. Sent'
    <2>1. SUFFICES ASSUME NEW i \in 1..Len(wire'), NEW d \in Callers, wire'[i].from = d
          PROVE  /\ Waits(d) /\ answer'[d] = "sent" /\ wire'[i].retain
                 /\ wire'[i].topic = item[d].topic /\ wire'[i].payload = item[d].payload
                 /\ \A j \in For(wire', item[d].topic) : j <= i
      BY <1>1, <1>3 DEF Sent, callers
    <2>2. i \in 1..Len(wire) /\ wire[i].from = d /\ d # c
      BY <1>5, <1>6, <2>1, BrokerAssumption
    <2>3. /\ Waits(d) /\ answer[d] = "sent" /\ wire[i].retain
          /\ wire[i].topic = item[d].topic /\ wire[i].payload = item[d].payload
          /\ \A j \in For(wire, item[d].topic) : j <= i
      BY <2>2 DEF Facts, Sent
    <2>4. QED
      BY <1>6, <1>7, <1>8, <2>2, <2>3
  <1>12. Landed'
    <2>1. SUFFICES ASSUME NEW d \in Callers, Waits(d), answer'[d] = "accepted"
          PROVE  /\ Lands(wire', retained', item[d].topic, {item[d].payload})
                 /\ qos = 1 => For(wire', item[d].topic) = {}
      BY <1>1, <1>3 DEF Landed, Settles, callers, config
    <2>2. answer[d] = "accepted"
      BY <1>8, <2>1
    <2>3. Lands(wire, retained, item[d].topic, {item[d].payload}) /\ (qos = 1 => For(wire, item[d].topic) = {})
      BY <2>1, <2>2 DEF Facts, Landed, Settles
    <2>4. QED
      BY <1>7, <2>3
  <1>13. Delivered'
    BY <1>1, <1>7, <1>9 DEF Facts, Delivered, config
  <1>14. Gated' /\ Claimed'
    BY <1>1, <1>7, <1>9 DEF Facts, Gated, Claimed, Settles, Reading, memory
  <1>15. Copied'
    BY <1>1, <1>3 DEF Facts, Copied, Known, callers, memory
  <1>16. Traced'
    BY <1>1, <1>9 DEF Facts, Traced, Known, config, memory
  <1>17. QED
    BY <1>2, <1>3, <1>10, <1>11, <1>12, <1>13, <1>14, <1>15, <1>16 DEF Facts

\* Nobody is in a call when the connection changes.
LEMMA NewConnectionFacts ==
  ASSUME Facts, "reconnect" \notin Faults, NewConnection
  PROVE  Facts'
  <1>1. /\ \A c \in Callers : pc[c] = "idle"
        /\ UNCHANGED <<config, memory, callers, forgotten, unheard>> /\ settled' = FALSE
        /\ wire' = <<>> /\ told' = [t \in Topics |-> None]
        /\ retained' = retained \/ retained' = [t \in Topics |-> Empty]
    BY DEF NewConnection, Reconnect, Unsure
  <1>2. IInv'
    BY NewConnectionKeeps DEF Facts
  <1>3. /\ Framed' /\ Alone'
        /\ \A d \in Callers : Waits(d)' = Waits(d) /\ Writes(d)' = Writes(d)
    BY <1>1, CallersOnly DEF Facts
  <1>4. \A d \in Callers : ~Waits(d)
    BY <1>1 DEF Waits
  <1>5. Said' /\ Unclaimed' /\ Claimed'
    BY <1>1 DEF Said, Unclaimed, Claimed, Writes
  <1>6. \A u : For(wire', u) = {} /\ ~Pending(u) /\ ~Pending(u)'
    BY <1>1, <1>3, <1>4 DEF For, Pending
  <1>7. Sent' /\ Landed' /\ Delivered' /\ Gated'
    BY <1>1, <1>3, <1>4, <1>6 DEF Sent, Landed, Delivered, Gated
  <1>8. Copied'
    BY <1>1, <1>3 DEF Facts, Copied, Known, callers, memory
  <1>9. Traced'
    BY <1>1, <1>6 DEF Facts, Traced, Known, config, memory
  <1>10. QED
    BY <1>2, <1>3, <1>5, <1>7, <1>8, <1>9 DEF Facts

LEMMA FactsInitially ==
  ASSUME Init
  PROVE  Facts
  <1>1. IInv
    BY Initially
  <1>2. /\ wire = <<>> /\ told = [t \in Topics |-> None] /\ gated = {} /\ qos \in {0, 1}
        /\ \A c \in Callers : pc[c] = "idle" /\ op[c] = "none" /\ item[c] = NoItem /\ todo[c] = {}
        /\ \A t \in Topics : retained[t] \in {Empty, Old}
    BY StateAssumption DEF Init, BrokerInit, Resolved
  <1>3. \A c \in Callers : Writes(c) = {} /\ ~Waits(c)
    BY <1>2 DEF Writes, Writer, Waits
  <1>4. Framed
    BY <1>2 DEF Framed
  <1>5. Said /\ Alone /\ Unclaimed /\ Claimed
    BY <1>2, <1>3 DEF Said, Alone, Unclaimed, Claimed
  <1>6. \A u : For(wire, u) = {}
    BY <1>2 DEF For
  <1>7. Sent /\ Landed /\ Delivered /\ Gated /\ Copied /\ Traced
    BY <1>2, <1>3, <1>6 DEF Sent, Landed, Delivered, Gated, Copied, Traced
  <1>8. QED
    BY <1>1, <1>4, <1>5, <1>7 DEF Facts

LEMMA FactsStay ==
  ASSUME Facts, OneWriter = TRUE, "reconnect" \notin Faults, [Next]_vars
  PROVE  Facts'
  <1>1. CASE \E c \in Callers : Begin(c)
    BY <1>1, BeginsFacts
  <1>2. CASE \E c \in Callers : Step(c)
    BY <1>2, HandOverFacts, RecordFacts, CallFailsFacts, WalkStepFacts, WalkAnsweredFacts, WalkEndsFacts DEF Step
  <1>3. CASE \E c \in Callers : LoseAnswer(c)
    BY <1>3, LoseAnswerFacts
  <1>4. CASE Read
    BY <1>4, ReadFacts
  <1>5. CASE NewConnection
    BY <1>5, NewConnectionFacts
  <1>6. CASE UNCHANGED vars
    <2>1. UNCHANGED <<broker, config, memory, callers, told, settled, forgotten, unheard>>
      BY <1>6 DEF vars, history
    <2>2. IInv'
      BY <2>1, SameBroker, SameCallers, SameMemory DEF Facts, IInv, MemoryOK, broker
    <2>3. /\ Framed' /\ Alone'
          /\ \A d \in Callers : Waits(d)' = Waits(d) /\ Writes(d)' = Writes(d)
          /\ \A u : Pending(u)' = Pending(u)
      BY <2>1, SameCalls DEF Facts, broker
    <2>4. Said' /\ Unclaimed' /\ Claimed'
      BY <2>1, <2>3 DEF Facts, Said, Unclaimed, Claimed, Settles, Reading, broker
    <2>5. Sent'
      BY <2>1, <2>3 DEF Facts, Sent, callers, broker
    <2>6. Landed'
      BY <2>1, <2>3 DEF Facts, Landed, Settles, callers, broker, config
    <2>7. Delivered' /\ Gated' /\ Traced'
      BY <2>1, <2>3 DEF Facts, Delivered, Gated, Traced, Settles, broker, memory, Known, config
    <2>8. Copied'
      BY <2>1, <2>3 DEF Facts, Copied, callers, memory, Known
    <2>9. QED
      BY <2>2, <2>3, <2>4, <2>5, <2>6, <2>7, <2>8 DEF Facts
  <1>7. QED
    BY <1>1, <1>2, <1>3, <1>4, <1>5, <1>6 DEF Next

\* Where nothing of t is on its way, what it settles on is what is retained.
LEMMA QuietSettles ==
  ASSUME IInv, NEW t \in Topics, Quiet(t)
  PROVE  /\ ~Pending(t) /\ \A S : Settles(t, S) => retained[t] \in S
  <1>1. For(wire, t) = {}
    BY Typed DEF For, Quiet
  <1>2. ~Pending(t)
    BY DEF Quiet, Pending, Busy
  <1>3. QED
    BY <1>1, <1>2 DEF Settles, Lands

\* A StatePublisher call that returned nil means that the broker retains what it said,
\* for every set of callers and topics and every fault but a connection that changes
\* under a call, provided one goroutine at a time publishes a topic, as the type asks
\* (state.go:382-416, 823-839).
THEOREM ToldIsRetained ==
  ASSUME OneWriter = TRUE, "reconnect" \notin Faults
  PROVE  Spec => []AcceptedIsRetained
  <1>1. Init => Facts
    BY FactsInitially
  <1>2. Facts /\ [Next]_vars => Facts'
    BY FactsStay
  <1>3. Facts => AcceptedIsRetained
    <2>1. SUFFICES ASSUME Facts, NEW t \in Topics, told[t] # None, Quiet(t)
          PROVE  Content(retained[t]) = told[t]
      BY DEF AcceptedIsRetained
    <2>2. Settles(t, Reading(told[t]))
      BY <2>1 DEF Facts, Claimed
    <2>3. retained[t] \in Reading(told[t])
      BY <2>1, <2>2, QuietSettles DEF Facts
    <2>4. QED
      BY <2>3 DEF Reading
  <1>4. QED
    BY <1>1, <1>2, <1>3, PTL DEF Spec

\* What the broker retains of this process is in the index, or was forgotten by request,
\* or was published by a call that never heard its answer (state.go:439-452, 693-694).
THEOREM NothingOutOfSight ==
  ASSUME OneWriter = TRUE, "reconnect" \notin Faults
  PROVE  Spec => []NothingLeftBehind
  <1>1. Init => Facts
    BY FactsInitially
  <1>2. Facts /\ [Next]_vars => Facts'
    BY FactsStay
  <1>3. Facts => NothingLeftBehind
    BY QuietSettles DEF Facts, Traced, NothingLeftBehind
  <1>4. QED
    BY <1>1, <1>2, <1>3, PTL DEF Spec

-----------------------------------------------------------------------------
(* What the broker comes to retain of a topic is one chain: the payload it    *)
(* holds, those on the wire, and the bytes in the index, each rendered on the *)
(* memory of the one before.                                                  *)

\* `lc` goes with the value, from p to q.
Carries(p, q) ==
  p \in Payloads /\ q \in Payloads /\ p.kind = "status" /\ q.kind = "status"
    /\ p.val = q.val /\ q.ts >= p.lc => q.lc = p.lc

\* Each message of w for t carries `lc` on from the one before, and the first from what
\* is retained, when that came over this connection.
Linked(w, r, t, seen) ==
  /\ t \in seen => \A j \in For(w, t) : (\A k \in For(w, t) : j <= k) => Carries(r[t], w[j].payload)
  /\ \A i, j \in For(w, t) :
       i < j /\ (\A k \in For(w, t) : k <= i \/ j <= k) => Carries(w[i].payload, w[j].payload)

\* The chain ends with the bytes in the index, unless a call is about to say so.
Latest(t) ==
  ~Pending(t) /\ (t \in current \/ For(wire, t) # {}) => Settles(t, {published[t]})

Chained ==
  \A t \in Topics \ (forgotten \cup unheard) :
    Linked(wire, retained, t, current) /\ Latest(t)

\* A status object in the index has its memo.
Minded == \A t \in Topics : published[t] \in Payloads /\ published[t].kind = "status" => status[t] # None

\* What was rendered carries on from the index as it still is.
Rendered ==
  \A c \in Callers :
    pc[c] = "send" /\ op[c] \in {"publish", "status"} /\ item[c].topic \notin forgotten
      => Carries(published[item[c].topic], item[c].payload)

\* What Republish copied is still in the index, its gate open or not.
Steady ==
  \A c \in Callers : op[c] = "republish" =>
    /\ \A t \in todo[c] \ forgotten : copy[c][t] = published[t]
    /\ pc[c] = "wait" /\ item[c].topic \notin forgotten => item[c].payload = published[item[c].topic]

\* At QoS 0 nobody waits for the broker, and no answer is lost.
Prompt ==
  /\ qos \in {0, 1}
  /\ qos # 1 => unheard = {} /\ \A c \in Callers : answer[c] # "sent"

Lineage == Chained /\ Minded /\ Rendered /\ Steady /\ Prompt

-----------------------------------------------------------------------------
(* The chain, as the wire moves.                                             *)

LEMMA CarriesSame ==
  ASSUME NEW p
  PROVE  Carries(p, p) /\ Carries(p, Empty) /\ \A v : Carries(p, Bytes(v))
  BY PayloadAssumption DEF Carries, Bytes

LEMMA LinkedLike ==
  ASSUME NEW w, NEW v, NEW r, NEW t, NEW seen, Linked(w, r, t, seen),
         For(v, t) = For(w, t), \A i \in For(w, t) : v[i].payload = w[i].payload
  PROVE  Linked(v, r, t, seen)
  BY DEF Linked

LEMMA LinkedBehindOther ==
  ASSUME NEW M, NEW w \in Seq(M), NEW r, NEW t, NEW seen, NEW m \in M,
         ~(m.retain /\ m.topic = t), Linked(w, r, t, seen)
  PROVE  For(Append(w, m), t) = For(w, t) /\ Linked(Append(w, m), r, t, seen)
  <1>. DEFINE v == Append(w, m)
  <1>1. /\ Len(w) \in Nat /\ Len(v) = Len(w) + 1 /\ v[Len(w) + 1] = m
        /\ \A i \in 1..Len(w) : v[i] = w[i]
    OBVIOUS
  <1>. HIDE DEF v
  <1>2. For(v, t) = For(w, t) /\ \A i \in For(w, t) : v[i] = w[i]
    BY <1>1 DEF For
  <1>3. For(v, t) = For(w, t) /\ Linked(v, r, t, seen)
    BY <1>2, LinkedLike
  <1>4. QED
    BY <1>3 DEF v

\* The chain grows by what carries on from its last payload, if it has one.
LEMMA LinkedAfterAppend ==
  ASSUME NEW M, NEW w \in Seq(M), NEW r, NEW t, NEW seen, NEW m \in M, m.retain, m.topic = t,
         Linked(w, r, t, seen), NEW x, Carries(x, m.payload),
         t \in seen \/ For(w, t) # {} => Lands(w, r, t, {x})
  PROVE  Linked(Append(w, m), r, t, seen)
  <1>. DEFINE v == Append(w, m)
              n == Len(w) + 1
  <1>1. /\ Len(w) \in Nat /\ Len(v) = n /\ v[n] = m
        /\ \A i \in 1..Len(w) : v[i] = w[i]
    OBVIOUS
  <1>. HIDE DEF v
  <1>2. /\ For(v, t) = For(w, t) \cup {n}
        /\ \A i \in For(w, t) : i \in Nat /\ i < n /\ v[i] = w[i]
    BY <1>1 DEF For
  <1>. HIDE DEF n
  <1>3. ASSUME t \in seen, NEW j \in For(v, t), \A k \in For(v, t) : j <= k
        PROVE  Carries(r[t], v[j].payload)
    <2>1. CASE j = n
      <3>1. \A k \in For(w, t) : k \in Nat /\ k < n /\ n <= k /\ n \in Nat
        BY <1>1, <1>2, <1>3, <2>1 DEF n
      <3>2. For(w, t) = {}
        BY <3>1
      <3>3. r[t] = x
        BY <1>3, <3>2 DEF Lands
      <3>4. QED
        BY <1>1, <2>1, <3>3
    <2>2. CASE j \in For(w, t)
      BY <1>2, <1>3, <2>2 DEF Linked
    <2>3. QED
      BY <1>2, <2>1, <2>2
  <1>4. ASSUME NEW i \in For(v, t), NEW j \in For(v, t), i < j, \A k \in For(v, t) : k <= i \/ j <= k
        PROVE  Carries(v[i].payload, v[j].payload)
    <2>0. n \in Nat /\ i # j /\ i \in For(w, t)
      <3>1. n \in Nat /\ i # j
        BY <1>1, <1>2, <1>4 DEF n
      <3>2. i # n
        BY <1>2, <1>4, <3>1
      <3>3. QED
        BY <1>2, <3>1, <3>2
    <2>1. CASE j = n
      <3>1. \A k \in For(w, t) : k <= i
        BY <1>2, <1>4, <2>0, <2>1
      <3>2. w[i].payload = x
        BY <2>0, <3>1 DEF Lands
      <3>3. QED
        BY <1>1, <1>2, <2>0, <2>1, <3>2
    <2>2. CASE j \in For(w, t)
      BY <1>2, <1>4, <2>0, <2>2 DEF Linked
    <2>3. QED
      BY <1>2, <2>1, <2>2
  <1>5. Linked(v, r, t, seen)
    BY <1>3, <1>4 DEF Linked
  <1>6. QED
    BY <1>5 DEF v

\* The broker's reading takes its first link.
LEMMA LinkedRead ==
  ASSUME NEW M, NEW w \in Seq(M), NEW r, NEW t, NEW seen,
         w # <<>>, Linked(w, r, t, seen),
         NEW s, s[t] = IF Head(w).retain /\ Head(w).topic = t THEN Head(w).payload ELSE r[t],
         NEW now, t \in now => t \in seen \/ (Head(w).retain /\ Head(w).topic = t)
  PROVE  /\ Linked(Tail(w), s, t, now)
         /\ s[t] = r[t] \/ (t \in seen => Carries(r[t], s[t]))
  <1>. DEFINE v == Tail(w)
  <1>1. /\ Len(w) \in Nat \ {0} /\ Len(v) = Len(w) - 1 /\ Head(w) = w[1] /\ w[1] \in M
        /\ \A i \in 1..Len(v) : v[i] = w[i + 1]
    OBVIOUS
  <1>. HIDE DEF v
  <1>2. \A i \in For(v, t) : i \in Nat \ {0} /\ i + 1 \in For(w, t) /\ v[i] = w[i + 1]
    BY <1>1 DEF For
  <1>3. \A j \in For(w, t) : j \in Nat \ {0} /\ (j # 1 => j - 1 \in For(v, t))
    BY <1>1 DEF For
  <1>4. IF 1 \in For(w, t) THEN s[t] = w[1].payload ELSE s[t] = r[t] /\ (t \in now => t \in seen)
    <2>1. (w[1].retain /\ w[1].topic = t) <=> 1 \in For(w, t)
      BY <1>1 DEF For
    <2>2. QED
      BY <1>1, <2>1
  <1>5. ASSUME t \in now, NEW j \in For(v, t), \A k \in For(v, t) : j <= k
        PROVE  Carries(s[t], v[j].payload)
    <2>1. \A k \in For(w, t) : k <= 1 \/ j + 1 <= k
      <3>1. SUFFICES ASSUME NEW k \in For(w, t), k # 1 PROVE j + 1 <= k
        OBVIOUS
      <3>2. k - 1 \in For(v, t) /\ j <= k - 1
        BY <1>3, <1>5, <3>1
      <3>3. QED
        BY <1>2, <1>3, <3>2
    <2>2. CASE 1 \in For(w, t)
      <3>1. 1 < j + 1 /\ j + 1 \in For(w, t)
        BY <1>2
      <3>2. Carries(w[1].payload, w[j + 1].payload)
        BY <2>1, <2>2, <3>1 DEF Linked
      <3>3. QED
        BY <1>2, <1>4, <2>2, <3>2
    <2>3. CASE 1 \notin For(w, t)
      <3>1. \A k \in For(w, t) : j + 1 <= k
        BY <1>3, <2>1, <2>3
      <3>2. Carries(r[t], w[j + 1].payload)
        BY <1>2, <1>4, <1>5, <2>3, <3>1 DEF Linked
      <3>3. QED
        BY <1>2, <1>4, <2>3, <3>2
    <2>4. QED
      BY <2>2, <2>3
  <1>6. ASSUME NEW i \in For(v, t), NEW j \in For(v, t), i < j, \A k \in For(v, t) : k <= i \/ j <= k
        PROVE  Carries(v[i].payload, v[j].payload)
    <2>1. \A k \in For(w, t) : k <= i + 1 \/ j + 1 <= k
      <3>1. SUFFICES ASSUME NEW k \in For(w, t), k # 1 PROVE k <= i + 1 \/ j + 1 <= k
        BY <1>2
      <3>2. k - 1 <= i \/ j <= k - 1
        BY <1>3, <1>6, <3>1
      <3>3. QED
        BY <1>2, <1>3, <3>2
    <2>2. i + 1 < j + 1
      BY <1>2, <1>6
    <2>3. QED
      BY <1>2, <2>1, <2>2 DEF Linked
  <1>7. Linked(v, s, t, now)
    BY <1>5, <1>6 DEF Linked
  <1>8. s[t] = r[t] \/ (t \in seen => Carries(r[t], s[t]))
    <2>1. CASE 1 \in For(w, t)
      <3>1. \A k \in For(w, t) : 1 <= k
        BY <1>3
      <3>2. QED
        BY <1>4, <2>1, <3>1 DEF Linked
    <2>2. QED
      BY <1>4, <2>1
  <1>9. QED
    BY <1>1, <1>7, <1>8 DEF v

-----------------------------------------------------------------------------
(* Where the wire stands still.                                              *)

LEMMA ChainStays ==
  ASSUME Chained, UNCHANGED <<retained, wire, current>>,
         forgotten \subseteq forgotten', unheard \subseteq unheard',
         \A t \in Topics \ forgotten' : published'[t] = published[t],
         \A t \in Topics : Pending(t) => Pending(t)' \/ t \in unheard'
  PROVE  Chained'
  <1>1. SUFFICES ASSUME NEW t \in Topics \ (forgotten' \cup unheard')
        PROVE  /\ Linked(wire, retained, t, current)
               /\ ~Pending(t)' /\ (t \in current \/ For(wire, t) # {}) => Lands(wire, retained, t, {published'[t]})
    BY DEF Chained, Latest, Settles
  <1>2. Linked(wire, retained, t, current) /\ Latest(t)
    BY <1>1 DEF Chained
  <1>3. QED
    BY <1>1, <1>2 DEF Latest, Settles

\* Nothing of the chain is touched: a call suppressed, a Reset, a stutter.
LEMMA SameLineage ==
  ASSUME Facts, Lineage, UNCHANGED <<broker, config, published, status, callers, forgotten, current, unheard>>
  PROVE  Lineage'
  <1>1. \A u : Pending(u)' = Pending(u)
    BY SameCalls DEF broker
  <1>2. Chained'
    BY <1>1, ChainStays DEF Lineage, broker
  <1>3. Minded' /\ Prompt'
    BY DEF Lineage, Minded, Prompt, broker, config
  <1>4. Rendered' /\ Steady'
    BY DEF Lineage, Rendered, Steady, callers
  <1>5. QED
    BY <1>2, <1>3, <1>4 DEF Lineage

LEMMA ForgetLineage ==
  ASSUME Facts, Lineage, NEW S \in SUBSET Topics, Forget(S)
  PROVE  Lineage'
  <1>1. /\ UNCHANGED <<broker, config, callers, current, unheard>>
        /\ forgotten' = forgotten \cup S
        /\ \A t \in Topics : published'[t] = IF t \in S THEN Empty ELSE published[t]
        /\ \A t \in Topics : status'[t] = IF t \in S THEN None ELSE status[t]
    BY DEF Forget
  <1>2. \A u : Pending(u)' = Pending(u)
    BY <1>1, SameCalls DEF broker
  <1>3. Chained'
    BY <1>1, <1>2, ChainStays DEF Lineage, broker
  <1>4. Minded'
    BY <1>1, PayloadAssumption DEF Lineage, Minded
  <1>5. Prompt'
    BY <1>1 DEF Lineage, Prompt, broker, config
  <1>6. Rendered'
    <2>1. \A c \in Callers : pc[c] = "send" => item[c].topic \in Topics
      BY DEF Facts, IInv, ItemFits
    <2>2. QED
      BY <1>1, <2>1 DEF Lineage, Rendered, callers
  <1>7. Steady'
    <2>1. \A c \in Callers : op[c] = "republish" =>
            todo[c] \subseteq Topics /\ (pc[c] = "wait" => item[c].topic \in Topics)
      BY DEF Facts, IInv, ItemFits, CallersTyped
    <2>2. QED
      BY <1>1, <2>1 DEF Lineage, Steady, callers
  <1>8. QED
    BY <1>3, <1>4, <1>5, <1>6, <1>7 DEF Lineage

\* c, idle so far, has rendered a payload, or lists the topics of a walk.
LEMMA BeginLineage ==
  ASSUME Facts, Lineage, NEW c \in Callers, pc[c] = "idle",
         UNCHANGED <<broker, config, memory, forgotten, current, unheard>>, Others(c),
         pc'[c] \in {"send", "walk"},
         pc'[c] = "send" /\ op'[c] \in {"publish", "status"}
           => Carries(published[item'[c].topic], item'[c].payload),
         op'[c] = "republish" => pc'[c] = "walk" /\ copy'[c] = published
  PROVE  Lineage'
  <1>1. \A d \in Callers \ {c} : Waits(d)' = Waits(d)
    BY OthersWrite
  <1>2. ~Waits(c) /\ ~Waits(c)'
    BY DEF Waits
  <1>3. \A u : Pending(u)' = Pending(u)
    BY <1>1, <1>2 DEF Pending, Others
  <1>4. Chained'
    BY <1>3, ChainStays DEF Lineage, broker, memory
  <1>5. Minded' /\ Prompt'
    BY DEF Lineage, Minded, Prompt, broker, config, memory
  <1>6. Rendered'
    BY DEF Lineage, Rendered, Others, memory
  <1>7. Steady'
    BY DEF Lineage, Steady, Others, memory
  <1>8. QED
    BY <1>4, <1>5, <1>6, <1>7 DEF Lineage

LEMMA PrepareLineage ==
  ASSUME Facts, Lineage, NEW c \in Callers, pc[c] = "idle", NEW t \in Topics,
         NEW o \in {"publish", "status", "pulse"}, NEW p, Prepare(c, o, t, p),
         o # "pulse" => Carries(published[t], p)
  PROVE  Lineage'
  <1>1. /\ Goto(c, o, "send", [topic |-> t, payload |-> p], {})
        /\ UNCHANGED <<broker, config, memory, copy, forgotten, current, unheard>>
    BY DEF Prepare
  <1>2. /\ Others(c)
        /\ pc'[c] = "send" /\ op'[c] = o /\ item'[c] = [topic |-> t, payload |-> p]
    BY <1>1, GotoOthers DEF Facts, broker
  <1>3. QED
    BY <1>1, <1>2, BeginLineage

\* `lc` is computed from the memo of the bytes in the index.
LEMMA ChangedAtCarries ==
  ASSUME IInv, Minded, NEW t \in Topics, NEW v \in Vals, NEW x \in Exts, NEW ts \in Times
  PROVE  Carries(published[t], StatusObject(v, x, ts, ChangedAt(status[t], v, ts)))
  <1>. DEFINE o == StatusObject(v, x, ts, ChangedAt(status[t], v, ts))
  <1>1. o.val = v /\ o.ts = ts /\ o.lc = ChangedAt(status[t], v, ts)
    BY DEF StatusObject
  <1>. HIDE DEF o
  <1>2. SUFFICES ASSUME published[t] \in Payloads, published[t].kind = "status",
                        published[t].val = o.val, o.ts >= published[t].lc
        PROVE  o.lc = published[t].lc
    BY DEF Carries, o
  <1>3. /\ status[t] # None
        /\ status[t] = [val |-> published[t].val, ext |-> published[t].ext, lc |-> published[t].lc]
    BY <1>2 DEF Minded, IInv, MemoFits
  <1>4. status[t].val = published[t].val /\ status[t].lc = published[t].lc
    BY <1>3
  <1>5. published[t].lc <= ts
    <2>1. published[t].lc \in Times
      BY <1>2, MemoTyped DEF Memos
    <2>2. QED
      BY <1>1, <1>2, <2>1, StateAssumption
  <1>6. QED
    BY <1>1, <1>2, <1>3, <1>4, <1>5 DEF ChangedAt

LEMMA PublishBytesLineage ==
  ASSUME Facts, Lineage, NEW c \in Callers, pc[c] = "idle", NEW t \in Topics, NEW v \in Vals,
         PublishBytes(c, t, v)
  PROVE  Lineage'
  <1>1. CASE Suppress(t, Bytes(v))
    BY <1>1, SameLineage DEF Suppress, memory
  <1>2. CASE Prepare(c, "publish", t, Bytes(v))
    BY <1>2, PrepareLineage, CarriesSame
  <1>3. QED
    BY <1>1, <1>2 DEF PublishBytes

LEMMA PublishStatusLineage ==
  ASSUME Facts, Lineage, NEW c \in Callers, pc[c] = "idle", NEW t \in Topics, NEW v \in Vals,
         NEW x \in Exts, NEW ts \in Times, PublishStatus(c, t, v, x, ts)
  PROVE  Lineage'
  <1>. DEFINE o == StatusObject(v, x, ts, ChangedAt(status[t], v, ts))
  <1>1. Suppress(t, o) \/ Prepare(c, "status", t, o)
    BY DEF PublishStatus
  <1>2. Carries(published[t], o)
    BY ChangedAtCarries DEF Facts, Lineage
  <1>. HIDE DEF o
  <1>3. CASE Suppress(t, o)
    BY <1>3, SameLineage DEF Suppress, memory
  <1>4. CASE Prepare(c, "status", t, o)
    BY <1>2, <1>4, PrepareLineage
  <1>5. QED
    BY <1>1, <1>3, <1>4

LEMMA EvictLineage ==
  ASSUME Facts, Lineage, NEW c \in Callers, pc[c] = "idle", NEW S \in SUBSET Topics, Evict(c, S)
  PROVE  Lineage'
  <1>1. /\ Goto(c, "evict", "walk", NoItem, S)
        /\ UNCHANGED <<broker, config, memory, copy, forgotten, current, unheard>>
    BY DEF Evict
  <1>2. Others(c) /\ pc'[c] = "walk" /\ op'[c] = "evict"
    BY <1>1, GotoOthers DEF Facts, broker
  <1>3. QED
    BY <1>1, <1>2, BeginLineage

LEMMA RepublishLineage ==
  ASSUME Facts, Lineage, NEW c \in Callers, pc[c] = "idle", Republish(c)
  PROVE  Lineage'
  <1>0. PICK S \in SUBSET Topics : S = Known
    BY DEF Known
  <1>1. /\ Goto(c, "republish", "walk", NoItem, S) /\ copy' = [copy EXCEPT ![c] = published]
        /\ UNCHANGED <<broker, config, memory, forgotten, current, unheard>>
    BY <1>0 DEF Republish
  <1>2. /\ copy'[c] = published
        /\ \A d \in Callers \ {c} : copy'[d] = copy[d] /\ answer'[d] = answer[d]
    BY <1>1 DEF broker, Facts, IInv, CallersTyped
  <1>3. Others(c) /\ pc'[c] = "walk" /\ op'[c] = "republish"
    BY <1>1, <1>2, GotoOthers DEF Facts
  <1>4. QED
    BY <1>1, <1>2, <1>3, BeginLineage

LEMMA BeginsLineage ==
  ASSUME Facts, Lineage, NEW c \in Callers, Begin(c)
  PROVE  Lineage'
  <1>1. \A o \in Offers : o[1] \in Topics /\ o[2] \in Vals /\ o[3] \in Exts /\ o[4] \in Times
    BY StateAssumption
  <1>2. pc[c] = "idle"
    BY DEF Begin, Calls
  <1>3. CASE \E o \in Offers : PublishBytes(c, o[1], o[2])
    BY <1>1, <1>2, <1>3, PublishBytesLineage
  <1>4. CASE \E o \in Offers : PublishStatus(c, o[1], o[2], o[3], o[4])
    BY <1>1, <1>2, <1>4, PublishStatusLineage
  <1>5. CASE \E o \in Offers : PublishValue(c, o[1], o[2], o[4])
    <2>1. PICK o \in Offers : PublishValue(c, o[1], o[2], o[4])
      BY <1>5
    <2>2. PublishStatus(c, o[1], o[2], None, o[4]) \/ PublishBytes(c, o[1], o[2])
      BY <2>1 DEF PublishValue
    <2>3. QED
      BY <1>1, <1>2, <2>2, StateAssumption, PublishStatusLineage, PublishBytesLineage
  <1>6. CASE \E t \in Topics : Pulse(c, t)
    <2>1. PICK t \in Topics : Prepare(c, "pulse", t, Occurrence)
      BY <1>6 DEF Pulse
    <2>2. QED
      BY <1>2, <2>1, PrepareLineage
  <1>7. CASE \E S \in {Topics, Topics \ Guarded} : Evict(c, S)
    <2>1. PICK S \in SUBSET Topics : Evict(c, S)
      BY <1>7
    <2>2. QED
      BY <1>2, <2>1, EvictLineage
  <1>8. CASE EvictPrefix(c)
    <2>1. Known \cap Under \in SUBSET Topics
      BY DEF Known
    <2>2. QED
      BY <1>2, <1>8, <2>1, EvictLineage DEF EvictPrefix
  <1>9. CASE Republish(c)
    BY <1>2, <1>9, RepublishLineage
  <1>10. CASE \E t \in Topics : Forget({t})
    <2>1. PICK S \in SUBSET Topics : Forget(S)
      BY <1>10
    <2>2. QED
      BY <2>1, ForgetLineage
  <1>11. CASE Reset
    BY <1>11, SameLineage DEF Reset
  <1>12. QED
    BY <1>3, <1>4, <1>5, <1>6, <1>7, <1>8, <1>9, <1>10, <1>11 DEF Begin

-----------------------------------------------------------------------------
(* A payload is handed over, and the chain grows.                            *)

LEMMA SendingLineage ==
  ASSUME Facts, Lineage, NEW c \in Callers, pc[c] # "wait", pc'[c] = "wait", UNCHANGED <<config, memory, history>>,
         \A d \in Callers \ {c} : pc'[d] = pc[d] /\ op'[d] = op[d] /\ item'[d] = item[d],
         op'[c] = op[c],
         NEW t \in Topics, NEW p \in Sendable, item'[c].topic = t,
         NEW retain \in BOOLEAN, retain <=> Writer(c),
         retain => t \in Writes(c) /\ p \in Payloads \cup {Empty} /\ (t \notin forgotten => Carries(published[t], p)),
         NEW q, q = IF op[c] = "pulse" THEN 0 ELSE qos, Send(c, t, p, q, retain) \/ Refuse(c)
  PROVE  Chained' /\ Prompt'
  <1>1. \A d \in Callers \ {c} : Waits(d)' = Waits(d)
    BY DEF Waits, Writer
  <1>2. ~Waits(c) /\ Waits(c)' = retain
    BY DEF Waits, Writer
  <1>3. wire \in Seq(Messages) /\ answer \in [Callers -> Answers]
    BY Typed DEF Facts
  <1>4. CASE Refuse(c)
    <2>1. UNCHANGED <<retained, wire>> /\ answer' = [answer EXCEPT ![c] = "failed"]
      BY <1>4 DEF Refuse
    <2>2. answer'[c] = "failed" /\ \A d \in Callers \ {c} : answer'[d] = answer[d]
      BY <1>3, <2>1
    <2>3. \A u \in Topics : Pending(u) => Pending(u)'
      BY <1>1, <1>2, <2>2 DEF Pending
    <2>4. Chained'
      BY <2>1, <2>3, ChainStays DEF Lineage, history, memory
    <2>5. Prompt'
      BY <2>2 DEF Lineage, Prompt, config, history
    <2>6. QED
      BY <2>4, <2>5
  <1>5. CASE Send(c, t, p, q, retain)
    <2>0. PICK m \in Messages : m = [from |-> IF q = 0 THEN None ELSE c, topic |-> t, payload |-> p, retain |-> retain]
      <3>1. PICK f \in Callers \cup {None} : f = IF q = 0 THEN None ELSE c
        OBVIOUS
      <3>2. [from |-> f, topic |-> t, payload |-> p, retain |-> retain] \in Messages
        BY DEF Messages
      <3>3. QED
        BY <3>1, <3>2
    <2>1. /\ retained' = retained /\ wire' = Append(wire, m)
          /\ answer'[c] = IF q = 0 THEN "accepted" ELSE "sent"
          /\ \A d \in Callers \ {c} : answer'[d] = answer[d]
      BY <1>3, <1>5, <2>0 DEF Send, Message
    <2>2. Prompt'
      BY <2>1 DEF Lineage, Prompt, config, history
    <2>3. \A u \in Topics : Pending(u)' <=> Pending(u) \/ (retain /\ u = t)
      BY <1>1, <1>2, <2>1 DEF Pending
    <2>4. SUFFICES ASSUME NEW u \in Topics \ (forgotten \cup unheard)
          PROVE  /\ Linked(wire', retained, u, current)
                 /\ ~Pending(u)' /\ (u \in current \/ For(wire', u) # {}) => Lands(wire', retained, u, {published[u]})
      BY <2>1, <2>2 DEF Chained, Latest, Settles, memory, history
    <2>5. Linked(wire, retained, u, current) /\ Latest(u)
      BY <2>4 DEF Lineage, Chained
    <2>6. CASE ~(retain /\ u = t)
      <3>1. ~(m.retain /\ m.topic = u)
        BY <2>0, <2>6
      <3>2. For(wire', u) = For(wire, u) /\ Linked(wire', retained, u, current)
        BY <1>3, <2>1, <2>5, <3>1, LinkedBehindOther
      <3>3. \A S : Lands(wire, retained, u, S) => Lands(wire', retained, u, S)
        BY <1>3, <2>1, <3>1, LandsBehindOther
      <3>4. QED
        BY <2>3, <2>5, <2>6, <3>2, <3>3 DEF Latest, Settles
    <2>7. CASE retain /\ u = t
      <3>1. ~Pending(u)
        BY <1>2, <2>7, PendingFor
      <3>2. u \in current \/ For(wire, u) # {} => Lands(wire, retained, u, {published[u]})
        BY <2>5, <3>1 DEF Latest, Settles
      <3>3. m.retain /\ m.topic = u /\ Carries(published[u], m.payload)
        BY <2>0, <2>4, <2>7
      <3>4. Linked(wire', retained, u, current)
        BY <1>3, <2>1, <2>5, <3>2, <3>3, LinkedAfterAppend
      <3>5. QED
        BY <2>3, <2>7, <3>4
    <2>8. QED
      BY <2>6, <2>7
  <1>6. QED
    BY <1>4, <1>5

LEMMA HandOverLineage ==
  ASSUME Facts, Lineage, NEW c \in Callers, HandOver(c)
  PROVE  Lineage'
  <1>. DEFINE t == item[c].topic
              p == item[c].payload
  <1>1. /\ pc[c] = "send" /\ t \in Topics /\ p \in Sendable /\ op[c] \in {"publish", "status", "pulse"}
    <2>1. pc[c] = "send" /\ t \in Topics /\ op[c] \in {"publish", "status", "pulse"}
      BY DEF HandOver, Facts, IInv, ItemFits
    <2>2. item[c] \in {NoItem} \cup [topic : Topics, payload : Sendable]
      BY Typed DEF Facts
    <2>3. item[c] # NoItem
      BY <2>1, BrokerAssumption DEF NoItem
    <2>4. QED
      BY <2>1, <2>2, <2>3
  <1>2. op[c] # "pulse" => p \in Payloads /\ (t \notin forgotten => Carries(published[t], p))
    BY <1>1, BytesTyped DEF Facts, IInv, ItemFits, Lineage, Rendered
  <1>3. /\ UNCHANGED <<config, memory, op, item, todo, copy, history>>
        /\ pc'[c] = "wait" /\ \A d \in Callers \ {c} : pc'[d] = pc[d]
    BY DEF HandOver, Facts, IInv, CallersTyped
  <1>4. PICK retain \in BOOLEAN : retain <=> op[c] # "pulse"
    OBVIOUS
  <1>5. PICK q : q = IF op[c] = "pulse" THEN 0 ELSE qos
    OBVIOUS
  <1>6. Send(c, t, p, q, retain) \/ Refuse(c)
    <2>1. (op[c] # "pulse") = retain
      BY <1>4
    <2>2. Send(c, t, p, IF op[c] = "pulse" THEN 0 ELSE qos, op[c] # "pulse") \/ Refuse(c)
      BY DEF HandOver
    <2>3. QED
      BY <1>5, <2>1, <2>2
  <1>7. (retain <=> Writer(c)) /\ (retain => t \in Writes(c))
    BY <1>1, <1>4 DEF Writer, Writes, Busy
  <1>8. item'[c].topic = t
    BY <1>3
  <1>. HIDE DEF t, p
  <1>9. Chained' /\ Prompt'
    <2>1. /\ pc[c] # "wait" /\ pc'[c] = "wait" /\ op'[c] = op[c]
          /\ \A d \in Callers \ {c} : pc'[d] = pc[d] /\ op'[d] = op[d] /\ item'[d] = item[d]
      BY <1>1, <1>3
    <2>2. retain => t \in Writes(c) /\ p \in Payloads \cup {Empty} /\ (t \notin forgotten => Carries(published[t], p))
      BY <1>2, <1>4, <1>7
    <2>3. UNCHANGED <<config, memory, history>> /\ t \in Topics /\ p \in Sendable /\ (retain <=> Writer(c))
      BY <1>1, <1>3, <1>7
    <2>4. QED
      BY <1>5, <1>6, <1>8, <2>1, <2>2, <2>3, SendingLineage
  <1>10. Minded'
    BY <1>3 DEF Lineage, Minded, memory
  <1>11. Rendered' /\ Steady'
    BY <1>1, <1>3 DEF Lineage, Rendered, Steady, memory, history
  <1>12. QED
    BY <1>9, <1>10, <1>11 DEF Lineage

LEMMA WalkStepLineage ==
  ASSUME Facts, Lineage, NEW c \in Callers, WalkStep(c)
  PROVE  Lineage'
  <1>1. PICK t \in todo[c] :
          LET p == IF op[c] = "evict" THEN Empty ELSE copy[c][t]
          IN  IF Collides(t)
              THEN /\ todo' = [todo EXCEPT ![c] = @ \ {t}]
                   /\ UNCHANGED <<broker, config, memory, pc, op, item, copy, history>>
              ELSE /\ Send(c, t, p, qos, TRUE) \/ Refuse(c)
                   /\ pc' = [pc EXCEPT ![c] = "wait"]
                   /\ item' = [item EXCEPT ![c] = [topic |-> t, payload |-> p]]
                   /\ todo' = [todo EXCEPT ![c] = @ \ {t}]
                   /\ UNCHANGED <<config, memory, op, copy, history>>
    BY DEF WalkStep
  <1>. DEFINE p == IF op[c] = "evict" THEN Empty ELSE copy[c][t]
  <1>2. t \in Topics /\ p \in Payloads \cup {Empty} /\ p \in Sendable
    BY DEF Facts, IInv, CallersTyped, Sendable
  <1>3. pc[c] = "walk" /\ op[c] \in {"evict", "republish"}
    BY DEF WalkStep, Facts, IInv, ItemFits
  <1>4. /\ todo'[c] = todo[c] \ {t}
        /\ \A d \in Callers \ {c} : todo'[d] = todo[d]
        /\ UNCHANGED <<config, memory, op, copy, history>>
    BY <1>1 DEF Facts, IInv, CallersTyped
  <1>5. Minded'
    BY <1>4 DEF Lineage, Minded, memory
  <1>6. p = IF op[c] = "evict" THEN Empty ELSE copy[c][t]
    OBVIOUS
  <1>7. CASE Collides(t)
    <2>1. UNCHANGED <<broker, pc, item>>
      BY <1>1, <1>7
    <2>2. \A u : Pending(u)' = Pending(u)
      BY <1>4, <2>1 DEF Pending, Waits, Writer, broker
    <2>3. Chained'
      BY <1>4, <2>1, <2>2, ChainStays DEF Lineage, broker, history, memory
    <2>4. Prompt' /\ Rendered'
      BY <1>4, <2>1 DEF Lineage, Prompt, Rendered, broker, config, memory, history
    <2>5. Steady'
      BY <1>4, <2>1 DEF Lineage, Steady, memory, history
    <2>6. QED
      BY <1>5, <2>3, <2>4, <2>5 DEF Lineage
  <1>8. CASE ~Collides(t)
    <2>1. /\ Send(c, t, p, qos, TRUE) \/ Refuse(c)
          /\ pc' = [pc EXCEPT ![c] = "wait"]
          /\ item' = [item EXCEPT ![c] = [topic |-> t, payload |-> p]]
      BY <1>1, <1>8
    <2>. HIDE DEF p
    <2>2. /\ pc'[c] = "wait" /\ item'[c] = [topic |-> t, payload |-> p] /\ op'[c] = op[c]
          /\ \A d \in Callers \ {c} : pc'[d] = pc[d] /\ op'[d] = op[d] /\ item'[d] = item[d]
      BY <1>4, <2>1 DEF Facts, IInv, CallersTyped
    <2>3. Writer(c) /\ t \in Writes(c)
      BY <1>2, <1>3 DEF Writer, Writes, Busy
    <2>4. op[c] = "republish" /\ t \notin forgotten => p = published[t]
      BY <1>6 DEF Lineage, Steady
    <2>5. t \notin forgotten => Carries(published[t], p)
      BY <1>3, <1>6, <2>4, CarriesSame
    <2>6. Chained' /\ Prompt'
      <3>1. PICK retain \in BOOLEAN : retain = TRUE
        OBVIOUS
      <3>2. PICK q : q = IF op[c] = "pulse" THEN 0 ELSE qos
        OBVIOUS
      <3>3. Send(c, t, p, q, retain) \/ Refuse(c)
        BY <1>3, <2>1, <3>1, <3>2
      <3>4. /\ retain <=> Writer(c)
            /\ retain => t \in Writes(c) /\ p \in Payloads \cup {Empty} /\ (t \notin forgotten => Carries(published[t], p))
        BY <1>2, <2>3, <2>5, <3>1
      <3>5. /\ pc[c] # "wait" /\ pc'[c] = "wait" /\ op'[c] = op[c] /\ item'[c].topic = t
            /\ UNCHANGED <<config, memory, history>>
            /\ \A d \in Callers \ {c} : pc'[d] = pc[d] /\ op'[d] = op[d] /\ item'[d] = item[d]
        BY <1>3, <1>4, <2>2
      <3>6. QED
        BY <1>2, <3>2, <3>3, <3>4, <3>5, SendingLineage
    <2>7. Rendered'
      BY <1>4, <2>2 DEF Lineage, Rendered, memory, history
    <2>8. Steady'
      <3>1. SUFFICES ASSUME NEW d \in Callers, op[d] = "republish"
            PROVE  /\ \A u \in todo'[d] \ forgotten : copy[d][u] = published[u]
                   /\ pc'[d] = "wait" /\ item'[d].topic \notin forgotten => item'[d].payload = published[item'[d].topic]
        BY <1>4 DEF Steady, memory, history
      <3>2. CASE d = c
        <4>1. item'[c].topic = t /\ item'[c].payload = p
          BY <2>2
        <4>2. QED
          BY <1>4, <2>4, <3>1, <3>2, <4>1 DEF Lineage, Steady
      <3>3. CASE d # c
        BY <1>4, <2>2, <3>1, <3>3 DEF Lineage, Steady
      <3>4. QED
        BY <3>2, <3>3
    <2>9. QED
      BY <1>5, <2>6, <2>7, <2>8 DEF Lineage
  <1>9. QED
    BY <1>7, <1>8

-----------------------------------------------------------------------------
(* A call ends: the index takes the last link.                               *)

LEMMA RecordLineage ==
  ASSUME Facts, Lineage, NEW c \in Callers, Record(c)
  PROVE  Lineage'
  <1>. DEFINE t == item[c].topic
              p == item[c].payload
              memo == [val |-> p.val, ext |-> p.ext, lc |-> p.lc]
  <1>1. /\ t \in Topics /\ p \in Payloads /\ Waits(c) /\ t \in Writes(c) /\ answer[c] = "accepted"
        /\ op[c] = "publish" => p.kind = "bytes"
    BY BytesTyped, WaitersWrite DEF Record, Facts, IInv, ItemFits, Waits, Writer, Bytes
  <1>2. /\ published' = [published EXCEPT ![t] = p]
        /\ status' = [status EXCEPT ![t] = IF op[c] = "publish" THEN None ELSE memo]
        /\ forgotten' = IF \E i \in DOMAIN wire : wire[i].topic = t THEN forgotten ELSE forgotten \ {t}
        /\ unheard' = unheard \ {t} /\ UNCHANGED <<retained, wire, config, current>>
    BY DEF Record, Remember, Heard
  <1>3. /\ Others(c) /\ pc'[c] = "idle" /\ op'[c] = "none"
        /\ answer'[c] = "none"
    <2>1. Goto(c, "none", "idle", NoItem, {}) /\ UNCHANGED copy /\ Answered(c)
      BY DEF Record, Done
    <2>2. answer'[c] = "none" /\ \A d \in Callers \ {c} : copy'[d] = copy[d] /\ answer'[d] = answer[d]
      BY <2>1, Typed DEF Answered, Facts
    <2>3. QED
      BY <2>1, <2>2, GotoOthers DEF Facts
  <1>4. op[c] # "publish" => memo # None
    BY <1>1, MemoTyped, PayloadAssumption DEF Record, Facts, IInv, ItemFits
  <1>. HIDE DEF t, p, memo
  <1>5. \A d \in Callers \ {c} : /\ t \notin Writes(d) /\ Waits(d)' = Waits(d)
    BY <1>1, <1>3, OthersWrite DEF Facts, Alone
  <1>6. Settles(t, {p}) /\ (qos = 1 => For(wire, t) = {})
    BY <1>1 DEF Facts, Landed, t, p
  <1>7. published'[t] = p /\ \A u \in Topics \ {t} : published'[u] = published[u] /\ status'[u] = status[u]
    BY <1>1, <1>2 DEF Facts, IInv, MemoryTyped
  <1>8. Chained'
    <2>1. SUFFICES ASSUME NEW u \in Topics \ (forgotten' \cup unheard')
          PROVE  /\ Linked(wire, retained, u, current)
                 /\ ~Pending(u)' /\ (u \in current \/ For(wire, u) # {}) => Lands(wire, retained, u, {published'[u]})
      BY <1>2 DEF Chained, Latest, Settles
    <2>2. CASE u # t
      <3>1. Linked(wire, retained, u, current) /\ Latest(u) /\ published'[u] = published[u]
        BY <1>2, <1>7, <2>1, <2>2 DEF Lineage, Chained
      <3>2. Pending(u) => Pending(u)'
        <4>1. SUFFICES ASSUME NEW d \in Callers, Waits(d), item[d].topic = u, answer[d] # "failed" PROVE Pending(u)'
          BY DEF Pending
        <4>2. d # c
          BY <2>2, <4>1 DEF t
        <4>3. QED
          BY <1>3, <1>5, <4>1, <4>2 DEF Pending, Others
      <3>3. QED
        BY <2>1, <3>1, <3>2 DEF Latest, Settles
    <2>3. CASE u = t
      <3>1. Lands(wire, retained, u, {published'[u]})
        BY <1>6, <1>7, <2>3 DEF Settles
      <3>2. CASE For(wire, t) = {}
        BY <2>3, <3>1, <3>2 DEF Linked
      <3>3. CASE For(wire, t) # {}
        <4>1. \E i \in DOMAIN wire : wire[i].topic = t
          <5>1. wire \in Seq(Messages)
            BY Typed DEF Facts
          <5>2. QED
            BY <3>3, <5>1 DEF For
        <4>2. t \notin forgotten
          BY <1>2, <2>1, <2>3, <4>1
        <4>3. unheard = {}
          BY <1>6, <3>3 DEF Lineage, Prompt
        <4>4. QED
          BY <1>1, <2>3, <3>1, <4>2, <4>3 DEF Lineage, Chained
      <3>4. QED
        BY <3>2, <3>3
    <2>4. QED
      BY <2>2, <2>3
  <1>9. Minded'
    <2>1. op[c] = "publish" \/ status'[t] # None
      BY <1>1, <1>2, <1>4 DEF Facts, IInv, MemoryTyped
    <2>2. QED
      BY <1>1, <1>7, <2>1 DEF Lineage, Minded
  <1>10. Rendered'
    <2>1. SUFFICES ASSUME NEW d \in Callers, pc'[d] = "send", op'[d] \in {"publish", "status"}, item'[d].topic \notin forgotten'
          PROVE  Carries(published'[item'[d].topic], item'[d].payload)
      BY DEF Rendered
    <2>2. d # c /\ pc[d] = "send" /\ op[d] \in {"publish", "status"} /\ item'[d] = item[d]
      BY <1>3, <2>1 DEF Others
    <2>3. item[d].topic \in Topics /\ item[d].topic \in Writes(d)
      BY <2>2 DEF Facts, IInv, ItemFits, Writes, Writer, Busy
    <2>4. item[d].topic # t
      BY <1>5, <2>2, <2>3
    <2>5. QED
      BY <1>2, <1>7, <2>1, <2>2, <2>3, <2>4 DEF Lineage, Rendered
  <1>11. Steady'
    <2>1. SUFFICES ASSUME NEW d \in Callers \ {c}, op[d] = "republish"
          PROVE  /\ \A u \in todo[d] \ forgotten' : copy[d][u] = published'[u]
                 /\ pc[d] = "wait" /\ item[d].topic \notin forgotten' => item[d].payload = published'[item[d].topic]
      BY <1>3 DEF Steady, Others
    <2>2. Writes(d) = ({item[d].topic} \cup todo[d]) \cap Topics /\ todo[d] \subseteq Topics
          /\ (pc[d] = "wait" => item[d].topic \in Topics)
      BY <2>1 DEF Writes, Writer, Busy, Facts, IInv, CallersTyped, ItemFits
    <2>3. /\ \A u \in todo[d] \ forgotten : copy[d][u] = published[u]
          /\ pc[d] = "wait" /\ item[d].topic \notin forgotten => item[d].payload = published[item[d].topic]
      BY <2>1 DEF Lineage, Steady
    <2>4. QED
      BY <1>2, <1>5, <1>7, <2>2, <2>3
  <1>12. Prompt'
    BY <1>2, <1>3 DEF Lineage, Prompt, Others, config
  <1>13. QED
    BY <1>8, <1>9, <1>10, <1>11, <1>12 DEF Lineage

\* A call ends with nothing to record, and nothing of it was on its way.
LEMMA LeavesLineage ==
  ASSUME Facts, Lineage, NEW c \in Callers, UNCHANGED <<retained, wire, config, memory, forgotten, current, unheard>>,
         Others(c), pc'[c] \in {"idle", "walk"}, answer'[c] # "sent",
         ~Waits(c) \/ answer[c] = "failed",
         op'[c] = "none" \/ (op'[c] = op[c] /\ todo'[c] = todo[c] /\ copy'[c] = copy[c])
  PROVE  Lineage'
  <1>1. \A d \in Callers \ {c} : Waits(d)' = Waits(d)
    BY OthersWrite
  <1>2. \A u : Pending(u) => Pending(u)'
    BY <1>1 DEF Pending, Others
  <1>3. Chained'
    BY <1>2, ChainStays DEF Lineage, memory
  <1>4. Minded' /\ Prompt'
    BY DEF Lineage, Minded, Prompt, Others, config, memory
  <1>5. Rendered'
    BY DEF Lineage, Rendered, Others, memory
  <1>6. Steady'
    BY DEF Lineage, Steady, Others, memory
  <1>7. QED
    BY <1>3, <1>4, <1>5, <1>6 DEF Lineage

LEMMA CallFailsLineage ==
  ASSUME Facts, Lineage, NEW c \in Callers, CallFails(c)
  PROVE  Lineage'
  <1>1. /\ UNCHANGED <<retained, wire, config, memory, history, copy>> /\ Answered(c)
        /\ Goto(c, "none", "idle", NoItem, {})
        /\ answer[c] = "failed" \/ op[c] = "pulse"
    BY DEF CallFails, Done
  <1>2. answer'[c] = "none" /\ \A d \in Callers \ {c} : copy'[d] = copy[d] /\ answer'[d] = answer[d]
    BY <1>1, Typed DEF Answered, Facts
  <1>3. Others(c) /\ pc'[c] = "idle" /\ op'[c] = "none"
    BY <1>1, <1>2, GotoOthers DEF Facts
  <1>4. ~Waits(c) \/ answer[c] = "failed"
    BY <1>1 DEF Waits, Writer
  <1>5. QED
    BY <1>1, <1>2, <1>3, <1>4, LeavesLineage DEF history

LEMMA WalkEndsLineage ==
  ASSUME Facts, Lineage, NEW c \in Callers, WalkEnds(c)
  PROVE  Lineage'
  <1>1. /\ UNCHANGED <<broker, config, memory, history>>
        /\ copy' = [copy EXCEPT ![c] = [t \in Topics |-> Empty]]
        /\ Goto(c, "none", "idle", NoItem, {}) /\ pc[c] = "walk"
    BY DEF WalkEnds
  <1>2. \A d \in Callers \ {c} : copy'[d] = copy[d] /\ answer'[d] = answer[d]
    BY <1>1, Typed DEF Facts, broker
  <1>3. Others(c) /\ pc'[c] = "idle" /\ op'[c] = "none"
    BY <1>1, <1>2, GotoOthers DEF Facts
  <1>4. ~Waits(c)
    BY <1>1 DEF Waits
  <1>5. \A u : Pending(u)' = Pending(u)
    <2>1. \A d \in Callers \ {c} : Waits(d)' = Waits(d)
      BY <1>3, OthersWrite
    <2>2. ~Waits(c)'
      BY <1>3 DEF Waits
    <2>3. QED
      BY <1>3, <1>4, <2>1, <2>2 DEF Pending, Others
  <1>6. Chained'
    BY <1>1, <1>5, ChainStays DEF Lineage, broker, memory, history
  <1>7. Minded' /\ Prompt'
    BY <1>1 DEF Lineage, Minded, Prompt, broker, config, memory, history
  <1>8. Rendered' /\ Steady'
    BY <1>1, <1>3 DEF Lineage, Rendered, Steady, Others, memory, history
  <1>9. QED
    BY <1>6, <1>7, <1>8 DEF Lineage

LEMMA WalkAnsweredLineage ==
  ASSUME Facts, Lineage, NEW c \in Callers, WalkAnswered(c)
  PROVE  Lineage'
  <1>. DEFINE t == item[c].topic
              p == item[c].payload
              ok == answer[c] = "accepted"
              evicted == IF ok /\ op[c] = "evict" THEN {t} ELSE {}
  <1>1. /\ t \in Topics /\ Waits(c) /\ t \in Writes(c)
        /\ answer[c] \in {"accepted", "failed"} /\ op[c] \in {"evict", "republish"}
        /\ op[c] = "evict" => p = Empty
    <2>1. pc[c] = "wait" /\ answer[c] \in {"accepted", "failed"} /\ op[c] \in {"evict", "republish"}
      BY DEF WalkAnswered
    <2>2. Waits(c)
      BY <2>1 DEF Waits, Writer
    <2>3. QED
      BY <2>1, <2>2, WaitersWrite DEF Facts, Framed
  <1>2. /\ published' = [u \in Topics |-> IF u \in evicted THEN Empty ELSE published[u]]
        /\ status' = [u \in Topics |-> IF u \in evicted THEN None ELSE status[u]]
        /\ gated' = gated \ evicted
        /\ IF ok THEN unheard' = unheard \ {t} ELSE UNCHANGED unheard
        /\ UNCHANGED <<retained, wire, config, op, todo, copy, forgotten, current>>
    BY DEF WalkAnswered, Heard
  <1>3. Others(c) /\ pc'[c] = "walk" /\ answer'[c] = "none"
    <2>1. pc' = [pc EXCEPT ![c] = "walk"] /\ item' = [item EXCEPT ![c] = NoItem] /\ Answered(c)
      BY DEF WalkAnswered
    <2>2. QED
      BY <1>2, <2>1, Typed DEF Others, Answered, Facts
  <1>4. \A d \in Callers \ {c} : t \notin Writes(d) /\ Waits(d)' = Waits(d)
    BY <1>1, <1>3, OthersWrite DEF Facts, Alone
  <1>5. ok => Settles(t, {p}) /\ (qos = 1 => For(wire, t) = {})
    BY <1>1 DEF Facts, Landed
  <1>6. op[c] = "republish" /\ t \notin forgotten => p = published[t]
    BY <1>1 DEF Lineage, Steady, Waits
  <1>7. /\ \A u \in Topics \ {t} : published'[u] = published[u] /\ status'[u] = status[u]
        /\ evicted = {} => published'[t] = published[t] /\ status'[t] = status[t]
        /\ evicted # {} => published'[t] = Empty /\ op[c] = "evict"
    BY <1>1, <1>2
  <1>8. evicted = {} <=> ~(ok /\ op[c] = "evict")
    OBVIOUS
  <1>9. Chained'
    <2>1. SUFFICES ASSUME NEW u \in Topics \ (forgotten \cup unheard')
          PROVE  /\ Linked(wire, retained, u, current)
                 /\ ~Pending(u)' /\ (u \in current \/ For(wire, u) # {}) => Lands(wire, retained, u, {published'[u]})
      BY <1>2 DEF Chained, Latest, Settles
    <2>. HIDE DEF evicted, t, p, ok
    <2>2. CASE ok /\ u = t
      <3>1. published'[u] = p
        BY <1>1, <1>6, <1>7, <1>8, <2>1, <2>2
      <3>2. Lands(wire, retained, u, {published'[u]})
        BY <1>5, <2>2, <3>1 DEF Settles
      <3>3. CASE For(wire, t) = {}
        BY <2>2, <3>2, <3>3 DEF Linked
      <3>4. CASE For(wire, t) # {}
        <4>1. unheard = {}
          BY <1>5, <2>2, <3>4 DEF Lineage, Prompt
        <4>2. QED
          BY <2>1, <3>2, <4>1 DEF Lineage, Chained
      <3>5. QED
        BY <3>3, <3>4
    <2>3. CASE ~(ok /\ u = t)
      <3>1. Linked(wire, retained, u, current) /\ Latest(u)
        BY <1>2, <2>1, <2>3 DEF Lineage, Chained
      <3>2. published'[u] = published[u]
        BY <1>7, <1>8, <2>3
      <3>3. Pending(u) => Pending(u)'
        <4>1. SUFFICES ASSUME NEW d \in Callers, Waits(d), item[d].topic = u, answer[d] # "failed" PROVE Pending(u)'
          BY DEF Pending
        <4>2. d # c
          BY <1>1, <2>3, <4>1 DEF t, ok
        <4>3. QED
          BY <1>3, <1>4, <4>1, <4>2 DEF Pending, Others
      <3>4. QED
        BY <2>1, <3>1, <3>2, <3>3 DEF Latest, Settles
    <2>4. QED
      BY <2>2, <2>3
  <1>. HIDE DEF evicted, t, p, ok
  <1>10. Minded'
    BY <1>7, PayloadAssumption DEF Lineage, Minded
  <1>11. Rendered'
    <2>1. SUFFICES ASSUME NEW d \in Callers, pc'[d] = "send", op'[d] \in {"publish", "status"}, item'[d].topic \notin forgotten'
          PROVE  Carries(published'[item'[d].topic], item'[d].payload)
      BY DEF Rendered
    <2>2. d # c /\ pc[d] = "send" /\ op[d] \in {"publish", "status"} /\ item'[d] = item[d]
      BY <1>3, <2>1 DEF Others
    <2>3. item[d].topic \in Topics /\ item[d].topic \in Writes(d)
      BY <2>2 DEF Facts, IInv, ItemFits, Writes, Writer, Busy
    <2>4. item[d].topic # t
      BY <1>4, <2>2, <2>3
    <2>5. QED
      BY <1>2, <1>7, <2>1, <2>2, <2>3, <2>4 DEF Lineage, Rendered
  <1>12. Steady'
    <2>1. SUFFICES ASSUME NEW d \in Callers, op[d] = "republish"
          PROVE  /\ \A u \in todo[d] \ forgotten : copy[d][u] = published'[u]
                 /\ pc'[d] = "wait" /\ item'[d].topic \notin forgotten => item'[d].payload = published'[item'[d].topic]
      BY <1>2 DEF Steady
    <2>2. Writes(d) = ({item[d].topic} \cup todo[d]) \cap Topics /\ todo[d] \subseteq Topics
          /\ (pc[d] = "wait" => item[d].topic \in Topics)
      BY <2>1 DEF Writes, Writer, Busy, Facts, IInv, CallersTyped, ItemFits
    <2>3. /\ \A u \in todo[d] \ forgotten : copy[d][u] = published[u]
          /\ pc[d] = "wait" /\ item[d].topic \notin forgotten => item[d].payload = published[item[d].topic]
      BY <2>1 DEF Lineage, Steady
    <2>4. CASE d = c
      BY <1>3, <1>7, <2>1, <2>2, <2>3, <2>4
    <2>5. CASE d # c
      <3>1. pc'[d] = pc[d] /\ item'[d] = item[d] /\ t \notin Writes(d)
        BY <1>3, <1>4, <2>5 DEF Others
      <3>2. QED
        BY <1>7, <2>2, <2>3, <3>1
    <2>6. QED
      BY <2>4, <2>5
  <1>13. Prompt'
    BY <1>2, <1>3 DEF Lineage, Prompt, Others, config
  <1>14. QED
    BY <1>9, <1>10, <1>11, <1>12, <1>13 DEF Lineage

-----------------------------------------------------------------------------
(* The broker and the connection.                                            *)

LEMMA ReadStep ==
  ASSUME IInv, Read
  PROVE  /\ wire \in Seq(Messages) /\ wire # <<>> /\ Head(wire) \in Messages /\ wire' = Tail(wire)
         /\ retained' = IF Head(wire).retain THEN [retained EXCEPT ![Head(wire).topic] = Head(wire).payload]
                                             ELSE retained
         /\ current' = IF Head(wire).retain THEN current \cup {Head(wire).topic} ELSE current
         /\ answer' = IF Head(wire).from = None THEN answer ELSE [answer EXCEPT ![Head(wire).from] = "accepted"]
  BY Typed DEF Read, BrokerReads

\* What a read leaves retained carries on from what was.
LEMMA ReadLinks ==
  ASSUME IInv, Read, NEW t \in Topics, Linked(wire, retained, t, current)
  PROVE  /\ Linked(wire', retained', t, current')
         /\ retained'[t] = retained[t] \/ (t \in current => Carries(retained[t], retained'[t]))
         /\ t \in current' \/ For(wire', t) # {} => t \in current \/ For(wire, t) # {}
  <1>. DEFINE m == Head(wire)
  <1>1. /\ wire \in Seq(Messages) /\ wire # <<>> /\ m \in Messages /\ wire' = Tail(wire)
        /\ retained' = IF m.retain THEN [retained EXCEPT ![m.topic] = m.payload] ELSE retained
        /\ current' = IF m.retain THEN current \cup {m.topic} ELSE current
    BY ReadStep
  <1>2. retained \in [Topics -> Payloads \cup {Empty, Old}]
    BY Typed
  <1>3. /\ t \in current' => t \in current \/ (m.retain /\ m.topic = t)
        /\ retained'[t] = IF m.retain /\ m.topic = t THEN m.payload ELSE retained[t]
    BY <1>1, <1>2 DEF Messages
  <1>4. /\ Linked(wire', retained', t, current')
        /\ retained'[t] = retained[t] \/ (t \in current => Carries(retained[t], retained'[t]))
    <2>1. /\ Linked(Tail(wire), retained', t, current')
          /\ retained'[t] = retained[t] \/ (t \in current => Carries(retained[t], retained'[t]))
      BY <1>1, <1>3, LinkedRead
    <2>2. QED
      BY <1>1, <2>1
  <1>5. t \in current' \/ For(wire', t) # {} => t \in current \/ For(wire, t) # {}
    <2>1. /\ Len(wire) \in Nat \ {0} /\ Len(wire') = Len(wire) - 1 /\ m = wire[1]
          /\ \A i \in 1..Len(wire') : wire'[i] = wire[i + 1]
      BY <1>1
    <2>2. m.retain /\ m.topic = t => 1 \in For(wire, t)
      BY <2>1 DEF For
    <2>3. \A i \in For(wire', t) : i + 1 \in For(wire, t)
      BY <2>1 DEF For
    <2>4. QED
      BY <1>1, <2>2, <2>3
  <1>6. QED
    BY <1>4, <1>5

LEMMA ReadLineage ==
  ASSUME Facts, Lineage, Read
  PROVE  Lineage'
  <1>. DEFINE m == Head(wire)
  <1>1. UNCHANGED <<config, memory, callers, forgotten, unheard>>
    BY DEF Read
  <1>2. /\ wire \in Seq(Messages) /\ wire # <<>> /\ m \in Messages /\ wire' = Tail(wire) /\ m = wire[1]
        /\ retained' = IF m.retain THEN [retained EXCEPT ![m.topic] = m.payload] ELSE retained
        /\ answer' = IF m.from = None THEN answer ELSE [answer EXCEPT ![m.from] = "accepted"]
    BY ReadStep DEF Facts
  <1>3. /\ answer \in [Callers -> Answers] /\ m.from \in Callers \cup {None}
        /\ retained \in [Topics -> Payloads \cup {Empty, Old}]
    BY <1>2, Typed DEF Facts, Messages
  <1>4. m.from \in Callers => answer[m.from] = "sent"
    <2>1. 1 \in 1..Len(wire)
      BY <1>2
    <2>2. QED
      BY <1>2, <2>1 DEF Facts, Sent
  <1>5. \A d \in Callers : answer'[d] = answer[d] \/ (answer[d] = "sent" /\ answer'[d] = "accepted")
    BY <1>2, <1>3, <1>4
  <1>. HIDE DEF m
  <1>6. \A u : Pending(u) => Pending(u)'
    <2>1. \A d \in Callers : Waits(d)' = Waits(d)
      BY <1>1, CallersOnly
    <2>2. QED
      BY <1>1, <1>5, <2>1 DEF Pending, callers
  <1>7. Chained'
    <2>1. SUFFICES ASSUME NEW u \in Topics \ (forgotten \cup unheard)
          PROVE  /\ Linked(wire', retained', u, current')
                 /\ ~Pending(u)' /\ (u \in current' \/ For(wire', u) # {}) => Lands(wire', retained', u, {published[u]})
      BY <1>1 DEF Chained, Latest, Settles, memory
    <2>2. Linked(wire, retained, u, current) /\ Latest(u)
      BY <2>1 DEF Lineage, Chained
    <2>3. /\ Linked(wire', retained', u, current')
          /\ u \in current' \/ For(wire', u) # {} => u \in current \/ For(wire, u) # {}
      BY <2>2, ReadLinks DEF Facts
    <2>4. \A S : Lands(wire, retained, u, S) => Lands(wire', retained', u, S)
      BY <1>2, <1>3, LandsRead DEF m
    <2>5. QED
      BY <1>6, <2>2, <2>3, <2>4 DEF Latest, Settles
  <1>8. Minded' /\ Rendered' /\ Steady'
    BY <1>1 DEF Lineage, Minded, Rendered, Steady, memory, callers
  <1>9. Prompt'
    BY <1>1, <1>5 DEF Lineage, Prompt, config
  <1>10. QED
    BY <1>7, <1>8, <1>9 DEF Lineage

\* Only at QoS 1 is there an answer to lose.
LEMMA LoseAnswerLineage ==
  ASSUME Facts, Lineage, NEW c \in Callers, LoseAnswer(c)
  PROVE  Lineage'
  <1>. DEFINE lost(i) == IF wire[i].from = c THEN [wire[i] EXCEPT !.from = None] ELSE wire[i]
  <1>1. /\ UNCHANGED <<config, memory, callers, forgotten, current, retained>>
        /\ unheard' = unheard \cup {item[c].topic}
        /\ wire' = [i \in DOMAIN wire |-> lost(i)] /\ answer' = [answer EXCEPT ![c] = "failed"]
        /\ \E i \in DOMAIN wire : wire[i].from = c
    BY DEF LoseAnswer, AnswerLost
  <1>2. wire \in Seq(Messages) /\ Len(wire) \in Nat /\ answer \in [Callers -> Answers]
    BY Typed DEF Facts
  <1>3. Len(wire') = Len(wire) /\ \A i \in 1..Len(wire) : wire'[i] = lost(i) /\ wire[i] \in Messages
    BY <1>1, <1>2
  <1>4. \A i \in 1..Len(wire) :
          wire'[i].retain = wire[i].retain /\ wire'[i].topic = wire[i].topic /\ wire'[i].payload = wire[i].payload
    BY <1>3 DEF Messages
  <1>. HIDE DEF lost
  <1>5. answer[c] = "sent" /\ Waits(c)
    BY <1>1, <1>2 DEF Facts, Sent
  <1>6. answer'[c] = "failed" /\ \A d \in Callers \ {c} : answer'[d] = answer[d]
    BY <1>1, <1>2
  <1>7. Chained'
    <2>1. SUFFICES ASSUME NEW u \in Topics \ (forgotten \cup unheard'), u \notin unheard, u # item[c].topic
          PROVE  /\ Linked(wire', retained, u, current)
                 /\ ~Pending(u)' /\ (u \in current \/ For(wire', u) # {}) => Lands(wire', retained, u, {published[u]})
      BY <1>1 DEF Chained, Latest, Settles, memory
    <2>2. Linked(wire, retained, u, current) /\ Latest(u)
      BY <2>1 DEF Lineage, Chained
    <2>3. For(wire', u) = For(wire, u) /\ \A i \in For(wire, u) : wire'[i].payload = wire[i].payload
      BY <1>3, <1>4 DEF For
    <2>4. Linked(wire', retained, u, current)
      BY <2>2, <2>3, LinkedLike
    <2>5. \A S : Lands(wire, retained, u, S) => Lands(wire', retained, u, S)
      BY <1>3, <1>4, LandsUnnamed
    <2>6. Pending(u) => Pending(u)'
      <3>1. \A d \in Callers : Waits(d)' = Waits(d)
        BY <1>1, CallersOnly
      <3>2. QED
        BY <1>1, <1>6, <2>1, <3>1 DEF Pending, callers
    <2>7. QED
      BY <2>2, <2>3, <2>4, <2>5, <2>6 DEF Latest, Settles
  <1>8. Minded' /\ Rendered' /\ Steady'
    BY <1>1 DEF Lineage, Minded, Rendered, Steady, memory, callers
  <1>9. Prompt'
    BY <1>1, <1>5, <1>6 DEF Lineage, Prompt, config
  <1>10. QED
    BY <1>7, <1>8, <1>9 DEF Lineage

\* On a new connection no chain has begun.
LEMMA NewConnectionLineage ==
  ASSUME Facts, Lineage, "reconnect" \notin Faults, NewConnection
  PROVE  Lineage'
  <1>1. /\ UNCHANGED <<config, memory, callers, forgotten, unheard>>
        /\ wire' = <<>> /\ current' = {}
        /\ answer' = [c \in Callers |-> IF answer[c] = "sent" THEN "failed" ELSE answer[c]]
    BY DEF NewConnection, Reconnect
  <1>2. \A u : For(wire', u) = {}
    BY <1>1 DEF For
  <1>3. Chained'
    BY <1>1, <1>2 DEF Chained, Linked, Latest
  <1>4. Minded' /\ Rendered' /\ Steady'
    BY <1>1 DEF Lineage, Minded, Rendered, Steady, memory, callers
  <1>5. Prompt'
    BY <1>1 DEF Lineage, Prompt, config
  <1>6. QED
    BY <1>3, <1>4, <1>5 DEF Lineage

LEMMA LineageInitially ==
  ASSUME Init
  PROVE  Lineage
  <1>1. /\ wire = <<>> /\ current = {} /\ unheard = {} /\ qos \in {0, 1}
        /\ \A c \in Callers : pc[c] = "idle" /\ op[c] = "none" /\ answer[c] = "none"
        /\ \A t \in Topics : published[t] = Empty
    BY StateAssumption DEF Init, BrokerInit, Resolved
  <1>2. \A u : For(wire, u) = {}
    BY <1>1 DEF For
  <1>3. Chained
    BY <1>1, <1>2 DEF Chained, Linked, Latest
  <1>4. Minded /\ Rendered /\ Steady /\ Prompt
    BY <1>1, PayloadAssumption DEF Minded, Rendered, Steady, Prompt
  <1>5. QED
    BY <1>3, <1>4 DEF Lineage

LEMMA LineageStays ==
  ASSUME Facts, Lineage, "reconnect" \notin Faults, [Next]_vars
  PROVE  Lineage'
  <1>1. CASE \E c \in Callers : Begin(c)
    BY <1>1, BeginsLineage
  <1>2. CASE \E c \in Callers : Step(c)
    BY <1>2, HandOverLineage, RecordLineage, CallFailsLineage, WalkStepLineage, WalkAnsweredLineage,
       WalkEndsLineage DEF Step
  <1>3. CASE \E c \in Callers : LoseAnswer(c)
    BY <1>3, LoseAnswerLineage
  <1>4. CASE Read
    BY <1>4, ReadLineage
  <1>5. CASE NewConnection
    BY <1>5, NewConnectionLineage
  <1>6. CASE UNCHANGED vars
    BY <1>6, SameLineage DEF vars, memory, history
  <1>7. QED
    BY <1>1, <1>2, <1>3, <1>4, <1>5, <1>6 DEF Next

\* What a topic holds changes when the broker reads, or with the connection.
LEMMA OnlyReadsRetain ==
  ASSUME [Next]_vars
  PROVE  Read \/ retained' = retained \/ current' = {}
  <1>1. CASE \E c \in Callers : Begin(c)
    <2>1. PICK c \in Callers : Begin(c)
      BY <1>1
    <2>2. UNCHANGED broker
      BY <2>1 DEF Begin, PublishBytes, PublishValue, PublishStatus, Pulse, EvictPrefix, Evict, Republish,
         Forget, Reset, Suppress, Prepare
    <2>3. QED
      BY <2>2 DEF broker
  <1>2. CASE \E c \in Callers : Step(c)
    BY <1>2 DEF Step, HandOver, Record, CallFails, WalkStep, WalkAnswered, WalkEnds, Send, Refuse, broker
  <1>3. CASE \E c \in Callers : LoseAnswer(c)
    BY <1>3 DEF LoseAnswer, AnswerLost
  <1>4. CASE NewConnection
    BY <1>4 DEF NewConnection
  <1>5. CASE UNCHANGED vars
    BY <1>5 DEF vars, broker
  <1>6. QED
    BY <1>1, <1>2, <1>3, <1>4, <1>5 DEF Next

\* Seen from the broker, `lc` moves only when `val` does, through replays, resets,
\* changes of the extension alone and refused publishes, for every set of callers,
\* topics and clock readings - unless the clock ran back, the topic was forgotten, or an
\* answer about it was lost (status.go:105-110).
THEOREM LcMovesWithTheValue ==
  ASSUME OneWriter = TRUE, "reconnect" \notin Faults
  PROVE  Spec => LcStandsStill
  <1>. DEFINE Still(t) ==
         LET p == retained[t]  q == retained'[t]
         IN  p \in Payloads /\ q \in Payloads /\ p.kind = "status" /\ q.kind = "status"
               /\ p.val = q.val /\ q.ts >= p.lc /\ t \in current' /\ t \notin forgotten
             => q.lc = p.lc
  <1>1. Init => Facts /\ Lineage
    BY FactsInitially, LineageInitially
  <1>2. Facts /\ Lineage /\ [Next]_vars => (Facts /\ Lineage)'
    BY FactsStay, LineageStays
  <1>3. Facts /\ Lineage /\ [Next]_vars => [ \A t \in (Topics \cap current) \ unheard : Still(t) ]_vars
    <2>1. SUFFICES ASSUME Facts, Lineage, [Next]_vars, NEW t \in (Topics \cap current) \ unheard,
                          t \in current', t \notin forgotten
          PROVE  Still(t)
      OBVIOUS
    <2>2. CASE retained' = retained
      BY <2>2
    <2>3. CASE Read
      <3>1. Linked(wire, retained, t, current)
        BY <2>1 DEF Lineage, Chained
      <3>2. retained'[t] = retained[t] \/ Carries(retained[t], retained'[t])
        BY <2>1, <2>3, <3>1, ReadLinks DEF Facts
      <3>3. QED
        BY <3>2 DEF Carries
    <2>4. QED
      BY <2>1, <2>2, <2>3, OnlyReadsRetain
  <1>4. QED
    BY <1>1, <1>2, <1>3, PTL DEF Spec, LcStandsStill
=============================================================================
