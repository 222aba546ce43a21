------------------------------ MODULE StateGate ------------------------------
(* StatePublisher (src/publisher/state.go, status.go): retained entity state *)
(* behind a dedup gate, the value memory `lc` comes from, the index that lets *)
(* a removed device be cleared, and the calls a reconnect needs. A goroutine *)
(* reads the gate under mu, calls the transport without it, and records the  *)
(* answer under mu again: three steps, with everybody else between them.     *)
EXTENDS RetainedBroker

CONSTANTS
  Vals,        \* datapoint values
  Exts,        \* values of the extension key; None is no extension
  Offers,      \* <<topic, value, extension, time>>: what may be observed
  Times,       \* what a clock may say
  Guarded,     \* topics a CommandFilters entry matches
  Under,       \* the topics below the prefix EvictPrefix is called with
  MayCall,     \* caller -> what it calls: a subset of Operations
  OneWriter,   \* the caller contract: one goroutine at a time publishes a topic
  Encodings,   \* StateConfig.Encoding, and StateConfig.QoS: what a consumer may
  Stated,      \* configure
  Old          \* what an earlier process left retained

Operations == {"publish", "value", "status", "pulse", "evict", "evictPrefix",
               "republish", "forget", "reset"}

ASSUME StateAssumption ==
  /\ Times \subseteq Nat
  /\ Offers \subseteq Topics \X Vals \X Exts \X Times
  /\ None \in Exts
  /\ Under \subseteq Topics /\ Guarded \subseteq Topics
  /\ MayCall \in [Callers -> SUBSET Operations]
  /\ OneWriter \in BOOLEAN
  /\ Encodings \subseteq {"envelope", "raw", "status"}
  /\ Stated \subseteq {"unset", "0", "1"}

VARIABLES
  encoding, qos,   \* StateConfig, resolved
  published,       \* topic -> the bytes the broker accepted, Empty when absent
  gated,           \* topics whose entry may suppress a repeat
  status,          \* topic -> statusMemo, or None
  pc, op,          \* caller -> where it is, and in which call
  item,            \* caller -> the topic and payload it is about
  todo, copy,      \* a walk: topics left, and Republish's snapshot
  \* history
  told,            \* topic -> what the last call that returned nil left there, or None
  settled,         \* Reset was called since the connection changed
  forgotten,       \* topics Forget dropped and nobody published since
  current,         \* topics whose retained payload came over this connection
  unheard          \* topics where the last call failed for its answer being lost

memory  == <<published, gated, status>>
callers == <<pc, op, item, todo, copy>>
history == <<told, settled, forgotten, current, unheard>>
config  == <<encoding, qos>>
vars    == <<broker, config, memory, callers, history>>

Bytes(v)              == [kind |-> "bytes", val |-> v, ext |-> None, ts |-> 0, lc |-> 0]
\* StatusObject: the value, when it was observed, when it last changed.
StatusObject(v, x, ts, lc) == [kind |-> "status", val |-> v, ext |-> x, ts |-> ts, lc |-> lc]
Payloads ==
  {Bytes(v) : v \in Vals} \cup
  {o \in {StatusObject(v, x, ts, lc) : v \in Vals, x \in Exts, ts \in Times, lc \in Times} :
     o.lc <= o.ts}
Occurrence == Bytes(None)
Memos == [val : Vals, ext : Exts, lc : Times]

ASSUME PayloadAssumption ==
  /\ {Empty, Old} \cap (Payloads \cup {Occurrence}) = {}
  /\ None \notin Memos

\* What Home Assistant reads of a payload.
Content(p) == IF p \in {Empty, Old} THEN p ELSE <<p.kind, p.val, p.ext>>

NoItem == [topic |-> None, payload |-> Empty]

\* The level a constructor settles on: the stated one, or its default.
Resolved(stated, default) ==
  CASE stated = "unset" -> default [] stated = "0" -> 0 [] stated = "1" -> 1

Init ==
  /\ \E old \in SUBSET (Topics \ Guarded) :
       BrokerInit([t \in Topics |-> IF t \in old THEN Old ELSE Empty])
  /\ encoding \in Encodings
  /\ \E s \in Stated : qos = Resolved(s, IF encoding = "status" THEN 0 ELSE 1)
  /\ published = [t \in Topics |-> Empty] /\ gated = {}
  /\ status = [t \in Topics |-> None]
  /\ pc = [c \in Callers |-> "idle"] /\ op = [c \in Callers |-> "none"]
  /\ item = [c \in Callers |-> NoItem]
  /\ todo = [c \in Callers |-> {}]
  /\ copy = [c \in Callers |-> [t \in Topics |-> Empty]]
  /\ told = [t \in Topics |-> None] /\ settled = TRUE
  /\ forgotten = {} /\ current = {} /\ unheard = {}
-----------------------------------------------------------------------------
(* A call and the topics it is about.                                        *)

\* guard: a write there would come back to this process as a command.
Collides(t) == t \in Guarded

Busy(c)   == {item[c].topic} \cup todo[c]
Known     == {t \in Topics : published[t] # Empty}
Calls(c, o) == o \in MayCall[c] /\ pc[c] = "idle"
Free(c, S) == OneWriter => \A d \in Callers \ {c} : Busy(d) \cap S = {}

Goto(c, o, label, i, S) ==
  /\ pc' = [pc EXCEPT ![c] = label] /\ op' = [op EXCEPT ![c] = o]
  /\ item' = [item EXCEPT ![c] = i] /\ todo' = [todo EXCEPT ![c] = S]
Done(c)   == Goto(c, "none", "idle", NoItem, {}) /\ UNCHANGED copy

Unsure(S) == told' = [t \in Topics |-> IF t \in S THEN None ELSE told[t]]
\* Nothing of what was sent before a Forget is still on its way.
Remember(t) ==
  forgotten' = IF \E i \in DOMAIN wire : wire[i].topic = t THEN forgotten ELSE forgotten \ {t}
Heard(t)   == unheard' = unheard \ {t}
Tell(t, p) == told' = [told EXCEPT ![t] = Content(p)]

\* The gate let it through: the payload is rendered, the send is still to come.
Prepare(c, o, t, p) ==
  /\ Goto(c, o, "send", [topic |-> t, payload |-> p], {})
  /\ Unsure(IF o = "pulse" THEN {} ELSE {t})
  /\ UNCHANGED <<broker, config, memory, copy, settled, forgotten, current, unheard>>

\* The gate suppressed it, and the call returns nil.
Suppress(t, p) ==
  /\ IF settled /\ t \notin unheard THEN Tell(t, p) ELSE UNCHANGED told
  /\ UNCHANGED <<broker, config, memory, callers, settled, forgotten, current, unheard>>

\* Publish: opaque bytes.
PublishBytes(c, t, v) ==
  /\ Free(c, {t}) /\ ~Collides(t)
  /\ IF t \in gated /\ published[t] = Bytes(v)
     THEN Suppress(t, Bytes(v))
     ELSE Prepare(c, "publish", t, Bytes(v))

\* Mutant of ChangedAt: the clock is not compared.
ChangedAtAnyClock(memo, v, ts) == IF memo # None /\ memo.val = v THEN memo.lc ELSE ts

\* `lc`: carried forward while the value stands still and the clock does not run back.
ChangedAt(memo, v, ts) ==
  IF memo # None /\ memo.val = v /\ memo.lc <= ts THEN memo.lc ELSE ts

\* PublishStatus: the gate compares value and extension, never the time.
PublishStatus(c, t, v, x, ts) ==
  LET memo == status[t]
      o    == StatusObject(v, x, ts, ChangedAt(memo, v, ts))
  IN  /\ Free(c, {t}) /\ ~Collides(t)
      /\ IF t \in gated /\ memo # None /\ memo.val = v /\ memo.ext = x
         THEN Suppress(t, o)
         ELSE Prepare(c, "status", t, o)

\* PublishValue, as PublishComponentValue reaches it: the encoding decides.
PublishValue(c, t, v, ts) ==
  IF encoding = "status" THEN PublishStatus(c, t, v, None, ts) ELSE PublishBytes(c, t, v)

\* Pulse and PulseStatus: not retained, no gate and no memory.
Pulse(c, t) == ~Collides(t) /\ Prepare(c, "pulse", t, Occurrence)

\* Evict, of topics this process may never have published.
Evict(c, S) ==
  /\ Free(c, S)
  /\ Goto(c, "evict", "walk", NoItem, S)
  /\ Unsure(S)
  /\ UNCHANGED <<broker, config, memory, copy, settled, forgotten, current, unheard>>

\* EvictPrefix: the match is made under mu, the walk follows without it.
EvictPrefix(c) == Evict(c, Known \cap Under)

\* Republish: the cached bytes are copied under mu, and sent without it.
Republish(c) ==
  /\ Free(c, Topics)
  /\ Goto(c, "republish", "walk", NoItem, Known)
  /\ copy' = [copy EXCEPT ![c] = published]
  /\ Unsure(Known)
  /\ UNCHANGED <<broker, config, memory, settled, forgotten, current, unheard>>

\* Forget.
Forget(S) ==
  /\ published' = [t \in Topics |-> IF t \in S THEN Empty ELSE published[t]]
  /\ status' = [t \in Topics |-> IF t \in S THEN None ELSE status[t]]
  /\ gated' = gated \ S
  /\ forgotten' = forgotten \cup S
  /\ UNCHANGED <<broker, config, callers, told, settled, current, unheard>>

\* Mutant of Reset: the maps are emptied, the index with them.
ResetDropsIndex ==
  /\ gated' = {} /\ published' = [t \in Topics |-> Empty] /\ status' = [t \in Topics |-> None]
  /\ settled' = TRUE
  /\ UNCHANGED <<broker, config, callers, told, forgotten, current, unheard>>

\* Mutant of Reset: the gate stays shut.
ResetKeepsGate ==
  /\ settled' = TRUE
  /\ UNCHANGED <<broker, config, memory, callers, told, forgotten, current, unheard>>

\* Reset opens the gate and keeps what it carried.
Reset ==
  /\ gated' = {}
  /\ settled' = TRUE
  /\ UNCHANGED <<broker, config, published, status, callers, told, forgotten, current, unheard>>
-----------------------------------------------------------------------------
(* The transport call and what it leaves.                                    *)

\* send, of one payload.
HandOver(c) ==
  /\ pc[c] = "send"
  /\ \/ Send(c, item[c].topic, item[c].payload, IF op[c] = "pulse" THEN 0 ELSE qos, op[c] # "pulse")
     \/ Refuse(c)
  /\ pc' = [pc EXCEPT ![c] = "wait"]
  /\ UNCHANGED <<config, memory, op, item, todo, copy, history>>

\* Mutant of Record: bytes leave the value memory alone.
RecordBytesOnly(c) ==
  LET t == item[c].topic  p == item[c].payload
  IN  /\ pc[c] = "wait" /\ answer[c] = "accepted" /\ op[c] \in {"publish", "status"}
      /\ published' = [published EXCEPT ![t] = p] /\ gated' = gated \cup {t}
      /\ status' = IF op[c] = "publish" THEN status
                   ELSE [status EXCEPT ![t] = [val |-> p.val, ext |-> p.ext, lc |-> p.lc]]
      /\ Tell(t, p) /\ Remember(t) /\ Heard(t)
      /\ Answered(c) /\ Done(c)
      /\ UNCHANGED <<retained, wire, connection, config, settled, current>>

\* Publish and PublishStatus, once accepted: recorded under mu.
Record(c) ==
  LET t == item[c].topic  p == item[c].payload
  IN  /\ pc[c] = "wait" /\ answer[c] = "accepted" /\ op[c] \in {"publish", "status"}
      /\ published' = [published EXCEPT ![t] = p] /\ gated' = gated \cup {t}
      /\ status' = [status EXCEPT ![t] =
                      IF op[c] = "publish" THEN None
                      ELSE [val |-> p.val, ext |-> p.ext, lc |-> p.lc]]
      /\ Tell(t, p) /\ Remember(t) /\ Heard(t)
      /\ Answered(c) /\ Done(c)
      /\ UNCHANGED <<retained, wire, connection, config, settled, current>>

\* Mutant of CallFails: the entry goes with the failure.
CallFailsForgetting(c) ==
  LET t == item[c].topic
  IN  /\ pc[c] = "wait" /\ op[c] \in {"publish", "status", "pulse"}
      /\ answer[c] = "failed" \/ (op[c] = "pulse" /\ answer[c] = "accepted")
      /\ published' = [published EXCEPT ![t] = Empty] /\ gated' = gated \ {t}
      /\ status' = [status EXCEPT ![t] = None]
      /\ Answered(c) /\ Done(c)
      /\ UNCHANGED <<retained, wire, connection, config, history>>

\* A failure records nothing and removes nothing; nor does a pulse.
CallFails(c) ==
  /\ pc[c] = "wait" /\ op[c] \in {"publish", "status", "pulse"}
  /\ answer[c] = "failed" \/ (op[c] = "pulse" /\ answer[c] = "accepted")
  /\ Answered(c) /\ Done(c)
  /\ UNCHANGED <<retained, wire, connection, config, memory, history>>

\* One topic of a walk: guarded, then sent. Evict sends the empty payload.
WalkStep(c) ==
  /\ pc[c] = "walk"
  /\ \E t \in todo[c] :
       LET p == IF op[c] = "evict" THEN Empty ELSE copy[c][t]
       IN  IF Collides(t)
           THEN /\ todo' = [todo EXCEPT ![c] = @ \ {t}]
                /\ UNCHANGED <<broker, config, memory, pc, op, item, copy, history>>
           ELSE /\ Send(c, t, p, qos, TRUE) \/ Refuse(c)
                /\ pc' = [pc EXCEPT ![c] = "wait"]
                /\ item' = [item EXCEPT ![c] = [topic |-> t, payload |-> p]]
                /\ todo' = [todo EXCEPT ![c] = @ \ {t}]
                /\ UNCHANGED <<config, memory, op, copy, history>>

\* Its answer: an eviction accepted leaves the memory, a replay leaves it alone, a
\* failure leaves everything, and the walk goes on.
WalkAnswered(c) ==
  LET t  == item[c].topic
      ok == answer[c] = "accepted"
      evicted == IF ok /\ op[c] = "evict" THEN {t} ELSE {}
  IN  /\ pc[c] = "wait" /\ op[c] \in {"evict", "republish"}
      /\ answer[c] \in {"accepted", "failed"}
      /\ published' = [u \in Topics |-> IF u \in evicted THEN Empty ELSE published[u]]
      /\ status' = [u \in Topics |-> IF u \in evicted THEN None ELSE status[u]]
      /\ gated' = gated \ evicted
      /\ IF ok THEN Tell(t, item[c].payload) /\ Heard(t) ELSE UNCHANGED <<told, unheard>>
      /\ pc' = [pc EXCEPT ![c] = "walk"] /\ item' = [item EXCEPT ![c] = NoItem]
      /\ Answered(c)
      /\ UNCHANGED <<retained, wire, connection, config, op, todo, copy, settled, forgotten, current>>

\* The list is done, or the context has ended.
WalkEnds(c) ==
  /\ pc[c] = "walk"
  /\ todo[c] = {} \/ "cancel" \in Faults
  /\ Goto(c, "none", "idle", NoItem, {})
  /\ copy' = [copy EXCEPT ![c] = [t \in Topics |-> Empty]]
  /\ UNCHANGED <<broker, config, memory, history>>
-----------------------------------------------------------------------------
(* The broker and the connection.                                            *)

Read ==
  /\ BrokerReads
  /\ current' = IF Head(wire).retain THEN current \cup {Head(wire).topic} ELSE current
  /\ UNCHANGED <<config, memory, callers, told, settled, forgotten, unheard>>

LoseAnswer(c) ==
  /\ pc[c] = "wait" /\ AnswerLost(c)
  /\ unheard' = unheard \cup {item[c].topic}
  /\ UNCHANGED <<config, memory, callers, told, settled, forgotten, current>>

NewConnection ==
  /\ Reconnect(\E c \in Callers : pc[c] # "idle", retained)
  /\ settled' = FALSE /\ Unsure(Topics) /\ current' = {}
  /\ UNCHANGED <<config, memory, callers, forgotten, unheard>>

Begin(c) ==
  \/ /\ Calls(c, "publish")
     /\ \E o \in Offers : PublishBytes(c, o[1], o[2])
  \/ /\ Calls(c, "value")
     /\ \E o \in Offers : PublishValue(c, o[1], o[2], o[4])
  \/ /\ Calls(c, "status")
     /\ \E o \in Offers : PublishStatus(c, o[1], o[2], o[3], o[4])
  \/ Calls(c, "pulse")       /\ \E t \in Topics : Pulse(c, t)
  \/ Calls(c, "evict")       /\ \E S \in {Topics, Topics \ Guarded} : Evict(c, S)
  \/ Calls(c, "evictPrefix") /\ EvictPrefix(c)
  \/ Calls(c, "republish")   /\ Republish(c)
  \/ Calls(c, "forget")      /\ \E t \in Topics : Forget({t})
  \/ Calls(c, "reset")       /\ Reset

Step(c) ==
  HandOver(c) \/ Record(c) \/ CallFails(c) \/ WalkStep(c) \/ WalkAnswered(c) \/ WalkEnds(c)

Next ==
  \/ \E c \in Callers : Begin(c) \/ Step(c) \/ LoseAnswer(c)
  \/ Read
  \/ NewConnection

Spec == Init /\ [][Next]_vars
-----------------------------------------------------------------------------
(* What the publisher promises.                                              *)

Quiet(t) ==
  /\ \A c \in Callers : t \notin Busy(c)
  /\ \A i \in DOMAIN wire : wire[i].topic # t

\* What a transport call may carry; only an occurrence is never retained.
Sendable == Payloads \cup {Occurrence, Empty}
Messages ==
  {m \in [from : Callers \cup {None}, topic : Topics, payload : Sendable, retain : BOOLEAN] :
     m.retain => m.payload \in Payloads \cup {Empty}}

BrokerTyped ==
  /\ retained \in [Topics -> Payloads \cup {Empty, Old}]
  /\ wire \in Seq(Messages)
  /\ answer \in [Callers -> Answers]

CallersTyped ==
  /\ pc \in [Callers -> {"idle", "send", "wait", "walk"}]
  /\ op \in [Callers -> {"none", "publish", "status", "pulse", "evict", "republish"}]
  /\ item \in [Callers -> {NoItem} \cup [topic : Topics, payload : Sendable]]
  /\ todo \in [Callers -> SUBSET Topics]
  /\ copy \in [Callers -> [Topics -> Payloads \cup {Empty}]]

\* A call carries the kind of payload its record will keep.
ItemFits(c) ==
  /\ pc[c] = "walk" => op[c] \in {"evict", "republish"}
  /\ pc[c] \in {"send", "wait"} =>
    /\ item[c].topic \in Topics
    /\ pc[c] = "send" => op[c] \in {"publish", "status", "pulse"}
    /\ op[c] = "publish" => item[c].payload \in {Bytes(v) : v \in Vals}
    /\ op[c] = "status" => item[c].payload \in {p \in Payloads : p.kind = "status"}

MemoryTyped ==
  /\ published \in [Topics -> Payloads \cup {Empty}]
  /\ status \in [Topics -> Memos \cup {None}]

\* The value memory of a topic describes the bytes in its index.
MemoFits(t) ==
  status[t] # None =>
    /\ published[t] \in Payloads /\ published[t].kind = "status"
    /\ status[t] = [val |-> published[t].val, ext |-> published[t].ext, lc |-> published[t].lc]

\* What StatePublisher keeps is well formed, and its three maps agree: only a topic with
\* bytes in the index can suppress a repeat, and the value memory a repeat is compared
\* with, and `lc` is carried from, is the one of those bytes - whatever raw publishes,
\* evictions, Forget and Reset come between a call's reading and its record
\* (state.go:204-289, 455-457; status.go:105-110, 154-159).
IInv ==
  /\ BrokerTyped
  /\ CallersTyped
  /\ \A c \in Callers : ItemFits(c)
  /\ MemoryTyped
  /\ gated \subseteq Known
  /\ \A t \in Topics : MemoFits(t)

\* A call that returned nil - sent, replayed, evicted or suppressed - means the
\* broker retains it, until the topic's next call or the next connection; on a new
\* connection a suppressed one means it again once Reset was called
\* (state.go:382-416, 823-839).
AcceptedIsRetained ==
  \A t \in Topics : told[t] # None /\ Quiet(t) => Content(retained[t]) = told[t]

\* What the broker retains of this process is in the index, where EvictPrefix and
\* Republish find it: no refused publish or eviction, and no Reset, takes a topic out
\* (state.go:439-452, 693-694).
NothingLeftBehind ==
  qos = 1 =>
    \A t \in Topics :
      Quiet(t) /\ retained[t] \notin {Empty, Old} => t \in Known \cup forgotten \cup unheard

\* On the broker `lc` moves only when `val` does - through replays, resets, changes of
\* the extension alone and refused publishes - unless the clock ran back or the
\* topic was forgotten (status.go:105-110).
LcStandsStill ==
  [][ \A t \in (Topics \cap current) \ unheard :
        LET p == retained[t]  q == retained'[t]
        IN  p \in Payloads /\ q \in Payloads /\ p.kind = "status" /\ q.kind = "status"
              /\ p.val = q.val /\ q.ts >= p.lc /\ t \in current' /\ t \notin forgotten
            => q.lc = p.lc ]_vars
=============================================================================
