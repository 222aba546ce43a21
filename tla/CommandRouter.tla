---------------------------- MODULE CommandRouter ----------------------------
(* The half of the runtime that reads: routes, their subscriptions, and the  *)
(* pool of workers that runs one handler per command                         *)
(* (src/publisher/command.go, command_pool.go), over a broker that sends one *)
(* copy of a message per matching subscription and may refuse or vanish.     *)
(* One step is one section under the router's lock, one transport call or    *)
(* one operation of a worker's queue.                                        *)
EXTENDS TopicFilter, Integers, FiniteSets

CONSTANTS
  Filters,          \* filters the consumer may register
  Topics,           \* topics commands are published on
  Retained,         \* the topic a retained command was left behind on, or None
  Attributor,       \* TRUE: the transport implements AttributingSubscriber
  DeliverRetained,  \* CommandConfig.DeliverRetained
  NumWorkers,       \* CommandConfig.Workers
  poolIndex,        \* topic -> worker
  Callers,          \* goroutines of the consumer
  MayCall,          \* caller -> what it calls: a subset of Operations
  HandlerCalls,     \* what a handler may call before it returns
  Refuses,          \* calls the broker may refuse: subset of Refusals
  None,
  MaxMessages, MaxPools, MaxConnections     \* bounds

Workers    == 1..NumWorkers
Actors     == Callers \cup Workers
Operations == {"start", "resubscribe", "stop", "waitIdle"}
Refusals   == {"start", "resubscribe", "rollback", "stop", "lostAck"}

ASSUME RouterAssumption ==
  /\ NumWorkers \in Nat \ {0}
  /\ poolIndex \in [Topics -> Workers]
  /\ Callers \cap Workers = {}
  /\ None \notin Actors /\ None \notin Filters /\ None \notin Topics
  /\ None \notin Nat /\ Callers \cap Nat = {}
  /\ MayCall \in [Callers -> SUBSET Operations]
  /\ HandlerCalls \subseteq Operations \ {"waitIdle"}
  /\ Refuses \subseteq Refusals
  /\ Retained \in Topics \cup {None}
  /\ {Attributor, DeliverRetained} \subseteq BOOLEAN
  /\ \A f \in Filters : f \in Seq(Levels) /\ f # <<>> /\ ValidFilter(f)
  /\ \A t \in Topics : t \in Seq(Levels \ Wild) /\ t # <<>>
  /\ {MaxMessages, MaxPools, MaxConnections} \subseteq Nat

VARIABLES
  \* CommandRouter
  routes, attributed, started, stopped,
  pool,         \* the current pool's number, 0 when there is none
  made,         \* pools made so far
  \* commandPool: the queues and workers of the last pool made
  queue,        \* worker -> its backlog: messages, and callers' sentinels
  closed,       \* workers whose queue is closed
  working,      \* workers that have not exited
  job,          \* worker -> the message whose handler runs, or None
  \* actors
  pc,           \* actor -> what it is doing
  flush,        \* caller -> WaitIdle: the pool it read, the queue it pushes to next,
                \* the workers that still hold its sentinel, what it waits for
  \* the holder of lifeMu: Start, Resubscribe or Stop
  life,         \* who holds it, or None
  op, phase,    \* which of the three, and how far
  todo, done,   \* filters still to be subscribed or unsubscribed; subscribed
  at,           \* the filter in the call that is waiting for its answer
  live,         \* filters the broker would not let go of
  reclaim,      \* the pool to close, or 0
  \* the broker
  subs, inbound, connection,
  \* history
  log, accepted, outranked, missed, late, ran, finished,
  broken        \* this connection replaced another under a walk of subscriptions

router  == <<routes, attributed, started, stopped, pool, made>>
workers == <<queue, closed, working, job>>
holder  == <<life, op, phase, todo, done, at, live, reclaim>>
broker  == <<subs, inbound, connection, log, broken>>
history == <<accepted, outranked, missed, late, ran, finished>>
vars    == <<router, workers, pc, flush, holder, broker, history>>

NoFlush == [pool |-> 0, next |-> 1, wait |-> {}, upTo |-> {}]

Init ==
  /\ routes = {} /\ attributed = FALSE /\ started = FALSE /\ stopped = FALSE
  /\ pool = 0 /\ made = 0
  /\ queue = [w \in Workers |-> <<>>] /\ closed = {} /\ working = {}
  /\ job = [w \in Workers |-> None]
  /\ pc = [a \in Actors |-> "idle"]
  /\ flush = [a \in Callers |-> NoFlush]
  /\ life = None /\ op = "stop" /\ phase = "none"
  /\ todo = {} /\ done = {} /\ at = None /\ live = {} /\ reclaim = 0
  /\ subs = {} /\ inbound = <<>> /\ connection = 0 /\ broken = FALSE
  /\ log = <<>> /\ accepted = {} /\ outranked = {} /\ missed = {} /\ late = {}
  /\ ran = <<>> /\ finished = {}
-----------------------------------------------------------------------------
(* Filters and topics of the instance, by the rules of TopicFilter.          *)

Claims     == [f \in Filters |-> {t \in Topics : MatchFilter(FilterParts(f), t)}]
Overlaps   == [f \in Filters |-> [g \in Filters |-> FiltersOverlap(FilterParts(f), FilterParts(g))]]
Outranking == [f \in Filters |-> [g \in Filters |-> Outranks(FilterParts(f), FilterParts(g))]]

\* resolveLocked: the strictest of the routes that match t.
Matching(t) == {f \in routes : t \in Claims[f]}
Owner(t)    == CHOOSE f \in Matching(t) : \A g \in Matching(t) \ {f} : Outranking[f][g]

\* Mutant of MostSpecific: subscriptions go out in any order.
MostSpecificUnsorted(S) == S

\* routeSubsLocked: most specific first, by a score over a width that covers every
\* route; routes of one score keep the order they were registered in, which may be
\* any.
MostSpecific(S) ==
  LET width == 1 + Max({0} \cup {Len(FilterParts(f)) : f \in routes})
      score(f) == SpecificityScore(FilterParts(f), width)
  IN  {f \in S : \A g \in S : score(f) >= score(g)}

\* Mutant of Superseded: whoever matches may run.
SupersededNever(f, t) == attributed /\ f \notin Matching(t)

\* The verdict on a copy that came for f: another route owns its topic.
Superseded(f, t)      == attributed /\ Owner(t) # f

TopicOf(m)    == log[m].topic
IsRetained(m) == log[m].retained
-----------------------------------------------------------------------------
(* Registration.                                                             *)

\* Mutant of Handle: overlapping filters are not compared.
HandleAnyOverlap(f) ==
  /\ ~started /\ f \notin routes
  /\ routes' = routes \cup {f}
  /\ attributed' = (attributed \/ \E g \in routes : Overlaps[g][f])
  /\ UNCHANGED <<started, stopped, pool, made, workers, pc, flush, holder, broker, history>>

\* Handle(f), refused once started, for a filter already there, and for an
\* overlap the transport cannot attribute or neither filter wins.
Handle(f) ==
  LET overlapping == {g \in routes : Overlaps[g][f]}
  IN  /\ ~started
      /\ f \notin routes
      /\ overlapping # {} => Attributor
      /\ \A g \in overlapping : Outranking[g][f] \/ Outranking[f][g]
      /\ routes' = routes \cup {f}
      /\ attributed' = (attributed \/ overlapping # {})
      /\ UNCHANGED <<started, stopped, pool, made, workers, pc, flush, holder, broker, history>>
-----------------------------------------------------------------------------
(* Start, Resubscribe and Stop, each under lifeMu from entry to return.      *)

Call(a, o) ==
  /\ o \in MayCall[a]
  /\ pc[a] = "idle"
  /\ pc' = [pc EXCEPT ![a] = o]
  /\ UNCHANGED <<router, workers, flush, holder, broker, history>>

\* lifeMu is free and a's call refuses under mu: nothing changes. A Start beyond
\* MaxPools is taken no further.
Refused(a) ==
  /\ life = None
  /\ \/ pc[a] = "start" /\ (stopped \/ started \/ made = MaxPools)
     \/ pc[a] = "resubscribe" /\ (~started \/ stopped)
     \/ pc[a] = "stop" /\ stopped
  /\ pc' = [pc EXCEPT ![a] = "idle"]
  /\ UNCHANGED <<router, workers, flush, holder, broker, history>>

Hold(a, o, first) ==
  /\ life = None
  /\ pc[a] = o
  /\ pc' = [pc EXCEPT ![a] = "holds"]
  /\ life' = a /\ op' = o /\ phase' = first
  /\ todo' = routes /\ done' = {} /\ at' = None /\ live' = {}

\* Start opens the gate before the first SUBSCRIBE: the pool must be there when
\* the broker delivers.
StartGate(a) ==
  /\ ~stopped /\ ~started
  /\ made < MaxPools
  /\ Hold(a, "start", "subscribe")
  /\ started' = TRUE
  /\ pool' = made + 1 /\ made' = made + 1
  /\ queue' = [w \in Workers |-> <<>>] /\ closed' = {} /\ working' = Workers
  /\ reclaim' = 0
  /\ UNCHANGED <<routes, attributed, stopped, job, flush, broker, history>>

ResubscribeGate(a) ==
  /\ started /\ ~stopped
  /\ Hold(a, "resubscribe", "subscribe")
  /\ reclaim' = 0
  /\ UNCHANGED <<router, workers, flush, broker, history>>

\* Stop closes the gate before the first UNSUBSCRIBE.
StopGate(a) ==
  /\ ~stopped
  /\ Hold(a, "stop", IF started /\ routes # {} THEN "unsubscribe" ELSE "close")
  /\ stopped' = TRUE
  /\ pool' = 0 /\ reclaim' = pool
  /\ UNCHANGED <<routes, attributed, started, made, workers, flush, broker, history>>

\* The call returns: lifeMu is free and the frame is gone.
Return ==
  /\ life' = None /\ op' = "stop" /\ phase' = "none"
  /\ todo' = {} /\ done' = {} /\ at' = None /\ live' = {} /\ reclaim' = 0
  /\ pc' = [pc EXCEPT ![life] = "idle"]

\* subscribe(f): the SUBSCRIBE is on the wire.
SubscribeSent(f) ==
  /\ phase = "subscribe"
  /\ f \in MostSpecific(todo)
  /\ phase' = "sent" /\ at' = f /\ todo' = todo \ {f}
  /\ UNCHANGED <<router, workers, pc, flush, life, op, done, live, reclaim, broker, history>>

\* One SUBSCRIBE answered: the broker accepted it.
SubscribeAnswered ==
  /\ phase = "granted"
  /\ phase' = "subscribe" /\ done' = done \cup {at} /\ at' = None
  /\ UNCHANGED <<router, workers, pc, flush, life, op, todo, live, reclaim, broker, history>>

\* Mutant of SubscribeFails: nothing ends a call whose connection went.
SubscribeFailsUnlessLost ==
  /\ phase = "sent" /\ op \in Refuses
  /\ phase' = IF op = "start" THEN "rollback" ELSE "subscribe"
  /\ at' = None
  /\ UNCHANGED <<router, workers, pc, flush, life, op, todo, done, live, reclaim, broker, history>>

\* One that failed: the broker refused it, the connection went, or its answer was
\* lost and the caller's context ended. Start gives up, Resubscribe goes on.
SubscribeFails ==
  /\ \/ phase = "sent" /\ op \in Refuses
     \/ phase = "granted" /\ "lostAck" \in Refuses
     \/ phase = "lost"
  /\ phase' = IF op = "start" THEN "rollback" ELSE "subscribe"
  /\ at' = None
  /\ UNCHANGED <<router, workers, pc, flush, life, op, todo, done, live, reclaim, broker, history>>

\* Every filter has been asked for.
SubscribeEnds ==
  /\ phase = "subscribe" /\ todo = {}
  /\ Return
  /\ UNCHANGED <<router, workers, flush, broker, history>>

\* rollback: what Start subscribed is unsubscribed in the same order; what the
\* broker keeps is remembered.
RollbackStep(f) ==
  /\ phase = "rollback"
  /\ f \in MostSpecific(done)
  /\ done' = done \ {f}
  /\ \/ subs' = subs \ {f} /\ live' = live
     \/ "rollback" \in Refuses /\ subs' = subs /\ live' = live \cup {f}
  /\ UNCHANGED <<router, workers, pc, flush, life, op, phase, todo, at, reclaim,
                 inbound, connection, log, broken, history>>

\* Mutant of RollbackEnds: what the broker kept is forgotten.
RollbackEndsOpen ==
  /\ phase = "rollback" /\ done = {}
  /\ started' = FALSE
  /\ stopped' = FALSE
  /\ pool' = 0 /\ reclaim' = pool
  /\ phase' = "close"
  /\ UNCHANGED <<routes, attributed, made, workers, pc, flush, life, op, todo, done, at, live,
                 broker, history>>

RollbackEnds ==
  /\ phase = "rollback" /\ done = {}
  /\ started' = FALSE
  /\ stopped' = (live # {})
  /\ pool' = 0 /\ reclaim' = pool
  /\ phase' = "close"
  /\ UNCHANGED <<routes, attributed, made, workers, pc, flush, life, op, todo, done, at, live,
                 broker, history>>

\* Stop's unsubscribes; one that fails is reported and passed over.
UnsubscribeStep(f) ==
  /\ phase = "unsubscribe"
  /\ f \in todo
  /\ todo' = todo \ {f}
  /\ phase' = IF todo' = {} THEN "close" ELSE phase
  /\ \/ subs' = subs \ {f}
     \/ "stop" \in Refuses /\ subs' = subs
  /\ UNCHANGED <<router, workers, pc, flush, life, op, done, at, live, reclaim,
                 inbound, connection, log, broken, history>>

\* commandPool.close: each queue in turn, then every worker's exit.
CloseQueue(w) ==
  /\ phase = "close" /\ reclaim # 0
  /\ w \notin closed /\ \A v \in 1..(w - 1) : v \in closed
  /\ closed' = closed \cup {w}
  /\ UNCHANGED <<router, queue, working, job, pc, flush, holder, broker, history>>

Drained ==
  /\ phase = "close"
  /\ reclaim # 0 => closed = Workers /\ working = {}
  /\ Return
  /\ UNCHANGED <<router, workers, flush, broker, history>>
-----------------------------------------------------------------------------
(* WaitIdle.                                                                 *)

\* The pool is read under mu; without one there is nothing to wait for.
ReadPool(a) ==
  /\ pc[a] = "waitIdle"
  /\ flush' = [flush EXCEPT ![a] = [NoFlush EXCEPT !.pool = pool, !.upTo = accepted]]
  /\ pc' = [pc EXCEPT ![a] = "flush"]
  /\ UNCHANGED <<router, workers, holder, broker, history>>

\* Mutant of PushSentinel: one queue too many.
PushSentinelPastEnd(a) ==
  LET w    == flush[a].next
      open == flush[a].pool = made /\ w \notin closed
  IN  /\ pc[a] = "flush" /\ flush[a].pool # 0
      /\ flush' = [flush EXCEPT ![a].next = w + 1,
                                ![a].wait = IF open THEN @ \cup {w} ELSE @]
      /\ queue' = IF open THEN [queue EXCEPT ![w] = Append(@, a)] ELSE queue
      /\ UNCHANGED <<router, closed, working, job, pc, holder, broker, history>>

\* flush: a sentinel into each queue; a closed queue, or one of a pool that is
\* gone, takes none.
PushSentinel(a) ==
  LET w    == flush[a].next
      open == flush[a].pool = made /\ w \notin closed
  IN  /\ pc[a] = "flush" /\ flush[a].pool # 0 /\ w \in Workers
      /\ flush' = [flush EXCEPT ![a].next = w + 1,
                                ![a].wait = IF open THEN @ \cup {w} ELSE @]
      /\ queue' = IF open THEN [queue EXCEPT ![w] = Append(@, a)] ELSE queue
      /\ UNCHANGED <<router, closed, working, job, pc, holder, broker, history>>

\* Mutant of FlushEnds: the sentinels are not waited for.
FlushEndsEarly(a) ==
  /\ pc[a] = "flush"
  /\ flush[a].pool = 0 \/ flush[a].next > NumWorkers
  /\ pc' = [pc EXCEPT ![a] = "idle"]
  /\ flush' = [flush EXCEPT ![a] = NoFlush]
  /\ UNCHANGED <<router, workers, holder, broker, history>>

FlushEnds(a) ==
  /\ pc[a] = "flush"
  /\ flush[a].pool = 0 \/ flush[a].next > NumWorkers
  /\ flush[a].wait = {}
  /\ pc' = [pc EXCEPT ![a] = "idle"]
  /\ flush' = [flush EXCEPT ![a] = NoFlush]
  /\ UNCHANGED <<router, workers, holder, broker, history>>
-----------------------------------------------------------------------------
(* Workers.                                                                  *)

\* The next job: a handler, which may first call back into the router, or a
\* sentinel.
Pop(w) ==
  /\ w \in working /\ job[w] = None
  /\ queue[w] # <<>>
  /\ queue' = [queue EXCEPT ![w] = Tail(@)]
  /\ LET j == Head(queue[w])
     IN  IF j \in Callers
         THEN /\ flush' = [flush EXCEPT ![j].wait = @ \ {w}]
              /\ UNCHANGED <<job, pc, ran>>
         ELSE /\ job' = [job EXCEPT ![w] = j]
              /\ \E o \in {"idle"} \cup HandlerCalls : pc' = [pc EXCEPT ![w] = o]
              /\ ran' = Append(ran, j)
              /\ UNCHANGED flush
  /\ UNCHANGED <<router, closed, working, holder, broker, accepted, outranked, missed, late, finished>>

HandlerReturns(w) ==
  /\ job[w] # None /\ pc[w] = "idle"
  /\ job' = [job EXCEPT ![w] = None]
  /\ finished' = finished \cup {job[w]}
  /\ UNCHANGED <<router, queue, closed, working, pc, flush, holder, broker,
                 accepted, outranked, missed, late, ran>>

\* Mutant of Exit: a worker leaves its backlog behind.
ExitOnClose(w) ==
  /\ w \in working /\ w \in closed /\ job[w] = None
  /\ working' = working \ {w}
  /\ UNCHANGED <<router, queue, closed, job, pc, flush, holder, broker, history>>

Exit(w) ==
  /\ w \in working /\ w \in closed /\ job[w] = None /\ queue[w] = <<>>
  /\ working' = working \ {w}
  /\ UNCHANGED <<router, queue, closed, job, pc, flush, holder, broker, history>>
-----------------------------------------------------------------------------
(* The broker, and the copies it forwards.                                   *)

Forward(t, retained, to) ==
  /\ Len(log) < MaxMessages
  /\ log' = Append(log, [topic |-> t, retained |-> retained, pool |-> pool])
  /\ inbound' = Append(inbound, [msg |-> Len(log) + 1, to |-> to])

\* Somebody publishes a command; the broker sends a copy per subscription.
Publish(t) ==
  LET to == {f \in subs : t \in Claims[f]}
  IN  /\ to # {}
      /\ Forward(t, FALSE, to)
      /\ UNCHANGED <<router, workers, pc, flush, holder, subs, connection, broken, history>>

\* The broker registers a subscription and replays what it retains for it.
Grant ==
  /\ phase = "sent"
  /\ phase' = "granted"
  /\ subs' = subs \cup {at}
  /\ IF Retained \in Claims[at] /\ Len(log) < MaxMessages
     THEN Forward(Retained, TRUE, {at})
     ELSE UNCHANGED <<log, inbound>>
  /\ UNCHANGED <<router, workers, pc, flush, life, op, todo, done, at, live, reclaim,
                 connection, broken, history>>

\* deliver, on the transport's read loop, for a copy that came for f: the gate,
\* the owner, the retained check and the enqueue are one section under mu.
Deliver(f) ==
  /\ inbound # <<>>
  /\ f \in Head(inbound).to
  /\ LET m == Head(inbound).msg
         t == TopicOf(m)
         w == poolIndex[t]
     IN  /\ inbound' = IF Head(inbound).to = {f} THEN Tail(inbound)
                       ELSE [inbound EXCEPT ![1] = [msg |-> m, to |-> @.to \ {f}]]
         /\ \/ /\ stopped \/ pool = 0
               /\ missed' = missed \cup {m}
               /\ UNCHANGED <<queue, accepted, outranked, late>>
            \/ /\ ~stopped /\ pool # 0 /\ Superseded(f, t)
               /\ outranked' = outranked \cup {m}
               /\ UNCHANGED <<queue, accepted, missed, late>>
            \/ /\ ~stopped /\ pool # 0 /\ ~Superseded(f, t)
               /\ IsRetained(m) /\ ~DeliverRetained
               /\ missed' = missed \cup {m}
               /\ UNCHANGED <<queue, accepted, outranked, late>>
            \/ /\ ~stopped /\ pool # 0 /\ ~Superseded(f, t)
               /\ IsRetained(m) => DeliverRetained
               /\ IF w \in closed
                  THEN late' = late \cup {m} /\ UNCHANGED <<queue, accepted>>
                  ELSE /\ queue' = [queue EXCEPT ![w] = Append(@, m)]
                       /\ accepted' = accepted \cup {m}
                       /\ UNCHANGED late
               /\ UNCHANGED <<outranked, missed>>
  /\ UNCHANGED <<router, closed, working, job, pc, flush, holder, subs, connection, log, broken,
                 ran, finished>>

\* A new connection and a session that starts clean: subscriptions and copies on
\* their way are gone, and so is the answer to a call in flight.
Reconnect ==
  /\ connection < MaxConnections
  /\ connection' = connection + 1
  /\ subs' = {} /\ inbound' = <<>>
  /\ phase' = IF phase \in {"sent", "granted"} THEN "lost" ELSE phase
  /\ broken' = (phase \in {"subscribe", "sent", "granted", "lost"})
  /\ missed' = missed \cup {inbound[i].msg : i \in DOMAIN inbound}
  /\ UNCHANGED <<router, workers, pc, flush, life, op, todo, done, at, live, reclaim,
                 log, accepted, outranked, late, ran, finished>>
-----------------------------------------------------------------------------
Acquire(a) == Refused(a) \/ StartGate(a) \/ ResubscribeGate(a) \/ StopGate(a)

HolderStep ==
  \/ \E f \in Filters : SubscribeSent(f) \/ RollbackStep(f) \/ UnsubscribeStep(f)
  \/ SubscribeAnswered \/ SubscribeFails \/ SubscribeEnds
  \/ RollbackEnds
  \/ \E w \in Workers : CloseQueue(w)
  \/ Drained

Next ==
  \/ \E f \in Filters : Handle(f) \/ Deliver(f)
  \/ \E a \in Callers, o \in Operations : Call(a, o)
  \/ \E a \in Actors : Acquire(a)
  \/ \E a \in Callers : ReadPool(a) \/ PushSentinel(a) \/ FlushEnds(a)
  \/ HolderStep
  \/ \E w \in Workers : Pop(w) \/ HandlerReturns(w) \/ Exit(w)
  \/ \E t \in Topics : Publish(t)
  \/ Grant
  \/ Reconnect

Spec == Init /\ [][Next]_vars
=============================================================================
