-------------------------- MODULE CommandProperties --------------------------
(* What CommandRouter promises.                                              *)
EXTENDS CommandRouter

Messages == 1..MaxMessages
Pools    == 0..MaxPools

\* The state CommandRouter keeps (command.go:500-555, command_pool.go:27-49).
TypeOK ==
  /\ routes \subseteq Filters
  /\ {attributed, started, stopped} \subseteq BOOLEAN
  /\ pool \in Pools /\ made \in Pools /\ reclaim \in Pools
  /\ queue \in [Workers -> Seq(Messages \cup Callers)]
  /\ closed \subseteq Workers /\ working \subseteq Workers
  /\ job \in [Workers -> Messages \cup {None}]
  /\ pc \in [Actors -> Operations \cup {"idle", "holds", "flush"}]
  /\ flush \in [Callers -> [pool : Pools, next : 1..(NumWorkers + 1),
                           wait : SUBSET Workers, upTo : SUBSET Messages]]
  /\ life \in Actors \cup {None} /\ op \in Operations
  /\ phase \in {"none", "subscribe", "sent", "granted", "lost", "rollback", "unsubscribe", "close"}
  /\ todo \subseteq Filters /\ done \subseteq Filters /\ live \subseteq Filters
  /\ at \in Filters \cup {None}
  /\ subs \subseteq Filters
  /\ inbound \in Seq([msg : Messages, to : SUBSET Filters])
  /\ connection \in 0..MaxConnections /\ broken \in BOOLEAN
  /\ log \in Seq([topic : Topics, retained : BOOLEAN, pool : Pools]) /\ Len(log) <= MaxMessages
  /\ accepted \subseteq Messages /\ outranked \subseteq Messages
  /\ missed \subseteq Messages /\ late \subseteq Messages /\ finished \subseteq Messages
  /\ ran \in Seq(Messages)

\* However the routes were registered, the ones that match a topic have one that
\* outranks all the others, and a router that does not attribute has one route at
\* most for any topic (handle and resolveLocked, command.go:664 and 1203).
OneOwner ==
  \A t \in Topics :
    /\ Matching(t) # {} => \E f \in Matching(t) : \A g \in Matching(t) \ {f} : Outranking[f][g]
    /\ ~attributed => Cardinality(Matching(t)) <= 1

\* Exactly one handler per command, in order: no command runs twice, however many
\* subscriptions it matched, and a command starts only after every earlier one of
\* its topic has finished (command.go:1126 and command_pool.go:128).
CommandsInOrder ==
  \A i, j \in DOMAIN ran :
    i < j /\ TopicOf(ran[i]) = TopicOf(ran[j]) => ran[i] < ran[j] /\ ran[i] \in finished

\* The boundary of Stop, and of a Start that failed, is exact: once the call has
\* returned every command it accepted has run, no worker is left, and none that
\* passed the gate was turned away by a closed queue (command.go:905-923, 820-834).
StopDrains ==
  /\ life = None /\ pool = 0 => accepted \subseteq finished /\ working = {}
  /\ late = {}

\* No router that may yet be started, or that never was, has a subscription on the
\* broker: what a failed Start could not take down closes it for good
\* (command.go:763-786).
NoLiveRouteUnlessClosed ==
  life = None /\ pool = 0 /\ subs # {} => stopped

\* A copy is dropped as outranked only when its message is not lost by it: the
\* owner has accepted it, its copy is still to come, or it met the gate. Claimed of
\* what is published while the pool that reads it is the router's, on one connection
\* and before a failed Start is being rolled back; a replay of what is retained is a
\* message of each subscription's own (routeSubsLocked, command.go:1236-1268).
OwnerServed ==
  [][ \A m \in outranked' \ outranked :
        log[m].pool = pool /\ ~IsRetained(m) =>
          \/ m \in accepted \cup missed
          \/ \E i \in DOMAIN inbound' :
               inbound'[i].msg = m /\ Owner(TopicOf(m)) \in inbound'[i].to
          \/ broken
          \/ phase = "rollback" ]_vars

\* WaitIdle on a pool that is still the router's returns after every command
\* accepted before it (command.go:957-972, flush in command_pool.go:153).
WaitIdleIsABarrier ==
  [][ \A a \in Callers :
        pc[a] = "flush" /\ pc'[a] = "idle" /\ pool # 0 /\ flush[a].pool = pool
          => flush[a].upTo \subseteq finished ]_vars
-----------------------------------------------------------------------------
(* Liveness. Fairness: the broker answers or the caller's context ends, every *)
(* goroutine that can run does, Go's mutex lets no waiter starve, and a       *)
(* handler returns, as CommandHandler asks of it.                             *)

FairSpec ==
  /\ Spec
  /\ WF_vars(HolderStep) /\ WF_vars(Grant)
  /\ \A a \in Actors : SF_vars(Acquire(a))
  /\ \A a \in Callers : WF_vars(ReadPool(a) \/ PushSentinel(a) \/ FlushEnds(a))
  /\ \A w \in Workers : WF_vars(Pop(w) \/ HandlerReturns(w) \/ Exit(w))

\* Every accepted command runs to its end, and every Start, Resubscribe, Stop and
\* WaitIdle returns, whatever the broker refuses (command.go:905-955).
AcceptedRuns ==
  \A m \in Messages : m \in accepted ~> m \in finished
CallsReturn ==
  \A a \in Callers : pc[a] # "idle" ~> pc[a] = "idle"
=============================================================================
