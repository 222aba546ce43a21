---------------------------- MODULE CommandProofs ----------------------------
(***************************************************************************)
(* What CommandRouter keeps to for every set of routes, topics, workers,   *)
(* callers and refusals, and any number of messages, pools and connections.*)
(***************************************************************************)
EXTENDS CommandProperties, FilterProofs

LEMMA ConstantsAre ==
  /\ NumWorkers \in Nat \ {0}
  /\ poolIndex \in [Topics -> Workers]
  /\ Workers \subseteq Nat /\ Callers \cap Nat = {} /\ None \notin Nat /\ None \notin Callers
  /\ Callers \cap Workers = {} /\ None \notin Actors /\ None \notin Filters /\ None \notin Topics
  /\ \A a \in Callers : MayCall[a] \subseteq Operations
  /\ HandlerCalls \subseteq Operations
  /\ MaxMessages \in Nat /\ MaxPools \in Nat /\ MaxConnections \in Nat
  /\ Retained \in Topics \cup {None}
  BY RouterAssumption DEF RouterAssumption, Workers, Actors

-----------------------------------------------------------------------------
(* Sequences and queues.                                                   *)

\* Copies on their way, and what takes one off the first of them.
CopiesOf(M, F) == [msg : M, to : SUBSET F]

LEMMA InDomain ==
  ASSUME NEW S, NEW s \in Seq(S)
  PROVE  \A i \in DOMAIN s : s[i] \in S
  BY ElementOfSeq, LenProperties

LEMMA FirstReplaced ==
  ASSUME NEW S, NEW s \in Seq(S), s # <<>>, NEW e \in S
  PROVE  /\ [s EXCEPT ![1] = e] \in Seq(S) /\ Len([s EXCEPT ![1] = e]) = Len(s)
         /\ [s EXCEPT ![1] = e][1] = e
         /\ \A i \in 2..Len(s) : [s EXCEPT ![1] = e][i] = s[i]
         /\ Head(s) = s[1] /\ s[1] \in S /\ Len(s) \in Nat \ {0}
  <1>1. 1 \in 1..Len(s) /\ s[1] \in S /\ Len(s) \in Nat \ {0} /\ Head(s) = s[1]
    BY EmptySeq, ElementOfSeq
  <1>2. /\ [s EXCEPT ![1] = e] \in Seq(S) /\ Len([s EXCEPT ![1] = e]) = Len(s)
        /\ \A j \in 1..Len(s) : [s EXCEPT ![1] = e][j] = IF j = 1 THEN e ELSE s[j]
    BY <1>1, ExceptSeq
  <1>3. /\ [s EXCEPT ![1] = e][1] = e
        /\ \A i \in 2..Len(s) : [s EXCEPT ![1] = e][i] = s[i]
    BY <1>1, <1>2
  <1>4. QED
    BY <1>1, <1>2, <1>3

\* The rest of the copies of the message at the head of the queue.
LEMMA CopyTaken ==
  ASSUME NEW M, NEW F, NEW s \in Seq(CopiesOf(M, F)), s # <<>>, NEW f,
         NEW r, r = [s EXCEPT ![1] = [msg |-> Head(s).msg, to |-> @.to \ {f}]]
  PROVE  /\ r \in Seq(CopiesOf(M, F)) /\ Len(r) = Len(s)
         /\ r[1] = [msg |-> s[1].msg, to |-> s[1].to \ {f}]
         /\ \A i \in 2..Len(s) : r[i] = s[i]
  <1>1. Head(s) = s[1] /\ s[1] \in CopiesOf(M, F)
    BY EmptySeq, ElementOfSeq
  <1>2. PICK e \in CopiesOf(M, F) : e = [msg |-> s[1].msg, to |-> s[1].to \ {f}]
    BY <1>1 DEF CopiesOf
  <1>3. r = [s EXCEPT ![1] = e]
    BY <1>1, <1>2
  <1>4. /\ [s EXCEPT ![1] = e] \in Seq(CopiesOf(M, F)) /\ Len([s EXCEPT ![1] = e]) = Len(s)
        /\ [s EXCEPT ![1] = e][1] = e
        /\ \A i \in 2..Len(s) : [s EXCEPT ![1] = e][i] = s[i]
    <2>1. PICK S : S = CopiesOf(M, F)
      OBVIOUS
    <2>2. s \in Seq(S) /\ e \in S
      BY <1>2, <2>1
    <2>3. /\ [s EXCEPT ![1] = e] \in Seq(S) /\ Len([s EXCEPT ![1] = e]) = Len(s)
          /\ [s EXCEPT ![1] = e][1] = e
          /\ \A i \in 2..Len(s) : [s EXCEPT ![1] = e][i] = s[i]
      BY <2>2, FirstReplaced
    <2>4. QED
      BY <2>1, <2>3, Zenon
  <1>5. QED
    BY <1>2, <1>3, <1>4, Zenon

LEMMA OneMessageMore ==
  ASSUME NEW S, NEW q \in [Workers -> Seq(S)], NEW w, NEW m \in S
  PROVE  [q EXCEPT ![w] = Append(@, m)] \in [Workers -> Seq(S)]
  <1>1. \A v \in Workers : Append(q[v], m) \in Seq(S)
    OBVIOUS
  <1>2. \A v \in Workers : [q EXCEPT ![w] = Append(@, m)][v] = IF v = w THEN Append(q[v], m) ELSE q[v]
    OBVIOUS
  <1>3. QED
    BY <1>1, <1>2

-----------------------------------------------------------------------------
(* Types.                                                                  *)

\* A call that waits for its answer names the filter it asked for.
AtIsAsked == phase \in {"sent", "granted"} => at \in Filters

Types == TypeOK /\ AtIsAsked

LEMMA TypesInit == Init => Types
  <1>1. 0 \in Pools /\ 0 \in 0..MaxConnections /\ 1 \in 1..(NumWorkers + 1) /\ Len(<<>>) <= MaxMessages
    BY ConstantsAre, EmptySeq DEF Pools
  <1>2. NoFlush \in [pool : Pools, next : 1..(NumWorkers + 1), wait : SUBSET Workers, upTo : SUBSET Messages]
    BY <1>1 DEF NoFlush
  <1>3. SUFFICES ASSUME Init PROVE Types
    OBVIOUS
  <1>4. /\ queue \in [Workers -> Seq(Messages \cup Callers)]
        /\ job \in [Workers -> Messages \cup {None}]
        /\ pc \in [Actors -> Operations \cup {"idle", "holds", "flush"}]
        /\ flush \in [Callers -> [pool : Pools, next : 1..(NumWorkers + 1),
                                  wait : SUBSET Workers, upTo : SUBSET Messages]]
    BY <1>2, <1>3, EmptySeq DEF Init
  <1>5. /\ inbound \in Seq([msg : Messages, to : SUBSET Filters])
        /\ log \in Seq([topic : Topics, retained : BOOLEAN, pool : Pools]) /\ Len(log) <= MaxMessages
        /\ ran \in Seq(Messages)
    BY <1>1, <1>3, EmptySeq DEF Init
  <1>6. /\ pool \in Pools /\ made \in Pools /\ reclaim \in Pools /\ connection \in 0..MaxConnections
        /\ op \in Operations /\ broken \in BOOLEAN
    BY <1>1, <1>3 DEF Init, Operations
  <1>7. QED
    BY <1>3, <1>4, <1>5, <1>6 DEF Init, Types, TypeOK, AtIsAsked

LEMMA TypesRegistration ==
  ASSUME Types, NEW f \in Filters, Handle(f)
  PROVE  Types'
  BY DEF Handle, Types, TypeOK, AtIsAsked, workers, holder, broker, history

LEMMA TypesCalls ==
  ASSUME Types, NEW a \in Actors,
         \/ a \in Callers /\ \E o \in Operations : Call(a, o)
         \/ Refused(a) \/ StartGate(a) \/ ResubscribeGate(a) \/ StopGate(a)
  PROVE  Types'
  <1>1. ASSUME a \in Callers, NEW o \in Operations, Call(a, o)
        PROVE  Types'
    BY <1>1 DEF Call, Types, TypeOK, AtIsAsked, router, workers, holder, broker, history
  <1>2. ASSUME Refused(a)
        PROVE  Types'
    BY <1>2 DEF Refused, Types, TypeOK, AtIsAsked, router, workers, holder, broker, history
  <1>3. ASSUME StartGate(a)
        PROVE  Types'
    BY <1>3, ConstantsAre DEF StartGate, Hold, Types, TypeOK, AtIsAsked, Pools, Operations, broker, history
  <1>4. ASSUME ResubscribeGate(a)
        PROVE  Types'
    BY <1>4, ConstantsAre DEF ResubscribeGate, Hold, Types, TypeOK, AtIsAsked, Pools, Operations,
                              router, workers, broker, history
  <1>5. ASSUME StopGate(a)
        PROVE  Types'
    BY <1>5, ConstantsAre DEF StopGate, Hold, Types, TypeOK, AtIsAsked, Pools, Operations,
                              workers, broker, history
  <1>6. QED
    BY <1>1, <1>2, <1>3, <1>4, <1>5

LEMMA TypesReturn ==
  ASSUME Types, Return, UNCHANGED <<router, workers, flush, broker, history>>
  PROVE  Types'
  <1>1. 0 \in Pools /\ "stop" \in Operations
    BY ConstantsAre DEF Pools, Operations
  <1>2. QED
    BY <1>1 DEF Return, Types, TypeOK, AtIsAsked, router, workers, broker, history

LEMMA TypesHolder ==
  ASSUME Types, HolderStep
  PROVE  Types'
  <1>. USE DEF Types, TypeOK, AtIsAsked, router, workers, broker, history
  <1>1. ASSUME NEW f \in Filters, SubscribeSent(f)
        PROVE  Types'
    BY <1>1 DEF SubscribeSent
  <1>2. ASSUME NEW f \in Filters, RollbackStep(f)
        PROVE  Types'
    BY <1>2 DEF RollbackStep
  <1>3. ASSUME NEW f \in Filters, UnsubscribeStep(f)
        PROVE  Types'
    BY <1>3 DEF UnsubscribeStep
  <1>4. CASE SubscribeAnswered
    BY <1>4 DEF SubscribeAnswered
  <1>5. CASE SubscribeFails
    BY <1>5 DEF SubscribeFails
  <1>6. CASE SubscribeEnds
    <2>. HIDE DEF Types
    <2>. QED
      BY <1>6, TypesReturn DEF SubscribeEnds
  <1>7. CASE RollbackEnds
    <2>1. 0 \in Pools
      BY ConstantsAre DEF Pools
    <2>2. QED
      BY <1>7, <2>1 DEF RollbackEnds
  <1>8. ASSUME NEW w \in Workers, CloseQueue(w)
        PROVE  Types'
    BY <1>8 DEF CloseQueue, holder
  <1>9. CASE Drained
    <2>. HIDE DEF Types
    <2>. QED
      BY <1>9, TypesReturn DEF Drained
  <1>10. QED
    BY <1>1, <1>2, <1>3, <1>4, <1>5, <1>6, <1>7, <1>8, <1>9 DEF HolderStep

LEMMA TypesFlush ==
  ASSUME Types, NEW a \in Callers, ReadPool(a) \/ PushSentinel(a) \/ FlushEnds(a)
  PROVE  Types'
  <1>. USE DEF Types, TypeOK, AtIsAsked, router, workers, holder, broker, history
  <1>. DEFINE Flushes == [pool : Pools, next : 1..(NumWorkers + 1),
                          wait : SUBSET Workers, upTo : SUBSET Messages]
  <1>1. NumWorkers \in Nat \ {0} /\ Workers = 1..NumWorkers /\ NoFlush \in Flushes
    BY ConstantsAre DEF NoFlush, Pools, Workers
  <1>2. CASE ReadPool(a)
    <2>1. [NoFlush EXCEPT !.pool = pool, !.upTo = accepted] \in Flushes
      BY <1>1 DEF NoFlush
    <2>2. QED
      BY <1>2, <2>1 DEF ReadPool
  <1>3. CASE PushSentinel(a)
    <2>1. flush[a].next \in 1..NumWorkers /\ flush[a].next + 1 \in 1..(NumWorkers + 1)
      BY <1>1, <1>3 DEF PushSentinel
    <2>2. flush' \in [Callers -> Flushes]
      BY <1>1, <1>3, <2>1 DEF PushSentinel
    <2>3. queue' \in [Workers -> Seq(Messages \cup Callers)]
      BY <1>1, <1>3 DEF PushSentinel
    <2>4. QED
      BY <1>3, <2>2, <2>3 DEF PushSentinel
  <1>4. CASE FlushEnds(a)
    BY <1>1, <1>4 DEF FlushEnds
  <1>5. QED
    BY <1>2, <1>3, <1>4

LEMMA TypesWorkers ==
  ASSUME Types, NEW w \in Workers, Pop(w) \/ HandlerReturns(w) \/ Exit(w)
  PROVE  Types'
  <1>. USE DEF Types, TypeOK, AtIsAsked, router, workers, holder, broker, history
  <1>1. CASE Pop(w)
    <2>. DEFINE S == Messages \cup Callers
                j == Head(queue[w])
    <2>1. j \in S /\ Tail(queue[w]) \in Seq(S)
      <3>1. queue[w] \in Seq(S) /\ queue[w] # <<>>
        BY <1>1 DEF Pop
      <3>2. QED
        BY <3>1, HeadTailProperties
    <2>2. queue' \in [Workers -> Seq(S)]
      <3>1. queue' = [queue EXCEPT ![w] = Tail(@)]
        BY <1>1 DEF Pop
      <3>2. QED
        BY <2>1, <3>1
    <2>3. CASE j \in Callers
      <3>1. UNCHANGED <<job, pc, ran>> /\ flush' = [flush EXCEPT ![j].wait = @ \ {w}]
        BY <1>1, <2>3 DEF Pop
      <3>2. flush' \in [Callers -> [pool : Pools, next : 1..(NumWorkers + 1),
                                    wait : SUBSET Workers, upTo : SUBSET Messages]]
        BY <3>1
      <3>3. QED
        BY <1>1, <2>2, <3>1, <3>2 DEF Pop
    <2>4. CASE j \notin Callers
      <3>1. j \in Messages
        BY <2>1, <2>4
      <3>2. /\ job' = [job EXCEPT ![w] = j] /\ ran' = Append(ran, j) /\ UNCHANGED flush
            /\ \E o \in {"idle"} \cup HandlerCalls : pc' = [pc EXCEPT ![w] = o]
        BY <1>1, <2>4 DEF Pop
      <3>3. pc' \in [Actors -> Operations \cup {"idle", "holds", "flush"}]
        BY <3>2, ConstantsAre
      <3>4. job' \in [Workers -> Messages \cup {None}] /\ ran' \in Seq(Messages)
        BY <3>1, <3>2
      <3>5. QED
        BY <1>1, <2>2, <3>2, <3>3, <3>4 DEF Pop
    <2>5. QED
      BY <2>3, <2>4
  <1>2. CASE HandlerReturns(w)
    BY <1>2 DEF HandlerReturns
  <1>3. CASE Exit(w)
    BY <1>3 DEF Exit
  <1>4. QED
    BY <1>1, <1>2, <1>3

LEMMA TypesBroker ==
  ASSUME Types, \/ \E t \in Topics : Publish(t)
                \/ Grant \/ Reconnect
                \/ \E f \in Filters : Deliver(f)
  PROVE  Types'
  <1>. USE DEF Types, TypeOK, AtIsAsked, router, workers, holder, broker, history
  <1>1. ASSUME NEW t \in Topics, NEW r \in BOOLEAN, NEW to \in SUBSET Filters, Forward(t, r, to)
        PROVE  /\ log' \in Seq([topic : Topics, retained : BOOLEAN, pool : Pools]) /\ Len(log') <= MaxMessages
               /\ inbound' \in Seq([msg : Messages, to : SUBSET Filters])
    <2>1. Len(log) + 1 \in Messages
      BY <1>1, ConstantsAre DEF Forward, Messages
    <2>2. [topic |-> t, retained |-> r, pool |-> pool] \in [topic : Topics, retained : BOOLEAN, pool : Pools]
      OBVIOUS
    <2>3. log' \in Seq([topic : Topics, retained : BOOLEAN, pool : Pools]) /\ Len(log') = Len(log) + 1
      BY <1>1, <2>2 DEF Forward
    <2>4. [msg |-> Len(log) + 1, to |-> to] \in [msg : Messages, to : SUBSET Filters]
      BY <2>1
    <2>5. inbound' \in Seq([msg : Messages, to : SUBSET Filters])
      BY <1>1, <2>4 DEF Forward
    <2>6. QED
      BY <2>1, <2>3, <2>5 DEF Messages
  <1>2. ASSUME NEW t \in Topics, Publish(t)
        PROVE  Types'
    <2>1. {f \in subs : t \in Claims[f]} \in SUBSET Filters
      OBVIOUS
    <2>2. QED
      BY <1>1, <1>2, <2>1 DEF Publish
  <1>3. CASE Grant
    <2>1. {at} \in SUBSET Filters
      BY <1>3 DEF Grant
    <2>2. /\ log' \in Seq([topic : Topics, retained : BOOLEAN, pool : Pools]) /\ Len(log') <= MaxMessages
          /\ inbound' \in Seq([msg : Messages, to : SUBSET Filters])
      <3>1. CASE Retained \in Claims[at] /\ Len(log) < MaxMessages
        <4>1. Retained \in Topics
          BY <2>1, <3>1 DEF Claims
        <4>2. QED
          BY <1>1, <1>3, <2>1, <3>1, <4>1 DEF Grant
      <3>2. CASE ~(Retained \in Claims[at] /\ Len(log) < MaxMessages)
        BY <1>3, <3>2 DEF Grant
      <3>3. QED
        BY <3>1, <3>2
    <2>3. QED
      BY <1>3, <2>1, <2>2 DEF Grant
  <1>4. CASE Reconnect
    <2>1. {inbound[i].msg : i \in DOMAIN inbound} \subseteq Messages
      <3>1. \A i \in DOMAIN inbound : inbound[i] \in [msg : Messages, to : SUBSET Filters]
        <4>1. inbound \in Seq([msg : Messages, to : SUBSET Filters])
          OBVIOUS
        <4>2. QED
          BY <4>1, InDomain
      <3>2. \A i \in DOMAIN inbound : inbound[i].msg \in Messages
        BY <3>1
      <3>. HIDE DEF Types, TypeOK
      <3>3. QED
        BY <3>2
    <2>2. connection + 1 \in 0..MaxConnections
      BY <1>4, ConstantsAre DEF Reconnect
    <2>3. QED
      BY <1>4, <2>1, <2>2, EmptySeq DEF Reconnect
  <1>5. ASSUME NEW f \in Filters, Deliver(f)
        PROVE  Types'
    <2>. DEFINE m == Head(inbound).msg
                w == poolIndex[TopicOf(m)]
    <2>1. Head(inbound) \in [msg : Messages, to : SUBSET Filters]
          /\ Tail(inbound) \in Seq([msg : Messages, to : SUBSET Filters])
      BY <1>5, HeadTailProperties DEF Deliver
    <2>2. inbound' \in Seq([msg : Messages, to : SUBSET Filters])
      <3>1. CASE Head(inbound).to = {f}
        BY <1>5, <2>1, <3>1 DEF Deliver
      <3>2. CASE Head(inbound).to # {f}
        <4>1. inbound \in Seq(CopiesOf(Messages, Filters)) /\ inbound # <<>>
          BY <1>5 DEF Deliver, CopiesOf
        <4>2. inbound' = [inbound EXCEPT ![1] = [msg |-> m, to |-> @.to \ {f}]]
          BY <1>5, <3>2 DEF Deliver
        <4>. HIDE DEF Types, TypeOK
        <4>3. inbound' \in Seq(CopiesOf(Messages, Filters))
          BY <4>1, <4>2, CopyTaken, Zenon
        <4>4. QED
          BY <4>3 DEF CopiesOf
      <3>3. QED
        BY <3>1, <3>2
    <2>3. m \in Messages
      BY <2>1
    <2>4. [queue EXCEPT ![w] = Append(@, m)] \in [Workers -> Seq(Messages \cup Callers)]
      BY <2>3, OneMessageMore
    <2>5. queue' \in [Workers -> Seq(Messages \cup Callers)]
      BY <1>5, <2>4 DEF Deliver
    <2>6. /\ accepted' \subseteq Messages /\ outranked' \subseteq Messages
          /\ missed' \subseteq Messages /\ late' \subseteq Messages
      BY <1>5, <2>3 DEF Deliver
    <2>7. QED
      BY <1>5, <2>2, <2>5, <2>6 DEF Deliver
  <1>6. QED
    BY <1>2, <1>3, <1>4, <1>5

LEMMA TypesStutter ==
  ASSUME Types, UNCHANGED vars
  PROVE  Types'
  BY DEF Types, TypeOK, AtIsAsked, vars, router, workers, holder, broker, history

LEMMA TypesNext ==
  ASSUME Types, [Next]_vars
  PROVE  Types'
  <1>1. ASSUME NEW f \in Filters, Handle(f) \/ Deliver(f) PROVE Types'
    BY <1>1, TypesRegistration, TypesBroker
  <1>2. ASSUME NEW a \in Callers, NEW o \in Operations, Call(a, o) PROVE Types'
    BY <1>2, TypesCalls DEF Actors
  <1>3. ASSUME NEW a \in Actors, Acquire(a) PROVE Types'
    BY <1>3, TypesCalls DEF Acquire
  <1>4. ASSUME NEW a \in Callers, ReadPool(a) \/ PushSentinel(a) \/ FlushEnds(a) PROVE Types'
    BY <1>4, TypesFlush
  <1>5. ASSUME NEW w \in Workers, Pop(w) \/ HandlerReturns(w) \/ Exit(w) PROVE Types'
    BY <1>5, TypesWorkers
  <1>6. QED
    BY <1>1, <1>2, <1>3, <1>4, <1>5, TypesHolder, TypesBroker, TypesStutter DEF Next

\* The router's state has its types whatever is called and delivered
\* (command.go:500-555, command_pool.go:27-49).
THEOREM CommandTypes == Spec => []TypeOK
  <1>1. Types /\ [Next]_vars => Types'
    BY TypesNext
  <1>2. Types => TypeOK
    BY DEF Types
  <1>3. QED
    BY <1>1, <1>2, TypesInit, PTL DEF Spec

-----------------------------------------------------------------------------
(* The invariant.                                                          *)

\* A pool is the router's from the gate that opens it to the one that shuts it, and
\* its workers and queues are all there; what is left of it is the frame's to close.
Gate ==
  /\ life = None <=> phase = "none"
  /\ pool # 0 <=> started /\ ~stopped
  /\ pool # 0 => pool = made /\ closed = {} /\ working = Workers
  /\ phase \in {"subscribe", "sent", "granted", "lost", "rollback"} => pool # 0
  /\ phase \in {"unsubscribe", "close"} => pool = 0
  /\ reclaim # 0 => phase \in {"unsubscribe", "close"}
  /\ pool = 0 /\ reclaim = 0 => working = {}
  /\ made # 0 => Workers \ working \subseteq closed

\* Who holds lifeMu is inside its call, and a worker calls the router from its handler
\* alone.
Holding ==
  /\ life # None => pc[life] = "holds"
  /\ \A w \in Workers : pc[w] # "idle" => job[w] # None

\* A worker that is gone left nothing behind, and no closed queue turned a command away.
Emptied ==
  /\ \A w \in Workers \ working : job[w] = None /\ queue[w] = <<>>
  /\ late = {}

\* The strongest route of every topic there is, and a router that does not attribute
\* has no two that overlap.
Owners ==
  /\ \A t \in Topics : Matching(t) # {} =>
       \E f \in Matching(t) : \A g \in Matching(t) \ {f} : Outranking[f][g]
  /\ ~attributed => \A f, g \in routes : Overlaps[f][g] => f = g

\* What is asked of the broker is registered.
Asked ==
  /\ subs \subseteq routes /\ todo \subseteq routes /\ done \subseteq routes
  /\ at \in routes \cup {None}

\* What is forwarded came for routes that match, in the order it was published.
Copies ==
  \A i \in 1..Len(inbound) :
    /\ inbound[i].msg \in 1..Len(log)
    /\ inbound[i].to \subseteq Matching(TopicOf(inbound[i].msg))
    /\ \A j \in 1..Len(inbound) : i < j => inbound[i].msg < inbound[j].msg

\* What was accepted came before what is still to come, and of a command accepted
\* already only copies are left that another route outranks.
Once ==
  /\ accepted \subseteq 1..Len(log)
  /\ \A i \in 1..Len(inbound) :
       /\ \A m \in accepted : m <= inbound[i].msg
       /\ inbound[i].msg \in accepted =>
            /\ attributed
            /\ \A g \in inbound[i].to : \E f \in Matching(TopicOf(inbound[i].msg)) : Outranking[f][g]

WorkerOf(m) == poolIndex[TopicOf(m)]

\* m is in the hands of its worker, or in its queue.
Waiting(m) ==
  \/ job[WorkerOf(m)] = m
  \/ \E i \in 1..Len(queue[WorkerOf(m)]) : queue[WorkerOf(m)][i] = m

\* A queue holds commands of its own topics, oldest first.
Queued ==
  \A w \in Workers : \A i \in 1..Len(queue[w]) : queue[w][i] \notin Callers =>
    /\ queue[w][i] \in accepted /\ WorkerOf(queue[w][i]) = w
    /\ \A j \in 1..Len(queue[w]) : i < j /\ queue[w][j] \notin Callers => queue[w][i] < queue[w][j]

\* No command that was accepted is lost.
Accounted == \A m \in accepted : m \in finished \/ Waiting(m)

\* What a worker ran is older than what it still has to run, and all but its last has
\* finished.
Ran ==
  \A i \in 1..Len(ran) :
    LET w == WorkerOf(ran[i])
    IN  /\ ran[i] \in accepted
        /\ ran[i] \in finished \/ job[w] = ran[i]
        /\ \A k \in 1..Len(queue[w]) : queue[w][k] \notin Callers => ran[i] < queue[w][k]
        /\ \A j \in 1..Len(ran) : i < j /\ WorkerOf(ran[j]) = w => ran[i] < ran[j] /\ ran[i] \in finished

\* What a Start that may still fail has on the broker it knows of, unless the answer to
\* a SUBSCRIBE can be lost.
Known ==
  "lostAck" \notin Refuses =>
    /\ pool = 0 /\ ~stopped => subs = {}
    /\ op = "start" /\ phase \in {"subscribe", "sent", "granted", "lost", "rollback"} =>
         subs \subseteq done \cup live \cup (IF phase = "granted" THEN {at} ELSE {})
    /\ phase = "rollback" => op = "start"

\* A caller's sentinel lies once in each queue it waits for, and nowhere else; behind it
\* in no queue is a command the caller waits for.
Sentinels ==
  \A a \in Callers :
    /\ pc[a] # "flush" => flush[a] = NoFlush
    /\ flush[a].pool <= made
    /\ flush[a].upTo \subseteq accepted
    /\ \A w \in Workers :
         /\ w \in flush[a].wait <=> \E k \in 1..Len(queue[w]) : queue[w][k] = a
         /\ \A k, l \in 1..Len(queue[w]) : queue[w][k] = a /\ queue[w][l] = a => k = l
         /\ w \in flush[a].wait => w < flush[a].next

Behind ==
  \A a \in Callers : pc[a] = "flush" /\ pool # 0 /\ flush[a].pool = pool =>
    \A m \in flush[a].upTo :
      \/ m \in finished
      \/ flush[a].next <= WorkerOf(m)
      \/ \E k \in 1..Len(queue[WorkerOf(m)]) :
           /\ queue[WorkerOf(m)][k] = a
           /\ job[WorkerOf(m)] = m \/ \E i \in 1..(k - 1) : queue[WorkerOf(m)][i] = m

-----------------------------------------------------------------------------
(* Which steps touch what.                                                 *)

\* The commands: routes, what is on its way, and what the workers have of it.
commands == <<routes, attributed, log, inbound, accepted, late, queue, job, ran, finished>>

LEMMA Moves ==
  ASSUME [Next]_vars
  PROVE  \/ UNCHANGED commands
         \/ \E f \in Filters : Handle(f) \/ Deliver(f)
         \/ \E a \in Actors : StartGate(a)
         \/ \E a \in Callers : PushSentinel(a)
         \/ \E w \in Workers : Pop(w) \/ HandlerReturns(w)
         \/ \E t \in Topics : Publish(t)
         \/ Grant \/ Reconnect
  <1>. USE DEF commands, router, workers, broker, history
  <1>1. ASSUME NEW a \in Callers, NEW o \in Operations, Call(a, o) PROVE UNCHANGED commands
    BY <1>1 DEF Call
  <1>2. ASSUME NEW a \in Actors, Refused(a) \/ ResubscribeGate(a) \/ StopGate(a) PROVE UNCHANGED commands
    BY <1>2 DEF Refused, ResubscribeGate, StopGate
  <1>3. ASSUME NEW a \in Callers, ReadPool(a) \/ FlushEnds(a) PROVE UNCHANGED commands
    BY <1>3 DEF ReadPool, FlushEnds
  <1>4. ASSUME HolderStep PROVE UNCHANGED commands
    BY <1>4 DEF HolderStep, SubscribeSent, RollbackStep, UnsubscribeStep, SubscribeAnswered,
                SubscribeFails, SubscribeEnds, RollbackEnds, CloseQueue, Drained
  <1>5. ASSUME NEW w \in Workers, Exit(w) PROVE UNCHANGED commands
    BY <1>5 DEF Exit
  <1>6. ASSUME UNCHANGED vars PROVE UNCHANGED commands
    BY <1>6 DEF vars
  <1>. HIDE DEF commands, router, workers, broker, history
  <1>7. QED
    BY <1>1, <1>2, <1>3, <1>4, <1>5, <1>6 DEF Next, Acquire

\* The gate: who holds lifeMu and how far the call has come, and the pool.
gate == <<life, phase, pool, started, stopped, made, closed, working, reclaim>>

LEMMA GateMoves ==
  ASSUME [Next]_vars
  PROVE  \/ UNCHANGED gate
         \/ \E a \in Actors : StartGate(a) \/ ResubscribeGate(a) \/ StopGate(a)
         \/ HolderStep
         \/ \E w \in Workers : Exit(w)
         \/ Grant \/ Reconnect
  <1>. USE DEF gate, router, workers, broker, history, holder
  <1>1. ASSUME NEW a \in Callers, NEW o \in Operations, Call(a, o) PROVE UNCHANGED gate
    BY <1>1 DEF Call
  <1>2. ASSUME NEW a \in Actors, Refused(a) PROVE UNCHANGED gate
    BY <1>2 DEF Refused
  <1>3. ASSUME NEW a \in Callers, ReadPool(a) \/ PushSentinel(a) \/ FlushEnds(a) PROVE UNCHANGED gate
    BY <1>3 DEF ReadPool, PushSentinel, FlushEnds
  <1>4. ASSUME NEW f \in Filters, Handle(f) \/ Deliver(f) PROVE UNCHANGED gate
    BY <1>4 DEF Handle, Deliver
  <1>5. ASSUME NEW w \in Workers, Pop(w) \/ HandlerReturns(w) PROVE UNCHANGED gate
    BY <1>5 DEF Pop, HandlerReturns
  <1>6. ASSUME NEW t \in Topics, Publish(t) PROVE UNCHANGED gate
    BY <1>6 DEF Publish
  <1>7. ASSUME UNCHANGED vars PROVE UNCHANGED gate
    BY <1>7 DEF vars
  <1>. HIDE DEF gate, router, workers, broker, history, holder
  <1>8. QED
    BY <1>1, <1>2, <1>3, <1>4, <1>5, <1>6, <1>7 DEF Next, Acquire

-----------------------------------------------------------------------------
(* The gate.                                                               *)

LEMMA GateInit == Init => Gate
  BY DEF Init, Gate

LEMMA GateNext ==
  ASSUME Types, Gate, [Next]_vars
  PROVE  Gate'
  <1>. USE ConstantsAre DEF Gate
  <1>1. CASE UNCHANGED gate
    BY <1>1 DEF gate
  <1>2. ASSUME NEW a \in Actors, StartGate(a) PROVE Gate'
    BY <1>2 DEF StartGate, Hold, Types, TypeOK, Pools
  <1>3. ASSUME NEW a \in Actors, ResubscribeGate(a) PROVE Gate'
    BY <1>3 DEF ResubscribeGate, Hold, router, workers
  <1>4. ASSUME NEW a \in Actors, StopGate(a) PROVE Gate'
    BY <1>4 DEF StopGate, Hold, workers
  <1>5. ASSUME NEW f \in Filters, SubscribeSent(f) PROVE Gate'
    BY <1>5 DEF SubscribeSent, router, workers
  <1>6. ASSUME NEW f \in Filters, RollbackStep(f) PROVE Gate'
    BY <1>6 DEF RollbackStep, router, workers
  <1>7. ASSUME NEW f \in Filters, UnsubscribeStep(f) PROVE Gate'
    BY <1>7 DEF UnsubscribeStep, router, workers
  <1>8. CASE SubscribeAnswered
    BY <1>8 DEF SubscribeAnswered, router, workers
  <1>9. CASE SubscribeFails
    BY <1>9 DEF SubscribeFails, router, workers
  <1>10. CASE SubscribeEnds
    BY <1>10 DEF SubscribeEnds, Return, router, workers
  <1>11. CASE RollbackEnds
    BY <1>11 DEF RollbackEnds, workers
  <1>12. ASSUME NEW w \in Workers, CloseQueue(w) PROVE Gate'
    BY <1>12 DEF CloseQueue, router, holder
  <1>13. CASE Drained
    BY <1>13 DEF Drained, Return, router, workers
  <1>14. ASSUME NEW w \in Workers, Exit(w) PROVE Gate'
    BY <1>14 DEF Exit, router, holder
  <1>15. CASE Grant
    BY <1>15 DEF Grant, router, workers
  <1>16. CASE Reconnect
    BY <1>16 DEF Reconnect, router, workers
  <1>. HIDE DEF Gate
  <1>17. QED
    BY <1>1, <1>2, <1>3, <1>4, <1>5, <1>6, <1>7, <1>8, <1>9, <1>10, <1>11, <1>12, <1>13, <1>14,
       <1>15, <1>16, GateMoves DEF HolderStep

LEMMA HoldingInit == Init => Holding
  BY ConstantsAre DEF Init, Holding, Actors

LEMMA HoldingNext ==
  ASSUME Types, Gate, Holding, [Next]_vars
  PROVE  Holding'
  <1>. USE ConstantsAre DEF Holding, Actors
  <1>0. pc \in [Actors -> Operations \cup {"idle", "holds", "flush"}]
        /\ life \in Actors \cup {None} /\ job \in [Workers -> Messages \cup {None}] /\ None \notin Messages
    BY DEF Types, TypeOK, Messages
  <1>1. ASSUME NEW a \in Callers, NEW o \in Operations, Call(a, o) PROVE Holding'
    BY <1>0, <1>1 DEF Call, holder, workers, Operations
  <1>2. ASSUME NEW a \in Actors, Acquire(a) PROVE Holding'
    BY <1>0, <1>2 DEF Acquire, Refused, StartGate, ResubscribeGate, StopGate, Hold, holder, workers
  <1>3. ASSUME NEW a \in Callers, ReadPool(a) \/ PushSentinel(a) \/ FlushEnds(a) PROVE Holding'
    BY <1>0, <1>3 DEF ReadPool, PushSentinel, FlushEnds, holder, workers
  <1>4. ASSUME NEW w \in Workers, Pop(w) PROVE Holding'
    <2>1. life # w /\ w \notin Callers
      BY <1>0, <1>4 DEF Pop
    <2>2. CASE Head(queue[w]) \in Callers
      BY <1>0, <1>4, <2>2 DEF Pop, holder
    <2>3. CASE Head(queue[w]) \notin Callers
      <3>1. Head(queue[w]) \in Messages
        <4>1. queue[w] \in Seq(Messages \cup Callers) /\ queue[w] # <<>>
          BY <1>4 DEF Pop, Types, TypeOK
        <4>2. QED
          BY <4>1, <2>3, HeadTailProperties
      <3>2. /\ job' = [job EXCEPT ![w] = Head(queue[w])]
            /\ \E o \in {"idle"} \cup HandlerCalls : pc' = [pc EXCEPT ![w] = o]
            /\ life' = life
        BY <1>4, <2>3 DEF Pop, holder
      <3>3. QED
        BY <1>0, <2>1, <3>1, <3>2
    <2>4. QED
      BY <2>2, <2>3
  <1>5. ASSUME NEW w \in Workers, HandlerReturns(w) PROVE Holding'
    BY <1>0, <1>5 DEF HandlerReturns, holder
  <1>6. ASSUME SubscribeEnds \/ Drained PROVE Holding'
    BY <1>0, <1>6 DEF SubscribeEnds, Drained, Return, workers
  <1>7. ASSUME \/ \E f \in Filters : SubscribeSent(f) \/ RollbackStep(f) \/ UnsubscribeStep(f)
               \/ SubscribeAnswered \/ SubscribeFails \/ RollbackEnds
        PROVE  Holding'
    BY <1>0, <1>7 DEF SubscribeSent, RollbackStep, UnsubscribeStep, SubscribeAnswered, SubscribeFails,
                 RollbackEnds, workers
  <1>8. ASSUME \/ \E w \in Workers : CloseQueue(w) \/ Exit(w)
               \/ \E f \in Filters : Handle(f) \/ Deliver(f)
               \/ \E t \in Topics : Publish(t)
               \/ Grant \/ Reconnect \/ UNCHANGED vars
        PROVE  Holding'
    BY <1>0, <1>8 DEF CloseQueue, Exit, Handle, Deliver, Publish, Grant, Reconnect, vars, workers, holder
  <1>. HIDE DEF Holding, Actors
  <1>9. QED
    BY <1>1, <1>2, <1>3, <1>4, <1>5, <1>6, <1>7, <1>8 DEF Next, HolderStep

LEMMA EmptiedInit == Init => Emptied
  BY DEF Init, Emptied

LEMMA EmptiedNext ==
  ASSUME Types, Gate, Emptied, [Next]_vars
  PROVE  Emptied'
  <1>. USE ConstantsAre
  <1>0. /\ queue \in [Workers -> Seq(Messages \cup Callers)] /\ job \in [Workers -> Messages \cup {None}]
        /\ working \subseteq Workers
    BY DEF Types, TypeOK
  <1>1. ASSUME UNCHANGED commands PROVE Emptied'
    <2>1. working' = working \/ working' = Workers \/ \E w \in Workers : Exit(w)
      BY GateMoves DEF gate, StartGate, ResubscribeGate, StopGate, HolderStep, SubscribeSent, RollbackStep,
         UnsubscribeStep, SubscribeAnswered, SubscribeFails, SubscribeEnds, RollbackEnds, CloseQueue,
         Drained, Grant, Reconnect, workers
    <2>2. ASSUME NEW w \in Workers, Exit(w) PROVE Emptied'
      BY <1>0, <1>1, <2>2 DEF Emptied, Exit, commands
    <2>3. QED
      BY <1>1, <2>1, <2>2 DEF Emptied, commands
  <1>2. ASSUME NEW f \in Filters, Deliver(f) PROVE Emptied'
    <2>1. pool # 0 => closed = {} /\ working = Workers
      BY DEF Gate
    <2>2. late' = late /\ job' = job /\ working' = working /\ (queue' = queue \/ pool # 0)
      BY <1>2, <2>1 DEF Deliver
    <2>3. QED
      BY <2>1, <2>2 DEF Emptied
  <1>3. ASSUME NEW f \in Filters, Handle(f) PROVE Emptied'
    BY <1>3 DEF Handle, Emptied, workers, history
  <1>4. ASSUME NEW a \in Actors, StartGate(a) PROVE Emptied'
    BY <1>4 DEF StartGate, Emptied, history
  <1>5. ASSUME NEW a \in Callers, PushSentinel(a) PROVE Emptied'
    <2>. DEFINE w == flush[a].next
    <2>1. /\ UNCHANGED <<late, job, working>>
          /\ queue' = queue
             \/ (made # 0 /\ w \notin closed /\ queue' = [queue EXCEPT ![w] = Append(@, a)] /\ w \in Workers)
      BY <1>5 DEF PushSentinel, history
    <2>2. made # 0 => Workers \ working \subseteq closed
      BY DEF Gate
    <2>3. QED
      BY <1>0, <2>1, <2>2 DEF Emptied
  <1>6. ASSUME NEW w \in Workers, Pop(w) PROVE Emptied'
    <2>1. /\ w \in working /\ working' = working /\ late' = late
          /\ \A v \in Workers \ {w} : queue'[v] = queue[v] /\ job'[v] = job[v]
      <3>1. /\ queue' = [queue EXCEPT ![w] = Tail(@)]
            /\ job' = job \/ job' = [job EXCEPT ![w] = Head(queue[w])]
            /\ w \in working /\ working' = working /\ late' = late
        BY <1>6 DEF Pop
      <3>2. QED
        BY <1>0, <3>1
    <2>2. QED
      BY <2>1 DEF Emptied
  <1>7. ASSUME NEW w \in Workers, HandlerReturns(w) PROVE Emptied'
    BY <1>0, <1>7 DEF HandlerReturns, Emptied
  <1>8. ASSUME (\E t \in Topics : Publish(t)) \/ Grant \/ Reconnect PROVE Emptied'
    BY <1>8 DEF Publish, Grant, Reconnect, Emptied, workers, history
  <1>9. QED
    BY <1>1, <1>2, <1>3, <1>4, <1>5, <1>6, <1>7, <1>8, Moves

-----------------------------------------------------------------------------
(* The strongest route of a topic.                                         *)

LEMMA RoutesAreClaims ==
  /\ \A f \in Filters : FilterParts(f) \in Claim
  /\ \A t \in Topics : t \in Topic
  BY RouterAssumption, PartsAreClaims DEF RouterAssumption, Topic

\* What FilterProofs shows of filters, of the ones that may be registered.
LEMMA RoutesCompared ==
  ASSUME NEW f \in Filters, NEW g \in Filters
  PROVE  /\ Overlaps[f][g] <=> Overlaps[g][f]
         /\ \A t \in Topics : t \in Claims[f] /\ t \in Claims[g] => Overlaps[f][g]
         /\ Outranking[f][g] => ~Outranking[g][f] /\ f # g
         /\ \A h \in Filters : Outranking[f][g] /\ Outranking[g][h] => Outranking[f][h]
  <1>. DEFINE P(h) == FilterParts(h)
  <1>1. P(f) \in Claim /\ P(g) \in Claim
    BY RoutesAreClaims
  <1>2. Overlaps[f][g] = FiltersOverlap(P(f), P(g)) /\ Overlaps[g][f] = FiltersOverlap(P(g), P(f))
    BY DEF Overlaps
  <1>3. \A h, k \in Filters : Outranking[h][k] = Outranks(P(h), P(k))
    BY DEF Outranking
  <1>4. Overlaps[f][g] <=> Overlaps[g][f]
    <2>1. Compatible(P(f), P(g)) <=> Compatible(P(g), P(f))
      BY <1>1, ClaimFacts DEF Compatible
    <2>2. QED
      BY <1>1, <1>2, <2>1, OverlapIsCompatible
  <1>5. ASSUME NEW t \in Topics, t \in Claims[f], t \in Claims[g] PROVE Overlaps[f][g]
    <2>1. MatchFilter(P(f), t) /\ MatchFilter(P(g), t) /\ t \in Topic
      BY <1>5, RoutesAreClaims DEF Claims
    <2>2. QED
      BY <1>1, <1>2, <2>1, OverlapSound
  <1>6. Outranking[f][g] => ~Outranking[g][f]
    BY <1>1, <1>3, OutranksIsAnOrder
  <1>7. ASSUME NEW h \in Filters, Outranking[f][g], Outranking[g][h] PROVE Outranking[f][h]
    <2>1. P(h) \in Claim /\ Outranks(P(f), P(g)) /\ Outranks(P(g), P(h))
      BY <1>3, <1>7, RoutesAreClaims
    <2>2. QED
      BY <1>1, <1>3, <2>1, OutranksIsAnOrder
  <1>8. QED
    BY <1>4, <1>5, <1>6, <1>7

LEMMA OwnersInit == Init => Owners
  BY DEF Init, Owners, Matching

LEMMA OwnersNext ==
  ASSUME Types, Owners, [Next]_vars
  PROVE  Owners'
  <1>1. ASSUME UNCHANGED <<routes, attributed>> PROVE Owners'
    BY <1>1 DEF Owners, Matching
  <1>2. ASSUME NEW f \in Filters, Handle(f) PROVE Owners'
    <2>1. routes \subseteq Filters /\ routes' = routes \cup {f} /\ f \notin routes
      BY <1>2 DEF Types, TypeOK, Handle
    <2>2. ASSUME NEW t \in Topics, Matching(t)' # {}
          PROVE  \E h \in Matching(t)' : \A g \in Matching(t)' \ {h} : Outranking[h][g]
      <3>1. CASE t \notin Claims[f]
        <4>1. Matching(t)' = Matching(t)
          BY <2>1, <3>1 DEF Matching
        <4>2. QED
          BY <2>2, <4>1 DEF Owners
      <3>2. CASE t \in Claims[f]
        <4>1. Matching(t)' = Matching(t) \cup {f}
          BY <2>1, <3>2 DEF Matching
        <4>2. \A g \in Matching(t) : g \in Filters /\ (Outranking[g][f] \/ Outranking[f][g])
          <5>1. \A g \in Matching(t) : g \in routes /\ g \in Filters /\ t \in Claims[g]
            BY <2>1 DEF Matching
          <5>2. \A g \in Matching(t) : Overlaps[g][f]
            BY <5>1, <3>2, RoutesCompared
          <5>3. QED
            BY <5>1, <5>2, <1>2 DEF Handle
        <4>3. CASE Matching(t) = {}
          BY <4>1, <4>3
        <4>4. CASE Matching(t) # {}
          <5>1. PICK h \in Matching(t) : \A g \in Matching(t) \ {h} : Outranking[h][g]
            BY <4>4 DEF Owners
          <5>2. CASE Outranking[h][f]
            BY <4>1, <5>1, <5>2
          <5>3. CASE Outranking[f][h]
            <6>1. \A g \in Matching(t) : Outranking[f][g]
              BY <4>2, <5>1, <5>3, RoutesCompared
            <6>2. QED
              BY <4>1, <6>1
          <5>4. QED
            BY <4>2, <5>2, <5>3
        <4>5. QED
          BY <4>3, <4>4
      <3>3. QED
        BY <3>1, <3>2
    <2>3. ASSUME ~attributed', NEW g \in routes', NEW h \in routes', Overlaps[g][h]
          PROVE  g = h
      <3>1. ~attributed /\ \A k \in routes : ~Overlaps[k][f]
        BY <1>2, <2>3 DEF Handle
      <3>2. \A k \in routes : ~Overlaps[f][k]
        BY <2>1, <3>1, RoutesCompared
      <3>3. QED
        BY <2>1, <2>3, <3>1, <3>2 DEF Owners
    <2>4. QED
      BY <2>2, <2>3 DEF Owners
  <1>3. QED
    <2>1. (\E f \in Filters : Handle(f)) \/ UNCHANGED <<routes, attributed>>
      BY Moves DEF commands, Deliver, StartGate, PushSentinel, Pop, HandlerReturns, Publish, Grant, Reconnect, router
    <2>2. QED
      BY <1>1, <1>2, <2>1

LEMMA OwnerIs ==
  ASSUME Types, Owners, NEW t \in Topics, Matching(t) # {}
  PROVE  /\ Owner(t) \in Matching(t) /\ Matching(t) \subseteq Filters
         /\ \A g \in Matching(t) \ {Owner(t)} : Outranking[Owner(t)][g]
  BY DEF Owners, Owner, Types, TypeOK, Matching

\* However the routes were registered, a topic has one handler: among the routes that
\* match it one outranks all the others, and without attribution there is one at most
\* (handle and resolveLocked, command.go:664 and 1203).
LEMMA OneOwnerFollows ==
  ASSUME Types, Owners
  PROVE  OneOwner
  <1>1. ASSUME NEW t \in Topics, ~attributed
        PROVE  Cardinality(Matching(t)) <= 1
    <2>1. \A f, g \in Matching(t) : f = g
      <3>1. \A f \in Matching(t) : f \in routes /\ f \in Filters /\ t \in Claims[f]
        BY DEF Types, TypeOK, Matching
      <3>2. QED
        BY <1>1, <3>1, RoutesCompared DEF Owners
    <2>2. CASE Matching(t) = {}
      BY <2>2, FS_EmptySet
    <2>3. CASE Matching(t) # {}
      <3>1. PICK f : Matching(t) = {f}
        BY <2>1, <2>3
      <3>2. Cardinality({f}) = 1
        BY FS_Singleton
      <3>3. QED
        BY <3>1, <3>2
    <2>4. QED
      BY <2>2, <2>3
  <1>2. QED
    BY <1>1 DEF OneOwner, Owners

-----------------------------------------------------------------------------
(* Copies on their way.                                                    *)

LEMMA LogGrows ==
  ASSUME Types, [Next]_vars
  PROVE  /\ Len(log) \in Nat /\ Len(log') \in Nat /\ Len(log) <= Len(log')
         /\ \A m \in 1..Len(log) : log'[m] = log[m]
         /\ log' # log => Len(log') = Len(log) + 1
  <1>1. log \in Seq([topic : Topics, retained : BOOLEAN, pool : Pools])
    BY DEF Types, TypeOK
  <1>2. log' = log \/ \E e \in [topic : Topics, retained : BOOLEAN, pool : Pools] : log' = Append(log, e)
    <2>1. ASSUME NEW t \in Topics, Publish(t) PROVE \E e \in [topic : Topics, retained : BOOLEAN, pool : Pools] : log' = Append(log, e)
      <3>1. pool \in Pools
        BY DEF Types, TypeOK
      <3>2. QED
        BY <2>1, <3>1 DEF Publish, Forward
    <2>2. ASSUME Grant PROVE log' = log \/ \E e \in [topic : Topics, retained : BOOLEAN, pool : Pools] : log' = Append(log, e)
      <3>1. at \in Filters
        BY <2>2 DEF Types, AtIsAsked, Grant
      <3>2. Retained \in Claims[at] => Retained \in Topics
        BY <3>1 DEF Claims
      <3>3. pool \in Pools
        BY DEF Types, TypeOK
      <3>4. QED
        BY <2>2, <3>2, <3>3 DEF Grant, Forward
    <2>3. QED
      BY <2>1, <2>2, Moves DEF commands, Handle, Deliver, StartGate, PushSentinel, Pop, HandlerReturns, Reconnect, broker
  <1>3. QED
    BY <1>1, <1>2, AppendProperties, LenProperties

LEMMA TopicsStay ==
  ASSUME Types, [Next]_vars, NEW m \in 1..Len(log)
  PROVE  TopicOf(m)' = TopicOf(m) /\ WorkerOf(m)' = WorkerOf(m) /\ TopicOf(m) \in Topics /\ WorkerOf(m) \in Workers
  <1>1. log'[m] = log[m]
    BY LogGrows
  <1>2. log[m] \in [topic : Topics, retained : BOOLEAN, pool : Pools]
    BY ElementOfSeq DEF Types, TypeOK
  <1>3. QED
    BY <1>1, <1>2, ConstantsAre DEF TopicOf, WorkerOf

\* One copy is read off the wire.
LEMMA DeliverTakes ==
  ASSUME Types, NEW f \in Filters, Deliver(f)
  PROVE  /\ Len(inbound) \in Nat \ {0} /\ f \in inbound[1].to
         /\ \/ /\ inbound[1].to = {f} /\ Len(inbound') = Len(inbound) - 1
               /\ \A i \in 1..Len(inbound') : inbound'[i] = inbound[i + 1]
            \/ /\ inbound[1].to # {f} /\ Len(inbound') = Len(inbound)
               /\ inbound'[1] = [msg |-> inbound[1].msg, to |-> inbound[1].to \ {f}]
               /\ \A i \in 2..Len(inbound) : inbound'[i] = inbound[i]
  <1>1. inbound \in Seq(CopiesOf(Messages, Filters)) /\ inbound # <<>>
    BY DEF Types, TypeOK, CopiesOf, Deliver
  <1>2. Len(inbound) \in Nat \ {0} /\ Head(inbound) = inbound[1]
    BY <1>1, EmptySeq
  <1>3. CASE inbound[1].to = {f}
    <2>1. inbound' = Tail(inbound)
      BY <1>2, <1>3 DEF Deliver
    <2>2. Len(Tail(inbound)) = Len(inbound) - 1 /\ \A i \in 1..Len(Tail(inbound)) : Tail(inbound)[i] = inbound[i + 1]
      BY <1>1, <1>2
    <2>3. QED
      BY <1>2, <1>3, <2>1, <2>2 DEF Deliver
  <1>4. CASE inbound[1].to # {f}
    <2>1. inbound' = [inbound EXCEPT ![1] = [msg |-> Head(inbound).msg, to |-> @.to \ {f}]]
      BY <1>2, <1>4 DEF Deliver
    <2>2. /\ Len(inbound') = Len(inbound)
          /\ inbound'[1] = [msg |-> inbound[1].msg, to |-> inbound[1].to \ {f}]
          /\ \A i \in 2..Len(inbound) : inbound'[i] = inbound[i]
      <3>1. PICK e \in CopiesOf(Messages, Filters) : e = [msg |-> inbound[1].msg, to |-> inbound[1].to \ {f}]
        <4>1. inbound[1] \in CopiesOf(Messages, Filters)
          BY <1>1, <1>2, ElementOfSeq
        <4>2. QED
          BY <4>1 DEF CopiesOf
      <3>2. inbound' = [inbound EXCEPT ![1] = e]
        BY <2>1, <3>1, <1>2
      <3>3. PICK S : S = CopiesOf(Messages, Filters)
        OBVIOUS
      <3>4. inbound \in Seq(S) /\ e \in S
        BY <1>1, <3>3
      <3>5. /\ Len([inbound EXCEPT ![1] = e]) = Len(inbound) /\ [inbound EXCEPT ![1] = e][1] = e
            /\ \A i \in 2..Len(inbound) : [inbound EXCEPT ![1] = e][i] = inbound[i]
        BY <1>1, <3>4, FirstReplaced
      <3>6. QED
        BY <3>1, <3>2, <3>5
    <2>3. QED
      BY <1>2, <1>4, <2>2 DEF Deliver
  <1>5. QED
    BY <1>3, <1>4

\* What the verdict on it does: the command is enqueued, or nothing of it is kept.
LEMMA DeliverDecides ==
  ASSUME Types, NEW f \in Filters, Deliver(f)
  PROVE  /\ UNCHANGED <<routes, attributed, log, job, ran, finished>>
         /\ \/ UNCHANGED <<queue, accepted>>
            \/ /\ ~stopped /\ pool # 0 /\ ~Superseded(f, TopicOf(inbound[1].msg))
               /\ queue' = [queue EXCEPT ![WorkerOf(inbound[1].msg)] = Append(@, inbound[1].msg)]
               /\ accepted' = accepted \cup {inbound[1].msg}
  <1>1. Head(inbound) = inbound[1]
    BY DEF Deliver, Types, TypeOK
  <1>2. QED
    BY <1>1 DEF Deliver, router, WorkerOf

\* A message is forwarded behind all the others.
LEMMA ForwardAdds ==
  ASSUME Types, NEW t \in Topics, NEW r \in BOOLEAN, NEW to \in SUBSET Filters, Forward(t, r, to)
  PROVE  /\ Len(log) \in Nat /\ Len(log') = Len(log) + 1 /\ log'[Len(log) + 1].topic = t
         /\ Len(inbound) \in Nat /\ Len(inbound') = Len(inbound) + 1
         /\ \A i \in 1..Len(inbound) : inbound'[i] = inbound[i]
         /\ inbound'[Len(inbound) + 1] = [msg |-> Len(log) + 1, to |-> to]
  <1>1. log \in Seq([topic : Topics, retained : BOOLEAN, pool : Pools]) /\ inbound \in Seq([msg : Messages, to : SUBSET Filters])
    BY DEF Types, TypeOK
  <1>2. Len(log) \in Nat /\ Len(inbound) \in Nat
    BY <1>1, LenProperties
  <1>3. PICK e \in [topic : Topics, retained : BOOLEAN, pool : Pools] : e = [topic |-> t, retained |-> r, pool |-> pool]
    BY DEF Types, TypeOK
  <1>4. PICK c \in [msg : Messages, to : SUBSET Filters] : c = [msg |-> Len(log) + 1, to |-> to]
    <2>1. Len(log) + 1 \in Messages
      BY <1>2, ConstantsAre DEF Forward, Messages
    <2>2. QED
      BY <2>1
  <1>5. log' = Append(log, e) /\ inbound' = Append(inbound, c)
    BY <1>3, <1>4 DEF Forward
  <1>6. Len(log') = Len(log) + 1 /\ log'[Len(log) + 1] = e
    BY <1>1, <1>2, <1>5
  <1>7. /\ Len(inbound') = Len(inbound) + 1 /\ inbound'[Len(inbound) + 1] = c
        /\ \A i \in 1..Len(inbound) : inbound'[i] = inbound[i]
    BY <1>1, <1>2, <1>5
  <1>8. QED
    BY <1>2, <1>3, <1>4, <1>6, <1>7

LEMMA AskedInit == Init => Asked
  BY DEF Init, Asked

LEMMA AskedNext ==
  ASSUME Types, Asked, [Next]_vars
  PROVE  Asked'
  <1>. USE DEF Asked
  <1>1. ASSUME NEW f \in Filters, Handle(f) PROVE Asked'
    BY <1>1 DEF Handle, holder, broker
  <1>2. ASSUME NEW a \in Actors, Acquire(a) PROVE Asked'
    BY <1>2 DEF Acquire, Refused, StartGate, ResubscribeGate, StopGate, Hold, holder, router, broker
  <1>3. ASSUME HolderStep PROVE Asked'
    <2>1. ASSUME NEW f \in Filters, SubscribeSent(f) \/ RollbackStep(f) \/ UnsubscribeStep(f) PROVE Asked'
      BY <2>1 DEF SubscribeSent, RollbackStep, UnsubscribeStep, MostSpecific, router, broker
    <2>2. ASSUME SubscribeAnswered \/ SubscribeFails \/ SubscribeEnds \/ RollbackEnds \/ Drained PROVE Asked'
      <3>1. SubscribeAnswered => at \in routes
        BY ConstantsAre DEF SubscribeAnswered, Types, AtIsAsked
      <3>2. QED
        BY <2>2, <3>1 DEF SubscribeAnswered, SubscribeFails, SubscribeEnds, RollbackEnds, Drained, Return, router, broker
    <2>3. ASSUME NEW w \in Workers, CloseQueue(w) PROVE Asked'
      BY <2>3 DEF CloseQueue, holder, router, broker
    <2>4. QED
      BY <1>3, <2>1, <2>2, <2>3 DEF HolderStep
  <1>4. CASE Grant
    <2>1. at \in routes
      BY <1>4, ConstantsAre DEF Grant, Types, AtIsAsked
    <2>2. QED
      BY <1>4, <2>1 DEF Grant, router
  <1>5. ASSUME \/ \E a \in Callers, o \in Operations : Call(a, o)
               \/ \E a \in Callers : ReadPool(a) \/ PushSentinel(a) \/ FlushEnds(a)
               \/ \E w \in Workers : Pop(w) \/ HandlerReturns(w) \/ Exit(w)
               \/ \E f \in Filters : Deliver(f)
               \/ \E t \in Topics : Publish(t)
               \/ Reconnect \/ UNCHANGED vars
        PROVE  Asked'
    BY <1>5 DEF Call, ReadPool, PushSentinel, FlushEnds, Pop, HandlerReturns, Exit, Deliver, Publish,
                Reconnect, vars, router, holder, broker
  <1>6. QED
    BY <1>1, <1>2, <1>3, <1>4, <1>5 DEF Next

LEMMA RoutesGrow ==
  ASSUME [Next]_vars
  PROVE  routes \subseteq routes' /\ (attributed => attributed') /\ \A t : Matching(t) \subseteq Matching(t)'
  <1>1. routes \subseteq routes' /\ (attributed => attributed')
    <2>1. (\E f \in Filters : Handle(f)) \/ UNCHANGED <<routes, attributed>>
      BY Moves DEF commands, Deliver, StartGate, PushSentinel, Pop, HandlerReturns, Publish, Grant, Reconnect, router
    <2>2. routes \subseteq routes'
      BY <2>1 DEF Handle
    <2>3. attributed => attributed'
      <3>1. ASSUME NEW f \in Filters, Handle(f), attributed PROVE attributed'
        BY <3>1, Zenon DEF Handle
      <3>2. QED
        BY <2>1, <3>1, Zenon
    <2>4. QED
      BY <2>2, <2>3
  <1>2. QED
    BY <1>1 DEF Matching

\* Where the copies on their way come from.
LEMMA CopiesMove ==
  ASSUME [Next]_vars
  PROVE  \/ inbound' = inbound \/ inbound' = <<>>
         \/ \E f \in Filters : Deliver(f)
         \/ \E t \in Topics : Publish(t)
         \/ Grant
  BY Moves DEF commands, Handle, StartGate, PushSentinel, Pop, HandlerReturns, Reconnect, broker

\* What a publish and a replay forward.
LEMMA Forwarded ==
  ASSUME Types, Asked, (\E t \in Topics : Publish(t)) \/ Grant
  PROVE  \/ UNCHANGED <<log, inbound>>
         \/ \E t \in Topics, r \in BOOLEAN : \E to \in SUBSET Matching(t) : to \subseteq Filters /\ Forward(t, r, to)
  <1>1. ASSUME NEW t \in Topics, Publish(t)
        PROVE  \E r \in BOOLEAN : \E to \in SUBSET Matching(t) : to \subseteq Filters /\ Forward(t, r, to)
    <2>1. {f \in subs : t \in Claims[f]} \in SUBSET Matching(t) /\ Matching(t) \subseteq Filters
      BY DEF Asked, Matching, Types, TypeOK
    <2>2. QED
      BY <1>1, <2>1 DEF Publish
  <1>2. CASE Grant
    <2>1. at \in Filters /\ at \in routes
      BY <1>2, ConstantsAre DEF Grant, Asked, Types, AtIsAsked
    <2>2. Retained \in Claims[at] => Retained \in Topics /\ {at} \in SUBSET Matching(Retained)
      BY <2>1 DEF Claims, Matching
    <2>3. QED
      BY <1>2, <2>1, <2>2 DEF Grant
  <1>3. QED
    BY <1>1, <1>2

LEMMA CopiesInit == Init => Copies
  BY EmptySeq DEF Init, Copies

LEMMA CopiesNext ==
  ASSUME Types, Asked, Copies, [Next]_vars
  PROVE  Copies'
  <1>. DEFINE T(m) == {f \in routes' : log'[m].topic \in Claims[f]}
  <1>0. ASSUME NEW i \in 1..Len(inbound)
        PROVE  /\ inbound[i].msg \in 1..Len(log)
               /\ \A j \in 1..Len(inbound) : i < j => inbound[i].msg < inbound[j].msg
    BY DEF Copies
  <1>1. ASSUME NEW i \in 1..Len(inbound)
        PROVE  inbound[i].msg \in 1..Len(log') /\ inbound[i].to \subseteq T(inbound[i].msg)
    <2>1. inbound[i].msg \in 1..Len(log) /\ inbound[i].to \subseteq {f \in routes : log[inbound[i].msg].topic \in Claims[f]}
      BY DEF Copies, Matching, TopicOf
    <2>2. inbound[i].msg \in 1..Len(log') /\ log'[inbound[i].msg] = log[inbound[i].msg]
      BY <2>1, LogGrows
    <2>3. QED
      BY <2>1, <2>2, RoutesGrow
  <1>2. SUFFICES \A i \in 1..Len(inbound') :
          /\ inbound'[i].msg \in 1..Len(log') /\ inbound'[i].to \subseteq T(inbound'[i].msg)
          /\ \A j \in 1..Len(inbound') : i < j => inbound'[i].msg < inbound'[j].msg
    BY DEF Copies, Matching, TopicOf
  <1>. HIDE DEF T
  <1>3. CASE inbound' = inbound
    BY <1>0, <1>1, <1>3
  <1>4. CASE inbound' = <<>>
    BY <1>4, EmptySeq
  <1>5. ASSUME NEW f \in Filters, Deliver(f)
        PROVE  \A i \in 1..Len(inbound') :
          /\ inbound'[i].msg \in 1..Len(log') /\ inbound'[i].to \subseteq T(inbound'[i].msg)
          /\ \A j \in 1..Len(inbound') : i < j => inbound'[i].msg < inbound'[j].msg
    <2>1. Len(inbound) \in Nat \ {0}
      BY <1>5, DeliverTakes
    <2>2. CASE Len(inbound') = Len(inbound) - 1 /\ \A i \in 1..Len(inbound') : inbound'[i] = inbound[i + 1]
      <3>1. ASSUME NEW i \in 1..Len(inbound')
            PROVE  inbound'[i].msg \in 1..Len(log') /\ inbound'[i].to \subseteq T(inbound'[i].msg)
        BY <2>1, <2>2, <1>1
      <3>2. ASSUME NEW i \in 1..Len(inbound'), NEW j \in 1..Len(inbound'), i < j
            PROVE  inbound'[i].msg < inbound'[j].msg
        <4>1. i + 1 \in 1..Len(inbound) /\ j + 1 \in 1..Len(inbound) /\ i + 1 < j + 1
          BY <2>1, <2>2, <3>2
        <4>2. QED
          BY <4>1, <2>2, <1>0
      <3>3. QED
        BY <3>1, <3>2
    <2>3. CASE /\ Len(inbound') = Len(inbound)
               /\ inbound'[1] = [msg |-> inbound[1].msg, to |-> inbound[1].to \ {f}]
               /\ \A i \in 2..Len(inbound) : inbound'[i] = inbound[i]
      <3>1. ASSUME NEW i \in 1..Len(inbound)
            PROVE  inbound'[i].msg = inbound[i].msg /\ inbound'[i].to \subseteq inbound[i].to
        BY <2>1, <2>3
      <3>2. QED
        BY <2>1, <2>3, <3>1, <1>0, <1>1
    <2>4. QED
      BY <1>5, <2>2, <2>3, DeliverTakes
  <1>6. ASSUME NEW t \in Topics, NEW r \in BOOLEAN, NEW to \in SUBSET Matching(t), to \subseteq Filters, Forward(t, r, to)
        PROVE  \A i \in 1..Len(inbound') :
          /\ inbound'[i].msg \in 1..Len(log') /\ inbound'[i].to \subseteq T(inbound'[i].msg)
          /\ \A j \in 1..Len(inbound') : i < j => inbound'[i].msg < inbound'[j].msg
    <2>. DEFINE n == Len(inbound)
    <2>1. /\ Len(log) \in Nat /\ Len(log') = Len(log) + 1 /\ log'[Len(log) + 1].topic = t
          /\ n \in Nat /\ Len(inbound') = n + 1
          /\ \A i \in 1..n : inbound'[i] = inbound[i]
          /\ inbound'[n + 1] = [msg |-> Len(log) + 1, to |-> to]
      BY <1>6, ForwardAdds
    <2>2. to \subseteq T(Len(log) + 1)
      BY <2>1, RoutesGrow DEF T, Matching
    <2>3. inbound'[n + 1].msg = Len(log) + 1 /\ inbound'[n + 1].to = to
      BY <2>1
    <2>4. ASSUME NEW i \in 1..n, NEW j \in 1..(n + 1), i < j
          PROVE  inbound'[i].msg < inbound'[j].msg
      <3>1. inbound'[i] = inbound[i] /\ inbound[i].msg \in 1..Len(log)
        BY <2>1, <1>0
      <3>2. CASE j \in 1..n
        BY <3>1, <3>2, <2>1, <2>4, <1>0
      <3>3. CASE j = n + 1
        BY <3>1, <3>3, <2>1, <2>3
      <3>4. QED
        BY <2>1, <3>2, <3>3
    <2>5. QED
      BY <2>1, <2>2, <2>3, <2>4, <1>1
  <1>7. QED
    BY <1>3, <1>4, <1>5, <1>6, CopiesMove, Forwarded

-----------------------------------------------------------------------------
(* A command is accepted once.                                             *)

\* A copy that is not outranked came for the strongest route of its topic.
LEMMA CameForOwner ==
  ASSUME Types, Owners, Copies, NEW f \in Filters, Deliver(f), ~Superseded(f, TopicOf(inbound[1].msg))
  PROVE  \A g \in Matching(TopicOf(inbound[1].msg)) \ {f} : attributed /\ Outranking[f][g]
  <1>. DEFINE t == TopicOf(inbound[1].msg)
  <1>1. f \in Matching(t) /\ t \in Topics /\ Matching(t) \subseteq Filters
    <2>1. 1 \in 1..Len(inbound) /\ f \in inbound[1].to
      <3>1. Len(inbound) \in Nat \ {0} /\ f \in inbound[1].to
        BY DeliverTakes
      <3>2. QED
        BY <3>1
    <2>2. inbound[1].msg \in 1..Len(log) /\ inbound[1].to \subseteq Matching(t)
      BY <2>1 DEF Copies
    <2>3. log[inbound[1].msg] \in [topic : Topics, retained : BOOLEAN, pool : Pools]
      BY <2>2, ElementOfSeq DEF Types, TypeOK
    <2>4. QED
      BY <2>1, <2>2, <2>3 DEF TopicOf, Types, TypeOK, Matching
  <1>2. CASE attributed
    <2>1. Owner(t) = f
      BY <1>2 DEF Superseded
    <2>2. QED
      BY <1>1, <1>2, <2>1, OwnerIs
  <1>3. CASE ~attributed
    <2>1. ASSUME NEW g \in Matching(t) PROVE g = f
      <3>1. f \in routes /\ g \in routes /\ Overlaps[f][g]
        BY <1>1, RoutesCompared DEF Matching
      <3>2. QED
        BY <1>3, <3>1 DEF Owners
    <2>2. QED
      BY <2>1
  <1>4. QED
    BY <1>2, <1>3

LEMMA AcceptedIsNew ==
  ASSUME Types, Owners, Copies, Once, NEW f \in Filters, Deliver(f), ~Superseded(f, TopicOf(inbound[1].msg))
  PROVE  /\ inbound[1].msg \in 1..Len(log) /\ inbound[1].msg \notin accepted
         /\ \A m \in accepted : m < inbound[1].msg
  <1>1. Len(inbound) \in Nat \ {0} /\ f \in inbound[1].to
    BY DeliverTakes
  <1>2. inbound[1].msg \in 1..Len(log) /\ inbound[1].to \subseteq Matching(TopicOf(inbound[1].msg))
    BY <1>1 DEF Copies
  <1>3. ASSUME inbound[1].msg \in accepted
        PROVE  FALSE
    <2>1. PICK g \in Matching(TopicOf(inbound[1].msg)) : Outranking[g][f]
      BY <1>1, <1>3 DEF Once
    <2>2. f \in Filters /\ g \in Filters
      BY DEF Types, TypeOK, Matching
    <2>3. ~Outranking[f][g] /\ f # g
      BY <2>1, <2>2, RoutesCompared
    <2>4. QED
      BY <2>1, <2>3, CameForOwner
  <1>4. \A m \in accepted : m <= inbound[1].msg /\ m \in Nat
    BY <1>1 DEF Once, Types, TypeOK, Messages
  <1>5. QED
    BY <1>2, <1>3, <1>4

LEMMA OnceInit == Init => Once
  BY EmptySeq DEF Init, Once

LEMMA OnceNext ==
  ASSUME Types, Owners, Asked, Copies, Once, [Next]_vars
  PROVE  Once'
  <1>. DEFINE M(i)    == inbound[i].msg
              Of(m)   == {f \in routes : log[m].topic \in Claims[f]}
              T(m)    == {f \in routes' : log'[m].topic \in Claims[f]}
              left(m, to) == attributed' /\ \A g \in to : \E f \in T(m) : Outranking[f][g]
  <1>1. ASSUME NEW i \in 1..Len(inbound)
        PROVE  /\ M(i) \in 1..Len(log) /\ M(i) \in 1..Len(log')
               /\ \A m \in accepted : m <= M(i)
               /\ Of(M(i)) \subseteq T(M(i))
    <2>1. M(i) \in 1..Len(log) /\ \A m \in accepted : m <= M(i)
      BY DEF Copies, Once
    <2>2. M(i) \in 1..Len(log') /\ log'[M(i)] = log[M(i)]
      BY <2>1, LogGrows
    <2>3. QED
      BY <2>1, <2>2, RoutesGrow
  <1>2. ASSUME NEW i \in 1..Len(inbound), M(i) \in accepted
        PROVE  left(M(i), inbound[i].to)
    <2>1. attributed /\ \A g \in inbound[i].to : \E f \in Of(M(i)) : Outranking[f][g]
      BY <1>2 DEF Once, Matching, TopicOf
    <2>2. QED
      BY <2>1, <1>1, RoutesGrow
  <1>3. SUFFICES /\ accepted' \subseteq 1..Len(log')
                 /\ \A i \in 1..Len(inbound') :
                      /\ \A m \in accepted' : m <= inbound'[i].msg
                      /\ inbound'[i].msg \in accepted' => left(inbound'[i].msg, inbound'[i].to)
    BY DEF Once, Matching, TopicOf
  <1>4. accepted \subseteq 1..Len(log') /\ accepted \subseteq 1..Len(log) /\ \A m \in accepted : m \in Nat
    BY LogGrows DEF Once, Types, TypeOK, Messages
  <1>. HIDE DEF left, T, Of
  <1>5. CASE accepted' = accepted /\ (inbound' = inbound \/ inbound' = <<>>)
    <2>1. CASE inbound' = inbound
      BY <1>1, <1>2, <1>4, <1>5, <2>1
    <2>2. CASE inbound' = <<>>
      BY <1>4, <1>5, <2>2, EmptySeq
    <2>3. QED
      BY <1>5, <2>1, <2>2
  <1>6. ASSUME NEW f \in Filters, Deliver(f)
        PROVE  /\ accepted' \subseteq 1..Len(log')
               /\ \A i \in 1..Len(inbound') :
                      /\ \A m \in accepted' : m <= inbound'[i].msg
                      /\ inbound'[i].msg \in accepted' => left(inbound'[i].msg, inbound'[i].to)
    <2>1. Len(inbound) \in Nat \ {0} /\ f \in inbound[1].to
      BY <1>6, DeliverTakes
    <2>2. \A i \in 1..Len(inbound) : M(1) <= M(i) /\ (i # 1 => M(1) < M(i))
      BY <2>1 DEF Copies
    <2>3. M(1) \in 1..Len(log)
      BY <2>1, <1>1
    \* The copies that are left, by the copies there were.
    <2>4. ASSUME NEW i \in 1..Len(inbound')
          PROVE  \E k \in 1..Len(inbound) :
                   /\ inbound'[i].msg = M(k)
                   /\ \/ k # 1 /\ inbound'[i].to = inbound[k].to
                      \/ k = 1 /\ inbound[1].to # {f} /\ inbound'[i].to = inbound[1].to \ {f}
      <3>1. CASE Len(inbound') = Len(inbound) - 1 /\ \A j \in 1..Len(inbound') : inbound'[j] = inbound[j + 1]
        <4>1. i + 1 \in 1..Len(inbound) /\ i + 1 # 1 /\ inbound'[i] = inbound[i + 1]
          BY <2>1, <3>1
        <4>2. QED
          BY <4>1
      <3>2. CASE /\ inbound[1].to # {f} /\ Len(inbound') = Len(inbound)
                 /\ inbound'[1] = [msg |-> inbound[1].msg, to |-> inbound[1].to \ {f}]
                 /\ \A j \in 2..Len(inbound) : inbound'[j] = inbound[j]
        <4>1. CASE i = 1
          BY <2>1, <3>2, <4>1
        <4>2. CASE i # 1
          BY <2>1, <3>2, <4>2
        <4>3. QED
          BY <4>1, <4>2
      <3>3. QED
        BY <1>6, <3>1, <3>2, DeliverTakes
    <2>5. CASE accepted' = accepted
      <3>1. ASSUME NEW i \in 1..Len(inbound'), NEW k \in 1..Len(inbound), inbound'[i].msg = M(k),
                   inbound'[i].to \subseteq inbound[k].to
            PROVE  /\ \A m \in accepted' : m <= inbound'[i].msg
                   /\ inbound'[i].msg \in accepted' => left(inbound'[i].msg, inbound'[i].to)
        <4>1. \A m \in accepted' : m <= inbound'[i].msg
          BY <2>5, <3>1, <1>1
        <4>2. ASSUME M(k) \in accepted PROVE left(M(k), inbound'[i].to)
          BY <4>2, <1>2, <3>1 DEF left
        <4>3. QED
          BY <4>1, <4>2, <2>5, <3>1
      <3>2. QED
        <4>1. \A i \in 1..Len(inbound') : \E k \in 1..Len(inbound) : inbound'[i].msg = M(k) /\ inbound'[i].to \subseteq inbound[k].to
          BY <2>4
        <4>2. QED
          BY <1>4, <2>5, <3>1, <4>1
    <2>6. CASE ~Superseded(f, TopicOf(M(1))) /\ accepted' = accepted \cup {M(1)}
      <3>1. \A m \in accepted : m < M(1)
        BY <1>6, <2>6, AcceptedIsNew
      <3>2. \A g \in Matching(TopicOf(M(1))) \ {f} : attributed /\ Outranking[f][g]
        BY <1>6, <2>6, CameForOwner
      <3>3. inbound[1].to \subseteq Of(M(1)) /\ Of(M(1)) = Matching(TopicOf(M(1)))
        BY <2>1 DEF Copies, Of, Matching, TopicOf
      <3>4. f \in T(M(1))
        BY <2>1, <3>3, <1>1
      <3>5. inbound[1].to # {f} => left(M(1), inbound[1].to \ {f})
        <4>1. \A g \in inbound[1].to \ {f} : attributed' /\ Outranking[f][g]
          BY <3>2, <3>3, RoutesGrow
        <4>2. inbound[1].to # {f} => inbound[1].to \ {f} # {}
          BY <2>1
        <4>3. QED
          BY <3>4, <4>1, <4>2 DEF left
      <3>6. ASSUME NEW i \in 1..Len(inbound')
            PROVE  /\ \A m \in accepted' : m <= inbound'[i].msg
                   /\ inbound'[i].msg \in accepted' => left(inbound'[i].msg, inbound'[i].to)
        <4>1. PICK k \in 1..Len(inbound) :
                   /\ inbound'[i].msg = M(k)
                   /\ \/ k # 1 /\ inbound'[i].to = inbound[k].to
                      \/ k = 1 /\ inbound[1].to # {f} /\ inbound'[i].to = inbound[1].to \ {f}
          BY <2>4
        <4>2. M(k) \in Nat /\ M(1) \in Nat /\ M(1) <= M(k) /\ (k # 1 => M(1) < M(k))
          BY <2>2, <2>3, <1>1, LogGrows
        <4>3. \A m \in accepted' : m <= M(k)
          BY <1>4, <2>6, <3>1, <4>2
        <4>4. CASE k = 1
          BY <4>1, <4>3, <4>4, <3>5
        <4>5. CASE k # 1
          <5>1. M(k) \notin accepted'
            BY <1>4, <2>6, <3>1, <4>2, <4>5
          <5>2. QED
            BY <4>1, <4>3, <5>1
        <4>6. QED
          BY <4>4, <4>5
      <3>7. accepted' \subseteq 1..Len(log')
        <4>1. M(1) \in 1..Len(log')
          BY <2>1, <1>1
        <4>2. QED
          BY <2>6, <1>4, <4>1
      <3>8. QED
        BY <3>6, <3>7
    <2>7. QED
      BY <1>6, <2>5, <2>6, DeliverDecides
  <1>7. ASSUME NEW t \in Topics, NEW r \in BOOLEAN, NEW to \in SUBSET Matching(t), to \subseteq Filters, Forward(t, r, to),
               accepted' = accepted
        PROVE  \A i \in 1..Len(inbound') :
                      /\ \A m \in accepted' : m <= inbound'[i].msg
                      /\ inbound'[i].msg \in accepted' => left(inbound'[i].msg, inbound'[i].to)
    <2>. DEFINE n == Len(inbound)
    <2>1. /\ Len(log) \in Nat /\ n \in Nat /\ Len(inbound') = n + 1
          /\ \A i \in 1..n : inbound'[i] = inbound[i]
          /\ inbound'[n + 1] = [msg |-> Len(log) + 1, to |-> to]
      BY <1>7, ForwardAdds
    <2>2. inbound'[n + 1].msg = Len(log) + 1
      BY <2>1
    <2>3. Len(log) + 1 \notin accepted /\ \A m \in accepted : m <= Len(log) + 1
      BY <2>1, <1>4
    <2>4. ASSUME NEW i \in 1..n
          PROVE  /\ \A m \in accepted' : m <= inbound'[i].msg
                 /\ inbound'[i].msg \in accepted' => left(inbound'[i].msg, inbound'[i].to)
      BY <2>1, <1>1, <1>2, <1>7
    <2>5. QED
      BY <2>1, <2>2, <2>3, <2>4, <1>7
  <1>8. QED
    <2>1. \/ accepted' = accepted
          \/ \E f \in Filters : Deliver(f)
      BY Moves DEF commands, Handle, StartGate, PushSentinel, Pop, HandlerReturns, Publish, Grant, Reconnect, history
    <2>2. QED
      BY <2>1, <1>4, <1>5, <1>6, <1>7, CopiesMove, Forwarded

-----------------------------------------------------------------------------
(* The queues.                                                             *)

\* What comes into a queue goes to its end.
LEMMA Appended ==
  ASSUME NEW S, NEW q \in [Workers -> Seq(S)], NEW w \in Workers, NEW e \in S,
         NEW r, r = [q EXCEPT ![w] = Append(@, e)]
  PROVE  /\ \A v \in Workers : Len(q[v]) \in Nat
         /\ Len(r[w]) = Len(q[w]) + 1 /\ r[w][Len(q[w]) + 1] = e
         /\ \A i \in 1..Len(q[w]) : r[w][i] = q[w][i]
         /\ \A v \in Workers \ {w} : r[v] = q[v]
  <1>1. q[w] \in Seq(S) /\ r[w] = Append(q[w], e)
    OBVIOUS
  <1>2. Len(r[w]) = Len(q[w]) + 1 /\ r[w][Len(q[w]) + 1] = e /\ \A i \in 1..Len(q[w]) : r[w][i] = q[w][i]
    BY <1>1
  <1>3. QED
    BY <1>2

\* A worker takes what came first.
LEMMA Popped ==
  ASSUME Types, NEW w \in Workers, Pop(w)
  PROVE  /\ w \in working /\ job[w] = None
         /\ \A v \in Workers : Len(queue[v]) \in Nat
         /\ Len(queue[w]) # 0 /\ queue[w][1] \in Messages \cup Callers
         /\ Len(queue'[w]) = Len(queue[w]) - 1
         /\ \A i \in 1..(Len(queue[w]) - 1) : queue'[w][i] = queue[w][i + 1]
         /\ \A v \in Workers \ {w} : queue'[v] = queue[v]
         /\ UNCHANGED <<routes, attributed, pool, made, log, inbound, accepted, finished>>
         /\ IF queue[w][1] \in Callers
            THEN flush' = [flush EXCEPT ![queue[w][1]].wait = @ \ {w}] /\ UNCHANGED <<job, ran, pc>>
            ELSE /\ flush' = flush /\ job' = [job EXCEPT ![w] = queue[w][1]] /\ ran' = Append(ran, queue[w][1])
                 /\ \E o \in {"idle"} \cup HandlerCalls : pc' = [pc EXCEPT ![w] = o]
  <1>1. queue \in [Workers -> Seq(Messages \cup Callers)]
    BY DEF Types, TypeOK
  <1>2. queue[w] \in Seq(Messages \cup Callers) /\ queue[w] # <<>>
    BY <1>1 DEF Pop
  <1>3. /\ Head(queue[w]) = queue[w][1] /\ Len(queue[w]) # 0 /\ queue[w][1] \in Messages \cup Callers
        /\ Len(Tail(queue[w])) = Len(queue[w]) - 1
        /\ \A i \in 1..(Len(queue[w]) - 1) : Tail(queue[w])[i] = queue[w][i + 1]
    BY <1>2, HeadTailProperties, EmptySeq, ElementOfSeq
  <1>4. queue' = [queue EXCEPT ![w] = Tail(@)] /\ queue'[w] = Tail(queue[w])
    BY <1>1 DEF Pop
  <1>5. /\ w \in working /\ job[w] = None
        /\ UNCHANGED <<routes, attributed, pool, made, log, inbound, accepted, finished>>
        /\ IF queue[w][1] \in Callers
           THEN flush' = [flush EXCEPT ![queue[w][1]].wait = @ \ {w}] /\ UNCHANGED <<job, ran, pc>>
           ELSE /\ flush' = flush /\ job' = [job EXCEPT ![w] = queue[w][1]] /\ ran' = Append(ran, queue[w][1])
                /\ \E o \in {"idle"} \cup HandlerCalls : pc' = [pc EXCEPT ![w] = o]
    BY <1>3 DEF Pop, router, broker
  <1>6. \A v \in Workers \ {w} : queue'[v] = queue[v]
    BY <1>1, <1>4
  <1>7. \A v \in Workers : Len(queue[v]) \in Nat
    BY <1>1, LenProperties
  <1>8. Len(queue'[w]) = Len(queue[w]) - 1 /\ \A i \in 1..(Len(queue[w]) - 1) : queue'[w][i] = queue[w][i + 1]
    BY <1>3, <1>4
  <1>9. QED
    BY <1>3, <1>5, <1>6, <1>7, <1>8

\* The part of the invariant the queues rest on.
Before == Types /\ Gate /\ Emptied /\ Owners /\ Asked /\ Copies /\ Once

\* e is a sentinel, or a command that is newer than all that were accepted before.
Enters(e, w) ==
  /\ w \in Workers
  /\ queue' = [queue EXCEPT ![w] = Append(@, e)]
  /\ UNCHANGED <<job, finished, ran>>
  /\ \/ e \in Callers /\ accepted' = accepted /\ PushSentinel(e)
     \/ /\ e \in 1..Len(log) /\ e \notin accepted /\ w = WorkerOf(e)
        /\ \A m \in accepted : m < e
        /\ accepted' = accepted \cup {e}

LEMMA DeliverEnters ==
  ASSUME Before, NEW f \in Filters, Deliver(f)
  PROVE  \/ UNCHANGED <<queue, job, accepted, finished, ran>>
         \/ \E w \in Workers : \E e \in Messages : Enters(e, w)
  <1>. USE DEF Before
  <1>. DEFINE m == inbound[1].msg
  <1>1. CASE UNCHANGED <<queue, accepted>>
    BY <1>1, DeliverDecides
  <1>2. CASE /\ ~Superseded(f, TopicOf(m))
             /\ queue' = [queue EXCEPT ![WorkerOf(m)] = Append(@, m)]
             /\ accepted' = accepted \cup {m}
    <2>1. m \in 1..Len(log) /\ m \notin accepted /\ \A n \in accepted : n < m
      BY <1>2, AcceptedIsNew
    <2>2. m \in Messages
      <3>1. Len(log) \in Nat /\ Len(log) <= MaxMessages /\ MaxMessages \in Nat
        BY ConstantsAre, LenProperties DEF Types, TypeOK
      <3>2. QED
        BY <2>1, <3>1 DEF Messages
    <2>3. WorkerOf(m) \in Workers
      <3>1. log[m] \in [topic : Topics, retained : BOOLEAN, pool : Pools]
        BY <2>1, ElementOfSeq DEF Types, TypeOK
      <3>2. QED
        BY <3>1, ConstantsAre DEF WorkerOf, TopicOf
    <2>4. UNCHANGED <<job, finished, ran>>
      BY DeliverDecides
    <2>5. Enters(m, WorkerOf(m))
      BY <1>2, <2>1, <2>3, <2>4 DEF Enters
    <2>6. QED
      BY <2>2, <2>3, <2>5
  <1>3. QED
    BY <1>1, <1>2, DeliverDecides

\* A new pool finds the queues of the last one empty.
LEMMA StartGateQueues ==
  ASSUME Before, NEW a \in Actors, StartGate(a)
  PROVE  UNCHANGED <<queue, job, accepted, finished, ran>>
  <1>1. working = {}
    BY DEF Before, StartGate, Hold, Gate
  <1>2. queue = [w \in Workers |-> <<>>]
    BY <1>1 DEF Before, Emptied, Types, TypeOK
  <1>3. QED
    BY <1>2 DEF StartGate, history

LEMMA QueueMoves ==
  ASSUME Before, [Next]_vars
  PROVE  \/ UNCHANGED <<queue, job, accepted, finished, ran>>
         \/ \E w \in Workers : \E e \in Messages \cup Callers : Enters(e, w)
         \/ \E w \in Workers : Pop(w) \/ HandlerReturns(w)
  <1>1. ASSUME UNCHANGED commands PROVE UNCHANGED <<queue, job, accepted, finished, ran>>
    BY <1>1 DEF commands
  <1>2. ASSUME NEW f \in Filters, Handle(f) PROVE UNCHANGED <<queue, job, accepted, finished, ran>>
    BY <1>2 DEF Handle, workers, history
  <1>3. ASSUME NEW f \in Filters, Deliver(f)
        PROVE  \/ UNCHANGED <<queue, job, accepted, finished, ran>>
               \/ \E w \in Workers : \E e \in Messages \cup Callers : Enters(e, w)
    BY <1>3, DeliverEnters
  <1>4. ASSUME NEW a \in Callers, PushSentinel(a)
        PROVE  \/ UNCHANGED <<queue, job, accepted, finished, ran>>
               \/ \E w \in Workers : \E e \in Messages \cup Callers : Enters(e, w)
    BY <1>4 DEF PushSentinel, Enters, history
  <1>5. ASSUME (\E t \in Topics : Publish(t)) \/ Grant \/ Reconnect PROVE UNCHANGED <<queue, job, accepted, finished, ran>>
    BY <1>5 DEF Publish, Grant, Reconnect, workers, history
  <1>6. QED
    BY <1>1, <1>2, <1>3, <1>4, <1>5, StartGateQueues, Moves

LEMMA EntersLast ==
  ASSUME Types, NEW w \in Workers, NEW e \in Messages \cup Callers, Enters(e, w)
  PROVE  /\ \A v \in Workers : Len(queue[v]) \in Nat
         /\ Len(queue'[w]) = Len(queue[w]) + 1 /\ queue'[w][Len(queue[w]) + 1] = e
         /\ \A i \in 1..Len(queue[w]) : queue'[w][i] = queue[w][i]
         /\ \A v \in Workers \ {w} : queue'[v] = queue[v]
  <1>1. PICK S : S = Messages \cup Callers
    OBVIOUS
  <1>2. queue \in [Workers -> Seq(S)] /\ e \in S /\ queue' = [queue EXCEPT ![w] = Append(@, e)]
    BY <1>1 DEF Types, TypeOK, Enters
  <1>3. PICK r : r = [queue EXCEPT ![w] = Append(@, e)]
    OBVIOUS
  <1>4. /\ \A v \in Workers : Len(queue[v]) \in Nat
        /\ Len(r[w]) = Len(queue[w]) + 1 /\ r[w][Len(queue[w]) + 1] = e
        /\ \A i \in 1..Len(queue[w]) : r[w][i] = queue[w][i]
        /\ \A v \in Workers \ {w} : r[v] = queue[v]
    BY <1>2, <1>3, Appended
  <1>5. QED
    BY <1>2, <1>3, <1>4

\* Messages are no callers, and the worker of an accepted one stays the same.
LEMMA AcceptedStays ==
  ASSUME Types, Once, [Next]_vars
  PROVE  /\ Messages \cap Callers = {} /\ None \notin Messages
         /\ \A m \in accepted : m \in Messages /\ m \in Nat /\ WorkerOf(m) \in Workers
         /\ \A m \in 1..Len(log) : poolIndex[log'[m].topic] = WorkerOf(m)
         /\ accepted \subseteq 1..Len(log) /\ Len(log) \in Nat
  <1>1. Messages \subseteq Nat /\ Callers \cap Nat = {} /\ None \notin Nat /\ accepted \subseteq Messages
    BY ConstantsAre DEF Types, TypeOK, Messages
  <1>2. accepted \subseteq 1..Len(log) /\ Len(log) \in Nat
    BY LenProperties DEF Once, Types, TypeOK
  <1>3. \A m \in 1..Len(log) : log'[m] = log[m] /\ log[m] \in [topic : Topics, retained : BOOLEAN, pool : Pools]
    BY LogGrows, ElementOfSeq DEF Types, TypeOK
  <1>4. \A m \in 1..Len(log) : poolIndex[log'[m].topic] = WorkerOf(m) /\ WorkerOf(m) \in Workers
    BY <1>3, ConstantsAre DEF WorkerOf, TopicOf
  <1>5. QED
    BY <1>1, <1>2, <1>4

LEMMA QueuedInit == Init => Queued
  BY EmptySeq DEF Init, Queued

LEMMA QueuedNext ==
  ASSUME Before, Queued, [Next]_vars
  PROVE  Queued'
  <1>. DEFINE W(m) == poolIndex[log'[m].topic]
              Fine(q, w, acc) ==
                \A i \in 1..Len(q) : q[i] \notin Callers =>
                  /\ q[i] \in acc /\ W(q[i]) = w
                  /\ \A j \in 1..Len(q) : i < j /\ q[j] \notin Callers => q[i] < q[j]
  <1>0. Types /\ Once
    BY DEF Before
  <1>1. SUFFICES \A w \in Workers : Fine(queue'[w], w, accepted')
    BY DEF Queued, WorkerOf, TopicOf
  <1>2. \A w \in Workers : Fine(queue[w], w, accepted)
    <2>1. \A w \in Workers : \A i \in 1..Len(queue[w]) : queue[w][i] \notin Callers =>
            /\ queue[w][i] \in accepted /\ W(queue[w][i]) = w
            /\ \A j \in 1..Len(queue[w]) : i < j /\ queue[w][j] \notin Callers => queue[w][i] < queue[w][j]
      BY <1>0, AcceptedStays DEF Queued
    <2>2. QED
      BY <2>1
  <1>3. CASE UNCHANGED <<queue, job, accepted, finished, ran>>
    BY <1>2, <1>3
  <1>4. ASSUME NEW w \in Workers, NEW e \in Messages \cup Callers, Enters(e, w)
        PROVE  \A v \in Workers : Fine(queue'[v], v, accepted')
    <2>. DEFINE n == Len(queue[w])
    <2>1. /\ n \in Nat /\ Len(queue'[w]) = n + 1 /\ queue'[w][n + 1] = e
          /\ \A i \in 1..n : queue'[w][i] = queue[w][i]
          /\ \A v \in Workers \ {w} : queue'[v] = queue[v]
      BY <1>0, <1>4, EntersLast
    <2>2. accepted \subseteq accepted'
      BY <1>4 DEF Enters
    <2>3. e \notin Callers => e \in accepted' /\ W(e) = w /\ \A m \in accepted : m < e
      BY <1>0, <1>4, AcceptedStays DEF Enters
    <2>4. \A v \in Workers \ {w} : Fine(queue'[v], v, accepted')
      BY <1>2, <2>1, <2>2
    <2>5. ASSUME NEW i \in 1..(n + 1), queue'[w][i] \notin Callers
          PROVE  /\ queue'[w][i] \in accepted' /\ W(queue'[w][i]) = w
                 /\ \A j \in 1..(n + 1) : i < j /\ queue'[w][j] \notin Callers => queue'[w][i] < queue'[w][j]
      <3>1. CASE i = n + 1
        <4>1. \A j \in 1..(n + 1) : ~(i < j)
          BY <2>1, <3>1
        <4>2. QED
          BY <2>1, <2>3, <2>5, <3>1, <4>1
      <3>2. CASE i \in 1..n
        <4>1. /\ queue[w][i] \in accepted /\ W(queue[w][i]) = w
              /\ \A j \in 1..n : i < j /\ queue[w][j] \notin Callers => queue[w][i] < queue[w][j]
          BY <1>2, <2>1, <2>5, <3>2
        <4>2. ASSUME NEW j \in 1..(n + 1), i < j, queue'[w][j] \notin Callers
              PROVE  queue'[w][i] < queue'[w][j]
          <5>1. CASE j = n + 1
            BY <4>1, <4>2, <5>1, <2>1, <2>3, <3>2
          <5>2. CASE j \in 1..n
            BY <4>1, <4>2, <5>2, <2>1, <3>2
          <5>3. QED
            BY <5>1, <5>2, <2>1
        <4>3. QED
          BY <4>1, <4>2, <2>1, <2>2, <3>2
      <3>3. QED
        BY <2>1, <3>1, <3>2
    <2>6. QED
      BY <2>1, <2>4, <2>5
  <1>5. ASSUME NEW w \in Workers, Pop(w)
        PROVE  \A v \in Workers : Fine(queue'[v], v, accepted')
    <2>. DEFINE n == Len(queue[w])
    <2>1. /\ n \in Nat /\ n # 0 /\ Len(queue'[w]) = n - 1 /\ accepted' = accepted
          /\ \A i \in 1..(n - 1) : queue'[w][i] = queue[w][i + 1]
          /\ \A v \in Workers \ {w} : queue'[v] = queue[v]
      BY <1>0, <1>5, Popped
    <2>2. ASSUME NEW i \in 1..(n - 1), queue'[w][i] \notin Callers
          PROVE  /\ queue'[w][i] \in accepted' /\ W(queue'[w][i]) = w
                 /\ \A j \in 1..(n - 1) : i < j /\ queue'[w][j] \notin Callers => queue'[w][i] < queue'[w][j]
      <3>1. i + 1 \in 1..n /\ queue[w][i + 1] \notin Callers
        BY <2>1, <2>2
      <3>2. /\ queue[w][i + 1] \in accepted /\ W(queue[w][i + 1]) = w
            /\ \A j \in 1..n : i + 1 < j /\ queue[w][j] \notin Callers => queue[w][i + 1] < queue[w][j]
        BY <1>2, <3>1
      <3>3. ASSUME NEW j \in 1..(n - 1), i < j, queue'[w][j] \notin Callers
            PROVE  queue'[w][i] < queue'[w][j]
        <4>1. queue'[w][i] = queue[w][i + 1] /\ queue'[w][j] = queue[w][j + 1]
          BY <2>1
        <4>2. j + 1 \in 1..n /\ i + 1 < j + 1
          <5>1. n \in Nat
            BY <2>1
          <5>. HIDE DEF n
          <5>2. QED
            BY <5>1, <3>3
        <4>3. QED
          BY <3>2, <3>3, <4>1, <4>2
      <3>4. queue'[w][i] \in accepted' /\ W(queue'[w][i]) = w
        BY <2>1, <2>2, <3>2
      <3>5. QED
        BY <3>3, <3>4
    <2>3. QED
      BY <1>2, <2>1, <2>2
  <1>6. ASSUME NEW w \in Workers, HandlerReturns(w)
        PROVE  \A v \in Workers : Fine(queue'[v], v, accepted')
    BY <1>2, <1>6 DEF HandlerReturns
  <1>7. QED
    BY <1>3, <1>4, <1>5, <1>6, QueueMoves

LEMMA AccountedInit == Init => Accounted
  BY DEF Init, Accounted

LEMMA AccountedNext ==
  ASSUME Before, Queued, Accounted, [Next]_vars
  PROVE  Accounted'
  <1>. DEFINE W(m)         == poolIndex[log'[m].topic]
              In(m, j, q) == j[W(m)] = m \/ \E i \in 1..Len(q[W(m)]) : q[W(m)][i] = m
  <1>0. Types /\ Once
    BY DEF Before
  <1>1. SUFFICES \A m \in accepted' : m \in finished' \/ In(m, job', queue')
    BY DEF Accounted, Waiting, WorkerOf, TopicOf
  <1>2. ASSUME NEW m \in accepted
        PROVE  m \in Messages /\ m \notin Callers /\ m # None /\ W(m) \in Workers /\ (m \in finished \/ In(m, job, queue))
    <2>1. W(m) = WorkerOf(m) /\ W(m) \in Workers /\ m \in Messages /\ m \notin Callers /\ m # None
      BY <1>0, AcceptedStays
    <2>2. m \in finished \/ Waiting(m)
      BY DEF Accounted
    <2>3. QED
      BY <2>1, <2>2 DEF Waiting
  <1>3. CASE UNCHANGED <<queue, job, accepted, finished, ran>>
    BY <1>2, <1>3
  <1>4. ASSUME NEW w \in Workers, NEW e \in Messages \cup Callers, Enters(e, w), NEW m \in accepted'
        PROVE  m \in finished' \/ In(m, job', queue')
    <2>. DEFINE n == Len(queue[w])
    <2>1. /\ n \in Nat /\ Len(queue'[w]) = n + 1 /\ queue'[w][n + 1] = e
          /\ \A i \in 1..n : queue'[w][i] = queue[w][i]
          /\ \A v \in Workers \ {w} : queue'[v] = queue[v]
      BY <1>0, <1>4, EntersLast
    <2>2. job' = job /\ finished' = finished
      BY <1>4 DEF Enters
    <2>3. CASE m \in accepted
      BY <1>2, <2>1, <2>2, <2>3
    <2>4. CASE m \notin accepted
      <3>1. m = e /\ W(m) = w
        BY <1>0, <1>4, <2>4, AcceptedStays DEF Enters
      <3>2. QED
        BY <2>1, <3>1
    <2>5. QED
      BY <2>3, <2>4
  <1>5. ASSUME NEW w \in Workers, Pop(w), NEW m \in accepted'
        PROVE  m \in finished' \/ In(m, job', queue')
    <2>. DEFINE n == Len(queue[w])
    <2>1. /\ n \in Nat /\ n # 0 /\ Len(queue'[w]) = n - 1 /\ accepted' = accepted /\ finished' = finished
          /\ \A i \in 1..(n - 1) : queue'[w][i] = queue[w][i + 1]
          /\ \A v \in Workers \ {w} : queue'[v] = queue[v]
          /\ job[w] = None
          /\ IF queue[w][1] \in Callers THEN job' = job ELSE job' = [job EXCEPT ![w] = queue[w][1]]
      <3>1. IF queue[w][1] \in Callers THEN job' = job ELSE job' = [job EXCEPT ![w] = queue[w][1]]
        BY <1>0, <1>5, Popped
      <3>2. QED
        BY <1>0, <1>5, <3>1, Popped
    <2>2. job \in [Workers -> Messages \cup {None}]
      BY <1>0 DEF Types, TypeOK
    <2>3. CASE W(m) # w
      BY <1>2, <2>1, <2>2, <2>3
    <2>4. CASE W(m) = w
      <3>1. CASE m \in finished
        BY <3>1, <2>1
      <3>2. CASE m \notin finished
        <4>1. PICK i \in 1..n : queue[w][i] = m
          BY <1>2, <2>1, <2>4, <3>2
        <4>2. CASE i = 1
          BY <1>2, <2>1, <2>2, <2>4, <4>1, <4>2
        <4>3. CASE i # 1
          <5>1. i - 1 \in 1..(n - 1) /\ (i - 1) + 1 = i
            BY <4>1, <4>3, <2>1
          <5>2. queue'[w][i - 1] = m
            BY <4>1, <5>1, <2>1
          <5>3. QED
            BY <2>1, <2>4, <5>1, <5>2
        <4>4. QED
          BY <4>2, <4>3
      <3>3. QED
        BY <3>1, <3>2
    <2>5. QED
      BY <2>3, <2>4
  <1>6. ASSUME NEW w \in Workers, HandlerReturns(w), NEW m \in accepted'
        PROVE  m \in finished' \/ In(m, job', queue')
    BY <1>0, <1>2, <1>6 DEF HandlerReturns, Types, TypeOK
  <1>7. QED
    BY <1>2, <1>3, <1>4, <1>5, <1>6, QueueMoves

LEMMA RanInit == Init => Ran
  BY EmptySeq DEF Init, Ran

LEMMA RanNext ==
  ASSUME Before, Queued, Ran, [Next]_vars
  PROVE  Ran'
  <1>. DEFINE W(m) == poolIndex[log'[m].topic]
              \* What is older than all that waits for w.
              Old(m, w, q) == \A k \in 1..Len(q[w]) : q[w][k] \notin Callers => m < q[w][k]
              Fine(r, j, q, acc, fin) ==
                \A i \in 1..Len(r) :
                  /\ r[i] \in acc
                  /\ r[i] \in fin \/ j[W(r[i])] = r[i]
                  /\ Old(r[i], W(r[i]), q)
                  /\ \A k \in 1..Len(r) : i < k /\ W(r[k]) = W(r[i]) => r[i] < r[k] /\ r[i] \in fin
  <1>0. Types /\ Once /\ ran \in Seq(Messages) /\ Len(ran) \in Nat
    BY LenProperties DEF Before, Types, TypeOK
  <1>1. SUFFICES Fine(ran', job', queue', accepted', finished')
    BY DEF Ran, WorkerOf, TopicOf
  <1>2. ASSUME NEW i \in 1..Len(ran)
        PROVE  /\ ran[i] \in accepted /\ ran[i] \in Messages /\ ran[i] \in Nat /\ ran[i] # None
               /\ W(ran[i]) = WorkerOf(ran[i]) /\ W(ran[i]) \in Workers
    BY <1>0, AcceptedStays DEF Ran
  <1>3. Fine(ran, job, queue, accepted, finished)
    BY <1>2 DEF Ran
  <1>4. CASE UNCHANGED <<queue, job, accepted, finished, ran>>
    BY <1>3, <1>4
  <1>5. ASSUME NEW w \in Workers, NEW e \in Messages \cup Callers, Enters(e, w)
        PROVE  Fine(ran', job', queue', accepted', finished')
    <2>. DEFINE n == Len(queue[w])
    <2>1. /\ n \in Nat /\ Len(queue'[w]) = n + 1 /\ queue'[w][n + 1] = e
          /\ \A i \in 1..n : queue'[w][i] = queue[w][i]
          /\ \A v \in Workers \ {w} : queue'[v] = queue[v]
      BY <1>0, <1>5, EntersLast
    <2>2. /\ UNCHANGED <<job, finished, ran>> /\ accepted \subseteq accepted'
          /\ e \notin Callers => \A m \in accepted : m < e
      BY <1>5 DEF Enters
    <2>3. ASSUME NEW i \in 1..Len(ran)
          PROVE  Old(ran[i], W(ran[i]), queue')
      <3>1. Old(ran[i], W(ran[i]), queue) /\ ran[i] \in accepted /\ W(ran[i]) \in Workers
        BY <1>2, <1>3
      <3>. HIDE DEF W
      <3>2. CASE W(ran[i]) # w
        BY <3>1, <3>2, <2>1
      <3>3. CASE W(ran[i]) = w
        BY <3>1, <3>3, <2>1, <2>2
      <3>4. QED
        BY <3>2, <3>3
    <2>. HIDE DEF Old, W
    <2>4. QED
      BY <1>3, <2>2, <2>3
  <1>6. ASSUME NEW w \in Workers, Pop(w)
        PROVE  Fine(ran', job', queue', accepted', finished')
    <2>. DEFINE n == Len(queue[w])
                e == queue[w][1]
    <2>1. /\ n \in Nat /\ n # 0 /\ Len(queue'[w]) = n - 1 /\ accepted' = accepted /\ finished' = finished
          /\ \A i \in 1..(n - 1) : queue'[w][i] = queue[w][i + 1]
          /\ \A v \in Workers \ {w} : queue'[v] = queue[v]
          /\ job[w] = None
      BY <1>0, <1>6, Popped
    <2>2. IF e \in Callers THEN UNCHANGED <<job, ran>> ELSE job' = [job EXCEPT ![w] = e] /\ ran' = Append(ran, e)
      BY <1>0, <1>6, Popped
    <2>3. ASSUME NEW m, NEW v \in Workers, Old(m, v, queue)
          PROVE  Old(m, v, queue')
      <3>1. CASE v # w
        BY <2>1, <2>3, <3>1
      <3>2. CASE v = w
        <4>1. ASSUME NEW k \in 1..(n - 1), queue'[w][k] \notin Callers PROVE m < queue'[w][k]
          <5>1. k + 1 \in 1..n /\ queue'[w][k] = queue[w][k + 1]
            BY <2>1
          <5>2. QED
            BY <5>1, <4>1, <2>3, <3>2
        <4>2. QED
          BY <4>1, <3>2, <2>1
      <3>3. QED
        BY <3>1, <3>2
    <2>. HIDE DEF Old
    <2>4. CASE e \in Callers
      BY <1>2, <1>3, <2>1, <2>2, <2>3, <2>4
    <2>5. CASE e \notin Callers
      <3>1. /\ e \in accepted /\ WorkerOf(e) = w
            /\ \A k \in 1..n : 1 < k /\ queue[w][k] \notin Callers => e < queue[w][k]
        BY <2>1, <2>5 DEF Queued
      <3>2. e \in Messages /\ W(e) = w /\ Old(e, w, queue')
        <4>1. e \in Messages /\ W(e) = w
          BY <1>0, <3>1, AcceptedStays
        <4>2. ASSUME NEW k \in 1..(n - 1), queue'[w][k] \notin Callers PROVE e < queue'[w][k]
          <5>1. k + 1 \in 1..n /\ 1 < k + 1 /\ queue'[w][k] = queue[w][k + 1]
            BY <2>1
          <5>2. QED
            BY <5>1, <4>2, <3>1
        <4>3. QED
          BY <4>1, <4>2, <2>1 DEF Old
      <3>3. job \in [Workers -> Messages \cup {None}] /\ job' = [job EXCEPT ![w] = e] /\ ran' = Append(ran, e)
        BY <1>0, <2>2, <2>5 DEF Types, TypeOK
      <3>4. /\ Len(ran') = Len(ran) + 1 /\ ran'[Len(ran) + 1] = e
            /\ \A i \in 1..Len(ran) : ran'[i] = ran[i]
        BY <1>0, <3>2, <3>3
      <3>5. ASSUME NEW i \in 1..Len(ran)
            PROVE  /\ ran[i] \in accepted /\ Old(ran[i], W(ran[i]), queue')
                   /\ ran[i] \in finished \/ job'[W(ran[i])] = ran[i]
                   /\ \A k \in 1..Len(ran) : i < k /\ W(ran[k]) = W(ran[i]) => ran[i] < ran[k] /\ ran[i] \in finished
                   /\ W(ran[i]) = w => ran[i] < e /\ ran[i] \in finished
        <4>1. /\ ran[i] \in accepted /\ Old(ran[i], W(ran[i]), queue)
              /\ ran[i] \in finished \/ job[W(ran[i])] = ran[i]
              /\ \A k \in 1..Len(ran) : i < k /\ W(ran[k]) = W(ran[i]) => ran[i] < ran[k] /\ ran[i] \in finished
          BY <1>3
        <4>2. ran[i] # None /\ W(ran[i]) \in Workers
          BY <1>2
        <4>. HIDE DEF W
        <4>3. W(ran[i]) = w => ran[i] < e /\ ran[i] \in finished
          <5>1. 1 \in 1..n
            BY <2>1
          <5>2. W(ran[i]) = w => ran[i] < e
            BY <4>1, <5>1, <2>5 DEF Old
          <5>3. W(ran[i]) = w => ran[i] \in finished
            BY <4>1, <4>2, <2>1
          <5>4. QED
            BY <5>2, <5>3
        <4>4. ran[i] \in finished \/ job'[W(ran[i])] = ran[i]
          BY <4>1, <4>2, <4>3, <3>3
        <4>5. QED
          BY <4>1, <4>2, <4>3, <4>4, <2>3
      <3>6. job'[w] = e
        BY <3>3
      <3>. HIDE DEF W, e
      <3>7. ASSUME NEW i \in 1..(Len(ran) + 1), NEW k \in 1..(Len(ran) + 1), i < k, W(ran'[k]) = W(ran'[i])
            PROVE  ran'[i] < ran'[k] /\ ran'[i] \in finished
        <4>1. i \in 1..Len(ran) /\ ran'[i] = ran[i]
          BY <1>0, <3>4, <3>7
        <4>2. CASE k \in 1..Len(ran)
          BY <4>1, <4>2, <3>4, <3>5, <3>7
        <4>3. CASE k = Len(ran) + 1
          BY <4>1, <4>3, <3>2, <3>4, <3>5, <3>7
        <4>4. QED
          BY <1>0, <4>2, <4>3
      <3>8. ASSUME NEW i \in 1..(Len(ran) + 1)
            PROVE  /\ ran'[i] \in accepted /\ Old(ran'[i], W(ran'[i]), queue')
                   /\ ran'[i] \in finished \/ job'[W(ran'[i])] = ran'[i]
        <4>1. CASE i \in 1..Len(ran)
          BY <4>1, <3>4, <3>5
        <4>2. CASE i = Len(ran) + 1
          BY <4>2, <3>1, <3>2, <3>4, <3>6
        <4>3. QED
          BY <1>0, <4>1, <4>2
      <3>9. QED
        BY <2>1, <3>4, <3>7, <3>8
    <2>6. QED
      BY <2>4, <2>5
  <1>7. ASSUME NEW w \in Workers, HandlerReturns(w)
        PROVE  Fine(ran', job', queue', accepted', finished')
    <2>1. /\ UNCHANGED <<queue, accepted, ran>> /\ finished' = finished \cup {job[w]}
          /\ job' = [job EXCEPT ![w] = None] /\ job \in [Workers -> Messages \cup {None}]
      BY <1>0, <1>7 DEF HandlerReturns, Types, TypeOK
    <2>. HIDE DEF Old
    <2>2. ASSUME NEW i \in 1..Len(ran) PROVE ran[i] \in finished' \/ job'[W(ran[i])] = ran[i]
      BY <1>2, <1>3, <2>1
    <2>3. QED
      BY <1>3, <2>1, <2>2
  <1>8. QED
    BY <1>4, <1>5, <1>6, <1>7, QueueMoves

-----------------------------------------------------------------------------
(* What a failed Start leaves.                                             *)

LEMMA KnownInit == Init => Known
  BY DEF Init, Known

LEMMA KnownNext ==
  ASSUME Types, Gate, Known, [Next]_vars
  PROVE  Known'
  <1>. SUFFICES ASSUME "lostAck" \notin Refuses
       PROVE  /\ pool' = 0 /\ ~stopped' => subs' = {}
              /\ op' = "start" /\ phase' \in {"subscribe", "sent", "granted", "lost", "rollback"} =>
                   subs' \subseteq done' \cup live' \cup (IF phase' = "granted" THEN {at'} ELSE {})
              /\ phase' = "rollback" => op' = "start"
    BY DEF Known
  <1>0. /\ pool = 0 /\ ~stopped => subs = {}
        /\ op = "start" /\ phase \in {"subscribe", "sent", "granted", "lost", "rollback"} =>
             subs \subseteq done \cup live \cup (IF phase = "granted" THEN {at} ELSE {})
        /\ phase = "rollback" => op = "start"
    BY DEF Known
  <1>1. /\ life = None => phase = "none"
        /\ pool # 0 <=> started /\ ~stopped
        /\ phase \in {"subscribe", "sent", "granted", "lost", "rollback"} => pool # 0
        /\ phase \in {"unsubscribe", "close"} => pool = 0
    BY DEF Gate
  <1>2. CASE UNCHANGED <<pool, stopped, subs, op, phase, done, live, at>>
    BY <1>0, <1>2
  <1>3. ASSUME NEW a \in Actors, StartGate(a) \/ ResubscribeGate(a) \/ StopGate(a) PROVE Known'
    BY <1>0, <1>1, <1>3, ConstantsAre DEF Known, StartGate, ResubscribeGate, StopGate, Hold, router, broker,
       Types, TypeOK, Pools
  <1>4. ASSUME NEW f \in Filters, SubscribeSent(f) \/ RollbackStep(f) \/ UnsubscribeStep(f) PROVE Known'
    BY <1>0, <1>1, <1>4 DEF Known, SubscribeSent, RollbackStep, UnsubscribeStep, router, broker
  <1>5. ASSUME SubscribeAnswered \/ SubscribeFails \/ RollbackEnds PROVE Known'
    BY <1>0, <1>1, <1>5 DEF Known, SubscribeAnswered, SubscribeFails, RollbackEnds, router, broker
  <1>6. ASSUME SubscribeEnds \/ Drained PROVE Known'
    BY <1>0, <1>1, <1>6 DEF Known, SubscribeEnds, Drained, Return, router, broker
  <1>7. CASE Grant
    BY <1>0, <1>1, <1>7 DEF Known, Grant, router
  <1>8. CASE Reconnect
    BY <1>0, <1>1, <1>8 DEF Known, Reconnect, router
  <1>9. ASSUME NEW w \in Workers, CloseQueue(w) \/ Pop(w) \/ HandlerReturns(w) \/ Exit(w)
        PROVE  UNCHANGED <<pool, stopped, subs, op, phase, done, live, at>>
    BY <1>9 DEF CloseQueue, Pop, HandlerReturns, Exit, router, holder, broker
  <1>10. ASSUME NEW a \in Callers, \/ \E o \in Operations : Call(a, o)
                                   \/ ReadPool(a) \/ PushSentinel(a) \/ FlushEnds(a)
         PROVE  UNCHANGED <<pool, stopped, subs, op, phase, done, live, at>>
    BY <1>10 DEF Call, ReadPool, PushSentinel, FlushEnds, router, holder, broker
  <1>11. ASSUME \/ \E f \in Filters : Handle(f) \/ Deliver(f)
                \/ \E a \in Actors : Refused(a)
                \/ \E t \in Topics : Publish(t)
                \/ UNCHANGED vars
         PROVE  UNCHANGED <<pool, stopped, subs, op, phase, done, live, at>>
    BY <1>11 DEF Handle, Deliver, Refused, Publish, vars, router, holder, broker
  <1>12. CASE UNCHANGED <<pool, stopped, subs, op, phase, done, live, at>> \/ Known'
    BY <1>2, <1>12 DEF Known
  <1>13. QED
    BY <1>3, <1>4, <1>5, <1>6, <1>7, <1>8, <1>9, <1>10, <1>11, <1>12 DEF Next, HolderStep, Acquire

-----------------------------------------------------------------------------
(* WaitIdle.                                                               *)

\* What the callers of WaitIdle have in the queues changes in six ways.
LEMMA FlushMoves ==
  ASSUME Before, Holding, [Next]_vars
  PROVE  /\ made <= made' /\ accepted \subseteq accepted'
         /\ pool' = pool \/ pool' = 0 \/ pool' = made + 1
         /\ \/ UNCHANGED <<queue, flush>> /\ \A a \in Callers : pc[a] = "flush" <=> pc'[a] = "flush"
            \/ \E w \in Workers : \E e \in Messages : Enters(e, w) /\ UNCHANGED <<flush, pc>>
            \/ \E a \in Callers : ReadPool(a) \/ PushSentinel(a) \/ FlushEnds(a)
            \/ \E w \in Workers : Pop(w)
  <1>. DEFINE Quiet == UNCHANGED <<queue, flush>> /\ \A a \in Callers : pc[a] = "flush" <=> pc'[a] = "flush"
  <1>0. /\ pc \in [Actors -> Operations \cup {"idle", "holds", "flush"}] /\ life \in Actors \cup {None}
        /\ "flush" \notin Operations /\ Callers \subseteq Actors
        /\ life # None => pc[life] = "holds"
        /\ phase # "none" => life # None
    BY DEF Before, Types, TypeOK, Operations, Actors, Holding, Gate
  <1>1. ASSUME NEW a \in Callers, NEW o \in Operations, Call(a, o) PROVE Quiet
    BY <1>0, <1>1 DEF Call, workers
  <1>2. ASSUME NEW a \in Actors, Acquire(a) PROVE Quiet
    <2>1. Refused(a) \/ ResubscribeGate(a) \/ StopGate(a) => Quiet
      BY <1>0 DEF Refused, ResubscribeGate, StopGate, Hold, workers
    <2>2. StartGate(a) => queue' = queue
      BY StartGateQueues
    <2>3. StartGate(a) => Quiet
      BY <1>0, <2>2 DEF StartGate, Hold
    <2>4. QED
      BY <1>2, <2>1, <2>3 DEF Acquire
  <1>3. ASSUME HolderStep PROVE Quiet
    <2>1. ASSUME SubscribeEnds \/ Drained PROVE Quiet
      BY <1>0, <2>1 DEF SubscribeEnds, Drained, Return, workers
    <2>2. ASSUME \/ \E f \in Filters : SubscribeSent(f) \/ RollbackStep(f) \/ UnsubscribeStep(f)
                 \/ SubscribeAnswered \/ SubscribeFails \/ RollbackEnds
                 \/ \E w \in Workers : CloseQueue(w)
          PROVE  Quiet
      BY <2>2 DEF SubscribeSent, RollbackStep, UnsubscribeStep, SubscribeAnswered, SubscribeFails, RollbackEnds,
                  CloseQueue, workers
    <2>3. QED
      BY <1>3, <2>1, <2>2 DEF HolderStep
  <1>4. ASSUME NEW f \in Filters, Deliver(f)
        PROVE  Quiet \/ \E w \in Workers : \E e \in Messages : Enters(e, w) /\ UNCHANGED <<flush, pc>>
    <2>1. UNCHANGED <<flush, pc>>
      BY <1>4 DEF Deliver
    <2>2. QED
      BY <1>4, <2>1, DeliverEnters
  <1>5. ASSUME NEW w \in Workers, HandlerReturns(w) \/ Exit(w) PROVE Quiet
    BY <1>5 DEF HandlerReturns, Exit
  <1>6. ASSUME \/ \E f \in Filters : Handle(f)
               \/ \E t \in Topics : Publish(t)
               \/ Grant \/ Reconnect \/ UNCHANGED vars
        PROVE  Quiet
    BY <1>6 DEF Handle, Publish, Grant, Reconnect, vars, workers
  <1>7. /\ made \in Nat /\ accepted \subseteq accepted' /\ (made' = made \/ made' = made + 1)
        /\ pool' = pool \/ pool' = 0 \/ pool' = made + 1
    <2>1. made \in Nat
      BY ConstantsAre DEF Before, Types, TypeOK, Pools
    <2>2. accepted \subseteq accepted'
      BY Moves DEF commands, Handle, Deliver, StartGate, PushSentinel, Pop, HandlerReturns, Publish, Grant, Reconnect, history
    <2>3. UNCHANGED <<made, pool>> \/ (pool' = 0 /\ made' = made) \/ (pool' = made + 1 /\ made' = made + 1)
      <3>1. ASSUME NEW a \in Actors, StartGate(a) \/ ResubscribeGate(a) \/ StopGate(a)
            PROVE  UNCHANGED <<made, pool>> \/ (pool' = 0 /\ made' = made) \/ (pool' = made + 1 /\ made' = made + 1)
        BY <3>1 DEF StartGate, ResubscribeGate, StopGate, router
      <3>2. ASSUME HolderStep PROVE UNCHANGED <<made, pool>> \/ (pool' = 0 /\ made' = made)
        BY <3>2 DEF HolderStep, SubscribeSent, RollbackStep, UnsubscribeStep, SubscribeAnswered, SubscribeFails,
                    SubscribeEnds, RollbackEnds, CloseQueue, Drained, router
      <3>3. QED
        BY <3>1, <3>2, GateMoves DEF gate, Exit, Grant, Reconnect, router
    <2>4. QED
      BY <2>1, <2>2, <2>3
  <1>8. QED
    <2>1. \/ Quiet
          \/ \E w \in Workers : \E e \in Messages : Enters(e, w) /\ UNCHANGED <<flush, pc>>
          \/ \E a \in Callers : ReadPool(a) \/ PushSentinel(a) \/ FlushEnds(a)
          \/ \E w \in Workers : Pop(w)
      BY <1>1, <1>2, <1>3, <1>4, <1>5, <1>6 DEF Next
    <2>2. QED
      BY <1>7, <2>1

LEMMA SentinelsInit == Init => Sentinels
  BY ConstantsAre, EmptySeq DEF Init, Sentinels, NoFlush, Actors

LEMMA SentinelsNext ==
  ASSUME Before, Holding, Sentinels, [Next]_vars
  PROVE  Sentinels'
  <1>. DEFINE Lies(a, q, n) == \E k \in 1..Len(q) : q[k] = a
              Fine(a, w, fl, q) ==
                /\ w \in fl.wait <=> \E k \in 1..Len(q[w]) : q[w][k] = a
                /\ \A k, l \in 1..Len(q[w]) : q[w][k] = a /\ q[w][l] = a => k = l
                /\ w \in fl.wait => w < fl.next
              Known2(a, fl, p) ==
                /\ p[a] # "flush" => fl = NoFlush
                /\ fl.pool <= made'
                /\ fl.upTo \subseteq accepted'
  <1>0. Types /\ Once /\ Gate
    BY DEF Before
  <1>1. SUFFICES \A a \in Callers : Known2(a, flush'[a], pc') /\ \A w \in Workers : Fine(a, w, flush'[a], queue')
    BY DEF Sentinels
  <1>2. ASSUME NEW a \in Callers
        PROVE  /\ flush[a] \in [pool : Pools, next : 1..(NumWorkers + 1), wait : SUBSET Workers, upTo : SUBSET Messages]
               /\ flush[a].pool \in Nat /\ made \in Nat /\ flush[a].pool <= made /\ flush[a].next \in Nat
               /\ Known2(a, flush[a], pc)
               /\ \A w \in Workers : Fine(a, w, flush[a], queue)
    <2>1. /\ flush[a] \in [pool : Pools, next : 1..(NumWorkers + 1), wait : SUBSET Workers, upTo : SUBSET Messages]
          /\ made \in Nat /\ made' \in Nat
      <3>1. Types'
        BY <1>0, TypesNext
      <3>2. made \in Nat /\ made' \in Nat
        BY <1>0, <3>1, ConstantsAre DEF Types, TypeOK, Pools
      <3>3. QED
        BY <1>0, <3>2 DEF Types, TypeOK
    <2>2. flush[a].pool \in Nat /\ flush[a].next \in Nat
      BY <2>1, ConstantsAre DEF Pools
    <2>3. made <= made' /\ accepted \subseteq accepted'
      BY FlushMoves
    <2>4. /\ pc[a] # "flush" => flush[a] = NoFlush
          /\ flush[a].pool <= made /\ flush[a].upTo \subseteq accepted
          /\ \A w \in Workers : Fine(a, w, flush[a], queue)
      BY DEF Sentinels
    <2>. HIDE DEF Fine
    <2>5. QED
      BY <2>1, <2>2, <2>3, <2>4
  <1>3. CASE UNCHANGED <<queue, flush>> /\ \A a \in Callers : pc[a] = "flush" <=> pc'[a] = "flush"
    <2>. HIDE DEF Fine
    <2>. QED
      BY <1>2, <1>3
  <1>4. ASSUME NEW w \in Workers, NEW e \in Messages \cup Callers, Enters(e, w)
        PROVE  /\ \A v \in Workers : Len(queue[v]) \in Nat
               /\ \A a \in Callers \ {e} : \A v \in Workers :
                    /\ (\E k \in 1..Len(queue[v]) : queue[v][k] = a) <=> (\E k \in 1..Len(queue'[v]) : queue'[v][k] = a)
                    /\ (\A k, l \in 1..Len(queue[v]) : queue[v][k] = a /\ queue[v][l] = a => k = l)
                         => (\A k, l \in 1..Len(queue'[v]) : queue'[v][k] = a /\ queue'[v][l] = a => k = l)
    <2>. DEFINE n == Len(queue[w])
    <2>1. /\ \A v \in Workers : Len(queue[v]) \in Nat
          /\ Len(queue'[w]) = n + 1 /\ queue'[w][n + 1] = e
          /\ \A i \in 1..n : queue'[w][i] = queue[w][i]
          /\ \A v \in Workers \ {w} : queue'[v] = queue[v]
      BY <1>0, <1>4, EntersLast
    <2>2. ASSUME NEW a \in Callers \ {e}
          PROVE  /\ \A k \in 1..(n + 1) : queue'[w][k] = a => k \in 1..n /\ queue[w][k] = a
                 /\ \A k \in 1..n : queue[w][k] = a => k \in 1..(n + 1) /\ queue'[w][k] = a
      <3>1. ASSUME NEW k \in 1..(n + 1), queue'[w][k] = a PROVE k # n + 1
        BY <2>1, <2>2, <3>1
      <3>2. QED
        BY <2>1, <3>1
    <2>3. QED
      BY <2>1, <2>2
  <1>5. ASSUME NEW w \in Workers, NEW e \in Messages, Enters(e, w), UNCHANGED <<flush, pc>>, NEW a \in Callers
        PROVE  Known2(a, flush'[a], pc') /\ \A v \in Workers : Fine(a, v, flush'[a], queue')
    <2>1. a # e
      BY <1>0, AcceptedStays
    <2>2. \A v \in Workers : Fine(a, v, flush[a], queue')
      BY <1>2, <1>4, <1>5, <2>1
    <2>. HIDE DEF Fine
    <2>3. QED
      BY <1>2, <1>5, <2>2
  <1>6. ASSUME NEW a \in Callers, ReadPool(a)
        PROVE  \A b \in Callers : Known2(b, flush'[b], pc') /\ \A w \in Workers : Fine(b, w, flush'[b], queue')
    <2>1. /\ flush' = [flush EXCEPT ![a] = [NoFlush EXCEPT !.pool = pool, !.upTo = accepted]]
          /\ pc' = [pc EXCEPT ![a] = "flush"] /\ queue' = queue /\ pc[a] # "flush" /\ made' = made /\ accepted' = accepted
      BY <1>6 DEF ReadPool, workers, router, history
    <2>2. /\ flush'[a].pool = pool /\ flush'[a].upTo = accepted /\ flush'[a].wait = {} /\ pc'[a] = "flush"
      BY <1>0, <2>1 DEF NoFlush, Types, TypeOK, Actors
    <2>3. pool <= made
      BY <1>0, ConstantsAre DEF Gate, Types, TypeOK, Pools
    <2>4. Known2(a, flush'[a], pc')
      BY <2>1, <2>2, <2>3
    <2>5. \A w \in Workers : Fine(a, w, flush'[a], queue')
      <3>1. flush[a].wait = {}
        BY <1>2, <2>1 DEF NoFlush
      <3>2. QED
        BY <1>2, <2>1, <2>2, <3>1
    <2>6. ASSUME NEW b \in Callers \ {a}
          PROVE  flush'[b] = flush[b] /\ pc'[b] = pc[b]
      BY <1>0, <2>1 DEF Types, TypeOK, Actors
    <2>. HIDE DEF Fine
    <2>7. QED
      BY <1>2, <2>1, <2>4, <2>5, <2>6
  <1>7. ASSUME NEW a \in Callers, PushSentinel(a)
        PROVE  \A b \in Callers : Known2(b, flush'[b], pc') /\ \A w \in Workers : Fine(b, w, flush'[b], queue')
    <2>. DEFINE w == flush[a].next
    <2>1. /\ w \in Workers /\ w \in Nat /\ pc[a] = "flush" /\ pc' = pc /\ made' = made /\ accepted' = accepted
          /\ \/ queue' = queue /\ flush' = [flush EXCEPT ![a].next = w + 1]
             \/ Enters(a, w) /\ flush' = [flush EXCEPT ![a].next = w + 1, ![a].wait = @ \cup {w}]
      <3>1. /\ w \in Workers /\ pc[a] = "flush" /\ pc' = pc /\ made' = made /\ accepted' = accepted
            /\ UNCHANGED <<job, finished, ran>>
        BY <1>7 DEF PushSentinel, router, history
      <3>2. w \in Nat
        BY <1>2
      <3>3. CASE flush[a].pool = made /\ w \notin closed
        <4>1. flush' = [flush EXCEPT ![a].next = w + 1, ![a].wait = @ \cup {w}] /\ queue' = [queue EXCEPT ![w] = Append(@, a)]
          BY <1>7, <3>3 DEF PushSentinel
        <4>2. QED
          BY <1>7, <3>1, <3>2, <4>1 DEF Enters
      <3>4. CASE ~(flush[a].pool = made /\ w \notin closed)
        <4>1. flush' = [flush EXCEPT ![a].next = w + 1, ![a].wait = @] /\ queue' = queue
          BY <1>7, <3>4 DEF PushSentinel
        <4>2. flush' = [flush EXCEPT ![a].next = w + 1]
          BY <1>0, <4>1 DEF Types, TypeOK
        <4>3. QED
          BY <3>1, <3>2, <4>1, <4>2
      <3>5. QED
        BY <3>3, <3>4
    <2>2. /\ flush'[a].next = w + 1 /\ flush'[a].pool = flush[a].pool /\ flush'[a].upTo = flush[a].upTo
          /\ \/ queue' = queue /\ flush'[a].wait = flush[a].wait
             \/ Enters(a, w) /\ flush'[a].wait = flush[a].wait \cup {w}
          /\ \A b \in Callers \ {a} : flush'[b] = flush[b]
      BY <1>0, <2>1 DEF Types, TypeOK
    <2>. HIDE DEF w
    <2>3. Known2(a, flush'[a], pc')
      BY <1>2, <2>1, <2>2
    <2>4. CASE queue' = queue /\ flush'[a].wait = flush[a].wait
      <3>1. w = flush[a].next
        BY DEF w
      <3>2. \A v \in Workers : Fine(a, v, flush'[a], queue')
        BY <1>2, <2>1, <2>2, <2>4, <3>1, ConstantsAre
      <3>. HIDE DEF Fine
      <3>3. QED
        BY <1>2, <2>1, <2>2, <2>3, <2>4, <3>2
    <2>5. CASE Enters(a, w) /\ flush'[a].wait = flush[a].wait \cup {w}
      <3>0. w = flush[a].next /\ a \in Messages \cup Callers
        BY DEF w
      <3>1. \A b \in Callers \ {a} : \A v \in Workers : Fine(b, v, flush[b], queue')
        BY <1>2, <1>4, <2>1, <2>5
      <3>2. /\ Len(queue[w]) \in Nat
            /\ Len(queue'[w]) = Len(queue[w]) + 1 /\ queue'[w][Len(queue[w]) + 1] = a
            /\ \A i \in 1..Len(queue[w]) : queue'[w][i] = queue[w][i]
            /\ \A v \in Workers \ {w} : queue'[v] = queue[v]
        BY <1>0, <2>1, <2>5, <3>0, EntersLast
      <3>3. \A k \in 1..Len(queue[w]) : queue[w][k] # a
        BY <1>2, <2>1, <3>0
      <3>4. Fine(a, w, flush'[a], queue')
        <4>1. \A k \in 1..Len(queue'[w]) : queue'[w][k] = a => k = Len(queue[w]) + 1
          BY <3>2, <3>3
        <4>2. Len(queue[w]) + 1 \in 1..Len(queue'[w])
          BY <3>2
        <4>3. QED
          BY <2>1, <2>2, <2>5, <3>2, <4>1, <4>2
      <3>5. ASSUME NEW v \in Workers \ {w} PROVE Fine(a, v, flush'[a], queue')
        <4>1. v \in Nat
          BY ConstantsAre
        <4>2. QED
          BY <1>2, <2>1, <2>2, <2>5, <3>0, <3>2, <4>1
      <3>. HIDE DEF Fine
      <3>6. QED
        BY <1>2, <2>1, <2>2, <2>3, <3>1, <3>4, <3>5
    <2>6. QED
      BY <2>2, <2>4, <2>5
  <1>8. ASSUME NEW a \in Callers, FlushEnds(a)
        PROVE  \A b \in Callers : Known2(b, flush'[b], pc') /\ \A w \in Workers : Fine(b, w, flush'[b], queue')
    <2>1. /\ flush' = [flush EXCEPT ![a] = NoFlush] /\ flush[a].wait = {}
          /\ pc' = [pc EXCEPT ![a] = "idle"] /\ queue' = queue /\ made' = made /\ accepted' = accepted
      BY <1>8 DEF FlushEnds, workers, router, history
    <2>2. flush'[a] = NoFlush /\ NoFlush.pool = 0 /\ NoFlush.upTo = {} /\ NoFlush.wait = {}
      BY <1>0, <2>1 DEF NoFlush, Types, TypeOK
    <2>3. \A b \in Callers \ {a} : flush'[b] = flush[b] /\ pc'[b] = pc[b]
      BY <1>0, <2>1 DEF Types, TypeOK, Actors
    <2>4. \A w \in Workers : Fine(a, w, flush'[a], queue')
      BY <1>2, <2>1, <2>2
    <2>5. Known2(a, flush'[a], pc')
      BY <1>2, <2>1, <2>2
    <2>. HIDE DEF Fine
    <2>6. QED
      BY <1>2, <2>1, <2>3, <2>4, <2>5
  <1>9. ASSUME NEW w \in Workers, Pop(w)
        PROVE  \A b \in Callers : Known2(b, flush'[b], pc') /\ \A v \in Workers : Fine(b, v, flush'[b], queue')
    <2>. DEFINE n == Len(queue[w])
                e == queue[w][1]
    <2>1. /\ n \in Nat /\ n # 0 /\ Len(queue'[w]) = n - 1 /\ accepted' = accepted /\ made' = made
          /\ \A i \in 1..(n - 1) : queue'[w][i] = queue[w][i + 1]
          /\ \A v \in Workers \ {w} : queue'[v] = queue[v]
      BY <1>0, <1>9, Popped
    <2>2. IF e \in Callers THEN flush' = [flush EXCEPT ![e].wait = @ \ {w}] /\ pc' = pc
          ELSE flush' = flush /\ \E o \in {"idle"} \cup HandlerCalls : pc' = [pc EXCEPT ![w] = o]
      BY <1>0, <1>9, Popped
    <2>3. \A b \in Callers : pc'[b] = pc[b]
      BY <2>2, <1>0, ConstantsAre DEF Types, TypeOK, Actors
    <2>4. \A k \in 1..(n - 1) : k + 1 \in 1..n
      BY <2>1
    <2>5. \A k \in 2..n : k - 1 \in 1..(n - 1) /\ queue'[w][k - 1] = queue[w][k]
      BY <2>1
    <2>6. \A k \in 1..n : k = 1 \/ k \in 2..n
      BY <2>1
    <2>. HIDE DEF e
    <2>7. ASSUME NEW b \in Callers, b # e
          PROVE  flush'[b] = flush[b] /\ \A v \in Workers : Fine(b, v, flush[b], queue')
      <3>1. flush'[b] = flush[b]
        BY <1>0, <2>2, <2>7 DEF Types, TypeOK
      <3>2. queue[w][1] # b
        BY <2>7 DEF e
      <3>3. (\E k \in 1..n : queue[w][k] = b) <=> (\E k \in 1..(n - 1) : queue'[w][k] = b)
        BY <2>1, <2>4, <2>5, <2>6, <3>2
      <3>4. \A k, l \in 1..(n - 1) : queue'[w][k] = b /\ queue'[w][l] = b => k = l
        <4>1. ASSUME NEW k \in 1..(n - 1), NEW l \in 1..(n - 1), queue'[w][k] = b, queue'[w][l] = b
              PROVE  k + 1 = l + 1
          <5>1. k + 1 \in 1..n /\ l + 1 \in 1..n /\ queue[w][k + 1] = b /\ queue[w][l + 1] = b
            BY <2>1, <2>4, <4>1
          <5>2. QED
            BY <1>2, <5>1
        <4>2. QED
          BY <4>1
      <3>5. Fine(b, w, flush[b], queue')
        BY <1>2, <2>1, <3>3, <3>4
      <3>6. \A v \in Workers \ {w} : Fine(b, v, flush[b], queue')
        BY <1>2, <2>1
      <3>7. QED
        BY <3>1, <3>5, <3>6
    <2>8. ASSUME e \in Callers
          PROVE  /\ flush'[e].pool = flush[e].pool /\ flush'[e].upTo = flush[e].upTo /\ flush'[e].next = flush[e].next
                 /\ flush'[e].wait = flush[e].wait \ {w} /\ pc[e] = "flush"
                 /\ \A v \in Workers : Fine(e, v, flush'[e], queue')
      <3>1. /\ flush'[e].pool = flush[e].pool /\ flush'[e].upTo = flush[e].upTo /\ flush'[e].next = flush[e].next
            /\ flush'[e].wait = flush[e].wait \ {w}
        BY <1>0, <2>2, <2>8 DEF Types, TypeOK
      <3>2. queue[w][1] = e /\ 1 \in 1..n
        BY <2>1 DEF e
      <3>3. w \in flush[e].wait
        BY <1>2, <2>8, <3>2
      <3>4. pc[e] = "flush"
        BY <1>2, <2>8, <3>3 DEF NoFlush
      <3>5. \A k \in 1..(n - 1) : queue'[w][k] # e
        <4>1. ASSUME NEW k \in 1..(n - 1), queue'[w][k] = e PROVE FALSE
          <5>1. k + 1 \in 1..n /\ queue[w][k + 1] = e
            BY <2>1, <2>4, <4>1
          <5>2. k + 1 = 1
            BY <1>2, <2>8, <3>2, <5>1
          <5>3. QED
            BY <5>2
        <4>2. QED
          BY <4>1
      <3>6. Fine(e, w, flush'[e], queue')
        BY <2>1, <3>1, <3>5
      <3>7. \A v \in Workers \ {w} : Fine(e, v, flush'[e], queue')
        BY <1>2, <2>1, <2>8, <3>1
      <3>8. QED
        BY <3>1, <3>4, <3>6, <3>7
    <2>9. ASSUME NEW b \in Callers
          PROVE  Known2(b, flush'[b], pc') /\ \A v \in Workers : Fine(b, v, flush'[b], queue')
      <3>. HIDE DEF Fine
      <3>1. CASE b # e
        BY <1>2, <2>1, <2>3, <2>7, <3>1
      <3>2. CASE b = e
        BY <1>2, <2>1, <2>3, <2>8, <3>2
      <3>3. QED
        BY <3>1, <3>2
    <2>10. QED
      BY <2>9
  <1>10. QED
    BY <1>3, <1>5, <1>6, <1>7, <1>8, <1>9, FlushMoves

LEMMA BehindInit == Init => Behind
  BY DEF Init, Behind, Actors

LEMMA BehindNext ==
  ASSUME Before, Holding, Queued, Accounted, Sentinels, Behind, [Next]_vars
  PROVE  Behind'
  <1>. DEFINE W(m) == poolIndex[log'[m].topic]
              Ahead(a, m, q, j) ==
                \E k \in 1..Len(q[W(m)]) :
                  /\ q[W(m)][k] = a
                  /\ j[W(m)] = m \/ \E i \in 1..(k - 1) : q[W(m)][i] = m
              B(a, m, fl, q, j, fin) == m \in fin \/ fl.next <= W(m) \/ Ahead(a, m, q, j)
  <1>0. Types /\ Once /\ Gate
    BY DEF Before
  <1>1. SUFFICES ASSUME NEW a \in Callers, pc'[a] = "flush", pool' # 0, flush'[a].pool = pool', NEW m \in flush'[a].upTo
        PROVE  B(a, m, flush'[a], queue', job', finished')
    BY DEF Behind, WorkerOf, TopicOf
  <1>2. ASSUME m \in accepted
        PROVE  /\ W(m) = WorkerOf(m) /\ W(m) \in Workers /\ W(m) \in Nat /\ W(m) >= 1
               /\ m \in Messages /\ m # None /\ m \notin Callers
    BY <1>0, <1>2, AcceptedStays, ConstantsAre DEF Workers
  <1>3. ASSUME flush'[a] = flush[a] \/ (flush'[a].pool = flush[a].pool /\ flush'[a].upTo = flush[a].upTo), pc[a] = "flush"
        PROVE  /\ pool' = pool /\ flush[a].pool = pool /\ m \in accepted
               /\ B(a, m, flush[a], queue, job, finished)
    <2>1. flush[a].pool = flush'[a].pool /\ m \in flush[a].upTo
      BY <1>1, <1>3
    <2>2. made \in Nat /\ flush[a].pool <= made /\ flush[a].upTo \subseteq accepted
      BY <1>0, ConstantsAre DEF Sentinels, Types, TypeOK, Pools
    <2>3. pool' = pool
      BY <1>1, <2>1, <2>2, FlushMoves
    <2>4. m \in accepted /\ W(m) = WorkerOf(m)
      BY <1>2, <2>1, <2>2
    <2>5. \/ m \in finished
          \/ flush[a].next <= WorkerOf(m)
          \/ \E k \in 1..Len(queue[WorkerOf(m)]) :
               /\ queue[WorkerOf(m)][k] = a
               /\ job[WorkerOf(m)] = m \/ \E i \in 1..(k - 1) : queue[WorkerOf(m)][i] = m
      BY <1>1, <1>3, <2>1, <2>3 DEF Behind
    <2>6. B(a, m, flush[a], queue, job, finished)
      BY <2>4, <2>5
    <2>7. QED
      BY <1>1, <2>1, <2>3, <2>4, <2>6
  <1>4. ASSUME NEW w \in Workers, NEW e \in Messages \cup Callers, Enters(e, w), m \in accepted, Ahead(a, m, queue, job)
        PROVE  Ahead(a, m, queue', job')
    <2>1. /\ \A v \in Workers : Len(queue[v]) \in Nat
          /\ Len(queue'[w]) = Len(queue[w]) + 1
          /\ \A i \in 1..Len(queue[w]) : queue'[w][i] = queue[w][i]
          /\ \A v \in Workers \ {w} : queue'[v] = queue[v]
      BY <1>0, <1>4, EntersLast
    <2>2. job' = job /\ W(m) \in Workers
      BY <1>2, <1>4 DEF Enters
    <2>. HIDE DEF W
    <2>3. CASE W(m) # w
      BY <1>4, <2>1, <2>2, <2>3
    <2>4. CASE W(m) = w
      <3>1. PICK k \in 1..Len(queue[w]) : queue[w][k] = a /\ (job[w] = m \/ \E i \in 1..(k - 1) : queue[w][i] = m)
        BY <1>4, <2>4
      <3>2. k \in 1..Len(queue'[w]) /\ queue'[w][k] = a
        BY <2>1, <3>1
      <3>3. job'[w] = m \/ \E i \in 1..(k - 1) : queue'[w][i] = m
        <4>1. ASSUME NEW i \in 1..(k - 1), queue[w][i] = m PROVE queue'[w][i] = m
          BY <2>1, <3>1, <4>1
        <4>2. QED
          BY <2>2, <3>1, <4>1
      <3>4. QED
        BY <2>4, <3>2, <3>3
    <2>5. QED
      BY <2>3, <2>4
  <1>5. CASE UNCHANGED <<queue, flush>> /\ (pc[a] = "flush" <=> pc'[a] = "flush") /\ ~\E w \in Workers : Pop(w)
    <2>1. B(a, m, flush[a], queue, job, finished) /\ m \in accepted
      BY <1>1, <1>3, <1>5
    <2>2. CASE UNCHANGED <<job, finished>>
      BY <2>1, <2>2, <1>5
    <2>3. ASSUME NEW w \in Workers, HandlerReturns(w)
          PROVE  B(a, m, flush'[a], queue', job', finished')
      <3>1. finished' = finished \cup {job[w]} /\ job' = [job EXCEPT ![w] = None] /\ job \in [Workers -> Messages \cup {None}]
        BY <1>0, <2>3 DEF HandlerReturns, Types, TypeOK
      <3>2. W(m) \in Workers
        BY <1>2, <2>1
      <3>. HIDE DEF W
      <3>3. CASE job[W(m)] = m /\ W(m) = w
        BY <3>1, <3>3
      <3>4. CASE ~(job[W(m)] = m /\ W(m) = w)
        <4>1. job[W(m)] = m => job'[W(m)] = m
          BY <3>1, <3>2, <3>4
        <4>2. QED
          BY <4>1, <3>1, <2>1, <1>5
      <3>5. QED
        BY <3>3, <3>4
    <2>4. QED
      BY <1>5, <2>2, <2>3, QueueMoves DEF Enters
  <1>6. ASSUME NEW w \in Workers, NEW e \in Messages, Enters(e, w), UNCHANGED <<flush, pc>>
        PROVE  B(a, m, flush'[a], queue', job', finished')
    <2>1. B(a, m, flush[a], queue, job, finished) /\ m \in accepted
      BY <1>1, <1>3, <1>6
    <2>2. finished' = finished
      BY <1>6 DEF Enters
    <2>3. Ahead(a, m, queue, job) => Ahead(a, m, queue', job')
      BY <1>4, <1>6, <2>1
    <2>. HIDE DEF Ahead, W
    <2>4. QED
      BY <2>1, <2>2, <2>3, <1>6
  <1>7. ASSUME NEW b \in Callers, ReadPool(b)
        PROVE  B(a, m, flush'[a], queue', job', finished')
    <2>1. /\ flush' = [flush EXCEPT ![b] = [NoFlush EXCEPT !.pool = pool, !.upTo = accepted]]
          /\ pc' = [pc EXCEPT ![b] = "flush"] /\ UNCHANGED <<queue, job, finished>>
      BY <1>7 DEF ReadPool, workers, history
    <2>2. CASE a = b
      <3>1. flush'[a].next = 1 /\ m \in accepted
        BY <1>0, <1>1, <2>1, <2>2 DEF NoFlush, Types, TypeOK
      <3>2. QED
        BY <3>1, <1>2
    <2>3. CASE a # b
      <3>1. flush'[a] = flush[a] /\ pc[a] = "flush"
        BY <1>0, <1>1, <2>1, <2>3 DEF Types, TypeOK, Actors
      <3>2. B(a, m, flush[a], queue, job, finished)
        BY <1>3, <3>1
      <3>3. QED
        BY <2>1, <3>1, <3>2
    <2>4. QED
      BY <2>2, <2>3
  <1>8. ASSUME NEW b \in Callers, FlushEnds(b)
        PROVE  B(a, m, flush'[a], queue', job', finished')
    <2>1. /\ flush' = [flush EXCEPT ![b] = NoFlush]
          /\ pc' = [pc EXCEPT ![b] = "idle"] /\ UNCHANGED <<queue, job, finished>>
      BY <1>8 DEF FlushEnds, workers, history
    <2>2. flush'[a] = flush[a] /\ pc[a] = "flush"
      BY <1>0, <1>1, <2>1 DEF Types, TypeOK, Actors
    <2>3. B(a, m, flush[a], queue, job, finished)
      BY <1>3, <2>2
    <2>4. QED
      BY <2>1, <2>2, <2>3
  <1>9. ASSUME NEW b \in Callers, PushSentinel(b)
        PROVE  B(a, m, flush'[a], queue', job', finished')
    <2>. DEFINE w == flush[b].next
    <2>1. /\ w \in Workers /\ pc' = pc /\ UNCHANGED <<job, finished, pool, accepted>>
          /\ pc[b] = "flush" /\ flush[b].pool # 0
      BY <1>9 DEF PushSentinel, router, history
    <2>2. /\ flush' = [flush EXCEPT ![b].next = w + 1,
                                    ![b].wait = IF flush[b].pool = made /\ w \notin closed THEN @ \cup {w} ELSE @]
          /\ queue' = IF flush[b].pool = made /\ w \notin closed THEN [queue EXCEPT ![w] = Append(@, b)] ELSE queue
      BY <1>9 DEF PushSentinel
    <2>3. queue' = queue \/ Enters(b, w)
      <3>1. UNCHANGED ran
        BY <1>9 DEF PushSentinel, history
      <3>2. QED
        BY <1>9, <2>1, <2>2, <3>1 DEF Enters
    <2>4. /\ flush'[a].pool = flush[a].pool /\ flush'[a].upTo = flush[a].upTo
          /\ IF a = b THEN flush'[a].next = w + 1 ELSE flush'[a] = flush[a]
      BY <1>0, <2>2 DEF Types, TypeOK
    <2>5. /\ B(a, m, flush[a], queue, job, finished) /\ m \in accepted /\ flush[a].pool = pool
      BY <1>1, <1>3, <2>1, <2>4
    <2>6. Ahead(a, m, queue, job) => Ahead(a, m, queue', job')
      <3>1. CASE queue' = queue
        BY <2>1, <3>1
      <3>2. CASE Enters(b, w)
        BY <1>4, <2>1, <2>5, <3>2
      <3>3. QED
        BY <2>3, <3>1, <3>2
    <2>7. CASE a # b
      <3>. HIDE DEF Ahead, W
      <3>1. QED
        BY <2>1, <2>4, <2>5, <2>6, <2>7
    <2>8. CASE a = b
      <3>1. w \in Nat /\ W(m) \in Nat /\ W(m) \in Workers /\ W(m) = WorkerOf(m)
        BY <1>2, <2>1, <2>5, ConstantsAre
      <3>2. CASE W(m) > w
        <4>1. flush'[a].next <= W(m)
          BY <2>4, <2>8, <3>1, <3>2
        <4>2. QED
          BY <4>1
      <3>3. CASE W(m) < w
        <4>1. ~(flush[a].next <= W(m))
          BY <2>8, <3>1, <3>3
        <4>. HIDE DEF Ahead, W
        <4>2. QED
          BY <4>1, <2>1, <2>5, <2>6
      <3>4. CASE W(m) = w /\ m \notin finished
        <4>1. flush[b].pool = made /\ w \notin closed
          BY <1>0, <1>1, <2>1, <2>5, <2>8 DEF Gate
        <4>2. Enters(b, w)
          <5>1. queue' = [queue EXCEPT ![w] = Append(@, b)]
            BY <2>2, <4>1
          <5>2. UNCHANGED ran
            BY <1>9 DEF PushSentinel, history
          <5>3. QED
            BY <1>9, <2>1, <5>1, <5>2 DEF Enters
        <4>3. /\ Len(queue[w]) \in Nat /\ Len(queue'[w]) = Len(queue[w]) + 1 /\ queue'[w][Len(queue[w]) + 1] = b
              /\ \A i \in 1..Len(queue[w]) : queue'[w][i] = queue[w][i]
          <5>1. b \in Messages \cup Callers
            OBVIOUS
          <5>2. QED
            BY <1>0, <2>1, <4>2, <5>1, EntersLast
        <4>4. job[w] = m \/ \E i \in 1..Len(queue[w]) : queue[w][i] = m
          <5>1. Waiting(m)
            BY <2>5, <3>4 DEF Accounted
          <5>2. QED
            BY <5>1, <3>1, <3>4 DEF Waiting
        <4>. DEFINE k == Len(queue[w]) + 1
        <4>5. k \in 1..Len(queue'[w]) /\ k - 1 = Len(queue[w])
          BY <4>3
        <4>6. queue'[w][k] = a /\ (job'[w] = m \/ \E i \in 1..(k - 1) : queue'[w][i] = m)
          BY <2>1, <2>8, <4>3, <4>4, <4>5
        <4>. HIDE DEF W, w, k
        <4>7. QED
          BY <3>4, <4>5, <4>6
      <3>5. QED
        BY <2>1, <3>1, <3>2, <3>3, <3>4
    <2>9. QED
      BY <2>7, <2>8
  <1>10. ASSUME NEW w \in Workers, Pop(w)
         PROVE  B(a, m, flush'[a], queue', job', finished')
    <2>. DEFINE n == Len(queue[w])
                e == queue[w][1]
    <2>1. /\ n \in Nat /\ n # 0 /\ Len(queue'[w]) = n - 1 /\ finished' = finished /\ job[w] = None
          /\ \A i \in 1..(n - 1) : queue'[w][i] = queue[w][i + 1]
          /\ \A v \in Workers \ {w} : queue'[v] = queue[v]
      BY <1>0, <1>10, Popped
    <2>2. IF e \in Callers THEN flush' = [flush EXCEPT ![e].wait = @ \ {w}] /\ UNCHANGED <<job, pc>>
          ELSE /\ flush' = flush /\ job' = [job EXCEPT ![w] = e]
               /\ \E o \in {"idle"} \cup HandlerCalls : pc' = [pc EXCEPT ![w] = o]
      BY <1>0, <1>10, Popped
    <2>3. /\ pc[a] = "flush" /\ flush'[a].pool = flush[a].pool /\ flush'[a].upTo = flush[a].upTo
          /\ flush'[a].next = flush[a].next
      <3>1. a # w /\ a \in Actors /\ pc \in [Actors -> Operations \cup {"idle", "holds", "flush"}]
            /\ DOMAIN flush = Callers
            /\ flush[a] \in [pool : Pools, next : 1..(NumWorkers + 1), wait : SUBSET Workers, upTo : SUBSET Messages]
        BY <1>0, ConstantsAre DEF Types, TypeOK, Actors
      <3>2. pc'[a] = pc[a]
        BY <2>2, <3>1
      <3>3. /\ flush'[a].pool = flush[a].pool /\ flush'[a].upTo = flush[a].upTo
            /\ flush'[a].next = flush[a].next
        <4>1. CASE flush' = flush
          BY <4>1
        <4>2. CASE flush' = [flush EXCEPT ![e].wait = @ \ {w}]
          BY <3>1, <4>2
        <4>3. QED
          BY <2>2, <4>1, <4>2
      <3>4. QED
        BY <1>1, <3>2, <3>3
    <2>4. B(a, m, flush[a], queue, job, finished) /\ m \in accepted
      BY <1>1, <1>3, <2>3
    <2>5. W(m) \in Workers /\ m # None /\ m \notin Callers
      BY <1>2, <2>4
    <2>6. /\ job \in [Workers -> Messages \cup {None}]
          /\ \A v \in Workers \ {w} : job'[v] = job[v]
      BY <1>0, <2>2 DEF Types, TypeOK
    <2>7. Ahead(a, m, queue, job) => Ahead(a, m, queue', job')
      <3>1. CASE W(m) # w
        <4>1. queue'[W(m)] = queue[W(m)] /\ job'[W(m)] = job[W(m)]
          BY <2>1, <2>5, <2>6, <3>1
        <4>. HIDE DEF W
        <4>2. QED
          BY <4>1
      <3>2. CASE W(m) = w /\ Ahead(a, m, queue, job)
        <4>1. PICK k \in 1..n : queue[w][k] = a /\ (job[w] = m \/ \E i \in 1..(k - 1) : queue[w][i] = m)
          BY <3>2
        <4>2. PICK i \in 1..(k - 1) : queue[w][i] = m
          BY <4>1, <2>1, <2>5
        <4>3. k - 1 \in 1..(n - 1) /\ queue'[w][k - 1] = a
          BY <2>1, <4>1, <4>2
        <4>4. job'[w] = m \/ \E l \in 1..((k - 1) - 1) : queue'[w][l] = m
          <5>1. CASE i = 1
            BY <2>2, <2>5, <2>6, <4>2, <5>1
          <5>2. CASE i # 1
            <6>1. i - 1 \in 1..((k - 1) - 1) /\ queue'[w][i - 1] = m
              BY <2>1, <4>1, <4>2, <5>2
            <6>2. QED
              BY <6>1
          <5>3. QED
            BY <5>1, <5>2
        <4>. HIDE DEF W
        <4>5. QED
          BY <2>1, <3>2, <4>3, <4>4
      <3>3. QED
        BY <3>1, <3>2
    <2>. HIDE DEF Ahead, W
    <2>8. QED
      BY <2>1, <2>3, <2>4, <2>7
  <1>11. QED
    BY <1>5, <1>6, <1>7, <1>8, <1>9, <1>10, FlushMoves

-----------------------------------------------------------------------------
(* The order subscriptions go out in. What follows needs a broker that grants *)
(* what Resubscribe asks and answers that arrive.                             *)

Granting == {"lostAck", "resubscribe"} \cap Refuses = {}

Width == 1 + Max({0} \cup {Len(FilterParts(f)) : f \in routes})

\* The routes that may be subscribed when f is already.
After ==
  [f \in Filters |-> {g \in Filters : SpecificityScore(FilterParts(f), Width) >= SpecificityScore(FilterParts(g), Width)}]

Walking   == phase \in {"subscribe", "sent", "granted"}
Whole     == pool # 0 /\ ~broken
Asking(g) == g \in todo \/ (phase = "sent" /\ g = at)

\* There is a width that covers every route.
Bounded == \E n \in Nat : \A f \in routes : Len(FilterParts(f)) <= n

\* Only Start and Resubscribe walk the routes, and only on one connection.
Walks ==
  /\ Walking \/ phase = "lost" => op \in {"start", "resubscribe"}
  /\ Whole => phase # "lost"

\* Between two walks the broker has all routes or none, and during one it has none that
\* is narrower than one still to come.
InOrder ==
  Whole =>
    /\ phase = "none" => subs = {} \/ subs = routes
    /\ Walking => \A g \in routes \ subs : Asking(g) /\ \A f \in subs : g \in After[f]
    /\ phase = "sent" => todo \subseteq After[at]

\* No command came in for a pool that is still to be made.
Dated == \A m \in 1..Len(log) : log[m].pool <= made

\* A command on its way has had its owner, or is still to reach it.
OwnerReached ==
  Whole /\ phase # "rollback" =>
    \A i \in 1..Len(inbound) :
      \/ log[inbound[i].msg].pool # pool \/ IsRetained(inbound[i].msg)
      \/ inbound[i].msg \in accepted \cup missed
      \/ Owner(TopicOf(inbound[i].msg)) \in inbound[i].to

Order == Bounded /\ Walks /\ InOrder /\ Dated /\ OwnerReached

LEMMA WidthCovers ==
  ASSUME Types, Bounded
  PROVE  Width \in Nat /\ \A f \in routes : Width >= Len(FilterParts(f))
  <1>. DEFINE S == {0} \cup {Len(FilterParts(f)) : f \in routes}
  <1>1. \A f \in routes : Len(FilterParts(f)) \in Nat
    BY RoutesAreClaims, ClaimFacts DEF Types, TypeOK
  <1>2. PICK n \in Nat : \A f \in routes : Len(FilterParts(f)) <= n
    BY DEF Bounded
  <1>3. S \in SUBSET Nat /\ 0 \in S /\ \A s \in S : s <= n
    BY <1>1, <1>2
  <1>4. \A f \in routes : Len(FilterParts(f)) \in S
    OBVIOUS
  <1>5. Width = 1 + Max(S)
    BY DEF Width
  <1>. HIDE DEF S
  <1>6. \E x \in S : \A s \in S : x >= s
    BY <1>2, <1>3, GreatestElement
  <1>7. Max(S) \in S /\ \A s \in S : Max(S) >= s
    BY <1>6 DEF Max
  <1>8. Max(S) \in Nat
    BY <1>3, <1>7
  <1>9. QED
    BY <1>1, <1>4, <1>5, <1>7, <1>8

\* What outranks a route goes out before it.
LEMMA NotAfterOutranked ==
  ASSUME Types, Bounded, NEW f \in routes, NEW g \in routes, Outranking[g][f]
  PROVE  g \notin After[f]
  <1>. DEFINE P(h) == FilterParts(h)
  <1>1. f \in Filters /\ g \in Filters
    BY DEF Types, TypeOK
  <1>2. P(f) \in Claim /\ P(g) \in Claim /\ Outranks(P(g), P(f))
    BY <1>1, RoutesAreClaims DEF Outranking
  <1>3. Width \in Nat /\ Width >= Len(P(g)) /\ Width >= Len(P(f))
    BY WidthCovers
  <1>4. SpecificityScore(P(g), Width) > SpecificityScore(P(f), Width)
    BY <1>2, <1>3, ScoreAgrees
  <1>5. SpecificityScore(P(g), Width) \in Nat /\ SpecificityScore(P(f), Width) \in Nat
    <2>1. \A p \in Claim : SpecificityScore(p, Width) \in Nat
      BY <1>3, ScoreUnfolds
    <2>2. QED
      BY <1>2, <2>1
  <1>6. ~(SpecificityScore(P(f), Width) >= SpecificityScore(P(g), Width))
    BY <1>4, <1>5
  <1>7. QED
    BY <1>1, <1>6 DEF After

\* What is subscribed first is narrower than none of the rest.
LEMMA FirstBefore ==
  ASSUME NEW S \in SUBSET Filters, NEW f \in MostSpecific(S)
  PROVE  f \in S /\ S \subseteq After[f]
  <1>1. f \in S /\ \A g \in S : SpecificityScore(FilterParts(f), Width) >= SpecificityScore(FilterParts(g), Width)
    BY DEF MostSpecific, Width
  <1>2. QED
    BY <1>1 DEF After

LEMMA AfterStays ==
  ASSUME routes' = routes
  PROVE  After' = After
  BY DEF After, Width

\* Where the walks go, and what they leave alone.
walk == <<routes, pool, broken, phase, op, subs, todo, at>>

LEMMA WalkMoves ==
  ASSUME [Next]_vars
  PROVE  \/ UNCHANGED walk
         \/ \E f \in Filters : Handle(f)
         \/ \E a \in Actors : StartGate(a) \/ ResubscribeGate(a) \/ StopGate(a)
         \/ HolderStep
         \/ Grant \/ Reconnect
  <1>. USE DEF walk, router, workers, broker, history, holder
  <1>1. ASSUME NEW a \in Callers, NEW o \in Operations, Call(a, o) PROVE UNCHANGED walk
    BY <1>1 DEF Call
  <1>2. ASSUME NEW a \in Actors, Refused(a) PROVE UNCHANGED walk
    BY <1>2 DEF Refused
  <1>3. ASSUME NEW a \in Callers, ReadPool(a) \/ PushSentinel(a) \/ FlushEnds(a) PROVE UNCHANGED walk
    BY <1>3 DEF ReadPool, PushSentinel, FlushEnds
  <1>4. ASSUME NEW f \in Filters, Deliver(f) PROVE UNCHANGED walk
    BY <1>4 DEF Deliver
  <1>5. ASSUME NEW w \in Workers, Pop(w) \/ HandlerReturns(w) \/ Exit(w) PROVE UNCHANGED walk
    BY <1>5 DEF Pop, HandlerReturns, Exit
  <1>6. ASSUME NEW t \in Topics, Publish(t) PROVE UNCHANGED walk
    BY <1>6 DEF Publish
  <1>7. ASSUME UNCHANGED vars PROVE UNCHANGED walk
    BY <1>7 DEF vars
  <1>. HIDE DEF walk, router, workers, broker, history, holder
  <1>8. QED
    BY <1>1, <1>2, <1>3, <1>4, <1>5, <1>6, <1>7 DEF Next, Acquire

LEMMA OrderInit == Init => Order
  <1>1. SUFFICES ASSUME Init PROVE Order
    OBVIOUS
  <1>2. Bounded
    BY <1>1 DEF Init, Bounded
  <1>3. Dated /\ OwnerReached
    BY <1>1, EmptySeq DEF Init, Dated, OwnerReached, Whole
  <1>4. Walks /\ InOrder
    BY <1>1 DEF Init, Walks, InOrder, Walking, Whole
  <1>5. QED
    BY <1>2, <1>3, <1>4 DEF Order

LEMMA BoundedNext ==
  ASSUME Types, Bounded, [Next]_vars
  PROVE  Bounded'
  <1>1. PICK n \in Nat : \A f \in routes : Len(FilterParts(f)) <= n
    BY DEF Bounded
  <1>2. CASE routes' = routes
    BY <1>1, <1>2 DEF Bounded
  <1>3. ASSUME NEW f \in Filters, Handle(f) PROVE Bounded'
    <2>1. Len(FilterParts(f)) \in Nat /\ \A g \in routes : Len(FilterParts(g)) \in Nat
      BY RoutesAreClaims, ClaimFacts DEF Types, TypeOK
    <2>2. PICK k \in Nat : k >= n /\ k >= Len(FilterParts(f))
      BY <2>1
    <2>3. \A g \in routes' : Len(FilterParts(g)) <= k
      BY <1>1, <1>3, <2>1, <2>2 DEF Handle
    <2>4. QED
      BY <2>3 DEF Bounded
  <1>4. (\E f \in Filters : Handle(f)) \/ routes' = routes
    BY Moves DEF commands, Deliver, StartGate, PushSentinel, Pop, HandlerReturns, Publish, Grant, Reconnect, router
  <1>5. QED
    BY <1>2, <1>3, <1>4

LEMMA WalksNext ==
  ASSUME Types, Gate, Walks, [Next]_vars
  PROVE  Walks'
  <1>. USE DEF Walks, Walking, Whole
  <1>1. CASE UNCHANGED walk
    BY <1>1 DEF walk
  <1>2. ASSUME NEW f \in Filters, Handle(f) PROVE Walks'
    BY <1>2 DEF Handle, holder, broker
  <1>3. ASSUME NEW a \in Actors, StartGate(a) \/ ResubscribeGate(a) \/ StopGate(a) PROVE Walks'
    BY <1>3 DEF StartGate, ResubscribeGate, StopGate, Hold
  <1>4. ASSUME NEW f \in Filters, SubscribeSent(f) \/ RollbackStep(f) \/ UnsubscribeStep(f) PROVE Walks'
    BY <1>4 DEF SubscribeSent, RollbackStep, UnsubscribeStep, router, broker
  <1>5. ASSUME SubscribeAnswered \/ SubscribeFails \/ RollbackEnds PROVE Walks'
    BY <1>5 DEF SubscribeAnswered, SubscribeFails, RollbackEnds, router, broker
  <1>6. ASSUME SubscribeEnds \/ Drained PROVE Walks'
    BY <1>6 DEF SubscribeEnds, Drained, Return
  <1>7. ASSUME NEW w \in Workers, CloseQueue(w) PROVE Walks'
    BY <1>7 DEF CloseQueue, router, holder, broker
  <1>8. CASE Grant
    BY <1>8 DEF Grant, router
  <1>9. CASE Reconnect
    <2>1. /\ broken' <=> phase \in {"subscribe", "sent", "granted", "lost"}
          /\ phase' = IF phase \in {"sent", "granted"} THEN "lost" ELSE phase
          /\ op' = op
      BY <1>9 DEF Reconnect
    <2>2. QED
      BY <2>1
  <1>. HIDE DEF Walks, Walking, Whole
  <1>10. QED
    BY <1>1, <1>2, <1>3, <1>4, <1>5, <1>6, <1>7, <1>8, <1>9, WalkMoves DEF HolderStep

\* Without one of them, a walk leaves what it was.
LEMMA InOrderNext ==
  ASSUME Granting, Types, Gate, Asked, Known, Walks, InOrder, [Next]_vars
  PROVE  InOrder'
  <1>0. /\ routes \subseteq Filters /\ todo \subseteq routes /\ subs \subseteq routes
        /\ "lostAck" \notin Refuses /\ "resubscribe" \notin Refuses
    BY DEF Types, TypeOK, Asked, Granting
  <1>1. /\ life = None => phase = "none"
        /\ pool # 0 <=> started /\ ~stopped
        /\ phase \in {"unsubscribe", "close"} => pool = 0
    BY DEF Gate
  <1>2. CASE UNCHANGED walk
    BY <1>2, AfterStays DEF walk, InOrder, Whole, Walking, Asking
  <1>3. ASSUME NEW f \in Filters, Handle(f) PROVE InOrder'
    BY <1>1, <1>3 DEF Handle, InOrder, Whole
  <1>4. ASSUME NEW a \in Actors, StartGate(a) PROVE InOrder'
    <2>1. subs = {} /\ subs' = subs /\ phase' = "subscribe" /\ todo' = routes /\ routes' = routes
      BY <1>0, <1>1, <1>4 DEF StartGate, Hold, Known, broker
    <2>2. QED
      BY <2>1 DEF InOrder, Walking, Asking
  <1>5. ASSUME NEW a \in Actors, ResubscribeGate(a) PROVE InOrder'
    <2>1. /\ phase = "none" /\ phase' = "subscribe" /\ todo' = routes /\ routes' = routes /\ subs' = subs
          /\ Whole' => Whole
      BY <1>1, <1>5 DEF ResubscribeGate, Hold, router, broker, Whole
    <2>2. QED
      BY <2>1 DEF InOrder, Walking, Asking
  <1>6. ASSUME NEW a \in Actors, StopGate(a) PROVE InOrder'
    BY <1>6 DEF StopGate, InOrder, Whole
  <1>7. ASSUME NEW f \in Filters, SubscribeSent(f) PROVE InOrder'
    <2>1. todo \subseteq After[f] /\ f \in todo
      BY <1>0, <1>7, FirstBefore DEF SubscribeSent
    <2>2. /\ phase = "subscribe" /\ phase' = "sent" /\ at' = f /\ todo' = todo \ {f} /\ subs' = subs
          /\ routes' = routes /\ After' = After /\ (Whole' => Whole)
      BY <1>7, AfterStays DEF SubscribeSent, router, broker, Whole
    <2>3. QED
      BY <2>1, <2>2 DEF InOrder, Walking, Asking
  <1>8. CASE SubscribeAnswered
    <2>1. /\ phase = "granted" /\ phase' = "subscribe" /\ todo' = todo /\ subs' = subs
          /\ routes' = routes /\ After' = After /\ (Whole' => Whole)
      BY <1>8, AfterStays DEF SubscribeAnswered, router, broker, Whole
    <2>2. QED
      BY <2>1 DEF InOrder, Walking, Asking
  <1>9. CASE SubscribeFails
    <2>1. Whole' => Whole
      BY <1>9 DEF SubscribeFails, router, broker, Whole
    <2>2. Whole => phase' = "rollback"
      BY <1>0, <1>9 DEF SubscribeFails, Walks, Walking
    <2>3. QED
      BY <2>1, <2>2 DEF InOrder, Walking
  <1>10. CASE SubscribeEnds
    <2>1. /\ phase = "subscribe" /\ phase' = "none" /\ todo = {} /\ subs' = subs
          /\ routes' = routes /\ (Whole' => Whole)
      BY <1>10 DEF SubscribeEnds, Return, router, broker, Whole
    <2>2. QED
      BY <1>0, <2>1 DEF InOrder, Walking, Asking
  <1>11. ASSUME NEW f \in Filters, RollbackStep(f) PROVE InOrder'
    BY <1>11 DEF RollbackStep, InOrder, Walking
  <1>12. ASSUME NEW f \in Filters, UnsubscribeStep(f) PROVE InOrder'
    BY <1>1, <1>12 DEF UnsubscribeStep, router, InOrder, Whole
  <1>13. CASE RollbackEnds
    BY <1>13 DEF RollbackEnds, InOrder, Whole
  <1>14. ASSUME NEW w \in Workers, CloseQueue(w) PROVE InOrder'
    BY <1>1, <1>14 DEF CloseQueue, router, InOrder, Whole
  <1>15. CASE Drained
    BY <1>1, <1>15 DEF Drained, router, InOrder, Whole
  <1>16. CASE Grant
    <2>1. /\ phase = "sent" /\ phase' = "granted" /\ todo' = todo /\ subs' = subs \cup {at}
          /\ routes' = routes /\ After' = After /\ (Whole' => Whole)
      BY <1>16, AfterStays DEF Grant, router, Whole
    <2>2. QED
      BY <2>1 DEF InOrder, Walking, Asking
  <1>17. CASE Reconnect
    <2>1. /\ broken' <=> phase \in {"subscribe", "sent", "granted", "lost"}
          /\ phase' = IF phase \in {"sent", "granted"} THEN "lost" ELSE phase
          /\ subs' = {}
      BY <1>17 DEF Reconnect
    <2>2. QED
      BY <2>1 DEF InOrder, Whole, Walking
  <1>18. QED
    BY <1>2, <1>3, <1>4, <1>5, <1>6, <1>7, <1>8, <1>9, <1>10, <1>11, <1>12, <1>13, <1>14, <1>15, <1>16,
       <1>17, WalkMoves DEF HolderStep

LEMMA PoolForwarded ==
  ASSUME Types, NEW t \in Topics, NEW r \in BOOLEAN, NEW to \in SUBSET Filters, Forward(t, r, to)
  PROVE  log'[Len(log) + 1] = [topic |-> t, retained |-> r, pool |-> pool]
  <1>1. log \in Seq([topic : Topics, retained : BOOLEAN, pool : Pools]) /\ pool \in Pools
    BY DEF Types, TypeOK
  <1>2. PICK e \in [topic : Topics, retained : BOOLEAN, pool : Pools] : e = [topic |-> t, retained |-> r, pool |-> pool]
    BY <1>1
  <1>3. log' = Append(log, e)
    BY <1>2 DEF Forward
  <1>4. log'[Len(log) + 1] = e
    BY <1>1, <1>3
  <1>5. QED
    BY <1>2, <1>4

LEMMA DatedNext ==
  ASSUME Types, Gate, Asked, Dated, [Next]_vars
  PROVE  Dated'
  <1>1. made \in Nat /\ made' \in Nat /\ made <= made' /\ pool <= made
    <2>1. made' = made \/ (made' = made + 1 /\ made \in Nat)
      <3>1. made \in Nat
        BY ConstantsAre DEF Types, TypeOK, Pools
      <3>2. made' = made \/ \E a \in Actors : StartGate(a)
        BY GateMoves DEF gate, ResubscribeGate, StopGate, HolderStep, SubscribeSent, RollbackStep, UnsubscribeStep,
           SubscribeAnswered, SubscribeFails, SubscribeEnds, RollbackEnds, CloseQueue, Drained, Exit, Grant, Reconnect, router
      <3>3. QED
        BY <3>1, <3>2 DEF StartGate
    <2>2. made \in Nat /\ (pool = 0 \/ pool = made)
      BY ConstantsAre DEF Types, TypeOK, Pools, Gate
    <2>3. QED
      BY <2>1, <2>2
  <1>2. \A m \in 1..Len(log) : log'[m] = log[m] /\ log[m].pool \in Nat /\ log[m].pool <= made
    <2>1. \A m \in 1..Len(log) : log[m] \in [topic : Topics, retained : BOOLEAN, pool : Pools]
      BY ElementOfSeq DEF Types, TypeOK
    <2>2. QED
      BY <2>1, LogGrows, ConstantsAre DEF Dated, Pools
  <1>3. CASE Len(log') = Len(log)
    BY <1>1, <1>2, <1>3 DEF Dated
  <1>4. CASE Len(log') # Len(log)
    <2>1. (\E t \in Topics : Publish(t)) \/ Grant
      BY <1>4, Moves DEF commands, Handle, Deliver, StartGate, PushSentinel, Pop, HandlerReturns, Reconnect, broker
    <2>2. PICK t \in Topics, r \in BOOLEAN : \E to \in SUBSET Matching(t) : to \subseteq Filters /\ Forward(t, r, to)
      BY <1>4, <2>1, Forwarded
    <2>3. log'[Len(log) + 1].pool = pool /\ Len(log) \in Nat /\ Len(log') = Len(log) + 1
      <3>1. PICK to \in SUBSET Filters : Forward(t, r, to)
        BY <2>2
      <3>2. Len(log) \in Nat /\ Len(log') = Len(log) + 1
        BY <3>1, ForwardAdds
      <3>3. log'[Len(log) + 1] = [topic |-> t, retained |-> r, pool |-> pool]
        BY <3>1, PoolForwarded
      <3>4. QED
        BY <3>2, <3>3
    <2>4. \A m \in 1..Len(log') : m \in 1..Len(log) \/ m = Len(log) + 1
      BY <2>3
    <2>5. pool \in Nat
      BY ConstantsAre DEF Types, TypeOK, Pools
    <2>6. QED
      BY <1>1, <1>2, <2>3, <2>4, <2>5 DEF Dated
  <1>5. QED
    BY <1>3, <1>4

\* A copy that reaches the owner is accepted, or met the gate.
LEMMA DeliverServes ==
  ASSUME Types, Gate, NEW f \in Filters, Deliver(f), Owner(TopicOf(inbound[1].msg)) = f
  PROVE  inbound[1].msg \in accepted' \cup missed'
  <1>1. Head(inbound) = inbound[1]
    BY DEF Deliver, Types, TypeOK
  <1>2. ~Superseded(f, TopicOf(inbound[1].msg))
    BY DEF Superseded
  <1>3. pool # 0 => closed = {}
    BY DEF Gate
  <1>4. QED
    BY <1>1, <1>2, <1>3 DEF Deliver

\* A command that is published while the broker's subscriptions are in order reaches
\* its owner.
LEMMA PublishReachesOwner ==
  ASSUME Types, Gate, Owners, Asked, Bounded, Walks, InOrder, Whole, phase # "rollback",
         NEW t \in Topics, NEW f \in subs, t \in Claims[f]
  PROVE  Owner(t) \in subs /\ t \in Claims[Owner(t)]
  <1>1. f \in routes /\ f \in Matching(t)
    BY DEF Asked, Matching
  <1>2. /\ Owner(t) \in routes /\ t \in Claims[Owner(t)]
        /\ f # Owner(t) => Outranking[Owner(t)][f]
    BY <1>1, OwnerIs DEF Matching
  <1>3. phase = "none" \/ Walking
    BY DEF Walks, Walking, Whole, Gate, Types, TypeOK
  <1>4. SUFFICES ASSUME Owner(t) \notin subs PROVE FALSE
    BY <1>2
  <1>5. Outranking[Owner(t)][f]
    BY <1>2, <1>4
  <1>6. Owner(t) \notin After[f]
    BY <1>1, <1>2, <1>5, NotAfterOutranked
  <1>7. QED
    BY <1>2, <1>3, <1>4, <1>6 DEF InOrder

\* A pool that goes on is one that was there, on the same routes and connection.
LEMMA PoolGoesOn ==
  ASSUME Types, Gate, [Next]_vars, Whole', phase' # "rollback"
  PROVE  \/ Whole /\ phase # "rollback" /\ routes' = routes /\ pool' = pool
         \/ inbound' = <<>>
         \/ inbound' = inbound /\ log' = log /\ pool' = made + 1
  <1>1. /\ pool # 0 <=> started /\ ~stopped
        /\ phase \in {"unsubscribe", "close"} => pool = 0
        /\ life = None => phase = "none"
    BY DEF Gate
  <1>2. CASE UNCHANGED walk
    BY <1>2 DEF walk, Whole
  <1>3. ASSUME NEW f \in Filters, Handle(f) PROVE FALSE
    BY <1>1, <1>3 DEF Handle, Whole
  <1>4. ASSUME NEW a \in Actors, StartGate(a)
        PROVE  inbound' = inbound /\ log' = log /\ pool' = made + 1
    BY <1>4 DEF StartGate, broker
  <1>5. ASSUME NEW a \in Actors, ResubscribeGate(a)
        PROVE  Whole /\ phase # "rollback" /\ routes' = routes /\ pool' = pool
    BY <1>1, <1>5 DEF ResubscribeGate, Hold, router, broker, Whole
  <1>6. ASSUME NEW a \in Actors, StopGate(a) PROVE FALSE
    BY <1>6 DEF StopGate, Whole
  <1>7. ASSUME HolderStep
        PROVE  Whole /\ phase # "rollback" /\ routes' = routes /\ pool' = pool
    <2>1. ASSUME NEW f \in Filters, SubscribeSent(f) \/ RollbackStep(f) \/ UnsubscribeStep(f)
          PROVE  Whole /\ phase # "rollback" /\ routes' = routes /\ pool' = pool
      BY <2>1 DEF SubscribeSent, RollbackStep, UnsubscribeStep, router, broker, Whole
    <2>2. ASSUME SubscribeAnswered \/ SubscribeFails \/ SubscribeEnds
          PROVE  Whole /\ phase # "rollback" /\ routes' = routes /\ pool' = pool
      BY <2>2 DEF SubscribeAnswered, SubscribeFails, SubscribeEnds, router, broker, Whole
    <2>3. ASSUME RollbackEnds PROVE FALSE
      BY <2>3 DEF RollbackEnds, Whole
    <2>4. ASSUME NEW w \in Workers, CloseQueue(w)
          PROVE  FALSE
      BY <1>1, <2>4 DEF CloseQueue, router, Whole
    <2>5. ASSUME Drained PROVE FALSE
      BY <1>1, <2>5 DEF Drained, router, Whole
    <2>6. QED
      BY <1>7, <2>1, <2>2, <2>3, <2>4, <2>5 DEF HolderStep
  <1>8. CASE Grant
    BY <1>8 DEF Grant, router, Whole
  <1>9. CASE Reconnect
    BY <1>9 DEF Reconnect
  <1>10. QED
    BY <1>2, <1>3, <1>4, <1>5, <1>6, <1>7, <1>8, <1>9, WalkMoves

LEMMA HistoryGrows ==
  ASSUME [Next]_vars
  PROVE  accepted \subseteq accepted' /\ missed \subseteq missed'
  BY DEF Next, Acquire, HolderStep, Handle, Deliver, Call, Refused, StartGate, ResubscribeGate, StopGate,
     ReadPool, PushSentinel, FlushEnds, SubscribeSent, RollbackStep, UnsubscribeStep, SubscribeAnswered,
     SubscribeFails, SubscribeEnds, RollbackEnds, CloseQueue, Drained, Pop, HandlerReturns, Exit, Publish,
     Grant, Reconnect, vars, history

\* The owner of t among the routes R.
OwnerAmong(R, t) ==
  LET matching == {f \in R : t \in Claims[f]}
  IN  CHOOSE f \in matching : \A g \in matching \ {f} : Outranking[f][g]

\* Only a copy that came for a route that does not own its topic is outranked.
LEMMA OutrankedGrows ==
  ASSUME Types, [Next]_vars, NEW m \in outranked' \ outranked
  PROVE  /\ \E f \in Filters : Deliver(f) /\ Owner(TopicOf(m)) # f
         /\ m = inbound[1].msg /\ pool # 0
  <1>1. \E f \in Filters : Deliver(f)
    <2>1. outranked' = outranked \/ \E f \in Filters : Deliver(f)
      BY DEF Next, Acquire, HolderStep, Handle, Call, Refused, StartGate, ResubscribeGate, StopGate,
         ReadPool, PushSentinel, FlushEnds, SubscribeSent, RollbackStep, UnsubscribeStep, SubscribeAnswered,
         SubscribeFails, SubscribeEnds, RollbackEnds, CloseQueue, Drained, Pop, HandlerReturns, Exit, Publish,
         Grant, Reconnect, vars, history
    <2>2. QED
      BY <2>1
  <1>2. PICK f \in Filters : Deliver(f)
    BY <1>1
  <1>3. Head(inbound) = inbound[1]
    BY <1>2 DEF Deliver, Types, TypeOK
  <1>4. m = inbound[1].msg /\ pool # 0 /\ Superseded(f, TopicOf(inbound[1].msg))
    BY <1>2, <1>3 DEF Deliver
  <1>5. QED
    BY <1>2, <1>4 DEF Superseded

LEMMA OwnerReachedNext ==
  ASSUME Types, Gate, Owners, Asked, Copies, Bounded, Walks, InOrder, Dated, OwnerReached, [Next]_vars
  PROVE  OwnerReached'
  <1>. DEFINE Served(m, to) == \/ log'[m].pool # pool' \/ log'[m].retained
                               \/ m \in accepted' \cup missed'
                               \/ OwnerAmong(routes', log'[m].topic) \in to
  <1>1. SUFFICES ASSUME Whole', phase' # "rollback", NEW i \in 1..Len(inbound')
        PROVE  Served(inbound'[i].msg, inbound'[i].to)
    BY DEF OwnerReached, IsRetained, TopicOf, Owner, Matching, OwnerAmong
  <1>2. \A k \in 1..Len(inbound) : inbound[k].msg \in 1..Len(log) /\ log'[inbound[k].msg] = log[inbound[k].msg]
    BY LogGrows DEF Copies
  <1>3. CASE inbound' = <<>>
    BY <1>1, <1>3, EmptySeq
  <1>4. CASE inbound' = inbound /\ log' = log /\ pool' = made + 1
    <2>1. log[inbound[i].msg].pool <= made /\ i \in 1..Len(inbound)
      BY <1>1, <1>2, <1>4 DEF Dated
    <2>2. made \in Nat /\ log[inbound[i].msg].pool \in Nat
      <3>1. log[inbound[i].msg] \in [topic : Topics, retained : BOOLEAN, pool : Pools]
        BY <1>2, <2>1, ElementOfSeq DEF Types, TypeOK
      <3>2. QED
        BY <3>1, ConstantsAre DEF Types, TypeOK, Pools
    <2>3. log[inbound[i].msg].pool # made + 1
      BY <2>1, <2>2
    <2>4. QED
      BY <1>4, <2>3
  <1>5. CASE Whole /\ phase # "rollback" /\ routes' = routes /\ pool' = pool
    <2>1. \A t : OwnerAmong(routes', t) = Owner(t)
      BY <1>5 DEF Owner, Matching, OwnerAmong
    <2>2. ASSUME NEW k \in 1..Len(inbound), NEW to,
                 Owner(log[inbound[k].msg].topic) \in inbound[k].to =>
                   inbound[k].msg \in accepted' \cup missed' \/ Owner(log[inbound[k].msg].topic) \in to
          PROVE  Served(inbound[k].msg, to)
      <3>1. \/ log[inbound[k].msg].pool # pool \/ log[inbound[k].msg].retained
            \/ inbound[k].msg \in accepted \cup missed
            \/ Owner(log[inbound[k].msg].topic) \in inbound[k].to
        BY <1>5, <2>2 DEF OwnerReached, IsRetained, TopicOf
      <3>2. QED
        BY <1>2, <1>5, <2>1, <2>2, <3>1, HistoryGrows
    <2>3. CASE inbound' = inbound
      BY <1>1, <2>2, <2>3
    <2>4. ASSUME NEW f \in Filters, Deliver(f)
          PROVE  Served(inbound'[i].msg, inbound'[i].to)
      <3>1. Len(inbound) \in Nat \ {0}
        BY <2>4, DeliverTakes
      <3>2. Served(inbound[1].msg, inbound[1].to \ {f})
        <4>1. Owner(log[inbound[1].msg].topic) = f => inbound[1].msg \in accepted' \cup missed'
          BY <2>4, DeliverServes DEF TopicOf
        <4>2. 1 \in 1..Len(inbound)
          BY <3>1
        <4>3. QED
          BY <2>2, <4>1, <4>2
      <3>3. ASSUME NEW k \in 1..Len(inbound) PROVE Served(inbound[k].msg, inbound[k].to)
        BY <2>2
      <3>4. CASE Len(inbound') = Len(inbound) - 1 /\ \A k \in 1..Len(inbound') : inbound'[k] = inbound[k + 1]
        <4>1. i + 1 \in 1..Len(inbound) /\ inbound'[i] = inbound[i + 1]
          BY <1>1, <3>1, <3>4
        <4>2. Served(inbound[i + 1].msg, inbound[i + 1].to)
          BY <4>1, <3>3
        <4>3. QED
          BY <4>1, <4>2
      <3>5. CASE /\ Len(inbound') = Len(inbound)
                 /\ inbound'[1] = [msg |-> inbound[1].msg, to |-> inbound[1].to \ {f}]
                 /\ \A k \in 2..Len(inbound) : inbound'[k] = inbound[k]
        <4>1. CASE i = 1
          <5>1. inbound'[i].msg = inbound[1].msg /\ inbound'[i].to = inbound[1].to \ {f}
            BY <3>5, <4>1
          <5>2. QED
            BY <3>2, <5>1
        <4>2. CASE i # 1
          <5>1. i \in 2..Len(inbound)
            BY <1>1, <3>1, <3>5, <4>2
          <5>2. inbound'[i] = inbound[i] /\ i \in 1..Len(inbound)
            BY <3>5, <5>1, <3>1
          <5>3. QED
            BY <3>3, <5>2
        <4>3. QED
          BY <4>1, <4>2
      <3>6. QED
        BY <2>4, <3>4, <3>5, DeliverTakes
    <2>5. ASSUME NEW t \in Topics, Publish(t)
          PROVE  Served(inbound'[i].msg, inbound'[i].to)
      <3>. DEFINE to == {f \in subs : t \in Claims[f]}
      <3>1. to \subseteq Filters /\ to # {} /\ Forward(t, FALSE, to)
        BY <2>5 DEF Publish, Types, TypeOK
      <3>2. Owner(t) \in to
        <4>1. PICK f \in to : TRUE
          BY <3>1
        <4>2. QED
          BY <1>5, <4>1, PublishReachesOwner
      <3>. HIDE DEF to
      <3>3. /\ Len(inbound) \in Nat /\ Len(inbound') = Len(inbound) + 1
            /\ \A k \in 1..Len(inbound) : inbound'[k] = inbound[k]
            /\ inbound'[Len(inbound) + 1] = [msg |-> Len(log) + 1, to |-> to]
            /\ log'[Len(log) + 1].topic = t
        BY <3>1, ForwardAdds
      <3>4. CASE i \in 1..Len(inbound)
        <4>1. Served(inbound[i].msg, inbound[i].to)
          BY <2>2, <3>4
        <4>2. QED
          BY <3>3, <3>4, <4>1
      <3>5. CASE i = Len(inbound) + 1
        <4>1. inbound'[i].msg = Len(log) + 1 /\ inbound'[i].to = to
          BY <3>3, <3>5
        <4>2. OwnerAmong(routes', log'[Len(log) + 1].topic) = Owner(t)
          BY <2>1, <3>3
        <4>3. QED
          BY <3>2, <4>1, <4>2
      <3>6. QED
        BY <1>1, <3>3, <3>4, <3>5
    <2>6. CASE Grant
      <3>1. CASE inbound' = inbound
        BY <2>3, <3>1
      <3>2. CASE inbound' # inbound
        <4>1. Retained \in Claims[at] /\ Forward(Retained, TRUE, {at}) /\ at \in Filters
          BY <2>6, <3>2 DEF Grant, Types, AtIsAsked
        <4>2. Retained \in Topics /\ {at} \in SUBSET Filters
          BY <4>1 DEF Claims
        <4>. DEFINE to == {at}
        <4>. HIDE DEF to
        <4>3. to \in SUBSET Filters /\ Forward(Retained, TRUE, to)
          BY <4>1, <4>2 DEF to
        <4>4. PICK r \in BOOLEAN : r /\ Forward(Retained, r, to)
          BY <4>3, Zenon
        <4>5. /\ Len(inbound) \in Nat /\ Len(inbound') = Len(inbound) + 1
              /\ \A k \in 1..Len(inbound) : inbound'[k] = inbound[k]
              /\ inbound'[Len(inbound) + 1].msg = Len(log) + 1
          <5>1. r \in BOOLEAN /\ Forward(Retained, r, to)
            BY <4>4
          <5>2. inbound'[Len(inbound) + 1] = [msg |-> Len(log) + 1, to |-> to]
            BY <4>2, <4>3, <5>1, ForwardAdds
          <5>3. /\ Len(inbound) \in Nat /\ Len(inbound') = Len(inbound) + 1
                /\ \A k \in 1..Len(inbound) : inbound'[k] = inbound[k]
            BY <4>2, <4>3, <5>1, ForwardAdds
          <5>4. QED
            BY <5>2, <5>3
        <4>6. log'[Len(log) + 1].retained
          <5>1. log'[Len(log) + 1] = [topic |-> Retained, retained |-> r, pool |-> pool]
            BY <4>2, <4>3, <4>4, PoolForwarded
          <5>2. QED
            BY <4>4, <5>1
        <4>7. CASE i \in 1..Len(inbound)
          <5>1. Served(inbound[i].msg, inbound[i].to)
            BY <2>2, <4>7
          <5>2. QED
            BY <4>5, <4>7, <5>1
        <4>8. CASE i = Len(inbound) + 1
          BY <4>5, <4>6, <4>8
        <4>9. QED
          BY <1>1, <4>5, <4>7, <4>8
      <3>3. QED
        BY <3>1, <3>2
    <2>. HIDE DEF Served
    <2>7. QED
      BY <1>3, <2>3, <2>4, <2>5, <2>6, CopiesMove
  <1>. HIDE DEF Served
  <1>6. QED
    BY <1>1, <1>3, <1>4, <1>5, PoolGoesOn

-----------------------------------------------------------------------------
(* What the invariant says.                                                *)

IInv ==
  /\ Types /\ Gate /\ Holding /\ Emptied /\ Owners /\ Asked /\ Copies /\ Once
  /\ Queued /\ Accounted /\ Ran /\ Known /\ Sentinels /\ Behind

LEMMA IInvInit == Init => IInv
  BY TypesInit, GateInit, HoldingInit, EmptiedInit, OwnersInit, AskedInit, CopiesInit, OnceInit,
     QueuedInit, AccountedInit, RanInit, KnownInit, SentinelsInit, BehindInit DEF IInv

LEMMA IInvNext ==
  ASSUME IInv, [Next]_vars
  PROVE  IInv'
  <1>1. Before
    BY DEF IInv, Before
  <1>2. Types' /\ Gate' /\ Holding' /\ Emptied' /\ Owners' /\ Asked' /\ Copies' /\ Once'
    BY TypesNext, GateNext, HoldingNext, EmptiedNext, OwnersNext, AskedNext, CopiesNext, OnceNext DEF IInv
  <1>3. Queued' /\ Accounted' /\ Ran' /\ Known' /\ Sentinels' /\ Behind'
    BY <1>1, QueuedNext, AccountedNext, RanNext, KnownNext, SentinelsNext, BehindNext DEF IInv
  <1>4. QED
    BY <1>2, <1>3 DEF IInv

LEMMA Invariance == Spec => []IInv
  <1>1. IInv /\ [Next]_vars => IInv'
    BY IInvNext
  <1>2. QED
    BY <1>1, IInvInit, PTL DEF Spec

\* However the routes were registered, the ones that match a topic have one that
\* outranks all the others, and a router that does not attribute has one route at most
\* for any topic (handle and resolveLocked, command.go:664 and 1203).
THEOREM OneOwnerOfEveryTopic == Spec => []OneOwner
  <1>1. IInv => OneOwner
    BY OneOwnerFollows DEF IInv
  <1>2. QED
    BY <1>1, Invariance, PTL

\* No command runs twice, whatever it matched, and none starts before every earlier one
\* of its topic has finished (deliver, command.go:1126, and commandPool.run,
\* command_pool.go:128).
THEOREM CommandsRunInOrder == Spec => []CommandsInOrder
  <1>1. ASSUME IInv
        PROVE  CommandsInOrder
    <2>1. ran \in Seq(Messages) /\ Len(ran) \in Nat /\ DOMAIN ran = 1..Len(ran)
      BY <1>1, LenProperties DEF IInv, Types, TypeOK
    <2>2. ASSUME NEW i \in DOMAIN ran, NEW j \in DOMAIN ran, i < j, TopicOf(ran[i]) = TopicOf(ran[j])
          PROVE  ran[i] < ran[j] /\ ran[i] \in finished
      <3>1. WorkerOf(ran[j]) = WorkerOf(ran[i]) /\ i \in 1..Len(ran) /\ j \in 1..Len(ran)
        BY <2>1, <2>2 DEF WorkerOf
      <3>2. QED
        BY <1>1, <2>2, <3>1 DEF IInv, Ran
    <2>3. QED
      BY <2>2 DEF CommandsInOrder
  <1>2. QED
    BY <1>1, Invariance, PTL

\* Once Stop, or a Start that failed, has returned, every command the router accepted
\* has run and no worker is left, and none that passed the gate was turned away by a
\* closed queue (command.go:905-923, 820-834).
THEOREM StopDrainsThePool == Spec => []StopDrains
  <1>1. ASSUME IInv
        PROVE  StopDrains
    <2>1. ASSUME life = None, pool = 0
          PROVE  accepted \subseteq finished /\ working = {}
      <3>1. working = {}
        BY <1>1, <2>1 DEF IInv, Gate
      <3>2. ASSUME NEW m \in accepted PROVE m \in finished
        <4>1. m \in Messages /\ m # None /\ WorkerOf(m) \in Workers
          <5>1. m \in 1..Len(log) /\ m \in Messages /\ m # None
            BY <1>1, ConstantsAre DEF IInv, Once, Types, TypeOK, Messages
          <5>2. log[m] \in [topic : Topics, retained : BOOLEAN, pool : Pools]
            BY <1>1, <5>1, ElementOfSeq DEF IInv, Types, TypeOK
          <5>3. QED
            BY <5>1, <5>2, ConstantsAre DEF WorkerOf, TopicOf
        <4>2. job[WorkerOf(m)] = None /\ Len(queue[WorkerOf(m)]) = 0
          BY <1>1, <3>1, <4>1, EmptySeq DEF IInv, Emptied
        <4>3. QED
          BY <1>1, <4>1, <4>2 DEF IInv, Accounted, Waiting
      <3>3. QED
        BY <3>1, <3>2
    <2>2. QED
      BY <1>1, <2>1 DEF StopDrains, IInv, Emptied
  <1>2. QED
    BY <1>1, Invariance, PTL

\* As long as no answer to a SUBSCRIBE is lost, no router that may yet be started, or
\* that never was, has a subscription on the broker (rollback, command.go:763-786).
THEOREM NoRouteOutlivesAFailedStart ==
  ASSUME "lostAck" \notin Refuses
  PROVE  Spec => []NoLiveRouteUnlessClosed
  <1>1. IInv => NoLiveRouteUnlessClosed
    <2>. USE "lostAck" \notin Refuses
    <2>. QED
      BY DEF IInv, Known, NoLiveRouteUnlessClosed
  <1>2. QED
    BY <1>1, Invariance, PTL

\* WaitIdle on a pool that is still the router's returns after every command accepted
\* before it, and however many come in meanwhile (command.go:957-972, flush in
\* command_pool.go:153).
THEOREM WaitIdleWaits == Spec => WaitIdleIsABarrier
  <1>1. ASSUME IInv, IInv', [Next]_vars, NEW a \in Callers,
               pc[a] = "flush", pc'[a] = "idle", pool # 0, flush[a].pool = pool
        PROVE  flush[a].upTo \subseteq finished
    <2>1. FlushEnds(a)
      <3>1. Before /\ Holding
        BY <1>1 DEF IInv, Before
      <3>2. ASSUME NEW b \in Callers, ReadPool(b) \/ PushSentinel(b) PROVE FALSE
        BY <1>1, <3>2 DEF ReadPool, PushSentinel, IInv, Types, TypeOK, Actors
      <3>3. ASSUME NEW b \in Callers, FlushEnds(b) PROVE b = a
        BY <1>1, <3>3 DEF FlushEnds, IInv, Types, TypeOK, Actors
      <3>4. ASSUME NEW w \in Workers, Pop(w) PROVE FALSE
        <4>1. pc' = pc \/ \E o \in {"idle"} \cup HandlerCalls : pc' = [pc EXCEPT ![w] = o]
          BY <1>1, <3>4, Popped DEF IInv
        <4>2. a # w /\ a \in Actors /\ pc \in [Actors -> Operations \cup {"idle", "holds", "flush"}]
          BY <1>1, ConstantsAre DEF IInv, Types, TypeOK, Actors
        <4>3. pc'[a] = pc[a]
          BY <4>1, <4>2
        <4>4. QED
          BY <1>1, <4>3
      <3>5. QED
        BY <1>1, <3>1, <3>2, <3>3, <3>4, FlushMoves
    <2>2. flush[a].wait = {} /\ flush[a].next > NumWorkers
      BY <1>1, <2>1 DEF FlushEnds
    <2>3. ASSUME NEW m \in flush[a].upTo
          PROVE  m \in finished
      <3>1. m \in accepted /\ WorkerOf(m) \in Workers
        <4>1. m \in accepted
          BY <1>1 DEF IInv, Sentinels
        <4>2. QED
          BY <1>1, <4>1, AcceptedStays DEF IInv
      <3>2. WorkerOf(m) \in Nat /\ WorkerOf(m) <= NumWorkers /\ NumWorkers \in Nat /\ flush[a].next \in Nat
        <4>1. flush[a].next \in 1..(NumWorkers + 1)
          BY <1>1 DEF IInv, Types, TypeOK
        <4>2. QED
          BY <3>1, <4>1, ConstantsAre DEF Workers
      <3>3. ~(flush[a].next <= WorkerOf(m))
        BY <2>2, <3>2
      <3>4. \A k \in 1..Len(queue[WorkerOf(m)]) : queue[WorkerOf(m)][k] # a
        BY <1>1, <2>2, <3>1 DEF IInv, Sentinels
      <3>5. QED
        BY <1>1, <3>3, <3>4 DEF IInv, Behind
    <2>4. QED
      BY <2>3
  <1>2. IInv /\ IInv' /\ [Next]_vars =>
          [\A a \in Callers :
             pc[a] = "flush" /\ pc'[a] = "idle" /\ pool # 0 /\ flush[a].pool = pool
               => flush[a].upTo \subseteq finished]_vars
    BY <1>1
  <1>3. QED
    BY <1>2, Invariance, PTL DEF Spec, WaitIdleIsABarrier

LEMMA OrderNext ==
  ASSUME Granting, IInv, Order, [Next]_vars
  PROVE  Order'
  <1>1. Types /\ Gate /\ Owners /\ Asked /\ Copies /\ Known
    BY DEF IInv
  <1>2. Bounded /\ Walks /\ InOrder /\ Dated /\ OwnerReached
    BY DEF Order
  <1>3. Bounded' /\ Walks' /\ InOrder'
    BY <1>1, <1>2, BoundedNext, WalksNext, InOrderNext
  <1>4. Dated' /\ OwnerReached'
    BY <1>1, <1>2, DatedNext, OwnerReachedNext
  <1>5. QED
    BY <1>3, <1>4 DEF Order

\* No command is dropped as outranked and lost by it: where the broker grants what
\* Resubscribe asks and no answer to a SUBSCRIBE is lost, the owner of a command that
\* comes in on one connection has accepted it, has yet to get its copy, or met the gate,
\* because subscriptions go out narrowest first (routeSubsLocked, command.go:1236-1268).
THEOREM NoCommandIsSwallowed ==
  ASSUME Granting
  PROVE  Spec => OwnerServed
  <1>1. Init => IInv /\ Order
    BY IInvInit, OrderInit
  <1>2. IInv /\ Order /\ [Next]_vars => (IInv /\ Order)'
    BY IInvNext, OrderNext
  <1>3. ASSUME IInv, Order, [Next]_vars, NEW m \in outranked' \ outranked,
               log[m].pool = pool, ~IsRetained(m), ~broken, phase # "rollback"
        PROVE  \/ m \in accepted \cup missed
               \/ \E i \in DOMAIN inbound' : inbound'[i].msg = m /\ Owner(TopicOf(m)) \in inbound'[i].to
    <2>1. Types /\ OwnerReached
      BY <1>3 DEF IInv, Order
    <2>2. PICK f \in Filters : Deliver(f) /\ Owner(TopicOf(m)) # f
      BY <1>3, <2>1, OutrankedGrows
    <2>3. m = inbound[1].msg /\ pool # 0
      BY <1>3, <2>1, OutrankedGrows
    <2>4. Len(inbound) \in Nat \ {0}
      BY <2>1, <2>2, DeliverTakes
    <2>5. m \in accepted \cup missed \/ Owner(TopicOf(m)) \in inbound[1].to
      <3>1. 1 \in 1..Len(inbound)
        BY <2>4
      <3>2. QED
        BY <1>3, <2>1, <2>3, <3>1 DEF OwnerReached, Whole
    <2>6. CASE Owner(TopicOf(m)) \in inbound[1].to
      <3>1. /\ Len(inbound') = Len(inbound)
            /\ inbound'[1] = [msg |-> inbound[1].msg, to |-> inbound[1].to \ {f}]
        BY <2>1, <2>2, <2>6, DeliverTakes
      <3>2. inbound'[1].msg = m /\ Owner(TopicOf(m)) \in inbound'[1].to
        BY <2>2, <2>3, <2>6, <3>1
      <3>3. 1 \in DOMAIN inbound'
        <4>1. Types'
          BY <1>3, <2>1, TypesNext
        <4>2. inbound' \in Seq([msg : Messages, to : SUBSET Filters])
          BY <4>1 DEF Types, TypeOK
        <4>3. DOMAIN inbound' = 1..Len(inbound')
          BY <4>2, LenProperties
        <4>4. QED
          BY <2>4, <3>1, <4>3
      <3>4. QED
        BY <3>2, <3>3
    <2>7. QED
      BY <2>5, <2>6
  <1>4. IInv /\ Order /\ [Next]_vars =>
          [\A m \in outranked' \ outranked :
             log[m].pool = pool /\ ~IsRetained(m) =>
               \/ m \in accepted \cup missed
               \/ \E i \in DOMAIN inbound' :
                    inbound'[i].msg = m /\ Owner(TopicOf(m)) \in inbound'[i].to
               \/ broken
               \/ phase = "rollback"]_vars
    BY <1>3
  <1>5. QED
    BY <1>1, <1>2, <1>4, PTL DEF Spec, OwnerServed
=============================================================================
