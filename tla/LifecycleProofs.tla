--------------------------- MODULE LifecycleProofs ----------------------------
(* Theorems about Lifecycle: one worker, restarts that were asked for, and   *)
(* the level that is shown. The invariant behind them has four parts: what   *)
(* each variable holds (Types), the dispatcher (Runner, Shut), restarts on   *)
(* their way (Deaf, Asked), and the level from the mouth to the broker       *)
(* (Voices, LevelSent, LevelKnown).                                          *)
EXTENDS Lifecycle, FiniteSetTheorems, TLAPS

(* What each variable holds.                                               *)

Said   == {Empty, "0", "1", "2", "online", "offline"}
Copies == [kind : {"birth", "restart"}, up : BOOLEAN, retained : BOOLEAN]

ProcessTyped ==
  /\ connected \in {1, 2}
  /\ pc \in [Callers -> {"idle", "announce", "send", "wait", "watch", "take", "copy", "walk",
                         "stop", "close", "drain", "closed", "exited"}]
  /\ item = [c \in Callers |-> item[c]]
  /\ birth \in [made : BOOLEAN, pending : BOOLEAN, running : BOOLEAN, closed : BOOLEAN]
  /\ jobs \in Seq(BOOLEAN)

\* A worker is only ever where the dispatcher puts it.
PlacesTyped ==
  /\ \A w \in Workers : pc[w] \in {"idle", "take", "copy", "walk", "wait"} /\ item[w] \subseteq Configs
  /\ \A c \in Announcers : item[c] \in Said
  /\ pc["upstream"] \in {"idle", "send", "wait"}
  /\ pc["connect"] \in {"idle", "announce", "send", "wait", "watch"}
  /\ pc["shutdown"] \in {"idle", "stop", "announce", "send", "wait", "close", "drain", "closed", "exited"}

WireTyped ==
  /\ wire \in Seq([from : Callers, topic : Configs \cup {Status}, payload : Said \cup {"config"}, retain : {TRUE}])
  /\ answer \in [Callers -> Answers]
  /\ retained = [t \in Topics |-> retained[t]]

NetworkTyped ==
  /\ subscribed \subseteq {"birth", "restart"}
  /\ inbox \in Seq(Copies)
  /\ loop \in Copies \cup {None}

CountersTyped ==
  /\ asks \in Nat /\ lives \in Nat
  /\ ha \in [boots : Nat, up : BOOLEAN]
  /\ drained \in BOOLEAN

Types == ProcessTyped /\ PlacesTyped /\ WireTyped /\ NetworkTyped /\ CountersTyped

(* The dispatcher.                                                         *)

\* The worker that runs is the only one there is.
Runner ==
  /\ birth.running => \E w \in Workers : pc[w] # "idle" /\ \A v \in Workers \ {w} : pc[v] = "idle"
  /\ ~birth.running => \A w \in Workers : pc[w] = "idle"
  /\ birth.pending => birth.running

\* Close shuts what a watch had made, and Drained waits for it.
Shut ==
  /\ pc["shutdown"] \in {"drain", "closed", "exited"} /\ birth.made => birth.closed
  /\ drained => pc["shutdown"] \in {"closed", "exited"}
  /\ drained /\ birth.made => ~birth.running

(* Restarts.                                                               *)

\* Nothing reaches a process that has exited.
Deaf == pc["shutdown"] = "exited" => subscribed = {} /\ inbox = <<>> /\ loop = None

IsLive(m) == m.kind = "restart" /\ ~m.retained

\* A restart that is on its way, or under way, has been asked for.
Asked ==
  /\ lives <= asks + 1
  /\ (\E i \in 1..Len(inbox) : IsLive(inbox[i])) => lives <= asks
  /\ loop # None /\ IsLive(loop) => lives <= asks
  /\ (\E i \in 1..Len(jobs) : ~jobs[i]) => lives <= asks
  /\ ~Going => lives <= asks

(* The level.                                                              *)

Speaks(c) == pc[c] \in {"send", "wait"}

\* One announcement at a time.
OneSpeaks == \A c, d \in Announcers : Speaks(c) /\ Speaks(d) => c = d

\* What is announced is the level, until the shutdown takes it back.
LevelSpoken == \A c \in {"upstream", "connect"} : Speaks(c) => item[c] = Level(connected)

\* A level on the wire is the one that somebody waits for, and the only one.
LevelSent ==
  /\ \A i \in 1..Len(wire) : wire[i].topic = Status \/ wire[i].from \in Announcers =>
       /\ wire[i].from \in Announcers /\ wire[i].topic = Status
       /\ pc[wire[i].from] = "wait" /\ answer[wire[i].from] = "sent" /\ wire[i].payload = item[wire[i].from]
  /\ \A i, j \in 1..Len(wire) : wire[i].topic = Status /\ wire[j].topic = Status => i = j

\* While one waits nothing is known; what it was told stands until the next.
LevelKnown ==
  /\ \A c \in Announcers : pc[c] = "wait" => told \in {None, "under way"}
  /\ \A c \in Announcers : pc[c] = "wait" /\ answer[c] = "accepted" /\ told # None => retained[Status] = item[c]
  /\ told \notin {None, "under way"} => retained[Status] = told
  /\ told \notin {None, "under way"} /\ Going =>
       told = Level(connected) \/ \E c \in Announcers : Speaks(c)

\* Whoever has exited says nothing.
Mute == pc["shutdown"] = "exited" => \A c \in Announcers : ~Speaks(c)

-----------------------------------------------------------------------------
(* The cast.                                                               *)

LEMMA Cast ==
  /\ {"upstream", "connect", "shutdown"} \subseteq Callers /\ Workers \subseteq Callers
  /\ \A w \in Workers : w \notin Announcers
  /\ Callers = Announcers \cup Workers
  /\ Status \in Topics /\ Birth \in Topics /\ Status # Birth
  /\ \A t \in Configs : t \in Topics /\ t # Status /\ t # Birth
  BY LifecycleAssumption DEF Announcers, Status, Birth

\* One caller moves.
LEMMA Moved ==
  ASSUME ProcessTyped, NEW c \in Callers, NEW p, Goto(c, p)
  PROVE  pc'[c] = p /\ \A d \in Callers \ {c} : pc'[d] = pc[d]
  BY DEF Goto, ProcessTyped

-----------------------------------------------------------------------------
(* The types.                                                              *)

LEMMA TypesInit == Init => Types
  <1> SUFFICES ASSUME Init PROVE Types
    OBVIOUS
  <1>1. ProcessTyped
    BY DEF Init, ProcessTyped, NoDispatcher
  <1>2. PlacesTyped
    BY Cast DEF Init, PlacesTyped, Said, Announcers
  <1>3. WireTyped
    BY DEF Init, BrokerInit, WireTyped, Answers
  <1>4. NetworkTyped /\ CountersTyped
    <2>1. NetworkTyped
      BY DEF Init, NetworkTyped
    <2>2. CountersTyped
      BY DEF Init, CountersTyped
    <2>3. QED
      BY <2>1, <2>2
  <1>5. QED
    BY <1>1, <1>2, <1>3, <1>4 DEF Types

LEMMA LevelSaid == \A l : Level(l) \in Said /\ Down \in Said
  BY DEF Level, Down, Said

\* The watch's handler leaves the dispatcher alone, adds to what its worker will find,
\* or starts a worker.
LEMMA Woken ==
  ASSUME Runner, HandleBirth
  PROVE  \/ UNCHANGED <<birth, pc>>
         \/ /\ birth' = [birth EXCEPT !.pending = TRUE, !.running = TRUE]
            /\ loop.up /\ ~birth.closed
            /\ \/ birth.running /\ UNCHANGED pc
               \/ ~birth.running /\ \E w \in Workers : pc[w] = "idle" /\ Goto(w, "take")
  <1>1. CASE ~loop.up \/ birth.closed
    BY <1>1 DEF HandleBirth, Enqueue
  <1>2. CASE loop.up /\ ~birth.closed /\ birth.running
    BY <1>2 DEF HandleBirth, Enqueue
  <1>3. CASE loop.up /\ ~birth.closed /\ ~birth.running
    <2>1. PICK w \in Workers : pc[w] = "idle"
      BY <1>3, LifecycleAssumption DEF Runner
    <2>2. PICK v : v = CHOOSE u \in Workers : pc[u] = "idle"
      OBVIOUS
    <2>3. v \in Workers /\ pc[v] = "idle"
      BY <2>1, <2>2
    <2>4. birth' = [birth EXCEPT !.pending = TRUE, !.running = TRUE] /\ Goto(v, "take")
      BY <1>3, <2>2 DEF HandleBirth, Enqueue
    <2>5. QED
      BY <1>3, <2>3, <2>4
  <1>4. QED
    BY <1>1, <1>2, <1>3

LEMMA CallersTypedNext ==
  ASSUME Types, Runner, [Next]_vars
  PROVE  ProcessTyped' /\ PlacesTyped'
  <1>0. ProcessTyped /\ PlacesTyped /\ NetworkTyped
    BY DEF Types
  <1>1. CASE Connecting \/ \E l \in {1, 2} : SetConnected(l)
    <2>1. CASE AnnounceOnline
      BY <1>0, <2>1, Cast, LevelSaid DEF AnnounceOnline, Announce, Goto, ProcessTyped, PlacesTyped, Announcers
    <2>2. CASE WatchBirth
      BY <1>0, <2>2, Cast DEF WatchBirth, Goto, ProcessTyped, PlacesTyped, Announcers
    <2>3. ASSUME NEW l \in {1, 2}, SetConnected(l) PROVE ProcessTyped' /\ PlacesTyped'
      BY <1>0, <2>3, Cast, LevelSaid DEF SetConnected, Announce, Goto, ProcessTyped, PlacesTyped, Announcers
    <2>4. QED
      BY <1>1, <2>1, <2>2, <2>3 DEF Connecting
  <1>2. CASE Announcing
    <2>1. ASSUME NEW c \in Announcers, HandOver(c) PROVE ProcessTyped' /\ PlacesTyped'
      BY <1>0, <2>1, Cast DEF HandOver, Goto, ProcessTyped, PlacesTyped, Announcers
    <2>2. ASSUME NEW c \in Announcers, AnnounceAnswered(c) PROVE ProcessTyped' /\ PlacesTyped'
      <3>1. After(c) \in {"idle", "watch", "close"} /\ Goto(c, After(c)) /\ c \in Callers
        BY <2>2, Cast DEF AnnounceAnswered, After, Announcers
      <3>2. item' = [item EXCEPT ![c] = Empty] /\ UNCHANGED <<connected, birth, jobs>> /\ Empty \in Said
        BY <2>2 DEF AnnounceAnswered, Said
      <3>3. ProcessTyped'
        BY <1>0, <3>1, <3>2 DEF Goto, ProcessTyped
      <3>4. PlacesTyped'
        <4>1. /\ item'[c] = Empty /\ pc'[c] = After(c)
              /\ \A d \in Callers \ {c} : item'[d] = item[d] /\ pc'[d] = pc[d]
          BY <1>0, <3>1, <3>2 DEF Goto, ProcessTyped
        <4>2. QED
          BY <1>0, <2>2, <3>1, <3>2, <4>1, Cast DEF After, PlacesTyped, Announcers
      <3>5. QED
        BY <3>3, <3>4
    <2>3. QED
      BY <1>2, <2>1, <2>2 DEF Announcing
  <1>3. CASE Dispatching
    <2>1. ASSUME NEW w \in Workers, Take(w) PROVE ProcessTyped' /\ PlacesTyped'
      BY <1>0, <2>1, Cast DEF Take, Goto, ProcessTyped, PlacesTyped, Announcers
    <2>2. ASSUME NEW w \in Workers, Copy(w) PROVE ProcessTyped' /\ PlacesTyped'
      BY <1>0, <2>2, Cast DEF Copy, Goto, ProcessTyped, PlacesTyped, Announcers
    <2>3. ASSUME NEW w \in Workers, Replay(w) PROVE ProcessTyped' /\ PlacesTyped'
      <3>1. PICK t : t \in item[w] /\ item' = [item EXCEPT ![w] = @ \ {t}]
        BY <2>3 DEF Replay
      <3>2. Goto(w, "wait") /\ UNCHANGED <<connected, birth, jobs>>
        BY <2>3 DEF Replay
      <3>3. QED
        BY <1>0, <2>3, <3>1, <3>2, Cast DEF Goto, ProcessTyped, PlacesTyped, Announcers
    <2>4. ASSUME NEW w \in Workers, ReplayAnswered(w) PROVE ProcessTyped' /\ PlacesTyped'
      BY <1>0, <2>4, Cast DEF ReplayAnswered, Goto, ProcessTyped, PlacesTyped, Announcers
    <2>5. ASSUME NEW w \in Workers, Resync(w) PROVE ProcessTyped' /\ PlacesTyped'
      BY <1>0, <2>5, Cast DEF Resync, Goto, ProcessTyped, PlacesTyped, Announcers
    <2>6. QED
      BY <1>3, <2>1, <2>2, <2>3, <2>4, <2>5 DEF Dispatching
  <1>4. CASE Maintaining
    <2>1. CASE Maintain
      BY <1>0, <2>1, Cast DEF Maintain, Goto, ProcessTyped, PlacesTyped, Announcers
    <2>2. CASE HandlerReturns
      BY <1>0, <2>2 DEF HandlerReturns, ProcessTyped, PlacesTyped
    <2>3. QED
      BY <1>4, <2>1, <2>2 DEF Maintaining
  <1>5. CASE Stopping
    <2>1. CASE AnnounceOffline
      BY <1>0, <2>1, Cast, LevelSaid DEF AnnounceOffline, Announce, Goto, ProcessTyped, PlacesTyped, Announcers
    <2>2. CASE StopRouter
      BY <1>0, <2>2, Cast DEF StopRouter, Goto, ProcessTyped, PlacesTyped, Announcers
    <2>3. CASE Close
      BY <1>0, <2>3, Cast DEF Close, Goto, ProcessTyped, PlacesTyped, Announcers
    <2>4. CASE Drained
      BY <1>0, <2>4, Cast DEF Drained, Goto, ProcessTyped, PlacesTyped, Announcers
    <2>5. CASE Exit
      BY <1>0, <2>5, Cast DEF Exit, Goto, ProcessTyped, PlacesTyped, Announcers
    <2>6. QED
      BY <1>5, <2>1, <2>2, <2>3, <2>4, <2>5 DEF Stopping
  <1>6. CASE Delivering
    <2>1. CASE Deliver
      BY <1>0, <2>1 DEF Deliver, process, ProcessTyped, PlacesTyped
    <2>2. CASE HandleBirth
      <3>1. UNCHANGED <<connected, item, jobs>>
        BY <2>2 DEF HandleBirth
      <3>2. CASE UNCHANGED <<birth, pc>>
        BY <1>0, <3>1, <3>2 DEF ProcessTyped, PlacesTyped
      <3>3. CASE birth' = [birth EXCEPT !.pending = TRUE, !.running = TRUE] /\ UNCHANGED pc
        BY <1>0, <3>1, <3>3 DEF ProcessTyped, PlacesTyped
      <3>4. ASSUME NEW w \in Workers, Goto(w, "take"),
                   birth' = [birth EXCEPT !.pending = TRUE, !.running = TRUE]
            PROVE  ProcessTyped' /\ PlacesTyped'
        BY <1>0, <3>1, <3>4, Cast DEF Goto, ProcessTyped, PlacesTyped, Announcers
      <3>5. QED
        BY <2>2, <3>2, <3>3, <3>4, Woken
    <2>3. CASE QueueCommand
      <3>1. loop \in Copies
        BY <1>0, <2>3 DEF QueueCommand, NetworkTyped
      <3>2. loop.retained \in BOOLEAN
        BY <3>1 DEF Copies
      <3>3. jobs' \in Seq(BOOLEAN)
        <4>1. jobs \in Seq(BOOLEAN) /\ (jobs' = jobs \/ jobs' = Append(jobs, loop.retained))
          BY <1>0, <2>3 DEF QueueCommand, ProcessTyped
        <4>2. QED
          BY <3>2, <4>1
      <3>4. UNCHANGED <<connected, pc, item, birth>>
        BY <2>3 DEF QueueCommand
      <3>5. QED
        BY <1>0, <3>3, <3>4 DEF ProcessTyped, PlacesTyped
    <2>4. QED
      BY <1>6, <2>1, <2>2, <2>3 DEF Delivering
  <1>7. CASE NewConnection
    BY <1>0, <1>7, Cast DEF NewConnection, ProcessTyped, PlacesTyped, Announcers, Said
  <1>8. CASE Restart
    <2>1. ProcessTyped'
      BY <1>8 DEF Restart, Fresh, ProcessTyped, NoDispatcher
    <2>2. PlacesTyped'
      BY <1>8, Cast DEF Restart, Fresh, PlacesTyped, Said, Announcers
    <2>3. QED
      BY <2>1, <2>2
  <1>9. CASE Read \/ HomeAssistant \/ AskRestart \/ UNCHANGED vars
    BY <1>0, <1>9 DEF Read, HomeAssistant, AskRestart, vars, process, ProcessTyped, PlacesTyped
  <1>10. QED
    BY <1>1, <1>2, <1>3, <1>4, <1>5, <1>6, <1>7, <1>8, <1>9 DEF Next

\* A step touches the broker and its wire only so.
LEMMA BrokerMoves ==
  ASSUME Types, [Next]_vars
  PROVE  \/ UNCHANGED broker
         \/ \E c \in Announcers : HandOver(c) \/ AnnounceAnswered(c)
         \/ \E w \in Workers : Replay(w) \/ ReplayAnswered(w)
         \/ Read \/ NewConnection \/ HomeAssistant \/ Restart
  BY DEF Next, vars, Connecting, AnnounceOnline, WatchBirth, Announcing, Dispatching, Take, Copy, Resync,
         Maintaining, Maintain, HandlerReturns, Stopping, AnnounceOffline, StopRouter, Close, Drained, Exit,
         Delivering, Deliver, HandleBirth, QueueCommand, AskRestart, SetConnected

Envelopes == [from : Callers, topic : Configs \cup {Status}, payload : Said \cup {"config"}, retain : {TRUE}]

\* What a caller's publish puts on the wire.
LEMMA SendAdds ==
  ASSUME WireTyped, NEW c \in Callers, NEW t \in Configs \cup {Status}, NEW p \in Said \cup {"config"},
         Send(c, t, p, 1, TRUE) \/ Refuse(c)
  PROVE  /\ UNCHANGED retained /\ WireTyped'
         /\ \A d \in Callers \ {c} : answer'[d] = answer[d]
         /\ \/ wire' = wire /\ answer'[c] = "failed"
            \/ /\ answer'[c] = "sent" /\ Len(wire) \in Nat /\ Len(wire') = Len(wire) + 1
               /\ wire'[Len(wire) + 1] = [from |-> c, topic |-> t, payload |-> p, retain |-> TRUE]
               /\ \A i \in 1..Len(wire) : wire'[i] = wire[i]
  <1>1. PICK m \in Envelopes : m = [from |-> c, topic |-> t, payload |-> p, retain |-> TRUE]
    BY DEF Envelopes
  <1>2. UNCHANGED retained /\ (wire' = wire \/ wire' = Append(wire, m))
    BY <1>1 DEF Send, Refuse, Message
  <1>3. wire \in Seq(Envelopes) /\ Len(wire) \in Nat /\ answer \in [Callers -> Answers] /\ retained = [u \in Topics |-> retained[u]]
    BY DEF WireTyped, Envelopes
  <1>4. wire' \in Seq(Envelopes)
    BY <1>2, <1>3
  <1>5. answer' \in [Callers -> Answers] /\ \A d \in Callers \ {c} : answer'[d] = answer[d]
    BY <1>3 DEF Send, Refuse, Answers
  <1>6. WireTyped'
    BY <1>2, <1>3, <1>4, <1>5 DEF WireTyped, Envelopes
  <1>7. CASE Refuse(c)
    BY <1>2, <1>3, <1>5, <1>6, <1>7 DEF Refuse
  <1>8. CASE Send(c, t, p, 1, TRUE)
    <2>1. wire' = Append(wire, m) /\ answer'[c] = "sent"
      BY <1>1, <1>3, <1>8 DEF Send, Message
    <2>2. Len(wire') = Len(wire) + 1 /\ wire'[Len(wire) + 1] = m /\ \A i \in 1..Len(wire) : wire'[i] = wire[i]
      BY <1>3, <2>1
    <2>3. QED
      BY <1>1, <1>2, <1>3, <1>5, <1>6, <2>1, <2>2
  <1>9. QED
    BY <1>7, <1>8

\* What the broker's reading takes off it.
LEMMA ReadTakes ==
  ASSUME WireTyped, BrokerReads
  PROVE  /\ WireTyped'
         /\ Len(wire) \in Nat \ {0} /\ Len(wire') = Len(wire) - 1
         /\ wire[1] \in Envelopes /\ \A i \in 1..Len(wire') : wire'[i] = wire[i + 1]
         /\ answer' = [answer EXCEPT ![wire[1].from] = "accepted"]
         /\ retained' = [retained EXCEPT ![wire[1].topic] = wire[1].payload]
  <1>1. wire \in Seq(Envelopes) /\ wire # <<>> /\ answer \in [Callers -> Answers] /\ retained = [u \in Topics |-> retained[u]]
    BY DEF WireTyped, Envelopes, BrokerReads
  <1>2. /\ Len(wire) \in Nat \ {0} /\ Head(wire) = wire[1] /\ wire[1] \in Envelopes
        /\ Tail(wire) \in Seq(Envelopes) /\ Len(Tail(wire)) = Len(wire) - 1
        /\ \A i \in 1..Len(Tail(wire)) : Tail(wire)[i] = wire[i + 1]
    BY <1>1
  <1>3. wire[1].from \in Callers /\ wire[1].from # None /\ wire[1].retain = TRUE
    BY <1>2, BrokerAssumption DEF Envelopes
  <1>4. /\ answer' = [answer EXCEPT ![wire[1].from] = "accepted"]
        /\ retained' = [retained EXCEPT ![wire[1].topic] = wire[1].payload] /\ wire' = Tail(wire)
    BY <1>2, <1>3 DEF BrokerReads
  <1>5. answer' \in [Callers -> Answers] /\ retained' = [u \in Topics |-> retained'[u]]
    BY <1>1, <1>3, <1>4 DEF Answers
  <1>6. WireTyped'
    BY <1>2, <1>4, <1>5 DEF WireTyped, Envelopes
  <1>7. QED
    BY <1>2, <1>4, <1>6

LEMMA WireTypedNext ==
  ASSUME Types, [Next]_vars
  PROVE  WireTyped'
  <1>0. WireTyped /\ ProcessTyped /\ PlacesTyped
    BY DEF Types
  <1>1. CASE UNCHANGED broker
    BY <1>0, <1>1 DEF WireTyped, broker
  <1>2. ASSUME NEW c \in Announcers, HandOver(c) PROVE WireTyped'
    <2>1. Send(c, Status, item[c], 1, TRUE) \/ Refuse(c)
      BY <1>2 DEF HandOver
    <2>2. item[c] \in Said \cup {"config"} /\ c \in Callers
      BY <1>0, <1>2, Cast DEF PlacesTyped
    <2>3. QED
      BY <1>0, <2>1, <2>2, SendAdds
  <1>3. ASSUME NEW c \in Announcers, AnnounceAnswered(c) PROVE WireTyped'
    BY <1>0, <1>3 DEF AnnounceAnswered, Answered, WireTyped, Answers
  <1>4. ASSUME NEW w \in Workers, Replay(w) PROVE WireTyped'
    <2>1. PICK t \in item[w] : Send(w, t, "config", 1, TRUE) \/ Refuse(w)
      BY <1>4 DEF Replay
    <2>2. t \in Configs \cup {Status} /\ w \in Callers
      BY <1>0, <1>4, <2>1, Cast DEF PlacesTyped
    <2>3. QED
      BY <1>0, <2>1, <2>2, SendAdds
  <1>5. ASSUME NEW w \in Workers, ReplayAnswered(w) PROVE WireTyped'
    BY <1>0, <1>5 DEF ReplayAnswered, Answered, WireTyped, Answers
  <1>6. CASE Read
    BY <1>0, <1>6, ReadTakes DEF Read
  <1>7. CASE NewConnection
    <2>1. /\ wire' = <<>> /\ answer' = [c \in Callers |-> IF answer[c] = "sent" THEN "failed" ELSE answer[c]]
          /\ retained' = [retained EXCEPT ![Status] = Down] \/ retained' = [t \in Topics |-> Empty]
      BY <1>7 DEF NewConnection, Reconnect
    <2>2. retained' = [t \in Topics |-> retained'[t]]
      BY <1>0, <2>1 DEF WireTyped
    <2>3. QED
      BY <1>0, <2>1, <2>2 DEF WireTyped, Answers
  <1>8. CASE HomeAssistant
    <2>1. UNCHANGED <<wire, answer>> /\ retained' = [retained EXCEPT ![Birth] = Word(~ha.up)]
      BY <1>8 DEF HomeAssistant
    <2>2. retained' = [t \in Topics |-> retained'[t]]
      BY <1>0, <2>1 DEF WireTyped
    <2>3. QED
      BY <1>0, <2>1, <2>2 DEF WireTyped
  <1>9. CASE Restart
    BY <1>0, <1>9 DEF Restart, WireTyped, Answers
  <1>10. QED
    BY <1>1, <1>2, <1>3, <1>4, <1>5, <1>6, <1>7, <1>8, <1>9, BrokerMoves

\* What the network holds changes only so.
LEMMA NetworkMoves ==
  ASSUME Types, [Next]_vars
  PROVE  \/ UNCHANGED network
         \/ WatchBirth \/ Deliver \/ HandleBirth \/ QueueCommand \/ StopRouter \/ Exit
         \/ NewConnection \/ HomeAssistant \/ AskRestart
  BY DEF Next, vars, Connecting, AnnounceOnline, Announcing, HandOver, AnnounceAnswered, Dispatching, Take, Copy,
         Replay, ReplayAnswered, Resync, Maintaining, Maintain, HandlerReturns, Stopping, AnnounceOffline, Close,
         Drained, Delivering, Read, Restart, SetConnected, network

\* What a SUBSCRIBE brings is retained.
LEMMA SubscribedIs ==
  ASSUME Types
  PROVE  /\ Subscribed \in Seq(Copies)
         /\ \A i \in 1..Len(Subscribed) :
              (i \in 1..Len(inbox) /\ Subscribed[i] = inbox[i]) \/ Subscribed[i].retained
  <1>1. inbox \in Seq(Copies)
    BY DEF Types, NetworkTyped
  <1>2. PICK a \in Seq(Copies) : /\ \A i \in 1..Len(a) : a[i].retained
                                 /\ a = IF retained[Birth] = Empty THEN <<>>
                                        ELSE <<[kind |-> "birth", up |-> retained[Birth] = "online", retained |-> TRUE]>>
    <2>1. PICK u \in BOOLEAN : u = (retained[Birth] = "online")
      OBVIOUS
    <2>2. PICK e \in Copies : e.retained /\ e = [kind |-> "birth", up |-> retained[Birth] = "online", retained |-> TRUE]
      BY <2>1 DEF Copies
    <2>3. CASE retained[Birth] = Empty
      <3>1. <<>> \in Seq(Copies) /\ \A i \in 1..Len(<<>>) : <<>>[i].retained
        OBVIOUS
      <3>2. QED
        BY <2>3, <3>1
    <2>4. CASE retained[Birth] # Empty
      <3>1. <<e>> \in Seq(Copies) /\ \A i \in 1..Len(<<e>>) : <<e>>[i].retained
        BY <2>2
      <3>2. <<e>> = IF retained[Birth] = Empty THEN <<>>
                    ELSE <<[kind |-> "birth", up |-> retained[Birth] = "online", retained |-> TRUE]>>
        BY <2>2, <2>4
      <3>3. QED
        BY <3>1, <3>2
    <2>5. QED
      BY <2>3, <2>4
  <1>3. PICK b \in Seq(Copies) : /\ \A i \in 1..Len(b) : b[i].retained
                                 /\ b = IF asks > 0 THEN <<[kind |-> "restart", up |-> FALSE, retained |-> TRUE]>> ELSE <<>>
    <2>1. PICK e \in Copies : e.retained /\ e = [kind |-> "restart", up |-> FALSE, retained |-> TRUE]
      BY DEF Copies
    <2>2. CASE ~(asks > 0)
      <3>1. <<>> \in Seq(Copies) /\ \A i \in 1..Len(<<>>) : <<>>[i].retained
        OBVIOUS
      <3>2. QED
        BY <2>2, <3>1
    <2>3. CASE asks > 0
      <3>1. <<e>> \in Seq(Copies) /\ \A i \in 1..Len(<<e>>) : <<e>>[i].retained
        BY <2>1
      <3>2. <<e>> = IF asks > 0 THEN <<[kind |-> "restart", up |-> FALSE, retained |-> TRUE]>> ELSE <<>>
        BY <2>1, <2>3
      <3>3. QED
        BY <3>1, <3>2
    <2>4. QED
      BY <2>2, <2>3
  <1>4. Subscribed = (inbox \o a) \o b
    BY <1>2, <1>3 DEF Subscribed
  <1>5. PICK S : S = Copies
    OBVIOUS
  <1>6. inbox \in Seq(S) /\ a \in Seq(S) /\ b \in Seq(S)
    BY <1>1, <1>2, <1>3, <1>5
  <1>7. /\ (inbox \o a) \o b \in Seq(S)
        /\ \A i \in 1..Len((inbox \o a) \o b) :
             \/ i \in 1..Len(inbox) /\ ((inbox \o a) \o b)[i] = inbox[i]
             \/ i - Len(inbox) \in 1..Len(a) /\ ((inbox \o a) \o b)[i] = a[i - Len(inbox)]
             \/ i - Len(inbox) - Len(a) \in 1..Len(b) /\ ((inbox \o a) \o b)[i] = b[i - Len(inbox) - Len(a)]
    BY <1>6
  <1>8. Subscribed \in Seq(Copies)
    BY <1>4, <1>5, <1>7
  <1>9. ASSUME NEW i \in 1..Len(Subscribed)
        PROVE  (i \in 1..Len(inbox) /\ Subscribed[i] = inbox[i]) \/ Subscribed[i].retained
    <2>1. CASE i \in 1..Len(inbox) /\ ((inbox \o a) \o b)[i] = inbox[i]
      BY <1>4, <2>1
    <2>2. CASE i - Len(inbox) \in 1..Len(a) /\ ((inbox \o a) \o b)[i] = a[i - Len(inbox)]
      <3>1. a[i - Len(inbox)].retained
        BY <1>2, <2>2
      <3>2. QED
        BY <1>4, <2>2, <3>1
    <2>3. CASE i - Len(inbox) - Len(a) \in 1..Len(b) /\ ((inbox \o a) \o b)[i] = b[i - Len(inbox) - Len(a)]
      <3>1. b[i - Len(inbox) - Len(a)].retained
        BY <1>3, <2>3
      <3>2. QED
        BY <1>4, <2>3, <3>1
    <2>4. i \in 1..Len((inbox \o a) \o b)
      BY <1>4
    <2>5. QED
      BY <1>7, <2>1, <2>2, <2>3, <2>4
  <1>10. QED
    BY <1>8, <1>9

LEMMA Appended ==
  ASSUME NEW S, NEW s \in Seq(S), NEW e \in S
  PROVE  /\ Append(s, e) \in Seq(S) /\ Len(s) \in Nat /\ Len(Append(s, e)) = Len(s) + 1
         /\ Append(s, e)[Len(s) + 1] = e /\ \A i \in 1..Len(s) : Append(s, e)[i] = s[i]
  OBVIOUS

LEMMA TailOf ==
  ASSUME NEW S, NEW s \in Seq(S), s # <<>>
  PROVE  /\ Tail(s) \in Seq(S) /\ Len(s) \in Nat \ {0} /\ Len(Tail(s)) = Len(s) - 1
         /\ Head(s) = s[1] /\ Head(s) \in S /\ \A i \in 1..Len(Tail(s)) : Tail(s)[i] = s[i + 1]
  OBVIOUS

LEMMA NetworkTypedNext ==
  ASSUME Types, [Next]_vars
  PROVE  NetworkTyped'
  <1>0. NetworkTyped /\ CountersTyped
    BY DEF Types
  <1>1. CASE UNCHANGED network
    BY <1>0, <1>1 DEF NetworkTyped, network
  <1>2. CASE WatchBirth
    BY <1>0, <1>2, SubscribedIs DEF WatchBirth, NetworkTyped
  <1>3. CASE Deliver
    <2>1. inbox \in Seq(Copies) /\ inbox # <<>>
      BY <1>0, <1>3 DEF Deliver, NetworkTyped
    <2>2. Head(inbox) \in Copies /\ Tail(inbox) \in Seq(Copies)
      BY <2>1, TailOf
    <2>3. QED
      BY <1>0, <1>3, <2>2 DEF Deliver, NetworkTyped
  <1>4. CASE HandleBirth \/ QueueCommand \/ StopRouter \/ Exit \/ NewConnection
    <2>1. CASE HandleBirth \/ QueueCommand
      BY <1>0, <2>1 DEF HandleBirth, QueueCommand, NetworkTyped
    <2>2. CASE StopRouter
      BY <1>0, <2>2 DEF StopRouter, NetworkTyped
    <2>3. CASE Exit
      BY <1>0, <2>3 DEF Exit, NetworkTyped
    <2>4. CASE NewConnection
      BY <1>0, <2>4 DEF NewConnection, NetworkTyped
    <2>5. QED
      BY <1>4, <2>1, <2>2, <2>3, <2>4
  <1>5. CASE HomeAssistant
    <2>1. PICK e \in Copies : e = [kind |-> "birth", up |-> ~ha.up, retained |-> FALSE]
      <3>1. PICK u \in BOOLEAN : u = ~ha.up
        OBVIOUS
      <3>2. QED
        BY <3>1 DEF Copies
    <2>2. UNCHANGED <<subscribed, loop>> /\ (inbox' = inbox \/ inbox' = Append(inbox, e))
      BY <1>5, <2>1 DEF HomeAssistant
    <2>3. QED
      BY <1>0, <2>2, Appended DEF NetworkTyped
  <1>6. CASE AskRestart
    <2>1. PICK e \in Copies : e = [kind |-> "restart", up |-> FALSE, retained |-> FALSE]
      BY DEF Copies
    <2>2. UNCHANGED <<subscribed, loop>> /\ (inbox' = inbox \/ inbox' = Append(inbox, e))
      BY <1>6, <2>1 DEF AskRestart
    <2>3. QED
      BY <1>0, <2>2, Appended DEF NetworkTyped
  <1>7. QED
    BY <1>1, <1>2, <1>3, <1>4, <1>5, <1>6, NetworkMoves

LEMMA CountersTypedNext ==
  ASSUME Types, [Next]_vars
  PROVE  CountersTyped'
  <1>0. CountersTyped
    BY DEF Types
  <1>1. CASE UNCHANGED <<asks, lives, ha, drained>>
    BY <1>0, <1>1 DEF CountersTyped
  <1>2. CASE HomeAssistant
    <2>1. ha' \in [boots : Nat, up : BOOLEAN]
      <3>1. PICK u \in BOOLEAN : u = ~ha.up
        OBVIOUS
      <3>2. PICK n \in Nat : n = IF ha.up THEN ha.boots ELSE ha.boots + 1
        BY <1>0 DEF CountersTyped
      <3>3. ha' = [boots |-> n, up |-> u]
        BY <1>2, <3>1, <3>2 DEF HomeAssistant
      <3>4. QED
        BY <3>3
    <2>2. UNCHANGED <<asks, lives, drained>>
      BY <1>2 DEF HomeAssistant, history
    <2>3. QED
      BY <1>0, <2>1, <2>2 DEF CountersTyped
  <1>3. CASE AskRestart \/ Drained \/ Restart
    <2>1. CASE AskRestart
      <3>1. asks' \in Nat /\ UNCHANGED <<lives, ha, drained>>
        BY <1>0, <2>1 DEF AskRestart, history, CountersTyped
      <3>2. QED
        BY <1>0, <3>1 DEF CountersTyped
    <2>2. CASE Drained
      <3>1. drained' = TRUE /\ UNCHANGED <<asks, lives, ha>>
        BY <2>2 DEF Drained, outside
      <3>2. QED
        BY <1>0, <3>1 DEF CountersTyped
    <2>3. CASE Restart
      <3>1. lives' \in Nat /\ drained' = FALSE /\ UNCHANGED <<asks, ha>>
        BY <1>0, <2>3 DEF Restart, outside, CountersTyped
      <3>2. QED
        BY <1>0, <3>1 DEF CountersTyped
    <2>4. QED
      BY <1>3, <2>1, <2>2, <2>3
  <1>4. QED
    BY <1>1, <1>2, <1>3
       DEF Next, vars, Connecting, AnnounceOnline, WatchBirth, Announcing, HandOver, AnnounceAnswered, Dispatching,
           Take, Copy, Replay, ReplayAnswered, Resync, Maintaining, Maintain, HandlerReturns, Stopping,
           AnnounceOffline, StopRouter, Close, Exit, Delivering, Deliver, HandleBirth, QueueCommand, Read,
           NewConnection, SetConnected, outside, history

LEMMA TypesNext ==
  ASSUME Types, Runner, [Next]_vars
  PROVE  Types'
  BY CallersTypedNext, WireTypedNext, NetworkTypedNext, CountersTypedNext DEF Types

-----------------------------------------------------------------------------
(* The dispatcher.                                                         *)

\* Who moves a worker or what the dispatcher keeps.
LEMMA DispatcherMoves ==
  ASSUME Types, [Next]_vars
  PROVE  \/ /\ \A w \in Workers : pc'[w] = pc[w]
            /\ birth'.pending = birth.pending /\ birth'.running = birth.running
         \/ \E w \in Workers : Take(w) \/ Copy(w) \/ Replay(w) \/ ReplayAnswered(w) \/ Resync(w)
         \/ HandleBirth \/ Restart
  <1> DEFINE Still == /\ \A w \in Workers : pc'[w] = pc[w]
                      /\ birth'.pending = birth.pending /\ birth'.running = birth.running
  <1>0. ProcessTyped
    BY DEF Types
  <1>1. CASE Connecting \/ \E l \in {1, 2} : SetConnected(l)
    <2>1. CASE AnnounceOnline \/ \E l \in {1, 2} : SetConnected(l)
      BY <1>0, <2>1, Cast DEF AnnounceOnline, SetConnected, Announce, Goto, ProcessTyped, Announcers
    <2>2. CASE WatchBirth
      BY <1>0, <2>2, Cast DEF WatchBirth, Goto, ProcessTyped, Announcers
    <2>3. QED
      BY <1>1, <2>1, <2>2 DEF Connecting
  <1>2. ASSUME NEW c \in Announcers, HandOver(c) \/ AnnounceAnswered(c) PROVE Still
    BY <1>0, <1>2, Cast DEF HandOver, AnnounceAnswered, Goto, ProcessTyped
  <1>3. CASE Maintaining
    BY <1>0, <1>3, Cast DEF Maintaining, Maintain, HandlerReturns, Goto, ProcessTyped, Announcers
  <1>4. CASE Stopping
    <2>1. CASE AnnounceOffline \/ StopRouter \/ Drained \/ Exit
      BY <1>0, <2>1, Cast DEF AnnounceOffline, Announce, StopRouter, Drained, Exit, Goto, ProcessTyped, Announcers
    <2>2. CASE Close
      BY <1>0, <2>2, Cast DEF Close, Goto, ProcessTyped, Announcers
    <2>3. QED
      BY <1>4, <2>1, <2>2 DEF Stopping
  <1>5. CASE NewConnection
    BY <1>0, <1>5, Cast DEF NewConnection, ProcessTyped, Announcers
  <1>6. CASE Deliver \/ QueueCommand \/ Read \/ HomeAssistant \/ AskRestart \/ UNCHANGED vars
    BY <1>6 DEF Deliver, QueueCommand, Read, HomeAssistant, AskRestart, vars, process
  <1>7. QED
    BY <1>1, <1>2, <1>3, <1>4, <1>5, <1>6 DEF Next, Announcing, Dispatching, Delivering

LEMMA RunnerNext ==
  ASSUME Types, Runner, [Next]_vars
  PROVE  Runner'
  <1>0. ProcessTyped
    BY DEF Types
  <1>1. CASE /\ \A w \in Workers : pc'[w] = pc[w]
             /\ birth'.pending = birth.pending /\ birth'.running = birth.running
    BY <1>1 DEF Runner
  <1>2. ASSUME NEW w \in Workers, Take(w) PROVE Runner'
    <2>1. pc[w] # "idle" /\ birth.running /\ \A v \in Workers \ {w} : pc[v] = "idle"
      BY <1>2 DEF Take, Runner
    <2>2. pc' = [pc EXCEPT ![w] = IF birth.pending THEN "copy" ELSE "idle"]
      BY <1>2 DEF Take, Goto
    <2>3. pc'[w] = (IF birth.pending THEN "copy" ELSE "idle") /\ \A v \in Workers \ {w} : pc'[v] = "idle"
      BY <1>0, <2>1, <2>2, Cast DEF ProcessTyped
    <2>4. birth'.pending = FALSE /\ birth'.running = birth.pending
      BY <1>0, <1>2, <2>1 DEF Take, ProcessTyped
    <2>5. QED
      BY <2>3, <2>4 DEF Runner
  <1>3. ASSUME NEW w \in Workers, Copy(w) \/ Replay(w) \/ ReplayAnswered(w) \/ Resync(w) PROVE Runner'
    <2>1. pc[w] # "idle" /\ UNCHANGED birth
      BY <1>3 DEF Copy, Replay, ReplayAnswered, Resync
    <2>2. pc'[w] # "idle" /\ \A v \in Workers \ {w} : pc'[v] = pc[v]
      BY <1>0, <1>3, Cast DEF Copy, Replay, ReplayAnswered, Resync, Goto, ProcessTyped
    <2>3. QED
      BY <2>1, <2>2 DEF Runner
  <1>4. CASE HandleBirth
    <2>1. CASE UNCHANGED <<birth, pc>>
      BY <2>1 DEF Runner
    <2>2. CASE birth' = [birth EXCEPT !.pending = TRUE, !.running = TRUE]
      <3>1. birth'.running /\ birth'.pending
        BY <1>0, <2>2 DEF ProcessTyped
      <3>2. CASE birth.running /\ UNCHANGED pc
        BY <3>1, <3>2 DEF Runner
      <3>3. ASSUME ~birth.running, NEW w \in Workers, Goto(w, "take") PROVE Runner'
        <4>1. pc'[w] = "take" /\ \A v \in Workers \ {w} : pc'[v] = "idle"
          BY <1>0, <3>3, Cast DEF Goto, ProcessTyped, Runner
        <4>2. QED
          BY <3>1, <4>1 DEF Runner
      <3>4. QED
        BY <1>4, <2>2, <3>1, <3>2, <3>3, Woken
    <2>3. QED
      BY <1>4, <2>1, <2>2, Woken
  <1>5. CASE Restart
    BY <1>5, Cast DEF Restart, Fresh, NoDispatcher, Runner, Announcers
  <1>6. QED
    BY <1>1, <1>2, <1>3, <1>4, <1>5, DispatcherMoves

\* Who moves the shutdown, or opens or shuts the dispatcher.
LEMMA ShutdownMoves ==
  ASSUME Types, Runner, [Next]_vars
  PROVE  \/ /\ pc'["shutdown"] = pc["shutdown"] /\ UNCHANGED drained
            /\ birth'.made = birth.made /\ birth'.closed = birth.closed
         \/ pc'["shutdown"] \in {"stop", "announce", "send", "wait", "close"} /\ UNCHANGED drained
            /\ pc["shutdown"] \in {"idle", "stop", "announce", "send", "wait"}
         \/ WatchBirth \/ Close \/ Drained \/ Exit \/ Restart
  <1> DEFINE Still == /\ pc'["shutdown"] = pc["shutdown"] /\ UNCHANGED drained
                      /\ birth'.made = birth.made /\ birth'.closed = birth.closed
             Moves == /\ pc'["shutdown"] \in {"stop", "announce", "send", "wait", "close"} /\ UNCHANGED drained
                      /\ pc["shutdown"] \in {"idle", "stop", "announce", "send", "wait"}
  <1>0. ProcessTyped
    BY DEF Types
  <1>1. CASE AnnounceOnline \/ \E l \in {1, 2} : SetConnected(l)
    BY <1>0, <1>1, Cast DEF AnnounceOnline, SetConnected, Announce, Goto, ProcessTyped, history
  <1>2. ASSUME NEW c \in Announcers, HandOver(c) PROVE Still \/ Moves
    BY <1>0, <1>2, Cast DEF HandOver, Goto, ProcessTyped
  <1>3. ASSUME NEW c \in Announcers, AnnounceAnswered(c) PROVE Still \/ Moves
    <2>1. pc'[c] = After(c) /\ \A d \in Callers \ {c} : pc'[d] = pc[d]
      BY <1>0, <1>3, Cast DEF AnnounceAnswered, Goto, ProcessTyped
    <2>2. UNCHANGED <<drained, birth>> /\ pc[c] = "wait"
      BY <1>3 DEF AnnounceAnswered
    <2>3. c = "shutdown" => After(c) = "close"
      BY DEF After
    <2>4. QED
      BY <2>1, <2>2, <2>3, Cast
  <1>4. ASSUME NEW w \in Workers, Take(w) \/ Copy(w) \/ Replay(w) \/ ReplayAnswered(w) \/ Resync(w) PROVE Still
    <2>1. w # "shutdown" /\ w \in Callers
      BY Cast DEF Announcers
    <2>2. pc'["shutdown"] = pc["shutdown"] /\ UNCHANGED drained
      BY <1>0, <1>4, <2>1, Cast DEF Take, Copy, Replay, ReplayAnswered, Resync, Goto, ProcessTyped, history
    <2>3. birth'.made = birth.made /\ birth'.closed = birth.closed
      BY <1>0, <1>4 DEF Take, Copy, Replay, ReplayAnswered, Resync, ProcessTyped
    <2>4. QED
      BY <2>2, <2>3
  <1>5. CASE Maintaining
    BY <1>0, <1>5, Cast DEF Maintaining, Maintain, HandlerReturns, Going, Goto, ProcessTyped, history
  <1>6. CASE AnnounceOffline \/ StopRouter
    BY <1>0, <1>6, Cast DEF AnnounceOffline, Announce, StopRouter, Goto, ProcessTyped, history
  <1>7. CASE NewConnection
    BY <1>0, <1>7, Cast DEF NewConnection, ProcessTyped
  <1>8. CASE Deliver \/ QueueCommand \/ Read \/ HomeAssistant \/ AskRestart \/ UNCHANGED vars
    BY <1>8 DEF Deliver, QueueCommand, Read, HomeAssistant, AskRestart, vars, process, history
  <1>9. ASSUME HandleBirth PROVE Still
    <2>1. UNCHANGED drained
      BY <1>9 DEF HandleBirth, history
    <2>2. CASE UNCHANGED <<birth, pc>>
      BY <2>1, <2>2
    <2>3. CASE birth' = [birth EXCEPT !.pending = TRUE, !.running = TRUE]
      <3>1. birth'.made = birth.made /\ birth'.closed = birth.closed
        BY <1>0, <2>3 DEF ProcessTyped
      <3>2. pc'["shutdown"] = pc["shutdown"]
        BY <1>0, <1>9, Woken, Cast DEF Goto, ProcessTyped, Announcers
      <3>3. QED
        BY <2>1, <3>1, <3>2
    <2>4. QED
      BY <1>9, <2>2, <2>3, Woken
  <1>10. QED
    BY <1>1, <1>2, <1>3, <1>4, <1>5, <1>6, <1>7, <1>8, <1>9 DEF Next, Connecting, Announcing, Dispatching, Stopping, Delivering

\* A dispatcher that is shut and has no worker gets none.
LEMMA StaysStopped ==
  ASSUME Types, Runner, [Next]_vars, birth.closed, ~birth.running
  PROVE  ~birth'.running
  <1>0. ProcessTyped
    BY DEF Types
  <1>1. CASE HandleBirth
    BY <1>1 DEF HandleBirth, Enqueue
  <1>2. ASSUME NEW w \in Workers, Take(w) \/ Copy(w) \/ Replay(w) \/ ReplayAnswered(w) \/ Resync(w) PROVE FALSE
    <2>1. pc[w] = "idle"
      BY DEF Runner
    <2>2. QED
      BY <1>2, <2>1 DEF Take, Copy, Replay, ReplayAnswered, Resync
  <1>3. CASE Restart
    BY <1>3 DEF Restart, Fresh, NoDispatcher
  <1>4. QED
    BY <1>1, <1>2, <1>3, DispatcherMoves

LEMMA ShutNext ==
  ASSUME Types, Runner, Shut, [Next]_vars
  PROVE  Shut'
  <1>0. ProcessTyped
    BY DEF Types
  <1>1. CASE /\ pc'["shutdown"] = pc["shutdown"] /\ UNCHANGED drained
             /\ birth'.made = birth.made /\ birth'.closed = birth.closed
    <2>1. drained /\ birth.made => birth.closed /\ ~birth.running
      BY DEF Shut
    <2>2. drained /\ birth.made => ~birth'.running
      BY <2>1, StaysStopped
    <2>3. QED
      BY <1>1, <2>2 DEF Shut
  <1>2. CASE /\ pc'["shutdown"] \in {"stop", "announce", "send", "wait", "close"} /\ UNCHANGED drained
             /\ pc["shutdown"] \in {"idle", "stop", "announce", "send", "wait"}
    BY <1>2 DEF Shut
  <1>3. CASE WatchBirth
    <2>1. pc["shutdown"] = "idle" /\ pc'["shutdown"] = "idle"
      BY <1>0, <1>3, Cast DEF WatchBirth, Going, Goto, ProcessTyped
    <2>2. UNCHANGED drained
      BY <1>3 DEF WatchBirth
    <2>3. QED
      BY <2>1, <2>2 DEF Shut
  <1>4. CASE Close
    <2>1. pc["shutdown"] = "close" /\ pc'["shutdown"] = "drain"
      BY <1>0, <1>4, Cast DEF Close, Goto, ProcessTyped
    <2>2. UNCHANGED drained
      BY <1>4 DEF Close, history
    <2>3. birth'.made = birth.made /\ birth'.closed = birth.made
      BY <1>0, <1>4 DEF Close, ProcessTyped
    <2>4. QED
      BY <2>1, <2>2, <2>3 DEF Shut
  <1>5. CASE Drained
    <2>1. pc["shutdown"] = "drain" /\ pc'["shutdown"] = "closed"
      BY <1>0, <1>5, Cast DEF Drained, Goto, ProcessTyped
    <2>2. UNCHANGED birth /\ ~birth.running
      BY <1>5 DEF Drained, Runner
    <2>3. QED
      BY <2>1, <2>2 DEF Shut
  <1>6. CASE Exit
    <2>1. pc["shutdown"] = "closed" /\ pc'["shutdown"] = "exited"
      BY <1>0, <1>6, Cast DEF Exit, Goto, ProcessTyped
    <2>2. UNCHANGED <<birth, drained>>
      BY <1>6 DEF Exit, history
    <2>3. QED
      BY <2>1, <2>2 DEF Shut
  <1>7. CASE Restart
    BY <1>7, Cast DEF Restart, Fresh, NoDispatcher, Shut
  <1>8. QED
    BY <1>1, <1>2, <1>3, <1>4, <1>5, <1>6, <1>7, ShutdownMoves

\* The worker that runs, counted.
LEMMA OneWorkerThen == Runner /\ Shut => OneWorker
  <1> SUFFICES ASSUME Runner, Shut PROVE OneWorker
    OBVIOUS
  <1>1. CASE birth.running
    <2>1. PICK w \in Workers : pc[w] # "idle" /\ \A v \in Workers \ {w} : pc[v] = "idle"
      BY <1>1 DEF Runner
    <2>2. {v \in Workers : pc[v] # "idle"} = {w}
      BY <2>1
    <2>3. Cardinality({v \in Workers : pc[v] # "idle"}) = 1
      BY <2>2, FS_Singleton
    <2>4. QED
      BY <1>1, <2>3 DEF OneWorker, Runner, Shut
  <1>2. CASE ~birth.running
    <2>1. {v \in Workers : pc[v] # "idle"} = {}
      BY <1>2 DEF Runner
    <2>2. Cardinality({v \in Workers : pc[v] # "idle"}) = 0
      BY <2>1, FS_EmptySet
    <2>3. QED
      BY <1>2, <2>2 DEF OneWorker, Runner, Shut
  <1>3. QED
    BY <1>1, <1>2

-----------------------------------------------------------------------------
(* Restarts.                                                               *)

\* An exited process only restarts; the rest leaves what it hears alone.
LEMMA ExitedOnlyRestarts ==
  ASSUME Types, Runner, Deaf, [Next]_vars, pc["shutdown"] = "exited"
  PROVE  \/ subscribed' = subscribed /\ inbox' = inbox /\ loop' = loop
         \/ Restart
  <1>0. ProcessTyped /\ NetworkTyped
    BY DEF Types
  <1>1. subscribed = {} /\ inbox = <<>> /\ loop = None
    BY DEF Deaf
  <1>2. CASE WatchBirth \/ Deliver \/ HandleBirth \/ QueueCommand \/ StopRouter \/ Exit \/ NewConnection
    BY <1>2 DEF WatchBirth, Deliver, HandleBirth, QueueCommand, StopRouter, Exit, NewConnection, Alive, Going
  <1>3. CASE HomeAssistant \/ AskRestart
    BY <1>1, <1>3 DEF HomeAssistant, AskRestart
  <1>4. CASE UNCHANGED network
    BY <1>4 DEF network
  <1>5. QED
    BY <1>2, <1>3, <1>4, NetworkMoves

LEMMA DeafNext ==
  ASSUME Types, Runner, Deaf, [Next]_vars
  PROVE  Deaf'
  <1>0. ProcessTyped
    BY DEF Types
  <1>1. CASE pc["shutdown"] = "exited"
    <2>1. CASE Restart
      BY <2>1, Cast DEF Restart, Fresh, Deaf
    <2>2. QED
      BY <1>1, <2>1, ExitedOnlyRestarts DEF Deaf
  <1>2. CASE pc["shutdown"] # "exited"
    <2>1. CASE Exit
      BY <2>1 DEF Exit, Deaf
    <2>2. CASE ~Exit
      <3>1. pc'["shutdown"] # "exited"
        <4>1. CASE WatchBirth
          BY <1>0, <4>1, Cast, <1>2 DEF WatchBirth, Goto, ProcessTyped
        <4>2. CASE Close
          BY <1>0, <4>2, Cast DEF Close, Goto, ProcessTyped
        <4>3. CASE Drained
          BY <1>0, <4>3, Cast DEF Drained, Goto, ProcessTyped
        <4>4. CASE Restart
          BY <4>4, <1>2 DEF Restart
        <4>5. QED
          BY <1>2, <2>2, <4>1, <4>2, <4>3, <4>4, ShutdownMoves
      <3>2. QED
        BY <3>1 DEF Deaf
    <2>3. QED
      BY <2>1, <2>2
  <1>3. QED
    BY <1>1, <1>2

\* Only a live command on a handler ends a life.
LEMMA OnlyALiveCommandStops ==
  ASSUME Types, Runner, [Next]_vars, Going, ~(Going')
  PROVE  Maintain /\ jobs # <<>> /\ ~Head(jobs)
  <1>0. ProcessTyped /\ pc["shutdown"] = "idle" /\ pc'["shutdown"] # "idle"
    BY DEF Types, Going
  <1>1. CASE Connecting \/ \E l \in {1, 2} : SetConnected(l)
    BY <1>0, <1>1, Cast DEF Connecting, WatchBirth, AnnounceOnline, SetConnected, Announce, Goto, ProcessTyped
  <1>2. CASE Announcing
    BY <1>0, <1>2, Cast DEF Announcing, HandOver, AnnounceAnswered, Goto, ProcessTyped
  <1>3. ASSUME NEW w \in Workers, Take(w) \/ Copy(w) \/ Replay(w) \/ ReplayAnswered(w) \/ Resync(w) PROVE FALSE
    <2>1. w # "shutdown" /\ w \in Callers
      BY Cast DEF Announcers
    <2>2. QED
      BY <1>0, <1>3, <2>1, Cast DEF Take, Copy, Replay, ReplayAnswered, Resync, Goto, ProcessTyped
  <1>4. CASE Stopping \/ Restart
    BY <1>0, <1>4 DEF Stopping, AnnounceOffline, StopRouter, Close, Drained, Exit, Restart
  <1>5. CASE NewConnection
    BY <1>0, <1>5, Cast DEF NewConnection, ProcessTyped
  <1>6. CASE HandleBirth
    BY <1>0, <1>6, Woken, Cast DEF Goto, ProcessTyped, Announcers
  <1>7. CASE Deliver \/ QueueCommand \/ Read \/ HomeAssistant \/ AskRestart \/ HandlerReturns \/ UNCHANGED vars
    BY <1>0, <1>7 DEF Deliver, QueueCommand, Read, HomeAssistant, AskRestart, HandlerReturns, vars, process
  <1>8. CASE Maintain
    <2>1. Acted(Head(jobs))
      BY <1>0, <1>8 DEF Maintain
    <2>2. QED
      BY <1>8, <2>1 DEF Maintain, Acted
  <1>9. QED
    BY <1>1, <1>2, <1>3, <1>4, <1>5, <1>6, <1>7, <1>8 DEF Next, Dispatching, Maintaining, Delivering

\* The counters of lives and of commands move only so.
LEMMA LivesMove ==
  ASSUME Types, [Next]_vars
  PROVE  \/ UNCHANGED <<asks, lives>>
         \/ AskRestart \/ Restart
  BY DEF Next, vars, Connecting, AnnounceOnline, WatchBirth, Announcing, HandOver, AnnounceAnswered, Dispatching,
         Take, Copy, Replay, ReplayAnswered, Resync, Maintaining, Maintain, HandlerReturns, Stopping,
         AnnounceOffline, StopRouter, Close, Drained, Exit, Delivering, Deliver, HandleBirth, QueueCommand, Read,
         NewConnection, HomeAssistant, SetConnected, outside, history

\* No command is on its way.
Quiet ==
  /\ \A i \in 1..Len(inbox) : ~IsLive(inbox[i])
  /\ loop # None => ~IsLive(loop)
  /\ \A i \in 1..Len(jobs) : jobs[i]

\* Who moves the jobs.
LEMMA JobsMove ==
  ASSUME Types, [Next]_vars
  PROVE  UNCHANGED jobs \/ QueueCommand \/ Maintain \/ Restart
  BY DEF Next, vars, process, Connecting, AnnounceOnline, WatchBirth, Announcing, HandOver, AnnounceAnswered,
         Dispatching, Take, Copy, Replay, ReplayAnswered, Resync, Maintaining, HandlerReturns, Stopping,
         AnnounceOffline, StopRouter, Close, Drained, Exit, Delivering, Deliver, HandleBirth, Read,
         NewConnection, HomeAssistant, AskRestart, SetConnected

\* Nothing but a command makes a command.
LEMMA QuietStays ==
  ASSUME Types, Runner, [Next]_vars, Quiet, Going, ~AskRestart
  PROVE  Quiet'
  <1>0. ProcessTyped /\ NetworkTyped /\ CountersTyped
    BY DEF Types
  <1>1. /\ \A i \in 1..Len(inbox') : ~IsLive(inbox'[i])
        /\ loop' # None => ~IsLive(loop')
    <2>1. CASE UNCHANGED network
      BY <2>1 DEF network, Quiet
    <2>2. CASE WatchBirth
      <3>1. inbox' = Subscribed /\ loop' = loop
        BY <2>2 DEF WatchBirth
      <3>2. QED
        BY <3>1, SubscribedIs DEF Quiet, IsLive
    <2>3. CASE Deliver
      <3>1. inbox \in Seq(Copies) /\ inbox # <<>> /\ loop' = Head(inbox) /\ inbox' = Tail(inbox)
        BY <1>0, <2>3 DEF Deliver, NetworkTyped
      <3>2. Len(inbox) \in Nat \ {0} /\ loop' = inbox[1] /\ Len(inbox') = Len(inbox) - 1 /\ \A i \in 1..Len(inbox') : inbox'[i] = inbox[i + 1]
        BY <3>1, TailOf
      <3>3. ~IsLive(loop')
        BY <3>2 DEF Quiet, IsLive
      <3>4. \A i \in 1..Len(inbox') : i + 1 \in 1..Len(inbox)
        BY <3>2
      <3>5. QED
        BY <3>2, <3>3, <3>4 DEF Quiet, IsLive
    <2>4. CASE HandleBirth \/ QueueCommand
      BY <2>4 DEF HandleBirth, QueueCommand, Quiet
    <2>5. CASE StopRouter
      BY <2>5 DEF StopRouter, Quiet
    <2>6. CASE Exit
      BY <2>6 DEF Exit
    <2>7. CASE NewConnection
      BY <2>7 DEF NewConnection, Quiet
    <2>8. CASE HomeAssistant
      <3>1. PICK e \in Copies : e = [kind |-> "birth", up |-> ~ha.up, retained |-> FALSE]
        <4>1. PICK u \in BOOLEAN : u = ~ha.up
          OBVIOUS
        <4>2. QED
          BY <4>1 DEF Copies
      <3>2. inbox \in Seq(Copies) /\ loop' = loop /\ (inbox' = inbox \/ inbox' = Append(inbox, e))
        BY <1>0, <2>8, <3>1 DEF HomeAssistant, NetworkTyped
      <3>3. ~IsLive(e)
        BY <3>1 DEF IsLive
      <3>4. CASE inbox' = inbox
        BY <3>2, <3>4 DEF Quiet
      <3>5. CASE inbox' = Append(inbox, e)
        <4>1. /\ Len(inbox) \in Nat /\ Len(inbox') = Len(inbox) + 1
              /\ inbox'[Len(inbox) + 1] = e /\ \A i \in 1..Len(inbox) : inbox'[i] = inbox[i]
          BY <3>2, <3>5, Appended
        <4>2. \A i \in 1..Len(inbox') : i \in 1..Len(inbox) \/ i = Len(inbox) + 1
          BY <4>1
        <4>3. QED
          BY <3>2, <3>3, <4>1, <4>2 DEF Quiet, IsLive
      <3>6. QED
        BY <3>2, <3>4, <3>5
    <2>9. QED
      BY <2>1, <2>2, <2>3, <2>4, <2>5, <2>6, <2>7, <2>8, NetworkMoves
  <1>2. \A i \in 1..Len(jobs') : jobs'[i]
    <2>0. jobs \in Seq(BOOLEAN)
      BY <1>0 DEF ProcessTyped
    <2>1. CASE UNCHANGED jobs
      BY <2>1 DEF Quiet
    <2>2. CASE QueueCommand
      <3>1. loop \in Copies /\ loop.kind = "restart" /\ loop # None
        BY <1>0, <2>2 DEF QueueCommand, NetworkTyped
      <3>2. loop.retained
        BY <3>1 DEF Quiet, IsLive
      <3>3. PICK e \in BOOLEAN : e = loop.retained
        BY <3>1 DEF Copies
      <3>4. jobs' = jobs \/ jobs' = Append(jobs, e)
        BY <2>2, <3>3 DEF QueueCommand
      <3>5. /\ Len(jobs) \in Nat /\ Len(Append(jobs, e)) = Len(jobs) + 1
            /\ Append(jobs, e)[Len(jobs) + 1] = e /\ \A i \in 1..Len(jobs) : Append(jobs, e)[i] = jobs[i]
        BY <2>0, Appended
      <3>6. \A i \in 1..Len(Append(jobs, e)) : i \in 1..Len(jobs) \/ i = Len(jobs) + 1
        BY <3>5
      <3>7. CASE jobs' = jobs
        BY <3>7 DEF Quiet
      <3>8. CASE jobs' = Append(jobs, e)
        <4>1. SUFFICES ASSUME NEW i \in 1..Len(jobs') PROVE jobs'[i]
          OBVIOUS
        <4>2. CASE i \in 1..Len(jobs)
          BY <3>5, <3>8, <4>2 DEF Quiet
        <4>3. CASE i = Len(jobs) + 1
          BY <3>2, <3>3, <3>5, <3>8, <4>3
        <4>4. QED
          BY <3>6, <3>8, <4>2, <4>3
      <3>9. QED
        BY <3>4, <3>7, <3>8
    <2>3. CASE Maintain
      <3>1. jobs # <<>> /\ jobs' = Tail(jobs)
        BY <2>3 DEF Maintain
      <3>2. Len(jobs) \in Nat /\ Len(jobs') = Len(jobs) - 1 /\ \A i \in 1..Len(jobs') : jobs'[i] = jobs[i + 1]
        BY <2>0, <3>1, TailOf
      <3>3. \A i \in 1..Len(jobs') : i + 1 \in 1..Len(jobs)
        BY <3>2
      <3>4. SUFFICES ASSUME NEW i \in 1..Len(jobs') PROVE jobs'[i]
        OBVIOUS
      <3>5. jobs'[i] = jobs[i + 1] /\ i + 1 \in 1..Len(jobs)
        BY <3>2, <3>3
      <3>6. QED
        BY <3>5 DEF Quiet
    <2>4. CASE Restart
      BY <2>4 DEF Restart, Going
    <2>5. QED
      BY <2>1, <2>2, <2>3, <2>4, JobsMove
  <1>3. QED
    BY <1>1, <1>2 DEF Quiet, IsLive

LEMMA AskedNext ==
  ASSUME Types, Runner, Deaf, Asked, [Next]_vars
  PROVE  Asked'
  <1>0. CountersTyped
    BY DEF Types
  <1>1. CASE Restart
    <2>1. pc["shutdown"] = "exited" /\ UNCHANGED <<asks, inbox, loop>> /\ lives' = lives + 1
      BY <1>1 DEF Restart, network, outside
    <2>2. lives <= asks /\ inbox' = <<>> /\ loop' = None
      BY <2>1 DEF Asked, Deaf, Going
    <2>3. jobs' = <<>> /\ Going'
      BY <1>1, Cast DEF Restart, Fresh, Going
    <2>4. lives' <= asks' + 1
      BY <1>0, <2>1, <2>2 DEF CountersTyped
    <2>5. QED
      BY <2>2, <2>3, <2>4 DEF Asked
  <1>2. CASE AskRestart
    <2>1. asks' = asks + 1 /\ UNCHANGED lives
      BY <1>2 DEF AskRestart, history
    <2>2. lives' <= asks' /\ lives' <= asks' + 1
      BY <1>0, <2>1 DEF Asked, CountersTyped
    <2>3. QED
      BY <2>2 DEF Asked
  <1>3. CASE ~AskRestart /\ UNCHANGED <<asks, lives>>
    <2>1. lives' <= asks' + 1
      BY <1>3 DEF Asked
    <2>2. CASE lives <= asks
      BY <1>3, <2>1, <2>2 DEF Asked
    <2>3. CASE ~(lives <= asks)
      <3>1. Going /\ (\A i \in 1..Len(inbox) : ~IsLive(inbox[i])) /\ (loop # None => ~IsLive(loop))
        BY <2>3 DEF Asked
      <3>2. \A i \in 1..Len(jobs) : jobs[i]
        BY <2>3 DEF Asked
      <3>3. Quiet
        BY <3>1, <3>2 DEF Quiet
      <3>4. Quiet'
        BY <1>3, <3>1, <3>3, QuietStays
      <3>5. Going'
        <4>1. CASE ~(Going')
          <5>1. jobs # <<>> /\ ~Head(jobs)
            BY <3>1, <4>1, OnlyALiveCommandStops
          <5>2. jobs \in Seq(BOOLEAN) /\ jobs # <<>>
            BY <5>1 DEF Types, ProcessTyped
          <5>3. Head(jobs) = jobs[1] /\ Len(jobs) \in Nat \ {0}
            BY <5>2, TailOf
          <5>4. 1 \in 1..Len(jobs)
            BY <5>3
          <5>5. QED
            BY <3>2, <5>1, <5>3, <5>4
        <4>2. QED
          BY <4>1
      <3>6. QED
        BY <2>1, <3>4, <3>5 DEF Asked, Quiet
    <2>4. QED
      BY <2>2, <2>3
  <1>4. QED
    BY <1>1, <1>2, <1>3, LivesMove

-----------------------------------------------------------------------------
(* Who speaks.                                                             *)

LEMMA OnlyExitExits ==
  ASSUME Types, Runner, [Next]_vars, pc'["shutdown"] = "exited"
  PROVE  pc["shutdown"] = "exited" \/ Exit
  <1>0. ProcessTyped
    BY DEF Types
  <1>1. CASE WatchBirth
    BY <1>0, <1>1, Cast DEF WatchBirth, Goto, ProcessTyped
  <1>2. CASE Close
    BY <1>0, <1>2, Cast DEF Close, Goto, ProcessTyped
  <1>3. CASE Drained
    BY <1>0, <1>3, Cast DEF Drained, Goto, ProcessTyped
  <1>4. CASE Restart
    BY <1>4, Cast DEF Restart, Fresh
  <1>5. QED
    BY <1>1, <1>2, <1>3, <1>4, ShutdownMoves

\* A step that is no announcement's leaves every announcer's words alone.
Hushed ==
  /\ \A c \in Announcers : /\ pc'[c] = pc[c] \/ {pc[c], pc'[c]} \cap {"send", "wait"} = {}
                           /\ item'[c] = item[c]
  /\ UNCHANGED <<connected, told>>

LEMMA VoicesMove ==
  ASSUME Types, Runner, [Next]_vars
  PROVE  \/ \E l \in {1, 2} : SetConnected(l)
         \/ AnnounceOnline \/ AnnounceOffline
         \/ \E c \in Announcers : HandOver(c) \/ AnnounceAnswered(c)
         \/ NewConnection \/ Restart
         \/ Hushed
  <1>0. ProcessTyped
    BY DEF Types
  <1>1. CASE WatchBirth
    BY <1>0, <1>1, Cast DEF WatchBirth, Goto, ProcessTyped, Announcers, Hushed
  <1>2. ASSUME NEW w \in Workers, Take(w) \/ Copy(w) \/ Replay(w) \/ ReplayAnswered(w) \/ Resync(w) PROVE Hushed
    <2>1. \A c \in Announcers : c # w /\ c \in Callers
      BY Cast DEF Announcers
    <2>2. \A c \in Announcers : pc'[c] = pc[c]
      BY <1>0, <1>2, <2>1, Cast DEF Take, Copy, Replay, ReplayAnswered, Resync, Goto, ProcessTyped
    <2>3. \A c \in Announcers : item'[c] = item[c]
      BY <1>0, <1>2, <2>1, Cast DEF Take, Copy, Replay, ReplayAnswered, Resync, ProcessTyped
    <2>4. UNCHANGED <<connected, told>>
      BY <1>2 DEF Take, Copy, Replay, ReplayAnswered, Resync, history
    <2>5. QED
      BY <2>2, <2>3, <2>4 DEF Hushed
  <1>3. CASE Maintain
    <2>1. pc' = pc \/ (pc["shutdown"] = "idle" /\ pc' = [pc EXCEPT !["shutdown"] = "stop"])
      BY <1>3 DEF Maintain, Going, Goto
    <2>2. UNCHANGED <<item, connected, told>>
      BY <1>3 DEF Maintain, history
    <2>3. QED
      BY <1>0, <2>1, <2>2, Cast DEF ProcessTyped, Announcers, Hushed
  <1>4. CASE StopRouter \/ Close \/ Drained \/ Exit
    <2>1. PICK p \in {"announce", "drain", "closed", "exited"} : pc' = [pc EXCEPT !["shutdown"] = p]
      BY <1>4 DEF StopRouter, Close, Drained, Exit, Goto
    <2>2. pc["shutdown"] \in {"stop", "close", "drain", "closed"}
      BY <1>4 DEF StopRouter, Close, Drained, Exit
    <2>3. UNCHANGED <<item, connected, told>>
      BY <1>4 DEF StopRouter, Close, Drained, Exit, history
    <2>4. QED
      BY <1>0, <2>1, <2>2, <2>3, Cast DEF ProcessTyped, Announcers, Hushed
  <1>5. CASE HandleBirth
    <2>1. UNCHANGED <<item, connected, told>>
      BY <1>5 DEF HandleBirth, history
    <2>2. \A c \in Announcers : pc'[c] = pc[c]
      BY <1>0, <1>5, Woken, Cast DEF Goto, ProcessTyped, Announcers
    <2>3. QED
      BY <2>1, <2>2 DEF Hushed
  <1>6. CASE HandlerReturns \/ Deliver \/ QueueCommand \/ Read \/ HomeAssistant \/ AskRestart \/ UNCHANGED vars
    BY <1>6 DEF HandlerReturns, Deliver, QueueCommand, Read, HomeAssistant, AskRestart, vars, process, history, Hushed
  <1>7. QED
    BY <1>1, <1>2, <1>3, <1>4, <1>5, <1>6 DEF Next, Connecting, Announcing, Dispatching, Maintaining, Stopping, Delivering

Voices == Mute /\ OneSpeaks /\ LevelSpoken

LEMMA VoicesNext ==
  ASSUME OneAnnouncer = TRUE, Types, Runner, Voices, [Next]_vars
  PROVE  Voices'
  <1>0. ProcessTyped /\ PlacesTyped
    BY DEF Types
  <1>1. ASSUME NEW c \in Announcers, pc[c] # "send" /\ pc[c] # "wait", Alone(c), Goto(c, "send"), pc["shutdown"] # "exited",
               c # "shutdown" => item'[c] = Level(connected'), \A d \in Announcers \ {c} : item'[d] = item[d]
        PROVE  Voices'
    <2>1. pc'[c] = "send" /\ \A d \in Announcers \ {c} : pc'[d] = pc[d] /\ ~Speaks(d)
      BY <1>0, <1>1, Cast DEF Goto, ProcessTyped, Alone, Speaks
    <2>2. \A d \in Announcers : Speaks(d)' => d = c
      BY <2>1 DEF Speaks
    <2>3. pc'["shutdown"] # "exited"
      BY <1>1, <2>1 DEF Announcers
    <2>4. OneSpeaks'
      BY <2>2 DEF OneSpeaks
    <2>5. LevelSpoken'
      BY <1>1, <2>2 DEF LevelSpoken, Announcers
    <2>6. QED
      BY <2>3, <2>4, <2>5 DEF Voices, Mute
  <1>2. ASSUME NEW l \in {1, 2}, SetConnected(l) PROVE Voices'
    <2>1. item' = [item EXCEPT !["upstream"] = Level(l)] /\ connected' = l
      BY <1>2 DEF SetConnected, Announce
    <2>2. item'["upstream"] = Level(connected') /\ \A d \in Announcers \ {"upstream"} : item'[d] = item[d]
      BY <1>0, <2>1, Cast DEF ProcessTyped
    <2>3. pc["upstream"] = "idle" /\ Alone("upstream") /\ Goto("upstream", "send") /\ pc["shutdown"] # "exited"
      BY <1>2 DEF SetConnected, Announce, Going
    <2>4. "upstream" \in Announcers
      BY DEF Announcers
    <2>5. QED
      BY <1>1, <2>2, <2>3, <2>4
  <1>3. CASE AnnounceOnline
    <2>1. item' = [item EXCEPT !["connect"] = Level(connected)] /\ connected' = connected
      BY <1>3 DEF AnnounceOnline, Announce
    <2>2. item'["connect"] = Level(connected') /\ \A d \in Announcers \ {"connect"} : item'[d] = item[d]
      BY <1>0, <2>1, Cast DEF ProcessTyped
    <2>3. pc["connect"] = "announce" /\ Alone("connect") /\ Goto("connect", "send") /\ pc["shutdown"] # "exited"
      BY <1>3 DEF AnnounceOnline, Announce, Going
    <2>4. "connect" \in Announcers
      BY DEF Announcers
    <2>5. QED
      BY <1>1, <2>2, <2>3, <2>4
  <1>4. CASE AnnounceOffline
    <2>1. item' = [item EXCEPT !["shutdown"] = Down]
      BY <1>4 DEF AnnounceOffline, Announce
    <2>2. \A d \in Announcers \ {"shutdown"} : item'[d] = item[d]
      BY <1>0, <2>1, Cast DEF ProcessTyped
    <2>3. pc["shutdown"] = "announce" /\ Alone("shutdown") /\ Goto("shutdown", "send")
      BY <1>4 DEF AnnounceOffline, Announce
    <2>4. "shutdown" \in Announcers
      BY DEF Announcers
    <2>5. QED
      BY <1>1, <2>2, <2>3, <2>4
  <1>5. ASSUME \A c \in Announcers : Speaks(c)' => Speaks(c) /\ item'[c] = item[c],
               connected' = connected
        PROVE  OneSpeaks' /\ LevelSpoken'
    BY <1>5 DEF Voices, OneSpeaks, LevelSpoken, Announcers
  <1>6. ASSUME NEW c \in Announcers, HandOver(c) PROVE Voices'
    <2>1. pc[c] = "send" /\ Goto(c, "wait") /\ UNCHANGED <<item, connected>>
      BY <1>6 DEF HandOver
    <2>2. pc'[c] = "wait" /\ \A d \in Announcers \ {c} : pc'[d] = pc[d]
      BY <1>0, <2>1, Cast DEF Goto, ProcessTyped
    <2>3. \A d \in Announcers : Speaks(d)' <=> Speaks(d)
      BY <2>1, <2>2 DEF Speaks
    <2>4. pc["shutdown"] # "exited"
      BY <2>1 DEF Voices, Mute, Speaks
    <2>5. pc'["shutdown"] # "exited"
      BY <2>2, <2>4 DEF Announcers
    <2>6. QED
      BY <1>5, <2>1, <2>3, <2>5 DEF Voices, Mute
  <1>7. ASSUME NEW c \in Announcers, AnnounceAnswered(c) PROVE Voices'
    <2>1. pc[c] = "wait" /\ Goto(c, After(c)) /\ item' = [item EXCEPT ![c] = Empty] /\ UNCHANGED connected
      BY <1>7 DEF AnnounceAnswered
    <2>2. After(c) \in {"idle", "watch", "close"}
      BY DEF After, Announcers
    <2>3. pc'[c] \notin {"send", "wait", "exited"} /\ \A d \in Announcers \ {c} : pc'[d] = pc[d] /\ item'[d] = item[d]
      BY <1>0, <2>1, <2>2, Cast DEF Goto, ProcessTyped
    <2>4. \A d \in Announcers : Speaks(d)' => Speaks(d) /\ item'[d] = item[d]
      BY <2>3 DEF Speaks
    <2>5. pc["shutdown"] # "exited"
      BY <2>1 DEF Voices, Mute, Speaks
    <2>6. pc'["shutdown"] # "exited"
      BY <2>3, <2>5 DEF Announcers
    <2>7. QED
      BY <1>5, <2>1, <2>4, <2>6 DEF Voices, Mute
  <1>8. CASE NewConnection
    <2>1. /\ pc' = [pc EXCEPT !["connect"] = IF Going THEN "announce" ELSE "idle"]
          /\ item' = [item EXCEPT !["connect"] = Empty] /\ UNCHANGED connected /\ pc["shutdown"] # "exited"
      BY <1>8 DEF NewConnection, Alive
    <2>2. pc'["connect"] \in {"idle", "announce"} /\ \A d \in Announcers \ {"connect"} : pc'[d] = pc[d] /\ item'[d] = item[d]
      BY <1>0, <2>1, Cast DEF ProcessTyped
    <2>3. \A d \in Announcers : Speaks(d)' => Speaks(d) /\ item'[d] = item[d]
      BY <2>2 DEF Speaks
    <2>4. pc'["shutdown"] # "exited"
      BY <2>1, <2>2 DEF Announcers
    <2>5. QED
      BY <1>5, <2>1, <2>3, <2>4 DEF Voices, Mute
  <1>9. CASE Restart
    <2>1. \A c \in Announcers : pc'[c] \in {"idle", "announce"}
      BY <1>9, Cast DEF Restart, Fresh
    <2>2. QED
      BY <2>1 DEF Voices, Mute, OneSpeaks, LevelSpoken, Speaks, Announcers
  <1>10. CASE Hushed
    <2>1. \A c \in Announcers : Speaks(c)' => Speaks(c) /\ item'[c] = item[c]
      BY <1>10 DEF Hushed, Speaks
    <2>2. OneSpeaks' /\ LevelSpoken'
      BY <1>5, <1>10, <2>1 DEF Hushed
    <2>3. ASSUME pc'["shutdown"] = "exited", NEW c \in Announcers PROVE ~(Speaks(c)')
      <3>1. CASE pc["shutdown"] = "exited"
        BY <2>1, <3>1 DEF Voices, Mute
      <3>2. CASE Exit
        <4>1. pc["shutdown"] = "closed" /\ pc["upstream"] = "idle" /\ pc["connect"] \notin {"send", "wait"}
          BY <3>2 DEF Exit
        <4>2. ~Speaks(c)
          BY <4>1 DEF Speaks, Announcers
        <4>3. QED
          BY <2>1, <4>2
      <3>3. QED
        BY <2>3, <3>1, <3>2, OnlyExitExits
    <2>4. QED
      BY <2>2, <2>3 DEF Voices, Mute
  <1>11. QED
    BY <1>2, <1>3, <1>4, <1>6, <1>7, <1>8, <1>9, <1>10, VoicesMove

-----------------------------------------------------------------------------
(* The level on its way, and shown.                                        *)

\* Whoever waits goes on waiting, with the same words, until it is answered or cut off.
LEMMA WaitersStay ==
  ASSUME Types, Runner, [Next]_vars, ~NewConnection, ~Restart,
         NEW c \in Announcers, pc[c] = "wait", ~AnnounceAnswered(c)
  PROVE  pc'[c] = "wait" /\ item'[c] = item[c]
  <1>0. ProcessTyped /\ c \in Callers
    BY Cast DEF Types
  <1>1. ASSUME NEW l \in {1, 2}, SetConnected(l) PROVE pc'[c] = "wait" /\ item'[c] = item[c]
    BY <1>0, <1>1, Cast DEF SetConnected, Announce, Goto, ProcessTyped
  <1>2. CASE AnnounceOnline \/ AnnounceOffline
    BY <1>0, <1>2, Cast DEF AnnounceOnline, AnnounceOffline, Announce, Goto, ProcessTyped
  <1>3. ASSUME NEW d \in Announcers, HandOver(d) PROVE pc'[c] = "wait" /\ item'[c] = item[c]
    BY <1>0, <1>3, Cast DEF HandOver, Goto, ProcessTyped
  <1>4. ASSUME NEW d \in Announcers, AnnounceAnswered(d) PROVE pc'[c] = "wait" /\ item'[c] = item[c]
    <2>1. d # c
      BY <1>4
    <2>2. Goto(d, After(d)) /\ item' = [item EXCEPT ![d] = Empty]
      BY <1>4 DEF AnnounceAnswered
    <2>3. QED
      BY <1>0, <2>1, <2>2, Cast DEF Goto, ProcessTyped
  <1>5. CASE Hushed
    BY <1>5 DEF Hushed
  <1>6. QED
    BY <1>1, <1>2, <1>3, <1>4, <1>5, VoicesMove

\* So does a level on the wire, unless the broker reads that one.
LEMMA StillOnTheWire ==
  ASSUME Types, Runner, Voices, LevelSent, [Next]_vars, ~NewConnection, ~Restart,
         NEW i \in 1..Len(wire), wire[i].topic = Status \/ wire[i].from \in Announcers, Read => i # 1
  PROVE  /\ wire[i].from \in Announcers /\ wire[i].topic = Status
         /\ pc'[wire[i].from] = "wait" /\ answer'[wire[i].from] = "sent" /\ wire[i].payload = item'[wire[i].from]
  <1>0. WireTyped /\ ProcessTyped /\ PlacesTyped
    BY DEF Types
  <1>1. PICK c \in Announcers : c = wire[i].from /\ wire[i].topic = Status /\ pc[c] = "wait" /\ answer[c] = "sent" /\ wire[i].payload = item[c]
    BY DEF LevelSent
  <1>2. ~AnnounceAnswered(c)
    BY <1>1 DEF AnnounceAnswered
  <1>3. pc'[c] = "wait" /\ item'[c] = item[c]
    BY <1>1, <1>2, WaitersStay
  <1>4. answer'[c] = "sent"
    <2>0. c \in Callers
      BY Cast
    <2>1. CASE UNCHANGED broker
      BY <1>1, <2>1 DEF broker
    <2>2. ASSUME NEW d \in Announcers, HandOver(d) PROVE answer'[c] = "sent"
      <3>1. d # c
        BY <1>1, <2>2 DEF HandOver
      <3>2. QED
        BY <1>0, <1>1, <2>0, <2>2, <3>1, Cast DEF HandOver, Send, Refuse, WireTyped
    <2>3. ASSUME NEW d \in Announcers, AnnounceAnswered(d) PROVE answer'[c] = "sent"
      <3>1. d # c
        BY <1>2, <2>3
      <3>2. QED
        BY <1>0, <1>1, <2>0, <2>3, <3>1, Cast DEF AnnounceAnswered, Answered, WireTyped
    <2>4. ASSUME NEW w \in Workers, Replay(w) \/ ReplayAnswered(w) PROVE answer'[c] = "sent"
      <3>1. w # c /\ w \in Callers
        BY Cast
      <3>2. PICK a : answer' = [answer EXCEPT ![w] = a]
        BY <2>4 DEF Replay, ReplayAnswered, Send, Refuse, Answered
      <3>3. QED
        BY <1>0, <1>1, <2>0, <3>1, <3>2 DEF WireTyped
    <2>5. CASE Read
      <3>1. BrokerReads /\ i # 1
        BY <2>5 DEF Read
      <3>2. answer' = [answer EXCEPT ![wire[1].from] = "accepted"] /\ 1 \in 1..Len(wire)
        BY <1>0, <3>1, ReadTakes
      <3>3. wire[1].from # c
        BY <1>1, <3>1, <3>2 DEF LevelSent
      <3>4. QED
        BY <1>0, <1>1, <2>0, <3>2, <3>3 DEF WireTyped
    <2>6. CASE HomeAssistant
      BY <1>1, <2>6 DEF HomeAssistant
    <2>7. QED
      BY <2>1, <2>2, <2>3, <2>4, <2>5, <2>6, BrokerMoves
  <1>5. QED
    BY <1>1, <1>3, <1>4

LEMMA LevelSentNext ==
  ASSUME Types, Runner, Voices, LevelSent, [Next]_vars
  PROVE  LevelSent'
  <1>0. WireTyped /\ ProcessTyped /\ PlacesTyped
    BY DEF Types
  <1>1. CASE NewConnection
    <2>1. wire' = <<>>
      BY <1>1 DEF NewConnection, Reconnect
    <2>2. QED
      BY <2>1 DEF LevelSent
  <1>2. CASE Restart
    <2>1. UNCHANGED wire /\ pc["shutdown"] = "exited"
      BY <1>2 DEF Restart
    <2>2. \A c \in Announcers : pc[c] # "wait"
      BY <2>1 DEF Voices, Mute, Speaks
    <2>3. \A i \in 1..Len(wire) : ~(wire[i].topic = Status \/ wire[i].from \in Announcers)
      BY <2>2 DEF LevelSent
    <2>4. QED
      BY <2>1, <2>3 DEF LevelSent
  <1>3. CASE ~NewConnection /\ ~Restart /\ wire' = wire /\ ~Read
    BY <1>3, StillOnTheWire DEF LevelSent
  <1>4. ASSUME ~NewConnection, ~Restart, NEW e, NEW n \in Nat, n = Len(wire), Len(wire') = n + 1, wire'[n + 1] = e,
               \A i \in 1..n : wire'[i] = wire[i], ~Read,
               e.topic = Status \/ e.from \in Announcers =>
                 /\ e.from \in Announcers /\ e.topic = Status
                 /\ pc'[e.from] = "wait" /\ answer'[e.from] = "sent" /\ e.payload = item'[e.from]
                 /\ \A i \in 1..n : wire[i].topic # Status
        PROVE  LevelSent'
    <2>1. \A i \in 1..Len(wire') : i \in 1..n \/ i = n + 1
      BY <1>4
    <2>2. ASSUME NEW i \in 1..Len(wire'), wire'[i].topic = Status \/ wire'[i].from \in Announcers
          PROVE  /\ wire'[i].from \in Announcers /\ wire'[i].topic = Status
                 /\ pc'[wire'[i].from] = "wait" /\ answer'[wire'[i].from] = "sent" /\ wire'[i].payload = item'[wire'[i].from]
      <3>1. CASE i \in 1..n
        <4>1. wire'[i] = wire[i] /\ i \in 1..Len(wire)
          BY <1>4, <3>1
        <4>2. wire[i].topic = Status \/ wire[i].from \in Announcers
          BY <2>2, <4>1
        <4>3. /\ wire[i].from \in Announcers /\ wire[i].topic = Status
              /\ pc'[wire[i].from] = "wait" /\ answer'[wire[i].from] = "sent" /\ wire[i].payload = item'[wire[i].from]
          BY <1>4, <4>1, <4>2, StillOnTheWire
        <4>4. QED
          BY <4>1, <4>3
      <3>2. CASE i = n + 1
        <4>1. wire'[i] = e
          BY <1>4, <3>2
        <4>2. QED
          BY <1>4, <2>2, <4>1
      <3>3. QED
        BY <2>1, <3>1, <3>2
    <2>3. ASSUME NEW i \in 1..Len(wire'), NEW j \in 1..Len(wire'), wire'[i].topic = Status, wire'[j].topic = Status
          PROVE  i = j
      <3>1. CASE i \in 1..n /\ j \in 1..n
        BY <1>4, <2>3, <3>1 DEF LevelSent
      <3>2. CASE i = n + 1 /\ j = n + 1
        BY <3>2
      <3>3. CASE (i = n + 1 /\ j \in 1..n) \/ (j = n + 1 /\ i \in 1..n)
        <4>1. e.topic = Status
          BY <1>4, <2>3, <3>3
        <4>2. \A k \in 1..n : wire'[k].topic # Status
          BY <1>4, <4>1
        <4>3. QED
          BY <2>3, <3>3, <4>2
      <3>4. QED
        BY <2>1, <3>1, <3>2, <3>3
    <2>4. QED
      BY <2>2, <2>3 DEF LevelSent
  <1>5. ASSUME NEW c \in Announcers, HandOver(c), ~NewConnection, ~Restart, ~Read PROVE LevelSent'
    <2>1. (Send(c, Status, item[c], 1, TRUE) \/ Refuse(c)) /\ c \in Callers /\ pc[c] = "send" /\ UNCHANGED item /\ Goto(c, "wait")
      BY <1>5, Cast DEF HandOver
    <2>2. item[c] \in Said \cup {"config"} /\ Status \in Configs \cup {Status}
      BY <1>0 DEF PlacesTyped
    <2>3. CASE wire' = wire
      BY <1>3, <1>5, <2>3
    <2>4. CASE wire' # wire
      <3>1. PICK e : e = [from |-> c, topic |-> Status, payload |-> item[c], retain |-> TRUE]
        OBVIOUS
      <3>2. /\ answer'[c] = "sent" /\ Len(wire) \in Nat /\ Len(wire') = Len(wire) + 1
            /\ wire'[Len(wire) + 1] = e /\ \A i \in 1..Len(wire) : wire'[i] = wire[i]
        BY <1>0, <2>1, <2>2, <2>4, <3>1, SendAdds
      <3>3. pc'[c] = "wait" /\ item'[c] = item[c]
        BY <1>0, <2>1 DEF Goto, ProcessTyped
      <3>4. \A i \in 1..Len(wire) : wire[i].topic # Status
        <4>1. SUFFICES ASSUME NEW i \in 1..Len(wire), wire[i].topic = Status PROVE FALSE
          OBVIOUS
        <4>2. wire[i].from \in Announcers /\ pc[wire[i].from] = "wait"
          BY <4>1 DEF LevelSent
        <4>3. wire[i].from = c
          BY <2>1, <4>2 DEF Voices, OneSpeaks, Speaks
        <4>4. QED
          BY <2>1, <4>2, <4>3
      <3>5. e.from = c /\ e.topic = Status /\ e.payload = item[c]
        BY <3>1
      <3>6. PICK n \in Nat : n = Len(wire)
        BY <3>2
      <3>7. QED
        BY <1>4, <1>5, <3>2, <3>3, <3>4, <3>5, <3>6
    <2>5. QED
      BY <2>3, <2>4
  <1>6. ASSUME NEW w \in Workers, Replay(w), ~NewConnection, ~Restart, ~Read PROVE LevelSent'
    <2>1. PICK t \in item[w] : Send(w, t, "config", 1, TRUE) \/ Refuse(w)
      BY <1>6 DEF Replay
    <2>2. t \in Configs \cup {Status} /\ w \in Callers /\ t # Status /\ w \notin Announcers
      BY <1>0, <1>6, <2>1, Cast DEF PlacesTyped
    <2>3. CASE wire' = wire
      BY <1>3, <1>6, <2>3
    <2>4. CASE wire' # wire
      <3>1. PICK e : e = [from |-> w, topic |-> t, payload |-> "config", retain |-> TRUE]
        OBVIOUS
      <3>2. /\ Len(wire) \in Nat /\ Len(wire') = Len(wire) + 1
            /\ wire'[Len(wire) + 1] = e /\ \A i \in 1..Len(wire) : wire'[i] = wire[i]
        BY <1>0, <2>1, <2>2, <2>4, <3>1, SendAdds
      <3>3. e.from = w /\ e.topic = t
        BY <3>1
      <3>4. ~(e.topic = Status \/ e.from \in Announcers)
        BY <2>2, <3>3
      <3>5. PICK n \in Nat : n = Len(wire)
        BY <3>2
      <3>6. QED
        BY <1>4, <1>6, <3>2, <3>4, <3>5
    <2>5. QED
      BY <2>3, <2>4
  <1>7. CASE Read /\ ~NewConnection /\ ~Restart
    <2>1. BrokerReads
      BY <1>7 DEF Read
    <2>2. Len(wire) \in Nat \ {0} /\ Len(wire') = Len(wire) - 1 /\ \A i \in 1..Len(wire') : wire'[i] = wire[i + 1]
      BY <1>0, <2>1, ReadTakes
    <2>3. \A i \in 1..Len(wire') : i + 1 \in 1..Len(wire) /\ i + 1 # 1
      BY <2>2
    <2>4. ASSUME NEW i \in 1..Len(wire'), wire'[i].topic = Status \/ wire'[i].from \in Announcers
          PROVE  /\ wire'[i].from \in Announcers /\ wire'[i].topic = Status
                 /\ pc'[wire'[i].from] = "wait" /\ answer'[wire'[i].from] = "sent" /\ wire'[i].payload = item'[wire'[i].from]
      <3>1. PICK k \in 1..Len(wire) : k = i + 1 /\ k # 1
        BY <2>3
      <3>2. wire'[i] = wire[k]
        BY <2>2, <3>1
      <3>3. wire[k].topic = Status \/ wire[k].from \in Announcers
        BY <2>4, <3>2
      <3>4. QED
        BY <1>7, <3>1, <3>2, <3>3, StillOnTheWire
    <2>5. ASSUME NEW i \in 1..Len(wire'), NEW j \in 1..Len(wire'), wire'[i].topic = Status, wire'[j].topic = Status
          PROVE  i = j
      <3>1. wire[i + 1].topic = Status /\ wire[j + 1].topic = Status /\ i + 1 \in 1..Len(wire) /\ j + 1 \in 1..Len(wire)
        BY <2>2, <2>3, <2>5
      <3>2. i + 1 = j + 1
        BY <3>1 DEF LevelSent
      <3>3. QED
        BY <2>2, <3>2
    <2>6. QED
      BY <2>4, <2>5 DEF LevelSent
  <1>8. CASE ~Read /\ UNCHANGED broker /\ ~NewConnection /\ ~Restart
    BY <1>3, <1>8 DEF broker
  <1>9. ASSUME NEW c, AnnounceAnswered(c) \/ (c \in Workers /\ ReplayAnswered(c)) \/ HomeAssistant,
               ~Read, ~NewConnection, ~Restart
        PROVE  LevelSent'
    BY <1>3, <1>9 DEF AnnounceAnswered, ReplayAnswered, HomeAssistant
  <1>10. QED
    BY <1>1, <1>2, <1>5, <1>6, <1>7, <1>8, <1>9, BrokerMoves

LEMMA GoingComesBack ==
  ASSUME Types, Runner, [Next]_vars, Going', ~Restart
  PROVE  Going
  <1>0. pc'["shutdown"] = "idle" /\ ProcessTyped
    BY DEF Going, Types
  <1>1. CASE WatchBirth
    BY <1>1 DEF WatchBirth
  <1>2. CASE Close \/ Drained \/ Exit
    BY <1>0, <1>2, Cast DEF Close, Drained, Exit, Goto, ProcessTyped
  <1>3. QED
    BY <1>0, <1>1, <1>2, ShutdownMoves DEF Going

LEMMA LevelKnownNext ==
  ASSUME OneAnnouncer = TRUE, Types, Runner, Voices, LevelSent, LevelKnown, [Next]_vars
  PROVE  LevelKnown'
  <1>0. WireTyped /\ ProcessTyped /\ PlacesTyped /\ Voices'
    BY VoicesNext DEF Types
  <1>1. ASSUME NEW c \in Announcers, Alone(c), Goto(c, "send"), \A d \in Announcers \ {c} : item'[d] = item[d],
               UNCHANGED <<retained, answer, told>>
        PROVE  LevelKnown'
    <2>1. pc'[c] = "send" /\ \A d \in Announcers \ {c} : pc'[d] # "wait"
      BY <1>0, <1>1, Cast DEF Goto, ProcessTyped, Alone, Voices, OneSpeaks, Speaks
    <2>2. Speaks(c)'
      BY <2>1 DEF Speaks
    <2>3. \A d \in Announcers : pc'[d] # "wait"
      BY <2>1
    <2>4. QED
      BY <1>1, <2>2, <2>3 DEF LevelKnown
  <1>2. ASSUME NEW l \in {1, 2}, SetConnected(l) PROVE LevelKnown'
    <2>1. item' = [item EXCEPT !["upstream"] = Level(l)]
      BY <1>2 DEF SetConnected, Announce
    <2>2. "upstream" \in Announcers /\ \A d \in Announcers \ {"upstream"} : item'[d] = item[d]
      BY <1>0, <2>1, Cast DEF ProcessTyped, Announcers
    <2>3. Alone("upstream") /\ Goto("upstream", "send") /\ UNCHANGED <<retained, answer, told>>
      BY <1>2 DEF SetConnected, Announce, broker, history
    <2>4. QED
      BY <1>1, <2>2, <2>3
  <1>3. CASE AnnounceOnline
    <2>1. item' = [item EXCEPT !["connect"] = Level(connected)]
      BY <1>3 DEF AnnounceOnline, Announce
    <2>2. "connect" \in Announcers /\ \A d \in Announcers \ {"connect"} : item'[d] = item[d]
      BY <1>0, <2>1, Cast DEF ProcessTyped, Announcers
    <2>3. Alone("connect") /\ Goto("connect", "send") /\ UNCHANGED <<retained, answer, told>>
      BY <1>3 DEF AnnounceOnline, Announce, broker, history
    <2>4. QED
      BY <1>1, <2>2, <2>3
  <1>4. CASE AnnounceOffline
    <2>1. item' = [item EXCEPT !["shutdown"] = Down]
      BY <1>4 DEF AnnounceOffline, Announce
    <2>2. "shutdown" \in Announcers /\ \A d \in Announcers \ {"shutdown"} : item'[d] = item[d]
      BY <1>0, <2>1, Cast DEF ProcessTyped, Announcers
    <2>3. Alone("shutdown") /\ Goto("shutdown", "send") /\ UNCHANGED <<retained, answer, told>>
      BY <1>4 DEF AnnounceOffline, Announce, broker, history
    <2>4. QED
      BY <1>1, <2>2, <2>3
  <1>5. ASSUME NEW c \in Announcers, HandOver(c) PROVE LevelKnown'
    <2>1. told' = "under way" /\ Goto(c, "wait") /\ (Send(c, Status, item[c], 1, TRUE) \/ Refuse(c)) /\ c \in Callers
      BY <1>5, Cast DEF HandOver
    <2>2. pc'[c] = "wait"
      BY <1>0, <2>1 DEF Goto, ProcessTyped
    <2>3. answer'[c] # "accepted"
      <3>1. CASE Send(c, Status, item[c], 1, TRUE)
        <4>1. answer' = [answer EXCEPT ![c] = "sent"]
          BY <3>1 DEF Send
        <4>2. QED
          BY <1>0, <2>1, <4>1 DEF WireTyped
      <3>2. CASE Refuse(c)
        BY <1>0, <2>1, <3>2 DEF Refuse, WireTyped
      <3>3. QED
        BY <2>1, <3>1, <3>2
    <2>4. \A d \in Announcers : pc'[d] = "wait" => d = c
      BY <1>0, <2>2 DEF Voices, OneSpeaks, Speaks
    <2>5. QED
      BY <2>1, <2>3, <2>4 DEF LevelKnown
  <1>6. ASSUME NEW c \in Announcers, AnnounceAnswered(c) PROVE LevelKnown'
    <2>1. /\ pc[c] = "wait" /\ Goto(c, After(c)) /\ UNCHANGED <<retained, connected>> /\ c \in Callers
          /\ told' = IF answer[c] = "accepted" /\ told # None THEN item[c] ELSE None
      BY <1>6, Cast DEF AnnounceAnswered
    <2>2. pc'[c] = After(c) /\ \A d \in Announcers \ {c} : pc'[d] = pc[d]
      BY <1>0, <2>1, Cast DEF Goto, ProcessTyped
    <2>3. After(c) # "wait" /\ (c = "shutdown" => After(c) = "close")
      BY DEF After, Announcers
    <2>4. \A d \in Announcers : pc'[d] # "wait"
      BY <2>1, <2>2, <2>3 DEF Voices, OneSpeaks, Speaks
    <2>5. told' \notin {None, "under way"} => told' = item[c] /\ retained'[Status] = told'
      BY <2>1 DEF LevelKnown
    <2>6. told' \notin {None, "under way"} /\ Going' => told' = Level(connected')
      <3>1. SUFFICES ASSUME told' \notin {None, "under way"}, Going' PROVE told' = Level(connected')
        OBVIOUS
      <3>2. c # "shutdown"
        BY <2>2, <2>3, <3>1 DEF Going
      <3>3. item[c] = Level(connected)
        BY <2>1, <3>2 DEF Voices, LevelSpoken, Speaks, Announcers
      <3>4. QED
        BY <2>1, <2>5, <3>1, <3>3
    <2>7. QED
      BY <2>4, <2>5, <2>6 DEF LevelKnown
  <1>7. CASE NewConnection \/ Restart
    <2>1. told' = None
      BY <1>7 DEF NewConnection, Restart
    <2>2. QED
      BY <2>1 DEF LevelKnown
  <1>8. CASE Hushed /\ ~NewConnection /\ ~Restart /\ ~(\E c \in Announcers : HandOver(c) \/ AnnounceAnswered(c))
    <2>1. \A c \in Announcers : /\ pc'[c] = "wait" <=> pc[c] = "wait"
                                /\ Speaks(c) => Speaks(c)'
                                /\ item'[c] = item[c]
      BY <1>8 DEF Hushed, Speaks
    <2>2. UNCHANGED <<connected, told>>
      BY <1>8 DEF Hushed
    <2>3. \/ /\ retained'[Status] = retained[Status]
             /\ \A c \in Announcers : answer'[c] = answer[c]
          \/ \E c \in Announcers :
               /\ pc[c] = "wait" /\ retained'[Status] = item[c]
      <3>1. CASE UNCHANGED broker
        BY <3>1 DEF broker
      <3>2. ASSUME NEW w \in Workers, Replay(w) \/ ReplayAnswered(w)
            PROVE  retained'[Status] = retained[Status] /\ \A c \in Announcers : answer'[c] = answer[c]
        <4>1. PICK a : answer' = [answer EXCEPT ![w] = a]
          BY <3>2 DEF Replay, ReplayAnswered, Send, Refuse, Answered
        <4>2. UNCHANGED retained
          BY <3>2 DEF Replay, ReplayAnswered, Send, Refuse
        <4>3. QED
          BY <1>0, <4>1, <4>2, Cast DEF WireTyped
      <3>3. CASE HomeAssistant
        <4>1. UNCHANGED answer /\ retained' = [retained EXCEPT ![Birth] = Word(~ha.up)]
          BY <3>3 DEF HomeAssistant
        <4>2. QED
          BY <1>0, <4>1, Cast DEF WireTyped
      <3>4. CASE Read
        <4>1. BrokerReads
          BY <3>4 DEF Read
        <4>2. /\ Len(wire) \in Nat \ {0} /\ wire[1] \in Envelopes
              /\ answer' = [answer EXCEPT ![wire[1].from] = "accepted"]
              /\ retained' = [retained EXCEPT ![wire[1].topic] = wire[1].payload]
          BY <1>0, <4>1, ReadTakes
        <4>3. 1 \in 1..Len(wire)
          BY <4>2
        <4>4. PICK f \in Callers, t \in Topics : f = wire[1].from /\ t = wire[1].topic
          BY <4>2, Cast DEF Envelopes
        <4>5. CASE t = Status \/ f \in Announcers
          <5>1. f \in Announcers /\ t = Status /\ pc[f] = "wait" /\ wire[1].payload = item[f]
            BY <4>3, <4>4, <4>5 DEF LevelSent
          <5>2. retained'[Status] = item[f]
            BY <1>0, <4>2, <4>4, <5>1 DEF WireTyped
          <5>3. QED
            BY <5>1, <5>2
        <4>6. CASE ~(t = Status \/ f \in Announcers)
          BY <1>0, <4>2, <4>4, <4>6, Cast DEF WireTyped
        <4>7. QED
          BY <4>5, <4>6
      <3>5. QED
        BY <1>8, <3>1, <3>2, <3>3, <3>4, BrokerMoves
    <2>4. \A c \in Announcers : pc'[c] = "wait" => told' \in {None, "under way"}
      BY <2>1, <2>2 DEF LevelKnown
    <2>5. \A c \in Announcers : pc'[c] = "wait" /\ answer'[c] = "accepted" /\ told' # None => retained'[Status] = item'[c]
      BY <2>1, <2>2, <2>3 DEF LevelKnown, Voices, OneSpeaks, Speaks
    <2>6. told' \notin {None, "under way"} => retained'[Status] = told'
      BY <2>2, <2>3 DEF LevelKnown
    <2>7. told' \notin {None, "under way"} /\ Going' => told' = Level(connected') \/ \E c \in Announcers : Speaks(c)'
      BY <1>8, <2>1, <2>2, GoingComesBack DEF LevelKnown
    <2>8. QED
      BY <2>4, <2>5, <2>6, <2>7 DEF LevelKnown
  <1>9. QED
    BY <1>2, <1>3, <1>4, <1>5, <1>6, <1>7, <1>8, VoicesMove

LEMMA LevelShownThen == LevelKnown => LevelShown
  <1> SUFFICES ASSUME LevelKnown, told \notin {None, "under way"}, \A c \in Announcers : pc[c] \notin {"announce", "send", "wait"}
               PROVE  retained[Status] = IF Going THEN Level(connected) ELSE told
    BY DEF LevelShown
  <1>1. retained[Status] = told
    BY DEF LevelKnown
  <1>2. Going => told = Level(connected)
    BY DEF LevelKnown, Speaks
  <1>3. QED
    BY <1>1, <1>2

-----------------------------------------------------------------------------
(* The theorems.                                                           *)

LEMMA Begins == Init => Types /\ Runner /\ Shut /\ Deaf /\ Asked /\ Voices /\ LevelSent /\ LevelKnown
  <1> SUFFICES ASSUME Init PROVE Types /\ Runner /\ Shut /\ Deaf /\ Asked /\ Voices /\ LevelSent /\ LevelKnown
    OBVIOUS
  <1>1. Types
    BY TypesInit
  <1>2. \A c \in Callers : pc[c] \in {"idle", "announce"} /\ (c # "connect" => pc[c] = "idle")
    BY DEF Init
  <1>3. \A w \in Workers : pc[w] = "idle"
    BY <1>2, Cast DEF Announcers
  <1>4. Runner /\ Shut
    BY <1>2, <1>3, Cast DEF Init, NoDispatcher, Runner, Shut
  <1>5. Deaf
    BY <1>2, Cast DEF Deaf
  <1>6. Asked
    BY <1>2, Cast DEF Init, Asked, Going
  <1>7. Voices
    BY <1>2, Cast DEF Voices, Mute, OneSpeaks, LevelSpoken, Speaks, Announcers
  <1>8. LevelSent
    BY DEF Init, BrokerInit, LevelSent
  <1>9. LevelKnown
    BY DEF Init, LevelKnown
  <1>10. QED
    BY <1>1, <1>4, <1>5, <1>6, <1>7, <1>8, <1>9

\* Exactly one goroutine of the dispatcher runs while running is set and none otherwise,
\* and none once Close has returned: for any number of workers, of boots and of lives
\* (birth.go:245-307).
THEOREM OneWorkerAtATime == Spec => []OneWorker
  <1>1. Init => Types /\ Runner /\ Shut
    BY Begins
  <1>2. Types /\ Runner /\ Shut /\ [Next]_vars => (Types /\ Runner /\ Shut)'
    BY TypesNext, RunnerNext, ShutNext
  <1>3. Types /\ Runner /\ Shut => OneWorker
    BY OneWorkerThen
  <1>4. QED
    BY <1>1, <1>2, <1>3, PTL DEF Spec

\* No process starts again without a live command of its own, whatever was retained on
\* the command topic and however often it was replayed (instance.go:257-264).
THEOREM EveryRestartWasAsked == Spec => []RestartsWereAsked
  <1> DEFINE IInv == Types /\ Runner /\ Deaf /\ Asked
  <1>1. Init => IInv
    BY Begins
  <1>2. IInv /\ [Next]_vars => IInv'
    BY TypesNext, RunnerNext, DeafNext, AskedNext
  <1>3. IInv => RestartsWereAsked
    BY DEF Types, CountersTyped, Asked, RestartsWereAsked
  <1>4. QED
    BY <1>1, <1>2, <1>3, PTL DEF Spec

\* The retained level is the one Connected reports whenever the last announcement was
\* accepted and none is owed, for callers that keep the contract and do not overlap two
\* announcements (birth.go:108-121, 151-159).
THEOREM TheLevelIsShown ==
  ASSUME OneAnnouncer = TRUE
  PROVE  Spec => []LevelShown
  <1> DEFINE IInv == Types /\ Runner /\ Voices /\ LevelSent /\ LevelKnown
  <1>1. Init => IInv
    BY Begins
  <1>2. IInv /\ [Next]_vars => IInv'
    BY TypesNext, RunnerNext, VoicesNext, LevelSentNext, LevelKnownNext
  <1>3. IInv => LevelShown
    BY LevelShownThen
  <1>4. QED
    BY <1>1, <1>2, <1>3, PTL DEF Spec
=============================================================================
