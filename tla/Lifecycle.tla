------------------------------ MODULE Lifecycle ------------------------------
(* The life of one adapter around its publishers (src/publisher/birth.go,    *)
(* src/publisher/instance.go): the level it announces and the will that      *)
(* takes it back, the watch on Home Assistant's birth with the dispatcher    *)
(* that replays off the read loop, the maintenance commands, the shutdown.   *)
(* The acknowledgement of a publish is delivered by the read loop, so it     *)
(* reaches nobody while the loop is inside a handler.                        *)
EXTENDS RetainedBroker

CONSTANTS
  Workers,              \* identities for the dispatcher's goroutines
  Configs,              \* what Republish sends
  Smart,                \* Config.Layout is a SmartHomeLayout
  Supervised,           \* InstanceConfig.Supervised
  OneAnnouncer,         \* the caller contract: announcements do not overlap
  MaxBoots, MaxLives, MaxAsks, MaxMoves, MaxInbox   \* bounds

Status == "status"      \* Config.StatusTopic
Birth  == "birth"       \* BirthTopic: Home Assistant's own
Announcers == {"upstream", "connect", "shutdown"}

ASSUME LifecycleAssumption ==
  /\ Callers = Announcers \cup Workers /\ Topics = Configs \cup {Status, Birth}
  /\ Announcers \cap Workers = {} /\ Workers # {} /\ Configs \cap {Status, Birth} = {} /\ Configs # {}
  /\ {Smart, Supervised, OneAnnouncer} \subseteq BOOLEAN
  /\ {MaxBoots, MaxLives, MaxAsks, MaxMoves, MaxInbox} \subseteq Nat

VARIABLES
  connected,  \* Runtime.connected
  pc, item,   \* caller -> where it is, and the payload or the topics it has left
  birth,      \* Runtime.birth: the dispatcher, once a watch made it
  subscribed, \* topics this connection is subscribed to
  inbox, loop,\* what the broker has sent; the message the read loop's handler has
  jobs, handler, \* the router's queue of maintenance commands, and its worker
  ha,         \* Home Assistant: boots so far, and whether it is up
  asks, moves,   \* commands published and levels moved: counters, for the bounds
  \* history
  base,       \* worker -> Home Assistant's boots when its replay copied the configs
  served,     \* the latest boot a finished replay started after
  told,       \* what the last announcement sent and answered on this connection said
  lives, drained  \* processes so far; whether this one's Close returned

process == <<connected, pc, item, birth, jobs, handler>>
network == <<subscribed, inbox, loop>>
outside == <<ha, asks, moves>>
history == <<base, served, told, lives, drained>>
vars    == <<broker, process, network, outside, history>>

NoDispatcher == [made |-> FALSE, pending |-> FALSE, running |-> FALSE, closed |-> FALSE]

\* deathPayload, and what announces a level.
Down      == IF Smart THEN "0" ELSE "offline"
Level(l)  == IF ~Smart THEN "online" ELSE IF l = 2 THEN "2" ELSE "1"

Fresh ==
  /\ connected' = 1 /\ birth' = NoDispatcher
  /\ pc' = [c \in Callers |-> IF c = "connect" THEN "announce" ELSE "idle"]
  /\ item' = [c \in Callers |-> IF c \in Workers THEN {} ELSE Empty]
  /\ jobs' = <<>> /\ handler' = "idle"

\* New: a process that has just connected for the first time.
Init ==
  /\ BrokerInit([t \in Topics |-> Empty])
  /\ connected = 1 /\ birth = NoDispatcher
  /\ pc = [c \in Callers |-> IF c = "connect" THEN "announce" ELSE "idle"]
  /\ item = [c \in Callers |-> IF c \in Workers THEN {} ELSE Empty]
  /\ jobs = <<>> /\ handler = "idle" /\ subscribed = {} /\ inbox = <<>> /\ loop = None
  /\ ha = [boots |-> 0, up |-> FALSE] /\ asks = 0 /\ moves = 0
  /\ base = [w \in Workers |-> 0] /\ served = 0 /\ told = None
  /\ lives = 1 /\ drained = FALSE
-----------------------------------------------------------------------------
(* Announcements.                                                            *)

Goto(c, p) == pc' = [pc EXCEPT ![c] = p]
Alive      == pc["shutdown"] # "exited"
Going      == pc["shutdown"] = "idle"
Alone(c)   == OneAnnouncer => \A d \in Announcers \ {c} : pc[d] \notin {"send", "wait"}

Announce(c, p) ==
  /\ item' = [item EXCEPT ![c] = p]
  /\ Goto(c, "send")

\* SetConnected: stored under mu, a repeat publishes nothing.
SetConnected(l) ==
  /\ Smart /\ Going /\ pc["upstream"] = "idle" /\ moves < MaxMoves /\ Alone("upstream")
  /\ l # connected
  /\ connected' = l /\ moves' = moves + 1
  /\ Announce("upstream", Level(l))
  /\ UNCHANGED <<broker, birth, jobs, handler, network, ha, asks, history>>

\* Mutant of AnnounceOnline: a new connection starts from the broker level.
AnnounceOnlineAtBroker ==
  /\ Going /\ pc["connect"] = "announce" /\ Alone("connect")
  /\ Announce("connect", Level(1))
  /\ UNCHANGED <<broker, connected, birth, jobs, handler, network, outside, history>>

\* AnnounceOnline, first of what a connection owes: the level is read under mu.
AnnounceOnline ==
  /\ Going /\ pc["connect"] = "announce" /\ Alone("connect")
  /\ Announce("connect", Level(connected))
  /\ UNCHANGED <<broker, connected, birth, jobs, handler, network, outside, history>>

\* AnnounceOffline, once the router is stopped.
AnnounceOffline ==
  /\ pc["shutdown"] = "announce" /\ Alone("shutdown")
  /\ Announce("shutdown", Down)
  /\ UNCHANGED <<broker, connected, birth, jobs, handler, network, outside, history>>

HandOver(c) ==
  /\ pc[c] = "send" /\ c \in Announcers
  /\ Send(c, Status, item[c], 1, TRUE) \/ Refuse(c)
  /\ Goto(c, "wait") /\ told' = "under way"
  /\ UNCHANGED <<connected, item, birth, jobs, handler, network, outside,
                 base, served, lives, drained>>

\* Its answer: what comes next for each caller, an error or not.
After(c) == CASE c = "upstream" -> "idle" [] c = "connect" -> "watch" [] c = "shutdown" -> "close"
AnnounceAnswered(c) ==
  /\ c \in Announcers /\ pc[c] = "wait" /\ answer[c] \in {"accepted", "failed"}
  /\ told' = IF answer[c] = "accepted" /\ told # None THEN item[c] ELSE None
  /\ Answered(c) /\ Goto(c, After(c)) /\ item' = [item EXCEPT ![c] = Empty]
  /\ UNCHANGED <<retained, wire, connection, connected, birth, jobs, handler,
                 network, outside, base, served, lives, drained>>
-----------------------------------------------------------------------------
(* The watch and its dispatcher.                                             *)

\* What a SUBSCRIBE adds: the retained births and commands are replayed.
Subscribed ==
  inbox \o (IF retained[Birth] = Empty THEN <<>>
            ELSE <<[kind |-> "birth", up |-> retained[Birth] = "online", retained |-> TRUE]>>)
        \o (IF asks > 0 THEN <<[kind |-> "restart", up |-> FALSE, retained |-> TRUE]>> ELSE <<>>)

\* WatchBirth, with the router's Start or Resubscribe beside it.
WatchBirth ==
  /\ Going /\ pc["connect"] = "watch" /\ loop = None
  /\ birth' = [birth EXCEPT !.made = TRUE]
  /\ subscribed' = {"birth", "restart"} /\ inbox' = Subscribed
  /\ Goto("connect", "idle")
  /\ UNCHANGED <<broker, connected, item, jobs, handler, loop, outside,
                 base, served, told, lives, drained>>

\* The read loop takes a message and is in its handler until the handler returns.
Deliver ==
  /\ Alive /\ loop = None /\ inbox # <<>>
  /\ loop' = Head(inbox) /\ inbox' = Tail(inbox)
  /\ UNCHANGED <<broker, process, subscribed, outside, history>>

\* The watch's handler: an offline is nothing to do; enqueue drops, replaces or starts.
Enqueue ==
  IF ~loop.up \/ birth.closed THEN UNCHANGED <<birth, pc>>
  ELSE /\ birth' = [birth EXCEPT !.pending = TRUE, !.running = TRUE]
       /\ IF birth.running THEN UNCHANGED pc
          ELSE Goto(CHOOSE w \in Workers : pc[w] = "idle", "take")

\* Mutant of HandleBirth: the replay runs in the handler.
HandleBirthInline ==
  /\ Alive /\ loop # None /\ loop.kind = "birth"
  /\ ~birth.running => Enqueue
  /\ birth.running => UNCHANGED <<birth, pc>>
  /\ loop' = IF loop.up /\ ~birth.closed THEN loop ELSE None
  /\ UNCHANGED <<broker, connected, item, jobs, handler, subscribed, inbox, outside, history>>

HandleBirth ==
  /\ Alive /\ loop # None /\ loop.kind = "birth"
  /\ Enqueue /\ loop' = None
  /\ UNCHANGED <<broker, connected, item, jobs, handler, subscribed, inbox, outside, history>>

\* Mutant of Take: a job that arrives while the worker leaves is left behind.
TakeForgetsToLeave(w) ==
  /\ pc[w] = "take"
  /\ birth' = [birth EXCEPT !.pending = FALSE]
  /\ Goto(w, IF birth.pending THEN "copy" ELSE "idle")
  /\ UNCHANGED <<broker, connected, item, jobs, handler, network, outside, history>>

\* dispatcher.run, its section: the pending job, or none and the worker leaves.
Take(w) ==
  /\ pc[w] = "take"
  /\ birth' = [birth EXCEPT !.pending = FALSE, !.running = @ /\ birth.pending]
  /\ Goto(w, IF birth.pending THEN "copy" ELSE "idle")
  /\ UNCHANGED <<broker, connected, item, jobs, handler, network, outside, history>>

\* Republish: the copy, one publish at a time past any error, then OnResync.
Copy(w) ==
  /\ pc[w] = "copy"
  /\ item' = [item EXCEPT ![w] = Configs] /\ base' = [base EXCEPT ![w] = ha.boots]
  /\ Goto(w, "walk")
  /\ UNCHANGED <<broker, connected, birth, jobs, handler, network, outside,
                 served, told, lives, drained>>

Replay(w) ==
  /\ pc[w] = "walk"
  /\ \E t \in item[w] :
       /\ Send(w, t, "config", 1, TRUE) \/ Refuse(w)
       /\ item' = [item EXCEPT ![w] = @ \ {t}]
  /\ Goto(w, "wait")
  /\ UNCHANGED <<connected, birth, jobs, handler, network, outside, history>>

ReplayAnswered(w) ==
  /\ w \in Workers /\ pc[w] = "wait" /\ answer[w] \in {"accepted", "failed"}
  /\ Answered(w) /\ Goto(w, "walk")
  /\ UNCHANGED <<retained, wire, connection, connected, item, birth, jobs, handler,
                 network, outside, history>>

\* The walk is done: OnResync.
Resync(w) ==
  /\ pc[w] = "walk" /\ item[w] = {}
  /\ served' = IF base[w] > served THEN base[w] ELSE served
  /\ base' = [base EXCEPT ![w] = 0] /\ Goto(w, "take")
  /\ UNCHANGED <<broker, connected, item, birth, jobs, handler, network, outside,
                 told, lives, drained>>
-----------------------------------------------------------------------------
(* Maintenance, and the way down.                                            *)

\* CommandRouter's delivery: the read loop only queues.
QueueCommand ==
  /\ Alive /\ loop # None /\ loop.kind = "restart"
  /\ jobs' = IF Going THEN Append(jobs, loop.retained) ELSE jobs
  /\ loop' = None
  /\ UNCHANGED <<broker, connected, pc, item, birth, handler, subscribed, inbox, outside, history>>

\* Mutant of Acted: a retained command is taken like a live one.
ActedAnyway(retainedCopy) == Supervised

\* handleMaintenance, restart: what a command has to pass.
Acted(retainedCopy) == ~retainedCopy /\ Supervised

\* Mutant of Maintain: Shutdown runs in the handler.
MaintainInline ==
  /\ Alive /\ handler = "idle" /\ jobs # <<>>
  /\ jobs' = Tail(jobs)
  /\ IF Acted(Head(jobs)) THEN Goto("shutdown", IF Going THEN "stop" ELSE pc["shutdown"]) ELSE UNCHANGED pc
  /\ handler' = IF Acted(Head(jobs)) THEN "shutdown" ELSE "idle"
  /\ UNCHANGED <<broker, connected, item, birth, network, outside, history>>

\* handleMaintenance on a worker: restart starts Shutdown, latched, on a goroutine.
Maintain ==
  /\ Alive /\ handler = "idle" /\ jobs # <<>>
  /\ jobs' = Tail(jobs) /\ handler' = "busy"
  /\ IF Acted(Head(jobs)) /\ Going THEN Goto("shutdown", "stop") ELSE UNCHANGED pc
  /\ UNCHANGED <<broker, connected, item, birth, network, outside, history>>

HandlerReturns ==
  /\ handler = "busy" /\ handler' = "idle"
  /\ UNCHANGED <<broker, connected, pc, item, birth, jobs, network, outside, history>>

\* CommandRouter.Stop, the first thing a shutdown does: it waits for its handlers.
StopRouter ==
  /\ pc["shutdown"] = "stop" /\ jobs = <<>> /\ handler = "idle"
  /\ subscribed' = subscribed \ {"restart"} /\ Goto("shutdown", "announce")
  /\ UNCHANGED <<broker, connected, item, birth, jobs, handler, inbox, loop, outside, history>>

\* Close: no births from here on.
Close ==
  /\ pc["shutdown"] = "close" /\ Goto("shutdown", "drain")
  /\ birth' = [birth EXCEPT !.closed = birth.made]
  /\ UNCHANGED <<broker, connected, item, jobs, handler, network, outside, history>>

\* Close: idle.Wait.
Drained ==
  /\ pc["shutdown"] = "drain" /\ \A w \in Workers : pc[w] = "idle"
  /\ Goto("shutdown", "closed") /\ drained' = TRUE
  /\ UNCHANGED <<broker, connected, item, birth, jobs, handler, network, outside,
                 base, served, told, lives>>

Exit ==
  /\ pc["shutdown"] = "closed" /\ pc["upstream"] = "idle"
  /\ pc["connect"] \notin {"send", "wait"} /\ Goto("shutdown", "exited")
  /\ subscribed' = {} /\ inbox' = <<>> /\ loop' = None
  /\ UNCHANGED <<broker, connected, item, birth, jobs, handler, outside, history>>
-----------------------------------------------------------------------------
(* The outside: the broker, Home Assistant, operators, the supervisor.       *)

\* The broker reads a publish; its acknowledgement is the read loop's to deliver.
Read ==
  /\ loop = None /\ BrokerReads
  /\ UNCHANGED <<process, network, outside, history>>

\* The will goes out, the broker or its network comes back, the handler runs anew.
NewConnection ==
  /\ Alive
  /\ Reconnect(FALSE, [retained EXCEPT ![Status] = Down])
  /\ subscribed' = {} /\ inbox' = <<>> /\ told' = None
  /\ pc' = [pc EXCEPT !["connect"] = IF Going THEN "announce" ELSE "idle"]
  /\ item' = [item EXCEPT !["connect"] = Empty]
  /\ UNCHANGED <<connected, birth, jobs, handler, loop, outside,
                 base, served, lives, drained>>

\* Home Assistant's birth and its offline, retained on its own topic.
Word(up) == IF up THEN "online" ELSE "offline"
HomeAssistant ==
  /\ ha.boots < MaxBoots
  /\ Len(inbox) < MaxInbox
  /\ ha' = [boots |-> IF ha.up THEN ha.boots ELSE ha.boots + 1, up |-> ~ha.up]
  /\ retained' = [retained EXCEPT ![Birth] = Word(~ha.up)]
  /\ inbox' = IF "birth" \in subscribed
              THEN Append(inbox, [kind |-> "birth", up |-> ~ha.up, retained |-> FALSE]) ELSE inbox
  /\ UNCHANGED <<wire, answer, connection, process, subscribed, loop, asks, moves,
                 history>>

\* Somebody publishes a restart, retained: a live copy now, one more at every subscribe.
AskRestart ==
  /\ asks < MaxAsks /\ Len(inbox) < MaxInbox
  /\ asks' = asks + 1
  /\ inbox' = IF "restart" \in subscribed
              THEN Append(inbox, [kind |-> "restart", up |-> FALSE, retained |-> FALSE]) ELSE inbox
  /\ UNCHANGED <<broker, process, subscribed, loop, ha, moves, history>>

\* The supervisor restarts what exited cleanly.
Restart ==
  /\ Supervised /\ pc["shutdown"] = "exited" /\ lives < MaxLives
  /\ lives' = lives + 1 /\ Fresh
  /\ drained' = FALSE /\ told' = None
  /\ answer' = [c \in Callers |-> "none"]
  /\ UNCHANGED <<retained, wire, connection, network, outside, base, served>>

Connecting  == AnnounceOnline \/ WatchBirth
Announcing  == \E c \in Announcers : HandOver(c) \/ AnnounceAnswered(c)
Dispatching ==
  \E w \in Workers : Take(w) \/ Copy(w) \/ Replay(w) \/ ReplayAnswered(w) \/ Resync(w)
Maintaining == Maintain \/ HandlerReturns
Stopping    == AnnounceOffline \/ StopRouter \/ Close \/ Drained \/ Exit
Delivering  == Deliver \/ HandleBirth \/ QueueCommand

Next ==
  \/ Connecting \/ Announcing \/ Dispatching \/ Maintaining \/ Stopping \/ Delivering \/ Read
  \/ NewConnection \/ HomeAssistant \/ AskRestart \/ Restart
  \/ \E l \in {1, 2} : SetConnected(l)

\* Goroutines, the read loop and the broker run on; nothing makes anybody publish.
Fairness ==
  /\ WF_vars(Connecting) /\ WF_vars(Announcing) /\ WF_vars(Dispatching)
  /\ WF_vars(Maintaining) /\ WF_vars(Stopping) /\ WF_vars(Delivering) /\ WF_vars(Read)
Spec == Init /\ [][Next]_vars /\ Fairness
-----------------------------------------------------------------------------
\* Exactly one goroutine of the dispatcher exists while running is set, and none
\* otherwise: a job that comes in as the worker looks for one is not left to nobody,
\* and never run by two. Once Close has returned none runs again, for a Close that
\* had a watch to close (birth.go:275-307, 245-256).
OneWorker ==
  /\ Cardinality({w \in Workers : pc[w] # "idle"}) = IF birth.running THEN 1 ELSE 0
  /\ birth.pending => birth.running
  /\ drained /\ birth.made => ~birth.running

\* The retained level is the one Connected reports, whenever the last announcement was
\* accepted and none is under way or owed: over moves, connections, wills and shutdowns
\* (birth.go:108-121, 151-159).
LevelShown ==
  /\ told \notin {None, "under way"}
  /\ \A c \in Announcers : pc[c] \notin {"announce", "send", "wait"}
  => retained[Status] = IF Going THEN Level(connected) ELSE told

\* Each restart of the process was asked for by one live command: a retained one is not
\* taken again by every successor (instance.go:257-264).
RestartsWereAsked == lives - 1 <= asks

\* Home Assistant that boots and stays up gets a replay of every config that began
\* after its boot, also when the birth fell into a gap between two connections
\* (birth.go:184-199).
BootReplayed ==
  \A n \in 1..MaxBoots :
    (ha.up /\ ha.boots = n) ~> (served >= n \/ ~ha.up \/ ~Going)

\* A shutdown that was started comes to its end, whatever the dispatcher, the router
\* and the read loop are doing (birth.go:245-249, instance.go:94-97).
ShutdownEnds == pc["shutdown"] = "stop" ~> pc["shutdown"] = "exited"
=============================================================================
