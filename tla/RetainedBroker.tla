--------------------------- MODULE RetainedBroker ----------------------------
(* What the state and availability planes publish through: a transport that  *)
(* answers, refuses or gives up, one connection that keeps its order, and a  *)
(* broker that keeps the last retained payload of each topic. All of it is   *)
(* outside the repository and modelled from how publisher/ uses it.          *)
EXTENDS Naturals, Sequences, FiniteSets

CONSTANTS
  Callers,        \* goroutines that publish
  Topics,
  Empty,          \* the zero-length payload; as a retained value, nothing retained
  None,
  Faults,         \* which of FaultKinds may happen
  MaxConnection, MaxWire   \* bounds on reconnects, and on what a socket holds

\* "reconnect": at any time; "idleReconnect": while no call is under way.
FaultKinds == {"refuse", "lostAck", "cancel", "reconnect", "idleReconnect", "storeLoss"}

ASSUME BrokerAssumption ==
  /\ None \notin Topics /\ None \notin Callers
  /\ Faults \subseteq FaultKinds
  /\ {MaxConnection, MaxWire} \subseteq Nat

VARIABLES
  retained,     \* topic -> what the broker retains
  wire,         \* messages of this connection the broker has not read
  answer,       \* caller -> what became of its publish
  connection

broker == <<retained, wire, answer, connection>>

Answers == {"none", "sent", "accepted", "failed"}

BrokerInit(tree) ==
  /\ retained = tree
  /\ wire = <<>>
  /\ answer = [c \in Callers |-> "none"]
  /\ connection = 0

Message(c, t, p, retain) == [from |-> c, topic |-> t, payload |-> p, retain |-> retain]

\* Transport.Publish up to its answer: at QoS 0 the socket taking it is the answer,
\* at QoS 1 the broker's acknowledgement is.
Send(c, t, p, qos, retain) ==
  /\ Len(wire) < MaxWire
  /\ wire' = Append(wire, Message(IF qos = 0 THEN None ELSE c, t, p, retain))
  /\ answer' = [answer EXCEPT ![c] = IF qos = 0 THEN "accepted" ELSE "sent"]
  /\ UNCHANGED <<retained, connection>>

\* A publish the transport refuses without sending it.
Refuse(c) ==
  /\ "refuse" \in Faults
  /\ answer' = [answer EXCEPT ![c] = "failed"]
  /\ UNCHANGED <<retained, wire, connection>>

Answered(c) == answer' = [answer EXCEPT ![c] = "none"]

\* The broker reads the next message, keeps it if it is retained, acknowledges it.
BrokerReads ==
  /\ wire # <<>>
  /\ LET m == Head(wire)
     IN  /\ retained' = IF m.retain THEN [retained EXCEPT ![m.topic] = m.payload] ELSE retained
         /\ answer' = IF m.from = None THEN answer ELSE [answer EXCEPT ![m.from] = "accepted"]
  /\ wire' = Tail(wire)
  /\ UNCHANGED connection

\* The caller's deadline passes first: the message may still be read, or has been.
AnswerLost(c) ==
  /\ "lostAck" \in Faults
  /\ \E i \in DOMAIN wire : wire[i].from = c
  /\ wire' = [i \in DOMAIN wire |->
                IF wire[i].from = c THEN [wire[i] EXCEPT !.from = None] ELSE wire[i]]
  /\ answer' = [answer EXCEPT ![c] = "failed"]
  /\ UNCHANGED <<retained, connection>>

\* A new connection. What the old socket held is gone, and so may be the store; if not,
\* the tree is what the broker kept and the will it published.
Reconnect(busy, tree) ==
  /\ connection < MaxConnection
  /\ \/ "reconnect" \in Faults
     \/ "idleReconnect" \in Faults /\ ~busy
  /\ connection' = connection + 1
  /\ wire' = <<>>
  /\ answer' = [c \in Callers |-> IF answer[c] = "sent" THEN "failed" ELSE answer[c]]
  /\ \/ retained' = tree
     \/ "storeLoss" \in Faults /\ retained' = [t \in Topics |-> Empty]
=============================================================================
