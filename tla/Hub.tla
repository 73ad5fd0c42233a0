-------------------------------- MODULE Hub --------------------------------
(***************************************************************************)
(* The websocket hub (services/websocket.go, ws_controller.go): one        *)
(* goroutine hands the events of a bounded queue to the connections, each  *)
(* of which has a reader, a writer and a bounded channel between the hub   *)
(* and the writer.  Nobody may wait for a slow connection: what cannot be  *)
(* handed over costs it the connection.                                    *)
(***************************************************************************)
EXTENDS Naturals, SequencesExt

CONSTANTS
  Conns,       \* connections
  Events,      \* bound: the events there can be
  Everyone,
  User,        \* User[c]: whose connection c is
  To,          \* To[e]: whose event e is, or Everyone
  QueueCap,    \* of broadcast, 256
  SendCap      \* of a client's send, 32

ASSUME HubAssumption ==
  /\ \A c \in Conns : User[c] # Everyone
  /\ DOMAIN To = Events
  /\ QueueCap \in Nat \ {0}
  /\ SendCap \in Nat \ {0}
  /\ {"nothing", "connected"} \cap Events = {}   \* the marks below

VARIABLES
  queue,       \* the channel broadcast
  waiting,     \* the events not yet thought of
  current,     \* the event the hub is handing round, holding clientsMutex, or Nothing
  todo,        \* the clients it has not come to
  clients,     \* the map
  send,        \* send[c]: the channel to c's writer
  reader,      \* reader[c]: where c's reader is
  writer,      \* writer[c]: where its writer is
  hand,        \* hand[c]: what the writer is about to write
  open,        \* the connections not closed by either side
  dead,        \* the connections whose token has died
  due,         \* history: due[c], the events the hub took for c, not yet written to it
  owed,        \* history: owed[c], the events broadcast for c, not yet written to it
  lost,        \* history: lost[c], those of them that came when the queue was full
  late         \* history: late[c], how many it got after its token had died

hubVars == <<queue, waiting, current, todo>>
history == <<due, owed, lost, late>>
clientVars == <<clients, send, reader, writer, hand, open, dead, history>>
vars == <<hubVars, clientVars>>

Nothing == "nothing"
Connected == "connected"

TypeOK ==
  /\ queue \in Seq(Events) /\ Len(queue) <= QueueCap
  /\ waiting \subseteq Events
  /\ current \in Events \cup {Nothing}
  /\ todo \subseteq clients /\ clients \subseteq Conns
  /\ send \in [Conns -> Seq(Events \cup {Connected})]
  /\ \A c \in Conns : Len(send[c]) <= SendCap
  /\ hand \in [Conns -> Events \cup {Connected, Nothing}]
  /\ reader \in [Conns -> {"none", "handshake", "greet", "read", "leave", "gone"}]
  /\ writer \in [Conns -> {"none", "select", "validate", "write", "gone"}]
  /\ open \subseteq Conns /\ dead \subseteq Conns
  /\ due \in [Conns -> Seq(Events)] /\ late \in [Conns -> Nat]
  /\ owed \in [Conns -> SUBSET Events] /\ lost \in [Conns -> SUBSET Events]

Init ==
  /\ queue = <<>>
  /\ waiting = Events
  /\ current = Nothing
  /\ todo = {}
  /\ clients = {}
  /\ send = [c \in Conns |-> <<>>]
  /\ reader = [c \in Conns |-> "none"]
  /\ writer = [c \in Conns |-> "none"]
  /\ hand = [c \in Conns |-> Nothing]
  /\ open = {}
  /\ dead = {}
  /\ due = [c \in Conns |-> <<>>]
  /\ owed = [c \in Conns |-> {}]
  /\ lost = [c \in Conns |-> {}]
  /\ late = [c \in Conns |-> 0]

-----------------------------------------------------------------------------
(* Helpers.  A second form beside a definition is the slip the properties  *)
(* are tested against.                                                     *)

MutexFree == current = Nothing

ForAnyone(e, c) == TRUE
IsFor(e, c) == To[e] \in {Everyone, User[c]}

(* A connection is closed, and its history of no more interest. *)
Close(c) ==
  /\ open' = open \ {c}
  /\ due' = [due EXCEPT ![c] = <<>>]
  /\ owed' = [owed EXCEPT ![c] = {}]
  /\ lost' = [lost EXCEPT ![c] = {}]
  /\ late' = [late EXCEPT ![c] = 0]

(* What the hub does with a client whose channel is full. *)
SkipSlow(c) == UNCHANGED <<open, history>>
CloseSlow(c) == Close(c)

AsAtHandshake(c) == TRUE
TokenValid(c) == c \notin dead

-----------------------------------------------------------------------------
(* Events: BroadcastToAll and BroadcastToUser never wait, and log what they *)
(* drop on a full queue.                                                   *)

(* Whose events the histories count: of the open connections in the map.   *)
Entitled(e, c) == c \in clients \cap open /\ To[e] \in {Everyone, User[c]}

Enqueue(e) ==
  /\ e \in waiting
  /\ waiting' = waiting \ {e}
  /\ queue' = IF Len(queue) < QueueCap THEN Append(queue, e) ELSE queue
  /\ owed' = [c \in Conns |-> IF Entitled(e, c) THEN owed[c] \cup {e} ELSE owed[c]]
  /\ lost' = [c \in Conns |-> IF Entitled(e, c) /\ Len(queue) = QueueCap
                              THEN lost[c] \cup {e} ELSE lost[c]]
  /\ UNCHANGED <<current, todo, clients, send, reader, writer, hand, open, dead, due, late>>

(* HandleConnections *)
TakeEvent ==
  LET e == Head(queue)
  IN /\ current = Nothing
     /\ queue # <<>>
     /\ current' = e
     /\ queue' = Tail(queue)
     /\ todo' = {c \in clients : IsFor(e, c)}
     /\ due' = [c \in Conns |-> IF Entitled(e, c) THEN Append(due[c], e) ELSE due[c]]
     /\ UNCHANGED <<waiting, clients, send, reader, writer, hand, open, dead,
                    owed, lost, late>>

(* In the order of a Go map.  What is sent to a writer that has gone is    *)
(* never read.  done is closed after the client left the map, so that its  *)
(* case is never ready here.                                               *)
HandOver(c) ==
  /\ c \in todo
  /\ todo' = todo \ {c}
  /\ \/ /\ writer[c] = "gone"
        /\ UNCHANGED <<send, open, history>>
     \/ /\ writer[c] # "gone"
        /\ Len(send[c]) < SendCap
        /\ send' = [send EXCEPT ![c] = Append(@, current)]
        /\ UNCHANGED <<open, history>>
     \/ /\ writer[c] # "gone"
        /\ Len(send[c]) = SendCap
        /\ CloseSlow(c)
        /\ UNCHANGED send
  /\ UNCHANGED <<queue, waiting, current, clients, reader, writer, hand, dead>>

NextEvent ==
  /\ current # Nothing
  /\ todo = {}
  /\ current' = Nothing
  /\ UNCHANGED <<queue, waiting, todo, clientVars>>

-----------------------------------------------------------------------------
(* WsHandler and the reader, UpgradeAndRegister                            *)

WsHandler(c) ==
  /\ reader[c] = "none"
  /\ c \notin dead
  /\ reader' = [reader EXCEPT ![c] = "handshake"]
  /\ open' = open \cup {c}
  /\ UNCHANGED <<hubVars, clients, send, writer, hand, dead, history>>

Register(c) ==
  /\ reader[c] = "handshake"
  /\ MutexFree
  /\ clients' = clients \cup {c}
  /\ reader' = [reader EXCEPT ![c] = "greet"]
  /\ UNCHANGED <<hubVars, send, writer, hand, open, dead, history>>

(* The greeting waits for room, and only then is the writer started. *)
Greet(c) ==
  /\ reader[c] = "greet"
  /\ Len(send[c]) < SendCap
  /\ send' = [send EXCEPT ![c] = Append(@, Connected)]
  /\ writer' = [writer EXCEPT ![c] = "select"]
  /\ reader' = [reader EXCEPT ![c] = "read"]
  /\ UNCHANGED <<hubVars, clients, hand, open, dead, history>>

ReadFails(c) ==
  /\ reader[c] = "read"
  /\ c \notin open
  /\ reader' = [reader EXCEPT ![c] = "leave"]
  /\ UNCHANGED <<hubVars, clients, send, writer, hand, open, dead, history>>

(* The deferred cleanup; closing done is what the writer sees. *)
Leave(c) ==
  /\ reader[c] = "leave"
  /\ MutexFree
  /\ clients' = clients \ {c}
  /\ reader' = [reader EXCEPT ![c] = "gone"]
  /\ UNCHANGED <<hubVars, send, writer, hand, open, dead, history>>

ReaderStep(c) == Register(c) \/ Greet(c) \/ ReadFails(c) \/ Leave(c)

-----------------------------------------------------------------------------
(* writeLoop: any ready case of the select; the ticker gets ready again    *)
(* and again.                                                              *)

WriterGone(c) ==
  /\ writer' = [writer EXCEPT ![c] = "gone"]
  /\ hand' = [hand EXCEPT ![c] = Nothing]
  /\ send' = [send EXCEPT ![c] = <<>>]
  /\ Close(c)

SelectDone(c) ==
  /\ writer[c] = "select"
  /\ reader[c] = "gone"
  /\ WriterGone(c)
  /\ UNCHANGED <<hubVars, clients, reader, dead>>

(* The token, then a ping, which changes nothing unless it fails. *)
SelectPing(c) ==
  /\ writer[c] = "select"
  /\ ~TokenValid(c) \/ c \notin open
  /\ WriterGone(c)
  /\ UNCHANGED <<hubVars, clients, reader, dead>>

SelectEvent(c) ==
  /\ writer[c] = "select"
  /\ send[c] # <<>>
  /\ hand' = [hand EXCEPT ![c] = Head(send[c])]
  /\ send' = [send EXCEPT ![c] = Tail(@)]
  /\ writer' = [writer EXCEPT ![c] = "validate"]
  /\ UNCHANGED <<hubVars, clients, reader, open, dead, history>>

Validate(c) ==
  /\ writer[c] = "validate"
  /\ IF TokenValid(c)
       THEN writer' = [writer EXCEPT ![c] = "write"] /\ UNCHANGED <<hand, send, open, history>>
       ELSE WriterGone(c)
  /\ UNCHANGED <<hubVars, clients, reader, dead>>

(* On a closed connection it fails, or ends in a buffer nobody reads. *)
Written(c) ==
  /\ hand' = [hand EXCEPT ![c] = Nothing]
  /\ writer' = [writer EXCEPT ![c] = "select"]
  /\ UNCHANGED <<send, open>>

Write(c) ==
  /\ writer[c] = "write"
  /\ \/ /\ c \in open
        /\ due' = IF hand[c] = Connected THEN due ELSE [due EXCEPT ![c] = Tail(@)]
        /\ owed' = [owed EXCEPT ![c] = @ \ {hand[c]}]
        /\ late' = IF c \in dead THEN [late EXCEPT ![c] = @ + 1] ELSE late
        /\ Written(c) /\ UNCHANGED lost
     \/ c \notin open /\ Written(c) /\ UNCHANGED history
     \/ c \notin open /\ WriterGone(c)
  /\ UNCHANGED <<hubVars, clients, reader, dead>>

WriterStep(c) ==
  SelectDone(c) \/ SelectPing(c) \/ SelectEvent(c) \/ Validate(c) \/ Write(c)

-----------------------------------------------------------------------------
(* The browser leaves, does not answer for pongWait or does not read for   *)
(* writeWait; the token is logged out, superseded or expires, or its user  *)
(* is banned.                                                              *)

PeerLeaves(c) ==
  /\ c \in open
  /\ Close(c)
  /\ UNCHANGED <<hubVars, clients, send, reader, writer, hand, dead>>

TokenDies(c) ==
  /\ c \in open \ dead
  /\ dead' = dead \cup {c}
  /\ UNCHANGED <<hubVars, clients, send, reader, writer, hand, open, history>>

HubStep == TakeEvent \/ NextEvent \/ \E c \in Conns : HandOver(c)

Next ==
  \/ HubStep
  \/ \E e \in Events : Enqueue(e)
  \/ \E c \in Conns :
       WsHandler(c) \/ ReaderStep(c) \/ WriterStep(c) \/ PeerLeaves(c) \/ TokenDies(c)

Spec == Init /\ [][Next]_vars

(* Goroutines are scheduled, and the ticker comes round again.             *)
Fairness ==
  /\ WF_vars(HubStep)
  /\ \A c \in Conns : WF_vars(ReaderStep(c)) /\ WF_vars(WriterStep(c))

FairSpec == Spec /\ Fairness

-----------------------------------------------------------------------------
(* Correctness *)

OnTheWay(c) ==
  (IF hand[c] = Nothing THEN <<>> ELSE <<hand[c]>>)
    \o send[c] \o (IF c \in todo THEN <<current>> ELSE <<>>)

(* The greeting, sent once, may be anywhere among the events. *)
Greeted(way, events) ==
  \/ way = events
  \/ \E i \in 1..(Len(events) + 1) : way = InsertAt(events, i, Connected)

(* From the hub to an open connection nothing is lost, reordered, repeated *)
(* or sent to another: what the hub took for it and it did not yet receive *)
(* is on its way, in order, with the one greeting at most.                 *)
NoGaps == \A c \in open : Greeted(OnTheWay(c), due[c])

(* Of the events broadcast for an open connection in the map, those it did *)
(* not receive are in the queue or taken for it, except those that were    *)
(* dropped because the queue was full ("clients must refetch state").      *)
NothingElseLost ==
  \A c \in open : owed[c] \subseteq lost[c] \cup ToSet(queue) \cup ToSet(due[c])

(* The handshake's authentication does not last: of what is queued when    *)
(* the token dies at most the one event in the writer's hand gets out.     *)
OneLateEvent == \A c \in Conns : late[c] <= 1

HubInv == TypeOK /\ NoGaps /\ NothingElseLost /\ OneLateEvent

(* The channel was filled between the registration and the greeting: with  *)
(* no writer yet, the reader waits for ever, and its client stays.         *)
Flooded(c) == reader[c] = "greet" /\ Len(send[c]) = SendCap

(* No client holds up the hub.  A connection that was closed, by whichever *)
(* side, leaves the map, and one whose token has died gets closed, unless  *)
(* it is flooded.  What was broadcast for a connection and not dropped on  *)
(* a full queue is all written to it in the end (events come to one), if   *)
(* it is not closed first, or flooded.                                     *)
HubDrains == <>[](queue = <<>> /\ current = Nothing)
ClosedLeave == \A c \in Conns : c \in clients \ open ~> c \notin clients \/ Flooded(c)
DeadAreCut == \A c \in Conns : c \in dead \cap clients ~> c \notin open \/ Flooded(c)
EventsArrive == \A c \in Conns : owed[c] # lost[c] ~> owed[c] = lost[c] \/ Flooded(c)
HubLive == HubDrains /\ ClosedLeave /\ DeadAreCut /\ EventsArrive
=============================================================================
