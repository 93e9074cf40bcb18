--------------------------------- MODULE WsHub ---------------------------------
(***************************************************************************)
(* One document's rooms in the nodes of the ws-service: hub.go, client.go, *)
(* client_pumps.go, the broker's subscriptions and the part of the         *)
(* handler that registers a client.                                        *)
(*                                                                         *)
(* A client is one WebSocket.  Its handler goroutine registers it,         *)
(* announces it and starts its ReadPump and WritePump; the handler and     *)
(* then the ReadPump take its steps one after the other, so "at" is the    *)
(* position of the one that runs.  The hub's mutex is held over the map    *)
(* operations of Register (the SUBSCRIBE included) and of Unregister, and  *)
(* over nothing else: announcing, publishing and closing the subscription  *)
(* are steps of their own.  broadcastLocal takes its snapshot and makes    *)
(* its non-blocking sends in one step.                                     *)
(*                                                                         *)
(* A subscription is one FIFO from Redis to its consumeRoom goroutine: the *)
(* connection, go-redis's channel and the channel "messages".              *)
(***************************************************************************)
EXTENDS Integers, Sequences, FiniteSets

CONSTANTS
    Clients,     \* WebSockets that connect, once each
    Nodes,       \* ws-service processes
    Home,        \* the node the load balancer sends a client to
    Senders,     \* bound: clients that send messages
    MaxSent,     \* bound: messages a sender sends
    SendBuffer,  \* capacity of Client.Send
    MaxFailures, \* bound: calls to Redis that fail in a behaviour
    Restless,    \* bound: clients whose connection may end by itself
    Stoppable    \* bound: nodes that may be stopped

ASSUME HubAssumption ==
    /\ IsFiniteSet(Clients)
    /\ Home \in [Clients -> Nodes]
    /\ Senders \subseteq Clients
    /\ MaxSent \in Nat
    /\ SendBuffer \in Nat \ {0}
    /\ MaxFailures \in Nat
    /\ Restless \subseteq Clients
    /\ Stoppable \subseteq Nodes

VARIABLES
    at,        \* where the goroutine of each client is
    sent,      \* how many messages each client has sent
    room,      \* h.rooms[documentID] of each node; no members: no entry
    made,      \* subscriptions made so far
    sub,       \* each subscription: its node, is it open, what it carries
    closing,   \* the subscription a client has to close once it has gone
    queued,    \* how full Client.Send is
    closed,    \* clients with Done closed and the connection closed
    failures,  \* calls to Redis that have failed
    inbox,     \* history: what subscriptions put into Client.Send, and which
    owed       \* history: messages of other nodes a member is still to get

hubVars == <<room, made, sub, closing>>
clientVars == <<queued, closed>>
historyVars == <<inbox, owed>>

vars == <<at, sent, hubVars, clientVars, failures, historyVars>>

-------------------------------------------------------------------------------
(* Messages of one client are numbered: its arrival, what it sends, its    *)
(* departure.                                                              *)

Message == [from : Clients, nr : 0..MaxSent + 1]

Joined(c) == [from |-> c, nr |-> 0]

Sent(c) == [from |-> c, nr |-> sent[c]]

Left(c) == [from |-> c, nr |-> MaxSent + 1]

None == 0

Subs == 1..Cardinality(Clients)

NoSub == [node |-> CHOOSE n \in Nodes : TRUE, open |-> FALSE, queue |-> <<>>]

NoRoom == [members |-> {}, sub |-> None]

(* Who gets what is sent to the room now: those with space in the buffer. *)
(* Nobody empties the buffer of a client that has been closed, so that it  *)
(* need not be followed.                                                   *)
Reached(n) == {d \in room[n].members \ closed : queued[d] < SendBuffer}

(* A mutant of BroadcastLocal: a send that ignores the capacity. *)
BroadcastLocalUnbounded(n) ==
    /\ queued' = [d \in Clients |->
                    IF d \in room[n].members \ closed THEN queued[d] + 1 ELSE queued[d]]
    /\ UNCHANGED closed

(* A mutant of BroadcastLocal: a full client misses the message and stays. *)
BroadcastLocalDropping(n) ==
    /\ queued' = [d \in Clients |-> IF d \in Reached(n) THEN queued[d] + 1 ELSE queued[d]]
    /\ UNCHANGED closed

(* Those whose buffer is full are closed; they stay in the room until      *)
(* their ReadPump notices.                                                 *)
BroadcastLocal(n) ==
    /\ queued' = [d \in Clients |-> IF d \in Reached(n) THEN queued[d] + 1 ELSE queued[d]]
    /\ closed' = closed \cup (room[n].members \ Reached(n))

(* PUBLISH reaches the subscriptions that are open now, and whoever is in  *)
(* a room of another node is to have the message.                          *)
Deliver(m) ==
    /\ sub' = [s \in Subs |-> IF sub[s].open
                              THEN [sub[s] EXCEPT !.queue = Append(sub[s].queue, m)]
                              ELSE sub[s]]
    /\ owed' = [d \in Clients |->
                  IF Home[d] # Home[m.from] /\ d \in room[Home[d]].members
                  THEN owed[d] \cup {m} ELSE owed[d]]

Publish(m) == Deliver(m) /\ UNCHANGED failures

(* The call fails, or only its answer is lost. *)
PublishFails(m) ==
    /\ failures < MaxFailures
    /\ failures' = failures + 1
    /\ Deliver(m) \/ UNCHANGED <<sub, owed>>

(* SendEnvelope: dropped without a word when the buffer is full. *)
SendEnvelope(c) ==
    queued' = [queued EXCEPT ![c] = IF @ < SendBuffer THEN @ + 1 ELSE @]

Goto(c, p, q) ==
    /\ at[c] = p
    /\ at' = [at EXCEPT ![c] = q]

-------------------------------------------------------------------------------
Init ==
    /\ at = [c \in Clients |-> "out"]
    /\ sent = [c \in Clients |-> 0]
    /\ room = [n \in Nodes |-> NoRoom]
    /\ made = 0
    /\ sub = [s \in Subs |-> NoSub]
    /\ closing = [c \in Clients |-> None]
    /\ queued = [c \in Clients |-> 0]
    /\ closed = {}
    /\ failures = 0
    /\ inbox = [c \in Clients |-> {}]
    /\ owed = [c \in Clients |-> {}]

-------------------------------------------------------------------------------
(* The handler: Register, the acknowledgement, the pumps.                  *)

(* A mutant of Register: every client makes a subscription of its own. *)
RegisterAnew(c) ==
    LET n == Home[c]
        s == made + 1
    IN  /\ Goto(c, "out", "joining")
        /\ made' = s
        /\ sub' = [sub EXCEPT ![s] = [node |-> n, open |-> TRUE, queue |-> <<>>]]
        /\ room' = [room EXCEPT ![n] = [members |-> @.members \cup {c}, sub |-> s]]
        /\ UNCHANGED <<sent, closing, clientVars, failures, historyVars>>

(* The critical section of Register: the first client makes the room, its  *)
(* subscription and the goroutine that consumes it.                        *)
Register(c) ==
    LET n == Home[c]
        s == made + 1
    IN  /\ Goto(c, "out", "joining")
        /\ IF room[n].members = {}
           THEN /\ made' = s
                /\ sub' = [sub EXCEPT ![s] = [node |-> n, open |-> TRUE, queue |-> <<>>]]
                /\ room' = [room EXCEPT ![n] = [members |-> {c}, sub |-> s]]
           ELSE /\ room' = [room EXCEPT ![n].members = @ \cup {c}]
                /\ UNCHANGED <<made, sub>>
        /\ UNCHANGED <<sent, closing, clientVars, failures, historyVars>>

(* Redis refuses the SUBSCRIBE: no room, and the connection is closed. *)
RegisterFails(c) ==
    /\ room[Home[c]].members = {}
    /\ failures < MaxFailures
    /\ failures' = failures + 1
    /\ Goto(c, "out", "gone")
    /\ closed' = closed \cup {c}
    /\ UNCHANGED <<sent, hubVars, queued, historyVars>>

(* notifyParticipantEvent: first the node's clients, then Redis.  An error *)
(* is only logged.                                                         *)
AnnounceArrival(c) ==
    /\ Goto(c, "joining", "announcing")
    /\ BroadcastLocal(Home[c])
    /\ UNCHANGED <<sent, hubVars, failures, historyVars>>

PublishArrival(c) ==
    /\ Goto(c, "announcing", "acking")
    /\ Publish(Joined(c)) \/ PublishFails(Joined(c))
    /\ UNCHANGED <<sent, room, made, closing, clientVars, inbox>>

(* The acknowledgement, and the pumps start. *)
Acknowledge(c) ==
    /\ Goto(c, "acking", "reading")
    /\ SendEnvelope(c)
    /\ UNCHANGED <<sent, hubVars, closed, failures, historyVars>>

-------------------------------------------------------------------------------
(* The pumps.                                                              *)

(* HandleClientEnvelope: first the node's clients, the sender among them.  *)
(* What was read before the client was closed is still handled.            *)
HandleClientEnvelope(c) ==
    /\ c \in Senders
    /\ sent[c] < MaxSent
    /\ Goto(c, "reading", "publishing")
    /\ sent' = [sent EXCEPT ![c] = @ + 1]
    /\ BroadcastLocal(Home[c])
    /\ UNCHANGED <<hubVars, failures, historyVars>>

(* Then Redis; the sender is told of an error. *)
PublishEnvelope(c) ==
    /\ Goto(c, "publishing", "reading")
    /\ \/ Publish(Sent(c)) /\ UNCHANGED queued
       \/ PublishFails(Sent(c)) /\ SendEnvelope(c)
    /\ UNCHANGED <<sent, room, made, closing, closed, inbox>>

(* A message that is no valid envelope is answered with an error. *)
RejectMessage(c) ==
    /\ at[c] = "reading" /\ c \in Senders
    /\ queued[c] < SendBuffer
    /\ SendEnvelope(c)
    /\ UNCHANGED <<at, sent, hubVars, closed, failures, historyVars>>

(* The WritePump runs from the acknowledgement until Done is closed; what  *)
(* it writes to a client that has left its room does not matter.           *)
Pumping(c) ==
    at[c] \in {"reading", "publishing"} /\ c \notin closed

WriteMessage(c) ==
    /\ Pumping(c)
    /\ queued[c] > 0
    /\ queued' = [queued EXCEPT ![c] = @ - 1]
    /\ UNCHANGED <<at, sent, hubVars, closed, failures, historyVars>>

(* A write or a ping that fails ends the WritePump, which closes the client.*)
WriteFails(c) ==
    /\ Pumping(c) /\ c \in Restless
    /\ closed' = closed \cup {c}
    /\ UNCHANGED <<at, sent, hubVars, queued, failures, historyVars>>

-------------------------------------------------------------------------------
(* The end of the ReadPump: Unregister.                                    *)

(* Nothing reaches the buffer of a client that has left its room, and what *)
(* is still in it is its own affair.                                       *)
Forget(c) ==
    /\ queued' = [queued EXCEPT ![c] = 0]
    /\ inbox' = [inbox EXCEPT ![c] = {}]
    /\ owed' = [owed EXCEPT ![c] = {}]

(* A mutant of Unregister: a client that was closed is left in the room. *)
UnregisterWhileOpen(c) ==
    LET n == Home[c]
        rest == room[n].members \ {c}
    IN  /\ c \notin closed
        /\ Goto(c, "reading", "leaving")
        /\ room' = [room EXCEPT ![n] = IF rest = {} THEN NoRoom
                                       ELSE [members |-> rest, sub |-> @.sub]]
        /\ closing' = [closing EXCEPT ![c] = IF rest = {} THEN room[n].sub ELSE None]
        /\ Forget(c)
        /\ UNCHANGED <<sent, made, sub, closed, failures>>

(* The read fails, or the browser has closed the socket.  The critical     *)
(* section takes the client out and, with the last one, deletes the room.  *)
(* Its branch for a room that is not there is unreachable: a client that   *)
(* reads is in its room (SubscriptionsMatchRooms).                         *)
Unregister(c) ==
    LET n == Home[c]
        rest == room[n].members \ {c}
    IN  /\ c \in Restless \cup closed
        /\ Goto(c, "reading", "leaving")
        /\ room' = [room EXCEPT ![n] = IF rest = {} THEN NoRoom
                                       ELSE [members |-> rest, sub |-> @.sub]]
        /\ closing' = [closing EXCEPT ![c] = IF rest = {} THEN room[n].sub ELSE None]
        /\ Forget(c)
        /\ UNCHANGED <<sent, made, sub, closed, failures>>

AnnounceDeparture(c) ==
    /\ Goto(c, "leaving", "departing")
    /\ BroadcastLocal(Home[c])
    /\ UNCHANGED <<sent, hubVars, failures, historyVars>>

PublishDeparture(c) ==
    /\ Goto(c, "departing", "closing")
    /\ Publish(Left(c)) \/ PublishFails(Left(c))
    /\ UNCHANGED <<sent, room, made, closing, clientVars, inbox>>

(* Close of a subscription: what the forwarder has not passed on is lost,  *)
(* what is in the channel is still consumed.                               *)
Closed(s) ==
    {[sub EXCEPT ![s] = [node  |-> sub[s].node,
                         open  |-> FALSE,
                         queue |-> SubSeq(sub[s].queue, 1, k)]] : k \in 0..Len(sub[s].queue)}

(* A mutant of CloseClient: the last one leaves the subscription open. *)
CloseClientOnly(c) ==
    /\ Goto(c, "closing", "gone")
    /\ closed' = closed \cup {c}
    /\ closing' = [closing EXCEPT ![c] = None]
    /\ UNCHANGED <<sent, room, made, sub, queued, failures, historyVars>>

(* client.Close and, by the last one, room.sub.Close. *)
CloseClient(c) ==
    /\ Goto(c, "closing", "gone")
    /\ closed' = closed \cup {c}
    /\ closing' = [closing EXCEPT ![c] = None]
    /\ IF closing[c] = None THEN UNCHANGED sub ELSE sub' \in Closed(closing[c])
    /\ UNCHANGED <<sent, room, made, queued, failures, historyVars>>

-------------------------------------------------------------------------------
(* consumeRoom: the goroutine of a subscription, also of one whose room is *)
(* gone.  It skips what its own node has sent, and looks the room up by    *)
(* the document.                                                           *)

Consume(s, m) ==
    /\ IF Home[m.from] = sub[s].node
       THEN UNCHANGED <<queued, closed, historyVars>>
       ELSE LET reached == Reached(sub[s].node) IN
            /\ BroadcastLocal(sub[s].node)
            /\ inbox' = [d \in Clients |-> IF d \in reached
                                           THEN inbox[d] \cup {<<m, s>>} ELSE inbox[d]]
            /\ owed' = [d \in Clients |-> IF d \in reached
                                          THEN owed[d] \ {m} ELSE owed[d]]
    /\ UNCHANGED <<at, sent, room, made, closing, failures>>

(* A mutant of ConsumeRoom: a goroutine for each message. *)
ConsumeRoomConcurrently(s) ==
    LET q == sub[s].queue IN
    \E i \in DOMAIN q :
        /\ sub' = [sub EXCEPT ![s].queue = SubSeq(q, 1, i - 1) \o SubSeq(q, i + 1, Len(q))]
        /\ Consume(s, q[i])

ConsumeRoom(s) ==
    /\ sub[s].queue # <<>>
    /\ sub' = [sub EXCEPT ![s].queue = Tail(@)]
    /\ Consume(s, Head(sub[s].queue))

(* SIGTERM: Shutdown does not know of hijacked connections; the process    *)
(* ends, and its clients with it.                                          *)
StopNode(n) ==
    LET lost == {c \in Clients : Home[c] = n /\ at[c] # "out"} IN
    /\ n \in Stoppable
    /\ lost # {}
    /\ at' = [c \in Clients |-> IF Home[c] = n THEN "gone" ELSE at[c]]
    /\ room' = [room EXCEPT ![n] = NoRoom]
    /\ sub' = [s \in Subs |-> IF sub[s].node = n
                              THEN [node |-> n, open |-> FALSE, queue |-> <<>>]
                              ELSE sub[s]]
    /\ closing' = [c \in Clients |-> IF Home[c] = n THEN None ELSE closing[c]]
    /\ closed' = closed \cup lost
    /\ UNCHANGED <<sent, made, queued, failures, historyVars>>

-------------------------------------------------------------------------------
(* What the goroutines of a client do by themselves. *)
Handle(c) ==
    \/ AnnounceArrival(c) \/ PublishArrival(c) \/ Acknowledge(c)
    \/ PublishEnvelope(c)
    \/ AnnounceDeparture(c) \/ PublishDeparture(c) \/ CloseClient(c)

(* What browsers, the network and their messages make them do. *)
Disturb(c) ==
    \/ Register(c) \/ RegisterFails(c)
    \/ HandleClientEnvelope(c) \/ RejectMessage(c)
    \/ WriteMessage(c) \/ WriteFails(c) \/ Unregister(c)

Next ==
    \/ \E c \in Clients : Handle(c) \/ Disturb(c)
    \/ \E s \in Subs : ConsumeRoom(s)
    \/ \E n \in Nodes : StopNode(n)

Spec == Init /\ [][Next]_vars

(* Goroutines run, publishes return, and the read from a closed connection *)
(* fails once what was received before has been read.                      *)
Fairness ==
    /\ \A c \in Clients : /\ WF_vars(Handle(c))
                          /\ WF_vars(c \in closed /\ Unregister(c))
    /\ \A s \in Subs : WF_vars(ConsumeRoom(s))

FairSpec == Spec /\ Fairness

-------------------------------------------------------------------------------
(* The positions in which a client is in its room. *)
InRoom == {"joining", "announcing", "acking", "reading", "publishing"}

Positions == InRoom \cup {"out", "leaving", "departing", "closing", "gone"}

(* Types; a buffer is never fuller than its channel.  hub/client.go:34-36. *)
TypeOK ==
    /\ at \in [Clients -> Positions]
    /\ sent \in [Clients -> 0..MaxSent]
    /\ room \in [Nodes -> [members : SUBSET Clients, sub : Subs \cup {None}]]
    /\ made \in 0..Cardinality(Clients)
    /\ sub \in [Subs -> [node : Nodes, open : BOOLEAN, queue : Seq(Message)]]
    /\ closing \in [Clients -> Subs \cup {None}]
    /\ queued \in [Clients -> 0..SendBuffer]
    /\ closed \subseteq Clients
    /\ failures \in 0..MaxFailures
    /\ inbox \in [Clients -> SUBSET (Message \X Subs)]
    /\ owed \in [Clients -> SUBSET Message]

RoomHoldsClient(c) == c \in room[Home[c]].members <=> at[c] \in InRoom

RoomHasItsSub(n) ==
    IF room[n].members = {} THEN room[n].sub = None
    ELSE /\ room[n].sub # None
         /\ sub[room[n].sub].open /\ sub[room[n].sub].node = n
         /\ \A c \in Clients : closing[c] # room[n].sub

SubIsNeeded(s) ==
    sub[s].open => \/ \E n \in Nodes : room[n].sub = s
                   \/ \E c \in Clients : closing[c] = s

(* However rooms come and go, a room with members has an open subscription *)
(* of its own that no client is about to close, and every open one is a    *)
(* room's or about to be closed.  Register and Unregister, hub.go:38-102.  *)
SubscriptionsMatchRooms ==
    /\ \A c \in Clients : RoomHoldsClient(c)
    /\ \A n \in Nodes : RoomHasItsSub(n)
    /\ \A s \in Subs : SubIsNeeded(s)

(* A message that Redis took while the client was in its room, and which   *)
(* is not in the buffer of the client yet, is still carried by the room's  *)
(* own subscription, or the client has been closed for being slow.         *)
(* hub.go:166-183, 200-212.                                                *)
MembersMissNothing ==
    \A n \in Nodes : \A d \in room[n].members \ closed : \A m \in owed[d] :
        LET q == sub[room[n].sub].queue IN \E i \in DOMAIN q : q[i] = m

(* What a client gets of another by one subscription is in the order in    *)
(* which it was sent, from its arrival to its departure: ReadPump sends    *)
(* one message after the other, and so does consumeRoom.  hub.go:166-183.  *)
SenderOrderIsKept ==
    [][\A d \in Clients : \A new \in inbox'[d] \ inbox[d] : \A old \in inbox[d] :
          old[1].from = new[1].from /\ old[2] = new[2] => old[1].nr < new[1].nr]_inbox

(* A client that was closed, for being slow or for a write that failed, is *)
(* taken out of its room.  client_pumps.go:14-15, 83-85.                   *)
ClosedClientsLeave ==
    \A c \in Clients : c \in closed ~> c \notin room[Home[c]].members

(* A subscription whose room is gone is closed.  hub.go:98-99. *)
UnusedSubscriptionsClose ==
    \A s \in Subs :
        sub[s].open /\ (\A n \in Nodes : room[n].sub # s) ~> ~sub[s].open

===============================================================================
