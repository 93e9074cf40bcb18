------------------------------ MODULE CollabSocket ------------------------------
(***************************************************************************)
(* The WebSocket service of the browser (collab-websocket.service.ts), one *)
(* for the application, and the workspaces that use it one after another.  *)
(*                                                                         *)
(* A workspace calls connect once, so that a workspace, its connect and    *)
(* the WebSocket object this makes have the same number.  connect is       *)
(* suspended while it waits for its ticket, and a flow while it waits for  *)
(* an acknowledgement or an answer of the backend; destroying the          *)
(* component stops neither.                                                *)
(***************************************************************************)
EXTENDS Integers, FiniteSets

CONSTANTS
    Workspaces,  \* workspaces the user opens, in this order
    DocumentOf,  \* the document of each, 0 for a route that names none
    Joins        \* those that join a session; the others initialize one

ASSUME SocketAssumption ==
    /\ Workspaces \in SUBSET (Nat \ {0})
    /\ IsFiniteSet(Workspaces)
    /\ DocumentOf \in [Workspaces -> Nat]
    /\ Joins \subseteq Workspaces

VARIABLES
    alive,     \* the workspace on the screen, or None
    flow,      \* how far the flow of each workspace is
    socket,    \* this.socket of the service, or None
    state,     \* _state of the service
    session,   \* sessionInfo()?.documentId, or None
    sock,      \* readyState of each WebSocket
    acked,     \* sockets the server has sent its acknowledgement to
    buffers,   \* workspaces whose bufferSub is subscribed to inbound$
    routes,    \* workspaces whose routes are
    answered,  \* history: the tickets answered before that of each workspace
    late,      \* history: tickets answered when their workspace had gone
    heard      \* history: whose messages the subscriptions of each took

serviceVars == <<socket, state, session>>
historyVars == <<answered, late, heard>>

vars == <<alive, flow, serviceVars, sock, acked, buffers, routes, historyVars>>

None == 0

Live == {"connecting", "open"}

-------------------------------------------------------------------------------
Init ==
    /\ alive = None
    /\ flow = [w \in Workspaces |-> "new"]
    /\ socket = None
    /\ state = "idle"
    /\ session = None
    /\ sock = [w \in Workspaces |-> "none"]
    /\ acked = {}
    /\ buffers = {}
    /\ routes = {}
    /\ answered = [w \in Workspaces |-> {}]
    /\ late = {}
    /\ heard = [w \in Workspaces |-> {}]

-------------------------------------------------------------------------------
(* disconnect: the socket is closed if it is not already, and is no longer *)
(* the service's, so that its later events are ignored.                    *)
Disconnect ==
    /\ socket' = None
    /\ sock' = IF socket # None /\ sock[socket] \in Live
               THEN [sock EXCEPT ![socket] = "closing"] ELSE sock

(* A workspace is put on the screen: ngOnInit starts its flow, and connect *)
(* closes what there is and asks for a ticket.                             *)
Open(w) ==
    /\ alive = None
    /\ flow[w] = "new"
    /\ \A v \in Workspaces : v < w => flow[v] # "new"
    /\ alive' = w
    /\ IF DocumentOf[w] = 0
       THEN /\ flow' = [flow EXCEPT ![w] = "error"]
            /\ UNCHANGED <<serviceVars, sock>>
       ELSE /\ flow' = [flow EXCEPT ![w] = "ticket"]
            /\ Disconnect
            /\ state' = "requesting-ticket"
            /\ session' = None
    /\ UNCHANGED <<acked, buffers, routes, historyVars>>

(* A mutant of Destroy: the routes are unsubscribed, the socket is left.   *)
DestroyUnsubscribing ==
    /\ alive # None
    /\ alive' = None
    /\ routes' = routes \ {alive}
    /\ UNCHANGED <<flow, serviceVars, sock, acked, buffers, historyVars>>

(* The user goes elsewhere: the callback of the DestroyRef.  A buffer is    *)
(* not among its subscriptions.                                            *)
Destroy ==
    /\ alive # None
    /\ alive' = None
    /\ routes' = routes \ {alive}
    /\ Disconnect
    /\ state' = "closed"
    /\ UNCHANGED <<flow, session, acked, buffers, historyVars>>

-------------------------------------------------------------------------------
(* connect goes on with its ticket, whoever is on the screen by now and    *)
(* whatever socket the service has; a joining flow starts its buffer.      *)
TicketAnswered(w) ==
    /\ flow[w] = "ticket"
    /\ flow' = [flow EXCEPT ![w] = "ack"]
    /\ state' = "connecting"
    /\ socket' = w
    /\ sock' = [sock EXCEPT ![w] = "connecting"]
    /\ buffers' = IF w \in Joins THEN buffers \cup {w} ELSE buffers
    /\ answered' = [answered EXCEPT ![w] = {v \in Workspaces : sock[v] # "none"}]
    /\ late' = IF alive = w THEN late ELSE late \cup {w}
    /\ UNCHANGED <<alive, session, acked, routes, heard>>

(* createTicket fails, or a request of the flow does; what the flow has    *)
(* subscribed stays so.                                                    *)
RequestFails(w) ==
    /\ flow[w] \in {"ticket", "init", "sync"}
    /\ flow' = [flow EXCEPT ![w] = "error"]
    /\ UNCHANGED <<alive, serviceVars, sock, acked, buffers, routes, historyVars>>

(* initializeDocument has answered: the routes are subscribed. *)
Initialized(w) ==
    /\ flow[w] = "init"
    /\ flow' = [flow EXCEPT ![w] = "sync"]
    /\ routes' = routes \cup {w}
    /\ UNCHANGED <<alive, serviceVars, sock, acked, buffers, historyVars>>

(* syncDocument has answered: a buffer gives way to the routes, and the    *)
(* workspace is active.                                                    *)
Synced(w) ==
    /\ flow[w] = "sync"
    /\ flow' = [flow EXCEPT ![w] = "active"]
    /\ buffers' = buffers \ {w}
    /\ routes' = routes \cup {w}
    /\ UNCHANGED <<alive, serviceVars, sock, acked, historyVars>>

(* The effect of the workspace on the screen. *)
NoticeClosed(w) ==
    /\ alive = w /\ flow[w] = "active"
    /\ state \in {"closed", "error"}
    /\ flow' = [flow EXCEPT ![w] = "error"]
    /\ UNCHANGED <<alive, serviceVars, sock, acked, buffers, routes, historyVars>>

-------------------------------------------------------------------------------
(* Events of a WebSocket; the listeners ignore those of a socket that is   *)
(* not the service's.                                                      *)

SocketOpens(w) ==
    /\ sock[w] = "connecting"
    /\ sock' = [sock EXCEPT ![w] = "open"]
    /\ state' = IF socket = w THEN "open" ELSE state
    /\ UNCHANGED <<alive, flow, socket, session, acked, buffers, routes, historyVars>>

(* inbound$ is one stream for everybody who listens: the flows that wait   *)
(* for their acknowledgement, the buffers, which take everything, and the  *)
(* routes, which take the events of the room.                              *)
Listeners(type) ==
    buffers \cup (IF type = "connection.ack" THEN {u \in Workspaces : flow[u] = "ack"}
                                             ELSE routes)

(* firstValueFrom goes on with the first acknowledgement. *)
Acknowledged ==
    [u \in Workspaces |-> IF flow[u] # "ack" THEN flow[u]
                          ELSE IF u \in Joins THEN "sync" ELSE "init"]

(* A mutant of Message: the listener does not ask whose socket it is. *)
MessageOfAny(w, type) ==
    /\ sock[w] = "open"
    /\ IF type = "connection.ack" THEN w \notin acked /\ acked' = acked \cup {w}
                                  ELSE w \in acked /\ UNCHANGED acked
    /\ session' = IF type = "connection.ack" THEN DocumentOf[w] ELSE session
    /\ flow' = IF type = "connection.ack" THEN Acknowledged ELSE flow
    /\ heard' = [u \in Workspaces |->
                   IF u \in Listeners(type) THEN heard[u] \cup {w} ELSE heard[u]]
    /\ UNCHANGED <<alive, socket, state, sock, buffers, routes, answered, late>>

(* The server acknowledges the connection, then brings events of the room. *)
Message(w, type) ==
    /\ sock[w] = "open"
    /\ IF type = "connection.ack" THEN w \notin acked /\ acked' = acked \cup {w}
                                  ELSE w \in acked /\ UNCHANGED acked
    /\ IF socket = w
       THEN /\ session' = IF type = "connection.ack" THEN DocumentOf[w] ELSE session
            /\ flow' = IF type = "connection.ack" THEN Acknowledged ELSE flow
            /\ heard' = [u \in Workspaces |->
                           IF u \in Listeners(type) THEN heard[u] \cup {w} ELSE heard[u]]
       ELSE UNCHANGED <<flow, heard, session>>
    /\ UNCHANGED <<alive, socket, state, sock, buffers, routes, answered, late>>

(* The 'error' event; 'close' follows. *)
SocketFails(w) ==
    /\ sock[w] \in Live
    /\ sock' = [sock EXCEPT ![w] = "closing"]
    /\ state' = IF socket = w THEN "error" ELSE state
    /\ UNCHANGED <<alive, flow, socket, session, acked, buffers, routes, historyVars>>

(* The other side begins to close: the readyState changes before the       *)
(* 'close' event.                                                          *)
ServerCloses(w) ==
    /\ sock[w] \in Live
    /\ sock' = [sock EXCEPT ![w] = "closing"]
    /\ UNCHANGED <<alive, flow, serviceVars, acked, buffers, routes, historyVars>>

(* A mutant of SocketClosed: the closed socket stays the service's. *)
SocketClosedUnseen(w) ==
    /\ sock[w] = "closing"
    /\ sock' = [sock EXCEPT ![w] = "closed"]
    /\ UNCHANGED <<alive, flow, socket, state, session, acked, buffers, routes, historyVars>>

SocketClosed(w) ==
    /\ sock[w] = "closing"
    /\ sock' = [sock EXCEPT ![w] = "closed"]
    /\ IF socket = w THEN socket' = None /\ state' = "closed" ELSE UNCHANGED <<socket, state>>
    /\ UNCHANGED <<alive, flow, session, acked, buffers, routes, historyVars>>

-------------------------------------------------------------------------------
Next ==
    \/ \E w \in Workspaces :
          \/ Open(w)
          \/ TicketAnswered(w)
          \/ RequestFails(w)
          \/ Initialized(w)
          \/ Synced(w)
          \/ NoticeClosed(w)
          \/ SocketOpens(w)
          \/ \E type \in {"connection.ack", "doc.change"} : Message(w, type)
          \/ SocketFails(w)
          \/ ServerCloses(w)
          \/ SocketClosed(w)
    \/ Destroy

Spec == Init /\ [][Next]_vars

-------------------------------------------------------------------------------
(* The service tells the truth about its connection: it says "open" only   *)
(* of a socket of its own that has opened and has not been closed.  Code:  *)
(* the fields of CollaborationWebSocketService, isConnected.               *)
TypeOK ==
    /\ alive \in Workspaces \cup {None}
    /\ flow \in [Workspaces -> {"new", "ticket", "ack", "init", "sync", "active", "error"}]
    /\ socket \in Workspaces \cup {None}
    /\ state \in {"idle", "requesting-ticket", "connecting", "open", "closed", "error"}
    /\ session \in {DocumentOf[w] : w \in Workspaces} \cup {None}
    /\ sock \in [Workspaces -> {"none", "connecting", "open", "closing", "closed"}]
    /\ acked \subseteq Workspaces
    /\ buffers \subseteq Joins
    /\ routes \subseteq Workspaces
    /\ answered \in [Workspaces -> SUBSET Workspaces]
    /\ late \subseteq Workspaces
    /\ heard \in [Workspaces -> SUBSET Workspaces]
    /\ state = "open" => socket # None /\ sock[socket] \in {"open", "closing"}

(* A workspace never takes a message of a socket that was there before its *)
(* own: one of an earlier workspace, for another document, reaches it only *)
(* if the ticket for that socket was answered after its own.  Code: the    *)
(* test "this.socket !== socket" of the listeners, disconnect in connect.  *)
HeardInOrder ==
    \A w \in Workspaces : heard[w] \cap answered[w] = {}

(* No socket stays behind when its workspace goes: the user does not stay  *)
(* in the room of a document that is no longer on the screen, unless some  *)
(* ticket was answered when its workspace had gone already.  Code: the     *)
(* callback of the DestroyRef, disconnect.                                 *)
NoSocketLeftBehind ==
    late = {} => \A w \in Workspaces : sock[w] \in Live => alive = w
================================================================================
