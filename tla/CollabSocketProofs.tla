--------------------------- MODULE CollabSocketProofs ---------------------------
(***************************************************************************)
(* The invariants of CollabSocket for any number of workspaces.            *)
(*                                                                         *)
(* None is inductive by itself.  What they rest on is that a workspace has *)
(* no socket before its ticket is answered (WaitingHasNothing), so that a  *)
(* socket never becomes the service's a second time (Replaced), and that,  *)
(* when no ticket was answered late, the only socket that lives is both    *)
(* the service's and that of the workspace on the screen (Owned).          *)
(***************************************************************************)
EXTENDS CollabSocket, TLAPS

(* A workspace that still waits for its ticket has no socket and has heard *)
(* nothing.                                                                *)
WaitingHasNothing ==
    \A w \in Workspaces :
        flow[w] \in {"new", "ticket"} =>
            sock[w] = "none" /\ w \notin buffers \cup routes /\ heard[w] = {}

(* What was there before the ticket of a workspace had been made. *)
Earlier ==
    \A w \in Workspaces : \A v \in answered[w] : sock[v] # "none"

(* The service's socket is not older than that of any workspace. *)
Replaced ==
    \A w \in Workspaces : socket \notin answered[w]

(* Without a late ticket, a live socket belongs to who is on the screen. *)
Owned ==
    late = {} => \A w \in Workspaces : sock[w] \in Live => alive = w /\ socket = w

IInv ==
    /\ TypeOK
    /\ WaitingHasNothing
    /\ Earlier
    /\ Replaced
    /\ HeardInOrder
    /\ Owned

-------------------------------------------------------------------------------
LEMMA NoneIsNoWorkspace == None \notin Workspaces
BY SocketAssumption DEF None

LEMMA InitIInv == Init => IInv
<1> SUFFICES ASSUME Init PROVE IInv
  OBVIOUS
<1> USE DEF Init
<1>1. TypeOK
  BY DEF TypeOK, None
<1>2. WaitingHasNothing /\ Earlier /\ Replaced /\ HeardInOrder
  BY DEF WaitingHasNothing, Earlier, Replaced, HeardInOrder
<1>3. Owned
  BY DEF Owned, Live
<1> QED
  BY <1>1, <1>2, <1>3 DEF IInv

(* disconnect leaves no socket alive that the service had. *)
LEMMA DisconnectEffect ==
    ASSUME TypeOK, Disconnect
    PROVE  /\ socket' = None
           /\ sock' \in [Workspaces -> {"none", "connecting", "open", "closing", "closed"}]
           /\ \A w \in Workspaces : (sock'[w] = "none") <=> (sock[w] = "none")
           /\ \A w \in Workspaces : sock'[w] \in Live => sock[w] \in Live /\ w # socket
<1>1. CASE socket # None /\ sock[socket] \in Live
  <2>1. socket \in Workspaces
    BY <1>1 DEF TypeOK
  <2>2. sock' = [sock EXCEPT ![socket] = "closing"] /\ socket' = None
    BY <1>1 DEF Disconnect
  <2> QED
    BY <1>1, <2>1, <2>2 DEF TypeOK, Live
<1>2. CASE ~(socket # None /\ sock[socket] \in Live)
  <2>1. sock' = sock /\ socket' = None
    BY <1>2 DEF Disconnect
  <2> QED
    BY <1>2, <2>1, NoneIsNoWorkspace DEF TypeOK, Live
<1> QED
  BY <1>1, <1>2

-------------------------------------------------------------------------------
(* The steps that move the service to another socket. *)

LEMMA OpenStep ==
    ASSUME IInv, NEW w \in Workspaces, Open(w)
    PROVE  IInv'
<1> USE DEF IInv
<1>1. CASE DocumentOf[w] = 0
  <2>1. /\ flow' = [flow EXCEPT ![w] = "error"] /\ alive' = w
        /\ UNCHANGED <<socket, state, session, sock, acked, buffers, routes, answered, late,
                       heard>>
    BY <1>1 DEF Open, serviceVars, historyVars
  <2>2. alive = None
    BY DEF Open
  <2>3. TypeOK'
    BY <2>1 DEF TypeOK
  <2>4. (WaitingHasNothing /\ Earlier /\ Replaced /\ HeardInOrder)'
    BY <2>1 DEF TypeOK, WaitingHasNothing, Earlier, Replaced, HeardInOrder
  <2>5. Owned'
    BY <2>1, <2>2, NoneIsNoWorkspace DEF Owned
  <2> QED
    BY <2>3, <2>4, <2>5
<1>2. CASE DocumentOf[w] # 0
  <2>1. /\ flow' = [flow EXCEPT ![w] = "ticket"] /\ alive' = w
        /\ Disconnect
        /\ state' = "requesting-ticket" /\ session' = None
        /\ UNCHANGED <<acked, buffers, routes, answered, late, heard>>
    BY <1>2 DEF Open, historyVars
  <2>2. alive = None /\ flow[w] = "new"
    BY DEF Open
  <2>3. /\ socket' = None
        /\ sock' \in [Workspaces -> {"none", "connecting", "open", "closing", "closed"}]
        /\ \A v \in Workspaces : (sock'[v] = "none") <=> (sock[v] = "none")
        /\ \A v \in Workspaces : sock'[v] \in Live => sock[v] \in Live /\ v # socket
    BY <2>1, DisconnectEffect
  <2>4. TypeOK'
    BY <2>1, <2>3 DEF TypeOK
  <2>5. WaitingHasNothing'
    BY <2>1, <2>2, <2>3 DEF TypeOK, WaitingHasNothing
  <2>6. Earlier' /\ HeardInOrder'
    BY <2>1, <2>3 DEF TypeOK, Earlier, HeardInOrder
  <2>7. Replaced'
    BY <2>1, <2>3, NoneIsNoWorkspace DEF TypeOK, Replaced
  <2>8. Owned'
    BY <2>1, <2>2, <2>3, NoneIsNoWorkspace DEF Owned
  <2> QED
    BY <2>4, <2>5, <2>6, <2>7, <2>8
<1> QED
  BY <1>1, <1>2

LEMMA DestroyStep ==
    ASSUME IInv, Destroy
    PROVE  IInv'
<1> USE DEF IInv
<1>1. /\ alive' = None /\ routes' = routes \ {alive} /\ state' = "closed"
      /\ Disconnect
      /\ UNCHANGED <<flow, session, acked, buffers, answered, late, heard>>
  BY DEF Destroy, historyVars
<1>2. /\ socket' = None
      /\ sock' \in [Workspaces -> {"none", "connecting", "open", "closing", "closed"}]
      /\ \A v \in Workspaces : (sock'[v] = "none") <=> (sock[v] = "none")
      /\ \A v \in Workspaces : sock'[v] \in Live => sock[v] \in Live /\ v # socket
  BY <1>1, DisconnectEffect
<1>3. TypeOK'
  BY <1>1, <1>2 DEF TypeOK
<1>4. WaitingHasNothing' /\ Earlier' /\ HeardInOrder'
  BY <1>1, <1>2 DEF TypeOK, WaitingHasNothing, Earlier, HeardInOrder
<1>5. Replaced'
  BY <1>1, <1>2, NoneIsNoWorkspace DEF TypeOK, Replaced
<1>6. Owned'
  BY <1>1, <1>2 DEF Owned
<1> QED
  BY <1>3, <1>4, <1>5, <1>6

LEMMA TicketStep ==
    ASSUME IInv, NEW w \in Workspaces, TicketAnswered(w)
    PROVE  IInv'
<1> USE DEF IInv
<1>1. /\ flow[w] = "ticket"
      /\ flow' = [flow EXCEPT ![w] = "ack"] /\ state' = "connecting" /\ socket' = w
      /\ sock' = [sock EXCEPT ![w] = "connecting"]
      /\ answered' = [answered EXCEPT ![w] = {v \in Workspaces : sock[v] # "none"}]
      /\ buffers' = IF w \in Joins THEN buffers \cup {w} ELSE buffers
      /\ late' = IF alive = w THEN late ELSE late \cup {w}
      /\ UNCHANGED <<alive, session, acked, routes, heard>>
  BY DEF TicketAnswered
<1>2. sock[w] = "none" /\ heard[w] = {}
  BY <1>1 DEF WaitingHasNothing
<1>3. TypeOK'
  BY <1>1 DEF TypeOK
<1>4. WaitingHasNothing' /\ Earlier'
  BY <1>1 DEF TypeOK, WaitingHasNothing, Earlier
<1>5. Replaced'
  BY <1>1, <1>2 DEF TypeOK, Replaced, Earlier
<1>6. HeardInOrder'
  BY <1>1, <1>2 DEF TypeOK, HeardInOrder
<1>7. Owned'
  <2> SUFFICES ASSUME late' = {}, NEW v \in Workspaces, sock'[v] \in Live
               PROVE  alive' = v /\ socket' = v
    BY DEF Owned
  <2>1. alive = w /\ late = {}
    BY <1>1
  <2>2. v = w \/ sock[v] \in Live
    BY <1>1 DEF TypeOK
  <2> QED
    BY <1>1, <2>1, <2>2 DEF Owned
<1> QED
  BY <1>3, <1>4, <1>5, <1>6, <1>7

-------------------------------------------------------------------------------
(* A message is heard by those who listen to the service's socket. *)
LEMMA MessageStep ==
    ASSUME IInv, NEW w \in Workspaces, NEW type \in {"connection.ack", "doc.change"},
           Message(w, type)
    PROVE  IInv'
<1> USE DEF IInv
<1>1. /\ acked' \subseteq Workspaces
      /\ UNCHANGED <<alive, socket, state, sock, buffers, routes, answered, late>>
  BY DEF Message, TypeOK
<1>2. CASE socket = w
  <2>1. /\ session' = IF type = "connection.ack" THEN DocumentOf[w] ELSE session
        /\ flow' = IF type = "connection.ack" THEN Acknowledged ELSE flow
        /\ heard' = [u \in Workspaces |->
                       IF u \in Listeners(type) THEN heard[u] \cup {w} ELSE heard[u]]
    BY <1>2 DEF Message
  <2>3. TypeOK'
    BY <1>1, <2>1 DEF TypeOK, Acknowledged
  <2>4. Earlier' /\ Replaced' /\ Owned'
    BY <1>1 DEF Earlier, Replaced, Owned
  <2>5. HeardInOrder'
    <3> SUFFICES ASSUME NEW u \in Workspaces
                 PROVE  heard'[u] \cap answered'[u] = {}
      BY DEF HeardInOrder
    <3>1. heard'[u] \subseteq heard[u] \cup {w}
      BY <2>1
    <3>2. w \notin answered[u]
      BY <1>2 DEF Replaced
    <3>3. heard[u] \cap answered[u] = {}
      BY DEF HeardInOrder
    <3> QED
      BY <1>1, <3>1, <3>2, <3>3
  <2>6. WaitingHasNothing'
    <3> SUFFICES ASSUME NEW u \in Workspaces, flow'[u] \in {"new", "ticket"}
                 PROVE  sock'[u] = "none" /\ u \notin buffers' \cup routes' /\ heard'[u] = {}
      BY DEF WaitingHasNothing
    <3>1. flow[u] \in {"new", "ticket"}
      BY <2>1 DEF Acknowledged
    <3>2. u \notin Listeners(type)
      BY <3>1 DEF Listeners, WaitingHasNothing
    <3> QED
      BY <1>1, <2>1, <3>1, <3>2 DEF WaitingHasNothing
  <2> QED
    BY <2>3, <2>4, <2>5, <2>6
<1>3. CASE socket # w
  <2>1. UNCHANGED <<flow, heard, session>>
    BY <1>3 DEF Message
  <2>2. TypeOK'
    BY <1>1, <2>1 DEF TypeOK
  <2>3. WaitingHasNothing' /\ Earlier' /\ Replaced' /\ HeardInOrder' /\ Owned'
    BY <1>1, <2>1 DEF WaitingHasNothing, Earlier, Replaced, HeardInOrder, Owned
  <2> QED
    BY <2>2, <2>3
<1> QED
  BY <1>2, <1>3

(* The steps of a flow that leave the service and the sockets alone. *)
LEMMA FlowStep ==
    ASSUME IInv, NEW w \in Workspaces,
           RequestFails(w) \/ Initialized(w) \/ Synced(w) \/ NoticeClosed(w)
    PROVE  IInv'
<1> USE DEF IInv
<1>1. /\ UNCHANGED <<alive, socket, state, session, sock, acked, answered, late, heard>>
      /\ routes' \in {routes, routes \cup {w}} /\ buffers' \in {buffers, buffers \ {w}}
      /\ \E f \in {"sync", "active", "error"} : flow' = [flow EXCEPT ![w] = f]
  BY DEF RequestFails, Initialized, Synced, NoticeClosed, serviceVars, historyVars, TypeOK
<1>2. TypeOK'
  BY <1>1 DEF TypeOK
<1>3. WaitingHasNothing' /\ Earlier' /\ Replaced' /\ HeardInOrder' /\ Owned'
  BY <1>1 DEF TypeOK, WaitingHasNothing, Earlier, Replaced, HeardInOrder, Owned
<1> QED
  BY <1>2, <1>3

(* The events of a socket but its messages.  None makes a socket live that *)
(* was not, and a closed one is the service's no longer.                   *)
LEMMA EventStep ==
    ASSUME IInv, NEW w \in Workspaces,
           SocketOpens(w) \/ SocketFails(w) \/ ServerCloses(w) \/ SocketClosed(w)
    PROVE  IInv'
<1> USE DEF IInv
<1>1. UNCHANGED <<alive, flow, session, acked, buffers, routes, answered, late, heard>>
  BY DEF SocketOpens, SocketFails, ServerCloses, SocketClosed, serviceVars, historyVars
<1>2. /\ \E s \in {"open", "closing", "closed"} : sock' = [sock EXCEPT ![w] = s]
      /\ sock[w] # "none"
      /\ sock'[w] \in Live => sock[w] \in Live
  BY DEF SocketOpens, SocketFails, ServerCloses, SocketClosed, TypeOK, Live
<1>3. /\ socket' \in {socket, None}
      /\ socket' # socket => socket = w /\ sock'[w] = "closed"
  BY DEF SocketOpens, SocketFails, ServerCloses, SocketClosed, TypeOK, serviceVars
<1>4. TypeOK'
  <2>1. /\ socket' \in Workspaces \cup {None}
        /\ sock' \in [Workspaces -> {"none", "connecting", "open", "closing", "closed"}]
    BY <1>2, <1>3 DEF TypeOK
  <2>2. state' \in {"idle", "requesting-ticket", "connecting", "open", "closed", "error"}
    BY DEF SocketOpens, SocketFails, ServerCloses, SocketClosed, TypeOK, serviceVars
  <2>3. state' = "open" => socket' # None /\ sock'[socket'] \in {"open", "closing"}
    <3>1. CASE SocketOpens(w)
      BY <3>1, NoneIsNoWorkspace DEF SocketOpens, TypeOK
    <3>2. CASE SocketFails(w)
      BY <3>2 DEF SocketFails, TypeOK
    <3>3. CASE ServerCloses(w)
      BY <3>3 DEF ServerCloses, TypeOK, serviceVars
    <3>4. CASE SocketClosed(w)
      BY <3>4 DEF SocketClosed, TypeOK
    <3> QED
      BY <3>1, <3>2, <3>3, <3>4
  <2> QED
    BY <1>1, <2>1, <2>2, <2>3 DEF TypeOK
<1>5. WaitingHasNothing' /\ Earlier' /\ HeardInOrder'
  BY <1>1, <1>2 DEF TypeOK, WaitingHasNothing, Earlier, HeardInOrder
<1>6. Replaced'
  BY <1>1, <1>3, NoneIsNoWorkspace DEF TypeOK, Replaced
<1>7. Owned'
  <2> SUFFICES ASSUME late = {}, NEW v \in Workspaces, sock'[v] \in Live
               PROVE  alive = v /\ socket' = v
    BY <1>1 DEF Owned
  <2>1. sock[v] \in Live
    BY <1>2 DEF TypeOK
  <2>2. alive = v /\ socket = v
    BY <2>1 DEF Owned
  <2>3. v = w => sock'[w] # "closed"
    BY DEF Live
  <2> QED
    BY <1>3, <2>2, <2>3
<1> QED
  BY <1>4, <1>5, <1>6, <1>7

LEMMA NextIInv == IInv /\ [Next]_vars => IInv'
<1> SUFFICES ASSUME IInv, [Next]_vars PROVE IInv'
  OBVIOUS
<1>1. CASE UNCHANGED vars
  BY <1>1 DEF vars, serviceVars, historyVars, IInv, TypeOK, WaitingHasNothing, Earlier,
              Replaced, HeardInOrder, Owned
<1>2. ASSUME NEW w \in Workspaces, Open(w) PROVE IInv'
  BY <1>2, OpenStep
<1>3. ASSUME NEW w \in Workspaces, TicketAnswered(w) PROVE IInv'
  BY <1>3, TicketStep
<1>4. ASSUME NEW w \in Workspaces, NEW type \in {"connection.ack", "doc.change"},
             Message(w, type)
      PROVE  IInv'
  BY <1>4, MessageStep
<1>5. ASSUME NEW w \in Workspaces, RequestFails(w) \/ Initialized(w) \/ Synced(w) \/ NoticeClosed(w)
      PROVE  IInv'
  BY <1>5, FlowStep
<1>6. ASSUME NEW w \in Workspaces,
             SocketOpens(w) \/ SocketFails(w) \/ ServerCloses(w) \/ SocketClosed(w)
      PROVE  IInv'
  BY <1>6, EventStep
<1>7. CASE Destroy
  BY <1>7, DestroyStep
<1> QED
  BY <1>1, <1>2, <1>3, <1>4, <1>5, <1>6, <1>7 DEF Next

-------------------------------------------------------------------------------
THEOREM InductiveInvariant == Spec => []IInv
<1>1. Init => IInv
  BY InitIInv
<1>2. IInv /\ [Next]_vars => IInv'
  BY NextIInv
<1> QED
  BY <1>1, <1>2, PTL DEF Spec

(* The service says "open" only of an open socket of its own, with any     *)
(* number of workspaces.  Code: the fields of CollaborationWebSocketService *)
(* and the listeners of its sockets.                                       *)
THEOREM TypeCorrect == Spec => []TypeOK
<1>1. IInv => TypeOK
  BY DEF IInv
<1> QED
  BY InductiveInvariant, <1>1, PTL

(* No workspace takes a message of a socket that was there before its own. *)
(* Code: "this.socket !== socket" in the listeners, disconnect in connect. *)
THEOREM MessagesInOrder == Spec => []HeardInOrder
<1>1. IInv => HeardInOrder
  BY DEF IInv
<1> QED
  BY InductiveInvariant, <1>1, PTL

(* As long as no ticket was answered late, a live socket is that of the    *)
(* workspace on the screen.  Code: the callback of the DestroyRef, connect *)
(* and disconnect.                                                         *)
THEOREM SocketsGo == Spec => []NoSocketLeftBehind
<1>1. IInv => NoSocketLeftBehind
  BY DEF IInv, Owned, NoSocketLeftBehind
<1> QED
  BY InductiveInvariant, <1>1, PTL
================================================================================
