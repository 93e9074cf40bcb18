---------------------------- MODULE CollabWorkspace ----------------------------
(***************************************************************************)
(* One collaboration workspace in a browser: collab-workspace.component.ts *)
(* and collab-chat.component.ts, with the room of its document and the     *)
(* worker as they look from there.                                         *)
(*                                                                         *)
(* The room's events are one sequence, "log", in the order in which the    *)
(* browser's own hub broadcasts them; an event is known by its place in    *)
(* it.  The socket brings the browser what is appended from its own        *)
(* arrival on, but for what another node failed to publish; and while a    *)
(* room is made again two consumers serve it, which bring what is old or   *)
(* has been brought already.  The worker gets the events of each           *)
(* participant in order, but for those whose publication failed, and those *)
(* of different participants in any.                                       *)
(*                                                                         *)
(* A flow is a sequence of awaits: "awaits" is the one it is suspended in, *)
(* and what the code does between two of them is one action.               *)
(***************************************************************************)
EXTENDS Integers, Sequences, FiniteSets, SequencesExt

CONSTANTS
    Me,         \* the participant this workspace belongs to
    Others,     \* the other participants
    Present,    \* those of them that are in the session a workspace joins
    MaxEvents,  \* bound: events of the room
    MaxLost,    \* bound: what the user sends to nobody
    MaxActs     \* bound: those, and what is missed or brought out of turn

ASSUME WorkspaceAssumption ==
    /\ Me \notin Others
    /\ Present \subseteq Others
    /\ IsFiniteSet(Others)
    /\ MaxEvents \in Nat
    /\ MaxLost \in Nat
    /\ MaxActs \in Nat

VARIABLES
    mode,       \* CollabWorkspaceMode
    phase,      \* WorkspacePhase
    awaits,     \* what the flow waits for
    wsState,    \* state of the socket as the browser sees it
    buffering,  \* bufferSub is subscribed
    buffer,     \* what it has collected
    routed,     \* the three routes are subscribed
    view,       \* userCount, usernames, remoteUpdates$ and chatMessages$
    chat,       \* the chat component, and whether it depends on usernames()
    unknown,    \* chat lines it has last shown with the sender "Unknown user"
    log,        \* what happened in the room
    room,       \* who is in the room
    since,      \* our own arrival in the log, or 0
    pos,        \* the last event the socket has brought
    worker,     \* the DocumentRuntime: what it has applied, and its state
    reply,      \* the answer to syncDocument on its way: a set of 0 or 1
    heard,      \* history: what the socket has brought since we listen
    snap,       \* history: what the worker had applied at the sync, its names
    synced,     \* history: how much was heard before the sync was answered
    lost,       \* history: how often something was sent to nobody
    faults      \* bound: how often an event was missed or out of turn

flowVars == <<mode, phase, awaits, buffering, buffer, routed>>
roomVars == <<log, room>>
chatVars == <<chat, unknown>>
historyVars == <<heard, snap, synced, lost, faults>>

vars == <<flowVars, wsState, view, chatVars, roomVars, since, pos, worker, reply, historyVars>>

Names == Others \cup {Me}

Event == [type : {"change", "chat", "joined", "left"}, who : Names]

ParticipantEvents == {"joined", "left"}

(* What the two streams and the participant signals hold; a set for the    *)
(* Yjs updates, which commute and are idempotent.                          *)
View == [userCount     : Int,
         usernames     : SUBSET Names,
         remoteUpdates : SUBSET (1..MaxEvents + 1),
         chatMessages  : Seq(1..MaxEvents + 1)]

OfType(types, S) == {i \in S : log[i].type \in types}

(* Who a set of events leaves in the room, and how many. *)
Members(S) == (IF mode = "join" THEN Cardinality(Present) ELSE 0)
              + Cardinality(OfType({"joined"}, S)) - Cardinality(OfType({"left"}, S))

-------------------------------------------------------------------------------
Init ==
    /\ mode \in {"initialize", "join"}
    /\ phase = "connecting"
    /\ awaits = "ticket"
    /\ wsState = "requesting-ticket"
    /\ buffering = FALSE
    /\ buffer = <<>>
    /\ routed = FALSE
    /\ view = [userCount |-> 1, usernames |-> {}, remoteUpdates |-> {}, chatMessages |-> <<>>]
    /\ chat = "absent"
    /\ unknown = {}
    /\ log = <<>>
    /\ room = IF mode = "join" THEN Present ELSE {}
    /\ since = 0
    /\ pos = 0
    /\ worker = [running |-> mode = "join", applied |-> {}, missed |-> {}, chatHistory |-> <<>>,
                 userCount |-> Cardinality(room), participants |-> room]
    /\ reply = {}
    /\ heard = <<>>
    /\ snap = [events |-> {}, usernames |-> {}]
    /\ synced = 0
    /\ lost = 0
    /\ faults = 0

-------------------------------------------------------------------------------
(* The room.                                                               *)

(* Bound: once the workspace shows its error there is nothing more to see  *)
(* of the room.                                                            *)
Watched == phase # "error"

Another == Len(log) < MaxEvents /\ Len(log) + faults < MaxActs

Publish(type, who) == log' = Append(log, [type |-> type, who |-> who])

(* Another participant enters, leaves, edits or writes; who edits or       *)
(* writes has an active workspace, and so there is a worker.               *)
OtherActs(o, type) ==
    /\ Watched
    /\ Another
    /\ CASE type = "joined" -> o \notin room /\ room' = room \cup {o}
         [] type = "left"   -> o \in room /\ room' = room \ {o}
         [] OTHER           -> o \in room /\ worker.running /\ UNCHANGED room
    /\ Publish(type, o)
    /\ UNCHANGED <<flowVars, wsState, view, chatVars, since, pos, worker, reply, historyVars>>

(* ServeHTTP registers the socket and the hub announces it to the room,    *)
(* ourselves included.                                                     *)
Register ==
    /\ Watched
    /\ wsState = "connecting"
    /\ Another
    /\ wsState' = "open"
    /\ room' = room \cup {Me}
    /\ Publish("joined", Me)
    /\ since' = Len(log) + 1
    /\ pos' = Len(log)
    /\ UNCHANGED <<flowVars, view, chatVars, worker, reply, historyVars>>

(* The hub gives the connection up; the browser hears of it later. *)
HubCloses ==
    /\ Watched
    /\ Me \in room
    /\ room' = room \ {Me}
    /\ Publish("left", Me)
    /\ UNCHANGED <<flowVars, wsState, view, chatVars, since, pos, worker, reply, historyVars>>

(* The 'close' event: refused, lost, or closed by the hub. *)
SocketCloses ==
    /\ Watched
    /\ wsState \in {"connecting", "open"}
    /\ wsState' = "closed"
    /\ UNCHANGED <<flowVars, view, chatVars, roomVars, since, pos, worker, reply, historyVars>>

-------------------------------------------------------------------------------
(* The worker.                                                             *)

(* Bound: nobody asks the worker again once it has answered. *)
Unanswered == awaits # "nothing" /\ reply = {}

(* The event i is the next of its participant for the worker. *)
NextForWorker(i) ==
    /\ Watched /\ Unanswered
    /\ worker.running
    /\ i \notin worker.applied \cup worker.missed
    /\ \A j \in 1..i - 1 : log[j].who = log[i].who => j \in worker.applied \cup worker.missed

(* applyEnvelope *)
WorkerApplies(i) ==
    LET e == log[i] IN
    /\ NextForWorker(i)
    /\ worker' = [worker EXCEPT
                    !.applied = @ \cup {i},
                    !.chatHistory = IF e.type = "chat" THEN Append(@, i) ELSE @,
                    !.userCount = CASE e.type = "joined" -> @ + 1
                                    [] e.type = "left" -> IF @ > 0 THEN @ - 1 ELSE 0
                                    [] OTHER -> @,
                    !.participants = CASE e.type = "joined" -> @ \cup {e.who}
                                       [] e.type = "left" -> @ \ {e.who}
                                       [] OTHER -> @]
    /\ UNCHANGED <<flowVars, wsState, view, chatVars, roomVars, since, pos, reply, historyVars>>

Fault == Len(log) + faults < MaxActs /\ faults' = faults + 1

(* The hub failed to publish what it had broadcast to its own clients. *)
WorkerMisses(i) ==
    /\ NextForWorker(i)
    /\ Fault
    /\ worker' = [worker EXCEPT !.missed = @ \cup {i}]
    /\ UNCHANGED <<flowVars, wsState, view, chatVars, roomVars, since, pos, reply, heard, snap,
                   synced, lost>>

(* The backend has our init request: the worker makes a runtime for one    *)
(* user and subscribes, after some of the events have been published.      *)
StartWorker ==
    /\ awaits = "init"
    /\ ~worker.running
    /\ \E k \in since..Len(log) :
          worker' = [worker EXCEPT !.running = TRUE, !.missed = 1..k,
                                   !.userCount = 1, !.participants = {Me}]
    /\ UNCHANGED <<flowVars, wsState, view, chatVars, roomVars, since, pos, reply, historyVars>>

(* snapshot *)
Snapshot == [userCount     |-> worker.userCount,
             usernames     |-> worker.participants,
             remoteUpdates |-> OfType({"change"}, worker.applied),
             chatMessages  |-> worker.chatHistory]

AnswerSync ==
    /\ awaits = "sync"
    /\ reply = {}
    /\ worker.running
    /\ reply' = {Snapshot}
    /\ snap' = [events |-> worker.applied, usernames |-> worker.participants]
    /\ UNCHANGED <<flowVars, wsState, view, chatVars, roomVars, since, pos, worker, heard, synced,
                   lost, faults>>

-------------------------------------------------------------------------------
(* The flows.                                                              *)

(* A mutant of Take: the name of who arrives is not kept. *)
TakeNameless(v, i) ==
    LET e == log[i] IN
    CASE e.type = "change" -> [v EXCEPT !.remoteUpdates = @ \cup {i}]
      [] e.type = "joined" -> [v EXCEPT !.userCount = @ + 1, !.chatMessages = Append(@, i)]
      [] e.type = "left"   -> [v EXCEPT !.userCount = IF @ > 0 THEN @ - 1 ELSE 0,
                                        !.chatMessages = Append(@, i)]
      [] e.type = "chat"   -> [v EXCEPT !.chatMessages = Append(@, i)]

(* One event for the editor, the participant signals and the chat: the     *)
(* three routes, and the same cases when the buffer is drained.            *)
Take(v, i) ==
    LET e == log[i] IN
    CASE e.type = "change" -> [v EXCEPT !.remoteUpdates = @ \cup {i}]
      [] e.type = "joined" -> [v EXCEPT !.userCount = @ + 1,
                                        !.usernames = @ \cup {e.who},
                                        !.chatMessages = Append(@, i)]
      [] e.type = "left"   -> [v EXCEPT !.userCount = IF @ > 0 THEN @ - 1 ELSE 0,
                                        !.chatMessages = Append(@, i)]
      [] e.type = "chat"   -> [v EXCEPT !.chatMessages = Append(@, i)]

(* Lines of the chat whose sender has no name. *)
Unresolved(v, S) == {i \in S : log[i].type = "chat" /\ log[i].who \notin v.usernames}

(* The effect of the chat component, when it is mounted and whenever a     *)
(* signal it has read changes: it subscribes to the stream anew, and the   *)
(* stream replays every line.  What a line reads is usernames(); without   *)
(* any line the effect does not depend on it.                              *)
ShowChat ==
    /\ phase = "active"
    /\ chat \in {"absent", "due"}
    /\ chat' = IF view.chatMessages = <<>> THEN "untracking" ELSE "tracking"
    /\ unknown' = Unresolved(view, ToSet(view.chatMessages))
    /\ UNCHANGED <<flowVars, wsState, view, roomVars, since, pos, worker, reply, historyVars>>

Fail ==
    /\ phase' = "error"
    /\ awaits' = "nothing"

(* A mutant of Connect: the buffer is left to the acknowledgement. *)
ConnectUnbuffered ==
    /\ awaits = "ticket"
    /\ wsState' = "connecting"
    /\ awaits' = "ack"
    /\ UNCHANGED <<mode, phase, buffering, buffer, routed, view, chatVars, roomVars, since, pos,
                   worker, reply, historyVars>>

(* connect goes on with its ticket: it opens the socket and returns, and   *)
(* the join flow subscribes its buffer before any message can arrive.      *)
Connect ==
    /\ awaits = "ticket"
    /\ wsState' = "connecting"
    /\ awaits' = "ack"
    /\ buffering' = (mode = "join")
    /\ UNCHANGED <<mode, phase, buffer, routed, view, chatVars, roomVars, since, pos, worker,
                   reply, historyVars>>

(* inbound$ brings connection.ack, which the hub sends after the arrival.  *)
Acknowledged ==
    /\ awaits = "ack"
    /\ wsState = "open"
    /\ since # 0 /\ pos >= since
    /\ phase' = "syncing"
    /\ awaits' = IF mode = "initialize" THEN "init" ELSE "sync"
    /\ UNCHANGED <<mode, buffering, buffer, routed, wsState, view, chatVars, roomVars, since,
                   pos, worker, reply, historyVars>>

(* The workspace has subscribed to inbound$: at once to join, and for good *)
(* once it has initialized.                                                *)
Listening == mode = "join" \/ awaits = "sync" \/ phase = "active"

(* The lines that are shown as they come, and those without a name. *)
Shown(v, i) ==
    IF phase # "active" \/ chat = "absent" \/ log[i].type = "change" THEN UNCHANGED chatVars
    ELSE /\ unknown' = (unknown \ {i}) \cup Unresolved(v, {i})
         /\ chat' = IF chat = "tracking" /\ log[i].type = "joined" THEN "due" ELSE chat

(* inbound$ brings an event of the room: to the buffer, or to the routes. *)
Bring(i) ==
    /\ Watched
    /\ wsState = "open" /\ since # 0 /\ Me \in room
    /\ buffer' = IF buffering THEN Append(buffer, i) ELSE buffer
    /\ view' = IF routed THEN Take(view, i) ELSE view
    /\ Shown(view', i)
    /\ heard' = IF Listening THEN Append(heard, i) ELSE heard
    /\ UNCHANGED <<mode, phase, awaits, routed, buffering, wsState, roomVars, since, worker, reply,
                   snap, synced, lost>>

(* The next one. *)
Receive ==
    /\ pos < Len(log)
    /\ pos' = pos + 1
    /\ Bring(pos')
    /\ UNCHANGED faults

(* The next one never reached our node. *)
Miss ==
    /\ Watched
    /\ wsState = "open" /\ since # 0 /\ Me \in room
    /\ pos < Len(log)
    /\ log[pos + 1].who # Me
    /\ Fault
    /\ pos' = pos + 1
    /\ UNCHANGED <<flowVars, wsState, view, chatVars, roomVars, since, worker, reply, heard, snap,
                   synced, lost>>

(* A second consumer of a room that has been made again brings an event of *)
(* another node once more, or late.                                        *)
BringAgain(i) ==
    /\ i <= pos
    /\ log[i].who # Me
    /\ Fault
    /\ Bring(i)
    /\ UNCHANGED pos

(* initializeDocument has answered: the routes are subscribed, and the     *)
(* state is asked for like a joiner's.                                     *)
Initialized ==
    /\ awaits = "init"
    /\ worker.running
    /\ routed' = TRUE
    /\ awaits' = "sync"
    /\ UNCHANGED <<mode, phase, buffering, buffer, wsState, view, chatVars, roomVars, since, pos,
                   worker, reply, historyVars>>

(* A mutant of Activate: the buffer stays subscribed. *)
ActivateBuffering(v) ==
    /\ view' = v
    /\ synced' = Len(heard)
    /\ phase' = "active"
    /\ awaits' = "nothing"
    /\ reply' = {}
    /\ routed' = TRUE
    /\ UNCHANGED <<mode, wsState, buffering, buffer, chatVars, roomVars, since, pos, worker, heard,
                   snap, lost, faults>>

(* The synchronous end of both flows: what has been collected becomes the  *)
(* view, the buffer is unsubscribed, the routes are, the phase is active.  *)
Activate(v) ==
    /\ view' = v
    /\ synced' = Len(heard)
    /\ phase' = "active"
    /\ awaits' = "nothing"
    /\ reply' = {}
    /\ buffering' = FALSE
    /\ buffer' = <<>>
    /\ routed' = TRUE
    /\ UNCHANGED <<mode, wsState, chatVars, roomVars, since, pos, worker, heard, snap, lost, faults>>

(* syncDocument has answered the init flow: names and history are set over *)
(* what the routes have brought.                                           *)
InitSynced ==
    /\ awaits = "sync" /\ mode = "initialize"
    /\ \E s \in reply :
          Activate([view EXCEPT !.usernames = s.usernames,
                                !.remoteUpdates = @ \cup s.remoteUpdates,
                                !.chatMessages = @ \o s.chatMessages])

(* Mutants of JoinSynced: the snapshot counts us already; the buffer is    *)
(* drained before the history.                                             *)
JoinSyncedCounted ==
    /\ awaits = "sync" /\ mode = "join"
    /\ \E s \in reply : Activate(FoldLeft(Take, s, buffer))

JoinSyncedHistoryLast ==
    /\ awaits = "sync" /\ mode = "join"
    /\ \E s \in reply :
          LET v == FoldLeft(Take, [s EXCEPT !.userCount = @ - 1, !.chatMessages = <<>>], buffer)
          IN  Activate([v EXCEPT !.chatMessages = @ \o s.chatMessages])

(* syncDocument has answered the join flow: the snapshot, then the buffer. *)
JoinSynced ==
    /\ awaits = "sync" /\ mode = "join"
    /\ \E s \in reply : Activate(FoldLeft(Take, [s EXCEPT !.userCount = @ - 1], buffer))

(* A request of the flow fails: the ticket, initializeDocument or          *)
(* syncDocument, which is a 404 when the worker has no runtime.            *)
RequestFails ==
    /\ awaits \in {"ticket", "init", "sync"}
    /\ Fail
    /\ UNCHANGED <<mode, buffering, buffer, routed, wsState, view, chatVars, roomVars, since, pos,
                   worker, reply, historyVars>>

(* A mutant of NoticeClosed: it only watches while the flow runs. *)
NoticeClosedEarly ==
    /\ phase = "syncing"
    /\ wsState = "closed"
    /\ Fail
    /\ UNCHANGED <<mode, buffering, buffer, routed, wsState, view, chatVars, roomVars, since, pos,
                   worker, reply, historyVars>>

(* The effect of the constructor: it watches the socket once active. *)
NoticeClosed ==
    /\ phase = "active"
    /\ wsState = "closed"
    /\ Fail
    /\ UNCHANGED <<mode, buffering, buffer, routed, wsState, view, chatVars, roomVars, since, pos,
                   worker, reply, historyVars>>

(* onYjsUpdate and onSendMessage.  The editor has its own change already;  *)
(* a line of the chat comes back with the room's events.  Without an open  *)
(* socket the change is dropped and the line too: the draft is cleared     *)
(* whether the listener of sendMessage throws or not.                      *)
Send(type) ==
    /\ phase = "active"
    /\ IF wsState = "open" /\ Me \in room
       THEN /\ Another
            /\ Publish(type, Me)
            /\ view' = IF type = "change"
                       THEN [view EXCEPT !.remoteUpdates = @ \cup {Len(log) + 1}] ELSE view
            /\ UNCHANGED lost
       ELSE /\ lost < MaxLost
            /\ lost' = lost + 1
            /\ UNCHANGED <<log, view>>
    /\ UNCHANGED <<flowVars, wsState, chatVars, room, since, pos, worker, reply, heard, snap, synced,
                   faults>>

-------------------------------------------------------------------------------
Next ==
    \/ \E o \in Others, type \in {"joined", "left", "change", "chat"} : OtherActs(o, type)
    \/ Register
    \/ HubCloses
    \/ SocketCloses
    \/ \E i \in 1..Len(log) : WorkerApplies(i) \/ WorkerMisses(i) \/ BringAgain(i)
    \/ StartWorker
    \/ AnswerSync
    \/ Connect
    \/ Acknowledged
    \/ Receive \/ Miss
    \/ Initialized
    \/ InitSynced
    \/ JoinSynced
    \/ RequestFails
    \/ NoticeClosed
    \/ ShowChat
    \/ \E type \in {"change", "chat"} : Send(type)

(* The event loop runs what is ready, requests are answered, and a         *)
(* connection that the hub has closed is reported as closed.  Nobody has   *)
(* to act, and a connection need never be acknowledged.                    *)
Fairness ==
    /\ WF_vars(awaits = "ticket" /\ (Connect \/ RequestFails))
    /\ WF_vars(Register \/ (wsState = "connecting" /\ SocketCloses))
    /\ WF_vars(Me \notin room /\ since # 0 /\ SocketCloses)
    /\ WF_vars(Acknowledged)
    /\ WF_vars(Receive)
    /\ WF_vars(StartWorker)
    /\ WF_vars(AnswerSync)
    /\ WF_vars(Initialized)
    /\ WF_vars(InitSynced)
    /\ WF_vars(JoinSynced)
    /\ WF_vars(NoticeClosed)

Spec == Init /\ [][Next]_vars /\ Fairness

-------------------------------------------------------------------------------
(* A workspace is well formed: an active one has left its flow behind,     *)
(* only a joiner buffers, and the socket never brings what has not         *)
(* happened.  Code: the signals and subscriptions of the component.        *)
TypeOK ==
    /\ mode \in {"initialize", "join"}
    /\ phase \in {"connecting", "syncing", "active", "error"}
    /\ awaits \in {"ticket", "ack", "init", "sync", "nothing"}
    /\ wsState \in {"requesting-ticket", "connecting", "open", "closed"}
    /\ buffering \in BOOLEAN /\ routed \in BOOLEAN
    /\ (buffering => mode = "join") /\ (buffering => ~routed)
    /\ (phase = "active") => awaits = "nothing" /\ routed
    /\ view \in View
    /\ log \in Seq(Event) /\ Len(log) <= MaxEvents + 1
    /\ room \subseteq Names
    /\ pos \in 0..Len(log)
    /\ chat \in {"absent", "untracking", "tracking", "due"}
    /\ unknown \subseteq 1..Len(log)
    /\ worker.applied \cup worker.missed \subseteq 1..Len(log)

(* What has reached an active workspace: what the worker had applied when  *)
(* it answered, and what the socket has brought since it was listened to.  *)
Reached == snap.events \cup ToSet(heard)

(* Nothing is lost between the snapshot and the live feed.  An active      *)
(* workspace lacks a change or a line of the chat that its socket brought  *)
(* only if it did before the workspace listened, and if the worker had not *)
(* applied it when it answered.  Code: the buffer of runJoinFlow, the      *)
(* order of the steps of both flows.                                       *)
NothingLost ==
    phase = "active" =>
        /\ OfType({"change"}, Reached) \subseteq view.remoteUpdates
        /\ OfType({"chat"}, Reached) \subseteq ToSet(view.chatMessages)

(* What was first heard after something later. *)
Late == {heard[n] : n \in {n \in DOMAIN heard :
                             /\ \A k \in 1..n - 1 : heard[k] # heard[n]
                             /\ \E k \in 1..n - 1 : heard[k] > heard[n]}}

(* Where the timeline first shows a line. *)
FirstShown(i) == CHOOSE n \in DOMAIN view.chatMessages :
                    /\ view.chatMessages[n] = i
                    /\ \A k \in 1..n - 1 : view.chatMessages[k] # i

(* "the timeline is in the correct order": to somebody who joined, what a  *)
(* participant wrote first is shown first, however the history and the     *)
(* buffer overlap, unless the worker has missed it or the socket brought   *)
(* it late.  Code: the comment and the order of the pushes in runJoinFlow. *)
JoinedTimelineInOrder ==
    phase = "active" /\ mode = "join" =>
        \A i, j \in OfType({"chat"}, ToSet(view.chatMessages)) :
            i < j /\ log[i].who = log[j].who /\ i \notin worker.missed \cup (Late \ snap.events)
               => FirstShown(i) < FirstShown(j)

(* How often an arrival or a departure went into the number of users: each *)
(* time the socket brought it, in the snapshot, and as the initial one.    *)
TimesCounted(i) ==
    (IF i = since /\ mode = "join" THEN 0 ELSE Cardinality({n \in DOMAIN heard : heard[n] = i}))
    + (IF i \in snap.events /\ mode = "join" THEN 1 ELSE 0)
    + (IF i = since /\ mode = "initialize" THEN 1 ELSE 0)

(* How often that is too often, or too seldom. *)
Miscounted(i) ==
    LET d == TimesCounted(i) - (IF i <= pos THEN 1 ELSE 0) IN IF d < 0 THEN -d ELSE d

(* The number of users shown differs from the number of users in the room  *)
(* by no more than how often arrivals and departures were counted too much *)
(* or not at all: those the worker had counted and the socket brought as   *)
(* well, those neither did, and those that were brought again.  Code:      *)
(* userCount of both flows, with its "- 1", and the arrival of the         *)
(* workspace itself.                                                       *)
CountDrift ==
    phase = "active" =>
        LET events == OfType(ParticipantEvents, 1..Len(log))
            wrong == FoldSet(LAMBDA i, n : Miscounted(i) + n, 0, events)
        IN  view.userCount - Members(1..pos) \in -wrong..wrong

(* Where a participant's name was heard; the answer to the init flow is    *)
(* set over the names that were heard before it.                           *)
Naming(who) ==
    {n \in DOMAIN heard : /\ mode = "initialize" => n > synced
                          /\ log[heard[n]] = [type |-> "joined", who |-> who]}

(* A line was last shown with an unknown sender only if the name was not   *)
(* in the answer and has not been heard since, or it was heard after the   *)
(* line by a chat that was empty when it was mounted, and so shows nothing *)
(* anew.                                                                   *)
(* Code: "Keep the username entry so historical chat messages can still    *)
(* resolve it", usernames of both flows, the effect of the chat component. *)
UnknownOnlyIfUnheard ==
    phase = "active" /\ chat # "due" =>
        \A i \in unknown :
            /\ log[i].who \notin snap.usernames
            /\ \A n \in Naming(log[i].who) :
                  chat = "untracking" /\ \A m \in n..Len(heard) : heard[m] # i

(* What the user sends to nobody is followed by the error view: no edit    *)
(* and no line disappears into a workspace that goes on.  Code: the catch  *)
(* of onYjsUpdate, the effect of the constructor.                          *)
LossIsNoticed == (lost > 0) ~> (phase = "error")
================================================================================
