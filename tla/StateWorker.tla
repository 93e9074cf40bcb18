------------------------------ MODULE StateWorker ------------------------------
(***************************************************************************)
(* One document in a collaboration-state-worker: documentManager.ts and    *)
(* documentRuntime.ts, with the Redis connection, the backend and the      *)
(* browsers as they look from there.                                       *)
(*                                                                         *)
(* Node runs one callback at a time; an async method runs up to its next   *)
(* await, and other callbacks run before it goes on.  So an action is one  *)
(* callback: a request, a reply, a message, a timer.  What a method does   *)
(* after an await is a later action, with the values it kept: a command to *)
(* Redis and its reply carry the runtime of the call that awaits it, and   *)
(* "init" keeps the request of a browser.  The continuations that need no  *)
(* I/O (handleRedisMessage after its await) are microtasks: "checks" holds *)
(* them, and no other callback of the worker but a message of the same     *)
(* chunk runs before them.                                                 *)
(*                                                                         *)
(* The connection to Redis is one FIFO of replies and messages.  Saves are *)
(* HTTP requests of their own and overtake each other.                     *)
(***************************************************************************)
EXTENDS Integers, Sequences, FiniteSets

CONSTANTS
    Clients,      \* browsers that open the document
    Initiators,   \* bound: the browsers that may choose "collaborate"
    Editors,      \* bound: the browsers that make an edit, one each
    MaxRuntimes,  \* bound: runtimes created in a behaviour
    MaxVisits,    \* bound: how often the entry page is opened, by all browsers
    MaxTraffic,   \* bound: items under way to and from Redis when one is published
    MaxChunk      \* bound: messages of the channel in one chunk of the connection

ASSUME WorkerAssumption ==
    /\ Initiators \subseteq Clients
    /\ Editors \subseteq Clients
    /\ IsFiniteSet(Clients)
    /\ MaxRuntimes \in Nat
    /\ MaxVisits \in Nat
    /\ MaxTraffic \in Nat
    /\ MaxChunk \in Nat \ {0}

Runtimes == 1..MaxRuntimes

None == 0

VARIABLES
    map,        \* documents.get(documentId), or None
    made,       \* runtimes created so far
    rt,         \* the state of every DocumentRuntime object
    listed,     \* subscribedChannels.has(channel)
    init,       \* the init request of each browser: where it waits, with what
    checks,     \* microtasks: runtimes whose handler is about to test shouldClose
    subscribed, \* Redis: is the worker's connection subscribed to the channel
    cmds,       \* commands Redis has not served
    conn,       \* replies and messages on their way to the worker
    wire,       \* the periodic save of each runtime that is on its way, or {}
    db,         \* the backend: stored content, and is the row COLLABORATIVE
    visits,     \* how often the entry page has been opened
    phase,      \* where each browser is in the init or join flow
    base,       \* the runtime whose Y.Doc a browser's editor is built on
    edited      \* the edits made so far, named by who made them

managerVars == <<map, made, rt, listed, init, checks>>
redisVars == <<subscribed, cmds, conn>>
userVars == <<visits, phase, base, edited>>

vars == <<managerVars, redisVars, wire, db, userVars>>

-------------------------------------------------------------------------------
(* A runtime: userCount, the text as the set of edits in it, the interval  *)
(* timer, and its final save: not sent, sent, applied by the backend with  *)
(* the answer on its way, or settled.  "last" is the content it carries.   *)

Runtime == [count   : Nat,
            content : SUBSET Editors,
            timer   : BOOLEAN,
            final   : {"no", "sent", "applied", "settled"},
            last    : SUBSET Editors]

FreshRuntime(content) ==
    [count |-> 1, content |-> content, timer |-> FALSE, final |-> "no", last |-> {}]

(* shutdownCompleted *)
Shut(r) == rt[r].final # "no"

(* shutdown: the flag, the timer, and the final save with the text as of   *)
(* now.  Callers test Shut first: a second call returns at once.           *)
ShutdownOf(r) ==
    [rt EXCEPT ![r].timer = FALSE, ![r].final = "sent", ![r].last = rt[r].content]

(* What Redis is asked, which is also how it answers; what it forwards. *)
Command == [type : {"subscribe", "unsubscribe"}, runtime : Runtimes]

Subscribe(r) == [type |-> "subscribe", runtime |-> r]

Unsubscribe(r) == [type |-> "unsubscribe", runtime |-> r]

Message == [type : {"joined", "left"}]
           \cup [type : {"change"}, edit : Editors, base : Runtimes]

(* An init request: in the backend with the content it has read, in the    *)
(* worker awaiting the shutdown of a runtime or the subscription of the    *)
(* one it made, or answered and not yet followed by the lock.              *)
NoRequest == [at |-> "none", runtime |-> None, content |-> {}]

InitRequest == [at      : {"none", "sent", "shutdown", "subscribing", "answered"},
                runtime : 0..MaxRuntimes,
                content : SUBSET Editors]

(* A callback of the worker other than a message runs between microtasks. *)
Turn == checks = <<>>

(* publish on the channel: Redis forwards to whoever is subscribed now. *)
Publish(message) ==
    IF subscribed
    THEN Len(cmds) + Len(conn) < MaxTraffic /\ conn' = Append(conn, message)
    ELSE UNCHANGED conn

-------------------------------------------------------------------------------
Init ==
    /\ map = None
    /\ made = 0
    /\ rt = [r \in Runtimes |-> FreshRuntime({})]
    /\ listed = FALSE
    /\ init = [c \in Clients |-> NoRequest]
    /\ checks = <<>>
    /\ subscribed = FALSE
    /\ cmds = <<>>
    /\ conn = <<>>
    /\ wire = [r \in Runtimes |-> {}]
    /\ db = [content |-> {}, locked |-> FALSE]
    /\ visits = 0
    /\ phase = [c \in Clients |-> "out"]
    /\ base = [c \in Clients |-> None]
    /\ edited = {}

-------------------------------------------------------------------------------
(* The browsers, as the entry page and the two flows drive them.           *)

(* The entry page reads the lock and sends the user down one of the flows. *)
Enter(c) ==
    /\ phase[c] = "out"
    /\ visits < MaxVisits
    /\ visits' = visits + 1
    /\ \/ ~db.locked /\ c \in Initiators /\ phase' = [phase EXCEPT ![c] = "toInit"]
       \/ db.locked /\ phase' = [phase EXCEPT ![c] = "toJoin"]
    /\ UNCHANGED <<managerVars, redisVars, wire, db, base, edited>>

(* Both flows open the socket first; the hub publishes the arrival. *)
Connect(c) ==
    /\ \/ phase[c] = "toInit" /\ phase' = [phase EXCEPT ![c] = "initializing"]
       \/ phase[c] = "toJoin" /\ phase' = [phase EXCEPT ![c] = "syncing"]
    /\ Publish([type |-> "joined"])
    /\ UNCHANGED <<managerVars, subscribed, cmds, wire, db, visits, base, edited>>

(* The requests that will make a runtime. *)
Outstanding == {c \in Clients : init[c].at \in {"sent", "shutdown"}}

(* initializeDocument of the proxy reads the content, then calls the       *)
(* worker.  A request that its browser gave up is not withdrawn.           *)
RequestInit(c) ==
    /\ phase[c] = "initializing"
    /\ init[c] = NoRequest
    /\ made + Cardinality(Outstanding) < MaxRuntimes
    /\ phase' = [phase EXCEPT ![c] = "awaiting"]
    /\ init' = [init EXCEPT ![c] = [at |-> "sent", runtime |-> None, content |-> db.content]]
    /\ UNCHANGED <<map, made, rt, listed, checks, redisVars, wire, db, visits, base, edited>>

(* syncDocument: a snapshot of the runtime in the map, 404 without one. *)
Sync(c) ==
    /\ phase[c] = "syncing"
    /\ Turn
    /\ \/ /\ map # None
          /\ phase' = [phase EXCEPT ![c] = "active"]
          /\ base' = [base EXCEPT ![c] = map]
       \/ /\ map = None
          /\ phase' = [phase EXCEPT ![c] = "error"]
          /\ UNCHANGED base
    /\ UNCHANGED <<managerVars, redisVars, wire, db, visits, edited>>

(* An edit of the text the browser started with, on nobody else's edit. *)
Edit(c) ==
    /\ phase[c] = "active"
    /\ c \in Editors \ edited
    /\ edited' = edited \cup {c}
    /\ Publish([type |-> "change", edit |-> c, base |-> base[c]])
    /\ UNCHANGED <<managerVars, subscribed, cmds, wire, db, visits, phase, base>>

(* The socket closes; the hub publishes the departure. *)
Leave(c) ==
    /\ phase[c] \in {"initializing", "awaiting", "syncing", "active", "error"}
    /\ phase' = [phase EXCEPT ![c] = "out"]
    /\ base' = [base EXCEPT ![c] = None]
    /\ Publish([type |-> "left"])
    /\ UNCHANGED <<managerVars, subscribed, cmds, wire, db, visits, edited>>

-------------------------------------------------------------------------------
(* initializeDocument.                                                     *)

(* A mutant of Install: the timer is left to the reply of a SUBSCRIBE that *)
(* is not sent.                                                            *)
InstallWithoutTimer(c, runtimes) ==
    LET r == made + 1 IN
    /\ made' = r
    /\ map' = r
    /\ rt' = [runtimes EXCEPT ![r] = FreshRuntime(init[c].content)]
    /\ init' = [init EXCEPT ![c].at = IF listed THEN "answered" ELSE "subscribing",
                            ![c].runtime = r]
    /\ cmds' = IF listed THEN cmds ELSE Append(cmds, Subscribe(r))

(* The part after the await of shutdown: the entry goes, whichever runtime *)
(* it names by now; a new runtime takes its place, and the subscription is *)
(* awaited unless the channel is listed.                                   *)
Install(c, runtimes) ==
    LET r == made + 1
        fresh == [FreshRuntime(init[c].content) EXCEPT !.timer = listed]
    IN  /\ made' = r
        /\ map' = r
        /\ rt' = [runtimes EXCEPT ![r] = fresh]
        /\ init' = [init EXCEPT ![c].at = IF listed THEN "answered" ELSE "subscribing",
                                ![c].runtime = r]
        /\ cmds' = IF listed THEN cmds
                   ELSE Append(cmds, Subscribe(r))

(* The request arrives.  A runtime of an earlier session is shut down and, *)
(* unless that had been done, its final save awaited.                      *)
InitializeDocument(c) ==
    /\ Turn
    /\ init[c].at = "sent"
    /\ IF map # None /\ ~Shut(map)
       THEN /\ rt' = ShutdownOf(map)
            /\ init' = [init EXCEPT ![c].at = "shutdown", ![c].runtime = map]
            /\ UNCHANGED <<map, made, cmds>>
       ELSE Install(c, rt)
    /\ UNCHANGED <<listed, checks, subscribed, conn, wire, db, userVars>>

(* A mutant of PlaceLock: a request whose browser has left is not settled. *)
PlaceLockIfAwaited(c) ==
    /\ init[c].at = "answered"
    /\ phase[c] = "awaiting"
    /\ init' = [init EXCEPT ![c] = NoRequest]
    /\ \E placed \in BOOLEAN :
          /\ db' = [db EXCEPT !.locked = placed \/ @]
          /\ phase' = [phase EXCEPT ![c] = IF placed THEN "syncing" ELSE "error"]
    /\ UNCHANGED <<map, made, rt, listed, checks, redisVars, wire, visits, base, edited>>

(* The proxy places the collaborative lock once the worker has answered,   *)
(* and answers the browser, which then syncs if it is still there.  An     *)
(* exclusive lock makes the placing fail, and the session stays.           *)
PlaceLock(c) ==
    /\ init[c].at = "answered"
    /\ init' = [init EXCEPT ![c] = NoRequest]
    /\ \E placed \in BOOLEAN :
          /\ db' = [db EXCEPT !.locked = placed \/ @]
          /\ phase' = [phase EXCEPT ![c] = IF @ # "awaiting" THEN @
                                          ELSE IF placed THEN "syncing" ELSE "error"]
    /\ UNCHANGED <<map, made, rt, listed, checks, redisVars, wire, visits, base, edited>>

-------------------------------------------------------------------------------
(* Redis and its messages.                                                 *)

ServeCommand ==
    /\ cmds # <<>>
    /\ subscribed' = (Head(cmds).type = "subscribe")
    /\ conn' = Append(conn, Head(cmds))
    /\ cmds' = Tail(cmds)
    /\ UNCHANGED <<managerVars, wire, db, userVars>>

(* A mutant of HandleMessage: decrementUserCount goes below zero. *)
HandleMessageBelowZero ==
    /\ conn # <<>>
    /\ Len(checks) < MaxChunk
    /\ Head(conn) \in Message
    /\ IF map = None
       THEN UNCHANGED <<rt, checks>>
       ELSE /\ checks' = Append(checks, map)
            /\ rt' = [rt EXCEPT ![map].count =
                        CASE Head(conn).type = "joined" -> @ + 1
                          [] Head(conn).type = "left"   -> @ - 1
                          [] Head(conn).type = "change" -> @]
    /\ conn' = Tail(conn)
    /\ UNCHANGED <<map, made, listed, init, subscribed, cmds, wire, db, userVars>>

(* handleRedisMessage up to its await.  An update made on another Y.Doc    *)
(* refers to items this one does not have: Yjs keeps it pending.           *)
HandleMessage ==
    /\ conn # <<>>
    /\ Len(checks) < MaxChunk
    /\ Head(conn) \in Message
    /\ LET m == Head(conn) IN
       IF map = None
       THEN UNCHANGED <<rt, checks>>
       ELSE /\ checks' = Append(checks, map)
            /\ rt' = [rt EXCEPT
                 ![map].count = IF m.type = "joined" THEN @ + 1
                                ELSE IF m.type = "left" /\ @ > 0 THEN @ - 1
                                ELSE @,
                 ![map].content = IF m.type = "change" /\ m.base = map
                                  THEN @ \cup {m.edit} ELSE @]
    /\ conn' = Tail(conn)
    /\ UNCHANGED <<map, made, listed, init, subscribed, cmds, wire, db, userVars>>

(* A mutant of ShutdownAndDelete: no shutdownCompleted flag. *)
ShutdownAgain(r) ==
    rt' = ShutdownOf(r) /\ UNCHANGED map

(* closeDocument after unsubscribeFromDocument: shutdown, and the entry is *)
(* deleted at once when another call has shut the runtime down already.    *)
ShutdownAndDelete(r) ==
    IF Shut(r) THEN map' = None /\ UNCHANGED rt
               ELSE rt' = ShutdownOf(r) /\ UNCHANGED map

(* The microtask after the await: the last user may have left.             *)
(* closeDocument looks the runtime up anew.                                *)
CheckShouldClose ==
    /\ checks # <<>>
    /\ checks' = Tail(checks)
    /\ IF rt[Head(checks)].count > 0 \/ map = None
       THEN UNCHANGED <<map, rt, cmds>>
       ELSE IF listed
       THEN /\ cmds' = Append(cmds, Unsubscribe(map))
            /\ UNCHANGED <<map, rt>>
       ELSE ShutdownAndDelete(map) /\ UNCHANGED cmds
    /\ UNCHANGED <<made, listed, init, subscribed, conn, wire, db, userVars>>

(* A mutant of HandleSubscribed: the timer is not started.       *)
HandleSubscribedWithoutTimer ==
    /\ Turn
    /\ conn # <<>> /\ Head(conn).type = "subscribe"
    /\ conn' = Tail(conn)
    /\ listed' = TRUE
    /\ init' = [c \in Clients |->
                  IF init[c].at = "subscribing" /\ init[c].runtime = Head(conn).runtime
                  THEN [init[c] EXCEPT !.at = "answered"] ELSE init[c]]
    /\ UNCHANGED <<map, made, rt, checks, subscribed, cmds, wire, db, userVars>>

(* The reply to SUBSCRIBE: the channel is listed, and the request that     *)
(* waits for it starts the timer of the runtime it made.                   *)
HandleSubscribed ==
    /\ Turn
    /\ conn # <<>> /\ Head(conn).type = "subscribe"
    /\ conn' = Tail(conn)
    /\ listed' = TRUE
    /\ rt' = [rt EXCEPT ![Head(conn).runtime].timer = TRUE]
    /\ init' = [c \in Clients |->
                  IF init[c].at = "subscribing" /\ init[c].runtime = Head(conn).runtime
                  THEN [init[c] EXCEPT !.at = "answered"] ELSE init[c]]
    /\ UNCHANGED <<map, made, checks, subscribed, cmds, wire, db, userVars>>

HandleUnsubscribed ==
    /\ Turn
    /\ conn # <<>> /\ Head(conn).type = "unsubscribe"
    /\ conn' = Tail(conn)
    /\ listed' = FALSE
    /\ ShutdownAndDelete(Head(conn).runtime)
    /\ UNCHANGED <<made, init, checks, subscribed, cmds, wire, db, userVars>>

-------------------------------------------------------------------------------
(* Saves.                                                                  *)

(* The interval fires.  The save is not awaited; one per runtime at a time.*)
PersistToSpringBoot(r) ==
    /\ Turn
    /\ rt[r].timer
    /\ wire[r] = {}
    /\ wire' = [wire EXCEPT ![r] = {rt[r].content}]
    /\ UNCHANGED <<managerVars, redisVars, db, userVars>>

(* The backend writes the content and upserts the collaborative lock. *)
ApplyPeriodic(r) ==
    /\ \E content \in wire[r] : db' = [content |-> content, locked |-> TRUE]
    /\ wire' = [wire EXCEPT ![r] = {}]
    /\ UNCHANGED <<managerVars, redisVars, userVars>>

LosePeriodic(r) ==
    /\ wire[r] # {}
    /\ wire' = [wire EXCEPT ![r] = {}]
    /\ UNCHANGED <<managerVars, redisVars, db, userVars>>

(* The lease of the lock outlives many persist intervals: it runs out only *)
(* while nobody saves.                                                     *)
LeaseExpires ==
    /\ db.locked
    /\ \A r \in Runtimes : ~rt[r].timer /\ wire[r] = {}
    /\ db' = [db EXCEPT !.locked = FALSE]
    /\ UNCHANGED <<managerVars, redisVars, wire, userVars>>

(* The backend writes the content and deletes the lock. *)
ApplyFinal(r) ==
    /\ rt[r].final = "sent"
    /\ db' = [content |-> rt[r].last, locked |-> FALSE]
    /\ rt' = [rt EXCEPT ![r].final = "applied", ![r].last = {}]
    /\ UNCHANGED <<map, made, listed, init, checks, redisVars, wire, userVars>>

(* The answer to the final save arrives, or the save fails, which is only  *)
(* logged: the init request that waits for it installs its runtime, or     *)
(* closeDocument deletes the entry, whichever runtime it names by now.     *)
FinalSettles(r) ==
    LET settled == [rt EXCEPT ![r].final = "settled", ![r].last = {}]
        waits(c) == init[c].at = "shutdown" /\ init[c].runtime = r IN
    /\ Turn
    /\ rt[r].final \in {"sent", "applied"}
    /\ \/ \E c \in Clients : waits(c) /\ Install(c, settled)
       \/ /\ \A c \in Clients : ~waits(c)
          /\ map' = None
          /\ rt' = settled
          /\ UNCHANGED <<made, init, cmds>>
    /\ UNCHANGED <<listed, checks, subscribed, conn, wire, db, userVars>>

-------------------------------------------------------------------------------
Manager ==
    \/ \E c \in Clients : InitializeDocument(c)
    \/ HandleMessage \/ CheckShouldClose \/ HandleSubscribed \/ HandleUnsubscribed
    \/ \E r \in Runtimes : FinalSettles(r)

Saves == \E r \in Runtimes :
    PersistToSpringBoot(r) \/ ApplyPeriodic(r) \/ LosePeriodic(r) \/ ApplyFinal(r)

Browser(c) ==
    \/ Enter(c) \/ Connect(c) \/ RequestInit(c) \/ Sync(c) \/ Edit(c) \/ Leave(c)

Next ==
    \/ Manager \/ Saves \/ LeaseExpires \/ ServeCommand
    \/ \E c \in Clients : Browser(c) \/ PlaceLock(c)

Spec == Init /\ [][Next]_vars

(* Node runs every callback that is due, also one that finds microtasks    *)
(* before it now and then; Redis serves, the proxy goes on, the timer      *)
(* fires, and of the saves of a runtime not all are lost.  Browsers owe    *)
(* nobody anything.                                                        *)
Fairness ==
    /\ WF_vars(HandleMessage) /\ WF_vars(CheckShouldClose)
    /\ WF_vars(HandleSubscribed) /\ WF_vars(HandleUnsubscribed)
    /\ WF_vars(ServeCommand)
    /\ \A c \in Clients : SF_vars(InitializeDocument(c)) /\ WF_vars(PlaceLock(c))
    /\ \A r \in Runtimes : /\ SF_vars(FinalSettles(r))
                            /\ WF_vars(PersistToSpringBoot(r))
                            /\ SF_vars(ApplyPeriodic(r))

FairSpec == Spec /\ Fairness
-------------------------------------------------------------------------------
(* Properties.                                                             *)

(* Every variable keeps its type; runtimes that were not made yet are as   *)
(* Init leaves them.                                                       *)
TypeOK ==
    /\ made \in 0..MaxRuntimes
    /\ map \in 0..made
    /\ rt \in [Runtimes -> Runtime]
    /\ \A r \in Runtimes : r > made => ~Shut(r)
    /\ listed \in BOOLEAN
    /\ init \in [Clients -> InitRequest]
    /\ checks \in Seq(Runtimes)
    /\ subscribed \in BOOLEAN
    /\ cmds \in Seq(Command)
    /\ conn \in Seq(Command \cup Message)
    /\ wire \in [Runtimes -> {{}} \cup {{content} : content \in SUBSET Editors}]
    /\ db \in [content : SUBSET Editors, locked : BOOLEAN]
    /\ visits \in 0..MaxVisits
    /\ phase \in [Clients -> {"out", "toInit", "toJoin", "initializing", "awaiting",
                              "syncing", "active", "error"}]
    /\ base \in [Clients -> 0..MaxRuntimes]
    /\ \A c \in Clients : phase[c] = "active" => base[c] # None
    /\ edited \subseteq Editors

(* The elements of a sequence. *)
Items(s) == {s[i] : i \in DOMAIN s}

(* What the connection to Redis owes the worker. *)
Owed == (Items(cmds) \cup Items(conn)) \cap Command

(* No command and no final save is under way. *)
Resting ==
    /\ Owed = {}
    /\ \A r \in Runtimes : rt[r].final \in {"no", "settled"}

(* Whatever init requests, departures and closings have overlapped: when   *)
(* the manager comes to rest and holds a session, the session is alive,    *)
(* saves itself periodically and hears the channel.                        *)
RestingSessionIsHealthy ==
    Resting /\ map # None => ~Shut(map) /\ rt[map].timer /\ listed

(* A runtime sends one final save, with the text it had when it was shut   *)
(* down, however many closeDocument calls and init requests shut it down;  *)
(* shutdownCompleted is never taken back.                                  *)
FinalSaveIsSentOnce ==
    [][\A r \in Runtimes :
          Shut(r) => /\ rt'[r].final # "no"
                     /\ rt'[r].final = "sent" => /\ rt[r].final = "sent"
                                                 /\ rt'[r].last = rt[r].last]_vars

(* The state that makes RestingSessionIsHealthy inductive: a session in    *)
(* the map is not settled; its timer runs, or its subscription is owed, or *)
(* it is shut down; a channel that is not listed is about to be, or some   *)
(* final save is under way whose settling will look at the map again.      *)
SessionIsWatched ==
    map # None =>
        /\ rt[map].final # "settled"
        /\ Shut(map) \/ rt[map].timer \/ Subscribe(map) \in Owed
        /\ \/ listed
           \/ \E r \in Runtimes : Subscribe(r) \in Owed
           \/ \E r \in Runtimes : rt[r].final \in {"sent", "applied"}

(* The runtimes to come fit the bound; Redis is asked for those made.      *)
RuntimesSuffice == made + Cardinality(Outstanding) <= MaxRuntimes

OwedAreMade == \A x \in Owed : x.runtime <= made

IInv == TypeOK /\ RuntimesSuffice /\ OwedAreMade /\ SessionIsWatched

(* A request to start a session is answered, whatever it overlaps with: no *)
(* await of initializeDocument waits for ever.                             *)
InitIsAnswered ==
    \A c \in Clients : init[c].at = "sent" ~> init[c].at = "none"

(* The final save of a runtime is on its way and carries an edit. *)
FinallySaved(r, e) == rt[r].final = "sent" /\ e \in rt[r].last

(* An edit that a runtime has applied before its shutdown reaches the      *)
(* database, or leaves with the final save of that runtime; also when an   *)
(* overlapping init request replaces the runtime, or a closeDocument that  *)
(* had begun earlier takes it out of the map.  What a runtime applies      *)
(* after its shutdown, while the map still names it, is in no save.        *)
ManagedEditsArePersisted ==
    \A r \in Runtimes, e \in Editors :
        ~Shut(r) /\ e \in rt[r].content ~> e \in db.content \/ FinallySaved(r, e)
===============================================================================
