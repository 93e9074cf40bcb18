# A verification model of the collaborative document editor

TLA+ modules that model the state changes of this repository's programs, TLC
configurations that check them on small instances, and proofs, checked by
TLAPS, of what holds for every instance. Paths below are relative to `src/`.

## 1. The system

A user edits a Markdown document alone, under an exclusive lock, or together
with others in a collaborative session.

    browser --REST--> backend --HTTP--> state worker
       |                 ^                  |  ^
       |                 +---- saves -------+  |
       +--WebSocket--> hub node <--> Redis ----+

Abbreviations: `BE` is `backend/src/main/java/com/somedomain/collab_editor`,
`FE` is `frontend/src/app`, `W` is `collaboration-state-worker/src`, `H` is
`ws-service/internal`.

| Component | State | Operations | Talks to |
| --- | --- | --- | --- |
| Document lock (`BE/lock`) | one row per document: type, holder, expiry | acquire, switch to collaborative, release, refresh, collaborative acquire and release | REST callers, document store, worker proxy |
| Document store (`BE/document`) | text, `@Version`, owner, permissions | create, read, save, delete | lock, sharing |
| Worker synchronisation (`BE/internal/...`) | none | periodic save (one SQL statement that upserts the lock row), final save | lock, store; called by the worker |
| Worker proxy and routing (`BE/collaborationstateworkerclient`) | none | init, sync; worker number = hash of the id modulo the number of workers | worker, lock |
| State worker (`W`) | map of runtimes, set of subscribed channels; per runtime a Y.Doc, user count, chat, names, timer, shutdown flag | init, sync, message, periodic save, close, shutdown | Redis, backend |
| Hub (`H/hub`) | rooms, clients with bounded buffers, one subscription per room | register, unregister, broadcast, consume | browsers, Redis |
| Broker (`H/broker`) | subscription goroutine, bounded channel | subscribe, publish, close | Redis |
| Tickets (`BE/websocketticket`, `H/auth`, `H/ws`) | Redis keys with an expiry | issue, consume by GETDEL, handshake | browser, hub |
| Sharing (`BE/sharing`, `invite`, `access`, `permission`) | invites, requests, permissions | create and use an invite, process a request | store |
| Authentication (`BE/auth`, `FE/core`, `FE/auth`) | JWT pair; one refresh in progress in the browser | login, refresh, interceptor | every REST call |
| Workspace page (`FE/document-workspace`) | text, saved text, lock held, two timers | open, edit, save, autosave, refresh the lock, leave | backend |
| Entry page and collaboration workspace (`FE/documents`, `FE/collaboration`) | phase, buffer, user count, names | init flow, join flow, edit, leave | backend, hub, worker |
| Editor binding (`FE/markdown-editor`) | editor text and Y.Doc | translate changes both ways | collaboration workspace |

What is hard about it, and what would make each part correct:

* **Lock and store.** Requests run at READ COMMITTED without row locks and
  without a version on the lock row. Nobody may lose a valid lock to a request
  that saw it; overlapping saves must not both commit; a dead browser's lock
  must go.
* **State worker.** Async methods interleave at every `await`. A session must
  stay in the map, subscribed and saved; a runtime sends one final save; an
  init is answered; what was applied reaches the database.
* **Hub and broker.** Goroutines share rooms; rooms come and go while messages
  arrive. A room must have its subscription and nothing else may keep one; a
  member must get what is sent, in order and once; a slow client blocks nobody.
* **Tickets, sharing, token refresh.** Single use against retries; duplicate
  requests against unique constraints; waiters against a refresh that fails.
* **Browser state.** Text typed during a save, messages that arrive before the
  snapshot, a socket that outlives its component.

`PROJECT.json` lists every component with its status and every hazard with its
line.

## 2. Modules

| Module | Models | Abstract specification, proofs |
| --- | --- | --- |
| `DocumentLock` | lock row, `@Version`, transactions, worker saves | `DocumentLockProofs` |
| `StateWorker` | one document in one worker, its Redis connection, its saves; the flows of the browsers around it | `StateWorkerProofs` |
| `WsHub` | rooms, clients and consumers of several hub nodes, slow clients | `WsHubProofs` |
| `CollabWorkspace` | one browser's collaboration workspace and chat, with the room and the worker around it | `CollabWorkspaceProofs` |
| `CollabSocket` | the browser's one WebSocket service and the workspaces that use it in turn | `CollabSocketProofs` |
| `TokenRefresh` | the HTTP interceptor and the session of a browser | implements `GroupRenewal`; `TokenRefreshProofs` |
| `YjsEditor` | the editor binding: text in CodeMirror and in Yjs | `YjsEditorProofs` |
| `WorkspacePage` | the pages on which one user works alone, over the backend's lock and store | `WorkspacePageProofs` |

Components meet in these places. `DocumentLock` has the worker's saves and
sessions as steps on the lock row. `StateWorker` has the browsers, Redis and the
backend around one worker. `CollabWorkspace` has the room and the worker as one
browser sees them. It assumes of the hub less than `WsHub` shows of one
subscription, because a room may be served by two at a time and a publish may
fail: the socket brings events in order, but may skip one, bring one again or
bring it late. `WorkspacePage` has the lock of `DocumentLock` reduced to who
holds it.

Each `MC...` module gives the constants of a module small values. No module with
proofs uses a RECURSIVE operator; parameters are constants with a
named assumption; each component's proofs are in a module of their own.

## 3. DocumentLock

One document: `lock` (the row of `document_locks`), `doc` (is there a row, and
its `version`), `tx` (requests in progress), `session`, `inFlight`, `finals`
(the worker as this row sees it), `gone` (dead browsers). `overtaken` and
`outrun` are history: they name the open requests since whose read the lock row,
or the version, was written, and no guard reads them.

**Transactions.** Every `@Transactional` method is two steps. The body reads the
row, tests it, and leaves a plan in `tx` (`AcquireLock`, `RefreshLock`, ...); a
`Commit...` action sends the plan's statements. PostgreSQL at READ COMMITTED
takes no lock on rows that are read, so anything may commit between the two.
What the statements do is taken from Hibernate's use in the code: an UPDATE
writes every column of the entity by primary key; `delete` followed by `save` of
the same id is a DELETE and an INSERT; a statement that hits no row, a duplicate
key or a missing parent fails the flush (only `Abort` is left); `@Version` on
`documents` makes a stale save fail, and the lock row has no such column.
`AppException` rolls the transaction back, so "delete the expired row, then
throw" leaves the row, and a rejected request is one that is not enabled.
`getLock` is read-only and changes nothing. The final save reads twice, the lock row
and then the document with its version (`FinalSync`, `FinalSyncReadsDocument`).

**Worker.** `PeriodicSync` is one SQL statement and one step; it writes the
content without touching `version`. A session starts when the worker answers
`InitializeDocument` and asks for its lock afterwards
(`AcquireCollaborativeLock`). A second init of a running session is `EndSession`
followed by `InitializeDocument`.

**Time.** A row stores what is left of its lease; `Tick` lowers it. The frontend
asks for 300 s, which is the backend's default, so one `Ttl` is enough.

### Properties

| Property | Says |
| --- | --- |
| `TypeOK` | types; an answered request is not an open one |
| `ExclusiveRowsHaveAHolder` | in the table and in every pending write, exclusive rows and only they name a holder |
| `OnlyStaleReadersSteal` | a request ends somebody else's valid lock only if the row was written since it read it |
| `OverlappingSavesNeverBothCommit` | of overlapping versioned writes one commits |
| `UndisturbedSaveIsCovered` | a save whose lock row nobody wrote while it ran is covered by that lock when it commits |
| `DeadHolderLosesLock` | a dead browser's lock ends, for good |

Three statements of the documentation do not hold, and no property says them.
documents.md:40 (one editor at a time): *e* passes the lock check of a save, its
lease runs out, *o* acquires the lock, *e*'s save commits; `overtaken` in
`UndisturbedSaveIsCovered` excludes just this. documents.md:56 (an exclusive lock
keeps the worker out): a session that the backend refused to lock for, or a late
periodic save, overwrites an exclusive lock. internal-worker.md:17 (the final save
ends the collaborative lock): a periodic save overtaken by the final one
(`PeriodicSync` when `session` is ended) locks the document again.

### Runs and bounds

| Run | Instance | Why it is enough |
| --- | --- | --- |
| `DocumentLock` | owner, editor and viewer, two requests at a time, lease of one tick, two versions, one periodic save in flight; the transaction slots are symmetric | every race here is between two requests, or a request and a save or the clock; the three users are the three kinds of rights; one tick separates valid from expired. 2.03 million states |
| `DocumentLockLive` | two users, both mortal, a lease of two ticks, no saves, no symmetry | a survivor and a dead holder are the whole story; with two ticks a lease can be renewed before it ends, so that somebody could keep it alive |

Deadlock is checked in both runs: the clock always ticks.

`MaxVersion` bounds the versioned writes, `MaxInFlight` the saves on their way
and `finals` is at most one: a worker that sends a second final save while the
first is under way is in `StateWorker`.

**Fairness** (`FairSpec`). The clock runs; a transaction that was begun commits
or fails (statement and connection timeouts). Users and the worker owe nothing.

### Proofs

`DocumentLockProofs` proves for any users, rights, number of requests, lease and
bounds (`LockAssumption`): `TypeCorrect`, `HoldersMatchTypes`,
`NoFreshReaderSteals`, `SavesAreSerialized`, `FreshSavesAreCovered`. None of the
action properties follows from the types. `IInv` adds `FreshReadsFit` - a request that
is not overtaken still sees the row it read, up to ageing - and
`OutrunVersionsAreOld` - a request that was outrun holds a version below the
current one. Preservation has one step per action, the commits having in common
that the request which writes makes every other open one `overtaken` or
`outrun`.

## 4. StateWorker

One document in one worker. Node runs one callback at a time, so an action is a
callback: a request, a reply, a message, a timer. What follows an `await` is a
later action with the values the method kept. The variables:

| Variable | Code |
| --- | --- |
| `map` | `documents.get(documentId)`: the number of a runtime or `None` |
| `rt`, `made` | the `DocumentRuntime` objects: `userCount`, text, timer, shutdown flag with the fate of the final save |
| `listed` | `subscribedChannels.has(channel)` |
| `init` | the init request of each browser: in the backend, awaiting `shutdown`, awaiting `subscribe`, answered |
| `checks` | microtasks that will test `shouldClose` |
| `subscribed`, `cmds`, `conn` | Redis: subscription, commands to it, replies and messages from it (one FIFO) |
| `wire` | the periodic save of each runtime on its way |
| `db` | stored text and whether the lock row is collaborative |
| `phase`, `base`, `edited`, `visits` | the browsers in the init or join flow, the runtime whose Y.Doc they edit, the edits made, how often the entry page was opened |

`handleRedisMessage` awaits `applyEnvelope`, which does no I/O: its continuation
is a microtask and only another message of the same chunk (at most `MaxChunk`)
can come before it; `Turn` is the guard of every other callback.
`closeDocument` looks the runtime up anew, awaits `unsubscribe` and then
`shutdown`, and deletes whichever entry is there; so does `initializeDocument`.
Both are modelled with the lookups where the code has them.

The text is the set of edits in it: one edit per browser, none built on
another's. An edit made on another Y.Doc than the runtime's stays pending in
Yjs and does not count. Chat history and names are not modelled: no guard reads
them.

### Properties

| Property | Says |
| --- | --- |
| `TypeOK` | types; the count never falls below zero |
| `RestingSessionIsHealthy` | when no command and no final save is under way, a session in the map is alive, has its timer and hears the channel |
| `FinalSaveIsSentOnce` | a runtime sends one final save with the text of its shutdown |
| `ManagedEditsArePersisted` | an edit applied before its runtime's shutdown reaches the database, or is in the final save of that runtime |
| `InitIsAnswered` | every init request is answered, whatever other init or closing it overlaps with |

Two expectations stated in the repository do not hold, and no property says
them. documentManager.ts:11: overlapping inits, or a close that deletes a newer
entry, leave a runtime outside the map with a running timer.
documentManager.ts:81: who leaves before the subscription is served is never
counted out, and the session of an empty room stays. The same behaviours have
two more faces: arrivals published before the subscription are not counted and
their departures are, so that a session can end under a user who edits; and two
users who both read "no lock" start two sessions, the second of which ends the
first (documents.md:57). What reaches a runtime between its shutdown and its
leaving the map (documentManager.ts:91-95) is applied, shown to who syncs, and in no
save; `ManagedEditsArePersisted` is about the edits before it.

### Runs and bounds

| Run | Instance | Why it is enough |
| --- | --- | --- |
| `StateWorker` | two browsers, both may initialise, two runtimes, four visits, two items of Redis traffic when one is published, no edits; symmetric browsers | overlap needs two init requests and so two runtimes; each await is met by a message, a reply and another request; four visits let both browsers leave and come back. 1.96 million states |
| `StateWorkerLive` | two browsers, both may initialise, one of them edits, two runtimes, two visits | two init requests overlap each other, their shutdowns and their subscriptions, and a runtime that has an edit is replaced; 106 000 states |

Three runtimes were explored by breadth-first search up to 25 million states and
by simulation without a violation; the theorems below have no such bound.
Deadlock is not checked: when the visits are used up and everybody has left, all is
over. `MaxVisits` bounds how often the entry page is opened, by all browsers.

Other bounds: one periodic save per runtime on its way, one init request per
browser, `MaxChunk` of one message in the runs. The lease is one bit: it runs
out only while no timer runs, because a persist interval is far shorter than it.

**Fairness** (`FairSpec`). Weak fairness for messages, replies, microtasks,
Redis, the timer and the proxy's next step. Strong fairness for the callbacks that
other callbacks can disable again and again (`InitializeDocument`, `FinalSettles`):
Node's queue is first in, first out and does not starve them. Strong fairness of
`ApplyPeriodic`: of the saves a runtime keeps sending not all are lost. Browsers owe
nothing.

### Proofs

`StateWorkerProofs` proves `TypeCorrect`, `SessionsAtRestAreHealthy` and
`FinalSavesAreSentOnce` for any browsers, runtimes and traffic. `IInv` adds
`SessionIsWatched`: the session in the map is not settled; its timer runs, or
its SUBSCRIBE is owed, or it is shut down; a channel that is not listed is about
to be, or some final save is under way whose settling will look at the map
again. The two FIFOs enter the proof only as the set `Owed` of commands in them,
with one lemma for each way a queue changes. `RuntimesSuffice` (runtimes made
plus init requests outstanding fit the bound) keeps a new runtime's number in
range; its step is an argument on cardinalities.

## 5. WsHub

One document in the rooms of several `ws-service` nodes. Each client is one
WebSocket, with the positions of the goroutine that serves it:

| `at` | Code |
| --- | --- |
| `out` | not connected |
| `joining`, `announcing`, `acking` | `ServeHTTP`: in the room; arrival sent locally; arrival published |
| `reading`, `publishing` | `ReadPump`: waiting for a message; message sent locally, not published |
| `leaving`, `departing`, `closing` | `Unregister`: out of the room; departure sent locally; departure published |
| `gone` | closed, and with the last client its room's subscription |

The hub's mutex covers the map operations of `Register`, with the SUBSCRIBE, and
of `Unregister`. Local broadcast, publish and `sub.Close` come after it, each a
step of its own, so that another client can register between any two of them.

| Variable | Code |
| --- | --- |
| `room` | `h.rooms[documentID]` of each node: clients and subscription |
| `sub`, `made` | the `redisSubscription` objects; `queue` is the connection, go-redis's channel and `messages` in one FIFO |
| `closing` | `room.sub` of an `Unregister` that found its room empty |
| `queued`, `closed` | how full `Client.Send` is; clients on which `Close` was called |
| `sent`, `failures` | numbers of messages and of failed calls to Redis |
| `inbox`, `owed` | history: what a subscription has put into a member's buffer, and what Redis took for it and it has not got; no guard reads them |

`ConsumeRoom` belongs to a subscription, not to a room: it runs on after the room
is deleted, and it looks the room up by the document. `broadcastLocal` takes its
snapshot and does its non-blocking sends in one step. Between the two a client
may join, which is not in the snapshot, or leave, whose buffer is no longer
followed; and two broadcasts may reach two members in different orders, which no
property compares. A failed
publish may have been delivered. The branch of `Unregister` for a room that does
not exist is unreachable, which `SubscriptionsMatchRooms` states.

### Properties

| Property | Says |
| --- | --- |
| `TypeOK` | types; a buffer is never fuller than its channel |
| `SubscriptionsMatchRooms` | a room with members has an open subscription of its own that nobody is about to close; an open subscription is a room's or about to be closed; who reads is in its room |
| `MembersMissNothing` | what Redis took while a client was a member is in its buffer or still carried by its room's own subscription, unless the client is closed |
| `SenderOrderIsKept` | by one subscription, a client's messages arrive in the order sent |
| `ClosedClientsLeave` | a closed client leaves its room |
| `UnusedSubscriptionsClose` | the subscription of a deleted room is closed |

Three statements of the documentation do not hold, and no property says them.
hub.md:192 (no message twice): the last client of a room leaves, and before it
closes the subscription another registers; two consumers now deliver to the new
room, which is why `SenderOrderIsKept` is about one subscription. ws.md:50:
`Acknowledge` drops the acknowledgement when messages of the room have filled the
buffer since `Register`. lifecycle.md:96: `StopNode` publishes nothing, since
`Shutdown` knows nothing of hijacked connections.

### Runs and bounds

| Run | Instance | Why it is enough |
| --- | --- | --- |
| `WsHub` | one client on node *a*, two on node *b*, buffers of one; one client of *b* may leave at will, the others when they are closed; arrivals and departures are the messages | a room made again while the old subscription delivers needs two clients of one node, and messages of another node; a second unread message finds the buffer full. 5.6 million states |
| `WsHubLive` | one client on each node, buffers of one, a message, a failing call to Redis, node *a* may stop | every goroutine of a client and a subscription, with everything that disturbs it |

Deadlock is not checked: each client connects once, so that the system comes to
rest. `Subs` is not a bound: a client makes at most one subscription. `Restless`,
`Senders`, `MaxSent`, `MaxFailures` and `Stoppable` are.

**Fairness** (`FairSpec`). A goroutine that can go on does (calls to Redis return,
go-redis has timeouts), a consumer consumes, and the read of a closed connection
fails. Browsers, write pumps and failures owe nothing.

### Proofs

`WsHubProofs` proves `TypeCorrect`, `RoomsAndSubscriptionsMatch`,
`NothingIsMissed` and `SendersStayInOrder` for any clients, nodes and bounds (`HubAssumption`). `IInv` adds `SubsAreMade` - rooms and
departing clients name subscriptions that exist, a client closes one of its own
node, and only on its way out - without which closing a subscription could hit
the room of another node, and `SubsSuffice`, on cardinalities as in
`StateWorker`. Most steps are `Quiet`: they neither make, delete nor close, and
one lemma serves them all; `Register` (twice), `Unregister`, `CloseClient` and
`StopNode` have a lemma each.

`NothingIsMissed` (`MembersMissNothing`) is a second induction, whose steps assume
`IInv`: a publish reaches every open subscription, and `IInv` says that a room with
members has one which is not about to be closed; two lemmas on sequences say that
what a queue carries survives an append, and survives the removal of another head.
`OwedInv` adds that clients are members at their own node only, that nobody is owed a
message before arriving, or a message its own node sent - those `consumeRoom` skips,
and it would otherwise drop something still owed.

`SendersStayInOrder` (`SenderOrderIsKept`) is a third one. `Upcoming` is the number of
the next message a client can send; it never decreases. `OrderInv` says that every
queue has each sender's messages in order, that all of them, and all that anybody has
received, come before the sender's upcoming one, and that what a client was handed of
a subscription is older than what the subscription still carries. A step only appends
upcoming messages to queues or leaves a part of one (`PartOf`), which keeps the order.

## 6. CollabWorkspace

One collaboration workspace in a browser, with its chat, the room and the worker
as they look from there. The room's events are one sequence, `log`, in the order in
which the browser's own node broadcasts them. The socket brings what is appended
from the browser's own arrival on (`Receive`), with the two irregularities the hub
has. An event of another node may never come, because its publish failed (`Miss`);
and while a room is made again two consumers look it up by its document
(hub.go:88-99), so that an event of another node may come once more, or late
(`BringAgain`). The worker applies each participant's events in order and those of
different participants in any (the hub delivers locally before it publishes), with
gaps where a publish failed (`WorkerMisses`); what was published before it
subscribed it never gets (`StartWorker` draws the line anywhere after our arrival).
`heard`, `snap`, `synced` and `lost` are history.

| Variable | Code |
| --- | --- |
| `mode`, `phase` | the signals of the component |
| `awaits` | the await `runInitFlow` or `runJoinFlow` is suspended in; what follows up to the next one is one action |
| `wsState` | the state of the socket service |
| `buffering`, `buffer`, `routed` | `bufferSub` and what it has collected; the three routes |
| `view` | `userCount`, `usernames`, `remoteUpdates$`, `chatMessages$` |
| `chat` | the effect of the chat component: not yet run, run without a line (it has not read `usernames()` and does not depend on it), run with lines, due to run again |
| `unknown` | lines that were last shown with the sender "Unknown user" |
| `worker`, `reply` | the runtime's applied events, history, names and count; the answer to `syncDocument` |

`remoteUpdates` is a set, since Yjs updates commute and are idempotent; the
timeline is a sequence and keeps its duplicates. `InitSynced` and `JoinSynced` are
the synchronous ends of the two flows: snapshot first, then the buffer by the
cases of the routes, then the routes and the phase. `ShowChat` is the effect of the
chat: it subscribes to the stream anew, which replays every line. It runs after the
chat is mounted, and again after an arrival if it has resolved a name before.

| Property | Says |
| --- | --- |
| `TypeOK` | types; only a joiner buffers, an active workspace is routed and has left its flow |
| `NothingLost` | no change and no line that the socket brought since it was listened to, or the snapshot had, is missing, whatever the feed skips, repeats or reorders |
| `JoinedTimelineInOrder` | who joins sees each participant's lines in the order written, however history and buffer overlap, but for what the worker missed or the socket brought late |
| `CountDrift` | the number of users shown is off by at most how often arrivals and departures were counted too much or not at all |
| `UnknownOnlyIfUnheard` | a line was last shown without its sender's name only if no answer and no arrival had brought the name by then; the one exception is a chat that was empty when it was mounted, which shows nothing anew |
| `LossIsNoticed` | what the user sends to nobody is followed by the error view |

`CountDrift` and `JoinedTimelineInOrder` name exceptions because the code has them:
no ordering relates the snapshot to the feed, so the overlap is counted twice, and an
event that is brought twice is counted twice (collab-workspace.component.ts:296, 387).
The properties say that nothing else goes wrong. One thing that does go wrong is not
in the model: the effect of the chat (collab-chat.component.ts:139-149) appends the
replayed lines to `messages` and does not clear it, so that after every change of
`usernames` all lines stand there once more, the older renderings with the names they
had. The properties are about the stream and about the last rendering of each line.
The `error` line a browser gets when its own publish fails is not modelled either.

**Run** `CollabWorkspace`: the workspace and one other participant, who is in the
session a workspace joins, four events, one loss, and one fault of the feed more when
there is room (`MaxActs`: events and faults together are at most five); 2.6 million
states. An overlap of history and feed needs two events of the other and our arrival;
the fourth leaves room for a departure. `Watched` and `Unanswered` leave out what
happens in the room after the error is shown and in the worker after its answer, which
nothing in the workspace reads. Deadlock is not checked: four events and the flow
comes to rest.

**Fairness.** The event loop runs what is ready, the backend and the worker answer,
and a connection the hub has closed is reported as closed. Nobody has to act, and
a connection need never be acknowledged: the code sets no timeout there.

**Proofs.** `CollabWorkspaceProofs` proves `TypeOK`, `NothingLost` and
`UnknownOnlyIfUnheard` for any participants and any number of events, losses and
faults (`WorkspaceAssumption`); `JoinedTimelineInOrder` and `CountDrift` are checked by
TLC. `IInv` is the conjunction of `Types`; `Flow` (what each await of the two flows
leaves set); and `Data`: the worker's history has every line it applied (`Runtime`), a
reply shows what the worker had applied when it answered, with its names (`Answer`),
what an active workspace shows is at least the answer and what was heard, and the names
of the answer and of all arrivals heard since (`Views`), and `UnknownOnlyIfUnheard`
itself.

The synchronous end of a flow drains the buffer with a fold; `FoldTake` unfolds it into
a run of single steps, whose existence follows from Nat being well-founded, and along
which `TakeShows` and `TakeNames` hold at each step. No step uses an order of the feed
or that an event comes once: `BringIs` is the same lemma for `Receive` and
`BringAgain`. The chat needs one lemma for the lines that are shown as they come
(`BringUnknown`) and one for the effect that shows them all again (`ShowChatData`).

## 7. CollabSocket

`CollaborationWebSocketService` is one object for the application. Workspaces use
it in turn, and a workspace that is destroyed does not stop its own `connect`,
which waits for a ticket, nor its flow, which waits for an acknowledgement on a
stream that all share. A workspace, its `connect` and its WebSocket have one
number. An action is a callback: a ticket answered, an event of a socket, the
component created or destroyed. A joining workspace has its `bufferSub` (`buffers`)
from its ticket to the answer of `syncDocument`, also when it is destroyed meanwhile,
since the buffer is not among the subscriptions that are undone; an initialising one
has its routes from the answer of `initializeDocument`. `answered`, `late` and `heard`
are history.

| Property | Says |
| --- | --- |
| `TypeOK` | types; the service says "open" only of a socket of its own that has opened and is not closed |
| `HeardInOrder` | no workspace takes a message of a socket that was there before its own |
| `NoSocketLeftBehind` | no socket stays open when its workspace has gone, unless some ticket was answered after that |

The exception is real: `disconnect` finds no socket to close while the ticket is
on its way, and the socket is opened for a page that is gone. Nor does
`HeardInOrder` say that a workspace hears its own socket only: the flow of a
destroyed workspace resumes with the acknowledgement of the next one.

**Run** `CollabSocket`: four workspaces in turn, of which the first and the last join,
the second has no document and the third initialises, so that a socket meets the one
before and those two and three places before it; 991 000 states. Deadlock is not
checked: four visits and all is over.

**Proofs.** `CollabSocketProofs` proves all three for any number of workspaces and
any documents (`SocketAssumption`). `IInv` adds `WaitingHasNothing` (no socket before
the ticket), `Earlier` (what `answered` names had a socket), `Replaced` (the
service's socket is older than none of them: this makes `HeardInOrder` inductive,
since messages are taken from the service's socket only) and `Owned` (without a
late ticket a live socket is the service's and that of the page on the screen).

## 8. TokenRefresh and GroupRenewal

The session of a browser: `jwt.interceptor.ts`, `auth.service.ts` and its callers.
RxJS resolves synchronously, so an action is the arrival of one answer with all
that waits for it. `req` is every request with what its interceptor instance is
doing: `waiting` on `refreshSubject`, `refreshing` or `loading` (it renews: first
the token, then the profile), `retried` and `leading` (the second attempt of one
that waited, of one that renewed). What a page asks for is unsubscribed when the page is
left, or when the effect that asked runs again (document-workspace-page.component.ts:207,
document-entry-page.component.ts:193 and 201, library-page.component.ts:229):
`Unsubscribe` tears down whatever its operators wait for, the `/auth/me` of a renewal
included, and the interceptor has no `finalize`. `/auth/me` is intercepted too, so each renewal
has a request `MeOf(i)` of its own. Refresh cookies and access tokens belong to
sessions; tokens expire in the order they were issued.

`letdown`, `stuck`, `meddled`, `ended` and `excused` are history. `letdown` is who waited
when the last renewal ended in vain; the next renewal empties it. `stuck` says that the
flag is that of a renewal that was given up: from then on every rejected request waits,
until an earlier leader's retry fails or the page is loaded again. `meddled` names a behaviour
the code has: the comment at jwt.interceptor.ts:79 says "If either refresh OR
loadMe fails, we clear everything", but the `catchError` below it also covers the
leader's retry. When that fails while another renewal is running, it resets the
flag of the other, and a third request starts a second renewal.

| Property | Says |
| --- | --- |
| `TypeOK` | types; the flag is up only while a request renews, or since a renewal was given up, and a renewal that loads the profile has asked for it |
| `OneRenewal` | one renewal at a time, until a failed retry has reset the flag of one that runs |
| `LoggedOutStaysOut` | no access token after a logout, unless the backend failed or a renewal or login was under way |
| `WaitersReleased` | who waits while somebody renews is released or gives up, or the last renewal ends in vain, or its own `/auth/me` waits for it; and so again with the next renewal |
| `RenewsAsAGroup` | every step is a step of `GroupRenewal` |

The exceptions of `WaitersReleased` are the code's: `refreshSubject` is told of
success only, so that those who wait when a renewal fails or is given up wait for the
next one, if there is one; and an `/auth/me` that is rejected during its own renewal
waits for that renewal, which waits for it.

`GroupRenewal` says what a group of rejected requests may rely on. A flag, `busy`, alone
decides who renews and who waits. A success releases all that wait in one step and
nobody is released otherwise; every end of a renewal lowers the flag but one: a renewal
that is given up (`GiveUp`) leaves it raised and its waiters waiting. The mapping takes
the interceptor's flag for `busy`, `Leaders` for `renewing`, the waiting requests for
`waiting` and those sent once more for `released`.

**Run** `TokenRefresh`: two requests of the pages, three tokens, two sessions; with
the session's `/auth/me` and one for each renewal, six requests; 645 000 states. Two
page requests and the start of the application are a leader, one who waits and one
more; three tokens let a renewed token expire before its retry. Deadlock is not
checked: requests and sessions run out. A bound in `Rejected` keeps the `/auth/me` of
a renewal from renewing in its turn when the flag was reset meanwhile.

**Fairness.** Every request has an answer in the end.

**Proofs.** `TokenRefreshProofs` proves `TypeOK`, `OneRenewal`, `LoggedOutStaysOut` and
the refinement for any number of requests, tokens and sessions
(`RefreshAssumption`). `IInv` consists of the types and of: `LeadersArePrincipals`
(only a page's or the session's request renews), `ProfilesOfRenewals` (`MeOf(i)` is
under way exactly while `i` loads the profile), `SessionAtRest` (the same of the
session's flow), `FlagGuards` (the flag means a renewal that runs or was given up;
until `meddled` it is up during every renewal, and there is only one) and `NothingBringsTokens` (after a logout nothing on its way
brings a token: no cookie, no flow, no renewal that had a cookie). Each action is
either at rest for one of these or has a lemma.

## 9. YjsEditor

Each editor keeps the text twice: in CodeMirror (`shown`) and in a Y.Text. The module
is about the translation of positions between them, in both directions, with the
edits of several users crossing on the way. A character is an item. Y.Text is a
library and external: all replicas order the items alike (`order`), a replica `has`
some of them, of which some are `dead`; where a new item goes among those of others
that its replica does not know of is any place among them (`slack`). CodeMirror, external
too, takes changes with positions in the text before the transaction.

`LocalChanges` is the update listener, `ApplyLocalChanges` the session,
`Delta` what Y.Text reports, `RemoteChanges` the `onDelta` listener. `Transactions` are
what CodeMirror can produce: one change, or two at different places.

| Property | Says |
| --- | --- |
| `TypeOK` | types; no item is ordered twice; only a mounted editor is subscribed |
| `ShownIsText` | what a user sees is the shared text, as long as every transaction that met the editor was of the simple forms |
| `Converged` | editors that have applied everything have one text, and show it unless one of them met another form |
| `LocalDeltaIsInSync` (run `YjsEditorSync`, violated) | "if the delta had local origin, Y.Doc is already in sync with codemirror content" |

The comment quoted last (markdown-yjs-editor.component.ts:303) does not hold. One
transaction with two changes, the first of which changes the length, has its later
offsets shifted twice: once by the listener, which hands on positions in the new
document (markdown-yjs-editor.component.ts:386), and once more in
`applyLocalChanges` (markdown-yjs-session.ts:117). The Y.Text gets the second change
at the wrong place, and the two texts differ from then on. In the other direction a
remote delta becomes a list of changes whose positions count deleted text as if it
were gone (markdown-yjs-editor.component.ts:314), while CodeMirror reads them in the
text before; a deletion followed by a change further on is misplaced. `torn` marks
the editors that met either; `SimpleChanges` and `SimpleDelta` say which forms are
right, and `ShownIsText` that these are.

**Runs** `YjsEditor`, `YjsEditorSync`: two editors, two characters at first and up to
four, three transactions of up to two changes; 92 442 states. Two characters and two
changes are the least in which an offset matters; three transactions cross two
editors' edits with a third. Deadlock is not checked: edits run out.

**Proofs.** `YjsEditorProofs` proves the three safety properties for any editors, any
length of the document and any number of transactions, each of one or two changes that
insert at most one character each, as `Transactions` has them (`EditorAssumption`). `IInv` is `TypeOK`
with three more parts: `Known` (nobody knows of an item that is not in the order),
`Delivered` (what a live editor has and what is queued for it is together the whole
order, and the same deletions for all live editors) and `InStep` (`ShownIsText` of the
destroyed editors too). `Converged` is not inductive: it says nothing while updates
are on their way, and `Delivered` does.

`InStep` carries the weight. The text of a replica is the one sequence that lists its
visible items in the order of the document (`AmongLists`, `ListedOnce`), so that a
translation of positions is right when it gives a sequence that lists the right items
(`DeletedText`, `SeenItems`, `UnseenItems`). For a transaction of the user `LocalText`
follows the positions through `applyLocalChanges`; that an item inserted by one replica
leaves the text of the others as it was is `OthersKeep`. For an update of another,
`DeltaHasCuts` says of which stretches a delta is made, `SimpleForm` that a simple one
drops one stretch and inserts the next, `SimpleChangeList` which changes the `onDelta`
listener makes of it, and `RemoteText` that dispatching them gives the new text. Folds
and flattenings are unfolded into runs of single steps, as in section 6; here the step
of each is defined on the subsets of an interval, which is how the library defines
`FoldLeft` (`Recursion`).

Not modelled: the preview, the toolbar (its edits are transactions like others), and
`initialSnapshot` and the `content` input, which no page of the repository sets.

## 10. WorkspacePage

The entry page, the workspace page and the read-only page of one user, with the
backend's store and lock seen by this user. Every call is a request in `net` until
the backend handles it, so that requests overtake each other; a component that is
destroyed orphans its requests (`alive`), which the backend handles all the same.
`Cleanup` is the `onCleanup` of the load effect, which runs on leaving and on
switching documents within the component (`SwitchDocument`), where the signals and
a save stay. A lease that ends is `Expire`, at any time, since a laptop may sleep.

The load effect runs again (`LoadAgain`) when the route changes to another document and
when the access token is renewed (`RenewToken`): the interceptor reads the token's signal
while the effect subscribes (jwt.interceptor.ts:33). The page then releases its lock and
loads its own document again, over text that is not saved. `HandleContentChange` is
enabled on a loaded page and behind the lock modal, where the editor still has what the
page had before; the user types a new text, or has an earlier one of the document back
by undoing. A save may be lost on its way (`SaveFails`) or after the commit
(`SaveAnswerLost`), an unlock is lost for good (`UnlockFails`).

`displayed`, `lapsed`, `hushed`, `strayed`, `unreleased` and `carried` are history. The
last five name what the code does not protect from: a lock lost under an open page; a
text marked as saved that was not what had been sent, or stored without the page being
told (document-workspace-page.component.ts:292 takes the text at the answer); a document
left with requests still going (an `acquire` that arrives after its page has gone, a
second `openDocument` step that fails, a viewer taken on by the entry page, a browser
that died); an unlock that was lost; a document switched to with the unsaved text of
another, or behind whose modal the user typed into another's text.

| Property | Says |
| --- | --- |
| `TypeOK` | types; `saving` is set exactly while a save of the page is on its way |
| `SavedIsStored` | what a page has for saved is what the backend has, except after `lapsed`, `hushed` or `strayed` |
| `LockHasPage` | a lock of this user has a page or an unlock on its way, except after `strayed` or `unreleased` |
| `OwnText` | a document is stored with its own text, except after `carried` |
| `NoOverwriteUnseen` | a save replaces only a text this user has had on the screen, except after `lapsed` or `strayed` |
| `EditsAreSaved` | a page that keeps its lock does not show for ever a text that is not stored, unless that text is marked as saved after `hushed`, `lapsed` or `strayed` |

`EditsAreSaved` has that exception because the code has it: what is typed while a save
is on its way is marked as saved by the answer, and is sent only when more is typed.

**Run** `WorkspacePage`: two documents, two texts, two visits; a reload after a renewal
of the token counts as a visit; 2.9 million states. Each exception needs one document
and its successor; a second visit meets the requests of the first; two texts are one of
this user and one of another, or an edit during a save. `Concerned` lets others lock and
save only a document that this user's page or requests are about. Deadlock is not
checked: visits and texts run out.

**Fairness.** The 20-second timer saves. Strong fairness of `HandleSave`: a save that is
sent again and again arrives once (`SaveFails` and `SaveAnswerLost` can take each single
one). Nothing else has to happen.

**Proofs.** `WorkspacePageProofs` proves the five safety properties for any documents
and any number of texts and visits (`PageAssumption`). `IInv` relates a page to what
is on its way: `AwaitedRequests` (a request somebody waits for is the acquire of the
load in progress, or a save of an editing page), `OneSave`, `Strays` (any other request
but an unlock is the refresh of the page that is open, or of a document in `strayed`),
`LockKept` (a page that has got its lock has it, or the document is in `lapsed`),
`LockHasOwner` (`LockHasPage`, with the kind of page: a read-only page would release
nothing), `TextsOwn` and `TextsSeen` (whose text is on the page, on its way and in the
store, and who has seen it). `LockKept` and `Strays` are why `SavedIsStored` is
inductive: nobody else writes the document of a page that has its lock. No part says
that a text is new: undoing may bring back any.

## 11. Only model-checked

Liveness is checked by TLC only: fairness and ENABLED are out of the prover's reach
(`DeadHolderLosesLock`, `ManagedEditsArePersisted`, `InitIsAnswered`,
`ClosedClientsLeave`, `UnusedSubscriptionsClose`, `LossIsNoticed`, `WaitersReleased`,
`EditsAreSaved`). Of the safety properties `JoinedTimelineInOrder` and `CountDrift` are.

## 12. Not modelled

* **Sharing** (invites, access requests, permissions). `useInvite` and `processRequest`
  are a check and an insert in one transaction; the race of two of them ends in a
  unique constraint or in two rows, which is the hazard listed. Nothing else the
  models have depends on it: rights are constants or chosen at the start.
* **Tickets.** A ticket is one answer or failure in `CollabSocket` and
  `CollabWorkspace`. Single use is one GETDEL, expiry one Redis option.
* **The loss of the Redis connection.** What go-redis loses when it subscribes again
  the hub cannot know of, and nothing in the code makes up for it.
* **Crash and `shutdownAll` of the worker.** A crash loses what was not saved, by
  construction. `shutdownAll` closes one document after the other in the way
  `closeDocument` does, which `StateWorker` has for one.
* **Text in `StateWorker` after the final save.** It keeps what was applied, not the
  order in which the database applied two saves of two runtimes.
* **Backend authentication**, password hashing, token formats: the browser's view of
  it is in `TokenRefresh`.
* **Routing** to a worker: a pure function of the document id and the configuration.
* **Presentation**: rendering, preview, dates and scrolling, the library, sharing and
  layout pages, which are forms over the backend's operations.
* **Configuration, logging, process start, the load balancer.**

## 13. Running it

    tlc -workers 2 -config DocumentLock.cfg MCDocumentLock
    tlc -workers 2 -config DocumentLockLive.cfg MCDocumentLock
    tlc -workers 2 -config StateWorker.cfg MCStateWorker
    tlc -workers 2 -config StateWorkerLive.cfg MCStateWorker
    tlc -workers 2 -config WsHub.cfg MCWsHub
    tlc -workers 2 -config WsHubLive.cfg MCWsHub
    tlc -workers 2 -config CollabWorkspace.cfg MCCollabWorkspace
    tlc -workers 2 -config CollabSocket.cfg MCCollabSocket
    tlc -workers 2 -config TokenRefresh.cfg MCTokenRefresh
    tlc -workers 2 -config YjsEditor.cfg MCYjsEditor
    tlc -workers 2 -config YjsEditorSync.cfg MCYjsEditor
    tlc -workers 2 -config WorkspacePage.cfg MCWorkspacePage
    tlapm DocumentLockProofs.tla
    tlapm StateWorkerProofs.tla
    tlapm WsHubProofs.tla
    tlapm CollabWorkspaceProofs.tla
    tlapm CollabSocketProofs.tla
    tlapm YjsEditorProofs.tla
    tlapm TokenRefreshProofs.tla
    tlapm WorkspacePageProofs.tla

`YjsEditorSync` ends in the counterexample described in section 9; every other run
ends without an error.

Each operator whose comment says "A mutant of" is a plausible bug in the
operator that follows it. Put in that operator's place, it makes the property
that `PROJECT.json` pairs it with fail; that is how the properties were shown
to depend on the code.
