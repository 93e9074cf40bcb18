------------------------- MODULE CollabWorkspaceProofs -------------------------
(***************************************************************************)
(* The invariants of CollabWorkspace, for any number of participants and   *)
(* any bounds on the events of the room and on the faults of the feed.     *)
(*                                                                         *)
(* What an active workspace shows is what the worker had applied when it   *)
(* answered, with what the socket had brought since it was listened to     *)
(* taken over it.  The draining of the buffer is a fold; FoldTake unfolds  *)
(* it into a run, along which each step keeps what the view has to show    *)
(* and to name (Drained).  Nothing here rests on an order of the feed or   *)
(* on its bringing each event once.                                        *)
(***************************************************************************)
EXTENDS CollabWorkspace, FiniteSetTheorems, TLAPS

(***************************************************************************)
(* The inductive invariant.                                                *)
(***************************************************************************)

Events == 1..Len(log)

Pane == [userCount : Int, usernames : SUBSET Names, remoteUpdates : SUBSET Nat,
         chatMessages : Seq(Nat)]

Worker == [running : BOOLEAN, applied : SUBSET Nat, missed : SUBSET Nat,
           chatHistory : Seq(Nat), userCount : Int, participants : SUBSET Names]

(* A view whose lines and changes are events. *)
Seen(v) ==
    /\ v \in Pane
    /\ v.remoteUpdates \subseteq Events
    /\ ToSet(v.chatMessages) \subseteq Events

Types ==
    /\ mode \in {"initialize", "join"}
    /\ phase \in {"connecting", "syncing", "active", "error"}
    /\ awaits \in {"ticket", "ack", "init", "sync", "nothing"}
    /\ wsState \in {"requesting-ticket", "connecting", "open", "closed"}
    /\ buffering \in BOOLEAN /\ routed \in BOOLEAN
    /\ chat \in {"absent", "untracking", "tracking", "due"}
    /\ log \in Seq(Event)
    /\ room \subseteq Names
    /\ since \in Nat
    /\ pos \in Nat /\ pos <= Len(log)
    /\ \A i \in unknown : i \in Events /\ log[i].type = "chat"
    /\ Seen(view)
    /\ \A s \in reply : Seen(s)
    /\ buffer \in Seq(Nat) /\ ToSet(buffer) \subseteq Events
    /\ heard \in Seq(Nat) /\ ToSet(heard) \subseteq Events
    /\ worker \in Worker
    /\ worker.applied \subseteq Events /\ worker.missed \subseteq Events
    /\ ToSet(worker.chatHistory) \subseteq Events
    /\ snap.events \subseteq Events
    /\ synced \in Nat

(* What the state of the flow says of the rest, and the other way round. *)
Flow ==
    /\ Len(log) <= MaxEvents + 1
    /\ Me \in room => Len(log) <= MaxEvents
    /\ awaits = "ticket" => wsState = "requesting-ticket" /\ ~buffering /\ ~routed
    /\ awaits # "nothing" => phase \in {"connecting", "syncing"} /\ chat = "absent"
    /\ awaits = "nothing" => phase \in {"active", "error"}
    /\ awaits = "init" => mode = "initialize"
    /\ phase = "active" => routed
    /\ buffering => mode = "join" /\ ~routed
    /\ mode = "join" /\ awaits # "nothing" =>
          /\ ~routed /\ buffer = heard
          /\ awaits # "ticket" => buffering
    /\ mode = "initialize" /\ awaits \in {"ticket", "ack", "init"} => ~routed /\ heard = <<>>
    /\ mode = "initialize" /\ awaits = "sync" => routed
    /\ chat = "absent" => unknown = {}

(* What a view has to show of a set of the events of l. *)
Shows(l, v, S) ==
    \A i \in S : /\ l[i].type = "change" => i \in v.remoteUpdates
                 /\ l[i].type = "chat" => i \in ToSet(v.chatMessages)

(* Who has arrived in q, after its first k, has a name. *)
Named(l, v, q, k) ==
    \A n \in DOMAIN q : n > k /\ l[q[n]].type = "joined" => l[q[n]].who \in v.usernames

Runtime ==
    \A i \in worker.applied : log[i].type = "chat" => i \in ToSet(worker.chatHistory)

Answer == \A s \in reply : Shows(log, s, snap.events) /\ s.usernames = snap.usernames

(* Where the names of the live feed begin to count. *)
Overwritten == IF mode = "initialize" THEN synced ELSE 0

Views ==
    /\ mode = "initialize" /\ awaits = "sync" => Shows(log, view, ToSet(heard))
    /\ phase = "active" => /\ Shows(log, view, Reached)
                           /\ snap.usernames \subseteq view.usernames
                           /\ Named(log, view, heard, Overwritten)

Data == Runtime /\ Answer /\ Views /\ UnknownOnlyIfUnheard

IInv == Types /\ Flow /\ Data

-------------------------------------------------------------------------------
(* The fold that drains the buffer.                                        *)

LEMMA Smallest ==
    ASSUME NEW T \in SUBSET Nat, T # {}
    PROVE  \E n \in T : \A k \in T : n <= k
  <1>1. PICK n \in T : \A k \in T : ~(<<k, n>> \in OpToRel(<, Nat))
    BY NatLessThanWellFounded, WFMin
  <1>2. \A k \in T : ~(k < n)
    BY <1>1 DEF OpToRel
  <1> QED
    BY <1>2

LEMMA MaxOfInterval ==
    ASSUME NEW n \in Nat, NEW s \in SUBSET (1..n), s # {}
    PROVE  Max(s) \in s /\ \A k \in s : k <= Max(s)
  <1> DEFINE T == {n - k : k \in s}
  <1>1. T \in SUBSET Nat /\ T # {}
    <2>1. \A k \in s : n - k \in Nat
      OBVIOUS
    <2> QED
      BY <2>1
  <1> HIDE DEF T
  <1>2. PICK t \in T : \A k \in T : t <= k
    BY <1>1, Smallest
  <1>3. PICK m \in s : t = n - m
    BY DEF T
  <1>4. \A k \in s : m >= k
    <2> TAKE k \in s
    <2>1. n - k \in T
      BY DEF T
    <2> QED
      BY <1>2, <1>3, <2>1
  <1>5. \E x \in s : \A y \in s : x >= y
    BY <1>4
  <1> QED
    BY <1>5 DEF Max

(* What FoldLeft defines by recursion over sets of positions. *)
Unfolds(iter, v, q, n) ==
    iter = [s \in SUBSET (1..n) |->
              IF s = {} THEN v ELSE Take(iter[s \ {Max(s)}], q[Max(s)])]

LEMMA UnfoldsTo ==
    ASSUME NEW v, NEW q, NEW n \in Nat
    PROVE  \E iter : Unfolds(iter, v, q, n)
  <1> DEFINE T == {k \in Nat : ~\E iter : Unfolds(iter, v, q, k)}
  <1> SUFFICES ASSUME T # {} PROVE FALSE
    OBVIOUS
  <1>1. PICK k \in T : \A j \in T : k <= j
    BY Smallest
  <1>2. CASE k = 0
    <2>1. Unfolds([s \in SUBSET (1..0) |-> v], v, q, 0)
      BY DEF Unfolds
    <2> QED
      BY <1>1, <1>2, <2>1
  <1>3. CASE k # 0
    <2>1. k - 1 \in Nat /\ k - 1 \notin T
      BY <1>1, <1>3
    <2>2. PICK g : Unfolds(g, v, q, k - 1)
      BY <2>1
    <2> DEFINE h == [s \in SUBSET (1..k) |->
                       IF k \in s THEN Take(g[s \ {k}], q[k]) ELSE g[s]]
    <2>3. ASSUME NEW s \in SUBSET (1..k)
          PROVE  h[s] = IF s = {} THEN v ELSE Take(h[s \ {Max(s)}], q[Max(s)])
      <3>1. CASE k \in s
        <4>1. Max(s) = k
          <5>1. k \in Nat /\ s # {}
            BY <1>1, <3>1
          <5>2. Max(s) \in s /\ \A j \in s : j <= Max(s)
            BY <5>1, MaxOfInterval
          <5>3. Max(s) \in 1..k /\ k <= Max(s)
            BY <3>1, <5>2
          <5> QED
            BY <5>1, <5>3
        <4>2. h[s] = Take(g[s \ {k}], q[k])
          BY <3>1
        <4>3. s \ {k} \in SUBSET (1..k) /\ h[s \ {k}] = g[s \ {k}]
          OBVIOUS
        <4> QED
          BY <3>1, <4>1, <4>2, <4>3
      <3>2. CASE k \notin s
        <4>1. s \in SUBSET (1..k - 1)
          BY <3>2
        <4>2. h[s] = g[s]
          BY <3>2
        <4>3. g[s] = IF s = {} THEN v ELSE Take(g[s \ {Max(s)}], q[Max(s)])
          BY <2>2, <4>1 DEF Unfolds
        <4>4. s \ {Max(s)} \in SUBSET (1..k) /\ k \notin s \ {Max(s)}
          BY <3>2
        <4>5. h[s \ {Max(s)}] = g[s \ {Max(s)}]
          BY <4>4
        <4> QED
          BY <4>2, <4>3, <4>5
      <3> QED
        BY <3>1, <3>2
    <2>4. Unfolds(h, v, q, k)
      BY <2>3 DEF Unfolds
    <2> QED
      BY <1>1, <2>4
  <1> QED
    BY <1>2, <1>3

(* FoldLeft(Take, v, q) is the end of a run over q that starts at v. *)
IsRun(r, v, q) ==
    /\ DOMAIN r = 0..Len(q)
    /\ r[0] = v
    /\ \A k \in 1..Len(q) : r[k] = Take(r[k - 1], q[k])

LEMMA FoldTake ==
    ASSUME NEW v, NEW S, NEW q \in Seq(S)
    PROVE  \E r : IsRun(r, v, q) /\ FoldLeft(Take, v, q) = r[Len(q)]
  <1> DEFINE n == Len(q)
             iter == CHOOSE g : Unfolds(g, v, q, n)
             r == [k \in 0..n |-> iter[1..k]]
  <1>1. n \in Nat /\ DOMAIN q = 1..n
    OBVIOUS
  <1>2. Unfolds(iter, v, q, n)
    BY <1>1, UnfoldsTo
  <1>3. FoldLeft(Take, v, q) = iter[1..n]
    BY <1>1 DEF FoldLeft, MapThenFoldSet, Unfolds
  <1> HIDE DEF iter
  <1>4. r[0] = v
    <2>1. 1..0 = {} /\ r[0] = iter[1..0]
      BY <1>1
    <2> QED
      BY <1>2, <2>1 DEF Unfolds
  <1>5. ASSUME NEW k \in 1..n
        PROVE  r[k] = Take(r[k - 1], q[k])
    <2>1. 1..k \in SUBSET (1..n) /\ 1..k # {}
      BY <1>1
    <2>2. Max(1..k) = k
      <3>1. Max(1..k) \in 1..k /\ \A j \in 1..k : j <= Max(1..k)
        BY <1>1, <2>1, MaxOfInterval
      <3> QED
        BY <1>1, <3>1
    <2>3. (1..k) \ {k} = 1..k - 1
      OBVIOUS
    <2>4. iter[1..k] = Take(iter[(1..k) \ {k}], q[k])
      BY <1>2, <2>1, <2>2 DEF Unfolds
    <2>5. r[k] = iter[1..k] /\ r[k - 1] = iter[1..k - 1]
      BY <1>1
    <2> QED
      BY <2>3, <2>4, <2>5
  <1>6. DOMAIN r = 0..n /\ r[n] = iter[1..n]
    BY <1>1
  <1> HIDE DEF r
  <1> QED
    BY <1>3, <1>4, <1>5, <1>6 DEF IsRun

-------------------------------------------------------------------------------
(* The log only grows, and what is said of its events stays true.          *)

Longer ==
    /\ mode' = mode
    /\ log \in Seq(Event) /\ log' \in Seq(Event)
    /\ Len(log) <= Len(log')
    /\ \A i \in 1..Len(log) : log'[i] = log[i]

LEMMA Published ==
    ASSUME log \in Seq(Event), NEW e \in Event, log' = Append(log, e), mode' = mode
    PROVE  Longer /\ Len(log') = Len(log) + 1
  BY DEF Longer, Event

LEMMA Unpublished ==
    ASSUME log \in Seq(Event), log' = log, mode' = mode
    PROVE  Longer
  BY DEF Longer

LEMMA EventsAre ==
    ASSUME log \in Seq(Event)
    PROVE  /\ Len(log) \in Nat
           /\ DOMAIN log = Events
           /\ \A i \in Events : /\ i \in Nat
                                /\ log[i].type \in {"change", "chat", "joined", "left"}
                                /\ log[i].who \in Names
  <1>1. Len(log) \in Nat /\ DOMAIN log = 1..Len(log) /\ \A i \in 1..Len(log) : log[i] \in Event
    OBVIOUS
  <1> QED
    BY <1>1 DEF Events, Event

LEMMA LongerGrows ==
    ASSUME Longer
    PROVE  /\ log' \in Seq(Event) /\ Len(log) \in Nat /\ Len(log') \in Nat
           /\ Len(log) <= Len(log') /\ Events \subseteq Events' /\ mode' = mode
           /\ \A i \in Events : log'[i] = log[i]
  BY DEF Longer, Events

LEMMA SeenStays ==
    ASSUME Longer, NEW v, Seen(v)
    PROVE  /\ v \in Pane
           /\ v.remoteUpdates \subseteq Events'
           /\ ToSet(v.chatMessages) \subseteq Events'
  BY LongerGrows DEF Seen

LEMMA ShowsStay ==
    ASSUME Longer, NEW v, NEW S \in SUBSET Events, Shows(log, v, S)
    PROVE  Shows(log', v, S)
  BY LongerGrows DEF Shows

LEMMA NamedStays ==
    ASSUME Longer, NEW v, NEW q, ToSet(q) \subseteq Events, NEW k, Named(log, v, q, k)
    PROVE  Named(log', v, q, k)
  <1>1. \A n \in DOMAIN q : q[n] \in Events
    BY DEF ToSet
  <1> QED
    BY <1>1, LongerGrows DEF Named

-------------------------------------------------------------------------------
(* Sequences of events.                                                    *)

LEMMA Appended ==
    ASSUME NEW q \in Seq(Nat), NEW i \in Nat
    PROVE  /\ Append(q, i) \in Seq(Nat)
           /\ Len(q) \in Nat /\ DOMAIN q = 1..Len(q)
           /\ DOMAIN Append(q, i) = 1..Len(q) + 1
           /\ \A a \in 1..Len(q) : Append(q, i)[a] = q[a] /\ q[a] \in Nat
           /\ Append(q, i)[Len(q) + 1] = i
           /\ ToSet(Append(q, i)) = ToSet(q) \cup {i}
  <1>1. /\ Append(q, i) \in Seq(Nat)
        /\ Len(q) \in Nat /\ DOMAIN q = 1..Len(q)
        /\ DOMAIN Append(q, i) = 1..Len(q) + 1
        /\ \A a \in 1..Len(q) : Append(q, i)[a] = q[a] /\ q[a] \in Nat
        /\ Append(q, i)[Len(q) + 1] = i
    OBVIOUS
  <1>2. 1..Len(q) + 1 = 1..Len(q) \cup {Len(q) + 1}
    BY <1>1
  <1> DEFINE r == Append(q, i)
  <1>3. ToSet(r) = {r[a] : a \in DOMAIN r} /\ ToSet(q) = {q[a] : a \in DOMAIN q}
    BY DEF ToSet
  <1> HIDE DEF r
  <1>4. ToSet(r) = ToSet(q) \cup {i}
    BY <1>1, <1>2, <1>3 DEF r
  <1> QED
    BY <1>1, <1>4 DEF r

LEMMA Concatenated ==
    ASSUME NEW q \in Seq(Nat), NEW p \in Seq(Nat)
    PROVE  q \o p \in Seq(Nat) /\ ToSet(q \o p) = ToSet(q) \cup ToSet(p)
  <1> DEFINE r == q \o p
  <1>1. /\ r \in Seq(Nat)
        /\ Len(q) \in Nat /\ DOMAIN q = 1..Len(q)
        /\ Len(p) \in Nat /\ DOMAIN p = 1..Len(p)
        /\ DOMAIN r = 1..Len(q) + Len(p)
        /\ \A a \in 1..Len(q) + Len(p) :
              r[a] = IF a <= Len(q) THEN q[a] ELSE p[a - Len(q)]
    OBVIOUS
  <1> HIDE DEF r
  <1>2. ToSet(r) \subseteq ToSet(q) \cup ToSet(p)
    <2> SUFFICES ASSUME NEW a \in DOMAIN r PROVE r[a] \in ToSet(q) \cup ToSet(p)
      BY DEF ToSet
    <2>1. CASE a <= Len(q)
      BY <1>1, <2>1 DEF ToSet
    <2>2. CASE ~(a <= Len(q))
      <3>1. a - Len(q) \in DOMAIN p
        BY <1>1, <2>2
      <3> QED
        BY <1>1, <2>2, <3>1 DEF ToSet
    <2> QED
      BY <2>1, <2>2
  <1>3. ToSet(q) \subseteq ToSet(r)
    <2> SUFFICES ASSUME NEW a \in DOMAIN q PROVE q[a] \in ToSet(r)
      BY DEF ToSet
    <2>1. a \in DOMAIN r /\ r[a] = q[a]
      BY <1>1
    <2> QED
      BY <2>1 DEF ToSet
  <1>4. ToSet(p) \subseteq ToSet(r)
    <2> SUFFICES ASSUME NEW a \in DOMAIN p PROVE p[a] \in ToSet(r)
      BY DEF ToSet
    <2>1. a \in 1..Len(p) /\ a + Len(q) \in 1..Len(q) + Len(p)
      BY <1>1
    <2>2. ~(a + Len(q) <= Len(q)) /\ a + Len(q) - Len(q) = a
      BY <1>1, <2>1
    <2>3. a + Len(q) \in DOMAIN r /\ r[a + Len(q)] = p[a]
      BY <1>1, <2>1, <2>2
    <2> QED
      BY <2>3 DEF ToSet
  <1> QED
    BY <1>1, <1>2, <1>3, <1>4 DEF r

LEMMA EmptySequence ==
    /\ <<>> \in Seq(Nat) /\ ToSet(<<>>) = {} /\ DOMAIN <<>> = {}
  BY DEF ToSet

-------------------------------------------------------------------------------
(* The view.                                                               *)

LEMMA TakeSets ==
    ASSUME log \in Seq(Event), NEW v \in Pane, NEW i \in Events
    PROVE  /\ Take(v, i) \in Pane
           /\ v.usernames \subseteq Take(v, i).usernames
           /\ log[i].type = "joined" => log[i].who \in Take(v, i).usernames
           /\ Take(v, i).remoteUpdates = IF log[i].type = "change" THEN v.remoteUpdates \cup {i}
                                                                   ELSE v.remoteUpdates
           /\ Take(v, i).chatMessages = IF log[i].type = "change" THEN v.chatMessages
                                                                  ELSE Append(v.chatMessages, i)
  <1>1. /\ i \in Nat /\ log[i].who \in Names
        /\ log[i].type \in {"change", "chat", "joined", "left"}
    BY EventsAre
  <1>2. /\ v.userCount \in Int /\ v.usernames \subseteq Names
        /\ v.remoteUpdates \subseteq Nat /\ v.chatMessages \in Seq(Nat)
    BY DEF Pane
  <1>7. PICK q : q = Append(v.chatMessages, i) /\ q \in Seq(Nat)
    <2>1. Append(v.chatMessages, i) \in Seq(Nat)
      BY <1>1, <1>2, Appended
    <2> QED
      BY <2>1
  <1>3. CASE log[i].type = "change"
    <2>1. Take(v, i) = [v EXCEPT !.remoteUpdates = @ \cup {i}]
      BY <1>3 DEF Take
    <2>2. Take(v, i) \in Pane
      BY <1>1, <1>2, <1>7, <2>1 DEF Pane
    <2> QED
      BY <1>1, <1>2, <1>3, <1>7, <2>1, <2>2 DEF Pane
  <1>4. CASE log[i].type = "joined"
    <2>1. PICK n \in Int : n = v.userCount + 1
      BY <1>2
    <2>2. PICK names \in SUBSET Names : names = v.usernames \cup {log[i].who}
      BY <1>1, <1>2
    <2>3. Take(v, i) = [v EXCEPT !.userCount = n, !.usernames = names, !.chatMessages = q]
      BY <1>4, <1>7, <2>1, <2>2 DEF Take
    <2>4. Take(v, i) \in Pane
      BY <1>7, <2>3 DEF Pane
    <2> QED
      BY <1>4, <1>7, <2>1, <2>2, <2>3, <2>4 DEF Pane
  <1>5. CASE log[i].type = "left"
    <2>1. PICK n \in Int : n = IF v.userCount > 0 THEN v.userCount - 1 ELSE 0
      BY <1>2
    <2>2. Take(v, i) = [v EXCEPT !.userCount = n, !.chatMessages = q]
      BY <1>5, <1>7, <2>1 DEF Take
    <2>3. Take(v, i) \in Pane
      BY <1>7, <2>2 DEF Pane
    <2> QED
      BY <1>5, <1>7, <2>1, <2>2, <2>3 DEF Pane
  <1>6. CASE log[i].type = "chat"
    <2>1. Take(v, i) = [v EXCEPT !.chatMessages = q]
      BY <1>6, <1>7 DEF Take
    <2>2. Take(v, i) \in Pane
      BY <1>1, <1>2, <1>7, <2>1 DEF Pane
    <2> QED
      BY <1>1, <1>2, <1>6, <1>7, <2>1, <2>2 DEF Pane
  <1> QED
    BY <1>1, <1>3, <1>4, <1>5, <1>6

LEMMA TakeSees ==
    ASSUME log \in Seq(Event), NEW v, Seen(v), NEW i \in Events
    PROVE  Seen(Take(v, i))
  <1>1. v.chatMessages \in Seq(Nat) /\ i \in Nat
    BY EventsAre DEF Seen, Pane
  <1>2. ToSet(Append(v.chatMessages, i)) = ToSet(v.chatMessages) \cup {i}
    BY <1>1, Appended
  <1> QED
    BY <1>2, TakeSets DEF Seen

LEMMA TakeShows ==
    ASSUME log \in Seq(Event), NEW v, Seen(v), NEW i \in Events, NEW S, Shows(log, v, S)
    PROVE  Shows(log, Take(v, i), S \cup {i})
  <1>1. v \in Pane /\ v.chatMessages \in Seq(Nat) /\ i \in Nat
    BY EventsAre DEF Seen, Pane
  <1>2. ToSet(Append(v.chatMessages, i)) = ToSet(v.chatMessages) \cup {i}
    BY <1>1, Appended
  <1>3. /\ v.remoteUpdates \subseteq Take(v, i).remoteUpdates
        /\ log[i].type = "change" => i \in Take(v, i).remoteUpdates
    <2>1. Take(v, i).remoteUpdates = IF log[i].type = "change" THEN v.remoteUpdates \cup {i}
                                                               ELSE v.remoteUpdates
      BY <1>1, TakeSets
    <2> QED
      BY <2>1
  <1>4. /\ ToSet(v.chatMessages) \subseteq ToSet(Take(v, i).chatMessages)
        /\ log[i].type = "chat" => i \in ToSet(Take(v, i).chatMessages)
    BY <1>1, <1>2, TakeSets
  <1> QED
    BY <1>3, <1>4 DEF Shows

LEMMA TakeNames ==
    ASSUME log \in Seq(Event), NEW v, Seen(v), NEW i \in Events, NEW q \in Seq(Nat),
           NEW k, Named(log, v, q, k)
    PROVE  Named(log, Take(v, i), Append(q, i), k)
  <1>1. v \in Pane /\ i \in Nat
    BY EventsAre DEF Seen
  <1>2. /\ v.usernames \subseteq Take(v, i).usernames
        /\ log[i].type = "joined" => log[i].who \in Take(v, i).usernames
    BY <1>1, TakeSets
  <1>3. /\ Len(q) \in Nat /\ DOMAIN q = 1..Len(q) /\ DOMAIN Append(q, i) = 1..Len(q) + 1
        /\ \A a \in 1..Len(q) : Append(q, i)[a] = q[a]
        /\ Append(q, i)[Len(q) + 1] = i
    BY <1>1, Appended
  <1>4. ASSUME NEW n \in DOMAIN Append(q, i), n > k, log[Append(q, i)[n]].type = "joined"
        PROVE  log[Append(q, i)[n]].who \in Take(v, i).usernames
    <2>1. CASE n = Len(q) + 1
      BY <1>2, <1>3, <1>4, <2>1
    <2>2. CASE n \in 1..Len(q)
      BY <1>2, <1>3, <1>4, <2>2 DEF Named
    <2> QED
      BY <1>3, <2>1, <2>2
  <1> QED
    BY <1>4 DEF Named

(* The buffer is drained over the snapshot. *)
LEMMA Drained ==
    ASSUME Types, Flow, Answer, mode = "join", awaits = "sync",
           NEW s \in reply,
           NEW start, start = [s EXCEPT !.userCount = @ - 1]
    PROVE  LET v == FoldLeft(Take, start, buffer)
           IN  /\ Seen(v) /\ Shows(log, v, Reached)
               /\ snap.usernames \subseteq v.usernames
               /\ Named(log, v, heard, 0)
  <1> DEFINE v == FoldLeft(Take, start, buffer)
  <1>1. PICK S : S = snap.events
    OBVIOUS
  <1>2. PICK q \in Seq(Nat) : q = buffer
    BY DEF Types
  <1>3. /\ log \in Seq(Event) /\ q = heard /\ Len(q) \in Nat /\ DOMAIN q = 1..Len(q)
        /\ \A k \in 1..Len(q) : q[k] \in Events
    <2>1. q = heard /\ ToSet(q) \subseteq Events
      BY <1>2 DEF Types, Flow
    <2> QED
      BY <1>2, <2>1 DEF Types, ToSet
  <1>4. Seen(s) /\ Shows(log, s, S) /\ s.usernames = snap.usernames
    BY <1>1 DEF Types, Answer
  <1>5. /\ start \in Pane /\ start.usernames = s.usernames
        /\ start.remoteUpdates = s.remoteUpdates /\ start.chatMessages = s.chatMessages
    <2>1. PICK n \in Int : n = s.userCount - 1
      BY <1>4 DEF Seen, Pane
    <2>2. start = [s EXCEPT !.userCount = n]
      BY <2>1
    <2> QED
      BY <1>4, <2>1, <2>2 DEF Seen, Pane
  <1>6. Seen(start) /\ Shows(log, start, S)
    BY <1>4, <1>5 DEF Seen, Shows
  <1>7. PICK r : IsRun(r, start, q) /\ v = r[Len(q)]
    BY <1>2, FoldTake
  <1> HIDE DEF v
  <1> DEFINE Good(w, k) == /\ Seen(w) /\ Shows(log, w, S \cup {q[j] : j \in 1..k})
                           /\ s.usernames \subseteq w.usernames
                           /\ \A j \in 1..k : log[q[j]].type = "joined"
                                                 => log[q[j]].who \in w.usernames
             Bad == {k \in 0..Len(q) : ~Good(r[k], k)}
  <1>8. Good(r[0], 0)
    <2>1. S \cup {q[j] : j \in 1..0} = S
      OBVIOUS
    <2>2. r[0] = start
      BY <1>7 DEF IsRun
    <2>3. Shows(log, start, S \cup {q[j] : j \in 1..0})
      BY <1>6, <2>1
    <2>4. \A j \in 1..0 : FALSE
      OBVIOUS
    <2>5. Good(start, 0)
      BY <1>5, <1>6, <2>3, <2>4
    <2> QED
      BY <2>2, <2>5
  <1>9. ASSUME NEW k \in 1..Len(q), Good(r[k - 1], k - 1)
        PROVE  Good(r[k], k)
    <2>1. PICK w : w = r[k - 1]
      OBVIOUS
    <2>2. PICK i : i = q[k]
      OBVIOUS
    <2>3. i \in Events /\ r[k] = Take(w, i)
      BY <1>3, <1>7, <2>1, <2>2 DEF IsRun
    <2>4. PICK T : T = S \cup {q[j] : j \in 1..k - 1}
      OBVIOUS
    <2>5. /\ Seen(w) /\ Shows(log, w, T) /\ s.usernames \subseteq w.usernames
          /\ \A j \in 1..k - 1 : log[q[j]].type = "joined" => log[q[j]].who \in w.usernames
      BY <1>9, <2>1, <2>4
    <2>6. 1..k = 1..k - 1 \cup {k}
      BY <1>3
    <2>7. S \cup {q[j] : j \in 1..k} = T \cup {i}
      BY <2>2, <2>4, <2>6
    <2>8. Seen(Take(w, i)) /\ Shows(log, Take(w, i), T \cup {i})
      BY <1>3, <2>3, <2>5, TakeSees, TakeShows
    <2>9. /\ w.usernames \subseteq Take(w, i).usernames
          /\ log[i].type = "joined" => log[i].who \in Take(w, i).usernames
      BY <1>3, <2>3, <2>5, TakeSets DEF Seen
    <2>10. \A j \in 1..k : log[q[j]].type = "joined" => log[q[j]].who \in Take(w, i).usernames
      BY <2>2, <2>5, <2>6, <2>9
    <2>11. s.usernames \subseteq Take(w, i).usernames
      BY <2>5, <2>9
    <2> QED
      BY <2>3, <2>7, <2>8, <2>10, <2>11
  <1> HIDE DEF Good
  <1>10. Bad = {}
    <2> SUFFICES ASSUME Bad # {} PROVE FALSE
      OBVIOUS
    <2>1. Bad \in SUBSET Nat
      BY <1>3
    <2>2. PICK k \in Bad : \A j \in Bad : k <= j
      BY <2>1, Smallest
    <2>3. k # 0
      BY <1>8, <2>2
    <2>4. k \in 1..Len(q) /\ k - 1 \in 0..Len(q) /\ k - 1 < k /\ k - 1 \in Nat
      BY <1>3, <2>2, <2>3
    <2>5. Good(r[k - 1], k - 1)
      BY <2>1, <2>2, <2>4
    <2>6. Good(r[k], k)
      BY <1>9, <2>4, <2>5
    <2> QED
      BY <2>2, <2>6
  <1>11. Good(v, Len(q))
    <2>1. Len(q) \in 0..Len(q)
      BY <1>3
    <2> QED
      BY <1>7, <1>10, <2>1
  <1>12. S \cup {q[j] : j \in 1..Len(q)} = Reached
    BY <1>1, <1>3 DEF Reached, ToSet
  <1>13. Named(log, v, heard, 0)
    BY <1>3, <1>11 DEF Good, Named
  <1>14. Seen(v) /\ Shows(log, v, Reached) /\ snap.usernames \subseteq v.usernames
    BY <1>4, <1>11, <1>12 DEF Good
  <1> QED
    BY <1>13, <1>14 DEF v

-------------------------------------------------------------------------------
(* The steps.                                                              *)

LEMMA StepsGrow ==
    ASSUME Types, Next
    PROVE  Longer
  <1>1. mode' = mode
    BY DEF Next, OtherActs, Register, HubCloses, SocketCloses, WorkerApplies, WorkerMisses,
           StartWorker, AnswerSync, Connect, Acknowledged, Receive, Miss, BringAgain, Bring,
           Initialized, InitSynced, JoinSynced, Activate, RequestFails, NoticeClosed, ShowChat,
           Send, flowVars
  <1>2. \/ log' = log
        \/ \E type \in {"change", "chat", "joined", "left"}, o \in Names :
              log' = Append(log, [type |-> type, who |-> o])
    <2>1. ASSUME NEW o \in Others, NEW type \in {"joined", "left", "change", "chat"},
                 OtherActs(o, type)
          PROVE  log' = Append(log, [type |-> type, who |-> o]) /\ o \in Names
      BY <2>1 DEF OtherActs, Publish, Names
    <2>2. Me \in Names
      BY DEF Names
    <2>3. Register => log' = Append(log, [type |-> "joined", who |-> Me])
      BY DEF Register, Publish
    <2>4. HubCloses => log' = Append(log, [type |-> "left", who |-> Me])
      BY DEF HubCloses, Publish
    <2>5. ASSUME NEW type \in {"change", "chat"}, Send(type)
          PROVE  log' = log \/ log' = Append(log, [type |-> type, who |-> Me])
      BY <2>5 DEF Send, Publish
    <2>6. ASSUME \/ SocketCloses \/ StartWorker \/ AnswerSync \/ Connect \/ Acknowledged
                 \/ Receive \/ Miss \/ Initialized \/ InitSynced \/ JoinSynced \/ RequestFails
                 \/ NoticeClosed \/ ShowChat
                 \/ \E i \in 1..Len(log) : WorkerApplies(i) \/ WorkerMisses(i) \/ BringAgain(i)
          PROVE  log' = log
      BY <2>6 DEF SocketCloses, WorkerApplies, WorkerMisses, StartWorker, AnswerSync, Connect,
                  Acknowledged, Receive, Miss, BringAgain, Bring, Initialized, InitSynced,
                  JoinSynced, Activate, RequestFails, NoticeClosed, ShowChat, roomVars
    <2> QED
      BY <2>1, <2>2, <2>3, <2>4, <2>5, <2>6 DEF Next
  <1>3. CASE log' = log
    BY <1>1, <1>3, Unpublished DEF Types
  <1>4. ASSUME NEW type \in {"change", "chat", "joined", "left"}, NEW o \in Names,
               log' = Append(log, [type |-> type, who |-> o])
        PROVE  Longer
    <2>1. [type |-> type, who |-> o] \in Event
      BY DEF Event
    <2> QED
      BY <1>1, <1>4, <2>1, Published DEF Types
  <1> QED
    BY <1>2, <1>3, <1>4

(* What inbound$ brings of the room is an event, and what comes of it. *)
LEMMA BringIs ==
    ASSUME Types, Receive \/ (\E i \in 1..Len(log) : BringAgain(i))
    PROVE  \E i \in Events : /\ Bring(i)
                             /\ pos' \in Nat /\ pos' <= Len(log)
  <1>1. Len(log) \in Nat
    BY EventsAre DEF Types
  <1>2. CASE Receive
    <2>1. pos' \in Events /\ Bring(pos')
      BY <1>1, <1>2 DEF Receive, Types, Events
    <2> QED
      BY <1>1, <1>2, <2>1 DEF Receive, Events
  <1>3. ASSUME NEW i \in 1..Len(log), BringAgain(i)
        PROVE  i \in Events /\ Bring(i) /\ pos' = pos
    BY <1>3 DEF BringAgain, Events
  <1> QED
    BY <1>2, <1>3 DEF Types

LEMMA Brought ==
    ASSUME NEW i, Bring(i)
    PROVE  /\ wsState = "open"
           /\ buffer' = IF buffering THEN Append(buffer, i) ELSE buffer
           /\ view' = IF routed THEN Take(view, i) ELSE view
           /\ heard' = IF Listening THEN Append(heard, i) ELSE heard
           /\ IF phase # "active" \/ chat = "absent" \/ log[i].type = "change"
              THEN chat' = chat /\ unknown' = unknown
              ELSE /\ unknown' = (unknown \ {i}) \cup Unresolved(view', {i})
                   /\ chat' = IF chat = "tracking" /\ log[i].type = "joined" THEN "due" ELSE chat
           /\ UNCHANGED <<mode, phase, awaits, routed, buffering, wsState, log, room, since,
                          worker, reply, snap, synced>>
  BY DEF Bring, Shown, chatVars, roomVars

(* Both answers end the flow. *)
LEMMA Activates ==
    ASSUME Types, Flow, Answer, Views, InitSynced \/ JoinSynced
    PROVE  \E v : /\ awaits = "sync" /\ Activate(v) /\ Seen(v)
                  /\ Shows(log, v, Reached) /\ snap.usernames \subseteq v.usernames
                  /\ mode = "join" => Named(log, v, heard, 0)
  <1>1. CASE InitSynced
    <2>1. PICK s \in reply : /\ awaits = "sync" /\ mode = "initialize"
                             /\ Activate([view EXCEPT !.usernames = s.usernames,
                                            !.remoteUpdates = @ \cup s.remoteUpdates,
                                            !.chatMessages = @ \o s.chatMessages])
      BY <1>1 DEF InitSynced
    <2>2. /\ Seen(s) /\ Seen(view) /\ Shows(log, s, snap.events) /\ s.usernames = snap.usernames
          /\ Shows(log, view, ToSet(heard))
      BY <2>1 DEF Types, Answer, Views
    <2>3. PICK q : q = view.chatMessages \o s.chatMessages
      OBVIOUS
    <2>4. q \in Seq(Nat) /\ ToSet(q) = ToSet(view.chatMessages) \cup ToSet(s.chatMessages)
      BY <2>2, <2>3, Concatenated DEF Seen, Pane
    <2>5. PICK c \in SUBSET Nat : c = view.remoteUpdates \cup s.remoteUpdates
      BY <2>2 DEF Seen, Pane
    <2>6. PICK names \in SUBSET Names : names = s.usernames
      BY <2>2 DEF Seen, Pane
    <2>7. PICK v : v = [view EXCEPT !.usernames = names, !.remoteUpdates = c, !.chatMessages = q]
      OBVIOUS
    <2>8. Activate(v)
      BY <2>1, <2>3, <2>5, <2>6, <2>7
    <2>9. /\ v \in Pane /\ v.usernames = s.usernames /\ v.chatMessages = q
          /\ v.remoteUpdates = c
      BY <2>2, <2>4, <2>6, <2>7 DEF Seen, Pane
    <2>10. Seen(v)
      BY <2>2, <2>4, <2>5, <2>9 DEF Seen
    <2>11. Shows(log, v, Reached)
      BY <2>2, <2>4, <2>5, <2>9 DEF Shows, Reached
    <2> QED
      BY <2>1, <2>2, <2>8, <2>9, <2>10, <2>11
  <1>2. CASE JoinSynced
    <2>1. PICK s \in reply : /\ awaits = "sync" /\ mode = "join"
                             /\ Activate(FoldLeft(Take, [s EXCEPT !.userCount = @ - 1], buffer))
      BY <1>2 DEF JoinSynced
    <2>2. PICK start : start = [s EXCEPT !.userCount = @ - 1]
      OBVIOUS
    <2>3. PICK v : v = FoldLeft(Take, start, buffer)
      OBVIOUS
    <2>4. Activate(v)
      BY <2>1, <2>2, <2>3
    <2>5. /\ Seen(v) /\ Shows(log, v, Reached) /\ snap.usernames \subseteq v.usernames
          /\ Named(log, v, heard, 0)
      BY <2>1, <2>2, <2>3, Drained
    <2> QED
      BY <2>1, <2>4, <2>5
  <1> QED
    BY <1>1, <1>2

(* Whatever only adds to the log, or touches nothing of the data. *)
LEMMA TypesGrow ==
    ASSUME Types, Longer,
           UNCHANGED <<view, unknown, worker, reply, snap, heard, synced, buffer>>,
           phase' \in {"connecting", "syncing", "active", "error"},
           awaits' \in {"ticket", "ack", "init", "sync", "nothing"},
           wsState' \in {"requesting-ticket", "connecting", "open", "closed"},
           chat' \in {"absent", "untracking", "tracking", "due"},
           buffering' \in BOOLEAN, routed' \in BOOLEAN,
           room' \subseteq Names, since' \in Nat, pos' \in Nat, pos' <= Len(log')
    PROVE  Types'
  <1>1. /\ log' \in Seq(Event) /\ Events \subseteq Events' /\ mode' = mode
        /\ \A i \in Events : log'[i] = log[i]
    BY LongerGrows
  <1>2. Seen(view)'
    BY SeenStays DEF Types, Seen
  <1>3. \A s \in reply' : Seen(s)'
    <2> TAKE s \in reply'
    <2>1. Seen(s)
      BY DEF Types
    <2> QED
      BY <2>1, SeenStays DEF Seen
  <1>4. \A i \in unknown' : i \in Events' /\ log'[i].type = "chat"
    BY <1>1 DEF Types
  <1> QED
    BY <1>1, <1>2, <1>3, <1>4 DEF Types

LEMMA QuietTypes ==
    ASSUME Types, Longer,
           \/ \E o \in Others, type \in {"joined", "left", "change", "chat"} : OtherActs(o, type)
           \/ Register \/ HubCloses \/ SocketCloses \/ Connect \/ Acknowledged \/ Miss
           \/ Initialized \/ RequestFails \/ NoticeClosed
    PROVE  Types'
  <1>1. /\ Len(log) \in Nat /\ Len(log') \in Nat /\ Len(log) <= Len(log') /\ pos <= Len(log')
        /\ pos \in Nat
    BY LongerGrows DEF Types
  <1>2. ASSUME NEW o \in Others, NEW type \in {"joined", "left", "change", "chat"},
               OtherActs(o, type)
        PROVE  Types'
    <2>1. room' \subseteq Names
      BY <1>2 DEF OtherActs, Types, Names
    <2> QED
      BY <1>1, <1>2, <2>1, TypesGrow DEF OtherActs, flowVars, chatVars, historyVars, Types
  <1>3. CASE Register
    <2>1. room' \subseteq Names /\ wsState' = "open"
      BY <1>3 DEF Register, Types, Names
    <2>2. since' \in Nat /\ pos' \in Nat /\ pos' <= Len(log')
      BY <1>1, <1>3 DEF Register
    <2> QED
      BY <1>3, <2>1, <2>2, TypesGrow DEF Register, flowVars, chatVars, historyVars, Types
  <1>4. CASE HubCloses
    <2>1. room' \subseteq Names
      BY <1>4 DEF HubCloses, Types
    <2> QED
      BY <1>1, <1>4, <2>1, TypesGrow DEF HubCloses, flowVars, chatVars, historyVars, Types
  <1>5. CASE Miss
    <2>1. pos' \in Nat /\ pos' <= Len(log')
      BY <1>1, <1>5 DEF Miss, roomVars
    <2> QED
      BY <1>5, <2>1, TypesGrow DEF Miss, flowVars, chatVars, roomVars, historyVars, Types
  <1>6. CASE SocketCloses
    BY <1>1, <1>6, TypesGrow DEF SocketCloses, flowVars, chatVars, roomVars, historyVars, Types
  <1>7. CASE Connect
    <2>1. buffering' \in BOOLEAN
      BY <1>7 DEF Connect
    <2> QED
      BY <1>1, <1>7, <2>1, TypesGrow DEF Connect, chatVars, roomVars, historyVars, Types
  <1>8. CASE Acknowledged
    BY <1>1, <1>8, TypesGrow DEF Acknowledged, chatVars, roomVars, historyVars, Types
  <1>9. CASE Initialized
    BY <1>1, <1>9, TypesGrow DEF Initialized, chatVars, roomVars, historyVars, Types
  <1>10. CASE RequestFails \/ NoticeClosed
    BY <1>1, <1>10, TypesGrow DEF RequestFails, NoticeClosed, Fail, chatVars, roomVars,
                                  historyVars, Types
  <1> QED
    BY <1>2, <1>3, <1>4, <1>5, <1>6, <1>7, <1>8, <1>9, <1>10

LEMMA WorkerTypes ==
    ASSUME Types, Longer,
           \/ \E i \in 1..Len(log) : WorkerApplies(i) \/ WorkerMisses(i)
           \/ StartWorker \/ AnswerSync
    PROVE  Types'
  <1>1. Len(log) \in Nat
    BY EventsAre DEF Types
  <1>2. ASSUME NEW i \in 1..Len(log), WorkerApplies(i) PROVE Types'
    <2>1. UNCHANGED <<mode, phase, awaits, buffering, buffer, routed, wsState, view, chat, unknown,
                      log, room, since, pos, reply, heard, snap, synced>>
      BY <1>2 DEF WorkerApplies, flowVars, chatVars, roomVars, historyVars
    <2>2. i \in Events /\ i \in Nat /\ log[i].who \in Names
      BY EventsAre DEF Events, Types
    <2>3. PICK q \in Seq(Nat) : /\ q = IF log[i].type = "chat" THEN Append(worker.chatHistory, i)
                                       ELSE worker.chatHistory
                                /\ ToSet(q) \subseteq Events
      <3>1. worker.chatHistory \in Seq(Nat) /\ ToSet(worker.chatHistory) \subseteq Events
        BY DEF Types, Worker
      <3>2. PICK h : h = Append(worker.chatHistory, i)
        OBVIOUS
      <3>3. h \in Seq(Nat) /\ ToSet(h) = ToSet(worker.chatHistory) \cup {i}
        BY <2>2, <3>1, <3>2, Appended
      <3> QED
        BY <2>2, <3>1, <3>2, <3>3
    <2>4. PICK n \in Int : n = CASE log[i].type = "joined" -> worker.userCount + 1
                                 [] log[i].type = "left" -> IF worker.userCount > 0
                                                            THEN worker.userCount - 1 ELSE 0
                                 [] OTHER -> worker.userCount
      BY DEF Types, Worker
    <2>5. PICK names \in SUBSET Names :
             names = CASE log[i].type = "joined" -> worker.participants \cup {log[i].who}
                       [] log[i].type = "left" -> worker.participants \ {log[i].who}
                       [] OTHER -> worker.participants
      BY <2>2 DEF Types, Worker
    <2>6. PICK S \in SUBSET Nat : S = worker.applied \cup {i}
      BY <2>2 DEF Types, Worker
    <2>7. worker' = [worker EXCEPT !.applied = S, !.chatHistory = q, !.userCount = n,
                                   !.participants = names]
      BY <1>2, <2>3, <2>4, <2>5, <2>6 DEF WorkerApplies
    <2>8. worker' \in Worker /\ worker'.applied = S /\ worker'.missed = worker.missed
          /\ worker'.chatHistory = q
      BY <2>7 DEF Types, Worker
    <2> QED
      BY <2>1, <2>2, <2>3, <2>6, <2>8 DEF Types, Events, Seen
  <1>3. ASSUME NEW i \in 1..Len(log), WorkerMisses(i) PROVE Types'
    <2>1. /\ UNCHANGED <<mode, phase, awaits, buffering, buffer, routed, wsState, view, chat,
                         unknown, log, room, since, pos, reply, heard, snap, synced>>
          /\ worker' = [worker EXCEPT !.missed = @ \cup {i}]
      BY <1>3 DEF WorkerMisses, flowVars, chatVars, roomVars
    <2>2. PICK M \in SUBSET Nat : M = worker.missed \cup {i}
      <3>1. i \in Nat /\ worker.missed \subseteq Nat
        BY DEF Types, Worker
      <3> QED
        BY <3>1
    <2>3. worker' = [worker EXCEPT !.missed = M]
      BY <2>1, <2>2
    <2>4. worker' \in Worker /\ worker'.applied = worker.applied /\ worker'.missed = M
          /\ worker'.chatHistory = worker.chatHistory
      BY <2>3 DEF Types, Worker
    <2> QED
      BY <2>1, <2>2, <2>4 DEF Types, Events, Seen
  <1>4. CASE StartWorker
    <2>1. UNCHANGED <<mode, phase, awaits, buffering, buffer, routed, wsState, view, chat, unknown,
                      log, room, since, pos, reply, heard, snap, synced>>
      BY <1>4 DEF StartWorker, flowVars, chatVars, roomVars, historyVars
    <2>2. PICK k \in since..Len(log) :
              worker' = [worker EXCEPT !.running = TRUE, !.missed = 1..k,
                                       !.userCount = 1, !.participants = {Me}]
      BY <1>4 DEF StartWorker
    <2>3. 1..k \subseteq Nat /\ 1..k \subseteq Events
      BY <1>1, <2>2 DEF Events, Types
    <2>4. PICK M \in SUBSET Nat : M = 1..k
      BY <2>3
    <2>5. PICK names \in SUBSET Names : names = {Me}
      BY DEF Names
    <2>6. worker' = [worker EXCEPT !.running = TRUE, !.missed = M, !.userCount = 1,
                                   !.participants = names]
      BY <2>2, <2>4, <2>5
    <2>7. worker' \in Worker /\ worker'.applied = worker.applied /\ worker'.missed = M
          /\ worker'.chatHistory = worker.chatHistory
      <3>1. worker \in Worker /\ 1 \in Int
        BY DEF Types
      <3> QED
        BY <2>6, <3>1 DEF Worker
    <2> QED
      BY <2>1, <2>3, <2>4, <2>7 DEF Types, Events, Seen
  <1>5. CASE AnswerSync
    <2>1. /\ UNCHANGED <<mode, phase, awaits, buffering, buffer, routed, wsState, view, chat,
                         unknown, log, room, since, pos, worker, heard, synced>>
          /\ reply' = {Snapshot} /\ snap'.events = worker.applied
      BY <1>5 DEF AnswerSync, flowVars, chatVars, roomVars
    <2>2. Seen(Snapshot)
      <3>1. PICK c : c = OfType({"change"}, worker.applied)
        OBVIOUS
      <3>2. c \subseteq Events /\ c \subseteq Nat
        BY <3>1 DEF OfType, Types, Worker
      <3>3. Snapshot = [userCount |-> worker.userCount, usernames |-> worker.participants,
                        remoteUpdates |-> c, chatMessages |-> worker.chatHistory]
        BY <3>1 DEF Snapshot
      <3> QED
        BY <3>2, <3>3 DEF Seen, Pane, Types, Worker
    <2> QED
      BY <2>1, <2>2 DEF Types, Events, Seen
  <1> QED
    BY <1>2, <1>3, <1>4, <1>5

LEMMA ViewTypes ==
    ASSUME Types, Flow, Answer, Views, Longer,
           \/ Receive \/ (\E i \in 1..Len(log) : BringAgain(i))
           \/ InitSynced \/ JoinSynced \/ ShowChat
           \/ \E type \in {"change", "chat"} : Send(type)
    PROVE  Types'
  <1>1. Len(log) \in Nat
    BY EventsAre DEF Types
  <1>2. CASE Receive \/ (\E i \in 1..Len(log) : BringAgain(i))
    <2>1. PICK i \in Events : Bring(i) /\ pos' \in Nat /\ pos' <= Len(log)
      BY <1>2, BringIs
    <2>2. /\ i \in Nat /\ log \in Seq(Event) /\ Seen(view)
          /\ buffer \in Seq(Nat) /\ ToSet(buffer) \subseteq Events
          /\ heard \in Seq(Nat) /\ ToSet(heard) \subseteq Events
      BY EventsAre DEF Types
    <2>3. Seen(view')
      <3>1. view' = view \/ view' = Take(view, i)
        BY <2>1, Brought
      <3>2. Seen(Take(view, i))
        BY <2>2, TakeSees
      <3> QED
        BY <2>2, <3>1, <3>2
    <2>4. buffer' \in Seq(Nat) /\ ToSet(buffer') \subseteq Events
      <3>1. buffer' = buffer \/ buffer' = Append(buffer, i)
        BY <2>1, Brought
      <3>2. Append(buffer, i) \in Seq(Nat) /\ ToSet(Append(buffer, i)) = ToSet(buffer) \cup {i}
        BY <2>2, Appended
      <3> QED
        BY <2>2, <3>1, <3>2
    <2>5. heard' \in Seq(Nat) /\ ToSet(heard') \subseteq Events
      <3>1. heard' = heard \/ heard' = Append(heard, i)
        BY <2>1, Brought
      <3>2. Append(heard, i) \in Seq(Nat) /\ ToSet(Append(heard, i)) = ToSet(heard) \cup {i}
        BY <2>2, Appended
      <3> QED
        BY <2>2, <3>1, <3>2
    <2>6. \A j \in unknown' : j \in Events /\ log[j].type = "chat"
      <3>1. \A j \in unknown : j \in Events /\ log[j].type = "chat"
        BY DEF Types
      <3>2. \A j \in Unresolved(view', {i}) : j \in Events /\ log[j].type = "chat"
        BY DEF Unresolved
      <3> QED
        BY <2>1, <3>1, <3>2, Brought
    <2>7. chat' \in {"absent", "untracking", "tracking", "due"}
      BY <2>1, Brought DEF Types
    <2>8. UNCHANGED <<mode, phase, awaits, routed, buffering, wsState, log, room, since, worker,
                      reply, snap, synced>>
      BY <2>1, Brought
    <2> QED
      BY <2>1, <2>3, <2>4, <2>5, <2>6, <2>7, <2>8 DEF Types, Events, Seen
  <1>3. CASE InitSynced \/ JoinSynced
    <2>1. PICK v : Activate(v) /\ Seen(v)
      BY <1>3, Activates
    <2>2. /\ UNCHANGED <<mode, wsState, chat, unknown, log, room, since, pos, worker, heard, snap>>
          /\ view' = v /\ phase' = "active" /\ awaits' = "nothing" /\ reply' = {}
          /\ buffering' = FALSE /\ buffer' = <<>> /\ routed' = TRUE /\ synced' = Len(heard)
      BY <2>1 DEF Activate, chatVars, roomVars
    <2>3. /\ buffer' \in Seq(Nat) /\ ToSet(buffer') = {} /\ synced' \in Nat
      BY <2>2, EmptySequence DEF Types
    <2> QED
      BY <2>1, <2>2, <2>3 DEF Types, Events, Seen
  <1>4. CASE ShowChat
    <2>1. /\ UNCHANGED <<mode, phase, awaits, buffering, buffer, routed, wsState, view, log, room,
                         since, pos, worker, reply, heard, snap, synced>>
          /\ chat' \in {"untracking", "tracking"}
          /\ unknown' = Unresolved(view, ToSet(view.chatMessages))
      BY <1>4 DEF ShowChat, flowVars, roomVars, historyVars
    <2>2. \A j \in unknown' : j \in Events /\ log[j].type = "chat"
      BY <2>1 DEF Unresolved, Types, Seen
    <2> QED
      BY <2>1, <2>2 DEF Types, Events, Seen
  <1>5. ASSUME NEW type \in {"change", "chat"}, Send(type) PROVE Types'
    <2>1. UNCHANGED <<mode, phase, awaits, buffering, buffer, routed, wsState, chat, unknown, room,
                      since, pos, worker, reply, heard, snap, synced>>
      BY <1>5 DEF Send, flowVars, chatVars
    <2>2. pos' \in Nat /\ pos' <= Len(log')
      BY <2>1, LongerGrows DEF Types
    <2>3. CASE view' = view
      BY <2>1, <2>2, <2>3, TypesGrow DEF Types
    <2>4. CASE view' # view
      <3>1. /\ Len(log') = Len(log) + 1
            /\ view' = [view EXCEPT !.remoteUpdates = @ \cup {Len(log) + 1}]
        BY <1>5, <2>4 DEF Send, Publish, Types
      <3>2. PICK c \in SUBSET Nat : c = view.remoteUpdates \cup {Len(log) + 1}
        <4>1. Len(log) + 1 \in Nat /\ view.remoteUpdates \subseteq Nat
          BY <1>1 DEF Types, Seen, Pane
        <4> QED
          BY <4>1
      <3>3. c \subseteq Events'
        BY <1>1, <3>1, <3>2 DEF Types, Seen, Events
      <3>4. /\ view' \in Pane /\ view'.remoteUpdates = c
            /\ view'.chatMessages = view.chatMessages
        BY <3>1, <3>2 DEF Types, Seen, Pane
      <3>5. Seen(view)'
        BY <3>3, <3>4, LongerGrows DEF Seen, Types
      <3>6. \A s \in reply' : Seen(s)'
        <4> TAKE s \in reply'
        <4>1. Seen(s)
          BY <2>1 DEF Types
        <4> QED
          BY <4>1, SeenStays DEF Seen
      <3>7. \A i \in unknown' : i \in Events' /\ log'[i].type = "chat"
        BY <2>1, LongerGrows DEF Types
      <3>8. Events \subseteq Events' /\ log' \in Seq(Event)
        BY LongerGrows
      <3> QED
        BY <2>1, <2>2, <3>5, <3>6, <3>7, <3>8 DEF Types
    <2> QED
      BY <2>3, <2>4
  <1> QED
    BY <1>2, <1>3, <1>4, <1>5

LEMMA TypesStep ==
    ASSUME Types, Flow, Answer, Views, Next
    PROVE  Types'
  BY StepsGrow, QuietTypes, WorkerTypes, ViewTypes DEF Next

LEMMA FlowStep ==
    ASSUME Types, Flow, Answer, Views, Next
    PROVE  Flow'
  <1>1. Longer
    BY StepsGrow
  <1>2. /\ Len(log) \in Nat /\ mode' = mode /\ MaxEvents \in Nat /\ Me \notin Others
        /\ mode \in {"initialize", "join"}
        /\ buffering \in BOOLEAN /\ routed \in BOOLEAN
    BY <1>1, WorkspaceAssumption, LongerGrows DEF Types
  <1>3. ASSUME NEW o \in Others, NEW type \in {"joined", "left", "change", "chat"},
               OtherActs(o, type)
        PROVE  Flow'
    <2>1. /\ Len(log') = Len(log) + 1 /\ Len(log) < MaxEvents
          /\ Me \in room' <=> Me \in room
          /\ UNCHANGED <<phase, awaits, buffering, buffer, routed, wsState, chat, unknown, heard>>
      BY <1>2, <1>3 DEF OtherActs, Another, Publish, Types, flowVars, chatVars, historyVars
    <2> QED
      BY <1>2, <2>1 DEF Flow
  <1>4. CASE Register
    <2>1. /\ wsState = "connecting" /\ wsState' = "open" /\ Len(log') = Len(log) + 1
          /\ Len(log) < MaxEvents
          /\ UNCHANGED <<phase, awaits, buffering, buffer, routed, chat, unknown, heard>>
      BY <1>2, <1>4 DEF Register, Another, Publish, Types, flowVars, chatVars, historyVars
    <2> QED
      BY <1>2, <2>1 DEF Flow
  <1>5. CASE HubCloses
    <2>1. /\ Me \in room /\ Me \notin room' /\ Len(log') = Len(log) + 1
          /\ UNCHANGED <<phase, awaits, buffering, buffer, routed, wsState, chat, unknown, heard>>
      BY <1>2, <1>5 DEF HubCloses, Publish, Types, flowVars, chatVars, historyVars
    <2> QED
      BY <1>2, <2>1 DEF Flow
  <1>6. CASE SocketCloses
    <2>1. /\ wsState \in {"connecting", "open"}
          /\ UNCHANGED <<phase, awaits, buffering, buffer, routed, chat, unknown, heard, log, room>>
      BY <1>6 DEF SocketCloses, flowVars, chatVars, roomVars, historyVars
    <2> QED
      BY <1>2, <2>1 DEF Flow
  <1>7. ASSUME \/ \E i \in 1..Len(log) : WorkerApplies(i) \/ WorkerMisses(i)
               \/ StartWorker \/ AnswerSync \/ Miss
        PROVE  Flow'
    <2>1. UNCHANGED <<phase, awaits, buffering, buffer, routed, wsState, chat, unknown, heard, log,
                      room>>
      BY <1>7 DEF WorkerApplies, WorkerMisses, StartWorker, AnswerSync, Miss, flowVars, chatVars,
                  roomVars, historyVars
    <2> QED
      BY <1>2, <2>1 DEF Flow
  <1>8. CASE Connect
    <2>1. /\ awaits = "ticket" /\ awaits' = "ack" /\ buffering' = (mode = "join")
          /\ UNCHANGED <<phase, buffer, routed, chat, unknown, heard, log, room>>
      BY <1>8 DEF Connect, chatVars, roomVars, historyVars
    <2> QED
      BY <1>2, <2>1 DEF Flow
  <1>9. CASE Acknowledged
    <2>1. /\ awaits = "ack" /\ phase' = "syncing"
          /\ awaits' = (IF mode = "initialize" THEN "init" ELSE "sync")
          /\ UNCHANGED <<buffering, buffer, routed, wsState, chat, unknown, heard, log, room>>
      BY <1>9 DEF Acknowledged, chatVars, roomVars, historyVars
    <2> QED
      BY <1>2, <2>1 DEF Flow
  <1>10. CASE Receive \/ (\E i \in 1..Len(log) : BringAgain(i))
    <2>1. PICK i : Bring(i)
      BY <1>10, BringIs
    <2>2. /\ Listening => heard' = Append(heard, i)
          /\ ~Listening => heard' = heard
          /\ buffering => buffer' = Append(buffer, i)
          /\ UNCHANGED <<phase, awaits, routed, buffering, wsState, log, room>>
      BY <2>1, Brought
    <2>3. /\ chat' = "absent" <=> chat = "absent"
          /\ chat = "absent" => unknown' = unknown
      <3>1. CASE phase # "active" \/ chat = "absent" \/ log[i].type = "change"
        BY <2>1, <3>1, Brought
      <3>2. CASE ~(phase # "active" \/ chat = "absent" \/ log[i].type = "change")
        <4>1. chat' = IF chat = "tracking" /\ log[i].type = "joined" THEN "due" ELSE chat
          BY <2>1, <3>2, Brought
        <4> QED
          BY <3>2, <4>1
      <3> QED
        BY <3>1, <3>2
    <2>4. awaits # "ticket"
      BY <2>1, Brought DEF Flow
    <2>5. mode = "join" /\ awaits # "nothing" => buffer' = heard'
      BY <2>2, <2>4 DEF Flow, Listening
    <2>6. mode = "initialize" /\ awaits \in {"ticket", "ack", "init"} => heard' = <<>>
      BY <2>2 DEF Flow, Listening
    <2> QED
      BY <1>2, <2>2, <2>3, <2>4, <2>5, <2>6 DEF Flow
  <1>11. CASE Initialized
    <2>1. /\ awaits = "init" /\ routed' = TRUE /\ awaits' = "sync"
          /\ UNCHANGED <<phase, buffering, buffer, wsState, chat, unknown, heard, log, room>>
      BY <1>11 DEF Initialized, chatVars, roomVars, historyVars
    <2> QED
      BY <1>2, <2>1 DEF Flow
  <1>12. CASE InitSynced \/ JoinSynced
    <2>1. PICK v : awaits = "sync" /\ Activate(v)
      BY <1>12, Activates
    <2>2. /\ UNCHANGED <<wsState, chat, unknown, log, room>>
          /\ phase' = "active" /\ awaits' = "nothing"
          /\ buffering' = FALSE /\ routed' = TRUE
      BY <2>1 DEF Activate, chatVars, roomVars
    <2> QED
      BY <1>2, <2>1, <2>2 DEF Flow
  <1>13. CASE RequestFails \/ NoticeClosed
    <2>1. /\ phase' = "error" /\ awaits' = "nothing"
          /\ UNCHANGED <<buffering, buffer, routed, wsState, chat, unknown, heard, log, room>>
      BY <1>13 DEF RequestFails, NoticeClosed, Fail, chatVars, roomVars, historyVars
    <2> QED
      BY <1>2, <2>1 DEF Flow
  <1>14. CASE ShowChat
    <2>1. /\ phase = "active" /\ chat' \in {"untracking", "tracking"}
          /\ UNCHANGED <<phase, awaits, buffering, buffer, routed, wsState, heard, log, room>>
      BY <1>14 DEF ShowChat, flowVars, roomVars, historyVars
    <2> QED
      BY <1>2, <2>1 DEF Flow
  <1>15. ASSUME NEW type \in {"change", "chat"}, Send(type) PROVE Flow'
    <2>1. UNCHANGED <<phase, awaits, buffering, buffer, routed, wsState, chat, unknown, heard, room>>
      BY <1>15 DEF Send, flowVars, chatVars
    <2>2. \/ log' = log
          \/ Len(log') = Len(log) + 1 /\ Len(log) < MaxEvents
      BY <1>15 DEF Send, Another, Publish, Types
    <2> QED
      BY <1>2, <2>1, <2>2 DEF Flow
  <1> QED
    BY <1>3, <1>4, <1>5, <1>6, <1>7, <1>8, <1>9, <1>10, <1>11, <1>12, <1>13, <1>14, <1>15 DEF Next

-------------------------------------------------------------------------------
(* What the parts of Data become in a step that leaves them alone. *)

LEMMA AnswerStays ==
    ASSUME Types, Longer, Answer, UNCHANGED <<reply, snap>>
    PROVE  Answer'
  <1> SUFFICES ASSUME NEW s \in reply PROVE Shows(log', s, snap.events)
    BY DEF Answer
  <1>1. Shows(log, s, snap.events) /\ snap.events \in SUBSET Events
    BY DEF Answer, Types
  <1> QED
    BY <1>1, ShowsStay

LEMMA RuntimeStays ==
    ASSUME Types, Longer, Runtime, worker' = worker
    PROVE  Runtime'
  BY LongerGrows DEF Runtime, Types

LEMMA ViewsStay ==
    ASSUME Types, Longer, Views, UNCHANGED <<view, heard, snap, synced>>,
           phase' = "active" => phase = "active",
           mode = "initialize" /\ awaits' = "sync" => awaits = "sync"
    PROVE  Views'
  <1>1. /\ mode' = mode /\ ToSet(heard) \in SUBSET Events /\ Reached \in SUBSET Events
        /\ Reached' = Reached
    BY LongerGrows DEF Types, Reached
  <1>2. mode = "initialize" /\ awaits' = "sync" => Shows(log', view, ToSet(heard))
    BY <1>1, ShowsStay DEF Views
  <1>3. phase' = "active" => /\ Shows(log', view, Reached)
                             /\ snap.usernames \subseteq view.usernames
                             /\ Named(log', view, heard, Overwritten)
    BY <1>1, ShowsStay, NamedStays DEF Views
  <1>4. Overwritten' = Overwritten
    BY <1>1 DEF Overwritten
  <1> QED
    BY <1>1, <1>2, <1>3, <1>4 DEF Views

LEMMA NamingsStay ==
    ASSUME Types, Longer, UNCHANGED <<heard, synced>>
    PROVE  \A who : Naming(who)' = Naming(who)
  <1>1. \A n \in DOMAIN heard : log'[heard[n]] = log[heard[n]]
    <2>1. \A n \in DOMAIN heard : heard[n] \in Events
      BY DEF Types, ToSet
    <2> QED
      BY <2>1, LongerGrows
  <1> QED
    BY <1>1, LongerGrows DEF Naming

LEMMA UnknownStays ==
    ASSUME Types, Longer, UnknownOnlyIfUnheard, UNCHANGED <<chat, unknown, heard, snap, synced>>,
           phase' = "active" => phase = "active"
    PROVE  UnknownOnlyIfUnheard'
  <1>1. \A i \in unknown : log'[i] = log[i]
    BY LongerGrows DEF Types
  <1>2. \A who : Naming(who)' = Naming(who)
    BY NamingsStay
  <1> QED
    BY <1>1, <1>2 DEF UnknownOnlyIfUnheard

LEMMA QuietData ==
    ASSUME Types, Longer, Data,
           UNCHANGED <<view, chat, unknown, worker, reply, heard, snap, synced>>,
           phase' = "active" => phase = "active",
           mode = "initialize" /\ awaits' = "sync" => awaits = "sync"
    PROVE  Data'
  BY AnswerStays, RuntimeStays, ViewsStay, UnknownStays DEF Data

LEMMA WorkerData ==
    ASSUME Types, Flow, Data, Longer,
           \/ \E i \in 1..Len(log) : WorkerApplies(i) \/ WorkerMisses(i)
           \/ StartWorker \/ AnswerSync
    PROVE  Data'
  <1>1. Runtime /\ Answer /\ Views /\ UnknownOnlyIfUnheard /\ worker \in Worker
    BY DEF Data, Types
  <1>2. ASSUME UNCHANGED <<phase, awaits, view, chat, unknown, log, reply, heard, snap, synced>>,
               Runtime'
        PROVE  Data'
    BY <1>1, <1>2, AnswerStays, ViewsStay, UnknownStays DEF Data
  <1>3. ASSUME NEW i \in 1..Len(log), WorkerApplies(i) PROVE Data'
    <2>1. UNCHANGED <<phase, awaits, view, chat, unknown, log, reply, heard, snap, synced>>
      BY <1>3 DEF WorkerApplies, flowVars, chatVars, roomVars, historyVars
    <2>2. /\ worker'.applied = worker.applied \cup {i}
          /\ worker'.chatHistory = IF log[i].type = "chat" THEN Append(worker.chatHistory, i)
                                   ELSE worker.chatHistory
      BY <1>1, <1>3 DEF WorkerApplies, Worker
    <2>3. /\ ToSet(Append(worker.chatHistory, i)) = ToSet(worker.chatHistory) \cup {i}
      <3>1. worker.chatHistory \in Seq(Nat) /\ i \in Nat
        BY <1>1 DEF Worker
      <3> QED
        BY <3>1, Appended
    <2>4. Runtime'
      BY <1>1, <2>1, <2>2, <2>3 DEF Runtime
    <2> QED
      BY <1>2, <2>1, <2>4
  <1>4. ASSUME StartWorker \/ \E i \in 1..Len(log) : WorkerMisses(i)
        PROVE  Data'
    <2>1. UNCHANGED <<phase, awaits, view, chat, unknown, log, reply, heard, snap, synced>>
      BY <1>4 DEF StartWorker, WorkerMisses, flowVars, chatVars, roomVars, historyVars
    <2>2. worker'.applied = worker.applied /\ worker'.chatHistory = worker.chatHistory
      BY <1>1, <1>4 DEF StartWorker, WorkerMisses, Worker
    <2>3. Runtime'
      BY <1>1, <2>1, <2>2 DEF Runtime
    <2> QED
      BY <1>2, <2>1, <2>3
  <1>5. CASE AnswerSync
    <2>1. /\ UNCHANGED <<mode, phase, awaits, view, chat, unknown, log, worker, heard, synced>>
          /\ awaits = "sync" /\ reply' = {Snapshot}
          /\ snap'.events = worker.applied /\ snap'.usernames = worker.participants
      BY <1>5 DEF AnswerSync, flowVars, chatVars, roomVars
    <2>2. phase # "active"
      BY <2>1 DEF Flow
    <2>3. Answer'
      BY <1>1, <2>1 DEF Answer, Shows, Snapshot, OfType, Runtime
    <2>4. Views'
      BY <1>1, <2>1, <2>2 DEF Views
    <2>5. UnknownOnlyIfUnheard'
      BY <2>1, <2>2 DEF UnknownOnlyIfUnheard
    <2> QED
      BY <1>1, <2>1, <2>3, <2>4, <2>5, RuntimeStays DEF Data
  <1> QED
    BY <1>3, <1>4, <1>5

(* Who is shown as unknown after an event has been brought had no name     *)
(* before it, and the event gives none.                                    *)
LEMMA BringUnknown ==
    ASSUME Types, Flow, Data, NEW i \in Events, Bring(i)
    PROVE  UnknownOnlyIfUnheard'
  <1> SUFFICES ASSUME phase' = "active", chat' # "due", NEW j \in unknown'
               PROVE  /\ log'[j].who \notin snap'.usernames
                      /\ \A n \in Naming(log[j].who)' :
                            chat' = "untracking" /\ \A m \in n..Len(heard') : heard'[m] # j
    BY Brought DEF UnknownOnlyIfUnheard
  <1>1. /\ log' = log /\ snap' = snap /\ mode' = mode /\ synced' = synced /\ phase = "active"
        /\ log \in Seq(Event) /\ i \in Nat
    BY Brought, EventsAre DEF Types
  <1>2. /\ heard \in Seq(Nat) /\ Len(heard) \in Nat /\ DOMAIN heard = 1..Len(heard)
        /\ Len(heard') = Len(heard) + 1 /\ DOMAIN heard' = 1..Len(heard) + 1
        /\ \A a \in 1..Len(heard) : heard'[a] = heard[a]
        /\ heard'[Len(heard) + 1] = i
    <2>1. heard \in Seq(Nat) /\ heard' = Append(heard, i)
      BY <1>1, Brought DEF Types, Listening
    <2> QED
      BY <1>1, <2>1
  <1>3. /\ Seen(view) /\ view' = Take(view, i)
        /\ snap.usernames \subseteq view.usernames
        /\ Named(log, view, heard, Overwritten)
    BY <1>1, Brought DEF Types, Flow, Data, Views
  <1>4. view.usernames \subseteq view'.usernames
    BY <1>1, <1>3, TakeSets DEF Seen
  <1>5. ASSUME NEW who, NEW n \in Naming(who)'
        PROVE  \/ n \in Naming(who)
               \/ n = Len(heard) + 1 /\ log[i].type = "joined" /\ log[i].who = who
    <2>1. /\ n \in 1..Len(heard) + 1
          /\ mode = "initialize" => n > synced
          /\ log[heard'[n]] = [type |-> "joined", who |-> who]
      BY <1>1, <1>2 DEF Naming
    <2>2. CASE n = Len(heard) + 1
      BY <1>2, <2>1, <2>2
    <2>3. CASE n \in 1..Len(heard)
      BY <1>2, <2>1, <2>3 DEF Naming
    <2> QED
      BY <1>2, <2>1, <2>2, <2>3
  <1>6. ASSUME j \in unknown, j # i, log[i].type = "joined" => chat' = "untracking"
        PROVE  /\ log[j].who \notin snap.usernames
               /\ \A n \in Naming(log[j].who)' :
                     chat' = "untracking" /\ \A m \in n..Len(heard') : heard'[m] # j
    <2>1. chat # "due"
      BY Brought
    <2>2. /\ log[j].who \notin snap.usernames
          /\ \A n \in Naming(log[j].who) :
                chat = "untracking" /\ \A m \in n..Len(heard) : heard[m] # j
      BY <1>1, <1>6, <2>1 DEF Data, UnknownOnlyIfUnheard
    <2>3. chat = "untracking" => chat' = "untracking"
      BY Brought
    <2> SUFFICES ASSUME NEW n \in Naming(log[j].who)'
                 PROVE  chat' = "untracking" /\ \A m \in n..Len(heard') : heard'[m] # j
      BY <2>2
    <2>4. CASE n \in Naming(log[j].who)
      <3>1. n \in 1..Len(heard)
        BY <1>2, <2>4 DEF Naming
      <3>2. \A m \in n..Len(heard') : m = Len(heard) + 1 \/ m \in n..Len(heard)
        BY <1>2, <3>1
      <3>3. \A m \in n..Len(heard) : heard'[m] = heard[m] /\ heard[m] # j
        BY <1>2, <2>2, <2>4, <3>1
      <3>4. \A m \in n..Len(heard') : heard'[m] # j
        BY <1>2, <1>6, <3>2, <3>3
      <3> QED
        BY <2>2, <2>3, <2>4, <3>4
    <2>5. CASE n \notin Naming(log[j].who)
      <3>1. n = Len(heard) + 1 /\ log[i].type = "joined"
        BY <1>1, <1>5, <2>5
      <3>2. \A m \in n..Len(heard') : m = Len(heard) + 1
        BY <1>2, <3>1
      <3> QED
        BY <1>2, <1>6, <3>1, <3>2
    <2> QED
      BY <2>4, <2>5
  <1>7. CASE chat = "absent" \/ log[i].type = "change"
    <2>1. chat' = chat /\ unknown' = unknown
      BY <1>7, Brought
    <2>2. j \in unknown /\ log[j].type = "chat" /\ chat # "absent"
      BY <2>1 DEF Types, Flow
    <2>3. j # i /\ log[i].type # "joined"
      BY <1>7, <2>2
    <2> QED
      BY <1>1, <1>6, <2>2, <2>3
  <1>8. CASE ~(chat = "absent" \/ log[i].type = "change")
    <2>1. /\ unknown' = (unknown \ {i}) \cup Unresolved(view', {i})
          /\ chat' = IF chat = "tracking" /\ log[i].type = "joined" THEN "due" ELSE chat
      BY <1>1, <1>8, Brought
    <2>2. log[i].type = "joined" => chat' = "untracking"
      BY <1>8, <2>1 DEF Types
    <2>3. CASE j \in unknown /\ j # i
      BY <1>1, <1>6, <2>2, <2>3
    <2>4. CASE ~(j \in unknown /\ j # i)
      <3>1. j = i /\ log[i].type = "chat" /\ log[i].who \notin view'.usernames
        BY <2>1, <2>4 DEF Unresolved
      <3>2. Naming(log[i].who) = {}
        <4> SUFFICES ASSUME NEW n \in Naming(log[i].who) PROVE FALSE
          OBVIOUS
        <4>1. /\ n \in DOMAIN heard /\ log[heard[n]].type = "joined"
              /\ log[heard[n]].who = log[i].who
              /\ mode = "initialize" => n > synced
          BY DEF Naming
        <4>2. n > Overwritten
          BY <1>2, <4>1 DEF Overwritten
        <4>3. log[i].who \in view.usernames
          BY <1>3, <4>1, <4>2 DEF Named
        <4> QED
          BY <1>4, <3>1, <4>3
      <3>3. log[i].who \notin snap.usernames
        BY <1>3, <1>4, <3>1
      <3>4. \A n \in Naming(log[j].who)' : FALSE
        <4>1. \A n \in Naming(log[j].who)' :
                 n \in Naming(log[j].who) \/ log[i].type = "joined"
          BY <1>1, <1>5
        <4> QED
          BY <3>1, <3>2, <4>1
      <3> QED
        BY <1>1, <3>1, <3>3, <3>4
    <2> QED
      BY <2>3, <2>4
  <1> QED
    BY <1>7, <1>8

LEMMA BringData ==
    ASSUME Types, Flow, Data, NEW i \in Events, Bring(i)
    PROVE  Data'
  <1>1. Runtime /\ Answer /\ Views /\ Longer
    BY Brought, Unpublished DEF Data, Types
  <1>2. Runtime' /\ Answer'
    BY <1>1, Brought, RuntimeStays, AnswerStays
  <1>3. Views'
    <2>1. CASE routed /\ Listening
      <3>1. /\ view' = Take(view, i) /\ heard' = Append(heard, i) /\ log' = log
            /\ UNCHANGED <<mode, phase, awaits, snap, synced>>
        BY <2>1, Brought
      <3>2. i \in Nat /\ heard \in Seq(Nat) /\ log \in Seq(Event) /\ Seen(view)
        BY EventsAre DEF Types
      <3>3. ToSet(heard') = ToSet(heard) \cup {i}
        BY <3>1, <3>2, Appended
      <3>4. Reached' = Reached \cup {i}
        BY <3>1, <3>3 DEF Reached
      <3>5. mode = "initialize" /\ awaits = "sync" => Shows(log, view', ToSet(heard'))
        BY <1>1, <3>1, <3>2, <3>3, TakeShows DEF Views
      <3>6. phase = "active" => Shows(log, view', Reached')
        BY <1>1, <3>1, <3>2, <3>4, TakeShows DEF Views
      <3>7. view.usernames \subseteq view'.usernames
        BY <3>1, <3>2, TakeSets DEF Seen
      <3>8. phase = "active" => Named(log, view', heard', Overwritten)
        BY <1>1, <3>1, <3>2, TakeNames DEF Views
      <3>9. Overwritten' = Overwritten
        BY <3>1 DEF Overwritten
      <3> QED
        BY <1>1, <3>1, <3>5, <3>6, <3>7, <3>8, <3>9 DEF Views
    <2>2. CASE ~(routed /\ Listening)
      <3>1. phase # "active" /\ ~(mode = "initialize" /\ awaits = "sync")
        BY <2>2 DEF Flow, Listening
      <3> QED
        BY <3>1, Brought DEF Views
    <2> QED
      BY <2>1, <2>2
  <1> QED
    BY <1>2, <1>3, BringUnknown DEF Data

LEMMA ActivateData ==
    ASSUME Types, Flow, Data, Longer, InitSynced \/ JoinSynced
    PROVE  Data'
  <1>1. Runtime /\ Answer /\ Views
    BY DEF Data
  <1>2. PICK v : /\ awaits = "sync" /\ Activate(v)
                 /\ Shows(log, v, Reached) /\ snap.usernames \subseteq v.usernames
                 /\ mode = "join" => Named(log, v, heard, 0)
    BY <1>1, Activates
  <1>3. /\ view' = v /\ synced' = Len(heard) /\ awaits' = "nothing" /\ reply' = {}
        /\ UNCHANGED <<mode, chat, unknown, log, worker, heard, snap>>
    BY <1>2 DEF Activate, chatVars, roomVars
  <1>4. Runtime' /\ Answer'
    BY <1>1, <1>3, RuntimeStays DEF Answer
  <1>5. Named(log, v, heard, Overwritten')
    <2>1. CASE mode = "join"
      BY <1>2, <1>3, <2>1 DEF Overwritten
    <2>2. CASE mode = "initialize"
      <3>1. Overwritten' = Len(heard) /\ Len(heard) \in Nat /\ DOMAIN heard = 1..Len(heard)
        BY <1>3, <2>2 DEF Overwritten, Types
      <3>2. \A n \in DOMAIN heard : ~(n > Len(heard))
        BY <3>1
      <3> QED
        BY <3>1, <3>2 DEF Named
    <2> QED
      BY <2>1, <2>2 DEF Types
  <1>6. Views'
    <2>1. Reached' = Reached
      BY <1>3 DEF Reached
    <2> QED
      BY <1>2, <1>3, <1>5, <2>1 DEF Views
  <1>7. unknown' = {}
    BY <1>2, <1>3 DEF Flow
  <1> QED
    BY <1>4, <1>6, <1>7 DEF Data, UnknownOnlyIfUnheard

(* The effect shows every line with the names there are. *)
LEMMA ShowChatData ==
    ASSUME Types, Data, Longer, ShowChat
    PROVE  Data'
  <1>1. /\ UNCHANGED <<mode, phase, awaits, view, log, worker, reply, heard, snap, synced>>
        /\ unknown' = Unresolved(view, ToSet(view.chatMessages)) /\ phase = "active"
    BY DEF ShowChat, flowVars, roomVars, historyVars
  <1>2. Runtime' /\ Answer' /\ Views'
    BY <1>1, RuntimeStays, AnswerStays, ViewsStay DEF Data
  <1>3. ASSUME NEW j \in unknown'
        PROVE  log[j].who \notin snap.usernames /\ Naming(log[j].who) = {}
    <2>1. log[j].who \notin view.usernames
      BY <1>1 DEF Unresolved
    <2>2. snap.usernames \subseteq view.usernames /\ Named(log, view, heard, Overwritten)
      BY <1>1 DEF Data, Views
    <2>3. Naming(log[j].who) = {}
      <3> SUFFICES ASSUME NEW n \in Naming(log[j].who) PROVE FALSE
        OBVIOUS
      <3>1. /\ n \in DOMAIN heard /\ log[heard[n]].type = "joined"
            /\ log[heard[n]].who = log[j].who
            /\ mode = "initialize" => n > synced
        BY DEF Naming
      <3>2. n > Overwritten
        BY <3>1 DEF Overwritten, Types
      <3> QED
        BY <2>1, <2>2, <3>1, <3>2 DEF Named
    <2> QED
      BY <2>1, <2>2, <2>3
  <1>4. \A who : Naming(who)' = Naming(who)
    BY <1>1, NamingsStay
  <1>5. UnknownOnlyIfUnheard'
    BY <1>1, <1>3, <1>4 DEF UnknownOnlyIfUnheard
  <1> QED
    BY <1>2, <1>5 DEF Data

LEMMA SendData ==
    ASSUME Types, Data, Longer, NEW type \in {"change", "chat"}, Send(type)
    PROVE  Data'
  <1>1. UNCHANGED <<mode, phase, awaits, chat, unknown, worker, reply, heard, snap, synced>>
    BY DEF Send, flowVars, chatVars
  <1>2. /\ view'.usernames = view.usernames /\ view'.chatMessages = view.chatMessages
        /\ view.remoteUpdates \subseteq view'.remoteUpdates
    BY DEF Send, Types, Seen, Pane
  <1>3. \A l, S : Shows(l, view, S) => Shows(l, view', S)
    BY <1>2 DEF Shows
  <1>4. \A l, q, k : Named(l, view, q, k) => Named(l, view', q, k)
    BY <1>2 DEF Named
  <1>5. Views'
    <2>1. /\ ToSet(heard) \in SUBSET Events /\ Reached \in SUBSET Events /\ Reached' = Reached
          /\ Overwritten' = Overwritten
      BY <1>1 DEF Types, Reached, Overwritten
    <2>2. mode = "initialize" /\ awaits = "sync" => Shows(log', view', ToSet(heard))
      BY <1>3, <2>1, ShowsStay DEF Data, Views
    <2>3. phase = "active" => /\ Shows(log', view', Reached)
                              /\ snap.usernames \subseteq view'.usernames
                              /\ Named(log', view', heard, Overwritten)
      BY <1>2, <1>3, <1>4, <2>1, ShowsStay, NamedStays DEF Data, Views
    <2> QED
      BY <1>1, <2>1, <2>2, <2>3 DEF Views
  <1> QED
    BY <1>1, <1>5, AnswerStays, RuntimeStays, UnknownStays DEF Data

LEMMA DataStep ==
    ASSUME Types, Flow, Data, Next
    PROVE  Data'
  <1>1. Longer
    BY StepsGrow
  <1>2. ASSUME \/ \E o \in Others, type \in {"joined", "left", "change", "chat"} :
                     OtherActs(o, type)
               \/ Register \/ HubCloses \/ SocketCloses \/ Connect \/ Acknowledged \/ Miss
               \/ RequestFails \/ NoticeClosed
        PROVE  Data'
    <2>1. /\ UNCHANGED <<view, chat, unknown, worker, reply, heard, snap, synced>>
          /\ phase' = "active" => phase = "active"
          /\ mode = "initialize" /\ awaits' = "sync" => awaits = "sync"
      BY <1>2 DEF OtherActs, Register, HubCloses, SocketCloses, Connect, Acknowledged, Miss,
                  RequestFails, NoticeClosed, Fail, flowVars, chatVars, historyVars
    <2> QED
      BY <1>1, <2>1, QuietData
  <1>3. CASE Initialized
    <2>1. /\ awaits = "init"
          /\ UNCHANGED <<mode, phase, view, chat, unknown, log, worker, reply, heard, snap, synced>>
      BY <1>3 DEF Initialized, chatVars, roomVars, historyVars
    <2>2. heard = <<>> /\ phase # "active"
      BY <2>1 DEF Flow
    <2>3. Shows(log, view, ToSet(heard))
      BY <2>2, EmptySequence DEF Shows
    <2>4. Views'
      BY <2>1, <2>2, <2>3 DEF Views
    <2> QED
      BY <1>1, <2>1, <2>4, AnswerStays, RuntimeStays, UnknownStays DEF Data
  <1>4. CASE Receive \/ (\E i \in 1..Len(log) : BringAgain(i))
    BY <1>4, BringIs, BringData
  <1> QED
    BY <1>1, <1>2, <1>3, <1>4, WorkerData, ActivateData, ShowChatData, SendData DEF Next

-------------------------------------------------------------------------------
LEMMA Initially == Init => IInv
  <1> SUFFICES ASSUME Init PROVE IInv
    OBVIOUS
  <1>1. /\ mode \in {"initialize", "join"} /\ phase = "connecting" /\ awaits = "ticket"
        /\ wsState = "requesting-ticket" /\ buffering = FALSE /\ buffer = <<>> /\ routed = FALSE
        /\ chat = "absent" /\ unknown = {} /\ log = <<>> /\ since = 0 /\ pos = 0
        /\ reply = {} /\ heard = <<>> /\ snap.events = {} /\ synced = 0
        /\ room = IF mode = "join" THEN Present ELSE {}
    BY DEF Init
  <1>2. Len(log) = 0 /\ log \in Seq(Event) /\ Events = {}
    BY <1>1 DEF Events
  <1>3. room \subseteq Names /\ Me \notin room
    BY <1>1, WorkspaceAssumption DEF Names
  <1>4. PICK q \in Seq(Nat) : q = <<>> /\ ToSet(q) = {}
    BY EmptySequence
  <1>5. worker \in Worker /\ worker.applied = {} /\ worker.missed = {} /\ worker.chatHistory = q
    <2>1. PICK b \in BOOLEAN : b = (mode = "join")
      OBVIOUS
    <2>2. PICK n \in Int : n = Cardinality(room)
      <3>1. IsFiniteSet(room)
        BY <1>1, WorkspaceAssumption, FS_EmptySet, FS_Subset
      <3> QED
        BY <3>1, FS_CardinalityType
    <2>3. worker = [running |-> b, applied |-> {}, missed |-> {}, chatHistory |-> q,
                    userCount |-> n, participants |-> room]
      BY <1>4, <2>1, <2>2 DEF Init
    <2> QED
      BY <1>3, <2>3 DEF Worker
  <1>6. Seen(view)
    <2>1. view = [userCount |-> 1, usernames |-> {}, remoteUpdates |-> {}, chatMessages |-> q]
      BY <1>4 DEF Init
    <2>2. view \in Pane /\ view.remoteUpdates = {} /\ view.chatMessages = q
      BY <2>1 DEF Pane
    <2> QED
      BY <1>4, <2>2 DEF Seen
  <1>7. Types
    <2>1. buffer \in Seq(Nat) /\ heard \in Seq(Nat) /\ ToSet(buffer) = {} /\ ToSet(heard) = {}
      BY <1>1, <1>4
    <2>2. since \in Nat /\ pos \in Nat /\ pos <= Len(log) /\ synced \in Nat
      BY <1>1, <1>2
    <2> QED
      BY <1>1, <1>2, <1>3, <1>4, <1>5, <1>6, <2>1, <2>2 DEF Types
  <1>8. Flow
    BY <1>1, <1>2, <1>3, WorkspaceAssumption DEF Flow
  <1>9. Data
    BY <1>1, <1>5 DEF Data, Runtime, Answer, Views, UnknownOnlyIfUnheard
  <1> QED
    BY <1>7, <1>8, <1>9 DEF IInv

LEMMA Unmoved ==
    ASSUME IInv, UNCHANGED vars
    PROVE  IInv'
  <1>1. UNCHANGED <<mode, phase, awaits, buffering, buffer, routed, wsState, view, chat, unknown,
                    log, room, since, pos, worker, reply, heard, snap, synced>>
    BY DEF vars, flowVars, chatVars, roomVars, historyVars
  <1>2. Types /\ Flow /\ Data
    BY DEF IInv
  <1>3. Types'
    BY <1>1, <1>2 DEF Types, Events, Seen
  <1>4. Flow'
    BY <1>1, <1>2 DEF Flow
  <1>5. Data'
    <2>1. Longer
      BY <1>1, <1>2, Unpublished DEF Types
    <2> QED
      BY <1>1, <1>2, <2>1, QuietData
  <1> QED
    BY <1>3, <1>4, <1>5 DEF IInv

(* Every group of the inductive invariant holds in every state.  Code: the *)
(* flows of collab-workspace.component.ts and applyEnvelope.               *)
THEOREM InductiveInvariant == Spec => []IInv
<1>1. Init => IInv
  BY Initially
<1>2. IInv /\ [Next]_vars => IInv'
  <2> SUFFICES ASSUME IInv, [Next]_vars PROVE IInv'
    OBVIOUS
  <2>1. CASE UNCHANGED vars
    BY <2>1, Unmoved
  <2>2. CASE Next
    <3>1. Types /\ Flow /\ Data
      BY DEF IInv
    <3>2. Types' /\ Flow'
      BY <2>2, <3>1, TypesStep, FlowStep DEF Data
    <3>3. Data'
      BY <2>2, <3>1, DataStep
    <3> QED
      BY <3>2, <3>3 DEF IInv
  <2> QED
    BY <2>1, <2>2
<1> QED
  BY <1>1, <1>2, PTL DEF Spec

-------------------------------------------------------------------------------
(* A workspace is well formed: its subscriptions fit its phase, and all it *)
(* shows are events of the room.  Code: the signals and subscriptions of   *)
(* CollabWorkspaceComponent.                                               *)
THEOREM TypeCorrect == Spec => []TypeOK
<1>1. IInv => TypeOK
  <2> SUFFICES ASSUME IInv PROVE TypeOK
    OBVIOUS
  <2>1. Types /\ Flow
    BY DEF IInv
  <2>2. /\ MaxEvents \in Nat /\ Len(log) \in Nat /\ Len(log) <= MaxEvents + 1
        /\ Events = 1..Len(log)
    BY <2>1, WorkspaceAssumption DEF Types, Flow, Events
  <2>3. Events \subseteq 1..MaxEvents + 1
    BY <2>2
  <2>4. view \in View
    <3>1. PICK q : q = view.chatMessages
      OBVIOUS
    <3>2. q \in Seq(Nat) /\ ToSet(q) \subseteq 1..MaxEvents + 1
      BY <2>1, <2>3, <3>1 DEF Types, Seen, Pane
    <3>3. q \in Seq(1..MaxEvents + 1)
      <4>1. PICK D : D = 1..MaxEvents + 1
        OBVIOUS
      <4>2. \A a \in 1..Len(q) : q[a] \in D
        BY <3>2, <4>1 DEF ToSet
      <4>3. q \in Seq(D)
        BY <3>2, <4>2
      <4> QED
        BY <4>1, <4>3
    <3>4. PICK c : c = view.remoteUpdates
      OBVIOUS
    <3>5. c \in SUBSET (1..MaxEvents + 1)
      BY <2>1, <2>3, <3>4 DEF Types, Seen
    <3>6. PICK n : n = view.userCount
      OBVIOUS
    <3>7. PICK names : names = view.usernames
      OBVIOUS
    <3>8. /\ view = [userCount |-> n, usernames |-> names, remoteUpdates |-> c, chatMessages |-> q]
          /\ n \in Int /\ names \subseteq Names
      BY <2>1, <3>1, <3>4, <3>6, <3>7 DEF Types, Seen, Pane
    <3> QED
      BY <3>3, <3>5, <3>8 DEF View
  <2>5. pos \in 0..Len(log)
    BY <2>1, <2>2 DEF Types
  <2>6. unknown \subseteq 1..Len(log) /\ worker.applied \cup worker.missed \subseteq 1..Len(log)
    BY <2>1 DEF Types, Events
  <2>7. phase = "active" => awaits = "nothing" /\ routed
    BY <2>1 DEF Types, Flow
  <2> QED
    BY <2>1, <2>2, <2>4, <2>5, <2>6, <2>7 DEF Types, Flow, TypeOK
<1> QED
  BY <1>1, InductiveInvariant, PTL

(* Nothing is lost between the snapshot and the live feed, whatever the    *)
(* feed repeats, reorders or skips: an active workspace shows every change *)
(* and every line that the answer had or that the socket has brought since *)
(* it was listened to.  Code: the buffer of runJoinFlow, the order of the  *)
(* steps of both flows.                                                    *)
THEOREM NoGap == Spec => []NothingLost
<1>1. IInv => NothingLost
  <2> SUFFICES ASSUME IInv, phase = "active"
               PROVE  /\ OfType({"change"}, Reached) \subseteq view.remoteUpdates
                      /\ OfType({"chat"}, Reached) \subseteq ToSet(view.chatMessages)
    BY DEF NothingLost
  <2>1. Shows(log, view, Reached)
    BY DEF IInv, Data, Views
  <2> QED
    BY <2>1 DEF Shows, OfType
<1> QED
  BY <1>1, InductiveInvariant, PTL

(* A line is shown with an unknown sender only if its name was not in the  *)
(* answer and has not been heard since, but for a chat that was empty when *)
(* it was mounted.  Code: usernames of both flows, the effect of           *)
(* collab-chat.component.ts and its resolveUsername.                       *)
THEOREM UnknownIsUnheard == Spec => []UnknownOnlyIfUnheard
<1>1. IInv => UnknownOnlyIfUnheard
  BY DEF IInv, Data
<1> QED
  BY <1>1, InductiveInvariant, PTL

================================================================================
