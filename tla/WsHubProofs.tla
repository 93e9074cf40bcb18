------------------------------ MODULE WsHubProofs ------------------------------
(***************************************************************************)
(* Theorems about WsHub, for every set of clients and nodes and every      *)
(* bound.  The inductive invariant is IInv.                                *)
(***************************************************************************)
EXTENDS WsHub, FiniteSetTheorems, TLAPS

Waiting == {c \in Clients : at[c] = "out"}

(* Every client that is still to come may make one more subscription. *)
SubsSuffice == made + Cardinality(Waiting) <= Cardinality(Clients)

(* Rooms, and clients on their way out, name subscriptions that were made; *)
(* a client closes one of its own node.                                    *)
SubsAreMade ==
    /\ \A s \in Subs : sub[s].open => s <= made
    /\ \A n \in Nodes : room[n].sub <= made
    /\ \A c \in Clients :
          closing[c] # None =>
              /\ closing[c] <= made
              /\ at[c] \in {"leaving", "departing", "closing"}
              /\ sub[closing[c]].node = Home[c]

IInv == TypeOK /\ SubsSuffice /\ SubsAreMade /\ SubscriptionsMatchRooms

LEMMA Sizes ==
    /\ Cardinality(Clients) \in Nat
    /\ Subs = 1..Cardinality(Clients)
    /\ None \notin Subs
  BY HubAssumption, FS_CardinalityType DEF Subs, None

LEMMA WaitingFinite ==
    /\ IsFiniteSet(Waiting)
    /\ Cardinality(Waiting) \in Nat
    /\ Cardinality(Waiting) <= Cardinality(Clients)
  BY HubAssumption, FS_Subset, FS_CardinalityType DEF Waiting

(* Whose turn it is to come only shrinks. *)
LEMMA WaitingStays ==
    ASSUME SubsSuffice, TypeOK, Waiting' \subseteq Waiting, made' = made
    PROVE  SubsSuffice'
  <1>1. IsFiniteSet(Waiting') /\ Cardinality(Waiting') <= Cardinality(Waiting)
    BY WaitingFinite, FS_Subset
  <1>2. Cardinality(Waiting') \in Nat
    BY <1>1, FS_CardinalityType
  <1> QED
    BY <1>1, <1>2, WaitingFinite, Sizes DEF SubsSuffice, TypeOK

LEMMA InitInvariant == Init => IInv
  <1> SUFFICES ASSUME Init PROVE IInv
    OBVIOUS
  <1> USE DEF Init
  <1>1. NoSub \in [node : Nodes, open : BOOLEAN, queue : Seq(Message)] \/ Nodes = {}
    BY DEF NoSub
  <1>2. Nodes = {} => Subs = {}
    <2> SUFFICES ASSUME Nodes = {} PROVE Clients = {}
      BY FS_EmptySet, Sizes
    <2> QED
      BY HubAssumption
  <1>3. sub \in [Subs -> [node : Nodes, open : BOOLEAN, queue : Seq(Message)]]
    BY <1>1, <1>2
  <1>4. room \in [Nodes -> [members : SUBSET Clients, sub : Subs \cup {None}]]
    BY DEF NoRoom
  <1>5. TypeOK
    BY <1>3, <1>4, HubAssumption, Sizes DEF TypeOK, InRoom, Positions
  <1>6. SubsSuffice
    BY WaitingFinite, Sizes DEF SubsSuffice
  <1>7. SubsAreMade
    BY Sizes DEF SubsAreMade, NoSub, NoRoom, None
  <1>8. SubscriptionsMatchRooms
    BY HubAssumption DEF SubscriptionsMatchRooms, RoomHoldsClient, RoomHasItsSub, SubIsNeeded,
       NoSub, NoRoom, None, InRoom
  <1> QED
    BY <1>5, <1>6, <1>7, <1>8 DEF IInv

-------------------------------------------------------------------------------
(* Types. *)

Subscription == [node : Nodes, open : BOOLEAN, queue : Seq(Message)]

LEMMA MessageTypes ==
    ASSUME TypeOK, NEW c \in Clients
    PROVE  Joined(c) \in Message /\ Sent(c) \in Message /\ Left(c) \in Message
  BY HubAssumption DEF TypeOK, Joined, Sent, Left, Message

LEMMA BroadcastTypes ==
    ASSUME TypeOK, NEW n \in Nodes, BroadcastLocal(n)
    PROVE  queued' \in [Clients -> 0..SendBuffer] /\ closed' \subseteq Clients
  BY HubAssumption DEF TypeOK, BroadcastLocal, Reached

(* Nothing but the queue changes. *)
SameButQueues ==
    /\ sub' \in [Subs -> Subscription]
    /\ \A s \in Subs : sub'[s].open = sub[s].open /\ sub'[s].node = sub[s].node

LEMMA DeliverTypes ==
    ASSUME TypeOK, NEW m \in Message, Deliver(m)
    PROVE  SameButQueues /\ owed' \in [Clients -> SUBSET Message]
  <1>1. ASSUME NEW s \in Subs
        PROVE  /\ sub'[s] \in Subscription
               /\ sub'[s].open = sub[s].open /\ sub'[s].node = sub[s].node
    <2>1. sub[s] \in Subscription
      BY DEF TypeOK, Subscription
    <2>2. Append(sub[s].queue, m) \in Seq(Message)
      BY <2>1 DEF Subscription
    <2>3. sub'[s] = IF sub[s].open
                    THEN [sub[s] EXCEPT !.queue = Append(sub[s].queue, m)] ELSE sub[s]
      BY DEF Deliver
    <2> QED
      BY <2>1, <2>2, <2>3 DEF Subscription
  <1>2. sub' \in [Subs -> Subscription]
    BY <1>1 DEF Deliver
  <1>3. owed' \in [Clients -> SUBSET Message]
    BY DEF Deliver, TypeOK
  <1> QED
    BY <1>1, <1>2, <1>3 DEF SameButQueues

LEMMA PublishTypes ==
    ASSUME TypeOK, NEW m \in Message, Publish(m) \/ PublishFails(m)
    PROVE  /\ SameButQueues
           /\ owed' \in [Clients -> SUBSET Message]
           /\ failures' \in 0..MaxFailures
  <1>1. failures' \in 0..MaxFailures
    BY HubAssumption DEF Publish, PublishFails, TypeOK
  <1>2. CASE Deliver(m)
    BY <1>1, <1>2, DeliverTypes
  <1>3. CASE UNCHANGED <<sub, owed>>
    BY <1>1, <1>3 DEF TypeOK, SameButQueues, Subscription
  <1> QED
    BY <1>2, <1>3 DEF Publish, PublishFails

LEMMA ConsumeTypes ==
    ASSUME TypeOK, NEW s \in Subs, ConsumeRoom(s)
    PROVE  /\ SameButQueues
           /\ queued' \in [Clients -> 0..SendBuffer] /\ closed' \subseteq Clients
           /\ inbox' \in [Clients -> SUBSET (Message \X Subs)]
           /\ owed' \in [Clients -> SUBSET Message]
  <1> DEFINE m == Head(sub[s].queue)
  <1>1. sub \in [Subs -> Subscription] /\ sub[s] \in Subscription
    BY DEF TypeOK, Subscription
  <1>2. sub[s].queue \in Seq(Message) /\ sub[s].queue # <<>>
    BY <1>1 DEF Subscription, ConsumeRoom
  <1>3. m \in Message /\ Tail(sub[s].queue) \in Seq(Message)
    BY <1>2
  <1>4. sub' = [sub EXCEPT ![s].queue = Tail(@)]
    BY DEF ConsumeRoom
  <1>5. SameButQueues
    BY <1>1, <1>3, <1>4 DEF SameButQueues, Subscription
  <1>6. Consume(s, m)
    BY DEF ConsumeRoom
  <1> HIDE DEF m
  <1>7. CASE Home[m.from] = sub[s].node
    <2>1. UNCHANGED <<queued, closed, historyVars>>
      BY <1>6, <1>7 DEF Consume
    <2> QED
      BY <1>5, <2>1 DEF TypeOK, historyVars
  <1>8. CASE Home[m.from] # sub[s].node
    <2>1. BroadcastLocal(sub[s].node) /\ sub[s].node \in Nodes
      BY <1>1, <1>6, <1>8 DEF Consume, Subscription
    <2>2. /\ inbox' = [d \in Clients |-> IF d \in Reached(sub[s].node)
                                         THEN inbox[d] \cup {<<m, s>>} ELSE inbox[d]]
          /\ owed' = [d \in Clients |-> IF d \in Reached(sub[s].node)
                                        THEN owed[d] \ {m} ELSE owed[d]]
      BY <1>6, <1>8 DEF Consume
    <2>3. /\ inbox \in [Clients -> SUBSET (Message \X Subs)]
          /\ owed \in [Clients -> SUBSET Message]
      BY DEF TypeOK
    <2>4. <<m, s>> \in Message \X Subs
      BY <1>3
    <2>5. /\ inbox' \in [Clients -> SUBSET (Message \X Subs)]
          /\ owed' \in [Clients -> SUBSET Message]
      BY <2>2, <2>3, <2>4
    <2> QED
      BY <1>5, <2>1, <2>5, BroadcastTypes
  <1> QED
    BY <1>7, <1>8

-------------------------------------------------------------------------------
(* Steps that make, delete and close nothing. *)

Quiet ==
    /\ UNCHANGED <<room, made, closing>>
    /\ SameButQueues
    /\ \A c \in Clients :
          \/ at'[c] = at[c]
          \/ at[c] \in InRoom /\ at'[c] \in InRoom
          \/ at[c] = "out" /\ at'[c] = "gone"
          \/ at[c] = "leaving" /\ at'[c] = "departing"
          \/ at[c] = "departing" /\ at'[c] = "closing"

LEMMA QuietInvariant == IInv /\ Quiet /\ TypeOK' => IInv'
  <1> SUFFICES ASSUME IInv, Quiet, TypeOK' PROVE IInv'
    OBVIOUS
  <1> USE DEF IInv, Quiet
  <1>1. SubsSuffice'
    <2>1. Waiting' \subseteq Waiting
      BY DEF Waiting, InRoom
    <2> QED
      BY <2>1, WaitingStays
  <1>2. SubsAreMade'
    <2>1. \A s \in Subs : sub'[s].open => s <= made'
      BY DEF SubsAreMade, SameButQueues
    <2>2. \A n \in Nodes : room'[n].sub <= made'
      BY DEF SubsAreMade
    <2>3. ASSUME NEW c \in Clients, closing'[c] # None
          PROVE  /\ closing'[c] <= made'
                 /\ at'[c] \in {"leaving", "departing", "closing"}
                 /\ sub'[closing'[c]].node = Home[c]
      <3>1. closing[c] \in Subs /\ closing'[c] = closing[c]
        BY <2>3 DEF TypeOK
      <3> QED
        BY <2>3, <3>1 DEF SubsAreMade, SameButQueues, InRoom
    <2> QED
      BY <2>1, <2>2, <2>3 DEF SubsAreMade
  <1>3. SubscriptionsMatchRooms'
    <2>1. ASSUME NEW c \in Clients
          PROVE  at'[c] \in InRoom <=> at[c] \in InRoom
      BY DEF InRoom
    <2>2. ASSUME NEW n \in Nodes, room[n].members # {}
          PROVE  room[n].sub \in Subs
      BY <2>2 DEF TypeOK, SubscriptionsMatchRooms, RoomHasItsSub
    <2> QED
      BY <2>1, <2>2 DEF SubscriptionsMatchRooms, RoomHoldsClient, RoomHasItsSub, SubIsNeeded,
         SameButQueues
  <1> QED
    BY <1>1, <1>2, <1>3

(* Where a client is stays a position. *)
LEMMA GotoTypes ==
    ASSUME TypeOK, NEW c \in Clients, NEW p \in Positions, NEW q \in Positions,
           Goto(c, p, q)
    PROVE  /\ at' \in [Clients -> Positions]
           /\ at[c] = p /\ at'[c] = q
           /\ \A d \in Clients : d # c => at'[d] = at[d]
  BY DEF TypeOK, Goto

LEMMA SubUnchanged ==
    ASSUME TypeOK, UNCHANGED sub PROVE SameButQueues
  BY DEF TypeOK, SameButQueues, Subscription

LEMMA Announcing ==
    ASSUME IInv, NEW c \in Clients, AnnounceArrival(c) \/ AnnounceDeparture(c)
                                    \/ HandleClientEnvelope(c)
    PROVE  IInv'
  <1>1. TypeOK
    BY DEF IInv
  <1>2. BroadcastLocal(Home[c]) /\ Home[c] \in Nodes
    BY HubAssumption DEF AnnounceArrival, AnnounceDeparture, HandleClientEnvelope
  <1>3. queued' \in [Clients -> 0..SendBuffer] /\ closed' \subseteq Clients
    BY <1>1, <1>2, BroadcastTypes
  <1>4. UNCHANGED <<room, made, sub, closing, failures, inbox, owed>>
    BY DEF AnnounceArrival, AnnounceDeparture, HandleClientEnvelope, hubVars, historyVars
  <1>5. sent' \in [Clients -> 0..MaxSent]
    BY <1>1, HubAssumption DEF AnnounceArrival, AnnounceDeparture, HandleClientEnvelope, TypeOK
  <1>6. \/ Goto(c, "joining", "announcing")
        \/ Goto(c, "leaving", "departing")
        \/ Goto(c, "reading", "publishing")
    BY DEF AnnounceArrival, AnnounceDeparture, HandleClientEnvelope
  <1>7. at' \in [Clients -> Positions]
    BY <1>1, <1>6, GotoTypes DEF Positions, InRoom
  <1>8. TypeOK'
    BY <1>1, <1>3, <1>4, <1>5, <1>7 DEF TypeOK
  <1>9. Quiet
    BY <1>1, <1>4, <1>6, GotoTypes, SubUnchanged DEF Quiet, Positions, InRoom
  <1> QED
    BY <1>8, <1>9, QuietInvariant

LEMMA Publishing ==
    ASSUME IInv, NEW c \in Clients, PublishArrival(c) \/ PublishDeparture(c)
                                    \/ PublishEnvelope(c)
    PROVE  IInv'
  <1>1. TypeOK
    BY DEF IInv
  <1>2. \E m \in Message : Publish(m) \/ PublishFails(m)
    BY <1>1, MessageTypes DEF PublishArrival, PublishDeparture, PublishEnvelope
  <1>3. /\ SameButQueues
        /\ owed' \in [Clients -> SUBSET Message]
        /\ failures' \in 0..MaxFailures
    BY <1>1, <1>2, PublishTypes
  <1>4. UNCHANGED <<room, made, closing, sent, closed, inbox>>
    BY DEF PublishArrival, PublishDeparture, PublishEnvelope, clientVars
  <1>5. queued' \in [Clients -> 0..SendBuffer]
    BY <1>1, HubAssumption DEF PublishArrival, PublishDeparture, PublishEnvelope, clientVars,
       SendEnvelope, TypeOK
  <1>6. \/ Goto(c, "announcing", "acking")
        \/ Goto(c, "departing", "closing")
        \/ Goto(c, "publishing", "reading")
    BY DEF PublishArrival, PublishDeparture, PublishEnvelope
  <1>7. at' \in [Clients -> Positions]
    BY <1>1, <1>6, GotoTypes DEF Positions, InRoom
  <1>8. TypeOK'
    BY <1>1, <1>3, <1>4, <1>5, <1>7 DEF TypeOK, SameButQueues, Subscription
  <1>9. Quiet
    BY <1>1, <1>3, <1>4, <1>6, GotoTypes DEF Quiet, Positions, InRoom
  <1> QED
    BY <1>8, <1>9, QuietInvariant

LEMMA Pumps ==
    ASSUME IInv, NEW c \in Clients, \/ Acknowledge(c) \/ RejectMessage(c)
                                    \/ WriteMessage(c) \/ WriteFails(c)
                                    \/ RegisterFails(c)
    PROVE  IInv'
  <1> USE DEF Acknowledge, RejectMessage, WriteMessage, WriteFails, RegisterFails
  <1>1. TypeOK
    BY DEF IInv
  <1>2. UNCHANGED <<room, made, sub, closing, sent, inbox, owed>>
    BY DEF hubVars, historyVars
  <1>3. queued' \in [Clients -> 0..SendBuffer]
    BY <1>1, HubAssumption DEF SendEnvelope, TypeOK
  <1>4. closed' \subseteq Clients /\ failures' \in 0..MaxFailures
    BY <1>1, HubAssumption DEF TypeOK
  <1>5. Goto(c, "acking", "reading") \/ Goto(c, "out", "gone") \/ UNCHANGED at
    OBVIOUS
  <1>6. at' \in [Clients -> Positions]
    BY <1>1, <1>5, GotoTypes DEF Positions, InRoom, TypeOK
  <1>7. TypeOK'
    BY <1>1, <1>2, <1>3, <1>4, <1>6 DEF TypeOK
  <1>8. Quiet
    BY <1>1, <1>2, <1>5, GotoTypes, SubUnchanged DEF Quiet, Positions, InRoom
  <1> QED
    BY <1>7, <1>8, QuietInvariant

LEMMA Consuming ==
    ASSUME IInv, NEW s \in Subs, ConsumeRoom(s) PROVE IInv'
  <1>1. TypeOK
    BY DEF IInv
  <1>2. /\ SameButQueues
        /\ queued' \in [Clients -> 0..SendBuffer] /\ closed' \subseteq Clients
        /\ inbox' \in [Clients -> SUBSET (Message \X Subs)]
        /\ owed' \in [Clients -> SUBSET Message]
    BY <1>1, ConsumeTypes
  <1>3. UNCHANGED <<at, sent, room, made, closing, failures>>
    BY DEF ConsumeRoom, Consume
  <1>4. TypeOK'
    BY <1>1, <1>2, <1>3 DEF TypeOK, SameButQueues, Subscription
  <1>5. Quiet
    BY <1>2, <1>3 DEF Quiet
  <1> QED
    BY <1>4, <1>5, QuietInvariant

-------------------------------------------------------------------------------
(* Steps that make, delete or close. *)

LEMMA FirstOfRoom ==
    ASSUME IInv, NEW c \in Clients, Register(c), room[Home[c]].members = {}
    PROVE  IInv'
  <1> DEFINE n == Home[c]
             s == made + 1
             new == [node |-> n, open |-> TRUE, queue |-> <<>>]
  <1>1. TypeOK /\ SubsSuffice /\ SubsAreMade /\ SubscriptionsMatchRooms
    BY DEF IInv
  <1>2. /\ made' = s
        /\ sub' = [sub EXCEPT ![s] = new]
        /\ room' = [room EXCEPT ![n] = [members |-> {c}, sub |-> s]]
        /\ UNCHANGED <<sent, closing, queued, closed, failures, inbox, owed>>
    BY DEF Register, clientVars, historyVars
  <1>3. /\ at' \in [Clients -> Positions] /\ at[c] = "out" /\ at'[c] = "joining"
        /\ \A d \in Clients : d # c => at'[d] = at[d]
    BY <1>1, GotoTypes DEF Register, Positions, InRoom
  <1>4. Waiting' = Waiting \ {c} /\ c \in Waiting
    BY <1>3 DEF Waiting
  <1>5. /\ Cardinality(Waiting') = Cardinality(Waiting) - 1
        /\ Cardinality(Waiting') \in Nat
    BY <1>4, WaitingFinite, FS_RemoveElement, FS_CardinalityType
  <1>6. n \in Nodes /\ made \in Nat /\ s \in Subs /\ s # None /\ ~(s <= made)
    BY <1>1, <1>5, Sizes, WaitingFinite, HubAssumption DEF TypeOK, SubsSuffice, None
  <1>7. SubsSuffice'
    BY <1>1, <1>2, <1>5, <1>6, Sizes, WaitingFinite DEF SubsSuffice
  <1>8. TypeOK'
    <2>1. new \in Subscription
      BY <1>6 DEF Subscription
    <2>2. sub' \in [Subs -> Subscription]
      BY <1>1, <1>2, <2>1 DEF TypeOK, Subscription
    <2>3. made' \in 0..Cardinality(Clients)
      BY <1>2, <1>6, Sizes
    <2>4. room' \in [Nodes -> [members : SUBSET Clients, sub : Subs \cup {None}]]
      BY <1>1, <1>2, <1>6 DEF TypeOK
    <2> QED
      BY <1>1, <1>2, <1>3, <2>2, <2>3, <2>4 DEF TypeOK, Subscription
  <1>9. /\ sub'[s] = new
        /\ \A t \in Subs : t # s => sub'[t] = sub[t]
        /\ room'[n] = [members |-> {c}, sub |-> s]
        /\ \A k \in Nodes : k # n => room'[k] = room[k]
    BY <1>1, <1>2, <1>6 DEF TypeOK
  <1>10. ASSUME NEW d \in Clients, closing[d] # None
         PROVE  closing[d] \in Subs /\ closing[d] # s /\ d # c
    BY <1>1, <1>3, <1>6, <1>10 DEF TypeOK, SubsAreMade
  <1>11. \A k \in Nodes : room[k].sub # s
    BY <1>1, <1>6 DEF SubsAreMade
  <1> HIDE DEF n, s
  <1>12. SubsAreMade'
    <2>1. \A t \in Subs : sub'[t].open => t <= made'
      BY <1>1, <1>2, <1>6, <1>9 DEF SubsAreMade, Subs, s
    <2>2. ASSUME NEW k \in Nodes
          PROVE  room'[k].sub <= made'
      <3>1. CASE k = n
        BY <1>2, <1>6, <1>9, <3>1 DEF s
      <3>2. CASE k # n
        <4>1. room[k].sub \in Int /\ room[k].sub <= made
          BY <1>1, Sizes DEF TypeOK, SubsAreMade, None
        <4> QED
          BY <1>2, <1>6, <1>9, <3>2, <4>1 DEF s
      <3> QED
        BY <3>1, <3>2
    <2>3. ASSUME NEW d \in Clients, closing'[d] # None
          PROVE  /\ closing'[d] <= made'
                 /\ at'[d] \in {"leaving", "departing", "closing"}
                 /\ sub'[closing'[d]].node = Home[d]
      <3>1. closing'[d] = closing[d] /\ closing[d] \in Subs /\ closing[d] # s /\ d # c
        BY <1>2, <1>10, <2>3
      <3> QED
        BY <1>1, <1>2, <1>3, <1>6, <1>9, <2>3, <3>1 DEF SubsAreMade, Subs, s
    <2> QED
      BY <2>1, <2>2, <2>3 DEF SubsAreMade
  <1>13. SubscriptionsMatchRooms'
    <2>1. ASSUME NEW d \in Clients
          PROVE  RoomHoldsClient(d)'
      <3>1. Home[d] \in Nodes
        BY HubAssumption
      <3> QED
        BY <1>1, <1>3, <1>9, <3>1 DEF SubscriptionsMatchRooms, RoomHoldsClient, InRoom, n
    <2>2. ASSUME NEW k \in Nodes
          PROVE  RoomHasItsSub(k)'
      <3>1. CASE k = n
        BY <1>2, <1>6, <1>9, <1>10, <3>1 DEF RoomHasItsSub
      <3>2. CASE k # n
        <4>1. room[k].members # {} => room[k].sub \in Subs
          BY <1>1 DEF TypeOK, SubscriptionsMatchRooms, RoomHasItsSub
        <4> QED
          BY <1>1, <1>2, <1>9, <1>11, <3>2, <4>1 DEF SubscriptionsMatchRooms, RoomHasItsSub
      <3> QED
        BY <3>1, <3>2
    <2>3. ASSUME NEW t \in Subs
          PROVE  SubIsNeeded(t)'
      <3> SUFFICES ASSUME sub'[t].open
                   PROVE  \/ \E k \in Nodes : room'[k].sub = t
                          \/ \E d \in Clients : closing'[d] = t
        BY DEF SubIsNeeded
      <3>1. CASE t = s
        BY <1>6, <1>9, <3>1 DEF n
      <3>2. CASE t # s
        <4>1. room[n].sub # t
          BY <1>1, <1>6, Sizes DEF SubscriptionsMatchRooms, RoomHasItsSub, n
        <4> QED
          BY <1>1, <1>2, <1>9, <2>3, <3>2, <4>1 DEF SubscriptionsMatchRooms, SubIsNeeded
      <3> QED
        BY <3>1, <3>2
    <2> QED
      BY <2>1, <2>2, <2>3 DEF SubscriptionsMatchRooms
  <1> QED
    BY <1>7, <1>8, <1>12, <1>13 DEF IInv

LEMMA NextOfRoom ==
    ASSUME IInv, NEW c \in Clients, Register(c), room[Home[c]].members # {}
    PROVE  IInv'
  <1> DEFINE n == Home[c]
  <1>1. TypeOK /\ SubsSuffice /\ SubsAreMade /\ SubscriptionsMatchRooms /\ n \in Nodes
    BY HubAssumption DEF IInv
  <1>2. /\ room' = [room EXCEPT ![n].members = @ \cup {c}]
        /\ UNCHANGED <<made, sub, sent, closing, queued, closed, failures, inbox, owed>>
    BY DEF Register, clientVars, historyVars
  <1>3. /\ at' \in [Clients -> Positions] /\ at[c] = "out" /\ at'[c] = "joining"
        /\ \A d \in Clients : d # c => at'[d] = at[d]
    BY <1>1, GotoTypes DEF Register, Positions, InRoom
  <1>4. /\ \A k \in Nodes : room'[k].sub = room[k].sub
        /\ room'[n].members = room[n].members \cup {c}
        /\ \A k \in Nodes : k # n => room'[k] = room[k]
        /\ room' \in [Nodes -> [members : SUBSET Clients, sub : Subs \cup {None}]]
    BY <1>1, <1>2 DEF TypeOK
  <1>5. TypeOK'
    BY <1>1, <1>2, <1>3, <1>4 DEF TypeOK
  <1>6. SubsSuffice'
    BY <1>1, <1>2, <1>3, WaitingStays DEF Waiting
  <1>7. SubsAreMade'
    BY <1>1, <1>2, <1>3, <1>4 DEF SubsAreMade
  <1>8. SubscriptionsMatchRooms'
    <2>1. ASSUME NEW d \in Clients
          PROVE  RoomHoldsClient(d)'
      <3>1. Home[d] \in Nodes
        BY HubAssumption
      <3> QED
        BY <1>1, <1>3, <1>4, <3>1 DEF SubscriptionsMatchRooms, RoomHoldsClient, InRoom
    <2>2. ASSUME NEW k \in Nodes
          PROVE  RoomHasItsSub(k)'
      <3>1. room'[k].members = {} <=> room[k].members = {}
        BY <1>1, <1>4
      <3> QED
        BY <1>1, <1>2, <1>4, <3>1 DEF SubscriptionsMatchRooms, RoomHasItsSub
    <2>3. ASSUME NEW t \in Subs
          PROVE  SubIsNeeded(t)'
      <3> SUFFICES ASSUME sub'[t].open
                   PROVE  \/ \E k \in Nodes : room'[k].sub = t
                          \/ \E d \in Clients : closing'[d] = t
        BY DEF SubIsNeeded
      <3> QED
        BY <1>1, <1>2, <1>4, <2>3 DEF SubscriptionsMatchRooms, SubIsNeeded
    <2> QED
      BY <2>1, <2>2, <2>3 DEF SubscriptionsMatchRooms
  <1> QED
    BY <1>5, <1>6, <1>7, <1>8 DEF IInv

LEMMA Leaving ==
    ASSUME IInv, NEW c \in Clients, Unregister(c) PROVE IInv'
  <1> DEFINE n == Home[c]
             rest == room[n].members \ {c}
  <1>1. TypeOK /\ SubsSuffice /\ SubsAreMade /\ SubscriptionsMatchRooms /\ n \in Nodes
    BY HubAssumption DEF IInv
  <1>2. /\ room' = [room EXCEPT ![n] = IF rest = {} THEN NoRoom
                                       ELSE [members |-> rest, sub |-> @.sub]]
        /\ closing' = [closing EXCEPT ![c] = IF rest = {} THEN room[n].sub ELSE None]
        /\ queued' = [queued EXCEPT ![c] = 0]
        /\ inbox' = [inbox EXCEPT ![c] = {}]
        /\ owed' = [owed EXCEPT ![c] = {}]
        /\ UNCHANGED <<sent, made, sub, closed, failures>>
    BY DEF Unregister, Forget
  <1>3. /\ at' \in [Clients -> Positions] /\ at[c] = "reading" /\ at'[c] = "leaving"
        /\ \A d \in Clients : d # c => at'[d] = at[d]
    BY <1>1, GotoTypes DEF Unregister, Positions, InRoom
  <1>4. /\ room'[n] = IF rest = {} THEN NoRoom ELSE [members |-> rest, sub |-> room[n].sub]
        /\ \A k \in Nodes : k # n => room'[k] = room[k]
        /\ closing'[c] = IF rest = {} THEN room[n].sub ELSE None
        /\ \A d \in Clients : d # c => closing'[d] = closing[d]
    BY <1>1, <1>2 DEF TypeOK
  <1>5. room[n] \in [members : SUBSET Clients, sub : Subs \cup {None}]
    BY <1>1 DEF TypeOK
  <1>6. c \in room[n].members /\ closing[c] = None
    BY <1>1, <1>3 DEF SubscriptionsMatchRooms, RoomHoldsClient, SubsAreMade, InRoom
  <1>7. /\ room[n].sub \in Subs /\ room[n].sub <= made
        /\ sub[room[n].sub].open /\ sub[room[n].sub].node = n
        /\ \A d \in Clients : closing[d] # room[n].sub
    BY <1>1, <1>5, <1>6 DEF SubscriptionsMatchRooms, RoomHasItsSub, SubsAreMade
  <1>8. TypeOK'
    <2>1. room' \in [Nodes -> [members : SUBSET Clients, sub : Subs \cup {None}]]
      BY <1>1, <1>2, <1>5 DEF TypeOK, NoRoom
    <2>2. closing' \in [Clients -> Subs \cup {None}]
      BY <1>1, <1>2, <1>5 DEF TypeOK
    <2>3. /\ queued' \in [Clients -> 0..SendBuffer]
          /\ inbox' \in [Clients -> SUBSET (Message \X Subs)]
          /\ owed' \in [Clients -> SUBSET Message]
      BY <1>1, <1>2, HubAssumption DEF TypeOK
    <2> QED
      BY <1>1, <1>2, <1>3, <2>1, <2>2, <2>3 DEF TypeOK
  <1>9. SubsSuffice'
    BY <1>1, <1>2, <1>3, WaitingStays DEF Waiting
  <1>10. Home[c] = n
    OBVIOUS
  <1> HIDE DEF n, rest
  <1>11. SubsAreMade'
    <2>1. ASSUME NEW k \in Nodes
          PROVE  room'[k].sub <= made'
      BY <1>1, <1>2, <1>4, <1>7, Sizes DEF SubsAreMade, NoRoom, None, TypeOK
    <2>2. ASSUME NEW d \in Clients, closing'[d] # None
          PROVE  /\ closing'[d] <= made'
                 /\ at'[d] \in {"leaving", "departing", "closing"}
                 /\ sub'[closing'[d]].node = Home[d]
      BY <1>1, <1>2, <1>3, <1>4, <1>7, <1>10, <2>2 DEF SubsAreMade
    <2> QED
      BY <1>1, <1>2, <2>1, <2>2 DEF SubsAreMade
  <1>12. SubscriptionsMatchRooms'
    <2>1. ASSUME NEW d \in Clients
          PROVE  RoomHoldsClient(d)'
      <3>1. Home[d] \in Nodes
        BY HubAssumption
      <3>2. d \in room[Home[d]].members <=> at[d] \in InRoom
        BY <1>1 DEF SubscriptionsMatchRooms, RoomHoldsClient
      <3>3. room'[n].members = room[n].members \ {c}
        BY <1>4 DEF NoRoom, rest
      <3> QED
        BY <1>3, <1>4, <1>10, <3>1, <3>2, <3>3 DEF InRoom, RoomHoldsClient
    <2>2. ASSUME NEW k \in Nodes
          PROVE  RoomHasItsSub(k)'
      <3>1. CASE k = n
        <4>1. CASE rest = {}
          BY <1>4, <3>1, <4>1 DEF NoRoom, RoomHasItsSub
        <4>2. CASE rest # {}
          <5>1. room'[n].members = rest /\ room'[n].sub = room[n].sub /\ closing'[c] = None
            BY <1>4, <4>2
          <5>2. room[n].sub # None
            BY <1>7, Sizes
          <5> QED
            BY <1>2, <1>4, <1>7, <3>1, <4>2, <5>1, <5>2 DEF RoomHasItsSub
        <4> QED
          BY <4>1, <4>2
      <3>2. CASE k # n
        <4>1. room'[k] = room[k]
          BY <1>4, <3>2
        <4>2. CASE room[k].members = {}
          BY <1>1, <4>1, <4>2 DEF SubscriptionsMatchRooms, RoomHasItsSub
        <4>3. CASE room[k].members # {}
          <5>1. /\ room[k].sub # None
                /\ sub[room[k].sub].open /\ sub[room[k].sub].node = k
                /\ \A d \in Clients : closing[d] # room[k].sub
            BY <1>1, <4>3 DEF SubscriptionsMatchRooms, RoomHasItsSub
          <5>2. closing'[c] # room[k].sub
            BY <1>4, <1>7, <3>2, <5>1
          <5> QED
            BY <1>2, <1>4, <4>1, <4>3, <5>1, <5>2 DEF RoomHasItsSub
        <4> QED
          BY <4>2, <4>3
      <3> QED
        BY <3>1, <3>2
    <2>3. ASSUME NEW t \in Subs
          PROVE  SubIsNeeded(t)'
      <3> SUFFICES ASSUME sub'[t].open
                   PROVE  \/ \E k \in Nodes : room'[k].sub = t
                          \/ \E d \in Clients : closing'[d] = t
        BY DEF SubIsNeeded
      <3>1. CASE \E d \in Clients : closing[d] = t
        <4>1. PICK d \in Clients : closing[d] = t
          BY <3>1
        <4>2. d # c
          BY <1>6, <4>1, Sizes
        <4> QED
          BY <1>4, <4>1, <4>2
      <3>2. CASE \E k \in Nodes : room[k].sub = t
        <4>1. PICK k \in Nodes : room[k].sub = t
          BY <3>2
        <4>2. CASE k = n /\ rest = {}
          BY <1>4, <4>1, <4>2
        <4>3. CASE ~(k = n /\ rest = {})
          <5>1. room'[k].sub = room[k].sub
            BY <1>4, <4>3
          <5> QED
            BY <4>1, <5>1
        <4> QED
          BY <4>2, <4>3
      <3> QED
        BY <1>1, <1>2, <2>3, <3>1, <3>2 DEF SubscriptionsMatchRooms, SubIsNeeded
    <2> QED
      BY <2>1, <2>2, <2>3 DEF SubscriptionsMatchRooms
  <1> QED
    BY <1>8, <1>9, <1>11, <1>12 DEF IInv

LEMMA ClosedTypes ==
    ASSUME TypeOK, NEW s \in Subs, sub' \in Closed(s)
    PROVE  /\ sub' \in [Subs -> Subscription]
           /\ ~sub'[s].open /\ sub'[s].node = sub[s].node
           /\ \A t \in Subs : t # s => sub'[t] = sub[t]
  <1>1. PICK k \in 0..Len(sub[s].queue) :
          sub' = [sub EXCEPT ![s] = [node  |-> sub[s].node,
                                     open  |-> FALSE,
                                     queue |-> SubSeq(sub[s].queue, 1, k)]]
    BY DEF Closed
  <1>2. sub \in [Subs -> Subscription] /\ sub[s] \in Subscription
    BY DEF TypeOK, Subscription
  <1>3. sub[s].queue \in Seq(Message) /\ sub[s].node \in Nodes
    BY <1>2 DEF Subscription
  <1>4. SubSeq(sub[s].queue, 1, k) \in Seq(Message)
    BY <1>3
  <1> QED
    BY <1>1, <1>2, <1>3, <1>4 DEF Subscription

LEMMA Closing ==
    ASSUME IInv, NEW c \in Clients, CloseClient(c) PROVE IInv'
  <1>1. TypeOK /\ SubsSuffice /\ SubsAreMade /\ SubscriptionsMatchRooms
    BY DEF IInv
  <1>2. /\ closed' = closed \cup {c}
        /\ closing' = [closing EXCEPT ![c] = None]
        /\ UNCHANGED <<sent, room, made, queued, failures, inbox, owed>>
    BY DEF CloseClient, historyVars
  <1>3. /\ at' \in [Clients -> Positions] /\ at[c] = "closing" /\ at'[c] = "gone"
        /\ \A d \in Clients : d # c => at'[d] = at[d]
    BY <1>1, GotoTypes DEF CloseClient, Positions, InRoom
  <1>4. /\ closing'[c] = None
        /\ \A d \in Clients : d # c => closing'[d] = closing[d]
        /\ closing' \in [Clients -> Subs \cup {None}]
    BY <1>1, <1>2 DEF TypeOK
  <1>5. /\ sub' \in [Subs -> Subscription]
        /\ \A t \in Subs : sub'[t].node = sub[t].node
        /\ \A t \in Subs : t # closing[c] => sub'[t] = sub[t]
        /\ closing[c] \in Subs => ~sub'[closing[c]].open
    <2>1. CASE closing[c] = None
      BY <1>1, <2>1, Sizes DEF CloseClient, TypeOK, Subscription
    <2>2. CASE closing[c] # None
      <3>1. closing[c] \in Subs /\ sub' \in Closed(closing[c])
        BY <1>1, <2>2 DEF CloseClient, TypeOK
      <3> QED
        BY <1>1, <3>1, ClosedTypes
    <2> QED
      BY <2>1, <2>2
  <1>6. \A t \in Subs : sub'[t].open => sub[t].open /\ t # closing[c]
    BY <1>5
  <1>7. TypeOK'
    BY <1>1, <1>2, <1>3, <1>4, <1>5 DEF TypeOK, Subscription
  <1>8. SubsSuffice'
    BY <1>1, <1>2, <1>3, WaitingStays DEF Waiting
  <1>9. SubsAreMade'
    <2>1. ASSUME NEW d \in Clients, closing'[d] # None
          PROVE  /\ closing'[d] <= made'
                 /\ at'[d] \in {"leaving", "departing", "closing"}
                 /\ sub'[closing'[d]].node = Home[d]
      <3>1. d # c /\ closing'[d] = closing[d] /\ closing[d] \in Subs
        BY <1>1, <1>4, <2>1 DEF TypeOK
      <3> QED
        BY <1>1, <1>2, <1>3, <1>5, <2>1, <3>1 DEF SubsAreMade
    <2> QED
      BY <1>1, <1>2, <1>6, <2>1 DEF SubsAreMade
  <1>10. SubscriptionsMatchRooms'
    <2>1. ASSUME NEW d \in Clients
          PROVE  RoomHoldsClient(d)'
      BY <1>1, <1>2, <1>3 DEF SubscriptionsMatchRooms, RoomHoldsClient, InRoom
    <2>2. ASSUME NEW n \in Nodes
          PROVE  RoomHasItsSub(n)'
      <3>1. RoomHasItsSub(n)
        BY <1>1 DEF SubscriptionsMatchRooms
      <3>2. room[n].sub \in Subs \cup {None}
        BY <1>1 DEF TypeOK
      <3>3. CASE room[n].members = {}
        BY <1>2, <3>1, <3>3 DEF RoomHasItsSub
      <3>4. CASE room[n].members # {}
        <4>1. /\ room[n].sub \in Subs /\ room[n].sub # None
              /\ sub[room[n].sub].open /\ sub[room[n].sub].node = n
              /\ \A d \in Clients : closing[d] # room[n].sub
          BY <3>1, <3>2, <3>4 DEF RoomHasItsSub
        <4>2. sub'[room[n].sub] = sub[room[n].sub]
          BY <1>5, <4>1
        <4>3. \A d \in Clients : closing'[d] # room[n].sub
          BY <1>4, <4>1
        <4> QED
          BY <1>2, <3>4, <4>1, <4>2, <4>3 DEF RoomHasItsSub
      <3> QED
        BY <3>3, <3>4
    <2>3. ASSUME NEW t \in Subs
          PROVE  SubIsNeeded(t)'
      <3> SUFFICES ASSUME sub'[t].open
                   PROVE  \/ \E n \in Nodes : room'[n].sub = t
                          \/ \E d \in Clients : closing'[d] = t
        BY DEF SubIsNeeded
      <3>1. sub[t].open /\ t # closing[c]
        BY <1>6
      <3> QED
        BY <1>1, <1>2, <1>4, <3>1 DEF SubscriptionsMatchRooms, SubIsNeeded
    <2> QED
      BY <2>1, <2>2, <2>3 DEF SubscriptionsMatchRooms
  <1> QED
    BY <1>7, <1>8, <1>9, <1>10 DEF IInv

LEMMA Stopping ==
    ASSUME IInv, NEW n \in Nodes, StopNode(n) PROVE IInv'
  <1>1. TypeOK /\ SubsSuffice /\ SubsAreMade /\ SubscriptionsMatchRooms
    BY DEF IInv
  <1>2. /\ at' = [c \in Clients |-> IF Home[c] = n THEN "gone" ELSE at[c]]
        /\ room' = [room EXCEPT ![n] = NoRoom]
        /\ sub' = [s \in Subs |-> IF sub[s].node = n
                                  THEN [node |-> n, open |-> FALSE, queue |-> <<>>]
                                  ELSE sub[s]]
        /\ closing' = [c \in Clients |-> IF Home[c] = n THEN None ELSE closing[c]]
        /\ closed' \subseteq closed \cup Clients
        /\ UNCHANGED <<sent, made, queued, failures, inbox, owed>>
    BY DEF StopNode, historyVars
  <1>3. ASSUME NEW s \in Subs
        PROVE  /\ sub'[s] \in Subscription
               /\ sub'[s].node = sub[s].node
               /\ sub'[s].open => sub[s].open /\ sub[s].node # n
               /\ sub[s].node # n => sub'[s] = sub[s]
    <2>1. sub[s] \in Subscription
      BY <1>1 DEF TypeOK, Subscription
    <2>2. sub'[s] = IF sub[s].node = n
                    THEN [node |-> n, open |-> FALSE, queue |-> <<>>] ELSE sub[s]
      BY <1>2
    <2>3. CASE sub[s].node = n
      <3>1. sub'[s] = [node |-> n, open |-> FALSE, queue |-> <<>>]
        BY <2>2, <2>3
      <3> QED
        BY <2>3, <3>1 DEF Subscription
    <2>4. CASE sub[s].node # n
      BY <2>1, <2>2, <2>4
    <2> QED
      BY <2>3, <2>4
  <1>4. sub' \in [Subs -> Subscription]
    BY <1>2, <1>3
  <1>5. /\ room'[n] = NoRoom
        /\ \A k \in Nodes : k # n => room'[k] = room[k]
        /\ room' \in [Nodes -> [members : SUBSET Clients, sub : Subs \cup {None}]]
    BY <1>1, <1>2 DEF TypeOK, NoRoom
  <1>6. ASSUME NEW c \in Clients
        PROVE  /\ Home[c] = n => at'[c] = "gone" /\ closing'[c] = None
               /\ Home[c] # n => at'[c] = at[c] /\ closing'[c] = closing[c]
    BY <1>2
  <1>7. TypeOK'
    <2>1. at' \in [Clients -> Positions] /\ closing' \in [Clients -> Subs \cup {None}]
      BY <1>1, <1>2 DEF TypeOK, Positions
    <2> QED
      BY <1>1, <1>2, <1>4, <1>5, <2>1 DEF TypeOK, Subscription
  <1>8. SubsSuffice'
    BY <1>1, <1>2, <1>6, WaitingStays DEF Waiting
  <1>9. SubsAreMade'
    <2>1. \A s \in Subs : sub'[s].open => s <= made'
      BY <1>1, <1>2, <1>3 DEF SubsAreMade
    <2>2. ASSUME NEW k \in Nodes
          PROVE  room'[k].sub <= made'
      <3>1. made \in Nat /\ made' = made
        <4>1. made' = made
          BY <1>2
        <4>2. made \in 0..Cardinality(Clients)
          BY <1>1 DEF TypeOK
        <4> QED
          BY <4>1, <4>2, Sizes
      <3>2. CASE k = n
        BY <1>5, <3>1, <3>2 DEF NoRoom, None
      <3>3. CASE k # n
        BY <1>1, <1>5, <3>1, <3>3 DEF SubsAreMade
      <3> QED
        BY <3>2, <3>3
    <2>3. ASSUME NEW c \in Clients, closing'[c] # None
          PROVE  /\ closing'[c] <= made'
                 /\ at'[c] \in {"leaving", "departing", "closing"}
                 /\ sub'[closing'[c]].node = Home[c]
      <3>1. Home[c] # n /\ closing'[c] = closing[c] /\ closing[c] \in Subs
        BY <1>1, <1>6, <2>3 DEF TypeOK
      <3> QED
        BY <1>1, <1>2, <1>3, <1>6, <2>3, <3>1 DEF SubsAreMade
    <2> QED
      BY <2>1, <2>2, <2>3 DEF SubsAreMade
  <1>10. SubscriptionsMatchRooms'
    <2>1. ASSUME NEW c \in Clients
          PROVE  RoomHoldsClient(c)'
      <3>1. RoomHoldsClient(c) /\ Home[c] \in Nodes
        BY <1>1, HubAssumption DEF SubscriptionsMatchRooms
      <3> QED
        BY <1>5, <1>6, <3>1 DEF RoomHoldsClient, NoRoom, InRoom
    <2>2. ASSUME NEW k \in Nodes
          PROVE  RoomHasItsSub(k)'
      <3>1. CASE k = n
        BY <1>5, <3>1 DEF RoomHasItsSub, NoRoom
      <3>2. CASE k # n
        <4>1. RoomHasItsSub(k) /\ room'[k] = room[k] /\ room[k].sub \in Subs \cup {None}
          BY <1>1, <1>5, <3>2 DEF SubscriptionsMatchRooms, TypeOK
        <4>2. CASE room[k].members = {}
          BY <4>1, <4>2 DEF RoomHasItsSub
        <4>3. CASE room[k].members # {}
          <5>1. /\ room[k].sub \in Subs /\ room[k].sub # None
                /\ sub[room[k].sub].open /\ sub[room[k].sub].node = k
                /\ \A c \in Clients : closing[c] # room[k].sub
            BY <4>1, <4>3 DEF RoomHasItsSub
          <5>2. sub'[room[k].sub] = sub[room[k].sub]
            BY <1>3, <3>2, <5>1
          <5>3. \A c \in Clients : closing'[c] # room[k].sub
            BY <1>6, <5>1
          <5> QED
            BY <4>1, <4>3, <5>1, <5>2, <5>3 DEF RoomHasItsSub
        <4> QED
          BY <4>2, <4>3
      <3> QED
        BY <3>1, <3>2
    <2>3. ASSUME NEW t \in Subs
          PROVE  SubIsNeeded(t)'
      <3> SUFFICES ASSUME sub'[t].open
                   PROVE  \/ \E k \in Nodes : room'[k].sub = t
                          \/ \E c \in Clients : closing'[c] = t
        BY DEF SubIsNeeded
      <3>1. sub[t].open /\ sub[t].node # n
        BY <1>3
      <3>2. CASE \E c \in Clients : closing[c] = t
        <4>1. PICK c \in Clients : closing[c] = t
          BY <3>2
        <4>2. Home[c] # n
          BY <1>1, <3>1, <4>1, Sizes DEF SubsAreMade
        <4> QED
          BY <1>6, <4>1, <4>2
      <3>3. CASE \E k \in Nodes : room[k].sub = t
        <4>1. PICK k \in Nodes : room[k].sub = t
          BY <3>3
        <4>2. sub[room[k].sub].node = k
          BY <1>1, <4>1, Sizes DEF SubscriptionsMatchRooms, RoomHasItsSub
        <4> QED
          BY <1>5, <3>1, <4>1, <4>2
      <3> QED
        BY <1>1, <3>1, <3>2, <3>3 DEF SubscriptionsMatchRooms, SubIsNeeded
    <2> QED
      BY <2>1, <2>2, <2>3 DEF SubscriptionsMatchRooms
  <1> QED
    BY <1>7, <1>8, <1>9, <1>10 DEF IInv

-------------------------------------------------------------------------------
LEMMA StepInvariant == IInv /\ [Next]_vars => IInv'
  <1> SUFFICES ASSUME IInv, [Next]_vars PROVE IInv'
    OBVIOUS
  <1>1. ASSUME NEW c \in Clients, Handle(c)
        PROVE  IInv'
    BY <1>1, Announcing, Publishing, Pumps, Closing DEF Handle
  <1>2. ASSUME NEW c \in Clients, Disturb(c)
        PROVE  IInv'
    <2>1. CASE Register(c)
      BY <2>1, FirstOfRoom, NextOfRoom
    <2> QED
      BY <1>2, <2>1, Announcing, Pumps, Leaving DEF Disturb
  <1>3. CASE UNCHANGED vars
    <2>1. UNCHANGED <<at, sent, room, made, sub, closing, queued, closed, failures, inbox, owed>>
      BY <1>3 DEF vars, hubVars, clientVars, historyVars
    <2>2. TypeOK /\ TypeOK'
      BY <2>1 DEF IInv, TypeOK
    <2>3. Quiet
      BY <2>1, <2>2, SubUnchanged DEF Quiet
    <2> QED
      BY <2>2, <2>3, QuietInvariant
  <1> QED
    BY <1>1, <1>2, <1>3, Consuming, Stopping DEF Next

LEMMA Invariant == Spec => []IInv
  BY InitInvariant, StepInvariant, PTL DEF Spec

(* Every variable keeps its type: no buffer is ever fuller than its        *)
(* channel, whoever broadcasts, and no client makes two subscriptions.     *)
THEOREM TypeCorrect == Spec => []TypeOK
  <1>1. IInv => TypeOK
    BY DEF IInv
  <1> QED
    BY <1>1, Invariant, PTL

(* In every interleaving of Register and Unregister, with publishes that   *)
(* fail and nodes that stop, each room with members has an open            *)
(* subscription of its own, and no other stays open without a client that  *)
(* is about to close it.                                                   *)
THEOREM RoomsAndSubscriptionsMatch == Spec => []SubscriptionsMatchRooms
  <1>1. IInv => SubscriptionsMatchRooms
    BY DEF IInv
  <1> QED
    BY <1>1, Invariant, PTL

-------------------------------------------------------------------------------
(* What members are owed: a second induction, on top of IInv. *)

Carried(m, q) == \E i \in DOMAIN q : q[i] = m

(* Clients are members at their own node only. *)
MembersAreHome == \A n \in Nodes : \A d \in room[n].members : Home[d] = n

(* Nobody is owed anything before the arrival, nor what its own node sends. *)
OwedFromElsewhere ==
    /\ \A d \in Clients : at[d] = "out" => owed[d] = {}
    /\ \A d \in Clients : \A m \in owed[d] : Home[m.from] # Home[d]

OwedIsCarried(n, d) ==
    \A m \in owed[d] : Carried(m, sub[room[n].sub].queue)

OwedInv ==
    /\ MembersAreHome
    /\ OwedFromElsewhere
    /\ \A n \in Nodes : \A d \in room[n].members \ closed : OwedIsCarried(n, d)

LEMMA AppendCarries ==
    ASSUME NEW q \in Seq(Message), NEW m \in Message
    PROVE  /\ Carried(m, Append(q, m))
           /\ \A k : Carried(k, q) => Carried(k, Append(q, m))
  <1>1. /\ DOMAIN q = 1..Len(q) /\ Len(q) \in Nat
        /\ DOMAIN Append(q, m) = 1..Len(q) + 1
        /\ Append(q, m)[Len(q) + 1] = m
        /\ \A i \in 1..Len(q) : Append(q, m)[i] = q[i]
    OBVIOUS
  <1>2. Carried(m, Append(q, m))
    <2>1. Len(q) + 1 \in DOMAIN Append(q, m)
      BY <1>1
    <2> QED
      BY <1>1, <2>1 DEF Carried
  <1>3. ASSUME NEW k, Carried(k, q)
        PROVE  Carried(k, Append(q, m))
    <2>1. PICK i \in 1..Len(q) : q[i] = k
      BY <1>1, <1>3 DEF Carried
    <2>2. i \in DOMAIN Append(q, m) /\ Append(q, m)[i] = k
      BY <1>1, <2>1
    <2> QED
      BY <2>2 DEF Carried
  <1> QED
    BY <1>2, <1>3

LEMMA TailCarries ==
    ASSUME NEW q \in Seq(Message), q # <<>>, NEW k, Carried(k, q), k # Head(q)
    PROVE  Carried(k, Tail(q))
  <1>1. PICK i \in 1..Len(q) : q[i] = k
    BY DEF Carried
  <1>2. i # 1
    BY <1>1
  <1>3. i - 1 \in DOMAIN Tail(q) /\ Tail(q)[i - 1] = k
    BY <1>1, <1>2
  <1> QED
    BY <1>3 DEF Carried

LEMMA InitOwed == Init => OwedInv
  BY DEF Init, OwedInv, MembersAreHome, OwedFromElsewhere, NoRoom

(* A room's subscription, as IInv gives it. *)
LEMMA RoomsSub ==
    ASSUME IInv, NEW n \in Nodes, room[n].members # {}
    PROVE  /\ room[n].sub \in Subs
           /\ sub[room[n].sub] \in Subscription
           /\ sub[room[n].sub].open /\ sub[room[n].sub].node = n
           /\ \A c \in Clients : closing[c] # room[n].sub
  BY DEF IInv, TypeOK, SubscriptionsMatchRooms, RoomHasItsSub, Subscription

(* Steps that only move clients on, fill buffers and close clients. *)
LEMMA OwedStays ==
    ASSUME OwedInv, UNCHANGED <<room, sub, owed>>, closed \subseteq closed',
           \A c \in Clients : at'[c] = "out" => at[c] = "out"
    PROVE  OwedInv'
  BY DEF OwedInv, MembersAreHome, OwedFromElsewhere, OwedIsCarried

LEMMA OwedByPublishing ==
    ASSUME IInv, OwedInv, NEW c \in Clients,
           PublishArrival(c) \/ PublishDeparture(c) \/ PublishEnvelope(c)
    PROVE  OwedInv'
  <1>1. TypeOK
    BY DEF IInv
  <1>2. PICK m \in Message : Deliver(m) \/ UNCHANGED <<sub, owed>>
    BY <1>1, MessageTypes DEF PublishArrival, PublishDeparture, PublishEnvelope, Publish,
       PublishFails
  <1>3. UNCHANGED <<room, closed>>
    BY DEF PublishArrival, PublishDeparture, PublishEnvelope, clientVars
  <1>4. \A d \in Clients : at'[d] = "out" => at[d] = "out"
    BY <1>1, GotoTypes DEF PublishArrival, PublishDeparture, PublishEnvelope, Positions, InRoom
  <1>5. CASE UNCHANGED <<sub, owed>>
    BY <1>3, <1>4, <1>5, OwedStays
  <1>6. CASE Deliver(m)
    <2>1. /\ \A s \in Subs : sub'[s] = IF sub[s].open
                                       THEN [sub[s] EXCEPT !.queue = Append(sub[s].queue, m)]
                                       ELSE sub[s]
          /\ \A d \in Clients : owed'[d] = IF Home[d] # Home[m.from] /\ d \in room[Home[d]].members
                                           THEN owed[d] \cup {m} ELSE owed[d]
      BY <1>6 DEF Deliver
    <2>2. OwedFromElsewhere'
      <3>1. ASSUME NEW d \in Clients, at'[d] = "out"
            PROVE  owed'[d] = {}
        <4>1. owed[d] = {} /\ d \notin room[Home[d]].members
          BY <1>4, <3>1 DEF OwedInv, OwedFromElsewhere, IInv, SubscriptionsMatchRooms,
             RoomHoldsClient, InRoom
        <4> QED
          BY <2>1, <4>1
      <3>2. ASSUME NEW d \in Clients, NEW k \in owed'[d]
            PROVE  Home[k.from] # Home[d]
        <4>1. CASE k \in owed[d]
          BY <4>1 DEF OwedInv, OwedFromElsewhere
        <4>2. CASE k \notin owed[d]
          <5>1. Home[d] # Home[m.from] /\ k \in owed[d] \cup {m}
            BY <2>1, <3>2, <4>2
          <5> QED
            BY <4>2, <5>1
        <4> QED
          BY <4>1, <4>2
      <3> QED
        BY <3>1, <3>2 DEF OwedFromElsewhere
    <2>3. ASSUME NEW n \in Nodes, NEW d \in room[n].members \ closed
          PROVE  OwedIsCarried(n, d)'
      <3> DEFINE s == room[n].sub
      <3>1. s \in Subs /\ sub[s] \in Subscription /\ sub[s].open /\ d \in Clients
        BY <1>1, <2>3, RoomsSub DEF TypeOK
      <3>2. sub'[s].queue = Append(sub[s].queue, m) /\ sub[s].queue \in Seq(Message)
        BY <2>1, <3>1 DEF Subscription
      <3>3. owed'[d] \subseteq owed[d] \cup {m}
        BY <2>1, <3>1
      <3>4. \A k \in owed[d] : Carried(k, sub[s].queue)
        BY <2>3 DEF OwedInv, OwedIsCarried
      <3>5. \A k \in owed'[d] : Carried(k, sub'[s].queue)
        BY <3>2, <3>3, <3>4, AppendCarries
      <3> QED
        BY <1>3, <3>5 DEF OwedIsCarried
    <2> QED
      BY <1>3, <2>2, <2>3 DEF OwedInv, MembersAreHome
  <1> QED
    BY <1>2, <1>5, <1>6

LEMMA OwedByConsuming ==
    ASSUME IInv, OwedInv, NEW s \in Subs, ConsumeRoom(s)
    PROVE  OwedInv'
  <1> DEFINE m == Head(sub[s].queue)
             node == sub[s].node
  <1>1. TypeOK
    BY DEF IInv
  <1>2. sub \in [Subs -> Subscription] /\ sub[s] \in Subscription
    BY <1>1 DEF TypeOK, Subscription
  <1>3. sub[s].queue \in Seq(Message) /\ sub[s].queue # <<>> /\ node \in Nodes
    BY <1>2 DEF Subscription, ConsumeRoom
  <1>4. /\ sub'[s].queue = Tail(sub[s].queue)
        /\ \A t \in Subs : t # s => sub'[t] = sub[t]
    BY <1>2 DEF ConsumeRoom, Subscription
  <1>5. UNCHANGED <<at, room>>
    BY DEF ConsumeRoom, Consume
  <1>6. \A d \in Clients : owed'[d] \subseteq owed[d]
    BY DEF ConsumeRoom, Consume, historyVars
  <1>7. OwedFromElsewhere' /\ MembersAreHome'
    BY <1>5, <1>6 DEF OwedInv, OwedFromElsewhere, MembersAreHome
  <1>8. closed \subseteq closed'
    BY DEF ConsumeRoom, Consume, BroadcastLocal
  <1>9. ASSUME NEW n \in Nodes, NEW d \in room[n].members \ closed'
        PROVE  OwedIsCarried(n, d)'
    <2>1. /\ d \in Clients /\ Home[d] = n
          /\ room[n].sub \in Subs /\ sub[room[n].sub].node = n
      BY <1>1, <1>9, RoomsSub DEF TypeOK, OwedInv, MembersAreHome
    <2>2. \A k \in owed[d] : Carried(k, sub[room[n].sub].queue)
      BY <1>8, <1>9 DEF OwedInv, OwedIsCarried
    <2>3. CASE room[n].sub # s
      BY <1>4, <1>5, <1>6, <2>1, <2>2, <2>3 DEF OwedIsCarried
    <2>4. CASE room[n].sub = s
      <3>1. m \notin owed'[d]
        <4>1. CASE Home[m.from] = node
          BY <1>6, <2>1, <2>4, <4>1 DEF OwedInv, OwedFromElsewhere
        <4>2. CASE Home[m.from] # node
          <5>1. /\ closed' = closed \cup (room[node].members \ Reached(node))
                /\ owed' = [e \in Clients |-> IF e \in Reached(node)
                                              THEN owed[e] \ {m} ELSE owed[e]]
            BY <4>2 DEF ConsumeRoom, Consume, BroadcastLocal
          <5>2. d \in Reached(node)
            BY <1>9, <2>1, <2>4, <5>1
          <5> QED
            BY <2>1, <5>1, <5>2
        <4> QED
          BY <4>1, <4>2
      <3>2. \A k \in owed'[d] : Carried(k, sub[s].queue) /\ k # m
        BY <1>6, <2>1, <2>2, <2>4, <3>1
      <3>3. \A k \in owed'[d] : Carried(k, Tail(sub[s].queue))
        BY <1>3, <3>2, TailCarries
      <3> QED
        BY <1>4, <1>5, <2>4, <3>3 DEF OwedIsCarried
    <2> QED
      BY <2>3, <2>4
  <1> QED
    BY <1>5, <1>7, <1>9 DEF OwedInv

LEMMA OwedByRegistering ==
    ASSUME IInv, OwedInv, NEW c \in Clients, Register(c)
    PROVE  OwedInv'
  <1> DEFINE n == Home[c]
             s == made + 1
  <1>1. TypeOK /\ n \in Nodes
    BY HubAssumption DEF IInv
  <1>2. UNCHANGED <<closed, owed>>
    BY DEF Register, clientVars, historyVars
  <1>3. /\ at[c] = "out"
        /\ \A d \in Clients : at'[d] = "out" => at[d] = "out"
    BY <1>1, GotoTypes DEF Register, Positions, InRoom
  <1>4. owed[c] = {}
    BY <1>3 DEF OwedInv, OwedFromElsewhere
  <1>5. OwedFromElsewhere'
    BY <1>2, <1>3 DEF OwedInv, OwedFromElsewhere
  <1>6. /\ room'[n].members = room[n].members \cup {c}
        /\ room[n].members # {} => room'[n].sub = room[n].sub
        /\ \A k \in Nodes : k # n => room'[k] = room[k]
    <2>1. CASE room[n].members = {}
      <3>1. room' = [room EXCEPT ![n] = [members |-> {c}, sub |-> s]]
        BY <2>1 DEF Register
      <3> QED
        BY <1>1, <2>1, <3>1 DEF TypeOK
    <2>2. CASE room[n].members # {}
      <3>1. room' = [room EXCEPT ![n].members = @ \cup {c}]
        BY <2>2 DEF Register
      <3> QED
        BY <1>1, <3>1 DEF TypeOK
    <2> QED
      BY <2>1, <2>2
  <1>7. MembersAreHome'
    BY <1>6 DEF OwedInv, MembersAreHome
  <1>8. \A t \in Subs : t <= made => sub'[t] = sub[t]
    BY <1>1, Sizes DEF Register, TypeOK
  <1>9. ASSUME NEW k \in Nodes, NEW d \in room'[k].members \ closed'
        PROVE  OwedIsCarried(k, d)'
    <2>1. CASE d = c
      BY <1>2, <1>4, <2>1 DEF OwedIsCarried
    <2>2. CASE d # c
      <3>1. d \in room[k].members \ closed
        BY <1>2, <1>6, <1>9, <2>2
      <3>2. room'[k].sub = room[k].sub
        BY <1>6, <3>1
      <3>3. room[k].sub \in Subs /\ room[k].sub <= made
        BY <3>1, RoomsSub DEF IInv, SubsAreMade
      <3> QED
        BY <1>2, <1>8, <3>1, <3>2, <3>3 DEF OwedInv, OwedIsCarried
    <2> QED
      BY <2>1, <2>2
  <1> QED
    BY <1>5, <1>7, <1>9 DEF OwedInv

LEMMA OwedByLeaving ==
    ASSUME IInv, OwedInv, NEW c \in Clients, Unregister(c)
    PROVE  OwedInv'
  <1> DEFINE n == Home[c]
  <1>1. TypeOK /\ n \in Nodes
    BY HubAssumption DEF IInv
  <1>2. UNCHANGED <<closed, sub>>
    BY DEF Unregister
  <1>3. \A d \in Clients : at'[d] = "out" => at[d] = "out"
    BY <1>1, GotoTypes DEF Unregister, Positions, InRoom
  <1>4. \A d \in Clients : owed'[d] \subseteq owed[d]
    BY <1>1 DEF Unregister, Forget, TypeOK
  <1>5. /\ room'[n].members \subseteq room[n].members
        /\ room'[n].members # {} => room'[n].sub = room[n].sub
        /\ \A k \in Nodes : k # n => room'[k] = room[k]
    BY <1>1 DEF Unregister, NoRoom, TypeOK
  <1>6. OwedFromElsewhere' /\ MembersAreHome'
    BY <1>3, <1>4, <1>5 DEF OwedInv, OwedFromElsewhere, MembersAreHome
  <1>7. ASSUME NEW k \in Nodes, NEW d \in room'[k].members \ closed'
        PROVE  OwedIsCarried(k, d)'
    <2>1. d \in room[k].members \ closed /\ d \in Clients /\ room'[k].sub = room[k].sub
      BY <1>1, <1>2, <1>5, <1>7 DEF TypeOK
    <2> QED
      BY <1>2, <1>4, <2>1 DEF OwedInv, OwedIsCarried
  <1> QED
    BY <1>6, <1>7 DEF OwedInv

LEMMA OwedByClosing ==
    ASSUME IInv, OwedInv, NEW c \in Clients, CloseClient(c)
    PROVE  OwedInv'
  <1>1. TypeOK
    BY DEF IInv
  <1>2. closed \subseteq closed' /\ UNCHANGED <<room, owed>>
    BY DEF CloseClient, historyVars
  <1>3. \A d \in Clients : at'[d] = "out" => at[d] = "out"
    BY <1>1, GotoTypes DEF CloseClient, Positions, InRoom
  <1>4. ASSUME NEW t \in Subs, t # closing[c]
        PROVE  sub'[t] = sub[t]
    <2>1. CASE closing[c] = None
      BY <2>1 DEF CloseClient
    <2>2. CASE closing[c] # None
      BY <1>1, <1>4, <2>2, ClosedTypes DEF CloseClient, TypeOK
    <2> QED
      BY <2>1, <2>2
  <1>5. OwedFromElsewhere' /\ MembersAreHome'
    BY <1>2, <1>3 DEF OwedInv, OwedFromElsewhere, MembersAreHome
  <1>6. ASSUME NEW n \in Nodes, NEW d \in room'[n].members \ closed'
        PROVE  OwedIsCarried(n, d)'
    <2>1. d \in room[n].members \ closed
      BY <1>2, <1>6
    <2>2. sub'[room[n].sub] = sub[room[n].sub]
      BY <1>4, <2>1, RoomsSub
    <2> QED
      BY <1>2, <2>1, <2>2 DEF OwedInv, OwedIsCarried
  <1> QED
    BY <1>5, <1>6 DEF OwedInv

LEMMA OwedByStopping ==
    ASSUME IInv, OwedInv, NEW n \in Nodes, StopNode(n)
    PROVE  OwedInv'
  <1>1. TypeOK
    BY DEF IInv
  <1>2. closed \subseteq closed' /\ UNCHANGED owed
    BY DEF StopNode, historyVars
  <1>3. \A d \in Clients : at'[d] = "out" => at[d] = "out"
    BY DEF StopNode
  <1>4. /\ room'[n].members = {}
        /\ \A k \in Nodes : k # n => room'[k] = room[k]
    BY <1>1 DEF StopNode, NoRoom, TypeOK
  <1>5. \A t \in Subs : sub[t].node # n => sub'[t] = sub[t]
    BY DEF StopNode
  <1>6. OwedFromElsewhere' /\ MembersAreHome'
    BY <1>2, <1>3, <1>4 DEF OwedInv, OwedFromElsewhere, MembersAreHome
  <1>7. ASSUME NEW k \in Nodes, NEW d \in room'[k].members \ closed'
        PROVE  OwedIsCarried(k, d)'
    <2>1. k # n /\ room'[k] = room[k] /\ d \in room[k].members \ closed
      BY <1>2, <1>4, <1>7
    <2>2. sub'[room[k].sub] = sub[room[k].sub]
      BY <1>5, <2>1, RoomsSub
    <2> QED
      BY <1>2, <2>1, <2>2 DEF OwedInv, OwedIsCarried
  <1> QED
    BY <1>6, <1>7 DEF OwedInv

LEMMA OwedStep == IInv /\ OwedInv /\ [Next]_vars => OwedInv'
  <1> SUFFICES ASSUME IInv, OwedInv, [Next]_vars PROVE OwedInv'
    OBVIOUS
  <1>1. TypeOK
    BY DEF IInv
  <1>2. ASSUME NEW c \in Clients,
               \/ AnnounceArrival(c) \/ AnnounceDeparture(c) \/ HandleClientEnvelope(c)
               \/ Acknowledge(c) \/ RejectMessage(c) \/ WriteMessage(c) \/ WriteFails(c)
               \/ RegisterFails(c)
        PROVE  OwedInv'
    <2>1. UNCHANGED <<room, sub, owed>>
      BY <1>2 DEF AnnounceArrival, AnnounceDeparture, HandleClientEnvelope, Acknowledge,
         RejectMessage, WriteMessage, WriteFails, RegisterFails, hubVars, historyVars
    <2>2. closed \subseteq closed'
      BY <1>2 DEF AnnounceArrival, AnnounceDeparture, HandleClientEnvelope, Acknowledge,
         RejectMessage, WriteMessage, WriteFails, RegisterFails, BroadcastLocal
    <2>3. \/ Goto(c, "joining", "announcing") \/ Goto(c, "leaving", "departing")
          \/ Goto(c, "reading", "publishing") \/ Goto(c, "acking", "reading")
          \/ Goto(c, "out", "gone") \/ UNCHANGED at
      BY <1>2 DEF AnnounceArrival, AnnounceDeparture, HandleClientEnvelope, Acknowledge,
         RejectMessage, WriteMessage, WriteFails, RegisterFails
    <2>4. \A d \in Clients : at'[d] = "out" => at[d] = "out"
      BY <1>1, <2>3, GotoTypes DEF Positions, InRoom
    <2> QED
      BY <2>1, <2>2, <2>4, OwedStays
  <1>3. ASSUME NEW c \in Clients, Handle(c)
        PROVE  OwedInv'
    BY <1>2, <1>3, OwedByPublishing, OwedByClosing DEF Handle
  <1>4. ASSUME NEW c \in Clients, Disturb(c)
        PROVE  OwedInv'
    BY <1>2, <1>4, OwedByRegistering, OwedByLeaving DEF Disturb
  <1>5. CASE UNCHANGED vars
    BY <1>5, OwedStays DEF vars, hubVars, clientVars, historyVars
  <1> QED
    BY <1>3, <1>4, <1>5, OwedByConsuming, OwedByStopping DEF Next

(* However rooms are made and given up, members come and go and publishes  *)
(* fail, what Redis took while a client was a member is in its buffer, or  *)
(* is carried by the subscription that its room still has, or the client   *)
(* has been closed.                                                        *)
THEOREM NothingIsMissed == Spec => []MembersMissNothing
  <1>1. OwedInv => MembersMissNothing
    BY DEF OwedInv, OwedIsCarried, Carried, MembersMissNothing
  <1> QED
    BY <1>1, Invariant, InitOwed, OwedStep, PTL DEF Spec

-------------------------------------------------------------------------------
(* The order of a sender's messages: a third induction. *)

(* No message of c with this number or a higher one has been published. *)
Upcoming(c) ==
    IF at[c] \in {"out", "joining", "announcing"} THEN 0
    ELSE IF at[c] = "publishing" THEN sent[c]
    ELSE IF at[c] \in {"closing", "gone"} THEN MaxSent + 2
    ELSE sent[c] + 1

UpcomingGrows == \A c \in Clients : Upcoming(c) <= Upcoming(c)'

QueueInOrder(q) ==
    \A i, j \in DOMAIN q : i < j /\ q[i].from = q[j].from => q[i].nr < q[j].nr

(* What a client had of a subscription is older than what it carries. *)
InboxBefore(e, q) ==
    \A i \in DOMAIN q : q[i].from = e[1].from => e[1].nr < q[i].nr

OrderInv ==
    /\ \A s \in Subs : QueueInOrder(sub[s].queue)
    /\ \A c \in Clients : \A s \in Subs : \A i \in DOMAIN sub[s].queue :
          sub[s].queue[i].from = c => sub[s].queue[i].nr < Upcoming(c)
    /\ \A s \in Subs : made < s => sub[s].queue = <<>>
    /\ \A c, d \in Clients : \A e \in inbox[d] :
          e[1].from = c => e[1].nr < Upcoming(c)
    /\ \A d \in Clients : \A e \in inbox[d] :
          e[2] <= made /\ InboxBefore(e, sub[e[2]].queue)

(* A run of consecutive messages of a queue. *)
PartOf(p, q) ==
    \E o \in Nat : \A i \in DOMAIN p : i + o \in DOMAIN q /\ p[i] = q[i + o]

LEMMA PartIsOrdered ==
    ASSUME NEW p \in Seq(Message), NEW q \in Seq(Message), PartOf(p, q)
    PROVE  /\ QueueInOrder(q) => QueueInOrder(p)
           /\ \A e : InboxBefore(e, q) => InboxBefore(e, p)
           /\ \A i \in DOMAIN p : \E j \in DOMAIN q : p[i] = q[j]
           /\ q = <<>> => p = <<>>
  <1>1. PICK o \in Nat : \A i \in DOMAIN p : i + o \in DOMAIN q /\ p[i] = q[i + o]
    BY DEF PartOf
  <1>2. DOMAIN p = 1..Len(p) /\ DOMAIN q = 1..Len(q) /\ Len(p) \in Nat /\ Len(q) \in Nat
    OBVIOUS
  <1>3. QueueInOrder(q) => QueueInOrder(p)
    <2> SUFFICES ASSUME QueueInOrder(q), NEW i \in DOMAIN p, NEW j \in DOMAIN p,
                        i < j, p[i].from = p[j].from
                 PROVE  p[i].nr < p[j].nr
      BY DEF QueueInOrder
    <2>1. i + o < j + o /\ i + o \in DOMAIN q /\ j + o \in DOMAIN q
      BY <1>1, <1>2
    <2> QED
      BY <1>1, <2>1 DEF QueueInOrder
  <1>4. \A e : InboxBefore(e, q) => InboxBefore(e, p)
    BY <1>1 DEF InboxBefore
  <1>5. q = <<>> => p = <<>>
    <2> SUFFICES ASSUME q = <<>>, p # <<>> PROVE FALSE
      OBVIOUS
    <2>1. 1 \in DOMAIN p
      BY <1>2
    <2> QED
      BY <1>1, <2>1
  <1> QED
    BY <1>1, <1>3, <1>4, <1>5

LEMMA PartsOfQueues ==
    ASSUME NEW q \in Seq(Message)
    PROVE  /\ PartOf(q, q)
           /\ PartOf(<<>>, q)
           /\ q # <<>> => PartOf(Tail(q), q)
           /\ \A k \in 0..Len(q) : PartOf(SubSeq(q, 1, k), q)
  <1>1. PartOf(q, q)
    <2>1. \A i \in DOMAIN q : i + 0 \in DOMAIN q /\ q[i] = q[i + 0]
      OBVIOUS
    <2> QED
      BY <2>1 DEF PartOf
  <1>2. PartOf(<<>>, q)
    <2>1. \A i \in DOMAIN <<>> : i + 0 \in DOMAIN q /\ <<>>[i] = q[i + 0]
      OBVIOUS
    <2> QED
      BY <2>1 DEF PartOf
  <1>3. ASSUME q # <<>>
        PROVE  PartOf(Tail(q), q)
    <2>1. \A i \in DOMAIN Tail(q) : i + 1 \in DOMAIN q /\ Tail(q)[i] = q[i + 1]
      BY <1>3
    <2> QED
      BY <2>1 DEF PartOf
  <1>4. ASSUME NEW k \in 0..Len(q)
        PROVE  PartOf(SubSeq(q, 1, k), q)
    <2>1. \A i \in DOMAIN SubSeq(q, 1, k) :
             i + 0 \in DOMAIN q /\ SubSeq(q, 1, k)[i] = q[i + 0]
      OBVIOUS
    <2> QED
      BY <2>1 DEF PartOf
  <1> QED
    BY <1>1, <1>2, <1>3, <1>4

LEMMA UpcomingTypes ==
    ASSUME TypeOK PROVE \A c \in Clients : Upcoming(c) \in Nat
  BY HubAssumption DEF TypeOK, Upcoming

LEMMA UpcomingBounds ==
    ASSUME TypeOK, TypeOK', UpcomingGrows
    PROVE  \A c \in Clients :
              Upcoming(c) \in Nat /\ Upcoming(c)' \in Nat /\ Upcoming(c) <= Upcoming(c)'
  <1> TAKE c \in Clients
  <1>1. sent'[c] \in 0..MaxSent /\ MaxSent \in Nat
    BY HubAssumption DEF TypeOK
  <1>2. Upcoming(c)' \in Nat
    BY <1>1 DEF Upcoming
  <1> QED
    BY <1>2, UpcomingTypes DEF UpcomingGrows

LEMMA UpcomingMoves ==
    ASSUME IInv, Next PROVE UpcomingGrows
  <1>1. TypeOK /\ TypeOK'
    BY StepInvariant DEF IInv
  <1>2. ASSUME NEW c \in Clients, Handle(c) \/ Disturb(c)
        PROVE  /\ \A d \in Clients : d # c => at'[d] = at[d] /\ sent'[d] = sent[d]
               /\ Upcoming(c) <= Upcoming(c)'
    <2>1. \A d \in Clients : d # c => at'[d] = at[d]
      BY <1>1, <1>2 DEF TypeOK, Handle, Disturb, Goto, AnnounceArrival, PublishArrival,
         Acknowledge, PublishEnvelope, AnnounceDeparture, PublishDeparture, CloseClient,
         Register, RegisterFails, HandleClientEnvelope, RejectMessage, WriteMessage, WriteFails,
         Unregister
    <2>2. CASE HandleClientEnvelope(c)
      BY <1>1, <2>1, <2>2 DEF HandleClientEnvelope, Goto, TypeOK, Upcoming
    <2>3. CASE ~HandleClientEnvelope(c)
      <3>1. sent' = sent
        BY <1>2, <2>3 DEF Handle, Disturb, AnnounceArrival, PublishArrival,
           Acknowledge, PublishEnvelope, AnnounceDeparture, PublishDeparture, CloseClient,
           Register, RegisterFails, RejectMessage, WriteMessage, WriteFails, Unregister
      <3>2. \/ at'[c] = at[c]
            \/ at[c] \in {"out", "joining"}
            \/ at[c] = "announcing" /\ at'[c] = "acking"
            \/ at[c] \in {"acking", "publishing"} /\ at'[c] = "reading"
            \/ at[c] = "reading" /\ at'[c] = "leaving"
            \/ at[c] = "leaving" /\ at'[c] = "departing"
            \/ at[c] \in {"departing", "closing"} /\ at'[c] \in {"closing", "gone"}
        BY <1>1, <1>2, <2>3 DEF TypeOK, Handle, Disturb, Goto, AnnounceArrival, PublishArrival,
           Acknowledge, PublishEnvelope, AnnounceDeparture, PublishDeparture, CloseClient,
           Register, RegisterFails, RejectMessage, WriteMessage, WriteFails, Unregister
      <3>3. sent[c] \in 0..MaxSent /\ MaxSent \in Nat
        BY <1>1, HubAssumption DEF TypeOK
      <3> QED
        BY <2>1, <3>1, <3>2, <3>3 DEF Upcoming
    <2> QED
      BY <2>2, <2>3
  <1>3. CASE \E c \in Clients : Handle(c) \/ Disturb(c)
    <2>1. PICK c \in Clients : Handle(c) \/ Disturb(c)
      BY <1>3
    <2>2. ASSUME NEW d \in Clients
          PROVE  Upcoming(d) <= Upcoming(d)'
      <3>1. CASE d = c
        BY <1>2, <2>1, <3>1
      <3>2. CASE d # c
        <4>1. Upcoming(d)' = Upcoming(d)
          BY <1>2, <2>1, <3>2 DEF Upcoming
        <4> QED
          BY <1>1, <4>1, UpcomingTypes
      <3> QED
        BY <3>1, <3>2
    <2> QED
      BY <2>2 DEF UpcomingGrows
  <1>4. CASE \E s \in Subs : ConsumeRoom(s)
    <2>1. UNCHANGED <<at, sent>>
      BY <1>4 DEF ConsumeRoom, Consume
    <2>2. \A c \in Clients : Upcoming(c)' = Upcoming(c)
      BY <2>1 DEF Upcoming
    <2> QED
      BY <1>1, <2>2, UpcomingTypes DEF UpcomingGrows
  <1>5. CASE \E n \in Nodes : StopNode(n)
    <2>1. \A c \in Clients : at'[c] \in {at[c], "gone"} /\ sent'[c] = sent[c]
      BY <1>5 DEF StopNode
    <2>2. \A c \in Clients : sent[c] \in 0..MaxSent /\ MaxSent \in Nat
      BY <1>1, HubAssumption DEF TypeOK
    <2>3. ASSUME NEW c \in Clients
          PROVE  Upcoming(c) <= Upcoming(c)'
      BY <2>1, <2>2 DEF Upcoming
    <2> QED
      BY <2>3 DEF UpcomingGrows
  <1> QED
    BY <1>3, <1>4, <1>5 DEF Next

(* Queues that only get shorter, and inboxes that only lose. *)
LEMMA OrderShrinks ==
    ASSUME OrderInv, TypeOK, TypeOK', UpcomingGrows, made <= made',
           \A s \in Subs : PartOf(sub'[s].queue, sub[s].queue),
           \A d \in Clients : inbox'[d] \subseteq inbox[d]
    PROVE  OrderInv'
  <1>1. \A s \in Subs : sub[s].queue \in Seq(Message) /\ sub'[s].queue \in Seq(Message)
    BY DEF TypeOK
  <1>2. \A s \in Subs : QueueInOrder(sub'[s].queue)
    BY <1>1, PartIsOrdered DEF OrderInv
  <1>3. \A m \in Message : m.from \in Clients /\ m.nr \in Nat
    BY HubAssumption DEF Message
  <1>4. \A c \in Clients : Upcoming(c) \in Nat /\ Upcoming(c)' \in Nat /\ Upcoming(c) <= Upcoming(c)'
    BY UpcomingBounds
  <1>5. ASSUME NEW c \in Clients, NEW s \in Subs, NEW i \in DOMAIN sub'[s].queue,
               sub'[s].queue[i].from = c
        PROVE  sub'[s].queue[i].nr < Upcoming(c)'
    <2>1. PICK j \in DOMAIN sub[s].queue : sub'[s].queue[i] = sub[s].queue[j]
      BY <1>1, PartIsOrdered
    <2>2. sub[s].queue[j].nr < Upcoming(c) /\ sub[s].queue[j].nr \in Nat
      BY <1>1, <1>3, <1>5, <2>1 DEF OrderInv
    <2> QED
      BY <1>4, <2>1, <2>2
  <1>6. ASSUME NEW s \in Subs, made' < s
        PROVE  sub'[s].queue = <<>>
    <2>1. made < s
      BY <1>6, Sizes DEF TypeOK
    <2> QED
      BY <1>1, <2>1, PartIsOrdered DEF OrderInv
  <1>7. ASSUME NEW d \in Clients, NEW e \in inbox'[d]
        PROVE  /\ \A c \in Clients : e[1].from = c => e[1].nr < Upcoming(c)'
               /\ e[2] <= made'
               /\ InboxBefore(e, sub'[e[2]].queue)
    <2>1. e \in inbox[d] /\ e[1] \in Message /\ e[2] \in Subs
      BY <1>7 DEF TypeOK
    <2>2. \A c \in Clients : e[1].from = c => e[1].nr < Upcoming(c)'
      BY <1>3, <1>4, <2>1 DEF OrderInv
    <2>3. e[2] <= made'
      BY <2>1, Sizes DEF OrderInv, TypeOK
    <2>4. InboxBefore(e, sub'[e[2]].queue)
      BY <1>1, <2>1, PartIsOrdered DEF OrderInv
    <2> QED
      BY <2>2, <2>3, <2>4
  <1> QED
    BY <1>2, <1>5, <1>6, <1>7 DEF OrderInv

(* A publish whose message is the sender's next. *)
LEMMA OrderAppends ==
    ASSUME OrderInv, TypeOK, TypeOK', SubsAreMade, UpcomingGrows, NEW m \in Message,
           Deliver(m), UNCHANGED <<made, inbox>>,
           Upcoming(m.from) <= m.nr, m.nr < Upcoming(m.from)'
    PROVE  OrderInv'
  <1>1. m.from \in Clients /\ m.nr \in Nat
    BY HubAssumption DEF Message
  <1>2. ASSUME NEW s \in Subs
        PROVE  /\ sub[s].queue \in Seq(Message) /\ sub'[s].queue \in Seq(Message)
               /\ sub'[s].queue = IF sub[s].open THEN Append(sub[s].queue, m) ELSE sub[s].queue
    <2>1. sub[s] \in Subscription /\ sub'[s] \in Subscription
      BY DEF TypeOK, Subscription
    <2>2. sub'[s] = IF sub[s].open THEN [sub[s] EXCEPT !.queue = Append(sub[s].queue, m)]
                    ELSE sub[s]
      BY DEF Deliver
    <2>3. sub[s].queue \in Seq(Message) /\ sub'[s].queue \in Seq(Message)
      BY <2>1 DEF Subscription
    <2>4. sub[s].open => sub'[s].queue = Append(sub[s].queue, m)
      BY <2>1, <2>2 DEF Subscription
    <2>5. ~sub[s].open => sub'[s].queue = sub[s].queue
      BY <2>2
    <2>6. sub'[s].queue = IF sub[s].open THEN Append(sub[s].queue, m) ELSE sub[s].queue
      BY <2>4, <2>5, Zenon
    <2> QED
      BY <2>3, <2>6
  <1>3. \A k \in Message : k.from \in Clients /\ k.nr \in Nat
    BY HubAssumption DEF Message
  <1>4. \A c \in Clients : Upcoming(c) \in Nat /\ Upcoming(c)' \in Nat /\ Upcoming(c) <= Upcoming(c)'
    BY UpcomingBounds
  <1>5. ASSUME NEW s \in Subs
        PROVE  /\ QueueInOrder(sub'[s].queue)
               /\ \A c \in Clients : \A i \in DOMAIN sub'[s].queue :
                     sub'[s].queue[i].from = c => sub'[s].queue[i].nr < Upcoming(c)'
    <2> DEFINE q == sub[s].queue
               p == sub'[s].queue
    <2>1. q \in Seq(Message) /\ p = IF sub[s].open THEN Append(q, m) ELSE q
      BY <1>2
    <2>2. \A i \in DOMAIN q : /\ q[i] \in Message /\ q[i].from \in Clients /\ q[i].nr \in Nat
                              /\ q[i].nr < Upcoming(q[i].from)
      BY <1>3, <2>1 DEF OrderInv
    <2>3. QueueInOrder(q)
      BY DEF OrderInv
    <2> HIDE DEF q, p
    <2>4. ASSUME ~sub[s].open
          PROVE  /\ QueueInOrder(p)
                 /\ \A c \in Clients : \A i \in DOMAIN p :
                       p[i].from = c => p[i].nr < Upcoming(c)'
      <3>1. p = q
        BY <2>1, <2>4
      <3> QED
        BY <1>4, <2>2, <2>3, <3>1
    <2>5. ASSUME sub[s].open
          PROVE  /\ QueueInOrder(p)
                 /\ \A c \in Clients : \A i \in DOMAIN p :
                       p[i].from = c => p[i].nr < Upcoming(c)'
      <3>1. /\ DOMAIN q = 1..Len(q) /\ Len(q) \in Nat
            /\ DOMAIN p = 1..Len(q) + 1 /\ p[Len(q) + 1] = m
            /\ \A i \in DOMAIN q : p[i] = q[i]
        BY <2>1, <2>5
      <3>2. ASSUME NEW i \in DOMAIN p, NEW j \in DOMAIN p, i < j, p[i].from = p[j].from
            PROVE  p[i].nr < p[j].nr
        <4>1. i \in DOMAIN q
          BY <3>1, <3>2
        <4>2. CASE j \in DOMAIN q
          BY <2>3, <3>1, <3>2, <4>1, <4>2 DEF QueueInOrder
        <4>3. CASE j \notin DOMAIN q
          <5>1. p[j] = m /\ p[i] = q[i]
            BY <3>1, <4>1, <4>3
          <5>2. q[i].nr < Upcoming(m.from) /\ q[i].nr \in Nat
            BY <2>2, <3>2, <4>1, <5>1
          <5> QED
            BY <1>1, <1>4, <5>1, <5>2
        <4> QED
          BY <4>2, <4>3
      <3>3. ASSUME NEW c \in Clients, NEW i \in DOMAIN p, p[i].from = c
            PROVE  p[i].nr < Upcoming(c)'
        <4>1. CASE i \in DOMAIN q
          <5>1. q[i].nr \in Nat /\ q[i].nr < Upcoming(c)
            BY <2>2, <3>1, <3>3, <4>1
          <5> QED
            BY <1>4, <3>1, <4>1, <5>1
        <4>2. CASE i \notin DOMAIN q
          <5>1. p[i] = m
            BY <3>1, <4>2
          <5> QED
            BY <3>3, <5>1
        <4> QED
          BY <4>1, <4>2
      <3> QED
        BY <3>2, <3>3 DEF QueueInOrder
    <2> QED
      BY <2>4, <2>5 DEF p
  <1>6. ASSUME NEW s \in Subs, made' < s
        PROVE  sub'[s].queue = <<>>
    <2>1. ~sub[s].open
      BY <1>6, Sizes DEF SubsAreMade, TypeOK
    <2> QED
      BY <1>2, <1>6, <2>1 DEF OrderInv
  <1>7. ASSUME NEW d \in Clients, NEW e \in inbox'[d]
        PROVE  /\ \A c \in Clients : e[1].from = c => e[1].nr < Upcoming(c)'
               /\ e[2] <= made'
               /\ InboxBefore(e, sub'[e[2]].queue)
    <2>1. e \in inbox[d] /\ e[1] \in Message /\ e[2] \in Subs
      BY <1>7 DEF TypeOK
    <2>2. /\ e[1].from \in Clients /\ e[1].nr \in Nat /\ e[1].nr < Upcoming(e[1].from)
          /\ e[2] <= made /\ InboxBefore(e, sub[e[2]].queue)
      BY <1>3, <2>1 DEF OrderInv
    <2>3. \A c \in Clients : e[1].from = c => e[1].nr < Upcoming(c)'
      <3> TAKE c \in Clients
      <3>1. e[1].from = c => e[1].nr < Upcoming(c)
        BY <2>1 DEF OrderInv
      <3> QED
        BY <1>4, <2>2, <3>1
    <2>4. InboxBefore(e, sub'[e[2]].queue)
      <3> DEFINE q == sub[e[2]].queue
                 p == sub'[e[2]].queue
      <3>1. q \in Seq(Message) /\ (p = q \/ p = Append(q, m))
        BY <1>2, <2>1
      <3>2. InboxBefore(e, q)
        BY <2>2
      <3> HIDE DEF q, p
      <3>3. CASE p = Append(q, m)
        <4> SUFFICES ASSUME NEW i \in DOMAIN p, p[i].from = e[1].from
                     PROVE  e[1].nr < p[i].nr
          BY DEF InboxBefore, p
        <4>1. CASE i \in DOMAIN q
          BY <3>1, <3>2, <3>3, <4>1 DEF InboxBefore
        <4>2. CASE i \notin DOMAIN q
          <5>1. p[i] = m
            BY <3>1, <3>3, <4>2
          <5>2. Upcoming(e[1].from) <= m.nr
            BY <5>1
          <5> QED
            BY <1>1, <1>4, <2>2, <5>1, <5>2
        <4> QED
          BY <4>1, <4>2
      <3> QED
        BY <3>1, <3>2, <3>3 DEF p
    <2> QED
      BY <2>2, <2>3, <2>4
  <1> QED
    BY <1>5, <1>6, <1>7 DEF OrderInv

LEMMA OrderByPublishing ==
    ASSUME IInv, IInv', OrderInv, UpcomingGrows, NEW c \in Clients,
           PublishArrival(c) \/ PublishDeparture(c) \/ PublishEnvelope(c)
    PROVE  OrderInv'
  <1>1. TypeOK /\ TypeOK' /\ SubsAreMade
    BY DEF IInv
  <1>2. UNCHANGED <<made, inbox, sent>>
    BY DEF PublishArrival, PublishDeparture, PublishEnvelope
  <1>3. sent[c] \in 0..MaxSent /\ MaxSent \in Nat
    BY <1>1, HubAssumption DEF TypeOK
  <1>4. PICK m \in Message :
          /\ Deliver(m) \/ UNCHANGED <<sub, owed>>
          /\ m.from = c /\ Upcoming(c) <= m.nr /\ m.nr < Upcoming(c)'
    <2>1. CASE PublishArrival(c)
      <3>1. at[c] = "announcing" /\ at'[c] = "acking"
        BY <1>1, <2>1, GotoTypes DEF PublishArrival, Positions, InRoom
      <3>2. Upcoming(c) = 0 /\ Upcoming(c)' = sent[c] + 1 /\ Joined(c).nr = 0 /\ Joined(c).from = c
        BY <1>2, <3>1 DEF Upcoming, Joined
      <3>3. Deliver(Joined(c)) \/ UNCHANGED <<sub, owed>>
        BY <2>1 DEF PublishArrival, Publish, PublishFails
      <3> QED
        BY <1>1, <1>3, <3>2, <3>3, MessageTypes
    <2>2. CASE PublishEnvelope(c)
      <3>1. at[c] = "publishing" /\ at'[c] = "reading"
        BY <1>1, <2>2, GotoTypes DEF PublishEnvelope, Positions, InRoom
      <3>2. /\ Upcoming(c) = sent[c] /\ Upcoming(c)' = sent[c] + 1
            /\ Sent(c).nr = sent[c] /\ Sent(c).from = c
        BY <1>2, <3>1 DEF Upcoming, Sent
      <3>3. Deliver(Sent(c)) \/ UNCHANGED <<sub, owed>>
        BY <2>2 DEF PublishEnvelope, Publish, PublishFails
      <3> QED
        BY <1>1, <1>3, <3>2, <3>3, MessageTypes
    <2>3. CASE PublishDeparture(c)
      <3>1. at[c] = "departing" /\ at'[c] = "closing"
        BY <1>1, <2>3, GotoTypes DEF PublishDeparture, Positions, InRoom
      <3>2. /\ Upcoming(c) = sent[c] + 1 /\ Upcoming(c)' = MaxSent + 2
            /\ Left(c).nr = MaxSent + 1 /\ Left(c).from = c
        BY <1>2, <3>1 DEF Upcoming, Left
      <3>3. Deliver(Left(c)) \/ UNCHANGED <<sub, owed>>
        BY <2>3 DEF PublishDeparture, Publish, PublishFails
      <3> QED
        BY <1>1, <1>3, <3>2, <3>3, MessageTypes
    <2> QED
      BY <2>1, <2>2, <2>3
  <1>5. CASE Deliver(m)
    BY <1>1, <1>2, <1>4, <1>5, OrderAppends
  <1>6. CASE UNCHANGED <<sub, owed>>
    <2>1. \A s \in Subs : PartOf(sub'[s].queue, sub[s].queue)
      BY <1>1, <1>6, PartsOfQueues DEF TypeOK
    <2>2. made <= made'
      BY <1>1, <1>2, Sizes DEF TypeOK
    <2> QED
      BY <1>1, <1>2, <2>1, <2>2, OrderShrinks
  <1> QED
    BY <1>4, <1>5, <1>6

(* What a consumer takes is newer than all that its clients had of it. *)
LEMMA ConsumedIsNew ==
    ASSUME IInv, OrderInv, NEW s \in Subs, ConsumeRoom(s)
    PROVE  /\ sub[s].queue \in Seq(Message) /\ sub[s].queue # <<>>
           /\ Head(sub[s].queue) \in Message /\ 1 \in DOMAIN sub[s].queue
           /\ Head(sub[s].queue) = sub[s].queue[1]
           /\ sub'[s].queue = Tail(sub[s].queue)
           /\ \A t \in Subs : t # s => sub'[t] = sub[t]
           /\ s <= made
           /\ \A d \in Clients : inbox'[d] \subseteq inbox[d] \cup {<<Head(sub[s].queue), s>>}
  <1>1. TypeOK /\ sub \in [Subs -> Subscription] /\ sub[s] \in Subscription
    BY DEF IInv, TypeOK, Subscription
  <1>2. sub[s].queue \in Seq(Message) /\ sub[s].queue # <<>>
    BY <1>1 DEF ConsumeRoom, Subscription
  <1>3. Head(sub[s].queue) \in Message /\ Head(sub[s].queue) = sub[s].queue[1]
        /\ 1 \in DOMAIN sub[s].queue
    BY <1>2
  <1>4. sub'[s].queue = Tail(sub[s].queue) /\ \A t \in Subs : t # s => sub'[t] = sub[t]
    BY <1>1 DEF ConsumeRoom, Subscription
  <1>5. s <= made
    BY <1>1, <1>2, Sizes DEF OrderInv, TypeOK
  <1>6. \A d \in Clients : inbox'[d] \subseteq inbox[d] \cup {<<Head(sub[s].queue), s>>}
    BY DEF ConsumeRoom, Consume, historyVars
  <1> QED
    BY <1>2, <1>3, <1>4, <1>5, <1>6

LEMMA OrderByConsuming ==
    ASSUME IInv, IInv', OrderInv, UpcomingGrows, NEW s \in Subs, ConsumeRoom(s)
    PROVE  OrderInv'
  <1> DEFINE q == sub[s].queue
             m == Head(q)
  <1>1. TypeOK /\ TypeOK'
    BY DEF IInv
  <1>2. /\ q \in Seq(Message) /\ q # <<>> /\ m \in Message /\ 1 \in DOMAIN q /\ m = q[1]
        /\ sub'[s].queue = Tail(q)
        /\ \A t \in Subs : t # s => sub'[t] = sub[t]
        /\ s <= made
        /\ \A d \in Clients : inbox'[d] \subseteq inbox[d] \cup {<<m, s>>}
    BY ConsumedIsNew
  <1>3. UNCHANGED <<made, at, sent>>
    BY DEF ConsumeRoom, Consume
  <1>4. \A c \in Clients : Upcoming(c)' = Upcoming(c)
    BY <1>3 DEF Upcoming
  <1>5. \A t \in Subs : /\ sub[t].queue \in Seq(Message) /\ sub'[t].queue \in Seq(Message)
                        /\ PartOf(sub'[t].queue, sub[t].queue)
    BY <1>1, <1>2, PartsOfQueues DEF TypeOK
  <1>6. \A t \in Subs : QueueInOrder(sub'[t].queue)
    BY <1>5, PartIsOrdered DEF OrderInv
  <1>7. \A c \in Clients : \A t \in Subs : \A i \in DOMAIN sub'[t].queue :
           sub'[t].queue[i].from = c => sub'[t].queue[i].nr < Upcoming(c)'
    <2> TAKE c \in Clients
    <2> TAKE t \in Subs
    <2> TAKE i \in DOMAIN sub'[t].queue
    <2>1. PICK j \in DOMAIN sub[t].queue : sub'[t].queue[i] = sub[t].queue[j]
      BY <1>5, PartIsOrdered
    <2> QED
      BY <1>4, <2>1 DEF OrderInv
  <1>8. \A t \in Subs : made' < t => sub'[t].queue = <<>>
    BY <1>3, <1>5, PartIsOrdered DEF OrderInv
  <1>9. ASSUME NEW d \in Clients, NEW e \in inbox'[d]
        PROVE  /\ \A c \in Clients : e[1].from = c => e[1].nr < Upcoming(c)'
               /\ e[2] <= made'
               /\ InboxBefore(e, sub'[e[2]].queue)
    <2>1. CASE e \in inbox[d]
      <3>1. e[2] \in Subs
        BY <1>1, <2>1 DEF TypeOK
      <3> QED
        BY <1>3, <1>4, <1>5, <2>1, <3>1, PartIsOrdered DEF OrderInv
    <2>2. CASE e = <<m, s>>
      <3>1. e[1] = m /\ e[2] = s
        BY <2>2
      <3>2. \A c \in Clients : m.from = c => m.nr < Upcoming(c)
        BY <1>2 DEF OrderInv
      <3>3. InboxBefore(e, Tail(q))
        <4> SUFFICES ASSUME NEW i \in DOMAIN Tail(q), Tail(q)[i].from = m.from
                     PROVE  m.nr < Tail(q)[i].nr
          BY <3>1 DEF InboxBefore
        <4>1. i + 1 \in DOMAIN q /\ 1 < i + 1 /\ Tail(q)[i] = q[i + 1]
          BY <1>2
        <4>2. QueueInOrder(q)
          BY DEF OrderInv
        <4> QED
          BY <1>2, <4>1, <4>2 DEF QueueInOrder
      <3> QED
        BY <1>2, <1>3, <1>4, <3>1, <3>2, <3>3
    <2> QED
      BY <1>2, <1>9, <2>1, <2>2
  <1> QED
    BY <1>6, <1>7, <1>8, <1>9 DEF OrderInv

LEMMA OrderStep == IInv /\ OrderInv /\ [Next]_vars => OrderInv'
  <1> SUFFICES ASSUME IInv, OrderInv, [Next]_vars PROVE OrderInv'
    OBVIOUS
  <1>1. IInv' /\ TypeOK /\ TypeOK'
    BY StepInvariant DEF IInv
  <1>2. UpcomingGrows
    <2>1. CASE Next
      BY <2>1, UpcomingMoves
    <2>2. CASE UNCHANGED vars
      <3>1. \A c \in Clients : Upcoming(c)' = Upcoming(c)
        BY <2>2 DEF vars, Upcoming
      <3> QED
        BY <1>1, <3>1, UpcomingTypes DEF UpcomingGrows
    <2> QED
      BY <2>1, <2>2
  <1>3. ASSUME made <= made', \A d \in Clients : inbox'[d] \subseteq inbox[d],
               \A s \in Subs : PartOf(sub'[s].queue, sub[s].queue)
        PROVE  OrderInv'
    BY <1>1, <1>2, <1>3, OrderShrinks
  <1>4. made \in Nat /\ made <= made
    BY <1>1, Sizes DEF TypeOK
  <1>5. ASSUME UNCHANGED <<made, sub>>, \A d \in Clients : inbox'[d] \subseteq inbox[d]
        PROVE  OrderInv'
    <2>1. \A s \in Subs : PartOf(sub'[s].queue, sub[s].queue)
      BY <1>1, <1>5, PartsOfQueues DEF TypeOK
    <2> QED
      BY <1>3, <1>4, <1>5, <2>1
  <1>6. ASSUME NEW c \in Clients,
               \/ AnnounceArrival(c) \/ AnnounceDeparture(c) \/ HandleClientEnvelope(c)
               \/ Acknowledge(c) \/ RejectMessage(c) \/ WriteMessage(c) \/ WriteFails(c)
               \/ RegisterFails(c)
        PROVE  OrderInv'
    <2>1. UNCHANGED <<made, sub, inbox>>
      BY <1>6 DEF AnnounceArrival, AnnounceDeparture, HandleClientEnvelope, Acknowledge,
         RejectMessage, WriteMessage, WriteFails, RegisterFails, hubVars, historyVars
    <2> QED
      BY <1>5, <2>1
  <1>7. ASSUME NEW c \in Clients, Unregister(c)
        PROVE  OrderInv'
    <2>1. UNCHANGED <<made, sub>> /\ \A d \in Clients : inbox'[d] \subseteq inbox[d]
      BY <1>1, <1>7 DEF Unregister, Forget, TypeOK
    <2> QED
      BY <1>5, <2>1
  <1>8. ASSUME NEW c \in Clients, Register(c)
        PROVE  OrderInv'
    <2>1. made <= made' /\ UNCHANGED inbox
      BY <1>4, <1>8 DEF Register, historyVars
    <2>2. ASSUME NEW s \in Subs
          PROVE  PartOf(sub'[s].queue, sub[s].queue)
      <3>1. sub'[s] = sub[s] \/ sub'[s].queue = <<>>
        BY <1>1, <1>8 DEF Register, TypeOK
      <3> QED
        BY <1>1, <3>1, PartsOfQueues DEF TypeOK
    <2> QED
      BY <1>3, <2>1, <2>2
  <1>9. ASSUME NEW c \in Clients, CloseClient(c)
        PROVE  OrderInv'
    <2>1. UNCHANGED <<made, inbox>>
      BY <1>9 DEF CloseClient, historyVars
    <2>2. ASSUME NEW s \in Subs
          PROVE  PartOf(sub'[s].queue, sub[s].queue)
      <3>1. sub[s].queue \in Seq(Message)
        BY <1>1 DEF TypeOK
      <3>2. sub'[s] = sub[s] \/ \E k \in 0..Len(sub[s].queue) :
                                   sub'[s].queue = SubSeq(sub[s].queue, 1, k)
        <4>1. CASE closing[c] = None
          BY <1>9, <4>1 DEF CloseClient
        <4>2. CASE closing[c] # None
          <5> DEFINE t == closing[c]
          <5>1. t \in Subs /\ sub' \in Closed(t)
            BY <1>1, <1>9, <4>2 DEF CloseClient, TypeOK
          <5>2. PICK k \in 0..Len(sub[t].queue) :
                  sub' = [sub EXCEPT ![t] = [node  |-> sub[t].node,
                                             open  |-> FALSE,
                                             queue |-> SubSeq(sub[t].queue, 1, k)]]
            BY <5>1 DEF Closed
          <5>3. DOMAIN sub = Subs
            BY <1>1 DEF TypeOK
          <5> HIDE DEF t
          <5> QED
            BY <5>1, <5>2, <5>3
        <4> QED
          BY <4>1, <4>2
      <3> QED
        BY <3>1, <3>2, PartsOfQueues
    <2> QED
      BY <1>3, <1>4, <2>1, <2>2
  <1>10. ASSUME NEW n \in Nodes, StopNode(n)
         PROVE  OrderInv'
    <2>1. UNCHANGED <<made, inbox>>
      BY <1>10 DEF StopNode, historyVars
    <2>2. ASSUME NEW s \in Subs
          PROVE  PartOf(sub'[s].queue, sub[s].queue)
      <3>1. sub[s].queue \in Seq(Message)
        BY <1>1 DEF TypeOK
      <3>2. sub'[s] = sub[s] \/ sub'[s].queue = <<>>
        BY <1>10 DEF StopNode
      <3> QED
        BY <3>1, <3>2, PartsOfQueues
    <2> QED
      BY <1>3, <1>4, <2>1, <2>2
  <1>11. ASSUME NEW c \in Clients, Handle(c)
         PROVE  OrderInv'
    BY <1>1, <1>2, <1>6, <1>9, <1>11, OrderByPublishing DEF Handle
  <1>12. ASSUME NEW c \in Clients, Disturb(c)
         PROVE  OrderInv'
    BY <1>6, <1>7, <1>8, <1>12 DEF Disturb
  <1>13. ASSUME NEW s \in Subs, ConsumeRoom(s)
         PROVE  OrderInv'
    BY <1>1, <1>2, <1>13, OrderByConsuming
  <1>14. CASE UNCHANGED vars
    BY <1>5, <1>14 DEF vars, hubVars, historyVars
  <1> QED
    BY <1>10, <1>11, <1>12, <1>13, <1>14 DEF Next

LEMMA InitOrder == Init => OrderInv
  BY DEF Init, OrderInv, NoSub, QueueInOrder

(* Whatever rooms and subscriptions come and go, a client that gets two    *)
(* messages of one sender by one subscription gets them in the order in    *)
(* which they were sent.                                                   *)
THEOREM SendersStayInOrder == Spec => SenderOrderIsKept
  <1> DEFINE InOrder ==
        \A d \in Clients : \A new \in inbox'[d] \ inbox[d] : \A old \in inbox[d] :
          old[1].from = new[1].from /\ old[2] = new[2] => old[1].nr < new[1].nr
  <1>1. IInv /\ OrderInv /\ [Next]_vars => [InOrder]_inbox
    <2> SUFFICES ASSUME IInv, OrderInv, [Next]_vars, inbox' # inbox,
                        NEW d \in Clients, NEW new \in inbox'[d] \ inbox[d],
                        NEW old \in inbox[d],
                        old[1].from = new[1].from, old[2] = new[2]
                 PROVE  old[1].nr < new[1].nr
      OBVIOUS
    <2>1. TypeOK
      BY DEF IInv
    <2>2. PICK s \in Subs : ConsumeRoom(s)
      <3>1. ~UNCHANGED vars
        BY DEF vars, historyVars
      <3>2. ASSUME NEW c \in Clients, Handle(c) \/ Disturb(c)
            PROVE  FALSE
        <4>1. inbox' = inbox \/ Unregister(c)
          BY <3>2 DEF Handle, Disturb, AnnounceArrival, PublishArrival,
           Acknowledge, PublishEnvelope, AnnounceDeparture, PublishDeparture, CloseClient,
           Register, RegisterFails, HandleClientEnvelope, RejectMessage, WriteMessage, WriteFails,
           historyVars
        <4>2. inbox' = [inbox EXCEPT ![c] = {}]
          BY <4>1 DEF Unregister, Forget
        <4> QED
          BY <2>1, <4>2 DEF TypeOK
      <3>3. ASSUME NEW n \in Nodes, StopNode(n)
            PROVE  FALSE
        BY <3>3 DEF StopNode, historyVars
      <3> QED
        BY <3>1, <3>2, <3>3 DEF Next
    <2>3. new = <<Head(sub[s].queue), s>>
      BY <2>2, ConsumedIsNew
    <2>4. 1 \in DOMAIN sub[s].queue /\ new[1] = sub[s].queue[1] /\ new[2] = s
      BY <2>2, <2>3, ConsumedIsNew
    <2>5. InboxBefore(old, sub[s].queue)
      BY <2>4 DEF OrderInv
    <2> QED
      BY <2>4, <2>5 DEF InboxBefore
  <1> QED
    BY <1>1, Invariant, InitOrder, OrderStep, PTL DEF Spec, SenderOrderIsKept
===============================================================================
