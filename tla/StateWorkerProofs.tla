--------------------------- MODULE StateWorkerProofs ---------------------------
(***************************************************************************)
(* Theorems about StateWorker, for every set of browsers and every bound.  *)
(* The inductive invariant is IInv; "Owed" turns the two queues of the     *)
(* Redis connection into a set, and the lemmas on it are all the proofs    *)
(* need to know about sequences.                                           *)
(***************************************************************************)
EXTENDS StateWorker, FiniteSetTheorems, TLAPS

LEMMA EmptySequence ==
    ASSUME NEW S PROVE <<>> \in Seq(S)
  OBVIOUS

LEMMA ItemsAppend ==
    ASSUME NEW S, NEW s \in Seq(S), NEW x \in S
    PROVE  Append(s, x) \in Seq(S) /\ Items(Append(s, x)) = Items(s) \cup {x}
  <1>1. Append(s, x) \in Seq(S) /\ Len(Append(s, x)) = Len(s) + 1
    OBVIOUS
  <1>2. /\ DOMAIN s = 1..Len(s)
        /\ DOMAIN Append(s, x) = 1..(Len(s) + 1)
        /\ Append(s, x)[Len(s) + 1] = x
        /\ \A i \in 1..Len(s) : Append(s, x)[i] = s[i]
        /\ Len(s) \in Nat
    OBVIOUS
  <1> QED
    BY <1>1, <1>2 DEF Items

LEMMA ItemsTail ==
    ASSUME NEW S, NEW s \in Seq(S), s # <<>>
    PROVE  /\ Head(s) \in S
           /\ Tail(s) \in Seq(S)
           /\ Items(s) = {Head(s)} \cup Items(Tail(s))
  <1>1. /\ Len(s) \in Nat /\ Len(s) > 0
        /\ Head(s) = s[1] /\ s[1] \in S
        /\ Tail(s) \in Seq(S)
        /\ DOMAIN s = 1..Len(s)
        /\ DOMAIN Tail(s) = 1..(Len(s) - 1)
        /\ \A i \in 1..(Len(s) - 1) : Tail(s)[i] = s[i + 1]
    OBVIOUS
  <1>2. ASSUME NEW i \in 1..Len(s)
        PROVE  s[i] \in {Head(s)} \cup Items(Tail(s))
    <2>1. CASE i = 1
      BY <1>1, <2>1
    <2>2. CASE i # 1
      <3>1. i - 1 \in 1..(Len(s) - 1) /\ s[i] = Tail(s)[i - 1]
        BY <1>1, <2>2
      <3> QED
        BY <1>1, <3>1 DEF Items
    <2> QED
      BY <2>1, <2>2
  <1>3. ASSUME NEW i \in 1..(Len(s) - 1)
        PROVE  Tail(s)[i] \in Items(s)
    <2>1. i + 1 \in 1..Len(s) /\ Tail(s)[i] = s[i + 1]
      BY <1>1
    <2> QED
      BY <1>1, <2>1 DEF Items
  <1>4. Items(s) \subseteq {Head(s)} \cup Items(Tail(s))
    BY <1>1, <1>2 DEF Items
  <1>5. Head(s) \in Items(s)
    BY <1>1 DEF Items
  <1>6. Items(Tail(s)) \subseteq Items(s)
    BY <1>1, <1>3 DEF Items
  <1> QED
    BY <1>1, <1>4, <1>5, <1>6

(* A reply is told from a message by its type. *)
LEMMA ItemKinds ==
    ASSUME NEW x \in Command \cup Message
    PROVE  /\ x \in Command <=> x.type \in {"subscribe", "unsubscribe"}
           /\ x \in Message <=> x \notin Command
  BY DEF Command, Message

LEMMA CommandsAreCommands ==
    ASSUME NEW r \in Runtimes
    PROVE  /\ Subscribe(r) \in Command /\ Unsubscribe(r) \in Command
           /\ Subscribe(r).runtime = r /\ Unsubscribe(r).runtime = r
           /\ \A q \in Runtimes : Subscribe(q) = Subscribe(r) => q = r
           /\ \A q : Subscribe(q) # Unsubscribe(r)
  BY DEF Subscribe, Unsubscribe, Command

RedisOK ==
    /\ subscribed \in BOOLEAN
    /\ cmds \in Seq(Command)
    /\ conn \in Seq(Command \cup Message)

LEMMA OwedWhenPublished ==
    ASSUME RedisOK, NEW m \in Message, Publish(m), UNCHANGED <<subscribed, cmds>>
    PROVE  RedisOK' /\ Owed' = Owed
  <1>1. CASE subscribed
    <2>1. conn' = Append(conn, m)
      BY <1>1 DEF Publish
    <2>2. conn' \in Seq(Command \cup Message) /\ Items(conn') = Items(conn) \cup {m}
      BY <2>1, ItemsAppend DEF RedisOK
    <2>3. m \notin Command
      BY ItemKinds
    <2> QED
      BY <2>2, <2>3 DEF RedisOK, Owed, Items
  <1>2. CASE ~subscribed
    BY <1>2 DEF Publish, RedisOK, Owed, Items
  <1> QED
    BY <1>1, <1>2

LEMMA OwedWhenAsked ==
    ASSUME RedisOK, NEW x \in Command, cmds' = Append(cmds, x),
           UNCHANGED <<subscribed, conn>>
    PROVE  RedisOK' /\ Owed' = Owed \cup {x}
  <1>1. cmds' \in Seq(Command) /\ Items(cmds') = Items(cmds) \cup {x}
    BY ItemsAppend DEF RedisOK
  <1> QED
    BY <1>1 DEF RedisOK, Owed, Items

LEMMA OwedWhenServed ==
    ASSUME RedisOK, ServeCommand
    PROVE  RedisOK' /\ Owed' = Owed
  <1>1. /\ Head(cmds) \in Command /\ cmds' \in Seq(Command)
        /\ Items(cmds) = {Head(cmds)} \cup Items(cmds')
    BY ItemsTail DEF ServeCommand, RedisOK
  <1>2. /\ conn' \in Seq(Command \cup Message)
        /\ Items(conn') = Items(conn) \cup {Head(cmds)}
    BY <1>1, ItemsAppend DEF ServeCommand, RedisOK
  <1> QED
    BY <1>1, <1>2 DEF ServeCommand, RedisOK, Owed, Items

LEMMA OwedWhenHeard ==
    ASSUME RedisOK, conn # <<>>, conn' = Tail(conn), UNCHANGED <<subscribed, cmds>>
    PROVE  /\ RedisOK'
           /\ Head(conn) \in Message => Owed' = Owed
           /\ Head(conn) \in Command => Owed = Owed' \cup {Head(conn)}
           /\ Head(conn) \in Command \cup Message
  <1>1. /\ Head(conn) \in Command \cup Message
        /\ conn' \in Seq(Command \cup Message)
        /\ Items(conn) = {Head(conn)} \cup Items(conn')
    BY ItemsTail DEF RedisOK
  <1> QED
    BY <1>1, ItemKinds DEF RedisOK, Owed, Items

-------------------------------------------------------------------------------
(* TypeOK, by who owns the variables. *)

ManagerOK ==
    /\ made \in 0..MaxRuntimes
    /\ map \in 0..made
    /\ rt \in [Runtimes -> Runtime]
    /\ \A r \in Runtimes : r > made => ~Shut(r)
    /\ listed \in BOOLEAN
    /\ init \in [Clients -> InitRequest]
    /\ checks \in Seq(Runtimes)

SavesOK ==
    /\ wire \in [Runtimes -> {{}} \cup {{content} : content \in SUBSET Editors}]
    /\ db \in [content : SUBSET Editors, locked : BOOLEAN]

UserOK ==
    /\ visits \in 0..MaxVisits
    /\ phase \in [Clients -> {"out", "toInit", "toJoin", "initializing", "awaiting",
                              "syncing", "active", "error"}]
    /\ base \in [Clients -> 0..MaxRuntimes]
    /\ \A c \in Clients : phase[c] = "active" => base[c] # None
    /\ edited \subseteq Editors

LEMMA TypeParts == TypeOK <=> ManagerOK /\ RedisOK /\ SavesOK /\ UserOK
  BY DEF TypeOK, ManagerOK, RedisOK, SavesOK, UserOK

LEMMA TypePartsNext == TypeOK' <=> ManagerOK' /\ RedisOK' /\ SavesOK' /\ UserOK'
  BY DEF TypeOK, ManagerOK, RedisOK, SavesOK, UserOK, Shut

(* A step that leaves the manager and what Redis owes it alone. *)
LEMMA FrameInv ==
    ASSUME IInv, UNCHANGED managerVars, Owed' = Owed, RedisOK', SavesOK', UserOK'
    PROVE  IInv'
  <1> USE DEF managerVars
  <1>1. ManagerOK'
    BY TypeParts DEF IInv, ManagerOK, Shut
  <1>2. RuntimesSuffice' /\ OwedAreMade'
    BY DEF IInv, RuntimesSuffice, OwedAreMade, Outstanding
  <1>3. SessionIsWatched'
    BY DEF IInv, SessionIsWatched, Shut
  <1> QED
    BY <1>1, <1>2, <1>3, TypePartsNext DEF IInv

LEMMA QuietRedis ==
    ASSUME RedisOK, UNCHANGED redisVars
    PROVE  RedisOK' /\ Owed' = Owed
  BY DEF redisVars, RedisOK, Owed, Items

LEMMA InitInv == Init => IInv
  <1> SUFFICES ASSUME Init PROVE IInv
    OBVIOUS
  <1>1. FreshRuntime({}) \in Runtime /\ FreshRuntime({}).final = "no"
    BY DEF FreshRuntime, Runtime
  <1>2. NoRequest \in InitRequest /\ NoRequest.at = "none"
    BY WorkerAssumption DEF NoRequest, InitRequest, None
  <1>3. TypeOK
    <2>1. ManagerOK
      <3>1. made = 0 /\ map = 0 /\ listed \in BOOLEAN
        BY DEF Init, None
      <3>2. rt \in [Runtimes -> Runtime] /\ \A r \in Runtimes : ~Shut(r)
        BY <1>1 DEF Init, Shut
      <3>3. init \in [Clients -> InitRequest] /\ checks \in Seq(Runtimes)
        BY <1>2, EmptySequence DEF Init
      <3> QED
        BY <3>1, <3>2, <3>3, WorkerAssumption DEF ManagerOK
    <2>2. RedisOK
      BY EmptySequence DEF Init, RedisOK
    <2>3. SavesOK
      BY DEF Init, SavesOK
    <2>4. UserOK
      BY WorkerAssumption DEF Init, UserOK, None
    <2> QED
      BY <2>1, <2>2, <2>3, <2>4, TypeParts
  <1>4. Owed = {}
    BY DEF Init, Owed, Items
  <1>5. Outstanding = {}
    BY <1>2 DEF Init, Outstanding
  <1>6. RuntimesSuffice
    BY <1>5, FS_EmptySet, WorkerAssumption DEF RuntimesSuffice, Init
  <1> QED
    BY <1>3, <1>4, <1>6 DEF IInv, OwedAreMade, SessionIsWatched, Init

(* Requests that will make a runtime come and go one by one. *)
LEMMA OutstandingFinite ==
    IsFiniteSet(Outstanding) /\ Cardinality(Outstanding) \in Nat
  BY FS_Subset, FS_CardinalityType, WorkerAssumption DEF Outstanding

LEMMA BrowserInv ==
    ASSUME IInv, NEW c \in Clients, Browser(c)
    PROVE  IInv'
  <1> USE TypeParts DEF IInv
  <1>1. CASE Enter(c)
    <2>1. UserOK'
      <3>1. visits' \in 0..MaxVisits
        BY <1>1, WorkerAssumption DEF Enter, UserOK
      <3> QED
        BY <1>1, <3>1 DEF Enter, UserOK
    <2>2. SavesOK' /\ RedisOK' /\ Owed' = Owed
      BY <1>1, QuietRedis DEF Enter, SavesOK
    <2> QED
      BY <1>1, <2>1, <2>2, FrameInv DEF Enter
  <1>2. CASE Connect(c)
    <2>1. [type |-> "joined"] \in Message
      BY DEF Message
    <2>2. RedisOK' /\ Owed' = Owed
      BY <1>2, <2>1, OwedWhenPublished DEF Connect
    <2> QED
      BY <1>2, <2>2, FrameInv DEF Connect, SavesOK, UserOK
  <1>3. CASE RequestInit(c)
    <2>1. /\ RedisOK' /\ SavesOK' /\ UserOK' /\ Owed' = Owed
          /\ c \notin Outstanding
      BY <1>3, QuietRedis DEF RequestInit, SavesOK, UserOK, Outstanding, NoRequest
    <2>2. init' \in [Clients -> InitRequest] /\ init'[c].at = "sent"
      BY <1>3, WorkerAssumption DEF RequestInit, ManagerOK, InitRequest, SavesOK, None
    <2>3. Outstanding' = Outstanding \cup {c}
      BY <1>3, <2>2 DEF RequestInit, Outstanding, ManagerOK
    <2>4. RuntimesSuffice'
      <3>1. Cardinality(Outstanding') = Cardinality(Outstanding) + 1
        BY <2>1, <2>3, OutstandingFinite, FS_AddElement
      <3>2. made' = made /\ made + Cardinality(Outstanding) < MaxRuntimes /\ made \in Nat
        BY <1>3 DEF RequestInit, ManagerOK
      <3> QED
        BY <3>1, <3>2, OutstandingFinite, WorkerAssumption DEF RuntimesSuffice
    <2>5. ManagerOK'
      BY <1>3, <2>2 DEF RequestInit, ManagerOK, Shut
    <2>6. OwedAreMade' /\ SessionIsWatched'
      BY <1>3, <2>1 DEF RequestInit, OwedAreMade, SessionIsWatched, Shut
    <2> QED
      BY <2>1, <2>4, <2>5, <2>6, TypePartsNext
  <1>4. CASE Sync(c)
    <2>1. UserOK'
      BY <1>4, WorkerAssumption DEF Sync, UserOK, ManagerOK, None
    <2> QED
      BY <1>4, <2>1, FrameInv, QuietRedis DEF Sync, SavesOK
  <1>5. CASE Edit(c)
    <2>1. [type |-> "change", edit |-> c, base |-> base[c]] \in Message
      BY <1>5, WorkerAssumption DEF Edit, Message, UserOK, Runtimes, None
    <2>2. RedisOK' /\ Owed' = Owed
      BY <1>5, <2>1, OwedWhenPublished DEF Edit
    <2> QED
      BY <1>5, <2>2, FrameInv DEF Edit, SavesOK, UserOK
  <1>6. CASE Leave(c)
    <2>1. [type |-> "left"] \in Message
      BY DEF Message
    <2>2. RedisOK' /\ Owed' = Owed
      BY <1>6, <2>1, OwedWhenPublished DEF Leave
    <2>3. UserOK'
      BY <1>6, WorkerAssumption DEF Leave, UserOK, None
    <2> QED
      BY <1>6, <2>2, <2>3, FrameInv DEF Leave, SavesOK
  <1> QED
    BY <1>1, <1>2, <1>3, <1>4, <1>5, <1>6 DEF Browser

-------------------------------------------------------------------------------
(* The steps of the manager. *)

(* Of two records of the same set with one field changed. *)
LEMMA FinalFields ==
    ASSUME NEW r \in Runtimes, NEW runtimes \in [Runtimes -> Runtime]
    PROVE  /\ [runtimes EXCEPT ![r].final = "settled", ![r].last = {}] \in [Runtimes -> Runtime]
           /\ [runtimes EXCEPT ![r].final = "applied", ![r].last = {}] \in [Runtimes -> Runtime]
           /\ [runtimes EXCEPT ![r].timer = FALSE, ![r].final = "sent",
                               ![r].last = runtimes[r].content] \in [Runtimes -> Runtime]
           /\ [runtimes EXCEPT ![r].timer = TRUE] \in [Runtimes -> Runtime]
  BY DEF Runtime

(* A runtime takes the place of whatever the map named. *)
LEMMA InstallInv ==
    ASSUME IInv, NEW c \in Outstanding, NEW runtimes \in [Runtimes -> Runtime],
           \A r \in Runtimes : r > made => runtimes[r].final = "no",
           Install(c, runtimes),
           UNCHANGED <<listed, checks, subscribed, conn, wire, db, userVars>>
    PROVE  IInv'
  <1> USE TypeParts DEF IInv
  <1> DEFINE q == made + 1
  <1>0. c \in Clients /\ init[c].content \in SUBSET Editors
    BY DEF Outstanding, ManagerOK, InitRequest
  <1>1. /\ Outstanding' = Outstanding \ {c}
        /\ init' \in [Clients -> InitRequest]
    <2>1. q \in 0..MaxRuntimes => init' \in [Clients -> InitRequest]
      BY <1>0 DEF Install, ManagerOK, InitRequest
    <2>2. Cardinality(Outstanding) >= 1
      <3>1. Cardinality(Outstanding) # 0
        BY OutstandingFinite, FS_EmptySet
      <3> QED
        BY <3>1, OutstandingFinite
    <2>3. q \in 0..MaxRuntimes
      BY <2>2, OutstandingFinite, WorkerAssumption DEF RuntimesSuffice, ManagerOK
    <2>4. Outstanding' = Outstanding \ {c}
      BY <1>0 DEF Install, Outstanding, ManagerOK
    <2> QED
      BY <2>1, <2>3, <2>4
  <1>2. Cardinality(Outstanding') = Cardinality(Outstanding) - 1
    BY <1>1, OutstandingFinite, FS_RemoveElement
  <1>3. /\ RuntimesSuffice'
        /\ q \in Runtimes
        /\ made' = q /\ map' = q
    <2>1. made' = q /\ map' = q /\ made \in Nat
      BY DEF Install, ManagerOK
    <2>2. made + Cardinality(Outstanding) <= MaxRuntimes /\ Cardinality(Outstanding') \in Nat
      BY <1>1, OutstandingFinite, FS_RemoveElement, FS_CardinalityType DEF RuntimesSuffice
    <2> QED
      BY <1>2, <2>1, <2>2, OutstandingFinite, WorkerAssumption DEF RuntimesSuffice, Runtimes
  <1>4. [FreshRuntime(init[c].content) EXCEPT !.timer = listed] \in Runtime
    BY <1>0 DEF FreshRuntime, Runtime, ManagerOK
  <1>5. /\ rt' \in [Runtimes -> Runtime]
        /\ rt'[q] = [FreshRuntime(init[c].content) EXCEPT !.timer = listed]
        /\ \A r \in Runtimes : r # q => rt'[r] = runtimes[r]
    BY <1>3, <1>4 DEF Install
  <1>6. rt'[q].final = "no" /\ rt'[q].timer = listed
    BY <1>5 DEF FreshRuntime, ManagerOK
  <1>7. /\ RedisOK'
        /\ listed => Owed' = Owed
        /\ ~listed => Owed' = Owed \cup {Subscribe(q)}
    <2>1. CASE listed
      BY <2>1, QuietRedis DEF Install, redisVars
    <2>2. CASE ~listed
      BY <2>2, <1>3, OwedWhenAsked, CommandsAreCommands DEF Install
    <2> QED
      BY <2>1, <2>2
  <1>8. ManagerOK'
    <2>1. made' \in 0..MaxRuntimes /\ map' \in 0..made'
      BY <1>3 DEF Runtimes
    <2>2. \A r \in Runtimes : r > made' => ~Shut(r)'
      BY <1>3, <1>5 DEF Shut, ManagerOK, Runtimes
    <2> QED
      BY <1>1, <1>5, <2>1, <2>2 DEF ManagerOK
  <1>9. SavesOK' /\ UserOK'
    BY DEF SavesOK, UserOK, userVars
  <1>10. OwedAreMade'
    BY <1>3, <1>7, CommandsAreCommands DEF OwedAreMade, ManagerOK, Owed, Command, Runtimes
  <1>11. SessionIsWatched'
    BY <1>3, <1>6, <1>7 DEF SessionIsWatched
  <1> QED
    BY <1>3, <1>7, <1>8, <1>9, <1>10, <1>11, TypePartsNext

LEMMA InitializeDocumentInv ==
    ASSUME IInv, NEW c \in Clients, InitializeDocument(c)
    PROVE  IInv'
  <1> USE TypeParts DEF IInv
  <1>1. CASE map # None /\ ~Shut(map)
    <2>1. map \in Runtimes
      BY <1>1, WorkerAssumption DEF ManagerOK, Runtimes, None
    <2>2. rt' = ShutdownOf(map)
          /\ UNCHANGED <<map, made, cmds, listed, checks, subscribed, conn, wire, db, userVars>>
      BY <1>1 DEF InitializeDocument
    <2>3. /\ rt' \in [Runtimes -> Runtime]
          /\ rt'[map].final = "sent"
          /\ \A r \in Runtimes : r # map => rt'[r] = rt[r]
      <3>1. ShutdownOf(map) \in [Runtimes -> Runtime]
        BY <2>1, FinalFields DEF ShutdownOf, ManagerOK
      <3> QED
        BY <2>1, <2>2, <3>1 DEF ShutdownOf, ManagerOK
    <2>4. init' \in [Clients -> InitRequest] /\ Outstanding' = Outstanding
      <3>1. /\ init' = [init EXCEPT ![c].at = "shutdown", ![c].runtime = map]
            /\ init[c].at = "sent"
        BY <1>1 DEF InitializeDocument
      <3>2. map \in 0..MaxRuntimes
        BY WorkerAssumption DEF ManagerOK
      <3>3. init[c] \in InitRequest
        BY DEF ManagerOK
      <3>4. [init[c] EXCEPT !.at = "shutdown", !.runtime = map] \in InitRequest
        BY <3>2, <3>3 DEF InitRequest
      <3>5. /\ init' \in [Clients -> InitRequest]
            /\ init'[c].at = "shutdown"
            /\ \A d \in Clients : d # c => init'[d] = init[d]
        BY <3>1, <3>4 DEF ManagerOK, InitRequest
      <3> QED
        BY <3>1, <3>5 DEF Outstanding
    <2>5. RedisOK' /\ Owed' = Owed
      BY <2>2, QuietRedis DEF redisVars
    <2>6. ManagerOK'
      BY <2>2, <2>3, <2>4 DEF ManagerOK, Shut
    <2>7. SavesOK' /\ UserOK'
      BY <2>2 DEF SavesOK, UserOK, userVars
    <2>8. RuntimesSuffice' /\ OwedAreMade'
      BY <2>2, <2>4, <2>5 DEF RuntimesSuffice, OwedAreMade
    <2>9. SessionIsWatched'
      BY <2>1, <2>2, <2>3 DEF SessionIsWatched, Shut
    <2> QED
      BY <2>5, <2>6, <2>7, <2>8, <2>9, TypePartsNext
  <1>2. CASE ~(map # None /\ ~Shut(map))
    BY <1>2, InstallInv DEF InitializeDocument, Outstanding, ManagerOK, Shut
  <1> QED
    BY <1>1, <1>2

(* Hearing a message changes a count or a text, and never the life of a    *)
(* runtime.                                                                *)
LEMMA HandleMessageInv ==
    ASSUME IInv, HandleMessage
    PROVE  IInv'
  <1> USE TypeParts DEF IInv
  <1> DEFINE m == Head(conn)
  <1>1. RedisOK' /\ Owed' = Owed /\ m \in Message
    BY OwedWhenHeard DEF HandleMessage
  <1>2. UNCHANGED <<map, made, listed, init, wire, db, userVars>>
    BY DEF HandleMessage
  <1>3. /\ rt' \in [Runtimes -> Runtime]
        /\ checks' \in Seq(Runtimes)
        /\ \A r \in Runtimes : rt'[r].final = rt[r].final /\ rt'[r].timer = rt[r].timer
    <2>1. CASE map = None
      BY <2>1 DEF HandleMessage, ManagerOK
    <2>2. CASE map # None
      <3> DEFINE count == IF m.type = "joined" THEN rt[map].count + 1
                          ELSE IF m.type = "left" /\ rt[map].count > 0
                          THEN rt[map].count - 1 ELSE rt[map].count
                 content == IF m.type = "change" /\ m.base = map
                            THEN rt[map].content \cup {m.edit} ELSE rt[map].content
      <3>1. map \in Runtimes /\ rt[map] \in Runtime
        BY <2>2, WorkerAssumption DEF ManagerOK, Runtimes, None
      <3>2. rt' = [rt EXCEPT ![map].count = count, ![map].content = content]
        BY <2>2, <3>1 DEF HandleMessage, ManagerOK
      <3>3. count \in Nat
        BY <3>1 DEF Runtime
      <3>4. content \in SUBSET Editors
        <4>1. m.type = "change" => m.edit \in Editors
          BY <1>1 DEF Message
        <4> QED
          BY <3>1, <4>1 DEF Runtime
      <3>5. checks' = Append(checks, map)
        BY <2>2 DEF HandleMessage
      <3> HIDE DEF count, content
      <3>6. rt' \in [Runtimes -> Runtime]
            /\ \A r \in Runtimes : rt'[r].final = rt[r].final /\ rt'[r].timer = rt[r].timer
        BY <3>1, <3>2, <3>3, <3>4 DEF ManagerOK, Runtime
      <3> QED
        BY <3>1, <3>5, <3>6 DEF ManagerOK
    <2> QED
      BY <2>1, <2>2
  <1>4. ManagerOK'
    BY <1>2, <1>3 DEF ManagerOK, Shut
  <1>5. SavesOK' /\ UserOK'
    BY <1>2 DEF SavesOK, UserOK, userVars
  <1>6. RuntimesSuffice' /\ OwedAreMade'
    BY <1>1, <1>2 DEF RuntimesSuffice, OwedAreMade, Outstanding
  <1>7. SessionIsWatched'
    <2>1. map # None => map \in Runtimes
      BY WorkerAssumption DEF ManagerOK, Runtimes, None
    <2> QED
      BY <1>1, <1>2, <1>3, <2>1 DEF SessionIsWatched, Shut
  <1> QED
    BY <1>1, <1>4, <1>5, <1>6, <1>7, TypePartsNext

(* A runtime that was made is shut down, or the entry goes: then either    *)
(* the map is empty or a final save is under way.                          *)
LEMMA ShutdownAndDeleteParts ==
    ASSUME ManagerOK, NEW r \in 1..made, ShutdownAndDelete(r)
    PROVE  /\ map' \in {None, map}
           /\ rt' \in [Runtimes -> Runtime]
           /\ \A s \in Runtimes : s > made => rt'[s].final = "no"
           /\ map' # None =>
                /\ rt'[r].final = "sent"
                /\ rt[r].final = "no"
                /\ \A s \in Runtimes : s # r => rt'[s] = rt[s]
  <1>0. r \in Runtimes
    BY WorkerAssumption DEF ManagerOK, Runtimes
  <1>1. CASE Shut(r)
    BY <1>1 DEF ShutdownAndDelete, ManagerOK, Shut
  <1>2. CASE ~Shut(r)
    <2>1. rt' = ShutdownOf(r) /\ map' = map
      BY <1>2 DEF ShutdownAndDelete
    <2>2. rt' \in [Runtimes -> Runtime]
      BY <1>0, <2>1, FinalFields DEF ShutdownOf, ManagerOK
    <2>3. rt'[r].final = "sent" /\ \A s \in Runtimes : s # r => rt'[s] = rt[s]
      BY <1>0, <2>1, <2>2 DEF ShutdownOf, ManagerOK
    <2>4. \A s \in Runtimes : s > made => s # r
      BY WorkerAssumption DEF ManagerOK, Runtimes
    <2> QED
      BY <1>2, <2>1, <2>2, <2>3, <2>4 DEF Shut, ManagerOK
  <1> QED
    BY <1>1, <1>2

(* What both users of ShutdownAndDelete need of it. *)
LEMMA ShutdownAndDeleteInv ==
    ASSUME IInv, NEW r \in 1..made, ShutdownAndDelete(r),
           RedisOK', listed' \in BOOLEAN, checks' \in Seq(Runtimes),
           Owed' \subseteq Owed, \A s \in Runtimes : Subscribe(s) \in Owed => Subscribe(s) \in Owed',
           UNCHANGED <<made, init, wire, db, userVars>>
    PROVE  IInv'
  <1> USE TypeParts DEF IInv
  <1>1. /\ map' \in {None, map}
        /\ rt' \in [Runtimes -> Runtime]
        /\ \A s \in Runtimes : s > made => rt'[s].final = "no"
        /\ map' # None =>
             /\ rt'[r].final = "sent"
             /\ rt[r].final = "no"
             /\ \A s \in Runtimes : s # r => rt'[s] = rt[s]
    BY ShutdownAndDeleteParts
  <1>2. ManagerOK'
    BY <1>1, WorkerAssumption DEF ManagerOK, Shut, None
  <1>3. SavesOK' /\ UserOK'
    BY DEF SavesOK, UserOK, userVars
  <1>4. RuntimesSuffice' /\ OwedAreMade'
    BY DEF RuntimesSuffice, OwedAreMade, Outstanding
  <1>5. SessionIsWatched'
    <2>1. SUFFICES ASSUME map' # None PROVE SessionIsWatched'
      BY DEF SessionIsWatched
    <2>2. map' = map /\ map \in Runtimes /\ r \in Runtimes
      BY <1>1, <2>1, WorkerAssumption DEF ManagerOK, Runtimes, None
    <2>3. CASE map = r
      BY <1>1, <2>1, <2>2, <2>3 DEF SessionIsWatched, Shut
    <2>4. CASE map # r
      <3>1. rt'[map] = rt[map] /\ rt'[r].final = "sent"
        BY <1>1, <2>1, <2>2, <2>4
      <3> QED
        BY <2>1, <2>2, <3>1 DEF SessionIsWatched, Shut
    <2> QED
      BY <2>3, <2>4
  <1> QED
    BY <1>2, <1>3, <1>4, <1>5, TypePartsNext

LEMMA CheckShouldCloseInv ==
    ASSUME IInv, CheckShouldClose
    PROVE  IInv'
  <1> USE TypeParts DEF IInv
  <1>1. checks' \in Seq(Runtimes)
    BY ItemsTail DEF CheckShouldClose, ManagerOK
  <1>2. UNCHANGED <<made, listed, init, subscribed, conn, wire, db, userVars>>
    BY DEF CheckShouldClose
  <1>3. map # None => map \in 1..made /\ map \in Runtimes
    BY WorkerAssumption DEF ManagerOK, Runtimes, None
  <1>4. CASE UNCHANGED <<map, rt>> /\ (UNCHANGED cmds \/ cmds' = Append(cmds, Unsubscribe(map)))
             /\ (map = None => UNCHANGED cmds)
    <2>1. RedisOK' /\ Owed \subseteq Owed' /\ OwedAreMade'
      <3>1. CASE UNCHANGED cmds
        BY <1>2, <3>1, QuietRedis DEF redisVars, OwedAreMade
      <3>2. CASE map # None /\ cmds' = Append(cmds, Unsubscribe(map))
        <4>1. RedisOK' /\ Owed' = Owed \cup {Unsubscribe(map)} /\ Unsubscribe(map).runtime = map
          BY <1>2, <1>3, <3>2, OwedWhenAsked, CommandsAreCommands
        <4> QED
          BY <1>2, <1>3, <3>2, <4>1, WorkerAssumption DEF OwedAreMade, ManagerOK
      <3> QED
        BY <1>4, <3>1, <3>2
    <2>2. ManagerOK'
      BY <1>1, <1>2, <1>4 DEF ManagerOK, Shut
    <2>3. SavesOK' /\ UserOK' /\ RuntimesSuffice'
      BY <1>2 DEF SavesOK, UserOK, userVars, RuntimesSuffice, Outstanding
    <2>4. SessionIsWatched'
      BY <1>2, <1>4, <2>1 DEF SessionIsWatched, Shut
    <2> QED
      BY <2>1, <2>2, <2>3, <2>4, TypePartsNext
  <1>5. CASE map # None /\ ShutdownAndDelete(map) /\ UNCHANGED cmds
    <2>1. RedisOK' /\ Owed' = Owed
      BY <1>2, <1>5, QuietRedis DEF redisVars
    <2> QED
      BY <1>1, <1>2, <1>3, <1>5, <2>1, ShutdownAndDeleteInv DEF ManagerOK
  <1> QED
    BY <1>4, <1>5 DEF CheckShouldClose

LEMMA HandleUnsubscribedInv ==
    ASSUME IInv, HandleUnsubscribed
    PROVE  IInv'
  <1> USE TypeParts DEF IInv
  <1> DEFINE x == Head(conn)
  <1>1. RedisOK' /\ Owed = Owed' \cup {x} /\ x \in Command
    BY OwedWhenHeard, ItemKinds DEF HandleUnsubscribed
  <1>2. x.runtime \in 1..made
    BY <1>1, WorkerAssumption DEF OwedAreMade, ManagerOK, Command, Runtimes
  <1>3. \A s \in Runtimes : Subscribe(s) \in Owed => Subscribe(s) \in Owed'
    BY <1>1 DEF HandleUnsubscribed, Subscribe
  <1> QED
    BY <1>1, <1>2, <1>3, ShutdownAndDeleteInv DEF HandleUnsubscribed, ManagerOK

LEMMA HandleSubscribedInv ==
    ASSUME IInv, HandleSubscribed
    PROVE  IInv'
  <1> USE TypeParts DEF IInv
  <1> DEFINE x == Head(conn)
             q == x.runtime
  <1>1. RedisOK' /\ Owed = Owed' \cup {x} /\ x \in Command /\ x.type = "subscribe"
    BY OwedWhenHeard, ItemKinds DEF HandleSubscribed
  <1>2. q \in Runtimes /\ x = Subscribe(q)
    BY <1>1 DEF Command, Subscribe
  <1>3. UNCHANGED <<map, made, checks, wire, db, userVars>> /\ listed' = TRUE
    BY DEF HandleSubscribed
  <1>4. rt' = [rt EXCEPT ![q].timer = TRUE]
    BY DEF HandleSubscribed
  <1>5. /\ rt' \in [Runtimes -> Runtime]
        /\ rt'[q].timer = TRUE
        /\ \A r \in Runtimes : rt'[r].final = rt[r].final /\ (r # q => rt'[r] = rt[r])
    <2>1. rt' \in [Runtimes -> Runtime]
      BY <1>2, <1>4, FinalFields DEF ManagerOK
    <2>2. rt'[q].timer = TRUE /\ rt'[q].final = rt[q].final
      BY <1>2, <1>4 DEF ManagerOK, Runtime
    <2>3. \A r \in Runtimes : r # q => rt'[r] = rt[r]
      BY <1>2, <1>4 DEF ManagerOK
    <2> QED
      BY <2>1, <2>2, <2>3
  <1>6. /\ init' \in [Clients -> InitRequest]
        /\ Outstanding' = Outstanding
    <2>1. init' = [c \in Clients |->
                     IF init[c].at = "subscribing" /\ init[c].runtime = q
                     THEN [init[c] EXCEPT !.at = "answered"] ELSE init[c]]
      BY DEF HandleSubscribed
    <2>2. \A c \in Clients : [init[c] EXCEPT !.at = "answered"] \in InitRequest
      BY DEF ManagerOK, InitRequest
    <2>3. \A c \in Clients : [init[c] EXCEPT !.at = "answered"].at = "answered"
      BY DEF ManagerOK, InitRequest
    <2>4. init' \in [Clients -> InitRequest]
      BY <2>1, <2>2 DEF ManagerOK
    <2>5. ASSUME NEW c \in Clients
          PROVE  init'[c].at \in {"sent", "shutdown"} <=> init[c].at \in {"sent", "shutdown"}
      BY <2>1, <2>3
    <2> QED
      BY <2>4, <2>5 DEF Outstanding
  <1>7. ManagerOK'
    BY <1>3, <1>5, <1>6 DEF ManagerOK, Shut
  <1>8. SavesOK' /\ UserOK'
    BY <1>3 DEF SavesOK, UserOK, userVars
  <1>9. RuntimesSuffice' /\ OwedAreMade'
    BY <1>1, <1>3, <1>6 DEF RuntimesSuffice, OwedAreMade
  <1>10. SessionIsWatched'
    <2>1. SUFFICES ASSUME map # None PROVE SessionIsWatched'
      BY <1>3 DEF SessionIsWatched
    <2>2. map \in Runtimes
      BY <2>1, WorkerAssumption DEF ManagerOK, Runtimes, None
    <2>3. CASE map = q
      BY <1>3, <1>5, <2>1, <2>2, <2>3 DEF SessionIsWatched
    <2>4. CASE map # q
      <3>1. Subscribe(map) # x
        BY <1>2, <2>2, <2>4, CommandsAreCommands
      <3>2. Subscribe(map) \in Owed => Subscribe(map) \in Owed'
        BY <1>1, <3>1
      <3> QED
        BY <1>3, <1>5, <2>1, <2>2, <2>4, <3>2 DEF SessionIsWatched, Shut
    <2> QED
      BY <2>3, <2>4
  <1> QED
    BY <1>1, <1>7, <1>8, <1>9, <1>10, TypePartsNext

LEMMA PlaceLockInv ==
    ASSUME IInv, NEW c \in Clients, PlaceLock(c)
    PROVE  IInv'
  <1> USE TypeParts DEF IInv
  <1>1. init' \in [Clients -> InitRequest] /\ Outstanding' = Outstanding
    <2>1. NoRequest \in InitRequest /\ NoRequest.at = "none"
      BY WorkerAssumption DEF NoRequest, InitRequest, None
    <2>2. init' = [init EXCEPT ![c] = NoRequest] /\ init[c].at = "answered"
      BY DEF PlaceLock
    <2> QED
      BY <2>1, <2>2 DEF Outstanding, ManagerOK
  <1>2. UNCHANGED <<map, made, rt, listed, checks, redisVars, wire, visits, base, edited>>
    BY DEF PlaceLock
  <1>3. RedisOK' /\ Owed' = Owed
    BY <1>2, QuietRedis
  <1>4. SavesOK' /\ UserOK'
    <2>1. PICK placed \in BOOLEAN :
            /\ db' = [db EXCEPT !.locked = placed \/ @]
            /\ phase' = [phase EXCEPT ![c] = IF @ # "awaiting" THEN @
                                            ELSE IF placed THEN "syncing" ELSE "error"]
      BY DEF PlaceLock
    <2>2. SavesOK'
      BY <1>2, <2>1 DEF SavesOK
    <2>3. UserOK'
      BY <1>2, <2>1 DEF UserOK
    <2> QED
      BY <2>2, <2>3
  <1>5. ManagerOK' /\ RuntimesSuffice'
    BY <1>1, <1>2 DEF ManagerOK, Shut, RuntimesSuffice
  <1>6. OwedAreMade' /\ SessionIsWatched'
    BY <1>2, <1>3 DEF OwedAreMade, SessionIsWatched, Shut
  <1> QED
    BY <1>3, <1>4, <1>5, <1>6, TypePartsNext

(* The saves: the periodic ones, the lease, the final one. *)
LEMMA SavesInv ==
    ASSUME IInv, Saves \/ LeaseExpires
    PROVE  IInv'
  <1> USE TypeParts DEF IInv
  <1>1. CASE LeaseExpires
    BY <1>1, FrameInv, QuietRedis DEF LeaseExpires, SavesOK, UserOK, userVars
  <1>2. ASSUME NEW r \in Runtimes, PersistToSpringBoot(r)
        PROVE  IInv'
    <2>1. rt[r].content \in SUBSET Editors
      BY DEF ManagerOK, Runtime
    <2> QED
      BY <1>2, <2>1, FrameInv, QuietRedis DEF PersistToSpringBoot, SavesOK, UserOK, userVars
  <1>3. ASSUME NEW r \in Runtimes, ApplyPeriodic(r)
        PROVE  IInv'
    <2>1. PICK content \in wire[r] : db' = [content |-> content, locked |-> TRUE]
      BY <1>3 DEF ApplyPeriodic
    <2>2. SavesOK'
      BY <1>3, <2>1 DEF ApplyPeriodic, SavesOK
    <2> QED
      BY <1>3, <2>2, FrameInv, QuietRedis DEF ApplyPeriodic, UserOK, userVars
  <1>4. ASSUME NEW r \in Runtimes, LosePeriodic(r)
        PROVE  IInv'
    BY <1>4, FrameInv, QuietRedis DEF LosePeriodic, SavesOK, UserOK, userVars
  <1>5. ASSUME NEW r \in Runtimes, ApplyFinal(r)
        PROVE  IInv'
    <2>1. UNCHANGED <<map, made, listed, init, checks, redisVars, wire, userVars>>
      BY <1>5 DEF ApplyFinal
    <2>2. RedisOK' /\ Owed' = Owed
      BY <2>1, QuietRedis
    <2>3. /\ rt' \in [Runtimes -> Runtime]
          /\ rt[r].final = "sent" /\ rt'[r].final = "applied"
          /\ \A s \in Runtimes : s # r => rt'[s] = rt[s]
      <3>1. /\ rt' = [rt EXCEPT ![r].final = "applied", ![r].last = {}]
            /\ rt[r].final = "sent"
        BY <1>5 DEF ApplyFinal
      <3>2. rt' \in [Runtimes -> Runtime]
        BY <3>1, FinalFields DEF ManagerOK
      <3>3. rt'[r].final = "applied"
        BY <3>1 DEF ManagerOK, Runtime
      <3>4. \A s \in Runtimes : s # r => rt'[s] = rt[s]
        BY <3>1 DEF ManagerOK
      <3> QED
        BY <3>1, <3>2, <3>3, <3>4
    <2>4. ManagerOK'
      BY <2>1, <2>3 DEF ManagerOK, Shut
    <2>5. SavesOK' /\ UserOK'
      <3>1. rt[r].last \in SUBSET Editors
        BY DEF ManagerOK, Runtime
      <3> QED
        BY <1>5, <2>1, <3>1 DEF ApplyFinal, SavesOK, UserOK, userVars
    <2>6. RuntimesSuffice' /\ OwedAreMade'
      BY <2>1, <2>2 DEF RuntimesSuffice, OwedAreMade, Outstanding
    <2>7. SessionIsWatched'
      <3>1. map # None => map \in Runtimes
        BY WorkerAssumption DEF ManagerOK, Runtimes, None
      <3> QED
        BY <2>1, <2>2, <2>3, <3>1 DEF SessionIsWatched, Shut
    <2> QED
      BY <2>2, <2>4, <2>5, <2>6, <2>7, TypePartsNext
  <1> QED
    BY <1>1, <1>2, <1>3, <1>4, <1>5 DEF Saves

LEMMA FinalSettlesInv ==
    ASSUME IInv, NEW r \in Runtimes, FinalSettles(r)
    PROVE  IInv'
  <1> USE TypeParts DEF IInv
  <1> DEFINE settled == [rt EXCEPT ![r].final = "settled", ![r].last = {}]
  <1>1. /\ settled \in [Runtimes -> Runtime]
        /\ r <= made
        /\ \A s \in Runtimes : s > made => settled[s].final = "no"
    <2>1. settled \in [Runtimes -> Runtime] /\ \A s \in Runtimes : s # r => settled[s] = rt[s]
      <3>1. settled \in [Runtimes -> Runtime]
        BY FinalFields DEF ManagerOK
      <3>2. \A s \in Runtimes : s # r => settled[s] = rt[s]
        BY DEF ManagerOK
      <3> QED
        BY <3>1, <3>2
    <2>2. r <= made
      <3>1. Shut(r) /\ (r > made => ~Shut(r))
        BY DEF FinalSettles, ManagerOK, Shut
      <3>2. r \in Nat /\ made \in Nat
        BY WorkerAssumption DEF ManagerOK, Runtimes
      <3> QED
        BY <3>1, <3>2
    <2> QED
      BY <2>1, <2>2, WorkerAssumption DEF ManagerOK, Shut, Runtimes
  <1>2. UNCHANGED <<listed, checks, subscribed, conn, wire, db, userVars>>
    BY DEF FinalSettles
  <1>3. CASE \E c \in Clients : init[c].at = "shutdown" /\ Install(c, settled)
    BY <1>1, <1>2, <1>3, InstallInv DEF Outstanding
  <1>4. CASE map' = None /\ rt' = settled /\ UNCHANGED <<made, init, cmds>>
    <2>1. RedisOK' /\ Owed' = Owed
      BY <1>2, <1>4, QuietRedis DEF redisVars
    <2>2. ManagerOK'
      BY <1>1, <1>2, <1>4, WorkerAssumption DEF ManagerOK, Shut, None
    <2>3. SavesOK' /\ UserOK' /\ RuntimesSuffice'
      BY <1>2, <1>4 DEF SavesOK, UserOK, userVars, RuntimesSuffice, Outstanding
    <2>4. OwedAreMade' /\ SessionIsWatched'
      BY <1>4, <2>1 DEF OwedAreMade, SessionIsWatched
    <2> QED
      BY <2>1, <2>2, <2>3, <2>4, TypePartsNext
  <1> QED
    BY <1>3, <1>4 DEF FinalSettles

LEMMA NextInv ==
    ASSUME IInv, [Next]_vars
    PROVE  IInv'
  <1>1. CASE UNCHANGED vars
    <2>1. RedisOK' /\ Owed' = Owed /\ SavesOK' /\ UserOK'
      BY <1>1, TypeParts, QuietRedis DEF IInv, vars, redisVars, userVars, SavesOK, UserOK
    <2> QED
      BY <1>1, <2>1, FrameInv DEF vars
  <1>2. CASE ServeCommand
    <2>1. RedisOK' /\ Owed' = Owed
      BY <1>2, TypeParts, OwedWhenServed DEF IInv
    <2> QED
      BY <1>2, <2>1, TypeParts, FrameInv DEF IInv, ServeCommand, SavesOK, UserOK, userVars
  <1>3. CASE Manager
    BY <1>3, InitializeDocumentInv, HandleMessageInv, CheckShouldCloseInv,
       HandleSubscribedInv, HandleUnsubscribedInv, FinalSettlesInv DEF Manager
  <1> QED
    BY <1>1, <1>2, <1>3, BrowserInv, PlaceLockInv, SavesInv DEF Next

-------------------------------------------------------------------------------
(* The theorems. *)

THEOREM Invariant == Spec => []IInv
  <1>1. Init => IInv
    BY InitInv
  <1>2. IInv /\ [Next]_vars => IInv'
    BY NextInv
  <1> QED
    BY <1>1, <1>2, PTL DEF Spec

(* Every variable keeps its type, for any number of browsers. *)
THEOREM TypeCorrect == Spec => []TypeOK
  <1>1. IInv => TypeOK
    BY DEF IInv
  <1> QED
    BY <1>1, Invariant, PTL

(* A session the manager holds when nothing is under way is alive, timed   *)
(* and subscribed, whatever its users did before.                          *)
THEOREM SessionsAtRestAreHealthy == Spec => []RestingSessionIsHealthy
  <1>1. IInv => RestingSessionIsHealthy
    <2>1. SUFFICES ASSUME IInv, Resting, map # None
                   PROVE  ~Shut(map) /\ rt[map].timer /\ listed
      BY DEF RestingSessionIsHealthy
    <2>2. map \in Runtimes
      BY <2>1, TypeParts, WorkerAssumption DEF IInv, ManagerOK, Runtimes, None
    <2>3. ~Shut(map)
      BY <2>1, <2>2 DEF IInv, SessionIsWatched, Resting, Shut
    <2> QED
      BY <2>1, <2>2, <2>3 DEF IInv, SessionIsWatched, Resting
  <1> QED
    BY <1>1, Invariant, PTL

(* What a step may do to the final save of a runtime that is shut down. *)
SentOnce(r) ==
    /\ rt'[r].final # "no"
    /\ rt'[r].final = "sent" => rt[r].final = "sent" /\ rt'[r].last = rt[r].last

LEMMA SentOnceByMessages ==
    ASSUME TypeOK, NEW r \in Runtimes, Shut(r), HandleMessage \/ HandleSubscribed
    PROVE  SentOnce(r)
  <1>1. rt \in [Runtimes -> Runtime] /\ rt[r] \in Runtime
    BY DEF TypeOK
  <1>2. CASE HandleMessage
    <2>1. CASE map = None
      BY <1>2, <2>1 DEF HandleMessage, SentOnce, Shut
    <2>2. CASE map # None
      <3>1. PICK count, content :
              rt' = [rt EXCEPT ![map].count = count, ![map].content = content]
        BY <1>2, <2>2 DEF HandleMessage
      <3> QED
        BY <1>1, <3>1 DEF SentOnce, Shut, Runtime
    <2> QED
      BY <2>1, <2>2
  <1>3. CASE HandleSubscribed
    BY <1>1, <1>3 DEF HandleSubscribed, SentOnce, Shut, Runtime
  <1> QED
    BY <1>2, <1>3

LEMMA SentOnceByClosing ==
    ASSUME TypeOK, NEW r \in Runtimes, Shut(r), NEW q \in Runtimes, ShutdownAndDelete(q)
    PROVE  SentOnce(r)
  <1>1. CASE Shut(q)
    BY <1>1 DEF ShutdownAndDelete, SentOnce, Shut
  <1>2. CASE ~Shut(q)
    <2>1. r # q /\ rt' = ShutdownOf(q)
      BY <1>2 DEF ShutdownAndDelete
    <2>2. rt'[r] = rt[r]
      BY <2>1 DEF ShutdownOf, TypeOK
    <2> QED
      BY <2>2 DEF SentOnce, Shut
  <1> QED
    BY <1>1, <1>2

LEMMA SentOnceByInstall ==
    ASSUME TypeOK, NEW r \in Runtimes, Shut(r), NEW c \in Clients,
           NEW runtimes \in [Runtimes -> Runtime], Install(c, runtimes),
           runtimes[r].final \in {rt[r].final, "settled"},
           runtimes[r].final = "sent" => runtimes[r].last = rt[r].last
    PROVE  SentOnce(r)
  <1>1. r # made + 1
    BY WorkerAssumption DEF TypeOK, Runtimes
  <1>2. rt'[r] = runtimes[r]
    BY <1>1 DEF Install
  <1> QED
    BY <1>2 DEF SentOnce, Shut

LEMMA SentOnceBySettling ==
    ASSUME TypeOK, NEW r \in Runtimes, Shut(r), NEW q \in Runtimes, FinalSettles(q)
    PROVE  SentOnce(r)
  <1> DEFINE settled == [rt EXCEPT ![q].final = "settled", ![q].last = {}]
  <1>1. /\ settled \in [Runtimes -> Runtime]
        /\ q = r => settled[r].final = "settled"
        /\ q # r => settled[r] = rt[r]
    <2>1. settled \in [Runtimes -> Runtime]
      BY FinalFields DEF TypeOK
    <2>2. q = r => settled[r].final = "settled"
      BY DEF TypeOK, Runtime
    <2>3. q # r => settled[r] = rt[r]
      BY DEF TypeOK
    <2> QED
      BY <2>1, <2>2, <2>3
  <1>2. CASE \E c \in Clients : Install(c, settled)
    BY <1>1, <1>2, SentOnceByInstall
  <1>3. CASE rt' = settled
    BY <1>1, <1>3 DEF SentOnce, Shut
  <1> QED
    BY <1>2, <1>3 DEF FinalSettles

LEMMA SentOnceStep ==
    ASSUME IInv, [Next]_vars, NEW r \in Runtimes, Shut(r)
    PROVE  SentOnce(r)
  <1> USE DEF IInv
  <1>1. CASE UNCHANGED rt
    BY <1>1 DEF SentOnce, Shut
  <1>2. ASSUME NEW c \in Clients, InitializeDocument(c)
        PROVE  SentOnce(r)
    <2>1. CASE map # None /\ ~Shut(map)
      <3>1. rt' = ShutdownOf(map) /\ map # r
        BY <1>2, <2>1 DEF InitializeDocument
      <3>2. rt'[r] = rt[r]
        BY <3>1 DEF ShutdownOf, TypeOK
      <3> QED
        BY <3>2 DEF SentOnce, Shut
    <2>2. CASE ~(map # None /\ ~Shut(map))
      BY <1>2, <2>2, SentOnceByInstall DEF InitializeDocument, TypeOK
    <2> QED
      BY <2>1, <2>2
  <1>3. CASE CheckShouldClose
    <2>1. map # None => map \in Runtimes
      BY WorkerAssumption DEF TypeOK, Runtimes, None
    <2> QED
      BY <1>1, <1>3, <2>1, SentOnceByClosing DEF CheckShouldClose
  <1>4. CASE HandleUnsubscribed
    <2>1. Head(conn) \in Command
      BY <1>4, ItemsTail, ItemKinds DEF HandleUnsubscribed, TypeOK
    <2> QED
      BY <1>4, <2>1, SentOnceByClosing DEF HandleUnsubscribed, Command
  <1>5. ASSUME NEW q \in Runtimes, ApplyFinal(q)
        PROVE  SentOnce(r)
    <2>1. q = r => rt'[r].final = "applied"
      BY <1>5 DEF ApplyFinal, TypeOK, Runtime
    <2>2. q # r => rt'[r] = rt[r]
      BY <1>5 DEF ApplyFinal, TypeOK
    <2> QED
      BY <2>1, <2>2 DEF SentOnce, Shut
  <1>6. CASE HandleMessage \/ HandleSubscribed
    BY <1>6, SentOnceByMessages
  <1>7. CASE Manager
    BY <1>2, <1>3, <1>4, <1>6, <1>7, SentOnceBySettling DEF Manager
  <1>8. CASE Saves \/ LeaseExpires \/ ServeCommand \/ UNCHANGED vars
    BY <1>1, <1>5, <1>8 DEF Saves, PersistToSpringBoot, ApplyPeriodic, LosePeriodic,
       LeaseExpires, ServeCommand, vars, managerVars
  <1>9. ASSUME NEW c \in Clients, Browser(c) \/ PlaceLock(c)
        PROVE  SentOnce(r)
    BY <1>1, <1>9 DEF Browser, Enter, Connect, RequestInit, Sync, Edit, Leave, PlaceLock,
       managerVars
  <1> QED
    BY <1>7, <1>8, <1>9 DEF Next

(* A runtime sends one final save, and its content is settled when it is   *)
(* sent: shutdownCompleted works under every overlap of closes and inits.  *)
THEOREM FinalSavesAreSentOnce == Spec => FinalSaveIsSentOnce
  <1>1. IInv /\ [Next]_vars =>
          [\A r \in Runtimes :
             Shut(r) => /\ rt'[r].final # "no"
                        /\ rt'[r].final = "sent" => /\ rt[r].final = "sent"
                                                    /\ rt'[r].last = rt[r].last]_vars
    BY SentOnceStep DEF SentOnce
  <1> QED
    BY <1>1, Invariant, PTL DEF Spec, FinalSaveIsSentOnce
===============================================================================
