----------------------------- MODULE DocumentLock -----------------------------
(***************************************************************************)
(* The edit lock of ONE document: the row of document_locks, the version   *)
(* column of documents, and the backend transactions that read and write   *)
(* them (LockService, DocumentService, WorkerDocumentSyncService and the   *)
(* lock half of DocumentWorkerProxyService).                               *)
(*                                                                         *)
(* Every @Transactional method runs as two steps, because PostgreSQL runs  *)
(* it at READ COMMITTED and takes no row lock on what it reads: the method *)
(* body reads the row, decides, and leaves a write plan in the persistence *)
(* context; the flush at commit sends the plan.  Between the two, other    *)
(* transactions commit.  An exception rolls the transaction back, so a     *)
(* rejected request changes nothing and is a request that is not enabled.  *)
(* The periodic worker save is one SQL statement and one step.             *)
(*                                                                         *)
(* Time is relative: a row stores what is left of its lease (expires_at    *)
(* minus now), Tick lowers it, and a lease with nothing left is expired.   *)
(***************************************************************************)
EXTENDS Integers

CONSTANTS
    Users,        \* authenticated users
    Owner,        \* the document's owner
    Editors,      \* users canUserEdit accepts: the owner and the EDITOR rows
    Shared,       \* users with a document_permissions row
    Mortal,       \* bound: users whose browser may die in a behaviour
    Txns,         \* backend requests that can be in progress at the same time
    Ttl,          \* DEFAULT_LOCK_TTL, in ticks; the frontend asks for the same
    MaxVersion,   \* bound: versioned writes of the document in a behaviour
    MaxInFlight,  \* bound: periodic saves of the worker on their way
    Nobody        \* user_id NULL

ASSUME LockAssumption ==
    /\ Owner \in Editors
    /\ Editors \subseteq Shared
    /\ Shared \subseteq Users
    /\ Mortal \subseteq Users
    /\ Nobody \notin Users
    /\ Ttl \in Nat \ {0}
    /\ MaxVersion \in Nat
    /\ MaxInFlight \in Nat

VARIABLES
    lock,       \* the row of document_locks, or NoLock
    doc,        \* the row of documents: is it there, and its @Version
    tx,         \* the requests in progress, each with its write plan
    session,    \* what the state worker does with the document
    inFlight,   \* periodic saves the worker has sent
    finals,     \* final saves the worker has sent
    gone,       \* users whose browser has died: they send nothing any more
    overtaken,  \* history: open requests since whose read the lock was written
    outrun      \* history: open requests since whose read the version moved

vars == <<lock, doc, tx, session, inFlight, finals, gone, overtaken, outrun>>

-------------------------------------------------------------------------------
(* The lock row.                                                           *)

LockType == {"EXCLUSIVE", "COLLABORATIVE"}

NoLock == [type |-> "NONE", holder |-> Nobody, left |-> 0]

Lock == {NoLock} \cup [type   : LockType,
                      holder : Users \cup {Nobody},
                      left   : 0..Ttl]

Expired(row) == row # NoLock /\ row.left = 0

Valid(row) == row # NoLock /\ row.left > 0

HeldBy(row, u) == Valid(row) /\ row.type = "EXCLUSIVE" /\ row.holder = u

(* A mutant of NewLock: the switch to collaborative keeps the user. *)
NewLockKeepingTheUser(type, u) ==
    [type |-> type, holder |-> u, left |-> Ttl]

NewLock(type, u) ==
    [type   |-> type,
     holder |-> IF type = "EXCLUSIVE" THEN u ELSE Nobody,
     left   |-> Ttl]

(* A mutant of Renewed: the lease is prolonged from its end, not from now. *)
RenewedFromItsEnd(row) == [row EXCEPT !.left = row.left + Ttl]

Renewed(row) == [row EXCEPT !.left = Ttl]

Aged(row) == [row EXCEPT !.left = IF row.left > 0 THEN row.left - 1 ELSE 0]

-------------------------------------------------------------------------------
(* A request in progress: what its commit will write.  "row" is the row to *)
(* write, or the row that was read when the plan deletes it.               *)

Kind == {"insert", "replace", "update", "delete", "save", "released", "final",
         "deleteDocument", "initialized"}

Plan(kind, u, row) ==
    [kind |-> kind, user |-> u, row |-> row, version |-> doc.version]

Request == [kind    : Kind \cup {"idle"},
            user    : Users \cup {Nobody},
            row     : Lock,
            version : 0..MaxVersion]

Idle == [kind |-> "idle", user |-> Nobody, row |-> NoLock, version |-> 0]

Open == {t \in Txns : tx[t] # Idle}

(* The method body has read the database and decided on a plan. *)
Begin(t, plan) ==
    /\ tx[t] = Idle
    /\ tx' = [tx EXCEPT ![t] = plan]
    /\ UNCHANGED <<lock, doc, overtaken, outrun>>

(* The transaction is over, with or without an effect. *)
End(t) == tx' = [tx EXCEPT ![t] = Idle]

WriteLock(t, row) ==
    /\ lock' = row
    /\ overtaken' = Open \ {t}

KeepLock(t) ==
    /\ overtaken' = overtaken \ {t}
    /\ UNCHANGED lock

BumpVersion(t) ==
    /\ doc.version < MaxVersion
    /\ doc' = [doc EXCEPT !.version = doc.version + 1]
    /\ outrun' = Open \ {t}

KeepVersion(t) ==
    /\ outrun' = outrun \ {t}
    /\ UNCHANGED doc

(* Every REST call loads the document first: a missing one answers 404. *)
MayCall(u) == u \notin gone /\ doc.present

-------------------------------------------------------------------------------
Init ==
    /\ lock = NoLock
    /\ doc = [present |-> TRUE, version |-> 0]
    /\ tx = [t \in Txns |-> Idle]
    /\ session = "none"
    /\ inFlight = 0
    /\ finals = 0
    /\ gone = {}
    /\ overtaken = {}
    /\ outrun = {}

(* A mutant of AcquireLock: a valid lock is taken over from anybody. *)
AcquireLockOverAnyone(t, u, type) ==
    /\ MayCall(u)
    /\ \/ lock = NoLock   /\ Begin(t, Plan("insert", u, NewLock(type, u)))
       \/ Expired(lock)   /\ Begin(t, Plan("replace", u, NewLock(type, u)))
       \/ Valid(lock)     /\ Begin(t, Plan("update", u, NewLock(type, u)))
    /\ UNCHANGED <<session, inFlight, finals, gone>>

(* acquireLock: no permission is asked for, an expired row is replaced. *)
AcquireLock(t, u, type) ==
    /\ MayCall(u)
    /\ \/ lock = NoLock   /\ Begin(t, Plan("insert", u, NewLock(type, u)))
       \/ Expired(lock)   /\ Begin(t, Plan("replace", u, NewLock(type, u)))
       \/ /\ Valid(lock)
          /\ lock.type = type
          /\ type = "EXCLUSIVE" => lock.holder = u
          /\ Begin(t, Plan("update", u, Renewed(lock)))
       \/ /\ HeldBy(lock, u)
          /\ type = "COLLABORATIVE"
          /\ Begin(t, Plan("update", u, NewLock(type, u)))
    /\ UNCHANGED <<session, inFlight, finals, gone>>

(* Expired, collaborative and foreign locks throw, and the throw rolls the *)
(* deletion of the expired row back.                                       *)
SwitchExclusiveToCollaborative(t, u) ==
    /\ MayCall(u)
    /\ HeldBy(lock, u)
    /\ Begin(t, Plan("update", u, NewLock("COLLABORATIVE", u)))
    /\ UNCHANGED <<session, inFlight, finals, gone>>

(* Whoever has any permission row may release a lock that is still valid. *)
ReleaseLock(t, u) ==
    /\ MayCall(u)
    /\ Expired(lock) \/ (Valid(lock) /\ u \in Shared)
    /\ Begin(t, Plan("delete", u, lock))
    /\ UNCHANGED <<session, inFlight, finals, gone>>

(* A mutant of RefreshLock: a valid lock is renewed for anybody. *)
RefreshLockForAnyone(t, u) ==
    /\ MayCall(u)
    /\ \/ lock = NoLock  /\ Begin(t, Plan("insert", u, NewLock("EXCLUSIVE", u)))
       \/ Expired(lock)  /\ Begin(t, Plan("replace", u, NewLock(lock.type, u)))
       \/ Valid(lock)    /\ Begin(t, Plan("update", u, Renewed(lock)))
    /\ UNCHANGED <<session, inFlight, finals, gone>>

(* A refresh without a lock creates an exclusive one; of an expired lock   *)
(* it creates one of the same type for the caller.                         *)
RefreshLock(t, u) ==
    /\ MayCall(u)
    /\ \/ lock = NoLock  /\ Begin(t, Plan("insert", u, NewLock("EXCLUSIVE", u)))
       \/ Expired(lock)  /\ Begin(t, Plan("replace", u, NewLock(lock.type, u)))
       \/ /\ HeldBy(lock, u) \/ (/\ Valid(lock)
                                 /\ lock.type = "COLLABORATIVE"
                                 /\ u \in Shared)
          /\ Begin(t, Plan("update", u, Renewed(lock)))
    /\ UNCHANGED <<session, inFlight, finals, gone>>

(* A mutant of SaveDocument: any valid lock will do. *)
SaveDocumentUnderAnyLock(t, u) ==
    /\ MayCall(u)
    /\ u \in Editors
    /\ Valid(lock)
    /\ Begin(t, Plan("save", u, lock))
    /\ UNCHANGED <<session, inFlight, finals, gone>>

(* saveDocument: edit rights, a valid lock, and one's own if exclusive. *)
SaveDocument(t, u) ==
    /\ MayCall(u)
    /\ u \in Editors
    /\ Valid(lock)
    /\ lock.type = "EXCLUSIVE" => lock.holder = u
    /\ Begin(t, Plan("save", u, lock))
    /\ UNCHANGED <<session, inFlight, finals, gone>>

DeleteDocument(t) ==
    /\ MayCall(Owner)
    /\ Begin(t, Plan("deleteDocument", Owner, lock))
    /\ UNCHANGED <<session, inFlight, finals, gone>>

-------------------------------------------------------------------------------
(* initializeDocument proxies to the worker FIRST and takes the lock after *)
(* the answer.  The worker may answer an error, which the proxy only       *)
(* forwards.  A worker that still runs the document ends that session      *)
(* before it answers: EndSession, then this step.                          *)
InitializeDocument(t, u) ==
    /\ MayCall(u)
    /\ session # "active"
    /\ session' \in {session, "active"}
    /\ Begin(t, Plan("initialized", u, NoLock))
    /\ UNCHANGED <<inFlight, finals, gone>>

(* acquireCollaborativeLock, called with the worker's answer in hand. *)
AcquireCollaborativeLock(t) ==
    LET took(kind, row) ==
            tx' = [tx EXCEPT ![t] = Plan(kind, tx[t].user, row)]
        new == NewLock("COLLABORATIVE", Nobody)
    IN  /\ tx[t].kind = "initialized"
        /\ \/ lock = NoLock /\ took("insert", new)
           \/ Expired(lock) /\ took("replace", new)
           \/ /\ Valid(lock)
              /\ lock.type = "COLLABORATIVE"
              /\ took("update", Renewed(lock))
        /\ overtaken' = overtaken \ {t}
        /\ outrun' = outrun \ {t}
        /\ UNCHANGED <<lock, doc, session, inFlight, finals, gone>>

(* The final save of a session reads the lock row, which will go whatever  *)
(* its type, and only then the document with its version.                  *)
FinalSync(t) ==
    /\ finals > 0
    /\ Begin(t, Plan("released", Nobody, lock))
    /\ finals' = finals - 1
    /\ UNCHANGED <<session, inFlight, gone>>

FinalSyncReadsDocument(t) ==
    /\ tx[t].kind = "released"
    /\ doc.present
    /\ tx' = [tx EXCEPT ![t] = Plan("final", Nobody, tx[t].row)]
    /\ outrun' = outrun \ {t}
    /\ UNCHANGED <<lock, doc, session, inFlight, finals, gone, overtaken>>

(* updateContentAndRefreshCollaborativeLock: one statement that writes the *)
(* content and upserts the lock row, whatever row is there.  The foreign   *)
(* key refuses it once the document is deleted.                            *)
PeriodicSync ==
    /\ inFlight > 0
    /\ inFlight' = inFlight - 1
    /\ doc.present
    /\ lock' = NewLock("COLLABORATIVE", Nobody)
    /\ overtaken' = Open
    /\ UNCHANGED <<doc, tx, session, finals, gone, outrun>>

-------------------------------------------------------------------------------
(* Commits.  The statements name the row by document_id only, so they hit  *)
(* whatever row is there; a statement that hits no row, a duplicate key or *)
(* a missing parent fails the flush, and only Abort is left.               *)

CommitInsert(t) ==
    /\ tx[t].kind = "insert"
    /\ lock = NoLock /\ doc.present
    /\ WriteLock(t, tx[t].row) /\ KeepVersion(t) /\ End(t)
    /\ UNCHANGED <<session, inFlight, finals, gone>>

(* DELETE and INSERT of an expired row, or UPDATE of every column. *)
CommitOverwrite(t) ==
    /\ tx[t].kind \in {"replace", "update"}
    /\ lock # NoLock
    /\ WriteLock(t, tx[t].row) /\ KeepVersion(t) /\ End(t)
    /\ UNCHANGED <<session, inFlight, finals, gone>>

CommitDelete(t) ==
    /\ tx[t].kind = "delete"
    /\ lock # NoLock
    /\ WriteLock(t, NoLock) /\ KeepVersion(t) /\ End(t)
    /\ UNCHANGED <<session, inFlight, finals, gone>>

(* A mutant of CommitSave: no @Version. *)
CommitSaveUnversioned(t) ==
    /\ tx[t].kind = "save"
    /\ doc.present
    /\ BumpVersion(t) /\ KeepLock(t) /\ End(t)
    /\ UNCHANGED <<session, inFlight, finals, gone>>

(* UPDATE documents ... WHERE version = ?: the optimistic check. *)
CommitSave(t) ==
    /\ tx[t].kind = "save"
    /\ doc.present /\ doc.version = tx[t].version
    /\ BumpVersion(t) /\ KeepLock(t) /\ End(t)
    /\ UNCHANGED <<session, inFlight, finals, gone>>

CommitFinal(t) ==
    /\ tx[t].kind = "final"
    /\ doc.present /\ doc.version = tx[t].version
    /\ \/ tx[t].row = NoLock /\ KeepLock(t)
       \/ tx[t].row # NoLock /\ lock # NoLock /\ WriteLock(t, NoLock)
    /\ BumpVersion(t) /\ End(t)
    /\ session' = IF session = "ending" THEN "ended" ELSE session
    /\ UNCHANGED <<inFlight, finals, gone>>

(* A lock row the transaction did not see keeps its foreign key and fails it. *)
CommitDeleteDocument(t) ==
    /\ tx[t].kind = "deleteDocument"
    /\ doc.present /\ doc.version = tx[t].version
    /\ (tx[t].row = NoLock) <=> (lock = NoLock)
    /\ WriteLock(t, NoLock)
    /\ doc' = [doc EXCEPT !.present = FALSE]
    /\ outrun' = Open \ {t}
    /\ End(t)
    /\ UNCHANGED <<session, inFlight, finals, gone>>

(* A failed flush, a rejected collaborative lock, a lost connection. *)
Abort(t) ==
    /\ tx[t] # Idle
    /\ KeepLock(t) /\ KeepVersion(t) /\ End(t)
    /\ UNCHANGED <<session, inFlight, finals, gone>>

Commit(t) ==
    \/ CommitInsert(t) \/ CommitOverwrite(t) \/ CommitDelete(t)
    \/ CommitSave(t) \/ CommitFinal(t) \/ CommitDeleteDocument(t)

-------------------------------------------------------------------------------
(* The worker's side of a session, as far as this row can tell. *)

SendPeriodicSync ==
    /\ session = "active"
    /\ inFlight < MaxInFlight
    /\ inFlight' = inFlight + 1
    /\ UNCHANGED <<lock, doc, tx, session, finals, gone, overtaken, outrun>>

(* shutdown: the timer stops and one final save is sent. *)
EndSession ==
    /\ session = "active"
    /\ finals = 0
    /\ session' = "ending"
    /\ finals' = 1
    /\ UNCHANGED <<lock, doc, tx, inFlight, gone, overtaken, outrun>>

(* A worker crash; saves that were sent may still arrive. *)
WorkerCrash ==
    /\ session = "active"
    /\ session' = "none"
    /\ UNCHANGED <<lock, doc, tx, inFlight, finals, gone, overtaken, outrun>>

(* A save that is lost, or fails in the backend: the worker logs and goes on. *)
LoseSync ==
    /\ \/ inFlight > 0 /\ inFlight' = inFlight - 1 /\ UNCHANGED finals
       \/ finals > 0 /\ finals' = finals - 1 /\ UNCHANGED inFlight
    /\ UNCHANGED <<lock, doc, tx, session, gone, overtaken, outrun>>

BrowserDies(u) ==
    /\ u \in Mortal \ gone
    /\ gone' = gone \cup {u}
    /\ UNCHANGED <<lock, doc, tx, session, inFlight, finals, overtaken, outrun>>

(* Time passes for the row and for the rows requests are about to write. *)
Tick ==
    /\ lock' = Aged(lock)
    /\ tx' = [t \in Txns |-> [tx[t] EXCEPT !.row = Aged(tx[t].row)]]
    /\ UNCHANGED <<doc, session, inFlight, finals, gone, overtaken, outrun>>

-------------------------------------------------------------------------------
UserRequest(t, u) ==
    \/ \E type \in LockType : AcquireLock(t, u, type)
    \/ SwitchExclusiveToCollaborative(t, u)
    \/ ReleaseLock(t, u)
    \/ RefreshLock(t, u)
    \/ SaveDocument(t, u)
    \/ InitializeDocument(t, u)

Next ==
    \/ \E t \in Txns, u \in Users : UserRequest(t, u)
    \/ \E t \in Txns : \/ DeleteDocument(t)
                       \/ AcquireCollaborativeLock(t)
                       \/ FinalSync(t) \/ FinalSyncReadsDocument(t)
                       \/ Commit(t)
                       \/ Abort(t)
    \/ PeriodicSync \/ SendPeriodicSync \/ EndSession \/ WorkerCrash \/ LoseSync
    \/ \E u \in Users : BrowserDies(u)
    \/ Tick

Spec == Init /\ [][Next]_vars

(* The clock runs and no transaction stays open for ever: a request either *)
(* commits or fails.  Users and the worker owe nobody anything.            *)
Fairness ==
    /\ WF_vars(Tick)
    /\ \A t \in Txns : WF_vars(Commit(t) \/ Abort(t))

FairSpec == Spec /\ Fairness
-------------------------------------------------------------------------------
(* Properties.                                                             *)

(* Every variable keeps its type; an open request is never one that has    *)
(* been answered. *)
TypeOK ==
    /\ lock \in Lock
    /\ doc \in [present : BOOLEAN, version : 0..MaxVersion]
    /\ tx \in [Txns -> Request]
    /\ session \in {"none", "active", "ending", "ended"}
    /\ inFlight \in 0..MaxInFlight
    /\ finals \in 0..1
    /\ gone \subseteq Users
    /\ overtaken \subseteq Open
    /\ outrun \subseteq Open

(* The row a request would write. *)
Rows == {lock} \cup {tx[t].row : t \in Txns}

(* An exclusive row names its holder and no other row names anybody, in    *)
(* the database and in every row a pending UPDATE would write back: the    *)
(* getLockedByUser() == null tests of LockService never fire, and no       *)
(* interleaving leaves an exclusive lock that nobody can refresh or save   *)
(* under.                                                                  *)
ExclusiveRowsHaveAHolder ==
    \A row \in Rows : (row.type = "EXCLUSIVE") <=> (row.holder # Nobody)

(* A request to take or keep the lock that is not outrun by another write  *)
(* of the row never ends an unexpired lock of somebody else: acquireLock,  *)
(* refreshLock, switchExclusiveToCollaborative and acquireCollaborative-   *)
(* Lock take a valid lock over only from the caller itself.                *)
OnlyStaleReadersSteal ==
    [][\A t \in Txns :
          /\ tx[t].kind \in {"insert", "replace", "update"}
          /\ tx'[t] = Idle
          /\ Valid(lock)
          /\ <<lock'.type, lock'.holder>> # <<lock.type, lock.holder>>
          => t \in overtaken \/ HeldBy(lock, tx[t].user)]_vars

(* Of two versioned writes that overlap (saves of users, the final save of *)
(* a session, the deletion) at most one commits: @Version makes the other  *)
(* fail, also when the lock changed hands between its check and its commit.*)
OverlappingSavesNeverBothCommit ==
    [][\A t \in Txns :
          /\ tx[t].kind \in {"save", "final", "deleteDocument"}
          /\ tx'[t] = Idle
          /\ doc' # doc
          => t \notin outrun]_vars

(* A save that commits although its lock was never written while it ran is *)
(* still covered at its commit: by the saver's own exclusive lock or by a  *)
(* collaborative one, expired at worst, never gone or somebody else's.     *)
UndisturbedSaveIsCovered ==
    [][\A t \in Txns \ overtaken :
          CommitSave(t) => /\ lock # NoLock
                           /\ lock.type = "EXCLUSIVE" => lock.holder = tx[t].user]_vars

(* What makes the three action properties inductive.  A request that no    *)
(* other write of the row has overtaken still sees what it read, up to     *)
(* ageing; one that was outrun holds an old version.                       *)
Fits(plan) ==
    /\ plan.kind = "insert" => lock = NoLock
    /\ plan.kind = "replace" => ~Valid(lock)
    /\ plan.kind = "update" =>
          \/ lock.type = plan.row.type /\ lock.holder = plan.row.holder
          \/ lock.type = "EXCLUSIVE" /\ lock.holder = plan.user
    /\ plan.kind = "save" =>
          /\ lock # NoLock
          /\ lock.type = "EXCLUSIVE" => lock.holder = plan.user

FreshReadsFit == \A t \in Open \ overtaken : Fits(tx[t])

OutrunVersionsAreOld ==
    /\ \A t \in Txns : tx[t].version <= doc.version
    /\ \A t \in outrun : tx[t].version < doc.version \/ ~doc.present

IInv ==
    /\ TypeOK
    /\ ExclusiveRowsHaveAHolder
    /\ FreshReadsFit
    /\ OutrunVersionsAreOld

(* documents.md, "locks expire to prevent a document staying locked        *)
(* forever": the exclusive lock of a user whose browser died ends, for     *)
(* good; nobody else's requests can keep it alive.                         *)
DeadHolderLosesLock ==
    \A u \in Users : u \in gone ~> [](~HeldBy(lock, u))
===============================================================================
