-------------------------- MODULE DocumentLockProofs --------------------------
(***************************************************************************)
(* Theorems about DocumentLock, for every set of users and of concurrent   *)
(* requests, every lease and every bound.  The inductive invariant is IInv;*)
(* its preservation is split by what a step does to the requests: it opens *)
(* one (Begin), closes one (End), or leaves them open.                     *)
(***************************************************************************)
EXTENDS DocumentLock, TLAPS

(* The part of TypeOK about the worker and the browsers. *)
EnvOK ==
    /\ session \in {"none", "active", "ending", "ended"}
    /\ inFlight \in 0..MaxInFlight
    /\ finals \in 0..1
    /\ gone \subseteq Users

(* A row whose holder matches its type. *)
Named(row) == (row.type = "EXCLUSIVE") <=> (row.holder # Nobody)

(* Ageing a row touches nothing but what is left of its lease. *)
LEMMA AgedLock ==
    ASSUME NEW row \in Lock
    PROVE  /\ Aged(row) \in Lock
           /\ Aged(row).type = row.type
           /\ Aged(row).holder = row.holder
           /\ (Aged(row) = NoLock) <=> (row = NoLock)
           /\ Valid(Aged(row)) => Valid(row)
  BY LockAssumption DEF Aged, Lock, LockType, NoLock, Valid

(* The rows the service writes are rows, and name a holder iff exclusive. *)
LEMMA NewLockRow ==
    ASSUME NEW type \in LockType, NEW u \in Users \cup {Nobody},
           type = "EXCLUSIVE" => u \in Users
    PROVE  /\ NewLock(type, u) \in Lock
           /\ Named(NewLock(type, u))
           /\ NewLock(type, u) # NoLock
           /\ NewLock(type, u).type = type
           /\ type = "EXCLUSIVE" => NewLock(type, u).holder = u
  BY LockAssumption DEF NewLock, Lock, LockType, NoLock, Named

LEMMA RenewedRow ==
    ASSUME NEW row \in Lock, row # NoLock
    PROVE  /\ Renewed(row) \in Lock
           /\ Renewed(row).type = row.type
           /\ Renewed(row).holder = row.holder
  BY LockAssumption DEF Renewed, Lock, LockType, NoLock

LEMMA NoLockRow == NoLock \in Lock /\ Named(NoLock)
  BY LockAssumption DEF Lock, NoLock, Named

LEMMA InitInv == Init => IInv
  <1> SUFFICES ASSUME Init PROVE IInv
    OBVIOUS
  <1>1. Idle \in Request /\ Idle.row = NoLock /\ Idle.version = 0
    BY LockAssumption, NoLockRow DEF Idle, Request
  <1>2. TypeOK
    BY <1>1, NoLockRow, LockAssumption DEF Init, TypeOK, Open
  <1>3. ExclusiveRowsHaveAHolder
    BY <1>1, NoLockRow DEF Init, ExclusiveRowsHaveAHolder, Rows, Named
  <1>4. FreshReadsFit
    BY DEF Init, FreshReadsFit, Open
  <1>5. OutrunVersionsAreOld
    BY <1>1 DEF Init, OutrunVersionsAreOld
  <1> QED
    BY <1>2, <1>3, <1>4, <1>5 DEF IInv

(* Opening a request keeps the invariant when its plan fits what was read. *)
LEMMA BeginInv ==
    ASSUME IInv, EnvOK', NEW t \in Txns, NEW plan \in Request,
           plan.kind # "idle", plan.version = doc.version,
           Named(plan.row), Fits(plan), Begin(t, plan)
    PROVE  IInv'
  <1> USE DEF Begin
  <1>0. plan # Idle
    BY DEF Idle
  <1>1. Open' = Open \cup {t} /\ t \notin Open
    BY <1>0 DEF Open, IInv, TypeOK
  <1>2. TypeOK'
    BY <1>1 DEF IInv, TypeOK, EnvOK
  <1>3. ExclusiveRowsHaveAHolder'
    <2>1. \A r \in Rows' : r \in Rows \/ r = plan.row
      BY DEF Rows, IInv, TypeOK
    <2> QED
      BY <2>1 DEF IInv, ExclusiveRowsHaveAHolder, Named
  <1>4. FreshReadsFit'
    <2> SUFFICES ASSUME NEW s \in Open' \ overtaken' PROVE Fits(tx[s])'
      BY DEF FreshReadsFit
    <2>1. CASE s = t
      BY <2>1 DEF Fits, Valid, IInv, TypeOK
    <2>2. CASE s # t
      <3>1. s \in Open \ overtaken /\ tx'[s] = tx[s]
        BY <2>2, <1>1 DEF IInv, TypeOK, Open
      <3> QED
        BY <3>1 DEF IInv, FreshReadsFit, Fits, Valid
    <2> QED
      BY <2>1, <2>2
  <1>5. OutrunVersionsAreOld'
    <2>1. t \notin outrun
      BY <1>1 DEF IInv, TypeOK
    <2>2. \A s \in Txns : tx'[s].version <= doc.version
      BY DEF IInv, TypeOK, OutrunVersionsAreOld, Request
    <2> QED
      BY <2>1, <2>2, <1>1 DEF IInv, TypeOK, OutrunVersionsAreOld, Open
  <1> QED
    BY <1>2, <1>3, <1>4, <1>5 DEF IInv

(* How a step that closes request t may treat the row and the document. *)
LockPart(t) ==
    \/ KeepLock(t)
    \/ \E row \in Lock : Named(row) /\ WriteLock(t, row)

VersionPart(t) ==
    \/ KeepVersion(t)
    \/ /\ doc' \in [present : BOOLEAN, version : 0..MaxVersion]
       /\ doc'.version >= doc.version
       /\ doc'.version > doc.version \/ ~doc'.present
       /\ outrun' = Open \ {t}

(* Closing a request keeps the invariant, whatever it wrote. *)
LEMMA EndInv ==
    ASSUME IInv, EnvOK', NEW t \in Txns, End(t), LockPart(t), VersionPart(t)
    PROVE  IInv'
  <1> USE DEF End
  <1>0. Idle \in Request /\ Idle.row = NoLock /\ Idle.version = 0 /\ Idle.kind = "idle"
    BY LockAssumption, NoLockRow DEF Idle, Request
  <1>1. Open' = Open \ {t} /\ tx' \in [Txns -> Request]
    BY <1>0 DEF Open, IInv, TypeOK
  <1>2. lock' \in Lock /\ Named(lock')
    BY DEF LockPart, KeepLock, WriteLock, IInv, TypeOK,
           ExclusiveRowsHaveAHolder, Rows, Named
  <1>3. overtaken' \subseteq Open' /\ outrun' \subseteq Open'
    BY <1>1 DEF LockPart, KeepLock, WriteLock, VersionPart, KeepVersion, IInv, TypeOK
  <1>4. doc' \in [present : BOOLEAN, version : 0..MaxVersion] /\ doc'.version >= doc.version
    BY LockAssumption DEF VersionPart, KeepVersion, IInv, TypeOK
  <1>5. TypeOK'
    BY <1>1, <1>2, <1>3, <1>4 DEF TypeOK, EnvOK
  <1>6. ExclusiveRowsHaveAHolder'
    <2>1. \A r \in Rows' : r = lock' \/ r \in Rows \/ r = NoLock
      BY <1>0 DEF Rows, IInv, TypeOK
    <2> QED
      BY <2>1, <1>2, NoLockRow DEF IInv, ExclusiveRowsHaveAHolder, Named
  <1>7. FreshReadsFit'
    <2>1. CASE KeepLock(t)
      <3> SUFFICES ASSUME NEW s \in Open' \ overtaken' PROVE Fits(tx[s])'
        BY DEF FreshReadsFit
      <3>1. s \in Open \ overtaken /\ tx'[s] = tx[s]
        BY <2>1, <1>1 DEF KeepLock, IInv, TypeOK, Open
      <3> QED
        BY <2>1, <3>1 DEF KeepLock, IInv, FreshReadsFit, Fits, Valid
    <2>2. CASE overtaken' = Open \ {t}
      BY <2>2, <1>1 DEF FreshReadsFit
    <2> QED
      BY <2>1, <2>2 DEF LockPart, WriteLock
  <1>8. OutrunVersionsAreOld'
    <2>1. \A s \in Txns : tx'[s].version <= doc'.version
      <3> SUFFICES ASSUME NEW s \in Txns PROVE tx'[s].version <= doc'.version
        OBVIOUS
      <3>1. tx[s].version \in Nat /\ doc.version \in Nat /\ doc'.version \in Nat
        BY <1>4, LockAssumption DEF IInv, TypeOK, Request
      <3>2. tx'[s] = tx[s] \/ tx'[s] = Idle
        BY DEF IInv, TypeOK
      <3> QED
        BY <3>1, <3>2, <1>0, <1>4 DEF IInv, OutrunVersionsAreOld
    <2>2. \A s \in outrun' : tx'[s].version < doc'.version \/ ~doc'.present
      <3> SUFFICES ASSUME NEW s \in outrun'
                   PROVE  tx'[s].version < doc'.version \/ ~doc'.present
        OBVIOUS
      <3>1. s \in Txns /\ s # t /\ tx'[s] = tx[s]
        BY <1>1, <1>3 DEF IInv, TypeOK, Open
      <3>2. tx[s].version \in Nat /\ doc.version \in Nat /\ doc'.version \in Nat
        BY <3>1, <1>4, LockAssumption DEF IInv, TypeOK, Request
      <3>3. CASE KeepVersion(t)
        BY <3>1, <3>3 DEF KeepVersion, IInv, OutrunVersionsAreOld
      <3>4. CASE doc'.version > doc.version \/ ~doc'.present
        BY <3>1, <3>2, <3>4 DEF IInv, OutrunVersionsAreOld
      <3> QED
        BY <3>3, <3>4 DEF VersionPart
    <2> QED
      BY <2>1, <2>2 DEF OutrunVersionsAreOld
  <1> QED
    BY <1>5, <1>6, <1>7, <1>8 DEF IInv

(* What the lock row is while the invariant holds. *)
LEMMA LockRow ==
    ASSUME IInv
    PROVE  /\ lock \in Lock /\ Named(lock)
           /\ lock # NoLock => lock.type \in LockType
           /\ ~Expired(lock) /\ ~Valid(lock) => lock = NoLock
           /\ Valid(lock) => lock # NoLock
           /\ Expired(lock) => lock # NoLock /\ ~Valid(lock)
           /\ Idle.user = Nobody
  BY LockAssumption DEF IInv, TypeOK, ExclusiveRowsHaveAHolder, Rows, Named,
                        Lock, LockType, NoLock, Expired, Valid, Idle

(* The plan of a request: its shape and its version. *)
LEMMA PlanShape ==
    ASSUME IInv, NEW kind \in Kind, NEW u \in Users \cup {Nobody}, NEW row \in Lock
    PROVE  /\ Plan(kind, u, row) \in Request
           /\ Plan(kind, u, row).kind = kind /\ kind # "idle"
           /\ Plan(kind, u, row).user = u
           /\ Plan(kind, u, row).row = row
           /\ Plan(kind, u, row).version = doc.version
  BY DEF Plan, Request, Kind, IInv, TypeOK

(* Each user request opens a transaction whose plan fits the row it read. *)
LEMMA UserRequestInv ==
    ASSUME IInv, NEW t \in Txns, NEW u \in Users, UserRequest(t, u)
    PROVE  IInv'
  <1> USE LockRow
  <1>1. EnvOK'
    BY DEF UserRequest, AcquireLock, SwitchExclusiveToCollaborative, ReleaseLock,
           RefreshLock, SaveDocument, InitializeDocument, EnvOK, IInv, TypeOK
  <1>2. ASSUME NEW kind \in Kind, NEW row \in Lock, Named(row),
               Fits(Plan(kind, u, row)), Begin(t, Plan(kind, u, row))
        PROVE  IInv'
    BY <1>1, <1>2, PlanShape, BeginInv
  <1>3. ASSUME NEW type \in LockType, AcquireLock(t, u, type)
        PROVE  IInv'
    <2>1. CASE lock = NoLock /\ Begin(t, Plan("insert", u, NewLock(type, u)))
      BY <2>1, <1>2, NewLockRow, PlanShape DEF Fits, Kind
    <2>2. CASE Expired(lock) /\ Begin(t, Plan("replace", u, NewLock(type, u)))
      BY <2>2, <1>2, NewLockRow, PlanShape DEF Fits, Kind
    <2>3. CASE Valid(lock) /\ Begin(t, Plan("update", u, Renewed(lock)))
      <3>1. Renewed(lock) \in Lock /\ Named(Renewed(lock))
        BY <2>3, RenewedRow DEF Named
      <3>2. Fits(Plan("update", u, Renewed(lock)))
        BY <2>3, <3>1, RenewedRow, PlanShape DEF Fits, Kind
      <3> QED
        BY <2>3, <3>1, <3>2, <1>2 DEF Kind
    <2>4. CASE HeldBy(lock, u) /\ Begin(t, Plan("update", u, NewLock(type, u)))
      BY <2>4, <1>2, NewLockRow, PlanShape DEF Fits, Kind, HeldBy
    <2> QED
      BY <1>3, <2>1, <2>2, <2>3, <2>4 DEF AcquireLock
  <1>4. CASE SwitchExclusiveToCollaborative(t, u)
    <2>1. "COLLABORATIVE" \in LockType
      BY DEF LockType
    <2> QED
      BY <1>4, <2>1, <1>2, NewLockRow, PlanShape
         DEF SwitchExclusiveToCollaborative, Fits, Kind, HeldBy
  <1>5. CASE ReleaseLock(t, u)
    BY <1>5, <1>2, PlanShape DEF ReleaseLock, Fits, Kind
  <1>6. CASE RefreshLock(t, u)
    <2>0. "EXCLUSIVE" \in LockType
      BY DEF LockType
    <2>1. CASE lock = NoLock /\ Begin(t, Plan("insert", u, NewLock("EXCLUSIVE", u)))
      BY <2>0, <2>1, <1>2, NewLockRow, PlanShape DEF Fits, Kind
    <2>2. CASE Expired(lock) /\ Begin(t, Plan("replace", u, NewLock(lock.type, u)))
      BY <2>2, <1>2, NewLockRow, PlanShape DEF Fits, Kind
    <2>3. CASE Valid(lock) /\ Begin(t, Plan("update", u, Renewed(lock)))
      <3>1. Renewed(lock) \in Lock /\ Named(Renewed(lock))
        BY <2>3, RenewedRow DEF Named
      <3>2. Fits(Plan("update", u, Renewed(lock)))
        BY <2>3, <3>1, RenewedRow, PlanShape DEF Fits, Kind
      <3> QED
        BY <2>3, <3>1, <3>2, <1>2 DEF Kind
    <2> QED
      BY <1>6, <2>1, <2>2, <2>3 DEF RefreshLock, HeldBy
  <1>7. CASE SaveDocument(t, u)
    BY <1>7, <1>2, PlanShape DEF SaveDocument, Fits, Kind
  <1>8. CASE InitializeDocument(t, u)
    BY <1>8, <1>2, PlanShape, NoLockRow DEF InitializeDocument, Fits, Kind
  <1> QED
    BY <1>3, <1>4, <1>5, <1>6, <1>7, <1>8 DEF UserRequest

LEMMA DeleteDocumentInv ==
    ASSUME IInv, NEW t \in Txns, DeleteDocument(t)
    PROVE  IInv'
  <1>1. EnvOK'
    BY DEF DeleteDocument, EnvOK, IInv, TypeOK
  <1>2. Owner \in Users
    BY LockAssumption
  <1> QED
    BY <1>1, <1>2, LockRow, PlanShape, BeginInv DEF DeleteDocument, Fits, Kind

LEMMA FinalSyncInv ==
    ASSUME IInv, NEW t \in Txns, FinalSync(t)
    PROVE  IInv'
  <1>1. EnvOK'
    BY DEF FinalSync, EnvOK, IInv, TypeOK
  <1> QED
    BY <1>1, LockRow, PlanShape, BeginInv DEF FinalSync, Fits, Kind

(* The final save reads the document anew: its version is not outrun yet. *)
LEMMA FinalSyncReadsDocumentInv ==
    ASSUME IInv, NEW t \in Txns, FinalSyncReadsDocument(t)
    PROVE  IInv'
  <1> DEFINE plan == Plan("final", Nobody, tx[t].row)
  <1>0. tx[t].row \in Lock
    BY DEF IInv, TypeOK, Request
  <1>1. /\ plan \in Request /\ plan.kind = "final" /\ plan.row = tx[t].row
        /\ plan.version = doc.version /\ plan # Idle
    BY <1>0, PlanShape DEF Idle, Kind
  <1>2. /\ tx' = [tx EXCEPT ![t] = plan] /\ outrun' = outrun \ {t}
        /\ UNCHANGED <<lock, doc, session, inFlight, finals, gone, overtaken>>
        /\ tx[t].kind = "released"
    BY DEF FinalSyncReadsDocument
  <1> HIDE DEF plan
  <1>3. Open' = Open /\ tx' \in [Txns -> Request]
    BY <1>1, <1>2 DEF Open, IInv, TypeOK, Idle
  <1>4. TypeOK'
    BY <1>2, <1>3 DEF IInv, TypeOK
  <1>5. ExclusiveRowsHaveAHolder'
    <2>1. \A s \in Txns : tx'[s].row = tx[s].row
      BY <1>1, <1>2 DEF IInv, TypeOK
    <2>2. Rows' = Rows
      BY <2>1, <1>2 DEF Rows
    <2> QED
      BY <2>2 DEF IInv, ExclusiveRowsHaveAHolder
  <1>6. FreshReadsFit'
    <2> SUFFICES ASSUME NEW s \in Open' \ overtaken' PROVE Fits(tx[s])'
      BY DEF FreshReadsFit
    <2>1. CASE s = t
      BY <2>1, <1>1, <1>2 DEF Fits, IInv, TypeOK
    <2>2. CASE s # t
      <3>1. s \in Open \ overtaken /\ tx'[s] = tx[s]
        BY <2>2, <1>2, <1>3 DEF IInv, TypeOK, Open
      <3> QED
        BY <3>1, <1>2 DEF IInv, FreshReadsFit, Fits, Valid
    <2> QED
      BY <2>1, <2>2
  <1>7. OutrunVersionsAreOld'
    <2>1. \A s \in Txns : tx'[s].version <= doc.version
      BY <1>1, <1>2 DEF IInv, TypeOK, OutrunVersionsAreOld, Request
    <2> QED
      BY <2>1, <1>2, <1>3 DEF IInv, TypeOK, OutrunVersionsAreOld, Open
  <1> QED
    BY <1>4, <1>5, <1>6, <1>7 DEF IInv

(* A closing request writes its own row, no row, or leaves the row alone. *)
LEMMA CommitInv ==
    ASSUME IInv, NEW t \in Txns, Commit(t) \/ Abort(t)
    PROVE  IInv'
  <1>1. EnvOK'
    BY DEF Commit, Abort, CommitInsert, CommitOverwrite, CommitDelete, CommitSave,
           CommitFinal, CommitDeleteDocument, EnvOK, IInv, TypeOK
  <1>2. End(t)
    BY DEF Commit, Abort, CommitInsert, CommitOverwrite, CommitDelete, CommitSave,
           CommitFinal, CommitDeleteDocument
  <1>3. LockPart(t)
    <2>1. tx[t].row \in Lock /\ Named(tx[t].row)
      <3>1. tx[t].row \in Rows
        BY DEF Rows
      <3> QED
        BY <3>1 DEF IInv, TypeOK, Request, ExclusiveRowsHaveAHolder, Named
    <2> QED
      BY <2>1, NoLockRow
         DEF LockPart, Commit, Abort, CommitInsert, CommitOverwrite, CommitDelete,
             CommitSave, CommitFinal, CommitDeleteDocument
  <1>4. VersionPart(t)
    <2>0. /\ doc \in [present : BOOLEAN, version : 0..MaxVersion]
          /\ doc.version \in Nat /\ MaxVersion \in Nat
      BY LockAssumption DEF IInv, TypeOK
    <2>1. CASE KeepVersion(t)
      BY <2>1 DEF VersionPart
    <2>2. CASE BumpVersion(t)
      <3>1. doc'.version = doc.version + 1 /\ doc'.present = doc.present
        BY <2>0, <2>2 DEF BumpVersion
      <3>2. doc' \in [present : BOOLEAN, version : 0..MaxVersion]
        BY <2>0, <2>2 DEF BumpVersion
      <3> QED
        BY <2>0, <2>2, <3>1, <3>2 DEF BumpVersion, VersionPart
    <2>3. CASE CommitDeleteDocument(t)
      <3>1. /\ doc' \in [present : BOOLEAN, version : 0..MaxVersion]
            /\ doc'.version = doc.version /\ ~doc'.present
        BY <2>0, <2>3 DEF CommitDeleteDocument
      <3> QED
        BY <2>0, <2>3, <3>1 DEF CommitDeleteDocument, VersionPart
    <2> QED
      BY <2>1, <2>2, <2>3 DEF Commit, Abort, CommitInsert, CommitOverwrite,
                              CommitDelete, CommitSave, CommitFinal
  <1> QED
    BY <1>1, <1>2, <1>3, <1>4, EndInv

(* The proxy's own transaction: it reads the row when the worker answers. *)
LEMMA AcquireCollaborativeLockInv ==
    ASSUME IInv, NEW t \in Txns, AcquireCollaborativeLock(t)
    PROVE  IInv'
  <1>0. NewLock("COLLABORATIVE", Nobody) \in Lock /\ Named(NewLock("COLLABORATIVE", Nobody))
    BY NewLockRow DEF LockType
  <1>1. PICK kind \in {"insert", "replace", "update"}, row \in Lock :
          /\ tx' = [tx EXCEPT ![t] = Plan(kind, tx[t].user, row)]
          /\ Named(row)
          /\ kind = "insert" => lock = NoLock
          /\ kind = "replace" => ~Valid(lock)
          /\ kind = "update" => lock.type = row.type /\ lock.holder = row.holder
    BY <1>0, LockRow, RenewedRow DEF AcquireCollaborativeLock, Named
  <1> DEFINE plan == Plan(kind, tx[t].user, row)
  <1>2. /\ plan \in Request /\ plan.kind = kind /\ plan.row = row
        /\ plan.version = doc.version /\ plan # Idle
    <2>1. tx[t].user \in Users \cup {Nobody} /\ kind \in Kind /\ kind # "idle"
      BY DEF IInv, TypeOK, Request, Kind
    <2> QED
      BY <2>1, PlanShape DEF Idle
  <1>3. /\ overtaken' = overtaken \ {t} /\ outrun' = outrun \ {t}
        /\ UNCHANGED <<lock, doc, session, inFlight, finals, gone>>
        /\ tx[t].kind = "initialized"
    BY DEF AcquireCollaborativeLock
  <1> HIDE DEF plan
  <1>4. Open' = Open /\ tx' \in [Txns -> Request] /\ tx' = [tx EXCEPT ![t] = plan]
    BY <1>1, <1>2, <1>3 DEF Open, IInv, TypeOK, Idle, plan
  <1>5. TypeOK'
    BY <1>3, <1>4 DEF IInv, TypeOK
  <1>6. ExclusiveRowsHaveAHolder'
    <2>1. \A r \in Rows' : r \in Rows \/ r = row
      BY <1>2, <1>3, <1>4 DEF Rows, IInv, TypeOK
    <2> QED
      BY <2>1, <1>1 DEF IInv, ExclusiveRowsHaveAHolder, Named
  <1>7. FreshReadsFit'
    <2> SUFFICES ASSUME NEW s \in Open' \ overtaken' PROVE Fits(tx[s])'
      BY DEF FreshReadsFit
    <2>1. CASE s = t
      BY <2>1, <1>1, <1>2, <1>3, <1>4 DEF Fits, Valid, IInv, TypeOK
    <2>2. CASE s # t
      <3>1. s \in Open \ overtaken /\ tx'[s] = tx[s]
        BY <2>2, <1>3, <1>4 DEF IInv, TypeOK, Open
      <3> QED
        BY <3>1, <1>3 DEF IInv, FreshReadsFit, Fits, Valid
    <2> QED
      BY <2>1, <2>2
  <1>8. OutrunVersionsAreOld'
    <2>1. \A s \in Txns : tx'[s].version <= doc.version
      BY <1>2, <1>4 DEF IInv, TypeOK, OutrunVersionsAreOld, Request
    <2> QED
      BY <2>1, <1>3, <1>4 DEF IInv, TypeOK, OutrunVersionsAreOld, Open
  <1> QED
    BY <1>5, <1>6, <1>7, <1>8 DEF IInv

(* The worker's statement overtakes every open request. *)
LEMMA PeriodicSyncInv ==
    ASSUME IInv, PeriodicSync
    PROVE  IInv'
  <1>1. NewLock("COLLABORATIVE", Nobody) \in Lock /\ Named(NewLock("COLLABORATIVE", Nobody))
    BY NewLockRow DEF LockType
  <1>2. TypeOK'
    BY <1>1, LockAssumption DEF PeriodicSync, IInv, TypeOK, Open
  <1>3. ExclusiveRowsHaveAHolder'
    BY <1>1 DEF PeriodicSync, IInv, ExclusiveRowsHaveAHolder, Rows, Named
  <1>4. FreshReadsFit' /\ OutrunVersionsAreOld'
    BY DEF PeriodicSync, IInv, FreshReadsFit, OutrunVersionsAreOld, Open
  <1> QED
    BY <1>2, <1>3, <1>4 DEF IInv

(* The worker and the browsers leave the row and the requests alone. *)
LEMMA EnvironmentInv ==
    ASSUME IInv,
           \/ SendPeriodicSync \/ EndSession \/ WorkerCrash \/ LoseSync
           \/ \E u \in Users : BrowserDies(u)
    PROVE  IInv'
  <1>1. UNCHANGED <<lock, doc, tx, overtaken, outrun>>
    BY DEF SendPeriodicSync, EndSession, WorkerCrash, LoseSync, BrowserDies
  <1>2. EnvOK'
    BY LockAssumption DEF SendPeriodicSync, EndSession, WorkerCrash, LoseSync,
                          BrowserDies, EnvOK, IInv, TypeOK
  <1> QED
    BY <1>1, <1>2 DEF IInv, TypeOK, EnvOK, Open, ExclusiveRowsHaveAHolder, Rows,
                      FreshReadsFit, Fits, Valid, OutrunVersionsAreOld

(* Time ages the rows and changes neither their types nor their holders. *)
LEMMA TickInv ==
    ASSUME IInv, Tick
    PROVE  IInv'
  <1>1. /\ lock' \in Lock /\ lock'.type = lock.type /\ lock'.holder = lock.holder
        /\ (lock' = NoLock) <=> (lock = NoLock)
        /\ Valid(lock') => Valid(lock)
    BY AgedLock DEF Tick, IInv, TypeOK
  <1>2. ASSUME NEW s \in Txns
        PROVE  /\ tx'[s] \in Request
               /\ tx'[s].kind = tx[s].kind /\ tx'[s].user = tx[s].user
               /\ tx'[s].version = tx[s].version
               /\ tx'[s].row.type = tx[s].row.type
               /\ tx'[s].row.holder = tx[s].row.holder
               /\ (tx'[s] = Idle) <=> (tx[s] = Idle)
    <2>1. tx[s] \in Request /\ tx[s].row \in Lock
      BY DEF IInv, TypeOK, Request
    <2>2. tx'[s] = [tx[s] EXCEPT !.row = Aged(tx[s].row)]
      BY DEF Tick
    <2>3. /\ Aged(tx[s].row) \in Lock
          /\ Aged(tx[s].row).type = tx[s].row.type
          /\ Aged(tx[s].row).holder = tx[s].row.holder
          /\ (Aged(tx[s].row) = NoLock) <=> (tx[s].row = NoLock)
      BY <2>1, AgedLock
    <2> QED
      BY <2>1, <2>2, <2>3 DEF Request, Idle
  <1>3. Open' = Open /\ tx' \in [Txns -> Request]
    BY <1>2 DEF Open, Tick
  <1>4. TypeOK'
    BY <1>1, <1>3 DEF Tick, IInv, TypeOK
  <1>5. ExclusiveRowsHaveAHolder'
    BY <1>1, <1>2 DEF IInv, ExclusiveRowsHaveAHolder, Rows
  <1>6. FreshReadsFit'
    <2> SUFFICES ASSUME NEW s \in Open' \ overtaken' PROVE Fits(tx[s])'
      BY DEF FreshReadsFit
    <2>1. s \in Open \ overtaken /\ s \in Txns
      BY <1>3 DEF Tick, Open
    <2>2. Fits(tx[s])
      BY <2>1 DEF IInv, FreshReadsFit
    <2>3. Valid(lock)' => Valid(lock)
      BY <1>1 DEF Valid, NoLock
    <2> QED
      BY <1>1, <1>2, <2>1, <2>2, <2>3 DEF Fits
  <1>7. OutrunVersionsAreOld'
    BY <1>2, <1>3 DEF Tick, IInv, TypeOK, OutrunVersionsAreOld, Open
  <1> QED
    BY <1>4, <1>5, <1>6, <1>7 DEF IInv

LEMMA NextInv == IInv /\ [Next]_vars => IInv'
  <1> SUFFICES ASSUME IInv, [Next]_vars PROVE IInv'
    OBVIOUS
  <1>1. CASE \E t \in Txns, u \in Users : UserRequest(t, u)
    BY <1>1, UserRequestInv
  <1>2. CASE \E t \in Txns : \/ DeleteDocument(t) \/ AcquireCollaborativeLock(t)
                            \/ FinalSync(t) \/ FinalSyncReadsDocument(t)
                            \/ Commit(t) \/ Abort(t)
    BY <1>2, DeleteDocumentInv, AcquireCollaborativeLockInv, FinalSyncInv,
       FinalSyncReadsDocumentInv, CommitInv
  <1>3. CASE PeriodicSync
    BY <1>3, PeriodicSyncInv
  <1>4. CASE \/ SendPeriodicSync \/ EndSession \/ WorkerCrash \/ LoseSync
             \/ \E u \in Users : BrowserDies(u)
    BY <1>4, EnvironmentInv
  <1>5. CASE Tick
    BY <1>5, TickInv
  <1>6. CASE UNCHANGED vars
    BY <1>6 DEF vars, IInv, TypeOK, Open, ExclusiveRowsHaveAHolder, Rows,
                FreshReadsFit, Fits, Valid, OutrunVersionsAreOld
  <1> QED
    BY <1>1, <1>2, <1>3, <1>4, <1>5, <1>6 DEF Next

(* The inductive invariant: everything below follows from it. *)
THEOREM Invariant == Spec => []IInv
  BY InitInv, NextInv, PTL DEF Spec

(* The rows, the document, the requests and the worker keep their types. *)
THEOREM TypeCorrect == Spec => []TypeOK
  BY Invariant, PTL DEF IInv

(* No interleaving of requests leaves, or is about to write, an exclusive  *)
(* lock without a holder or a collaborative one with a holder.             *)
THEOREM HoldersMatchTypes == Spec => []ExclusiveRowsHaveAHolder
  BY Invariant, PTL DEF IInv
-------------------------------------------------------------------------------

(* Only its own commit or rollback ends a request. *)
LEMMA Closing ==
    ASSUME IInv, [Next]_vars, NEW t \in Txns, tx[t] # Idle, tx'[t] = Idle
    PROVE  Commit(t) \/ Abort(t)
  <1>1. ASSUME NEW s \in Txns, NEW plan, Begin(s, plan)
        PROVE  FALSE
    BY <1>1 DEF Begin, IInv, TypeOK
  <1>2. ~\E s \in Txns, u \in Users : UserRequest(s, u)
    BY <1>1 DEF UserRequest, AcquireLock, SwitchExclusiveToCollaborative, ReleaseLock,
               RefreshLock, SaveDocument, InitializeDocument
  <1>3. ~\E s \in Txns : DeleteDocument(s) \/ FinalSync(s)
    BY <1>1 DEF DeleteDocument, FinalSync
  <1>4. ASSUME NEW s \in Txns, AcquireCollaborativeLock(s) \/ FinalSyncReadsDocument(s)
        PROVE  FALSE
    BY <1>4 DEF AcquireCollaborativeLock, FinalSyncReadsDocument, Plan, Idle, IInv, TypeOK
  <1>5. ASSUME NEW s \in Txns, Commit(s) \/ Abort(s)
        PROVE  s = t
    <2>1. End(s)
      BY <1>5 DEF Commit, Abort, CommitInsert, CommitOverwrite, CommitDelete,
                  CommitSave, CommitFinal, CommitDeleteDocument
    <2> QED
      BY <2>1 DEF End, IInv, TypeOK
  <1>6. ASSUME Tick
        PROVE  FALSE
    <2>1. tx[t] \in Request /\ tx[t].row \in Lock
      BY DEF IInv, TypeOK, Request
    <2>2. tx'[t] = [tx[t] EXCEPT !.row = Aged(tx[t].row)]
      BY <1>6 DEF Tick
    <2> QED
      BY <2>1, <2>2, AgedLock DEF Request, Idle
  <1>7. CASE \/ PeriodicSync \/ SendPeriodicSync \/ EndSession \/ WorkerCrash
             \/ LoseSync \/ (\E u \in Users : BrowserDies(u)) \/ UNCHANGED vars
    BY <1>7 DEF PeriodicSync, SendPeriodicSync, EndSession, WorkerCrash, LoseSync,
                BrowserDies, vars
  <1> QED
    BY <1>2, <1>3, <1>4, <1>5, <1>6, <1>7 DEF Next

(* The body of OnlyStaleReadersSteal. *)
NoSteal(t) ==
    /\ tx[t].kind \in {"insert", "replace", "update"}
    /\ tx'[t] = Idle
    /\ Valid(lock)
    /\ <<lock'.type, lock'.holder>> # <<lock.type, lock.holder>>
    => t \in overtaken \/ HeldBy(lock, tx[t].user)

LEMMA NoStealStep ==
    ASSUME IInv, [Next]_vars, NEW t \in Txns
    PROVE  NoSteal(t)
  <1> SUFFICES ASSUME tx[t].kind \in {"insert", "replace", "update"},
                      tx'[t] = Idle, Valid(lock),
                      <<lock'.type, lock'.holder>> # <<lock.type, lock.holder>>,
                      t \notin overtaken
               PROVE  HeldBy(lock, tx[t].user)
    BY DEF NoSteal
  <1>1. tx[t] # Idle
    BY DEF Idle
  <1>2. Fits(tx[t])
    BY <1>1 DEF IInv, FreshReadsFit, Open
  <1>3. lock # NoLock
    BY LockRow
  <1>4. CommitInsert(t) \/ CommitOverwrite(t)
    <2>1. lock' # lock
      OBVIOUS
    <2> QED
      BY <2>1, <1>1, Closing DEF Commit, Abort, CommitDelete, CommitSave, CommitFinal,
                      CommitDeleteDocument, KeepLock
  <1>5. CommitOverwrite(t)
    BY <1>3, <1>4 DEF CommitInsert
  <1>6. tx[t].kind = "update" /\ lock' = tx[t].row
    BY <1>2, <1>5 DEF CommitOverwrite, WriteLock, Fits
  <1>7. lock.type = "EXCLUSIVE" /\ lock.holder = tx[t].user
    BY <1>2, <1>6 DEF Fits
  <1> QED
    BY <1>7 DEF HeldBy

(* A lock request that no other write of the row overtook takes a valid    *)
(* lock over from nobody but its own user.                                 *)
THEOREM NoFreshReaderSteals == Spec => OnlyStaleReadersSteal
  <1>1. IInv /\ [Next]_vars => [\A t \in Txns : NoSteal(t)]_vars
    BY NoStealStep
  <1>2. Spec => [][\A t \in Txns : NoSteal(t)]_vars
    BY <1>1, Invariant, PTL DEF Spec
  <1> QED
    BY <1>2 DEF OnlyStaleReadersSteal, NoSteal

(* The body of OverlappingSavesNeverBothCommit. *)
NoCross(t) ==
    /\ tx[t].kind \in {"save", "final", "deleteDocument"}
    /\ tx'[t] = Idle
    /\ doc' # doc
    => t \notin outrun

LEMMA NoCrossStep ==
    ASSUME IInv, [Next]_vars, NEW t \in Txns
    PROVE  NoCross(t)
  <1> SUFFICES ASSUME tx[t].kind \in {"save", "final", "deleteDocument"},
                      tx'[t] = Idle, doc' # doc, t \in outrun
               PROVE  FALSE
    BY DEF NoCross
  <1>1. tx[t] # Idle
    BY DEF Idle
  <1>2. CommitSave(t) \/ CommitFinal(t) \/ CommitDeleteDocument(t)
    BY <1>1, Closing DEF Commit, Abort, CommitInsert, CommitOverwrite, CommitDelete,
                    KeepVersion
  <1>3. doc.present /\ doc.version = tx[t].version
    BY <1>2 DEF CommitSave, CommitFinal, CommitDeleteDocument
  <1>4. doc.version \in Nat
    BY LockAssumption DEF IInv, TypeOK
  <1> QED
    BY <1>3, <1>4 DEF IInv, OutrunVersionsAreOld

(* Of two overlapping versioned writes of the document at most one commits.*)
THEOREM SavesAreSerialized == Spec => OverlappingSavesNeverBothCommit
  <1>1. IInv /\ [Next]_vars => [\A t \in Txns : NoCross(t)]_vars
    BY NoCrossStep
  <1>2. Spec => [][\A t \in Txns : NoCross(t)]_vars
    BY <1>1, Invariant, PTL DEF Spec
  <1> QED
    BY <1>2 DEF OverlappingSavesNeverBothCommit, NoCross

(* The body of UndisturbedSaveIsCovered. *)
Covered(t) ==
    CommitSave(t) => /\ lock # NoLock
                     /\ lock.type = "EXCLUSIVE" => lock.holder = tx[t].user

LEMMA CoveredStep ==
    ASSUME IInv, NEW t \in Txns \ overtaken
    PROVE  Covered(t)
  <1> SUFFICES ASSUME CommitSave(t)
               PROVE  /\ lock # NoLock
                      /\ lock.type = "EXCLUSIVE" => lock.holder = tx[t].user
    BY DEF Covered
  <1>1. tx[t].kind = "save" /\ t \in Open
    BY DEF CommitSave, Idle, Open
  <1> QED
    BY <1>1 DEF IInv, FreshReadsFit, Fits

(* A save whose lock was not written while it ran commits under that lock. *)
THEOREM FreshSavesAreCovered == Spec => UndisturbedSaveIsCovered
  <1>1. IInv /\ [Next]_vars => [\A t \in Txns \ overtaken : Covered(t)]_vars
    BY CoveredStep
  <1>2. Spec => [][\A t \in Txns \ overtaken : Covered(t)]_vars
    BY <1>1, Invariant, PTL DEF Spec
  <1> QED
    BY <1>2 DEF UndisturbedSaveIsCovered, Covered
===============================================================================
