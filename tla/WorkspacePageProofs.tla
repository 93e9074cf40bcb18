-------------------------- MODULE WorkspacePageProofs --------------------------
(***************************************************************************)
(* The safety properties of WorkspacePage for any documents and any number *)
(* of texts and visits.                                                    *)
(*                                                                         *)
(* They rest on what a page and its requests know of each other: which     *)
(* requests a page waits for (AwaitedRequests), that whatever else is on   *)
(* its way is of a document in strayed (Strays), and that a page that has  *)
(* got its lock keeps it unless the document is in lapsed (LockKept).      *)
(***************************************************************************)
EXTENDS WorkspacePage, TLAPS

(* The types of TypeOK; its last conjunct is in OneSave. *)
Types ==
    /\ role \in {"EDITOR", "VIEWER"}
    /\ page \in Page
    /\ net \subseteq Request
    /\ stored \in [Docs -> TextOf]
    /\ lock \in [Docs -> Holder]
    /\ edits \in 0..MaxEdits
    /\ visits \in 0..MaxVisits
    /\ displayed \subseteq TextOf
    /\ lapsed \subseteq Docs
    /\ hushed \in BOOLEAN
    /\ strayed \subseteq Docs
    /\ unreleased \subseteq Docs
    /\ carried \subseteq Docs

(* What the kind of a page says of its signals. *)
PageShape ==
    /\ page.kind # "none" => page.doc \in Docs
    /\ page.kind = "none" => page = NoPage
    /\ page.kind = "entry" => page.step # "ready"
    /\ page.kind = "readonly" => page.step \in {"get", "ready", "error"}
    /\ page.kind = "edit" /\ page.step = "ready" => page.lockHeld
    /\ page.lockHeld => page.kind = "edit"
    /\ page.saving => page.kind = "edit"

(* What a page waits for: the lock it is loading with, or the save of an   *)
(* editing page.                                                           *)
AwaitedRequests ==
    \A r \in net :
        r.alive => /\ r.op \in {"acquire", "save"}
                   /\ r.op = "acquire" => page.step = "acquire" /\ r = Call("acquire", page.doc)
                   /\ r.op = "save" => page.kind = "edit"

(* saving means one save. *)
OneSave ==
    /\ page.saving <=> \E r \in net : r.op = "save" /\ r.alive
    /\ \A r, s \in net : r.op = "save" /\ s.op = "save" /\ r.alive /\ s.alive => r = s

(* A request of the page that is open. *)
OfPage(r) ==
    r.doc = page.doc /\ (r.alive \/ (r.op = "refresh" /\ page.kind = "edit"))

(* What is on its way, and is not of the page that is open, has strayed. *)
Strays ==
    \A r \in net :
        r.op # "unlock" => OfPage(r) \/ r.doc \in strayed

(* A page that has its lock keeps it, or it has lapsed. *)
LockKept ==
    page.kind \in {"entry", "edit"} /\ page.step \in {"get", "ready"} /\ page.doc \notin lapsed
        => lock[page.doc] = "me"

(* An unlock of a document is among the requests. *)
UnlockSent(d, requests) == \E r \in requests : r.op = "unlock" /\ r.doc = d

(* A lock of this user has an entry page or an editing page, or an unlock  *)
(* on its way.                                                             *)
LockHasOwner ==
    \A d \in Docs \ (strayed \cup unreleased) :
        lock[d] = "me" => \/ page.doc = d /\ page.kind \in {"entry", "edit"}
                          \/ UnlockSent(d, net)

(* Whose text is on the page, on its way and in the store. *)
TextsOwn ==
    /\ page.kind = "edit" /\ (page.step = "ready" \/ dirty)
          => page.content.of = page.doc \/ page.doc \in carried
    /\ \A r \in net : r.op = "save" => r.content.of = r.doc \/ r.doc \in carried
    /\ OwnText

(* What is typed and what is sent was on the screen, and so was what the   *)
(* store has of a page that is loaded.                                     *)
TextsSeen ==
    /\ page.kind = "edit" /\ dirty => page.content \in displayed
    /\ \A r \in net : r.op = "save" => r.content \in displayed
    /\ page.kind = "edit" /\ page.step = "ready" /\ page.doc \notin lapsed \cup strayed
          => stored[page.doc] \in displayed

IInv ==
    /\ Types
    /\ PageShape
    /\ AwaitedRequests
    /\ OneSave
    /\ Strays
    /\ LockKept
    /\ LockHasOwner
    /\ TextsOwn
    /\ TextsSeen
    /\ SavedIsStored

-------------------------------------------------------------------------------
(* The records the actions make. *)

(* The bounds, without the part of the assumption that is about strings.   *)
LEMMA Bounds == MaxEdits \in Nat /\ MaxVisits \in Nat
BY PageAssumption, Zenon

LEMMA EmptyIsText == Empty \in TextOf /\ Empty.of = "" /\ Empty.n = 0
<1>1. 0 \in 0..MaxEdits
  BY Bounds
<1> QED
  BY <1>1 DEF Empty, TextOf

LEMMA CallIsRequest ==
    ASSUME NEW op \in {"acquire", "refresh", "unlock", "save"}, NEW d \in Docs
    PROVE  LET r == Call(op, d) IN
           /\ r \in Request
           /\ r.op = op /\ r.doc = d /\ r.content = Empty /\ r.alive
BY EmptyIsText DEF Call, Request

LEMMA UnawaitedIsRequest ==
    ASSUME NEW op \in {"acquire", "refresh", "unlock", "save"}, NEW d \in Docs
    PROVE  LET r == Unawaited(op, d) IN
           /\ r \in Request
           /\ r.op = op /\ r.doc = d /\ r.content = Empty /\ ~r.alive
<1> DEFINE r == Call(op, d)
<1>1. r \in Request /\ r.op = op /\ r.doc = d /\ r.content = Empty
  BY CallIsRequest
<1>2. Unawaited(op, d) = [r EXCEPT !.alive = FALSE]
  BY DEF Unawaited
<1> HIDE DEF r
<1> QED
  BY <1>1, <1>2 DEF Request

LEMMA FreshIsPage ==
    ASSUME NEW kind \in {"entry", "edit", "readonly"}, NEW d \in Docs
    PROVE  LET p == Fresh(kind, d) IN
           /\ p \in Page
           /\ p.kind = kind /\ p.doc = d
           /\ p.step = IF kind = "readonly" THEN "get" ELSE "getLock"
           /\ p.content = Empty /\ p.savedContent = Empty
           /\ ~p.lockHeld /\ ~p.saving
BY EmptyIsText DEF Fresh, Page, Step

LEMMA NoPageIsPage ==
    /\ NoPage \in Page
    /\ NoPage.kind = "none" /\ NoPage.doc = "" /\ NoPage.step = "ready"
    /\ NoPage.content = Empty /\ NoPage.savedContent = Empty
    /\ ~NoPage.lockHeld /\ ~NoPage.saving
<1> DEFINE f == Fresh("none", "")
<1>1. /\ f \in Page
      /\ f.kind = "none" /\ f.doc = "" /\ f.content = Empty /\ f.savedContent = Empty
      /\ ~f.lockHeld /\ ~f.saving
  BY EmptyIsText DEF Fresh, Page, Step
<1>2. NoPage = [f EXCEPT !.step = "ready"]
  BY DEF NoPage
<1> HIDE DEF f
<1> QED
  BY <1>1, <1>2 DEF Page, Step

LEMMA WrittenIsText ==
    ASSUME NEW t \in TextOf, edits \in 0..MaxEdits, edits < MaxEdits
    PROVE  Written(t) \in TextOf /\ Written(t).of = t.of /\ Written(t).n = edits + 1
<1>1. edits + 1 \in 0..MaxEdits
  BY Bounds
<1>2. t.of \in Docs \cup {""}
  BY DEF TextOf
<1> QED
  BY <1>1, <1>2 DEF Written, TextOf

(* The requests that are orphaned keep what they ask for. *)
LEMMA OrphanedAreRequests ==
    ASSUME NEW S \in SUBSET Request
    PROVE  /\ Orphaned(S) \subseteq Request
           /\ \A q \in Orphaned(S) :
                  ~q.alive /\ \E r \in S : q.op = r.op /\ q.doc = r.doc /\ q.content = r.content
           /\ \A r \in S : \E q \in Orphaned(S) : q.op = r.op /\ q.doc = r.doc
<1> DEFINE orphan(r) == [r EXCEPT !.alive = FALSE]
<1>1. \A r \in S : /\ orphan(r) \in Request
                   /\ orphan(r).op = r.op /\ orphan(r).doc = r.doc
                   /\ orphan(r).content = r.content /\ ~orphan(r).alive
  BY DEF Request
<1>2. Orphaned(S) = {orphan(r) : r \in S}
  BY DEF Orphaned
<1> HIDE DEF orphan
<1> QED
  BY <1>1, <1>2

(* onCleanup: what is left of the requests, and the unlock of a lock held. *)
CleanedUp(abandoned, kept) ==
    /\ net' \subseteq Request
    /\ kept \subseteq net'
    /\ \A q \in net' \ kept :
           /\ ~q.alive
           /\ \/ q.op = "unlock" /\ q.content = Empty
              \/ \E r \in abandoned : q.op = r.op /\ q.doc = r.doc /\ q.content = r.content
    /\ \A r \in abandoned : \E q \in net' : q.op = r.op /\ q.doc = r.doc
    /\ page.lockHeld => UnlockSent(page.doc, net')

LEMMA CleanupEffect ==
    ASSUME IInv, NEW abandoned \in SUBSET net, NEW kept \in SUBSET net, Cleanup(abandoned, kept)
    PROVE  CleanedUp(abandoned, kept)
<1> DEFINE unlock == Unawaited("unlock", page.doc)
<1>1. net' = Orphaned(abandoned) \cup kept \cup (IF page.lockHeld THEN {unlock} ELSE {})
  BY DEF Cleanup
<1>2. ASSUME page.lockHeld
      PROVE  /\ unlock \in Request
             /\ ~unlock.alive /\ unlock.op = "unlock" /\ unlock.content = Empty
             /\ unlock.doc = page.doc
  <2>1. page.doc \in Docs
    BY <1>2 DEF IInv, PageShape
  <2> QED
    BY <2>1, UnawaitedIsRequest
<1>3. abandoned \in SUBSET Request /\ kept \subseteq Request
  BY DEF IInv, Types
<1> HIDE DEF unlock
<1> QED
  BY <1>1, <1>2, <1>3, OrphanedAreRequests DEF CleanedUp, UnlockSent

(* Handling any other request leaves the unlocks where they are. *)
LEMMA UnlocksStay ==
    ASSUME NEW before, NEW after, \A r \in before : r.op = "unlock" => r \in after
    PROVE  \A d : UnlockSent(d, before) => UnlockSent(d, after)
BY DEF UnlockSent

(* What is remembered of a document that is left. *)
LEMMA LeftEffect ==
    ASSUME IInv, page.kind # "none", Left
    PROVE  /\ strayed' \subseteq Docs /\ strayed \subseteq strayed'
           /\ page.kind \in {"entry", "edit"} /\ page.step # "ready" => page.doc \in strayed'
           /\ \A r \in net : r.doc = page.doc /\ r.op # "unlock" => page.doc \in strayed'
           /\ lapsed' = {} /\ hushed' = FALSE
BY DEF IInv, Types, PageShape, Left

(* Where there is no page, nobody waits. *)
LEMMA NobodyWaits ==
    ASSUME IInv, page.kind = "none" \/ (page.kind = "entry" /\ page.step # "acquire")
    PROVE  \A r \in net : ~r.alive
BY NoPageIsPage DEF IInv, PageShape, AwaitedRequests

-------------------------------------------------------------------------------
(* Opening and leaving.                                                    *)

LEMMA OpenPageStep ==
    ASSUME IInv, NEW kind \in {"entry", "edit", "readonly"}, NEW d \in Docs, OpenPage(kind, d)
    PROVE  IInv'
<1> USE DEF IInv
<1>1. PICK k \in {"entry", "edit", "readonly"} : page' = Fresh(k, d)
  BY DEF OpenPage
<1>2. /\ page' \in Page
      /\ page'.kind = k /\ page'.doc = d
      /\ page'.step = IF k = "readonly" THEN "get" ELSE "getLock"
      /\ page'.content = Empty /\ page'.savedContent = Empty
      /\ ~page'.lockHeld /\ ~page'.saving
  BY <1>1, FreshIsPage
<1>3. page.kind = "none" /\ page.step = "ready" /\ ~page.saving
  BY NoPageIsPage DEF OpenPage
<1>4. \A r \in net : ~r.alive
  BY <1>3, NobodyWaits
<1>5. /\ UNCHANGED <<role, net, stored, lock, edits, displayed, lapsed, hushed, strayed, unreleased, carried>>
      /\ visits < MaxVisits /\ visits' = visits + 1
  BY DEF OpenPage, Visit, backend, history
<1>6. Types'
  BY <1>2, <1>5, Bounds DEF Types
<1>7. PageShape' /\ AwaitedRequests' /\ LockKept'
  BY <1>2, <1>4, <1>5 DEF PageShape, AwaitedRequests, LockKept
<1>8. OneSave'
  BY <1>2, <1>4, <1>5 DEF OneSave
<1>9. Strays' /\ LockHasOwner'
  BY <1>2, <1>3, <1>4, <1>5 DEF Strays, OfPage, LockHasOwner
<1>10. TextsOwn' /\ TextsSeen' /\ SavedIsStored'
  BY <1>2, <1>5 DEF TextsOwn, OwnText, dirty, TextsSeen, SavedIsStored
<1> QED
  BY <1>6, <1>7, <1>8, <1>9, <1>10

LEMMA LeaveStep ==
    ASSUME IInv, Leave
    PROVE  IInv'
<1> USE DEF IInv
<1>1. page.kind # "none" /\ Left
  BY DEF Leave, PageShape
<1>2. /\ page' = NoPage
      /\ UNCHANGED <<role, stored, lock, edits, visits, displayed, unreleased, carried>>
  BY DEF Leave, backend
<1>3. /\ net' \subseteq Request
      /\ \A q \in net' :
             /\ ~q.alive
             /\ \/ q.op = "unlock" /\ q.content = Empty
                \/ \E r \in net : q.op = r.op /\ q.doc = r.doc /\ q.content = r.content
      /\ \A r \in net : \E q \in net' : q.op = r.op /\ q.doc = r.doc
      /\ page.lockHeld => UnlockSent(page.doc, net')
  <2>1. Cleanup(net, {})
    BY DEF Leave
  <2>2. net \in SUBSET net /\ {} \in SUBSET net
    OBVIOUS
  <2>3. CleanedUp(net, {})
    BY <2>1, <2>2, CleanupEffect
  <2> QED
    BY <2>3 DEF CleanedUp
<1>4. /\ strayed' \subseteq Docs /\ strayed \subseteq strayed'
      /\ page.kind \in {"entry", "edit"} /\ page.step # "ready" => page.doc \in strayed'
      /\ \A r \in net : r.doc = page.doc /\ r.op # "unlock" => page.doc \in strayed'
      /\ lapsed' = {} /\ hushed' = FALSE
  BY <1>1, LeftEffect
<1>5. Types' /\ PageShape'
  BY <1>2, <1>3, <1>4, NoPageIsPage DEF Types, PageShape
<1>6. AwaitedRequests' /\ OneSave'
  BY <1>2, <1>3, NoPageIsPage DEF AwaitedRequests, OneSave
<1>7. Strays'
  BY <1>3, <1>4 DEF Strays, OfPage
<1>8. LockHasOwner'
  <2>1. \A d : UnlockSent(d, net) => UnlockSent(d, net')
    BY <1>3 DEF UnlockSent
  <2> QED
    BY <1>1, <1>2, <1>3, <1>4, <2>1 DEF LockHasOwner, PageShape
<1>9. LockKept' /\ TextsOwn' /\ TextsSeen' /\ SavedIsStored'
  <2>1. \A q \in net' :
           q.op = "save" => \E r \in net : /\ r.op = "save"
                                          /\ q.doc = r.doc /\ q.content = r.content
    BY <1>3
  <2> QED
    BY <1>2, <2>1, NoPageIsPage DEF LockKept, TextsOwn, OwnText, TextsSeen, SavedIsStored
<1> QED
  BY <1>5, <1>6, <1>7, <1>8, <1>9

LEMMA LoadAgainStep ==
    ASSUME IInv, NEW d \in Docs, page.kind \in {"entry", "edit"}, LoadAgain(d)
    PROVE  IInv'
<1> USE DEF IInv
<1> DEFINE saves == {r \in net : r.op = "save"}
           others == {r \in net : r.op # "save"}
<1>1. page.kind # "none" /\ Left
  BY DEF LoadAgain
<1>2. /\ page' = [page EXCEPT !.doc = d, !.step = "getLock", !.lockHeld = FALSE]
      /\ carried' = IF dirty /\ d # page.doc THEN carried \cup {d} ELSE carried
      /\ visits < MaxVisits /\ visits' = visits + 1
      /\ UNCHANGED <<role, stored, lock, edits, displayed, unreleased>>
  BY DEF LoadAgain, Visit, backend
<1>3. /\ page' \in Page
      /\ page'.kind = page.kind /\ page'.doc = d /\ page'.step = "getLock" /\ ~page'.lockHeld
      /\ page'.content = page.content /\ page'.savedContent = page.savedContent
      /\ page'.saving = page.saving
  BY <1>1, <1>2 DEF Types, Page, Step
<1>4. /\ net' \subseteq Request
      /\ saves \subseteq net'
      /\ \A q \in net' \ saves :
             /\ ~q.alive
             /\ \/ q.op = "unlock" /\ q.content = Empty
                \/ \E r \in others : q.op = r.op /\ q.doc = r.doc /\ q.content = r.content
      /\ \A r \in others : \E q \in net' : q.op = r.op /\ q.doc = r.doc
      /\ page.lockHeld => UnlockSent(page.doc, net')
  <2>1. Cleanup(others, saves)
    BY DEF LoadAgain
  <2>2. others \in SUBSET net /\ saves \in SUBSET net
    OBVIOUS
  <2>3. CleanedUp(others, saves)
    BY <2>1, <2>2, CleanupEffect
  <2> QED
    BY <2>3 DEF CleanedUp
<1>5. /\ strayed' \subseteq Docs /\ strayed \subseteq strayed'
      /\ page.kind \in {"entry", "edit"} /\ page.step # "ready" => page.doc \in strayed'
      /\ \A r \in net : r.doc = page.doc /\ r.op # "unlock" => page.doc \in strayed'
      /\ lapsed' = {} /\ hushed' = FALSE
  BY <1>1, LeftEffect
<1>6. \A q \in net' : \/ q \in net /\ q.op = "save"
                      \/ ~q.alive /\ q.op = "unlock" /\ q.content = Empty
                      \/ /\ ~q.alive /\ q.op # "save"
                         /\ \E r \in net : q.op = r.op /\ q.doc = r.doc /\ q.content = r.content
  BY <1>4
<1>7. Types'
  <2>1. visits' \in 0..MaxVisits
    BY <1>2, Bounds DEF Types
  <2>2. carried' \subseteq Docs
    BY <1>2 DEF Types
  <2> QED
    BY <1>2, <1>3, <1>4, <1>5, <2>1, <2>2 DEF Types
<1>8. PageShape' /\ AwaitedRequests'
  BY <1>3, <1>6 DEF PageShape, AwaitedRequests
<1>9. OneSave'
  BY <1>3, <1>4, <1>6 DEF OneSave
<1>10. Strays'
  BY <1>5, <1>6 DEF Strays, OfPage
<1>11. LockHasOwner'
  <2>1. \A e : UnlockSent(e, net) => UnlockSent(e, net')
    BY <1>4 DEF UnlockSent
  <2> QED
    BY <1>1, <1>2, <1>3, <1>4, <1>5, <2>1 DEF LockHasOwner, PageShape
<1>12. TextsOwn'
  BY <1>2, <1>3, <1>6 DEF TextsOwn, OwnText, dirty
<1>13. TextsSeen' /\ LockKept' /\ SavedIsStored'
  BY <1>1, <1>2, <1>3, <1>6 DEF TextsSeen, LockKept, SavedIsStored, dirty
<1> QED
  BY <1>7, <1>8, <1>9, <1>10, <1>11, <1>12, <1>13

LEMMA SwitchDocumentStep ==
    ASSUME IInv, NEW d \in Docs, SwitchDocument(d)
    PROVE  IInv'
BY LoadAgainStep DEF SwitchDocument

LEMMA RenewTokenStep ==
    ASSUME IInv, RenewToken
    PROVE  IInv'
<1> USE DEF IInv
<1>1. CASE page.kind \in {"entry", "edit"} /\ LoadAgain(page.doc)
  <2>1. page.doc \in Docs
    BY <1>1 DEF PageShape
  <2> QED
    BY <1>1, <2>1, LoadAgainStep
<1>2. CASE page.kind = "readonly" /\ Visit /\ page' = [page EXCEPT !.step = "get"]
           /\ UNCHANGED <<role, net, backend, edits, history>>
  <2>1. /\ page' \in Page
        /\ page'.kind = page.kind /\ page'.doc = page.doc /\ page'.step = "get"
        /\ page'.lockHeld = page.lockHeld /\ page'.saving = page.saving
    BY <1>2 DEF Types, Page, Step
  <2>2. /\ UNCHANGED <<role, net, stored, lock, edits, displayed, lapsed, hushed, strayed, unreleased, carried>>
        /\ visits < MaxVisits /\ visits' = visits + 1
    BY <1>2 DEF Visit, backend, history
  <2>3. Types' /\ PageShape'
    BY <1>2, <2>1, <2>2, Bounds DEF Types, PageShape
  <2>4. AwaitedRequests'
    <3>1. \A r \in net : ~r.alive
      BY <1>2 DEF AwaitedRequests, PageShape
    <3> QED
      BY <2>2, <3>1 DEF AwaitedRequests
  <2>5. OneSave' /\ Strays' /\ LockKept' /\ LockHasOwner'
    BY <1>2, <2>1, <2>2 DEF OneSave, Strays, OfPage, LockKept, LockHasOwner
  <2>6. TextsOwn' /\ TextsSeen' /\ SavedIsStored'
    BY <1>2, <2>1, <2>2 DEF TextsOwn, OwnText, TextsSeen, SavedIsStored
  <2> QED
    BY <2>3, <2>4, <2>5, <2>6
<1> QED
  BY <1>1, <1>2 DEF RenewToken

LEMMA DieStep ==
    ASSUME IInv, Die
    PROVE  IInv'
<1> USE DEF IInv
<1>1. page.kind # "none" /\ page.doc \in Docs
  BY DEF Die, PageShape
<1>2. /\ page' = NoPage /\ net' = Orphaned(net)
      /\ strayed' = strayed \cup {page.doc} /\ lapsed' = {} /\ hushed' = FALSE
      /\ UNCHANGED <<role, stored, lock, edits, visits, displayed, unreleased, carried>>
  BY DEF Die, backend
<1>3. /\ net' \subseteq Request
      /\ \A q \in net' :
             ~q.alive /\ \E r \in net : q.op = r.op /\ q.doc = r.doc /\ q.content = r.content
      /\ \A r \in net : \E q \in net' : q.op = r.op /\ q.doc = r.doc
  BY <1>2, OrphanedAreRequests DEF Types
<1>4. Types' /\ PageShape'
  BY <1>1, <1>2, <1>3, NoPageIsPage DEF Types, PageShape
<1>5. AwaitedRequests' /\ OneSave'
  BY <1>2, <1>3, NoPageIsPage DEF AwaitedRequests, OneSave
<1>6. Strays'
  BY <1>2, <1>3 DEF Strays, OfPage
<1>7. LockHasOwner'
  <2>1. \A d : UnlockSent(d, net) => UnlockSent(d, net')
    BY <1>3 DEF UnlockSent
  <2> QED
    BY <1>2, <2>1 DEF LockHasOwner
<1>8. LockKept' /\ TextsOwn' /\ TextsSeen' /\ SavedIsStored'
  <2>1. \A q \in net' :
           q.op = "save" => \E r \in net : /\ r.op = "save"
                                          /\ q.doc = r.doc /\ q.content = r.content
    BY <1>3
  <2> QED
    BY <1>2, <2>1, NoPageIsPage DEF LockKept, TextsOwn, OwnText, TextsSeen, SavedIsStored
<1> QED
  BY <1>4, <1>5, <1>6, <1>7, <1>8

-------------------------------------------------------------------------------
(* Loading.                                                                *)

LEMMA ReadLockStep ==
    ASSUME IInv, ReadLock
    PROVE  IInv'
<1> USE DEF IInv
<1>1. /\ page.step = "getLock"
      /\ UNCHANGED <<role, stored, lock, edits, visits, displayed, lapsed, hushed, strayed, unreleased, carried>>
  BY DEF ReadLock, backend, history
<1>2. page.kind \in {"entry", "edit"} /\ page.doc \in Docs
  BY <1>1, NoPageIsPage DEF Types, Page, PageShape
<1>3. PICK step \in {"modal", "acquire"} : page' = [page EXCEPT !.step = step]
  BY DEF ReadLock
<1>4. /\ page' \in Page /\ page'.step = step
      /\ page'.kind = page.kind /\ page'.doc = page.doc
      /\ page'.content = page.content /\ page'.savedContent = page.savedContent
      /\ page'.lockHeld = page.lockHeld /\ page'.saving = page.saving
  BY <1>3 DEF Types, Page, Step
<1> DEFINE q == Call("acquire", page.doc)
<1>5. q \in Request /\ q.op = "acquire" /\ q.doc = page.doc /\ q.content = Empty /\ q.alive
  BY <1>2, CallIsRequest
<1> HIDE DEF q
<1>6. \/ net' = net /\ step = "modal"
      \/ net' = net \cup {q} /\ step = "acquire"
  <2>1. CASE EntryStops \/ lock[page.doc] = "other"
    <3>1. page' = [page EXCEPT !.step = "modal"] /\ net' = net
      BY <2>1 DEF ReadLock
    <3> QED
      BY <1>4, <3>1 DEF Types, Page
  <2>2. CASE ~(EntryStops \/ lock[page.doc] = "other")
    <3>1. page' = [page EXCEPT !.step = "acquire"] /\ net' = net \cup {q}
      BY <2>2 DEF ReadLock, q
    <3> QED
      BY <1>4, <3>1 DEF Types, Page
  <2> QED
    BY <2>1, <2>2
<1>7. Types'
  BY <1>1, <1>4, <1>5, <1>6 DEF Types
<1>8. PageShape'
  BY <1>2, <1>4 DEF PageShape
<1>9. AwaitedRequests'
  BY <1>1, <1>4, <1>5, <1>6 DEF AwaitedRequests, q
<1>10. OneSave' /\ Strays'
  BY <1>1, <1>4, <1>5, <1>6 DEF OneSave, Strays, OfPage
<1>11. LockKept' /\ LockHasOwner'
  BY <1>1, <1>2, <1>4, <1>5, <1>6 DEF LockKept, LockHasOwner, UnlockSent
<1>12. TextsOwn' /\ TextsSeen' /\ SavedIsStored'
  BY <1>1, <1>4, <1>5, <1>6 DEF TextsOwn, OwnText, TextsSeen, SavedIsStored, dirty
<1> QED
  BY <1>7, <1>8, <1>9, <1>10, <1>11, <1>12

LEMMA HandleAcquireStep ==
    ASSUME IInv, NEW r \in net, HandleAcquire(r)
    PROVE  IInv'
<1> USE DEF IInv
<1> DEFINE granted == lock[r.doc] \in {"none", "me"}
<1>1. /\ r.op = "acquire" /\ r.doc \in Docs /\ net' = net \ {r}
      /\ lock' = IF granted THEN [lock EXCEPT ![r.doc] = "me"] ELSE lock
      /\ UNCHANGED <<role, stored, edits, visits, displayed, lapsed, hushed, strayed, unreleased, carried>>
  BY DEF HandleAcquire, history, Types, Request
<1>2. /\ lock' \in [Docs -> Holder]
      /\ \A d \in Docs : lock'[d] # lock[d] => d = r.doc /\ lock'[d] = "me"
      /\ granted => lock'[r.doc] = "me"
  BY <1>1 DEF Types, Holder
<1>3. CASE r.alive
  <2>1. page.step = "acquire" /\ r = Call("acquire", page.doc)
    BY <1>1, <1>3 DEF AwaitedRequests
  <2>2. page.kind \in {"entry", "edit"} /\ page.doc \in Docs
    BY <2>1, NoPageIsPage DEF Types, Page, PageShape
  <2>3. r.doc = page.doc
    BY <2>1, <2>2, CallIsRequest
  <2>4. /\ page' \in Page
        /\ page'.kind = page.kind /\ page'.doc = page.doc
        /\ page'.step = IF granted THEN "get" ELSE "error"
        /\ page'.content = page.content /\ page'.savedContent = page.savedContent
        /\ page'.lockHeld = page.lockHeld /\ page'.saving = page.saving
    <3>1. page' = [page EXCEPT !.step = IF granted THEN "get" ELSE "error"]
      BY <1>3 DEF HandleAcquire
    <3> QED
      BY <3>1 DEF Types, Page, Step
  <2>5. Types'
    BY <1>1, <1>2, <2>4 DEF Types
  <2>6. PageShape' /\ LockKept'
    BY <1>1, <1>2, <2>2, <2>3, <2>4 DEF PageShape, LockKept
  <2>7. AwaitedRequests'
    BY <1>1, <2>1, <2>4 DEF AwaitedRequests
  <2>8. OneSave' /\ Strays'
    BY <1>1, <2>4 DEF OneSave, Strays, OfPage
  <2>9. LockHasOwner'
    <3>1. \A d : UnlockSent(d, net) => UnlockSent(d, net')
      BY <1>1, UnlocksStay
    <3> QED
      BY <1>1, <1>2, <2>2, <2>3, <2>4, <3>1 DEF LockHasOwner
  <2>10. TextsOwn' /\ TextsSeen' /\ SavedIsStored'
    BY <1>1, <2>1, <2>4 DEF TextsOwn, OwnText, TextsSeen, SavedIsStored, dirty
  <2> QED
    BY <2>5, <2>6, <2>7, <2>8, <2>9, <2>10
<1>4. CASE ~r.alive
  <2>1. page' = page /\ r.doc \in strayed
    BY <1>1, <1>4 DEF HandleAcquire, Strays, OfPage
  <2>2. Types' /\ PageShape' /\ AwaitedRequests'
    BY <1>1, <1>2, <2>1 DEF Types, PageShape, AwaitedRequests
  <2>3. OneSave' /\ Strays' /\ LockKept'
    BY <1>1, <1>2, <2>1, NoPageIsPage DEF OneSave, Strays, OfPage, LockKept, PageShape
  <2>4. LockHasOwner'
    <3>1. \A d : UnlockSent(d, net) => UnlockSent(d, net')
      BY <1>1, UnlocksStay
    <3> QED
      BY <1>1, <1>2, <2>1, <3>1 DEF LockHasOwner
  <2>5. TextsOwn' /\ TextsSeen' /\ SavedIsStored'
    BY <1>1, <2>1 DEF TextsOwn, OwnText, TextsSeen, SavedIsStored, dirty
  <2> QED
    BY <2>2, <2>3, <2>4, <2>5
<1> QED
  BY <1>3, <1>4

LEMMA ReadDocumentStep ==
    ASSUME IInv, ReadDocument
    PROVE  IInv'
<1> USE DEF IInv
<1>1. /\ page.step = "get"
      /\ UNCHANGED <<role, net, stored, lock, edits, visits, unreleased, carried>>
  BY DEF ReadDocument, backend
<1>2. page.kind \in {"entry", "readonly", "edit"} /\ page.doc \in Docs
  BY <1>1, NoPageIsPage DEF Types, Page, PageShape
<1>3. CASE page.kind = "entry"
  <2> DEFINE k == IF role = "VIEWER" THEN "readonly" ELSE "edit"
  <2>1. /\ page' = Fresh(k, page.doc)
        /\ strayed' = IF role = "VIEWER" THEN strayed \cup {page.doc} ELSE strayed
        /\ lapsed' = {}
        /\ UNCHANGED <<displayed, hushed>>
    BY <1>3 DEF ReadDocument, EntryNavigates
  <2>2. /\ page' \in Page
        /\ page'.kind = k /\ page'.doc = page.doc
        /\ page'.step = IF k = "readonly" THEN "get" ELSE "getLock"
        /\ page'.content = Empty /\ page'.savedContent = Empty
        /\ ~page'.lockHeld /\ ~page'.saving
    BY <1>2, <2>1, FreshIsPage
  <2>3. \A r \in net : ~r.alive
    BY <1>1, <1>3, NobodyWaits
  <2>4. Types' /\ PageShape' /\ AwaitedRequests'
    BY <1>1, <1>2, <2>1, <2>2, <2>3 DEF Types, PageShape, AwaitedRequests
  <2>5. OneSave' /\ Strays' /\ LockKept'
    BY <1>1, <2>1, <2>2, <2>3 DEF OneSave, Strays, OfPage, LockKept
  <2>6. LockHasOwner'
    BY <1>1, <2>1, <2>2 DEF LockHasOwner
  <2>7. TextsOwn' /\ TextsSeen' /\ SavedIsStored'
    BY <1>1, <2>1, <2>2 DEF TextsOwn, OwnText, TextsSeen, SavedIsStored, dirty
  <2> QED
    BY <2>4, <2>5, <2>6, <2>7
<1>4. CASE page.kind \in {"readonly", "edit"}
  <2> DEFINE text == stored[page.doc]
  <2>1. /\ displayed' = displayed \cup {text}
        /\ UNCHANGED <<lapsed, hushed, strayed>>
    BY <1>4 DEF ReadDocument
  <2>2. /\ page' \in Page
        /\ page'.kind = page.kind /\ page'.doc = page.doc /\ page'.step = "ready"
        /\ page'.content = text /\ page'.savedContent = text
        /\ page'.lockHeld = (page.kind = "edit" \/ page.lockHeld) /\ page'.saving = page.saving
    <3>1. text \in TextOf
      BY <1>2 DEF Types
    <3> HIDE DEF text
    <3>2. CASE page.kind = "readonly"
      <4>1. page' = [page EXCEPT !.content = text, !.savedContent = text, !.step = "ready"]
        BY <3>2 DEF ReadDocument, text
      <4> QED
        BY <3>1, <3>2, <4>1 DEF Types, Page, Step
    <3>3. CASE page.kind = "edit"
      <4>1. page' = [page EXCEPT !.content = text, !.savedContent = text,
                                 !.canEdit = role # "VIEWER", !.lockHeld = TRUE, !.step = "ready"]
        BY <3>3 DEF ReadDocument, text
      <4> QED
        BY <3>1, <3>3, <4>1 DEF Types, Page, Step
    <3> QED
      BY <1>4, <3>2, <3>3
  <2>3. text \in TextOf
    BY <1>2 DEF Types
  <2>4. Types'
    BY <1>1, <2>1, <2>2, <2>3 DEF Types
  <2>5. PageShape' /\ AwaitedRequests'
    BY <1>1, <1>2, <1>4, <2>2 DEF PageShape, AwaitedRequests
  <2>6. OneSave' /\ Strays' /\ LockKept' /\ LockHasOwner'
    BY <1>1, <1>4, <2>1, <2>2 DEF OneSave, Strays, OfPage, LockKept, LockHasOwner
  <2>7. TextsOwn' /\ TextsSeen' /\ SavedIsStored'
    BY <1>1, <1>2, <2>1, <2>2 DEF TextsOwn, OwnText, TextsSeen, SavedIsStored, dirty
  <2> QED
    BY <2>4, <2>5, <2>6, <2>7
<1> QED
  BY <1>2, <1>3, <1>4

LEMMA LoadFailsStep ==
    ASSUME IInv, LoadFails
    PROVE  IInv'
<1> USE DEF IInv
<1> DEFINE failed(r) == IF r.op = "acquire" THEN [r EXCEPT !.alive = FALSE] ELSE r
<1>1. /\ page.step \in {"getLock", "acquire", "get"}
      /\ page' = [page EXCEPT !.step = "error"]
      /\ net' = {failed(r) : r \in net}
      /\ strayed' = strayed \cup {page.doc}
      /\ UNCHANGED <<role, stored, lock, edits, visits, displayed, lapsed, hushed, unreleased, carried>>
  BY DEF LoadFails, backend
<1>2. page.kind \in {"entry", "edit", "readonly"} /\ page.doc \in Docs
  BY <1>1, NoPageIsPage DEF Types, Page, PageShape
<1>3. /\ page' \in Page
      /\ page'.kind = page.kind /\ page'.doc = page.doc /\ page'.step = "error"
      /\ page'.content = page.content /\ page'.savedContent = page.savedContent
      /\ page'.lockHeld = page.lockHeld /\ page'.saving = page.saving
  BY <1>1 DEF Types, Page, Step
<1>4. \A r \in net :
          /\ failed(r) \in Request
          /\ failed(r).op = r.op /\ failed(r).doc = r.doc /\ failed(r).content = r.content
          /\ r.op = "acquire" => ~failed(r).alive
          /\ r.op # "acquire" => failed(r) = r
  BY DEF Types, Request
<1> HIDE DEF failed
<1>5. /\ net' \subseteq Request
      /\ \A r \in net : r.op # "acquire" => r \in net'
      /\ \A q \in net' : \/ q \in net /\ q.op # "acquire"
                         \/ /\ q.op = "acquire" /\ ~q.alive
                            /\ \E r \in net : r.op = "acquire" /\ q.doc = r.doc /\ q.content = r.content
  BY <1>1, <1>4
<1>6. Types' /\ PageShape'
  BY <1>1, <1>2, <1>3, <1>5 DEF Types, PageShape
<1>7. AwaitedRequests'
  BY <1>3, <1>5 DEF AwaitedRequests
<1>8. OneSave'
  BY <1>3, <1>5 DEF OneSave
<1>9. Strays'
  BY <1>1, <1>5 DEF Strays, OfPage
<1>10. LockHasOwner'
  <2>1. \A d : UnlockSent(d, net) => UnlockSent(d, net')
    BY <1>5, UnlocksStay
  <2> QED
    BY <1>1, <1>3, <2>1 DEF LockHasOwner
<1>11. TextsOwn' /\ TextsSeen' /\ LockKept' /\ SavedIsStored'
  BY <1>1, <1>3, <1>5 DEF TextsOwn, OwnText, TextsSeen, LockKept, SavedIsStored, dirty
<1> QED
  BY <1>6, <1>7, <1>8, <1>9, <1>10, <1>11

-------------------------------------------------------------------------------
(* Editing and saving.                                                     *)

LEMMA HandleContentChangeStep ==
    ASSUME IInv, HandleContentChange
    PROVE  IInv'
<1> USE DEF IInv
<1>1. /\ page.kind = "edit" /\ page.step \in {"ready", "modal"}
      /\ displayed' = displayed \cup {page'.content}
      /\ carried' = IF page.step = "modal" /\ page.content.of # page.doc
                    THEN carried \cup {page.doc} ELSE carried
      /\ UNCHANGED <<role, net, stored, lock, visits, lapsed, hushed, strayed, unreleased>>
  BY DEF HandleContentChange, backend
<1>2. PICK text \in TextOf : /\ page' = [page EXCEPT !.content = text]
                            /\ text.of = page.content.of
                            /\ edits' \in 0..MaxEdits
  <2>1. CASE Write /\ page' = [page EXCEPT !.content = Written(@)]
    <3> DEFINE text == Written(page.content)
    <3>1. edits < MaxEdits /\ edits' = edits + 1 /\ page' = [page EXCEPT !.content = text]
      BY <2>1 DEF Write, Types, Page
    <3>2. edits' \in 0..MaxEdits
      BY <3>1, Bounds DEF Types
    <3>3. text \in TextOf /\ text.of = page.content.of
      BY <3>1, WrittenIsText DEF Types, Page
    <3> QED
      BY <3>1, <3>2, <3>3
  <2>2. CASE \E t \in displayed \ {page.content} :
                /\ t.of = page.content.of
                /\ page' = [page EXCEPT !.content = t]
                /\ UNCHANGED edits
    BY <2>2 DEF Types
  <2> QED
    BY <2>1, <2>2 DEF HandleContentChange
<1>3. /\ page' \in Page
      /\ page'.kind = page.kind /\ page'.doc = page.doc /\ page'.step = page.step
      /\ page'.content = text /\ page'.savedContent = page.savedContent
      /\ page'.lockHeld = page.lockHeld /\ page'.saving = page.saving
  BY <1>2 DEF Types, Page
<1>4. page.doc \in Docs /\ carried' \subseteq Docs /\ carried \subseteq carried'
  BY <1>1 DEF Types, PageShape
<1>5. Types'
  BY <1>1, <1>2, <1>3, <1>4 DEF Types
<1>6. PageShape' /\ AwaitedRequests'
  <2>1. page # NoPage
    BY <1>1, NoPageIsPage
  <2> QED
    BY <1>1, <1>3, <2>1 DEF PageShape, AwaitedRequests
<1>7. OneSave' /\ Strays' /\ LockKept' /\ LockHasOwner'
  BY <1>1, <1>3 DEF OneSave, Strays, OfPage, LockKept, LockHasOwner
<1>8. TextsOwn'
  BY <1>1, <1>2, <1>3, <1>4 DEF TextsOwn, OwnText, dirty
<1>9. TextsSeen' /\ SavedIsStored'
  BY <1>1, <1>3 DEF TextsSeen, SavedIsStored, dirty
<1> QED
  BY <1>5, <1>6, <1>7, <1>8, <1>9

LEMMA SaveDocumentStep ==
    ASSUME IInv, SaveDocument
    PROVE  IInv'
<1> USE DEF IInv
<1> DEFINE q == [op |-> "save", doc |-> page.doc, content |-> page.content, alive |-> TRUE]
<1>1. /\ page.kind = "edit" /\ ~page.saving /\ dirty
      /\ page' = [page EXCEPT !.saving = TRUE]
      /\ net' = net \cup {q}
      /\ UNCHANGED <<role, stored, lock, edits, visits, displayed, lapsed, hushed, strayed, unreleased, carried>>
  BY DEF SaveDocument, backend, history
<1>2. q \in Request /\ q.op = "save" /\ q.doc = page.doc /\ q.content = page.content /\ q.alive
  BY <1>1 DEF Types, Page, PageShape, Request
<1> HIDE DEF q
<1>3. /\ page' \in Page
      /\ page'.kind = page.kind /\ page'.doc = page.doc /\ page'.step = page.step
      /\ page'.content = page.content /\ page'.savedContent = page.savedContent
      /\ page'.lockHeld = page.lockHeld /\ page'.saving
  BY <1>1 DEF Types, Page
<1>4. Types'
  BY <1>1, <1>2, <1>3 DEF Types
<1>5. PageShape' /\ AwaitedRequests'
  BY <1>1, <1>2, <1>3 DEF PageShape, AwaitedRequests
<1>6. OneSave'
  BY <1>1, <1>2, <1>3 DEF OneSave
<1>7. Strays' /\ LockKept'
  BY <1>1, <1>2, <1>3 DEF Strays, OfPage, LockKept
<1>8. LockHasOwner'
  BY <1>1, <1>3 DEF LockHasOwner, UnlockSent
<1>9. TextsOwn' /\ TextsSeen' /\ SavedIsStored'
  BY <1>1, <1>2, <1>3 DEF TextsOwn, OwnText, TextsSeen, SavedIsStored, dirty
<1> QED
  BY <1>4, <1>5, <1>6, <1>7, <1>8, <1>9

(* The answer to a save, accepted, rejected or lost, and a save that       *)
(* nobody waits for.                                                       *)
LEMMA SaveEnds ==
    ASSUME IInv, NEW r \in net, r.op = "save", net' = net \ {r},
           UNCHANGED <<role, lock, edits, visits, displayed, lapsed, strayed, unreleased, carried>>,
           stored' \in {stored, [stored EXCEPT ![r.doc] = r.content]},
           hushed' \in BOOLEAN,
           page' \in Page,
           page'.kind = page.kind, page'.doc = page.doc, page'.step = page.step,
           page'.content = page.content, page'.lockHeld = page.lockHeld,
           page'.savedContent \in {page.savedContent, page.content},
           r.alive => ~page'.saving,
           ~r.alive => page' = page
    PROVE  Types' /\ PageShape' /\ AwaitedRequests' /\ OneSave' /\ Strays' /\ LockKept'
           /\ LockHasOwner' /\ TextsOwn' /\ TextsSeen'
<1> USE DEF IInv
<1>1. r \in Request /\ r.doc \in Docs /\ r.content \in TextOf
  BY DEF Types, Request
<1>2. /\ stored' \in [Docs -> TextOf]
      /\ \A d \in Docs : stored'[d] = stored[d] \/ (d = r.doc /\ stored'[d] = r.content)
  BY <1>1 DEF Types
<1>3. page'.saving => page.saving
  <2>1. page' = page \/ ~page'.saving
    OBVIOUS
  <2> QED
    BY <2>1
<1>4. Types'
  BY <1>2 DEF Types
<1>5. PageShape' /\ AwaitedRequests'
  <2>1. page.kind # "none"
    \/ page' = page
    BY NoPageIsPage DEF AwaitedRequests
  <2> QED
    BY <1>3, <2>1 DEF PageShape, AwaitedRequests
<1>6. OneSave'
  BY <1>3 DEF OneSave
<1>7. Strays' /\ LockKept'
  BY DEF Strays, OfPage, LockKept
<1>8. LockHasOwner'
  <2>1. \A d : UnlockSent(d, net) => UnlockSent(d, net')
    BY UnlocksStay
  <2> QED
    BY <2>1 DEF LockHasOwner
<1>9. TextsOwn'
  BY <1>1, <1>2 DEF TextsOwn, OwnText, dirty
<1>10. TextsSeen'
  BY <1>1, <1>2 DEF TextsSeen, PageShape, dirty
<1> QED
  BY <1>4, <1>5, <1>6, <1>7, <1>8, <1>9, <1>10

LEMMA HandleSaveStep ==
    ASSUME IInv, NEW r \in net, HandleSave(r)
    PROVE  IInv'
<1> USE DEF IInv
<1>1. /\ r.op = "save" /\ net' = net \ {r}
      /\ UNCHANGED <<role, lock, edits, visits, displayed, lapsed, strayed, unreleased, carried>>
  BY DEF HandleSave
<1>2. r.doc \in Docs /\ r.content \in TextOf /\ page \in Page /\ stored \in [Docs -> TextOf]
  BY DEF Types, Request
<1>3. CASE Accepted(r) /\ r.alive
  <2>1. /\ stored' = [stored EXCEPT ![r.doc] = r.content]
        /\ page' = [page EXCEPT !.saving = FALSE, !.savedContent = page.content]
        /\ hushed' = (r.content # page.content \/ r.doc # page.doc)
    BY <1>2, <1>3 DEF HandleSave, Answered, Page
  <2>2. /\ page' \in Page
        /\ page'.kind = page.kind /\ page'.doc = page.doc /\ page'.step = page.step
        /\ page'.content = page.content /\ page'.lockHeld = page.lockHeld
        /\ page'.savedContent = page.content /\ ~page'.saving
    BY <1>2, <2>1 DEF Page
  <2>3. SavedIsStored'
    BY <1>1, <1>2, <2>1, <2>2 DEF SavedIsStored, dirty
  <2>4. hushed' \in BOOLEAN
    BY <2>1
  <2> QED
    BY <1>1, <1>3, <2>1, <2>2, <2>3, <2>4, SaveEnds
<1>4. CASE Accepted(r) /\ ~r.alive
  <2>1. stored' = [stored EXCEPT ![r.doc] = r.content] /\ page' = page /\ hushed' = hushed
    BY <1>4 DEF HandleSave, Types
  <2>2. r.doc \in strayed
    BY <1>1, <1>4 DEF Strays, OfPage
  <2>3. SavedIsStored'
    BY <1>1, <1>2, <2>1, <2>2 DEF SavedIsStored, dirty, PageShape
  <2> QED
    BY <1>1, <1>2, <1>4, <2>1, <2>3, SaveEnds DEF Types
<1>5. CASE ~Accepted(r)
  <2>1. /\ page' = (IF r.alive THEN [page EXCEPT !.saving = FALSE] ELSE page)
        /\ UNCHANGED <<stored, hushed>>
    BY <1>5 DEF HandleSave, Answered
  <2>2. /\ page' \in Page
        /\ page'.kind = page.kind /\ page'.doc = page.doc /\ page'.step = page.step
        /\ page'.content = page.content /\ page'.lockHeld = page.lockHeld
        /\ page'.savedContent = page.savedContent
        /\ (r.alive => ~page'.saving) /\ (~r.alive => page' = page)
    BY <1>2, <2>1 DEF Page
  <2>3. SavedIsStored'
    BY <1>1, <2>1, <2>2 DEF SavedIsStored, dirty
  <2> QED
    BY <1>1, <2>1, <2>2, <2>3, SaveEnds DEF Types
<1> QED
  BY <1>3, <1>4, <1>5

LEMMA SaveFailsStep ==
    ASSUME IInv, NEW r \in net, SaveFails(r)
    PROVE  IInv'
<1> USE DEF IInv
<1>1. /\ r.op = "save" /\ r.alive /\ net' = net \ {r}
      /\ page' = [page EXCEPT !.saving = FALSE]
      /\ UNCHANGED <<role, stored, lock, edits, visits, displayed, lapsed, hushed, strayed, unreleased, carried>>
  BY DEF SaveFails, Answered, backend, history
<1>2. /\ page' \in Page
      /\ page'.kind = page.kind /\ page'.doc = page.doc /\ page'.step = page.step
      /\ page'.content = page.content /\ page'.lockHeld = page.lockHeld
      /\ page'.savedContent = page.savedContent /\ ~page'.saving
  BY <1>1 DEF Types, Page
<1>3. SavedIsStored'
  BY <1>1, <1>2 DEF SavedIsStored, dirty
<1> QED
  BY <1>1, <1>2, <1>3, SaveEnds DEF Types

LEMMA SaveAnswerLostStep ==
    ASSUME IInv, NEW r \in net, SaveAnswerLost(r)
    PROVE  IInv'
<1> USE DEF IInv
<1>1. /\ r.op = "save" /\ r.alive /\ net' = net \ {r}
      /\ stored' = [stored EXCEPT ![r.doc] = r.content]
      /\ page' = [page EXCEPT !.saving = FALSE]
      /\ hushed' = TRUE
      /\ UNCHANGED <<role, lock, edits, visits, displayed, lapsed, strayed, unreleased, carried>>
  BY DEF SaveAnswerLost, Answered
<1>2. /\ page' \in Page
      /\ page'.kind = page.kind /\ page'.doc = page.doc /\ page'.step = page.step
      /\ page'.content = page.content /\ page'.lockHeld = page.lockHeld
      /\ page'.savedContent = page.savedContent /\ ~page'.saving
  BY <1>1 DEF Types, Page
<1>3. SavedIsStored'
  BY <1>1 DEF SavedIsStored
<1> QED
  BY <1>1, <1>2, <1>3, SaveEnds

-------------------------------------------------------------------------------
(* The lock.                                                               *)

LEMMA RefreshLockStep ==
    ASSUME IInv, RefreshLock
    PROVE  IInv'
<1> USE DEF IInv
<1> DEFINE q == Unawaited("refresh", page.doc)
<1>1. page.lockHeld /\ page.kind = "edit" /\ page.doc \in Docs
  BY DEF RefreshLock, PageShape
<1>2. q \in Request /\ q.op = "refresh" /\ q.doc = page.doc /\ q.content = Empty /\ ~q.alive
  BY <1>1, UnawaitedIsRequest
<1>3. /\ net' = net \cup {q}
      /\ UNCHANGED <<role, page, stored, lock, edits, visits, displayed, lapsed, hushed, strayed, unreleased, carried>>
  BY DEF RefreshLock, backend, history
<1> HIDE DEF q
<1>4. Types' /\ PageShape' /\ AwaitedRequests'
  BY <1>1, <1>2, <1>3 DEF Types, PageShape, AwaitedRequests
<1>5. OneSave' /\ Strays' /\ LockKept'
  BY <1>1, <1>2, <1>3 DEF OneSave, Strays, OfPage, LockKept
<1>6. LockHasOwner'
  BY <1>3 DEF LockHasOwner, UnlockSent
<1>7. TextsOwn' /\ TextsSeen' /\ SavedIsStored'
  BY <1>2, <1>3 DEF TextsOwn, OwnText, TextsSeen, SavedIsStored, dirty
<1> QED
  BY <1>4, <1>5, <1>6, <1>7

LEMMA HandleRefreshStep ==
    ASSUME IInv, NEW r \in net, HandleRefresh(r)
    PROVE  IInv'
<1> USE DEF IInv
<1>1. /\ r.op = "refresh" /\ r.doc \in Docs /\ net' = net \ {r}
      /\ lock' = IF lock[r.doc] = "none" THEN [lock EXCEPT ![r.doc] = "me"] ELSE lock
      /\ UNCHANGED <<role, page, stored, edits, visits, displayed, lapsed, hushed, strayed, unreleased, carried>>
  BY DEF HandleRefresh, history, Types, Request
<1>2. /\ lock' \in [Docs -> Holder]
      /\ \A d \in Docs : lock'[d] # lock[d] => d = r.doc /\ lock'[d] = "me"
  BY <1>1 DEF Types, Holder
<1>3. Types' /\ PageShape' /\ AwaitedRequests'
  BY <1>1, <1>2 DEF Types, PageShape, AwaitedRequests
<1>4. OneSave' /\ Strays' /\ LockKept'
  BY <1>1, <1>2 DEF OneSave, Strays, OfPage, LockKept, PageShape
<1>5. LockHasOwner'
  <2>1. \A d : UnlockSent(d, net) => UnlockSent(d, net')
    BY <1>1, UnlocksStay
  <2>2. (r.doc = page.doc /\ page.kind = "edit") \/ r.doc \in strayed
    BY <1>1 DEF Strays, OfPage, AwaitedRequests
  <2> QED
    BY <1>1, <1>2, <2>1, <2>2 DEF LockHasOwner
<1>6. TextsOwn' /\ TextsSeen' /\ SavedIsStored'
  BY <1>1 DEF TextsOwn, OwnText, TextsSeen, SavedIsStored, dirty
<1> QED
  BY <1>3, <1>4, <1>5, <1>6

(* The lock of a document is gone: by an unlock, or by its lease. *)
LEMMA LockGoes ==
    ASSUME IInv, NEW d \in Docs, lock' = [lock EXCEPT ![d] = "none"], lapsed' = Loses(d),
           net' = net \/ \E r \in net : r.op = "unlock" /\ r.doc = d /\ net' = net \ {r},
           unreleased' = unreleased \ {d},
           UNCHANGED <<role, page, stored, edits, visits, displayed, hushed, strayed, carried>>
    PROVE  IInv'
<1> USE DEF IInv
<1>1. /\ lock' \in [Docs -> Holder] /\ lock'[d] = "none"
      /\ \A e \in Docs : e # d => lock'[e] = lock[e]
  BY DEF Types, Holder
<1>2. /\ lapsed' \subseteq Docs /\ lapsed \subseteq lapsed'
      /\ page.doc = d /\ page.step \in {"get", "ready"} /\ lock[d] = "me" => d \in lapsed'
      /\ unreleased' \subseteq Docs /\ unreleased \ {d} \subseteq unreleased'
  BY DEF Loses, Types
<1>3. /\ net' \subseteq net
      /\ \A q \in net : q.op # "unlock" => q \in net'
      /\ \A q \in net : q.doc # d => q \in net'
  OBVIOUS
<1>4. Types' /\ PageShape' /\ AwaitedRequests'
  BY <1>1, <1>2, <1>3 DEF Types, PageShape, AwaitedRequests
<1>5. OneSave' /\ Strays'
  BY <1>3 DEF OneSave, Strays, OfPage
<1>6. LockKept'
  BY <1>1, <1>2 DEF LockKept, PageShape
<1>7. LockHasOwner'
  <2>1. \A e \in Docs : e # d /\ UnlockSent(e, net) => UnlockSent(e, net')
    BY <1>3 DEF UnlockSent
  <2> QED
    BY <1>1, <1>2, <2>1 DEF LockHasOwner
<1>8. TextsOwn' /\ TextsSeen' /\ SavedIsStored'
  BY <1>2, <1>3 DEF TextsOwn, OwnText, TextsSeen, SavedIsStored, dirty
<1> QED
  BY <1>4, <1>5, <1>6, <1>7, <1>8

LEMMA HandleUnlockStep ==
    ASSUME IInv, NEW r \in net, HandleUnlock(r)
    PROVE  IInv'
<1>1. r.doc \in Docs
  BY DEF IInv, Types, Request
<1> QED
  BY <1>1, LockGoes DEF HandleUnlock

(* An unlock is lost: the document is in unreleased from now on. *)
LEMMA UnlockFailsStep ==
    ASSUME IInv, NEW r \in net, UnlockFails(r)
    PROVE  IInv'
<1> USE DEF IInv
<1>1. /\ r.op = "unlock" /\ r.doc \in Docs /\ net' = net \ {r}
      /\ unreleased' = unreleased \cup {r.doc}
      /\ UNCHANGED <<role, page, stored, lock, edits, visits, displayed, lapsed, hushed, strayed, carried>>
  BY DEF UnlockFails, backend, Types, Request
<1>2. Types' /\ PageShape' /\ AwaitedRequests'
  BY <1>1 DEF Types, PageShape, AwaitedRequests
<1>3. OneSave' /\ Strays' /\ LockKept'
  BY <1>1 DEF OneSave, Strays, OfPage, LockKept
<1>4. LockHasOwner'
  <2>1. \A d \in Docs : d # r.doc /\ UnlockSent(d, net) => UnlockSent(d, net')
    BY <1>1 DEF UnlockSent
  <2> QED
    BY <1>1, <2>1 DEF LockHasOwner
<1>5. TextsOwn' /\ TextsSeen' /\ SavedIsStored'
  BY <1>1 DEF TextsOwn, OwnText, TextsSeen, SavedIsStored, dirty
<1> QED
  BY <1>2, <1>3, <1>4, <1>5

LEMMA ExpireStep ==
    ASSUME IInv, NEW d \in Docs, Expire(d)
    PROVE  IInv'
BY LockGoes DEF Expire

LEMMA OtherLocksStep ==
    ASSUME IInv, NEW d \in Docs, OtherLocks(d)
    PROVE  IInv'
<1> USE DEF IInv
<1>1. /\ lock[d] = "none"
      /\ \E h \in {"other", "collaborative"} : lock' = [lock EXCEPT ![d] = h]
      /\ UNCHANGED <<role, page, net, stored, edits, visits, displayed, lapsed, hushed, strayed, unreleased, carried>>
  BY DEF OtherLocks, history
<1>2. /\ lock' \in [Docs -> Holder] /\ lock'[d] \in {"other", "collaborative"}
      /\ \A e \in Docs : e # d => lock'[e] = lock[e]
  BY <1>1 DEF Types, Holder
<1>3. Types' /\ PageShape' /\ AwaitedRequests'
  BY <1>1, <1>2 DEF Types, PageShape, AwaitedRequests
<1>4. OneSave' /\ Strays' /\ LockKept'
  BY <1>1, <1>2 DEF OneSave, Strays, OfPage, LockKept, PageShape
<1>5. LockHasOwner'
  BY <1>1, <1>2 DEF LockHasOwner
<1>6. TextsOwn' /\ TextsSeen' /\ SavedIsStored'
  BY <1>1 DEF TextsOwn, OwnText, TextsSeen, SavedIsStored, dirty
<1> QED
  BY <1>3, <1>4, <1>5, <1>6

LEMMA OtherSavesStep ==
    ASSUME IInv, NEW d \in Docs, OtherSaves(d)
    PROVE  IInv'
<1> USE DEF IInv
<1> DEFINE text == Written(stored[d])
<1>1. /\ lock[d] \in {"other", "collaborative"}
      /\ edits < MaxEdits /\ edits' = edits + 1
      /\ stored' = [stored EXCEPT ![d] = text]
      /\ UNCHANGED <<role, page, net, lock, visits, displayed, lapsed, hushed, strayed, unreleased, carried>>
  BY DEF OtherSaves, Write, history, Types
<1>2. text \in TextOf /\ text.of = stored[d].of /\ text.n = edits + 1
  BY <1>1, WrittenIsText DEF Types
<1> HIDE DEF text
<1>3. /\ stored' \in [Docs -> TextOf] /\ stored'[d] = text
      /\ \A e \in Docs : e # d => stored'[e] = stored[e]
  BY <1>1, <1>2 DEF Types
<1>4. edits' \in 0..MaxEdits
  BY <1>1, Bounds DEF Types
<1>5. Types' /\ PageShape' /\ AwaitedRequests'
  BY <1>1, <1>3, <1>4 DEF Types, PageShape, AwaitedRequests
<1>6. OneSave' /\ Strays' /\ LockKept' /\ LockHasOwner'
  BY <1>1 DEF OneSave, Strays, OfPage, LockKept, LockHasOwner
<1>7. TextsOwn'
  BY <1>1, <1>2, <1>3 DEF TextsOwn, OwnText, dirty
<1>8. TextsSeen' /\ SavedIsStored'
  BY <1>1, <1>3 DEF TextsSeen, SavedIsStored, LockKept, PageShape, dirty
<1> QED
  BY <1>5, <1>6, <1>7, <1>8

-------------------------------------------------------------------------------
(* The induction.                                                          *)

LEMMA InitIInv == Init => IInv
<1> SUFFICES ASSUME Init PROVE IInv
  OBVIOUS
<1>1. /\ role \in {"EDITOR", "VIEWER"} /\ page = NoPage /\ net = {}
      /\ stored = [d \in Docs |-> [of |-> d, n |-> 0]]
      /\ lock = [d \in Docs |-> "none"]
      /\ edits = 0 /\ visits = 0 /\ displayed = {} /\ lapsed = {} /\ hushed = FALSE
      /\ strayed = {} /\ unreleased = {} /\ carried = {}
  BY DEF Init
<1>2. \A d \in Docs : /\ stored[d] \in TextOf
                      /\ stored[d].of = d /\ stored[d].n = 0
  <2>1. 0 \in 0..MaxEdits
    BY Bounds
  <2> QED
    BY <1>1, <2>1 DEF TextOf
<1>3. 0 \in 0..MaxEdits /\ 0 \in 0..MaxVisits
  BY Bounds
<1>4. Types
  BY <1>1, <1>2, <1>3, NoPageIsPage DEF Types, Holder
<1>5. PageShape /\ AwaitedRequests /\ OneSave /\ Strays /\ LockKept
  BY <1>1, NoPageIsPage DEF PageShape, AwaitedRequests, OneSave, Strays, OfPage, LockKept
<1>6. LockHasOwner
  BY <1>1 DEF LockHasOwner
<1>7. TextsOwn /\ TextsSeen /\ SavedIsStored
  BY <1>1, <1>2, NoPageIsPage DEF TextsOwn, OwnText, TextsSeen, SavedIsStored
<1> QED
  BY <1>4, <1>5, <1>6, <1>7 DEF IInv

LEMMA NextIInv == IInv /\ [Next]_vars => IInv'
<1> SUFFICES ASSUME IInv, [Next]_vars PROVE IInv'
  OBVIOUS
<1>1. CASE Next
  <2>1. ASSUME NEW d \in Docs,
               \/ \E kind \in {"entry", "edit", "readonly"} : OpenPage(kind, d)
               \/ SwitchDocument(d)
               \/ Expire(d) \/ OtherLocks(d) \/ OtherSaves(d)
        PROVE  IInv'
    BY <2>1, OpenPageStep, SwitchDocumentStep, ExpireStep, OtherLocksStep, OtherSavesStep
  <2>2. ASSUME RenewToken \/ Leave \/ Die PROVE IInv'
    BY <2>2, RenewTokenStep, LeaveStep, DieStep
  <2>3. ASSUME Loads \/ LoadFails PROVE IInv'
    BY <2>3, ReadLockStep, ReadDocumentStep, LoadFailsStep DEF Loads
  <2>4. ASSUME HandleContentChange \/ SaveDocument \/ RefreshLock PROVE IInv'
    BY <2>4, HandleContentChangeStep, SaveDocumentStep, RefreshLockStep
  <2>5. ASSUME NEW r \in net, Handle(r) \/ SaveAnswerLost(r) \/ SaveFails(r) \/ UnlockFails(r)
        PROVE  IInv'
    BY <2>5, HandleAcquireStep, HandleSaveStep, HandleRefreshStep, HandleUnlockStep,
       SaveAnswerLostStep, SaveFailsStep, UnlockFailsStep DEF Handle
  <2> QED
    BY <1>1, <2>1, <2>2, <2>3, <2>4, <2>5 DEF Next
<1>2. CASE UNCHANGED vars
  BY <1>2 DEF vars, backend, history, IInv, Types, PageShape, AwaitedRequests, OneSave, Strays, OfPage,
              LockKept, LockHasOwner, TextsOwn, OwnText, TextsSeen, SavedIsStored, dirty
<1> QED
  BY <1>1, <1>2

THEOREM InductiveInvariant == Spec => []IInv
<1>1. Init => IInv
  BY InitIInv
<1>2. IInv /\ [Next]_vars => IInv'
  BY NextIInv
<1> QED
  BY <1>1, <1>2, PTL DEF Spec

(* Every variable keeps its type, and "saving" means a save on its way.    *)
(* Code: "finally" in saveDocument.                                        *)
THEOREM TypeCorrect == Spec => []TypeOK
<1>1. IInv => TypeOK
  BY DEF IInv, Types, OneSave, TypeOK
<1> QED
  BY <1>1, InductiveInvariant, PTL

(* What a loaded page has for saved is stored, unless the lock was lost,   *)
(* the document was left with a request still going, or the last save that *)
(* was stored ended otherwise than the page believes.  Code: savedContent  *)
(* in saveDocument and in the load.                                        *)
THEOREM SavedTextsAreStored == Spec => []SavedIsStored
<1>1. IInv => SavedIsStored
  BY DEF IInv
<1> QED
  BY <1>1, InductiveInvariant, PTL

(* A lock of this user has a page or an unlock on its way, unless the      *)
(* unlock was lost or the document was left with something still going on. *)
(* Code: onCleanup of the load effect, and the unlock that nobody repeats. *)
THEOREM LocksHavePages == Spec => []LockHasPage
<1>1. IInv => LockHasPage
  BY DEF IInv, LockHasOwner, UnlockSent, LockHasPage
<1> QED
  BY <1>1, InductiveInvariant, PTL

(* A document keeps its own text, unless the page came to it with unsaved  *)
(* text of another or the user typed behind the lock modal.  Code:         *)
(* saveDocument, handleContentChange and the load effect.                  *)
THEOREM TextsStayApart == Spec => []OwnText
<1>1. IInv => OwnText
  BY DEF IInv, TextsOwn
<1> QED
  BY <1>1, InductiveInvariant, PTL

(* A save of a loaded page replaces only what its user has seen.  Code:    *)
(* lockDocument before getDocument, saveDocument under the same lock.      *)
THEOREM SavesReplaceWhatWasSeen == Spec => NoOverwriteUnseen
<1> DEFINE Unseen(r) ==
      /\ r.op = "save" /\ r.alive
      /\ r \notin net'
      /\ r.doc = page.doc
      /\ page.step = "ready"
      /\ page.doc \notin lapsed \cup strayed
      /\ stored' # stored
      => stored[r.doc] \in displayed
<1>1. IInv => \A r \in net : Unseen(r)
  BY DEF IInv, AwaitedRequests, TextsSeen
<1>2. Spec => [][\A r \in net : Unseen(r)]_vars
  <2>1. IInv /\ [Next]_vars => [\A r \in net : Unseen(r)]_vars
    BY <1>1
  <2> QED
    BY <2>1, InductiveInvariant, PTL DEF Spec
<1> QED
  BY <1>2 DEF NoOverwriteUnseen
================================================================================
