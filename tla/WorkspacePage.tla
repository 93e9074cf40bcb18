----------------------------- MODULE WorkspacePage -----------------------------
(***************************************************************************)
(* The pages one user works on documents with, alone:                      *)
(* document-entry-page, document-workspace-page and                        *)
(* document-workspace-page-readonly, with DocumentService between them and *)
(* the backend.                                                            *)
(*                                                                         *)
(* Every call is an HTTP request of its own: "net" has those the backend   *)
(* has not handled yet, and they overtake each other.  A request is alive  *)
(* while the component that waits for its answer is.  What only reads is   *)
(* answered in one step.  The backend's lock is that of DocumentLock, seen *)
(* by this user: its row is absent, ours, another user's, or that of a     *)
(* collaborative session.                                                  *)
(***************************************************************************)
EXTENDS Integers, FiniteSets

CONSTANTS
    Docs,       \* the documents
    MaxEdits,   \* bound: texts that are written, by anybody
    MaxVisits   \* bound: pages that are opened

ASSUME PageAssumption ==
    /\ IsFiniteSet(Docs)
    /\ "" \notin Docs
    /\ MaxEdits \in Nat
    /\ MaxVisits \in Nat

VARIABLES
    role,       \* myPermission of this user
    page,       \* the page that is open, and its signals
    net,        \* requests on their way to the backend
    stored,     \* the backend: the text of each document
    lock,       \* the backend: the lock of each document
    edits,      \* bound: texts written so far
    visits,     \* bound: pages opened so far
    displayed,  \* the texts this user has had on the screen
    lapsed,     \* history: documents whose lock the open page has lost
    hushed,     \* history: what the page has for saved is not what was stored
    strayed,    \* history: documents left with something still going on
    unreleased, \* history: documents whose unlock was lost
    carried     \* history: documents with unsaved text of another on the page

backend == <<stored, lock>>
history == <<displayed, lapsed, hushed, strayed, unreleased, carried>>

vars == <<role, page, net, backend, edits, visits, history>>

(* A text is known by the document it was written for and a number. *)
TextOf == [of : Docs \cup {""}, n : 0..MaxEdits]

Empty == [of |-> "", n |-> 0]

Holder == {"none", "me", "other", "collaborative"}

Step == {"getLock", "acquire", "get", "ready", "modal", "error"}

(* The signals of a component that has just been created. *)
Fresh(kind, d) ==
    [kind |-> kind, doc |-> d, step |-> IF kind = "readonly" THEN "get" ELSE "getLock",
     content |-> Empty, savedContent |-> Empty, canEdit |-> FALSE,
     lockHeld |-> FALSE, saving |-> FALSE]

NoPage == [Fresh("none", "") EXCEPT !.step = "ready"]

Page == [kind : {"none", "entry", "edit", "readonly"}, doc : Docs \cup {""}, step : Step,
         content : TextOf, savedContent : TextOf, canEdit : BOOLEAN,
         lockHeld : BOOLEAN, saving : BOOLEAN]

Request == [op : {"acquire", "refresh", "unlock", "save"}, doc : Docs, content : TextOf,
            alive : BOOLEAN]

Call(op, d) == [op |-> op, doc |-> d, content |-> Empty, alive |-> TRUE]

(* A request whose answer changes nothing. *)
Unawaited(op, d) == [Call(op, d) EXCEPT !.alive = FALSE]

dirty == page.content # page.savedContent

Init ==
    /\ role \in {"EDITOR", "VIEWER"}
    /\ page = NoPage
    /\ net = {}
    /\ stored = [d \in Docs |-> [of |-> d, n |-> 0]]
    /\ lock = [d \in Docs |-> "none"]
    /\ edits = 0
    /\ visits = 0
    /\ displayed = {}
    /\ lapsed = {}
    /\ hushed = FALSE
    /\ strayed = {}
    /\ unreleased = {}
    /\ carried = {}

-------------------------------------------------------------------------------
(* Opening and leaving.                                                    *)

(* A component that is destroyed no longer waits for its requests. *)
Orphaned(S) == {[r EXCEPT !.alive = FALSE] : r \in S}

(* A mutant of Cleanup: only a page without unsaved text releases. *)
CleanupIfClean(abandoned, kept) ==
    net' = Orphaned(abandoned) \cup kept
           \cup (IF page.lockHeld /\ ~dirty THEN {Unawaited("unlock", page.doc)} ELSE {})

(* onCleanup of the load effect: the load is unsubscribed, and a lock that *)
(* is held is released, best effort.                                       *)
Cleanup(abandoned, kept) ==
    net' = Orphaned(abandoned) \cup kept
           \cup (IF page.lockHeld THEN {Unawaited("unlock", page.doc)} ELSE {})

(* What is remembered of the document that is left. *)
Left ==
    /\ strayed' = IF \/ page.kind \in {"entry", "edit"} /\ page.step # "ready"
                     \/ \E r \in net : r.doc = page.doc /\ r.op # "unlock"
                  THEN strayed \cup {page.doc} ELSE strayed
    /\ lapsed' = {}
    /\ hushed' = FALSE

Visit == visits < MaxVisits /\ visits' = visits + 1

(* The library or an address opens a page; the entry page passes a viewer  *)
(* it is told of on to the readonly page.                                  *)
OpenPage(kind, d) ==
    /\ page = NoPage
    /\ Visit
    /\ page' \in {Fresh(kind, d)} \cup
                 (IF kind = "entry" /\ role = "VIEWER" THEN {Fresh("readonly", d)} ELSE {})
    /\ UNCHANGED <<role, net, backend, edits, history>>

(* The load effect runs again, for the document d: the component stays,    *)
(* with what it shows and with the save it waits for.                      *)
LoadAgain(d) ==
    /\ Visit
    /\ Cleanup({r \in net : r.op # "save"}, {r \in net : r.op = "save"})
    /\ Left
    /\ page' = [page EXCEPT !.doc = d, !.step = "getLock", !.lockHeld = FALSE]
    /\ carried' = IF dirty /\ d # page.doc THEN carried \cup {d} ELSE carried
    /\ UNCHANGED <<role, backend, edits, displayed, unreleased>>

(* The route changes to another document. *)
SwitchDocument(d) ==
    /\ page.kind = "edit"
    /\ d # page.doc
    /\ LoadAgain(d)

(* The access token is renewed: the interceptor reads the signal while the *)
(* load effect subscribes, so the effect depends on it.  The readonly page *)
(* has nothing to clean up.                                                *)
RenewToken ==
    \/ /\ page.kind \in {"entry", "edit"}
       /\ LoadAgain(page.doc)
    \/ /\ page.kind = "readonly"
       /\ Visit
       /\ page' = [page EXCEPT !.step = "get"]
       /\ UNCHANGED <<role, net, backend, edits, history>>

Leave ==
    /\ page # NoPage
    /\ Cleanup(net, {})
    /\ Left
    /\ page' = NoPage
    /\ UNCHANGED <<role, backend, edits, visits, displayed, unreleased, carried>>

(* The browser dies: nothing is released. *)
Die ==
    /\ page # NoPage
    /\ net' = Orphaned(net)
    /\ strayed' = strayed \cup {page.doc}
    /\ lapsed' = {}
    /\ hushed' = FALSE
    /\ page' = NoPage
    /\ UNCHANGED <<role, backend, edits, visits, displayed, unreleased, carried>>

-------------------------------------------------------------------------------
(* Loading: getDocumentLock, then openDocument: lockDocument, getDocument. *)

(* A mutant of ReadLock: another user's lock does not stop the load. *)
ReadLockUnchecked ==
    /\ page.step = "getLock"
    /\ page' = [page EXCEPT !.step = "get"]
    /\ UNCHANGED net
    /\ UNCHANGED <<role, backend, edits, visits, history>>

(* The entry page stops at every lock, the workspace page only at another  *)
(* user's exclusive one.                                                   *)
EntryStops == page.kind = "entry" /\ lock[page.doc] # "none"

ReadLock ==
    /\ page.step = "getLock"
    /\ IF EntryStops \/ lock[page.doc] = "other"
       THEN page' = [page EXCEPT !.step = "modal"] /\ UNCHANGED net
       ELSE /\ page' = [page EXCEPT !.step = "acquire"]
            /\ net' = net \cup {Call("acquire", page.doc)}
    /\ UNCHANGED <<role, backend, edits, visits, history>>

(* lockDocument with EXCLUSIVE; the backend asks for no permission. *)
HandleAcquire(r) ==
    LET granted == lock[r.doc] \in {"none", "me"} IN
    /\ r.op = "acquire"
    /\ net' = net \ {r}
    /\ lock' = IF granted THEN [lock EXCEPT ![r.doc] = "me"] ELSE lock
    /\ page' = IF r.alive THEN [page EXCEPT !.step = IF granted THEN "get" ELSE "error"] ELSE page
    /\ UNCHANGED <<role, stored, edits, visits, history>>

(* A mutant of ReadDocument: a text that is there already stays. *)
ReadDocumentKeepingText ==
    LET text == IF page.content = Empty THEN stored[page.doc] ELSE page.content IN
    /\ page.step = "get"
    /\ page.kind = "edit"
    /\ page' = [page EXCEPT !.content = text, !.savedContent = text, !.canEdit = role # "VIEWER",
                            !.lockHeld = TRUE, !.step = "ready"]
    /\ displayed' = displayed \cup {text}
    /\ UNCHANGED <<lapsed, hushed, strayed>>
    /\ UNCHANGED <<role, net, backend, edits, visits, unreleased, carried>>

(* The entry page navigates on; a viewer is taken away from the lock. *)
EntryNavigates ==
    /\ page' = Fresh(IF role = "VIEWER" THEN "readonly" ELSE "edit", page.doc)
    /\ strayed' = IF role = "VIEWER" THEN strayed \cup {page.doc} ELSE strayed
    /\ lapsed' = {}
    /\ UNCHANGED <<displayed, hushed>>

(* getDocument: the entry page navigates on, the others show the text. *)
ReadDocument ==
    /\ page.step = "get"
    /\ CASE page.kind = "entry" -> EntryNavigates
         [] page.kind = "readonly" ->
              /\ page' = [page EXCEPT !.content = stored[page.doc], !.savedContent = stored[page.doc],
                                      !.step = "ready"]
              /\ displayed' = displayed \cup {stored[page.doc]}
              /\ UNCHANGED <<lapsed, hushed, strayed>>
         [] page.kind = "edit" ->
              /\ page' = [page EXCEPT !.content = stored[page.doc], !.savedContent = stored[page.doc],
                                      !.canEdit = role # "VIEWER",
                                      !.lockHeld = TRUE, !.step = "ready"]
              /\ displayed' = displayed \cup {stored[page.doc]}
              /\ UNCHANGED <<lapsed, hushed, strayed>>
    /\ UNCHANGED <<role, net, backend, edits, visits, unreleased, carried>>

(* A request of the load fails, perhaps after the backend has done it. *)
LoadFails ==
    /\ page.step \in {"getLock", "acquire", "get"}
    /\ page' = [page EXCEPT !.step = "error"]
    /\ net' = {IF r.op = "acquire" THEN [r EXCEPT !.alive = FALSE] ELSE r : r \in net}
    /\ strayed' = strayed \cup {page.doc}
    /\ UNCHANGED <<role, backend, edits, visits, displayed, lapsed, hushed, unreleased, carried>>

-------------------------------------------------------------------------------
(* Editing and saving.                                                     *)

(* A new text: of the document the text it replaces is of. *)
Written(t) == [of |-> t.of, n |-> edits + 1]

Write == edits < MaxEdits /\ edits' = edits + 1

(* handleContentChange, from the editor of a page that may edit.  The      *)
(* editor is there when the document is loaded, and behind the lock modal, *)
(* where it has what the page had before.  The user types something new,   *)
(* or has an earlier text of the document back by undoing.                 *)
HandleContentChange ==
    /\ page.kind = "edit"
    /\ page.step \in {"ready", "modal"}
    /\ page.canEdit
    /\ \/ Write /\ page' = [page EXCEPT !.content = Written(@)]
       \/ \E t \in displayed \ {page.content} :
             /\ t.of = page.content.of
             /\ page' = [page EXCEPT !.content = t]
             /\ UNCHANGED edits
    /\ displayed' = displayed \cup {page'.content}
    /\ carried' = IF page.step = "modal" /\ page.content.of # page.doc
                  THEN carried \cup {page.doc} ELSE carried
    /\ UNCHANGED <<role, net, backend, visits, lapsed, hushed, strayed, unreleased>>

(* A mutant of SaveDocument: the text is marked as saved when it is sent.  *)
SaveDocumentAhead ==
    /\ page.kind = "edit"
    /\ page.canEdit
    /\ ~page.saving
    /\ dirty
    /\ page' = [page EXCEPT !.saving = TRUE, !.savedContent = page.content]
    /\ net' = net \cup {[op |-> "save", doc |-> page.doc, content |-> page.content, alive |-> TRUE]}
    /\ UNCHANGED <<role, backend, edits, visits, history>>

(* saveDocument up to its await, from the button or every 20 seconds: the  *)
(* timer runs for the document of the route, whatever is shown.            *)
SaveDocument ==
    /\ page.kind = "edit"
    /\ page.canEdit
    /\ ~page.saving
    /\ dirty
    /\ page' = [page EXCEPT !.saving = TRUE]
    /\ net' = net \cup {[op |-> "save", doc |-> page.doc, content |-> page.content, alive |-> TRUE]}
    /\ UNCHANGED <<role, backend, edits, visits, history>>

Accepted(r) == lock[r.doc] \in {"me", "collaborative"}

Answered == [page EXCEPT !.saving = FALSE]

(* The backend saves under one's own lock or a collaborative one; what the *)
(* page shows by the time of the answer is then marked as saved.           *)
HandleSave(r) ==
    /\ r.op = "save"
    /\ net' = net \ {r}
    /\ IF Accepted(r)
       THEN /\ stored' = [stored EXCEPT ![r.doc] = r.content]
            /\ page' = IF r.alive THEN [Answered EXCEPT !.savedContent = page.content] ELSE page
            /\ hushed' = IF r.alive THEN r.content # page.content \/ r.doc # page.doc ELSE hushed
       ELSE /\ page' = IF r.alive THEN Answered ELSE page
            /\ UNCHANGED <<stored, hushed>>
    /\ UNCHANGED <<role, lock, edits, visits, displayed, lapsed, strayed, unreleased, carried>>

(* The save is committed and its answer is lost: an error to the page. *)
SaveAnswerLost(r) ==
    /\ r.op = "save" /\ r.alive
    /\ Accepted(r)
    /\ net' = net \ {r}
    /\ stored' = [stored EXCEPT ![r.doc] = r.content]
    /\ page' = Answered
    /\ hushed' = TRUE
    /\ UNCHANGED <<role, lock, edits, visits, displayed, lapsed, strayed, unreleased, carried>>

(* A mutant of SaveFails: "saving" is only reset on success. *)
SaveFailsSaving(r) ==
    /\ r.op = "save"
    /\ r.alive
    /\ net' = net \ {r}
    /\ UNCHANGED <<role, page, backend, edits, visits, history>>

(* A mutant of SaveFails: the text counts as saved all the same. *)
SaveFailsAsSaved(r) ==
    /\ r.op = "save"
    /\ r.alive
    /\ net' = net \ {r}
    /\ page' = [Answered EXCEPT !.savedContent = r.content]
    /\ UNCHANGED <<role, backend, edits, visits, history>>

(* The request is lost; "finally" resets saving. *)
SaveFails(r) ==
    /\ r.op = "save"
    /\ r.alive
    /\ net' = net \ {r}
    /\ page' = Answered
    /\ UNCHANGED <<role, backend, edits, visits, history>>

(* Every 60 seconds while a lock is held; an error is only displayed. *)
RefreshLock ==
    /\ page.lockHeld
    /\ Unawaited("refresh", page.doc) \notin net
    /\ net' = net \cup {Unawaited("refresh", page.doc)}
    /\ UNCHANGED <<role, page, backend, edits, visits, history>>

(* refreshLock makes a lock where there is none. *)
HandleRefresh(r) ==
    /\ r.op = "refresh"
    /\ net' = net \ {r}
    /\ lock' = IF lock[r.doc] = "none" THEN [lock EXCEPT ![r.doc] = "me"] ELSE lock
    /\ UNCHANGED <<role, page, stored, edits, visits, history>>

(* A lock is lost that the page has got. *)
Loses(d) ==
    IF page.doc = d /\ page.step \in {"get", "ready"} /\ lock[d] = "me"
    THEN lapsed \cup {d} ELSE lapsed

(* unlock releases whatever lock there is. *)
HandleUnlock(r) ==
    /\ r.op = "unlock"
    /\ net' = net \ {r}
    /\ lock' = [lock EXCEPT ![r.doc] = "none"]
    /\ lapsed' = Loses(r.doc)
    /\ unreleased' = unreleased \ {r.doc}
    /\ UNCHANGED <<role, page, stored, edits, visits, displayed, hushed, strayed, carried>>

(* "best effort only": nobody tries again. *)
UnlockFails(r) ==
    /\ r.op = "unlock"
    /\ net' = net \ {r}
    /\ unreleased' = unreleased \cup {r.doc}
    /\ UNCHANGED <<role, page, backend, edits, visits, displayed, lapsed, hushed, strayed, carried>>

-------------------------------------------------------------------------------
(* The backend and the other users.                                        *)

(* A lease runs out: the browser slept, or its requests did not arrive. *)
Expire(d) ==
    /\ lock[d] # "none"
    /\ lock' = [lock EXCEPT ![d] = "none"]
    /\ lapsed' = Loses(d)
    /\ unreleased' = unreleased \ {d}
    /\ UNCHANGED <<role, page, net, stored, edits, visits, displayed, hushed, strayed, carried>>

(* Bound: only of a document this user has something to do with; what they *)
(* did before is found on arrival all the same.                            *)
Concerned(d) == d = page.doc \/ \E r \in net : r.doc = d

OtherLocks(d) ==
    /\ lock[d] = "none"
    /\ Concerned(d)
    /\ lock' \in {[lock EXCEPT ![d] = h] : h \in {"other", "collaborative"}}
    /\ UNCHANGED <<role, page, net, stored, edits, visits, history>>

OtherSaves(d) ==
    /\ lock[d] \in {"other", "collaborative"}
    /\ Concerned(d)
    /\ Write
    /\ stored' = [stored EXCEPT ![d] = Written(@)]
    /\ UNCHANGED <<role, page, net, lock, visits, history>>

Handle(r) == HandleAcquire(r) \/ HandleSave(r) \/ HandleRefresh(r) \/ HandleUnlock(r)

Loads == ReadLock \/ ReadDocument

Next ==
    \/ \E d \in Docs : \/ \E kind \in {"entry", "edit", "readonly"} : OpenPage(kind, d)
                       \/ SwitchDocument(d)
                       \/ Expire(d) \/ OtherLocks(d) \/ OtherSaves(d)
    \/ RenewToken
    \/ Leave \/ Die
    \/ Loads \/ LoadFails
    \/ HandleContentChange \/ SaveDocument \/ RefreshLock
    \/ \E r \in net : Handle(r) \/ SaveAnswerLost(r) \/ SaveFails(r) \/ UnlockFails(r)

(* The timer saves, and a save that is sent again and again arrives once.  *)
Fairness ==
    /\ WF_vars(SaveDocument)
    /\ SF_vars(\E r \in net : HandleSave(r))

Spec == Init /\ [][Next]_vars /\ Fairness

-------------------------------------------------------------------------------
(* Every variable has its type, and a page waits for a save exactly while  *)
(* one is on its way: saving is reset in "finally".                        *)
TypeOK ==
    /\ role \in {"EDITOR", "VIEWER"}
    /\ page \in Page
    /\ net \subseteq Request
    /\ stored \in [Docs -> TextOf]
    /\ lock \in [Docs -> Holder]
    /\ edits \in 0..MaxEdits
    /\ visits \in 0..MaxVisits
    /\ displayed \subseteq TextOf
    /\ lapsed \subseteq Docs
    /\ hushed \in BOOLEAN
    /\ strayed \subseteq Docs
    /\ unreleased \subseteq Docs
    /\ carried \subseteq Docs
    /\ page.saving <=> \E r \in net : r.op = "save" /\ r.alive

(* What a page has for saved, and so whether it says "Saved", is what the  *)
(* backend has, unless the lock was lost, the document was left with a     *)
(* request still going, or the last save that was stored did not end so:   *)
(* its answer was lost, or marked as saved what the user had typed or      *)
(* undone since it was sent.  Code: savedContent and dirty.                *)
SavedIsStored ==
    page.kind = "edit" /\ page.step = "ready" /\ ~hushed
       /\ page.doc \notin lapsed \cup strayed
       => stored[page.doc] = page.savedContent

(* A lock of this user has a page of this user, or an unlock on its way;   *)
(* or the unlock was lost; or the document was left before its load was    *)
(* over, with a request still going, by a browser that died, or by a       *)
(* viewer who came through the entry page.                                 *)
LockHasPage ==
    \A d \in Docs \ (strayed \cup unreleased) :
       lock[d] = "me" => page.doc = d \/ \E r \in net : r.op = "unlock" /\ r.doc = d

(* The text of one document is stored in another only when the page was    *)
(* switched between them with unsaved text, or the user typed behind the   *)
(* modal of a locked document: saveDocument runs for the document of the   *)
(* route while the signals are still the other's.                          *)
OwnText ==
    \A d \in Docs \ carried : stored[d].of = d

(* A save of a loaded page overwrites nothing this user has not seen,      *)
(* unless the lock was lost or a document was left with something still    *)
(* going on: the page loads the text under the lock it saves with.         *)
NoOverwriteUnseen ==
    [][\A r \in net :
          /\ r.op = "save" /\ r.alive
          /\ r \notin net'
          /\ r.doc = page.doc
          /\ page.step = "ready"
          /\ page.doc \notin lapsed \cup strayed
          /\ stored' # stored
          => stored[r.doc] \in displayed]_vars

(* A page that has its lock does not show for ever what is not stored: the *)
(* timer tries again after every failure.  The exceptions are those of     *)
(* SavedIsStored, and only for a text that is marked as saved: what was    *)
(* typed while a save was on its way is, by the answer, and is not sent.   *)
EditsAreSaved ==
    []<>(\/ page.kind # "edit" \/ page.step # "ready"
         \/ lock[page.doc] # "me"
         \/ stored[page.doc] = page.content
         \/ ~dirty /\ (hushed \/ page.doc \in lapsed \cup strayed))
===============================================================================
