------------------------------- MODULE YjsEditor -------------------------------
(***************************************************************************)
(* The collaborative editors of one document:                              *)
(* markdown-yjs-editor.component.ts and markdown-yjs-session.ts.           *)
(*                                                                         *)
(* Each editor keeps the text twice: in CodeMirror, which the user sees    *)
(* and edits, and in a Y.Text, which is shared.  What keeps them together  *)
(* is the translation of positions between the two, in both directions.    *)
(*                                                                         *)
(* A character is an item, known by its number.  Y.Text is external: all   *)
(* replicas place the items in one total order, "order"; a replica has     *)
(* some of them, deleted ones included, and its text is what is left.      *)
(***************************************************************************)
EXTENDS Integers, Sequences, FiniteSets, SequencesExt

CONSTANTS
    Editors,    \* the editors of the document
    Base,       \* the number of characters the document has at first
    MaxItems,   \* bound: characters
    MaxEdits,   \* bound: transactions of the users
    MaxChanges  \* bound: changes in one CodeMirror transaction

ASSUME EditorAssumption ==
    /\ IsFiniteSet(Editors)
    /\ Base \in Nat
    /\ MaxItems \in Nat
    /\ Base <= MaxItems
    /\ MaxEdits \in Nat
    /\ MaxChanges \in 1..2

VARIABLES
    view,       \* the component: before ngAfterViewInit, mounted, destroyed
    subscribed, \* the effect has subscribed to remoteUpdates
    order,      \* the items in the order all replicas give them
    has,        \* the items a replica has
    dead,       \* those of them that are deleted
    shown,      \* the CodeMirror document
    inbox,      \* remoteUpdates: the updates an editor has still to apply
    torn,       \* history: a transaction not of the simple forms met this editor
    edits       \* bound: transactions so far

vars == <<view, subscribed, order, has, dead, shown, inbox, torn, edits>>

Items == 1..MaxItems

Update == [ins : SUBSET Items, del : SUBSET Items]

Mounted == {s \in Editors : view[s] = "mounted"}

(* The items of a set, in the order of a sequence. *)
Among(items, V) ==
    FlattenSeq([p \in DOMAIN items |-> IF items[p] \in V THEN <<items[p]>> ELSE <<>>])

(* getPlainText: the text of a replica, and what a replica is here. *)
Replica(s) == [order |-> order, has |-> has[s], dead |-> dead[s]]

PlainText(y) == Among(y.order, y.has \ y.dead)

Text(s) == PlainText(Replica(s))

-------------------------------------------------------------------------------
(* CodeMirror: the changes of a transaction are all positions in the       *)
(* document before it.                                                     *)

Change == [from : 0..MaxItems, to : 0..MaxItems, insert : Seq(Items)]

InsertedAt(cs, p) ==
    FlattenSeq([k \in DOMAIN cs |-> IF cs[k].from = p THEN cs[k].insert ELSE <<>>])

Edited(d, cs) ==
    LET Kept(p) == IF \E k \in DOMAIN cs : cs[k].from < p /\ p <= cs[k].to THEN <<>> ELSE <<d[p]>>
    IN  InsertedAt(cs, 0) \o FlattenSeq([p \in DOMAIN d |-> Kept(p) \o InsertedAt(cs, p)])

(* A position past the end is a RangeError, and the dispatch does nothing. *)
Dispatched(d, cs) ==
    IF \A k \in DOMAIN cs : cs[k].from <= Len(d) /\ cs[k].to <= Len(d) THEN Edited(d, cs) ELSE d

(* What the changes up to the k-th add to the length. *)
Net(cs, k) ==
    FoldLeft(LAMBDA n, c : n + Len(c.insert) - (c.to - c.from), 0, SubSeq(cs, 1, k))

(* The transactions of a user: typing, deleting and replacing, the toolbar *)
(* and undo, at one cursor or at two; CodeMirror joins adjacent changes.   *)
Transactions(d) ==
    LET n == Len(order)
        At(k) == [from : 0..Len(d), to : 0..Len(d), insert : {<<>>, <<n + k>>}]
        Real(c) == c.from <= c.to /\ (c.from < c.to \/ c.insert # <<>>)
        One == {c \in At(1) : Real(c)}
        Two == {cs \in (One \X At(2)) \cup (One \X At(1)) :
                   /\ Real(cs[2])
                   /\ cs[1].to < cs[2].from
                   /\ cs[2].insert # <<>> => cs[2].insert = <<n + 1 + Len(cs[1].insert)>>}
        All == {<<c>> : c \in One} \cup (IF MaxChanges = 2 THEN Two ELSE {})
    IN  {cs \in All : n + Len(FlattenSeq([k \in DOMAIN cs |-> cs[k].insert])) <= MaxItems}

-------------------------------------------------------------------------------
(* Y.Text: positions count the visible items, and stop at either end.      *)

Within(text, p) == IF p < 0 THEN 0 ELSE IF p > Len(text) THEN Len(text) ELSE p

Deleted(y, from, n) ==
    LET text == PlainText(y)
        left == Within(text, from)
    IN  [y EXCEPT !.dead = @ \cup ToSet(SubSeq(text, left + 1, Within(text, left + n)))]

(* The new items go behind the last item the replica has before the        *)
(* character at "from"; "slack" is the choice among the items of others    *)
(* that lie between, which the replica does not know of.                   *)
Inserted(y, from, ins, slack) ==
    LET text  == PlainText(y)
        next  == Within(text, from) + 1
        right == IF next \in DOMAIN text
                 THEN CHOOSE p \in DOMAIN y.order : y.order[p] = text[next]
                 ELSE Len(y.order) + 1
        known == {p \in 1..right - 1 : y.order[p] \in y.has}
        left  == IF known = {} THEN 0 ELSE CHOOSE p \in known : \A q \in known : q <= p
        at    == IF left + slack < right THEN left + slack ELSE right - 1
    IN  [y EXCEPT !.order = SubSeq(@, 1, at) \o ins \o SubSeq(@, at + 1, Len(@)),
                  !.has = @ \cup ToSet(ins)]

(* One change of applyLocalChanges. *)
Applied(y, c, slack) ==
    LET removed == c.to - c.from IN
    Inserted(Deleted(y, c.from, removed), c.from, c.insert, slack)

(* applyLocalChanges, one transaction with LOCAL_ORIGIN. *)
ApplyLocalChanges(y, changes, slack) ==
    FoldLeft(LAMBDA z, k :
                LET offset == Net(changes, k - 1)
                IN  Applied(z, [changes[k] EXCEPT !.from = @ + offset, !.to = @ + offset], slack),
             y, [k \in DOMAIN changes |-> k])

(* event.delta: what takes the text of y to that of z, equal steps joined. *)
Delta(y, z) ==
    LET was == y.has \ y.dead
        is  == z.has \ z.dead
        Op(i) == IF i \in was THEN (IF i \in is THEN "retain" ELSE "delete") ELSE "insert"
    IN  FoldLeft(LAMBDA d, i :
                    IF d # <<>> /\ Last(d).op = Op(i)
                    THEN Append(Front(d), [op |-> Op(i), items |-> Append(Last(d).items, i)])
                    ELSE Append(d, [op |-> Op(i), items |-> <<i>>]),
                 <<>>, Among(z.order, was \cup is))

-------------------------------------------------------------------------------
(* The component, between the two.                                         *)

(* The updateListener: a CodeMirror transaction as changes for the session.*)
LocalChanges(cs) ==
    [k \in DOMAIN cs |-> [cs[k] EXCEPT !.from = @ + Net(cs, k - 1), !.to = @ + Net(cs, k - 1)]]

(* A mutant of RemoteChanges: what is retained does not count. *)
RemoteChangesFromStart(delta) ==
    FoldLeft(LAMBDA a, op :
                LET n == Len(op.items) IN
                CASE op.op = "retain" -> a
                  [] op.op = "delete" -> [a EXCEPT !.changes = Append(@, [from |-> a.pos, to |-> a.pos + n, insert |-> <<>>])]
                  [] op.op = "insert" -> [pos |-> a.pos + n, changes |-> Append(a.changes, [from |-> a.pos, to |-> a.pos, insert |-> op.items])],
             [pos |-> 0, changes |-> <<>>], delta).changes

(* The onDelta listener: a delta of the session as CodeMirror changes. *)
RemoteChanges(delta) ==
    FoldLeft(LAMBDA a, op :
                LET n == Len(op.items) IN
                CASE op.op = "retain" -> [a EXCEPT !.pos = @ + n]
                  [] op.op = "delete" -> [a EXCEPT !.changes = Append(@, [from |-> a.pos, to |-> a.pos + n, insert |-> <<>>])]
                  [] op.op = "insert" -> [pos |-> a.pos + n, changes |-> Append(a.changes, [from |-> a.pos, to |-> a.pos, insert |-> op.items])],
             [pos |-> 0, changes |-> <<>>], delta).changes

(* The forms both translations are right for: one change, or two of which  *)
(* the first keeps the length; a deletion and an insertion in one place.   *)
SimpleChanges(cs) == \A k \in DOMAIN cs : Net(cs, k - 1) = 0

SimpleDelta(delta) ==
    \A j, k \in DOMAIN delta :
       j < k /\ delta[j].op # "retain" /\ delta[k].op # "retain"
          => k = j + 1 /\ delta[j].op = "delete" /\ delta[k].op = "insert"

-------------------------------------------------------------------------------
Init ==
    /\ view = [s \in Editors |-> "none"]
    /\ subscribed = [s \in Editors |-> FALSE]
    /\ order = [i \in 1..Base |-> i]
    /\ has = [s \in Editors |-> {}]
    /\ dead = [s \in Editors |-> {}]
    /\ shown = [s \in Editors |-> <<>>]
    /\ inbox = [s \in Editors |-> <<[ins |-> 1..Base, del |-> {}]>>]
    /\ torn = [s \in Editors |-> FALSE]
    /\ edits = 0

(* ngAfterViewInit: a new session and a CodeMirror with its empty text. *)
Mount(s) ==
    /\ view[s] = "none"
    /\ view' = [view EXCEPT ![s] = "mounted"]
    /\ UNCHANGED <<subscribed, order, has, dead, shown, inbox, torn, edits>>

(* An update of another editor: the session has it, and the listener       *)
(* patches CodeMirror; applyingRemotePatch keeps that from coming back.    *)
WithUpdate(e, u) ==
    LET z == [e EXCEPT !.has = @ \cup u.ins, !.dead = @ \cup u.del]
        delta == Delta(e, z)
    IN  [z EXCEPT !.shown = Dispatched(@, RemoteChanges(delta)), !.torn = @ \/ ~SimpleDelta(delta)]

WithUpdates(e, us) == FoldLeft(WithUpdate, e, us)

Editor(s) ==
    [order |-> order, has |-> has[s], dead |-> dead[s], shown |-> shown[s], torn |-> torn[s]]

Becomes(s, e) ==
    /\ has' = [has EXCEPT ![s] = e.has]
    /\ dead' = [dead EXCEPT ![s] = e.dead]
    /\ shown' = [shown EXCEPT ![s] = e.shown]
    /\ torn' = [torn EXCEPT ![s] = e.torn]

(* A mutant of Subscribe: what was emitted before is not replayed. *)
SubscribeUnreplayed(s) ==
    /\ view[s] = "mounted" /\ ~subscribed[s]
    /\ subscribed' = [subscribed EXCEPT ![s] = TRUE]
    /\ inbox' = [inbox EXCEPT ![s] = <<>>]
    /\ UNCHANGED <<view, order, has, dead, shown, torn, edits>>

(* The effect that waits for the session: the ReplaySubject replays at     *)
(* once what was emitted before, the state of the document first.          *)
Subscribe(s) ==
    /\ view[s] = "mounted" /\ ~subscribed[s]
    /\ subscribed' = [subscribed EXCEPT ![s] = TRUE]
    /\ Becomes(s, WithUpdates(Editor(s), inbox[s]))
    /\ inbox' = [inbox EXCEPT ![s] = <<>>]
    /\ UNCHANGED <<view, order, edits>>

RemoteUpdate(s) ==
    /\ subscribed[s] /\ inbox[s] # <<>>
    /\ inbox' = [inbox EXCEPT ![s] = Tail(@)]
    /\ Becomes(s, WithUpdate(Editor(s), Head(inbox[s])))
    /\ UNCHANGED <<view, subscribed, order, edits>>

(* The update a local transaction emits. *)
UpdateOf(y, z) == [ins |-> z.has \ y.has, del |-> z.dead \ y.dead]

(* A transaction of the user: CodeMirror has it, the listener hands it to  *)
(* the session, and its update goes to the others.                         *)
LocalChange(s, cs, slack) ==
    LET y == Replica(s)
        z == ApplyLocalChanges(y, LocalChanges(cs), slack)
    IN  /\ subscribed[s]
        /\ edits < MaxEdits
        /\ edits' = edits + 1
        /\ shown' = [shown EXCEPT ![s] = Edited(@, cs)]
        /\ order' = z.order
        /\ has' = [has EXCEPT ![s] = z.has]
        /\ dead' = [dead EXCEPT ![s] = z.dead]
        /\ inbox' = [t \in Editors |-> IF t = s \/ view[t] = "destroyed"
                                       THEN inbox[t] ELSE Append(inbox[t], UpdateOf(y, z))]
        /\ torn' = [torn EXCEPT ![s] = @ \/ ~SimpleChanges(cs)]
        /\ UNCHANGED <<view, subscribed>>

(* A mutant of Destroy: the subscription outlives the view. *)
DestroySubscribed(s) ==
    /\ view[s] = "mounted"
    /\ view' = [view EXCEPT ![s] = "destroyed"]
    /\ UNCHANGED <<subscribed, order, has, dead, shown, inbox, torn, edits>>

(* ngOnDestroy and cleanupSession. *)
Destroy(s) ==
    /\ view[s] = "mounted"
    /\ view' = [view EXCEPT ![s] = "destroyed"]
    /\ subscribed' = [subscribed EXCEPT ![s] = FALSE]
    /\ inbox' = [inbox EXCEPT ![s] = <<>>]
    /\ UNCHANGED <<order, has, dead, shown, torn, edits>>

UserEdits(s) ==
    \E cs \in Transactions(shown[s]), slack \in 0..MaxItems : LocalChange(s, cs, slack)

Next == \E s \in Editors :
            Mount(s) \/ Subscribe(s) \/ UserEdits(s) \/ RemoteUpdate(s) \/ Destroy(s)

Spec == Init /\ [][Next]_vars

-------------------------------------------------------------------------------
(* Every variable has its type, no item is in the order twice, and only a  *)
(* mounted editor is subscribed: cleanupSession drops the subscription.    *)
TypeOK ==
    /\ view \in [Editors -> {"none", "mounted", "destroyed"}]
    /\ subscribed \in [Editors -> BOOLEAN]
    /\ order \in Seq(Items) /\ IsInjective(order) /\ ToSet(order) = 1..Len(order)
    /\ has \in [Editors -> SUBSET Items]
    /\ dead \in [Editors -> SUBSET Items]
    /\ shown \in [Editors -> Seq(Items)]
    /\ inbox \in [Editors -> Seq(Update)]
    /\ torn \in [Editors -> BOOLEAN]
    /\ edits \in 0..MaxEdits
    /\ \A s \in Editors : subscribed[s] => view[s] = "mounted"

(* What a user sees is the shared text, whatever the editors type at the   *)
(* same time, as long as every transaction that reaches the editor is of   *)
(* the simple forms: updateListener and onDelta translate positions for    *)
(* these, and for these only.                                              *)
ShownIsText ==
    \A s \in Mounted : ~torn[s] => shown[s] = Text(s)

(* Mounted editors that have applied everything show the same, or one of   *)
(* them had a transaction of several changes; their shared texts are the   *)
(* same in any case: every local transaction emits all it did, and what    *)
(* was emitted before an editor mounted is replayed to it.  Code:          *)
(* onLocalUpdate, the effect that subscribes to remoteUpdates.             *)
Converged ==
    \A s, t \in Mounted :
       inbox[s] = <<>> /\ inbox[t] = <<>>
          => /\ Text(s) = Text(t)
             /\ ~torn[s] /\ ~torn[t] => shown[s] = shown[t]

(* "if the delta had local origin, Y.Doc is already in sync with           *)
(* codemirror content" (markdown-yjs-editor.component.ts:303): an editor   *)
(* that shows the shared text shows it after a transaction of its user.    *)
LocalDeltaIsInSync ==
    [][\A s \in Editors :
          /\ view[s] = "mounted"
          /\ shown[s] = Text(s)
          /\ shown'[s] # shown[s]
          /\ inbox'[s] = inbox[s]
          => shown'[s] = Text(s)']_vars
===============================================================================
