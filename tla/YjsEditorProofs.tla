---------------------------- MODULE YjsEditorProofs ----------------------------
(***************************************************************************)
(* The invariants of YjsEditor, for any editors, any length of the         *)
(* document and any number of transactions.                                *)
(*                                                                         *)
(* The text of a replica is the one sequence that lists its visible items  *)
(* in the order of the document (ListsItems, ListedOnce).  Whether a       *)
(* translation of positions is right is therefore a question of sets and   *)
(* of the order: both a transaction of the user, applied to the Y.Text,    *)
(* and a delta, dispatched to CodeMirror, give a sequence that lists the   *)
(* right items in the right order.  The folds and flattenings of the model *)
(* are unfolded into runs of single steps, which exist because a function  *)
(* on the subsets of an interval can be defined by recursion (Recursion).  *)
(***************************************************************************)
EXTENDS YjsEditor, SequenceTheorems, WellFoundedInduction, TLAPS

(***************************************************************************)
(* The inductive invariant.                                                *)
(***************************************************************************)

Ins(q) == UNION {q[k].ins : k \in DOMAIN q}

Del(q) == UNION {q[k].del : k \in DOMAIN q}

Live == {s \in Editors : view[s] # "destroyed"}

(* Nobody knows of an item that is not in the order. *)
Known ==
    \A s \in Editors :
        /\ has[s] \cup Ins(inbox[s]) \subseteq ToSet(order)
        /\ dead[s] \cup Del(inbox[s]) \subseteq ToSet(order)

(* What an editor has not, is on its way to it. *)
Delivered ==
    /\ \A s \in Live : has[s] \cup Ins(inbox[s]) = ToSet(order)
    /\ \A s, t \in Live : dead[s] \cup Del(inbox[s]) = dead[t] \cup Del(inbox[t])

(* ShownIsText of every editor, the destroyed ones too. *)
InStep == \A s \in Editors : ~torn[s] => shown[s] = Text(s)

IInv == TypeOK /\ Known /\ Delivered /\ InStep

-------------------------------------------------------------------------------
(* Recursion.                                                              *)

LEMMA Smallest ==
    ASSUME NEW T \in SUBSET Nat, T # {}
    PROVE  \E n \in T : \A k \in T : n <= k
  <1>1. PICK n \in T : \A k \in T : ~(<<k, n>> \in OpToRel(<, Nat))
    BY NatLessThanWellFounded, WFMin
  <1>2. \A k \in T : ~(k < n)
    BY <1>1 DEF OpToRel
  <1> QED
    BY <1>2

LEMMA Largest ==
    ASSUME NEW n \in Nat, NEW T \in SUBSET (0..n), T # {}
    PROVE  \E m \in T : \A k \in T : k <= m
  <1> DEFINE U == {n - k : k \in T}
  <1>1. U \in SUBSET Nat /\ U # {}
    <2>1. \A k \in T : n - k \in Nat
      OBVIOUS
    <2> QED
      BY <2>1
  <1> HIDE DEF U
  <1>2. PICK u \in U : \A k \in U : u <= k
    BY <1>1, Smallest
  <1>3. PICK m \in T : u = n - m
    BY DEF U
  <1>4. \A k \in T : k <= m
    <2> TAKE k \in T
    <2>1. n - k \in U
      BY DEF U
    <2> QED
      BY <1>2, <1>3, <2>1
  <1> QED
    BY <1>4

LEMMA MaxOfInterval ==
    ASSUME NEW n \in Nat, NEW s \in SUBSET (1..n), s # {}
    PROVE  Max(s) \in s /\ \A k \in s : k <= Max(s)
  <1>1. s \in SUBSET (0..n)
    OBVIOUS
  <1>2. \E x \in s : \A y \in s : x >= y
    BY <1>1, Largest
  <1> QED
    BY <1>2 DEF Max

LEMMA MaxOfPrefix ==
    ASSUME NEW n \in Nat, NEW k \in 1..n
    PROVE  /\ 1..k \in SUBSET (1..n) /\ 1..k # {}
           /\ Max(1..k) = k /\ (1..k) \ {k} = 1..k - 1
  <1>1. 1..k \in SUBSET (1..n) /\ 1..k # {}
    OBVIOUS
  <1>2. Max(1..k) \in 1..k /\ \A j \in 1..k : j <= Max(1..k)
    BY <1>1, MaxOfInterval
  <1>3. Max(1..k) = k
    BY <1>2
  <1> QED
    BY <1>1, <1>3

(* A function on the subsets of 1..n, each taken apart from its largest    *)
(* member: what FoldLeft defines.                                          *)
Unfolds(g, v, F, n) ==
    \A s \in SUBSET (1..n) : g[s] = IF s = {} THEN v ELSE F[Max(s)][g[s \ {Max(s)}]]

LEMMA Recursion ==
    ASSUME NEW X, NEW v \in X, NEW N \in Nat, NEW F \in [1..N -> [X -> X]]
    PROVE  \E g \in [SUBSET (1..N) -> X] : Unfolds(g, v, F, N)
  <1> DEFINE T == {k \in 0..N : ~\E g \in [SUBSET (1..k) -> X] : Unfolds(g, v, F, k)}
  <1>a. N \in 0..N
    OBVIOUS
  <1> SUFFICES ASSUME T # {} PROVE FALSE
    BY <1>a
  <1>0. T \in SUBSET Nat
    OBVIOUS
  <1>1. PICK k \in T : \A j \in T : k <= j
    BY <1>0, Smallest
  <1>2. CASE k = 0
    <2> DEFINE g == [s \in SUBSET (1..0) |-> v]
    <2>1. g \in [SUBSET (1..0) -> X]
      OBVIOUS
    <2>2. Unfolds(g, v, F, 0)
      BY DEF Unfolds
    <2> QED
      BY <1>1, <1>2, <2>1, <2>2
  <1>3. CASE k # 0
    <2>0. k \in 0..N /\ k - 1 \in 0..N /\ k \in 1..N /\ ~(k <= k - 1)
      BY <1>3
    <2>1. k - 1 \in 0..N /\ k - 1 \notin T /\ k \in 1..N
      BY <1>1, <2>0
    <2>2. PICK g \in [SUBSET (1..k - 1) -> X] : Unfolds(g, v, F, k - 1)
      BY <2>1
    <2> DEFINE h == [s \in SUBSET (1..k) |-> IF k \in s THEN F[k][g[s \ {k}]] ELSE g[s]]
    <2>3. ASSUME NEW s \in SUBSET (1..k)
          PROVE  s \ {k} \in SUBSET (1..k - 1)
      BY <2>1
    <2>4. h \in [SUBSET (1..k) -> X]
      <3> SUFFICES ASSUME NEW s \in SUBSET (1..k)
                   PROVE  (IF k \in s THEN F[k][g[s \ {k}]] ELSE g[s]) \in X
        OBVIOUS
      <3>1. g[s \ {k}] \in X /\ F[k] \in [X -> X]
        BY <2>1, <2>3
      <3>2. k \notin s => s = s \ {k}
        OBVIOUS
      <3> QED
        BY <3>1, <3>2
    <2>5. ASSUME NEW s \in SUBSET (1..k)
          PROVE  h[s] = IF s = {} THEN v ELSE F[Max(s)][h[s \ {Max(s)}]]
      <3>1. CASE k \in s
        <4>1. Max(s) = k
          <5>1. Max(s) \in s /\ \A j \in s : j <= Max(s)
            <6>1. k \in Nat /\ s # {}
              BY <2>1, <3>1
            <6> QED
              BY <6>1, MaxOfInterval
          <5>2. Max(s) \in 1..k /\ k <= Max(s)
            BY <3>1, <5>1
          <5> QED
            BY <2>1, <5>2
        <4>2. h[s] = F[k][g[s \ {k}]]
          BY <3>1
        <4>3. s \ {k} \in SUBSET (1..k) /\ h[s \ {k}] = g[s \ {k}]
          OBVIOUS
        <4> QED
          BY <3>1, <4>1, <4>2, <4>3
      <3>2. CASE k \notin s
        <4>1. s \in SUBSET (1..k - 1)
          BY <2>3, <3>2
        <4>2. h[s] = g[s]
          BY <3>2
        <4>3. g[s] = IF s = {} THEN v ELSE F[Max(s)][g[s \ {Max(s)}]]
          BY <2>2, <4>1 DEF Unfolds
        <4>4. s \ {Max(s)} \in SUBSET (1..k) /\ k \notin s \ {Max(s)}
          BY <3>2
        <4>5. h[s \ {Max(s)}] = g[s \ {Max(s)}]
          BY <4>4
        <4> QED
          BY <4>2, <4>3, <4>5
      <3> QED
        BY <3>1, <3>2
    <2> HIDE DEF h
    <2>6. Unfolds(h, v, F, k)
      BY <2>5 DEF Unfolds
    <2> QED
      BY <1>1, <2>4, <2>6
  <1> QED
    BY <1>2, <1>3

Steps(F, n, X) == F \in [1..n -> [X -> X]]

(* A run: r[0] = v, and each r[k] made of the one before. *)
IsRun(r, v, F, n, X) ==
    r \in [0..n -> X] /\ r[0] = v /\ \A k \in 1..n : r[k] = F[k][r[k - 1]]

LEMMA RunExists ==
    ASSUME NEW X, NEW v \in X, NEW n \in Nat, NEW F, Steps(F, n, X)
    PROVE  \E r : IsRun(r, v, F, n, X)
  <1>0. F \in [1..n -> [X -> X]]
    BY DEF Steps
  <1>1. PICK g \in [SUBSET (1..n) -> X] : Unfolds(g, v, F, n)
    BY <1>0, Recursion
  <1> DEFINE r == [k \in 0..n |-> g[1..k]]
  <1>2. \A k \in 0..n : 1..k \in SUBSET (1..n)
    OBVIOUS
  <1>3. r \in [0..n -> X]
    BY <1>2
  <1>4. r[0] = v
    <2>1. 1..0 = {} /\ r[0] = g[1..0]
      OBVIOUS
    <2> QED
      BY <1>1, <2>1 DEF Unfolds
  <1>5. ASSUME NEW k \in 1..n
        PROVE  r[k] = F[k][r[k - 1]]
    <2>1. /\ 1..k \in SUBSET (1..n) /\ 1..k # {}
          /\ Max(1..k) = k /\ (1..k) \ {k} = 1..k - 1
      BY MaxOfPrefix
    <2>2. g[1..k] = F[k][g[1..k - 1]]
      BY <1>1, <2>1 DEF Unfolds
    <2>3. r[k] = g[1..k] /\ r[k - 1] = g[1..k - 1]
      OBVIOUS
    <2> QED
      BY <2>2, <2>3
  <1> HIDE DEF r
  <1> QED
    BY <1>3, <1>4, <1>5 DEF IsRun

-------------------------------------------------------------------------------
(* Flattening.                                                             *)

(* r flattens q from the left. *)
Flattens(r, q, n, S) ==
    /\ r \in [0..n -> Seq(S)]
    /\ \A k \in 1..n : r[k] = r[k - 1] \o q[k]

Stretch(a, b, n) == a \in 0..n /\ b \in a..n

(* Blocks of one item each, and empty ones. *)
Singles(q, d, a, b) == \A p \in a + 1..b : q[p] = <<d[p]>>

(* The items after a up to b. *)
Part(d, a, b) == SubSeq(d, a + 1, b)

Extends(r, d, a, b) == r[b] = r[a] \o Part(d, a, b)

Empties(q, a, b) == \A p \in a + 1..b : q[p] = <<>>

LEMMA PartProperties ==
    ASSUME NEW S, NEW d \in Seq(S), NEW i \in 1..Len(d) + 1, NEW j \in i - 1..Len(d)
    PROVE  /\ SubSeq(d, i, j) \in Seq(S)
           /\ Len(SubSeq(d, i, j)) = j - i + 1
           /\ \A k \in 1..j - i + 1 : SubSeq(d, i, j)[k] = d[i + k - 1]
  <1>1. \A k \in i..j : d[k] \in S
    BY ElementOfSeq
  <1>2. i \in Int /\ j \in Int
    OBVIOUS
  <1>3. /\ SubSeq(d, i, j) \in Seq(S)
        /\ Len(SubSeq(d, i, j)) = IF i <= j THEN j - i + 1 ELSE 0
        /\ \A k \in 1..j - i + 1 : SubSeq(d, i, j)[k] = d[i + k - 1]
    BY <1>1, <1>2, SubSeqProperties
  <1> QED
    BY <1>3

LEMMA FlattenRun ==
    ASSUME NEW S, NEW q \in Seq(Seq(S))
    PROVE  \E r : r[0] = <<>> /\ Flattens(r, q, Len(q), S) /\ FlattenSeq(q) = r[Len(q)]
  <1>0. PICK n \in Nat : n = Len(q) /\ DOMAIN q = 1..n /\ \A k \in 1..n : q[k] \in Seq(S)
    OBVIOUS
  <1> DEFINE F == [k \in 1..n |-> [x \in Seq(S) |-> x \o q[k]]]
  <1>1. F \in [1..n -> [Seq(S) -> Seq(S)]]
    <2> SUFFICES ASSUME NEW k \in 1..n, NEW x \in Seq(S) PROVE x \o q[k] \in Seq(S)
      OBVIOUS
    <2> QED
      BY <1>0, ConcatProperties
  <1>2. <<>> \in Seq(S)
    OBVIOUS
  <1> HIDE DEF F
  <1>3. PICK r \in [0..n -> Seq(S)] : r[0] = <<>> /\ \A k \in 1..n : r[k] = F[k][r[k - 1]]
    <2>1. PICK X, v : X = Seq(S) /\ v = <<>>
      OBVIOUS
    <2>2. v \in X /\ Steps(F, n, X)
      BY <1>1, <1>2, <2>1 DEF Steps
    <2>3. \E r : IsRun(r, v, F, n, X)
      BY <2>2, RunExists
    <2> QED
      BY <2>1, <2>3 DEF IsRun
  <1>4. ASSUME NEW k \in 1..n
        PROVE  r[k] = r[k - 1] \o q[k]
    <2>1. r[k - 1] \in Seq(S)
      BY <1>0
    <2> QED
      BY <1>3, <2>1 DEF F
  <1>5. Flattens(r, q, n, S)
    BY <1>4 DEF Flattens
  <1>6. FlattenSeq(q) = r[n]
    <2>1. CASE n = 0
      BY <1>0, <1>3, <2>1, EmptySeq DEF FlattenSeq
    <2>2. CASE n # 0
      <3> DEFINE Flat(g) == g = [i \in 1..n |-> IF i = 1 THEN q[i] ELSE g[i - 1] \o q[i]]
                 h == [i \in 1..n |-> r[i]]
                 f == CHOOSE g : Flat(g)
      <3>1. Flat(h)
        <4> SUFFICES ASSUME NEW i \in 1..n
                     PROVE  h[i] = IF i = 1 THEN q[i] ELSE h[i - 1] \o q[i]
          OBVIOUS
        <4>1. h[i] = r[i - 1] \o q[i]
          BY <1>4
        <4>2. CASE i = 1
          <5>0. q[1] \in Seq(S)
            BY <1>0, <4>2
          <5>1. r[i - 1] = <<>>
            BY <1>3, <4>2
          <5> QED
            BY <4>1, <4>2, <5>0, <5>1, ConcatEmptySeq
        <4>3. CASE i # 1
          <5>1. i - 1 \in 1..n
            BY <4>3
          <5> QED
            BY <4>1, <4>3, <5>1
        <4> QED
          BY <4>2, <4>3
      <3>2. Flat(f)
        BY <3>1
      <3>3. FlattenSeq(q) = f[n]
        BY <1>0, <2>2 DEF FlattenSeq
      <3> DEFINE T == {i \in 1..n : f[i] # r[i]}
      <3> HIDE DEF f
      <3>4. ASSUME T # {} PROVE FALSE
        <4>1. T \in SUBSET Nat
          OBVIOUS
        <4>2. PICK i \in T : \A j \in T : i <= j
          BY <3>4, <4>1, Smallest
        <4>3. CASE i = 1
          <5>1. f[1] = q[1] /\ h[1] = q[1] /\ h[1] = r[1]
            BY <2>2, <3>1, <3>2
          <5> QED
            BY <4>2, <4>3, <5>1
        <4>4. CASE i # 1
          <5>1. i \in 1..n /\ i - 1 \in 1..n /\ ~(i <= i - 1)
            BY <4>4
          <5>2. f[i - 1] = r[i - 1]
            BY <4>2, <5>1
          <5>3. f[i] = f[i - 1] \o q[i]
            BY <3>2, <4>4, <5>1
          <5> QED
            BY <1>4, <5>1, <5>2, <5>3
        <4> QED
          BY <4>3, <4>4
      <3>5. n \in 1..n
        BY <2>2
      <3> QED
        BY <3>3, <3>4, <3>5
    <2> QED
      BY <2>1, <2>2
  <1> QED
    BY <1>0, <1>3, <1>5, <1>6

LEMMA FlattenType ==
    ASSUME NEW S, NEW q \in Seq(Seq(S))
    PROVE  FlattenSeq(q) \in Seq(S)
  <1>1. PICK r : Flattens(r, q, Len(q), S) /\ FlattenSeq(q) = r[Len(q)]
    BY FlattenRun
  <1>2. Len(q) \in 0..Len(q)
    OBVIOUS
  <1> QED
    BY <1>1, <1>2 DEF Flattens

LEMMA FlattenShort ==
    ASSUME NEW S, NEW a \in Seq(S), NEW b \in Seq(S)
    PROVE  FlattenSeq(<<a>>) = a /\ FlattenSeq(<<a, b>>) = a \o b
  <1>1. FlattenSeq(<<a>>) = a
    <2>1. <<a>> \in Seq(Seq(S)) /\ Len(<<a>>) = 1 /\ <<a>>[1] = a
      OBVIOUS
    <2>2. PICK q \in Seq(Seq(S)) : q = <<a>> /\ Len(q) = 1 /\ q[1] = a
      BY <2>1
    <2>3. PICK r : r[0] = <<>> /\ Flattens(r, q, Len(q), S) /\ FlattenSeq(q) = r[Len(q)]
      BY FlattenRun
    <2>4. r[1] = r[0] \o a /\ FlattenSeq(q) = r[1]
      <3>1. 1 \in 1..Len(q) /\ Len(q) = 1 /\ q[1] = a /\ 1 - 1 = 0
        BY <2>2
      <3> QED
        BY <2>3, <3>1 DEF Flattens
    <2> QED
      BY <2>2, <2>3, <2>4, ConcatEmptySeq
  <1>2. FlattenSeq(<<a, b>>) = a \o b
    <2>1. <<a, b>> \in Seq(Seq(S)) /\ Len(<<a, b>>) = 2 /\ <<a, b>>[1] = a /\ <<a, b>>[2] = b
      OBVIOUS
    <2>2. PICK q \in Seq(Seq(S)) : q = <<a, b>> /\ Len(q) = 2 /\ q[1] = a /\ q[2] = b
      BY <2>1
    <2>3. PICK r : r[0] = <<>> /\ Flattens(r, q, Len(q), S) /\ FlattenSeq(q) = r[Len(q)]
      BY FlattenRun
    <2>4. r[1] = r[0] \o a /\ r[2] = r[1] \o b /\ FlattenSeq(q) = r[2]
      <3>1. 1 \in 1..Len(q) /\ 2 \in 1..Len(q) /\ 1 - 1 = 0 /\ 2 - 1 = 1
        BY <2>2
      <3> QED
        BY <2>2, <2>3, <3>1 DEF Flattens
    <2> QED
      BY <2>2, <2>3, <2>4, ConcatEmptySeq
  <1> QED
    BY <1>1, <1>2

(* A stretch of blocks of one item each, and a stretch of empty ones. *)
LEMMA FlattenStretch ==
    ASSUME NEW S, NEW d \in Seq(S), NEW r, NEW q, Flattens(r, q, Len(d), S),
           NEW a, NEW b, Stretch(a, b, Len(d)), Singles(q, d, a, b)
    PROVE  Extends(r, d, a, b)
  <1>n. PICK n \in Nat : n = Len(d)
    OBVIOUS
  <1>s. a \in 0..n /\ b \in a..n
    BY <1>n DEF Stretch
  <1>f. Flattens(r, q, n, S)
    BY <1>n
  <1> USE <1>n, <1>s, <1>f
  <1> SUFFICES r[b] = r[a] \o SubSeq(d, a + 1, b)
    BY DEF Extends, Part
  <1> DEFINE T == {k \in a..b : r[k] # r[a] \o SubSeq(d, a + 1, k)}
  <1>0. b \in a..b
    OBVIOUS
  <1> SUFFICES ASSUME T # {} PROVE FALSE
    BY <1>0
  <1>1. T \in SUBSET Nat
    <2>1. \A x \in a..b : x \in Nat
      OBVIOUS
    <2> QED
      BY <2>1
  <1>2. PICK k \in T : \A j \in T : k <= j
    BY <1>1, Smallest
  <1>3. k \in a..b /\ k \in Nat /\ r[a] \in Seq(S) /\ k \in 0..n
    <2>1. k \in a..b /\ k \in Nat /\ k \in 0..n
      OBVIOUS
    <2>2. r[a] \in Seq(S)
      BY DEF Flattens
    <2> QED
      BY <2>1, <2>2
  <1>4. CASE k = a
    <2>1. SubSeq(d, a + 1, a) = <<>>
      OBVIOUS
    <2> QED
      BY <1>2, <1>3, <1>4, <2>1, ConcatEmptySeq
  <1>5. CASE k # a
    <2>1. k - 1 \in a..b /\ ~(k <= k - 1) /\ k \in 1..n /\ k \in a + 1..b /\ k \in 1..Len(d)
      BY <1>3, <1>5
    <2>2. r[k - 1] = r[a] \o SubSeq(d, a + 1, k - 1)
      BY <1>2, <2>1
    <2>3. r[k] = (r[a] \o SubSeq(d, a + 1, k - 1)) \o <<d[k]>>
      BY <2>1, <2>2 DEF Flattens, Singles
    <2>4. SubSeq(d, a + 1, k - 1) \in Seq(S) /\ <<d[k]>> \in Seq(S)
      <3>1. a + 1 \in 1..Len(d) + 1 /\ k - 1 \in (a + 1) - 1..Len(d)
        <4>1. Len(d) \in Nat /\ a \in Nat /\ k \in Nat
          OBVIOUS
        <4> QED
          BY <2>1, <4>1
      <3>2. d[k] \in S
        BY <2>1, ElementOfSeq
      <3> QED
        BY <3>1, <3>2, PartProperties
    <2>5. SubSeq(d, a + 1, k) = SubSeq(d, a + 1, k - 1) \o <<d[k]>>
      <3>1. a + 1 \in 1..Len(d) /\ k \in a + 1..Len(d)
        BY <2>1
      <3> QED
        BY <3>1, SubSeqRecursiveSecond
    <2>6. r[k] = r[a] \o SubSeq(d, a + 1, k)
      <3>1. PICK x, y, z : /\ x = r[a] /\ y = SubSeq(d, a + 1, k - 1) /\ z = <<d[k]>>
                           /\ x \in Seq(S) /\ y \in Seq(S) /\ z \in Seq(S)
        BY <1>3, <2>4
      <3>2. (x \o y) \o z = x \o (y \o z)
        <4>1. x \in Seq(S) /\ y \in Seq(S) /\ z \in Seq(S)
          BY <3>1
        <4> QED
          BY <4>1, ConcatAssociative
      <3> QED
        BY <2>3, <2>5, <3>1, <3>2
    <2> QED
      BY <1>2, <2>6
  <1> QED
    BY <1>4, <1>5

LEMMA FlattenSkip ==
    ASSUME NEW S, NEW n \in Nat, NEW r, NEW q, Flattens(r, q, n, S),
           NEW a, NEW b, Stretch(a, b, n), Empties(q, a, b)
    PROVE  r[b] = r[a]
  <1>s. a \in 0..n /\ b \in a..n
    BY DEF Stretch
  <1> USE <1>s
  <1> DEFINE T == {k \in a..b : r[k] # r[a]}
  <1>0. b \in a..b
    OBVIOUS
  <1> SUFFICES ASSUME T # {} PROVE FALSE
    BY <1>0
  <1>1. T \in SUBSET Nat
    <2>1. \A x \in a..b : x \in Nat
      OBVIOUS
    <2> QED
      BY <2>1
  <1>2. PICK k \in T : \A j \in T : k <= j
    BY <1>1, Smallest
  <1>3. k \in a..b /\ k # a
    BY <1>2
  <1>4. k - 1 \in a..b /\ ~(k <= k - 1) /\ k \in 1..n /\ k \in a + 1..b /\ k - 1 \in 0..n
    BY <1>3
  <1>5. r[k - 1] = r[a] /\ r[k - 1] \in Seq(S)
    BY <1>2, <1>4 DEF Flattens
  <1>6. r[k] = r[k - 1] \o <<>>
    BY <1>4 DEF Flattens, Empties
  <1> QED
    BY <1>2, <1>5, <1>6, ConcatEmptySeq

-------------------------------------------------------------------------------
(* The text of a replica, as a list of items in the order of the document. *)

BeforeIn(o, k, x, y) == \E p, q \in 1..k : p < q /\ o[p] = x /\ o[q] = y

ListsUpTo(t, o, k, V) ==
    /\ \A a \in DOMAIN t : t[a] \in V /\ \E p \in 1..k : o[p] = t[a]
    /\ \A p \in 1..k : o[p] \in V => \E a \in DOMAIN t : t[a] = o[p]
    /\ \A a, b \in DOMAIN t : a < b => BeforeIn(o, k, t[a], t[b])

ListsItems(t, o, V) == ListsUpTo(t, o, Len(o), V)

LEMMA AddedLast ==
    ASSUME NEW S, NEW u \in Seq(S), NEW w \in S
    PROVE  /\ u \o <<w>> \in Seq(S) /\ DOMAIN (u \o <<w>>) = 1..Len(u) + 1
           /\ Len(u \o <<w>>) = Len(u) + 1
           /\ (u \o <<w>>)[Len(u) + 1] = w
           /\ \A a \in 1..Len(u) : (u \o <<w>>)[a] = u[a]
  OBVIOUS

LEMMA AmongType ==
    ASSUME NEW S, NEW o \in Seq(S), NEW V
    PROVE  Among(o, V) \in Seq(S)
  <1> DEFINE q == [p \in DOMAIN o |-> IF o[p] \in V THEN <<o[p]>> ELSE <<>>]
  <1>1. \A p \in 1..Len(o) : o[p] \in S
    BY ElementOfSeq
  <1>2. q \in Seq(Seq(S))
    <2>1. \A p \in 1..Len(o) : (IF o[p] \in V THEN <<o[p]>> ELSE <<>>) \in Seq(S)
      BY <1>1
    <2>2. DOMAIN o = 1..Len(o) /\ Len(o) \in Nat
      OBVIOUS
    <2> QED
      BY <2>1, <2>2
  <1> QED
    BY <1>2, FlattenType DEF Among

LEMMA AmongLists ==
    ASSUME NEW S, NEW o \in Seq(S), NEW V
    PROVE  ListsItems(Among(o, V), o, V)
  <1> DEFINE e == [p \in DOMAIN o |-> IF o[p] \in V THEN <<o[p]>> ELSE <<>>]
  <1>0. PICK n \in Nat : n = Len(o) /\ DOMAIN o = 1..n /\ \A p \in 1..n : o[p] \in S
    BY ElementOfSeq
  <1>1. PICK q : q = e /\ q \in Seq(Seq(S)) /\ Len(q) = n
    <2>1. \A p \in 1..n : (IF o[p] \in V THEN <<o[p]>> ELSE <<>>) \in Seq(S)
      BY <1>0
    <2>2. e \in [1..n -> Seq(S)]
      BY <1>0, <2>1
    <2>3. e \in Seq(Seq(S)) /\ Len(e) = n
      <3> HIDE DEF e
      <3> QED
        BY <2>2
    <2> QED
      BY <2>3
  <1>2. ASSUME NEW p \in 1..n
        PROVE  q[p] = IF o[p] \in V THEN <<o[p]>> ELSE <<>>
    BY <1>0, <1>1
  <1> HIDE DEF e
  <1>3. PICK r : r[0] = <<>> /\ Flattens(r, q, n, S) /\ FlattenSeq(q) = r[n]
    BY <1>1, FlattenRun
  <1>4. Among(o, V) = r[n]
    BY <1>1, <1>3 DEF Among, e
  <1> DEFINE T == {k \in 0..n : ~ListsUpTo(r[k], o, k, V)}
  <1>5. ASSUME NEW k \in 1..n, ListsUpTo(r[k - 1], o, k - 1, V)
        PROVE  ListsUpTo(r[k], o, k, V)
    <2>1. PICK u \in Seq(S) : u = r[k - 1]
      BY <1>3 DEF Flattens
    <2>2. r[k] = u \o q[k]
      BY <1>3, <2>1 DEF Flattens
    <2>3. PICK m \in Nat : m = Len(u) /\ DOMAIN u = 1..m
      OBVIOUS
    <2>4. CASE o[k] \notin V
      <3>1. r[k] = u
        BY <1>2, <2>2, <2>4, ConcatEmptySeq
      <3>2. \A p \in 1..k : p # k => p \in 1..k - 1
        OBVIOUS
      <3>3. \A p \in 1..k - 1 : p \in 1..k
        OBVIOUS
      <3>4. ListsUpTo(u, o, k - 1, V)
        BY <1>5, <2>1
      <3>5. \A a \in DOMAIN u : u[a] \in V /\ \E p \in 1..k : o[p] = u[a]
        BY <3>3, <3>4 DEF ListsUpTo
      <3>6. \A p \in 1..k : o[p] \in V => \E a \in DOMAIN u : u[a] = o[p]
        BY <2>4, <3>2, <3>4 DEF ListsUpTo
      <3>7. \A a, b \in DOMAIN u : a < b => BeforeIn(o, k, u[a], u[b])
        BY <3>3, <3>4 DEF ListsUpTo, BeforeIn
      <3> QED
        BY <3>1, <3>5, <3>6, <3>7 DEF ListsUpTo
    <2>5. CASE o[k] \in V
      <3>1. PICK w : w = o[k] /\ w \in S
        BY <1>0
      <3>2. r[k] = u \o <<w>>
        BY <1>2, <2>2, <2>5, <3>1
      <3>3. PICK t \in Seq(S) : t = r[k] /\ DOMAIN t = 1..m + 1 /\ t[m + 1] = w
                                /\ \A a \in 1..m : t[a] = u[a]
        <4>1. PICK t : t = u \o <<w>> /\ t = r[k]
          BY <3>2
        <4>2. w \in S
          BY <3>1
        <4>3. /\ t \in Seq(S) /\ DOMAIN t = 1..Len(u) + 1 /\ t[Len(u) + 1] = w
              /\ \A a \in 1..Len(u) : t[a] = u[a]
          BY <4>1, <4>2, AddedLast
        <4> QED
          BY <2>3, <4>1, <4>3
      <3>4. \A p \in 1..k - 1 : p \in 1..k /\ p < k
        OBVIOUS
      <3>5. \A p \in 1..k : p # k => p \in 1..k - 1
        OBVIOUS
      <3>6. \A a \in 1..m + 1 : a # m + 1 => a \in 1..m
        OBVIOUS
      <3>7. \A a \in 1..m : a \in 1..m + 1
        OBVIOUS
      <3>8. ListsUpTo(u, o, k - 1, V)
        BY <1>5, <2>1
      <3>9. \A a \in 1..m : u[a] \in V /\ \E p \in 1..k - 1 : o[p] = u[a]
        BY <2>3, <3>8 DEF ListsUpTo
      <3>10. k \in 1..k /\ m + 1 \in 1..m + 1
        BY <2>3
      <3>11. ASSUME NEW a \in DOMAIN t
             PROVE  t[a] \in V /\ \E p \in 1..k : o[p] = t[a]
        <4>1. CASE a = m + 1
          BY <2>5, <3>1, <3>3, <3>10, <4>1
        <4>2. CASE a \in 1..m
          BY <3>3, <3>4, <3>9, <4>2
        <4> QED
          BY <3>3, <3>6, <4>1, <4>2
      <3>12. ASSUME NEW p \in 1..k, o[p] \in V
             PROVE  \E a \in DOMAIN t : t[a] = o[p]
        <4>1. CASE p = k
          BY <3>1, <3>3, <3>10, <4>1
        <4>2. CASE p \in 1..k - 1
          <5>1. PICK a \in 1..m : u[a] = o[p]
            BY <2>3, <3>8, <3>12, <4>2 DEF ListsUpTo
          <5> QED
            BY <3>3, <3>7, <5>1
        <4> QED
          BY <3>5, <4>1, <4>2
      <3>13. ASSUME NEW a \in DOMAIN t, NEW b \in DOMAIN t, a < b
             PROVE  BeforeIn(o, k, t[a], t[b])
        <4>1. a \in 1..m
          BY <3>3, <3>13
        <4>2. CASE b = m + 1
          <5>1. PICK p \in 1..k - 1 : o[p] = t[a]
            BY <3>3, <3>9, <4>1
          <5>2. p \in 1..k /\ p < k /\ o[k] = t[b]
            BY <3>1, <3>3, <3>4, <4>2
          <5> QED
            BY <3>10, <5>1, <5>2 DEF BeforeIn
        <4>3. CASE b \in 1..m
          <5>1. BeforeIn(o, k - 1, u[a], u[b])
            BY <2>3, <3>8, <3>13, <4>1, <4>3 DEF ListsUpTo
          <5>2. PICK p \in 1..k - 1, z \in 1..k - 1 : p < z /\ o[p] = u[a] /\ o[z] = u[b]
            BY <5>1 DEF BeforeIn
          <5>3. p \in 1..k /\ z \in 1..k /\ t[a] = u[a] /\ t[b] = u[b]
            BY <3>3, <3>4, <4>1, <4>3
          <5> QED
            BY <5>2, <5>3 DEF BeforeIn
        <4> QED
          BY <3>3, <3>6, <4>2, <4>3
      <3> QED
        BY <3>3, <3>11, <3>12, <3>13 DEF ListsUpTo
    <2> QED
      BY <2>4, <2>5
  <1>6. ListsUpTo(r[0], o, 0, V)
    <2>1. 1..0 = {} /\ DOMAIN r[0] = {}
      BY <1>3
    <2> QED
      BY <2>1 DEF ListsUpTo
  <1>7. ASSUME T # {} PROVE FALSE
    <2>1. T \in SUBSET Nat
      OBVIOUS
    <2>2. PICK k \in T : \A j \in T : k <= j
      BY <1>7, <2>1, Smallest
    <2>3. k \in 0..n /\ k # 0
      BY <1>6
    <2>4. k \in 1..n /\ k - 1 \in 0..n /\ ~(k <= k - 1)
      BY <2>3
    <2>5. ListsUpTo(r[k - 1], o, k - 1, V)
      BY <2>2, <2>4
    <2> QED
      BY <1>5, <2>2, <2>4, <2>5
  <1>8. n \in 0..n
    OBVIOUS
  <1>9. ListsUpTo(r[n], o, n, V)
    BY <1>7, <1>8
  <1> QED
    BY <1>0, <1>4, <1>9 DEF ListsItems

LEMMA BeforeIsStrict ==
    ASSUME NEW S, NEW o \in Seq(S), IsInjective(o), NEW x, NEW y, BeforeIn(o, Len(o), x, y)
    PROVE  x # y /\ ~BeforeIn(o, Len(o), y, x)
  <1>0. PICK n \in Nat : n = Len(o) /\ DOMAIN o = 1..n
    OBVIOUS
  <1>1. PICK p \in 1..n, q \in 1..n : p < q /\ o[p] = x /\ o[q] = y
    BY <1>0 DEF BeforeIn
  <1>2. \A i, j \in 1..n : o[i] = o[j] => i = j
    BY <1>0 DEF IsInjective
  <1>3. x # y
    BY <1>1, <1>2
  <1>4. ASSUME BeforeIn(o, n, y, x) PROVE FALSE
    <2>1. PICK i \in 1..n, j \in 1..n : i < j /\ o[i] = y /\ o[j] = x
      BY <1>4 DEF BeforeIn
    <2>2. i = q /\ j = p
      BY <1>1, <1>2, <2>1
    <2> QED
      BY <1>1, <2>1, <2>2
  <1> QED
    BY <1>0, <1>3, <1>4

LEMMA ListedOnce ==
    ASSUME NEW S, NEW o \in Seq(S), IsInjective(o), NEW V, NEW t \in Seq(S), NEW u \in Seq(S),
           ListsItems(t, o, V), ListsItems(u, o, V)
    PROVE  t = u
  <1>0. PICK n \in Nat : n = Len(o) /\ DOMAIN o = 1..n
    OBVIOUS
  <1>1. PICK i \in Nat : i = Len(t) /\ DOMAIN t = 1..i
    OBVIOUS
  <1>2. PICK j \in Nat : j = Len(u) /\ DOMAIN u = 1..j
    OBVIOUS
  <1> DEFINE Precedes(x, y) == BeforeIn(o, n, x, y)
  <1>3. \A x, y : Precedes(x, y) => x # y /\ ~Precedes(y, x)
    BY <1>0, BeforeIsStrict
  <1>4. \A a, b \in 1..i : a < b => Precedes(t[a], t[b])
    BY <1>0, <1>1 DEF ListsItems, ListsUpTo
  <1>5. \A a, b \in 1..j : a < b => Precedes(u[a], u[b])
    BY <1>0, <1>2 DEF ListsItems, ListsUpTo
  <1>6. /\ \A a \in 1..i : \E b \in 1..j : u[b] = t[a]
        /\ \A b \in 1..j : \E a \in 1..i : t[a] = u[b]
    <2>1. ASSUME NEW a \in 1..i PROVE \E b \in 1..j : u[b] = t[a]
      <3>1. PICK p \in 1..Len(o) : o[p] = t[a] /\ o[p] \in V
        BY <1>1 DEF ListsItems, ListsUpTo
      <3>2. \E b \in 1..j : u[b] = o[p]
        BY <1>2, <3>1 DEF ListsItems, ListsUpTo
      <3> QED
        BY <3>1, <3>2
    <2>2. ASSUME NEW b \in 1..j PROVE \E a \in 1..i : t[a] = u[b]
      <3>1. PICK p \in 1..Len(o) : o[p] = u[b] /\ o[p] \in V
        BY <1>2 DEF ListsItems, ListsUpTo
      <3>2. \E a \in 1..i : t[a] = o[p]
        BY <1>1, <3>1 DEF ListsItems, ListsUpTo
      <3> QED
        BY <3>1, <3>2
    <2> QED
      BY <2>1, <2>2
  <1> HIDE DEF Precedes
  <1>7. ASSUME NEW k \in Nat, \A l \in 1..k - 1 : l \in 1..i /\ l \in 1..j /\ t[l] = u[l],
               k \in 1..i
        PROVE  k \in 1..j /\ t[k] = u[k]
    <2>1. PICK b \in 1..j : u[b] = t[k]
      BY <1>6, <1>7
    <2>2. ~(b < k)
      <3> SUFFICES ASSUME b < k PROVE FALSE
        OBVIOUS
      <3>1. b \in 1..k - 1
        OBVIOUS
      <3>2. t[b] = u[b] /\ Precedes(t[b], t[k])
        BY <1>4, <1>7, <3>1
      <3> QED
        BY <1>3, <2>1, <3>2
    <2>3. k \in 1..j
      BY <1>7, <2>2
    <2>4. PICK a \in 1..i : t[a] = u[k]
      BY <1>6, <2>3
    <2>5. ~(a < k)
      <3> SUFFICES ASSUME a < k PROVE FALSE
        OBVIOUS
      <3>1. a \in 1..k - 1
        OBVIOUS
      <3>2. t[a] = u[a] /\ a \in 1..j /\ Precedes(u[a], u[k])
        BY <1>5, <1>7, <2>3, <3>1
      <3> QED
        BY <1>3, <2>4, <3>2
    <2>6. CASE b = k
      BY <2>1, <2>3, <2>6
    <2>7. CASE a = k
      BY <2>3, <2>4, <2>7
    <2>8. CASE a > k /\ b > k
      <3>1. Precedes(t[k], t[a]) /\ Precedes(u[k], u[b])
        BY <1>4, <1>5, <1>7, <2>3, <2>8
      <3> QED
        BY <1>3, <2>1, <2>4, <3>1
    <2>9. a = k \/ b = k \/ (a > k /\ b > k)
      BY <2>2, <2>5
    <2> QED
      BY <2>6, <2>7, <2>8, <2>9
  <1>8. ASSUME NEW k \in Nat, \A l \in 1..k - 1 : l \in 1..i /\ l \in 1..j /\ t[l] = u[l],
               k \in 1..j
        PROVE  k \in 1..i
    <2>1. PICK a \in 1..i : t[a] = u[k]
      BY <1>6, <1>8
    <2>2. ~(a < k)
      <3> SUFFICES ASSUME a < k PROVE FALSE
        OBVIOUS
      <3>1. a \in 1..k - 1
        OBVIOUS
      <3>2. t[a] = u[a] /\ a \in 1..j /\ Precedes(u[a], u[k])
        BY <1>5, <1>8, <3>1
      <3> QED
        BY <1>3, <2>1, <3>2
    <2> QED
      BY <1>8, <2>2
  <1> DEFINE W == {k \in Nat : ((k \in 1..i \/ k \in 1..j)
                                 /\ ~(k \in 1..i /\ k \in 1..j /\ t[k] = u[k]))}
  <1>9. ASSUME W # {} PROVE FALSE
    <2>1. W \in SUBSET Nat
      OBVIOUS
    <2>2. PICK k \in W : \A l \in W : k <= l
      BY <1>9, <2>1, Smallest
    <2>3. k \in Nat /\ (k \in 1..i \/ k \in 1..j)
      OBVIOUS
    <2>4. ASSUME NEW l \in 1..k - 1
          PROVE  l \in 1..i /\ l \in 1..j /\ t[l] = u[l]
      <3>1. l \in Nat /\ ~(k <= l) /\ (l \in 1..i \/ l \in 1..j)
        BY <2>3
      <3> QED
        BY <2>2, <3>1
    <2>5. k \in 1..i
      BY <1>8, <2>3, <2>4
    <2>6. k \in 1..j /\ t[k] = u[k]
      BY <1>7, <2>3, <2>4, <2>5
    <2> QED
      BY <2>2, <2>5, <2>6
  <1>10. i = j
    <2>1. CASE i < j
      <3>1. i + 1 \in 1..j /\ i + 1 \notin 1..i /\ i + 1 \in Nat
        BY <2>1
      <3> QED
        BY <1>9, <3>1
    <2>2. CASE j < i
      <3>1. j + 1 \in 1..i /\ j + 1 \notin 1..j /\ j + 1 \in Nat
        BY <2>2
      <3> QED
        BY <1>9, <3>1
    <2> QED
      BY <2>1, <2>2
  <1>11. \A k \in 1..i : t[k] = u[k]
    <2> TAKE k \in 1..i
    <2>1. k \in Nat
      OBVIOUS
    <2> QED
      BY <1>9, <2>1
  <1> QED
    BY <1>1, <1>2, <1>10, <1>11, SeqEqual

-------------------------------------------------------------------------------
(* CodeMirror.                                                             *)

Changes(S) == Seq([from : Int, to : Int, insert : Seq(S)])

Dropped(cs, p) == \E k \in DOMAIN cs : cs[k].from < p /\ p <= cs[k].to

Block(d, cs, p) == (IF Dropped(cs, p) THEN <<>> ELSE <<d[p]>>) \o InsertedAt(cs, p)

(* What stands for the items after f up to t. *)
Splice(d, f, t, ins) == (Part(d, 0, f) \o ins) \o Part(d, t, Len(d))

PartsJoin(d, a, b, c) == Part(d, a, b) \o Part(d, b, c) = Part(d, a, c)

IsPart(p, d, a, b, S) ==
    p \in Seq(S) /\ Len(p) = b - a /\ \A k \in 1..b - a : p[k] = d[a + k]

LEMMA PartType ==
    ASSUME NEW S, NEW d \in Seq(S), NEW a, NEW b, Stretch(a, b, Len(d))
    PROVE  IsPart(Part(d, a, b), d, a, b, S)
  <1>0. a \in 0..Len(d) /\ b \in a..Len(d) /\ Len(d) \in Nat
    BY DEF Stretch
  <1>1. a + 1 \in 1..Len(d) + 1 /\ b \in (a + 1) - 1..Len(d)
    BY <1>0
  <1>2. b - (a + 1) + 1 = b - a /\ \A k \in 1..b - a : (a + 1) + k - 1 = a + k
    BY <1>0
  <1>3. PICK p : p = Part(d, a, b) /\ p = SubSeq(d, a + 1, b)
    BY DEF Part
  <1>4. /\ p \in Seq(S) /\ Len(p) = b - (a + 1) + 1
        /\ \A k \in 1..b - (a + 1) + 1 : p[k] = d[(a + 1) + k - 1]
    BY <1>1, <1>3, PartProperties
  <1> QED
    BY <1>2, <1>3, <1>4 DEF IsPart

LEMMA JoinedParts ==
    ASSUME NEW S, NEW d \in Seq(S), NEW a, NEW b, NEW c, Stretch(a, b, Len(d)), Stretch(b, c, Len(d))
    PROVE  PartsJoin(d, a, b, c)
  <1>1. a + 1 \in 1..Len(d) + 1 /\ b \in (a + 1) - 1..Len(d) /\ c \in b..Len(d)
    BY DEF Stretch
  <1>2. SubSeq(d, a + 1, b) \o SubSeq(d, b + 1, c) = SubSeq(d, a + 1, c)
    BY <1>1, ConcatAdjacentSubSeq
  <1> QED
    BY <1>2 DEF PartsJoin, Part

LEMMA WholePart ==
    ASSUME NEW S, NEW d \in Seq(S)
    PROVE  Part(d, 0, Len(d)) = d /\ \A a \in Int : Part(d, a, a) = <<>>
  BY SubSeqFull DEF Part

(* The two ends of a concatenation. *)
Falls(y, q) == /\ Part(y \o q, 0, Len(y)) = y
               /\ Part(y \o q, Len(y), Len(y \o q)) = q

LEMMA FallsApart ==
    ASSUME NEW S, NEW y \in Seq(S), NEW q \in Seq(S)
    PROVE  Falls(y, q)
  <1>1. PICK w : w = y \o q
    OBVIOUS
  <1>2. PICK m \in Nat, l \in Nat : m = Len(y) /\ l = Len(q)
    OBVIOUS
  <1>3. /\ w \in Seq(S) /\ Len(w) = m + l
        /\ \A k \in 1..m + l : w[k] = IF k <= m THEN y[k] ELSE q[k - m]
    BY <1>1, <1>2, ConcatProperties
  <1>4. Part(w, 0, m) = y
    <2>1. Stretch(0, m, Len(w))
      BY <1>3 DEF Stretch
    <2>2. PICK p : p = Part(w, 0, m)
      OBVIOUS
    <2>3. p \in Seq(S) /\ Len(p) = m - 0 /\ \A k \in 1..m - 0 : p[k] = w[0 + k]
      <3>1. w \in Seq(S)
        BY <1>3
      <3>2. IsPart(p, w, 0, m, S)
        BY <2>1, <2>2, <3>1, PartType
      <3> QED
        BY <3>2 DEF IsPart
    <2>4. \A k \in 1..m : k \in 1..m - 0 /\ 0 + k = k /\ k \in 1..m + l /\ k <= m
      OBVIOUS
    <2>5. Len(p) = Len(y) /\ \A k \in 1..Len(p) : p[k] = y[k]
      BY <1>2, <1>3, <2>3, <2>4
    <2>6. p = y
      BY <2>3, <2>5, SeqEqual
    <2> QED
      BY <2>2, <2>6
  <1>5. Part(w, m, m + l) = q
    <2>1. Stretch(m, m + l, Len(w))
      BY <1>3 DEF Stretch
    <2>2. PICK p : p = Part(w, m, m + l)
      OBVIOUS
    <2>3. p \in Seq(S) /\ Len(p) = m + l - m /\ \A k \in 1..m + l - m : p[k] = w[m + k]
      <3>1. w \in Seq(S)
        BY <1>3
      <3>2. IsPart(p, w, m, m + l, S)
        BY <2>1, <2>2, <3>1, PartType
      <3> QED
        BY <3>2 DEF IsPart
    <2>4. /\ m + l - m = l
          /\ \A k \in 1..l : m + k \in 1..m + l /\ ~(m + k <= m) /\ (m + k) - m = k
      OBVIOUS
    <2>5. Len(p) = Len(q) /\ \A k \in 1..Len(p) : p[k] = q[k]
      BY <1>2, <1>3, <2>3, <2>4
    <2>6. p = q
      BY <2>3, <2>5, SeqEqual
    <2> QED
      BY <2>2, <2>6
  <1> QED
    BY <1>1, <1>2, <1>3, <1>4, <1>5 DEF Falls

LEMMA Assoc ==
    ASSUME NEW S, NEW x \in Seq(S), NEW y \in Seq(S), NEW z \in Seq(S)
    PROVE  (x \o y) \o z = x \o (y \o z) /\ x \o y \in Seq(S)
  BY ConcatAssociative, ConcatProperties

Regroups(x, y, z, w) == (x \o y) \o (z \o w) = (x \o (y \o z)) \o w

LEMMA AssocFour ==
    ASSUME NEW S, NEW x \in Seq(S), NEW y \in Seq(S), NEW z \in Seq(S), NEW w \in Seq(S)
    PROVE  Regroups(x, y, z, w)
  <1>1. PICK u \in Seq(S) : u = x \o y
    BY Assoc
  <1>2. (u \o z) \o w = u \o (z \o w)
    BY Assoc
  <1>3. u \o z = x \o (y \o z)
    BY <1>1, Assoc
  <1> QED
    BY <1>1, <1>2, <1>3 DEF Regroups

LEMMA InsertedType ==
    ASSUME NEW S, NEW cs \in Changes(S), NEW p
    PROVE  InsertedAt(cs, p) \in Seq(S)
  <1> DEFINE q == [k \in DOMAIN cs |-> IF cs[k].from = p THEN cs[k].insert ELSE <<>>]
  <1>1. DOMAIN cs = 1..Len(cs) /\ Len(cs) \in Nat /\ \A k \in 1..Len(cs) : cs[k].insert \in Seq(S)
    <2>1. PICK R : R = [from : Int, to : Int, insert : Seq(S)] /\ cs \in Seq(R)
      BY DEF Changes
    <2>2. DOMAIN cs = 1..Len(cs) /\ Len(cs) \in Nat /\ \A k \in 1..Len(cs) : cs[k] \in R
      <3>1. cs \in Seq(R)
        BY <2>1
      <3> QED
        BY <3>1, ElementOfSeq, LenProperties
    <2>3. \A c \in R : c.insert \in Seq(S)
      <3>1. R = [from : Int, to : Int, insert : Seq(S)]
        BY <2>1
      <3> QED
        BY <3>1
    <2> QED
      BY <2>2, <2>3
  <1>2. q \in [1..Len(cs) -> Seq(S)]
    BY <1>1
  <1>3. q \in Seq(Seq(S))
    <2> HIDE DEF q
    <2> QED
      BY <1>1, <1>2
  <1> QED
    BY <1>3, FlattenType DEF InsertedAt

(* The run of an edited document: what it is up to each position. *)
EditRun(r, d, cs, S) ==
    /\ r \in [0..Len(d) -> Seq(S)]
    /\ r[0] = InsertedAt(cs, 0)
    /\ \A p \in 1..Len(d) : r[p] = r[p - 1] \o Block(d, cs, p)
    /\ Edited(d, cs) = r[Len(d)]

LEMMA EditRunExists ==
    ASSUME NEW S, NEW d \in Seq(S), NEW cs \in Changes(S)
    PROVE  \E r : EditRun(r, d, cs, S)
  <1>0. PICK n \in Nat : n = Len(d) /\ DOMAIN d = 1..n /\ \A p \in 1..n : d[p] \in S
    BY ElementOfSeq
  <1> DEFINE e == [p \in DOMAIN d |-> Block(d, cs, p)]
  <1>1. \A p \in 1..n : Block(d, cs, p) \in Seq(S)
    <2> TAKE p \in 1..n
    <2>0. <<>> \in Seq(S) /\ <<d[p]>> \in Seq(S)
      BY <1>0
    <2>1. PICK x : x = (IF Dropped(cs, p) THEN <<>> ELSE <<d[p]>>) /\ x \in Seq(S)
      BY <2>0
    <2>2. InsertedAt(cs, p) \in Seq(S)
      BY InsertedType
    <2> QED
      BY <2>1, <2>2, ConcatProperties DEF Block
  <1>2. e \in [1..n -> Seq(S)]
    BY <1>0, <1>1
  <1>3. Edited(d, cs) = InsertedAt(cs, 0) \o FlattenSeq(e)
    BY DEF Edited, Block, Dropped
  <1>4. PICK q : q = e /\ q \in Seq(Seq(S)) /\ Len(q) = n
    <2> HIDE DEF e
    <2> QED
      BY <1>2
  <1>5. \A p \in 1..n : q[p] = Block(d, cs, p)
    BY <1>0, <1>4
  <1> HIDE DEF e
  <1>6. PICK g : g[0] = <<>> /\ Flattens(g, q, n, S) /\ FlattenSeq(q) = g[n]
    BY <1>4, FlattenRun
  <1>7. PICK i \in Seq(S) : i = InsertedAt(cs, 0)
    BY InsertedType
  <1>8. \A p \in 0..n : g[p] \in Seq(S)
    BY <1>6 DEF Flattens
  <1> DEFINE r == [p \in 0..n |-> i \o g[p]]
  <1>9. r \in [0..n -> Seq(S)]
    BY <1>8, ConcatProperties
  <1>10. r[0] = i
    <2>1. r[0] = i \o <<>>
      BY <1>6
    <2> QED
      BY <2>1, ConcatEmptySeq
  <1>11. ASSUME NEW p \in 1..n PROVE r[p] = r[p - 1] \o Block(d, cs, p)
    <2>1. p - 1 \in 0..n /\ p \in 0..n
      OBVIOUS
    <2>2. PICK x, y : x = g[p - 1] /\ y = Block(d, cs, p) /\ x \in Seq(S) /\ y \in Seq(S)
      BY <1>1, <1>8, <2>1
    <2>3. g[p] = x \o y
      BY <1>5, <1>6, <2>2 DEF Flattens
    <2>4. r[p] = i \o (x \o y) /\ r[p - 1] = i \o x
      BY <2>1, <2>2, <2>3
    <2>5. (i \o x) \o y = i \o (x \o y)
      <3> HIDE DEF r
      <3>1. x \in Seq(S) /\ y \in Seq(S)
        BY <2>2
      <3> QED
        BY <3>1, Assoc
    <2> QED
      BY <2>2, <2>4, <2>5
  <1>12. Edited(d, cs) = r[n]
    BY <1>3, <1>4, <1>6, <1>7
  <1> HIDE DEF r
  <1> QED
    BY <1>0, <1>7, <1>9, <1>10, <1>11, <1>12 DEF EditRun

LEMMA EditedType ==
    ASSUME NEW S, NEW d \in Seq(S), NEW cs \in Changes(S)
    PROVE  Edited(d, cs) \in Seq(S) /\ Dispatched(d, cs) \in Seq(S)
  <1>1. PICK r : EditRun(r, d, cs, S)
    BY EditRunExists
  <1>2. Len(d) \in 0..Len(d)
    OBVIOUS
  <1> QED
    BY <1>1, <1>2 DEF EditRun, Dispatched

(* Stretches of a document that an edit leaves alone, or drops. *)
Untouched(cs, a, b) == \A p \in a + 1..b : ~Dropped(cs, p) /\ InsertedAt(cs, p) = <<>>

AllDropped(cs, a, b) == \A p \in a + 1..b : Dropped(cs, p) /\ InsertedAt(cs, p) = <<>>

LEMMA RunFlattens ==
    ASSUME NEW S, NEW d \in Seq(S), NEW cs \in Changes(S), NEW r, EditRun(r, d, cs, S)
    PROVE  \E q : /\ Flattens(r, q, Len(d), S)
                  /\ \A p \in 1..Len(d) : q[p] = Block(d, cs, p)
  <1> DEFINE q == [p \in 1..Len(d) |-> Block(d, cs, p)]
  <1>1. \A p \in 1..Len(d) : q[p] = Block(d, cs, p)
    OBVIOUS
  <1> HIDE DEF q
  <1>2. Flattens(r, q, Len(d), S)
    BY <1>1 DEF EditRun, Flattens
  <1> QED
    BY <1>1, <1>2

LEMMA RunKeeps ==
    ASSUME NEW S, NEW d \in Seq(S), NEW cs \in Changes(S), NEW r, EditRun(r, d, cs, S),
           NEW a, NEW b, Stretch(a, b, Len(d)), Untouched(cs, a, b)
    PROVE  Extends(r, d, a, b)
  <1>0. a \in 0..Len(d) /\ b \in a..Len(d) /\ Len(d) \in Nat
    BY DEF Stretch
  <1>1. PICK q : Flattens(r, q, Len(d), S) /\ \A p \in 1..Len(d) : q[p] = Block(d, cs, p)
    BY RunFlattens
  <1>2. ASSUME NEW p \in a + 1..b PROVE q[p] = <<d[p]>>
    <2>1. p \in 1..Len(d)
      BY <1>0
    <2>2. q[p] = <<d[p]>> \o <<>>
      BY <1>1, <2>1 DEF Untouched, Block
    <2>3. <<d[p]>> \in Seq(S)
      BY <2>1
    <2> QED
      BY <2>2, <2>3, ConcatEmptySeq
  <1>3. Singles(q, d, a, b)
    BY <1>2 DEF Singles
  <1> QED
    BY <1>1, <1>3, FlattenStretch

LEMMA RunDrops ==
    ASSUME NEW S, NEW d \in Seq(S), NEW cs \in Changes(S), NEW r, EditRun(r, d, cs, S),
           NEW a, NEW b, Stretch(a, b, Len(d)), AllDropped(cs, a, b)
    PROVE  r[b] = r[a]
  <1>0. a \in 0..Len(d) /\ b \in a..Len(d) /\ Len(d) \in Nat
    BY DEF Stretch
  <1>1. PICK q : Flattens(r, q, Len(d), S) /\ \A p \in 1..Len(d) : q[p] = Block(d, cs, p)
    BY RunFlattens
  <1>2. ASSUME NEW p \in a + 1..b PROVE q[p] = <<>>
    <2>1. p \in 1..Len(d)
      BY <1>0
    <2>2. q[p] = <<>> \o <<>>
      BY <1>1, <2>1 DEF AllDropped, Block
    <2>3. <<>> \in Seq(S)
      OBVIOUS
    <2> QED
      BY <2>2, <2>3, ConcatEmptySeq
  <1>3. Empties(q, a, b)
    BY <1>2 DEF Empties
  <1>4. PICK n \in Nat : n = Len(d)
    OBVIOUS
  <1>5. Stretch(a, b, n) /\ Flattens(r, q, n, S)
    BY <1>1, <1>4
  <1> QED
    BY <1>3, <1>4, <1>5, FlattenSkip

(* The run up to a place where something is inserted. *)
ExtendsOnto(r, d, cs, a, f) == r[f] = (r[a] \o Part(d, a, f)) \o InsertedAt(cs, f)

LEMMA RunOnto ==
    ASSUME NEW S, NEW d \in Seq(S), NEW cs \in Changes(S), NEW r, EditRun(r, d, cs, S),
           NEW a \in 0..Len(d), NEW f \in a + 1..Len(d),
           Untouched(cs, a, f - 1), ~Dropped(cs, f)
    PROVE  ExtendsOnto(r, d, cs, a, f)
  <1>1. f - 1 \in a..Len(d) /\ f \in 1..Len(d) /\ f - 1 \in 0..Len(d)
    OBVIOUS
  <1>2. PICK b : b = f - 1 /\ b \in a..Len(d)
    BY <1>1
  <1>3. r[b] = r[a] \o SubSeq(d, a + 1, b)
    <2>1. Stretch(a, b, Len(d)) /\ Untouched(cs, a, b)
      BY <1>2 DEF Stretch
    <2>2. Extends(r, d, a, b)
      BY <2>1, RunKeeps
    <2> QED
      BY <2>2 DEF Extends, Part
  <1>4. r[f] = r[f - 1] \o (<<d[f]>> \o InsertedAt(cs, f))
    BY <1>1 DEF EditRun, Block
  <1>5. PICK x, y, z, i :
           /\ x = r[a] /\ y = SubSeq(d, a + 1, f - 1) /\ z = <<d[f]>> /\ i = InsertedAt(cs, f)
           /\ x \in Seq(S) /\ y \in Seq(S) /\ z \in Seq(S) /\ i \in Seq(S)
    <2>1. r[a] \in Seq(S)
      BY DEF EditRun
    <2>2. SubSeq(d, a + 1, f - 1) \in Seq(S)
      <3>1. a + 1 \in 1..Len(d) + 1 /\ f - 1 \in (a + 1) - 1..Len(d)
        OBVIOUS
      <3> QED
        BY <3>1, PartProperties
    <2>3. <<d[f]>> \in Seq(S)
      <3>1. d[f] \in S
        BY <1>1, ElementOfSeq
      <3> QED
        BY <3>1
    <2>4. InsertedAt(cs, f) \in Seq(S)
      BY InsertedType
    <2> QED
      BY <2>1, <2>2, <2>3, <2>4
  <1>6. SubSeq(d, a + 1, f) = y \o z
    <2>1. a + 1 \in 1..Len(d) /\ f \in a + 1..Len(d)
      OBVIOUS
    <2>2. SubSeq(d, a + 1, f) = SubSeq(d, a + 1, f - 1) \o <<d[f]>>
      BY <2>1, SubSeqRecursiveSecond
    <2> QED
      BY <1>5, <2>2
  <1>7. r[f] = (x \o y) \o (z \o i)
    BY <1>2, <1>3, <1>4, <1>5
  <1>8. x \in Seq(S) /\ y \in Seq(S) /\ z \in Seq(S) /\ i \in Seq(S)
    BY <1>5
  <1>9. (x \o y) \o (z \o i) = (x \o (y \o z)) \o i
    <2>1. Regroups(x, y, z, i)
      BY <1>8, AssocFour
    <2> QED
      BY <2>1 DEF Regroups
  <1>10. r[f] = (x \o (y \o z)) \o i
    BY <1>7, <1>9
  <1>11. x = r[a] /\ i = InsertedAt(cs, f)
    BY <1>5
  <1> QED
    BY <1>6, <1>10, <1>11 DEF ExtendsOnto, Part

(* Changes that all happen at one place: whatever is inserted goes after   *)
(* f, and the items after f up to t are dropped.                           *)
OnePlace(cs, n, f, t) ==
    /\ f \in 0..n /\ t \in f..n
    /\ \A p \in 0..n : p # f => InsertedAt(cs, p) = <<>>
    /\ \A p \in 1..n : Dropped(cs, p) <=> f < p /\ p <= t

ClearBefore(cs, f) ==
    /\ \A p \in 0..f - 1 : InsertedAt(cs, p) = <<>>
    /\ \A p \in 1..f : ~Dropped(cs, p)

Begins(r, d, cs, f) == r[f] = Part(d, 0, f) \o InsertedAt(cs, f)

LEMMA RunToFirst ==
    ASSUME NEW S, NEW d \in Seq(S), NEW cs \in Changes(S), NEW r, EditRun(r, d, cs, S),
           NEW f \in 0..Len(d), ClearBefore(cs, f)
    PROVE  Begins(r, d, cs, f)
  <1>0. /\ \A p \in 0..f - 1 : InsertedAt(cs, p) = <<>>
        /\ \A p \in 1..f : ~Dropped(cs, p)
    BY DEF ClearBefore
  <1> SUFFICES r[f] = SubSeq(d, 1, f) \o InsertedAt(cs, f)
    <2>1. Part(d, 0, f) = SubSeq(d, 1, f)
      BY DEF Part
    <2> QED
      BY <2>1 DEF Begins
  <1>1. CASE f = 0
    <2>1. r[f] = InsertedAt(cs, f) /\ SubSeq(d, 1, f) = <<>>
      BY <1>1 DEF EditRun
    <2>2. InsertedAt(cs, f) \in Seq(S)
      BY InsertedType
    <2> QED
      BY <2>1, <2>2, ConcatEmptySeq
  <1>2. CASE f # 0
    <2>1. 0 \in 0..Len(d) /\ f \in 0 + 1..Len(d) /\ f \in 1..f /\ 0 \in 0..f - 1
      BY <1>2
    <2>2. Untouched(cs, 0, f - 1)
      <3>1. ASSUME NEW p \in 0 + 1..f - 1 PROVE p \in 1..f /\ p \in 0..f - 1
        OBVIOUS
      <3> QED
        BY <1>0, <3>1 DEF Untouched
    <2>3. r[f] = (r[0] \o SubSeq(d, 0 + 1, f)) \o InsertedAt(cs, f)
      <3>1. ExtendsOnto(r, d, cs, 0, f)
        BY <1>0, <2>1, <2>2, RunOnto
      <3> QED
        BY <3>1 DEF ExtendsOnto, Part
    <2>4. r[0] = <<>>
      BY <1>0, <2>1 DEF EditRun
    <2>5. SubSeq(d, 1, f) \in Seq(S)
      <3>1. 1 \in 1..Len(d) + 1 /\ f \in 1 - 1..Len(d)
        OBVIOUS
      <3> QED
        BY <3>1, PartProperties
    <2>6. r[0] \o SubSeq(d, 1, f) = SubSeq(d, 1, f)
      BY <2>4, <2>5, ConcatEmptySeq
    <2>7. 0 + 1 = 1
      OBVIOUS
    <2> QED
      BY <2>3, <2>6, <2>7
  <1> QED
    BY <1>1, <1>2

LEMMA EditedAtOnePlace ==
    ASSUME NEW S, NEW d \in Seq(S), NEW cs \in Changes(S), NEW f, NEW t,
           OnePlace(cs, Len(d), f, t)
    PROVE  Edited(d, cs) = Splice(d, f, t, InsertedAt(cs, f))
  <1>0. PICK r : EditRun(r, d, cs, S)
    BY EditRunExists
  <1>1. f \in 0..Len(d) /\ t \in f..Len(d) /\ t \in 0..Len(d) /\ Len(d) \in t..Len(d)
    <2>1. f \in 0..Len(d) /\ t \in f..Len(d) /\ Len(d) \in Nat
      BY DEF OnePlace
    <2> QED
      BY <2>1
  <1>2. r[f] = Part(d, 0, f) \o InsertedAt(cs, f)
    <2>1. ASSUME NEW p \in 0..f - 1 PROVE InsertedAt(cs, p) = <<>>
      <3>1. p \in 0..Len(d) /\ p # f
        BY <1>1
      <3> QED
        BY <3>1 DEF OnePlace
    <2>2. ASSUME NEW p \in 1..f PROVE ~Dropped(cs, p)
      <3>1. p \in 1..Len(d) /\ ~(f < p)
        BY <1>1
      <3> QED
        BY <3>1 DEF OnePlace
    <2>3. ClearBefore(cs, f)
      BY <2>1, <2>2 DEF ClearBefore
    <2>4. Begins(r, d, cs, f)
      BY <1>0, <1>1, <2>3, RunToFirst
    <2> QED
      BY <2>4 DEF Begins
  <1>3. r[t] = r[f]
    <2>1. AllDropped(cs, f, t)
      <3> SUFFICES ASSUME NEW p \in f + 1..t
                   PROVE  Dropped(cs, p) /\ InsertedAt(cs, p) = <<>>
        BY DEF AllDropped
      <3>1. p \in 1..Len(d) /\ f < p /\ p <= t /\ p \in 0..Len(d) /\ p # f
        BY <1>1
      <3> QED
        BY <3>1 DEF OnePlace
    <2>2. Stretch(f, t, Len(d))
      BY <1>1 DEF Stretch
    <2> QED
      BY <1>0, <2>1, <2>2, RunDrops
  <1>4. r[Len(d)] = r[t] \o Part(d, t, Len(d))
    <2>1. Untouched(cs, t, Len(d))
      <3> SUFFICES ASSUME NEW p \in t + 1..Len(d)
                   PROVE  ~Dropped(cs, p) /\ InsertedAt(cs, p) = <<>>
        BY DEF Untouched
      <3>1. p \in 1..Len(d) /\ ~(p <= t) /\ p \in 0..Len(d) /\ p # f
        BY <1>1
      <3> QED
        BY <3>1 DEF OnePlace
    <2>2. Stretch(t, Len(d), Len(d))
      BY <1>1 DEF Stretch
    <2>3. Extends(r, d, t, Len(d))
      BY <1>0, <2>1, <2>2, RunKeeps
    <2> QED
      BY <2>3 DEF Extends
  <1>5. Edited(d, cs) = r[Len(d)]
    BY <1>0 DEF EditRun
  <1> QED
    BY <1>2, <1>3, <1>4, <1>5 DEF Splice

(* Lists of no, one and two changes. *)

LEMMA NoChange ==
    ASSUME NEW S, NEW d \in Seq(S)
    PROVE  Edited(d, <<>>) = d /\ <<>> \in Changes(S)
  <1>1. PICK cs : cs = <<>> /\ cs \in Changes(S) /\ DOMAIN cs = {} /\ Len(cs) = 0
    <2>1. PICK R : Changes(S) = Seq(R)
      BY DEF Changes
    <2>2. <<>> \in Seq(R) /\ DOMAIN <<>> = {} /\ Len(<<>>) = 0
      OBVIOUS
    <2> QED
      BY <2>1, <2>2
  <1>2. \A p : ~Dropped(cs, p)
    BY <1>1 DEF Dropped
  <1>3. \A p : InsertedAt(cs, p) = <<>>
    <2> TAKE p
    <2>1. [k \in DOMAIN cs |-> IF cs[k].from = p THEN cs[k].insert ELSE <<>>] = <<>>
      BY <1>1
    <2>2. FlattenSeq(<<>>) = <<>>
      BY DEF FlattenSeq
    <2> QED
      BY <2>1, <2>2 DEF InsertedAt
  <1>4. Len(d) \in Nat /\ 0 \in 0..Len(d)
    OBVIOUS
  <1>5. OnePlace(cs, Len(d), 0, 0)
    <2>1. \A p \in 1..Len(d) : ~(0 < p /\ p <= 0)
      BY <1>4
    <2> QED
      BY <1>2, <1>3, <1>4, <2>1 DEF OnePlace
  <1>6. Edited(d, cs) = Splice(d, 0, 0, InsertedAt(cs, 0))
    BY <1>1, <1>5, EditedAtOnePlace
  <1>7. Edited(d, cs) = (Part(d, 0, 0) \o <<>>) \o Part(d, 0, Len(d))
    BY <1>3, <1>6 DEF Splice
  <1>9. Part(d, 0, Len(d)) = d /\ Part(d, 0, 0) = <<>>
    BY WholePart
  <1>8. Part(d, 0, 0) \o <<>> = <<>>
    BY <1>9
  <1>10. <<>> \o d = d
    BY ConcatEmptySeq
  <1>11. Edited(d, cs) = d
    BY <1>7, <1>8, <1>9, <1>10
  <1> QED
    BY <1>1, <1>11

LEMMA InsertedByOne ==
    ASSUME NEW S, NEW c, c.insert \in Seq(S), NEW p
    PROVE  InsertedAt(<<c>>, p) = IF c.from = p THEN c.insert ELSE <<>>
  <1>1. PICK i : i = (IF c.from = p THEN c.insert ELSE <<>>) /\ i \in Seq(S)
    <2>1. <<>> \in Seq(S)
      OBVIOUS
    <2> QED
      BY <2>1
  <1>2. [k \in DOMAIN <<c>> |-> IF <<c>>[k].from = p THEN <<c>>[k].insert ELSE <<>>] = <<i>>
    BY <1>1
  <1>3. InsertedAt(<<c>>, p) = FlattenSeq(<<i>>)
    BY <1>2 DEF InsertedAt
  <1> QED
    BY <1>1, <1>3, FlattenShort

InsertBoth(c, e, p) ==
    InsertedAt(<<c, e>>, p) = (IF c.from = p THEN c.insert ELSE <<>>)
                              \o (IF e.from = p THEN e.insert ELSE <<>>)

LEMMA InsertedByTwo ==
    ASSUME NEW S, NEW c, NEW e, c.insert \in Seq(S), e.insert \in Seq(S), NEW p
    PROVE  InsertBoth(c, e, p)
  <1>0. <<>> \in Seq(S)
    OBVIOUS
  <1>1. PICK i : i = (IF c.from = p THEN c.insert ELSE <<>>) /\ i \in Seq(S)
    BY <1>0
  <1>2. PICK j : j = (IF e.from = p THEN e.insert ELSE <<>>) /\ j \in Seq(S)
    BY <1>0
  <1>3. [k \in DOMAIN <<c, e>> |-> IF <<c, e>>[k].from = p THEN <<c, e>>[k].insert ELSE <<>>]
        = <<i, j>>
    BY <1>1, <1>2
  <1>4. InsertedAt(<<c, e>>, p) = FlattenSeq(<<i, j>>)
    BY <1>3 DEF InsertedAt
  <1>5. FlattenSeq(<<i, j>>) = i \o j
    BY <1>1, <1>2, FlattenShort
  <1> QED
    BY <1>1, <1>2, <1>4, <1>5 DEF InsertBoth

LEMMA OneChange ==
    ASSUME NEW S, NEW d \in Seq(S), NEW c \in [from : Int, to : Int, insert : Seq(S)],
           0 <= c.from, c.from <= c.to, c.to <= Len(d)
    PROVE  Edited(d, <<c>>) = Splice(d, c.from, c.to, c.insert) /\ <<c>> \in Changes(S)
  <1>1. PICK cs : cs = <<c>> /\ cs \in Changes(S) /\ DOMAIN cs = {1} /\ cs[1] = c
    <2>1. PICK R : Changes(S) = Seq(R) /\ c \in R
      BY DEF Changes
    <2>2. <<c>> \in Seq(R) /\ DOMAIN <<c>> = {1} /\ <<c>>[1] = c
      BY <2>1
    <2> QED
      BY <2>1, <2>2
  <1>2. PICK f \in Int, t \in Int, ins \in Seq(S) :
           f = c.from /\ t = c.to /\ ins = c.insert
    OBVIOUS
  <1>3. \A p : InsertedAt(cs, p) = IF f = p THEN ins ELSE <<>>
    <2> TAKE p
    <2>1. c.insert \in Seq(S)
      OBVIOUS
    <2>2. InsertedAt(<<c>>, p) = IF c.from = p THEN c.insert ELSE <<>>
      BY <2>1, InsertedByOne
    <2> QED
      BY <1>1, <1>2, <2>2
  <1>4. \A p : Dropped(cs, p) <=> f < p /\ p <= t
    BY <1>1, <1>2 DEF Dropped
  <1>5. f \in 0..Len(d) /\ t \in f..Len(d)
    BY <1>2
  <1>6. OnePlace(cs, Len(d), f, t)
    BY <1>3, <1>4, <1>5 DEF OnePlace
  <1>7. Edited(d, cs) = Splice(d, f, t, InsertedAt(cs, f))
    BY <1>1, <1>6, EditedAtOnePlace
  <1> QED
    BY <1>1, <1>2, <1>3, <1>7

(* A deletion and an insertion in one place, as onDelta makes them. *)
LEMMA DeletionAndInsertion ==
    ASSUME NEW S, NEW d \in Seq(S), NEW f \in 0..Len(d), NEW t \in f..Len(d), NEW ins \in Seq(S),
           NEW c, c = [from |-> f, to |-> t, insert |-> <<>>],
           NEW e, e = [from |-> f, to |-> f, insert |-> ins]
    PROVE  Edited(d, <<c, e>>) = Splice(d, f, t, ins) /\ <<c, e>> \in Changes(S)
  <1>0. <<>> \in Seq(S) /\ f \in Int /\ t \in Int
    OBVIOUS
  <1>1. PICK cs : cs = <<c, e>> /\ cs \in Changes(S) /\ DOMAIN cs = {1, 2}
                  /\ cs[1] = c /\ cs[2] = e
    <2>1. c \in [from : Int, to : Int, insert : Seq(S)]
      BY <1>0
    <2>2. e \in [from : Int, to : Int, insert : Seq(S)]
      BY <1>0
    <2>3. <<c, e>> \in Changes(S)
      BY <2>1, <2>2 DEF Changes
    <2> QED
      BY <2>3
  <1>2. c.from = f /\ c.to = t /\ c.insert = <<>> /\ e.from = f /\ e.to = f /\ e.insert = ins
    OBVIOUS
  <1>3. \A p : InsertedAt(cs, p) = IF f = p THEN ins ELSE <<>>
    <2> TAKE p
    <2>1. InsertedAt(cs, p) = (IF c.from = p THEN c.insert ELSE <<>>)
                              \o (IF e.from = p THEN e.insert ELSE <<>>)
      <3>1. c.insert \in Seq(S) /\ e.insert \in Seq(S)
        BY <1>0, <1>2
      <3>2. InsertBoth(c, e, p)
        BY <3>1, InsertedByTwo
      <3> QED
        BY <1>1, <3>2 DEF InsertBoth
    <2>2. <<>> \o ins = ins /\ <<>> \o <<>> = <<>>
      BY <1>0, ConcatEmptySeq
    <2> QED
      BY <1>2, <2>1, <2>2
  <1>4. \A p \in Int : Dropped(cs, p) <=> f < p /\ p <= t
    <2> TAKE p \in Int
    <2>1. ~(f < p /\ p <= f)
      BY <1>0
    <2>2. Dropped(cs, p) <=> (c.from < p /\ p <= c.to) \/ (e.from < p /\ p <= e.to)
      BY <1>1 DEF Dropped
    <2> QED
      BY <1>2, <2>1, <2>2
  <1>6. OnePlace(cs, Len(d), f, t)
    BY <1>3, <1>4 DEF OnePlace
  <1>7. Edited(d, cs) = Splice(d, f, t, InsertedAt(cs, f))
    BY <1>1, <1>6, EditedAtOnePlace
  <1> QED
    BY <1>1, <1>3, <1>7

TwiceSpliced(d, n, f, t, i, g, u, j) ==
    (((Part(d, 0, f) \o i) \o Part(d, t, g)) \o j) \o Part(d, u, n)
    = Splice(Splice(d, f, t, i), g, u, j)

LEMMA Lengths ==
    ASSUME NEW S, NEW x \in Seq(S), NEW y \in Seq(S)
    PROVE  x \o y \in Seq(S) /\ Len(x \o y) = Len(x) + Len(y)
  BY ConcatProperties

Keeps(w, d, x, t, g) ==
    /\ Len(w) = Len(d)
    /\ Part(w, 0, g) = x \o Part(d, t, g)
    /\ Part(w, g, Len(d)) = Part(d, g, Len(d))

(* A document of which the part up to t was replaced by x, of the same     *)
(* length.                                                                 *)
LEMMA SamePlaces ==
    ASSUME NEW S, NEW d \in Seq(S), NEW x \in Seq(S), NEW t, NEW g,
           Stretch(t, g, Len(d)), Len(x) = t, NEW w, w = x \o Part(d, t, Len(d))
    PROVE  Keeps(w, d, x, t, g)
  <1>0. Len(d) \in Nat /\ t \in 0..Len(d) /\ g \in t..Len(d) /\ g \in 0..Len(d)
    <2>1. Len(d) \in Nat /\ t \in 0..Len(d) /\ g \in t..Len(d)
      BY DEF Stretch
    <2> QED
      BY <2>1
  <1>1. Stretch(g, Len(d), Len(d))
    BY <1>0 DEF Stretch
  <1>2. PICK p : p = Part(d, t, g) /\ p \in Seq(S) /\ Len(p) = g - t
    <2>1. IsPart(Part(d, t, g), d, t, g, S)
      BY PartType
    <2> QED
      BY <2>1 DEF IsPart
  <1>3. PICK q : q = Part(d, g, Len(d)) /\ q \in Seq(S) /\ Len(q) = Len(d) - g
    <2>1. IsPart(Part(d, g, Len(d)), d, g, Len(d), S)
      BY <1>1, PartType
    <2> QED
      BY <2>1 DEF IsPart
  <1>4. p \o q = Part(d, t, Len(d))
    <2>1. PartsJoin(d, t, g, Len(d))
      BY <1>1, JoinedParts
    <2> QED
      BY <1>2, <1>3, <2>1 DEF PartsJoin
  <1>5. p \in Seq(S) /\ q \in Seq(S)
    BY <1>2, <1>3
  <1>6. PICK y : y = x \o p /\ y \in Seq(S) /\ Len(y) = Len(x) + Len(p)
    BY <1>5, Lengths
  <1>7. w = y \o q
    <2>1. (x \o p) \o q = x \o (p \o q)
      BY <1>5, Assoc
    <2> QED
      BY <1>4, <1>6, <2>1
  <1>8. Len(y) = g
    BY <1>0, <1>2, <1>6
  <1>9. w \in Seq(S) /\ Len(w) = Len(y) + Len(q)
    <2>1. y \in Seq(S)
      BY <1>6
    <2> QED
      BY <1>5, <1>7, <2>1, Lengths
  <1>10. Len(w) = Len(d)
    BY <1>0, <1>3, <1>8, <1>9
  <1>11. Falls(y, q)
    BY <1>5, <1>6, FallsApart
  <1>12. Part(w, 0, g) = y /\ Part(w, g, Len(d)) = q
    BY <1>7, <1>8, <1>10, <1>11 DEF Falls
  <1> QED
    BY <1>2, <1>3, <1>6, <1>10, <1>12 DEF Keeps

LEMMA SplicedTwice ==
    ASSUME NEW S, NEW d \in Seq(S), NEW n \in Nat, n = Len(d),
           NEW f \in 0..n, NEW t \in f..n, NEW g \in t + 1..n, NEW u \in g..n,
           NEW i \in Seq(S), NEW j \in Seq(S), Len(i) = t - f
    PROVE  TwiceSpliced(d, n, f, t, i, g, u, j)
  <1>1. PICK a : a = Part(d, 0, f) /\ a \in Seq(S) /\ Len(a) = f
    <2>1. Stretch(0, f, Len(d)) /\ f - 0 = f
      BY DEF Stretch
    <2>2. IsPart(Part(d, 0, f), d, 0, f, S)
      BY <2>1, PartType
    <2> QED
      BY <2>1, <2>2 DEF IsPart
  <1>2. PICK x : x = a \o i /\ x \in Seq(S) /\ Len(x) = t
    <2>1. a \o i \in Seq(S) /\ Len(a \o i) = Len(a) + Len(i)
      BY <1>1, Lengths
    <2>2. f + (t - f) = t
      OBVIOUS
    <2>3. Len(a \o i) = t
      BY <1>1, <2>1, <2>2
    <2> QED
      BY <2>1, <2>3
  <1>3. PICK w : w = x \o Part(d, t, n)
    OBVIOUS
  <1>4. w = Splice(d, f, t, i)
    BY <1>1, <1>2, <1>3 DEF Splice
  <1>5. Stretch(t, g, Len(d)) /\ Stretch(t, u, Len(d))
    BY DEF Stretch
  <1>6. Len(w) = n /\ Part(w, 0, g) = x \o Part(d, t, g) /\ Part(w, u, n) = Part(d, u, n)
    <2>1. Keeps(w, d, x, t, g) /\ Keeps(w, d, x, t, u)
      BY <1>2, <1>3, <1>5, SamePlaces
    <2> QED
      BY <2>1 DEF Keeps
  <1>7. Splice(w, g, u, j) = (Part(w, 0, g) \o j) \o Part(w, u, n)
    BY <1>6 DEF Splice
  <1> QED
    BY <1>1, <1>2, <1>4, <1>6, <1>7 DEF TwiceSpliced

(* Two changes of which the first keeps the length: the second has the     *)
(* same place in the document before as in the document after the first.   *)
EditedTwice(d, c, e) ==
    Edited(d, <<c, e>>) = Splice(Splice(d, c.from, c.to, c.insert), e.from, e.to, e.insert)

LEMMA TwoChanges ==
    ASSUME NEW S, NEW d \in Seq(S),
           NEW c \in [from : Int, to : Int, insert : Seq(S)],
           NEW e \in [from : Int, to : Int, insert : Seq(S)],
           0 <= c.from, c.from <= c.to, c.to < e.from, e.from <= e.to, e.to <= Len(d),
           Len(c.insert) = c.to - c.from
    PROVE  EditedTwice(d, c, e)
  <1>1. PICK cs : cs = <<c, e>> /\ cs \in Changes(S) /\ DOMAIN cs = {1, 2}
                  /\ cs[1] = c /\ cs[2] = e
    <2>1. PICK R : Changes(S) = Seq(R) /\ c \in R /\ e \in R
      BY DEF Changes
    <2>2. <<c, e>> \in Seq(R) /\ DOMAIN <<c, e>> = {1, 2} /\ <<c, e>>[1] = c /\ <<c, e>>[2] = e
      BY <2>1
    <2> QED
      BY <2>1, <2>2
  <1>2. PICK f \in Int, t \in Int, i \in Seq(S) : f = c.from /\ t = c.to /\ i = c.insert
    OBVIOUS
  <1>3. PICK g \in Int, u \in Int, j \in Seq(S) : g = e.from /\ u = e.to /\ j = e.insert
    OBVIOUS
  <1>4. 0 <= f /\ f <= t /\ t < g /\ g <= u /\ u <= Len(d) /\ Len(i) = t - f
    BY <1>2, <1>3
  <1>5. \A p \in Int : Dropped(cs, p) <=> (f < p /\ p <= t) \/ (g < p /\ p <= u)
    BY <1>1, <1>2, <1>3 DEF Dropped
  <1>6. ASSUME NEW p
        PROVE  InsertedAt(cs, p) = (IF f = p THEN i ELSE <<>>) \o (IF g = p THEN j ELSE <<>>)
    <2>1. InsertBoth(c, e, p)
      <3>1. c.insert \in Seq(S) /\ e.insert \in Seq(S)
        OBVIOUS
      <3> QED
        BY <3>1, InsertedByTwo
    <2> QED
      BY <1>1, <1>2, <1>3, <2>1 DEF InsertBoth
  <1>7. <<>> \o j = j /\ i \o <<>> = i /\ <<>> \o <<>> = <<>>
    <2>1. <<>> \in Seq(S)
      OBVIOUS
    <2> QED
      BY <2>1, ConcatEmptySeq
  <1>8. f # g
    BY <1>4
  <1>9. \A p : p # f /\ p # g => InsertedAt(cs, p) = <<>>
    BY <1>6, <1>7
  <1>10. InsertedAt(cs, f) = i /\ InsertedAt(cs, g) = j
    BY <1>6, <1>7, <1>8
  <1>11. PICK r : EditRun(r, d, cs, S)
    BY <1>1, EditRunExists
  <1>12. PICK n \in Nat : n = Len(d) /\ f \in 0..n /\ t \in f..n /\ g \in t + 1..n /\ u \in g..n
    BY <1>4
  <1>13. r[f] = Part(d, 0, f) \o i
    <2>1. \A p \in 0..f - 1 : InsertedAt(cs, p) = <<>>
      <3>1. \A p \in 0..f - 1 : p # f /\ p # g
        BY <1>4
      <3> QED
        BY <1>9, <3>1
    <2>2. \A p \in 1..f : ~Dropped(cs, p)
      <3>1. \A p \in 1..f : p \in Int /\ ~(f < p) /\ ~(g < p)
        BY <1>4
      <3> QED
        BY <1>5, <3>1
    <2>3. f \in 0..Len(d)
      BY <1>12
    <2>4. ClearBefore(cs, f)
      BY <2>1, <2>2 DEF ClearBefore
    <2>5. Begins(r, d, cs, f)
      BY <1>1, <1>11, <2>3, <2>4, RunToFirst
    <2> QED
      BY <1>10, <2>5 DEF Begins
  <1>14. r[t] = r[f]
    <2>1. AllDropped(cs, f, t)
      <3>1. \A p \in f + 1..t : p \in Int /\ f < p /\ p <= t /\ p # f /\ p # g
        BY <1>4
      <3> QED
        BY <1>5, <1>9, <3>1 DEF AllDropped
    <2>2. Stretch(f, t, Len(d))
      BY <1>12 DEF Stretch
    <2> QED
      BY <1>1, <1>11, <2>1, <2>2, RunDrops
  <1>15. r[g] = (r[t] \o Part(d, t, g)) \o j
    <2>1. Untouched(cs, t, g - 1)
      <3>1. \A p \in t + 1..g - 1 : p \in Int /\ ~(p <= t) /\ ~(g < p) /\ p # f /\ p # g
        BY <1>4
      <3> QED
        BY <1>5, <1>9, <3>1 DEF Untouched
    <2>2. ~Dropped(cs, g)
      BY <1>4, <1>5
    <2>3. t \in 0..Len(d) /\ g \in t + 1..Len(d)
      BY <1>12
    <2>4. ExtendsOnto(r, d, cs, t, g)
      BY <1>1, <1>11, <2>1, <2>2, <2>3, RunOnto
    <2> QED
      BY <1>10, <2>4 DEF ExtendsOnto
  <1>16. r[u] = r[g]
    <2>1. AllDropped(cs, g, u)
      <3>1. \A p \in g + 1..u : p \in Int /\ g < p /\ p <= u /\ p # f /\ p # g
        BY <1>4
      <3> QED
        BY <1>5, <1>9, <3>1 DEF AllDropped
    <2>2. Stretch(g, u, Len(d))
      BY <1>12 DEF Stretch
    <2> QED
      BY <1>1, <1>11, <2>1, <2>2, RunDrops
  <1>17. r[n] = r[u] \o Part(d, u, n)
    <2>1. Untouched(cs, u, n)
      <3>1. \A p \in u + 1..n : p \in Int /\ ~(p <= t) /\ ~(p <= u) /\ p # f /\ p # g
        BY <1>4
      <3> QED
        BY <1>5, <1>9, <3>1 DEF Untouched
    <2>2. Stretch(u, Len(d), Len(d))
      BY <1>12 DEF Stretch
    <2>3. Extends(r, d, u, Len(d))
      BY <1>1, <1>11, <1>12, <2>1, <2>2, RunKeeps
    <2> QED
      BY <1>12, <2>3 DEF Extends
  <1>18. Edited(d, cs) = (((Part(d, 0, f) \o i) \o Part(d, t, g)) \o j) \o Part(d, u, n)
    BY <1>11, <1>12, <1>13, <1>14, <1>15, <1>16, <1>17 DEF EditRun
  <1>19. Edited(d, cs) = Splice(Splice(d, f, t, i), g, u, j)
    <2>1. TwiceSpliced(d, n, f, t, i, g, u, j)
      BY <1>4, <1>12, SplicedTwice
    <2> QED
      BY <1>18, <2>1 DEF TwiceSpliced
  <1> QED
    BY <1>1, <1>2, <1>3, <1>19 DEF EditedTwice

-------------------------------------------------------------------------------
(* Y.Text.                                                                 *)

(* Where the items of a list are in the order. *)
Places(pos, d, o, V) ==
    /\ pos \in [1..Len(d) -> 1..Len(o)]
    /\ \A k \in 1..Len(d) : o[pos[k]] = d[k] /\ d[k] \in V
    /\ \A j, k \in 1..Len(d) : j < k => pos[j] < pos[k]
    /\ \A p \in 1..Len(o) : o[p] \in V => \E k \in 1..Len(d) : pos[k] = p

LEMMA PlacesOfList ==
    ASSUME NEW S, NEW o \in Seq(S), IsInjective(o), NEW V, NEW d \in Seq(S), ListsItems(d, o, V)
    PROVE  \E pos : Places(pos, d, o, V)
  <1>0. PICK n \in Nat : n = Len(o) /\ DOMAIN o = 1..n
    OBVIOUS
  <1>1. PICK m \in Nat : m = Len(d) /\ DOMAIN d = 1..m
    OBVIOUS
  <1>2. \A i, j \in 1..n : o[i] = o[j] => i = j
    BY <1>0 DEF IsInjective
  <1> DEFINE pos == [k \in 1..m |-> CHOOSE p \in 1..n : o[p] = d[k]]
  <1>3. ASSUME NEW k \in 1..m
        PROVE  pos[k] \in 1..n /\ o[pos[k]] = d[k] /\ d[k] \in V
    <2>1. d[k] \in V /\ \E p \in 1..n : o[p] = d[k]
      BY <1>0, <1>1 DEF ListsItems, ListsUpTo
    <2> QED
      BY <2>1
  <1>4. ASSUME NEW j \in 1..m, NEW k \in 1..m, j < k
        PROVE  pos[j] < pos[k]
    <2>1. BeforeIn(o, n, d[j], d[k])
      BY <1>0, <1>1, <1>4 DEF ListsItems, ListsUpTo
    <2>2. PICK p \in 1..n, q \in 1..n : p < q /\ o[p] = d[j] /\ o[q] = d[k]
      BY <2>1 DEF BeforeIn
    <2>3. pos[j] = p
      BY <1>2, <1>3, <2>2
    <2>4. pos[k] = q
      BY <1>2, <1>3, <2>2
    <2> QED
      BY <2>2, <2>3, <2>4
  <1>5. ASSUME NEW p \in 1..n, o[p] \in V
        PROVE  \E k \in 1..m : pos[k] = p
    <2>1. PICK k \in 1..m : d[k] = o[p]
      BY <1>0, <1>1, <1>5 DEF ListsItems, ListsUpTo
    <2>2. pos[k] = p
      BY <1>2, <1>3, <2>1
    <2> QED
      BY <2>2
  <1>6. pos \in [1..m -> 1..n]
    BY <1>3
  <1> HIDE DEF pos
  <1>7. Places(pos, d, o, V)
    BY <1>0, <1>1, <1>3, <1>4, <1>5, <1>6 DEF Places
  <1> QED
    BY <1>7

LEMMA ListOfPlaces ==
    ASSUME NEW S, NEW o \in Seq(S), NEW V, NEW d \in Seq(S), NEW pos, Places(pos, d, o, V)
    PROVE  ListsItems(d, o, V)
  <1>0. PICK n \in Nat : n = Len(o) /\ DOMAIN o = 1..n
    OBVIOUS
  <1>1. PICK m \in Nat : m = Len(d) /\ DOMAIN d = 1..m
    OBVIOUS
  <1>2. /\ pos \in [1..m -> 1..n]
        /\ \A k \in 1..m : o[pos[k]] = d[k] /\ d[k] \in V
        /\ \A j, k \in 1..m : j < k => pos[j] < pos[k]
        /\ \A p \in 1..n : o[p] \in V => \E k \in 1..m : pos[k] = p
    BY <1>0, <1>1 DEF Places
  <1>3. \A a \in DOMAIN d : d[a] \in V /\ \E p \in 1..n : o[p] = d[a]
    BY <1>1, <1>2
  <1>4. \A p \in 1..n : o[p] \in V => \E a \in DOMAIN d : d[a] = o[p]
    <2> TAKE p \in 1..n
    <2> HAVE o[p] \in V
    <2>1. PICK k \in 1..m : pos[k] = p
      BY <1>2
    <2> QED
      BY <1>1, <1>2, <2>1
  <1>5. \A a, b \in DOMAIN d : a < b => BeforeIn(o, n, d[a], d[b])
    <2> SUFFICES ASSUME NEW a \in 1..m, NEW b \in 1..m, a < b
                 PROVE  BeforeIn(o, n, d[a], d[b])
      BY <1>1
    <2>1. pos[a] \in 1..n /\ pos[b] \in 1..n /\ pos[a] < pos[b]
      BY <1>2
    <2>2. o[pos[a]] = d[a] /\ o[pos[b]] = d[b]
      BY <1>2
    <2> QED
      BY <2>1, <2>2 DEF BeforeIn
  <1> QED
    BY <1>0, <1>3, <1>4, <1>5 DEF ListsItems, ListsUpTo

LEMMA TextIsTheList ==
    ASSUME NEW S, NEW o \in Seq(S), IsInjective(o), NEW V, NEW d \in Seq(S), NEW pos,
           Places(pos, d, o, V)
    PROVE  d = Among(o, V)
  <1>1. ListsItems(d, o, V)
    BY ListOfPlaces
  <1>2. Among(o, V) \in Seq(S) /\ ListsItems(Among(o, V), o, V)
    BY AmongType, AmongLists
  <1> QED
    BY <1>1, <1>2, ListedOnce

LEMMA TextHasPlaces ==
    ASSUME NEW S, NEW o \in Seq(S), IsInjective(o), NEW V
    PROVE  Among(o, V) \in Seq(S) /\ \E pos : Places(pos, Among(o, V), o, V)
  <1>2. Among(o, V) \in Seq(S) /\ ListsItems(Among(o, V), o, V)
    BY AmongType, AmongLists
  <1> QED
    BY <1>2, PlacesOfList

(* What a splice has at each place. *)
IsSplice(w, d, f, t, ins, S) ==
    /\ w \in Seq(S) /\ Len(w) = f + Len(ins) + (Len(d) - t)
    /\ \A k \in 1..f : w[k] = d[k]
    /\ \A k \in 1..Len(ins) : w[f + k] = ins[k]
    /\ \A k \in 1..Len(d) - t : w[f + Len(ins) + k] = d[t + k]

IsConcat(w, x, y, S) ==
    /\ w \in Seq(S) /\ Len(w) = Len(x) + Len(y)
    /\ \A k \in 1..Len(x) + Len(y) : w[k] = IF k <= Len(x) THEN x[k] ELSE y[k - Len(x)]

LEMMA Concatenation ==
    ASSUME NEW S, NEW x \in Seq(S), NEW y \in Seq(S)
    PROVE  IsConcat(x \o y, x, y, S)
  BY ConcatProperties DEF IsConcat

LEMMA SplicePlaces ==
    ASSUME NEW S, NEW d \in Seq(S), NEW f, NEW t, Stretch(f, t, Len(d)), NEW ins \in Seq(S)
    PROVE  IsSplice(Splice(d, f, t, ins), d, f, t, ins, S)
  <1>0. PICK m \in Nat, l \in Nat : m = Len(d) /\ l = Len(ins)
    OBVIOUS
  <1>1. f \in 0..m /\ t \in f..m
    BY <1>0 DEF Stretch
  <1>2. PICK a : a = Part(d, 0, f) /\ a \in Seq(S) /\ Len(a) = f /\ \A k \in 1..f : a[k] = d[k]
    <2>1. Stretch(0, f, Len(d))
      BY <1>0, <1>1 DEF Stretch
    <2>2. IsPart(Part(d, 0, f), d, 0, f, S)
      BY <2>1, PartType
    <2>3. f - 0 = f /\ \A k \in 1..f : 0 + k = k
      BY <1>1
    <2> QED
      BY <2>2, <2>3 DEF IsPart
  <1>3. PICK b : b = Part(d, t, m) /\ b \in Seq(S) /\ Len(b) = m - t
                 /\ \A k \in 1..m - t : b[k] = d[t + k]
    <2>1. Stretch(t, m, Len(d))
      BY <1>0, <1>1 DEF Stretch
    <2>2. IsPart(Part(d, t, m), d, t, m, S)
      BY <2>1, PartType
    <2> QED
      BY <2>2 DEF IsPart
  <1>4. PICK x : x = a \o ins /\ x \in Seq(S) /\ Len(x) = f + l
                 /\ \A k \in 1..f + l : x[k] = IF k <= f THEN a[k] ELSE ins[k - f]
    <2>1. a \in Seq(S) /\ Len(a) = f
      BY <1>2
    <2>2. PICK x : x = a \o ins /\ IsConcat(x, a, ins, S)
      BY <2>1, Concatenation
    <2> QED
      BY <1>0, <2>1, <2>2 DEF IsConcat
  <1>5. PICK w : w = x \o b /\ w \in Seq(S) /\ Len(w) = (f + l) + (m - t)
           /\ \A k \in 1..(f + l) + (m - t) : w[k] = IF k <= f + l THEN x[k] ELSE b[k - (f + l)]
    <2>1. x \in Seq(S) /\ b \in Seq(S) /\ Len(x) = f + l /\ Len(b) = m - t
      BY <1>3, <1>4
    <2>2. PICK w : w = x \o b /\ IsConcat(w, x, b, S)
      BY <2>1, Concatenation
    <2> QED
      BY <2>1, <2>2 DEF IsConcat
  <1>6. \A k \in 1..f : w[k] = d[k]
    <2> TAKE k \in 1..f
    <2>1. k \in 1..(f + l) + (m - t) /\ k <= f + l /\ k \in 1..f + l /\ k <= f
      BY <1>1
    <2> QED
      BY <1>2, <1>4, <1>5, <2>1
  <1>7. \A k \in 1..l : w[f + k] = ins[k]
    <2> TAKE k \in 1..l
    <2>1. /\ f + k \in 1..(f + l) + (m - t) /\ f + k <= f + l /\ f + k \in 1..f + l
          /\ ~(f + k <= f) /\ (f + k) - f = k
      BY <1>1
    <2> QED
      BY <1>4, <1>5, <2>1
  <1>8. \A k \in 1..m - t : w[f + l + k] = d[t + k]
    <2> TAKE k \in 1..m - t
    <2>1. /\ f + l + k \in 1..(f + l) + (m - t) /\ ~(f + l + k <= f + l)
          /\ (f + l + k) - (f + l) = k
      BY <1>1
    <2> QED
      BY <1>3, <1>5, <2>1
  <1>9. w = Splice(d, f, t, ins)
    BY <1>0, <1>2, <1>3, <1>4, <1>5 DEF Splice
  <1>10. IsSplice(w, d, f, t, ins, S)
    BY <1>0, <1>5, <1>6, <1>7, <1>8 DEF IsSplice
  <1> QED
    BY <1>9, <1>10

LEMMA PartSet ==
    ASSUME NEW S, NEW d \in Seq(S), NEW a, NEW b, Stretch(a, b, Len(d))
    PROVE  ToSet(Part(d, a, b)) = {d[k] : k \in a + 1..b}
  <1>0. Len(d) \in Nat /\ a \in 0..Len(d) /\ b \in a..Len(d)
    BY DEF Stretch
  <1>1. PICK p : p = Part(d, a, b) /\ IsPart(p, d, a, b, S)
    BY PartType
  <1>2. DOMAIN p = 1..b - a /\ \A k \in 1..b - a : p[k] = d[a + k]
    BY <1>0, <1>1 DEF IsPart
  <1>3. ToSet(p) = {p[k] : k \in 1..b - a}
    BY <1>2 DEF ToSet
  <1>4. \A k \in 1..b - a : a + k \in a + 1..b
    BY <1>0
  <1>5. \A k \in a + 1..b : k - a \in 1..b - a /\ a + (k - a) = k
    BY <1>0
  <1>6. \A k \in a + 1..b : d[k] = p[k - a] /\ k - a \in 1..b - a
    BY <1>2, <1>5
  <1>7. {p[k] : k \in 1..b - a} = {d[k] : k \in a + 1..b}
    BY <1>2, <1>4, <1>6
  <1> QED
    BY <1>1, <1>3, <1>7

(* The text without a part of it. *)
LosesPart(o, V, d, f, t) == Splice(d, f, t, <<>>) = Among(o, V \ ToSet(Part(d, f, t)))

LEMMA DeletedText ==
    ASSUME NEW S, NEW o \in Seq(S), IsInjective(o), NEW V, NEW d \in Seq(S), NEW pos,
           Places(pos, d, o, V), NEW f, NEW t, Stretch(f, t, Len(d))
    PROVE  LosesPart(o, V, d, f, t)
  <1>0. PICK n \in Nat : n = Len(o) /\ DOMAIN o = 1..n
    OBVIOUS
  <1>1. PICK m \in Nat : m = Len(d) /\ f \in 0..m /\ t \in f..m
    BY DEF Stretch
  <1>2. /\ pos \in [1..m -> 1..n]
        /\ \A k \in 1..m : o[pos[k]] = d[k] /\ d[k] \in V
        /\ \A j, k \in 1..m : j < k => pos[j] < pos[k]
        /\ \A p \in 1..n : o[p] \in V => \E k \in 1..m : pos[k] = p
    BY <1>0, <1>1 DEF Places
  <1>3. \A i, j \in 1..n : o[i] = o[j] => i = j
    BY <1>0 DEF IsInjective
  <1>4. ASSUME NEW j \in 1..m, NEW k \in 1..m, d[j] = d[k] PROVE j = k
    <2>0. /\ pos[j] \in 1..n /\ pos[k] \in 1..n
          /\ o[pos[j]] = d[j] /\ o[pos[k]] = d[k]
      BY <1>2
    <2>1. pos[j] = pos[k] /\ pos[j] \in 1..n
      BY <1>3, <1>4, <2>0
    <2>2. ~(j < k) /\ ~(k < j)
      BY <1>2, <2>1
    <2> QED
      BY <2>2
  <1>5. PICK G : G = ToSet(Part(d, f, t)) /\ G = {d[k] : k \in f + 1..t}
    BY PartSet
  <1>6. PICK l \in Nat : l = t - f
    BY <1>1
  <1>7. PICK w : w = Splice(d, f, t, <<>>) /\ IsSplice(w, d, f, t, <<>>, S)
    <2>1. <<>> \in Seq(S)
      OBVIOUS
    <2> QED
      BY <2>1, SplicePlaces
  <1>8. /\ w \in Seq(S) /\ Len(w) = m - l
        /\ \A k \in 1..f : w[k] = d[k]
        /\ \A k \in f + 1..m - l : w[k] = d[k + l]
    <2>1. /\ w \in Seq(S) /\ Len(w) = f + 0 + (m - t)
          /\ \A k \in 1..f : w[k] = d[k]
          /\ \A k \in 1..m - t : w[f + 0 + k] = d[t + k]
      BY <1>1, <1>7 DEF IsSplice
    <2>2. \A k \in f + 1..m - l : k - f \in 1..m - t /\ f + 0 + (k - f) = k /\ t + (k - f) = k + l
      BY <1>1, <1>6
    <2>3. f + 0 + (m - t) = m - l
      BY <1>1, <1>6
    <2>4. \A k \in f + 1..m - l : w[k] = d[k + l]
      BY <2>1, <2>2
    <2> QED
      BY <2>1, <2>3, <2>4
  <1> DEFINE At(k) == IF k <= f THEN k ELSE k + l
             q == [k \in 1..m - l |-> pos[At(k)]]
  <1>9. \A k \in 1..m - l : At(k) \in 1..m /\ At(k) \notin f + 1..t /\ w[k] = d[At(k)]
    <2> TAKE k \in 1..m - l
    <2>1. CASE k <= f
      <3>1. k \in 1..f /\ k \in 1..m /\ k \notin f + 1..t
        BY <1>1, <2>1
      <3> QED
        BY <1>8, <2>1, <3>1
    <2>2. CASE ~(k <= f)
      <3>1. k \in f + 1..m - l /\ k + l \in 1..m /\ k + l \notin f + 1..t
        BY <1>1, <1>6, <2>2
      <3> QED
        BY <1>8, <2>2, <3>1
    <2> QED
      BY <2>1, <2>2
  <1>10. \A j, k \in 1..m - l : j < k => At(j) < At(k)
    BY <1>1
  <1>11. \A k \in 1..m : k \notin f + 1..t => \E j \in 1..m - l : At(j) = k
    <2> TAKE k \in 1..m
    <2> HAVE k \notin f + 1..t
    <2>1. CASE k <= f
      <3>1. k \in 1..m - l
        BY <1>1, <1>6, <2>1
      <3> QED
        BY <2>1, <3>1
    <2>2. CASE ~(k <= f)
      <3>1. k - l \in 1..m - l /\ ~(k - l <= f) /\ (k - l) + l = k
        BY <1>1, <1>6, <2>2
      <3> QED
        BY <3>1
    <2> QED
      BY <2>1, <2>2
  <1> HIDE DEF At
  <1>12. q \in [1..m - l -> 1..n]
    BY <1>2, <1>9
  <1>13. ASSUME NEW k \in 1..m - l
         PROVE  o[q[k]] = w[k] /\ w[k] \in V \ G
    <2>1. At(k) \in 1..m /\ At(k) \notin f + 1..t /\ w[k] = d[At(k)]
      BY <1>9
    <2>2. o[q[k]] = w[k] /\ w[k] \in V
      BY <1>2, <2>1
    <2>3. w[k] \notin G
      <3> SUFFICES ASSUME w[k] \in G PROVE FALSE
        OBVIOUS
      <3>1. PICK j \in f + 1..t : w[k] = d[j]
        BY <1>5
      <3>2. j \in 1..m
        BY <1>1
      <3> QED
        BY <1>4, <2>1, <3>1, <3>2
    <2> QED
      BY <2>2, <2>3
  <1>14. ASSUME NEW j \in 1..m - l, NEW k \in 1..m - l, j < k
         PROVE  q[j] < q[k]
    <2>1. At(j) \in 1..m /\ At(k) \in 1..m /\ At(j) < At(k)
      BY <1>9, <1>10, <1>14
    <2> QED
      BY <1>2, <2>1
  <1>15. ASSUME NEW p \in 1..n, o[p] \in V \ G
         PROVE  \E k \in 1..m - l : q[k] = p
    <2>1. PICK k \in 1..m : pos[k] = p
      BY <1>2, <1>15
    <2>2. k \notin f + 1..t
      BY <1>2, <1>5, <1>15, <2>1
    <2>3. PICK j \in 1..m - l : At(j) = k
      BY <1>11, <2>2
    <2>4. q[j] = p
      BY <2>1, <2>3
    <2> QED
      BY <2>4
  <1> HIDE DEF q
  <1>16. Places(q, w, o, V \ G)
    BY <1>0, <1>8, <1>12, <1>13, <1>14, <1>15 DEF Places
  <1>17. w = Among(o, V \ G)
    <2>1. w \in Seq(S)
      BY <1>8
    <2> QED
      BY <1>16, <2>1, TextIsTheList
  <1> QED
    BY <1>5, <1>7, <1>17 DEF LosesPart

(* New items in the order: where they are, and where the others are then. *)
Widened(w, o, at, ins, S) ==
    /\ w \in Seq(S) /\ Len(w) = Len(o) + Len(ins)
    /\ \A p \in 1..at : w[p] = o[p]
    /\ \A p \in at + 1..Len(o) : w[p + Len(ins)] = o[p]
    /\ \A k \in 1..Len(ins) : w[at + k] = ins[k]
    /\ \A p \in 1..Len(o) + Len(ins) :
          \/ p \in 1..at
          \/ \E k \in 1..Len(ins) : p = at + k
          \/ \E j \in at + 1..Len(o) : p = j + Len(ins)

LEMMA WidenedOrder ==
    ASSUME NEW S, NEW o \in Seq(S), NEW ins \in Seq(S), NEW at \in 0..Len(o)
    PROVE  Widened(Splice(o, at, at, ins), o, at, ins, S)
  <1>0. PICK n \in Nat, l \in Nat : n = Len(o) /\ l = Len(ins) /\ at \in 0..n
    OBVIOUS
  <1>1. Stretch(at, at, Len(o))
    BY <1>0 DEF Stretch
  <1>2. PICK w : w = Splice(o, at, at, ins) /\ IsSplice(w, o, at, at, ins, S)
    BY <1>1, SplicePlaces
  <1>3. /\ w \in Seq(S) /\ Len(w) = at + l + (n - at)
        /\ \A k \in 1..at : w[k] = o[k]
        /\ \A k \in 1..l : w[at + k] = ins[k]
        /\ \A k \in 1..n - at : w[at + l + k] = o[at + k]
    BY <1>0, <1>2 DEF IsSplice
  <1>4. at + l + (n - at) = n + l
    BY <1>0
  <1>5. \A p \in at + 1..n : p - at \in 1..n - at /\ at + l + (p - at) = p + l /\ at + (p - at) = p
    BY <1>0
  <1>6. \A p \in at + 1..n : w[p + l] = o[p]
    BY <1>3, <1>5
  <1>7. ASSUME NEW p \in 1..n + l
        PROVE  \/ p \in 1..at
               \/ \E k \in 1..l : p = at + k
               \/ \E j \in at + 1..n : p = j + l
    <2>1. CASE p <= at
      BY <1>0, <2>1
    <2>2. CASE at < p /\ p <= at + l
      <3>1. p - at \in 1..l /\ p = at + (p - at)
        BY <1>0, <2>2
      <3> QED
        BY <3>1
    <2>3. CASE at + l < p
      <3>1. p - l \in at + 1..n /\ p = (p - l) + l
        BY <1>0, <2>3
      <3> QED
        BY <3>1
    <2> QED
      BY <1>0, <2>1, <2>2, <2>3
  <1> QED
    BY <1>0, <1>2, <1>3, <1>4, <1>6, <1>7 DEF Widened

LEMMA WidenedInjective ==
    ASSUME NEW S, NEW o \in Seq(S), IsInjective(o), NEW ins \in Seq(S), IsInjective(ins),
           NEW at \in 0..Len(o), ToSet(ins) \cap ToSet(o) = {},
           NEW w, Widened(w, o, at, ins, S)
    PROVE  IsInjective(w) /\ ToSet(w) = ToSet(o) \cup ToSet(ins)
  <1>0. PICK n \in Nat, l \in Nat : /\ n = Len(o) /\ l = Len(ins) /\ at \in 0..n
                                    /\ DOMAIN o = 1..n /\ DOMAIN ins = 1..l
    OBVIOUS
  <1>1. /\ DOMAIN w = 1..n + l
        /\ \A p \in 1..at : w[p] = o[p]
        /\ \A p \in at + 1..n : w[p + l] = o[p]
        /\ \A k \in 1..l : w[at + k] = ins[k]
    BY <1>0 DEF Widened
  <1>2. \A p \in 1..n + l : \/ p \in 1..at
                            \/ \E k \in 1..l : p = at + k
                            \/ \E j \in at + 1..n : p = j + l
    BY <1>0 DEF Widened
  <1>3. ToSet(o) = {o[p] : p \in 1..n} /\ ToSet(ins) = {ins[k] : k \in 1..l}
    BY <1>0 DEF ToSet
  <1>4. ToSet(w) = {w[p] : p \in 1..n + l}
    BY <1>1 DEF ToSet
  <1>5. \A j \in 1..n, k \in 1..l : o[j] # ins[k]
    BY <1>3
  <1>6. \A i, j \in 1..n : o[i] = o[j] => i = j
    BY <1>0 DEF IsInjective
  <1>7. \A i, j \in 1..l : ins[i] = ins[j] => i = j
    BY <1>0 DEF IsInjective
  <1>8. \A p \in 1..at : p \in 1..n
    BY <1>0
  <1>9. \A p \in at + 1..n : p \in 1..n /\ p \notin 1..at
    BY <1>0
  <1>10. ASSUME NEW p \in 1..n + l
         PROVE  \/ \E i \in 1..n : /\ w[p] = o[i]
                                   /\ p = IF i <= at THEN i ELSE i + l
                \/ \E k \in 1..l : p = at + k /\ w[p] = ins[k]
    <2>1. CASE p \in 1..at
      BY <1>1, <1>8, <2>1
    <2>2. CASE \E k \in 1..l : p = at + k
      BY <1>1, <2>2
    <2>3. CASE \E j \in at + 1..n : p = j + l
      <3>1. PICK j \in at + 1..n : p = j + l
        BY <2>3
      <3>2. j \in 1..n /\ ~(j <= at) /\ w[p] = o[j]
        BY <1>0, <1>1, <3>1
      <3> QED
        BY <3>1, <3>2
    <2> QED
      BY <1>2, <2>1, <2>2, <2>3
  <1>11. IsInjective(w)
    <2> SUFFICES ASSUME NEW p \in 1..n + l, NEW q \in 1..n + l, w[p] = w[q]
                 PROVE  p = q
      BY <1>1 DEF IsInjective
    <2>1. CASE \E i \in 1..n : w[p] = o[i] /\ p = IF i <= at THEN i ELSE i + l
      <3>1. PICK i \in 1..n : w[p] = o[i] /\ p = IF i <= at THEN i ELSE i + l
        BY <2>1
      <3>2. \E j \in 1..n : w[q] = o[j] /\ q = IF j <= at THEN j ELSE j + l
        BY <1>5, <1>10, <3>1
      <3>3. PICK j \in 1..n : w[q] = o[j] /\ q = IF j <= at THEN j ELSE j + l
        BY <3>2
      <3>4. i = j
        BY <1>6, <3>1, <3>3
      <3> QED
        BY <3>1, <3>3, <3>4
    <2>2. CASE \E k \in 1..l : p = at + k /\ w[p] = ins[k]
      <3>1. PICK k \in 1..l : p = at + k /\ w[p] = ins[k]
        BY <2>2
      <3>2. PICK j \in 1..l : q = at + j /\ w[q] = ins[j]
        BY <1>5, <1>10, <3>1
      <3>3. j = k
        BY <1>7, <3>1, <3>2
      <3> QED
        BY <3>1, <3>2, <3>3
    <2> QED
      BY <1>10, <2>1, <2>2
  <1>12. \A i \in 1..n : \E p \in 1..n + l : w[p] = o[i]
    <2> TAKE i \in 1..n
    <2>1. CASE i <= at
      <3>1. i \in 1..at /\ i \in 1..n + l
        BY <1>0, <2>1
      <3> QED
        BY <1>1, <3>1
    <2>2. CASE ~(i <= at)
      <3>1. i \in at + 1..n /\ i + l \in 1..n + l
        BY <1>0, <2>2
      <3> QED
        BY <1>1, <3>1
    <2> QED
      BY <2>1, <2>2
  <1>13. \A k \in 1..l : \E p \in 1..n + l : w[p] = ins[k]
    <2> TAKE k \in 1..l
    <2>1. at + k \in 1..n + l
      BY <1>0
    <2> QED
      BY <1>1, <2>1
  <1>14. ToSet(w) \subseteq ToSet(o) \cup ToSet(ins)
    BY <1>3, <1>4, <1>10
  <1>15. ToSet(o) \subseteq ToSet(w)
    BY <1>3, <1>4, <1>12
  <1>16. ToSet(ins) \subseteq ToSet(w)
    BY <1>3, <1>4, <1>13
  <1> QED
    BY <1>11, <1>14, <1>15, <1>16

(* A replica that has not the new items has the same text. *)
LEMMA UnseenItems ==
    ASSUME NEW S, NEW o \in Seq(S), IsInjective(o), NEW ins \in Seq(S),
           NEW at \in 0..Len(o), NEW V, ToSet(ins) \cap V = {},
           NEW w, Widened(w, o, at, ins, S), IsInjective(w)
    PROVE  Among(w, V) = Among(o, V)
  <1>0. PICK n \in Nat, l \in Nat : /\ n = Len(o) /\ l = Len(ins) /\ at \in 0..n
                                    /\ DOMAIN o = 1..n /\ DOMAIN ins = 1..l
    OBVIOUS
  <1>1. /\ w \in Seq(S) /\ Len(w) = n + l
        /\ \A p \in 1..at : w[p] = o[p]
        /\ \A p \in at + 1..n : w[p + l] = o[p]
        /\ \A k \in 1..l : w[at + k] = ins[k]
    BY <1>0 DEF Widened
  <1>2. \A p \in 1..n + l : \/ p \in 1..at
                            \/ \E k \in 1..l : p = at + k
                            \/ \E j \in at + 1..n : p = j + l
    BY <1>0 DEF Widened
  <1>3. PICK d \in Seq(S) : d = Among(o, V) /\ \E pos : Places(pos, d, o, V)
    BY TextHasPlaces
  <1>4. PICK pos : Places(pos, d, o, V)
    BY <1>3
  <1>5. PICK m \in Nat : m = Len(d)
    OBVIOUS
  <1>6. /\ pos \in [1..m -> 1..n]
        /\ \A k \in 1..m : o[pos[k]] = d[k] /\ d[k] \in V
        /\ \A j, k \in 1..m : j < k => pos[j] < pos[k]
        /\ \A p \in 1..n : o[p] \in V => \E k \in 1..m : pos[k] = p
    BY <1>0, <1>4, <1>5 DEF Places
  <1> DEFINE To(p) == IF p <= at THEN p ELSE p + l
             q == [k \in 1..m |-> To(pos[k])]
  <1>7. ASSUME NEW p \in 1..n PROVE To(p) \in 1..n + l /\ w[To(p)] = o[p]
    <2>1. CASE p <= at
      <3>1. p \in 1..at /\ p \in 1..n + l
        BY <1>0, <2>1
      <3> QED
        BY <1>1, <2>1, <3>1
    <2>2. CASE ~(p <= at)
      <3>1. p \in at + 1..n /\ p + l \in 1..n + l
        BY <1>0, <2>2
      <3> QED
        BY <1>1, <2>2, <3>1
    <2> QED
      BY <2>1, <2>2
  <1>8. \A i, j \in 1..n : i < j => To(i) < To(j)
    BY <1>0
  <1>9. ASSUME NEW p \in 1..n + l, w[p] \in V
        PROVE  \E i \in 1..n : To(i) = p
    <2>1. CASE p \in 1..at
      <3>1. p \in 1..n /\ p <= at
        BY <1>0, <2>1
      <3> QED
        BY <3>1
    <2>2. CASE \E k \in 1..l : p = at + k
      <3>1. w[p] \in ToSet(ins)
        BY <1>0, <1>1, <2>2 DEF ToSet
      <3> QED
        BY <1>9, <3>1
    <2>3. CASE \E j \in at + 1..n : p = j + l
      <3>1. PICK j \in at + 1..n : p = j + l
        BY <2>3
      <3>2. j \in 1..n /\ ~(j <= at)
        BY <1>0
      <3> QED
        BY <3>1, <3>2
    <2> QED
      BY <1>2, <2>1, <2>2, <2>3
  <1> HIDE DEF To
  <1>10. q \in [1..m -> 1..n + l]
    BY <1>6, <1>7
  <1>11. \A k \in 1..m : w[q[k]] = d[k] /\ d[k] \in V
    BY <1>6, <1>7
  <1>12. ASSUME NEW j \in 1..m, NEW k \in 1..m, j < k PROVE q[j] < q[k]
    <2>1. pos[j] \in 1..n /\ pos[k] \in 1..n /\ pos[j] < pos[k]
      BY <1>6, <1>12
    <2> QED
      BY <1>8, <2>1
  <1>13. ASSUME NEW p \in 1..n + l, w[p] \in V PROVE \E k \in 1..m : q[k] = p
    <2>1. PICK i \in 1..n : To(i) = p
      BY <1>9, <1>13
    <2>2. o[i] \in V
      BY <1>7, <1>13, <2>1
    <2>3. PICK k \in 1..m : pos[k] = i
      BY <1>6, <2>2
    <2> QED
      BY <2>1, <2>3
  <1> HIDE DEF q
  <1>14. Places(q, d, w, V)
    BY <1>1, <1>5, <1>10, <1>11, <1>12, <1>13 DEF Places
  <1>15. d = Among(w, V)
    BY <1>1, <1>14, TextIsTheList
  <1> QED
    BY <1>3, <1>15

(* The place "at" in the order lies between two characters of the text. *)
Between(at, f, pos, m) ==
    \A k \in 1..m : IF k <= f THEN pos[k] <= at ELSE at < pos[k]

(* A replica that has the new items has them after f. *)
GainsItems(w, V, d, f, ins) == Among(w, V \cup ToSet(ins)) = Splice(d, f, f, ins)

LEMMA SeenItems ==
    ASSUME NEW S, NEW o \in Seq(S), IsInjective(o), NEW ins \in Seq(S),
           NEW at \in 0..Len(o), NEW V, NEW d \in Seq(S), NEW pos, Places(pos, d, o, V),
           ToSet(ins) \cap ToSet(o) = {}, NEW f \in 0..Len(d), Between(at, f, pos, Len(d)),
           NEW w, Widened(w, o, at, ins, S), IsInjective(w)
    PROVE  GainsItems(w, V, d, f, ins)
  <1>0. PICK n \in Nat, l \in Nat : /\ n = Len(o) /\ l = Len(ins) /\ at \in 0..n
                                    /\ DOMAIN o = 1..n /\ DOMAIN ins = 1..l
    OBVIOUS
  <1>1. /\ w \in Seq(S) /\ Len(w) = n + l
        /\ \A p \in 1..at : w[p] = o[p]
        /\ \A p \in at + 1..n : w[p + l] = o[p]
        /\ \A k \in 1..l : w[at + k] = ins[k]
    BY <1>0 DEF Widened
  <1>2. \A p \in 1..n + l : \/ p \in 1..at
                            \/ \E k \in 1..l : p = at + k
                            \/ \E j \in at + 1..n : p = j + l
    BY <1>0 DEF Widened
  <1>3. PICK m \in Nat : m = Len(d) /\ f \in 0..m
    OBVIOUS
  <1>4. /\ pos \in [1..m -> 1..n]
        /\ \A k \in 1..m : o[pos[k]] = d[k] /\ d[k] \in V
        /\ \A j, k \in 1..m : j < k => pos[j] < pos[k]
        /\ \A p \in 1..n : o[p] \in V => \E k \in 1..m : pos[k] = p
    BY <1>0, <1>3 DEF Places
  <1>5. \A k \in 1..m : IF k <= f THEN pos[k] <= at ELSE at < pos[k]
    BY <1>3 DEF Between
  <1>6. PICK G : G = ToSet(ins) /\ G = {ins[k] : k \in 1..l}
    BY <1>0 DEF ToSet
  <1>7. \A p \in 1..n : o[p] \notin G
    BY <1>0, <1>6 DEF ToSet
  <1>8. PICK e : e = Splice(d, f, f, ins) /\ Widened(e, d, f, ins, S)
    BY WidenedOrder
  <1>9. /\ e \in Seq(S) /\ Len(e) = m + l
        /\ \A p \in 1..f : e[p] = d[p]
        /\ \A p \in f + 1..m : e[p + l] = d[p]
        /\ \A k \in 1..l : e[f + k] = ins[k]
    BY <1>0, <1>3, <1>8 DEF Widened
  <1> DEFINE To(k) == IF k <= f THEN pos[k]
                      ELSE IF k <= f + l THEN at + (k - f) ELSE pos[k - l] + l
             q == [k \in 1..m + l |-> To(k)]
  <1>10. ASSUME NEW k \in 1..m, k <= f
         PROVE  To(k) = pos[k] /\ pos[k] \in 1..at /\ e[k] = d[k] /\ w[pos[k]] = d[k]
    <2>1. k \in 1..f /\ pos[k] \in 1..n /\ pos[k] <= at
      BY <1>3, <1>4, <1>5, <1>10
    <2>2. pos[k] \in 1..at
      BY <1>0, <2>1
    <2> QED
      BY <1>1, <1>4, <1>9, <1>10, <2>1, <2>2
  <1>11. ASSUME NEW k \in 1..l
         PROVE  To(f + k) = at + k /\ e[f + k] = ins[k] /\ w[at + k] = ins[k]
    <2>1. ~(f + k <= f) /\ f + k <= f + l /\ (f + k) - f = k
      BY <1>0, <1>3
    <2> QED
      BY <1>1, <1>9, <2>1
  <1>12. ASSUME NEW k \in 1..m, ~(k <= f)
         PROVE  To(k + l) = pos[k] + l /\ pos[k] \in at + 1..n /\ e[k + l] = d[k] /\ w[pos[k] + l] = d[k]
    <2>0. k \in f + 1..m
      BY <1>3, <1>12
    <2>1. k \in f + 1..m /\ pos[k] \in 1..n /\ at < pos[k]
      BY <1>4, <1>5, <1>12, <2>0
    <2>2. pos[k] \in at + 1..n
      BY <1>0, <2>1
    <2>3. ~(k + l <= f) /\ ~(k + l <= f + l) /\ (k + l) - l = k
      BY <1>0, <1>3, <1>12
    <2> QED
      BY <1>1, <1>4, <1>9, <2>1, <2>2, <2>3
  <1>13. ASSUME NEW k \in 1..m + l
         PROVE  \/ k \in 1..m /\ k <= f
                \/ \E j \in 1..l : k = f + j
                \/ \E j \in 1..m : ~(j <= f) /\ k = j + l
    <2>1. CASE k <= f
      BY <1>3, <2>1
    <2>2. CASE f < k /\ k <= f + l
      <3>1. k - f \in 1..l /\ k = f + (k - f)
        BY <1>0, <1>3, <2>2
      <3> QED
        BY <3>1
    <2>3. CASE f + l < k
      <3>1. k - l \in 1..m /\ ~(k - l <= f) /\ k = (k - l) + l
        BY <1>0, <1>3, <2>3
      <3> QED
        BY <3>1
    <2> QED
      BY <1>0, <1>3, <2>1, <2>2, <2>3
  <1> HIDE DEF To
  <1>14. ASSUME NEW k \in 1..m + l
         PROVE  To(k) \in 1..n + l /\ w[To(k)] = e[k] /\ e[k] \in V \cup G
    <2>1. CASE k \in 1..m /\ k <= f
      <3>1. pos[k] \in 1..n + l
        BY <1>0, <1>10, <2>1
      <3> QED
        BY <1>4, <1>10, <2>1, <3>1
    <2>2. CASE \E j \in 1..l : k = f + j
      <3>1. PICK j \in 1..l : k = f + j
        BY <2>2
      <3>2. at + j \in 1..n + l
        BY <1>0
      <3> QED
        BY <1>6, <1>11, <3>1, <3>2
    <2>3. CASE \E j \in 1..m : ~(j <= f) /\ k = j + l
      <3>1. PICK j \in 1..m : ~(j <= f) /\ k = j + l
        BY <2>3
      <3>2. pos[j] + l \in 1..n + l
        BY <1>0, <1>12, <3>1
      <3> QED
        BY <1>4, <1>12, <3>1, <3>2
    <2> QED
      BY <1>13, <2>1, <2>2, <2>3
  <1>15. ASSUME NEW i \in 1..m + l, NEW k \in 1..m + l, i < k
         PROVE  To(i) < To(k)
    <2>1. CASE i \in 1..m /\ i <= f
      <3>1. To(i) = pos[i] /\ pos[i] \in 1..at
        BY <1>10, <2>1
      <3>2. CASE k \in 1..m /\ k <= f
        BY <1>4, <1>10, <1>15, <2>1, <3>1, <3>2
      <3>3. CASE \E j \in 1..l : k = f + j
        BY <1>0, <1>11, <3>1, <3>3
      <3>4. CASE \E j \in 1..m : ~(j <= f) /\ k = j + l
        <4>1. PICK j \in 1..m : ~(j <= f) /\ k = j + l
          BY <3>4
        <4>2. To(k) = pos[j] + l /\ pos[j] \in at + 1..n
          BY <1>12, <4>1
        <4> QED
          BY <1>0, <3>1, <4>2
      <3> QED
        BY <1>13, <3>2, <3>3, <3>4
    <2>2. CASE \E j \in 1..l : i = f + j
      <3>1. PICK h \in 1..l : i = f + h
        BY <2>2
      <3>2. To(i) = at + h
        BY <1>11, <3>1
      <3>3. ~(k <= f)
        BY <1>0, <1>3, <1>15, <3>1
      <3>4. CASE \E j \in 1..l : k = f + j
        BY <1>0, <1>3, <1>11, <1>15, <3>1, <3>2, <3>4
      <3>5. CASE \E j \in 1..m : ~(j <= f) /\ k = j + l
        <4>1. PICK j \in 1..m : ~(j <= f) /\ k = j + l
          BY <3>5
        <4>2. To(k) = pos[j] + l /\ pos[j] \in at + 1..n
          BY <1>12, <4>1
        <4> QED
          BY <1>0, <3>2, <4>2
      <3> QED
        BY <1>13, <3>3, <3>4, <3>5
    <2>3. CASE \E j \in 1..m : ~(j <= f) /\ i = j + l
      <3>1. PICK h \in 1..m : ~(h <= f) /\ i = h + l
        BY <2>3
      <3>2. To(i) = pos[h] + l
        BY <1>12, <3>1
      <3>3. \E j \in 1..m : ~(j <= f) /\ k = j + l
        <4>1. ~(k <= f) /\ \A j \in 1..l : k # f + j
          BY <1>0, <1>3, <1>15, <3>1
        <4> QED
          BY <1>13, <4>1
      <3>4. PICK j \in 1..m : ~(j <= f) /\ k = j + l
        BY <3>3
      <3>5. h < j
        BY <1>0, <1>15, <3>1, <3>4
      <3>6. pos[h] < pos[j] /\ pos[h] \in 1..n /\ pos[j] \in 1..n
        BY <1>4, <3>5
      <3>7. To(k) = pos[j] + l
        BY <1>12, <3>4
      <3> QED
        BY <1>0, <3>2, <3>6, <3>7
    <2> QED
      BY <1>13, <2>1, <2>2, <2>3
  <1>16. ASSUME NEW p \in 1..n + l, w[p] \in V \cup G
         PROVE  \E k \in 1..m + l : To(k) = p
    <2>1. CASE p \in 1..at
      <3>1. p \in 1..n /\ w[p] = o[p] /\ o[p] \in V
        <4>1. p \in 1..n
          BY <1>0, <2>1
        <4> QED
          BY <1>1, <1>7, <1>16, <2>1, <4>1
      <3>2. PICK k \in 1..m : pos[k] = p
        BY <1>4, <3>1
      <3>3. k <= f
        <4>1. ~(at < pos[k])
          BY <1>0, <2>1, <3>2
        <4> QED
          BY <1>5, <4>1
      <3>4. k \in 1..m + l
        BY <1>0
      <3> QED
        BY <1>10, <3>2, <3>3, <3>4
    <2>2. CASE \E k \in 1..l : p = at + k
      <3>1. PICK k \in 1..l : p = at + k
        BY <2>2
      <3>2. f + k \in 1..m + l
        BY <1>0, <1>3
      <3> QED
        BY <1>11, <3>1, <3>2
    <2>3. CASE \E j \in at + 1..n : p = j + l
      <3>1. PICK j \in at + 1..n : p = j + l
        BY <2>3
      <3>2. j \in 1..n /\ w[p] = o[j] /\ o[j] \in V
        <4>1. j \in 1..n
          BY <1>0
        <4>2. w[p] = o[j]
          BY <1>1, <3>1
        <4> QED
          BY <1>7, <1>16, <4>1, <4>2
      <3>3. PICK k \in 1..m : pos[k] = j
        BY <1>4, <3>2
      <3>4. ~(k <= f)
        <4>1. ~(pos[k] <= at)
          BY <1>0, <3>1, <3>3
        <4> QED
          BY <1>5, <4>1
      <3>5. k + l \in 1..m + l
        BY <1>0
      <3> QED
        BY <1>12, <3>1, <3>3, <3>4, <3>5
    <2> QED
      BY <1>2, <2>1, <2>2, <2>3
  <1>17. /\ q \in [1..m + l -> 1..n + l]
         /\ \A k \in 1..m + l : w[q[k]] = e[k] /\ e[k] \in V \cup G
    BY <1>14
  <1>18. /\ \A j, k \in 1..m + l : j < k => q[j] < q[k]
         /\ \A p \in 1..n + l : w[p] \in V \cup G => \E k \in 1..m + l : q[k] = p
    BY <1>15, <1>16
  <1> HIDE DEF q
  <1>19. Places(q, e, w, V \cup G)
    BY <1>1, <1>9, <1>17, <1>18 DEF Places
  <1>20. e = Among(w, V \cup G)
    BY <1>1, <1>9, <1>19, TextIsTheList
  <1> QED
    BY <1>6, <1>8, <1>20 DEF GainsItems

(* What a replica is: an order without repetitions, and sets of its items. *)
Replicas == [order : Seq(Items), has : SUBSET Items, dead : SUBSET Items]

Sound(y) ==
    /\ y \in Replicas
    /\ IsInjective(y.order)
    /\ ToSet(y.order) = 1..Len(y.order)
    /\ y.has \subseteq ToSet(y.order)
    /\ y.dead \subseteq ToSet(y.order)

(* The characters typed: none, or the next item. *)
Typed(ins, n) == ins \in {<<>>, <<n + 1>>} /\ n + Len(ins) <= MaxItems

LEMMA TypedProperties ==
    ASSUME NEW n \in Nat, NEW ins, Typed(ins, n)
    PROVE  /\ ins \in Seq(Items) /\ IsInjective(ins) /\ Len(ins) \in Nat
           /\ ToSet(ins) = n + 1..n + Len(ins)
  <1>0. MaxItems \in Nat
    BY EditorAssumption
  <1>1. CASE ins = <<>>
    <2>1. Len(<<>>) = 0 /\ DOMAIN <<>> = {} /\ <<>> \in Seq(Items)
      OBVIOUS
    <2>2. n + 1..n + 0 = {}
      OBVIOUS
    <2> QED
      BY <1>1, <2>1, <2>2 DEF IsInjective, ToSet
  <1>2. CASE ins = <<n + 1>>
    <2>1. Len(ins) = 1 /\ DOMAIN ins = {1} /\ ins[1] = n + 1
      BY <1>2
    <2>2. n + 1 \in Items
      BY <1>0, <2>1 DEF Typed, Items
    <2>3. ins \in Seq(Items)
      BY <1>2, <2>2
    <2>4. n + 1..n + 1 = {n + 1}
      OBVIOUS
    <2>5. ToSet(ins) = {n + 1}
      BY <2>1 DEF ToSet
    <2>6. IsInjective(ins)
      BY <2>1 DEF IsInjective
    <2> QED
      BY <2>1, <2>3, <2>4, <2>5, <2>6
  <1> QED
    BY <1>1, <1>2 DEF Typed

LEMMA PlainTextType ==
    ASSUME NEW y, Sound(y)
    PROVE  /\ PlainText(y) \in Seq(Items)
           /\ \E pos : Places(pos, PlainText(y), y.order, y.has \ y.dead)
           /\ ToSet(PlainText(y)) \subseteq y.has
  <1>1. y.order \in Seq(Items) /\ IsInjective(y.order)
    BY DEF Sound, Replicas
  <1>2. PICK o, V : o = y.order /\ V = y.has \ y.dead /\ PlainText(y) = Among(o, V)
    BY DEF PlainText
  <1>3. Among(o, V) \in Seq(Items) /\ \E pos : Places(pos, Among(o, V), o, V)
    BY <1>1, <1>2, TextHasPlaces
  <1>4. PICK d, pos : d \in Seq(Items) /\ d = PlainText(y) /\ Places(pos, d, o, V)
    BY <1>2, <1>3
  <1>5. \A k \in 1..Len(d) : d[k] \in V
    BY <1>4 DEF Places
  <1>6. ToSet(d) \subseteq V
    BY <1>5 DEF ToSet
  <1> QED
    BY <1>2, <1>4, <1>6

LEMMA WithinBounds ==
    ASSUME NEW d \in Seq(Items), NEW p \in Int
    PROVE  Within(d, p) \in 0..Len(d) /\ (p \in 0..Len(d) => Within(d, p) = p)
  BY DEF Within

(* Deleted, for any position. *)
LEMMA DeletedReplica ==
    ASSUME NEW y, Sound(y), NEW from \in Int, NEW n \in Nat, NEW z, z = Deleted(y, from, n)
    PROVE  /\ Sound(z) /\ z.order = y.order /\ z.has = y.has
           /\ y.dead \subseteq z.dead
           /\ z.dead \ y.dead \subseteq y.has
  <1>1. PICK d : d = PlainText(y) /\ d \in Seq(Items) /\ ToSet(d) \subseteq y.has
    BY PlainTextType
  <1>2. PICK l : l = Within(d, from) /\ l \in 0..Len(d)
    BY <1>1, WithinBounds
  <1>3. PICK r : r = Within(d, l + n) /\ r \in l..Len(d)
    <2>1. l + n \in Int /\ l <= l + n /\ Len(d) \in Nat
      BY <1>1, <1>2
    <2> QED
      BY <1>2, <2>1 DEF Within
  <1>4. PICK G : G = ToSet(SubSeq(d, l + 1, r))
    OBVIOUS
  <1>5. G \subseteq y.has
    <2>1. Stretch(l, r, Len(d))
      BY <1>2, <1>3 DEF Stretch
    <2>2. G = {d[k] : k \in l + 1..r}
      BY <1>1, <1>4, <2>1, PartSet DEF Part
    <2>3. \A k \in l + 1..r : k \in DOMAIN d
      BY <1>1, <1>2, <1>3
    <2>4. G \subseteq ToSet(d)
      BY <2>2, <2>3 DEF ToSet
    <2> QED
      BY <1>1, <2>4
  <1>6. z = [y EXCEPT !.dead = @ \cup G]
    BY <1>1, <1>2, <1>3, <1>4 DEF Deleted
  <1>7. y \in Replicas
    BY DEF Sound
  <1>8. z.order = y.order /\ z.has = y.has /\ z.dead = y.dead \cup G
    BY <1>6, <1>7 DEF Replicas
  <1>9. z \in Replicas
    BY <1>5, <1>6, <1>7 DEF Replicas
  <1> QED
    BY <1>5, <1>8, <1>9 DEF Sound

LEMMA DeletedPlainText ==
    ASSUME NEW y, Sound(y), NEW d, d = PlainText(y), NEW f \in 0..Len(d), NEW t \in f..Len(d),
           NEW z, z = Deleted(y, f, t - f)
    PROVE  PlainText(z) = Splice(d, f, t, <<>>)
  <1>1. d \in Seq(Items) /\ \E pos : Places(pos, d, y.order, y.has \ y.dead)
    BY PlainTextType
  <1>2. PICK pos : Places(pos, d, y.order, y.has \ y.dead)
    BY <1>1
  <1>3. Within(d, f) = f /\ Within(d, f + (t - f)) = t
    <2>1. f \in Int /\ f + (t - f) = t /\ t \in Int /\ t \in 0..Len(d)
      BY <1>1
    <2> QED
      BY <1>1, <2>1, WithinBounds
  <1>4. y \in Replicas /\ IsInjective(y.order)
    BY DEF Sound
  <1>5. z = [y EXCEPT !.dead = @ \cup ToSet(Part(d, f, t))]
    BY <1>3 DEF Deleted, Part
  <1>6. z.order = y.order /\ z.has \ z.dead = (y.has \ y.dead) \ ToSet(Part(d, f, t))
    <2>1. PICK G : G = ToSet(Part(d, f, t))
      OBVIOUS
    <2> QED
      BY <1>4, <1>5, <2>1 DEF Replicas
  <1>7. Stretch(f, t, Len(d))
    BY DEF Stretch
  <1>8. PICK o, V : o = y.order /\ V = y.has \ y.dead /\ o \in Seq(Items) /\ IsInjective(o)
                    /\ Places(pos, d, o, V)
    BY <1>2, <1>4 DEF Replicas
  <1>9. LosesPart(o, V, d, f, t)
    BY <1>1, <1>7, <1>8, DeletedText
  <1> QED
    BY <1>6, <1>8, <1>9 DEF PlainText, LosesPart

(* Where Inserted puts the new items. *)
InsertedThere(z, y, at, ins) ==
    /\ z.order = Splice(y.order, at, at, ins)
    /\ z.has = y.has \cup ToSet(ins)
    /\ z.dead = y.dead

PlaceBefore(o, d, p) == IF p \in DOMAIN d THEN CHOOSE q \in DOMAIN o : o[q] = d[p] ELSE Len(o) + 1

LastBefore(o, H, q) ==
    LET known == {p \in 1..q - 1 : o[p] \in H} IN
    IF known = {} THEN 0 ELSE CHOOSE p \in known : \A k \in known : k <= p

InsertedBehind(y, l, q, ins, slack) ==
    LET at == IF l + slack < q THEN l + slack ELSE q - 1 IN
    [y EXCEPT !.order = SubSeq(@, 1, at) \o ins \o SubSeq(@, at + 1, Len(@)),
              !.has = @ \cup ToSet(ins)]

InsertedBefore(y, q, ins, slack) == InsertedBehind(y, LastBefore(y.order, y.has, q), q, ins, slack)

LEMMA InsertedUnfolds ==
    ASSUME NEW y, NEW from, NEW ins, NEW slack
    PROVE  Inserted(y, from, ins, slack)
           = InsertedBefore(y, PlaceBefore(y.order, PlainText(y), Within(PlainText(y), from) + 1), ins, slack)
  BY DEF Inserted, InsertedBefore, InsertedBehind, PlaceBefore, LastBefore

LEMMA InsertedPlace ==
    ASSUME NEW y, Sound(y), NEW from \in Int, NEW ins, Typed(ins, Len(y.order)),
           NEW slack \in Nat, NEW z, z = Inserted(y, from, ins, slack),
           NEW d, d = PlainText(y), NEW pos, Places(pos, d, y.order, y.has \ y.dead)
    PROVE  \E at \in 0..Len(y.order) :
              /\ InsertedThere(z, y, at, ins)
              /\ Between(at, Within(d, from), pos, Len(d))
              /\ z = [order |-> z.order, has |-> z.has, dead |-> z.dead]
  <1>0. y \in Replicas
    BY DEF Sound
  <1>1. PICK o \in Seq(Items) : o = y.order /\ IsInjective(o)
    BY <1>0 DEF Sound, Replicas
  <1>2. PICK n \in Nat : n = Len(o) /\ DOMAIN o = 1..n
    OBVIOUS
  <1>3. d \in Seq(Items)
    BY PlainTextType
  <1>4. PICK m \in Nat : m = Len(d) /\ DOMAIN d = 1..m
    BY <1>3
  <1>5. PICK f : f = Within(d, from) /\ f \in 0..m
    BY <1>3, <1>4, WithinBounds
  <1>6. /\ pos \in [1..m -> 1..n]
        /\ \A k \in 1..m : o[pos[k]] = d[k] /\ d[k] \in y.has \ y.dead
        /\ \A j, k \in 1..m : j < k => pos[j] < pos[k]
    BY <1>1, <1>2, <1>4 DEF Places
  <1> DEFINE right == IF f + 1 \in DOMAIN d THEN CHOOSE p \in DOMAIN o : o[p] = d[f + 1]
                      ELSE n + 1
  <1>7. /\ right \in 1..n + 1
        /\ \A k \in 1..m : IF k <= f THEN pos[k] < right ELSE right <= pos[k]
    <2>1. CASE f + 1 \in 1..m
      <3>1. right = pos[f + 1]
        <4>1. pos[f + 1] \in 1..n /\ o[pos[f + 1]] = d[f + 1]
          BY <1>6, <2>1
        <4>2. \A i, j \in 1..n : o[i] = o[j] => i = j
          BY <1>1, <1>2 DEF IsInjective
        <4> QED
          BY <1>2, <1>4, <2>1, <4>1, <4>2
      <3> HIDE DEF right
      <3>2. pos[f + 1] \in 1..n
        BY <1>6, <2>1
      <3>3. ASSUME NEW k \in 1..m PROVE IF k <= f THEN pos[k] < right ELSE right <= pos[k]
        <4>0. pos[k] \in 1..n
          BY <1>6
        <4>1. CASE k <= f
          <5>1. k < f + 1
            BY <1>5, <4>1
          <5> QED
            BY <1>6, <2>1, <3>1, <4>1, <5>1
        <4>2. CASE k = f + 1
          <5>1. ~(k <= f)
            BY <1>5, <4>2
          <5> QED
            BY <3>1, <3>2, <4>2, <5>1
        <4>3. CASE f + 1 < k
          <5>1. ~(k <= f) /\ pos[f + 1] < pos[k]
            BY <1>5, <1>6, <2>1, <4>3
          <5> QED
            BY <3>1, <3>2, <4>0, <5>1
        <4> QED
          BY <1>5, <4>1, <4>2, <4>3
      <3> QED
        BY <3>1, <3>2, <3>3
    <2>2. CASE f + 1 \notin 1..m
      <3>1. right = n + 1
        BY <1>4, <2>2
      <3>2. \A k \in 1..m : k <= f
        BY <1>5, <2>2
      <3>3. \A k \in 1..m : pos[k] \in 1..n /\ pos[k] < n + 1
        BY <1>6
      <3> HIDE DEF right
      <3>4. n + 1 \in 1..n + 1
        BY <1>2
      <3> QED
        BY <3>1, <3>2, <3>3, <3>4
    <2> QED
      BY <2>1, <2>2
  <1>8. PICK r : r = right /\ r \in 1..n + 1
                 /\ \A k \in 1..m : IF k <= f THEN pos[k] < r ELSE r <= pos[k]
    <2> HIDE DEF right
    <2> QED
      BY <1>7
  <1> DEFINE known == {p \in 1..r - 1 : o[p] \in y.has}
             left == IF known = {} THEN 0 ELSE CHOOSE p \in known : \A q \in known : q <= p
  <1>9. left \in 0..r - 1 /\ \A p \in known : p <= left
    <2>1. CASE known = {}
      <3>1. left = 0 /\ 0 \in 0..r - 1
        BY <1>8, <2>1
      <3> QED
        BY <2>1, <3>1
    <2>2. CASE known # {}
      <3>1. r - 1 \in Nat /\ known \in SUBSET (0..r - 1)
        BY <1>8
      <3>2. PICK K : K = known /\ K # {} /\ K \in SUBSET (0..r - 1)
        BY <2>2, <3>1
      <3>3. \E p \in K : \A q \in K : q <= p
        BY <3>1, <3>2, Largest
      <3> QED
        BY <2>2, <3>2, <3>3
    <2> QED
      BY <2>1, <2>2
  <1>10. PICK l : l = left /\ l \in 0..r - 1 /\ \A p \in known : p <= l
    <2> HIDE DEF right, left, known
    <2> QED
      BY <1>9
  <1>11. PICK at : /\ at = (IF l + slack < r THEN l + slack ELSE r - 1)
                   /\ at \in 0..n /\ l <= at /\ at < r
    <2> HIDE DEF right, left, known
    <2>1. l \in Nat /\ l < r /\ r \in Nat /\ r <= n + 1 /\ n \in Nat /\ slack \in Nat
      BY <1>2, <1>8, <1>10
    <2>2. PICK p : p = (IF l + slack < r THEN l + slack ELSE r - 1)
      OBVIOUS
    <2>3. CASE l + slack < r
      <3>1. p = l + slack
        BY <2>2, <2>3
      <3>2. l + slack \in 0..n /\ l <= l + slack
        BY <2>1, <2>3
      <3> QED
        BY <2>2, <2>3, <3>1, <3>2
    <2>4. CASE ~(l + slack < r)
      <3>1. p = r - 1
        BY <2>2, <2>4
      <3>2. r - 1 \in 0..n /\ l <= r - 1 /\ r - 1 < r
        BY <2>1
      <3> QED
        BY <2>2, <3>1, <3>2
    <2> QED
      BY <2>3, <2>4
  <1>12. z = [y EXCEPT !.order = SubSeq(@, 1, at) \o ins \o SubSeq(@, at + 1, Len(@)),
                       !.has = @ \cup ToSet(ins)]
    <2>1. z = InsertedBefore(y, PlaceBefore(o, d, f + 1), ins, slack)
      BY <1>1, <1>5, InsertedUnfolds
    <2>2. PlaceBefore(o, d, f + 1) = r
      BY <1>2, <1>8 DEF PlaceBefore
    <2>3. LastBefore(o, y.has, r) = l
      BY <1>10 DEF LastBefore
    <2>4. z = InsertedBehind(y, l, r, ins, slack)
      BY <1>1, <2>1, <2>2, <2>3 DEF InsertedBefore
    <2> HIDE DEF right, left, known
    <2> QED
      BY <1>11, <2>4 DEF InsertedBehind
  <1> HIDE DEF right, left
  <1>13. Splice(o, at, at, ins) = SubSeq(o, 1, at) \o ins \o SubSeq(o, at + 1, Len(o))
    <2>1. 0 + 1 = 1
      OBVIOUS
    <2> QED
      BY <2>1 DEF Splice, Part
  <1>14. InsertedThere(z, y, at, ins) /\ z = [order |-> z.order, has |-> z.has, dead |-> z.dead]
    <2>1. PICK w, G : w = Splice(o, at, at, ins) /\ G = ToSet(ins)
      OBVIOUS
    <2>2. z = [y EXCEPT !.order = w, !.has = @ \cup G]
      BY <1>1, <1>12, <1>13, <2>1
    <2>3. /\ z.order = w /\ z.has = y.has \cup G /\ z.dead = y.dead
          /\ z = [order |-> z.order, has |-> z.has, dead |-> z.dead]
      BY <1>0, <2>2 DEF Replicas
    <2> QED
      BY <1>1, <2>1, <2>3 DEF InsertedThere
  <1>15. Between(at, f, pos, m)
    <2> SUFFICES ASSUME NEW k \in 1..m
                 PROVE  IF k <= f THEN pos[k] <= at ELSE at < pos[k]
      BY DEF Between
    <2>0. pos[k] \in 1..n /\ o[pos[k]] \in y.has
      BY <1>6
    <2>1. CASE k <= f
      <3>1. pos[k] \in 1..r - 1
        BY <1>8, <2>0, <2>1
      <3>2. pos[k] <= l
        BY <1>10, <2>0, <3>1
      <3> QED
        BY <1>8, <1>10, <1>11, <2>0, <2>1, <3>2
    <2>2. CASE ~(k <= f)
      <3>1. r <= pos[k]
        BY <1>8, <2>2
      <3> QED
        BY <1>8, <1>11, <2>0, <2>2, <3>1
    <2> QED
      BY <2>1, <2>2
  <1> QED
    BY <1>1, <1>2, <1>4, <1>5, <1>11, <1>14, <1>15

(* What an edit of one replica leaves to the others. *)
OthersKeep(z, y) ==
    \A V : V \subseteq ToSet(y.order) => Among(z.order, V) = Among(y.order, V)

Grown(z, y, ins) ==
    /\ Sound(z)
    /\ z.has = y.has \cup ToSet(ins)
    /\ Len(z.order) = Len(y.order) + Len(ins)
    /\ ToSet(z.order) = ToSet(y.order) \cup ToSet(ins)
    /\ OthersKeep(z, y)

InsertsText(z, y, f, ins) == PlainText(z) = Splice(PlainText(y), f, f, ins)

LEMMA InsertedReplica ==
    ASSUME NEW y, Sound(y), NEW from \in Int, NEW ins, Typed(ins, Len(y.order)),
           NEW slack \in Nat, NEW z, z = Inserted(y, from, ins, slack)
    PROVE  /\ Grown(z, y, ins) /\ z.dead = y.dead
           /\ InsertsText(z, y, Within(PlainText(y), from), ins)
  <1>0. y \in Replicas /\ IsInjective(y.order) /\ ToSet(y.order) = 1..Len(y.order)
    BY DEF Sound
  <1>1. PICK o \in Seq(Items), n \in Nat : /\ o = y.order /\ n = Len(o) /\ IsInjective(o)
                                           /\ ToSet(o) = 1..n
    BY <1>0 DEF Replicas
  <1>2. /\ ins \in Seq(Items) /\ IsInjective(ins) /\ Len(ins) \in Nat
        /\ ToSet(ins) = n + 1..n + Len(ins)
    BY <1>1, TypedProperties
  <1>3. PICK d, pos : /\ d = PlainText(y) /\ d \in Seq(Items)
                      /\ Places(pos, d, y.order, y.has \ y.dead)
    BY PlainTextType
  <1>4. PICK f : f = Within(d, from) /\ f \in 0..Len(d)
    BY <1>3, WithinBounds
  <1>5. PICK at \in 0..Len(y.order) : /\ InsertedThere(z, y, at, ins)
                                      /\ Between(at, f, pos, Len(d))
                                      /\ z = [order |-> z.order, has |-> z.has, dead |-> z.dead]
    BY <1>3, <1>4, InsertedPlace
  <1>6. PICK w : w = z.order /\ w = Splice(o, at, at, ins)
    BY <1>1, <1>5 DEF InsertedThere
  <1>7. at \in 0..Len(o)
    BY <1>1
  <1>8. Widened(w, o, at, ins, Items)
    BY <1>2, <1>6, <1>7, WidenedOrder
  <1>9. ToSet(ins) \cap ToSet(o) = {}
    BY <1>1, <1>2
  <1>10. IsInjective(w) /\ ToSet(w) = ToSet(o) \cup ToSet(ins)
    <2>1. /\ o \in Seq(Items) /\ IsInjective(o) /\ ins \in Seq(Items) /\ IsInjective(ins)
          /\ at \in 0..Len(o) /\ ToSet(ins) \cap ToSet(o) = {} /\ Widened(w, o, at, ins, Items)
      BY <1>1, <1>2, <1>7, <1>8, <1>9
    <2> QED
      BY ONLY <2>1, WidenedInjective
  <1>11. w \in Seq(Items) /\ Len(w) = n + Len(ins)
    BY <1>1, <1>8 DEF Widened
  <1>12. z.has = y.has \cup ToSet(ins) /\ z.dead = y.dead
    BY <1>5 DEF InsertedThere
  <1>13. OthersKeep(z, y)
    <2> SUFFICES ASSUME NEW V, V \subseteq ToSet(o)
                 PROVE  Among(w, V) = Among(o, V)
      BY <1>1, <1>6 DEF OthersKeep
    <2>1. ToSet(ins) \cap V = {}
      BY <1>9
    <2> QED
      BY <1>1, <1>2, <1>7, <1>8, <1>10, <2>1, UnseenItems
  <1>14. Sound(z)
    <2>1. ToSet(ins) \subseteq Items
      <3>1. \A k \in DOMAIN ins : ins[k] \in Items
        BY <1>2
      <3> QED
        BY <3>1 DEF ToSet
    <2>2. y.has \in SUBSET Items /\ y.dead \in SUBSET Items
      BY <1>0 DEF Replicas
    <2>3. z \in Replicas
      BY <1>6, <1>11, <1>12, <2>1, <2>2, <1>5 DEF Replicas
    <2>4. y.has \subseteq ToSet(o) /\ y.dead \subseteq ToSet(o)
      BY <1>1 DEF Sound
    <2>5. ToSet(w) = 1..Len(w)
      <3>1. 1..n + Len(ins) = (1..n) \cup (n + 1..n + Len(ins))
        BY <1>1, <1>2
      <3> QED
        BY <1>1, <1>2, <1>10, <1>11, <3>1
    <2> QED
      BY <1>6, <1>10, <1>12, <2>3, <2>4, <2>5 DEF Sound
  <1>15. Grown(z, y, ins)
    BY <1>1, <1>6, <1>10, <1>11, <1>12, <1>13, <1>14 DEF Grown
  <1>16. InsertsText(z, y, f, ins)
    <2>1. PICK V : V = y.has \ y.dead /\ Places(pos, d, o, V)
      BY <1>1, <1>3
    <2>2. z.has \ z.dead = V \cup ToSet(ins)
      <3>1. y.dead \cap ToSet(ins) = {}
        <4>1. y.dead \subseteq ToSet(o)
          BY <1>1 DEF Sound
        <4> QED
          BY <1>9, <4>1
      <3> QED
        BY <1>12, <2>1, <3>1
    <2>3. GainsItems(w, V, d, f, ins)
      BY <1>1, <1>2, <1>3, <1>4, <1>5, <1>7, <1>8, <1>9, <1>10, <2>1, SeenItems
    <2> QED
      BY <1>3, <1>6, <2>2, <2>3 DEF InsertsText, PlainText, GainsItems
  <1> QED
    BY <1>3, <1>4, <1>12, <1>15, <1>16

DeletesThenInserts(d, f, t, ins) ==
    Splice(Splice(d, f, t, <<>>), f, f, ins) = Splice(d, f, t, ins)

LEMMA DeletionThenInsertion ==
    ASSUME NEW S, NEW d \in Seq(S), NEW f, NEW t, Stretch(f, t, Len(d)), NEW ins \in Seq(S)
    PROVE  DeletesThenInserts(d, f, t, ins) /\ Splice(d, f, t, <<>>) \in Seq(S)
  <1>0. f \in 0..Len(d) /\ t \in f..Len(d) /\ Len(d) \in Nat
    BY DEF Stretch
  <1>1. PICK a : a = Part(d, 0, f) /\ a \in Seq(S) /\ Len(a) = f
    <2>1. Stretch(0, f, Len(d)) /\ f - 0 = f
      BY <1>0 DEF Stretch
    <2>2. IsPart(Part(d, 0, f), d, 0, f, S)
      BY <2>1, PartType
    <2> QED
      BY <2>1, <2>2 DEF IsPart
  <1>2. PICK b : b = Part(d, t, Len(d)) /\ b \in Seq(S)
    <2>1. Stretch(t, Len(d), Len(d))
      BY <1>0 DEF Stretch
    <2>2. IsPart(Part(d, t, Len(d)), d, t, Len(d), S)
      BY <2>1, PartType
    <2> QED
      BY <2>2 DEF IsPart
  <1>3. a \o <<>> = a
    BY <1>1, ConcatEmptySeq
  <1>4. PICK w : w = a \o b /\ w \in Seq(S) /\ w = Splice(d, f, t, <<>>)
    <2>1. a \o b = Splice(d, f, t, <<>>)
      BY <1>1, <1>2, <1>3 DEF Splice
    <2>2. a \o b \in Seq(S)
      BY <1>1, <1>2, Assoc
    <2> QED
      BY <2>1, <2>2
  <1>5. Falls(a, b)
    BY <1>1, <1>2, FallsApart
  <1>6. Part(w, 0, f) = a /\ Part(w, f, Len(w)) = b
    BY <1>1, <1>4, <1>5 DEF Falls
  <1>7. Splice(w, f, f, ins) = (a \o ins) \o b
    BY <1>6 DEF Splice
  <1>8. Splice(d, f, t, ins) = (a \o ins) \o b
    BY <1>1, <1>2 DEF Splice
  <1> QED
    BY <1>4, <1>7, <1>8 DEF DeletesThenInserts

(* One change of applyLocalChanges, wherever its positions are. *)
LEMMA AppliedReplica ==
    ASSUME NEW y, Sound(y), NEW c, c.from \in Int, c.to \in Int, c.from <= c.to,
           Typed(c.insert, Len(y.order)), NEW slack \in Nat, NEW z, z = Applied(y, c, slack)
    PROVE  Grown(z, y, c.insert) /\ y.dead \subseteq z.dead
  <1>1. PICK f, n, ins : f \in Int /\ n \in Nat /\ f = c.from /\ n = c.to - c.from /\ ins = c.insert
    OBVIOUS
  <1>2. PICK x : x = Deleted(y, f, n)
    OBVIOUS
  <1>3. z = Inserted(x, f, ins, slack)
    BY <1>1, <1>2 DEF Applied
  <1>4. Sound(x) /\ x.order = y.order /\ x.has = y.has /\ y.dead \subseteq x.dead
    BY <1>1, <1>2, DeletedReplica
  <1>5. Typed(ins, Len(x.order))
    BY <1>1, <1>4
  <1>6. Grown(z, x, ins) /\ z.dead = x.dead
    BY <1>1, <1>3, <1>4, <1>5, InsertedReplica
  <1>7. Grown(z, y, ins)
    BY <1>4, <1>6 DEF Grown, OthersKeep
  <1> QED
    BY <1>1, <1>4, <1>6, <1>7

(* One change of applyLocalChanges with positions in the text. *)
LEMMA AppliedText ==
    ASSUME NEW y, Sound(y), NEW d, d = PlainText(y),
           NEW c, c.from \in 0..Len(d), c.to \in c.from..Len(d),
           Typed(c.insert, Len(y.order)), NEW slack \in Nat, NEW z, z = Applied(y, c, slack)
    PROVE  PlainText(z) = Splice(d, c.from, c.to, c.insert)
  <1>0. d \in Seq(Items)
    BY PlainTextType
  <1>1. PICK f, t, ins : /\ f = c.from /\ t = c.to /\ ins = c.insert
                         /\ f \in 0..Len(d) /\ t \in f..Len(d)
    OBVIOUS
  <1>2. f \in Int /\ t - f \in Nat
    BY <1>0, <1>1
  <1>3. PICK x : x = Deleted(y, f, t - f)
    OBVIOUS
  <1>4. z = Inserted(x, f, ins, slack)
    BY <1>1, <1>3 DEF Applied
  <1>5. Sound(x) /\ x.order = y.order
    BY <1>2, <1>3, DeletedReplica
  <1>6. PICK w : w = PlainText(x) /\ w = Splice(d, f, t, <<>>)
    BY <1>1, <1>3, DeletedPlainText
  <1>7. Typed(ins, Len(x.order))
    BY <1>1, <1>5
  <1>8. PlainText(z) = Splice(w, Within(w, f), Within(w, f), ins)
    <2>1. InsertsText(z, x, Within(w, f), ins)
      BY <1>2, <1>4, <1>5, <1>6, <1>7, InsertedReplica
    <2> QED
      BY <1>6, <2>1 DEF InsertsText
  <1>9. ins \in Seq(Items)
    <2>1. Len(y.order) \in Nat
      BY DEF Sound, Replicas
    <2> QED
      BY <1>1, <2>1, TypedProperties
  <1>10. Stretch(f, t, Len(d))
    BY <1>1 DEF Stretch
  <1>11. DeletesThenInserts(d, f, t, ins) /\ w \in Seq(Items)
    BY <1>0, <1>6, <1>9, <1>10, DeletionThenInsertion
  <1>12. Within(w, f) = f
    <2>1. IsSplice(w, d, f, t, <<>>, Items)
      <3>1. <<>> \in Seq(Items)
        OBVIOUS
      <3> QED
        BY <1>0, <1>6, <1>10, <3>1, SplicePlaces
    <2>2. Len(w) = f + 0 + (Len(d) - t)
      BY <2>1 DEF IsSplice
    <2>3. f \in 0..Len(w)
      BY <1>0, <1>1, <2>2
    <2> QED
      BY <1>2, <1>11, <2>3, WithinBounds
  <1> QED
    BY <1>1, <1>6, <1>8, <1>11, <1>12 DEF DeletesThenInserts

(* Adding up no change, and one. *)
LEMMA SubsetsOfOne ==
    /\ SUBSET (1..0) = {{}}
    /\ SUBSET (1..1) = {{}, {1}}
    /\ Max({1}) = 1 /\ {1} \ {1} = {} /\ {1} # {}
  <1>1. 1..0 = {} /\ 1..1 = {1}
    OBVIOUS
  <1>2. {1} \in SUBSET (1..1) /\ {1} # {} /\ 1 \in Nat
    OBVIOUS
  <1>3. Max({1}) \in {1}
    BY <1>2, MaxOfInterval
  <1> QED
    BY <1>1, <1>3

LEMMA NetOfNone ==
    ASSUME NEW S, NEW cs \in Seq(S)
    PROVE  Net(cs, 0) = 0
  <1>1. PICK q : q = SubSeq(cs, 1, 0) /\ DOMAIN q = 1..0
    <2>1. SubSeq(cs, 1, 0) = <<>> /\ DOMAIN <<>> = 1..0
      OBVIOUS
    <2> QED
      BY <2>1
  <1> DEFINE Sum(g) == g = [s \in SUBSET (1..0) |->
                               IF s = {} THEN 0
                               ELSE g[s \ {Max(s)}] + Len(q[Max(s)].insert) - (q[Max(s)].to - q[Max(s)].from)]
             iter == CHOOSE g : Sum(g)
  <1>2. Net(cs, 0) = iter[1..0]
    BY <1>1 DEF Net, FoldLeft, MapThenFoldSet
  <1>3. \E g : Sum(g)
    <2>1. Sum([s \in SUBSET (1..0) |-> 0])
      OBVIOUS
    <2> QED
      BY <2>1
  <1>4. Sum(iter)
    BY <1>3
  <1> HIDE DEF iter
  <1>5. iter[{}] = 0
    BY <1>4
  <1>6. 1..0 = {}
    OBVIOUS
  <1> QED
    BY <1>2, <1>5, <1>6

LEMMA NetOfOne ==
    ASSUME NEW cs, NEW S, cs \in Seq(S), Len(cs) >= 1, NEW n \in Int, NEW a \in Int, NEW b \in Int,
         n = Len(cs[1].insert), a = cs[1].to, b = cs[1].from
    PROVE  Net(cs, 1) = n - (a - b)
  <1>1. PICK q : q = SubSeq(cs, 1, 1) /\ DOMAIN q = 1..1 /\ q[1] = cs[1]
    <2>1. PICK q : q = SubSeq(cs, 1, 1)
      OBVIOUS
    <2>2. cs \in Seq(S) /\ 1 \in 1..Len(cs) + 1 /\ 1 \in 1 - 1..Len(cs)
      OBVIOUS
    <2>3. /\ q \in Seq(S) /\ Len(q) = 1 - 1 + 1
          /\ \A k \in 1..1 - 1 + 1 : q[k] = cs[1 + k - 1]
      BY <2>1, <2>2, PartProperties
    <2>4. 1 - 1 + 1 = 1 /\ 1 \in 1..1 - 1 + 1 /\ 1 + 1 - 1 = 1
      OBVIOUS
    <2> QED
      BY <2>1, <2>3, <2>4
  <1> DEFINE Sum(g) == g = [s \in SUBSET (1..1) |->
                               IF s = {} THEN 0
                               ELSE g[s \ {Max(s)}] + Len(q[Max(s)].insert) - (q[Max(s)].to - q[Max(s)].from)]
             iter == CHOOSE g : Sum(g)
             h == [s \in SUBSET (1..1) |-> IF s = {} THEN 0 ELSE n - (a - b)]
  <1>2. Net(cs, 1) = iter[1..1]
    BY <1>1 DEF Net, FoldLeft, MapThenFoldSet
  <1>0. 1..1 = {1} /\ \A s \in SUBSET (1..1) : s = {} \/ s = {1}
    BY SubsetsOfOne
  <1>3. \E g : Sum(g)
    <2> SUFFICES Sum(h)
      OBVIOUS
    <2> SUFFICES ASSUME NEW s \in SUBSET (1..1)
                 PROVE h[s] = IF s = {} THEN 0
                               ELSE h[s \ {Max(s)}] + Len(q[Max(s)].insert) - (q[Max(s)].to - q[Max(s)].from)
      OBVIOUS
    <2>1. CASE s = {}
      BY <2>1
    <2>2. CASE s = {1}
      <3>1. h[s \ {Max(s)}] = 0 /\ Max(s) = 1
        BY <2>2, SubsetsOfOne
      <3>2. h[s] = n - (a - b) /\ s # {}
        BY <2>2
      <3> HIDE DEF h
      <3>3. 0 + n - (a - b) = n - (a - b)
         OBVIOUS
      <3> QED
        BY <1>1, <2>2, <3>1, <3>2, <3>3
    <2> QED
      BY <1>0, <2>1, <2>2
  <1>4. Sum(iter)
    BY <1>3
  <1> HIDE DEF iter, h
  <1>5. iter[{}] = 0
    BY <1>4
  <1>6. iter[{1}] = iter[{}] + Len(q[1].insert) - (q[1].to - q[1].from)
    BY <1>4, SubsetsOfOne
  <1> QED
    BY <1>0, <1>1, <1>2, <1>5, <1>6

(* applyLocalChanges of one change, and of two. *)
Shifted(c, n) == [c EXCEPT !.from = @ + n, !.to = @ + n]

Step(z, cs, k, slack) == Applied(z, Shifted(cs[k], Net(cs, k - 1)), slack)

LEMMA ApplyOne ==
    ASSUME NEW y, NEW cs, DOMAIN cs = 1..1, NEW slack
    PROVE  ApplyLocalChanges(y, cs, slack) = Step(y, cs, 1, slack)
  <1> DEFINE To(g) == g = [s \in SUBSET (1..1) |->
                              IF s = {} THEN y
                              ELSE Step(g[s \ {Max(s)}], cs, [k \in 1..1 |-> k][Max(s)], slack)]
             iter == CHOOSE g : To(g)
             h == [s \in SUBSET (1..1) |-> IF s = {} THEN y ELSE Step(y, cs, 1, slack)]
  <1>0. 1..1 = {1} /\ \A s \in SUBSET (1..1) : s = {} \/ s = {1}
    BY SubsetsOfOne
  <1>2. ApplyLocalChanges(y, cs, slack) = iter[1..1]
    BY DEF ApplyLocalChanges, FoldLeft, MapThenFoldSet, Step, Shifted
  <1>3. [k \in 1..1 |-> k][1] = 1
    OBVIOUS
  <1>4. \E g : To(g)
    <2> SUFFICES To(h)
      OBVIOUS
    <2> SUFFICES ASSUME NEW s \in SUBSET (1..1)
                 PROVE  h[s] = IF s = {} THEN y
                               ELSE Step(h[s \ {Max(s)}], cs, [k \in 1..1 |-> k][Max(s)], slack)
      OBVIOUS
    <2>1. CASE s = {}
      BY <2>1
    <2>2. CASE s = {1}
      <3>1. h[s \ {Max(s)}] = y /\ Max(s) = 1
        BY <2>2, SubsetsOfOne
      <3>2. h[s] = Step(y, cs, 1, slack) /\ s # {}
        BY <2>2
      <3> HIDE DEF h
      <3> QED
        BY <1>3, <2>2, <3>1, <3>2
    <2> QED
      BY <1>0, <2>1, <2>2
  <1>5. To(iter)
    BY <1>4
  <1> HIDE DEF iter, h
  <1>6. iter[{}] = y
    BY <1>5
  <1>7. iter[{1}] = Step(iter[{}], cs, 1, slack)
    BY <1>3, <1>5, SubsetsOfOne
  <1> QED
    BY <1>0, <1>2, <1>6, <1>7

LEMMA SubsetsOfTwo ==
    /\ 1..2 = {1, 2}
    /\ \A s \in SUBSET (1..2) : s = {} \/ s = {1} \/ s = {2} \/ s = {1, 2}
    /\ Max({2}) = 2 /\ Max({1, 2}) = 2 /\ {2} \ {2} = {} /\ {1, 2} \ {2} = {1}
    /\ {1} # {2} /\ {1} # {1, 2} /\ {2} # {1, 2} /\ {2} # {} /\ {1, 2} # {}
  <1>1. 1..2 = {1, 2} /\ 2 \in Nat
    OBVIOUS
  <1>2. {2} \in SUBSET (1..2) /\ {2} # {} /\ {1, 2} \in SUBSET (1..2) /\ {1, 2} # {}
    OBVIOUS
  <1>3. Max({2}) \in {2} /\ Max({1, 2}) \in {1, 2} /\ 2 <= Max({1, 2})
    BY <1>1, <1>2, MaxOfInterval
  <1>4. Max({1, 2}) = 2
    BY <1>3
  <1>5. \A s \in SUBSET {1, 2} : s = {} \/ s = {1} \/ s = {2} \/ s = {1, 2}
    OBVIOUS
  <1>6. {1, 2} \ {2} = {1} /\ {1} # {2} /\ {1} # {1, 2} /\ {2} # {1, 2}
    OBVIOUS
  <1> QED
    BY <1>1, <1>2, <1>3, <1>4, <1>5, <1>6

LEMMA ApplyTwo ==
    ASSUME NEW y, NEW cs, DOMAIN cs = 1..2, NEW slack
    PROVE  ApplyLocalChanges(y, cs, slack) = Step(Step(y, cs, 1, slack), cs, 2, slack)
  <1> DEFINE To(g) == g = [s \in SUBSET (1..2) |->
                              IF s = {} THEN y
                              ELSE Step(g[s \ {Max(s)}], cs, [k \in 1..2 |-> k][Max(s)], slack)]
             iter == CHOOSE g : To(g)
             x == Step(y, cs, 1, slack)
             h == [s \in SUBSET (1..2) |-> IF s = {} THEN y ELSE IF s = {1} THEN x
                                           ELSE IF s = {2} THEN Step(y, cs, 2, slack)
                                           ELSE Step(x, cs, 2, slack)]
  <1>0. 1..2 = {1, 2} /\ \A s \in SUBSET (1..2) : s = {} \/ s = {1} \/ s = {2} \/ s = {1, 2}
    BY SubsetsOfTwo
  <1>a. {} \in SUBSET (1..2) /\ {1} \in SUBSET (1..2) /\ {2} \in SUBSET (1..2) /\ {1, 2} \in SUBSET (1..2)
    OBVIOUS
  <1>2. ApplyLocalChanges(y, cs, slack) = iter[1..2]
    BY DEF ApplyLocalChanges, FoldLeft, MapThenFoldSet, Step, Shifted
  <1>3. [k \in 1..2 |-> k][1] = 1 /\ [k \in 1..2 |-> k][2] = 2
    OBVIOUS
  <1> HIDE DEF x
  <1>4. \E g : To(g)
    <2> SUFFICES To(h)
      OBVIOUS
    <2> SUFFICES ASSUME NEW s \in SUBSET (1..2)
                 PROVE  h[s] = IF s = {} THEN y
                               ELSE Step(h[s \ {Max(s)}], cs, [k \in 1..2 |-> k][Max(s)], slack)
      OBVIOUS
    <2>0. h[{}] = y /\ h[{1}] = x /\ h[{2}] = Step(y, cs, 2, slack) /\ h[{1, 2}] = Step(x, cs, 2, slack)
      BY <1>a, SubsetsOfTwo
    <2> HIDE DEF h
    <2>1. CASE s = {}
      BY <2>0, <2>1
    <2>2. CASE s = {1}
      <3>1. s \ {Max(s)} = {} /\ Max(s) = 1 /\ s # {}
        BY <2>2, SubsetsOfOne
      <3> QED
        BY <1>3, <2>0, <2>2, <3>1 DEF x
    <2>3. CASE s = {2}
      <3>1. s \ {Max(s)} = {} /\ Max(s) = 2 /\ s # {}
        BY <2>3, SubsetsOfTwo
      <3> QED
        BY <1>3, <2>0, <2>3, <3>1
    <2>4. CASE s = {1, 2}
      <3>1. s \ {Max(s)} = {1} /\ Max(s) = 2 /\ s # {}
        BY <2>4, SubsetsOfTwo
      <3> QED
        BY <1>3, <2>0, <2>4, <3>1
    <2> QED
      BY <1>0, <2>1, <2>2, <2>3, <2>4
  <1>5. To(iter)
    BY <1>4
  <1> HIDE DEF iter, h
  <1>6. iter[{}] = y
    BY <1>5, <1>a
  <1>7. iter[{1}] = Step(iter[{}], cs, 1, slack)
    <2>1. Max({1}) = 1 /\ {1} \ {1} = {} /\ {1} # {}
      BY SubsetsOfOne
    <2>2. iter[{1}] = Step(iter[{1} \ {Max({1})}], cs, [k \in 1..2 |-> k][Max({1})], slack)
      <3> HIDE DEF Step
      <3> QED
        BY <1>5, <1>a, <2>1
    <2> QED
      BY <1>3, <2>1, <2>2
  <1>8. iter[{1, 2}] = Step(iter[{1}], cs, 2, slack)
    BY <1>3, <1>5, <1>a, SubsetsOfTwo
  <1> QED
    BY <1>0, <1>2, <1>6, <1>7, <1>8 DEF x

-------------------------------------------------------------------------------
(* A transaction of a user.                                                *)

InText(c, d) ==
    /\ c \in [from : Int, to : Int, insert : Seq(Items)]
    /\ 0 <= c.from /\ c.from <= c.to /\ c.to <= Len(d)

OneOf(cs, c, d, n) == cs = <<c>> /\ InText(c, d) /\ Typed(c.insert, n)

TwoOf(cs, c, e, d, n) ==
    /\ cs = <<c, e>> /\ InText(c, d) /\ InText(e, d) /\ c.to < e.from
    /\ Typed(c.insert, n) /\ Typed(e.insert, n + Len(c.insert))

LEMMA TransactionForms ==
    ASSUME order \in Seq(Items), NEW d \in Seq(Items), NEW cs \in Transactions(d)
    PROVE  \/ \E c : OneOf(cs, c, d, Len(order))
           \/ \E c, e : TwoOf(cs, c, e, d, Len(order))
  <1> DEFINE n == Len(order)
             At(k) == [from : 0..Len(d), to : 0..Len(d), insert : {<<>>, <<n + k>>}]
             Real(c) == c.from <= c.to /\ (c.from < c.to \/ c.insert # <<>>)
             One == {c \in At(1) : Real(c)}
             Two == {ps \in (One \X At(2)) \cup (One \X At(1)) :
                        /\ Real(ps[2])
                        /\ ps[1].to < ps[2].from
                        /\ ps[2].insert # <<>> => ps[2].insert = <<n + 1 + Len(ps[1].insert)>>}
             All == {<<c>> : c \in One} \cup (IF MaxChanges = 2 THEN Two ELSE {})
             Fits == n + Len(FlattenSeq([k \in DOMAIN cs |-> cs[k].insert])) <= MaxItems
  <1>1. cs \in All /\ Fits
    BY DEF Transactions
  <1>n. n \in Nat /\ Len(d) \in Nat /\ MaxItems \in Nat
    BY EditorAssumption
  <1>2. ASSUME NEW c \in One
        PROVE  /\ c.from \in Int /\ c.to \in Int /\ 0 <= c.from /\ c.from <= c.to /\ c.to <= Len(d)
               /\ c.insert \in {<<>>, <<n + 1>>}
               /\ c = [from |-> c.from, to |-> c.to, insert |-> c.insert]
    BY <1>n
  <1>3. ASSUME NEW e \in At(2) \cup At(1), Real(e)
        PROVE  /\ e.from \in Int /\ e.to \in Int /\ 0 <= e.from /\ e.from <= e.to /\ e.to <= Len(d)
               /\ e = [from |-> e.from, to |-> e.to, insert |-> e.insert]
    BY <1>n, <1>3
  <1>4. ASSUME NEW i, NEW m \in Nat, i \in {<<>>, <<m + 1>>}
        PROVE  i \in Seq(Int)
    <2>1. <<>> \in Seq(Int) /\ <<m + 1>> \in Seq(Int)
      OBVIOUS
    <2> QED
      BY <1>4, <2>1
  <1>5. ASSUME NEW c, NEW i, i = c.insert, NEW m \in Nat, Typed(i, m),
               c.from \in Int, c.to \in Int, 0 <= c.from, c.from <= c.to, c.to <= Len(d),
               c = [from |-> c.from, to |-> c.to, insert |-> c.insert]
        PROVE  InText(c, d)
    <2>1. i \in Seq(Items)
      BY <1>5, TypedProperties
    <2> QED
      BY <1>5, <2>1 DEF InText
  <1>6. CASE \E c \in One : cs = <<c>>
    <2>1. PICK c \in One : cs = <<c>>
      BY <1>6
    <2>2. PICK i : i = c.insert /\ i \in {<<>>, <<n + 1>>}
      BY <1>2
    <2>3. i \in Seq(Int)
      BY <1>4, <1>n, <2>2
    <2>4. [k \in DOMAIN cs |-> cs[k].insert] = <<i>>
      BY <2>1, <2>2
    <2>5. FlattenSeq(<<i>>) = i
      BY <2>3, FlattenShort
    <2>6. Typed(i, n)
      BY <1>1, <2>2, <2>4, <2>5 DEF Typed
    <2>7. InText(c, d)
      BY <1>n, <1>2, <1>5, <2>2, <2>6
    <2> HIDE DEF One, n
    <2> QED
      BY <2>1, <2>2, <2>6, <2>7 DEF OneOf, n
  <1>7. CASE cs \in Two
    <2>1. PICK c \in One, e \in At(2) \cup At(1) : cs = <<c, e>>
      BY <1>7
    <2>2. Real(e) /\ c.to < e.from /\ (e.insert # <<>> => e.insert = <<n + 1 + Len(c.insert)>>)
      BY <1>7, <2>1
    <2>3. PICK i : i = c.insert /\ i \in {<<>>, <<n + 1>>}
      BY <1>2
    <2>4. i \in Seq(Int) /\ Len(i) \in Nat
      <3>1. i \in Seq(Int)
        BY <1>4, <1>n, <2>3
      <3> QED
        BY <3>1
    <2>5. PICK j, m : j = e.insert /\ m = n + Len(i) /\ m \in Nat /\ j \in {<<>>, <<m + 1>>}
      <3>1. n + 1 + Len(i) = (n + Len(i)) + 1 /\ n + Len(i) \in Nat
        BY <1>n, <2>4
      <3> QED
        BY <2>2, <2>3, <3>1
    <2>6. j \in Seq(Int)
      BY <1>4, <2>5
    <2>7. [k \in DOMAIN cs |-> cs[k].insert] = <<i, j>>
      BY <2>1, <2>3, <2>5
    <2>8. FlattenSeq(<<i, j>>) = i \o j
      BY <2>4, <2>6, FlattenShort
    <2>9. Len(i \o j) = Len(i) + Len(j) /\ Len(j) \in Nat
      BY <2>4, <2>6
    <2>10. n + (Len(i) + Len(j)) <= MaxItems
      BY <1>1, <2>7, <2>8, <2>9
    <2>11. Typed(i, n) /\ Typed(j, m)
      <3>1. n + Len(i) <= MaxItems /\ m + Len(j) <= MaxItems
        <4>1. PICK N \in Nat, a \in Nat, b \in Nat : N = n /\ a = Len(i) /\ b = Len(j)
          BY <1>n, <2>4, <2>9
        <4>2. N + (a + b) <= MaxItems /\ m = N + a
          BY <2>5, <2>10, <4>1
        <4>3. N + a <= MaxItems /\ m + b <= MaxItems
          BY <1>n, <4>2
        <4> QED
          BY <4>1, <4>3
      <3> QED
        BY <2>3, <2>5, <3>1 DEF Typed
    <2>12. InText(c, d)
      BY <1>n, <1>2, <1>5, <2>3, <2>11
    <2>13. InText(e, d)
      BY <1>3, <1>5, <2>2, <2>5, <2>11
    <2> HIDE DEF One, n, At, Real
    <2> QED
      BY <2>1, <2>2, <2>3, <2>5, <2>11, <2>12, <2>13 DEF TwoOf, n
  <1> QED
    BY <1>1, <1>6, <1>7

Rec == [from : Int, to : Int, insert : Seq(Items)]

LEMMA ShiftedChange ==
    ASSUME NEW c \in Rec, NEW v \in Int
    PROVE  /\ Shifted(c, v) \in Rec
           /\ Shifted(c, v).from = c.from + v /\ Shifted(c, v).to = c.to + v
           /\ Shifted(c, v).insert = c.insert
           /\ v = 0 => Shifted(c, v) = c
  <1>1. c = [from |-> c.from, to |-> c.to, insert |-> c.insert]
        /\ c.from \in Int /\ c.to \in Int /\ c.insert \in Seq(Items)
    BY DEF Rec
  <1>2. Shifted(c, v) = [from |-> c.from + v, to |-> c.to + v, insert |-> c.insert]
    <2>2. [c EXCEPT !.from = @ + v] = [from |-> c.from + v, to |-> c.to, insert |-> c.insert]
      BY DEF Rec
    <2>3. PICK e : e = [c EXCEPT !.from = @ + v] /\ e = [from |-> c.from + v, to |-> c.to, insert |-> c.insert]
      BY <2>2
    <2>4. /\ e \in Rec /\ e.from = c.from + v /\ e.to = c.to /\ e.insert = c.insert
      <3>1. e = [from |-> c.from + v, to |-> c.to, insert |-> c.insert] /\ c.from + v \in Int
        BY <1>1, <2>3
      <3> QED
        BY <1>1, <3>1 DEF Rec
    <2>5. [e EXCEPT !.to = @ + v] = [from |-> e.from, to |-> e.to + v, insert |-> e.insert]
      <3>1. e \in Rec
        BY <2>4
      <3> QED
        BY ONLY <3>1 DEF Rec
    <2>6. Shifted(c, v) = [e EXCEPT !.to = @ + v]
      BY <2>3 DEF Shifted
    <2> QED
      BY <2>4, <2>5, <2>6
  <1>3. v = 0 => c.from + v = c.from /\ c.to + v = c.to
    BY <1>1
  <1> QED
    BY <1>1, <1>2, <1>3 DEF Rec

LEMMA OneApplied ==
    ASSUME NEW cs, NEW c, NEW d, NEW n, OneOf(cs, c, d, n), NEW y, NEW slack
    PROVE  /\ ApplyLocalChanges(y, LocalChanges(cs), slack) = Applied(y, c, slack)
           /\ SimpleChanges(cs)
  <1>1. cs = <<c>> /\ c \in Rec
    BY DEF OneOf, InText, Rec
  <1>2. cs \in Seq(Rec) /\ DOMAIN cs = 1..1 /\ cs[1] = c
    BY <1>1
  <1>3. Net(cs, 1 - 1) = 0
    <2>1. 1 - 1 = 0
      OBVIOUS
    <2> QED
      BY <1>2, <2>1, NetOfNone
  <1>4. Shifted(c, 0) = c
    BY <1>1, ShiftedChange
  <1>5. \A k \in 1..1 : k = 1
    OBVIOUS
  <1>6. LocalChanges(cs) = [k \in 1..1 |-> Shifted(cs[k], Net(cs, k - 1))]
    BY <1>2 DEF LocalChanges, Shifted
  <1>7. LocalChanges(cs) = cs
    <2>1. \A k \in 1..1 : Shifted(cs[k], Net(cs, k - 1)) = cs[k]
      BY <1>2, <1>3, <1>4, <1>5
    <2>2. cs = [k \in 1..1 |-> cs[k]]
      BY <1>2
    <2> QED
      BY <1>6, <2>1, <2>2
  <1>8. ApplyLocalChanges(y, cs, slack) = Step(y, cs, 1, slack)
    BY <1>2, ApplyOne
  <1>9. Step(y, cs, 1, slack) = Applied(y, c, slack)
    BY <1>2, <1>3, <1>4 DEF Step
  <1>10. SimpleChanges(cs)
    BY <1>2, <1>3, <1>5 DEF SimpleChanges
  <1> QED
    BY <1>7, <1>8, <1>9, <1>10

TwiceApplied(y, c, e, v, slack) == Applied(Applied(y, c, slack), Shifted(Shifted(e, v), v), slack)

LEMMA TwoApplied ==
    ASSUME NEW cs, NEW c, NEW e, NEW d, NEW n \in Nat, TwoOf(cs, c, e, d, n), NEW y, NEW slack,
           NEW v, v = Len(c.insert) - (c.to - c.from)
    PROVE  /\ v \in Int
           /\ ApplyLocalChanges(y, LocalChanges(cs), slack) = TwiceApplied(y, c, e, v, slack)
           /\ SimpleChanges(cs) <=> v = 0
  <1>1. cs = <<c, e>> /\ c \in Rec /\ e \in Rec
    BY DEF TwoOf, InText, Rec
  <1>2. cs \in Seq(Rec) /\ DOMAIN cs = 1..2 /\ cs[1] = c /\ cs[2] = e /\ Len(cs) = 2
    BY <1>1
  <1>3. Len(c.insert) \in Int /\ c.to \in Int /\ c.from \in Int
    <2>1. c.insert \in Seq(Items)
      BY <1>1 DEF Rec
    <2> QED
      BY <1>1, <2>1 DEF Rec
  <1>a. v \in Int
    BY <1>3
  <1>4. \A k \in 1..2 : k = 1 \/ k = 2
    OBVIOUS
  <1>5. 1 - 1 = 0 /\ 2 - 1 = 1
    OBVIOUS
  <1>6. Net(cs, 0) = 0 /\ Net(cs, 1) = v
    <2>1. Net(cs, 0) = 0
      BY <1>2, NetOfNone
    <2>2. Net(cs, 1) = Len(c.insert) - (c.to - c.from)
      BY <1>2, <1>3, NetOfOne
    <2> QED
      BY <2>1, <2>2
  <1>7. Shifted(c, 0) = c /\ Shifted(e, v) \in Rec
    BY <1>1, <1>a, ShiftedChange
  <1>8. PICK ls : /\ ls = LocalChanges(cs) /\ ls = [k \in 1..2 |-> Shifted(cs[k], Net(cs, k - 1))]
    BY <1>2 DEF LocalChanges, Shifted
  <1>9. DOMAIN ls = 1..2 /\ ls[1] = c /\ ls[2] = Shifted(e, v)
    <2>1. DOMAIN ls = 1..2 /\ ls[1] = Shifted(cs[1], Net(cs, 1 - 1)) /\ ls[2] = Shifted(cs[2], Net(cs, 2 - 1))
      BY <1>8
    <2> QED
      BY <1>2, <1>5, <1>6, <1>7, <2>1
  <1>10. ls \in Seq(Rec) /\ Len(ls) >= 1
    <2>1. ls \in [1..2 -> Rec]
      <3>1. \A k \in 1..2 : ls[k] \in Rec
        BY <1>1, <1>4, <1>7, <1>9
      <3>2. ls = [k \in 1..2 |-> ls[k]]
        BY <1>8
      <3> QED
        BY <3>1, <3>2
    <2>2. PICK m \in Nat : m = 2 /\ ls \in [1..m -> Rec]
      BY <2>1
    <2>3. ls \in Seq(Rec) /\ Len(ls) = m
      <3> HIDE <1>8
      <3>1. ls \in [1..m -> Rec]
        BY <2>2
      <3> QED
        BY ONLY <3>1, m \in Nat
    <2> QED
      BY <2>2, <2>3
  <1>11. Net(ls, 0) = 0 /\ Net(ls, 1) = v
    <2>1. Net(ls, 0) = 0
      BY <1>10, NetOfNone
    <2>2. Net(ls, 1) = Len(c.insert) - (c.to - c.from)
      BY <1>3, <1>9, <1>10, NetOfOne
    <2> QED
      BY <2>1, <2>2
  <1>12. ApplyLocalChanges(y, ls, slack) = Step(Step(y, ls, 1, slack), ls, 2, slack)
    BY <1>9, ApplyTwo
  <1>13. Step(y, ls, 1, slack) = Applied(y, c, slack)
    BY <1>5, <1>7, <1>9, <1>11 DEF Step
  <1>14. ASSUME NEW x PROVE Step(x, ls, 2, slack) = Applied(x, Shifted(Shifted(e, v), v), slack)
    BY <1>5, <1>9, <1>11 DEF Step
  <1>15. SimpleChanges(cs) <=> v = 0
    BY <1>2, <1>4, <1>5, <1>6 DEF SimpleChanges
  <1> QED
    BY <1>a, <1>8, <1>12, <1>13, <1>14, <1>15 DEF TwiceApplied

(* What a transaction of the user makes of a replica. *)
Follows(z, y) ==
    /\ Sound(z)
    /\ \E G : z.has = y.has \cup G /\ ToSet(z.order) = ToSet(y.order) \cup G
    /\ y.dead \subseteq z.dead
    /\ OthersKeep(z, y)

LEMMA FollowsTwice ==
    ASSUME NEW x, NEW y, NEW z, Follows(x, y), Follows(z, x)
    PROVE  Follows(z, y)
  <1>1. PICK G : x.has = y.has \cup G /\ ToSet(x.order) = ToSet(y.order) \cup G
    BY DEF Follows
  <1>2. PICK H : z.has = x.has \cup H /\ ToSet(z.order) = ToSet(x.order) \cup H
    BY DEF Follows
  <1>3. z.has = y.has \cup (G \cup H) /\ ToSet(z.order) = ToSet(y.order) \cup (G \cup H)
    BY <1>1, <1>2
  <1>4. OthersKeep(z, y)
    <2>1. ToSet(y.order) \subseteq ToSet(x.order)
      BY <1>1
    <2> QED
      BY <2>1 DEF Follows, OthersKeep
  <1> QED
    BY <1>3, <1>4 DEF Follows

LEMMA AppliedFollows ==
    ASSUME NEW y, Sound(y), NEW c, c.from \in Int, c.to \in Int, c.from <= c.to,
           Typed(c.insert, Len(y.order)), NEW slack \in Nat, NEW z, z = Applied(y, c, slack)
    PROVE  Follows(z, y) /\ Len(z.order) = Len(y.order) + Len(c.insert)
  <1>1. Grown(z, y, c.insert) /\ y.dead \subseteq z.dead
    BY AppliedReplica
  <1> QED
    BY <1>1 DEF Grown, Follows

LEMMA LocalReplica ==
    ASSUME NEW y, Sound(y), y.order = order, NEW d \in Seq(Items), NEW cs \in Transactions(d),
           NEW slack \in Nat, NEW z, z = ApplyLocalChanges(y, LocalChanges(cs), slack)
    PROVE  Follows(z, y) /\ cs \in Changes(Items)
  <1>1. order \in Seq(Items) /\ Len(order) \in Nat
    BY DEF Sound, Replicas
  <1>2. ASSUME NEW c, OneOf(cs, c, d, Len(order))
        PROVE  Follows(z, y) /\ cs \in Changes(Items)
    <2>1. z = Applied(y, c, slack)
      BY <1>2, OneApplied
    <2>2. c.from \in Int /\ c.to \in Int /\ c.from <= c.to /\ Typed(c.insert, Len(y.order))
      BY <1>2 DEF OneOf, InText
    <2>3. Follows(z, y)
      BY <2>1, <2>2, AppliedFollows
    <2>4. cs \in Changes(Items)
      <3>1. cs = <<c>> /\ c \in Rec /\ Changes(Items) = Seq(Rec)
        BY <1>2 DEF OneOf, InText, Rec, Changes
      <3> QED
        BY <3>1
    <2> QED
      BY <2>3, <2>4
  <1>3. ASSUME NEW c, NEW e, TwoOf(cs, c, e, d, Len(order))
        PROVE  Follows(z, y) /\ cs \in Changes(Items)
    <2>0. cs = <<c, e>> /\ c \in Rec /\ e \in Rec /\ Changes(Items) = Seq(Rec)
      BY <1>3 DEF TwoOf, InText, Rec, Changes
    <2>1. PICK v \in Int : z = TwiceApplied(y, c, e, v, slack)
      BY <1>1, <1>3, TwoApplied
    <2>2. c.from \in Int /\ c.to \in Int /\ c.from <= c.to /\ Typed(c.insert, Len(y.order))
      BY <1>3 DEF TwoOf, InText
    <2>3. PICK x : x = Applied(y, c, slack)
      OBVIOUS
    <2>4. Follows(x, y) /\ Len(x.order) = Len(order) + Len(c.insert)
      BY <2>2, <2>3, AppliedFollows
    <2>5. PICK g : g = Shifted(Shifted(e, v), v)
      OBVIOUS
    <2>6. g.from = e.from + v + v /\ g.to = e.to + v + v /\ g.insert = e.insert
      <3>1. PICK h : h = Shifted(e, v) /\ h \in Rec
        BY <2>0, ShiftedChange
      <3>2. h.from = e.from + v /\ h.to = e.to + v /\ h.insert = e.insert
        BY <2>0, <3>1, ShiftedChange
      <3>3. g.from = h.from + v /\ g.to = h.to + v /\ g.insert = h.insert
        BY <2>5, <3>1, ShiftedChange
      <3> QED
        BY <3>2, <3>3
    <2>7. g.from \in Int /\ g.to \in Int /\ g.from <= g.to /\ Typed(g.insert, Len(x.order))
      <3>1. e.from \in Int /\ e.to \in Int /\ e.from <= e.to
        BY <1>3 DEF TwoOf, InText
      <3>2. Typed(e.insert, Len(x.order))
        BY <1>3, <2>4 DEF TwoOf
      <3> QED
        BY <2>6, <3>1, <3>2
    <2>8. z = Applied(x, g, slack)
      BY <2>1, <2>3, <2>5 DEF TwiceApplied
    <2>9. Sound(x)
      BY <2>4 DEF Follows
    <2>10. Follows(z, x)
      BY <2>7, <2>8, <2>9, AppliedFollows
    <2>11. cs \in Changes(Items)
      BY <2>0
    <2> QED
      BY <2>4, <2>10, <2>11, FollowsTwice
  <1> QED
    BY <1>1, <1>2, <1>3, TransactionForms

LEMMA LocalText ==
    ASSUME NEW y, Sound(y), y.order = order, NEW d, d = PlainText(y), NEW cs \in Transactions(d),
           SimpleChanges(cs),
           NEW slack \in Nat, NEW z, z = ApplyLocalChanges(y, LocalChanges(cs), slack)
    PROVE  PlainText(z) = Edited(d, cs)
  <1>0. d \in Seq(Items)
    BY PlainTextType
  <1>1. order \in Seq(Items) /\ Len(order) \in Nat
    BY DEF Sound, Replicas
  <1>2. ASSUME NEW c, OneOf(cs, c, d, Len(order))
        PROVE  PlainText(z) = Edited(d, cs)
    <2>1. z = Applied(y, c, slack)
      BY <1>2, OneApplied
    <2>2. /\ c \in [from : Int, to : Int, insert : Seq(Items)]
          /\ 0 <= c.from /\ c.from <= c.to /\ c.to <= Len(d)
          /\ Typed(c.insert, Len(y.order)) /\ cs = <<c>>
      BY <1>2 DEF OneOf, InText
    <2>3. c.from \in 0..Len(d) /\ c.to \in c.from..Len(d)
      BY <2>2
    <2>4. PlainText(z) = Splice(d, c.from, c.to, c.insert)
      BY <2>1, <2>2, <2>3, AppliedText
    <2>5. Edited(d, <<c>>) = Splice(d, c.from, c.to, c.insert)
      BY <1>0, <2>2, OneChange
    <2> QED
      BY <2>2, <2>4, <2>5
  <1>3. ASSUME NEW c, NEW e, TwoOf(cs, c, e, d, Len(order))
        PROVE  PlainText(z) = Edited(d, cs)
    <2>0. /\ c \in [from : Int, to : Int, insert : Seq(Items)]
          /\ 0 <= c.from /\ c.from <= c.to /\ c.to <= Len(d)
          /\ e \in [from : Int, to : Int, insert : Seq(Items)]
          /\ 0 <= e.from /\ e.from <= e.to /\ e.to <= Len(d)
          /\ cs = <<c, e>> /\ c.to < e.from
          /\ Typed(c.insert, Len(y.order)) /\ Typed(e.insert, Len(y.order) + Len(c.insert))
      BY <1>3 DEF TwoOf, InText
    <2>1. PICK v : v = Len(c.insert) - (c.to - c.from)
      OBVIOUS
    <2>2. z = TwiceApplied(y, c, e, v, slack) /\ v = 0
      BY <1>1, <1>3, <2>1, TwoApplied
    <2>3. PICK x : x = Applied(y, c, slack)
      OBVIOUS
    <2>4. Shifted(Shifted(e, v), v) = e
      <3>1. e \in Rec /\ v \in Int
        BY <2>0, <2>2 DEF Rec
      <3>2. Shifted(e, v) = e
        BY <2>2, <3>1, ShiftedChange
      <3> QED
        BY <3>2
    <2>5. z = Applied(x, e, slack)
      BY <2>2, <2>3, <2>4 DEF TwiceApplied
    <2>6. c.from \in Int /\ c.to \in Int /\ c.from <= c.to /\ Typed(c.insert, Len(y.order))
      BY <2>0
    <2>7. Follows(x, y) /\ Len(x.order) = Len(y.order) + Len(c.insert)
      BY <2>3, <2>6, AppliedFollows
    <2>8. Sound(x) /\ Typed(e.insert, Len(x.order))
      BY <2>0, <2>7 DEF Follows
    <2>9. c.from \in 0..Len(d) /\ c.to \in c.from..Len(d)
      BY <2>0
    <2>10. PICK w : w = PlainText(x) /\ w = Splice(d, c.from, c.to, c.insert)
      <3>1. Sound(y) /\ d = PlainText(y) /\ Typed(c.insert, Len(y.order)) /\ x = Applied(y, c, slack)
        BY <2>0, <2>3
      <3> HIDE DEF Sound, Typed
      <3> QED
        BY <2>9, <3>1, AppliedText
    <2>11. PICK f, t, i : /\ f = c.from /\ t = c.to /\ i = c.insert
                          /\ f \in 0..Len(d) /\ t \in f..Len(d) /\ i \in Seq(Items)
      BY <2>0, <2>9
    <2>12. Len(i) = t - f
      <3>1. Len(i) \in Int /\ t \in Int /\ f \in Int /\ Len(i) - (t - f) = 0
        BY <1>0, <2>1, <2>2, <2>11
      <3> QED
        BY <3>1
    <2>13. Len(w) = Len(d)
      <3>1. Stretch(f, t, Len(d))
        BY <2>11 DEF Stretch
      <3>2. IsSplice(w, d, f, t, i, Items)
        BY <1>0, <2>10, <2>11, <3>1, SplicePlaces
      <3>3. Len(w) = f + (t - f) + (Len(d) - t)
        BY <2>12, <3>2 DEF IsSplice
      <3>4. f \in Int /\ t \in Int /\ Len(d) \in Int
        BY <1>0, <2>11
      <3> QED
        BY <3>3, <3>4
    <2>14. e.from \in 0..Len(w) /\ e.to \in e.from..Len(w)
      BY <1>0, <2>0, <2>13
    <2>15. PlainText(z) = Splice(w, e.from, e.to, e.insert)
      <3>1. Sound(x) /\ Typed(e.insert, Len(x.order)) /\ z = Applied(x, e, slack) /\ w = PlainText(x)
        BY <2>5, <2>8, <2>10
      <3> HIDE DEF Sound, Typed
      <3> QED
        BY <2>14, <3>1, AppliedText
    <2>16. Edited(d, <<c, e>>) = Splice(Splice(d, c.from, c.to, c.insert), e.from, e.to, e.insert)
      <3>1. Len(c.insert) = c.to - c.from
        BY <2>11, <2>12
      <3> QED
        <4>1. EditedTwice(d, c, e)
          BY <1>0, <2>0, <3>1, TwoChanges
        <4> QED
          BY <4>1 DEF EditedTwice
    <2> QED
      BY <2>0, <2>10, <2>15, <2>16
  <1> QED
    BY <1>0, <1>1, <1>2, <1>3, TransactionForms

-------------------------------------------------------------------------------
(* An update of another editor: the delta.                                 *)

LEMMA RunTyped ==
    ASSUME NEW X, NEW v \in X, NEW n \in Nat, NEW F, Steps(F, n, X), NEW r, DOMAIN r = 0..n,
           r = [k \in 0..n |-> r[k]],
           r[0] = v, \A k \in 1..n : r[k - 1] \in X => r[k] = F[k][r[k - 1]]
    PROVE  IsRun(r, v, F, n, X)
  <1> DEFINE T == {k \in 0..n : r[k] \notin X}
  <1>1. ASSUME T # {} PROVE FALSE
    <2>1. T \in SUBSET Nat
      OBVIOUS
    <2>2. PICK k \in T : \A j \in T : k <= j
      BY <1>1, <2>1, Smallest
    <2>3. k \in 0..n /\ k # 0
      BY <2>2
    <2>4. k \in 1..n /\ k - 1 \in 0..n /\ ~(k <= k - 1)
      BY <2>3
    <2>5. r[k - 1] \in X
      BY <2>2, <2>4
    <2>6. r[k] = F[k][r[k - 1]] /\ F[k] \in [X -> X]
      BY <2>4, <2>5 DEF Steps
    <2> QED
      BY <2>2, <2>5, <2>6
  <1>2. \A k \in 0..n : r[k] \in X
    BY <1>1
  <1>3. \A k \in 1..n : k - 1 \in 0..n
    OBVIOUS
  <1>4. r \in [0..n -> X]
    BY <1>2
  <1> QED
    BY <1>2, <1>3, <1>4 DEF IsRun

Kind(i, was, is) ==
    IF i \in was THEN (IF i \in is THEN "retain" ELSE "delete") ELSE "insert"

OpSet == [op : {"retain", "delete", "insert"}, items : Seq(Items)]

(* One more item in a delta. *)
Lengthened(d, i, was, is) ==
    IF d # <<>> /\ Last(d).op = Kind(i, was, is)
    THEN Append(Front(d), [op |-> Kind(i, was, is), items |-> Append(Last(d).items, i)])
    ELSE Append(d, [op |-> Kind(i, was, is), items |-> <<i>>])

LEMMA LengthenedType ==
    ASSUME NEW d \in Seq(OpSet), NEW i \in Items, NEW was, NEW is
    PROVE  Lengthened(d, i, was, is) \in Seq(OpSet)
  <1>0. Kind(i, was, is) \in {"retain", "delete", "insert"}
    BY DEF Kind
  <1>1. PICK K : K = Kind(i, was, is) /\ K \in {"retain", "delete", "insert"}
    BY <1>0
  <1>2. <<i>> \in Seq(Items)
    OBVIOUS
  <1>3. PICK o : o = [op |-> K, items |-> <<i>>] /\ o \in OpSet
    <2>1. [op |-> K, items |-> <<i>>] \in OpSet
      BY <1>1, <1>2 DEF OpSet
    <2> QED
      BY <2>1
  <1>4. Append(d, o) \in Seq(OpSet)
    BY <1>3
  <1>5. ASSUME d # <<>>
        PROVE  Append(Front(d), [op |-> K, items |-> Append(Last(d).items, i)]) \in Seq(OpSet)
    <2>1. Len(d) \in Nat /\ Len(d) # 0
      BY <1>5, EmptySeq
    <2>2. Last(d) \in OpSet
      BY <2>1 DEF Last
    <2>3. Last(d).items \in Seq(Items)
      BY <2>2 DEF OpSet
    <2>4. PICK w : w = Append(Last(d).items, i) /\ w \in Seq(Items)
      <3>1. Append(Last(d).items, i) \in Seq(Items)
        BY <2>3
      <3> QED
        BY <3>1
    <2>5. PICK p : p = [op |-> K, items |-> w] /\ p \in OpSet
      <3>1. [op |-> K, items |-> w] \in OpSet
        BY <1>1, <2>4 DEF OpSet
      <3> QED
        BY <3>1
    <2>6. Front(d) \in Seq(OpSet)
      <3>1. 1 \in 1..Len(d) + 1 /\ Len(d) - 1 \in 1 - 1..Len(d)
        BY <2>1
      <3>2. SubSeq(d, 1, Len(d) - 1) \in Seq(OpSet)
        BY <3>1, PartProperties
      <3> QED
        BY <3>2 DEF Front
    <2> QED
      BY <2>4, <2>5, <2>6
  <1> QED
    BY <1>1, <1>3, <1>4, <1>5 DEF Lengthened

(* The delta after each item. *)
DeltaRun(r, u, was, is) ==
    /\ r \in [0..Len(u) -> Seq(OpSet)]
    /\ r[0] = <<>>
    /\ \A k \in 1..Len(u) : r[k] = Lengthened(r[k - 1], u[k], was, is)

DeltaOf(u, was, is) == FoldLeft(LAMBDA d, i : Lengthened(d, i, was, is), <<>>, u)

LEMMA DeltaIsOf ==
    ASSUME NEW y, NEW z
    PROVE  Delta(y, z) = DeltaOf(Among(z.order, (y.has \ y.dead) \cup (z.has \ z.dead)),
                                 y.has \ y.dead, z.has \ z.dead)
  BY DEF Delta, DeltaOf, Lengthened, Kind

LEMMA DeltaRunExists ==
    ASSUME NEW u \in Seq(Items), NEW was, NEW is
    PROVE  \E r : DeltaRun(r, u, was, is) /\ DeltaOf(u, was, is) = r[Len(u)]
  <1>0. PICK n \in Nat : n = Len(u) /\ DOMAIN u = 1..n /\ \A k \in 1..n : u[k] \in Items
    <2>1. \A k \in 1..Len(u) : u[k] \in Items
      OBVIOUS
    <2> QED
      BY <2>1
  <1> DEFINE X == Seq(OpSet)
             F == [k \in 1..n |-> [d \in X |-> Lengthened(d, u[k], was, is)]]
             Folds(g) == g = [s \in SUBSET (1..n) |->
                                 IF s = {} THEN <<>>
                                 ELSE Lengthened(g[s \ {Max(s)}], u[Max(s)], was, is)]
             iter == CHOOSE g : Folds(g)
             r == [k \in 0..n |-> iter[1..k]]
  <1>2. DeltaOf(u, was, is) = iter[1..n]
    BY <1>0 DEF DeltaOf, FoldLeft, MapThenFoldSet
  <1>3. Steps(F, n, X)
    BY <1>0, LengthenedType DEF Steps
  <1>4. <<>> \in X
    OBVIOUS
  <1>5. \E g : Folds(g)
    <2>1. F \in [1..n -> [X -> X]]
      BY <1>3 DEF Steps
    <2> HIDE DEF X, F
    <2>2. PICK g \in [SUBSET (1..n) -> X] : Unfolds(g, <<>>, F, n)
      BY <1>4, <2>1, Recursion
    <2>3. ASSUME NEW s \in SUBSET (1..n)
          PROVE  g[s] = IF s = {} THEN <<>> ELSE Lengthened(g[s \ {Max(s)}], u[Max(s)], was, is)
      <3>1. CASE s = {}
        BY <2>2, <3>1 DEF Unfolds
      <3>2. CASE s # {}
        <4>1. Max(s) \in 1..n
          BY <3>2, MaxOfInterval
        <4>2. g[s \ {Max(s)}] \in X
          OBVIOUS
        <4>3. g[s] = F[Max(s)][g[s \ {Max(s)}]]
          BY <2>2, <3>2 DEF Unfolds
        <4> QED
          BY <3>2, <4>1, <4>2, <4>3 DEF F
      <3> QED
        BY <3>1, <3>2
    <2>4. Folds(g)
      BY <2>3
    <2> QED
      BY <2>4
  <1>6. Folds(iter)
    BY <1>5
  <1> HIDE DEF iter, F, X
  <1>7. r[0] = <<>>
    <2>1. r[0] = iter[{}]
      OBVIOUS
    <2> QED
      BY <1>6, <2>1
  <1>8. ASSUME NEW k \in 1..n
        PROVE  r[k] = Lengthened(r[k - 1], u[k], was, is)
    <2>1. /\ 1..k \in SUBSET (1..n) /\ 1..k # {}
          /\ Max(1..k) = k /\ (1..k) \ {k} = 1..k - 1
      BY MaxOfPrefix
    <2>2. iter[1..k] = Lengthened(iter[(1..k) \ {Max(1..k)}], u[Max(1..k)], was, is)
      BY <1>6, <2>1
    <2>3. r[k] = iter[1..k] /\ r[k - 1] = iter[1..k - 1]
      OBVIOUS
    <2> QED
      BY <2>1, <2>2, <2>3
  <1>9. DOMAIN r = 0..n /\ r[n] = iter[1..n] /\ r = [k \in 0..n |-> r[k]]
    OBVIOUS
  <1> HIDE DEF r
  <1>10. IsRun(r, <<>>, F, n, X)
    <2>1. \A k \in 1..n : r[k - 1] \in X => r[k] = F[k][r[k - 1]]
      BY <1>8 DEF F
    <2> QED
      BY <1>3, <1>4, <1>7, <1>9, <2>1, RunTyped
  <1>11. DeltaRun(r, u, was, is)
    BY <1>0, <1>7, <1>8, <1>10 DEF DeltaRun, IsRun, X
  <1> QED
    BY <1>0, <1>2, <1>9, <1>11

PartGrows(u, a, j) == Part(u, a, j) = Append(Part(u, a, j - 1), u[j])

LEMMA GrowingPart ==
    ASSUME NEW S, NEW u \in Seq(S), NEW j \in 1..Len(u), NEW a \in 0..j - 1
    PROVE  PartGrows(u, a, j)
  <1>1. a + 1 \in 1..Len(u) /\ j \in a + 1..Len(u)
    OBVIOUS
  <1>2. SubSeq(u, a + 1, j) = SubSeq(u, a + 1, j - 1) \o <<u[j]>>
    BY <1>1, SubSeqRecursiveSecond
  <1>3. PICK p : p = Part(u, a, j - 1) /\ p \in Seq(S)
    <2>1. Stretch(a, j - 1, Len(u))
      BY DEF Stretch
    <2>2. IsPart(Part(u, a, j - 1), u, a, j - 1, S)
      BY <2>1, PartType
    <2> QED
      BY <2>2 DEF IsPart
  <1>4. u[j] \in S
    OBVIOUS
  <1>5. p \o <<u[j]>> = Append(p, u[j])
    BY <1>3, <1>4
  <1> QED
    BY <1>2, <1>3, <1>5 DEF PartGrows, Part

(* Where the operations of a delta begin and end, in the first j items. *)
Cuts(c, d, u, j, was, is) ==
    /\ c \in [0..Len(d) -> 0..j] /\ c[0] = 0 /\ c[Len(d)] = j
    /\ \A k \in 1..Len(d) : /\ c[k - 1] < c[k]
                            /\ d[k].items = Part(u, c[k - 1], c[k])
                            /\ \A p \in c[k - 1] + 1..c[k] : Kind(u[p], was, is) = d[k].op

(* The delta w with one more operation, or with the last one replaced. *)
LastReplaced(w, d, o) ==
    Len(w) = Len(d) /\ w[Len(d)] = o /\ \A k \in 1..Len(d) - 1 : w[k] = d[k]

LEMMA ReplacingLast ==
    ASSUME NEW S, NEW d \in Seq(S), d # <<>>, NEW o \in S
    PROVE  LastReplaced(Append(Front(d), o), d, o)
  <1>1. PICK K \in Nat : K = Len(d) /\ K # 0
    BY EmptySeq
  <1>2. 1 \in 1..Len(d) + 1 /\ K - 1 \in 1 - 1..Len(d)
    BY <1>1
  <1>3. PICK f : f = Front(d) /\ f = SubSeq(d, 1, K - 1)
    BY <1>1 DEF Front
  <1>4. f \in Seq(S) /\ Len(f) = K - 1 - 1 + 1 /\ \A k \in 1..K - 1 - 1 + 1 : f[k] = d[1 + k - 1]
    BY <1>2, <1>3, PartProperties
  <1>5. Len(f) = K - 1 /\ \A k \in 1..K - 1 : f[k] = d[k]
    <2>1. K - 1 - 1 + 1 = K - 1 /\ \A k \in 1..K - 1 : 1 + k - 1 = k
      BY <1>1
    <2> QED
      BY <1>4, <2>1
  <1>6. PICK w : w = Append(f, o)
    OBVIOUS
  <1>7. Len(w) = Len(f) + 1 /\ w[Len(f) + 1] = o /\ \A k \in 1..Len(f) : w[k] = f[k]
    BY <1>4, <1>6, AppendProperties
  <1>8. Len(f) + 1 = K
    BY <1>1, <1>5
  <1> QED
    BY <1>1, <1>3, <1>5, <1>6, <1>7, <1>8 DEF LastReplaced

LEMMA CutsOfMerged ==
    ASSUME NEW u \in Seq(Items), NEW j \in 1..Len(u), NEW was, NEW is,
           NEW d \in Seq(OpSet), NEW c, Cuts(c, d, u, j - 1, was, is),
           d # <<>>, Last(d).op = Kind(u[j], was, is)
    PROVE  \E e : Cuts(e, Lengthened(d, u[j], was, is), u, j, was, is)
  <1>1. PICK K \in Nat : K = Len(d) /\ K # 0 /\ K \in 1..K /\ K - 1 \in 0..K
    <2>1. Len(d) \in Nat /\ Len(d) # 0
      BY EmptySeq
    <2> QED
      BY <2>1
  <1>2. PICK op : op = Kind(u[j], was, is) /\ d[K].op = op
    BY <1>1 DEF Last
  <1>3. PICK it : it = Append(d[K].items, u[j])
    OBVIOUS
  <1>4. PICK o : o = [op |-> op, items |-> it]
    OBVIOUS
  <1>5. o \in OpSet
    <2>1. d[K] \in OpSet
      BY <1>1
    <2>2. d[K].items \in Seq(Items) /\ op \in {"retain", "delete", "insert"}
      BY <1>2, <2>1 DEF OpSet
    <2>3. u[j] \in Items
      OBVIOUS
    <2>4. it \in Seq(Items)
      BY <1>3, <2>2, <2>3
    <2> QED
      BY <1>4, <2>2, <2>4 DEF OpSet
  <1>6. PICK w : w = Lengthened(d, u[j], was, is) /\ w = Append(Front(d), o)
    BY <1>1, <1>2, <1>3, <1>4 DEF Lengthened, Last
  <1>7. LastReplaced(w, d, o)
    BY <1>5, <1>6, ReplacingLast
  <1>8. Len(w) = K /\ w[K] = o /\ \A k \in 1..K - 1 : w[k] = d[k]
    BY <1>1, <1>7 DEF LastReplaced
  <1>9. /\ c \in [0..K -> 0..j - 1] /\ c[0] = 0 /\ c[K] = j - 1
        /\ \A k \in 1..K : /\ c[k - 1] < c[k]
                           /\ d[k].items = Part(u, c[k - 1], c[k])
                           /\ \A p \in c[k - 1] + 1..c[k] : Kind(u[p], was, is) = d[k].op
    BY <1>1 DEF Cuts
  <1> DEFINE e == [k \in 0..K |-> IF k = K THEN j ELSE c[k]]
  <1>10. e \in [0..K -> 0..j] /\ e[0] = 0 /\ e[K] = j
    <2>1. \A k \in 0..K : c[k] \in 0..j /\ j \in 0..j
      BY <1>9
    <2>2. 0 # K /\ 0 \in 0..K /\ K \in 0..K
      BY <1>1
    <2> QED
      BY <1>9, <2>1, <2>2
  <1>11. ASSUME NEW k \in 1..K
         PROVE  /\ e[k - 1] < e[k]
                /\ w[k].items = Part(u, e[k - 1], e[k])
                /\ \A p \in e[k - 1] + 1..e[k] : Kind(u[p], was, is) = w[k].op
    <2>0. k - 1 \in 0..K /\ k \in 0..K /\ k - 1 # K
      OBVIOUS
    <2>1. e[k - 1] = c[k - 1]
      BY <2>0
    <2>2. CASE k # K
      <3>1. e[k] = c[k] /\ k \in 1..K - 1
        BY <2>0, <2>2
      <3>2. w[k] = d[k]
        BY <1>8, <3>1
      <3> HIDE DEF e
      <3> QED
        BY <1>9, <2>1, <3>1, <3>2
    <2>3. CASE k = K
      <3>1. e[k] = j
        BY <2>0, <2>3
      <3> HIDE DEF e
      <3>2. PICK a : a = c[K - 1] /\ a \in 0..j - 1 /\ e[k - 1] = a
        BY <1>1, <1>9, <2>1, <2>3
      <3>3. a < j
        BY <3>2
      <3>4. it = Append(Part(u, a, j - 1), u[j])
        BY <1>1, <1>3, <1>9, <3>2
      <3>5. PartGrows(u, a, j)
        BY <3>2, GrowingPart
      <3>6. it = Part(u, a, j)
        BY <3>4, <3>5 DEF PartGrows
      <3>7. ASSUME NEW p \in a + 1..j PROVE Kind(u[p], was, is) = op
        <4>1. CASE p = j
          BY <1>2, <4>1
        <4>2. CASE p # j
          <5>1. p \in a + 1..j - 1
            BY <3>2, <4>2
          <5> QED
            BY <1>1, <1>2, <1>9, <3>2, <5>1
        <4> QED
          BY <4>1, <4>2
      <3>8. w[k].items = it /\ w[k].op = op
        BY <1>4, <1>8, <2>3
      <3> QED
        BY <3>1, <3>2, <3>3, <3>6, <3>7, <3>8
    <2> QED
      BY <2>2, <2>3
  <1> HIDE DEF e
  <1>12. Cuts(e, w, u, j, was, is)
    BY <1>8, <1>10, <1>11 DEF Cuts
  <1> QED
    BY <1>6, <1>12

LEMMA CutsOfAppended ==
    ASSUME NEW u \in Seq(Items), NEW j \in 1..Len(u), NEW was, NEW is,
           NEW d \in Seq(OpSet), NEW c, Cuts(c, d, u, j - 1, was, is),
           ~(d # <<>> /\ Last(d).op = Kind(u[j], was, is))
    PROVE  \E e : Cuts(e, Lengthened(d, u[j], was, is), u, j, was, is)
  <1>1. PICK K \in Nat : K = Len(d)
    OBVIOUS
  <1>2. PICK op : op = Kind(u[j], was, is)
    OBVIOUS
  <1>4. PICK o : o = [op |-> op, items |-> <<u[j]>>]
    OBVIOUS
  <1>6. PICK w : w = Lengthened(d, u[j], was, is) /\ w = Append(d, o)
    BY <1>2, <1>4 DEF Lengthened
  <1>8. Len(w) = K + 1 /\ w[K + 1] = o /\ \A k \in 1..K : w[k] = d[k]
    <2>1. u[j] \in Items /\ op \in {"retain", "delete", "insert"}
      BY <1>2 DEF Kind
    <2>2. <<u[j]>> \in Seq(Items)
      BY <2>1
    <2>3. o \in OpSet
      BY <1>4, <2>1, <2>2 DEF OpSet
    <2>4. Len(w) = Len(d) + 1 /\ w[Len(d) + 1] = o /\ \A k \in 1..Len(d) : w[k] = d[k]
      BY <1>6, <2>3, AppendProperties
    <2> QED
      BY <1>1, <2>4
  <1>9. /\ c \in [0..K -> 0..j - 1] /\ c[0] = 0 /\ c[K] = j - 1
        /\ \A k \in 1..K : /\ c[k - 1] < c[k]
                           /\ d[k].items = Part(u, c[k - 1], c[k])
                           /\ \A p \in c[k - 1] + 1..c[k] : Kind(u[p], was, is) = d[k].op
    BY <1>1 DEF Cuts
  <1> DEFINE e == [k \in 0..K + 1 |-> IF k = K + 1 THEN j ELSE c[k]]
  <1>10. e \in [0..K + 1 -> 0..j] /\ e[0] = 0 /\ e[K + 1] = j
    <2>1. \A k \in 0..K + 1 : k # K + 1 => c[k] \in 0..j
      <3> TAKE k \in 0..K + 1
      <3> HAVE k # K + 1
      <3>1. k \in 0..K
        BY <1>1
      <3>2. c[k] \in 0..j - 1
        BY <1>9, <3>1
      <3> QED
        BY <3>2
    <2>2. 0 # K + 1 /\ 0 \in 0..K + 1 /\ K + 1 \in 0..K + 1 /\ j \in 0..j
      BY <1>1
    <2> QED
      BY <1>9, <2>1, <2>2
  <1>11. ASSUME NEW k \in 1..K + 1
         PROVE  /\ e[k - 1] < e[k]
                /\ w[k].items = Part(u, e[k - 1], e[k])
                /\ \A p \in e[k - 1] + 1..e[k] : Kind(u[p], was, is) = w[k].op
    <2>0. k - 1 \in 0..K + 1 /\ k \in 0..K + 1 /\ k - 1 # K + 1
      BY <1>1
    <2>1. e[k - 1] = c[k - 1]
      BY <2>0
    <2>2. CASE k # K + 1
      <3>1. e[k] = c[k] /\ k \in 1..K
        BY <2>0, <2>2
      <3>2. w[k] = d[k]
        BY <1>8, <3>1
      <3> HIDE DEF e
      <3> QED
        BY <1>9, <2>1, <3>1, <3>2
    <2>3. CASE k = K + 1
      <3>1. e[k] = j
        BY <2>0, <2>3
      <3> HIDE DEF e
      <3>2. k - 1 = K /\ e[k - 1] = j - 1
        BY <1>1, <1>9, <2>1, <2>3
      <3>3. j - 1 < j
        OBVIOUS
      <3>4. <<u[j]>> = Part(u, j - 1, j)
        <4>1. PartGrows(u, j - 1, j)
          <5>1. j - 1 \in 0..j - 1
            OBVIOUS
          <5> QED
            BY <5>1, GrowingPart
        <4>2. Part(u, j - 1, j - 1) = <<>>
          BY WholePart
        <4>3. Append(<<>>, u[j]) = <<u[j]>>
          OBVIOUS
        <4> QED
          BY <4>1, <4>2, <4>3 DEF PartGrows
      <3>7. ASSUME NEW p \in (j - 1) + 1..j PROVE Kind(u[p], was, is) = op
        <4>1. p = j
          OBVIOUS
        <4> QED
          BY <1>2, <4>1
      <3>8. w[k].items = <<u[j]>> /\ w[k].op = op
        BY <1>4, <1>8, <2>3
      <3> QED
        BY <3>1, <3>2, <3>3, <3>4, <3>7, <3>8
    <2> QED
      BY <2>2, <2>3
  <1> HIDE DEF e
  <1>12. Cuts(e, w, u, j, was, is)
    BY <1>8, <1>10, <1>11 DEF Cuts
  <1> QED
    BY <1>6, <1>12

LEMMA DeltaHasCuts ==
    ASSUME NEW u \in Seq(Items), NEW was, NEW is
    PROVE  /\ DeltaOf(u, was, is) \in Seq(OpSet)
           /\ \E c : Cuts(c, DeltaOf(u, was, is), u, Len(u), was, is)
  <1>0. PICK n \in Nat : n = Len(u)
    OBVIOUS
  <1>1. PICK r : DeltaRun(r, u, was, is) /\ DeltaOf(u, was, is) = r[n]
    BY <1>0, DeltaRunExists
  <1>2. /\ r \in [0..n -> Seq(OpSet)] /\ r[0] = <<>>
        /\ \A k \in 1..n : r[k] = Lengthened(r[k - 1], u[k], was, is)
    BY <1>0, <1>1 DEF DeltaRun
  <1> DEFINE T == {k \in 0..n : ~\E c : Cuts(c, r[k], u, k, was, is)}
  <1>3. 0 \notin T
    <2>1. Cuts([k \in 0..0 |-> 0], <<>>, u, 0, was, is)
      <3>1. Len(<<>>) = 0 /\ 1..0 = {} /\ [k \in 0..0 |-> 0] \in [0..0 -> 0..0] /\ [k \in 0..0 |-> 0][0] = 0
        OBVIOUS
      <3> QED
        BY <3>1 DEF Cuts
    <2> QED
      BY <1>2, <2>1
  <1>4. ASSUME T # {} PROVE FALSE
    <2>1. T \in SUBSET Nat
      OBVIOUS
    <2>2. PICK k \in T : \A j \in T : k <= j
      BY <1>4, <2>1, Smallest
    <2>3. k \in 0..n /\ k # 0
      BY <1>3
    <2>4. k \in 1..n /\ k - 1 \in 0..n /\ ~(k <= k - 1)
      BY <2>3
    <2>5. PICK c : Cuts(c, r[k - 1], u, k - 1, was, is)
      BY <2>2, <2>4
    <2>6. PICK d : d = r[k - 1] /\ d \in Seq(OpSet) /\ r[k] = Lengthened(d, u[k], was, is)
      BY <1>2, <2>4
    <2>7. k \in 1..Len(u)
      BY <1>0, <2>4
    <2>8. \E e : Cuts(e, Lengthened(d, u[k], was, is), u, k, was, is)
      BY <2>5, <2>6, <2>7, CutsOfMerged, CutsOfAppended
    <2> QED
      BY <2>2, <2>6, <2>8
  <1>5. n \in 0..n
    OBVIOUS
  <1> QED
    BY <1>0, <1>1, <1>2, <1>4, <1>5

-------------------------------------------------------------------------------
(* An update of another editor: the changes of CodeMirror.                 *)

Patched(a, op) ==
    LET n == Len(op.items) IN
    CASE op.op = "retain" -> [a EXCEPT !.pos = @ + n]
      [] op.op = "delete" -> [a EXCEPT !.changes = Append(@, [from |-> a.pos, to |-> a.pos + n, insert |-> <<>>])]
      [] op.op = "insert" -> [pos |-> a.pos + n, changes |-> Append(a.changes, [from |-> a.pos, to |-> a.pos, insert |-> op.items])]

Patches == [pos : Int, changes : Seq(Rec)]

LEMMA PatchedBy ==
    ASSUME NEW a \in Patches, NEW op \in OpSet
    PROVE  /\ op.op = "retain" => /\ Patched(a, op).pos = a.pos + Len(op.items)
                                  /\ Patched(a, op).changes = a.changes
           /\ op.op = "delete" => /\ Patched(a, op).pos = a.pos
                                  /\ Patched(a, op).changes = Append(a.changes,
                                        [from |-> a.pos, to |-> a.pos + Len(op.items), insert |-> <<>>])
           /\ op.op = "insert" => /\ Patched(a, op).pos = a.pos + Len(op.items)
                                  /\ Patched(a, op).changes = Append(a.changes,
                                        [from |-> a.pos, to |-> a.pos, insert |-> op.items])
           /\ Patched(a, op) \in Patches
  <1>0. PICK n : n = Len(op.items) /\ n \in Nat
    <2>1. op.items \in Seq(Items)
      BY DEF OpSet
    <2> QED
      BY <2>1
  <1>1. a.pos \in Int /\ a.changes \in Seq(Rec) /\ a = [pos |-> a.pos, changes |-> a.changes]
    BY DEF Patches
  <1>2. op.items \in Seq(Items) /\ <<>> \in Seq(Items)
    BY DEF OpSet
  <1>3. PICK D, I : /\ D = [from |-> a.pos, to |-> a.pos + n, insert |-> <<>>] /\ D \in Rec
                    /\ I = [from |-> a.pos, to |-> a.pos, insert |-> op.items] /\ I \in Rec
    <2>1. [from |-> a.pos, to |-> a.pos + n, insert |-> <<>>] \in Rec
      BY <1>0, <1>1, <1>2 DEF Rec
    <2>2. [from |-> a.pos, to |-> a.pos, insert |-> op.items] \in Rec
      BY <1>1, <1>2 DEF Rec
    <2> QED
      BY <2>1, <2>2
  <1>4. Append(a.changes, D) \in Seq(Rec) /\ Append(a.changes, I) \in Seq(Rec) /\ a.pos + n \in Int
    BY <1>0, <1>1, <1>3
  <1>5. CASE op.op = "retain"
    <2>1. Patched(a, op) = [a EXCEPT !.pos = @ + n]
      BY <1>0, <1>5 DEF Patched
    <2>2. Patched(a, op) = [pos |-> a.pos + n, changes |-> a.changes]
      BY <2>1 DEF Patches
    <2> QED
      BY <1>0, <1>1, <1>4, <1>5, <2>2 DEF Patches
  <1>6. CASE op.op = "delete"
    <2>1. Patched(a, op) = [a EXCEPT !.changes = Append(a.changes, D)]
      BY <1>0, <1>3, <1>6 DEF Patched
    <2>2. PICK l : l = Append(a.changes, D) /\ l \in Seq(Rec)
      BY <1>4
    <2>3. Patched(a, op) = [pos |-> a.pos, changes |-> l]
      BY <2>1, <2>2 DEF Patches
    <2> QED
      BY <1>0, <1>1, <1>3, <1>6, <2>2, <2>3 DEF Patches
  <1>7. CASE op.op = "insert"
    <2>1. Patched(a, op) = [pos |-> a.pos + n, changes |-> Append(a.changes, I)]
      BY <1>0, <1>3, <1>7 DEF Patched
    <2>2. PICK l : l = Append(a.changes, I) /\ l \in Seq(Rec)
      BY <1>4
    <2>3. Patched(a, op) = [pos |-> a.pos + n, changes |-> l]
      BY <2>1, <2>2
    <2> QED
      BY <1>0, <1>3, <1>4, <1>7, <2>2, <2>3 DEF Patches
  <1>8. op.op \in {"retain", "delete", "insert"}
    BY DEF OpSet
  <1> QED
    BY <1>5, <1>6, <1>7, <1>8

PatchRun(r, d) ==
    /\ r \in [0..Len(d) -> Patches]
    /\ r[0] = [pos |-> 0, changes |-> <<>>]
    /\ \A k \in 1..Len(d) : r[k] = Patched(r[k - 1], d[k])

LEMMA PatchRunExists ==
    ASSUME NEW q \in Seq(OpSet)
    PROVE  \E r : PatchRun(r, q) /\ RemoteChanges(q) = r[Len(q)].changes
  <1>0. PICK n \in Nat : n = Len(q) /\ DOMAIN q = 1..n /\ \A k \in 1..n : q[k] \in OpSet
    <2>1. \A k \in 1..Len(q) : q[k] \in OpSet
      OBVIOUS
    <2> QED
      BY <2>1
  <1>1. PICK v : v = [pos |-> 0, changes |-> <<>>] /\ v \in Patches
    <2>1. <<>> \in Seq(Rec)
      OBVIOUS
    <2>2. [pos |-> 0, changes |-> <<>>] \in Patches
      BY <2>1 DEF Patches
    <2> QED
      BY <2>2
  <1> DEFINE F == [k \in 1..n |-> [x \in Patches |-> Patched(x, q[k])]]
             Folds(g) == g = [s \in SUBSET (1..n) |->
                                 IF s = {} THEN v ELSE Patched(g[s \ {Max(s)}], q[Max(s)])]
             iter == CHOOSE g : Folds(g)
             r == [k \in 0..n |-> iter[1..k]]
  <1>2. RemoteChanges(q) = iter[1..n].changes
    BY <1>0, <1>1 DEF RemoteChanges, FoldLeft, MapThenFoldSet, Patched
  <1>3. Steps(F, n, Patches)
    BY <1>0, PatchedBy DEF Steps
  <1>5. \E g : Folds(g)
    <2>1. F \in [1..n -> [Patches -> Patches]]
      BY <1>3 DEF Steps
    <2> HIDE DEF F
    <2>2. PICK g \in [SUBSET (1..n) -> Patches] : Unfolds(g, v, F, n)
      BY <1>1, <2>1, Recursion
    <2>3. ASSUME NEW s \in SUBSET (1..n)
          PROVE  g[s] = IF s = {} THEN v ELSE Patched(g[s \ {Max(s)}], q[Max(s)])
      <3>1. CASE s = {}
        BY <2>2, <3>1 DEF Unfolds
      <3>2. CASE s # {}
        <4>1. Max(s) \in 1..n
          BY <3>2, MaxOfInterval
        <4>2. g[s \ {Max(s)}] \in Patches
          OBVIOUS
        <4>3. g[s] = F[Max(s)][g[s \ {Max(s)}]]
          BY <2>2, <3>2 DEF Unfolds
        <4> QED
          BY <3>2, <4>1, <4>2, <4>3 DEF F
      <3> QED
        BY <3>1, <3>2
    <2>4. Folds(g)
      BY <2>3
    <2> QED
      BY <2>4
  <1>6. Folds(iter)
    BY <1>5
  <1> HIDE DEF iter, F
  <1>7. r[0] = v
    <2>1. r[0] = iter[{}]
      OBVIOUS
    <2> QED
      BY <1>6, <2>1
  <1>8. ASSUME NEW k \in 1..n
        PROVE  r[k] = Patched(r[k - 1], q[k])
    <2>1. /\ 1..k \in SUBSET (1..n) /\ 1..k # {}
          /\ Max(1..k) = k /\ (1..k) \ {k} = 1..k - 1
      BY MaxOfPrefix
    <2>2. iter[1..k] = Patched(iter[(1..k) \ {Max(1..k)}], q[Max(1..k)])
      BY <1>6, <2>1
    <2>3. r[k] = iter[1..k] /\ r[k - 1] = iter[1..k - 1]
      OBVIOUS
    <2> QED
      BY <2>1, <2>2, <2>3
  <1>9. DOMAIN r = 0..n /\ r[n] = iter[1..n] /\ r = [k \in 0..n |-> r[k]]
    OBVIOUS
  <1> HIDE DEF r
  <1>10. IsRun(r, v, F, n, Patches)
    <2>1. \A k \in 1..n : r[k - 1] \in Patches => r[k] = F[k][r[k - 1]]
      BY <1>8 DEF F
    <2> QED
      BY <1>1, <1>3, <1>7, <1>9, <2>1, RunTyped
  <1>11. PatchRun(r, q)
    BY <1>0, <1>1, <1>7, <1>8, <1>10 DEF PatchRun, IsRun
  <1> QED
    BY <1>0, <1>2, <1>9, <1>11

LEMMA RemoteChangesType ==
    ASSUME NEW q \in Seq(OpSet)
    PROVE  RemoteChanges(q) \in Changes(Items)
  <1>1. PICK r : PatchRun(r, q) /\ RemoteChanges(q) = r[Len(q)].changes
    BY PatchRunExists
  <1>2. Len(q) \in 0..Len(q)
    OBVIOUS
  <1>3. r[Len(q)] \in Patches
    BY <1>1, <1>2 DEF PatchRun
  <1>4. r[Len(q)].changes \in Seq(Rec)
    BY <1>3 DEF Patches
  <1> QED
    BY <1>1, <1>4 DEF Changes, Rec

LEMMA CutsGrow ==
    ASSUME NEW d \in Seq(OpSet), NEW n \in Nat, NEW u, NEW was, NEW is,
           NEW c, Cuts(c, d, u, n, was, is),
           NEW i \in 0..Len(d), NEW j \in 0..Len(d), i <= j
    PROVE  c[i] <= c[j]
  <1>0. PICK N \in Nat : N = Len(d)
    OBVIOUS
  <1>1. c \in [0..N -> 0..n] /\ \A k \in 1..N : c[k - 1] < c[k]
    BY <1>0 DEF Cuts
  <1> DEFINE T == {k \in 0..N : i <= k /\ ~(c[i] <= c[k])}
  <1>2. ASSUME T # {} PROVE FALSE
    <2>1. T \in SUBSET Nat
      OBVIOUS
    <2>2. PICK k \in T : \A m \in T : k <= m
      BY <1>2, <2>1, Smallest
    <2>3. k \in 0..N /\ i <= k /\ ~(c[i] <= c[k])
      OBVIOUS
    <2>4. i \in 0..N /\ c[i] \in 0..n /\ c[k] \in 0..n
      BY <1>0, <1>1, <2>3
    <2>5. k # i
      BY <2>3, <2>4
    <2>6. k \in 1..N /\ k - 1 \in 0..N /\ i <= k - 1 /\ ~(k <= k - 1)
      BY <2>3, <2>4, <2>5
    <2>7. k - 1 \notin T
      BY <2>2, <2>6
    <2>8. c[i] <= c[k - 1]
      BY <2>6, <2>7
    <2>9. c[k - 1] < c[k] /\ c[k - 1] \in 0..n
      BY <1>1, <2>6
    <2> QED
      BY <2>3, <2>4, <2>8, <2>9
  <1>3. j \in 0..N
    BY <1>0
  <1> QED
    BY <1>2, <1>3

(* A simple delta retains, deletes from a to b, inserts from b to e, and   *)
(* retains the rest.                                                       *)
Form(c, d, a, b, e) ==
    /\ a <= b /\ b <= e
    /\ \A k \in 1..Len(d) :
          \/ d[k].op = "retain" /\ (c[k] <= a \/ e <= c[k - 1])
          \/ d[k].op = "delete" /\ c[k - 1] = a /\ c[k] = b /\ a < b
          \/ d[k].op = "insert" /\ c[k - 1] = b /\ c[k] = e /\ b < e

LEMMA SimpleForm ==
    ASSUME NEW d \in Seq(OpSet), NEW n \in Nat, NEW u, NEW was, NEW is,
           NEW c, Cuts(c, d, u, n, was, is), SimpleDelta(d)
    PROVE  \E a, b, e \in 0..n : Form(c, d, a, b, e)
  <1>0. PICK N \in Nat : N = Len(d) /\ DOMAIN d = 1..N
    OBVIOUS
  <1>1. c \in [0..N -> 0..n] /\ \A k \in 1..N : c[k - 1] < c[k]
    BY <1>0 DEF Cuts
  <1>2. \A i, j \in 0..N : i <= j => c[i] <= c[j]
    BY <1>0, CutsGrow
  <1>3. \A k \in 1..N : d[k].op \in {"retain", "delete", "insert"}
    <2> TAKE k \in 1..N
    <2>1. d[k] \in OpSet
      BY <1>0
    <2> QED
      BY <2>1 DEF OpSet
  <1>4. \A j, k \in 1..N : j < k /\ d[j].op # "retain" /\ d[k].op # "retain"
                              => k = j + 1 /\ d[j].op = "delete" /\ d[k].op = "insert"
    BY <1>0 DEF SimpleDelta
  <1> DEFINE T == {k \in 1..N : d[k].op # "retain"}
  <1>5. CASE T = {}
    <2>1. \A k \in 1..N : d[k].op = "retain" /\ c[k] <= n
      <3> TAKE k \in 1..N
      <3>1. k \in 0..N /\ k \notin T
        BY <1>5
      <3>2. c[k] \in 0..n
        BY <1>1, <3>1
      <3> QED
        BY <3>1, <3>2
    <2>2. Form(c, d, n, n, n)
      BY <1>0, <2>1 DEF Form
    <2>3. n \in 0..n
      OBVIOUS
    <2> QED
      BY <2>2, <2>3
  <1>6. CASE T # {}
    <2>1. T \in SUBSET Nat
      OBVIOUS
    <2>2. PICK j \in T : \A m \in T : j <= m
      BY <1>6, <2>1, Smallest
    <2>3. j \in 1..N /\ d[j].op # "retain" /\ j - 1 \in 0..N /\ j \in 0..N
      OBVIOUS
    <2>4. ASSUME NEW k \in 1..N, k < j
          PROVE  d[k].op = "retain" /\ c[k] <= c[j - 1]
      <3>1. k \notin T
        BY <2>2, <2>3, <2>4
      <3>2. k \in 0..N /\ k <= j - 1
        BY <2>3, <2>4
      <3> QED
        BY <1>2, <2>3, <3>1, <3>2
    <2>5. PICK a, b : a = c[j - 1] /\ b = c[j] /\ a \in 0..n /\ b \in 0..n /\ a < b
      BY <1>1, <2>3
    <2>6. CASE d[j].op = "insert"
      <3>1. ASSUME NEW k \in 1..N
            PROVE  \/ d[k].op = "retain" /\ (c[k] <= a \/ b <= c[k - 1])
                   \/ d[k].op = "insert" /\ c[k - 1] = a /\ c[k] = b
        <4>1. CASE k < j
          BY <2>4, <2>5, <4>1
        <4>2. CASE k = j
          BY <2>5, <2>6, <4>2
        <4>3. CASE j < k
          <5>1. d[k].op = "retain"
            BY <1>4, <2>3, <2>6, <4>3
          <5>2. k - 1 \in 0..N /\ j <= k - 1
            BY <2>3, <4>3
          <5> QED
            BY <1>2, <2>3, <2>5, <5>1, <5>2
        <4> QED
          BY <2>3, <4>1, <4>2, <4>3
      <3>2. a <= a /\ a <= b
        BY <2>5
      <3>3. Form(c, d, a, a, b)
        BY ONLY <1>0, <2>5, <3>1, <3>2 DEF Form
      <3> QED
        BY <2>5, <3>3
    <2>7. CASE d[j].op = "delete" /\ j + 1 \in 1..N /\ d[j + 1].op = "insert"
      <3>0. PICK e : e = c[j + 1] /\ e \in 0..n /\ b < e
        <4>1. j + 1 \in 0..N /\ (j + 1) - 1 = j
          BY <2>3, <2>7
        <4>2. c[(j + 1) - 1] < c[j + 1] /\ c[j + 1] \in 0..n
          BY <1>1, <2>7, <4>1
        <4> QED
          BY <2>5, <4>1, <4>2
      <3>1. ASSUME NEW k \in 1..N
            PROVE  \/ d[k].op = "retain" /\ (c[k] <= a \/ e <= c[k - 1])
                   \/ d[k].op = "delete" /\ c[k - 1] = a /\ c[k] = b
                   \/ d[k].op = "insert" /\ c[k - 1] = b /\ c[k] = e
        <4>1. CASE k < j
          BY <2>4, <2>5, <4>1
        <4>2. CASE k = j
          BY <2>5, <2>7, <4>2
        <4>3. CASE k = j + 1
          <5>1. k - 1 = j
            BY <2>3, <4>3
          <5> QED
            BY <2>5, <2>7, <3>0, <4>3, <5>1
        <4>4. CASE j + 1 < k
          <5>1. j < k /\ k # j + 1
            BY <2>3, <4>4
          <5>2. d[k].op = "retain"
            BY <1>4, <2>3, <5>1
          <5>3. k - 1 \in 0..N /\ j + 1 <= k - 1 /\ j + 1 \in 0..N
            BY <2>3, <2>7, <4>4
          <5> QED
            BY <1>2, <3>0, <5>2, <5>3
        <4>5. k < j \/ k = j \/ k = j + 1 \/ j + 1 < k
          BY <2>3
        <4> QED
          BY <4>1, <4>2, <4>3, <4>4, <4>5
      <3>2. a <= b /\ b <= e
        BY <2>5, <3>0
      <3>3. Form(c, d, a, b, e)
        BY ONLY <1>0, <2>5, <3>0, <3>1, <3>2 DEF Form
      <3> QED
        BY <2>5, <3>0, <3>3
    <2>8. CASE d[j].op = "delete" /\ ~(j + 1 \in 1..N /\ d[j + 1].op = "insert")
      <3>1. ASSUME NEW k \in 1..N
            PROVE  \/ d[k].op = "retain" /\ (c[k] <= a \/ b <= c[k - 1])
                   \/ d[k].op = "delete" /\ c[k - 1] = a /\ c[k] = b
        <4>1. CASE k < j
          BY <2>4, <2>5, <4>1
        <4>2. CASE k = j
          BY <2>5, <2>8, <4>2
        <4>3. CASE j < k
          <5>1. d[k].op = "retain"
            BY <1>4, <2>3, <2>8, <4>3
          <5>2. k - 1 \in 0..N /\ j <= k - 1
            BY <2>3, <4>3
          <5> QED
            BY <1>2, <2>3, <2>5, <5>1, <5>2
        <4> QED
          BY <2>3, <4>1, <4>2, <4>3
      <3>2. b <= b /\ a <= b
        BY <2>5
      <3>3. Form(c, d, a, b, b)
        BY ONLY <1>0, <2>5, <3>1, <3>2 DEF Form
      <3> QED
        BY <2>5, <3>3
    <2> QED
      BY <1>3, <2>3, <2>6, <2>7, <2>8
  <1> QED
    BY <1>5, <1>6

(* What the items of the three stretches are. *)
Regions(u, n, was, is, a, b, e) ==
    \A p \in 1..n : /\ Kind(u[p], was, is) = "retain" => p <= a \/ e < p
                    /\ Kind(u[p], was, is) = "delete" => a < p /\ p <= b
                    /\ Kind(u[p], was, is) = "insert" => b < p /\ p <= e

LEMMA FormRegions ==
    ASSUME NEW d \in Seq(OpSet), NEW n \in Nat, NEW u, NEW was, NEW is,
           NEW c, Cuts(c, d, u, n, was, is),
           NEW a \in 0..n, NEW b \in 0..n, NEW e \in 0..n, Form(c, d, a, b, e)
    PROVE  Regions(u, n, was, is, a, b, e)
  <1>0. PICK N \in Nat : N = Len(d)
    OBVIOUS
  <1>1. /\ c \in [0..N -> 0..n] /\ c[0] = 0 /\ c[N] = n
        /\ \A k \in 1..N : \A p \in c[k - 1] + 1..c[k] : Kind(u[p], was, is) = d[k].op
    BY <1>0 DEF Cuts
  <1>2. \A k \in 1..N :
          \/ d[k].op = "retain" /\ (c[k] <= a \/ e <= c[k - 1])
          \/ d[k].op = "delete" /\ c[k - 1] = a /\ c[k] = b /\ a < b
          \/ d[k].op = "insert" /\ c[k - 1] = b /\ c[k] = e /\ b < e
    BY <1>0 DEF Form
  <1> SUFFICES ASSUME NEW p \in 1..n
               PROVE  /\ Kind(u[p], was, is) = "retain" => p <= a \/ e < p
                      /\ Kind(u[p], was, is) = "delete" => a < p /\ p <= b
                      /\ Kind(u[p], was, is) = "insert" => b < p /\ p <= e
    BY DEF Regions
  <1> DEFINE T == {k \in 0..N : p <= c[k]}
  <1>3. T \in SUBSET Nat
    OBVIOUS
  <1>4. T # {}
    <2>1. N \in 0..N /\ p <= n
      OBVIOUS
    <2> QED
      BY <1>1, <2>1
  <1>5. PICK k \in T : \A m \in T : k <= m
    BY <1>3, <1>4, Smallest
  <1>6. k \in 0..N /\ p <= c[k] /\ k # 0
    BY <1>1
  <1>7. k \in 1..N /\ k - 1 \in 0..N /\ ~(k <= k - 1)
    BY <1>6
  <1>8. ~(p <= c[k - 1])
    BY <1>5, <1>7
  <1>9. PICK x, y : x = c[k - 1] /\ y = c[k] /\ x \in 0..n /\ y \in 0..n /\ x < p /\ p <= y
    BY <1>1, <1>6, <1>7, <1>8
  <1>10. p \in x + 1..y
    BY <1>9
  <1>11. Kind(u[p], was, is) = d[k].op
    BY <1>1, <1>7, <1>9, <1>10
  <1>12. \/ d[k].op = "retain" /\ (y <= a \/ e <= x)
         \/ d[k].op = "delete" /\ x = a /\ y = b
         \/ d[k].op = "insert" /\ x = b /\ y = e
    BY <1>2, <1>7, <1>9
  <1>13. PICK op : op = d[k].op /\ op = Kind(u[p], was, is)
    BY <1>11
  <1>14. \/ op = "retain" /\ (y <= a \/ e <= x)
         \/ op = "delete" /\ x = a /\ y = b
         \/ op = "insert" /\ x = b /\ y = e
    BY <1>12, <1>13
  <1>15. \/ op = "retain" /\ (p <= a \/ e < p)
         \/ op = "delete" /\ a < p /\ p <= b
         \/ op = "insert" /\ b < p /\ p <= e
    BY ONLY <1>9, <1>14, p \in 1..n, n \in Nat, a \in 0..n, b \in 0..n, e \in 0..n
  <1> QED
    BY <1>13, <1>15

(* The changes of a simple delta, after the items up to p. *)
Deletion(a, b) == [from |-> a, to |-> b, insert |-> <<>>]

Insertion(a, ins) == [from |-> a, to |-> a, insert |-> ins]

ChangeList(del, ins, D, I) ==
    IF del THEN (IF ins THEN <<D, I>> ELSE <<D>>) ELSE (IF ins THEN <<I>> ELSE <<>>)

PatchedTo(x, p, a, b, e, D, I) ==
    /\ x.pos = IF p <= a THEN p ELSE p - (b - a)
    /\ x.changes = ChangeList(a < b /\ b <= p, b < e /\ e <= p, D, I)

LEMMA AppendShort ==
    ASSUME NEW x, NEW y
    PROVE  Append(<<>>, y) = <<y>> /\ Append(<<x>>, y) = <<x, y>>
  <1>1. <<x>> \in Seq({x, y}) /\ <<x, y>> \in Seq({x, y}) /\ Len(<<x>>) = 1
    OBVIOUS
  <1>2. Append(<<x>>, y) \in Seq({x, y}) /\ Len(Append(<<x>>, y)) = Len(<<x, y>>)
    BY <1>1
  <1>3. \A k \in 1..Len(<<x, y>>) : Append(<<x>>, y)[k] = <<x, y>>[k]
    OBVIOUS
  <1>4. Append(<<x>>, y) = <<x, y>>
    BY <1>1, <1>2, <1>3, SeqEqual
  <1> QED
    BY <1>4

LEMMA PatchStep ==
    ASSUME NEW x \in Patches, NEW op \in OpSet,
           NEW a \in Nat, NEW b \in Nat, NEW e \in Nat, a <= b, b <= e,
           NEW D, D = Deletion(a, b), NEW ins, NEW I, I = Insertion(a, ins),
           NEW p \in Nat, NEW q \in Nat, p < q, Len(op.items) = q - p,
           \/ op.op = "retain" /\ (q <= a \/ e <= p)
           \/ op.op = "delete" /\ p = a /\ q = b /\ a < b
           \/ op.op = "insert" /\ p = b /\ q = e /\ b < e /\ op.items = ins,
           PatchedTo(x, p, a, b, e, D, I)
    PROVE  PatchedTo(Patched(x, op), q, a, b, e, D, I)
  <1>0. PICK z : z = Patched(x, op)
    OBVIOUS
  <1>1. /\ x.pos = IF p <= a THEN p ELSE p - (b - a)
        /\ x.changes = ChangeList(a < b /\ b <= p, b < e /\ e <= p, D, I)
    BY DEF PatchedTo
  <1>2. CASE op.op = "retain" /\ (q <= a \/ e <= p)
    <2>1. z.pos = x.pos + (q - p) /\ z.changes = x.changes
      BY <1>0, <1>2, PatchedBy
    <2>2. (a < b /\ b <= p <=> a < b /\ b <= q) /\ (b < e /\ e <= p <=> b < e /\ e <= q)
      BY <1>2
    <2>3. z.pos = IF q <= a THEN q ELSE q - (b - a)
      BY <1>1, <1>2, <2>1
    <2>4. z.changes = ChangeList(a < b /\ b <= q, b < e /\ e <= q, D, I)
      BY <1>1, <2>1, <2>2 DEF ChangeList
    <2> QED
      BY <1>0, <2>3, <2>4 DEF PatchedTo
  <1>3. CASE op.op = "delete" /\ p = a /\ q = b /\ a < b
    <2>1. x.pos = a /\ a + (q - p) = b
      BY <1>1, <1>3
    <2>2. x.changes = <<>>
      <3>1. ~(a < b /\ b <= p) /\ ~(b < e /\ e <= p)
        BY <1>3
      <3> QED
        BY <1>1, <3>1 DEF ChangeList
    <2>3. z.pos = x.pos /\ z.changes = Append(x.changes,
                                        [from |-> x.pos, to |-> x.pos + Len(op.items), insert |-> <<>>])
      BY <1>0, <1>3, PatchedBy
    <2>4. z.changes = Append(<<>>, D)
      BY <2>1, <2>2, <2>3 DEF Deletion
    <2>5. z.changes = <<D>>
      BY <2>4
    <2>6. a < b /\ b <= q /\ ~(b < e /\ e <= q)
      BY <1>3
    <2>7. z.changes = ChangeList(a < b /\ b <= q, b < e /\ e <= q, D, I)
      BY <2>5, <2>6 DEF ChangeList
    <2>8. z.pos = IF q <= a THEN q ELSE q - (b - a)
      BY <1>3, <2>1, <2>3
    <2> QED
      BY <1>0, <2>7, <2>8 DEF PatchedTo
  <1>4. CASE op.op = "insert" /\ p = b /\ q = e /\ b < e /\ op.items = ins
    <2>1. x.pos = a
      BY <1>1, <1>4
    <2>2. x.changes = IF a < b THEN <<D>> ELSE <<>>
      <3>1. (a < b /\ b <= p <=> a < b) /\ ~(b < e /\ e <= p)
        BY <1>4
      <3> QED
        BY <1>1, <3>1 DEF ChangeList
    <2>3. z.pos = x.pos + (q - p) /\ z.changes = Append(x.changes,
                                        [from |-> x.pos, to |-> x.pos, insert |-> op.items])
      BY <1>0, <1>4, PatchedBy
    <2>4. z.changes = Append(x.changes, I)
      BY <1>4, <2>1, <2>3 DEF Insertion
    <2>5. z.changes = IF a < b THEN <<D, I>> ELSE <<I>>
      <3>1. Append(<<>>, I) = <<I>> /\ Append(<<D>>, I) = <<D, I>>
        BY AppendShort
      <3> QED
        BY <2>2, <2>4, <3>1
    <2>6. (a < b /\ b <= q <=> a < b) /\ b < e /\ e <= q
      BY <1>4
    <2>7. z.changes = ChangeList(a < b /\ b <= q, b < e /\ e <= q, D, I)
      BY <2>5, <2>6 DEF ChangeList
    <2>8. z.pos = IF q <= a THEN q ELSE q - (b - a)
      BY <1>4, <2>1, <2>3
    <2> QED
      BY <1>0, <2>7, <2>8 DEF PatchedTo
  <1> QED
    BY <1>2, <1>3, <1>4

LEMMA SimpleChangeList ==
    ASSUME NEW d \in Seq(OpSet), NEW u \in Seq(Items), NEW was, NEW is,
           NEW c, Cuts(c, d, u, Len(u), was, is),
           NEW a \in 0..Len(u), NEW b \in 0..Len(u), NEW e \in 0..Len(u), Form(c, d, a, b, e),
           NEW D, D = Deletion(a, b), NEW I, I = Insertion(a, Part(u, b, e))
    PROVE  RemoteChanges(d) = ChangeList(a < b, b < e, D, I)
  <1>0. PICK N \in Nat : N = Len(d)
    OBVIOUS
  <1>1. PICK n \in Nat : n = Len(u)
    OBVIOUS
  <1>2. PICK r : PatchRun(r, d) /\ RemoteChanges(d) = r[N].changes
    BY <1>0, PatchRunExists
  <1>3. /\ r \in [0..N -> Patches]
        /\ r[0] = [pos |-> 0, changes |-> <<>>]
        /\ \A k \in 1..N : r[k] = Patched(r[k - 1], d[k])
    BY <1>0, <1>2 DEF PatchRun
  <1>4. /\ c \in [0..N -> 0..n] /\ c[0] = 0 /\ c[N] = n
        /\ \A k \in 1..N : c[k - 1] < c[k] /\ d[k].items = Part(u, c[k - 1], c[k])
    BY <1>0, <1>1 DEF Cuts
  <1>5. /\ a <= b /\ b <= e
        /\ \A k \in 1..N :
              \/ d[k].op = "retain" /\ (c[k] <= a \/ e <= c[k - 1])
              \/ d[k].op = "delete" /\ c[k - 1] = a /\ c[k] = b /\ a < b
              \/ d[k].op = "insert" /\ c[k - 1] = b /\ c[k] = e /\ b < e
    BY <1>0 DEF Form
  <1>6. PICK ins : ins = Part(u, b, e) /\ I = Insertion(a, ins)
    OBVIOUS
  <1>7. a \in Nat /\ b \in Nat /\ e \in Nat /\ a <= n /\ b <= n /\ e <= n
    BY <1>1
  <1> DEFINE T == {k \in 0..N : ~PatchedTo(r[k], c[k], a, b, e, D, I)}
  <1>8. 0 \notin T
    <2>1. r[0].pos = 0 /\ r[0].changes = <<>>
      BY <1>3
    <2>2. 0 <= a /\ ~(a < b /\ b <= 0) /\ ~(b < e /\ e <= 0)
      BY <1>7
    <2>3. ChangeList(a < b /\ b <= 0, b < e /\ e <= 0, D, I) = <<>>
      BY <2>2 DEF ChangeList
    <2>4. PatchedTo(r[0], 0, a, b, e, D, I)
      BY <2>1, <2>2, <2>3 DEF PatchedTo
    <2> QED
      BY <1>4, <2>4
  <1>9. ASSUME T # {} PROVE FALSE
    <2>1. T \in SUBSET Nat
      OBVIOUS
    <2>2. PICK k \in T : \A j \in T : k <= j
      BY <1>9, <2>1, Smallest
    <2>3. k \in 0..N /\ k # 0 /\ ~PatchedTo(r[k], c[k], a, b, e, D, I)
      BY <1>8
    <2>4. k \in 1..N /\ k - 1 \in 0..N /\ ~(k <= k - 1)
      BY <2>3
    <2>5. k - 1 \notin T
      BY <2>2, <2>4
    <2>6. PICK p, q : p = c[k - 1] /\ q = c[k] /\ p \in 0..n /\ q \in 0..n /\ p < q
      BY <1>4, <2>4
    <2>7. PICK x : x = r[k - 1] /\ x \in Patches /\ PatchedTo(x, p, a, b, e, D, I)
      BY <1>3, <2>4, <2>5, <2>6
    <2>8. PICK op : op = d[k] /\ op \in OpSet
      BY <1>0, <2>4
    <2>9. op.items = Part(u, p, q)
      BY <1>4, <2>4, <2>6, <2>8
    <2>10. Len(op.items) = q - p
      <3>1. Stretch(p, q, Len(u))
        BY <1>1, <2>6 DEF Stretch
      <3>2. IsPart(Part(u, p, q), u, p, q, Items)
        BY <3>1, PartType
      <3> QED
        BY <2>9, <3>2 DEF IsPart
    <2>11. \/ op.op = "retain" /\ (q <= a \/ e <= p)
           \/ op.op = "delete" /\ p = a /\ q = b /\ a < b
           \/ op.op = "insert" /\ p = b /\ q = e /\ b < e
      BY <1>5, <2>4, <2>6, <2>8
    <2>12. \/ op.op = "retain" /\ (q <= a \/ e <= p)
           \/ op.op = "delete" /\ p = a /\ q = b /\ a < b
           \/ op.op = "insert" /\ p = b /\ q = e /\ b < e /\ op.items = ins
      BY <1>6, <2>9, <2>11
    <2>13. p \in Nat /\ q \in Nat
      BY <2>6
    <2>14. PatchedTo(Patched(x, op), q, a, b, e, D, I)
      BY <1>5, <1>6, <1>7, <2>6, <2>7, <2>8, <2>10, <2>12, <2>13, PatchStep
    <2>15. r[k] = Patched(x, op)
      BY <1>3, <2>4, <2>7, <2>8
    <2> QED
      BY <2>3, <2>6, <2>14, <2>15
  <1>10. PatchedTo(r[N], n, a, b, e, D, I)
    <2>1. N \in 0..N /\ N \notin T
      BY <1>9
    <2> QED
      BY <1>4, <2>1
  <1>11. r[N].changes = ChangeList(a < b /\ b <= n, b < e /\ e <= n, D, I)
    BY <1>10 DEF PatchedTo
  <1> QED
    BY <1>2, <1>7, <1>11 DEF ChangeList

-------------------------------------------------------------------------------
(* An update of another editor: the text.                                  *)

(* Instead of inserting the new stretch and dropping the old one, one may  *)
(* begin with both and drop the old one.                                   *)
Swaps(u, a, b, e) ==
    Splice(Splice(u, b, e, <<>>), a, b, Part(u, b, e)) = Splice(u, a, b, <<>>)

WithoutPart(w, p, u, b, e, S) ==
    /\ w = Splice(u, b, e, <<>>) /\ w \in Seq(S) /\ Len(w) = b + (Len(u) - e)
    /\ p = Part(u, b, e) /\ p \in Seq(S)

LEMMA SpliceBack ==
    ASSUME NEW S, NEW u \in Seq(S), NEW n \in Nat, n = Len(u),
           NEW a \in 0..n, NEW b \in 0..n, NEW e \in 0..n, a <= b, b <= e
    PROVE  Swaps(u, a, b, e) /\ \E w, p : WithoutPart(w, p, u, b, e, S)
  <1>1. Stretch(b, e, Len(u)) /\ Stretch(a, b, Len(u))
    BY DEF Stretch
  <1>2. PICK none : none = <<>> /\ none \in Seq(S) /\ Len(none) = 0
    <2>1. <<>> \in Seq(S) /\ Len(<<>>) = 0
      OBVIOUS
    <2> QED
      BY <2>1
  <1>3. PICK ins : ins = Part(u, b, e)
    OBVIOUS
  <1>4. IsPart(ins, u, b, e, S)
    BY <1>1, <1>3, PartType
  <1>5. ins \in Seq(S) /\ Len(ins) = e - b /\ \A k \in 1..e - b : ins[k] = u[b + k]
    BY <1>4 DEF IsPart
  <1>6. PICK w : w = Splice(u, b, e, <<>>)
    OBVIOUS
  <1>7. IsSplice(w, u, b, e, none, S)
    BY <1>1, <1>2, <1>6, SplicePlaces
  <1>8. /\ w \in Seq(S) /\ Len(w) = b + (n - e)
        /\ \A k \in 1..b : w[k] = u[k]
        /\ \A k \in 1..n - e : w[b + k] = u[e + k]
    <2>1. b + Len(none) = b
      BY <1>2
    <2> QED
      BY <1>7, <2>1 DEF IsSplice
  <1>9. PICK x : x = Splice(u, a, b, <<>>)
    OBVIOUS
  <1>10. IsSplice(x, u, a, b, none, S)
    BY <1>1, <1>2, <1>9, SplicePlaces
  <1>11. /\ x \in Seq(S) /\ Len(x) = a + (n - b)
         /\ \A k \in 1..a : x[k] = u[k]
         /\ \A k \in 1..n - b : x[a + k] = u[b + k]
    <2>1. a + Len(none) = a
      BY <1>2
    <2> QED
      BY <1>10, <2>1 DEF IsSplice
  <1>12. Stretch(a, b, Len(w))
    BY <1>8 DEF Stretch
  <1>13. PICK v : v = Splice(w, a, b, ins)
    OBVIOUS
  <1>14. IsSplice(v, w, a, b, ins, S)
    BY <1>5, <1>8, <1>12, <1>13, SplicePlaces
  <1>15. /\ v \in Seq(S) /\ Len(v) = a + (e - b) + (b + (n - e) - b)
         /\ \A k \in 1..a : v[k] = w[k]
         /\ \A k \in 1..e - b : v[a + k] = ins[k]
         /\ \A k \in 1..(b + (n - e)) - b : v[a + (e - b) + k] = w[b + k]
    BY <1>5, <1>8, <1>14 DEF IsSplice
  <1>16. Len(v) = a + (n - b)
    BY <1>15
  <1>17. ASSUME NEW k \in 1..a + (n - b) PROVE v[k] = x[k]
    <2>1. CASE k <= a
      <3>1. k \in 1..a /\ k \in 1..b
        BY <2>1
      <3> QED
        BY <1>8, <1>11, <1>15, <3>1
    <2>2. CASE a < k /\ k <= a + (e - b)
      <3>1. PICK j : j = k - a /\ j \in 1..e - b /\ j \in 1..n - b /\ k = a + j
        BY <2>2
      <3>2. v[k] = ins[j] /\ ins[j] = u[b + j] /\ x[k] = u[b + j]
        BY <1>5, <1>11, <1>15, <3>1
      <3> QED
        BY <3>2
    <2>3. CASE a + (e - b) < k
      <3>1. PICK j : /\ j = k - (a + (e - b)) /\ j \in 1..n - e /\ j \in 1..(b + (n - e)) - b
                     /\ k = a + (e - b) + j
        BY <2>3
      <3>2. PICK i : i = (e - b) + j /\ i \in 1..n - b /\ k = a + i /\ b + i = e + j
        BY <3>1
      <3>3. v[k] = w[b + j] /\ w[b + j] = u[e + j]
        BY <1>8, <1>15, <3>1
      <3>4. x[k] = u[b + i]
        BY <1>11, <3>2
      <3> QED
        BY <3>2, <3>3, <3>4
    <2>4. k <= a \/ (a < k /\ k <= a + (e - b)) \/ a + (e - b) < k
      OBVIOUS
    <2> QED
      BY <2>1, <2>2, <2>3, <2>4
  <1>18. v = x
    BY <1>11, <1>15, <1>16, <1>17, SeqEqual
  <1> QED
    BY <1>3, <1>5, <1>6, <1>8, <1>9, <1>13, <1>18 DEF Swaps, WithoutPart

(* The dispatch of the changes of a simple delta. *)
ListDispatches(old, a, b, e, ins) ==
    Dispatched(old, ChangeList(a < b, b < e, Deletion(a, b), Insertion(a, ins)))
    = Splice(old, a, b, ins)

LEMMA DispatchedList ==
    ASSUME NEW old \in Seq(Items), NEW a \in Nat, NEW b \in Nat, NEW e \in Nat, a <= b, b <= e,
           b <= Len(old), NEW ins \in Seq(Items), b = e => ins = <<>>,
           ~(a = b /\ b = e)
    PROVE  ListDispatches(old, a, b, e, ins)
  <1>d. PICK D, I : D = Deletion(a, b) /\ I = Insertion(a, ins)
    OBVIOUS
  <1> SUFFICES Dispatched(old, ChangeList(a < b, b < e, D, I)) = Splice(old, a, b, ins)
    BY <1>d DEF ListDispatches
  <1>0. PICK L \in Nat : L = Len(old) /\ b <= L /\ a <= L
    OBVIOUS
  <1>1. D \in Rec /\ I \in Rec
    BY <1>d DEF Rec, Deletion, Insertion
  <1>2. D.from = a /\ D.to = b /\ D.insert = <<>> /\ I.from = a /\ I.to = a /\ I.insert = ins
    BY <1>d DEF Deletion, Insertion
  <1>3. CASE a < b /\ b < e
    <2>1. ChangeList(a < b, b < e, D, I) = <<D, I>>
      BY <1>3 DEF ChangeList
    <2>2. PICK sp : sp = Splice(old, a, b, ins)
      OBVIOUS
    <2>3. Edited(old, <<D, I>>) = sp
      <3>1. a \in 0..Len(old) /\ b \in a..Len(old)
        BY <1>0
      <3> QED
        BY <1>d, <2>2, <3>1, DeletionAndInsertion DEF Deletion, Insertion
    <2>4. \A k \in DOMAIN <<D, I>> : <<D, I>>[k].from <= Len(old) /\ <<D, I>>[k].to <= Len(old)
      BY <1>0, <1>2
    <2> QED
      BY <2>1, <2>2, <2>3, <2>4 DEF Dispatched
  <1>4. CASE a < b /\ ~(b < e)
    <2>1. ChangeList(a < b, b < e, D, I) = <<D>>
      BY <1>4 DEF ChangeList
    <2>2. PICK sp : sp = Splice(old, a, b, ins) /\ ins = <<>>
      BY <1>4
    <2>3. Edited(old, <<D>>) = sp
      BY <1>0, <1>1, <1>2, <2>2, OneChange DEF Rec
    <2>4. \A k \in DOMAIN <<D>> : <<D>>[k].from <= Len(old) /\ <<D>>[k].to <= Len(old)
      BY <1>0, <1>2
    <2> QED
      BY <2>1, <2>2, <2>3, <2>4 DEF Dispatched
  <1>5. CASE ~(a < b) /\ b < e
    <2>1. ChangeList(a < b, b < e, D, I) = <<I>>
      BY <1>5 DEF ChangeList
    <2>2. PICK sp : sp = Splice(old, a, a, ins) /\ a = b
      BY <1>5
    <2>3. Edited(old, <<I>>) = sp
      BY <1>0, <1>1, <1>2, <2>2, OneChange DEF Rec
    <2>4. \A k \in DOMAIN <<I>> : <<I>>[k].from <= Len(old) /\ <<I>>[k].to <= Len(old)
      BY <1>0, <1>2
    <2> QED
      BY <2>1, <2>2, <2>3, <2>4 DEF Dispatched
  <1> QED
    BY <1>3, <1>4, <1>5

(* The items of the two texts, in the text that has both. *)
PartItems(u, a, b) == {u[k] : k \in a + 1..b}

HasItems(u, a, b) == ToSet(Part(u, a, b)) = PartItems(u, a, b)

LEMMA PartHasItems ==
    ASSUME NEW u \in Seq(Items), NEW a, NEW b, Stretch(a, b, Len(u))
    PROVE  HasItems(u, a, b)
  BY PartSet DEF HasItems, PartItems

TellsApart(u, was, is, a, b, e) ==
    /\ (was \cup is) \ PartItems(u, b, e) = was
    /\ (was \cup is) \ PartItems(u, a, b) = is

LEMMA RegionSets ==
    ASSUME NEW o \in Seq(Items), NEW was, NEW is,
           NEW V, V = was \cup is, \A x \in V : x \in ToSet(o),
           NEW u \in Seq(Items), NEW n \in Nat, n = Len(u), NEW pos, Places(pos, u, o, V),
           NEW a \in 0..n, NEW b \in 0..n, NEW e \in 0..n, a <= b, b <= e,
           Regions(u, n, was, is, a, b, e)
    PROVE  TellsApart(u, was, is, a, b, e)
  <1>1. ASSUME NEW x \in was \cup is PROVE \E k \in 1..n : u[k] = x
    <2>1. PICK p \in 1..Len(o) : o[p] = x
      <3>1. x \in ToSet(o)
        OBVIOUS
      <3> QED
        BY <3>1 DEF ToSet
    <2>2. \E k \in 1..n : pos[k] = p
      BY <2>1 DEF Places
    <2> QED
      BY <2>1, <2>2 DEF Places
  <1>2. \A p \in 1..n : /\ Kind(u[p], was, is) = "retain" => p <= a \/ e < p
                        /\ Kind(u[p], was, is) = "delete" => a < p /\ p <= b
                        /\ Kind(u[p], was, is) = "insert" => b < p /\ p <= e
    BY DEF Regions
  <1>3. ASSUME NEW k \in 1..n
        PROVE  /\ u[k] \in was /\ u[k] \in is => k <= a \/ e < k
               /\ u[k] \in was /\ u[k] \notin is => a < k /\ k <= b
               /\ u[k] \notin was => b < k /\ k <= e
    BY <1>2 DEF Kind
  <1>4. b + 1..e \subseteq 1..n /\ a + 1..b \subseteq 1..n
    OBVIOUS
  <1>5. ASSUME NEW x \in was \cup is
        PROVE  x \in {u[k] : k \in b + 1..e} <=> x \notin was
    <2>1. PICK k \in 1..n : u[k] = x
      BY <1>1
    <2>2. ASSUME x \notin was PROVE k \in b + 1..e
      BY <1>3, <2>1, <2>2
    <2>3. ASSUME NEW j \in b + 1..e, u[j] = x PROVE x \notin was
      <3>1. j \in 1..n /\ ~(j <= a) /\ ~(e < j) /\ ~(j <= b)
        BY <1>4
      <3> QED
        BY <1>3, <2>3, <3>1
    <2> QED
      BY <2>1, <2>2, <2>3
  <1>6. ASSUME NEW x \in was \cup is
        PROVE  x \in {u[k] : k \in a + 1..b} <=> x \notin is
    <2>1. PICK k \in 1..n : u[k] = x
      BY <1>1
    <2>2. ASSUME x \notin is PROVE k \in a + 1..b
      BY <1>3, <2>1, <2>2
    <2>3. ASSUME NEW j \in a + 1..b, u[j] = x PROVE x \notin is
      <3>1. j \in 1..n /\ ~(j <= a) /\ ~(e < j) /\ ~(b < j)
        BY <1>4
      <3> QED
        BY <1>3, <2>3, <3>1
    <2> QED
      BY <2>1, <2>2, <2>3
  <1> QED
    BY <1>5, <1>6 DEF PartItems, TellsApart

LEMMA RemoteText ==
    ASSUME NEW o \in Seq(Items), IsInjective(o), NEW was, NEW is, was \cup is \subseteq ToSet(o),
           NEW u, u = Among(o, was \cup is), NEW d, d = DeltaOf(u, was, is), SimpleDelta(d),
           NEW old, old = Among(o, was)
    PROVE  Dispatched(old, RemoteChanges(d)) = Among(o, is)
  <1>1. PICK V : V = was \cup is
    OBVIOUS
  <1>2. u \in Seq(Items) /\ \E pos : Places(pos, u, o, V)
    BY <1>1, TextHasPlaces
  <1>3. PICK pos : Places(pos, u, o, V)
    BY <1>2
  <1>4. PICK n \in Nat : n = Len(u)
    BY <1>2
  <1>5. d \in Seq(OpSet) /\ \E c : Cuts(c, d, u, n, was, is)
    BY <1>2, <1>4, DeltaHasCuts
  <1>6. PICK c : Cuts(c, d, u, n, was, is)
    BY <1>5
  <1>7. PICK a, b, e \in 0..n : Form(c, d, a, b, e)
    BY <1>5, <1>6, SimpleForm
  <1>8. Regions(u, n, was, is, a, b, e)
    BY <1>5, <1>6, <1>7, FormRegions
  <1>9. a <= b /\ b <= e
    BY <1>7 DEF Form
  <1>10. PICK D, ins, I : D = Deletion(a, b) /\ ins = Part(u, b, e) /\ I = Insertion(a, ins)
    OBVIOUS
  <1>11. PICK cs : cs = RemoteChanges(d) /\ cs = ChangeList(a < b, b < e, D, I)
    BY <1>2, <1>4, <1>5, <1>6, <1>7, <1>10, SimpleChangeList
  <1>12. Stretch(b, e, Len(u)) /\ Stretch(a, b, Len(u))
    BY <1>4, <1>9 DEF Stretch
  <1>13. PICK X, Y : X = ToSet(Part(u, b, e)) /\ Y = ToSet(Part(u, a, b))
    OBVIOUS
  <1>14. X = PartItems(u, b, e) /\ Y = PartItems(u, a, b)
    BY <1>2, <1>12, <1>13, PartHasItems DEF HasItems
  <1>15. V \ X = was /\ V \ Y = is
    <2>1. \A x \in V : x \in ToSet(o)
      BY <1>1
    <2>2. TellsApart(u, was, is, a, b, e)
      BY <1>1, <1>2, <1>3, <1>4, <1>7, <1>8, <1>9, <2>1, RegionSets
    <2> QED
      BY <1>1, <1>14, <2>2 DEF TellsApart
  <1>16. LosesPart(o, V, u, b, e) /\ LosesPart(o, V, u, a, b)
    BY <1>2, <1>3, <1>12, DeletedText
  <1>17. old = Splice(u, b, e, <<>>) /\ Among(o, is) = Splice(u, a, b, <<>>)
    BY <1>13, <1>15, <1>16 DEF LosesPart
  <1>18. Swaps(u, a, b, e) /\ \E w, p : WithoutPart(w, p, u, b, e, Items)
    BY <1>2, <1>4, <1>9, SpliceBack
  <1>19. old \in Seq(Items) /\ Len(old) = b + (n - e) /\ ins \in Seq(Items)
    BY <1>4, <1>10, <1>17, <1>18 DEF WithoutPart
  <1>20. Splice(old, a, b, ins) = Among(o, is)
    BY <1>10, <1>17, <1>18 DEF Swaps
  <1>21. CASE a = b /\ b = e
    <2>1. cs = <<>>
      BY <1>11, <1>21 DEF ChangeList
    <2>2. old = Among(o, is)
      BY <1>17, <1>21
    <2>3. Dispatched(old, <<>>) = old
      BY <1>19, NoChange DEF Dispatched
    <2> QED
      BY <1>11, <2>1, <2>2, <2>3
  <1>22. CASE ~(a = b /\ b = e)
    <2>1. b = e => ins = <<>>
      BY <1>2, <1>10, WholePart
    <2>2. b <= Len(old) /\ a \in Nat /\ b \in Nat /\ e \in Nat
      BY <1>19
    <2>3. ListDispatches(old, a, b, e, ins)
      BY <1>9, <1>19, <1>22, <2>1, <2>2, DispatchedList
    <2>4. Dispatched(old, ChangeList(a < b, b < e, D, I)) = Splice(old, a, b, ins)
      BY <1>10, <2>3 DEF ListDispatches
    <2> QED
      BY <1>11, <1>20, <2>4
  <1> QED
    BY <1>21, <1>22

-------------------------------------------------------------------------------
(* An editor and the updates of the others.                                *)

EditorRecs == [order : Seq(Items), has : SUBSET Items, dead : SUBSET Items,
               shown : Seq(Items), torn : BOOLEAN]

ShowsText(e) == ~e.torn => e.shown = PlainText(e)

(* The delta of an update, and what the editor is after it. *)
Gets(e, u) == [order |-> e.order, has |-> e.has \cup u.ins, dead |-> e.dead \cup u.del,
               shown |-> e.shown, torn |-> e.torn]

DeltaBy(e, u) == Delta(e, Gets(e, u))

UpdatedTo(z, e, u) ==
    /\ z \in EditorRecs
    /\ z.order = e.order
    /\ z.has = e.has \cup u.ins
    /\ z.dead = e.dead \cup u.del

LEMMA WithUpdateForm ==
    ASSUME NEW e \in EditorRecs, NEW u \in Update
    PROVE  /\ UpdatedTo(WithUpdate(e, u), e, u)
           /\ WithUpdate(e, u).shown = Dispatched(e.shown, RemoteChanges(DeltaBy(e, u)))
           /\ WithUpdate(e, u).torn <=> e.torn \/ ~SimpleDelta(DeltaBy(e, u))
  <1>1. PICK m : m = Gets(e, u) /\ m \in EditorRecs
    <2>1. Gets(e, u) \in EditorRecs
      BY DEF Gets, EditorRecs, Update
    <2> QED
      BY <2>1
  <1>2. [e EXCEPT !.has = @ \cup u.ins, !.dead = @ \cup u.del] = m
    <2>1. PICK x : x = [e EXCEPT !.has = @ \cup u.ins]
      OBVIOUS
    <2>2. x = [order |-> e.order, has |-> e.has \cup u.ins, dead |-> e.dead,
               shown |-> e.shown, torn |-> e.torn]
      BY <2>1 DEF EditorRecs
    <2>3. [x EXCEPT !.dead = e.dead \cup u.del] = m
      BY <1>1, <2>2 DEF Gets
    <2>4. [e EXCEPT !.has = @ \cup u.ins, !.dead = @ \cup u.del] = [x EXCEPT !.dead = e.dead \cup u.del]
      BY <2>1
    <2> QED
      BY <2>3, <2>4
  <1>3. PICK d : d = Delta(e, m)
    OBVIOUS
  <1>4. d \in Seq(OpSet)
    <2>1. m.order \in Seq(Items)
      BY <1>1 DEF EditorRecs
    <2>2. Among(m.order, (e.has \ e.dead) \cup (m.has \ m.dead)) \in Seq(Items)
      BY <2>1, AmongType
    <2> QED
      BY <1>3, <2>2, DeltaIsOf, DeltaHasCuts
  <1>5. PICK sh : sh = Dispatched(e.shown, RemoteChanges(d)) /\ sh \in Seq(Items)
    <2>1. e.shown \in Seq(Items)
      BY DEF EditorRecs
    <2>2. RemoteChanges(d) \in Changes(Items)
      BY <1>4, RemoteChangesType
    <2>3. Dispatched(e.shown, RemoteChanges(d)) \in Seq(Items)
      BY <2>1, <2>2, EditedType
    <2> QED
      BY <2>3
  <1>6. PICK t : t \in BOOLEAN /\ t = (e.torn \/ ~SimpleDelta(d))
    <2>1. \A x \in BOOLEAN : \E y : y \in BOOLEAN /\ y = x
      OBVIOUS
    <2>2. (e.torn \/ ~SimpleDelta(d)) \in BOOLEAN
      OBVIOUS
    <2> QED
      BY ONLY <2>1, <2>2, Zenon
  <1>7. m.shown = e.shown /\ m.torn = e.torn /\ m.order = e.order
        /\ m.has = e.has \cup u.ins /\ m.dead = e.dead \cup u.del
    BY <1>1 DEF Gets
  <1>8. WithUpdate(e, u) = [m EXCEPT !.shown = sh, !.torn = t]
    BY <1>2, <1>3, <1>5, <1>6, <1>7 DEF WithUpdate
  <1>9. PICK z : z = [m EXCEPT !.shown = sh, !.torn = t]
    OBVIOUS
  <1>10. z = [order |-> m.order, has |-> m.has, dead |-> m.dead, shown |-> sh, torn |-> t]
    BY <1>1, <1>9 DEF EditorRecs
  <1>11. UpdatedTo(z, e, u) /\ z.shown = sh /\ z.torn = t
    BY <1>1, <1>5, <1>6, <1>7, <1>10 DEF UpdatedTo, EditorRecs
  <1>12. d = DeltaBy(e, u)
    BY <1>1, <1>3 DEF DeltaBy
  <1> QED
    BY <1>5, <1>6, <1>8, <1>9, <1>11, <1>12

LEMMA WithUpdateText ==
    ASSUME NEW e \in EditorRecs, NEW u \in Update, IsInjective(e.order),
           e.has \cup u.ins \subseteq ToSet(e.order), ShowsText(e)
    PROVE  ShowsText(WithUpdate(e, u))
  <1>1. PICK z : z = WithUpdate(e, u)
    OBVIOUS
  <1>2. PICK d : d = DeltaBy(e, u)
    OBVIOUS
  <1>3. /\ UpdatedTo(z, e, u)
        /\ z.shown = Dispatched(e.shown, RemoteChanges(d))
        /\ z.torn <=> e.torn \/ ~SimpleDelta(d)
    BY <1>1, <1>2, WithUpdateForm
  <1> SUFFICES ASSUME ~z.torn PROVE z.shown = PlainText(z)
    BY <1>1 DEF ShowsText
  <1>4. SimpleDelta(d) /\ e.shown = PlainText(e)
    BY <1>3 DEF ShowsText
  <1>5. PICK o, was, is : /\ o = e.order /\ was = e.has \ e.dead
                          /\ is = (e.has \cup u.ins) \ (e.dead \cup u.del)
    OBVIOUS
  <1>6. e.shown = Among(o, was)
    BY <1>4, <1>5 DEF PlainText
  <1>7. PlainText(z) = Among(o, is)
    BY <1>3, <1>5 DEF PlainText, UpdatedTo
  <1>8. PICK v : v = Among(o, was \cup is)
    OBVIOUS
  <1>9. d = DeltaOf(v, was, is)
    <2>1. PICK m : m = Gets(e, u)
      OBVIOUS
    <2>2. m.order = o /\ m.has \ m.dead = is
      BY <1>5, <2>1 DEF Gets
    <2>3. d = Delta(e, m)
      BY <1>2, <2>1 DEF DeltaBy
    <2> QED
      BY <1>5, <1>8, <2>2, <2>3, DeltaIsOf
  <1>10. o \in Seq(Items) /\ IsInjective(o) /\ was \cup is \subseteq ToSet(o)
    BY <1>5 DEF EditorRecs
  <1>11. Dispatched(e.shown, RemoteChanges(d)) = Among(o, is)
    BY <1>4, <1>6, <1>8, <1>9, <1>10, RemoteText
  <1> QED
    BY <1>3, <1>7, <1>11

(* Several updates at once, as the ReplaySubject hands them out. *)
UpdateRun(r, e, q) ==
    /\ r \in [0..Len(q) -> EditorRecs]
    /\ r[0] = e
    /\ \A k \in 1..Len(q) : r[k] = WithUpdate(r[k - 1], q[k])

LEMMA UpdateRunExists ==
    ASSUME NEW e \in EditorRecs, NEW q \in Seq(Update)
    PROVE  \E r : UpdateRun(r, e, q) /\ WithUpdates(e, q) = r[Len(q)]
  <1>0. PICK n \in Nat : n = Len(q) /\ DOMAIN q = 1..n /\ \A k \in 1..n : q[k] \in Update
    <2>1. \A k \in 1..Len(q) : q[k] \in Update
      OBVIOUS
    <2> QED
      BY <2>1
  <1> DEFINE F == [k \in 1..n |-> [x \in EditorRecs |-> WithUpdate(x, q[k])]]
             Folds(g) == g = [s \in SUBSET (1..n) |->
                                 IF s = {} THEN e ELSE WithUpdate(g[s \ {Max(s)}], q[Max(s)])]
             iter == CHOOSE g : Folds(g)
             r == [k \in 0..n |-> iter[1..k]]
  <1>2. WithUpdates(e, q) = iter[1..n]
    BY <1>0 DEF WithUpdates, FoldLeft, MapThenFoldSet
  <1>3. Steps(F, n, EditorRecs)
    <2>1. \A x \in EditorRecs, u \in Update : WithUpdate(x, u) \in EditorRecs
      BY WithUpdateForm DEF UpdatedTo
    <2> QED
      BY <1>0, <2>1 DEF Steps
  <1>5. \E g : Folds(g)
    <2>1. F \in [1..n -> [EditorRecs -> EditorRecs]]
      BY <1>3 DEF Steps
    <2> HIDE DEF F
    <2>2. PICK g \in [SUBSET (1..n) -> EditorRecs] : Unfolds(g, e, F, n)
      BY <2>1, Recursion
    <2>3. ASSUME NEW s \in SUBSET (1..n)
          PROVE  g[s] = IF s = {} THEN e ELSE WithUpdate(g[s \ {Max(s)}], q[Max(s)])
      <3>1. CASE s = {}
        BY <2>2, <3>1 DEF Unfolds
      <3>2. CASE s # {}
        <4>1. Max(s) \in 1..n
          BY <3>2, MaxOfInterval
        <4>2. g[s \ {Max(s)}] \in EditorRecs
          OBVIOUS
        <4>3. g[s] = F[Max(s)][g[s \ {Max(s)}]]
          BY <2>2, <3>2 DEF Unfolds
        <4> QED
          BY <3>2, <4>1, <4>2, <4>3 DEF F
      <3> QED
        BY <3>1, <3>2
    <2>4. Folds(g)
      BY <2>3
    <2> QED
      BY <2>4
  <1>6. Folds(iter)
    BY <1>5
  <1> HIDE DEF iter, F
  <1>7. r[0] = e
    <2>1. r[0] = iter[{}]
      OBVIOUS
    <2> QED
      BY <1>6, <2>1
  <1>8. ASSUME NEW k \in 1..n
        PROVE  r[k] = WithUpdate(r[k - 1], q[k])
    <2>1. /\ 1..k \in SUBSET (1..n) /\ 1..k # {}
          /\ Max(1..k) = k /\ (1..k) \ {k} = 1..k - 1
      BY MaxOfPrefix
    <2>2. iter[1..k] = WithUpdate(iter[(1..k) \ {Max(1..k)}], q[Max(1..k)])
      BY <1>6, <2>1
    <2>3. r[k] = iter[1..k] /\ r[k - 1] = iter[1..k - 1]
      OBVIOUS
    <2> QED
      BY <2>1, <2>2, <2>3
  <1>9. DOMAIN r = 0..n /\ r[n] = iter[1..n] /\ r = [k \in 0..n |-> r[k]]
    OBVIOUS
  <1> HIDE DEF r
  <1>10. IsRun(r, e, F, n, EditorRecs)
    <2>1. \A k \in 1..n : r[k - 1] \in EditorRecs => r[k] = F[k][r[k - 1]]
      BY <1>8 DEF F
    <2> QED
      BY <1>3, <1>7, <1>9, <2>1, RunTyped
  <1>11. UpdateRun(r, e, q)
    BY <1>0, <1>7, <1>8, <1>10 DEF UpdateRun, IsRun
  <1> QED
    BY <1>0, <1>2, <1>9, <1>11

InsUpTo(q, k) == UNION {q[j].ins : j \in 1..k}

DelUpTo(q, k) == UNION {q[j].del : j \in 1..k}

LEMMA UpToNext ==
    ASSUME NEW q, NEW k \in Nat \ {0}
    PROVE  /\ InsUpTo(q, 0) = {} /\ DelUpTo(q, 0) = {}
           /\ InsUpTo(q, k) = InsUpTo(q, k - 1) \cup q[k].ins
           /\ DelUpTo(q, k) = DelUpTo(q, k - 1) \cup q[k].del
  <1>1. 1..0 = {} /\ 1..k = (1..k - 1) \cup {k}
    OBVIOUS
  <1> QED
    BY <1>1 DEF InsUpTo, DelUpTo

(* All of the updates up to k, applied to e. *)
UpdatedUpTo(z, e, q, k) ==
    /\ z \in EditorRecs
    /\ z.order = e.order
    /\ z.has = e.has \cup InsUpTo(q, k)
    /\ z.dead = e.dead \cup DelUpTo(q, k)
    /\ ShowsText(e) => ShowsText(z)

LEMMA UpdatesApplied ==
    ASSUME NEW e \in EditorRecs, IsInjective(e.order), NEW q \in Seq(Update),
           e.has \cup Ins(q) \subseteq ToSet(e.order), NEW z, z = WithUpdates(e, q)
    PROVE  /\ z \in EditorRecs
           /\ z.has = e.has \cup Ins(q)
           /\ z.dead = e.dead \cup Del(q)
           /\ z.order = e.order
           /\ ShowsText(e) => ShowsText(z)
  <1>0. PICK n \in Nat : n = Len(q) /\ DOMAIN q = 1..n /\ \A k \in 1..n : q[k] \in Update
    <2>1. \A k \in 1..Len(q) : q[k] \in Update
      OBVIOUS
    <2> QED
      BY <2>1
  <1>1. PICK r : UpdateRun(r, e, q) /\ z = r[n]
    BY <1>0, UpdateRunExists
  <1>2. /\ r \in [0..n -> EditorRecs] /\ r[0] = e
        /\ \A k \in 1..n : r[k] = WithUpdate(r[k - 1], q[k])
    BY <1>0, <1>1 DEF UpdateRun
  <1> DEFINE T == {k \in 0..n : ~UpdatedUpTo(r[k], e, q, k)}
  <1>3. 0 \notin T
    BY <1>2, UpToNext, 1 \in Nat \ {0} DEF UpdatedUpTo
  <1>4. ASSUME T # {} PROVE FALSE
    <2>1. T \in SUBSET Nat
      OBVIOUS
    <2>2. PICK k \in T : \A j \in T : k <= j
      BY <1>4, <2>1, Smallest
    <2>3. k \in 0..n /\ k # 0 /\ ~UpdatedUpTo(r[k], e, q, k)
      BY <1>3
    <2>4. k \in 1..n /\ k - 1 \in 0..n /\ ~(k <= k - 1) /\ k \in Nat \ {0}
      BY <2>3
    <2>5. k - 1 \notin T
      BY <2>2, <2>4
    <2>6. PICK x : x = r[k - 1] /\ UpdatedUpTo(x, e, q, k - 1)
      BY <2>4, <2>5
    <2>7. PICK u : u = q[k] /\ u \in Update
      BY <1>0, <2>4
    <2>8. PICK w : w = r[k] /\ w = WithUpdate(x, u)
      BY <1>2, <2>4, <2>6, <2>7
    <2>9. /\ x \in EditorRecs /\ x.order = e.order
          /\ x.has = e.has \cup InsUpTo(q, k - 1)
          /\ x.dead = e.dead \cup DelUpTo(q, k - 1)
          /\ ShowsText(e) => ShowsText(x)
      BY <2>6 DEF UpdatedUpTo
    <2>10. UpdatedTo(w, x, u)
      BY <2>7, <2>8, <2>9, WithUpdateForm
    <2>11. w.has = e.has \cup InsUpTo(q, k) /\ w.dead = e.dead \cup DelUpTo(q, k)
      BY <2>4, <2>7, <2>9, <2>10, UpToNext DEF UpdatedTo
    <2>12. x.has \cup u.ins \subseteq ToSet(x.order)
      <3>1. InsUpTo(q, k) \subseteq Ins(q)
        BY <1>0, <2>4 DEF InsUpTo, Ins
      <3>2. x.has \cup u.ins \subseteq e.has \cup Ins(q)
        BY <2>4, <2>7, <2>9, <3>1, UpToNext
      <3> QED
        BY <2>9, <3>2
    <2>13. ShowsText(e) => ShowsText(w)
      BY <2>7, <2>8, <2>9, <2>12, WithUpdateText
    <2>14. UpdatedUpTo(w, e, q, k)
      BY <2>9, <2>10, <2>11, <2>13 DEF UpdatedUpTo, UpdatedTo
    <2> QED
      BY <2>3, <2>8, <2>14
  <1>5. UpdatedUpTo(z, e, q, n)
    <2>1. n \in 0..n
      OBVIOUS
    <2> QED
      BY <1>1, <1>4, <2>1
  <1>6. InsUpTo(q, n) = Ins(q) /\ DelUpTo(q, n) = Del(q)
    BY <1>0 DEF InsUpTo, DelUpTo, Ins, Del
  <1> QED
    BY <1>5, <1>6 DEF UpdatedUpTo

-------------------------------------------------------------------------------
(* The queues of updates.                                                  *)

LEMMA NothingQueued == Ins(<<>>) = {} /\ Del(<<>>) = {}
  BY DEF Ins, Del

LEMMA QueuedLast ==
    ASSUME NEW q \in Seq(Update), NEW u \in Update
    PROVE  /\ Ins(Append(q, u)) = Ins(q) \cup u.ins
           /\ Del(Append(q, u)) = Del(q) \cup u.del
  <1>1. PICK n \in Nat : n = Len(q) /\ DOMAIN q = 1..n
    OBVIOUS
  <1>2. PICK w : w = Append(q, u)
    OBVIOUS
  <1>3. DOMAIN w = (1..n) \cup {n + 1} /\ w[n + 1] = u /\ \A k \in 1..n : w[k] = q[k]
    <2>1. /\ w \in Seq(Update) /\ Len(w) = n + 1 /\ w[n + 1] = u
          /\ \A k \in 1..n : w[k] = q[k]
      BY <1>1, <1>2, AppendProperties
    <2>2. DOMAIN w = 1..n + 1 /\ 1..n + 1 = (1..n) \cup {n + 1}
      BY <2>1
    <2> QED
      BY <2>1, <2>2
  <1> QED
    BY <1>1, <1>2, <1>3 DEF Ins, Del

LEMMA QueuedFirst ==
    ASSUME NEW q \in Seq(Update), q # <<>>
    PROVE  /\ Head(q) \in Update /\ Tail(q) \in Seq(Update)
           /\ Ins(q) = Head(q).ins \cup Ins(Tail(q))
           /\ Del(q) = Head(q).del \cup Del(Tail(q))
  <1>1. PICK n \in Nat : n = Len(q) /\ DOMAIN q = 1..n /\ 1 \in 1..n
    BY EmptySeq
  <1>2. PICK w : w = Tail(q)
    OBVIOUS
  <1>3. /\ w \in Seq(Update) /\ Len(w) = n - 1 /\ \A k \in 1..n - 1 : w[k] = q[k + 1]
        /\ Head(q) = q[1] /\ Head(q) \in Update
    BY <1>1, <1>2, HeadTailProperties
  <1>4. DOMAIN w = 1..n - 1
    BY <1>1, <1>3
  <1>5. ASSUME NEW k \in 1..n PROVE k = 1 \/ (k - 1 \in 1..n - 1 /\ w[k - 1] = q[k])
    <2>1. k # 1 => k - 1 \in 1..n - 1 /\ (k - 1) + 1 = k
      BY <1>1
    <2> QED
      BY <1>3, <2>1
  <1>6. ASSUME NEW k \in 1..n - 1 PROVE k + 1 \in 1..n /\ w[k] = q[k + 1]
    BY <1>3
  <1>7. ASSUME NEW x
        PROVE  /\ x \in Ins(q) <=> x \in q[1].ins \cup Ins(w)
               /\ x \in Del(q) <=> x \in q[1].del \cup Del(w)
    <2>1. /\ x \in Ins(q) <=> \E k \in 1..n : x \in q[k].ins
          /\ x \in Del(q) <=> \E k \in 1..n : x \in q[k].del
      BY <1>1 DEF Ins, Del
    <2>2. /\ x \in Ins(w) <=> \E k \in 1..n - 1 : x \in w[k].ins
          /\ x \in Del(w) <=> \E k \in 1..n - 1 : x \in w[k].del
      BY <1>4 DEF Ins, Del
    <2>3. /\ (\E k \in 1..n : x \in q[k].ins) => x \in q[1].ins \/ \E k \in 1..n - 1 : x \in w[k].ins
          /\ (\E k \in 1..n : x \in q[k].del) => x \in q[1].del \/ \E k \in 1..n - 1 : x \in w[k].del
      BY <1>5
    <2>4. /\ (\E k \in 1..n - 1 : x \in w[k].ins) => \E k \in 1..n : x \in q[k].ins
          /\ (\E k \in 1..n - 1 : x \in w[k].del) => \E k \in 1..n : x \in q[k].del
      BY <1>6
    <2> QED
      BY <1>1, <2>1, <2>2, <2>3, <2>4
  <1> QED
    BY <1>2, <1>3, <1>7

LEMMA OneQueued ==
    ASSUME NEW u \in Update
    PROVE  <<u>> \in Seq(Update) /\ Ins(<<u>>) = u.ins /\ Del(<<u>>) = u.del
  <1>1. <<>> \in Seq(Update) /\ <<u>> \in Seq(Update) /\ Append(<<>>, u) = <<u>>
    OBVIOUS
  <1>2. Ins(Append(<<>>, u)) = Ins(<<>>) \cup u.ins /\ Del(Append(<<>>, u)) = Del(<<>>) \cup u.del
    BY <1>1, QueuedLast
  <1> QED
    BY <1>1, <1>2, NothingQueued

-------------------------------------------------------------------------------
(* The induction.                                                          *)

LEMMA EmptyText ==
    ASSUME NEW o \in Seq(Items), IsInjective(o)
    PROVE  Among(o, {}) = <<>>
  <1>1. <<>> \in Seq(Items) /\ Len(<<>>) = 0
    OBVIOUS
  <1>2. 1..0 = {}
    OBVIOUS
  <1>3. Places([k \in 1..0 |-> 1], <<>>, o, {})
    BY <1>1, <1>2 DEF Places
  <1> QED
    BY <1>1, <1>3, TextIsTheList

LEMMA FirstOrder ==
    ASSUME Init
    PROVE  order \in Seq(Items) /\ IsInjective(order) /\ ToSet(order) = 1..Len(order)
           /\ Len(order) = Base
  <1>1. Base \in Nat /\ \A i \in 1..Base : i \in Items
    BY EditorAssumption DEF Items
  <1>2. order = [i \in 1..Base |-> i]
    BY DEF Init
  <1>3. order \in Seq(Items) /\ Len(order) = Base /\ DOMAIN order = 1..Base
    BY <1>1, <1>2
  <1> QED
    BY <1>1, <1>2, <1>3 DEF IsInjective, ToSet

LEMMA InitIInv == Init => IInv
  <1> SUFFICES ASSUME Init PROVE IInv
    OBVIOUS
  <1>1. /\ order \in Seq(Items) /\ IsInjective(order) /\ ToSet(order) = 1..Base
        /\ ToSet(order) = 1..Len(order)
    BY FirstOrder
  <1>2. PICK u : u = [ins |-> 1..Base, del |-> {}] /\ u \in Update /\ u.ins = 1..Base /\ u.del = {}
    <2>1. \A i \in 1..Base : i \in Items
      BY EditorAssumption DEF Items
    <2>2. [ins |-> 1..Base, del |-> {}] \in Update
      BY <2>1 DEF Update
    <2> QED
      BY <2>2
  <1>4. PICK q : /\ q = <<u>> /\ q \in Seq(Update)
                 /\ Ins(q) = 1..Base /\ Del(q) = {}
    <2>1. <<u>> \in Seq(Update) /\ Ins(<<u>>) = 1..Base /\ Del(<<u>>) = {}
      BY <1>2, OneQueued
    <2> QED
      BY <2>1
  <1>5. \A s \in Editors : /\ view[s] = "none" /\ subscribed[s] = FALSE /\ has[s] = {} /\ dead[s] = {}
                           /\ shown[s] = <<>> /\ inbox[s] = q /\ torn[s] = FALSE
    BY <1>2, <1>4 DEF Init
  <1>6. TypeOK
    <2>1. view \in [Editors -> {"none", "mounted", "destroyed"}]
      BY DEF Init
    <2>2. subscribed \in [Editors -> BOOLEAN] /\ torn \in [Editors -> BOOLEAN]
      BY DEF Init
    <2>3. has \in [Editors -> SUBSET Items] /\ dead \in [Editors -> SUBSET Items]
      BY DEF Init
    <2>4. shown \in [Editors -> Seq(Items)]
      BY DEF Init
    <2>5. inbox \in [Editors -> Seq(Update)]
      BY <1>2, <1>4 DEF Init
    <2>6. edits \in 0..MaxEdits
      BY EditorAssumption DEF Init
    <2> QED
      BY <1>1, <1>5, <2>1, <2>2, <2>3, <2>4, <2>5, <2>6 DEF TypeOK
  <1>7. Known
    BY <1>1, <1>4, <1>5 DEF Known
  <1>8. Delivered
    <2>1. \A s \in Live : s \in Editors
      BY DEF Live
    <2>2. \A s \in Editors : has[s] \cup Ins(inbox[s]) = 1..Base /\ dead[s] \cup Del(inbox[s]) = {}
      BY <1>4, <1>5
    <2> QED
      BY <1>1, <2>1, <2>2 DEF Delivered
  <1>9. InStep
    <2>1. \A s \in Editors : Text(s) = Among(order, {})
      BY <1>5 DEF Text, PlainText, Replica
    <2> QED
      BY <1>1, <1>5, <2>1, EmptyText DEF InStep
  <1> QED
    BY <1>6, <1>7, <1>8, <1>9 DEF IInv

(* What the invariant says of one editor. *)
LEMMA EditorFacts ==
    ASSUME IInv, NEW s \in Editors
    PROVE  /\ Editor(s) \in EditorRecs /\ IsInjective(order)
           /\ ShowsText(Editor(s))
           /\ Sound(Replica(s))
           /\ Text(s) = Among(order, has[s] \ dead[s])
  <1>1. /\ order \in Seq(Items) /\ IsInjective(order) /\ ToSet(order) = 1..Len(order)
        /\ has[s] \in SUBSET Items /\ dead[s] \in SUBSET Items /\ shown[s] \in Seq(Items)
        /\ torn[s] \in BOOLEAN
    BY DEF IInv, TypeOK
  <1>2. has[s] \subseteq ToSet(order) /\ dead[s] \subseteq ToSet(order)
    BY DEF IInv, Known
  <1>3. ~torn[s] => shown[s] = Text(s)
    BY DEF IInv, InStep
  <1>4. Editor(s) \in EditorRecs
    BY <1>1 DEF Editor, EditorRecs
  <1>5. Sound(Replica(s))
    BY <1>1, <1>2 DEF Sound, Replicas, Replica
  <1>6. Text(s) = Among(order, has[s] \ dead[s])
    BY DEF Text, PlainText, Replica
  <1>7. PlainText(Editor(s)) = Among(order, has[s] \ dead[s])
    BY DEF Editor, PlainText
  <1>8. Editor(s).torn = torn[s] /\ Editor(s).shown = shown[s]
    BY DEF Editor
  <1>9. ShowsText(Editor(s))
    BY <1>3, <1>6, <1>7, <1>8 DEF ShowsText
  <1> QED
    BY <1>1, <1>4, <1>5, <1>6, <1>9

LEMMA MountStep ==
    ASSUME IInv, NEW s \in Editors, Mount(s)
    PROVE  IInv'
  <1>1. /\ view[s] = "none" /\ view' = [view EXCEPT ![s] = "mounted"]
        /\ subscribed' = subscribed /\ order' = order /\ has' = has /\ dead' = dead
        /\ shown' = shown /\ inbox' = inbox /\ torn' = torn /\ edits' = edits
    BY DEF Mount
  <1>2. view' \in [Editors -> {"none", "mounted", "destroyed"}] /\ view'[s] = "mounted"
        /\ \A t \in Editors \ {s} : view'[t] = view[t]
    BY <1>1 DEF IInv, TypeOK
  <1>3. TypeOK'
    <2>1. \A t \in Editors : subscribed'[t] => view'[t] = "mounted"
      BY <1>1, <1>2 DEF IInv, TypeOK
    <2> QED
      BY <1>1, <1>2, <2>1 DEF IInv, TypeOK
  <1>4. Known'
    BY <1>1 DEF IInv, Known
  <1>5. Delivered'
    <2>1. Live' = Live
      BY <1>1, <1>2 DEF Live
    <2> QED
      BY <1>1, <2>1 DEF IInv, Delivered
  <1>6. InStep'
    BY <1>1 DEF IInv, InStep, Text, Replica
  <1> QED
    BY <1>3, <1>4, <1>5, <1>6 DEF IInv

LEMMA DestroyStep ==
    ASSUME IInv, NEW s \in Editors, Destroy(s)
    PROVE  IInv'
  <1>1. /\ view' = [view EXCEPT ![s] = "destroyed"]
        /\ subscribed' = [subscribed EXCEPT ![s] = FALSE]
        /\ inbox' = [inbox EXCEPT ![s] = <<>>]
        /\ order' = order /\ has' = has /\ dead' = dead
        /\ shown' = shown /\ torn' = torn /\ edits' = edits
    BY DEF Destroy
  <1>2. /\ view' \in [Editors -> {"none", "mounted", "destroyed"}] /\ view'[s] = "destroyed"
        /\ subscribed' \in [Editors -> BOOLEAN] /\ subscribed'[s] = FALSE
        /\ inbox' \in [Editors -> Seq(Update)] /\ inbox'[s] = <<>>
        /\ \A t \in Editors \ {s} : /\ view'[t] = view[t] /\ subscribed'[t] = subscribed[t]
                                    /\ inbox'[t] = inbox[t]
    <2>1. <<>> \in Seq(Update)
      OBVIOUS
    <2> QED
      BY <1>1, <2>1 DEF IInv, TypeOK
  <1>3. TypeOK'
    <2>1. \A t \in Editors : subscribed'[t] => view'[t] = "mounted"
      BY <1>2 DEF IInv, TypeOK
    <2> QED
      BY <1>1, <1>2, <2>1 DEF IInv, TypeOK
  <1>4. Known'
    <2>1. \A t \in Editors : Ins(inbox'[t]) \subseteq Ins(inbox[t]) /\ Del(inbox'[t]) \subseteq Del(inbox[t])
      BY <1>2, NothingQueued
    <2> QED
      BY <1>1, <2>1 DEF IInv, Known
  <1>5. Delivered'
    <2>1. \A t \in Live' : t \in Live /\ inbox'[t] = inbox[t]
      BY <1>2 DEF Live
    <2> QED
      BY <1>1, <2>1 DEF IInv, Delivered
  <1>6. InStep'
    BY <1>1 DEF IInv, InStep, Text, Replica
  <1> QED
    BY <1>3, <1>4, <1>5, <1>6 DEF IInv

(* An editor that takes updates from its queue: what it has and what is    *)
(* queued is together what it was.                                         *)
Receives(s, z, q) ==
    /\ z \in EditorRecs /\ z.order = order /\ ShowsText(z) /\ q \in Seq(Update)
    /\ z.has \cup Ins(q) = has[s] \cup Ins(inbox[s])
    /\ z.dead \cup Del(q) = dead[s] \cup Del(inbox[s])

LEMMA ReceiveStep ==
    ASSUME IInv, NEW s \in Editors, NEW z, NEW q, Receives(s, z, q), Becomes(s, z),
           inbox' = [inbox EXCEPT ![s] = q],
           view[s] = "mounted", subscribed' = [subscribed EXCEPT ![s] = TRUE],
           view' = view, order' = order, edits' = edits
    PROVE  IInv'
  <1>1. /\ has' = [has EXCEPT ![s] = z.has] /\ dead' = [dead EXCEPT ![s] = z.dead]
        /\ shown' = [shown EXCEPT ![s] = z.shown] /\ torn' = [torn EXCEPT ![s] = z.torn]
    BY DEF Becomes
  <1>2. /\ z.has \in SUBSET Items /\ z.dead \in SUBSET Items /\ z.shown \in Seq(Items)
        /\ z.torn \in BOOLEAN /\ q \in Seq(Update)
    BY DEF Receives, EditorRecs
  <1>3. /\ subscribed' \in [Editors -> BOOLEAN] /\ inbox' \in [Editors -> Seq(Update)]
        /\ has' \in [Editors -> SUBSET Items] /\ dead' \in [Editors -> SUBSET Items]
        /\ shown' \in [Editors -> Seq(Items)] /\ torn' \in [Editors -> BOOLEAN]
    BY <1>1, <1>2 DEF IInv, TypeOK
  <1>4. /\ has'[s] = z.has /\ dead'[s] = z.dead /\ shown'[s] = z.shown /\ torn'[s] = z.torn
        /\ inbox'[s] = q
        /\ \A t \in Editors \ {s} : /\ has'[t] = has[t] /\ dead'[t] = dead[t] /\ shown'[t] = shown[t]
                                    /\ torn'[t] = torn[t] /\ inbox'[t] = inbox[t]
                                    /\ subscribed'[t] = subscribed[t]
    BY <1>1 DEF IInv, TypeOK
  <1>5. TypeOK'
    <2>1. \A t \in Editors : subscribed'[t] => view'[t] = "mounted"
      BY <1>4 DEF IInv, TypeOK
    <2> QED
      BY <1>3, <2>1 DEF IInv, TypeOK
  <1>6. \A t \in Editors : /\ has'[t] \cup Ins(inbox'[t]) = has[t] \cup Ins(inbox[t])
                           /\ dead'[t] \cup Del(inbox'[t]) = dead[t] \cup Del(inbox[t])
    BY <1>4 DEF Receives
  <1>7. Known'
    BY <1>6 DEF IInv, Known
  <1>8. Delivered'
    <2>1. Live' = Live /\ \A t \in Live : t \in Editors
      BY DEF Live
    <2> QED
      BY <1>6, <2>1 DEF IInv, Delivered
  <1>9. InStep'
    <2> SUFFICES ASSUME NEW t \in Editors, ~torn'[t]
                 PROVE  shown'[t] = Among(order, has'[t] \ dead'[t])
      BY DEF InStep, Text, PlainText, Replica
    <2>1. CASE t = s
      BY <1>4, <2>1 DEF Receives, ShowsText, PlainText
    <2>2. CASE t # s
      BY <1>4, <2>2 DEF IInv, InStep, Text, PlainText, Replica
    <2> QED
      BY <2>1, <2>2
  <1> QED
    BY <1>5, <1>7, <1>8, <1>9 DEF IInv

LEMMA SubscribeStep ==
    ASSUME IInv, NEW s \in Editors, Subscribe(s)
    PROVE  IInv'
  <1>1. PICK e, q : e = Editor(s) /\ q = inbox[s]
    OBVIOUS
  <1>2. e \in EditorRecs /\ IsInjective(e.order) /\ ShowsText(e)
        /\ e.order = order /\ e.has = has[s] /\ e.dead = dead[s]
    BY <1>1, EditorFacts DEF Editor
  <1>3. q \in Seq(Update) /\ e.has \cup Ins(q) \subseteq ToSet(e.order)
    BY <1>1, <1>2 DEF IInv, TypeOK, Known
  <1>4. PICK z : z = WithUpdates(e, q)
    OBVIOUS
  <1>5. /\ z \in EditorRecs
        /\ z.has = e.has \cup Ins(q)
        /\ z.dead = e.dead \cup Del(q)
        /\ z.order = e.order
        /\ ShowsText(z)
    BY <1>2, <1>3, <1>4, UpdatesApplied
  <1>6. Receives(s, z, <<>>)
    <2>1. <<>> \in Seq(Update)
      OBVIOUS
    <2> QED
      BY <1>1, <1>2, <1>5, <2>1, NothingQueued DEF Receives
  <1>7. /\ view[s] = "mounted" /\ subscribed' = [subscribed EXCEPT ![s] = TRUE]
        /\ Becomes(s, z) /\ inbox' = [inbox EXCEPT ![s] = <<>>]
        /\ view' = view /\ order' = order /\ edits' = edits
    BY <1>1, <1>4 DEF Subscribe
  <1> QED
    BY <1>6, <1>7, ReceiveStep

LEMMA RemoteUpdateStep ==
    ASSUME IInv, NEW s \in Editors, RemoteUpdate(s)
    PROVE  IInv'
  <1>1. PICK e, q, u, rest : e = Editor(s) /\ q = inbox[s] /\ u = Head(q) /\ rest = Tail(q)
    OBVIOUS
  <1>2. e \in EditorRecs /\ IsInjective(e.order) /\ ShowsText(e)
        /\ e.order = order /\ e.has = has[s] /\ e.dead = dead[s]
    BY <1>1, EditorFacts DEF Editor
  <1>3. PICK z : z = WithUpdate(e, u)
    OBVIOUS
  <1>4. /\ subscribed[s] /\ q # <<>>
        /\ inbox' = [inbox EXCEPT ![s] = rest]
        /\ Becomes(s, z)
        /\ view' = view /\ subscribed' = subscribed /\ order' = order /\ edits' = edits
    BY <1>1, <1>3 DEF RemoteUpdate
  <1>5. q \in Seq(Update) /\ e.has \cup Ins(q) \subseteq ToSet(e.order)
    BY <1>1, <1>2 DEF IInv, TypeOK, Known
  <1>6. /\ u \in Update /\ rest \in Seq(Update)
        /\ Ins(q) = u.ins \cup Ins(rest)
        /\ Del(q) = u.del \cup Del(rest)
    BY <1>1, <1>4, <1>5, QueuedFirst
  <1>7. UpdatedTo(z, e, u)
    BY <1>2, <1>3, <1>6, WithUpdateForm
  <1>8. ShowsText(z)
    <2>1. e.has \cup u.ins \subseteq ToSet(e.order)
      BY <1>5, <1>6
    <2> QED
      BY <1>2, <1>3, <1>6, <2>1, WithUpdateText
  <1>9. Receives(s, z, rest)
    BY <1>1, <1>2, <1>6, <1>7, <1>8 DEF Receives, UpdatedTo
  <1>10. view[s] = "mounted" /\ subscribed' = [subscribed EXCEPT ![s] = TRUE]
    <2>1. subscribed \in [Editors -> BOOLEAN] /\ subscribed[s] = TRUE /\ view[s] = "mounted"
      BY <1>4 DEF IInv, TypeOK
    <2> QED
      BY <1>4, <2>1
  <1> QED
    BY <1>4, <1>9, <1>10, ReceiveStep

(* What a transaction adds to the replica of its editor and to the queues  *)
(* of the others.                                                          *)
LEMMA SentTo ==
    ASSUME NEW O, NEW G, NEW H, H \subseteq O, NEW A, NEW I, A \cup I = O
    PROVE  A \cup (I \cup ((H \cup G) \ H)) = O \cup G
  OBVIOUS

LEMMA LocalChangeStep ==
    ASSUME IInv, NEW s \in Editors, NEW cs \in Transactions(shown[s]), NEW slack \in Nat,
           LocalChange(s, cs, slack)
    PROVE  IInv'
  <1>1. PICK y, z, u : /\ y = Replica(s)
                       /\ z = ApplyLocalChanges(y, LocalChanges(cs), slack)
                       /\ u = UpdateOf(y, z)
    OBVIOUS
  <1>2. Sound(y) /\ y.order = order /\ y.has = has[s] /\ y.dead = dead[s] /\ IsInjective(order)
    BY <1>1, EditorFacts DEF Replica
  <1>3. /\ subscribed[s] /\ edits < MaxEdits /\ edits' = edits + 1
        /\ shown' = [shown EXCEPT ![s] = Edited(@, cs)]
        /\ order' = z.order
        /\ has' = [has EXCEPT ![s] = z.has]
        /\ dead' = [dead EXCEPT ![s] = z.dead]
        /\ inbox' = [t \in Editors |-> IF t = s \/ view[t] = "destroyed"
                                       THEN inbox[t] ELSE Append(inbox[t], u)]
        /\ torn' = [torn EXCEPT ![s] = @ \/ ~SimpleChanges(cs)]
        /\ view' = view /\ subscribed' = subscribed
    BY <1>1 DEF LocalChange
  <1>4. shown[s] \in Seq(Items)
    BY DEF IInv, TypeOK
  <1>5. Follows(z, y) /\ cs \in Changes(Items)
    BY <1>1, <1>2, <1>4, LocalReplica
  <1>6. /\ Sound(z) /\ dead[s] \subseteq z.dead
        /\ \A V : V \subseteq ToSet(order) => Among(z.order, V) = Among(order, V)
    BY <1>2, <1>5 DEF Follows, OthersKeep
  <1>7. PICK G : z.has = has[s] \cup G /\ ToSet(z.order) = ToSet(order) \cup G
    BY <1>2, <1>5 DEF Follows
  <1>8. /\ z.order \in Seq(Items) /\ IsInjective(z.order) /\ ToSet(z.order) = 1..Len(z.order)
        /\ z.has \in SUBSET Items /\ z.dead \in SUBSET Items
        /\ z.has \subseteq ToSet(z.order) /\ z.dead \subseteq ToSet(z.order)
    BY <1>6 DEF Sound, Replicas
  <1>9. u \in Update /\ u.ins = z.has \ has[s] /\ u.del = z.dead \ dead[s]
    BY <1>1, <1>2, <1>8 DEF UpdateOf, Update
  <1>10. PICK sh : sh = Edited(shown[s], cs) /\ sh \in Seq(Items)
    <2>1. Edited(shown[s], cs) \in Seq(Items)
      BY <1>4, <1>5, EditedType
    <2> QED
      BY <2>1
  <1>11. /\ shown' \in [Editors -> Seq(Items)] /\ shown'[s] = sh
         /\ has' \in [Editors -> SUBSET Items] /\ has'[s] = z.has
         /\ dead' \in [Editors -> SUBSET Items] /\ dead'[s] = z.dead
         /\ \A t \in Editors \ {s} : has'[t] = has[t] /\ dead'[t] = dead[t] /\ shown'[t] = shown[t]
    BY <1>3, <1>8, <1>10 DEF IInv, TypeOK
  <1>12. /\ torn' \in [Editors -> BOOLEAN] /\ torn'[s] = (torn[s] \/ ~SimpleChanges(cs))
         /\ \A t \in Editors \ {s} : torn'[t] = torn[t]
    BY <1>3 DEF IInv, TypeOK
  <1>13. ASSUME NEW t \in Editors
         PROVE  /\ inbox[t] \in Seq(Update) /\ inbox'[t] \in Seq(Update)
                /\ t = s \/ view[t] = "destroyed" => inbox'[t] = inbox[t]
                /\ t # s /\ view[t] # "destroyed" =>
                      /\ Ins(inbox'[t]) = Ins(inbox[t]) \cup u.ins
                      /\ Del(inbox'[t]) = Del(inbox[t]) \cup u.del
    <2>1. inbox[t] \in Seq(Update)
      BY DEF IInv, TypeOK
    <2>2. CASE t = s \/ view[t] = "destroyed"
      BY <1>3, <2>1, <2>2
    <2>3. CASE ~(t = s \/ view[t] = "destroyed")
      <3>1. inbox'[t] = Append(inbox[t], u)
        BY <1>3, <2>3
      <3>2. Append(inbox[t], u) \in Seq(Update)
        BY <1>9, <2>1
      <3> QED
        BY <1>9, <2>1, <2>3, <3>1, <3>2, QueuedLast
    <2> QED
      BY <2>2, <2>3
  <1>14. TypeOK'
    <2>1. inbox' \in [Editors -> Seq(Update)]
      <3>1. \A t \in Editors : inbox'[t] \in Seq(Update)
        BY <1>13
      <3> QED
        BY <1>3, <3>1
    <2>2. edits' \in 0..MaxEdits
      BY <1>3, EditorAssumption DEF IInv, TypeOK
    <2>3. order' \in Seq(Items) /\ IsInjective(order') /\ ToSet(order') = 1..Len(order')
      BY <1>3, <1>8
    <2> QED
      BY <1>3, <1>11, <1>12, <2>1, <2>2, <2>3 DEF IInv, TypeOK
  <1>15. Known'
    <2>1. ToSet(order') = ToSet(order) \cup G /\ ToSet(order) \subseteq ToSet(order')
      BY <1>3, <1>7
    <2> SUFFICES ASSUME NEW t \in Editors
                 PROVE  /\ has'[t] \cup Ins(inbox'[t]) \subseteq ToSet(order')
                        /\ dead'[t] \cup Del(inbox'[t]) \subseteq ToSet(order')
      BY DEF Known
    <2>2. /\ has[t] \cup Ins(inbox[t]) \subseteq ToSet(order)
          /\ dead[t] \cup Del(inbox[t]) \subseteq ToSet(order)
      BY DEF IInv, Known
    <2>3. /\ z.has \subseteq ToSet(order') /\ z.dead \subseteq ToSet(order')
          /\ u.ins \subseteq ToSet(order') /\ u.del \subseteq ToSet(order')
      BY <1>3, <1>8, <1>9
    <2>4. /\ has'[t] \subseteq ToSet(order') /\ dead'[t] \subseteq ToSet(order')
      BY <1>11, <2>1, <2>2, <2>3
    <2>5. /\ Ins(inbox'[t]) \subseteq ToSet(order') /\ Del(inbox'[t]) \subseteq ToSet(order')
      BY <1>13, <2>1, <2>2, <2>3
    <2> QED
      BY <2>4, <2>5
  <1>16. Delivered'
    <2>1. Live' = Live /\ Live \subseteq Editors /\ s \in Live
      BY <1>3 DEF Live, IInv, TypeOK
    <2>2. PICK O, X : /\ O = ToSet(order) /\ X = dead[s] \cup Del(inbox[s])
                      /\ has[s] \subseteq O
      BY DEF IInv, Known
    <2>3. ASSUME NEW t \in Live
          PROVE  /\ has[t] \cup Ins(inbox[t]) = O /\ dead[t] \cup Del(inbox[t]) = X
      BY <2>1, <2>2 DEF IInv, Delivered
    <2>4. ASSUME NEW t \in Live
          PROVE  /\ has'[t] \cup Ins(inbox'[t]) = O \cup G
                 /\ dead'[t] \cup Del(inbox'[t]) = X \cup z.dead
      <3>1. CASE t = s
        <4>1. inbox'[t] = inbox[t]
          BY <1>13, <2>1, <3>1
        <4> QED
          BY <1>6, <1>7, <1>11, <2>3, <3>1, <4>1
      <3>2. CASE t # s
        <4>1. t \in Editors \ {s} /\ view[t] # "destroyed"
          BY <3>2 DEF Live
        <4>2. /\ Ins(inbox'[t]) = Ins(inbox[t]) \cup (z.has \ has[s])
              /\ Del(inbox'[t]) = Del(inbox[t]) \cup (z.dead \ dead[s])
              /\ has'[t] = has[t] /\ dead'[t] = dead[t]
          BY <1>9, <1>11, <1>13, <4>1
        <4>3. has[t] \cup (Ins(inbox[t]) \cup ((has[s] \cup G) \ has[s])) = O \cup G
          BY <2>2, <2>3, SentTo
        <4>4. dead[t] \cup (Del(inbox[t]) \cup (z.dead \ dead[s])) = X \cup z.dead
          <5>1. dead[s] \subseteq X
            BY <2>2
          <5> QED
            BY <1>6, <2>3, <5>1
        <4> QED
          BY <1>7, <4>2, <4>3, <4>4
      <3> QED
        BY <3>1, <3>2
    <2>5. ToSet(order') = O \cup G
      BY <1>3, <1>7, <2>2
    <2> QED
      BY <2>1, <2>4, <2>5 DEF Delivered
  <1>17. InStep'
    <2> SUFFICES ASSUME NEW t \in Editors, ~torn'[t]
                 PROVE  shown'[t] = Among(order', has'[t] \ dead'[t])
      BY DEF InStep, Text, PlainText, Replica
    <2>1. CASE t = s
      <3>1. SimpleChanges(cs) /\ ~torn[s]
        BY <1>12, <2>1
      <3>2. shown[s] = PlainText(y)
        BY <1>1, <3>1 DEF IInv, InStep, Text
      <3>3. PlainText(z) = Edited(shown[s], cs)
        BY <1>1, <1>2, <1>4, <3>1, <3>2, LocalText
      <3>4. PlainText(z) = Among(order', has'[t] \ dead'[t])
        BY <1>3, <1>11, <2>1 DEF PlainText
      <3> QED
        BY <1>10, <1>11, <2>1, <3>3, <3>4
    <2>2. CASE t # s
      <3>1. has'[t] = has[t] /\ dead'[t] = dead[t] /\ shown'[t] = shown[t] /\ torn'[t] = torn[t]
        BY <1>11, <1>12, <2>2
      <3>2. shown[t] = Among(order, has[t] \ dead[t])
        BY <3>1 DEF IInv, InStep, Text, PlainText, Replica
      <3>3. has[t] \ dead[t] \subseteq ToSet(order)
        BY DEF IInv, Known
      <3>4. Among(z.order, has[t] \ dead[t]) = Among(order, has[t] \ dead[t])
        BY <1>6, <3>3
      <3> QED
        BY <1>3, <3>1, <3>2, <3>4
    <2> QED
      BY <2>1, <2>2
  <1> QED
    BY <1>14, <1>15, <1>16, <1>17 DEF IInv

LEMMA StutterStep ==
    ASSUME IInv, UNCHANGED vars
    PROVE  IInv'
  <1>1. /\ view' = view /\ subscribed' = subscribed /\ order' = order /\ has' = has
        /\ dead' = dead /\ shown' = shown /\ inbox' = inbox /\ torn' = torn /\ edits' = edits
    BY DEF vars
  <1>2. TypeOK'
    BY <1>1 DEF IInv, TypeOK
  <1>3. Known'
    BY <1>1 DEF IInv, Known
  <1>4. Delivered'
    BY <1>1 DEF IInv, Delivered, Live
  <1>5. InStep'
    BY <1>1 DEF IInv, InStep, Text, Replica
  <1> QED
    BY <1>2, <1>3, <1>4, <1>5 DEF IInv

(* Together, the parts of the invariant are preserved by every step.       *)
THEOREM InductiveInvariant == Spec => []IInv
  <1>1. ASSUME IInv, [Next]_vars
        PROVE  IInv'
    <2>1. CASE UNCHANGED vars
      BY <1>1, <2>1, StutterStep
    <2>2. ASSUME NEW s \in Editors,
                 Mount(s) \/ Subscribe(s) \/ UserEdits(s) \/ RemoteUpdate(s) \/ Destroy(s)
          PROVE  IInv'
      <3>1. CASE Mount(s)
        BY <1>1, <3>1, MountStep
      <3>2. CASE Subscribe(s)
        BY <1>1, <3>2, SubscribeStep
      <3>3. CASE UserEdits(s)
        <4>1. PICK cs \in Transactions(shown[s]), slack \in 0..MaxItems : LocalChange(s, cs, slack)
          BY <3>3 DEF UserEdits
        <4> QED
          BY <1>1, <4>1, LocalChangeStep
      <3>4. CASE RemoteUpdate(s)
        BY <1>1, <3>4, RemoteUpdateStep
      <3>5. CASE Destroy(s)
        BY <1>1, <3>5, DestroyStep
      <3> QED
        BY <2>2, <3>1, <3>2, <3>3, <3>4, <3>5
    <2> QED
      BY <1>1, <2>1, <2>2 DEF Next
  <1> QED
    BY InitIInv, <1>1, PTL DEF Spec

(* Every variable keeps its type, no item is placed twice in the order,    *)
(* and only a mounted editor is subscribed: cleanupSession drops the       *)
(* subscription, and applyLocalChanges adds every character once.          *)
THEOREM TypeCorrect == Spec => []TypeOK
  <1>1. IInv => TypeOK
    BY DEF IInv
  <1> QED
    BY <1>1, InductiveInvariant, PTL

(* An editor that has met only simple transactions shows the shared text:  *)
(* the updateListener and applyLocalChanges take a simple transaction of   *)
(* the user to the same text in the Y.Text, and the onDelta listener takes *)
(* a simple delta to the same text in CodeMirror.                          *)
THEOREM EditorsShowTheText == Spec => []ShownIsText
  <1>1. IInv => ShownIsText
    BY DEF IInv, InStep, ShownIsText, Mounted
  <1> QED
    BY <1>1, InductiveInvariant, PTL

(* Mounted editors that have applied all remoteUpdates have the same text, *)
(* and show it if they have met only simple transactions: onLocalUpdate    *)
(* emits all that a transaction did, and the replay to a new subscription  *)
(* loses none of it.                                                       *)
THEOREM EditorsConverge == Spec => []Converged
  <1>1. ASSUME IInv PROVE Converged
    <2> SUFFICES ASSUME NEW s \in Mounted, NEW t \in Mounted, inbox[s] = <<>>, inbox[t] = <<>>
                 PROVE  /\ Text(s) = Text(t)
                        /\ ~torn[s] /\ ~torn[t] => shown[s] = shown[t]
      BY DEF Converged
    <2>1. s \in Editors /\ t \in Editors /\ s \in Live /\ t \in Live
      BY DEF Mounted, Live
    <2>2. /\ has[s] \cup Ins(<<>>) = ToSet(order) /\ has[t] \cup Ins(<<>>) = ToSet(order)
          /\ dead[s] \cup Del(<<>>) = dead[t] \cup Del(<<>>)
      BY <1>1, <2>1 DEF IInv, Delivered
    <2>3. has[s] = has[t] /\ dead[s] = dead[t]
      BY <2>2, NothingQueued
    <2>4. Text(s) = Text(t)
      BY <2>3 DEF Text, PlainText, Replica
    <2>5. (~torn[s] => shown[s] = Text(s)) /\ (~torn[t] => shown[t] = Text(t))
      BY <1>1, <2>1 DEF IInv, InStep
    <2> QED
      BY <2>4, <2>5
  <1> QED
    BY <1>1, InductiveInvariant, PTL
===============================================================================
