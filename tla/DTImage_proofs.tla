---------------------------- MODULE DTImage_proofs ----------------------------
(***************************************************************************)
(* For every tree, every sequence of edits and every place a write may     *)
(* stop: what dt_serialize writes is read back by dt_parse as the tree it  *)
(* was written from, and a part of it is refused.                          *)
(***************************************************************************)
EXTENDS DTImage, Facts

-----------------------------------------------------------------------------
(***************************************************************************)
(* The folds of the model, one record or piece at a time.                  *)
(***************************************************************************)
MaxOf(n) == [t \in SUBSET (1..n) |-> Max(t)]

LEMMA MaxIs ==
  ASSUME NEW n \in Nat, NEW t \in SUBSET (1..n), t # {}
  PROVE  MaxOf(n)[t] = Max(t) /\ Max(t) \in t /\ \A y \in t : y <= Max(t)
<1> DEFINE Above == {i \in 0..n : \A y \in t : y <= i}
<1>1. PICK m \in Above : \A k \in Above : m <= k
  <2>1. n \in Above /\ Above \in SUBSET Nat
    OBVIOUS
  <2> HIDE DEF Above
  <2> QED
    BY <2>1, Smallest
<1>2. m \in t
  <2> SUFFICES ASSUME m \notin t PROVE FALSE
    OBVIOUS
  <2>1. \A y \in t : y \in Nat /\ y >= 1 /\ y <= m /\ y # m
    OBVIOUS
  <2>2. PICK y \in t : TRUE
    OBVIOUS
  <2>3. m - 1 \in Above
    BY <2>1, <2>2
  <2> QED
    BY <1>1, <2>3
<1>3. \A y \in t : m >= y
  OBVIOUS
<1>4. Max(t) \in t /\ \A y \in t : Max(t) >= y
  BY <1>2, <1>3 DEF Max
<1> QED
  BY <1>4 DEF MaxOf

\* How FoldLeft goes over s: what it is at the set of the first indices, the last of them
\* taken out first; the same of a function of which only this is known.
LastSteps(g, D, a, s, OP) ==
  /\ g \in [SUBSET DOMAIN s -> D] /\ g[{}] = a
  /\ \A t \in SUBSET DOMAIN s : t # {} => g[t] = OP[s[Max(t)]][g[t \ {Max(t)}]]
LastFollows(f, D, a, s, OP) ==
  /\ f[{}] = a
  /\ \A t \in SUBSET DOMAIN s :
       t # {} /\ f[t \ {Max(t)}] \in D => f[t] = OP[s[Max(t)]][f[t \ {Max(t)}]]

LEMMA LastIs ==
  ASSUME NEW E, NEW s \in Seq(E), NEW t \in SUBSET DOMAIN s, t # {}
  PROVE  Max(t) \in t /\ s[Max(t)] \in E
<1>1. PICK n \in Nat : n = Len(s) /\ DOMAIN s = 1..n
  OBVIOUS
<1>2. Max(t) \in t
  BY <1>1, MaxIs
<1> QED
  BY <1>1, <1>2

LEMMA FoldFound ==
  ASSUME NEW D, NEW a \in D, NEW E, NEW s \in Seq(E), NEW OP \in [E -> [D -> D]]
  PROVE  /\ \E g : LastSteps(g, D, a, s, OP)
         /\ \A f : LastFollows(f, D, a, s, OP) => Folded(OP, D, a, s, f[DOMAIN s])
<1>n. PICK n \in Nat : n = Len(s) /\ DOMAIN s = 1..n
  OBVIOUS
<1>1. \A t \in SUBSET (1..n) : t # {} =>
        MaxOf(n)[t] = Max(t) /\ Max(t) \in t /\ \A y \in t : y <= Max(t)
  BY MaxIs
<1>2. PICK g : FoldSteps(g, D, a, s, OP, MaxOf(n), n)
               /\ \A f : FoldFollows(f, D, a, s, OP, MaxOf(n), n)
                           => Folded(OP, D, a, s, f[1..n])
  <2>1. \A t \in SUBSET (1..n) : t # {} => MaxOf(n)[t] \in t /\ \A y \in t : y <= MaxOf(n)[t]
    BY <1>1
  <2> QED
    BY <1>n, <2>1, FoldIs
<1>3. LastSteps(g, D, a, s, OP)
  <2>1. /\ g \in [SUBSET DOMAIN s -> D] /\ g[{}] = a
        /\ \A t \in SUBSET DOMAIN s : t # {} => g[t] = OP[s[MaxOf(n)[t]]][g[t \ {MaxOf(n)[t]}]]
    BY <1>n, <1>2, Zenon DEF FoldSteps
  <2>2. \A t \in SUBSET DOMAIN s : t # {} => MaxOf(n)[t] = Max(t)
    BY <1>n, <1>1, Zenon
  <2> QED
    BY <2>1, <2>2 DEF LastSteps
<1>4. ASSUME NEW f, LastFollows(f, D, a, s, OP) PROVE Folded(OP, D, a, s, f[DOMAIN s])
  <2>1. FoldFollows(f, D, a, s, OP, MaxOf(n), n)
    BY <1>n, <1>1, <1>4 DEF FoldFollows, LastFollows
  <2> QED
    BY <1>n, <1>2, <2>1
<1> QED
  BY <1>3, <1>4

LEMMA AlignIs ==
  ASSUME NEW n \in Nat PROVE Align(n) \in Nat /\ n <= Align(n) /\ Align(n) <= n + 3
BY DEF Align

LEMMA FieldIs ==
  ASSUME NEW f \in Field
  PROVE  /\ Width(f) \in Nat /\ 8 <= Width(f)
         /\ f.kind # "node" => Length[f.val] \in Nat
<1>1. CASE f.kind = "node"
  BY <1>1 DEF Width
<1>2. CASE f.kind # "node"
  <2>1. Length[f.val] \in Nat
    BY <1>2, ImageAssumption DEF Field
  <2>2. Align(Length[f.val]) \in Nat
    BY <2>1, AlignIs
  <2> QED
    BY <1>2, <2>1, <2>2 DEF Width
<1> QED
  BY <1>1, <1>2

AddWidth == [f \in Field |-> [n \in Nat |-> n + Width(f)]]

LEMMA BytesFolded ==
  ASSUME NEW s \in Seq(Field)
  PROVE  Folded(AddWidth, Nat, 0, s, Bytes(s))
<1> DEFINE I == DOMAIN s
           Sol(f) == f = [t \in SUBSET I |-> IF t = {} THEN 0 ELSE f[t \ {Max(t)}] + Width(s[Max(t)])]
           F == CHOOSE f : Sol(f)
<1>1. Bytes(s) = F[I]
  BY DEF Bytes, FoldLeft, MapThenFoldSet
<1>2. AddWidth \in [Field -> [Nat -> Nat]] /\ \A e \in Field, v \in Nat : AddWidth[e][v] = v + Width(e)
  BY FieldIs DEF AddWidth
<1>3. \A t \in SUBSET I : t # {} => Max(t) \in t /\ s[Max(t)] \in Field
  BY LastIs
<1>4. PICK g : LastSteps(g, Nat, 0, s, AddWidth)
  BY <1>2, FoldFound
<1>5. Sol(g)
  <2>1. /\ g \in [SUBSET I -> Nat] /\ g[{}] = 0
        /\ \A t \in SUBSET I : t # {} => g[t] = AddWidth[s[Max(t)]][g[t \ {Max(t)}]]
    BY <1>4 DEF LastSteps
  <2>2. \A t \in SUBSET I : t # {} => g[t] = g[t \ {Max(t)}] + Width(s[Max(t)])
    BY <1>2, <1>3, <2>1
  <2> HIDE DEF I
  <2> QED
    BY <2>1, <2>2
<1>6. Sol(F)
  BY <1>5
<1>7. LastFollows(F, Nat, 0, s, AddWidth)
  <2> HIDE DEF F
  <2>1. \A t \in SUBSET I : F[t] = IF t = {} THEN 0 ELSE F[t \ {Max(t)}] + Width(s[Max(t)])
    BY <1>6
  <2> QED
    BY <1>2, <1>3, <2>1 DEF LastFollows
<1> HIDE DEF F
<1>8. \A f : LastFollows(f, Nat, 0, s, AddWidth) => Folded(AddWidth, Nat, 0, s, f[DOMAIN s])
  BY <1>2, FoldFound
<1> QED
  BY <1>1, <1>7, <1>8

-----------------------------------------------------------------------------
(***************************************************************************)
(* What the cursor of dt_parse keeps: names that are cut, a list for each  *)
(* node, and the numbers of children met so far in the order of headers,   *)
(* with d[i] nodes still due after the first i, none past the limit.       *)
(***************************************************************************)
Kept == {e \in Store!Entry : Stored[e.name] = e.name}
Preorder(k, d) ==
  /\ d \in [0..Len(k) -> Nat] /\ d[0] = 1
  /\ \A i \in 1..Len(k) : d[i - 1] > 0 /\ d[i] = d[i - 1] - 1 + k[i] /\ k[i] <= MaxChildren
Record == [off : Nat, err : BOOLEAN, due : Nat, left : Nat, kids : Seq(Nat), lists : Seq(Seq(Kept))]
Cursor ==
  {c \in Record : /\ Len(c.lists) = Len(c.kids) /\ (c.left > 0 => Len(c.kids) > 0)
                  /\ \E d : Preorder(c.kids, d) /\ c.due = d[Len(c.kids)]}

LEMMA StartIsCursor == Start \in Cursor
<1>1. Start \in Record
  BY DEF Start, Record
<1> DEFINE d == [i \in 0..0 |-> 1]
<1>2. Preorder(Start.kids, d) /\ Start.due = d[Len(Start.kids)]
  <2>1. d \in [0..0 -> Nat] /\ d[0] = 1
    OBVIOUS
  <2> HIDE DEF d
  <2> QED
    BY <2>1 DEF Preorder, Start
<1> HIDE DEF d
<1> QED
  BY <1>1, <1>2 DEF Cursor, Start

\* What Take does, field by field.
LEMMA TakenNode ==
  ASSUME NEW c \in Record, NEW f \in Field, f.kind = "node", c.due > 0
  PROVE  /\ Take(c, f) \in Record
         /\ Take(c, f).off = c.off + Width(f) /\ Take(c, f).err = c.err
         /\ Take(c, f).due = c.due - 1 + f.n_children /\ Take(c, f).left = f.n_props
         /\ Take(c, f).kids = Append(c.kids, f.n_children)
         /\ Take(c, f).lists = Append(c.lists, <<>>)
         /\ f.n_props \in Nat /\ f.n_children \in Nat
<1>1. f.n_props \in Nat /\ f.n_children \in Nat
  BY DEF Field
<1>2. /\ c.off + Width(f) \in Nat /\ c.due - 1 + f.n_children \in Nat
      /\ Append(c.kids, f.n_children) \in Seq(Nat)
      /\ Append(c.lists, <<>>) \in Seq(Seq(Kept))
  <2>1. c.off \in Nat /\ c.due \in Nat /\ c.kids \in Seq(Nat) /\ c.lists \in Seq(Seq(Kept))
    BY DEF Record
  <2>2. c.off + Width(f) \in Nat
    BY <2>1, FieldIs
  <2>3. c.due - 1 + f.n_children \in Nat
    BY <1>1, <2>1
  <2>4. <<>> \in Seq(Kept)
    OBVIOUS
  <2>5. Append(c.kids, f.n_children) \in Seq(Nat) /\ Append(c.lists, <<>>) \in Seq(Seq(Kept))
    BY <1>1, <2>1, <2>4
  <2> QED
    BY <2>2, <2>3, <2>5
<1> QED
  BY <1>1, <1>2 DEF Take, Record

LEMMA EntryRead ==
  ASSUME NEW f \in Field, f.kind = "prop"
  PROVE  [name |-> NameRead(f), val |-> f.val, flag |-> f.flag] \in Kept
<1>1. f.name \in Name /\ f.val \in Val /\ f.flag \in BOOLEAN
  BY DEF Field
<1>2. NameRead(f) \in Name /\ Stored[NameRead(f)] = NameRead(f)
  BY <1>1, ImageAssumption DEF NameRead
<1> QED
  BY <1>1, <1>2 DEF Kept, Store!Entry

Grown(ls, k, e) == [ls EXCEPT ![k] = Append(ls[k], e)]

LEMMA TakenProp ==
  ASSUME NEW c \in Record, NEW f \in Field, f.kind = "prop", c.left > 0,
         NEW k \in Nat, k = Len(c.lists), k > 0
  PROVE  /\ Take(c, f) \in Record
         /\ Take(c, f).off = c.off + Width(f) /\ Take(c, f).err = c.err
         /\ Take(c, f).due = c.due /\ Take(c, f).left = c.left - 1
         /\ Take(c, f).kids = c.kids
         /\ Take(c, f).lists =
              Grown(c.lists, k, [name |-> NameRead(f), val |-> f.val, flag |-> f.flag])
         /\ Len(Take(c, f).lists) = k
<1> DEFINE e == [name |-> NameRead(f), val |-> f.val, flag |-> f.flag]
<1>1. e \in Kept
  BY EntryRead
<1>2. c.off \in Nat /\ c.left \in Nat /\ c.lists \in Seq(Seq(Kept)) /\ k \in DOMAIN c.lists
  BY DEF Record
<1>3. Take(c, f) = [c EXCEPT !.off = c.off + Width(f), !.left = c.left - 1,
                             !.lists = [c.lists EXCEPT ![k] = Append(c.lists[k], e)]]
  BY DEF Take
<1> HIDE DEF e
<1> DEFINE new == [c.lists EXCEPT ![k] = Append(c.lists[k], e)]
<1>4. new \in Seq(Seq(Kept)) /\ Len(new) = k
  <2>1. c.lists[k] \in Seq(Kept)
    BY <1>2
  <2>2. Append(c.lists[k], e) \in Seq(Kept)
    BY <1>1, <2>1
  <2> QED
    BY <1>2, <2>2
<1>5. c.off + Width(f) \in Nat /\ c.left - 1 \in Nat
  <2>1. Width(f) \in Nat
    BY FieldIs
  <2>2. c.off \in Nat /\ c.left \in Nat /\ c.left > 0
    BY <1>2
  <2> QED
    BY <2>1, <2>2
<1>6. new = Grown(c.lists, k, e)
  BY DEF Grown
<1> HIDE DEF new
<1>7. /\ Take(c, f) \in Record
      /\ Take(c, f).off = c.off + Width(f) /\ Take(c, f).err = c.err
      /\ Take(c, f).due = c.due /\ Take(c, f).left = c.left - 1
      /\ Take(c, f).kids = c.kids /\ Take(c, f).lists = new
  <2>1. Take(c, f) = [c EXCEPT !.off = c.off + Width(f), !.left = c.left - 1, !.lists = new]
    BY <1>3 DEF new
  <2> QED
    BY <1>4, <1>5, <2>1 DEF Record
<1> QED
  BY <1>4, <1>6, <1>7 DEF e

LEMMA ReadKeeps ==
  ASSUME NEW c \in Cursor, NEW f \in Field, NEW size
  PROVE  Read(c, f, size) \in Cursor
<1>0. /\ c \in Record /\ Len(c.lists) = Len(c.kids) /\ (c.left > 0 => Len(c.kids) > 0)
      /\ c.kids \in Seq(Nat) /\ c.lists \in Seq(Seq(Kept)) /\ c.due \in Nat /\ c.left \in Nat
  BY DEF Cursor, Record
<1>d. PICK d : Preorder(c.kids, d) /\ c.due = d[Len(c.kids)]
  BY DEF Cursor
<1>1. CASE c.err \/ Done(c)
  BY <1>1 DEF Read
<1>2. CASE ~(c.err \/ Done(c)) /\ Whole(c, f, size) /\ Sane(f) /\ (f.kind = "prop" <=> c.left > 0)
  <2>0. Read(c, f, size) = Take(c, f)
    BY <1>2 DEF Read
  <2>1. CASE c.left = 0
    <3>1. f.kind = "node" /\ c.due > 0 /\ f.n_children <= MaxChildren
      BY <1>0, <1>2, <2>1 DEF Done, Field, Sane
    <3> DEFINE e == Take(c, f)
    <3>2. /\ e \in Record
          /\ e.due = c.due - 1 + f.n_children
          /\ e.kids = Append(c.kids, f.n_children)
          /\ e.lists = Append(c.lists, <<>>)
          /\ f.n_children \in Nat
      BY <1>0, <3>1, TakenNode
    <3> HIDE DEF e
    <3>k. PICK k \in Nat : k = Len(c.kids)
      BY <1>0
    <3>3. /\ Len(e.kids) = k + 1 /\ Len(e.lists) = k + 1
          /\ e.kids[k + 1] = f.n_children /\ \A i \in 1..k : e.kids[i] = c.kids[i]
      <4>1. <<>> \in Seq(Kept)
        OBVIOUS
      <4>2. Len(e.kids) = k + 1 /\ e.kids[k + 1] = f.n_children /\ \A i \in 1..k : e.kids[i] = c.kids[i]
        BY <1>0, <3>2, <3>k
      <4>3. Len(e.lists) = k + 1
        BY <1>0, <3>2, <3>k, <4>1
      <4> QED
        BY <4>2, <4>3
    <3> DEFINE h == [i \in 0..(k + 1) |-> IF i = k + 1 THEN d[k] - 1 + f.n_children ELSE d[i]]
    <3>4. /\ d \in [0..k -> Nat] /\ d[0] = 1 /\ d[k] = c.due
          /\ \A i \in 1..k : d[i - 1] > 0 /\ d[i] = d[i - 1] - 1 + c.kids[i] /\ c.kids[i] <= MaxChildren
      BY <1>d, <3>k DEF Preorder
    <3>5. h \in [0..(k + 1) -> Nat]
      <4>1. d[k] - 1 + f.n_children \in Nat
        BY <1>0, <3>1, <3>2, <3>4
      <4> QED
        BY <3>4, <4>1
    <3>6. h[0] = 1 /\ h[k + 1] = e.due
      BY <3>2, <3>4
    <3>7. ASSUME NEW i \in 1..(k + 1)
          PROVE  h[i - 1] > 0 /\ h[i] = h[i - 1] - 1 + e.kids[i] /\ e.kids[i] <= MaxChildren
      <4>1. CASE i = k + 1
        BY <3>1, <3>3, <3>4, <4>1
      <4>2. CASE i # k + 1
        <5>1. i \in 1..k /\ h[i] = d[i] /\ h[i - 1] = d[i - 1]
          BY <4>2
        <5> QED
          BY <3>3, <3>4, <5>1
      <4> QED
        BY <4>1, <4>2
    <3> HIDE DEF h
    <3>8. Preorder(e.kids, h) /\ e.due = h[Len(e.kids)]
      BY <3>3, <3>5, <3>6, <3>7 DEF Preorder
    <3>9. e \in Cursor
      <4>1. Len(e.kids) > 0 /\ Len(e.lists) = Len(e.kids)
        BY <3>3, <3>k
      <4>2. \E x : Preorder(e.kids, x) /\ e.due = x[Len(e.kids)]
        BY <3>8
      <4> QED
        BY <3>2, <4>1, <4>2 DEF Cursor
    <3> QED
      BY <2>0, <3>9 DEF e
  <2>2. CASE c.left # 0
    <3>1. c.left > 0 /\ f.kind = "prop" /\ Len(c.lists) \in Nat /\ Len(c.lists) > 0
      BY <1>0, <1>2, <2>2
    <3> DEFINE e == Take(c, f)
    <3>2. e \in Record /\ e.due = c.due /\ e.kids = c.kids /\ Len(e.lists) = Len(c.lists)
      BY <1>0, <3>1, TakenProp
    <3> HIDE DEF e
    <3>3. e \in Cursor
      BY <1>0, <1>d, <3>1, <3>2 DEF Cursor
    <3> QED
      BY <2>0, <3>3 DEF e
  <2> QED
    BY <2>1, <2>2
<1>3. CASE ~(c.err \/ Done(c)) /\ ~(Whole(c, f, size) /\ Sane(f) /\ (f.kind = "prop" <=> c.left > 0))
  <2> DEFINE e == [c EXCEPT !.err = TRUE]
  <2>1. Read(c, f, size) = e
    BY <1>3 DEF Read
  <2>2. e \in Record /\ e.lists = c.lists /\ e.kids = c.kids /\ e.due = c.due /\ e.left = c.left
    BY <1>0 DEF Record
  <2> HIDE DEF e
  <2>3. e \in Cursor
    BY <1>0, <1>d, <2>2 DEF Cursor
  <2> QED
    BY <2>1, <2>3
<1> QED
  BY <1>1, <1>2, <1>3

Reading(size) == [f \in Field |-> [c \in Cursor |-> Read(c, f, size)]]

LEMMA PassFolded ==
  ASSUME NEW s \in Seq(Field), NEW size
  PROVE  Folded(Reading(size), Cursor, Start, s, Pass(s, size))
<1> DEFINE I == DOMAIN s
           OP == Reading(size)
           Sol(f) == f = [t \in SUBSET I |->
                            IF t = {} THEN Start ELSE Read(f[t \ {Max(t)}], s[Max(t)], size)]
           F == CHOOSE f : Sol(f)
<1>1. Pass(s, size) = F[I]
  BY DEF Pass, FoldLeft, MapThenFoldSet
<1>2. OP \in [Field -> [Cursor -> Cursor]] /\ \A e \in Field, c \in Cursor : OP[e][c] = Read(c, e, size)
  BY ReadKeeps DEF Reading
<1> HIDE DEF OP
<1>3. \A t \in SUBSET I : t # {} => Max(t) \in t /\ s[Max(t)] \in Field
  BY LastIs
<1>4. /\ \E g : LastSteps(g, Cursor, Start, s, OP)
      /\ \A f : LastFollows(f, Cursor, Start, s, OP) => Folded(OP, Cursor, Start, s, f[DOMAIN s])
  BY <1>2, StartIsCursor, FoldFound
<1>5. PICK g : Sol(g)
  <2>1. PICK g : /\ g \in [SUBSET I -> Cursor] /\ g[{}] = Start
                 /\ \A t \in SUBSET I : t # {} => g[t] = OP[s[Max(t)]][g[t \ {Max(t)}]]
    BY <1>4 DEF LastSteps
  <2>2. \A t \in SUBSET I : t # {} => g[t] = Read(g[t \ {Max(t)}], s[Max(t)], size)
    BY <1>2, <1>3, <2>1
  <2> HIDE DEF I
  <2> QED
    BY <2>1, <2>2
<1>6. Sol(F)
  BY <1>5
<1>7. LastFollows(F, Cursor, Start, s, OP)
  <2> HIDE DEF F
  <2>1. \A t \in SUBSET I : F[t] = IF t = {} THEN Start ELSE Read(F[t \ {Max(t)}], s[Max(t)], size)
    BY <1>6
  <2> QED
    BY <1>2, <1>3, <2>1 DEF LastFollows
<1> HIDE DEF F
<1> QED
  BY <1>1, <1>4, <1>7 DEF OP

Room == [off : Nat, err : BOOLEAN]
Empty0 == [off |-> 0, err |-> FALSE]
Writing(cap) == [n \in Nat |-> [w \in Room |-> w_raw(w, n, cap)]]

LEMMA WriteStep ==
  ASSUME NEW w \in Room, NEW n \in Nat, NEW cap \in Int
  PROVE  /\ w_raw(w, n, cap) \in Room
         /\ w_raw(w, n, cap).err = (w.err \/ (cap # NoCap /\ w.off + n > cap))
         /\ ~w_raw(w, n, cap).err => w_raw(w, n, cap).off = w.off + n
<1>1. w.off \in Nat /\ w.err \in BOOLEAN /\ w.off + n \in Nat
  BY DEF Room
<1>2. CASE w.err \/ (cap # NoCap /\ w.off + n > cap)
  BY <1>1, <1>2 DEF Room, w_raw
<1>3. CASE ~(w.err \/ (cap # NoCap /\ w.off + n > cap))
  BY <1>1, <1>3 DEF Room, w_raw
<1> QED
  BY <1>2, <1>3

LEMMA WrittenFolded ==
  ASSUME NEW s \in Seq(Nat), NEW cap \in Int
  PROVE  \E w \in Room : /\ Folded(Writing(cap), Room, Empty0, s, w)
                         /\ Written(s, cap) = IF w.err THEN -1 ELSE w.off
<1> DEFINE I == DOMAIN s
           OP == Writing(cap)
           Sol(f) == f = [t \in SUBSET I |->
                            IF t = {} THEN Empty0 ELSE w_raw(f[t \ {Max(t)}], s[Max(t)], cap)]
           F == CHOOSE f : Sol(f)
<1>1. Written(s, cap) = IF F[I].err THEN -1 ELSE F[I].off
  BY DEF Written, FoldLeft, MapThenFoldSet, Empty0
<1>2. OP \in [Nat -> [Room -> Room]] /\ \A n \in Nat, w \in Room : OP[n][w] = w_raw(w, n, cap)
  BY WriteStep DEF Writing
<1> HIDE DEF OP
<1>3. \A t \in SUBSET I : t # {} => Max(t) \in t /\ s[Max(t)] \in Nat
  BY LastIs
<1>4. /\ \E g : LastSteps(g, Room, Empty0, s, OP)
      /\ \A f : LastFollows(f, Room, Empty0, s, OP) => Folded(OP, Room, Empty0, s, f[DOMAIN s])
  <2>1. Empty0 \in Room
    BY DEF Empty0, Room
  <2> QED
    BY <1>2, <2>1, FoldFound
<1>5. PICK g : Sol(g)
  <2>1. PICK g : /\ g \in [SUBSET I -> Room] /\ g[{}] = Empty0
                 /\ \A t \in SUBSET I : t # {} => g[t] = OP[s[Max(t)]][g[t \ {Max(t)}]]
    BY <1>4 DEF LastSteps
  <2>2. \A t \in SUBSET I : t # {} => g[t] = w_raw(g[t \ {Max(t)}], s[Max(t)], cap)
    BY <1>2, <1>3, <2>1
  <2> HIDE DEF I
  <2> QED
    BY <2>1, <2>2
<1>6. Sol(F)
  BY <1>5
<1>7. LastFollows(F, Room, Empty0, s, OP)
  <2> HIDE DEF F
  <2>1. \A t \in SUBSET I : F[t] = IF t = {} THEN Empty0 ELSE w_raw(F[t \ {Max(t)}], s[Max(t)], cap)
    BY <1>6
  <2> QED
    BY <1>2, <1>3, <2>1 DEF LastFollows
<1> HIDE DEF F
<1>8. Folded(OP, Room, Empty0, s, F[I])
  BY <1>4, <1>7
<1>9. F[I] \in Room
  BY <1>8 DEF Folded, Chain
<1> QED
  BY <1>1, <1>8, <1>9 DEF OP

-----------------------------------------------------------------------------
\* Where the pieces of FlattenSeq(ss) lie: p[i] elements come of the first i sequences.
Laid(p, ss) ==
  /\ p \in [0..Len(ss) -> Nat] /\ p[0] = 0
  /\ \A i \in 1..Len(ss) : p[i] = p[i - 1] + Len(ss[i])

Flat(p, fs, ss) ==
  /\ Laid(p, ss) /\ Len(fs) = p[Len(ss)]
  /\ \A i \in 1..Len(ss) : \A j \in 1..Len(ss[i]) :
       p[i - 1] + j <= p[Len(ss)] /\ fs[p[i - 1] + j] = ss[i][j]

LEMMA AtMost ==
  ASSUME NEW x \in Nat, NEW y \in Nat, NEW z \in Nat, NEW w, x <= y, w = y + z PROVE x <= w
OBVIOUS

LEMMA EmptyIs == ASSUME NEW S, NEW s \in Seq(S), Len(s) = 0 PROVE s = <<>>
OBVIOUS

LEMMA Joined ==
  ASSUME NEW T, NEW a \in Seq(T), NEW b \in Seq(T)
  PROVE  /\ a \o b \in Seq(T) /\ Len(a \o b) = Len(a) + Len(b)
         /\ \A i \in 1..Len(a) : (a \o b)[i] = a[i]
         /\ \A j \in 1..Len(b) : (a \o b)[Len(a) + j] = b[j]
OBVIOUS

Joins(g, ss, n, T) ==
  /\ g \in [0..n -> Seq(T)] /\ g[0] = <<>>
  /\ \A i \in 1..n : ss[i] \in Seq(T) /\ g[i] = g[i - 1] \o ss[i]

\* The i-th of them is found in the last from where the first i - 1 end.
Spread(g, ss, n) ==
  /\ \A i \in 1..n : Len(g[i]) = Len(g[i - 1]) + Len(ss[i])
  /\ \A i \in 1..n : \A j \in 1..Len(ss[i]) :
       Len(g[i - 1]) + j <= Len(g[n]) /\ g[n][Len(g[i - 1]) + j] = ss[i][j]

LEMMA JoinedAll ==
  ASSUME NEW T, NEW n \in Nat, NEW ss, NEW g, Joins(g, ss, n, T)
  PROVE  Spread(g, ss, n)
<1> DEFINE Good == {k \in 0..n : \A i \in 1..k : \A j \in 1..Len(ss[i]) :
                      Len(g[i - 1]) + j <= Len(g[k]) /\ g[k][Len(g[i - 1]) + j] = ss[i][j]}
<1>1. ASSUME NEW k \in 1..n
      PROVE  /\ g[k - 1] \in Seq(T) /\ g[k] \in Seq(T) /\ ss[k] \in Seq(T)
             /\ Len(g[k - 1]) \in Nat /\ Len(ss[k]) \in Nat /\ Len(g[k]) = Len(g[k - 1]) + Len(ss[k])
             /\ \A i \in 1..Len(g[k - 1]) : g[k][i] = g[k - 1][i]
             /\ \A j \in 1..Len(ss[k]) : g[k][Len(g[k - 1]) + j] = ss[k][j]
  <2>1. g[k - 1] \in Seq(T) /\ g[k] \in Seq(T) /\ ss[k] \in Seq(T) /\ g[k] = g[k - 1] \o ss[k]
    <3>1. k - 1 \in 0..n /\ k \in 0..n
      OBVIOUS
    <3> QED
      BY <3>1 DEF Joins
  <2>a. PICK a : a = g[k - 1]
    OBVIOUS
  <2>b. PICK b : b = ss[k]
    OBVIOUS
  <2>2. a \in Seq(T) /\ b \in Seq(T)
    BY <2>1, <2>a, <2>b
  <2>3. /\ Len(a \o b) = Len(a) + Len(b) /\ Len(a) \in Nat /\ Len(b) \in Nat
        /\ \A i \in 1..Len(a) : (a \o b)[i] = a[i]
        /\ \A j \in 1..Len(b) : (a \o b)[Len(a) + j] = b[j]
    BY <2>2, Joined
  <2> QED
    BY <2>1, <2>3, <2>a, <2>b
<1>2. 0 \in Good
  OBVIOUS
<1>3. ASSUME NEW k \in 1..n, k - 1 \in Good PROVE k \in Good
  <2> SUFFICES ASSUME NEW i \in 1..k, NEW j \in 1..Len(ss[i])
               PROVE  Len(g[i - 1]) + j <= Len(g[k]) /\ g[k][Len(g[i - 1]) + j] = ss[i][j]
    OBVIOUS
  <2>0. i \in 1..n
    OBVIOUS
  <2>1. CASE i = k
    <3>1. Len(g[k - 1]) \in Nat /\ Len(ss[k]) \in Nat /\ Len(g[k]) = Len(g[k - 1]) + Len(ss[k])
          /\ \A x \in 1..Len(ss[k]) : g[k][Len(g[k - 1]) + x] = ss[k][x]
      BY <1>1
    <3>2. j \in 1..Len(ss[k])
      BY <2>1
    <3> QED
      BY <2>1, <3>1, <3>2
  <2>2. CASE i # k
    <3>1. i \in 1..(k - 1)
      BY <2>2
    <3>2. Len(g[i - 1]) + j <= Len(g[k - 1]) /\ g[k - 1][Len(g[i - 1]) + j] = ss[i][j]
      BY <1>3, <3>1
    <3> HIDE DEF Good
    <3>3. Len(g[i - 1]) \in Nat
      BY <1>1, <2>0
    <3>4. Len(g[i - 1]) + j \in 1..Len(g[k - 1])
      BY <1>1, <3>2, <3>3
    <3>5. g[k][Len(g[i - 1]) + j] = g[k - 1][Len(g[i - 1]) + j]
      BY <1>1, <3>4
    <3>6. Len(g[i - 1]) + j <= Len(g[k])
      <4>1. Len(g[k - 1]) \in Nat /\ Len(ss[k]) \in Nat /\ Len(g[k]) = Len(g[k - 1]) + Len(ss[k])
        BY <1>1
      <4>2. Len(g[i - 1]) + j \in Nat /\ Len(g[i - 1]) + j <= Len(g[k - 1])
        BY <3>2, <3>4
      <4> QED
        BY <4>1, <4>2, AtMost
    <3> QED
      BY <3>2, <3>5, <3>6
  <2> QED
    BY <2>1, <2>2
<1>4. n \in Good
  <2> HIDE DEF Good
  <2>1. 0..n \subseteq Good
    BY <1>2, <1>3, Induction
  <2> QED
    BY <2>1
<1> QED
  BY <1>1, <1>4 DEF Spread

LEMMA JoinsExist ==
  ASSUME NEW T, NEW n \in Nat, NEW ss, \A i \in 1..n : ss[i] \in Seq(T)
  PROVE  \E g : Joins(g, ss, n, T)
<1> DEFINE S == Seq(T)
           e == <<>>
           G == [i \in 1..n |-> [x \in S |-> x \o ss[i]]]
<1>1. \A i \in 1..n, x \in S : x \o ss[i] \in S
  BY Joined
<1>2. e \in S
  OBVIOUS
<1> HIDE DEF S, e
<1>3. G \in [1..n -> [S -> S]] /\ \A i \in 1..n, x \in S : G[i][x] = x \o ss[i]
  BY <1>1
<1> HIDE DEF G
<1>4. \E g \in [0..n -> S] : g[0] = e /\ \A i \in 1..n : g[i] = G[i][g[i - 1]]
  <2>1. G \in [1..n -> [S -> S]]
    BY <1>3
  <2> QED
    BY <1>2, <2>1, Iterates
<1>5. PICK g \in [0..n -> S] : g[0] = e /\ \A i \in 1..n : g[i] = G[i][g[i - 1]]
  BY <1>4
<1>6. \A i \in 1..n : g[i - 1] \in S
  BY <1>5
<1>7. \A i \in 1..n : g[i] = g[i - 1] \o ss[i]
  BY <1>3, <1>5, <1>6
<1> QED
  BY <1>5, <1>7 DEF S, e, Joins

LEMMA FlattenIs ==
  ASSUME NEW T, NEW ss \in Seq(Seq(T))
  PROVE  /\ FlattenSeq(ss) \in Seq(T)
         /\ \E p : Flat(p, FlattenSeq(ss), ss)
<1>0. PICK n \in Nat : n = Len(ss)
  OBVIOUS
<1>s. \A i \in 1..n : ss[i] \in Seq(T)
  BY <1>0
<1>j. PICK g : Joins(g, ss, n, T)
  BY <1>s, JoinsExist
<1>g. g \in [0..n -> Seq(T)] /\ g[0] = <<>> /\ \A i \in 1..n : g[i] = g[i - 1] \o ss[i]
  BY <1>j DEF Joins
<1>1. FlattenSeq(ss) = g[n]
  <2>1. CASE n = 0
    <3>1. ss = <<>>
      BY <1>0, <2>1, EmptyIs
    <3>2. g[n] = <<>>
      BY <1>g, <2>1, Zenon
    <3>3. FlattenSeq(ss) = ss
      BY <1>0, <2>1 DEF FlattenSeq
    <3> QED
      BY <3>1, <3>2, <3>3
  <2>2. CASE n # 0
    <3> DEFINE Sol(f) == f = [i \in 1..Len(ss) |-> IF i = 1 THEN ss[i] ELSE f[i - 1] \o ss[i]]
               F == CHOOSE f : Sol(f)
               h == [i \in 1..n |-> g[i]]
    <3>1. FlattenSeq(ss) = F[n]
      BY <1>0, <2>2 DEF FlattenSeq
    <3>2. g[1] = ss[1]
      <4>1. 1 \in 1..n /\ 1 - 1 = 0
        BY <2>2
      <4>2. g[1] = g[1 - 1] \o ss[1] /\ ss[1] \in Seq(T)
        BY <1>g, <1>s, <4>1
      <4>3. g[1] = <<>> \o ss[1]
        BY <1>g, <4>1, <4>2
      <4> QED
        BY <4>2, <4>3
    <3>3. ASSUME NEW i \in 1..n PROVE h[i] = IF i = 1 THEN ss[i] ELSE h[i - 1] \o ss[i]
      <4>1. h[i] = g[i] /\ (i # 1 => h[i - 1] = g[i - 1])
        OBVIOUS
      <4> HIDE DEF h
      <4> QED
        BY <1>g, <3>2, <4>1
    <3>4. h = [i \in 1..n |-> IF i = 1 THEN ss[i] ELSE h[i - 1] \o ss[i]]
      <4> DEFINE H(i) == IF i = 1 THEN ss[i] ELSE h[i - 1] \o ss[i]
      <4>1. h = [i \in 1..n |-> h[i]]
        OBVIOUS
      <4> HIDE DEF h
      <4>2. \A i \in 1..n : h[i] = H(i)
        BY <3>3
      <4> HIDE DEF H
      <4>3. h = [i \in 1..n |-> H(i)]
        BY <4>1, <4>2
      <4> QED
        BY <4>3 DEF H
    <3>5. Sol(h)
      BY <1>0, <3>4, Zenon
    <3> HIDE DEF h
    <3>6. Sol(F)
      BY <3>5
    <3> HIDE DEF F
    <3>7. \A i \in 1..n : F[i] = IF i = 1 THEN ss[i] ELSE F[i - 1] \o ss[i]
      BY <1>0, <3>6
    <3> DEFINE Same == {i \in 0..n : i = 0 \/ F[i] = g[i]}
    <3>8. 0 \in Same
      OBVIOUS
    <3>9. ASSUME NEW i \in 1..n, i - 1 \in Same PROVE i \in Same
      <4>1. CASE i = 1
        BY <3>2, <3>7, <4>1
      <4>2. CASE i # 1
        <5>1. F[i - 1] = g[i - 1]
          BY <3>9, <4>2
        <5>2. F[i] = F[i - 1] \o ss[i] /\ g[i] = g[i - 1] \o ss[i]
          BY <1>g, <3>7, <4>2
        <5>3. F[i] = g[i]
          BY <5>1, <5>2
        <5> QED
          BY <5>3
      <4> QED
        BY <4>1, <4>2
    <3> HIDE DEF Same
    <3>10. 0..n \subseteq Same
      BY <3>8, <3>9, Induction
    <3>11. n \in Same
      BY <3>10
    <3>12. F[n] = g[n]
      BY <2>2, <3>11 DEF Same
    <3> QED
      BY <3>1, <3>12
  <2> QED
    BY <2>1, <2>2
<1> DEFINE p == [i \in 0..n |-> Len(g[i])]
<1>2. Spread(g, ss, n)
  BY <1>j, JoinedAll
<1>3. \A i \in 0..n : p[i] = Len(g[i]) /\ p[i] \in Nat
  BY <1>g
<1>4. p[0] = 0
  BY <1>g, <1>3
<1>5. p \in [0..n -> Nat]
  BY <1>3
<1>6. \A i \in 1..n : p[i - 1] = Len(g[i - 1])
  BY <1>3
<1> HIDE DEF p
<1>7. Laid(p, ss)
  <2>1. ASSUME NEW i \in 1..n PROVE p[i] = p[i - 1] + Len(ss[i])
    <3>1. Len(g[i]) = Len(g[i - 1]) + Len(ss[i])
      BY <1>2 DEF Spread
    <3>2. p[i] = Len(g[i]) /\ p[i - 1] = Len(g[i - 1])
      BY <1>3, <1>6
    <3> QED
      BY <3>1, <3>2
  <2> QED
    BY <1>0, <1>4, <1>5, <2>1 DEF Laid
<1>8. \A i \in 1..n : \A j \in 1..Len(ss[i]) :
        p[i - 1] + j <= p[n] /\ g[n][p[i - 1] + j] = ss[i][j]
  <2> SUFFICES ASSUME NEW i \in 1..n, NEW j \in 1..Len(ss[i])
               PROVE  p[i - 1] + j <= p[n] /\ g[n][p[i - 1] + j] = ss[i][j]
    OBVIOUS
  <2>1. Len(g[i - 1]) + j <= Len(g[n]) /\ g[n][Len(g[i - 1]) + j] = ss[i][j]
    BY <1>2 DEF Spread
  <2>2. p[n] = Len(g[n]) /\ p[i - 1] = Len(g[i - 1])
    BY <1>3, <1>6
  <2> QED
    BY <2>1, <2>2
<1>9. Len(g[n]) = p[n] /\ g[n] \in Seq(T)
  BY <1>g, <1>3
<1> QED
  BY <1>0, <1>1, <1>7, <1>8, <1>9 DEF Flat

-----------------------------------------------------------------------------
(***************************************************************************)
(* The image of a tree, record by record: the header of node n is at       *)
(* p[n - 1] + 1, its entries follow.                                       *)
(***************************************************************************)
Typed(t) == t.kids \in Seq(Nat) /\ t.lists \in Seq(Seq(Kept)) /\ Len(t.kids) = Len(t.lists)
Shape(t, d) == Typed(t) /\ Preorder(t.kids, d) /\ d[Len(t.kids)] = 0

Placed(p, fs, t) ==
  /\ p \in [0..Len(t.kids) -> Nat] /\ p[0] = 0 /\ Len(fs) = p[Len(t.kids)]
  /\ \A n \in 1..Len(t.kids) :
       /\ p[n] = p[n - 1] + 1 + Len(t.lists[n]) /\ p[n] <= Len(fs)
       /\ fs[p[n - 1] + 1] = Header(Len(t.lists[n]), t.kids[n])
       /\ \A i \in 1..Len(t.lists[n]) : fs[p[n - 1] + 1 + i] = Encoded(t.lists[n][i])

LEMMA TypedIs ==
  ASSUME NEW t, Typed(t), NEW n \in 1..Len(t.kids)
  PROVE  /\ t.kids[n] \in Nat /\ t.lists[n] \in Seq(Kept) /\ Len(t.lists[n]) \in Nat
         /\ n \in DOMAIN t.kids /\ n \in DOMAIN t.lists /\ \A i \in 1..Len(t.lists[n]) : t.lists[n][i] \in Kept
<1>1. t.kids \in Seq(Nat) /\ t.lists \in Seq(Seq(Kept)) /\ Len(t.kids) = Len(t.lists)
  BY DEF Typed
<1>2. n \in DOMAIN t.kids /\ n \in DOMAIN t.lists
  BY <1>1
<1>3. t.kids[n] \in Nat /\ t.lists[n] \in Seq(Kept)
  BY <1>1, <1>2
<1> QED
  BY <1>2, <1>3

LEMMA EncodedIs ==
  ASSUME NEW e \in Kept
  PROVE  /\ Encoded(e) \in Field /\ Encoded(e).kind = "prop" /\ Encoded(e).kind # "node"
         /\ [name |-> NameRead(Encoded(e)), val |-> Encoded(e).val, flag |-> Encoded(e).flag] = e
<1>1. /\ e.name \in Name /\ e.val \in Val /\ e.flag \in BOOLEAN /\ Stored[e.name] = e.name
      /\ e = [name |-> e.name, val |-> e.val, flag |-> e.flag]
  BY DEF Kept, Store!Entry
<1> QED
  BY <1>1 DEF Encoded, Property, Field, NameRead

LEMMA HeaderIs ==
  ASSUME NEW np \in Nat, NEW nc \in Nat
  PROVE  /\ Header(np, nc) \in Field /\ Header(np, nc).kind = "node" /\ Header(np, nc).kind # "prop"
         /\ Header(np, nc).n_props = np /\ Header(np, nc).n_children = nc
BY DEF Header, Field

LEMMA NodeImageIs ==
  ASSUME NEW nc \in Nat, NEW es \in Seq(Kept)
  PROVE  /\ NodeImage(nc, es) \in Seq(Field) /\ Len(NodeImage(nc, es)) = 1 + Len(es)
         /\ NodeImage(nc, es)[1] = Header(Len(es), nc)
         /\ \A i \in 1..Len(es) : NodeImage(nc, es)[1 + i] = Encoded(es[i])
<1> DEFINE a == <<Header(Len(es), nc)>>
           b == [i \in DOMAIN es |-> Encoded(es[i])]
<1>1. Len(es) \in Nat /\ DOMAIN es = 1..Len(es)
  OBVIOUS
<1>2. a \in Seq(Field) /\ Len(a) = 1 /\ a[1] = Header(Len(es), nc)
  BY <1>1, HeaderIs
<1>3. b \in Seq(Field) /\ Len(b) = Len(es) /\ \A i \in 1..Len(es) : b[i] = Encoded(es[i])
  <2>1. \A i \in 1..Len(es) : Encoded(es[i]) \in Field
    BY EncodedIs
  <2> QED
    BY <1>1, <2>1
<1>4. NodeImage(nc, es) = a \o b
  BY DEF NodeImage
<1> HIDE DEF a, b
<1>5. /\ a \o b \in Seq(Field) /\ Len(a \o b) = Len(a) + Len(b)
      /\ \A i \in 1..Len(a) : (a \o b)[i] = a[i]
      /\ \A j \in 1..Len(b) : (a \o b)[Len(a) + j] = b[j]
  <2>1. a \in Seq(Field) /\ b \in Seq(Field)
    BY <1>2, <1>3
  <2> QED
    BY <2>1, Joined
<1> QED
  BY <1>1, <1>2, <1>3, <1>4, <1>5

LEMMA ImageIs ==
  ASSUME NEW t, Typed(t)
  PROVE  ImageOf(t) \in Seq(Field) /\ \E p : Placed(p, ImageOf(t), t)
<1> DEFINE ss == [n \in DOMAIN t.kids |-> NodeImage(t.kids[n], t.lists[n])]
<1>n. PICK k \in Nat : k = Len(t.kids) /\ DOMAIN t.kids = 1..k
  BY DEF Typed
<1>1. ASSUME NEW n \in 1..k PROVE t.kids[n] \in Nat /\ t.lists[n] \in Seq(Kept) /\ Len(t.lists[n]) \in Nat
  BY <1>n, TypedIs
<1>2. \A n \in 1..k : /\ ss[n] \in Seq(Field) /\ Len(ss[n]) = 1 + Len(t.lists[n])
                      /\ ss[n][1] = Header(Len(t.lists[n]), t.kids[n])
                      /\ \A i \in 1..Len(t.lists[n]) : ss[n][1 + i] = Encoded(t.lists[n][i])
  <2> SUFFICES ASSUME NEW n \in 1..k
               PROVE  /\ ss[n] \in Seq(Field) /\ Len(ss[n]) = 1 + Len(t.lists[n])
                      /\ ss[n][1] = Header(Len(t.lists[n]), t.kids[n])
                      /\ \A i \in 1..Len(t.lists[n]) : ss[n][1 + i] = Encoded(t.lists[n][i])
    OBVIOUS
  <2>1. ss[n] = NodeImage(t.kids[n], t.lists[n])
    BY <1>n
  <2>2. t.kids[n] \in Nat /\ t.lists[n] \in Seq(Kept)
    BY <1>1
  <2>a. PICK nc \in Nat : nc = t.kids[n]
    BY <2>2
  <2>b. PICK es \in Seq(Kept) : es = t.lists[n]
    BY <2>2
  <2>3. /\ NodeImage(nc, es) \in Seq(Field) /\ Len(NodeImage(nc, es)) = 1 + Len(es)
        /\ NodeImage(nc, es)[1] = Header(Len(es), nc)
        /\ \A i \in 1..Len(es) : NodeImage(nc, es)[1 + i] = Encoded(es[i])
    BY NodeImageIs
  <2> QED
    BY <2>1, <2>3, <2>a, <2>b
<1>3. ImageOf(t) = FlattenSeq(ss)
  BY DEF ImageOf
<1>4. ss \in Seq(Seq(Field)) /\ Len(ss) = k
  <2>1. ss = [n \in 1..k |-> ss[n]]
    BY <1>n
  <2> HIDE DEF ss
  <2>2. ss \in [1..k -> Seq(Field)]
    BY <1>2, <2>1
  <2> QED
    BY <2>2
<1> HIDE DEF ss
<1>f. PICK fs : fs = ImageOf(t)
  OBVIOUS
<1>5. fs \in Seq(Field) /\ \E p : Flat(p, fs, ss)
  <2>1. FlattenSeq(ss) \in Seq(Field) /\ \E p : Flat(p, FlattenSeq(ss), ss)
    BY <1>4, FlattenIs
  <2> QED
    BY <1>3, <1>f, <2>1
<1>6. PICK p : /\ Laid(p, ss) /\ Len(fs) = p[k]
               /\ \A i \in 1..k : \A j \in 1..Len(ss[i]) :
                    p[i - 1] + j <= p[k] /\ fs[p[i - 1] + j] = ss[i][j]
  BY <1>4, <1>5 DEF Flat
<1>7. p \in [0..k -> Nat] /\ p[0] = 0 /\ \A i \in 1..k : p[i] = p[i - 1] + Len(ss[i])
  BY <1>4, <1>6 DEF Laid
<1>8. ASSUME NEW n \in 1..k
      PROVE  /\ p[n] = p[n - 1] + 1 + Len(t.lists[n]) /\ p[n] <= Len(fs)
             /\ fs[p[n - 1] + 1] = Header(Len(t.lists[n]), t.kids[n])
             /\ \A i \in 1..Len(t.lists[n]) : fs[p[n - 1] + 1 + i] = Encoded(t.lists[n][i])
  <2>0. p[n - 1] \in Nat /\ p[n] \in Nat /\ Len(t.lists[n]) \in Nat /\ p[n] = p[n - 1] + Len(ss[n])
    BY <1>1, <1>7
  <2>1. Len(ss[n]) = 1 + Len(t.lists[n]) /\ Len(ss[n]) \in Nat
    BY <1>2, <2>0
  <2>2. \A j \in 1..Len(ss[n]) : p[n - 1] + j <= p[k] /\ fs[p[n - 1] + j] = ss[n][j]
    BY <1>6, Zenon
  <2>x. PICK x \in Nat : x = p[n - 1]
    BY <2>0
  <2>y. PICK y \in Nat : y = Len(t.lists[n])
    BY <2>0
  <2>3. p[n] = p[n - 1] + 1 + Len(t.lists[n])
    <3>1. p[n] = x + (1 + y)
      BY <2>0, <2>1, <2>x, <2>y
    <3>2. x + (1 + y) = x + 1 + y
      OBVIOUS
    <3> QED
      BY <3>1, <3>2, <2>x, <2>y
  <2>4. p[n] <= Len(fs)
    <3>1. p[n - 1] + Len(ss[n]) <= p[k]
      <4>1. Len(ss[n]) \in 1..Len(ss[n])
        BY <2>0, <2>1
      <4> QED
        BY <2>2, <4>1
    <3> QED
      BY <1>6, <2>0, <3>1
  <2>5. fs[p[n - 1] + 1] = Header(Len(t.lists[n]), t.kids[n])
    <3>1. 1 \in 1..Len(ss[n])
      BY <2>0, <2>1
    <3> QED
      BY <1>2, <2>2, <3>1
  <2>6. ASSUME NEW i \in 1..Len(t.lists[n]) PROVE fs[p[n - 1] + 1 + i] = Encoded(t.lists[n][i])
    <3>1. 1 + i \in 1..Len(ss[n])
      <4>1. 1 + i \in 1..(1 + y)
        BY <2>y
      <4> QED
        BY <2>1, <2>y, <4>1
    <3>2. fs[p[n - 1] + (1 + i)] = ss[n][1 + i] /\ ss[n][1 + i] = Encoded(t.lists[n][i])
      BY <1>2, <2>2, <3>1
    <3>3. p[n - 1] + (1 + i) = p[n - 1] + 1 + i
      <4>1. x + (1 + i) = x + 1 + i
        OBVIOUS
      <4> QED
        BY <4>1, <2>x
    <3> QED
      BY <3>2, <3>3
  <2> QED
    BY <2>3, <2>4, <2>5, <2>6
<1>9. Placed(p, fs, t)
  BY <1>n, <1>6, <1>7, <1>8 DEF Placed
<1> QED
  BY <1>5, <1>9, <1>f

-----------------------------------------------------------------------------
(***************************************************************************)
(* The pass of dt_parse over the image of a tree, b bytes of it read: an   *)
(* error as soon as b is more than the file has or a node has more entries *)
(* than the parser takes, and up to there the nodes and the entries of the *)
(* tree.                                                                   *)
(***************************************************************************)
Nodes(c, t, d, n) ==
  /\ ~c.err /\ c.due = d[n] /\ Len(c.kids) = n /\ Len(c.lists) = n
  /\ \A m \in 1..n : c.kids[m] = t.kids[m]
  /\ \A m \in 1..(n - 1) : c.lists[m] = t.lists[m]
Upto(t, n) == \A m \in 1..n : Len(t.lists[m]) <= MaxProps
Between(c, b, size, t, d, n) ==
  IF b > size \/ ~Upto(t, n) THEN c.err
  ELSE Nodes(c, t, d, n) /\ c.off = b /\ c.left = 0 /\ (n > 0 => c.lists[n] = t.lists[n])
Within(c, b, size, t, d, n, i) ==
  IF b > size \/ ~Upto(t, n) THEN c.err
  ELSE /\ Nodes(c, t, d, n) /\ c.off = b /\ c.left = Len(t.lists[n]) - i
       /\ Len(c.lists[n]) = i /\ \A j \in 1..i : c.lists[n][j] = t.lists[n][j]

LEMMA CursorIs ==
  ASSUME NEW c \in Cursor
  PROVE  /\ c \in Record /\ c.off \in Nat /\ c.err \in BOOLEAN /\ c.due \in Nat /\ c.left \in Nat
         /\ c.kids \in Seq(Nat) /\ c.lists \in Seq(Seq(Kept))
BY DEF Cursor, Record

LEMMA DueIs ==
  ASSUME NEW t, NEW d, Shape(t, d), NEW n \in 1..Len(t.kids)
  PROVE  /\ d[n - 1] \in Nat /\ d[n - 1] > 0 /\ d[n] = d[n - 1] - 1 + t.kids[n] /\ d[n] \in Nat
         /\ t.kids[n] <= MaxChildren
<1>1. PICK k \in Nat : k = Len(t.kids)
  BY DEF Shape, Typed
<1>2. /\ d \in [0..k -> Nat]
      /\ \A i \in 1..k : d[i - 1] > 0 /\ d[i] = d[i - 1] - 1 + t.kids[i] /\ t.kids[i] <= MaxChildren
  BY <1>1 DEF Shape, Preorder
<1>3. n \in 1..k /\ n - 1 \in 0..k /\ n \in 0..k
  BY <1>1
<1> QED
  BY <1>2, <1>3

LEMMA ReadWhole ==
  ASSUME NEW c \in Cursor, NEW f, NEW size, ~c.err, ~Done(c), f.kind = "prop" <=> c.left > 0
  PROVE  /\ Whole(c, f, size) /\ Sane(f) => Read(c, f, size) = Take(c, f)
         /\ ~(Whole(c, f, size) /\ Sane(f)) => Read(c, f, size).err
<1>1. c \in Record
  BY CursorIs
<1>2. [c EXCEPT !.err = TRUE].err
  BY <1>1 DEF Record
<1> QED
  BY <1>2 DEF Read

LEMMA HeaderStep ==
  ASSUME NEW t, NEW d, Shape(t, d), NEW n \in 1..Len(t.kids), NEW c \in Cursor,
         NEW b \in Nat, NEW size \in Nat, Between(c, b, size, t, d, n - 1),
         NEW f, f = Header(Len(t.lists[n]), t.kids[n])
  PROVE  Within(Read(c, f, size), b + Width(f), size, t, d, n, 0)
<1>0. /\ t.kids[n] \in Nat /\ t.lists[n] \in Seq(Kept) /\ Len(t.lists[n]) \in Nat
      /\ d[n - 1] \in Nat /\ d[n - 1] > 0 /\ d[n] = d[n - 1] - 1 + t.kids[n]
      /\ t.kids[n] <= MaxChildren
  <2>1. t.kids[n] \in Nat /\ t.lists[n] \in Seq(Kept) /\ Len(t.lists[n]) \in Nat
    BY TypedIs DEF Shape
  <2>2. /\ d[n - 1] \in Nat /\ d[n - 1] > 0 /\ d[n] = d[n - 1] - 1 + t.kids[n]
        /\ t.kids[n] <= MaxChildren
    BY DueIs
  <2> QED
    BY <2>1, <2>2
<1>1. /\ f \in Field /\ f.kind = "node" /\ f.kind # "prop"
      /\ f.n_props = Len(t.lists[n]) /\ f.n_children = t.kids[n]
  <2>1. Len(t.lists[n]) \in Nat /\ t.kids[n] \in Nat
    BY <1>0
  <2>a. PICK np \in Nat : np = Len(t.lists[n])
    BY <2>1
  <2>b. PICK nc \in Nat : nc = t.kids[n]
    BY <2>1
  <2>2. f = Header(np, nc)
    BY <2>a, <2>b
  <2>3. f \in Field /\ f.kind = "node" /\ f.kind # "prop" /\ f.n_props = np /\ f.n_children = nc
    BY <2>2, HeaderIs
  <2> QED
    BY <2>3, <2>a, <2>b
<1>2. Width(f) \in Nat /\ b + Width(f) \in Nat /\ b <= b + Width(f)
  <2>1. Width(f) \in Nat
    BY <1>1, FieldIs
  <2> QED
    BY <2>1
<1>u. Upto(t, n) <=> Upto(t, n - 1) /\ Len(t.lists[n]) <= MaxProps
  <2>1. n \in Nat /\ n > 0
    BY DEF Shape, Typed
  <2>2. 1..n = (1..(n - 1)) \cup {n}
    BY <2>1
  <2> QED
    BY <2>2 DEF Upto
<1>s. Sane(f) <=> Len(t.lists[n]) <= MaxProps
  BY <1>0, <1>1 DEF Sane
<1>3. CASE b > size \/ ~Upto(t, n - 1)
  <2>1. c.err /\ (b + Width(f) > size \/ ~Upto(t, n))
    BY <1>2, <1>3, <1>u DEF Between
  <2>2. Read(c, f, size).err
    BY <2>1 DEF Read
  <2> QED
    BY <2>1, <2>2 DEF Within
<1>4. CASE ~(b > size \/ ~Upto(t, n - 1))
  <2>1. Nodes(c, t, d, n - 1) /\ c.off = b /\ c.left = 0 /\ (n - 1 > 0 => c.lists[n - 1] = t.lists[n - 1])
    BY <1>4 DEF Between
  <2>2. ~c.err /\ c.due = d[n - 1] /\ c.due > 0 /\ ~Done(c)
    BY <1>0, <2>1 DEF Nodes, Done
  <2>3. Whole(c, f, size) <=> b + Width(f) <= size
    BY <2>1 DEF Whole
  <2>4. f.kind = "prop" <=> c.left > 0
    BY <1>1, <2>1
  <2>5. CASE b + Width(f) > size \/ ~Upto(t, n)
    <3>1. ~(Whole(c, f, size) /\ Sane(f))
      BY <1>2, <1>4, <1>s, <1>u, <2>3, <2>5
    <3>2. Read(c, f, size).err
      BY <2>2, <2>4, <3>1, ReadWhole
    <3> QED
      BY <2>5, <3>2 DEF Within
  <2>6. CASE ~(b + Width(f) > size \/ ~Upto(t, n))
    <3> DEFINE e == Take(c, f)
    <3>s. Whole(c, f, size) /\ Sane(f)
      BY <1>2, <1>s, <1>u, <2>3, <2>6
    <3>1. Read(c, f, size) = e
      BY <2>2, <2>4, <3>s, ReadWhole
    <3>2. /\ e.off = c.off + Width(f) /\ e.err = c.err
          /\ e.due = c.due - 1 + f.n_children /\ e.left = f.n_props
          /\ e.kids = Append(c.kids, f.n_children) /\ e.lists = Append(c.lists, <<>>)
      BY <1>1, <2>2, CursorIs, TakenNode
    <3> HIDE DEF e
    <3>3. /\ c.kids \in Seq(Nat) /\ Len(c.kids) = n - 1 /\ \A m \in 1..(n - 1) : c.kids[m] = t.kids[m]
          /\ c.lists \in Seq(Seq(Kept)) /\ Len(c.lists) = n - 1
          /\ \A m \in 1..(n - 1) : c.lists[m] = t.lists[m]
      <4>1. \A m \in 1..(n - 1) : c.lists[m] = t.lists[m]
        BY <2>1 DEF Nodes
      <4> QED
        BY <2>1, <4>1, CursorIs DEF Nodes
    <3>4. Len(e.kids) = n /\ \A m \in 1..n : e.kids[m] = t.kids[m]
      BY <1>1, <3>2, <3>3
    <3>5. Len(e.lists) = n /\ e.lists[n] = <<>> /\ \A m \in 1..(n - 1) : e.lists[m] = t.lists[m]
      BY <3>2, <3>3
    <3>6. e.due = d[n] /\ e.off = b + Width(f) /\ ~e.err /\ e.left = Len(t.lists[n]) - 0
      BY <1>0, <1>1, <2>1, <2>2, <3>2
    <3> QED
      BY <2>6, <3>1, <3>4, <3>5, <3>6 DEF Within, Nodes
  <2> QED
    BY <2>5, <2>6
<1> QED
  BY <1>3, <1>4

LEMMA EntryStep ==
  ASSUME NEW t, NEW d, Shape(t, d), NEW n \in 1..Len(t.kids), NEW c \in Cursor,
         NEW i \in 1..Len(t.lists[n]),
         NEW b \in Nat, NEW size \in Nat, Within(c, b, size, t, d, n, i - 1),
         NEW f, f = Encoded(t.lists[n][i])
  PROVE  Within(Read(c, f, size), b + Width(f), size, t, d, n, i)
<1>0. /\ t.lists[n] \in Seq(Kept) /\ Len(t.lists[n]) \in Nat /\ t.lists[n][i] \in Kept
  BY DEF Shape, Typed
<1>1. /\ f \in Field /\ f.kind = "prop" /\ f.kind # "node"
      /\ [name |-> NameRead(f), val |-> f.val, flag |-> f.flag] = t.lists[n][i]
  BY <1>0, EncodedIs
<1>2. Width(f) \in Nat /\ b + Width(f) \in Nat /\ b <= b + Width(f)
  <2>1. Width(f) \in Nat
    BY <1>1, FieldIs
  <2> QED
    BY <2>1
<1>s. Sane(f)
  BY <1>1 DEF Sane
<1>3. CASE b > size \/ ~Upto(t, n)
  <2>1. c.err /\ (b + Width(f) > size \/ ~Upto(t, n))
    BY <1>2, <1>3 DEF Within
  <2>2. Read(c, f, size).err
    BY <2>1 DEF Read
  <2> QED
    BY <2>1, <2>2 DEF Within
<1>4. CASE ~(b > size \/ ~Upto(t, n))
  <2>1. /\ Nodes(c, t, d, n) /\ c.off = b /\ c.left = Len(t.lists[n]) - (i - 1)
        /\ Len(c.lists[n]) = i - 1 /\ \A j \in 1..(i - 1) : c.lists[n][j] = t.lists[n][j]
    BY <1>4 DEF Within
  <2>2. ~c.err /\ c.left > 0 /\ ~Done(c)
    BY <1>0, <2>1 DEF Nodes, Done
  <2>3. Whole(c, f, size) <=> b + Width(f) <= size
    BY <2>1 DEF Whole
  <2>4. f.kind = "prop" <=> c.left > 0
    BY <1>1, <2>2
  <2>5. CASE b + Width(f) > size \/ ~Upto(t, n)
    <3>0. ~Whole(c, f, size)
      BY <1>2, <1>4, <2>3, <2>5
    <3>1. Read(c, f, size).err
      BY <2>2, <2>4, <3>0, ReadWhole
    <3> QED
      BY <2>5, <3>1 DEF Within
  <2>6. CASE ~(b + Width(f) > size \/ ~Upto(t, n))
    <3> DEFINE e == Take(c, f)
    <3>w. Whole(c, f, size)
      BY <1>2, <2>3, <2>6
    <3>1. Read(c, f, size) = e
      BY <1>s, <2>2, <2>4, <3>w, ReadWhole
    <3>n. n \in Nat /\ n > 0 /\ n = Len(c.lists)
      BY <2>1 DEF Nodes, Shape, Typed
    <3>2. /\ e.off = c.off + Width(f) /\ e.err = c.err
          /\ e.due = c.due /\ e.left = c.left - 1 /\ e.kids = c.kids
          /\ e.lists = Grown(c.lists, n, [name |-> NameRead(f), val |-> f.val, flag |-> f.flag])
          /\ Len(e.lists) = n
      <4>1. c \in Record
        BY CursorIs
      <4>2. f \in Field /\ f.kind = "prop" /\ c.left > 0
        BY <1>1, <2>2
      <4>3. n \in Nat /\ n = Len(c.lists) /\ n > 0
        BY <3>n
      <4> QED
        BY <4>1, <4>2, <4>3, TakenProp DEF e
    <3> HIDE DEF e
    <3>3. e.lists = [c.lists EXCEPT ![n] = Append(c.lists[n], t.lists[n][i])]
      BY <1>1, <3>2 DEF Grown
    <3>4. c.lists \in Seq(Seq(Kept)) /\ n \in DOMAIN c.lists /\ c.lists[n] \in Seq(Kept)
      BY <3>n, CursorIs
    <3>5. e.lists[n] = Append(c.lists[n], t.lists[n][i]) /\ \A m \in 1..(n - 1) : e.lists[m] = c.lists[m]
      <4>1. e.lists[n] = Append(c.lists[n], t.lists[n][i])
        BY <3>3, <3>4
      <4>2. \A m \in 1..(n - 1) : m \in DOMAIN c.lists /\ m # n
        BY <3>4, <3>n
      <4> QED
        BY <3>3, <4>1, <4>2
    <3>6. Len(e.lists[n]) = i /\ \A j \in 1..i : e.lists[n][j] = t.lists[n][j]
      <4>1. PICK s \in Seq(Kept) : s = c.lists[n]
        BY <3>4
      <4>2. PICK r \in Seq(Kept) : r = t.lists[n]
        BY <1>0
      <4>3. Len(s) = i - 1 /\ \A j \in 1..(i - 1) : s[j] = r[j]
        BY <2>1, <4>1, <4>2
      <4>4. i \in 1..Len(r) /\ r[i] \in Kept
        BY <1>0, <4>2
      <4>5. Len(Append(s, r[i])) = i /\ \A j \in 1..i : Append(s, r[i])[j] = r[j]
        BY <4>3, <4>4
      <4> QED
        BY <3>5, <4>1, <4>2, <4>5
    <3>7. /\ ~e.err /\ e.off = b + Width(f) /\ e.due = d[n] /\ Len(e.kids) = n
          /\ \A m \in 1..n : e.kids[m] = t.kids[m]
      BY <2>1, <3>2 DEF Nodes
    <3>8. e.left = Len(t.lists[n]) - i
      <4>1. PICK k \in Nat : k = Len(t.lists[n])
        BY <1>0
      <4>2. e.left = (k - (i - 1)) - 1
        BY <2>1, <3>2, <4>1
      <4> QED
        BY <4>1, <4>2
    <3>9. \A m \in 1..(n - 1) : e.lists[m] = t.lists[m]
      BY <2>1, <3>5 DEF Nodes
    <3>10. Nodes(e, t, d, n)
      BY <3>2, <3>7, <3>9 DEF Nodes
    <3> QED
      BY <2>6, <3>1, <3>6, <3>7, <3>8, <3>10 DEF Within
  <2> QED
    BY <2>5, <2>6
<1> QED
  BY <1>3, <1>4

\* g[k] is the cursor and b[k] the number of bytes after k records.
Walk(g, b, fs, size) ==
  /\ g \in [0..Len(fs) -> Cursor] /\ g[0] = Start
  /\ b \in [0..Len(fs) -> Nat] /\ b[0] = 0
  /\ \A k \in 1..Len(fs) : g[k] = Read(g[k - 1], fs[k], size) /\ b[k] = b[k - 1] + Width(fs[k])

LEMMA WalkExists ==
  ASSUME NEW fs \in Seq(Field), NEW size \in Nat
  PROVE  \E g, b : Walk(g, b, fs, size) /\ Pass(fs, size) = g[Len(fs)] /\ Bytes(fs) = b[Len(fs)]
<1>1. PICK g : Chain(g, Reading(size), Cursor, Start, fs) /\ Pass(fs, size) = g[Len(fs)]
  BY PassFolded DEF Folded
<1>2. PICK b : Chain(b, AddWidth, Nat, 0, fs) /\ Bytes(fs) = b[Len(fs)]
  BY BytesFolded DEF Folded
<1>3. ASSUME NEW k \in 1..Len(fs)
      PROVE  g[k] = Read(g[k - 1], fs[k], size) /\ b[k] = b[k - 1] + Width(fs[k])
  <2>1. fs[k] \in Field /\ k - 1 \in 0..Len(fs)
    OBVIOUS
  <2>2. g[k - 1] \in Cursor /\ b[k - 1] \in Nat
    BY <1>1, <1>2, <2>1 DEF Chain
  <2>3. g[k] = Reading(size)[fs[k]][g[k - 1]] /\ b[k] = AddWidth[fs[k]][b[k - 1]]
    BY <1>1, <1>2 DEF Chain
  <2>4. Reading(size)[fs[k]][g[k - 1]] = Read(g[k - 1], fs[k], size)
    BY <2>1, <2>2 DEF Reading
  <2>5. AddWidth[fs[k]][b[k - 1]] = b[k - 1] + Width(fs[k])
    BY <2>1, <2>2 DEF AddWidth
  <2> QED
    BY <2>3, <2>4, <2>5
<1>4. Walk(g, b, fs, size)
  BY <1>1, <1>2, <1>3 DEF Walk, Chain
<1> QED
  BY <1>1, <1>2, <1>4

LEMMA SameList ==
  ASSUME NEW T, NEW s \in Seq(T), NEW r \in Seq(T), Len(s) = Len(r), \A j \in 1..Len(r) : s[j] = r[j]
  PROVE  s = r
OBVIOUS

LEMMA NodeRead ==
  ASSUME NEW t, NEW d, Shape(t, d), NEW n \in 1..Len(t.kids), NEW size \in Nat,
         NEW fs, NEW p, Placed(p, fs, t), NEW g, NEW b, Walk(g, b, fs, size),
         Between(g[p[n - 1]], b[p[n - 1]], size, t, d, n - 1)
  PROVE  Between(g[p[n]], b[p[n]], size, t, d, n)
<1>0. PICK N \in Nat : N = Len(t.kids)
  <2>1. t.kids \in Seq(Nat)
    BY DEF Shape, Typed
  <2> QED
    BY <2>1
<1>1. n \in 1..N /\ n - 1 \in 0..N /\ n \in 0..N /\ n - 1 \in Nat /\ n \in Nat /\ n > 0
  BY <1>0
<1>2. PICK x \in Nat : x = p[n - 1]
  BY <1>0, <1>1 DEF Placed
<1>3. t.lists[n] \in Seq(Kept) /\ Len(t.lists[n]) \in Nat
  BY TypedIs DEF Shape
<1>4. PICK y \in Nat : y = Len(t.lists[n])
  BY <1>3
<1>5. /\ p[n] = x + 1 + y /\ p[n] <= Len(fs) /\ fs[x + 1] = Header(y, t.kids[n])
      /\ \A i \in 1..y : fs[x + 1 + i] = Encoded(t.lists[n][i])
  BY <1>2, <1>4 DEF Placed
<1>6. PICK l \in Nat : l = Len(fs)
  BY <1>0 DEF Placed
<1>7. /\ g \in [0..l -> Cursor] /\ b \in [0..l -> Nat]
      /\ \A k \in 1..l : g[k] = Read(g[k - 1], fs[k], size) /\ b[k] = b[k - 1] + Width(fs[k])
  BY <1>6 DEF Walk
<1> DEFINE In == {i \in 0..y : Within(g[x + 1 + i], b[x + 1 + i], size, t, d, n, i)}
<1>8. 0 \in In
  <2>1. x \in 0..l /\ x + 1 \in 1..l /\ (x + 1) - 1 = x /\ x + 1 + 0 = x + 1
    BY <1>5, <1>6
  <2>2. g[x] \in Cursor /\ b[x] \in Nat
    BY <1>7, <2>1
  <2>3. g[x + 1] = Read(g[x], fs[x + 1], size) /\ b[x + 1] = b[x] + Width(fs[x + 1])
    BY <1>7, <2>1
  <2>4. Between(g[x], b[x], size, t, d, n - 1)
    BY <1>2
  <2>5. fs[x + 1] = Header(Len(t.lists[n]), t.kids[n])
    BY <1>4, <1>5
  <2>6. Within(Read(g[x], fs[x + 1], size), b[x] + Width(fs[x + 1]), size, t, d, n, 0)
    BY <2>2, <2>4, <2>5, HeaderStep
  <2> QED
    BY <2>1, <2>3, <2>6
<1>9. ASSUME NEW i \in 1..y, i - 1 \in In PROVE i \in In
  <2>1. /\ x + 1 + i \in 1..l /\ (x + 1 + i) - 1 = x + 1 + (i - 1) /\ x + 1 + (i - 1) \in 0..l
    BY <1>5, <1>6
  <2>k. PICK k \in 1..l : k = x + 1 + i /\ k - 1 = x + 1 + (i - 1) /\ k - 1 \in 0..l
    BY <2>1
  <2>2. g[k - 1] \in Cursor /\ b[k - 1] \in Nat
    BY <1>7, <2>k
  <2>3. g[k] = Read(g[k - 1], fs[k], size) /\ b[k] = b[k - 1] + Width(fs[k])
    BY <1>7
  <2>4. Within(g[k - 1], b[k - 1], size, t, d, n, i - 1)
    BY <1>9, <2>k
  <2>5. fs[k] = Encoded(t.lists[n][i])
    BY <1>5, <2>k
  <2>6. i \in 1..Len(t.lists[n])
    BY <1>4
  <2>7. Within(Read(g[k - 1], fs[k], size), b[k - 1] + Width(fs[k]), size, t, d, n, i)
    BY <2>2, <2>4, <2>5, <2>6, EntryStep
  <2> QED
    BY <2>3, <2>7, <2>k
<1>10. Within(g[p[n]], b[p[n]], size, t, d, n, Len(t.lists[n]))
  <2> HIDE DEF In
  <2>1. 0..y \subseteq In
    BY <1>8, <1>9, Induction
  <2>2. y \in In
    BY <2>1
  <2> QED
    BY <1>4, <1>5, <2>2 DEF In
<1>c. PICK c : c = g[p[n]]
  OBVIOUS
<1>11. c \in Cursor
  <2>1. p[n] \in 0..l
    BY <1>5, <1>6
  <2> QED
    BY <1>7, <1>c, <2>1
<1>12. CASE b[p[n]] > size \/ ~Upto(t, n)
  BY <1>10, <1>12 DEF Within, Between
<1>13. CASE ~(b[p[n]] > size \/ ~Upto(t, n))
  <2>1. /\ Nodes(c, t, d, n) /\ c.off = b[p[n]] /\ c.left = y - y
        /\ Len(c.lists[n]) = y /\ \A j \in 1..y : c.lists[n][j] = t.lists[n][j]
    BY <1>10, <1>13, <1>4, <1>c DEF Within
  <2>2. c.lists \in Seq(Seq(Kept)) /\ n \in 1..Len(c.lists)
    BY <1>1, <1>11, <2>1, CursorIs DEF Nodes
  <2>3. c.lists[n] \in Seq(Kept)
    BY <2>2
  <2>4. c.lists[n] = t.lists[n]
    <3>1. PICK s \in Seq(Kept) : s = c.lists[n]
      BY <2>3
    <3>2. PICK r \in Seq(Kept) : r = t.lists[n]
      BY <1>3
    <3>3. Len(s) = Len(r) /\ \A j \in 1..Len(r) : s[j] = r[j]
      BY <1>4, <2>1, <3>1, <3>2
    <3> QED
      BY <3>1, <3>2, <3>3, SameList
  <2> QED
    BY <1>13, <1>c, <2>1, <2>4 DEF Between
<1> QED
  BY <1>12, <1>13

LEMMA ImageRead ==
  ASSUME NEW t, NEW d, Shape(t, d), NEW size \in Nat
  PROVE  /\ Bytes(ImageOf(t)) \in Nat /\ Pass(ImageOf(t), size) \in Cursor
         /\ Between(Pass(ImageOf(t), size), Bytes(ImageOf(t)), size, t, d, Len(t.kids))
<1>1. PICK fs \in Seq(Field) : fs = ImageOf(t)
  BY ImageIs DEF Shape
<1>2. PICK p : Placed(p, fs, t)
  BY <1>1, ImageIs DEF Shape
<1>3. PICK g, b : Walk(g, b, fs, size) /\ Pass(fs, size) = g[Len(fs)] /\ Bytes(fs) = b[Len(fs)]
  BY WalkExists
<1>4. PICK N \in Nat : N = Len(t.kids)
  BY DEF Shape, Typed
<1> DEFINE Good == {n \in 0..N : Between(g[p[n]], b[p[n]], size, t, d, n)}
<1>5. 0 \in Good
  <2>1. p[0] = 0 /\ g[0] = Start /\ b[0] = 0
    BY <1>2, <1>3 DEF Placed, Walk
  <2>2. d[0] = 1
    BY DEF Shape, Preorder
  <2>3. Between(Start, 0, size, t, d, 0)
    BY <2>2 DEF Between, Nodes, Start, Upto
  <2> QED
    BY <2>1, <2>3
<1>6. ASSUME NEW n \in 1..N, n - 1 \in Good PROVE n \in Good
  <2>1. Between(g[p[n - 1]], b[p[n - 1]], size, t, d, n - 1) /\ n \in 1..Len(t.kids)
    BY <1>4, <1>6
  <2>2. Between(g[p[n]], b[p[n]], size, t, d, n)
    BY <1>2, <1>3, <2>1, NodeRead
  <2> QED
    BY <2>2
<1>7. N \in Good
  <2> HIDE DEF Good
  <2>1. 0..N \subseteq Good
    BY <1>5, <1>6, Induction
  <2> QED
    BY <2>1
<1>8. p[N] = Len(fs) /\ Len(fs) \in 0..Len(fs)
  BY <1>2, <1>4 DEF Placed
<1>9. g[Len(fs)] \in Cursor /\ b[Len(fs)] \in Nat
  BY <1>3, <1>8 DEF Walk
<1> QED
  BY <1>1, <1>3, <1>4, <1>7, <1>8, <1>9

-----------------------------------------------------------------------------
(***************************************************************************)
(* dt_parse, of the image of a tree and of any file.                       *)
(***************************************************************************)
LEMMA ParseIs ==
  ASSUME NEW x, NEW c \in Cursor, c = Pass(x.fields, x.size)
  PROVE  /\ dt_parse(x).err = (c.err \/ ~Done(c)) /\ dt_parse(x).kids = c.kids
         /\ dt_parse(x).lists = c.lists /\ dt_parse(x).off = c.off
<1>1. c \in Record
  BY CursorIs
<1>2. dt_parse(x) = [c EXCEPT !.err = c.err \/ ~Done(c)]
  BY DEF dt_parse
<1> QED
  BY <1>1, <1>2 DEF Record

\* A file with the image of a tree, whole or cut, is read as that tree or not at all:
\* as that tree when it is whole and no node has more entries than the parser takes.
LEMMA ReadsBack ==
  ASSUME NEW t, NEW d, Shape(t, d), NEW x, x.size \in Nat, x.fields = ImageOf(t)
  PROVE  /\ Bytes(ImageOf(t)) \in Nat
         /\ Bytes(ImageOf(t)) > x.size \/ ~Readable(t) => dt_parse(x).err
         /\ Bytes(ImageOf(t)) <= x.size /\ Readable(t) =>
              /\ ~dt_parse(x).err /\ dt_parse(x).kids = t.kids /\ dt_parse(x).lists = t.lists
              /\ dt_parse(x).off = Bytes(ImageOf(t))
<1>1. PICK c \in Cursor : c = Pass(x.fields, x.size)
  BY ImageRead
<1>2. PICK b \in Nat : b = Bytes(ImageOf(t))
  BY ImageRead
<1>3. PICK N \in Nat : N = Len(t.kids) /\ N = Len(t.lists)
  BY DEF Shape, Typed
<1>4. Between(c, b, x.size, t, d, N)
  BY <1>1, <1>2, <1>3, ImageRead
<1>5. /\ dt_parse(x).err = (c.err \/ ~Done(c)) /\ dt_parse(x).kids = c.kids
      /\ dt_parse(x).lists = c.lists /\ dt_parse(x).off = c.off
  BY <1>1, ParseIs
<1>r. Readable(t) <=> Upto(t, N)
  BY <1>3 DEF Readable, Upto, Shape, Typed
<1>6. CASE b > x.size \/ ~Upto(t, N)
  <2>1. c.err
    BY <1>4, <1>6 DEF Between
  <2>2. dt_parse(x).err
    BY <1>5, <2>1
  <2>3. ~(b <= x.size /\ Readable(t))
    BY <1>6, <1>r
  <2> QED
    BY <1>2, <2>2, <2>3
<1>7. CASE ~(b > x.size \/ ~Upto(t, N))
  <2>1. Nodes(c, t, d, N) /\ c.off = b /\ c.left = 0 /\ (N > 0 => c.lists[N] = t.lists[N])
    BY <1>4, <1>7 DEF Between
  <2>2. c.due = 0
    BY <1>3, <2>1 DEF Nodes, Shape
  <2>3. Done(c) /\ ~c.err
    BY <2>1, <2>2 DEF Done, Nodes
  <2>4. c.kids = t.kids
    <3>1. c.kids \in Seq(Nat) /\ t.kids \in Seq(Nat)
      BY CursorIs DEF Shape, Typed
    <3>2. Len(c.kids) = Len(t.kids) /\ \A j \in 1..Len(t.kids) : c.kids[j] = t.kids[j]
      BY <1>3, <2>1 DEF Nodes
    <3> QED
      BY <3>1, <3>2, SameList
  <2>5. c.lists = t.lists
    <3>1. c.lists \in Seq(Seq(Kept)) /\ t.lists \in Seq(Seq(Kept))
      BY CursorIs DEF Shape, Typed
    <3>2. Len(c.lists) = N /\ \A j \in 1..(N - 1) : c.lists[j] = t.lists[j]
      BY <2>1 DEF Nodes
    <3>3. Len(c.lists) = Len(t.lists) /\ \A j \in 1..Len(t.lists) : c.lists[j] = t.lists[j]
      <4>1. ASSUME NEW j \in 1..N PROVE c.lists[j] = t.lists[j]
        <5>1. CASE j = N
          BY <2>1, <5>1
        <5>2. CASE j # N
          BY <3>2, <5>2
        <5> QED
          BY <5>1, <5>2
      <4> QED
        BY <1>3, <3>2, <4>1
    <3> QED
      BY <3>1, <3>3, SameList
  <2> QED
    BY <1>2, <1>5, <1>7, <1>r, <2>1, <2>3, <2>4, <2>5
<1> QED
  BY <1>6, <1>7

\* What is read, whatever it was read from, has the shape of a tree.
LEMMA ReadIsTree ==
  ASSUME NEW x, x.fields \in Seq(Field), ~dt_parse(x).err
  PROVE  \E d : Shape([kids |-> dt_parse(x).kids, lists |-> dt_parse(x).lists], d)
<1>1. PICK c \in Cursor : c = Pass(x.fields, x.size)
  <2>1. PICK g : Chain(g, Reading(x.size), Cursor, Start, x.fields)
                 /\ Pass(x.fields, x.size) = g[Len(x.fields)]
    BY PassFolded DEF Folded
  <2>2. Len(x.fields) \in 0..Len(x.fields)
    OBVIOUS
  <2> QED
    BY <2>1, <2>2 DEF Chain
<1>2. dt_parse(x).err = (c.err \/ ~Done(c)) /\ dt_parse(x).kids = c.kids /\ dt_parse(x).lists = c.lists
  BY <1>1, ParseIs
<1>3. PICK d : Preorder(c.kids, d) /\ c.due = d[Len(c.kids)]
  BY DEF Cursor
<1>4. Len(c.lists) = Len(c.kids) /\ c.kids \in Seq(Nat) /\ c.lists \in Seq(Seq(Kept))
  BY CursorIs DEF Cursor
<1>5. d[Len(c.kids)] = 0
  BY <1>2, <1>3 DEF Done
<1>6. Shape([kids |-> c.kids, lists |-> c.lists], d)
  BY <1>3, <1>4, <1>5 DEF Shape, Typed
<1> QED
  BY <1>2, <1>6

-----------------------------------------------------------------------------
(***************************************************************************)
(* The image of what was read: with i records read, the header of node n   *)
(* was at q[n - 1] + 1, its entries followed, left of the last node's are  *)
(* still to come, and each record differs from its image in zeros only.    *)
(***************************************************************************)
LEMMA ZeroedIs ==
  ASSUME NEW f \in Field
  PROVE  /\ Zeroed(f) \in Field /\ Width(Zeroed(f)) = Width(f)
         /\ f.kind = "node" => Zeroed(f) = Header(f.n_props, f.n_children)
         /\ f.kind = "prop" =>
              Zeroed(f) = Encoded([name |-> NameRead(f), val |-> f.val, flag |-> f.flag])
<1>1. CASE f.kind = "node"
  <2>1. Zeroed(f) = f /\ f.kind # "prop"
    BY <1>1 DEF Zeroed
  <2>2. f = Header(f.n_props, f.n_children)
    BY <1>1 DEF Field, Header
  <2> QED
    BY <1>1, <2>1, <2>2
<1>2. CASE f.kind # "node"
  <2>1. /\ f.kind = "prop" /\ f.name \in Name /\ f.val \in Val /\ f.flag \in BOOLEAN
        /\ f = [kind |-> "prop", name |-> f.name, flag |-> f.flag, val |-> f.val,
                tail |-> f.tail, pad |-> f.pad]
    BY <1>2 DEF Field
  <2>2. Zeroed(f) = [kind |-> "prop", name |-> Stored[f.name], flag |-> f.flag, val |-> f.val,
                     tail |-> FALSE, pad |-> FALSE]
    BY <1>2, <2>1 DEF Zeroed
  <2>3. Stored[f.name] \in Name
    BY <2>1, ImageAssumption
  <2>4. Zeroed(f) = Encoded([name |-> NameRead(f), val |-> f.val, flag |-> f.flag])
    BY <2>2 DEF Encoded, Property, NameRead
  <2>5. Zeroed(f) \in Field
    BY <2>1, <2>2, <2>3 DEF Field
  <2>6. Width(Zeroed(f)) = Width(f)
    BY <1>2, <2>2 DEF Width
  <2> QED
    BY <1>2, <2>4, <2>5, <2>6
<1> QED
  BY <1>1, <1>2

Behind(q, ks, ls, left, fs, i) ==
  /\ q \in [0..Len(ks) -> Nat] /\ q[0] = 0 /\ q[Len(ks)] = i
  /\ \A n \in 1..Len(ks) :
       /\ q[n] = q[n - 1] + 1 + Len(ls[n]) /\ q[n] <= i
       /\ Zeroed(fs[q[n - 1] + 1]) =
            Header(Len(ls[n]) + (IF n = Len(ks) THEN left ELSE 0), ks[n])
       /\ \A j \in 1..Len(ls[n]) : Zeroed(fs[q[n - 1] + 1 + j]) = Encoded(ls[n][j])

LEMMA HeaderBehind ==
  ASSUME NEW k \in Nat, NEW ks \in Seq(Nat), NEW ls \in Seq(Seq(Kept)), Len(ks) = k, Len(ls) = k,
         NEW fs, NEW i \in Nat, NEW q, Behind(q, ks, ls, 0, fs, i),
         NEW np \in Nat, NEW nc \in Nat, Zeroed(fs[i + 1]) = Header(np, nc)
  PROVE  \E r : Behind(r, Append(ks, nc), Append(ls, <<>>), np, fs, i + 1)
<1>1. PICK a \in Seq(Nat) : a = Append(ks, nc)
  <2>1. Append(ks, nc) \in Seq(Nat)
    OBVIOUS
  <2> QED
    BY <2>1
<1>2. Len(a) = k + 1 /\ a[k + 1] = nc /\ \A n \in 1..k : a[n] = ks[n]
  BY <1>1
<1>3. PICK b : b = Append(ls, <<>>)
  OBVIOUS
<1>4. b[k + 1] = <<>> /\ \A n \in 1..k : b[n] = ls[n]
  BY <1>3
<1>5. /\ q \in [0..k -> Nat] /\ q[0] = 0 /\ q[k] = i
      /\ \A n \in 1..k :
           /\ q[n] = q[n - 1] + 1 + Len(ls[n]) /\ q[n] <= i
           /\ Zeroed(fs[q[n - 1] + 1]) = Header(Len(ls[n]) + 0, ks[n])
           /\ \A j \in 1..Len(ls[n]) : Zeroed(fs[q[n - 1] + 1 + j]) = Encoded(ls[n][j])
  BY DEF Behind
<1> DEFINE r == [m \in 0..(k + 1) |-> IF m = k + 1 THEN i + 1 ELSE q[m]]
<1>6. r \in [0..(k + 1) -> Nat] /\ r[0] = 0 /\ r[k + 1] = i + 1 /\ \A m \in 0..k : r[m] = q[m]
  BY <1>5
<1> HIDE DEF r
<1>7. ASSUME NEW n \in 1..(k + 1)
      PROVE  /\ r[n] = r[n - 1] + 1 + Len(b[n]) /\ r[n] <= i + 1
             /\ Zeroed(fs[r[n - 1] + 1]) =
                  Header(Len(b[n]) + (IF n = k + 1 THEN np ELSE 0), a[n])
             /\ \A j \in 1..Len(b[n]) : Zeroed(fs[r[n - 1] + 1 + j]) = Encoded(b[n][j])
  <2>1. CASE n = k + 1
    <3>1. r[n - 1] = i /\ r[n] = i + 1
      BY <1>5, <1>6, <2>1
    <3>2. b[n] = <<>> /\ Len(b[n]) = 0 /\ a[n] = nc
      BY <1>2, <1>4, <2>1
    <3>3. Len(b[n]) + (IF n = k + 1 THEN np ELSE 0) = np
      BY <2>1, <3>2
    <3>4. r[n] = r[n - 1] + 1 + Len(b[n]) /\ r[n] <= i + 1
      BY <3>1, <3>2
    <3>5. \A j \in 1..Len(b[n]) : FALSE
      BY <3>2
    <3> QED
      BY <3>1, <3>2, <3>3, <3>4, <3>5
  <2>2. CASE n # k + 1
    <3>1. n \in 1..k /\ n \in 0..k /\ n - 1 \in 0..k
      BY <2>2
    <3>2. r[n] = q[n] /\ r[n - 1] = q[n - 1] /\ b[n] = ls[n] /\ a[n] = ks[n]
      BY <1>2, <1>4, <1>6, <3>1
    <3>3. /\ q[n] = q[n - 1] + 1 + Len(ls[n]) /\ q[n] <= i /\ q[n] \in Nat
          /\ Zeroed(fs[q[n - 1] + 1]) = Header(Len(ls[n]) + 0, ks[n])
          /\ \A j \in 1..Len(ls[n]) : Zeroed(fs[q[n - 1] + 1 + j]) = Encoded(ls[n][j])
      BY <1>5, <3>1
    <3>4. q[n] <= i + 1
      BY <3>3
    <3>5. (IF n = k + 1 THEN np ELSE 0) = 0
      BY <2>2
    <3> QED
      BY <3>2, <3>3, <3>4, <3>5
  <2> QED
    BY <2>1, <2>2
<1>8. Behind(r, a, b, np, fs, i + 1)
  BY <1>2, <1>6, <1>7 DEF Behind
<1> QED
  BY <1>1, <1>3, <1>8

LEMMA EntryBehind ==
  ASSUME NEW k \in Nat, k > 0, NEW ks \in Seq(Nat), NEW ls \in Seq(Seq(Kept)), Len(ks) = k,
         Len(ls) = k, NEW fs, NEW i \in Nat, NEW left \in Nat, left > 0,
         NEW q, Behind(q, ks, ls, left, fs, i),
         NEW e \in Kept, Zeroed(fs[i + 1]) = Encoded(e)
  PROVE  \E r : Behind(r, ks, Grown(ls, k, e), left - 1, fs, i + 1)
<1>1. PICK b : b = Grown(ls, k, e)
  OBVIOUS
<1>2. PICK s \in Seq(Kept) : s = ls[k]
  OBVIOUS
<1>3. PICK l \in Nat : l = Len(s)
  OBVIOUS
<1>4. b[k] = Append(s, e) /\ \A n \in 1..(k - 1) : b[n] = ls[n]
  BY <1>1, <1>2 DEF Grown
<1>5. Len(b[k]) = l + 1 /\ b[k][l + 1] = e /\ \A j \in 1..l : b[k][j] = s[j]
  BY <1>3, <1>4
<1>6. /\ q \in [0..k -> Nat] /\ q[0] = 0 /\ q[k] = i
      /\ \A n \in 1..k :
           /\ q[n] = q[n - 1] + 1 + Len(ls[n]) /\ q[n] <= i
           /\ Zeroed(fs[q[n - 1] + 1]) = Header(Len(ls[n]) + (IF n = k THEN left ELSE 0), ks[n])
           /\ \A j \in 1..Len(ls[n]) : Zeroed(fs[q[n - 1] + 1 + j]) = Encoded(ls[n][j])
  BY DEF Behind
<1> DEFINE r == [q EXCEPT ![k] = i + 1]
<1>7. r \in [0..k -> Nat] /\ r[0] = 0 /\ r[k] = i + 1 /\ \A m \in 0..(k - 1) : r[m] = q[m]
  BY <1>6
<1> HIDE DEF r
<1>8. ASSUME NEW n \in 1..k
      PROVE  /\ r[n] = r[n - 1] + 1 + Len(b[n]) /\ r[n] <= i + 1
             /\ Zeroed(fs[r[n - 1] + 1]) =
                  Header(Len(b[n]) + (IF n = k THEN left - 1 ELSE 0), ks[n])
             /\ \A j \in 1..Len(b[n]) : Zeroed(fs[r[n - 1] + 1 + j]) = Encoded(b[n][j])
  <2>0. n - 1 \in 0..(k - 1) /\ n - 1 \in 0..k /\ r[n - 1] = q[n - 1]
    BY <1>7
  <2>x. PICK x \in Nat : x = q[n - 1]
    BY <1>6, <2>0
  <2>1. CASE n = k
    <3>1. i = x + 1 + l
      BY <1>2, <1>3, <1>6, <2>1, <2>x
    <3>2. r[n] = r[n - 1] + 1 + Len(b[n]) /\ r[n] <= i + 1
      <4>1. i + 1 = x + 1 + (l + 1)
        BY <3>1
      <4> QED
        BY <1>5, <1>7, <2>0, <2>1, <2>x, <4>1
    <3>3. Zeroed(fs[r[n - 1] + 1]) = Header(Len(b[n]) + (IF n = k THEN left - 1 ELSE 0), ks[n])
      <4>1. l + left = (l + 1) + (left - 1)
        OBVIOUS
      <4>2. Zeroed(fs[q[n - 1] + 1]) = Header(l + left, ks[n])
        BY <1>2, <1>3, <1>6, <2>1
      <4> QED
        BY <1>5, <2>0, <2>1, <4>1, <4>2
    <3>4. ASSUME NEW j \in 1..Len(b[n]) PROVE Zeroed(fs[r[n - 1] + 1 + j]) = Encoded(b[n][j])
      <4>1. CASE j = l + 1
        <5>1. x + 1 + j = i + 1
          BY <3>1, <4>1
        <5>2. b[n][j] = e
          BY <1>5, <2>1, <4>1
        <5> QED
          BY <2>0, <2>x, <5>1, <5>2
      <4>2. CASE j # l + 1
        <5>1. j \in 1..l
          <6>1. j \in 1..(l + 1)
            BY <1>5, <2>1
          <6> QED
            BY <4>2, <6>1
        <5>2. b[n][j] = ls[n][j] /\ j \in 1..Len(ls[n])
          BY <1>2, <1>3, <1>5, <2>1, <5>1
        <5> QED
          BY <1>6, <2>0, <5>2
      <4> QED
        BY <4>1, <4>2
    <3> QED
      BY <3>2, <3>3, <3>4
  <2>2. CASE n # k
    <3>1. n \in 1..(k - 1) /\ n \in 0..(k - 1)
      BY <2>2
    <3>2. r[n] = q[n] /\ b[n] = ls[n]
      BY <1>4, <1>7, <3>1
    <3>3. /\ q[n] = q[n - 1] + 1 + Len(ls[n]) /\ q[n] <= i /\ q[n] \in Nat
          /\ Zeroed(fs[q[n - 1] + 1]) = Header(Len(ls[n]) + 0, ks[n])
          /\ \A j \in 1..Len(ls[n]) : Zeroed(fs[q[n - 1] + 1 + j]) = Encoded(ls[n][j])
      <4>1. n \in 0..k
        OBVIOUS
      <4>2. q[n] \in Nat
        BY <1>6, <4>1
      <4> QED
        BY <1>6, <2>2, <4>2
    <3>4. q[n] <= i + 1
      <4>1. PICK y \in Nat : y = q[n]
        BY <3>3
      <4> QED
        BY <3>3, <4>1
    <3>5. (IF n = k THEN left - 1 ELSE 0) = 0
      BY <2>2
    <3> QED
      BY <2>0, <3>2, <3>3, <3>4, <3>5
  <2> QED
    BY <2>1, <2>2
<1>9. Behind(r, ks, b, left - 1, fs, i + 1)
  BY <1>7, <1>8 DEF Behind
<1> QED
  BY <1>1, <1>9

\* With nothing left, what was read is the image.
LEMMA ImageBehind ==
  ASSUME NEW t, Typed(t), NEW fs, NEW i \in Nat, NEW q, Behind(q, t.kids, t.lists, 0, fs, i)
  PROVE  /\ ImageOf(t) \in Seq(Field) /\ Len(ImageOf(t)) = i
         /\ \A j \in 1..i : ImageOf(t)[j] = Zeroed(fs[j])
<1>1. PICK im \in Seq(Field) : im = ImageOf(t)
  BY ImageIs
<1>2. PICK p : Placed(p, im, t)
  BY <1>1, ImageIs
<1>3. PICK k \in Nat : k = Len(t.kids)
  BY DEF Typed
<1>4. /\ p \in [0..k -> Nat] /\ p[0] = 0 /\ Len(im) = p[k]
      /\ \A n \in 1..k :
           /\ p[n] = p[n - 1] + 1 + Len(t.lists[n])
           /\ im[p[n - 1] + 1] = Header(Len(t.lists[n]), t.kids[n])
           /\ \A j \in 1..Len(t.lists[n]) : im[p[n - 1] + 1 + j] = Encoded(t.lists[n][j])
  BY <1>2, <1>3 DEF Placed
<1>5. /\ q \in [0..k -> Nat] /\ q[0] = 0 /\ q[k] = i
      /\ \A n \in 1..k :
           /\ q[n] = q[n - 1] + 1 + Len(t.lists[n])
           /\ Zeroed(fs[q[n - 1] + 1]) = Header(Len(t.lists[n]) + 0, t.kids[n])
           /\ \A j \in 1..Len(t.lists[n]) : Zeroed(fs[q[n - 1] + 1 + j]) = Encoded(t.lists[n][j])
  BY <1>3 DEF Behind
<1> DEFINE Good == {n \in 0..k : p[n] = q[n] /\ \A j \in 1..p[n] : im[j] = Zeroed(fs[j])}
<1>6. 0 \in Good
  BY <1>4, <1>5
<1>7. ASSUME NEW n \in 1..k, n - 1 \in Good PROVE n \in Good
  <2>0. n - 1 \in 0..k /\ n \in 0..k /\ p[n - 1] \in Nat /\ p[n] \in Nat
    BY <1>4
  <2>1. p[n - 1] = q[n - 1] /\ \A j \in 1..p[n - 1] : im[j] = Zeroed(fs[j])
    BY <1>7
  <2>x. PICK x \in Nat : x = p[n - 1]
    BY <2>0
  <2>l. PICK l \in Nat : l = Len(t.lists[n])
    BY <1>3, TypedIs
  <2>2. p[n] = x + 1 + l /\ q[n] = x + 1 + l
    BY <1>4, <1>5, <2>1, <2>l, <2>x
  <2>3. ASSUME NEW j \in 1..(x + 1 + l) PROVE im[j] = Zeroed(fs[j])
    <3>1. CASE j <= x
      BY <2>1, <2>x, <3>1
    <3>2. CASE j = x + 1
      <4>1. im[x + 1] = Header(l, t.kids[n]) /\ Zeroed(fs[x + 1]) = Header(l + 0, t.kids[n])
        BY <1>4, <1>5, <2>1, <2>l, <2>x
      <4> QED
        BY <3>2, <4>1
    <3>3. CASE j > x + 1
      <4>1. PICK m \in 1..l : j = x + 1 + m
        <5>1. j - (x + 1) \in 1..l /\ j = x + 1 + (j - (x + 1))
          BY <3>3
        <5> QED
          BY <5>1
      <4>2. im[x + 1 + m] = Encoded(t.lists[n][m]) /\ Zeroed(fs[x + 1 + m]) = Encoded(t.lists[n][m])
        BY <1>4, <1>5, <2>1, <2>l, <2>x
      <4> QED
        BY <4>1, <4>2
    <3> QED
      BY <3>1, <3>2, <3>3
  <2> QED
    BY <2>0, <2>2, <2>3
<1>8. k \in Good
  <2> HIDE DEF Good
  <2>1. 0..k \subseteq Good
    BY <1>6, <1>7, Induction
  <2> QED
    BY <2>1
<1>9. Len(im) = i /\ \A j \in 1..i : im[j] = Zeroed(fs[j])
  BY <1>4, <1>5, <1>8
<1> QED
  BY <1>1, <1>9

\* A record that is taken puts its image behind those of the records before.
LEMMA TakenBehind ==
  ASSUME NEW c \in Cursor, NEW f \in Field, NEW fs, NEW i \in Nat, f = fs[i + 1], ~Done(c),
         f.kind = "prop" <=> c.left > 0, NEW q, Behind(q, c.kids, c.lists, c.left, fs, i)
  PROVE  /\ Take(c, f).off = c.off + Width(f) /\ Take(c, f).err = c.err
         /\ \E r : Behind(r, Take(c, f).kids, Take(c, f).lists, Take(c, f).left, fs, i + 1)
<1>0. /\ c \in Record /\ c.kids \in Seq(Nat) /\ c.lists \in Seq(Seq(Kept)) /\ c.left \in Nat
      /\ c.due \in Nat /\ Len(c.lists) = Len(c.kids) /\ (c.left > 0 => Len(c.kids) > 0)
  BY DEF Cursor, Record
<1>k. PICK k \in Nat : k = Len(c.kids) /\ k = Len(c.lists)
  BY <1>0
<1>1. CASE f.kind = "prop"
  <2> DEFINE e == [name |-> NameRead(f), val |-> f.val, flag |-> f.flag]
  <2>1. c.left > 0 /\ k > 0
    BY <1>0, <1>1, <1>k
  <2>2. e \in Kept /\ Zeroed(fs[i + 1]) = Encoded(e)
    BY <1>1, EntryRead, ZeroedIs
  <2>3. /\ Take(c, f).off = c.off + Width(f) /\ Take(c, f).err = c.err
        /\ Take(c, f).left = c.left - 1 /\ Take(c, f).kids = c.kids
        /\ Take(c, f).lists = Grown(c.lists, k, e)
    BY <1>0, <1>1, <1>k, <2>1, TakenProp
  <2> HIDE DEF e
  <2>4. \E r : Behind(r, c.kids, Grown(c.lists, k, e), c.left - 1, fs, i + 1)
    BY <1>0, <1>k, <2>1, <2>2, EntryBehind
  <2> QED
    BY <2>3, <2>4
<1>2. CASE f.kind # "prop"
  <2>1. f.kind = "node" /\ c.left = 0 /\ c.due > 0
    BY <1>0, <1>2 DEF Field, Done
  <2>2. /\ Take(c, f).off = c.off + Width(f) /\ Take(c, f).err = c.err
        /\ Take(c, f).left = f.n_props /\ Take(c, f).kids = Append(c.kids, f.n_children)
        /\ Take(c, f).lists = Append(c.lists, <<>>) /\ f.n_props \in Nat /\ f.n_children \in Nat
    BY <1>0, <2>1, TakenNode
  <2>3. Zeroed(fs[i + 1]) = Header(f.n_props, f.n_children)
    BY <2>1, ZeroedIs
  <2>4. \E r : Behind(r, Append(c.kids, f.n_children), Append(c.lists, <<>>), f.n_props, fs, i + 1)
    BY <1>0, <1>k, <2>1, <2>2, <2>3, HeaderBehind
  <2> QED
    BY <2>2, <2>4
<1> QED
  BY <1>1, <1>2

\* The records of both have one width each, so the image is as long as what was read.
LEMMA ZeroedBytes ==
  ASSUME NEW fs \in Seq(Field), NEW im \in Seq(Field), NEW i \in Nat, i <= Len(fs), Len(im) = i,
         \A j \in 1..i : im[j] = Zeroed(fs[j]),
         NEW b, Chain(b, AddWidth, Nat, 0, fs)
  PROVE  Bytes(im) = b[i]
<1>1. PICK a : Chain(a, AddWidth, Nat, 0, im) /\ Bytes(im) = a[i]
  BY BytesFolded DEF Folded
<1> DEFINE Good == {j \in 0..i : a[j] = b[j]}
<1>2. 0 \in Good
  BY <1>1 DEF Chain
<1>3. ASSUME NEW j \in 1..i, j - 1 \in Good PROVE j \in Good
  <2>1. im[j] = Zeroed(fs[j]) /\ fs[j] \in Field /\ im[j] \in Field /\ j \in 1..Len(fs) /\ j \in 1..Len(im)
    OBVIOUS
  <2>2. Width(im[j]) = Width(fs[j])
    BY <2>1, ZeroedIs
  <2>3. a[j] = AddWidth[im[j]][a[j - 1]] /\ b[j] = AddWidth[fs[j]][b[j - 1]] /\ a[j - 1] = b[j - 1]
    BY <1>1, <1>3, <2>1 DEF Chain
  <2>4. a[j - 1] \in Nat
    <3>1. j - 1 \in 0..Len(im)
      OBVIOUS
    <3> QED
      BY <1>1, <3>1 DEF Chain
  <2>5. a[j] = b[j]
    BY <2>1, <2>2, <2>3, <2>4 DEF AddWidth
  <2> QED
    BY <2>5
<1>4. i \in Good
  <2> HIDE DEF Good
  <2>1. 0..i \subseteq Good
    BY <1>2, <1>3, Induction
  <2> QED
    BY <2>1
<1> QED
  BY <1>1, <1>4

\* dt_parse, of any file: the image of the tree read is the records read, with zeros.
LEMMA ReadImage ==
  ASSUME NEW x, x.fields \in Seq(Field), ~dt_parse(x).err,
         NEW t, t = [kids |-> dt_parse(x).kids, lists |-> dt_parse(x).lists]
  PROVE  /\ ImageOf(t) \in Seq(Field) /\ Len(ImageOf(t)) <= Len(x.fields)
         /\ \A j \in 1..Len(ImageOf(t)) : ImageOf(t)[j] = Zeroed(x.fields[j])
         /\ Bytes(ImageOf(t)) = dt_parse(x).off
<1>1. PICK fs \in Seq(Field), l \in Nat : fs = x.fields /\ l = Len(fs)
  OBVIOUS
<1>2. PICK g : Chain(g, Reading(x.size), Cursor, Start, fs) /\ Pass(fs, x.size) = g[l]
  BY <1>1, PassFolded DEF Folded
<1>3. PICK b : Chain(b, AddWidth, Nat, 0, fs)
  BY BytesFolded DEF Folded
<1>4. /\ g \in [0..l -> Cursor] /\ g[0] = Start /\ b \in [0..l -> Nat] /\ b[0] = 0
  BY <1>1, <1>2, <1>3 DEF Chain
<1>5. ASSUME NEW j \in 1..l
      PROVE  /\ fs[j] \in Field /\ g[j - 1] \in Cursor
             /\ g[j] = Read(g[j - 1], fs[j], x.size) /\ b[j] = b[j - 1] + Width(fs[j])
  <2>1. fs[j] \in Field /\ j - 1 \in 0..l /\ j \in 1..Len(fs)
    BY <1>1
  <2>2. g[j - 1] \in Cursor /\ b[j - 1] \in Nat
    BY <1>4, <2>1
  <2>3. g[j] = Reading(x.size)[fs[j]][g[j - 1]] /\ b[j] = AddWidth[fs[j]][b[j - 1]]
    BY <1>2, <1>3, <2>1 DEF Chain
  <2>4. Reading(x.size)[fs[j]][g[j - 1]] = Read(g[j - 1], fs[j], x.size)
    BY <2>1, <2>2 DEF Reading
  <2>5. AddWidth[fs[j]][b[j - 1]] = b[j - 1] + Width(fs[j])
    BY <2>1, <2>2 DEF AddWidth
  <2> QED
    BY <2>1, <2>2, <2>3, <2>4, <2>5
<1> DEFINE Has(c, i) == c.off = b[i] /\ \E q : Behind(q, c.kids, c.lists, c.left, fs, i)
           Good == {j \in 0..l : g[j].err \/ \E i \in 0..j : Has(g[j], i) /\ (i = j \/ Done(g[j]))}
<1>6. 0 \in Good
  <2> DEFINE q == [m \in 0..0 |-> 0]
  <2>1. q \in [0..0 -> Nat] /\ q[0] = 0
    OBVIOUS
  <2> HIDE DEF q
  <2>2. Behind(q, <<>>, <<>>, 0, fs, 0)
    BY <2>1 DEF Behind
  <2>3. Has(g[0], 0)
    BY <1>4, <2>2 DEF Start
  <2> QED
    BY <2>3
<1>7. ASSUME NEW j \in 1..l, j - 1 \in Good PROVE j \in Good
  <2>0. PICK c \in Cursor : c = g[j - 1]
    BY <1>5
  <2>1. g[j] = Read(c, fs[j], x.size) /\ b[j] = b[j - 1] + Width(fs[j]) /\ fs[j] \in Field
    BY <1>5, <2>0
  <2>2. CASE c.err
    <3>1. g[j] = c
      BY <2>1, <2>2 DEF Read
    <3> QED
      BY <2>2, <3>1
  <2>3. CASE ~c.err /\ Done(c)
    <3>1. g[j] = c
      BY <2>1, <2>3 DEF Read
    <3>2. PICK i \in 0..(j - 1) : Has(c, i)
      BY <1>7, <2>0, <2>3
    <3> HIDE DEF Has
    <3>3. i \in 0..j
      OBVIOUS
    <3> QED
      BY <2>3, <3>1, <3>2, <3>3
  <2>4. CASE ~c.err /\ ~Done(c)
    <3>1. Has(c, j - 1)
      BY <1>7, <2>0, <2>4
    <3>2. CASE Whole(c, fs[j], x.size) /\ Sane(fs[j]) /\ (fs[j].kind = "prop" <=> c.left > 0)
      <4>1. g[j] = Take(c, fs[j])
        BY <2>1, <2>4, <3>2 DEF Read
      <4>2. PICK i \in Nat : i = j - 1 /\ j = i + 1
        OBVIOUS
      <4>3. PICK q : Behind(q, c.kids, c.lists, c.left, fs, i)
        BY <3>1, <4>2
      <4>4. PICK f \in Field : f = fs[j] /\ f = fs[i + 1]
        BY <2>1, <4>2
      <4>5. /\ Take(c, f).off = c.off + Width(f)
            /\ \E r : Behind(r, Take(c, f).kids, Take(c, f).lists, Take(c, f).left, fs, i + 1)
        BY <2>4, <3>2, <4>3, <4>4, TakenBehind
      <4>6. Has(g[j], j)
        BY <2>1, <3>1, <4>1, <4>2, <4>4, <4>5
      <4> HIDE DEF Has
      <4> QED
        BY <4>6
    <3>3. CASE ~(Whole(c, fs[j], x.size) /\ Sane(fs[j]) /\ (fs[j].kind = "prop" <=> c.left > 0))
      <4>1. g[j] = [c EXCEPT !.err = TRUE]
        BY <2>1, <2>4, <3>3 DEF Read
      <4>2. g[j].err
        BY <4>1, CursorIs DEF Record
      <4> HIDE DEF Has
      <4> QED
        BY <4>2
    <3> QED
      BY <3>2, <3>3
  <2> QED
    BY <2>2, <2>3, <2>4
<1>8. l \in Good
  <2> HIDE DEF Good
  <2>1. 0..l \subseteq Good
    BY <1>6, <1>7, Induction
  <2> QED
    BY <2>1
<1>9. PICK c \in Cursor : c = g[l] /\ c = Pass(x.fields, x.size)
  BY <1>1, <1>2, <1>4
<1>10. /\ dt_parse(x).err = (c.err \/ ~Done(c)) /\ dt_parse(x).kids = c.kids
       /\ dt_parse(x).lists = c.lists /\ dt_parse(x).off = c.off
  BY <1>9, ParseIs
<1>11. ~c.err /\ Done(c)
  BY <1>10
<1>12. PICK i \in 0..l : Has(c, i)
  BY <1>8, <1>9, <1>11
<1>13. PICK q : Behind(q, t.kids, t.lists, 0, fs, i)
  BY <1>10, <1>11, <1>12 DEF Done
<1>14. c.off = b[i]
  BY <1>12
<1>15. Typed(t)
  <2>1. c.kids \in Seq(Nat) /\ c.lists \in Seq(Seq(Kept)) /\ Len(c.lists) = Len(c.kids)
    BY DEF Cursor, Record
  <2>2. t.kids = c.kids /\ t.lists = c.lists
    BY <1>10
  <2> QED
    BY <2>1, <2>2 DEF Typed
<1>16. /\ ImageOf(t) \in Seq(Field) /\ Len(ImageOf(t)) = i
       /\ \A j \in 1..i : ImageOf(t)[j] = Zeroed(fs[j])
  <2>1. PICK m \in Nat : m = i
    OBVIOUS
  <2>2. Behind(q, t.kids, t.lists, 0, fs, m)
    BY <1>13, <2>1
  <2>3. /\ ImageOf(t) \in Seq(Field) /\ Len(ImageOf(t)) = m
        /\ \A j \in 1..m : ImageOf(t)[j] = Zeroed(fs[j])
    BY <1>15, <2>2, ImageBehind
  <2> QED
    BY <2>1, <2>3
<1>17. i \in Nat /\ i <= Len(fs)
  BY <1>1
<1>18. Bytes(ImageOf(t)) = b[i]
  BY <1>3, <1>16, <1>17, ZeroedBytes
<1> QED
  BY <1>1, <1>10, <1>14, <1>16, <1>17, <1>18

-----------------------------------------------------------------------------
LEMMA PrefixIs ==
  ASSUME NEW T, NEW s \in Seq(T), NEW n \in 0..Len(s)
  PROVE  /\ SubSeq(s, 1, n) \in Seq(T) /\ Len(SubSeq(s, 1, n)) = n
         /\ \A j \in 1..n : SubSeq(s, 1, n)[j] = s[j]
OBVIOUS

\* The records up to the i-th are no longer than all of them.
LEMMA PrefixBytes ==
  ASSUME NEW fs \in Seq(Field), NEW i \in 1..Len(fs)
  PROVE  /\ Bytes(SubSeq(fs, 1, i)) \in Nat
         /\ Bytes(SubSeq(fs, 1, i)) <= Bytes(fs) /\ Bytes(fs) \in Nat
<1>1. PICK b : Chain(b, AddWidth, Nat, 0, fs) /\ Bytes(fs) = b[Len(fs)]
  BY BytesFolded DEF Folded
<1>2. PICK l \in Nat : l = Len(fs)
  OBVIOUS
<1>3. PICK s \in Seq(Field) : s = SubSeq(fs, 1, i) /\ Len(s) = i /\ \A j \in 1..i : s[j] = fs[j]
  <2>1. PICK m \in 0..Len(fs) : m = i
    BY <1>2
  <2>2. /\ SubSeq(fs, 1, m) \in Seq(Field) /\ Len(SubSeq(fs, 1, m)) = m
        /\ \A j \in 1..m : SubSeq(fs, 1, m)[j] = fs[j]
    BY PrefixIs
  <2> QED
    BY <2>1, <2>2
<1>4. PICK a : Chain(a, AddWidth, Nat, 0, s) /\ Bytes(s) = a[Len(s)]
  BY BytesFolded DEF Folded
<1>5. Bytes(s) = b[i]
  <2>1. Len(s) <= Len(fs) /\ \A j \in 1..Len(s) : fs[j] = s[j]
    BY <1>3
  <2>2. a[Len(s)] = b[Len(s)]
    BY <1>1, <1>4, <2>1, ChainsAgree
  <2> QED
    BY <1>3, <1>4, <2>2
<1>6. b \in [0..l -> Nat] /\ b[0] = 0
  BY <1>1, <1>2 DEF Chain
<1>7. ASSUME NEW k \in 1..l
      PROVE  b[k] \in Nat /\ b[k - 1] \in Nat /\ b[k - 1] <= b[k]
  <2>1. fs[k] \in Field /\ k - 1 \in 0..l /\ k \in 0..l /\ k \in 1..Len(fs)
    BY <1>2
  <2>2. b[k - 1] \in Nat /\ b[k] \in Nat
    BY <1>6, <2>1
  <2>3. b[k] = AddWidth[fs[k]][b[k - 1]]
    BY <1>1, <2>1 DEF Chain
  <2>4. b[k] = b[k - 1] + Width(fs[k])
    BY <2>1, <2>2, <2>3 DEF AddWidth
  <2>5. Width(fs[k]) \in Nat
    BY <2>1, FieldIs
  <2>w. PICK w \in Nat : w = Width(fs[k])
    BY <2>5
  <2>v. PICK v \in Nat : v = b[k - 1]
    BY <2>2
  <2>6. v <= v + w
    BY <2>5, <2>w
  <2> QED
    BY <2>2, <2>4, <2>6, <2>v, <2>w
<1>8. i \in 1..l /\ i \in 0..l /\ l \in 0..l
  BY <1>2
<1>9. b[i] \in Nat
  BY <1>7, <1>8
<1>10. b[i] <= b[l]
  <2> DEFINE Up == {k \in 0..l : k < i \/ b[i] <= b[k]}
  <2>1. 0 \in Up
    BY <1>8
  <2>2. ASSUME NEW k \in 1..l, k - 1 \in Up PROVE k \in Up
    <3>0. b[k] \in Nat /\ b[k - 1] \in Nat /\ b[k - 1] <= b[k]
      BY <1>7
    <3>1. CASE k < i
      BY <3>1
    <3>2. CASE k = i
      BY <1>9, <3>2
    <3>3. CASE k > i
      <4>1. b[i] <= b[k - 1]
        BY <1>8, <2>2, <3>3
      <4> QED
        BY <1>9, <3>0, <4>1
    <3> QED
      BY <1>8, <3>1, <3>2, <3>3
  <2>3. l \in Up
    <3> HIDE DEF Up
    <3>1. 0..l \subseteq Up
      BY <2>1, <2>2, Induction
    <3> QED
      BY <1>8, <3>1
  <2> QED
    BY <1>8, <2>3
<1>11. b[l] \in Nat
  BY <1>6, <1>8
<1> QED
  BY <1>1, <1>2, <1>3, <1>5, <1>9, <1>10, <1>11

-----------------------------------------------------------------------------
(***************************************************************************)
(* dt_serialize, piece by piece: after n bytes of pieces, an error when    *)
(* the room is less, and n bytes written otherwise.                        *)
(***************************************************************************)
Wrote(w, n, cap) == IF cap = NoCap \/ n <= cap THEN ~w.err /\ w.off = n ELSE w.err

LEMMA WroteStep ==
  ASSUME NEW w \in Room, NEW n \in Nat, NEW m \in Nat, NEW cap \in Int, Wrote(w, n, cap)
  PROVE  w_raw(w, m, cap) \in Room /\ Wrote(w_raw(w, m, cap), n + m, cap)
<1>1. PICK v : v = w_raw(w, m, cap)
  OBVIOUS
<1>2. v \in Room /\ v.err = (w.err \/ (cap # NoCap /\ w.off + m > cap)) /\ (~v.err => v.off = w.off + m)
  BY <1>1, WriteStep
<1>3. v.err \in BOOLEAN /\ w.err \in BOOLEAN
  BY <1>2 DEF Room
<1>4. Wrote(v, n + m, cap)
  <2>1. CASE cap = NoCap \/ n <= cap
    <3>1. ~w.err /\ w.off = n
      BY <2>1 DEF Wrote
    <3>2. v.err <=> (cap # NoCap /\ n + m > cap)
      BY <1>2, <1>3, <3>1
    <3>3. ~v.err => v.off = n + m
      BY <1>2, <3>1
    <3> QED
      BY <3>2, <3>3 DEF Wrote
  <2>2. CASE ~(cap = NoCap \/ n <= cap)
    <3>1. w.err /\ cap # NoCap /\ ~(n + m <= cap)
      BY <2>2 DEF Wrote
    <3> QED
      BY <1>2, <1>3, <3>1 DEF Wrote
  <2> QED
    BY <2>1, <2>2
<1> QED
  BY <1>1, <1>2, <1>4

\* The pieces of a record are as long as the record.
LEMMA PiecesAre ==
  ASSUME NEW f \in Field
  PROVE  /\ Pieces(f) \in Seq(Nat)
         /\ \/ \E a, b \in Nat : Pieces(f) = <<a, b>> /\ Width(f) = a + b
            \/ \E a, b, c, d \in Nat : Pieces(f) = <<a, b, c, d>> /\ Width(f) = a + b + c + d
<1>1. CASE f.kind = "node"
  <2>1. Pieces(f) = <<4, 4>> /\ Width(f) = 4 + 4
    BY <1>1 DEF Pieces, Width
  <2>2. Pieces(f) \in Seq(Nat)
    BY <2>1
  <2>3. \E a, b \in Nat : Pieces(f) = <<a, b>> /\ Width(f) = a + b
    BY <2>1
  <2> QED
    BY <2>2, <2>3
<1>2. CASE f.kind # "node"
  <2>1. PICK n \in Nat : n = Length[f.val]
    BY <1>2, FieldIs
  <2>2. PICK a \in Nat : a = Align(n) /\ n <= a
    BY AlignIs
  <2>3. Pieces(f) = <<32, 4, n, a - n>> /\ Width(f) = 32 + 4 + a
    BY <1>2, <2>1, <2>2 DEF Pieces, Width
  <2>4. PICK r \in Nat : r = a - n /\ 32 + 4 + n + r = 32 + 4 + a
    BY <2>2
  <2>5. Pieces(f) = <<32, 4, n, r>> /\ Width(f) = 32 + 4 + n + r
    BY <2>3, <2>4
  <2>6. Pieces(f) \in Seq(Nat)
    BY <2>5
  <2>7. \E x, y, z, u \in Nat : Pieces(f) = <<x, y, z, u>> /\ Width(f) = x + y + z + u
    BY <2>5
  <2> QED
    BY <2>6, <2>7
<1> QED
  BY <1>1, <1>2

LEMMA WrittenIs ==
  ASSUME NEW fs \in Seq(Field), NEW cap \in Int, cap = NoCap \/ cap >= 0
  PROVE  Written(Calls(fs), cap) = IF cap = NoCap \/ Bytes(fs) <= cap THEN Bytes(fs) ELSE -1
<1>1. PICK b : Chain(b, AddWidth, Nat, 0, fs) /\ Bytes(fs) = b[Len(fs)]
  BY BytesFolded DEF Folded
<1>2. PICK l \in Nat : l = Len(fs) /\ DOMAIN fs = 1..l
  OBVIOUS
<1> DEFINE ss == [i \in DOMAIN fs |-> Pieces(fs[i])]
<1>3. /\ ss \in Seq(Seq(Nat)) /\ Len(ss) = l /\ Calls(fs) = FlattenSeq(ss)
      /\ \A i \in 1..l : ss[i] = Pieces(fs[i]) /\ fs[i] \in Field
  <2>1. \A i \in 1..l : ss[i] = Pieces(fs[i]) /\ fs[i] \in Field
    BY <1>2
  <2>2. \A i \in 1..l : Pieces(fs[i]) \in Seq(Nat)
    BY <2>1, PiecesAre
  <2>3. ss = [i \in 1..l |-> Pieces(fs[i])]
    BY <1>2
  <2>4. Calls(fs) = FlattenSeq(ss)
    BY DEF Calls
  <2> HIDE DEF ss
  <2> QED
    BY <2>1, <2>2, <2>3, <2>4
<1> HIDE DEF ss
<1>4. PICK z \in Seq(Nat) : z = Calls(fs) /\ \E p : Flat(p, z, ss)
  <2>1. FlattenSeq(ss) \in Seq(Nat) /\ \E p : Flat(p, FlattenSeq(ss), ss)
    BY <1>3, FlattenIs
  <2> QED
    BY <1>3, <2>1
<1>5. PICK p : Flat(p, z, ss)
  BY <1>4
<1>6. PICK v \in Room : /\ Folded(Writing(cap), Room, Empty0, z, v)
                        /\ Written(z, cap) = IF v.err THEN -1 ELSE v.off
  BY WrittenFolded
<1>7. PICK w : Chain(w, Writing(cap), Room, Empty0, z) /\ v = w[Len(z)]
  BY <1>6 DEF Folded
<1>m. PICK m \in Nat : m = Len(z)
  BY <1>4
<1>8. /\ w \in [0..m -> Room] /\ w[0] = Empty0
      /\ \A k \in 1..m : w[k] = w_raw(w[k - 1], z[k], cap) /\ z[k] \in Nat
  <2>1. w \in [0..m -> Room] /\ w[0] = Empty0 /\ \A k \in 1..m : w[k] = Writing(cap)[z[k]][w[k - 1]]
    BY <1>7, <1>m DEF Chain
  <2>2. ASSUME NEW k \in 1..m PROVE z[k] \in Nat /\ w[k - 1] \in Room
    <3>1. k - 1 \in 0..m /\ k \in 1..Len(z)
      BY <1>m
    <3>2. z[k] \in Nat
      BY <3>1
    <3> QED
      BY <2>1, <3>1, <3>2
  <2>3. \A k \in 1..m : Writing(cap)[z[k]][w[k - 1]] = w_raw(w[k - 1], z[k], cap)
    BY <2>2 DEF Writing
  <2> QED
    BY <2>1, <2>2, <2>3
<1>9. /\ b \in [0..l -> Nat] /\ b[0] = 0 /\ \A i \in 1..l : b[i] = b[i - 1] + Width(fs[i])
  <2>1. b \in [0..l -> Nat] /\ b[0] = 0 /\ \A i \in 1..l : b[i] = AddWidth[fs[i]][b[i - 1]]
    BY <1>1, <1>2 DEF Chain
  <2>2. ASSUME NEW i \in 1..l PROVE AddWidth[fs[i]][b[i - 1]] = b[i - 1] + Width(fs[i])
    <3>1. fs[i] \in Field /\ b[i - 1] \in Nat
      BY <1>3, <2>1
    <3> QED
      BY <3>1 DEF AddWidth
  <2> QED
    BY <2>1, <2>2
<1>10. /\ p \in [0..l -> Nat] /\ p[0] = 0 /\ m = p[l]
       /\ \A i \in 1..l : p[i] = p[i - 1] + Len(ss[i])
       /\ \A i \in 1..l : \A j \in 1..Len(ss[i]) : p[i - 1] + j <= m /\ z[p[i - 1] + j] = ss[i][j]
  BY <1>3, <1>5, <1>m DEF Flat, Laid
\* One piece: from what was written after k to what is after k + 1.
<1>11. ASSUME NEW k \in Nat, k + 1 <= m, NEW n \in Nat, Wrote(w[k], n, cap), NEW y \in Nat, y = z[k + 1]
       PROVE  Wrote(w[k + 1], n + y, cap)
  <2>1. k + 1 \in 1..m /\ (k + 1) - 1 = k /\ k \in 0..m
    BY <1>11
  <2>2. w[k + 1] = w_raw(w[k], y, cap) /\ w[k] \in Room
    BY <1>8, <1>11, <2>1
  <2> QED
    BY <1>11, <2>2, WroteStep
<1> DEFINE Good == {i \in 0..l : Wrote(w[p[i]], b[i], cap)}
<1>12. 0 \in Good
  <2>1. Wrote(Empty0, 0, cap)
    BY DEF Wrote, Empty0
  <2> QED
    BY <1>8, <1>9, <1>10, <2>1
<1>13. ASSUME NEW i \in 1..l, i - 1 \in Good PROVE i \in Good
  <2>1. PICK k \in Nat : k = p[i - 1]
    BY <1>10
  <2>2. PICK n \in Nat : n = b[i - 1]
    BY <1>9
  <2>3. PICK s \in Seq(Nat) : s = ss[i] /\ s = Pieces(fs[i])
    BY <1>3
  <2>4. p[i] = k + Len(s) /\ \A j \in 1..Len(s) : k + j <= m /\ z[k + j] = s[j]
    BY <1>10, <2>1, <2>3
  <2>5. Wrote(w[k], n, cap)
    BY <1>13, <2>1, <2>2
  <2>6. b[i] = n + Width(fs[i])
    BY <1>9, <2>2
  <2> HIDE DEF Good
  <2>7. Wrote(w[p[i]], b[i], cap)
    <3>1. CASE \E a, c \in Nat : s = <<a, c>> /\ Width(fs[i]) = a + c
      <4>1. PICK y1 \in Nat, y2 \in Nat : s = <<y1, y2>> /\ Width(fs[i]) = y1 + y2
        BY <3>1
      <4>2. s[1] = y1 /\ s[2] = y2 /\ Len(s) = 2 /\ 1 \in 1..Len(s) /\ 2 \in 1..Len(s)
        BY <4>1
      <4>3. k + 1 <= m /\ z[k + 1] = y1 /\ k + 2 <= m /\ z[k + 2] = y2
        BY <2>4, <4>2
      <4>4. Wrote(w[k + 1], n + y1, cap)
        BY <1>11, <2>5, <4>3
      <4>5. Wrote(w[(k + 1) + 1], (n + y1) + y2, cap)
        <5>1. k + 1 \in Nat /\ (k + 1) + 1 = k + 2 /\ n + y1 \in Nat
          OBVIOUS
        <5> QED
          BY <1>11, <4>3, <4>4, <5>1
      <4>6. p[i] = (k + 1) + 1 /\ b[i] = (n + y1) + y2
        <5>1. p[i] = k + 2 /\ b[i] = n + (y1 + y2)
          BY <2>4, <2>6, <4>1, <4>2
        <5>2. k + 2 = (k + 1) + 1 /\ n + (y1 + y2) = (n + y1) + y2
          OBVIOUS
        <5> QED
          BY <5>1, <5>2
      <4> QED
        BY <4>5, <4>6
    <3>2. CASE \E a, c, d, e \in Nat : s = <<a, c, d, e>> /\ Width(fs[i]) = a + c + d + e
      <4>1. PICK y1 \in Nat, y2 \in Nat, y3 \in Nat, y4 \in Nat :
              s = <<y1, y2, y3, y4>> /\ Width(fs[i]) = y1 + y2 + y3 + y4
        BY <3>2
      <4>2. /\ s[1] = y1 /\ s[2] = y2 /\ s[3] = y3 /\ s[4] = y4 /\ Len(s) = 4
            /\ 1 \in 1..Len(s) /\ 2 \in 1..Len(s) /\ 3 \in 1..Len(s) /\ 4 \in 1..Len(s)
        BY <4>1
      <4>3. /\ k + 1 <= m /\ z[k + 1] = y1 /\ k + 2 <= m /\ z[k + 2] = y2
            /\ k + 3 <= m /\ z[k + 3] = y3 /\ k + 4 <= m /\ z[k + 4] = y4
        BY <2>4, <4>2
      <4>4. Wrote(w[k + 1], n + y1, cap)
        BY <1>11, <2>5, <4>3
      <4>5. Wrote(w[k + 2], n + y1 + y2, cap)
        <5>1. k + 1 \in Nat /\ (k + 1) + 1 = k + 2 /\ n + y1 \in Nat
          OBVIOUS
        <5> QED
          BY <1>11, <4>3, <4>4, <5>1
      <4>6. Wrote(w[k + 3], n + y1 + y2 + y3, cap)
        <5>1. k + 2 \in Nat /\ (k + 2) + 1 = k + 3 /\ n + y1 + y2 \in Nat
          OBVIOUS
        <5> QED
          BY <1>11, <4>3, <4>5, <5>1
      <4>7. Wrote(w[k + 4], n + y1 + y2 + y3 + y4, cap)
        <5>1. k + 3 \in Nat /\ (k + 3) + 1 = k + 4 /\ n + y1 + y2 + y3 \in Nat
          OBVIOUS
        <5> QED
          BY <1>11, <4>3, <4>6, <5>1
      <4>8. p[i] = k + 4 /\ b[i] = n + y1 + y2 + y3 + y4
        <5>1. p[i] = k + 4 /\ b[i] = n + (y1 + y2 + y3 + y4)
          BY <2>4, <2>6, <4>1, <4>2
        <5>2. n + (y1 + y2 + y3 + y4) = n + y1 + y2 + y3 + y4
          OBVIOUS
        <5> QED
          BY <5>1, <5>2
      <4> QED
        BY <4>7, <4>8
    <3> QED
      <4>1. PICK f \in Field : f = fs[i]
        BY <1>3
      <4>2. \/ \E a, c \in Nat : Pieces(f) = <<a, c>> /\ Width(f) = a + c
            \/ \E a, c, d, e \in Nat : Pieces(f) = <<a, c, d, e>> /\ Width(f) = a + c + d + e
        BY PiecesAre
      <4> QED
        BY <2>3, <3>1, <3>2, <4>1, <4>2
  <2> QED
    BY <2>7 DEF Good
<1>14. l \in Good
  <2> HIDE DEF Good
  <2>1. 0..l \subseteq Good
    BY <1>12, <1>13, Induction
  <2> QED
    BY <2>1
<1>15. Wrote(v, Bytes(fs), cap)
  BY <1>1, <1>2, <1>7, <1>10, <1>14, <1>m
<1> QED
  BY <1>4, <1>6, <1>15 DEF Wrote

-----------------------------------------------------------------------------
(***************************************************************************)
(* The tree in memory, and the file beside it: what a file holds is the    *)
(* image of the tree it was written from, all of it or less.               *)
(***************************************************************************)
SampleEntry(nm, v) == [name |-> Stored[nm], val |-> v, flag |-> FALSE]
SampleTree ==
  [kids |-> <<2, 0, 0>>,
   lists |-> << <<SampleEntry("name", "device-tree"), SampleEntry("model", "iPhoneXX")>>,
                <<SampleEntry("name", "chosen"), SampleEntry("debug-enabled", "1")>>,
                <<SampleEntry("name", "arm-io"), SampleEntry("ranges", "0200")>> >>]
From == IF origin = "sample" THEN SampleTree ELSE source

IsTree(k) == \E d : Preorder(k, d) /\ d[Len(k)] = 0

Memory ==
  /\ open \in BOOLEAN /\ kids \in Seq(Nat) /\ DOMAIN kids \subseteq Node
  /\ IF open THEN IsTree(kids) ELSE kids = <<>>
  /\ store \in [Node -> Seq(Kept)]
  /\ \A n \in Node : n > Len(kids) => store[n] = <<>>
OnDisk ==
  /\ origin \in {"given", "sample", "whole", "torn"}
  /\ file \in [fields : Seq(Field), size : Nat]
  /\ origin = "given" => file \in Given
  /\ origin = "sample" => file = mkdt_sample
  /\ origin \in {"whole", "torn"} =>
       /\ source \in [kids : Seq(Nat), lists : Seq(Seq(Kept))]
       /\ Typed(source) /\ IsTree(source.kids) /\ DOMAIN source.kids \subseteq Node
       /\ file.fields = ImageOf(source)
       /\ IF origin = "whole" THEN file.size = Bytes(file.fields) ELSE file.size < Bytes(file.fields)
Same == open /\ ~touched /\ origin \in {"sample", "whole"} => Tree = From
AsRead ==
  open /\ ~touched /\ origin = "given" =>
    ~dt_parse(file).err /\ Tree = [kids |-> dt_parse(file).kids, lists |-> dt_parse(file).lists]
IInv == Memory /\ OnDisk /\ Same /\ AsRead

LEMMA NodesAre ==
  \E K \in Nat : Node = 1..K
BY FS_CardinalityType, ImageAssumption

LEMMA TreeOf ==
  ASSUME NEW k \in Seq(Nat), DOMAIN k \subseteq Node, NEW s \in [Node -> Seq(Kept)]
  PROVE  /\ Typed([kids |-> k, lists |-> SubSeq(s, 1, Len(k))])
         /\ Len(k) <= Len(s) /\ \A n \in DOMAIN k : SubSeq(s, 1, Len(k))[n] = s[n]
<1>1. PICK K \in Nat : Node = 1..K
  BY NodesAre
<1>2. s \in Seq(Seq(Kept)) /\ Len(s) = K
  BY <1>1
<1>3. PICK n \in Nat : n = Len(k) /\ DOMAIN k = 1..n
  OBVIOUS
<1>4. n <= K
  <2>1. CASE n = 0
    BY <2>1
  <2>2. CASE n # 0
    <3>1. n \in 1..n
      BY <2>2
    <3>2. n \in 1..K
      BY <1>1, <1>3, <3>1
    <3> QED
      BY <3>2
  <2> QED
    BY <2>1, <2>2
<1>5. PICK m \in 0..Len(s) : m = n
  BY <1>2, <1>4
<1>6. /\ SubSeq(s, 1, m) \in Seq(Seq(Kept)) /\ Len(SubSeq(s, 1, m)) = m
      /\ \A j \in 1..m : SubSeq(s, 1, m)[j] = s[j]
  BY <1>2, PrefixIs
<1>7. Typed([kids |-> k, lists |-> SubSeq(s, 1, n)])
  BY <1>3, <1>5, <1>6 DEF Typed
<1> QED
  BY <1>2, <1>3, <1>4, <1>5, <1>6, <1>7

LEMMA TreeIs ==
  Memory => /\ Typed(Tree) /\ (open => \E d : Shape(Tree, d))
            /\ Tree \in [kids : Seq(Nat), lists : Seq(Seq(Kept))] /\ Tree.kids = kids
<1> SUFFICES ASSUME Memory
             PROVE  /\ Typed(Tree) /\ (open => \E d : Shape(Tree, d))
                    /\ Tree \in [kids : Seq(Nat), lists : Seq(Seq(Kept))] /\ Tree.kids = kids
  OBVIOUS
<1>1. Typed([kids |-> kids, lists |-> SubSeq(store, 1, Len(kids))])
  BY TreeOf DEF Memory
<1>2. Typed(Tree) /\ Tree.kids = kids
  BY <1>1 DEF Tree
<1>3. Tree \in [kids : Seq(Nat), lists : Seq(Seq(Kept))]
  BY <1>2 DEF Tree, Typed
<1>4. open => \E d : Shape(Tree, d)
  BY <1>2 DEF Memory, IsTree, Shape
<1> QED
  BY <1>2, <1>3, <1>4

LEMMA SampleIs ==
  /\ \E d : Shape(SampleTree, d)
  /\ SampleTree \in [kids : Seq(Nat), lists : Seq(Seq(Kept))]
  /\ mkdt_sample.fields = ImageOf(SampleTree) /\ mkdt_sample.fields \in Seq(Field)
  /\ mkdt_sample.size = Bytes(mkdt_sample.fields) /\ mkdt_sample.size \in Nat
  /\ mkdt_sample \in [fields : Seq(Field), size : Nat]
<1>1. PICK e1, e2, e3, e4, e5, e6 :
        /\ e1 = SampleEntry("name", "device-tree") /\ e2 = SampleEntry("model", "iPhoneXX")
        /\ e3 = SampleEntry("name", "chosen") /\ e4 = SampleEntry("debug-enabled", "1")
        /\ e5 = SampleEntry("name", "arm-io") /\ e6 = SampleEntry("ranges", "0200")
  OBVIOUS
<1>2. \A nm \in Name, v \in Val : SampleEntry(nm, v) \in Kept
  BY ImageAssumption DEF SampleEntry, Kept, Store!Entry
<1>3. e1 \in Kept /\ e2 \in Kept /\ e3 \in Kept /\ e4 \in Kept /\ e5 \in Kept /\ e6 \in Kept
  BY <1>1, <1>2, ImageAssumption
<1>t. PICK t : t = SampleTree
  OBVIOUS
<1>4. t = [kids |-> <<2, 0, 0>>, lists |-> << <<e1, e2>>, <<e3, e4>>, <<e5, e6>> >>]
  BY <1>1, <1>t DEF SampleTree
<1>5. /\ t.kids = <<2, 0, 0>> /\ t.lists[1] = <<e1, e2>> /\ t.lists[2] = <<e3, e4>>
      /\ t.lists[3] = <<e5, e6>> /\ Len(t.kids) = 3 /\ Len(t.lists) = 3
      /\ t.kids[1] = 2 /\ t.kids[2] = 0 /\ t.kids[3] = 0 /\ t.kids \in Seq(Nat)
  BY <1>4
<1>6. t.lists \in Seq(Seq(Kept))
  <2>1. <<e1, e2>> \in Seq(Kept) /\ <<e3, e4>> \in Seq(Kept) /\ <<e5, e6>> \in Seq(Kept)
    BY <1>3
  <2> QED
    BY <1>4, <2>1
<1>7. Typed(t)
  BY <1>5, <1>6 DEF Typed
<1>8. \E d : Shape(t, d)
  <2> DEFINE d == [i \in 0..3 |-> IF i = 0 THEN 1 ELSE IF i = 1 THEN 2 ELSE IF i = 2 THEN 1 ELSE 0]
  <2>1. d \in [0..3 -> Nat] /\ d[0] = 1 /\ d[1] = 2 /\ d[2] = 1 /\ d[3] = 0
    OBVIOUS
  <2> HIDE DEF d
  <2>2. ASSUME NEW i \in 1..3
        PROVE  d[i - 1] > 0 /\ d[i] = d[i - 1] - 1 + t.kids[i] /\ t.kids[i] <= MaxChildren
    <3>1. i = 1 \/ i = 2 \/ i = 3
      OBVIOUS
    <3> QED
      BY <1>5, <2>1, <3>1, ImageAssumption
  <2>3. Preorder(t.kids, d)
    BY <1>5, <2>1, <2>2 DEF Preorder
  <2> QED
    BY <1>5, <1>7, <2>1, <2>3 DEF Shape
<1>9. PICK fs \in Seq(Field) : fs = ImageOf(t) /\ \E p : Placed(p, fs, t)
  BY <1>7, ImageIs
<1>10. PICK p : Placed(p, fs, t)
  BY <1>9
<1>11. /\ Len(fs) = 9 /\ fs[1] = Header(2, 2) /\ fs[2] = Encoded(e1) /\ fs[3] = Encoded(e2)
       /\ fs[4] = Header(2, 0) /\ fs[5] = Encoded(e3) /\ fs[6] = Encoded(e4)
       /\ fs[7] = Header(2, 0) /\ fs[8] = Encoded(e5) /\ fs[9] = Encoded(e6)
  <2>1. p[0] = 0 /\ Len(fs) = p[3]
        /\ \A n \in 1..3 : /\ p[n] = p[n - 1] + 1 + Len(t.lists[n])
                           /\ fs[p[n - 1] + 1] = Header(Len(t.lists[n]), t.kids[n])
                           /\ \A i \in 1..Len(t.lists[n]) : fs[p[n - 1] + 1 + i] = Encoded(t.lists[n][i])
    BY <1>5, <1>10 DEF Placed
  <2>2. ASSUME NEW n \in 1..3 PROVE Len(t.lists[n]) = 2
    <3>1. Len(<<e1, e2>>) = 2 /\ Len(<<e3, e4>>) = 2 /\ Len(<<e5, e6>>) = 2
      OBVIOUS
    <3>2. n = 1 \/ n = 2 \/ n = 3
      OBVIOUS
    <3>3. t.lists[n] \in {<<e1, e2>>, <<e3, e4>>, <<e5, e6>>}
      BY <1>5, <3>2
    <3> QED
      BY <3>1, <3>3
  <2>3. ASSUME NEW n \in 1..3, NEW x \in Nat, x = p[n - 1]
        PROVE  /\ p[n] = x + 3 /\ fs[x + 1] = Header(2, t.kids[n])
               /\ fs[x + 2] = Encoded(t.lists[n][1]) /\ fs[x + 3] = Encoded(t.lists[n][2])
    <3>1. Len(t.lists[n]) = 2 /\ 1 \in 1..2 /\ 2 \in 1..2
      BY <2>2
    <3>2. /\ p[n] = x + 1 + 2 /\ fs[x + 1] = Header(2, t.kids[n])
          /\ \A i \in 1..2 : fs[x + 1 + i] = Encoded(t.lists[n][i])
      BY <2>1, <2>3, <3>1
    <3>3. fs[x + 1 + 1] = Encoded(t.lists[n][1]) /\ fs[x + 1 + 2] = Encoded(t.lists[n][2])
      BY <3>1, <3>2
    <3>4. x + 1 + 1 = x + 2 /\ x + 1 + 2 = x + 3
      OBVIOUS
    <3> QED
      BY <3>2, <3>3, <3>4
  <2>4. p[1] = 3 /\ fs[1] = Header(2, 2) /\ fs[2] = Encoded(e1) /\ fs[3] = Encoded(e2)
    <3>1. 1 \in 1..3 /\ 0 = p[1 - 1] /\ t.lists[1][1] = e1 /\ t.lists[1][2] = e2
      BY <1>5, <2>1
    <3>2. p[1] = 0 + 3 /\ fs[0 + 1] = Header(2, t.kids[1])
          /\ fs[0 + 2] = Encoded(t.lists[1][1]) /\ fs[0 + 3] = Encoded(t.lists[1][2])
      BY <2>3, <3>1
    <3> QED
      BY <1>5, <3>1, <3>2
  <2>5. p[2] = 6 /\ fs[4] = Header(2, 0) /\ fs[5] = Encoded(e3) /\ fs[6] = Encoded(e4)
    <3>1. 2 \in 1..3 /\ 3 = p[2 - 1] /\ t.lists[2][1] = e3 /\ t.lists[2][2] = e4
      BY <1>5, <2>4
    <3>2. p[2] = 3 + 3 /\ fs[3 + 1] = Header(2, t.kids[2])
          /\ fs[3 + 2] = Encoded(t.lists[2][1]) /\ fs[3 + 3] = Encoded(t.lists[2][2])
      BY <2>3, <3>1
    <3> QED
      BY <1>5, <3>1, <3>2
  <2>6. p[3] = 9 /\ fs[7] = Header(2, 0) /\ fs[8] = Encoded(e5) /\ fs[9] = Encoded(e6)
    <3>1. 3 \in 1..3 /\ 6 = p[3 - 1] /\ t.lists[3][1] = e5 /\ t.lists[3][2] = e6
      BY <1>5, <2>5
    <3>2. p[3] = 6 + 3 /\ fs[6 + 1] = Header(2, t.kids[3])
          /\ fs[6 + 2] = Encoded(t.lists[3][1]) /\ fs[6 + 3] = Encoded(t.lists[3][2])
      BY <2>3, <3>1
    <3> QED
      BY <1>5, <3>1, <3>2
  <2> QED
    BY <2>1, <2>4, <2>5, <2>6
<1>12. fs = <<Header(2, 2), Encoded(e1), Encoded(e2), Header(2, 0), Encoded(e3), Encoded(e4),
              Header(2, 0), Encoded(e5), Encoded(e6)>>
  BY <1>11
<1>13. \A nm, v : wprop(nm, v) = Encoded(SampleEntry(nm, v))
  BY DEF wprop, Encoded, SampleEntry
<1>14. mkdt_sample = WholeFile(fs)
  BY <1>1, <1>12, <1>13 DEF mkdt_sample
<1>15. mkdt_sample.fields = fs /\ mkdt_sample.size = Bytes(fs) /\ mkdt_sample = [fields |-> fs, size |-> Bytes(fs)]
  BY <1>14 DEF WholeFile
<1>16. Bytes(fs) \in Nat
  <2>1. PICK d : Shape(t, d)
    BY <1>8
  <2>2. 0 \in Nat
    OBVIOUS
  <2> QED
    BY <1>9, <2>1, <2>2, ImageRead
<1> QED
  <2>1. t \in [kids : Seq(Nat), lists : Seq(Seq(Kept))]
    BY <1>4, <1>5, <1>6
  <2>2. /\ mkdt_sample.fields = ImageOf(t) /\ mkdt_sample.fields \in Seq(Field)
        /\ mkdt_sample.size = Bytes(mkdt_sample.fields) /\ mkdt_sample.size \in Nat
    BY <1>9, <1>15, <1>16
  <2>3. mkdt_sample \in [fields : Seq(Field), size : Nat]
    BY <1>15, <1>16
  <2> QED
    BY <1>8, <1>t, <2>1, <2>2, <2>3

-----------------------------------------------------------------------------
(***************************************************************************)
(* The inductive invariant, step by step.                                  *)
(***************************************************************************)
\* Where a file that is not handed in comes from: a tree with room for its nodes.
LEMMA FromIs ==
  OnDisk /\ origin # "given" =>
    /\ \E d : Shape(From, d)
    /\ From \in [kids : Seq(Nat), lists : Seq(Seq(Kept))]
    /\ file.fields = ImageOf(From)
    /\ IF origin = "torn" THEN file.size < Bytes(ImageOf(From)) ELSE file.size = Bytes(ImageOf(From))
<1> SUFFICES ASSUME OnDisk, origin # "given"
             PROVE  /\ \E d : Shape(From, d)
                    /\ From \in [kids : Seq(Nat), lists : Seq(Seq(Kept))]
                    /\ file.fields = ImageOf(From)
                    /\ IF origin = "torn" THEN file.size < Bytes(ImageOf(From))
                       ELSE file.size = Bytes(ImageOf(From))
  OBVIOUS
<1>1. CASE origin = "sample"
  <2>1. From = SampleTree /\ file = mkdt_sample
    BY <1>1 DEF From, OnDisk
  <2>2. file.size = Bytes(ImageOf(From)) /\ file.fields = ImageOf(From)
    BY <2>1, SampleIs
  <2> QED
    BY <1>1, <2>1, <2>2, SampleIs
<1>2. CASE origin # "sample"
  <2>1. origin \in {"whole", "torn"} /\ From = source
    BY <1>2 DEF From, OnDisk
  <2>2. /\ source \in [kids : Seq(Nat), lists : Seq(Seq(Kept))]
        /\ Typed(source) /\ IsTree(source.kids) /\ file.fields = ImageOf(source)
        /\ IF origin = "whole" THEN file.size = Bytes(file.fields) ELSE file.size < Bytes(file.fields)
    BY <2>1 DEF OnDisk
  <2>3. \E d : Shape(From, d)
    BY <2>1, <2>2 DEF IsTree, Shape
  <2> QED
    BY <2>1, <2>2, <2>3
<1> QED
  BY <1>1, <1>2

\* dt_parse of the file: the tree it was written from, or nothing when it is cut or has
\* a node with more entries than the parser takes.
LEMMA FileReads ==
  OnDisk /\ origin # "given" =>
    IF origin = "torn" \/ ~Readable(From) THEN dt_parse(file).err
    ELSE /\ ~dt_parse(file).err /\ dt_parse(file).kids = From.kids
         /\ dt_parse(file).lists = From.lists /\ dt_parse(file).off = file.size
<1> SUFFICES ASSUME OnDisk, origin # "given"
             PROVE  IF origin = "torn" \/ ~Readable(From) THEN dt_parse(file).err
                    ELSE /\ ~dt_parse(file).err /\ dt_parse(file).kids = From.kids
                         /\ dt_parse(file).lists = From.lists /\ dt_parse(file).off = file.size
  OBVIOUS
<1>1. /\ file.fields = ImageOf(From)
      /\ IF origin = "torn" THEN file.size < Bytes(ImageOf(From)) ELSE file.size = Bytes(ImageOf(From))
  BY FromIs
<1>d. PICK d : Shape(From, d)
  BY FromIs
<1>2. PICK n \in Nat : n = file.size
  BY DEF OnDisk
<1>3. /\ Bytes(ImageOf(From)) \in Nat
      /\ Bytes(ImageOf(From)) > file.size \/ ~Readable(From) => dt_parse(file).err
      /\ Bytes(ImageOf(From)) <= file.size /\ Readable(From) =>
           /\ ~dt_parse(file).err /\ dt_parse(file).kids = From.kids
           /\ dt_parse(file).lists = From.lists /\ dt_parse(file).off = Bytes(ImageOf(From))
  BY <1>1, <1>2, <1>d, ReadsBack
<1>4. PICK b \in Nat : b = Bytes(ImageOf(From))
  BY <1>3
<1>5. CASE origin = "torn"
  <2>1. b > n
    BY <1>1, <1>2, <1>4, <1>5
  <2> QED
    BY <1>2, <1>3, <1>4, <1>5, <2>1
<1>6. CASE origin # "torn"
  <2>1. b = n /\ b <= n
    BY <1>1, <1>2, <1>4, <1>6
  <2> QED
    BY <1>2, <1>3, <1>4, <1>6, <2>1
<1> QED
  BY <1>5, <1>6

LEMMA ParsedFits ==
  OnDisk /\ ~dt_parse(file).err =>
    /\ DOMAIN dt_parse(file).kids \subseteq Node
    /\ \E d : Shape([kids |-> dt_parse(file).kids, lists |-> dt_parse(file).lists], d)
<1> SUFFICES ASSUME OnDisk, ~dt_parse(file).err
             PROVE  /\ DOMAIN dt_parse(file).kids \subseteq Node
                    /\ \E d : Shape([kids |-> dt_parse(file).kids, lists |-> dt_parse(file).lists], d)
  OBVIOUS
<1>1. DOMAIN dt_parse(file).kids \subseteq Node
  <2>1. CASE origin \in {"given", "sample"}
    <3>1. file \in Given \cup {mkdt_sample}
      BY <2>1 DEF OnDisk
    <3> QED
      BY <3>1, ImageAssumption
  <2>2. CASE origin = "torn"
    BY <2>2, FileReads
  <2>3. CASE origin = "whole"
    <3>1. dt_parse(file).kids = From.kids /\ From = source
      BY <2>3, FileReads DEF From
    <3>2. DOMAIN source.kids \subseteq Node
      BY <2>3 DEF OnDisk
    <3> QED
      BY <3>1, <3>2
  <2> QED
    BY <2>1, <2>2, <2>3 DEF OnDisk
<1>2. file.fields \in Seq(Field)
  BY DEF OnDisk
<1>3. \E d : Shape([kids |-> dt_parse(file).kids, lists |-> dt_parse(file).lists], d)
  BY <1>2, ReadIsTree
<1> QED
  BY <1>1, <1>3

LEMMA InitOK == Init => IInv
<1> SUFFICES ASSUME Init PROVE IInv
  OBVIOUS
<1>1. Memory
  <2>1. kids = <<>> /\ open = FALSE /\ store = [n \in Node |-> <<>>]
    BY DEF Init, Empty
  <2>2. kids \in Seq(Nat) /\ DOMAIN kids \subseteq Node
    BY <2>1
  <2>3. store \in [Node -> Seq(Kept)]
    BY <2>1
  <2> QED
    BY <2>1, <2>2, <2>3 DEF Memory
<1>2. OnDisk
  <2>1. CASE file \in Given /\ origin = "given"
    <3>1. file \in [fields : Seq(Field), size : Nat]
      BY <2>1, ImageAssumption
    <3> QED
      BY <2>1, <3>1 DEF OnDisk
  <2>2. CASE file = mkdt_sample /\ origin = "sample"
    <3>1. file \in [fields : Seq(Field), size : Nat]
      BY <2>2, SampleIs
    <3> QED
      BY <2>2, <3>1 DEF OnDisk
  <2> QED
    BY <2>1, <2>2 DEF Init
<1>3. Same /\ AsRead
  BY DEF Init, Same, AsRead
<1> QED
  BY <1>1, <1>2, <1>3 DEF IInv

LEMMA ParseOK ==
  ASSUME IInv, Parse PROVE IInv'
<1>0. Memory /\ OnDisk /\ ~open /\ kids = <<>> /\ open \in BOOLEAN
  BY DEF IInv, Memory, Parse
<1>1. UNCHANGED <<file, origin, source>> /\ touched' = FALSE
  BY DEF Parse
<1>2. OnDisk'
  BY <1>0, <1>1 DEF OnDisk
<1>3. CASE dt_parse(file).err
  <2>1. UNCHANGED <<kids, store, open>>
    BY <1>3 DEF Parse
  <2>2. Memory'
    BY <1>0, <2>1 DEF Memory
  <2>3. Same' /\ AsRead'
    BY <1>0, <2>1 DEF Same, AsRead
  <2> QED
    BY <1>2, <2>2, <2>3 DEF IInv
<1>4. CASE ~dt_parse(file).err
  <2>t. PICK t : t = dt_parse(file)
    OBVIOUS
  <2>1. /\ kids' = t.kids /\ open' = TRUE
        /\ store' = [n \in Node |-> IF n \in DOMAIN t.lists THEN t.lists[n] ELSE <<>>]
    BY <1>4, <2>t DEF Parse
  <2>2. PICK d : Shape([kids |-> t.kids, lists |-> t.lists], d)
    BY <1>0, <1>4, <2>t, ParsedFits
  <2>3. /\ t.kids \in Seq(Nat) /\ t.lists \in Seq(Seq(Kept)) /\ Len(t.kids) = Len(t.lists)
        /\ Preorder(t.kids, d) /\ d[Len(t.kids)] = 0
    BY <2>2 DEF Shape, Typed
  <2>4. DOMAIN t.kids \subseteq Node
    BY <1>0, <1>4, <2>t, ParsedFits
  <2>5. PICK k \in Nat : k = Len(t.kids) /\ DOMAIN t.kids = 1..k /\ DOMAIN t.lists = 1..k
    BY <2>3
  <2>6. store' \in [Node -> Seq(Kept)]
    <3>1. \A n \in DOMAIN t.lists : t.lists[n] \in Seq(Kept)
      BY <2>3
    <3>2. <<>> \in Seq(Kept)
      OBVIOUS
    <3> QED
      BY <2>1, <3>1, <3>2
  <2>7. \A n \in Node : n > Len(kids') => store'[n] = <<>>
    <3>1. PICK K \in Nat : Node = 1..K
      BY NodesAre
    <3> SUFFICES ASSUME NEW n \in Node, n > k PROVE store'[n] = <<>>
      BY <2>1, <2>5
    <3>2. n \notin DOMAIN t.lists
      BY <2>5, <3>1
    <3> QED
      BY <2>1, <3>2
  <2>8. Memory'
    BY <2>1, <2>3, <2>4, <2>6, <2>7 DEF Memory, IsTree
  <2>9. Tree' = [kids |-> t.kids, lists |-> t.lists]
    <3>s. PICK s \in [Node -> Seq(Kept)] : s = store'
      BY <2>6
    <3>1. /\ Typed([kids |-> t.kids, lists |-> SubSeq(s, 1, Len(t.kids))])
          /\ \A n \in DOMAIN t.kids : SubSeq(s, 1, Len(t.kids))[n] = s[n]
      BY <2>3, <2>4, TreeOf
    <3>2. PICK r : r = SubSeq(s, 1, Len(t.kids))
      OBVIOUS
    <3>3. r \in Seq(Seq(Kept)) /\ Len(r) = k
      BY <2>5, <3>1, <3>2 DEF Typed
    <3>4. \A n \in 1..k : r[n] = t.lists[n]
      BY <2>1, <2>4, <2>5, <3>1, <3>2, <3>s
    <3>5. r = t.lists
      <4>1. Len(r) = Len(t.lists) /\ \A n \in 1..Len(t.lists) : r[n] = t.lists[n]
        BY <2>3, <2>5, <3>3, <3>4
      <4> QED
        BY <2>3, <3>3, <4>1, SameList
    <3> QED
      BY <2>1, <3>2, <3>5, <3>s DEF Tree
  <2>10. Same'
    <3> SUFFICES ASSUME origin' \in {"sample", "whole"} PROVE Tree' = From'
      BY DEF Same
    <3>1. origin \in {"sample", "whole"} /\ From' = From
      BY <1>1 DEF From
    <3>2. t.kids = From.kids /\ t.lists = From.lists
      BY <1>0, <1>4, <2>t, <3>1, FileReads
    <3>3. From \in [kids : Seq(Nat), lists : Seq(Seq(Kept))]
      BY <1>0, <3>1, FromIs
    <3>4. From = [kids |-> From.kids, lists |-> From.lists]
      BY <3>3
    <3> QED
      BY <2>9, <3>1, <3>2, <3>4
  <2>11. AsRead'
    <3>1. dt_parse(file)' = t
      BY <1>1, <2>t
    <3> QED
      BY <1>4, <2>9, <2>t, <3>1 DEF AsRead
  <2> QED
    BY <1>2, <2>8, <2>10, <2>11 DEF IInv
<1> QED
  BY <1>3, <1>4

\* An edit of node n changes that node's entries only, and keeps their names cut.
LEMMA SetKeeps ==
  ASSUME NEW n \in Node, NEW nm \in Name, NEW v \in Val,
         store \in [Node -> Seq(Kept)], Store!Set(n, nm, v)
  PROVE  store' \in [Node -> Seq(Kept)] /\ \A m \in Node : m # n => store'[m] = store[m]
<1>1. PICK i \in DOMAIN store[n] :
        store' = [store EXCEPT ![n] = [store[n] EXCEPT ![i] = [store[n][i] EXCEPT !.val = v]]]
  BY DEF Store!Set
<1>2. PICK s \in Seq(Kept) : s = store[n]
  OBVIOUS
<1>3. PICK e \in Kept : e = s[i]
  BY <1>1, <1>2
<1>4. PICK w : w = [e EXCEPT !.val = v]
  OBVIOUS
<1>5. w \in Kept
  BY <1>4 DEF Kept, Store!Entry
<1>6. [s EXCEPT ![i] = w] \in Seq(Kept)
  BY <1>2, <1>5
<1>7. store' = [store EXCEPT ![n] = [s EXCEPT ![i] = w]]
  BY <1>1, <1>2, <1>3, <1>4
<1> QED
  BY <1>6, <1>7

LEMMA AddKeeps ==
  ASSUME NEW n \in Node, NEW nm \in Name, NEW v \in Val,
         store \in [Node -> Seq(Kept)], Store!Add(n, nm, v)
  PROVE  store' \in [Node -> Seq(Kept)] /\ \A m \in Node : m # n => store'[m] = store[m]
<1>1. PICK e : e = [name |-> Stored[nm], val |-> v, flag |-> FALSE]
  OBVIOUS
<1>2. store' = [store EXCEPT ![n] = Append(store[n], e)]
  BY <1>1 DEF Store!Add
<1>3. e \in Kept
  BY <1>1, ImageAssumption DEF Kept, Store!Entry
<1>4. PICK s \in Seq(Kept) : s = store[n]
  OBVIOUS
<1>5. Append(s, e) \in Seq(Kept)
  BY <1>3
<1> QED
  BY <1>2, <1>4, <1>5

LEMMA DeleteKeeps ==
  ASSUME NEW n \in Node, NEW nm \in Name,
         store \in [Node -> Seq(Kept)], Store!Delete(n, nm)
  PROVE  store' \in [Node -> Seq(Kept)] /\ \A m \in Node : m # n => store'[m] = store[m]
<1>1. PICK i \in DOMAIN store[n] : store' = [store EXCEPT ![n] = Store!Without(store[n], i)]
  BY DEF Store!Delete
<1>2. PICK s \in Seq(Kept) : s = store[n]
  OBVIOUS
<1>3. PICK k \in Nat : k = Len(s) /\ i \in 1..k
  BY <1>1, <1>2
<1>4. Store!Without(s, i) \in Seq(Kept)
  <2>1. Store!Without(s, i) = [j \in 1..(k - 1) |-> IF j < i THEN s[j] ELSE s[j + 1]]
    BY <1>3 DEF Store!Without
  <2>2. ASSUME NEW j \in 1..(k - 1) PROVE (IF j < i THEN s[j] ELSE s[j + 1]) \in Kept
    <3>1. s[j] \in Kept /\ s[j + 1] \in Kept
      BY <1>3
    <3> QED
      BY <3>1
  <2>3. k - 1 \in Nat
    BY <1>3
  <2> QED
    BY <2>1, <2>2, <2>3
<1> QED
  BY <1>1, <1>2, <1>4

LEMMA EditOK ==
  ASSUME IInv, Edit PROVE IInv'
<1>0. Memory /\ OnDisk
  BY DEF IInv
<1>1. UNCHANGED <<file, origin, source, kids, open>> /\ touched' = TRUE /\ open
  BY DEF Edit
<1>2. OnDisk' /\ Same' /\ AsRead'
  BY <1>0, <1>1 DEF OnDisk, Same, AsRead
<1>3. PICK n \in DOMAIN kids, nm \in EditName :
        \/ Store!Delete(n, nm)
        \/ \E v \in EditVal : Store!Set(n, nm, v) \/ Store!Add(n, nm, v) \/ Store!Upsert(n, nm, v)
  BY DEF Edit
<1>4. n \in Node /\ nm \in Name /\ store \in [Node -> Seq(Kept)] /\ \A v \in EditVal : v \in Val
  BY <1>0, ImageAssumption DEF Memory
<1>5. store' \in [Node -> Seq(Kept)] /\ \A m \in Node : m # n => store'[m] = store[m]
  <2>1. CASE Store!Delete(n, nm)
    BY <1>4, <2>1, DeleteKeeps
  <2>2. ASSUME NEW v \in EditVal, Store!Set(n, nm, v)
        PROVE  store' \in [Node -> Seq(Kept)] /\ \A m \in Node : m # n => store'[m] = store[m]
    BY <1>4, <2>2, SetKeeps
  <2>3. ASSUME NEW v \in EditVal, Store!Add(n, nm, v)
        PROVE  store' \in [Node -> Seq(Kept)] /\ \A m \in Node : m # n => store'[m] = store[m]
    BY <1>4, <2>3, AddKeeps
  <2>4. ASSUME NEW v \in EditVal, Store!Upsert(n, nm, v)
        PROVE  store' \in [Node -> Seq(Kept)] /\ \A m \in Node : m # n => store'[m] = store[m]
    <3>1. Store!Set(n, nm, v) \/ Store!Add(n, nm, v)
      BY <2>4 DEF Store!Upsert
    <3> QED
      BY <2>2, <2>3, <3>1
  <2> QED
    BY <1>3, <2>1, <2>2, <2>3, <2>4
<1>6. \A m \in Node : m > Len(kids') => store'[m] = <<>>
  <2> SUFFICES ASSUME NEW m \in Node, m > Len(kids) PROVE store'[m] = <<>>
    BY <1>1
  <2>1. m # n
    <3>1. kids \in Seq(Nat) /\ n \in 1..Len(kids)
      BY <1>0 DEF Memory
    <3> QED
      BY <3>1
  <2> QED
    BY <1>0, <1>5, <2>1 DEF Memory
<1>7. Memory'
  BY <1>0, <1>1, <1>5, <1>6 DEF Memory
<1> QED
  BY <1>2, <1>7 DEF IInv

\* The dry run's size, of any room: exact, or an error when the room is less.
LEMMA SerializeIs ==
  Memory /\ open =>
    /\ Image \in Seq(Field) /\ Bytes(Image) \in Nat
    /\ \A cap \in Int : cap = NoCap \/ cap >= 0 =>
         Written(Calls(Image), cap) = IF cap = NoCap \/ Bytes(Image) <= cap THEN Bytes(Image) ELSE -1
<1> SUFFICES ASSUME Memory, open
             PROVE  /\ Image \in Seq(Field) /\ Bytes(Image) \in Nat
                    /\ \A cap \in Int : cap = NoCap \/ cap >= 0 =>
                         Written(Calls(Image), cap) =
                           IF cap = NoCap \/ Bytes(Image) <= cap THEN Bytes(Image) ELSE -1
  OBVIOUS
<1>1. PICK d : Shape(Tree, d)
  BY TreeIs
<1>2. Image = ImageOf(Tree)
  BY DEF Image
<1>3. Image \in Seq(Field)
  BY <1>1, <1>2, ImageIs DEF Shape
<1>4. Bytes(Image) \in Nat
  <2>1. 0 \in Nat
    OBVIOUS
  <2> QED
    BY <1>1, <1>2, <2>1, ImageRead
<1> QED
  BY <1>3, <1>4, WrittenIs

LEMMA WriteOK ==
  ASSUME IInv, dt_write PROVE IInv'
<1>0. Memory /\ OnDisk /\ open
  BY DEF IInv, dt_write
<1>1. UNCHANGED <<kids, store, open>> /\ source' = Tree
  BY DEF dt_write
<1>2. Memory' /\ Tree' = Tree
  BY <1>0, <1>1 DEF Memory, Tree
<1>3. Image \in Seq(Field) /\ Bytes(Image) \in Nat /\ dt_serialize(NoCap) = Bytes(Image)
  <2>1. NoCap \in Int
    BY DEF NoCap
  <2> QED
    BY <1>0, <2>1, SerializeIs DEF dt_serialize
<1>4. /\ Tree \in [kids : Seq(Nat), lists : Seq(Seq(Kept))] /\ Typed(Tree)
      /\ IsTree(Tree.kids) /\ DOMAIN Tree.kids \subseteq Node /\ Image = ImageOf(Tree)
  BY <1>0, TreeIs DEF Memory, Image
<1>5. \/ /\ file' = [fields |-> Image, size |-> Bytes(Image)]
         /\ origin' = "whole" /\ touched' = FALSE
      \/ \E k \in Cuts \ {Bytes(Image)} :
           /\ file' = [fields |-> Image, size |-> k]
           /\ origin' = "torn" /\ UNCHANGED touched
  BY <1>3 DEF dt_write
<1>6. CASE file' = [fields |-> Image, size |-> Bytes(Image)] /\ origin' = "whole" /\ touched' = FALSE
  <2>1. file' \in [fields : Seq(Field), size : Nat] /\ file'.fields = Image /\ file'.size = Bytes(Image)
    BY <1>3, <1>6
  <2>2. OnDisk'
    BY <1>1, <1>4, <1>6, <2>1 DEF OnDisk
  <2>3. Same' /\ AsRead'
    BY <1>1, <1>2, <1>6 DEF Same, AsRead, From
  <2> QED
    BY <1>2, <2>2, <2>3 DEF IInv
<1>7. ASSUME NEW i \in DOMAIN Image, NEW s \in Short, Bytes(SubSeq(Image, 1, i)) - s # Bytes(Image),
             Bytes(SubSeq(Image, 1, i)) - s >= 0,
             file' = [fields |-> Image, size |-> Bytes(SubSeq(Image, 1, i)) - s],
             origin' = "torn", UNCHANGED touched
      PROVE  IInv'
  <2>i. i \in 1..Len(Image)
    BY <1>3
  <2>s. s \in Nat
    BY ImageAssumption
  <2>1. i \in 1..Len(Image) /\ s \in Nat
    BY <2>i, <2>s
  <2>2. /\ Bytes(SubSeq(Image, 1, i)) \in Nat
        /\ Bytes(SubSeq(Image, 1, i)) <= Bytes(Image)
    BY <1>3, <2>1, PrefixBytes
  <2>3. Bytes(SubSeq(Image, 1, i)) - s \in Nat /\ Bytes(SubSeq(Image, 1, i)) - s < Bytes(Image)
    <3>1. PICK a \in Nat, b \in Nat : a = Bytes(SubSeq(Image, 1, i)) /\ b = Bytes(Image)
      BY <1>3, <2>2
    <3>2. a - s \in Nat /\ a - s < b
      BY <1>7, <2>1, <2>2, <3>1
    <3> QED
      BY <3>1, <3>2
  <2>4. /\ file' \in [fields : Seq(Field), size : Nat] /\ file'.fields = Image
        /\ file'.size < Bytes(file'.fields)
    BY <1>3, <1>7, <2>3
  <2>5. OnDisk'
    BY <1>1, <1>4, <1>7, <2>4 DEF OnDisk
  <2>6. Same' /\ AsRead'
    BY <1>7 DEF Same, AsRead
  <2> QED
    BY <1>2, <2>5, <2>6 DEF IInv
<1>8. ASSUME NEW k \in Cuts \ {Bytes(Image)}, file' = [fields |-> Image, size |-> k],
             origin' = "torn", UNCHANGED touched
      PROVE  IInv'
  <2>0. k >= 0
    BY DEF Cuts
  <2>1. PICK i \in DOMAIN Image, s \in Short : k = Bytes(SubSeq(Image, 1, i)) - s
    BY DEF Cuts
  <2>2. k # Bytes(Image)
    OBVIOUS
  <2> QED
    BY <1>7, <1>8, <2>0, <2>1, <2>2
<1> QED
  BY <1>5, <1>6, <1>8

LEMMA FreeOK ==
  ASSUME IInv, dt_free PROVE IInv'
<1>1. /\ kids' = <<>> /\ open' = FALSE /\ store' = [n \in Node |-> <<>>]
      /\ UNCHANGED <<file, origin, source, touched>>
  BY DEF dt_free, Store!Release
<1>2. store' \in [Node -> Seq(Kept)] /\ kids' \in Seq(Nat) /\ DOMAIN kids' \subseteq Node
  BY <1>1
<1>3. Memory'
  BY <1>1, <1>2 DEF Memory
<1>4. OnDisk' /\ Same' /\ AsRead'
  BY <1>1 DEF IInv, OnDisk, Same, AsRead
<1> QED
  BY <1>3, <1>4 DEF IInv

LEMMA StutterOK ==
  ASSUME IInv, UNCHANGED vars PROVE IInv'
BY DEF IInv, Memory, OnDisk, Same, AsRead, From, Tree, vars

\* Every step keeps memory, file and the tree that was written as they belong together:
\* reading, editing, writing whole or in part, freeing (apple_dt.c:71-270).
THEOREM Invariance == Spec => []IInv
<1>1. Init => IInv
  BY InitOK
<1>2. IInv /\ [Next]_vars => IInv'
  BY ParseOK, EditOK, WriteOK, FreeOK, StutterOK DEF Next
<1> QED
  BY <1>1, <1>2, PTL DEF Spec

-----------------------------------------------------------------------------
\* What dt_parse and the mutators leave in memory is a tree of cut names, with a list
\* for each node and none for a node that is not there (apple_dt.c:71-160).
THEOREM ImageTypeCorrect == Spec => []TypeOK
<1>1. IInv => TypeOK
  <2> SUFFICES ASSUME IInv PROVE TypeOK
    OBVIOUS
  <2>1. Memory /\ OnDisk
    BY DEF IInv
  <2>2. origin \in {"given", "sample", "whole", "torn"} /\ file.size \in Nat
    BY <2>1 DEF OnDisk
  <2>3. kids \in Seq(Nat) /\ Len(kids) <= Len(store)
    BY <2>1, TreeOf DEF Memory
  <2>4. open <=> kids # <<>>
    <3>1. ~IsTree(<<>>)
      <4> SUFFICES ASSUME NEW d, Preorder(<<>>, d), d[Len(<<>>)] = 0 PROVE FALSE
        BY DEF IsTree
      <4>1. Len(<<>>) = 0 /\ d[0] = 1
        BY DEF Preorder
      <4> QED
        BY <4>1
    <3> QED
      BY <2>1, <3>1 DEF Memory
  <2>5. store \in [Node -> Seq(Kept)] /\ \A n \in Node : n > Len(kids) => store[n] = <<>>
    BY <2>1 DEF Memory
  <2>6. \A n \in Node : \A i \in DOMAIN store[n] : store[n][i] \in Store!Entry /\ Stored[store[n][i].name] = store[n][i].name
    <3> SUFFICES ASSUME NEW n \in Node, NEW i \in DOMAIN store[n] PROVE store[n][i] \in Kept
      BY DEF Kept
    <3>1. PICK s \in Seq(Kept) : s = store[n]
      BY <2>5
    <3> QED
      BY <3>1
  <2>7. store \in [Node -> Seq(Store!Entry)]
    <3>1. ASSUME NEW s \in Seq(Kept) PROVE s \in Seq(Store!Entry)
      <4>1. \A i \in 1..Len(s) : s[i] \in Store!Entry
        BY DEF Kept
      <4> QED
        BY <4>1
    <3> QED
      BY <2>5, <3>1
  <2> QED
    BY <2>2, <2>3, <2>4, <2>5, <2>6, <2>7 DEF TypeOK
<1> QED
  BY <1>1, Invariance, PTL

\* For every tree and every sequence of edits: what dt_write wrote whole, dt_parse reads
\* as the tree that was written, to the last byte of the file, if no node has outgrown its
\* limit, and refuses otherwise (apple_dt.c:64-104, 202-270).
THEOREM ImageRoundTrip == Spec => []RoundTrip
<1>1. IInv => RoundTrip
  <2> SUFFICES ASSUME IInv, origin = "whole"
               PROVE  IF Readable(source)
                      THEN /\ ~dt_parse(file).err /\ dt_parse(file).kids = source.kids
                           /\ dt_parse(file).lists = source.lists /\ dt_parse(file).off = file.size
                      ELSE dt_parse(file).err
    BY DEF RoundTrip
  <2>1. From = source
    BY DEF From
  <2> QED
    BY <2>1, FileReads DEF IInv
<1> QED
  BY <1>1, Invariance, PTL

\* For every tree and every place a write may stop: what is left is not taken for a tree
\* (rd_bytes, apple_dt.c:38-62).
THEOREM ImageTornDetected == Spec => []TornDetected
<1>1. IInv => TornDetected
  BY FileReads DEF IInv, TornDetected
<1> QED
  BY <1>1, Invariance, PTL

\* For every tree in memory: the dry run tells the room that dt_serialize needs, no
\* byte more and no byte less (w_raw and dt_serialize, apple_dt.c:202-270).
THEOREM ImageNeedExact == Spec => []NeedExact
<1>1. IInv => NeedExact
  <2> SUFFICES ASSUME IInv, open PROVE NeedExact
    BY DEF NeedExact
  <2>1. /\ Bytes(Image) \in Nat
        /\ \A cap \in Int : cap = NoCap \/ cap >= 0 =>
             Written(Calls(Image), cap) = IF cap = NoCap \/ Bytes(Image) <= cap THEN Bytes(Image) ELSE -1
    BY SerializeIs DEF IInv
  <2>2. Written(Calls(Image), NoCap) = Bytes(Image)
    <3>1. NoCap \in Int
      BY DEF NoCap
    <3> QED
      BY <2>1, <3>1
  <2>3. PICK b \in Nat : b = Bytes(Image)
    BY <2>1
  <2>4. ASSUME NEW cap \in {n \in 0..(b + 4) : b - n < 44}
        PROVE  Written(Calls(Image), cap) = IF cap < b THEN -1 ELSE b
    <3>1. cap \in Int /\ cap >= 0 /\ cap # NoCap
      BY DEF NoCap
    <3>2. Written(Calls(Image), cap) = IF cap = NoCap \/ b <= cap THEN b ELSE -1
      BY <2>1, <2>3, <3>1
    <3> QED
      BY <3>1, <3>2
  <2> QED
    BY <2>2, <2>3, <2>4 DEF NeedExact
<1> QED
  BY <1>1, Invariance, PTL

\* What mkdt_sample or dt_write wrote, read and not edited, is written back byte by byte
\* (apple_dt.c:228-253, mkdt_sample.c:24-60).
THEOREM ImageWrittenIdentical == Spec => []WrittenIdentical
<1>1. IInv => WrittenIdentical
  <2> SUFFICES ASSUME IInv, open, ~touched, origin \in {"sample", "whole"}
               PROVE  file = [fields |-> Image, size |-> dt_serialize(NoCap)]
    BY DEF WrittenIdentical
  <2>1. Memory /\ OnDisk /\ Tree = From
    BY DEF IInv, Same
  <2>2. file.fields = Image /\ file.size = Bytes(Image)
    BY <2>1, FromIs DEF Image
  <2>3. dt_serialize(NoCap) = Bytes(Image)
    <3>1. NoCap \in Int
      BY DEF NoCap
    <3> QED
      BY <2>1, <3>1, SerializeIs DEF dt_serialize
  <2>4. file = [fields |-> file.fields, size |-> file.size]
    BY <2>1 DEF OnDisk
  <2> QED
    BY <2>2, <2>3, <2>4
<1> QED
  BY <1>1, Invariance, PTL

\* Of any file that is read and not edited, what is written back differs in zeros only: behind
\* the names' NULs and in the padding (apple_dt.c:49, 64-97, 228-253).
THEOREM ImageOnlyNoiseLost == Spec => []OnlyNoiseLost
<1>1. IInv => OnlyNoiseLost
  <2> SUFFICES ASSUME IInv, open, ~touched, origin = "given"
               PROVE  /\ Len(Image) <= Len(file.fields)
                      /\ Image = [i \in DOMAIN Image |-> Zeroed(file.fields[i])]
                      /\ dt_serialize(NoCap) = dt_parse(file).off
    BY DEF OnlyNoiseLost
  <2>1. Memory /\ OnDisk /\ ~dt_parse(file).err
        /\ Tree = [kids |-> dt_parse(file).kids, lists |-> dt_parse(file).lists]
    BY DEF IInv, AsRead
  <2>2. file.fields \in Seq(Field)
    BY <2>1 DEF OnDisk
  <2>3. /\ Image \in Seq(Field) /\ Len(Image) <= Len(file.fields)
        /\ \A j \in 1..Len(Image) : Image[j] = Zeroed(file.fields[j])
        /\ Bytes(Image) = dt_parse(file).off
    BY <2>1, <2>2, ReadImage DEF Image
  <2>4. dt_serialize(NoCap) = Bytes(Image)
    <3>1. NoCap \in Int
      BY DEF NoCap
    <3> QED
      BY <2>1, <3>1, SerializeIs DEF dt_serialize
  <2>5. Image = [i \in DOMAIN Image |-> Zeroed(file.fields[i])]
    <3>1. PICK im \in Seq(Field) : im = Image
      BY <2>3
    <3>2. \A j \in DOMAIN im : im[j] = Zeroed(file.fields[j])
      BY <2>3, <3>1
    <3> QED
      BY <3>1, <3>2
  <2> QED
    BY <2>3, <2>4, <2>5
<1> QED
  BY <1>1, Invariance, PTL
=============================================================================
