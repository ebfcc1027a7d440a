----------------------------- MODULE DTTools_proofs -----------------------------
(***************************************************************************)
(* The tools for any tree, patch file, names and values: every way out     *)
(* gives back what it holds, the exit status tells what the output is, and *)
(* a whole output says what was asked.                                     *)
(***************************************************************************)
EXTENDS DTTools, Facts

-----------------------------------------------------------------------------
\* dt_find as a walk: where it may be after each segment of the path.
Found == Node \cup {NULL}
Onward(at, seg) == UNION {IF n = NULL THEN {NULL} ELSE Descend(n, seg) : n \in at}
Walk(at, path) ==
  /\ at \in [0..Len(path) -> SUBSET Found]
  /\ at[0] = {Root}
  /\ \A i \in 1..Len(path) : at[i] = Onward(at[i - 1], path[i])

LEMMA DescendsToNode ==
  ASSUME NEW n \in Node, NEW seg
  PROVE  Descend(n, seg) \subseteq Found
<1>1. Kids[n] \in Seq(Node)
  BY ToolsAssumption
<1>2. \A i \in DOMAIN Kids[n] : Kids[n][i] \in Node
  BY <1>1
<1> QED
  BY <1>2 DEF Descend, Children, Found

LEMMA Finding ==
  ASSUME NEW path \in Path
  PROVE  \E at : Walk(at, path) /\ dt_find(path) = at[Len(path)]
<1> DEFINE n == Len(path)
           Def(f) == [i \in 0..n |->
                        IF i = 0 THEN {Root}
                        ELSE UNION {IF m = NULL THEN {NULL} ELSE Descend(m, path[i]) : m \in f[i - 1]}]
           at == CHOOSE f : f = Def(f)
           Places == SUBSET Found
<1>1. n \in Nat /\ {Root} \in Places
  BY ToolsAssumption DEF Found
<1>2. \A x \in Places, i \in 1..n : Onward(x, path[i]) \in Places
  <2> SUFFICES ASSUME NEW x \in Places, NEW i \in 1..n PROVE Onward(x, path[i]) \subseteq Found
    OBVIOUS
  <2>1. ASSUME NEW m \in x
        PROVE  (IF m = NULL THEN {NULL} ELSE Descend(m, path[i])) \subseteq Found
    BY DescendsToNode DEF Found
  <2> QED
    BY <2>1 DEF Onward
<1>3. PICK f \in [0..n -> Places] :
        f[0] = {Root} /\ \A i \in 1..n : f[i] = Onward(f[i - 1], path[i])
  <2> DEFINE G == [i \in 1..n |-> [x \in Places |-> Onward(x, path[i])]]
  <2>1. G \in [1..n -> [Places -> Places]]
    BY <1>2
  <2>2. \A x \in Places, i \in 1..n : G[i][x] = Onward(x, path[i])
    OBVIOUS
  <2> HIDE DEF G, Places, n, Def, at
  <2>3. PICK f \in [0..n -> Places] : f[0] = {Root} /\ \A i \in 1..n : f[i] = G[i][f[i - 1]]
    BY <1>1, <2>1, Iterates
  <2>4. ASSUME NEW i \in 1..n PROVE f[i] = Onward(f[i - 1], path[i])
    <3>1. i - 1 \in 0..n
      BY <1>1
    <3> QED
      BY <2>2, <2>3, <3>1
  <2> QED
    BY <2>3, <2>4
<1>4. f = Def(f)
  <2>1. \A i \in 0..n : f[i] = Def(f)[i]
    BY <1>1, <1>3 DEF Onward
  <2> HIDE DEF Places
  <2>2. f \in [0..n -> Places]
    BY <1>3
  <2>3. DOMAIN f = 0..n /\ f = [i \in 0..n |-> f[i]]
    BY <2>2
  <2> QED
    BY <2>1, <2>3
<1>5. at = Def(at)
  <2> HIDE DEF Def
  <2> QED
    BY <1>4
<1>6. at[0] = {Root} /\ \A i \in 1..n : at[i] = Onward(at[i - 1], path[i])
  <2>1. 0 \in 0..n /\ \A i \in 1..n : i \in 0..n /\ i # 0
    BY <1>1
  <2> HIDE DEF at, n
  <2>2. \A i \in 0..n : at[i] = IF i = 0 THEN {Root} ELSE Onward(at[i - 1], path[i])
    BY <1>5 DEF Onward
  <2> QED
    BY <2>1, <2>2
<1>7. \A i \in 0..n : at[i] \in Places
  <2> DEFINE P == {i \in 0..n : at[i] \in Places}
  <2> HIDE DEF at, Places, n
  <2>0. 0 \in P
    <3>1. 0 \in 0..n /\ at[0] \in Places
      <4>1. at[0] = {Root}
        BY <1>6
      <4>2. 0 \in 0..n
        BY <1>1
      <4> QED
        BY <1>1, <4>1, <4>2
    <3> QED
      BY <3>1
  <2>1. ASSUME NEW i \in 1..n, i - 1 \in P PROVE i \in P
    <3>1. Onward(at[i - 1], path[i]) \in Places
      BY <1>2, <2>1
    <3> QED
      BY <1>1, <1>6, <3>1
  <2> HIDE DEF P
  <2>2. 0..n \subseteq P
    BY <1>1, <2>0, <2>1, Induction
  <2> QED
    BY <2>2 DEF P
<1>8. dt_find(path) = at[n]
  BY DEF dt_find
<1>9. at \in [0..n -> Places]
  <2>1. at = [i \in 0..n |-> at[i]]
    <3> HIDE DEF at
    <3> QED
      BY <1>5
  <2> HIDE DEF at, Places
  <2> QED
    BY <1>7, <2>1
<1> HIDE DEF at
<1> QED
  BY <1>6, <1>8, <1>9 DEF Walk

\* A path means nodes or none, whatever the names are taken for.
LEMMA FindsNode ==
  ASSUME NEW path \in Path
  PROVE  dt_find(path) \subseteq Node \cup {NULL}
<1>1. PICK at : Walk(at, path) /\ dt_find(path) = at[Len(path)]
  BY Finding
<1>2. Len(path) \in 0..Len(path)
  BY ToolsAssumption
<1> QED
  BY <1>1, <1>2 DEF Walk, Found

-----------------------------------------------------------------------------
(***************************************************************************)
(* The nodes that a path spells, segment by segment, and the walk.         *)
(***************************************************************************)
Leads(on, path, i) ==
  /\ on[0] = Root
  /\ \A j \in 1..i :
       /\ path[j] \in node_name(on[j])
       /\ \E k \in DOMAIN Kids[on[j - 1]] : Kids[on[j - 1]][k] = on[j]
UpTo(path, i) == {n \in Node : \E on \in [0..i -> Node] : Leads(on, path, i) /\ on[i] = n}
Named(n, seg) == {c \in Node : seg \in node_name(c) /\ \E k \in DOMAIN Kids[n] : Kids[n][k] = c}
Single(s) == \A c, d \in s : c = d
OrNone(s) == IF s = {} THEN {NULL} ELSE s

LEMMA UpToStarts ==
  ASSUME NEW path PROVE UpTo(path, 0) = {Root}
<1>1. Root \in Node /\ 1..0 = {} /\ 0 \in 0..0
  BY ToolsAssumption
<1>2. Root \in UpTo(path, 0)
  <2> DEFINE on == [j \in 0..0 |-> Root]
  <2>1. on \in [0..0 -> Node] /\ on[0] = Root
    BY <1>1
  <2> HIDE DEF on
  <2> QED
    BY <1>1, <2>1 DEF UpTo, Leads
<1> QED
  BY <1>2 DEF UpTo, Leads

LEMMA UpToGoesOn ==
  ASSUME NEW path, NEW i \in Nat, i > 0
  PROVE  /\ \A c \in UpTo(path, i) : \E m \in UpTo(path, i - 1) : c \in Named(m, path[i])
         /\ \A m \in UpTo(path, i - 1) : Named(m, path[i]) \subseteq UpTo(path, i)
<1>0. i - 1 \in Nat /\ i - 1 \in 0..i /\ i \in 0..i /\ i \in 1..i /\ i - 1 \in 0..(i - 1)
  OBVIOUS
<1>1. ASSUME NEW c \in UpTo(path, i)
      PROVE  \E m \in UpTo(path, i - 1) : c \in Named(m, path[i])
  <2>1. PICK on \in [0..i -> Node] : Leads(on, path, i) /\ on[i] = c
    BY DEF UpTo
  <2> DEFINE to == [j \in 0..(i - 1) |-> on[j]]
  <2>2. to \in [0..(i - 1) -> Node]
    BY <1>0
  <2>3. \A j \in 0..(i - 1) : to[j] = on[j]
    OBVIOUS
  <2> HIDE DEF to
  <2>4. Leads(to, path, i - 1)
    <3>1. \A j \in 1..(i - 1) : j \in 1..i /\ j \in 0..(i - 1) /\ j - 1 \in 0..(i - 1)
      BY <1>0
    <3> QED
      BY <1>0, <2>1, <2>3, <3>1 DEF Leads
  <2>5. to[i - 1] = on[i - 1] /\ on[i - 1] \in Node
    BY <1>0, <2>1, <2>3
  <2>6. on[i - 1] \in UpTo(path, i - 1)
    BY <2>2, <2>4, <2>5 DEF UpTo
  <2>7. c \in Named(on[i - 1], path[i])
    BY <1>0, <2>1 DEF Leads, Named
  <2> QED
    BY <2>6, <2>7
<1>2. ASSUME NEW m \in UpTo(path, i - 1), NEW c \in Named(m, path[i])
      PROVE  c \in UpTo(path, i)
  <2>1. PICK on \in [0..(i - 1) -> Node] : Leads(on, path, i - 1) /\ on[i - 1] = m
    BY DEF UpTo
  <2> DEFINE to == [j \in 0..i |-> IF j = i THEN c ELSE on[j]]
  <2>2. c \in Node
    BY DEF Named
  <2>3. \A j \in 0..i : j # i => j \in 0..(i - 1)
    BY <1>0
  <2>4. to \in [0..i -> Node]
    BY <2>1, <2>2, <2>3
  <2>5. to[i] = c /\ \A j \in 0..(i - 1) : to[j] = on[j]
    BY <1>0
  <2> HIDE DEF to
  <2>6. ASSUME NEW j \in 1..i
        PROVE  /\ path[j] \in node_name(to[j])
               /\ \E k \in DOMAIN Kids[to[j - 1]] : Kids[to[j - 1]][k] = to[j]
    <3>1. CASE j = i
      BY <1>0, <2>1, <2>5, <3>1 DEF Named
    <3>2. CASE j # i
      <4>1. j \in 1..(i - 1) /\ j \in 0..(i - 1) /\ j - 1 \in 0..(i - 1)
        BY <1>0, <3>2
      <4> QED
        BY <2>1, <2>5, <4>1 DEF Leads
    <3> QED
      BY <3>1, <3>2
  <2>7. Leads(to, path, i)
    BY <1>0, <2>1, <2>5, <2>6 DEF Leads
  <2> QED
    BY <2>2, <2>4, <2>5, <2>7 DEF UpTo
<1> QED
  BY <1>1, <1>2

\* One step of the search ends at a child taken for that name, or at none.
LEMMA DescendFinds ==
  ASSUME NEW n \in Node, NEW seg
  PROVE  /\ Descend(n, seg) \subseteq Named(n, seg) \cup {NULL}
         /\ ToldApart => Single(Named(n, seg)) /\ Descend(n, seg) = OrNone(Named(n, seg))
<1> DEFINE L == Len(Kids[n])
           Passed(i) == \A j \in DOMAIN Kids[n] : j < i => node_name(Kids[n][j]) # {seg}
<1>1. Kids[n] \in Seq(Node) /\ L \in Nat /\ DOMAIN Kids[n] = 1..L
  BY ToolsAssumption
<1>2. \A k \in 1..L : Kids[n][k] \in Node
  BY <1>1
<1>3. Descend(n, seg) =
        {Kids[n][i] : i \in {i \in 1..L : seg \in node_name(Kids[n][i]) /\ Passed(i)}}
          \cup (IF Passed(L + 1) THEN {NULL} ELSE {})
  BY <1>1 DEF Descend, Children
<1>4. Named(n, seg) = {Kids[n][k] : k \in {k \in 1..L : seg \in node_name(Kids[n][k])}}
  BY <1>1, <1>2 DEF Named
<1>5. Descend(n, seg) \subseteq Named(n, seg) \cup {NULL}
  BY <1>3, <1>4
<1>6. ASSUME ToldApart PROVE Single(Named(n, seg)) /\ Descend(n, seg) = OrNone(Named(n, seg))
  <2>1. \A j, k \in 1..L : \A s \in node_name(Kids[n][j]), t \in node_name(Kids[n][k]) :
          j = k <=> s = t
    BY <1>1, <1>6 DEF ToldApart
  <2>2. CASE \E k \in 1..L : seg \in node_name(Kids[n][k])
    <3>1. PICK k \in 1..L : seg \in node_name(Kids[n][k])
      BY <2>2
    <3>2. node_name(Kids[n][k]) = {seg}
      BY <2>1, <3>1
    <3>3. \A j \in 1..L : j # k => seg \notin node_name(Kids[n][j])
      BY <2>1, <3>1
    <3>4. Named(n, seg) = {Kids[n][k]}
      BY <1>4, <3>1, <3>3
    <3>5. Passed(k)
      BY <1>1, <3>3
    <3>6. ~Passed(L + 1)
      BY <1>1, <3>1, <3>2
    <3> HIDE DEF Passed
    <3>7. Descend(n, seg) = {Kids[n][k]}
      BY <1>3, <3>1, <3>3, <3>5, <3>6
    <3> QED
      BY <3>4, <3>7 DEF Single, OrNone
  <2>3. CASE \A k \in 1..L : seg \notin node_name(Kids[n][k])
    <3>1. Named(n, seg) = {}
      BY <1>4, <2>3
    <3>2. Passed(L + 1)
      BY <1>1, <2>3
    <3> HIDE DEF Passed
    <3>3. Descend(n, seg) = {NULL}
      BY <1>3, <2>3, <3>2
    <3> QED
      BY <3>1, <3>3 DEF Single, OrNone
  <2> QED
    BY <2>2, <2>3
<1> QED
  BY <1>5, <1>6

\* After i segments the walk is at nodes that they spell, or has found none.
AsSpelled(at, path, i) ==
  /\ at[i] \subseteq UpTo(path, i) \cup {NULL}
  /\ ToldApart => Single(UpTo(path, i)) /\ at[i] = OrNone(UpTo(path, i))

LEMMA WalkGoesOn ==
  ASSUME NEW path, NEW at, NEW i \in Nat, i > 0, AsSpelled(at, path, i - 1),
         at[i] = Onward(at[i - 1], path[i])
  PROVE  AsSpelled(at, path, i)
<1> DEFINE seg == path[i]
           old == UpTo(path, i - 1)
           new == UpTo(path, i)
<1>1. NULL \notin Node /\ old \subseteq Node /\ new \subseteq Node
  BY ToolsAssumption DEF UpTo
<1>2. /\ \A c \in new : \E m \in old : c \in Named(m, seg)
      /\ \A m \in old : Named(m, seg) \subseteq new
  BY UpToGoesOn
<1>3. \A m \in Node :
        /\ Descend(m, seg) \subseteq Named(m, seg) \cup {NULL}
        /\ ToldApart => Single(Named(m, seg)) /\ Descend(m, seg) = OrNone(Named(m, seg))
  BY DescendFinds
<1>4. at[i - 1] \subseteq old \cup {NULL}
  BY DEF AsSpelled
<1>5. ToldApart => Single(old) /\ at[i - 1] = OrNone(old)
  BY DEF AsSpelled
<1> HIDE DEF seg, old, new
<1>6. Onward(at[i - 1], seg) \subseteq new \cup {NULL}
  BY <1>1, <1>2, <1>3, <1>4 DEF Onward
<1>7. ASSUME ToldApart PROVE Single(new) /\ Onward(at[i - 1], seg) = OrNone(new)
  <2>1. CASE old = {}
    <3>1. at[i - 1] = {NULL} /\ new = {}
      BY <1>2, <1>5, <1>7, <2>1 DEF OrNone
    <3>2. Onward({NULL}, seg) = {NULL}
      BY DEF Onward
    <3> QED
      BY <3>1, <3>2 DEF Single, OrNone
  <2>2. CASE old # {}
    <3>1. PICK m \in old : old = {m} /\ at[i - 1] = {m} /\ m \in Node /\ m # NULL
      BY <1>1, <1>5, <1>7, <2>2 DEF Single, OrNone
    <3>2. new = Named(m, seg)
      BY <1>2, <3>1
    <3>3. Onward({m}, seg) = Descend(m, seg)
      BY <3>1 DEF Onward
    <3> QED
      BY <1>3, <1>7, <3>1, <3>2, <3>3
  <2> QED
    BY <2>1, <2>2
<1> QED
  BY <1>6, <1>7 DEF AsSpelled, seg, new

\* dt_find yields a node that the path spells or none, and where names are told apart the
\* one that it spells whenever there is one (apple_dt.c:123-139).
THEOREM ToolsPathMeansNode == Spec => []PathMeansNode
<1>1. ASSUME NEW path \in Path
      PROVE  /\ dt_find(path) \subseteq Spelled(path) \cup {NULL}
             /\ ToldApart => dt_find(path) = OrNone(Spelled(path))
  <2>1. PICK at : Walk(at, path) /\ dt_find(path) = at[Len(path)]
    BY Finding
  <2>2. Len(path) \in Nat
    BY ToolsAssumption
  <2> DEFINE Good == {i \in 0..Len(path) : AsSpelled(at, path, i)}
  <2>3. 0 \in Good
    <3>1. AsSpelled(at, path, 0)
      BY <2>1, UpToStarts DEF AsSpelled, Walk, Single, OrNone
    <3> QED
      BY <2>2, <3>1
  <2>4. ASSUME NEW i \in 1..Len(path), i - 1 \in Good PROVE i \in Good
    <3>1. i \in Nat /\ i > 0 /\ i \in 0..Len(path)
      BY <2>2
    <3>2. at[i] = Onward(at[i - 1], path[i])
      BY <2>1 DEF Walk
    <3>3. AsSpelled(at, path, i - 1)
      BY <2>4
    <3> QED
      BY <3>1, <3>2, <3>3, WalkGoesOn
  <2> HIDE DEF Good
  <2>5. 0..Len(path) \subseteq Good
    BY <2>2, <2>3, <2>4, Induction
  <2>6. AsSpelled(at, path, Len(path))
    BY <2>2, <2>5 DEF Good
  <2>7. UpTo(path, Len(path)) = Spelled(path)
    BY DEF UpTo, Leads, Spelled
  <2> QED
    BY <2>1, <2>6, <2>7 DEF AsSpelled
<1>2. PathMeansNode
  BY <1>1 DEF PathMeansNode, OrNone
<1> QED
  BY <1>2, PTL

-----------------------------------------------------------------------------
(***************************************************************************)
(* What an edit makes of the entries of one node.                          *)
(***************************************************************************)
Entries == Seq(Store!Entry)
Distinct(s) == \A i, j \in DOMAIN s : s[i].name = s[j].name => i = j
Has(s, nm, v) == \E i \in DOMAIN s : s[i].name = nm /\ s[i].val = v
Says(s, nm) ==
  LET hits == {i \in DOMAIN s : s[i].name = nm} IN
  IF hits = {} THEN Absent ELSE s[First(hits)].val

\* t says x of nm, what s says of every other name, and repeats none that s does not.
EditOf(s, t, nm, x) ==
  Distinct(s) =>
    /\ Distinct(t)
    /\ Says(t, nm) = x
    /\ \A m \in Name \ {nm} : Says(t, m) = Says(s, m)

\* No name is cut to the 32 bytes of its field.
NamesFit == \A nm \in Name : Stored[nm] = nm

LEMMA EntryParts ==
  ASSUME NEW s \in Entries, NEW i \in DOMAIN s
  PROVE  /\ i \in Nat /\ i \in 1..Len(s) /\ Len(s) \in Nat
         /\ s[i] \in Store!Entry
         /\ s[i].name \in Name /\ s[i].val \in Val /\ s[i].flag \in BOOLEAN
<1>1. s \in Seq(Store!Entry)
  BY DEF Entries
<1>2. Len(s) \in Nat /\ i \in 1..Len(s) /\ s[i] \in Store!Entry
  BY <1>1
<1> QED
  BY <1>2 DEF Store!Entry

LEMMA SaysHas ==
  ASSUME NEW s \in Entries, Distinct(s), NEW nm, NEW v, Has(s, nm, v)
  PROVE  Says(s, nm) = v
<1> DEFINE hits == {i \in DOMAIN s : s[i].name = nm}
<1>1. PICK i \in DOMAIN s : s[i].name = nm /\ s[i].val = v
  BY DEF Has
<1>2. hits = {i}
  BY <1>1 DEF Distinct
<1>3. First(hits) = i
  BY <1>1, <1>2, EntryParts DEF First
<1> QED
  BY <1>1, <1>2, <1>3 DEF Says

LEMMA SaysAbsent ==
  ASSUME NEW s \in Entries, NEW nm, \A v : ~Has(s, nm, v)
  PROVE  Says(s, nm) = Absent
BY DEF Says, Has

LEMMA SaysSame ==
  ASSUME NEW s \in Entries, NEW t \in Entries, Distinct(s), Distinct(t), NEW nm,
         \A v : Has(s, nm, v) <=> Has(t, nm, v)
  PROVE  Says(t, nm) = Says(s, nm)
<1>1. CASE \E v : Has(s, nm, v)
  BY <1>1, SaysHas
<1>2. CASE \A v : ~Has(s, nm, v)
  <2>1. \A v : ~Has(t, nm, v)
    BY <1>2
  <2> QED
    BY <1>2, <2>1, SaysAbsent
<1> QED
  BY <1>1, <1>2

\* dt_set_prop: the bytes of the entry found.
LEMMA SetEdits ==
  ASSUME NEW s \in Entries, NEW i \in DOMAIN s, NEW v \in Val
  PROVE  LET t == [s EXCEPT ![i] = [s[i] EXCEPT !.val = v]]
         IN  t \in Entries /\ EditOf(s, t, s[i].name, v)
<1> DEFINE t == [s EXCEPT ![i] = [s[i] EXCEPT !.val = v]]
<1>1. [s[i] EXCEPT !.val = v] \in Store!Entry
  BY EntryParts DEF Store!Entry
<1>2. t \in Entries /\ DOMAIN t = DOMAIN s
  BY <1>1 DEF Entries
<1>3. \A j \in DOMAIN s : t[j].name = s[j].name /\ (j # i => t[j].val = s[j].val)
  BY EntryParts DEF Store!Entry
<1>4. t[i].val = v
  BY EntryParts DEF Store!Entry
<1> HIDE DEF t
<1>5. ASSUME Distinct(s) PROVE Distinct(t)
  BY <1>2, <1>3, <1>5 DEF Distinct
<1>6. Has(t, s[i].name, v)
  BY <1>2, <1>3, <1>4 DEF Has
<1>7. ASSUME NEW m \in Name \ {s[i].name}, NEW w PROVE Has(s, m, w) <=> Has(t, m, w)
  BY <1>2, <1>3 DEF Has
<1>8. EditOf(s, t, s[i].name, v)
  BY <1>2, <1>5, <1>6, <1>7, SaysHas, SaysSame DEF EditOf
<1> QED
  BY <1>2, <1>8 DEF t

\* dt_add_prop after a lookup that found nothing.
LEMMA AddEdits ==
  ASSUME NEW s \in Entries, NEW nm \in Name, NEW v \in Val,
         \A i \in DOMAIN s : s[i].name # nm
  PROVE  LET t == Append(s, [name |-> Stored[nm], val |-> v, flag |-> FALSE])
         IN  t \in Entries /\ (NamesFit => EditOf(s, t, nm, v))
<1> DEFINE e == [name |-> Stored[nm], val |-> v, flag |-> FALSE]
           t == Append(s, e)
           k == Len(s) + 1
<1>1. e \in Store!Entry
  BY ToolsAssumption DEF Store!Entry
<1> HIDE DEF e
<1>2. t \in Entries /\ DOMAIN t = DOMAIN s \cup {k} /\ k \notin DOMAIN s
  BY <1>1 DEF Entries
<1>3. t[k] = e /\ \A j \in DOMAIN s : t[j] = s[j]
  BY <1>1 DEF Entries
<1>4. ASSUME NamesFit, Distinct(s)
      PROVE  /\ Distinct(t) /\ Says(t, nm) = v
             /\ \A m \in Name \ {nm} : Says(t, m) = Says(s, m)
  <2> HIDE DEF t, k
  <2>0. e.name = nm /\ e.val = v
    BY <1>4 DEF e, NamesFit
  <2>1. Distinct(t)
    BY <1>2, <1>3, <1>4, <2>0 DEF Distinct
  <2>2. Has(t, nm, v)
    BY <1>2, <1>3, <2>0 DEF Has
  <2>3. ASSUME NEW m \in Name \ {nm}, NEW w PROVE Has(s, m, w) <=> Has(t, m, w)
    BY <1>2, <1>3, <2>0 DEF Has
  <2> QED
    BY <1>2, <1>4, <2>1, <2>2, <2>3, SaysHas, SaysSame
<1> QED
  BY <1>2, <1>4 DEF EditOf, e

\* dt_delete_prop.
LEMMA DeleteEdits ==
  ASSUME NEW s \in Entries, NEW i \in DOMAIN s
  PROVE  LET t == Store!Without(s, i)
         IN  t \in Entries /\ EditOf(s, t, s[i].name, Absent)
<1> DEFINE t == Store!Without(s, i)
           old(j) == IF j < i THEN j ELSE j + 1
<1>1. Len(s) \in Nat /\ Len(s) - 1 \in Nat /\ DOMAIN s = 1..Len(s) /\ i \in 1..Len(s)
  BY DEF Entries
<1>2. \A j \in 1..(Len(s) - 1) : old(j) \in DOMAIN s /\ old(j) # i /\ t[j] = s[old(j)]
  BY <1>1 DEF Store!Without
<1>3. t \in Entries /\ DOMAIN t = 1..(Len(s) - 1)
  BY <1>1, <1>2, EntryParts DEF Store!Without, Entries
<1>4. \A j, k \in DOMAIN t : old(j) = old(k) => j = k
  BY <1>1, <1>3
<1>5. \A k \in DOMAIN s : k # i => \E j \in DOMAIN t : old(j) = k
  <2> SUFFICES ASSUME NEW k \in DOMAIN s, k # i PROVE \E j \in DOMAIN t : old(j) = k
    OBVIOUS
  <2>1. CASE k < i
    BY <1>1, <1>3, <2>1
  <2>2. CASE k > i
    <3>1. k - 1 \in DOMAIN t /\ old(k - 1) = k
      BY <1>1, <1>3, <2>2
    <3> QED
      BY <3>1
  <2> QED
    BY <1>1, <2>1, <2>2
<1>6. ASSUME Distinct(s)
      PROVE  /\ Distinct(t) /\ Says(t, s[i].name) = Absent
             /\ \A m \in Name \ {s[i].name} : Says(t, m) = Says(s, m)
  <2> HIDE DEF t, old
  <2>1. Distinct(t)
    BY <1>2, <1>3, <1>4, <1>6 DEF Distinct
  <2>2. \A v : ~Has(t, s[i].name, v)
    BY <1>2, <1>3, <1>6 DEF Has, Distinct
  <2>3. ASSUME NEW m \in Name \ {s[i].name}, NEW w PROVE Has(s, m, w) <=> Has(t, m, w)
    BY <1>2, <1>3, <1>5 DEF Has
  <2> QED
    BY <1>3, <1>6, <2>1, <2>2, <2>3, SaysAbsent, SaysSame
<1> QED
  BY <1>3, <1>6 DEF EditOf

\* An edit of nm at node n that leaves it as x, on the tree and in what is asked of it.
Edited(n, nm, x) ==
  /\ \E t \in Entries : /\ store' = [store EXCEPT ![n] = t]
                        /\ NamesFit => EditOf(store[n], t, nm, x)
  /\ x \in Val \cup {Absent}
  /\ asked' = [asked EXCEPT ![n][nm] = x]
  /\ UNCHANGED open

LEMMA SetIsEdit ==
  ASSUME NEW n \in Node, NEW nm \in Name, NEW v \in Val, store \in [Node -> Entries],
         Set(n, nm, v)
  PROVE  Edited(n, nm, v)
<1>1. store[n] \in Entries
  OBVIOUS
<1>2. CASE Store!Hit(n, nm) # {}
  <2>1. PICK i \in DOMAIN store[n] :
          /\ store[n][i].name = nm
          /\ store' = [store EXCEPT ![n] =
                         [store[n] EXCEPT ![i] = [store[n][i] EXCEPT !.val = v]]]
    BY <1>2 DEF Set, Upserted, Store!Upsert, Store!Set, Store!IsFirst, Store!Hit
  <2> QED
    BY <1>1, <2>1, SetEdits DEF Edited, Set, Asked
<1>3. CASE Store!Hit(n, nm) = {}
  <2>1. store' = [store EXCEPT ![n] =
                    Append(store[n], [name |-> Stored[nm], val |-> v, flag |-> FALSE])]
    BY <1>3 DEF Set, Upserted, Store!Upsert, Store!Add
  <2>2. \A i \in DOMAIN store[n] : store[n][i].name # nm
    BY <1>3 DEF Store!Hit
  <2> QED
    BY <1>1, <2>1, <2>2, AddEdits DEF Edited, Set, Asked
<1> QED
  BY <1>2, <1>3

LEMMA DeleteIsEdit ==
  ASSUME NEW n \in Node, NEW nm \in Name, store \in [Node -> Entries], Delete(n, nm)
  PROVE  Edited(n, nm, Absent)
<1>1. PICK i \in DOMAIN store[n] :
        store[n][i].name = nm /\ store' = [store EXCEPT ![n] = Store!Without(store[n], i)]
  BY DEF Delete, Store!Delete, Store!IsFirst, Store!Hit
<1>2. store[n] \in Entries
  OBVIOUS
<1> QED
  BY <1>1, <1>2, DeleteEdits DEF Edited, Delete, Asked

\* What the steps that edit do to the tree.
LEMMA PatchEdits ==
  ASSUME store \in [Node -> Entries], Patch, pc' = "write"
  PROVE  \E n \in Node, nm \in Name, x \in Val : Edited(n, nm, x) /\ applied' = 1
<1>1. PICK path \in Path, nm \in Name, v \in Str :
        applied' = 1 /\ \E n \in dt_find(path) \ {NULL} : Set(n, nm, v)
  BY DEF Patch, Goto
<1>2. PICK n \in dt_find(path) \ {NULL} : Set(n, nm, v)
  BY <1>1
<1>3. n \in Node /\ v \in Val
  BY FindsNode, ToolsAssumption
<1> QED
  BY <1>1, <1>2, <1>3, SetIsEdit

LEMMA ApplyEdits ==
  ASSUME store \in [Node -> Entries], Apply
  PROVE  \E n \in Node, nm \in Name, x \in Val \cup {Absent} : Edited(n, nm, x)
<1>1. PICK path \in Path, nm \in Name : \E n \in dt_find(path) \ {NULL} :
        Delete(n, nm) \/ \E v \in Val : Set(n, nm, v)
  BY DEF Apply
<1>2. PICK n \in dt_find(path) \ {NULL} : Delete(n, nm) \/ \E v \in Val : Set(n, nm, v)
  BY <1>1
<1>3. n \in Node
  BY FindsNode
<1> QED
  BY <1>2, <1>3, SetIsEdit, DeleteIsEdit

-----------------------------------------------------------------------------
(***************************************************************************)
(* Types. A run makes at most as many changes of applied and failed as its *)
(* patch file has pieces, and one more when dt_write fails.                *)
(***************************************************************************)
TreesTyped ==
  /\ store \in [Node -> Seq(Store!Entry)] /\ written \in [Node -> Seq(Store!Entry)]
  /\ asked \in [Node -> [Name -> Val \cup {Absent}]]

ProcessTyped ==
  /\ tool \in Tools
  /\ pc \in {"slurp", "parse", "ready", "lines", "write", "fwrite", "cleanup", "free",
           "nopatches", "nopatches_free", "exit", "dead"}
  /\ buf \in BOOLEAN /\ pf \in BOOLEAN /\ open \in BOOLEAN /\ saved \in BOOLEAN
  /\ disk \in {"old", "torn", "whole"}
  /\ status \in {-1, 0, 1, 2, 128}

Counted ==
  /\ left \in 0..MaxLines /\ applied \in Nat /\ failed \in Nat
  /\ applied <= MaxLines + 1 /\ failed <= MaxLines + 1
  /\ pc \in {"slurp", "parse", "ready"} => applied = 0 /\ failed = 0
  /\ tool = "dt-apply" /\ pc \in {"lines", "write", "fwrite"} =>
       applied + failed + left <= MaxLines
  /\ tool # "dt-apply" => applied <= 1 /\ failed = 0
  /\ pc = "lines" => tool = "dt-apply"

TypeInv == TreesTyped /\ ProcessTyped /\ Counted

LEMMA MeaningType ==
  ASSUME NEW st \in [Node -> Seq(Store!Entry)]
  PROVE  Meaning(st) \in [Node -> [Name -> Val \cup {Absent}]]
<1> SUFFICES ASSUME NEW n \in Node, NEW nm \in Name
             PROVE  Meaning(st)[n][nm] \in Val \cup {Absent}
  BY DEF Meaning
<1> DEFINE hits == {i \in DOMAIN st[n] : st[n][i].name = nm}
<1>1. st[n] \in Entries
  BY DEF Entries
<1>2. CASE hits = {}
  BY <1>2 DEF Meaning
<1>3. CASE hits # {}
  <2>1. hits \in SUBSET Nat
    BY <1>1, EntryParts
  <2>2. First(hits) \in hits
    <3> HIDE DEF hits
    <3> QED
      BY <1>3, <2>1, Smallest DEF First
  <2>3. st[n][First(hits)].val \in Val
    BY <1>1, <2>2, EntryParts
  <2> QED
    BY <1>3, <2>3 DEF Meaning
<1> QED
  BY <1>2, <1>3

LEMMA EmptyType == Empty \in [Node -> Seq(Store!Entry)]
BY DEF Empty

LEMMA TypesStart == Init => TypeInv
<1> SUFFICES ASSUME Init PROVE TypeInv
  OBVIOUS
<1> USE DEF Init
<1>1. TreesTyped
  BY EmptyType, MeaningType DEF TreesTyped
<1>2. ProcessTyped
  BY DEF ProcessTyped
<1>3. Counted
  BY ToolsAssumption DEF Counted
<1> QED
  BY <1>1, <1>2, <1>3 DEF TypeInv

\* An edit keeps the types.
LEMMA EditType ==
  ASSUME TreesTyped, NEW n \in Node, NEW nm \in Name, NEW x, Edited(n, nm, x)
  PROVE  /\ store' \in [Node -> Seq(Store!Entry)]
         /\ asked' \in [Node -> [Name -> Val \cup {Absent}]]
<1>1. \E t \in Entries : store' = [store EXCEPT ![n] = t]
  BY DEF Edited
<1>2. store' \in [Node -> Seq(Store!Entry)]
  BY <1>1 DEF TreesTyped, Entries
<1>3. asked' \in [Node -> [Name -> Val \cup {Absent}]]
  BY DEF TreesTyped, Edited
<1> QED
  BY <1>2, <1>3

LEMMA TreesStep ==
  ASSUME TreesTyped, Next
  PROVE  TreesTyped'
<1> USE DEF tree, output
<1>1. CASE dt_parse
  <2>1. CASE UNCHANGED tree
    BY <1>1, <2>1 DEF dt_parse, TreesTyped
  <2>2. ASSUME NEW t \in Trees, store' = t, asked' = Meaning(t) PROVE TreesTyped'
    <3>1. t \in [Node -> Seq(Store!Entry)]
      BY ToolsAssumption
    <3>2. asked' \in [Node -> [Name -> Val \cup {Absent}]]
      BY <2>2, <3>1, MeaningType
    <3> QED
      BY <1>1, <2>2, <3>1, <3>2 DEF dt_parse, TreesTyped
  <2> QED
    BY <1>1, <2>1, <2>2 DEF dt_parse
<1>2. CASE Patch
  <2>1. CASE UNCHANGED tree
    BY <1>2, <2>1 DEF Patch, TreesTyped
  <2>2. CASE pc' = "write"
    <3>1. PICK n \in Node, nm \in Name, x \in Val : Edited(n, nm, x) /\ applied' = 1
      BY <1>2, <2>2, PatchEdits DEF Entries, TreesTyped
    <3>2. store' \in [Node -> Seq(Store!Entry)] /\ asked' \in [Node -> [Name -> Val \cup {Absent}]]
      BY <3>1, EditType
    <3> QED
      BY <1>2, <3>2 DEF Patch, TreesTyped
  <2> QED
    BY <1>2, <2>1, <2>2 DEF Patch, Goto
<1>3. CASE Apply
  <2>1. PICK n \in Node, nm \in Name, x \in Val \cup {Absent} : Edited(n, nm, x)
    BY <1>3, ApplyEdits DEF Entries, TreesTyped
  <2>2. store' \in [Node -> Seq(Store!Entry)] /\ asked' \in [Node -> [Name -> Val \cup {Absent}]]
    BY <2>1, EditType
  <2> QED
    BY <1>3, <2>2 DEF Apply, TreesTyped
<1>4. CASE OpenPatches
  BY <1>4 DEF OpenPatches, TreesTyped
<1>5. CASE FreeTree
  <2>1. store' = Empty /\ asked' = asked /\ written' = written
    BY <1>5 DEF FreeTree, TreeFirst, Store!Release, Empty
  <2> QED
    BY <2>1, EmptyType DEF TreesTyped
<1>6. CASE OpenOutput
  BY <1>6 DEF OpenOutput, WriteFailed, TreesTyped
<1>7. CASE UNCHANGED <<store, asked, written>>
  BY <1>7 DEF TreesTyped
<1> QED
  BY <1>1, <1>2, <1>3, <1>4, <1>5, <1>6, <1>7 DEF Next, Step, slurp, Dump, Skip, Reject,
     NoMemory, EndOfPatches, fwrite, FreeBuffer, Kill

LEMMA ProcessStep ==
  ASSUME ProcessTyped, Next
  PROVE  ProcessTyped'
<1> USE DEF ProcessTyped, resources, tree, output, Exit, Goto
<1>1. CASE slurp
  <2>1. /\ pc' \in {"exit", "parse"} /\ status' \in {1, 2, status} /\ buf' \in BOOLEAN
        /\ tool' = tool /\ pf' = pf /\ open' = open /\ disk' = disk /\ saved' = saved
    BY <1>1 DEF slurp, Usage, Unreadable, ReadWhole
  <2> QED
    BY <2>1
<1>2. CASE dt_parse
  BY <1>2, ZenonT(40) DEF dt_parse
<1>3. CASE Dump
  BY <1>3 DEF Dump
<1>4. CASE Patch
  BY <1>4 DEF Patch, Set
<1>5. CASE OpenPatches
  BY <1>5, ZenonT(40) DEF OpenPatches
<1>6. CASE Skip
  BY <1>6 DEF Skip
<1>7. CASE Apply
  BY <1>7 DEF Apply, Set, Delete
<1>8. CASE Reject
  BY <1>8 DEF Reject
<1>9. CASE NoMemory
  BY <1>9 DEF NoMemory
<1>10. CASE EndOfPatches
  BY <1>10 DEF EndOfPatches
<1>11. CASE OpenOutput
  <2>1. /\ pc' \in {"cleanup", "fwrite"} /\ status' = status /\ disk' \in {disk, "torn"}
        /\ saved' \in BOOLEAN
        /\ tool' = tool /\ buf' = buf /\ pf' = pf /\ open' = open
    BY <1>11 DEF OpenOutput, WriteFailed
  <2> QED
    BY <2>1
<1>12. CASE fwrite
  BY <1>12 DEF fwrite, WriteFailed
<1>13. CASE FreeTree
  <2>1. /\ pc' \in {"free", "nopatches_free"} /\ status' = status /\ open' = FALSE
        /\ tool' = tool /\ buf' = buf /\ pf' = pf /\ disk' = disk /\ saved' = saved
    BY <1>13 DEF FreeTree, TreeFirst, Store!Release
  <2> QED
    BY <2>1
<1>14. CASE FreeBuffer
  <2>1. /\ pc' = "exit" /\ status' \in {0, 1} /\ buf' = FALSE
        /\ tool' = tool /\ open' = open /\ pf' = pf /\ disk' = disk /\ saved' = saved
    BY <1>14, ToolsAssumption DEF FreeBuffer, ExitCode
  <2> QED
    BY <2>1
<1>15. CASE Kill
  BY <1>15 DEF Kill
<1> QED
  BY <1>1, <1>2, <1>3, <1>4, <1>5, <1>6, <1>7, <1>8, <1>9, <1>10, <1>11, <1>12, <1>13,
     <1>14, <1>15 DEF Next, Step

LEMMA CountedStep ==
  ASSUME Counted, Next
  PROVE  Counted'
<1>0. MaxLines \in Nat
  BY ToolsAssumption
<1> USE <1>0
<1> USE DEF Counted, counts, Exit, Goto
<1>1. CASE slurp
  BY <1>1 DEF slurp, Usage, Unreadable, ReadWhole
<1>2. CASE dt_parse
  BY <1>2 DEF dt_parse
<1>3. CASE Dump
  BY <1>3 DEF Dump
<1>4. CASE Patch
  BY <1>4 DEF Patch
<1>5. CASE OpenPatches
  BY <1>5 DEF OpenPatches
<1>6. CASE Skip \/ Apply \/ Reject \/ NoMemory
  BY <1>6 DEF Skip, Apply, Reject, NoMemory, ReadPiece
<1>7. CASE EndOfPatches
  BY <1>7 DEF EndOfPatches
<1>8. CASE OpenOutput
  BY <1>8 DEF OpenOutput, WriteFailed
<1>9. CASE fwrite
  BY <1>9 DEF fwrite, WriteFailed
<1>10. CASE FreeTree \/ FreeBuffer
  BY <1>10 DEF FreeTree, FreeBuffer
<1>11. CASE Kill
  BY <1>11 DEF Kill
<1> QED
  BY <1>1, <1>2, <1>3, <1>4, <1>5, <1>6, <1>7, <1>8, <1>9, <1>10, <1>11 DEF Next, Step

LEMMA TypesStep == TypeInv /\ [Next]_vars => TypeInv'
<1>1. CASE Next
  BY <1>1, TreesStep, ProcessStep, CountedStep DEF TypeInv
<1>2. CASE UNCHANGED vars
  BY <1>2 DEF vars, resources, tree, counts, output, TypeInv, TreesTyped, ProcessTyped, Counted
<1> QED
  BY <1>1, <1>2

LEMMA Types == Spec => []TypeInv
BY TypesStart, TypesStep, PTL DEF Spec

\* Every variable keeps its type, for any tools, trees, patch file and names.
THEOREM ToolsTypeCorrect == Spec => []TypeOK
<1>1. TypeInv => TypeOK
  BY ToolsAssumption DEF TypeInv, TreesTyped, ProcessTyped, Counted, TypeOK
<1> QED
  BY <1>1, Types, PTL

-----------------------------------------------------------------------------
(***************************************************************************)
(* What is held at each point of a run.                                    *)
(***************************************************************************)
Held ==
  /\ open => buf
  /\ pc = "parse" => buf
  /\ pc \in {"slurp", "exit"} => ~buf
  /\ pc \in {"slurp", "parse", "free", "nopatches_free", "exit"} => ~open
  /\ pf => pc \in {"lines", "dead"}

LEMMA HeldStart == Init => Held
BY DEF Init, Held

LEMMA HeldStep == TypeInv /\ Held /\ [Next]_vars => Held'
<1> SUFFICES ASSUME TypeInv, Held, [Next]_vars PROVE Held'
  OBVIOUS
<1>0. buf \in BOOLEAN /\ pf \in BOOLEAN /\ open \in BOOLEAN
  BY DEF TypeInv, ProcessTyped
<1> USE <1>0 DEF Held, resources, tree, Exit, Goto
<1>1. CASE slurp
  BY <1>1 DEF slurp, Usage, Unreadable, ReadWhole
<1>2. CASE dt_parse
  <2>1. pc = "parse" /\ pf' = pf
    BY <1>2 DEF dt_parse
  <2>2. ~pf /\ buf /\ ~open
    BY <2>1
  <2>3. \/ pc' = "exit" /\ ~buf' /\ ~open'
        \/ pc' = "ready" /\ open' /\ buf'
    BY <1>2, <2>2 DEF dt_parse
  <2> QED
    BY <2>1, <2>2, <2>3
<1>3. CASE Dump
  BY <1>3 DEF Dump
<1>4. CASE Patch
  BY <1>4 DEF Patch, Set
<1>5. CASE OpenPatches
  BY <1>5 DEF OpenPatches
<1>6. CASE Skip \/ Reject
  BY <1>6 DEF Skip, Reject
<1>7. CASE Apply
  BY <1>7 DEF Apply, Set, Delete, ReadPiece
<1>8. CASE NoMemory \/ Kill
  BY <1>8 DEF NoMemory, Kill
<1>9. CASE EndOfPatches
  BY <1>9 DEF EndOfPatches
<1>10. CASE OpenOutput \/ fwrite
  BY <1>10 DEF OpenOutput, fwrite
<1>11. CASE FreeTree
  BY <1>11 DEF FreeTree, TreeFirst, Store!Release
<1>12. CASE FreeBuffer
  BY <1>12 DEF FreeBuffer
<1>13. CASE UNCHANGED vars
  BY <1>13 DEF vars
<1> QED
  BY <1>1, <1>2, <1>3, <1>4, <1>5, <1>6, <1>7, <1>8, <1>9, <1>10, <1>11, <1>12, <1>13
     DEF Next, Step

\* Whichever call fails, a tool that exits has given back the buffer, the tree and the
\* patch file, and the buffer is there as long as the tree that points into it
\* (main.c:14-62, dt_patch.c:26-111, dt_apply.c:117-174).
THEOREM ToolsCleanExit == Spec => []CleanExit
<1>1. Held => CleanExit
  BY DEF Held, CleanExit
<1>2. Held /\ TypeInv /\ [Next]_vars => Held'
  BY HeldStep
<1> QED
  BY <1>1, <1>2, HeldStart, Types, PTL DEF Spec

-----------------------------------------------------------------------------
(***************************************************************************)
(* What the exit status tells of the output, when the flush of fclose does *)
(* not fail.                                                               *)
(***************************************************************************)
Before == {"slurp", "parse", "ready", "lines", "write"}

Told ==
  /\ ~FlushFails
  /\ (status = -1) <=> (pc \notin {"exit", "dead"})
  /\ (status = 128) <=> (pc = "dead")
  /\ pc \in Before \cup {"nopatches", "nopatches_free"} => disk = "old"
  /\ pc \in {"nopatches", "nopatches_free"} => tool = "dt-apply" /\ applied = 0
  /\ pc = "fwrite" => disk = "torn"
  /\ pc \in {"write", "fwrite"} => tool # "dt-parse" /\ applied > 0
  /\ tool = "dt-parse" => disk = "old" /\ applied = 0
  /\ pc \in {"cleanup", "free", "exit"} =>
       /\ disk = "whole" => applied > 0
       /\ disk = "old" => applied = 0 \/ (tool = "dt-apply" /\ failed > 0)
       /\ disk = "torn" => (IF tool = "dt-apply" THEN failed > 0 ELSE applied = 0)
  /\ pc = "exit" =>
       /\ tool = "dt-apply" /\ status = 0 => failed = 0
       /\ tool = "dt-patch" => (status = 0 <=> (applied > 0))

LEMMA ToldStart == ~FlushFails /\ Init => Told
BY DEF Init, Told, Before

LEMMA ToldStep == TypeInv /\ Told /\ [Next]_vars => Told'
<1> SUFFICES ASSUME TypeInv, Told, [Next]_vars PROVE Told'
  OBVIOUS
<1>0. /\ saved \in BOOLEAN /\ applied \in Nat /\ failed \in Nat
      /\ tool \in {"dt-parse", "dt-patch", "dt-apply"}
      /\ pc \in {"slurp", "parse", "ready"} => applied = 0 /\ failed = 0
      /\ tool # "dt-apply" => applied <= 1 /\ failed = 0
      /\ pc = "lines" => tool = "dt-apply"
  BY ToolsAssumption DEF TypeInv, ProcessTyped, Counted
<1> USE <1>0 DEF Told, Before, counts, output, Exit, Goto
<1>1. CASE slurp
  BY <1>1 DEF slurp, Usage, Unreadable, ReadWhole
<1>2. CASE dt_parse
  BY <1>2 DEF dt_parse
<1>3. CASE Dump
  BY <1>3 DEF Dump
<1>4. CASE Patch
  BY <1>4 DEF Patch, Set
<1>5. CASE OpenPatches
  BY <1>5 DEF OpenPatches
<1>6. CASE Skip \/ Apply \/ Reject
  BY <1>6 DEF Skip, Apply, Reject, ReadPiece
<1>7. CASE NoMemory
  BY <1>7 DEF NoMemory, ReadPiece
<1>8. CASE Kill
  BY <1>8 DEF Kill
<1>9. CASE EndOfPatches
  BY <1>9 DEF EndOfPatches
<1>10. CASE OpenOutput
  BY <1>10 DEF OpenOutput, WriteFailed
<1>11. CASE fwrite
  BY <1>11 DEF fwrite, WriteFailed
<1>12. CASE FreeTree
  BY <1>12 DEF FreeTree
<1>13. CASE FreeBuffer
  BY <1>13 DEF FreeBuffer, ExitCode
<1>14. CASE UNCHANGED vars
  BY <1>14 DEF vars
<1> QED
  BY <1>1, <1>2, <1>3, <1>4, <1>5, <1>6, <1>7, <1>8, <1>9, <1>10, <1>11, <1>12, <1>13,
     <1>14 DEF Next, Step

LEMMA ToldAlways == ~FlushFails /\ Spec => []Told
<1>1. ~FlushFails /\ Init => Told
  BY ToldStart
<1>2. TypeInv /\ Told /\ [Next]_vars => Told'
  BY ToldStep
<1> QED
  BY <1>1, <1>2, Types, PTL DEF Spec

\* Exit status 0 means that no directive failed and that the output is the whole tree,
\* unless there was nothing to write; dt-patch exits with 0 exactly when the output is
\* whole (dt_patch.c:105, dt_apply.c:172, and run_lab.py:57, which goes by it).
THEOREM ToolsStatusTold == ~FlushFails /\ Spec => []StatusTold
<1>1. TypeInv /\ Told => StatusTold
  <2> SUFFICES ASSUME TypeInv, Told PROVE StatusTold
    OBVIOUS
  <2>1. /\ applied \in Nat /\ failed \in Nat
        /\ tool \in {"dt-parse", "dt-patch", "dt-apply"}
        /\ disk \in {"old", "torn", "whole"}
        /\ tool # "dt-apply" => applied <= 1 /\ failed = 0
    BY ToolsAssumption DEF TypeInv, ProcessTyped, Counted
  <2>2. CASE pc = "exit"
    BY <2>1, <2>2 DEF Told, StatusTold
  <2>3. CASE pc # "exit"
    <3>1. status = -1 \/ status = 128
      BY <2>1, <2>3 DEF Told
    <3> QED
      BY <3>1 DEF StatusTold
  <2> QED
    BY <2>2, <2>3
<1> QED
  BY <1>1, Types, ToldAlways, PTL

-----------------------------------------------------------------------------
(***************************************************************************)
(* What the tree says, from inputs that repeat no name in a node and with  *)
(* names that fit their field, at every step what was asked of it.         *)
(***************************************************************************)
TreesDistinct == \A t \in Trees, n \in Node : Distinct(t[n])

Wanted ==
  /\ NamesFit /\ TreesDistinct
  /\ \A n \in Node : Distinct(store[n])
  /\ open => Meaning(store) = asked
  /\ pc \in {"ready", "lines", "write", "fwrite"} => open
  /\ pc \in Before => disk = "old"
  /\ pc = "fwrite" => disk # "old"
  /\ disk # "old" => Meaning(written) = asked

LEMMA MeaningSays ==
  ASSUME NEW st, NEW n \in Node, NEW nm \in Name
  PROVE  Meaning(st)[n][nm] = Says(st[n], nm)
BY DEF Meaning, Says

LEMMA EditMeans ==
  ASSUME TreesTyped, NamesFit, \A k \in Node : Distinct(store[k]),
         NEW n \in Node, NEW nm \in Name, NEW x, Edited(n, nm, x)
  PROVE  /\ \A k \in Node : Distinct(store'[k])
         /\ Meaning(store') = [Meaning(store) EXCEPT ![n][nm] = x]
<1>1. PICK t \in Entries : store' = [store EXCEPT ![n] = t] /\ EditOf(store[n], t, nm, x)
  BY DEF Edited
<1>2. /\ store \in [Node -> Entries] /\ store' \in [Node -> Entries]
      /\ store'[n] = t /\ \A k \in Node \ {n} : store'[k] = store[k]
  BY <1>1 DEF TreesTyped, Entries
<1>3. /\ Distinct(t) /\ Says(t, nm) = x
      /\ \A m \in Name \ {nm} : Says(t, m) = Says(store[n], m)
  BY <1>1 DEF EditOf
<1>4. \A k \in Node : Distinct(store'[k])
  BY <1>2, <1>3
<1>5. /\ Meaning(store) \in [Node -> [Name -> Val \cup {Absent}]]
      /\ Meaning(store') \in [Node -> [Name -> Val \cup {Absent}]]
  BY <1>2, MeaningType DEF Entries
<1>6. ASSUME NEW k \in Node, NEW m \in Name
      PROVE  Meaning(store')[k][m] =
               IF k = n /\ m = nm THEN x ELSE Meaning(store)[k][m]
  <2>1. /\ Meaning(store')[k][m] = Says(store'[k], m)
        /\ Meaning(store)[k][m] = Says(store[k], m)
    BY MeaningSays
  <2> QED
    BY <1>2, <1>3, <2>1
<1>7. Meaning(store') = [Meaning(store) EXCEPT ![n][nm] = x]
  <2> DEFINE old == Meaning(store)
             new == Meaning(store')
  <2>1. /\ old \in [Node -> [Name -> Val \cup {Absent}]]
        /\ new \in [Node -> [Name -> Val \cup {Absent}]]
        /\ \A k \in Node, m \in Name :
             new[k][m] = IF k = n /\ m = nm THEN x ELSE old[k][m]
    BY <1>5, <1>6
  <2> HIDE DEF old, new
  <2>2. ASSUME NEW k \in Node PROVE new[k] = [old EXCEPT ![n][nm] = x][k]
    <3>1. CASE k = n
      BY <2>1, <3>1
    <3>2. CASE k # n
      BY <2>1, <3>2
    <3> QED
      BY <3>1, <3>2
  <2>3. new = [old EXCEPT ![n][nm] = x]
    BY <2>1, <2>2
  <2> QED
    BY <2>3 DEF old, new
<1> QED
  BY <1>4, <1>7

LEMMA EditWanted ==
  ASSUME TreesTyped, Wanted, open, disk = "old", disk' = disk,
         NEW n \in Node, NEW nm \in Name, NEW x, Edited(n, nm, x),
         pc' \in {"lines", "write"}
  PROVE  Wanted'
<1>1. /\ \A k \in Node : Distinct(store'[k])
      /\ Meaning(store') = [Meaning(store) EXCEPT ![n][nm] = x]
  BY EditMeans DEF Wanted
<1>2. Meaning(store)' = Meaning(store')
  BY DEF Meaning
<1>3. asked' = Meaning(store') /\ open' = open
  BY <1>1 DEF Wanted, Edited
<1> QED
  BY <1>1, <1>2, <1>3 DEF Wanted, NamesFit, TreesDistinct

LEMMA MeaningNext == Meaning(store)' = Meaning(store') /\ Meaning(written)' = Meaning(written')
BY DEF Meaning

LEMMA WantedStart == NamesFit /\ TreesDistinct /\ Init => Wanted
<1>1. \A n \in Node : Distinct(Empty[n])
  BY DEF Distinct, Empty
<1> QED
  BY <1>1 DEF Init, Wanted, Before

LEMMA WantedStep == TypeInv /\ Wanted /\ [Next]_vars => Wanted'
<1> SUFFICES ASSUME TypeInv, Wanted, [Next]_vars PROVE Wanted'
  OBVIOUS
<1>0. open \in BOOLEAN /\ TreesTyped
  BY DEF TypeInv, ProcessTyped
<1>a. NamesFit' = NamesFit /\ TreesDistinct' = TreesDistinct
  BY DEF NamesFit, TreesDistinct
<1>b. \A n \in Node : Distinct(Empty[n])
  BY DEF Distinct, Empty
<1> USE <1>0, <1>a, MeaningNext DEF Wanted, Before, tree, output, Exit, Goto
<1>1. CASE slurp
  BY <1>1 DEF slurp, Usage, Unreadable, ReadWhole
<1>2. CASE dt_parse
  <2>1. CASE UNCHANGED tree /\ pc' = "exit"
    BY <1>2, <2>1 DEF dt_parse
  <2>2. ASSUME NEW t \in Trees, store' = t, asked' = Meaning(t), open' = TRUE, pc' = "ready"
        PROVE  Wanted'
    <3>1. \A n \in Node : Distinct(store'[n])
      BY <2>2 DEF TreesDistinct
    <3> QED
      BY <1>2, <2>2, <3>1 DEF dt_parse
  <2> QED
    BY <1>2, <2>1, <2>2 DEF dt_parse
<1>3. CASE Dump
  BY <1>3 DEF Dump
<1>4. CASE Patch
  <2>1. CASE UNCHANGED tree /\ pc' = "cleanup"
    BY <1>4, <2>1 DEF Patch
  <2>2. CASE pc' = "write"
    <3>1. PICK n \in Node, nm \in Name, x \in Val : Edited(n, nm, x) /\ applied' = 1
      BY <1>4, <2>2, PatchEdits DEF Entries, TreesTyped
    <3>2. open /\ disk = "old" /\ disk' = disk
      BY <1>4 DEF Patch
    <3> QED
      BY <2>2, <3>1, <3>2, EditWanted
  <2> QED
    BY <1>4, <2>1, <2>2 DEF Patch
<1>5. CASE OpenPatches
  BY <1>5 DEF OpenPatches
<1>6. CASE Skip \/ Reject \/ NoMemory
  BY <1>6 DEF Skip, Reject, NoMemory, ReadPiece
<1>7. CASE Apply
  <2>1. PICK n \in Node, nm \in Name, x \in Val \cup {Absent} : Edited(n, nm, x)
    BY <1>7, ApplyEdits DEF Entries, TreesTyped
  <2>2. open /\ disk = "old" /\ disk' = disk /\ pc' = "lines"
    BY <1>7 DEF Apply, ReadPiece
  <2> QED
    BY <2>1, <2>2, EditWanted
<1>8. CASE Kill
  BY <1>8 DEF Kill
<1>9. CASE EndOfPatches
  BY <1>9 DEF EndOfPatches
<1>10. CASE OpenOutput
  BY <1>10 DEF OpenOutput, WriteFailed
<1>11. CASE fwrite
  BY <1>11 DEF fwrite, WriteFailed
<1>12. CASE FreeTree
  <2>1. store' = Empty /\ ~open' /\ asked' = asked
    BY <1>12 DEF FreeTree, TreeFirst, Store!Release, Empty
  <2> QED
    BY <1>12, <1>b, <2>1 DEF FreeTree
<1>13. CASE FreeBuffer
  BY <1>13 DEF FreeBuffer
<1>14. CASE UNCHANGED vars
  BY <1>14 DEF vars
<1> QED
  BY <1>1, <1>2, <1>3, <1>4, <1>5, <1>6, <1>7, <1>8, <1>9, <1>10, <1>11, <1>12, <1>13,
     <1>14 DEF Next, Step

LEMMA WantedAlways == NamesFit /\ TreesDistinct /\ Spec => []Wanted
<1>1. NamesFit /\ TreesDistinct /\ Init => Wanted
  BY WantedStart
<1>2. TypeInv /\ Wanted /\ [Next]_vars => Wanted'
  BY WantedStep
<1> QED
  BY <1>1, <1>2, Types, PTL DEF Spec

\* With names that fit, and from inputs that repeat none, no tool makes a node with two
\* properties of one name (apple_dt.h:94, dt_upsert_prop).
THEOREM ToolsNoDuplicates == NamesFit /\ TreesDistinct /\ Spec => []NoDuplicates
<1>1. Wanted => NoDuplicates
  BY DEF Wanted, NoDuplicates, Distinct
<1> QED
  BY <1>1, WantedAlways, PTL

\* With names that fit, and from inputs that repeat none, an output that is whole says what
\* the input and the directives applied, in their order, say (dt_patch.c:54-105,
\* dt_apply.c:133-164).
THEOREM ToolsOutputAsAsked == NamesFit /\ TreesDistinct /\ Spec => []OutputAsAsked
<1>1. Wanted => OutputAsAsked
  BY DEF Wanted, OutputAsAsked
<1> QED
  BY <1>1, WantedAlways, PTL
=============================================================================
