-------------------------------- MODULE DTImage --------------------------------
(***************************************************************************)
(* The on-disk format: what dt_serialize writes of a tree and what dt_parse *)
(* makes of a file (native/src/apple_dt.c:38-62, 202-270), and the cycle   *)
(* read, edit, write that every tool of the laboratory goes through.       *)
(*                                                                         *)
(* Nodes are numbered in the order of their headers in the file, so a tree *)
(* is the sequence of their numbers of children and their entries. A file  *)
(* is a sequence of records, cut after size bytes or followed by others.   *)
(* The edits are those of PropStore, which DTTree implements.              *)
(***************************************************************************)
EXTENDS Integers, Sequences, SequencesExt

CONSTANTS
  Node,        \* the numbers nodes may have
  Name, Val, NoBytes, Stored,    \* as in PropStore
  Length,      \* Length[v]: the number of bytes of v
  MaxProps,    \* 4096, the most properties a node may announce
  MaxChildren, \* 65536, the most children a node may announce
  Given,       \* the files that may be handed in, beside the sample
  Short,       \* bound: how far before the end of a record a write may stop
  EditName, EditVal,    \* bound: what edits name and set
  MaxEdits     \* bound: the edits of one behaviour

Field ==
  [kind : {"node"}, n_props : Nat, n_children : Nat]
    \cup [kind : {"prop"}, name : Name, flag : BOOLEAN, val : Val, tail : BOOLEAN, pad : BOOLEAN]

VARIABLES
  file,      \* the file: its records and its size in bytes
  origin,    \* "given", "sample", or what the last dt_write made of it: "whole" or "torn"
  source,    \* the tree that dt_write was given
  kids,      \* kids[n]: the number of children of node n
  store,     \* store[n]: the entries of node n
  open,      \* TRUE between dt_parse and dt_free
  ret,       \* what the last operation returned
  touched,   \* TRUE when the tree was edited since it was read or written
  edits      \* the edits so far

vars == <<file, origin, source, kids, store, open, ret, touched, edits>>

Store == INSTANCE PropStore

-----------------------------------------------------------------------------
NotAligned(n) == n
Align(n) == ((n + 3) \div 4) * 4

\* A node's header is two words; a property is 32 bytes of name, its length with the
\* flag in bit 31, its data and padding. tail: bytes other than zero follow the name
\* in its field; pad: the padding is other than zero.
Header(np, nc) == [kind |-> "node", n_props |-> np, n_children |-> nc]
Property(e, t, p) ==
  [kind |-> "prop", name |-> e.name, flag |-> e.flag, val |-> e.val, tail |-> t, pad |-> p]
Width(f) == IF f.kind = "node" THEN 8 ELSE 32 + 4 + Align(Length[f.val])

Bytes(fs) == FoldLeft(LAMBDA n, f : n + Width(f), 0, fs)
WholeFile(fs) == [fields |-> fs, size |-> Bytes(fs)]

\* mkdt_sample (native/tools/mkdt_sample.c), which shares no code with the rest: the name cut
\* to its field, zeros behind it and behind the data; the counts written by hand.
wprop_no_memset(nm, v) == Property([name |-> Stored[nm], val |-> v, flag |-> FALSE], TRUE, FALSE)
wprop(nm, v) == Property([name |-> Stored[nm], val |-> v, flag |-> FALSE], FALSE, FALSE)
mkdt_sample ==
  WholeFile(
    <<Header(2, 2), wprop("name", "device-tree"), wprop("model", "iPhoneXX"),
      Header(2, 0), wprop("name", "chosen"), wprop("debug-enabled", "1"),
      Header(2, 0), wprop("name", "arm-io"), wprop("ranges", "0200")>>)

\* The cursor: nodes still due, properties left of the node being read. A record read
\* as one of the other kind is noise, refused here whatever it would be taken for.
Start == [off |-> 0, err |-> FALSE, due |-> 1, left |-> 0, kids |-> <<>>, lists |-> <<>>]
Done(c) == c.due = 0 /\ c.left = 0

\* name[31] = '\0'
WholeNameRead(f) == f.name
NameRead(f) == Stored[f.name]

Take(c, f) ==
  IF f.kind = "node"
  THEN [c EXCEPT !.off = @ + Width(f), !.due = @ - 1 + f.n_children, !.left = f.n_props,
                 !.kids = Append(@, f.n_children), !.lists = Append(@, <<>>)]
  ELSE [c EXCEPT !.off = @ + Width(f), !.left = @ - 1,
                 !.lists[Len(c.lists)] =
                   Append(@, [name |-> NameRead(f), val |-> f.val, flag |-> f.flag])]

\* rd_bytes refuses a record that is not whole, its padding included.
WholeButPadding(c, f, size) ==
  c.off + (IF f.kind = "node" THEN 8 ELSE 36 + Length[f.val]) <= size
Whole(c, f, size) == c.off + Width(f) <= size

\* parse_node refuses a header that announces more than its limits.
Sane(f) == f.kind = "node" => f.n_props <= MaxProps /\ f.n_children <= MaxChildren

Read(c, f, size) ==
  IF c.err \/ Done(c) THEN c
  ELSE IF Whole(c, f, size) /\ Sane(f) /\ (f.kind = "prop" <=> c.left > 0)
  THEN Take(c, f)
  ELSE [c EXCEPT !.err = TRUE]
Pass(fs, size) == FoldLeft(LAMBDA c, f : Read(c, f, size), Start, fs)
dt_parse(x) ==
  LET c == Pass(x.fields, x.size) IN [c EXCEPT !.err = c.err \/ ~Done(c)]

-----------------------------------------------------------------------------
Tree == [kids |-> kids, lists |-> SubSeq(store, 1, Len(kids))]

\* serialize_node_buf: the name up to its NUL and zeros, the flag back in bit 31.
FlagLost(e) == Property([e EXCEPT !.flag = FALSE], FALSE, FALSE)
Encoded(e) == Property(e, FALSE, FALSE)
NodeImage(nc, es) == <<Header(Len(es), nc)>> \o [i \in DOMAIN es |-> Encoded(es[i])]
ImageOf(t) == FlattenSeq([n \in DOMAIN t.kids |-> NodeImage(t.kids[n], t.lists[n])])
Image == ImageOf(Tree)

\* The pieces w_raw is called with, and w_raw: refused when it would pass cap. The dry
\* run has no cap; NoCap stands for out == NULL.
NoCap == -1
Pieces(f) ==
  IF f.kind = "node" THEN <<4, 4>>
  ELSE <<32, 4, Length[f.val], Align(Length[f.val]) - Length[f.val]>>
w_raw_late(w, n, cap) == IF w.err \/ (cap # NoCap /\ w.off > cap) THEN [w EXCEPT !.err = TRUE]
                         ELSE [w EXCEPT !.off = @ + n]
w_raw(w, n, cap) ==
  IF w.err \/ (cap # NoCap /\ w.off + n > cap)
  THEN [w EXCEPT !.err = TRUE] ELSE [w EXCEPT !.off = @ + n]

Calls(fs) == FlattenSeq([i \in DOMAIN fs |-> Pieces(fs[i])])
Written(calls, cap) ==
  LET w == FoldLeft(LAMBDA c, n : w_raw(c, n, cap), [off |-> 0, err |-> FALSE], calls)
  IN IF w.err THEN -1 ELSE w.off
dt_serialize(cap) == Written(Calls(Image), cap)

-----------------------------------------------------------------------------
Empty == [n \in Node |-> <<>>]

Init ==
  /\ \/ file \in Given /\ origin = "given" /\ edits = 0
     \/ file = mkdt_sample /\ origin = "sample" /\ edits = MaxEdits - 1   \* bound: it is the largest
  /\ source = [kids |-> <<>>, lists |-> <<>>]
  /\ kids = <<>> /\ store = Empty
  /\ open = FALSE /\ ret = 0 /\ touched = FALSE

Parse ==
  /\ ~open
  /\ LET t == dt_parse(file) IN
       IF t.err THEN ret' = -1 /\ UNCHANGED <<kids, store, open>>
       ELSE /\ kids' = t.kids
            /\ store' = [n \in Node |-> IF n \in DOMAIN t.lists THEN t.lists[n] ELSE <<>>]
            /\ open' = TRUE
            /\ ret' = 0
  /\ touched' = FALSE
  /\ UNCHANGED <<file, origin, source, edits>>

Edit ==
  /\ open /\ edits < MaxEdits
  /\ \E n \in DOMAIN kids, nm \in EditName :
       \/ Store!Delete(n, nm)
       \/ \E v \in EditVal : Store!Set(n, nm, v) \/ Store!Add(n, nm, v) \/ Store!Upsert(n, nm, v)
  /\ touched' = TRUE
  /\ edits' = edits + 1
  /\ UNCHANGED <<file, origin, source, kids, open>>

\* Where a write may stop: so many bytes before the end of any record as Short allows.
Cuts == {k \in {Bytes(SubSeq(Image, 1, i)) - d : i \in DOMAIN Image, d \in Short} : k >= 0}

\* dt_write: the dry run's size is what is allocated, filled and written; a write that
\* fails, or a process that is killed, leaves a part.
dt_write ==
  /\ open
  /\ LET need == dt_serialize(NoCap) IN
       /\ dt_serialize(need) = need
       /\ \/ /\ file' = [fields |-> Image, size |-> need]
             /\ origin' = "whole" /\ ret' = 0 /\ touched' = FALSE
          \/ \E k \in Cuts \ {need} :
               /\ file' = [fields |-> Image, size |-> k]
               /\ origin' = "torn" /\ ret' = -1 /\ UNCHANGED touched
  /\ source' = Tree
  /\ UNCHANGED <<kids, store, open, edits>>

dt_free ==
  /\ open
  /\ Store!Release
  /\ kids' = <<>>
  /\ UNCHANGED <<file, origin, source, touched, edits>>

Next == Parse \/ Edit \/ dt_write \/ dt_free

Spec == Init /\ [][Next]_vars

-----------------------------------------------------------------------------
\* There is room for the nodes of every file that can be read, the sample's among them.
ASSUME ImageAssumption ==
  /\ IsFiniteSet(Node) /\ Node = 1..Cardinality(Node)
  /\ Length \in [Val -> Nat] /\ \A v \in Val : Length[v] <= 2147483647   \* bit 31 is the flag's
  /\ MaxProps \in Nat /\ MaxProps >= 2 /\ MaxChildren \in Nat /\ MaxChildren >= 2
  /\ Stored \in [Name -> Name] /\ \A nm \in Name : Stored[Stored[nm]] = Stored[nm]
  /\ EditName \subseteq Name /\ EditVal \subseteq Val
  /\ {"name", "model", "debug-enabled", "ranges"} \subseteq Name
  /\ {"device-tree", "iPhoneXX", "chosen", "1", "arm-io", "0200"} \subseteq Val
  /\ Given \subseteq [fields : Seq(Field), size : Nat]
  /\ \A x \in Given \cup {mkdt_sample} : ~dt_parse(x).err => DOMAIN dt_parse(x).kids \subseteq Node
  /\ Short \subseteq Nat
  /\ MaxEdits \in Nat

-----------------------------------------------------------------------------
\* The tree in memory keeps the shape the mutators rely on: names that fit their field,
\* one list per node, none for a node that is not there.
TypeOK ==
  /\ origin \in {"given", "sample", "whole", "torn"}
  /\ file.size \in Nat
  /\ kids \in Seq(Nat) /\ Len(kids) <= Len(store)
  /\ open <=> kids # <<>>
  /\ store \in [Node -> Seq(Store!Entry)]
  /\ \A n \in Node : n > Len(kids) => store[n] = <<>>
  /\ \A n \in Node : \A i \in DOMAIN store[n] : Stored[store[n][i].name] = store[n][i].name

\* A tree none of whose nodes has outgrown the parser's limit.
Readable(t) == \A n \in DOMAIN t.lists : Len(t.lists[n]) <= MaxProps

\* Whatever edits it went through, a tree that was written whole reads back as the same
\* tree, flags, empty values and repeated names included, and nothing is left over in
\* the file (test_dt.c:83-95 tries one edit); but one whose node has grown past the
\* parser's limit is refused for good, though dt_write returned 0 (apple_dt.c:70, 298-329).
RoundTrip ==
  origin = "whole" =>
    LET t == dt_parse(file) IN
    IF Readable(source)
    THEN ~t.err /\ t.kids = source.kids /\ t.lists = source.lists /\ t.off = file.size
    ELSE t.err

\* No write that stopped early is ever taken for a tree, wherever it was cut: inside
\* the padding of the last property too (apple_dt.c:58-59, 93).
TornDetected == origin = "torn" => dt_parse(file).err

\* The dry run tells exactly the room that is needed: any less (by up to a property's
\* width) is refused, any more changes nothing, and the records' widths add up to it (apple_dt.c:258-262).
NeedExact ==
  open =>
    LET calls == Calls(Image)
        need == Written(calls, NoCap)
    IN /\ need = Bytes(Image)
       /\ \A cap \in {n \in 0..(need + 4) : need - n < 44} : Written(calls, cap) = IF cap < need THEN -1 ELSE need

\* What mkdt_sample or dt_write wrote, read and not edited, is written back byte by byte:
\* the two encoders agree, and the second run of a tool that changes nothing leaves the
\* file as it was (apple_dt.c:228-253, mkdt_sample.c:24-60).
WrittenIdentical ==
  open /\ ~touched /\ origin \in {"sample", "whole"} =>
    file = [fields |-> Image, size |-> dt_serialize(NoCap)]

\* The bytes of a record that mean something: those behind a name's NUL, the 32nd of a name
\* and the padding do not.
Zeroed(f) ==
  IF f.kind = "node" THEN f ELSE [f EXCEPT !.name = Stored[@], !.tail = FALSE, !.pad = FALSE]

\* apple_dt.h:70 and test_dt.c:7 promise the original, byte by byte, of a file that is read
\* and not edited. Of a file that others made it is the original but for those bytes, which
\* become zero, and what follows the tree, which goes (apple_dt.c:49, 64-97, 228-253).
OnlyNoiseLost ==
  open /\ ~touched /\ origin = "given" =>
    /\ Len(Image) <= Len(file.fields)
    /\ Image = [i \in DOMAIN Image |-> Zeroed(file.fields[i])]
    /\ dt_serialize(NoCap) = dt_parse(file).off
=============================================================================
