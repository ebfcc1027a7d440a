-------------------------------- MODULE DTParse --------------------------------
(***************************************************************************)
(* dt_parse (native/src/apple_dt.c:15-104): one pass over a buffer of any  *)
(* content, recursive, with the tree built as the bytes are read.          *)
(*                                                                         *)
(* No byte is read twice, so the content of the buffer is chosen when the  *)
(* cursor reaches it: every behaviour is the parse of some buffer. The     *)
(* frames are the C stack: one per parse_node call under way.              *)
(***************************************************************************)
EXTENDS Integers, Sequences, FiniteSets, FiniteSetsExt

CONSTANTS
  Node,          \* addresses calloc may return for a dt_node
  Prop,          \* addresses calloc may return for a dt_prop
  Size,          \* the buffer sizes considered
  Count,         \* the values a count in a node's header may have
  DataLength,    \* the lengths a property may announce, flag bit masked off
  MaxProps,      \* 4096, the most properties a node may announce
  MaxChildren,   \* 65536, the most children a node may announce
  NULL,          \* the null pointer
  JUNK           \* the contents of memory that is not allocated

NodeStruct ==
  [n_props : Nat, n_children : Nat, props : Seq(Prop), children : Seq(Node)]
PropStruct == [data : Nat, length : Nat]
\* What is left of the two loops of a parse_node call.
Frame == [node : Node, props : Nat, children : Nat]

ASSUME ParseAssumption ==
  /\ Size \subseteq Nat
  /\ Count \subseteq Nat
  /\ DataLength \subseteq Nat
  /\ MaxProps \in Nat
  /\ MaxChildren \in Nat
  /\ NULL \notin Node
  /\ "parsing" \notin Node \cup {NULL}
  /\ JUNK \notin NodeStruct \cup PropStruct

VARIABLES
  size,      \* the size of the buffer
  off,       \* the cursor; not read again once err is set
  err,       \* the cursor's error flag
  frames,    \* the parse_node calls under way, outermost first
  node,      \* node[a]: the dt_node at address a, or JUNK
  prop,      \* prop[p]: the dt_prop at address p, or JUNK
  result     \* "parsing", then what dt_parse returned: a node or NULL

heap == <<node, prop>>
vars == <<size, off, err, frames, node, prop, result>>

HeaderSize == 8     \* n_props, n_children
PropSize == 36      \* DT_PROP_NAME_LEN and the length word
NotAligned(n) == n
Align(n) == ((n + 3) \div 4) * 4

-----------------------------------------------------------------------------
Top == frames[Len(frames)]
Caller == SubSeq(frames, 1, Len(frames) - 1)
Advanced(f) == [frames EXCEPT ![Len(frames)] = f]

\* rd_u32, rd_bytes: n more bytes at o, or an error.
FitsPast(o, n) == o <= size
Fits(o, n) == o + n <= size

\* What dt_free reaches from a: the least set with a that is closed under children.
Children(a) == {node[a].children[i] : i \in DOMAIN node[a].children}
Closed(S) == \A a \in S : node[a] # JUNK => Children(a) \subseteq S
Subtree(a) == {b \in Node : \A S \in SUBSET Node : a \in S /\ Closed(S) => b \in S}
PropsOf(S) == UNION {{node[a].props[i] : i \in DOMAIN node[a].props} : a \in S}

-----------------------------------------------------------------------------
Init ==
  /\ size \in Size
  /\ off = 0
  /\ err = FALSE
  /\ frames = <<>>
  /\ node = [a \in Node |-> JUNK]
  /\ prop = [p \in Prop |-> JUNK]
  /\ result = "parsing"

\* dt_parse: a buffer too short for a header is refused outright.
TooShort ==
  /\ result = "parsing" /\ frames = <<>> /\ ~err
  /\ size < HeaderSize
  /\ result' = NULL
  /\ UNCHANGED <<size, off, err, frames, heap>>

\* parse_node is called: by dt_parse, or by the children loop of the innermost call.
Called ==
  /\ result = "parsing" /\ ~err
  /\ IF frames = <<>> THEN size >= HeaderSize ELSE Top.props = 0 /\ Top.children > 0

\* A new frame for node a; the caller's loop has one child less to go.
EnteredOneMore(a, np, nc) ==
  Append(IF frames = <<>> THEN <<>> ELSE Advanced([Top EXCEPT !.children = @ - 1]),
         [node |-> a, props |-> np + 1, children |-> nc])
Entered(a, np, nc) ==
  Append(IF frames = <<>> THEN <<>> ELSE Advanced([Top EXCEPT !.children = @ - 1]),
         [node |-> a, props |-> np, children |-> nc])

parse_node ==
  /\ Called
  /\ \/ /\ ~Fits(off, HeaderSize)
        /\ err' = TRUE
        /\ UNCHANGED <<off, frames, node>>
     \/ /\ Fits(off, HeaderSize)
        /\ off' = off + HeaderSize
        /\ \/ err' = TRUE /\ UNCHANGED <<frames, node>>         \* calloc failed
           \/ \E np, nc \in Count :
                /\ np > MaxProps \/ nc > MaxChildren
                /\ err' = TRUE
                /\ UNCHANGED <<frames, node>>
           \/ \E np, nc \in Count, a \in Node :
                /\ np <= MaxProps /\ nc <= MaxChildren
                /\ node[a] = JUNK
                /\ node' = [node EXCEPT ![a] = [n_props |-> np, n_children |-> nc,
                                                props |-> <<>>, children |-> <<>>]]
                /\ frames' = Entered(a, np, nc)
                /\ UNCHANGED err
  /\ UNCHANGED <<size, prop, result>>

\* The new struct is linked at the tail of the node's list, its loop advances.
Linked(p) == [node EXCEPT ![Top.node].props = Append(@, p)]

\* What the data read that failed leaves of the struct: free(p).
NotFreed(p, s) == [prop EXCEPT ![p] = s]
Freed(p, s) == [prop EXCEPT ![p] = JUNK]

parse_prop ==
  /\ result = "parsing" /\ ~err
  /\ frames # <<>> /\ Top.props > 0
  /\ \/ /\ err' = TRUE                   \* name or length cut off, or calloc failed
        /\ UNCHANGED <<off, frames, heap>>
     \/ \E p \in Prop, n \in DataLength :
          LET s == [data |-> off + PropSize, length |-> n] IN
          /\ Fits(off, PropSize)
          /\ prop[p] = JUNK
          /\ \/ /\ ~Fits(s.data, n)      \* data cut off: free(p), return NULL
                /\ err' = TRUE
                /\ prop' = Freed(p, s)
                /\ off' = s.data
                /\ UNCHANGED <<frames, node>>
             \/ /\ Fits(s.data, n)
                /\ prop' = [prop EXCEPT ![p] = s]
                /\ node' = Linked(p)
                /\ frames' = Advanced([Top EXCEPT !.props = @ - 1])
                \* a padding cut off sets err, but the struct is returned and linked
                /\ IF Fits(s.data, Align(n))
                   THEN off' = s.data + Align(n) /\ UNCHANGED err
                   ELSE off' = s.data + n /\ err' = TRUE
  /\ UNCHANGED <<size, result>>

\* Both loops are through: the node is returned, and linked by the caller's loop.
Return ==
  /\ result = "parsing" /\ ~err
  /\ frames # <<>> /\ Top.props = 0 /\ Top.children = 0
  /\ frames' = Caller
  /\ IF Len(frames) = 1
     THEN result' = Top.node /\ UNCHANGED node
     ELSE /\ node' = [node EXCEPT ![Caller[Len(Caller)].node].children =
                        Append(@, Top.node)]
          /\ UNCHANGED result
  /\ UNCHANGED <<size, off, err, prop>>

\* err is set: every call under way leaves its loops, frees its node with what is
\* linked below it, and returns NULL, which its caller does not link.
GivenAlone(a) == {a}
Given(a) == Subtree(a)

Abandon ==
  /\ result = "parsing" /\ err
  /\ IF frames = <<>>
     THEN result' = NULL /\ UNCHANGED <<frames, heap>>
     ELSE LET gone == Given(Top.node) IN
          /\ node' = [a \in Node |-> IF a \in gone THEN JUNK ELSE node[a]]
          /\ prop' = [p \in Prop |-> IF p \in PropsOf(gone) THEN JUNK ELSE prop[p]]
          /\ frames' = Caller
          /\ UNCHANGED result
  /\ UNCHANGED <<size, off, err>>

Next == TooShort \/ parse_node \/ parse_prop \/ Return \/ Abandon

Spec == Init /\ [][Next]_vars

-----------------------------------------------------------------------------
InUse == {a \in Node : node[a] # JUNK}
PropsInUse == {p \in Prop : prop[p] # JUNK}

\* Every variable keeps its type, and the cursor never leaves the buffer.
TypeOK ==
  /\ size \in Size
  /\ off \in 0..size
  /\ err \in BOOLEAN
  /\ frames \in Seq(Frame)
  /\ node \in [Node -> NodeStruct \cup {JUNK}]
  /\ prop \in [Prop -> PropStruct \cup {JUNK}]
  /\ result \in Node \cup {NULL, "parsing"}

\* The data of every property lies whole within the buffer, whatever length the
\* buffer announced: data points into it and is read later (apple_dt.c:51-55).
DataInBuffer == \A p \in PropsInUse : prop[p].data + prop[p].length <= size

\* Each struct is linked from one place: a node from its caller's frame until its call
\* returns, from its parent's list after; so the dt_free of a failed parse, which runs
\* once per frame, meets no struct twice (apple_dt.c:79-94, 101).
Links(b) ==
  UNION {{<<a, i>> : i \in {j \in DOMAIN node[a].children : node[a].children[j] = b}}
         : a \in InUse}
FramesOf(b) == {i \in DOMAIN frames : frames[i].node = b}
PropLinks(p) ==
  UNION {{<<a, i>> : i \in {j \in DOMAIN node[a].props : node[a].props[j] = p}}
         : a \in InUse}
LinkedOnce ==
  /\ \A b \in InUse :
       Cardinality(Links(b)) + Cardinality(FramesOf(b)) = IF result = b THEN 0 ELSE 1
  /\ \A p \in PropsInUse : Cardinality(PropLinks(p)) = 1

\* Nothing stays on the heap that the caller of dt_parse cannot reach: on success all
\* of it hangs from the node returned, on failure there is nothing
\* (apple_dt.c:55, 93, 101).
NothingLost ==
  result # "parsing" =>
    LET kept == IF result = NULL THEN {} ELSE Subtree(result) IN
    InUse = kept /\ PropsInUse = PropsOf(kept)

\* A tree is returned only when every node has the properties and children its header
\* announced: the counts the serializer will write back (apple_dt.c:74-75, 93).
CountsHonoured ==
  result \in Node =>
    \A a \in InUse :
      /\ node[a].n_props = Len(node[a].props)
      /\ node[a].n_children = Len(node[a].children)

\* Until an error, the cursor is exactly past the encoding of what was built: memory
\* and recursion are paid for by bytes of the buffer, never by an announced count
\* alone (apple_dt.c:57-59, 69-70); on success *consumed is the size of the tree.
Encoded(p) ==
  LET n == prop[p].length IN PropSize + (CHOOSE m \in n..(n + 3) : m % 4 = 0)
Consumed ==
  ~err => /\ off = HeaderSize * Cardinality(InUse) + MapThenSumSet(Encoded, PropsInUse)
          /\ Len(frames) <= Cardinality(InUse)
=============================================================================
