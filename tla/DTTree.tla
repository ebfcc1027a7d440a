-------------------------------- MODULE DTTree --------------------------------
(***************************************************************************)
(* The Apple Device Tree in memory and the functions that mutate it        *)
(* (native/src/apple_dt.c:183-196 and 272-360).                            *)
(*                                                                         *)
(* A property is a dt_prop struct on the heap, linked from its node; its   *)
(* bytes lie either in the input buffer (owns_data = 0) or in a heap block *)
(* of its own (owns_data = 1). The heap is explicit: an address that is    *)
(* not allocated holds JUNK, malloc may return any such address or fail,   *)
(* and freeing an address that is not allocated sets fault.                *)
(***************************************************************************)
EXTENDS Integers, Sequences

CONSTANTS
  Node,      \* the nodes of the parsed tree; no mutator adds or removes one
  Prop,      \* addresses calloc may return for a dt_prop
  Block,     \* addresses malloc may return for property data
  Buf,       \* where the data of the parsed properties lie in the input buffer
  Name,      \* property names, stored ones and longer ones a caller may pass
  Val,       \* byte strings
  Length,    \* Length[v]: the number of bytes of v
  NoBytes,   \* the byte string of length 0
  Stored,    \* Stored[nm]: the 31 characters at most that a dt_prop keeps of nm
  NULL,      \* the null pointer
  JUNK,      \* the contents of memory that is not allocated
  Parsed     \* the trees dt_parse may have returned

Addr == Block \cup Buf
StoredName == {nm \in Name : Stored[nm] = nm}
PropStruct ==
  [name : StoredName, length : Nat, flag : BOOLEAN,
   data : Addr \cup {NULL}, owns_data : BOOLEAN]
PropList == Seq(Prop)

\* A tree as parse_node leaves it: each property struct linked once, counted in
\* n_props, its data in the input buffer and not owned (apple_dt.c:48-54, 72-83).
FreshTree(t) ==
  /\ t.props \in [Node -> PropList]
  /\ t.n_props = [n \in Node |-> Len(t.props[n])]
  /\ t.prop \in [Prop -> PropStruct \cup {JUNK}]
  /\ t.mem \in [Addr -> Val \cup {JUNK}]
  /\ \A m, n \in Node : \A i \in DOMAIN t.props[m] : \A j \in DOMAIN t.props[n] :
       t.props[m][i] = t.props[n][j] => m = n /\ i = j
  /\ \A p \in Prop :
       t.prop[p] # JUNK <=> \E n \in Node : \E i \in DOMAIN t.props[n] : t.props[n][i] = p
  /\ \A p \in Prop : t.prop[p] # JUNK =>
       /\ t.prop[p].data \in Buf
       /\ t.prop[p].owns_data = FALSE
       /\ t.prop[p].length = Length[t.mem[t.prop[p].data]]
  /\ \A b \in Buf : t.mem[b] # JUNK
  /\ \A b \in Block : t.mem[b] = JUNK

ASSUME DTAssumption ==
  /\ Length \in [Val -> Nat]
  /\ NoBytes \in Val
  /\ \A v \in Val : Length[v] = 0 <=> v = NoBytes
  /\ Stored \in [Name -> Name]
  /\ \A nm \in Name : Stored[Stored[nm]] = Stored[nm]
  /\ Block \cap Buf = {}
  /\ NULL \notin Addr
  /\ JUNK \notin Val \cup PropStruct
  /\ \A t \in Parsed : FreshTree(t)

VARIABLES
  props,     \* props[n]: the property structs of n, in list order (node->props, ->next)
  n_props,   \* n_props[n]: the count the serializer writes in the node's header
  prop,      \* prop[p]: the dt_prop at address p, JUNK when not allocated
  mem,       \* mem[a]: the bytes at address a, JUNK when not allocated
  alive,     \* FALSE once dt_free has run
  ret,       \* what the last call returned
  call,      \* the last call and its arguments
  fault      \* TRUE once free got an address that was not allocated

heap == <<props, n_props, prop, mem>>
vars == <<props, n_props, prop, mem, alive, ret, call, fault>>

-----------------------------------------------------------------------------
\* strncmp(p->name, name, 32) == 0: the stored name has a NUL among its 32 bytes,
\* so a longer name never equals it.
Matches(n, nm) == {i \in DOMAIN props[n] : prop[props[n][i]].name = nm}

\* dt_get_prop finds nothing, or the first property that matches.
IsFirst(n, nm, i) == i \in Matches(n, nm) /\ \A j \in Matches(n, nm) : i <= j

\* What `if (p->owns_data) free(p->data)` gives back; free(NULL) is a no-op.
OwnedNotAsked(p) == {prop[p].data} \ {NULL}
Owned(p) == IF prop[p].owns_data THEN {prop[p].data} \ {NULL} ELSE {}

\* The struct at p once its data is the copy of v at b: the flag and name stay.
RewrittenUnowned(p, v, b) == [prop[p] EXCEPT !.data = b, !.length = Length[v]]
RewrittenOldLength(p, v, b) == [prop[p] EXCEPT !.data = b, !.owns_data = TRUE]
Rewritten(p, v, b) ==
  [prop[p] EXCEPT !.data = b, !.length = Length[v], !.owns_data = TRUE]

\* The name field of a new struct: 31 characters and a NUL.
WholeName(nm) == nm
NameField(nm) == Stored[nm]

NewProp(nm, v, b) ==
  [name |-> NameField(nm), length |-> Length[v], flag |-> FALSE, data |-> b,
   owns_data |-> TRUE]

\* node->n_props++ and node->n_props--
CountRemovalsOnly(n, d) == [n_props EXCEPT ![n] = IF d < 0 THEN @ + d ELSE @]
Count(n, d) == [n_props EXCEPT ![n] = @ + d]

\* A copy of v on the heap: none for an empty v, else any unallocated block.
Copies(v) == IF Length[v] = 0 THEN {NULL} ELSE {b \in Block : mem[b] = JUNK}

\* Memory after v was copied to address new (if any) and the addresses in gone freed.
MemAfter(new, v, gone) ==
  [a \in Addr |-> IF a \in gone THEN JUNK ELSE IF a = new THEN v ELSE mem[a]]

BadFree(gone) == \E a \in gone : a \in Buf \/ mem[a] = JUNK

\* calloc's zeros and the name: a struct that no list holds yet.
Named(p, nm) ==
  [prop EXCEPT ![p] = [name |-> NameField(nm), length |-> 0, flag |-> FALSE,
                       data |-> NULL, owns_data |-> FALSE]]

\* free(p) of dt_add_prop, when there is no memory for the bytes.
Forgotten(structs, p) == structs
GivenBack(structs, p) == [structs EXCEPT ![p] = JUNK]

Without(s, i) == [j \in 1..(Len(s) - 1) |-> IF j < i THEN s[j] ELSE s[j + 1]]

\* return -1 without having touched the tree
Fail == ret' = -1 /\ UNCHANGED <<props, n_props, prop, mem, fault>>

-----------------------------------------------------------------------------
Holds(t) == props = t.props /\ n_props = t.n_props /\ prop = t.prop /\ mem = t.mem

Init ==
  /\ \E t \in Parsed : Holds(t)
  /\ alive = TRUE
  /\ ret = 0
  /\ call = <<"dt_parse">>
  /\ fault = FALSE

dt_set_prop_data(n, nm, v) ==
  \/ Matches(n, nm) = {} /\ Fail
  \/ Matches(n, nm) # {} /\ Length[v] # 0 /\ Fail            \* malloc returned NULL
  \/ \E i \in DOMAIN props[n], b \in Copies(v) :
       LET p == props[n][i] IN
       /\ IsFirst(n, nm, i)
       /\ mem' = MemAfter(b, v, Owned(p))
       /\ fault' = (fault \/ BadFree(Owned(p)))
       /\ prop' = [prop EXCEPT ![p] = Rewritten(p, v, b)]
       /\ ret' = 0
       /\ UNCHANGED <<props, n_props>>

dt_add_prop(n, nm, v) ==
  \/ Fail                                                    \* calloc returned NULL
  \/ \E p \in Prop :                                         \* malloc returned NULL
       /\ prop[p] = JUNK /\ Length[v] # 0
       /\ prop' = GivenBack(Named(p, nm), p)
       /\ ret' = -1
       /\ UNCHANGED <<props, n_props, mem, fault>>
  \/ \E p \in Prop, b \in Copies(v) :
       /\ prop[p] = JUNK
       /\ prop' = [prop EXCEPT ![p] = NewProp(nm, v, b)]
       /\ mem' = MemAfter(b, v, {})
       /\ props' = [props EXCEPT ![n] = Append(props[n], p)]
       /\ n_props' = Count(n, 1)
       /\ ret' = 0
       /\ UNCHANGED fault

UpsertAdds(n, nm, v) == dt_add_prop(n, nm, v)
dt_upsert_prop_data(n, nm, v) ==
  IF Matches(n, nm) # {} THEN dt_set_prop_data(n, nm, v) ELSE dt_add_prop(n, nm, v)

dt_delete_prop(n, nm) ==
  \/ Matches(n, nm) = {} /\ Fail
  \/ \E i \in DOMAIN props[n] :
       LET p == props[n][i] IN
       /\ IsFirst(n, nm, i)
       /\ props' = [props EXCEPT ![n] = Without(props[n], i)]
       /\ mem' = MemAfter(NULL, NoBytes, Owned(p))
       /\ fault' = (fault \/ BadFree(Owned(p)))
       /\ prop' = [prop EXCEPT ![p] = JUNK]
       /\ n_props' = Count(n, -1)
       /\ ret' = 0

\* The property structs linked from a node.
Reachable == UNION {{props[n][i] : i \in DOMAIN props[n]} : n \in Node}

\* No struct is linked twice, no block is owned twice.
LinkedOnce ==
  \A m, n \in Node : \A i \in DOMAIN props[m] : \A j \in DOMAIN props[n] :
    props[m][i] = props[n][j] => m = n /\ i = j
OwnedOnce == \A p, q \in Reachable : p # q => Owned(p) \cap Owned(q) = {}

\* Freed node by node; a struct or block met twice is freed twice.
dt_free ==
  LET gone == UNION {Owned(p) : p \in Reachable} IN
  /\ alive' = FALSE
  /\ prop' = [p \in Prop |-> IF p \in Reachable THEN JUNK ELSE prop[p]]
  /\ mem' = MemAfter(NULL, NoBytes, gone)
  /\ fault' = \/ fault
              \/ BadFree(gone)
              \/ \E p \in Reachable : prop[p] = JUNK
              \/ ~LinkedOnce \/ ~OwnedOnce
  /\ UNCHANGED <<props, n_props, ret>>

Mutate ==
  \/ \E n \in Node, nm \in Name, v \in Val :
       \/ call' = <<"dt_set_prop_data", n, nm, v>> /\ dt_set_prop_data(n, nm, v)
       \/ call' = <<"dt_add_prop", n, nm, v>> /\ dt_add_prop(n, nm, v)
       \/ call' = <<"dt_upsert_prop_data", n, nm, v>> /\ dt_upsert_prop_data(n, nm, v)
  \/ \E n \in Node, nm \in Name :
       call' = <<"dt_delete_prop", n, nm>> /\ dt_delete_prop(n, nm)

Next ==
  /\ alive
  /\ \/ Mutate /\ UNCHANGED alive
     \/ call' = <<"dt_free">> /\ dt_free

Spec == Init /\ [][Next]_vars

\* The calls a caller may have made last.
Calls ==
  {<<"dt_parse">>, <<"dt_free">>} \cup ({"dt_delete_prop"} \X Node \X Name)
    \cup ({"dt_set_prop_data", "dt_add_prop", "dt_upsert_prop_data"} \X Node \X Name \X Val)

-----------------------------------------------------------------------------
\* Every variable keeps its type: lists of structs, structs with their fields,
\* bytes or JUNK in memory.
TypeOK ==
  /\ props \in [Node -> PropList]
  /\ n_props \in [Node -> Int]
  /\ prop \in [Prop -> PropStruct \cup {JUNK}]
  /\ mem \in [Addr -> Val \cup {JUNK}]
  /\ alive \in BOOLEAN
  /\ ret \in {0, -1}
  /\ call \in Calls
  /\ fault \in BOOLEAN

\* owns_data tells the two kinds of data apart: an owning property points to an
\* allocated block (or to nothing, when empty), any other into the input buffer.
OwnershipTold ==
  \A p \in Reachable :
    /\ prop[p] # JUNK
    /\ IF prop[p].owns_data
       THEN prop[p].data = NULL \/ prop[p].data \in Block
       ELSE prop[p].data \in Buf
    /\ prop[p].data # NULL => mem[prop[p].data] # JUNK

\* Nothing allocated is out of reach: every struct is linked, every block owned;
\* after dt_free nothing of the tree is left on the heap.
NoLeak ==
  /\ \A p \in Prop : prop[p] # JUNK => alive /\ p \in Reachable
  /\ \A b \in Block : mem[b] # JUNK => alive /\ \E p \in Reachable : b \in Owned(p)

\* No free() of an address that is not allocated, the input buffer's included, and
\* no struct or block freed twice, dt_free's own traversal included.
NoFault == ~fault

\* While the tree lives, the flag that decides what dt_free, dt_set_prop_data and
\* dt_delete_prop give back is right, and nothing would be given back twice
\* (apple_dt.c:188-189, 283-284, 352-353).
MemorySafe == alive => LinkedOnce /\ OwnedOnce /\ OwnershipTold

\* The header count equals the length of the list the serializer walks
\* (apple_dt.c:326-327: otherwise the binary is corrupt).
CountsMatch == \A n \in Node : n_props[n] = Len(props[n])

\* length is the number of bytes at data: the serializer and dump read no further.
LengthsMatch ==
  alive => \A p \in Reachable :
    prop[p].length = IF prop[p].data = NULL THEN 0 ELSE Length[mem[prop[p].data]]

-----------------------------------------------------------------------------
\* The tree as its readers see it: names, flags and the bytes data points to.
Bytes(p) == IF prop[p].data = NULL THEN NoBytes ELSE mem[prop[p].data]
View ==
  [n \in Node |->
     [i \in 1..(IF alive THEN Len(props[n]) ELSE 0) |->
        LET p == props[n][i] IN
        [name |-> prop[p].name, val |-> Bytes(p), flag |-> prop[p].flag]]]

Abs == INSTANCE PropCalls WITH store <- View, open <- alive

\* Whatever heap addresses it is given, and whenever malloc fails, a mutator edits the
\* first entry of the name it was called with, at the node it was called with, and no
\* other, or adds one entry where it should; or it returns -1, only where there is no such
\* property or memory was asked for, with every entry as it was (apple_dt.c:272-360).
RefinesPropStore == Abs!Spec
=============================================================================
