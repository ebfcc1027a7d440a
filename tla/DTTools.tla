-------------------------------- MODULE DTTools --------------------------------
(***************************************************************************)
(* The three command-line tools as processes: dt-parse (native/src/main.c), *)
(* dt-patch (native/tools/dt_patch.c), dt-apply (native/tools/dt_apply.c), *)
(* with dt_find and dt_write (native/src/apple_dt.c:116-139, 255-270).     *)
(*                                                                         *)
(* The tree is the one of PropStore, which DTTree implements; dt_parse     *)
(* yields some tree or fails. Every call may fail where its result is      *)
(* looked at, and the process may be killed between any two steps.         *)
(***************************************************************************)
EXTENDS Integers, Sequences, FiniteSets

CONSTANTS
  Node, Name, Val, NoBytes, Stored,    \* as in PropStore
  Tools,        \* the tools considered
  Root,         \* the root node
  Kids,         \* Kids[n]: the children of n, in order
  Trees,        \* the stores dt_parse may yield
  Str,          \* the values that are text with its NUL
  Text,         \* Text[v]: what strcmp may take the bytes of v for, as a node's name
  Path,         \* the node paths of directives, sequences of segments
  NULL,
  MaxLines,     \* bound: the pieces fgets reads of a patch file
  FlushFails    \* whether the flush of fclose may fail

VARIABLES
  tool, pc,
  buf,         \* TRUE while the input buffer is allocated
  pf,          \* TRUE while the patch file is open
  store, open, ret,    \* the tree, as in PropStore
  asked,       \* asked[n][nm]: what the input and the directives applied make of nm at n
  left,        \* the pieces of the patch file not read yet
  applied, failed,
  disk,        \* the output file: "old", "torn" or "whole"
  written,     \* the tree it is to hold
  saved,       \* TRUE when dt_write returned 0
  status       \* the exit status, -1 until then, 128 when killed

resources == <<buf, pf>>
tree == <<store, open, ret, asked>>
counts == <<left, applied, failed>>
output == <<disk, written, saved>>
vars == <<tool, pc, resources, tree, counts, output, status>>

Store == INSTANCE PropStore

ASSUME ToolsAssumption ==
  /\ Tools \subseteq {"dt-parse", "dt-patch", "dt-apply"}
  /\ Root \in Node /\ Kids \in [Node -> Seq(Node)] /\ NULL \notin Node
  /\ Trees \subseteq [Node -> Seq(Store!Entry)]
  /\ Stored \in [Name -> Name]
  /\ Str \subseteq Val
  /\ Path \subseteq Seq(STRING)
  /\ MaxLines \in Nat
  /\ FlushFails \in BOOLEAN

Absent == "absent"
Empty == [n \in Node |-> <<>>]
First(s) == CHOOSE i \in s : \A j \in s : i <= j

\* What a reader gets of each name at each node: the first entry's value.
Meaning(st) ==
  [n \in Node |-> [nm \in Name |->
     LET hits == {i \in DOMAIN st[n] : st[n][i].name = nm} IN
     IF hits = {} THEN Absent ELSE st[n][First(hits)].val]]

-----------------------------------------------------------------------------
\* What strcmp may take a node's name for: the data of "name" as a C string; data without
\* a NUL is read on past its end, so it is taken for whatever follows there in memory.
node_name(n) ==
  LET hits == Store!Hit(n, "name") IN
  IF hits = {} \/ store[n][First(hits)].val = NoBytes THEN {"<anon>"}
  ELSE Text[store[n][First(hits)].val]

OfRoot(n) == Kids[Root]
Children(n) == Kids[n]

\* dt_find descends into the first child that it takes for one of that name, and never
\* comes back to try the next one: where it may end, NULL when it finds none.
Descend(n, seg) ==
  LET Passed(i) == \A j \in DOMAIN Children(n) : j < i => node_name(Children(n)[j]) # {seg} IN
  {Children(n)[i] : i \in {i \in DOMAIN Children(n) : seg \in node_name(Children(n)[i]) /\ Passed(i)}}
    \cup (IF Passed(Len(Children(n)) + 1) THEN {NULL} ELSE {})
dt_find(path) ==
  LET at[i \in 0..Len(path)] ==
        IF i = 0 THEN {Root}
        ELSE UNION {IF n = NULL THEN {NULL} ELSE Descend(n, path[i]) : n \in at[i - 1]}
  IN at[Len(path)]

\* The edits the tools make; a refusal (no such property, no memory) changes nothing.
AddAlways(n, nm, v) == Store!Add(n, nm, v)
Upserted(n, nm, v) == Store!Upsert(n, nm, v)
Asked(n, nm, v) == asked' = [asked EXCEPT ![n][nm] = v]

Set(n, nm, v) == Upserted(n, nm, v) /\ Asked(n, nm, v) /\ UNCHANGED open
Delete(n, nm) == Store!Delete(n, nm) /\ Asked(n, nm, Absent) /\ UNCHANGED open

-----------------------------------------------------------------------------
Init ==
  /\ tool \in Tools
  /\ pc = "slurp"
  /\ buf = FALSE /\ pf = FALSE
  /\ store = Empty /\ open = FALSE /\ ret = 0 /\ asked = Meaning(Empty)
  /\ left \in 0..MaxLines
  /\ applied = 0 /\ failed = 0
  /\ disk = "old" /\ written = Empty /\ saved = FALSE
  /\ status = -1

Exit(code) == pc' = "exit" /\ status' = code
Goto(label) == pc' = label /\ UNCHANGED status

\* Too few arguments, or an input that slurp cannot read whole.
Usage == Exit(2) /\ UNCHANGED buf
Unreadable == Exit(1) /\ UNCHANGED buf
ReadWhole == Goto("parse") /\ buf' = TRUE
slurp ==
  /\ pc = "slurp"
  /\ Usage \/ Unreadable \/ ReadWhole
  /\ UNCHANGED <<tool, pf, tree, counts, output>>

dt_parse ==
  /\ pc = "parse"
  /\ \/ Exit(1) /\ buf' = FALSE /\ UNCHANGED tree
     \/ \E t \in Trees :
          /\ Goto("ready")
          /\ store' = t /\ open' = TRUE /\ ret' = 0 /\ asked' = Meaning(t)
          /\ UNCHANGED buf
  /\ UNCHANGED <<tool, pf, counts, output>>

\* dt-parse prints the tree or the node found; a node not found is no failure.
Dump ==
  /\ pc = "ready" /\ tool = "dt-parse"
  /\ Goto("cleanup")
  /\ UNCHANGED <<tool, resources, tree, counts, output>>

\* dt-patch: --boot-args or --set-prop-str; a missing argument, an unknown option, a
\* node not found or an upsert refused leave applied at 0.
Patch ==
  /\ pc = "ready" /\ tool = "dt-patch"
  /\ \/ Goto("cleanup") /\ UNCHANGED <<tree, applied>>
     \/ \E path \in Path, nm \in Name, v \in Str :
          /\ \E n \in dt_find(path) \ {NULL} : Set(n, nm, v)
          /\ applied' = 1
          /\ Goto("write")
  /\ UNCHANGED <<tool, resources, left, failed, output>>

\* dt-apply opens the patch file; when it cannot, all is given back at once.
OpenPatches ==
  /\ pc = "ready" /\ tool = "dt-apply"
  /\ \/ Goto("lines") /\ pf' = TRUE
     \/ Goto("nopatches") /\ UNCHANGED pf
  /\ UNCHANGED <<tool, buf, tree, counts, output>>

\* One piece of the patch file, as DTText reads it.
ReadPiece == pc = "lines" /\ left > 0 /\ left' = left - 1

\* A blank piece, or one that begins with '#'.
Skip ==
  /\ ReadPiece
  /\ UNCHANGED <<tool, pc, resources, tree, applied, failed, output, status>>

\* apply_directive succeeds: a string, u32 or byte list is upserted, or !delete done.
Apply ==
  /\ ReadPiece
  /\ \E path \in Path, nm \in Name : \E n \in dt_find(path) \ {NULL} :
       \/ Delete(n, nm)
       \/ \E v \in Val : Set(n, nm, v)
  /\ applied' = applied + 1
  /\ UNCHANGED <<tool, pc, resources, failed, output, status>>

\* No '=', no '/', no such node, no value of a known form, or an edit refused.
Reject ==
  /\ ReadPiece
  /\ failed' = failed + 1
  /\ UNCHANGED <<tool, pc, resources, tree, applied, output, status>>

\* malloc's result is not looked at before a string is copied (dt_apply.c:85-86).
NoMemory ==
  /\ ReadPiece
  /\ \E path \in Path : dt_find(path) # {NULL}
  /\ pc' = "dead" /\ status' = 128
  /\ UNCHANGED <<tool, resources, tree, applied, failed, output>>

\* Nothing applied, nothing written.
EndOfPatches ==
  /\ pc = "lines" /\ left = 0
  /\ pf' = FALSE
  /\ Goto(IF applied > 0 THEN "write" ELSE "cleanup")
  /\ UNCHANGED <<tool, buf, tree, counts, output>>

-----------------------------------------------------------------------------
\* dt_write returned -1.
WriteFailed ==
  /\ saved' = FALSE
  /\ IF tool = "dt-apply"
     THEN failed' = failed + 1 /\ UNCHANGED applied
     ELSE applied' = 0 /\ UNCHANGED failed

\* The image is made in memory first; opening the file for writing empties it.
OpenOutput ==
  /\ pc = "write"
  /\ \/ WriteFailed /\ Goto("cleanup") /\ UNCHANGED <<disk, written>>
     \/ /\ Goto("fwrite")
        /\ disk' = "torn" /\ written' = store
        /\ UNCHANGED <<saved, applied, failed>>
  /\ UNCHANGED <<tool, resources, tree, left>>

\* Any part of the image may be in the file until it is flushed; fclose's result is not
\* looked at.
fwrite ==
  /\ pc = "fwrite"
  /\ Goto("cleanup")
  /\ \/ WriteFailed /\ UNCHANGED disk
     \/ /\ saved' = TRUE
        /\ disk' \in {"whole"} \cup (IF FlushFails THEN {"torn"} ELSE {})
        /\ UNCHANGED <<applied, failed>>
  /\ UNCHANGED <<tool, resources, tree, left, written>>

ExitFailures == IF tool = "dt-apply" THEN failed ELSE 1 - applied
ExitAppliedIsEnough == IF applied > 0 THEN 0 ELSE 1
ExitCode ==
  CASE tool = "dt-apply" -> IF failed > 0 THEN 1 ELSE 0
    [] tool = "dt-patch" -> IF applied > 0 THEN 0 ELSE 1
    [] tool = "dt-parse" -> 0

\* First the tree, whose properties point into the buffer, then the buffer.
BufferFirst == buf' = FALSE /\ UNCHANGED tree
TreeFirst == Store!Release /\ UNCHANGED <<buf, asked>>

FreeTree ==
  /\ pc \in {"cleanup", "nopatches"}
  /\ Goto(IF pc = "cleanup" THEN "free" ELSE "nopatches_free")
  /\ TreeFirst
  /\ UNCHANGED <<tool, pf, counts, output>>
FreeBuffer ==
  /\ pc \in {"free", "nopatches_free"}
  /\ Exit(IF pc = "free" THEN ExitCode ELSE 1)
  /\ buf' = FALSE
  /\ UNCHANGED <<tool, pf, tree, counts, output>>

Step ==
  \/ slurp \/ dt_parse \/ Dump \/ Patch
  \/ OpenPatches \/ Skip \/ Apply \/ Reject \/ NoMemory \/ EndOfPatches
  \/ OpenOutput \/ fwrite \/ FreeTree \/ FreeBuffer

Kill ==
  /\ pc \notin {"exit", "dead"}
  /\ pc' = "dead" /\ status' = 128
  /\ UNCHANGED <<tool, resources, tree, counts, output>>

Next == Step \/ Kill

Spec == Init /\ [][Next]_vars

-----------------------------------------------------------------------------
\* Every variable keeps its type.
TypeOK ==
  /\ tool \in Tools
  /\ pc \in {"slurp", "parse", "ready", "lines", "write", "fwrite", "cleanup", "free",
           "nopatches", "nopatches_free", "exit", "dead"}
  /\ buf \in BOOLEAN /\ pf \in BOOLEAN /\ open \in BOOLEAN /\ saved \in BOOLEAN
  /\ store \in [Node -> Seq(Store!Entry)] /\ written \in [Node -> Seq(Store!Entry)]
  /\ asked \in [Node -> [Name -> Val \cup {Absent}]]
  /\ left \in 0..MaxLines /\ applied \in 0..MaxLines + 1 /\ failed \in 0..MaxLines + 1
  /\ disk \in {"old", "torn", "whole"}
  /\ status \in {-1, 0, 1, 2, 128}

\* Exit status 0 can be relied on (run_lab.py:57 does, with check=True): no directive
\* failed, and the output is the whole tree, unless there was nothing to write; from
\* dt-patch, 0 always means a whole output, and any other status that there is none.
StatusTold ==
  /\ status = 0 => failed = 0 /\ disk # "torn" /\ (applied > 0 => disk = "whole")
  /\ tool = "dt-patch" /\ status \in {0, 1, 2} => (status = 0 <=> disk = "whole")

\* An output that is whole says what the input and the directives, in their order, say,
\* and for every other property what the input said.
OutputAsAsked == disk = "whole" => Meaning(written) = asked

\* apple_dt.h:94: upsert modifies the property when it exists. From an input without
\* repeated names no tool makes a tree with one.
NoDuplicates ==
  \A n \in Node : \A i, j \in DOMAIN store[n] : store[n][i].name = store[n][j].name => i = j

\* Every way out gives back the tree, then the buffer it points into, and the patch file,
\* the early ones included (dt_apply.c:139-142, 161, 173-174; dt_patch.c:108-110).
CleanExit ==
  /\ open => buf
  /\ pc = "exit" => ~buf /\ ~open /\ ~pf

\* What a path means, apart from the search: the nodes that are one by one a child of the
\* one before, from the root on, and may be taken for the names of the path.
Spelled(path) ==
  {n \in Node : \E on \in [0..Len(path) -> Node] :
     /\ on[0] = Root /\ on[Len(path)] = n
     /\ \A i \in 1..Len(path) :
          /\ path[i] \in node_name(on[i])
          /\ \E k \in DOMAIN Kids[on[i - 1]] : Kids[on[i - 1]][k] = on[i]}

\* Each node is taken for one name only, and no two children of a node for the same.
ToldApart ==
  \A n \in Node : \A j, k \in DOMAIN Kids[n] :
    \A s \in node_name(Kids[n][j]), t \in node_name(Kids[n][k]) : j = k <=> s = t

\* apple_dt.h:60-61: dt_find looks up a node by its path. Whatever the directives have
\* made of the nodes' names, it yields a node that the path spells or none, and
\* where names are told apart the one that it spells whenever there is one
\* (apple_dt.c:123-139). Among namesakes it may miss it.
PathMeansNode ==
  \A path \in Path :
    /\ dt_find(path) \subseteq Spelled(path) \cup {NULL}
    /\ ToldApart => dt_find(path) = IF Spelled(path) = {} THEN {NULL} ELSE Spelled(path)

\* apple_dt.h:70: dt_write returns 0 when the tree was written.
WriteReported == saved => disk = "whole"
=============================================================================
