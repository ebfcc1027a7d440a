------------------------------- MODULE MCDTTree -------------------------------
(***************************************************************************)
(* Small instances of DTTree: two nodes, one name too long for the 32-byte *)
(* field, and parsed trees that hold a repeated name, a placeholder, an    *)
(* empty property or no property at all.                                   *)
(***************************************************************************)
EXTENDS DTTree, TLC

CONSTANTS root, chosen, p1, p2, p3, b1, b2, b3, r1, r2

MCNode == {root, chosen}
MCProp == {p1, p2, p3}
MCBuf == {r1, r2}

\* "long" is a name of 32 characters or more whose first 31 are "args".
MCStored == [nm \in Name |-> IF nm = "long" THEN "args" ELSE nm]
MCLength == [v \in Val |-> IF v = "" THEN 0 ELSE 3]

Struct(nm, r, v, fl) ==
  [name |-> nm, length |-> MCLength[v], flag |-> fl, data |-> r, owns_data |-> FALSE]
NoProps == [p \in MCProp |-> JUNK]
Input(v) == [a \in Addr |-> IF a \in MCBuf THEN v ELSE JUNK]
Tree(onRoot, onChosen, structs, m) ==
  LET ps == [n \in MCNode |-> IF n = root THEN onRoot ELSE onChosen] IN
  [props |-> ps, n_props |-> [n \in MCNode |-> Len(ps[n])], prop |-> structs, mem |-> m]

Sample ==
  Tree(<<p1>>, <<p2>>, [NoProps EXCEPT ![p1] = Struct("name", r1, "ab", FALSE),
                                       ![p2] = Struct("args", r2, "ab", TRUE)], Input("ab"))
Repeated ==
  Tree(<<p1, p2>>, <<>>, [NoProps EXCEPT ![p1] = Struct("args", r1, "ab", FALSE),
                                         ![p2] = Struct("args", r2, "ab", TRUE)], Input("ab"))
EmptyProp ==
  Tree(<<p1>>, <<>>, [NoProps EXCEPT ![p1] = Struct("args", r1, "", TRUE)], Input(""))
Bare == Tree(<<>>, <<>>, NoProps, Input("ab"))

MCParsed == {Sample, Repeated, EmptyProp, Bare}

Symmetry == Permutations(Block)
=============================================================================
