------------------------------- MODULE MCDTTools -------------------------------
(***************************************************************************)
(* Small instances of DTTools: a root with two children, the second with a *)
(* child of its own, under names that clash, are missing or are not        *)
(* terminated, and patch files of up to three pieces.                      *)
(***************************************************************************)
EXTENDS DTTools

MCNode == {"root", "first", "second", "map"}
MCKids == [n \in MCNode |->
  CASE n = "root" -> <<"first", "second">> [] n = "second" -> <<"map">> [] OTHER -> <<>>]
MCStored == [nm \in Name |-> IF nm = "long" THEN "args" ELSE nm]

\* "raw" is bytes without a NUL, followed in memory by anything.
MCText == [v \in Val |-> IF v = "raw" THEN {"chosen", "raw..."} ELSE {v}]
MCPath == {<<>>, <<"chosen">>, <<"chosen", "map">>}

Entry(nm, v) == [name |-> nm, val |-> v, flag |-> FALSE]
Tree(f, s, m) ==
  [n \in MCNode |->
     CASE n = "first" -> f [] n = "second" -> s [] n = "map" -> m [] OTHER -> <<>>]

\* One node of each name; two siblings of one name; names missing, empty or raw.
Plain == Tree(<<Entry("name", "map")>>, <<Entry("name", "chosen"), Entry("args", "map")>>,
              <<Entry("name", "map")>>)
Clash == Tree(<<Entry("args", ""), Entry("name", "chosen")>>, <<Entry("name", "chosen")>>,
              <<Entry("name", "map")>>)
Odd == Tree(<<Entry("args", "map")>>, <<Entry("name", "raw")>>, <<Entry("name", "")>>)

MCTrees == {Plain, Clash, Odd}

\* No property whose name a longer one could be cut down to.
Unnamed == Tree(<<>>, <<Entry("name", "chosen")>>, <<>>)
MCUnnamed == {Unnamed}
=============================================================================
