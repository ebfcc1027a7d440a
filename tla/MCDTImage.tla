------------------------------- MODULE MCDTImage -------------------------------
(***************************************************************************)
(* Small instances of DTImage: the sample, and files of up to three nodes  *)
(* as other tools may write them: a flag set, a name that fills its field, *)
(* noise after a name or in the padding, bytes after the tree.             *)
(***************************************************************************)
EXTENDS DTImage

\* "long" is a name of 32 characters whose first 31 are "name".
MCNode == 1..3
MCStored == [nm \in Name |-> IF nm = "long" THEN "name" ELSE nm]
MCVal == {"", "chosen", "arm-io", "1", "0200", "iPhoneXX", "device-tree"}
MCLength ==
  [v \in Val |->
     CASE v = "" -> 0 [] v \in {"chosen", "arm-io"} -> 7 [] v = "1" -> 4 [] v = "0200" -> 8
       [] v = "iPhoneXX" -> 9 [] v = "device-tree" -> 12]

Prop(nm, v, fl) == Property([name |-> nm, val |-> v, flag |-> fl], FALSE, FALSE)

\* A root with two children, a flag set.
Family ==
  WholeFile(<<Header(1, 2), Prop("name", "chosen", FALSE),
              Header(1, 0), Prop("name", "1", TRUE), Header(0, 0)>>)
\* A chain, with an empty property and a repeated name at its end.
Chain ==
  WholeFile(<<Header(0, 1), Header(0, 1),
              Header(2, 0), Prop("name", "", TRUE), Prop("name", "chosen", FALSE)>>)
Bare == WholeFile(<<Header(0, 0)>>)

Canonical == {Family, Chain, Bare}

\* Files that are trees to their last byte, though not of dt_write's own making.
Noisy ==
  {WholeFile(<<Header(1, 0), Prop("long", "chosen", FALSE)>>),
   WholeFile(<<Header(1, 0), Property([name |-> "name", val |-> "chosen", flag |-> FALSE],
                                      TRUE, FALSE)>>),
   WholeFile(<<Header(1, 0), Property([name |-> "name", val |-> "chosen", flag |-> FALSE],
                                      FALSE, TRUE)>>)}

\* More children, and more properties, than a node may have.
Wide == WholeFile(<<Header(0, 3), Header(0, 0), Header(0, 0), Header(0, 0)>>)
Long == WholeFile(<<Header(4, 0)>> \o [i \in 1..4 |-> Prop("name", "1", FALSE)])

\* Those, files with bytes after the tree, files cut short and past a limit.
Foreign ==
  Canonical \cup Noisy \cup {[Bare EXCEPT !.size = @ + 5], [Family EXCEPT !.size = @ - 4],
                          Wide, Long}
=============================================================================
