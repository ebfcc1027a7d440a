-------------------------------- MODULE MCDTText --------------------------------
(***************************************************************************)
(* Lines for DTText, at a buffer of 64 characters: directives of each form *)
(* under several layouts, comments around the length of the buffer, and    *)
(* the printed values of every short run of a few telling bytes.           *)
(***************************************************************************)
EXTENDS DTText, FiniteSets

\* The printable characters, in the order of their codes from 32.
Printable ==
  " !\"#$%&'()*+,-./0123456789:;<=>?@ABCDEFGHIJKLMNOPQRSTUVWXYZ[\\]^_.abcdefghijklmnopqrstuvwxyz"
Code == [i \in 1..Len(Printable) |-> SubSeq(Printable, i, i)]
C(string) ==
  [i \in 1..Len(string) |-> 31 + CHOOSE k \in DOMAIN Code \ {65} : Code[k] = SubSeq(string, i, i)]

\* What is written as a value, and the bytes it is to be.
Value(string, data) == [text |-> C(string), data |-> data]
Text(string) == Value("\"" \o string \o "\"", C(string) \o <<0>>)
U32(n) == [k \in 1..4 |-> (n \div ByteSize^(k - 1)) % ByteSize]
Values ==
  {Text(""), Text("a"), Text("-v a=1"), Text("a#b"), Text("a \"b\" c"), Text(" a "),
   Value("<0x1>", U32(1)), Value("<10>", U32(10)), Value("<010>", U32(8)),
   Value("<0>", U32(0)), Value("<0xfffffff>", U32(16^7 - 1)), Value("<0xaB>", U32(171)), Value("<0X7>", U32(7)),
   Value("<-1>", U32(ByteSize^4 - 1)),
   Value("[]", <<>>), Value("[00 00 00 02]", <<0, 0, 0, 2>>), Value("[1,2, 3]", <<1, 2, 3>>),
   Value("[7f 0]", <<127, 0>>)}
NodesProps == {<<"/", "/p">>, <<"/a", "/a/p">>, <<"/a/b", "/a/b/p">>}

\* Around the '=' and the line; a comment behind the value.
Layouts == {<<"", "=", "">>, <<"  ", " = ", " ">>, <<"", "  =", " # it's">>}
Ends == {<<>>, <<10>>, <<13, 10>>}

Directives ==
  {[kind |-> "directive", means |-> Sets(C(np[1]), C("p"), v.data),
    text |-> C(l[1] \o np[2] \o l[2]) \o v.text \o C(l[3]) \o e] :
       np \in NodesProps, v \in Values, l \in Layouts, e \in Ends}
  \cup
  {[kind |-> "directive", means |-> Deletes(C(np[1]), C("p")),
    text |-> C(np[2] \o " = !delete ") \o e] : np \in NodesProps, e \in Ends}

\* A directive of a length that fills the buffer or nearly so.
Filling ==
  {[kind |-> "directive", means |-> Sets(C("/"), C("p"), [i \in 1..n |-> 97] \o <<0>>),
    text |-> C("/p=\"") \o [i \in 1..n |-> 97] \o C("\"") \o e] : n \in (Limit - 10)..(Limit - 2), e \in Ends}

\* Comments with a directive inside, at the beginning or about the end of the buffer.
Comments ==
  {[kind |-> "comment", means |-> Nothing,
    text |-> C(b) \o [i \in 1..n |-> 45] \o C("/p=<1>") \o e] :
       b \in {"#", "  # "}, n \in {0} \cup (Limit - 12)..Limit, e \in Ends}
  \cup {[kind |-> "comment", means |-> Nothing, text |-> [i \in 1..n |-> 32] \o e] :
          n \in 1..(Limit + 5), e \in Ends}

\* Runs of up to five of these bytes, and the longest list that is printed whole.
Telling == {0, 1, 34, 97}
Data == UNION {[1..n -> Telling] : n \in 1..5} \cup {[i \in 1..n |-> 100 + i] : n \in 15..16}
NulInside(data) == \E i \in 1..(Len(data) - 1) : data[i] = 0
Shown ==
  {[kind |-> "shown", means |-> Sets(C("/"), C("p"), data), text |-> C("/p = ") \o dump_prop(data) \o <<10>>] :
     data \in {d \in Data : ~(prop_is_string(d) /\ NulInside(d))}}

MCLines == Directives \cup Filling \cup Comments \cup Shown

\* dt_apply.c:11-14
Examples ==
  {[kind |-> "example", means |-> m[1], text |-> C(m[2]) \o <<10>>] :
     m \in {<<Sets(C("/chosen"), C("boot-args"), C("-v debug=0x14e") \o <<0>>),
              "/chosen/boot-args      = \"-v debug=0x14e\"     # string (con comillas)">>,
            <<Sets(C("/chosen"), C("debug-enabled"), U32(1)),
              "/chosen/debug-enabled  = <0x1>                # u32 (entre <>)">>,
            <<Sets(C("/arm-io"), C("ranges"), <<0, 0, 0, 2>>),
              "/arm-io/ranges         = [00 00 00 02]        # bytes hex (entre [])">>,
            <<Deletes(C("/chosen"), C("delete-me")),
              "/chosen/delete-me      = !delete              # elimina la propiedad">>}}
=============================================================================
