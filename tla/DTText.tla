--------------------------------- MODULE DTText ---------------------------------
(***************************************************************************)
(* The text forms of a property: the directives dt-apply reads from a      *)
(* patch file (native/tools/dt_apply.c), and what dt-parse prints of a     *)
(* property (dump_prop, native/src/apple_dt.c:141-167).                    *)
(*                                                                         *)
(* Characters are their ASCII codes, which are bytes of data as well.      *)
(* Integers wrap and saturate as in C, at sizes a bound makes small.       *)
(***************************************************************************)
EXTENDS Integers, Sequences

CONSTANTS
  Lines,       \* lines of a patch file, [kind, text, means]: who wrote it, and to say what
  Limit,       \* the characters fgets takes at a time: 1023
  NodeCap,     \* the room for the path of a node: 512
  MaxBytes,    \* the room for a list of bytes: 4096
  ByteSize,    \* of a byte: 2^8; a u32 is four
  LongSize     \* of strtoul's result: 2^64

VARIABLES
  line,        \* the line being read,
  left,        \* what is left of it,
  outcomes     \* and what each piece of it said

vars == <<line, left, outcomes>>

NUL == 0
NL == 10
Delete == <<33, 100, 101, 108, 101, 116, 101>>   \* "!delete"
char == [space |-> 32, quote |-> 34, hash |-> 35, plus |-> 43, comma |-> 44, minus |-> 45,
         slash |-> 47, zero |-> 48, less |-> 60, equals |-> 61, more |-> 62, X |-> 88,
         open |-> 91, close |-> 93, x |-> 120]

Space == 9..13 \cup {32}
isspace(c) == c \in Space
isprint(c) == c \in 32..126
\* The value of a digit in the bases up to 16; 16 for any other character.
digit(c) ==
  CASE c \in 48..57 -> c - 48 [] c \in 97..102 -> c - 87 [] c \in 65..70 -> c - 55
    [] OTHER -> 16

Least(S) == CHOOSE i \in S : \A j \in S : i <= j
Greatest(S) == CHOOSE i \in S : \A j \in S : i >= j
From(s, i) == SubSeq(s, i, Len(s))
Upto(s, i) == SubSeq(s, 1, i)
Places(s, c) == {i \in DOMAIN s : s[i] = c}
strchr(s, c) == Least(Places(s, c))
strrchr(s, c) == Greatest(Places(s, c))

\* What is left of s behind the characters of the set C it begins with.
Behind(s, C) ==
  LET others == {i \in DOMAIN s : s[i] \notin C} IN
  IF others = {} THEN <<>> ELSE From(s, Least(others))

trim(s) ==
  LET inner == {i \in DOMAIN s : ~isspace(s[i])} IN
  IF inner = {} THEN <<>> ELSE SubSeq(s, Least(inner), Greatest(inner))

-----------------------------------------------------------------------------
\* The digits of base b that u begins with: how many, and their value, or LongSize when it
\* is past what fits.
Run(u, b) ==
  LET stops == {i \in DOMAIN u : digit(u[i]) >= b} IN
  IF stops = {} THEN Len(u) ELSE Least(stops) - 1
ValueOf(u, b) ==
  LET value[i \in 0..Run(u, b)] ==
        IF i = 0 THEN 0
        ELSE IF value[i - 1] > (LongSize - 1 - digit(u[i])) \div b THEN LongSize
        ELSE value[i - 1] * b + digit(u[i])
  IN value[Run(u, b)]

\* strtoul: blanks, a sign, the prefix of the base, and the digits there are, none at all
\* included; base 0 takes the base from the prefix.
Hexed(t) == Len(t) > 2 /\ t[1] = char.zero /\ t[2] \in {char.x, char.X} /\ digit(t[3]) < 16
strtoul(text, base) ==
  LET s == Behind(text, Space)
      sign == s # <<>> /\ s[1] \in {char.plus, char.minus}
      t == IF sign THEN Tail(s) ELSE s
      hexed == base \in {0, 16} /\ Hexed(t)
      b == IF base # 0 THEN base ELSE IF hexed THEN 16 ELSE IF t # <<>> /\ t[1] = char.zero THEN 8 ELSE 10
      u == IF hexed THEN From(t, 3) ELSE t
      v == ValueOf(u, b)
  IN [val |-> IF v = LongSize THEN LongSize - 1
              ELSE IF sign /\ s[1] = char.minus THEN (LongSize - v) % LongSize ELSE v,
      rest |-> From(u, Run(u, b) + 1)]

\* A u32 in memory, its lowest byte first.
WordUncut(v) == <<v, v \div ByteSize, v \div (ByteSize * ByteSize), v \div (ByteSize * ByteSize * ByteSize)>>
WordOf(v) == [k \in 1..4 |-> WordUncut(v)[k] % ByteSize]

\* [hh hh ...]: numbers up to the first character that is none.
Listed(text) ==
  LET list[n \in 0..Len(text)] ==    \* of the last n characters
        LET s == Behind(From(text, Len(text) - n + 1), {char.space, char.comma}) IN
        IF s = <<>> \/ digit(s[1]) = 16 THEN <<>>
        ELSE LET r == strtoul(s, 16) IN <<r.val % ByteSize>> \o list[Len(r.rest)]
  IN LET all == list[Len(text)] IN Upto(all, IF Len(all) < MaxBytes THEN Len(all) ELSE MaxBytes)

-----------------------------------------------------------------------------
Nothing == [op |-> "none"]
Refused == [op |-> "refused"]
Sets(node, prop, data) == [op |-> "set", node |-> node, prop |-> prop, data |-> data]
Deletes(node, prop) == [op |-> "delete", node |-> node, prop |-> prop]

\* apply_directive's four forms of a value, as an edit of property prop of the node.
StringToFirst(v) == SubSeq(v, 2, strchr(Tail(v), char.quote))
StringToLast(v) == SubSeq(v, 2, strrchr(v, char.quote) - 1)
Edit(node, prop, v) ==
  CASE v = <<>> -> Refused
    [] v = Delete -> Deletes(node, prop)
    [] v # <<>> /\ v[1] = char.quote ->
         IF strrchr(v, char.quote) = 1 THEN Refused
         ELSE Sets(node, prop, StringToLast(v) \o <<NUL>>)
    [] v # <<>> /\ v[1] = char.less -> Sets(node, prop, WordOf(strtoul(Tail(v), 0).val))
    [] v # <<>> /\ v[1] = char.open -> Sets(node, prop, Listed(Tail(v)))
    [] OTHER -> Refused

\* split_path: at the last '/'; a property of the root has it in front.
apply_directive(path, v) ==
  IF Places(path, char.slash) = {} THEN Refused
  ELSE LET at == strrchr(path, char.slash) IN
       IF at > NodeCap THEN Refused
       ELSE Edit(IF at = 1 THEN <<char.slash>> ELSE Upto(path, at - 1), From(path, at + 1), v)

\* What main makes of one piece.
Directive(piece) ==
  LET s == trim(piece) IN
  IF s = <<>> THEN Nothing
  ELSE IF s[1] = char.hash THEN Nothing
  ELSE IF Places(s, char.equals) = {} THEN Refused
  ELSE LET eq == strchr(s, char.equals) IN
       apply_directive(trim(Upto(s, eq - 1)), trim(From(s, eq + 1)))

-----------------------------------------------------------------------------
Init == line \in Lines /\ left = line.text /\ outcomes = <<>>

\* fgets: through the newline, and no more than it has room for.
LimitShort == Limit - 1
Room == Limit
fgets ==
  /\ left # <<>>
  /\ LET ends == {Len(left), Room} \cup Places(left, NL)
         n == Least(ends)
     IN /\ outcomes' = Append(outcomes, Directive(Upto(left, n)))
        /\ left' = From(left, n + 1)
  /\ UNCHANGED line

Next == fgets
Spec == Init /\ [][Next]_vars

-----------------------------------------------------------------------------
\* prop_is_string
prop_is_string(data) ==
  /\ Len(data) \in 1..256
  /\ \A i \in 1..(Len(data) - 1) : data[i] = NUL \/ isprint(data[i])
  /\ data[Len(data)] = NUL

HexPlace == <<268435456, 16777216, 1048576, 65536, 4096, 256, 16, 1>>
Hex(v, width) ==
  [k \in 1..width |->
     LET d == (v \div HexPlace[8 - width + k]) % 16 IN IF d < 10 THEN 48 + d ELSE 87 + d]
Word(data) == data[1] + ByteSize * (data[2] + ByteSize * (data[3] + ByteSize * data[4]))

\* dump_prop: what it prints of the value; of bytes no more than 16.
BytesPacked(data) ==
  [i \in 1..(2 * Len(data)) |-> Hex(data[((i - 1) \div 2) + 1], 2)[((i - 1) % 2) + 1]]
BytesApart(data) ==
  [i \in 1..(3 * Len(data)) |->
     Append(Hex(data[((i - 1) \div 3) + 1], 2), char.space)[((i - 1) % 3) + 1]]
dump_prop(data) ==
  IF data = <<>> THEN <<>>
  ELSE IF prop_is_string(data)
  THEN <<char.quote>> \o Upto(data, strchr(data, NUL) - 1) \o <<char.quote>>
  ELSE IF Len(data) = 4
  THEN <<char.less, char.zero, char.x>> \o Hex(Word(data), 8) \o <<char.more>>
  ELSE <<char.open>> \o BytesApart(Upto(data, IF Len(data) < 16 THEN Len(data) ELSE 16)) \o <<char.close>>

-----------------------------------------------------------------------------
(***************************************************************************)
(* The language of a patch file, said without the program that reads it:   *)
(* what a line has to look like to mean an edit.                           *)
(***************************************************************************)
Byte == 0..(ByteSize - 1)
Words == ByteSize * ByteSize * ByteSize * ByteSize

\* s is f, which neither begins nor ends with a blank, with blanks around it.
Padded(s, f) ==
  \E i, j \in DOMAIN s :
    /\ i <= j /\ ~isspace(s[i]) /\ ~isspace(s[j])
    /\ \A k \in DOMAIN s : k < i \/ k > j => isspace(s[k])
    /\ f = SubSeq(s, i, j)

\* Digits of base b, and the numerals of C.
AreDigits(t, b) == t # <<>> /\ \A i \in DOMAIN t : digit(t[i]) < b
Number(t, b) ==
  LET number[i \in 0..Len(t)] == IF i = 0 THEN 0 ELSE number[i - 1] * b + digit(t[i])
  IN number[Len(t)]
Numeral(t, n) ==
  \/ AreDigits(t, 10) /\ t[1] # char.zero /\ n = Number(t, 10)
  \/ AreDigits(t, 8) /\ t[1] = char.zero /\ n = Number(t, 8)
  \/ Hexed(t) /\ AreDigits(From(t, 3), 16) /\ n = Number(From(t, 3), 16)

\* Numbers to the base 16 with something between: a digit behind a digit goes on with a
\* number, any other begins one.
Bytes(t) ==
  LET bytes[i \in 0..Len(t)] ==
        IF i = 0 THEN <<>>
        ELSE IF digit(t[i]) = 16 THEN bytes[i - 1]
        ELSE IF i > 1 /\ digit(t[i - 1]) < 16
        THEN [bytes[i - 1] EXCEPT ![Len(bytes[i - 1])] = @ * 16 + digit(t[i])]
        ELSE Append(bytes[i - 1], digit(t[i]))
  IN bytes[Len(t)]

\* The three ways to write the value of a property; what follows is of no matter, except
\* that a string goes on to the last quote.
Quotes(inside, data) == data = inside \o <<NUL>>
Counts(inside, data) ==
  /\ Len(data) = 4
  /\ \/ Numeral(inside, Word(data))
     \/ inside # <<>> /\ inside[1] = char.minus /\ Word(data) > 0
        /\ Numeral(Tail(inside), Words - Word(data))
Lists(inside, data) ==
  /\ \A i \in DOMAIN inside : digit(inside[i]) < 16 \/ inside[i] \in {char.space, char.comma}
  /\ Len(data) <= MaxBytes
  /\ data = Bytes(inside)
Spells(v, data) ==
  /\ data \in Seq(Byte)
  /\ \E z \in 2..Len(v) :
       LET inside == SubSeq(v, 2, z - 1) IN
       \/ /\ v[1] = char.quote /\ v[z] = char.quote /\ Quotes(inside, data)
          /\ \A k \in (z + 1)..Len(v) : v[k] # char.quote
       \/ v[1] = char.less /\ v[z] = char.more /\ Counts(inside, data)
       \/ v[1] = char.open /\ v[z] = char.close /\ Lists(inside, data)

\* The path of a node from the root, and of a property of it.
PathOf(node, prop) == (IF node = <<char.slash>> THEN <<>> ELSE node) \o <<char.slash>> \o prop

\* A path, '=', and something from i to j, with blanks around each.
Assigns(text, node, prop, i, j) ==
  /\ i <= j /\ ~isspace(text[i]) /\ ~isspace(text[j])
  /\ \A k \in (j + 1)..Len(text) : isspace(text[k])
  /\ node \in Seq(Byte) /\ node # <<>> /\ node[1] = char.slash /\ Len(node) < NodeCap
  /\ prop \in Seq(Byte) /\ Places(prop, char.slash) = {}
  /\ \E e \in 1..(i - 1) :
       /\ Places(Upto(text, e), char.equals) = {e}
       /\ \A k \in (e + 1)..(i - 1) : isspace(text[k])
       /\ Padded(Upto(text, e - 1), PathOf(node, prop))

\* A line that sets a property or deletes one, a comment or a blank line.
IsDirective(text, means) ==
  \E i, j \in DOMAIN text :
    /\ Assigns(text, means.node, means.prop, i, j)
    /\ \/ /\ means.op = "set"
          /\ means = Sets(means.node, means.prop, means.data)
          /\ Spells(SubSeq(text, i, j), means.data)
       \/ means = Deletes(means.node, means.prop) /\ SubSeq(text, i, j) = Delete
IsComment(text) ==
  \A i \in DOMAIN text :
    isspace(text[i]) \/ \E j \in 1..i : text[j] = char.hash /\ \A k \in 1..(j - 1) : isspace(text[k])

\* What dt-parse prints of a value that it prints in full, as a directive.
IsShown(text, means) ==
  /\ means = Sets(means.node, means.prop, means.data)
  /\ means.data \in Seq(Byte) /\ means.data # <<>>
  /\ prop_is_string(means.data) => \A i \in 1..(Len(means.data) - 1) : means.data[i] # NUL
  /\ ~prop_is_string(means.data) => Len(means.data) <= 16
  /\ \E i, j \in DOMAIN text :
       /\ Assigns(text, means.node, means.prop, i, j)
       /\ SubSeq(text, i, j) = dump_prop(means.data)

ASSUME TextAssumption ==
  /\ Limit \in Nat \ {0} /\ NodeCap \in Nat /\ MaxBytes \in Nat /\ 16 <= MaxBytes
  /\ ByteSize \in {128, 256}
  /\ LongSize \in Nat \ {0} /\ LongSize % Words = 0
  /\ \A l \in Lines :
       /\ l.text \in Seq(1..(ByteSize - 1)) /\ Places(l.text, NL) \subseteq {Len(l.text)}
       /\ l.kind = "directive" => IsDirective(l.text, l.means)
       /\ l.kind = "comment" => IsComment(l.text)
       /\ l.kind = "shown" => IsShown(l.text, l.means)

-----------------------------------------------------------------------------
\* What is left is the end of the line, and every byte set is one.
TypeOK ==
  /\ \E i \in 0..Len(line.text) : left = From(line.text, i + 1)
  /\ \A i \in DOMAIN outcomes :
       /\ outcomes[i].op \in {"none", "refused", "set", "delete"}
       /\ outcomes[i].op = "set" => outcomes[i].data \in Seq(0..(ByteSize - 1))

ReadAs(kind) == line.kind = kind /\ left = <<>>
Fits == \A i \in DOMAIN line.text : i > Limit => line.text[i] = NL
\* The pieces of the line made one edit, e.
Only(e) ==
  \E i \in DOMAIN outcomes :
    /\ outcomes[i] = e
    /\ \A j \in DOMAIN outcomes \ {i} : outcomes[j] = Nothing

\* A directive that fits the buffer, its newline perhaps not, is the edit it was written
\* for: the string keeps its '=', '#' and '"', the number its base, the
\* property its node (dt_apply.c:44-113, 152-156).
Understood == ReadAs("directive") /\ Fits => Only(line.means)

\* A comment or a blank line that the buffer holds is no edit, nor is any part of one,
\* whatever directives it quotes (dt_apply.c:147-150). It must fit: see CommentsNeverApplied.
CommentsIgnored ==
  ReadAs("comment") /\ Fits => \A i \in DOMAIN outcomes : outcomes[i] = Nothing

\* examples/lab.patches:5: lines with '#' are ignored, however long they are. But what
\* fgets leaves of a line is a line of its own to dt-apply (dt_apply.c:147-150).
CommentsNeverApplied ==
  ReadAs("comment") => \A i \in DOMAIN outcomes : outcomes[i] \in {Nothing, Refused}

\* What dt-parse prints of a value, given to dt-apply, makes that value again, whichever of
\* the three forms it takes it for, unless it was printed short: more than 16 bytes, or
\* text with a NUL inside, which a u32 of 0 is as well (apple_dt.c:143-167).
ShownReadsBack == ReadAs("shown") /\ Fits => Only(line.means)

\* dt_apply.c:10-14: the lines that show the format, their comments included, do what
\* their comments say.
ExamplesWork == ReadAs("example") => Only(line.means)
=============================================================================
