----------------------------- MODULE DTText_proofs -----------------------------
(***************************************************************************)
(* For every file of directives, every length of the buffer and every size *)
(* of strtoul's result: a line of the language of DTText is read as the    *)
(* edit it means, a comment as none, and what dt-parse prints of a value   *)
(* as that value.                                                          *)
(***************************************************************************)
EXTENDS DTText, Facts

Text == Seq(1..(ByteSize - 1))

-----------------------------------------------------------------------------
(***************************************************************************)
(* Places in a sequence, and its parts.                                    *)
(***************************************************************************)
LEMMA LeastIs ==
  ASSUME NEW S \in SUBSET Nat, S # {}
  PROVE  Least(S) \in S /\ \A j \in S : Least(S) <= j
BY Smallest DEF Least

LEMMA LeastOnly ==
  ASSUME NEW S \in SUBSET Nat, NEW m \in S, \A j \in S : m <= j
  PROVE  Least(S) = m
<1>1. Least(S) \in S /\ Least(S) <= m /\ m <= Least(S)
  BY LeastIs
<1>2. Least(S) \in Nat /\ m \in Nat
  BY <1>1
<1> QED
  BY <1>1, <1>2

LEMMA GreatestOnly ==
  ASSUME NEW S \in SUBSET Nat, NEW m \in S, \A j \in S : m >= j
  PROVE  Greatest(S) = m
<1>1. \A i \in S : (\A j \in S : i >= j) => i = m
  OBVIOUS
<1> QED
  BY <1>1 DEF Greatest

LEMMA GreatestIs ==
  ASSUME NEW n \in Nat, NEW S \in SUBSET (1..n), S # {}
  PROVE  Greatest(S) \in S /\ \A j \in S : Greatest(S) >= j
<1> DEFINE Above == {i \in 0..n : \A y \in S : y <= i}
<1>1. PICK m \in Above : \A k \in Above : m <= k
  <2>1. n \in Above /\ Above \in SUBSET Nat
    OBVIOUS
  <2> HIDE DEF Above
  <2> QED
    BY <2>1, Smallest
<1>2. m \in S
  <2> SUFFICES ASSUME m \notin S PROVE FALSE
    OBVIOUS
  <2>1. \A y \in S : y \in Nat /\ y >= 1 /\ y <= m /\ y # m
    OBVIOUS
  <2>2. PICK y \in S : TRUE
    OBVIOUS
  <2>3. m - 1 \in Above
    BY <2>1, <2>2
  <2> QED
    BY <1>1, <2>3
<1>3. S \in SUBSET Nat /\ \A y \in S : m >= y
  OBVIOUS
<1> QED
  BY <1>2, <1>3, GreatestOnly

\* A part of a sequence, which the provers take apart only when told to: from i to j,
\* and what t is if it is a copy of n elements from i on.
Mid(s, i, j) == SubSeq(s, i, j)
Bounds(s, i, j, n) ==
  i \in Nat /\ j \in Nat /\ n \in Nat /\ 1 <= i /\ j <= Len(s) /\ n = j - i + 1
Copies(t, s, i, n, E) ==
  t \in Seq(E) /\ Len(t) = n /\ DOMAIN t = 1..n /\ \A k \in 1..n : t[k] = s[i + k - 1]

LEMMA PartIs ==
  ASSUME NEW E, NEW s \in Seq(E), NEW i, NEW j, NEW n, Bounds(s, i, j, n)
  PROVE  Copies(Mid(s, i, j), s, i, n, E)
BY DEF Mid, Bounds, Copies

LEMMA SameSeq ==
  ASSUME NEW E, NEW s \in Seq(E), NEW t \in Seq(E), Len(s) = Len(t),
         \A k \in 1..Len(s) : s[k] = t[k]
  PROVE  s = t
OBVIOUS

\* A part, from k to l, of the part from i to j is the part from a to b.
IsPart(E, s, i, j, k, l, a, b) ==
  /\ s \in Seq(E) /\ i \in Nat /\ j \in Nat /\ k \in Nat /\ l \in Nat
  /\ 1 <= i /\ i <= j + 1 /\ j <= Len(s) /\ 1 <= k /\ k <= l + 1 /\ l <= j - i + 1
  /\ a = i + k - 1 /\ b = i + l - 1

LEMMA PartOfPart ==
  ASSUME NEW E, NEW s, NEW i, NEW j, NEW k, NEW l, NEW a, NEW b, IsPart(E, s, i, j, k, l, a, b)
  PROVE  Mid(Mid(s, i, j), k, l) = Mid(s, a, b)
<1>0. /\ s \in Seq(E) /\ i \in Nat /\ j \in Nat /\ k \in Nat /\ l \in Nat /\ Len(s) \in Nat
      /\ a \in Nat /\ b \in Nat /\ a = i + k - 1 /\ b = i + l - 1
      /\ 1 <= i /\ i <= j + 1 /\ j <= Len(s) /\ 1 <= k /\ k <= l + 1 /\ l <= j - i + 1
  BY DEF IsPart
<1>1. PICK m \in Nat, n \in Nat : m = j - i + 1 /\ n = l - k + 1
  BY <1>0
<1>2. PICK t, u, v : t = Mid(s, i, j) /\ u = Mid(t, k, l) /\ v = Mid(s, a, b)
  OBVIOUS
<1>3. Copies(t, s, i, m, E)
  <2>1. Bounds(s, i, j, m)
    BY <1>0, <1>1 DEF Bounds
  <2> QED
    BY <1>0, <1>2, <2>1, PartIs
<1>4. Copies(u, t, k, n, E)
  <2>1. Bounds(t, k, l, n) /\ t \in Seq(E)
    BY <1>0, <1>1, <1>3 DEF Bounds, Copies
  <2> QED
    BY <1>2, <2>1, PartIs
<1>5. Copies(v, s, a, n, E)
  <2>1. Bounds(s, a, b, n)
    BY <1>0, <1>1 DEF Bounds
  <2> QED
    BY <1>0, <1>2, <2>1, PartIs
<1>7. ASSUME NEW x \in 1..n PROVE u[x] = v[x]
  <2>1. PICK y \in Nat : y = k + x - 1
    BY <1>0
  <2>2. y \in 1..m /\ i + y - 1 = a + x - 1
    BY <1>0, <1>1, <2>1
  <2>3. u[x] = t[y] /\ t[y] = s[i + y - 1]
    BY <1>3, <1>4, <2>1, <2>2 DEF Copies
  <2>4. v[x] = s[a + x - 1]
    BY <1>5 DEF Copies
  <2> QED
    BY <2>2, <2>3, <2>4
<1>8. u = v
  BY <1>4, <1>5, <1>7, SameSeq DEF Copies
<1> QED
  BY <1>2, <1>8

\* trim, by what is left of the text.
At(s, f, i, j) ==
  /\ i \in Nat /\ j \in Nat /\ 1 <= i /\ i <= j /\ j <= Len(s)
  /\ ~isspace(s[i]) /\ ~isspace(s[j])
  /\ \A k \in 1..Len(s) : k < i \/ k > j => isspace(s[k])
  /\ f = Mid(s, i, j)

LEMMA PaddedAt ==
  ASSUME NEW E, NEW s \in Seq(E), NEW f
  PROVE  Padded(s, f) <=> \E i, j : At(s, f, i, j)
<1>1. PICK n \in Nat : n = Len(s) /\ DOMAIN s = 1..n
  OBVIOUS
<1>2. ASSUME Padded(s, f) PROVE \E i, j : At(s, f, i, j)
  <2>1. PICK i, j \in DOMAIN s :
          /\ i <= j /\ ~isspace(s[i]) /\ ~isspace(s[j])
          /\ \A k \in DOMAIN s : k < i \/ k > j => isspace(s[k])
          /\ f = Mid(s, i, j)
    BY <1>2, Zenon DEF Padded, Mid
  <2>2. At(s, f, i, j)
    BY <1>1, <2>1 DEF At
  <2> QED
    BY <2>2
<1>3. ASSUME NEW i, NEW j, At(s, f, i, j) PROVE Padded(s, f)
  <2>1. /\ i \in DOMAIN s /\ j \in DOMAIN s /\ i <= j /\ ~isspace(s[i]) /\ ~isspace(s[j])
        /\ \A k \in DOMAIN s : k < i \/ k > j => isspace(s[k])
        /\ f = Mid(s, i, j)
    BY <1>1, <1>3 DEF At
  <2> QED
    BY <2>1, Zenon DEF Padded, Mid
<1> QED
  BY <1>2, <1>3

LEMMA PaddedIs ==
  ASSUME NEW E, NEW s \in Seq(E), NEW f, Padded(s, f)
  PROVE  trim(s) = f /\ f # <<>> /\ f \in Seq(E)
<1> DEFINE inner == {i \in DOMAIN s : ~isspace(s[i])}
<1>1. PICK i, j : At(s, f, i, j)
  BY PaddedAt
<1>2. PICK n \in Nat : n = Len(s) /\ DOMAIN s = 1..n
  OBVIOUS
<1>3. i \in inner /\ j \in inner /\ \A k \in inner : i <= k /\ j >= k
  BY <1>1, <1>2 DEF At
<1>4. inner \in SUBSET Nat
  BY <1>2
<1> HIDE DEF inner
<1>5. Least(inner) = i /\ Greatest(inner) = j /\ inner # {}
  BY <1>3, <1>4, LeastOnly, GreatestOnly
<1>6. trim(s) = Mid(s, i, j)
  BY <1>5 DEF trim, inner, Mid
<1>7. PICK m \in Nat : m = j - i + 1 /\ m # 0
  BY <1>1 DEF At
<1>8. Bounds(s, i, j, m)
  BY <1>1, <1>7 DEF At, Bounds
<1>9. Len(f) = m /\ f \in Seq(E)
  BY <1>1, <1>8, PartIs DEF At, Copies
<1>10. f # <<>>
  BY <1>7, <1>9
<1> QED
  BY <1>1, <1>6, <1>9, <1>10 DEF At

LEMMA BlankIs ==
  ASSUME NEW s, \A i \in DOMAIN s : isspace(s[i])
  PROVE  trim(s) = <<>>
BY DEF trim

LEMMA TrimIs ==
  ASSUME NEW E, NEW s \in Seq(E)
  PROVE  \/ trim(s) = <<>> /\ \A i \in DOMAIN s : isspace(s[i])
         \/ Padded(s, trim(s)) /\ trim(s) \in Seq(E)
<1> DEFINE inner == {i \in DOMAIN s : ~isspace(s[i])}
<1>1. CASE inner = {}
  BY <1>1 DEF trim
<1>2. CASE inner # {}
  <2>1. PICK n \in Nat : n = Len(s) /\ DOMAIN s = 1..n
    OBVIOUS
  <2>2. inner \in SUBSET Nat /\ inner \in SUBSET (1..n)
    BY <2>1
  <2>3. /\ Least(inner) \in inner /\ \A k \in inner : Least(inner) <= k
        /\ Greatest(inner) \in inner /\ \A k \in inner : Greatest(inner) >= k
    <3> HIDE DEF inner
    <3> QED
      BY <1>2, <2>2, LeastIs, GreatestIs
  <2>4. PICK i, j \in 1..n : i = Least(inner) /\ j = Greatest(inner)
    BY <2>2, <2>3
  <2>5. i \in inner /\ j \in inner /\ \A k \in inner : i <= k /\ k <= j
    BY <2>2, <2>3, <2>4
  <2>6. trim(s) = Mid(s, i, j)
    BY <1>2, <2>4 DEF trim, Mid
  <2>7. i <= j /\ ~isspace(s[i]) /\ ~isspace(s[j])
    BY <2>5
  <2>8. ASSUME NEW k \in 1..n, k < i \/ k > j PROVE isspace(s[k])
    <3>1. SUFFICES ASSUME ~isspace(s[k]) PROVE FALSE
      OBVIOUS
    <3>2. k \in inner
      BY <2>1, <3>1
    <3> QED
      BY <2>5, <2>8, <3>2
  <2>9. At(s, trim(s), i, j)
    BY <2>1, <2>6, <2>7, <2>8 DEF At
  <2>10. Padded(s, trim(s))
    BY <2>9, PaddedAt
  <2> QED
    BY <2>10, PaddedIs
<1> QED
  BY <1>1, <1>2

\* A blank at the end makes no difference.
LEMMA TrimLast ==
  ASSUME NEW E, NEW s \in Seq(E), s # <<>>, isspace(s[Len(s)])
  PROVE  trim(Upto(s, Len(s) - 1)) = trim(s)
<1>1. PICK n \in Nat, m \in Nat : n = Len(s) /\ DOMAIN s = 1..n /\ m = n - 1
  OBVIOUS
<1>2. PICK t : t = Mid(s, 1, m) /\ t = Upto(s, Len(s) - 1)
  BY <1>1 DEF Upto, Mid
<1>3. t \in Seq(E) /\ Len(t) = m /\ DOMAIN t = 1..m /\ \A k \in 1..m : t[k] = s[k]
  <2>1. Bounds(s, 1, m, m)
    BY <1>1 DEF Bounds
  <2>2. Copies(t, s, 1, m, E)
    BY <1>2, <2>1, PartIs
  <2> QED
    BY <2>2 DEF Copies
<1>4. CASE \A i \in DOMAIN s : isspace(s[i])
  <2>1. \A i \in DOMAIN t : isspace(t[i])
    BY <1>1, <1>3, <1>4
  <2> QED
    BY <1>2, <1>4, <2>1, BlankIs
<1>5. CASE Padded(s, trim(s))
  <2>1. PICK i, j : At(s, trim(s), i, j)
    BY <1>5, PaddedAt
  <2>2. i \in Nat /\ j \in Nat /\ 1 <= i /\ i <= j /\ j <= m
    BY <1>1, <2>1 DEF At
  <2>3. Mid(t, i, j) = Mid(s, i, j)
    <3>1. IsPart(E, s, 1, m, i, j, i, j)
      BY <1>1, <2>2 DEF IsPart
    <3> QED
      BY <1>2, <3>1, PartOfPart
  <2>4. At(t, trim(s), i, j)
    <3>1. t[i] = s[i] /\ t[j] = s[j]
      BY <1>3, <2>2
    <3>2. \A k \in 1..m : k < i \/ k > j => isspace(t[k])
      BY <1>1, <1>3, <2>1 DEF At
    <3> QED
      BY <1>3, <2>1, <2>2, <2>3, <3>1, <3>2 DEF At
  <2>5. Padded(t, trim(s))
    BY <1>3, <2>4, PaddedAt
  <2> QED
    BY <1>2, <1>3, <2>5, PaddedIs
<1> QED
  BY <1>4, <1>5, TrimIs

-----------------------------------------------------------------------------
(***************************************************************************)
(* What strtoul and the loop over a list of bytes return, of any text.     *)
(***************************************************************************)
LEMMA FromIs ==
  ASSUME NEW E, NEW s \in Seq(E), NEW i \in Nat, NEW n \in Nat, 1 <= i, n = Len(s) - i + 1
  PROVE  Copies(From(s, i), s, i, n, E)
<1>1. Bounds(s, i, Len(s), n) /\ From(s, i) = Mid(s, i, Len(s))
  BY DEF Bounds, From, Mid
<1> QED
  BY <1>1, PartIs

LEMMA UptoIs ==
  ASSUME NEW E, NEW s \in Seq(E), NEW n \in Nat, n <= Len(s)
  PROVE  Copies(Upto(s, n), s, 1, n, E)
<1>1. Bounds(s, 1, n, n) /\ Upto(s, n) = Mid(s, 1, n)
  BY DEF Bounds, Upto, Mid
<1> QED
  BY <1>1, PartIs

Begins(t, s, n, E) ==
  t \in Seq(E) /\ Len(t) = n /\ DOMAIN t = 1..n /\ \A k \in 1..n : t[k] = s[k]

LEMMA UptoAt ==
  ASSUME NEW E, NEW s \in Seq(E), NEW n \in Nat, n <= Len(s)
  PROVE  Begins(Upto(s, n), s, n, E)
<1>1. PICK t : t = Upto(s, n) /\ Copies(t, s, 1, n, E)
  BY UptoIs
<1>2. \A k \in 1..n : 1 + k - 1 = k
  OBVIOUS
<1> QED
  BY <1>1, <1>2 DEF Copies, Begins

LEMMA FromFirst == ASSUME NEW E, NEW s \in Seq(E) PROVE From(s, 1) = s
<1>1. PICK n \in Nat : n = Len(s) - 1 + 1 /\ n = Len(s)
  OBVIOUS
<1>2. PICK t : t = From(s, 1)
  OBVIOUS
<1>3. Copies(t, s, 1, n, E)
  BY <1>1, <1>2, FromIs
<1>4. \A k \in 1..n : 1 + k - 1 = k
  OBVIOUS
<1> QED
  BY <1>1, <1>2, <1>3, <1>4, SameSeq DEF Copies

LEMMA TailIs == ASSUME NEW E, NEW s \in Seq(E), s # <<>> PROVE Tail(s) = From(s, 2)
<1>1. PICK n \in Nat : n = Len(s) - 2 + 1 /\ n = Len(s) - 1
  OBVIOUS
<1>2. PICK t, u : t = From(s, 2) /\ u = Tail(s)
  OBVIOUS
<1>3. Copies(t, s, 2, n, E)
  BY <1>1, <1>2, FromIs
<1>4. u \in Seq(E) /\ Len(u) = n /\ \A k \in 1..n : u[k] = s[k + 1]
  BY <1>1, <1>2
<1>5. \A k \in 1..n : 2 + k - 1 = k + 1
  OBVIOUS
<1>6. t \in Seq(E) /\ Len(t) = n /\ \A k \in 1..n : t[k] = u[k]
  BY <1>3, <1>4, <1>5 DEF Copies
<1>7. t = u
  BY <1>4, <1>6, SameSeq
<1> QED
  BY <1>2, <1>7

LEMMA BehindAt ==
  ASSUME NEW E, NEW s \in Seq(E), NEW C, NEW i \in 1..Len(s), s[i] \notin C,
         \A k \in 1..(i - 1) : s[k] \in C
  PROVE  Behind(s, C) = From(s, i)
<1> DEFINE others == {k \in DOMAIN s : s[k] \notin C}
<1>1. PICK n \in Nat : n = Len(s) /\ DOMAIN s = 1..n
  OBVIOUS
<1>2. others \in SUBSET Nat /\ i \in others
  BY <1>1
<1>3. ASSUME NEW k \in others PROVE i <= k
  <2>1. k \in 1..n /\ s[k] \notin C
    BY <1>1
  <2> QED
    BY <2>1
<1> HIDE DEF others
<1>4. Least(others) = i /\ others # {}
  BY <1>2, <1>3, LeastOnly
<1> QED
  BY <1>4 DEF Behind, others

LEMMA BehindIs ==
  ASSUME NEW E, NEW s \in Seq(E), NEW C
  PROVE  \/ Behind(s, C) = <<>> /\ \A k \in DOMAIN s : s[k] \in C
         \/ \E i \in 1..Len(s) : /\ s[i] \notin C /\ \A k \in 1..(i - 1) : s[k] \in C
                                 /\ Behind(s, C) = From(s, i)
<1> DEFINE others == {k \in DOMAIN s : s[k] \notin C}
<1>1. CASE others = {}
  BY <1>1 DEF Behind
<1>2. CASE others # {}
  <2>1. PICK n \in Nat : n = Len(s) /\ DOMAIN s = 1..n
    OBVIOUS
  <2>2. others \in SUBSET Nat
    BY <2>1
  <2>3. Least(others) \in others /\ \A k \in others : Least(others) <= k
    <3> HIDE DEF others
    <3> QED
      BY <1>2, <2>2, LeastIs
  <2>4. PICK i \in 1..n : i = Least(others) /\ i \in others /\ \A k \in others : i <= k
    BY <2>1, <2>3
  <2>5. s[i] \notin C
    BY <2>4
  <2>6. ASSUME NEW k \in 1..(i - 1) PROVE s[k] \in C
    <3>1. k \in 1..n /\ ~(i <= k)
      OBVIOUS
    <3> QED
      BY <2>1, <2>4, <3>1
  <2>7. Behind(s, C) = From(s, i)
    BY <1>2, <2>4 DEF Behind
  <2> QED
    BY <2>1, <2>5, <2>6, <2>7
<1> QED
  BY <1>1, <1>2

LEMMA DigitIs == ASSUME NEW c \in Nat PROVE digit(c) \in 0..16 /\ digit(c) \in Nat
<1>1. digit(c) \in 0..16
  BY DEF digit
<1>2. 0..16 \subseteq Nat
  OBVIOUS
<1> QED
  BY <1>1, <1>2, Zenon

\* A digit of a smaller base is one of base 16, and so is whatever is not outside all.
LEMMA DigitBelow ==
  ASSUME NEW c \in Nat, NEW b \in 0..16, digit(c) < b \/ digit(c) # 16
  PROVE  digit(c) < 16
<1>1. PICK d \in 0..16 : d = digit(c)
  BY DigitIs, Zenon
<1>2. d < 16
  BY <1>1
<1> QED
  BY <1>1, <1>2, Zenon

LEMMA RunIs ==
  ASSUME NEW u \in Seq(Nat), NEW b \in Nat
  PROVE  /\ Run(u, b) \in 0..Len(u)
         /\ \A i \in 1..Run(u, b) : digit(u[i]) < b
         /\ Run(u, b) < Len(u) => digit(u[Run(u, b) + 1]) >= b
<1> DEFINE stops == {i \in DOMAIN u : digit(u[i]) >= b}
<1>1. PICK n \in Nat : n = Len(u) /\ DOMAIN u = 1..n
  OBVIOUS
<1>2. ASSUME NEW i \in 1..n PROVE digit(u[i]) \in Nat /\ (i \notin stops => digit(u[i]) < b)
  <2>1. i \in DOMAIN u /\ u[i] \in Nat
    BY <1>1
  <2>2. PICK d \in Nat : d = digit(u[i])
    BY <2>1, DigitIs
  <2> QED
    BY <2>1, <2>2
<1>3. CASE stops = {}
  <2>1. Run(u, b) = n
    BY <1>1, <1>3 DEF Run
  <2>2. ASSUME NEW i \in 1..n PROVE digit(u[i]) < b
    BY <1>2, <1>3
  <2>3. n \in 0..Len(u) /\ ~(n < Len(u))
    BY <1>1
  <2> QED
    BY <2>1, <2>2, <2>3
<1>4. CASE stops # {}
  <2>1. stops \in SUBSET Nat
    BY <1>1
  <2>2. Least(stops) \in stops /\ \A k \in stops : Least(stops) <= k
    <3> HIDE DEF stops
    <3> QED
      BY <1>4, <2>1, LeastIs
  <2>3. PICK m \in 1..n : m = Least(stops) /\ m \in stops /\ \A k \in stops : m <= k
    BY <1>1, <2>2
  <2>4. Run(u, b) = m - 1
    BY <1>4, <2>3 DEF Run
  <2>5. ASSUME NEW i \in 1..(m - 1) PROVE digit(u[i]) < b
    <3>1. i \in 1..n /\ ~(m <= i)
      OBVIOUS
    <3> QED
      BY <1>2, <2>3, <3>1
  <2> QED
    BY <1>1, <1>2, <2>3, <2>4, <2>5
<1> QED
  BY <1>3, <1>4

LEMMA RunOnly ==
  ASSUME NEW u \in Seq(Nat), NEW b \in Nat, NEW n \in 0..Len(u),
         \A i \in 1..n : digit(u[i]) < b, n < Len(u) => digit(u[n + 1]) >= b
  PROVE  Run(u, b) = n
<1>1. PICK m \in 0..Len(u) : m = Run(u, b)
  BY RunIs
<1>2. /\ \A i \in 1..m : digit(u[i]) < b
      /\ m < Len(u) => digit(u[m + 1]) >= b
  BY <1>1, RunIs
<1>3. ASSUME NEW i \in 1..Len(u) PROVE digit(u[i]) \in Nat
  <2>1. u[i] \in Nat
    OBVIOUS
  <2> QED
    BY <2>1, DigitIs, Zenon
<1>4. CASE m < n
  <2>1. m + 1 \in 1..n /\ m + 1 \in 1..Len(u) /\ m < Len(u)
    BY <1>4
  <2> QED
    BY <1>2, <1>3, <2>1
<1>5. CASE n < m
  <2>1. n + 1 \in 1..m /\ n + 1 \in 1..Len(u) /\ n < Len(u)
    BY <1>5
  <2> QED
    BY <1>2, <1>3, <2>1
<1> QED
  BY <1>1, <1>4, <1>5

\* The value of digits so far, x, with one more: past what fits it stays LongSize.
Gains(b, d, x) == IF x > (LongSize - 1 - d) \div b THEN LongSize ELSE x * b + d
Gained(g, u, b, n) ==
  g \in [0..n -> 0..LongSize] /\ g[0] = 0 /\ \A i \in 1..n : g[i] = Gains(b, digit(u[i]), g[i - 1])

LEMMA GainsIs ==
  ASSUME NEW b \in {8, 10, 16}, NEW d \in 0..15, NEW x \in 0..LongSize
  PROVE  Gains(b, d, x) \in 0..LongSize
<1>1. PICK L \in Nat : L = LongSize
  BY TextAssumption
<1>2. x \in Nat /\ x <= L
  BY <1>1
<1>3. CASE b = 8
  <2>1. ASSUME ~(x > (L - 1 - d) \div 8) PROVE x * 8 + d \in 0..L
    BY <1>2, <2>1
  <2> QED
    BY <1>1, <1>3, <2>1 DEF Gains
<1>4. CASE b = 10
  <2>1. ASSUME ~(x > (L - 1 - d) \div 10) PROVE x * 10 + d \in 0..L
    BY <1>2, <2>1
  <2> QED
    BY <1>1, <1>4, <2>1 DEF Gains
<1>5. CASE b = 16
  <2>1. ASSUME ~(x > (L - 1 - d) \div 16) PROVE x * 16 + d \in 0..L
    BY <1>2, <2>1
  <2> QED
    BY <1>1, <1>5, <2>1 DEF Gains
<1> QED
  BY <1>3, <1>4, <1>5

\* Without overflow a digit is simply added.
Fitting(x, b, d, y) == y = x * b + d /\ y < LongSize

LEMMA GainsMore ==
  ASSUME NEW b \in {8, 10, 16}, NEW d \in 0..15, NEW x \in Nat,
         NEW y, Fitting(x, b, d, y)
  PROVE  Gains(b, d, x) = y
<1>1. PICK L \in Nat : L = LongSize
  BY TextAssumption
<1>2. y = x * b + d /\ x * b + d < LongSize
  BY DEF Fitting
<1>3. CASE b = 8
  <2>1. ~(x > (L - 1 - d) \div 8)
    BY <1>1, <1>2, <1>3
  <2> QED
    BY <1>1, <1>2, <1>3, <2>1 DEF Gains
<1>4. CASE b = 10
  <2>1. ~(x > (L - 1 - d) \div 10)
    BY <1>1, <1>2, <1>4
  <2> QED
    BY <1>1, <1>2, <1>4, <2>1 DEF Gains
<1>5. CASE b = 16
  <2>1. ~(x > (L - 1 - d) \div 16)
    BY <1>1, <1>2, <1>5
  <2> QED
    BY <1>1, <1>2, <1>5, <2>1 DEF Gains
<1> QED
  BY <1>3, <1>4, <1>5

LEMMA ValueIs ==
  ASSUME NEW u \in Seq(Nat), NEW b \in {8, 10, 16}
  PROVE  \E g : Gained(g, u, b, Run(u, b)) /\ ValueOf(u, b) = g[Run(u, b)]
<1>1. PICK n \in Nat : n = Run(u, b) /\ n <= Len(u)
  BY RunIs
<1> DEFINE S == 0..LongSize
           G == [i \in 1..n |-> [x \in S |-> Gains(b, digit(u[i]), x)]]
           Sol(f) == f = [i \in 0..n |-> IF i = 0 THEN 0 ELSE Gains(b, digit(u[i]), f[i - 1])]
           F == CHOOSE f : Sol(f)
<1>2. \A i \in 1..n, x \in S : Gains(b, digit(u[i]), x) \in S
  <2> SUFFICES ASSUME NEW i \in 1..n, NEW x \in S PROVE Gains(b, digit(u[i]), x) \in S
    OBVIOUS
  <2>1. i \in 1..Run(u, b) /\ i \in 1..Len(u)
    BY <1>1
  <2>2. digit(u[i]) < b /\ u[i] \in Nat /\ b <= 16
    <3>1. b \in Nat /\ b <= 16 /\ u[i] \in Nat
      BY <2>1
    <3>2. \A k \in 1..Run(u, b) : digit(u[k]) < b
      BY <3>1, RunIs
    <3> QED
      BY <2>1, <3>1, <3>2
  <2>3. PICK d \in 0..15 : d = digit(u[i])
    <3>1. PICK d \in 0..16 : d = digit(u[i])
      BY <2>2, DigitIs, Zenon
    <3>2. d < b
      BY <2>2, <3>1
    <3>3. b \in Nat /\ b <= 16
      OBVIOUS
    <3>4. d \in 0..15
      BY <3>2, <3>3
    <3> QED
      BY <3>1, <3>4
  <2> QED
    BY <2>3, GainsIs
<1>3. 0 \in S
  BY TextAssumption
<1> HIDE DEF S
<1>4. G \in [1..n -> [S -> S]] /\ \A i \in 1..n, x \in S : G[i][x] = Gains(b, digit(u[i]), x)
  BY <1>2
<1> HIDE DEF G
<1>5. PICK g : /\ Iterated(g, n, S, 0, G)
               /\ \A f : IteratesTo(f, n, S, 0, G) => \A i \in 0..n : f[i] = g[i]
  BY <1>3, <1>4, Recursion
<1>6. g \in [0..n -> S] /\ g[0] = 0 /\ \A i \in 1..n : g[i] = Gains(b, digit(u[i]), g[i - 1])
  BY <1>4, <1>5 DEF Iterated
<1>7. Sol(g)
  BY <1>6
<1>8. Sol(F)
  BY <1>7
<1>9. ValueOf(u, b) = F[n]
  BY <1>1 DEF ValueOf, Gains
<1> HIDE DEF F
<1>10. \A i \in 0..n : F[i] = IF i = 0 THEN 0 ELSE Gains(b, digit(u[i]), F[i - 1])
  BY <1>8
<1>11. IteratesTo(F, n, S, 0, G)
  BY <1>4, <1>10 DEF IteratesTo
<1>12. F[n] = g[n]
  BY <1>5, <1>11
<1>13. Gained(g, u, b, n)
  BY <1>6 DEF Gained, S
<1> QED
  BY <1>1, <1>9, <1>12, <1>13

LEMMA ValueTyped ==
  ASSUME NEW u \in Seq(Nat), NEW b \in {8, 10, 16}
  PROVE  ValueOf(u, b) \in 0..LongSize
<1>1. PICK n \in Nat : n = Run(u, b)
  BY RunIs
<1> QED
  BY <1>1, ValueIs DEF Gained

\* The text strtoul reads a number from, behind blanks and a sign; its base; its digits.
Signed(s) == s # <<>> /\ s[1] \in {char.plus, char.minus}
Unsigned(s) == IF Signed(s) THEN Tail(s) ELSE s
BaseOf(t, base) ==
  IF base # 0 THEN base ELSE IF Hexed(t) THEN 16
  ELSE IF t # <<>> /\ t[1] = char.zero THEN 8 ELSE 10
DigitsOf(t, base) == IF base \in {0, 16} /\ Hexed(t) THEN From(t, 3) ELSE t
Cut(v) == IF v = LongSize THEN LongSize - 1 ELSE v
Negated(v) == IF v = LongSize THEN LongSize - 1 ELSE (LongSize - v) % LongSize

LEMMA StrtoulAs ==
  ASSUME NEW text, NEW base \in {0, 16}, NEW s, s = Behind(text, Space), NEW t, t = Unsigned(s),
         NEW u, u = DigitsOf(t, base), NEW b, b = BaseOf(t, base)
  PROVE  /\ strtoul(text, base).val =
              IF Signed(s) /\ s[1] = char.minus THEN Negated(ValueOf(u, b)) ELSE Cut(ValueOf(u, b))
         /\ strtoul(text, base).rest = From(u, Run(u, b) + 1)
BY DEF strtoul, Signed, Unsigned, BaseOf, DigitsOf, Cut, Negated

LEMMA BehindTyped ==
  ASSUME NEW E, NEW s \in Seq(E), NEW C
  PROVE  Behind(s, C) \in Seq(E) /\ Len(Behind(s, C)) <= Len(s)
<1>1. CASE Behind(s, C) = <<>>
  BY <1>1
<1>2. ASSUME NEW i \in 1..Len(s), Behind(s, C) = From(s, i)
      PROVE  Behind(s, C) \in Seq(E) /\ Len(Behind(s, C)) <= Len(s)
  <2>1. PICK n \in Nat : n = Len(s) - i + 1 /\ n <= Len(s)
    OBVIOUS
  <2>2. Copies(From(s, i), s, i, n, E)
    BY <2>1, FromIs
  <2> QED
    BY <1>2, <2>1, <2>2 DEF Copies
<1> QED
  BY <1>1, <1>2, BehindIs

LEMMA DigitsTyped ==
  ASSUME NEW t \in Seq(Nat), NEW base \in {0, 16}
  PROVE  /\ DigitsOf(t, base) \in Seq(Nat) /\ Len(DigitsOf(t, base)) <= Len(t)
         /\ BaseOf(t, base) \in {8, 10, 16}
<1>1. ASSUME Hexed(t) PROVE From(t, 3) \in Seq(Nat) /\ Len(From(t, 3)) <= Len(t)
  <2>1. Len(t) > 2 /\ Len(t) \in Nat
    BY <1>1 DEF Hexed
  <2>2. PICK n \in Nat : n = Len(t) - 3 + 1 /\ n <= Len(t)
    <3>1. Len(t) - 3 + 1 \in Nat /\ Len(t) - 3 + 1 <= Len(t)
      BY <2>1
    <3> QED
      BY <3>1
  <2>3. Copies(From(t, 3), t, 3, n, Nat)
    BY <2>2, FromIs
  <2> QED
    BY <2>2, <2>3 DEF Copies
<1>2. BaseOf(t, base) \in {8, 10, 16}
  BY DEF BaseOf
<1> QED
  BY <1>1, <1>2 DEF DigitsOf

LEMMA StrtoulTyped ==
  ASSUME NEW text \in Seq(Nat), NEW base \in {0, 16}
  PROVE  strtoul(text, base).val \in Nat
<1>1. PICK s, t : s = Behind(text, Space) /\ t = Unsigned(s)
  OBVIOUS
<1>2. s \in Seq(Nat)
  BY <1>1, BehindTyped
<1>3. t \in Seq(Nat)
  BY <1>1, <1>2 DEF Unsigned, Signed
<1>4. PICK u, b : u = DigitsOf(t, base) /\ b = BaseOf(t, base)
  OBVIOUS
<1>5. ValueOf(u, b) \in 0..LongSize
  BY <1>3, <1>4, DigitsTyped, ValueTyped
<1>6. PICK L \in Nat, v \in Nat : L = LongSize /\ v = ValueOf(u, b) /\ L # 0 /\ v <= L
  <2>1. LongSize \in Nat /\ LongSize # 0
    BY TextAssumption
  <2>2. ValueOf(u, b) \in Nat /\ ValueOf(u, b) <= LongSize
    BY <1>5, <2>1
  <2> QED
    BY <2>1, <2>2
<1>7. Cut(v) \in Nat /\ Negated(v) \in Nat
  BY <1>6 DEF Cut, Negated
<1> QED
  BY <1>1, <1>4, <1>6, <1>7, StrtoulAs

\* A digit is neither a blank nor a sign.
LEMMA DigitPlain ==
  ASSUME NEW c \in Nat, digit(c) < 16
  PROVE  c \notin Space /\ c \notin {char.plus, char.minus, char.space, char.comma}
BY DEF digit, Space, char

LEMMA StrtoulHex ==
  ASSUME NEW s \in Seq(Nat), s # <<>>, digit(s[1]) < 16, NEW u, u = DigitsOf(s, 16)
  PROVE  /\ strtoul(s, 16).val = Cut(ValueOf(u, 16))
         /\ strtoul(s, 16).rest = From(u, Run(u, 16) + 1)
         /\ Len(strtoul(s, 16).rest) \in Nat /\ Len(strtoul(s, 16).rest) < Len(s)
<1>1. 1 \in 1..Len(s) /\ s[1] \in Nat /\ 1..(1 - 1) = {}
  OBVIOUS
<1>2. Behind(s, Space) = s
  BY <1>1, DigitPlain, BehindAt, FromFirst
<1>3. ~Signed(s) /\ Unsigned(s) = s /\ BaseOf(s, 16) = 16
  BY <1>1, DigitPlain DEF Signed, Unsigned, BaseOf
<1>4. /\ strtoul(s, 16).val = Cut(ValueOf(u, 16))
      /\ strtoul(s, 16).rest = From(u, Run(u, 16) + 1)
  BY <1>2, <1>3, StrtoulAs
<1>5. u \in Seq(Nat) /\ Len(u) <= Len(s) /\ Len(u) \in Nat
  BY DigitsTyped
<1>6. u # <<>> /\ digit(u[1]) < 16
  <2>1. CASE Hexed(s)
    <3>1. Len(s) > 2 /\ digit(s[3]) < 16
      BY <2>1 DEF Hexed
    <3>2. PICK n \in Nat : n = Len(s) - 3 + 1 /\ n # 0
      BY <3>1
    <3>3. u = From(s, 3)
      BY <2>1 DEF DigitsOf
    <3>4. Copies(u, s, 3, n, Nat)
      BY <3>2, <3>3, FromIs
    <3>5. Len(u) = n /\ u[1] = s[3]
      <4>1. 1 \in 1..n /\ 3 + 1 - 1 = 3
        BY <3>2
      <4> QED
        BY <3>4, <4>1 DEF Copies
    <3> QED
      BY <3>1, <3>2, <3>5
  <2>2. CASE ~Hexed(s)
    BY <2>2 DEF DigitsOf
  <2> QED
    BY <2>1, <2>2
<1>7. PICK m \in 0..Len(u) : m = Run(u, 16) /\ (m < Len(u) => digit(u[m + 1]) >= 16)
  BY <1>5, RunIs
<1>8. m # 0
  <2>1. Len(u) > 0 /\ u[1] \in Nat
    BY <1>5, <1>6
  <2>2. digit(u[1]) \in Nat /\ 0 + 1 = 1
    <3>1. 0 + 1 = 1
      OBVIOUS
    <3> QED
      BY <2>1, <3>1, DigitIs, Zenon
  <2>3. SUFFICES ASSUME m = 0 PROVE FALSE
    OBVIOUS
  <2>4. digit(u[0 + 1]) >= 16
    BY <1>7, <2>1, <2>3
  <2> QED
    BY <1>6, <2>2, <2>4
<1>9. PICK n \in Nat, k \in Nat : k = m + 1 /\ n = Len(u) - k + 1 /\ n < Len(u) /\ 1 <= k
  <2>1. PICK l \in Nat : l = Len(u)
    BY <1>5
  <2>2. m \in 0..l /\ m # 0
    BY <1>8, <2>1
  <2>3. m + 1 \in Nat /\ 1 <= m + 1 /\ l - (m + 1) + 1 \in Nat /\ l - (m + 1) + 1 < l
    BY <2>2
  <2> QED
    BY <2>1, <2>3
<1>10. Copies(From(u, k), u, k, n, Nat)
  BY <1>5, <1>9, FromIs
<1>11. Len(strtoul(s, 16).rest) = n
  BY <1>4, <1>7, <1>9, <1>10 DEF Copies
<1>12. n \in Nat /\ n < Len(s)
  <2>1. PICK l \in Nat, k2 \in Nat : l = Len(u) /\ k2 = Len(s) /\ l <= k2
    BY <1>5
  <2> QED
    BY <1>9, <2>1
<1> QED
  BY <1>4, <1>11, <1>12

\* The list of bytes read from the last n characters of the text: what is ahead, and whether
\* it is none that begins a number.
Ahead(text, n) == Behind(From(text, Len(text) - n + 1), {char.space, char.comma})
Ends(text, n) == Ahead(text, n) = <<>> \/ digit(Ahead(text, n)[1]) = 16
NextByte(text, n) == strtoul(Ahead(text, n), 16).val % ByteSize
LeftOf(text, n) == Len(strtoul(Ahead(text, n), 16).rest)
ListedBy(g, text) ==
  /\ g \in [0..Len(text) -> Seq(Byte)]
  /\ \A n \in 0..Len(text) :
       /\ Ends(text, n) => g[n] = <<>>
       /\ ~Ends(text, n) => g[n] = <<NextByte(text, n)>> \o g[LeftOf(text, n)]

LEMMA AheadTyped ==
  ASSUME NEW text \in Seq(Nat), NEW n \in 0..Len(text)
  PROVE  /\ Ahead(text, n) \in Seq(Nat) /\ Len(Ahead(text, n)) <= n /\ NextByte(text, n) \in Byte
         /\ ~Ends(text, n) => LeftOf(text, n) \in 0..(n - 1)
<1>1. PICK i \in Nat : i = Len(text) - n + 1 /\ 1 <= i /\ n = Len(text) - i + 1
  <2>1. Len(text) - n + 1 \in Nat /\ 1 <= Len(text) - n + 1 /\ n = Len(text) - (Len(text) - n + 1) + 1
    OBVIOUS
  <2> QED
    BY <2>1
<1>2. PICK s : s = From(text, i)
  OBVIOUS
<1>3. s \in Seq(Nat) /\ Len(s) = n
  <2>1. n \in Nat
    OBVIOUS
  <2> QED
    BY <1>1, <1>2, <2>1, FromIs DEF Copies
<1>4. PICK t : t = Ahead(text, n) /\ t = Behind(s, {char.space, char.comma})
  BY <1>1, <1>2 DEF Ahead
<1>5. t \in Seq(Nat) /\ Len(t) <= n
  BY <1>3, <1>4, BehindTyped
<1>6. NextByte(text, n) \in Byte
  <2>1. PICK v \in Nat : v = strtoul(t, 16).val
    BY <1>5, StrtoulTyped
  <2>2. v % ByteSize \in Byte
    BY TextAssumption DEF Byte
  <2> QED
    BY <1>4, <2>1, <2>2 DEF NextByte
<1>7. ASSUME ~Ends(text, n) PROVE LeftOf(text, n) \in 0..(n - 1)
  <2>1. t # <<>> /\ digit(t[1]) # 16
    BY <1>4, <1>7 DEF Ends
  <2>2. t[1] \in Nat
    BY <1>5, <2>1
  <2>3. digit(t[1]) < 16
    <3>1. 16 \in 0..16
      OBVIOUS
    <3> QED
      BY <2>1, <2>2, <3>1, DigitBelow, Zenon
  <2>4. PICK m \in Nat : m = Len(strtoul(t, 16).rest) /\ m < Len(t)
    BY <1>5, <2>1, <2>3, StrtoulHex
  <2>5. m \in 0..(n - 1)
    BY <1>5, <2>4
  <2> QED
    BY <1>4, <2>4, <2>5 DEF LeftOf
<1> QED
  BY <1>4, <1>5, <1>6, <1>7

LEMMA ListIs ==
  ASSUME NEW text \in Seq(Nat)
  PROVE  \E g, all : ListedBy(g, text) /\ all = g[Len(text)]
                     /\ Listed(text) = Upto(all, IF Len(all) < MaxBytes THEN Len(all) ELSE MaxBytes)
<1>0. PICK none : none = <<>>
  OBVIOUS
<1>1. PICK N \in Nat : N = Len(text)
  OBVIOUS
<1> DEFINE D == Seq(Byte)
           stop == {n \in 0..N : Ends(text, n)}
           below == [n \in 0..N |-> LeftOf(text, n)]
           G == [n \in 0..N |-> [x \in D |-> <<NextByte(text, n)>> \o x]]
           Sol(f) == f = [n \in 0..N |-> IF Ends(text, n) THEN <<>>
                                         ELSE <<NextByte(text, n)>> \o f[LeftOf(text, n)]]
           F == CHOOSE f : Sol(f)
<1>2. <<>> \in D /\ \A n \in 0..N, x \in D : <<NextByte(text, n)>> \o x \in D
  BY <1>1, AheadTyped
<1>3. GoesDown(N, stop, below)
  BY <1>1, AheadTyped DEF GoesDown
<1>4. \A n \in 0..N : n \in stop <=> Ends(text, n)
  OBVIOUS
<1>5. \A n \in 0..N : below[n] = LeftOf(text, n)
  OBVIOUS
<1> HIDE DEF D
<1>6. \A n \in 0..N, x \in D : G[n][x] = <<NextByte(text, n)>> \o x
  OBVIOUS
<1> HIDE DEF stop, below, G
<1>7. \A n \in 0..N, x \in D : G[n][x] \in D
  BY <1>2, <1>6
<1>8. PICK g \in [0..N -> D] :
        /\ DescendsTo(g, N, D, none, stop, below, G)
        /\ \A f : DescendsTo(f, N, D, none, stop, below, G) => \A n \in 0..N : f[n] = g[n]
  <2>1. none \in D
    BY <1>0, <1>2
  <2>2. PICK g : Descended(g, N, D, none, stop, below, G)
    BY <1>3, <1>7, <2>1, Descent
  <2> QED
    BY <2>2 DEF Descended
<1>9. ASSUME NEW n \in 0..N
      PROVE  /\ Ends(text, n) => g[n] = <<>>
             /\ ~Ends(text, n) => g[n] = <<NextByte(text, n)>> \o g[LeftOf(text, n)]
  <2>1. CASE Ends(text, n)
    BY <1>0, <1>4, <1>8, <2>1 DEF DescendsTo
  <2>2. CASE ~Ends(text, n)
    <3>1. LeftOf(text, n) \in 0..N
      <4>1. LeftOf(text, n) \in 0..(n - 1)
        BY <1>1, <2>2, AheadTyped
      <4> QED
        BY <4>1
    <3>2. g[LeftOf(text, n)] \in D
      BY <3>1
    <3>3. g[n] = G[n][g[below[n]]]
      BY <1>4, <1>5, <1>8, <2>2, <3>2 DEF DescendsTo
    <3> QED
      BY <1>5, <1>6, <2>2, <3>2, <3>3
  <2> QED
    BY <2>1, <2>2
<1>10. ListedBy(g, text)
  BY <1>1, <1>9 DEF ListedBy, D
<1>11. Sol(g)
  BY <1>9
<1>12. Sol(F)
  BY <1>11
<1>13. Listed(text) = Upto(F[N], IF Len(F[N]) < MaxBytes THEN Len(F[N]) ELSE MaxBytes)
  BY <1>1 DEF Listed, Ends, Ahead, NextByte, LeftOf
<1> HIDE DEF F
<1>14. DescendsTo(F, N, D, none, stop, below, G)
  <2>1. \A n \in 0..N : F[n] = IF Ends(text, n) THEN <<>>
                               ELSE <<NextByte(text, n)>> \o F[LeftOf(text, n)]
    BY <1>12
  <2>2. ASSUME NEW n \in 0..N PROVE n \in stop => F[n] = none
    BY <1>0, <1>4, <2>1
  <2>3. ASSUME NEW n \in 0..N, n \notin stop, F[below[n]] \in D PROVE F[n] = G[n][F[below[n]]]
    <3>1. F[n] = <<NextByte(text, n)>> \o F[LeftOf(text, n)]
      BY <1>4, <2>1, <2>3
    <3> QED
      BY <1>5, <1>6, <2>3, <3>1
  <2> QED
    BY <2>2, <2>3 DEF DescendsTo
<1>15. F[N] = g[N]
  BY <1>8, <1>14
<1> QED
  BY <1>1, <1>10, <1>13, <1>15

-----------------------------------------------------------------------------
(***************************************************************************)
(* What a piece of text makes dt-apply do is one of the four outcomes, and *)
(* what it sets is bytes.                                                  *)
(***************************************************************************)
LEMMA Wider == ASSUME NEW E, NEW F, E \subseteq F, NEW s \in Seq(E) PROVE s \in Seq(F)
<1>1. PICK n \in Nat : n = Len(s) /\ DOMAIN s = 1..n
  OBVIOUS
<1>2. s \in [1..n -> F]
  BY <1>1
<1> QED
  BY <1>2

LEMMA TextIs ==
  ASSUME NEW t \in Text
  PROVE  t \in Seq(Nat) /\ t \in Seq(Byte)
<1>1. PICK C : C = 1..(ByteSize - 1) /\ C \subseteq Nat /\ C \subseteq Byte
  BY TextAssumption DEF Byte
<1>2. t \in Seq(C)
  BY <1>1 DEF Text
<1> QED
  BY <1>1, <1>2, Wider

LEMMA ListedTyped == ASSUME NEW text \in Seq(Nat) PROVE Listed(text) \in Seq(Byte)
<1>1. PICK g, all : ListedBy(g, text) /\ all = g[Len(text)]
                    /\ Listed(text) = Upto(all, IF Len(all) < MaxBytes THEN Len(all) ELSE MaxBytes)
  BY ListIs
<1>2. all \in Seq(Byte) /\ Len(all) \in Nat
  <2>1. Len(text) \in 0..Len(text)
    OBVIOUS
  <2>2. all \in Seq(Byte)
    BY <1>1, <2>1 DEF ListedBy
  <2> QED
    BY <2>2
<1>3. PICK n \in Nat : n = (IF Len(all) < MaxBytes THEN Len(all) ELSE MaxBytes) /\ n <= Len(all)
  BY <1>2, TextAssumption
<1> QED
  BY <1>1, <1>2, <1>3, UptoIs DEF Copies

LEMMA WordTyped == ASSUME NEW v \in Nat PROVE WordOf(v) \in Seq(Byte) /\ Len(WordOf(v)) = 4
<1>1. CASE ByteSize = 128
  BY <1>1 DEF WordOf, WordUncut, Byte
<1>2. CASE ByteSize = 256
  BY <1>2 DEF WordOf, WordUncut, Byte
<1> QED
  BY <1>1, <1>2, TextAssumption

LEMMA StrchrAt ==
  ASSUME NEW E, NEW s \in Seq(E), NEW c, NEW i \in 1..Len(s), s[i] = c, \A k \in 1..(i - 1) : s[k] # c
  PROVE  Places(s, c) # {} /\ strchr(s, c) = i
<1>1. PICK n \in Nat : n = Len(s) /\ DOMAIN s = 1..n
  OBVIOUS
<1>2. Places(s, c) \in SUBSET Nat /\ i \in Places(s, c)
  BY <1>1 DEF Places
<1>3. ASSUME NEW k \in Places(s, c) PROVE i <= k
  <2>1. k \in 1..n /\ s[k] = c
    BY <1>1 DEF Places
  <2> QED
    BY <2>1
<1> QED
  BY <1>2, <1>3, LeastOnly DEF strchr

LEMMA StrrchrAt ==
  ASSUME NEW E, NEW s \in Seq(E), NEW c, NEW i \in 1..Len(s), s[i] = c,
         \A k \in (i + 1)..Len(s) : s[k] # c
  PROVE  Places(s, c) # {} /\ strrchr(s, c) = i
<1>1. PICK n \in Nat : n = Len(s) /\ DOMAIN s = 1..n
  OBVIOUS
<1>2. Places(s, c) \in SUBSET Nat /\ i \in Places(s, c)
  BY <1>1 DEF Places
<1>3. ASSUME NEW k \in Places(s, c) PROVE i >= k
  <2>1. k \in 1..n /\ s[k] = c
    BY <1>1 DEF Places
  <2> QED
    BY <1>1, <2>1
<1> QED
  BY <1>2, <1>3, GreatestOnly DEF strrchr

LEMMA StrchrIs ==
  ASSUME NEW E, NEW s \in Seq(E), NEW c, Places(s, c) # {}
  PROVE  strchr(s, c) \in 1..Len(s) /\ s[strchr(s, c)] = c /\ \A k \in 1..(strchr(s, c) - 1) : s[k] # c
<1>1. PICK n \in Nat : n = Len(s) /\ DOMAIN s = 1..n
  OBVIOUS
<1>2. Places(s, c) \in SUBSET Nat
  BY <1>1 DEF Places
<1>3. PICK i : i = strchr(s, c) /\ i \in Places(s, c) /\ \A k \in Places(s, c) : i <= k
  BY <1>2, LeastIs DEF strchr
<1>4. i \in 1..n /\ s[i] = c
  BY <1>1, <1>3 DEF Places
<1>5. ASSUME NEW k \in 1..(i - 1), s[k] = c PROVE FALSE
  <2>1. k \in 1..n
    BY <1>4
  <2>2. k \in Places(s, c)
    BY <1>1, <1>5, <2>1 DEF Places
  <2> QED
    BY <1>3, <1>4, <2>1, <2>2
<1> QED
  BY <1>1, <1>3, <1>4, <1>5

LEMMA StrrchrIs ==
  ASSUME NEW E, NEW s \in Seq(E), NEW c, Places(s, c) # {}
  PROVE  /\ strrchr(s, c) \in 1..Len(s) /\ s[strrchr(s, c)] = c
         /\ \A k \in (strrchr(s, c) + 1)..Len(s) : s[k] # c
<1>1. PICK n \in Nat : n = Len(s) /\ DOMAIN s = 1..n
  OBVIOUS
<1>2. Places(s, c) \in SUBSET (1..n)
  BY <1>1 DEF Places
<1>3. PICK i : i = strrchr(s, c) /\ i \in Places(s, c) /\ \A k \in Places(s, c) : i >= k
  BY <1>2, GreatestIs DEF strrchr
<1>4. i \in 1..n /\ s[i] = c
  BY <1>1, <1>3 DEF Places
<1>5. ASSUME NEW k \in (i + 1)..n, s[k] = c PROVE FALSE
  <2>1. k \in 1..n
    BY <1>4
  <2>2. k \in Places(s, c)
    BY <1>1, <1>5, <2>1 DEF Places
  <2> QED
    BY <1>3, <1>4, <2>1, <2>2
<1> QED
  BY <1>1, <1>3, <1>4, <1>5

Outcome(o) ==
  /\ o.op \in {"none", "refused", "set", "delete"}
  /\ o.op = "set" => o.data \in Seq(Byte)

LEMMA OutcomesAre ==
  /\ Outcome(Nothing) /\ Outcome(Refused)
  /\ \A node, prop : Outcome(Deletes(node, prop))
  /\ \A node, prop, data : data \in Seq(Byte) => Outcome(Sets(node, prop, data))
BY DEF Outcome, Nothing, Refused, Sets, Deletes

\* A string with the NUL behind it.
LEMMA StringTyped ==
  ASSUME NEW v \in Text, v # <<>>, v[1] = char.quote, strrchr(v, char.quote) # 1
  PROVE  StringToLast(v) \o <<NUL>> \in Seq(Byte)
<1>1. v \in Seq(Byte) /\ 0 \in Byte
  BY TextIs, TextAssumption DEF Byte
<1>2. PICK n \in Nat : n = Len(v) /\ DOMAIN v = 1..n /\ 1 \in 1..n
  BY <1>1
<1>3. Places(v, char.quote) # {}
  BY <1>2 DEF Places
<1>4. PICK k \in 2..n : k = strrchr(v, char.quote)
  <2>1. strrchr(v, char.quote) \in 1..n
    BY <1>1, <1>2, <1>3, StrrchrIs
  <2> QED
    BY <2>1
<1>5. PICK m \in Nat, j \in Nat : m = k - 2 /\ j = k - 1
  OBVIOUS
<1>6. Bounds(v, 2, j, m)
  BY <1>2, <1>5 DEF Bounds
<1>7. Mid(v, 2, j) \in Seq(Byte) /\ StringToLast(v) = Mid(v, 2, j)
  <2>1. StringToLast(v) = Mid(v, 2, j)
    BY <1>4, <1>5 DEF StringToLast, Mid
  <2> QED
    BY <1>1, <1>6, <2>1, PartIs DEF Copies
<1> QED
  BY <1>1, <1>7 DEF NUL

LEMMA EditTyped == ASSUME NEW v \in Text, NEW node, NEW prop PROVE Outcome(Edit(node, prop, v))
<1>1. PICK chars : chars = char /\ char.quote = 34 /\ char.less = 60 /\ char.open = 91
  BY DEF char
<1>2. CASE v = <<>>
  BY <1>2, OutcomesAre DEF Edit
<1>3. CASE v = Delete
  <2>1. v[1] = 33 /\ v # <<>>
    BY <1>3 DEF Delete
  <2>2. Edit(node, prop, v) = Deletes(node, prop)
    BY <1>1, <1>3, <2>1 DEF Edit
  <2> QED
    BY <2>2, OutcomesAre
<1>4. CASE v # <<>> /\ v # Delete
  <2>1. Tail(v) \in Seq(Nat)
    BY <1>4, TextIs
  <2>2. CASE v[1] = 34
    <3>1. Edit(node, prop, v) = IF strrchr(v, char.quote) = 1 THEN Refused
                                ELSE Sets(node, prop, StringToLast(v) \o <<NUL>>)
      BY <1>1, <1>4, <2>2 DEF Edit
    <3>2. strrchr(v, char.quote) # 1 => StringToLast(v) \o <<NUL>> \in Seq(Byte)
      BY <1>1, <1>4, <2>2, StringTyped
    <3> QED
      BY <3>1, <3>2, OutcomesAre
  <2>3. CASE v[1] = 60
    <3>1. Edit(node, prop, v) = Sets(node, prop, WordOf(strtoul(Tail(v), 0).val))
      BY <1>1, <1>4, <2>3 DEF Edit
    <3>2. WordOf(strtoul(Tail(v), 0).val) \in Seq(Byte)
      BY <2>1, StrtoulTyped, WordTyped
    <3> QED
      BY <3>1, <3>2, OutcomesAre
  <2>4. CASE v[1] = 91
    <3>1. Edit(node, prop, v) = Sets(node, prop, Listed(Tail(v)))
      BY <1>1, <1>4, <2>4 DEF Edit
    <3> QED
      BY <2>1, <3>1, ListedTyped, OutcomesAre
  <2>5. CASE v[1] \notin {34, 60, 91}
    <3>1. Edit(node, prop, v) = Refused
      BY <1>1, <1>4, <2>5 DEF Edit
    <3> QED
      BY <3>1, OutcomesAre
  <2> QED
    BY <2>2, <2>3, <2>4, <2>5
<1> QED
  BY <1>2, <1>3, <1>4

LEMMA DirectiveTyped == ASSUME NEW piece \in Text PROVE Outcome(Directive(piece))
<1>1. PICK s : s = trim(piece)
  OBVIOUS
<1>2. s \in Text
  <2>1. <<>> \in Text
    BY DEF Text
  <2>2. s = <<>> \/ s \in Text
    BY <1>1, TrimIs DEF Text
  <2> QED
    BY <2>1, <2>2
<1>3. CASE s = <<>>
  BY <1>1, <1>3, OutcomesAre DEF Directive
<1>4. CASE s # <<>> /\ s[1] = char.hash
  BY <1>1, <1>4, OutcomesAre DEF Directive
<1>5. CASE s # <<>> /\ s[1] # char.hash /\ Places(s, char.equals) = {}
  BY <1>1, <1>5, OutcomesAre DEF Directive
<1>6. CASE s # <<>> /\ s[1] # char.hash /\ Places(s, char.equals) # {}
  <2>1. PICK e \in 1..Len(s) : e = strchr(s, char.equals)
    BY <1>2, <1>6, StrchrIs DEF Text
  <2>2. PICK path, v : path = trim(Upto(s, e - 1)) /\ v = trim(From(s, e + 1))
    OBVIOUS
  <2>3. v \in Text
    <3>1. PICK n \in Nat, k \in Nat : k = e + 1 /\ 1 <= k /\ n = Len(s) - k + 1
      <4>1. e + 1 \in Nat /\ 1 <= e + 1 /\ Len(s) - (e + 1) + 1 \in Nat
        BY <1>2 DEF Text
      <4> QED
        BY <4>1
    <3>2. From(s, k) \in Text
      BY <1>2, <3>1, FromIs DEF Copies, Text
    <3>3. v = <<>> \/ v \in Text
      BY <2>2, <3>1, <3>2, TrimIs DEF Text
    <3>4. <<>> \in Text
      BY DEF Text
    <3> QED
      BY <3>3, <3>4
  <2>4. Directive(piece) = apply_directive(path, v)
    BY <1>1, <1>6, <2>1, <2>2 DEF Directive
  <2>5. Outcome(apply_directive(path, v))
    BY <2>3, EditTyped, OutcomesAre DEF apply_directive
  <2> QED
    BY <2>4, <2>5
<1> QED
  BY <1>3, <1>4, <1>5, <1>6

-----------------------------------------------------------------------------
(***************************************************************************)
(* How fgets takes a line apart: what is left is always its end, and a     *)
(* line that fits is one piece, with perhaps its newline as another.       *)
(***************************************************************************)
Pieces == Seq({Directive(p) : p \in Text})
Stage(text) ==
  \/ left = text /\ outcomes = <<>>
  \/ left = <<>> /\ outcomes = <<Directive(text)>>
  \/ left = <<NL>> /\ outcomes = <<Directive(text)>>
  \/ left = <<>> /\ outcomes = <<Directive(text), Nothing>>
EndOf(text) == \E i \in 0..Len(text) : left = From(text, i + 1)

TextInv ==
  /\ line \in Lines /\ outcomes \in Pieces
  /\ EndOf(line.text)
  /\ Fits => Stage(line.text)

\* The text of a line, and how much of what is left of it a call takes.
LEMMA LineIs ==
  ASSUME NEW l \in Lines
  PROVE  l.text \in Text /\ Places(l.text, NL) \subseteq {Len(l.text)}
BY TextAssumption DEF Text

LEMMA EndTyped ==
  ASSUME NEW text \in Text, NEW i \in 0..Len(text), NEW t, t = From(text, i + 1)
  PROVE  Copies(t, text, i + 1, Len(text) - i, 1..(ByteSize - 1)) /\ t \in Text
<1>1. PICK n \in Nat : n = Len(text) - i
  BY DEF Text
<1>2. PICK k \in Nat : k = i + 1 /\ 1 <= k /\ n = Len(text) - k + 1
  <2>1. Len(text) \in Nat /\ i \in Nat
    BY DEF Text
  <2>2. i + 1 \in Nat /\ 1 <= i + 1 /\ n = Len(text) - (i + 1) + 1
    BY <1>1, <2>1
  <2> QED
    BY <2>2
<1>3. Copies(t, text, k, n, 1..(ByteSize - 1))
  BY <1>2, FromIs DEF Text
<1> QED
  BY <1>1, <1>2, <1>3 DEF Copies, Text

TakenBy(n, t) == n = Least({Len(t), Room} \cup Places(t, NL))

LEMMA TakenIs ==
  ASSUME NEW t \in Text, t # <<>>, NEW n, TakenBy(n, t)
  PROVE  n \in 1..Len(t) /\ n <= Limit
<1>1. PICK L \in Nat, m \in Nat \ {0} : L = Len(t) /\ L # 0 /\ DOMAIN t = 1..L /\ m = Room /\ m = Limit
  BY TextAssumption DEF Text, Room
<1> DEFINE S == {Len(t), Room} \cup Places(t, NL)
<1>2. S \in SUBSET Nat /\ S # {} /\ L \in S /\ m \in S /\ 0 \notin S
  BY <1>1 DEF Places
<1> HIDE DEF S
<1>3. n \in S /\ n <= L /\ n <= m
  BY <1>2, LeastIs DEF TakenBy, S
<1> QED
  BY <1>1, <1>2, <1>3

\* The rest of the end of a text is an end of it.
LEMMA EndsOn ==
  ASSUME NEW text \in Text, NEW i \in 0..Len(text), NEW t, t = From(text, i + 1), NEW n \in 1..Len(t)
  PROVE  \E k \in 0..Len(text) : From(t, n + 1) = From(text, k + 1)
<1>1. PICK L \in Nat, m \in Nat, j \in Nat, a \in Nat, k \in Nat :
        L = Len(text) /\ m = L - i /\ j = i + 1 /\ a = n + 1 /\ k = i + n
  BY DEF Text
<1>2. Len(t) = m /\ t = Mid(text, j, L) /\ From(t, a) = Mid(t, a, m)
  <2>1. Len(t) = m
    BY <1>1, EndTyped DEF Copies
  <2> QED
    BY <1>1, <2>1 DEF From, Mid
<1>3. k \in 0..L /\ n <= m
  BY <1>1, <1>2
<1>4. PICK b \in Nat : b = k + 1
  OBVIOUS
<1>5. IsPart(1..(ByteSize - 1), text, j, L, a, m, b, L)
  <2>1. text \in Seq(1..(ByteSize - 1))
    BY DEF Text
  <2> QED
    BY <1>1, <1>3, <1>4, <2>1 DEF IsPart
<1>6. Mid(Mid(text, j, L), a, m) = Mid(text, b, L)
  BY <1>5, PartOfPart
<1>7. From(t, n + 1) = From(text, k + 1)
  <2>1. From(text, k + 1) = Mid(text, b, L)
    BY <1>1, <1>4 DEF From, Mid
  <2> QED
    BY <1>1, <1>2, <1>6, <2>1
<1> QED
  BY <1>1, <1>3, <1>7

LEMMA NewlineSaysNothing == <<NL>> \in Text /\ Directive(<<NL>>) = Nothing
<1>1. NL \in 1..(ByteSize - 1)
  BY TextAssumption DEF NL
<1>2. <<NL>> \in Text
  BY <1>1 DEF Text
<1>3. trim(<<NL>>) = <<>>
  BY BlankIs DEF isspace, Space, NL
<1> QED
  BY <1>2, <1>3 DEF Directive

\* A line that fits is one piece, its newline perhaps another.
LEMMA LineTaken ==
  ASSUME NEW text \in Text, text # <<>>, Places(text, NL) \subseteq {Len(text)},
         \A i \in DOMAIN text : i > Limit => text[i] = NL,
         NEW n, TakenBy(n, text)
  PROVE  /\ Directive(Upto(text, n)) = Directive(text)
         /\ From(text, n + 1) \in {<<>>, <<NL>>}
<1>1. PICK L \in Nat, m \in Nat \ {0} : L = Len(text) /\ L # 0 /\ DOMAIN text = 1..L /\ m = Limit
  BY TextAssumption DEF Text
<1>2. n \in 1..L /\ n <= m
  BY <1>1, TakenIs
<1> DEFINE S == {Len(text), Room} \cup Places(text, NL)
<1>3. S \in SUBSET Nat /\ S \subseteq {L, m} /\ L \in S /\ m \in S
  BY <1>1 DEF Room
<1> HIDE DEF S
<1>4. n \in S
  BY <1>3, LeastIs DEF TakenBy, S
<1>5. CASE n = L
  <2>1. PICK k \in Nat : k = L + 1
    OBVIOUS
  <2>2. Copies(Upto(text, L), text, 1, L, 1..(ByteSize - 1)) /\ Copies(From(text, k), text, k, 0, 1..(ByteSize - 1))
    <3>1. 0 = Len(text) - k + 1 /\ 0 \in Nat /\ 1 <= k
      BY <1>1, <2>1
    <3>2. text \in Seq(1..(ByteSize - 1))
      BY DEF Text
    <3> QED
      BY <1>1, <3>1, <3>2, UptoIs, FromIs
  <2>3. From(text, k) = <<>>
    BY <2>2 DEF Copies
  <2>4. Upto(text, L) = text
    <3>1. PICK t : t = Upto(text, L)
      OBVIOUS
    <3>2. t \in Seq(1..(ByteSize - 1)) /\ Len(t) = L /\ \A x \in 1..L : t[x] = text[x]
      <4>1. \A x \in 1..L : 1 + x - 1 = x
        OBVIOUS
      <4> QED
        BY <2>2, <3>1, <4>1 DEF Copies
    <3>3. text \in Seq(1..(ByteSize - 1))
      BY DEF Text
    <3> QED
      BY <1>1, <3>1, <3>2, <3>3, SameSeq
  <2> QED
    BY <1>5, <2>1, <2>3, <2>4
<1>6. CASE n # L
  <2>1. n = m /\ m < L
    BY <1>2, <1>3, <1>4, <1>6
  <2>2. m + 1 \in 1..L /\ text[m + 1] = NL
    BY <1>1, <2>1
  <2>3. m + 1 = L
    BY <1>1, <2>2 DEF Places
  <2>4. text[L] = NL /\ m = L - 1
    BY <2>2, <2>3
  <2>5. Directive(Upto(text, n)) = Directive(text)
    <3>1. trim(Upto(text, Len(text) - 1)) = trim(text)
      BY <1>1, <2>4, TrimLast DEF isspace, Space, NL, Text
    <3> QED
      BY <1>1, <2>1, <2>4, <3>1 DEF Directive
  <2>6. Copies(From(text, L), text, L, 1, 1..(ByteSize - 1))
    <3>1. 1 = Len(text) - L + 1 /\ 1 \in Nat /\ 1 <= L
      BY <1>1
    <3>2. text \in Seq(1..(ByteSize - 1))
      BY DEF Text
    <3> QED
      BY <1>1, <3>1, <3>2, FromIs
  <2>7. From(text, L) = <<NL>>
    <3>1. PICK t : t = From(text, L)
      OBVIOUS
    <3>2. t \in Seq(1..(ByteSize - 1)) /\ Len(t) = 1 /\ t[1] = NL
      BY <2>4, <2>6, <3>1 DEF Copies
    <3> QED
      BY <3>1, <3>2
  <2>8. n + 1 = L
    BY <2>1, <2>3
  <2> QED
    BY <2>5, <2>7, <2>8
<1> QED
  BY <1>5, <1>6

LEMMA AppendSecond == ASSUME NEW d, NEW e PROVE Append(<<d>>, e) = <<d, e>>
<1>1. PICK s, t, r : s = <<d>> /\ t = Append(s, e) /\ r = <<d, e>>
  OBVIOUS
<1>2. s \in Seq({d, e}) /\ Len(s) = 1 /\ s[1] = d
  BY <1>1
<1>3. t \in Seq({d, e}) /\ Len(t) = 2 /\ t[1] = d /\ t[2] = e
  BY <1>1, <1>2
<1>4. r \in Seq({d, e}) /\ Len(r) = 2 /\ r[1] = d /\ r[2] = e
  BY <1>1
<1>5. \A k \in 1..Len(t) : t[k] = r[k]
  BY <1>3, <1>4
<1>6. t = r
  BY <1>3, <1>4, <1>5, SameSeq
<1> QED
  BY <1>1, <1>6

LEMMA NewlineTaken == Upto(<<NL>>, 1) = <<NL>> /\ From(<<NL>>, 2) = <<>>
<1>1. PICK s, t, r : s = <<NL>> /\ t = Upto(s, 1) /\ r = From(s, 2)
  OBVIOUS
<1>2. s \in Seq({NL}) /\ Len(s) = 1 /\ s[1] = NL /\ 0 = Len(s) - 2 + 1
  BY <1>1
<1>3. Copies(t, s, 1, 1, {NL}) /\ Copies(r, s, 2, 0, {NL})
  BY <1>1, <1>2, UptoIs, FromIs
<1>4. t \in Seq({NL}) /\ Len(t) = 1 /\ t[1] = NL /\ r = <<>>
  BY <1>2, <1>3 DEF Copies
<1>5. t = <<NL>>
  BY <1>4
<1> QED
  BY <1>1, <1>4, <1>5

LEMMA InitIsRead == Init => TextInv
<1> SUFFICES ASSUME Init PROVE TextInv
  OBVIOUS
<1>1. PICK text : text = line.text /\ text \in Text /\ line \in Lines /\ left = text /\ outcomes = <<>>
  BY LineIs DEF Init
<1>2. EndOf(text)
  <2>1. 0 \in 0..Len(text) /\ 0 + 1 = 1
    BY <1>1 DEF Text
  <2>2. From(text, 1) = text
    BY <1>1, FromFirst DEF Text
  <2>3. left = From(text, 0 + 1)
    BY <1>1, <2>1, <2>2
  <2> QED
    BY <2>1, <2>3 DEF EndOf
<1>3. outcomes \in Pieces
  BY <1>1 DEF Pieces
<1> QED
  BY <1>1, <1>2, <1>3 DEF TextInv, Stage

LEMMA StepIsRead == TextInv /\ [Next]_vars => TextInv'
<1> SUFFICES ASSUME TextInv, [Next]_vars PROVE TextInv'
  OBVIOUS
<1>1. PICK text : text = line.text /\ text \in Text /\ line \in Lines /\ Places(text, NL) \subseteq {Len(text)}
  BY LineIs DEF TextInv
<1>2. CASE UNCHANGED vars
  BY <1>2 DEF vars, TextInv, EndOf, Stage, Fits, Pieces
<1>3. CASE fgets
  <2>1. left # <<>> /\ line' = line
    BY <1>3 DEF fgets
  <2>2. PICK n : /\ TakenBy(n, left)
                 /\ outcomes' = Append(outcomes, Directive(Upto(left, n)))
                 /\ left' = From(left, n + 1)
    BY <1>3 DEF fgets, TakenBy
  <2>3. PICK i \in 0..Len(text) : left = From(text, i + 1)
    BY <1>1 DEF TextInv, EndOf
  <2>4. left \in Text
    BY <1>1, <2>3, EndTyped
  <2>5. n \in 1..Len(left)
    BY <2>1, <2>2, <2>4, TakenIs
  <2>6. EndOf(line.text)'
    <3>1. \E k \in 0..Len(text) : left' = From(text, k + 1)
      BY <1>1, <2>2, <2>3, <2>5, EndsOn
    <3> QED
      BY <1>1, <2>1, <3>1 DEF EndOf
  <2>7. outcomes' \in Pieces
    <3>1. Upto(left, n) \in Text
      <4>1. n \in Nat /\ n <= Len(left)
        BY <2>4, <2>5 DEF Text
      <4> QED
        BY <2>4, <4>1, UptoIs DEF Copies, Text
    <3> QED
      BY <2>2, <3>1 DEF TextInv, Pieces
  <2>8. ASSUME Fits' PROVE Stage(line.text)'
    <3>1. Fits /\ \A k \in DOMAIN text : k > Limit => text[k] = NL
      BY <1>1, <2>1, <2>8 DEF Fits
    <3>2. CASE left = text /\ outcomes = <<>>
      <4>1. Directive(Upto(text, n)) = Directive(text) /\ From(text, n + 1) \in {<<>>, <<NL>>}
        BY <1>1, <2>1, <2>2, <3>1, <3>2, LineTaken
      <4>2. outcomes' = <<Directive(text)>> /\ left' \in {<<>>, <<NL>>}
        BY <2>2, <3>2, <4>1
      <4> QED
        BY <1>1, <2>1, <4>2 DEF Stage
    <3>3. CASE left = <<NL>> /\ outcomes = <<Directive(text)>>
      <4>1. n = 1
        BY <2>5, <3>3
      <4>2. Upto(left, n) = <<NL>> /\ From(left, n + 1) = <<>>
        BY <3>3, <4>1, NewlineTaken
      <4>3. outcomes' = <<Directive(text), Nothing>> /\ left' = <<>>
        <5>1. outcomes' = Append(outcomes, Nothing)
          BY <2>2, <4>2, NewlineSaysNothing
        <5>2. \A d, e : Append(<<d>>, e) = <<d, e>>
          BY AppendSecond, Zenon
        <5>3. left' = <<>>
          BY <2>2, <4>2
        <5> QED
          BY <3>3, <5>1, <5>2, <5>3, Zenon
      <4> QED
        BY <1>1, <2>1, <4>3 DEF Stage
    <3>4. Stage(text)
      BY <1>1, <3>1 DEF TextInv
    <3> QED
      BY <2>1, <3>2, <3>3, <3>4 DEF Stage
  <2> QED
    BY <1>1, <2>1, <2>6, <2>7, <2>8 DEF TextInv
<1> QED
  BY <1>2, <1>3 DEF Next

LEMMA AlwaysRead == Spec => []TextInv
BY InitIsRead, StepIsRead, PTL DEF Spec

\* What is left is always an end of the line, and each piece of it, of any text, sets
\* nothing but bytes or does nothing else than delete, refuse or pass over: the loop of
\* main and apply_directive, dt_apply.c:44-113, 142-158.
THEOREM TextTypeCorrect == Spec => []TypeOK
<1>1. TextInv => TypeOK
  <2> SUFFICES ASSUME TextInv PROVE TypeOK
    OBVIOUS
  <2>1. \E i \in 0..Len(line.text) : left = From(line.text, i + 1)
    BY DEF TextInv, EndOf
  <2>2. ASSUME NEW i \in DOMAIN outcomes PROVE Outcome(outcomes[i])
    <3>1. outcomes[i] \in {Directive(p) : p \in Text}
      BY DEF TextInv, Pieces
    <3> QED
      BY <3>1, DirectiveTyped
  <2> QED
    BY <2>1, <2>2 DEF TypeOK, Outcome, Byte
<1> QED
  BY <1>1, AlwaysRead, PTL

\* A comment is nothing before its '#' but blanks.
LEMMA CommentIs ==
  ASSUME NEW text \in Text, IsComment(text)
  PROVE  Directive(text) = Nothing
<1>1. PICK n \in Nat : n = Len(text) /\ DOMAIN text = 1..n
  BY DEF Text
<1>2. CASE trim(text) = <<>>
  BY <1>2 DEF Directive
<1>3. CASE Padded(text, trim(text))
  <2>1. PICK i, j : At(text, trim(text), i, j)
    BY <1>3, PaddedAt DEF Text
  <2>2. i \in 1..n /\ ~isspace(text[i]) /\ \A k \in 1..n : k < i => isspace(text[k])
    BY <1>1, <2>1 DEF At
  <2>3. PICK h \in 1..i : text[h] = char.hash
    BY <1>1, <2>2 DEF IsComment
  <2>4. ~isspace(char.hash)
    BY DEF isspace, Space, char
  <2>5. h = i
    BY <2>2, <2>3, <2>4
  <2>6. trim(text) # <<>> /\ trim(text)[1] = text[i]
    <3>1. PICK m \in Nat : m = j - i + 1 /\ m # 0 /\ 1 \in 1..m
      <4>1. i \in Nat /\ j \in Nat /\ i <= j
        BY <2>1 DEF At
      <4> QED
        BY <4>1
    <3>2. Bounds(text, i, j, m)
      BY <2>1, <3>1 DEF At, Bounds
    <3>3. Copies(trim(text), text, i, m, 1..(ByteSize - 1))
      BY <2>1, <3>2, PartIs DEF At, Text
    <3>4. i + 1 - 1 = i
      BY <2>2
    <3> QED
      BY <3>1, <3>3, <3>4 DEF Copies
  <2> QED
    BY <2>3, <2>5, <2>6 DEF Directive
<1> QED
  BY <1>2, <1>3, TrimIs DEF Text

\* A comment that fits the buffer, of whatever length that is, makes no edit, however
\* main's fgets takes it apart (dt_apply.c:142-150).
THEOREM TextCommentsIgnored == Spec => []CommentsIgnored
<1>1. TextInv => CommentsIgnored
  <2> SUFFICES ASSUME TextInv, line.kind = "comment", left = <<>>, Fits
               PROVE  \A i \in DOMAIN outcomes : outcomes[i] = Nothing
    BY DEF CommentsIgnored, ReadAs
  <2>1. line.text \in Text /\ IsComment(line.text)
    BY TextAssumption, LineIs DEF TextInv
  <2>2. Directive(line.text) = Nothing
    BY <2>1, CommentIs
  <2>3. outcomes \in {<<>>, <<Directive(line.text)>>, <<Directive(line.text), Nothing>>}
    BY DEF TextInv, Stage
  <2> QED
    BY <2>2, <2>3
<1> QED
  BY <1>1, AlwaysRead, PTL

-----------------------------------------------------------------------------
(***************************************************************************)
(* A line that assigns a value to a path is taken apart at the right       *)
(* places: main and split_path.                                            *)
(***************************************************************************)
\* Within s from lo to hi, everything but what is from i to j is blank.
Inside(s, lo, i, j, hi) ==
  /\ lo \in Nat /\ i \in Nat /\ j \in Nat /\ hi \in Nat
  /\ 1 <= lo /\ lo <= i /\ i <= j /\ j <= hi /\ hi <= Len(s)
  /\ ~isspace(s[i]) /\ ~isspace(s[j])
  /\ \A k \in lo..hi : k < i \/ k > j => isspace(s[k])

LEMMA TrimPart ==
  ASSUME NEW E, NEW s \in Seq(E), NEW lo, NEW i, NEW j, NEW hi, Inside(s, lo, i, j, hi)
  PROVE  trim(Mid(s, lo, hi)) = Mid(s, i, j)
<1>0. /\ lo \in Nat /\ i \in Nat /\ j \in Nat /\ hi \in Nat
      /\ 1 <= lo /\ lo <= i /\ i <= j /\ j <= hi /\ hi <= Len(s)
      /\ ~isspace(s[i]) /\ ~isspace(s[j])
  BY DEF Inside
<1>1. PICK n \in Nat, a \in Nat, b \in Nat : n = hi - lo + 1 /\ a = i - lo + 1 /\ b = j - lo + 1
  <2>1. hi - lo + 1 \in Nat /\ i - lo + 1 \in Nat /\ j - lo + 1 \in Nat
    BY <1>0
  <2> QED
    BY <2>1
<1>2. PICK t, f : t = Mid(s, lo, hi) /\ f = Mid(s, i, j)
  OBVIOUS
<1>3. Copies(t, s, lo, n, E)
  <2>1. Bounds(s, lo, hi, n)
    BY <1>0, <1>1 DEF Bounds
  <2> QED
    BY <1>2, <2>1, PartIs
<1>4. Mid(t, a, b) = f
  <2>1. IsPart(E, s, lo, hi, a, b, i, j)
    BY <1>0, <1>1 DEF IsPart
  <2> QED
    BY <1>2, <2>1, PartOfPart
<1>5. At(t, f, a, b)
  <2>1. 1 <= a /\ a <= b /\ b <= n /\ lo + a - 1 = i /\ lo + b - 1 = j
    BY <1>0, <1>1
  <2>2. t[a] = s[i] /\ t[b] = s[j]
    <3>1. a \in 1..n /\ b \in 1..n
      BY <1>1, <2>1
    <3>2. t[a] = s[lo + a - 1] /\ t[b] = s[lo + b - 1]
      BY <1>3, <3>1 DEF Copies
    <3> QED
      BY <2>1, <3>2
  <2>3. ASSUME NEW k \in 1..n, k < a \/ k > b PROVE isspace(t[k])
    <3>1. PICK x \in Nat : x = lo + k - 1
      BY <1>0
    <3>2. x \in lo..hi /\ (x < i \/ x > j) /\ t[k] = s[x]
      <4>1. x \in lo..hi /\ (x < i \/ x > j)
        BY <1>0, <1>1, <2>3, <3>1
      <4>2. t[k] = s[lo + k - 1]
        BY <1>3 DEF Copies
      <4> QED
        BY <3>1, <4>1, <4>2
    <3> QED
      BY <3>2 DEF Inside
  <2> QED
    BY <1>0, <1>1, <1>3, <1>4, <2>1, <2>2, <2>3 DEF At, Copies
<1>6. Padded(t, f) /\ t \in Seq(E)
  <2>1. t \in Seq(E)
    BY <1>3 DEF Copies
  <2> QED
    BY <1>5, <2>1, PaddedAt
<1> QED
  BY <1>2, <1>6, PaddedIs

LEMMA WholeIs == ASSUME NEW E, NEW s \in Seq(E) PROVE Mid(s, 1, Len(s)) = s
<1>1. Mid(s, 1, Len(s)) = From(s, 1)
  BY DEF Mid, From
<1> QED
  BY <1>1, FromFirst

\* Two runs of characters with a slash between, as split_path takes them apart.
Joins(t, a, c, b, E) == a \in Seq(E) /\ b \in Seq(E) /\ c \in E /\ t = a \o <<c>> \o b
Joined(t, a, c, b, n, E) ==
  /\ t \in Seq(E) /\ Len(t) = n + Len(b) /\ t[n] = c
  /\ \A k \in 1..Len(a) : t[k] = a[k]
  /\ \A k \in 1..Len(b) : t[n + k] = b[k]

LEMMA JoinIs ==
  ASSUME NEW E, NEW a, NEW b, NEW c, NEW t, Joins(t, a, c, b, E),
         NEW n \in Nat, n = Len(a) + 1
  PROVE  Joined(t, a, c, b, n, E)
<1>0. a \in Seq(E) /\ b \in Seq(E) /\ c \in E /\ t = a \o <<c>> \o b
  BY DEF Joins
<1>1. PICK s : s = a \o <<c>>
  OBVIOUS
<1>2. s \in Seq(E) /\ Len(s) = n /\ s[n] = c /\ \A k \in 1..Len(a) : s[k] = a[k]
  BY <1>0, <1>1
<1>3. t = s \o b
  BY <1>0, <1>1
<1> QED
  BY <1>0, <1>2, <1>3 DEF Joined

LEMMA JoinParts ==
  ASSUME NEW E, NEW a, NEW b, NEW c, NEW t, Joins(t, a, c, b, E),
         NEW L \in Nat, L = Len(a), NEW m \in Nat, m = L + 2
  PROVE  Upto(t, L) = a /\ From(t, m) = b
<1> a \in Seq(E) /\ b \in Seq(E) /\ c \in E
  BY DEF Joins
<1>0. PICK n \in Nat, M \in Nat : n = Len(a) + 1 /\ M = Len(b) /\ m = n + 1 /\ n - 1 = L
  OBVIOUS
<1>1. t \in Seq(E) /\ Len(t) = n + M /\ \A k \in 1..L : t[k] = a[k]
  BY <1>0, JoinIs DEF Joined
<1>2. \A k \in 1..M : t[n + k] = b[k]
  BY <1>0, JoinIs DEF Joined
<1>3. PICK u, v : u = Upto(t, L) /\ v = From(t, m)
  OBVIOUS
<1>4. u \in Seq(E) /\ Len(u) = L /\ \A k \in 1..L : u[k] = t[k]
  <2>1. L <= Len(t)
    BY <1>0, <1>1
  <2> QED
    BY <1>1, <1>3, <2>1, UptoAt DEF Begins
<1>5. Copies(v, t, m, M, E)
  <2>1. M = Len(t) - m + 1 /\ 1 <= m
    BY <1>0, <1>1
  <2> QED
    BY <1>1, <1>3, <2>1, FromIs
<1>6. u = a
  <2>1. \A k \in 1..L : u[k] = a[k]
    BY <1>1, <1>4
  <2> QED
    BY <1>0, <1>4, <2>1, SameSeq
<1>7. v = b
  <2>1. ASSUME NEW k \in 1..M PROVE v[k] = b[k]
    <3>1. v[k] = t[m + k - 1] /\ m + k - 1 = n + k
      BY <1>0, <1>5 DEF Copies
    <3> QED
      BY <1>2, <3>1
  <2> QED
    BY <1>0, <1>5, <2>1, SameSeq DEF Copies
<1> QED
  BY <1>0, <1>3, <1>6, <1>7

\* split_path gives back the node and the property the path was made of.
LEMMA PathRead ==
  ASSUME NEW node \in Seq(Byte), NEW prop \in Seq(Byte), NEW v,
         node # <<>>, node[1] = char.slash, Len(node) < NodeCap, Places(prop, char.slash) = {},
         NEW p, p = PathOf(node, prop)
  PROVE  /\ apply_directive(p, v) = Edit(node, prop, v)
         /\ p # <<>> /\ p[1] = char.slash
<1>1. PICK c \in Byte : c = char.slash
  BY TextAssumption DEF char, Byte
<1>2. PICK a : a = IF node = <<char.slash>> THEN <<>> ELSE node
  OBVIOUS
<1>3. a \in Seq(Byte) /\ Len(a) \in Nat
  BY <1>2
<1>4. PICK n \in Nat : n = Len(a) + 1 /\ n - 1 = Len(a)
  BY <1>3
<1>5. Joins(p, a, c, prop, Byte)
  BY <1>1, <1>2, <1>3 DEF PathOf, Joins
<1>6. /\ p \in Seq(Byte) /\ Len(p) = n + Len(prop) /\ p[n] = c
      /\ \A k \in 1..Len(a) : p[k] = a[k]
      /\ \A k \in 1..Len(prop) : p[n + k] = prop[k]
  <2>1. Joined(p, a, c, prop, n, Byte)
    BY <1>3, <1>4, <1>5, JoinIs
  <2> QED
    BY <2>1 DEF Joined
<1>7. Upto(p, n - 1) = a /\ From(p, n + 1) = prop
  <2>1. PICK L, m : L = n - 1 /\ m = n + 1
    OBVIOUS
  <2>2. L \in Nat /\ L = Len(a) /\ m \in Nat /\ m = L + 2
    BY <1>3, <1>4, <2>1
  <2>3. Upto(p, L) = a /\ From(p, m) = prop
    BY <1>3, <1>5, <2>2, JoinParts
  <2> QED
    BY <2>1, <2>3, Zenon
<1>8. Places(p, c) # {} /\ strrchr(p, c) = n
  <2>1. PICK M \in Nat : M = Len(prop) /\ DOMAIN prop = 1..M /\ Len(p) = n + M
    BY <1>6
  <2>2. ASSUME NEW k \in (n + 1)..Len(p), p[k] = c PROVE FALSE
    <3>1. PICK m \in 1..M : m = k - n /\ k = n + m
      <4>1. k - n \in 1..M /\ k = n + (k - n)
        BY <2>1
      <4> QED
        BY <4>1
    <3>2. prop[m] = c
      BY <1>6, <2>1, <2>2, <3>1
    <3> QED
      BY <1>1, <2>1, <3>2 DEF Places
  <2>3. n \in 1..Len(p)
    BY <1>3, <1>4, <2>1
  <2> QED
    BY <1>6, <2>2, <2>3, StrrchrAt
<1>9. CASE node = <<char.slash>>
  <2>1. n = 1 /\ ~(1 > NodeCap)
    <3>1. Len(a) = 0 /\ Len(node) = 1
      BY <1>2, <1>9
    <3> QED
      BY <1>4, <3>1, TextAssumption
  <2>2. apply_directive(p, v) = Edit(<<char.slash>>, prop, v)
    BY <1>1, <1>7, <1>8, <2>1 DEF apply_directive
  <2> QED
    BY <1>1, <1>6, <1>9, <2>1, <2>2
<1>10. CASE node # <<char.slash>>
  <2>1. a = node /\ n # 1 /\ ~(n > NodeCap) /\ 1 \in 1..Len(a)
    <3>1. a = node /\ Len(node) \in Nat /\ Len(node) # 0 /\ Len(node) < NodeCap
      BY <1>2, <1>10
    <3> QED
      BY <1>4, <3>1, TextAssumption
  <2>2. apply_directive(p, v) = Edit(node, prop, v)
    BY <1>1, <1>7, <1>8, <2>1 DEF apply_directive
  <2>3. p[1] = char.slash
    BY <1>6, <2>1
  <2>4. p # <<>>
    BY <1>3, <1>4, <1>6
  <2> QED
    BY <2>2, <2>3, <2>4
<1> QED
  BY <1>9, <1>10

\* From the first character of the path, at a, to the last of the value: the '=' at e, the
\* path up to b and the value from i.
Assigned(text, a, b, e, i, j) ==
  /\ a \in Nat /\ b \in Nat /\ e \in Nat /\ i \in Nat /\ j \in Nat
  /\ 1 <= a /\ a <= b /\ b < e /\ e < i /\ i <= j /\ j <= Len(text)
  /\ ~isspace(text[a]) /\ ~isspace(text[b]) /\ ~isspace(text[i]) /\ ~isspace(text[j])
  /\ \A k \in 1..Len(text) : k < a \/ k > j => isspace(text[k])
  /\ \A k \in 1..Len(text) : (k > b /\ k < e) \/ (k > e /\ k < i) => isspace(text[k])
  /\ text[e] = char.equals /\ \A k \in 1..(e - 1) : text[k] # char.equals

LEMMA AssignedRead ==
  ASSUME NEW text \in Text, NEW a, NEW b, NEW e, NEW i, NEW j, Assigned(text, a, b, e, i, j),
         text[a] # char.hash
  PROVE  Directive(text) = apply_directive(Mid(text, a, b), Mid(text, i, j))
<1> DEFINE E == 1..(ByteSize - 1)
<1>0. PICK L \in Nat : L = Len(text) /\ text \in Seq(E)
  BY DEF Text
<1> HIDE DEF E
<1>1. /\ a \in Nat /\ b \in Nat /\ e \in Nat /\ i \in Nat /\ j \in Nat
      /\ 1 <= a /\ a <= b /\ b < e /\ e < i /\ i <= j /\ j <= L
  BY <1>0 DEF Assigned
<1>2. PICK s : s = Mid(text, a, j)
  OBVIOUS
<1>3. PICK n, q, x, y, d : n = j - a + 1 /\ q = e - a + 1 /\ x = q - 1 /\ y = q + 1 /\ d = e - 1
  OBVIOUS
<1> n \in Nat /\ q \in Nat /\ x \in Nat /\ y \in Nat /\ d \in Nat
  BY <1>1, <1>3
<1>4. Copies(s, text, a, n, E)
  <2>1. Bounds(text, a, j, n)
    BY <1>0, <1>1, <1>3 DEF Bounds
  <2> QED
    BY <1>0, <1>2, <2>1, PartIs
<1>5. s \in Seq(E) /\ Len(s) = n /\ DOMAIN s = 1..n /\ n # 0
  BY <1>1, <1>3, <1>4 DEF Copies
<1>6. trim(text) = s
  <2>1. Inside(text, 1, a, j, L)
    BY <1>0, <1>1 DEF Inside, Assigned
  <2>2. trim(Mid(text, 1, L)) = s
    BY <1>0, <1>2, <2>1, TrimPart
  <2> QED
    BY <1>0, <2>2, WholeIs
<1>7. s # <<>> /\ s[1] = text[a]
  <2>1. 1 \in 1..n /\ a + 1 - 1 = a
    BY <1>1, <1>3
  <2> QED
    BY <1>4, <1>5, <2>1 DEF Copies
<1>8. Places(s, char.equals) # {} /\ strchr(s, char.equals) = q
  <2>1. q \in 1..n
    BY <1>1, <1>3
  <2>2. s[q] = char.equals
    <3>1. PICK r : r = a + q - 1
      OBVIOUS
    <3>2. s[q] = text[r]
      BY <1>4, <2>1, <3>1 DEF Copies
    <3>3. r = e
      BY <1>1, <1>3, <3>1
    <3> QED
      BY <3>2, <3>3 DEF Assigned
  <2>3. ASSUME NEW k \in 1..(q - 1) PROVE s[k] # char.equals
    <3>1. PICK m \in Nat : m = a + k - 1
      BY <1>1
    <3>2. k \in 1..n /\ m \in 1..(e - 1)
      BY <1>1, <1>3, <3>1
    <3>3. s[k] = text[m]
      BY <1>4, <3>1, <3>2 DEF Copies
    <3> QED
      BY <3>2, <3>3 DEF Assigned
  <2> QED
    BY <1>5, <2>1, <2>2, <2>3, StrchrAt
<1>9. Upto(s, x) = Mid(text, a, d)
  <2>1. IsPart(E, text, a, j, 1, x, a, d)
    BY <1>0, <1>1, <1>3 DEF IsPart
  <2>2. Mid(s, 1, x) = Mid(text, a, d)
    BY <1>2, <2>1, PartOfPart
  <2> QED
    BY <2>2 DEF Upto, Mid
<1>10. PICK z \in Nat : z = e + 1
  BY <1>1
<1>11. From(s, y) = Mid(text, z, j)
  <2>1. IsPart(E, text, a, j, y, n, z, j)
    BY <1>0, <1>1, <1>3, <1>10 DEF IsPart
  <2>2. Mid(s, y, n) = Mid(text, z, j)
    BY <1>2, <2>1, PartOfPart
  <2>3. From(s, y) = Mid(s, y, n)
    BY <1>5 DEF From, Mid
  <2> QED
    BY <2>2, <2>3
<1>12. trim(Upto(s, x)) = Mid(text, a, b)
  <2>1. \A k \in a..d : k \in 1..Len(text) /\ (k < a \/ k > b => k > b /\ k < e)
    BY <1>0, <1>1, <1>3
  <2>2. \A k \in a..d : k < a \/ k > b => isspace(text[k])
    BY <2>1 DEF Assigned
  <2>3. Inside(text, a, a, b, d)
    BY <1>0, <1>1, <1>3, <2>2 DEF Inside, Assigned
  <2> QED
    BY <1>0, <1>9, <2>3, TrimPart
<1>13. trim(From(s, y)) = Mid(text, i, j)
  <2>1. \A k \in z..j : k \in 1..Len(text) /\ (k < i \/ k > j => k > e /\ k < i)
    BY <1>0, <1>1, <1>10
  <2>2. \A k \in z..j : k < i \/ k > j => isspace(text[k])
    BY <2>1 DEF Assigned
  <2>3. Inside(text, z, i, j, j)
    BY <1>0, <1>1, <1>10, <2>2 DEF Inside, Assigned
  <2> QED
    BY <1>0, <1>11, <2>3, TrimPart
<1>14. Directive(text) = apply_directive(trim(Upto(s, x)), trim(From(s, y)))
  <2>1. Directive(text) = apply_directive(trim(Upto(s, q - 1)), trim(From(s, q + 1)))
    BY <1>6, <1>7, <1>8 DEF Directive
  <2> QED
    BY <1>3, <2>1, Zenon
<1> QED
  BY <1>12, <1>13, <1>14

LEMMA AssignsRead ==
  ASSUME NEW text \in Text, NEW node, NEW prop, NEW i \in DOMAIN text, NEW j \in DOMAIN text,
         Assigns(text, node, prop, i, j)
  PROVE  Directive(text) = Edit(node, prop, Mid(text, i, j))
<1> DEFINE E == 1..(ByteSize - 1)
<1>0. PICK L \in Nat : L = Len(text) /\ text \in Seq(E) /\ DOMAIN text = 1..L
  BY DEF Text
<1> HIDE DEF E
<1>1. /\ i \in 1..L /\ j \in 1..L /\ i <= j /\ ~isspace(text[i]) /\ ~isspace(text[j])
      /\ \A k \in (j + 1)..L : isspace(text[k])
  BY <1>0 DEF Assigns
<1>2. /\ node \in Seq(Byte) /\ node # <<>> /\ node[1] = char.slash /\ Len(node) < NodeCap
      /\ prop \in Seq(Byte) /\ Places(prop, char.slash) = {}
  BY DEF Assigns
<1>3. PICK e \in 1..(i - 1) :
        /\ Places(Upto(text, e), char.equals) = {e}
        /\ \A k \in (e + 1)..(i - 1) : isspace(text[k])
        /\ Padded(Upto(text, e - 1), PathOf(node, prop))
  BY DEF Assigns
<1>4. PICK d, p : d = e - 1 /\ p = PathOf(node, prop)
  OBVIOUS
<1>5. e \in Nat /\ d \in Nat /\ e <= L /\ d < e
  BY <1>1, <1>4
<1>6. PICK t : t = Upto(text, d) /\ Begins(t, text, d, E)
  BY <1>0, <1>5, UptoAt
<1>7. PICK a, b : At(t, p, a, b)
  <2>1. Padded(t, p)
    BY <1>3, <1>4, <1>6
  <2> QED
    BY <1>6, <2>1, PaddedAt DEF Begins
<1>8. /\ a \in Nat /\ b \in Nat /\ 1 <= a /\ a <= b /\ b <= d
      /\ ~isspace(text[a]) /\ ~isspace(text[b])
      /\ \A k \in 1..d : k < a \/ k > b => isspace(text[k])
  <2>1. a \in Nat /\ b \in Nat /\ 1 <= a /\ a <= b /\ b <= d
    BY <1>6, <1>7 DEF At, Begins
  <2>2. t[a] = text[a] /\ t[b] = text[b]
    BY <1>5, <1>6, <2>1 DEF Begins
  <2>3. \A k \in 1..d : k < a \/ k > b => isspace(text[k])
    BY <1>6, <1>7 DEF At, Begins
  <2> QED
    BY <1>7, <2>1, <2>2, <2>3 DEF At
<1>9. p = Mid(text, a, b)
  <2>1. IsPart(E, text, 1, d, a, b, a, b)
    BY <1>0, <1>5, <1>8 DEF IsPart
  <2>2. t = Mid(text, 1, d)
    BY <1>6 DEF Upto, Mid
  <2> QED
    BY <1>7, <2>1, <2>2, PartOfPart DEF At
<1>10. text[e] = char.equals /\ \A k \in 1..(e - 1) : text[k] # char.equals
  <2>1. PICK u : u = Upto(text, e) /\ Begins(u, text, e, E)
    BY <1>0, <1>5, UptoAt
  <2>2. DOMAIN u = 1..e /\ \A k \in 1..e : u[k] = text[k]
    BY <2>1 DEF Begins
  <2>3. Places(u, char.equals) = {e}
    BY <1>3, <2>1
  <2>4. \A k \in 1..e : text[k] = char.equals <=> k = e
    BY <2>2, <2>3 DEF Places
  <2> QED
    BY <1>5, <2>4
<1>11. Assigned(text, a, b, e, i, j)
  <2>1. \A k \in 1..Len(text) : k < a \/ k > j => isspace(text[k])
    <3>1. \A k \in 1..L : (k < a => k \in 1..d) /\ (k > j => k \in (j + 1)..L)
      BY <1>1, <1>5, <1>8
    <3> QED
      BY <1>0, <1>1, <1>8, <3>1
  <2>2. \A k \in 1..Len(text) : (k > b /\ k < e) \/ (k > e /\ k < i) => isspace(text[k])
    <3>1. \A k \in 1..L : (k > b /\ k < e => k \in 1..d) /\ (k > e /\ k < i => k \in (e + 1)..(i - 1))
      BY <1>1, <1>4, <1>5, <1>8
    <3> QED
      BY <1>0, <1>3, <1>8, <3>1
  <2>3. b < e /\ e < i /\ i \in Nat /\ j \in Nat
    BY <1>1, <1>5, <1>8
  <2> QED
    BY <1>0, <1>1, <1>5, <1>8, <1>10, <2>1, <2>2, <2>3 DEF Assigned
<1>12. apply_directive(p, Mid(text, i, j)) = Edit(node, prop, Mid(text, i, j)) /\ p # <<>> /\ p[1] = char.slash
  BY <1>2, <1>4, PathRead
<1>13. text[a] # char.hash
  <2>1. PICK m \in Nat : m = b - a + 1 /\ 1 \in 1..m
    <3>1. b - a + 1 \in Nat /\ 1 \in 1..(b - a + 1)
      BY <1>8
    <3> QED
      BY <3>1
  <2>2. Bounds(text, a, b, m)
    BY <1>0, <1>5, <1>8, <2>1 DEF Bounds
  <2>3. Copies(p, text, a, m, E)
    BY <1>0, <1>9, <2>2, PartIs
  <2>4. p[1] = text[a]
    <3>1. a + 1 - 1 = a
      BY <1>8
    <3> QED
      BY <2>1, <2>3, <3>1 DEF Copies
  <2> QED
    BY <1>12, <2>4 DEF char
<1> QED
  BY <1>9, <1>11, <1>12, <1>13, AssignedRead

-----------------------------------------------------------------------------
(***************************************************************************)
(* A number that is written out is the number strtoul reads.               *)
(***************************************************************************)
LEMMA LongIs ==
  /\ Words \in Nat /\ LongSize \in Nat /\ ByteSize <= Words /\ Words <= LongSize
  /\ \E q \in Nat : LongSize = Words * q /\ q # 0
<1>1. LongSize \in Nat /\ LongSize # 0 /\ LongSize % Words = 0
  BY TextAssumption
<1>2. CASE ByteSize = 128
  <2>1. PICK W \in Nat : W = Words /\ W = 128 * 128 * 128 * 128
    BY <1>2 DEF Words
  <2>2. LongSize % (128 * 128 * 128 * 128) = 0
    BY <1>1, <2>1
  <2>3. \E q \in Nat : LongSize = (128 * 128 * 128 * 128) * q /\ q # 0
    BY <1>1, <2>2
  <2> QED
    BY <1>1, <1>2, <2>1, <2>3
<1>3. CASE ByteSize = 256
  <2>1. PICK W \in Nat : W = Words /\ W = 256 * 256 * 256 * 256
    BY <1>3 DEF Words
  <2>2. LongSize % (256 * 256 * 256 * 256) = 0
    BY <1>1, <2>1
  <2>3. \E q \in Nat : LongSize = (256 * 256 * 256 * 256) * q /\ q # 0
    BY <1>1, <2>2
  <2> QED
    BY <1>1, <1>3, <2>1, <2>3
<1> QED
  BY <1>2, <1>3, TextAssumption

Sums128(v, a, b, c, d, q) == v = a + 128 * (b + 128 * (c + 128 * (d + 128 * q)))
Apart128(v, a, b, c, d) ==
  /\ v % 128 = a /\ (v \div 128) % 128 = b
  /\ (v \div 16384) % 128 = c /\ (v \div 2097152) % 128 = d

LEMMA Places128 ==
  ASSUME NEW a \in Nat, NEW b \in Nat, NEW c \in Nat, NEW d \in Nat, NEW q \in Nat,
         a < 128, b < 128, c < 128, d < 128,
         NEW v \in Nat, Sums128(v, a, b, c, d, q)
  PROVE  Apart128(v, a, b, c, d)
<1>1. PICK e \in Nat : e = d + 128 * q
  OBVIOUS
<1>2. PICK f \in Nat : f = c + 128 * e
  OBVIOUS
<1>3. PICK g \in Nat : g = b + 128 * f
  OBVIOUS
<1>4. v = a + 128 * g
  BY <1>1, <1>2, <1>3 DEF Sums128
<1>5. v % 128 = a /\ v \div 128 = g
  BY <1>4
<1>6. g % 128 = b
  BY <1>3
<1>7. v \div 16384 = f
  BY <1>3, <1>4
<1>8. f % 128 = c
  BY <1>2
<1>9. v \div 2097152 = e
  BY <1>2, <1>3, <1>4
<1>10. e % 128 = d
  BY <1>1
<1> QED
  BY <1>5, <1>6, <1>7, <1>8, <1>9, <1>10 DEF Apart128

Sums256(v, a, b, c, d, q) == v = a + 256 * (b + 256 * (c + 256 * (d + 256 * q)))
Apart256(v, a, b, c, d) ==
  /\ v % 256 = a /\ (v \div 256) % 256 = b
  /\ (v \div 65536) % 256 = c /\ (v \div 16777216) % 256 = d

LEMMA Places256 ==
  ASSUME NEW a \in Nat, NEW b \in Nat, NEW c \in Nat, NEW d \in Nat, NEW q \in Nat,
         a < 256, b < 256, c < 256, d < 256,
         NEW v \in Nat, Sums256(v, a, b, c, d, q)
  PROVE  Apart256(v, a, b, c, d)
<1>1. PICK e \in Nat : e = d + 256 * q
  OBVIOUS
<1>2. PICK f \in Nat : f = c + 256 * e
  OBVIOUS
<1>3. PICK g \in Nat : g = b + 256 * f
  OBVIOUS
<1>4. v = a + 256 * g
  BY <1>1, <1>2, <1>3 DEF Sums256
<1>5. v % 256 = a /\ v \div 256 = g
  BY <1>4
<1>6. g % 256 = b
  BY <1>3
<1>7. v \div 65536 = f
  BY <1>3, <1>4
<1>8. f % 256 = c
  BY <1>2
<1>9. v \div 16777216 = e
  BY <1>2, <1>3, <1>4
<1>10. e % 256 = d
  BY <1>1
<1> QED
  BY <1>5, <1>6, <1>7, <1>8, <1>9, <1>10 DEF Apart256

IsWord(v, a, b, c, d) ==
  /\ v % ByteSize = a /\ (v \div ByteSize) % ByteSize = b
  /\ (v \div (ByteSize * ByteSize)) % ByteSize = c
  /\ (v \div (ByteSize * ByteSize * ByteSize)) % ByteSize = d

AddsUp(w, a, b, c, d) == w = a + ByteSize * (b + ByteSize * (c + ByteSize * d))
Above(v, w, q) == v = w + Words * q

LEMMA WordPlaces ==
  ASSUME NEW a \in Byte, NEW b \in Byte, NEW c \in Byte, NEW d \in Byte, NEW q \in Nat,
         NEW w \in Nat, AddsUp(w, a, b, c, d), NEW v \in Nat, Above(v, w, q)
  PROVE  w < Words /\ IsWord(v, a, b, c, d)
<1>1. CASE ByteSize = 128
  <2>1. /\ a \in Nat /\ b \in Nat /\ c \in Nat /\ d \in Nat
        /\ a < 128 /\ b < 128 /\ c < 128 /\ d < 128
    BY <1>1, SMT DEF Byte
  <2>2. PICK f \in Nat : f = c + 128 * d
    BY <2>1, SMT
  <2>3. w = a + 128 * (b + 128 * f) /\ v = w + 268435456 * q
    BY <1>1, <2>1, <2>2, SMT DEF Words, AddsUp, Above
  <2>4. v = a + 128 * (b + 128 * (c + 128 * (d + 128 * q)))
    BY <2>1, <2>2, <2>3, SMT
  <2>5. w < Words
    BY <1>1, <2>1, <2>2, <2>3, SMT DEF Words
  <2>6. Apart128(v, a, b, c, d)
    <3>1. Sums128(v, a, b, c, d, q)
      BY <2>4 DEF Sums128
    <3> QED
      BY <2>1, <3>1, Places128, SMT
  <2> QED
    BY <1>1, <2>5, <2>6, SMT DEF IsWord, Apart128
<1>2. CASE ByteSize = 256
  <2>1. /\ a \in Nat /\ b \in Nat /\ c \in Nat /\ d \in Nat
        /\ a < 256 /\ b < 256 /\ c < 256 /\ d < 256
    BY <1>2, SMT DEF Byte
  <2>2. PICK f \in Nat : f = c + 256 * d
    BY <2>1, SMT
  <2>3. w = a + 256 * (b + 256 * f) /\ v = w + 4294967296 * q
    BY <1>2, <2>1, <2>2, SMT DEF Words, AddsUp, Above
  <2>4. v = a + 256 * (b + 256 * (c + 256 * (d + 256 * q)))
    BY <2>1, <2>2, <2>3, SMT
  <2>5. w < Words
    BY <1>2, <2>1, <2>2, <2>3, SMT DEF Words
  <2>6. Apart256(v, a, b, c, d)
    <3>1. Sums256(v, a, b, c, d, q)
      BY <2>4 DEF Sums256
    <3> QED
      BY <2>1, <3>1, Places256, SMT
  <2> QED
    BY <1>2, <2>5, <2>6, SMT DEF IsWord, Apart256
<1> QED
  BY <1>1, <1>2, TextAssumption

LEMMA ElementIs == ASSUME NEW E, NEW s \in Seq(E), NEW k \in 1..Len(s) PROVE s[k] \in E
OBVIOUS

\* The bytes of a word give it back, and what is above a word does not matter.
LEMMA WordBack ==
  ASSUME NEW data \in Seq(Byte), Len(data) = 4, NEW q \in Nat, NEW v, v = Word(data) + Words * q
  PROVE  Word(data) \in Nat /\ Word(data) < Words /\ v \in Nat /\ WordOf(v) = data
<1>1. data[1] \in Byte /\ data[2] \in Byte /\ data[3] \in Byte /\ data[4] \in Byte
  <2>1. 1 \in 1..Len(data) /\ 2 \in 1..Len(data) /\ 3 \in 1..Len(data) /\ 4 \in 1..Len(data)
    OBVIOUS
  <2> QED
    BY <2>1, ElementIs
<1>2. PICK a \in Byte, b \in Byte, c \in Byte, d \in Byte :
        data[1] = a /\ data[2] = b /\ data[3] = c /\ data[4] = d
  BY <1>1
<1>3. PICK w : w = Word(data) /\ w = a + ByteSize * (b + ByteSize * (c + ByteSize * d))
  BY <1>2 DEF Word
<1>4. w \in Nat
  <2>1. Byte \subseteq Nat /\ ByteSize \in Nat
    BY TextAssumption DEF Byte
  <2> QED
    BY <1>3, <2>1
<1>5. v = w + Words * q /\ v \in Nat
  BY <1>3, <1>4, LongIs
<1>6. w < Words /\ IsWord(v, a, b, c, d)
  BY <1>3, <1>4, <1>5, WordPlaces DEF AddsUp, Above
<1>7. /\ WordOf(v)[1] = a /\ WordOf(v)[2] = b /\ WordOf(v)[3] = c /\ WordOf(v)[4] = d
  BY <1>6 DEF IsWord, WordOf, WordUncut
<1>8. PICK t : t = WordOf(v) /\ t \in Seq(Byte) /\ Len(t) = 4
  BY <1>5, WordTyped
<1>9. ASSUME NEW k \in 1..4 PROVE t[k] = data[k]
  <2>1. k = 1 \/ k = 2 \/ k = 3 \/ k = 4
    OBVIOUS
  <2> QED
    BY <1>2, <1>7, <1>8, <2>1
<1>10. t = data
  BY <1>8, <1>9, SameSeq
<1> QED
  BY <1>3, <1>4, <1>5, <1>6, <1>8, <1>10

\* The number that digits make, without a limit to it.
Counted(c, u, b, n) ==
  c \in [0..n -> Nat] /\ c[0] = 0 /\ \A i \in 1..n : c[i] = c[i - 1] * b + digit(u[i])

LEMMA CountedIs ==
  ASSUME NEW t \in Seq(Nat), NEW b \in Nat
  PROVE  \E c : Counted(c, t, b, Len(t)) /\ Number(t, b) = c[Len(t)]
<1>1. PICK n \in Nat : n = Len(t)
  OBVIOUS
<1> DEFINE S == Nat
           add(i, x) == x * b + digit(t[i])
           G == [i \in 1..n |-> [x \in S |-> add(i, x)]]
           Sol(f) == f = [i \in 0..n |-> IF i = 0 THEN 0 ELSE add(i, f[i - 1])]
           F == CHOOSE f : Sol(f)
<1>2. 0 \in S /\ \A i \in 1..n, x \in S : add(i, x) \in S
  <2> SUFFICES ASSUME NEW i \in 1..n, NEW x \in S PROVE add(i, x) \in S
    OBVIOUS
  <2>1. t[i] \in Nat
    BY <1>1
  <2>2. PICK d \in Nat : d = digit(t[i])
    BY <2>1, DigitIs, Zenon
  <2>3. x * b + d \in Nat
    OBVIOUS
  <2> QED
    BY <2>2, <2>3
<1>3. Number(t, b) = F[n]
  BY <1>1 DEF Number
<1> HIDE DEF add, S
<1>4. G \in [1..n -> [S -> S]] /\ \A i \in 1..n, x \in S : G[i][x] = add(i, x)
  BY <1>2
<1> HIDE DEF G
<1>5. PICK c : /\ Iterated(c, n, S, 0, G)
               /\ \A f : IteratesTo(f, n, S, 0, G) => \A i \in 0..n : f[i] = c[i]
  BY <1>2, <1>4, Recursion
<1>6. c \in [0..n -> S] /\ c[0] = 0 /\ \A i \in 1..n : c[i] = add(i, c[i - 1])
  BY <1>4, <1>5 DEF Iterated
<1>7. Sol(c)
  BY <1>6
<1>8. Sol(F)
  BY <1>7
<1> HIDE DEF F
<1>9. \A i \in 0..n : F[i] = IF i = 0 THEN 0 ELSE add(i, F[i - 1])
  BY <1>8
<1>10. IteratesTo(F, n, S, 0, G)
  BY <1>4, <1>9 DEF IteratesTo
<1>11. F[n] = c[n]
  BY <1>5, <1>10
<1>12. Counted(c, t, b, n)
  BY <1>6 DEF Counted, add, S
<1> QED
  BY <1>1, <1>3, <1>11, <1>12

\* It grows with every digit,
LEMMA CountGrows ==
  ASSUME NEW u, NEW b \in {8, 10, 16}, NEW n \in Nat, NEW c, Counted(c, u, b, n),
         \A i \in 1..n : digit(u[i]) \in 0..15
  PROVE  \A i \in 0..n : c[i] \in Nat /\ c[i] <= c[n]
<1> DEFINE P == {k \in 0..n : c[n - k] <= c[n]}
<1>1. \A i \in 0..n : c[i] \in Nat
  BY DEF Counted
<1>2. 0 \in P
  BY <1>1
<1>3. ASSUME NEW k \in 1..n, k - 1 \in P PROVE k \in P
  <2>1. PICK i \in 1..n : i = n - (k - 1) /\ i - 1 = n - k
    <3>1. n - (k - 1) \in 1..n /\ n - (k - 1) - 1 = n - k
      OBVIOUS
    <3> QED
      BY <3>1
  <2>2. c[i] <= c[n]
    BY <1>3, <2>1
  <2>3. PICK x \in Nat, y \in Nat, z \in Nat, d \in 0..15 : x = c[i - 1] /\ y = c[i] /\ z = c[n] /\ d = digit(u[i])
    <3>1. c[i - 1] \in Nat /\ c[i] \in Nat /\ c[n] \in Nat /\ digit(u[i]) \in 0..15
      BY <1>1
    <3> QED
      BY <3>1
  <2>4. y = x * b + d
    BY <2>3 DEF Counted
  <2>5. x <= y
    <3>1. CASE b = 8
      BY <2>4, <3>1
    <3>2. CASE b = 10
      BY <2>4, <3>2
    <3>3. CASE b = 16
      BY <2>4, <3>3
    <3> QED
      BY <3>1, <3>2, <3>3
  <2>6. x <= z
    BY <2>2, <2>3, <2>5
  <2>7. c[n - k] <= c[n]
    BY <2>1, <2>3, <2>6
  <2> QED
    BY <2>7
<1> HIDE DEF P
<1>4. 0..n \subseteq P
  BY <1>2, <1>3, Induction
<1>5. ASSUME NEW i \in 0..n PROVE c[i] <= c[n]
  <2>1. PICK k \in 0..n : k = n - i /\ n - k = i
    <3>1. n - i \in 0..n /\ n - (n - i) = i
      OBVIOUS
    <3> QED
      BY <3>1
  <2>2. c[n - k] <= c[n]
    BY <1>4 DEF P
  <2> QED
    BY <2>1, <2>2
<1> QED
  BY <1>1, <1>5

\* and strtoul has it, if it fits.
LEMMA ValueCounts ==
  ASSUME NEW u \in Seq(Nat), NEW b \in {8, 10, 16}, NEW n, n = Run(u, b), NEW c,
         Counted(c, u, b, n), c[n] < LongSize
  PROVE  ValueOf(u, b) = c[n]
<1>0. b \in Nat /\ b <= 16
  OBVIOUS
<1>1. n \in Nat /\ n <= Len(u) /\ \A i \in 1..n : digit(u[i]) < b
  BY <1>0, RunIs
<1>2. ASSUME NEW i \in 1..n PROVE digit(u[i]) \in 0..15
  <2>1. u[i] \in Nat /\ digit(u[i]) < b
    BY <1>1
  <2>2. digit(u[i]) \in 0..16
    BY <2>1, DigitIs
  <2> QED
    BY <1>0, <2>1, <2>2
<1>3. \A i \in 0..n : c[i] \in Nat /\ c[i] <= c[n]
  BY <1>1, <1>2, CountGrows
<1>4. PICK g : Gained(g, u, b, n) /\ ValueOf(u, b) = g[n]
  BY ValueIs
<1> DEFINE Same == {i \in 0..n : g[i] = c[i]}
<1>5. 0 \in Same
  BY <1>1, <1>4 DEF Gained, Counted
<1>6. ASSUME NEW i \in 1..n, i - 1 \in Same PROVE i \in Same
  <2>1. i \in 0..n /\ i - 1 \in 0..n /\ g[i - 1] = c[i - 1]
    BY <1>1, <1>6
  <2>2. PICK x \in Nat, y \in Nat, d \in 0..15 : x = c[i - 1] /\ y = c[i] /\ d = digit(u[i]) /\ y < LongSize
    <3>1. c[i - 1] \in Nat /\ c[i] \in Nat /\ c[n] \in Nat /\ c[i] <= c[n] /\ n \in 0..n
      BY <1>1, <1>3, <2>1
    <3>2. c[i] < LongSize
      BY <3>1, LongIs
    <3> QED
      BY <1>2, <3>1, <3>2
  <2>3. y = x * b + d
    BY <2>2 DEF Counted
  <2>4. Gains(b, d, x) = y
    <3>1. Fitting(x, b, d, y)
      BY <2>2, <2>3 DEF Fitting
    <3> QED
      BY <3>1, GainsMore
  <2>5. g[i] = Gains(b, digit(u[i]), g[i - 1])
    BY <1>4 DEF Gained
  <2> QED
    BY <2>1, <2>2, <2>4, <2>5
<1> HIDE DEF Same
<1>7. 0..n \subseteq Same
  BY <1>1, <1>5, <1>6, Induction
<1> QED
  BY <1>1, <1>4, <1>7 DEF Same

\* Digits with something else behind.
Leads(t, u, b) ==
  /\ t \in Seq(Nat) /\ u \in Seq(Nat) /\ AreDigits(t, b)
  /\ Len(t) < Len(u) /\ \A k \in 1..Len(t) : u[k] = t[k]
  /\ digit(u[Len(t) + 1]) = 16

LEMMA NumberTyped == ASSUME NEW t \in Seq(Nat), NEW b \in {8, 10, 16} PROVE Number(t, b) \in Nat
<1>1. PICK n \in Nat : n = Len(t)
  OBVIOUS
<1>2. PICK c : Counted(c, t, b, n) /\ Number(t, b) = c[n]
  <2>1. b \in Nat
    OBVIOUS
  <2> QED
    BY <1>1, <2>1, CountedIs
<1>3. n \in 0..n
  OBVIOUS
<1> QED
  BY <1>2, <1>3 DEF Counted

LEMMA NumberRead ==
  ASSUME NEW t, NEW u, NEW b \in {8, 10, 16}, Leads(t, u, b), Number(t, b) < LongSize
  PROVE  ValueOf(u, b) = Number(t, b)
<1>0. t \in Seq(Nat) /\ u \in Seq(Nat) /\ b \in Nat /\ b <= 16
  BY DEF Leads
<1>1. PICK n \in Nat : n = Len(t) /\ n < Len(u) /\ DOMAIN t = 1..n
  BY <1>0 DEF Leads
<1>2. PICK c : Counted(c, t, b, n) /\ Number(t, b) = c[n]
  BY <1>0, <1>1, CountedIs
<1>3. \A i \in 1..n : u[i] = t[i] /\ digit(t[i]) < b
  BY <1>1 DEF Leads, AreDigits
<1>4. Counted(c, u, b, n)
  BY <1>2, <1>3 DEF Counted
<1>5. Run(u, b) = n
  <2>1. n \in 0..Len(u) /\ digit(u[n + 1]) >= b
    BY <1>0, <1>1 DEF Leads
  <2> QED
    BY <1>0, <1>3, <2>1, RunOnly
<1> QED
  BY <1>0, <1>2, <1>4, <1>5, ValueCounts

\* What is between two brackets, I, as the program reads it: with the closing one, c, and
\* all that follows.
Enclosed(I, T, c) ==
  /\ I \in Seq(Nat) /\ T \in Seq(Nat) /\ Len(I) < Len(T)
  /\ \A k \in 1..Len(I) : T[k] = I[k]
  /\ T[Len(I) + 1] = c

LEMMA EnclosedIs ==
  ASSUME NEW v \in Seq(Nat), NEW z \in 2..Len(v)
  PROVE  Enclosed(Mid(v, 2, z - 1), Tail(v), v[z]) /\ Len(Mid(v, 2, z - 1)) = z - 2
<1>1. PICK I, T, y, m : I = Mid(v, 2, y) /\ T = From(v, 2) /\ y = z - 1 /\ m = z - 2
  OBVIOUS
<1>2. PICK L \in Nat, M \in Nat : L = Len(v) /\ M = Len(v) - 2 + 1 /\ M = L - 1
  <2>1. Len(v) \in Nat /\ Len(v) - 2 + 1 \in Nat /\ Len(v) - 2 + 1 = Len(v) - 1
    OBVIOUS
  <2> QED
    BY <2>1
<1>3. m \in Nat /\ y \in Nat /\ m = y - 2 + 1 /\ y <= L /\ m < M /\ m + 2 = z
  BY <1>1, <1>2
<1>4. Copies(T, v, 2, M, Nat)
  BY <1>1, <1>2, FromIs
<1>5. Copies(I, v, 2, m, Nat)
  <2>1. Bounds(v, 2, y, m)
    BY <1>2, <1>3 DEF Bounds
  <2> QED
    BY <1>1, <2>1, PartIs
<1>6. T = Tail(v)
  <2>1. v # <<>>
    BY <1>2, <1>3
  <2> QED
    BY <1>1, <2>1, TailIs
<1>7. ASSUME NEW k \in 1..m PROVE T[k] = I[k]
  <2>1. k \in 1..M
    BY <1>3
  <2> QED
    BY <1>4, <1>5, <2>1 DEF Copies
<1>8. T[m + 1] = v[z]
  <2>1. PICK k : k = m + 1
    OBVIOUS
  <2>2. k \in 1..M /\ 2 + k - 1 = z
    BY <1>3, <2>1
  <2>3. T[k] = v[2 + k - 1]
    BY <1>4, <2>2 DEF Copies
  <2> QED
    BY <2>1, <2>2, <2>3
<1>9. Enclosed(I, T, v[z]) /\ Len(I) = m
  BY <1>3, <1>4, <1>5, <1>7, <1>8 DEF Enclosed, Copies
<1> QED
  BY <1>1, <1>6, <1>9

LEMMA EnclosedTail ==
  ASSUME NEW I, NEW T, NEW c, Enclosed(I, T, c), I # <<>>
  PROVE  Enclosed(Tail(I), Tail(T), c)
<1>1. I \in Seq(Nat) /\ T \in Seq(Nat)
  BY DEF Enclosed
<1>2. PICK n \in Nat, m \in Nat : n = Len(I) /\ m = Len(T) /\ n < m /\ n # 0
  BY <1>1 DEF Enclosed
<1>3. PICK J, U : J = Tail(I) /\ U = Tail(T)
  OBVIOUS
<1>4. /\ J \in Seq(Nat) /\ Len(J) = n - 1 /\ \A k \in 1..(n - 1) : J[k] = I[k + 1]
      /\ U \in Seq(Nat) /\ Len(U) = m - 1 /\ \A k \in 1..(m - 1) : U[k] = T[k + 1]
  <2>1. T # <<>>
    BY <1>2
  <2> QED
    BY <1>1, <1>2, <1>3, <2>1
<1>5. \A k \in 1..n : T[k] = I[k]
  BY <1>2 DEF Enclosed
<1>6. ASSUME NEW k \in 1..(n - 1) PROVE U[k] = J[k]
  <2>1. k \in 1..(m - 1) /\ k + 1 \in 1..n
    BY <1>2
  <2> QED
    BY <1>4, <1>5, <2>1
<1>7. U[(n - 1) + 1] = c
  <2>1. n \in 1..(m - 1) /\ (n - 1) + 1 = n
    BY <1>2
  <2>2. U[n] = T[n + 1]
    BY <1>4, <2>1
  <2> QED
    BY <1>2, <2>1, <2>2 DEF Enclosed
<1> QED
  BY <1>2, <1>3, <1>4, <1>6, <1>7 DEF Enclosed

Stops(c) == c \in Nat /\ digit(c) = 16 /\ c \notin {char.x, char.X}

LEMMA EnclosedLeads ==
  ASSUME NEW I, NEW T, NEW c, Enclosed(I, T, c), Stops(c), NEW b, AreDigits(I, b)
  PROVE  Leads(I, T, b)
BY DEF Enclosed, Stops, Leads

LEMMA FromThree ==
  ASSUME NEW s \in Seq(Nat), NEW x \in Nat, Len(s) = x + 2
  PROVE  Copies(From(s, 3), s, 3, x, Nat)
<1>1. x = Len(s) - 3 + 1
  OBVIOUS
<1>2. x \in Nat /\ 1 <= 3
  OBVIOUS
<1> QED
  BY <1>1, <1>2, FromIs

LEMMA EnclosedFrom ==
  ASSUME NEW I, NEW T, NEW c, Enclosed(I, T, c), Len(I) > 2
  PROVE  Enclosed(From(I, 3), From(T, 3), c)
<1>1. I \in Seq(Nat) /\ T \in Seq(Nat)
  BY DEF Enclosed
<1>2. PICK n, m : n = Len(I) /\ m = Len(T)
  OBVIOUS
<1> n \in Nat /\ m \in Nat /\ n < m /\ n > 2
  BY <1>1, <1>2 DEF Enclosed
<1>3. PICK J, U, x, y : J = From(I, 3) /\ U = From(T, 3) /\ x = n - 2 /\ y = m - 2
  OBVIOUS
<1> x \in Nat /\ y \in Nat /\ x = n - 3 + 1 /\ y = m - 3 + 1 /\ x < y /\ n = x + 2 /\ m = y + 2
  BY <1>3
<1>4. Copies(J, I, 3, x, Nat) /\ Copies(U, T, 3, y, Nat)
  <2>1. Len(I) = x + 2 /\ Len(T) = y + 2
    BY <1>2
  <2> QED
    BY <1>1, <1>3, <2>1, FromThree
<1>5. \A k \in 1..n : T[k] = I[k]
  BY <1>2 DEF Enclosed
<1>6. ASSUME NEW k \in 1..x PROVE U[k] = J[k]
  <2>1. PICK h : h = 3 + k - 1
    OBVIOUS
  <2>2. k \in 1..y /\ h \in 1..n
    BY <2>1
  <2>3. J[k] = I[h] /\ U[k] = T[h]
    BY <1>4, <2>1, <2>2 DEF Copies
  <2> QED
    BY <1>5, <2>2, <2>3
<1>7. U[x + 1] = c
  <2>1. PICK k, h : k = x + 1 /\ h = 3 + k - 1
    OBVIOUS
  <2>2. k \in 1..y /\ h = n + 1
    BY <2>1
  <2>3. U[k] = T[h]
    BY <1>4, <2>1, <2>2 DEF Copies
  <2> QED
    BY <1>2, <2>1, <2>2, <2>3 DEF Enclosed
<1> QED
  BY <1>3, <1>4, <1>6, <1>7 DEF Enclosed, Copies

LEMMA NumeralRead ==
  ASSUME NEW I, NEW T, NEW c, Enclosed(I, T, c), Stops(c), NEW n, Numeral(I, n), n < LongSize
  PROVE  /\ T # <<>> /\ T[1] \in Nat /\ digit(T[1]) < 16 /\ n \in Nat
         /\ ValueOf(DigitsOf(T, 0), BaseOf(T, 0)) = n
<1>1. I \in Seq(Nat) /\ T \in Seq(Nat)
  BY DEF Enclosed
<1>2. PICK x \in Nat, y \in Nat : x = Len(I) /\ y = Len(T) /\ x < y /\ DOMAIN I = 1..x
  BY <1>1 DEF Enclosed
<1>3. \A k \in 1..x : T[k] = I[k]
  BY <1>2 DEF Enclosed
<1>4. I # <<>> /\ x # 0
  BY <1>1, <1>2 DEF Numeral, AreDigits, Hexed
<1>5. T # <<>> /\ T[1] = I[1] /\ I[1] \in Nat
  BY <1>1, <1>2, <1>3, <1>4
<1>6. CASE AreDigits(I, 10) /\ I[1] # char.zero /\ n = Number(I, 10)
  <2>1. digit(I[1]) < 16
    <3>1. digit(I[1]) < 10 /\ 10 \in 0..16
      BY <1>2, <1>4, <1>6 DEF AreDigits
    <3> QED
      BY <1>5, <3>1, DigitBelow, Zenon
  <2>2. DigitsOf(T, 0) = T /\ BaseOf(T, 0) = 10
    BY <1>5, <1>6 DEF DigitsOf, BaseOf, Hexed
  <2>3. ValueOf(T, 10) = Number(I, 10) /\ Number(I, 10) \in Nat
    <3>1. Leads(I, T, 10)
      BY <1>6, EnclosedLeads
    <3>2. Number(I, 10) < LongSize
      BY <1>6
    <3> QED
      BY <1>1, <3>1, <3>2, NumberRead, NumberTyped
  <2> QED
    BY <1>5, <1>6, <2>1, <2>2, <2>3
<1>7. CASE AreDigits(I, 8) /\ I[1] = char.zero /\ n = Number(I, 8)
  <2>1. digit(I[1]) < 16
    <3>1. digit(I[1]) < 8 /\ 8 \in 0..16
      BY <1>2, <1>4, <1>7 DEF AreDigits
    <3> QED
      BY <1>5, <3>1, DigitBelow, Zenon
  <2>2. ~Hexed(T)
    <3> SUFFICES ASSUME T[2] \in {char.x, char.X} PROVE FALSE
      BY DEF Hexed
    <3>1. digit(T[2]) = 16
      BY DEF char, digit
    <3>2. CASE x = 1
      BY <1>2, <3>2 DEF Enclosed, Stops
    <3>3. CASE x # 1
      <4>1. 2 \in 1..x
        BY <1>2, <1>4, <3>3
      <4>2. digit(T[2]) < 8
        BY <1>2, <1>3, <1>7, <4>1 DEF AreDigits
      <4> QED
        BY <3>1, <4>2
    <3> QED
      BY <3>2, <3>3
  <2>3. DigitsOf(T, 0) = T /\ BaseOf(T, 0) = 8
    BY <1>5, <1>7, <2>2 DEF DigitsOf, BaseOf
  <2>4. ValueOf(T, 8) = Number(I, 8) /\ Number(I, 8) \in Nat
    <3>1. Leads(I, T, 8)
      BY <1>7, EnclosedLeads
    <3>2. Number(I, 8) < LongSize
      BY <1>7
    <3> QED
      BY <1>1, <3>1, <3>2, NumberRead, NumberTyped
  <2> QED
    BY <1>5, <1>7, <2>1, <2>3, <2>4
<1>8. CASE Hexed(I) /\ AreDigits(From(I, 3), 16) /\ n = Number(From(I, 3), 16)
  <2>1. /\ x > 2 /\ T[1] = char.zero /\ T[2] \in {char.x, char.X} /\ digit(T[3]) < 16
    <3>1. x > 2
      BY <1>2, <1>8 DEF Hexed
    <3>2. 1 \in 1..x /\ 2 \in 1..x /\ 3 \in 1..x
      BY <1>2, <3>1
    <3> QED
      BY <1>3, <1>8, <3>1, <3>2 DEF Hexed
  <2>2. Hexed(T) /\ digit(T[1]) < 16
    <3>1. Len(T) > 2
      BY <1>2, <2>1
    <3> QED
      BY <2>1, <3>1 DEF Hexed, char, digit
  <2>3. PICK J, U : J = From(I, 3) /\ U = From(T, 3)
    OBVIOUS
  <2>4. DigitsOf(T, 0) = U /\ BaseOf(T, 0) = 16
    BY <2>2, <2>3 DEF DigitsOf, BaseOf
  <2>5. Enclosed(J, U, c) /\ J \in Seq(Nat)
    <3>1. Enclosed(J, U, c)
      BY <1>2, <2>1, <2>3, EnclosedFrom
    <3> QED
      BY <3>1 DEF Enclosed
  <2>6. ValueOf(U, 16) = Number(J, 16) /\ Number(J, 16) \in Nat
    <3>1. Leads(J, U, 16)
      BY <1>8, <2>3, <2>5, EnclosedLeads
    <3>2. Number(J, 16) < LongSize
      BY <1>8, <2>3
    <3> QED
      BY <2>5, <3>1, <3>2, NumberRead, NumberTyped
  <2> QED
    BY <1>5, <1>8, <2>2, <2>3, <2>4, <2>6
<1> QED
  BY <1>6, <1>7, <1>8 DEF Numeral

LEMMA StrtoulUnsigned ==
  ASSUME NEW T \in Seq(Nat), T # <<>>, digit(T[1]) < 16,
         NEW n \in Nat, n = ValueOf(DigitsOf(T, 0), BaseOf(T, 0)), n < LongSize
  PROVE  strtoul(T, 0).val = n
<1>1. 1 \in 1..Len(T) /\ T[1] \in Nat /\ 1..(1 - 1) = {}
  OBVIOUS
<1>2. Behind(T, Space) = T
  BY <1>1, DigitPlain, BehindAt, FromFirst
<1>3. ~Signed(T) /\ Unsigned(T) = T
  BY <1>1, DigitPlain DEF Signed, Unsigned
<1>4. PICK u, b : u = DigitsOf(T, 0) /\ b = BaseOf(T, 0)
  OBVIOUS
<1>5. strtoul(T, 0).val = Cut(ValueOf(u, b))
  BY <1>2, <1>3, <1>4, StrtoulAs
<1>6. Cut(n) = n
  BY LongIs DEF Cut
<1> QED
  BY <1>4, <1>5, <1>6

LEMMA SmallRest == ASSUME NEW L \in Nat, NEW r \in Nat, r < L PROVE r % L = r
OBVIOUS

LEMMA StrtoulNegated ==
  ASSUME NEW T \in Seq(Nat), T # <<>>, T[1] = char.minus, NEW t, t = Tail(T),
         NEW n \in Nat, n = ValueOf(DigitsOf(t, 0), BaseOf(t, 0)), n < LongSize, n # 0
  PROVE  strtoul(T, 0).val = LongSize - n
<1>1. 1 \in 1..Len(T) /\ T[1] \in Nat /\ 1..(1 - 1) = {}
  OBVIOUS
<1>2. Behind(T, Space) = T
  <2>1. T[1] \notin Space
    BY DEF char, Space
  <2> QED
    BY <1>1, <2>1, BehindAt, FromFirst
<1>3. Signed(T) /\ Unsigned(T) = t
  BY <1>1 DEF Signed, Unsigned
<1>4. PICK u, b : u = DigitsOf(t, 0) /\ b = BaseOf(t, 0)
  OBVIOUS
<1>5. strtoul(T, 0).val = Negated(ValueOf(u, b))
  <2>1. PICK s : s = Behind(T, Space) /\ s = T
    BY <1>2
  <2>2. PICK w : w = Unsigned(s) /\ w = t
    BY <1>3, <2>1
  <2>3. u = DigitsOf(w, 0) /\ b = BaseOf(w, 0)
    BY <1>4, <2>2
  <2>4. strtoul(T, 0).val =
          IF Signed(s) /\ s[1] = char.minus THEN Negated(ValueOf(u, b)) ELSE Cut(ValueOf(u, b))
    <3>1. s = Behind(T, Space) /\ w = Unsigned(s)
      BY <2>1, <2>2
    <3> QED
      BY <2>3, <3>1, StrtoulAs
  <2> QED
    BY <1>3, <2>1, <2>4
<1>6. Negated(n) = LongSize - n
  <2>1. PICK L \in Nat : L = LongSize
    BY LongIs
  <2>2. PICK r \in Nat : r = L - n /\ r < L
    <3>1. L - n \in Nat /\ L - n < L
      BY <2>1
    <3> QED
      BY <3>1
  <2>3. r % L = r
    <3>1. r < L
      BY <2>2
    <3> QED
      BY <3>1, SmallRest
  <2>4. n # LongSize
    BY <2>1
  <2> QED
    BY <2>1, <2>2, <2>3, <2>4 DEF Negated
<1>7. ValueOf(u, b) = n
  BY <1>4
<1> QED
  BY <1>5, <1>6, <1>7

\* <n>, with a sign or not, is the word of that number.
LEMMA CountsRead ==
  ASSUME NEW I, NEW T, NEW c, Enclosed(I, T, c), Stops(c), NEW data \in Seq(Byte), Counts(I, data)
  PROVE  WordOf(strtoul(T, 0).val) = data
<1>1. Len(data) = 4 /\ I \in Seq(Nat) /\ T \in Seq(Nat)
  BY DEF Counts, Enclosed
<1>2. PICK w \in Nat : w = Word(data) /\ w < Words /\ WordOf(w) = data
  <2>1. PICK v : v = Word(data) + Words * 0
    OBVIOUS
  <2>2. v \in Nat /\ WordOf(v) = data /\ Word(data) \in Nat /\ Word(data) < Words
    BY <1>1, <2>1, WordBack
  <2>3. v = Word(data)
    BY <2>1, <2>2, LongIs
  <2> QED
    BY <2>2, <2>3
<1>3. CASE Numeral(I, w)
  <2>1. w < LongSize
    BY <1>2, LongIs
  <2>2. T # <<>> /\ digit(T[1]) < 16 /\ w = ValueOf(DigitsOf(T, 0), BaseOf(T, 0))
    BY <1>3, <2>1, NumeralRead
  <2>3. strtoul(T, 0).val = w
    BY <1>1, <2>1, <2>2, StrtoulUnsigned
  <2> QED
    BY <1>2, <2>3
<1>4. CASE I # <<>> /\ I[1] = char.minus /\ w > 0 /\ Numeral(Tail(I), Words - w)
  <2>1. PICK n \in Nat : n = Words - w /\ n # 0 /\ n < LongSize
    <3>1. Words - w \in Nat /\ Words - w # 0 /\ Words - w < LongSize
      BY <1>2, <1>4, LongIs
    <3> QED
      BY <3>1
  <2>2. PICK J, t : J = Tail(I) /\ t = Tail(T)
    OBVIOUS
  <2>3. Enclosed(J, t, c) /\ Numeral(J, n)
    BY <1>4, <2>1, <2>2, EnclosedTail
  <2>4. n = ValueOf(DigitsOf(t, 0), BaseOf(t, 0))
    BY <2>1, <2>3, NumeralRead
  <2>5. T # <<>> /\ T[1] = char.minus
    <3>1. 1 \in 1..Len(I) /\ Len(I) < Len(T)
      BY <1>1, <1>4 DEF Enclosed
    <3>2. T[1] = I[1]
      BY <3>1 DEF Enclosed
    <3> QED
      BY <1>1, <1>4, <3>1, <3>2
  <2>6. strtoul(T, 0).val = LongSize - n
    BY <1>1, <2>1, <2>2, <2>4, <2>5, StrtoulNegated
  <2>7. PICK q \in Nat, p \in Nat : LongSize = Words * q /\ q = p + 1
    <3>1. PICK q \in Nat : LongSize = Words * q /\ q # 0
      BY LongIs
    <3>2. PICK p \in Nat : q = p + 1
      <4>1. q - 1 \in Nat /\ q = (q - 1) + 1
        BY <3>1
      <4> QED
        BY <4>1
    <3> QED
      BY <3>1, <3>2
  <2>8. LongSize - n = w + Words * p
    <3>1. PICK W \in Nat : W = Words
      BY LongIs
    <3>2. W * (p + 1) = W * p + W
      OBVIOUS
    <3>3. PICK x \in Nat : x = W * p
      OBVIOUS
    <3>4. LongSize = x + W /\ n = W - w
      BY <2>1, <2>7, <3>1, <3>2, <3>3
    <3>5. LongSize - n = w + x
      BY <3>4
    <3> QED
      BY <3>1, <3>3, <3>5
  <2>9. PICK v : v = LongSize - n
    OBVIOUS
  <2>10. v = Word(data) + Words * p
    BY <1>2, <2>8, <2>9
  <2> QED
    BY <1>1, <2>6, <2>9, <2>10, WordBack
<1> QED
  BY <1>2, <1>3, <1>4 DEF Counts

-----------------------------------------------------------------------------
(***************************************************************************)
(* A list of bytes is read as the bytes that are written.                  *)
(***************************************************************************)
More(s, d) == [s EXCEPT ![Len(s)] = @ * 16 + d]
ByteStep(t, i, x) ==
  IF digit(t[i]) = 16 THEN x
  ELSE IF i > 1 /\ digit(t[i - 1]) < 16 THEN More(x, digit(t[i]))
  ELSE Append(x, digit(t[i]))
Byted(h, t, n) ==
  h \in [0..n -> Seq(Nat)] /\ h[0] = <<>> /\ \A i \in 1..n : h[i] = ByteStep(t, i, h[i - 1])

LEMMA MoreTyped ==
  ASSUME NEW s \in Seq(Nat), NEW d \in Nat
  PROVE  More(s, d) \in Seq(Nat) /\ Len(More(s, d)) = Len(s)
<1>1. PICK n \in Nat : n = Len(s) /\ DOMAIN s = 1..n /\ \A k \in 1..n : s[k] \in Nat
  OBVIOUS
<1>2. PICK t : t = More(s, d) /\ t = [k \in 1..n |-> IF k = n THEN s[n] * 16 + d ELSE s[k]]
  BY <1>1 DEF More
<1>3. t \in [1..n -> Nat]
  <2>1. ASSUME NEW k \in 1..n PROVE (IF k = n THEN s[n] * 16 + d ELSE s[k]) \in Nat
    BY <1>1
  <2> QED
    BY <1>2, <2>1
<1>4. t \in Seq(Nat) /\ Len(t) = n
  BY <1>3
<1> QED
  BY <1>1, <1>2, <1>4

LEMMA MoreAppend ==
  ASSUME NEW s \in Seq(Nat), NEW x \in Nat, NEW d \in Nat
  PROVE  More(Append(s, x), d) = Append(s, x * 16 + d)
<1>0. PICK y \in Nat : y = x * 16 + d
  OBVIOUS
<1>1. PICK t : t = Append(s, x)
  OBVIOUS
<1>2. PICK n \in Nat : n = Len(s) + 1 /\ n = Len(t) /\ DOMAIN t = 1..n
  BY <1>1
<1>3. t \in Seq(Nat) /\ t[n] = x /\ \A k \in 1..(n - 1) : t[k] = s[k]
  BY <1>1, <1>2
<1>4. PICK u, w : u = More(t, d) /\ w = Append(s, y)
  OBVIOUS
<1>5. u = [k \in 1..n |-> IF k = n THEN t[n] * 16 + d ELSE t[k]]
  BY <1>2, <1>4 DEF More
<1>6. u \in Seq(Nat) /\ Len(u) = n
  BY <1>2, <1>3, <1>4, MoreTyped
<1>7. w \in Seq(Nat) /\ Len(w) = n /\ w[n] = y /\ \A k \in 1..(n - 1) : w[k] = s[k]
  BY <1>2, <1>4
<1>8. ASSUME NEW k \in 1..n PROVE u[k] = w[k]
  <2>1. CASE k = n
    BY <1>0, <1>3, <1>5, <1>7, <2>1
  <2>2. CASE k # n
    <3>1. k \in 1..(n - 1)
      BY <2>2
    <3> QED
      BY <1>3, <1>5, <1>7, <2>2, <3>1
  <2> QED
    BY <2>1, <2>2
<1>9. u = w
  BY <1>6, <1>7, <1>8, SameSeq
<1> QED
  BY <1>0, <1>1, <1>4, <1>9

LEMMA BytesAre ==
  ASSUME NEW t \in Seq(Nat)
  PROVE  \E h : Byted(h, t, Len(t)) /\ Bytes(t) = h[Len(t)]
<1>1. PICK n \in Nat : n = Len(t)
  OBVIOUS
<1> DEFINE S == Seq(Nat)
           G == [i \in 1..n |-> [x \in S |-> ByteStep(t, i, x)]]
           Sol(f) == f = [i \in 0..n |-> IF i = 0 THEN <<>> ELSE ByteStep(t, i, f[i - 1])]
           F == CHOOSE f : Sol(f)
<1>2. <<>> \in S /\ \A i \in 1..n, x \in S : ByteStep(t, i, x) \in S
  <2> SUFFICES ASSUME NEW i \in 1..n, NEW x \in S PROVE ByteStep(t, i, x) \in S
    OBVIOUS
  <2>1. t[i] \in Nat
    BY <1>1
  <2>2. PICK d \in Nat : d = digit(t[i])
    <3>1. digit(t[i]) \in 0..16
      BY <2>1, DigitIs
    <3> QED
      BY <3>1
  <2>3. More(x, d) \in S /\ Append(x, d) \in S
    BY MoreTyped
  <2> QED
    BY <2>2, <2>3 DEF ByteStep
<1>3. Bytes(t) = F[n]
  BY <1>1 DEF Bytes, ByteStep, More
<1>0. PICK none : none = <<>>
  OBVIOUS
<1> HIDE DEF S
<1>4. G \in [1..n -> [S -> S]] /\ \A i \in 1..n, x \in S : G[i][x] = ByteStep(t, i, x)
  BY <1>2
<1> HIDE DEF G
<1>5. PICK h : /\ Iterated(h, n, S, none, G)
               /\ \A f : IteratesTo(f, n, S, none, G) => \A i \in 0..n : f[i] = h[i]
  BY <1>0, <1>2, <1>4, Recursion
<1>6. h \in [0..n -> S] /\ h[0] = none /\ \A i \in 1..n : h[i] = ByteStep(t, i, h[i - 1])
  BY <1>4, <1>5 DEF Iterated
<1>7. Sol(h)
  BY <1>0, <1>6
<1>8. Sol(F)
  BY <1>7
<1> HIDE DEF F
<1>9. \A i \in 0..n : F[i] = IF i = 0 THEN none ELSE ByteStep(t, i, F[i - 1])
  BY <1>0, <1>8
<1>10. IteratesTo(F, n, S, none, G)
  BY <1>4, <1>9 DEF IteratesTo
<1>11. F[n] = h[n]
  BY <1>5, <1>10
<1>12. Byted(h, t, n)
  BY <1>0, <1>6 DEF Byted, S
<1> QED
  BY <1>1, <1>3, <1>11, <1>12

\* A text that holds a list, to its character M: bytes and what may be between them, and
\* something else behind.
Between == {char.space, char.comma}
HoldsList(T, M) ==
  /\ T \in Seq(Nat) /\ M \in Nat /\ M < Len(T)
  /\ \A k \in 1..M : digit(T[k]) < 16 \/ T[k] \in Between
  /\ Stops(T[M + 1]) /\ T[M + 1] \notin Between

LEMMA BetweenIs == \A c \in Between : digit(c) = 16
BY DEF Between, char, digit

LEMMA LetterX == ASSUME NEW c \in {char.x, char.X} PROVE digit(c) = 16 /\ c \notin Between
<1>1. c = 120 \/ c = 88
  BY DEF char
<1>2. digit(c) = 16
  BY <1>1 DEF digit
<1>3. c \notin Between
  BY <1>1 DEF Between, char
<1> QED
  BY <1>2, <1>3

\* Where the next number begins, behind the first p characters.
NextAt(T, M, p, q) ==
  /\ q \in Nat /\ p < q /\ q <= M + 1 /\ T[q] \notin Between
  /\ \A k \in Nat : p < k /\ k < q => T[k] \in Between
  /\ Ahead(T, Len(T) - p) = From(T, q)

LEMMA NextIs ==
  ASSUME NEW T, NEW M, HoldsList(T, M), NEW p \in 0..M
  PROVE  \E q : NextAt(T, M, p, q)
<1>1. T \in Seq(Nat) /\ M \in Nat /\ M < Len(T) /\ p \in Nat /\ p <= M
  BY DEF HoldsList
<1>2. PICK L \in Nat, i \in Nat, n \in Nat : L = Len(T) /\ i = p + 1 /\ n = L - i + 1 /\ i = L - (L - p) + 1 /\ i <= L
  <2>1. Len(T) \in Nat /\ p + 1 \in Nat /\ Len(T) - (p + 1) + 1 \in Nat
        /\ p + 1 = Len(T) - (Len(T) - p) + 1 /\ p + 1 <= Len(T)
    BY <1>1
  <2> QED
    BY <2>1
<1>3. PICK s : s = From(T, i)
  OBVIOUS
<1>4. Copies(s, T, i, n, Nat)
  BY <1>1, <1>2, <1>3, FromIs
<1>5. Ahead(T, L - p) = Behind(s, Between)
  BY <1>2, <1>3 DEF Ahead, Between
<1>6. PICK h \in Nat : h = M - p + 1 /\ h \in 1..n /\ i + h - 1 = M + 1
  <2>1. M - p + 1 \in Nat /\ M - p + 1 \in 1..n /\ i + (M - p + 1) - 1 = M + 1
    BY <1>1, <1>2
  <2> QED
    BY <2>1
<1>7. s[h] \notin Between
  BY <1>4, <1>6 DEF Copies, HoldsList
<1>8. PICK j \in 1..n : s[j] \notin Between /\ (\A k \in 1..(j - 1) : s[k] \in Between)
                        /\ Behind(s, Between) = From(s, j)
  <2>1. s \in Seq(Nat) /\ Len(s) = n /\ DOMAIN s = 1..n
    BY <1>4 DEF Copies
  <2>2. ~(\A k \in DOMAIN s : s[k] \in Between)
    BY <1>6, <1>7, <2>1
  <2> QED
    BY <2>1, <2>2, BehindIs
<1>9. j <= h
  <2> SUFFICES ASSUME j > h PROVE FALSE
    BY <1>6
  <2>1. h \in 1..(j - 1)
    BY <1>6
  <2> QED
    BY <1>7, <1>8, <2>1
<1>10. PICK q \in Nat : q = p + j /\ q = i + j - 1
  <2>1. p + j \in Nat /\ p + j = i + j - 1
    BY <1>1, <1>2
  <2> QED
    BY <2>1
<1>11. p < q /\ q <= M + 1 /\ q <= L
  BY <1>1, <1>2, <1>6, <1>9, <1>10
<1>12. T[q] \notin Between
  <2>1. s[j] = T[i + j - 1]
    BY <1>4 DEF Copies
  <2> QED
    BY <1>8, <1>10, <2>1
<1>13. ASSUME NEW k \in Nat, p < k, k < q PROVE T[k] \in Between
  <2>1. PICK m \in 1..(j - 1) : m = k - p /\ i + m - 1 = k
    <3>1. k - p \in 1..(j - 1) /\ i + (k - p) - 1 = k
      BY <1>1, <1>2, <1>10, <1>13
    <3> QED
      BY <3>1
  <2>2. m \in 1..n
    BY <1>8, <2>1
  <2>3. s[m] = T[i + m - 1]
    BY <1>4, <2>2 DEF Copies
  <2> QED
    BY <1>8, <2>1, <2>3
<1>14. From(s, j) = From(T, q)
  <2>1. Mid(s, j, n) = Mid(T, q, L)
    <3>1. IsPart(Nat, T, i, L, j, n, q, L)
      BY <1>1, <1>2, <1>10 DEF IsPart
    <3>2. s = Mid(T, i, L)
      BY <1>2, <1>3 DEF From, Mid
    <3> QED
      BY <3>1, <3>2, PartOfPart
  <2>2. Len(s) = n
    BY <1>4 DEF Copies
  <2> QED
    BY <1>2, <2>1, <2>2 DEF From, Mid
<1>15. Ahead(T, L - p) = From(T, q)
  BY <1>5, <1>8, <1>14
<1> QED
  BY <1>2, <1>11, <1>12, <1>13, <1>15 DEF NextAt

\* What is between numbers adds nothing.
LEMMA SameThrough ==
  ASSUME NEW T, NEW M \in Nat, NEW h, Byted(h, T, M), NEW p \in Nat, NEW e \in Nat, p <= e, e <= M,
         \A k \in Nat : p < k /\ k <= e => digit(T[k]) = 16
  PROVE  h[e] = h[p]
<1> DEFINE P == {k \in 0..(e - p) : h[p + k] = h[p]}
<1>1. PICK n \in Nat : n = e - p /\ p + n = e
  <2>1. e - p \in Nat /\ p + (e - p) = e
    OBVIOUS
  <2> QED
    BY <2>1
<1>2. 0 \in P
  BY <1>1
<1>3. ASSUME NEW k \in 1..n, k - 1 \in P PROVE k \in P
  <2>1. PICK m \in Nat : m = p + k /\ m - 1 = p + (k - 1)
    <3>1. p + k \in Nat /\ p + k - 1 = p + (k - 1)
      OBVIOUS
    <3> QED
      BY <3>1
  <2>2. m \in 1..M /\ p < m /\ m <= e
    BY <1>1, <2>1
  <2>3. h[m] = h[m - 1]
    BY <2>2 DEF Byted, ByteStep
  <2>4. h[p + k] = h[p]
    BY <1>3, <2>1, <2>3
  <2> QED
    BY <1>1, <2>4
<1> HIDE DEF P
<1>4. 0..n \subseteq P
  BY <1>2, <1>3, Induction
<1>5. n \in P
  BY <1>4
<1>6. h[p + n] = h[p]
  BY <1>5 DEF P
<1> QED
  BY <1>1, <1>6

\* The digits from q to e are the number x, and the list has it next.
NumberAt(T, M, h, q, e, x) ==
  /\ e \in Nat /\ x \in Nat /\ q <= e /\ e <= M /\ (e = M \/ digit(T[e + 1]) = 16)
  /\ h[e] = Append(h[q - 1], x)
  /\ x < LongSize => strtoul(From(T, q), 16).val = x
  /\ Len(strtoul(From(T, q), 16).rest) = Len(T) - e

\* The digits of s, how many they are.
DigitRun(T, M, q, s, n, r) ==
  /\ Copies(s, T, q, n, Nat) /\ DigitsOf(s, 16) = s /\ r = Run(s, 16)
  /\ r \in Nat /\ 1 <= r /\ r < n /\ q + r - 1 <= M
  /\ \A k \in 1..r : digit(s[k]) < 16
  /\ digit(s[r + 1]) = 16

LEMMA DigitRunIs ==
  ASSUME NEW T, NEW M, HoldsList(T, M), NEW q \in 1..M, digit(T[q]) < 16,
         NEW n \in Nat, n = Len(T) - q + 1, NEW s, s = From(T, q)
  PROVE  \E r : DigitRun(T, M, q, s, n, r)
<1>1. T \in Seq(Nat) /\ M \in Nat /\ M < Len(T) /\ q \in Nat /\ 1 <= q /\ q <= M
  BY DEF HoldsList
<1>2. PICK L \in Nat : L = Len(T) /\ M < L /\ n = L - q + 1
  BY <1>1
<1>3. Copies(s, T, q, n, Nat)
  BY <1>1, FromIs
<1>4. s \in Seq(Nat) /\ Len(s) = n /\ DOMAIN s = 1..n
  BY <1>3 DEF Copies
<1>5. PICK m \in Nat : m = M - q + 2 /\ m \in 2..n /\ q + m - 1 = M + 1
  <2>1. M - q + 2 \in Nat /\ M - q + 2 \in 2..n /\ q + (M - q + 2) - 1 = M + 1
    BY <1>1, <1>2
  <2> QED
    BY <2>1
<1>6. s[m] = T[M + 1] /\ digit(s[m]) = 16
  <2>1. m \in 1..n
    BY <1>5
  <2>2. s[m] = T[q + m - 1]
    BY <1>3, <2>1 DEF Copies
  <2> QED
    BY <1>5, <2>2 DEF HoldsList, Stops
<1>7. s[1] = T[q] /\ 1 \in 1..n
  <2>1. 1 \in 1..n /\ q + 1 - 1 = q
    BY <1>1, <1>5
  <2> QED
    BY <1>3, <2>1 DEF Copies
<1>8. s[2] \notin {char.x, char.X}
  <2>1. CASE m = 2
    BY <1>6, <2>1 DEF HoldsList, Stops
  <2>2. CASE m # 2
    <3>1. 2 \in 1..n /\ q + 2 - 1 = q + 1 /\ q + 1 \in 1..M
      BY <1>1, <1>5, <2>2
    <3>2. s[2] = T[q + 1]
      BY <1>3, <3>1 DEF Copies
    <3>3. digit(T[q + 1]) < 16 \/ T[q + 1] \in Between
      BY <3>1 DEF HoldsList
    <3> SUFFICES ASSUME s[2] \in {char.x, char.X} PROVE FALSE
      OBVIOUS
    <3> QED
      BY <3>2, <3>3, LetterX
  <2> QED
    BY <2>1, <2>2
<1>9. DigitsOf(s, 16) = s
  BY <1>8 DEF DigitsOf, Hexed
<1>10. PICK r \in 0..n : r = Run(s, 16) /\ (\A k \in 1..r : digit(s[k]) < 16)
                         /\ (r < n => digit(s[r + 1]) >= 16)
  BY <1>4, RunIs
<1>11. r < m
  <2> SUFFICES ASSUME m <= r PROVE FALSE
    BY <1>5
  <2>1. m \in 1..r
    BY <1>5
  <2>2. digit(s[m]) < 16
    BY <1>10, <2>1
  <2> QED
    BY <1>6, <2>2
<1>12. \A k \in 1..n : digit(s[k]) \in 0..16
  BY <1>4, ElementIs, DigitIs
<1>13. r # 0
  <2> SUFFICES ASSUME r = 0 PROVE FALSE
    OBVIOUS
  <2>1. 0 < n /\ 0 + 1 = 1
    BY <1>5
  <2>2. PICK d \in 0..16 : d = digit(s[1])
    <3>1. 1 \in 1..n
      BY <1>5
    <3> QED
      BY <1>12, <3>1, Zenon
  <2>3. d >= 16
    BY <1>10, <2>1, <2>2
  <2>4. d < 16
    BY <1>7, <2>2
  <2> QED
    BY <2>3, <2>4
<1>14. 1 <= r /\ r < n /\ q + r - 1 <= M
  BY <1>1, <1>5, <1>11, <1>13
<1>15. digit(s[r + 1]) = 16
  <2>1. r + 1 \in 1..n
    BY <1>14
  <2>2. digit(s[r + 1]) >= 16
    BY <1>10, <1>14
  <2>3. digit(s[r + 1]) \in 0..16
    BY <1>12, <2>1
  <2> QED
    BY <2>2, <2>3
<1> QED
  BY <1>3, <1>9, <1>10, <1>14, <1>15 DEF DigitRun

\* The digits make one number after another in the last place of the list.
LEMMA NumberGrows ==
  ASSUME NEW T, NEW M, HoldsList(T, M), NEW h, Byted(h, T, M), NEW q \in 1..M,
         q = 1 \/ digit(T[q - 1]) = 16,
         NEW s, NEW n, NEW r, DigitRun(T, M, q, s, n, r), NEW c, Counted(c, s, 16, r)
  PROVE  h[q + r - 1] = Append(h[q - 1], c[r])
<1> DEFINE P == {k \in 0..r : k = 0 \/ h[q + k - 1] = Append(h[q - 1], c[k])}
<1>1. r \in Nat /\ 1 <= r /\ r < n /\ q + r - 1 <= M /\ q \in Nat /\ M \in Nat
  BY DEF DigitRun, HoldsList
<1>2. h[q - 1] \in Seq(Nat)
  <2>1. q - 1 \in 0..M
    BY <1>1
  <2> QED
    BY <2>1 DEF Byted
<1>3. ASSUME NEW k \in 1..r
      PROVE  /\ q + k - 1 \in 1..M /\ T[q + k - 1] = s[k] /\ digit(s[k]) < 16 /\ digit(s[k]) \in Nat
             /\ c[k - 1] \in Nat /\ c[k] = c[k - 1] * 16 + digit(s[k])
  <2>1. q + k - 1 \in 1..M /\ k - 1 \in 0..r
    BY <1>1
  <2>2. T[q + k - 1] = s[k] /\ digit(s[k]) < 16
    <3>1. k \in 1..n
      <4>1. n \in Nat
        BY DEF DigitRun, Copies
      <4> QED
        BY <1>1, <4>1
    <3> QED
      BY <3>1 DEF DigitRun, Copies
  <2>3. digit(s[k]) \in Nat
    <3>1. s[k] \in Nat
      <4>1. T[q + k - 1] \in Nat
        <5>1. T \in Seq(Nat) /\ Len(T) \in Nat /\ M < Len(T)
          BY DEF HoldsList
        <5>2. PICK m \in 1..Len(T) : m = q + k - 1
          BY <1>1, <2>1, <5>1
        <5> QED
          BY <5>1, <5>2, ElementIs
      <4> QED
        BY <2>2, <4>1
    <3>2. digit(s[k]) \in 0..16
      BY <3>1, DigitIs
    <3> QED
      BY <3>2
  <2> QED
    BY <2>1, <2>2, <2>3 DEF Counted
<1>4. 0 \in P
  BY <1>1
<1>5. ASSUME NEW k \in 1..r, k - 1 \in P PROVE k \in P
  <2>1. PICK i \in 1..M : i = q + k - 1
    BY <1>3
  <2>2. h[i] = ByteStep(T, i, h[i - 1]) /\ T[i] = s[k] /\ digit(T[i]) < 16
    BY <1>3, <2>1 DEF Byted
  <2>3. PICK d \in Nat, x \in Nat : d = digit(T[i]) /\ x = c[k - 1] /\ c[k] = x * 16 + d
    <3>1. digit(s[k]) \in Nat /\ c[k - 1] \in Nat /\ c[k] = c[k - 1] * 16 + digit(s[k])
      BY <1>3
    <3> QED
      BY <2>2, <3>1
  <2>4. CASE k = 1
    <3>1. i = q /\ x = 0
      BY <2>1, <2>3, <2>4 DEF Counted
    <3>2. ~(i > 1 /\ digit(T[i - 1]) < 16)
      BY <1>1, <3>1
    <3>3. h[i] = Append(h[q - 1], d)
      BY <2>2, <2>3, <3>1, <3>2 DEF ByteStep
    <3>4. c[k] = d
      BY <2>3, <3>1
    <3> QED
      BY <2>1, <3>3, <3>4
  <2>5. CASE k # 1
    <3>1. PICK j \in 1..r : j = k - 1 /\ q + j - 1 = i - 1
      <4>1. k - 1 \in 1..r /\ q + (k - 1) - 1 = i - 1
        BY <1>1, <2>1, <2>5
      <4> QED
        BY <4>1
    <3>2. h[i - 1] = Append(h[q - 1], x)
      <4>1. j \in P /\ j # 0
        BY <1>5, <3>1
      <4>2. h[q + j - 1] = Append(h[q - 1], c[j])
        BY <4>1
      <4> QED
        BY <2>3, <3>1, <4>2
    <3>3. i > 1 /\ digit(T[i - 1]) < 16
      <4>1. T[q + j - 1] = s[j] /\ digit(s[j]) < 16
        BY <1>3
      <4> QED
        BY <1>1, <2>1, <2>5, <3>1, <4>1
    <3>4. h[i] = More(h[i - 1], d)
      BY <2>2, <2>3, <3>3 DEF ByteStep
    <3>5. h[i] = Append(h[q - 1], x * 16 + d)
      BY <1>2, <2>3, <3>2, <3>4, MoreAppend
    <3> QED
      BY <2>1, <2>3, <3>5
  <2> QED
    BY <2>4, <2>5
<1> HIDE DEF P
<1>6. 0..r \subseteq P
  BY <1>1, <1>4, <1>5, Induction
<1>7. r \in P /\ r # 0
  BY <1>1, <1>6
<1> QED
  BY <1>7 DEF P

LEMMA NumberThrough ==
  ASSUME NEW T, NEW M, HoldsList(T, M), NEW h, Byted(h, T, M), NEW q \in 1..M,
         digit(T[q]) < 16, q = 1 \/ digit(T[q - 1]) = 16
  PROVE  \E e, x : NumberAt(T, M, h, q, e, x)
<1>1. T \in Seq(Nat) /\ M \in Nat /\ M < Len(T) /\ q \in Nat /\ 1 <= q /\ q <= M
  BY DEF HoldsList
<1>2. PICK L \in Nat : L = Len(T) /\ M < L
  BY <1>1
<1>3. PICK n \in Nat : n = L - q + 1
  <2>1. L - q + 1 \in Nat
    BY <1>1, <1>2
  <2> QED
    BY <2>1
<1>4. PICK s : s = From(T, q)
  OBVIOUS
<1>5. PICK r : DigitRun(T, M, q, s, n, r)
  BY <1>2, <1>3, <1>4, DigitRunIs
<1>6. /\ s \in Seq(Nat) /\ Len(s) = n /\ DigitsOf(s, 16) = s /\ r = Run(s, 16)
      /\ r \in Nat /\ 1 <= r /\ r < n /\ q + r - 1 <= M
  BY <1>5 DEF DigitRun, Copies
<1>7. q \in Nat /\ 1 <= q /\ M < L /\ n = L - q + 1 /\ r \in Nat /\ 1 <= r /\ r < n /\ q + r - 1 <= M
  BY <1>1, <1>2, <1>3, <1>6
<1>8. PICK e, m, y : e = q + r - 1 /\ m = n - r /\ y = r + 1
  OBVIOUS
<1> e \in Nat /\ m \in Nat /\ y \in Nat
  BY <1>7, <1>8
<1>9. q <= e /\ e <= M /\ m = L - e /\ m = n - y + 1 /\ 1 <= y /\ y <= n /\ q + y - 1 = e + 1
  BY <1>7, <1>8
<1>10. digit(T[e + 1]) = 16
  <2>1. y \in 1..n /\ q + y - 1 = e + 1
    BY <1>9
  <2>2. s[y] = T[q + y - 1]
    BY <1>5, <2>1 DEF DigitRun, Copies
  <2> QED
    BY <1>5, <1>8, <2>1, <2>2 DEF DigitRun
<1>11. PICK a : Counted(a, s, 16, n)
  BY <1>6, CountedIs
<1>12. PICK c : c = [i \in 0..r |-> a[i]]
  OBVIOUS
<1>13. Counted(c, s, 16, r)
  <2>1. \A i \in 0..r : i \in 0..n /\ c[i] = a[i]
    BY <1>6, <1>12
  <2>2. \A i \in 1..r : i \in 1..n /\ c[i] = a[i] /\ c[i - 1] = a[i - 1]
    BY <1>6, <1>12
  <2>3. c \in [0..r -> Nat]
    BY <1>11, <1>12, <2>1 DEF Counted
  <2>4. c[0] = 0
    <3>1. 0 \in 0..r
      BY <1>6
    <3> QED
      BY <1>11, <2>1, <3>1 DEF Counted
  <2>5. \A i \in 1..r : c[i] = c[i - 1] * 16 + digit(s[i])
    BY <1>11, <2>2 DEF Counted
  <2> QED
    BY <2>3, <2>4, <2>5 DEF Counted
<1>14. PICK x \in Nat : x = c[r]
  BY <1>6, <1>13 DEF Counted
<1>15. h[e] = Append(h[q - 1], x)
  BY <1>5, <1>8, <1>13, <1>14, NumberGrows
<1>16. s # <<>> /\ digit(s[1]) < 16
  BY <1>5, <1>6 DEF DigitRun
<1>17. strtoul(s, 16).val = Cut(ValueOf(s, 16)) /\ strtoul(s, 16).rest = From(s, y)
  BY <1>6, <1>8, <1>16, StrtoulHex
<1>18. ASSUME x < LongSize PROVE strtoul(s, 16).val = x
  <2>1. ValueOf(s, 16) = x
    BY <1>6, <1>13, <1>14, <1>18, ValueCounts
  <2>2. Cut(x) = x
    BY <1>18, LongIs DEF Cut
  <2> QED
    BY <1>17, <2>1, <2>2
<1>19. Len(strtoul(s, 16).rest) = m
  <2>1. 1 <= y /\ m = Len(s) - y + 1
    BY <1>6, <1>9
  <2>2. Copies(From(s, y), s, y, m, Nat)
    BY <1>6, <2>1, FromIs
  <2> QED
    BY <1>17, <2>2 DEF Copies
<1>20. Len(strtoul(s, 16).rest) = Len(T) - e
  BY <1>2, <1>19, <1>9
<1>21. e \in Nat /\ x \in Nat /\ q <= e /\ e <= M
  BY <1>9
<1> QED
  BY <1>4, <1>10, <1>15, <1>18, <1>20, <1>21 DEF NumberAt

After(z, s, x, t, E) == s \in Seq(E) /\ x \in E /\ t \in Seq(E) /\ z = Append(s, x) \o t
Continues(z, s, x, t) == z = s \o (<<x>> \o t)

LEMMA AppendJoin ==
  ASSUME NEW E, NEW s, NEW x, NEW t, NEW z, After(z, s, x, t, E)
  PROVE  Continues(z, s, x, t) /\ \E i \in 1..Len(z) : z[i] = x
<1>0. s \in Seq(E) /\ x \in E /\ t \in Seq(E) /\ z = Append(s, x) \o t
  BY DEF After
<1>1. PICK a, b : a = Append(s, x) \o t /\ b = s \o (<<x>> \o t)
  OBVIOUS
<1>2. PICK n \in Nat, m \in Nat : n = Len(s) /\ m = Len(t)
  BY <1>0
<1>3. a \in Seq(E) /\ Len(a) = n + 1 + m /\ a[n + 1] = x
  BY <1>0, <1>1, <1>2
<1>4. b \in Seq(E) /\ Len(b) = n + 1 + m
  BY <1>0, <1>1, <1>2
<1>5. ASSUME NEW k \in 1..(n + 1 + m) PROVE a[k] = b[k]
  <2>1. CASE k <= n
    BY <1>0, <1>1, <1>2, <2>1
  <2>2. CASE k = n + 1
    BY <1>0, <1>1, <1>2, <2>2
  <2>3. CASE k > n + 1
    BY <1>0, <1>1, <1>2, <2>3
  <2> QED
    BY <2>1, <2>2, <2>3
<1>6. a = b
  BY <1>3, <1>4, <1>5, SameSeq
<1>7. n + 1 \in 1..Len(a)
  BY <1>3
<1> QED
  BY <1>0, <1>1, <1>3, <1>6, <1>7 DEF Continues

\* Where no number is under way, the list so far is what the rest of the text makes of it.
Boundary(T, M, p) == p = 0 \/ p = M \/ digit(T[p]) = 16 \/ digit(T[p + 1]) = 16
ReadFrom(T, M, h, g, p) == Boundary(T, M, p) => h[M] = h[p] \o g[Len(T) - p]

LEMMA FirstAhead ==
  ASSUME NEW T \in Seq(Nat), NEW q \in 1..Len(T)
  PROVE  From(T, q) # <<>> /\ From(T, q)[1] = T[q]
<1>1. PICK L \in Nat : L = Len(T) /\ q \in 1..L
  OBVIOUS
<1>2. PICK n \in Nat : n = L - q + 1 /\ n # 0
  <2>1. L - q + 1 \in Nat /\ L - q + 1 # 0
    BY <1>1
  <2> QED
    BY <2>1
<1>3. PICK s : s = From(T, q)
  OBVIOUS
<1>4. Copies(s, T, q, n, Nat)
  <2>1. q \in Nat /\ 1 <= q /\ n = Len(T) - q + 1
    BY <1>1, <1>2
  <2> QED
    BY <1>3, <2>1, FromIs
<1>5. 1 \in 1..n /\ q + 1 - 1 = q
  BY <1>2
<1> QED
  BY <1>2, <1>3, <1>4, <1>5 DEF Copies

LEMMA ListStep ==
  ASSUME NEW T, NEW M, HoldsList(T, M), NEW h, Byted(h, T, M), h[M] \in Seq(Byte),
         NEW g, ListedBy(g, T), NEW p \in 0..M,
         \A e \in (p + 1)..M : ReadFrom(T, M, h, g, e)
  PROVE  ReadFrom(T, M, h, g, p)
<1> SUFFICES ASSUME Boundary(T, M, p) PROVE h[M] = h[p] \o g[Len(T) - p]
  BY DEF ReadFrom
<1>1. T \in Seq(Nat) /\ M \in Nat /\ M < Len(T) /\ p \in Nat /\ p <= M
  BY DEF HoldsList
<1>2. PICK L \in Nat : L = Len(T) /\ M < L
  BY <1>1
<1>3. PICK q : NextAt(T, M, p, q)
  BY NextIs
<1>4. q \in Nat /\ p < q /\ q <= M + 1 /\ T[q] \notin Between /\ Ahead(T, L - p) = From(T, q)
  BY <1>2, <1>3 DEF NextAt
<1>5. PICK N \in 0..L : N = L - p
  <2>1. L - p \in 0..L
    BY <1>1, <1>2
  <2> QED
    BY <2>1
<1>6. /\ Ends(T, N) => g[N] = <<>>
      /\ ~Ends(T, N) => g[N] = <<NextByte(T, N)>> \o g[LeftOf(T, N)]
  BY <1>2 DEF ListedBy
<1>7. Ends(T, N) <=> digit(T[q]) = 16
  <2>1. q \in 1..Len(T)
    BY <1>1, <1>2, <1>4
  <2>2. From(T, q) # <<>> /\ From(T, q)[1] = T[q]
    BY <1>1, <2>1, FirstAhead
  <2> QED
    BY <1>4, <1>5, <2>2 DEF Ends
<1>8. \A i \in 0..M : h[i] \in Seq(Nat)
  BY DEF Byted
<1>9. CASE q = M + 1
  <2>1. Ends(T, N)
    BY <1>7, <1>9 DEF HoldsList, Stops
  <2>2. \A k \in Nat : p < k /\ k <= M => digit(T[k]) = 16
    <3>1. \A k \in Nat : p < k /\ k <= M => T[k] \in Between
      BY <1>1, <1>3, <1>9 DEF NextAt
    <3> QED
      BY <3>1, BetweenIs
  <2>3. h[M] = h[p]
    BY <1>1, <2>2, SameThrough
  <2>4. h[M] = h[p] \o g[N]
    <3>1. h[M] \in Seq(Nat) /\ g[N] = <<>>
      BY <1>1, <1>6, <1>8, <2>1
    <3> QED
      BY <2>3, <3>1
  <2> QED
    BY <1>2, <1>5, <2>4
<1>10. CASE q <= M
  <2>1. q \in 1..M
    BY <1>1, <1>4, <1>10
  <2>2. digit(T[q]) < 16
    BY <1>4, <2>1 DEF HoldsList
  <2>3. PICK o \in 0..M : o = q - 1 /\ p <= o
    <3>1. q - 1 \in 0..M /\ p <= q - 1
      BY <1>1, <1>4, <1>10
    <3> QED
      BY <3>1
  <2>4. \A k \in Nat : p < k /\ k <= o => digit(T[k]) = 16
    <3>1. \A k \in Nat : p < k /\ k <= o => T[k] \in Between
      BY <1>1, <1>3, <1>4, <2>3 DEF NextAt
    <3> QED
      BY <3>1, BetweenIs
  <2>5. h[o] = h[p]
    BY <1>1, <2>3, <2>4, SameThrough
  <2>6. q = 1 \/ digit(T[q - 1]) = 16
    <3>1. CASE p < o
      BY <2>3, <2>4, <3>1
    <3>2. CASE p = o
      <4>1. q = p + 1 /\ p # M /\ q - 1 = p
        BY <1>1, <1>4, <1>10, <2>3, <3>2
      <4>2. digit(T[q]) # 16
        BY <2>2
      <4> QED
        BY <4>1, <4>2 DEF Boundary
    <3> QED
      BY <2>3, <3>1, <3>2
  <2>7. PICK e, x : NumberAt(T, M, h, q, e, x)
    BY <2>1, <2>2, <2>6, NumberThrough
  <2>8. e \in Nat /\ x \in Nat /\ q <= e /\ e <= M /\ (e = M \/ digit(T[e + 1]) = 16)
        /\ h[e] = Append(h[p], x)
    BY <2>3, <2>5, <2>7 DEF NumberAt
  <2>9. ~Ends(T, N) /\ LeftOf(T, N) = L - e
    <3>1. ~Ends(T, N)
      BY <1>7, <2>2
    <3> QED
      BY <1>2, <1>4, <1>5, <2>7, <3>1 DEF NumberAt, LeftOf
  <2>10. PICK rest : rest = g[L - e] /\ rest \in Seq(Nat)
    <3>1. L - e \in 0..L
      BY <1>1, <1>2, <2>8
    <3>2. g[L - e] \in Seq(Byte) /\ Byte \subseteq Nat
      BY <1>2, <3>1, TextAssumption DEF ListedBy, Byte
    <3> QED
      BY <3>2, Wider
  <2>11. h[M] = Append(h[p], x) \o rest
    <3>1. e \in (p + 1)..M
      BY <1>1, <1>4, <2>8
    <3> QED
      BY <1>2, <2>8, <2>10, <3>1 DEF ReadFrom, Boundary
  <2>12. h[p] \in Seq(Nat)
    BY <1>8
  <2>13. After(h[M], h[p], x, rest, Nat)
    BY <2>8, <2>10, <2>11, <2>12 DEF After
  <2>14. x \in Byte
    <3>1. PICK i \in 1..Len(h[M]) : h[M][i] = x
      BY <2>13, AppendJoin
    <3> QED
      BY <3>1, ElementIs
  <2>15. NextByte(T, N) = x
    <3>1. ByteSize \in Nat /\ x < ByteSize /\ x < LongSize
      <4>1. ByteSize \in Nat /\ x < ByteSize
        BY <2>8, <2>14, TextAssumption DEF Byte
      <4> QED
        BY <2>8, <4>1, LongIs
    <3>2. strtoul(Ahead(T, N), 16).val = x
      BY <1>4, <1>5, <2>7, <3>1 DEF NumberAt
    <3>3. x % ByteSize = x
      BY <2>8, <3>1, SmallRest
    <3> QED
      BY <3>2, <3>3 DEF NextByte
  <2>16. g[N] = <<x>> \o rest
    BY <1>6, <2>9, <2>10, <2>15
  <2>17. Continues(h[M], h[p], x, rest)
    BY <2>13, AppendJoin
  <2> QED
    BY <1>2, <1>5, <2>16, <2>17 DEF Continues
<1>11. q = M + 1 \/ q <= M
  BY <1>1, <1>4
<1> QED
  BY <1>9, <1>10, <1>11

LEMMA ListReads ==
  ASSUME NEW T, NEW M, HoldsList(T, M), NEW h, Byted(h, T, M), h[M] \in Seq(Byte),
         NEW g, ListedBy(g, T)
  PROVE  \A p \in 0..M : ReadFrom(T, M, h, g, p)
<1> DEFINE Bad == {k \in 0..M : ~ReadFrom(T, M, h, g, M - k)}
<1>1. M \in Nat
  BY DEF HoldsList
<1>2. CASE Bad = {}
  <2>1. ASSUME NEW p \in 0..M PROVE ReadFrom(T, M, h, g, p)
    <3>1. PICK k \in 0..M : k = M - p /\ M - k = p
      <4>1. M - p \in 0..M /\ M - (M - p) = p
        BY <1>1
      <4> QED
        BY <4>1
    <3> QED
      BY <1>2, <3>1
  <2> QED
    BY <2>1
<1>3. CASE Bad # {}
  <2>1. PICK k \in Bad : \A i \in Bad : k <= i
    <3>1. Bad \in SUBSET Nat
      OBVIOUS
    <3> HIDE DEF Bad
    <3> QED
      BY <1>3, <3>1, Smallest
  <2>2. PICK p \in 0..M : p = M - k /\ k = M - p
    <3>1. k \in 0..M
      OBVIOUS
    <3>2. M - k \in 0..M /\ k = M - (M - k)
      BY <1>1, <3>1
    <3> QED
      BY <3>2
  <2>3. ASSUME NEW e \in (p + 1)..M PROVE ReadFrom(T, M, h, g, e)
    <3>1. PICK i \in 0..M : i = M - e /\ M - i = e /\ i < k
      <4>1. M - e \in 0..M /\ M - (M - e) = e /\ M - e < k
        BY <1>1, <2>2
      <4> QED
        BY <4>1
    <3>2. i \notin Bad
      <4>1. k \in Nat /\ ~(k <= i)
        BY <3>1
      <4> QED
        BY <2>1, <4>1
    <3> QED
      BY <3>1, <3>2
  <2>4. ReadFrom(T, M, h, g, p)
    BY <2>3, ListStep
  <2> QED
    BY <2>2, <2>4
<1> QED
  BY <1>2, <1>3

LEMMA ListsRead ==
  ASSUME NEW I, NEW T, NEW c, Enclosed(I, T, c), c = char.close,
         NEW data \in Seq(Byte), Lists(I, data)
  PROVE  Listed(T) = data
<1>1. I \in Seq(Nat) /\ T \in Seq(Nat)
  BY DEF Enclosed
<1>2. PICK M \in Nat, L \in Nat : M = Len(I) /\ L = Len(T) /\ M < L /\ DOMAIN I = 1..M
  BY <1>1 DEF Enclosed
<1>3. \A k \in 1..M : T[k] = I[k]
  BY <1>2 DEF Enclosed
<1>4. HoldsList(T, M)
  <2>1. Stops(c) /\ c \notin Between
    BY DEF Stops, Between, char, digit
  <2>2. \A k \in 1..M : digit(T[k]) < 16 \/ T[k] \in Between
    BY <1>2, <1>3 DEF Lists, Between
  <2>3. T[M + 1] = c
    BY <1>2 DEF Enclosed
  <2> QED
    BY <1>1, <1>2, <2>1, <2>2, <2>3 DEF HoldsList
<1>5. PICK h : Byted(h, I, M) /\ data = h[M]
  <2>1. data = Bytes(I)
    BY DEF Lists
  <2> QED
    BY <1>1, <1>2, <2>1, BytesAre
<1>6. Byted(h, T, M)
  <2>1. ASSUME NEW i \in 1..M PROVE ByteStep(T, i, h[i - 1]) = ByteStep(I, i, h[i - 1])
    <3>1. T[i] = I[i]
      BY <1>3
    <3>2. i > 1 => T[i - 1] = I[i - 1]
      <4>1. i > 1 => i - 1 \in 1..M
        OBVIOUS
      <4> QED
        BY <1>3, <4>1
    <3> QED
      BY <3>1, <3>2 DEF ByteStep
  <2> QED
    BY <1>5, <2>1 DEF Byted
<1>7. PICK g, all : ListedBy(g, T) /\ all = g[L]
                    /\ Listed(T) = Upto(all, IF Len(all) < MaxBytes THEN Len(all) ELSE MaxBytes)
  BY <1>1, <1>2, ListIs
<1>8. data = all
  <2>1. ReadFrom(T, M, h, g, 0)
    <3>1. 0 \in 0..M
      OBVIOUS
    <3> QED
      BY <1>4, <1>5, <1>6, <1>7, <3>1, ListReads
  <2>2. h[M] = h[0] \o g[Len(T) - 0]
    BY <2>1 DEF ReadFrom, Boundary
  <2>3. h[0] = <<>> /\ Len(T) - 0 = L
    BY <1>2, <1>6 DEF Byted
  <2>4. all \in Seq(Byte)
    <3>1. L \in 0..Len(T)
      BY <1>2
    <3> QED
      BY <1>7, <3>1 DEF ListedBy
  <2>5. <<>> \o all = all
    BY <2>4
  <2> QED
    BY <1>5, <1>7, <2>2, <2>3, <2>5
<1>9. PICK n \in Nat : n = Len(data) /\ n <= MaxBytes
  BY DEF Lists
<1>10. Listed(T) = Upto(data, n)
  <2>1. n = IF n < MaxBytes THEN n ELSE MaxBytes
    BY <1>9, TextAssumption
  <2> QED
    BY <1>7, <1>8, <1>9, <2>1
<1>11. Upto(data, n) = data
  <2>1. Upto(data, n) = Mid(data, 1, n)
    BY DEF Upto, Mid
  <2> QED
    BY <1>9, <2>1, WholeIs
<1> QED
  BY <1>10, <1>11

-----------------------------------------------------------------------------
(***************************************************************************)
(* Whatever form the value has, the edit is the one it spells.             *)
(***************************************************************************)
LEMMA EditForms ==
  ASSUME NEW v, NEW node, NEW prop, v # <<>>
  PROVE  /\ v[1] = char.quote /\ strrchr(v, char.quote) # 1 =>
              Edit(node, prop, v) = Sets(node, prop, StringToLast(v) \o <<NUL>>)
         /\ v[1] = char.less =>
              Edit(node, prop, v) = Sets(node, prop, WordOf(strtoul(Tail(v), 0).val))
         /\ v[1] = char.open => Edit(node, prop, v) = Sets(node, prop, Listed(Tail(v)))
         /\ v = Delete => Edit(node, prop, v) = Deletes(node, prop)
<1>1. char.quote = 34 /\ char.less = 60 /\ char.open = 91
  BY DEF char
<1>2. v[1] \in {34, 60, 91} => v # Delete
  BY DEF Delete
<1>3. v = Delete => Edit(node, prop, v) = Deletes(node, prop)
  <2>1. v = Delete => v[1] = 33
    BY DEF Delete
  <2> QED
    BY <1>1, <2>1 DEF Edit
<1>4. v[1] = 34 /\ strrchr(v, char.quote) # 1 =>
        Edit(node, prop, v) = Sets(node, prop, StringToLast(v) \o <<NUL>>)
  BY <1>1, <1>2 DEF Edit
<1>5. v[1] = 60 => Edit(node, prop, v) = Sets(node, prop, WordOf(strtoul(Tail(v), 0).val))
  BY <1>1, <1>2 DEF Edit
<1>6. v[1] = 91 => Edit(node, prop, v) = Sets(node, prop, Listed(Tail(v)))
  BY <1>1, <1>2 DEF Edit
<1> QED
  BY <1>1, <1>3, <1>4, <1>5, <1>6

LEMMA QuotesRead ==
  ASSUME NEW v \in Seq(Nat), NEW z \in 2..Len(v), v[z] = char.quote,
         \A k \in (z + 1)..Len(v) : v[k] # char.quote
  PROVE  strrchr(v, char.quote) # 1 /\ StringToLast(v) = Mid(v, 2, z - 1)
<1>1. PICK i \in 1..Len(v) : i = z /\ i # 1
  OBVIOUS
<1>2. strrchr(v, char.quote) = i
  BY <1>1, StrrchrAt
<1> QED
  BY <1>1, <1>2 DEF StringToLast, Mid

\* What is between the brackets, and what it is to say.
Says(v, inside, c, data) ==
  \/ v[1] = char.quote /\ c = char.quote /\ Quotes(inside, data) /\ strrchr(v, char.quote) # 1
     /\ StringToLast(v) = inside
  \/ v[1] = char.less /\ c = char.more /\ Counts(inside, data)
  \/ v[1] = char.open /\ c = char.close /\ Lists(inside, data)

LEMMA SaysRead ==
  ASSUME NEW v \in Seq(Nat), NEW I, NEW c, Enclosed(I, Tail(v), c), v # <<>>,
         NEW data \in Seq(Byte), Says(v, I, c, data), NEW node, NEW prop
  PROVE  Edit(node, prop, v) = Sets(node, prop, data)
<1>1. PICK T : T = Tail(v)
  OBVIOUS
<1>2. CASE v[1] = char.quote /\ c = char.quote /\ Quotes(I, data) /\ strrchr(v, char.quote) # 1
           /\ StringToLast(v) = I
  BY <1>2, EditForms DEF Quotes
<1>3. CASE v[1] = char.less /\ c = char.more /\ Counts(I, data)
  <2>1. Stops(c)
    BY <1>3 DEF Stops, char, digit
  <2>2. WordOf(strtoul(T, 0).val) = data
    BY <1>1, <1>3, <2>1, CountsRead
  <2> QED
    BY <1>1, <1>3, <2>2, EditForms
<1>4. CASE v[1] = char.open /\ c = char.close /\ Lists(I, data)
  <2>1. Listed(T) = data
    BY <1>1, <1>4, ListsRead
  <2> QED
    BY <1>1, <1>4, <2>1, EditForms
<1> QED
  BY <1>2, <1>3, <1>4 DEF Says

LEMMA SpellsRead ==
  ASSUME NEW v \in Seq(Nat), NEW data, Spells(v, data), NEW node, NEW prop
  PROVE  Edit(node, prop, v) = Sets(node, prop, data)
<1>1. data \in Seq(Byte)
  BY DEF Spells
<1>2. PICK z \in 2..Len(v) :
        \/ /\ v[1] = char.quote /\ v[z] = char.quote /\ Quotes(Mid(v, 2, z - 1), data)
           /\ \A k \in (z + 1)..Len(v) : v[k] # char.quote
        \/ v[1] = char.less /\ v[z] = char.more /\ Counts(Mid(v, 2, z - 1), data)
        \/ v[1] = char.open /\ v[z] = char.close /\ Lists(Mid(v, 2, z - 1), data)
  BY Zenon DEF Spells, Mid
<1>3. PICK I, c : I = Mid(v, 2, z - 1) /\ c = v[z]
  OBVIOUS
<1>4. Enclosed(I, Tail(v), c)
  BY <1>3, EnclosedIs
<1>5. v # <<>>
  OBVIOUS
<1>6. Says(v, I, c, data)
  <2>1. CASE /\ v[1] = char.quote /\ v[z] = char.quote /\ Quotes(Mid(v, 2, z - 1), data)
             /\ \A k \in (z + 1)..Len(v) : v[k] # char.quote
    BY <1>3, <2>1, QuotesRead DEF Says
  <2>2. CASE v[1] = char.less /\ v[z] = char.more /\ Counts(Mid(v, 2, z - 1), data)
    BY <1>3, <2>2, Zenon DEF Says
  <2>3. CASE v[1] = char.open /\ v[z] = char.close /\ Lists(Mid(v, 2, z - 1), data)
    BY <1>3, <2>3, Zenon DEF Says
  <2> QED
    BY <1>2, <2>1, <2>2, <2>3
<1> QED
  BY <1>1, <1>4, <1>5, <1>6, SaysRead

LEMMA DirectiveRead ==
  ASSUME NEW text \in Text, NEW means, IsDirective(text, means)
  PROVE  text # <<>> /\ Directive(text) = means
<1>1. PICK i \in DOMAIN text, j \in DOMAIN text :
        /\ Assigns(text, means.node, means.prop, i, j)
        /\ \/ /\ means = Sets(means.node, means.prop, means.data)
              /\ Spells(Mid(text, i, j), means.data)
           \/ means = Deletes(means.node, means.prop) /\ Mid(text, i, j) = Delete
  BY Zenon DEF IsDirective, Mid
<1>2. PICK v : v = Mid(text, i, j)
  OBVIOUS
<1>3. Directive(text) = Edit(means.node, means.prop, v)
  BY <1>1, <1>2, AssignsRead
<1>4. text # <<>>
  OBVIOUS
<1>5. CASE means = Sets(means.node, means.prop, means.data) /\ Spells(v, means.data)
  <2>1. v \in Seq(Nat)
    <3>1. i \in Nat /\ j \in Nat /\ j - i + 1 \in Nat /\ 1 <= i /\ j <= Len(text)
      BY <1>1 DEF Assigns, Text
    <3>2. PICK n : n = j - i + 1
      OBVIOUS
    <3>3. Bounds(text, i, j, n)
      BY <3>1, <3>2 DEF Bounds
    <3>4. text \in Seq(Nat)
      BY TextIs
    <3>5. Copies(v, text, i, n, Nat)
      BY <1>2, <3>3, <3>4, PartIs
    <3> QED
      BY <3>5 DEF Copies
  <2>2. Edit(means.node, means.prop, v) = Sets(means.node, means.prop, means.data)
    BY <1>5, <2>1, SpellsRead
  <2> QED
    BY <1>3, <1>4, <1>5, <2>2
<1>6. CASE means = Deletes(means.node, means.prop) /\ v = Delete
  <2>1. v # <<>>
    BY <1>6 DEF Delete
  <2>2. Edit(means.node, means.prop, v) = Deletes(means.node, means.prop)
    BY <1>6, <2>1, EditForms
  <2> QED
    BY <1>3, <1>4, <1>6, <2>2
<1> QED
  BY <1>1, <1>2, <1>5, <1>6

\* At the end of a line that fits, its piece made the one edit.
LEMMA StageOnly ==
  ASSUME NEW text \in Text, text # <<>>, Stage(text), left = <<>>
  PROVE  Only(Directive(text))
<1>1. PICK e : e = Directive(text)
  OBVIOUS
<1>2. outcomes = <<e>> \/ outcomes = <<e, Nothing>>
  BY <1>1 DEF Stage
<1>3. CASE outcomes = <<e>>
  BY <1>1, <1>3 DEF Only
<1>4. CASE outcomes = <<e, Nothing>>
  BY <1>1, <1>4 DEF Only
<1> QED
  BY <1>2, <1>3, <1>4

\* A directive that fits the buffer is the edit it was written for, in each of its forms:
\* main, apply_directive and split_path of dt_apply.c with strtoul.
THEOREM TextUnderstood == Spec => []Understood
<1>1. TextInv => Understood
  <2> SUFFICES ASSUME TextInv, ReadAs("directive"), Fits PROVE Only(line.means)
    BY DEF Understood
  <2>1. line \in Lines /\ line.kind = "directive" /\ left = <<>> /\ Stage(line.text)
    BY DEF TextInv, ReadAs
  <2>2. line.text \in Text /\ IsDirective(line.text, line.means)
    BY <2>1, LineIs, TextAssumption
  <2>3. line.text # <<>> /\ Directive(line.text) = line.means
    BY <2>2, DirectiveRead
  <2>4. Only(Directive(line.text))
    BY <2>1, <2>2, <2>3, StageOnly
  <2> QED
    BY <2>3, <2>4
<1> QED
  BY <1>1, AlwaysRead, PTL

-----------------------------------------------------------------------------
(***************************************************************************)
(* What dt-parse prints of a value spells that value.                      *)
(***************************************************************************)
\* A value between its brackets.
Framed(v, a, body, c, n) ==
  /\ v = <<a>> \o body \o <<c>> /\ a \in Nat /\ c \in Nat /\ body \in Seq(Nat) /\ n = Len(body)
Frames(v, a, body, c, n) ==
  /\ v \in Seq(Nat) /\ n \in Nat /\ Len(v) = n + 2 /\ v[1] = a /\ v[n + 2] = c
  /\ Mid(v, 2, n + 1) = body

LEMMA FrameIs ==
  ASSUME NEW v, NEW a, NEW body, NEW c, NEW n, Framed(v, a, body, c, n)
  PROVE  Frames(v, a, body, c, n)
<1>1. v = <<a>> \o body \o <<c>> /\ a \in Nat /\ c \in Nat /\ body \in Seq(Nat) /\ n = Len(body) /\ n \in Nat
  BY DEF Framed
<1>2. PICK s : s = <<a>> \o body
  OBVIOUS
<1>3. s \in Seq(Nat) /\ Len(s) = n + 1 /\ s[1] = a /\ \A k \in 1..n : s[k + 1] = body[k]
  BY <1>1, <1>2
<1>4. v = s \o <<c>>
  BY <1>1, <1>2
<1>5. v \in Seq(Nat) /\ Len(v) = n + 2 /\ v[n + 2] = c /\ \A k \in 1..(n + 1) : v[k] = s[k]
  BY <1>1, <1>3, <1>4
<1>6. v[1] = a
  <2>1. 1 \in 1..(n + 1)
    BY <1>1
  <2> QED
    BY <1>3, <1>5, <2>1
<1>7. PICK m, t : m = n + 1 /\ t = Mid(v, 2, m)
  OBVIOUS
<1>8. Copies(t, v, 2, n, Nat)
  <2>1. Bounds(v, 2, m, n)
    BY <1>1, <1>5, <1>7 DEF Bounds
  <2> QED
    BY <1>5, <1>7, <2>1, PartIs
<1>9. ASSUME NEW k \in 1..n PROVE t[k] = body[k]
  <2>1. t[k] = v[2 + k - 1]
    BY <1>8 DEF Copies
  <2>2. 2 + k - 1 = k + 1 /\ k + 1 \in 1..(n + 1)
    BY <1>1
  <2> QED
    BY <1>3, <1>5, <2>1, <2>2
<1>10. t = body
  BY <1>1, <1>8, <1>9, SameSeq DEF Copies
<1> QED
  BY <1>1, <1>5, <1>6, <1>7, <1>10 DEF Frames

LEMMA FrameSpells ==
  ASSUME NEW v, NEW a, NEW body, NEW c, NEW n, Framed(v, a, body, c, n),
         NEW data \in Seq(Byte),
         \/ a = char.quote /\ c = char.quote /\ Quotes(body, data)
         \/ a = char.less /\ c = char.more /\ Counts(body, data)
         \/ a = char.open /\ c = char.close /\ Lists(body, data)
  PROVE  Spells(v, data)
<1>1. v \in Seq(Nat) /\ n \in Nat /\ Len(v) = n + 2 /\ v[1] = a /\ v[n + 2] = c /\ Mid(v, 2, n + 1) = body
  BY FrameIs DEF Frames
<1>2. PICK z \in 2..Len(v) : z = n + 2 /\ z - 1 = n + 1 /\ \A k \in (z + 1)..Len(v) : FALSE
  <2>1. n + 2 \in 2..Len(v) /\ (n + 2) - 1 = n + 1
    BY <1>1
  <2>2. \A k \in ((n + 2) + 1)..Len(v) : FALSE
    BY <1>1
  <2> QED
    BY <2>1, <2>2
<1>3. v[z] = c /\ Mid(v, 2, z - 1) = body
  BY <1>1, <1>2
<1>4. \/ /\ v[1] = char.quote /\ v[z] = char.quote /\ Quotes(Mid(v, 2, z - 1), data)
         /\ \A k \in (z + 1)..Len(v) : v[k] # char.quote
      \/ v[1] = char.less /\ v[z] = char.more /\ Counts(Mid(v, 2, z - 1), data)
      \/ v[1] = char.open /\ v[z] = char.close /\ Lists(Mid(v, 2, z - 1), data)
  BY <1>1, <1>2, <1>3, Zenon
<1> QED
  BY <1>4, Zenon DEF Spells, Mid

\* Hexadecimal digits, printed and read.
HexChar(d) == IF d < 10 THEN 48 + d ELSE 87 + d

LEMMA HexCharIs ==
  ASSUME NEW d \in 0..15
  PROVE  HexChar(d) \in Nat /\ digit(HexChar(d)) = d
<1>1. CASE d < 10
  BY <1>1 DEF HexChar, digit
<1>2. CASE d >= 10
  BY <1>2 DEF HexChar, digit
<1> QED
  BY <1>1, <1>2

LEMMA HexIs ==
  ASSUME NEW v \in Nat, NEW width \in {2, 8}, NEW s, s = Hex(v, width)
  PROVE  /\ s \in Seq(Nat) /\ Len(s) = width
         /\ \A k \in 1..width : digit(s[k]) = (v \div HexPlace[8 - width + k]) % 16
                                /\ digit(s[k]) \in 0..15
<1>1. s = [k \in 1..width |-> HexChar((v \div HexPlace[8 - width + k]) % 16)]
  BY DEF Hex, HexChar
<1>2. ASSUME NEW k \in 1..width PROVE (v \div HexPlace[8 - width + k]) % 16 \in 0..15
  <2>1. PICK p \in 1..8 : p = 8 - width + k
    <3>1. 8 - width + k \in 1..8
      OBVIOUS
    <3> QED
      BY <3>1
  <2>2. PICK h \in Nat : h = HexPlace[p] /\ h # 0
    BY DEF HexPlace
  <2>3. v \div h \in Nat
    BY <2>2
  <2>4. (v \div h) % 16 \in 0..15
    BY <2>3
  <2> QED
    BY <2>1, <2>2, <2>4
<1>3. \A k \in 1..width : HexChar((v \div HexPlace[8 - width + k]) % 16) \in Nat
  BY <1>2, HexCharIs
<1>4. s \in Seq(Nat) /\ Len(s) = width
  BY <1>1, <1>3
<1>5. ASSUME NEW k \in 1..width
      PROVE  digit(s[k]) = (v \div HexPlace[8 - width + k]) % 16
  BY <1>1, <1>2, HexCharIs
<1> QED
  BY <1>2, <1>4, <1>5

\* The digits of a word one after another: x is what is in front of the digits below
\* place P.
AtPlace(v, P, x) == \E r \in Nat : v = P * x + r /\ r < P
Sixteens(y, x, d) == x \in Nat /\ d \in Nat /\ d < 16 /\ y = 16 * x + d

LEMMA SixteensAre == ASSUME NEW y \in Nat PROVE \E x, d : Sixteens(y, x, d)
<1>1. PICK x \in Nat : x = y \div 16
  OBVIOUS
<1>2. PICK d \in Nat : d = y % 16 /\ d < 16
  OBVIOUS
<1>3. y = 16 * x + d
  BY <1>1, <1>2
<1> QED
  BY <1>2, <1>3 DEF Sixteens

LEMMA NextDigit ==
  ASSUME NEW y \in Nat, NEW x, NEW d, Sixteens(y, x, d)
  PROVE  x * 16 + (y % 16) = y
<1>1. x \in Nat /\ d \in Nat /\ d < 16 /\ y = 16 * x + d
  BY DEF Sixteens
<1>2. y % 16 = d
  BY <1>1
<1>3. x * 16 + d = y
  BY <1>1
<1> QED
  BY <1>2, <1>3, Zenon

LEMMA AtPlaceIs ==
  ASSUME NEW v \in Nat, NEW k \in 1..8, NEW x \in Nat, AtPlace(v, HexPlace[k], x)
  PROVE  v \div HexPlace[k] = x
<1>1. \A r \in Nat : /\ v = 268435456 * x + r /\ r < 268435456 => v \div 268435456 = x
                     /\ v = 16777216 * x + r /\ r < 16777216 => v \div 16777216 = x
                     /\ v = 1048576 * x + r /\ r < 1048576 => v \div 1048576 = x
                     /\ v = 65536 * x + r /\ r < 65536 => v \div 65536 = x
  BY SMT
<1>2. \A r \in Nat : /\ v = 4096 * x + r /\ r < 4096 => v \div 4096 = x
                     /\ v = 256 * x + r /\ r < 256 => v \div 256 = x
                     /\ v = 16 * x + r /\ r < 16 => v \div 16 = x
                     /\ v = 1 * x + r /\ r < 1 => v \div 1 = x
  BY SMT
<1>0. PICK P : P = HexPlace[k]
  OBVIOUS
<1>3. PICK r \in Nat : v = P * x + r /\ r < P
  BY <1>0, Zenon DEF AtPlace
<1>4. v \div P = x
  <2>1. \/ P = 268435456 \/ P = 16777216 \/ P = 1048576 \/ P = 65536
        \/ P = 4096 \/ P = 256 \/ P = 16 \/ P = 1
    <3>1. k = 1 \/ k = 2 \/ k = 3 \/ k = 4 \/ k = 5 \/ k = 6 \/ k = 7 \/ k = 8
      OBVIOUS
    <3>2. P = HexPlace[k]
      BY <1>0
    <3> QED
      BY <3>1, <3>2, SMT DEF HexPlace
  <2>2. v = P * x + r /\ r < P
    BY <1>3
  <2> QED
    BY <1>1, <1>2, <2>1, <2>2, SMT
<1> QED
  BY <1>0, <1>4

LEMMA HigherPlace ==
  ASSUME NEW v \in Nat, NEW k \in 2..8, NEW y \in Nat, AtPlace(v, HexPlace[k], y),
         NEW x, NEW d, Sixteens(y, x, d)
  PROVE  AtPlace(v, HexPlace[k - 1], x)
<1> x \in Nat /\ d \in Nat /\ d < 16 /\ y = 16 * x + d
  BY DEF Sixteens
<1>1. PICK P \in Nat : P = HexPlace[k] /\ HexPlace[k - 1] = 16 * P
  <2>1. k = 2 \/ k = 3 \/ k = 4 \/ k = 5 \/ k = 6 \/ k = 7 \/ k = 8
    OBVIOUS
  <2> QED
    BY <2>1, SMT DEF HexPlace
<1>2. PICK r \in Nat : v = P * y + r /\ r < P
  BY <1>1 DEF AtPlace
<1>3. PICK p \in Nat : p = P * d + r
  OBVIOUS
<1>4. v = (16 * P) * x + p
  BY <1>2, <1>3
<1>5. p < 16 * P
  <2>1. P * d <= P * 15
    OBVIOUS
  <2> QED
    BY <1>2, <1>3, <2>1
<1> QED
  BY <1>1, <1>4, <1>5 DEF AtPlace

LEMMA WordsFit == Words <= 16 * HexPlace[1]
<1>1. CASE ByteSize = 128
  BY <1>1, SMT DEF Words, HexPlace
<1>2. CASE ByteSize = 256
  BY <1>2, SMT DEF Words, HexPlace
<1> QED
  BY <1>1, <1>2, TextAssumption

LEMMA HexWord ==
  ASSUME NEW v \in Nat, v < Words, NEW s, s = Hex(v, 8)
  PROVE  s \in Seq(Nat) /\ Len(s) = 8 /\ AreDigits(s, 16) /\ Number(s, 16) = v
<1>1. s \in Seq(Nat) /\ Len(s) = 8 /\ DOMAIN s = 1..8
  BY HexIs
<1>2. \A k \in 1..8 : digit(s[k]) = (v \div HexPlace[k]) % 16 /\ digit(s[k]) < 16
  <2>1. ASSUME NEW k \in 1..8 PROVE digit(s[k]) = (v \div HexPlace[k]) % 16 /\ digit(s[k]) < 16
    <3>1. digit(s[k]) = (v \div HexPlace[8 - 8 + k]) % 16 /\ digit(s[k]) \in 0..15
      BY HexIs
    <3>2. 8 - 8 + k = k
      OBVIOUS
    <3>3. digit(s[k]) = (v \div HexPlace[k]) % 16
      BY <3>1, <3>2
    <3> QED
      BY <3>1, <3>3
  <2> QED
    BY <2>1
<1>3. PICK c : Counted(c, s, 16, 8) /\ Number(s, 16) = c[8]
  BY <1>1, CountedIs
<1>4. PICK x \in [1..8 -> Nat], d \in [1..8 -> Nat] :
        x[8] = v /\ \A k \in 2..8 : Sixteens(x[k], x[k - 1], d[k])
  <2>1. PICK x7, d8 : Sixteens(v, x7, d8)
    BY SixteensAre
  <2>2. PICK x6, d7 : Sixteens(x7, x6, d7)
    BY <2>1, SixteensAre DEF Sixteens
  <2>3. PICK x5, d6 : Sixteens(x6, x5, d6)
    BY <2>2, SixteensAre DEF Sixteens
  <2>4. PICK x4, d5 : Sixteens(x5, x4, d5)
    BY <2>3, SixteensAre DEF Sixteens
  <2>5. PICK x3, d4 : Sixteens(x4, x3, d4)
    BY <2>4, SixteensAre DEF Sixteens
  <2>6. PICK x2, d3 : Sixteens(x3, x2, d3)
    BY <2>5, SixteensAre DEF Sixteens
  <2>7. PICK x1, d2 : Sixteens(x2, x1, d2)
    BY <2>6, SixteensAre DEF Sixteens
  <2>8. PICK x, d : x = <<x1, x2, x3, x4, x5, x6, x7, v>> /\ d = <<0, d2, d3, d4, d5, d6, d7, d8>>
    OBVIOUS
  <2>9. /\ x1 \in Nat /\ x2 \in Nat /\ x3 \in Nat /\ x4 \in Nat /\ x5 \in Nat /\ x6 \in Nat /\ x7 \in Nat
        /\ d2 \in Nat /\ d3 \in Nat /\ d4 \in Nat /\ d5 \in Nat /\ d6 \in Nat /\ d7 \in Nat /\ d8 \in Nat
    BY <2>1, <2>2, <2>3, <2>4, <2>5, <2>6, <2>7 DEF Sixteens
  <2>10. x \in [1..8 -> Nat] /\ d \in [1..8 -> Nat]
    BY <2>8, <2>9
  <2>11. ASSUME NEW k \in 2..8 PROVE Sixteens(x[k], x[k - 1], d[k])
    <3>1. k = 2 \/ k = 3 \/ k = 4 \/ k = 5 \/ k = 6 \/ k = 7 \/ k = 8
      OBVIOUS
    <3> QED
      BY <2>1, <2>2, <2>3, <2>4, <2>5, <2>6, <2>7, <2>8, <3>1
  <2>12. x[8] = v
    BY <2>8
  <2> QED
    BY <2>10, <2>11, <2>12
<1>5. ASSUME NEW m \in 0..7 PROVE AtPlace(v, HexPlace[8 - m], x[8 - m])
  <2> DEFINE P == {i \in 0..7 : AtPlace(v, HexPlace[8 - i], x[8 - i])}
  <2>1. 0 \in P
    <3>1. v = 1 * v + 0 /\ 0 < 1 /\ HexPlace[8 - 0] = 1 /\ 8 - 0 = 8
      BY SMT DEF HexPlace
    <3>2. AtPlace(v, 1, v)
      BY <3>1 DEF AtPlace
    <3> QED
      BY <1>4, <3>1, <3>2
  <2>2. ASSUME NEW i \in 1..7, i - 1 \in P PROVE i \in P
    <3>1. PICK k \in 2..8 : k = 8 - (i - 1) /\ k - 1 = 8 - i
      OBVIOUS
    <3>2. AtPlace(v, HexPlace[k], x[k])
      BY <2>2, <3>1
    <3>3. AtPlace(v, HexPlace[k - 1], x[k - 1])
      BY <1>4, <3>2, HigherPlace
    <3> QED
      BY <3>1, <3>3
  <2> HIDE DEF P
  <2>3. 0..7 \subseteq P
    BY <2>1, <2>2, Induction
  <2> QED
    BY <2>3 DEF P
<1>6. ASSUME NEW k \in 1..8 PROVE AtPlace(v, HexPlace[k], x[k]) /\ v \div HexPlace[k] = x[k] /\ x[k] \in Nat
  <2>1. PICK m \in 0..7 : k = 8 - m
    <3>1. 8 - k \in 0..7 /\ k = 8 - (8 - k)
      OBVIOUS
    <3> QED
      BY <3>1
  <2>2. AtPlace(v, HexPlace[k], x[k])
    BY <1>5, <2>1
  <2> QED
    BY <1>4, <2>2, AtPlaceIs
<1>7. \A k \in 1..8 : digit(s[k]) = x[k] % 16
  BY <1>2, <1>6
<1>8. x[1] % 16 = x[1]
  <2>1. 1 \in 1..8
    OBVIOUS
  <2>2. PICK P \in Nat, r \in Nat : P = HexPlace[1] /\ P # 0 /\ v = P * x[1] + r
    <3>1. HexPlace[1] \in Nat /\ HexPlace[1] # 0
      BY SMT DEF HexPlace
    <3> QED
      BY <1>6, <2>1, <3>1 DEF AtPlace
  <2>3. v < 16 * P
    BY <2>2, WordsFit, LongIs
  <2>4. PICK y \in Nat : y = x[1]
    BY <1>6, <2>1
  <2>5. y < 16
    <3> SUFFICES ASSUME y >= 16 PROVE FALSE
      OBVIOUS
    <3>1. P * y >= P * 16
      OBVIOUS
    <3> QED
      BY <2>2, <2>3, <2>4, <3>1
  <2> QED
    BY <2>4, <2>5
<1>9. c[0] = 0 /\ \A i \in 1..8 : c[i] = c[i - 1] * 16 + digit(s[i])
  BY <1>3 DEF Counted
<1>10. c[8] = v
  <2> DEFINE P == {i \in 0..8 : i = 0 \/ c[i] = x[i]}
  <2>1. 0 \in P
    OBVIOUS
  <2>2. ASSUME NEW i \in 1..8, i - 1 \in P PROVE i \in P
    <3>1. c[i] = c[i - 1] * 16 + (x[i] % 16)
      <4>1. digit(s[i]) = x[i] % 16
        BY <1>7
      <4>2. c[i] = c[i - 1] * 16 + digit(s[i])
        BY <1>9
      <4> QED
        BY <4>1, <4>2, Zenon
    <3>2. CASE i = 1
      <4>1. c[i - 1] = 0 /\ x[i] % 16 = x[i] /\ x[i] \in Nat
        BY <1>6, <1>8, <1>9, <3>2
      <4> QED
        BY <3>1, <4>1
    <3>3. CASE i # 1
      <4>1. i \in 2..8 /\ i - 1 \in 1..8
        BY <3>3
      <4>2. c[i - 1] = x[i - 1]
        BY <2>2, <4>1
      <4>3. x[i - 1] * 16 + (x[i] % 16) = x[i]
        BY <1>4, <1>6, <4>1, NextDigit
      <4> QED
        BY <3>1, <4>2, <4>3
    <3> QED
      BY <3>2, <3>3
  <2> HIDE DEF P
  <2>3. 0..8 \subseteq P
    BY <2>1, <2>2, Induction
  <2>4. 8 \in P
    BY <2>3
  <2> QED
    BY <1>4, <2>4 DEF P
<1>11. AreDigits(s, 16)
  <2>1. s # <<>>
    <3>1. Len(<<>>) = 0 /\ Len(s) = 8 /\ 8 # 0
      BY <1>1
    <3> QED
      BY <3>1, Zenon
  <2>2. \A k \in 1..8 : digit(s[k]) < 16
    BY <1>2
  <2> QED
    BY <1>1, <2>1, <2>2 DEF AreDigits
<1> QED
  BY <1>1, <1>3, <1>10, <1>11

LEMMA UptoMore ==
  ASSUME NEW E, NEW s \in Seq(E), NEW m \in Nat, m < Len(s), NEW k, k = m + 1
  PROVE  Upto(s, k) = Append(Upto(s, m), s[k]) /\ s[k] \in E /\ Upto(s, m) \in Seq(E)
<1>0. k \in Nat /\ k <= Len(s) /\ m <= Len(s) /\ k \in 1..Len(s)
  OBVIOUS
<1>1. PICK t : t = Upto(s, k) /\ Begins(t, s, k, E)
  BY <1>0, UptoAt
<1>2. PICK u : u = Upto(s, m) /\ Begins(u, s, m, E)
  BY <1>0, UptoAt
<1>3. PICK x \in E : x = s[k]
  BY <1>0, ElementIs
<1>4. PICK w : w = Append(u, x)
  OBVIOUS
<1>5. u \in Seq(E) /\ Len(u) = m /\ \A i \in 1..m : u[i] = s[i]
  BY <1>2 DEF Begins
<1>6. w \in Seq(E) /\ Len(w) = k /\ w[k] = x /\ \A i \in 1..m : w[i] = u[i]
  BY <1>4, <1>5
<1>7. ASSUME NEW i \in 1..k PROVE w[i] = t[i]
  <2>1. t[i] = s[i]
    BY <1>1 DEF Begins
  <2>2. i = k \/ i \in 1..m
    OBVIOUS
  <2> QED
    BY <1>3, <1>5, <1>6, <2>1, <2>2
<1>8. w = t
  BY <1>1, <1>6, <1>7, SameSeq DEF Begins
<1> QED
  BY <1>1, <1>2, <1>3, <1>4, <1>5, <1>8

LEMMA UptoAll == ASSUME NEW E, NEW s \in Seq(E), NEW n, n = Len(s) PROVE Upto(s, n) = s
<1>1. Upto(s, n) = Mid(s, 1, n)
  BY DEF Upto, Mid
<1> QED
  BY <1>1, WholeIs

LEMMA ByteIsNat == Byte \subseteq Nat /\ \A s \in Seq(Byte) : s \in Seq(Nat)
<1>1. Byte \subseteq Nat
  BY TextAssumption DEF Byte
<1> QED
  BY <1>1, Wider

LEMMA ShownString ==
  ASSUME NEW data \in Seq(Byte), data # <<>>, prop_is_string(data),
         \A i \in 1..(Len(data) - 1) : data[i] # NUL
  PROVE  Spells(dump_prop(data), data)
<1>1. PICK n \in Nat : n = Len(data)
  OBVIOUS
<1>2. 1 <= n /\ data[n] = NUL /\ n \in 1..Len(data)
  BY <1>1 DEF prop_is_string
<1>3. strchr(data, NUL) = n
  BY <1>1, <1>2, StrchrAt
<1>4. PICK m \in Nat : m = n - 1 /\ n = m + 1 /\ m < Len(data)
  <2>1. n - 1 \in Nat /\ n = (n - 1) + 1 /\ n - 1 < Len(data)
    BY <1>1, <1>2
  <2> QED
    BY <2>1
<1>5. PICK body : body = Upto(data, m) /\ body \in Seq(Byte)
  BY <1>4, UptoMore
<1>6. data = Append(body, NUL)
  <2>1. Upto(data, n) = Append(Upto(data, m), data[n])
    BY <1>4, UptoMore
  <2>2. Upto(data, n) = data
    BY <1>1, UptoAll
  <2> QED
    BY <1>2, <1>5, <2>1, <2>2
<1>7. Quotes(body, data)
  <2>1. Append(body, NUL) = body \o <<NUL>>
    BY <1>5
  <2> QED
    BY <1>6, <2>1 DEF Quotes
<1>8. PICK a \in Nat : a = char.quote
  BY DEF char
<1>9. PICK v : v = <<a>> \o body \o <<a>>
  OBVIOUS
<1>10. dump_prop(data) = v
  <2>1. dump_prop(data) = <<char.quote>> \o Upto(data, strchr(data, NUL) - 1) \o <<char.quote>>
    BY DEF dump_prop
  <2> QED
    BY <1>3, <1>4, <1>5, <1>8, <1>9, <2>1, Zenon
<1>11. Framed(v, a, body, a, Len(body))
  <2>1. body \in Seq(Nat)
    BY <1>5, ByteIsNat
  <2> QED
    BY <1>9, <2>1 DEF Framed
<1>12. Spells(v, data)
  BY <1>7, <1>8, <1>11, FrameSpells
<1> QED
  BY <1>10, <1>12

\* Something in front of a text.
Before(t, p, s, m) ==
  /\ t \in Seq(Nat) /\ Len(t) = m + Len(s)
  /\ \A k \in 1..m : t[k] = p[k]
  /\ \A k \in 1..Len(s) : t[m + k] = s[k]

LEMMA BeforeIs ==
  ASSUME NEW p \in Seq(Nat), NEW s \in Seq(Nat), NEW m \in Nat, m = Len(p), NEW t, t = p \o s
  PROVE  Before(t, p, s, m)
BY DEF Before

LEMMA ShownWord ==
  ASSUME NEW data \in Seq(Byte), data # <<>>, ~prop_is_string(data), Len(data) = 4
  PROVE  Spells(dump_prop(data), data)
<1>1. PICK w \in Nat : w = Word(data) /\ w < Words
  <2>1. PICK q, v : q = 0 /\ v = Word(data) + Words * q
    OBVIOUS
  <2> QED
    BY <2>1, WordBack
<1>2. PICK s : s = Hex(w, 8)
  OBVIOUS
<1>3. s \in Seq(Nat) /\ Len(s) = 8 /\ AreDigits(s, 16) /\ Number(s, 16) = w
  BY <1>1, <1>2, HexWord
<1>4. PICK p, body : p = <<48, 120>> /\ body = p \o s
  OBVIOUS
<1>5. p \in Seq(Nat) /\ Len(p) = 2 /\ p[1] = 48 /\ p[2] = 120
  BY <1>4
<1>6. /\ body \in Seq(Nat) /\ Len(body) = 8 + 2 /\ body[1] = 48 /\ body[2] = 120
      /\ \A k \in 1..8 : body[2 + k] = s[k]
  <2>1. body = p \o s
    BY <1>4
  <2>2. 2 \in Nat /\ 1 \in 1..2 /\ 2 \in 1..2
    OBVIOUS
  <2>3. Before(body, p, s, 2)
    BY <1>3, <1>5, <2>1, <2>2, BeforeIs
  <2> QED
    BY <1>3, <1>5, <2>2, <2>3 DEF Before
<1>7. From(body, 3) = s
  <2>1. PICK t : t = From(body, 3)
    OBVIOUS
  <2>2. Copies(t, body, 3, 8, Nat)
    BY <1>6, <2>1, FromThree
  <2>3. ASSUME NEW k \in 1..8 PROVE t[k] = s[k]
    <3>1. t[k] = body[3 + k - 1]
      BY <2>2 DEF Copies
    <3>2. 3 + k - 1 = 2 + k
      OBVIOUS
    <3> QED
      BY <1>6, <3>1, <3>2
  <2>4. t = s
    BY <1>3, <2>2, <2>3, SameSeq DEF Copies
  <2> QED
    BY <2>1, <2>4
<1>8. Hexed(body)
  <2>1. body[3] = s[1]
    <3>1. 1 \in 1..8 /\ 2 + 1 = 3
      OBVIOUS
    <3> QED
      BY <1>6, <3>1
  <2>2. digit(s[1]) < 16
    BY <1>3 DEF AreDigits
  <2> QED
    BY <1>6, <2>1, <2>2 DEF Hexed, char
<1>9. Counts(body, data)
  <2>1. Numeral(body, Word(data))
    BY <1>1, <1>3, <1>7, <1>8, Zenon DEF Numeral
  <2> QED
    BY <2>1 DEF Counts
<1>10. PICK v : v = <<60>> \o body \o <<62>>
  OBVIOUS
<1>11. dump_prop(data) = v
  <2>1. dump_prop(data) = <<60, 48, 120>> \o s \o <<62>>
    BY <1>1, <1>2 DEF dump_prop, char
  <2>2. <<60, 48, 120>> \o s = <<60>> \o body
    <3>1. PICK c, d, x, y : c = <<60, 48, 120>> /\ d = <<60>> /\ x = c \o s /\ y = d \o body
      OBVIOUS
    <3>2. x \in Seq(Nat) /\ Len(x) = 11 /\ x[1] = 60 /\ x[2] = 48 /\ x[3] = 120
          /\ \A k \in 1..8 : x[3 + k] = s[k]
      <4>1. c \in Seq(Nat) /\ Len(c) = 3 /\ c[1] = 60 /\ c[2] = 48 /\ c[3] = 120
        BY <3>1
      <4>2. x = c \o s
        BY <3>1
      <4>3. 3 \in Nat /\ 1 \in 1..3 /\ 2 \in 1..3 /\ 3 \in 1..3
        OBVIOUS
      <4>4. Before(x, c, s, 3)
        BY <1>3, <4>1, <4>2, <4>3, BeforeIs
      <4> QED
        BY <1>3, <4>1, <4>3, <4>4 DEF Before
    <3>3. y \in Seq(Nat) /\ Len(y) = 11 /\ y[1] = 60 /\ \A k \in 1..10 : y[1 + k] = body[k]
      <4>1. d \in Seq(Nat) /\ Len(d) = 1 /\ d[1] = 60
        BY <3>1
      <4>2. y = d \o body
        BY <3>1
      <4>3. 1 \in Nat /\ 1 \in 1..1
        OBVIOUS
      <4>4. Before(y, d, body, 1)
        BY <1>6, <4>1, <4>2, <4>3, BeforeIs
      <4> QED
        BY <1>6, <4>1, <4>3, <4>4 DEF Before
    <3>4. ASSUME NEW k \in 1..11 PROVE x[k] = y[k]
      <4>1. CASE k = 1
        BY <3>2, <3>3, <4>1
      <4>2. CASE k = 2 \/ k = 3
        <5>1. y[1 + 1] = body[1] /\ y[1 + 2] = body[2]
          BY <3>3
        <5> QED
          BY <1>6, <3>2, <4>2, <5>1
      <4>3. CASE k > 3
        <5>1. PICK m \in 1..8 : k = 3 + m
          <6>1. k - 3 \in 1..8 /\ k = 3 + (k - 3)
            BY <4>3
          <6> QED
            BY <6>1
        <5>2. 2 + m \in 1..10 /\ 1 + (2 + m) = k
          BY <5>1
        <5>3. y[1 + (2 + m)] = body[2 + m]
          BY <3>3, <5>2
        <5> QED
          BY <1>6, <3>2, <5>1, <5>2, <5>3
      <4> QED
        BY <4>1, <4>2, <4>3
    <3>5. x = y
      <4>1. x \in Seq(Nat) /\ y \in Seq(Nat)
        BY <3>2, <3>3
      <4>2. Len(x) = Len(y) /\ \A k \in 1..Len(x) : x[k] = y[k]
        BY <3>2, <3>3, <3>4
      <4> QED
        BY <4>1, <4>2, SameSeq
    <3>6. x = <<60, 48, 120>> \o s /\ y = <<60>> \o body
      BY <3>1
    <3> QED
      BY <3>5, <3>6
  <2> QED
    BY <1>10, <2>1, <2>2
<1>12. Framed(v, 60, body, 62, Len(body))
  BY <1>6, <1>10 DEF Framed
<1>13. Spells(v, data)
  <2>1. 60 = char.less /\ 62 = char.more
    BY DEF char
  <2> QED
    BY <1>9, <1>12, <2>1, FrameSpells
<1> QED
  BY <1>11, <1>13

LEMMA HexByte ==
  ASSUME NEW y \in Byte, NEW s, s = Hex(y, 2)
  PROVE  /\ s \in Seq(Nat) /\ Len(s) = 2 /\ digit(s[1]) \in 0..15 /\ digit(s[2]) \in 0..15
         /\ digit(s[1]) * 16 + digit(s[2]) = y
<1>1. y \in Nat /\ y < 256
  BY TextAssumption DEF Byte
<1>2. /\ s \in Seq(Nat) /\ Len(s) = 2
      /\ \A k \in 1..2 : digit(s[k]) = (y \div HexPlace[8 - 2 + k]) % 16 /\ digit(s[k]) \in 0..15
  BY <1>1, HexIs
<1>3. 1 \in 1..2 /\ 2 \in 1..2 /\ 8 - 2 + 1 = 7 /\ 8 - 2 + 2 = 8
  OBVIOUS
<1>4. HexPlace[7] = 16 /\ HexPlace[8] = 1
  BY SMT DEF HexPlace
<1>5. digit(s[1]) = (y \div 16) % 16 /\ digit(s[2]) = (y \div 1) % 16
  BY <1>2, <1>3, <1>4
<1>6. PICK d : d = y \div 16 /\ d \in 0..15
  BY <1>1
<1>7. d % 16 = d /\ y \div 1 = y
  BY <1>1, <1>6
<1>8. PICK r : r = y % 16 /\ r \in 0..15
  BY <1>1
<1>9. d * 16 + r = y
  BY <1>1, <1>6, <1>8
<1>10. digit(s[1]) = d /\ digit(s[2]) = r
  BY <1>5, <1>6, <1>7, <1>8
<1> QED
  BY <1>2, <1>6, <1>8, <1>9, <1>10

\* The places of a printed byte: two digits and a space.
Printed(b, i, y) ==
  /\ digit(b[i]) \in 0..15 /\ digit(b[i + 1]) \in 0..15
  /\ digit(b[i]) * 16 + digit(b[i + 1]) = y
  /\ b[i + 2] = char.space

\* t is s and c behind it.
Longer(t, s, c, n) ==
  t \in Seq(Nat) /\ Len(t) = n + 1 /\ t[n + 1] = c /\ \A k \in 1..n : t[k] = s[k]

LEMMA LongerIs ==
  ASSUME NEW s \in Seq(Nat), NEW c \in Nat, NEW n \in Nat, n = Len(s), NEW t, t = Append(s, c)
  PROVE  Longer(t, s, c, n)
BY DEF Longer

LEMMA ApartIs ==
  ASSUME NEW data \in Seq(Byte), NEW n \in Nat, n = Len(data), NEW b, b = BytesApart(data)
  PROVE  /\ b \in Seq(Nat) /\ Len(b) = 3 * n
         /\ \A m \in 0..(n - 1) : Printed(b, 3 * m + 1, data[m + 1])
<1> DEFINE Chars(m) == Append(Hex(data[m + 1], 2), char.space)
<1>1. b = [i \in 1..(3 * n) |-> Chars((i - 1) \div 3)[((i - 1) % 3) + 1]]
  BY DEF BytesApart
<1>2. ASSUME NEW m \in 0..(n - 1)
      PROVE  /\ Chars(m) \in Seq(Nat) /\ Len(Chars(m)) = 3 /\ Chars(m)[3] = char.space
             /\ digit(Chars(m)[1]) \in 0..15 /\ digit(Chars(m)[2]) \in 0..15
             /\ digit(Chars(m)[1]) * 16 + digit(Chars(m)[2]) = data[m + 1]
  <2>1. m + 1 \in 1..n
    OBVIOUS
  <2>2. data[m + 1] \in Byte
    BY <2>1, ElementIs
  <2>3. PICK s : s = Hex(data[m + 1], 2)
    OBVIOUS
  <2>4. /\ s \in Seq(Nat) /\ Len(s) = 2 /\ digit(s[1]) \in 0..15 /\ digit(s[2]) \in 0..15
        /\ digit(s[1]) * 16 + digit(s[2]) = data[m + 1]
    BY <2>2, <2>3, HexByte
  <2>5. PICK c \in Nat : c = char.space
    BY DEF char
  <2>6. PICK t : t = Append(s, c)
    OBVIOUS
  <2>7. t \in Seq(Nat) /\ Len(t) = 3 /\ t[1] = s[1] /\ t[2] = s[2] /\ t[3] = c
    <3>1. 2 \in Nat /\ 2 = Len(s) /\ s \in Seq(Nat)
      BY <2>4
    <3>2. Longer(t, s, c, 2)
      BY <2>6, <3>1, LongerIs
    <3>3. 1 \in 1..2 /\ 2 \in 1..2 /\ 2 + 1 = 3
      OBVIOUS
    <3> QED
      BY <3>2, <3>3 DEF Longer
  <2>8. Chars(m) = t
    BY <2>3, <2>5, <2>6
  <2> HIDE DEF Chars
  <2> QED
    BY <2>4, <2>5, <2>7, <2>8
<1> HIDE DEF Chars
<1>3. ASSUME NEW i \in 1..(3 * n)
      PROVE  (i - 1) \div 3 \in 0..(n - 1) /\ ((i - 1) % 3) + 1 \in 1..3
  <2>1. PICK k \in Nat : k = i - 1 /\ k < 3 * n
    <3>1. i - 1 \in Nat /\ i - 1 < 3 * n
      OBVIOUS
    <3> QED
      BY <3>1
  <2>2. k \div 3 \in 0..(n - 1) /\ k % 3 \in 0..2
    BY <2>1
  <2> QED
    BY <2>1, <2>2
<1>4. ASSUME NEW i \in 1..(3 * n) PROVE Chars((i - 1) \div 3)[((i - 1) % 3) + 1] \in Nat
  <2>1. PICK m \in 0..(n - 1), r \in 1..3 : m = (i - 1) \div 3 /\ r = ((i - 1) % 3) + 1
    BY <1>3
  <2>2. Chars(m)[r] \in Nat
    BY <1>2, ElementIs
  <2> QED
    BY <2>1, <2>2
<1>5. 3 * n \in Nat
  OBVIOUS
<1>6. b \in Seq(Nat) /\ Len(b) = 3 * n
  <2>1. PICK l \in Nat : l = 3 * n
    BY <1>5
  <2>2. b \in [1..l -> Nat]
    BY <1>1, <1>4, <2>1
  <2>3. b \in Seq(Nat) /\ Len(b) = l
    BY <2>1, <2>2
  <2> QED
    BY <2>1, <2>3
<1>7. ASSUME NEW m \in 0..(n - 1), NEW r \in 1..3, NEW i, i = 3 * m + r
      PROVE  b[i] = Chars(m)[r]
  <2>1. i \in 1..(3 * n) /\ (i - 1) \div 3 = m /\ ((i - 1) % 3) + 1 = r
    BY <1>7
  <2> QED
    BY <1>1, <2>1
<1>8. ASSUME NEW m \in 0..(n - 1) PROVE Printed(b, 3 * m + 1, data[m + 1])
  <2>1. PICK i \in Nat : i = 3 * m + 1
    OBVIOUS
  <2>2. b[i] = Chars(m)[1] /\ b[i + 1] = Chars(m)[2] /\ b[i + 2] = Chars(m)[3]
    <3>1. i = 3 * m + 1 /\ i + 1 = 3 * m + 2 /\ i + 2 = 3 * m + 3
      BY <2>1
    <3>2. 1 \in 1..3 /\ 2 \in 1..3 /\ 3 \in 1..3
      OBVIOUS
    <3> QED
      BY <1>7, <3>1, <3>2
  <2>3. Printed(b, i, data[m + 1])
    BY <1>2, <2>2 DEF Printed
  <2> QED
    BY <2>1, <2>3
<1> QED
  BY <1>6, <1>8

\* A printed byte at place i, with what Bytes makes of the places in front of it; it makes
\* one byte of the list.
PrintedAt(b, h, i, y) ==
  /\ Byted(h, b, Len(b)) /\ 1 <= i /\ i + 2 <= Len(b)
  /\ Printed(b, i, y) /\ (i = 1 \/ digit(b[i - 1]) = 16)

LEMMA PrintedByte ==
  ASSUME NEW b \in Seq(Nat), NEW h, NEW i \in Nat, NEW y, PrintedAt(b, h, i, y)
  PROVE  h[i + 2] = Append(h[i - 1], y)
<1>0. /\ Byted(h, b, Len(b)) /\ 1 <= i /\ i + 2 <= Len(b)
      /\ Printed(b, i, y) /\ (i = 1 \/ digit(b[i - 1]) = 16)
  BY DEF PrintedAt
<1>1. PICK n \in Nat : n = Len(b)
  OBVIOUS
<1>2. i \in 1..n /\ i + 1 \in 1..n /\ i + 2 \in 1..n /\ i - 1 \in 0..n
      /\ (i + 1) - 1 = i /\ (i + 2) - 1 = i + 1
  BY <1>0, <1>1
<1>3. PICK d \in 0..15, e \in 0..15 : d = digit(b[i]) /\ e = digit(b[i + 1])
  BY <1>0 DEF Printed
<1>4. d * 16 + e = y /\ digit(b[i + 2]) = 16
  <2>1. digit(char.space) = 16
    BY DEF char, digit
  <2> QED
    BY <1>0, <1>3, <2>1 DEF Printed
<1>5. PICK s \in Seq(Nat) : s = h[i - 1]
  BY <1>0, <1>1, <1>2 DEF Byted
<1>6. h[i] = Append(s, d)
  <2>1. h[i] = ByteStep(b, i, s)
    BY <1>0, <1>1, <1>2, <1>5 DEF Byted
  <2>2. d # 16
    OBVIOUS
  <2>3. ~(i > 1 /\ digit(b[i - 1]) < 16)
    BY <1>0
  <2> QED
    BY <1>3, <2>1, <2>2, <2>3 DEF ByteStep
<1>7. h[i + 1] = More(h[i], e)
  <2>1. h[i + 1] = ByteStep(b, i + 1, h[i])
    BY <1>0, <1>1, <1>2 DEF Byted
  <2>2. e # 16 /\ d < 16 /\ i + 1 > 1
    BY <1>0
  <2> QED
    BY <1>2, <1>3, <2>1, <2>2 DEF ByteStep
<1>8. h[i + 2] = h[i + 1]
  <2>1. h[i + 2] = ByteStep(b, i + 2, h[i + 1])
    BY <1>0, <1>1, <1>2 DEF Byted
  <2> QED
    BY <1>4, <2>1 DEF ByteStep
<1>9. More(Append(s, d), e) = Append(s, d * 16 + e)
  <2>1. d \in Nat /\ e \in Nat
    OBVIOUS
  <2> QED
    BY <2>1, MoreAppend
<1> QED
  BY <1>4, <1>5, <1>6, <1>7, <1>8, <1>9

LEMMA PrintedBytes ==
  ASSUME NEW data \in Seq(Byte), NEW n \in Nat, n = Len(data), NEW b \in Seq(Nat), Len(b) = 3 * n,
         \A m \in 0..(n - 1) : Printed(b, 3 * m + 1, data[m + 1])
  PROVE  Bytes(b) = data
<1>1. PICK h : Byted(h, b, Len(b)) /\ Bytes(b) = h[Len(b)]
  BY BytesAre
<1> DEFINE P == {m \in 0..n : h[3 * m] = Upto(data, m)}
<1>2. 0 \in P
  <2>1. h[0] = <<>>
    BY <1>1 DEF Byted
  <2>2. Upto(data, 0) = <<>>
    BY DEF Upto
  <2>3. 3 * 0 = 0
    OBVIOUS
  <2> QED
    BY <2>1, <2>2, <2>3
<1>3. ASSUME NEW k \in 1..n, k - 1 \in P PROVE k \in P
  <2>1. PICK m \in 0..(n - 1) : m = k - 1 /\ k = m + 1
    OBVIOUS
  <2>2. PICK i \in Nat : i = 3 * m + 1 /\ 1 <= i /\ i + 2 <= 3 * n /\ i - 1 = 3 * m /\ i + 2 = 3 * k
    <3>1. /\ 3 * m + 1 \in Nat /\ 1 <= 3 * m + 1 /\ (3 * m + 1) + 2 <= 3 * n
          /\ (3 * m + 1) - 1 = 3 * m /\ (3 * m + 1) + 2 = 3 * k
      BY <2>1
    <3> QED
      BY <3>1
  <2>3. Printed(b, i, data[k])
    BY <2>1, <2>2
  <2>4. i = 1 \/ digit(b[i - 1]) = 16
    <3>1. CASE m = 0
      BY <2>2, <3>1
    <3>2. CASE m # 0
      <4>1. PICK l \in 0..(n - 1), j \in Nat : l = m - 1 /\ j = 3 * l + 1 /\ j + 2 = i - 1
        <5>1. m - 1 \in 0..(n - 1) /\ 3 * (m - 1) + 1 \in Nat /\ (3 * (m - 1) + 1) + 2 = i - 1
          BY <2>2, <3>2
        <5> QED
          BY <5>1
      <4>2. Printed(b, j, data[l + 1])
        BY <4>1
      <4>3. b[i - 1] = char.space
        BY <4>1, <4>2 DEF Printed
      <4>4. digit(char.space) = 16
        BY DEF char, digit
      <4> QED
        BY <4>3, <4>4
    <3> QED
      BY <3>1, <3>2
  <2>5. h[i + 2] = Append(h[i - 1], data[k])
    <3>1. i + 2 <= Len(b) /\ 1 <= i
      BY <2>2
    <3>2. PrintedAt(b, h, i, data[k])
      BY <1>1, <2>3, <2>4, <3>1, Zenon DEF PrintedAt
    <3> QED
      BY <3>2, PrintedByte
  <2>6. h[i - 1] = Upto(data, m)
    BY <1>3, <2>1, <2>2
  <2>7. Upto(data, k) = Append(Upto(data, m), data[k])
    <3>1. m \in Nat /\ m < Len(data)
      OBVIOUS
    <3> QED
      BY <2>1, <3>1, UptoMore
  <2>8. h[3 * k] = Upto(data, k)
    BY <2>2, <2>5, <2>6, <2>7, Zenon
  <2>9. k \in 0..n
    OBVIOUS
  <2> QED
    BY <2>8, <2>9, Zenon DEF P
<1> HIDE DEF P
<1>4. 0..n \subseteq P
  BY <1>2, <1>3, Induction
<1>5. h[3 * n] = Upto(data, n)
  <2>1. n \in P
    BY <1>4
  <2> QED
    BY <2>1, Zenon DEF P
<1>6. Upto(data, n) = data
  BY UptoAll
<1> QED
  BY <1>1, <1>5, <1>6

LEMMA ShownList ==
  ASSUME NEW data \in Seq(Byte), data # <<>>, ~prop_is_string(data), Len(data) # 4, Len(data) <= 16
  PROVE  Spells(dump_prop(data), data)
<1>1. PICK n \in Nat : n = Len(data)
  OBVIOUS
<1>2. Upto(data, IF Len(data) < 16 THEN Len(data) ELSE 16) = data
  <2>1. (IF Len(data) < 16 THEN Len(data) ELSE 16) = Len(data)
    BY <1>1
  <2>2. Upto(data, Len(data)) = data
    BY UptoAll
  <2> QED
    BY <2>1, <2>2, Zenon
<1>3. PICK b : b = BytesApart(data)
  OBVIOUS
<1>4. /\ b \in Seq(Nat) /\ Len(b) = 3 * n
      /\ \A m \in 0..(n - 1) : Printed(b, 3 * m + 1, data[m + 1])
  BY <1>1, <1>3, ApartIs
<1>5. Bytes(b) = data
  BY <1>1, <1>4, PrintedBytes
<1>6. ASSUME NEW i \in DOMAIN b
      PROVE  digit(b[i]) < 16 \/ b[i] \in {char.space, char.comma}
  <2>1. PICK l \in Nat : l = Len(b) /\ i \in 1..l
    BY <1>4
  <2>2. PICK k \in Nat : k = i - 1 /\ i = k + 1 /\ k < 3 * n
    <3>1. i - 1 \in Nat /\ i = (i - 1) + 1 /\ i - 1 < 3 * n
      BY <1>4, <2>1
    <3> QED
      BY <3>1
  <2>3. PICK m \in 0..(n - 1), r \in 0..2 : k = 3 * m + r
    <3>1. k \div 3 \in 0..(n - 1) /\ k % 3 \in 0..2 /\ k = 3 * (k \div 3) + (k % 3)
      BY <2>2
    <3> QED
      BY <3>1
  <2>4. PICK j \in Nat : j = 3 * m + 1 /\ i = j + r
    <3>1. 3 * m + 1 \in Nat /\ i = (3 * m + 1) + r
      BY <2>2, <2>3
    <3> QED
      BY <3>1
  <2>5. Printed(b, j, data[m + 1])
    <3>1. Printed(b, 3 * m + 1, data[m + 1])
      BY <1>4
    <3> QED
      BY <2>4, <3>1, Zenon
  <2>6. digit(b[j]) < 16 /\ digit(b[j + 1]) < 16 /\ b[j + 2] = char.space
    <3>1. PICK d \in 0..15, e \in 0..15 : d = digit(b[j]) /\ e = digit(b[j + 1])
      BY <2>5 DEF Printed
    <3>2. d < 16 /\ e < 16
      OBVIOUS
    <3> QED
      BY <2>5, <3>1, <3>2, Zenon DEF Printed
  <2>7. CASE r = 0
    <3>1. i = j
      BY <2>4, <2>7
    <3> QED
      BY <2>6, <3>1
  <2>8. CASE r = 1
    BY <2>4, <2>6, <2>8
  <2>9. CASE r = 2
    BY <2>4, <2>6, <2>9
  <2> QED
    BY <2>7, <2>8, <2>9
<1>7. Lists(b, data)
  <2>1. Len(data) <= MaxBytes
    BY TextAssumption
  <2> QED
    BY <1>5, <1>6, <2>1 DEF Lists
<1>8. PICK a \in Nat, c \in Nat : a = char.open /\ c = char.close
  BY DEF char
<1>9. PICK v : v = <<a>> \o b \o <<c>>
  OBVIOUS
<1>10. dump_prop(data) = v
  BY <1>2, <1>3, <1>8, <1>9, Zenon DEF dump_prop
<1>11. Framed(v, a, b, c, Len(b))
  BY <1>4, <1>9 DEF Framed
<1>12. Spells(v, data)
  BY <1>7, <1>8, <1>11, FrameSpells
<1> QED
  BY <1>10, <1>12

LEMMA ShownSpells ==
  ASSUME NEW data \in Seq(Byte), data # <<>>,
         prop_is_string(data) => \A i \in 1..(Len(data) - 1) : data[i] # NUL,
         ~prop_is_string(data) => Len(data) <= 16
  PROVE  Spells(dump_prop(data), data)
<1>1. CASE prop_is_string(data)
  BY <1>1, ShownString
<1>2. CASE ~prop_is_string(data) /\ Len(data) = 4
  BY <1>2, ShownWord
<1>3. CASE ~prop_is_string(data) /\ Len(data) # 4
  BY <1>3, ShownList
<1> QED
  BY <1>1, <1>2, <1>3

LEMMA ShownRead ==
  ASSUME NEW text \in Text, NEW means, IsShown(text, means)
  PROVE  IsDirective(text, means)
<1>1. /\ means.data \in Seq(Byte) /\ means.data # <<>>
      /\ prop_is_string(means.data) => \A i \in 1..(Len(means.data) - 1) : means.data[i] # NUL
      /\ ~prop_is_string(means.data) => Len(means.data) <= 16
  BY DEF IsShown
<1>2. Spells(dump_prop(means.data), means.data)
  BY <1>1, ShownSpells
<1>3. means = Sets(means.node, means.prop, means.data) /\ means.op = "set"
  <2>1. means = Sets(means.node, means.prop, means.data)
    BY DEF IsShown
  <2> QED
    BY <2>1 DEF Sets
<1>4. PICK i \in DOMAIN text, j \in DOMAIN text :
        Assigns(text, means.node, means.prop, i, j) /\ SubSeq(text, i, j) = dump_prop(means.data)
  BY DEF IsShown
<1>5. Spells(SubSeq(text, i, j), means.data)
  BY <1>2, <1>4, Zenon
<1> QED
  BY <1>3, <1>4, <1>5, Zenon DEF IsDirective

\* What dt-parse prints of a value that it prints in full is a directive that makes that
\* value again: dump_prop and prop_is_string (apple_dt.c:143-167) with
\* apply_directive (dt_apply.c:64-113).
THEOREM TextShownReadsBack == Spec => []ShownReadsBack
<1>1. TextInv => ShownReadsBack
  <2> SUFFICES ASSUME TextInv, ReadAs("shown"), Fits PROVE Only(line.means)
    BY DEF ShownReadsBack
  <2>1. line \in Lines /\ line.kind = "shown" /\ left = <<>> /\ Stage(line.text)
    BY DEF TextInv, ReadAs
  <2>2. line.text \in Text /\ IsDirective(line.text, line.means)
    BY <2>1, LineIs, ShownRead, TextAssumption
  <2>3. line.text # <<>> /\ Directive(line.text) = line.means
    BY <2>2, DirectiveRead
  <2>4. Only(Directive(line.text))
    BY <2>1, <2>2, <2>3, StageOnly
  <2> QED
    BY <2>3, <2>4
<1> QED
  BY <1>1, AlwaysRead, PTL
================================================================================
