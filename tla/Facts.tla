--------------------------------- MODULE Facts ---------------------------------
(***************************************************************************)
(* Facts about natural numbers and functions defined by recursion, stated  *)
(* of sets and functions: the library's theorems of this kind take         *)
(* operators as parameters. All follow from the well-foundedness of the    *)
(* strict subsets of a finite set.                                         *)
(***************************************************************************)
EXTENDS Integers, FiniteSetTheorems, TLAPS, Sequences

\* Every set of natural numbers that is not empty has a least element.
LEMMA Smallest ==
  ASSUME NEW S \in SUBSET Nat, S # {}
  PROVE  \E m \in S : \A k \in S : m <= k
<1> DEFINE Below == {0..n : n \in S}
<1>1. Below \subseteq FiniteSubsetsOf(Nat) /\ Below # {}
  <2>1. \A n \in S : 0..n \subseteq Nat /\ IsFiniteSet(0..n)
    BY FS_Interval
  <2> QED
    BY <2>1 DEF FiniteSubsetsOf
<1>2. PICK B \in Below : \A C \in Below : ~(<<C, B>> \in StrictSubsetOrdering(Nat))
  <2> HIDE DEF Below
  <2> QED
    BY <1>1, WFMin, FS_StrictSubsetOrderingWellFounded
<1>3. PICK m \in S : B = 0..m
  BY <1>2
<1>4. ASSUME NEW k \in S, ~(m <= k) PROVE FALSE
  <2>1. 0..k \in Below /\ 0..k \subseteq 0..m /\ 0..k # 0..m /\ 0..m \subseteq Nat
    BY <1>4
  <2>2. <<0..k, 0..m>> \in StrictSubsetOrdering(Nat)
    BY <2>1 DEF StrictSubsetOrdering
  <2> QED
    BY <1>2, <1>3, <2>1, <2>2
<1> QED
  BY <1>3, <1>4

\* Induction up to n: a set with 0 and with every successor of its elements has them all.
LEMMA Induction ==
  ASSUME NEW n \in Nat, NEW P, 0 \in P, \A i \in 1..n : i - 1 \in P => i \in P
  PROVE  0..n \subseteq P
<1> DEFINE Others == {i \in 0..n : i \notin P}
<1> SUFFICES ASSUME Others # {} PROVE FALSE
  OBVIOUS
<1>1. PICK m \in Others : \A k \in Others : m <= k
  <2>1. Others \in SUBSET Nat
    OBVIOUS
  <2> HIDE DEF Others
  <2> QED
    BY <2>1, Smallest
<1>2. m \in 1..n /\ m - 1 \in 0..n /\ ~(m <= m - 1)
  BY <1>1
<1> QED
  BY <1>1, <1>2

\* A function that starts with a and goes on with G exists.
LEMMA Iterates ==
  ASSUME NEW S, NEW a \in S, NEW n \in Nat, NEW G \in [1..n -> [S -> S]]
  PROVE  \E f \in [0..n -> S] : f[0] = a /\ \A i \in 1..n : f[i] = G[i][f[i - 1]]
<1> DEFINE then(i, x) == G[i][x]
           Upto(k, f) == f[0] = a /\ \A i \in 1..k : f[i] = then(i, f[i - 1])
           Reached == {k \in 0..n : \E f \in [0..k -> S] : Upto(k, f)}
<1>0. \A i \in 1..n, x \in S : then(i, x) \in S
  OBVIOUS
<1> HIDE DEF then
<1>1. 0 \in Reached
  <2> DEFINE g == [i \in 0..0 |-> a]
  <2>1. g \in [0..0 -> S] /\ g[0] = a /\ 1..0 = {}
    OBVIOUS
  <2> HIDE DEF g
  <2> QED
    BY <2>1
<1>2. ASSUME NEW k \in 1..n, k - 1 \in Reached PROVE k \in Reached
  <2>1. PICK f \in [0..(k - 1) -> S] : Upto(k - 1, f)
    BY <1>2
  <2> DEFINE g == [i \in 0..k |-> IF i = k THEN then(k, f[k - 1]) ELSE f[i]]
  <2>2. f[k - 1] \in S /\ then(k, f[k - 1]) \in S
    BY <1>0, <2>1
  <2>3. g \in [0..k -> S]
    BY <2>1, <2>2
  <2>4. /\ g[0] = f[0] /\ g[k] = then(k, f[k - 1]) /\ g[k - 1] = f[k - 1]
    OBVIOUS
  <2>5. ASSUME NEW i \in 1..(k - 1) PROVE g[i] = then(i, g[i - 1])
    <3>1. g[i] = f[i] /\ g[i - 1] = f[i - 1]
      OBVIOUS
    <3> HIDE DEF g
    <3> QED
      BY <2>1, <3>1
  <2> HIDE DEF g
  <2>6. Upto(k, g)
    BY <2>1, <2>4, <2>5
  <2> HIDE DEF Upto
  <2> QED
    BY <2>3, <2>6
<1>3. n \in Reached
  <2> HIDE DEF Reached
  <2>1. 0..n \subseteq Reached
    BY <1>1, <1>2, Induction
  <2> QED
    BY <2>1
<1> QED
  BY <1>3 DEF then

\* It is the only one, and all that has to be known of another to be it.
Iterated(g, n, S, a, G) ==
  g \in [0..n -> S] /\ g[0] = a /\ \A i \in 1..n : g[i] = G[i][g[i - 1]]
IteratesTo(f, n, S, a, G) ==
  f[0] = a /\ \A i \in 1..n : f[i - 1] \in S => f[i] = G[i][f[i - 1]]

LEMMA Recursion ==
  ASSUME NEW S, NEW a \in S, NEW n \in Nat, NEW G \in [1..n -> [S -> S]]
  PROVE  \E g : /\ Iterated(g, n, S, a, G)
                /\ \A f : IteratesTo(f, n, S, a, G) => \A i \in 0..n : f[i] = g[i]
<1>1. PICK g \in [0..n -> S] : g[0] = a /\ \A i \in 1..n : g[i] = G[i][g[i - 1]]
  BY Iterates
<1>2. ASSUME NEW f, IteratesTo(f, n, S, a, G)
      PROVE  \A i \in 0..n : f[i] = g[i]
  <2> DEFINE Same == {i \in 0..n : f[i] = g[i]}
  <2>1. 0 \in Same
    BY <1>1, <1>2 DEF IteratesTo
  <2>2. ASSUME NEW i \in 1..n, i - 1 \in Same PROVE i \in Same
    <3>1. i - 1 \in 0..n /\ f[i - 1] = g[i - 1] /\ g[i - 1] \in S
      BY <2>2
    <3>2. f[i] = G[i][f[i - 1]] /\ g[i] = G[i][g[i - 1]]
      BY <1>1, <1>2, <3>1 DEF IteratesTo
    <3> QED
      BY <3>1, <3>2
  <2> HIDE DEF Same
  <2>3. 0..n \subseteq Same
    BY <2>1, <2>2, Induction
  <2> QED
    BY <2>3 DEF Same
<1> QED
  BY <1>1, <1>2 DEF Iterated

\* The same of a function that is a where it stops, and elsewhere what G makes of its value
\* at a smaller number, below.
DescendsTo(f, N, D, a, stop, below, G) ==
  \A n \in 0..N : /\ n \in stop => f[n] = a
                  /\ n \notin stop /\ f[below[n]] \in D => f[n] = G[n][f[below[n]]]
Descended(g, N, D, a, stop, below, G) ==
  /\ g \in [0..N -> D] /\ DescendsTo(g, N, D, a, stop, below, G)
  /\ \A f : DescendsTo(f, N, D, a, stop, below, G) => \A n \in 0..N : f[n] = g[n]
GoesDown(N, stop, below) == \A n \in 0..N : n \notin stop => below[n] \in 0..(n - 1)

LEMMA Descent ==
  ASSUME NEW N \in Nat, NEW D, NEW a \in D, NEW stop, NEW below, GoesDown(N, stop, below),
         NEW G, \A n \in 0..N, x \in D : G[n][x] \in D
  PROVE  \E g : Descended(g, N, D, a, stop, below, G)
<1> DEFINE Reached == {k \in 0..N : \E f \in [0..k -> D] : DescendsTo(f, k, D, a, stop, below, G)}
<1>1. 0 \in Reached
  <2> DEFINE f == [i \in 0..0 |-> a]
  <2>1. 0 \in stop
    <3>1. 0 \in 0..N /\ 0..(0 - 1) = {}
      OBVIOUS
    <3> QED
      BY <3>1 DEF GoesDown
  <2>2. f \in [0..0 -> D] /\ f[0] = a /\ 0..0 = {0}
    OBVIOUS
  <2> HIDE DEF f
  <2>3. DescendsTo(f, 0, D, a, stop, below, G)
    BY <2>1, <2>2 DEF DescendsTo
  <2> QED
    BY <2>2, <2>3
<1>2. ASSUME NEW k \in 1..N, k - 1 \in Reached PROVE k \in Reached
  <2>1. PICK f \in [0..(k - 1) -> D] : DescendsTo(f, k - 1, D, a, stop, below, G)
    BY <1>2
  <2> DEFINE last == IF k \in stop THEN a ELSE G[k][f[below[k]]]
             h == [i \in 0..k |-> IF i = k THEN last ELSE f[i]]
  <2>2. last \in D
    <3>1. k \in 0..N /\ (k \notin stop => below[k] \in 0..(k - 1))
      BY DEF GoesDown
    <3> QED
      BY <3>1
  <2> HIDE DEF last
  <2>3. h \in [0..k -> D] /\ h[k] = last /\ \A i \in 0..(k - 1) : h[i] = f[i]
    BY <2>2
  <2> HIDE DEF h
  <2>4. ASSUME NEW n \in 0..k
        PROVE  /\ n \in stop => h[n] = a
               /\ n \notin stop => h[n] = G[n][h[below[n]]]
    <3>1. n \in 0..N /\ (n \notin stop => below[n] \in 0..(n - 1) /\ below[n] \in 0..(k - 1))
      BY DEF GoesDown
    <3>2. n \notin stop => h[below[n]] = f[below[n]] /\ f[below[n]] \in D
      BY <2>3, <3>1
    <3>3. CASE n = k
      BY <2>3, <3>2, <3>3 DEF last
    <3>4. CASE n # k
      <4>1. n \in 0..(k - 1)
        BY <3>4
      <4>2. (n \in stop => f[n] = a) /\ (n \notin stop => f[n] = G[n][f[below[n]]])
        BY <2>1, <3>2, <4>1 DEF DescendsTo
      <4> QED
        BY <2>3, <3>2, <4>1, <4>2
    <3> QED
      BY <3>3, <3>4
  <2>5. DescendsTo(h, k, D, a, stop, below, G)
    BY <2>4 DEF DescendsTo
  <2> QED
    BY <2>3, <2>5
<1>3. N \in Reached
  <2> HIDE DEF Reached
  <2>1. 0..N \subseteq Reached
    BY <1>1, <1>2, Induction
  <2> QED
    BY <2>1
<1>4. PICK g \in [0..N -> D] : DescendsTo(g, N, D, a, stop, below, G)
  BY <1>3
<1>5. ASSUME NEW f, DescendsTo(f, N, D, a, stop, below, G), NEW n \in 0..N, f[n] # g[n] PROVE FALSE
  <2> DEFINE Bad == {i \in 0..N : f[i] # g[i]}
  <2>1. PICK m \in Bad : \A k \in Bad : m <= k
    <3>1. Bad \in SUBSET Nat /\ Bad # {}
      BY <1>5
    <3> HIDE DEF Bad
    <3> QED
      BY <3>1, Smallest
  <2>2. m \in 0..N /\ f[m] # g[m]
    OBVIOUS
  <2>3. CASE m \in stop
    BY <1>4, <1>5, <2>2, <2>3 DEF DescendsTo
  <2>4. CASE m \notin stop
    <3>1. PICK b : b = below[m] /\ b \in 0..(m - 1)
      BY <2>2, <2>4 DEF GoesDown
    <3>2. b \in 0..N /\ b \notin Bad
      BY <2>1, <2>2, <3>1
    <3>3. f[b] = g[b] /\ g[b] \in D
      BY <3>2
    <3> QED
      BY <1>4, <1>5, <2>2, <2>4, <3>1, <3>3 DEF DescendsTo
  <2> QED
    BY <2>3, <2>4
<1> QED
  BY <1>4, <1>5 DEF Descended

-----------------------------------------------------------------------------
(***************************************************************************)
(* Functions defined by recursion on the subsets of a finite set S: a for  *)
(* the empty one, and G[x] of the rest for any other, x = p[t] being the   *)
(* element that is taken out. This is how the folds of the library go.     *)
(***************************************************************************)
Picks(p, S) == \A t \in SUBSET S : t # {} => p[t] \in t
Steps(g, S, D, a, p, G) ==
  /\ g \in [SUBSET S -> D]
  /\ g[{}] = a
  /\ \A t \in SUBSET S : t # {} => g[t] = G[p[t]][g[t \ {p[t]}]]
\* The same of an f of which only this is known.
Follows(f, S, D, a, p, G) ==
  /\ f[{}] = a
  /\ \A t \in SUBSET S : t # {} /\ f[t \ {p[t]}] \in D => f[t] = G[p[t]][f[t \ {p[t]}]]

\* Among the subsets of a finite set that are in Bad, one has no strict subset in Bad.
LEMMA SmallestSet ==
  ASSUME NEW S, IsFiniteSet(S), NEW Bad \in SUBSET (SUBSET S), Bad # {}
  PROVE  \E B \in Bad : \A C \in SUBSET B : C # B => C \notin Bad
<1>1. Bad \subseteq FiniteSubsetsOf(S)
  BY FS_Subset DEF FiniteSubsetsOf
<1>2. PICK B \in Bad : \A C \in Bad : ~(<<C, B>> \in StrictSubsetOrdering(S))
  BY <1>1, WFMin, FS_StrictSubsetOrderingWellFounded
<1>3. ASSUME NEW C \in SUBSET B, C # B, C \in Bad PROVE FALSE
  BY <1>2, <1>3 DEF StrictSubsetOrdering
<1> QED
  BY <1>3

\* What such a function is at a set depends on the elements of that set only.
LEMMA StepsAgree ==
  ASSUME NEW T, IsFiniteSet(T), NEW S \in SUBSET T, NEW D, NEW a, NEW p, NEW G, NEW H,
         Picks(p, S), NEW g, NEW h, Steps(g, T, D, a, p, G), Steps(h, S, D, a, p, H),
         \A x \in S : G[x] = H[x]
  PROVE  g[S] = h[S]
<1> DEFINE Bad == {t \in SUBSET S : g[t] # h[t]}
<1> SUFFICES ASSUME Bad # {} PROVE FALSE
  OBVIOUS
<1>1. IsFiniteSet(S)
  BY FS_Subset
<1>2. PICK B \in Bad : \A C \in SUBSET B : C # B => C \notin Bad
  <2>1. Bad \in SUBSET (SUBSET S)
    OBVIOUS
  <2> HIDE DEF Bad
  <2> QED
    BY <1>1, <2>1, SmallestSet
<1>3. B \in SUBSET S /\ B \in SUBSET T /\ B # {} /\ g[B] # h[B]
  BY DEF Steps
<1>4. p[B] \in B
  BY <1>3 DEF Picks
<1>5. g[B \ {p[B]}] = h[B \ {p[B]}]
  BY <1>2, <1>3, <1>4
<1>6. G[p[B]] = H[p[B]]
  BY <1>3, <1>4
<1> QED
  BY <1>3, <1>5, <1>6 DEF Steps

\* There is one.
LEMMA StepsExist ==
  ASSUME NEW S, IsFiniteSet(S), NEW D, NEW a \in D, NEW p, Picks(p, S),
         NEW G \in [S -> [D -> D]]
  PROVE  \E g : Steps(g, S, D, a, p, G)
<1> DEFINE Bad == {t \in SUBSET S : ~\E g : Steps(g, t, D, a, p, G)}
<1> SUFFICES ASSUME Bad # {} PROVE FALSE
  OBVIOUS
<1>1. PICK B \in Bad : \A C \in SUBSET B : C # B => C \notin Bad
  <2>1. Bad \in SUBSET (SUBSET S)
    OBVIOUS
  <2> HIDE DEF Bad
  <2> QED
    BY <2>1, SmallestSet
<1> DEFINE h(t) == CHOOSE g : Steps(g, t, D, a, p, G)
           F == [t \in SUBSET B |-> IF t = {} THEN a ELSE G[p[t]][h(t \ {p[t]})[t \ {p[t]}]]]
<1>2. \A t \in SUBSET B : t # B => Steps(h(t), t, D, a, p, G)
  BY <1>1
<1>3. B \in SUBSET S /\ \A t \in SUBSET B : IsFiniteSet(t) /\ Picks(p, t)
  BY <1>1, FS_Subset DEF Picks
<1> HIDE DEF h
<1>4. \A t \in SUBSET B : t # {} =>
        p[t] \in t /\ p[t] \in S /\ t \ {p[t]} \in SUBSET B /\ t \ {p[t]} # B
  BY <1>3 DEF Picks
<1>5. \A t \in SUBSET B : t # B => h(t)[t] \in D
  BY <1>2 DEF Steps
<1>6. F \in [SUBSET B -> D]
  <2>1. \A t \in SUBSET B : t # {} => G[p[t]][h(t \ {p[t]})[t \ {p[t]}]] \in D
    BY <1>4, <1>5
  <2> QED
    BY <2>1
\* A smaller set has the same value in F as on its own.
<1>7. ASSUME NEW u \in SUBSET B, u # B PROVE F[u] = h(u)[u]
  <2>1. CASE u = {}
    BY <1>2, <1>7, <2>1 DEF Steps
  <2>2. CASE u # {}
    <3> DEFINE y == u \ {p[u]}
    <3>1. y \in SUBSET u /\ y \in SUBSET B /\ y # B /\ IsFiniteSet(u) /\ Picks(p, y)
      BY <1>3, <1>4, <2>2
    <3>2. Steps(h(u), u, D, a, p, G) /\ Steps(h(y), y, D, a, p, G)
      BY <1>2, <1>7, <3>1
    <3>3. h(u)[y] = h(y)[y]
      BY <3>1, <3>2, StepsAgree
    <3>4. h(u)[u] = G[p[u]][h(u)[y]]
      BY <2>2, <3>2 DEF Steps
    <3>5. F[u] = G[p[u]][h(y)[y]]
      BY <2>2
    <3> QED
      BY <3>3, <3>4, <3>5
  <2> QED
    BY <2>1, <2>2
<1>8. ASSUME NEW t \in SUBSET B, t # {} PROVE F[t] = G[p[t]][F[t \ {p[t]}]]
  <2>1. F[t] = G[p[t]][h(t \ {p[t]})[t \ {p[t]}]]
    BY <1>8
  <2>2. F[t \ {p[t]}] = h(t \ {p[t]})[t \ {p[t]}]
    BY <1>4, <1>7, <1>8
  <2> QED
    BY <2>1, <2>2
<1>9. F[{}] = a
  OBVIOUS
<1> HIDE DEF F
<1>10. Steps(F, B, D, a, p, G)
  BY <1>6, <1>8, <1>9 DEF Steps
<1> QED
  BY <1>10

\* Whatever takes these steps is that function.
LEMMA StepsOnly ==
  ASSUME NEW S, IsFiniteSet(S), NEW D, NEW a, NEW p, Picks(p, S), NEW G,
         NEW g, Steps(g, S, D, a, p, G), NEW f, Follows(f, S, D, a, p, G)
  PROVE  \A t \in SUBSET S : f[t] = g[t]
<1> DEFINE Bad == {t \in SUBSET S : f[t] # g[t]}
<1> SUFFICES ASSUME Bad # {} PROVE FALSE
  OBVIOUS
<1>1. PICK B \in Bad : \A C \in SUBSET B : C # B => C \notin Bad
  <2>1. Bad \in SUBSET (SUBSET S)
    OBVIOUS
  <2> HIDE DEF Bad
  <2> QED
    BY <2>1, SmallestSet
<1>2. B \in SUBSET S /\ B # {} /\ f[B] # g[B]
  BY DEF Steps, Follows
<1>3. p[B] \in B /\ B \ {p[B]} \in SUBSET S
  BY <1>2 DEF Picks
<1>4. f[B \ {p[B]}] = g[B \ {p[B]}]
  BY <1>1, <1>3
<1>5. g[B \ {p[B]}] \in D
  BY <1>3 DEF Steps
<1> QED
  BY <1>2, <1>4, <1>5 DEF Steps, Follows

-----------------------------------------------------------------------------
(***************************************************************************)
(* Folding a sequence from its first element on: v is what the steps OP[e] *)
(* make of a.                                                              *)
(***************************************************************************)
Chain(g, OP, D, a, s) ==
  g \in [0..Len(s) -> D] /\ g[0] = a /\ \A i \in 1..Len(s) : g[i] = OP[s[i]][g[i - 1]]
Folded(OP, D, a, s, v) == \E g : Chain(g, OP, D, a, s) /\ v = g[Len(s)]

\* The library folds over the set of indices, and takes the greatest, p[t], out first.
FoldSteps(g, D, a, s, OP, p, n) ==
  /\ g \in [SUBSET (1..n) -> D]
  /\ g[{}] = a
  /\ \A t \in SUBSET (1..n) : t # {} => g[t] = OP[s[p[t]]][g[t \ {p[t]}]]
FoldFollows(f, D, a, s, OP, p, n) ==
  /\ f[{}] = a
  /\ \A t \in SUBSET (1..n) : t # {} /\ f[t \ {p[t]}] \in D
       => f[t] = OP[s[p[t]]][f[t \ {p[t]}]]

LEMMA FoldIs ==
  ASSUME NEW D, NEW a \in D, NEW E, NEW s \in Seq(E), NEW OP \in [E -> [D -> D]], NEW n \in Nat,
         n = Len(s), NEW p, \A t \in SUBSET (1..n) : t # {} => p[t] \in t /\ \A y \in t : y <= p[t]
  PROVE  \E g : /\ FoldSteps(g, D, a, s, OP, p, n)
                /\ \A f : FoldFollows(f, D, a, s, OP, p, n) => Folded(OP, D, a, s, f[1..n])
<1>1. IsFiniteSet(1..n) /\ Picks(p, 1..n)
  <2>1. IsFiniteSet(1..n)
    BY FS_Interval
  <2>2. Picks(p, 1..n)
    BY Zenon DEF Picks
  <2> QED
    BY <2>1, <2>2
<1>2. PICK G \in [1..n -> [D -> D]] : \A i \in 1..n : G[i] = OP[s[i]]
  <2> DEFINE G == [i \in 1..n |-> OP[s[i]]]
  <2>1. G \in [1..n -> [D -> D]] /\ \A i \in 1..n : G[i] = OP[s[i]]
    OBVIOUS
  <2> QED
    BY <2>1
<1>3. PICK g : Steps(g, 1..n, D, a, p, G)
  BY <1>1, <1>2, StepsExist
<1>4. \A t \in SUBSET (1..n) : t # {} => G[p[t]] = OP[s[p[t]]]
  BY <1>2
<1>5. ASSUME NEW f, FoldFollows(f, D, a, s, OP, p, n)
      PROVE  Folded(OP, D, a, s, f[1..n])
  <2>1. \A t \in SUBSET (1..n) : f[t] = g[t]
    <3>1. Follows(f, 1..n, D, a, p, G)
      BY <1>4, <1>5 DEF Follows, FoldFollows
    <3> DEFINE I == 1..n
    <3>2. IsFiniteSet(I) /\ Picks(p, I) /\ Steps(g, I, D, a, p, G) /\ Follows(f, I, D, a, p, G)
      BY <1>1, <1>3, <3>1
    <3> HIDE DEF I
    <3>3. \A t \in SUBSET I : f[t] = g[t]
      BY <3>2, StepsOnly
    <3> QED
      BY <3>3 DEF I
  <2> DEFINE h == [i \in 0..n |-> g[1..i]]
  <2>2. \A i \in 0..n : 1..i \in SUBSET (1..n)
    OBVIOUS
  <2>3. h \in [0..n -> D]
    BY <1>3, <2>2 DEF Steps
  <2>4. h[0] = a
    BY <1>3 DEF Steps
  <2>5. ASSUME NEW i \in 1..n PROVE h[i] = OP[s[i]][h[i - 1]]
    <3>1. 1..i \in SUBSET (1..n) /\ i \in 1..i /\ (1..i) \ {i} = 1..(i - 1) /\ i - 1 \in 0..n
      OBVIOUS
    <3>2. p[1..i] = i
      <4>1. 1..i # {} /\ p[1..i] \in 1..i /\ i <= p[1..i]
        BY <3>1
      <4> QED
        BY <4>1
    <3>3. g[1..i] = OP[s[i]][g[1..(i - 1)]]
      <4>1. 1..i # {}
        BY <3>1
      <4>2. g[1..i] = G[p[1..i]][g[(1..i) \ {p[1..i]}]]
        BY <1>3, <3>1, <4>1 DEF Steps
      <4> QED
        BY <1>2, <3>1, <3>2, <4>2
    <3> QED
      BY <3>1, <3>3
  <2>6. f[1..n] = h[n]
    BY <2>1
  <2> HIDE DEF h
  <2> QED
    BY <2>3, <2>4, <2>5, <2>6 DEF Folded, Chain
<1> QED
  <2>1. FoldSteps(g, D, a, s, OP, p, n)
    BY <1>3, <1>4 DEF Steps, FoldSteps
  <2> QED
    BY <1>5, <2>1

\* Two folds that begin with the same elements agree so far.
LEMMA ChainsAgree ==
  ASSUME NEW E, NEW s \in Seq(E), NEW t \in Seq(E), Len(s) <= Len(t),
         \A i \in 1..Len(s) : t[i] = s[i], NEW D, NEW OP, NEW a, NEW g, NEW h,
         Chain(g, OP, D, a, s), Chain(h, OP, D, a, t)
  PROVE  g[Len(s)] = h[Len(s)]
<1> DEFINE Same == {i \in 0..Len(s) : g[i] = h[i]}
<1>1. Len(s) \in Nat /\ Len(t) \in Nat
  OBVIOUS
<1>2. 0 \in Same
  BY <1>1 DEF Chain
<1>3. ASSUME NEW i \in 1..Len(s), i - 1 \in Same PROVE i \in Same
  <2>1. i \in 1..Len(t) /\ t[i] = s[i] /\ g[i - 1] = h[i - 1]
    BY <1>1, <1>3
  <2>2. g[i] = OP[s[i]][g[i - 1]] /\ h[i] = OP[t[i]][h[i - 1]]
    BY <2>1 DEF Chain
  <2> QED
    BY <1>1, <2>1, <2>2
<1> HIDE DEF Same
<1>4. 0..Len(s) \subseteq Same
  BY <1>1, <1>2, <1>3, Induction
<1> QED
  BY <1>1, <1>4 DEF Same

-----------------------------------------------------------------------------
(***************************************************************************)
(* Sums over finite sets, as MapThenSumSet of FiniteSetsExt takes them:    *)
(* element by element, in the order of CHOOSE.                             *)
(***************************************************************************)
Picked(t) == CHOOSE x \in t : TRUE
\* g[t] is the sum of the weights w of the elements of t, for every t \subseteq S.
SumsTo(g, S, w) ==
  /\ g \in [SUBSET S -> Int]
  /\ g[{}] = 0
  /\ \A t \in SUBSET S : t # {} => g[t] = w[Picked(t)] + g[t \ {Picked(t)}]
\* The same, as a recursive function is defined.
Solves(f, S, w) ==
  f = [t \in SUBSET S |-> IF t = {} THEN 0 ELSE w[Picked(t)] + f[t \ {Picked(t)}]]

LEMMA PickedIs == ASSUME NEW t, t # {} PROVE Picked(t) \in t
BY DEF Picked

Added(S, w) == [x \in S |-> [v \in Int |-> w[x] + v]]
PickedOf(S) == [t \in SUBSET S |-> Picked(t)]

LEMMA SumsAreSteps ==
  ASSUME NEW T, NEW S \in SUBSET T, NEW w \in [S -> Int], NEW g
  PROVE  Picks(PickedOf(T), S) /\ (SumsTo(g, S, w) <=> Steps(g, S, Int, 0, PickedOf(T), Added(S, w)))
<1>1. \A t \in SUBSET S : t # {} => PickedOf(T)[t] = Picked(t) /\ Picked(t) \in S /\ Picked(t) \in t
  BY PickedIs DEF PickedOf
<1>2. ASSUME g \in [SUBSET S -> Int], NEW t \in SUBSET S, t # {}
      PROVE  Added(S, w)[Picked(t)][g[t \ {Picked(t)}]] = w[Picked(t)] + g[t \ {Picked(t)}]
  BY <1>1, <1>2 DEF Added
<1> QED
  BY <1>1, <1>2 DEF Picks, SumsTo, Steps

\* The sum of a set does not depend on the set it is a subset of.
LEMMA SumsAgree ==
  ASSUME NEW T, IsFiniteSet(T), NEW S \in SUBSET T, NEW w \in [T -> Int], NEW v \in [S -> Int],
         NEW g, NEW h, SumsTo(g, T, w), SumsTo(h, S, v), \A x \in S : v[x] = w[x]
  PROVE  g[S] = h[S]
<1>1. T \in SUBSET T /\ \A x \in S : Added(T, w)[x] = Added(S, v)[x]
  BY DEF Added
<1>2. /\ Picks(PickedOf(T), S)
      /\ Steps(g, T, Int, 0, PickedOf(T), Added(T, w)) /\ Steps(h, S, Int, 0, PickedOf(T), Added(S, v))
  BY <1>1, SumsAreSteps
<1> QED
  BY <1>1, <1>2, StepsAgree

\* Every finite set with weights has its sums.
LEMMA SumsExist ==
  ASSUME NEW S, IsFiniteSet(S), NEW w \in [S -> Int]
  PROVE  \E g : SumsTo(g, S, w)
<1>1. S \in SUBSET S /\ Picks(PickedOf(S), S)
  BY SumsAreSteps
<1>2. \A x \in S, v \in Int : w[x] + v \in Int
  OBVIOUS
<1>3. Added(S, w) \in [S -> [Int -> Int]]
  BY <1>2 DEF Added
<1>4. 0 \in Int
  OBVIOUS
<1>5. PICK g : Steps(g, S, Int, 0, PickedOf(S), Added(S, w))
  BY <1>1, <1>3, <1>4, StepsExist
<1>6. SumsTo(g, S, w)
  BY <1>1, <1>5, SumsAreSteps
<1> QED
  BY <1>6

\* The recursive definition of the sums has a solution, and only one.
LEMMA SumsSolve ==
  ASSUME NEW S, IsFiniteSet(S), NEW w \in [S -> Int]
  PROVE  \E g : SumsTo(g, S, w) /\ Solves(g, S, w) /\ \A f : Solves(f, S, w) => f = g
<1>1. PICK g : SumsTo(g, S, w)
  BY SumsExist
<1>2. Solves(g, S, w)
  BY <1>1 DEF SumsTo, Solves
<1>3. ASSUME NEW f, Solves(f, S, w) PROVE f = g
  <2> DEFINE Bad == {t \in SUBSET S : f[t] # g[t]}
  <2>0. \A t \in SUBSET S : f[t] = IF t = {} THEN 0 ELSE w[Picked(t)] + f[t \ {Picked(t)}]
    BY <1>3 DEF Solves
  <2>1. Bad = {}
    <3> SUFFICES ASSUME Bad # {} PROVE FALSE
      OBVIOUS
    <3>1. PICK B \in Bad : \A C \in SUBSET B : C # B => C \notin Bad
      <4>1. Bad \in SUBSET (SUBSET S)
        OBVIOUS
      <4> HIDE DEF Bad
      <4> QED
        BY <4>1, SmallestSet
    <3>2. B \in SUBSET S /\ f[B] # g[B] /\ B # {}
      BY <1>1, <2>0 DEF SumsTo
    <3>3. Picked(B) \in B
      BY <3>2, PickedIs
    <3>4. f[B \ {Picked(B)}] = g[B \ {Picked(B)}]
      BY <3>1, <3>2, <3>3
    <3> QED
      BY <1>1, <2>0, <3>2, <3>4 DEF SumsTo
  <2>2. \A t \in SUBSET S : f[t] = g[t]
    BY <2>1
  <2> QED
    BY <1>1, <1>3, <2>2 DEF SumsTo, Solves
<1> QED
  BY <1>1, <1>2, <1>3

\* Any element may be taken first.
LEMMA SumsAny ==
  ASSUME NEW S, IsFiniteSet(S), NEW w \in [S -> Int], NEW g, SumsTo(g, S, w),
         NEW t \in SUBSET S, NEW p \in t
  PROVE  g[t] = w[p] + g[t \ {p}]
<1> DEFINE Bad == {u \in SUBSET S : \E q \in u : g[u] # w[q] + g[u \ {q}]}
<1> SUFFICES ASSUME Bad # {} PROVE FALSE
  OBVIOUS
<1>1. PICK B \in Bad : \A C \in SUBSET B : C # B => C \notin Bad
  <2>1. Bad \in SUBSET (SUBSET S)
    OBVIOUS
  <2> HIDE DEF Bad
  <2> QED
    BY <2>1, SmallestSet
<1>2. B \in SUBSET S
  OBVIOUS
<1>3. PICK q \in B : g[B] # w[q] + g[B \ {q}]
  OBVIOUS
<1>4. PICK x : x = Picked(B) /\ x \in B
  BY <1>3, PickedIs
<1>5. g[B] = w[x] + g[B \ {x}] /\ x # q
  BY <1>2, <1>3, <1>4 DEF SumsTo
<1>6. g[B \ {x}] = w[q] + g[(B \ {x}) \ {q}]
  BY <1>1, <1>2, <1>4, <1>5
<1>7. g[B \ {q}] = w[x] + g[(B \ {q}) \ {x}]
  BY <1>1, <1>2, <1>3, <1>4, <1>5
<1>8. (B \ {x}) \ {q} = (B \ {q}) \ {x}
  OBVIOUS
<1>9. w[x] \in Int /\ w[q] \in Int /\ g[(B \ {x}) \ {q}] \in Int
  BY <1>2, <1>4 DEF SumsTo
<1>10. g[B \ {q}] = w[x] + g[(B \ {x}) \ {q}]
  BY <1>7, <1>8
<1>11. g[B] = w[x] + (w[q] + g[(B \ {x}) \ {q}])
  BY <1>5, <1>6
<1>12. \A i, j, k \in Int : i + (j + k) = j + (i + k)
  OBVIOUS
<1>13. g[B] = w[q] + (w[x] + g[(B \ {x}) \ {q}])
  BY <1>9, <1>11, <1>12
<1> QED
  BY <1>3, <1>10, <1>13
=============================================================================
