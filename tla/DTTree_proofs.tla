---------------------------- MODULE DTTree_proofs ----------------------------
(***************************************************************************)
(* For every set of nodes, names, byte strings and heap addresses, and     *)
(* every parsed tree: the mutators and dt_free keep the tree well formed,  *)
(* free nothing twice, nothing that is not theirs, and leave nothing       *)
(* behind.                                                                 *)
(***************************************************************************)
EXTENDS DTTree, TLAPS, SequenceTheorems

\* None of the properties is inductive alone: which block a free() hits depends on
\* ownership, ownership on every struct being linked just once, and both on nothing
\* allocated being out of reach (an address malloc hands out is then nobody's).
WellFormed == LinkedOnce /\ OwnedOnce /\ OwnershipTold /\ LengthsMatch
Inv ==
  /\ TypeOK
  /\ NoFault
  /\ NoLeak
  /\ CountsMatch
  /\ alive => WellFormed

-----------------------------------------------------------------------------
\* What unlinking element i leaves of a list.
LEMMA WithoutIsSeq ==
  ASSUME NEW S, NEW s \in Seq(S), NEW i \in DOMAIN s
  PROVE  /\ Without(s, i) \in Seq(S)
         /\ Len(Without(s, i)) = Len(s) - 1
         /\ DOMAIN Without(s, i) = 1..(Len(s) - 1)
         /\ \A j \in 1..(Len(s) - 1) : Without(s, i)[j] = IF j < i THEN s[j] ELSE s[j + 1]
<1>1. Without(s, i) \in [1..(Len(s) - 1) -> S]
  BY DEF Without
<1>2. Len(s) - 1 \in Nat
  OBVIOUS
<1>3. Without(s, i) \in Seq(S)
  BY <1>1, <1>2
<1> QED
  BY <1>1, <1>2, <1>3 DEF Without

\* A struct is reachable exactly when some node's list holds it.
LEMMA ReachableDef ==
  \A p : p \in Reachable <=> \E n \in Node : \E i \in DOMAIN props[n] : props[n][i] = p
BY DEF Reachable

LEMMA ReachableDefNext ==
  \A p : p \in Reachable' <=> \E n \in Node : \E i \in DOMAIN props'[n] : props'[n][i] = p
BY DEF Reachable

LEMMA ReachableAreStructs == TypeOK => Reachable \subseteq Prop
BY ReachableDef DEF TypeOK, PropList

-----------------------------------------------------------------------------
LEMMA InitInv == Init => Inv
<1> SUFFICES ASSUME Init PROVE Inv
  OBVIOUS
<1>1. PICK t \in Parsed : Holds(t)
  BY DEF Init
<1>2. FreshTree(t)
  BY DTAssumption
<1>3. TypeOK
  <2>1. t.n_props \in [Node -> Int]
    BY <1>2 DEF FreshTree, PropList
  <2> QED BY <1>1, <1>2, <2>1 DEF TypeOK, Init, Holds, FreshTree, Calls
<1>4. alive /\ LinkedOnce /\ CountsMatch /\ NoFault
  BY <1>1, <1>2 DEF Init, Holds, FreshTree, LinkedOnce, CountsMatch, NoFault
<1>5. \A p \in Prop : prop[p] # JUNK <=> p \in Reachable
  BY <1>1, <1>2, ReachableDef DEF Holds, FreshTree
<1>6. \A p \in Reachable : /\ p \in Prop /\ prop[p] # JUNK
                           /\ prop[p].data \in Buf /\ ~prop[p].owns_data
                           /\ prop[p].length = Length[mem[prop[p].data]]
  BY <1>1, <1>2, <1>3, <1>5, ReachableAreStructs DEF Holds, FreshTree
<1>7. /\ \A b \in Buf : mem[b] # JUNK
      /\ \A b \in Block : mem[b] = JUNK
  BY <1>1, <1>2 DEF Holds, FreshTree
<1>8. OwnershipTold
  BY <1>6, <1>7 DEF OwnershipTold
<1>9. OwnedOnce
  BY <1>6 DEF OwnedOnce, Owned
<1>10. LengthsMatch
  BY <1>6, DTAssumption DEF LengthsMatch, Addr
<1>11. NoLeak
  BY <1>4, <1>5, <1>7 DEF NoLeak
<1> QED
  BY <1>3, <1>4, <1>8, <1>9, <1>10, <1>11 DEF Inv, WellFormed

-----------------------------------------------------------------------------
\* A call that returns -1 has changed nothing but ret.
LEMMA FailInv ==
  ASSUME Inv, Fail, UNCHANGED alive, call' \in Calls
  PROVE  Inv'
<1>1. TypeOK'
  BY DEF Inv, Fail, TypeOK
<1>2. Reachable' = Reachable
  BY DEF Reachable, Fail
<1>3. NoFault' /\ CountsMatch' /\ NoLeak'
  BY <1>2 DEF Inv, Fail, NoFault, CountsMatch, NoLeak, Owned
<1>4. ASSUME alive' PROVE WellFormed'
  BY <1>2, <1>4 DEF Inv, Fail, WellFormed, LinkedOnce, OwnedOnce, OwnershipTold,
                    LengthsMatch, Owned
<1> QED
  BY <1>1, <1>3, <1>4 DEF Inv

\* A struct that was taken and given back leaves no trace.
LEMMA GivenBackIsFail ==
  ASSUME Inv, NEW p \in Prop, NEW nm, prop[p] = JUNK,
         prop' = GivenBack(Named(p, nm), p), ret' = -1,
         UNCHANGED <<props, n_props, mem, fault>>
  PROVE  Fail
<1>1. prop' = prop
  BY DEF GivenBack, Named, Inv, TypeOK
<1> QED
  BY <1>1 DEF Fail

\* What the other lemmas need to know of a copy: it is nobody's, or there is none.
LEMMA CopyIsFresh ==
  ASSUME Inv, alive, NEW v \in Val, NEW b \in Copies(v)
  PROVE  /\ b \in Block \cup {NULL}
         /\ b \in Block => mem[b] = JUNK /\ \A q \in Reachable : b \notin Owned(q)
         /\ Length[v] \in Nat
         /\ b = NULL <=> Length[v] = 0
<1>1. /\ b \in Block \cup {NULL}
      /\ b \in Block => mem[b] = JUNK
      /\ b = NULL <=> Length[v] = 0
      /\ Length[v] \in Nat
  BY DTAssumption DEF Copies, Addr
<1>2. ASSUME b \in Block, NEW q \in Reachable, b \in Owned(q) PROVE FALSE
  BY <1>1, <1>2 DEF Inv, WellFormed, OwnershipTold, Owned
<1> QED
  BY <1>1, <1>2

\* What a struct of the tree gives back when it goes.
LEMMA OwnedIsAllocated ==
  ASSUME Inv, alive, NEW p \in Reachable
  PROVE  /\ p \in Prop /\ prop[p] \in PropStruct /\ prop[p] # JUNK
         /\ Owned(p) \subseteq Block
         /\ ~BadFree(Owned(p))
<1>1. p \in Prop /\ prop[p] \in PropStruct /\ prop[p] # JUNK
  BY ReachableAreStructs DEF Inv, TypeOK, WellFormed, OwnershipTold
<1>2. Owned(p) \subseteq Block /\ \A a \in Owned(p) : mem[a] # JUNK
  BY <1>1 DEF Inv, WellFormed, OwnershipTold, Owned, PropStruct
<1> QED
  BY <1>1, <1>2, DTAssumption DEF BadFree

\* dt_set_prop_data rewrites one struct and swaps one block for another.
LEMMA SetInv ==
  ASSUME Inv, alive, alive', call' \in Calls, NEW n \in Node, NEW nm \in Name, NEW v \in Val,
         dt_set_prop_data(n, nm, v)
  PROVE  Inv'
<1>1. CASE Fail
  BY <1>1, FailInv
<1>2. ASSUME NEW p \in Reachable, NEW b \in Copies(v),
             mem' = MemAfter(b, v, Owned(p)),
             fault' = (fault \/ BadFree(Owned(p))),
             prop' = [prop EXCEPT ![p] = Rewritten(p, v, b)],
             ret' = 0, UNCHANGED <<props, n_props>>
      PROVE  Inv'
  <2> DEFINE s == Rewritten(p, v, b)
  <2>2. /\ p \in Prop /\ prop[p] \in PropStruct /\ prop[p] # JUNK
        /\ Owned(p) \subseteq Block /\ ~BadFree(Owned(p))
    BY OwnedIsAllocated
  <2>3. /\ b \in Block \cup {NULL}
        /\ b \in Block => mem[b] = JUNK /\ \A q \in Reachable : b \notin Owned(q)
        /\ Length[v] \in Nat
        /\ b = NULL <=> Length[v] = 0
    BY CopyIsFresh
  <2>4. /\ s \in PropStruct /\ s # JUNK
        /\ s.data = b /\ s.owns_data /\ s.length = Length[v]
    BY <2>2, <2>3, DTAssumption DEF Rewritten, PropStruct, Addr
  <2>5. /\ prop'[p] = s
        /\ \A q \in Prop : q # p => prop'[q] = prop[q]
    BY <1>2, <2>2 DEF Inv, TypeOK
  <2>6. \A a \in Addr : mem'[a] = IF a \in Owned(p) THEN JUNK ELSE IF a = b THEN v ELSE mem[a]
    BY <1>2 DEF MemAfter
  <2>7. TypeOK'
    <3>1. prop' \in [Prop -> PropStruct \cup {JUNK}]
      BY <1>2, <2>2, <2>4 DEF Inv, TypeOK
    <3>2. mem' \in [Addr -> Val \cup {JUNK}]
      BY <1>2 DEF MemAfter, Inv, TypeOK
    <3>3. fault' = fault
      BY <1>2, <2>2 DEF Inv, TypeOK
    <3> QED BY <1>2, <3>1, <3>2, <3>3 DEF Inv, TypeOK
  <2>8. Reachable' = Reachable /\ Reachable \subseteq Prop
    BY <1>2, ReachableAreStructs DEF Reachable, Inv
  <2>9. /\ Owned(p)' = {b} \ {NULL}
        /\ \A q \in Reachable : q # p => Owned(q)' = Owned(q)
    BY <2>4, <2>5, <2>8 DEF Owned
  <2>10. NoFault' /\ CountsMatch'
    BY <1>2, <2>2 DEF Inv, NoFault, CountsMatch
  <2>11. LinkedOnce'
    BY <1>2 DEF Inv, WellFormed, LinkedOnce
  <2>12. OwnedOnce'
    BY <2>3, <2>8, <2>9 DEF Inv, WellFormed, OwnedOnce
  <2>13. NoLeak'
    <3>1. \A q \in Prop : prop'[q] # JUNK => q \in Reachable
      BY <2>5 DEF Inv, NoLeak
    <3>2. ASSUME NEW c \in Block, mem'[c] # JUNK
          PROVE  \E q \in Reachable : c \in Owned(q)'
      <4>1. c \in Addr /\ c # NULL /\ c \notin Owned(p)
        BY <2>6, <3>2, DTAssumption DEF Addr
      <4>2. CASE c = b
        BY <4>1, <4>2, <2>9
      <4>3. CASE c # b
        BY <4>1, <4>3, <2>6, <2>9, <3>2 DEF Inv, NoLeak
      <4> QED BY <4>2, <4>3
    <3> QED BY <2>8, <3>1, <3>2 DEF NoLeak
  \* No other struct's bytes were touched: what it owns is not p's, nor was it free.
  <2>14. ASSUME NEW q \in Reachable, q # p, prop[q].data # NULL
         PROVE  mem'[prop[q].data] = mem[prop[q].data]
    <3>1. prop[q].data \in Addr /\ prop[q].data # b /\ prop[q].data \notin Owned(p)
      BY <2>14, <2>2, <2>3, <2>8, DTAssumption
         DEF Inv, WellFormed, OwnedOnce, OwnershipTold, Owned, Addr
    <3> QED BY <3>1, <2>6
  <2>15. b # NULL => mem'[b] = v
    BY <2>2, <2>3, <2>6 DEF Addr
  <2>16. OwnershipTold'
    BY <2>3, <2>4, <2>5, <2>8, <2>14, <2>15, DTAssumption DEF Inv, WellFormed, OwnershipTold
  <2>17. LengthsMatch'
    BY <2>3, <2>4, <2>5, <2>8, <2>14, <2>15 DEF Inv, WellFormed, LengthsMatch
  <2> QED
    BY <2>7, <2>10, <2>11, <2>12, <2>13, <2>16, <2>17 DEF Inv, WellFormed
<1> QED
  BY <1>1, <1>2, ReachableDef DEF dt_set_prop_data

\* dt_add_prop links one struct nobody could reach, with a block nobody owned.
LEMMA AddInv ==
  ASSUME Inv, alive, alive', call' \in Calls, NEW n \in Node, NEW nm \in Name, NEW v \in Val,
         dt_add_prop(n, nm, v)
  PROVE  Inv'
<1>1. CASE Fail
  BY <1>1, FailInv
<1>2. ASSUME NEW p \in Prop, NEW b \in Copies(v), prop[p] = JUNK,
             prop' = [prop EXCEPT ![p] = NewProp(nm, v, b)],
             mem' = MemAfter(b, v, {}),
             props' = [props EXCEPT ![n] = Append(props[n], p)],
             n_props' = Count(n, 1), ret' = 0, UNCHANGED fault
      PROVE  Inv'
  <2> DEFINE s == NewProp(nm, v, b)
  <2>1. p \notin Reachable /\ Reachable \subseteq Prop
    BY <1>2, ReachableAreStructs DEF Inv, WellFormed, OwnershipTold
  <2>2. /\ b \in Block \cup {NULL}
        /\ b \in Block => mem[b] = JUNK /\ \A q \in Reachable : b \notin Owned(q)
        /\ Length[v] \in Nat
        /\ b = NULL <=> Length[v] = 0
    BY CopyIsFresh
  <2>3. /\ s \in PropStruct /\ s # JUNK
        /\ s.data = b /\ s.owns_data /\ s.length = Length[v]
    <3>1. Stored[nm] \in StoredName
      BY DTAssumption DEF StoredName
    <3>2. s \in PropStruct
      BY <2>2, <3>1 DEF NewProp, NameField, PropStruct, Addr
    <3> QED BY <3>2, DTAssumption DEF NewProp
  <2>4. /\ prop'[p] = s
        /\ \A q \in Prop : q # p => prop'[q] = prop[q]
    BY <1>2 DEF Inv, TypeOK
  <2>5. \A a \in Addr : mem'[a] = IF a = b THEN v ELSE mem[a]
    BY <1>2 DEF MemAfter
  <2>6. /\ props[n] \in Seq(Prop) /\ Len(props[n]) \in Nat
        /\ props'[n] = Append(props[n], p)
        /\ \A m \in Node : m # n => props'[m] = props[m]
    BY <1>2 DEF Inv, TypeOK, PropList
  <2>7. /\ props'[n] \in Seq(Prop)
        /\ Len(props'[n]) = Len(props[n]) + 1
        /\ DOMAIN props[n] = 1..Len(props[n])
        /\ DOMAIN props'[n] = 1..(Len(props[n]) + 1)
        /\ \A i \in DOMAIN props[n] : props'[n][i] = props[n][i]
        /\ props'[n][Len(props[n]) + 1] = p
    BY <2>6
  <2>8. TypeOK'
    <3>1. prop' \in [Prop -> PropStruct \cup {JUNK}]
      BY <1>2, <2>3 DEF Inv, TypeOK
    <3>2. mem' \in [Addr -> Val \cup {JUNK}]
      BY <1>2 DEF MemAfter, Inv, TypeOK
    <3>3. props' \in [Node -> PropList]
      BY <1>2, <2>6, <2>7 DEF Inv, TypeOK, PropList
    <3>4. n_props' \in [Node -> Int]
      BY <1>2 DEF Inv, TypeOK, Count
    <3> QED BY <1>2, <3>1, <3>2, <3>3, <3>4 DEF Inv, TypeOK
  <2>9. Reachable' = Reachable \cup {p}
    <3>1. ASSUME NEW q \in Reachable' PROVE q \in Reachable \cup {p}
      <4>1. PICK m \in Node : \E i \in DOMAIN props'[m] : props'[m][i] = q
        BY <3>1, ReachableDefNext
      <4> QED BY <4>1, <2>6, <2>7, ReachableDef
    <3>2. ASSUME NEW q \in Reachable PROVE q \in Reachable'
      <4>1. PICK m \in Node : \E i \in DOMAIN props[m] : props[m][i] = q
        BY ReachableDef
      <4> QED BY <4>1, <2>6, <2>7, ReachableDefNext
    <3>3. p \in Reachable'
      BY <2>6, <2>7, ReachableDefNext
    <3> QED BY <3>1, <3>2, <3>3
  <2>10. /\ Owned(p)' = {b} \ {NULL}
         /\ \A q \in Reachable : Owned(q)' = Owned(q)
    BY <2>1, <2>3, <2>4 DEF Owned
  <2>11. NoFault' /\ CountsMatch'
    BY <1>2, <2>6, <2>7 DEF Inv, NoFault, CountsMatch, Count, TypeOK
  <2>12. LinkedOnce'
    <3> SUFFICES ASSUME NEW m \in Node, NEW k \in Node,
                        NEW i \in DOMAIN props'[m], NEW j \in DOMAIN props'[k],
                        props'[m][i] = props'[k][j]
                 PROVE  m = k /\ i = j
      BY Zenon DEF LinkedOnce
    <3>1. (m = n /\ i = Len(props[n]) + 1) \/ (i \in DOMAIN props[m] /\ props'[m][i] = props[m][i])
      BY <2>6, <2>7
    <3>2. (k = n /\ j = Len(props[n]) + 1) \/ (j \in DOMAIN props[k] /\ props'[k][j] = props[k][j])
      BY <2>6, <2>7
    <3> QED BY <3>1, <3>2, <2>1, <2>7, ReachableDef DEF Inv, WellFormed, LinkedOnce
  <2>13. OwnedOnce'
    BY <2>1, <2>2, <2>9, <2>10 DEF Inv, WellFormed, OwnedOnce
  <2>14. NoLeak'
    <3>1. \A q \in Prop : prop'[q] # JUNK => q \in Reachable'
      BY <2>4, <2>9 DEF Inv, NoLeak
    <3>2. ASSUME NEW c \in Block, mem'[c] # JUNK
          PROVE  \E q \in Reachable' : c \in Owned(q)'
      <4>1. c \in Addr /\ c # NULL
        BY DTAssumption DEF Addr
      <4>2. CASE c = b
        BY <4>1, <4>2, <2>9, <2>10
      <4>3. CASE c # b
        BY <4>1, <4>3, <2>5, <2>9, <2>10, <3>2 DEF Inv, NoLeak
      <4> QED BY <4>2, <4>3
    <3> QED BY <3>1, <3>2 DEF NoLeak
  <2>15. ASSUME NEW q \in Reachable, prop[q].data # NULL
         PROVE  mem'[prop[q].data] = mem[prop[q].data]
    <3>1. prop[q].data \in Addr /\ prop[q].data # b
      BY <2>15, <2>2, DTAssumption DEF Inv, WellFormed, OwnershipTold, Owned, Addr
    <3> QED BY <3>1, <2>5
  <2>16. b # NULL => mem'[b] = v
    BY <2>2, <2>5 DEF Addr
  <2>17. OwnershipTold'
    BY <2>1, <2>2, <2>3, <2>4, <2>9, <2>15, <2>16, DTAssumption
       DEF Inv, WellFormed, OwnershipTold
  <2>18. LengthsMatch'
    BY <2>1, <2>2, <2>3, <2>4, <2>9, <2>15, <2>16 DEF Inv, WellFormed, LengthsMatch
  <2> QED
    BY <2>8, <2>11, <2>12, <2>13, <2>14, <2>17, <2>18 DEF Inv, WellFormed
<1>3. ASSUME NEW p \in Prop, prop[p] = JUNK, prop' = GivenBack(Named(p, nm), p),
             ret' = -1, UNCHANGED <<props, n_props, mem, fault>>
      PROVE  Inv'
  BY <1>3, GivenBackIsFail, <1>1
<1> QED
  BY <1>1, <1>2, <1>3 DEF dt_add_prop

\* dt_upsert_prop_data is one of the two.
LEMMA UpsertInv ==
  ASSUME Inv, alive, alive', call' \in Calls, NEW n \in Node, NEW nm \in Name, NEW v \in Val,
         dt_upsert_prop_data(n, nm, v)
  PROVE  Inv'
BY SetInv, AddInv DEF dt_upsert_prop_data

\* dt_delete_prop unlinks one struct and gives back what it owned.
LEMMA DeleteInv ==
  ASSUME Inv, alive, alive', call' \in Calls, NEW n \in Node, NEW nm \in Name, dt_delete_prop(n, nm)
  PROVE  Inv'
<1>1. CASE Fail
  BY <1>1, FailInv
<1>2. ASSUME NEW i \in DOMAIN props[n], NEW p, p = props[n][i],
             props' = [props EXCEPT ![n] = Without(props[n], i)],
             mem' = MemAfter(NULL, NoBytes, Owned(p)),
             fault' = (fault \/ BadFree(Owned(p))),
             prop' = [prop EXCEPT ![p] = JUNK],
             n_props' = Count(n, -1), ret' = 0
      PROVE  Inv'
  <2>1. p \in Reachable /\ Reachable \subseteq Prop
    BY <1>2, ReachableDef, ReachableAreStructs DEF Inv
  <2>2. /\ p \in Prop /\ prop[p] \in PropStruct /\ prop[p] # JUNK
        /\ Owned(p) \subseteq Block /\ ~BadFree(Owned(p))
    BY <2>1, OwnedIsAllocated
  <2>3. /\ prop'[p] = JUNK
        /\ \A q \in Prop : q # p => prop'[q] = prop[q]
    BY <1>2, <2>2 DEF Inv, TypeOK
  <2>4. \A a \in Addr : mem'[a] = IF a \in Owned(p) THEN JUNK ELSE mem[a]
    BY <1>2, DTAssumption DEF MemAfter
  <2>5. /\ props[n] \in Seq(Prop) /\ Len(props[n]) \in Nat
        /\ DOMAIN props[n] = 1..Len(props[n])
        /\ props'[n] = Without(props[n], i)
        /\ \A m \in Node : m # n => props'[m] = props[m]
    BY <1>2 DEF Inv, TypeOK, PropList
  <2>6. /\ props'[n] \in Seq(Prop)
        /\ Len(props'[n]) = Len(props[n]) - 1
        /\ DOMAIN props'[n] = 1..(Len(props[n]) - 1)
        /\ \A j \in DOMAIN props'[n] :
             props'[n][j] = IF j < i THEN props[n][j] ELSE props[n][j + 1]
    <3>1. i \in DOMAIN props[n]
      BY <1>2
    <3> QED BY <2>5, <3>1, WithoutIsSeq, ZenonT(40)
  <2>7. TypeOK'
    <3>1. prop' \in [Prop -> PropStruct \cup {JUNK}]
      BY <1>2 DEF Inv, TypeOK
    <3>2. mem' \in [Addr -> Val \cup {JUNK}]
      BY <1>2, DTAssumption DEF MemAfter, Inv, TypeOK
    <3>3. props' \in [Node -> PropList]
      BY <1>2, <2>5, <2>6 DEF Inv, TypeOK, PropList
    <3>4. n_props' \in [Node -> Int]
      BY <1>2 DEF Inv, TypeOK, Count
    <3>5. fault' = fault
      BY <1>2, <2>2 DEF Inv, TypeOK
    <3> QED BY <1>2, <3>1, <3>2, <3>3, <3>4, <3>5 DEF Inv, TypeOK
  \* An element of the new list is one of the old, at the same place or the next.
  <2>8. ASSUME NEW m \in Node, NEW j \in DOMAIN props'[m]
        PROVE  \E k \in DOMAIN props[m] :
                 /\ props'[m][j] = props[m][k]
                 /\ m = n => k # i /\ k = (IF j < i THEN j ELSE j + 1)
                 /\ m # n => k = j
    <3>1. CASE m # n
      BY <2>5, <3>1
    <3>2. CASE m = n
      <4> DEFINE k == IF j < i THEN j ELSE j + 1
      <4>1. k \in DOMAIN props[n] /\ k # i /\ props'[n][j] = props[n][k]
        BY <1>2, <2>5, <2>6, <3>2
      <4> QED BY <3>2, <4>1
    <3> QED BY <3>1, <3>2
  <2>9. LinkedOnce'
    <3> SUFFICES ASSUME NEW m \in Node, NEW k \in Node,
                        NEW j \in DOMAIN props'[m], NEW l \in DOMAIN props'[k],
                        props'[m][j] = props'[k][l]
                 PROVE  m = k /\ j = l
      BY Zenon DEF LinkedOnce
    <3>1. PICK x \in DOMAIN props[m] :
             /\ props'[m][j] = props[m][x]
             /\ m = n => x # i /\ x = (IF j < i THEN j ELSE j + 1)
             /\ m # n => x = j
      BY <2>8
    <3>2. PICK y \in DOMAIN props[k] :
             /\ props'[k][l] = props[k][y]
             /\ k = n => y # i /\ y = (IF l < i THEN l ELSE l + 1)
             /\ k # n => y = l
      BY <2>8
    <3>3. m = k /\ x = y
      <4>1. props[m][x] = props[k][y]
        BY <3>1, <3>2
      <4> QED BY <4>1 DEF Inv, WellFormed, LinkedOnce
    <3>4. m = n => j \in Int /\ l \in Int /\ i \in Int
      BY <1>2, <2>5, <2>6, <3>3
    <3> QED BY <3>1, <3>2, <3>3, <3>4
  <2>10. Reachable' = Reachable \ {p}
    <3>1. ASSUME NEW q \in Reachable' PROVE q \in Reachable \ {p}
      <4>1. PICK m \in Node : \E j \in DOMAIN props'[m] : props'[m][j] = q
        BY <3>1, ReachableDefNext
      <4>2. PICK k \in DOMAIN props[m] : props[m][k] = q /\ (m = n => k # i)
        BY <4>1, <2>8
      <4>3. props[m][k] # p
        BY <1>2, <4>2 DEF Inv, WellFormed, LinkedOnce
      <4> QED BY <4>2, <4>3, ReachableDef
    <3>2. ASSUME NEW q \in Reachable \ {p} PROVE q \in Reachable'
      <4>1. PICK m \in Node : \E k \in DOMAIN props[m] : props[m][k] = q
        BY <3>2, ReachableDef
      <4>2. CASE m # n
        BY <4>1, <4>2, <2>5, ReachableDefNext
      <4>3. CASE m = n
        <5>1. PICK k \in DOMAIN props[n] : props[n][k] = q
          BY <4>1, <4>3
        <5> DEFINE j == IF k < i THEN k ELSE k - 1
        <5>2. k # i
          BY <1>2, <3>2, <5>1
        <5>3. j \in DOMAIN props'[n] /\ props'[n][j] = q
          BY <1>2, <2>5, <2>6, <5>1, <5>2
        <5> QED BY <5>3, ReachableDefNext
      <4> QED BY <4>2, <4>3
    <3> QED BY <3>1, <3>2
  <2>11. \A q \in Reachable' : q \in Prop /\ prop'[q] = prop[q] /\ Owned(q)' = Owned(q)
    BY <2>1, <2>3, <2>10 DEF Owned
  <2>12. NoFault' /\ CountsMatch'
    BY <1>2, <2>2, <2>5, <2>6 DEF Inv, NoFault, CountsMatch, Count, TypeOK
  <2>13. OwnedOnce'
    BY <2>10, <2>11 DEF Inv, WellFormed, OwnedOnce
  <2>14. NoLeak'
    <3>1. \A q \in Prop : prop'[q] # JUNK => q \in Reachable'
      BY <2>3, <2>10 DEF Inv, NoLeak
    <3>2. \A c \in Block : mem'[c] # JUNK => \E q \in Reachable' : c \in Owned(q)'
      BY <2>4, <2>10, <2>11 DEF Inv, NoLeak, Addr
    <3> QED BY <3>1, <3>2 DEF NoLeak
  \* What p gave back was its own: the bytes of the others are where they were.
  <2>15. ASSUME NEW q \in Reachable', prop[q].data # NULL
         PROVE  mem'[prop[q].data] = mem[prop[q].data]
    <3>1. prop[q].data \in Addr /\ prop[q].data \notin Owned(p)
      BY <2>15, <2>1, <2>2, <2>10, DTAssumption
         DEF Inv, WellFormed, OwnedOnce, OwnershipTold, Owned, Addr
    <3> QED BY <3>1, <2>4
  <2>16. OwnershipTold'
    BY <2>10, <2>11, <2>15 DEF Inv, WellFormed, OwnershipTold
  <2>17. LengthsMatch'
    BY <2>10, <2>11, <2>15 DEF Inv, WellFormed, LengthsMatch
  <2> QED
    BY <2>7, <2>9, <2>12, <2>13, <2>14, <2>16, <2>17 DEF Inv, WellFormed
<1> QED
  BY <1>1, <1>2 DEF dt_delete_prop

\* dt_free gives back everything, once.
LEMMA FreeInv ==
  ASSUME Inv, alive, call' \in Calls, dt_free
  PROVE  Inv'
<1> DEFINE gone == UNION {Owned(p) : p \in Reachable}
<1>1. /\ Reachable \subseteq Prop
      /\ gone \subseteq Block /\ ~BadFree(gone)
      /\ \A p \in Reachable : prop[p] # JUNK
  BY OwnedIsAllocated DEF BadFree
<1>2. \A a \in Addr : mem'[a] = IF a \in gone THEN JUNK ELSE mem[a]
  BY DTAssumption DEF dt_free, MemAfter
<1>3. TypeOK'
  <2>1. mem' \in [Addr -> Val \cup {JUNK}]
    BY DTAssumption DEF dt_free, MemAfter, Inv, TypeOK
  <2>2. prop' \in [Prop -> PropStruct \cup {JUNK}]
    BY DEF dt_free, Inv, TypeOK
  <2>3. fault' \in BOOLEAN
    BY DEF dt_free
  <2> QED BY <2>1, <2>2, <2>3 DEF dt_free, Inv, TypeOK
<1>4. NoFault'
  BY <1>1 DEF dt_free, Inv, WellFormed, NoFault
<1>5. CountsMatch'
  BY DEF dt_free, Inv, CountsMatch
<1>6. NoLeak'
  BY <1>1, <1>2 DEF dt_free, Inv, NoLeak, Addr
<1> QED
  BY <1>3, <1>4, <1>5, <1>6 DEF dt_free, Inv

-----------------------------------------------------------------------------
LEMMA NextInv == Inv /\ [Next]_vars => Inv'
<1> SUFFICES ASSUME Inv, [Next]_vars PROVE Inv'
  OBVIOUS
<1>1. ASSUME alive, Mutate, UNCHANGED alive PROVE Inv'
  <2>1. CASE \E n \in Node, nm \in Name, v \in Val :
               \/ call' = <<"dt_set_prop_data", n, nm, v>> /\ dt_set_prop_data(n, nm, v)
               \/ call' = <<"dt_add_prop", n, nm, v>> /\ dt_add_prop(n, nm, v)
               \/ call' = <<"dt_upsert_prop_data", n, nm, v>> /\ dt_upsert_prop_data(n, nm, v)
    <3>1. call' \in Calls
      BY <2>1 DEF Calls
    <3> QED BY <1>1, <2>1, <3>1, SetInv, AddInv, UpsertInv
  <2>2. CASE \E n \in Node, nm \in Name :
               call' = <<"dt_delete_prop", n, nm>> /\ dt_delete_prop(n, nm)
    <3>1. call' \in Calls
      BY <2>2 DEF Calls
    <3> QED BY <1>1, <2>2, <3>1, DeleteInv
  <2> QED BY <1>1, <2>1, <2>2 DEF Mutate
<1>2. ASSUME alive, call' = <<"dt_free">>, dt_free PROVE Inv'
  BY <1>2, FreeInv DEF Calls
<1>3. CASE UNCHANGED vars
  <2>1. Reachable' = Reachable
    BY <1>3 DEF vars, Reachable
  <2> QED BY <1>3, <2>1 DEF vars, Inv, TypeOK, NoFault, NoLeak, CountsMatch, WellFormed,
                         LinkedOnce, OwnedOnce, OwnershipTold, LengthsMatch, Owned
<1> QED
  BY <1>1, <1>2, <1>3 DEF Next

LEMMA Invariance == Spec => []Inv
BY InitInv, NextInv, PTL DEF Spec

-----------------------------------------------------------------------------
\* dt_set_prop_data, dt_add_prop, dt_upsert_prop_data, dt_delete_prop and dt_free keep
\* every list, struct and block of its type (apple_dt.c:183-196, 272-360).
THEOREM TypesHold == Spec => []TypeOK
BY Invariance, PTL DEF Inv

\* While the tree lives, owns_data is right for every property, and no struct is
\* linked and no block owned twice, whatever was edited (apple_dt.c:288, 319, 352).
THEOREM MemoryIsSafe == Spec => []MemorySafe
<1>1. Inv => MemorySafe
  BY DEF Inv, WellFormed, MemorySafe
<1> QED BY <1>1, Invariance, PTL

\* No free() in this file is ever handed the input buffer, a block already freed or
\* a struct already freed (apple_dt.c:189-190, 284, 352-353).
THEOREM NeverFaults == Spec => []NoFault
BY Invariance, PTL DEF Inv

\* Nothing is lost on a failed allocation, a rewrite or a delete, and dt_free leaves
\* nothing on the heap (apple_dt.c:183-196, 284, 313, 352-353).
THEOREM NeverLeaks == Spec => []NoLeak
BY Invariance, PTL DEF Inv

\* The count written in a node's header is the number of properties written after it
\* (apple_dt.c:326-328, 354, 222-225).
THEOREM CountsAlwaysMatch == Spec => []CountsMatch
BY Invariance, PTL DEF Inv

\* No reader of length bytes at data reads past what is there (apple_dt.c:236-240).
THEOREM LengthsAlwaysMatch == Spec => []LengthsMatch
<1>1. Inv => LengthsMatch
  BY DEF Inv, WellFormed, LengthsMatch
<1> QED BY <1>1, Invariance, PTL

-----------------------------------------------------------------------------
(***************************************************************************)
(* The tree on the heap implements the store of entries apple_dt.h         *)
(* promises: a mutator edits exactly the entry it names, or returns -1     *)
(* with every entry as it was, whatever addresses it is given.             *)
(***************************************************************************)
\* The entry a reader sees for the struct at p.
EntryAt(p) == [name |-> prop[p].name, val |-> Bytes(p), flag |-> prop[p].flag]

\* One entry per linked struct, in list order.
ViewSound ==
  \A n \in Node :
    /\ View[n] \in Seq(Abs!Entry)
    /\ DOMAIN View[n] = DOMAIN props[n]
    /\ DOMAIN props[n] = 1..Len(props[n])
    /\ Len(View[n]) = Len(props[n])
    /\ Len(props[n]) \in Nat
    /\ \A i \in DOMAIN props[n] : View[n][i] = EntryAt(props[n][i])

LEMMA ViewIs == Inv /\ alive => ViewSound
<1> SUFFICES ASSUME Inv, alive, NEW n \in Node
             PROVE  /\ View[n] \in Seq(Abs!Entry)
                    /\ DOMAIN View[n] = DOMAIN props[n]
                    /\ DOMAIN props[n] = 1..Len(props[n])
                    /\ Len(View[n]) = Len(props[n])
                    /\ Len(props[n]) \in Nat
                    /\ \A i \in DOMAIN props[n] : View[n][i] = EntryAt(props[n][i])
  BY DEF ViewSound
<1>1. props[n] \in Seq(Prop) /\ Len(props[n]) \in Nat /\ DOMAIN props[n] = 1..Len(props[n])
  BY DEF Inv, TypeOK, PropList
<1>2. View[n] = [i \in 1..Len(props[n]) |-> EntryAt(props[n][i])]
  BY DEF View, EntryAt
<1>3. ASSUME NEW i \in 1..Len(props[n]) PROVE EntryAt(props[n][i]) \in Abs!Entry
  <2> DEFINE p == props[n][i]
  <2>1. p \in Reachable
    BY <1>1, ReachableDef
  <2>2. prop[p] \in PropStruct
    BY <2>1, OwnedIsAllocated
  <2>3. Bytes(p) \in Val
    BY <2>1, <2>2, DTAssumption DEF Inv, TypeOK, WellFormed, OwnershipTold, Bytes, PropStruct
  <2> QED BY <2>2, <2>3 DEF EntryAt, Abs!Entry, PropStruct, StoredName
<1>4. View[n] \in [1..Len(props[n]) -> Abs!Entry]
  BY <1>2, <1>3
<1>5. View[n] \in Seq(Abs!Entry)
  BY <1>1, <1>4
<1>6. DOMAIN View[n] = 1..Len(props[n]) /\ Len(View[n]) = Len(props[n])
  BY <1>1, <1>4, <1>5
<1> QED
  BY <1>1, <1>2, <1>5, <1>6

LEMMA ViewIsNext == Inv' /\ alive' => ViewSound'
BY ViewIs, PTL

\* Two lists of entries of the same length with the same entries are the same.
LEMMA SameEntries ==
  ASSUME NEW S, NEW s \in Seq(S), NEW t \in Seq(S), Len(s) = Len(t),
         \A i \in 1..Len(s) : s[i] = t[i]
  PROVE  s = t
BY SeqEqual

\* A node whose list and entries stay has the view it had.
LEMMA SameNode ==
  ASSUME Inv, alive, Inv', alive', NEW m \in Node, props'[m] = props[m],
         \A i \in DOMAIN props[m] : EntryAt(props[m][i])' = EntryAt(props[m][i])
  PROVE  View'[m] = View[m]
<1>1. /\ View[m] \in Seq(Abs!Entry) /\ View'[m] \in Seq(Abs!Entry)
      /\ Len(View[m]) = Len(View'[m])
      /\ \A i \in 1..Len(View[m]) : View[m][i] = View'[m][i]
  BY ViewIs, ViewIsNext DEF ViewSound
<1> QED
  BY <1>1, SameEntries

\* An edit of one node's entries is an edit of the whole view.
LEMMA OneNode ==
  ASSUME NEW n \in Node, NEW new, View'[n] = new,
         \A m \in Node \ {n} : View'[m] = View[m]
  PROVE  View' = [View EXCEPT ![n] = new]
<1>1. View' = [m \in Node |-> View'[m]] /\ View = [m \in Node |-> View[m]]
  BY DEF View
<1> QED
  BY <1>1

\* A call that changes no struct, list or byte changes no entry.
LEMMA FailRefines ==
  ASSUME Inv, alive, UNCHANGED alive, Fail
  PROVE  Abs!Refuse
<1>1. View' = View
  BY DEF Fail, View, Bytes
<1> QED
  BY <1>1 DEF Fail, Abs!Refuse

\* A name is found among the entries where it is found among the structs.
LEMMA SameHits ==
  ASSUME Inv, alive, NEW n \in Node, NEW nm \in Name
  PROVE  /\ Abs!Hit(n, nm) = Matches(n, nm)
         /\ \A i \in DOMAIN props[n] : IsFirst(n, nm, i) <=> Abs!IsFirst(n, nm, i)
<1>1. DOMAIN View[n] = DOMAIN props[n] /\ \A i \in DOMAIN props[n] : View[n][i] = EntryAt(props[n][i])
  BY ViewIs DEF ViewSound
<1>2. \A i \in DOMAIN props[n] : View[n][i].name = prop[props[n][i]].name
  <2>1. \A p : EntryAt(p).name = prop[p].name
    BY DEF EntryAt
  <2> QED BY <1>1, <2>1
<1>3. Abs!Hit(n, nm) = Matches(n, nm)
  BY <1>1, <1>2 DEF Abs!Hit, Matches
<1> QED
  BY <1>3 DEF IsFirst, Abs!IsFirst

\* dt_set_prop_data changes the bytes of one entry.
LEMMA SetRefines ==
  ASSUME Inv, alive, alive', Inv', NEW n \in Node, NEW nm \in Name, NEW v \in Val,
         dt_set_prop_data(n, nm, v)
  PROVE  Abs!AnswerSet(n, nm, v)
<1>1. CASE Fail /\ (Matches(n, nm) = {} \/ Length[v] # 0)
  BY <1>1, FailRefines, SameHits, DTAssumption DEF Abs!AnswerSet
<1>2. ASSUME NEW i \in DOMAIN props[n], NEW p, p = props[n][i], NEW b \in Copies(v),
             IsFirst(n, nm, i),
             mem' = MemAfter(b, v, Owned(p)),
             prop' = [prop EXCEPT ![p] = Rewritten(p, v, b)],
             ret' = 0, UNCHANGED <<props, n_props>>
      PROVE  Abs!Set(n, nm, v)
  <2>1. p \in Reachable
    BY <1>2, ReachableDef
  <2>2. /\ p \in Prop /\ prop[p] \in PropStruct
        /\ Owned(p) \subseteq Block
    BY <2>1, OwnedIsAllocated
  <2>3. /\ b \in Block \cup {NULL}
        /\ b \in Block => mem[b] = JUNK /\ \A q \in Reachable : b \notin Owned(q)
        /\ b = NULL <=> Length[v] = 0
    BY CopyIsFresh
  <2>4. EntryAt(p)' = [EntryAt(p) EXCEPT !.val = v]
    <3>1. /\ prop'[p].name = prop[p].name
          /\ prop'[p].flag = prop[p].flag
          /\ prop'[p].data = b
      BY <1>2, <2>2 DEF Inv, TypeOK, Rewritten, PropStruct
    <3>2. b # NULL => mem'[b] = v
      BY <1>2, <2>1, <2>2, <2>3 DEF MemAfter, Addr
    <3>3. Bytes(p)' = v
      BY <2>3, <3>1, <3>2, DTAssumption DEF Bytes
    <3> QED BY <3>1, <3>3 DEF EntryAt
  <2>5. ASSUME NEW q \in Reachable, q # p PROVE EntryAt(q)' = EntryAt(q)
    <3>1. q \in Prop /\ prop[q] \in PropStruct /\ prop'[q] = prop[q]
      BY <1>2, <2>5, OwnedIsAllocated DEF Inv, TypeOK
    <3>2. prop[q].data # NULL => mem'[prop[q].data] = mem[prop[q].data]
      BY <1>2, <2>1, <2>2, <2>3, <2>5, <3>1, DTAssumption
         DEF MemAfter, Inv, WellFormed, OwnedOnce, OwnershipTold, Owned, Addr
    <3> QED BY <3>1, <3>2 DEF EntryAt, Bytes
  <2>6. \A m \in Node : \A j \in DOMAIN props[m] :
          /\ props[m][j] \in Reachable
          /\ props[m][j] = p <=> m = n /\ j = i
    BY <1>2, ReachableDef DEF Inv, WellFormed, LinkedOnce
  <2> DEFINE new == [View[n] EXCEPT ![i] = [View[n][i] EXCEPT !.val = v]]
  <2>7. View'[n] = new
    <3>1. /\ View[n] \in Seq(Abs!Entry) /\ View'[n] \in Seq(Abs!Entry)
          /\ Len(View[n]) = Len(props[n]) /\ Len(View'[n]) = Len(props[n])
          /\ DOMAIN props[n] = 1..Len(props[n])
          /\ \A j \in DOMAIN props[n] : View[n][j] = EntryAt(props[n][j])
          /\ \A j \in DOMAIN props[n] : View'[n][j] = EntryAt(props[n][j])'
      BY <1>2, ViewIs, ViewIsNext DEF ViewSound
    <3>2. View[n][i] = EntryAt(p) /\ View'[n][i] = [View[n][i] EXCEPT !.val = v]
      BY <1>2, <2>4, <3>1
    <3>3. View'[n][i] \in Abs!Entry
      BY <1>2, <3>1
    <3>4. /\ new \in Seq(Abs!Entry) /\ Len(new) = Len(View[n])
          /\ \A j \in 1..Len(View[n]) :
               new[j] = IF j = i THEN [View[n][i] EXCEPT !.val = v] ELSE View[n][j]
      BY <1>2, <3>1, <3>2, <3>3, ExceptSeq
    <3>5. \A j \in 1..Len(View[n]) : View'[n][j] = new[j]
      BY <1>2, <2>5, <2>6, <3>1, <3>2, <3>4
    <3>6. Len(View'[n]) = Len(new) /\ \A j \in 1..Len(View'[n]) : View'[n][j] = new[j]
      BY <3>1, <3>4, <3>5
    <3> HIDE DEF new
    <3> QED BY <3>1, <3>4, <3>6, SameEntries
  <2>8. ASSUME NEW m \in Node \ {n} PROVE View'[m] = View[m]
    <3>1. \A j \in DOMAIN props[m] : EntryAt(props[m][j])' = EntryAt(props[m][j])
      BY <1>2, <2>5, <2>6
    <3> QED BY <1>2, <3>1, SameNode
  <2>9. View' = [View EXCEPT ![n] = new]
    BY <2>7, <2>8, OneNode
  <2>10. i \in DOMAIN View[n] /\ Abs!IsFirst(n, nm, i)
    BY <1>2, SameHits, ViewIs DEF ViewSound
  <2> QED
    BY <1>2, <2>9, <2>10 DEF Abs!Set
<1> QED
  BY <1>1, <1>2 DEF dt_set_prop_data, Abs!AnswerSet

\* dt_add_prop appends one entry, with the name the caller passed cut to the field.
LEMMA AddRefines ==
  ASSUME Inv, alive, alive', Inv', NEW n \in Node, NEW nm \in Name, NEW v \in Val,
         dt_add_prop(n, nm, v)
  PROVE  Abs!AnswerAdd(n, nm, v)
<1>1. CASE Fail
  BY <1>1, FailRefines DEF Abs!AnswerAdd
<1>2. ASSUME NEW p \in Prop, NEW b \in Copies(v), prop[p] = JUNK,
             prop' = [prop EXCEPT ![p] = NewProp(nm, v, b)],
             mem' = MemAfter(b, v, {}),
             props' = [props EXCEPT ![n] = Append(props[n], p)],
             ret' = 0
      PROVE  Abs!Add(n, nm, v)
  <2> DEFINE e == [name |-> Stored[nm], val |-> v, flag |-> FALSE]
             new == Append(View[n], e)
  <2>1. /\ b \in Block \cup {NULL}
        /\ b \in Block => mem[b] = JUNK /\ \A q \in Reachable : b \notin Owned(q)
        /\ b = NULL <=> Length[v] = 0
    BY CopyIsFresh
  <2>2. EntryAt(p)' = e
    <3>1. prop'[p].name = Stored[nm] /\ prop'[p].flag = FALSE /\ prop'[p].data = b
      BY <1>2 DEF Inv, TypeOK, NewProp, NameField
    <3>2. b # NULL => mem'[b] = v
      BY <1>2, <2>1 DEF MemAfter, Addr
    <3>3. Bytes(p)' = v
      BY <2>1, <3>1, <3>2, DTAssumption DEF Bytes
    <3> QED BY <3>1, <3>3 DEF EntryAt
  <2>3. ASSUME NEW q \in Reachable PROVE EntryAt(q)' = EntryAt(q)
    <3>1. q \in Prop /\ prop[q] \in PropStruct /\ prop'[q] = prop[q]
      BY <1>2, OwnedIsAllocated DEF Inv, TypeOK
    <3>2. prop[q].data # NULL => mem'[prop[q].data] = mem[prop[q].data]
      BY <1>2, <2>1, <3>1, DTAssumption
         DEF MemAfter, Inv, WellFormed, OwnershipTold, Owned, Addr
    <3> QED BY <3>1, <3>2 DEF EntryAt, Bytes
  <2>4. \A m \in Node : \A j \in DOMAIN props[m] : props[m][j] \in Reachable
    BY ReachableDef
  <2>5. /\ props[n] \in Seq(Prop) /\ Len(props[n]) \in Nat
        /\ DOMAIN props[n] = 1..Len(props[n])
        /\ props'[n] = Append(props[n], p)
        /\ \A m \in Node : m # n => props'[m] = props[m]
    BY <1>2 DEF Inv, TypeOK, PropList
  <2>6. /\ Len(props'[n]) = Len(props[n]) + 1
        /\ \A j \in 1..Len(props[n]) : props'[n][j] = props[n][j]
        /\ props'[n][Len(props[n]) + 1] = p
    BY <2>5
  <2>7. View'[n] = new
    <3>1. /\ View[n] \in Seq(Abs!Entry) /\ View'[n] \in Seq(Abs!Entry)
          /\ Len(View[n]) = Len(props[n]) /\ Len(View'[n]) = Len(props'[n])
          /\ DOMAIN props'[n] = 1..Len(props'[n])
          /\ \A j \in DOMAIN props[n] : View[n][j] = EntryAt(props[n][j])
          /\ \A j \in DOMAIN props'[n] : View'[n][j] = EntryAt(props[n][j])'
      BY ViewIs, ViewIsNext DEF ViewSound
    <3>2. View'[n][Len(props[n]) + 1] = e
      <4>1. \A j \in DOMAIN props'[n] : props'[n][j] = p => View'[n][j] = EntryAt(p)'
        BY <3>1
      <4>2. Len(props[n]) + 1 \in DOMAIN props'[n]
        BY <2>5, <2>6, <3>1
      <4> QED BY <2>2, <2>6, <4>1, <4>2
    <3>3. e \in Abs!Entry
      BY <2>5, <2>6, <3>1, <3>2
    <3>4. /\ new \in Seq(Abs!Entry) /\ Len(new) = Len(View[n]) + 1
          /\ \A j \in 1..Len(View[n]) : new[j] = View[n][j]
          /\ new[Len(View[n]) + 1] = e
      BY <3>1, <3>3
    <3>5. \A j \in 1..Len(View[n]) : View'[n][j] = View[n][j]
      BY <2>3, <2>4, <2>5, <2>6, <3>1
    <3>6. Len(View'[n]) = Len(new) /\ \A j \in 1..Len(View'[n]) : View'[n][j] = new[j]
      BY <2>5, <2>6, <3>1, <3>2, <3>4, <3>5
    <3> HIDE DEF new
    <3> QED BY <3>1, <3>4, <3>6, SameEntries
  <2>8. ASSUME NEW m \in Node \ {n} PROVE View'[m] = View[m]
    <3>1. \A j \in DOMAIN props[m] : EntryAt(props[m][j])' = EntryAt(props[m][j])
      BY <2>3, <2>4, <2>5
    <3> QED BY <2>5, <3>1, SameNode
  <2>9. View' = [View EXCEPT ![n] = new]
    BY <2>7, <2>8, OneNode
  <2> QED
    BY <1>2, <2>9 DEF Abs!Add
<1>3. ASSUME NEW p \in Prop, prop[p] = JUNK, prop' = GivenBack(Named(p, nm), p),
             ret' = -1, UNCHANGED <<props, n_props, mem, fault>>
      PROVE  Fail
  BY <1>3, GivenBackIsFail
<1> QED
  BY <1>1, <1>2, <1>3 DEF dt_add_prop, Abs!AnswerAdd

\* dt_upsert_prop_data edits when the store has the name and appends when it has not.
LEMMA UpsertRefines ==
  ASSUME Inv, alive, alive', Inv', NEW n \in Node, NEW nm \in Name, NEW v \in Val,
         dt_upsert_prop_data(n, nm, v)
  PROVE  Abs!AnswerUpsert(n, nm, v)
BY SetRefines, AddRefines, SameHits DEF dt_upsert_prop_data, Abs!AnswerUpsert

\* dt_delete_prop removes one entry and closes the gap.
LEMMA DeleteRefines ==
  ASSUME Inv, alive, alive', Inv', NEW n \in Node, NEW nm \in Name, dt_delete_prop(n, nm)
  PROVE  Abs!AnswerDelete(n, nm)
<1>1. CASE Fail /\ Matches(n, nm) = {}
  BY <1>1, FailRefines, SameHits DEF Abs!AnswerDelete
<1>2. ASSUME NEW i \in DOMAIN props[n], NEW p, p = props[n][i], IsFirst(n, nm, i),
             props' = [props EXCEPT ![n] = Without(props[n], i)],
             mem' = MemAfter(NULL, NoBytes, Owned(p)),
             prop' = [prop EXCEPT ![p] = JUNK],
             ret' = 0
      PROVE  Abs!Delete(n, nm)
  <2> DEFINE new == Abs!Without(View[n], i)
  <2>1. p \in Reachable
    BY <1>2, ReachableDef
  <2>2. Owned(p) \subseteq Block
    BY <2>1, OwnedIsAllocated
  <2>3. ASSUME NEW q \in Reachable, q # p PROVE EntryAt(q)' = EntryAt(q)
    <3>1. q \in Prop /\ prop[q] \in PropStruct /\ prop'[q] = prop[q]
      BY <1>2, <2>3, OwnedIsAllocated DEF Inv, TypeOK
    <3>2. prop[q].data # NULL => mem'[prop[q].data] = mem[prop[q].data]
      BY <1>2, <2>1, <2>2, <2>3, <3>1, DTAssumption
         DEF MemAfter, Inv, WellFormed, OwnedOnce, OwnershipTold, Owned, Addr
    <3> QED BY <3>1, <3>2 DEF EntryAt, Bytes
  <2>4. \A m \in Node : \A j \in DOMAIN props[m] :
          /\ props[m][j] \in Reachable
          /\ props[m][j] = p <=> m = n /\ j = i
    BY <1>2, ReachableDef DEF Inv, WellFormed, LinkedOnce
  <2>5. /\ props[n] \in Seq(Prop) /\ Len(props[n]) \in Nat
        /\ DOMAIN props[n] = 1..Len(props[n])
        /\ props'[n] = Without(props[n], i)
        /\ \A m \in Node : m # n => props'[m] = props[m]
    BY <1>2 DEF Inv, TypeOK, PropList
  <2>6. /\ i \in 1..Len(props[n])
        /\ Len(props'[n]) = Len(props[n]) - 1
        /\ \A j \in 1..(Len(props[n]) - 1) :
             props'[n][j] = IF j < i THEN props[n][j] ELSE props[n][j + 1]
    <3>1. i \in DOMAIN props[n]
      BY <1>2
    <3> QED BY <2>5, <3>1, WithoutIsSeq
  <2>7. View'[n] = new
    <3>1. /\ View[n] \in Seq(Abs!Entry) /\ View'[n] \in Seq(Abs!Entry)
          /\ Len(View[n]) = Len(props[n]) /\ Len(View'[n]) = Len(props'[n])
          /\ DOMAIN View[n] = 1..Len(props[n])
          /\ DOMAIN props'[n] = 1..Len(props'[n])
          /\ \A j \in DOMAIN props[n] : View[n][j] = EntryAt(props[n][j])
          /\ \A j \in DOMAIN props'[n] : View'[n][j] = EntryAt(props[n][j])'
      BY <2>5, ViewIs, ViewIsNext DEF ViewSound
    <3>2. /\ new \in Seq(Abs!Entry) /\ Len(new) = Len(View[n]) - 1
          /\ \A j \in 1..(Len(View[n]) - 1) :
               new[j] = IF j < i THEN View[n][j] ELSE View[n][j + 1]
      <4>1. Abs!Without(View[n], i) = Without(View[n], i)
        BY DEF Abs!Without, Without
      <4>2. i \in DOMAIN View[n]
        BY <2>6, <3>1
      <4> HIDE DEF new
      <4>3. new = Without(View[n], i)
        BY <4>1 DEF new
      <4> QED BY <3>1, <4>2, <4>3, WithoutIsSeq
    <3>3. ASSUME NEW j \in 1..Len(View'[n]) PROVE View'[n][j] = new[j]
      <4> DEFINE k == IF j < i THEN j ELSE j + 1
      <4>1. /\ k \in DOMAIN props[n] /\ k # i
            /\ props'[n][j] = props[n][k] /\ new[j] = View[n][k]
        BY <2>5, <2>6, <3>1, <3>2
      <4> HIDE DEF k, new
      <4>2. PICK q \in Reachable : q = props[n][k] /\ q # p
        BY <2>4, <4>1
      <4>3. View'[n][j] = EntryAt(q)'
        BY <2>5, <3>1, <4>1, <4>2
      <4> QED BY <2>3, <3>1, <4>1, <4>2, <4>3
    <3>4. Len(View'[n]) = Len(new)
      BY <2>6, <3>1, <3>2
    <3> HIDE DEF new
    <3> QED BY <3>1, <3>2, <3>3, <3>4, SameEntries
  <2>8. ASSUME NEW m \in Node \ {n} PROVE View'[m] = View[m]
    <3>1. \A j \in DOMAIN props[m] : EntryAt(props[m][j])' = EntryAt(props[m][j])
      BY <2>3, <2>4, <2>5
    <3> QED BY <2>5, <3>1, SameNode
  <2>9. View' = [View EXCEPT ![n] = new]
    BY <2>7, <2>8, OneNode
  <2>10. i \in DOMAIN View[n] /\ Abs!IsFirst(n, nm, i)
    BY <1>2, SameHits, ViewIs DEF ViewSound
  <2> QED
    BY <1>2, <2>9, <2>10 DEF Abs!Delete
<1> QED
  BY <1>1, <1>2 DEF dt_delete_prop, Abs!AnswerDelete

\* After dt_free there is nothing to read.
LEMMA FreeRefines == ASSUME dt_free PROVE Abs!Release
<1>1. View' = [n \in Node |-> <<>>]
  <2>1. ~alive'
    BY DEF dt_free
  <2>2. View' = [n \in Node |-> [i \in 1..0 |-> EntryAt(props[n][i])']]
    BY <2>1 DEF View, EntryAt
  <2>3. \A n \in Node : [i \in 1..0 |-> EntryAt(props[n][i])'] = <<>>
    OBVIOUS
  <2> QED BY <2>2, <2>3
<1> QED
  BY <1>1 DEF dt_free, Abs!Release

LEMMA InitRefines == Init => Abs!Init
<1> SUFFICES ASSUME Init PROVE Abs!Init
  OBVIOUS
<1>1. Inv /\ alive
  BY InitInv DEF Init
<1>2. View = [n \in Node |-> View[n]]
  BY DEF View
<1>3. View \in [Node -> Seq(Abs!Entry)]
  BY <1>1, <1>2, ViewIs DEF ViewSound
<1> QED
  BY <1>3 DEF Init, Abs!Init

LEMMA NextRefines == Inv /\ Inv' /\ [Next]_vars => [Abs!Next]_(Abs!vars)
<1> SUFFICES ASSUME Inv, Inv', [Next]_vars PROVE [Abs!Next]_(Abs!vars)
  OBVIOUS
<1>1. ASSUME alive, Mutate, UNCHANGED alive PROVE Abs!Next
  <2>1. ASSUME NEW n \in Node, NEW nm \in Name, NEW v \in Val,
               call' = <<"dt_set_prop_data", n, nm, v>>, dt_set_prop_data(n, nm, v)
        PROVE  Abs!Answer
    BY <1>1, <2>1, SetRefines DEF Abs!Answer
  <2>2. ASSUME NEW n \in Node, NEW nm \in Name, NEW v \in Val,
               call' = <<"dt_add_prop", n, nm, v>>, dt_add_prop(n, nm, v)
        PROVE  Abs!Answer
    BY <1>1, <2>2, AddRefines DEF Abs!Answer
  <2>3. ASSUME NEW n \in Node, NEW nm \in Name, NEW v \in Val,
               call' = <<"dt_upsert_prop_data", n, nm, v>>, dt_upsert_prop_data(n, nm, v)
        PROVE  Abs!Answer
    BY <1>1, <2>3, UpsertRefines DEF Abs!Answer
  <2>4. ASSUME NEW n \in Node, NEW nm \in Name,
               call' = <<"dt_delete_prop", n, nm>>, dt_delete_prop(n, nm)
        PROVE  Abs!Answer
    BY <1>1, <2>4, DeleteRefines DEF Abs!Answer
  <2>5. Abs!Answer
    BY <1>1, <2>1, <2>2, <2>3, <2>4 DEF Mutate
  <2> QED BY <1>1, <2>5 DEF Abs!Next
<1>2. ASSUME alive, call' = <<"dt_free">>, dt_free PROVE Abs!Next
  BY <1>2, FreeRefines DEF Abs!Next
<1>3. ASSUME UNCHANGED vars PROVE UNCHANGED Abs!vars
  BY <1>3 DEF vars, Abs!vars, View, Bytes
<1> QED
  BY <1>1, <1>2, <1>3 DEF Next

\* The mutators and dt_free, on the heap with every malloc that may fail, implement the
\* store apple_dt.h:74-102 promises (apple_dt.c:108-114, 183-196, 272-360).
THEOREM Refinement == Spec => RefinesPropStore
BY Invariance, InitRefines, NextRefines, PTL DEF Spec, RefinesPropStore, Abs!Spec
=============================================================================
