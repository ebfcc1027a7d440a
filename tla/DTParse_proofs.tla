---------------------------- MODULE DTParse_proofs ----------------------------
(***************************************************************************)
(* For every buffer, every limit and every allocation that may fail: the   *)
(* parser stays inside the buffer, no property points past its end, and a  *)
(* tree is returned only when its counts are those of its lists.           *)
(***************************************************************************)
EXTENDS DTParse, SequenceTheorems, Facts

\* While no error is set, a node is either being filled by one frame, which knows what
\* is still to come, or complete. Once err is set no tree is returned any more.
OnFrame(a) == \E i \in DOMAIN frames : frames[i].node = a
FrameTold ==
  \A i \in DOMAIN frames :
    LET f == frames[i]
        n == node[f.node] IN
    /\ n # JUNK
    /\ n.n_props = Len(n.props) + f.props
    /\ n.n_children = Len(n.children) + f.children + (IF i = Len(frames) THEN 0 ELSE 1)
    /\ \A j \in DOMAIN frames : frames[j].node = f.node => i = j
Complete(a) ==
  /\ node[a].n_props = Len(node[a].props)
  /\ node[a].n_children = Len(node[a].children)
CountInv ==
  ~err => /\ FrameTold
          /\ \A a \in InUse : OnFrame(a) \/ Complete(a)
ResultInv == result \in Node => ~err /\ frames = <<>>

Inv == TypeOK /\ DataInBuffer /\ CountInv /\ ResultInv

-----------------------------------------------------------------------------
\* What is known of the innermost frame.
LEMMA TopIsFrame ==
  ASSUME TypeOK, frames # <<>>
  PROVE  /\ Len(frames) \in Nat \ {0}
         /\ DOMAIN frames = 1..Len(frames)
         /\ Top \in Frame
         /\ Caller \in Seq(Frame)
         /\ Len(Caller) = Len(frames) - 1
         /\ DOMAIN Caller = 1..(Len(frames) - 1)
         /\ \A i \in 1..(Len(frames) - 1) : Caller[i] = frames[i]
<1>1. frames \in Seq(Frame) /\ Len(frames) \in Nat \ {0} /\ DOMAIN frames = 1..Len(frames)
  BY DEF TypeOK
<1>2. Top \in Frame
  BY <1>1 DEF Top
<1>3. \A i \in 1..(Len(frames) - 1) : frames[i] \in Frame
  BY <1>1
<1>4. /\ Caller \in Seq(Frame)
      /\ Len(Caller) = Len(frames) - 1
      /\ \A i \in 1..(Len(frames) - 1) : Caller[i] = frames[i]
  BY <1>1, <1>3, SubSeqProperties DEF Caller
<1> QED
  BY <1>1, <1>2, <1>4

\* Changing the innermost frame changes no other.
LEMMA AdvancedIs ==
  ASSUME TypeOK, frames # <<>>, NEW f \in Frame
  PROVE  /\ Advanced(f) \in Seq(Frame)
         /\ Len(Advanced(f)) = Len(frames)
         /\ \A i \in 1..Len(frames) :
              Advanced(f)[i] = IF i = Len(frames) THEN f ELSE frames[i]
<1>1. frames \in Seq(Frame) /\ Len(frames) \in 1..Len(frames)
  BY TopIsFrame DEF TypeOK
<1> QED
  BY <1>1, ExceptSeq DEF Advanced

LEMMA AlignIs ==
  ASSUME NEW n \in Nat PROVE Align(n) \in Nat /\ n <= Align(n) /\ Align(n) <= n + 3
BY DEF Align

LEMMA InitInv == Init => Inv
<1> SUFFICES ASSUME Init PROVE Inv
  OBVIOUS
<1>1. size \in Nat /\ size \in Size
  BY ParseAssumption DEF Init
<1>2. frames \in Seq(Frame) /\ frames = <<>>
  BY DEF Init
<1>3. TypeOK
  <2>1. off \in 0..size
    BY <1>1 DEF Init
  <2>2. node \in [Node -> NodeStruct \cup {JUNK}]
    BY DEF Init
  <2>3. prop \in [Prop -> PropStruct \cup {JUNK}]
    BY DEF Init
  <2>4. err \in BOOLEAN /\ result \in Node \cup {NULL, "parsing"}
    BY DEF Init
  <2> QED BY <1>1, <1>2, <2>1, <2>2, <2>3, <2>4 DEF TypeOK
<1>4. DataInBuffer /\ CountInv /\ ResultInv
  BY <1>2, ParseAssumption
     DEF Init, DataInBuffer, PropsInUse, CountInv, FrameTold, InUse, ResultInv
<1> QED
  BY <1>3, <1>4 DEF Inv

\* A step that changes only the frames, off and err after which err is set.
LEMMA TooShortInv == ASSUME Inv, TooShort PROVE Inv'
BY ParseAssumption DEF Inv, TooShort, heap, TypeOK, DataInBuffer, PropsInUse, CountInv, FrameTold,
       InUse, OnFrame, Complete, ResultInv

LEMMA FailedInv ==
  ASSUME Inv, err', result = "parsing", UNCHANGED <<size, frames, heap, result>>, off' \in 0..size
  PROVE  Inv'
BY ParseAssumption DEF Inv, heap, TypeOK, DataInBuffer, PropsInUse, CountInv, ResultInv

LEMMA NodeInv == ASSUME Inv, parse_node PROVE Inv'
<1>1. CASE err' /\ UNCHANGED <<frames, node>> /\ (off' = off \/ (Fits(off, HeaderSize) /\ off' = off + HeaderSize))
  <2>1. size \in Nat /\ off \in 0..size
    BY ParseAssumption DEF Inv, TypeOK
  <2>2. off' \in 0..size
    BY <1>1, <2>1 DEF Fits, HeaderSize
  <2> QED BY <1>1, <2>2, FailedInv DEF parse_node, Called, heap
<1>2. ASSUME NEW np \in Count, NEW nc \in Count, NEW a \in Node, node[a] = JUNK,
             Fits(off, HeaderSize), off' = off + HeaderSize,
             node' = [node EXCEPT ![a] = [n_props |-> np, n_children |-> nc,
                                          props |-> <<>>, children |-> <<>>]],
             frames' = Entered(a, np, nc), UNCHANGED err
      PROVE  Inv'
  <2> DEFINE f == [node |-> a, props |-> np, children |-> nc]
             t == [Top EXCEPT !.children = @ - 1]
             old == IF frames = <<>> THEN <<>> ELSE Advanced(t)
             new == [n_props |-> np, n_children |-> nc, props |-> <<>>, children |-> <<>>]
  <2>1. /\ ~err
        /\ frames # <<>> => Top.props = 0 /\ Top.children > 0
        /\ UNCHANGED <<size, prop, result>>
    BY DEF parse_node, Called
  <2>2. size \in Nat /\ off \in Nat /\ off' \in 0..size
    BY <1>2, ParseAssumption DEF Inv, TypeOK, Fits, HeaderSize
  <2>3. f \in Frame /\ new \in NodeStruct /\ new # JUNK
    <3>1. np \in Nat /\ nc \in Nat
      BY ParseAssumption
    <3>2. f \in Frame /\ new \in NodeStruct
      BY <3>1 DEF Frame, NodeStruct
    <3> QED BY <3>2, ParseAssumption
  <2>4. frames # <<>> => t \in Frame /\ t.node = Top.node /\ t.props = Top.props
                                     /\ t.children = Top.children - 1
    <3> SUFFICES ASSUME frames # <<>>
                 PROVE  /\ t \in Frame /\ t.node = Top.node /\ t.props = Top.props
                        /\ t.children = Top.children - 1
      OBVIOUS
    <3>1. Top \in [node : Node, props : Nat, children : Nat]
      BY TopIsFrame DEF Inv, Frame
    <3>2. Top.children - 1 \in Nat
      BY <2>1, <3>1
    <3> QED BY <3>1, <3>2 DEF Frame
  <2>5. /\ old \in Seq(Frame) /\ Len(old) = Len(frames) /\ Len(frames) \in Nat
        /\ DOMAIN frames = 1..Len(frames)
        /\ \A i \in 1..Len(frames) :
             old[i] = IF i = Len(frames) THEN t ELSE frames[i]
    <3>1. CASE frames = <<>>
      BY <3>1
    <3>2. CASE frames # <<>>
      BY <2>4, <3>2, TopIsFrame, AdvancedIs DEF Inv
    <3> QED BY <3>1, <3>2
  <2>6. /\ frames' \in Seq(Frame) /\ Len(frames') = Len(frames) + 1
        /\ DOMAIN frames' = 1..(Len(frames) + 1)
        /\ \A i \in 1..Len(frames) : frames'[i] = old[i]
        /\ frames'[Len(frames) + 1] = f
    <3>1. frames' = Append(old, f)
      BY <1>2 DEF Entered
    <3> HIDE DEF old, f
    <3> QED BY <2>3, <2>5, <3>1
  <2>7. /\ node'[a] = new /\ \A b \in Node : b # a => node'[b] = node[b]
        /\ f.node = a /\ f.props = np /\ f.children = nc
        /\ new.n_props = np /\ new.n_children = nc
        /\ Len(new.props) = 0 /\ Len(new.children) = 0
        /\ np \in Nat /\ nc \in Nat
    BY <1>2, ParseAssumption DEF Inv, TypeOK
  <2> HIDE DEF f, t, old, new
  <2>8. TypeOK'
    <3>1. node' \in [Node -> NodeStruct \cup {JUNK}]
      BY <1>2, <2>3 DEF Inv, TypeOK, new
    <3> QED BY <1>2, <2>1, <2>2, <2>6, <3>1 DEF Inv, TypeOK
  \* Every frame that was there knows the same node, and a is none of theirs.
  <2>9. ASSUME NEW i \in 1..Len(frames)
        PROVE  /\ frames'[i].node = frames[i].node
               /\ frames'[i].props = frames[i].props
               /\ frames'[i].children = IF i = Len(frames) THEN frames[i].children - 1
                                                           ELSE frames[i].children
               /\ frames[i].node # a /\ frames[i].node \in Node /\ frames[i].children \in Nat
    <3>1. frames # <<>>
      BY <2>5
    <3>2. frames[i].node \in Node /\ frames[i].children \in Nat
      <4>1. frames[i] \in Frame
        BY <2>5 DEF Inv, TypeOK
      <4> QED BY <4>1 DEF Frame
    <3>3. frames[i].node # a
      <4>1. FrameTold
        BY <2>1 DEF Inv, CountInv
      <4> QED BY <1>2, <2>5, <4>1 DEF FrameTold
    <3> QED BY <2>4, <2>5, <2>6, <3>1, <3>2, <3>3 DEF Top
  <2>10. FrameTold'
    <3> SUFFICES ASSUME NEW i \in DOMAIN frames'
                 PROVE  /\ node'[frames'[i].node] # JUNK
                        /\ node'[frames'[i].node].n_props =
                             Len(node'[frames'[i].node].props) + frames'[i].props
                        /\ node'[frames'[i].node].n_children =
                             Len(node'[frames'[i].node].children) + frames'[i].children
                               + (IF i = Len(frames') THEN 0 ELSE 1)
                        /\ \A j \in DOMAIN frames' :
                             frames'[j].node = frames'[i].node => i = j
      BY DEF FrameTold
    <3>1. CASE i = Len(frames) + 1
      BY <2>3, <2>6, <2>7, <2>9, <3>1, ParseAssumption
    <3>2. CASE i \in 1..Len(frames)
      <4>1. /\ node[frames[i].node] # JUNK
            /\ node[frames[i].node].n_props =
                 Len(node[frames[i].node].props) + frames[i].props
            /\ node[frames[i].node].n_children =
                 Len(node[frames[i].node].children) + frames[i].children
                   + (IF i = Len(frames) THEN 0 ELSE 1)
            /\ \A j \in DOMAIN frames : frames[j].node = frames[i].node => i = j
        BY <2>1, <2>5, <3>2 DEF Inv, CountInv, FrameTold
      <4>2. node'[frames'[i].node] = node[frames[i].node]
        BY <2>7, <2>9, <3>2
      <4>3. \A j \in DOMAIN frames' : frames'[j].node = frames'[i].node => i = j
        BY <2>5, <2>6, <2>7, <2>9, <3>2, <4>1
      <4>4. /\ node[frames[i].node] \in NodeStruct
            /\ Len(node[frames[i].node].children) \in Nat
        BY <2>9, <3>2, <4>1 DEF Inv, TypeOK, NodeStruct
      <4>5. node'[frames'[i].node].n_props =
              Len(node'[frames'[i].node].props) + frames'[i].props
        BY <2>9, <3>2, <4>1, <4>2
      <4>6. node'[frames'[i].node].n_children =
              Len(node'[frames'[i].node].children) + frames'[i].children
                + (IF i = Len(frames') THEN 0 ELSE 1)
        <5> DEFINE L == Len(node[frames[i].node].children)
                   c == frames[i].children
        <5>1. /\ node'[frames'[i].node].n_children = L + c + (IF i = Len(frames) THEN 0 ELSE 1)
              /\ Len(node'[frames'[i].node].children) = L
          BY <4>1, <4>2
        <5>2. /\ frames'[i].children = IF i = Len(frames) THEN c - 1 ELSE c
              /\ i # Len(frames')
              /\ L \in Int /\ c \in Int
          BY <2>5, <2>6, <2>9, <3>2, <4>4
        <5> HIDE DEF L, c
        <5> QED BY <5>1, <5>2
      <4> QED BY <4>1, <4>2, <4>3, <4>5, <4>6
    <3> QED BY <2>5, <2>6, <3>1, <3>2
  <2>11. ASSUME NEW b \in InUse' PROVE (OnFrame(b) \/ Complete(b))'
    <3>1. CASE b = a
      BY <2>5, <2>6, <2>7, <3>1 DEF OnFrame
    <3>2. CASE b # a
      <4>1. b \in InUse /\ node'[b] = node[b]
        BY <2>7, <3>2 DEF InUse
      <4>2. CASE Complete(b)
        BY <4>1, <4>2 DEF Complete
      <4>3. CASE OnFrame(b)
        BY <2>5, <2>6, <2>9, <4>3 DEF OnFrame
      <4> QED BY <2>1, <4>1, <4>2, <4>3 DEF Inv, CountInv
    <3> QED BY <3>1, <3>2
  <2>12. DataInBuffer' /\ ResultInv'
    BY <2>1, ParseAssumption DEF Inv, DataInBuffer, PropsInUse, ResultInv, parse_node, Called
  <2> QED BY <2>8, <2>10, <2>11, <2>12 DEF Inv, CountInv
<1> QED
  BY <1>1, <1>2 DEF parse_node, Called

\* What is known of any frame, and of the node it fills.
LEMMA FrameIs ==
  ASSUME Inv, ~err, NEW i \in 1..Len(frames)
  PROVE  LET a == frames[i].node IN
         /\ a \in Node /\ frames[i].props \in Nat /\ frames[i].children \in Nat
         /\ node[a] \in NodeStruct /\ node[a] # JUNK
         /\ node[a].props \in Seq(Prop) /\ Len(node[a].props) \in Nat
         /\ node[a].children \in Seq(Node) /\ Len(node[a].children) \in Nat
         /\ node[a].n_props = Len(node[a].props) + frames[i].props
         /\ node[a].n_children = Len(node[a].children) + frames[i].children
                                   + (IF i = Len(frames) THEN 0 ELSE 1)
         /\ \A j \in 1..Len(frames) : frames[j].node = a => i = j
<1> DEFINE a == frames[i].node
<1>1. frames \in Seq(Frame) /\ DOMAIN frames = 1..Len(frames)
  BY DEF Inv, TypeOK
<1>2. frames[i] \in Frame
  BY <1>1
<1>3. a \in Node /\ frames[i].props \in Nat /\ frames[i].children \in Nat
  BY <1>2 DEF Frame
<1>4. /\ node[a] # JUNK
      /\ node[a].n_props = Len(node[a].props) + frames[i].props
      /\ node[a].n_children = Len(node[a].children) + frames[i].children
                                + (IF i = Len(frames) THEN 0 ELSE 1)
      /\ \A j \in 1..Len(frames) : frames[j].node = a => i = j
  BY <1>1 DEF Inv, CountInv, FrameTold
<1>5. node[a] \in NodeStruct
  BY <1>3, <1>4 DEF Inv, TypeOK
<1>6. /\ node[a].props \in Seq(Prop) /\ Len(node[a].props) \in Nat
      /\ node[a].children \in Seq(Node) /\ Len(node[a].children) \in Nat
  BY <1>5 DEF NodeStruct
<1> QED
  BY <1>3, <1>4, <1>5, <1>6

\* A property is linked: the innermost frame has one less to come, its node one more.
LEMMA LinkInv ==
  ASSUME Inv, ~err, frames # <<>>, Top.props > 0, result = "parsing",
         NEW p \in Prop, NEW n \in Nat, prop[p] = JUNK,
         off + PropSize + n <= size, off' \in 0..size, err' \in BOOLEAN,
         prop' = [prop EXCEPT ![p] = [data |-> off + PropSize, length |-> n]],
         node' = Linked(p), frames' = Advanced([Top EXCEPT !.props = @ - 1]),
         UNCHANGED <<size, result>>
  PROVE  Inv'
<1> DEFINE k == Len(frames)
           a == Top.node
           t == [Top EXCEPT !.props = @ - 1]
           new == [node[a] EXCEPT !.props = Append(@, p)]
           s == [data |-> off + PropSize, length |-> n]
<1>1. k \in Nat \ {0} /\ DOMAIN frames = 1..k /\ Top = frames[k] /\ k \in 1..k
  BY TopIsFrame DEF Inv, Top
<1>2. /\ a \in Node /\ node[a] \in NodeStruct /\ node[a] # JUNK
      /\ node[a].props \in Seq(Prop) /\ Len(node[a].props) \in Nat
  BY <1>1, FrameIs
<1>3. /\ t \in Frame /\ t.node = a /\ t.props = Top.props - 1 /\ t.children = Top.children
  <2>1. Top \in [node : Node, props : Nat, children : Nat]
    BY TopIsFrame DEF Inv, Frame
  <2>2. Top.props - 1 \in Nat
    BY <2>1
  <2> QED BY <2>1, <2>2 DEF Frame
<1>4. /\ frames' \in Seq(Frame) /\ Len(frames') = k /\ DOMAIN frames' = 1..k
      /\ \A i \in 1..k : frames'[i] = IF i = k THEN t ELSE frames[i]
  <2> HIDE DEF t
  <2>1. frames' = Advanced(t)
    BY DEF t
  <2>2. /\ Advanced(t) \in Seq(Frame) /\ Len(Advanced(t)) = k
        /\ \A i \in 1..k : Advanced(t)[i] = IF i = k THEN t ELSE frames[i]
    BY <1>3, AdvancedIs DEF Inv
  <2>3. DOMAIN frames' = 1..k
    BY <2>1, <2>2
  <2> QED BY <2>1, <2>2, <2>3
<1>5. /\ new \in NodeStruct /\ new # JUNK
      /\ new.n_props = node[a].n_props /\ new.n_children = node[a].n_children
      /\ new.children = node[a].children /\ Len(new.props) = Len(node[a].props) + 1
  <2>1. Append(node[a].props, p) \in Seq(Prop)
        /\ Len(Append(node[a].props, p)) = Len(node[a].props) + 1
    BY <1>2
  <2>2. /\ new.props = Append(node[a].props, p) /\ new \in NodeStruct
        /\ new.n_props = node[a].n_props /\ new.n_children = node[a].n_children
        /\ new.children = node[a].children
    BY <1>2, <2>1 DEF NodeStruct
  <2> HIDE DEF new
  <2> QED BY <2>1, <2>2, ParseAssumption
<1>6. node' = [node EXCEPT ![a] = new]
  BY DEF Linked
<1> HIDE DEF t, new
<1>7. node'[a] = new /\ \A b \in Node : b # a => node'[b] = node[b]
  BY <1>2, <1>6 DEF Inv, TypeOK
<1>8. off \in Nat /\ size \in Nat /\ s \in PropStruct
  BY ParseAssumption DEF Inv, TypeOK, PropStruct, PropSize
<1>9. TypeOK'
  <2>1. node' \in [Node -> NodeStruct \cup {JUNK}]
    BY <1>2, <1>5, <1>6 DEF Inv, TypeOK
  <2>2. prop' \in [Prop -> PropStruct \cup {JUNK}]
    BY <1>8 DEF Inv, TypeOK
  <2> QED BY <1>4, <2>1, <2>2 DEF Inv, TypeOK
<1>10. DataInBuffer'
  <2>1. prop'[p] = s /\ \A q \in Prop : q # p => prop'[q] = prop[q]
    BY DEF Inv, TypeOK
  <2>2. ASSUME NEW q \in Prop, prop'[q] # JUNK
        PROVE  prop'[q].data + prop'[q].length <= size
    BY <1>8, <2>1, <2>2 DEF Inv, DataInBuffer, PropsInUse, PropSize
  <2> QED BY <2>2 DEF DataInBuffer, PropsInUse
<1>11. ResultInv'
  BY ParseAssumption DEF ResultInv
<1>12. FrameTold'
  <2> SUFFICES ASSUME NEW i \in 1..k
               PROVE  /\ node'[frames'[i].node] # JUNK
                      /\ node'[frames'[i].node].n_props =
                           Len(node'[frames'[i].node].props) + frames'[i].props
                      /\ node'[frames'[i].node].n_children =
                           Len(node'[frames'[i].node].children) + frames'[i].children
                             + (IF i = k THEN 0 ELSE 1)
                      /\ \A j \in 1..k : frames'[j].node = frames'[i].node => i = j
    BY <1>4, ZenonT(40) DEF FrameTold
  <2>1. \A j \in 1..k : frames'[j].node = frames[j].node /\ frames'[j].children = frames[j].children
    BY <1>1, <1>3, <1>4, ZenonT(60)
  <2>2. \A j \in 1..k : frames'[j].node = frames'[i].node => i = j
    BY <2>1, FrameIs
  <2>3. CASE i = k
    <3>1. /\ frames'[i].node = a /\ frames'[i].props = Top.props - 1
          /\ frames'[i].children = Top.children
          /\ node[a].n_props = Len(node[a].props) + Top.props /\ Top.props \in Nat
          /\ node[a].n_children = Len(node[a].children) + Top.children + 0
      BY <1>1, <1>3, <1>4, <2>3, FrameIs
    <3>2. /\ node'[a] # JUNK
          /\ node'[a].n_props = Len(node'[a].props) + (Top.props - 1)
      BY <1>2, <1>5, <1>7, <3>1
    <3>3. node'[a].n_children = Len(node'[a].children) + Top.children + 0
      BY <1>5, <1>7, <3>1
    <3> QED BY <2>2, <2>3, <3>1, <3>2, <3>3
  <2>4. CASE i # k
    <3>1. frames'[i] = frames[i] /\ frames[i].node # a /\ frames[i].node \in Node
      BY <1>1, <1>4, <2>4, FrameIs
    <3>2. node'[frames[i].node] = node[frames[i].node]
      BY <1>7, <3>1
    <3>3. /\ node[frames[i].node] # JUNK
          /\ node[frames[i].node].n_props =
               Len(node[frames[i].node].props) + frames[i].props
          /\ node[frames[i].node].n_children =
               Len(node[frames[i].node].children) + frames[i].children + 1
      BY <2>4, FrameIs
    <3> QED BY <2>2, <2>4, <3>1, <3>2, <3>3
  <2> QED BY <2>3, <2>4
<1>13. ASSUME NEW b \in InUse' PROVE (OnFrame(b) \/ Complete(b))'
  <2>1. CASE b = a
    BY <1>1, <1>3, <1>4, <2>1 DEF OnFrame
  <2>2. CASE b # a
    <3>1. b \in InUse /\ node'[b] = node[b]
      BY <1>7, <2>2 DEF InUse
    <3>2. OnFrame(b) => OnFrame(b)'
      BY <1>1, <1>3, <1>4 DEF OnFrame
    <3> QED BY <3>1, <3>2 DEF Inv, CountInv, Complete
  <2> QED BY <2>1, <2>2
<1> QED
  BY <1>9, <1>10, <1>11, <1>12, <1>13 DEF Inv, CountInv

LEMMA PropInv == ASSUME Inv, parse_prop PROVE Inv'
<1>1. size \in Nat /\ off \in 0..size /\ off \in Nat
  BY ParseAssumption DEF Inv, TypeOK
<1>2. CASE err' /\ UNCHANGED <<off, frames, heap>>
  BY <1>1, <1>2, FailedInv DEF parse_prop, heap
<1>3. ASSUME NEW p \in Prop, NEW n \in DataLength,
             Fits(off, PropSize), prop[p] = JUNK,
             ~Fits(off + PropSize, n), err', off' = off + PropSize,
             prop' = [prop EXCEPT ![p] = JUNK], UNCHANGED <<frames, node>>
      PROVE  Inv'
  <2>1. prop' = prop
    BY <1>3 DEF Inv, TypeOK
  <2>2. off' \in 0..size
    BY <1>1, <1>3 DEF Fits, PropSize
  <2> QED BY <1>3, <2>1, <2>2, FailedInv DEF parse_prop, heap
<1>4. ASSUME NEW p \in Prop, NEW n \in DataLength,
             Fits(off, PropSize), prop[p] = JUNK,
             Fits(off + PropSize, n),
             prop' = [prop EXCEPT ![p] = [data |-> off + PropSize, length |-> n]],
             node' = Linked(p), frames' = Advanced([Top EXCEPT !.props = @ - 1]),
             IF Fits(off + PropSize, Align(n))
             THEN off' = off + PropSize + Align(n) /\ UNCHANGED err
             ELSE off' = off + PropSize + n /\ err' = TRUE
      PROVE  Inv'
  <2>1. n \in Nat /\ Align(n) \in Nat
    BY ParseAssumption, AlignIs
  <2>2. off' \in 0..size /\ off + PropSize + n <= size /\ err' \in BOOLEAN
    <3>1. err \in BOOLEAN /\ off + PropSize + n <= size
      BY <1>4 DEF Fits, Inv, TypeOK
    <3>2. CASE Fits(off + PropSize, Align(n))
      BY <1>1, <1>4, <2>1, <3>1, <3>2 DEF Fits, PropSize
    <3>3. CASE ~Fits(off + PropSize, Align(n))
      BY <1>1, <1>4, <2>1, <3>1, <3>3 DEF Fits, PropSize
    <3> QED BY <3>2, <3>3
  <2> QED BY <1>4, <2>1, <2>2, LinkInv DEF parse_prop
<1> QED
  BY <1>2, <1>3, <1>4 DEF parse_prop, Freed

\* A node is complete when its frame goes; the caller's node gets the child it waited for.
LEMMA ReturnInv == ASSUME Inv, Return PROVE Inv'
<1> DEFINE b == Top.node
<1>1. /\ ~err /\ frames # <<>> /\ Top.props = 0 /\ Top.children = 0 /\ frames' = Caller
      /\ result = "parsing" /\ UNCHANGED <<size, off, err, prop>>
  BY DEF Return
<1>k. PICK k \in Nat \ {0} : k = Len(frames)
  BY <1>1, TopIsFrame DEF Inv
<1>2. /\ k \in Nat \ {0} /\ k \in 1..k /\ k - 1 \in Nat
      /\ DOMAIN frames = 1..k /\ Top = frames[k]
      /\ Caller \in Seq(Frame) /\ Len(Caller) = k - 1 /\ DOMAIN Caller = 1..(k - 1)
      /\ \A i \in 1..(k - 1) : Caller[i] = frames[i] /\ i \in 1..k /\ i # k
  <2>1. /\ DOMAIN frames = 1..k
        /\ Caller \in Seq(Frame) /\ Len(Caller) = k - 1 /\ DOMAIN Caller = 1..(k - 1)
        /\ \A i \in 1..(k - 1) : Caller[i] = frames[i]
    BY <1>1, <1>k, TopIsFrame DEF Inv
  <2>2. Top = frames[k]
    BY <1>k DEF Top
  <2>3. k \in 1..k /\ k - 1 \in Nat /\ \A i \in 1..(k - 1) : i \in 1..k /\ i # k
    OBVIOUS
  <2> QED BY <2>1, <2>2, <2>3
<1>3. /\ b \in Node /\ node[b] # JUNK /\ Complete(b)
      /\ \A i \in 1..(k - 1) : frames[i].node # b
  <2>1. /\ b \in Node /\ node[b] # JUNK
        /\ Len(node[b].props) \in Nat /\ Len(node[b].children) \in Nat
        /\ node[b].n_props = Len(node[b].props) + 0
        /\ node[b].n_children = Len(node[b].children) + 0 + 0
    BY <1>1, <1>k, <1>2, FrameIs
  <2>2. \A i \in 1..(k - 1) : frames[i].node # b
    BY <1>1, <1>k, <1>2, FrameIs
  <2> QED BY <2>1, <2>2 DEF Complete
\* Who is on a frame still, and who has just left it.
<1>4. \A c : OnFrame(c) => OnFrame(c)' \/ c = b
  BY <1>1, <1>2 DEF OnFrame
<1>5. CASE k = 1
  <2>1. result' = b /\ UNCHANGED node /\ frames' = <<>>
    BY <1>1, <1>k, <1>2, <1>5 DEF Return
  <2>2. TypeOK'
    BY <1>1, <1>2, <1>3, <2>1 DEF Inv, TypeOK
  <2>3. DataInBuffer' /\ ResultInv'
    BY <1>1, <2>1 DEF Inv, DataInBuffer, PropsInUse, ResultInv
  <2>4. FrameTold'
    BY <2>1 DEF FrameTold
  <2>5. ASSUME NEW c \in InUse' PROVE (OnFrame(c) \/ Complete(c))'
    BY <1>1, <1>3, <1>4, <2>1 DEF Inv, CountInv, InUse, Complete
  <2> QED BY <2>2, <2>3, <2>4, <2>5 DEF Inv, CountInv
<1>6. CASE k # 1
  <2> DEFINE a == Caller[Len(Caller)].node
             new == [node[a] EXCEPT !.children = Append(@, b)]
  <2>1. node' = [node EXCEPT ![a] = new] /\ UNCHANGED result
    BY <1>k, <1>2, <1>6 DEF Return
  <2>2. /\ k - 1 \in 1..(k - 1) /\ k - 1 \in 1..k /\ a = frames[k - 1].node
    BY <1>2, <1>6
  <2>3. /\ a \in Node /\ a # b /\ node[a] \in NodeStruct /\ node[a] # JUNK
        /\ node[a].children \in Seq(Node) /\ Len(node[a].children) \in Nat
    BY <1>1, <1>k, <1>3, <2>2, FrameIs
  <2>4. /\ new \in NodeStruct /\ new # JUNK
        /\ new.n_props = node[a].n_props /\ new.n_children = node[a].n_children
        /\ new.props = node[a].props /\ Len(new.children) = Len(node[a].children) + 1
    <3>1. Append(node[a].children, b) \in Seq(Node)
          /\ Len(Append(node[a].children, b)) = Len(node[a].children) + 1
      BY <1>3, <2>3
    <3>2. /\ new.children = Append(node[a].children, b) /\ new \in NodeStruct
          /\ new.n_props = node[a].n_props /\ new.n_children = node[a].n_children
          /\ new.props = node[a].props
      BY <2>3, <3>1 DEF NodeStruct
    <3> HIDE DEF new
    <3> QED BY <3>1, <3>2, ParseAssumption
  <2> HIDE DEF a, new
  <2>5. node'[a] = new /\ \A c \in Node : c # a => node'[c] = node[c]
    BY <2>1, <2>3 DEF Inv, TypeOK
  <2>6. TypeOK'
    <3>1. node' \in [Node -> NodeStruct \cup {JUNK}]
      BY <2>1, <2>4 DEF Inv, TypeOK
    <3> QED BY <1>1, <1>2, <2>1, <3>1 DEF Inv, TypeOK
  <2>7. DataInBuffer' /\ ResultInv'
    BY <1>1, <2>1, ParseAssumption DEF Inv, DataInBuffer, PropsInUse, ResultInv
  <2>8. FrameTold'
    <3> SUFFICES ASSUME NEW i \in 1..(k - 1)
                 PROVE  /\ node'[frames[i].node] # JUNK
                        /\ node'[frames[i].node].n_props =
                             Len(node'[frames[i].node].props) + frames[i].props
                        /\ node'[frames[i].node].n_children =
                             Len(node'[frames[i].node].children) + frames[i].children
                               + (IF i = k - 1 THEN 0 ELSE 1)
                        /\ \A j \in 1..(k - 1) : frames[j].node = frames[i].node => i = j
      BY <1>1, <1>2 DEF FrameTold
    <3>1. i \in 1..k /\ i # k /\ i \in Int
      BY <1>2
    <3>2. /\ node[frames[i].node] # JUNK
          /\ frames[i].node \in Node /\ frames[i].children \in Nat
          /\ node[frames[i].node].n_props =
               Len(node[frames[i].node].props) + frames[i].props
          /\ node[frames[i].node].n_children =
               Len(node[frames[i].node].children) + frames[i].children + 1
          /\ \A j \in 1..k : frames[j].node = frames[i].node => i = j
      BY <1>1, <1>k, <3>1, FrameIs
    <3>3. CASE i = k - 1
      <4>1. /\ frames[i].node = a /\ node'[a] # JUNK
            /\ node'[a].n_props = Len(node'[a].props) + frames[i].props
        BY <2>2, <2>4, <2>5, <3>2, <3>3
      <4>2. node'[a].n_children = Len(node'[a].children) + frames[i].children + 0
        BY <2>3, <2>4, <2>5, <3>2, <4>1
      <4>3. \A j \in 1..(k - 1) : frames[j].node = frames[i].node => i = j
        BY <1>2, <3>2
      <4> QED BY <3>3, <4>1, <4>2, <4>3
    <3>4. CASE i # k - 1
      <4>1. frames[i].node # a
        BY <1>1, <2>2, <3>1, <3>2, <3>4
      <4> QED BY <1>2, <2>5, <3>2, <3>4, <4>1
    <3> QED BY <3>3, <3>4
  <2>9. ASSUME NEW c \in InUse' PROVE (OnFrame(c) \/ Complete(c))'
    <3>1. CASE c = a
      BY <1>1, <1>2, <2>2, <3>1 DEF OnFrame
    <3>2. CASE c # a
      <4>1. c \in InUse /\ node'[c] = node[c]
        BY <2>5, <3>2 DEF InUse
      <4> QED BY <1>1, <1>3, <1>4, <4>1 DEF Inv, CountInv, Complete
    <3> QED BY <3>1, <3>2
  <2> QED BY <2>6, <2>7, <2>8, <2>9 DEF Inv, CountInv
<1> QED
  BY <1>5, <1>6

LEMMA AbandonInv == ASSUME Inv, Abandon PROVE Inv'
<1>1. err /\ err' /\ result = "parsing" /\ UNCHANGED <<size, off>>
  BY DEF Abandon
<1>2. CASE frames = <<>>
  BY <1>1, <1>2, ParseAssumption
     DEF Abandon, heap, Inv, TypeOK, DataInBuffer, PropsInUse, CountInv, ResultInv
<1>3. CASE frames # <<>>
  <2>1. /\ frames' = Caller /\ UNCHANGED result
        /\ node' \in [Node -> NodeStruct \cup {JUNK}]
        /\ prop' \in [Prop -> PropStruct \cup {JUNK}]
        /\ \A p \in Prop : prop'[p] = prop[p] \/ prop'[p] = JUNK
    BY <1>3 DEF Abandon, Inv, TypeOK
  <2>2. TypeOK'
    BY <1>1, <1>3, <2>1, TopIsFrame DEF Inv, TypeOK
  <2>3. DataInBuffer'
    BY <1>1, <2>1 DEF Inv, DataInBuffer, PropsInUse
  <2> QED BY <1>1, <2>1, <2>2, <2>3, ParseAssumption DEF Inv, CountInv, ResultInv
<1> QED
  BY <1>2, <1>3

LEMMA NextInv == Inv /\ [Next]_vars => Inv'
<1> SUFFICES ASSUME Inv, [Next]_vars PROVE Inv'
  OBVIOUS
<1>1. CASE Next
  BY <1>1, TooShortInv, NodeInv, PropInv, ReturnInv, AbandonInv DEF Next
<1>2. CASE UNCHANGED vars
  BY <1>2 DEF vars, heap, Inv, TypeOK, DataInBuffer, PropsInUse, CountInv, FrameTold, InUse,
              OnFrame, Complete, ResultInv
<1> QED
  BY <1>1, <1>2

LEMMA Invariance == Spec => []Inv
BY InitInv, NextInv, PTL DEF Spec

-----------------------------------------------------------------------------
\* The cursor never leaves the buffer and every structure keeps its type, whatever
\* dt_parse is given (apple_dt.c:23-36).
THEOREM TypesHold == Spec => []TypeOK
BY Invariance, PTL DEF Inv

\* No property of a tree, finished or under way, points past the end of the buffer
\* (apple_dt.c:51-55).
THEOREM DataStaysInBuffer == Spec => []DataInBuffer
BY Invariance, PTL DEF Inv

\* A tree dt_parse returns has, in every node, the counts its header announced
\* (apple_dt.c:74-93).
THEOREM CountsAreHonoured == Spec => []CountsHonoured
<1>1. Inv => CountsHonoured
  BY DEF Inv, ResultInv, CountInv, OnFrame, Complete, CountsHonoured
<1> QED BY <1>1, Invariance, PTL

-----------------------------------------------------------------------------
(***************************************************************************)
(* The heap of dt_parse: at every step each struct is linked from exactly  *)
(* one place, and all of them hang from the calls under way or from the    *)
(* tree returned; so nothing is freed twice, and nothing is lost.          *)
(***************************************************************************)
IsChild(a, i, b) == a \in InUse /\ i \in DOMAIN node[a].children /\ node[a].children[i] = b
IsProp(a, i, p) == a \in InUse /\ i \in DOMAIN node[a].props /\ node[a].props[i] = p

\* Where the links of the heap start: the nodes being filled, and the tree returned.
IsRoot(a) == (\E i \in DOMAIN frames : frames[i].node = a) \/ result = a
ClosedIn(S) == \A a \in S, b \in Node, i \in Nat : IsChild(a, i, b) => b \in S

ChildSound == \A a, b \in Node, i \in Nat : IsChild(a, i, b) => b \in InUse /\ ~IsRoot(b)
ChildOnce ==
  \A a, b, c \in Node, i, j \in Nat : IsChild(a, i, b) /\ IsChild(c, j, b) => a = c /\ i = j
RootSound == \A a \in Node : IsRoot(a) => a \in InUse
RootOnce == \A i, j \in DOMAIN frames : frames[i].node = frames[j].node => i = j
\* A set closed under children that has all roots has every node in use.
AllReached ==
  \A S \in SUBSET Node : ClosedIn(S) /\ (\A a \in Node : IsRoot(a) => a \in S) => InUse \subseteq S
PropSound == \A a \in Node, p \in Prop, i \in Nat : IsProp(a, i, p) => p \in PropsInUse
PropOnce ==
  \A a, c \in Node, p \in Prop, i, j \in Nat : IsProp(a, i, p) /\ IsProp(c, j, p) => a = c /\ i = j
PropReached == \A p \in PropsInUse : \E a \in Node, i \in Nat : IsProp(a, i, p)
Ended == result # "parsing" => frames = <<>>

NodesInv == ChildSound /\ ChildOnce /\ RootSound /\ RootOnce /\ AllReached /\ Ended
PropsInv == PropSound /\ PropOnce /\ PropReached
HeapInv == NodesInv /\ PropsInv

-----------------------------------------------------------------------------
(***************************************************************************)
(* Links and the subtree of a node.                                        *)
(***************************************************************************)
LEMMA NodeParts ==
  ASSUME TypeOK, NEW a \in InUse
  PROVE  /\ a \in Node /\ node[a] # JUNK /\ node[a] \in NodeStruct
         /\ node[a].props \in Seq(Prop) /\ node[a].children \in Seq(Node)
         /\ Len(node[a].props) \in Nat /\ Len(node[a].children) \in Nat
         /\ DOMAIN node[a].props = 1..Len(node[a].props)
         /\ DOMAIN node[a].children = 1..Len(node[a].children)
<1>1. a \in Node /\ node[a] # JUNK /\ node[a] \in NodeStruct
  BY DEF InUse, TypeOK
<1>2. node[a].props \in Seq(Prop) /\ node[a].children \in Seq(Node)
  BY <1>1 DEF NodeStruct
<1> QED
  BY <1>1, <1>2

LEMMA ChildIs ==
  ASSUME TypeOK, NEW a, NEW i, NEW b, IsChild(a, i, b)
  PROVE  a \in InUse /\ a \in Node /\ i \in Nat /\ b \in Node
BY NodeParts DEF IsChild

LEMMA PropIs ==
  ASSUME TypeOK, NEW a, NEW i, NEW p, IsProp(a, i, p)
  PROVE  a \in InUse /\ a \in Node /\ i \in Nat /\ p \in Prop
BY NodeParts DEF IsProp

LEMMA ClosedSame ==
  ASSUME TypeOK, NEW S \in SUBSET Node
  PROVE  Closed(S) <=> ClosedIn(S)
<1>1. ASSUME NEW a \in S, node[a] # JUNK
      PROVE  Children(a) \subseteq S <=> \A b \in Node, i \in Nat : IsChild(a, i, b) => b \in S
  <2>1. a \in InUse
    BY <1>1 DEF InUse
  <2>2. /\ node[a].children \in Seq(Node)
        /\ DOMAIN node[a].children = 1..Len(node[a].children)
        /\ Len(node[a].children) \in Nat
    BY <2>1, NodeParts
  <2>3. \A i \in DOMAIN node[a].children : node[a].children[i] \in Node /\ i \in Nat
    BY <2>2
  <2> QED
    BY <2>1, <2>3 DEF Children, IsChild
<1>2. ASSUME NEW a \in S, node[a] = JUNK
      PROVE  \A b \in Node, i \in Nat : ~IsChild(a, i, b)
  BY <1>2 DEF IsChild, InUse
<1> QED
  BY <1>1, <1>2 DEF Closed, ClosedIn

\* What dt_free reaches from a: a, and with a node its children; nothing else.
LEMMA SubtreeIs ==
  ASSUME TypeOK, ChildSound, NEW a \in InUse
  PROVE  /\ a \in Subtree(a)
         /\ Subtree(a) \subseteq InUse
         /\ ClosedIn(Subtree(a))
         /\ \A b \in Subtree(a) : b = a \/ \E c \in Subtree(a), i \in Nat : IsChild(c, i, b)
         /\ \A S \in SUBSET Node : a \in S /\ ClosedIn(S) => Subtree(a) \subseteq S
<1>1. \A b \in Node : b \in Subtree(a) <=> \A S \in SUBSET Node : a \in S /\ ClosedIn(S) => b \in S
  BY ClosedSame DEF Subtree
<1>2. Subtree(a) \subseteq Node
  BY DEF Subtree
<1> DEFINE T == Subtree(a)
<1> HIDE DEF T
<1>3. /\ T \subseteq Node
      /\ \A b \in Node : b \in T <=> \A S \in SUBSET Node : a \in S /\ ClosedIn(S) => b \in S
  BY <1>1, <1>2 DEF T
<1>4. a \in Node /\ a \in T
  BY <1>3, NodeParts
<1>5. InUse \in SUBSET Node /\ ClosedIn(InUse)
  BY DEF InUse, ClosedIn, ChildSound
<1>6. ClosedIn(T)
  <2> SUFFICES ASSUME NEW c \in T, NEW b \in Node, NEW i \in Nat, IsChild(c, i, b),
                      NEW S \in SUBSET Node, a \in S, ClosedIn(S)
               PROVE  b \in S
    BY <1>3 DEF ClosedIn
  <2>1. c \in S
    BY <1>3
  <2> QED
    BY <2>1 DEF ClosedIn
<1>7. ASSUME NEW b \in T, b # a, \A c \in T, i \in Nat : ~IsChild(c, i, b) PROVE FALSE
  <2>1. a \in T \ {b} /\ T \ {b} \in SUBSET Node
    BY <1>3, <1>4, <1>7
  <2>2. ClosedIn(T \ {b})
    BY <1>6, <1>7 DEF ClosedIn
  <2> QED
    BY <1>3, <2>1, <2>2
<1>8. T \subseteq InUse
  BY <1>3, <1>5
<1> QED
  BY <1>3, <1>4, <1>6, <1>7, <1>8 DEF T

-----------------------------------------------------------------------------
(***************************************************************************)
(* What the invariant means for the counts of links and for what is left.  *)
(***************************************************************************)
LEMMA ReachedOrLinked ==
  ASSUME TypeOK, NodesInv, NEW b \in InUse
  PROVE  IsRoot(b) \/ \E a \in Node, i \in Nat : IsChild(a, i, b)
<1> DEFINE S == {c \in Node : IsRoot(c) \/ \E a \in Node, i \in Nat : IsChild(a, i, c)}
<1>1. S \in SUBSET Node /\ \A a \in Node : IsRoot(a) => a \in S
  OBVIOUS
<1>2. ClosedIn(S)
  BY DEF ClosedIn
<1> HIDE DEF S
<1>3. InUse \subseteq S
  BY <1>1, <1>2 DEF NodesInv, AllReached
<1> QED
  BY <1>3 DEF S

LEMMA LinksAre ==
  ASSUME NEW b
  PROVE  \A x : x \in Links(b) <=> \E a \in InUse : \E i \in DOMAIN node[a].children :
                                     IsChild(a, i, b) /\ x = <<a, i>>
BY DEF Links, IsChild

LEMMA PropLinksAre ==
  ASSUME NEW p
  PROVE  \A x : x \in PropLinks(p) <=> \E a \in InUse : \E i \in DOMAIN node[a].props :
                                         IsProp(a, i, p) /\ x = <<a, i>>
BY DEF PropLinks, IsProp

LEMMA SoundLinkedOnce == ASSUME TypeOK, HeapInv, ParseAssumption PROVE LinkedOnce
<1> USE DEF HeapInv, NodesInv, PropsInv
<1>1. ASSUME NEW b \in InUse
      PROVE  Cardinality(Links(b)) + Cardinality(FramesOf(b)) = IF result = b THEN 0 ELSE 1
  <2>0. b \in Node /\ b # "parsing"
    BY ParseAssumption DEF InUse
  <2>1. CASE IsRoot(b)
    <3>1. Links(b) = {}
      <4>1. \A a \in InUse : \A i \in DOMAIN node[a].children : ~IsChild(a, i, b)
        BY <2>0, <2>1, ChildIs DEF ChildSound
      <4> QED
        BY <4>1, LinksAre
    <3>2. CASE result = b
      <4>1. FramesOf(b) = {}
        BY <2>0, <3>2 DEF Ended, FramesOf
      <4> QED
        BY <3>1, <3>2, <4>1, FS_EmptySet
    <3>3. CASE result # b
      <4>1. PICK i \in DOMAIN frames : frames[i].node = b
        BY <2>1, <3>3 DEF IsRoot
      <4>2. FramesOf(b) = {i}
        BY <4>1 DEF FramesOf, RootOnce
      <4>3. Cardinality(Links(b)) = 0 /\ Cardinality(FramesOf(b)) = 1
        BY <3>1, <4>2, FS_EmptySet, FS_Singleton
      <4> QED
        BY <3>3, <4>3
    <3> QED
      BY <3>2, <3>3
  <2>2. CASE ~IsRoot(b)
    <3>1. PICK a \in Node, i \in Nat : IsChild(a, i, b)
      BY <2>2, ReachedOrLinked
    <3>2. Links(b) = {<<a, i>>}
      <4>1. \A c \in InUse : \A j \in DOMAIN node[c].children : IsChild(c, j, b) => c = a /\ j = i
        BY <2>0, <3>1, ChildIs DEF ChildOnce
      <4>2. <<a, i>> \in Links(b)
        BY <3>1, LinksAre DEF IsChild
      <4> QED
        BY <4>1, <4>2, LinksAre
    <3>3. FramesOf(b) = {} /\ result # b
      BY <2>2 DEF FramesOf, IsRoot
    <3>4. Cardinality(Links(b)) = 1 /\ Cardinality(FramesOf(b)) = 0
      BY <3>2, <3>3, FS_EmptySet, FS_Singleton
    <3> QED
      BY <3>3, <3>4
  <2> QED
    BY <2>1, <2>2
<1>2. ASSUME NEW p \in PropsInUse PROVE Cardinality(PropLinks(p)) = 1
  <2>1. PICK a \in Node, i \in Nat : IsProp(a, i, p)
    BY DEF PropReached
  <2>2. PropLinks(p) = {<<a, i>>}
    <3>1. \A c \in InUse : \A j \in DOMAIN node[c].props : IsProp(c, j, p) => c = a /\ j = i
      BY <2>1, PropIs DEF PropOnce
    <3>2. <<a, i>> \in PropLinks(p)
      BY <2>1, PropLinksAre DEF IsProp
    <3> QED
      BY <3>1, <3>2, PropLinksAre
  <2> QED
    BY <2>2, FS_Singleton
<1> QED
  BY <1>1, <1>2 DEF LinkedOnce

LEMMA PropsOfAre ==
  ASSUME NEW S \in SUBSET InUse
  PROVE  \A p : p \in PropsOf(S) <=> \E a \in S : \E i \in DOMAIN node[a].props : IsProp(a, i, p)
BY DEF PropsOf, IsProp

LEMMA SoundNothingLost == ASSUME TypeOK, HeapInv, ParseAssumption PROVE NothingLost
<1> USE DEF HeapInv, NodesInv, PropsInv
<1> SUFFICES ASSUME result # "parsing"
             PROVE  LET kept == IF result = NULL THEN {} ELSE Subtree(result) IN
                    InUse = kept /\ PropsInUse = PropsOf(kept)
  BY DEF NothingLost
<1> DEFINE kept == IF result = NULL THEN {} ELSE Subtree(result)
<1>1. frames = <<>> /\ \A a \in Node : IsRoot(a) <=> result = a
  BY DEF Ended, IsRoot
<1>2. InUse = kept
  <2>1. CASE result = NULL
    <3>1. ClosedIn({}) /\ \A a \in Node : ~IsRoot(a)
      BY <1>1, <2>1, ParseAssumption DEF ClosedIn
    <3>2. InUse \subseteq {}
      BY <3>1 DEF AllReached
    <3> QED
      BY <2>1, <3>2
  <2>2. CASE result # NULL
    <3>1. result \in Node /\ result \in InUse
      BY <1>1, <2>2 DEF TypeOK, RootSound
    <3>2. /\ result \in Subtree(result) /\ ClosedIn(Subtree(result))
          /\ Subtree(result) \subseteq InUse
      BY <3>1, SubtreeIs
    <3>3. Subtree(result) \in SUBSET Node
      BY <3>2 DEF InUse
    <3>4. InUse \subseteq Subtree(result)
      BY <1>1, <3>2, <3>3 DEF AllReached
    <3> QED
      BY <2>2, <3>2, <3>4
  <2> QED
    BY <2>1, <2>2
<1>3. PropsInUse = PropsOf(InUse)
  <2>1. ASSUME NEW p \in PropsInUse PROVE p \in PropsOf(InUse)
    <3>1. PICK a \in Node, i \in Nat : IsProp(a, i, p)
      BY DEF PropReached
    <3> QED
      BY <3>1, PropsOfAre DEF IsProp
  <2>2. ASSUME NEW p \in PropsOf(InUse) PROVE p \in PropsInUse
    BY PropsOfAre, PropIs DEF PropSound
  <2> QED
    BY <2>1, <2>2
<1> QED
  BY <1>2, <1>3

-----------------------------------------------------------------------------
(***************************************************************************)
(* Every step keeps the invariant.                                         *)
(***************************************************************************)
LEMMA HeapStart == Init => HeapInv
<1> SUFFICES ASSUME Init PROVE HeapInv
  OBVIOUS
<1>1. frames = <<>> /\ DOMAIN frames = {} /\ result = "parsing"
  BY DEF Init
<1>2. InUse = {} /\ PropsInUse = {}
  BY DEF Init, InUse, PropsInUse
<1>3. \A a, i, b : ~IsChild(a, i, b) /\ ~IsProp(a, i, b)
  BY <1>2 DEF IsChild, IsProp
<1>4. \A a \in Node : ~IsRoot(a)
  BY <1>1, ParseAssumption DEF IsRoot
<1>5. NodesInv
  BY <1>1, <1>2, <1>3, <1>4
     DEF NodesInv, ChildSound, ChildOnce, RootSound, RootOnce, AllReached, Ended
<1>6. PropsInv
  BY <1>2, <1>3 DEF PropsInv, PropSound, PropOnce, PropReached
<1> QED
  BY <1>5, <1>6 DEF HeapInv

\* A step that leaves the structs and the roots alone.
LEMMA SameHeap ==
  ASSUME TypeOK, HeapInv, node' = node, prop' = prop, RootOnce', Ended',
         \A a \in Node : IsRoot(a)' <=> IsRoot(a)
  PROVE  HeapInv'
<1>1. InUse' = InUse /\ PropsInUse' = PropsInUse
  BY DEF InUse, PropsInUse
<1>2. \A a, i, b : (IsChild(a, i, b)' <=> IsChild(a, i, b)) /\ (IsProp(a, i, b)' <=> IsProp(a, i, b))
  BY DEF IsChild, IsProp, InUse
<1>3. NodesInv'
  BY <1>1, <1>2
     DEF HeapInv, NodesInv, ChildSound, ChildOnce, RootSound, AllReached, ClosedIn
<1>4. PropsInv'
  BY <1>1, <1>2 DEF HeapInv, PropsInv, PropSound, PropOnce, PropReached
<1> QED
  BY <1>3, <1>4 DEF HeapInv

\* parse_node: a new root, with no children yet.
LEMMA GrowHeap ==
  ASSUME Inv, HeapInv, result = "parsing", result' = result, prop' = prop,
         NEW np \in Nat, NEW nc \in Nat, NEW a \in Node, node[a] = JUNK,
         node' = [node EXCEPT ![a] = [n_props |-> np, n_children |-> nc,
                                      props |-> <<>>, children |-> <<>>]],
         NEW k \in Nat, DOMAIN frames = 1..k, DOMAIN frames' = 1..(k + 1),
         \A i \in 1..k : frames'[i].node = frames[i].node,
         frames'[k + 1].node = a
  PROVE  HeapInv'
<1> USE DEF HeapInv, NodesInv, PropsInv
<1>1. /\ node'[a].props = <<>> /\ node'[a].children = <<>> /\ node'[a] # JUNK
      /\ \A b \in Node : b # a => node'[b] = node[b]
  <2> DEFINE new == [n_props |-> np, n_children |-> nc, props |-> <<>>, children |-> <<>>]
  <2>1. new \in NodeStruct /\ new.props = <<>> /\ new.children = <<>>
    BY DEF NodeStruct
  <2>2. node'[a] = new /\ \A b \in Node : b # a => node'[b] = node[b]
    BY DEF Inv, TypeOK
  <2> HIDE DEF new
  <2>3. new # JUNK
    BY <2>1, ParseAssumption
  <2> QED
    BY <2>1, <2>2, <2>3
<1>2. /\ a \notin InUse /\ InUse' = InUse \cup {a} /\ InUse \in SUBSET Node
      /\ PropsInUse' = PropsInUse
  BY <1>1 DEF InUse, PropsInUse
<1>3. ASSUME NEW b \in Node, NEW i, NEW c
      PROVE  (IsChild(b, i, c)' <=> IsChild(b, i, c)) /\ (IsProp(b, i, c)' <=> IsProp(b, i, c))
  <2>1. CASE b = a
    BY <1>1, <1>2, <2>1 DEF IsChild, IsProp
  <2>2. CASE b # a
    BY <1>1, <1>2, <2>2 DEF IsChild, IsProp
  <2> QED
    BY <2>1, <2>2
<1>4. \A b \in Node : IsRoot(b)' <=> IsRoot(b) \/ b = a
  <2> SUFFICES ASSUME NEW b \in Node
               PROVE  (\E i \in 1..(k + 1) : frames'[i].node = b)
                        <=> (\E i \in 1..k : frames[i].node = b) \/ b = a
    BY ParseAssumption DEF IsRoot
  <2>1. 1..(k + 1) = 1..k \cup {k + 1}
    OBVIOUS
  <2> QED
    BY <2>1
<1>5. \A b \in Node, i \in Nat : ~IsChild(b, i, a)
  BY <1>2 DEF ChildSound
<1>6. ChildSound' /\ ChildOnce'
  BY <1>2, <1>3, <1>4, <1>5 DEF ChildSound, ChildOnce
<1>7. RootSound' /\ Ended'
  BY <1>2, <1>4 DEF RootSound, Ended
<1>8. RootOnce'
  <2>1. \A i \in 1..k : frames[i].node # a
    BY <1>2 DEF RootSound, IsRoot
  <2>2. \A i \in 1..(k + 1) : i \in 1..k \/ i = k + 1
    OBVIOUS
  <2> QED
    BY <2>1, <2>2 DEF RootOnce
<1>9. AllReached'
  <2> SUFFICES ASSUME NEW S \in SUBSET Node, ClosedIn(S)', \A b \in Node : IsRoot(b)' => b \in S
               PROVE  InUse' \subseteq S
    BY DEF AllReached
  <2>1. ClosedIn(S)
    BY <1>3 DEF ClosedIn
  <2>2. \A b \in Node : IsRoot(b) => b \in S
    BY <1>4
  <2> QED
    BY <1>2, <1>4, <2>1, <2>2 DEF AllReached
<1>10. PropsInv'
  BY <1>2, <1>3 DEF PropSound, PropOnce, PropReached
<1> QED
  BY <1>6, <1>7, <1>8, <1>9, <1>10

\* parse_prop: one struct more, linked once, from the innermost node.
LEMMA LinkHeap ==
  ASSUME Inv, HeapInv, result' = result,
         NEW a \in InUse, NEW p \in Prop, NEW s \in PropStruct, prop[p] = JUNK,
         prop' = [prop EXCEPT ![p] = s],
         node' = [node EXCEPT ![a] = [node[a] EXCEPT !.props = Append(@, p)]],
         DOMAIN frames' = DOMAIN frames,
         \A i \in DOMAIN frames : frames'[i].node = frames[i].node,
         result = "parsing"
  PROVE  HeapInv'
<1> USE DEF HeapInv, NodesInv, PropsInv
<1> DEFINE k == Len(node[a].props) + 1
<1>1. /\ a \in Node /\ node[a] \in NodeStruct /\ node[a].props \in Seq(Prop)
      /\ DOMAIN node[a].props = 1..(k - 1) /\ k \in Nat /\ k >= 1
  BY NodeParts DEF Inv
<1>2. /\ node'[a] = [node[a] EXCEPT !.props = Append(node[a].props, p)]
      /\ \A b \in Node : b # a => node'[b] = node[b]
  BY <1>1 DEF Inv, TypeOK
<1>3. /\ node'[a].props = Append(node[a].props, p)
      /\ node'[a].children = node[a].children
      /\ node'[a] \in NodeStruct
  <2> DEFINE new == [node[a] EXCEPT !.props = Append(node[a].props, p)]
  <2>1. Append(node[a].props, p) \in Seq(Prop)
    BY <1>1
  <2>2. /\ new.props = Append(node[a].props, p) /\ new.children = node[a].children
        /\ new \in NodeStruct
    BY <1>1, <2>1 DEF NodeStruct
  <2>3. node'[a] = new
    BY <1>2
  <2> HIDE DEF new
  <2> QED
    BY <2>2, <2>3
<1>4. node'[a] # JUNK
  BY <1>3, ParseAssumption
<1>5. /\ DOMAIN node'[a].props = 1..k
      /\ \A i \in 1..(k - 1) : node'[a].props[i] = node[a].props[i]
      /\ node'[a].props[k] = p
  <2> DEFINE q == node[a].props
  <2>1. q \in Seq(Prop) /\ k = Len(q) + 1
    BY <1>1
  <2> HIDE DEF q, k
  <2>2. /\ DOMAIN Append(q, p) = 1..k /\ Append(q, p)[k] = p
        /\ \A i \in 1..(k - 1) : Append(q, p)[i] = q[i]
    BY <2>1
  <2> QED
    BY <1>3, <2>2 DEF q
<1> HIDE DEF k
<1>6. InUse' = InUse
  BY <1>1, <1>2, <1>4 DEF InUse
<1>7. p \notin PropsInUse /\ PropsInUse' = PropsInUse \cup {p}
  BY ParseAssumption DEF PropsInUse, Inv, TypeOK
<1>8. ASSUME NEW b \in Node, NEW i, NEW c
      PROVE  IsChild(b, i, c)' <=> IsChild(b, i, c)
  BY <1>2, <1>3, <1>6 DEF IsChild
<1>9. ASSUME NEW b \in Node, NEW i \in Nat, NEW q
      PROVE  IsProp(b, i, q)' <=> IsProp(b, i, q) \/ (b = a /\ i = k /\ q = p)
  <2>1. CASE b = a
    BY <1>1, <1>5, <1>6, <2>1 DEF IsProp
  <2>2. CASE b # a
    BY <1>2, <1>6, <2>2 DEF IsProp
  <2> QED
    BY <2>1, <2>2
<1>10. \A b \in Node : IsRoot(b)' <=> IsRoot(b)
  BY DEF IsRoot
<1>11. NodesInv'
  <2>1. ChildSound' /\ ChildOnce' /\ RootSound' /\ Ended'
    BY <1>6, <1>8, <1>10 DEF ChildSound, ChildOnce, RootSound, Ended
  <2>2. RootOnce'
    BY DEF RootOnce
  <2>3. AllReached'
    BY <1>6, <1>8, <1>10 DEF AllReached, ClosedIn
  <2> QED
    BY <2>1, <2>2, <2>3
<1>12. \A b \in Node, i \in Nat : ~IsProp(b, i, p)
  BY <1>7 DEF PropSound
<1>13. PropSound' /\ PropOnce'
  BY <1>7, <1>9, <1>12 DEF PropSound, PropOnce
<1>14. PropReached'
  <2> SUFFICES ASSUME NEW q \in PropsInUse'
               PROVE  \E b \in Node, i \in Nat : IsProp(b, i, q)'
    BY DEF PropReached
  <2>1. CASE q = p
    BY <1>1, <1>9, <2>1
  <2>2. CASE q \in PropsInUse
    BY <1>9, <2>2 DEF PropReached
  <2> QED
    BY <1>7, <2>1, <2>2
<1> QED
  BY <1>11, <1>13, <1>14

\* Return: the innermost root becomes the last child of the next.
LEMMA HandHeap ==
  ASSUME Inv, HeapInv, result = "parsing", result' = result, prop' = prop,
         NEW k \in Nat, k >= 2, DOMAIN frames = 1..k, DOMAIN frames' = 1..(k - 1),
         \A i \in 1..(k - 1) : frames'[i] = frames[i],
         NEW s \in NodeStruct,
         s.children = Append(node[frames[k - 1].node].children, frames[k].node),
         s.props = node[frames[k - 1].node].props,
         node' = [node EXCEPT ![frames[k - 1].node] = s]
  PROVE  HeapInv'
<1>a. PICK a : a = frames[k - 1].node
  OBVIOUS
<1>b. PICK b : b = frames[k].node
  OBVIOUS
<1>s. /\ s.children = Append(node[a].children, b) /\ s.props = node[a].props
      /\ node' = [node EXCEPT ![a] = s]
  BY <1>a, <1>b
<1> USE DEF HeapInv, NodesInv, PropsInv
<1> DEFINE m == Len(node[a].children) + 1
<1>1. k - 1 \in 1..k /\ k \in 1..k /\ k # k - 1 /\ \A i \in 1..k : i \in 1..(k - 1) \/ i = k
  OBVIOUS
<1>2. a \in Node /\ b \in Node /\ a # b /\ IsRoot(a) /\ IsRoot(b)
  <2>1. frames[k - 1] \in Frame /\ frames[k] \in Frame
    BY <1>1 DEF Inv, TypeOK
  <2> QED
    BY <1>1, <1>a, <1>b, <2>1 DEF Frame, IsRoot, RootOnce
<1>3. a \in InUse /\ b \in InUse
  BY <1>2 DEF RootSound
<1>4. /\ node[a] \in NodeStruct /\ node[a].children \in Seq(Node)
      /\ DOMAIN node[a].children = 1..(m - 1) /\ m \in Nat /\ m >= 1
  BY <1>3, NodeParts DEF Inv
<1>5. /\ node'[a].children = Append(node[a].children, b)
      /\ node'[a].props = node[a].props
      /\ node'[a] \in NodeStruct
      /\ \A c \in Node : c # a => node'[c] = node[c]
  BY <1>s, <1>2 DEF Inv, TypeOK
<1>6. node'[a] # JUNK
  BY <1>5, ParseAssumption
<1>7. /\ DOMAIN node'[a].children = 1..m
      /\ \A i \in 1..(m - 1) : node'[a].children[i] = node[a].children[i]
      /\ node'[a].children[m] = b
  <2> DEFINE q == node[a].children
  <2>1. q \in Seq(Node) /\ m = Len(q) + 1
    BY <1>4
  <2> HIDE DEF q, m
  <2>2. /\ DOMAIN Append(q, b) = 1..m /\ Append(q, b)[m] = b
        /\ \A i \in 1..(m - 1) : Append(q, b)[i] = q[i]
    BY <1>2, <2>1
  <2> QED
    BY <1>5, <2>2 DEF q
<1> HIDE DEF m
<1>8. InUse' = InUse /\ PropsInUse' = PropsInUse
  BY <1>3, <1>5, <1>6 DEF InUse, PropsInUse
<1>9. ASSUME NEW c \in Node, NEW i \in Nat, NEW d
      PROVE  IsChild(c, i, d)' <=> IsChild(c, i, d) \/ (c = a /\ i = m /\ d = b)
  <2>1. CASE c = a
    <3>1. IsChild(a, i, d)' <=> i \in 1..m /\ node'[a].children[i] = d
      BY <1>3, <1>7, <1>8 DEF IsChild
    <3>2. IsChild(a, i, d) <=> i \in 1..(m - 1) /\ node[a].children[i] = d
      BY <1>3, <1>4 DEF IsChild
    <3>3. i \in 1..m <=> i \in 1..(m - 1) \/ i = m
      BY <1>4
    <3> QED
      BY <1>7, <2>1, <3>1, <3>2, <3>3
  <2>2. CASE c # a
    BY <1>5, <1>8, <2>2 DEF IsChild
  <2> QED
    BY <2>1, <2>2
<1>10. ASSUME NEW c \in Node, NEW i, NEW p
       PROVE  IsProp(c, i, p)' <=> IsProp(c, i, p)
  BY <1>5, <1>8 DEF IsProp
<1>11. \A c \in Node : IsRoot(c)' <=> IsRoot(c) /\ c # b
  <2> SUFFICES ASSUME NEW c \in Node PROVE IsRoot(c)' <=> IsRoot(c) /\ c # b
    OBVIOUS
  <2>1. c # "parsing"
    BY ParseAssumption
  <2>2. IsRoot(c) <=> \E i \in 1..k : frames[i].node = c
    BY <2>1 DEF IsRoot
  <2>3. IsRoot(c)' <=> \E i \in 1..(k - 1) : frames[i].node = c
    BY <2>1 DEF IsRoot
  <2>4. \A i \in 1..(k - 1) : i \in 1..k /\ i # k
    OBVIOUS
  <2>5. \A i \in 1..(k - 1) : frames[i].node # b
    BY <1>1, <1>b, <2>4 DEF RootOnce
  <2> QED
    BY <1>1, <1>b, <2>2, <2>3, <2>4, <2>5
<1>12. \A c \in Node, i \in Nat : ~IsChild(c, i, b)
  BY <1>2 DEF ChildSound
<1>13. ChildSound' /\ ChildOnce'
  BY <1>3, <1>8, <1>9, <1>11, <1>12 DEF ChildSound, ChildOnce
<1>14. RootSound' /\ Ended'
  BY <1>8, <1>11 DEF RootSound, Ended
<1>15. RootOnce'
  <2>1. \A i \in 1..(k - 1) : i \in 1..k
    OBVIOUS
  <2> QED
    BY <2>1 DEF RootOnce
<1>16. AllReached'
  <2> SUFFICES ASSUME NEW S \in SUBSET Node, ClosedIn(S)', \A c \in Node : IsRoot(c)' => c \in S
               PROVE  InUse' \subseteq S
    BY DEF AllReached
  <2>1. ClosedIn(S)
    BY <1>9 DEF ClosedIn
  <2>2. a \in S /\ \E j \in Nat : IsChild(a, j, b)'
    BY <1>2, <1>4, <1>9, <1>11
  <2>3. b \in S
    BY <1>2, <2>2 DEF ClosedIn
  <2>4. \A c \in Node : IsRoot(c) => c \in S
    BY <1>11, <2>3
  <2> QED
    BY <1>8, <2>1, <2>4 DEF AllReached
<1>17. PropsInv'
  BY <1>8, <1>10 DEF PropSound, PropOnce, PropReached
<1> QED
  BY <1>13, <1>14, <1>15, <1>16, <1>17

\* Abandon: the innermost root goes with all that hangs from it, and nothing else does.
LEMMA DropHeap ==
  ASSUME Inv, HeapInv, result = "parsing", result' = result,
         NEW k \in Nat, k >= 1, DOMAIN frames = 1..k, DOMAIN frames' = 1..(k - 1),
         \A i \in 1..(k - 1) : frames'[i] = frames[i],
         NEW b, b = frames[k].node,
         node' = [a \in Node |-> IF a \in Subtree(b) THEN JUNK ELSE node[a]],
         prop' = [p \in Prop |-> IF p \in PropsOf(Subtree(b)) THEN JUNK ELSE prop[p]]
  PROVE  HeapInv'
<1> USE DEF HeapInv, NodesInv, PropsInv
<1>1. k \in 1..k /\ \A i \in 1..k : i \in 1..(k - 1) \/ i = k
  OBVIOUS
<1>2. b \in Node /\ IsRoot(b)
  <2>1. frames[k] \in Frame
    BY <1>1 DEF Inv, TypeOK
  <2> QED
    BY <1>1, <2>1 DEF Frame, IsRoot
<1>3. b \in InUse
  BY <1>2 DEF RootSound
<1> DEFINE T == Subtree(b)
           Q == PropsOf(T)
<1>4. /\ b \in T /\ T \subseteq InUse /\ ClosedIn(T)
      /\ \A c \in T : c = b \/ \E d \in T, i \in Nat : IsChild(d, i, c)
  BY <1>3, SubtreeIs DEF Inv
<1>5. \A p : p \in Q <=> \E a \in T : \E i \in DOMAIN node[a].props : IsProp(a, i, p)
  BY <1>4, PropsOfAre
<1>6. /\ InUse' = InUse \ T /\ InUse \subseteq Node
      /\ \A c \in Node : c \notin T => node'[c] = node[c]
  BY DEF InUse
<1>7. PropsInUse' = PropsInUse \ Q
  BY DEF PropsInUse
<1> HIDE DEF T, Q
<1>8. ASSUME NEW c \in Node, NEW i, NEW d
      PROVE  /\ IsChild(c, i, d)' <=> IsChild(c, i, d) /\ c \notin T
             /\ IsProp(c, i, d)' <=> IsProp(c, i, d) /\ c \notin T
  BY <1>6 DEF IsChild, IsProp
<1>9. \A c \in Node : IsRoot(c)' <=> IsRoot(c) /\ c # b
  <2> SUFFICES ASSUME NEW c \in Node
               PROVE  (\E i \in 1..(k - 1) : frames[i].node = c)
                        <=> (\E i \in 1..k : frames[i].node = c) /\ c # b
    BY ParseAssumption DEF IsRoot
  <2>1. \A i \in 1..(k - 1) : i \in 1..k /\ i # k
    OBVIOUS
  <2> QED
    BY <1>1, <2>1 DEF RootOnce
<1>10. ASSUME NEW c \in Node, NEW i \in Nat, NEW d \in Node, IsChild(c, i, d), c \notin T
       PROVE  d \notin T
  <2>1. d # b
    BY <1>2, <1>10 DEF ChildSound
  <2> QED
    BY <1>4, <1>6, <1>10, <2>1 DEF ChildOnce
<1>11. ASSUME NEW c \in Node, IsRoot(c), c # b PROVE c \notin T
  BY <1>4, <1>6, <1>11 DEF ChildSound
<1>12. ASSUME NEW c \in Node, NEW i \in Nat, NEW p \in Prop, IsProp(c, i, p), c \notin T
       PROVE  p \notin Q
  <2> SUFFICES ASSUME p \in Q PROVE FALSE
    OBVIOUS
  <2>1. PICK a \in T : \E j \in DOMAIN node[a].props : IsProp(a, j, p)
    BY <1>5
  <2>2. PICK j : IsProp(a, j, p)
    BY <2>1
  <2>3. a \in Node /\ j \in Nat
    BY <2>2, PropIs DEF Inv
  <2> QED
    BY <1>12, <2>2, <2>3 DEF PropOnce
<1>13. ChildSound' /\ ChildOnce' /\ RootSound' /\ Ended'
  BY <1>6, <1>8, <1>9, <1>10, <1>11 DEF ChildSound, ChildOnce, RootSound, Ended
<1>14. RootOnce'
  <2>1. \A i \in 1..(k - 1) : i \in 1..k
    OBVIOUS
  <2> QED
    BY <2>1 DEF RootOnce
<1>15. AllReached'
  <2> SUFFICES ASSUME NEW S \in SUBSET Node, ClosedIn(S)', \A c \in Node : IsRoot(c)' => c \in S
               PROVE  InUse' \subseteq S
    BY DEF AllReached
  <2>1. S \cup T \in SUBSET Node
    BY <1>4, <1>6
  <2>2. ClosedIn(S \cup T)
    BY <1>4, <1>6, <1>8 DEF ClosedIn
  <2>3. \A c \in Node : IsRoot(c) => c \in S \cup T
    BY <1>4, <1>9
  <2>4. InUse \subseteq S \cup T
    BY <2>1, <2>2, <2>3 DEF AllReached
  <2> QED
    BY <1>6, <2>4
<1>16. PropSound' /\ PropOnce'
  BY <1>7, <1>8, <1>12 DEF PropSound, PropOnce
<1>17. PropReached'
  <2> SUFFICES ASSUME NEW p \in PropsInUse, p \notin Q
               PROVE  \E a \in Node, i \in Nat : IsProp(a, i, p)'
    BY <1>7 DEF PropReached
  <2>1. PICK a \in Node, i \in Nat : IsProp(a, i, p)
    BY DEF PropReached
  <2>2. a \notin T
    BY <1>5, <2>1 DEF IsProp
  <2> QED
    BY <1>8, <2>1, <2>2
<1> QED
  BY <1>13, <1>14, <1>15, <1>16, <1>17

LEMMA HeapStep == Inv /\ HeapInv /\ [Next]_vars => HeapInv'
<1> SUFFICES ASSUME Inv, HeapInv, [Next]_vars PROVE HeapInv'
  OBVIOUS
<1>0. TypeOK /\ RootOnce /\ Ended
  BY DEF Inv, HeapInv, NodesInv
<1>1. CASE UNCHANGED vars
  BY <1>0, <1>1, SameHeap DEF vars, RootOnce, Ended, IsRoot
<1>2. CASE TooShort
  <2>1. \A a \in Node : IsRoot(a)' <=> IsRoot(a)
    BY <1>2, ParseAssumption DEF TooShort, IsRoot
  <2> QED
    BY <1>0, <1>2, <2>1, SameHeap DEF TooShort, heap, RootOnce, Ended
<1>3. ASSUME UNCHANGED <<frames, node, prop, result>> PROVE HeapInv'
  BY <1>0, <1>3, SameHeap DEF RootOnce, Ended, IsRoot
<1>4. CASE parse_node
  <2>1. CASE UNCHANGED <<frames, node>>
    BY <1>3, <1>4, <2>1 DEF parse_node
  <2>2. ASSUME NEW np \in Count, NEW nc \in Count, NEW a \in Node, node[a] = JUNK,
               node' = [node EXCEPT ![a] = [n_props |-> np, n_children |-> nc,
                                            props |-> <<>>, children |-> <<>>]],
               frames' = Entered(a, np, nc)
        PROVE  HeapInv'
    <3> DEFINE t == [Top EXCEPT !.children = @ - 1]
               old == IF frames = <<>> THEN <<>> ELSE Advanced(t)
               f == [node |-> a, props |-> np, children |-> nc]
    <3>1. np \in Nat /\ nc \in Nat /\ f \in Frame /\ f.node = a
      BY ParseAssumption DEF Frame
    <3>k. PICK k \in Nat : k = Len(frames)
      BY <1>0 DEF TypeOK
    <3>2. DOMAIN frames = 1..k
      BY <1>0, <3>k DEF TypeOK
    <3>3. /\ old \in Seq(Frame) /\ Len(old) = k
          /\ \A i \in 1..k : old[i].node = frames[i].node
      <4>1. CASE frames = <<>>
        BY <3>k, <4>1
      <4>2. CASE frames # <<>>
        <5>1. Top \in Frame /\ Top.props = 0 /\ Top.children > 0
          BY <1>0, <1>4, <4>2, TopIsFrame DEF parse_node, Called
        <5>2. t \in Frame /\ t.node = Top.node
          BY <5>1 DEF Frame
        <5> HIDE DEF t
        <5>3. /\ Advanced(t) \in Seq(Frame) /\ Len(Advanced(t)) = k
              /\ \A i \in 1..k : Advanced(t)[i] = IF i = k THEN t ELSE frames[i]
          BY <1>0, <3>k, <4>2, <5>2, AdvancedIs
        <5>4. Top = frames[k]
          BY <3>k DEF Top
        <5> QED
          BY <4>2, <5>2, <5>3, <5>4
      <4> QED
        BY <4>1, <4>2
    <3>4. frames' = Append(old, f)
      BY <2>2 DEF Entered
    <3> HIDE DEF old, f, t
    <3>5. /\ DOMAIN frames' = 1..(k + 1)
          /\ \A i \in 1..k : frames'[i].node = frames[i].node
          /\ frames'[k + 1].node = a
      BY <3>1, <3>3, <3>4
    <3>6. result = "parsing" /\ result' = result /\ prop' = prop
      BY <1>4 DEF parse_node, Called
    <3> QED
      BY <2>2, <3>1, <3>2, <3>5, <3>6, GrowHeap
  <2> QED
    BY <1>4, <2>1, <2>2 DEF parse_node
<1>5. CASE parse_prop
  <2>0. frames # <<>> /\ ~err /\ result = "parsing" /\ result' = result
    BY <1>5 DEF parse_prop
  <2>1. CASE UNCHANGED <<frames, heap>>
    BY <1>3, <2>0, <2>1 DEF heap
  <2>2. ASSUME NEW p \in Prop, prop[p] = JUNK, prop' = [prop EXCEPT ![p] = JUNK],
               UNCHANGED <<frames, node>>
        PROVE  HeapInv'
    <3>1. prop' = prop
      BY <1>0, <2>2 DEF TypeOK
    <3> QED
      BY <1>3, <2>0, <2>2, <3>1
  <2>3. ASSUME NEW p \in Prop, NEW n \in DataLength, prop[p] = JUNK,
               prop' = [prop EXCEPT ![p] = [data |-> off + PropSize, length |-> n]],
               node' = Linked(p), frames' = Advanced([Top EXCEPT !.props = @ - 1])
        PROVE  HeapInv'
    <3> DEFINE t == [Top EXCEPT !.props = @ - 1]
               s == [data |-> off + PropSize, length |-> n]
    <3>1. s \in PropStruct
      BY <1>0, ParseAssumption DEF TypeOK, PropStruct, PropSize
    <3>k. PICK k \in Nat : k = Len(frames)
      BY <1>0 DEF TypeOK
    <3>2. k \in 1..k /\ DOMAIN frames = 1..k /\ Top = frames[k] /\ Top.node \in Node
      BY <1>0, <2>0, <3>k, TopIsFrame DEF Top, Frame
    <3>3. Top.node \in InUse
      BY <3>2 DEF HeapInv, NodesInv, RootSound, IsRoot
    <3>4. t \in Frame /\ t.node = Top.node
      <4>1. Top \in Frame /\ Top.props > 0
        BY <1>0, <1>5, <2>0, TopIsFrame DEF parse_prop
      <4> QED
        BY <4>1 DEF Frame
    <3>5. /\ DOMAIN frames' = DOMAIN frames
          /\ \A i \in DOMAIN frames : frames'[i].node = frames[i].node
      <4> HIDE DEF t
      <4>1. frames' = Advanced(t)
        BY <2>3 DEF t
      <4>2. /\ Advanced(t) \in Seq(Frame) /\ Len(Advanced(t)) = k
            /\ \A i \in 1..k : Advanced(t)[i] = IF i = k THEN t ELSE frames[i]
        BY <1>0, <2>0, <3>k, <3>2, <3>4, AdvancedIs
      <4> QED
        BY <3>2, <3>4, <4>1, <4>2
    <3>6. node' = [node EXCEPT ![Top.node] =
                     [node[Top.node] EXCEPT !.props = Append(@, p)]]
      BY <2>3 DEF Linked
    <3> HIDE DEF s, t
    <3>7. prop' = [prop EXCEPT ![p] = s]
      BY <2>3 DEF s
    <3> QED
      BY <2>0, <2>3, <3>1, <3>3, <3>5, <3>6, <3>7, LinkHeap
  <2> QED
    BY <1>5, <2>1, <2>2, <2>3 DEF parse_prop, Freed
<1>6. CASE Return
  <2>0. frames # <<>> /\ result = "parsing" /\ frames' = Caller /\ prop' = prop
    BY <1>6 DEF Return
  <2>k. PICK k \in Nat : k = Len(frames)
    BY <1>0 DEF TypeOK
  <2>1. /\ k >= 1 /\ DOMAIN frames = 1..k /\ Top = frames[k]
        /\ DOMAIN frames' = 1..(k - 1) /\ \A i \in 1..(k - 1) : frames'[i] = frames[i]
        /\ Len(Caller) = k - 1
    BY <1>0, <2>0, <2>k, TopIsFrame DEF Top
  <2>2. CASE k = 1
    <3>1. result' = frames[1].node /\ node' = node
      BY <1>6, <2>k, <2>1, <2>2 DEF Return
    <3>2. DOMAIN frames = {1} /\ DOMAIN frames' = {} /\ frames' = <<>>
      BY <1>0, <2>0, <2>1, <2>2, TopIsFrame
    <3>3. \A a \in Node : IsRoot(a)' <=> IsRoot(a)
      BY <2>0, <3>1, <3>2, ParseAssumption DEF IsRoot
    <3>4. RootOnce' /\ Ended'
      BY <3>2 DEF RootOnce, Ended
    <3> QED
      BY <1>0, <2>0, <3>1, <3>3, <3>4, SameHeap
  <2>3. CASE k # 1
    <3>1. k >= 2 /\ k - 1 \in 1..(k - 1)
      BY <2>1, <2>3
    <3>2. Caller[Len(Caller)].node = frames[k - 1].node
      BY <2>0, <2>1, <3>1
    <3>3. /\ node' = [node EXCEPT ![Caller[Len(Caller)].node].children = Append(@, Top.node)]
          /\ result' = result
      BY <1>6, <2>k, <2>3 DEF Return
    <3>a. PICK a : a = frames[k - 1].node
      OBVIOUS
    <3>b. PICK b : b = frames[k].node
      OBVIOUS
    <3>5. a \in InUse /\ b \in Node
      <4>1. frames[k - 1] \in Frame /\ frames[k] \in Frame
        BY <1>0, <2>1, <3>1 DEF TypeOK
      <4>2. a \in Node /\ b \in Node /\ IsRoot(a)
        BY <2>1, <3>1, <3>a, <3>b, <4>1 DEF Frame, IsRoot
      <4> QED
        BY <4>2 DEF HeapInv, NodesInv, RootSound
    <3> DEFINE s == [node[a] EXCEPT !.children = Append(node[a].children, b)]
    <3>6. Append(node[a].children, b) \in Seq(Node) /\ node[a] \in NodeStruct
      BY <1>0, <3>5, NodeParts
    <3>7. s \in NodeStruct /\ s.children = Append(node[a].children, b) /\ s.props = node[a].props
      BY <3>6 DEF NodeStruct
    <3>8. node' = [node EXCEPT ![a] = s]
      BY <2>1, <3>2, <3>3, <3>a, <3>b
    <3> HIDE DEF s
    <3>9. /\ s.children = Append(node[frames[k - 1].node].children, frames[k].node)
          /\ s.props = node[frames[k - 1].node].props
          /\ node' = [node EXCEPT ![frames[k - 1].node] = s]
      BY <3>a, <3>b, <3>7, <3>8
    <3> QED
      BY <2>0, <2>1, <3>1, <3>3, <3>7, <3>9, HandHeap
  <2> QED
    BY <2>2, <2>3
<1>7. CASE Abandon
  <2>1. CASE frames = <<>>
    <3>1. \A a \in Node : IsRoot(a)' <=> IsRoot(a)
      BY <1>7, <2>1, ParseAssumption DEF Abandon, heap, IsRoot
    <3> QED
      BY <1>0, <1>7, <2>1, <3>1, SameHeap DEF Abandon, heap, RootOnce, Ended
  <2>2. CASE frames # <<>>
    <3>k. PICK k \in Nat : k = Len(frames)
      BY <1>0 DEF TypeOK
    <3>0. frames' = Caller /\ result = "parsing" /\ result' = result
      BY <1>7, <2>2 DEF Abandon
    <3>1. /\ k >= 1 /\ DOMAIN frames = 1..k /\ Top = frames[k]
          /\ DOMAIN frames' = 1..(k - 1) /\ \A i \in 1..(k - 1) : frames'[i] = frames[i]
      BY <1>0, <2>2, <3>k, <3>0, TopIsFrame DEF Top
    <3>2. PICK b : b = frames[k].node
      OBVIOUS
    <3>3. /\ node' = [a \in Node |-> IF a \in Subtree(b) THEN JUNK ELSE node[a]]
          /\ prop' = [p \in Prop |-> IF p \in PropsOf(Subtree(b)) THEN JUNK ELSE prop[p]]
      BY <1>7, <2>2, <3>1, <3>2 DEF Abandon, Given
    <3> QED
      BY <3>0, <3>1, <3>2, <3>3, DropHeap
  <2> QED
    BY <2>1, <2>2
<1> QED
  BY <1>1, <1>2, <1>4, <1>5, <1>6, <1>7 DEF Next

LEMMA HeapAlways == Spec => []HeapInv
BY HeapStart, HeapStep, Invariance, PTL DEF Spec

\* Each struct is linked from one place, so the dt_free of a failed parse, which runs once
\* per call under way, meets none twice (apple_dt.c:79-94, 101).
THEOREM EachLinkedOnce == Spec => []LinkedOnce
<1>1. Inv /\ HeapInv => LinkedOnce
  BY SoundLinkedOnce, ParseAssumption DEF Inv
<1> QED
  BY <1>1, HeapAlways, Invariance, PTL

\* When dt_parse returns, what is on the heap is the tree returned, and on failure nothing:
\* every early return has given back what it held (apple_dt.c:55, 93, 101).
THEOREM NothingIsLost == Spec => []NothingLost
<1>1. Inv /\ HeapInv => NothingLost
  BY SoundNothingLost, ParseAssumption DEF Inv
<1> QED
  BY <1>1, HeapAlways, Invariance, PTL

-----------------------------------------------------------------------------
(***************************************************************************)
(* The cursor: until an error, every byte it has passed belongs to a       *)
(* struct of the heap.                                                     *)
(***************************************************************************)
Total == MapThenSumSet(Encoded, PropsInUse)
Bytes == [p \in PropsInUse |-> PropSize + Align(prop[p].length)]
Finite == IsFiniteSet(InUse) /\ IsFiniteSet(PropsInUse)
Paid == Finite /\ Consumed

\* The encoding of a property is its header and its data, rounded up to a multiple of 4.
LEMMA EncodedIs ==
  ASSUME NEW p, prop[p].length \in Nat
  PROVE  Encoded(p) = PropSize + Align(prop[p].length)
<1> DEFINE n == prop[p].length
<1>1. Align(n) \in n..(n + 3) /\ Align(n) % 4 = 0
  BY DEF Align
<1>2. \A m \in n..(n + 3) : m % 4 = 0 => m = Align(n)
  BY DEF Align
<1>3. (CHOOSE m \in n..(n + 3) : m % 4 = 0) = Align(n)
  <2> HIDE DEF n
  <2> QED
    BY <1>1, <1>2
<1> QED
  BY <1>3 DEF Encoded

LEMMA BytesTyped == TypeOK => Bytes \in [PropsInUse -> Int]
<1> SUFFICES ASSUME TypeOK, NEW p \in PropsInUse
             PROVE  PropSize + Align(prop[p].length) \in Int
  BY DEF Bytes
<1>1. prop[p].length \in Nat
  BY DEF TypeOK, PropsInUse, PropStruct
<1> QED
  BY <1>1, AlignIs DEF PropSize

\* What Consumed adds up is the sum of these bytes.
LEMMA TotalIs ==
  TypeOK /\ IsFiniteSet(PropsInUse)
    => \E g : SumsTo(g, PropsInUse, Bytes) /\ Total = g[PropsInUse]
<1> SUFFICES ASSUME TypeOK, IsFiniteSet(PropsInUse)
             PROVE  \E g : SumsTo(g, PropsInUse, Bytes) /\ Total = g[PropsInUse]
  OBVIOUS
<1> DEFINE Sums(f) ==
             f = [s \in SUBSET PropsInUse |->
                    IF s = {} THEN 0 ELSE Encoded(Picked(s)) + f[s \ {Picked(s)}]]
<1>1. Total = (CHOOSE f : Sums(f))[PropsInUse]
  BY DEF Total, MapThenSumSet, MapThenFoldSet, Picked
<1>2. \A s \in SUBSET PropsInUse : s # {} => Encoded(Picked(s)) = Bytes[Picked(s)]
  <2> SUFFICES ASSUME NEW s \in SUBSET PropsInUse, s # {}
               PROVE  Encoded(Picked(s)) = Bytes[Picked(s)]
    OBVIOUS
  <2>1. Picked(s) \in PropsInUse
    BY PickedIs
  <2>2. prop[Picked(s)].length \in Nat
    BY <2>1 DEF TypeOK, PropsInUse, PropStruct
  <2> QED
    BY <2>1, <2>2, EncodedIs DEF Bytes
<1>3. \A f : Sums(f) <=> Solves(f, PropsInUse, Bytes)
  <2> DEFINE F(f) == [s \in SUBSET PropsInUse |->
                        IF s = {} THEN 0 ELSE Encoded(Picked(s)) + f[s \ {Picked(s)}]]
             G(f) == [s \in SUBSET PropsInUse |->
                        IF s = {} THEN 0 ELSE Bytes[Picked(s)] + f[s \ {Picked(s)}]]
  <2>1. \A f : F(f) = G(f)
    BY <1>2
  <2> QED
    BY <2>1 DEF Solves
<1> HIDE DEF Sums
<1>4. PICK g : /\ SumsTo(g, PropsInUse, Bytes) /\ Solves(g, PropsInUse, Bytes)
               /\ \A f : Solves(f, PropsInUse, Bytes) => f = g
  BY BytesTyped, SumsSolve
<1>5. (CHOOSE f : Sums(f)) = g
  BY <1>3, <1>4
<1> QED
  BY <1>1, <1>4, <1>5

LEMMA TotalNext ==
  TypeOK' /\ IsFiniteSet(PropsInUse)'
    => \E g : SumsTo(g, PropsInUse', Bytes') /\ Total' = g[PropsInUse']
<1>1. (TypeOK /\ IsFiniteSet(PropsInUse)
         => \E g : SumsTo(g, PropsInUse, Bytes) /\ Total = g[PropsInUse])'
  BY TotalIs, PTL
<1> QED
  BY <1>1

LEMMA ConsumedIs ==
  Consumed <=> (~err => off = HeaderSize * Cardinality(InUse) + Total
                        /\ Len(frames) <= Cardinality(InUse))
BY DEF Consumed, Total


LEMMA PaidStart == Init => Paid
<1> SUFFICES ASSUME Init PROVE Paid
  OBVIOUS
<1>1. InUse = {} /\ PropsInUse = {}
  BY DEF Init, InUse, PropsInUse
<1>2. Finite /\ Cardinality(InUse) = 0
  BY <1>1, FS_EmptySet DEF Finite
<1>3. Total = 0
  <2>1. PICK g : SumsTo(g, PropsInUse, Bytes) /\ Total = g[PropsInUse]
    BY <1>2, InitInv, TotalIs DEF Finite, Inv
  <2> QED
    BY <1>1, <2>1 DEF SumsTo
<1>4. off = 0 /\ Len(frames) = 0
  BY DEF Init
<1> QED
  BY <1>2, <1>3, <1>4, ConsumedIs DEF Paid, HeaderSize

\* Whatever a failing step does, it takes no struct that was not there.
LEMMA FinitePrime ==
  ASSUME Finite, InUse' \subseteq InUse, PropsInUse' \subseteq PropsInUse
  PROVE  Finite'
BY FS_Subset DEF Finite

\* One property more costs its bytes.
LEMMA OneMoreProp ==
  ASSUME TypeOK, TypeOK', IsFiniteSet(PropsInUse), NEW p \in Prop, p \notin PropsInUse,
         NEW s \in PropStruct, prop' = [prop EXCEPT ![p] = s]
  PROVE  /\ PropsInUse' = PropsInUse \cup {p} /\ IsFiniteSet(PropsInUse')
         /\ Total \in Int /\ Total' = (PropSize + Align(s.length)) + Total
<1>1. s # JUNK /\ prop'[p] = s /\ \A q \in Prop : q # p => prop'[q] = prop[q]
  BY ParseAssumption DEF TypeOK
<1>2. PropsInUse' = PropsInUse \cup {p}
  BY <1>1 DEF PropsInUse
<1>3. IsFiniteSet(PropsInUse')
  BY <1>2, FS_AddElement
<1>4. PICK g : SumsTo(g, PropsInUse, Bytes) /\ Total = g[PropsInUse]
  BY TotalIs
<1>5. PICK h : SumsTo(h, PropsInUse', Bytes') /\ Total' = h[PropsInUse']
  BY <1>3, TotalNext
<1>6. \A q \in PropsInUse : Bytes'[q] = Bytes[q]
  BY <1>1, <1>2 DEF Bytes, PropsInUse
<1>7. Bytes'[p] = PropSize + Align(s.length)
  BY <1>1, <1>2 DEF Bytes
<1>8. Bytes' \in [PropsInUse' -> Int]
  <2>1. (TypeOK => Bytes \in [PropsInUse -> Int])'
    BY BytesTyped, PTL
  <2> QED
    BY <2>1
<1>9. h[PropsInUse'] = Bytes'[p] + h[PropsInUse' \ {p}]
  BY <1>2, <1>3, <1>5, <1>8, SumsAny
<1>10. PropsInUse' \ {p} = PropsInUse /\ PropsInUse \in SUBSET PropsInUse'
  BY <1>2
<1>11. h[PropsInUse] = g[PropsInUse]
  <2>1. Bytes \in [PropsInUse -> Int]
    BY BytesTyped
  <2> QED
    BY <1>3, <1>4, <1>5, <1>6, <1>8, <1>10, <2>1, SumsAgree
<1>12. g[PropsInUse] \in Int
  BY <1>4 DEF SumsTo
<1> QED
  BY <1>2, <1>3, <1>4, <1>5, <1>7, <1>9, <1>10, <1>11, <1>12

LEMMA PaidStep == Inv /\ Inv' /\ HeapInv /\ Paid /\ [Next]_vars => Paid'
<1> SUFFICES ASSUME Inv, Inv', HeapInv, Paid, [Next]_vars PROVE Paid'
  OBVIOUS
<1>0. /\ TypeOK /\ TypeOK' /\ Finite /\ Cardinality(InUse) \in Nat /\ size \in Nat /\ off \in Nat
      /\ Total \in Int
  <2>1. PICK g : SumsTo(g, PropsInUse, Bytes) /\ Total = g[PropsInUse]
    BY TotalIs DEF Inv, Paid, Finite
  <2>2. Total \in Int
    BY <2>1 DEF SumsTo
  <2> QED
    BY <2>2, FS_CardinalityType, ParseAssumption DEF Inv, Paid, Finite, TypeOK
<1>c. /\ Consumed <=> (~err => off = HeaderSize * Cardinality(InUse) + Total
                               /\ Len(frames) <= Cardinality(InUse))
      /\ Consumed' <=> (~err' => off' = HeaderSize * Cardinality(InUse') + Total'
                                 /\ Len(frames') <= Cardinality(InUse'))
  <2>1. (Consumed <=> (~err => off = HeaderSize * Cardinality(InUse) + Total
                               /\ Len(frames) <= Cardinality(InUse)))'
    BY ConsumedIs, PTL
  <2> QED
    BY <2>1, ConsumedIs
\* A step after which err is set owes nothing.
<1>e. ASSUME err', InUse' \subseteq InUse, PropsInUse' \subseteq PropsInUse PROVE Paid'
  BY <1>0, <1>c, <1>e, FinitePrime DEF Paid
\* A step that leaves the properties alone leaves their bytes.
<1>s. ASSUME prop' = prop PROVE PropsInUse' = PropsInUse /\ Total' = Total
  <2>1. PropsInUse' = PropsInUse /\ Bytes' = Bytes
    BY <1>s DEF PropsInUse, Bytes
  <2>2. PICK g : SumsTo(g, PropsInUse, Bytes) /\ Total = g[PropsInUse]
    BY <1>0, TotalIs DEF Finite
  <2>3. PICK h : SumsTo(h, PropsInUse, Bytes) /\ Total' = h[PropsInUse]
    BY <1>0, <2>1, TotalNext DEF Finite
  <2>4. g[PropsInUse] = h[PropsInUse]
    BY <1>0, <2>2, <2>3, BytesTyped, SumsAgree DEF Finite
  <2> QED
    BY <2>1, <2>2, <2>3, <2>4
<1>1. CASE UNCHANGED <<off, err, frames, node, prop>>
  <2>1. InUse' = InUse
    BY <1>1 DEF InUse
  <2> QED
    BY <1>0, <1>1, <1>c, <1>s, <2>1 DEF Paid, Finite
<1>2. CASE UNCHANGED vars \/ TooShort
  BY <1>1, <1>2 DEF vars, TooShort, heap
<1>3. CASE parse_node
  <2>0. ~err /\ prop' = prop /\ PropsInUse' = PropsInUse
    BY <1>3 DEF parse_node, Called, PropsInUse
  <2>1. CASE err' /\ node' = node
    BY <1>e, <2>0, <2>1 DEF InUse
  <2>2. ASSUME NEW np \in Count, NEW nc \in Count, NEW a \in Node, node[a] = JUNK,
               node' = [node EXCEPT ![a] = [n_props |-> np, n_children |-> nc,
                                            props |-> <<>>, children |-> <<>>]],
               frames' = Entered(a, np, nc), off' = off + HeaderSize, UNCHANGED err
        PROVE  Paid'
    <3>1. InUse' = InUse \cup {a} /\ a \notin InUse
      <4> DEFINE s == [n_props |-> np, n_children |-> nc, props |-> <<>>, children |-> <<>>]
      <4>1. s \in NodeStruct
        BY ParseAssumption DEF NodeStruct
      <4> HIDE DEF s
      <4>2. s # JUNK /\ node'[a] = s /\ \A b \in Node : b # a => node'[b] = node[b]
        BY <1>0, <2>2, <4>1, ParseAssumption DEF TypeOK, s
      <4> QED
        BY <2>2, <4>2 DEF InUse
    <3>2. IsFiniteSet(InUse') /\ Cardinality(InUse') = Cardinality(InUse) + 1
      BY <1>0, <3>1, FS_AddElement DEF Finite
    <3>3. Total' = Total
      BY <1>s, <2>0
    <3>4. Len(frames) \in Nat /\ Len(frames') = Len(frames) + 1
      <4> DEFINE t == [Top EXCEPT !.children = @ - 1]
                 f == [node |-> a, props |-> np, children |-> nc]
      <4>1. CASE frames = <<>>
        <5>1. frames' = Append(<<>>, f)
          BY <2>2, <4>1 DEF Entered
        <5> HIDE DEF f
        <5> QED
          BY <4>1, <5>1
      <4>2. CASE frames # <<>>
        <5>1. Top \in Frame /\ Top.props = 0 /\ Top.children > 0
          BY <1>0, <1>3, <4>2, TopIsFrame DEF parse_node, Called
        <5>2. t \in Frame
          BY <5>1 DEF Frame
        <5>3. frames' = Append(Advanced(t), f)
          BY <2>2, <4>2 DEF Entered
        <5> HIDE DEF t, f
        <5>4. Advanced(t) \in Seq(Frame) /\ Len(Advanced(t)) = Len(frames)
          BY <1>0, <4>2, <5>2, AdvancedIs
        <5> QED
          BY <1>0, <4>2, <5>3, <5>4, TopIsFrame
      <4> QED
        BY <4>1, <4>2
    <3>5. off = HeaderSize * Cardinality(InUse) + Total /\ Len(frames) <= Cardinality(InUse)
      BY <1>c, <2>0 DEF Paid
    <3>6. off' = HeaderSize * Cardinality(InUse') + Total' /\ Len(frames') <= Cardinality(InUse')
      BY <1>0, <2>2, <3>2, <3>3, <3>4, <3>5 DEF HeaderSize
    <3> QED
      BY <1>0, <1>c, <2>0, <3>2, <3>6 DEF Paid, Finite
  <2> QED
    BY <1>3, <2>1, <2>2 DEF parse_node
<1>4. CASE parse_prop
  <2>0. ~err /\ frames # <<>>
    BY <1>4 DEF parse_prop
  <2>1. CASE err' /\ heap' = heap
    BY <1>e, <2>1 DEF heap, InUse, PropsInUse
  <2>2. ASSUME NEW p \in Prop, err', prop[p] = JUNK, prop' = [prop EXCEPT ![p] = JUNK], node' = node
        PROVE  Paid'
    <3>1. prop' = prop
      BY <1>0, <2>2 DEF TypeOK
    <3> QED
      BY <1>e, <2>2, <3>1 DEF InUse, PropsInUse
  <2>3. ASSUME NEW p \in Prop, NEW n \in DataLength, prop[p] = JUNK,
               prop' = [prop EXCEPT ![p] = [data |-> off + PropSize, length |-> n]],
               node' = Linked(p), frames' = Advanced([Top EXCEPT !.props = @ - 1]),
               \/ off' = off + PropSize + Align(n) /\ UNCHANGED err
               \/ err'
        PROVE  Paid'
    <3> DEFINE t == [Top EXCEPT !.props = @ - 1]
               s == [data |-> off + PropSize, length |-> n]
    <3>1. s \in PropStruct /\ n \in Nat /\ s.length = n
      BY <1>0, ParseAssumption DEF PropStruct, PropSize
    <3> HIDE DEF s
    <3>2. p \notin PropsInUse /\ prop' = [prop EXCEPT ![p] = s]
      BY <2>3 DEF PropsInUse, s
    <3>3. IsFiniteSet(PropsInUse') /\ Total' = (PropSize + Align(n)) + Total
      BY <1>0, <3>1, <3>2, OneMoreProp DEF Finite
    <3>4. Len(frames) \in Nat /\ Len(frames') = Len(frames)
      <4>1. Top \in Frame /\ Top.props > 0 /\ Len(frames) \in Nat
        BY <1>0, <1>4, <2>0, TopIsFrame DEF parse_prop
      <4>2. t \in Frame
        BY <4>1 DEF Frame
      <4> HIDE DEF t
      <4>3. Len(Advanced(t)) = Len(frames)
        BY <1>0, <2>0, <4>2, AdvancedIs
      <4> QED
        BY <2>3, <4>1, <4>3 DEF t
    <3>5. InUse' = InUse
      <4>1. Top \in Frame /\ node \in [Node -> NodeStruct \cup {JUNK}]
        BY <1>0, <2>0, TopIsFrame DEF TypeOK
      <4>2. frames[Len(frames)].node \in InUse
        BY <2>0, <1>0, TopIsFrame DEF HeapInv, NodesInv, RootSound, IsRoot, Top, Frame
      <4>3. Top.node \in InUse /\ Top.node \in Node
        BY <4>2 DEF Top, InUse
      <4>4. node' = [node EXCEPT ![Top.node] = [node[Top.node] EXCEPT !.props = Append(@, p)]]
        BY <2>3 DEF Linked
      <4>5. node[Top.node] \in NodeStruct /\ node[Top.node].props \in Seq(Prop)
        BY <1>0, <4>3, NodeParts
      <4>6. [node[Top.node] EXCEPT !.props = Append(@, p)] \in NodeStruct
        <5>1. Append(node[Top.node].props, p) \in Seq(Prop)
          BY <4>5
        <5> QED
          BY <4>5, <5>1 DEF NodeStruct
      <4> QED
        BY <4>1, <4>3, <4>4, <4>6, ParseAssumption DEF InUse
    <3>6. off = HeaderSize * Cardinality(InUse) + Total /\ Len(frames) <= Cardinality(InUse)
      BY <1>c, <2>0 DEF Paid
    <3>7. CASE err'
      BY <1>0, <1>c, <3>3, <3>5, <3>7 DEF Paid, Finite
    <3>8. CASE off' = off + PropSize + Align(n)
      <4>1. HeaderSize * Cardinality(InUse) \in Int /\ Align(n) \in Int /\ PropSize \in Int
        BY <1>0, <3>1, AlignIs DEF HeaderSize, PropSize
      <4>2. off' = HeaderSize * Cardinality(InUse') + Total'
        <5> DEFINE H == HeaderSize * Cardinality(InUse)
        <5>1. H \in Int /\ off = H + Total /\ HeaderSize * Cardinality(InUse') = H
          BY <3>5, <3>6, <4>1
        <5> HIDE DEF H
        <5> QED
          BY <1>0, <3>3, <3>8, <4>1, <5>1
      <4> QED
        BY <1>0, <1>c, <3>3, <3>4, <3>5, <3>6, <4>2 DEF Paid, Finite
    <3> QED
      BY <2>3, <3>7, <3>8
  <2> QED
    BY <1>4, <2>1, <2>2, <2>3 DEF parse_prop, Freed
<1>5. CASE Return
  <2>0. ~err /\ frames # <<>> /\ frames' = Caller /\ off' = off /\ err' = err /\ prop' = prop
    BY <1>5 DEF Return
  <2>1. InUse' = InUse
    <3>1. CASE Len(frames) = 1
      BY <1>5, <3>1 DEF Return, InUse
    <3>2. CASE Len(frames) # 1
      <4> DEFINE a == Caller[Len(Caller)].node
                 c == Append(node[a].children, Top.node)
      <4>1. a \in Node /\ Top.node \in Node /\ node \in [Node -> NodeStruct \cup {JUNK}]
        <5>1. Len(Caller) \in 1..(Len(frames) - 1) /\ Caller \in Seq(Frame) /\ Top \in Frame
          BY <1>0, <2>0, <3>2, TopIsFrame
        <5>2. Caller[Len(Caller)] \in Frame
          BY <5>1
        <5>3. \A f \in Frame : f.node \in Node
          BY DEF Frame
        <5> QED
          BY <1>0, <5>1, <5>2, <5>3 DEF TypeOK
      <4>2. a \in InUse
        <5>1. Len(frames) - 1 \in DOMAIN frames /\ a = frames[Len(frames) - 1].node
          BY <1>0, <2>0, <3>2, TopIsFrame
        <5> QED
          BY <4>1, <5>1 DEF HeapInv, NodesInv, RootSound, IsRoot
      <4>3. node' = [node EXCEPT ![a] = [node[a] EXCEPT !.children = c]]
        BY <1>5, <3>2 DEF Return
      <4>4. node[a] \in NodeStruct /\ c \in Seq(Node)
        BY <1>0, <4>1, <4>2, NodeParts
      <4> HIDE DEF a, c
      <4>5. [node[a] EXCEPT !.children = c] \in NodeStruct
        BY <4>4 DEF NodeStruct
      <4> QED
        BY <4>1, <4>2, <4>3, <4>5, ParseAssumption DEF InUse
    <3> QED
      BY <3>1, <3>2
  <2>2. PropsInUse' = PropsInUse /\ Total' = Total
    BY <1>s, <2>0
  <2>3. Len(frames) \in Nat /\ Len(frames') = Len(frames) - 1
    BY <1>0, <2>0, TopIsFrame
  <2> QED
    BY <1>0, <1>c, <2>0, <2>1, <2>2, <2>3 DEF Paid, Finite
<1>6. CASE Abandon
  BY <1>6, <1>e DEF Abandon, heap, InUse, PropsInUse
<1> QED
  BY <1>2, <1>3, <1>4, <1>5, <1>6 DEF Next

\* Until an error the cursor is past exactly the bytes of what was built, and no call is
\* under way that has not paid its eight: what dt_parse reports as consumed is the size
\* of the tree it returns (apple_dt.c:57-59, 69-70, 103).
THEOREM ConsumedIsBuilt == Spec => []Consumed
<1>1. Paid => Consumed
  BY DEF Paid
<1>2. Inv' /\ Inv /\ HeapInv /\ Paid /\ [Next]_vars => Paid'
  BY PaidStep
<1> QED
  BY <1>1, <1>2, PaidStart, HeapAlways, Invariance, PTL DEF Spec
=============================================================================
