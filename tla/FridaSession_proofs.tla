-------------------------- MODULE FridaSession_proofs --------------------------
(***************************************************************************)
(* FridaSession for any set of sessions, number of messages and boots: the *)
(* types, what a session that ended leaves behind, and that nothing        *)
(* handled is missing from the trace.                                      *)
(***************************************************************************)
EXTENDS FridaSession, FiniteSetTheorems, TLAPS

\* Only a process that was spawned is ever suspended, and never past its resumption.
Resumed ==
  \A s \in Session : target[s] = "suspended" =>
    s \in spawns /\ pc[s] \notin {"start", "watch", "detach", "done"}

\* Every message that on_message has handled has its whole line.
HandledWritten ==
  \A s \in Session : \A n \in 1..handled[s] :
    \E i \in 1..Len(trace) : trace[i] = [from |-> s, id |-> n, cut |-> "no"]

\* A cut line is the last thing its session did, and the only one of it.
CutByKilled == \A i \in 1..Len(trace) : trace[i].cut # "no" => trace[i].from \in Killed
CutOnce ==
  \A i, j \in 1..Len(trace) :
    trace[i].cut # "no" /\ trace[j].cut # "no" /\ trace[i].from = trace[j].from => i = j
Cuts == CutByKilled /\ CutOnce

Inv == TypeOK /\ Resumed /\ HandledWritten /\ Cuts

LEMMA InitInv == Init => Inv
<1> SUFFICES ASSUME Init PROVE Inv
  OBVIOUS
<1>1. Labels
  BY DEF Init, Labels
<1>2. Counts
  BY FridaAssumption DEF Init, Counts
<1>3. trace \in Seq(Line)
  BY DEF Init
<1>4. Resumed
  BY DEF Init, Resumed
<1>5. HandledWritten /\ Cuts
  BY DEF Init, HandledWritten, Cuts, CutByKilled, CutOnce
<1> QED
  BY <1>1, <1>2, <1>3, <1>4, <1>5 DEF Inv, TypeOK

\* The steps of the main thread.
LEMMA MainInv == ASSUME Inv, NEW s \in Session, Main(s) \/ Watch(s) PROVE Inv'
<1>a. Labels /\ Counts /\ trace \in Seq(Line) /\ Resumed /\ HandledWritten /\ Cuts
  BY DEF Inv, TypeOK
<1>b. UNCHANGED <<spawns, handled, boot, trace>>
  BY DEF Main, Start, Attach, Load, Ping, Pinged, Resume, Watch, Detach
<1>1. Labels'
  BY <1>a, <1>b DEF Labels, Ended, Goto, Becomes, Raise, Main, Start, Attach, Load, Ping, Pinged,
    Resume, Watch, Detach
<1>2. Counts'
  <2>1. sent' \in [Session -> 0..MaxEvents] /\ \A t \in Session : sent[t] <= sent'[t]
    <3>1. CASE Sends(s)
      BY <1>a, <3>1, FridaAssumption DEF Counts, Sends
    <3>2. CASE UNCHANGED sent
      BY <1>a, <3>2, FridaAssumption DEF Counts
    <3> QED
      BY <3>1, <3>2 DEF Main, Start, Attach, Load, Ping, Pinged, Resume, Watch, Detach
  <2>2. bootOf' \in [Session -> 0..MaxBoot]
    <3>1. boot \in 0..MaxBoot
      BY <1>a, FridaAssumption DEF Counts
    <3>2. bootOf' = [bootOf EXCEPT ![s] = boot] \/ bootOf' = bootOf
      BY DEF Main, Start, Attach, Load, Ping, Pinged, Resume, Watch, Detach
    <3> QED
      BY <1>a, <3>1, <3>2 DEF Counts
  <2>3. \A t \in Session : handled'[t] <= sent'[t]
    BY <1>a, <1>b, <2>1, FridaAssumption DEF Counts
  <2> QED
    BY <1>a, <1>b, <2>1, <2>2, <2>3 DEF Counts
<1>3. Resumed'
  BY <1>a, <1>b DEF Labels, Resumed, Goto, Becomes, Raise, Main, Start, Attach, Load, Ping, Pinged,
    Resume, Watch, Detach
<1>4. HandledWritten'
  BY <1>a, <1>b DEF HandledWritten
<1>5. Cuts'
  <2>1. Killed \subseteq Killed'
    BY <1>a DEF Labels, Killed, Goto, Raise, Main, Start, Attach, Load, Ping, Pinged, Resume, Watch,
      Detach
  <2> QED
    BY <1>a, <1>b, <2>1 DEF Cuts, CutByKilled, CutOnce
<1> QED
  BY <1>a, <1>b, <1>1, <1>2, <1>3, <1>4, <1>5 DEF Inv, TypeOK

\* A line appended leaves the others where they were.
LEMMA Appended ==
  ASSUME trace \in Seq(Line), NEW l \in Line, trace' = Append(trace, l)
  PROVE  /\ trace' \in Seq(Line)
         /\ Len(trace') = Len(trace) + 1 /\ trace'[Len(trace) + 1] = l
         /\ \A i \in 1..Len(trace) : i \in 1..Len(trace') /\ trace'[i] = trace[i]
OBVIOUS

LEMMA MessageInv == ASSUME Inv, NEW s \in Session, on_message(s) PROVE Inv'
<1>a. Labels /\ Counts /\ trace \in Seq(Line) /\ Resumed /\ HandledWritten /\ Cuts
  BY DEF Inv, TypeOK
<1> DEFINE l == [from |-> s, id |-> handled[s] + 1, cut |-> "no"]
<1>b. /\ handled[s] < sent[s] /\ trace' = Append(trace, l)
      /\ handled' = [handled EXCEPT ![s] = @ + 1]
      /\ UNCHANGED <<spawns, pc, target, sent, boot, bootOf>>
  BY DEF on_message, Pending, Next_line
<1>c. handled[s] \in Nat /\ sent[s] \in 0..MaxEvents /\ MaxEvents \in Nat
  BY <1>a, FridaAssumption DEF Counts
<1>d. l \in Line
  BY <1>b, <1>c DEF Line
<1>1. Labels'
  BY <1>a, <1>b DEF Labels
<1>2. Counts'
  BY <1>a, <1>b, <1>c DEF Counts
<1>3. trace' \in Seq(Line)
  BY <1>a, <1>b, <1>d, Appended
<1>4. Resumed'
  BY <1>a, <1>b DEF Resumed
<1>5. HandledWritten'
  <2> SUFFICES ASSUME NEW t \in Session, NEW n \in 1..handled'[t]
               PROVE  \E i \in 1..Len(trace') : trace'[i] = [from |-> t, id |-> n, cut |-> "no"]
    BY DEF HandledWritten
  <2> HIDE DEF l
  <2>0. /\ Len(trace') = Len(trace) + 1 /\ trace'[Len(trace) + 1] = l
        /\ \A i \in 1..Len(trace) : i \in 1..Len(trace') /\ trace'[i] = trace[i]
    BY <1>a, <1>b, <1>d, Appended
  <2>1. CASE n \in 1..handled[t]
    <3>1. PICK i \in 1..Len(trace) : trace[i] = [from |-> t, id |-> n, cut |-> "no"]
      BY <1>a, <2>1 DEF HandledWritten
    <3> QED
      BY <2>0, <3>1
  <2>2. CASE n \notin 1..handled[t]
    <3>1. t = s /\ n = handled[s] + 1
      BY <1>a, <1>b, <1>c, <2>2 DEF Counts
    <3>2. l = [from |-> t, id |-> n, cut |-> "no"]
      BY <3>1 DEF l
    <3>3. Len(trace) + 1 \in 1..Len(trace')
      BY <1>a, <2>0
    <3> QED
      BY <2>0, <3>2, <3>3
  <2> QED
    BY <2>1, <2>2
<1>6. Cuts'
  <2>1. l.cut = "no" /\ Killed' = Killed
    BY <1>b DEF Killed
  <2> HIDE DEF l
  <2>2. /\ Len(trace') = Len(trace) + 1 /\ trace'[Len(trace) + 1] = l
        /\ \A i \in 1..Len(trace) : trace'[i] = trace[i]
    BY <1>a, <1>b, <1>d, Appended
  <2>3. \A i \in 1..Len(trace') :
          trace'[i].cut # "no" => i \in 1..Len(trace) /\ trace'[i] = trace[i]
    BY <1>a, <2>1, <2>2
  <2> QED
    BY <1>a, <2>1, <2>3 DEF Cuts, CutByKilled, CutOnce
<1> QED
  BY <1>1, <1>2, <1>3, <1>4, <1>5, <1>6 DEF Inv, TypeOK

LEMMA KillInv == ASSUME Inv, NEW s \in Session, Kill(s) PROVE Inv'
<1>a. Labels /\ Counts /\ trace \in Seq(Line) /\ Resumed /\ HandledWritten /\ Cuts
  BY DEF Inv, TypeOK
<1>b. /\ pc' = [pc EXCEPT ![s] = "killed"] /\ pc[s] # "start"
      /\ UNCHANGED <<spawns, target, sent, handled, boot, bootOf>>
  BY DEF Kill, Goto
<1>1. Labels'
  BY <1>a, <1>b DEF Labels, Ended
<1>2. Counts'
  BY <1>a, <1>b DEF Counts
<1>3. Resumed'
  BY <1>a, <1>b DEF Labels, Resumed
<1>c. s \notin Killed /\ Killed' = Killed \cup {s}
  BY <1>a DEF Labels, Killed, Ended, Kill, Goto
<1>4. trace' \in Seq(Line) /\ HandledWritten' /\ Cuts'
  <2>1. CASE UNCHANGED trace
    BY <1>a, <1>b, <1>c, <2>1 DEF HandledWritten, Cuts, CutByKilled, CutOnce
  <2>2. CASE Pending(s) /\ \E cut \in {"bare", "torn"} : trace' = Append(trace, Next_line(s, cut))
    <3>1. PICK cut \in {"bare", "torn"} : trace' = Append(trace, Next_line(s, cut))
      BY <2>2
    <3>2. Next_line(s, cut) \in Line
      BY <1>a, <2>2, FridaAssumption DEF Counts, Pending, Next_line, Line
    <3>3. /\ trace' \in Seq(Line)
          /\ Len(trace') = Len(trace) + 1 /\ trace'[Len(trace) + 1] = Next_line(s, cut)
          /\ \A i \in 1..Len(trace) : i \in 1..Len(trace') /\ trace'[i] = trace[i]
      BY <1>a, <3>1, <3>2, Appended
    <3>4. HandledWritten'
      BY <1>a, <1>b, <3>3 DEF HandledWritten
    <3>5. trace'[Len(trace) + 1].from = s
      BY <3>3 DEF Next_line
    <3>6. \A i \in 1..Len(trace) : trace[i].cut # "no" => trace[i].from # s
      BY <1>a, <1>c DEF Cuts, CutByKilled
    <3>7. \A i \in 1..Len(trace') : i = Len(trace) + 1 \/ (i \in 1..Len(trace) /\ trace'[i] = trace[i])
      BY <1>a, <3>3
    <3>8. CutByKilled'
      BY <1>a, <1>c, <3>5, <3>7 DEF Cuts, CutByKilled
    <3>9. CutOnce'
      BY <1>a, <3>5, <3>6, <3>7 DEF Cuts, CutOnce
    <3> QED
      BY <3>3, <3>4, <3>8, <3>9 DEF Cuts
  <2> QED
    BY <2>1, <2>2 DEF Kill
<1> QED
  BY <1>1, <1>2, <1>3, <1>4 DEF Inv, TypeOK

\* The target's side.
LEMMA ObserveInv == ASSUME Inv, NEW s \in Session, Observe(s) PROVE Inv'
<1>a. Labels /\ Counts /\ trace \in Seq(Line) /\ Resumed /\ HandledWritten /\ Cuts
  BY DEF Inv, TypeOK
<1>b. Sends(s) /\ UNCHANGED <<spawns, pc, target, handled, boot, bootOf, trace>>
  BY DEF Observe
<1>1. Labels' /\ Resumed' /\ HandledWritten' /\ Cuts'
  BY <1>a, <1>b DEF Labels, Resumed, HandledWritten, Cuts, CutByKilled, CutOnce, Killed
<1>2. Counts'
  BY <1>a, <1>b, FridaAssumption DEF Counts, Sends
<1> QED
  BY <1>a, <1>b, <1>1, <1>2 DEF Inv, TypeOK

LEMMA WorldInv == ASSUME Inv, Reboot \/ \E s \in Session : TargetEnds(s) PROVE Inv'
<1>a. Labels /\ Counts /\ trace \in Seq(Line) /\ Resumed /\ HandledWritten /\ Cuts
  BY DEF Inv, TypeOK
<1>b. UNCHANGED <<spawns, pc, sent, handled, bootOf, trace>>
  BY DEF Reboot, TargetEnds
<1>c. /\ target' \in [Session -> {"none", "suspended", "running", "gone"}]
      /\ \A s \in Session : target'[s] = "suspended" => target[s] = "suspended"
  BY <1>a DEF Labels, Reboot, TargetEnds, Becomes
<1>1. Labels' /\ Resumed' /\ HandledWritten' /\ Cuts'
  BY <1>a, <1>b, <1>c DEF Labels, Resumed, HandledWritten, Cuts, CutByKilled, CutOnce, Killed
<1>2. Counts'
  BY <1>a, <1>b, FridaAssumption DEF Counts, Reboot, TargetEnds
<1> QED
  BY <1>a, <1>b, <1>1, <1>2 DEF Inv, TypeOK

\* One step per action.
LEMMA NextInv == Inv /\ [Next]_vars => Inv'
<1> SUFFICES ASSUME Inv, [Next]_vars PROVE Inv'
  OBVIOUS
<1>1. CASE Next
  BY <1>1, MainInv, MessageInv, KillInv, ObserveInv, WorldInv DEF Next
<1>2. CASE UNCHANGED vars
  BY <1>2 DEF Inv, TypeOK, Labels, Counts, Resumed, HandledWritten, Cuts, CutByKilled, CutOnce,
    Killed, vars
<1> QED
  BY <1>1, <1>2

\* The invariant, for every reachable state.
THEOREM Invariant == Spec => []Inv
BY InitInv, NextInv, PTL DEF Spec

\* Every variable keeps its type, and no message is handled before it is sent: whatever
\* the two threads of each session and the guest do, in whatever order.
THEOREM TypeCorrect == Spec => []TypeOK
<1>1. Inv => TypeOK
  BY DEF Inv
<1> QED
  BY <1>1, Invariant, PTL

\* A session that ends without an exception has resumed the process it spawned
\* (run_frida.py:106-108).
THEOREM SessionsEndResumed == Spec => []EndsResumed
<1>1. Inv => EndsResumed
  BY DEF Inv, Resumed, EndsResumed
<1> QED
  BY <1>1, Invariant, PTL

\* The line of a message that was handled is in the file to stay, whole, whatever ends
\* the session and whoever else appends (run_frida.py:51-52).
THEOREM HandledStaysWritten == Spec => []HandledWritten
<1>1. Inv => HandledWritten
  BY DEF Inv
<1> QED
  BY <1>1, Invariant, PTL

\* Behind each handled message that is not loaded is a cut line, and the session that
\* was killed while it wrote that line is another one for every such message.
LEMMA LossInjects ==
  ASSUME Inv
  PROVE  \E f : f \in Injection(HandledOf(Session) \ load_jsonl, Killed)
<1> DEFINE Lost == HandledOf(Session) \ load_jsonl
           at(h) == CHOOSE i \in 1..Len(trace) : trace[i] = [from |-> h[1], id |-> h[2], cut |-> "no"]
           f == [h \in Lost |-> trace[at(h) - 1].from]
<1>a. trace \in Seq(Line) /\ Counts /\ HandledWritten /\ Cuts
  BY DEF Inv, TypeOK
<1>1. ASSUME NEW h \in Lost
      PROVE  /\ at(h) \in 2..Len(trace) /\ trace[at(h) - 1].cut # "no"
             /\ trace[at(h)].from = h[1] /\ trace[at(h)].id = h[2] /\ h = <<h[1], h[2]>>
  <2>1. h[1] \in Session /\ h[2] \in 1..handled[h[1]] /\ h = <<h[1], h[2]>> /\ h \notin load_jsonl
    BY <1>a, <1>1 DEF HandledOf, Counts
  <2>2. \E i \in 1..Len(trace) : trace[i] = [from |-> h[1], id |-> h[2], cut |-> "no"]
    BY <1>a, <2>1 DEF HandledWritten
  <2>3. at(h) \in 1..Len(trace) /\ trace[at(h)] = [from |-> h[1], id |-> h[2], cut |-> "no"]
    BY <2>2
  <2> HIDE DEF at
  <2>4. DOMAIN trace = 1..Len(trace)
    BY <1>a
  <2>5. at(h) \notin Loaded
    BY <2>1, <2>3 DEF load_jsonl
  <2>6. ~Parses(at(h))
    BY <2>3, <2>4, <2>5 DEF Loaded, DecodeErrorsSkipped
  <2>7. at(h) # 1 /\ trace[at(h) - 1].cut # "no"
    BY <2>3, <2>6 DEF Parses
  <2>8. at(h) \in 2..Len(trace)
    BY <1>a, <2>3, <2>7
  <2> QED
    BY <2>1, <2>3, <2>7, <2>8
<1> HIDE DEF at, Lost
<1>2. \A h \in Lost : at(h) - 1 \in 1..Len(trace) /\ at(h) \in Int
  BY <1>1, <1>a
<1>3. f \in [Lost -> Killed]
  BY <1>1, <1>2, <1>a DEF Cuts, CutByKilled
<1>4. ASSUME NEW g \in Lost, NEW h \in Lost, f[g] = f[h] PROVE g = h
  <2>1. at(g) - 1 = at(h) - 1
    BY <1>1, <1>2, <1>4, <1>a DEF Cuts, CutOnce
  <2>2. at(g) = at(h)
    BY <1>2, <2>1
  <2> QED
    BY <1>1, <2>2
<1>5. f \in Injection(Lost, Killed)
  BY <1>3, <1>4 DEF Injection, IsInjective
<1> QED
  BY <1>5 DEF Lost

\* So there are no more of them than killed sessions.
LEMMA LossFromInv == Inv => LossBounded
<1> SUFFICES ASSUME Inv PROVE LossBounded
  OBVIOUS
<1>1. IsFiniteSet(Killed)
  BY FridaAssumption, FS_Subset DEF Killed
<1>2. PICK f : f \in Injection(HandledOf(Session) \ load_jsonl, Killed)
  BY LossInjects
<1> QED
  BY <1>1, <1>2, FS_Injection DEF LossBounded

\* Whatever number of sessions appends to one trace and whichever of them are killed, the
\* analysis misses at most one handled message for each of these (run_frida.py:51-52,
\* analyze_trace.py:24-27).
THEOREM LossIsBounded == Spec => []LossBounded
BY Invariant, LossFromInv, PTL

-----------------------------------------------------------------------------
(***************************************************************************)
(* FridaSession over any number of boots: the trace is in the order of the *)
(* boots, so that what is shown before a panic is of its own boot once     *)
(* that boot has said enough.                                              *)
(***************************************************************************)
\* A session sends nothing, and has no process, before it has begun.
Begun ==
  \A s \in Session :
    /\ pc[s] = "start" => sent[s] = 0
    /\ target[s] = "none" => pc[s] \in {"start", "raised"}
    /\ bootOf[s] <= boot

\* One of an earlier boot that still goes on has lost its process and all its messages are
\* handled: it writes no more.
Stale ==
  \A s \in Session : bootOf[s] # boot /\ pc[s] \notin Ended =>
    (pc[s] = "start" \/ target[s] = "gone") /\ sent[s] = handled[s]

LinesBegun == \A i \in 1..Len(trace) : pc[trace[i].from] # "start"
InOrder ==
  \A i, j \in 1..Len(trace) : i <= j => bootOf[trace[i].from] <= bootOf[trace[j].from]

Boots == Begun /\ Stale /\ LinesBegun /\ InOrder

\* The boots are numbers, and each line is of a session.
LEMMA BootTypes ==
  ASSUME Inv
  PROVE  /\ boot \in Int /\ \A s \in Session : bootOf[s] \in Int
         /\ \A i \in 1..Len(trace) : trace[i].from \in Session
<1>1. Counts /\ trace \in Seq(Line)
  BY DEF Inv, TypeOK
<1>2. \A i \in 1..Len(trace) : trace[i] \in Line
  BY <1>1
<1> QED
  BY <1>1, <1>2, FridaAssumption DEF Counts, Line

LEMMA InitBoots == Init => Boots
BY FridaAssumption DEF Init, Boots, Begun, Stale, LinesBegun, InOrder

\* The main thread writes no line, and settles the boot of its session before the first.
LEMMA MainBoots == ASSUME Inv, Boots, NEW s \in Session, Main(s) \/ Watch(s) PROVE Boots'
<1>a. Labels /\ Counts /\ trace \in Seq(Line) /\ Begun /\ Stale /\ LinesBegun /\ InOrder
  BY DEF Inv, TypeOK, Boots
<1>b. UNCHANGED <<handled, boot, trace>>
  BY DEF Main, Start, Attach, Load, Ping, Pinged, Resume, Watch, Detach
<1>c. \A i \in 1..Len(trace) : trace[i].from \in Session
  BY BootTypes
<1>1. CASE Start(s)
  <2>1. /\ pc[s] = "start" /\ bootOf' = [bootOf EXCEPT ![s] = boot] /\ UNCHANGED sent
        /\ pc' \in [Session -> {"start", "attach", "load", "ping", "resume", "watch", "detach"} \cup Ended]
        /\ pc'[s] \in {"attach", "load", "raised"}
        /\ pc'[s] # "raised" => target'[s] # "none"
        /\ \A t \in Session \ {s} : pc'[t] = pc[t] /\ target'[t] = target[t]
    BY <1>a, <1>1 DEF Start, Raise, Goto, Becomes, Labels, Ended
  <2>2. bootOf'[s] = boot /\ \A t \in Session \ {s} : bootOf'[t] = bootOf[t]
    BY <1>a, <2>1 DEF Counts
  <2>3. Begun'
    BY <1>a, <1>b, <2>1, <2>2, BootTypes DEF Begun
  <2>4. Stale'
    BY <1>a, <1>b, <2>1, <2>2 DEF Stale, Ended
  <2>5. \A i \in 1..Len(trace) : trace[i].from \in Session \ {s}
    BY <1>a, <1>c, <2>1 DEF LinesBegun
  <2>6. LinesBegun' /\ InOrder'
    BY <1>a, <1>b, <2>1, <2>2, <2>5 DEF LinesBegun, InOrder
  <2> QED
    BY <2>3, <2>4, <2>6 DEF Boots
<1>2. CASE Attach(s) \/ Load(s) \/ Ping(s) \/ Resume(s) \/ Watch(s) \/ Detach(s)
  <2>1. /\ UNCHANGED bootOf /\ pc[s] \notin {"start"} \cup Ended /\ pc'[s] # "start"
        /\ \A t \in Session \ {s} : pc'[t] = pc[t] /\ sent'[t] = sent[t] /\ target'[t] = target[t]
    BY <1>a, <1>2 DEF Attach, Load, Ping, Pinged, Resume, Watch, Detach, Raise, Goto, Becomes, Sends,
      Labels, Counts, Ended
  <2>2. target'[s] = target[s] \/ (target[s] # "gone" /\ target'[s] = "running")
    BY <1>a, <1>2 DEF Attach, Load, Ping, Pinged, Resume, Watch, Detach, Raise, Becomes, Labels
  <2>3. sent'[s] = sent[s] \/ target[s] # "gone" \/ pc'[s] = "raised"
    BY <1>a, <1>2 DEF Attach, Load, Ping, Pinged, Resume, Watch, Detach, Raise, Goto, Labels
  <2>4. target[s] # "none"
    BY <1>a, <2>1 DEF Begun, Ended
  <2>5. Begun'
    BY <1>a, <1>b, <2>1, <2>2, <2>4 DEF Begun
  <2>6. Stale'
    BY <1>a, <1>b, <2>1, <2>2, <2>3 DEF Stale, Ended
  <2>7. LinesBegun' /\ InOrder'
    BY <1>a, <1>b, <1>c, <2>1 DEF LinesBegun, InOrder
  <2> QED
    BY <2>5, <2>6, <2>7 DEF Boots
<1> QED
  BY <1>1, <1>2 DEF Main

\* Who appends a line is of this boot, the latest of all.
LEMMA LineBoots ==
  ASSUME Inv, Boots, NEW s \in Session, Pending(s), NEW cut \in {"no", "bare", "torn"},
         trace' = Append(trace, Next_line(s, cut)), UNCHANGED <<boot, bootOf>>,
         \A t \in Session : pc'[t] = "start" => pc[t] = "start"
  PROVE  LinesBegun' /\ InOrder'
<1>a. Labels /\ Counts /\ trace \in Seq(Line) /\ Begun /\ Stale /\ LinesBegun /\ InOrder
  BY DEF Inv, TypeOK, Boots
<1>b. pc[s] \notin Ended \cup {"start"} /\ bootOf[s] = boot
  BY <1>a DEF Pending, Begun, Stale, Counts
<1>c. \A i \in 1..Len(trace) : trace[i].from \in Session
  BY BootTypes
<1>d. Next_line(s, cut) \in Line
  BY <1>a, FridaAssumption DEF Counts, Pending, Next_line, Line
<1>1. /\ Len(trace') = Len(trace) + 1 /\ trace'[Len(trace) + 1].from = s
      /\ \A i \in 1..Len(trace) : trace'[i] = trace[i]
  BY <1>a, <1>d, Appended DEF Next_line
<1>2. \A i \in 1..Len(trace') :
        \/ i = Len(trace) + 1 /\ trace'[i].from = s
        \/ i \in 1..Len(trace) /\ trace'[i] = trace[i]
  BY <1>a, <1>1
<1>3. LinesBegun'
  BY <1>b, <1>c, <1>2 DEF LinesBegun, Boots
<1>4. \A t \in Session : bootOf[t] \in Int /\ bootOf[t] <= boot
  BY <1>a DEF Counts, Begun
<1>5. InOrder'
  <2> SUFFICES ASSUME NEW i \in 1..Len(trace'), NEW j \in 1..Len(trace'), i <= j
               PROVE  bootOf[trace'[i].from] <= bootOf[trace'[j].from]
    BY DEF InOrder
  <2>1. CASE trace'[j].from = s
    BY <1>b, <1>c, <1>2, <1>4, <2>1
  <2>2. CASE trace'[j].from # s
    <3>1. i \in 1..Len(trace) /\ j \in 1..Len(trace)
      BY <1>a, <1>2, <2>2
    <3> QED
      BY <1>a, <1>1, <3>1 DEF InOrder
  <2> QED
    BY <2>1, <2>2
<1> QED
  BY <1>3, <1>5

LEMMA MessageBoots == ASSUME Inv, Boots, NEW s \in Session, on_message(s) PROVE Boots'
<1>a. Counts /\ Begun /\ Stale
  BY DEF Inv, TypeOK, Boots
<1>b. /\ Pending(s) /\ trace' = Append(trace, Next_line(s, "no"))
      /\ handled' = [handled EXCEPT ![s] = @ + 1]
      /\ UNCHANGED <<pc, target, sent, boot, bootOf>>
  BY DEF on_message
<1>1. Begun'
  BY <1>a, <1>b DEF Begun
<1>2. bootOf[s] = boot
  BY <1>a, <1>b DEF Pending, Stale, Counts
<1>3. Stale'
  BY <1>a, <1>b, <1>2 DEF Stale, Counts
<1> QED
  BY <1>b, <1>1, <1>3, LineBoots DEF Boots

LEMMA KillBoots == ASSUME Inv, Boots, NEW s \in Session, Kill(s) PROVE Boots'
<1>a. Labels /\ Counts /\ trace \in Seq(Line) /\ Begun /\ Stale /\ LinesBegun /\ InOrder
  BY DEF Inv, TypeOK, Boots
<1>b. /\ pc' = [pc EXCEPT ![s] = "killed"] /\ pc[s] \notin Ended \cup {"start"}
      /\ UNCHANGED <<target, sent, handled, boot, bootOf>>
  BY DEF Kill, Goto
<1>c. pc'[s] = "killed" /\ \A t \in Session \ {s} : pc'[t] = pc[t]
  BY <1>a, <1>b DEF Labels
<1>1. Begun'
  <2>1. target[s] # "none"
    BY <1>a, <1>b DEF Begun, Ended
  <2> QED
    BY <1>a, <1>b, <1>c, <2>1 DEF Begun
<1>2. Stale'
  BY <1>a, <1>b, <1>c DEF Stale, Ended
<1>3. LinesBegun' /\ InOrder'
  <2>1. CASE UNCHANGED trace
    <3>1. \A i \in 1..Len(trace) : trace[i].from \in Session
      BY BootTypes
    <3> QED
      BY <1>a, <1>b, <1>c, <2>1, <3>1 DEF LinesBegun, InOrder
  <2>2. CASE Pending(s) /\ \E cut \in {"bare", "torn"} : trace' = Append(trace, Next_line(s, cut))
    BY <1>b, <1>c, <2>2, LineBoots
  <2> QED
    BY <2>1, <2>2 DEF Kill
<1> QED
  BY <1>1, <1>2, <1>3 DEF Boots

\* A process observed or lost, and a boot, which finds no message under way.
LEMMA WorldBoots ==
  ASSUME Inv, Boots, Reboot \/ \E s \in Session : Observe(s) \/ TargetEnds(s)
  PROVE  Boots'
<1>a. Labels /\ Counts /\ Begun /\ Stale /\ LinesBegun /\ InOrder
  BY DEF Inv, TypeOK, Boots
<1>b. UNCHANGED <<pc, handled, bootOf, trace>>
  BY DEF Reboot, Observe, TargetEnds
<1>1. LinesBegun' /\ InOrder'
  BY <1>a, <1>b DEF LinesBegun, InOrder
<1>2. CASE Reboot
  <2>1. /\ boot' = boot + 1 /\ UNCHANGED sent
        /\ \A s \in Session : target[s] # "none" => target'[s] = "gone"
        /\ \A s \in Session : target'[s] = "none" => target[s] = "none"
        /\ \A s \in Session : pc[s] \notin Ended => sent[s] <= handled[s]
    BY <1>a, <1>2 DEF Reboot, Pending, Counts
  <2>2. Begun'
    BY <1>a, <1>b, <2>1 DEF Begun, Counts
  <2>3. Stale'
    BY <1>a, <1>b, <2>1 DEF Stale, Begun, Counts, Ended
  <2> QED
    BY <1>1, <2>2, <2>3 DEF Boots
<1>3. ASSUME NEW s \in Session, Observe(s) \/ TargetEnds(s) PROVE Boots'
  <2>1. /\ UNCHANGED boot
        /\ \A t \in Session : target'[t] = target[t] \/ (target[t] # "none" /\ target'[t] = "gone")
        /\ \A t \in Session : sent'[t] = sent[t] \/ (target[t] # "gone" /\ pc[t] # "start" /\ pc[t] \notin Ended)
    BY <1>a, <1>3 DEF Observe, TargetEnds, Becomes, Sends, Labels, Counts, Ended
  <2>2. Begun'
    BY <1>a, <1>b, <2>1 DEF Begun
  <2>3. Stale'
    BY <1>a, <1>b, <2>1 DEF Stale
  <2> QED
    BY <1>1, <2>2, <2>3 DEF Boots
<1> QED
  BY <1>2, <1>3

LEMMA NextBoots == Inv /\ Boots /\ [Next]_vars => Boots'
<1> SUFFICES ASSUME Inv, Boots, [Next]_vars PROVE Boots'
  OBVIOUS
<1>1. CASE Next
  BY <1>1, MainBoots, MessageBoots, KillBoots, WorldBoots DEF Next
<1>2. CASE UNCHANGED vars
  BY <1>2 DEF Boots, Begun, Stale, LinesBegun, InOrder, vars
<1> QED
  BY <1>1, <1>2

\* The trace is in the order of the boots its lines are of, however many sessions append to
\* it, and a session of an earlier boot adds nothing to it (run_frida.py:37, 51-52).
THEOREM TraceInBootOrder == Spec => []InOrder
<1>1. Boots => InOrder
  BY DEF Boots
<1> QED
  BY <1>1, InitBoots, NextBoots, Invariant, PTL DEF Spec

-----------------------------------------------------------------------------
\* The messages of this boot that are found in the trace are on as many lines, all of them
\* behind any line of an earlier boot.
LEMMA FoundBehind ==
  ASSUME Inv, Boots, NEW i \in Loaded, bootOf[trace[i].from] # boot
  PROVE  LET H == HandledOf({s \in Session : bootOf[s] = boot})
             Later == {j \in Loaded : j > i}
         IN  \E f : f \in Injection(H \cap load_jsonl, Later)
<1> DEFINE H == HandledOf({s \in Session : bootOf[s] = boot})
           Later == {j \in Loaded : j > i}
           at(h) == CHOOSE j \in Loaded : h = <<trace[j].from, trace[j].id>>
           f == [h \in H \cap load_jsonl |-> at(h)]
<1>a. Counts /\ trace \in Seq(Line) /\ Begun /\ InOrder
  BY DEF Inv, TypeOK, Boots
<1>b. Loaded \subseteq 1..Len(trace) /\ \A j \in 1..Len(trace) : trace[j].from \in Session
  BY <1>a, BootTypes DEF Loaded, DecodeErrorsSkipped
<1>1. ASSUME NEW h \in H \cap load_jsonl
      PROVE  at(h) \in Loaded /\ h = <<trace[at(h)].from, trace[at(h)].id>> /\ bootOf[h[1]] = boot
  <2>1. \E j \in Loaded : h = <<trace[j].from, trace[j].id>>
    BY <1>1 DEF load_jsonl
  <2> QED
    BY <2>1 DEF HandledOf
<1> HIDE DEF at, H
<1>2. ASSUME NEW h \in H \cap load_jsonl PROVE at(h) \in Later
  <2>1. bootOf[trace[at(h)].from] = boot
    BY <1>1
  <2>2. at(h) \in 1..Len(trace) /\ i \in 1..Len(trace)
    BY <1>1, <1>b
  <2>3. bootOf[trace[i].from] < boot
    BY <1>a, <1>b, <2>2, BootTypes DEF Begun
  <2>4. ASSUME at(h) <= i PROVE FALSE
    <3>1. bootOf[trace[at(h)].from] <= bootOf[trace[i].from]
      BY <1>a, <2>2, <2>4 DEF InOrder
    <3> QED
      BY <1>b, <2>1, <2>2, <2>3, <3>1, BootTypes
  <2> QED
    BY <1>1, <2>2, <2>4
<1>3. f \in [H \cap load_jsonl -> Later]
  BY <1>2
<1>4. \A g, h \in H \cap load_jsonl : f[g] = f[h] => g = h
  BY <1>1
<1>5. f \in Injection(H \cap load_jsonl, Later)
  BY <1>3, <1>4 DEF Injection, IsInjective
<1> QED
  BY <1>5 DEF H

\* Once its sessions have handled enough, a boot fills the window before its panic.
LEMMA ShownFromInv == Inv /\ Boots => ShownOfThisBoot
<1> DEFINE H == HandledOf({s \in Session : bootOf[s] = boot})
           Later(i) == {j \in Loaded : j > i}
<1> SUFFICES ASSUME Inv, Boots, Cardinality(H) >= Window + Cardinality(Killed),
                    NEW i \in Shown, bootOf[trace[i].from] # boot
             PROVE  FALSE
  BY DEF ShownOfThisBoot
<1>a. Counts /\ trace \in Seq(Line)
  BY DEF Inv, TypeOK
<1>1. i \in Loaded /\ Cardinality(Later(i)) < Window
  BY DEF Shown, ShownLast
<1>2. IsFiniteSet(Later(i))
  <2>1. Later(i) \subseteq 1..Len(trace) /\ Len(trace) \in Nat
    BY <1>a DEF Loaded, DecodeErrorsSkipped
  <2>2. IsFiniteSet(1..Len(trace))
    BY <2>1, FS_Interval
  <2> QED
    BY <2>1, <2>2, FS_Subset
<1>3. IsFiniteSet(HandledOf(Session)) /\ H \subseteq HandledOf(Session)
  <2>1. IsFiniteSet(1..MaxEvents)
    BY FridaAssumption, FS_Interval
  <2>2. IsFiniteSet(Session \X (1..MaxEvents))
    BY <2>1, FridaAssumption, FS_Product
  <2>3. HandledOf(Session) \subseteq Session \X (1..MaxEvents)
    BY DEF HandledOf
  <2>4. H \subseteq HandledOf(Session)
    BY DEF HandledOf
  <2> QED
    BY <2>2, <2>3, <2>4, FS_Subset
<1>4. Cardinality(H \cap load_jsonl) <= Cardinality(Later(i))
  <2>1. \E f : f \in Injection(H \cap load_jsonl, Later(i))
    BY <1>1, FoundBehind
  <2> QED
    BY <1>2, <2>1, FS_Injection
<1>5. Cardinality(H \ load_jsonl) <= Cardinality(Killed)
  <2>1. IsFiniteSet(HandledOf(Session) \ load_jsonl)
    BY <1>3, FS_Subset
  <2>2. Cardinality(H \ load_jsonl) <= Cardinality(HandledOf(Session) \ load_jsonl)
    BY <1>3, <2>1, FS_Subset
  <2>3. Cardinality(HandledOf(Session) \ load_jsonl) <= Cardinality(Killed)
    BY LossFromInv DEF LossBounded
  <2>4. IsFiniteSet(H \ load_jsonl) /\ IsFiniteSet(Killed)
    BY <1>3, FridaAssumption, FS_Subset DEF Killed
  <2> QED
    BY <2>1, <2>2, <2>3, <2>4, FS_CardinalityType
<1>6. Cardinality(H \ load_jsonl) = Cardinality(H) - Cardinality(H \cap load_jsonl)
  BY <1>3, FS_Subset, FS_Difference
<1>7. /\ Cardinality(H) \in Nat /\ Cardinality(H \cap load_jsonl) \in Nat
      /\ Cardinality(Later(i)) \in Nat /\ Cardinality(Killed) \in Nat /\ Window \in Nat
  <2>1. IsFiniteSet(H) /\ IsFiniteSet(H \cap load_jsonl) /\ IsFiniteSet(Killed)
    BY <1>3, FridaAssumption, FS_Subset DEF Killed
  <2> QED
    BY <1>2, <2>1, FridaAssumption, FS_CardinalityType
<1> HIDE DEF H, Later
<1> QED
  BY <1>1, <1>4, <1>5, <1>6, <1>7

\* However many sessions and boots share the trace, the last activities before a panic are
\* of its own boot once the sessions of that boot have handled as many messages as are
\* shown, and one more for each line lost (run_frida.py:37, analyze_trace.py:79).
THEOREM ShowsThisBoot == Spec => []ShownOfThisBoot
BY InitBoots, NextBoots, Invariant, ShownFromInv, PTL DEF Spec
=============================================================================
