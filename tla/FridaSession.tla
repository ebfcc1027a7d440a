------------------------------ MODULE FridaSession ------------------------------
(***************************************************************************)
(* Sessions of the Frida harness (instrumentation/host/run_frida.py) that  *)
(* append to one trace, recon.jsonl by default, over several boots of the  *)
(* guest, and what instrumentation/host/analyze_trace.py reads from it at  *)
(* any moment.                                                             *)
(*                                                                         *)
(* A session has two threads: main, which spawns, attaches, loads the      *)
(* agent, resumes and watches, and frida's, which calls on_message for one *)
(* message after the other. A line goes out in one write, which the end of *)
(* the host may cut anywhere. Agent, guest and frida-server are known by   *)
(* the messages they send and the calls they let fail.                     *)
(***************************************************************************)
EXTENDS Integers, Sequences, FiniteSets

CONSTANTS
  Session,
  MaxEvents,     \* bound: the messages of a session
  MaxBoot,       \* bound: the boots of the guest
  Window         \* the activities shown before a panic: 10 in the code

ASSUME FridaAssumption ==
  IsFiniteSet(Session) /\ MaxEvents \in Nat /\ MaxBoot \in Nat \ {0} /\ Window \in Nat

VARIABLES
  spawns,        \* the sessions started with -f, the others attach with -n
  pc,            \* of the main thread; "done" ended, "raised" by an exception, "unresumed" by
                 \* one of device.resume, "killed" from outside
  target,        \* the process of the session: "none", "suspended", "running" or "gone" (or its connection)
  sent,          \* messages its agent has sent,
  handled,       \* and those whose on_message has returned
  boot,          \* of the guest, now
  bootOf,        \* and when the session began
  trace          \* the file: lines, the last of a killed session perhaps cut

vars == <<spawns, pc, target, sent, handled, boot, bootOf, trace>>

Ended == {"done", "raised", "unresumed", "killed"}

\* A line of the file, and where its write was cut: "no", "bare" (but for the newline) or "torn".
Line == [from : Session, id : 1..MaxEvents, cut : {"no", "bare", "torn"}]

-----------------------------------------------------------------------------
Init ==
  /\ spawns \in SUBSET Session
  /\ pc = [s \in Session |-> "start"]
  /\ target = [s \in Session |-> "none"]
  /\ sent = [s \in Session |-> 0] /\ handled = [s \in Session |-> 0]
  /\ boot = 1 /\ bootOf = [s \in Session |-> 0]
  /\ trace = <<>>

Goto(s, label) == pc' = [pc EXCEPT ![s] = label]
Becomes(s, t) == target' = [target EXCEPT ![s] = t]
Sends(s) == sent[s] < MaxEvents /\ sent' = [sent EXCEPT ![s] = @ + 1]

\* Any call to the device may raise, and no one catches it.
Raise(s) == Goto(s, "raised") /\ UNCHANGED target

\* device.spawn leaves the process suspended; device.attach by name finds it running.
Start(s) ==
  /\ pc[s] = "start"
  /\ \/ Raise(s)
     \/ s \in spawns /\ Goto(s, "attach") /\ Becomes(s, "suspended")
     \/ s \notin spawns /\ Goto(s, "load") /\ Becomes(s, "running")
  /\ bootOf' = [bootOf EXCEPT ![s] = boot]
  /\ UNCHANGED <<spawns, sent, handled, boot, trace>>

Attach(s) ==
  /\ pc[s] = "attach"
  /\ Raise(s) \/ (target[s] # "gone" /\ Goto(s, "load") /\ UNCHANGED target)
  /\ UNCHANGED <<spawns, sent, handled, boot, bootOf, trace>>

\* script.load, during which the agent runs and sends its first messages.
Load(s) ==
  /\ pc[s] = "load"
  /\ Raise(s) \/ (target[s] # "gone" /\ Goto(s, "ping") /\ UNCHANGED target)
  /\ UNCHANGED <<spawns, sent, handled, boot, bootOf, trace>>

\* The ping over RPC only prints, whether it is answered, raises, or the agent has none.
PingUncaught(s) == pc[s] = "ping" /\ (Goto(s, "resume") \/ Goto(s, "raised"))
PingSkipsResume(s) == pc[s] = "ping" /\ (Goto(s, "resume") \/ Goto(s, "watch"))
Pinged(s) == pc[s] = "ping" /\ Goto(s, "resume")
Ping(s) == Pinged(s) /\ UNCHANGED <<spawns, target, sent, handled, boot, bootOf, trace>>

\* device.resume, of a process that was spawned; it may raise with the process in reach or
\* not, and leave it as it is.
Resume(s) ==
  /\ pc[s] = "resume"
  /\ \/ s \in spawns /\ Goto(s, "unresumed") /\ UNCHANGED target
     \/ s \in spawns /\ target[s] # "gone" /\ Goto(s, "watch") /\ Becomes(s, "running")
     \/ s \notin spawns /\ Goto(s, "watch") /\ UNCHANGED target
  /\ UNCHANGED <<spawns, sent, handled, boot, bootOf, trace>>

\* The duration is over, or the user had enough.
Watch(s) ==
  /\ pc[s] = "watch" /\ Goto(s, "detach")
  /\ UNCHANGED <<spawns, target, sent, handled, boot, bootOf, trace>>

\* session.detach, and the end of the process, which takes frida's thread along.
Detach(s) ==
  /\ pc[s] = "detach" /\ Goto(s, "done")
  /\ UNCHANGED <<spawns, target, sent, handled, boot, bootOf, trace>>

Main(s) == Start(s) \/ Attach(s) \/ Load(s) \/ Ping(s) \/ Resume(s) \/ Detach(s)

-----------------------------------------------------------------------------
\* The agent, while it is loaded, also into a process that is suspended; then its hooks,
\* once the process runs. What a logging agent (objc_trace) reports with console.log is no
\* "send" message, and never gets here.
Observe(s) ==
  /\ \/ pc[s] = "load" /\ target[s] # "gone"
     \/ pc[s] \in {"ping", "resume", "watch"} /\ target[s] = "running"
  /\ Sends(s)
  /\ UNCHANGED <<spawns, pc, target, handled, boot, bootOf, trace>>

\* frida's thread has messages for as long as the process lives.
PendingAtAll(s) == pc[s] \notin Ended
Pending(s) == pc[s] \notin Ended /\ handled[s] < sent[s]
Next_line(s, cut) == [from |-> s, id |-> handled[s] + 1, cut |-> cut]

\* on_message: the line is written and flushed before the next message is looked at.
on_message(s) ==
  /\ Pending(s)
  /\ trace' = Append(trace, Next_line(s, "no"))
  /\ handled' = [handled EXCEPT ![s] = @ + 1]
  /\ UNCHANGED <<spawns, pc, target, sent, boot, bootOf>>

\* The host ends the session from outside, in the middle of on_message or not; so does
\* Ctrl-C before the watching.
Kill(s) ==
  /\ pc[s] \notin Ended \cup {"start"} /\ Goto(s, "killed")
  /\ \/ UNCHANGED trace
     \/ Pending(s) /\ \E cut \in {"bare", "torn"} : trace' = Append(trace, Next_line(s, cut))
  /\ UNCHANGED <<spawns, target, sent, handled, boot, bootOf>>

TargetEnds(s) ==
  /\ target[s] \in {"suspended", "running"} /\ Becomes(s, "gone")
  /\ UNCHANGED <<spawns, pc, sent, handled, boot, bootOf, trace>>

\* The guest panics and QEMU is run again, which takes longer than the messages under way.
Reboot ==
  /\ boot < MaxBoot /\ boot' = boot + 1
  /\ \A s \in Session : ~Pending(s)
  /\ target' = [s \in Session |-> IF target[s] = "none" THEN "none" ELSE "gone"]
  /\ UNCHANGED <<spawns, pc, sent, handled, bootOf, trace>>

Next ==
  \/ \E s \in Session : Main(s) \/ Watch(s) \/ Observe(s) \/ on_message(s) \/ Kill(s) \/ TargetEnds(s)
  \/ Reboot

\* The main thread is held up only where it watches.
Spec == Init /\ [][Next]_vars /\ \A s \in Session : WF_vars(Main(s))

-----------------------------------------------------------------------------
\* load_jsonl: a line is decoded when it is one whole document, the last without its
\* newline too; what follows a cut is on the same line.
Parses(i) ==
  /\ i = 1 \/ trace[i - 1].cut = "no"
  /\ trace[i].cut = "no" \/ (trace[i].cut = "bare" /\ i = Len(trace))
UntilFirstError(S) == {i \in S : 1..i \subseteq S}
DecodeErrorsSkipped(S) == S
Loaded == DecodeErrorsSkipped({i \in DOMAIN trace : Parses(i)})
load_jsonl == {<<trace[i].from, trace[i].id>> : i \in Loaded}

\* correlate_panic: the last events of the trace.
ShownFirst(S) == {i \in S : Cardinality({j \in S : j < i}) < Window}
ShownLast(S) == {i \in S : Cardinality({j \in S : j > i}) < Window}
Shown == ShownLast(Loaded)

-----------------------------------------------------------------------------
\* Every variable keeps its type, and no message is handled before it is sent.
Labels ==
  /\ spawns \subseteq Session
  /\ pc \in [Session -> {"start", "attach", "load", "ping", "resume", "watch", "detach"} \cup Ended]
  /\ target \in [Session -> {"none", "suspended", "running", "gone"}]
Counts ==
  /\ sent \in [Session -> 0..MaxEvents]
  /\ handled \in [Session -> Nat] /\ \A s \in Session : handled[s] <= sent[s]
  /\ boot \in 1..MaxBoot /\ bootOf \in [Session -> 0..MaxBoot]
TypeOK == Labels /\ Counts /\ trace \in Seq(Line)

Killed == {s \in Session : pc[s] = "killed"}
HandledOf(S) == {h \in S \X (1..MaxEvents) : h[2] <= handled[h[1]]}

\* What on_message has handled is found by analyze_trace, whatever ends the session and
\* however many append to the file; each killed session costs at most the one line that
\* is appended behind its own (run_frida.py:51-52, analyze_trace.py:24-27).
LossBounded == Cardinality(HandledOf(Session) \ load_jsonl) <= Cardinality(Killed)

\* The file outlives the boots it is about: once the sessions of this boot have handled
\* as many events as are shown, and one more for each line lost, none of an earlier boot
\* is among the last activities before its panic (run_frida.py:37, analyze_trace.py:79).
ShownOfThisBoot ==
  Cardinality(HandledOf({s \in Session : bootOf[s] = boot})) >= Window + Cardinality(Killed)
    => \A i \in Shown : bootOf[trace[i].from] = boot

\* A session that ends without an exception has resumed the process it spawned
\* (run_frida.py:106-108); one that fails between spawn and resume, or in resume, leaves
\* it suspended.
EndsResumed == \A s \in Session : pc[s] = "done" => target[s] # "suspended"

\* Once its agent is loaded, a process that was spawned gets to run or is gone, also when
\* the ping fails, unless resume itself raises or the harness is killed
\* (run_frida.py:101-107).
LoadedGetsResumed ==
  \A s \in Session :
    pc[s] = "ping" ~> (target[s] # "suspended" \/ pc[s] \in {"unresumed", "killed"})
=============================================================================
