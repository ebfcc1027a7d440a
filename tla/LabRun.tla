--------------------------------- MODULE LabRun ---------------------------------
(***************************************************************************)
(* One run of the laboratory harness (instrumentation/host/run_lab.py): it *)
(* patches the device tree with dt-patch, starts QEMU, polls the forwarded *)
(* port of frida-server, waits for QEMU, and ends it when interrupted.     *)
(*                                                                         *)
(* dt-patch is known by its exit status and what it leaves, as DTTools has *)
(* it: status 0 with a whole output, or one whose flush failed unnoticed;  *)
(* any other with what there was, or with as much as was written. QEMU,    *)
(* the guest and whoever else holds the port are the environment, known    *)
(* only by what run_lab sees of them.                                      *)
(***************************************************************************)
EXTENDS Integers

CONSTANTS
  Wait,             \* --wait, in seconds; bound of the polling
  MaxInterrupts     \* bound: the interrupts of one run

ASSUME LabAssumption == Wait \in Nat /\ MaxInterrupts \in Nat

VARIABLES
  options,        \* those given of --patch-bootargs, --dry-run and --no-wait
  pc,
  lab,            \* the file dt-patch writes: "absent", "stale" (an earlier run's), "whole",
                  \* "unflushed" (cut by a flush that failed unnoticed) or else "torn"
  qemu,           \* "none", "starting", "listening" (on the host port) or "ended"
  signal,         \* the strongest signal sent to QEMU: "none", "TERM" or "KILL"
  port,           \* who has the host port: "qemu", or "other"
  guest,          \* "booting", "serving" (frida-server listens) or "panicked"
  elapsed,        \* seconds since the polling began
  announced,      \* what was printed of frida-server: "", "up" or "timeout"
  interrupts

world == <<qemu, signal, port, guest>>
vars == <<options, pc, lab, world, elapsed, announced, interrupts>>

Option == {"patch-bootargs", "dry-run", "no-wait"}
asked == "patch-bootargs" \in options
dry_run == "dry-run" \in options
no_wait == "no-wait" \in options

Goto(label) == pc' = label

-----------------------------------------------------------------------------
Init ==
  /\ options \in SUBSET Option
  /\ pc = "validate"
  /\ lab \in {"absent", "stale", "torn"}
  /\ qemu = "none" /\ signal = "none" /\ port \in {"qemu", "other"} /\ guest = "booting"
  /\ elapsed = 0 /\ announced = "" /\ interrupts = 0

\* A file that does not exist, QEMU's own unless --dry-run, ends the run.
Validate ==
  /\ pc = "validate"
  /\ Goto("patch") \/ Goto("exit")
  /\ UNCHANGED <<options, lab, world, elapsed, announced, interrupts>>

\* maybe_patch_dt: dt-patch's outcomes, its exit status and what it left; check=True
\* turns any status but 0 into an exception that ends the run.
Outcomes ==
  [status : {0}, lab : {"whole", "unflushed"}] \cup [status : {1}, lab : {lab, "torn", "whole"}]
Unchecked(o) == TRUE
Checked(o) == o.status = 0
maybe_patch_dt ==
  /\ pc = "patch"
  /\ IF ~asked THEN Goto("launch") /\ UNCHANGED lab
     ELSE \/ \E o \in Outcomes :
               /\ lab' = o.lab
               /\ Goto(IF Checked(o) THEN "launch" ELSE "exit")
          \/ Goto("exit") /\ UNCHANGED lab      \* make dt-patch failed
  /\ UNCHANGED <<options, world, elapsed, announced, interrupts>>

\* subprocess.Popen, which may raise, unless only the command is to be printed.
Launch ==
  /\ pc = "launch"
  /\ \/ Goto("exit") /\ UNCHANGED qemu
     \/ ~dry_run /\ Goto("launched") /\ qemu' = "starting"
  /\ UNCHANGED <<options, lab, signal, port, guest, elapsed, announced, interrupts>>

\* The try block is entered.
Enter ==
  /\ pc = "launched"
  /\ Goto(IF no_wait THEN "watching" ELSE "polling")
  /\ UNCHANGED <<options, lab, world, elapsed, announced, interrupts>>

\* Whether a connection to the host port is accepted: by the process that has it, or by
\* the user network of QEMU, which listens on the host whatever the guest does.
Accepted == port = "qemu" => qemu = "listening"

\* wait_for_port: one turn of its loop. A refusal costs the sleep of a second, a
\* connection attempt that times out another.
ElapsedOfTurn(d) == d
ElapsedTwice(d) == elapsed + 2 * d
Elapsed(d) == elapsed + d
Poll ==
  /\ pc = "polling" /\ elapsed < Wait
  /\ IF Accepted
     THEN Goto("watching") /\ announced' = "up" /\ UNCHANGED elapsed
     ELSE \E d \in {1, 2} : elapsed' = Elapsed(d) /\ UNCHANGED <<pc, announced>>
  /\ UNCHANGED <<options, lab, world, interrupts>>

GiveUp ==
  /\ pc = "polling" /\ elapsed >= Wait
  /\ Goto("watching") /\ announced' = "timeout"
  /\ UNCHANGED <<options, lab, world, elapsed, interrupts>>

\* proc.wait()
NotAwaited(q) == TRUE
Ended(q) == q = "ended"
Watched ==
  /\ pc = "watching" /\ Ended(qemu)
  /\ Goto("exit")
  /\ UNCHANGED <<options, lab, world, elapsed, announced, interrupts>>

\* Ctrl-C inside the try block is handled; before it, and in the handler itself, it ends
\* the run there and then.
Stronger(s) == IF signal = "KILL" THEN signal ELSE s
Handled(label) == label \in {"polling", "watching"}
Interrupt ==
  /\ pc # "exit" /\ interrupts < MaxInterrupts
  /\ interrupts' = interrupts + 1
  /\ IF Handled(pc)
     THEN Goto("stopping") /\ signal' = Stronger("TERM")
     ELSE Goto("exit") /\ UNCHANGED signal
  /\ lab' \in {lab} \cup (IF pc = "patch" /\ asked THEN {"torn", "whole"} ELSE {})
  /\ UNCHANGED <<options, qemu, port, guest, elapsed, announced>>

\* proc.wait(timeout=5) returns, or times out and QEMU is killed.
NotKilled == UNCHANGED signal
Killed == signal' = Stronger("KILL")
Stop ==
  /\ pc = "stopping"
  /\ Goto("exit")
  /\ IF qemu = "ended" THEN UNCHANGED signal ELSE Killed
  /\ UNCHANGED <<options, lab, qemu, port, guest, elapsed, announced, interrupts>>

RunLab == Validate \/ maybe_patch_dt \/ Launch \/ Enter \/ Poll \/ GiveUp \/ Watched \/ Stop

-----------------------------------------------------------------------------
\* The environment. QEMU may end by itself at any time, and never listens when another
\* process has the port; SIGTERM it may not heed, SIGKILL it cannot ignore.
QemuRuns == qemu \in {"starting", "listening"}

QemuListens ==
  /\ qemu = "starting" /\ port = "qemu" /\ qemu' = "listening"
  /\ UNCHANGED <<options, pc, lab, signal, port, guest, elapsed, announced, interrupts>>

QemuEnds ==
  /\ QemuRuns /\ qemu' = "ended"
  /\ UNCHANGED <<options, pc, lab, signal, port, guest, elapsed, announced, interrupts>>

GuestGoesOn ==
  /\ qemu = "listening"
  /\ \/ guest = "booting" /\ guest' \in {"serving", "panicked"}
     \/ guest = "serving" /\ guest' = "panicked"
  /\ UNCHANGED <<options, pc, lab, qemu, signal, port, elapsed, announced, interrupts>>

Next == RunLab \/ Interrupt \/ QemuListens \/ QemuEnds \/ GuestGoesOn

\* run_lab is never held up but where it waits; a killed process ends.
Spec ==
  /\ Init /\ [][Next]_vars
  /\ WF_vars(RunLab)
  /\ WF_vars(QemuEnds /\ signal = "KILL")

-----------------------------------------------------------------------------
\* Every variable keeps its type; the polling overruns its limit by less than a turn.
Labels ==
  /\ options \in SUBSET Option
  /\ port \in {"qemu", "other"}
  /\ pc \in {"validate", "patch", "launch", "launched", "polling", "watching", "stopping",
             "exit"}
  /\ lab \in {"absent", "stale", "torn", "unflushed", "whole"}
  /\ qemu \in {"none", "starting", "listening", "ended"}
  /\ signal \in {"none", "TERM", "KILL"}
  /\ guest \in {"booting", "serving", "panicked"}
  /\ announced \in {"", "up", "timeout"}
Counts == elapsed \in 0..(Wait + 1) /\ interrupts \in 0..MaxInterrupts
TypeOK == Labels /\ Counts

\* When boot-args were asked for, QEMU is never started on a device tree that an earlier
\* run left, or that dt-patch gave up on or was killed over; the one cut tree it may get is
\* that of a flush whose failure dt-patch does not notice (run_lab.py:57, 125-126).
LaunchedPatched == qemu # "none" /\ asked => lab \in {"whole", "unflushed"}

\* A run that nobody interrupted never leaves QEMU behind, and a verdict on
\* frida-server is in before it ends, unless none was wanted (run_lab.py:137-146).
NothingLeftBehind ==
  pc = "exit" /\ interrupts = 0 /\ qemu # "none" =>
    qemu = "ended" /\ (announced = "" => no_wait)

\* Whether QEMU ended meanwhile or never lets anyone connect, the polling ends
\* (run_lab.py:86-92).
PollingEnds == pc = "polling" ~> pc # "polling"

\* Once its handler has begun, an interrupt ends QEMU, also one that does not heed
\* SIGTERM (run_lab.py:147-153); a second interrupt would cut the handler short.
InterruptEndsQemu == pc = "stopping" ~> qemu = "ended"

\* run_lab.py:10: what is announced as up is frida-server in the guest, at least when
\* QEMU has the port.
UpMeansServing ==
  [][announced' # announced /\ announced' = "up" /\ port = "qemu" => guest = "serving" /\ QemuRuns]_vars
=============================================================================
