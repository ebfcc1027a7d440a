----------------------------- MODULE LabRun_proofs -----------------------------
(***************************************************************************)
(* The safety properties of LabRun, for every polling limit and any number *)
(* of interrupts.                                                          *)
(***************************************************************************)
EXTENDS LabRun, TLAPS

\* Where the run stands tells what has happened: QEMU exists from Launch on, from there the
\* tree is one that dt-patch reported done when one was asked for, and an exit that no interrupt caused
\* was reached after QEMU's end or before its start.
Before == pc \in {"validate", "patch", "launch"}
Placed ==
  /\ Before => qemu = "none"
  /\ pc \in {"launched", "polling", "watching", "stopping"} => qemu # "none"
  /\ pc = "launch" /\ asked => lab \in {"whole", "unflushed"}
  /\ pc = "polling" => ~no_wait
  /\ pc = "watching" => announced # "" \/ no_wait
  /\ pc = "stopping" => interrupts > 0

Inv == TypeOK /\ Placed /\ LaunchedPatched /\ NothingLeftBehind

LEMMA InitInv == Init => Inv
<1> SUFFICES ASSUME Init PROVE Inv
  OBVIOUS
<1>1. Labels
  BY DEF Init, Labels
<1>2. elapsed = 0 /\ interrupts = 0
  BY DEF Init
<1>3. Counts
  BY <1>2, LabAssumption DEF Counts
<1>4. Placed /\ LaunchedPatched /\ NothingLeftBehind
  BY DEF Init, Placed, Before, LaunchedPatched, NothingLeftBehind
<1> QED
  BY <1>1, <1>3, <1>4 DEF Inv, TypeOK

\* One step per action.
LEMMA NextInv == Inv /\ [Next]_vars => Inv'
<1> SUFFICES ASSUME Inv, [Next]_vars PROVE Inv'
  OBVIOUS
<1>a. Labels /\ Counts /\ Placed /\ LaunchedPatched /\ NothingLeftBehind
  BY DEF Inv, TypeOK
<1> USE DEF world, Goto, asked, no_wait, dry_run
<1>1. CASE Validate
  BY <1>a, <1>1, LabAssumption DEF Inv, TypeOK, Labels, Counts, Placed, Before, LaunchedPatched,
    NothingLeftBehind, Validate
<1>2. CASE maybe_patch_dt
  <2>a. /\ pc = "patch" /\ UNCHANGED <<options, qemu, signal, port, guest, announced>>
        /\ \/ pc' = "exit" /\ lab' \in {lab, "whole", "unflushed", "torn"}
           \/ /\ pc' = "launch" /\ (asked => lab' \in {"whole", "unflushed"})
              /\ lab' \in {lab, "whole", "unflushed"}
    <3>1. ASSUME NEW o \in Outcomes
          PROVE  /\ o.lab \in {lab, "whole", "unflushed", "torn"}
                 /\ o.status = 0 => o.lab \in {"whole", "unflushed"}
      BY DEF Outcomes
    <3> QED
      BY <1>2, <3>1 DEF maybe_patch_dt, Checked
  <2>1. Labels'
    BY <1>a, <2>a DEF Labels
  <2>2. Counts'
    BY <1>a, <1>2, LabAssumption DEF Counts, maybe_patch_dt, Outcomes, Checked
  <2>3. Placed'
    BY <1>a, <2>a DEF Placed, Before
  <2>4. LaunchedPatched'
    BY <1>a, <1>2
    DEF Labels, Placed, Before, LaunchedPatched, maybe_patch_dt, Outcomes, Checked
  <2>5. NothingLeftBehind'
    BY <1>a, <1>2
    DEF Labels, Counts, Placed, Before, NothingLeftBehind, maybe_patch_dt, Outcomes, Checked
  <2> QED
    BY <2>1, <2>2, <2>3, <2>4, <2>5 DEF Inv, TypeOK
<1>3. CASE Launch
  BY <1>a, <1>3, LabAssumption DEF Inv, TypeOK, Labels, Counts, Placed, Before, LaunchedPatched,
    NothingLeftBehind, Launch
<1>4. CASE Enter
  BY <1>a, <1>4, LabAssumption DEF Inv, TypeOK, Labels, Counts, Placed, Before, LaunchedPatched,
    NothingLeftBehind, Enter
<1>5. CASE Poll
  <2>1. Labels'
    BY <1>a, <1>5 DEF Labels, Poll, Elapsed
  <2>2. Counts'
    BY <1>a, <1>5, LabAssumption DEF Counts, Poll, Elapsed
  <2>3. Placed'
    BY <1>a, <1>5 DEF Labels, Counts, Placed, Before, Poll, Elapsed
  <2>4. LaunchedPatched'
    BY <1>a, <1>5 DEF Labels, Placed, Before, LaunchedPatched, Poll, Elapsed
  <2>5. NothingLeftBehind'
    BY <1>a, <1>5 DEF Labels, Counts, Placed, Before, NothingLeftBehind, Poll, Elapsed
  <2> QED
    BY <2>1, <2>2, <2>3, <2>4, <2>5 DEF Inv, TypeOK
<1>6. CASE GiveUp
  BY <1>a, <1>6, LabAssumption DEF Inv, TypeOK, Labels, Counts, Placed, Before, LaunchedPatched,
    NothingLeftBehind, GiveUp
<1>7. CASE Watched
  BY <1>a, <1>7, LabAssumption DEF Inv, TypeOK, Labels, Counts, Placed, Before, LaunchedPatched,
    NothingLeftBehind, Watched, Ended
<1>8. CASE Stop
  <2>a. interrupts' > 0 /\ interrupts' # 0
    BY <1>a, <1>8 DEF Placed, Counts, Stop
  <2>1. Labels'
    BY <1>a, <1>8 DEF Labels, Stop, Killed, Stronger
  <2>2. Counts'
    BY <1>a, <1>8, LabAssumption DEF Counts, Stop, Killed, Stronger
  <2>3. Placed'
    BY <1>a, <1>8 DEF Labels, Counts, Placed, Before, Stop, Killed, Stronger
  <2>4. LaunchedPatched'
    BY <1>a, <1>8 DEF Labels, Placed, Before, LaunchedPatched, Stop, Killed, Stronger
  <2>5. NothingLeftBehind'
    BY <2>a DEF NothingLeftBehind
  <2> QED
    BY <2>1, <2>2, <2>3, <2>4, <2>5 DEF Inv, TypeOK
<1>9. CASE Interrupt
  <2>a. interrupts' > 0 /\ interrupts' # 0
    BY <1>a, <1>9 DEF Counts, Interrupt
  <2>1. Labels'
    BY <1>a, <1>9 DEF Labels, Interrupt, Handled, Stronger
  <2>2. Counts'
    BY <1>a, <1>9, LabAssumption DEF Counts, Interrupt, Handled, Stronger
  <2>3. Placed'
    BY <1>a, <1>9, <2>a DEF Placed, Before, Interrupt, Handled
  <2>4. LaunchedPatched'
    BY <1>a, <1>9 DEF Labels, Placed, Before, LaunchedPatched, Interrupt, Handled, Stronger
  <2>5. NothingLeftBehind'
    BY <2>a DEF NothingLeftBehind
  <2> QED
    BY <2>1, <2>2, <2>3, <2>4, <2>5 DEF Inv, TypeOK
<1>10. CASE QemuListens
  BY <1>a, <1>10, LabAssumption, ZenonT(40) DEF Inv, TypeOK, Labels, Counts, Placed, Before, LaunchedPatched,
    NothingLeftBehind, QemuListens
<1>11. CASE QemuEnds
  <2>1. Labels'
    BY <1>a, <1>11 DEF Labels, QemuEnds, QemuRuns
  <2>2. Counts'
    BY <1>a, <1>11, LabAssumption DEF Counts, QemuEnds, QemuRuns
  <2>3. Placed'
    BY <1>a, <1>11 DEF Labels, Counts, Placed, Before, QemuEnds, QemuRuns
  <2>4. LaunchedPatched'
    BY <1>a, <1>11 DEF Labels, Placed, Before, LaunchedPatched, QemuEnds, QemuRuns
  <2>5. NothingLeftBehind'
    BY <1>a, <1>11 DEF Labels, Counts, Placed, Before, NothingLeftBehind, QemuEnds, QemuRuns
  <2> QED
    BY <2>1, <2>2, <2>3, <2>4, <2>5 DEF Inv, TypeOK
<1>12. CASE GuestGoesOn
  <2>1. Labels'
    BY <1>a, <1>12 DEF Labels, GuestGoesOn
  <2>2. Counts'
    BY <1>a, <1>12, LabAssumption DEF Counts, GuestGoesOn
  <2>3. Placed'
    BY <1>a, <1>12 DEF Labels, Counts, Placed, Before, GuestGoesOn
  <2>4. LaunchedPatched'
    BY <1>a, <1>12 DEF Labels, Placed, Before, LaunchedPatched, GuestGoesOn
  <2>5. NothingLeftBehind'
    BY <1>a, <1>12 DEF Labels, Counts, Placed, Before, NothingLeftBehind, GuestGoesOn
  <2> QED
    BY <2>1, <2>2, <2>3, <2>4, <2>5 DEF Inv, TypeOK
<1>13. CASE UNCHANGED vars
  <2>1. Labels'
    BY <1>a, <1>13, ZenonT(40) DEF Labels, vars
  <2>2. Counts'
    BY <1>a, <1>13, LabAssumption DEF Counts, vars
  <2>3. Placed'
    BY <1>a, <1>13 DEF Labels, Counts, Placed, Before, vars
  <2>4. LaunchedPatched'
    BY <1>a, <1>13 DEF Labels, Placed, Before, LaunchedPatched, vars
  <2>5. NothingLeftBehind'
    BY <1>a, <1>13 DEF Labels, Counts, Placed, Before, NothingLeftBehind, vars
  <2> QED
    BY <2>1, <2>2, <2>3, <2>4, <2>5 DEF Inv, TypeOK
<1> QED
  BY <1>1, <1>2, <1>3, <1>4, <1>5, <1>6, <1>7, <1>8, <1>9, <1>10, <1>11, <1>12, <1>13
  DEF Next, RunLab

LEMMA Invariance == Spec => []Inv
  BY InitInv, NextInv, PTL DEF Spec

\* run_lab.py:82-92: every variable keeps its type, and the polling overruns its limit
\* by one second at most.
THEOREM TypesHold == Spec => []TypeOK
<1>1. Inv => TypeOK
  BY DEF Inv
<1> QED
  BY Invariance, <1>1, PTL

\* run_lab.py:57, 125-134: whenever boot-args were asked for, QEMU is only started on a
\* tree that dt-patch made in this run and reported done, cut at most by a flush that failed
\* unnoticed; no exit status but 0, kill or interrupt before gets a tree to QEMU.
THEOREM LaunchesPatched == Spec => []LaunchedPatched
<1>1. Inv => LaunchedPatched
  BY DEF Inv
<1> QED
  BY Invariance, <1>1, PTL

\* run_lab.py:136-146: a run that nobody interrupted ends after QEMU and with a verdict.
THEOREM LeavesNothingBehind == Spec => []NothingLeftBehind
<1>1. Inv => NothingLeftBehind
  BY DEF Inv
<1> QED
  BY Invariance, <1>1, PTL
=============================================================================
