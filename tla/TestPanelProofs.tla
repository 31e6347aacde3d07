--------------------------- MODULE TestPanelProofs ---------------------------
(***************************************************************************)
(* The step panel is closed while a test runs, proved for every set of     *)
(* step lists and inputs and every page length, if no key is released      *)
(* between the poll that finds the start key and the first statement of    *)
(* Test_Sched_Start.  ClosedInTest is not inductive: Test_Sched_Start must *)
(* also find the home panel on the screen and key_mb empty (PanelInv).     *)
(*                                                                         *)
(* What TestSchedProofs proves of the scheduler alone then holds with the  *)
(* panels around it: a panel moves the cursor of the list only where no    *)
(* test runs, where the list is at its head (PanelStill).                  *)
(***************************************************************************)
EXTENDS TestPanel, TestSchedProofs

IsRunning == tsp.Test_Sched_State = "RUNNING"

\* The record has the field the keyboard looks at.
HasState == "Test_Sched_State" \in DOMAIN tsp

\* What keeps the panel closed: a key of F2 that waits in key_mb was released
\* while no test ran, and a test is started from the home panel with key_mb
\* empty; it is still on the screen while the test runs.
PanelInv == /\ HasState
            /\ panel # "home" => ~IsRunning
            /\ keyMb => ~IsRunning
            /\ home = "run" => panel = "home" /\ ~keyMb

\* An update of the record that does not set the state to RUNNING.
Quiet == /\ HasState'
         /\ IsRunning' => IsRunning \/ home = "run"
         /\ home' = "run" => home = "run"

\* The interrupts and the timer: Test_Sched_Close leaves RUNNING, it never
\* enters it.
LEMMA QuietInterrupts ==
  ASSUME HasState, StopKey \/ (\E a \in Alarms : Alarm(a)) \/ TimerFire
  PROVE  Quiet
<1>1. CASE StopKey
  <2>1. CASE tsp.Stop_Flag
    BY <1>1, <2>1 DEF StopKey, Quiet, HasState, IsRunning
  <2>2. CASE ~tsp.Stop_Flag
    BY <1>1, <2>2 DEF StopKey, ClosedFlags, Quiet, HasState, IsRunning
  <2> QED BY <2>1, <2>2
<1>2. CASE \E a \in Alarms : Alarm(a)
  BY <1>2 DEF Alarm, ClosedFlags, Quiet, HasState, IsRunning
<1>3. CASE TimerFire
  BY <1>3 DEF TimerFire, Quiet, HasState, IsRunning
<1> QED BY <1>1, <1>2, <1>3

\* Test_Sched_Start sets RUNNING with its first statement only.
LEMMA QuietHome ==
  ASSUME HasState, HomeStep
  PROVE  Quiet
<1> USE DEF StartWrites, Quiet, HasState, IsRunning
<1>1. CASE StartRunning
  BY <1>1 DEF StartRunning, Running
<1>2. CASE StartPass \/ StartStop \/ StartResume
  BY <1>2 DEF StartPass, StartStop, StartResume
<1>4. ASSUME NEW a, NEW to \in {"gfi", "arc", "resume"}, StartClear(a, to)
      PROVE  Quiet
  BY <1>4 DEF StartClear, Cleared
<1>3. CASE StartGo \/ StartTail
  BY <1>3 DEF StartGo, StartTail
<1> QED BY <1>1, <1>2, <1>3, <1>4 DEF HomeStep, StartFlags

\* The loop of Test_Sched_Sever, and Test_Sched_Main between two steps.
LEMMA QuietMain ==
  ASSUME HasState,
         Wake \/ Clock \/ Main \/ Gate \/ Pausing \/ Warn \/ Forgive \/ Fetch \/ Verdict
           \/ PassVerdict \/ FailVerdict
  PROVE  Quiet
<1>1. CASE Wake \/ Clock \/ Gate \/ Verdict
  BY <1>1 DEF Wake, Clock, Gate, Verdict, Quiet, HasState, IsRunning
<1>2. CASE Main
  BY <1>2 DEF Main, Quiet, HasState, IsRunning
<1>3. CASE Pausing
  BY <1>3 DEF Pausing, Quiet, HasState, IsRunning
<1>4. CASE Warn
  BY <1>4 DEF Warn, Quiet, HasState, IsRunning
<1>5. CASE Fetch
  BY <1>5 DEF Fetch, Quiet, HasState, IsRunning
<1>6. CASE PassVerdict
  BY <1>6 DEF PassVerdict, Finish, Stopped, Quiet, HasState, IsRunning
<1>7. CASE FailVerdict
  BY <1>7 DEF FailVerdict, Finish, Stopped, Quiet, HasState, IsRunning
<1>8. CASE Forgive
  BY <1>8 DEF Forgive, ForgiveWarning, ForgiveAlarm, Cleared, Quiet, HasState, IsRunning
<1> QED BY <1>1, <1>2, <1>3, <1>4, <1>5, <1>6, <1>7, <1>8

\* The flags a failing range check sets are others.
LEMMA QuietFlags ==
  ASSUME NEW t, "Test_Sched_State" \in DOMAIN t
  PROVE  /\ DOMAIN FailFlags(t) = DOMAIN t
         /\ FailFlags(t).Test_Sched_State = t.Test_Sched_State
BY DEF FailFlags

\* A tick that judges the flags t leaves their state, whatever it finds.
LEMMA QuietJudged ==
  ASSUME NEW t, NEW o, "Test_Sched_State" \in DOMAIN t,
         Judged(t, o) \/ Unjudged(t, o)
  PROVE  /\ "Test_Sched_State" \in DOMAIN tsp'
         /\ tsp'.Test_Sched_State = t.Test_Sched_State
BY QuietFlags DEF Judged, Unjudged

\* A phase change keeps the state.
LEMMA QuietGoto ==
  ASSUME HasState, NEW phase
  PROVE  /\ "Test_Sched_State" \in DOMAIN Goto(phase)
         /\ Goto(phase).Test_Sched_State = tsp.Test_Sched_State
BY DEF Goto, HasState

\* The phases of a step.
LEMMA QuietPhase ==
  ASSUME HasState, Phase
  PROVE  Quiet
<1>f. PhaseFrame => home' = home
  BY DEF PhaseFrame
<1>s. ASSUME NEW t, NEW o, "Test_Sched_State" \in DOMAIN t,
             t.Test_Sched_State = tsp.Test_Sched_State,
             Judged(t, o) \/ Unjudged(t, o), home' = home
      PROVE  Quiet
  BY <1>s, QuietJudged DEF Quiet, HasState, IsRunning
<1>1. CASE PhaseWait
  BY <1>1, <1>f, <1>s, QuietGoto DEF PhaseWait, HasState
<1>2. CASE PhaseRise
  BY <1>2, <1>f, <1>s, QuietGoto DEF PhaseRise, HasState
<1>3. CASE PhaseTesting
  BY <1>3, <1>f, <1>s, QuietGoto DEF PhaseTesting, HasState
<1>4. CASE PhaseDown
  BY <1>4, <1>f, <1>s, QuietGoto DEF PhaseDown, HasState
<1>5. CASE PhasePause
  <2>1. CASE ~CurTrait.pauseCounts
    BY <1>5, <2>1, <1>f, <1>s DEF PhasePause, HasState
  <2>2. CASE CurTrait.pauseCounts
    <3>1. PICK t \in {tsp, FailFlags(tsp)} :
            tsp' = IF left = 1 THEN [t EXCEPT !.Test_Step_State = "STOP"] ELSE t
      BY <1>5, <2>2 DEF PhasePause
    <3>2. /\ "Test_Sched_State" \in DOMAIN t
          /\ t.Test_Sched_State = tsp.Test_Sched_State
      BY <3>1, QuietFlags DEF HasState
    <3> QED BY <1>5, <1>f, <3>1, <3>2 DEF PhasePause, Quiet, HasState, IsRunning
  <2> QED BY <2>1, <2>2
<1>6. CASE PhaseStop
  BY <1>6, QuietGoto DEF PhaseStop, Quiet, HasState, IsRunning
<1> QED BY <1>1, <1>2, <1>3, <1>4, <1>5, <1>6 DEF Phase

\* The head of a mode routine and ...EnvironmentEnter.
LEMMA QuietEnter ==
  ASSUME HasState, AlarmCheck \/ StopCheck \/ EnterCheck \/ EnterEnable
  PROVE  Quiet
<1>s. StageDone => HasState' /\ tsp'.Test_Sched_State = tsp.Test_Sched_State
  BY DEF StageDone, HasState
<1>1. CASE AlarmCheck
  BY <1>1 DEF AlarmCheck, Quiet, HasState, IsRunning
<1>2. CASE StopCheck
  BY <1>2 DEF StopCheck, Quiet, HasState, IsRunning
<1>3. CASE EnterCheck
  BY <1>3, <1>s DEF EnterCheck, Quiet, HasState, IsRunning
<1>4. CASE EnterEnable
  BY <1>4, <1>s DEF EnterEnable, Quiet, HasState, IsRunning
<1> QED BY <1>1, <1>2, <1>3, <1>4

-----------------------------------------------------------------------------
\* Power-on: no test runs, the home panel is on the screen.
LEMMA PanelStart == PanelInit => PanelInv
BY DEF PanelInit, Init, PanelInv, HasState, IsRunning

\* A quiet step that leaves the panel and the mailbox alone, or clears
\* panel_flag, keeps the invariant.
LEMMA PanelQuiet ==
  ASSUME PanelInv, Quiet, keyMb' = keyMb,
         panel' = panel \/ (panel = "step" /\ panel' = "left")
  PROVE  PanelInv'
BY DEF PanelInv, Quiet, HasState, IsRunning

\* Every step of the panels keeps the invariant when no key is released in the
\* gap.
LEMMA PanelStep ==
  ASSUME KeyRace = FALSE, PanelInv, [PanelNext]_allVars
  PROVE  PanelInv'
<1>h. HasState
  BY DEF PanelInv
<1>1. CASE KeyRelease
  BY <1>1 DEF KeyRelease, KeysOn, vars, PanelInv, HasState, IsRunning
<1>2. CASE OpenPanel
  BY <1>2 DEF OpenPanel, Polling, schedVars, PanelInv, HasState, IsRunning
<1>3. CASE Knob
  BY <1>3 DEF Knob, Polling, schedVars, panelVars, PanelInv, HasState, IsRunning
<1>4. CASE LeavePanel
  BY <1>4 DEF LeavePanel, Polling, vars, PanelInv, HasState, IsRunning
<1>5. CASE EnterHome
  BY <1>5 DEF EnterHome, Polling, schedVars, PanelInv, HasState, IsRunning
<1>6. CASE StopKeyInPanel
  <2>1. Quiet
    BY <1>6, <1>h, QuietInterrupts DEF StopKeyInPanel
  <2> QED BY <1>6, <2>1, PanelQuiet DEF StopKeyInPanel
<1>7. ASSUME NEW a \in Alarms, AlarmLine(a)
      PROVE  PanelInv'
  <2>1. Quiet
    BY <1>7, <1>h, QuietInterrupts DEF AlarmLine
  <2> QED BY <1>7, <2>1, PanelQuiet DEF AlarmLine, panelVars
<1>8. CASE StartKey
  BY <1>8 DEF StartKey, StartPress, panelVars, PanelInv, HasState, IsRunning
<1>9. CASE (TimerFire \/ HomeStep \/ SchedStep) /\ UNCHANGED panelVars
  <2>1. Quiet
    BY <1>9, <1>h, QuietInterrupts, QuietHome, QuietMain, QuietEnter, QuietPhase DEF SchedStep
  <2> QED BY <1>9, <2>1, PanelQuiet DEF panelVars
<1>10. CASE UNCHANGED allVars
  BY <1>10 DEF allVars, vars, panelVars, PanelInv, HasState, IsRunning
<1> QED BY <1>1, <1>2, <1>3, <1>4, <1>5, <1>6, <1>7, <1>8, <1>9, <1>10 DEF PanelNext

\* ClosedInTest: with no key released in the gap before Test_Sched_Start, the
\* step panel is closed whenever a test runs or is paused (bsp_KeyPro).
THEOREM PanelClosed == ASSUME KeyRace = FALSE PROVE PanelSpec => []ClosedInTest
<1>1. PanelInit => PanelInv
  BY PanelStart
<1>2. PanelInv /\ [PanelNext]_allVars => PanelInv'
  BY PanelStep
<1>3. PanelInv => ClosedInTest
  BY DEF PanelInv, ClosedInTest, IsRunning
<1> QED BY <1>1, <1>2, <1>3, PTL DEF PanelSpec

-----------------------------------------------------------------------------
\* What the keys and the knob do that is no step of the scheduler's three
\* actors.
PanelKey == KeyRelease \/ OpenPanel \/ Knob \/ LeavePanel \/ EnterHome

LEMMA PanelOrNext ==
  ASSUME [PanelNext]_allVars
  PROVE  [Next]_vars \/ PanelKey
BY DEF PanelNext, allVars, PanelKey, StopKeyInPanel, AlarmLine, StartKey, Next

\* A panel moves nothing but the cursor, and that only where the list is at its
\* head.
LEMMA PanelStill ==
  ASSUME PanelInv, Started, PanelKey
  PROVE  /\ UNCHANGED schedVars /\ stepNum' = stepNum
         /\ UNCHANGED vars \/ (stepNum = 1 /\ (TypeOK => TypeOK'))
<1>1. CASE KeyRelease \/ LeavePanel
  BY <1>1 DEF KeyRelease, LeavePanel, vars, schedVars, clock, leds, history, params
<1>2. CASE OpenPanel \/ Knob \/ EnterHome
  <2>1. UNCHANGED schedVars /\ ~IsRunning
    BY <1>2 DEF OpenPanel, Knob, EnterHome, PanelInv
  <2>2. stepNum = 1 /\ stepNum' = stepNum
    BY <1>2, <2>1 DEF OpenPanel, Knob, EnterHome, Started, IsRunning
  <2>3. ASSUME TypeOK
        PROVE  g_cur_step' \in 0..Len(prog)
    <3>1. Len(prog) \in Nat \ {0} /\ items_count \in Nat
      BY <2>3, ProgramTypes, PanelAssumption
    <3>2. \A n \in 0..Len(prog) : CursorAfterPage(n) \in 0..Len(prog)
      BY <3>1 DEF CursorAfterPage
    <3> QED BY <1>2, <3>1, <3>2 DEF OpenPanel, Knob, EnterHome
  <2>4. TypeOK => TypeOK'
    BY <2>1, <2>2, <2>3 DEF TypeOK, schedVars, clock, leds, history
  <2> QED BY <2>1, <2>2, <2>4
<1> QED BY <1>1, <1>2 DEF PanelKey

\* The invariants that only look at what a panel leaves alone.
LEMMA PanelKeeps ==
  ASSUME PanelInv, Started, PanelKey
  PROVE  /\ Started' /\ (TypeInv => TypeInv') /\ (AlarmHeldByStop => AlarmHeldByStop')
         /\ (CleanInv => CleanInv') /\ (PauseInv => PauseInv')
         /\ (ForgiveInv => ForgiveInv') /\ (TripInv => TripInv')
<1>1. UNCHANGED <<prog, tsp, stepNum, loop, severMb, clockMb, out, left, stage, failCont,
                  saved, failed, tripped, pc, home>>
  BY PanelStill DEF schedVars, clock, history
<1>2. Cur' = Cur /\ CurTrait' = CurTrait /\ Fresh' = Fresh /\ Inside' = Inside
  BY <1>1 DEF Cur, CurTrait, Fresh, Inside
<1>3. Settled' = Settled /\ AtEnd' = AtEnd /\ CurOutputs' = CurOutputs
  BY <1>1, <1>2 DEF Settled, AtEnd, CurOutputs
<1>4. Clean' = Clean
  BY <1>1, <1>3 DEF Clean
<1>5. Started'
  BY <1>1 DEF Started, HomeRuns
<1>6. TypeInv => TypeInv'
  <2>1. CASE UNCHANGED vars
    BY <2>1, TypeNext
  <2>2. CASE stepNum = 1 /\ (TypeOK => TypeOK')
    BY <1>1, <1>2, <2>2 DEF TypeInv, StepOK, StepCursor
  <2> QED BY <2>1, <2>2, PanelStill
<1>7. AlarmHeldByStop => AlarmHeldByStop'
  BY <1>1 DEF AlarmHeldByStop, HomeClears, PcClears
<1>8. CleanInv => CleanInv'
  BY <1>1, <1>4 DEF CleanInv
<1>9. PauseInv => PauseInv'
  BY <1>1, <1>2, <1>3, <1>4 DEF PauseInv, Resuming
<1>10. ForgiveInv => ForgiveInv'
  BY <1>1, <1>2 DEF ForgiveInv
<1>11. TripInv => TripInv'
  BY <1>1, <1>2, <1>3 DEF TripInv, TripStaysCut
<1> QED BY <1>5, <1>6, <1>7, <1>8, <1>9, <1>10, <1>11

\* Types, cursor and what Test_Sched_Start relies on hold with the panels.
LEMMA PanelTypes ==
  ASSUME StartHit = FALSE, KeyRace = FALSE
  PROVE  PanelSpec => [](PanelInv /\ TypeInv /\ Started /\ AlarmHeldByStop)
<1>1. PanelInit => PanelInv /\ TypeInv /\ Started /\ AlarmHeldByStop
  <2>1. Init => TypeInv /\ Started /\ AlarmHeldByStop
    BY TypeInit DEF Init, Started, Starting, Alarms, AlarmHeldByStop
  <2> QED BY <2>1, PanelStart DEF PanelInit
<1>2. ASSUME PanelInv, TypeInv, Started, AlarmHeldByStop, [PanelNext]_allVars
      PROVE  PanelInv' /\ TypeInv' /\ Started' /\ AlarmHeldByStop'
  <2>1. PanelInv'
    BY <1>2, PanelStep
  <2>2. CASE [Next]_vars
    BY <1>2, <2>1, <2>2, TypeNext, StartedNext, AlarmHeldNext
  <2>3. CASE PanelKey
    BY <1>2, <2>1, <2>3, PanelKeeps
  <2> QED BY <1>2, <2>2, <2>3, PanelOrNext
<1> QED BY <1>1, <1>2, PTL DEF PanelSpec

\* With the panels around the scheduler too, a pending alarm keeps the test
\* stopped and its verdict from being PASS, until a forgiven step or
\* Test_Sched_Start, into which here no interrupt falls, clears its flag.
THEOREM PanelAlarmHeld ==
  ASSUME StartHit = FALSE, KeyRace = FALSE
  PROVE  PanelSpec => []AlarmHeldByStop
BY PanelTypes, PTL

\* What an alarm has cut stays cut, whatever panel is opened and left.
THEOREM PanelStaysCut ==
  ASSUME StartHit = FALSE, KeyRace = FALSE, NoIR
  PROVE  PanelSpec => []TripStaysCut
<1>1. PanelInit => TripInv
  BY DEF PanelInit, Init, TripInv, TripStaysCut, Fresh
<1>2. ASSUME PanelInv, TypeInv, TypeInv', Started, TripInv, [PanelNext]_allVars
      PROVE  TripInv'
  BY <1>2, TripNext, PanelKeeps, PanelOrNext
<1>3. TripInv => TripStaysCut
  BY DEF TripInv
<1> QED BY <1>1, <1>2, <1>3, PanelTypes, PTL DEF PanelSpec

\* The pass of a list stays clean, and forgiving ones go on, with the panels.
LEMMA PanelClean ==
  ASSUME StartHit = FALSE, KeyRace = FALSE, Remembers
  PROVE  PanelSpec => [](CleanInv /\ PauseInv)
<1>1. PanelInit => CleanInv /\ PauseInv
  BY VerdictInit DEF PanelInit
<1>2. ASSUME PanelInv, TypeInv, TypeInv', Started, AlarmHeldByStop, CleanInv, PauseInv,
             [PanelNext]_allVars
      PROVE  CleanInv' /\ PauseInv'
  BY <1>2, VerdictNext, PanelKeeps, PanelOrNext
<1> QED BY <1>1, <1>2, PanelTypes, PTL DEF PanelSpec

\* PASS is backed by every step with the panels around the scheduler, for lists
\* that forgive and do not wait, or wait and do not forgive.
THEOREM PanelVerdict ==
  ASSUME StartHit = FALSE, KeyRace = FALSE, Remembers
  PROVE  PanelSpec => []VerdictSound
<1>1. CleanInv => VerdictSound
  BY DEF CleanInv, VerdictSound
<1> QED BY <1>1, PanelClean, PTL

\* "Fail Con." does what it says with the panels around the scheduler.
THEOREM PanelForgives ==
  ASSUME StartHit = FALSE, KeyRace = FALSE, Remembers, ForgivingIsRead
  PROVE  PanelSpec => FailContinues
<1>1. PanelInit => ForgiveInv
  BY ForgiveInit DEF PanelInit
<1>2. ASSUME PanelInv, TypeInv, TypeInv', Started, PauseInv, PauseInv', ForgiveInv,
             [PanelNext]_allVars
      PROVE  ForgiveInv'
  BY <1>2, ForgiveNext, PanelKeeps, PanelOrNext
<1> QED BY <1>1, <1>2, ForgivenGoesOn, PanelTypes, PanelClean, PTL
        DEF PanelSpec, FailContinues
=============================================================================
