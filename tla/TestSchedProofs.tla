-------------------------- MODULE TestSchedProofs --------------------------
(***************************************************************************)
(* Invariants of the test scheduler, proved for every set of step lists,   *)
(* every set of inputs, and interrupts inside Test_Sched_Start or not.     *)
(*                                                                         *)
(*   1. TypeInv = TypeOK, StepOK and StepCursor is inductive: TypeOK needs *)
(*      to know where p_Test_Param is not NULL (StepOK), and StepOK needs  *)
(*      the pointer to be the cursor once a step has run (StepCursor).     *)
(*   2. AlarmHeldByStop is inductive over TypeInv: it names the statements *)
(*      that are still to clear an alarm flag after Stop_Flag was cleared. *)
(*   3. IdleOutputsOff follows from OutputsInv, which says at which points *)
(*      of the thread an output may be on at all; it is inductive when the *)
(*      alarms raised are none that a routine of the lists checks.         *)
(*   4. No step is left without a record: SavedInv is inductive.           *)
(*   5. What an alarm has cut stays cut: TripInv is inductive.             *)
(*   6. A running test is driven: Driven is inductive.                     *)
(*   7. With no interrupt in Test_Sched_Start, the thread waits while it   *)
(*      runs, and a live output is RUNNING: Started is inductive.          *)
(*   8. PASS is backed by every step: CleanInv says that Pass_Flag is set  *)
(*      in a clean pass only, and PauseInv that a list waits with a clean  *)
(*      pass only, so that a resumed one may set it again.                 *)
(*   9. A forgiven failure does not end the list: ForgiveInv.              *)
(***************************************************************************)
EXTENDS TestSched, TLAPS

\* The type of a mode record of TestModes.
TraitType ==
  [stages : Seq(SUBSET Outputs), close : SUBSET Outputs,
   alarms : SUBSET Alarms, setsArc : BOOLEAN, fixedWait : Nat,
   rises : BOOLEAN, falls : BOOLEAN, voltCheck : BOOLEAN,
   expiryOff : SUBSET Outputs, pauseLast : BOOLEAN, pauseCounts : BOOLEAN,
   chained : BOOLEAN]

\* A mode has one or two output stages.
TraitOK(t) == t \in TraitType /\ Len(t.stages) \in 1..2

\* Each of the eight mode records has that type.
LEMMA TraitTypes == \A m \in Modes : TraitOK(Trait[m])
<1>1. /\ {"AC"} \in SUBSET Outputs /\ {"DC"} \in SUBSET Outputs
      /\ {"GR"} \in SUBSET Outputs /\ {"MAIN"} \in SUBSET Outputs
      /\ {"MAIN", "ASSIT"} \in SUBSET Outputs
      /\ {"AC", "GR"} \in SUBSET Outputs /\ {"DC", "GR"} \in SUBSET Outputs
      /\ {} \in SUBSET Outputs
  BY DEF Outputs
<1>2. {} \in SUBSET Alarms /\ Alarms \in SUBSET Alarms /\ {"short", "gfi"} \in SUBSET Alarms
  BY DEF Alarms
<1>3. /\ TraitOK(ACW)
  BY <1>1, <1>2 DEF ACW, TraitType, TraitOK
<1>s. \A a, b \in SUBSET Outputs : /\ <<a>> \in Seq(SUBSET Outputs) /\ Len(<<a>>) = 1
                                  /\ <<a, b>> \in Seq(SUBSET Outputs) /\ Len(<<a, b>>) = 2
  OBVIOUS
<1>4. TraitOK(DCW)
  <2>1. DCW \in TraitType /\ DCW.stages = <<{"DC"}>>
    BY <1>1, <1>3, <1>s DEF DCW, TraitType, TraitOK
  <2> QED BY <2>1, <1>1, <1>s DEF TraitOK
<1>5. TraitOK(IR)
  BY <1>1, <1>2, <1>4 DEF IR, TraitType, TraitOK
<1>6. TraitOK(GR)
  BY <1>1, <1>2 DEF GR, TraitType, TraitOK
<1>7. TraitOK(LC)
  <2>1. LC \in TraitType /\ LC.stages = <<{"MAIN", "ASSIT"}>>
    BY <1>1, <1>6, <1>s DEF LC, TraitType, TraitOK
  <2> QED BY <2>1, <1>1, <1>s DEF TraitOK
<1>8. TraitOK(PW)
  <2>1. PW \in TraitType /\ PW.stages = <<{"MAIN"}>>
    BY <1>1, <1>6, <1>s DEF PW, TraitType, TraitOK
  <2> QED BY <2>1, <1>1, <1>s DEF TraitOK
<1>9. TraitOK(ACW_GR)
  <2>1. ACW_GR \in TraitType /\ ACW_GR.stages = <<{"AC"}, {"GR"}>>
    BY <1>1, <1>3, <1>s DEF ACW_GR, TraitType, TraitOK
  <2> QED BY <2>1, <1>1, <1>s DEF TraitOK
<1>10. TraitOK(DCW_GR)
  <2>1. DCW_GR \in TraitType /\ DCW_GR.stages = <<{"DC"}, {"GR"}>>
    BY <1>1, <1>4, <1>s DEF DCW_GR, TraitType, TraitOK
  <2> QED BY <2>1, <1>1, <1>s DEF TraitOK
<1> QED
  BY <1>3, <1>4, <1>5, <1>6, <1>7, <1>8, <1>9, <1>10 DEF Modes, Trait

-----------------------------------------------------------------------------
\* The scheduler thread is in a mode routine, on its way to a phase or in it.
InStep  == {"alarms", "stopchk", "check", "enable", "phase"}
\* The thread is between two steps: the step state is OUT.
Between == {"gate", "pausing", "warn", "forgive", "short", "arc", "gfi", "fetch",
            "verdict", "pass", "fail", "check", "enable"}

\* Inside a step the pointer is not NULL, between two steps the step state is
\* OUT, Enter's stage is one of the mode's, and a PAUSE has ticks left.
StepOK ==
  /\ pc \in InStep \/ tsp.Test_Step_State # "OUT" => tsp.p_Test_Param # 0
  /\ pc \in Between => tsp.Test_Step_State = "OUT"
  /\ pc = "phase" => tsp.Test_Step_State # "OUT"
  /\ pc \in {"check", "enable"} => stage <= Len(CurTrait.stages)
  /\ pc \notin {"check", "enable"} => stage = 1
  /\ tsp.Test_Step_State = "PAUSE" => left > 0

\* The inductive invariant behind type correctness.
TypeInv == TypeOK /\ StepOK /\ StepCursor

\* The list under test is a nonempty sequence of steps.
LEMMA ProgramTypes ==
  ASSUME TypeOK
  PROVE  prog \in Seq(StepType) /\ Len(prog) \in Nat \ {0}
BY ProgramsAssumption DEF TypeOK

\* A pointer that is not NULL points at a step, whose mode has a record.
LEMMA CurTypes ==
  ASSUME TypeOK, tsp.p_Test_Param # 0
  PROVE  Cur \in StepType /\ TraitOK(CurTrait)
<1>1. tsp.p_Test_Param \in 1..Len(prog)
  BY ProgramTypes DEF TypeOK, SchedParam
<1>2. Cur \in StepType
  BY <1>1, ProgramTypes DEF Cur
<1>3. Cur.mode \in Modes
  BY <1>2 DEF StepType
<1> QED BY <1>2, <1>3, TraitTypes DEF CurTrait

\* What every statement of Test_Sched_Start between its first and the start of
\* the timer leaves alone.
LEMMA FlagsFacts ==
  ASSUME tsp \in SchedParam(Len(prog)), StartRunning \/ StartFlags
  PROVE  /\ HomeRuns /\ home \in Starting \ {"go"} /\ home' \in Starting \ {"run"}
         /\ tsp' \in SchedParam(Len(prog))
         /\ tsp'.Test_Step_State = tsp.Test_Step_State
         /\ tsp'.p_Test_Param = tsp.p_Test_Param
         /\ tsp'.Warning_Flag = tsp.Warning_Flag
         /\ tsp'.Alarm_Flags \subseteq tsp.Alarm_Flags
         /\ UNCHANGED <<prog, params, clock, out, left, stage, failCont, leds, saved,
                        history, pc>>
<1>1. CASE StartRunning
  BY <1>1 DEF StartRunning, StartWrites, Running, SchedParam, Starting, Alarms
<1>2. CASE StartPass \/ StartStop \/ StartResume
  BY <1>2 DEF StartPass, StartStop, StartResume, StartWrites, SchedParam, Starting, Alarms
<1>3. ASSUME NEW a \in Alarms, NEW to \in Alarms \cup {"resume"}, StartClear(a, to)
      PROVE  /\ tsp' \in SchedParam(Len(prog)) /\ tsp'.Test_Step_State = tsp.Test_Step_State
             /\ tsp'.p_Test_Param = tsp.p_Test_Param
             /\ tsp'.Warning_Flag = tsp.Warning_Flag
             /\ tsp'.Alarm_Flags \subseteq tsp.Alarm_Flags
  BY <1>3 DEF StartClear, StartWrites, Cleared, SchedParam
<1>4. CASE StartClear("short", "gfi") \/ StartClear("gfi", "arc") \/ StartClear("arc", "resume")
  <2>1. {"short", "gfi", "arc"} = Alarms
    BY DEF Alarms
  <2> QED BY <1>3, <1>4, <2>1 DEF StartClear, StartWrites, Starting
<1> QED BY <1>1, <1>2, <1>4 DEF StartFlags

\* What forgiving a step leaves alone once Stop_Flag is withdrawn.
LEMMA ForgiveFacts ==
  ASSUME tsp \in SchedParam(Len(prog)), Forgive
  PROVE  /\ pc \in {"forgive"} \cup Alarms /\ pc' \in {"fetch"} \cup Alarms
         /\ tsp' \in SchedParam(Len(prog))
         /\ tsp'.Stop_Flag = tsp.Stop_Flag /\ tsp'.Pass_Flag = tsp.Pass_Flag
         /\ tsp'.Test_Sched_State = tsp.Test_Sched_State
         /\ tsp'.Test_Step_State = tsp.Test_Step_State
         /\ tsp'.p_Test_Param = tsp.p_Test_Param
         /\ tsp'.Pause_Flag = tsp.Pause_Flag /\ tsp'.Continue_Flag = tsp.Continue_Flag
         /\ tsp'.Warning_Flag => tsp.Warning_Flag
         /\ tsp'.Alarm_Flags \subseteq tsp.Alarm_Flags
         /\ ledFail' \in {ledFail, FALSE}
         /\ UNCHANGED <<prog, params, clock, out, left, stage, failCont, ledPass, saved,
                        history, home>>
<1>1. CASE ForgiveWarning
  BY <1>1 DEF ForgiveWarning, SchedParam, Alarms
<1>2. ASSUME NEW a \in Alarms, NEW to, ForgiveAlarm(a, to)
      PROVE  /\ tsp' \in SchedParam(Len(prog))
             /\ tsp'.Stop_Flag = tsp.Stop_Flag /\ tsp'.Pass_Flag = tsp.Pass_Flag
             /\ tsp'.Test_Sched_State = tsp.Test_Sched_State
             /\ tsp'.Test_Step_State = tsp.Test_Step_State
             /\ tsp'.p_Test_Param = tsp.p_Test_Param
             /\ tsp'.Pause_Flag = tsp.Pause_Flag /\ tsp'.Continue_Flag = tsp.Continue_Flag
             /\ tsp'.Warning_Flag = tsp.Warning_Flag
             /\ tsp'.Alarm_Flags \subseteq tsp.Alarm_Flags
  BY <1>2 DEF ForgiveAlarm, Cleared, SchedParam
<1>3. CASE ForgiveAlarm("short", "arc") \/ ForgiveAlarm("arc", "gfi") \/ ForgiveAlarm("gfi", "fetch")
  <2>1. {"short", "arc", "gfi"} = Alarms
    BY DEF Alarms
  <2> QED BY <1>2, <1>3, <2>1 DEF ForgiveAlarm, leds
<1> QED BY <1>1, <1>3 DEF Forgive

\* Power-on satisfies the invariant.
LEMMA TypeInit == Init => TypeInv
<1> SUFFICES ASSUME Init PROVE TypeInv
  OBVIOUS
<1>1. prog \in Seq(StepType) /\ Len(prog) \in Nat \ {0}
  BY ProgramsAssumption DEF Init
<1>2. tsp \in SchedParam(Len(prog))
  BY <1>1 DEF Init, SchedParam, Phases
<1>3. saved \in [1..Len(prog) -> Verdicts]
  BY DEF Init, Verdicts
<1>4. TypeOK
  <2>1. g_cur_step \in 0..Len(prog) /\ stepNum \in 1..Len(prog) + 1
    BY <1>1 DEF Init
  <2>2. pc \in SchedPcs /\ home \in HomePcs
    BY DEF Init, SchedPcs, HomePcs
  <2>3. /\ prog \in Programs /\ out \subseteq Outputs /\ tripped \subseteq 1..Len(prog)
        /\ left \in Nat /\ stage \in 1..2
    BY DEF Init
  <2>4. /\ loop \in BOOLEAN /\ timer \in BOOLEAN /\ clockMb \in BOOLEAN
        /\ severMb \in BOOLEAN /\ failCont \in BOOLEAN /\ ledPass \in BOOLEAN
        /\ ledFail \in BOOLEAN /\ failed \in BOOLEAN
    BY DEF Init
  <2> QED BY <1>2, <1>3, <2>1, <2>2, <2>3, <2>4 DEF TypeOK
<1>5. StepOK
  BY DEF Init, StepOK, InStep, Between
<1>6. StepCursor
  BY DEF Init, StepCursor
<1> QED BY <1>4, <1>5, <1>6 DEF TypeInv

\* StepOK only reads the fields a flag update leaves alone.
LEMMA StepFrame ==
  ASSUME StepOK, UNCHANGED <<prog, pc, stage, left>>,
         tsp'.Test_Step_State = tsp.Test_Step_State,
         tsp'.p_Test_Param = tsp.p_Test_Param
  PROVE  StepOK'
BY DEF StepOK, CurTrait, Cur

\* StepCursor only reads the pointer and the cursor.
LEMMA CursorFrame ==
  ASSUME StepCursor, UNCHANGED params, tsp'.p_Test_Param = tsp.p_Test_Param
  PROVE  StepCursor'
BY DEF StepCursor, params

\* The stop key, the alarms and the tick preserve the invariant.
LEMMA TypeInterrupt ==
  ASSUME TypeInv, StopKey \/ (\E a \in Alarms : Alarm(a)) \/ TimerFire
  PROVE  TypeInv'
<1> USE DEF TypeInv
<1>1. CASE StopKey
  <2>1. /\ tsp' \in SchedParam(Len(prog))
        /\ tsp'.Test_Step_State = tsp.Test_Step_State
        /\ tsp'.p_Test_Param = tsp.p_Test_Param
    BY <1>1 DEF StopKey, ClosedFlags, TypeOK, SchedParam
  <2>2. g_cur_step' \in 0..Len(prog) /\ stepNum' \in 1..Len(prog) + 1
    BY <1>1, ProgramTypes DEF StopKey, TypeOK
  <2>3. TypeOK'
    BY <1>1, <2>1, <2>2 DEF StopKey, TypeOK, clock, history
  <2> QED BY <1>1, <2>1, <2>3, StepFrame DEF StopKey, StepCursor
<1>2. ASSUME NEW a \in Alarms, Alarm(a) PROVE TypeInv'
  <2>1. /\ tsp' \in SchedParam(Len(prog))
        /\ tsp'.Test_Step_State = tsp.Test_Step_State
        /\ tsp'.p_Test_Param = tsp.p_Test_Param
    BY <1>2 DEF Alarm, ClosedFlags, TypeOK, SchedParam
  <2>2. tsp.Test_Step_State # "OUT" => tsp.p_Test_Param \in 1..Len(prog)
    BY ProgramTypes DEF TypeOK, StepOK, SchedParam
  <2>3. TypeOK'
    BY <1>2, <2>1, <2>2 DEF Alarm, TypeOK, clock, params
  <2> QED BY <1>2, <2>1, <2>3, StepFrame, CursorFrame DEF Alarm
<1>3. CASE TimerFire
  BY <1>3, StepFrame, CursorFrame DEF TimerFire, TypeOK, params, leds, history
<1> QED BY <1>1, <1>2, <1>3

\* Test_Sched_Start preserves it.
LEMMA TypeHome ==
  ASSUME TypeInv, StartPress \/ HomeStep
  PROVE  TypeInv'
<1> USE DEF TypeInv, HomePcs, Starting, Alarms
<1>1. CASE StartPress
  BY <1>1, StepFrame, CursorFrame DEF StartPress, TypeOK, params, clock, leds, history
<1>3. CASE StartRunning \/ StartFlags
  <2>1. tsp \in SchedParam(Len(prog))
    BY DEF TypeOK
  <2>2. TypeOK'
    BY <1>3, <2>1, FlagsFacts DEF TypeOK, params, clock, leds, history
  <2> QED BY <1>3, <2>1, <2>2, FlagsFacts, StepFrame, CursorFrame
<1>4. CASE StartGo
  BY <1>4, StepFrame, CursorFrame DEF StartGo, TypeOK, params, leds, history
<1>5. CASE StartTail
  BY <1>5, StepFrame, CursorFrame DEF StartTail, TypeOK, params, clock, history
<1> QED BY <1>1, <1>3, <1>4, <1>5 DEF HomeStep

\* So does Test_Sched_Main between two steps.
LEMMA TypeBetween ==
  ASSUME TypeInv,
         \/ Wake \/ Clock \/ Main \/ Gate \/ Pausing \/ Warn \/ Forgive \/ Fetch
         \/ Verdict \/ PassVerdict \/ FailVerdict
  PROVE  TypeInv'
<1> USE DEF TypeInv, SchedPcs, Between, InStep, Alarms
<1>1. CASE Wake
  BY <1>1 DEF Wake, StepCursor, Return, TypeOK, StepOK, params, leds, history
<1>2. CASE Clock
  BY <1>2 DEF Clock, StepCursor, TypeOK, StepOK, params, leds, history
<1>3. CASE Main
  <2>1. /\ tsp' \in SchedParam(Len(prog))
        /\ tsp'.Test_Step_State = tsp.Test_Step_State
        /\ tsp'.p_Test_Param = tsp.p_Test_Param
        /\ failCont' \in BOOLEAN
    BY <1>3 DEF Main, TypeOK, SchedParam
  <2>2. TypeOK'
    BY <1>3, <2>1 DEF Main, TypeOK, params, clock, leds, history
  <2> QED BY <1>3, <2>1, <2>2 DEF Main, StepOK, StepCursor, params
<1>4. CASE Gate
  BY <1>4 DEF Gate, StepCursor, TypeOK, StepOK, params, clock, leds, history
<1>5. CASE Pausing
  <2>1. /\ tsp' \in SchedParam(Len(prog))
        /\ tsp'.Test_Step_State = tsp.Test_Step_State
        /\ tsp'.p_Test_Param = tsp.p_Test_Param
    BY <1>5 DEF Pausing, TypeOK, SchedParam
  <2>2. TypeOK'
    BY <1>5, <2>1 DEF Pausing, TypeOK, params, leds, history
  <2> QED BY <1>5, <2>1, <2>2 DEF Pausing, StepOK, StepCursor, params
<1>6. CASE Warn
  <2>1. /\ tsp' \in SchedParam(Len(prog))
        /\ tsp'.Test_Step_State = tsp.Test_Step_State
        /\ tsp'.p_Test_Param = tsp.p_Test_Param
    BY <1>6 DEF Warn, TypeOK, SchedParam
  <2>2. TypeOK'
    BY <1>6, <2>1 DEF Warn, TypeOK, params, leds, history
  <2> QED BY <1>6, <2>1, <2>2 DEF Warn, StepOK, StepCursor, params
<1>11. CASE Forgive
  <2>1. tsp \in SchedParam(Len(prog))
    BY DEF TypeOK
  <2>2. TypeOK'
    BY <1>11, <2>1, ForgiveFacts DEF TypeOK, params, clock, history
  <2> QED BY <1>11, <2>1, <2>2, ForgiveFacts DEF StepOK, StepCursor, params
<1>7. CASE Fetch
  <2>1. Len(prog) \in Nat \ {0}
    BY ProgramTypes
  <2>2. /\ g_cur_step' \in 0..Len(prog)
        /\ stepNum' \in 1..Len(prog) + 1
        /\ stepNum' > 1 => g_cur_step' = stepNum' - 1
    BY <1>7, <2>1 DEF Fetch, NextIndex, Wraps, TypeOK, StepCursor
  <2>3. /\ tsp' \in SchedParam(Len(prog))
        /\ tsp'.Test_Step_State = tsp.Test_Step_State
        /\ tsp'.p_Test_Param = IF pc' = "alarms" THEN g_cur_step' ELSE 0
        /\ IF pc' = "alarms" THEN g_cur_step' # 0 ELSE pc' = "verdict" /\ stepNum' = 1
    BY <1>7, <2>2 DEF Fetch, TypeOK, SchedParam
  <2>4. /\ saved' \in [1..Len(prog) -> Verdicts]
        /\ failed' \in BOOLEAN /\ tripped' \subseteq 1..Len(prog)
    BY <1>7 DEF Fetch, TypeOK, Verdicts, history
  <2>5. TypeOK'
    BY <1>7, <2>2, <2>3, <2>4 DEF Fetch, TypeOK, clock, leds
  <2> QED BY <1>7, <2>2, <2>3, <2>5 DEF Fetch, StepOK, StepCursor
<1>8. CASE Verdict
  BY <1>8 DEF Verdict, StepCursor, TypeOK, StepOK, params, clock, leds, history
<1>9. CASE PassVerdict
  <2>1. /\ tsp' \in SchedParam(Len(prog))
        /\ tsp'.Test_Step_State = tsp.Test_Step_State
        /\ tsp'.p_Test_Param = tsp.p_Test_Param
    BY <1>9 DEF PassVerdict, Finish, Stopped, TypeOK, SchedParam
  <2>2. TypeOK'
    BY <1>9, <2>1 DEF PassVerdict, Finish, TypeOK, params, history
  <2> QED BY <1>9, <2>1, <2>2 DEF PassVerdict, Finish, StepOK, StepCursor, params
<1>10. CASE FailVerdict
  <2>1. /\ tsp' \in SchedParam(Len(prog))
        /\ tsp'.Test_Step_State = tsp.Test_Step_State
        /\ tsp'.p_Test_Param = tsp.p_Test_Param
    BY <1>10 DEF FailVerdict, Finish, Stopped, TypeOK, SchedParam
  <2>2. TypeOK'
    BY <1>10, <2>1 DEF FailVerdict, Finish, TypeOK, params, history
  <2> QED BY <1>10, <2>1, <2>2 DEF FailVerdict, Finish, StepOK, StepCursor, params
<1> QED BY <1>1, <1>2, <1>3, <1>4, <1>5, <1>6, <1>7, <1>8, <1>9, <1>10, <1>11

\* Of one or two stages, the one that is not the last is the first.
LEMMA OneOfTwo ==
  \A a, b \in 1..2 : a <= b /\ a # b => a + 1 \in 1..2 /\ a + 1 <= b
OBVIOUS

\* So do the checks at the head of a mode routine and ...EnvironmentEnter.
LEMMA TypeEnter ==
  ASSUME TypeInv, AlarmCheck \/ StopCheck \/ EnterCheck \/ EnterEnable
  PROVE  TypeInv'
<1> USE DEF TypeInv, SchedPcs, Between, InStep
<1>1. CASE AlarmCheck
  <2>1. /\ tsp' \in SchedParam(Len(prog))
        /\ tsp'.Test_Step_State \in {"OUT", tsp.Test_Step_State}
        /\ tsp'.p_Test_Param = tsp.p_Test_Param
    BY <1>1 DEF AlarmCheck, TypeOK, SchedParam, Phases
  <2>2. saved' \in [1..Len(prog) -> Verdicts]
    BY <1>1 DEF AlarmCheck, Save, FirstAlarm, TypeOK, Verdicts, Alarms
  <2>3. TypeOK'
    BY <1>1, <2>1, <2>2 DEF AlarmCheck, Return, TypeOK, params, clock, leds, history
  <2> QED BY <1>1, <2>1, <2>3 DEF AlarmCheck, Return, StepOK, StepCursor, params
<1>2. CASE StopCheck
  <2>1. /\ tsp' \in SchedParam(Len(prog))
        /\ tsp'.Test_Step_State \in {"STOP", tsp.Test_Step_State}
        /\ tsp.Stop_Flag => tsp'.Test_Step_State = "STOP"
        /\ tsp'.p_Test_Param = tsp.p_Test_Param
    BY <1>2 DEF StopCheck, TypeOK, SchedParam, Phases
  <2>2. TypeOK'
    BY <1>2, <2>1 DEF StopCheck, TypeOK, params, clock, leds, history
  <2>3. CurTrait' = CurTrait /\ Len(CurTrait.stages) >= 1
    <3>1. CurTrait' = CurTrait
      BY <1>2, <2>1 DEF StopCheck, CurTrait, Cur
    <3>2. Len(CurTrait.stages) \in 1..2
      BY <1>2, CurTypes DEF StopCheck, StepOK, TraitOK
    <3> QED BY <3>1, <3>2
  <2> QED BY <1>2, <2>1, <2>2, <2>3 DEF StopCheck, StepOK, StepCursor, params
<1>3. ASSUME StageDone, pc \in {"check", "enable"}, out' \subseteq Outputs,
             UNCHANGED <<prog, params, clock, failCont, leds, saved, history, home>>
      PROVE  TypeInv'
  <2>1. Cur \in StepType /\ TraitOK(CurTrait)
    BY <1>3, CurTypes DEF StepOK
  <2>2. /\ tsp' \in SchedParam(Len(prog))
        /\ tsp'.Test_Step_State = IF stage = Len(CurTrait.stages) THEN "WAIT" ELSE "OUT"
        /\ tsp'.p_Test_Param = tsp.p_Test_Param
    BY <1>3, <2>1 DEF StageDone, TypeOK, StepOK, SchedParam, Phases, StepType
  <2>3. left' \in Nat
    BY <1>3, <2>1 DEF StageDone, AtLeast1, TraitOK, TraitType, StepType
  <2>4. /\ stage' \in 1..2
        /\ IF stage = Len(CurTrait.stages) THEN stage' = 1 /\ pc' = "phase"
             ELSE stage' <= Len(CurTrait.stages) /\ pc' = "check"
    <3>1. Len(CurTrait.stages) \in 1..2
      BY <2>1 DEF TraitOK
    <3>2. stage \in 1..2 /\ stage <= Len(CurTrait.stages)
      BY <1>3 DEF TypeOK, StepOK
    <3>3. /\ stage' = IF stage = Len(CurTrait.stages) THEN 1 ELSE stage + 1
          /\ pc' = IF stage = Len(CurTrait.stages) THEN "phase" ELSE "check"
      BY <1>3 DEF StageDone
    <3>4. CASE stage = Len(CurTrait.stages)
      BY <3>3, <3>4
    <3>5. CASE stage # Len(CurTrait.stages)
      <4>1. stage + 1 \in 1..2 /\ stage + 1 <= Len(CurTrait.stages)
        BY <3>1, <3>2, <3>5, OneOfTwo
      <4> QED BY <3>3, <3>5, <4>1
    <3> QED BY <3>4, <3>5
  <2>5. TypeOK'
    BY <1>3, <2>2, <2>3, <2>4 DEF TypeOK, params, clock, leds, history
  <2>6. CurTrait' = CurTrait
    BY <1>3, <2>2 DEF CurTrait, Cur
  <2> QED BY <1>3, <2>2, <2>4, <2>5, <2>6 DEF StepOK, StepCursor, params
<1>4. CASE EnterCheck
  <2>1. CASE ~tsp.Stop_Flag
    BY <1>4, <2>1, CursorFrame
    DEF EnterCheck, TypeOK, StepOK, CurTrait, Cur, params, clock, leds, history
  <2>2. CASE tsp.Stop_Flag
    BY <1>3, <1>4, <2>2 DEF EnterCheck, TypeOK
  <2> QED BY <2>1, <2>2
<1>5. CASE EnterEnable
  <2>1. CurTrait.stages[stage] \subseteq Outputs
    BY <1>5, CurTypes DEF EnterEnable, TypeOK, StepOK, TraitOK, TraitType
  <2> QED BY <1>3, <1>5, <2>1 DEF EnterEnable, TypeOK
<1> QED BY <1>1, <1>2, <1>4, <1>5

\* A tick keeps its types and the pointer, whatever the range checks say.
LEMMA JudgedTypes ==
  ASSUME TypeInv, NEW t \in SchedParam(Len(prog)), NEW o \in SUBSET Outputs,
         Judged(t, o) \/ Unjudged(t, o)
  PROVE  /\ tsp' \in SchedParam(Len(prog))
         /\ tsp'.p_Test_Param = t.p_Test_Param
         /\ tsp'.Test_Step_State \in {t.Test_Step_State, "OUT"}
         /\ out' \subseteq Outputs /\ ledFail' \in BOOLEAN /\ failed' \in BOOLEAN
         /\ saved' \in [1..Len(prog) -> Verdicts]
<1> USE DEF TypeInv
<1>1. CASE InRange(o) /\ tsp' = t
  BY <1>1 DEF InRange, TypeOK
<1>2. CASE OutOfRange(o) /\ tsp' = FailFlags(t)
  <2>1. /\ tsp' \in SchedParam(Len(prog))
        /\ tsp'.p_Test_Param = t.p_Test_Param
        /\ tsp'.Test_Step_State = "OUT"
    BY <1>2 DEF FailFlags, SchedParam, Phases
  <2>2. saved' \in [1..Len(prog) -> Verdicts]
    BY <1>2 DEF OutOfRange, Save, TypeOK, Verdicts
  <2> QED BY <1>2, <2>1, <2>2 DEF OutOfRange
<1> QED BY <1>1, <1>2 DEF Judged, Unjudged

\* A phase action that keeps its own types and StepOK keeps the invariant.
LEMMA PhaseTypes ==
  ASSUME TypeInv, PhaseFrame,
         tsp' \in SchedParam(Len(prog)), tsp'.p_Test_Param = tsp.p_Test_Param,
         out' \subseteq Outputs, ledFail' \in BOOLEAN, failed' \in BOOLEAN,
         saved' \in [1..Len(prog) -> Verdicts],
         left' \in Nat, tsp'.Test_Step_State = "PAUSE" => left' > 0
  PROVE  TypeInv'
<1>1. TypeOK'
  BY DEF TypeInv, TypeOK, PhaseFrame, Return, SchedPcs, params, clock
<1>2. StepOK'
  BY DEF TypeInv, StepOK, PhaseFrame, Return, InStep, Between
<1> QED BY <1>1, <1>2, CursorFrame DEF TypeInv, PhaseFrame

\* The six phases of a mode routine preserve the invariant.
LEMMA TypePhase == ASSUME TypeInv, Phase PROVE TypeInv'
<1> DEFINE Typed(t) == t \in SchedParam(Len(prog)) /\ t.p_Test_Param = tsp.p_Test_Param
<1>0. pc = "phase"
  BY DEF Phase, PhaseWait, PhaseRise, PhaseTesting, PhaseDown, PhasePause, PhaseStop, PhaseFrame
<1>1. Cur \in StepType /\ TraitOK(CurTrait)
  BY <1>0, CurTypes DEF TypeInv, StepOK, InStep
<1>2. \A ph \in Phases : Typed(Goto(ph)) /\ Goto(ph).Test_Step_State = ph
  BY DEF Goto, TypeInv, TypeOK, SchedParam
<1>3. Typed(tsp) /\ left \in Nat /\ out \in SUBSET Outputs
  BY DEF TypeInv, TypeOK
<1>4. AfterTest \in Phases /\ (AfterTest = "PAUSE" => Cur.pausetime > 0)
  BY DEF AfterTest, Phases
<1>5. /\ Cur.pausetime \in Nat /\ Cur.ramptime \in Nat /\ Cur.testtime \in Nat
      /\ Cur.downtime \in Nat /\ CurTrait.expiryOff \subseteq Outputs
  BY <1>1 DEF StepType, TraitOK, TraitType
<1> HIDE DEF Typed
<1>6. ASSUME NEW t, Typed(t), NEW o \in SUBSET Outputs, Judged(t, o) \/ Unjudged(t, o),
             PhaseFrame, left' \in Nat, t.Test_Step_State = "PAUSE" => left' > 0
      PROVE  TypeInv'
  <2>1. /\ tsp' \in SchedParam(Len(prog))
        /\ tsp'.p_Test_Param = tsp.p_Test_Param
        /\ tsp'.Test_Step_State \in {t.Test_Step_State, "OUT"}
        /\ out' \subseteq Outputs /\ ledFail' \in BOOLEAN /\ failed' \in BOOLEAN
        /\ saved' \in [1..Len(prog) -> Verdicts]
    BY <1>6, JudgedTypes DEF Typed
  <2> QED BY <1>6, <2>1, PhaseTypes
<1>11. CASE PhaseWait
  <2>1. left' \in Nat
    BY <1>3, <1>5, <1>11 DEF PhaseWait
  <2>2. \E t \in {tsp, Goto("RISE"), Goto("TESTING")} :
          Unjudged(t, out) /\ t.Test_Step_State # "PAUSE"
    BY <1>2, <1>11 DEF PhaseWait, Phases
  <2> QED BY <1>2, <1>3, <1>6, <1>11, <2>1, <2>2 DEF PhaseWait, Phases
<1>12. CASE PhaseRise
  <2>1. left' \in Nat
    BY <1>3, <1>5, <1>12 DEF PhaseRise
  <2>2. \E t \in {tsp, Goto("TESTING")} : Judged(t, out) /\ t.Test_Step_State # "PAUSE"
    BY <1>2, <1>12 DEF PhaseRise, Phases
  <2> QED BY <1>2, <1>3, <1>6, <1>12, <2>1, <2>2 DEF PhaseRise, Phases
<1>13. CASE PhaseTesting
  <2>1. left' \in Nat
    BY <1>3, <1>5, <1>13 DEF PhaseTesting
  <2>2. \E t \in {tsp, Goto("DOWN"), Goto(AfterTest)}, o \in SUBSET Outputs :
          /\ Judged(t, o) \/ Unjudged(t, o)
          /\ t.Test_Step_State = "PAUSE" => left' > 0
    BY <1>2, <1>3, <1>4, <1>13 DEF PhaseTesting, Phases
  <2> QED BY <1>2, <1>3, <1>4, <1>6, <1>13, <2>1, <2>2 DEF PhaseTesting, Phases
<1>14. CASE PhaseDown
  <2>1. left' \in Nat
    BY <1>3, <1>5, <1>14 DEF PhaseDown
  <2>2. \E t \in {tsp, Goto(AfterTest)}, o \in SUBSET Outputs :
          Judged(t, o) /\ (t.Test_Step_State = "PAUSE" => left' > 0)
    BY <1>2, <1>3, <1>4, <1>14 DEF PhaseDown, Phases
  <2> QED BY <1>2, <1>3, <1>4, <1>6, <1>14, <2>1, <2>2 DEF PhaseDown, Phases
<1>15. CASE PhasePause
  <2>1. left > 0
    BY <1>15 DEF PhasePause, TypeInv, StepOK
  <2>2. CASE ~CurTrait.pauseCounts
    BY <1>3, <1>6, <1>15, <2>1, <2>2 DEF PhasePause
  <2>3. CASE CurTrait.pauseCounts
    <3>1. left' \in Nat /\ (left # 1 => left' > 0)
      BY <1>3, <1>15, <2>1, <2>3 DEF PhasePause
    <3>2. CASE InRange(out) /\ left = 1 /\ tsp' = Goto("STOP")
      BY <1>2, <1>3, <1>6, <1>15, <3>1, <3>2 DEF PhasePause, Unjudged, Phases
    <3>3. CASE InRange(out) /\ left # 1 /\ tsp' = tsp
      BY <1>3, <1>6, <1>15, <3>1, <3>3 DEF PhasePause, Unjudged
    <3>4. CASE /\ OutOfRange(out)
               /\ \E ph \in {"OUT", "STOP"} :
                    tsp' = [FailFlags(tsp) EXCEPT !.Test_Step_State = ph]
      <4>1. /\ tsp' \in SchedParam(Len(prog))
            /\ tsp'.p_Test_Param = tsp.p_Test_Param
            /\ tsp'.Test_Step_State # "PAUSE"
        BY <1>3, <3>4 DEF FailFlags, SchedParam, Phases, Typed
      <4>2. saved' \in [1..Len(prog) -> Verdicts]
        BY <3>4 DEF OutOfRange, Save, TypeInv, TypeOK, Verdicts
      <4>3. out' \subseteq Outputs /\ ledFail' \in BOOLEAN /\ failed' \in BOOLEAN
        BY <1>3, <3>4 DEF OutOfRange
      <4> QED BY <1>15, <3>1, <4>1, <4>2, <4>3, PhaseTypes DEF PhasePause
    <3>5. FailFlags(tsp) = [FailFlags(tsp) EXCEPT !.Test_Step_State = "OUT"]
      BY <1>3 DEF FailFlags, SchedParam, Typed
    <3> QED BY <1>15, <2>3, <3>2, <3>3, <3>4, <3>5 DEF PhasePause, Goto
  <2> QED BY <2>2, <2>3
<1>16. CASE PhaseStop
  <2>1. /\ tsp' \in SchedParam(Len(prog))
        /\ tsp'.Test_Step_State = "OUT"
        /\ tsp'.p_Test_Param = tsp.p_Test_Param
    BY <1>2, <1>16 DEF PhaseStop, Phases, Typed
  <2>2. saved' \in [1..Len(prog) -> Verdicts]
    BY <1>16 DEF PhaseStop, Save, TypeInv, TypeOK, Verdicts
  <2>3. TypeOK'
    BY <1>16, <2>1, <2>2 DEF PhaseStop, TypeInv, TypeOK, SchedPcs, params, clock, leds, history
  <2> QED BY <1>16, <2>1, <2>3, CursorFrame DEF PhaseStop, TypeInv, StepOK, InStep, Between
<1> QED BY <1>11, <1>12, <1>13, <1>14, <1>15, <1>16 DEF Phase

\* Every step preserves it.
LEMMA TypeNext == TypeInv /\ [Next]_vars => TypeInv'
<1> SUFFICES ASSUME TypeInv, [Next]_vars PROVE TypeInv'
  OBVIOUS
<1>1. CASE StopKey \/ (\E a \in Alarms : Alarm(a)) \/ TimerFire
  BY <1>1, TypeInterrupt
<1>2. CASE StartPress \/ HomeStep
  BY <1>2, TypeHome
<1>3. CASE SchedStep
  BY <1>3, TypeBetween, TypeEnter, TypePhase DEF SchedStep
<1>4. CASE UNCHANGED vars
  BY <1>4, StepFrame, CursorFrame DEF vars, TypeInv, TypeOK, params
<1> QED BY <1>1, <1>2, <1>3, <1>4 DEF Next

\* It holds in every reachable state.
LEMMA TypeInvariant == Spec => []TypeInv
BY TypeInit, TypeNext, PTL DEF Spec

\* Type correctness of the scheduler, for every step list, every set of inputs
\* and with interrupts anywhere.
THEOREM TypeCorrect == Spec => []TypeOK
BY TypeInvariant, PTL DEF TypeInv

\* Whenever Test_Sched_Main reads the switches of the step just run through
\* p_Test_Param, the pointer is the list cursor and not NULL.
THEOREM CursorCorrect == Spec => []StepCursor
BY TypeInvariant, PTL DEF TypeInv

-----------------------------------------------------------------------------
\* A step that is none of those that clear alarm flags, and neither clears
\* Stop_Flag nor sets Pass_Flag, keeps every pending alarm held.
LEMMA AlarmKept ==
  ASSUME AlarmHeldByStop, pc \notin {"forgive"} \cup Alarms \/ pc' = pc, home' = home,
         tsp'.Alarm_Flags \subseteq tsp.Alarm_Flags,
         tsp.Stop_Flag => tsp'.Stop_Flag, tsp'.Pass_Flag => tsp.Pass_Flag
  PROVE  AlarmHeldByStop'
BY DEF AlarmHeldByStop, HomeClears, PcClears, Alarms

\* So does one that stops the test with a failure.
LEMMA AlarmStopped ==
  ASSUME tsp'.Stop_Flag, ~tsp'.Pass_Flag
  PROVE  AlarmHeldByStop'
BY DEF AlarmHeldByStop

\* Every step keeps a pending alarm over a test that is stopped, unless its
\* flag is about to be cleared.
LEMMA AlarmHeldNext ==
  ASSUME TypeInv, AlarmHeldByStop, [Next]_vars
  PROVE  AlarmHeldByStop'
<1>0. tsp \in SchedParam(Len(prog))
  BY DEF TypeInv, TypeOK
<1>1. CASE StopKey
  BY <1>0, <1>1, AlarmStopped DEF StopKey, ClosedFlags, SchedParam, AlarmHeldByStop
<1>2. ASSUME NEW a \in Alarms, Alarm(a) PROVE AlarmHeldByStop'
  BY <1>0, <1>2, AlarmStopped DEF Alarm, ClosedFlags, SchedParam
<1>3. CASE StartRunning \/ StartPass \/ StartStop \/ StartResume
  BY <1>0, <1>3 DEF StartRunning, Running, StartPass, StartStop, StartResume, StartWrites,
                    AlarmHeldByStop, HomeClears, PcClears, SchedParam
<1>4. ASSUME NEW a \in Alarms, NEW to, StartClear(a, to),
             <<a, to>> \in {<<"short", "gfi">>, <<"gfi", "arc">>, <<"arc", "resume">>}
      PROVE  AlarmHeldByStop'
  <2>1. /\ tsp'.Alarm_Flags = tsp.Alarm_Flags \ {a} /\ tsp'.Stop_Flag = tsp.Stop_Flag
        /\ tsp'.Pass_Flag = tsp.Pass_Flag /\ pc' = pc /\ home = a /\ home' = to
        /\ tsp.Alarm_Flags \subseteq {"short", "gfi", "arc"}
    BY <1>0, <1>4 DEF StartClear, StartWrites, Cleared, SchedParam, Alarms
  <2> QED BY <1>4, <2>1 DEF AlarmHeldByStop, HomeClears, PcClears
<1>5. CASE StartFlags
  BY <1>3, <1>4, <1>5 DEF StartFlags, Alarms
<1>6. CASE StartGo \/ StartTail
  BY <1>6 DEF StartGo, StartTail, AlarmHeldByStop, HomeClears, PcClears
<1>7. CASE Warn
  BY <1>0, <1>7, AlarmKept DEF Warn, AlarmHeldByStop, PcClears, SchedParam, Alarms
<1>8. CASE ForgiveWarning
  BY <1>0, <1>8 DEF ForgiveWarning, AlarmHeldByStop, HomeClears, PcClears, SchedParam
<1>9. ASSUME NEW a \in Alarms, NEW to, ForgiveAlarm(a, to),
             <<a, to>> \in {<<"short", "arc">>, <<"arc", "gfi">>, <<"gfi", "fetch">>}
      PROVE  AlarmHeldByStop'
  <2>1. /\ tsp'.Alarm_Flags = tsp.Alarm_Flags \ {a} /\ tsp'.Stop_Flag = tsp.Stop_Flag
        /\ tsp'.Pass_Flag = tsp.Pass_Flag /\ home' = home /\ pc = a /\ pc' = to
        /\ tsp.Alarm_Flags \subseteq {"short", "gfi", "arc"}
    BY <1>0, <1>9 DEF ForgiveAlarm, Cleared, SchedParam, Alarms
  <2> QED BY <1>9, <2>1 DEF AlarmHeldByStop, HomeClears, PcClears
<1>10. CASE Forgive
  BY <1>8, <1>9, <1>10 DEF Forgive, Alarms
<1>11. CASE Main \/ Pausing \/ Fetch \/ PassVerdict \/ FailVerdict
  BY <1>0, <1>11, AlarmKept
  DEF Main, Pausing, Fetch, PassVerdict, FailVerdict, Finish, Stopped, SchedParam, Alarms
<1>12. CASE AlarmCheck \/ StopCheck \/ EnterCheck \/ EnterEnable
  BY <1>0, <1>12, AlarmKept
  DEF AlarmCheck, StopCheck, EnterCheck, EnterEnable, StageDone, SchedParam, Alarms
<1>13. CASE PhaseWait \/ PhaseRise \/ PhaseTesting \/ PhaseDown
  BY <1>0, <1>13, AlarmKept, AlarmStopped
  DEF PhaseWait, PhaseRise, PhaseTesting, PhaseDown, PhaseFrame, Judged, Unjudged,
      InRange, OutOfRange, FailFlags, Goto, SchedParam, Alarms
<1>14. CASE PhasePause
  BY <1>0, <1>14, AlarmKept, AlarmStopped
  DEF PhasePause, PhaseFrame, Unjudged, InRange, OutOfRange, FailFlags, SchedParam, Alarms
<1>15. CASE PhaseStop
  BY <1>0, <1>15, AlarmKept DEF PhaseStop, Goto, SchedParam, Alarms
<1>16. CASE TimerFire \/ Wake \/ Clock \/ Gate \/ Verdict
  BY <1>16, AlarmKept DEF TimerFire, Wake, Clock, Gate, Verdict, Alarms
<1>17. CASE StartPress \/ UNCHANGED vars
  BY <1>17 DEF StartPress, vars, AlarmHeldByStop, HomeClears, PcClears
<1> QED BY <1>1, <1>2, <1>3, <1>5, <1>6, <1>7, <1>10, <1>11, <1>12, <1>13, <1>14, <1>15,
           <1>16, <1>17 DEF Next, HomeStep, SchedStep, Phase

\* With interrupts between any two statements of Test_Sched_Start and of a
\* forgiven step, a pending alarm keeps the test stopped and its verdict from
\* being PASS until its flag is about to be cleared.
THEOREM AlarmHeld == Spec => []AlarmHeldByStop
<1>1. Init => AlarmHeldByStop
  BY DEF Init, AlarmHeldByStop
<1>2. TypeInv /\ AlarmHeldByStop /\ [Next]_vars => AlarmHeldByStop'
  BY AlarmHeldNext
<1> QED BY <1>1, <1>2, TypeInvariant, PTL DEF Spec

-----------------------------------------------------------------------------
\* No step of any list checks an alarm the environment raises: then only the
\* stop key, the range checks and the expiry of its times end a step.
AlarmsUnchecked ==
  \A q \in Programs : \A i \in 1..Len(q) : Trait[q[i].mode].alarms \cap Inputs = {}

\* Where an output may be on: in a phase of a step it belongs to, or while
\* Enter is between two stages; the thread leaves its loop between two steps.
OutputsInv ==
  /\ tsp.Alarm_Flags \subseteq Inputs
  /\ out # {} => /\ tsp.p_Test_Param # 0 /\ out \subseteq CurOutputs
                 /\ tsp.Test_Step_State # "OUT" \/ pc \in {"check", "enable"}
  /\ pc = "idle" => tsp.Test_Step_State = "OUT"
  /\ ~loop => /\ pc \in {"idle", "fetch", "verdict", "pass", "fail"}
              /\ pc = "fetch" => tsp.Stop_Flag

\* What OutputsInv needs of a step that keeps the pc, the phase and the pointer.
LEMMA OutputsFrame ==
  ASSUME OutputsInv, UNCHANGED <<prog, pc>>, out' \subseteq out,
         tsp'.Test_Step_State = tsp.Test_Step_State,
         tsp'.p_Test_Param = tsp.p_Test_Param,
         tsp'.Alarm_Flags \subseteq Inputs,
         ~loop' => ~loop /\ (pc = "fetch" => tsp'.Stop_Flag)
  PROVE  OutputsInv'
BY DEF OutputsInv, CurOutputs, CurTrait, Cur

\* Interrupts switch outputs off only; Test_Sched_Start touches none.
LEMMA OutputsInterrupt ==
  ASSUME TypeInv, OutputsInv,
         \/ StopKey \/ (\E a \in Alarms : Alarm(a)) \/ TimerFire \/ StartPress \/ HomeStep
  PROVE  OutputsInv'
<1>0. tsp \in SchedParam(Len(prog)) /\ tsp.Alarm_Flags \subseteq Inputs
  BY DEF TypeInv, TypeOK, OutputsInv
<1>9. ~loop => (pc = "fetch" => tsp.Stop_Flag)
  BY DEF OutputsInv
<1> USE DEF SchedParam, clock
<1>1. CASE StopKey
  BY <1>0, <1>1, <1>9, OutputsFrame DEF StopKey, ClosedFlags
<1>2. ASSUME NEW a \in Alarms, Alarm(a) PROVE OutputsInv'
  BY <1>0, <1>2, <1>9, OutputsFrame DEF Alarm, ClosedFlags
<1>3. CASE TimerFire \/ StartPress
  BY <1>0, <1>3, <1>9, OutputsFrame DEF TimerFire, StartPress
<1>4. CASE StartRunning \/ StartFlags
  <2>1. pc # "fetch" /\ tsp'.Alarm_Flags \subseteq Inputs
    BY <1>0, <1>4, FlagsFacts DEF HomeRuns
  <2> QED BY <1>0, <1>4, <2>1, FlagsFacts, OutputsFrame
<1>6. CASE StartGo \/ StartTail
  BY <1>0, <1>6, <1>9, OutputsFrame DEF StartGo, StartTail
<1> QED BY <1>1, <1>2, <1>3, <1>4, <1>6 DEF HomeStep

\* Between two steps every output stays off.
LEMMA OutputsBetween ==
  ASSUME TypeInv, OutputsInv,
         \/ Wake \/ Clock \/ Main \/ Gate \/ Pausing \/ Warn \/ Forgive \/ Fetch
         \/ Verdict \/ PassVerdict \/ FailVerdict
  PROVE  OutputsInv'
<1>0. tsp \in SchedParam(Len(prog))
  BY DEF TypeInv, TypeOK
<1>1. pc \in Between \ {"check", "enable"} => out = {} /\ tsp.Test_Step_State = "OUT"
  BY DEF TypeInv, StepOK, OutputsInv, Between
<1> USE DEF OutputsInv, CurOutputs, CurTrait, Cur, SchedParam, params, clock
<1>2. CASE Wake \/ Clock
  BY <1>2 DEF Wake, Clock, Return
<1>3. CASE Main
  BY <1>0, <1>3 DEF Main
<1>4. CASE Gate \/ Pausing \/ Warn
  BY <1>0, <1>1, <1>4 DEF Gate, Pausing, Warn, Between
<1>7. CASE Forgive
  BY <1>0, <1>1, <1>7, ForgiveFacts DEF Between, Alarms
<1>5. CASE Fetch \/ Verdict
  BY <1>0, <1>1, <1>5 DEF Fetch, Verdict, Between
<1>6. CASE PassVerdict \/ FailVerdict
  BY <1>0, <1>1, <1>6 DEF PassVerdict, FailVerdict, Finish, Stopped, Between
<1> QED BY <1>2, <1>3, <1>4, <1>5, <1>6, <1>7

\* ...EnvironmentEnter energises outputs of its own mode, stage by stage.
LEMMA OutputsEnter ==
  ASSUME AlarmsUnchecked, TypeInv, OutputsInv,
         AlarmCheck \/ StopCheck \/ EnterCheck \/ EnterEnable
  PROVE  OutputsInv'
<1>0. /\ tsp \in SchedParam(Len(prog))
      /\ pc \in InStep /\ tsp.p_Test_Param \in 1..Len(prog) /\ loop
  BY ProgramTypes DEF TypeInv, TypeOK, StepOK, InStep, OutputsInv, SchedParam,
     AlarmCheck, StopCheck, EnterCheck, EnterEnable
<1>1. tsp.Alarm_Flags \cap CurTrait.alarms = {}
  BY <1>0 DEF AlarmsUnchecked, TypeInv, TypeOK, OutputsInv, CurTrait, Cur
<1> USE DEF OutputsInv, SchedParam, params, clock
<1>2. CASE AlarmCheck
  BY <1>0, <1>1, <1>2 DEF AlarmCheck, CurOutputs, CurTrait, Cur
<1>3. CASE StopCheck
  BY <1>0, <1>3 DEF StopCheck, CurOutputs, CurTrait, Cur
<1>4. ASSUME StageDone, out' \subseteq out \cup CurOutputs, UNCHANGED <<prog, loop>>
      PROVE  OutputsInv'
  BY <1>0, <1>4 DEF StageDone, CurOutputs, CurTrait, Cur
<1>5. CASE EnterCheck
  BY <1>4, <1>5 DEF EnterCheck, CurOutputs, CurTrait, Cur
<1>6. CASE EnterEnable
  <2>1. stage \in DOMAIN CurTrait.stages
    BY <1>0, <1>6, CurTypes DEF EnterEnable, TypeInv, TypeOK, StepOK, TraitOK, TraitType
  <2>2. CurTrait.stages[stage] \subseteq CurOutputs
    BY <2>1 DEF CurOutputs, CurTrait, ModeOutputs
  <2> QED BY <1>4, <1>6, <2>2 DEF EnterEnable
<1> QED BY <1>2, <1>3, <1>5, <1>6

\* A phase leaves on outputs of its mode only, and STOP none.
LEMMA OutputsPhase ==
  ASSUME TypeInv, OutputsInv, Phase
  PROVE  OutputsInv'
<1>0. /\ tsp \in SchedParam(Len(prog)) /\ tsp.Test_Step_State # "OUT"
      /\ pc = "phase" /\ loop /\ (out # {} => out \subseteq CurOutputs)
  BY DEF TypeInv, TypeOK, StepOK, OutputsInv, Phase, PhaseWait, PhaseRise, PhaseTesting,
         PhaseDown, PhasePause, PhaseStop, PhaseFrame
<1>1. \A ph \in Phases : /\ Goto(ph).Test_Step_State = ph
                         /\ Goto(ph).p_Test_Param = tsp.p_Test_Param
                         /\ Goto(ph).Alarm_Flags = tsp.Alarm_Flags
  BY <1>0 DEF Goto, SchedParam
<1>2. AfterTest \in {"PAUSE", "STOP"}
  BY DEF AfterTest
<1>3. \A t \in {tsp, Goto("RISE"), Goto("TESTING"), Goto("DOWN"), Goto(AfterTest)} :
        /\ t.Test_Step_State # "OUT"
        /\ t.p_Test_Param = tsp.p_Test_Param
        /\ t.Alarm_Flags = tsp.Alarm_Flags
        /\ FailFlags(t).Alarm_Flags = tsp.Alarm_Flags
        /\ FailFlags(t).p_Test_Param = tsp.p_Test_Param
  BY <1>0, <1>1, <1>2 DEF Phases, Goto, FailFlags, SchedParam
<1>4. ASSUME UNCHANGED <<prog, loop>>, pc' \in {"loop", "main"},
             tsp'.p_Test_Param = tsp.p_Test_Param, tsp'.Alarm_Flags = tsp.Alarm_Flags,
             \/ out' = {}
             \/ out' \subseteq out /\ tsp'.Test_Step_State # "OUT"
      PROVE  OutputsInv'
  BY <1>0, <1>4 DEF OutputsInv, CurOutputs, CurTrait, Cur
<1>5. ASSUME NEW t \in {tsp, Goto("RISE"), Goto("TESTING"), Goto("DOWN"), Goto(AfterTest)},
             NEW o \in SUBSET out, Judged(t, o) \/ Unjudged(t, o), PhaseFrame
      PROVE  OutputsInv'
  BY <1>0, <1>3, <1>4, <1>5
  DEF Judged, Unjudged, InRange, OutOfRange, PhaseFrame, Return, clock
<1>6. CASE PhaseWait
  BY <1>5, <1>6 DEF PhaseWait
<1>7. CASE PhaseRise
  BY <1>5, <1>7 DEF PhaseRise
<1>8. CASE PhaseTesting
  BY <1>5, <1>8 DEF PhaseTesting
<1>9. CASE PhaseDown
  BY <1>5, <1>9 DEF PhaseDown
<1>10. CASE PhasePause
  BY <1>0, <1>4, <1>10 DEF PhasePause, Unjudged, InRange, OutOfRange, FailFlags,
                       SchedParam, PhaseFrame, Return, clock
<1>11. CASE PhaseStop
  BY <1>0, <1>1, <1>4, <1>11 DEF PhaseStop, Phases, clock
<1> QED BY <1>6, <1>7, <1>8, <1>9, <1>10, <1>11 DEF Phase

\* Every step preserves OutputsInv.
LEMMA OutputsNext ==
  ASSUME AlarmsUnchecked, TypeInv, OutputsInv, [Next]_vars
  PROVE  OutputsInv'
<1>1. CASE UNCHANGED vars
  BY <1>1 DEF vars, OutputsInv, CurOutputs, CurTrait, Cur
<1> QED BY <1>1, OutputsInterrupt, OutputsBetween, OutputsEnter, OutputsPhase
        DEF Next, SchedStep

\* While no step checks an alarm that can occur, the scheduler thread has
\* switched every output off whenever it has left its test loop: finished,
\* stopped, failed or paused, with the stop key pressed at any point of
\* Test_Sched_Start, Test_Sched_Main and the mode routines.
THEOREM IdleIsOff == ASSUME AlarmsUnchecked PROVE Spec => []IdleOutputsOff
<1>1. Init => OutputsInv
  BY DEF Init, OutputsInv
<1>2. TypeInv /\ OutputsInv /\ [Next]_vars => OutputsInv'
  BY OutputsNext
<1>3. TypeInv /\ OutputsInv => IdleOutputsOff
  BY DEF OutputsInv, IdleOutputsOff
<1> QED BY <1>1, <1>2, <1>3, TypeInvariant, PTL DEF Spec

-----------------------------------------------------------------------------
\* The thread has a step in hand that has not entered its first phase yet.
Fresh == pc \in {"alarms", "stopchk", "check", "enable"} /\ tsp.Test_Step_State = "OUT"

\* A step the pointer still points at, and that is over, has its record.
SavedInv ==
  tsp.p_Test_Param # 0 /\ tsp.Test_Step_State = "OUT" /\ ~Fresh
    => saved[tsp.p_Test_Param] # "none"

\* A phase keeps its step; if it leaves it, it has saved a record of it.
LEMMA PhaseSaves ==
  ASSUME TypeInv, Phase
  PROVE  /\ tsp'.p_Test_Param = tsp.p_Test_Param
         /\ tsp'.Test_Step_State = "OUT" => saved'[tsp.p_Test_Param] # "none"
<1>0. /\ tsp \in SchedParam(Len(prog)) /\ tsp.Test_Step_State # "OUT"
      /\ saved \in [1..Len(prog) -> Verdicts] /\ tsp.p_Test_Param \in 1..Len(prog)
  BY ProgramTypes DEF TypeInv, TypeOK, StepOK, SchedParam, Phase, PhaseWait, PhaseRise,
     PhaseTesting, PhaseDown, PhasePause, PhaseStop, PhaseFrame, InStep
<1>1. \A ph \in Phases : /\ Goto(ph).Test_Step_State = ph
                         /\ Goto(ph).p_Test_Param = tsp.p_Test_Param
  BY <1>0 DEF Goto, SchedParam
<1>2. AfterTest \in {"PAUSE", "STOP"}
  BY DEF AfterTest
<1>3. \A t \in {tsp, Goto("RISE"), Goto("TESTING"), Goto("DOWN"), Goto(AfterTest)} :
        /\ t.Test_Step_State # "OUT"
        /\ t.p_Test_Param = tsp.p_Test_Param
        /\ FailFlags(t).p_Test_Param = tsp.p_Test_Param
  BY <1>0, <1>1, <1>2 DEF Phases, Goto, FailFlags, SchedParam
<1>4. \A v \in {"PASS", "FAIL"} : Save(v) => saved'[tsp.p_Test_Param] # "none"
  BY <1>0 DEF Save
<1>5. ASSUME NEW t \in {tsp, Goto("RISE"), Goto("TESTING"), Goto("DOWN"), Goto(AfterTest)},
             NEW o, Judged(t, o) \/ Unjudged(t, o)
      PROVE  /\ tsp'.p_Test_Param = tsp.p_Test_Param
             /\ tsp'.Test_Step_State = "OUT" => saved'[tsp.p_Test_Param] # "none"
  BY <1>3, <1>4, <1>5 DEF Judged, Unjudged, InRange, OutOfRange
<1>6. CASE PhaseWait
  BY <1>5, <1>6 DEF PhaseWait
<1>7. CASE PhaseRise
  BY <1>5, <1>7 DEF PhaseRise
<1>8. CASE PhaseTesting
  BY <1>5, <1>8 DEF PhaseTesting
<1>9. CASE PhaseDown
  BY <1>5, <1>9 DEF PhaseDown
<1>10. CASE PhasePause
  BY <1>0, <1>4, <1>10 DEF PhasePause, Unjudged, InRange, OutOfRange, FailFlags, SchedParam
<1>11. CASE PhaseStop
  BY <1>1, <1>4, <1>11 DEF PhaseStop, Phases
<1> QED BY <1>6, <1>7, <1>8, <1>9, <1>10, <1>11 DEF Phase

\* Interrupts and the home thread leave the pointer, the phase and the records.
LEMMA OthersKeep ==
  ASSUME TypeInv,
         \/ StopKey \/ (\E a \in Alarms : Alarm(a)) \/ TimerFire \/ StartPress \/ HomeStep
  PROVE  /\ tsp'.p_Test_Param = tsp.p_Test_Param
         /\ tsp'.Test_Step_State = tsp.Test_Step_State
         /\ UNCHANGED <<saved, pc, prog>>
<1>0. tsp \in SchedParam(Len(prog))
  BY DEF TypeInv, TypeOK
<1> USE DEF SchedParam
<1>1. CASE StopKey
  BY <1>0, <1>1 DEF StopKey, ClosedFlags
<1>2. ASSUME NEW a \in Alarms, Alarm(a)
      PROVE  /\ tsp'.p_Test_Param = tsp.p_Test_Param
             /\ tsp'.Test_Step_State = tsp.Test_Step_State
             /\ UNCHANGED <<saved, pc, prog>>
  BY <1>0, <1>2 DEF Alarm, ClosedFlags
<1>3. CASE TimerFire \/ StartPress
  BY <1>3 DEF TimerFire, StartPress
<1>4. CASE HomeStep
  BY <1>0, <1>4, FlagsFacts DEF HomeStep, StartGo, StartTail
<1> QED BY <1>1, <1>2, <1>3, <1>4

\* Between two steps only the fetch moves the pointer, and nothing a record.
LEMMA BetweenKeeps ==
  ASSUME TypeInv,
         \/ Wake \/ Clock \/ Main \/ Gate \/ Pausing \/ Warn \/ Forgive
         \/ Verdict \/ PassVerdict \/ FailVerdict
  PROVE  /\ tsp'.p_Test_Param = tsp.p_Test_Param
         /\ tsp'.Test_Step_State = tsp.Test_Step_State
         /\ UNCHANGED <<saved, prog>>
         /\ ~Fresh /\ ~Fresh'
<1>0. tsp \in SchedParam(Len(prog))
  BY DEF TypeInv, TypeOK
<1> USE DEF SchedParam, Fresh
<1>1. CASE Wake \/ Clock
  BY <1>1 DEF Wake, Clock, Return
<1>2. CASE Main
  BY <1>0, <1>2 DEF Main
<1>3. CASE Gate \/ Pausing \/ Warn
  BY <1>0, <1>3 DEF Gate, Pausing, Warn
<1>4. CASE Verdict \/ PassVerdict \/ FailVerdict
  BY <1>0, <1>4 DEF Verdict, PassVerdict, FailVerdict, Finish, Stopped
<1>5. CASE Forgive
  BY <1>0, <1>5, ForgiveFacts DEF Alarms
<1> QED BY <1>1, <1>2, <1>3, <1>4, <1>5

\* Enter keeps the pointer; the alarm that ends it has saved a record.
LEMMA EnterSaves ==
  ASSUME TypeInv, AlarmCheck \/ StopCheck \/ EnterCheck \/ EnterEnable
  PROVE  /\ tsp'.p_Test_Param = tsp.p_Test_Param
         /\ tsp'.Test_Step_State = "OUT" /\ ~Fresh' => saved'[tsp.p_Test_Param] # "none"
<1>0. /\ tsp \in SchedParam(Len(prog)) /\ saved \in [1..Len(prog) -> Verdicts]
      /\ tsp.p_Test_Param \in 1..Len(prog)
  BY ProgramTypes DEF TypeInv, TypeOK, StepOK, InStep, SchedParam,
     AlarmCheck, StopCheck, EnterCheck, EnterEnable
<1> USE DEF SchedParam, Fresh
<1>1. CASE AlarmCheck
  <2>1. \A a : FirstAlarm(a) # "none"
    BY DEF FirstAlarm
  <2> DEFINE seen == tsp.Alarm_Flags \cap CurTrait.alarms
  <2>2. CASE seen = {} /\ pc' = "stopchk" /\ UNCHANGED <<tsp, saved>>
    BY <2>2
  <2>3. CASE Save(FirstAlarm(seen)) /\ tsp'.p_Test_Param = tsp.p_Test_Param
    BY <1>0, <2>1, <2>3 DEF Save
  <2> QED BY <1>0, <1>1, <2>2, <2>3 DEF AlarmCheck
<1>2. CASE StopCheck
  BY <1>0, <1>2 DEF StopCheck
<1>3. CASE EnterCheck \/ EnterEnable
  BY <1>0, <1>3 DEF EnterCheck, EnterEnable, StageDone
<1> QED BY <1>1, <1>2, <1>3

\* Every step preserves SavedInv.
LEMMA SavedNext ==
  ASSUME TypeInv, SavedInv, [Next]_vars
  PROVE  SavedInv'
<1>1. CASE StopKey \/ (\E a \in Alarms : Alarm(a)) \/ TimerFire \/ StartPress \/ HomeStep
  BY <1>1, OthersKeep DEF SavedInv, Fresh
<1>2. CASE \/ Wake \/ Clock \/ Main \/ Gate \/ Pausing \/ Warn \/ Forgive
           \/ Verdict \/ PassVerdict \/ FailVerdict
  BY <1>2, BetweenKeeps DEF SavedInv
<1>3. CASE Fetch
  <2>1. tsp \in SchedParam(Len(prog)) /\ tsp.Test_Step_State = "OUT"
    BY <1>3 DEF Fetch, TypeInv, TypeOK, StepOK, Between
  <2> QED BY <1>3, <2>1 DEF Fetch, SavedInv, Fresh, SchedParam
<1>4. CASE AlarmCheck \/ StopCheck \/ EnterCheck \/ EnterEnable
  BY <1>4, EnterSaves DEF SavedInv
<1>5. CASE Phase
  BY <1>5, PhaseSaves DEF SavedInv
<1>6. CASE UNCHANGED vars
  BY <1>6 DEF vars, SavedInv, Fresh
<1> QED BY <1>1, <1>2, <1>3, <1>4, <1>5, <1>6 DEF Next, SchedStep

\* Whatever alarms, stop keys and failures meet it, and whenever they do, a
\* step that was fetched is left for another one, or for the verdict, only
\* after a result of it was saved (result_save in every way out of a routine).
THEOREM StepsAreSaved == Spec => SavedBeforeNext
<1>1. Init => SavedInv
  BY DEF Init, SavedInv
<1>2. TypeInv /\ SavedInv /\ [Next]_vars => SavedInv'
  BY SavedNext
<1>3. TypeInv /\ SavedInv /\ [Next]_vars
        => [tsp'.p_Test_Param # tsp.p_Test_Param /\ tsp.p_Test_Param # 0
              => saved[tsp.p_Test_Param] # "none"]_vars
  <2> SUFFICES ASSUME TypeInv, SavedInv, [Next]_vars,
                      tsp'.p_Test_Param # tsp.p_Test_Param, tsp.p_Test_Param # 0
               PROVE  saved[tsp.p_Test_Param] # "none"
    OBVIOUS
  <2>1. CASE Fetch
    BY <2>1 DEF Fetch, TypeInv, StepOK, Between, SavedInv, Fresh
  <2>2. CASE ~Fetch
    BY <2>2, OthersKeep, BetweenKeeps, EnterSaves, PhaseSaves DEF Next, SchedStep, vars
  <2> QED BY <2>1, <2>2
<1> QED BY <1>1, <1>2, <1>3, TypeInvariant, PTL DEF Spec, SavedBeforeNext

-----------------------------------------------------------------------------
\* No list tests IR: Test_Sched_Close has an empty case for it, so that an
\* alarm leaves its output on until the routine's next tick.
NoIR == \A q \in Programs : \A i \in 1..Len(q) : q[i].mode # "IR"

\* For every other mode the close covers each of the outputs.
LEMMA CloseCovers ==
  \A m \in Modes \ {"IR"} : \A i \in DOMAIN Trait[m].stages :
    Trait[m].stages[i] \subseteq Trait[m].close
<1> DEFINE Covered(t) == \A i \in DOMAIN t.stages : t.stages[i] \subseteq t.close
<1>1. Covered(ACW) /\ Covered(GR)
  BY DEF ACW, GR
<1>2. Covered(DCW) /\ Covered(ACW_GR)
  BY DEF DCW, ACW_GR, ACW
<1>3. Covered(DCW_GR)
  BY DEF DCW_GR, DCW, ACW
<1>4. Covered(LC) /\ Covered(PW)
  BY DEF LC, PW, GR
<1> QED BY <1>1, <1>2, <1>3, <1>4 DEF Modes, Trait

\* The steps tripped are behind the cursor, a step about to enter is none of
\* them, and what an alarm cut is off.
TripInv ==
  /\ stepNum > 1 => tripped \subseteq 1..stepNum - 1
  /\ Fresh => tsp.p_Test_Param \notin tripped
  /\ TripStaysCut

\* A step that moves neither the pointer nor the history, and raises neither
\* an output nor an alarm, keeps TripInv.
LEMMA TripFrame ==
  ASSUME TripInv, UNCHANGED <<prog, tripped>>,
         tsp'.p_Test_Param = tsp.p_Test_Param,
         tsp'.Alarm_Flags \subseteq tsp.Alarm_Flags, out' \subseteq out,
         stepNum' \in {1, stepNum}, Fresh' => Fresh
  PROVE  TripInv'
BY DEF TripInv, TripStaysCut, CurOutputs, Cur

\* An alarm cuts every output of the step it meets.
LEMMA TripAlarm ==
  ASSUME NoIR, TypeInv, TripInv, NEW a \in Alarms, Alarm(a)
  PROVE  TripInv'
<1>1. /\ tsp \in SchedParam(Len(prog)) /\ Len(prog) \in Nat
      /\ stepNum \in Nat /\ tripped \subseteq 1..Len(prog)
      /\ tsp.Test_Step_State # "OUT" => tsp.p_Test_Param # 0
      /\ stepNum > 1 => tsp.p_Test_Param = stepNum - 1
  BY ProgramTypes DEF TypeInv, TypeOK, StepOK, StepCursor
<1>2. /\ tsp'.p_Test_Param = tsp.p_Test_Param
      /\ tsp'.Test_Step_State = tsp.Test_Step_State
      /\ UNCHANGED <<prog, pc, stepNum>>
  BY <1>1 DEF Alarm, ClosedFlags, SchedParam, params
<1>3. /\ \/ tripped' = tripped
         \/ tsp.Test_Step_State # "OUT" /\ tripped' = tripped \cup {tsp.p_Test_Param}
  BY DEF Alarm
<1>4. ASSUME stepNum' > 1
      PROVE  tripped' \subseteq 1..stepNum' - 1
  <2>1. stepNum > 1 /\ stepNum' = stepNum /\ tripped \subseteq 1..stepNum - 1
    BY <1>2, <1>4 DEF TripInv
  <2>2. stepNum - 1 \in 1..stepNum - 1 /\ tsp.p_Test_Param = stepNum - 1
    BY <1>1, <2>1
  <2> QED BY <1>3, <2>1, <2>2
<1>5. Fresh' => tsp'.p_Test_Param \notin tripped'
  BY <1>2, <1>3 DEF TripInv, Fresh
<1>6. ASSUME tsp.p_Test_Param # 0
      PROVE  out' \cap CurOutputs' = {}
  <2>1. tsp.p_Test_Param \in 1..Len(prog)
    BY <1>1, <1>6 DEF SchedParam
  <2>2. Cur.mode \in Modes \ {"IR"}
    BY <2>1, <1>6, CurTypes DEF NoIR, TypeInv, TypeOK, Cur, StepType
  <2>3. CurOutputs \subseteq CurTrait.close
    BY <2>2, CloseCovers DEF CurOutputs, CurTrait, ModeOutputs
  <2>4. out' = out \ CurTrait.close
    BY <1>6 DEF Alarm, CloseOutputs
  <2>5. CurOutputs' = CurOutputs
    BY <1>2 DEF CurOutputs, Cur
  <2> QED BY <2>3, <2>4, <2>5
<1>7. TripStaysCut'
  BY <1>1, <1>2, <1>3, <1>6 DEF TripStaysCut
<1> QED BY <1>4, <1>5, <1>7 DEF TripInv

\* The fetch moves to a step no alarm has met, or to none.
LEMMA TripFetch ==
  ASSUME TypeInv, TypeInv', TripInv, Fetch
  PROVE  TripInv'
<1>1. /\ tsp \in SchedParam(Len(prog)) /\ Len(prog) \in Nat
      /\ stepNum \in Nat \ {0} /\ tripped \subseteq 1..Len(prog)
  BY ProgramTypes DEF TypeInv, TypeOK
<1>2. CASE pc' = "verdict"
  <2>1. tsp'.p_Test_Param = 0 /\ stepNum' = 1 /\ tripped' = tripped
    BY <1>1, <1>2 DEF Fetch, SchedParam, history
  <2> QED BY <1>1, <1>2, <2>1 DEF TripInv, TripStaysCut, Fresh
<1>3. CASE pc' = "alarms"
  <2>1. /\ tripped' = IF stepNum' = 2 THEN {} ELSE tripped
        /\ stepNum' \in {2, stepNum + 1}
    BY <1>1, <1>3 DEF Fetch
  <2>2. stepNum' > 1 /\ tsp'.p_Test_Param = stepNum' - 1
    BY <1>1, <2>1 DEF TypeInv, StepCursor
  <2>3. tripped' \subseteq 1..stepNum' - 2
    <3>1. CASE stepNum' = 2
      BY <2>1, <3>1
    <3>2. CASE stepNum' # 2
      <4>1. stepNum' = stepNum + 1 /\ stepNum > 1 /\ tripped' = tripped
        BY <1>1, <2>1, <3>2
      <4>2. stepNum' - 2 = stepNum - 1
        BY <1>1, <4>1
      <4> QED BY <4>1, <4>2 DEF TripInv
    <3> QED BY <3>1, <3>2
  <2>4. tsp'.p_Test_Param \notin tripped'
    BY <1>1, <2>1, <2>2, <2>3
  <2>5. tripped' \subseteq 1..stepNum' - 1
    BY <1>1, <2>1, <2>3
  <2> QED BY <2>4, <2>5 DEF TripInv, TripStaysCut
<1> QED BY <1>2, <1>3 DEF Fetch

\* Enter energises only a step no alarm has met.
LEMMA TripEnter ==
  ASSUME TypeInv, TripInv, AlarmCheck \/ StopCheck \/ EnterCheck \/ EnterEnable
  PROVE  TripInv'
<1>0. tsp \in SchedParam(Len(prog))
  BY DEF TypeInv, TypeOK
<1> USE DEF SchedParam, params, history
<1>1. CASE AlarmCheck
  BY <1>0, <1>1, TripFrame DEF AlarmCheck, Return, Fresh
<1>2. CASE StopCheck
  BY <1>0, <1>2, TripFrame DEF StopCheck, Fresh
<1>3. CASE EnterCheck
  BY <1>0, <1>3, TripFrame DEF EnterCheck, StageDone, Fresh, TypeInv, StepOK, Between
<1>4. CASE EnterEnable
  <2>1. Fresh
    BY <1>4 DEF EnterEnable, Fresh, TypeInv, StepOK, Between
  <2>2. /\ tsp'.p_Test_Param = tsp.p_Test_Param
        /\ UNCHANGED <<tripped, stepNum>>
    BY <1>0, <1>4 DEF EnterEnable, StageDone
  <2> QED BY <2>1, <2>2 DEF TripInv, TripStaysCut
<1> QED BY <1>1, <1>2, <1>3, <1>4

\* A phase only switches outputs off.
LEMMA TripPhase ==
  ASSUME TypeInv, TripInv, Phase
  PROVE  TripInv'
<1>0. tsp \in SchedParam(Len(prog))
  BY DEF TypeInv, TypeOK
<1>1. \A ph \in Phases : /\ Goto(ph).p_Test_Param = tsp.p_Test_Param
                         /\ Goto(ph).Alarm_Flags = tsp.Alarm_Flags
  BY <1>0 DEF Goto, SchedParam
<1>2. AfterTest \in {"PAUSE", "STOP"}
  BY DEF AfterTest
<1>3. \A t \in {tsp, Goto("RISE"), Goto("TESTING"), Goto("DOWN"), Goto(AfterTest)} :
        /\ t.p_Test_Param = tsp.p_Test_Param
        /\ t.Alarm_Flags = tsp.Alarm_Flags
        /\ FailFlags(t).Alarm_Flags = tsp.Alarm_Flags
        /\ FailFlags(t).p_Test_Param = tsp.p_Test_Param
  BY <1>0, <1>1, <1>2 DEF Phases, Goto, FailFlags, SchedParam
<1>4. /\ UNCHANGED <<prog, tripped, stepNum>>
      /\ ~Fresh'
  BY DEF Phase, PhaseWait, PhaseRise, PhaseTesting, PhaseDown, PhasePause, PhaseStop,
     PhaseFrame, Return, params, history, Fresh
<1>5. ASSUME NEW t \in {tsp, Goto("RISE"), Goto("TESTING"), Goto("DOWN"), Goto(AfterTest)},
             NEW o \in SUBSET out, Judged(t, o) \/ Unjudged(t, o)
      PROVE  TripInv'
  BY <1>3, <1>4, <1>5, TripFrame DEF Judged, Unjudged, InRange, OutOfRange
<1>6. CASE PhaseWait
  BY <1>5, <1>6 DEF PhaseWait
<1>7. CASE PhaseRise
  BY <1>5, <1>7 DEF PhaseRise
<1>8. CASE PhaseTesting
  BY <1>5, <1>8 DEF PhaseTesting
<1>9. CASE PhaseDown
  BY <1>5, <1>9 DEF PhaseDown
<1>10. CASE PhasePause
  BY <1>0, <1>4, <1>10, TripFrame
  DEF PhasePause, Unjudged, InRange, OutOfRange, FailFlags, SchedParam
<1>11. CASE PhaseStop
  BY <1>1, <1>4, <1>11, TripFrame DEF PhaseStop, Phases
<1> QED BY <1>6, <1>7, <1>8, <1>9, <1>10, <1>11 DEF Phase

\* Every step preserves TripInv.
LEMMA TripNext ==
  ASSUME NoIR, TypeInv, TypeInv', TripInv, [Next]_vars
  PROVE  TripInv'
<1>0. tsp \in SchedParam(Len(prog))
  BY DEF TypeInv, TypeOK
<1>1. CASE StopKey
  BY <1>0, <1>1, TripFrame DEF StopKey, ClosedFlags, SchedParam, history, Fresh
<1>2. CASE \E a \in Alarms : Alarm(a)
  BY <1>2, TripAlarm
<1>3. CASE TimerFire \/ StartPress
  BY <1>3, TripFrame
  DEF TimerFire, StartPress, params, history, Fresh
<1>10. CASE StartRunning \/ StartFlags
  BY <1>0, <1>10, FlagsFacts, TripFrame DEF params, history, Fresh
<1>11. CASE StartGo \/ StartTail
  BY <1>11, TripFrame DEF StartGo, StartTail, params, history, Fresh
<1>12. CASE Forgive
  BY <1>0, <1>12, ForgiveFacts, BetweenKeeps, TripFrame DEF params, history
<1>4. CASE Wake \/ Clock \/ Main \/ Gate \/ Pausing \/ Warn
  <2>1. ~Fresh' \/ Fresh
    BY <1>4, BetweenKeeps
  <2> QED BY <1>0, <1>4, <2>1, TripFrame
          DEF Wake, Clock, Main, Gate, Pausing, Warn, SchedParam, params, history
<1>5. CASE Verdict \/ PassVerdict \/ FailVerdict
  <2>1. ~Fresh' \/ Fresh
    BY <1>5, BetweenKeeps
  <2> QED BY <1>0, <1>5, <2>1, TripFrame
          DEF Verdict, PassVerdict, FailVerdict, Finish, Stopped, SchedParam, params, history
<1>6. CASE Fetch
  BY <1>6, TripFetch
<1>7. CASE AlarmCheck \/ StopCheck \/ EnterCheck \/ EnterEnable
  BY <1>7, TripEnter
<1>8. CASE Phase
  BY <1>8, TripPhase
<1>9. CASE UNCHANGED vars
  BY <1>9, TripFrame DEF vars, Fresh
<1> QED BY <1>1, <1>2, <1>3, <1>4, <1>5, <1>6, <1>7, <1>8, <1>9, <1>10, <1>11, <1>12
        DEF Next, HomeStep, SchedStep

\* In lists without an IR step, an alarm that meets a step in one of its
\* phases leaves its outputs off for as long as it is pending, although the
\* routine may finish the tick, and the thread go on, in any order with it.
THEOREM StaysCut == ASSUME NoIR PROVE Spec => []TripStaysCut
<1>1. Init => TripInv
  BY DEF Init, TripInv, TripStaysCut, Fresh
<1>2. TypeInv /\ TypeInv' /\ TripInv /\ [Next]_vars => TripInv'
  BY TripNext
<1>3. TripInv => TripStaysCut
  BY DEF TripInv
<1> QED BY <1>1, <1>2, <1>3, TypeInvariant, PTL DEF Spec

-----------------------------------------------------------------------------
\* What a call of a mode routine comes to: the step goes on, a range check ends
\* it with the verdict taken back, or STOP ends it with a PASS record.
PhaseGoesOn ==
  /\ UNCHANGED <<saved, failed>>
  /\ tsp'.Stop_Flag = tsp.Stop_Flag /\ tsp'.Pass_Flag = tsp.Pass_Flag
  /\ tsp'.Warning_Flag = tsp.Warning_Flag
  /\ tsp'.Test_Step_State # "OUT" /\ Return
PhaseFails == tsp'.Stop_Flag /\ ~tsp'.Pass_Flag /\ Return
PhaseIsOver ==
  /\ saved' = [saved EXCEPT ![tsp.p_Test_Param] = "PASS"] /\ failed' = failed
  /\ tsp'.Stop_Flag = tsp.Stop_Flag /\ tsp'.Pass_Flag = tsp.Pass_Flag
  /\ tsp'.Warning_Flag = tsp.Warning_Flag
  /\ tsp'.Test_Step_State = "OUT" /\ pc' = "main"

LEMMA PhaseOutcome ==
  ASSUME TypeInv, Phase
  PROVE  /\ pc = "phase" /\ UNCHANGED <<prog, params, clock, failCont, tripped, home>>
         /\ tsp'.p_Test_Param = tsp.p_Test_Param
         /\ tsp'.Test_Sched_State = tsp.Test_Sched_State
         /\ tsp'.Pause_Flag = tsp.Pause_Flag /\ tsp'.Continue_Flag = tsp.Continue_Flag
         /\ PhaseGoesOn \/ PhaseFails \/ PhaseIsOver
<1> DEFINE Kept(t) == /\ t.p_Test_Param = tsp.p_Test_Param
                      /\ t.Test_Sched_State = tsp.Test_Sched_State
                      /\ t.Pause_Flag = tsp.Pause_Flag
                      /\ t.Continue_Flag = tsp.Continue_Flag
           Flags(t) == /\ t.Stop_Flag = tsp.Stop_Flag /\ t.Pass_Flag = tsp.Pass_Flag
                       /\ t.Warning_Flag = tsp.Warning_Flag
           Next5 == {tsp, Goto("RISE"), Goto("TESTING"), Goto("DOWN"), Goto(AfterTest)}
<1>0. tsp \in SchedParam(Len(prog)) /\ tsp.Test_Step_State # "OUT"
  BY DEF TypeInv, TypeOK, StepOK, Phase, PhaseWait, PhaseRise, PhaseTesting, PhaseDown,
     PhasePause, PhaseStop, PhaseFrame
<1>1. \A ph \in Phases : Goto(ph).Test_Step_State = ph /\ Kept(Goto(ph)) /\ Flags(Goto(ph))
  BY <1>0 DEF Goto, SchedParam
<1>2. AfterTest \in {"PAUSE", "STOP"}
  BY DEF AfterTest
<1>3. \A t \in Next5 : /\ t.Test_Step_State # "OUT" /\ Kept(t) /\ Flags(t)
                       /\ Kept(FailFlags(t)) /\ FailFlags(t).Stop_Flag
                       /\ ~FailFlags(t).Pass_Flag
  BY <1>0, <1>1, <1>2 DEF Phases, Goto, FailFlags, SchedParam
<1>4. pc = "phase" /\ UNCHANGED <<prog, params, clock, failCont, tripped, home>>
  BY DEF Phase, PhaseWait, PhaseRise, PhaseTesting, PhaseDown, PhasePause, PhaseStop,
     PhaseFrame, history
<1> HIDE DEF Kept, Flags
<1>5. ASSUME NEW t \in Next5, NEW o, Judged(t, o) \/ Unjudged(t, o), Return
      PROVE  Kept(tsp') /\ (PhaseGoesOn \/ PhaseFails)
  <2>1. CASE InRange(o) /\ tsp' = t
    BY <1>3, <1>5, <2>1 DEF InRange, PhaseGoesOn, Flags
  <2>2. CASE OutOfRange(o) /\ tsp' = FailFlags(t)
    BY <1>3, <1>5, <2>2 DEF PhaseFails
  <2> QED BY <1>5, <2>1, <2>2 DEF Judged, Unjudged
<1>6. CASE PhaseWait
  BY <1>4, <1>5, <1>6 DEF PhaseWait, PhaseFrame, Kept
<1>7. CASE PhaseRise
  BY <1>4, <1>5, <1>7 DEF PhaseRise, PhaseFrame, Kept
<1>8. CASE PhaseTesting
  BY <1>4, <1>5, <1>8 DEF PhaseTesting, PhaseFrame, Kept
<1>9. CASE PhaseDown
  BY <1>4, <1>5, <1>9 DEF PhaseDown, PhaseFrame, Kept
<1>10. CASE PhasePause
  <2> DEFINE ended(t) == IF left = 1 THEN [t EXCEPT !.Test_Step_State = "STOP"] ELSE t
  <2>1. CASE InRange(out) /\ tsp' \in {tsp, ended(tsp)}
    BY <1>0, <1>10, <1>4, <2>1
    DEF PhasePause, PhaseFrame, InRange, PhaseGoesOn, Flags, Kept, SchedParam
  <2>2. CASE OutOfRange(out) /\ tsp' = ended(FailFlags(tsp))
    BY <1>0, <1>10, <1>4, <2>2
    DEF PhasePause, PhaseFrame, PhaseFails, FailFlags, Kept, SchedParam
  <2> QED BY <1>10, <2>1, <2>2 DEF PhasePause, Unjudged
<1>11. CASE PhaseStop
  <2>1. tsp' = Goto("OUT") /\ "OUT" \in Phases
    BY <1>11 DEF PhaseStop, Phases
  <2> QED BY <1>1, <1>4, <1>11, <2>1 DEF PhaseStop, PhaseIsOver, Flags, Kept, Save, history
<1> QED BY <1>6, <1>7, <1>8, <1>9, <1>10, <1>11 DEF Phase

\* What the head of a mode routine and Enter come to: they go on inside the
\* step, or an alarm, which has set Stop_Flag, ends it.
LEMMA EnterOutcome ==
  ASSUME TypeInv, AlarmCheck \/ StopCheck \/ EnterCheck \/ EnterEnable
  PROVE  /\ pc \in InStep /\ UNCHANGED <<prog, params, clock, failCont, history, home>>
         /\ tsp'.p_Test_Param = tsp.p_Test_Param
         /\ tsp'.Test_Sched_State = tsp.Test_Sched_State
         /\ tsp'.Pass_Flag = tsp.Pass_Flag
         /\ tsp'.Pause_Flag = tsp.Pause_Flag /\ tsp'.Continue_Flag = tsp.Continue_Flag
         /\ \/ /\ pc' \in InStep /\ saved' = saved
               /\ tsp'.Stop_Flag = tsp.Stop_Flag /\ tsp'.Warning_Flag = tsp.Warning_Flag
            \/ /\ tsp.Alarm_Flags # {} /\ tsp'.Stop_Flag
               /\ Return
<1>0. tsp \in SchedParam(Len(prog))
  BY DEF TypeInv, TypeOK
<1> USE DEF SchedParam, InStep
<1>1. CASE AlarmCheck
  BY <1>0, <1>1 DEF AlarmCheck
<1>2. CASE StopCheck
  BY <1>0, <1>2 DEF StopCheck
<1>3. CASE EnterCheck
  BY <1>0, <1>3 DEF EnterCheck, StageDone
<1>4. CASE EnterEnable
  BY <1>0, <1>4 DEF EnterEnable, StageDone, history
<1> QED BY <1>1, <1>2, <1>3, <1>4

-----------------------------------------------------------------------------
\* The loop flag and the timer go together, the thread works only with both
\* set, and while it is blocked its next message is there or the list paused.
Driven ==
  /\ timer = loop
  /\ pc \in {"loop", "main", "gate", "pausing", "warn", "forgive"} \cup Alarms \cup InStep
       => loop
  /\ pc = "fetch" /\ ~loop => tsp.Stop_Flag
  /\ pc = "pausing" => tsp.Pause_Flag
  /\ tsp.Test_Sched_State = "RUNNING" /\ home \in {"ready", "tail"} /\ pc = "idle"
       => (loop /\ severMb) \/ Paused

\* Interrupts set Stop_Flag and end RUNNING, and drive nothing.
LEMMA DrivenInterrupt ==
  ASSUME TypeInv, Driven, StopKey \/ (\E a \in Alarms : Alarm(a)) \/ TimerFire
  PROVE  Driven'
<1>0. tsp \in SchedParam(Len(prog))
  BY DEF TypeInv, TypeOK
<1>1. /\ UNCHANGED <<loop, timer, severMb, pc, home>>
      /\ tsp'.Pause_Flag = tsp.Pause_Flag
      /\ tsp.Stop_Flag => tsp'.Stop_Flag
      /\ tsp'.Test_Sched_State = "RUNNING" => tsp.Test_Sched_State = "RUNNING"
  <2>1. CASE StopKey
    BY <1>0, <2>1 DEF StopKey, ClosedFlags, SchedParam, clock
  <2>2. CASE \E a \in Alarms : Alarm(a)
    BY <1>0, <2>2 DEF Alarm, ClosedFlags, SchedParam, clock
  <2>3. CASE TimerFire
    BY <2>3 DEF TimerFire
  <2> QED BY <2>1, <2>2, <2>3
<1> QED BY <1>1 DEF Driven, Paused, InStep

\* Test_Sched_Start drives what it calls RUNNING before it becomes ready again.
LEMMA DrivenHome ==
  ASSUME TypeInv, Driven, StartPress \/ HomeStep
  PROVE  Driven'
<1>0. tsp \in SchedParam(Len(prog)) /\ (pc = "idle" \/ pc = "loop") /\ pc' = pc
  <2>1. tsp \in SchedParam(Len(prog))
    BY DEF TypeInv, TypeOK
  <2>2. HomeRuns /\ pc' = pc
    BY <2>1, FlagsFacts DEF StartPress, HomeStep, StartGo, StartTail
  <2> QED BY <2>1, <2>2 DEF HomeRuns
<1> USE DEF Driven, Paused, InStep, Alarms
<1>1. CASE StartPress
  BY <1>0, <1>1 DEF StartPress, clock
<1>2. CASE StartRunning \/ StartFlags
  BY <1>0, <1>2, FlagsFacts DEF Starting, clock
<1>3. CASE StartGo
  BY <1>0, <1>3 DEF StartGo
<1>4. CASE StartTail
  BY <1>0, <1>4 DEF StartTail, clock
<1> QED BY <1>1, <1>2, <1>3, <1>4 DEF HomeStep

\* The thread leaves its loop with the test over or paused.
LEMMA DrivenSched ==
  ASSUME TypeInv, Driven, SchedStep
  PROVE  Driven'
<1>0. tsp \in SchedParam(Len(prog)) /\ loop \in BOOLEAN /\ timer \in BOOLEAN
  BY DEF TypeInv, TypeOK
<1> USE DEF SchedParam, Driven, Paused, InStep, Alarms
<1>1. CASE Wake
  BY <1>0, <1>1 DEF Wake, Return
<1>2. CASE Clock \/ Main \/ Gate \/ Verdict
  BY <1>0, <1>2 DEF Clock, Main, Gate, Verdict, clock
<1>3. CASE Pausing
  BY <1>0, <1>3 DEF Pausing
<1>4. CASE Warn
  BY <1>0, <1>4 DEF Warn
<1>5. CASE Fetch
  BY <1>0, <1>5 DEF Fetch, clock
<1>6. CASE PassVerdict \/ FailVerdict
  BY <1>0, <1>6 DEF PassVerdict, FailVerdict, Finish, Stopped
<1>7. CASE AlarmCheck \/ StopCheck \/ EnterCheck \/ EnterEnable
  BY <1>7, EnterOutcome DEF clock, Return
<1>8. CASE Phase
  BY <1>8, PhaseOutcome DEF clock, Return, PhaseGoesOn, PhaseFails, PhaseIsOver
<1>9. CASE Forgive
  BY <1>0, <1>9, ForgiveFacts DEF clock
<1> QED BY <1>1, <1>2, <1>3, <1>4, <1>5, <1>6, <1>7, <1>8, <1>9 DEF SchedStep

\* Whatever keys and alarms come, and wherever they hit Test_Sched_Start, a
\* test called RUNNING is driven by its loop and its timer, or is paused and
\* the start key will resume it: none is left behind that nothing drives.
THEOREM RunsAreDriven == Spec => []RunIsDriven
<1>1. ASSUME Init
      PROVE  Driven
  <2>1. loop = FALSE /\ timer = FALSE /\ pc = "idle" /\ tsp.Test_Sched_State = "INIT"
    BY <1>1 DEF Init
  <2> QED BY <2>1 DEF Driven, InStep, Alarms
<1>2. TypeInv /\ Driven /\ [Next]_vars => Driven'
  <2>1. ASSUME Driven, UNCHANGED vars
        PROVE  Driven'
    BY <2>1 DEF vars, Driven, Paused, InStep
  <2> QED BY <2>1, DrivenInterrupt, DrivenHome, DrivenSched DEF Next
<1>3. Driven => RunIsDriven
  BY DEF Driven, RunIsDriven
<1> QED BY <1>1, <1>2, <1>3, TypeInvariant, PTL DEF Spec
-----------------------------------------------------------------------------
\* With no interrupt inside Test_Sched_Start the thread waits while it runs,
\* and the flags it has set are still set when it sends its message. Outside
\* RUNNING the list is at its head, and Stop_Flag is set or nothing has run.
Started ==
  /\ home \in Starting => HomeRuns
  /\ home \in Starting \ {"run"} => tsp.Test_Sched_State = "RUNNING"
  /\ home \in {"resume", "go"} \cup Alarms => ~tsp.Stop_Flag
  /\ home = "go" => ~tsp.Pause_Flag
  /\ tsp.Test_Sched_State # "RUNNING" =>
       /\ stepNum = 1
       /\ tsp.Stop_Flag \/ (out = {} /\ pc = "idle" /\ ~severMb)
  /\ pc \in {"verdict", "pass", "fail"} => stepNum = 1
  /\ pc \in {"gate", "warn"} /\ failCont /\ tsp.Warning_Flag => stepNum > 1

LEMMA StartedInterrupt ==
  ASSUME StartHit = FALSE, TypeInv, Started,
         StopKey \/ (\E a \in Alarms : Alarm(a)) \/ TimerFire
  PROVE  Started' /\ home \notin Starting
<1>0. tsp \in SchedParam(Len(prog)) /\ Interrupts
  BY DEF TypeInv, TypeOK, StopKey, Alarm, TimerFire
<1>1. home \notin Starting
  BY <1>0 DEF Interrupts
<1> USE DEF SchedParam, Started, Starting
<1>2. CASE StopKey
  BY <1>0, <1>1, <1>2 DEF StopKey, ClosedFlags, clock
<1>3. CASE \E a \in Alarms : Alarm(a)
  <2>1. /\ tsp'.Stop_Flag /\ tsp'.Test_Sched_State = tsp.Test_Sched_State
        /\ tsp'.Warning_Flag = tsp.Warning_Flag /\ tsp.Test_Sched_State = "RUNNING"
        /\ UNCHANGED <<stepNum, pc, home, failCont>>
    BY <1>0, <1>3 DEF Alarm, ClosedFlags, params
  <2> QED BY <1>1, <2>1
<1>4. CASE TimerFire
  BY <1>0, <1>1, <1>4 DEF TimerFire, params
<1> QED BY <1>1, <1>2, <1>3, <1>4

LEMMA StartedHome ==
  ASSUME TypeInv, Started, StartPress \/ HomeStep
  PROVE  Started'
<1>0. tsp \in SchedParam(Len(prog))
  BY DEF TypeInv, TypeOK
<1> USE DEF SchedParam, Started, HomeRuns, Starting, Alarms
<1>1. CASE StartPress
  BY <1>0, <1>1 DEF StartPress, clock, params
<1>2. CASE StartRunning
  BY <1>0, <1>2 DEF StartRunning, StartWrites, Running, clock, params
<1>3. CASE StartPass
  BY <1>0, <1>3 DEF StartPass, StartWrites, clock, params
<1>7. CASE StartStop
  BY <1>0, <1>7 DEF StartStop, StartWrites, clock, params
<1>8. CASE StartResume
  BY <1>0, <1>8 DEF StartResume, StartWrites, clock, params
<1>6. ASSUME NEW a \in Alarms, NEW to \in {"gfi", "arc", "resume"}, StartClear(a, to)
      PROVE  Started'
  BY <1>0, <1>6 DEF StartClear, StartWrites, Cleared, clock, params
<1>4. CASE StartGo
  BY <1>0, <1>4 DEF StartGo, params
<1>5. CASE StartTail
  BY <1>0, <1>5 DEF StartTail, clock, params
<1> QED BY <1>1, <1>2, <1>3, <1>4, <1>5, <1>6, <1>7, <1>8 DEF HomeStep, StartFlags

\* The thread does not move while Test_Sched_Start runs.
LEMMA SchedWaits ==
  ASSUME Started, SchedStep
  PROVE  home \notin Starting /\ home' = home
<1>1. ~HomeRuns
  BY DEF SchedStep, HomeRuns, Wake, Clock, Main, Gate, Pausing, Warn, Forgive,
     ForgiveWarning, ForgiveAlarm, Fetch, Verdict, PassVerdict, FailVerdict, AlarmCheck, StopCheck, EnterCheck, EnterEnable, Phase,
     PhaseWait, PhaseRise, PhaseTesting, PhaseDown, PhasePause, PhaseStop, PhaseFrame
<1>2. home' = home
  BY DEF SchedStep, Wake, Clock, Main, Gate, Pausing, Warn, Forgive, ForgiveWarning,
     ForgiveAlarm, Fetch, Verdict, PassVerdict, FailVerdict, Finish, AlarmCheck, StopCheck, EnterCheck, EnterEnable, Phase,
     PhaseWait, PhaseRise, PhaseTesting, PhaseDown, PhasePause, PhaseStop, PhaseFrame
<1> QED BY <1>1, <1>2 DEF Started

LEMMA StartedSched ==
  ASSUME TypeInv, Started, SchedStep
  PROVE  Started'
<1>0. /\ tsp \in SchedParam(Len(prog)) /\ stepNum \in Nat /\ home' = home
      /\ home \notin Starting
  BY SchedWaits, ProgramTypes DEF TypeInv, TypeOK
<1> USE DEF SchedParam, Started, Starting, Alarms
<1>1. CASE Wake \/ Clock
  BY <1>0, <1>1 DEF Wake, Clock, Return, params
<1>2. CASE Main
  BY <1>0, <1>2 DEF Main, Chained, params
<1>3. CASE Gate \/ Verdict
  BY <1>0, <1>3 DEF Gate, Verdict, params
<1>4. CASE Pausing
  BY <1>0, <1>4 DEF Pausing, params
<1>5. CASE Warn
  <2>1. /\ pc = "warn" /\ pc' \in {"forgive", "fetch"} /\ stepNum' = stepNum
        /\ tsp'.Test_Sched_State = tsp.Test_Sched_State
    BY <1>0, <1>5 DEF Warn, params
  <2>2. tsp.Test_Sched_State # "RUNNING" => tsp.Stop_Flag
    BY <2>1
  <2>3. tsp.Test_Sched_State # "RUNNING" => tsp'.Stop_Flag
    <3>1. CASE tsp.Warning_Flag /\ failCont
      BY <2>1, <3>1, <1>0
    <3>2. CASE ~(tsp.Warning_Flag /\ failCont)
      <4>1. tsp' = [tsp EXCEPT !.Continue_Flag = FALSE]
        BY <1>5, <3>2 DEF Warn
      <4> QED BY <1>0, <2>2, <4>1
    <3> QED BY <3>1, <3>2
  <2> QED BY <1>0, <2>1, <2>3
<1>6. CASE Fetch
  BY <1>0, <1>6 DEF Fetch
<1>7. CASE PassVerdict \/ FailVerdict
  BY <1>0, <1>7 DEF PassVerdict, FailVerdict, Finish, Stopped, params
<1>8. CASE AlarmCheck \/ StopCheck \/ EnterCheck \/ EnterEnable
  <2>1. pc \in InStep /\ (pc' \in InStep \/ pc' \in {"loop", "idle"})
    BY <1>8, EnterOutcome DEF Return
  <2> QED BY <1>0, <1>8, <2>1, EnterOutcome DEF params, InStep
<1>9. CASE Phase
  <2>1. pc = "phase" /\ pc' \in {"loop", "idle", "main"}
    BY <1>9, PhaseOutcome DEF Return, PhaseGoesOn, PhaseFails, PhaseIsOver
  <2>2. tsp.Stop_Flag => tsp'.Stop_Flag
    BY <1>9, PhaseOutcome DEF PhaseGoesOn, PhaseFails, PhaseIsOver
  <2> QED BY <1>0, <1>9, <2>1, <2>2, PhaseOutcome DEF params
<1>10. CASE Forgive
  BY <1>0, <1>10, ForgiveFacts DEF params
<1> QED BY <1>1, <1>2, <1>3, <1>4, <1>5, <1>6, <1>7, <1>8, <1>9, <1>10 DEF SchedStep

LEMMA StartedNext ==
  ASSUME StartHit = FALSE, TypeInv, Started, [Next]_vars
  PROVE  Started'
<1>1. ASSUME UNCHANGED vars
      PROVE  Started'
  BY <1>1 DEF vars, Started, HomeRuns
<1> QED BY <1>1, StartedInterrupt, StartedHome, StartedSched DEF Next

LEMMA StartedInvariant == ASSUME StartHit = FALSE PROVE Spec => []Started
<1>1. Init => Started
  BY DEF Init, Started, Starting, Alarms
<1>2. TypeInv /\ Started /\ [Next]_vars => Started'
  BY StartedNext
<1> QED BY <1>1, <1>2, TypeInvariant, PTL DEF Spec

\* If no interrupt falls into Test_Sched_Start, no output is on in a state in
\* which the alarm interrupts would do nothing: whenever one is on and Stop_Flag
\* is clear, the scheduler is RUNNING.
THEOREM LiveRuns == ASSUME StartHit = FALSE PROVE Spec => []LiveIsRunning
<1>1. Started => LiveIsRunning
  BY DEF Started, LiveIsRunning
<1> QED BY <1>1, StartedInvariant, PTL
-----------------------------------------------------------------------------
\* A list that forgives a failure waits for the start key after its last step
\* only, where no step is left to resume: Test_Sched_Start sets Pass_Flag when
\* it resumes a list, and what had failed before would be lost.
NoForgiving(q) == \A i \in 1..Len(q) : ~q[i].failstop
Remembers ==
  \A q \in Programs : \/ NoForgiving(q)
                      \/ \A i \in 1..Len(q) - 1 : q[i].stepcontinuation

\* The pass over the list that is going on has met no failure and no alarm,
\* and the steps it has finished are saved as passed.
Settled == tsp.Test_Step_State = "OUT" /\ ~Fresh
Clean ==
  /\ ~failed /\ tripped = {}
  /\ \A i \in 1..Len(prog) :
       i < stepNum - 1 \/ (i = stepNum - 1 /\ Settled) => saved[i] = "PASS"

\* Pass_Flag is set only while the pass is clean, also by Test_Sched_Start, and
\* Stop_Flag goes with it only outside the loop and between two statements of
\* Test_Sched_Start: the verdict follows.
CleanInv ==
  /\ tsp.Stop_Flag /\ tsp.Pass_Flag => (pc = "idle" /\ ~loop) \/ home = "stop"
  /\ stepNum > 1 /\ tsp.Pass_Flag => Clean
  /\ stepNum > 1 /\ home \in Starting => Clean
  /\ pc = "pass" \/ (pc = "verdict" /\ tsp.Pass_Flag) =>
       ~failed /\ tripped = {} /\ \A i \in 1..Len(prog) : saved[i] = "PASS"

\* Where the list waits for the start key, or is about to, the pass is clean;
\* at the end of the list Pause_Flag may be set, but the list does not wait.
\* Test_Sched_Start withdraws Stop_Flag before Pause_Flag.
Resuming == home \in {"resume"} \cup Alarms
AtEnd == stepNum = Len(prog) + 1 /\ ~Cur.stepcontinuation
PauseInv ==
  /\ stepNum > 1 /\ tsp.Pause_Flag =>
       \/ /\ NoForgiving(prog) /\ pc = "idle" /\ ~loop
          /\ tsp.Test_Step_State = "OUT" /\ (tsp.Stop_Flag \/ Resuming) /\ Clean
       \/ pc = "gate" /\ ~tsp.Continue_Flag /\ ~Cur.stepcontinuation
       \/ NoForgiving(prog) /\ pc = "pausing" /\ Clean
       \/ /\ pc \in {"warn", "forgive", "fetch"} \cup Alarms
          /\ AtEnd \/ (NoForgiving(prog) /\ tsp.Stop_Flag)
  /\ stepNum = 1 /\ tsp.Pause_Flag
       => tsp.Stop_Flag \/ Resuming \/ pc \in {"verdict", "pass", "fail"}
  /\ NoForgiving(prog) => ~failCont /\ (stepNum > 1 /\ ~tsp.Stop_Flag => Clean)

LEMMA CleanFrame ==
  ASSUME Clean, UNCHANGED <<prog, failed, tripped, stepNum, saved>>, Settled' => Settled
  PROVE  Clean'
BY DEF Clean

LEMMA VerdictInterrupt ==
  ASSUME StartHit = FALSE, TypeInv, Started, CleanInv, PauseInv,
         StopKey \/ (\E a \in Alarms : Alarm(a)) \/ TimerFire
  PROVE  CleanInv' /\ PauseInv'
<1>0. /\ tsp \in SchedParam(Len(prog)) /\ home \notin Starting
      /\ home # "stop" /\ ~Resuming
  BY StartedInterrupt DEF TypeInv, TypeOK, Resuming, Starting
<1>1. /\ UNCHANGED <<prog, saved, failed, pc, home, loop, failCont>>
      /\ tsp'.Test_Step_State = tsp.Test_Step_State
      /\ tsp'.p_Test_Param = tsp.p_Test_Param
      /\ tsp'.Pause_Flag = tsp.Pause_Flag /\ tsp'.Continue_Flag = tsp.Continue_Flag
      /\ tsp.Test_Step_State = "OUT" => tripped' = tripped
      /\ \/ /\ tsp.Stop_Flag /\ tsp'.Stop_Flag /\ tsp'.Pass_Flag = tsp.Pass_Flag
            /\ stepNum' = 1 /\ tripped' = tripped
         \/ tsp'.Stop_Flag /\ ~tsp'.Pass_Flag /\ stepNum' = stepNum /\ ~tsp.Stop_Flag
         \/ /\ tsp'.Stop_Flag = tsp.Stop_Flag /\ tsp'.Pass_Flag = tsp.Pass_Flag
            /\ UNCHANGED <<stepNum, tripped>>
  <2>1. CASE StopKey
    BY <1>0, <2>1 DEF StopKey, ClosedFlags, SchedParam, clock, history
  <2>2. CASE \E a \in Alarms : Alarm(a)
    BY <1>0, <2>2 DEF Alarm, ClosedFlags, SchedParam, clock, params
  <2>3. CASE TimerFire
    BY <2>3 DEF TimerFire, params, history
  <2> QED BY <2>1, <2>2, <2>3
<1>2. pc \in {"gate", "pausing", "warn", "forgive", "fetch", "verdict", "pass", "fail"} \cup Alarms
        => tsp.Test_Step_State = "OUT"
  BY DEF TypeInv, StepOK, Between, Alarms
<1>3. (Settled' <=> Settled) /\ Cur' = Cur
  BY <1>1 DEF Settled, Fresh, Cur
<1>4. Clean /\ tripped' = tripped /\ stepNum' = stepNum => Clean'
  BY <1>1, <1>3, CleanFrame
<1>5. AtEnd /\ stepNum' = stepNum => AtEnd'
  BY <1>1, <1>3 DEF AtEnd
<1>6. CleanInv'
  BY <1>0, <1>1, <1>2, <1>4 DEF CleanInv
<1>7. PauseInv'
  BY <1>0, <1>1, <1>2, <1>3, <1>4, <1>5 DEF PauseInv, Resuming
<1> QED BY <1>6, <1>7

\* Test_Sched_Start resumes a clean pass, or begins a new one.
LEMMA VerdictHome ==
  ASSUME TypeInv, Started, CleanInv, PauseInv, StartPress \/ HomeStep
  PROVE  CleanInv' /\ PauseInv'
<1>0. tsp \in SchedParam(Len(prog)) /\ stepNum \in Nat \ {0} /\ pc \in {"idle", "loop"}
  <2>1. tsp \in SchedParam(Len(prog)) /\ stepNum \in Nat \ {0}
    BY ProgramTypes DEF TypeInv, TypeOK
  <2>2. HomeRuns
    BY <2>1, FlagsFacts DEF StartPress, HomeStep, StartGo, StartTail
  <2> QED BY <2>1, <2>2 DEF HomeRuns
<1>1. /\ UNCHANGED <<prog, params, saved, failed, tripped, pc, failCont>>
      /\ tsp'.Test_Step_State = tsp.Test_Step_State
      /\ tsp'.p_Test_Param = tsp.p_Test_Param
  <2>1. CASE StartRunning \/ StartFlags
    BY <1>0, <2>1, FlagsFacts DEF history
  <2>2. CASE StartPress \/ StartGo \/ StartTail
    BY <2>2 DEF StartPress, StartGo, StartTail, history
  <2> QED BY <2>1, <2>2 DEF HomeStep
<1>2. (Clean => Clean') /\ stepNum' = stepNum
  BY <1>1, CleanFrame DEF Settled, Fresh, params
<1>3. stepNum > 1 /\ tsp.Pause_Flag => pc = "idle" /\ ~loop /\ Clean
           /\ (tsp.Stop_Flag \/ Resuming)
           /\ NoForgiving(prog) /\ tsp.Test_Step_State = "OUT"
  BY <1>0 DEF PauseInv, Alarms
<1> USE DEF Starting, Resuming, Alarms
<1>4. CASE StartPress
  <2>1. tsp' = tsp /\ loop' = loop /\ home = "ready" /\ home' = "run"
    BY <1>4 DEF StartPress, clock
  <2>2. stepNum > 1 => Clean
    BY <1>3, <1>4 DEF StartPress, Started
  <2> QED BY <1>0, <1>1, <1>2, <1>3, <2>1, <2>2 DEF CleanInv, PauseInv
<1>5. CASE StartRunning
  <2>1. /\ loop' = loop /\ home = "run" /\ home' = "flags"
        /\ tsp'.Stop_Flag = tsp.Stop_Flag /\ tsp'.Pass_Flag = tsp.Pass_Flag
        /\ tsp'.Pause_Flag = tsp.Pause_Flag
    BY <1>0, <1>5 DEF StartRunning, StartWrites, Running, SchedParam, clock
  <2> QED BY <1>0, <1>1, <1>2, <1>3, <2>1 DEF CleanInv, PauseInv
<1>6. CASE StartPass
  <2>1. /\ loop' = loop /\ home = "flags" /\ home' = "stop"
        /\ tsp'.Stop_Flag = tsp.Stop_Flag /\ tsp'.Pause_Flag = tsp.Pause_Flag
    BY <1>0, <1>6 DEF StartPass, StartWrites, SchedParam, clock
  <2> QED BY <1>0, <1>1, <1>2, <1>3, <2>1 DEF CleanInv, PauseInv
<1>9. CASE StartStop
  <2>1. /\ loop' = loop /\ home = "stop" /\ home' = "short" /\ ~tsp'.Stop_Flag
        /\ tsp'.Pass_Flag = tsp.Pass_Flag /\ tsp'.Pause_Flag = tsp.Pause_Flag
    BY <1>0, <1>9 DEF StartStop, StartWrites, SchedParam, clock
  <2> QED BY <1>0, <1>1, <1>2, <1>3, <2>1 DEF CleanInv, PauseInv
<1>10. ASSUME NEW a \in Alarms, NEW to \in {"gfi", "arc", "resume"}, StartClear(a, to)
       PROVE  CleanInv' /\ PauseInv'
  <2>1. /\ loop' = loop /\ home = a /\ home' = to
        /\ tsp'.Stop_Flag = tsp.Stop_Flag /\ tsp'.Pass_Flag = tsp.Pass_Flag
        /\ tsp'.Pause_Flag = tsp.Pause_Flag
    BY <1>0, <1>10 DEF StartClear, StartWrites, Cleared, SchedParam, clock
  <2> QED BY <1>0, <1>1, <1>2, <1>3, <2>1 DEF CleanInv, PauseInv
<1>11. CASE StartResume
  <2>1. /\ loop' = loop /\ home = "resume" /\ home' = "go" /\ ~tsp'.Pause_Flag
        /\ tsp'.Stop_Flag = tsp.Stop_Flag /\ tsp'.Pass_Flag = tsp.Pass_Flag
    BY <1>0, <1>11 DEF StartResume, StartWrites, SchedParam, clock
  <2>2. ~tsp.Stop_Flag
    BY <2>1 DEF Started
  <2> QED BY <1>0, <1>1, <1>2, <2>1, <2>2 DEF CleanInv, PauseInv
<1>7. CASE StartGo
  <2>1. tsp' = tsp /\ home' = "tail" /\ home = "go" /\ ~tsp.Stop_Flag /\ ~tsp.Pause_Flag
    BY <1>7 DEF StartGo, Started
  <2> QED BY <1>0, <1>1, <1>2, <2>1 DEF CleanInv, PauseInv
<1>8. CASE StartTail
  <2>1. tsp' = tsp /\ loop' = loop /\ home = "tail" /\ home' = "ready"
    BY <1>8 DEF StartTail, clock
  <2> QED BY <1>0, <1>1, <1>2, <1>3, <2>1 DEF CleanInv, PauseInv
<1> QED BY <1>4, <1>5, <1>6, <1>7, <1>8, <1>9, <1>10, <1>11 DEF HomeStep, StartFlags

\* Test_Sched_Main reads the switches of the step just run: it waits for the
\* start key with a clean pass only, and not after the last step.
LEMMA VerdictMain ==
  ASSUME Remembers, TypeInv, Started, CleanInv, PauseInv,
         Wake \/ Clock \/ Main \/ Gate \/ Pausing
  PROVE  CleanInv' /\ PauseInv'
<1>0. /\ tsp \in SchedParam(Len(prog)) /\ stepNum \in 1..Len(prog) + 1 /\ Len(prog) \in Nat \ {0}
      /\ prog \in Programs /\ stepNum \in Nat /\ loop \in BOOLEAN
  BY ProgramTypes DEF TypeInv, TypeOK
<1>1. /\ UNCHANGED <<prog, params, saved, failed, tripped, home>>
      /\ tsp'.Test_Step_State = tsp.Test_Step_State
      /\ tsp'.p_Test_Param = tsp.p_Test_Param /\ tsp'.Pass_Flag = tsp.Pass_Flag
      /\ ~Fresh /\ ~Fresh' /\ home \notin Starting
  <2>1. /\ tsp'.Test_Step_State = tsp.Test_Step_State
        /\ tsp'.p_Test_Param = tsp.p_Test_Param /\ tsp'.Pass_Flag = tsp.Pass_Flag
    BY <1>0 DEF Wake, Clock, Main, Gate, Pausing, SchedParam
  <2>2. UNCHANGED <<prog, params, saved, failed, tripped, home>>
    BY DEF Wake, Clock, Main, Gate, Pausing, history
  <2> QED BY <2>1, <2>2, BetweenKeeps, SchedWaits DEF SchedStep
<1>r. ~Resuming /\ ~Resuming' /\ home # "stop"
  BY <1>1 DEF Resuming, Starting
<1>2. (Clean => Clean') /\ stepNum' = stepNum /\ Cur' = Cur
  BY <1>1, CleanFrame DEF Settled, params, Cur
<1> USE <1>r DEF Alarms
<1>3. CASE Wake \/ Clock
  <2>1. /\ tsp' = tsp /\ UNCHANGED <<loop, failCont>>
        /\ \/ pc = "idle" /\ pc' = IF loop THEN "loop" ELSE "idle"
           \/ pc = "loop" /\ pc' = "main"
    BY <1>3 DEF Wake, Clock, Return
  <2>2. stepNum > 1 /\ tsp.Pause_Flag => pc = "idle" /\ ~loop /\ Clean /\ tsp.Stop_Flag
             /\ NoForgiving(prog) /\ tsp.Test_Step_State = "OUT"
    BY <2>1 DEF PauseInv
  <2>3. CleanInv'
    BY <1>1, <1>2, <2>1 DEF CleanInv
  <2>4. PauseInv'
    BY <1>1, <1>2, <2>1, <2>2 DEF PauseInv
  <2> QED BY <2>3, <2>4
<1>4. CASE Main
  <2>1. /\ pc = "main" /\ tsp'.Stop_Flag = tsp.Stop_Flag
        /\ tsp'.Continue_Flag = tsp.Continue_Flag
        /\ \/ /\ tsp' = tsp /\ failCont' = failCont /\ pc' = "alarms"
           \/ /\ tsp'.Pause_Flag = (tsp.Pause_Flag \/ (Chained /\ ~Cur.stepcontinuation))
              /\ failCont' = (Chained /\ Cur.failstop) /\ pc' = "gate"
    BY <1>0, <1>4 DEF Main, SchedParam
  <2>2. ~(stepNum > 1 /\ tsp.Pause_Flag) /\ ~(tsp.Stop_Flag /\ tsp.Pass_Flag)
    BY <2>1 DEF PauseInv, CleanInv
  <2>3. Chained => stepNum > 1 /\ ~tsp.Continue_Flag
    BY DEF Chained
  <2>4. NoForgiving(prog) => ~failCont'
    <3>1. CASE failCont' = (Chained /\ Cur.failstop)
      <4>1. Chained => tsp.p_Test_Param \in 1..Len(prog)
        BY <1>0, <2>3 DEF TypeInv, StepCursor
      <4> QED BY <3>1, <4>1 DEF NoForgiving, Cur
    <3>2. CASE failCont' = failCont
      BY <3>2 DEF PauseInv
    <3> QED BY <2>1, <3>1, <3>2
  <2>5. CleanInv'
    BY <1>1, <1>2, <2>1, <2>2 DEF CleanInv
  <2>6. /\ tsp'.Pause_Flag => tsp.Pause_Flag \/ (Chained /\ ~Cur.stepcontinuation)
        /\ stepNum = 1 /\ tsp.Pause_Flag => tsp.Stop_Flag
        /\ NoForgiving(prog) /\ stepNum > 1 /\ ~tsp.Stop_Flag => Clean
    BY <2>1 DEF PauseInv
  <2>7. PauseInv'
    <3>1. CASE tsp' = tsp /\ pc' = "alarms"
      BY <1>0, <1>1, <1>2, <2>1, <2>2, <2>4, <2>6, <3>1 DEF PauseInv
    <3>2. CASE pc' = "gate"
      BY <1>0, <1>1, <1>2, <2>1, <2>2, <2>3, <2>4, <2>6, <3>2 DEF PauseInv
    <3> QED BY <2>1, <3>1, <3>2
  <2> QED BY <2>5, <2>7
<1>5. CASE Gate
  <2>1. /\ pc = "gate" /\ tsp' = tsp /\ UNCHANGED <<loop, failCont>>
        /\ pc' = IF /\ tsp.Pause_Flag /\ ~tsp.Continue_Flag
                    /\ stepNum <= Len(prog) /\ ~tsp.Stop_Flag
                 THEN "pausing" ELSE "warn"
    BY <1>5 DEF Gate, clock
  <2>2. ~(tsp.Stop_Flag /\ tsp.Pass_Flag)
    BY <2>1 DEF CleanInv
  <2>3. stepNum = 1 /\ tsp.Pause_Flag => tsp.Stop_Flag
    BY <2>1 DEF PauseInv
  <2>4. ASSUME stepNum > 1, tsp.Pause_Flag
        PROVE  /\ ~tsp.Continue_Flag /\ ~Cur.stepcontinuation
               /\ stepNum <= Len(prog) => NoForgiving(prog)
    <3>1. ~tsp.Continue_Flag /\ ~Cur.stepcontinuation
      BY <2>1, <2>4 DEF PauseInv
    <3>2. ASSUME stepNum <= Len(prog)
          PROVE  NoForgiving(prog)
      <4>1. tsp.p_Test_Param \in 1..Len(prog) - 1
        BY <1>0, <2>4, <3>2 DEF TypeInv, StepCursor
      <4> QED BY <1>0, <3>1, <4>1 DEF Remembers, Cur
    <3> QED BY <3>1, <3>2
  <2>5. NoForgiving(prog) => ~failCont /\ (stepNum > 1 /\ ~tsp.Stop_Flag => Clean)
    BY DEF PauseInv
  <2>6. CleanInv'
    BY <1>1, <1>2, <2>1, <2>2 DEF CleanInv
  <2>7. CASE pc' = "pausing"
    BY <1>0, <1>1, <1>2, <2>1, <2>3, <2>4, <2>5, <2>6, <2>7 DEF PauseInv
  <2>8. CASE pc' = "warn"
    <3>1. ASSUME stepNum > 1, tsp.Pause_Flag
          PROVE  AtEnd' \/ (NoForgiving(prog) /\ tsp.Stop_Flag)
      <4>1. CASE stepNum <= Len(prog)
        BY <2>1, <2>4, <2>8, <3>1, <4>1
      <4>2. CASE ~(stepNum <= Len(prog))
        BY <1>0, <1>1, <1>2, <2>4, <3>1, <4>2 DEF AtEnd
      <4> QED BY <4>1, <4>2
    <3> QED BY <1>0, <1>1, <1>2, <2>1, <2>3, <2>5, <2>6, <2>8, <3>1 DEF PauseInv
  <2> QED BY <2>1, <2>6, <2>7, <2>8
<1>6. CASE Pausing
  <2>1. /\ pc = "pausing" /\ pc' = "idle" /\ loop' = FALSE /\ tsp'.Stop_Flag
        /\ tsp'.Pause_Flag = tsp.Pause_Flag /\ failCont' = failCont
    BY <1>0, <1>6 DEF Pausing, SchedParam
  <2>2. tsp.Test_Step_State = "OUT"
    BY <2>1 DEF TypeInv, StepOK, Between
  <2>3. CleanInv'
    BY <1>1, <1>2, <2>1 DEF CleanInv
  <2>4. PauseInv'
    BY <1>1, <1>2, <2>1, <2>2 DEF PauseInv
  <2> QED BY <2>3, <2>4
<1> QED BY <1>3, <1>4, <1>5, <1>6

\* A failure that is forgiven keeps Pass_Flag clear; the fetch that ends the
\* list with it set has come past the last step.
LEMMA VerdictFetch ==
  ASSUME TypeInv, TypeInv', Started, CleanInv, PauseInv,
         Warn \/ Forgive \/ Fetch \/ Verdict \/ PassVerdict \/ FailVerdict
  PROVE  CleanInv' /\ PauseInv'
<1>0. /\ tsp \in SchedParam(Len(prog)) /\ stepNum \in 1..Len(prog) + 1 /\ Len(prog) \in Nat \ {0}
      /\ prog \in Programs /\ stepNum \in Nat /\ tsp.Test_Step_State = "OUT" /\ ~Fresh
      /\ prog' = prog /\ home' = home /\ home \notin Starting
  <2>1. /\ tsp \in SchedParam(Len(prog)) /\ stepNum \in 1..Len(prog) + 1
        /\ Len(prog) \in Nat \ {0} /\ prog \in Programs /\ stepNum \in Nat
    BY ProgramTypes DEF TypeInv, TypeOK
  <2>2. /\ pc \in {"warn", "forgive", "fetch", "verdict", "pass", "fail"} \cup Alarms
        /\ prog' = prog
    BY <2>1, ForgiveFacts DEF Warn, Fetch, Verdict, PassVerdict, FailVerdict, Finish
  <2>3. tsp.Test_Step_State = "OUT" /\ ~Fresh
    BY <2>2 DEF TypeInv, StepOK, Between, Fresh, Alarms
  <2>4. home' = home /\ home \notin Starting
    BY SchedWaits DEF SchedStep
  <2> QED BY <2>1, <2>2, <2>3, <2>4
<1>r. ~Resuming /\ ~Resuming' /\ home # "stop"
  BY <1>0 DEF Resuming, Starting
<1> USE <1>r DEF Alarms
<1>1. CASE Warn
  <2>1. /\ pc = "warn" /\ pc' \in {"forgive", "fetch"} /\ stepNum' = stepNum
        /\ UNCHANGED <<saved, failed, tripped, failCont>>
        /\ tsp'.Test_Step_State = tsp.Test_Step_State
        /\ tsp'.p_Test_Param = tsp.p_Test_Param /\ tsp'.Pass_Flag = tsp.Pass_Flag
        /\ tsp'.Pause_Flag = tsp.Pause_Flag
        /\ \/ tsp.Warning_Flag /\ failCont /\ ~tsp'.Stop_Flag
           \/ tsp'.Stop_Flag = tsp.Stop_Flag
    BY <1>0, <1>1 DEF Warn, SchedParam, params, history
  <2>2. Clean => Clean'
    BY <1>0, <2>1, CleanFrame DEF Settled
  <2>3. AtEnd => AtEnd'
    BY <1>0, <2>1 DEF AtEnd, Cur
  <2>4. tsp.Warning_Flag /\ failCont => stepNum > 1
    BY <2>1 DEF Started
  <2>5. CleanInv'
    BY <1>0, <2>1, <2>2 DEF CleanInv
  <2>6. PauseInv'
    BY <1>0, <2>1, <2>2, <2>3, <2>4 DEF PauseInv
  <2> QED BY <2>5, <2>6
<1>6. CASE Forgive
  <2>1. /\ pc \in {"forgive"} \cup Alarms /\ pc' \in {"fetch"} \cup Alarms
        /\ stepNum' = stepNum /\ UNCHANGED <<saved, failed, tripped, failCont>>
        /\ tsp'.Test_Step_State = tsp.Test_Step_State
        /\ tsp'.p_Test_Param = tsp.p_Test_Param /\ tsp'.Pass_Flag = tsp.Pass_Flag
        /\ tsp'.Pause_Flag = tsp.Pause_Flag /\ tsp'.Stop_Flag = tsp.Stop_Flag
    BY <1>0, <1>6, ForgiveFacts DEF params, history
  <2>2. Clean => Clean'
    BY <1>0, <2>1, CleanFrame DEF Settled
  <2>3. AtEnd => AtEnd'
    BY <1>0, <2>1 DEF AtEnd, Cur
  <2>5. CleanInv'
    BY <1>0, <2>1, <2>2 DEF CleanInv
  <2>6. PauseInv'
    BY <1>0, <2>1, <2>2, <2>3 DEF PauseInv
  <2> QED BY <2>5, <2>6
<1>2. CASE Fetch /\ pc' = "verdict"
  <2>1. /\ pc = "fetch" /\ stepNum' = 1 /\ UNCHANGED <<saved, failed, tripped, failCont>>
        /\ tsp'.Stop_Flag = tsp.Stop_Flag /\ tsp'.Pass_Flag = tsp.Pass_Flag
        /\ (Wraps => g_cur_step' = 1) /\ (~Wraps => g_cur_step' = NextIndex)
        /\ g_cur_step' = 0 \/ tsp.Stop_Flag
    BY <1>0, <1>2 DEF Fetch, SchedParam, history
  <2>2. ~(tsp.Stop_Flag /\ tsp.Pass_Flag)
    BY <2>1 DEF CleanInv
  <2>3. ASSUME tsp.Pass_Flag
        PROVE  ~failed /\ tripped = {} /\ \A i \in 1..Len(prog) : saved[i] = "PASS"
    <3>1. NextIndex = 0
      BY <2>1, <2>2, <2>3
    <3>2. stepNum > 1 /\ g_cur_step \notin 1..Len(prog) - 1
      <4>1. stepNum # 1
        BY <3>1 DEF NextIndex
      <4>2. g_cur_step \in 1..Len(prog) - 1 => g_cur_step + 1 # 0
        OBVIOUS
      <4> QED BY <1>0, <3>1, <4>1, <4>2 DEF NextIndex
    <3>3. stepNum = Len(prog) + 1
      BY <1>0, <3>2 DEF TypeInv, StepCursor
    <3>4. Clean /\ Settled
      BY <1>0, <2>3, <3>2 DEF CleanInv, Settled
    <3> QED BY <1>0, <3>3, <3>4 DEF Clean
  <2>4. CleanInv'
    BY <1>0, <1>2, <2>1, <2>2, <2>3 DEF CleanInv
  <2>5. PauseInv'
    BY <1>0, <1>2, <2>1 DEF PauseInv
  <2> QED BY <2>4, <2>5
<1>3. CASE Fetch /\ pc' = "alarms"
  <2>1. /\ pc = "fetch" /\ failCont' = failCont /\ ~tsp.Stop_Flag /\ ~tsp'.Stop_Flag
        /\ tsp'.Pass_Flag = tsp.Pass_Flag /\ tsp'.Pause_Flag = tsp.Pause_Flag
        /\ tsp'.Test_Step_State = "OUT" /\ g_cur_step' # 0
        /\ (Wraps => g_cur_step' = 1) /\ (~Wraps => g_cur_step' = NextIndex)
        /\ stepNum' = (IF Wraps THEN 1 ELSE stepNum) + 1
        /\ saved' = [i \in 1..Len(prog) |->
                       IF stepNum' = 2 \/ i = g_cur_step' THEN "none" ELSE saved[i]]
        /\ failed' = (failed /\ stepNum' # 2)
        /\ tripped' = IF stepNum' = 2 THEN {} ELSE tripped
    BY <1>0, <1>3 DEF Fetch, SchedParam
  <2>2. ~tsp.Pause_Flag
    <3>1. ASSUME tsp.Pause_Flag
          PROVE  FALSE
      <4>1. stepNum > 1 /\ AtEnd
        BY <1>0, <2>1, <3>1 DEF PauseInv
      <4>2. g_cur_step = Len(prog) /\ tsp.p_Test_Param = g_cur_step
        BY <1>0, <4>1 DEF AtEnd, TypeInv, StepCursor
      <4>3. NextIndex = 0
        BY <1>0, <4>1, <4>2 DEF NextIndex
      <4>4. ~Wraps
        BY <4>1, <4>2 DEF AtEnd, Wraps, Cur
      <4> QED BY <2>1, <4>3, <4>4
    <3> QED BY <3>1
  <2>3. ~Settled' /\ stepNum' > 1
    BY <1>0, <1>3, <2>1 DEF Settled, Fresh
  <2>4. CASE stepNum' = 2
    <3>1. Clean'
      <4>1. ~failed' /\ tripped' = {}
        BY <2>1, <2>4
      <4>2. \A i \in 1..Len(prog) : ~(i < stepNum' - 1)
        BY <2>4
      <4> QED BY <1>0, <2>3, <4>1, <4>2 DEF Clean
    <3>2. CleanInv'
      BY <1>0, <1>3, <2>1, <3>1 DEF CleanInv
    <3>3. PauseInv'
      BY <1>0, <1>3, <2>1, <2>2, <3>1 DEF PauseInv
    <3> QED BY <3>2, <3>3
  <2>5. CASE stepNum' # 2
    <3>1. stepNum' = stepNum + 1 /\ stepNum > 1
      BY <1>0, <2>1, <2>5
    <3>f. (failed' => failed) /\ tripped' = tripped
      BY <2>1, <2>5
    <3>2. g_cur_step' = stepNum' - 1
      BY <1>0, <2>3 DEF TypeInv, StepCursor
    <3>3. Clean => Clean'
      <4>1. ASSUME Clean, NEW i \in 1..Len(prog), i < stepNum' - 1
            PROVE  saved'[i] = "PASS"
        <5>1. i < stepNum - 1 \/ i = stepNum - 1
          BY <1>0, <3>1, <4>1
        <5>2. saved[i] = "PASS"
          BY <1>0, <4>1, <5>1 DEF Clean, Settled
        <5>3. i # g_cur_step'
          BY <1>0, <3>1, <3>2, <4>1
        <5> QED BY <2>1, <2>5, <5>2, <5>3
      <4> QED BY <1>0, <2>3, <3>1, <3>f, <4>1 DEF Clean
    <3>4. CleanInv'
      BY <1>0, <1>3, <2>1, <3>1, <3>3 DEF CleanInv
    <3>5. PauseInv'
      BY <1>0, <1>3, <2>1, <2>2, <3>1, <3>3 DEF PauseInv
    <3> QED BY <3>4, <3>5
  <2> QED BY <2>4, <2>5
<1>4. CASE Verdict
  <2>1. /\ tsp' = tsp /\ UNCHANGED <<saved, failed, tripped, stepNum, loop, failCont>>
        /\ pc = "verdict" /\ pc' = IF tsp.Pass_Flag THEN "pass" ELSE "fail"
    BY <1>4 DEF Verdict, params, clock, history
  <2>2. stepNum = 1
    BY <2>1 DEF Started
  <2>3. CleanInv'
    BY <1>0, <2>1, <2>2 DEF CleanInv
  <2>4. PauseInv'
    BY <1>0, <2>1, <2>2 DEF PauseInv
  <2> QED BY <2>3, <2>4
<1>5. CASE PassVerdict \/ FailVerdict
  <2>1. /\ pc' = "idle" /\ loop' = FALSE /\ stepNum' = stepNum /\ tsp'.Stop_Flag
        /\ failCont' = failCont /\ pc \in {"pass", "fail"}
    BY <1>0, <1>5 DEF PassVerdict, FailVerdict, Finish, Stopped, SchedParam, params
  <2>2. stepNum = 1
    BY <2>1 DEF Started
  <2>3. CleanInv'
    BY <1>0, <2>1, <2>2 DEF CleanInv
  <2>4. PauseInv'
    BY <1>0, <2>1, <2>2 DEF PauseInv
  <2> QED BY <2>3, <2>4
<1> QED BY <1>1, <1>2, <1>3, <1>4, <1>5, <1>6 DEF Fetch

\* A step that goes on is not settled; one that an alarm or a range check ends
\* takes the verdict back; one that STOP ends is saved as passed.
LEMMA VerdictSteps ==
  ASSUME TypeInv, TypeInv', AlarmHeldByStop, Started, CleanInv, PauseInv, SchedStep,
         AlarmCheck \/ StopCheck \/ EnterCheck \/ EnterEnable \/ Phase
  PROVE  CleanInv' /\ PauseInv'
<1>0. /\ tsp \in SchedParam(Len(prog)) /\ stepNum \in Nat /\ Len(prog) \in Nat
      /\ saved \in [1..Len(prog) -> Verdicts]
      /\ home \notin Starting
  BY SchedWaits, ProgramTypes DEF TypeInv, TypeOK
<1>r. ~Resuming /\ home # "stop" /\ home \notin Alarms
  BY <1>0 DEF Resuming, Starting
<1> USE <1>r
<1>1. /\ pc \in InStep
      /\ UNCHANGED <<prog, stepNum, tripped, failCont, home>>
      /\ tsp'.Pause_Flag = tsp.Pause_Flag
  BY EnterOutcome, PhaseOutcome DEF params, history, InStep
<1>2. /\ ~(tsp.Stop_Flag /\ tsp.Pass_Flag) /\ ~(stepNum > 1 /\ tsp.Pause_Flag)
      /\ stepNum = 1 /\ tsp.Pause_Flag => tsp.Stop_Flag
      /\ NoForgiving(prog) => ~failCont /\ (stepNum > 1 /\ ~tsp.Stop_Flag => Clean)
  BY <1>1 DEF CleanInv, PauseInv, InStep, Alarms
<1>3. pc' \in {"main", "loop", "idle"} \cup InStep
  BY EnterOutcome, PhaseOutcome
  DEF Return, PhaseGoesOn, PhaseFails, PhaseIsOver
<1>4. ASSUME tsp'.Stop_Flag, ~tsp'.Pass_Flag
      PROVE  CleanInv' /\ PauseInv'
  <2>1. CleanInv'
    BY <1>0, <1>1, <1>3, <1>4 DEF CleanInv, InStep
  <2>2. PauseInv'
    BY <1>0, <1>1, <1>2, <1>4 DEF PauseInv
  <2> QED BY <2>1, <2>2
<1>5. ASSUME tsp'.Stop_Flag = tsp.Stop_Flag, tsp'.Pass_Flag = tsp.Pass_Flag,
             stepNum > 1 /\ Clean => Clean'
      PROVE  CleanInv' /\ PauseInv'
  <2>1. CleanInv'
    BY <1>0, <1>1, <1>2, <1>3, <1>5 DEF CleanInv, InStep
  <2>2. PauseInv'
    BY <1>0, <1>1, <1>2, <1>5 DEF PauseInv
  <2> QED BY <2>1, <2>2
<1>6. CASE AlarmCheck \/ StopCheck \/ EnterCheck \/ EnterEnable
  <2>1. CASE pc' \in InStep /\ saved' = saved /\ tsp'.Stop_Flag = tsp.Stop_Flag
    <3>1. ~Settled'
      BY <2>1 DEF Settled, Fresh, InStep, TypeInv, StepOK
    <3>2. UNCHANGED <<prog, failed, tripped, stepNum, saved>>
      BY <1>6, <2>1, EnterOutcome DEF params, history
    <3> QED BY <1>5, <1>6, <2>1, <3>1, <3>2, CleanFrame, EnterOutcome
  <2>2. CASE tsp.Alarm_Flags # {} /\ tsp'.Stop_Flag
    <3>1. \A a \in tsp.Alarm_Flags : ~HomeClears(a) /\ ~PcClears(a)
      BY <1>0, <1>1 DEF HomeClears, PcClears, InStep, Starting, Alarms
    <3>2. ~tsp.Pass_Flag
      BY <2>2, <3>1 DEF AlarmHeldByStop
    <3> QED BY <1>4, <1>6, <2>2, <3>2, EnterOutcome
  <2> QED BY <1>6, <2>1, <2>2, EnterOutcome
<1>7. CASE Phase
  <2>1. CASE PhaseGoesOn
    <3>1. ~Settled'
      BY <2>1 DEF Settled, PhaseGoesOn
    <3> QED BY <1>1, <1>5, <2>1, <3>1, CleanFrame DEF PhaseGoesOn
  <2>2. CASE PhaseFails
    BY <1>4, <2>2 DEF PhaseFails
  <2>3. CASE PhaseIsOver
    <3>1. ASSUME stepNum > 1, Clean
          PROVE  Clean'
      <4>1. tsp.p_Test_Param = stepNum - 1
        BY <3>1 DEF TypeInv, StepCursor
      <4>2. ASSUME NEW i \in 1..Len(prog), i <= stepNum - 1
            PROVE  saved'[i] = "PASS"
        <5>1. CASE i = stepNum - 1
          BY <1>0, <2>3, <4>1, <5>1 DEF PhaseIsOver
        <5>2. CASE i # stepNum - 1
          <6>1. i < stepNum - 1
            BY <1>0, <4>2, <5>2
          <6> QED BY <1>0, <2>3, <3>1, <4>1, <5>2, <6>1 DEF PhaseIsOver, Clean
        <5> QED BY <5>1, <5>2
      <4> QED BY <1>0, <1>1, <2>3, <3>1, <4>2 DEF Clean, PhaseIsOver
    <3> QED BY <1>5, <2>3, <3>1 DEF PhaseIsOver
  <2> QED BY <1>7, <2>1, <2>2, <2>3, PhaseOutcome
<1> QED BY <1>6, <1>7

LEMMA VerdictInit == Init => CleanInv /\ PauseInv
<1> SUFFICES ASSUME Init PROVE CleanInv /\ PauseInv
  OBVIOUS
<1>1. /\ tsp.Stop_Flag = FALSE /\ tsp.Pause_Flag = FALSE /\ stepNum = 1
      /\ pc = "idle" /\ failCont = FALSE
  BY DEF Init
<1> QED BY <1>1 DEF CleanInv, PauseInv

LEMMA VerdictNext ==
  ASSUME StartHit = FALSE, Remembers, TypeInv, TypeInv', AlarmHeldByStop, Started,
         CleanInv, PauseInv, [Next]_vars
  PROVE  CleanInv' /\ PauseInv'
<1>1. CASE UNCHANGED vars
  <2>1. Clean' <=> Clean
    BY <1>1 DEF vars, Clean, Settled, Fresh
  <2>2. CleanInv'
    BY <1>1, <2>1 DEF vars, CleanInv
  <2>3. PauseInv'
    BY <1>1, <2>1 DEF vars, PauseInv, AtEnd, Cur, Resuming
  <2> QED BY <2>2, <2>3
<1>2. CASE SchedStep
  <2>1. CASE Wake \/ Clock \/ Main \/ Gate \/ Pausing
    BY <2>1, VerdictMain
  <2>2. CASE Warn \/ Forgive \/ Fetch \/ Verdict \/ PassVerdict \/ FailVerdict
    BY <2>2, VerdictFetch
  <2>3. CASE AlarmCheck \/ StopCheck \/ EnterCheck \/ EnterEnable \/ Phase
    BY <1>2, <2>3, VerdictSteps
  <2> QED BY <1>2, <2>1, <2>2, <2>3 DEF SchedStep
<1> QED BY <1>1, <1>2, VerdictInterrupt, VerdictHome DEF Next

\* If no interrupt falls into Test_Sched_Start, and a list that forgives a
\* failure never waits for the start key between two steps, PASS is shown only
\* for a list all of whose steps were executed to a PASS record, with no failed
\* range check and no alarm in a phase since the first of them.
THEOREM VerdictIsSound ==
  ASSUME StartHit = FALSE, Remembers
  PROVE  Spec => []VerdictSound
<1>1. Init => CleanInv /\ PauseInv
  BY VerdictInit
<1>2. TypeInv /\ TypeInv' /\ AlarmHeldByStop /\ Started /\ CleanInv /\ PauseInv
        /\ [Next]_vars => (CleanInv /\ PauseInv)'
  BY VerdictNext
<1>3. CleanInv => VerdictSound
  BY DEF CleanInv, VerdictSound
<1> QED BY <1>1, <1>2, <1>3, TypeInvariant, AlarmHeld, StartedInvariant, PTL DEF Spec

-----------------------------------------------------------------------------
\* Main reads the switches of every step that forgives its failures: those of
\* an IR step it does not read.
ForgivingIsRead ==
  \A q \in Programs : \A i \in 1..Len(q) : q[i].failstop => Trait[q[i].mode].chained

\* Inside a step neither switch of a waiting list is set, so that a warning of
\* this pass finds Continue_Flag clear, Main takes over the failstop of the
\* step that failed, and one that forgives loses its warning before the fetch.
\* The start key is refused while there is a warning.
Inside == tsp.Test_Step_State # "OUT" \/ pc \in InStep
ForgiveInv ==
  /\ Inside => ~tsp.Pause_Flag
  /\ Inside \/ pc \in {"forgive", "fetch"} \cup Alarms \/ (stepNum > 1 /\ tsp.Warning_Flag)
       => ~tsp.Continue_Flag
  /\ home \in Starting \/ pc \in Alarms => ~tsp.Warning_Flag
  /\ pc \in {"gate", "warn"} /\ stepNum > 1 /\ tsp.Warning_Flag => (Cur.failstop => failCont)
  /\ pc = "fetch" /\ stepNum > 1 /\ tsp.Warning_Flag => ~Cur.failstop

LEMMA ForgiveInterrupt ==
  ASSUME TypeInv, ForgiveInv, StopKey \/ (\E a \in Alarms : Alarm(a)) \/ TimerFire
  PROVE  ForgiveInv'
<1>0. tsp \in SchedParam(Len(prog))
  BY DEF TypeInv, TypeOK
<1>1. /\ UNCHANGED <<prog, pc, home, failCont>>
      /\ tsp'.Test_Step_State = tsp.Test_Step_State
      /\ tsp'.p_Test_Param = tsp.p_Test_Param
      /\ tsp'.Pause_Flag = tsp.Pause_Flag /\ tsp'.Continue_Flag = tsp.Continue_Flag
      /\ tsp'.Warning_Flag => tsp.Warning_Flag
      /\ stepNum' = 1 \/ stepNum' = stepNum
  <2>1. CASE StopKey
    BY <1>0, <2>1 DEF StopKey, ClosedFlags, SchedParam
  <2>2. CASE \E a \in Alarms : Alarm(a)
    BY <1>0, <2>2 DEF Alarm, ClosedFlags, SchedParam, params
  <2>3. CASE TimerFire
    BY <2>3 DEF TimerFire, params
  <2> QED BY <2>1, <2>2, <2>3
<1>2. Cur' = Cur /\ Inside' = Inside
  BY <1>1 DEF Cur, Inside
<1> QED BY <1>1, <1>2 DEF ForgiveInv

\* A start resumes a list between two steps only.
LEMMA ForgiveHome ==
  ASSUME TypeInv, ForgiveInv, StartPress \/ HomeStep
  PROVE  ForgiveInv'
<1>0. /\ tsp \in SchedParam(Len(prog)) /\ pc \in {"idle", "loop"}
      /\ UNCHANGED <<pc, params>>
  <2>1. tsp \in SchedParam(Len(prog))
    BY DEF TypeInv, TypeOK
  <2>2. HomeRuns /\ UNCHANGED <<pc, params>>
    BY <2>1, FlagsFacts DEF StartPress, HomeStep, StartGo, StartTail
  <2> QED BY <2>1, <2>2 DEF HomeRuns
<1>1. tsp'.Test_Step_State = tsp.Test_Step_State /\ tsp'.Warning_Flag = tsp.Warning_Flag
  BY <1>0, FlagsFacts DEF StartPress, HomeStep, StartGo, StartTail
<1> USE DEF Starting, Alarms
<1>2. Inside' = Inside
  BY <1>0, <1>1 DEF Inside
<1>3. CASE StartPress
  BY <1>0, <1>2, <1>3 DEF StartPress, ForgiveInv, params
<1>4. CASE StartResume
  <2>1. ~tsp'.Pause_Flag /\ tsp'.Continue_Flag = tsp.Pause_Flag /\ home = "resume" /\ home' = "go"
    BY <1>0, <1>4 DEF StartResume, StartWrites, SchedParam
  <2> QED BY <1>0, <1>1, <1>2, <2>1 DEF ForgiveInv
<1>5. CASE \/ StartRunning \/ StartPass \/ StartStop \/ StartGo \/ StartTail
           \/ \E a \in Alarms, to \in {"gfi", "arc", "resume"} : StartClear(a, to)
  <2>1. /\ tsp'.Pause_Flag = tsp.Pause_Flag /\ tsp'.Continue_Flag = tsp.Continue_Flag
        /\ home' \in Starting => home \in Starting
    BY <1>0, <1>5 DEF StartRunning, StartPass, StartStop, StartClear, StartWrites, Running,
                      Cleared, StartGo, StartTail, SchedParam
  <2> QED BY <1>0, <1>1, <1>2, <2>1 DEF ForgiveInv, params
<1> QED BY <1>3, <1>4, <1>5 DEF HomeStep, StartFlags

\* Main takes over failstop; Warn drops the warning of a step that forgives.
LEMMA ForgiveBetween ==
  ASSUME ForgivingIsRead, TypeInv, PauseInv, ForgiveInv, home \notin Starting,
         Main \/ Gate \/ Pausing \/ Warn
  PROVE  ForgiveInv'
<1>0. /\ tsp \in SchedParam(Len(prog)) /\ stepNum \in Nat /\ prog \in Programs
      /\ UNCHANGED <<prog, params, home>>
      /\ tsp'.Test_Step_State = tsp.Test_Step_State /\ tsp'.p_Test_Param = tsp.p_Test_Param
  <2>1. tsp \in SchedParam(Len(prog)) /\ stepNum \in Nat /\ prog \in Programs
    BY ProgramTypes DEF TypeInv, TypeOK
  <2>2. UNCHANGED <<prog, params, home>>
    BY DEF Main, Gate, Pausing, Warn
  <2>3. tsp'.Test_Step_State = tsp.Test_Step_State /\ tsp'.p_Test_Param = tsp.p_Test_Param
    BY <2>1 DEF Main, Gate, Pausing, Warn, SchedParam
  <2> QED BY <2>1, <2>2, <2>3
<1>1. Cur' = Cur /\ stepNum' = stepNum
  BY <1>0 DEF Cur, params
<1> USE DEF Alarms
<1>2. CASE Main
  <2>1. CASE pc' = "alarms"
    BY <1>0, <1>1, <1>2, <2>1 DEF Main, ForgiveInv, Inside, InStep
  <2>2. CASE pc' = "gate"
    <3>1. /\ failCont' = (Chained /\ Cur.failstop) /\ tsp.Test_Step_State = "OUT"
          /\ tsp'.Warning_Flag = tsp.Warning_Flag
          /\ tsp'.Continue_Flag = tsp.Continue_Flag
      BY <1>0, <1>2, <2>2 DEF Main, SchedParam
    <3>2. ASSUME stepNum > 1, tsp.Warning_Flag, Cur.failstop
          PROVE  failCont'
      <4>1. tsp.p_Test_Param \in 1..Len(prog)
        BY <1>0, <3>2 DEF TypeInv, TypeOK, StepCursor
      <4>2. CurTrait.chained
        BY <1>0, <3>2, <4>1 DEF ForgivingIsRead, Cur, CurTrait
      <4>3. ~tsp.Continue_Flag
        BY <3>2 DEF ForgiveInv
      <4> QED BY <3>1, <3>2, <4>2, <4>3 DEF Chained
    <3> QED BY <1>0, <1>1, <2>2, <3>1, <3>2 DEF ForgiveInv, Inside, InStep
  <2> QED BY <1>2, <2>1, <2>2 DEF Main
<1>3. CASE Gate
  BY <1>0, <1>1, <1>3 DEF Gate, ForgiveInv, Inside, InStep
<1>4. CASE Pausing
  <2>1. /\ tsp'.Warning_Flag = tsp.Warning_Flag /\ tsp'.Pause_Flag = tsp.Pause_Flag
        /\ tsp'.Continue_Flag = tsp.Continue_Flag /\ pc' = "idle" /\ pc = "pausing"
    BY <1>0, <1>4 DEF Pausing, SchedParam
  <2> QED BY <1>0, <1>1, <2>1 DEF ForgiveInv, Inside, InStep
<1>5. CASE Warn
  <2>1. /\ pc = "warn" /\ pc' \in {"forgive", "fetch"} /\ ~tsp'.Continue_Flag
        /\ tsp'.Pause_Flag = tsp.Pause_Flag
        /\ tsp'.Warning_Flag => tsp.Warning_Flag /\ (pc' = "fetch" => ~failCont)
    BY <1>0, <1>5 DEF Warn, SchedParam
  <2> QED BY <1>0, <1>1, <2>1 DEF ForgiveInv, Inside, InStep
<1> QED BY <1>2, <1>3, <1>4, <1>5

\* The rest of the thread: a step is entered with both switches clear, and
\* only there a warning is raised.
LEMMA ForgiveSched ==
  ASSUME ForgivingIsRead, TypeInv, Started, PauseInv, TypeInv', PauseInv', ForgiveInv, SchedStep
  PROVE  ForgiveInv'
<1>0. /\ tsp \in SchedParam(Len(prog)) /\ home' = home /\ home \notin Starting
  BY SchedWaits DEF TypeInv, TypeOK
<1> USE DEF Alarms
<1>1. CASE Main \/ Gate \/ Pausing \/ Warn
  BY <1>0, <1>1, ForgiveBetween
<1>2. CASE Wake \/ Clock \/ Verdict
  <2>1. tsp' = tsp /\ stepNum' = stepNum
        /\ pc' \in {"idle", "loop", "main", "pass", "fail"}
    BY <1>2 DEF Wake, Clock, Verdict, Return, params
  <2> QED BY <1>0, <2>1 DEF ForgiveInv, Inside, InStep
<1>3. CASE Fetch
  <2>1. /\ tsp'.Continue_Flag = tsp.Continue_Flag /\ tsp'.Pause_Flag = tsp.Pause_Flag
        /\ pc = "fetch" /\ tsp'.Test_Step_State = tsp.Test_Step_State
        /\ pc' \in {"verdict", "alarms"} /\ (pc' = "alarms" => ~tsp.Stop_Flag)
        /\ tsp'.Stop_Flag = tsp.Stop_Flag
    BY <1>0, <1>3 DEF Fetch, SchedParam
  <2>2. pc' = "alarms" => ~tsp'.Pause_Flag
    <3>1. stepNum' = 1 \/ stepNum' > 1
      BY ProgramTypes DEF TypeInv, TypeOK
    <3> QED BY <1>0, <2>1, <3>1 DEF PauseInv, Resuming, Starting
  <2>3. tsp.Test_Step_State = "OUT"
    BY <2>1 DEF TypeInv, StepOK, Between
  <2> QED BY <1>0, <2>1, <2>2, <2>3 DEF ForgiveInv, Inside, InStep
<1>4. CASE PassVerdict \/ FailVerdict
  <2>1. /\ tsp'.Test_Step_State = tsp.Test_Step_State /\ pc' = "idle"
        /\ tsp'.Pause_Flag = tsp.Pause_Flag /\ stepNum' = stepNum /\ pc \in {"pass", "fail"}
    BY <1>0, <1>4 DEF PassVerdict, FailVerdict, Finish, Stopped, SchedParam, params
  <2>2. stepNum = 1 /\ tsp.Test_Step_State = "OUT"
    BY <2>1 DEF Started, TypeInv, StepOK, Between
  <2> QED BY <1>0, <2>1, <2>2 DEF ForgiveInv, Inside, InStep
<1>5. CASE AlarmCheck \/ StopCheck \/ EnterCheck \/ EnterEnable \/ Phase
  <2>1. /\ pc \in InStep /\ pc' \notin {"gate", "warn", "forgive", "fetch"} \cup Alarms
        /\ tsp'.Continue_Flag = tsp.Continue_Flag /\ tsp'.Pause_Flag = tsp.Pause_Flag
    BY <1>5, EnterOutcome, PhaseOutcome
    DEF Return, PhaseGoesOn, PhaseFails, PhaseIsOver, InStep
  <2> QED BY <1>0, <2>1 DEF ForgiveInv, Inside
<1>6. CASE Forgive
  <2>1. /\ pc \in {"forgive"} \cup Alarms /\ pc' \in {"fetch"} \cup Alarms
        /\ stepNum' = stepNum /\ UNCHANGED <<prog, failCont>>
        /\ tsp'.Test_Step_State = tsp.Test_Step_State
        /\ tsp'.Pause_Flag = tsp.Pause_Flag /\ tsp'.Continue_Flag = tsp.Continue_Flag
        /\ tsp'.Warning_Flag => tsp.Warning_Flag
    BY <1>0, <1>6, ForgiveFacts DEF params
  <2>2. ~tsp'.Warning_Flag
    <3>1. CASE ForgiveWarning
      BY <1>0, <3>1 DEF ForgiveWarning, SchedParam
    <3>2. CASE ~ForgiveWarning
      BY <1>6, <2>1, <3>2 DEF Forgive, ForgiveAlarm, ForgiveInv
    <3> QED BY <3>1, <3>2
  <2> QED BY <1>0, <2>1, <2>2 DEF ForgiveInv, Inside, InStep
<1> QED BY <1>1, <1>2, <1>3, <1>4, <1>5, <1>6 DEF SchedStep

LEMMA ForgiveInit == Init => ForgiveInv
<1> SUFFICES ASSUME Init PROVE ForgiveInv
  OBVIOUS
<1>1. /\ tsp.Pause_Flag = FALSE /\ tsp.Continue_Flag = FALSE /\ tsp.Warning_Flag = FALSE
      /\ pc = "idle" /\ home = "ready"
  BY DEF Init
<1> QED BY <1>1 DEF ForgiveInv

LEMMA ForgiveNext ==
  ASSUME ForgivingIsRead, TypeInv, Started, PauseInv, TypeInv', PauseInv', ForgiveInv, [Next]_vars
  PROVE  ForgiveInv'
<1>1. CASE UNCHANGED vars
  BY <1>1 DEF vars, ForgiveInv, Inside, Cur
<1> QED BY <1>1, ForgiveInterrupt, ForgiveHome, ForgiveSched DEF Next

\* A fetch with a warning comes from a step that does not forgive.
LEMMA ForgivenGoesOn ==
  ASSUME TypeInv, ForgiveInv
  PROVE  [pc = "fetch" /\ stepNum > 1 /\ tsp.Warning_Flag /\ tsp'.p_Test_Param = 0
            => tsp.p_Test_Param # 0 /\ ~Cur.failstop]_vars
<1>1. ASSUME stepNum > 1
      PROVE  tsp.p_Test_Param # 0
  BY <1>1, ProgramTypes DEF TypeInv, TypeOK, StepCursor
<1> QED BY <1>1 DEF ForgiveInv
\* If no interrupt falls into Test_Sched_Start, a forgiving list never waits
\* between two steps, and Main reads the switches of every step that forgives,
\* then a warning ends the list at a step without failstop only (unless the
\* stop key has reset it): "Fail Con." of the step editor does what it says.
THEOREM FailureIsForgiven ==
  ASSUME StartHit = FALSE, Remembers, ForgivingIsRead
  PROVE  Spec => FailContinues
<1>1. Init => CleanInv /\ PauseInv /\ ForgiveInv
  BY VerdictInit, ForgiveInit
<1>2. TypeInv /\ TypeInv' /\ AlarmHeldByStop /\ Started /\ CleanInv /\ PauseInv
        /\ [Next]_vars => (CleanInv /\ PauseInv)'
  BY VerdictNext
<1>3. TypeInv /\ TypeInv' /\ Started /\ PauseInv /\ PauseInv' /\ ForgiveInv
        /\ [Next]_vars => ForgiveInv'
  BY ForgiveNext
<1> QED BY <1>1, <1>2, <1>3, ForgivenGoesOn, TypeInvariant, AlarmHeld, StartedInvariant, PTL
        DEF Spec, FailContinues
=============================================================================
