------------------------------ MODULE TestSched ------------------------------
(***************************************************************************)
(* The test scheduler of the CS9931 hipot tester: Test_Sched.c with the    *)
(* mode routines it calls and dyj_next_step, the callback that walks the   *)
(* step list.                                                              *)
(*                                                                         *)
(* Three kinds of actors share one record, Test_Sched_Param:               *)
(*   - the scheduler thread (priority 6): Test_Sched_Sever, which runs     *)
(*     Test_Sched_Main once per 100 ms clock message, program counter pc;  *)
(*   - the home thread (priority 14): Test_Sched_Start on the start key,   *)
(*     program counter home.  It runs only while the scheduler thread is   *)
(*     blocked in a mailbox;                                               *)
(*   - interrupts: the stop key (Test_Sched_Close), short_int, arc_int and *)
(*     GFI_int, each atomic, between any two steps of the threads.         *)
(*                                                                         *)
(* One scheduler action is a stretch of code between two accesses to state *)
(* that an interrupt also writes.                                          *)
(***************************************************************************)
EXTENDS TestModes

CONSTANTS
  Programs,   \* the step lists (test files) the instrument may hold
  Inputs,     \* the environment's inputs: "stop", alarms, "fail" (a range check)
  StartHit    \* interrupts may hit Test_Sched_Start between two statements

StepType ==
  [mode : Modes, waittime : Nat, ramptime : Nat, testtime : Nat,
   downtime : Nat, pausetime : Nat, arc : BOOLEAN,
   stepcontinuation : BOOLEAN, failstop : BOOLEAN]

ASSUME ProgramsAssumption ==
  \A q \in Programs : q \in Seq(StepType) /\ q # <<>>

ASSUME InputsAssumption ==
  Inputs \subseteq Alarms \cup {"stop", "fail"} /\ StartHit \in BOOLEAN

VARIABLES
  prog,       \* cs99xx_list: the step list under test
  tsp,        \* Test_Sched_Param
  g_cur_step, \* the list cursor: an index into prog, 0 for NULL
  stepNum,    \* current_step_num
  loop,       \* test_loop_flag
  timer,      \* Test_Sched_Timer is running
  clockMb,    \* test_sever_clock_mb holds its one message
  severMb,    \* test_sever_mb holds its one message
  out,        \* the outputs that are energised
  left,       \* ticks left in the present phase (Wait_Time .. Pause_Time)
  stage,      \* the output stage ...EnvironmentEnter is at
  failCont,   \* Is_Fail_Continue, local to Test_Sched_Main
  ledPass, ledFail,
  saved,      \* the last result_save verdict of each step of this pass
  failed,     \* history: a range check failed since step 1 was fetched
  tripped,    \* history: the steps an alarm met in a phase (WAIT..STOP) since then
  pc, home

params  == <<g_cur_step, stepNum>>
clock   == <<loop, timer, clockMb, severMb>>
leds    == <<ledPass, ledFail>>
history == <<failed, tripped>>
vars == <<prog, tsp, g_cur_step, stepNum, loop, timer, clockMb, severMb, out,
          left, stage, failCont, ledPass, ledFail, saved, failed, tripped,
          pc, home>>

Phases   == {"OUT", "WAIT", "RISE", "TESTING", "DOWN", "PAUSE", "STOP"}
Verdicts == {"none", "PASS", "FAIL"} \cup Alarms

\* A pc or home in Alarms is about to clear the flag of that alarm.
Starting == {"run", "flags", "stop", "resume", "go"} \cup Alarms
SchedPcs == {"idle", "loop", "main", "gate", "pausing", "warn", "forgive",
             "fetch", "verdict", "pass", "fail", "alarms", "stopchk", "check",
             "enable", "phase"} \cup Alarms
HomePcs  == {"ready", "tail"} \cup Starting

-----------------------------------------------------------------------------
\* The step p_Test_Param points at, and the traits of its mode.
Cur == prog[tsp.p_Test_Param]
CurTrait == Trait[Cur.mode]
\* Defect: ...EnvironmentExit forgets what the expiry of the test time leaves on.
CurOutputs_expiry == CurTrait.expiryOff
CurOutputs == ModeOutputs(Cur.mode)

\* Defect: a zero phase time is taken as it is.
AtLeast1_zero(n) == n
AtLeast1(n) == IF n < 1 THEN 1 ELSE n

\* The first alarm flag the routine's checks meet: short, then arc, then gfi.
FirstAlarm(a) == IF "short" \in a THEN "short" ELSE IF "arc" \in a THEN "arc" ELSE "gfi"

\* Where Test_Sched_Main returns to in Test_Sched_Sever.
Return == pc' = IF loop THEN "loop" ELSE "idle"

\* Test_Sched_Param_Type, with the flag of each alarm in Alarm_Flags.
SchedParam(n) ==
  [Stop_Flag : BOOLEAN, Pass_Flag : BOOLEAN,
   Test_Sched_State : {"INIT", "RUNNING", "STOP"}, Test_Step_State : Phases,
   p_Test_Param : 0..n, Alarm_Flags : SUBSET Alarms, Warning_Flag : BOOLEAN,
   arc_Isable : BOOLEAN, Pause_Flag : BOOLEAN, Continue_Flag : BOOLEAN]

\* Type correctness: every variable is in its range, the pointer and the two
\* cursors of the list within the list under test.
TypeOK ==
  /\ prog \in Programs
  /\ tsp \in SchedParam(Len(prog))
  /\ g_cur_step \in 0..Len(prog)
  /\ stepNum \in 1..Len(prog) + 1
  /\ loop \in BOOLEAN /\ timer \in BOOLEAN
  /\ clockMb \in BOOLEAN /\ severMb \in BOOLEAN
  /\ out \subseteq Outputs
  /\ left \in Nat /\ stage \in 1..2 /\ failCont \in BOOLEAN
  /\ ledPass \in BOOLEAN /\ ledFail \in BOOLEAN
  /\ saved \in [1..Len(prog) -> Verdicts]
  /\ failed \in BOOLEAN /\ tripped \subseteq 1..Len(prog)
  /\ pc \in SchedPcs /\ home \in HomePcs

\* Power-on: Test_Sched_Environment_Init; the cursor is what list set-up left.
Init ==
  /\ prog \in Programs
  /\ tsp = [Stop_Flag |-> FALSE, Pass_Flag |-> TRUE,
            Test_Sched_State |-> "INIT", Test_Step_State |-> "OUT",
            p_Test_Param |-> 0, Alarm_Flags |-> {}, Warning_Flag |-> FALSE,
            arc_Isable |-> FALSE, Pause_Flag |-> FALSE,
            Continue_Flag |-> FALSE]
  /\ g_cur_step = 1 /\ stepNum = 1
  /\ loop = FALSE /\ timer = FALSE /\ clockMb = FALSE /\ severMb = FALSE
  /\ out = {} /\ left = 0 /\ stage = 1 /\ failCont = FALSE
  /\ ledPass = FALSE /\ ledFail = FALSE
  /\ saved = [i \in 1..Len(prog) |-> "none"]
  /\ failed = FALSE /\ tripped = {}
  /\ pc = "idle" /\ home = "ready"

-----------------------------------------------------------------------------
(* Interrupts                                                              *)

\* The outputs Test_Sched_Close switches off: those of the mode p_Test_Param
\* points at.  Through a NULL pointer it finds no mode.
\* Defect: the close of a two-stage mode forgets its second stage.
CloseOutputs_first == IF tsp.p_Test_Param = 0 THEN {} ELSE CurTrait.stages[1]
CloseOutputs == IF tsp.p_Test_Param = 0 THEN {} ELSE CurTrait.close

\* Test_Sched_Start is a few microseconds of a 100 ms tick: StartHit = FALSE
\* assumes that no interrupt falls into it.
Interrupts == home \in Starting => StartHit

\* Test_Sched_Close with Stop_Flag clear.
\* Defect: it leaves the verdict alone.
ClosedFlags_pass == [tsp EXCEPT !.Stop_Flag = TRUE]
ClosedFlags == [tsp EXCEPT !.Stop_Flag = TRUE, !.Pass_Flag = FALSE]

\* The stop key: Test_Sched_Close.  With Stop_Flag already set it resets the
\* home screen and the step cursor and abandons the test.
StopKey ==
  /\ "stop" \in Inputs /\ Interrupts
  /\ out' = out \ CloseOutputs
  /\ ledPass' = FALSE
  /\ \/ /\ tsp.Stop_Flag
        /\ tsp' = [tsp EXCEPT !.Warning_Flag = FALSE, !.Alarm_Flags = {},
                              !.Test_Sched_State = IF @ = "RUNNING" THEN "STOP" ELSE @]
        /\ ledFail' = FALSE
        /\ stepNum' = 1 /\ g_cur_step' = 1
     \/ /\ ~tsp.Stop_Flag
        /\ tsp' = ClosedFlags
        /\ UNCHANGED <<ledFail, stepNum, g_cur_step>>
  /\ UNCHANGED <<prog, clock, left, stage, failCont, saved, history, pc, home>>

\* short_int, arc_int, GFI_int: honoured only while RUNNING and not stopped,
\* they close (the branch with Stop_Flag clear) and leave their flag.  GFI has
\* an interrupt too, but is mostly found by a poll of the scheduler thread: that
\* it may come between any two of its steps allows more than the code does.
Alarm(a) ==
  /\ a \in Inputs \cap Alarms /\ Interrupts
  /\ a = "arc" => tsp.arc_Isable
  /\ ~tsp.Stop_Flag
  /\ tsp.Test_Sched_State = "RUNNING"
  /\ out' = out \ CloseOutputs
  /\ tsp' = [ClosedFlags EXCEPT !.Alarm_Flags = @ \cup {a}, !.Pass_Flag = FALSE]
  /\ ledPass' = FALSE /\ ledFail' = TRUE
  /\ tripped' = IF tsp.Test_Step_State = "OUT" THEN tripped
                                               ELSE tripped \cup {tsp.p_Test_Param}
  /\ UNCHANGED <<prog, params, clock, left, stage, failCont, saved, failed, pc, home>>

\* Test_Sched_Clock_Sever: rt_mb_send fails, and the tick is lost, when full.
TimerFire ==
  /\ timer /\ ~clockMb /\ Interrupts
  /\ clockMb' = TRUE
  /\ UNCHANGED <<prog, tsp, params, loop, timer, severMb, out, left, stage,
                 failCont, leds, saved, history, pc, home>>

-----------------------------------------------------------------------------
(* The home thread: Test_Sched_Start                                       *)

HomeRuns == \/ pc = "idle" /\ ~severMb
            \/ pc = "loop" /\ ~clockMb

StartPress ==
  /\ home = "ready" /\ HomeRuns
  /\ ~tsp.Warning_Flag
  /\ tsp.Test_Sched_State = "RUNNING" => tsp.Pause_Flag
  /\ home' = "run"
  /\ UNCHANGED <<prog, tsp, params, clock, out, left, stage, failCont, leds,
                 saved, history, pc>>

\* One statement of Test_Sched_Start, which leaves t in Test_Sched_Param.
StartWrites(at, to, t) ==
  /\ home = at /\ HomeRuns
  /\ tsp' = t
  /\ home' = to
  /\ UNCHANGED <<prog, params, clock, out, left, stage, failCont, leds, saved,
                 history, pc>>

\* Defect: the test is not announced.
Running_not(t) == t
Running(t) == [t EXCEPT !.Test_Sched_State = "RUNNING"]

\* Defect: the flag of the arc alarm is forgotten.
Cleared_arc(a) == [tsp EXCEPT !.Alarm_Flags = @ \ ({a} \ {"arc"})]
Cleared(a) == [tsp EXCEPT !.Alarm_Flags = @ \ {a}]

StartRunning == StartWrites("run", "flags", Running(tsp))
StartPass    == StartWrites("flags", "stop", [tsp EXCEPT !.Pass_Flag = TRUE])
StartStop    == StartWrites("stop", "short", [tsp EXCEPT !.Stop_Flag = FALSE])
StartClear(a, to) == StartWrites(a, to, Cleared(a))

\* The arc enable is dropped, and a test resumed from a pause goes on.
StartResume ==
  StartWrites("resume", "go", [tsp EXCEPT !.arc_Isable = FALSE,
                               !.Continue_Flag = tsp.Pause_Flag, !.Pause_Flag = FALSE])

\* The flags of a new test, or of one resumed from a pause.  Stop_Flag is
\* withdrawn before the alarms it stood for: an alarm in between is lost.
StartFlags ==
  \/ StartPass \/ StartStop
  \/ StartClear("short", "gfi") \/ StartClear("gfi", "arc") \/ StartClear("arc", "resume")
  \/ StartResume

\* The send to test_sever_mb makes the scheduler thread ready: it preempts.
StartGo ==
  /\ home = "go" /\ HomeRuns
  /\ timer' = TRUE /\ loop' = TRUE /\ severMb' = TRUE
  /\ home' = "tail"
  /\ UNCHANGED <<prog, tsp, params, clockMb, out, left, stage, failCont, leds,
                 saved, history, pc>>

StartTail ==
  /\ home = "tail" /\ HomeRuns
  /\ ledPass' = FALSE
  /\ home' = "ready"
  /\ UNCHANGED <<prog, tsp, params, clock, out, left, stage, failCont, ledFail,
                 saved, history, pc>>

-----------------------------------------------------------------------------
(* The scheduler thread: Test_Sched_Sever and Test_Sched_Main              *)

Wake ==
  /\ pc = "idle" /\ severMb
  /\ severMb' = FALSE
  /\ Return
  /\ UNCHANGED <<prog, tsp, params, loop, timer, clockMb, out, left, stage,
                 failCont, leds, saved, history, home>>

Clock ==
  /\ pc = "loop" /\ clockMb
  /\ clockMb' = FALSE
  /\ pc' = "main"
  /\ UNCHANGED <<prog, tsp, params, loop, timer, severMb, out, left, stage,
                 failCont, leds, saved, history, home>>

\* Between steps (TEST_STEP_OUT) the chaining switches of the step just run
\* are read; inside a step Main goes straight to the mode routine.
\* Defect: the first step is left out.
Chained_late == stepNum > 2 /\ ~tsp.Continue_Flag /\ CurTrait.chained
Chained == stepNum > 1 /\ ~tsp.Continue_Flag /\ CurTrait.chained

Main ==
  /\ pc = "main"
  /\ \/ /\ tsp.Test_Step_State # "OUT"
        /\ pc' = "alarms"
        /\ UNCHANGED <<tsp, failCont>>
     \/ /\ tsp.Test_Step_State = "OUT"
        /\ tsp' = [tsp EXCEPT !.Pause_Flag = @ \/ (Chained /\ ~Cur.stepcontinuation)]
        /\ failCont' = (Chained /\ Cur.failstop)
        /\ pc' = "gate"
  /\ UNCHANGED <<prog, params, clock, out, left, stage, leds, saved, history, home>>

Gate ==
  /\ pc = "gate"
  /\ pc' = IF /\ tsp.Pause_Flag /\ ~tsp.Continue_Flag
              /\ stepNum <= Len(prog) /\ ~tsp.Stop_Flag
           THEN "pausing" ELSE "warn"
  /\ UNCHANGED <<prog, tsp, params, clock, out, left, stage, failCont, leds,
                 saved, history, home>>

Pausing ==
  /\ pc = "pausing"
  /\ timer' = FALSE /\ loop' = FALSE
  /\ tsp' = [tsp EXCEPT !.Stop_Flag = TRUE]
  /\ pc' = "idle"
  /\ UNCHANGED <<prog, params, clockMb, severMb, out, left, stage, failCont,
                 leds, saved, history, home>>

\* A failed step is forgiven when it said failstop ("Fail Con."), beginning
\* with Stop_Flag; without a warning a set Stop_Flag ends the test loop.  The
\* code reads Stop_Flag once for the timer and once for the loop: a stop between
\* the two sets the loop flag alone, and the verdict that follows stops the timer.
Warn ==
  /\ pc = "warn"
  /\ \/ /\ tsp.Warning_Flag /\ failCont
        /\ tsp' = [tsp EXCEPT !.Continue_Flag = FALSE, !.Stop_Flag = FALSE]
        /\ pc' = "forgive"
        /\ UNCHANGED <<timer, loop>>
     \/ /\ ~(tsp.Warning_Flag /\ failCont)
        /\ tsp' = [tsp EXCEPT !.Continue_Flag = FALSE]
        /\ LET ends == ~tsp.Warning_Flag /\ tsp.Stop_Flag
           IN timer' = (timer /\ ~ends) /\ loop' = (loop /\ ~ends)
        /\ pc' = "fetch"
  /\ UNCHANGED <<prog, params, clockMb, severMb, out, left, stage, failCont,
                 leds, saved, history, home>>

\* Warning_Flag, then the light, then the alarm flags one by one.
ForgiveWarning ==
  /\ pc = "forgive"
  /\ tsp' = [tsp EXCEPT !.Warning_Flag = FALSE]
  /\ ledFail' = FALSE
  /\ pc' = "short"
  /\ UNCHANGED <<prog, params, clock, out, left, stage, failCont, ledPass,
                 saved, history, home>>

ForgiveAlarm(a, to) ==
  /\ pc = a
  /\ tsp' = Cleared(a)
  /\ pc' = to
  /\ UNCHANGED <<prog, params, clock, out, left, stage, failCont, leds, saved,
                 history, home>>

\* An alarm that comes after Stop_Flag was withdrawn sets it again and loses
\* its flag here: the list ends without a warning or a record.
Forgive ==
  \/ ForgiveWarning
  \/ ForgiveAlarm("short", "arc") \/ ForgiveAlarm("arc", "gfi") \/ ForgiveAlarm("gfi", "fetch")

\* dyj_next_step: the cursor's successor; at the end of the list it wraps when
\* the last step says stepcontinuation and nothing failed.  NULL when the list
\* has ended or Stop_Flag is set.
\* Defects: the end of the list is passed by one; a new pass goes on from
\* where the last one ended.
NextIndex_past == IF stepNum = 1 THEN 1
                  ELSE IF g_cur_step \in 1..Len(prog) THEN g_cur_step + 1 ELSE 0
NextIndex_stale == IF g_cur_step \in 1..Len(prog) - 1 THEN g_cur_step + 1 ELSE 0
NextIndex ==
  IF stepNum = 1 THEN 1
  ELSE IF g_cur_step \in 1..Len(prog) - 1 THEN g_cur_step + 1 ELSE 0

Wraps == /\ NextIndex = 0 /\ g_cur_step # 0
         /\ prog[g_cur_step].stepcontinuation
         /\ tsp.Pass_Flag

Fetch ==
  /\ pc = "fetch"
  /\ g_cur_step' = IF Wraps THEN 1 ELSE NextIndex
  /\ \/ /\ g_cur_step' = 0 \/ tsp.Stop_Flag
        /\ stepNum' = 1
        /\ tsp' = [tsp EXCEPT !.p_Test_Param = 0]
        /\ pc' = "verdict"
        /\ UNCHANGED <<saved, history>>
     \/ /\ g_cur_step' # 0 /\ ~tsp.Stop_Flag
        /\ stepNum' = (IF Wraps THEN 1 ELSE stepNum) + 1
        /\ tsp' = [tsp EXCEPT !.p_Test_Param = g_cur_step']
        /\ saved' = [i \in 1..Len(prog) |->
                       IF stepNum' = 2 \/ i = g_cur_step' THEN "none" ELSE saved[i]]
        /\ failed' = (failed /\ stepNum' # 2)
        /\ tripped' = IF stepNum' = 2 THEN {} ELSE tripped
        /\ pc' = "alarms"
  /\ UNCHANGED <<prog, clock, out, left, stage, failCont, leds, home>>

\* p_Test_Param is NULL: the test is over, and Pass_Flag is the verdict.
Verdict ==
  /\ pc = "verdict"
  /\ pc' = IF tsp.Pass_Flag THEN "pass" ELSE "fail"
  /\ UNCHANGED <<prog, tsp, params, clock, out, left, stage, failCont, leds,
                 saved, history, home>>

\* Common end of both verdicts: scheduler stopped, timer off, loop left.
\* Defect: the scheduler state is left RUNNING.
Stopped_not(t) == t
Stopped(t) == [t EXCEPT !.Test_Sched_State = "STOP"]

Finish(t) ==
  /\ tsp' = Stopped(t)
  /\ timer' = FALSE /\ loop' = FALSE
  /\ pc' = "idle"
  /\ UNCHANGED <<prog, params, clockMb, severMb, left, stage, failCont, saved,
                 history, home>>

PassVerdict ==
  /\ pc = "pass"
  /\ ledPass' = TRUE /\ ledFail' = FALSE
  /\ out' = out \ {"AC", "DC", "GR"}
  /\ Finish([tsp EXCEPT !.Stop_Flag = TRUE])

FailVerdict ==
  /\ pc = "fail"
  /\ \/ /\ tsp.Stop_Flag
        /\ Finish(tsp)
        /\ UNCHANGED ledFail
     \/ /\ ~tsp.Stop_Flag
        /\ Finish([tsp EXCEPT !.Stop_Flag = TRUE, !.Warning_Flag = TRUE])
        /\ ledFail' = TRUE
  /\ UNCHANGED <<out, ledPass>>

-----------------------------------------------------------------------------
(* The mode routines: <mode>_Mode_Test, one call per tick                  *)

\* Save a verdict for the step under test.
\* Defect: only what went wrong is recorded.
Save_bad(v) == saved' = IF v = "PASS" THEN saved ELSE [saved EXCEPT ![tsp.p_Test_Param] = v]
Save(v) == saved' = [saved EXCEPT ![tsp.p_Test_Param] = v]

\* The switch over com.mode, and the alarm flags at the head of the routine:
\* an alarm ends the step here, without ...EnvironmentExit.
AlarmCheck ==
  /\ pc = "alarms"
  /\ LET seen == tsp.Alarm_Flags \cap CurTrait.alarms
     IN \/ /\ seen = {}
           /\ pc' = "stopchk"
           /\ UNCHANGED <<tsp, saved>>
        \/ /\ seen # {}
           /\ tsp' = [tsp EXCEPT !.Test_Step_State = "OUT",
                                 !.Stop_Flag = TRUE, !.Warning_Flag = TRUE]
           /\ Save(FirstAlarm(seen))
           /\ Return
  /\ UNCHANGED <<prog, params, clock, out, left, stage, failCont, leds, history, home>>

\* Stop_Flag sends the step to its STOP phase in the same call; outside a step
\* ...EnvironmentEnter runs first.
StopCheck ==
  /\ pc = "stopchk"
  /\ \/ /\ tsp.Stop_Flag
        /\ out' = out \ CurOutputs
        /\ tsp' = [tsp EXCEPT !.Test_Step_State = "STOP"]
        /\ pc' = "phase"
     \/ /\ ~tsp.Stop_Flag
        /\ pc' = IF tsp.Test_Step_State = "OUT" THEN "check" ELSE "phase"
        /\ UNCHANGED <<tsp, out>>
  /\ UNCHANGED <<prog, params, clock, left, stage, failCont, leds, saved, history, home>>

\* Enter has dealt with one output stage; after the first one it sets the arc
\* enable, after the last one the step is in WAIT.
StageDone ==
  LET last == stage = Len(CurTrait.stages)
  IN /\ tsp' = [tsp EXCEPT
                  !.arc_Isable = IF stage = 1 /\ CurTrait.setsArc THEN Cur.arc ELSE @,
                  !.Test_Step_State = IF last THEN "WAIT" ELSE @]
     /\ stage' = IF last THEN 1 ELSE stage + 1
     /\ left' = IF CurTrait.fixedWait = 0 THEN AtLeast1(Cur.waittime)
                                          ELSE CurTrait.fixedWait
     /\ pc' = IF last THEN "phase" ELSE "check"

EnterCheck ==
  /\ pc = "check"
  /\ \/ /\ ~tsp.Stop_Flag
        /\ pc' = "enable"
        /\ UNCHANGED <<tsp, stage, left>>
     \/ /\ tsp.Stop_Flag
        /\ StageDone
  /\ UNCHANGED <<prog, params, clock, out, failCont, leds, saved, history, home>>

EnterEnable ==
  /\ pc = "enable"
  /\ out' = out \cup CurTrait.stages[stage]
  /\ StageDone
  /\ UNCHANGED <<prog, params, clock, failCont, leds, saved, history, home>>

\* A range check that finds its value inside the limits, leaving outputs o.
InRange(o) ==
  /\ out' = o
  /\ UNCHANGED <<ledFail, saved, failed>>

\* A failing range check: Exit, FAIL saved; FailFlags is what it does to the
\* scheduler's flags.
OutOfRange(o) ==
  /\ "fail" \in Inputs
  /\ out' = o \ CurOutputs
  /\ ledFail' = TRUE
  /\ Save("FAIL")
  /\ failed' = TRUE

\* Defect: the warning is raised and the verdict left alone.
FailFlags_pass(t) == [t EXCEPT !.Test_Step_State = "OUT", !.Stop_Flag = TRUE,
                               !.Warning_Flag = TRUE]
FailFlags(t) == [t EXCEPT !.Pass_Flag = FALSE, !.Test_Step_State = "OUT",
                          !.Stop_Flag = TRUE, !.Warning_Flag = TRUE]

\* A tick that sets the flags to t and the outputs to o, then checks ranges.
Judged(t, o) == \/ InRange(o) /\ tsp' = t
                \/ OutOfRange(o) /\ tsp' = FailFlags(t)

Unjudged(t, o) == InRange(o) /\ tsp' = t

Goto(phase) == [tsp EXCEPT !.Test_Step_State = phase]

\* What every phase but STOP leaves alone.
PhaseFrame ==
  /\ pc = "phase"
  /\ Return
  /\ UNCHANGED <<prog, params, clock, stage, failCont, ledPass, tripped, home>>

PhaseWait ==
  /\ tsp.Test_Step_State = "WAIT"
  /\ \/ /\ left > 1
        /\ left' = left - 1
        /\ Unjudged(tsp, out)
     \/ /\ left = 1
        /\ \/ /\ CurTrait.rises /\ AtLeast1(Cur.ramptime) > 1
              /\ left' = Cur.ramptime
              /\ Unjudged(Goto("RISE"), out)
           \/ /\ ~CurTrait.rises \/ AtLeast1(Cur.ramptime) = 1
              /\ left' = Cur.testtime
              /\ Unjudged(Goto("TESTING"), out)
  /\ PhaseFrame

PhaseRise ==
  /\ tsp.Test_Step_State = "RISE"
  /\ \/ /\ left > 1
        /\ left' = left - 1
        /\ Judged(tsp, out)
     \/ /\ left = 1
        /\ left' = Cur.testtime
        /\ Judged(Goto("TESTING"), out)
  /\ PhaseFrame

\* The phase after the output has been on for its time.
AfterTest ==
  IF Cur.pausetime > 0 /\ (CurTrait.pauseLast \/ stepNum <= Len(prog))
  THEN "PAUSE" ELSE "STOP"

\* TESTING: test time 0 keeps the step in TESTING for ever; on the tick the
\* time runs out only the voltage is judged, and only by some modes.
PhaseTesting ==
  /\ tsp.Test_Step_State = "TESTING"
  /\ \/ /\ left # 1
        /\ left' = IF left = 0 THEN 0 ELSE left - 1
        /\ Judged(tsp, out)
     \/ /\ left = 1 /\ CurTrait.falls /\ AtLeast1(Cur.downtime) > 1
        /\ left' = Cur.downtime
        /\ Unjudged(Goto("DOWN"), out)
     \/ /\ left = 1 /\ ~(CurTrait.falls /\ AtLeast1(Cur.downtime) > 1)
        /\ left' = Cur.pausetime
        /\ LET o == out \ CurTrait.expiryOff
           IN IF CurTrait.voltCheck THEN Judged(Goto(AfterTest), o)
                                    ELSE Unjudged(Goto(AfterTest), o)
  /\ PhaseFrame

PhaseDown ==
  /\ tsp.Test_Step_State = "DOWN"
  /\ \/ /\ left > 1
        /\ left' = left - 1
        /\ Judged(tsp, out)
     \/ /\ left = 1
        /\ left' = Cur.pausetime
        /\ Judged(Goto(AfterTest), out \ CurTrait.expiryOff)
  /\ PhaseFrame

\* PAUSE judges first and counts afterwards: on its last tick STOP overwrites
\* the OUT a failing check has just set.
PhasePause ==
  /\ tsp.Test_Step_State = "PAUSE"
  /\ \/ /\ ~CurTrait.pauseCounts
        /\ left' = left
        /\ Unjudged(tsp, out)
     \/ /\ CurTrait.pauseCounts
        /\ left' = left - 1
        /\ LET ended(t) == IF left = 1 THEN [t EXCEPT !.Test_Step_State = "STOP"] ELSE t
           IN \/ InRange(out) /\ tsp' = ended(tsp)
              \/ OutOfRange(out) /\ tsp' = ended(FailFlags(tsp))
  /\ PhaseFrame

\* STOP: Exit, a PASS record whatever led here, and a nested Test_Sched_Main.
PhaseStop ==
  /\ pc = "phase"
  /\ tsp.Test_Step_State = "STOP"
  /\ out' = out \ CurOutputs
  /\ tsp' = Goto("OUT")
  /\ Save("PASS")
  /\ pc' = "main"
  /\ UNCHANGED <<prog, params, clock, left, stage, failCont, leds, history, home>>

-----------------------------------------------------------------------------
Phase == PhaseWait \/ PhaseRise \/ PhaseTesting \/ PhaseDown \/ PhasePause \/ PhaseStop

SchedStep ==
  \/ Wake \/ Clock \/ Main \/ Gate \/ Pausing \/ Warn \/ Forgive \/ Fetch
  \/ Verdict \/ PassVerdict \/ FailVerdict
  \/ AlarmCheck \/ StopCheck \/ EnterCheck \/ EnterEnable \/ Phase

HomeStep == StartRunning \/ StartFlags \/ StartGo \/ StartTail

Next ==
  \/ StopKey
  \/ \E a \in Alarms : Alarm(a)
  \/ TimerFire
  \/ StartPress
  \/ HomeStep
  \/ SchedStep

Spec == Init /\ [][Next]_vars

\* Both threads and the timer keep running; keys and alarms owe nothing.
Fairness == WF_vars(SchedStep) /\ WF_vars(HomeStep) /\ WF_vars(TimerFire)

FairSpec == Spec /\ Fairness

-----------------------------------------------------------------------------
(* Properties                                                              *)

\* Test_Sched_Main reads the switches of the step just run through
\* p_Test_Param when current_step_num > 1: then the pointer is not NULL, it is
\* the cursor, and the number displayed is the number of that step.
StepCursor ==
  stepNum > 1 => /\ tsp.p_Test_Param = stepNum - 1
                 /\ g_cur_step = stepNum - 1

\* When the scheduler thread has left its test loop, finished, stopped or
\* paused between steps, no output is energised.
IdleOutputsOff == pc = "idle" /\ ~loop => out = {}

\* A PASS verdict is given only when every step of the list has been executed
\* to a PASS record, and since the first of them no range check failed and no
\* alarm met a step in one of its phases.
VerdictSound ==
  pc = "pass" =>
    /\ ~failed /\ tripped = {}
    /\ \A i \in 1..Len(prog) : saved[i] = "PASS"

\* A step that was started is left for another one (or for the verdict) only
\* after a result was saved for it.
SavedBeforeNext ==
  [][tsp'.p_Test_Param # tsp.p_Test_Param /\ tsp.p_Test_Param # 0
       => saved[tsp.p_Test_Param] # "none"]_vars

\* Where Test_Sched_Start and Test_Sched_Main are still to clear an alarm flag
\* after the first thing they did for it: Pass_Flag set, or Stop_Flag cleared.
HomeClears(a) ==
  home \in {"stop", "short"} \cup (IF a = "short" THEN {} ELSE {"gfi"})
                             \cup (IF a = "arc" THEN {"arc"} ELSE {})
PcClears(a) ==
  pc \in {"forgive", "short"} \cup (IF a = "short" THEN {} ELSE {"arc"})
                              \cup (IF a = "gfi" THEN {"gfi"} ELSE {})

\* A pending alarm keeps the test stopped and its verdict from being PASS,
\* until Test_Sched_Start or a forgiving step is about to clear its flag: no
\* stop, start, forgiven step or further alarm, at whatever statement it hits
\* the others, leaves an alarm standing over a test that goes on.
AlarmHeldByStop ==
  \A a \in tsp.Alarm_Flags :
    (tsp.Stop_Flag /\ ~tsp.Pass_Flag) \/ HomeClears(a) \/ PcClears(a)

\* While an alarm that met a step in one of its phases is pending, the outputs
\* of that step are off and stay off, whatever the routine goes on to do.
TripStaysCut ==
  tsp.Alarm_Flags # {} /\ tsp.p_Test_Param \in tripped => out \cap CurOutputs = {}

\* A live output belongs to a test the scheduler calls running: only then do
\* the alarm interrupts do anything.
LiveIsRunning == out # {} /\ ~tsp.Stop_Flag => tsp.Test_Sched_State = "RUNNING"

\* Unless the stop key has reset the list to its head, a warning ends the list
\* only at a step that does not say failstop, the switch the step editor calls
\* "Fail Con.".
FailContinues ==
  [][pc = "fetch" /\ stepNum > 1 /\ tsp.Warning_Flag /\ tsp'.p_Test_Param = 0
       => tsp.p_Test_Param # 0 /\ ~Cur.failstop]_vars

\* A running test is always driven: the loop flag and its timer are set and
\* the thread is in the loop or about to enter it, or the test is paused and
\* the start key will resume it.
Paused == tsp.Pause_Flag /\ ~loop
RunIsDriven ==
  tsp.Test_Sched_State = "RUNNING" /\ home = "ready" /\ pc \in {"idle", "loop"}
    => (loop /\ timer /\ (pc = "loop" \/ severMb)) \/ Paused

\* Every test ends or pauses.
RunEnds ==
  tsp.Test_Sched_State = "RUNNING" ~> (tsp.Test_Sched_State # "RUNNING" \/ Paused)

\* An output that is on although Stop_Flag is set is switched off.
StopReleases == (tsp.Stop_Flag /\ out # {}) ~> (out = {} \/ ~tsp.Stop_Flag)
=============================================================================
