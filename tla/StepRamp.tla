------------------------------ MODULE StepRamp ------------------------------
(***************************************************************************)
(* One voltage step, tick by tick: what TestSched calls a phase, with the  *)
(* voltage that is put out, the numbers it is computed from and the        *)
(* readings it is judged by (Test_Main/ACW_Routine.c, DCW_Routine.c).      *)
(*                                                                         *)
(* The two routines are one state machine with four differences: at the    *)
(* end of the ramp only ACW stores the final voltage in                    *)
(* Voltage_Process_Value, ACW fails at its high limit and DCW above it,    *)
(* DCW judges twice per PAUSE tick, and ACW alone knows a real current,    *)
(* computed when a current is shown.                                       *)
(*                                                                         *)
(* Ticks are atomic here and the stop key falls between two of them: the   *)
(* interleavings inside a tick, the alarms and what follows a step are in  *)
(* TestSched.  Currents are in units of the chosen gear; the screen, the   *)
(* relays and the references of the comparators are left out.              *)
(***************************************************************************)
EXTENDS Integers, Sequences

CONSTANTS Steps,       \* the steps that may be run
          Currents,    \* the readings of the current
          DAC_TOP,     \* the greatest voltage whose DAC value is below 4096
          COUNT_MAX    \* 10000 in the code: where the shown test time restarts

StepFields ==
  {"startvol", "outvol", "waittime", "ramptime", "testtime", "downtime",
   "pausetime", "high", "low", "rmscur", "offset"}

\* offset is 0 unless offset_en is set; a DCW step has no real current.
ASSUME StepsAssumption ==
  /\ \A s \in Steps : /\ s.mode \in {"ACW", "DCW"}
                      /\ \A f \in StepFields : s[f] \in Nat
                      /\ s.startvol <= DAC_TOP /\ s.outvol \in 1..DAC_TOP
  /\ Currents \subseteq Nat
  /\ COUNT_MAX \in Nat \ {0}
  /\ DAC_TOP \in 1..65535

VARIABLES
  step,      \* the parameters the routine copied on entry
  phase,     \* Test_Step_State
  p,         \* ACW_Test_Param, DCW_Test_Param
  volt,      \* the voltage W_VREF asks for; 0 with the output off
  stop,      \* Stop_Flag
  saved,     \* what result_save was called with since the step was entered
  judged     \* the test time at which a limit was last compared

vars == <<step, phase, p, volt, stop, saved, judged>>

Phases   == {"OUT", "WAIT", "RISE", "TESTING", "DOWN", "PAUSE", "STOP"}
Verdicts == {"PASS", "HIGH", "LOW", "VOL_ABNORMAL"}
U16      == 65536

AtLeast1(n) == IF n = 0 THEN 1 ELSE n

\* "/" of C rounds towards zero.
Quotient(a, b) == IF a < 0 THEN -((-a) \div b) ELSE a \div b

-----------------------------------------------------------------------------
(* ...ModeTestEnvironmentEnter                                               *)

\* An interval is a uint32_t that is added to a uint16_t: only its value
\* modulo 2^16 matters.
\* Defect: the ramp is computed as if it began at 0.
RiseInterval_zero(s) == (s.outvol \div AtLeast1(s.ramptime)) % U16
RiseInterval(s) == Quotient(s.outvol - s.startvol, AtLeast1(s.ramptime)) % U16

Entered(s) ==
  [Wait_Time     |-> AtLeast1(s.waittime),
   Rise_Number   |-> AtLeast1(s.ramptime),
   Down_Number   |-> AtLeast1(s.downtime),
   Test_Time     |-> s.testtime,
   Pause_Time    |-> s.pausetime,
   Process_Value |-> s.startvol,
   Rise_Interval |-> RiseInterval(s),
   Down_Interval |-> s.outvol \div AtLeast1(s.downtime),
   Testing_Count |-> 0,
   current       |-> 0,
   real          |-> 0]

\* AC_SetVoltage, DC_SetVoltage over DAC_SetValue: a value that does not fit
\* the converter is dropped, and the output stays as it is.
\* Defect: the converter takes whatever it is given.
SetVoltage_any(v) == v
SetVoltage(v) == IF v <= DAC_TOP THEN v ELSE volt

\* Offset_Is_Flag: the reading less the offset of the step, at least 0.
Corrected(c) == IF c > step.offset THEN c - step.offset ELSE 0

\* Read_Real_Current: the reading times a cosine, when the step asks for it.
RealOf(c) == IF step.rmscur > 0 THEN 0..c ELSE {p.real}

-----------------------------------------------------------------------------
(* ..._Range_Check: what is saved, nothing when the limit is kept            *)
Exceeds(c, real) ==
  \/ step.mode = "ACW" /\ c >= step.high
  \/ step.mode = "ACW" /\ step.rmscur > 0 /\ real >= step.rmscur
  \/ step.mode = "DCW" /\ c > step.high
Upper(c, real) == IF Exceeds(c, real) THEN <<"HIGH">> ELSE <<>>
Lower(c)       == IF step.low > 0 /\ c < step.low THEN <<"LOW">> ELSE <<>>
VolError(v)    == IF v < step.outvol \div 2 THEN <<"VOL_ABNORMAL">> ELSE <<>>

\* A failed check switches the output off and leaves the step.
\* Defect: it leaves the step without ...EnvironmentExit.
Judge_hot(fails, next, v) ==
  /\ saved' = saved \o fails
  /\ stop'  = (stop \/ fails # <<>>)
  /\ phase' = IF fails = <<>> THEN next ELSE "OUT"
  /\ volt'  = v
Judge(fails, next, v) ==
  /\ saved' = saved \o fails
  /\ stop'  = (stop \/ fails # <<>>)
  /\ phase' = IF fails = <<>> THEN next ELSE "OUT"
  /\ volt'  = IF fails = <<>> THEN v ELSE 0

-----------------------------------------------------------------------------
\* Defect: a step without a ramp begins its test at the start voltage.
WaitTick_start(q, s) ==
  /\ phase' = IF q.Wait_Time > 1 THEN "WAIT" ELSE IF q.Rise_Number = 1 THEN "TESTING" ELSE "RISE"
  /\ p' = [q EXCEPT !.Wait_Time = @ - 1]
  /\ volt' = IF q.Wait_Time > 1 THEN volt ELSE SetVoltage(s.startvol)
\* Defect: the wait is tested but not counted down.
WaitTick_hold(q, s) ==
  /\ phase' = IF q.Wait_Time > 1 THEN "WAIT" ELSE IF q.Rise_Number = 1 THEN "TESTING" ELSE "RISE"
  /\ p' = q
  /\ volt' = IF q.Wait_Time > 1 THEN volt
             ELSE SetVoltage(IF q.Rise_Number = 1 THEN s.outvol ELSE s.startvol)
\* TEST_STEP_TEST_WAIT; without a ramp the test begins at its full voltage.
WaitTick(q, s) ==
  \/ /\ q.Wait_Time > 1
     /\ phase' = "WAIT"
     /\ p' = [q EXCEPT !.Wait_Time = @ - 1]
     /\ volt' = volt
  \/ /\ q.Wait_Time = 1 /\ q.Rise_Number = 1
     /\ phase' = "TESTING"
     /\ p' = [q EXCEPT !.Wait_Time = 0, !.Process_Value = s.outvol]
     /\ volt' = SetVoltage(s.outvol)
  \/ /\ q.Wait_Time = 1 /\ q.Rise_Number > 1
     /\ phase' = "RISE"
     /\ p' = [q EXCEPT !.Wait_Time = 0]
     /\ volt' = SetVoltage(s.startvol)

\* The scheduler starts a step with Stop_Flag clear; Enter and the first tick
\* of WAIT are one call.
Enter(s) ==
  /\ phase = "OUT"
  /\ step' = s
  /\ WaitTick(Entered(s), s)
  /\ stop' = FALSE
  /\ saved' = <<>>
  /\ judged' = [high |-> 0, low |-> 0]

Wait ==
  /\ phase = "WAIT" /\ ~stop
  /\ WaitTick(p, step)
  /\ UNCHANGED <<step, stop, saved, judged>>

\* TEST_STEP_VOL_RISE: ACW judges before the current is shown, DCW after.
Rise(c) ==
  LET last == p.Rise_Number = 1
      up   == (p.Process_Value + p.Rise_Interval) % U16
      x    == Corrected(c)
  IN /\ phase = "RISE" /\ ~stop
     /\ \E r \in RealOf(x) :
          p' = [p EXCEPT !.Rise_Number   = @ - 1,
                         !.Process_Value = IF ~last THEN up
                                           ELSE IF step.mode = "ACW" THEN step.outvol ELSE @,
                         !.current = x, !.real = r]
     /\ Judge(Upper(x, p.real), IF last THEN "TESTING" ELSE "RISE",
              SetVoltage(IF last THEN step.outvol ELSE up))
     /\ UNCHANGED <<step, judged>>

-----------------------------------------------------------------------------
\* TEST_STEP_TESTING with time left, or with no end (testtime 0): the real
\* current is shown every other tick, the low limit counts from the fifth.
\* Defect: the low limit counts from the sixth tick.
LowDue_late(n) == n > 5
LowDue(n) == n > 4
Expires == step.testtime > 0 /\ p.Test_Time = 1
Testing(c) ==
  LET endless == step.testtime = 0
      n == (IF endless /\ p.Testing_Count >= COUNT_MAX THEN 0 ELSE p.Testing_Count) + 1
      x == Corrected(c)
  IN /\ phase = "TESTING" /\ ~stop /\ ~Expires
     /\ \E r \in (IF n % 2 = 0 THEN RealOf(x) ELSE {p.real}) :
          /\ p' = [p EXCEPT !.Test_Time = IF endless THEN @ ELSE @ - 1,
                            !.Testing_Count = n, !.current = x, !.real = r]
          /\ Judge(Upper(x, r) \o (IF LowDue(n) THEN Lower(x) ELSE <<>>), "TESTING", volt)
     /\ judged' = [high |-> n, low |-> IF LowDue(n) THEN n ELSE judged.low]
     /\ UNCHANGED step

\* The phase after the output: ACW and DCW pause after every step.
AfterTest == IF p.Pause_Time > 0 THEN "PAUSE" ELSE "STOP"

\* The tick on which the time runs out judges no current, and keeps its
\* reading as it was measured; without a fall the voltage v is judged.
Expire(c, v) ==
  LET falls == p.Down_Number > 1
  IN /\ phase = "TESTING" /\ ~stop /\ Expires
     /\ p' = [p EXCEPT !.Test_Time = 0, !.Testing_Count = @ + 1, !.current = c]
     /\ \/ falls  /\ Judge(<<>>, "DOWN", volt)
        \/ ~falls /\ Judge(VolError(v), AfterTest, 0)
     /\ UNCHANGED <<step, judged>>

\* TEST_STEP_VOL_DOWN; its last tick shows a current of 0 after judging.  In
\* the state STOP no current is shown, and the real one stays as it was.
Down(c) ==
  LET last == p.Down_Number = 1
      down == (p.Process_Value - p.Down_Interval) % U16
      x    == Corrected(c)
  IN /\ phase = "DOWN" /\ ~stop
     /\ \E r \in (IF last /\ AfterTest = "STOP" THEN {p.real} ELSE RealOf(x)) :
          /\ Judge(Upper(x, r), IF last THEN AfterTest ELSE "DOWN",
                   IF last THEN 0 ELSE SetVoltage(down))
          /\ p' = [p EXCEPT !.Down_Number = @ - 1,
                            !.Process_Value = IF last THEN @ ELSE down,
                            !.current = x,
                            !.real = IF phase' \in {"PAUSE", "OUT"} /\ step.rmscur > 0
                                      THEN 0 ELSE r]
     /\ UNCHANGED <<step, judged>>

\* TEST_STEP_PAUSE judges the reading it finds, DCW twice; on the last tick
\* STOP overwrites the OUT of a failed check.
Pause ==
  LET once  == Upper(p.current, p.real)
      fails == IF step.mode = "DCW" THEN once \o once ELSE once
  IN /\ phase = "PAUSE" /\ ~stop
     /\ p' = [p EXCEPT !.Pause_Time = @ - 1]
     /\ saved' = saved \o fails
     /\ stop'  = (fails # <<>>)
     /\ phase' = IF p.Pause_Time = 1 THEN "STOP" ELSE IF fails # <<>> THEN "OUT" ELSE "PAUSE"
     /\ volt'  = IF fails = <<>> THEN volt ELSE 0
     /\ UNCHANGED <<step, judged>>

\* TEST_STEP_STOP, reached by itself or because of Stop_Flag: Exit and PASS.
Stop ==
  /\ phase = "STOP" \/ (stop /\ phase # "OUT")
  /\ phase' = "OUT"
  /\ volt' = 0
  /\ saved' = Append(saved, "PASS")
  /\ UNCHANGED <<step, p, stop, judged>>

\* Test_Sched_Close, called by the interrupt of the stop key.
StopKey ==
  /\ phase # "OUT" /\ ~stop
  /\ stop' = TRUE
  /\ volt' = 0
  /\ UNCHANGED <<step, phase, p, saved, judged>>

-----------------------------------------------------------------------------
Tick ==
  \/ Wait \/ Pause \/ Stop
  \/ \E c \in Currents : Rise(c) \/ Testing(c) \/ Down(c)
  \/ \E c \in Currents, v \in {0, volt} : Expire(c, v)

Init ==
  /\ step \in Steps
  /\ phase = "OUT"
  /\ p = Entered(step)
  /\ volt = 0
  /\ stop = TRUE
  /\ saved = <<>>
  /\ judged = [high |-> 0, low |-> 0]

Next == Tick \/ StopKey \/ \E s \in Steps : Enter(s)

Spec == Init /\ [][Next]_vars

\* The tick timer and the scheduler thread keep running; keys owe nothing.
FairSpec == Spec /\ WF_vars(Tick)

-----------------------------------------------------------------------------
(* Properties                                                              *)

\* The numbers keep the range of their C types, and the output the range of
\* its converter.
ParamType ==
  [Wait_Time : Nat, Rise_Number : Nat, Down_Number : Nat, Test_Time : Nat, Pause_Time : Nat,
   Process_Value : 0..U16 - 1, Rise_Interval : 0..U16 - 1, Down_Interval : Nat,
   Testing_Count : Nat, current : Nat, real : Nat]
TypeOK ==
  /\ step \in Steps /\ phase \in Phases /\ p \in ParamType
  /\ volt \in 0..DAC_TOP /\ stop \in BOOLEAN
  /\ saved \in Seq(Verdicts)
  /\ judged \in [high : Nat, low : Nat]

\* Whether the voltage was ramped up, ramped down or switched on, the test
\* proper is made at the voltage of the step and at no other.
AtTestVoltage == phase = "TESTING" /\ ~stop => volt = step.outvol

\* Between two steps, before a step has waited and after its output time,
\* nothing is put out.
ColdOutside == phase \in {"OUT", "WAIT", "PAUSE", "STOP"} => volt = 0

\* The ramp goes from the start voltage straight to the test voltage: a tick
\* moves the output towards it and never past it, in either direction.
RampsTowards ==
  [][phase = "RISE" /\ phase' \in {"RISE", "TESTING"} /\ ~stop'
       => \/ volt <= volt' /\ volt' <= step.outvol
          \/ volt >= volt' /\ volt' >= step.outvol]_vars

\* The fall takes the output down. For DCW it starts from where the ramp was
\* a tick before its end, which is below the test voltage only if the start
\* voltage was.
Falls ==
  [][phase = "DOWN" /\ (step.mode = "ACW" \/ step.startvol <= step.outvol)
       => volt' <= volt]_vars

\* A step that passes has been judged against its high limit up to the last
\* tick but one of its test time, and against its low limit if the test time
\* is 0.6 s or more; with less the low limit is never compared.
PassIsJudged ==
  saved = <<"PASS">> /\ ~stop =>
    /\ judged.high = step.testtime - 1
    /\ step.testtime > 5 => judged.low = step.testtime - 1

\* A step with a test time ends by itself, and a stopped one ends.
StepEnds == (phase # "OUT" /\ (step.testtime > 0 \/ stop)) ~> phase = "OUT"
=============================================================================
