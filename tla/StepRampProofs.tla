--------------------------- MODULE StepRampProofs ---------------------------
(***************************************************************************)
(* What holds of StepRamp for every set of steps, readings and converter.  *)
(***************************************************************************)
EXTENDS StepRamp, TLAPS

\* The counter a phase counts down has not run out while the phase lasts.
Counting ==
  /\ phase = "WAIT" => p.Wait_Time >= 1 /\ p.Rise_Number >= 1
  /\ phase = "RISE" => p.Rise_Number >= 1
  /\ phase = "TESTING" /\ step.testtime > 0 => p.Test_Time >= 1
  /\ phase = "DOWN" => p.Down_Number >= 1
  /\ phase = "PAUSE" => p.Pause_Time >= 1

\* RISE is entered to a test time, so that time is still whole in it.
Unspent == phase \in {"WAIT", "RISE"} => p.Test_Time = step.testtime

IInv == TypeOK /\ Counting /\ Unspent /\ ColdOutside /\ AtTestVoltage

\* A step of Steps is a record of numbers whose voltages fit the converter.
LEMMA StepNumbers ==
  ASSUME NEW s \in Steps
  PROVE  /\ s.mode \in {"ACW", "DCW"}
         /\ s.startvol \in Nat /\ s.outvol \in Nat /\ s.waittime \in Nat
         /\ s.ramptime \in Nat /\ s.testtime \in Nat /\ s.downtime \in Nat
         /\ s.pausetime \in Nat /\ s.high \in Nat /\ s.low \in Nat
         /\ s.rmscur \in Nat /\ s.offset \in Nat
         /\ s.startvol <= DAC_TOP /\ s.outvol \in 1..DAC_TOP
         /\ DAC_TOP \in Nat /\ DAC_TOP <= 65535
<1>1. \A f \in StepFields : s[f] \in Nat
  BY StepsAssumption
<1>2. QED
  BY <1>1, StepsAssumption DEF StepFields

\* Division and remainder keep the types they have in the code.
LEMMA Remainder ==
  ASSUME NEW a \in Int
  PROVE  a % U16 \in 0..U16 - 1
BY DEF U16

LEMMA Unsigned ==
  ASSUME NEW a \in Nat, NEW b \in Nat \ {0}
  PROVE  a \div b \in Nat
OBVIOUS

LEMMA Signed ==
  ASSUME NEW a \in Int, NEW b \in Nat \ {0}
  PROVE  Quotient(a, b) \in Int
<1>1. CASE a < 0
  <2>1. (-a) \div b \in Int
    BY <1>1
  <2>2. QED
    BY <1>1, <2>1 DEF Quotient
<1>2. CASE ~(a < 0)
  BY <1>2 DEF Quotient
<1>3. QED
  BY <1>1, <1>2

\* What a step is entered with.
LEMMA EnteredType ==
  ASSUME NEW s \in Steps
  PROVE  /\ Entered(s) \in ParamType
         /\ Entered(s).Wait_Time >= 1 /\ Entered(s).Rise_Number >= 1
         /\ Entered(s).Down_Number >= 1
         /\ Entered(s).Test_Time = s.testtime
<1>1. /\ AtLeast1(s.waittime) \in Nat \ {0}
      /\ AtLeast1(s.ramptime) \in Nat \ {0}
      /\ AtLeast1(s.downtime) \in Nat \ {0}
  BY StepNumbers DEF AtLeast1
<1>2. s.outvol \div AtLeast1(s.downtime) \in Nat
  <2>1. s.outvol \in Nat
    BY StepNumbers
  <2>2. QED
    BY <1>1, <2>1, Unsigned
<1>3. Quotient(s.outvol - s.startvol, AtLeast1(s.ramptime)) \in Int
  <2>1. s.outvol - s.startvol \in Int
    BY StepNumbers
  <2>2. QED
    BY <1>1, <2>1, Signed
<1>4. RiseInterval(s) \in 0..U16 - 1
  BY <1>3, Remainder DEF RiseInterval
<1>5. s.startvol \in 0..U16 - 1
  <2>1. s.startvol \in Nat /\ s.startvol <= DAC_TOP /\ DAC_TOP \in Nat /\ DAC_TOP <= 65535
    BY StepNumbers
  <2>2. U16 - 1 = 65535
    BY DEF U16
  <2>3. s.startvol <= 65535
    BY <2>1
  <2>4. QED
    BY <2>1, <2>2, <2>3
<1>6. s.testtime \in Nat /\ s.pausetime \in Nat
  BY StepNumbers
<1>7. QED
  BY <1>1, <1>2, <1>4, <1>5, <1>6 DEF Entered, ParamType

\* The converter takes a test voltage, and keeps the output in its range.
LEMMA Converter ==
  ASSUME volt \in 0..DAC_TOP
  PROVE  /\ \A v \in Nat : SetVoltage(v) \in 0..DAC_TOP
         /\ \A s \in Steps : SetVoltage(s.outvol) = s.outvol
<1>1. DAC_TOP \in Nat
  BY StepsAssumption
<1>2. ASSUME NEW s \in Steps
      PROVE  SetVoltage(s.outvol) = s.outvol
  <2>1. s.outvol <= DAC_TOP
    BY StepNumbers
  <2>2. QED
    BY <2>1 DEF SetVoltage
<1>3. QED
  BY <1>1, <1>2 DEF SetVoltage

\* What a check saves, and that taking an offset off leaves a number.
LEMMA Checks ==
  ASSUME step \in Steps, p \in ParamType, saved \in Seq(Verdicts), NEW c \in Nat
  PROVE  /\ Corrected(c) \in Nat
         /\ \A x \in Nat : RealOf(x) \subseteq Nat
         /\ \A x, r : saved \o Upper(x, r) \in Seq(Verdicts)
         /\ \A x, r : saved \o (Upper(x, r) \o Upper(x, r)) \in Seq(Verdicts)
         /\ \A x, r : saved \o (Upper(x, r) \o Lower(x)) \in Seq(Verdicts)
         /\ \A x, r : saved \o (Upper(x, r) \o <<>>) \in Seq(Verdicts)
         /\ \A v : saved \o VolError(v) \in Seq(Verdicts)
<1>1. Corrected(c) \in Nat
  <2>1. step.offset \in Nat
    BY StepNumbers
  <2>2. QED
    BY <2>1 DEF Corrected
<1>2. \A x \in Nat : RealOf(x) \subseteq Nat
  BY DEF RealOf, ParamType
<1>3. /\ <<>> \in Seq(Verdicts) /\ <<"HIGH">> \in Seq(Verdicts)
      /\ <<"LOW">> \in Seq(Verdicts) /\ <<"VOL_ABNORMAL">> \in Seq(Verdicts)
  BY DEF Verdicts
<1>4. \A x, r : Upper(x, r) \in Seq(Verdicts)
  BY <1>3, Zenon DEF Upper
<1>5. \A x : Lower(x) \in Seq(Verdicts)
  BY <1>3, Zenon DEF Lower
<1>6. \A v : VolError(v) \in Seq(Verdicts)
  BY <1>3, Zenon DEF VolError
<1>7. \A a, b \in Seq(Verdicts) : a \o b \in Seq(Verdicts)
  OBVIOUS
<1>8. QED
  BY <1>1, <1>2, <1>4, <1>5, <1>6, <1>3, <1>7

\* A tick of WAIT keeps the output off until it sets the first voltage.
LEMMA WaitStep ==
  ASSUME NEW s \in Steps, NEW q \in ParamType, volt \in 0..DAC_TOP,
         q.Wait_Time >= 1, q.Rise_Number >= 1, WaitTick(q, s)
  PROVE  /\ p' \in ParamType /\ p'.Test_Time = q.Test_Time
         /\ volt' \in 0..DAC_TOP
         /\ \/ phase' = "WAIT" /\ volt' = volt /\ p'.Wait_Time >= 1 /\ p'.Rise_Number >= 1
            \/ phase' = "RISE" /\ p'.Rise_Number >= 1
            \/ phase' = "TESTING" /\ volt' = s.outvol
<1>1. s.outvol \in Nat /\ s.startvol \in Nat /\ s.outvol \in 0..U16 - 1
  <2>1. /\ s.outvol \in Nat /\ s.startvol \in Nat
        /\ s.outvol <= DAC_TOP /\ DAC_TOP \in Nat /\ DAC_TOP <= 65535
    BY StepNumbers
  <2>2. U16 - 1 = 65535
    BY DEF U16
  <2>3. s.outvol <= 65535
    BY <2>1
  <2>4. QED
    BY <2>1, <2>2, <2>3
<1>2. SetVoltage(s.startvol) \in 0..DAC_TOP /\ SetVoltage(s.outvol) = s.outvol
      /\ s.outvol \in 0..DAC_TOP
  BY <1>1, Converter
<1>3. CASE q.Wait_Time > 1 /\ phase' = "WAIT" /\ p' = [q EXCEPT !.Wait_Time = @ - 1]
             /\ volt' = volt
  BY <1>3 DEF ParamType
<1>4. CASE q.Wait_Time = 1 /\ q.Rise_Number = 1 /\ phase' = "TESTING"
             /\ p' = [q EXCEPT !.Wait_Time = 0, !.Process_Value = s.outvol]
             /\ volt' = SetVoltage(s.outvol)
  BY <1>1, <1>2, <1>4 DEF ParamType
<1>5. CASE q.Wait_Time = 1 /\ q.Rise_Number > 1 /\ phase' = "RISE"
             /\ p' = [q EXCEPT !.Wait_Time = 0] /\ volt' = SetVoltage(s.startvol)
  BY <1>1, <1>2, <1>5 DEF ParamType
<1>6. QED
  BY <1>3, <1>4, <1>5 DEF WaitTick

\* Before the first step.
LEMMA InitIInv == Init => IInv
<1>1. ASSUME Init
      PROVE  IInv
  <2>1. p \in ParamType
    BY <1>1, EnteredType DEF Init
  <2>2. DAC_TOP \in Nat
    BY StepsAssumption
  <2>3. saved \in Seq(Verdicts)
    BY <1>1 DEF Init
  <2>4. QED
    BY <1>1, <2>1, <2>2, <2>3
       DEF Init, IInv, TypeOK, Phases, Counting, Unspent, ColdOutside, AtTestVoltage
<1>2. QED
  BY <1>1

\* Enter and Wait: the voltage of the test is reached at once or by a ramp.
LEMMA EnterInv ==
  ASSUME IInv, NEW s \in Steps, Enter(s)
  PROVE  IInv'
<1>1. volt = 0 /\ volt \in 0..DAC_TOP
  BY DEF IInv, TypeOK, ColdOutside, Enter
<1>2. /\ Entered(s) \in ParamType /\ Entered(s).Wait_Time >= 1
      /\ Entered(s).Rise_Number >= 1 /\ Entered(s).Test_Time = s.testtime
  BY EnteredType
<1>3. WaitTick(Entered(s), s) /\ step' = s
  BY DEF Enter
<1>4. /\ p' \in ParamType /\ p'.Test_Time = Entered(s).Test_Time
      /\ volt' \in 0..DAC_TOP
      /\ \/ phase' = "WAIT" /\ volt' = volt /\ p'.Wait_Time >= 1 /\ p'.Rise_Number >= 1
         \/ phase' = "RISE" /\ p'.Rise_Number >= 1
         \/ phase' = "TESTING" /\ volt' = s.outvol
  BY <1>1, <1>2, <1>3, WaitStep
<1>5. s.testtime \in Nat
  BY StepNumbers
<1>6. TypeOK'
  <2>1. /\ stop' \in BOOLEAN
        /\ judged' \in [high : Nat, low : Nat]
    BY DEF Enter
  <2>2. saved' \in Seq(Verdicts)
    BY DEF Enter
  <2>3. QED
    BY <1>3, <1>4, <2>1, <2>2 DEF TypeOK, Phases
<1>7. QED
  BY <1>1, <1>2, <1>3, <1>4, <1>5, <1>6
     DEF IInv, Counting, Unspent, ColdOutside, AtTestVoltage

\* The ticks of WAIT after the first.
LEMMA WaitInv ==
  ASSUME IInv, Wait
  PROVE  IInv'
<1>1. /\ p \in ParamType /\ step \in Steps /\ volt \in 0..DAC_TOP /\ volt = 0
      /\ p.Wait_Time >= 1 /\ p.Test_Time = step.testtime /\ phase = "WAIT"
  BY DEF IInv, TypeOK, Counting, Unspent, ColdOutside, Wait
<1>2. WaitTick(p, step) /\ UNCHANGED <<step, stop, saved, judged>>
  BY DEF Wait
<1>3. p.Rise_Number >= 1
  BY <1>1 DEF IInv, Counting
<1>4. /\ p' \in ParamType /\ p'.Test_Time = p.Test_Time
      /\ volt' \in 0..DAC_TOP
      /\ \/ phase' = "WAIT" /\ volt' = volt /\ p'.Wait_Time >= 1 /\ p'.Rise_Number >= 1
         \/ phase' = "RISE" /\ p'.Rise_Number >= 1
         \/ phase' = "TESTING" /\ volt' = step.outvol
  BY <1>1, <1>2, <1>3, WaitStep
<1>5. step.testtime \in Nat
  BY <1>1, StepNumbers
<1>6. TypeOK'
  BY <1>2, <1>4 DEF IInv, TypeOK, Phases
<1>7. QED
  BY <1>1, <1>2, <1>4, <1>5, <1>6
     DEF IInv, Counting, Unspent, ColdOutside, AtTestVoltage

\* The ramp ends at the voltage of the test.
LEMMA RiseInv ==
  ASSUME IInv, NEW c \in Currents, Rise(c)
  PROVE  IInv'
<1> DEFINE last == p.Rise_Number = 1
           up   == (p.Process_Value + p.Rise_Interval) % U16
           x    == Corrected(c)
           v    == SetVoltage(IF last THEN step.outvol ELSE up)
<1>1. /\ p \in ParamType /\ step \in Steps /\ volt \in 0..DAC_TOP /\ saved \in Seq(Verdicts)
      /\ stop \in BOOLEAN /\ p.Rise_Number >= 1 /\ p.Test_Time = step.testtime
      /\ judged \in [high : Nat, low : Nat] /\ phase = "RISE" /\ DAC_TOP \in Nat
  <2>1. phase = "RISE"
    BY DEF Rise
  <2>2. DAC_TOP \in Nat
    BY StepsAssumption
  <2>3. QED
    BY <2>1, <2>2 DEF IInv, TypeOK, Counting, Unspent
<1>2. c \in Nat /\ step.testtime \in Nat /\ step.outvol \in Nat
  <2>1. c \in Nat
    BY StepsAssumption
  <2>2. step.testtime \in Nat /\ step.outvol \in Nat
    BY <1>1, StepNumbers
  <2>3. QED
    BY <2>1, <2>2
<1>3. x \in Nat /\ RealOf(x) \subseteq Nat /\ saved \o Upper(x, p.real) \in Seq(Verdicts)
  BY <1>1, <1>2, Checks
<1>4. step.outvol \in 0..U16 - 1 /\ up \in 0..U16 - 1
  <2>1. step.outvol <= 65535
    BY <1>1, StepNumbers
  <2>2. U16 - 1 = 65535
    BY DEF U16
  <2>3. p.Process_Value + p.Rise_Interval \in Int
    BY <1>1 DEF ParamType
  <2>4. step.outvol \in 0..U16 - 1
    BY <1>2, <2>1, <2>2
  <2>5. up \in 0..U16 - 1
    BY <2>3, Remainder
  <2>6. QED
    BY <2>4, <2>5
<1>5. /\ v \in 0..DAC_TOP
      /\ last => v = step.outvol
  <2>1. up \in Nat
    <3>1. U16 - 1 = 65535
      BY DEF U16
    <3>2. QED
      BY <1>4, <3>1
  <2>2. QED
    BY <1>1, <1>2, <2>1, Converter
<1>6. PICK r \in RealOf(x) :
        p' = [p EXCEPT !.Rise_Number   = @ - 1,
                       !.Process_Value = IF ~last THEN up
                                         ELSE IF step.mode = "ACW" THEN step.outvol ELSE @,
                       !.current = x, !.real = r]
  BY DEF Rise
<1>7. /\ p' \in ParamType /\ p'.Test_Time = p.Test_Time
      /\ p'.Rise_Number = p.Rise_Number - 1
  <2> DEFINE pv == IF ~last THEN up
                   ELSE IF step.mode = "ACW" THEN step.outvol ELSE p.Process_Value
  <2>1. pv \in 0..U16 - 1
    BY <1>1, <1>4 DEF ParamType
  <2>2. p' = [p EXCEPT !.Rise_Number = p.Rise_Number - 1, !.Process_Value = pv,
                       !.current = x, !.real = r]
    BY <1>6
  <2>3. r \in Nat /\ p.Rise_Number - 1 \in Nat
    BY <1>1, <1>3 DEF ParamType
  <2> HIDE DEF pv, last, up, x
  <2>4. QED
    BY <1>1, <1>3, <2>1, <2>2, <2>3 DEF ParamType
<1>8. /\ Judge(Upper(x, p.real), IF last THEN "TESTING" ELSE "RISE", v)
      /\ UNCHANGED <<step, judged>>
  BY DEF Rise
<1>9. /\ saved' \in Seq(Verdicts) /\ stop' \in BOOLEAN
      /\ \/ phase' = "OUT" /\ volt' = 0
         \/ phase' = (IF last THEN "TESTING" ELSE "RISE") /\ volt' = v
  BY <1>1, <1>3, <1>8 DEF Judge
<1>10. p'.Rise_Number >= 1 \/ last
  <2>1. p.Rise_Number \in Nat
    BY <1>1 DEF ParamType
  <2>2. QED
    BY <1>1, <1>7, <2>1
<1> HIDE DEF last, up, x, v
<1>11. TypeOK'
  <2>1. step' = step /\ judged' = judged
    BY <1>8
  <2>2. QED
    BY <1>1, <1>5, <1>7, <1>9, <2>1 DEF TypeOK, Phases
<1>12. CASE phase' = "OUT" /\ volt' = 0
  BY <1>11, <1>12 DEF IInv, Counting, Unspent, ColdOutside, AtTestVoltage
<1>13. CASE phase' = (IF last THEN "TESTING" ELSE "RISE") /\ volt' = v
  <2>1. step' = step
    BY <1>8
  <2>2. step.testtime > 0 => p'.Test_Time >= 1
    BY <1>1, <1>2, <1>7
  <2>3. QED
    BY <1>1, <1>5, <1>7, <1>10, <1>11, <1>13, <2>1, <2>2
       DEF IInv, Counting, Unspent, ColdOutside, AtTestVoltage
<1>14. QED
  BY <1>9, <1>12, <1>13

\* While the test lasts the output is not touched.
LEMMA TestingInv ==
  ASSUME IInv, NEW c \in Currents, Testing(c)
  PROVE  IInv'
<1> DEFINE endless == step.testtime = 0
           n == (IF endless /\ p.Testing_Count >= COUNT_MAX THEN 0 ELSE p.Testing_Count) + 1
           x == Corrected(c)
<1>1. /\ p \in ParamType /\ step \in Steps /\ volt \in 0..DAC_TOP /\ saved \in Seq(Verdicts)
      /\ stop = FALSE /\ judged \in [high : Nat, low : Nat] /\ phase = "TESTING"
      /\ DAC_TOP \in Nat /\ volt = step.outvol
      /\ step.testtime > 0 => p.Test_Time >= 1
  <2>1. phase = "TESTING" /\ ~stop
    BY DEF Testing
  <2>2. DAC_TOP \in Nat
    BY StepsAssumption
  <2>3. QED
    BY <2>1, <2>2 DEF IInv, TypeOK, Counting, AtTestVoltage
<1>2. c \in Nat /\ step.testtime \in Nat
  <2>1. c \in Nat
    BY StepsAssumption
  <2>2. step.testtime \in Nat
    BY <1>1, StepNumbers
  <2>3. QED
    BY <2>1, <2>2
<1>3. /\ x \in Nat /\ RealOf(x) \subseteq Nat
      /\ \A r : saved \o (Upper(x, r) \o Lower(x)) \in Seq(Verdicts)
      /\ \A r : saved \o (Upper(x, r) \o <<>>) \in Seq(Verdicts)
  BY <1>1, <1>2, Checks
<1>4. n \in Nat
  BY <1>1 DEF ParamType
<1>5. p.real \in Nat
  BY <1>1 DEF ParamType
<1>6. PICK r \in (IF n % 2 = 0 THEN RealOf(x) ELSE {p.real}) :
        /\ p' = [p EXCEPT !.Test_Time = IF endless THEN @ ELSE @ - 1,
                          !.Testing_Count = n, !.current = x, !.real = r]
        /\ Judge(Upper(x, r) \o (IF LowDue(n) THEN Lower(x) ELSE <<>>), "TESTING", volt)
  BY DEF Testing
<1>7. r \in Nat
  BY <1>3, <1>5, <1>6
<1>8. endless \/ p.Test_Time > 1
  <2>1. ~Expires
    BY DEF Testing
  <2>2. p.Test_Time \in Nat
    BY <1>1 DEF ParamType
  <2>3. QED
    BY <1>1, <1>2, <2>1, <2>2 DEF Expires
<1>9. p' \in ParamType /\ (endless \/ p'.Test_Time >= 1)
  <2> DEFINE t == IF endless THEN p.Test_Time ELSE p.Test_Time - 1
  <2>1. t \in Nat /\ (endless \/ t >= 1)
    BY <1>1, <1>8 DEF ParamType
  <2>2. p' = [p EXCEPT !.Test_Time = t, !.Testing_Count = n, !.current = x, !.real = r]
    BY <1>6
  <2> HIDE DEF t, n, x, endless
  <2>3. QED
    BY <1>1, <1>3, <1>4, <1>7, <2>1, <2>2 DEF ParamType
<1>10. step' = step /\ judged' \in [high : Nat, low : Nat]
  BY <1>1, <1>4 DEF Testing
<1>11. /\ saved' \in Seq(Verdicts) /\ stop' \in BOOLEAN
       /\ \/ phase' = "OUT" /\ volt' = 0
          \/ phase' = "TESTING" /\ volt' = volt
  BY <1>1, <1>3, <1>6 DEF Judge
<1>12. TypeOK'
  BY <1>1, <1>9, <1>10, <1>11 DEF TypeOK, Phases
<1>13. QED
  BY <1>1, <1>2, <1>9, <1>10, <1>11, <1>12
     DEF IInv, Counting, Unspent, ColdOutside, AtTestVoltage

\* The last tick of the test begins the fall or switches the output off.
LEMMA ExpireInv ==
  ASSUME IInv, NEW c \in Currents, NEW w, Expire(c, w)
  PROVE  IInv'
<1>1. /\ p \in ParamType /\ step \in Steps /\ volt \in 0..DAC_TOP /\ saved \in Seq(Verdicts)
      /\ stop = FALSE /\ judged \in [high : Nat, low : Nat] /\ DAC_TOP \in Nat
  <2>1. phase = "TESTING" /\ ~stop
    BY DEF Expire
  <2>2. DAC_TOP \in Nat
    BY StepsAssumption
  <2>3. QED
    BY <2>1, <2>2 DEF IInv, TypeOK
<1>2. c \in Nat
  BY StepsAssumption
<1>3. saved \o VolError(w) \in Seq(Verdicts) /\ saved \o <<>> \in Seq(Verdicts)
  BY <1>1, <1>2, Checks
<1>4. /\ p' = [p EXCEPT !.Test_Time = 0, !.Testing_Count = @ + 1, !.current = c]
      /\ UNCHANGED <<step, judged>>
  BY DEF Expire
<1>5. /\ p' \in ParamType /\ p'.Down_Number = p.Down_Number
      /\ p'.Pause_Time = p.Pause_Time
  <2>1. p.Testing_Count + 1 \in Nat
    BY <1>1 DEF ParamType
  <2>2. p' = [p EXCEPT !.Test_Time = 0, !.Testing_Count = p.Testing_Count + 1, !.current = c]
    BY <1>4
  <2>3. QED
    BY <1>1, <1>2, <2>1, <2>2 DEF ParamType
<1>6. p.Down_Number \in Nat /\ p.Pause_Time \in Nat
  BY <1>1 DEF ParamType
<1>7. /\ saved' \in Seq(Verdicts) /\ stop' \in BOOLEAN
      /\ \/ phase' = "OUT" /\ volt' = 0
         \/ phase' = "DOWN" /\ volt' = volt /\ p.Down_Number > 1
         \/ phase' = "PAUSE" /\ volt' = 0 /\ p.Pause_Time > 0
         \/ phase' = "STOP" /\ volt' = 0
  <2>1. CASE p.Down_Number > 1 /\ Judge(<<>>, "DOWN", volt)
    BY <1>1, <1>3, <2>1 DEF Judge
  <2>2. CASE Judge(VolError(w), AfterTest, 0)
    BY <1>1, <1>3, <2>2 DEF Judge, AfterTest
  <2>3. QED
    BY <2>1, <2>2 DEF Expire
<1>8. TypeOK'
  BY <1>1, <1>4, <1>5, <1>7 DEF TypeOK, Phases
<1>9. QED
  BY <1>5, <1>6, <1>7, <1>8
     DEF IInv, Counting, Unspent, ColdOutside, AtTestVoltage

\* Every tick of the fall sets the converter, the last one to 0.
LEMMA DownInv ==
  ASSUME IInv, NEW c \in Currents, Down(c)
  PROVE  IInv'
<1> DEFINE last == p.Down_Number = 1
           down == (p.Process_Value - p.Down_Interval) % U16
           x    == Corrected(c)
           v    == IF last THEN 0 ELSE SetVoltage(down)
<1>1. /\ p \in ParamType /\ step \in Steps /\ volt \in 0..DAC_TOP /\ saved \in Seq(Verdicts)
      /\ stop \in BOOLEAN /\ judged \in [high : Nat, low : Nat] /\ p.Down_Number >= 1
      /\ DAC_TOP \in Nat
  <2>1. phase = "DOWN"
    BY DEF Down
  <2>2. DAC_TOP \in Nat
    BY StepsAssumption
  <2>3. QED
    BY <2>1, <2>2 DEF IInv, TypeOK, Counting
<1>2. c \in Nat
  BY StepsAssumption
<1>3. /\ x \in Nat /\ RealOf(x) \subseteq Nat
      /\ \A r : saved \o Upper(x, r) \in Seq(Verdicts)
  BY <1>1, <1>2, Checks
<1>4. down \in 0..U16 - 1
  <2>1. p.Process_Value - p.Down_Interval \in Int
    <3>1. U16 - 1 = 65535
      BY DEF U16
    <3>2. QED
      BY <1>1, <3>1 DEF ParamType
  <2>2. QED
    BY <2>1, Remainder
<1>5. v \in 0..DAC_TOP
  <2>1. down \in Nat
    <3>1. U16 - 1 = 65535
      BY DEF U16
    <3>2. QED
      BY <1>4, <3>1
  <2>2. QED
    BY <1>1, <2>1, Converter
<1>6. PICK r \in (IF last /\ AfterTest = "STOP" THEN {p.real} ELSE RealOf(x)) :
        /\ Judge(Upper(x, r), IF last THEN AfterTest ELSE "DOWN", v)
        /\ p' = [p EXCEPT !.Down_Number = @ - 1,
                          !.Process_Value = IF last THEN @ ELSE down,
                          !.current = x,
                          !.real = IF phase' \in {"PAUSE", "OUT"} /\ step.rmscur > 0 THEN 0 ELSE r]
  BY DEF Down
<1>7. /\ p' \in ParamType /\ p'.Pause_Time = p.Pause_Time
      /\ p'.Down_Number = p.Down_Number - 1
  <2>0. r \in Nat
    BY <1>1, <1>3, <1>6 DEF ParamType
  <2> DEFINE pv == IF last THEN p.Process_Value ELSE down
             rv == IF phase' \in {"PAUSE", "OUT"} /\ step.rmscur > 0 THEN 0 ELSE r
  <2>1. pv \in 0..U16 - 1 /\ rv \in Nat /\ p.Down_Number - 1 \in Nat
    BY <1>1, <1>3, <1>4, <2>0 DEF ParamType
  <2>2. p' = [p EXCEPT !.Down_Number = p.Down_Number - 1, !.Process_Value = pv,
                       !.current = x, !.real = rv]
    BY <1>6
  <2> HIDE DEF pv, rv, last, down, x
  <2>3. QED
    BY <1>1, <1>3, <2>1, <2>2 DEF ParamType
<1>8. UNCHANGED <<step, judged>>
  BY DEF Down
<1>9. p.Down_Number \in Nat /\ p.Pause_Time \in Nat
  BY <1>1 DEF ParamType
<1>10. /\ saved' \in Seq(Verdicts) /\ stop' \in BOOLEAN
       /\ \/ phase' = "OUT" /\ volt' = 0
          \/ phase' = "DOWN" /\ volt' = v /\ ~last
          \/ phase' = "PAUSE" /\ volt' = v /\ last /\ p.Pause_Time > 0
          \/ phase' = "STOP" /\ volt' = v /\ last
  BY <1>1, <1>3, <1>6 DEF Judge, AfterTest
<1>11. last => v = 0
  OBVIOUS
<1>12. ~last => p'.Down_Number >= 1
  BY <1>1, <1>7, <1>9
<1> HIDE DEF last, down, x, v
<1>13. TypeOK'
  BY <1>1, <1>5, <1>7, <1>8, <1>10 DEF TypeOK, Phases
<1>14. QED
  BY <1>7, <1>9, <1>10, <1>11, <1>12, <1>13
     DEF IInv, Counting, Unspent, ColdOutside, AtTestVoltage

\* PAUSE may end a failed step a second time, but always with the output off.
LEMMA PauseInv ==
  ASSUME IInv, Pause
  PROVE  IInv'
<1> DEFINE once  == Upper(p.current, p.real)
           fails == IF step.mode = "DCW" THEN once \o once ELSE once
<1>1. /\ p \in ParamType /\ step \in Steps /\ volt = 0 /\ saved \in Seq(Verdicts)
      /\ judged \in [high : Nat, low : Nat] /\ p.Pause_Time >= 1
      /\ DAC_TOP \in Nat
  <2>1. phase = "PAUSE"
    BY DEF Pause
  <2>2. DAC_TOP \in Nat
    BY StepsAssumption
  <2>3. QED
    BY <2>1, <2>2 DEF IInv, TypeOK, Counting, ColdOutside
<1>2. saved \o fails \in Seq(Verdicts)
  <2>1. 0 \in Nat
    OBVIOUS
  <2>2. saved \o once \in Seq(Verdicts) /\ saved \o (once \o once) \in Seq(Verdicts)
    BY <1>1, <2>1, Checks
  <2>3. QED
    BY <2>2
<1>3. p.Pause_Time \in Nat
  BY <1>1 DEF ParamType
<1>4. p' \in ParamType /\ p'.Pause_Time = p.Pause_Time - 1
  <2>1. p.Pause_Time - 1 \in Nat
    BY <1>1, <1>3
  <2>2. p' = [p EXCEPT !.Pause_Time = p.Pause_Time - 1]
    BY DEF Pause
  <2>3. QED
    BY <1>1, <2>1, <2>2 DEF ParamType
<1>5. /\ saved' = saved \o fails /\ stop' = (fails # <<>>)
      /\ phase' = (IF p.Pause_Time = 1 THEN "STOP" ELSE IF fails # <<>> THEN "OUT" ELSE "PAUSE")
      /\ volt' = 0 /\ UNCHANGED <<step, judged>>
  BY <1>1 DEF Pause
<1> HIDE DEF fails, once
<1>6. /\ phase' \in {"STOP", "OUT", "PAUSE"}
      /\ phase' = "PAUSE" => p'.Pause_Time >= 1
  BY <1>1, <1>3, <1>4, <1>5
<1>7. TypeOK'
  <2>1. saved' \in Seq(Verdicts)
    BY <1>2, <1>5
  <2>2. stop' \in BOOLEAN
    BY <1>5
  <2>3. QED
    BY <1>1, <1>4, <1>5, <1>6, <2>1, <2>2 DEF TypeOK, Phases
<1>8. QED
  BY <1>5, <1>6, <1>7 DEF IInv, Counting, Unspent, ColdOutside, AtTestVoltage

\* STOP leaves the step with the output off.
LEMMA StopInv ==
  ASSUME IInv, Stop
  PROVE  IInv'
<1>1. /\ phase' = "OUT" /\ volt' = 0 /\ saved' = Append(saved, "PASS")
      /\ UNCHANGED <<step, p, stop, judged>>
  BY DEF Stop
<1>2. saved' \in Seq(Verdicts)
  BY <1>1 DEF IInv, TypeOK, Verdicts
<1>3. DAC_TOP \in Nat
  BY StepsAssumption
<1>4. TypeOK'
  BY <1>1, <1>2, <1>3 DEF IInv, TypeOK, Phases
<1>5. QED
  BY <1>1, <1>4 DEF IInv, Counting, Unspent, ColdOutside, AtTestVoltage

\* The stop key changes the flag and the output, never the phase.
LEMMA StopKeyInv ==
  ASSUME IInv, StopKey
  PROVE  IInv'
<1>1. /\ stop' = TRUE /\ volt' = 0
      /\ UNCHANGED <<step, phase, p, saved, judged>>
  BY DEF StopKey
<1>2. DAC_TOP \in Nat
  BY StepsAssumption
<1>3. TypeOK'
  BY <1>1, <1>2 DEF IInv, TypeOK
<1>4. QED
  BY <1>1, <1>3 DEF IInv, Counting, Unspent, ColdOutside, AtTestVoltage

\* One case per action of StepRamp.
LEMMA StepIInv == IInv /\ [Next]_vars => IInv'
<1> SUFFICES ASSUME IInv, [Next]_vars
             PROVE  IInv'
  OBVIOUS
<1>1. ASSUME NEW s \in Steps, Enter(s)
      PROVE  IInv'
  BY <1>1, EnterInv
<1>2. ASSUME NEW c \in Currents, Rise(c) \/ Testing(c) \/ Down(c)
      PROVE  IInv'
  BY <1>2, RiseInv, TestingInv, DownInv
<1>3. ASSUME NEW c \in Currents, NEW v \in {0, volt}, Expire(c, v)
      PROVE  IInv'
  BY <1>3, ExpireInv
<1>4. CASE Wait
  BY <1>4, WaitInv
<1>5. CASE Pause
  BY <1>5, PauseInv
<1>6. CASE Stop
  BY <1>6, StopInv
<1>7. CASE StopKey
  BY <1>7, StopKeyInv
<1>8. CASE UNCHANGED vars
  BY <1>8 DEF vars, IInv, TypeOK, Counting, Unspent, ColdOutside, AtTestVoltage
<1>9. QED
  BY <1>1, <1>2, <1>3, <1>4, <1>5, <1>6, <1>7, <1>8 DEF Next, Tick

\* The inductive invariant: the three properties with what the counters must
\* be in each phase for the next tick to keep them.
THEOREM Invariant == Spec => []IInv
<1>1. QED
  BY InitIInv, StepIInv, PTL DEF Spec

\* The numbers of a step never leave the range of their C types, whatever its
\* voltages and times are: the counters are not counted below zero.
THEOREM Types == Spec => []TypeOK
<1>1. IInv => TypeOK
  BY DEF IInv
<1>2. QED
  BY Invariant, <1>1, PTL

\* The test is made at the voltage of the step, whatever ramp led to it.
THEOREM TestsAtVoltage == Spec => []AtTestVoltage
<1>1. IInv => AtTestVoltage
  BY DEF IInv
<1>2. QED
  BY Invariant, <1>1, PTL

\* Outside its ramp, test and fall a step puts nothing out.
THEOREM Cold == Spec => []ColdOutside
<1>1. IInv => ColdOutside
  BY DEF IInv
<1>2. QED
  BY Invariant, <1>1, PTL

-----------------------------------------------------------------------------
(* What a step that passes has been judged by                              *)

Done == /\ judged.high = step.testtime - 1
        /\ step.testtime > 5 => judged.low = step.testtime - 1

\* The ticks of the test are those that were counted and those that are left,
\* each that was counted was judged, and a failed check sets Stop_Flag.
Judging ==
  /\ ~stop /\ phase # "OUT" => saved = <<>>
  /\ ~stop /\ phase = "OUT" => Done
  /\ phase \in {"WAIT", "RISE"} => p.Testing_Count = 0 /\ judged = [high |-> 0, low |-> 0]
  /\ phase = "TESTING" /\ ~stop /\ step.testtime > 0 =>
       /\ p.Testing_Count + p.Test_Time = step.testtime
       /\ judged.high = p.Testing_Count
       /\ p.Testing_Count > 4 => judged.low = p.Testing_Count
  /\ phase \in {"DOWN", "PAUSE", "STOP"} /\ ~stop => Done

\* A check that does not set the flag has saved nothing and lets the step go on.
LEMMA JudgeFacts ==
  ASSUME ~stop, saved = <<>>, NEW fails \in Seq(Verdicts), NEW next, NEW v,
         Judge(fails, next, v)
  PROVE  /\ stop' => phase' = "OUT"
         /\ ~stop' => saved' = <<>> /\ phase' = next /\ volt' = v
<1>1. <<>> \o <<>> = <<>>
  OBVIOUS
<1>2. CASE fails = <<>>
  BY <1>1, <1>2 DEF Judge
<1>3. CASE fails # <<>>
  BY <1>3 DEF Judge
<1>4. QED
  BY <1>2, <1>3

\* What a check can save is a sequence of verdicts.
LEMMA CheckTypes ==
  /\ \A x, r : Upper(x, r) \in Seq(Verdicts)
  /\ \A x, r : Upper(x, r) \o Upper(x, r) \in Seq(Verdicts)
  /\ \A x, r, n : Upper(x, r) \o (IF LowDue(n) THEN Lower(x) ELSE <<>>) \in Seq(Verdicts)
  /\ \A v : VolError(v) \in Seq(Verdicts)
  /\ <<>> \in Seq(Verdicts)
<1>1. /\ <<>> \in Seq(Verdicts) /\ <<"HIGH">> \in Seq(Verdicts)
      /\ <<"LOW">> \in Seq(Verdicts) /\ <<"VOL_ABNORMAL">> \in Seq(Verdicts)
  BY DEF Verdicts
<1>2. \A x, r : Upper(x, r) \in Seq(Verdicts)
  BY <1>1, Zenon DEF Upper
<1>3. \A x : Lower(x) \in Seq(Verdicts)
  BY <1>1, Zenon DEF Lower
<1>4. \A v : VolError(v) \in Seq(Verdicts)
  BY <1>1, Zenon DEF VolError
<1>5. \A a, b \in Seq(Verdicts) : a \o b \in Seq(Verdicts)
  OBVIOUS
<1>6. \A x, n : (IF LowDue(n) THEN Lower(x) ELSE <<>>) \in Seq(Verdicts)
  BY <1>1, <1>3, Zenon
<1>7. QED
  BY <1>1, <1>2, <1>4, <1>5, <1>6

\* A tick of WAIT counts no tick of the test.
LEMMA WaitCounts ==
  ASSUME NEW s \in Steps, NEW q \in ParamType, WaitTick(q, s)
  PROVE  /\ p'.Testing_Count = q.Testing_Count /\ p'.Test_Time = q.Test_Time
         /\ phase' \in {"WAIT", "RISE", "TESTING"}
<1>1. \/ p' = [q EXCEPT !.Wait_Time = @ - 1]
      \/ p' = [q EXCEPT !.Wait_Time = 0, !.Process_Value = s.outvol]
      \/ p' = [q EXCEPT !.Wait_Time = 0]
  BY DEF WaitTick
<1>2. phase' \in {"WAIT", "RISE", "TESTING"}
  BY DEF WaitTick
<1>3. QED
  BY <1>1, <1>2 DEF ParamType

\* Each tick of the test that is not its last is judged.
LEMMA StepJudging == IInv /\ Judging /\ [Next]_vars => Judging'
<1> SUFFICES ASSUME IInv, Judging, [Next]_vars
             PROVE  Judging'
  OBVIOUS
<1>1. /\ p \in ParamType /\ step \in Steps /\ stop \in BOOLEAN
      /\ judged \in [high : Nat, low : Nat]
  BY DEF IInv, TypeOK
<1>2. step.testtime \in Nat /\ p.Testing_Count \in Nat /\ p.Test_Time \in Nat
  BY <1>1, StepNumbers DEF ParamType
<1>3. ASSUME NEW s \in Steps, Enter(s)
      PROVE  Judging'
  <2>1. /\ step' = s /\ stop' = FALSE /\ saved' = <<>> /\ judged' = [high |-> 0, low |-> 0]
        /\ WaitTick(Entered(s), s)
    BY <1>3 DEF Enter
  <2>2. Entered(s) \in ParamType /\ Entered(s).Test_Time = s.testtime
        /\ Entered(s).Testing_Count = 0
    BY EnteredType DEF Entered
  <2>3. /\ p'.Testing_Count = 0 /\ p'.Test_Time = s.testtime
        /\ phase' \in {"WAIT", "RISE", "TESTING"}
    BY <2>1, <2>2, WaitCounts
  <2>4. s.testtime \in Nat
    BY StepNumbers
  <2>5. QED
    BY <2>1, <2>3, <2>4 DEF Judging
<1>4. CASE Wait
  <2>1. /\ phase = "WAIT" /\ ~stop /\ WaitTick(p, step)
        /\ step' = step /\ stop' = stop /\ saved' = saved /\ judged' = judged
    BY <1>4 DEF Wait
  <2>2. /\ p'.Testing_Count = p.Testing_Count /\ p'.Test_Time = p.Test_Time
        /\ phase' \in {"WAIT", "RISE", "TESTING"}
    BY <1>1, <2>1, WaitCounts
  <2>3. /\ p.Testing_Count = 0 /\ judged.high = 0 /\ p.Test_Time = step.testtime
        /\ judged = [high |-> 0, low |-> 0] /\ saved = <<>>
    BY <2>1 DEF Judging, IInv, Unspent
  <2>4. QED
    BY <1>2, <2>1, <2>2, <2>3 DEF Judging
<1>5. ASSUME NEW c \in Currents, Rise(c)
      PROVE  Judging'
  <2> DEFINE x == Corrected(c)
             next == IF p.Rise_Number = 1 THEN "TESTING" ELSE "RISE"
             v == SetVoltage(IF p.Rise_Number = 1 THEN step.outvol
                             ELSE (p.Process_Value + p.Rise_Interval) % U16)
  <2>1. /\ phase = "RISE" /\ ~stop /\ step' = step /\ judged' = judged
        /\ Judge(Upper(x, p.real), next, v)
    BY <1>5 DEF Rise
  <2>2. p'.Testing_Count = p.Testing_Count /\ p'.Test_Time = p.Test_Time
    BY <1>1, <1>5 DEF Rise, ParamType
  <2>3. /\ p.Testing_Count = 0 /\ judged.high = 0 /\ p.Test_Time = step.testtime
        /\ judged = [high |-> 0, low |-> 0] /\ saved = <<>>
    BY <2>1 DEF Judging, IInv, Unspent
  <2> HIDE DEF x, v
  <2>4. /\ stop' => phase' = "OUT"
        /\ ~stop' => saved' = <<>> /\ phase' = next
    BY <2>1, <2>3, CheckTypes, JudgeFacts
  <2>5. QED
    BY <1>2, <2>1, <2>2, <2>3, <2>4 DEF Judging
<1>6. ASSUME NEW c \in Currents, Testing(c)
      PROVE  Judging'
  <2> DEFINE endless == step.testtime = 0
             n == (IF endless /\ p.Testing_Count >= COUNT_MAX THEN 0 ELSE p.Testing_Count) + 1
             x == Corrected(c)
  <2>1. /\ phase = "TESTING" /\ ~stop /\ ~Expires /\ step' = step
        /\ judged' = [high |-> n, low |-> IF LowDue(n) THEN n ELSE judged.low]
    BY <1>6 DEF Testing
  <2>2. PICK r : /\ p' = [p EXCEPT !.Test_Time = IF endless THEN @ ELSE @ - 1,
                                   !.Testing_Count = n, !.current = x, !.real = r]
                 /\ Judge(Upper(x, r) \o (IF LowDue(n) THEN Lower(x) ELSE <<>>), "TESTING", volt)
    BY <1>6 DEF Testing
  <2>3. /\ p'.Testing_Count = n
        /\ p'.Test_Time = IF endless THEN p.Test_Time ELSE p.Test_Time - 1
    BY <1>1, <2>2 DEF ParamType
  <2>4. saved = <<>>
    BY <2>1 DEF Judging
  <2>5. ~endless => n = p.Testing_Count + 1
    OBVIOUS
  <2> HIDE DEF n, x
  <2>6. /\ stop' => phase' = "OUT"
        /\ ~stop' => saved' = <<>> /\ phase' = "TESTING"
    BY <2>1, <2>2, <2>4, CheckTypes, JudgeFacts
  <2>7. ASSUME step.testtime > 0
        PROVE  /\ p'.Testing_Count + p'.Test_Time = step.testtime
               /\ judged'.high = p'.Testing_Count
               /\ p'.Testing_Count > 4 => judged'.low = p'.Testing_Count
    <3>1. p.Testing_Count + p.Test_Time = step.testtime
      BY <2>1, <2>7 DEF Judging
    <3>2. p'.Testing_Count = p.Testing_Count + 1 /\ p'.Test_Time = p.Test_Time - 1
      BY <2>3, <2>5, <2>7
    <3>3. judged'.high = p'.Testing_Count
      BY <2>1, <2>3
    <3>4. p'.Testing_Count > 4 => judged'.low = p'.Testing_Count
      BY <2>1, <2>3 DEF LowDue
    <3>5. QED
      BY <1>2, <3>1, <3>2, <3>3, <3>4
  <2>8. QED
    BY <2>1, <2>6, <2>7 DEF Judging
<1>7. ASSUME NEW c \in Currents, NEW w, Expire(c, w)
      PROVE  Judging'
  <2>1. /\ phase = "TESTING" /\ ~stop /\ Expires /\ step' = step /\ judged' = judged
        /\ \/ Judge(<<>>, "DOWN", volt)
           \/ Judge(VolError(w), AfterTest, 0)
    BY <1>7 DEF Expire
  <2>2. saved = <<>>
    BY <2>1 DEF Judging
  <2>3. /\ stop' => phase' = "OUT"
        /\ ~stop' => saved' = <<>> /\ phase' \in {"DOWN", "PAUSE", "STOP"}
    <3>1. CASE Judge(<<>>, "DOWN", volt)
      BY <2>1, <2>2, <3>1, CheckTypes, JudgeFacts
    <3>2. CASE Judge(VolError(w), AfterTest, 0)
      BY <2>1, <2>2, <3>2, CheckTypes, JudgeFacts DEF AfterTest
    <3>3. QED
      BY <2>1, <3>1, <3>2
  <2>4. Done
    <3>1. /\ step.testtime > 0 /\ p.Test_Time = 1
          /\ p.Testing_Count + p.Test_Time = step.testtime
          /\ judged.high = p.Testing_Count
          /\ p.Testing_Count > 4 => judged.low = p.Testing_Count
      BY <2>1 DEF Judging, Expires
    <3>2. p.Testing_Count = step.testtime - 1
      BY <1>2, <3>1
    <3>3. step.testtime > 5 => p.Testing_Count > 4
      BY <1>2, <3>2
    <3>4. QED
      BY <3>1, <3>2, <3>3 DEF Done
  <2>5. Done'
    BY <2>1, <2>4 DEF Done
  <2>6. QED
    BY <2>3, <2>5 DEF Judging
<1>8. ASSUME NEW c \in Currents, Down(c)
      PROVE  Judging'
  <2> DEFINE x == Corrected(c)
             next == IF p.Down_Number = 1 THEN AfterTest ELSE "DOWN"
             v == IF p.Down_Number = 1 THEN 0
                  ELSE SetVoltage((p.Process_Value - p.Down_Interval) % U16)
  <2>1. /\ phase = "DOWN" /\ ~stop /\ step' = step /\ judged' = judged
        /\ \E r : Judge(Upper(x, r), next, v)
    BY <1>8 DEF Down
  <2>2. saved = <<>> /\ Done
    BY <2>1 DEF Judging
  <2>3. next \in {"DOWN", "PAUSE", "STOP"}
    BY DEF AfterTest
  <2> HIDE DEF x, v, next
  <2>4. /\ stop' => phase' = "OUT"
        /\ ~stop' => saved' = <<>> /\ phase' = next
    BY <2>1, <2>2, CheckTypes, JudgeFacts
  <2>5. Done'
    BY <2>1, <2>2 DEF Done
  <2>6. QED
    BY <2>3, <2>4, <2>5 DEF Judging
<1>9. CASE Pause
  <2> DEFINE once == Upper(p.current, p.real)
             fails == IF step.mode = "DCW" THEN once \o once ELSE once
  <2>1. /\ phase = "PAUSE" /\ ~stop /\ step' = step /\ judged' = judged
        /\ saved' = saved \o fails /\ stop' = (fails # <<>>)
        /\ phase' \in {"PAUSE", "STOP", "OUT"}
    BY <1>9 DEF Pause
  <2>2. saved = <<>> /\ Done
    BY <2>1 DEF Judging
  <2>3. ~stop' => saved' = <<>>
    <3>1. <<>> \o <<>> = <<>>
      OBVIOUS
    <3> HIDE DEF fails
    <3>2. QED
      BY <2>1, <2>2, <3>1
  <2>4. Done'
    BY <2>1, <2>2 DEF Done
  <2>5. QED
    BY <2>1, <2>3, <2>4 DEF Judging
<1>10. CASE Stop
  <2>1. /\ phase = "STOP" \/ stop
        /\ phase' = "OUT" /\ step' = step /\ stop' = stop /\ judged' = judged
    BY <1>10 DEF Stop
  <2>2. ~stop' => Done'
    BY <2>1 DEF Judging, Done
  <2>3. QED
    BY <2>1, <2>2 DEF Judging
<1>11. CASE StopKey
  <2>1. /\ phase' = phase /\ p' = p /\ judged' = judged /\ stop' = TRUE
    BY <1>11 DEF StopKey
  <2>2. QED
    BY <2>1 DEF Judging
<1>12. CASE UNCHANGED vars
  BY <1>12 DEF vars, Judging, Done
<1>13. QED
  BY <1>3, <1>4, <1>5, <1>6, <1>7, <1>8, <1>9, <1>10, <1>11, <1>12 DEF Next, Tick

\* A step passes only if every tick of its test time but the last kept the high
\* limit, and, with a test time of more than five ticks, the low limit too.
THEOREM PassesAreJudged == Spec => []PassIsJudged
<1>1. Init => Judging
  BY DEF Init, Judging
<1>2. Judging => PassIsJudged
  <2>1. <<>> # <<"PASS">>
    OBVIOUS
  <2>2. QED
    BY <2>1 DEF Judging, PassIsJudged, Done
<1>3. QED
  BY Invariant, StepJudging, <1>1, <1>2, PTL DEF Spec

-----------------------------------------------------------------------------
(* Where the ramp goes                                                      *)

\* What a tick of the ramp adds, before the code stores it in 32 bits.
Slope(s) == Quotient(s.outvol - s.startvol, AtLeast1(s.ramptime))

\* The ticks that are left do not take the voltage past the end of the ramp.
Climb(s, q) ==
  /\ q.Process_Value <= DAC_TOP
  /\ IF s.startvol <= s.outvol
     THEN Slope(s) >= 0 /\ q.Process_Value + q.Rise_Number * Slope(s) <= s.outvol
     ELSE Slope(s) <= 0 /\ q.Process_Value + q.Rise_Number * Slope(s) >= s.outvol

\* On the ramp the output is the value the routine computes with.
Climbing ==
  /\ phase \in {"WAIT", "RISE"} => p.Rise_Interval = RiseInterval(step) /\ Climb(step, p)
  /\ phase = "WAIT" => p.Process_Value = step.startvol
  /\ phase = "RISE" /\ ~stop => volt = p.Process_Value

\* Of products: the sign of one factor, and one less of the other.
LEMMA LessOne ==
  ASSUME NEW a \in Int, NEW b \in Int
  PROVE  (a - 1) * b = a * b - b
OBVIOUS

LEMMA AtLeastOnce ==
  ASSUME NEW a \in Nat, a >= 1, NEW b \in Int
  PROVE  /\ b >= 0 => a * b >= b
         /\ b <= 0 => a * b <= b
<1>1. CASE b >= 0
  BY <1>1
<1>2. CASE b <= 0
  BY <1>2
<1>3. QED
  BY <1>1, <1>2

LEMMA DivisionBelow ==
  ASSUME NEW a \in Nat, NEW b \in Nat \ {0}
  PROVE  a \div b \in Nat /\ b * (a \div b) <= a
OBVIOUS

\* A sum that fits 16 bits is what the code computes with an addend of which
\* it keeps 16 bits.
LEMMA Wrapped ==
  ASSUME NEW a \in Nat, NEW b \in Int, a + b >= 0, a + b < U16
  PROVE  (a + (b % U16)) % U16 = a + b
BY DEF U16

\* The whole ramp ends between its ends.
LEMMA EnteredClimb ==
  ASSUME NEW s \in Steps
  PROVE  Climb(s, Entered(s)) /\ Slope(s) \in Int
<1> DEFINE n == AtLeast1(s.ramptime)
<1>1. s.startvol \in Nat /\ s.outvol \in Nat /\ n \in Nat \ {0} /\ s.startvol <= DAC_TOP
  BY StepNumbers DEF AtLeast1
<1>2. Entered(s).Process_Value = s.startvol /\ Entered(s).Rise_Number = n
  BY DEF Entered
<1> HIDE DEF n
<1>3. CASE s.startvol <= s.outvol
  <2> DEFINE d == (s.outvol - s.startvol) \div n
  <2>1. d \in Nat /\ n * d <= s.outvol - s.startvol
    BY <1>1, <1>3, DivisionBelow
  <2>2. Slope(s) = d
    BY <1>1, <1>3 DEF Slope, Quotient, n
  <2> HIDE DEF d
  <2>3. n * d \in Int
    BY <1>1, <2>1
  <2>4. s.startvol + n * d <= s.outvol
    BY <1>1, <2>1, <2>3
  <2>5. QED
    BY <1>1, <1>2, <1>3, <2>1, <2>2, <2>4 DEF Climb
<1>4. CASE ~(s.startvol <= s.outvol)
  <2> DEFINE d == (s.startvol - s.outvol) \div n
  <2>1. d \in Nat /\ n * d <= s.startvol - s.outvol
    BY <1>1, <1>4, DivisionBelow
  <2>2. Slope(s) = -d
    <3>1. s.outvol - s.startvol < 0 /\ -(s.outvol - s.startvol) = s.startvol - s.outvol
      BY <1>1, <1>4
    <3>2. QED
      BY <3>1 DEF Slope, Quotient, n
  <2> HIDE DEF d
  <2>3. n * (-d) = -(n * d) /\ n * d \in Int
    BY <1>1, <2>1
  <2>4. s.startvol + n * (-d) >= s.outvol
    BY <1>1, <2>1, <2>3
  <2>5. QED
    BY <1>1, <1>2, <1>4, <2>1, <2>2, <2>4 DEF Climb
<1>5. QED
  BY <1>3, <1>4

\* A tick of the ramp that is not its last: no wrap, no step past the end, and
\* what is left still ends before it.
LEMMA ClimbTick ==
  ASSUME NEW s \in Steps, NEW q \in ParamType, Climb(s, q), q.Rise_Number >= 2,
         q.Rise_Interval = RiseInterval(s)
  PROVE  LET up == (q.Process_Value + q.Rise_Interval) % U16
         IN /\ up \in 0..DAC_TOP
            /\ \/ q.Process_Value <= up /\ up <= s.outvol
               \/ q.Process_Value >= up /\ up >= s.outvol
            /\ \A t : t.Process_Value = up /\ t.Rise_Number = q.Rise_Number - 1 => Climb(s, t)
<1> DEFINE up == (q.Process_Value + q.Rise_Interval) % U16
           pv == q.Process_Value
           n  == q.Rise_Number
           d  == Slope(s)
<1>1. /\ s.startvol \in Nat /\ s.outvol \in Nat /\ s.outvol <= DAC_TOP
      /\ DAC_TOP \in Nat /\ U16 \in Nat /\ DAC_TOP < U16 /\ d \in Int /\ pv \in Nat /\ n \in Nat
      /\ pv <= DAC_TOP /\ n >= 2
  <2>1. DAC_TOP <= 65535 /\ DAC_TOP \in Nat
    BY StepNumbers
  <2>2. DAC_TOP < U16 /\ U16 \in Nat
    BY <2>1 DEF U16
  <2>3. pv \in Nat
    BY DEF ParamType
  <2>4. QED
    BY <2>1, <2>2, <2>3, StepNumbers, EnteredClimb DEF ParamType, Climb
<1>2. up = (pv + (d % U16)) % U16
  BY DEF RiseInterval, Slope
<1>3. (n - 1) * d = n * d - d /\ n * d \in Int /\ (n - 1) * d \in Int
  BY <1>1, LessOne
<1>4. (d >= 0 => (n - 1) * d >= d) /\ (d <= 0 => (n - 1) * d <= d)
  <2>1. n - 1 \in Nat /\ n - 1 >= 1
    BY <1>1
  <2>2. QED
    BY <1>1, <2>1, AtLeastOnce
<1>5. CASE s.startvol <= s.outvol
  <2>1. d >= 0 /\ pv + n * d <= s.outvol
    BY <1>5 DEF Climb
  <2> HIDE DEF up, pv, n, d
  <2>2. pv + d <= s.outvol /\ pv + d >= pv /\ pv + d \in Nat
    BY <1>1, <1>3, <1>4, <2>1
  <2>3. up = pv + d
    BY <1>1, <1>2, <2>2, Wrapped
  <2>4. up + (n - 1) * d <= s.outvol
    BY <1>1, <1>3, <2>1, <2>3
  <2>5. \A t : t.Process_Value = up /\ t.Rise_Number = n - 1 => Climb(s, t)
    BY <1>1, <1>5, <2>1, <2>2, <2>3, <2>4 DEF Climb, d
  <2>6. QED
    BY <1>1, <2>2, <2>3, <2>5 DEF up, pv, n
<1>6. CASE ~(s.startvol <= s.outvol)
  <2>1. d <= 0 /\ pv + n * d >= s.outvol
    BY <1>6 DEF Climb
  <2> HIDE DEF up, pv, n, d
  <2>2. pv + d >= s.outvol /\ pv + d <= pv /\ pv + d \in Nat
    BY <1>1, <1>3, <1>4, <2>1
  <2>3. up = pv + d
    BY <1>1, <1>2, <2>2, Wrapped
  <2>4. up + (n - 1) * d >= s.outvol
    BY <1>1, <1>3, <2>1, <2>3
  <2>5. \A t : t.Process_Value = up /\ t.Rise_Number = n - 1 => Climb(s, t)
    BY <1>1, <1>6, <2>1, <2>2, <2>3, <2>4 DEF Climb, d
  <2>6. QED
    BY <1>1, <2>2, <2>3, <2>5 DEF up, pv, n
<1>7. QED
  BY <1>5, <1>6

\* A tick of WAIT changes nothing the ramp is computed from before it is over.
LEMMA WaitClimb ==
  ASSUME NEW s \in Steps, NEW q \in ParamType, volt \in 0..DAC_TOP, WaitTick(q, s),
         step' = s, stop' = FALSE,
         q.Rise_Interval = RiseInterval(s), Climb(s, q), q.Process_Value = s.startvol
  PROVE  Climbing'
<1>1. \/ phase' = "TESTING"
      \/ phase' = "WAIT" /\ p' = [q EXCEPT !.Wait_Time = @ - 1]
      \/ phase' = "RISE" /\ p' = [q EXCEPT !.Wait_Time = 0] /\ volt' = SetVoltage(s.startvol)
  BY DEF WaitTick
<1>2. phase' # "TESTING" =>
        /\ p'.Rise_Interval = q.Rise_Interval /\ p'.Process_Value = q.Process_Value
        /\ p'.Rise_Number = q.Rise_Number
  BY <1>1 DEF ParamType
<1>3. phase' # "TESTING" => Climb(s, p')
  BY <1>2 DEF Climb
<1>4. SetVoltage(s.startvol) = s.startvol
  BY StepNumbers DEF SetVoltage
<1>5. Climb(step, p)' <=> Climb(s, p')
  BY DEF Climb, Slope
<1>6. QED
  BY <1>1, <1>2, <1>3, <1>4, <1>5 DEF Climbing, RiseInterval

\* The ticks of WAIT and RISE, one by one; the other phases are not on the ramp.
LEMMA StepClimbing == IInv /\ Climbing /\ [Next]_vars => Climbing'
<1> SUFFICES ASSUME IInv, Climbing, [Next]_vars
             PROVE  Climbing'
  OBVIOUS
<1>1. p \in ParamType /\ step \in Steps /\ volt \in 0..DAC_TOP
  BY DEF IInv, TypeOK
<1>2. ASSUME NEW s \in Steps, Enter(s)
      PROVE  Climbing'
  <2>1. step' = s /\ stop' = FALSE /\ WaitTick(Entered(s), s)
    BY <1>2 DEF Enter
  <2>2. /\ Entered(s) \in ParamType /\ Entered(s).Process_Value = s.startvol
        /\ Entered(s).Rise_Interval = RiseInterval(s) /\ Climb(s, Entered(s))
    BY EnteredType, EnteredClimb DEF Entered
  <2>3. QED
    BY <1>1, <2>1, <2>2, WaitClimb
<1>3. CASE Wait
  <2>1. step' = step /\ stop' = FALSE /\ WaitTick(p, step) /\ phase = "WAIT"
    BY <1>3 DEF Wait, IInv, TypeOK
  <2>2. /\ p.Process_Value = step.startvol
        /\ p.Rise_Interval = RiseInterval(step) /\ Climb(step, p)
    BY <2>1 DEF Climbing
  <2>3. QED
    BY <1>1, <2>1, <2>2, WaitClimb
<1>4. ASSUME NEW c \in Currents, Rise(c)
      PROVE  Climbing'
  <2> DEFINE last == p.Rise_Number = 1
             up   == (p.Process_Value + p.Rise_Interval) % U16
             x    == Corrected(c)
  <2>1. /\ phase = "RISE" /\ step' = step
        /\ Judge(Upper(x, p.real), IF last THEN "TESTING" ELSE "RISE",
                 SetVoltage(IF last THEN step.outvol ELSE up))
    BY <1>4 DEF Rise
  <2>2. /\ p'.Rise_Interval = p.Rise_Interval /\ p'.Rise_Number = p.Rise_Number - 1
        /\ ~last => p'.Process_Value = up
    BY <1>1, <1>4 DEF Rise, ParamType
  <2>3. phase' # "WAIT" /\ (phase' = "RISE" => ~last /\ volt' = SetVoltage(up))
    BY <2>1 DEF Judge
  <2>4. p.Rise_Interval = RiseInterval(step) /\ Climb(step, p)
    BY <2>1 DEF Climbing
  <2>5. ~last => p.Rise_Number >= 2
    BY <1>1, <2>1 DEF IInv, Counting, ParamType
  <2>6. ~last => up \in 0..DAC_TOP /\ Climb(step, p')
    BY <1>1, <2>2, <2>4, <2>5, ClimbTick
  <2> HIDE DEF up, x
  <2>7. ~last => SetVoltage(up) = up
    BY <2>6 DEF SetVoltage
  <2>8. Climb(step, p)' <=> Climb(step, p')
    BY <2>1 DEF Climb, Slope
  <2>9. RiseInterval(step)' = RiseInterval(step)
    BY <2>1 DEF RiseInterval
  <2>10. QED
    BY <2>2, <2>3, <2>4, <2>6, <2>7, <2>8, <2>9 DEF Climbing
<1>5. ASSUME NEW c \in Currents, Testing(c) \/ Down(c) \/ \E v : Expire(c, v)
      PROVE  Climbing'
  <2>1. phase' \notin {"WAIT", "RISE"}
    BY <1>5 DEF Testing, Down, Expire, Judge, AfterTest
  <2>2. QED
    BY <2>1 DEF Climbing
<1>6. CASE Pause \/ Stop
  <2>1. phase' \notin {"WAIT", "RISE"}
    BY <1>6 DEF Pause, Stop
  <2>2. QED
    BY <2>1 DEF Climbing
<1>7. CASE StopKey \/ UNCHANGED vars
  <2>1. /\ phase' = phase /\ p' = p /\ step' = step
        /\ stop' = TRUE \/ (stop' = stop /\ volt' = volt)
    BY <1>7 DEF StopKey, vars
  <2>2. (Climb(step, p)' <=> Climb(step, p)) /\ RiseInterval(step)' = RiseInterval(step)
    BY <2>1 DEF Climb, Slope, RiseInterval
  <2>3. QED
    BY <2>1, <2>2 DEF Climbing
<1>8. QED
  BY <1>2, <1>3, <1>4, <1>5, <1>6, <1>7 DEF Next, Tick

\* With any start voltage and any ramp time, each tick of the ramp brings the
\* output nearer to the test voltage, and none overshoots it or wraps.
THEOREM RampIsDirect == Spec => RampsTowards
<1> DEFINE Towards == phase = "RISE" /\ phase' \in {"RISE", "TESTING"} /\ ~stop'
                        => \/ volt <= volt' /\ volt' <= step.outvol
                           \/ volt >= volt' /\ volt' >= step.outvol
<1>1. Init => Climbing
  BY DEF Init, Climbing
<1>2. ASSUME IInv, Climbing, [Next]_vars
      PROVE  [Towards]_vars
  <2>1. SUFFICES ASSUME phase = "RISE", phase' \in {"RISE", "TESTING"}, ~stop', Next
                 PROVE  \/ volt <= volt' /\ volt' <= step.outvol
                        \/ volt >= volt' /\ volt' >= step.outvol
    BY <1>2
  <2>2. PICK c \in Currents : Rise(c)
    BY <2>1 DEF Next, Tick, Wait, Pause, Stop, Testing, Down, Expire, StopKey, Enter
  <2> DEFINE last == p.Rise_Number = 1
             up   == (p.Process_Value + p.Rise_Interval) % U16
  <2>3. /\ p \in ParamType /\ step \in Steps /\ volt \in 0..DAC_TOP
        /\ p.Rise_Number >= 1 /\ ~stop /\ volt = p.Process_Value
        /\ p.Rise_Interval = RiseInterval(step) /\ Climb(step, p)
    BY <1>2, <2>1, <2>2 DEF IInv, TypeOK, Counting, Climbing, Rise
  <2>4. volt' = SetVoltage(IF last THEN step.outvol ELSE up)
    BY <2>1, <2>2 DEF Rise, Judge
  <2>5. CASE last
    <3>1. volt' = step.outvol /\ step.outvol \in Nat /\ volt \in Nat
      BY <2>3, <2>4, <2>5, Converter, StepNumbers
    <3>2. QED
      BY <3>1
  <2>6. CASE ~last
    <3>1. p.Rise_Number >= 2
      BY <2>3, <2>6 DEF ParamType
    <3>2. /\ up \in 0..DAC_TOP
          /\ \/ p.Process_Value <= up /\ up <= step.outvol
             \/ p.Process_Value >= up /\ up >= step.outvol
      BY <2>3, <3>1, ClimbTick
    <3> HIDE DEF up
    <3>3. volt' = up
      BY <2>4, <2>6, <3>2 DEF SetVoltage
    <3>4. QED
      BY <2>3, <3>2, <3>3
  <2>7. QED
    BY <2>5, <2>6
<1>3. QED
  BY Invariant, StepClimbing, <1>1, <1>2, PTL DEF Spec, RampsTowards

-----------------------------------------------------------------------------
(* Where the fall goes                                                      *)

\* The ramp ended at the test voltage or short of it, never above.
FromBelow(s) == s.mode = "ACW" \/ s.startvol <= s.outvol

\* While nothing wrapped the value of the fall is at most the output; once it
\* wrapped it stays so high that the converter drops it.
FallsFrom(q, v, top) ==
  \/ q.Process_Value <= v /\ q.Down_Number * q.Down_Interval <= top + q.Process_Value
  \/ q.Down_Number * q.Down_Interval <= top + q.Process_Value - U16

Falling ==
  /\ p.Down_Interval = step.outvol \div AtLeast1(step.downtime)
  /\ phase \in {"WAIT", "RISE", "TESTING"} => p.Down_Number = AtLeast1(step.downtime)
  /\ phase = "TESTING" /\ FromBelow(step) => p.Process_Value <= step.outvol
  /\ phase = "DOWN" /\ ~stop /\ FromBelow(step) => FallsFrom(p, volt, step.outvol)

LEMMA WrappedDown ==
  ASSUME NEW a \in 0..U16 - 1, NEW b \in Nat
  PROVE  /\ b <= a => (a - b) % U16 = a - b
         /\ a < b /\ b - a <= U16 => (a - b) % U16 = a - b + U16
<1>1. ASSUME NEW x \in Int, x >= 0, x < 65536
      PROVE  x % 65536 = x
  BY <1>1
<1>2. ASSUME NEW x \in Int, x < 0, x >= -65536
      PROVE  x % 65536 = x + 65536
  BY <1>2
<1>3. a - b \in Int /\ a - b < 65536
  BY DEF U16
<1>4. QED
  BY <1>1, <1>2, <1>3 DEF U16

\* A tick of the fall that is not its last. The converter must take less than
\* half of what 16 bits hold, which its 4096 values of some 1.6 V do by far.
LEMMA FallTick ==
  ASSUME 2 * DAC_TOP < U16, volt \in 0..DAC_TOP, NEW top \in 0..DAC_TOP,
         NEW q \in ParamType, q.Down_Number >= 2, FallsFrom(q, volt, top)
  PROVE  LET down == (q.Process_Value - q.Down_Interval) % U16
         IN /\ SetVoltage(down) <= volt
            /\ \A t : /\ t.Process_Value = down /\ t.Down_Interval = q.Down_Interval
                      /\ t.Down_Number = q.Down_Number - 1
                      => FallsFrom(t, SetVoltage(down), top)
<1> DEFINE down == (q.Process_Value - q.Down_Interval) % U16
           pv == q.Process_Value
           d  == q.Down_Interval
           n  == q.Down_Number
<1>1. /\ pv \in 0..U16 - 1 /\ d \in Nat /\ n \in Nat /\ n >= 2 /\ U16 \in Nat
      /\ DAC_TOP \in Nat /\ volt \in Nat /\ volt <= DAC_TOP /\ top \in Nat /\ top <= DAC_TOP
      /\ 2 * DAC_TOP < U16
  <2>1. DAC_TOP \in Nat
    BY StepsAssumption
  <2>2. pv \in 0..U16 - 1 /\ d \in Nat /\ n \in Nat
    BY DEF ParamType
  <2>3. U16 \in Nat
    BY DEF U16
  <2> HIDE DEF pv, d
  <2>4. QED
    BY <2>1, <2>2, <2>3
<1>2. (n - 1) * d = n * d - d /\ n * d \in Int /\ (n - 1) * d >= d
  <2>1. (n - 1) * d = n * d - d /\ n * d \in Int
    BY <1>1, LessOne
  <2>2. n - 1 \in Nat /\ n - 1 >= 1
    BY <1>1
  <2>3. QED
    BY <1>1, <2>1, <2>2, AtLeastOnce
<1>3. /\ pv >= d => down = pv - d
      /\ pv < d /\ d - pv <= U16 => down = pv - d + U16
  BY <1>1, WrappedDown
<1>4. FallsFrom(q, volt, top) <=> \/ pv <= volt /\ n * d <= top + pv
                                  \/ n * d <= top + pv - U16
  BY DEF FallsFrom
<1>5. \A t : t.Process_Value = down /\ t.Down_Interval = d /\ t.Down_Number = n - 1
        => (FallsFrom(t, SetVoltage(down), top) <=>
              \/ down <= SetVoltage(down) /\ (n - 1) * d <= top + down
              \/ (n - 1) * d <= top + down - U16)
  BY DEF FallsFrom
<1> HIDE DEF down, pv, d, n
<1>6. CASE pv <= volt /\ n * d <= top + pv /\ d <= pv
  <2>1. down = pv - d /\ down <= DAC_TOP /\ down <= volt
    BY <1>1, <1>3, <1>6
  <2>2. SetVoltage(down) = down
    BY <2>1 DEF SetVoltage
  <2>3. (n - 1) * d <= top + down
    BY <1>1, <1>2, <1>6, <2>1
  <2>4. QED
    BY <1>1, <1>5, <2>1, <2>2, <2>3 DEF down, d, n
<1>7. CASE pv <= volt /\ n * d <= top + pv /\ d > pv
  <2>1. d <= U16 /\ 2 * d <= top + pv
    BY <1>1, <1>2, <1>7
  <2>2. down = pv - d + U16 /\ down > DAC_TOP
    BY <1>1, <1>3, <1>7, <2>1
  <2>3. SetVoltage(down) = volt
    BY <1>1, <2>2 DEF SetVoltage
  <2>4. (n - 1) * d <= top + down - U16
    BY <1>1, <1>2, <1>7, <2>2
  <2>5. QED
    BY <1>1, <1>5, <2>3, <2>4 DEF down, d, n
<1>8. CASE n * d <= top + pv - U16
  <2>1. (n - 1) * d <= top + pv - U16 - d /\ d <= (n - 1) * d
    BY <1>1, <1>2, <1>8
  <2>2. d <= pv /\ pv - d > DAC_TOP
    BY <1>1, <1>2, <2>1
  <2>3. down = pv - d /\ SetVoltage(down) = volt
    BY <1>1, <1>3, <2>2 DEF SetVoltage
  <2>4. (n - 1) * d <= top + down - U16
    BY <1>1, <1>2, <2>1, <2>3
  <2>5. QED
    BY <1>1, <1>5, <2>3, <2>4 DEF down, d, n
<1>9. QED
  BY <1>1, <1>4, <1>6, <1>7, <1>8

\* A tick of WAIT enters the test at the voltage of the step, or no test yet.
LEMMA WaitFalls ==
  ASSUME NEW s \in Steps, NEW q \in ParamType, WaitTick(q, s), step' = s,
         q.Down_Interval = s.outvol \div AtLeast1(s.downtime),
         q.Down_Number = AtLeast1(s.downtime)
  PROVE  Falling'
<1>1. \/ phase' \in {"WAIT", "RISE"}
            /\ (p' = [q EXCEPT !.Wait_Time = @ - 1] \/ p' = [q EXCEPT !.Wait_Time = 0])
      \/ phase' = "TESTING" /\ p' = [q EXCEPT !.Wait_Time = 0, !.Process_Value = s.outvol]
  BY DEF WaitTick
<1>2. /\ p'.Down_Interval = q.Down_Interval /\ p'.Down_Number = q.Down_Number
      /\ phase' = "TESTING" => p'.Process_Value = s.outvol
  BY <1>1 DEF ParamType
<1>3. s.outvol \in Nat
  BY StepNumbers
<1>4. QED
  BY <1>1, <1>2, <1>3 DEF Falling

\* Where the fall begins, for either routine: at the test voltage for ACW, at
\* the value of the last tick of the ramp but one for DCW.
LEMMA StepFalling ==
  ASSUME 2 * DAC_TOP < U16
  PROVE  IInv /\ Climbing /\ Falling /\ [Next]_vars => Falling'
<1> SUFFICES ASSUME IInv, Climbing, Falling, [Next]_vars
             PROVE  Falling'
  OBVIOUS
<1>1. /\ p \in ParamType /\ step \in Steps /\ volt \in 0..DAC_TOP
      /\ step.outvol \in 0..DAC_TOP /\ step.startvol \in Nat
  BY StepNumbers DEF IInv, TypeOK
<1>2. ASSUME NEW s \in Steps, Enter(s)
      PROVE  Falling'
  <2>1. step' = s /\ WaitTick(Entered(s), s)
    BY <1>2 DEF Enter
  <2>2. /\ Entered(s) \in ParamType /\ Entered(s).Down_Number = AtLeast1(s.downtime)
        /\ Entered(s).Down_Interval = s.outvol \div AtLeast1(s.downtime)
    BY EnteredType DEF Entered
  <2>3. QED
    BY <2>1, <2>2, WaitFalls
<1>3. CASE Wait
  <2>1. step' = step /\ WaitTick(p, step) /\ phase = "WAIT"
    BY <1>3 DEF Wait
  <2>2. QED
    BY <1>1, <2>1, WaitFalls DEF Falling
<1>4. ASSUME NEW c \in Currents, Rise(c)
      PROVE  Falling'
  <2> DEFINE last == p.Rise_Number = 1
             up   == (p.Process_Value + p.Rise_Interval) % U16
             x    == Corrected(c)
  <2>1. /\ phase = "RISE" /\ step' = step
        /\ Judge(Upper(x, p.real), IF last THEN "TESTING" ELSE "RISE",
                 SetVoltage(IF last THEN step.outvol ELSE up))
    BY <1>4 DEF Rise
  <2>2. /\ p'.Down_Interval = p.Down_Interval /\ p'.Down_Number = p.Down_Number
        /\ last => p'.Process_Value = IF step.mode = "ACW" THEN step.outvol
                                      ELSE p.Process_Value
    BY <1>1, <1>4 DEF Rise, ParamType
  <2>3. phase' \in {"OUT", "RISE", "TESTING"} /\ (phase' = "TESTING" => last)
    BY <2>1 DEF Judge
  <2>4. last /\ step.startvol <= step.outvol => p.Process_Value <= step.outvol
    <3>1. ASSUME last, step.startvol <= step.outvol
          PROVE  p.Process_Value <= step.outvol
      <4>1. Slope(step) >= 0 /\ p.Process_Value + 1 * Slope(step) <= step.outvol
        BY <2>1, <3>1 DEF Climbing, Climb
      <4>2. Slope(step) \in Int /\ p.Process_Value \in Int
        BY <1>1, EnteredClimb DEF ParamType
      <4>3. QED
        BY <1>1, <4>1, <4>2
    <3>2. QED
      BY <3>1
  <2>5. QED
    BY <1>1, <2>1, <2>2, <2>3, <2>4 DEF Falling, FromBelow
<1>5. ASSUME NEW c \in Currents, Testing(c)
      PROVE  Falling'
  <2>1. /\ phase = "TESTING" /\ step' = step /\ phase' \in {"OUT", "TESTING"}
        /\ p'.Down_Interval = p.Down_Interval /\ p'.Down_Number = p.Down_Number
        /\ p'.Process_Value = p.Process_Value
    BY <1>1, <1>5 DEF Testing, Judge, ParamType
  <2>2. QED
    BY <2>1 DEF Falling
<1>6. ASSUME NEW c \in Currents, NEW v, Expire(c, v)
      PROVE  Falling'
  <2>1. /\ phase = "TESTING" /\ ~stop /\ step' = step
        /\ p'.Down_Interval = p.Down_Interval /\ p'.Down_Number = p.Down_Number
        /\ p'.Process_Value = p.Process_Value
    BY <1>1, <1>6 DEF Expire, ParamType
  <2>2. /\ phase' \notin {"WAIT", "RISE", "TESTING"}
        /\ phase' = "DOWN" => volt' = volt
    BY <1>6 DEF Expire, Judge, AfterTest
  <2>3. volt = step.outvol
    BY <2>1 DEF IInv, AtTestVoltage
  <2>4. FromBelow(step) => FallsFrom(p, volt, step.outvol)
    <3>1. ASSUME FromBelow(step)
          PROVE  FallsFrom(p, volt, step.outvol)
      <4>1. p.Process_Value <= step.outvol /\ p.Process_Value \in Nat
        <5>1. p.Process_Value <= step.outvol
          BY <2>1, <3>1 DEF Falling
        <5>2. p.Process_Value \in 0..U16 - 1
          BY <1>1 DEF ParamType
        <5>3. U16 - 1 = 65535
          BY DEF U16
        <5>4. p.Process_Value \in Nat
          BY <5>2, <5>3
        <5>5. QED
          BY <5>1, <5>4
      <4>2. AtLeast1(step.downtime) \in Nat \ {0}
        BY <1>1, StepNumbers DEF AtLeast1
      <4>3. /\ AtLeast1(step.downtime) * (step.outvol \div AtLeast1(step.downtime)) <= step.outvol
            /\ step.outvol \div AtLeast1(step.downtime) \in Nat
        BY <1>1, <4>2, DivisionBelow
      <4>4. p.Down_Number * p.Down_Interval <= step.outvol
        BY <2>1, <4>3 DEF Falling
      <4>5. p.Down_Number * p.Down_Interval \in Nat
        BY <1>1 DEF ParamType
      <4>6. p.Down_Number * p.Down_Interval <= step.outvol + p.Process_Value
        BY <1>1, <4>1, <4>4, <4>5
      <4>7. QED
        BY <2>3, <4>1, <4>6 DEF FallsFrom
    <3>2. QED
      BY <3>1
  <2>5. FallsFrom(p', volt', step.outvol) <=> FallsFrom(p, volt', step.outvol)
    BY <2>1 DEF FallsFrom
  <2>6. FallsFrom(p, volt, step.outvol)' <=> FallsFrom(p', volt', step.outvol)
    BY <2>1 DEF FallsFrom
  <2>7. QED
    BY <2>1, <2>2, <2>4, <2>5, <2>6 DEF Falling, FromBelow
<1>7. ASSUME NEW c \in Currents, Down(c)
      PROVE  Falling'
  <2> DEFINE last == p.Down_Number = 1
             down == (p.Process_Value - p.Down_Interval) % U16
             x    == Corrected(c)
  <2>1. phase = "DOWN" /\ ~stop /\ step' = step
    BY <1>7 DEF Down
  <2>2. PICK r : /\ Judge(Upper(x, r), IF last THEN AfterTest ELSE "DOWN",
                          IF last THEN 0 ELSE SetVoltage(down))
                 /\ p' = [p EXCEPT !.Down_Number = @ - 1,
                             !.Process_Value = IF last THEN @ ELSE down,
                             !.current = x,
                             !.real = IF phase' \in {"PAUSE", "OUT"} /\ step.rmscur > 0 THEN 0 ELSE r]
    BY <1>7 DEF Down
  <2>3. /\ p'.Down_Interval = p.Down_Interval /\ p'.Down_Number = p.Down_Number - 1
        /\ ~last => p'.Process_Value = down
    BY <1>1, <2>2 DEF ParamType
  <2>4. /\ phase' \notin {"WAIT", "RISE", "TESTING"}
        /\ phase' = "DOWN" => ~last /\ volt' = SetVoltage(down)
    BY <2>2 DEF Judge, AfterTest
  <2>5. ~last => p.Down_Number >= 2
    BY <1>1, <2>1 DEF IInv, Counting, ParamType
  <2>6. FromBelow(step) /\ ~last => FallsFrom(p', SetVoltage(down), step.outvol)
    <3>1. ASSUME FromBelow(step), ~last
          PROVE  FallsFrom(p', SetVoltage(down), step.outvol)
      <4>1. FallsFrom(p, volt, step.outvol) /\ p.Down_Number >= 2
        BY <2>1, <2>5, <3>1 DEF Falling
      <4>2. QED
        BY <1>1, <2>3, <3>1, <4>1, FallTick
    <3>2. QED
      BY <3>1
  <2> HIDE DEF down
  <2>7. FallsFrom(p, volt, step.outvol)' <=> FallsFrom(p', volt', step.outvol)
    BY <2>1 DEF FallsFrom
  <2>8. QED
    BY <2>1, <2>3, <2>4, <2>6, <2>7 DEF Falling, FromBelow
<1>8. CASE Pause \/ Stop
  <2>1. /\ step' = step /\ p'.Down_Interval = p.Down_Interval
        /\ phase' \notin {"WAIT", "RISE", "TESTING", "DOWN"}
    BY <1>1, <1>8 DEF Pause, Stop, ParamType
  <2>2. QED
    BY <2>1 DEF Falling
<1>9. CASE StopKey
  <2>1. phase' = phase /\ p' = p /\ step' = step /\ stop' = TRUE
    BY <1>9 DEF StopKey
  <2>2. QED
    BY <2>1 DEF Falling, FromBelow
<1>10. CASE UNCHANGED vars
  BY <1>10 DEF vars, Falling, FromBelow, FallsFrom
<1>11. QED
  BY <1>2, <1>3, <1>4, <1>5, <1>6, <1>7, <1>8, <1>9, <1>10 DEF Next, Tick

\* With any times and voltages, the fall takes the output down although the
\* 16-bit value it is computed with may wrap, provided the converter reaches
\* less than half of what 16 bits hold.
THEOREM FallNeverRises ==
  ASSUME 2 * DAC_TOP < U16
  PROVE  Spec => Falls
<1> DEFINE Lowers == phase = "DOWN" /\ (step.mode = "ACW" \/ step.startvol <= step.outvol)
                       => volt' <= volt
<1>1. Init => Climbing /\ Falling
  <2>1. ASSUME Init
        PROVE  Falling
    <3>1. /\ p = Entered(step) /\ step \in Steps /\ phase = "OUT"
      BY <2>1 DEF Init
    <3>2. p.Down_Interval = step.outvol \div AtLeast1(step.downtime)
      BY <3>1 DEF Entered
    <3>3. QED
      BY <3>1, <3>2 DEF Falling
  <2>2. QED
    BY <2>1 DEF Init, Climbing
<1>2. IInv /\ Climbing /\ Falling /\ [Next]_vars => Falling'
  BY StepFalling
<1>3. ASSUME IInv, Falling, [Next]_vars
      PROVE  [Lowers]_vars
  <2>1. SUFFICES ASSUME phase = "DOWN", FromBelow(step), Next
                 PROVE  volt' <= volt
    BY <1>3 DEF FromBelow
  <2>2. /\ p \in ParamType /\ step \in Steps /\ volt \in 0..DAC_TOP
        /\ step.outvol \in 0..DAC_TOP /\ DAC_TOP \in Nat
    BY <1>3, StepNumbers DEF IInv, TypeOK
  <2>3. CASE volt' = 0
    BY <2>2, <2>3
  <2>4. CASE \E c \in Currents : Down(c)
    <3>1. PICK c \in Currents : Down(c)
      BY <2>4
    <3> DEFINE down == (p.Process_Value - p.Down_Interval) % U16
    <3>2. volt' = 0 \/ (p.Down_Number # 1 /\ volt' = SetVoltage(down))
      BY <3>1 DEF Down, Judge
    <3>3. ~stop /\ p.Down_Number >= 1 /\ FallsFrom(p, volt, step.outvol)
      BY <1>3, <2>1, <3>1 DEF Down, IInv, Counting, Falling
    <3>4. CASE p.Down_Number # 1 /\ volt' = SetVoltage(down)
      <4>1. p.Down_Number >= 2
        BY <2>2, <3>3, <3>4 DEF ParamType
      <4>2. QED
        BY <2>2, <3>3, <3>4, <4>1, FallTick
    <3>5. QED
      BY <2>3, <3>2, <3>4
  <2>5. QED
    BY <2>1, <2>3, <2>4
       DEF Next, Tick, Wait, Pause, Stop, Rise, Testing, Expire, StopKey, Enter
<1>4. QED
  BY Invariant, StepClimbing, <1>1, <1>2, <1>3, PTL DEF Spec, Falls
=============================================================================
