-------------------------- MODULE StepParamsProofs --------------------------
(***************************************************************************)
(* The limits of a step keep their order, whatever is typed, for every set *)
(* of numbers and every largest current of the ground-bond source.         *)
(***************************************************************************)
EXTENDS StepParams, TLAPS

Inv == TypeOK /\ LimitsOrdered /\ GrPower /\ SwitchOrder

\* A word is a number that fits.
LEMMA WordMax == WORD_MAX \in Nat /\ WORD_MAX > 9999
BY DEF WORD_MAX

LEMMA Words ==
  /\ \A n \in Word : n \in Nat /\ n <= WORD_MAX
  /\ \A n \in Nat : n <= WORD_MAX => n \in Word
BY WordMax DEF Word

\* More resistance at a current asks for more voltage.
LEMMA VoltageGrows ==
  ASSUME NEW a \in Nat, NEW b \in Nat, NEW c \in Nat, a <= b
  PROVE  Voltage(a, c) \in Nat /\ Voltage(b, c) \in Nat /\ Voltage(a, c) <= Voltage(b, c)
<1>1. PICK d \in Nat : b = a + d
  OBVIOUS
<1>2. b * c = a * c + d * c /\ d * c >= 0 /\ a * c \in Nat /\ d * c \in Nat
  BY <1>1
<1>3. QED
  BY <1>2 DEF Voltage

\* The quotient, without \div, for the solver.
LEMMA Quotient ==
  ASSUME NEW n \in Nat, NEW c \in Nat \ {0}
  PROVE  /\ n \div c \in Nat
         /\ (n \div c) * c <= n
         /\ n < (n \div c + 1) * c
  OBVIOUS

\* What the source has left at a current.
LEMMA MaxRes ==
  ASSUME NEW c \in 30..GR_CUR_MAX
  PROVE  /\ max_res(c) \in Nat /\ 150 <= max_res(c) /\ max_res(c) <= 2000
         /\ Voltage(max_res(c), c) <= Voltage(GR_MAX_CUR_RES, GR_CUR_MAX)
<1> DEFINE n == Voltage(GR_MAX_CUR_RES, GR_CUR_MAX)
           q == max_res(c)
<1>1. GR_CUR_MAX \in 150..400
  BY ParamsAssumption
<1>2. n \in Nat /\ n = 150 * GR_CUR_MAX /\ n <= 60000
  BY <1>1 DEF Voltage, GR_MAX_CUR_RES
<1>3. c \in Nat \ {0} /\ c >= 30 /\ c <= GR_CUR_MAX
  BY <1>1
<1>4. q \in Nat /\ q * c <= n /\ n < (q + 1) * c
  BY <1>2, <1>3, Quotient DEF max_res
<1>5. q >= 150
  <2>1. SUFFICES ASSUME q + 1 <= 150
                 PROVE  FALSE
    BY <1>4
  <2>2. (q + 1) * c <= 150 * c
    BY <1>3, <1>4, <2>1, VoltageGrows DEF Voltage
  <2>3. 150 * c <= n
    BY <1>1, <1>2, <1>3
  <2>4. QED
    BY <1>2, <1>3, <1>4, <2>2, <2>3
<1>6. q <= 2000
  <2>1. 30 * q <= q * c
    BY <1>3, <1>4, VoltageGrows DEF Voltage
  <2>2. QED
    BY <1>2, <1>4, <2>1
<1>7. Voltage(q, c) <= n
  BY <1>4 DEF Voltage
<1>8. QED
  BY <1>4, <1>5, <1>6, <1>7

\* A number field keeps its number or ends up in its range.
LEMMA NumInput ==
  ASSUME NEW num \in Nat, NEW e \in Entries \cup {Exit},
         NEW min \in Nat, NEW max \in Nat, min <= max
  PROVE  \/ num_input(num, e, min, max) = num
         \/ /\ num_input(num, e, min, max) \in Nat
            /\ min <= num_input(num, e, min, max)
            /\ num_input(num, e, min, max) <= max
<1>1. e = Exit \/ e \in Nat
  BY ParamsAssumption DEF Digits
<1>2. QED
  BY <1>1 DEF num_input, AtMost, Exit

\* n - 1 in a word, and the low limit that is brought below a high one.
LEMMA LowOrdered ==
  ASSUME NEW high \in Nat, high <= WORD_MAX, NEW low \in Nat, low <= WORD_MAX
  PROVE  /\ Less1(high) \in Nat /\ Less1(high) <= WORD_MAX
         /\ high > 0 => Less1(high) = high - 1
         /\ LowUnder(high, low) \in Nat /\ LowUnder(high, low) <= WORD_MAX
         /\ high > 0 => LowUnder(high, low) < high
<1>1. high > 0 => Less1(high) = high - 1
  BY DEF Less1, WORD_MAX
<1>2. Less1(high) \in Nat /\ Less1(high) <= WORD_MAX
  BY DEF Less1, WORD_MAX
<1>3. QED
  BY <1>1, <1>2 DEF LowUnder

\* The smaller of two numbers.
LEMMA Smaller ==
  ASSUME NEW a \in Nat, NEW b \in Nat
  PROVE  AtMost(a, b) \in {a, b} /\ AtMost(a, b) <= a /\ AtMost(a, b) <= b
BY DEF AtMost

\* The numbers of a step.
LEMMA Fields ==
  ASSUME Inv
  PROVE  /\ step \in UN_STR /\ step.mode \in EnabledModes
         /\ step.high \in Nat /\ step.high <= WORD_MAX /\ step.low \in Nat /\ step.low <= WORD_MAX
         /\ step.aux \in Nat /\ step.aux <= WORD_MAX
         /\ step.mode = "GR" => step.outcur \in 30..GR_CUR_MAX
         /\ step.high = 0 => step.mode \in {"DCW", "LC"}
<1>1. /\ step \in UN_STR
      /\ step.mode = "GR" => step.outcur \in 30..GR_CUR_MAX
  BY DEF Inv, TypeOK
<1>2. /\ step.mode \in EnabledModes /\ step.high \in Word /\ step.low \in Word
      /\ step.aux \in Word /\ step.outcur \in Word
  BY <1>1 DEF UN_STR
<1>3. step.high = 0 => step.mode \in {"DCW", "LC"}
  <2>1. step.high \in Nat /\ step.low \in Nat
    BY <1>2, Words
  <2>2. QED
    BY <2>1 DEF Inv, LimitsOrdered
<1>4. QED
  BY <1>1, <1>2, <1>3, Words

\* The high limit a window ends with.
High(e) == num_input(HighBefore(step), e, HighMin(step.mode), HighMax(step))

\* It keeps to its word, and to the source of a ground-bond step.
LEMMA HighInput ==
  ASSUME Inv, NEW e \in Entries \cup {Exit}
  PROVE  /\ High(e) \in Nat /\ High(e) <= WORD_MAX
         /\ High(e) = 0 => step.mode \in {"DCW", "LC"}
         /\ step.mode = "GR" =>
              Voltage(High(e), step.outcur) <= Voltage(GR_MAX_CUR_RES, GR_CUR_MAX)
<1>1. /\ step.high \in Nat /\ step.high <= WORD_MAX /\ step.mode \in EnabledModes
      /\ step.mode = "GR" => step.outcur \in 30..GR_CUR_MAX
      /\ step.high = 0 => step.mode \in {"DCW", "LC"}
  BY Fields
<1>2. CASE step.mode = "GR"
  <2> DEFINE r == max_res(step.outcur)
  <2>1. /\ r \in Nat /\ 150 <= r
        /\ Voltage(r, step.outcur) <= Voltage(GR_MAX_CUR_RES, GR_CUR_MAX)
        /\ step.outcur \in Nat
    <3>1. step.outcur \in Nat
      BY <1>1, <1>2, ParamsAssumption
    <3>2. QED
      BY <1>1, <1>2, <3>1, MaxRes
  <2> HIDE DEF r
  <2>2. HighBefore(step) = step.high /\ HighMin(step.mode) = 1
    BY <1>2 DEF HighBefore, HighMin
  <2>3. /\ HighMax(step) \in Nat /\ 1 <= HighMax(step) /\ HighMax(step) <= 510
        /\ HighMax(step) <= r
    <3>1. HighMax(step) = AtMost(r, 510)
      BY <1>2 DEF HighMax, r
    <3>2. QED
      BY <2>1, <3>1, Smaller
  <2>4. \/ High(e) = step.high
        \/ High(e) \in Nat /\ 1 <= High(e) /\ High(e) <= HighMax(step)
    BY <1>1, <2>2, <2>3, NumInput DEF High
  <2>5. CASE High(e) = step.high
    <3>1. Voltage(step.high, step.outcur) <= Voltage(GR_MAX_CUR_RES, GR_CUR_MAX)
      BY <1>2 DEF Inv, GrPower
    <3>2. QED
      BY <1>1, <2>5, <3>1
  <2>6. CASE High(e) \in Nat /\ 1 <= High(e) /\ High(e) <= HighMax(step)
    <3>1. High(e) <= r
      BY <2>1, <2>3, <2>6
    <3>2. /\ Voltage(High(e), step.outcur) \in Nat /\ Voltage(r, step.outcur) \in Nat
          /\ Voltage(High(e), step.outcur) <= Voltage(r, step.outcur)
      BY <2>1, <2>6, <3>1, VoltageGrows
    <3>3. Voltage(GR_MAX_CUR_RES, GR_CUR_MAX) \in Nat
      BY ParamsAssumption DEF Voltage, GR_MAX_CUR_RES
    <3>4. Voltage(High(e), step.outcur) <= Voltage(GR_MAX_CUR_RES, GR_CUR_MAX)
      BY <2>1, <3>2, <3>3
    <3>5. QED
      BY <2>3, <2>6, <3>4, WordMax
  <2>7. QED
    BY <2>4, <2>5, <2>6
<1>3. CASE step.mode # "GR"
  <2>1. HighMin(step.mode) \in {0, 1} /\ (HighMin(step.mode) = 0 => step.mode \in {"DCW", "LC"})
    BY <1>1, <1>3 DEF HighMin, EnabledModes
  <2>2. HighMax(step) \in {1000, 2000}
    BY <1>3 DEF HighMax
  <2>3. /\ HighBefore(step) \in Nat /\ HighBefore(step) <= WORD_MAX
        /\ HighBefore(step) = 0 => step.high = 0
    <3>1. HighBefore(step) \in {AtMost(step.high, 1000), AtMost(step.high, 2000)}
      BY <1>3 DEF HighBefore
    <3>2. /\ AtMost(step.high, 1000) \in {step.high, 1000}
          /\ AtMost(step.high, 2000) \in {step.high, 2000}
      BY <1>1, Smaller
    <3>3. QED
      BY <1>1, <3>1, <3>2, WordMax
  <2>4. \/ High(e) = HighBefore(step)
        \/ /\ High(e) \in Nat /\ HighMin(step.mode) <= High(e)
           /\ High(e) <= HighMax(step)
    BY <2>1, <2>2, <2>3, NumInput DEF High
  <2>5. CASE High(e) = HighBefore(step)
    BY <1>1, <1>3, <2>3, <2>5
  <2>6. CASE High(e) \in Nat /\ HighMin(step.mode) <= High(e) /\ High(e) <= HighMax(step)
    BY <1>3, <2>1, <2>2, <2>6, WordMax
  <2>7. QED
    BY <2>4, <2>5, <2>6
<1>4. QED
  BY <1>2, <1>3

\* What the invariant asks of the next step, field by field.
LEMMA Collect ==
  ASSUME step' \in UN_STR,
         step'.gear \in Gears(step'.mode),
         step'.mode = "GR" => step'.outcur \in 30..GR_CUR_MAX,
         step'.low < step'.high \/ (step'.high = 0 /\ step'.mode \in {"DCW", "LC"}),
         step'.mode = "GR" =>
           Voltage(step'.high, step'.outcur) <= Voltage(GR_MAX_CUR_RES, GR_CUR_MAX),
         step'.SL => step'.SH
  PROVE  Inv'
BY DEF Inv, TypeOK, LimitsOrdered, GrPower, SwitchOrder

\* A fresh step of any mode.
LEMMA Fresh ==
  ASSUME NEW mode \in EnabledModes
  PROVE  LET s == InitStep(mode)
         IN  /\ s \in UN_STR
             /\ s.gear \in Gears(s.mode)
             /\ s.mode = "GR" => s.outcur \in 30..GR_CUR_MAX
             /\ s.low < s.high
             /\ s.mode = "GR" =>
                  Voltage(s.high, s.outcur) <= Voltage(GR_MAX_CUR_RES, GR_CUR_MAX)
             /\ s.SL => s.SH
<1> DEFINE s == InitStep(mode)
<1>1. /\ s.mode = mode /\ s.gear = I3mA /\ s.low = 0 /\ s.aux = 0
      /\ s.SL = FALSE /\ s.SH = FALSE
      /\ s.high \in {100, 500} /\ s.outcur \in {0, 100}
      /\ mode = "GR" => s.high = 100 /\ s.outcur = 100
  BY DEF InitStep
<1>2. s \in UN_STR
  <2>1. 0 \in Word /\ 100 \in Word /\ 500 \in Word
    BY Words, WordMax
  <2>2. I3mA \in I3uA..I30mA
    BY DEF I3mA, I3uA, I30mA
  <2>3. QED
    BY <2>1, <2>2 DEF InitStep, UN_STR
<1>3. I3mA \in Gears(mode)
  BY DEF Gears, I3mA, I3uA, I30mA, I300uA
<1>4. 100 \in 30..GR_CUR_MAX
  BY ParamsAssumption
<1>5. Voltage(100, 100) <= Voltage(GR_MAX_CUR_RES, GR_CUR_MAX)
  BY ParamsAssumption DEF Voltage, GR_MAX_CUR_RES
<1>6. s.low < s.high
  BY <1>1
<1>7. QED
  BY <1>1, <1>2, <1>3, <1>4, <1>5, <1>6

LEMMA SetGearKeeps ==
  ASSUME Inv, NEW gear \in I3uA..I30mA, NEW enter \in BOOLEAN, SetGear(gear, enter)
  PROVE  Inv'
<1> DEFINE high == GearHigh(step.mode, gear)
           low  == LowUnder(high, step.low)
<1>1. /\ step \in UN_STR /\ step.low \in Nat /\ step.low <= WORD_MAX
      /\ step.high = 0 => step.mode \in {"DCW", "LC"}
  BY Fields
<1>2. step.mode # "GR" /\ gear \in Gears(step.mode)
  BY DEF SetGear
<1>3. high \in {200, 500}
  BY DEF GearHigh
<1> HIDE DEF high
<1>4. low \in Nat /\ low <= WORD_MAX /\ low < high
  <2>1. high \in Nat /\ high <= WORD_MAX /\ high > 0
    BY <1>3, WordMax
  <2>2. QED
    BY <1>1, <2>1, LowOrdered
<1>5. high \in Word /\ low \in Word
  BY <1>3, <1>4, Words, WordMax
<1> HIDE DEF low
<1>6. CASE enter
  <2>1. step' = [step EXCEPT !.gear = gear, !.high = high, !.low = low]
    BY <1>6 DEF SetGear, high, low
  <2>2. /\ step' \in UN_STR /\ step'.mode = step.mode /\ step'.gear = gear
        /\ step'.high = high /\ step'.low = low /\ step'.SL = step.SL /\ step'.SH = step.SH
    BY <1>1, <1>5, <2>1 DEF UN_STR
  <2>3. QED
    BY <1>2, <1>4, <2>2, Collect DEF Inv, SwitchOrder
<1>7. CASE ~enter
  <2>1. step' = [step EXCEPT !.gear = gear]
    BY <1>7 DEF SetGear
  <2>2. /\ step' \in UN_STR /\ step'.mode = step.mode /\ step'.gear = gear
        /\ step'.high = step.high /\ step'.low = step.low
        /\ step'.SL = step.SL /\ step'.SH = step.SH
    BY <1>1, <2>1 DEF UN_STR
  <2>3. QED
    BY <1>2, <2>2, Collect DEF Inv, SwitchOrder, LimitsOrdered
<1>8. QED
  BY <1>6, <1>7

LEMMA SetHighKeeps ==
  ASSUME Inv, NEW e \in Entries \cup {Exit}, SetHigh(e)
  PROVE  Inv'
<1> DEFINE low == LowUnder(High(e), step.low)
<1>1. /\ step \in UN_STR /\ step.low \in Nat /\ step.low <= WORD_MAX
      /\ step.mode = "GR" => step.outcur \in 30..GR_CUR_MAX
  BY Fields
<1>2. step' = [step EXCEPT !.high = High(e), !.low = low]
  BY DEF SetHigh, High
<1>3. /\ High(e) \in Nat /\ High(e) <= WORD_MAX
      /\ High(e) = 0 => step.mode \in {"DCW", "LC"}
      /\ step.mode = "GR" =>
           Voltage(High(e), step.outcur) <= Voltage(GR_MAX_CUR_RES, GR_CUR_MAX)
  BY HighInput
<1>4. low \in Nat /\ low <= WORD_MAX /\ (High(e) > 0 => low < High(e))
  BY <1>1, <1>3, LowOrdered
<1>5. High(e) \in Word /\ low \in Word
  BY <1>3, <1>4, Words
<1>6. /\ step' \in UN_STR /\ step'.mode = step.mode /\ step'.gear = step.gear
      /\ step'.high = High(e) /\ step'.low = low /\ step'.outcur = step.outcur
      /\ step'.SL = step.SL /\ step'.SH = step.SH
  BY <1>1, <1>2, <1>5 DEF UN_STR
<1>7. low < High(e) \/ High(e) = 0
  BY <1>3, <1>4
<1>8. step.gear \in Gears(step.mode) /\ (step.SL => step.SH)
  BY DEF Inv, TypeOK, SwitchOrder
<1>9. QED
  BY <1>1, <1>3, <1>6, <1>7, <1>8, Collect

LEMMA SetLowKeeps ==
  ASSUME Inv, NEW e \in Entries \cup {Exit}, SetLow(e)
  PROVE  Inv'
<1> DEFINE low == num_input(LowBefore(step), e, 0, Less1(step.high))
<1>1. /\ step \in UN_STR /\ step.low \in Nat /\ step.low <= WORD_MAX
      /\ step.high \in Nat /\ step.high <= WORD_MAX
      /\ step.mode = "GR" => step.outcur \in 30..GR_CUR_MAX
      /\ step.low < step.high \/ (step.high = 0 /\ step.mode \in {"DCW", "LC"})
  BY Fields DEF Inv, LimitsOrdered
<1>2. step' = [step EXCEPT !.low = low]
  BY DEF SetLow
<1>3. /\ LowBefore(step) \in Nat /\ LowBefore(step) <= step.low
  <2>1. LowBefore(step) \in {step.low, AtMost(step.low, 3000), AtMost(step.low, step.high)}
    BY DEF LowBefore
  <2>2. /\ AtMost(step.low, 3000) \in {step.low, 3000} /\ AtMost(step.low, 3000) <= step.low
        /\ AtMost(step.low, step.high) \in {step.low, step.high}
        /\ AtMost(step.low, step.high) <= step.low
    BY <1>1, Smaller
  <2>3. QED
    BY <1>1, <2>1, <2>2
<1>4. /\ Less1(step.high) \in Nat /\ Less1(step.high) <= WORD_MAX
      /\ step.high > 0 => Less1(step.high) = step.high - 1
  BY <1>1, LowOrdered
<1>5. \/ low = LowBefore(step)
      \/ low \in Nat /\ 0 <= low /\ low <= Less1(step.high)
  BY <1>3, <1>4, NumInput
<1> HIDE DEF low
<1>6. low \in Nat /\ low <= WORD_MAX
  BY <1>1, <1>3, <1>4, <1>5, WordMax
<1>7. low < step.high \/ (step.high = 0 /\ step.mode \in {"DCW", "LC"})
  BY <1>1, <1>3, <1>4, <1>5
<1>8. /\ step' \in UN_STR /\ step'.mode = step.mode /\ step'.gear = step.gear
      /\ step'.high = step.high /\ step'.low = low /\ step'.outcur = step.outcur
      /\ step'.SL = step.SL /\ step'.SH = step.SH
  <2>1. low \in Word
    BY <1>6, Words
  <2>2. QED
    BY <1>1, <1>2, <2>1 DEF UN_STR
<1>9. /\ step.gear \in Gears(step.mode) /\ (step.SL => step.SH)
      /\ step.mode = "GR" =>
           Voltage(step.high, step.outcur) <= Voltage(GR_MAX_CUR_RES, GR_CUR_MAX)
  BY DEF Inv, TypeOK, SwitchOrder, GrPower
<1>10. QED
  BY <1>1, <1>7, <1>8, <1>9, Collect

LEMMA SetAuxKeeps ==
  ASSUME Inv, NEW e \in Entries \cup {Exit}, SetAux(e)
  PROVE  Inv'
<1>1. /\ step \in UN_STR /\ step.aux \in Nat /\ step.aux <= WORD_MAX
      /\ step.high \in Nat /\ step.high <= WORD_MAX
  BY Fields
<1>2. PICK top \in {step.high, 3000} :
        /\ step.mode \in {"ACW", "DCW"}
        /\ step' = [step EXCEPT !.aux = num_input(AtMost(@, top), e, 0, top)]
  BY DEF SetAux
<1> DEFINE aux == num_input(AtMost(step.aux, top), e, 0, top)
<1>3. top \in Nat /\ top <= WORD_MAX
  BY <1>1, WordMax
<1>4. AtMost(step.aux, top) \in Nat /\ AtMost(step.aux, top) <= WORD_MAX
  BY <1>1, <1>3, Smaller
<1>5. aux \in Nat /\ aux <= WORD_MAX
  <2>1. aux = AtMost(step.aux, top) \/ (aux \in Nat /\ aux <= top)
    BY <1>3, <1>4, NumInput
  <2> HIDE DEF aux
  <2>2. QED
    BY <1>3, <1>4, <2>1, WordMax
<1>6. aux \in Word
  BY <1>5, Words
<1>7. step' = [step EXCEPT !.aux = aux]
  BY <1>2
<1> HIDE DEF aux
<1>8. /\ step' \in UN_STR /\ step'.mode = step.mode /\ step'.gear = step.gear
      /\ step'.high = step.high /\ step'.low = step.low /\ step'.outcur = step.outcur
      /\ step'.SL = step.SL /\ step'.SH = step.SH
  BY <1>1, <1>6, <1>7 DEF UN_STR
<1>9. QED
  BY <1>8, Collect DEF Inv, TypeOK, LimitsOrdered, GrPower, SwitchOrder

LEMMA SetCurrentKeeps ==
  ASSUME Inv, NEW e \in Entries \cup {Exit}, SetCurrent(e)
  PROVE  Inv'
<1> DEFINE outcur == num_input(step.outcur, e, 30, GR_CUR_MAX)
           r      == max_res(outcur)
           high   == AtMost(step.high, r)
           low    == AtMost(step.low, r - 1)
<1>1. /\ step \in UN_STR /\ step.low \in Nat /\ step.low <= WORD_MAX
      /\ step.high \in Nat /\ step.high <= WORD_MAX /\ step.mode = "GR"
      /\ step.outcur \in 30..GR_CUR_MAX /\ step.high # 0
  BY Fields DEF SetCurrent
<1>2. step' = [step EXCEPT !.outcur = outcur, !.high = high, !.low = low]
  BY DEF SetCurrent
<1>3. GR_CUR_MAX \in Nat /\ GR_CUR_MAX >= 150 /\ GR_CUR_MAX <= 400
  BY ParamsAssumption
<1>4. outcur \in 30..GR_CUR_MAX
  <2>1. step.outcur \in Nat
    BY <1>1, <1>3
  <2>2. outcur = step.outcur \/ (outcur \in Nat /\ 30 <= outcur /\ outcur <= GR_CUR_MAX)
    <3>1. 30 \in Nat /\ 30 <= GR_CUR_MAX
      BY <1>3
    <3>2. QED
      BY <1>3, <2>1, <3>1, NumInput
  <2> HIDE DEF outcur
  <2>3. CASE outcur = step.outcur
    BY <1>1, <2>3
  <2>4. CASE outcur \in Nat /\ 30 <= outcur /\ outcur <= GR_CUR_MAX
    BY <1>3, <2>4
  <2>5. QED
    BY <2>2, <2>3, <2>4
<1> HIDE DEF outcur
<1>5. /\ r \in Nat /\ 150 <= r
      /\ Voltage(r, outcur) <= Voltage(GR_MAX_CUR_RES, GR_CUR_MAX)
  BY <1>4, MaxRes
<1> HIDE DEF r
<1>6. /\ high \in {step.high, r} /\ high <= step.high /\ high <= r
      /\ low \in {step.low, r - 1} /\ low <= step.low /\ low <= r - 1
  BY <1>1, <1>5, Smaller
<1> HIDE DEF high, low
<1>7. high \in Word /\ low \in Word /\ outcur \in Word
  <2>1. high \in Nat /\ high <= WORD_MAX /\ low \in Nat /\ low <= WORD_MAX
    BY <1>1, <1>5, <1>6, WordMax
  <2>2. outcur \in Nat /\ outcur <= WORD_MAX
    BY <1>3, <1>4, WordMax
  <2>3. QED
    BY <2>1, <2>2, Words
<1>8. low < high
  <2>1. step.low < step.high
    BY <1>1 DEF Inv, LimitsOrdered
  <2>2. QED
    BY <1>1, <1>5, <1>6, <2>1
<1>9. Voltage(high, outcur) <= Voltage(GR_MAX_CUR_RES, GR_CUR_MAX)
  <2>1. high \in Nat /\ outcur \in Nat
    BY <1>7, Words
  <2>2. /\ Voltage(high, outcur) \in Nat /\ Voltage(r, outcur) \in Nat
        /\ Voltage(high, outcur) <= Voltage(r, outcur)
    BY <1>5, <1>6, <2>1, VoltageGrows
  <2>3. Voltage(GR_MAX_CUR_RES, GR_CUR_MAX) \in Nat
    BY <1>3 DEF Voltage, GR_MAX_CUR_RES
  <2>4. QED
    BY <1>5, <2>2, <2>3
<1>10. /\ step' \in UN_STR /\ step'.mode = step.mode /\ step'.gear = step.gear
       /\ step'.high = high /\ step'.low = low /\ step'.outcur = outcur
       /\ step'.SL = step.SL /\ step'.SH = step.SH
  BY <1>1, <1>2, <1>7 DEF UN_STR
<1>11. step.gear \in Gears(step.mode) /\ (step.SL => step.SH)
  BY DEF Inv, TypeOK, SwitchOrder
<1>12. QED
  BY <1>4, <1>8, <1>9, <1>10, <1>11, Collect

LEMMA TogglesKeep ==
  ASSUME Inv, ToggleSL \/ ToggleSH
  PROVE  Inv'
<1>1. step \in UN_STR /\ step.SL \in BOOLEAN /\ step.SH \in BOOLEAN /\ (step.SL => step.SH)
  BY Fields DEF UN_STR, Inv, SwitchOrder
<1>2. CASE ToggleSL
  <2>1. step' = [step EXCEPT !.SL = ~step.SL /\ step.SH]
    BY <1>2 DEF ToggleSL
  <2>2. (~step.SL /\ step.SH) \in BOOLEAN
    OBVIOUS
  <2>3. step' \in UN_STR
    BY <1>1, <2>1, <2>2 DEF UN_STR
  <2>4. /\ step'.mode = step.mode /\ step'.gear = step.gear /\ step'.high = step.high
        /\ step'.low = step.low /\ step'.outcur = step.outcur
    BY <1>1, <2>1 DEF UN_STR
  <2>5. step'.SL = (~step.SL /\ step.SH) /\ step'.SH = step.SH
    BY <1>1, <2>1 DEF UN_STR
  <2>6. step'.SL => step'.SH
    BY <2>5
  <2>7. QED
    BY <2>3, <2>4, <2>6, Collect DEF Inv, TypeOK, LimitsOrdered, GrPower
<1>3. CASE ToggleSH
  <2>1. step' = [step EXCEPT !.SH = ~step.SH, !.SL = step.SL /\ ~step.SH]
    BY <1>3 DEF ToggleSH
  <2>2. (step.SL /\ ~step.SH) \in BOOLEAN /\ (~step.SH) \in BOOLEAN
    OBVIOUS
  <2>3. step' \in UN_STR
    BY <1>1, <2>1, <2>2 DEF UN_STR
  <2>4. /\ step'.mode = step.mode /\ step'.gear = step.gear /\ step'.high = step.high
        /\ step'.low = step.low /\ step'.outcur = step.outcur
    BY <1>1, <2>1 DEF UN_STR
  <2>5. step'.SL = (step.SL /\ ~step.SH) /\ step'.SH = ~step.SH
    BY <1>1, <2>1 DEF UN_STR
  <2>6. step'.SL => step'.SH
    BY <2>5
  <2>7. QED
    BY <2>3, <2>4, <2>6, Collect DEF Inv, TypeOK, LimitsOrdered, GrPower
<1>4. QED
  BY <1>2, <1>3
-----------------------------------------------------------------------------
(* The invariant holds of every step a window can leave.                   *)
THEOREM Invariant == Spec => []Inv
<1>1. Init => Inv
  <2>1. SUFFICES ASSUME NEW mode \in EnabledModes, step = InitStep(mode)
                 PROVE  Inv
    BY DEF Init
  <2>2. QED
    BY <2>1, Fresh DEF Inv, TypeOK, LimitsOrdered, GrPower, SwitchOrder
<1>2. Inv /\ [Next]_vars => Inv'
  <2> SUFFICES ASSUME Inv, [Next]_vars
               PROVE  Inv'
    OBVIOUS
  <2>1. CASE \E mode \in EnabledModes : SetMode(mode)
    <3>1. PICK mode \in EnabledModes : step' = InitStep(mode)
      BY <2>1 DEF SetMode
    <3>2. QED
      BY <3>1, Fresh, Collect
  <2>2. CASE \E gear \in I3uA..I30mA, enter \in BOOLEAN : SetGear(gear, enter)
    BY <2>2, SetGearKeeps
  <2>3. CASE \E e \in Entries \cup {Exit} : SetHigh(e)
    BY <2>3, SetHighKeeps
  <2>4. CASE \E e \in Entries \cup {Exit} : SetLow(e)
    BY <2>4, SetLowKeeps
  <2>5. CASE \E e \in Entries \cup {Exit} : SetAux(e)
    BY <2>5, SetAuxKeeps
  <2>6. CASE \E e \in Entries \cup {Exit} : SetCurrent(e)
    BY <2>6, SetCurrentKeeps
  <2>7. CASE ToggleSL \/ ToggleSH
    BY <2>7, TogglesKeep
  <2>8. CASE UNCHANGED vars
    BY <2>8 DEF vars, Inv, TypeOK, LimitsOrdered, GrPower, SwitchOrder
  <2>9. QED
    BY <2>1, <2>2, <2>3, <2>4, <2>5, <2>6, <2>7, <2>8 DEF Next
<1>3. QED
  BY <1>1, <1>2, PTL DEF Spec

(* The fields of a step keep their types, widths and ranges.               *)
THEOREM Types == Spec => []TypeOK
BY Invariant, PTL DEF Inv

(* No way through the windows leaves a low limit at or above a high limit  *)
(* other than 0.                                                           *)
THEOREM Ordered == Spec => []LimitsOrdered
BY Invariant, PTL DEF Inv

(* No ground-bond step asks the source for more than it has.               *)
THEOREM Power == Spec => []GrPower
BY Invariant, PTL DEF Inv

(* SL is on only while SH is.                                              *)
THEOREM Switches == Spec => []SwitchOrder
BY Invariant, PTL DEF Inv

(* Every step but the two excepted kinds has a reading that passes: with   *)
(* its high limit h, the reading h - 1.                                    *)
THEOREM CanPass == Spec => []Passable
<1>1. Inv => Passable
  <2> SUFFICES ASSUME Inv, step.high # 0,
                      ~(step.mode \in {"GR", "LC"} /\ step.low = step.high - 1 /\ step.low > 0)
               PROVE  \E r \in step.low..step.high : ~Above(step, r) /\ ~Below(step, r)
    BY DEF Passable
  <2>1. step.high \in Nat /\ step.low \in Nat /\ step.low < step.high
    BY Fields DEF Inv, LimitsOrdered
  <2>2. step.high - 1 \in step.low..step.high
    BY <2>1
  <2>3. ~Above(step, step.high - 1)
    BY <2>1 DEF Above
  <2>4. ~Below(step, step.high - 1)
    BY <2>1 DEF Below
  <2>5. QED
    BY <2>2, <2>3, <2>4
<1>2. QED
  BY <1>1, Invariant, PTL
=============================================================================
