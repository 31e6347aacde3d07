----------------------------- MODULE StepParams -----------------------------
(***************************************************************************)
(* The step window (ui_step.c, window_step_set): the limits of one step,   *)
(* and how its numbers depend on each other.  A field is edited to its end *)
(* before any other key is read, so an edit is one step.  The voltages and *)
(* times, which depend on nothing, are left out; saving is in StepStore.   *)
(*                                                                         *)
(* The four modes of this build have their limits at the same places:      *)
(* high and low are curhigh and curlow, or reshigh and reslow of GR, aux   *)
(* is rmscur of ACW and chargecur of DCW.                                  *)
(***************************************************************************)
EXTENDS Integers

CONSTANTS Entries,       \* the numbers the operator types
          GR_CUR_MAX     \* the largest ground-bond current, in 0.1 A

GR_MAX_CUR_RES == 150    \* the largest resistance at that current, in mOhm
Digits         == 0..9999
Exit           == -1     \* num_input is left with EXIT

ASSUME ParamsAssumption == /\ Entries \subseteq Digits
                           /\ GR_CUR_MAX \in 150..400

VARIABLE step

vars == <<step>>

EnabledModes == {"ACW", "DCW", "GR", "LC"}
I3uA   == 0
I300uA == 2
I3mA   == 3
I30mA  == 4

WORD_MAX     == 65535                             \* of rt_uint16_t
Word         == 0..WORD_MAX
Less1(n)     == (n - 1) % 65536                   \* n - 1, kept in a word
AtMost(n, m) == IF n > m THEN m ELSE n

UN_STR == [mode : EnabledModes, gear : I3uA..I30mA, high : Word, low : Word, aux : Word,
           outcur : Word, SL : BOOLEAN, SH : BOOLEAN]

(* The gears U and D walk through, round in a circle: 100 mA and, but for  *)
(* DCW, the two smallest are skipped.                                      *)
Gears(mode) == IF mode = "DCW" THEN I3uA..I30mA ELSE I300uA..I30mA

\* init_acw_step and its like; what the mode does not have is 0.
InitStep(mode) ==
  [mode |-> mode, gear |-> I3mA, high |-> IF mode = "GR" THEN 100 ELSE 500, low |-> 0,
   aux |-> 0, outcur |-> IF mode = "GR" THEN 100 ELSE 0, SL |-> FALSE, SH |-> FALSE]

\* What num_input returns: EXIT keeps the number, ENTER fits it into min..max.
num_input(num, e, min, max) ==
  CASE e = Exit            -> num
    [] AtMost(e, max) < min -> min
    [] OTHER               -> AtMost(e, max)

(* The low limit after the high one: the comparison is of ints, so that a  *)
(* high limit of 0 always makes it the largest word.                       *)
(* Defect: a low limit equal to the high one is let be. *)
LowUnder_equal(high, low) == IF low > high THEN Less1(high) ELSE low
LowUnder(high, low) == IF low > high - 1 THEN Less1(high) ELSE low

(* The largest resistance at a current: the source has a voltage to keep   *)
(* to.  The code divides in float, which is exact for every such current.  *)
Voltage(res, outcur) == res * outcur
max_res(outcur)      == Voltage(GR_MAX_CUR_RES, GR_CUR_MAX) \div outcur

HighMin(mode)    == IF mode \in {"ACW", "GR"} THEN 1 ELSE 0
HighMax(s)       == CASE s.mode = "GR"                      -> AtMost(max_res(s.outcur), 510)
                      [] s.mode = "DCW" /\ s.gear = I30mA   -> 1000
                      [] OTHER                              -> 2000
HighBefore(s)    == CASE s.mode = "GR"                      -> s.high
                      [] s.mode = "LC" /\ s.gear = I30mA    -> AtMost(s.high, 1000)
                      [] OTHER                              -> AtMost(s.high, 2000)
LowBefore(s)     == CASE s.mode = "GR"                      -> s.low
                      [] s.mode = "LC"                      -> AtMost(s.low, 3000)
                      [] OTHER                              -> AtMost(s.low, s.high)
GearHigh(mode, gear) == IF mode = "DCW" /\ gear = I30mA THEN 200 ELSE 500
-----------------------------------------------------------------------------
Init == step \in {InitStep(mode) : mode \in EnabledModes}

(* Defect: a new mode takes the gear of the old one. *)
SetMode_gear(mode) == step' = [InitStep(mode) EXCEPT !.gear = step.gear]
SetMode(mode) == step' = InitStep(mode)

(* A key on the gear takes effect at once; ENTER then sets the limits for  *)
(* the gear, EXIT leaves the old ones.                                     *)
SetGear(gear, enter) ==
  /\ step.mode # "GR"
  /\ gear \in Gears(step.mode)
  /\ step' = IF enter
             THEN [step EXCEPT !.gear = gear,
                               !.high = GearHigh(step.mode, gear),
                               !.low  = LowUnder(GearHigh(step.mode, gear), @)]
             ELSE [step EXCEPT !.gear = gear]

SetHigh(e) ==
  LET high == num_input(HighBefore(step), e, HighMin(step.mode), HighMax(step))
  IN step' = [step EXCEPT !.high = high, !.low = LowUnder(high, @)]

SetLow(e) ==
  step' = [step EXCEPT !.low = num_input(LowBefore(step), e, 0, Less1(step.high))]

SetAux(e) ==
  \/ /\ step.mode = "ACW"
     /\ step' = [step EXCEPT !.aux = num_input(AtMost(@, step.high), e, 0, step.high)]
  \/ /\ step.mode = "DCW"
     /\ step' = [step EXCEPT !.aux = num_input(AtMost(@, 3000), e, 0, 3000)]

(* Defect: the limits stay when the current is raised. *)
SetCurrent_keep(e) ==
  /\ step.mode = "GR"
  /\ step' = [step EXCEPT !.outcur = num_input(@, e, 30, GR_CUR_MAX)]
SetCurrent(e) ==
  /\ step.mode = "GR"
  /\ LET outcur == num_input(step.outcur, e, 30, GR_CUR_MAX)
     IN step' = [step EXCEPT !.outcur = outcur,
                             !.high = AtMost(@, max_res(outcur)),
                             !.low  = AtMost(@, max_res(outcur) - 1)]

(* The switches of the measuring device (window_medical_set): SL can be on *)
(* only while SH is.                                                       *)
ToggleSL == /\ step.mode = "LC"
            /\ step' = [step EXCEPT !.SL = ~@ /\ step.SH]

ToggleSH == /\ step.mode = "LC"
            /\ step' = [step EXCEPT !.SH = ~@, !.SL = @ /\ ~step.SH]

Next == \/ \E mode \in EnabledModes : SetMode(mode)
        \/ \E gear \in I3uA..I30mA, enter \in BOOLEAN : SetGear(gear, enter)
        \/ \E e \in Entries \cup {Exit} : SetHigh(e) \/ SetLow(e) \/ SetAux(e) \/ SetCurrent(e)
        \/ ToggleSL
        \/ ToggleSH

Spec == Init /\ [][Next]_vars
-----------------------------------------------------------------------------
(* What the range checks of the routines (.._Range_Check) make of a reading. *)
Above(s, r) == IF s.mode = "DCW" THEN r > s.high ELSE r >= s.high
Below(s, r) == /\ s.low # 0
               /\ IF s.mode \in {"GR", "LC"} THEN r <= s.low ELSE r < s.low

(* Every number of a step is a word, the gear is one its mode offers, and  *)
(* the current of a ground-bond step is one the source can give.           *)
TypeOK == /\ step \in UN_STR
          /\ step.gear \in Gears(step.mode)
          /\ step.mode = "GR" => step.outcur \in 30..GR_CUR_MAX

(* However the limits are reached, over gears, currents and numbers cut    *)
(* to their ranges, the low limit is below the high one.  Only a high      *)
(* limit of 0, which the windows of DCW and LC accept, has none below it.  *)
LimitsOrdered == \/ step.low < step.high
                 \/ step.high = 0 /\ step.mode \in {"DCW", "LC"}

(* There is a reading that passes the step.  Excepted are the two kinds of *)
(* step the windows let through which fail whatever is measured: a high    *)
(* limit of 0, and limits one apart where both are failures (GR, LC).      *)
Passable == \/ \E r \in step.low..step.high : ~Above(step, r) /\ ~Below(step, r)
            \/ step.high = 0
            \/ step.mode \in {"GR", "LC"} /\ step.low = step.high - 1 /\ step.low > 0

(* A ground-bond step never asks for more voltage than the source has at   *)
(* its largest current, also when the current is raised after the limit.   *)
GrPower == step.mode = "GR" => Voltage(step.high, step.outcur) <= Voltage(GR_MAX_CUR_RES, GR_CUR_MAX)

(* The switch SL of the measuring device is never on without SH, in        *)
(* whatever order the two are set.                                         *)
SwitchOrder == step.SL => step.SH
=============================================================================
