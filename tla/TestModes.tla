------------------------------ MODULE TestModes ------------------------------
(***************************************************************************)
(* The eight test modes of the tester, one record per *_Routine.c file.    *)
(* Every mode routine is a copy of the same state machine (WAIT, VOL_RISE, *)
(* TESTING, VOL_DOWN, PAUSE, STOP, run by one call per 100 ms tick); the   *)
(* copies differ in the traits below, and TestSched interprets them.       *)
(*                                                                         *)
(*   stages      output stages energised by ...EnvironmentEnter, in order; *)
(*               each one is guarded by its own "if(Stop_Flag == 0)"       *)
(*   close       outputs Test_Sched_Close de-energises for this mode       *)
(*   alarms      alarm flags tested at the head of ..._Mode_Test           *)
(*   setsArc     Enter writes arc_Isable from the step's arc grade         *)
(*   fixedWait   ticks of WAIT, or 0 when the step's wait time is used     *)
(*   rises/falls the VOL_RISE / VOL_DOWN phase exists                      *)
(*   voltCheck   a VOL_ERROR check is made on the last TESTING tick        *)
(*   expiryOff   outputs de-energised when the test time runs out          *)
(*   pauseLast   the inter-step PAUSE is taken after the last step as well *)
(*   pauseCounts the PAUSE phase decrements Pause_Time                     *)
(*   chained     Test_Sched_Main honours stepcontinuation and failstop     *)
(***************************************************************************)
EXTENDS Naturals, Sequences

\* The outputs of the instrument: the HV amplifier as AC or DC source, the
\* ground-bond current source, the leakage main supply and its auxiliary.
Outputs == {"AC", "DC", "GR", "MAIN", "ASSIT"}

\* The alarms raised by interrupts.
Alarms == {"short", "arc", "gfi"}

ACW == [stages |-> <<{"AC"}>>, close |-> {"AC"}, alarms |-> Alarms,
        setsArc |-> TRUE, fixedWait |-> 0, rises |-> TRUE, falls |-> TRUE,
        voltCheck |-> TRUE, expiryOff |-> {"AC"}, pauseLast |-> TRUE,
        pauseCounts |-> TRUE, chained |-> TRUE]

DCW == [ACW EXCEPT !.stages = <<{"DC"}>>, !.close = {"DC"}, !.expiryOff = {"DC"}]

\* IR drives the DC source, but Test_Sched_Close has an empty case for it, no
\* arc flag is tested, and Test_Sched_Main ignores its chaining switches.
IR == [DCW EXCEPT !.close = {}, !.alarms = {"short", "gfi"}, !.setsArc = FALSE,
                  !.falls = FALSE, !.pauseLast = FALSE, !.chained = FALSE]

GR == [stages |-> <<{"GR"}>>, close |-> {"GR"}, alarms |-> {},
       setsArc |-> FALSE, fixedWait |-> 0, rises |-> TRUE, falls |-> FALSE,
       voltCheck |-> FALSE, expiryOff |-> {}, pauseLast |-> TRUE,
       pauseCounts |-> TRUE, chained |-> TRUE]

LC == [GR EXCEPT !.stages = <<{"MAIN", "ASSIT"}>>, !.close = {"MAIN", "ASSIT"},
                 !.fixedWait = 3, !.voltCheck = TRUE,
                 !.expiryOff = {"MAIN", "ASSIT"}]

\* PW goes from WAIT to TESTING in one tick and never counts its pause down.
PW == [GR EXCEPT !.stages = <<{"MAIN"}>>, !.close = {"MAIN"}, !.fixedWait = 1,
                 !.rises = FALSE, !.pauseLast = FALSE, !.pauseCounts = FALSE]

ACW_GR == [ACW EXCEPT !.stages = <<{"AC"}, {"GR"}>>, !.close = {"AC", "GR"},
                      !.pauseLast = FALSE]

DCW_GR == [DCW EXCEPT !.stages = <<{"DC"}, {"GR"}>>, !.close = {"DC", "GR"},
                      !.pauseLast = FALSE]

\* The switch over com.mode; the LC_PW and other values have no case.
Trait == [ACW |-> ACW, DCW |-> DCW, IR |-> IR, GR |-> GR, LC |-> LC, PW |-> PW,
          ACW_GR |-> ACW_GR, DCW_GR |-> DCW_GR]

Modes == {"ACW", "DCW", "IR", "GR", "LC", "PW", "ACW_GR", "DCW_GR"}

\* All outputs of a mode: what ...EnvironmentExit and the stop branch of
\* ..._Mode_Test de-energise.
ModeOutputs(m) == UNION {Trait[m].stages[i] : i \in DOMAIN Trait[m].stages}
=============================================================================
