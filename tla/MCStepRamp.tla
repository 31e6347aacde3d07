----------------------------- MODULE MCStepRamp -----------------------------
(***************************************************************************)
(* Steps for TLC.  Voltages in V, times in ticks, currents in units.       *)
(***************************************************************************)
EXTENDS StepRamp

Plain(m) ==
  [mode |-> m, startvol |-> 0, outvol |-> 100, waittime |-> 0, ramptime |-> 0,
   testtime |-> 3, downtime |-> 0, pausetime |-> 0, high |-> 2, low |-> 0,
   rmscur |-> 0, offset |-> 0]

BothModes == {"ACW", "DCW"}

\* Start below, at and above the test voltage, ramps whose interval is rounded,
\* falls longer than the ramp, so that DCW's value wraps.
Ramps == {[Plain(m) EXCEPT !.startvol = v, !.waittime = w, !.ramptime = r, !.downtime = d] :
            m \in BothModes, v \in {0, 60, 100, 230}, w \in {0, 2}, r \in {0, 2, 3}, d \in {0, 3, 7}}

\* Test times about the tick from which the low limit counts, and no end.
Times == {[Plain(m) EXCEPT !.testtime = t, !.low = 1, !.pausetime = z] :
            m \in BothModes, t \in {0, 3, 5, 6, 8}, z \in {0, 2}}

\* The pause, and the real current of ACW.
Pauses == {[Plain(m) EXCEPT !.ramptime = 2, !.downtime = d, !.pausetime = z] :
            m \in BothModes, d \in {0, 2}, z \in {1, 2}}
Reals == {[Plain("ACW") EXCEPT !.rmscur = 1, !.ramptime = 2, !.downtime = 2, !.pausetime = z] :
            z \in {0, 2}}

\* An offset of one unit, with what follows the test time.
Offsets == {[Plain(m) EXCEPT !.offset = 1, !.downtime = d, !.pausetime = 2] :
             m \in BothModes, d \in {0, 2}}

AllSteps == Ramps \cup Times \cup Pauses \cup Reals \cup Offsets
=============================================================================
