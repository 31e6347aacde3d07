---------------------------- MODULE MCTestSched ----------------------------
(***************************************************************************)
(* Step lists and inputs for TLC.  Times are in ticks of 100 ms; two ticks *)
(* take a phase through both its middle and its last tick.                 *)
(***************************************************************************)
EXTENDS TestSched

Step(m) ==
  [mode |-> m, waittime |-> 0, ramptime |-> 2, testtime |-> 2, downtime |-> 2,
   pausetime |-> 0, arc |-> TRUE, stepcontinuation |-> TRUE, failstop |-> FALSE]

\* A step after which the list waits for the start key.
Last(s) == [s EXCEPT !.stepcontinuation = FALSE]

\* Every mode as the first of two steps, with and without a pause, and the
\* ways to chain two steps: continue and forgive a failure, continue, wait.
Chains == {<<TRUE, TRUE>>, <<TRUE, FALSE>>, <<FALSE, FALSE>>}
ChainPrograms ==
  {<<[Step(m) EXCEPT !.pausetime = t, !.stepcontinuation = c[1], !.failstop = c[2]],
     Last(Step("ACW"))>> : m \in Modes, t \in {0, 1}, c \in Chains}

\* A list that wraps, a step that lasts until it is stopped, short phases, and
\* a last step that says failstop.
CornerPrograms ==
  {<<Step("ACW"), Step("GR")>>,
   <<[Step("DCW") EXCEPT !.testtime = 0], Last(Step("LC"))>>,
   <<[Step("ACW") EXCEPT !.waittime = 2, !.ramptime = 0, !.downtime = 0], Last(Step("PW"))>>,
   <<[Last(Step("LC")) EXCEPT !.failstop = TRUE]>>}

AllModesPrograms == ChainPrograms \cup CornerPrograms

\* A forgiving step, a step after which the list waits, and a third one.
ForgivingPrograms ==
  {<<[Step("ACW") EXCEPT !.failstop = TRUE], Last(Step("DCW")), Last(Step("ACW"))>>}

\* One pass over the list that comes to its end by itself.  ACW looks for arcs
\* and is forgiven.
EndingPrograms ==
  {<<[Step(m) EXCEPT !.pausetime = IF m = "PW" THEN 0 ELSE 1,
                     !.arc = m = "ACW", !.failstop = m = "ACW"],
     [Last(Step("GR")) EXCEPT !.testtime = 1]>> : m \in Modes}

\* First steps for the alarms.  IR is apart: Test_Sched_Close ignores it.  The
\* second step shares no output with what a first one can leave on.
Before(ms) == {<<[Step(m) EXCEPT !.failstop = f], Last(Step("GR"))>> :
                 m \in ms, f \in BOOLEAN}
ClosedPrograms == Before(Modes \ {"IR"})

AcwPrograms == {<<Step("ACW"), Last(Step("ACW"))>>}

OnlyFail   == {"fail"}
OnlyGfi    == {"gfi"}
StopInputs == {"stop", "fail"}
ArcInputs  == {"arc"} \cup StopInputs
AllInputs  == Alarms \cup StopInputs
=============================================================================
