----------------------------- MODULE StepOffset -----------------------------
(***************************************************************************)
(* The offsets of a file's steps (ui_home.c, Test_Sched.c, the routines):  *)
(* with the offset key the operator says that the next test records what   *)
(* the leads alone show, and that the tests after it take it off.          *)
(*                                                                         *)
(* The state is spread: offset_en is in the file's header, the request for *)
(* a recording in a variable of the home screen, its two flags in the      *)
(* scheduler's record, and the value in the step, in RAM, saved only when  *)
(* the recording test passes.  Of a value we keep where it comes from.     *)
(*                                                                         *)
(* Home polls the start key at any time, also while a test runs; the other *)
(* keys are not read then.  The insertion of steps is left out, and a list *)
(* that begins again after its last step.                                  *)
(***************************************************************************)
EXTENDS Integers

CONSTANTS Files, N,      \* a file has the steps 1..N
          Waits,         \* the steps without stepcontinuation, and
          Forgives,      \* those with failstop, both of a mode that is chained
          Brief          \* those tested for one tick, or in a mode without offset

ASSUME OffsetAssumption == N \in Nat

VARIABLES current_file,
          offset_en,         \* of each file
          offset_Is_refresh, \* a recording is asked for
          Offset_Get_Flag,   \* the test records
          Offset_Is_Flag,    \* the test takes the offsets off
          offsetvalue,       \* of the steps in the list
          flash,             \* the files' offset_en and offsets in flash
          run,               \* the step under test; 0 none, N + 1 all done
          waiting,           \* before step run, for the start key
          Pause_Flag, Continue_Flag, Pass_Flag, Warning_Flag,
          buzzer_timer,      \* is running
          edited,            \* steps are saved, the header is not yet
          undisturbed        \* history: since a file's offset was turned on,
                             \* nothing came between the request and its test

file  == <<current_file, offset_en>>
flags == <<offset_Is_refresh, Offset_Get_Flag, Offset_Is_Flag>>
test  == <<run, waiting, Pause_Flag, Continue_Flag, Pass_Flag, Warning_Flag>>
vars  == <<file, flags, offsetvalue, flash, test, buzzer_timer, edited, undisturbed>>

Steps == 1..N
(* A step is made on the stack, its offset never set; an offset is recorded *)
(* from what was measured or from what another offset was taken off, and    *)
(* grows old when the offset is turned on again.                            *)
Origins == {"junk", "raw", "net", "old"}
Aged(v) == [k \in Steps |-> IF v[k] = "junk" THEN "junk" ELSE "old"]

Idle    == run = 0 /\ ~edited
Pending == offset_Is_refresh \/ Offset_Get_Flag
Disturbed(b) == undisturbed' = IF b THEN [f \in Files |-> FALSE] ELSE undisturbed

Init == /\ current_file \in Files
        /\ offset_en = [f \in Files |-> FALSE]
        /\ offsetvalue = [k \in Steps |-> "junk"]
        /\ flash = [f \in Files |-> [en |-> FALSE, offsetvalue |-> [k \in Steps |-> "junk"]]]
        /\ offset_Is_refresh = FALSE /\ Offset_Get_Flag = FALSE /\ Offset_Is_Flag = FALSE
        /\ run = 0 /\ waiting = FALSE /\ Pass_Flag = TRUE /\ Warning_Flag = FALSE
        /\ Pause_Flag = FALSE /\ Continue_Flag = FALSE
        /\ buzzer_timer = FALSE
        /\ edited = FALSE
        /\ undisturbed = [f \in Files |-> FALSE]

-----------------------------------------------------------------------------
(* The keys of the home screen *)

\* offset_key_inHome, confirmed
OffsetKey ==
  /\ Idle
  /\ offset_en' = [offset_en EXCEPT ![current_file] = ~@]
  /\ IF offset_en[current_file]
     THEN /\ flash' = [flash EXCEPT ![current_file].en = FALSE]
          /\ UNCHANGED <<offset_Is_refresh, offsetvalue, undisturbed>>
     ELSE /\ offset_Is_refresh' = TRUE
          /\ offsetvalue' = Aged(offsetvalue)
          /\ flash' = [flash EXCEPT ![current_file] =
                         [en |-> TRUE, offsetvalue |-> Aged(@.offsetvalue)]]
          /\ undisturbed' = [undisturbed EXCEPT ![current_file] = TRUE]
  /\ UNCHANGED <<current_file, Offset_Get_Flag, Offset_Is_Flag, test, buzzer_timer, edited>>

\* What the start key does to the flags while the buzzer is silent.
(* Defect: the recording test takes the old offsets off. *)
FlagsSet_net ==
  IF offset_Is_refresh
  THEN /\ offset_Is_refresh' = FALSE
       /\ Offset_Get_Flag' = TRUE
       /\ Offset_Is_Flag' = TRUE
  ELSE /\ Offset_Is_Flag' = offset_en[current_file]
       /\ UNCHANGED <<offset_Is_refresh, Offset_Get_Flag>>
FlagsSet ==
  IF offset_Is_refresh
  THEN /\ offset_Is_refresh' = FALSE
       /\ Offset_Get_Flag' = TRUE
       /\ Offset_Is_Flag' = FALSE
  ELSE /\ Offset_Is_Flag' = offset_en[current_file]
       /\ UNCHANGED <<offset_Is_refresh, Offset_Get_Flag>>

\* In a step, not waiting for the start key.
InStep == run \in Steps /\ ~waiting

\* Test_Sched_Start, which the key calls whether or not it has set the flags.
\* Continue_Flag is used up on the way to a step, and stays when the key was
\* taken in the middle of one.
Start ==
  /\ run' = IF run = 0 THEN 1 ELSE run
  /\ waiting' = FALSE
  /\ Pause_Flag' = FALSE
  /\ Continue_Flag' = InStep
  /\ Pass_Flag' = TRUE
  /\ UNCHANGED Warning_Flag

\* A test that runs refuses the key, unless Pause_Flag is left from a step
\* that failed, was forgiven and would have waited.
Starts == ~Warning_Flag /\ (run = 0 \/ Pause_Flag)

\* From the last step to the verdict the thread of the test runs on.
StartKey ==
  /\ ~edited /\ run # N + 1
  /\ IF buzzer_timer THEN UNCHANGED flags ELSE FlagsSet
  /\ IF Starts THEN Start ELSE UNCHANGED test
  /\ Disturbed(\/ buzzer_timer
               \/ offset_Is_refresh /\ Warning_Flag
               \/ Offset_Get_Flag /\ ~offset_Is_refresh)
  /\ UNCHANGED <<file, offsetvalue, flash, buzzer_timer, edited>>

-----------------------------------------------------------------------------
(* The test *)

Recorded == IF Offset_Get_Flag /\ run \notin Brief
            THEN [offsetvalue EXCEPT ![run] = IF Offset_Is_Flag THEN "net" ELSE "raw"]
            ELSE offsetvalue

\* Test_Sched_Main after a step: the switches of the step are not read when
\* the start key has set Continue_Flag.
PauseNow == Pause_Flag \/ (run \in Waits /\ ~Continue_Flag)

StepPasses ==
  /\ InStep
  /\ offsetvalue' = Recorded
  /\ run' = run + 1
  /\ Pause_Flag' = PauseNow
  /\ waiting' = (PauseNow /\ ~Continue_Flag /\ run < N)
  /\ Continue_Flag' = FALSE
  /\ UNCHANGED <<file, flags, flash, Pass_Flag, Warning_Flag, buzzer_timer, edited, undisturbed>>

\* A failure, before or after a tick that records, with failstop: Stop_Flag
\* is set, so that the list does not wait, whatever Pause_Flag says.
StepForgiven ==
  /\ InStep
  /\ run \in Forgives /\ ~Continue_Flag
  /\ offsetvalue' \in {offsetvalue, Recorded}
  /\ run' = run + 1
  /\ Pause_Flag' = PauseNow
  /\ waiting' = FALSE
  /\ Continue_Flag' = FALSE
  /\ Pass_Flag' = FALSE
  /\ Disturbed(Offset_Get_Flag)
  /\ UNCHANGED <<file, flags, flash, Warning_Flag, buzzer_timer, edited>>

\* A failure without failstop, or at the end of the list after a forgiven one
TestFails ==
  /\ \/ /\ InStep
        /\ run \in Forgives => Continue_Flag
        /\ offsetvalue' \in {offsetvalue, Recorded}
        /\ Pause_Flag' = PauseNow
     \/ /\ run = N + 1 /\ ~Pass_Flag
        /\ UNCHANGED <<offsetvalue, Pause_Flag>>
  /\ run' = 0
  /\ Continue_Flag' = FALSE
  /\ Pass_Flag' = FALSE
  /\ Warning_Flag' = TRUE
  /\ Disturbed(Offset_Get_Flag)
  /\ UNCHANGED <<file, flags, flash, waiting, buzzer_timer, edited>>

\* A step that is stopped may still reach Test_Sched_Main; a list that waits
\* keeps its Pause_Flag.
StopKey ==
  /\ run # 0 \/ Warning_Flag
  /\ offsetvalue' \in IF InStep THEN {offsetvalue, Recorded} ELSE {offsetvalue}
  /\ Pause_Flag' \in IF InStep THEN {Pause_Flag, PauseNow} ELSE {Pause_Flag}
  /\ run' = 0
  /\ waiting' = FALSE
  /\ Continue_Flag' = FALSE
  /\ Pass_Flag' = FALSE
  /\ Warning_Flag' = FALSE
  /\ Disturbed(Offset_Get_Flag)
  /\ UNCHANGED <<file, flags, flash, buzzer_timer, edited>>

\* Test_Sched_Main, no next step: PASS, and the offsets are saved.
(* Defect: only the flag is cleared. *)
Saved_not == flash
Saved == IF Offset_Get_Flag THEN [flash EXCEPT ![current_file].offsetvalue = offsetvalue]
         ELSE flash

TestPasses ==
  /\ run = N + 1
  /\ Pass_Flag
  /\ run' = 0
  /\ buzzer_timer' = TRUE
  /\ Offset_Get_Flag' = FALSE
  /\ flash' = Saved
  /\ UNCHANGED <<file, offsetvalue, offset_Is_refresh, Offset_Is_Flag, waiting, Pause_Flag,
                 Continue_Flag, Pass_Flag, Warning_Flag, edited, undisturbed>>

\* A key beeps, unless a test runs
Beep == /\ run = 0
        /\ buzzer_timer' = TRUE
        /\ UNCHANGED <<file, flags, offsetvalue, flash, test, edited, undisturbed>>

BuzzerEnds == /\ buzzer_timer
              /\ buzzer_timer' = FALSE
              /\ UNCHANGED <<file, flags, offsetvalue, flash, test, edited, undisturbed>>

-----------------------------------------------------------------------------
(* The file panel, the step window, and the power switch *)

\* F3 of the file panel
ReadFile(f) ==
  /\ Idle
  /\ current_file' = f
  /\ offsetvalue' = flash[f].offsetvalue
  /\ Disturbed(Pending)
  /\ UNCHANGED <<offset_en, flash, flags, test, buzzer_timer, edited>>

\* An edit in the step window saves the steps and then the header; a mode
\* chosen anew makes the step anew.
EditStep(k) ==
  /\ Idle
  /\ offsetvalue' \in {offsetvalue, [offsetvalue EXCEPT ![k] = "junk"]}
  /\ flash' = [flash EXCEPT ![current_file].offsetvalue = offsetvalue']
  /\ edited' = TRUE
  /\ Disturbed(Pending)
  /\ UNCHANGED <<file, flags, test, buzzer_timer>>

SaveHeader ==
  /\ edited
  /\ edited' = FALSE
  /\ offset_en' = [offset_en EXCEPT ![current_file] = FALSE]
  /\ flash' = [flash EXCEPT ![current_file].en = FALSE]
  /\ UNCHANGED <<current_file, flags, offsetvalue, test, buzzer_timer, undisturbed>>

PowerCycle ==
  /\ offset_en' = [f \in Files |-> flash[f].en]
  /\ offsetvalue' = flash[current_file].offsetvalue
  /\ offset_Is_refresh' = FALSE /\ Offset_Get_Flag' = FALSE /\ Offset_Is_Flag' = FALSE
  /\ run' = 0 /\ waiting' = FALSE /\ Pass_Flag' = TRUE /\ Warning_Flag' = FALSE
  /\ Pause_Flag' = FALSE /\ Continue_Flag' = FALSE
  /\ buzzer_timer' = FALSE
  /\ edited' = FALSE
  /\ Disturbed(Pending \/ edited)
  /\ UNCHANGED <<current_file, flash>>

Next == \/ OffsetKey \/ StartKey \/ Beep \/ BuzzerEnds \/ StopKey
        \/ StepPasses \/ StepForgiven \/ TestFails \/ TestPasses
        \/ \E f \in Files : ReadFile(f)
        \/ \E k \in Steps : EditStep(k)
        \/ SaveHeader
        \/ PowerCycle

Spec == Init /\ [][Next]_vars
-----------------------------------------------------------------------------
(* The types; in particular a test is at a step of the list or at its end. *)
TypeOK ==
  /\ current_file \in Files
  /\ offset_en \in [Files -> BOOLEAN]
  /\ offset_Is_refresh \in BOOLEAN /\ Offset_Get_Flag \in BOOLEAN /\ Offset_Is_Flag \in BOOLEAN
  /\ offsetvalue \in [Steps -> Origins]
  /\ flash \in [Files -> [en : BOOLEAN, offsetvalue : [Steps -> Origins]]]
  /\ run \in 0..N + 1
  /\ waiting \in BOOLEAN /\ Pause_Flag \in BOOLEAN /\ Continue_Flag \in BOOLEAN
  /\ Pass_Flag \in BOOLEAN /\ Warning_Flag \in BOOLEAN
  /\ buzzer_timer \in BOOLEAN /\ edited \in BOOLEAN
  /\ undisturbed \in [Files -> BOOLEAN]

(* While no test is recording, the offsets in RAM are those in flash: what  *)
(* a test takes off is the same before and after a power cut, whatever      *)
(* files were read, steps edited or tests broken off in between             *)
(* (Test_Sched_Main, step_set, read_flash_to_list).                         *)
RecordSaved == ~Offset_Get_Flag => offsetvalue = flash[current_file].offsetvalue

Subtracts == InStep /\ Offset_Is_Flag

(* A test takes off what a passed test recorded from the leads alone, since *)
(* the offset of that file was turned on, if nothing came between: the      *)
(* recording test was started with the buzzer silent, ended in PASS without *)
(* another press of the start key, and no file was read, no step edited and *)
(* the power not cut before that, nor between the two writes of an edit.    *)
(* What the file had before, and what other files do, does not matter.  A   *)
(* step tested for one tick only is an exception: ACW_Mode_Test leaves the  *)
(* tick that ends the test time before it records.                          *)
RawIfUndisturbed ==
  Subtracts /\ undisturbed[current_file] /\ run \notin Brief => offsetvalue[run] = "raw"

(* The hint of the offset key says it without conditions: the next test     *)
(* records the offset (ui_home.c:100-101), so what a test takes off is      *)
(* always what a test has recorded from the leads.                          *)
OffsetIsRaw == Subtracts => offsetvalue[run] = "raw"
=============================================================================
