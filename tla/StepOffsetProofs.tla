-------------------------- MODULE StepOffsetProofs --------------------------
(***************************************************************************)
(* What holds of StepOffset for every set of files, every number of steps  *)
(* and every choice of the steps that wait, forgive or are brief.          *)
(***************************************************************************)
EXTENDS StepOffset, TLAPS

HeaderSaved == offset_en = [f \in Files |-> flash[f].en]
EditedIdle  == edited => run = 0

\* Unless it is just being recorded or edited, an undisturbed file whose
\* offset is on has only raw offsets in flash, but for the brief steps.
FlashRaw ==
  \A f \in Files :
    undisturbed[f] /\ flash[f].en /\ (f = current_file => ~Pending /\ ~edited)
      => \A k \in Steps \ Brief : flash[f].offsetvalue[k] = "raw"

\* A test of an undisturbed file records or takes off, and not both.
RunFlags ==
  run # 0 /\ undisturbed[current_file] =>
    /\ ~offset_Is_refresh
    /\ Offset_Is_Flag => offset_en[current_file] /\ ~Offset_Get_Flag

\* A recording test has recorded every step it has left behind, but for the
\* brief ones.
RecordedRaw ==
  run # 0 /\ undisturbed[current_file] /\ Offset_Get_Flag =>
    \A k \in Steps \ Brief : k < run => offsetvalue[k] = "raw"

IInv == /\ TypeOK /\ RecordSaved /\ HeaderSaved /\ EditedIdle
        /\ FlashRaw /\ RunFlags /\ RecordedRaw

\* What the actions make of flash and of the offsets in RAM has its type.
LEMMA FlashTypes ==
  ASSUME TypeOK, NEW v \in [Steps -> Origins]
  PROVE  LET F == [Files -> [en : BOOLEAN, offsetvalue : [Steps -> Origins]]]
         IN  /\ [flash EXCEPT ![current_file].en = FALSE] \in F
             /\ [flash EXCEPT ![current_file].offsetvalue = v] \in F
             /\ [flash EXCEPT ![current_file] = [en |-> TRUE, offsetvalue |-> v]] \in F
BY DEF TypeOK

LEMMA Values ==
  ASSUME TypeOK
  PROVE  /\ Aged(offsetvalue) \in [Steps -> Origins]
         /\ Aged(flash[current_file].offsetvalue) \in [Steps -> Origins]
         /\ \A k \in Steps : [offsetvalue EXCEPT ![k] = "junk"] \in [Steps -> Origins]
         /\ InStep => Recorded \in [Steps -> Origins]
         /\ \A f \in Files : flash[f].offsetvalue \in [Steps -> Origins]
<1>1. offsetvalue \in [Steps -> Origins] /\ current_file \in Files
  BY DEF TypeOK
<1>2. \A f \in Files : flash[f].offsetvalue \in [Steps -> Origins]
  BY DEF TypeOK
<1>3. \A v \in [Steps -> Origins] : Aged(v) \in [Steps -> Origins]
  BY DEF Aged, Origins
<1>4. \A k \in Steps : [offsetvalue EXCEPT ![k] = "junk"] \in [Steps -> Origins]
  BY <1>1 DEF Origins
<1>5. InStep => Recorded \in [Steps -> Origins]
  BY <1>1 DEF Recorded, InStep, Origins
<1>6. QED
  BY <1>1, <1>2, <1>3, <1>4, <1>5

\* Turning an offset on leaves RAM and flash equal where they were.
LEMMA AgedFlash ==
  ASSUME TypeOK, NEW v
  PROVE  [flash EXCEPT ![current_file] = [en |-> TRUE, offsetvalue |-> v]][current_file]
           = [en |-> TRUE, offsetvalue |-> v]
BY DEF TypeOK

LEMMA InitInv == Init => IInv
<1> SUFFICES ASSUME Init PROVE IInv
  OBVIOUS
<1>1. TypeOK
  <2>1. offsetvalue \in [Steps -> Origins]
    BY DEF Init, Origins
  <2>2. flash \in [Files -> [en : BOOLEAN, offsetvalue : [Steps -> Origins]]]
    BY <2>1 DEF Init
  <2>3. run \in 0..N + 1
    BY OffsetAssumption DEF Init
  <2>4. QED
    BY <2>1, <2>2, <2>3 DEF Init, TypeOK
<1>2. RecordSaved /\ HeaderSaved /\ EditedIdle
  BY DEF Init, RecordSaved, HeaderSaved, EditedIdle
<1>3. FlashRaw /\ RunFlags /\ RecordedRaw
  BY DEF Init, FlashRaw, RunFlags, RecordedRaw
<1>4. QED
  BY <1>1, <1>2, <1>3 DEF IInv

LEMMA NextInv == IInv /\ [Next]_vars => IInv'
<1> SUFFICES ASSUME IInv, [Next]_vars PROVE IInv'
  OBVIOUS
<1> USE OffsetAssumption DEF IInv
<1>1. CASE OffsetKey
  <2>1. TypeOK'
    <3>1. offsetvalue' \in [Steps -> Origins]
      BY <1>1, Values DEF OffsetKey, TypeOK
    <3>2. flash' \in [Files -> [en : BOOLEAN, offsetvalue : [Steps -> Origins]]]
      <4>1. CASE offset_en[current_file]
        BY <1>1, <4>1, <3>1, FlashTypes DEF OffsetKey
      <4>2. CASE ~offset_en[current_file]
        <5> DEFINE v == Aged(flash[current_file].offsetvalue)
        <5>1. flash' = [flash EXCEPT ![current_file] = [en |-> TRUE, offsetvalue |-> v]]
          BY <1>1, <4>2 DEF OffsetKey
        <5>2. v \in [Steps -> Origins]
          BY Values
        <5> HIDE DEF v
        <5>3. QED
          BY <5>1, <5>2, FlashTypes
      <4>3. QED
        BY <4>1, <4>2
    <3>3. undisturbed' \in [Files -> BOOLEAN] /\ offset_en' \in [Files -> BOOLEAN]
      BY <1>1 DEF OffsetKey, TypeOK, Disturbed, file
    <3>4. run' \in 0..N + 1 /\ current_file' \in Files
      BY <1>1 DEF OffsetKey, TypeOK, file, test, InStep, Steps
    <3>5. QED
      BY <1>1, <3>1, <3>2, <3>3, <3>4 DEF TypeOK, OffsetKey, flags, file, test, InStep
  <2>2. RecordSaved'
    BY <1>1, AgedFlash DEF RecordSaved, TypeOK, OffsetKey
  <2>3. HeaderSaved'
    <3>1. CASE offset_en[current_file]
      BY <1>1, <3>1 DEF HeaderSaved, TypeOK, OffsetKey
    <3>2. CASE ~offset_en[current_file]
      <4>1. \A f \in Files : flash'[f].en = IF f = current_file THEN TRUE ELSE flash[f].en
        <5> DEFINE v == Aged(flash[current_file].offsetvalue)
        <5>1. flash' = [flash EXCEPT ![current_file] = [en |-> TRUE, offsetvalue |-> v]]
          BY <1>1, <3>2 DEF OffsetKey
        <5> HIDE DEF v
        <5>2. flash \in [Files -> [en : BOOLEAN, offsetvalue : [Steps -> Origins]]]
          BY DEF TypeOK
        <5>3. QED
          BY <5>1, <5>2
      <4>2. \A f \in Files : offset_en'[f] = IF f = current_file THEN TRUE ELSE offset_en[f]
        BY <1>1, <3>2 DEF TypeOK, OffsetKey
      <4>3. \A f \in Files : offset_en'[f] = flash'[f].en
        BY <4>1, <4>2 DEF HeaderSaved
      <4>4. offset_en' = [f \in Files |-> offset_en'[f]]
        BY <1>1 DEF TypeOK, OffsetKey
      <4>5. QED
        BY <4>3, <4>4 DEF HeaderSaved
    <3>3. QED
      BY <3>1, <3>2
  <2>4. EditedIdle'
    BY <1>1 DEF EditedIdle, OffsetKey, file, flags, test, Idle, Pending, Disturbed
  <2>5. FlashRaw'
    BY <1>1 DEF FlashRaw, TypeOK, RecordSaved, HeaderSaved, EditedIdle, RunFlags, RecordedRaw, Steps, OffsetKey, file, flags, test, Idle, Pending, Disturbed
  <2>6. RunFlags'
    BY <1>1 DEF RunFlags, TypeOK, HeaderSaved, EditedIdle, OffsetKey, file, flags, test, Idle, Pending, Disturbed
  <2>7. RecordedRaw'
    BY <1>1 DEF RecordedRaw, RunFlags, TypeOK, Steps, OffsetKey, file, flags, test, Idle, Pending, Disturbed
  <2>8. QED
    BY <2>1, <2>2, <2>3, <2>4, <2>5, <2>6, <2>7
<1>2. CASE StartKey
  <2>1. TypeOK'
    <3>1. undisturbed' \in [Files -> BOOLEAN]
      BY <1>2 DEF StartKey, TypeOK, Disturbed
    <3>2. run' \in 0..N + 1 /\ waiting' \in BOOLEAN /\ Pass_Flag' \in BOOLEAN
          /\ Pause_Flag' \in BOOLEAN /\ Continue_Flag' \in BOOLEAN /\ Warning_Flag' \in BOOLEAN
      <4>1. CASE Starts
        <5>1. run' \in 0..N + 1
          BY <1>2, <4>1 DEF StartKey, Start, TypeOK
        <5>2. Continue_Flag' \in BOOLEAN
          BY <1>2, <4>1 DEF StartKey, Start, InStep
        <5>3. QED
          BY <1>2, <4>1, <5>1, <5>2 DEF StartKey, Start, TypeOK
      <4>2. CASE ~Starts
        BY <1>2, <4>2 DEF StartKey, test, TypeOK
      <4>3. QED
        BY <4>1, <4>2
    <3>3. offset_Is_refresh' \in BOOLEAN /\ Offset_Get_Flag' \in BOOLEAN /\ Offset_Is_Flag' \in BOOLEAN
      BY <1>2 DEF StartKey, FlagsSet, flags, file, TypeOK
    <3>4. QED
      BY <1>2, <3>1, <3>2, <3>3 DEF StartKey, file, TypeOK
  <2>2. RecordSaved'
    BY <1>2 DEF RecordSaved, TypeOK, StartKey, FlagsSet, Start, Starts, file, flags, test, Idle, Pending, Disturbed
  <2>3. HeaderSaved'
    BY <1>2 DEF HeaderSaved, TypeOK, StartKey, FlagsSet, Start, Starts, file, flags, test, Idle, Pending, Disturbed
  <2>4. EditedIdle'
    BY <1>2 DEF EditedIdle, StartKey, FlagsSet, Start, Starts, file, flags, test, Idle, Pending, Disturbed
  <2>5. FlashRaw'
    BY <1>2 DEF FlashRaw, TypeOK, RecordSaved, HeaderSaved, EditedIdle, RunFlags, RecordedRaw, Steps, StartKey, FlagsSet, Start, Starts, file, flags, test, Idle, Pending, Disturbed
  <2>6. RunFlags'
    BY <1>2 DEF RunFlags, TypeOK, HeaderSaved, EditedIdle, StartKey, FlagsSet, Start, Starts, file, flags, test, Idle, Pending, Disturbed
  <2>7. RecordedRaw'
    <3>1. CASE run = 0 /\ Starts
      BY <1>2, <3>1 DEF RecordedRaw, StartKey, FlagsSet, Start, Starts, file, flags, test, Idle, Pending, Disturbed, Steps, TypeOK
    <3>2. CASE run = 0 /\ ~Starts
      BY <1>2, <3>2 DEF RecordedRaw, StartKey, FlagsSet, Start, Starts, file, flags, test, Idle, Pending, Disturbed
    <3>3. CASE run # 0
      BY <1>2, <3>3 DEF RecordedRaw, RunFlags, StartKey, FlagsSet, Start, Starts, file, flags, test, Idle, Pending, Disturbed, TypeOK
    <3>4. QED
      BY <3>1, <3>2, <3>3
  <2>8. QED
    BY <2>1, <2>2, <2>3, <2>4, <2>5, <2>6, <2>7
<1>3. CASE Beep
  <2>1. TypeOK'
    BY <1>3 DEF TypeOK, Beep, file, flags, test, Idle, Pending, Disturbed
  <2>2. RecordSaved'
    BY <1>3 DEF RecordSaved, TypeOK, Beep, file, flags, test, Idle, Pending, Disturbed
  <2>3. HeaderSaved'
    BY <1>3 DEF HeaderSaved, TypeOK, Beep, file, flags, test, Idle, Pending, Disturbed
  <2>4. EditedIdle'
    BY <1>3 DEF EditedIdle, Beep, file, flags, test, Idle, Pending, Disturbed
  <2>5. FlashRaw'
    BY <1>3 DEF FlashRaw, TypeOK, RecordSaved, HeaderSaved, EditedIdle, RunFlags, RecordedRaw, Steps, Beep, file, flags, test, Idle, Pending, Disturbed
  <2>6. RunFlags'
    BY <1>3 DEF RunFlags, TypeOK, HeaderSaved, EditedIdle, Beep, file, flags, test, Idle, Pending, Disturbed
  <2>7. RecordedRaw'
    BY <1>3 DEF RecordedRaw, RunFlags, TypeOK, Steps, Beep, file, flags, test, Idle, Pending, Disturbed
  <2>8. QED
    BY <2>1, <2>2, <2>3, <2>4, <2>5, <2>6, <2>7
<1>4. CASE BuzzerEnds
  <2>1. TypeOK'
    BY <1>4 DEF TypeOK, BuzzerEnds, file, flags, test, Idle, Pending, Disturbed
  <2>2. RecordSaved'
    BY <1>4 DEF RecordSaved, TypeOK, BuzzerEnds, file, flags, test, Idle, Pending, Disturbed
  <2>3. HeaderSaved'
    BY <1>4 DEF HeaderSaved, TypeOK, BuzzerEnds, file, flags, test, Idle, Pending, Disturbed
  <2>4. EditedIdle'
    BY <1>4 DEF EditedIdle, BuzzerEnds, file, flags, test, Idle, Pending, Disturbed
  <2>5. FlashRaw'
    BY <1>4 DEF FlashRaw, TypeOK, RecordSaved, HeaderSaved, EditedIdle, RunFlags, RecordedRaw, Steps, BuzzerEnds, file, flags, test, Idle, Pending, Disturbed
  <2>6. RunFlags'
    BY <1>4 DEF RunFlags, TypeOK, HeaderSaved, EditedIdle, BuzzerEnds, file, flags, test, Idle, Pending, Disturbed
  <2>7. RecordedRaw'
    BY <1>4 DEF RecordedRaw, RunFlags, TypeOK, Steps, BuzzerEnds, file, flags, test, Idle, Pending, Disturbed
  <2>8. QED
    BY <2>1, <2>2, <2>3, <2>4, <2>5, <2>6, <2>7
<1>5. CASE StopKey
  <2>1. TypeOK'
    <3>1. offsetvalue' \in [Steps -> Origins]
      BY <1>5, Values DEF StopKey, InStep, TypeOK
    <3>2. flash' \in [Files -> [en : BOOLEAN, offsetvalue : [Steps -> Origins]]]
      BY <1>5, <3>1, Values, FlashTypes DEF StopKey, TypeOK, flags, test
    <3>3. undisturbed' \in [Files -> BOOLEAN] /\ offset_en' \in [Files -> BOOLEAN]
      BY <1>5 DEF StopKey, TypeOK, Disturbed, file
    <3>4. run' \in 0..N + 1 /\ current_file' \in Files
      BY <1>5 DEF StopKey, TypeOK, file, test, InStep, Steps
    <3>5. QED
      BY <1>5, <3>1, <3>2, <3>3, <3>4 DEF TypeOK, StopKey, flags, file, test, InStep, PauseNow
  <2>2. RecordSaved'
    BY <1>5 DEF RecordSaved, TypeOK, StopKey, file, flags, test, Idle, Pending, Disturbed, Recorded, InStep
  <2>3. HeaderSaved'
    BY <1>5 DEF HeaderSaved, TypeOK, StopKey, file, flags, test, Idle, Pending, Disturbed, Recorded, InStep
  <2>4. EditedIdle'
    BY <1>5 DEF EditedIdle, StopKey, file, flags, test, Idle, Pending, Disturbed, Recorded, InStep
  <2>5. FlashRaw'
    BY <1>5 DEF FlashRaw, TypeOK, RecordSaved, HeaderSaved, EditedIdle, RunFlags, RecordedRaw, Steps, StopKey, file, flags, test, Idle, Pending, Disturbed, Recorded, InStep
  <2>6. RunFlags'
    BY <1>5 DEF RunFlags, TypeOK, HeaderSaved, EditedIdle, StopKey, file, flags, test, Idle, Pending, Disturbed, Recorded, InStep
  <2>7. RecordedRaw'
    BY <1>5 DEF RecordedRaw, RunFlags, TypeOK, Steps, StopKey, file, flags, test, Idle, Pending, Disturbed, Recorded, InStep
  <2>8. QED
    BY <2>1, <2>2, <2>3, <2>4, <2>5, <2>6, <2>7
<1>6. CASE StepPasses
  <2>1. TypeOK'
    <3>1. offsetvalue' \in [Steps -> Origins]
      BY <1>6, Values DEF StepPasses, InStep, TypeOK
    <3>2. flash' \in [Files -> [en : BOOLEAN, offsetvalue : [Steps -> Origins]]]
      BY <1>6, <3>1, Values, FlashTypes DEF StepPasses, TypeOK, flags, test
    <3>3. undisturbed' \in [Files -> BOOLEAN] /\ offset_en' \in [Files -> BOOLEAN]
      BY <1>6 DEF StepPasses, TypeOK, Disturbed, file
    <3>4. run' \in 0..N + 1 /\ current_file' \in Files
      BY <1>6 DEF StepPasses, TypeOK, file, test, InStep, Steps
    <3>5. QED
      BY <1>6, <3>1, <3>2, <3>3, <3>4 DEF TypeOK, StepPasses, flags, file, test, InStep, PauseNow
  <2>2. RecordSaved'
    BY <1>6 DEF RecordSaved, TypeOK, StepPasses, file, flags, test, Idle, Pending, Disturbed, Recorded, InStep
  <2>3. HeaderSaved'
    BY <1>6 DEF HeaderSaved, TypeOK, StepPasses, file, flags, test, Idle, Pending, Disturbed, Recorded, InStep
  <2>4. EditedIdle'
    BY <1>6 DEF EditedIdle, StepPasses, file, flags, test, Disturbed, InStep, Steps
  <2>5. FlashRaw'
    BY <1>6 DEF FlashRaw, TypeOK, RecordSaved, HeaderSaved, EditedIdle, RunFlags, RecordedRaw, Steps, StepPasses, file, flags, test, Idle, Pending, Disturbed, Recorded, InStep
  <2>6. RunFlags'
    BY <1>6 DEF RunFlags, TypeOK, HeaderSaved, EditedIdle, StepPasses, file, flags, test, Disturbed, InStep, Steps
  <2>7. RecordedRaw'
    BY <1>6 DEF RecordedRaw, RunFlags, TypeOK, Steps, StepPasses, file, flags, test, Idle, Pending, Disturbed, Recorded, InStep
  <2>8. QED
    BY <2>1, <2>2, <2>3, <2>4, <2>5, <2>6, <2>7
<1>7. CASE StepForgiven
  <2>1. TypeOK'
    <3>1. offsetvalue' \in [Steps -> Origins]
      BY <1>7, Values DEF StepForgiven, InStep, TypeOK
    <3>2. flash' \in [Files -> [en : BOOLEAN, offsetvalue : [Steps -> Origins]]]
      BY <1>7, <3>1, Values, FlashTypes DEF StepForgiven, TypeOK, flags, test
    <3>3. undisturbed' \in [Files -> BOOLEAN] /\ offset_en' \in [Files -> BOOLEAN]
      BY <1>7 DEF StepForgiven, TypeOK, Disturbed, file
    <3>4. run' \in 0..N + 1 /\ current_file' \in Files
      BY <1>7 DEF StepForgiven, TypeOK, file, test, InStep, Steps
    <3>5. QED
      BY <1>7, <3>1, <3>2, <3>3, <3>4 DEF TypeOK, StepForgiven, flags, file, test, InStep, PauseNow
  <2>2. RecordSaved'
    BY <1>7 DEF RecordSaved, TypeOK, StepForgiven, file, flags, test, Idle, Pending, Disturbed, Recorded, InStep
  <2>3. HeaderSaved'
    BY <1>7 DEF HeaderSaved, TypeOK, StepForgiven, file, flags, test, Idle, Pending, Disturbed, Recorded, InStep
  <2>4. EditedIdle'
    BY <1>7 DEF EditedIdle, StepForgiven, file, flags, test, Disturbed, InStep, Steps
  <2>5. FlashRaw'
    BY <1>7 DEF FlashRaw, TypeOK, RecordSaved, HeaderSaved, EditedIdle, RunFlags, RecordedRaw, Steps, StepForgiven, file, flags, test, Idle, Pending, Disturbed, Recorded, InStep
  <2>6. RunFlags'
    BY <1>7 DEF RunFlags, TypeOK, HeaderSaved, EditedIdle, StepForgiven, file, flags, test, Disturbed, InStep, Steps
  <2>7. RecordedRaw'
    BY <1>7 DEF RecordedRaw, RunFlags, TypeOK, Steps, StepForgiven, file, flags, test, Idle, Pending, Disturbed, Recorded, InStep
  <2>8. QED
    BY <2>1, <2>2, <2>3, <2>4, <2>5, <2>6, <2>7
<1>8. CASE TestFails
  <2>1. TypeOK'
    <3>1. offsetvalue' \in [Steps -> Origins]
      BY <1>8, Values DEF TestFails, InStep, TypeOK
    <3>2. flash' \in [Files -> [en : BOOLEAN, offsetvalue : [Steps -> Origins]]]
      BY <1>8, <3>1, Values, FlashTypes DEF TestFails, TypeOK, flags, test
    <3>3. undisturbed' \in [Files -> BOOLEAN] /\ offset_en' \in [Files -> BOOLEAN]
      BY <1>8 DEF TestFails, TypeOK, Disturbed, file
    <3>4. run' \in 0..N + 1 /\ current_file' \in Files
      BY <1>8 DEF TestFails, TypeOK, file, test, InStep, Steps
    <3>5. QED
      BY <1>8, <3>1, <3>2, <3>3, <3>4 DEF TypeOK, TestFails, flags, file, test, InStep, PauseNow
  <2>2. RecordSaved'
    BY <1>8 DEF RecordSaved, TypeOK, TestFails, file, flags, test, Idle, Pending, Disturbed, Recorded, InStep
  <2>3. HeaderSaved'
    BY <1>8 DEF HeaderSaved, TypeOK, TestFails, file, flags, test, Idle, Pending, Disturbed, Recorded, InStep
  <2>4. EditedIdle'
    BY <1>8 DEF EditedIdle, TestFails, file, flags, test, Idle, Pending, Disturbed, Recorded, InStep
  <2>5. FlashRaw'
    BY <1>8 DEF FlashRaw, TypeOK, RecordSaved, HeaderSaved, EditedIdle, RunFlags, RecordedRaw, Steps, TestFails, file, flags, test, Idle, Pending, Disturbed, Recorded, InStep
  <2>6. RunFlags'
    BY <1>8 DEF RunFlags, TypeOK, HeaderSaved, EditedIdle, TestFails, file, flags, test, Idle, Pending, Disturbed, Recorded, InStep
  <2>7. RecordedRaw'
    BY <1>8 DEF RecordedRaw, RunFlags, TypeOK, Steps, TestFails, file, flags, test, Idle, Pending, Disturbed, Recorded, InStep
  <2>8. QED
    BY <2>1, <2>2, <2>3, <2>4, <2>5, <2>6, <2>7
<1>9. CASE TestPasses
  <2>1. TypeOK'
    <3>1. offsetvalue' \in [Steps -> Origins]
      BY <1>9, Values DEF TestPasses, Saved, TypeOK
    <3>2. flash' \in [Files -> [en : BOOLEAN, offsetvalue : [Steps -> Origins]]]
      BY <1>9, <3>1, Values, FlashTypes DEF TestPasses, Saved, TypeOK, flags, test
    <3>3. undisturbed' \in [Files -> BOOLEAN] /\ offset_en' \in [Files -> BOOLEAN]
      BY <1>9 DEF TestPasses, Saved, TypeOK, Disturbed, file
    <3>4. run' \in 0..N + 1 /\ current_file' \in Files
      BY <1>9 DEF TestPasses, Saved, TypeOK, file, test, InStep, Steps
    <3>5. QED
      BY <1>9, <3>1, <3>2, <3>3, <3>4 DEF TypeOK, TestPasses, Saved, flags, file, test, InStep
  <2>2. RecordSaved'
    BY <1>9 DEF RecordSaved, TypeOK, TestPasses, Saved, file, flags, test, Idle, Pending, Disturbed
  <2>3. HeaderSaved'
    BY <1>9 DEF HeaderSaved, TypeOK, TestPasses, Saved, file, flags, test, Idle, Pending, Disturbed
  <2>4. EditedIdle'
    BY <1>9 DEF EditedIdle, TestPasses, Saved, file, flags, test, Idle, Pending, Disturbed
  <2>5. FlashRaw'
    BY <1>9 DEF FlashRaw, TypeOK, RecordSaved, HeaderSaved, EditedIdle, RunFlags, RecordedRaw, Steps, TestPasses, Saved, file, flags, test, Idle, Pending, Disturbed
  <2>6. RunFlags'
    BY <1>9 DEF RunFlags, TypeOK, HeaderSaved, EditedIdle, TestPasses, Saved, file, flags, test, Idle, Pending, Disturbed
  <2>7. RecordedRaw'
    BY <1>9 DEF RecordedRaw, RunFlags, TypeOK, Steps, TestPasses, Saved, file, flags, test, Idle, Pending, Disturbed
  <2>8. QED
    BY <2>1, <2>2, <2>3, <2>4, <2>5, <2>6, <2>7
<1>10. CASE \E f \in Files : ReadFile(f)
  <2>1. TypeOK'
    <3>0. PICK f \in Files : ReadFile(f)
      BY <1>10
    <3>1. offsetvalue' \in [Steps -> Origins]
      BY <3>0, Values DEF ReadFile, TypeOK
    <3>2. flash' \in [Files -> [en : BOOLEAN, offsetvalue : [Steps -> Origins]]]
      BY <3>0, <3>1, Values, FlashTypes DEF ReadFile, TypeOK, flags, test
    <3>3. undisturbed' \in [Files -> BOOLEAN] /\ offset_en' \in [Files -> BOOLEAN]
      BY <3>0 DEF ReadFile, TypeOK, Disturbed, file
    <3>4. run' \in 0..N + 1 /\ current_file' \in Files
      BY <3>0 DEF ReadFile, TypeOK, file, test, InStep, Steps
    <3>5. QED
      BY <3>0, <3>1, <3>2, <3>3, <3>4 DEF TypeOK, ReadFile, flags, file, test, InStep
  <2>2. RecordSaved'
    BY <1>10 DEF RecordSaved, TypeOK, ReadFile, file, flags, test, Idle, Pending, Disturbed
  <2>3. HeaderSaved'
    BY <1>10 DEF HeaderSaved, TypeOK, ReadFile, file, flags, test, Idle, Pending, Disturbed
  <2>4. EditedIdle'
    BY <1>10 DEF EditedIdle, ReadFile, file, flags, test, Idle, Pending, Disturbed
  <2>5. FlashRaw'
    BY <1>10 DEF FlashRaw, TypeOK, RecordSaved, HeaderSaved, EditedIdle, RunFlags, RecordedRaw, Steps, ReadFile, file, flags, test, Idle, Pending, Disturbed
  <2>6. RunFlags'
    BY <1>10 DEF RunFlags, TypeOK, HeaderSaved, EditedIdle, ReadFile, file, flags, test, Idle, Pending, Disturbed
  <2>7. RecordedRaw'
    BY <1>10 DEF RecordedRaw, RunFlags, TypeOK, Steps, ReadFile, file, flags, test, Idle, Pending, Disturbed
  <2>8. QED
    BY <2>1, <2>2, <2>3, <2>4, <2>5, <2>6, <2>7
<1>11. CASE \E k \in Steps : EditStep(k)
  <2>1. TypeOK'
    <3>0. PICK k \in Steps : EditStep(k)
      BY <1>11
    <3>1. offsetvalue' \in [Steps -> Origins]
      BY <3>0, Values DEF EditStep, TypeOK
    <3>2. flash' \in [Files -> [en : BOOLEAN, offsetvalue : [Steps -> Origins]]]
      BY <3>0, <3>1, Values, FlashTypes DEF EditStep, TypeOK, flags, test
    <3>3. undisturbed' \in [Files -> BOOLEAN] /\ offset_en' \in [Files -> BOOLEAN]
      BY <3>0 DEF EditStep, TypeOK, Disturbed, file
    <3>4. run' \in 0..N + 1 /\ current_file' \in Files
      BY <3>0 DEF EditStep, TypeOK, file, test, InStep, Steps
    <3>5. QED
      BY <3>0, <3>1, <3>2, <3>3, <3>4 DEF TypeOK, EditStep, flags, file, test, InStep
  <2>2. RecordSaved'
    BY <1>11 DEF RecordSaved, TypeOK, EditStep, file, flags, test, Idle, Pending, Disturbed
  <2>3. HeaderSaved'
    BY <1>11 DEF HeaderSaved, TypeOK, EditStep, file, flags, test, Idle, Pending, Disturbed
  <2>4. EditedIdle'
    BY <1>11 DEF EditedIdle, EditStep, file, flags, test, Idle, Pending, Disturbed
  <2>5. FlashRaw'
    BY <1>11 DEF FlashRaw, TypeOK, RecordSaved, HeaderSaved, EditedIdle, RunFlags, RecordedRaw, Steps, EditStep, file, flags, test, Idle, Pending, Disturbed
  <2>6. RunFlags'
    BY <1>11 DEF RunFlags, TypeOK, HeaderSaved, EditedIdle, EditStep, file, flags, test, Idle, Pending, Disturbed
  <2>7. RecordedRaw'
    BY <1>11 DEF RecordedRaw, RunFlags, TypeOK, Steps, EditStep, file, flags, test, Idle, Pending, Disturbed
  <2>8. QED
    BY <2>1, <2>2, <2>3, <2>4, <2>5, <2>6, <2>7
<1>12. CASE SaveHeader
  <2>1. TypeOK'
    <3>1. offsetvalue' \in [Steps -> Origins]
      BY <1>12, Values DEF SaveHeader, TypeOK
    <3>2. flash' \in [Files -> [en : BOOLEAN, offsetvalue : [Steps -> Origins]]]
      BY <1>12, <3>1, Values, FlashTypes DEF SaveHeader, TypeOK, flags, test
    <3>3. undisturbed' \in [Files -> BOOLEAN] /\ offset_en' \in [Files -> BOOLEAN]
      BY <1>12 DEF SaveHeader, TypeOK, Disturbed, file
    <3>4. run' \in 0..N + 1 /\ current_file' \in Files
      BY <1>12 DEF SaveHeader, TypeOK, file, test, InStep, Steps
    <3>5. QED
      BY <1>12, <3>1, <3>2, <3>3, <3>4 DEF TypeOK, SaveHeader, flags, file, test, InStep
  <2>2. RecordSaved'
    BY <1>12 DEF RecordSaved, TypeOK, SaveHeader, file, flags, test, Idle, Pending, Disturbed
  <2>3. HeaderSaved'
    BY <1>12 DEF HeaderSaved, TypeOK, SaveHeader, file, flags, test, Idle, Pending, Disturbed
  <2>4. EditedIdle'
    BY <1>12 DEF EditedIdle, SaveHeader, file, flags, test, Idle, Pending, Disturbed
  <2>5. FlashRaw'
    BY <1>12 DEF FlashRaw, TypeOK, RecordSaved, HeaderSaved, EditedIdle, RunFlags, RecordedRaw, Steps, SaveHeader, file, flags, test, Idle, Pending, Disturbed
  <2>6. RunFlags'
    BY <1>12 DEF RunFlags, TypeOK, HeaderSaved, EditedIdle, SaveHeader, file, flags, test, Idle, Pending, Disturbed
  <2>7. RecordedRaw'
    BY <1>12 DEF RecordedRaw, RunFlags, TypeOK, Steps, SaveHeader, file, flags, test, Idle, Pending, Disturbed
  <2>8. QED
    BY <2>1, <2>2, <2>3, <2>4, <2>5, <2>6, <2>7
<1>13. CASE PowerCycle
  <2>1. TypeOK'
    <3>1. offsetvalue' \in [Steps -> Origins]
      BY <1>13, Values DEF PowerCycle, TypeOK
    <3>2. flash' \in [Files -> [en : BOOLEAN, offsetvalue : [Steps -> Origins]]]
      BY <1>13, <3>1, Values, FlashTypes DEF PowerCycle, TypeOK, flags, test
    <3>3. undisturbed' \in [Files -> BOOLEAN] /\ offset_en' \in [Files -> BOOLEAN]
      BY <1>13 DEF PowerCycle, TypeOK, Disturbed, file
    <3>4. run' \in 0..N + 1 /\ current_file' \in Files
      BY <1>13 DEF PowerCycle, TypeOK, file, test, InStep, Steps
    <3>5. QED
      BY <1>13, <3>1, <3>2, <3>3, <3>4 DEF TypeOK, PowerCycle, flags, file, test, InStep
  <2>2. RecordSaved'
    BY <1>13 DEF RecordSaved, TypeOK, PowerCycle, file, flags, test, Idle, Pending, Disturbed
  <2>3. HeaderSaved'
    BY <1>13 DEF HeaderSaved, TypeOK, PowerCycle, file, flags, test, Idle, Pending, Disturbed
  <2>4. EditedIdle'
    BY <1>13 DEF EditedIdle, PowerCycle, file, flags, test, Idle, Pending, Disturbed
  <2>5. FlashRaw'
    BY <1>13 DEF FlashRaw, TypeOK, RecordSaved, HeaderSaved, EditedIdle, RunFlags, RecordedRaw, Steps, PowerCycle, file, flags, test, Idle, Pending, Disturbed
  <2>6. RunFlags'
    BY <1>13 DEF RunFlags, TypeOK, HeaderSaved, EditedIdle, PowerCycle, file, flags, test, Idle, Pending, Disturbed
  <2>7. RecordedRaw'
    BY <1>13 DEF RecordedRaw, RunFlags, TypeOK, Steps, PowerCycle, file, flags, test, Idle, Pending, Disturbed
  <2>8. QED
    BY <2>1, <2>2, <2>3, <2>4, <2>5, <2>6, <2>7
<1>14. CASE UNCHANGED vars
  <2>1. TypeOK'
    BY <1>14 DEF TypeOK, vars, file, flags, test, Idle, Pending, Disturbed
  <2>2. RecordSaved'
    BY <1>14 DEF RecordSaved, TypeOK, vars, file, flags, test, Idle, Pending, Disturbed
  <2>3. HeaderSaved'
    BY <1>14 DEF HeaderSaved, TypeOK, vars, file, flags, test, Idle, Pending, Disturbed
  <2>4. EditedIdle'
    BY <1>14 DEF EditedIdle, vars, file, flags, test, Idle, Pending, Disturbed
  <2>5. FlashRaw'
    BY <1>14 DEF FlashRaw, TypeOK, RecordSaved, HeaderSaved, EditedIdle, RunFlags, RecordedRaw, Steps, vars, file, flags, test, Idle, Pending, Disturbed
  <2>6. RunFlags'
    BY <1>14 DEF RunFlags, TypeOK, HeaderSaved, EditedIdle, vars, file, flags, test, Idle, Pending, Disturbed
  <2>7. RecordedRaw'
    BY <1>14 DEF RecordedRaw, RunFlags, TypeOK, Steps, vars, file, flags, test, Idle, Pending, Disturbed
  <2>8. QED
    BY <2>1, <2>2, <2>3, <2>4, <2>5, <2>6, <2>7
<1>15. QED
  BY <1>1, <1>2, <1>3, <1>4, <1>5, <1>6, <1>7, <1>8, <1>9, <1>10, <1>11, <1>12, <1>13, <1>14 DEF Next

-----------------------------------------------------------------------------
(* Type correctness: whatever key comes when, a test is at a step of the    *)
(* list or at its end, and the offsets of all steps are values.             *)
THEOREM Types == Spec => []TypeOK
<1>1. IInv => TypeOK
  BY DEF IInv
<1>2. QED
  BY InitInv, NextInv, <1>1, PTL DEF Spec

(* While no test is recording, the offsets in RAM are those in flash        *)
(* (Test_Sched_Main, step_set, read_flash_to_list).                         *)
THEOREM Saves == Spec => []RecordSaved
<1>1. IInv => RecordSaved
  BY DEF IInv
<1>2. QED
  BY InitInv, NextInv, <1>1, PTL DEF Spec

(* A test takes off only what a passed test has recorded from the leads, if *)
(* nothing came between the request and the end of the recording test and   *)
(* the step is tested for more than one tick (offset_key_inHome, the start  *)
(* key, Test_Sched_Main, ACW_Mode_Test).  The list may wait between steps,  *)
(* and may go on after a failure it forgives.                               *)
THEOREM Raw == Spec => []RawIfUndisturbed
<1>1. IInv => RawIfUndisturbed
  <2> SUFFICES ASSUME IInv, Subtracts, undisturbed[current_file], run \notin Brief
               PROVE  offsetvalue[run] = "raw"
    BY DEF RawIfUndisturbed
  <2>1. run \in Steps /\ run # 0 /\ Offset_Is_Flag
    BY OffsetAssumption DEF Subtracts, InStep, Steps
  <2>2. offset_en[current_file] /\ ~Pending /\ ~edited
    BY <2>1 DEF IInv, RunFlags, EditedIdle, Pending
  <2>3. current_file \in Files /\ flash[current_file].en
    BY <2>2 DEF IInv, TypeOK, HeaderSaved
  <2>4. flash[current_file].offsetvalue[run] = "raw"
    BY <2>1, <2>2, <2>3 DEF IInv, FlashRaw
  <2>5. QED
    BY <2>2, <2>4 DEF IInv, RecordSaved, Pending
<1>2. QED
  BY InitInv, NextInv, <1>1, PTL DEF Spec
=============================================================================
