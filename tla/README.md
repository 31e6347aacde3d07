# A verification project for the CS9931 safety tester

The CS9931 is a hipot (dielectric strength) and safety tester: STM32F4 firmware on RT-Thread that
walks a list of test steps, energises a high-voltage or high-current output for each, judges what it
measures, and must take the output off at once when the operator or an alarm says so.  This directory
models the parts of the firmware where that can go wrong.

Paths below are relative to `CS9931_Ultra_Y-W/`.

## 1. The system

| Component | Files | State it keeps | Operations |
|---|---|---|---|
| Test scheduler | `Test_Main/Test_Sched.c` | `Test_Sched_Param` (flags, scheduler state, step state, `p_Test_Param`), `test_loop_flag`, two mailboxes of one message, a periodic timer | `Test_Sched_Start`, `Test_Sched_Close`, `short_int`, `arc_int`, `GFI_int`, `Test_Sched_Main`, `Test_Sched_Sever`, `Test_Sched_Clock_Sever` |
| Mode routines | `Test_Main/{ACW,DCW,IR,GR,LC,PW,ACW_GR,DCW_GR}_Routine.c` | one parameter block each: tick counters of the phases, the values to reach | `..EnvironmentEnter`, `..EnvironmentExit`, `.._Range_Check`, `.._Mode_Test` |
| Step walker | `applications/UI/ui_home.c` (`dyj_next_step`, `Reset_Home`) | `current_step_num`, `g_cur_step` | next step, reset |
| Step list | `BSP/drivers/memory.c` | `step_pool[40]`, a doubly linked list with head, tail and size, a free list | insert, remove, swap, position, save to and load from flash |
| Test files | `applications/UI/ui_file.c`, `ui_step.c` | `file_info[51]`, `flash_info.current_file`, their images in flash | new, read, store, edit, delete; edit of the steps |
| Step window | `applications/UI/ui_step.c` (`step_set_*`, `window_medical_set`) | the fields of one step | edit a number, a gear, a mode, a switch |
| Offsets | `ui_home.c`, `Test_Sched.c`, the routines | `offset_en` of a file, a request and two flags, `offsetvalue` of each step | request, record, subtract, save |
| Result log | `BSP/drivers/memorymanagement.c`, `ui_result.c` | header (counts, next record), record file | write, read, delete, export |
| Analog front end, calibration | `Test_Main/{Output_Control,Relay_Change,Cal,Calibration,GR,IR,LC}.c` | DACs, gears, relays, fitted factors | set, measure, enable, disable |
| Interrupts, board | `BSP/drivers/stm32f4xx_it.c`, `board.c` | pending lines, tick, GFI counter | line 8: stop key, lines 7/10/15: alarms |
| Power meter link | `BSP/ZWD414B` | request, receive buffer, timeouts | poll the meter over Modbus |
| Screens | `applications/UI/ui_*.c` | selection, open window | menus and drawing |
| SCPI interpreter | `SCPI/` | input and output queues | parse, execute (nothing built feeds it) |

**How they interact.**  The home thread (priority 14) polls the start key and calls
`Test_Sched_Start(dyj_next_step)`.  Start sets flags in `Test_Sched_Param`, starts the timer and sends
to the mailbox the scheduler thread (priority 6) waits on.  That thread then runs `Test_Sched_Main`
for every clock message.  Between two steps, Main reads the switches of the step just run, pauses,
forgives a failure, or calls the callback `dyj_next_step` for the next step; inside a step it calls the
mode routine, which runs one tick of its phase machine.  The STOP phase calls Main again, nested.  The
stop key and the alarms are interrupts: they run between any two instructions of either thread, write the
same record, and switch outputs off directly through `p_Test_Param`.  Every delay inside Main is a busy
loop, so the home thread runs only while the scheduler thread is blocked in a mailbox.

**What is hard.**  Flags that three contexts write and none of them locks; a test of `Stop_Flag` followed
by the enabling of an output; a verdict computed from a flag that the next start sets again; eight copies
of one state machine that have drifted apart; a pause and a resume that share the code of stop and start;
ticks that are lost when they come too fast and left over when a test pauses; flash images of several
parts that are written one after the other; two files of a card that are one log; numbers kept in 16 bits that are computed
in 32; offsets whose request, flags, values and storage live in four places.
`PROJECT.json` lists each of these under `hazards`, at its line.

**What makes each component correct.**
*Scheduler and routines*: no output is energised when nobody drives a test; an alarm takes the outputs off
and they stay off; a PASS verdict means that every step passed; every step leaves a record that says what
happened; a running test is driven and ends; the switches of a step are read from the step that ran.
*Step list*: list and free list partition the pool, the links agree in both directions, the numbers are
1..size, and the list behaves as a sequence.  *Files*: what is loaded after a restart is what was saved.
*Result log*: counts agree with the records, no record is lost or invented.  *Voltage of a step*: the test is made at the
voltage of the step, the ramp goes straight there, nothing is put out outside, and a PASS was judged.  *Step window*: no order of
edits leaves a step that nothing can pass or that the source cannot drive.  *Offsets*: what is taken off is what was recorded.

## 2. The modules

| Module | Models |
|---|---|
| `TestModes` | the eight mode routines, as one record of traits each |
| `TestSched` | the scheduler, the phases of the routines, the step walker, the keys and the alarms |
| `MCTestSched` | step lists and input sets for TLC |
| `TestSchedProofs` | the theorems about `TestSched` |
| `TestPanel` (extends `TestSched`) | the home and step panels, the keyboard, the knob and the interrupts that look at `panel_flag`, around the scheduler |
| `MCTestPanel` | step lists and inputs for it |
| `TestPanelProofs` | the theorems about `TestPanel` |
| `StepPool` | `memory.c` on the nodes: the doubly linked list over its static pool, as operators on a record |
| `StepEditor` (extends `StepPool`) | the step panel: one action per key, with the redrawing every key ends with |
| `StepSeq` | abstract: the list as a sequence; `StepEditor` implements it |
| `StepStore` | files and steps in RAM and in flash, the file panel, boot and the power switch |
| `ResultLog` | the two files of the result log, the power switch between their writes, and the result panel |
| `ResultFile` | abstract: the log as a list that a save extends or leaves alone; `ResultLog` implements it |
| `StepRamp`, `MCStepRamp` | one ACW or DCW step tick by tick, with its voltages, readings and limits; steps for TLC |
| `StepParams` | the step window: how the limits of a step follow mode, gear, current and each other |
| `StepOffset` | the offset key, and what becomes of the request over tests, files, edits and power cuts |
| `StepEditorProofs`, `StepStoreProofs`, `ResultLogProofs`, `StepRampProofs`, `StepParamsProofs`, `StepOffsetProofs` | the theorems about these |

### TestModes and TestSched

The eight routines are one phase machine with differences.  `TestModes` names the differences (which outputs
are energised, in how many guarded stages, which of them `Test_Sched_Close` knows, which alarm flags the
routine tests, whether it rises, falls, pauses after the last step, counts its pause down, is checked on its
last tick, and whether Main reads its chaining switches), and `TestSched` interprets them.

| Variable | In the code |
|---|---|
| `prog` | the steps of `cs99xx_list`, in order |
| `tsp` | `Test_Sched_Param`; `Alarm_Flags` holds `Short_Flag`, `arc_Flag` and `gfi_Flag`; `p_Test_Param` is an index into `prog`, 0 for NULL |
| `g_cur_step`, `stepNum` | the list cursor and `current_step_num` |
| `loop`, `timer`, `clockMb`, `severMb` | `test_loop_flag`, `Test_Sched_Timer`, the two mailboxes |
| `out` | the outputs that are energised |
| `left` | the counter of the present phase (`Wait_Time`, `Voltage_Rise_Number`, `Test_Time`, ...) |
| `stage`, `failCont`, `pc`, `home` | where the threads are, and their locals |
| `saved` | the last verdict given to `result_save` for each step of the pass |
| `failed`, `tripped` | history: a range check failed, an alarm met the step in a phase |

Scheduler thread: `Wake`, `Clock` (mailboxes), `Main` (chaining switches), `Gate`, `Pausing`, `Warn`, `Forgive`, `Fetch`
(`dyj_next_step`), `Verdict`, `PassVerdict`, `FailVerdict`, then `AlarmCheck`, `StopCheck`, `EnterCheck`,
`EnterEnable` and the six phases.  Home thread: `StartPress` .. `StartTail`.  Interrupts: `StopKey`, `Alarm`,
and `TimerFire`.  A step of a thread is a stretch of code between two accesses to what an interrupt also writes,
so that the places where an interrupt makes a difference are places between two actions; `EnterCheck` and
`EnterEnable` are the two halves of `if(Stop_Flag == 0)AC_Output_Enable();`.

Two stretches withdraw `Stop_Flag` before the alarm flags it stood for, and are taken apart statement by statement:
* the forgiving of a failed step (`Test_Sched.c:645-651`): `Warn` clears `Stop_Flag`, `ForgiveWarning` the warning and the light,
  and three `ForgiveAlarm` the alarm flags; interrupts fall between any two of them in every run;
* `Test_Sched_Start` (220-253): `StartRunning`, `StartPass`, `StartStop`, three `StartClear`, `StartResume`, `StartGo`, `StartTail`;
  interrupts fall between them where `StartHit` is TRUE.  `StartResume` is 227-239: of its flags no interrupt writes any but
  `arc_Isable`, which `arc_int` reads, and a tick that preempts the home thread in the middle of it is left out.

What is abstracted, and why it does not touch the properties:

* Measurements.  A range check may fail on any tick on which the code makes it (input `"fail"`); that it is
  not made before the fifth tick of TESTING is left out, which only adds behaviours.  Two failing checks in one
  tick of a combined mode save two records; the model saves one.
* The GFI line is mostly polled by the scheduler thread while it waits for a tick (`Test_Sched.c:807-822`), and raised by an interrupt for
  the rest (`stm32f4xx_it.c:295`).  `Alarm("gfi")` may come between any two actions, as the short and the arc do: more than the poll can do.
* Times are counted in ticks, small ones; the real ones are 16 bits wide and never come near it except for a
  test time of 0, which the model has.
* The two alarm interrupt lines have different priorities; an alarm routine is one action here.
* A bit-field write is one action.  In the code it is a read, a modify and a write of a shared byte; which
  interrupts such a write can undo depends on the instructions of one build.
* `Test_Sched_Close` and `Main` read `com.mode` through a NULL `p_Test_Param` after a verdict: that is a byte of
  the vector table, taken here to be no mode.
* The barcode lock in front of Start, `Test_Status`, lamps other than PASS and FAIL, the buzzer, PLC outputs,
  relays, EXTI routing and the screens are left out.  The debounce of the GFI line is left out: an `Alarm("gfi")` is
  one the filter has let through.

### TestPanel

Every panel runs in the home thread, and drawing the step panel moves `g_cur_step`, the cursor `dyj_next_step` walks the
list of a running test with.  Nothing in the scheduler or the panel prevents the two from meeting; `bsp_KeyPro` does, by
not looking at the keys while the state is RUNNING.  `TestPanel` adds `panel` (`panel_flag`; `"left"` is the moment
between its clearing and the end of the panel's loop) and `keyMb` (a release of F2 waits in `key_mb`) to `TestSched`.
`Knob` is not subject to `bsp_KeyPro`: it comes by interrupt whenever a panel is open, on line 15, which is the short
alarm when none is (`AlarmLine`).  `StopKeyInPanel` is `StopKey` with the clearing of `panel_flag`.  `KeyRace` says
whether a key may be released between the poll of `key_mb` that finds nothing and the first statement of
`Test_Sched_Start`; in between lies the debounce of the start key, 10 ms in which the key thread runs.
A message of the knob is drawn in the same action; the panels but the home and the step panel do not touch the cursor.

### StepPool, StepEditor, StepSeq

A list is the record of `cs99xx_list`, the nodes of `step_pool` and `g_free_list`; node 0 is NULL.  The functions of
`memory.c` are operators from record to record, and their `for` loops over `next` are `Walk` and `From`.  The `memset` at the
end of `remove_step` goes through a pointer the loop before it has run to NULL, to an address where the part has no memory; it
is taken to have no effect, so the freed node keeps its old contents, which `insert_after` overwrites.
`StepEditor` has the state of the panel: the selected row, the first row of the page, `g_cur_step`, and what the rows
show.  `Refresh` is the common end of every key.  What a step holds is one value of `Payloads`: mode, limits and times
make no difference to any of these functions.  The saving of the list is the business of `StepStore`.

### StepStore

`file_info`, `current_file` and the loaded `list` (as a sequence, which is what `Sequence` shows it to be) are RAM; `flash`
is what is stored.  A key changes RAM and leaves in `todo` the images of the flash after each of its writes, in the order of
the code; `Write` makes the next one real, `PowerCut` drops the rest, and `Boot` is `memorymanagement_init`.  The home
thread handles no other key while writes are pending.  Left out: names, times and modes of files and the key that edits
them (F4 of the file panel), and the damage a power cut does inside the erase or the program of one sector.

### ResultLog, ResultFile

`head` is `result_headinfo`, `info` and `bin` are `info.bin` and `result.bin` on the card.  A call of
`memory_result_write` or `memory_result_delete` leaves in `todo` the files it has still to touch, in the order of the code;
`WriteRecord`, `WriteInfo` and `Unlink` do it, and `PowerCut` drops the rest with everything in RAM.  Nothing else comes
between: results are saved and the panel is used on one thread at a time, since the panel is closed while a test runs
(`ClosedInTest`).  `card` says whether `dfs_mount` found a card at power-on; nobody asks later, every file call simply fails
without one, and reading leaves the buffer at zero, which is a PASS record (`Zero`).  `screen` is what the rows show.
`log` is history: what was asked to be saved since the last delete, as far as it survived.  `Request` and `Kept` map the two
files to the one list of `ResultFile`.  A record is one value; only whether it is a PASS matters to the header.

### StepRamp

`TestSched` lets a range check fail on any tick.  `StepRamp` says which: it has the numbers the routine computes from
(`p` is `ACW_Test_Param` or `DCW_Test_Param`), the voltage `volt` last asked of the converter, the reading shown, and the limits it
is compared with.  `Process_Value` is kept modulo 2^16 and the ramp interval as the signed quotient the code keeps
unsigned; `SetVoltage` drops a value of 4096 or more after scaling, as `DAC_SetValue` does.  One action is one tick: what an
interrupt does inside one is in `TestSched`.  `saved` is what `result_save` was called with and `judged` the tick of the last
comparison.  The two routines are one module whose differences are conjuncts on `step.mode`.  Left out: GR, IR, LC and PW, whose
output follows a control loop or whose readings need floating point, gears, relays, the arc detector and the power-saving
references of the comparators.

### StepParams

One action per field of the step window: an edit is complete before another key is read.  `num_input` fits what was typed into
the range the field computes, also when that range is empty; `LowUnder` and the truncations to 16 bits are as in the code.
`EnabledModes` are the four modes of this build (`CS9931_Config.c`); the others exist as routines, which `TestSched` models, but no
step of them can be made.  `Above` and `Below` are the comparisons of the range checks, from the routines, so that `Passable`
relates the window to what judges its result.

### StepOffset

The four places are variables: `offset_en` (header of the file), `offset_Is_refresh` (the home screen), `Offset_Get_Flag` and
`Offset_Is_Flag` (the scheduler), `offsetvalue` (steps in RAM) with `flash` behind it.  A value is represented by its origin:
`raw` was recorded from the leads, `net` while another offset was being taken off, `old` before the offset was last turned on,
`junk` was never set: steps are built on the stack and `memory.c` gives `offsetvalue` no value.  The test is a cursor `run`, since
`TestSched` has the rest; the outcome of a step is free.  What matters between two steps is here: `Pause_Flag` and `Continue_Flag` as the
code sets them, and `waiting`, the list stopped before step `run` for the start key.  A step that passes may make the list wait; one that
fails never does, because `Stop_Flag` is then set (`Test_Sched.c:626-629`): forgiven, the list goes straight on, with `Pause_Flag` left behind.  The
start key is polled while a test runs too (`ui_home.c:232`) and sets the flags before `Test_Sched_Start` refuses; with a `Pause_Flag` left
behind it does not refuse (216-218).  `Brief` are the steps that record nothing: ACW leaves the tick that ends the test time (`ACW_Routine.c:613`)
before it records (644-647).  `undisturbed` is history.  `Com_lock` is taken as 0; inserting a step and a list that wraps are left out, and the
start key is not taken between the end of the last step and the verdict, which the scheduler thread runs through without blocking.

## 3. The runs

`Inputs` says what the environment may do: the stop key, each alarm, a failing range check.  `StartHit` says whether
interrupts may fall between two statements of `Test_Sched_Start`, a window of microseconds per test; the properties
that the code does not keep there are checked without it (see the deviations below).  The start key is always there.

| Run | Lists | Inputs | StartHit | Shows |
|---|---|---|---|---|
| `stop_key` | all modes, with and without a pause, the three ways to chain; a list that wraps, an endless step, short phases | stop, fail | no | `TypeOK`, `StepCursor`, `IdleOutputsOff`, `VerdictSound`, `LiveIsRunning`, `SavedBeforeNext`, `StopReleases` |
| `ends` | every mode, then GR, one pass; ACW and DCW with the arc detector on | stop, fail, arc | yes | `RunIsDriven`, `AlarmHeldByStop`, `RunEnds` |
| `panel` | every mode but IR, then GR, with and without failstop; two steps with a wait for the start key; one step | all | no | with the panels, a page of one row, `KeyRace` off: `VerdictSound`, `ClosedInTest`, `TripStaysCut`, `FailContinues` |

| Run | Instance | Shows |
|---|---|---|
| `editor` | a pool of 4, pages of 3 rows, 2 contents, every list to start from | `TypeOK`, `PoolConserved`, `Ordered`, `PageShown`, `SelectionFollows`, and `Sequence`: the refinement of `StepSeq` |
| `store` | 3 rows (the default file and two), files of up to 2 steps, 2 contents; power goes between any two writes | `TypeOK`, `TotalIsSize`, `Durable`, `CutKeepsSteps` |
| `log` | 3 records, pages of 2 rows, three kinds of result; power goes between any two writes, with and without a card | `TypeOK`, `LogKept`, `PassCounted`, `ScreenTrue`, and `ResultFileSpec`: the refinement of `ResultFile` |
| `ramp` | ACW and DCW; start voltages below, at and above the test voltage; waits, ramps and falls of 0 to 7 ticks; test times about the tick of the low limit, and none; pauses, real current, offset | `AtTestVoltage`, `ColdOutside`, `PassIsJudged`, `RampsTowards`, `Falls`, `StepEnds` |
| `params` | all four modes, all gears, nine numbers | `TypeOK`, `Passable`, `GrPower` |
| `offset` | two files of three steps; the list waits after the first two, the first forgives a failure, the last is tested for one tick | `RecordSaved`, `RawIfUndisturbed` |

The bounds: two steps are enough for every chaining (a first, a last, a wrap), because Main only ever looks at the step
just run and its successor; two ticks give a phase its middle and its last tick, and 0 and 1 the ones the code treats
apart; alarms, keys and failures are not bounded.  `prog` never changes: editing needs an open panel, and `ClosedInTest`
says that none is open while a test runs, except for the race `KeyRace` allows (below).
In `panel` a page of one row makes the drawing stop at every place of the list.  In `editor` the pool of 4 with pages of 3
gives a full list, an empty free list, a last page with one row, and a delete that empties it; a removed node is at the
head, in the middle, at the tail.  In `store` two numbered files are enough to store one onto the other while a third is
loaded, and two steps to shorten, extend and exchange; RAM and flash are the whole state, and no key looks at the past.
In `log` three records with pages of two give a full log (8000 in the code), a full and a part page, and a delete after any
number of them.  In `ramp` `COUNT_MAX` = 7 stands for the 10000 ticks after which the shown time of an endless test restarts: it must
only be beyond the fifth tick; `DAC_TOP` = 6500 is the largest voltage whose scaled value is below 4096, and currents 0 to 3 lie on both
sides of every limit and equal to it.  The step list of `ramp` has each pair of fields that meet in one formula.  In
`params` the typed numbers lie below, at and above the bounds the fields compute (1, 30, 160, 399, 1500, ...), and the parameters
of a step are the whole state.  In `offset` three steps give a recording that is broken off half way, a forgiven
failure that goes on to a step that waits, and a step without a record; the second file is one to come from and return to; nothing but the two flags of the start key survives a test.

`RunEnds` (in `ends`) and `StopReleases` (in `stop_key`) assume `WF_vars(SchedStep)`, `WF_vars(HomeStep)` and `WF_vars(TimerFire)`: the scheduler
thread has the highest priority of the application threads, the home thread runs whenever it blocks, and the timer is
periodic.  `StepEnds` assumes `WF_vars(Tick)` in `StepRamp`, the same thread and timer seen from a step.  Nothing is assumed
of the keys and the alarms, nor of the power switch.

### Findings

Each of these runs checks one property that a comment of the code states, and TLC finds it violated.

* `f_enter_race`: an alarm between the test of `Stop_Flag` and the enable leaves the output on after the test.
* `f_forgiven`: step 1 fails and is forgiven, step 2 passes and the list waits, the start key resumes it and sets `Pass_Flag` again, step 3
  passes: the verdict is PASS.
* `f_stale_offset`: the hint of the offset key (`ui_home.c:100-101`) says that the next test records the offset.  Pressing the start key again while that test
  runs sets `Offset_Is_Flag` of the test that is recording: it subtracts, and records the difference to, an `offsetvalue` that nothing has
  ever set.  The other ways to the same end are the disjuncts `RawIfUndisturbed` excludes: a start while the buzzer sounds (the flags are
  skipped, the test is started all the same), a recording test that fails, waits or is stopped, a file read or a step edited in between,
  a power cut, and a cut between the steps and the header of an edit.

Other deviations are in the models as the code has them and shape the runs:

* `Test_Sched_Close` has an empty case for IR (`Test_Sched.c:284`), so that the "emergency stop" leaves the DC output of an
  insulation test on, and `Test_Sched_Main` reads the chaining switches of no IR step (`chained` in `TestModes`).  This is why IR is no
  first step in `panel`.
* GR, LC and PW test no alarm flag: their alarm is handled as a stop key, and the step is recorded as PASS.
* Two stop keys inside `Test_Sched_Start` give a running test whose state is STOP, so that the alarms ignore it
  (`LiveIsRunning` is checked without `StartHit`).
* An alarm between the clearing of `Stop_Flag` and that of its own flag, in a forgiven step (`Test_Sched.c:645-651`) or in
  `Test_Sched_Start` (223-226), stops the test and loses its flag: the list ends without a warning or a record of the alarm.  One that comes
  before `Pass_Flag` and `Stop_Flag` are written in `Test_Sched_Start` (222-223) is lost altogether.  `AlarmHeldByStop` says what is left: no alarm
  flag stands over a test that goes on, but where it is about to be cleared (`HomeClears`, `PcClears`).
* A forgiven failure of a step without stepcontinuation leaves `Pause_Flag` set although the list does not wait (626-629), so that the
  start key is accepted in the middle of the next step (216-218) and sets `Pass_Flag` there too.
* A step tested for one tick records no offset (`ACW_Routine.c:613`): `RawIfUndisturbed` excepts it (`Brief`).
* An F2 released while the home thread waits out the debounce of the start key opens the step panel in the test, and drawing it takes the
  cursor to the end of the list: the test ends with PASS after its first step.  `KeyRace = FALSE` excludes it.
* The pause of a power step never counts down (`pauseCounts`): such a step is left out of `ends`.
* A power cut between the header and the steps of a new file leaves a file that loads an erased slot; `read_flash_to_list` notices and
  nobody reads its result.
* Storing on the last row of the file panel selects a row behind `file_info`: `StepStore` lets no key act on it.
* The last tick of TESTING shows the reading without taking the offset off, and PAUSE judges it (`ACW_Routine.c:562`, 719): a step within its
  limits can get a HIGH record next to its PASS.  `Expire` and `Pause` of `StepRamp` have it, and this is why `PassIsJudged` speaks of steps whose only
  record is PASS.
* A test time of 0.5 s or less is never compared with the low limit, and the last tick of any test time with neither.
* DCW keeps the value of the ramp from a tick before its end and falls from there; with a start voltage above the test voltage its
  fall begins with a rise, which `Falls` excepts.
* The windows of DCW and LC accept a high limit of 0, those of GR and LC limits one apart with both ends failing: `Passable` names them
  as exceptions, such steps fail whatever is measured.
* Without a card the header counts results that are nowhere, and reading them gives records of zero bytes, which are PASS: the
  properties of `ResultLog` speak of the instrument with a card.

In `ends` the arc alarm is the one that, outside `Test_Sched_Start`, cannot meet the race of `f_enter_race`: ACW and DCW arm it only after their output is on.
With `StartHit` it can: a tick that preempts `Test_Sched_Start` before it clears `arc_Isable` leaves the arc of the last test armed while the first
output goes on.  This is why `StopReleases` is checked in `stop_key`; no property of `ends` looks at the outputs.
The second step in `panel` shares no output with the first one because of `f_enter_race`.  `TotalIsSize`,
`Durable` and `CutKeepsSteps` speak of files in use, because a cut in a delete boots into the deleted file, whose count in RAM
F2 then resets (`file_init`) even when its window is left.

## 4. What is proved

Every safety property of the passing runs is proved for all values of the constants; the hypotheses beyond the named
assumptions are the ones listed here, each needed because of a deviation of section 3.

`TestSchedProofs` proves, for every set of step lists, every set of inputs and both values of `StartHit`:

* `TypeCorrect`: `Spec => []TypeOK`.
* `CursorCorrect`: `Spec => []StepCursor`.
* `AlarmHeld`: `Spec => []AlarmHeldByStop`: a pending alarm keeps `Stop_Flag` set and `Pass_Flag` clear, but between the clearing of these and
  of its own flag in `Test_Sched_Start` and in a forgiven step.
* `IdleIsOff`: `Spec => []IdleOutputsOff`, for lists none of whose routines checks an alarm the environment raises.

`TypeOK` is not inductive: a tick of a phase is only well defined while `p_Test_Param` points at a step, and a PAUSE
counts down a natural number only while it is above 0.  `StepOK` says where the thread is inside a step and that the
pointer is then not NULL; to keep it across a fetch one must know that a step that has run is the one under the cursor,
which is `StepCursor`.  `TypeInv`, the conjunction of the three, is inductive.  `AlarmHeldByStop` is inductive over it, because it names
those statements.
`IdleOutputsOff` needs `OutputsInv`: an output that is on belongs to the mode of the present step, and the thread is in a
phase of it or between two stages of Enter; a thread that has left its loop is between two steps.  The assumption of
`IdleIsOff` is needed: with alarms the property is false (`f_enter_race`).  It rests on the named assumptions
`ProgramsAssumption` and `InputsAssumption` only.

Two more properties relate the thread to what interrupts and earlier steps did, on top of `TypeInv`:

* `StepsAreSaved`: `Spec => SavedBeforeNext`, for every list and every input.  `SavedInv` says that a step the pointer still
  points at and that is over (state OUT, not about to enter) has its record; each of the ways out of a routine saves one.
* `StaysCut`: `Spec => []TripStaysCut`, for lists without an IR step, whose case in `Test_Sched_Close` is empty.  `TripInv` adds that
  the tripped steps are behind the cursor, and that a step about to enter is none of them: only Enter energises an output, and a
  fetch moves past every step an alarm has met unless it starts a new pass.  `CloseCovers` is the fact about the modes.

Four relate the flags of `Test_Sched_Param` to the thread and to each other over a whole test:

* `RunsAreDriven`: `Spec => []RunIsDriven`, also with interrupts inside `Test_Sched_Start`.  `Driven` says that loop flag and timer go
  together, where the thread may work without them (only where `Stop_Flag` ends the test), and that a blocked thread has its
  message on the way.
* `LiveRuns`: `Spec => []LiveIsRunning`, if `StartHit` is FALSE.  `Started` says that the scheduler thread stands still while
  `Test_Sched_Start` runs, that outside RUNNING the list is at its head and `Stop_Flag` is set or nothing has run, and that a verdict has
  reset the list.
* `VerdictIsSound`: `Spec => []VerdictSound`, if `StartHit` is FALSE and no list both forgives a failure and waits for the start key
  before its last step (`Remembers`).  The verdict is `Pass_Flag`, which `Test_Sched_Start` sets again at every resumption, so the
  invariant must carry what the flag forgets: `CleanInv` says that with `Pass_Flag` set, and at the start of a resumption, the steps behind the
  cursor are saved as PASS, no check has failed and no alarm was met; `PauseInv` that a list waits only with such a pass, and where
  `Pause_Flag` can stay behind.  A list outside `Remembers` has the counterexample `f_forgiven`.
* `FailureIsForgiven`: `Spec => FailContinues`, under the same hypotheses, if `Main` reads the switches of every step that says failstop
  (`ForgivingIsRead`: it reads those of no IR step).  `ForgiveInv` says that neither `Pause_Flag` nor `Continue_Flag` is set inside a step, so
  that `Main` takes over the failstop of a step that failed.

`TestPanelProofs` proves `PanelClosed`: `PanelSpec => []ClosedInTest` for every set of lists and inputs and every page
length, if `KeyRace` is FALSE.  `ClosedInTest` alone is not inductive:
`PanelInv` adds that a key in `key_mb` was released while no test ran, and that `Test_Sched_Start` has found the home panel and
`key_mb` empty.  That no other statement of the scheduler sets the state to RUNNING is `Quiet`, one lemma per context.
With it what is proved of the scheduler alone carries over to `PanelSpec` (`StartHit` and `KeyRace` FALSE): `PanelAlarmHeld`, `PanelStaysCut`,
`PanelVerdict` and `PanelForgives`; the gap of a forgiven step is in `PanelAlarmHeld`, that of `Test_Sched_Start` only in `AlarmHeld`.
A panel moves the cursor only where no test runs (`PanelInv`), there the list is at its head (`Started`), and at
the head nothing depends on the cursor (`PanelStill`, `PanelKeeps`).

`StepEditorProofs` proves, for every pool, page length and set of contents, `TypeCorrect`, `PoolIsConserved`, `ListIsOrdered`, `PageIsShown`,
`SelectionIsKept` (F4 and F5 take the selection along; F2 on a step selects the new one, on an empty row the row behind it) and
`Refinement` (`Spec => Sequence`).  What a walk over `next` visits is recursive, so the invariant names it from
outside: `Rep(list, g)` says that `g` enumerates the pool, the first `size` nodes being the steps in their order and the rest the free list,
and that `next`, `prev` and the numbers are those of the places in `g`.  Each function of `memory.c` is shown to rearrange `g` as insertion,
removal or exchange does a sequence.

`StepStoreProofs` proves, for any number of files and steps, `TypeCorrect`, `TotalCountsSteps`, `FlashIsDurable` and `CutKeepsOldOrNew`.  `Durable` says nothing
while writes are pending, so `Inv` speaks of every image that is in flash or still to be written: the instrument can boot from each, the last is what RAM holds, and
those of an edit lie between the old list and the new one.

`ResultLogProofs` proves, for every capacity and page length, `Types` (`TypeOK`), `KeptIsLog` (`LogKept`) and `Implements`
(`Spec => ResultFileSpec`).  The inductive invariant `IInv` says what is between two writes: while a record is to be written, the header
on the card is the one in RAM; once it is written, the one in RAM counts one more and the record is at its end; after the header of a
delete the list is empty whatever `result.bin` holds.  `KeptIsLog` and the refinement both follow from it: only `WriteInfo` changes what
the next boot finds, and it changes it by the request.
`CountIsRight` (`PassCounted`) follows the pass count of the header through a pending write (`PassInv`), and `ScreenIsLog` (`ScreenTrue`) that every key draws the
page it selects from what is then on the card (`PanelInv`).

`StepRampProofs` proves `Types` (`TypeOK`), `TestsAtVoltage` (`AtTestVoltage`) and `Cold` (`ColdOutside`) for every set of steps whose voltages fit the
converter and every set of readings.  The types alone need that a counter is at least 1 in its phase, which is the strengthening;
`TestsAtVoltage` adds that the converter takes the test voltage, which is why the assumption names `DAC_TOP`.
`PassesAreJudged` (`PassIsJudged`) rests on `Judging`: the ticks judged are the ticks counted, and they add up with the ticks left to the test time.  `RampIsDirect`
(`RampsTowards`) rests on `Climbing`: what the remaining ticks add stays on this side of the test voltage, so that the 16-bit sum never wraps.  `FallNeverRises` (`Falls`)
rests on `Falling` and assumes `2 * DAC_TOP < 2^16` (the real converter takes 6500 V at most): a DCW fall may wrap below zero, and the
wrapped value is then one the converter drops.

`StepParamsProofs` proves `Types`, `CanPass` (`Passable`), `Power` (`GrPower`), `Ordered` (the low limit is below the high one, but for a high
limit of 0) and `Switches` (SL is never on without SH) for every set of typed numbers and every `GR_CUR_MAX` from 15 to 40 A (the
two builds have 32 and 40 A).  The conjunction is inductive, with the bound on the high limit that keeps `high * outcur` in reach.  The largest
word is handled through the lemma `WordMax`, and the division by its two inequalities (`Quotient`).

`StepOffsetProofs` proves `Types`, `Saves` (`RecordSaved`) and `Raw` (`RawIfUndisturbed`) for every set of files, every number of steps and every choice
of those that wait, forgive or are brief.  `RawIfUndisturbed` is about the step under test; what carries it from the recording test to a later one
is `FlashRaw`, that an undisturbed file whose request has been served has only raw offsets in flash, and within the recording test
`RecordedRaw`, that every step behind the cursor has one, brief steps excepted in both.  `RunFlags` keeps the two flags apart in a test, `HeaderSaved` and `EditedIdle` tie the
two writes of an edit to the power switch.

The proofs are laid out by context: interrupts, Start, Main between two steps, Enter, the phases; elsewhere one lemma or step per action.

Model-checked only: liveness (`RunEnds`, `StopReleases`, `StepEnds`), which needs fairness and `ENABLED`.  The theorems about `VerdictSound` and
`FailContinues` say nothing of lists outside their hypotheses; for the lists of `stop_key` and `panel` these hold.

## 5. Not modelled

* The statistics, details and export of the result panel, the calibration records and the system settings next to it in
  `memorymanagement.c`: reads of what `ResultLog` keeps, and independent single writes.
* Names, times and modes of files, import and export by USB; the fields of a step that depend on nothing.
* The control loops, gears and measuring arithmetic of GR, IR, LC and PW, and calibration: floating point, and tables fitted to the hardware.
* The debounce of the GFI line: how many polls fall between two clearing ticks depends on one build.  So do torn writes of
  bit fields, and what a write behind an array hits.
* The erase and the program of a flash sector as two steps: a cut between them loses the whole image, and no code looks for it.
* The barcode reader, whose thread only fills a text buffer, and the lock it puts in front of `Test_Sched_Start`, which is pressed freely here.
* The Modbus master of the power meter: its only reader is the power routine, and this build offers no power step.
* The SCPI interpreter: `int_API_PEMRead` is called from `uart.c` only, which is outside the build, so nothing feeds it a byte.
* Menus, screens, fonts and drivers: register writes and drawing without state that another part reads.
* RT-Thread, its file system, the USB host and the ST libraries are third-party code; mailboxes, timers and threads are modelled as the code
  above uses them.
