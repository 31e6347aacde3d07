----------------------------- MODULE TestPanel -----------------------------
(***************************************************************************)
(* The home thread runs every panel, one at a time, and the step panel     *)
(* draws its rows by moving g_cur_step, the cursor of a running test.      *)
(* Nothing but the keyboard keeps the two apart: bsp_KeyPro stops looking  *)
(* at the keys while a test is RUNNING.  This module puts the panels       *)
(* around TestSched: opening and leaving the step panel, the knob, and the *)
(* interrupts that depend on panel_flag.                                   *)
(***************************************************************************)
EXTENDS TestSched

CONSTANTS items_count,   \* rows of a page of the step panel
          KeyRace        \* a key may be released between the poll of key_mb and the
                         \* first statement of Test_Sched_Start that matters

ASSUME PanelAssumption == items_count \in Nat \ {0} /\ KeyRace \in BOOLEAN

VARIABLES panel,   \* panel_flag: "home", "step"; "left": cleared, loop not yet left
          keyMb    \* key_mb holds the release of F2, which opens the step panel

panelVars == <<panel, keyMb>>
allVars   == <<vars, panelVars>>

schedVars == <<prog, tsp, clock, out, left, stage, failCont, leds, saved,
               history, pc, home>>

PanelInit == Init /\ panel = "home" /\ keyMb = FALSE

-----------------------------------------------------------------------------
(* The home thread is between two messages of key_mb. *)
Polling == home = "ready" /\ HomeRuns

(* Where g_cur_step stands after listbox_draw of the page that begins after   *)
(* the first n steps: past its last row, NULL when that ends the list.        *)
CursorAfterPage(n) == IF n + items_count < Len(prog) THEN n + items_count + 1 ELSE 0

(* bsp_KeyPro and the test in front of it.  Defect: no such test. *)
KeysOn_always == TRUE
KeysOn == tsp.Test_Sched_State # "RUNNING" /\ ~tsp.Warning_Flag

(* the key thread sends the release of F2 *)
KeyRelease == /\ panel = "home"
              /\ KeysOn
              /\ home = "run" => KeyRace
              /\ HomeRuns
              /\ keyMb' = TRUE
              /\ UNCHANGED <<vars, panel>>

OpenPanel == /\ panel = "home"
             /\ keyMb
             /\ Polling
             /\ panel' = "step"
             /\ keyMb' = FALSE
             /\ g_cur_step' = CursorAfterPage(0)
             /\ UNCHANGED <<schedVars, stepNum>>

(* A turn of the knob redraws some page.  It comes by interrupts that look only *)
(* at panel_flag; one of them is the line of the short alarm.                   *)
Knob == /\ panel = "step"
        /\ Polling
        /\ \E n \in 0..Len(prog) : n % items_count = 0 /\ g_cur_step' = CursorAfterPage(n)
        /\ UNCHANGED <<schedVars, stepNum, panelVars>>

(* F6 *)
LeavePanel == /\ panel = "step"
              /\ KeysOn
              /\ Polling
              /\ panel' = "left"
              /\ UNCHANGED <<vars, keyMb>>

(* home_entry starts anew *)
EnterHome == /\ panel = "left"
             /\ Polling
             /\ panel' = "home"
             /\ stepNum' = 1
             /\ g_cur_step' = 1
             /\ UNCHANGED <<schedVars, keyMb>>

(* Test_Sched_Close also clears panel_flag: at home that changes nothing *)
StopKeyInPanel == /\ StopKey
                  /\ panel' = IF panel = "step" THEN "left" ELSE panel
                  /\ UNCHANGED keyMb

(* EXTI15_10_IRQHandler: line 15 is the short alarm only while panel_flag is 0 *)
AlarmLine(a) == /\ a = "short" => panel # "step"
                /\ Alarm(a)
                /\ UNCHANGED panelVars

(* the start key is polled by the home panel when key_mb was empty *)
StartKey == /\ panel = "home"
            /\ keyMb => KeyRace
            /\ StartPress
            /\ UNCHANGED panelVars

PanelNext == \/ KeyRelease
             \/ OpenPanel
             \/ Knob
             \/ LeavePanel
             \/ EnterHome
             \/ StopKeyInPanel
             \/ \E a \in Alarms : AlarmLine(a)
             \/ StartKey
             \/ (TimerFire \/ HomeStep \/ SchedStep) /\ UNCHANGED panelVars

PanelSpec == PanelInit /\ [][PanelNext]_allVars

-----------------------------------------------------------------------------
(* While a test runs or is paused the step panel is closed: it would move the *)
(* cursor of the test, edit the list under it, and turn the short alarm into  *)
(* the knob (bsp_KeyPro, EXTI15_10_IRQHandler, step_item_draw).               *)
ClosedInTest == panel = "step" => tsp.Test_Sched_State # "RUNNING"
=============================================================================
