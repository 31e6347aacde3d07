------------------------------ MODULE StepStore ------------------------------
(***************************************************************************)
(* The test files: file_info and the loaded steps in RAM, their images in  *)
(* the parameter flash, the file panel (ui_file.c), boot                   *)
(* (memorymanagement_init), and the power switch.                          *)
(*                                                                         *)
(* A key changes RAM at once and leaves in `todo` the flash images its     *)
(* calls of sf_WriteBuffer produce, one after the other; the power may go  *)
(* between two of them.  The loaded steps are the sequence StepEditor      *)
(* shows the list to be.                                                   *)
(***************************************************************************)
EXTENDS Integers, SequencesExt

CONSTANTS FILE_NUM,        \* rows of file_info; row 0 is the default file
          TOTALSTEP_NUM,   \* steps of a file
          Payloads,        \* a step but for its number
          Default          \* what a new step holds

ASSUME StoreAssumption == /\ FILE_NUM \in Nat \ {0, 1}
                          /\ TOTALSTEP_NUM \in 1..254
                          /\ Default \in Payloads

VARIABLES on,            \* the instrument has power
          file_info,     \* RAM: the headers
          current_file,  \* RAM: flash_info.current_file, the loaded file
          list,          \* RAM: the steps of the loaded file
          current_item,  \* RAM: the selected row of the file panel, from 0
          flash,         \* the parameter flash
          todo,          \* the images the present key has still to write
          edit           \* history: the steps before and after the last key, if it edited

ram  == <<file_info, current_file, list, current_item>>
vars == <<on, ram, flash, todo, edit>>

Files == 0..FILE_NUM - 1
Slots == 1..TOTALSTEP_NUM

(* a step with its number, com.step; the bytes of an erased slot are 255 *)
Steps  == [step : Slots, data : Payloads]
Erased == [step |-> 255, data |-> Default]
Step(k, d) == [step |-> k, data |-> d]

File   == [en : BOOLEAN, totalstep : 0..TOTALSTEP_NUM]
NoFile == [en |-> FALSE, totalstep |-> 0]

(* bkp is FLASH_BKP_VALUE once the first boot has finished *)
Flash == [bkp : BOOLEAN, current_file : Files, files : [Files -> File],
          steps : [Files -> [Slots -> Steps \cup {Erased}]]]

Init == /\ on = FALSE
        /\ file_info = [n \in Files |-> NoFile]
        /\ current_file = 0
        /\ list = <<>>
        /\ current_item = 0
        /\ flash = [bkp |-> FALSE, current_file |-> 0, files |-> [n \in Files |-> NoFile],
                    steps |-> [n \in Files |-> [k \in Slots |-> Erased]]]
        /\ todo = <<>>
        /\ edit = <<>>

-----------------------------------------------------------------------------
(* BSP/drivers/memory.c *)

NewList == <<Step(1, Default)>>                                \* init_list

(* init_list, then read_flash_to_list: the result of the check is not used *)
Load(fl, headers, n) ==
    IF headers[n].totalstep = 0 THEN NewList
    ELSE [k \in 1..headers[n].totalstep |-> fl.steps[n][k]]

(* The flash images of the calls that write, from the flash fl they find. *)
(* save_steps_to_flash writes one step after the other.                   *)
SaveSteps(fl, n, l) ==
    [k \in 1..Len(l) |->
        [fl EXCEPT !.steps[n] = [s \in Slots |-> IF s <= k THEN l[s] ELSE fl.steps[n][s]]]]
SaveFile(fl, headers, n) == <<[fl EXCEPT !.files[n] = headers[n]]>>
SaveFiles(fl, headers)   == <<[fl EXCEPT !.files = headers]>>
(* F1 and F2 of the file panel *)
SaveHeaderSteps(fl, headers, n, l) ==
    SaveFile(fl, headers, n) \o SaveSteps(Last(SaveFile(fl, headers, n)), n, l)
(* Defect: the file that is loaded is not remembered. *)
SaveInfo_not(fl, n) == <<[fl EXCEPT !.bkp = TRUE]>>
SaveInfo(fl, n)     == <<[fl EXCEPT !.bkp = TRUE, !.current_file = n]>>

-----------------------------------------------------------------------------
(* memorymanagement_init.  The first boot makes a default file and writes the *)
(* backup word last.                                                          *)
FirstBoot ==
    LET headers == [[n \in Files |-> NoFile] EXCEPT ![0] = [en |-> TRUE, totalstep |-> 1]]
        files   == SaveFiles(flash, headers)
        steps   == SaveSteps(Last(files), 0, NewList)
    IN  /\ file_info' = headers
        /\ current_file' = 0
        /\ list' = NewList
        /\ todo' = files \o steps \o SaveInfo(Last(steps), 0)
LaterBoot ==
    /\ file_info' = flash.files
    /\ current_file' = flash.current_file
    /\ list' = Load(flash, flash.files, flash.current_file)
    /\ todo' = <<>>

Boot == /\ ~on
        /\ on' = TRUE
        /\ IF flash.bkp THEN LaterBoot ELSE FirstBoot
        /\ edit' = <<>>
        /\ UNCHANGED <<current_item, flash>>

PowerCut == /\ on
            /\ on' = FALSE
            /\ file_info' = [n \in Files |-> NoFile]
            /\ current_file' = 0
            /\ list' = <<>>
            /\ current_item' = 0
            /\ todo' = <<>>
            /\ UNCHANGED <<flash, edit>>

(* sf_WriteBuffer returns *)
Write == /\ todo # <<>>
         /\ flash' = Head(todo)
         /\ todo' = Tail(todo)
         /\ UNCHANGED <<on, ram, edit>>

-----------------------------------------------------------------------------
Idle   == on /\ todo = <<>>
WellNumbered(l) == \A k \in DOMAIN l : l[k].step = k

(* ui_step.c: F2, F3, F4 or F5, and the window, then the save: the steps, and *)
(* then the header that counts them.  Only a list position_step can find its  *)
(* way in is edited.                                                          *)
Numbered(s) == [k \in DOMAIN s |-> Step(k, s[k])]
(* insert_after finds a node.  Defect: a node too many is handed out. *)
Room_late(s) == Len(s) <= TOTALSTEP_NUM
Room(s) == Len(s) < TOTALSTEP_NUM
Edited(s) ==
    {Numbered(t) : t \in {InsertAt(s, k + 1, Default) : k \in {k \in DOMAIN s : Room(s)}}
                     \cup {RemoveAt(s, k) : k \in {k \in DOMAIN s : Len(s) > 1}}
                     \cup {ReplaceAt(s, k, p) : k \in DOMAIN s, p \in Payloads}
                     \cup {[s EXCEPT ![k] = s[k + 1], ![k + 1] = s[k]] : k \in 1..Len(s) - 1}}

(* Defect: the header is written first. *)
SaveEdit_header(headers, l) ==
    LET header == SaveFile(flash, headers, current_file)
    IN  header \o SaveSteps(Last(header), current_file, l)
SaveEdit(headers, l) ==
    LET steps == SaveSteps(flash, current_file, l)
    IN  steps \o SaveFile(Last(steps), headers, current_file)

EditSteps == /\ Idle
             /\ WellNumbered(list)
             /\ list' \in Edited([k \in DOMAIN list |-> list[k].data])
             /\ file_info' = [file_info EXCEPT ![current_file].totalstep = Len(list')]
             /\ todo' = SaveEdit(file_info', list')
             /\ edit' = <<list, list'>>
             /\ UNCHANGED <<on, current_file, current_item, flash>>

-----------------------------------------------------------------------------
(* ui_file.c: the keys act on the file of the selected row, while there is one *)
Sel   == current_item + 1
OnRow == Idle /\ Sel \in Files
LastRow == FILE_NUM - 2

Untouched == edit' = <<>> /\ UNCHANGED <<on, flash>>

(* F1: the loaded file is stored on the selected row.  The selection moves on *)
(* also behind the last row.                                                  *)
StoreKey ==
    /\ OnRow
    /\ \/ /\ Sel = current_file
          /\ UNCHANGED <<file_info, todo>>
       \/ /\ Sel # current_file
          /\ file_info' = [file_info EXCEPT ![Sel] =
                             [file_info[current_file] EXCEPT !.en = @ \/ current_file = 0]]
          /\ todo' = SaveHeaderSteps(flash, file_info', Sel, list)
    /\ current_item' = current_item + 1
    /\ Untouched
    /\ UNCHANGED <<current_file, list>>

(* F2: a new file on an empty row, unless its window is left; the loaded file *)
(* is loaded again, for init_list has gone over it.  Defect: it is not.       *)
NewList_kept(fl, headers, n) == NewList
Reload(fl, headers, n) == Load(fl, headers, n)

NewKey ==
    /\ OnRow
    /\ ~file_info[Sel].en
    /\ Untouched
    /\ \/ /\ file_info' = [file_info EXCEPT ![Sel] = [en |-> FALSE, totalstep |-> 1]]
          /\ UNCHANGED <<current_file, list, current_item, todo>>
       \/ /\ file_info' = [file_info EXCEPT ![Sel] = [en |-> TRUE, totalstep |-> 1]]
          /\ todo' = SaveHeaderSteps(flash, file_info', Sel, NewList)
          /\ list' = Reload(Last(todo'), file_info', current_file)
          /\ current_item' = IF current_item < LastRow THEN current_item + 1 ELSE current_item
          /\ UNCHANGED current_file

(* F3: load the file *)
ReadKey ==
    /\ OnRow
    /\ file_info[Sel].en
    /\ current_file' = Sel
    /\ list' = Load(flash, file_info, Sel)
    /\ todo' = SaveInfo(flash, Sel)
    /\ Untouched
    /\ UNCHANGED <<file_info, current_item>>

(* F5: the file of the row or all files go and the default file is loaded, or *)
(* the window is left; the loaded file is loaded again in any case            *)
DeleteKey ==
    /\ OnRow
    /\ file_info[Sel].en
    /\ LET one    == [file_info EXCEPT ![Sel].en = FALSE]
           none   == [n \in Files |-> [file_info[n] EXCEPT !.en = FALSE]]
           Forget(headers, images) ==
               /\ file_info' = headers
               /\ current_file' = 0
               /\ todo' = images \o SaveInfo(Last(images), 0)
       IN  \/ Forget(one, SaveFile(flash, one, Sel))
           \/ Forget(none, SaveFiles(flash, none))
           \/ /\ todo' = SaveInfo(flash, current_file)
              /\ UNCHANGED <<file_info, current_file>>
    /\ list' = Load(flash, file_info', current_file')
    /\ Untouched
    /\ UNCHANGED current_item

(* the arrows and the knob; opening the panel selects the first row *)
Move == /\ Idle
        /\ \/ current_item > 0       /\ current_item' = current_item - 1
           \/ current_item < LastRow /\ current_item' = current_item + 1
           \/ current_item > 1       /\ current_item' = 0
        /\ UNCHANGED <<on, file_info, current_file, list, flash, todo, edit>>

Next == \/ Boot
        \/ PowerCut
        \/ Write
        \/ EditSteps
        \/ StoreKey
        \/ NewKey
        \/ ReadKey
        \/ DeleteKey
        \/ Move

Spec == Init /\ [][Next]_vars

-----------------------------------------------------------------------------
TypeOK == /\ on \in BOOLEAN
          /\ file_info \in [Files -> File]
          /\ current_file \in Files
          /\ list \in Seq(Steps \cup {Erased}) /\ Len(list) <= TOTALSTEP_NUM
          /\ current_item \in 0..FILE_NUM - 1
          /\ flash \in Flash
          /\ todo \in Seq(Flash)
          /\ edit \in Seq(Seq(Steps)) /\ Len(edit) \in {0, 2}

(* The loaded file is one a user can select: a cut in F5 may boot into another. *)
InUse == current_file = 0 \/ file_info[current_file].en

(* The header of the loaded file counts the loaded steps, whatever the file    *)
(* panel does to other rows in the list it shares with them, and wherever the  *)
(* power went: the scheduler compares current_step_num with totalstep and      *)
(* dyj_next_step walks the list.                                               *)
TotalIsSize == on /\ InUse => file_info[current_file].totalstep = Len(list)

(* Whenever no write is pending, the next boot restores what is loaded: the   *)
(* same file, with the same steps, and the same rows in use.                  *)
Durable ==
    Idle /\ InUse =>
        /\ flash.bkp
        /\ flash.current_file = current_file
        /\ Load(flash, flash.files, current_file) = list
        /\ \A n \in Files : flash.files[n].en = file_info[n].en

(* A power cut in the save of an edit leaves at every place the step that was *)
(* there before the key or the one that is there after it, and one of the two *)
(* lengths.                                                                   *)
CutKeepsSteps ==
    [][Boot /\ edit # <<>> /\ InUse' =>
          /\ Len(list') \in {Len(edit[1]), Len(edit[2])}
          /\ \A k \in DOMAIN list' :
                \E l \in {edit[1], edit[2]} : k \in DOMAIN l /\ list'[k] = l[k]]_vars
=============================================================================
