------------------------------ MODULE ResultLog ------------------------------
(***************************************************************************)
(* The test results (memorymanagement.c): a header, result_headinfo, in    *)
(* RAM and in info.bin, the records in result.bin, both on the TF card,    *)
(* and the result panel (ui_result.c) that shows, counts and deletes them. *)
(*                                                                         *)
(* The routines save a result and the panel is used on one thread, one     *)
(* after the other.  What can come between two of its steps is the power   *)
(* switch, so each write of a file is a step of its own.  Whether the card *)
(* is mounted is settled at power-on, and nobody asks later.               *)
(***************************************************************************)
EXTENDS Integers, FiniteSets, Sequences

CONSTANTS Results,       \* what a record may hold
          Pass,          \* the results whose error is PASS
          Zero,          \* a record of zero bytes; PASS is 0 in error_type
          None, Clear,   \* no record; the request to delete all records
          TOTAL_SIZE,    \* records, and rows of the panel
          ITEMS_COUNT    \* rows of a page

ASSUME ResultAssumption == /\ TOTAL_SIZE \in Nat \ {0}
                           /\ ITEMS_COUNT \in Nat \ {0}
                           /\ Pass \subseteq Results
                           /\ Zero \in Pass
                           /\ None \notin Results
                           /\ Clear \notin Results
                           /\ Clear # None

VARIABLES on,            \* the instrument has power
          card,          \* dfs_mount has mounted the card
          head,          \* RAM: result_headinfo
          info,          \* info.bin
          bin,           \* result.bin, by record
          temp,          \* the record being saved
          todo,          \* the files the present call has still to write
          panel,         \* the result panel is open, panel_flag = 4
          current_item,  \* its selected row, from 0
          screen,        \* what its rows show
          log            \* history: the results saved, as far as the instrument counts them

ui   == <<panel, current_item, screen>>
vars == <<on, card, head, info, bin, temp, todo, ui, log>>

Records == 1..TOTAL_SIZE
Rows    == 0..ITEMS_COUNT - 1

Header  == [test_count : 0..TOTAL_SIZE, pass_count : 0..TOTAL_SIZE,
            current_numb : 0..TOTAL_SIZE, bkp : BOOLEAN]
Erased  == [k \in Records |-> None]
Blank   == [k \in Rows |-> None]

(* a file that does not exist reads as zero bytes *)
NoFile  == [test_count |-> 0, pass_count |-> 0, current_numb |-> 0, bkp |-> FALSE]
(* Defect: the place of the next record is not reset. *)
NewHead_place == [test_count |-> 0, pass_count |-> 0,
                  current_numb |-> head.current_numb, bkp |-> TRUE]
(* Defect: the counter of passed tests is not reset. *)
NewHead_pass  == [test_count |-> 0, pass_count |-> head.pass_count, current_numb |-> 0,
                  bkp |-> TRUE]
NewHead == [test_count |-> 0, pass_count |-> 0, current_numb |-> 0, bkp |-> TRUE]

Init == /\ on = FALSE
        /\ card = FALSE
        /\ head = NoFile
        /\ info = NoFile
        /\ bin = Erased
        /\ temp = None
        /\ todo = <<>>
        /\ panel = FALSE /\ current_item = 0 /\ screen = Blank
        /\ log = <<>>

(* what the next boot finds *)
Kept == [k \in 1..info.test_count |-> bin[k]]

Idle == on /\ todo = <<>>

-----------------------------------------------------------------------------
(* Power, memorymanagement_init *)

(* without a card the read leaves the header as the C start-up made it *)
ReadInfo(c) == IF c THEN info ELSE NoFile

Boot == /\ ~on
        /\ on' = TRUE
        /\ card' \in BOOLEAN
        /\ IF ReadInfo(card').bkp
           THEN head' = ReadInfo(card') /\ todo' = <<>>
           ELSE head' = NewHead /\ todo' = <<"info">>
        /\ log' = IF card' THEN Kept ELSE <<>>
        /\ UNCHANGED <<info, bin, temp, ui>>

PowerCut == /\ on
            /\ on' = FALSE
            /\ head' = NoFile
            /\ temp' = None
            /\ todo' = <<>>
            /\ panel' = FALSE /\ current_item' = 0 /\ screen' = Blank
            /\ UNCHANGED <<card, info, bin, log>>

-----------------------------------------------------------------------------
(* memory_result_write, memory_result_delete: the files they write, in order; *)
(* the open of a file that fails is not noticed                               *)

SaveFiles   == <<"record", "info">>
(* Defect: the records go before the header that counts them. *)
DeleteFiles_unlink == <<"unlink", "info">>
DeleteFiles == <<"info", "unlink">>

(* result_save fills temp; a full log drops it, and result_save does not look *)
Save(r) == /\ Idle
           /\ ~panel
           /\ head.current_numb < TOTAL_SIZE
           /\ temp' = r
           /\ todo' = SaveFiles
           /\ UNCHANGED <<on, card, head, info, bin, ui, log>>

(* the record, and then the header in RAM *)
Counted(r) == [head EXCEPT !.test_count = @ + 1, !.current_numb = @ + 1,
                           !.pass_count = IF r \in Pass THEN @ + 1 ELSE @]

WriteRecord == /\ on
               /\ todo # <<>> /\ Head(todo) = "record"
               /\ bin' = IF card THEN [bin EXCEPT ![head.current_numb + 1] = temp] ELSE bin
               /\ head' = Counted(temp)
               /\ log' = Append(log, temp)
               /\ todo' = Tail(todo)
               /\ UNCHANGED <<on, card, info, temp, ui>>

WriteInfo == /\ on
             /\ todo # <<>> /\ Head(todo) = "info"
             /\ info' = IF card THEN head ELSE info
             /\ todo' = Tail(todo)
             /\ temp' = IF Tail(todo) = <<>> THEN None ELSE temp
             /\ UNCHANGED <<on, card, head, bin, ui, log>>

-----------------------------------------------------------------------------
(* the result panel *)

(* memory_result_read: without a card result_temp keeps the zeros it started as *)
ReadRecord(h, b, i) == IF i >= h.test_count THEN None
                       ELSE IF card THEN b[i + 1]
                       ELSE Zero

(* listbox_draw and result_item_draw of the page of row n *)
Start(n) == (n \div ITEMS_COUNT) * ITEMS_COUNT
Page(h, b, n) == [k \in Rows |-> IF Start(n) + k < TOTAL_SIZE
                                 THEN ReadRecord(h, b, Start(n) + k) ELSE None]
(* Defect: the page is drawn anew only when it is another page. *)
Draw_turned(h, b, n) == screen' = IF Start(n) = Start(current_item) THEN screen
                                  ELSE Page(h, b, n)
Draw(h, b, n) == screen' = Page(h, b, n)

Open == /\ Idle
        /\ ~panel
        /\ panel' = TRUE
        /\ current_item' = 0
        /\ Draw(head, bin, 0)
        /\ UNCHANGED <<on, card, head, info, bin, temp, todo, log>>

Leave == /\ Idle
         /\ panel
         /\ panel' = FALSE
         /\ UNCHANGED <<on, card, head, info, bin, temp, todo, current_item, screen, log>>

Up    == IF current_item > 0 THEN current_item - 1 ELSE current_item
Down  == IF current_item < TOTAL_SIZE - 1 THEN current_item + 1 ELSE current_item
Left  == IF current_item >= ITEMS_COUNT THEN current_item - ITEMS_COUNT ELSE current_item
(* Defect: the last row is not observed. *)
Right_past == current_item + ITEMS_COUNT
Right == IF current_item + ITEMS_COUNT > TOTAL_SIZE - 1 THEN TOTAL_SIZE - 1
         ELSE current_item + ITEMS_COUNT

(* Up, Down, Left, Right, and F5, which jumps to any record *)
Move(n) == /\ Idle
           /\ panel
           /\ current_item' = n
           /\ Draw(head, bin, n)
           /\ UNCHANGED <<on, card, head, info, bin, temp, todo, panel, log>>

(* F2 and ENTER: the header in RAM, info.bin, and last result.bin *)
Delete == /\ Idle
          /\ panel
          /\ head' = NewHead
          /\ log' = <<>>
          /\ todo' = DeleteFiles
          /\ UNCHANGED <<on, card, info, bin, temp, ui>>

(* unlink, and back in the panel the first page *)
Unlink == /\ on
          /\ todo # <<>> /\ Head(todo) = "unlink"
          /\ bin' = IF card THEN Erased ELSE bin
          /\ todo' = Tail(todo)
          /\ current_item' = 0
          /\ Draw(head, bin', 0)
          /\ UNCHANGED <<on, card, head, info, temp, panel, log>>

Next == \/ Boot
        \/ PowerCut
        \/ \E r \in Results : Save(r)
        \/ WriteRecord
        \/ WriteInfo
        \/ Open
        \/ Leave
        \/ Move(Up)
        \/ Move(Down)
        \/ Move(Left)
        \/ Move(Right)
        \/ \E n \in 0..TOTAL_SIZE - 1 : Move(n)
        \/ Delete
        \/ Unlink

Spec == Init /\ [][Next]_vars

-----------------------------------------------------------------------------
(* The types; in particular no more than TOTAL_SIZE records are counted and *)
(* no key selects a row that does not exist.                                *)
TypeOK == /\ on \in BOOLEAN /\ card \in BOOLEAN /\ panel \in BOOLEAN
          /\ head \in Header /\ info \in Header
          /\ bin \in [Records -> Results \cup {None}]
          /\ temp \in Results \cup {None}
          /\ todo \in Seq({"record", "info", "unlink"})
          /\ current_item \in 0..TOTAL_SIZE - 1
          /\ screen \in [Rows -> Results \cup {None}]
          /\ log \in Seq(Results)

(* Between calls, with a card, what the next boot will find is exactly what  *)
(* has been saved since the last delete, in that order, whatever was lost in *)
(* earlier power cuts and whatever a delete cut short left in result.bin     *)
(* (memory_result_write, memory_result_delete, memorymanagement_init).       *)
LogKept == Idle /\ card => Kept = log

(* The header that is on the card counts the passed tests among the records  *)
(* that are on the card, at every instant: the statistics of result_Stat are *)
(* those of the records even after a power cut.                              *)
Passed(s) == Cardinality({k \in DOMAIN s : s[k] \in Pass})
PassCounted == info.pass_count = Passed(Kept)

(* With a card, the open panel shows at each row the result of that number *)
(* and blank rows for the others, after every key and after a delete.      *)
ScreenTrue ==
    Idle /\ panel /\ card =>
        \A k \in Rows :
            screen[k] = IF Start(current_item) + k < Len(log)
                        THEN log[Start(current_item) + k + 1] ELSE None

(* The two files together are one list of results that a save extends or    *)
(* leaves alone and only a delete empties, a power cut between any two      *)
(* writes included: the log implements ResultFile.  What is saved without a *)
(* card is no request.                                                      *)
Request == IF ~card THEN None
           ELSE IF todo = DeleteFiles THEN Clear
           ELSE temp
File == INSTANCE ResultFile WITH kept <- Kept, request <- Request
ResultFileSpec == File!Spec
=============================================================================
