----------------------------- MODULE StepEditor -----------------------------
(***************************************************************************)
(* applications/UI/ui_step.c: the panel on which the operator edits the    *)
(* steps of the loaded file.  Every key is one action: the panels share    *)
(* one thread, and no test runs while this one is open.                    *)
(***************************************************************************)
EXTENDS StepPool, Sequences

CONSTANT items_count       \* rows of a page, 13 in the code

ASSUME RowsAssumption == items_count \in Nat \ {0}

VARIABLES list,            \* cs99xx_list, step_pool, g_free_list
          panel,           \* panel_flag: "home" or "step"
          current_item,    \* step_list_box: the selected row, from 0
          start_item,      \* step_list_box: the first row of the page
          g_cur_step,      \* the node the last drawing stopped at
          shown            \* what the rows of the page show

vars == <<list, panel, current_item, start_item, g_cur_step, shown>>

(* the files read_flash_to_list accepts: numbered from 1 *)
Images == UNION {[1..n -> Payloads] : n \in 1..TOTALSTEP_NUM}
Loaded(file) ==
    LET image == [i \in DOMAIN file |-> [step |-> i, data |-> file[i]]]
    IN  read_flash_to_list(init_list, image, Cardinality(DOMAIN file))

Init == /\ \E file \in Images : list = Loaded(file)
        /\ panel = "home"
        /\ current_item = 0
        /\ start_item = 0
        /\ g_cur_step = list.head
        /\ shown = <<>>

-----------------------------------------------------------------------------
(* listbox_draw with step_item_draw: each row that has a step shows the step *)
(* g_cur_step points at and moves g_cur_step on                              *)
Draw(l, first, start) ==
    LET at   == Walk(l, start)
        rows == {r \in 1..items_count : r + first <= l.size /\ at[r - 1] # NULL}
    IN  /\ shown' = [r \in rows |-> l.un[at[r - 1]].data]
        /\ g_cur_step' = at[Cardinality(rows)]

(* the first row of the page that holds a row.  Defect: the page is not turned *)
PageOf_kept(item) == start_item
PageOf(item) == (item \div items_count) * items_count

(* what every key does last: bring row `item` of the list l on the screen *)
Refresh(l, item) ==
    LET first == PageOf(item)
    IN  /\ list' = l
        /\ current_item' = item
        /\ start_item' = first
        /\ Draw(l, first, position_step(l, first + 1))
        /\ UNCHANGED panel

(* the home thread opens the panel *)
Open == /\ panel = "home"
        /\ panel' = "step"
        /\ current_item' = 0
        /\ start_item' = 0
        /\ Draw(list, 0, list.head)
        /\ UNCHANGED list

(* F6, or the stop key, whose interrupt clears panel_flag; the home panel then *)
(* starts by pointing g_cur_step at the first step                            *)
Close == /\ panel = "step"
         /\ panel' = "home"
         /\ g_cur_step' = list.head
         /\ UNCHANGED <<list, current_item, start_item, shown>>

OnStep == panel = "step" /\ current_item < list.size

(* F1: the window edits the selected step in place *)
EditKey(p) == /\ OnStep
              /\ LET node == position_step(list, current_item + 1)
                 IN  Refresh([list EXCEPT !.un[node].data = p], current_item)

(* F2: the selection moves on even when the pool had no node left *)
NewKey == /\ panel = "step"
          /\ current_item < TOTALSTEP_NUM
          /\ IF current_item < list.size
             THEN Refresh(insert_after(list, current_item + 1), current_item + 1)
             ELSE LET longer == insert_after(list, list.size) IN Refresh(longer, longer.size)

(* F3 *)
DeleteKey == OnStep /\ Refresh(remove_step(list, current_item + 1), current_item)

(* F4.  Defect: the step changes places with the first one *)
ForwardKey_first == /\ OnStep
                    /\ current_item # 0
                    /\ Refresh(swap_step(list, current_item + 1, 1), current_item - 1)
ForwardKey == /\ OnStep
              /\ current_item # 0
              /\ Refresh(swap_step(list, current_item + 1, current_item), current_item - 1)

(* F5.  Defect: the selection stays where it is *)
BackKey_stay == /\ panel = "step"
                /\ current_item < list.size - 1
                /\ Refresh(swap_step(list, current_item + 1, current_item + 2), current_item)
BackKey == /\ panel = "step"
           /\ current_item < list.size - 1
           /\ Refresh(swap_step(list, current_item + 1, current_item + 2), current_item + 1)

(* the arrows and the knob: a row up or down, a page back or on *)
Up(item)   == IF item > 0 THEN item - 1 ELSE item
Down(item) == IF item < TOTALSTEP_NUM - 1 THEN item + 1 ELSE item
Left(item) == IF item >= items_count THEN item - items_count ELSE item
(* Defect: the last page can be left *)
Right_past(item) == item + items_count
Right(item) == IF item + items_count > TOTALSTEP_NUM - 1 THEN TOTALSTEP_NUM - 1
                                                        ELSE item + items_count

Move == /\ panel = "step"
        /\ \/ Refresh(list, Up(current_item))
           \/ Refresh(list, Down(current_item))
           \/ Refresh(list, Left(current_item))
           \/ Refresh(list, Right(current_item))

Next == \/ Open
        \/ Close
        \/ \E p \in Payloads : EditKey(p)
        \/ NewKey
        \/ DeleteKey
        \/ ForwardKey
        \/ BackKey
        \/ Move

Spec == Init /\ [][Next]_vars

-----------------------------------------------------------------------------
TypeOK == /\ list \in PoolType
          /\ panel \in {"home", "step"}
          /\ current_item \in 0..TOTALSTEP_NUM
          /\ start_item \in 0..TOTALSTEP_NUM
          /\ g_cur_step \in Links
          /\ shown \in UNION {[1..n -> Payloads] : n \in 0..items_count}

Linked == From(list, list.head)

(* The list and the free list share the pool between them: no node is lost by *)
(* a key, and none is in both, so that a new step never overwrites a step of  *)
(* the list (insert_after, remove_step).                                      *)
PoolConserved == /\ Linked \cap From(list, list.free) = {}
                 /\ Linked \cup From(list, list.free) = Nodes
                 /\ Cardinality(Linked) = list.size

(* Following next from head meets the steps numbered 1, 2, .. size and ends at *)
(* tail, and prev is the way back: the functions of memory.c find a step by    *)
(* its number and unlink it by its prev.                                       *)
Ordered ==
    LET at == Walk(list, list.head)
    IN  /\ \A k \in 0..list.size - 1 :
              /\ at[k] # NULL
              /\ list.un[at[k]].step = k + 1
              /\ list.prev[at[k]] = IF k = 0 THEN NULL ELSE at[k - 1]
        /\ list.tail = at[list.size - 1]
        /\ list.next[list.tail] = NULL

(* the list as the operator thinks of it *)
Contents == LET at == Walk(list, list.head)
            IN  [k \in 1..list.size |-> list.un[at[k - 1]].data]

(* The open panel shows the rows of the page that holds the selected row, as  *)
(* they are now, also when the last key removed the first step of the page or *)
(* left the page empty (g_cur_step, step_item_draw).                          *)
PageShown ==
    panel = "step" =>
        /\ current_item - start_item \in 0..items_count - 1
        /\ shown = SubSeq(Contents, start_item + 1,
                          IF start_item + items_count < list.size
                          THEN start_item + items_count ELSE list.size)

(* The keys that reorder the list take the selection along: the step that was  *)
(* selected before F4 or F5 is selected after it.  F2 on a step selects the    *)
(* new step behind it; F2 on an empty row makes the new step the last one and  *)
(* selects the empty row behind that (step_list_box.current_item =             *)
(* cs99xx_list.size after the insertion).  With the pool full F2 makes none.   *)
SelectionFollows ==
    [][/\ ForwardKey \/ BackKey => Contents'[current_item' + 1] = Contents[current_item + 1]
       /\ NewKey /\ list.size < TOTALSTEP_NUM =>
             IF current_item < list.size
             THEN Contents'[current_item' + 1] = Default
             ELSE current_item' = list'.size /\ Contents'[current_item'] = Default]_vars

(* Through every key the panel is the editor of a sequence: what F2, F3, F4,   *)
(* F5 and the window do to the nodes is what StepSeq says of the sequence.     *)
Seq_ == INSTANCE StepSeq WITH steps <- Contents
Sequence == Seq_!Spec
=============================================================================
