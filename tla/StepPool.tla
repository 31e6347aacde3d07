------------------------------ MODULE StepPool ------------------------------
(***************************************************************************)
(* BSP/drivers/memory.c: the steps of the loaded file, as a doubly linked  *)
(* list whose nodes come from a static pool.  cs99xx_list, step_pool and   *)
(* g_free_list are one record; each function of the file is an operator    *)
(* from the record before the call to the record after it.                 *)
(***************************************************************************)
EXTENDS Integers, FiniteSets

CONSTANTS TOTALSTEP_NUM,   \* nodes in step_pool
          Payloads,        \* a step but for its number: mode, limits, times
          Default          \* what init_acw_step fills in

ASSUME PoolAssumption == TOTALSTEP_NUM \in Nat \ {0} /\ Default \in Payloads

Nodes == 1..TOTALSTEP_NUM
NULL  == 0
Links == Nodes \cup {NULL}

(* com.step and the rest of an UN_STR; 0 is the number memset leaves *)
UN_STR == [step : 0..TOTALSTEP_NUM, data : Payloads]

PoolType == [un : [Nodes -> UN_STR], next : [Nodes -> Links], prev : [Nodes -> Links],
             head : Links, tail : Links, size : 0..TOTALSTEP_NUM, free : Links]

-----------------------------------------------------------------------------
(* for(node = start; node; node = node->next): the node after k rounds *)
Walk(l, start) ==
    LET at[k \in 0..TOTALSTEP_NUM] ==
          IF k = 0 THEN start
          ELSE IF at[k - 1] = NULL THEN NULL ELSE l.next[at[k - 1]]
    IN  at

(* the nodes a loop from start visits *)
From(l, start) == {Walk(l, start)[k] : k \in 0..TOTALSTEP_NUM - 1} \ {NULL}

(* position_step: the first node that bears the number, NULL if none does *)
position_step(l, pos) ==
    LET at   == Walk(l, l.head)
        hits == {k \in 0..TOTALSTEP_NUM - 1 : at[k] # NULL /\ l.un[at[k]].step = pos}
    IN  IF hits = {} THEN NULL
        ELSE at[CHOOSE k \in hits : \A h \in hits : k <= h]

(* l.next or l.prev with the link of node n replaced, where n may be NULL. *)
(* Defect: the neighbour keeps its link to the node.                       *)
Relink_kept(link, n, to) == link
Relink(link, n, to) == IF n = NULL THEN link ELSE [link EXCEPT ![n] = to]

(* step_pool cleared and chained, then add_node takes its first node; what a *)
(* node holds matters only once it is taken                                  *)
init_list ==
    [un   |-> [n \in Nodes |-> [step |-> IF n = 1 THEN 1 ELSE 0, data |-> Default]],
     next |-> [n \in Nodes |-> IF n \in {1, TOTALSTEP_NUM} THEN NULL ELSE n + 1],
     prev |-> [n \in Nodes |-> NULL],
     head |-> 1, tail |-> 1, size |-> 1,
     free |-> IF TOTALSTEP_NUM = 1 THEN NULL ELSE 2]

(* the number of every node from `first` on is raised by one or by minus one *)
Renumber(l, first, by) ==
    [n \in Nodes |-> IF n \in From(l, first) THEN [l.un[n] EXCEPT !.step = @ + by] ELSE l.un[n]]

insert_after(l, step) ==
    IF step > l.size \/ l.free = NULL THEN l
    ELSE LET cur  == l.free
             node == position_step(l, step)
             succ == l.next[node]
         IN  [l EXCEPT
                !.un   = [Renumber(l, succ, 1)
                            EXCEPT ![cur] = [step |-> step + 1, data |-> Default]],
                !.next = [l.next EXCEPT ![cur] = succ, ![node] = cur],
                !.prev = Relink([l.prev EXCEPT ![cur] = node], succ, cur),
                !.tail = IF succ = NULL THEN cur ELSE @,
                !.size = @ + 1,
                !.free = l.next[cur]]

(* the node goes to the head of the free list; the memset before it runs *)
(* through a pointer that is NULL by then, and the old step stays in it. *)
(* Defect: the node is not given back.                                   *)
Release_not(l, node) == l
Release(l, node) == [l EXCEPT !.next[node] = l.free, !.free = node]

(* the only step of a list cannot be removed *)
remove_step(l, step) ==
    LET node == position_step(l, step)
    IN  IF l.size = 1 \/ node = NULL THEN l
        ELSE LET before == l.prev[node]
                 after  == l.next[node]
                 rest   == [l EXCEPT
                              !.un   = Renumber(l, after, -1),
                              !.next = Relink(l.next, before, after),
                              !.prev = Relink(l.prev, after, before),
                              !.head = IF before = NULL THEN after ELSE @,
                              !.tail = IF after = NULL THEN before ELSE @,
                              !.size = @ - 1]
             IN  Release(rest, node)

(* the two nodes stay where they are: they exchange all but their numbers *)
swap_step(l, one, two) ==
    IF one > l.size \/ two > l.size THEN l
    ELSE LET node1 == position_step(l, one)
             node2 == position_step(l, two)
         IN  [l EXCEPT !.un = [@ EXCEPT ![node1] = [l.un[node2] EXCEPT !.step = one],
                                        ![node2] = [l.un[node1] EXCEPT !.step = two]]]

(* read_flash_to_list: insert_after(1), insert_after(2), ... until the list *)
(* has the length of the image, then each node takes its image              *)
read_flash_to_list(l, image, totalstep) ==
    IF totalstep > TOTALSTEP_NUM THEN l
    ELSE LET grow[i \in 0..TOTALSTEP_NUM] == IF i = 0 THEN l ELSE insert_after(grow[i - 1], i)
             grown == grow[IF totalstep = 0 THEN 0 ELSE totalstep - 1]
             at    == Walk(grown, grown.head)
         IN  [grown EXCEPT
                !.un = [n \in Nodes |-> IF \E i \in 1..totalstep : at[i - 1] = n
                                        THEN image[CHOOSE i \in 1..totalstep : at[i - 1] = n]
                                        ELSE grown.un[n]]]
=============================================================================
