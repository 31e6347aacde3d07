------------------------------ MODULE StepSeq ------------------------------
(***************************************************************************)
(* What the step list of a test file promises the operator: a sequence of  *)
(* at least one step, which can be edited, extended after any of its       *)
(* steps, shortened, and reordered by exchanging neighbours.               *)
(***************************************************************************)
EXTENDS Naturals, SequencesExt

CONSTANTS TOTALSTEP_NUM,   \* the longest list
          Payloads,        \* what the operator can enter for a step
          Default          \* the step a new row starts with

VARIABLE steps

Init == steps \in UNION {[1..n -> Payloads] : n \in 1..TOTALSTEP_NUM}

(* a new step after step k *)
New(k)    == /\ Len(steps) < TOTALSTEP_NUM
             /\ steps' = InsertAt(steps, k + 1, Default)

(* the last step of a list cannot be removed *)
Delete(k) == /\ Len(steps) > 1
             /\ steps' = RemoveAt(steps, k)

(* step k changes places with its successor *)
Exchange(k) == /\ k < Len(steps)
               /\ steps' = [steps EXCEPT ![k] = steps[k + 1], ![k + 1] = steps[k]]

Edit(k, p) == steps' = [steps EXCEPT ![k] = p]

Next == \E k \in DOMAIN steps : \/ New(k)
                                \/ Delete(k)
                                \/ Exchange(k)
                                \/ \E p \in Payloads : Edit(k, p)

Spec == Init /\ [][Next]_steps
=============================================================================
