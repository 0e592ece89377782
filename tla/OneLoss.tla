------------------------------ MODULE OneLoss ------------------------------
(***************************************************************************)
(* What the lost-result schedule promises, with the subject, the payloads  *)
(* and the observations left out: one fault, fired during the first        *)
(* attempt only; a second attempt only after the fault; never a third; and *)
(* an outcome that says which of these happened.  LostResult implements    *)
(* this specification.                                                     *)
(***************************************************************************)
EXTENDS Naturals

VARIABLES
    fault,    \* "armed" until the first result is lost, then "fired"
    attempt,  \* 1 until the retry, then 2
    outcome   \* "running", then one of Outcomes

vars == <<fault, attempt, outcome>>

Outcomes == {"completed", "boundary_not_reached", "fault_not_propagated",
             "raised", "interrupted"}

TypeOK == /\ fault \in {"armed", "fired"}
          /\ attempt \in 1..2
          /\ outcome \in Outcomes \cup {"running"}

Init == /\ fault = "armed"
        /\ attempt = 1
        /\ outcome = "running"

Lose == /\ outcome = "running"
        /\ attempt = 1
        /\ fault = "armed"
        /\ fault' = "fired"
        /\ UNCHANGED <<attempt, outcome>>

Retry == /\ outcome = "running"
         /\ attempt = 1
         /\ fault = "fired"
         /\ attempt' = 2
         /\ UNCHANGED <<fault, outcome>>

Finish(o) == /\ outcome = "running"
             /\ o = "completed" => attempt = 2
             /\ o = "boundary_not_reached" => attempt = 1 /\ fault = "armed"
             /\ o = "fault_not_propagated" => attempt = 1 /\ fault = "fired"
             /\ outcome' = o
             /\ UNCHANGED <<fault, attempt>>

Next == Lose \/ Retry \/ \E o \in Outcomes : Finish(o)

Spec == Init /\ [][Next]_vars
=============================================================================
