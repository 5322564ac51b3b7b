------------------------- MODULE ContextModification -------------------------
(***************************************************************************)
(* What a context modification promises to whoever starts it: the peers    *)
(* are asked one after the other, in a fixed order; the procedure reports  *)
(* success in the step in which the last of them confirms, reports failure *)
(* when one refuses, and asks nobody after that.                           *)
(***************************************************************************)
EXTENDS Naturals, Sequences

CONSTANTS
    Exchanges           \* the peers in the order they are asked

VARIABLES
    confirmed,          \* how many exchanges were confirmed
    outcome             \* "pending", "ok" or "failed"

vars == <<confirmed, outcome>>

Init ==
    /\ confirmed = 0
    /\ outcome = "pending"

Confirm ==
    /\ outcome = "pending"
    /\ confirmed < Len(Exchanges)
    /\ confirmed' = confirmed + 1
    /\ outcome' = IF confirmed' = Len(Exchanges) THEN "ok" ELSE "pending"

Refuse ==
    /\ outcome = "pending"
    /\ outcome' = "failed"
    /\ UNCHANGED confirmed

Next == Confirm \/ Refuse

Spec == Init /\ [][Next]_vars
=============================================================================
