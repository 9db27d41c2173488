---------------------------- MODULE DeliveryPromise ----------------------------
(***************************************************************************)
(* What the send-attempt service promises for one job, without proposals,  *)
(* cards, keys, workers or leases: at most one delivery is under way; the  *)
(* platform sees at most one offer; a delivery whose result is unknown is  *)
(* never followed by another; and the job is open for a new delivery only  *)
(* while no offer has reached the platform.                                *)
(***************************************************************************)
EXTENDS Naturals

VARIABLES
    phase,  \* "open", "delivering", "rehearsed" or "uncertain"
    offers  \* offers the platform has received

vars == <<phase, offers>>

Init == phase = "open" /\ offers = 0

Start ==
    /\ phase = "open" /\ offers = 0
    /\ phase' = "delivering"
    /\ UNCHANGED offers

\* The call takes effect while it is under way, or late, after it was given up
Offer ==
    /\ phase \in {"delivering", "uncertain"}
    /\ offers = 0
    /\ offers' = 1
    /\ UNCHANGED phase

\* The delivery is known to have had no effect
Release ==
    /\ phase \in {"delivering", "rehearsed"}
    /\ offers = 0
    /\ phase' = "open"
    /\ UNCHANGED offers

\* A dry run finished, but its result is not yet recorded as confirmed
Rehearse ==
    /\ phase = "delivering" /\ offers = 0
    /\ phase' = "rehearsed"
    /\ UNCHANGED offers

Doubt ==
    /\ phase # "uncertain"
    /\ phase' = "uncertain"
    /\ UNCHANGED offers

Next == Start \/ Offer \/ Release \/ Rehearse \/ Doubt

Spec == Init /\ [][Next]_vars
=============================================================================
