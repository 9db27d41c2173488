------------------------------ MODULE ReplyPromise ------------------------------
(***************************************************************************)
(* What the client of one message is promised, without cards, drafts,      *)
(* keys, callbacks or leases.  In each pass, from one reprocess of the     *)
(* message to the next, at most one delivery is under way and at most one  *)
(* reply arrives; a delivery in doubt is never followed by another; the    *)
(* pass is open for a delivery only while nothing has arrived; and what is *)
(* called replied has arrived, for good.                                   *)
(***************************************************************************)
EXTENDS Naturals

CONSTANT Passes

VARIABLES
    phase,      \* of each pass: "open", "delivering", "uncertain" or "replied"
    replies     \* replies the client has received, by pass

vars == <<phase, replies>>

Init ==
    /\ phase = [n \in Passes |-> "open"]
    /\ replies = [n \in Passes |-> 0]

Moves(n, from, to) ==
    /\ phase[n] \in from
    /\ phase' = [phase EXCEPT ![n] = to]
    /\ UNCHANGED replies

Start(n) == replies[n] = 0 /\ Moves(n, {"open"}, "delivering")

\* The text arrives while its delivery is under way, or late, after it was given up
Arrive(n) ==
    /\ replies[n] = 0 /\ replies' = [replies EXCEPT ![n] = 1]
    /\ phase[n] \in {"delivering", "uncertain"}
    /\ UNCHANGED phase

\* The delivery is known to have had no effect
Release(n) == replies[n] = 0 /\ Moves(n, {"delivering"}, "open")

\* Nobody knows what became of it, or it has failed too often to be tried again
Doubt(n) == Moves(n, {"open", "delivering"}, "uncertain")

\* The answer, or the thread, shows the text
Confirm(n) == replies[n] = 1 /\ Moves(n, {"delivering", "uncertain"}, "replied")

\* Most of what goes on is nothing the client could tell
Unseen == UNCHANGED vars

Next ==
    \/ Unseen
    \/ \E n \in Passes : Start(n) \/ Arrive(n) \/ Release(n) \/ Doubt(n) \/ Confirm(n)

Spec == Init /\ [][Next]_vars
=============================================================================
