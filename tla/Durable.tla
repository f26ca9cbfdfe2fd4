------------------------------ MODULE Durable -------------------------------
(***************************************************************************)
(* What the table live_matches promises about one match, whatever order    *)
(* its writes arrive in: the row is always a state the match has really    *)
(* been in, it never goes back to an older one, and once it has been       *)
(* deleted, which only the end of the match does, it is gone for good.  A  *)
(* restart goes back to the row.                                           *)
(***************************************************************************)
EXTENDS Naturals

VARIABLES
    state,   \* how far the match has got, in memory; 0 when there is none
    over,    \* the match is over
    row,     \* how far the match had got in the row; 0 when there is none
    deleted  \* the row has been deleted

vars == <<state, over, row, deleted>>

Playing == ~over /\ state > 0

Init == state = 1 /\ ~over /\ row = 0 /\ ~deleted

Play == Playing /\ state' = state + 1 /\ UNCHANGED <<over, row, deleted>>

Keep ==
    /\ ~deleted
    /\ row' \in (row + 1) .. state
    /\ UNCHANGED <<state, over, deleted>>

End == Playing /\ over' /\ UNCHANGED <<state, row, deleted>>

Delete == over /\ row' = 0 /\ deleted' /\ UNCHANGED <<state, over>>

Restart == state' = row /\ over' = deleted /\ UNCHANGED <<row, deleted>>

Next == Play \/ Keep \/ End \/ Delete \/ Restart

Spec == Init /\ [][Next]_vars
=============================================================================
