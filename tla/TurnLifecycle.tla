----------------------------- MODULE TurnLifecycle -----------------------------
(***************************************************************************)
(* What a session whose turns run somewhere else promises of the turn it   *)
(* calls active: the turn really began, it is let go only when it is over  *)
(* or the session is marked unsure, it is reported completed only when it  *)
(* is over, and a turn reported completed is never taken up again.         *)
(***************************************************************************)
CONSTANTS Turns, NoTurn

VARIABLES
    status,   \* what the runtime knows of a turn: "none", "running" or "over"
    current,  \* the turn the session calls active
    told,     \* the turns the session has reported completed
    unsure    \* the session refuses new work until it is reconciled

vars == <<status, current, told, unsure>>

Init ==
    /\ status = [t \in Turns |-> "none"] /\ current = NoTurn
    /\ told = {} /\ unsure = FALSE

\* The runtime begins or ends turns on its own.
Progress ==
    /\ \E t \in Turns :
         \/ status[t] = "none" /\ status' = [status EXCEPT ![t] = "running"]
         \/ status[t] = "running" /\ status' = [status EXCEPT ![t] = "over"]
    /\ UNCHANGED <<current, told, unsure>>

\* The session takes a turn up.
Adopt(t) ==
    /\ current = NoTurn /\ status[t] # "none"  /\ t \notin told
    /\ current' = t /\ unsure' \in BOOLEAN
    /\ UNCHANGED <<status, told>>

\* It lets its turn go, reporting it completed or not.
Release ==
    /\ current # NoTurn /\ current' = NoTurn /\ unsure' \in BOOLEAN
    /\ \/ status[current] = "over" /\ told' \in {told, told \cup {current}}
       \/ unsure' /\ UNCHANGED told
    /\ UNCHANGED status

\* A reconciliation finds another turn in the place of one that is over.
Replace(t) ==
    /\ current \notin {NoTurn, t} /\ status[current] = "over" /\ status[t] # "none" /\ t \notin told
    /\ current' = t /\ unsure' \in BOOLEAN
    /\ UNCHANGED <<status, told>>

Mark == unsure' \in BOOLEAN /\ UNCHANGED <<status, current, told>>

Next == Progress \/ Release \/ Mark \/ \E t \in Turns : Adopt(t) \/ Replace(t)

Spec == Init /\ [][Next]_vars
=============================================================================
