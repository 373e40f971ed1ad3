------------------------------- MODULE Screens -------------------------------
(* What a terminal client has on screen of the sessions of its server.     *)

EXTENDS Integers, FiniteSets

CONSTANTS Sessions, MaxLog, MaxNotes, MaxTyped, MaxSwitch

ASSUME FeedAssumption ==
    /\ Sessions = 1..Cardinality(Sessions) /\ 1 \in Sessions
    /\ MaxLog \in [Sessions -> Nat] /\ MaxNotes \in Nat /\ MaxTyped \in Nat /\ MaxSwitch \in Nat

VARIABLES log, run, stands, subs, deliver, reqs, notes, answers, ui, sw, typed, switches, known, raced

Feed == INSTANCE ClientFeed WITH standing <- stands

feedVars ==
    <<log, run, stands, subs, deliver, reqs, notes, answers, ui, sw, typed, switches, known, raced>>

\* The client's picture of a session that was at rest while it was attached has no gap,
\* and is whole when everything sent has arrived.
ScreenIsFaithful == Feed!ScreenIsFaithful

\* A message is submitted to the session it was typed in.
TypedGoesHome == Feed!TypedGoesHome
=============================================================================
