------------------------------ MODULE MCRequests ------------------------------
(* What clients that come and go must not leave behind: a question the     *)
(* Codex app server asked of them, and a session nobody is attached to.    *)
(* The two share no state here, so a behaviour is one of either.           *)
EXTENDS RuntimeApproval

CONSTANTS Conns, ResumeAttempts, MaxLoads, MaxRuns, MaxOps

VARIABLES
    part,   \* what moves: "question" or "session"
    live, loading, closing, flock, made, ls, conn, run, rs, how, ops, down, closer, cut, refused

L == INSTANCE LiveSession WITH Uses <- {"resume", "submit", "compact"}, None <- Nobody

sessionVars ==
    <<live, loading, closing, flock, made, ls, conn, run, rs, how, ops, down, closer, cut, refused>>
mcVars == <<part, vars, sessionVars>>

\* The child uses the request id "x" in both turns.
TwoTurns == {[turn |-> 1, id |-> "x"], [turn |-> 2, id |-> "x"]}

\* A step of a question, and a step of a session.
Asks(step) == part = "question" /\ step /\ UNCHANGED <<part, sessionVars>>
Lives(step) == part = "session" /\ step /\ UNCHANGED <<part, vars>>

MCInit == Init /\ L!Init /\ part \in {"question", "session"}
MCNext == Asks(Next) \/ Lives(L!Next)

\* The fairness of RuntimeApproval and of LiveSession.
MCFairness ==
    /\ \A r \in Questions : WF_mcVars(Asks(Waiter(r)))
    /\ WF_mcVars(Asks(Dispatch)) /\ WF_mcVars(Asks(Settle)) /\ WF_mcVars(Asks(Abandon))
    /\ \A c \in Conns : WF_mcVars(Lives(L!Serve(c)))
    /\ \A r \in 1..MaxRuns : WF_mcVars(Lives(L!RunTurn(r)))
    /\ WF_mcVars(Lives(L!ShutdownStep))

MCSpec == MCInit /\ [][MCNext]_mcVars /\ MCFairness

\* A session whose last client has left closes: none stays live for ever with
\* nobody attached and no Run going on.
NotLeftLive == L!NotLeftLive
==============================================================================
