----------------------------- MODULE MCTurnRunner -----------------------------
(* TLC instances of TurnRunner.  A behaviour is one of two scenes: one Run *)
(* with two calls at once and a write that may fail, or three Runs one     *)
(* after the other.                                                        *)
EXTENDS TurnRunner

VARIABLE scene      \* "calls" or "turns"

Calls == INSTANCE TurnRunner WITH MaxRuns <- 1, StepLimit <- 1
Turns == INSTANCE TurnRunner WITH MaxBatch <- 1, MaxFaults <- 0, Faulty <- FALSE, Compacts <- FALSE

mcVars == <<vars, scene>>

\* The step of one scene or of the other.
Either(calls1, turns1) ==
    /\ UNCHANGED scene
    /\ \/ scene = "calls" /\ calls1
       \/ scene = "turns" /\ turns1 /\ issued' <= 1

MCInit == Init /\ scene \in {"calls", "turns"}
MCNext == Either(Calls!Next, Turns!Next)

\* TurnRunner's Fairness, for either scene.
MCFairness ==
    /\ WF_mcVars(Either(Calls!RunStep, Turns!RunStep))
    /\ \A u \in Uses : WF_mcVars(Either(Calls!CallStep(u), Turns!CallStep(u)))
    /\ WF_mcVars((streamCut \/ ctxDone) /\ Either(Calls!StreamReturns, Turns!StreamReturns))
    /\ WF_mcVars(ctxDone /\ Either(Calls!CompactReturns, Turns!CompactReturns))
    /\ \A u \in Uses :
         WF_mcVars(/\ cut[u] \/ ctxDone
                   /\ Either(Calls!AskReturns(u) \/ Calls!InvokeReturns(u),
                             Turns!AskReturns(u) \/ Turns!InvokeReturns(u)))

MCSpec == MCInit /\ [][MCNext]_mcVars /\ MCFairness
=============================================================================
