----------------------------- MODULE AroundTurns -----------------------------
(* What goes on around a session's turns: the logins an agent runtime      *)
(* needs, the clients that follow a turn to its answer, and the folds that *)
(* keep the session's memory.                                              *)

EXTENDS Naturals

CONSTANTS Owners, LoginTries, MaxLogins, LoginProcs, Folded, MaxHooks, Resumes, MaxMsgs

ASSUME LoginAssumption == LoginTries \in Nat

VARIABLES
    lcur, ldead, lspawned, lunwatched, cmu, begun, running, token, lq, bound, ids, procOf, early,
    closed, attempts, pending, lfinished, online, cancels, stack, tries, ltold, over,
    kept, attached, fold, hist, closing,
    prompt, kind, par, kid, call, pr, pq, aq, next, down

SignIn == INSTANCE RuntimeLogin WITH MaxTries <- LoginTries, MaxProcs <- LoginProcs, cur <- lcur,
    dead <- ldead, spawned <- lspawned, unwatched <- lunwatched, q <- lq, finished <- lfinished,
    told <- ltold
Memory == INSTANCE MemoryFold
Follow == INSTANCE TurnFollower

loginVars ==
    <<lcur, ldead, lspawned, lunwatched, cmu, begun, running, token, lq, bound, ids, procOf, early,
      closed, attempts, pending, lfinished, online, cancels, stack, tries, ltold, over>>
foldVars == <<kept, attached, fold, hist, closing>>
answerVars == <<prompt, kind, par, kid, call, pr, pq, aq, next, down>>

\* No attempt to sign in is told twice how it ended.
ToldAtMostOnce == \A a \in DOMAIN ltold : ltold[a] <= 1

\* A closed session has been finalized after its last close, over everything it said.
FinalizedAfterClose == Memory!FinalizedAfterClose

\* Whoever follows a turn reports that turn, as it ended.
ReportsItsTurn == Follow!ReportsItsTurn
==============================================================================
