------------------------------ MODULE MCBackends ------------------------------
(* What answers a turn, and what is made of it: a Codex app server that    *)
(* runs the session's turns itself, the logins it needs, a provider that   *)
(* streams a completion, the clients that follow a turn to its answer, and *)
(* the folds that keep the session's memory.  They share no state here, so *)
(* a behaviour is one of any.  Turns are checked with one handler at a     *)
(* time over two processes, one of which may send nonsense, and with two   *)
(* handlers at once over one; logins with a second command on one process, *)
(* and with one command over the death of a process.                       *)
EXTENDS RuntimeSession, AroundTurns

CONSTANTS Indexes, MaxAttempts, MaxEvents

VARIABLES
    part,   \* what moves: "turns", "pair", "again", "restart", "stream", "folds" or "answer"
    codec, step, sends, gone, st, acc, wire, result

Pair == INSTANCE RuntimeSession WITH Handlers <- {"h1", "h2"}, MaxProcs <- 1, MaxBad <- 0
Again == INSTANCE RuntimeLogin WITH MaxTries <- 2, MaxProcs <- 1, cur <- lcur, dead <- ldead,
    spawned <- lspawned, unwatched <- lunwatched, q <- lq, finished <- lfinished, told <- ltold
Restart == INSTANCE RuntimeLogin WITH MaxTries <- 1, MaxProcs <- 2, cur <- lcur, dead <- ldead,
    spawned <- lspawned, unwatched <- lunwatched, q <- lq, finished <- lfinished, told <- ltold
S == INSTANCE ProviderStream

streamVars == <<codec, step, sends, gone, st, acc, wire, result>>
mcVars == <<part, vars, loginVars, streamVars, foldVars, answerVars>>

MCInit ==
    /\ part \in {"turns", "pair", "again", "restart", "stream", "folds", "answer"}
    /\ S!Init /\ Memory!Init /\ Follow!Init
    /\ IF part = "pair" THEN Pair!Init ELSE Init
    /\ IF part = "again" THEN Again!Init ELSE Restart!Init
    /\ part # "stream" => codec = "openai"
    /\ part # "answer" => prompt = "text" /\ kind = "kernel"
MCNext ==
    \/ part = "turns" /\ Next /\ UNCHANGED <<part, loginVars, streamVars, foldVars, answerVars>>
    \/ part = "pair" /\ Pair!Next /\ UNCHANGED <<part, loginVars, streamVars, foldVars, answerVars>>
    \/ part = "again" /\ Again!Next /\ UNCHANGED <<part, vars, streamVars, foldVars, answerVars>>
    \/ part = "restart" /\ Restart!Next /\ UNCHANGED <<part, vars, streamVars, foldVars, answerVars>>
    \/ part = "stream" /\ S!Next /\ UNCHANGED <<part, vars, loginVars, foldVars, answerVars>>
    \/ part = "folds" /\ Memory!Next /\ UNCHANGED <<part, vars, loginVars, streamVars, answerVars>>
    \/ part = "answer" /\ Follow!Next /\ UNCHANGED <<part, vars, loginVars, streamVars, foldVars>>
MCSpec == MCInit /\ [][MCNext]_mcVars

\* What a turn makes of a completion is what the endpoint sent, in both dialects.
MessageAsSent == S!MessageAsSent
==============================================================================
