------------------------------- MODULE MCDisks -------------------------------
(* What is kept on disks: the logs of sessions, the plugin store of this   *)
(* machine and the trust it keeps in a workspace's own plugins, and the    *)
(* working tree between it and a host.  They share no state, so a          *)
(* behaviour is one of any.  Logs are checked in two scenes: one process   *)
(* with a session and its fork, and every write whole; and two processes   *)
(* on one session, whose writes fail or stop in the middle of a line.      *)
EXTENDS SessionLog, Stores, TLC

VARIABLES
    part,       \* what moves: "log", "store", "trust" or "tree"
    scene       \* the processes that write logs, and the sessions they write

Whole == INSTANCE SessionLog WITH TornWrites <- FALSE, MaxFaults <- 0
Shared == INSTANCE SessionLog WITH MaxIds <- 4

mcVars == <<part, scene, vars, storeVars, trustVars, treeVars>>

Alone == scene.procs # Procs

MCInit ==
    /\ Init /\ Store!Init /\ Workspace!Init /\ Tree!Init
    /\ \/ \E p \in Procs : scene = [procs |-> {p}, sessions |-> Sessions]
       \/ \E s \in Sessions : scene = [procs |-> Procs, sessions |-> {s}] /\ part = "log"
    /\ part = "tree" \/ (part \in {"log", "store", "trust"} /\ here.git)

\* The steps of one process, and of two.
LogAlone ==
    /\ Alone
    /\ \/ \E p \in scene.procs, s \in scene.sessions : Whole!SessionStep(p, s)
       \/ \E p \in scene.procs : Whole!Crash(p)
       \/ Whole!PowerLoss
LogShared ==
    /\ ~Alone
    /\ \/ \E p \in scene.procs, s \in scene.sessions : Shared!SessionStep(p, s)
       \/ \E p \in scene.procs : Shared!Crash(p)
       \/ Shared!PowerLoss
    /\ \A s \in Sessions \ scene.sessions : file'[s] = <<>> /\ lock'[s] = None

MCNext ==
    /\ UNCHANGED <<part, scene>>
    /\ \/ part = "log" /\ (LogAlone \/ LogShared) /\ UNCHANGED <<storeVars, trustVars, treeVars>>
       \/ part = "store" /\ Store!Next /\ UNCHANGED <<vars, trustVars, treeVars>>
       \/ part = "trust" /\ Workspace!Next /\ UNCHANGED <<vars, storeVars, treeVars>>
       \/ part = "tree" /\ Tree!Next /\ UNCHANGED <<vars, storeVars, trustVars>>
MCSpec == MCInit /\ [][MCNext]_mcVars

Symmetry == Permutations(Procs) \cup Permutations(Sessions)

\* One process never writes a second decision or a second result for a tool_use, whatever
\* crash and recovery lie between (Append, Recover).
OneResultAlone == Alone => OneResultPerUse

\* What one process loads, it has repaired on disk (Recover and its Sync).
RepairedAlone ==
    [][Alone => \A p \in Procs, s \in Sessions :
        pc[p][s] = "recovering" /\ pc'[p][s] = "open" =>
            PendingToolUsesIn(InheritedEntries(file', s) \o file'[s]) = {}]_mcVars
==============================================================================
