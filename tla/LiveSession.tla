------------------------------ MODULE LiveSession ------------------------------
(***************************************************************************)
(* The life of one session inside the server (internal/server): it is      *)
(* loaded from disk, attached to, driven by turns and other handlers,      *)
(* closed when nobody uses it, loaded again, and closed by Shutdown.       *)
(*                                                                         *)
(* Every load makes a new liveSession, here an instance number; a handler  *)
(* keeps the pointer it looked up.  A connection serves one request at a   *)
(* time.  A turn.Runner is named by the first of its Runs; what happens    *)
(* inside a Run is module TurnRunner's.  One action is one section under   *)
(* Server.mu or ls.obsMu, or the taking or giving up of ls.mu.             *)
(***************************************************************************)
EXTENDS Integers, FiniteSets

CONSTANTS
    Conns,           \* client connections
    Uses,            \* the requests clients make
    ResumeAttempts,  \* resumeAttempts, 3 in the code
    MaxLoads,        \* bound: instances
    MaxRuns,         \* bound: goroutines running Run
    MaxOps,          \* bound: requests
    None

Requests == {"resume", "submit", "steer", "stop", "cancel", "set", "compact", "shell", "fork",
             "shutdown"}

ASSUME LiveSessionAssumption ==
    /\ Uses \subseteq Requests
    /\ ResumeAttempts \in Nat \ {0} /\ MaxLoads \in Nat /\ MaxRuns \in Nat /\ MaxOps \in Nat
    /\ IsFiniteSet(Conns) /\ None \notin Conns

Instances == 1..MaxLoads
Runs == 1..MaxRuns

VARIABLES
    live,      \* s.live[sid]: an instance, or 0
    loading,   \* s.loading[sid]: the connection whose load is in flight
    closing,   \* s.closing[sid]: the instance whose close is in flight, or 0
    flock,     \* the instance whose log holds the store's lock, or 0
    made,      \* instances made so far
    ls,        \* ls[g]: the liveSession
    conn,      \* conn[c]: the request c serves, [op, at, ls, r, tries]
    run,       \* run[r]: the goroutine of runTurn, [at, ls, r]
    rs,        \* rs[r]: the runner's own state
    how,       \* how[r]: the interrupt the runner has not observed yet
    ops,       \* requests so far
    down,      \* "up", then the steps of Shutdown
    closer,    \* the instance Shutdown closes, or 0
    cut,       \* history: Shutdown gave up waiting
    refused    \* history: a load found the log locked

registry == <<live, loading, closing, flock, made>>
turns == <<run, rs, how>>
ending == <<down, closer, cut>>
vars == <<registry, ls, conn, turns, ops, ending, refused>>

\* Idle, Completed and Failed are "idle"; Streaming, AwaitingPermission and
\* RunningTool are "busy".
isActive(s) == s \in {"busy", "steering"}

Fresh == [closed |-> FALSE, mu |-> None, state |-> "idle", runner |-> 0, subs |-> {}, closes |-> 0]
AtRest == [op |-> "none", at |-> "idle", ls |-> 0, r |-> 0, tries |-> 0]

Step(c, p) == conn' = [conn EXCEPT ![c].at = p]
Answer(c) == conn' = [conn EXCEPT ![c] = AtRest]

-----------------------------------------------------------------------------
(* Closing.                                                                *)

\* closeIfUnusedLocked and claimCloseIfIdle: ls.mu is tried, not taken.
Claimable(l) == l.subs = {} /\ l.mu = None /\ ~l.closed /\ ~isActive(l.state)

\* Mutant: the close is not registered, so a load does not wait for it.
Claimed_Unregistered(g, l) ==
    /\ ls' = [ls EXCEPT ![g] = [l EXCEPT !.closed = TRUE]]
    /\ live' = 0 /\ UNCHANGED <<closing, loading, flock, made>>

\* The winner takes the session out of the live map and registers its close.
Claimed(g, l) ==
    /\ ls' = [ls EXCEPT ![g] = [l EXCEPT !.closed = TRUE]]
    /\ live' = 0 /\ closing' = g /\ UNCHANGED <<loading, flock, made>>

\* closeClaimed: the session_closed hook, then sess.Close releases the lock.
LogClosed(g) ==
    /\ ls' = [ls EXCEPT ![g].closes = @ + 1]
    /\ flock' = IF flock = g THEN 0 ELSE flock

\* A handler or a runTurn on its last step: close the session if it is unused.
Check(c) ==
    LET g == conn[c].ls
    IN  /\ conn[c].at = "check"
        /\ IF Claimable(ls[g]) THEN Claimed(g, ls[g]) /\ Step(c, "closing")
                               ELSE UNCHANGED <<registry, ls>> /\ Answer(c)
        /\ UNCHANGED <<turns, ops, ending, refused>>

CloseLog(c) ==
    /\ conn[c].at = "closing" /\ LogClosed(conn[c].ls) /\ Step(c, "closed")
    /\ UNCHANGED <<live, loading, closing, made, turns, ops, ending, refused>>

CloseDone(c) ==
    /\ conn[c].at = "closed" /\ closing' = 0 /\ Answer(c)
    /\ UNCHANGED <<live, loading, flock, made, ls, turns, ops, ending, refused>>

-----------------------------------------------------------------------------
(* session.resume, session.fork, and leaving.                              *)

\* dispatch refuses every request once shutdown has been asked for.
Request(c, o) ==
    /\ conn[c].at = "idle" /\ down = "up" /\ o \in Uses /\ ops < MaxOps /\ ops' = ops + 1

\* resume and fork load the session first.
Resume(c, o) ==
    /\ o \in {"resume", "fork"} /\ Request(c, o)
    /\ o = "resume" => \A g \in Instances : c \notin ls[g].subs
    /\ conn' = [conn EXCEPT ![c] = [AtRest EXCEPT !.op = o, !.at = "load"]]
    /\ UNCHANGED <<registry, ls, turns, ending, refused>>

Loaded(c, g) == conn' = [conn EXCEPT ![c].ls = g,
                                     ![c].at = IF conn[c].op = "fork" THEN "fork" ELSE "attach"]

\* loadCold: what is live is taken; a load or a close in flight is waited for.
Load(c) ==
    /\ conn[c].at = "load"
    /\ IF live # 0
       THEN Loaded(c, live) /\ UNCHANGED loading
       ELSE /\ loading = None /\ closing = 0 /\ made < MaxLoads
            /\ loading' = c /\ Step(c, "read")
    /\ UNCHANGED <<live, closing, flock, made, ls, turns, ops, ending, refused>>

\* coldLoadOne: session.Load takes the store's lock or fails.
Read(c) ==
    /\ conn[c].at = "read"
    /\ IF flock = 0
       THEN /\ made' = made + 1 /\ flock' = made'
            /\ conn' = [conn EXCEPT ![c].ls = made', ![c].at = "install"]
            /\ UNCHANGED <<loading, refused>>
       ELSE /\ loading' = None /\ refused' = TRUE
            /\ Answer(c) /\ UNCHANGED <<made, flock>>
    /\ UNCHANGED <<live, closing, ls, turns, ops, ending>>

Install(c) ==
    /\ conn[c].at = "install" /\ live' = conn[c].ls /\ Step(c, "unload")
    /\ UNCHANGED <<loading, closing, flock, made, ls, turns, ops, ending, refused>>

Unload(c) ==
    /\ conn[c].at = "unload" /\ loading' = None /\ Loaded(c, conn[c].ls)
    /\ UNCHANGED <<live, closing, flock, made, ls, turns, ops, ending, refused>>

\* attachIfLive: lookup and subscription in one section; a session that went
\* away meanwhile is loaded again, a few times.
Attach(c) ==
    /\ conn[c].at = "attach"
    /\ IF live # 0
       THEN ls' = [ls EXCEPT ![live].subs = @ \cup {c}] /\ Answer(c)
       ELSE /\ UNCHANGED ls
            /\ IF conn[c].tries + 1 < ResumeAttempts
               THEN conn' = [conn EXCEPT ![c].tries = @ + 1, ![c].at = "load"]
               ELSE Answer(c)
    /\ UNCHANGED <<registry, turns, ops, ending, refused>>

\* forkAt: the child is made under the parent's ls.mu; the parent stays live.
Fork(c) ==
    /\ conn[c].at = "fork" /\ ls[conn[c].ls].mu = None /\ Answer(c)
    /\ UNCHANGED <<registry, ls, turns, ops, ending, refused>>

\* detach, by session.close or because the connection ended: the last one to
\* leave closes the session, or cancels the turn it leaves parked.
Detach(c) ==
    \E g \in Instances :
        LET l == [ls[g] EXCEPT !.subs = @ \ {c}]
        IN  /\ conn[c].at = "idle" /\ c \in ls[g].subs
            /\ IF Claimable(l)
               THEN Claimed(g, l)
               ELSE ls' = [ls EXCEPT ![g] = l] /\ UNCHANGED registry
            /\ conn' = [conn EXCEPT ![c] =
                   IF Claimable(l) THEN [AtRest EXCEPT !.op = "detach", !.at = "closing", !.ls = g]
                   ELSE IF l.subs = {} /\ l.state = "steering"
                        THEN [AtRest EXCEPT !.op = "detach", !.at = "stop", !.ls = g]
                        ELSE AtRest]
            /\ UNCHANGED <<turns, ops, ending, refused>>

-----------------------------------------------------------------------------
(* Handlers that look the session up.                                      *)

NoRun == [at |-> "none", ls |-> 0, r |-> 0]

\* Within the bound, a submit that is under way can still start its Run.
RunsLeft ==
    Cardinality({d \in Conns : conn[d].at \in {"submit", "steer", "start"}})
        < Cardinality({r \in Runs : run[r] = NoRun})

Lookup(c, o) ==
    /\ o \notin {"resume", "fork", "shutdown"} /\ Request(c, o) /\ live # 0
    /\ o \in {"submit", "steer"} => RunsLeft
    /\ conn' = [conn EXCEPT ![c] = [AtRest EXCEPT !.op = o, !.at = o, !.ls = live]]
    /\ UNCHANGED <<registry, ls, turns, ending, refused>>

\* c takes ls.mu when it may go on, or answers; taking it needs it free.
TakeMu(c, ok, next) ==
    LET g == conn[c].ls
    IN  /\ ls[g].mu = None
        /\ IF ok THEN ls' = [ls EXCEPT ![g].mu = c] /\ Step(c, next)
                 ELSE UNCHANGED ls /\ Answer(c)
        /\ UNCHANGED <<registry, turns, ops, ending, refused>>

\* set_model, set_mode, set_thinking, set_title.
Set(c) ==
    LET l == ls[conn[c].ls]
    IN  conn[c].at = "set" /\ TakeMu(c, ~l.closed /\ ~isActive(l.state), "append")

\* appendAndBroadcastLocked, and ls.mu is given up.
Append(c) ==
    /\ conn[c].at = "append"
    /\ ls' = [ls EXCEPT ![conn[c].ls].mu = None] /\ Answer(c)
    /\ UNCHANGED <<registry, turns, ops, ending, refused>>

\* compactHoldingSession keeps ls.mu for the whole summary request.
Compact(c) ==
    LET l == ls[conn[c].ls]
        ok == ~l.closed /\ ~(l.runner # 0 /\ isActive(l.state))
    IN  /\ conn[c].at = "compact" /\ l.mu = None
        /\ IF ok THEN ls' = [ls EXCEPT ![conn[c].ls].mu = c] /\ Step(c, "summary")
                 ELSE UNCHANGED ls /\ Step(c, "check")
        /\ UNCHANGED <<registry, turns, ops, ending, refused>>

Compacted(c) ==
    /\ conn[c].at = "summary"
    /\ ls' = [ls EXCEPT ![conn[c].ls].mu = None] /\ Step(c, "check")
    /\ UNCHANGED <<registry, turns, ops, ending, refused>>

\* handleShell looks at the turn, lets go of ls.mu for the command, and then
\* looks only at closed before it appends.
Shell(c) ==
    LET l == ls[conn[c].ls]
    IN  /\ conn[c].at = "shell" /\ l.mu = None
        /\ IF ~l.closed /\ ~(l.runner # 0 /\ isActive(l.state)) THEN Step(c, "command") ELSE Answer(c)
        /\ UNCHANGED <<registry, ls, turns, ops, ending, refused>>

ShellAppend(c) ==
    /\ conn[c].at = "command" /\ TakeMu(c, ~ls[conn[c].ls].closed, "append")

\* handleInterrupt, and detach of a parked turn: the runner is read under ls.mu
\* and called with no lock held.
Interrupt(c) ==
    LET l == ls[conn[c].ls]
    IN  /\ conn[c].at \in {"stop", "cancel"} /\ l.mu = None
        /\ IF l.runner = 0 THEN Answer(c)
           ELSE conn' = [conn EXCEPT ![c].r = l.runner, ![c].at = "cut"]
        /\ UNCHANGED <<registry, ls, turns, ops, ending, refused>>

\* Runner.Interrupt: a cancel ends a parked turn and its state change reaches
\* the mirror; an interrupt of a running one is left for the Run to observe.
RunnerInterrupt(c) ==
    LET r == conn[c].r
        cancel == conn[c].op \in {"cancel", "detach"}
    IN  /\ conn[c].at = "cut"
        /\ IF rs[r] = "steering" /\ cancel
           THEN rs' = [rs EXCEPT ![r] = "idle"] /\ ls' = [ls EXCEPT ![run[r].ls].state = "idle"]
           ELSE UNCHANGED <<rs, ls>>
        /\ how' = IF rs[r] = "busy" /\ how[r] # "cancel"
                  THEN [how EXCEPT ![r] = IF cancel THEN "cancel" ELSE "steer"] ELSE how
        /\ IF conn[c].op = "detach" THEN Step(c, "check") ELSE Answer(c)
        /\ UNCHANGED <<registry, run, ops, ending, refused>>

-----------------------------------------------------------------------------
(* Turns.                                                                  *)

NextRun == CHOOSE r \in Runs : run[r] = NoRun

\* startTurn, the checks: typed needs no active turn, steer a parked one.
Submit(c) ==
    LET l == ls[conn[c].ls]
        ok == IF conn[c].op = "steer" THEN l.runner # 0 /\ l.state = "steering"
                                      ELSE ~(l.runner # 0 /\ isActive(l.state))
    IN  conn[c].at \in {"submit", "steer"} /\ TakeMu(c, ~l.closed /\ ok, "start")

\* Mutant: the mirror is left for the runner's first callback.
Start_NoMark(c) ==
    LET g == conn[c].ls
        r == IF conn[c].op = "steer" THEN ls[g].runner ELSE NextRun
    IN  /\ conn[c].at = "start"
        /\ ls' = [ls EXCEPT ![g].runner = r, ![g].mu = None]
        /\ run' = [run EXCEPT ![NextRun] = [at |-> "made", ls |-> g, r |-> r]]
        /\ conn' = [conn EXCEPT ![c].at = "spawn", ![c].r = NextRun]
        /\ UNCHANGED <<registry, rs, how, ops, ending, refused>>

\* A new runner, or the parked one; markStarting before ls.mu is given up.
Start(c) ==
    LET g == conn[c].ls
        r == IF conn[c].op = "steer" THEN ls[g].runner ELSE NextRun
    IN  /\ conn[c].at = "start"
        /\ ls' = [ls EXCEPT ![g].runner = r, ![g].state = "busy", ![g].mu = None]
        /\ run' = [run EXCEPT ![NextRun] = [at |-> "made", ls |-> g, r |-> r]]
        /\ conn' = [conn EXCEPT ![c].at = "spawn", ![c].r = NextRun]
        /\ UNCHANGED <<registry, rs, how, ops, ending, refused>>

\* spawnTurn: refused once shutdown has been asked for.
Spawn(c) ==
    LET r == conn[c].r
    IN  /\ conn[c].at = "spawn"
        /\ IF down = "up"
           THEN /\ run' = [run EXCEPT ![r].at = "run"]
                /\ IF run[r].r = r THEN Step(c, "await") ELSE Answer(c)
           ELSE /\ run' = [run EXCEPT ![r].at = "done"]
                /\ IF run[r].r = r THEN Step(c, "undo") ELSE Answer(c)
        /\ UNCHANGED <<registry, ls, rs, how, ops, ending, refused>>

Undo(c) ==
    LET g == conn[c].ls
    IN  /\ conn[c].at = "undo" /\ ls[g].mu = None /\ Answer(c)
        /\ ls' = [ls EXCEPT ![g].runner = IF @ = conn[c].r THEN 0 ELSE @]
        /\ UNCHANGED <<registry, turns, ops, ending, refused>>

\* firstAppendSignal: the turn's id is known, or the turn or the server ended.
Await(c) ==
    /\ conn[c].at = "await" /\ (run[conn[c].r].at # "run" \/ down \notin {"up", "asked", "taken"})
    /\ Answer(c)
    /\ UNCHANGED <<registry, ls, turns, ops, ending, refused>>

\* Run claims its runner: a fresh one, or a parked one for a steer message; a
\* steer message on any other is refused with no state change.
RunBegins(r) ==
    LET t == run[r].r
    IN  /\ run[r].at = "run"
        /\ IF t = r \/ rs[t] = "steering"
           THEN /\ rs' = [rs EXCEPT ![t] = "busy"] /\ how' = [how EXCEPT ![t] = "none"]
                /\ ls' = [ls EXCEPT ![run[r].ls].state = "busy"]
                /\ run' = [run EXCEPT ![r].at = "loop"]
           ELSE /\ run' = [run EXCEPT ![r].at = "returned"] /\ UNCHANGED <<rs, how, ls>>
        /\ UNCHANGED <<registry, conn, ops, ending, refused>>

\* The Run comes to rest; an observed steer parks the turn.
RunEnds(r) ==
    LET t == run[r].r
    IN  /\ run[r].at = "loop"
        /\ \E s \in IF how[t] = "steer" THEN {"idle", "steering"} ELSE {"idle"} :
               rs' = [rs EXCEPT ![t] = s] /\ ls' = [ls EXCEPT ![run[r].ls].state = s]
        /\ run' = [run EXCEPT ![r].at = "returned"]
        /\ UNCHANGED <<registry, conn, how, ops, ending, refused>>

\* runTurn reads the runner's state with no lock held,
Final(r) ==
    /\ run[r].at = "returned"
    /\ run' = [run EXCEPT ![r].at = IF rs[run[r].r] = "steering" THEN "keep" ELSE "drop"]
    /\ UNCHANGED <<registry, ls, conn, rs, how, ops, ending, refused>>

\* then lets go of the runner unless it is parked,
Drop(r) ==
    LET g == run[r].ls
    IN  /\ run[r].at \in {"keep", "drop"} /\ ls[g].mu = None
        /\ ls' = IF run[r].at = "drop" /\ ls[g].runner = run[r].r
                 THEN [ls EXCEPT ![g].runner = 0] ELSE ls
        /\ run' = [run EXCEPT ![r].at = "check"]
        /\ UNCHANGED <<registry, conn, rs, how, ops, ending, refused>>

\* Mutant: the turn does not close the session its last client left.
RunCheck_Skipped(r) ==
    /\ run[r].at = "check" /\ run' = [run EXCEPT ![r].at = "done"]
    /\ UNCHANGED <<registry, ls, conn, rs, how, ops, ending, refused>>

\* and closes the session if its last client left meanwhile.
RunCheck(r) ==
    /\ run[r].at = "check"
    /\ IF Claimable(ls[run[r].ls])
       THEN Claimed(run[r].ls, ls[run[r].ls]) /\ run' = [run EXCEPT ![r].at = "closing"]
       ELSE UNCHANGED <<registry, ls>> /\ run' = [run EXCEPT ![r].at = "done"]
    /\ UNCHANGED <<conn, rs, how, ops, ending, refused>>

RunCloseLog(r) ==
    /\ run[r].at = "closing" /\ LogClosed(run[r].ls) /\ run' = [run EXCEPT ![r].at = "closed"]
    /\ UNCHANGED <<live, loading, closing, made, conn, rs, how, ops, ending, refused>>

RunCloseDone(r) ==
    /\ run[r].at = "closed" /\ closing' = 0 /\ run' = [run EXCEPT ![r].at = "done"]
    /\ UNCHANGED <<live, loading, flock, made, ls, conn, rs, how, ops, ending, refused>>

-----------------------------------------------------------------------------
(* Server.Shutdown.                                                        *)

Shutdown ==
    /\ "shutdown" \in Uses /\ down = "up" /\ down' = "asked"
    /\ UNCHANGED <<registry, ls, conn, turns, ops, closer, cut, refused>>

\* The live sessions are taken out of the map,
TakeLive ==
    /\ down = "asked" /\ down' = "taken" /\ closer' = live /\ live' = 0
    /\ UNCHANGED <<loading, closing, flock, made, ls, conn, turns, ops, cut, refused>>

\* every turn's context ends,
CancelTurns ==
    /\ down = "taken" /\ down' = "cancelled"
    /\ UNCHANGED <<registry, ls, conn, turns, ops, closer, cut, refused>>

Quiet ==
    /\ \A r \in Runs : run[r].at \in {"none", "done"}
    /\ \A c \in Conns : conn[c].at = "idle" /\ \A g \in Instances : c \notin ls[g].subs

\* the turns and the serve loops are waited for, within a budget,
Waited ==
    /\ down = "cancelled" /\ down' = "close"
    /\ cut' = ~Quiet
    /\ UNCHANGED <<registry, ls, conn, turns, ops, closer, refused>>

\* Mutant: Shutdown closes what it took without claiming it.
CloseIfOpen_NoClaim ==
    /\ down = "close" /\ down' = IF closer = 0 THEN "stopped" ELSE "closing"
    /\ UNCHANGED <<registry, ls, conn, turns, ops, closer, cut, refused>>

\* and what nobody else has claimed is closed.
CloseIfOpen ==
    /\ down = "close"
    /\ IF closer = 0 THEN down' = "stopped" /\ UNCHANGED ls
       ELSE /\ ls[closer].mu = None
            /\ down' = IF ls[closer].closed THEN "stopped" ELSE "closing"
            /\ ls' = [ls EXCEPT ![closer].closed = TRUE]
    /\ UNCHANGED <<registry, conn, turns, ops, closer, cut, refused>>

ShutdownCloseLog ==
    /\ down = "closing" /\ down' = "stopped" /\ LogClosed(closer)
    /\ UNCHANGED <<live, loading, closing, made, conn, turns, ops, closer, cut, refused>>

-----------------------------------------------------------------------------
Init ==
    /\ live = 0 /\ loading = None /\ closing = 0 /\ flock = 0 /\ made = 0
    /\ ls = [g \in Instances |-> Fresh] /\ conn = [c \in Conns |-> AtRest]
    /\ run = [r \in Runs |-> NoRun] /\ rs = [r \in Runs |-> "idle"]
    /\ how = [r \in Runs |-> "none"] /\ ops = 0
    /\ down = "up" /\ closer = 0 /\ cut = FALSE /\ refused = FALSE

\* The steps of a request once it is being served.
Serve(c) ==
    \/ Load(c) \/ Read(c) \/ Install(c) \/ Unload(c) \/ Attach(c) \/ Fork(c)
    \/ Set(c) \/ Append(c) \/ Compact(c) \/ Compacted(c) \/ Shell(c) \/ ShellAppend(c)
    \/ Interrupt(c) \/ RunnerInterrupt(c)
    \/ Submit(c) \/ Start(c) \/ Spawn(c) \/ Undo(c) \/ Await(c)
    \/ Check(c) \/ CloseLog(c) \/ CloseDone(c)

RunTurn(r) ==
    RunBegins(r) \/ Final(r) \/ Drop(r) \/ RunCheck(r) \/ RunCloseLog(r) \/ RunCloseDone(r)

ShutdownStep == TakeLive \/ CancelTurns \/ Waited \/ CloseIfOpen \/ ShutdownCloseLog

Next ==
    \/ \E c \in Conns : Serve(c) \/ Detach(c) \/ \E o \in Uses : Resume(c, o) \/ Lookup(c, o)
    \/ \E r \in Runs : RunTurn(r) \/ RunEnds(r)
    \/ Shutdown \/ ShutdownStep

Spec == Init /\ [][Next]_vars

\* A request that is being served and a runTurn that is not inside its Run go
\* on; a Run may last for ever, and nobody has to send or to leave.
Fairness ==
    /\ \A c \in Conns : WF_vars(Serve(c))
    /\ \A r \in Runs : WF_vars(RunTurn(r))
    /\ WF_vars(ShutdownStep)

FairSpec == Spec /\ Fairness

-----------------------------------------------------------------------------
(* Properties.                                                             *)

ConnSteps == {"idle", "load", "read", "install", "unload", "attach", "fork", "submit", "steer",
    "start", "spawn", "undo", "await", "set", "append", "compact", "summary", "shell", "command",
    "stop", "cancel", "cut", "check", "closing", "closed"}
RunSteps == {"none", "made", "run", "loop", "returned", "keep", "drop", "check", "closing",
    "closed", "done"}
States == {"idle", "busy", "steering"}

\* Types of every variable.
TypeOK ==
    /\ live \in 0..MaxLoads /\ closing \in 0..MaxLoads /\ flock \in 0..MaxLoads
    /\ made \in 0..MaxLoads /\ loading \in Conns \cup {None}
    /\ ls \in [Instances -> [closed: BOOLEAN, mu: Conns \cup {None}, state: States,
                             runner: 0..MaxRuns, subs: SUBSET Conns, closes: Nat]]
    /\ conn \in [Conns -> [op: Requests \cup {"none", "detach"}, at: ConnSteps, ls: 0..MaxLoads,
                           r: 0..MaxRuns, tries: 0..(ResumeAttempts - 1)]]
    /\ run \in [Runs -> [at: RunSteps, ls: 0..MaxLoads, r: 0..MaxRuns]]
    /\ rs \in [Runs -> States] /\ how \in [Runs -> {"none", "steer", "cancel"}]
    /\ ops \in 0..MaxOps /\ closer \in 0..MaxLoads /\ cut \in BOOLEAN /\ refused \in BOOLEAN
    /\ down \in {"up", "asked", "taken", "cancelled", "close", "closing", "stopped"}

\* The runners of instance g that own it.
Owners(g) == {r \in Runs : run[r].r = r /\ run[r].ls = g /\ isActive(rs[r])}

\* Is instance g being appended to by a handler or by a Run.
Written(g) ==
    \/ \E c \in Conns : conn[c].ls = g /\ conn[c].at \in {"append", "summary"}
    \/ \E r \in Runs : run[r].ls = g /\ run[r].at = "loop"

\* The session a request can find is open and holds the store's lock: no client
\* is ever attached to, or drives, a session that is being closed.
LiveIsOpen == live # 0 => flock = live /\ ~ls[live].closed

\* A load of this process never loses the lock to a load or a close of the same
\* process: ErrLocked means another process (or that the server is going down).
NotLockedOut == refused => down # "up"

\* A session's log is closed once, and its session_closed hook fires once,
\* whichever of detach, runTurn, compact and Shutdown decide to.
ClosedOnce == \A g \in Instances : ls[g].closes <= 1

\* Nothing is appended to a log that is closed, unless Shutdown ran out of its
\* budget.
NoAppendAfterClose == \A g \in Instances : Written(g) => ls[g].closes = 0 \/ cut

\* A subscriber keeps its session open: it is never closed under a client that
\* attached between the decision to close it and the close.
SubscribersKeepItOpen ==
    \A g \in Instances : ls[g].subs # {} /\ down = "up" => ~ls[g].closed /\ live = g

\* A session that can be found, or is attached to, is open, whatever load, detach and close of
\* it are under way (closeIfOpen, claimCloseIfIdle).
LiveIsKept == LiveIsOpen /\ NotLockedOut /\ SubscribersKeepItOpen

\* A session's log is closed once and is not written to afterwards.
ClosesOnce == ClosedOnce /\ NoAppendAfterClose

\* "startTurn refuses a typed submit while a turn is active": one runner at a
\* time owns a session.
OneTurn == \A g \in Instances : Cardinality(Owners(g)) <= 1

\* Outside a turn the server appends only when no turn is active
\* (appendAndBroadcastLocked), except handleShell, which does not look again.
TurnOwnsLog ==
    \A c \in Conns : conn[c].at \in {"append", "summary"} /\ conn[c].op # "shell" =>
        Owners(conn[c].ls) = {}

\* "The runner's first real StateChanged overwrites both fields moments later"
\* (markStarting): a session is marked active only while a Run is on its way or
\* its turn is.
MarkedOnlyWhileActive ==
    \A g \in Instances : isActive(ls[g].state) =>
        \/ Owners(g) # {}
        \/ \E r \in Runs : run[r].ls = g /\ run[r].at \in {"made", "run", "loop"}
        \/ down # "up"

\* One turn at a time owns a session, its log and its mark (startTurn, markStarting,
\* appendAndBroadcastLocked).
TurnOwnsSession == OneTurn /\ TurnOwnsLog /\ MarkedOnlyWhileActive

\* A session whose last client has left closes: none stays live for ever with
\* nobody attached and no Run going on.
NotLeftLive ==
    \A g \in Instances : ~<>[](/\ live = g /\ ls[g].subs = {}
                              /\ \A r \in Runs : run[r].at # "loop")
=============================================================================
