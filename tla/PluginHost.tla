------------------------------- MODULE PluginHost -------------------------------
(***************************************************************************)
(* A spawned plugin and the registry (internal/plugin/spawned.go,          *)
(* registry.go, remote_provider.go): the child's connection is a Peer, Load*)
(* runs Init and commits what it staged, a watcher withdraws a plugin that *)
(* is gone, a completion streams over the connection, and the next plugin  *)
(* of the load order (its own connection left out) may want the same names.*)
(*                                                                         *)
(* Each goroutine has a program counter: load, serve (the server's loop on *)
(* the plugin's connection), watch, comp (Complete) and stop (Built.Close).*)
(***************************************************************************)
EXTENDS Peer, FiniteSets

CONSTANTS
    Names,        \* capability names: tools, commands, providers, hooks, agents
    Contents,     \* is a status item's new content shown (FALSE: empty, a deletion)
    DeltaBuffer,  \* deltaBuffer, the capacity of a completion's parts channel
    MaxSent,      \* bound: messages the child sends, answers not counted
    None

ASSUME PluginHostAssumption ==
    /\ Calls = {"init", "complete"}
    /\ Contents \subseteq BOOLEAN /\ DeltaBuffer \in Nat \ {0} /\ MaxSent \in Nat
    /\ None \notin {"spawned", "next"}

VARIABLES
    proc,         \* the child: "none", "running" or "dead"
    reaped,       \* wait() has returned
    sent,         \* messages and answers the child sent, a count and a set
    load,         \* where Load is
    serve,        \* the serve loop: "off", "run", or how Recv failed
    cur,          \* the message it is handling, and how far it is
    watch,        \* where watch is
    comp,         \* where Complete is
    stop,         \* where Built.Close is
    ready,        \* Spawned.ready
    closing,      \* Spawned.closing
    commit,       \* Spawned.commit is closed
    staged,       \* host: the names and the status item staged during Init
    live,         \* host.live
    tools,        \* Registry: tools[n] is the owner of n, or None
    item,         \* Registry: is a status item of the spawned plugin shown
    failed,       \* Registry.failed of the spawned plugin
    status,       \* Registry.statuses: the state of the spawned plugin
    nextStage,    \* what the next plugin staged
    parts,        \* deltaSub.parts
    emitted,      \* the parts Complete has emitted
    cut           \* finish stopped waiting before its barrier was passed

child == <<proc, reaped, sent>>
spawn == <<ready, closing, commit>>
registry == <<staged, live, tools, item, failed, status, nextStage>>
stream == <<comp, parts, emitted, cut>>
vars == <<peer, child, load, serve, cur, watch, stop, spawn, registry, stream>>

Idle == [msg |-> <<"none", None>>, at |-> "none"]
NoStage == [names |-> {}, item |-> FALSE]
Owned == {n \in Names : tools[n] = "spawned"}
Gone == proc = "dead" \/ ~reading

Init ==
    /\ PeerInit
    /\ proc = "none" /\ reaped = FALSE
    /\ sent = [msgs |-> 0, deltas |-> 0, owed |-> 0, answers |-> {}]
    /\ load = "start" /\ serve = "off" /\ cur = Idle /\ watch = "off" /\ stop = "no"
    /\ ready = FALSE /\ closing = FALSE /\ commit = FALSE
    /\ staged = NoStage /\ live = FALSE
    /\ tools = [n \in Names |-> None] /\ item = FALSE /\ failed = FALSE
    /\ status = "none" /\ nextStage = {}
    /\ comp = "idle" /\ parts = <<>> /\ emitted = <<>> /\ cut = FALSE

-----------------------------------------------------------------------------
(* The child (external): what it may write, and its end.                   *)

Writes(m) == wire' = Append(wire, m) /\ UNCHANGED <<hungup, open, reading, q, down, call, answered>>

ChildSends(m) ==
    /\ proc = "running" /\ ~hungup /\ open /\ call["init"] # "idle"
    /\ sent.msgs < MaxSent /\ Writes(m)
    /\ sent' = [sent EXCEPT !.msgs = @ + 1, !.deltas = @ + (IF m[1] = "delta" THEN 1 ELSE 0)]
    /\ UNCHANGED <<proc, reaped, load, serve, cur, watch, stop, spawn, registry, stream>>

ChildStreams ==
    /\ call["complete"] \notin {"idle", "ended"} /\ "complete" \notin sent.answers
    /\ ChildSends(<<"delta", sent.deltas + 1>>)

ChildAnswers(c) ==
    /\ proc = "running" /\ ~hungup /\ open
    /\ call[c] \notin {"idle", "ended"} /\ c \notin sent.answers
    /\ Writes(<<"answer", c>>)
    /\ sent' = [sent EXCEPT !.answers = @ \cup {c}, !.owed = sent.deltas]
    /\ UNCHANGED <<proc, reaped, load, serve, cur, watch, stop, spawn, registry, stream>>

\* The child exits, or only closes its stdout.
ChildEnds ==
    /\ proc = "running" /\ hungup' = TRUE
    /\ proc' \in {"running", "dead"} /\ (proc' = "running" => ~hungup)
    /\ UNCHANGED <<wire, open, reading, q, down, call, answered, reaped, sent,
                   load, serve, cur, watch, stop, spawn, registry, stream>>

\* A SIGKILL, and the end of its writes with it.
Kill == proc' = "dead" /\ hungup' = TRUE

\* The goroutine of watch, or of an abandoned Init, that waits for the process.
Reap ==
    /\ proc = "dead" /\ ~reaped /\ (watch # "off" \/ (closing /\ ~ready))
    /\ reaped' = TRUE
    /\ UNCHANGED <<peer, proc, sent, load, serve, cur, watch, stop, spawn, registry, stream>>

-----------------------------------------------------------------------------
(* Registry.Load and Spawned.Init.                                         *)

table == <<staged, live, tools, item, failed, nextStage>>

\* start fails, or the child runs, its serve loop starts and plugin.init is sent.
Start ==
    /\ load = "start"
    /\ \/ status' = "failed" /\ load' = "next"
          /\ UNCHANGED <<peer, proc, serve>>
       \/ status' = "loading" /\ load' = "init"
          /\ proc' = "running" /\ serve' = "run" /\ CallStart("init")
          /\ UNCHANGED <<wire, hungup, open, reading, q, down, answered>>
    /\ UNCHANGED <<reaped, sent, cur, watch, stop, spawn, table, stream>>

\* The handshake completed: late registrations are refused from here on.
InitReturns ==
    /\ load = "init" /\ CallReturns("init", "ok")
    /\ ready' = TRUE /\ watch' = "wait" /\ load' = "commit"
    /\ UNCHANGED <<child, serve, cur, stop, closing, commit, registry, stream>>

\* Mutant: plugin.init has no deadline.
InitFails_NoTimeout ==
    /\ load = "init"
    /\ \/ call["init"] = "ended" /\ UNCHANGED peer
       \/ \E how \in {"ok", "ended"} : CallReturns("init", how)
    /\ load' = "abandon"
    /\ UNCHANGED <<child, serve, cur, watch, stop, spawn, registry, stream>>

\* An answer of another protocol version, no answer in time, or none at all.
InitFails ==
    /\ load = "init"
    /\ \/ call["init"] = "ended" /\ UNCHANGED peer
       \/ \E how \in {"ok", "cancelled", "ended"} : CallReturns("init", how)
    /\ load' = "abandon"
    /\ UNCHANGED <<child, serve, cur, watch, stop, spawn, registry, stream>>

Abandon ==
    /\ load = "abandon" /\ closing' = TRUE /\ PeerClose /\ load' = "stopping"
    /\ UNCHANGED <<wire, hungup, reading, q, call, answered, child, serve, cur, watch,
                   stop, ready, commit, registry, stream>>

\* shutdown: the child is reaped, or killed after stopGrace.
Shut == (reaped /\ UNCHANGED <<proc, hungup>>) \/ (~reaped /\ Kill)

AbandonEnds ==
    /\ load = "stopping" /\ Shut
    /\ status' = "failed" /\ load' = "next"
    /\ UNCHANGED <<wire, open, reading, q, down, call, answered, reaped, sent, serve, cur,
                   watch, stop, spawn, table, stream>>

\* commit: one section under h.mu and r.mu installs the whole stage.
Commit ==
    /\ load = "commit" /\ load' = "loaded"
    /\ live' = TRUE /\ item' = staged.item /\ staged' = NoStage
    /\ tools' = [n \in Names |-> IF n \in staged.names THEN "spawned" ELSE tools[n]]
    /\ UNCHANGED <<peer, child, serve, cur, watch, stop, spawn, failed, status,
                   nextStage, stream>>

Loaded ==
    /\ load = "loaded" /\ load' = "ready" /\ status' = "ready"
    /\ UNCHANGED <<peer, child, serve, cur, watch, stop, spawn, table, stream>>

\* committed: the watcher may withdraw from here on.
Committed ==
    /\ load = "ready" /\ commit' = TRUE /\ load' = "next"
    /\ UNCHANGED <<peer, child, serve, cur, watch, stop, ready, closing, registry, stream>>

\* The next plugin registers during its own Init; a taken name fails it.
NextRegisters(n) ==
    /\ load = "next" /\ n \notin nextStage
    /\ IF tools[n] = None
       THEN nextStage' = nextStage \cup {n} /\ UNCHANGED load
       ELSE load' = "done" /\ nextStage' = {}
    /\ UNCHANGED <<peer, child, serve, cur, watch, stop, spawn, staged, live, tools, item,
                   failed, status, stream>>

NextCommits ==
    /\ load = "next" /\ load' = "done" /\ nextStage' = {}
    /\ tools' = [n \in Names |-> IF n \in nextStage THEN "next" ELSE tools[n]]
    /\ UNCHANGED <<peer, child, serve, cur, watch, stop, spawn, staged, live, item, failed,
                   status, stream>>

-----------------------------------------------------------------------------
(* The serve loop on the plugin's connection.                              *)

Doing(at) == cur' = [cur EXCEPT !.at = at]
Handles(kind, at) == serve = "run" /\ cur.msg[1] = kind /\ cur.at = at

Take ==
    /\ serve = "run" /\ cur = Idle
    /\ \E i \in Messages : Recv(q[i]) /\ cur' = [msg |-> q[i], at |-> "new"]
    /\ UNCHANGED <<wire, hungup, open, reading, down, call, answered, child, load, serve,
                   watch, stop, spawn, registry, stream>>

\* Registering: refuseLate reads ready, stageRegister takes h.mu afterwards.  A
\* request in time may be refused too, for its arguments.
RefuseLate ==
    /\ Handles("register", "new")
    /\ cur' = Idle \/ (~ready /\ Doing("stage"))
    /\ UNCHANGED <<peer, child, load, serve, watch, stop, spawn, registry, stream>>

\* Mutant: a registration after Init goes straight to the registry.
StageRegister_WritesThrough ==
    LET n == cur.msg[2]
    IN  /\ Handles("register", "stage") /\ cur' = Idle
        /\ staged' = IF tools[n] = None THEN [staged EXCEPT !.names = @ \cup {n}] ELSE staged
        /\ tools' = IF live /\ tools[n] = None THEN [tools EXCEPT ![n] = "spawned"] ELSE tools
        /\ UNCHANGED <<peer, child, load, serve, watch, stop, spawn, live, item,
                       failed, status, nextStage, stream>>

StageRegister ==
    LET n == cur.msg[2]
    IN  /\ Handles("register", "stage") /\ cur' = Idle
        /\ staged' = IF tools[n] = None THEN [staged EXCEPT !.names = @ \cup {n}] ELSE staged
        /\ UNCHANGED <<peer, child, load, serve, watch, stop, spawn, live, tools, item,
                       failed, status, nextStage, stream>>

\* set_status, empty content clearing the item: staged during Init, and written
\* through once live was read.
StageItem ==
    /\ Handles("status", "new")
    /\ IF live THEN Doing("write") /\ UNCHANGED staged
       ELSE cur' = Idle /\ staged' = [staged EXCEPT !.item = cur.msg[2]]
    /\ UNCHANGED <<peer, child, load, serve, watch, stop, spawn, live, tools, item, failed,
                   status, nextStage, stream>>

setStatusItem ==
    /\ Handles("status", "write") /\ cur' = Idle
    /\ item' = IF failed THEN item ELSE cur.msg[2]
    /\ UNCHANGED <<peer, child, load, serve, watch, stop, spawn, staged, live, tools, failed,
                   status, nextStage, stream>>

\* A delta waits for room in the completion's channel, and is dropped without one.
DeliverDelta ==
    LET subscribed == comp \in {"run", "finish", "sync", "drain"}
    IN  /\ Handles("delta", "new") /\ cur' = Idle
        /\ subscribed => Len(parts) < DeltaBuffer
        /\ parts' = IF subscribed THEN Append(parts, cur.msg[2]) ELSE parts
        /\ UNCHANGED <<peer, child, load, serve, watch, stop, spawn, registry, comp,
                       emitted, cut>>

ServeEnds ==
    /\ serve = "run" /\ cur = Idle
    /\ \E why \in {"eof", "closed", "canceled"} : RecvFails(why, stop # "no") /\ serve' = why
    /\ UNCHANGED <<wire, hungup, open, reading, down, call, answered, child, load, cur,
                   watch, stop, spawn, registry, stream>>

-----------------------------------------------------------------------------
(* watch: the plugin is gone when its process or its connection is.        *)

exitOf == IF closing THEN "end" ELSE "commit"

WatchExit ==
    /\ watch \in {"wait", "grace"} /\ reaped
    /\ watch' = exitOf
    /\ UNCHANGED <<peer, child, load, serve, cur, stop, spawn, registry, stream>>

\* The serve loop returned: our own shutdown, or a connection that was lost.
WatchLost ==
    /\ watch = "wait" /\ serve \notin {"off", "run"}
    /\ watch' = IF closing \/ serve = "canceled" THEN "end" ELSE "grace"
    /\ UNCHANGED <<peer, child, load, serve, cur, stop, spawn, registry, stream>>

\* Mutant: the connection is lost and the process is left running.
Terminate_Spares ==
    /\ watch = "grace" /\ watch' = exitOf
    /\ UNCHANGED <<peer, child, load, serve, cur, stop, spawn, registry, stream>>

\* Neither exitGrace nor, after a SIGTERM, termGrace brought the exit: SIGKILL.
Terminate ==
    /\ watch = "grace" /\ ~reaped /\ Kill /\ watch' = exitOf
    /\ UNCHANGED <<wire, open, reading, q, down, call, answered, reaped, sent, load, serve,
                   cur, stop, spawn, registry, stream>>

WatchCommit ==
    /\ watch = "commit" /\ commit
    /\ watch' = IF closing THEN "end" ELSE "fail"
    /\ UNCHANGED <<peer, child, load, serve, cur, stop, spawn, registry, stream>>

\* Fail: one section under r.mu withdraws everything the plugin owns.
Fail ==
    /\ watch = "fail" /\ watch' = "close"
    /\ failed' = TRUE /\ item' = FALSE /\ status' = "failed"
    /\ tools' = [n \in Names |-> IF tools[n] = "spawned" THEN None ELSE tools[n]]
    /\ UNCHANGED <<peer, child, load, serve, cur, stop, spawn, staged, live, nextStage, stream>>

WatchCloses ==
    /\ watch = "close" /\ watch' = "end" /\ PeerClose
    /\ UNCHANGED <<wire, hungup, reading, q, call, answered, child, load, serve, cur, stop,
                   spawn, registry, stream>>

-----------------------------------------------------------------------------
(* remoteProvider.Complete, called by a turn once the plugins are loaded.  *)

CompleteStart ==
    /\ comp = "idle" /\ load = "done" /\ stop = "no" /\ live
    /\ CallStart("complete") /\ comp' = "run"
    /\ UNCHANGED <<wire, hungup, open, reading, q, down, answered, child, load, serve, cur,
                   watch, stop, spawn, registry, parts, emitted, cut>>

Emit ==
    /\ comp \in {"run", "finish", "sync", "drain"} /\ parts # <<>>
    /\ emitted' = Append(emitted, Head(parts)) /\ parts' = Tail(parts)
    /\ UNCHANGED <<peer, child, load, serve, cur, watch, stop, spawn, registry, comp, cut>>

\* The turn's context ends, or emit returns an error: the call is given up and
\* unsubscribe frees the consumer.
CompleteAborts ==
    /\ comp \in {"run", "finish", "sync", "drain"} /\ comp' = "failed"
    /\ parts' = <<>>
    /\ IF call["complete"] = "pending" THEN Return("complete", "cancelled") ELSE UNCHANGED call
    /\ UNCHANGED <<wire, hungup, open, reading, q, down, answered, child, load, serve, cur,
                   watch, stop, spawn, registry, emitted, cut>>

CompleteReturned ==
    /\ comp = "run"
    /\ \/ call["complete"] = "ended" /\ comp' = "failed" /\ UNCHANGED peer
       \/ CallReturns("complete", "ended") /\ comp' = "failed"
       \/ CallReturns("complete", "ok") /\ comp' = "finish"
    /\ UNCHANGED <<child, load, serve, cur, watch, stop, spawn, registry, parts, emitted, cut>>

\* Mutant: the barrier is left out.
Sync_Skipped ==
    /\ comp = "finish" /\ comp' = "drain"
    /\ UNCHANGED <<peer, child, load, serve, cur, watch, stop, spawn, registry, parts,
                   emitted, cut>>

\* finish: queue a barrier behind everything that has arrived ...
Sync ==
    /\ comp = "finish" /\ comp' = "sync" /\ SyncStart
    /\ UNCHANGED <<wire, hungup, open, reading, down, call, answered, child, load, serve,
                   cur, watch, stop, spawn, registry, parts, emitted, cut>>

\* ... and wait for it, for the end of the connection or for syncTimeout.
Synced ==
    /\ comp = "sync" /\ comp' = "drain"
    /\ cut' = (~Passed \/ ~reading \/ down)
    /\ UNCHANGED <<peer, child, load, serve, cur, watch, stop, spawn, registry, parts, emitted>>

Stopped ==
    /\ comp = "drain" /\ parts = <<>> /\ comp' = "stopped"
    /\ UNCHANGED <<peer, child, load, serve, cur, watch, stop, spawn, registry, parts,
                   emitted, cut>>

-----------------------------------------------------------------------------
(* Built.Close: the server shuts down, then Registry.Close what was loaded. *)

Shutdown ==
    /\ stop = "no" /\ load = "done" /\ stop' = "server"
    /\ UNCHANGED <<peer, child, load, serve, cur, watch, spawn, registry, stream>>

ClosePlugins ==
    /\ stop = "server"
    /\ IF live THEN closing' = TRUE /\ PeerClose /\ stop' = "wait"
       ELSE stop' = "closed" /\ UNCHANGED <<closing, open, down>>
    /\ UNCHANGED <<wire, hungup, reading, q, call, answered, child, load, serve, cur, watch,
                   ready, commit, registry, stream>>

CloseEnds ==
    /\ stop = "wait" /\ Shut /\ stop' = "closed"
    /\ UNCHANGED <<wire, open, reading, q, down, call, answered, reaped, sent, load, serve,
                   cur, watch, spawn, registry, stream>>

-----------------------------------------------------------------------------
ReaderStep ==
    /\ Read \/ ReadFails
    /\ UNCHANGED <<child, load, serve, cur, watch, stop, spawn, registry, stream>>
ChildStep ==
    \/ \E n \in Names : ChildSends(<<"register", n>>)
    \/ \E shown \in Contents : ChildSends(<<"status", shown>>)
    \/ ChildStreams \/ ChildEnds \/ \E c \in Calls : ChildAnswers(c)
LoadStep ==
    \/ Start \/ InitReturns \/ InitFails \/ Abandon \/ AbandonEnds
    \/ Commit \/ Loaded \/ Committed \/ NextCommits \/ \E n \in Names : NextRegisters(n)
ServeStep ==
    \/ Take \/ RefuseLate \/ StageRegister \/ StageItem \/ setStatusItem \/ DeliverDelta
    \/ ServeEnds
WatchStep ==
    \/ WatchExit \/ WatchLost \/ Terminate \/ WatchCommit \/ Fail
    \/ WatchCloses
CompleteStep == Emit \/ CompleteReturned \/ Sync \/ Synced \/ Stopped
StopStep == ClosePlugins \/ CloseEnds

Next ==
    \/ ReaderStep \/ ChildStep \/ Reap \/ LoadStep \/ ServeStep \/ WatchStep
    \/ CompleteStart \/ CompleteStep \/ CompleteAborts
    \/ Shutdown \/ StopStep

Spec == Init /\ [][Next]_vars

\* Goroutines run and timers fire; nothing is assumed of the child, of a turn
\* that gives up, or of a shutdown being asked for.
Fairness ==
    /\ WF_vars(ReaderStep) /\ WF_vars(Reap) /\ WF_vars(LoadStep) /\ WF_vars(ServeStep)
    /\ WF_vars(WatchStep) /\ WF_vars(CompleteStep) /\ WF_vars(StopStep)
FairSpec == Spec /\ Fairness

-----------------------------------------------------------------------------
(* Properties.                                                             *)

Msgs == ({"register"} \X Names) \cup ({"status"} \X BOOLEAN) \cup ({"delta"} \X (1..MaxSent))
LoadStates == {"start", "init", "commit", "loaded", "ready", "abandon", "stopping", "next", "done"}

\* The state of the host, the connection and the registry.
TypeOK ==
    /\ wire \in Seq(Msgs \cup ({"answer"} \X Calls)) /\ q \in Seq(Msgs \cup {Barrier})
    /\ {hungup, open, reading, down, reaped, ready, closing, commit, live, item, failed, cut} \subseteq BOOLEAN
    /\ call \in [Calls -> CallStates]
    /\ answered \subseteq Calls /\ proc \in {"none", "running", "dead"}
    /\ sent \in [msgs : 0..MaxSent, deltas : 0..MaxSent, owed : 0..MaxSent, answers : SUBSET Calls]
    /\ load \in LoadStates /\ serve \in {"off", "run", "eof", "closed", "canceled"}
    /\ cur \in [msg : Msgs \cup {Idle.msg}, at : {"none", "new", "stage", "write"}]
    /\ watch \in {"off", "wait", "grace", "commit", "fail", "close", "end"}
    /\ stop \in {"no", "server", "wait", "closed"}
    /\ staged \in [names : SUBSET Names, item : BOOLEAN] /\ nextStage \subseteq Names
    /\ tools \in [Names -> {"spawned", "next", None}]
    /\ status \in {"none", "loading", "ready", "failed"}
    /\ comp \in {"idle", "run", "finish", "sync", "drain", "stopped", "failed"}
    /\ parts \in Seq(1..MaxSent) /\ Len(parts) <= DeltaBuffer /\ emitted \in Seq(1..MaxSent)

\* A plugin Fail has withdrawn stays withdrawn: its row says failed and nothing
\* of it is registered or shown, whatever of Load's last steps and of the child's
\* own writes was still under way (committed, setStatusItem).
FailedForGood == failed => status = "failed" /\ Owned = {} /\ ~item

\* What a plugin offers only shrinks under a session: once the registry answers with its
\* capabilities it gains none (refuseLate, the stage and commit), and nothing of it is left, or
\* comes back, once it has been withdrawn (FailedForGood).
SurfaceOnlyShrinks ==
    [][FailedForGood' /\ (live => {n \in Names : tools'[n] = "spawned"} \subseteq Owned)]_vars

\* A completion that ended with its stop part emitted every delta the child sent
\* before its answer, in order, unless finish's wait was cut short (Peer.Sync).
DeltasBeforeStop ==
    comp = "stopped" /\ ~cut =>
        /\ Len(emitted) >= sent.owed
        /\ \A i \in 1..Len(emitted) : emitted[i] = i

\* Load ends whatever the child does: it never answers, answers wrongly, hangs up
\* in the handshake, or ignores its closed stdin (initTimeout, abandon, shutdown).
LoadEnds == <>(load = "done")

\* A plugin that served and is gone, its process dead or its connection ended, is
\* withdrawn or closed, and its process does not outlive it (watch, terminate).
GoneIsWithdrawn == ready /\ Gone ~> (failed \/ closing) /\ proc = "dead"
=============================================================================
