------------------------------- MODULE Daemon -------------------------------
(***************************************************************************)
(* The daemon of a machine and the processes that look for it:             *)
(* "rudy serve" taking the socket path over, building, serving and         *)
(* shutting down (internal/cli/serve.go, internal/protocol/unixsock.go,    *)
(* the shutdown of internal/server/server.go), the bridges that find or    *)
(* start it, the commands that stop it through the protocol                *)
(* (internal/cli/bridge.go) and the clients that probe for it and serve    *)
(* themselves when nobody answers (internal/cli/dial.go).                  *)
(*                                                                         *)
(* A path names at most one socket, which answers while the process that   *)
(* bound it listens; the lock file is never removed, so its lock is one    *)
(* lock, and dies with its holder.                                         *)
(***************************************************************************)
EXTENDS Integers, FiniteSets

CONSTANTS
    Servers,        \* the server processes there may be; 0 is nobody
    Bridges,        \* bridges, of ssh clients
    Stops,          \* "bridge --stop" commands
    Probes,         \* local clients
    Casts,          \* which of them there are, in one behaviour or another
    MaxFaults       \* bound on what goes wrong

ASSUME DaemonAssumption == Servers \subseteq Nat \ {0}

VARIABLES
    path,           \* what the socket path names: 0, a server's socket, -1, a leftover, or -2, not ours
    lock,           \* the server that holds the lock, 0 when it is free
    srv,            \* the server processes
    cli,            \* the client processes, with the connection each has
    faults,         \* what has gone wrong so far
    calm            \* whether no server has failed, been stopped or been killed

vars == <<path, lock, srv, cli, faults, calm>>

Clients == Bridges \cup Stops \cup Probes

\* A server process: where runServe is, its exit code (-1 before), whether its sessions and
\* plugins are up, whether a signal has cancelled its context, the two halves of the shutdown
\* claim, and whether cleaning up went well.
NoServer == [st |-> "none", code |-> -1, up |-> FALSE, sig |-> FALSE,
             claimed |-> FALSE, committed |-> FALSE, ok |-> TRUE]

\* A client process: where it is, the server it is connected to, where that server's loop for
\* it is, what it has been told, whether its stream has ended, and the child it started.
NoClient == [pc |-> "idle", to |-> 0, loop |-> "none", told |-> {}, eof |-> FALSE, child |-> 0]

Init ==
    /\ path \in {0, -1, -2} /\ lock = 0
    /\ srv = [p \in Servers |-> NoServer]
    /\ \E cast \in Casts :
         cli = [c \in Clients |-> IF c \in cast THEN NoClient ELSE [NoClient EXCEPT !.pc = "absent"]]
    /\ faults = 0 /\ calm = TRUE

Listens(p) == srv[p].st \in {"building", "serving", "ending", "draining", "closing"}

\* CheckSocketOwner and prepareSocketDir: the socket and its directory are this user's.
Ours == path # -2

\* DialUnix: somebody listens.
Answers == path \in Servers /\ Listens(path)
Over(p) == srv[p].st = "over"
Alive(p) == srv[p].st \notin {"none", "over"}

\* Every connection of p ends, in cs.
Hangup(cs, p) == [c \in Clients |-> IF cs[c].to = p THEN [cs[c] EXCEPT !.eof = TRUE, !.loop = "none"] ELSE cs[c]]

Goto(p, st) == srv' = [srv EXCEPT ![p].st = st]
Ends(p, code) == [srv EXCEPT ![p] = [NoServer EXCEPT !.st = "over", !.code = code]]
Fresh(p) == srv[p].st = "none" /\ \A q \in Servers : q < p => srv[q].st # "none"

\* A client is done with the daemon.
Done(c, pc) == cli' = [cli EXCEPT ![c] = [@ EXCEPT !.pc = pc, !.told = {}, !.eof = TRUE, !.child = 0]]

-----------------------------------------------------------------------------
(* ListenUnix: the lock, the path, the bind                                *)

\* An operator types "rudy serve".
Serve(p) ==
    /\ Fresh(p)
    /\ Goto(p, "start")
    /\ UNCHANGED <<path, lock, cli, faults, calm>>

\* takeLock, which does not wait: a lock that is held is exitSocketBusy.
TakeLock(p) ==
    /\ srv[p].st = "start"
    /\ CASE ~Ours -> srv' = Ends(p, 1) /\ calm' = FALSE /\ UNCHANGED lock
         [] Ours /\ lock = 0 -> lock' = p /\ Goto(p, "locked") /\ UNCHANGED calm
         [] Ours /\ lock # 0 -> srv' = Ends(p, 3) /\ UNCHANGED <<lock, calm>>
    /\ UNCHANGED <<path, cli, faults>>

\* clearSocketPath, the probe: only a path nobody serves is cleared.
Probe(p) ==
    /\ srv[p].st = "locked"
    /\ CASE path = 0 -> Goto(p, "clear") /\ UNCHANGED lock
         [] Answers -> srv' = Ends(p, 3) /\ lock' = 0
         [] OTHER -> Goto(p, "stale") /\ UNCHANGED lock
    /\ UNCHANGED <<path, cli, faults, calm>>

\* clearSocketPath, the removal.
RemoveStale(p) ==
    /\ srv[p].st = "stale"
    /\ path' = 0 /\ Goto(p, "clear")
    /\ UNCHANGED <<lock, cli, faults, calm>>

\* bindLocked: a name that is taken is an error, and the lock goes with it.
Bind(p) ==
    /\ srv[p].st = "clear"
    /\ IF path = 0 THEN path' = p /\ Goto(p, "building") /\ UNCHANGED lock
       ELSE srv' = Ends(p, 1) /\ lock' = 0 /\ UNCHANGED path
    /\ UNCHANGED <<cli, faults, calm>>

-----------------------------------------------------------------------------
(* runServe: the build, the accept loop, the end                           *)

Built(p) ==
    /\ srv[p].st = "building"
    /\ srv' = [srv EXCEPT ![p].st = "serving", ![p].up = TRUE]
    /\ UNCHANGED <<path, lock, cli, faults, calm>>

\* A build that fails closes the listener it already had.
BuildFails(p) ==
    /\ srv[p].st = "building" /\ faults < MaxFaults
    /\ srv' = [srv EXCEPT ![p].st = "closing", ![p].ok = FALSE]
    /\ faults' = faults + 1 /\ calm' = FALSE
    /\ UNCHANGED <<path, lock, cli>>

\* accept and serveConn: a connection offered after a claim is closed at once.
Accept(c) ==
    /\ cli[c].loop = "backlog" /\ srv[cli[c].to].st \in {"serving", "ending", "draining"}
    /\ IF srv[cli[c].to].claimed THEN cli' = [cli EXCEPT ![c].eof = TRUE, ![c].loop = "none"]
       ELSE cli' = [cli EXCEPT ![c].loop = "served"]
    /\ UNCHANGED <<path, lock, srv, faults, calm>>

\* A signal cancels the context every loop runs under.
Signal(p) ==
    /\ srv[p].st = "serving" /\ ~srv[p].sig /\ faults < MaxFaults
    /\ srv' = [srv EXCEPT ![p].sig = TRUE]
    /\ faults' = faults + 1 /\ calm' = FALSE
    /\ UNCHANGED <<path, lock, cli>>

\* runServe wakes: a signal, or a shutdown that was asked for; endConns.
Wake(p) ==
    /\ srv[p].st = "serving" /\ (srv[p].sig \/ srv[p].committed)
    /\ Goto(p, "ending")
    /\ UNCHANGED <<path, lock, cli, faults, calm>>

\* A serve loop ends: with its context, or with its client.
LoopEnds(c) ==
    /\ cli[c].loop = "served"
    /\ srv[cli[c].to].sig \/ srv[cli[c].to].st # "serving" \/ cli[c].eof
    /\ cli' = [cli EXCEPT ![c].loop = "none", ![c].eof = TRUE]
    /\ UNCHANGED <<path, lock, srv, faults, calm>>

\* Server.Shutdown: no claim from here on, no turn, no connection.
BeginShutdown(p) ==
    /\ srv[p].st = "ending"
    /\ srv' = [srv EXCEPT ![p].st = "draining", ![p].claimed = TRUE, ![p].committed = TRUE]
    /\ UNCHANGED <<path, lock, cli, faults, calm>>

\* Mutant: the loop that carries the shutdown request is waited for too.
InFlight_Control(p) == {c \in Clients : cli[c].to = p /\ cli[c].loop \in {"served", "flush", "control"}}

\* The loops Shutdown waits for: the one that asked for the shutdown is not among them.
InFlight(p) == {c \in Clients : cli[c].to = p /\ cli[c].loop \in {"served", "flush"}}

\* Server.Shutdown and Registry.Close, once every loop and turn is over.
CloseRuntime(p) ==
    /\ srv[p].st = "draining" /\ InFlight(p) = {}
    /\ srv' = [srv EXCEPT ![p].st = "closing", ![p].up = FALSE]
    /\ UNCHANGED <<path, lock, cli, faults, calm>>

\* It goes wrong: a plugin's close fails or, after a signal, the budget runs out on a turn.
CloseFails(p) ==
    /\ srv[p].st = "draining" /\ (InFlight(p) = {} \/ srv[p].sig) /\ faults < MaxFaults
    /\ srv' = [srv EXCEPT ![p].st = "closing", ![p].ok = FALSE]
    /\ faults' = faults + 1
    /\ UNCHANGED <<path, lock, cli, calm>>

-----------------------------------------------------------------------------
(* Listener.Close: stop accepting, remove the socket, give up the lock     *)

\* Mutant: the lock is given up before the socket is removed.
CloseListener_LockFirst(p) ==
    /\ srv[p].st = "closing"
    /\ Goto(p, "closed") /\ lock' = 0
    /\ cli' = [c \in Clients |-> IF cli[c].to = p /\ cli[c].loop = "backlog"
                                 THEN [cli[c] EXCEPT !.eof = TRUE, !.loop = "none"] ELSE cli[c]]
    /\ UNCHANGED <<path, faults, calm>>

\* What waits in the backlog is reset.
CloseListener(p) ==
    /\ srv[p].st = "closing"
    /\ Goto(p, "closed")
    /\ cli' = [c \in Clients |-> IF cli[c].to = p /\ cli[c].loop = "backlog"
                                 THEN [cli[c] EXCEPT !.eof = TRUE, !.loop = "none"] ELSE cli[c]]
    /\ UNCHANGED <<path, lock, faults, calm>>

RemovePath(p) ==
    /\ srv[p].st = "closed"
    /\ path' = 0 /\ Goto(p, "removed")
    /\ UNCHANGED <<lock, cli, faults, calm>>

ReleaseLock(p) ==
    /\ srv[p].st = "removed"
    /\ lock' = (IF lock = p THEN 0 ELSE lock)
    /\ Goto(p, "released")
    /\ UNCHANGED <<path, cli, faults, calm>>

\* CompleteShutdown and FailShutdown.
Proof(p) == IF srv[p].ok THEN {"stopped"} ELSE {}

\* The retained connection gets server.stopped and then its
\* end, or its end alone.
Settle(p) ==
    /\ srv[p].st = "released"
    /\ Goto(p, "settled")
    /\ cli' = [c \in Clients |->
                 IF cli[c].to = p /\ cli[c].loop = "control"
                 THEN [cli[c] EXCEPT !.loop = "none", !.eof = TRUE,
                                     !.told = @ \cup Proof(p)]
                 ELSE cli[c]]
    /\ UNCHANGED <<path, lock, faults, calm>>

\* wg.Wait and the exit; a server whose budget ran out leaves loops behind, and they go too.
Exit(p) ==
    /\ srv[p].st = "settled" /\ (InFlight(p) = {} \/ ~srv[p].ok)
    /\ srv' = Ends(p, IF srv[p].ok THEN 0 ELSE 1)
    /\ cli' = Hangup(cli, p)
    /\ UNCHANGED <<path, lock, faults, calm>>

\* The process is killed: the kernel drops its lock and its connections, the path stays.
Crash(p) ==
    /\ Alive(p) /\ faults < MaxFaults
    /\ srv' = Ends(p, -1) /\ cli' = Hangup(cli, p)
    /\ lock' = (IF lock = p THEN 0 ELSE lock)
    /\ faults' = faults + 1 /\ calm' = FALSE
    /\ UNCHANGED path

-----------------------------------------------------------------------------
(* The protocol's own shutdown                                             *)

\* runBridgeStop: nobody there is nothing to stop.
StopDial(c) ==
    /\ c \in Stops /\ cli[c].pc = "idle"
    /\ cli' = [cli EXCEPT ![c] = IF Answers THEN [@ EXCEPT !.pc = "greeting", !.to = path, !.loop = "backlog"]
                                 ELSE [@ EXCEPT !.pc = IF Ours THEN "nothing" ELSE "failed"]]
    /\ UNCHANGED <<path, lock, srv, faults, calm>>

\* A claim, tentative or not, refuses every request.
Claimable(p) == ~srv[p].claimed

\* greet and handleHello.
Greet(c) ==
    /\ cli[c].pc = "greeting" /\ cli[c].loop = "served" /\ ~cli[c].eof
    /\ IF Claimable(cli[c].to) THEN cli' = [cli EXCEPT ![c].pc = "asking"] ELSE Done(c, "refused")
    /\ UNCHANGED <<path, lock, srv, faults, calm>>

\* handleServerShutdown and claimShutdown: one claim at a time, refused to the others.
AskStop(c) ==
    /\ cli[c].pc = "asking" /\ cli[c].loop = "served" /\ ~cli[c].eof
    /\ IF Claimable(cli[c].to)
       THEN /\ cli' = [cli EXCEPT ![c].loop = "flush"]
            /\ srv' = [srv EXCEPT ![cli[c].to].claimed = TRUE]
       ELSE Done(c, "refused") /\ UNCHANGED srv
    /\ UNCHANGED <<path, lock, faults, calm>>

\* The response reached the peer: requestShutdown, and the loop keeps its connection.
Flushed(c) ==
    /\ cli[c].loop = "flush"
    /\ cli' = [cli EXCEPT ![c].loop = "control", ![c].told = @ \cup {"shutting_down"}]
    /\ srv' = [srv EXCEPT ![cli[c].to].committed = TRUE]
    /\ calm' = FALSE
    /\ UNCHANGED <<path, lock, faults>>

\* The flush fails, of a peer that does not read or of the context, which leaves open whether
\* the peer has the response: releaseShutdownClaim, unless a shutdown has begun meanwhile.
FlushFails(c) ==
    /\ cli[c].loop = "flush" /\ (faults < MaxFaults \/ srv[cli[c].to].sig)
    /\ \E told \in BOOLEAN :
         cli' = [cli EXCEPT ![c].loop = "none", ![c].eof = TRUE,
                            ![c].told = IF told THEN @ \cup {"shutting_down"} ELSE @]
    /\ srv' = [srv EXCEPT ![cli[c].to].claimed = srv[cli[c].to].committed]
    /\ faults' = (IF srv[cli[c].to].sig THEN faults ELSE faults + 1)
    /\ UNCHANGED <<path, lock, calm>>

\* Mutant: the end of the stream is taken for the proof.
HearStop_EOF(c) ==
    /\ cli[c].pc \in {"greeting", "asking"} /\ cli[c].eof
    /\ Done(c, IF "shutting_down" \in cli[c].told THEN "stopped" ELSE "failed")
    /\ UNCHANGED <<path, lock, srv, faults, calm>>

\* waitForDaemonStop: the end of the stream counts only after server.stopped.
HearStop(c) ==
    /\ cli[c].pc \in {"greeting", "asking"} /\ cli[c].eof
    /\ Done(c, IF {"shutting_down", "stopped"} \subseteq cli[c].told THEN "stopped" ELSE "failed")
    /\ UNCHANGED <<path, lock, srv, faults, calm>>

\* The command's own budget ends, and its connection with it.
StopGivesUp(c) ==
    /\ cli[c].pc \in {"greeting", "asking"} /\ ~cli[c].eof /\ faults < MaxFaults
    /\ Done(c, "failed")
    /\ faults' = faults + 1
    /\ UNCHANGED <<path, lock, srv, calm>>

-----------------------------------------------------------------------------
(* Bridges: dialOrStart and copyBoth                                       *)

Connected(c, child) == [cli[c] EXCEPT !.pc = "joined", !.to = path, !.loop = "backlog", !.child = child]

\* The first dial; --no-start gives up where there is nobody.
BridgeDial(c) ==
    /\ c \in Bridges /\ cli[c].pc = "idle"
    /\ IF Answers THEN cli' = [cli EXCEPT ![c] = Connected(c, 0)]
       ELSE \E pc \in (IF Ours THEN {"spawn", "nobody"} ELSE {"failed"}) : cli' = [cli EXCEPT ![c].pc = pc]
    /\ UNCHANGED <<path, lock, srv, faults, calm>>

\* spawnDaemon.
Spawn(c, p) ==
    /\ cli[c].pc = "spawn" /\ Fresh(p)
    /\ Goto(p, "start")
    /\ cli' = [cli EXCEPT ![c].pc = "loop", ![c].child = p]
    /\ UNCHANGED <<path, lock, faults, calm>>

\* dialOrStart, one dial of the loop.
Redial(c) ==
    /\ cli[c].pc = "loop"
    /\ cli' = [cli EXCEPT ![c] = IF Answers THEN Connected(c, @.child) ELSE [@ EXCEPT !.pc = "look"]]
    /\ UNCHANGED <<path, lock, srv, faults, calm>>

\* Mutant: any exit of the child is a failed start.
Consult_Any(c) ==
    /\ cli[c].pc = "look"
    /\ LET p == cli[c].child
       IN  cli' = [cli EXCEPT ![c] = IF p = 0 \/ ~Over(p) THEN [@ EXCEPT !.pc = "loop"]
                                     ELSE [@ EXCEPT !.pc = "exited"]]
    /\ UNCHANGED <<path, lock, srv, faults, calm>>

\* dialOrStart, the child's exit: that another server holds the socket is no failure.
Consult(c) ==
    /\ cli[c].pc = "look"
    /\ LET p == cli[c].child
       IN  cli' = [cli EXCEPT ![c] = IF p = 0 \/ ~Over(p) THEN [@ EXCEPT !.pc = "loop"]
                                     ELSE IF srv[p].code = 3 THEN [@ EXCEPT !.pc = "loop", !.child = 0]
                                     ELSE [@ EXCEPT !.pc = "exited"]]
    /\ UNCHANGED <<path, lock, srv, faults, calm>>

\* The start budget ends: it is longer than a start that is under way.
BudgetEnds(c) ==
    /\ cli[c].pc = "loop" /\ ~Answers
    /\ \A p \in Servers : srv[p].st \notin {"start", "locked", "stale", "clear", "building"}
    /\ Done(c, "budget")
    /\ UNCHANGED <<path, lock, srv, faults, calm>>

\* exitCodeOf and daemonStatus: the exit of a child that says why the stream ended.
IsReason(p) == p # 0 /\ Over(p) /\ srv[p].code \notin {0, 3}

\* copyBoth: a stream the daemon ended is told with the child's exit when there is one.
BridgeEnds(c) ==
    /\ cli[c].pc = "joined" /\ c \in Bridges /\ cli[c].eof
    /\ LET p == cli[c].child
       IN  /\ p # 0 => Over(p) \/ srv[p].st \in {"building", "serving"}
           /\ Done(c, IF IsReason(p) THEN "exited" ELSE "left")
    /\ UNCHANGED <<path, lock, srv, faults, calm>>

\* The client at the other end hangs up.
HangUp(c) ==
    /\ cli[c].pc = "joined" /\ ~cli[c].eof /\ cli[c].loop = "served"
    /\ Done(c, "left")
    /\ UNCHANGED <<path, lock, srv, faults, calm>>

-----------------------------------------------------------------------------
(* Local clients: dial, attach, embed                                      *)

\* The probe of the default socket: nobody there, and only that, is a server of one's own.
DialLocal(c) ==
    /\ c \in Probes /\ cli[c].pc = "idle"
    /\ cli' = [cli EXCEPT ![c] = IF Answers THEN Connected(c, 0) ELSE [@ EXCEPT !.pc = IF Ours THEN "embedded" ELSE "failed"]]
    /\ UNCHANGED <<path, lock, srv, faults, calm>>

\* attach: a socket that answered and then does not greet is an error, not an absent server.
GreetFails(c) ==
    /\ c \in Probes /\ cli[c].pc = "joined" /\ (cli[c].eof \/ cli[c].loop = "backlog")
    /\ Done(c, "failed")
    /\ UNCHANGED <<path, lock, srv, faults, calm>>

-----------------------------------------------------------------------------
ServerStep(p) ==
    \/ TakeLock(p) \/ Probe(p) \/ RemoveStale(p) \/ Bind(p)
    \/ Built(p) \/ Wake(p) \/ BeginShutdown(p) \/ CloseRuntime(p)
    \/ CloseListener(p) \/ RemovePath(p) \/ ReleaseLock(p) \/ Settle(p) \/ Exit(p)

Trouble(p) == Signal(p) \/ BuildFails(p) \/ CloseFails(p) \/ Crash(p)

LoopStep(c) == Accept(c) \/ LoopEnds(c) \/ Flushed(c) \/ FlushFails(c)

ClientStep(c) ==
    \/ StopDial(c) \/ Greet(c) \/ AskStop(c) \/ HearStop(c) \/ StopGivesUp(c)
    \/ BridgeDial(c) \/ (\E p \in Servers : Spawn(c, p)) \/ Redial(c) \/ Consult(c) \/ BudgetEnds(c)
    \/ BridgeEnds(c) \/ HangUp(c) \/ DialLocal(c) \/ GreetFails(c)

Next ==
    \/ \E p \in Servers : Serve(p) \/ ServerStep(p) \/ Trouble(p)
    \/ \E c \in Clients : LoopStep(c) \/ ClientStep(c)

\* The process runs, its turns end once they are cut, and a loop whose context has ended
\* returns.
Fairness ==
    /\ \A p \in Servers : WF_vars(ServerStep(p))
    /\ \A c \in Clients : WF_vars(LoopStep(c))

Spec == Init /\ [][Next]_vars /\ Fairness

-----------------------------------------------------------------------------
(* Correctness                                                             *)

\* The path of a server that listens names its socket: no other server took it for stale,
\* bound over it or removed it on its own way out, so two are never up at once
\* (takeLock, clearSocketPath, Listener.Close).
SocketIsItsServers == \A p \in Servers : Listens(p) => path = p /\ lock = p

\* A stop that reports success after it was acknowledged has a machine on which a replacement
\* can start: the server it was told of has closed its sessions and plugins and given up the
\* path and the lock (waitForDaemonStop, CompleteShutdown, FailShutdown).
StopIsProof ==
    \A c \in Stops :
        cli[c].pc = "stopped" => LET p == cli[c].to IN ~srv[p].up /\ path # p /\ lock # p

\* Bridges that start daemons at once all end up on one: without a failed, stopped or killed
\* server no bridge reports that its daemon exited or that nothing answered
\* (dialOrStart and exitSocketBusy).
EveryBridgeLands == calm => \A c \in Bridges : cli[c].pc \notin {"exited", "budget"}

\* A daemon that can be asked to stop can be asked again: the claim of a request whose answer
\* was lost does not outlive it (claimShutdown, releaseShutdownClaim).
ClaimIsHeld ==
    \A p \in Servers :
        srv[p].st = "serving" /\ srv[p].claimed
            => srv[p].committed \/ \E c \in Stops : cli[c].to = p /\ cli[c].loop = "flush"

\* A shutdown that was acknowledged ends the process: nothing Shutdown waits for is waiting
\* for Shutdown (serveConn's Done before it waits, endConns before unwind).
AcknowledgedEnds == \A p \in Servers : srv[p].committed ~> Over(p)
=============================================================================
