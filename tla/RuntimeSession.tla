---------------------------- MODULE RuntimeSession ----------------------------
(***************************************************************************)
(* A session whose turns run in the Codex app server: the server's half    *)
(* (internal/server/runtime_session.go: startRuntimeTurn, steering,        *)
(* interruptRuntimeTurn, refreshRuntimeSession, forkRuntimeAt and          *)
(* runtimeEvent) over the adapter's (internal/provider/codexapp: one child *)
(* process at a time, a reader per process, one dispatcher for every       *)
(* notification).                                                          *)
(*                                                                         *)
(* The session has one thread.  A response goes from the reader straight to*)
(* the call that waits for it, a notification through the queue, so the two*)
(* overtake each other.  rs.mu, turnMu and obsMu are never held together   *)
(* here, so each of their sections is a step of its own.  The sequence     *)
(* number of events is left out: only the dispatcher emits them.  What the *)
(* child does is external.                                                 *)
(***************************************************************************)
EXTENDS Naturals, Sequences, FiniteSets

CONSTANTS
    Handlers,   \* request handlers, each serving one connection
    Ops,        \* what they are asked: "start", "mark", "steer", "cancel", "refresh", "fork"
    MaxTurns,   \* bound: turns the child runs
    MaxProcs,   \* bound: child processes started
    MaxBad,     \* bound: malformed notifications
    MaxAsks,    \* bound: requests the handlers serve
    PipeCap,    \* bound: messages in a process's output pipe
    QueueCap    \* capacity of Client.notifications

ASSUME RuntimeAssumption == MaxTurns \in Nat /\ MaxProcs \in Nat

Turns == 1..MaxTurns
Procs == 1..MaxProcs
None == 0

VARIABLES
    up,         \* the child: status of each turn
    on,         \* the child: the process that runs a turn
    said,       \* the child: notifications sent for a turn (0, started, completed)
    owe,        \* the child: the turn it accepted for a handler, not yet answered
    bad,        \* malformed notifications so far
    sent,       \* handlers whose request is in the child's hands
    orphan,     \* processes that hold a turn/start whose caller has left
    spawned,    \* processes started
    cur,        \* Client.process, None when nil
    dead,       \* processes whose peer has failed
    unwatched,  \* processes whose watchProcess has not yet enqueued their death
    line,       \* what each process wrote and readLoop has not read
    q,          \* Client.notifications
    tracked,    \* Client.activeTurns of the thread
    finished,   \* Client.finishedTurns of the thread
    ev,         \* the event the dispatcher is delivering, and how far it is
    thread,     \* rs.thread is set, its link written and bound
    active,     \* rs.active
    terminal,   \* rs.terminal
    steering,   \* rs.steering
    mutating,   \* rs.mutating
    ambiguous,  \* rs.ambiguous
    touched,    \* rs.revision has moved since the last refresh read it
    mstate,     \* ls.state: "rest" stands for the states that are not active
    told,       \* history: turns the session has reported completed
    asks,       \* requests so far
    pc, op,     \* where a handler is, and what it was asked
    arg, hp,    \* the turn it acts on, the process it called
    got         \* the response: a turn or None, and the items of a snapshot

child == <<up, on, said, owe, bad, sent, orphan>>
process == <<spawned, cur, dead, unwatched, line>>
turnMu == <<tracked, finished>>
rs == <<thread, active, terminal, steering, mutating, ambiguous, touched>>
handler == <<asks, pc, op, arg, hp, got>>
vars == <<child, process, q, turnMu, ev, rs, told, mstate, handler>>

NoTrack == [t |-> None, p |-> None]
NoEvent == [k |-> "none", t |-> None, at |-> "none"]
NoReply == [ok |-> FALSE, t |-> None]

TypeOK ==
    /\ up \in [Turns -> {"none", "running", "over"}] /\ on \in [Turns -> Procs \cup {None}]
    /\ said \in [Turns -> 0..2]
    /\ owe \in [Handlers -> Turns \cup {None}] /\ bad \in 0..MaxBad
    /\ sent \subseteq Handlers /\ orphan \subseteq Procs
    /\ spawned \in 0..MaxProcs /\ cur \in 0..spawned /\ dead \subseteq 1..spawned
    /\ unwatched \subseteq Procs /\ Len(q) <= QueueCap
    /\ tracked \in [t : Turns \cup {None}, p : Procs \cup {None}] /\ finished \in Turns \cup {None}
    /\ {active, terminal} \subseteq Turns \cup {None}
    /\ {thread, steering, mutating, ambiguous, touched} \subseteq BOOLEAN
    /\ mstate \in {"rest", "Streaming", "Steering"}
    /\ pc \in [Handlers -> {"idle", "thread", "call", "wait", "answered", "settle", "mirror"}]

Init ==
    /\ up = [t \in Turns |-> "none"] /\ on = [t \in Turns |-> None]
    /\ said = [t \in Turns |-> 0] /\ bad = 0
    /\ owe = [h \in Handlers |-> None] /\ sent = {} /\ orphan = {}
    /\ spawned = 0 /\ cur = None /\ dead = {} /\ unwatched = {}
    /\ line = [p \in Procs |-> <<>>] /\ q = <<>>
    /\ tracked = NoTrack /\ finished = None /\ ev = NoEvent
    /\ thread = FALSE /\ active = None /\ terminal = None
    /\ steering = FALSE /\ mutating = FALSE /\ ambiguous = FALSE /\ touched = FALSE
    /\ mstate = "rest" /\ told = {}
    /\ asks = 0 /\ pc = [h \in Handlers |-> "idle"] /\ op = [h \in Handlers |-> "none"]
    /\ arg = [h \in Handlers |-> None] /\ hp = [h \in Handlers |-> None]
    /\ got = [h \in Handlers |-> NoReply]

-----------------------------------------------------------------------------
(* The requests: each begins under rs.mu and marks the session mutating.   *)

Goes(h, what, stage) ==
    /\ pc[h] = "idle" /\ what \in Ops /\ ~mutating /\ asks < MaxAsks /\ asks' = asks + 1
    /\ pc' = [pc EXCEPT ![h] = stage] /\ op' = [op EXCEPT ![h] = what]
    /\ UNCHANGED <<hp, got>>

\* A message from the user: no mutation, no doubt and no turn in its way.
BeginStart(h) ==
    /\ ~ambiguous /\ active = None
    /\ Goes(h, "start", IF thread THEN "call" ELSE "thread")
    /\ mutating' = TRUE /\ terminal' = None
    /\ UNCHANGED <<child, process, q, turnMu, ev, thread, active, steering, ambiguous,
                   touched, told, mstate, arg>>

\* The text that follows a steering interrupt.
BeginSteer(h) ==
    /\ ~ambiguous /\ steering /\ active # None
    /\ Goes(h, "steer", "call") /\ arg' = [arg EXCEPT ![h] = active]
    /\ mutating' = TRUE
    /\ UNCHANGED <<child, process, q, turnMu, ev, thread, active, terminal, steering,
                   ambiguous, touched, told, mstate>>

\* turn.interrupt: steering only marks the session, here and then in the mirror;
\* cancelling is a call.
BeginInterrupt(h) ==
    /\ active # None /\ arg' = [arg EXCEPT ![h] = active]
    /\ \/ Goes(h, "mark", "mirror") /\ steering' = TRUE /\ UNCHANGED mutating
       \/ Goes(h, "cancel", "call") /\ mutating' = TRUE /\ UNCHANGED steering
    /\ UNCHANGED <<child, process, q, turnMu, ev, thread, active, terminal, ambiguous,
                   touched, told, mstate>>

\* session.resume re-reads the thread and remembers the revision it started from.
BeginRefresh(h) ==
    /\ thread /\ Goes(h, "refresh", "call")
    /\ mutating' = TRUE /\ touched' = FALSE
    /\ UNCHANGED <<child, process, q, turnMu, ev, thread, active, terminal, steering,
                   ambiguous, told, mstate, arg>>

\* session.fork at the newest projected entry (there is one once a turn has ended).
BeginFork(h) ==
    /\ thread /\ ~ambiguous /\ active = None /\ told # {}
    /\ Goes(h, "fork", "call") /\ mutating' = TRUE
    /\ UNCHANGED <<child, process, q, turnMu, ev, thread, active, terminal, steering,
                   ambiguous, touched, told, mstate, arg>>

\* finishRuntimeMutation, and the end of the start and steer sections: an error of
\* a call that changes the thread and may have reached the child is ambiguous.
Finish(h, unknown) ==
    /\ mutating' = FALSE /\ ambiguous' = (ambiguous \/ unknown)
    /\ steering' = (steering /\ op[h] # "steer")
    /\ UNCHANGED <<thread, active, terminal, touched>>

\* The handler is free again.
Done(h) ==
    /\ pc' = [pc EXCEPT ![h] = "idle"] /\ op' = [op EXCEPT ![h] = "none"]
    /\ arg' = [arg EXCEPT ![h] = None] /\ hp' = [hp EXCEPT ![h] = None]
    /\ got' = [got EXCEPT ![h] = NoReply] /\ UNCHANGED asks

Mutation(h) == op[h] \in {"start", "steer", "fork"}

\* Client.Start: the process is kept while its peer is alive, replaced otherwise.
Started ==
    IF cur # None /\ cur \notin dead
    THEN UNCHANGED <<spawned, cur, unwatched>>
    ELSE /\ spawned < MaxProcs /\ spawned' = spawned + 1 /\ cur' = spawned + 1
         /\ unwatched' = unwatched \cup {spawned + 1}

\* thread/start, the runtime link and the binding, or one of them failing.
StartThread(h) ==
    /\ pc[h] = "thread"
    /\ \/ /\ Started /\ thread' = TRUE /\ pc' = [pc EXCEPT ![h] = "call"]
          /\ UNCHANGED <<dead, line, active, terminal, steering, mutating, ambiguous, touched,
                         asks, op, arg, hp, got>>
       \/ (\E unknown \in BOOLEAN : Finish(h, unknown)) /\ Done(h) /\ UNCHANGED process
    /\ UNCHANGED <<child, q, turnMu, ev, told, mstate>>

\* Start, then the request is written: it is in the child's hands, or it was not
\* sent (the process could not start, or was gone again).
Call(h) ==
    /\ pc[h] = "call"
    /\ \/ /\ Started /\ pc' = [pc EXCEPT ![h] = "wait"] /\ hp' = [hp EXCEPT ![h] = cur']
          /\ sent' = sent \cup {h} /\ UNCHANGED <<dead, line, rs, asks, op, arg, got>>
       \/ Finish(h, FALSE) /\ Done(h) /\ UNCHANGED <<process, sent>>
    /\ UNCHANGED <<up, on, said, owe, bad, orphan, q, turnMu, ev, told, mstate>>

\* A response whose id is no longer in peer.pending.
Unawaited == [k |-> "unawaited"]

\* The process died under the call, or the caller left: a mutation is ambiguous.  The
\* child may still act on a request nobody waits for; its answer is dropped.
Lost(h) ==
    /\ pc[h] = "wait" /\ Finish(h, Mutation(h)) /\ Done(h)
    /\ sent' = sent \ {h} /\ owe' = [owe EXCEPT ![h] = None]
    /\ orphan' = IF hp[h] \notin dead /\ h \in sent /\ op[h] = "start" /\ owe[h] = None
                 THEN orphan \cup {hp[h]} ELSE orphan
    /\ line' = [line EXCEPT ![hp[h]] =
                   [i \in DOMAIN @ |-> IF @[i].k = "reply" /\ @[i].h = h THEN Unawaited ELSE @[i]]]
    /\ UNCHANGED <<up, on, said, bad, spawned, cur, dead, unwatched, q, turnMu, ev, told, mstate>>

\* trackTurn: a turn that has not finished is tracked; one tracked for a process that
\* is already dead enqueues the death once more.
TrackTurn(t, p) ==
    IF t = None \/ finished = t
    THEN UNCHANGED <<turnMu, q>>
    ELSE /\ tracked' = [t |-> t, p |-> p] /\ UNCHANGED finished
         /\ IF p \in dead
            THEN Len(q) < QueueCap /\ q' = Append(q, [k |-> "dead", t |-> None, p |-> p])
            ELSE UNCHANGED q

\* The end of StartTurn and of ReadThread: the turn they return is tracked.
Track(h) ==
    /\ pc[h] = "answered" /\ pc' = [pc EXCEPT ![h] = "settle"]
    /\ IF op[h] \in {"start", "refresh"} /\ got[h].ok
       THEN TrackTurn(got[h].t, hp[h]) ELSE UNCHANGED <<turnMu, q>>
    /\ UNCHANGED <<child, process, ev, rs, told, mstate, asks, op, arg, hp, got>>

\* Mutant: a turn that ended before its response is taken for a running one.
SettleStart_NoTerminal(h) ==
    /\ op[h] = "start" /\ got[h].ok
    /\ steering' = FALSE /\ mutating' = FALSE
    /\ active' = got[h].t /\ pc' = [pc EXCEPT ![h] = "mirror"]
    /\ UNCHANGED <<thread, terminal, ambiguous, touched, asks, op, arg, hp, got>>

\* startRuntimeTurn's section after the response: the turn may be over already.
SettleStart(h) ==
    /\ op[h] = "start" /\ got[h].ok
    /\ steering' = FALSE /\ mutating' = FALSE
    /\ IF terminal = got[h].t
       THEN active' = None /\ Done(h)
       ELSE /\ active' = got[h].t /\ pc' = [pc EXCEPT ![h] = "mirror"]
            /\ UNCHANGED <<asks, op, arg, hp, got>>
    /\ UNCHANGED <<thread, terminal, ambiguous, touched>>

\* refreshRuntimeSession's: the snapshot is taken only if no event came since.
SettleRefresh(h) ==
    /\ op[h] = "refresh" /\ got[h].ok
    /\ mutating' = FALSE /\ ambiguous' = FALSE
    /\ IF touched
       THEN UNCHANGED <<active, terminal>>
       ELSE active' = got[h].t /\ terminal' = None
    /\ got' = [got EXCEPT ![h].ok = ~touched]
    /\ pc' = [pc EXCEPT ![h] = "mirror"] /\ touched' = FALSE
    /\ UNCHANGED <<thread, steering, asks, op, arg, hp>>

\* The other calls, and a request the child rejected.
SettleOther(h) ==
    /\ op[h] \notin {"start", "refresh"} \/ ~got[h].ok
    /\ Finish(h, FALSE) /\ Done(h)

Settle(h) ==
    /\ pc[h] = "settle"
    /\ SettleStart(h) \/ SettleRefresh(h) \/ SettleOther(h)
    /\ UNCHANGED <<child, process, q, turnMu, ev, told, mstate>>

\* What the handler then writes in the mirror, under obsMu.
Mirror(h) ==
    /\ pc[h] = "mirror" /\ Done(h)
    /\ mstate' = CASE op[h] = "mark" -> "Steering"
                   [] op[h] = "start" -> "Streaming"
                   [] op[h] = "refresh" /\ got[h].ok ->
                        IF got[h].t = None THEN "rest" ELSE "Streaming"
                   [] OTHER -> mstate
    /\ UNCHANGED <<child, process, q, turnMu, ev, rs, told>>

-----------------------------------------------------------------------------
(* The child, and the reader of its output.                                *)

Write(p, m) == Len(line[p]) < PipeCap /\ line' = [line EXCEPT ![p] = Append(@, m)]
Note(k, t, p) == [k |-> k, t |-> t, p |-> p]
Reply(h, r) == [k |-> "reply", h |-> h, r |-> r]
Running == {t \in Turns : up[t] = "running"}

\* turn/start taken by process p: the next turn begins.
Accept(p, t) ==
    /\ Running = {} /\ up[t] = "none" /\ \A s \in Turns : s < t => up[s] # "none"
    /\ up' = [up EXCEPT ![t] = "running"] /\ on' = [on EXCEPT ![t] = p]

\* The child rejects a request, begins the turn it is asked for, acknowledges (an interrupt
\* too: the turn is over when its turn/completed says so) or says what runs.
Reject(h) ==
    /\ Write(hp[h], Reply(h, NoReply)) /\ sent' = sent \ {h}
    /\ UNCHANGED <<up, on, owe>>
BeginTurn(h) ==
    /\ op[h] = "start"
    /\ \E t \in Turns : Accept(hp[h], t) /\ owe' = [owe EXCEPT ![h] = t]
    /\ UNCHANGED <<line, sent>>
Acknowledge(h) ==
    /\ op[h] \in {"steer", "cancel"} /\ arg[h] \in Running
    /\ Write(hp[h], Reply(h, [ok |-> TRUE, t |-> None])) /\ sent' = sent \ {h}
    /\ UNCHANGED <<up, on, owe>>
Snapshot(h) ==
    /\ op[h] \in {"refresh", "fork"}
    /\ \E t \in IF Running = {} THEN {None} ELSE Running :
         Write(hp[h], Reply(h, [ok |-> TRUE, t |-> t]))
    /\ sent' = sent \ {h} /\ UNCHANGED <<up, on, owe>>

\* It takes its requests in order.
Handle(h) ==
    /\ h \in sent /\ hp[h] \notin dead \cup orphan /\ owe[h] = None
    /\ Reject(h) \/ BeginTurn(h) \/ Acknowledge(h) \/ Snapshot(h)
    /\ UNCHANGED <<said, bad, orphan, spawned, cur, dead, unwatched, q, turnMu, ev, rs, told,
                   mstate, handler>>

HandleOrphan(p) ==
    /\ p \in orphan /\ orphan' = orphan \ {p}
    /\ (\E t \in Turns : Accept(p, t)) \/ UNCHANGED <<up, on>>
    /\ UNCHANGED <<said, owe, bad, sent, process, q, turnMu, ev, rs, told, mstate, handler>>

\* It answers turn/start before or after what it says of the turn.
Respond(h) ==
    /\ owe[h] # None /\ hp[h] \notin dead
    /\ Write(hp[h], Reply(h, [ok |-> TRUE, t |-> owe[h]]))
    /\ owe' = [owe EXCEPT ![h] = None] /\ sent' = sent \ {h}
    /\ UNCHANGED <<up, on, said, bad, orphan, spawned, cur, dead, unwatched, q, turnMu, ev, rs,
                   told, mstate, handler>>

\* Its notifications: turn/started, turn/completed, or one that does not parse.
SayStarted(t) ==
    /\ said[t] = 0 /\ Write(on[t], Note("started", t, on[t]))
    /\ said' = [said EXCEPT ![t] = 1] /\ UNCHANGED <<up, bad>>
SayCompleted(t) ==
    /\ said[t] = 1 /\ Write(on[t], Note("completed", t, on[t]))
    /\ said' = [said EXCEPT ![t] = 2] /\ up' = [up EXCEPT ![t] = "over"]
    /\ UNCHANGED bad
SayBad(t) ==
    /\ bad < MaxBad /\ Write(on[t], Note("bad", t, on[t]))
    /\ bad' = bad + 1 /\ UNCHANGED <<up, said>>
Say(t) ==
    /\ up[t] # "none" /\ on[t] \notin dead
    /\ SayStarted(t) \/ SayCompleted(t) \/ SayBad(t)
    /\ UNCHANGED <<on, owe, sent, orphan, spawned, cur, dead, unwatched, q, turnMu, ev, rs, told,
                   mstate, handler>>

\* readLoop: a response goes to the call that still waits for it, the rest is queued.
Read(p) ==
    /\ line[p] # <<>> /\ line' = [line EXCEPT ![p] = Tail(@)]
    /\ LET m == Head(line[p]) IN
         CASE m.k = "reply" /\ p \notin dead ->
                /\ pc' = [pc EXCEPT ![m.h] = "answered"] /\ got' = [got EXCEPT ![m.h] = m.r]
                /\ UNCHANGED q
           [] m.k = "unawaited" \/ (m.k = "reply" /\ p \in dead) -> UNCHANGED <<pc, got, q>>
           [] OTHER -> Len(q) < QueueCap /\ q' = Append(q, m) /\ UNCHANGED <<pc, got>>
    /\ UNCHANGED <<child, spawned, cur, dead, unwatched, turnMu, ev, rs, told, mstate,
                   asks, op, arg, hp>>

\* The peer of a process fails: it exited, wrote garbage, or a login aborted it.
\* What the reader had not buffered is lost, and what it ran is interrupted.
Die(p) ==
    /\ p \in 1..spawned \ dead /\ dead' = dead \cup {p}
    /\ cur' \in IF p = cur THEN {cur, None} ELSE {cur}
    /\ up' = [t \in Turns |-> IF on[t] = p /\ up[t] = "running" THEN "over" ELSE up[t]]
    /\ owe' = [h \in Handlers |-> IF hp[h] = p THEN None ELSE owe[h]]
    /\ \E n \in 0..Len(line[p]) : line' = [line EXCEPT ![p] = SubSeq(@, 1, n)]
    /\ orphan' = orphan \ {p}
    /\ UNCHANGED <<on, said, bad, sent, spawned, unwatched, q, turnMu, ev, rs, told,
                   mstate, handler>>

\* watchProcess.
Watch(p) ==
    /\ p \in unwatched \cap dead /\ Len(q) < QueueCap
    /\ q' = Append(q, Note("dead", None, p)) /\ unwatched' = unwatched \ {p}
    /\ UNCHANGED <<child, spawned, cur, dead, line, turnMu, ev, rs, told, mstate, handler>>

-----------------------------------------------------------------------------
(* The dispatcher.                                                         *)

\* failProcessTurns and failMalformedNotification: the tracked turn is over.
FailTracked(p) ==
    IF tracked.t # None /\ tracked.p = p
    THEN /\ tracked' = NoTrack /\ finished' = tracked.t
         /\ ev' = [k |-> "failed", t |-> tracked.t, at |-> "apply"]
    ELSE UNCHANGED <<turnMu, ev>>

\* observeTurnEvent: a start is refused once the turn finished, a completion unless
\* the turn is tracked.
Observe(n) ==
    CASE n.k = "started" /\ finished # n.t ->
           /\ IF tracked.t \in {None, n.t}
              THEN finished' = None /\ tracked' = [t |-> n.t, p |-> n.p]
              ELSE UNCHANGED turnMu
           /\ ev' = [k |-> n.k, t |-> n.t, at |-> "apply"]
      [] n.k = "completed" /\ tracked.t = n.t ->
           /\ tracked' = NoTrack /\ finished' = n.t
           /\ ev' = [k |-> n.k, t |-> n.t, at |-> "apply"]
      [] OTHER -> UNCHANGED <<turnMu, ev>>

\* dispatchNotifications and handleNotification: a death fails its process's turn; a
\* notification of a process that is no longer the client's is dropped.
Dispatch ==
    /\ q # <<>> /\ ev = NoEvent /\ q' = Tail(q)
    /\ LET n == Head(q) IN
         CASE n.k = "dead" -> FailTracked(n.p)
           [] n.k # "dead" /\ n.p # cur -> UNCHANGED <<turnMu, ev>>
           [] n.k = "bad" /\ n.p = cur -> FailTracked(n.p)
           [] OTHER -> Observe(n)
    /\ UNCHANGED <<child, process, rs, told, mstate, handler>>

Over(k) == k \in {"completed", "failed"}

\* runtimeEvent's section under rs.mu: an event of another turn is ignored.
Apply ==
    /\ ev.at = "apply"
    /\ LET hit == IF ev.k = "started" THEN active \in {None, ev.t} ELSE active = ev.t IN
         /\ touched' = (touched \/ (thread /\ \E h \in Handlers : op[h] = "refresh"))
         /\ IF thread /\ hit
            THEN /\ ev' = [ev EXCEPT !.at = "mirror"]
                 /\ active' = IF Over(ev.k) THEN None ELSE ev.t
                 /\ terminal' = IF Over(ev.k) THEN ev.t ELSE terminal
                 /\ steering' = FALSE
                 /\ ambiguous' = (ambiguous \/ ev.k = "failed")
                 /\ told' = IF ev.k = "completed" THEN told \cup {ev.t} ELSE told
            ELSE ev' = NoEvent /\ UNCHANGED <<active, terminal, steering, ambiguous, told>>
    /\ UNCHANGED <<child, process, q, turnMu, thread, mutating, mstate, handler>>

\* What it then publishes, under obsMu.
Publish ==
    /\ ev.at = "mirror" /\ ev' = NoEvent
    /\ mstate' = IF Over(ev.k) THEN "rest" ELSE "Streaming"
    /\ UNCHANGED <<child, process, q, turnMu, rs, told, handler>>

-----------------------------------------------------------------------------
Request(h) ==
    BeginStart(h) \/ BeginSteer(h) \/ BeginInterrupt(h) \/ BeginRefresh(h) \/ BeginFork(h)
Serve(h) == StartThread(h) \/ Call(h) \/ Lost(h) \/ Track(h) \/ Settle(h) \/ Mirror(h)

Next ==
    \/ \E h \in Handlers : Request(h) \/ Serve(h) \/ Handle(h) \/ Respond(h)
    \/ \E t \in Turns : Say(t)
    \/ \E p \in Procs : Read(p) \/ Die(p) \/ Watch(p) \/ HandleOrphan(p)
    \/ Dispatch \/ Apply \/ Publish

\* Goroutines that can run do; the child answers what it is asked.  Nothing makes a
\* client ask, a caller leave or a process die.
Fair ==
    /\ \A h \in Handlers : WF_vars(Serve(h)) /\ WF_vars(Handle(h) \/ Respond(h))
    /\ \A p \in Procs : WF_vars(Read(p)) /\ WF_vars(Watch(p))
    /\ WF_vars(Dispatch \/ Apply \/ Publish)

Spec == Init /\ [][Next]_vars /\ Fair

-----------------------------------------------------------------------------
(* What is checked.                                                        *)

L == INSTANCE TurnLifecycle WITH
        NoTurn <- None, status <- up, current <- active, unsure <- ambiguous

\* startRuntimeTurn, refreshRuntimeSession and runtimeEvent between them keep what
\* TurnLifecycle promises of rs.active, whatever the order in which responses,
\* notifications, deaths of the process and leaving callers reach them: the session
\* takes up only turns that began, lets its turn go only when the runtime ended it or
\* with ambiguous set, and never takes up a turn it has reported completed.
Lifecycle == L!Spec

\* ADR 0046: "On process loss, emit runtime_failed for each active turn.  Mark each
\* affected Rudy session terminal but ambiguous".  Once the death of a process has been
\* dispatched and nothing is in flight, no active turn is one that process ran.
FailedWithItsProcess ==
    (/\ q = <<>> /\ ev = NoEvent /\ unwatched \cap dead = {}
     /\ \A h \in Handlers : pc[h] = "idle" /\ \A p \in Procs : line[p] = <<>>)
    => active = None \/ on[active] \notin dead
=============================================================================
