----------------------------- MODULE RuntimeLogin -----------------------------
(***************************************************************************)
(* Signing in to Codex (internal/server/runtime_login.go over              *)
(* internal/provider/codexapp/account.go, liveness.go and Client.Start).   *)
(* A connection's handler and the dispatcher both start logins, complete   *)
(* them and fall back from the browser to a device code, and these call    *)
(* each other, so every goroutine has a stack of frames: "login"           *)
(* (startRuntimeLogin), "begin" (StartLogin), "proc" (Client.Start), "done"*)
(* (LoginCompleted) and "finish" (finishLogin).  loginMu guards the        *)
(* adapter's tables, s.mu the server's; a login's response, its completion *)
(* and the death of its process reach them in any order.                   *)
(*                                                                         *)
(* The child's login id and the public one are taken as the same: both are *)
(* new for every login.  An attempt is one run of the login command; a     *)
(* device login that a browser login fell back to belongs to its attempt.  *)
(***************************************************************************)
EXTENDS Naturals, Sequences, FiniteSets

CONSTANTS
    Owners,     \* connections
    MaxTries,   \* bound: login commands a connection runs
    MaxLogins,  \* bound: logins the child starts
    MaxProcs    \* bound: processes

Logins == 1..MaxLogins
Procs == 1..MaxProcs
Dispatcher == "dispatcher"
Actors == Owners \cup {Dispatcher}
None == 0
Nobody == "nobody"

VARIABLES
    cur, dead, spawned,  \* Client.process, failed processes, processes started
    unwatched,           \* processes whose death is still to be enqueued
    cmu,                 \* the actor inside Client.Start
    begun,               \* the child: its logins, with process, mode and attempt
    running,             \* the child: logins neither completed nor cancelled
    token,               \* Client.loginStart: the actor that holds it
    q,                   \* Client.notifications
    bound,               \* Client.activeLogins
    ids,                 \* Client.loginIDs
    procOf,              \* Client.loginProcesses
    early,               \* Client.earlyLogins: how a login ended before its response
    closed,              \* Client.finishedLogins
    attempts,            \* s.loginAttempts
    pending,             \* s.pendingLogins
    finished,            \* s.finishedLogins
    online,              \* connections that are running
    cancels,             \* logins some goroutine is cancelling, again and again
    stack,               \* the frames of each goroutine, the innermost first
    tries,               \* attempts of each owner
    told,                \* history: completions told, by attempt
    over                 \* history: attempts whose command failed or was given up

client == <<cur, dead, spawned, unwatched, cmu>>
child == <<begun, running>>
loginMu == <<bound, ids, procOf, early, closed>>
smu == <<attempts, pending, finished, online>>
history == <<tries, told, over>>
vars == <<client, child, token, q, loginMu, smu, cancels, stack, history>>

NoLogin == [p |-> None, m |-> "none", a |-> <<Nobody, None>>]
Attempts == Owners \X (1..MaxTries)

Init ==
    /\ cur = None /\ dead = {} /\ spawned = 0 /\ unwatched = {} /\ cmu = Nobody
    /\ begun = [n \in Logins |-> NoLogin] /\ running = {} /\ token = Nobody /\ q = <<>>
    /\ bound = {} /\ ids = {} /\ procOf = {} /\ early = {} /\ closed = {}
    /\ attempts = {} /\ pending = {} /\ finished = {} /\ online = Owners
    /\ cancels = {} /\ stack = [x \in Actors |-> <<>>]
    /\ tries = [o \in Owners |-> 0] /\ told = [a \in Attempts |-> 0] /\ over = {}

-----------------------------------------------------------------------------
(* Frames: what runs, how far it is, its login, how that ended, the mode   *)
(* and the attempt it serves; "done" has a set of logins to deliver.       *)

Frame(fn, at, n, m, a) == [fn |-> fn, at |-> at, n |-> n, ok |-> FALSE, m |-> m, a |-> a, ns |-> {}]
Deliver(ns, ok) ==
    [fn |-> "done", at |-> "next", n |-> None, ok |-> ok, m |-> "none", a |-> <<Nobody, None>>, ns |-> ns]
Top(x) == Head(stack[x])
At(x, fn, at) == stack[x] # <<>> /\ Top(x).fn = fn /\ Top(x).at = at
Set(x, s) == stack' = [stack EXCEPT ![x] = s]
Goto(x, at) == Set(x, <<[Top(x) EXCEPT !.at = at]>> \o Tail(stack[x]))
Call(x, at, f) == Set(x, <<f, [Top(x) EXCEPT !.at = at]>> \o Tail(stack[x]))
\* The innermost call returns a login, or None for an error.
Return(x, n) ==
    LET s == Tail(stack[x]) IN
    Set(x, IF s = <<>> \/ Top(x).fn # "begin" THEN s
           ELSE <<[Head(s) EXCEPT !.n = n, !.ok = (n # None)]>> \o Tail(s))

Dead(p) == p = None \/ p \in dead
Owner(n) == begun[n].a[1]

-----------------------------------------------------------------------------
(* Client.Start.  c.mu is held from the first step to the last.            *)

\* A live process is kept.  The logins of a dead one are collected.
Collect(x) ==
    /\ At(x, "proc", "collect") /\ cmu = Nobody
    /\ IF ~Dead(cur)
       THEN Return(x, None) /\ UNCHANGED <<cmu, loginMu>>
       ELSE LET lost == {n \in procOf : begun[n].p = cur /\ cur # None} IN
            /\ cmu' = x /\ bound' = bound \ lost /\ procOf' = procOf \ lost
            /\ closed' = closed \cup (lost \cap bound) /\ UNCHANGED <<ids, early>>
            /\ Set(x, <<[Top(x) EXCEPT !.at = "clear", !.ns = lost \cap bound]>> \o Tail(stack[x]))
    /\ UNCHANGED <<cur, dead, spawned, unwatched, child, token, q, smu, cancels, history>>

\* The new process is up and the tables are emptied, or it could not be started; then
\* c.mu is released and the collected logins are reported failed.
Spawn(x) ==
    /\ At(x, "proc", "clear") /\ cmu' = Nobody
    /\ \/ /\ spawned < MaxProcs /\ spawned' = spawned + 1 /\ cur' = spawned + 1
          /\ unwatched' = unwatched \cup {spawned + 1}
          /\ bound' = {} /\ procOf' = {} /\ early' = {} /\ closed' = {}
       \/ UNCHANGED <<cur, spawned, unwatched, bound, procOf, early, closed>>
    /\ Set(x, <<Deliver(Top(x).ns, FALSE)>> \o Tail(stack[x]))
    /\ UNCHANGED <<dead, child, token, q, ids, smu, cancels, history>>

StartProc(x) == Frame("proc", "collect", None, "none", Top(x).a)

-----------------------------------------------------------------------------
(* StartLogin.                                                             *)

\* One login starts at a time; a caller whose connection is gone stops waiting.
Token(x) ==
    /\ At(x, "begin", "token")
    /\ \/ token = Nobody /\ token' = x /\ Call(x, "call", StartProc(x))
       \/ Top(x).a[1] \notin online /\ Return(x, None) /\ UNCHANGED token
    /\ UNCHANGED <<client, child, q, loginMu, smu, cancels, history>>

\* account/login/start: the child begins a login, or nothing was sent.
LoginStart(x) ==
    /\ At(x, "begin", "call") /\ cmu = Nobody
    /\ \/ /\ ~Dead(cur)
          /\ \E n \in Logins :
               /\ begun[n] = NoLogin /\ \A k \in Logins : k < n => begun[k] # NoLogin
               /\ begun' = [begun EXCEPT ![n] = [p |-> cur, m |-> Top(x).m, a |-> Top(x).a]]
               /\ running' = running \cup {n}
               /\ Set(x, <<[Top(x) EXCEPT !.at = "wait", !.n = n]>> \o Tail(stack[x]))
          /\ UNCHANGED token
       \/ token' = Nobody /\ Return(x, None) /\ UNCHANGED child
    /\ UNCHANGED <<client, q, loginMu, smu, cancels, history>>

\* The response; or none, and then the current process, whichever it is by now, is closed.
LoginReply(x) ==
    /\ At(x, "begin", "wait")
    /\ \/ /\ begun[Top(x).n].p \notin dead /\ Goto(x, "register")
          /\ UNCHANGED <<client, token>>
       \/ /\ begun[Top(x).n].p \in dead \/ Top(x).a[1] \notin online
          /\ cmu = Nobody /\ cur' = None /\ dead' = dead \cup ({cur} \ {None})
          /\ token' = Nobody /\ Return(x, None) /\ UNCHANGED <<spawned, unwatched, cmu>>
    /\ UNCHANGED <<child, q, loginMu, smu, cancels, history>>

\* The login is bound, and the completion that overtook its response delivered; the
\* death of a process that is gone by now is enqueued once more.
Register(x) ==
    /\ At(x, "begin", "register")
    /\ LET n == Top(x).n
           e == {c \in early : c.n = n} IN
       /\ IF e # {}
          THEN /\ early' = early \ e /\ closed' = closed \cup {n}
               /\ ids' = IF \E c \in e : c.ok THEN ids ELSE ids \cup {n}
               /\ Call(x, "out", Deliver({n}, \E c \in e : c.ok))
               /\ UNCHANGED <<bound, procOf, q>>
          ELSE /\ bound' = bound \cup {n} /\ procOf' = procOf \cup {n} /\ ids' = ids \cup {n}
               /\ Goto(x, "out") /\ UNCHANGED <<early, closed>>
               /\ q' = IF begun[n].p \in dead
                       THEN Append(q, [k |-> "dead", n |-> None, ok |-> FALSE, p |-> begun[n].p])
                       ELSE q
    /\ UNCHANGED <<client, child, token, smu, cancels, history>>

BeginOut(x) ==
    /\ At(x, "begin", "out") /\ token' = Nobody /\ Return(x, Top(x).n)
    /\ UNCHANGED <<client, child, q, loginMu, smu, cancels, history>>

-----------------------------------------------------------------------------
(* startRuntimeLogin.                                                      *)

\* What cancelOwnedLogins takes from s.mu's tables.
Disown(o) ==
    LET mine == {n \in attempts : Owner(n) = o} IN
    /\ attempts' = attempts \ mine /\ finished' = finished \cup mine
    /\ pending' = {c \in pending : c.n \notin mine}
    /\ cancels' = cancels \cup mine
    /\ over' = over \cup {begun[n].a : n \in mine}

\* The command: the owner's earlier logins are cancelled first.
Login(o, m) ==
    /\ stack[o] = <<>> /\ o \in online /\ tries[o] < MaxTries
    /\ tries' = [tries EXCEPT ![o] = @ + 1]
    /\ Disown(o)
    /\ Set(o, <<Frame("login", "account", None, m, <<o, tries[o] + 1>>)>>)
    /\ UNCHANGED <<client, child, token, q, loginMu, online, told>>

\* It fails when a cancellation does (that goes on in the background) or the account
\* cannot be read; a connection that is signed in already needs no login.
GiveUp(x) ==
    /\ At(x, "login", "account") \/ At(x, "login", "start")
    /\ over' = over \cup {Top(x).a} /\ Return(x, None)
    /\ UNCHANGED <<client, child, token, q, loginMu, smu, cancels, tries, told>>

Account(x) ==
    /\ At(x, "login", "account") /\ \A n \in cancels : Owner(n) # Top(x).a[1]
    /\ Call(x, "start", StartProc(x))
    /\ UNCHANGED <<client, child, token, q, loginMu, smu, cancels, history>>

Start(x) ==
    /\ At(x, "login", "start")
    /\ Call(x, "bind", Frame("begin", "token", None, Top(x).m, Top(x).a))
    /\ UNCHANGED <<client, child, token, q, loginMu, smu, cancels, history>>

\* bindLogin: the owner may be gone; a completion that overtook it is finished at once.
Bind(x) ==
    /\ At(x, "login", "bind") \/ At(x, "finish", "bind")
    /\ LET f == Top(x)
           p == {c \in pending : c.n = f.n} IN
       \/ /\ f.n = None                      \* StartLogin failed
          /\ IF f.fn = "login" THEN Return(x, None) /\ over' = over \cup {f.a}
                               ELSE Goto(x, "tell") /\ UNCHANGED over
          /\ UNCHANGED <<attempts, pending, cancels>>
       \/ /\ f.n # None /\ f.a[1] \notin online
          /\ cancels' = cancels \cup {f.n} /\ Return(x, None)
          /\ over' = over \cup {f.a} /\ UNCHANGED <<attempts, pending>>
       \/ /\ f.n # None /\ f.a[1] \in online
          /\ attempts' = attempts \cup {f.n} /\ pending' = pending \ p
          /\ IF p = {} THEN Return(x, None)
             ELSE Set(x, <<[Frame("finish", "claim", f.n, f.m, f.a) EXCEPT
                              !.ok = \E c \in p : c.ok]>> \o Tail(stack[x]))
          /\ UNCHANGED <<cancels, over>>
    /\ UNCHANGED <<client, child, token, q, loginMu, finished, online, tries, told>>

-----------------------------------------------------------------------------
(* LoginCompleted and finishLogin.                                         *)

\* The next login of a delivery: forgotten if finished, kept if not yet bound.
Completed(x) ==
    /\ At(x, "done", "next")
    /\ LET f == Top(x) IN
       \/ f.ns = {} /\ Return(x, None) /\ UNCHANGED pending
       \/ \E n \in f.ns :
            LET rest == [f EXCEPT !.ns = @ \ {n}] IN
            IF n \in attempts /\ n \notin finished
            THEN /\ Set(x, <<[Frame("finish", "claim", n, begun[n].m, begun[n].a) EXCEPT !.ok = f.ok],
                             rest>> \o Tail(stack[x]))
                 /\ UNCHANGED pending
            ELSE /\ Set(x, <<rest>> \o Tail(stack[x]))
                 /\ pending' = IF n \in finished THEN pending
                               ELSE pending \cup {[n |-> n, ok |-> f.ok]}
    /\ UNCHANGED <<client, child, token, q, loginMu, attempts, finished, online, cancels, history>>

\* finishLogin takes the attempt, or finds it cancelled.  A success reads the account.
Claim(x) ==
    /\ At(x, "finish", "claim")
    /\ LET n == Top(x).n IN
       IF n \notin attempts THEN Return(x, None) /\ UNCHANGED <<attempts, finished>>
       ELSE /\ attempts' = attempts \ {n} /\ finished' = finished \cup {n}
            /\ IF Top(x).ok THEN Call(x, "read", StartProc(x)) ELSE Goto(x, "failed")
    /\ UNCHANGED <<client, child, token, q, loginMu, pending, online, cancels, history>>

ReadAccount(x) ==
    /\ At(x, "finish", "read") /\ (Goto(x, "tell") \/ Goto(x, "failed"))
    /\ UNCHANGED <<client, child, token, q, loginMu, smu, cancels, history>>

\* CancelLogin's end: the child and the adapter forget the login.
Forget(n) ==
    /\ running' = running \ {n} /\ bound' = bound \ {n} /\ procOf' = procOf \ {n} /\ ids' = ids \ {n}
    /\ early' = {c \in early : c.n # n} /\ closed' = closed \cup {n}

\* Mutant: the failure of the browser login is reported before the fallback is tried.
FallBack_Reports(x) ==
    /\ At(x, "finish", "failed")
    /\ \/ /\ Top(x).m = "browser" /\ Top(x).n \in ids /\ Forget(Top(x).n)
          /\ Call(x, "bind", Frame("begin", "token", None, "device", Top(x).a))
          /\ told' = [told EXCEPT ![Top(x).a] = @ + 1] /\ UNCHANGED <<begun, cancels>>
       \/ /\ Top(x).m = "browser" /\ cancels' = cancels \cup {Top(x).n}
          /\ Goto(x, "tell") /\ UNCHANGED <<child, loginMu, told>>
       \/ /\ Top(x).m = "device" /\ Goto(x, "tell")
          /\ UNCHANGED <<child, loginMu, cancels, told>>
    /\ UNCHANGED <<client, token, q, smu, tries, over>>

\* A failed browser login is cancelled and a device login started in its place.
FallBack(x) ==
    /\ At(x, "finish", "failed")
    /\ \/ /\ Top(x).m = "browser" /\ Top(x).n \in ids /\ Forget(Top(x).n)
          /\ Call(x, "bind", Frame("begin", "token", None, "device", Top(x).a))
          /\ UNCHANGED <<begun, cancels>>
       \/ /\ Top(x).m = "browser" /\ cancels' = cancels \cup {Top(x).n}
          /\ Goto(x, "tell") /\ UNCHANGED <<child, loginMu>>
       \/ /\ Top(x).m = "device" /\ Goto(x, "tell") /\ UNCHANGED <<child, loginMu, cancels>>
    /\ UNCHANGED <<client, token, q, smu, history>>

Tell(x) ==
    /\ At(x, "finish", "tell") /\ Return(x, None)
    /\ told' = [told EXCEPT ![Top(x).a] = @ + 1]
    /\ UNCHANGED <<client, child, token, q, loginMu, smu, cancels, tries, over>>

-----------------------------------------------------------------------------
(* The dispatcher, the child, and what comes from outside.                 *)

Dispatch ==
    /\ stack[Dispatcher] = <<>> /\ q # <<>> /\ cmu = Nobody /\ q' = Tail(q)
    /\ LET c == Head(q) IN
       IF c.k = "dead"
       THEN LET lost == {n \in procOf : begun[n].p = c.p} IN
            /\ bound' = bound \ lost /\ procOf' = procOf \ lost
            /\ closed' = closed \cup (lost \cap bound) /\ UNCHANGED <<ids, early>>
            /\ Set(Dispatcher, <<Deliver(lost \cap bound, FALSE)>>)
       ELSE IF c.p # cur \/ c.n \in closed THEN UNCHANGED <<loginMu, stack>>
       ELSE IF c.n \in bound
       THEN /\ bound' = bound \ {c.n} /\ closed' = closed \cup {c.n}
            /\ procOf' = IF c.ok THEN procOf \ {c.n} ELSE procOf
            /\ ids' = IF c.ok THEN ids \ {c.n} ELSE ids
            /\ Set(Dispatcher, <<Deliver({c.n}, c.ok)>>) /\ UNCHANGED early
       ELSE /\ early' = early \cup {[n |-> c.n, ok |-> c.ok]}
            /\ UNCHANGED <<bound, ids, procOf, closed, stack>>
    /\ UNCHANGED <<client, child, token, smu, cancels, history>>

\* account/login/completed.
Complete(n, ok) ==
    /\ n \in running /\ begun[n].p \notin dead /\ running' = running \ {n}
    /\ q' = Append(q, [k |-> "completed", n |-> n, ok |-> ok, p |-> begun[n].p])
    /\ UNCHANGED <<client, begun, token, loginMu, smu, cancels, stack, history>>

\* A cancellation of the background goes through; it fails as long as the id is unknown.
Cancelled(n) ==
    /\ n \in cancels \cap ids /\ cancels' = cancels \ {n} /\ Forget(n)
    /\ UNCHANGED <<client, begun, token, q, smu, stack, history>>

Die(p) ==
    /\ p \in 1..spawned \ dead /\ dead' = dead \cup {p}
    /\ running' = {n \in running : begun[n].p # p}
    /\ UNCHANGED <<cur, spawned, unwatched, cmu, begun, token, q, loginMu, smu, cancels, stack,
                   history>>

Watch(p) ==
    /\ p \in unwatched \cap dead /\ unwatched' = unwatched \ {p}
    /\ q' = Append(q, [k |-> "dead", n |-> None, ok |-> FALSE, p |-> p])
    /\ UNCHANGED <<cur, dead, spawned, cmu, child, token, loginMu, smu, cancels, stack, history>>

\* The connection closes: cancelConnectionLogins.
Disconnect(o) ==
    /\ o \in online /\ online' = online \ {o} /\ Disown(o)
    /\ UNCHANGED <<client, child, token, q, loginMu, stack, tries, told>>

-----------------------------------------------------------------------------
Step(x) ==
    \/ Collect(x) \/ Spawn(x) \/ Token(x) \/ LoginStart(x) \/ LoginReply(x) \/ Register(x)
    \/ BeginOut(x) \/ GiveUp(x) \/ Account(x) \/ Start(x) \/ Bind(x)
    \/ Completed(x) \/ Claim(x) \/ ReadAccount(x) \/ FallBack(x) \/ Tell(x)

Next ==
    \/ \E x \in Actors : Step(x)
    \/ \E o \in Owners : Disconnect(o) \/ \E m \in {"browser", "device"} : Login(o, m)
    \/ \E n \in Logins : Cancelled(n) \/ \E ok \in BOOLEAN : Complete(n, ok)
    \/ \E p \in Procs : Die(p) \/ Watch(p)
    \/ Dispatch

Spec == Init /\ [][Next]_vars

-----------------------------------------------------------------------------
(* What is checked.                                                        *)

\* The contract of runtime.login.completed is "exactly once for the attempt"; its "at most
\* once" half: a response, a completion, a process's death collected by Client.Start and
\* again by the dispatcher, and a fallback to a device code never tell an attempt twice.
ToldAtMostOnce == \A a \in Attempts : told[a] <= 1

\* Its other half.  When every goroutine is at rest and nothing is queued, an attempt that
\* was neither told nor given up still has a login that the child can complete.
Quiet == \A x \in Actors : stack[x] = <<>> /\ q = <<>> /\ unwatched \cap dead = {}
ToldInTheEnd ==
    Quiet => \A a \in Attempts :
               \/ a[2] > tries[a[1]] \/ told[a] > 0 \/ a \in over
               \/ \E n \in running \cap bound \cap attempts : begun[n].a = a
=============================================================================
