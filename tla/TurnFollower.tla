---------------------------- MODULE TurnFollower ----------------------------
(***************************************************************************)
(* The two clients that submit one message and follow its turn to its rest:*)
(* rudy --print (internal/cli/print.go), on a session whose turn the       *)
(* server's own runner or an agent runtime runs; and the agent tool        *)
(* (internal/plugins/subagents), which a call of that turn invokes and     *)
(* which follows the turn of a child session.  What a child session says is*)
(* forwarded to whoever watches its parent, so --print hears both.         *)
(*                                                                         *)
(* A message is named by the id of its entry; ids grow, and a turn's is    *)
(* that of the message that began it.                                      *)
(***************************************************************************)
EXTENDS Naturals, Sequences

CONSTANTS
    MaxMsgs     \* bound: assistant messages of the turn, and of the child's

VARIABLES
    prompt,     \* what --print was given: a text, or a command and what becomes of it
    kind,       \* who runs the session's turn: the "kernel" or a "runtime"
    par,        \* the session's turn
    kid,        \* the child session and its turn
    call,       \* the agent call of the session's turn
    pr,         \* runPrint and its turnOutput
    pq, aq,     \* the notifications that wait at --print's client and at the agent tool's
    next,       \* the next entry's id
    down        \* the server has closed its connections

turns == <<par, kid, next>>
vars == <<prompt, kind, turns, call, pr, pq, aq, down>>

Stops == {"end_turn", "refusal"}
Rests == {"completed", "failed", "idle"}

\* A notification: of session s, an entry with its id or a state of the turn.
Entry(s, id, what) == [s |-> s, m |-> "entry", id |-> id, what |-> what]
State(s, turn, what) == [s |-> s, m |-> "state", id |-> turn, what |-> what]
Login(mine, ok) == [s |-> "p", m |-> "login", id |-> IF mine THEN 1 ELSE 0, what |-> IF ok THEN "ok" ELSE "no"]

NoTurn == [st |-> "none", turn |-> 0, said |-> <<>>, stop |-> "none", cut |-> "no"]
NoCall == [st |-> "none", ended |-> FALSE, cause |-> FALSE, text |-> 0, failure |-> FALSE, res |-> "none", orphan |-> FALSE]

Init ==
    /\ prompt \in {"text", "notice", "unknown", "login"}
    /\ kind \in {"kernel", "runtime"}
    /\ par = NoTurn /\ kid = NoTurn /\ call = NoCall /\ next = 1
    /\ pr = [st |-> "open", code |-> 0, text |-> <<>>, stop |-> "none", state |-> "none"]
    /\ pq = <<>> /\ aq = <<>> /\ down = FALSE

-----------------------------------------------------------------------------
(* The session's turn, as its subscribers and watchers are told of it      *)

\* fanout: the session tells its subscribers, and a child then its parent's.
Tell(n) == pq' = Append(pq, n) /\ UNCHANGED aq
Hears(n) == aq' = IF call.st \in {"submit", "wait", "grace"} THEN Append(aq, n) ELSE aq

Up == ~down /\ UNCHANGED <<prompt, kind, pr, down>>

\* An assistant message of the turn, with which it calls the agent tool or stops.
Message(what) ==
    /\ Up /\ par.st = "streams" /\ par.cut = "no" /\ Len(par.said) < MaxMsgs
    /\ what = "tool_use" => kind = "kernel" /\ call.st = "none"
    /\ kind = "runtime" => what = "end_turn"
    /\ next' = next + 1
    /\ Tell(Entry("p", next, what))
    /\ par' = [par EXCEPT !.said = Append(@, next), !.stop = what,
                          !.st = CASE what = "tool_use" -> "calls"
                                   [] kind = "kernel" /\ what # "tool_use" -> "completes"
                                   [] kind = "runtime" -> "streams"]
    /\ call' = IF what = "tool_use" THEN [call EXCEPT !.st = "open"] ELSE call
    /\ UNCHANGED kid

\* publishRuntimeEntry: an entry of a runtime's turn is published again when it is refreshed.
Again ==
    /\ Up /\ kind = "runtime" /\ par.said # <<>> /\ par.st \notin Rests /\ Len(pq) < MaxMsgs
    /\ \E i \in DOMAIN par.said : Tell(Entry("p", par.said[i], "end_turn"))
    /\ UNCHANGED <<turns, call>>

\* The call's result, after which the model is asked again unless the turn was cut.
Answered ==
    /\ Up /\ par.st = "calls" /\ call.st = "done"
    /\ par' = [par EXCEPT !.st = CASE par.cut = "no" -> "streams"
                                   [] par.cut = "steer" -> "parked"
                                   [] par.cut = "cancel" -> "idles"]
    /\ UNCHANGED <<kid, next, call, pq, aq>>

\* Somebody interrupts the turn: the call's context ends.
Interrupt(how) ==
    /\ Up /\ par.st \in {"streams", "calls"} /\ par.cut # "cancel" /\ how # par.cut
    /\ how = "steer" => kind = "kernel"
    /\ par' = [par EXCEPT !.cut = how]
    /\ call' = [call EXCEPT !.ended = par.st = "calls"]
    /\ UNCHANGED <<kid, next, pq, aq>>

\* A stream that was cut: what there was of a message, and the turn parks or ends.
Cut ==
    /\ Up /\ par.st = "streams" /\ par.cut # "no"
    /\ par' = [par EXCEPT !.st = IF par.cut = "steer" THEN "parked" ELSE "idles",
                          !.said = IF kind = "kernel" THEN Append(@, next) ELSE @,
                          !.stop = IF kind = "kernel" THEN "interrupted" ELSE @]
    /\ IF kind = "kernel" THEN Tell(Entry("p", next, "interrupted")) ELSE UNCHANGED <<pq, aq>>
    /\ next' = next + 1
    /\ UNCHANGED <<kid, call>>

\* A steer message goes on with the parked turn.
Steer ==
    /\ Up /\ par.st = "parked" /\ Len(par.said) < MaxMsgs
    /\ par' = [par EXCEPT !.st = "streams", !.cut = "no"]
    /\ UNCHANGED <<kid, next, call, pq, aq>>

Fails ==
    /\ Up /\ par.st = "streams"
    /\ par' = [par EXCEPT !.st = "fails"]
    /\ next' = next + 1
    /\ IF kind = "kernel" THEN Tell(Entry("p", next, "failed")) ELSE UNCHANGED <<pq, aq>>
    /\ UNCHANGED <<kid, call>>

\* The turn comes to rest.
Rested ==
    /\ Up
    /\ LET rest == CASE par.st = "completes" \/ (kind = "runtime" /\ par.st = "streams") -> "completed"
                     [] par.st = "fails" -> "failed"
                     [] par.st \in {"idles", "parked"} -> "idle"
                     [] OTHER -> "none"
       IN  /\ rest # "none"
           /\ par' = [par EXCEPT !.st = rest]
           /\ Tell(State("p", par.turn, rest))
    /\ UNCHANGED <<kid, next, call>>

-----------------------------------------------------------------------------
(* The child's turn: each of its steps is told to the child's own          *)
(* subscriber and then forwarded to the parent's                           *)

KidSays(n) == Hears(n) /\ pq' = Append(pq, n)

KidMessage ==
    /\ Up /\ kid.st = "streams" /\ Len(kid.said) < MaxMsgs
    /\ next' = next + 1
    /\ kid' = [kid EXCEPT !.said = Append(@, next)]
    /\ KidSays(Entry("c", next, "end_turn"))
    /\ UNCHANGED <<par, call>>

KidEnds(rest) ==
    /\ Up /\ kid.st = "streams"
    /\ rest = "completed" => kid.cut = "no" /\ kid.said # <<>>
    /\ rest = "idle" => kid.cut = "cancel"
    /\ next' = next + 1
    /\ kid' = [kid EXCEPT !.st = rest]
    /\ LET failed == Entry("c", next, "failed")
           last == State("c", kid.turn, rest)
           all == IF rest = "failed" THEN <<failed, last>> ELSE <<last>>
       IN  /\ aq' = IF call.st \in {"submit", "wait", "grace"} THEN aq \o all ELSE aq
           /\ pq' = pq \o all
    /\ UNCHANGED <<par, call>>

-----------------------------------------------------------------------------
(* The agent tool                                                          *)

Calling(s) == call.st = s /\ UNCHANGED <<prompt, kind, par, pr, pq, down>>

\* invoke: the connection and the child session, or none of it.
Opens ==
    /\ Calling("open") /\ ~down /\ ~call.ended
    /\ call' = [call EXCEPT !.st = "submit"]
    /\ UNCHANGED <<kid, next, aq>>
OpenFails ==
    /\ Calling("open")
    /\ call' = [call EXCEPT !.st = "done", !.res = "failed"]
    /\ UNCHANGED <<kid, next, aq>>

\* The submit, whose answer the end of the call's context may cut off.
Submits ==
    /\ Calling("submit") /\ ~down
    /\ kid' = [kid EXCEPT !.st = "streams", !.turn = next]
    /\ next' = next + 1
    /\ \/ call' = [call EXCEPT !.st = "wait"]
       \/ call.ended /\ call' = [call EXCEPT !.st = "close", !.res = "failed"]
    /\ UNCHANGED aq
SubmitFails ==
    /\ Calling("submit")
    /\ call' = [call EXCEPT !.st = "close", !.res = "failed"]
    /\ UNCHANGED <<kid, next, aq>>

\* observe, and what invoke makes of a turn at rest; every message of the child has some text.
Observe ==
    /\ call.st \in {"wait", "grace"} /\ Calling(call.st) /\ aq # <<>>
    /\ LET n == Head(aq)
       IN  call' = CASE n.m = "entry" /\ n.id > kid.turn ->
                          IF n.what = "failed" THEN [call EXCEPT !.failure = TRUE] ELSE [call EXCEPT !.text = n.id]
                     [] n.m = "state" /\ n.id = kid.turn ->
                          [call EXCEPT !.st = "close",
                                       !.res = IF call.cause \/ call.failure \/ n.what # "completed"
                                               THEN "failed" ELSE "ok"]
                     [] OTHER -> call
    /\ aq' = Tail(aq)
    /\ UNCHANGED <<kid, next>>

\* waitTurn, when the call's context ends: the child is interrupted, and given time.
Cancelled ==
    /\ Calling("wait") /\ call.ended
    /\ call' = [call EXCEPT !.st = "grace", !.cause = TRUE]
    /\ kid' = IF kid.st = "streams" /\ ~down THEN [kid EXCEPT !.cut = "cancel"] ELSE kid
    /\ UNCHANGED <<next, aq>>
GraceEnds ==
    /\ Calling("grace")
    /\ call' = [call EXCEPT !.st = "close", !.res = "failed"]
    /\ UNCHANGED <<kid, next, aq>>

\* The connection is gone.
CallLost ==
    /\ call.st \in {"wait", "grace"} /\ Calling(call.st) /\ down /\ aq = <<>>
    /\ call' = [call EXCEPT !.st = "close", !.res = "failed"]
    /\ UNCHANGED <<kid, next, aq>>

\* The child is given up, whatever became of its turn.
Closes ==
    /\ Calling("close")
    /\ call' = [call EXCEPT !.st = "done", !.orphan = kid.st = "streams"]
    /\ aq' = <<>>
    /\ UNCHANGED <<kid, next>>

-----------------------------------------------------------------------------
(* --print                                                                 *)

Printing(s) == pr.st = s /\ UNCHANGED <<prompt, kind, kid, call, aq>>
Exit(code) == pr' = [pr EXCEPT !.st = "over", !.code = code]

\* openOrResume: a session that is resumed replays what it said before.
OpenOrResume ==
    /\ Printing("open") /\ ~down
    /\ pr' = [pr EXCEPT !.st = "submit"]
    /\ \/ UNCHANGED <<pq, next>>
       \/ pq' = Append(pq, Entry("p", next, "end_turn")) /\ next' = next + 1
    /\ UNCHANGED <<par, down>>
OpenRefused ==
    /\ Printing("open")
    /\ \E code \in {1, 2} : Exit(code)
    /\ UNCHANGED <<par, next, pq, down>>

\* submit: a turn, a command that made none, a login to wait for, or a refusal.
Submit ==
    /\ Printing("submit") /\ ~down
    /\ CASE prompt = "text" ->
              /\ par' = [par EXCEPT !.st = "streams", !.turn = next]
              /\ next' = next + 1
              /\ pr' = [pr EXCEPT !.st = "wait"]
         [] prompt = "notice" -> Exit(0) /\ UNCHANGED <<par, next>>
         [] prompt = "unknown" -> Exit(2) /\ UNCHANGED <<par, next>>
         [] prompt = "login" -> pr' = [pr EXCEPT !.st = "login"] /\ UNCHANGED <<par, next>>
    /\ UNCHANGED <<pq, down>>
SubmitRefused ==
    /\ Printing("submit")
    /\ Exit(1)
    /\ UNCHANGED <<par, next, pq, down>>

\* exitFor: what the exit code says of how the turn ended.
ExitFor(state, stop) ==
    CASE state = "idle" \/ stop = "interrupted" -> 130
      [] state # "idle" /\ stop = "end_turn" -> 0
      [] state # "idle" /\ stop \notin {"end_turn", "interrupted"} -> 1

\* Mutant: an entry of any turn is folded in.
Fold_Replay(n) ==
    CASE n.m = "entry" /\ kind = "kernel" /\ n.what # "failed" ->
           [pr EXCEPT !.text = <<n.id>>, !.stop = n.what]
      [] n.m = "state" /\ n.id = par.turn ->
           [pr EXCEPT !.state = n.what, !.st = "finish"]
      [] OTHER -> pr

\* turnOutput.observe: entries before the turn are ignored, an entry's session is not asked
\* for; a runtime's entries are taken once each.
Fold(n) ==
    CASE n.m = "entry" /\ kind = "kernel" /\ n.id > par.turn /\ n.what # "failed" ->
           [pr EXCEPT !.text = <<n.id>>, !.stop = n.what]
      [] n.m = "entry" /\ kind = "runtime" /\ n.id > par.turn /\ \A i \in DOMAIN pr.text : pr.text[i] # n.id ->
           [pr EXCEPT !.text = Append(@, n.id)]
      [] n.m = "state" /\ n.id = par.turn ->
           [pr EXCEPT !.state = n.what, !.st = "finish",
                      !.stop = CASE kind = "runtime" /\ n.what = "completed" -> "end_turn"
                                 [] kind = "runtime" /\ n.what = "idle" -> "interrupted"
                                 [] OTHER -> @]
      [] OTHER -> pr

Take ==
    /\ Printing("wait") /\ pq # <<>>
    /\ pr' = Fold(Head(pq))
    /\ pq' = Tail(pq)
    /\ UNCHANGED <<par, next, down>>

\* turnOutput.finish.
Finish ==
    /\ Printing("finish")
    /\ IF pr.state = "failed" THEN Exit(1) ELSE Exit(ExitFor(pr.state, pr.stop))
    /\ UNCHANGED <<par, next, pq, down>>

\* A signal: the turn, if there is one, is cancelled, and its end not waited for.
Signal ==
    /\ pr.st \in {"wait", "login"} /\ Printing(pr.st)
    /\ Exit(130)
    /\ par' = IF par.st \in {"streams", "calls"} /\ ~down THEN [par EXCEPT !.cut = "cancel"] ELSE par
    /\ UNCHANGED <<next, pq, down>>

\* The server closed the connection, or stdout broke.
PrintLost ==
    /\ pr.st \in {"wait", "login"} /\ Printing(pr.st) /\ (down \/ pq # <<>>)
    /\ Exit(1)
    /\ UNCHANGED <<par, next, pq, down>>

\* waitLoginCompletion: the completion of this login and no other.
LoginTold ==
    /\ Printing("login") /\ pq # <<>>
    /\ pr' = IF Head(pq).m = "login" /\ Head(pq).id = 1
             THEN [pr EXCEPT !.st = "over", !.code = IF Head(pq).what = "ok" THEN 0 ELSE 1]
             ELSE pr
    /\ pq' = Tail(pq)
    /\ UNCHANGED <<par, next, down>>
LoginEnds(mine, ok) ==
    /\ Up /\ pr.st = "login" /\ Len(pq) < MaxMsgs
    /\ Tell(Login(mine, ok))
    /\ UNCHANGED <<turns, call>>

ServerCloses ==
    /\ ~down /\ down' = TRUE
    /\ UNCHANGED <<prompt, kind, turns, call, pr, pq, aq>>

-----------------------------------------------------------------------------

Turn ==
    \/ \E what \in Stops \cup {"tool_use"} : Message(what)
    \/ \E how \in {"steer", "cancel"} : Interrupt(how)
    \/ Again \/ Answered \/ Cut \/ Steer \/ Fails \/ Rested
Child == KidMessage \/ \E rest \in Rests : KidEnds(rest)
Agent == Opens \/ OpenFails \/ Submits \/ SubmitFails \/ Observe \/ Cancelled \/ GraceEnds \/ CallLost \/ Closes
Printer ==
    \/ OpenOrResume \/ OpenRefused \/ Submit \/ SubmitRefused \/ Take \/ Finish \/ Signal \/ PrintLost \/ LoginTold
    \/ \E mine, ok \in BOOLEAN : LoginEnds(mine, ok)
Next == Turn \/ Child \/ Agent \/ Printer \/ ServerCloses

Spec == Init /\ [][Next]_vars

-----------------------------------------------------------------------------
(* Correctness                                                             *)

\* The agent tool answers only with the last thing the child said in the turn it was given, and
\* only when that turn completed: never a turn that was cut, failed or is still going.
AgentTellsItsTurn ==
    call.res = "ok" => kid.st = "completed" /\ call.text = kid.said[Len(kid.said)]

\* A script that reads exit code 0 and an answer reads the answer of the turn it submitted,
\* which completed: the whole of it, once, and nothing a replay or a child said, unless a child
\* outlived its call.
PrintTellsItsTurn ==
    pr.st = "over" /\ pr.state # "none" /\ ~call.orphan =>
        /\ pr.code = 0 => par.st = "completed"
                          /\ pr.text = IF kind = "kernel" THEN <<par.said[Len(par.said)]>> ELSE par.said
        /\ pr.code = 130 => par.st = "idle"
        /\ pr.code = 1 => par.st = "failed" \/ par.stop = "refusal"

\* Whoever follows a turn reports that turn, as it ended.
ReportsItsTurn == AgentTellsItsTurn /\ PrintTellsItsTurn
=============================================================================
