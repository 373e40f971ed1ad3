----------------------------- MODULE ClientFeed -----------------------------
(***************************************************************************)
(* One terminal client and the server it is attached to: the subscription, *)
(* replay and outbox of one connection (internal/server), and the client's *)
(* mirror of the session on screen (internal/tui/app).                     *)
(*                                                                         *)
(* The server sends notifications in order on one queue, but the client    *)
(* takes them one per update while an answer reaches its caller directly,  *)
(* so an answer overtakes the notifications sent before it.  A call runs   *)
(* in a goroutine of its own, so calls made together arrive in any order.  *)
(* Another client stays attached to every session: it starts turns, and    *)
(* answers questions.  An entry is its session and its place in that       *)
(* session's log, a turn is the place of its user message, and a turn asks *)
(* at most one question, named by the turn.                                *)
(***************************************************************************)
EXTENDS Integers, Sequences, FiniteSets, SequencesExt

CONSTANTS
    Sessions,       \* 1..n: session 1 is open and on screen at the start
    MaxLog,         \* MaxLog[s]: bound on the entries of session s
    MaxNotes,       \* bound on the notifications in flight before a session moves again
    MaxTyped,       \* bound on the messages typed
    MaxSwitch       \* bound on the switches the user asks for

VARIABLES
    log,        \* log[s]: the kinds of s's entries; <<>> when not open
    run,        \* run[s]: the turn that runs, 0 at rest
    standing,   \* standing[s]: the questions that stand
    subs,       \* subs[s]: how often the connection subscribed to s
    deliver,    \* what deliverAttach has still to send, then the answer
    reqs,       \* calls of the client not yet served
    notes,      \* the outbox, and what the client has not taken yet
    answers,    \* answers the client has not taken yet
    ui,         \* the client's model of the session on screen
    sw,         \* the switch in flight: the session left and what is held
    typed,      \* messages typed so far
    switches,   \* switches asked for so far
    known,      \* sessions that have been on screen
    raced       \* history: sessions that a race of the server's or the client's calls may have torn

server == <<log, run, standing, subs, raced>>
wire == <<deliver, reqs, notes, answers>>
client == <<ui, sw, typed, switches, known>>
vars == <<server, wire, client>>

-----------------------------------------------------------------------------
(* Messages                                                                *)

EntryNote(s, i, k) == [t |-> "entry", s |-> s, i |-> i, k |-> k]
StateNote(s, turn, on) == [t |-> "state", s |-> s, i |-> turn, k |-> IF on THEN "run" ELSE "rest"]
AskNote(s, turn) == [t |-> "ask", s |-> s, i |-> turn, k |-> "ask"]

\* A call: what it asks, of which session, and the message or question it carries.
\* home is the session the message was typed in.
Req(m, s, i, home) == [m |-> m, s |-> s, i |-> i, home |-> home]

\* An answer carries its call, so the client knows which one it is for, and a result:
\* a turn, a session, or 0.
Ans(q, ok, r) == [q |-> q, ok |-> ok, r |-> r]

NoSwitch == [on |-> FALSE, buffer |-> <<>>]
NoDeliver == [on |-> FALSE, s |-> 0, left |-> <<>>, ans |-> <<>>]

-----------------------------------------------------------------------------
(* The server                                                              *)

\* broadcastObsLocked: one notification per subscription of the connection.
Copies(s, ns) == FlattenSeq([j \in 1..subs[s] |-> ns])

Live(s) == log[s] # <<>>

\* s is being replayed to the client.
MidAttach(s) == {r \in {s} : deliver.on /\ deliver.s = s}

\* Session s moves, bound on the outbox.  deliverAttach runs after every lock is released, so
\* s may move while its replay is sent, and what is sent of that overtakes the replay.
Moves(s) == Live(s) /\ Len(notes) < MaxNotes /\ raced' = raced \cup MidAttach(s)

Room(s) == Len(log[s]) < MaxLog[s]

Grow(s, ks) == [log EXCEPT ![s] = @ \o ks]
Entries(s, ks) == [j \in 1..Len(ks) |-> EntryNote(s, Len(log[s]) + j, ks[j])]

\* Any entry that is not of a turn: a note, a mode or model change.
AppendNote(s) ==
    /\ Moves(s) /\ Room(s)
    /\ log' = Grow(s, <<"note">>)
    /\ notes' = notes \o Copies(s, Entries(s, <<"note">>))
    /\ UNCHANGED <<run, standing, subs, deliver, reqs, answers, client>>

\* A turn begins: its user message, then its first state.
BeginTurn(s) ==
    LET turn == Len(log[s]) + 1 IN
    /\ log' = Grow(s, <<"user">>)
    /\ run' = [run EXCEPT ![s] = turn]
    /\ notes' = notes \o Copies(s, Entries(s, <<"user">>) \o <<StateNote(s, turn, TRUE)>>)

\* The other client submits.
StartTurn(s) ==
    /\ Moves(s) /\ run[s] = 0 /\ Room(s)
    /\ BeginTurn(s)
    /\ UNCHANGED <<standing, subs, deliver, reqs, answers, client>>

\* A call of the turn needs consent: the question stands and is put to every asker.
Ask(s) ==
    /\ Moves(s) /\ run[s] # 0 /\ standing[s] = {} /\ Room(s)
    /\ ~\E i \in 1..Len(log[s]) : i > run[s] /\ log[s][i] = "decided"
    /\ standing' = [standing EXCEPT ![s] = {run[s]}]
    /\ notes' = notes \o Copies(s, <<AskNote(s, run[s])>>)
    /\ UNCHANGED <<log, run, subs, deliver, reqs, answers, client>>

\* A question decided: it stands no more and the decision is in the log.
Decided(s) ==
    /\ standing' = [standing EXCEPT ![s] = {}]
    /\ log' = Grow(s, <<"decided">>)

\* The other asker answers.
Decide(s) ==
    /\ Moves(s) /\ standing[s] # {}
    /\ Decided(s)
    /\ notes' = notes \o Copies(s, Entries(s, <<"decided">>))
    /\ UNCHANGED <<run, subs, deliver, reqs, answers, client>>

\* The turn comes to rest; a question it still asks is denied first.
EndTurn(s) ==
    /\ Moves(s) /\ run[s] # 0
    /\ LET ks == IF standing[s] = {} THEN <<>> ELSE <<"decided">>
       IN  /\ log' = Grow(s, ks)
           /\ notes' = notes \o Copies(s, Entries(s, ks) \o <<StateNote(s, run[s], FALSE)>>)
    /\ standing' = [standing EXCEPT ![s] = {}]
    /\ run' = [run EXCEPT ![s] = 0]
    /\ UNCHANGED <<subs, deliver, reqs, answers, client>>

-----------------------------------------------------------------------------
(* Calls served: one at a time, the handler of the connection              *)

Serve(q) == ~deliver.on /\ q \in reqs /\ reqs' = reqs \ {q}

ServeSubmit(q) ==
    /\ q.m = "submit" /\ Serve(q)
    /\ IF run[q.s] = 0 /\ Room(q.s)
       THEN /\ BeginTurn(q.s)
            /\ answers' = answers \cup {Ans(q, TRUE, Len(log[q.s]) + 1)}
       ELSE /\ answers' = answers \cup {Ans(q, FALSE, 0)}
            /\ UNCHANGED <<log, run, notes>>
    /\ UNCHANGED <<standing, subs, raced, deliver, client>>

ServeAnswer(q) ==
    /\ q.m = "answer" /\ Serve(q)
    /\ IF q.i \in standing[q.s]
       THEN /\ Decided(q.s)
            /\ notes' = notes \o Copies(q.s, Entries(q.s, <<"decided">>))
            /\ answers' = answers \cup {Ans(q, TRUE, 0)}
       ELSE /\ answers' = answers \cup {Ans(q, FALSE, 0)}
            /\ UNCHANGED <<standing, log, notes>>
    /\ UNCHANGED <<run, subs, raced, deliver, client>>

\* detach: every subscription of the connection to the session goes.
ServeClose(q) ==
    /\ q.m = "close" /\ Serve(q)
    /\ subs' = [subs EXCEPT ![q.s] = 0]
    /\ UNCHANGED <<log, run, standing, raced, deliver, notes, answers, client>>

\* What a newcomer is owed: the log, the state of a turn that runs, what stands.
Attachment(s) ==
    [j \in 1..Len(log[s]) |-> EntryNote(s, j, log[s][j])]
    \o (IF run[s] = 0 THEN <<>> ELSE <<StateNote(s, run[s], TRUE)>>)
    \o (IF standing[s] = {} THEN <<>> ELSE <<AskNote(s, run[s])>>)

\* subscribeLocked under the locks, then deliverAttach without them.  The call resume is
\* resumeSession's pair, a close and then the resume, which no other call comes between.
ServeResume(q) ==
    /\ q.m = "resume" /\ Serve(q)
    /\ \/ /\ subs' = [subs EXCEPT ![q.s] = 1]
          /\ deliver' = [on |-> TRUE, s |-> q.s, left |-> Attachment(q.s), ans |-> Ans(q, TRUE, q.s)]
          /\ UNCHANGED answers
       \/ /\ subs' = [subs EXCEPT ![q.s] = 0]       \* refused
          /\ answers' = answers \cup {Ans(q, FALSE, 0)}
          /\ UNCHANGED deliver
    /\ raced' = raced \cup {r \in {q.s} : \E p \in reqs : p.m = "close" /\ p.s = r}
    /\ UNCHANGED <<log, run, standing, notes, client>>

\* session.fork and the /fork command: a new session, attached to the caller.
ServeFork(q, s) ==
    /\ q.m \in {"fork", "command"} /\ Serve(q)
    /\ ~Live(s) /\ \A r \in Sessions : ~Live(r) => s <= r
    /\ log' = Grow(s, <<"head">>)
    /\ subs' = [subs EXCEPT ![s] = 1]
    /\ deliver' = [on |-> TRUE, s |-> s, left |-> <<EntryNote(s, 1, "head")>>, ans |-> Ans(q, TRUE, s)]
    /\ UNCHANGED <<run, standing, raced, notes, answers, client>>

\* deliverAttach, one notification at a time, and then the answer.
Deliver ==
    /\ deliver.on
    /\ IF deliver.left # <<>>
       THEN /\ notes' = Append(notes, Head(deliver.left))
            /\ deliver' = [deliver EXCEPT !.left = Tail(@)]
            /\ UNCHANGED answers
       ELSE /\ answers' = answers \cup {deliver.ans}
            /\ deliver' = NoDeliver
            /\ UNCHANGED notes
    /\ UNCHANGED <<server, reqs, client>>

-----------------------------------------------------------------------------
(* The client                                                              *)

\* Model and turnControl: the session on screen, whether the head of its log is awaited,
\* the entries folded in order, the mirror of the turn, the questions on screen and the
\* ones whose answer is in flight, and the messages queued behind the turn.
Fresh(s, await) ==
    [on |-> s, await |-> await, shown |-> <<>>, running |-> FALSE, turn |-> 0,
     prompts |-> {}, asked |-> {}, queue |-> <<>>, send |-> {}]

Seen(u) == ToSet(u.shown)

\* Model.entry: from the head of a log on, each entry once.
FoldEntry(u, n) ==
    LET v == IF n.k = "head" THEN [u EXCEPT !.await = FALSE] ELSE u
    IN  IF v.await \/ n.i \in Seen(v) THEN v
        ELSE [v EXCEPT !.shown = Append(@, n.i),
                       !.prompts = IF n.k = "decided" THEN {} ELSE @,
                       !.asked = IF n.k = "decided" THEN {} ELSE @]

\* turnChanged: a turn at rest takes its questions down and sends the oldest message queued.
FoldState(u, n) ==
    IF n.k = "run" THEN [u EXCEPT !.running = TRUE, !.turn = n.i]
    ELSE LET v == [u EXCEPT !.running = FALSE, !.turn = n.i, !.prompts = {}, !.asked = {}]
         IN  IF v.queue = <<>> THEN v
             ELSE [v EXCEPT !.queue = Tail(@),
                            !.send = @ \cup {Req("submit", v.on, Head(v.queue).i, Head(v.queue).home)}]

\* Model.notification, for a client that is not switching.
Fold(u, n) ==
    CASE n.s # u.on -> u                        \* another session's
      [] n.s = u.on /\ n.t = "entry" -> FoldEntry(u, n)
      [] n.s = u.on /\ n.t = "state" -> FoldState(u, n)
      [] n.s = u.on /\ n.t = "ask" -> [u EXCEPT !.prompts = {n.i}]

\* What the fold sends goes out as calls.
Settle(u, more) ==
    /\ ui' = [u EXCEPT !.send = {}]
    /\ reqs' = reqs \cup u.send \cup more

\* One notification per update; a switch in flight holds it.
Take ==
    /\ notes # <<>>
    /\ notes' = Tail(notes)
    /\ IF sw.on
       THEN /\ sw' = [sw EXCEPT !.buffer = Append(@, Head(notes))]
            /\ UNCHANGED <<ui, reqs>>
       ELSE Settle(Fold(ui, Head(notes)), {}) /\ UNCHANGED sw
    /\ UNCHANGED <<server, deliver, answers, typed, switches, known>>

\* Model.submit: Enter.  A running turn queues the message, a resting one takes it.
Enter ==
    /\ typed < MaxTyped
    /\ typed' = typed + 1
    /\ IF ui.running
       THEN ui' = [ui EXCEPT !.queue = Append(@, [i |-> typed + 1, home |-> ui.on])] /\ UNCHANGED reqs
       ELSE reqs' = reqs \cup {Req("submit", ui.on, typed + 1, ui.on)} /\ UNCHANGED ui
    /\ UNCHANGED <<server, deliver, notes, answers, sw, switches, known>>

\* cancelTurn: the queue goes back to the draft.  What the server does with the interrupt
\* is EndTurn, which may come at any time.
CancelTurn ==
    /\ ui.running /\ ui.queue # <<>>
    /\ ui' = [ui EXCEPT !.queue = <<>>]
    /\ UNCHANGED <<server, wire, sw, typed, switches, known>>

\* answer: the question comes down at once and is kept in hand.
AnswerKey(p) ==
    /\ p \in ui.prompts
    /\ ui' = [ui EXCEPT !.prompts = @ \ {p}, !.asked = @ \cup {p}]
    /\ reqs' = reqs \cup {Req("answer", ui.on, p, ui.on)}
    /\ UNCHANGED <<server, deliver, notes, answers, sw, typed, switches, known>>

\* startSwitch: hold what arrives until the answer names the session.
StartSwitch(q) ==
    /\ reqs' = reqs \cup {q}
    /\ sw' = [on |-> TRUE, buffer |-> <<>>]

\* A session can be opened: bound.
ForkRoom ==
    Cardinality({s \in Sessions : ~Live(s)}) > Cardinality({q \in reqs : q.m \in {"fork", "command"}})

\* forkSession, and resumeSession from the picker.  The user goes back to a session that was
\* on screen before, perhaps while its close is still under way.
Switch ==
    /\ ~sw.on /\ switches < MaxSwitch
    /\ switches' = switches + 1
    /\ \/ /\ ForkRoom
          /\ StartSwitch(Req("fork", ui.on, 0, ui.on))
       \/ \E s \in known \ {ui.on} : StartSwitch(Req("resume", s, 0, ui.on))
    /\ UNCHANGED <<server, deliver, notes, answers, ui, typed, known>>

\* runCommand with /fork: no switch starts until it answers.
ForkCommand ==
    /\ switches < MaxSwitch /\ ForkRoom
    /\ switches' = switches + 1
    /\ reqs' = reqs \cup {Req("command", ui.on, 0, ui.on)}
    /\ UNCHANGED <<server, deliver, notes, answers, ui, sw, typed, known>>

-----------------------------------------------------------------------------
(* Answers taken                                                           *)

\* started: covers the gap before the turn's own notifications.
Started(u, turn) == IF u.turn = turn THEN u ELSE [u EXCEPT !.running = TRUE, !.turn = turn]

TakeAnswer(a) == a \in answers /\ answers' = answers \ {a}

\* callResult of session.submit: dropped when another session is on screen by now,
\* otherwise the message is echoed and the turn is running.  A refusal loses the text.
SubmitAnswered(a) ==
    /\ a.q.m = "submit" /\ TakeAnswer(a)
    /\ ui' = IF ~a.ok \/ a.q.s # ui.on THEN ui
             ELSE Started(FoldEntry(ui, EntryNote(ui.on, a.r, "user")), a.r)
    /\ UNCHANGED <<server, deliver, reqs, notes, sw, typed, switches, known>>

\* callResult and callFailed of session.answer: a failure puts the question back.
AnswerAnswered(a) ==
    /\ a.q.m = "answer" /\ TakeAnswer(a)
    /\ ui' = IF a.q.s # ui.on \/ a.q.i \notin ui.asked THEN ui
             ELSE [ui EXCEPT !.asked = @ \ {a.q.i}, !.prompts = IF a.ok THEN @ ELSE @ \cup {a.q.i}]
    /\ UNCHANGED <<server, deliver, reqs, notes, sw, typed, switches, known>>

\* callResult of command.run: the fork is switched to, or let go if a switch is in flight.
CommandAnswered(a) ==
    /\ a.q.m = "command" /\ TakeAnswer(a)
    /\ IF sw.on
       THEN /\ reqs' = reqs \cup {Req("close", a.r, 0, ui.on)}
            /\ UNCHANGED sw
       ELSE IF a.r = ui.on THEN UNCHANGED <<reqs, sw>>
       ELSE StartSwitch(Req("resume", a.r, 0, ui.on))
    /\ UNCHANGED <<server, deliver, notes, ui, typed, switches, known>>

\* replayBuffered: what was held of session s, in order.
Replayed(u) ==
    LET folded[i \in 0..Len(sw.buffer)] ==
            IF i = 0 THEN u ELSE Fold(folded[i - 1], sw.buffer[i])
    IN  folded[Len(sw.buffer)]

\* Mutant: the queue survives a switch.
Switched_KeepsQueue(a) ==
    /\ a.q.m \in {"resume", "fork"} /\ a.ok /\ TakeAnswer(a)
    /\ Settle(Replayed([Fresh(a.r, TRUE) EXCEPT !.queue = ui.queue]), {Req("close", ui.on, 0, ui.on)})
    /\ sw' = NoSwitch
    /\ known' = known \cup {a.r}
    /\ UNCHANGED <<server, deliver, notes, typed, switches>>

\* switched: nothing of the old session stays, the queue goes back to the draft, what was
\* held of the new one is folded, and the session left is closed.
Switched(a) ==
    /\ a.q.m \in {"resume", "fork"} /\ a.ok /\ TakeAnswer(a)
    /\ Settle(Replayed(Fresh(a.r, TRUE)), {q \in {Req("close", ui.on, 0, ui.on)} : q.s # a.r})
    /\ sw' = NoSwitch
    /\ known' = known \cup {a.r}
    /\ UNCHANGED <<server, deliver, notes, typed, switches>>

\* Mutant: a failed switch drops what it held.
Aborted_Drops(a) ==
    /\ a.q.m = "resume" /\ ~a.ok /\ TakeAnswer(a)
    /\ sw' = NoSwitch
    /\ UNCHANGED <<server, deliver, reqs, notes, ui, typed, switches, known>>

\* abortSwitch: what was held belongs to the session never left.
Aborted(a) ==
    /\ a.q.m = "resume" /\ ~a.ok /\ TakeAnswer(a)
    /\ Settle(Replayed(ui), {})
    /\ sw' = NoSwitch
    /\ UNCHANGED <<server, deliver, notes, typed, switches, known>>

-----------------------------------------------------------------------------
Init ==
    /\ log = [s \in Sessions |-> IF s = 1 THEN <<"head">> ELSE <<>>]
    /\ run = [s \in Sessions |-> 0]
    /\ standing = [s \in Sessions |-> {}]
    /\ subs = [s \in Sessions |-> IF s = 1 THEN 1 ELSE 0]
    /\ deliver = NoDeliver /\ reqs = {} /\ answers = {}
    /\ notes = <<EntryNote(1, 1, "head")>>
    /\ ui = Fresh(1, FALSE) /\ sw = NoSwitch
    /\ typed = 0 /\ switches = 0 /\ known = {1} /\ raced = {}

Next ==
    \/ \E s \in Sessions : AppendNote(s) \/ StartTurn(s) \/ Ask(s) \/ Decide(s) \/ EndTurn(s)
    \/ \E q \in reqs : ServeSubmit(q) \/ ServeAnswer(q) \/ ServeClose(q) \/ ServeResume(q)
                       \/ \E s \in Sessions : ServeFork(q, s)
    \/ Deliver
    \/ Take \/ Enter \/ CancelTurn \/ Switch \/ ForkCommand
    \/ \E p \in ui.prompts : AnswerKey(p)
    \/ \E a \in answers : SubmitAnswered(a) \/ AnswerAnswered(a) \/ CommandAnswered(a)
                          \/ Switched(a) \/ Aborted(a)

Spec == Init /\ [][Next]_vars

-----------------------------------------------------------------------------
(* Properties                                                              *)

\* The entries the transcript shows, but for the user messages this client echoed before
\* they arrived, are a prefix of the log with nothing left out: a fold never starts in the
\* middle of a replay, and a late copy, a held one or another session's changes nothing.
NothingSkipped ==
    LET seen == Seen(ui) IN \A i \in seen : log[ui.on][i] # "user" => 1..i \subseteq seen

\* Nothing is under way: no call, no answer, no notification, no switch.
Quiet == reqs = {} /\ answers = {} /\ notes = <<>> /\ ~deliver.on /\ ~sw.on

\* Once everything sent has arrived the screen is the session: its whole log is shown, the
\* questions on it are the ones that stand, and a turn that runs is shown running.
ScreenIsSession ==
    Quiet => /\ Seen(ui) = DOMAIN log[ui.on]
             /\ ui.prompts = standing[ui.on]
             /\ run[ui.on] # 0 => ui.running

\* The client's picture of a session that was at rest while it was attached, and was not
\* gone back to ahead of its close: never with a gap, and whole when all has arrived.
ScreenIsFaithful == ui.on \notin raced => NothingSkipped /\ ScreenIsSession

\* A message typed for one session is never submitted to another: switching puts the queue
\* back in the draft, and nothing held back by a turn of the session left is sent.
TypedGoesHome == \A q \in reqs : q.m = "submit" => q.s = q.home

\* Per session, notifications are delivered in entry order: between an entry and one that
\* is not later in the log a new replay starts.
InEntryOrder ==
    \A j, k \in DOMAIN notes :
        /\ j < k /\ notes[j].t = "entry" /\ notes[k].t = "entry"
        /\ notes[j].s = notes[k].s /\ notes[k].i <= notes[j].i
        => \E h \in (j + 1)..k : notes[h].s = notes[k].s /\ notes[h].k = "head"

=============================================================================
