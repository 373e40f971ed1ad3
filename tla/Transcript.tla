----------------------------- MODULE Transcript -----------------------------
(***************************************************************************)
(* The transcript of the terminal client (internal/tui/transcript) in      *)
(* inline rendering: the rows of the live region, in order, and what has   *)
(* been printed to the terminal's scrollback, which nothing can redraw.    *)
(*                                                                         *)
(* The notifications come in the order a session's log gives them: a user  *)
(* message opens a turn; a message streams as deltas and is then appended  *)
(* whole; its calls run together and each is answered; the turn comes to   *)
(* rest.  One call may be a subagent, a child session whose own            *)
(* notifications interleave with the parent's and may straggle in after    *)
(* the parent's turn has been printed.                                     *)
(***************************************************************************)
EXTENDS Integers, Sequences, FiniteSets, SequencesExt

CONSTANTS
    MaxTurns,       \* bound on the turns of the session
    MaxMsgs         \* bound on the assistant messages of one turn

VARIABLES
    rows,           \* the live region
    printed,        \* the scrollback: the rows printed
    turn,           \* Transcript.turn: the turn rows are added to, 0 before the first
    committed,      \* the turns printed
    toolTurn,       \* the turn of every call a row was ever built for
    feed,           \* where the session's own log is
    child           \* where the child's log is

screen == <<rows, printed, turn, committed, toolTurn>>
vars == <<screen, feed, child>>

NoCall == <<>>

\* A row: its key, its turn, whether it is provisional, the call it renders under.
Row(k, t, live, par) == [k |-> k, t |-> t, live |-> live, par |-> par]

RowKeys == {rows[i].k : i \in DOMAIN rows}
Has(k) == k \in RowKeys
IndexOf(k) == CHOOSE i \in DOMAIN rows : rows[i].k = k

InsertSeq(s, at, new) == SubSeq(s, 1, at) \o new \o SubSeq(s, at + 1, Len(s))

-----------------------------------------------------------------------------
(* The transcript's operations, on a sequence of rows                      *)

\* The end of a call's own group: the call's row and everything rendered under it.
GroupEnd(rs, call) ==
    LET at == {i \in DOMAIN rs : rs[i].k = call \/ rs[i].par = call}
    IN  IF at = {} THEN Len(rs) ELSE CHOOSE i \in at : \A j \in at : j <= i

\* insertAfterGroup and add.
InsertAfterGroup(call, r) == InsertSeq(rows, GroupEnd(rows, call), <<r>>)
Add(r) == Append(rows, r)

\* placeGroup: the rows of one message replace its provisional ones (swept), together and in
\* block order, where the first of them stood, or else after the group of their call.
PlaceGroup(built, swept, call) ==
    LET mine == {built[i].k : i \in DOMAIN built}
        Goes(r) == r.k \in mine \/ r \in swept
        out == SelectSeq(rows, LAMBDA r : ~Goes(r))
        gone == {i \in DOMAIN rows : Goes(rows[i])}
        anchor == CASE gone # {} -> (CHOOSE i \in gone : \A j \in gone : i <= j) - 1
                    [] gone = {} /\ call = NoCall -> Len(out)
                    [] gone = {} /\ call # NoCall -> GroupEnd(out, call)
    IN  InsertSeq(out, anchor, built)

Text(r) == r.k[1] \in {"live", "childlive"}

\* Mutant: a provisional row of a call stays where the stream left it.
PlaceCommitted_KeepsCalls(t, built) ==
    SelectSeq(rows, LAMBDA r : ~(r.live /\ Text(r) /\ r.t = t)) \o built

\* placeCommitted and placeChild: a message's text streamed as one row of its turn or its call.
PlaceCommitted(t, built) ==
    PlaceGroup(built, {r \in Range(rows) : r.live /\ Text(r) /\ r.t = t}, NoCall)

PlaceChild(call, built) ==
    PlaceGroup(built, {r \in Range(rows) : r.live /\ Text(r) /\ r.par = call}, call)

\* settled: every row of the message is on screen and final.
Settled(built) == \A i \in DOMAIN built : \E j \in DOMAIN rows : rows[j].k = built[i].k /\ ~rows[j].live

\* callTurn: a call's turn, from its row or from what was remembered of it.
CallTurn(call) ==
    IF Has(call) THEN rows[IndexOf(call)].t
    ELSE IF call \in DOMAIN toolTurn THEN toolTurn[call] ELSE 0

\* Commit, of the turns ts, oldest row first.
Commit(rs, ts) ==
    /\ rows' = SelectSeq(rs, LAMBDA r : r.t \notin ts)
    /\ printed' = printed \o SelectSeq(rs, LAMBDA r : r.t \in ts)
    /\ committed' = committed \cup ts

\* CommitLate, after an entry that added rows: the rows whose turn was printed before.
LateRows(rs) == Commit(rs, {rs[i].t : i \in DOMAIN rs} \cap committed)

-----------------------------------------------------------------------------
(* The session's own log                                                   *)

Use(t, m, i) == <<"use", t, m, i>>
ToolUses(t, m) == {Use(t, m, 1), Use(t, m, 2)}

\* feed: at rest, streaming message m, or running the calls open; s deltas streamed.
Rest == [st |-> "rest", m |-> 0, s |-> 0, open |-> {}, asked |-> {}]
Streaming(m) == [st |-> "stream", m |-> m, s |-> 0, open |-> {}, asked |-> {}]

\* A user message opens a turn, and what came before it is printed (commitTurns).
UserMessage ==
    /\ feed.st = "rest" /\ turn < MaxTurns
    /\ turn' = turn + 1
    /\ LET rs == Add(Row(<<"user", turn + 1>>, turn + 1, FALSE, NoCall))
       IN  Commit(rs, {rs[i].t : i \in DOMAIN rs} \ {turn + 1})
    /\ feed' = Streaming(1)
    /\ UNCHANGED <<toolTurn, child>>

\* Delta: text makes one provisional row per turn, a call's start a provisional call row.
Delta ==
    /\ feed.st = "stream" /\ feed.s < 3
    /\ feed' = [feed EXCEPT !.s = @ + 1]
    /\ LET k == IF feed.s = 0 THEN <<"live", turn>> ELSE Use(turn, feed.m, feed.s)
       IN  rows' = IF Has(k) THEN rows ELSE Add(Row(k, turn, TRUE, NoCall))
    /\ UNCHANGED <<printed, turn, committed, toolTurn, child>>

\* applyAssistant.  A message has text and two calls, text alone, or nothing to show.
Blocks(n) ==
    [i \in 1..n |-> Row(IF i = 1 THEN <<"text", turn, feed.m>> ELSE Use(turn, feed.m, i - 1), turn, FALSE, NoCall)]

Remember(n) ==
    [c \in DOMAIN toolTurn \cup (IF n = 3 THEN ToolUses(turn, feed.m) ELSE {}) |->
        IF c \in DOMAIN toolTurn THEN toolTurn[c] ELSE turn]

AssistantMessage(n) ==
    /\ feed.st = "stream" /\ n \in {0, 1, 3}
    /\ feed.s <= n \/ feed.s = 1       \* a hidden message streams a provisional row too
    /\ IF n # 0 /\ Settled(Blocks(n)) THEN UNCHANGED <<rows, printed, committed>>
       ELSE LateRows(PlaceCommitted(turn, Blocks(n)))
    /\ toolTurn' = Remember(n)
    /\ feed' = [feed EXCEPT !.st = IF n = 3 THEN "tools" ELSE "done",
                            !.open = IF n = 3 THEN ToolUses(turn, feed.m) ELSE {}]
    /\ UNCHANGED <<turn, child>>

\* Prompt: the question stands above its call's row.
Prompt(c) ==
    /\ c \in feed.open /\ c \notin feed.asked
    /\ feed' = [feed EXCEPT !.asked = @ \cup {c}]
    /\ rows' = IF Has(c) THEN InsertSeq(rows, IndexOf(c) - 1, <<Row(<<"ask", c>>, turn, FALSE, NoCall)>>)
               ELSE Add(Row(<<"ask", c>>, turn, FALSE, NoCall))
    /\ UNCHANGED <<printed, turn, committed, toolTurn, child>>

\* A result, after the decision that took the question down (Answered).
ToolResult(c) ==
    /\ c \in feed.open /\ c # child.call
    /\ rows' = SelectSeq(rows, LAMBDA r : r.k # <<"ask", c>>)
    /\ feed' = [feed EXCEPT !.open = @ \ {c}]
    /\ UNCHANGED <<printed, turn, committed, toolTurn, child>>

\* Every call answered: the next message streams.
NextMessage ==
    /\ feed.st = "tools" /\ feed.open = {} /\ feed.m < MaxMsgs
    /\ feed' = Streaming(feed.m + 1)
    /\ UNCHANGED <<screen, child>>

\* The turn is over, of itself or cut: the questions left are denied, a cut leaves a marker,
\* and the rest state prints the turn's rows (turnChanged).
EndTurn(cut) ==
    /\ feed.st \in {"stream", "done", "tools"}
    /\ cut \/ feed.st = "done" \/ (feed.st = "tools" /\ feed.open = {})
    /\ LET kept == SelectSeq(rows, LAMBDA r : ~(r.k[1] = "ask" /\ r.k[2] \in feed.asked))
           marked == IF cut THEN Append(kept, Row(<<"cut", turn>>, turn, FALSE, NoCall)) ELSE kept
       IN  Commit(marked, {turn})
    /\ feed' = Rest
    /\ UNCHANGED <<turn, toolTurn, child>>

\* A note between turns carries the turn that was printed.
Note ==
    /\ feed.st = "rest" /\ ~\E i \in DOMAIN printed : printed[i].k = <<"note", turn>>
    /\ ~Has(<<"note", turn>>)
    /\ LateRows(Add(Row(<<"note", turn>>, turn, FALSE, NoCall)))
    /\ UNCHANGED <<turn, toolTurn, feed, child>>

-----------------------------------------------------------------------------
(* The child's log: a user message, a message with text and one call whose *)
(* consent may be asked, its result, and the end                           *)

ChildKey(k) == <<"child", child.call, k>>
ChildRow(k, live) == Row(ChildKey(k), CallTurn(child.call), live, child.call)

\* The first call of a message opens the child; its session_opened names the call.
OpenChild(c) ==
    /\ child.st = "none" /\ c \in feed.open /\ c[4] = 1
    /\ child' = [st |-> "opened", call |-> c]
    /\ UNCHANGED <<screen, feed>>

ChildStep(from, to) == child.st = from /\ child' = [child EXCEPT !.st = to] /\ UNCHANGED <<turn, toolTurn, feed>>

\* ApplyFrom of an entry that is one row: the row goes under the call.
ChildEntry(from, to, k) ==
    /\ ChildStep(from, to)
    /\ LateRows(InsertAfterGroup(child.call, ChildRow(k, FALSE)))

\* DeltaFrom.
ChildDelta ==
    /\ ChildStep("prompted", "streaming")
    /\ rows' = InsertAfterGroup(child.call, Row(<<"childlive", child.call>>, CallTurn(child.call), TRUE, child.call))
    /\ UNCHANGED <<printed, committed>>

\* applyAssistantFrom.
ChildMessage ==
    /\ ChildStep("streaming", "calling")
    /\ LateRows(PlaceChild(child.call, <<ChildRow("text", FALSE), ChildRow("use", FALSE)>>))

\* PromptFrom, and AnsweredFrom with the decision.
ChildPrompt ==
    /\ ChildStep("calling", "asking")
    /\ LET r == ChildRow("ask", FALSE)
       IN  rows' = IF Has(ChildKey("use")) THEN InsertSeq(rows, IndexOf(ChildKey("use")) - 1, <<r>>)
                   ELSE InsertAfterGroup(child.call, r)
    /\ UNCHANGED <<printed, committed>>

ChildAnswered ==
    /\ ChildStep("asking", "answered")
    /\ rows' = SelectSeq(rows, LAMBDA r : r.k # ChildKey("ask"))
    /\ UNCHANGED <<printed, committed>>

\* The child's last entry, whatever it was doing when it was cut.
ChildEnd ==
    /\ child.st \in {"opened", "prompted", "streaming", "calling", "answered"}
    /\ child' = [child EXCEPT !.st = "over"]
    /\ LateRows(InsertAfterGroup(child.call, ChildRow("end", FALSE)))
    /\ UNCHANGED <<turn, toolTurn, feed>>

\* The agent call's own result: the call is answered and the child is done with.
ChildResult ==
    /\ child.st = "over"
    /\ child' = [st |-> "gone", call |-> NoCall]
    /\ feed' = [feed EXCEPT !.open = @ \ {child.call}]
    /\ UNCHANGED screen

-----------------------------------------------------------------------------
Init ==
    /\ rows = <<>> /\ printed = <<>> /\ turn = 0 /\ committed = {}
    /\ toolTurn = <<>> /\ feed = Rest
    /\ child = [st |-> "none", call |-> NoCall]

Next ==
    \/ UserMessage \/ Delta \/ NextMessage \/ Note
    \/ \E n \in {0, 1, 3} : AssistantMessage(n)
    \/ \E c \in feed.open : Prompt(c) \/ ToolResult(c) \/ OpenChild(c)
    \/ \E cut \in BOOLEAN : EndTurn(cut)
    \/ ChildEntry("opened", "prompted", "user") \/ ChildDelta \/ ChildMessage
    \/ ChildPrompt \/ ChildAnswered \/ ChildEnd \/ ChildResult

Spec == Init /\ [][Next]_vars

-----------------------------------------------------------------------------
(* Properties                                                              *)

\* Everything the user sees, top to bottom: the scrollback, then the live region.
Page == printed \o rows

\* No row is on the page twice: a message appended after its deltas takes the place of its
\* provisional rows, and a straggler of a subagent or a note between turns is printed once.
PrintedOnce ==
    LET page == Page IN Cardinality({page[i].k : i \in DOMAIN page}) = Len(page)

\* Nothing is stranded: with no turn running, every final row has been printed, whatever
\* came after its turn was (CommitLate), and a question is on screen only while it stands.
NoneStranded ==
    feed.st = "rest" /\ turn > 0 =>
        \A i \in DOMAIN rows : rows[i].live \/ rows[i].k = ChildKey("ask")

\* One assistant message's rows are one contiguous group, in block order: between two of them there is only
\* what belongs to them, a question about one of its calls or a subagent's own rows.
MessageTogether ==
    \A i, j \in DOMAIN Page :
        LET a == Page[i].k  b == Page[j].k IN
        /\ a[1] \in {"text", "use"} /\ b[1] \in {"text", "use"} /\ a[2] = b[2] /\ a[3] = b[3]
        /\ i < j /\ ~Page[i].live /\ ~Page[j].live
        => /\ a[1] = "text" \/ (b[1] = "use" /\ a[4] < b[4])
           /\ \A n \in i..j :
                \/ Page[n].k[1] \in {"text", "use"} /\ Page[n].k[3] = a[3]
                \/ Page[n].k[1] = "ask"
                \/ Page[n].par # NoCall

\* Every row reaches the page, once.
EveryRowOnce == PrintedOnce /\ NoneStranded
=============================================================================
