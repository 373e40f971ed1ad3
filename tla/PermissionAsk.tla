----------------------------- MODULE PermissionAsk -----------------------------
(***************************************************************************)
(* The permission questions of one turn (internal/server/session_live.go): *)
(* every call that must ask does so on a goroutine of its own, calls that  *)
(* ask the same thing share one standing question, the first answer of any *)
(* asker decides, and a session-scope allow settles what it covers.        *)
(*                                                                         *)
(* A standingAsk is named by the call that created it.  One action is one  *)
(* section under ls.mu (or ls.obsMu), or one select.                       *)
(***************************************************************************)
EXTENDS Integers, Sequences, FiniteSets, Gate

CONSTANTS
    Calls,       \* the unsafe tool calls of one assistant message
    Conns,       \* connections that declared asker
    Keys,        \* askKeys: matcher and input bytes
    KeyChoices,  \* what the calls may ask: functions from Calls to Keys
    MatcherOf,   \* MatcherOf[k]: the matcher of key k
    Dangerous,   \* the keys whose call the gate marks dangerous
    SessionModes,\* the permission modes a session may have
    Replies,     \* the decision and scope pairs an asker may send
    MaxMoves,    \* bound: attaches and detaches of askers, counted together
    None

ASSUME PermissionAskAssumption ==
    /\ KeyChoices \subseteq [Calls -> Keys]
    /\ DOMAIN MatcherOf = Keys /\ Dangerous \subseteq Keys
    /\ SessionModes \subseteq Modes /\ MaxMoves \in Nat
    /\ Replies \subseteq {"allow", "deny"} \X {"once", "session"}
    /\ None \notin Calls

VARIABLES
    key,         \* key[c]: the askKey of call c
    mode,        \* the session's permission mode
    at,          \* at[c]: where call c is
    st,          \* st[c]: the standingAsk c is parked on or raises
    got,         \* got[c]: what Ask returned to c
    asking,      \* ls.asking[k]: the current standingAsk of key k
    queue,       \* queue[s]: calls parked on s that may be promoted
    promoted,    \* calls whose promote channel is closed
    done,        \* done[s]: the answer s was retired with, or Nothing
    pending,     \* ls.pending: calls with an answer channel published
    standing,    \* ls.standing: calls whose question an attach replays
    chan,        \* chan[c]: the answer sent to c, or Nothing
    abandoned,   \* calls whose abandon channel is closed
    ctx,         \* calls whose own context is cancelled
    interrupted, \* has the turn been interrupted (inflight latched)
    conn,        \* conn[a]: "on", "off", or on its way through detach
    moves,       \* attaches and detaches so far
    allowances,  \* matchers of the allow session decisions in the log
    prior        \* history: prior[c]: the calls answered before c asked

share == <<asking, queue, promoted, done>>
question == <<pending, standing, chan, abandoned>>
outside == <<ctx, interrupted, conn, moves>>
vars == <<key, mode, at, st, got, share, question, outside, allowances, prior>>

Ended == {"ran", "denied"}
Answers == {[of |-> c, decision |-> r[1], scope |-> r[2]] : c \in Calls, r \in Replies}
Error(e) == [of |-> None, decision |-> e, scope |-> "once"]
Nothing == Error("none")          \* no answer yet
NoAsker == Error("no_asker")      \* errNoAsker
Cut == Error("cancelled")         \* ctx.Err()

askers == {a \in Conns : conn[a] = "on"}
Go(c, p) == at' = [at EXCEPT ![c] = p]
Mat(c) == MatcherOf[key[c]]
ForSession(a) == a.decision = "allow" /\ a.scope = "session"

\* The calls whose own question an asker has answered.
Replied == {c \in Calls : chan[c].of = c}

-----------------------------------------------------------------------------
(* The call: gate, then Ask.                                               *)

\* runTool asks the gate with the allowances it reads from the log now.
Gated(c) ==
    LET v == Evaluate([safety |-> "unsafe", mode |-> mode, dangerous |-> key[c] \in Dangerous,
                       matcher |-> Mat(c), allowances |-> allowances, asker |-> TRUE])
    IN  /\ at[c] = "gate"
        /\ Go(c, IF v.ask THEN "ask" ELSE IF v.decision = "allow" THEN "ran" ELSE "denied")
        /\ UNCHANGED <<st, got, share, question, outside, allowances, prior>>

\* Ask: join the standing question of this key, or create one and raise it.
Ask(c) ==
    LET s == asking[key[c]]
    IN  /\ at[c] = "ask"
        /\ IF s = None
           THEN /\ st' = [st EXCEPT ![c] = c]
                /\ asking' = [asking EXCEPT ![key[c]] = c]
                /\ Go(c, "raise") /\ UNCHANGED queue
           ELSE /\ st' = [st EXCEPT ![c] = s]
                /\ queue' = [queue EXCEPT ![s] = Append(@, c)]
                /\ Go(c, "wait") /\ UNCHANGED asking
        /\ prior' = [prior EXCEPT ![c] = Replied]
        /\ UNCHANGED <<got, promoted, done, question, outside, allowances>>

\* The joiner's select: the shared answer, its promotion, or its own context.
TakeShared(c) ==
    /\ at[c] = "wait" /\ done[st[c]] # Nothing
    /\ got' = [got EXCEPT ![c] = done[st[c]]] /\ Go(c, "answered")
    /\ UNCHANGED <<st, share, question, outside, allowances, prior>>

Promoted(c) ==
    /\ at[c] = "wait" /\ c \in promoted /\ Go(c, "raise")
    /\ UNCHANGED <<st, got, share, question, outside, allowances, prior>>

\* removeChan: the queue without the place i.
Without(q, i) == [j \in 1..(Len(q) - 1) |-> IF j < i THEN q[j] ELSE q[j + 1]]

\* Mutant: a joiner that was promoted as it left just goes.
GiveUp_Silent(c) ==
    /\ at[c] = "wait" /\ c \in ctx
    /\ LET q == queue[st[c]]
       IN  \/ \E i \in DOMAIN q :
                 q[i] = c /\ queue' = [queue EXCEPT ![st[c]] = Without(q, i)]
           \/ (\A i \in DOMAIN q : q[i] # c) /\ UNCHANGED queue
    /\ got' = [got EXCEPT ![c] = Cut] /\ Go(c, "answered")
    /\ UNCHANGED <<st, asking, promoted, done, question, outside, allowances, prior>>

\* A joiner leaves the queue; one that is no longer in it holds the question
\* and hands it on.
GiveUp(c) ==
    /\ at[c] = "wait" /\ c \in ctx
    /\ got' = [got EXCEPT ![c] = Cut]
    /\ LET q == queue[st[c]]
       IN  \/ \E i \in DOMAIN q :
                 /\ q[i] = c /\ \A j \in 1..(i - 1) : q[j] # c
                 /\ queue' = [queue EXCEPT ![st[c]] = Without(q, i)] /\ Go(c, "answered")
           \/ (\A i \in DOMAIN q : q[i] # c) /\ UNCHANGED queue /\ Go(c, "leave")
    /\ UNCHANGED <<st, asking, promoted, done, question, outside, allowances, prior>>

-----------------------------------------------------------------------------
(* raise and ask: the call that holds the question.                        *)

Publish(c) ==
    /\ at[c] = "raise" /\ Go(c, "publish")
    /\ pending' = pending \cup {c}
    /\ UNCHANGED <<st, got, share, standing, chan, abandoned, outside, allowances, prior>>

\* stand: recorded, and put to the askers, in one obsMu section; with nobody
\* attached the question is forgotten and the answer is no_asker.
Stand(c) ==
    /\ at[c] = "publish"
    /\ IF askers # {}
       THEN /\ standing' = standing \cup {c}
            /\ Go(c, "select") /\ UNCHANGED <<pending, got>>
       ELSE /\ pending' = pending \ {c} /\ UNCHANGED standing
            /\ got' = [got EXCEPT ![c] = NoAsker] /\ Go(c, "retire")
    /\ UNCHANGED <<st, share, chan, abandoned, outside, allowances, prior>>

\* ask's select, and the forget that follows every branch of it.
Select(c) ==
    /\ at[c] = "select"
    /\ \/ chan[c] # Nothing /\ got' = [got EXCEPT ![c] = chan[c]] /\ Go(c, "retire")
       \/ c \in abandoned /\ got' = [got EXCEPT ![c] = NoAsker] /\ Go(c, "retire")
       \/ c \in ctx /\ got' = [got EXCEPT ![c] = Cut] /\ Go(c, "leave")
    /\ pending' = pending \ {c} /\ standing' = standing \ {c} /\ abandoned' = abandoned \ {c}
    /\ UNCHANGED <<st, share, chan, outside, allowances, prior>>

\* retireIfCurrentLocked.
Retired(c) == IF asking[key[c]] = st[c] THEN [asking EXCEPT ![key[c]] = None] ELSE asking

\* raise, once it has an answer: everybody parked on the question takes it.
Retire(c) ==
    /\ at[c] = "retire" /\ Go(c, "answered")
    /\ asking' = Retired(c)
    /\ done' = [done EXCEPT ![st[c]] = got[c]]
    /\ UNCHANGED <<st, got, queue, promoted, question, outside, allowances, prior>>

\* leave: the question passes to the next call in line, and only with nobody
\* waiting is it retired.
Leave(c) ==
    LET q == queue[st[c]]
    IN  /\ at[c] = "leave" /\ Go(c, "answered")
        /\ IF q # <<>>
           THEN /\ queue' = [queue EXCEPT ![st[c]] = Tail(q)]
                /\ promoted' = promoted \cup {Head(q)}
                /\ UNCHANGED <<asking, done>>
           ELSE /\ asking' = Retired(c) /\ done' = [done EXCEPT ![st[c]] = got[c]]
                /\ UNCHANGED <<queue, promoted>>
        /\ UNCHANGED <<st, got, question, outside, allowances, prior>>

\* The runner looks at the interrupt before the answer, then appends the
\* decision; an allow for the session becomes an allowance.
Decide(c) ==
    LET ok == ~interrupted /\ got[c].decision = "allow"
    IN  /\ at[c] = "answered" /\ Go(c, IF ok THEN "ran" ELSE "denied")
        /\ allowances' = IF ok /\ ForSession(got[c]) THEN allowances \cup {Mat(c)}
                                                           ELSE allowances
        /\ UNCHANGED <<st, got, share, question, outside, prior>>

-----------------------------------------------------------------------------
(* The askers.                                                             *)

\* settleLocked: the other published questions a session allow on c covers.
Covered(c) == {d \in pending \ {c} : Mat(d) = Mat(c) /\ key[d] \notin Dangerous}

\* Mutant: the standing question stays open to joiners once it is answered.
Resolve_KeepsAsking(a) ==
    LET settled == {a.of} \cup
            (IF ForSession(a) THEN Covered(a.of) ELSE {})
    IN  /\ a.of \in pending
        /\ pending' = pending \ settled /\ standing' = standing \ settled
        /\ chan' = [c \in Calls |-> IF c \in settled THEN a ELSE chan[c]]
        /\ UNCHANGED <<at, st, got, share, abandoned, outside, allowances, prior>>

\* handleAnswer and resolveAnswer: the first answer claims the channel, retires
\* the standing question in the same section, and settles what it covers.
Resolve(a) ==
    LET settled == {a.of} \cup
            (IF ForSession(a) THEN Covered(a.of) ELSE {})
    IN  /\ a.of \in pending
        /\ pending' = pending \ settled /\ standing' = standing \ settled
        /\ asking' = [k \in Keys |-> IF \E c \in settled : key[c] = k THEN None ELSE asking[k]]
        /\ chan' = [c \in Calls |-> IF c \in settled THEN a ELSE chan[c]]
        /\ UNCHANGED <<at, st, got, queue, promoted, done, abandoned, outside, allowances, prior>>

\* subscribeLocked: an asker that attaches is shown what stands.
Attach(a) ==
    /\ conn[a] = "off" /\ moves < MaxMoves
    /\ moves' = moves + 1
    /\ conn' = [conn EXCEPT ![a] = "on"]
    /\ UNCHANGED <<at, st, got, share, question, ctx, interrupted, allowances, prior>>

\* detach, then abandonStanding if anything stands: who could still answer is
\* asked first, and only then are the standing questions given up.
Detach(a) ==
    /\ conn[a] = "on" /\ moves < MaxMoves /\ moves' = moves + 1
    /\ conn' = [conn EXCEPT ![a] = IF standing # {} THEN "leaving" ELSE "off"]
    /\ UNCHANGED <<at, st, got, share, question, ctx, interrupted, allowances, prior>>

CheckAskers(a) ==
    /\ conn[a] = "leaving"
    /\ conn' = [conn EXCEPT ![a] = IF askers # {} THEN "off" ELSE "abandoning"]
    /\ UNCHANGED <<at, st, got, share, question, ctx, interrupted, moves, allowances, prior>>

AbandonStanding(a) ==
    /\ conn[a] = "abandoning" /\ conn' = [conn EXCEPT ![a] = "off"]
    /\ abandoned' = abandoned \cup standing /\ standing' = {}
    /\ UNCHANGED <<at, st, got, share, pending, chan, ctx, interrupted, moves, allowances, prior>>

\* Interrupt latches the in-flight set; each call's context then ends, a later
\* call's as it registers.  A context matters only until the call has its answer.
Interrupt ==
    /\ ~interrupted /\ interrupted' = TRUE
    /\ UNCHANGED <<at, st, got, share, question, ctx, conn, moves, allowances, prior>>

CancelCall(c) ==
    /\ interrupted /\ c \notin ctx /\ at[c] \in {"ask", "wait", "raise", "publish", "select"}
    /\ ctx' = ctx \cup {c}
    /\ UNCHANGED <<at, st, got, share, question, interrupted, conn, moves, allowances, prior>>

-----------------------------------------------------------------------------
Init ==
    /\ key \in KeyChoices /\ mode \in SessionModes
    /\ at = [c \in Calls |-> "gate"] /\ st = [c \in Calls |-> None]
    /\ got = [c \in Calls |-> Nothing]
    /\ asking = [k \in Keys |-> None] /\ queue = [c \in Calls |-> <<>>]
    /\ promoted = {} /\ done = [c \in Calls |-> Nothing]
    /\ pending = {} /\ standing = {} /\ chan = [c \in Calls |-> Nothing] /\ abandoned = {}
    /\ ctx = {} /\ interrupted = FALSE
    /\ conn \in [Conns -> {"on", "off"}] /\ moves = 0
    /\ allowances = {} /\ prior = [c \in Calls |-> {}]

CallStep(c) ==
    \/ Gated(c) \/ Ask(c) \/ TakeShared(c) \/ Promoted(c) \/ GiveUp(c)
    \/ Publish(c) \/ Stand(c) \/ Select(c) \/ Retire(c) \/ Leave(c) \/ Decide(c)

ConnStep(a) == CheckAskers(a) \/ AbandonStanding(a)

Step ==
    \/ \E c \in Calls : CallStep(c) \/ CancelCall(c)
    \/ \E a \in Conns : ConnStep(a) \/ Attach(a) \/ Detach(a)
    \/ \E a \in Answers : Resolve(a)
    \/ Interrupt

Next == Step /\ UNCHANGED <<key, mode>>

Spec == Init /\ [][Next]_vars

-----------------------------------------------------------------------------
(* Properties.                                                             *)

Returns == Answers \cup {NoAsker, Cut, Nothing}

\* Types of every variable.
TypeOK ==
    /\ key \in [Calls -> Keys] /\ mode \in Modes
    /\ at \in [Calls -> {"gate", "ask", "wait", "raise", "publish", "select", "retire", "leave",
                         "answered"} \cup Ended]
    /\ st \in [Calls -> Calls \cup {None}] /\ got \in [Calls -> Returns]
    /\ asking \in [Keys -> Calls \cup {None}] /\ queue \in [Calls -> Seq(Calls)]
    /\ promoted \subseteq Calls /\ done \in [Calls -> Returns]
    /\ pending \subseteq Calls /\ standing \subseteq Calls
    /\ chan \in [Calls -> Answers \cup {Nothing}] /\ abandoned \subseteq Calls
    /\ ctx \subseteq Calls /\ interrupted \in BOOLEAN
    /\ conn \in [Conns -> {"on", "off", "leaving", "abandoning"}] /\ moves \in 0..MaxMoves
    /\ allowances \subseteq {MatcherOf[k] : k \in Keys} /\ prior \in [Calls -> SUBSET Calls]

\* Does call c hold the question it raised or was promoted to.
Holds(c) ==
    \/ at[c] \in {"raise", "publish", "select", "retire", "leave"}
    \/ at[c] = "wait" /\ c \in promoted

\* A call never runs on consent given for another call's arguments: the answer
\* it took was for the same matcher and input, or for the session and covers it.
ConsentIsForTheseArguments ==
    \A c \in Calls : at[c] = "ran" /\ got[c] # Nothing =>
        \/ key[got[c].of] = key[c]
        \/ got[c].scope = "session" /\ Mat(got[c].of) = Mat(c) /\ key[c] \notin Dangerous

\* Unless the mode is off, a dangerous call runs only on an answer to its own
\* question, never on an allowance or on another call's answer.
DangerousTakesItsOwnAnswer ==
    \A c \in Calls : at[c] = "ran" /\ key[c] \in Dangerous /\ mode # "off" =>
        got[c] \in Answers /\ key[got[c].of] = key[c]

\* No call takes an answer that was given before it asked.
NoAnswerFromBefore ==
    \A c \in Calls : got[c] \in Answers => got[c].of \notin prior[c]

\* A call runs only on consent that was given for it, and since it asked.
ConsentIsItsOwn == ConsentIsForTheseArguments /\ NoAnswerFromBefore

\* A standing question always has exactly one holder, so no call parked on it
\* is stranded when the holder is cancelled, and it is retired only once.
NobodyStranded ==
    \A c \in Calls : at[c] = "wait" /\ done[st[c]] = Nothing =>
        Cardinality({d \in Calls : st[d] = st[c] /\ Holds(d)}) = 1

\* With every asker gone and its detach finished, no question is left that only
\* an asker could settle: whoever waits has been answered, abandoned or cancelled.
DeniedWhenNobodyLeft ==
    (\A a \in Conns : conn[a] = "off") =>
        \A c \in Calls : at[c] = "select" => chan[c] # Nothing \/ c \in abandoned \cup ctx

\* No call waits on a question that nobody will settle: a holder is always there to retire it,
\* and the last asker's leaving releases it (leave, abandonStanding).
NobodyLeftWaiting == NobodyStranded /\ DeniedWhenNobodyLeft

\* What session_live.go:930-937 says of resolveAnswer, which deletes a key's entry without
\* looking: the entry is that of the question it answers, never a successor's. It is not so
\* when a holder that was answered takes its cancelled context and promotes a joiner.
EntryIsTheirOwn == \A c \in pending : asking[key[c]] \in {None, st[c]}
=============================================================================
