---------------------------- MODULE RuntimeApproval ----------------------------
(***************************************************************************)
(* Approvals the Codex app server asks for in the middle of a turn         *)
(* (internal/server/runtime_approval.go, abandonStanding of                *)
(* session_live.go, the turn and item events of runtime_session.go, the    *)
(* request half of internal/provider/codexapp/peer.go and approval.go).    *)
(*                                                                         *)
(* A question waits in a goroutine of its own (RequestApproval).  It is    *)
(* settled by an asker's answer, by the askers leaving, by its context (the*)
(* process died, the child withdrew it, the time is up, the server stops)  *)
(* or by the dispatcher when its item or its turn ends.  rs.mu is held by  *)
(* an answer and by the end of a turn until they have recorded and sent    *)
(* their decision; obsMu only guards the tables.  The child may use the    *)
(* request ids of an earlier turn again.                                   *)
(***************************************************************************)
EXTENDS Naturals, Sequences, FiniteSets

CONSTANTS
    Questions,  \* questions the child may ask, as records with a turn and a request id
    Askers,     \* connections that declared they answer questions
    MaxTurns,   \* bound: turns
    MaxJoins    \* bound: times an asker attaches

Turns == 1..MaxTurns
Ids == {r.id : r \in Questions}
Nobody == "nobody"
Dispatcher == "dispatcher"

VARIABLES
    turn,       \* the turn the runtime is in, or was in last
    active,     \* rs.active is that turn
    item,       \* rs.items holds its item
    rsmu,       \* who holds rs.mu across steps: nobody, the dispatcher or an answer
    hand,       \* the answer that holds it: at most one
    askers,     \* askers attached
    joins,      \* attachments so far
    asked,      \* the questions an asker was shown
    seen,       \* ls.runtimeAnswered: "no" (not a key), "open" or "answered", by id
    open,       \* ls.runtimeApprovals, as the set of questions in it
    answered,   \* questions with pending.answered
    abandoned,  \* questions with pending.abandoned
    leaving,    \* detach found no asker left and has not yet abandoned the questions
    reply,      \* pending.answer: what was sent and not received
    expired,    \* questions whose context is done
    todo,       \* what the dispatcher has taken and must record and send
    ending,     \* the dispatcher is at the end of a turn
    pc,         \* where RequestApproval is
    record,     \* history: decisions recorded for a question
    granted     \* questions the child was told are allowed

tables == <<seen, open, answered, abandoned>>
turns == <<turn, active, item>>
lock == <<rsmu, hand>>
conns == <<askers, joins, asked, leaving>>
disp == <<todo, ending>>
vars == <<turns, lock, conns, tables, reply, expired, disp, pc, record, granted>>

Init ==
    /\ turn = 0 /\ active = FALSE /\ item = FALSE /\ rsmu = Nobody /\ hand = {}
    /\ askers = {} /\ joins = 0 /\ asked = [a \in Askers |-> {}] /\ leaving = FALSE
    /\ seen = [i \in Ids |-> "no"] /\ open = {} /\ answered = {} /\ abandoned = {}
    /\ reply = [r \in Questions |-> <<>>] /\ expired = {} /\ todo = {} /\ ending = FALSE
    /\ pc = [r \in Questions |-> "none"] /\ granted = {}
    /\ record = [r \in Questions |-> <<>>]

TypeOK ==
    /\ turn \in 0..MaxTurns /\ {active, item, leaving, ending} \subseteq BOOLEAN
    /\ askers \subseteq Askers /\ open \cup answered \cup expired \cup todo \subseteq Questions
    /\ \A r \in Questions : Len(reply[r]) <= 1

Idle == todo = {} /\ ~ending

\* recordRuntimeDecision: the append may fail, and then nothing is recorded.
Recorded(r, d, by) ==
    [record EXCEPT ![r] = Append(@, [decision |-> d, by |-> by])]

-----------------------------------------------------------------------------
(* The dispatcher: turn/started, an item's end, a turn's end, a withdrawal.*)

StartTurn ==
    /\ Idle /\ rsmu = Nobody /\ ~active /\ turn < MaxTurns
    /\ turn' = turn + 1 /\ active' = TRUE /\ item' = TRUE
    /\ UNCHANGED <<lock, conns, tables, reply, expired, disp, pc, record, granted>>

\* Mutant: the questions are claimed and nothing is sent to their waiters.
TakeOut_Silent(which) ==
    /\ open' = open \ which /\ todo' = {}
    /\ answered' = answered \cup which
    /\ seen' = [i \in Ids |-> IF \E r \in which \ answered : r.id = i THEN "answered" ELSE seen[i]]
    /\ UNCHANGED abandoned

\* The questions a resolution takes out of the tables, and those it has to deny.
TakeOut(which) ==
    /\ open' = open \ which /\ todo' = which \ answered
    /\ answered' = answered \cup which
    /\ seen' = [i \in Ids |-> IF \E r \in which \ answered : r.id = i THEN "answered" ELSE seen[i]]
    /\ UNCHANGED abandoned

\* EventItemCompleted, then failRuntimeApprovalsForItem.
ItemCompleted ==
    /\ Idle /\ rsmu = Nobody /\ active /\ item /\ item' = FALSE
    /\ TakeOut({r \in open \ answered : r.turn = turn})
    /\ UNCHANGED <<turn, active, lock, conns, reply, expired, ending, pc, record, granted>>

\* EventTurnCompleted or EventRuntimeFailed: rs.mu is kept until every approval of the
\* turn is settled and the ids are free again.
EndTurn ==
    /\ Idle /\ rsmu = Nobody /\ active
    /\ active' = FALSE /\ item' = FALSE /\ rsmu' = Dispatcher /\ ending' = TRUE /\ UNCHANGED hand
    /\ TakeOut({r \in open : r.turn = turn})
    /\ UNCHANGED <<turn, conns, reply, expired, pc, record, granted>>

\* EventRequestResolved: the reader has cancelled the request's context already.
RequestResolved(r) ==
    /\ Idle /\ r \in expired /\ r \in open
    /\ TakeOut({s \in open : s.id = r.id})
    /\ UNCHANGED <<turns, lock, conns, reply, expired, ending, pc, record, granted>>

\* One denial of a resolution is recorded and sent.
Deny(r) ==
    /\ r \in todo /\ todo' = todo \ {r}
    /\ record' \in {Recorded(r, "deny", "stale"), record}
    /\ reply[r] = <<>> /\ reply' = [reply EXCEPT ![r] = <<"deny">>]
    /\ UNCHANGED <<turns, lock, conns, tables, expired, ending, pc, granted>>

Cleared ==
    /\ ending /\ todo = {} /\ ending' = FALSE /\ rsmu' = Nobody /\ UNCHANGED hand
    /\ seen' = [i \in Ids |-> "no"]
    /\ UNCHANGED <<turns, conns, open, answered, abandoned, reply, expired, todo, pc, record,
                   granted>>

-----------------------------------------------------------------------------
(* A question: peer.handleRequest, Client.handleRequest, RequestApproval.  *)

\* The child asks during the turn, and awaitNotificationBarrier lets the request in only
\* after what the child said before it was dispatched; its reader refuses an id that is still in use.
Ask(r) ==
    /\ pc[r] = "none" /\ active /\ r.turn = turn
    /\ \A s \in Questions : s.id = r.id => pc[s] \in {"none", "done"}
    /\ pc' = [pc EXCEPT ![r] = "check"]
    /\ UNCHANGED <<turns, lock, conns, tables, reply, expired, disp, record, granted>>

Ends(r) == pc' = [pc EXCEPT ![r] = "done"]

\* The section under rs.mu: refused when its context is done or its id was used; stale
\* when its turn or item is no longer the active one; denied when nobody can answer.
Check(r) ==
    /\ pc[r] = "check" /\ rsmu = Nobody
    /\ \/ /\ r \in expired \/ (active /\ turn = r.turn /\ item /\ seen[r.id] # "no")
          /\ Ends(r) /\ UNCHANGED <<seen, open, asked, record>>
       \/ /\ r \notin expired /\ ~(active /\ turn = r.turn /\ item)
          /\ record' \in {Recorded(r, "deny", "stale"), record}
          /\ Ends(r) /\ UNCHANGED <<seen, open, asked>>
       \/ /\ r \notin expired /\ active /\ turn = r.turn /\ item /\ seen[r.id] = "no"
          /\ IF askers = {}
             THEN /\ seen' = [seen EXCEPT ![r.id] = "answered"]
                  /\ record' \in {Recorded(r, "deny", "no_asker"), record}
                  /\ Ends(r) /\ UNCHANGED <<open, asked>>
             ELSE /\ seen' = [seen EXCEPT ![r.id] = "open"] /\ open' = open \cup {r}
                  /\ asked' = [a \in Askers |->
                                 IF a \in askers THEN asked[a] \cup {r} ELSE asked[a]]
                  /\ pc' = [pc EXCEPT ![r] = "wait"] /\ UNCHANGED record
    /\ UNCHANGED <<turns, lock, askers, joins, leaving, answered, abandoned, reply, expired,
                   disp, granted>>

\* The select: an answer, the askers gone, or the context done.
Wake(r) ==
    /\ pc[r] = "wait"
    /\ \/ reply[r] # <<>> /\ pc' = [pc EXCEPT ![r] = "take"]
       \/ r \in abandoned /\ pc' = [pc EXCEPT ![r] = "disconnect"]
       \/ r \in expired /\ pc' = [pc EXCEPT ![r] = "context"]
    /\ UNCHANGED <<turns, lock, conns, tables, reply, expired, disp, record, granted>>

\* Mutant: the waiter does not look whether the question was claimed.
Claim_Twice(r) ==
    /\ pc[r] \in {"disconnect", "context"}
    /\ answered' = answered \cup {r}
    /\ seen' = [seen EXCEPT ![r.id] = "answered"]
    /\ open' = IF pc[r] = "context" THEN open \ {r} ELSE open
    /\ record' \in {Recorded(r, "deny", pc[r]), record}
    /\ Ends(r)
    /\ UNCHANGED <<turns, lock, conns, abandoned, reply, expired, disp, granted>>

\* finishRuntimeApproval: the waiter claims its own question, or someone has and will send.
Claim(r) ==
    /\ pc[r] \in {"disconnect", "context"}
    /\ IF r \in answered
       THEN pc' = [pc EXCEPT ![r] = "take"] /\ UNCHANGED <<seen, open, answered, record>>
       ELSE /\ answered' = answered \cup {r}
            /\ seen' = [seen EXCEPT ![r.id] = "answered"]
            /\ open' = IF pc[r] = "context" THEN open \ {r} ELSE open
            /\ record' \in {Recorded(r, "deny", pc[r]), record}
            /\ Ends(r)
    /\ UNCHANGED <<turns, lock, conns, abandoned, reply, expired, disp, granted>>

\* It receives the answer and hands it to the child, unless the context is done by then.
Take(r) ==
    /\ pc[r] = "take" /\ reply[r] # <<>> /\ reply' = [reply EXCEPT ![r] = <<>>]
    /\ granted' = IF Head(reply[r]) = "allow" /\ r \notin expired
                  THEN granted \cup {r} ELSE granted
    /\ Ends(r)
    /\ UNCHANGED <<turns, lock, conns, tables, expired, disp, record>>

\* The process died, the child withdrew the question, or the time is up.
Expire(r) ==
    /\ pc[r] \notin {"none", "done"} /\ r \notin expired /\ expired' = expired \cup {r}
    /\ UNCHANGED <<turns, lock, conns, tables, reply, disp, pc, record, granted>>

-----------------------------------------------------------------------------
(* The askers.                                                             *)

\* An asker attaches and is shown what is open.
Attach(a) ==
    /\ a \notin askers /\ joins < MaxJoins /\ joins' = joins + 1
    /\ askers' = askers \cup {a}
    /\ asked' = [asked EXCEPT ![a] = @ \cup (open \ (answered \cup abandoned))]
    /\ UNCHANGED <<turns, lock, leaving, tables, reply, expired, disp, pc, record, granted>>

\* It leaves; abandonStanding then asks who is left, and takes obsMu later.
Detach(a) ==
    /\ a \in askers /\ ~leaving /\ askers' = askers \ {a} /\ leaving' = (askers' = {})
    /\ asked' = [asked EXCEPT ![a] = {}]
    /\ UNCHANGED <<turns, lock, joins, tables, reply, expired, disp, pc, record, granted>>

Abandon ==
    /\ leaving /\ leaving' = FALSE /\ abandoned' = abandoned \cup (open \ answered)
    /\ UNCHANGED <<turns, lock, askers, joins, asked, seen, open, answered, reply, expired,
                   disp, pc, record, granted>>

\* handleRuntimeApprovalAnswer: the answer names a turn and a request id; the question
\* it finds under that id must be of that turn, open, in time and about a live item.
Answer(a, r, d) ==
    /\ a \in askers /\ r \in asked[a] /\ rsmu = Nobody
    /\ active /\ turn = r.turn /\ item
    /\ \E s \in open :
         /\ s.id = r.id /\ s.turn = r.turn /\ s \notin answered \cup abandoned \cup expired
         /\ seen[s.id] # "answered"
         /\ answered' = answered \cup {s} /\ seen' = [seen EXCEPT ![s.id] = "answered"]
         /\ rsmu' = "answer" /\ hand' = {[by |-> a, r |-> s, d |-> d]}
    /\ UNCHANGED <<turns, conns, open, abandoned, reply, expired, disp, pc, record, granted>>

\* It records the decision and sends it; a decision that cannot be recorded is a denial.
Settle ==
    /\ rsmu = "answer" /\ rsmu' = Nobody /\ hand' = {}
    /\ \E x \in hand :
         /\ reply[x.r] = <<>>
         /\ \/ /\ record' = Recorded(x.r, x.d, x.by)
               /\ reply' = [reply EXCEPT ![x.r] = <<x.d>>]
            \/ reply' = [reply EXCEPT ![x.r] = <<"deny">>] /\ UNCHANGED record
    /\ UNCHANGED <<turns, conns, tables, expired, disp, pc, granted>>

-----------------------------------------------------------------------------
Waiter(r) == Check(r) \/ Wake(r) \/ Claim(r) \/ Take(r)
Dispatch == Cleared \/ \E r \in Questions : Deny(r)

Next ==
    \/ StartTurn \/ ItemCompleted \/ EndTurn \/ Dispatch \/ Abandon \/ Settle
    \/ \E r \in Questions : Ask(r) \/ Waiter(r) \/ Expire(r) \/ RequestResolved(r)
    \/ \E a \in Askers : Attach(a) \/ Detach(a)
    \/ \E a \in Askers, r \in Questions, d \in {"allow", "deny"} : Answer(a, r, d)

\* A goroutine that can run does; nothing makes a client or the child act.
Fair ==
    /\ \A r \in Questions : WF_vars(Waiter(r))
    /\ WF_vars(Dispatch) /\ WF_vars(Settle) /\ WF_vars(Abandon)

Spec == Init /\ [][Next]_vars /\ Fair

-----------------------------------------------------------------------------
(* What is checked.                                                        *)

\* A question is decided once: an answer, a disconnect, a timeout, a withdrawal and the
\* end of its turn race, and the log gets at most one runtime_permission_decision for it.
DecidedOnce == \A r \in Questions : Len(record[r]) <= 1

\* The child is told "allow" only for a question an asker was shown and allowed, with
\* that decision recorded first: never for an answer to the question of another turn
\* under the same request id, nor for one whose decision could not be written.
AllowIsRecorded ==
    \A r \in granted : \E a \in Askers : record[r] = <<[decision |-> "allow", by |-> a]>>

\* Every question has at most one decision, and an allow the child hears is that decision.
OneRecordedDecision == DecidedOnce /\ AllowIsRecorded

\* RequestApproval returns once its turn is over or its context is done, whoever claimed
\* the question: a claim is always followed by the one send the waiter needs, and the
\* answer channel's single place is never needed twice.
WaiterReturns ==
    \A r \in Questions :
        (pc[r] \notin {"none", "done"} /\ (r \in expired \/ r.turn < turn \/ ~active))
            ~> pc[r] = "done"
=============================================================================
