------------------------------ MODULE TurnRunner ------------------------------
(***************************************************************************)
(* One session's turn.Runner (internal/turn): the goroutine that runs Run, *)
(* one goroutine per tool call of the message it streamed, and Interrupt,  *)
(* which any client's handler may call at any moment.                      *)
(*                                                                         *)
(* `pc' is where the Run goroutine is and `arg' what it carries there;     *)
(* at[u] and what[u] are the same for the call of tool_use u.  Each action *)
(* is one critical section of the code: a step under Runner.mu, one append *)
(* to the session, one visit to the inflight set, or one external call     *)
(* returning.                                                              *)
(***************************************************************************)
EXTENDS Integers, Sequences, FiniteSets

CONSTANTS
    MaxRuns,     \* bound: calls of Run
    MaxUses,     \* bound: tool_use ids ever issued
    MaxBatch,    \* bound: tool_uses of one assistant message
    MaxFaults,   \* bound: appends or syncs that fail
    StepLimit,   \* Config.MaxSteps, 0 for none
    Faulty,      \* may a tool panic or have no Invoke
    Compacts     \* is a Compactor configured

ASSUME TurnRunnerAssumption ==
    /\ MaxRuns \in Nat /\ MaxUses \in Nat /\ MaxBatch \in Nat
    /\ MaxFaults \in Nat /\ StepLimit \in Nat
    /\ Faulty \in BOOLEAN /\ Compacts \in BOOLEAN

Uses == 1..MaxUses

VARIABLES
    state,       \* Runner.state
    turn,        \* Runner.turn: the run that started the turn, 0 before its first append
    interrupt,   \* Runner.interrupt
    streamCut,   \* is the context of the request in flight cancelled
    latched,     \* inflight.cancelled
    cut,         \* cut[u]: has call u's own context been cancelled
    ctxDone,     \* has the caller's context ended
    pc, arg,     \* the Run goroutine
    steps,       \* provider requests of this Run
    batch,       \* tool_uses of the message in hand, in call order
    malformed,   \* those of them whose input is not JSON
    at, what,    \* the goroutine of each call
    out,         \* toolOutcome of each call
    log, synced, \* the session's entries, and how many are durable
    runs, issued, faults,
    hit,         \* history: runs an interrupt or the end of ctx landed in
    cancelled,   \* history: when this run was cancelled
    saw          \* history: was the turn already cut when u's Invoke returned

runner == <<state, turn, interrupt, streamCut>>
flow == <<pc, arg, steps>>
message == <<batch, malformed, issued>>
calls == <<at, what, out>>
flight == <<latched, cut>>
disk == <<log, synced, faults>>
caller == <<runs, ctxDone>>
history == <<hit, cancelled, saw>>
vars == <<runner, flow, message, calls, flight, disk, caller, history>>

Resting == {"idle", "completed", "failed"}
Active == {"streaming", "awaiting_permission", "running_tool"}
States == Resting \cup Active \cup {"steering"}
Interrupts == {"none", "steer", "cancel"}
Least(S) == CHOOSE u \in S : \A v \in S : u <= v

-----------------------------------------------------------------------------
(* The session's log, as far as the runner can tell.                       *)

Entry(k, us, w) == [kind |-> k, run |-> runs, turn |-> turn, uses |-> us, what |-> w]

Said(k, u) == \E i \in DOMAIN log : log[i].kind = k /\ u \in log[i].uses

Pending(u) == Said("assistant_message", u) /\ ~Said("tool_result", u)

\* Session.Append's rules for what a turn writes; Validate refuses a turn_failed
\* that names no turn.
Legal(e) ==
    CASE e.kind = "permission_decision" ->
            \A u \in e.uses : Pending(u) /\ ~Said("permission_decision", u)
      [] e.kind = "tool_result" ->
            \A u \in e.uses : Pending(u) /\ Said("permission_decision", u)
      [] e.kind = "turn_failed" -> e.turn # 0
      [] OTHER -> TRUE

Appended(e) ==
    /\ Legal(e)
    /\ log' = Append(log, e)
    /\ UNCHANGED <<synced, faults>>

Fault == faults < MaxFaults /\ faults' = faults + 1

AppendFails(e) ==
    /\ \/ ~Legal(e) /\ UNCHANGED faults
       \/ Legal(e) /\ Fault
    /\ UNCHANGED <<log, synced>>

-----------------------------------------------------------------------------
(* Run: claim the turn, append the message, loop.                          *)

\* What every Run does under mu before it appends anything.
Claim(s) ==
    /\ pc = "out" /\ ~ctxDone
    /\ runs < MaxRuns /\ runs' = runs + 1
    /\ state' = s
    /\ interrupt' = "none" /\ streamCut' = FALSE
    /\ latched' = FALSE /\ cut' = [u \in Uses |-> FALSE]
    /\ pc' = "message" /\ arg' = "none" /\ steps' = 0
    /\ cancelled' = "no"
    /\ UNCHANGED <<message, calls, disk, ctxDone, hit, saw>>

\* A typed message: the server builds a new Runner for it, which stays Idle
\* until its loop first sets Streaming.
Start == state \in Resting /\ turn' = 0 /\ Claim("idle")

\* Mutant: the resume is not claimed under mu.
Resume_Unclaimed == state = "steering" /\ UNCHANGED turn /\ Claim("steering")

\* A steer message resumes the turn that is Steering, under the same id.
Resume == state = "steering" /\ UNCHANGED turn /\ Claim("streaming")

\* Go to p carrying a, with everything but the listed variables unchanged.
Goto(p, a) == pc' = p /\ arg' = a /\ UNCHANGED steps

AppendMessage ==
    LET id == IF turn = 0 THEN runs ELSE turn
        e == [Entry("user_message", {}, IF turn = 0 THEN "typed" ELSE "steer") EXCEPT !.turn = id]
    IN  /\ pc = "message"
        /\ \/ Appended(e) /\ turn' = id /\ Goto("loop", "none")
           \/ AppendFails(e) /\ UNCHANGED turn /\ Goto("fail", "internal")
        /\ UNCHANGED <<state, interrupt, streamCut, message, calls, flight, caller, history>>

\* The head of loop: the step limit, then setState(Streaming).
NextStep ==
    /\ pc = "loop"
    /\ steps' = steps + 1
    /\ IF StepLimit > 0 /\ steps' > StepLimit
       THEN pc' = "fail" /\ arg' = "limit" /\ UNCHANGED state
       ELSE pc' = "request" /\ arg' = "none" /\ state' = "streaming"
    /\ UNCHANGED <<turn, interrupt, streamCut, message, calls, flight, disk, caller, history>>

\* setStreamCancel: a request that starts under an interrupt is cancelled at once.
Request ==
    /\ pc = "request" /\ Goto("streaming", "none")
    /\ streamCut' = (interrupt # "none")
    /\ batch' = {} /\ malformed' = {}
    /\ UNCHANGED <<state, turn, interrupt, issued, calls, flight, disk, caller, history>>

\* Provider.Complete returns a message, whole or partial, and perhaps an error.
StreamReturns ==
    /\ pc = "streaming"
    /\ \E n \in 0..MaxBatch : \E bad \in SUBSET ((issued + 1)..(issued + n)) :
        /\ issued + n <= MaxUses
        /\ issued' = issued + n
        /\ batch' = (issued + 1)..(issued + n)
        /\ malformed' = bad
    /\ \E e \in {"ok", "error"} : Goto("streamed", e)
    /\ UNCHANGED <<runner, calls, flight, disk, caller, history>>

\* The loop looks at the interrupt, then at the error.
ObserveStream ==
    /\ pc = "streamed"
    /\ CASE interrupt # "none" -> Goto("partial", interrupt)
         [] interrupt = "none" /\ arg = "error" /\ ctxDone -> Goto("partial", "cancel")
         [] interrupt = "none" /\ arg = "error" /\ ~ctxDone -> Goto("fail", "provider")
         [] OTHER -> Goto("whole", "none")
    /\ UNCHANGED <<runner, message, calls, flight, disk, caller, history>>

\* A message that was cut keeps the tool_uses that parse, and they never run.
AppendPartial ==
    LET e == Entry("assistant_message", batch \ malformed, "interrupted")
    IN  /\ pc = "partial"
        /\ \/ Appended(e) /\ Goto("finish", arg)
           \/ AppendFails(e) /\ Goto("fail", "internal")
        /\ batch' = {} /\ malformed' = {}
        /\ UNCHANGED <<runner, issued, calls, flight, caller, history>>

\* sanitizeToolInputs keeps malformed tool_uses in the message, with input {}.
AppendWhole ==
    LET e == Entry("assistant_message", batch, "whole")
    IN  /\ pc = "whole"
        /\ \/ Appended(e) /\ Goto("compact", "none")
           \/ AppendFails(e) /\ Goto("fail", "internal")
        /\ UNCHANGED <<runner, message, calls, flight, caller, history>>

\* maybeCompact: below the threshold, or a summary request under the caller's
\* context, which Interrupt does not reach.
MaybeCompact ==
    /\ pc = "compact"
    /\ \/ Goto("dispatch", "none")
       \/ Compacts /\ Goto("compacting", "none")
    /\ UNCHANGED <<runner, message, calls, flight, disk, caller, history>>

\* A compaction that fails is logged and the turn goes on.
CompactReturns ==
    /\ pc = "compacting" /\ Goto("dispatch", "none")
    /\ \/ Appended(Entry("compaction", {}, "summary"))
       \/ UNCHANGED disk
    /\ UNCHANGED <<runner, message, calls, flight, caller, history>>

\* With no tool_use the turn is over.  Otherwise malformed inputs are refused in
\* order, then every other call gets its goroutine.
Dispatch ==
    /\ pc = "dispatch"
    /\ IF malformed # {} THEN Goto("refuse", "deny") /\ UNCHANGED calls
       ELSE IF batch # {} \/ arg = "refused"
            THEN /\ Goto("wait", "none")
                 /\ at' = [u \in Uses |-> IF u \in batch THEN "start" ELSE at[u]]
                 /\ UNCHANGED <<what, out>>
            ELSE Goto("sync", "completed") /\ UNCHANGED calls
    /\ UNCHANGED <<runner, message, flight, disk, caller, history>>

RefuseMalformed ==
    LET u == Least(malformed)
        e == IF arg = "deny" THEN Entry("permission_decision", {u}, "deny")
                             ELSE Entry("tool_result", {u}, "error")
    IN  /\ pc = "refuse"
        /\ \/ /\ Appended(e)
              /\ IF arg = "deny" THEN Goto("refuse", "error") /\ UNCHANGED <<batch, malformed>>
                 ELSE /\ Goto("dispatch", "refused")
                      /\ batch' = batch \ {u} /\ malformed' = malformed \ {u}
           \/ AppendFails(e) /\ Goto("fail", "internal") /\ UNCHANGED <<batch, malformed>>
        /\ UNCHANGED <<runner, issued, calls, flight, caller, history>>

\* Mutant: the turn ends the way its first interrupted call saw it.
EndTurn_FirstSeen ==
    LET asked == {u \in batch : out[u] # "none"}
    IN  /\ pc = "wait" /\ \A u \in batch : at[u] = "done"
        /\ IF asked = {} THEN Goto("loop", "none")
           ELSE LET o == out[Least(asked)]
                IN  CASE o = "ctx" -> Goto("finish", "cancel")
                      [] o \in {"steer", "cancel"} -> Goto("finish", o)
                      [] OTHER -> Goto("fail", o)
        /\ UNCHANGED <<runner, message, calls, flight, disk, caller, history>>

\* wg.Wait, then endTurn: the first call in call order that asks for an ending
\* decides, and an interrupt ends the turn the way it stands now.
EndTurn ==
    LET asked == {u \in batch : out[u] # "none"}
    IN  /\ pc = "wait" /\ \A u \in batch : at[u] = "done"
        /\ IF asked = {} THEN Goto("loop", "none")
           ELSE LET o == out[Least(asked)]
                IN  CASE o = "ctx" -> Goto("finish", "cancel")
                      [] o \in {"steer", "cancel"} ->
                            Goto("finish", IF interrupt # "none" THEN interrupt ELSE o)
                      [] OTHER -> Goto("fail", o)
        /\ UNCHANGED <<runner, message, calls, flight, disk, caller, history>>

\* finishInterrupt: a steer only rests, a cancel is recorded first.
FinishInterrupt ==
    LET e == Entry("turn_interrupted", {}, arg)
    IN  /\ pc = "finish"
        /\ \/ arg = "steer" /\ Goto("sync", "steering") /\ UNCHANGED disk
           \/ arg = "cancel" /\ Appended(e) /\ Goto("sync", "idle")
           \/ arg = "cancel" /\ AppendFails(e) /\ Goto("fail", "internal")
        /\ UNCHANGED <<runner, message, calls, flight, caller, history>>

\* rest: Sync, clearInterrupt and setState are three critical sections.
RestSync ==
    /\ pc = "sync"
    /\ \/ synced' = Len(log) /\ Goto("clear", arg) /\ UNCHANGED <<log, faults>>
       \/ Fault /\ Goto("fail", "internal") /\ UNCHANGED <<log, synced>>
    /\ UNCHANGED <<runner, message, calls, flight, caller, history>>

ClearInterrupt ==
    /\ pc = "clear" /\ Goto("settle", arg)
    /\ interrupt' = "none"
    /\ UNCHANGED <<state, turn, streamCut, message, calls, flight, disk, caller, history>>

Settle ==
    /\ pc = "settle" /\ Goto("out", "none")
    /\ state' = arg
    /\ UNCHANGED <<turn, interrupt, streamCut, message, calls, flight, disk, caller, history>>

\* fail: both the turn_failed and its sync are best effort.
Fail ==
    LET e == Entry("turn_failed", {}, arg)
    IN  /\ pc = "fail" /\ Goto("clear", "failed")
        /\ \/ AppendFails(e)
           \/ /\ Legal(e)
              /\ log' = Append(log, e)
              /\ \/ synced' = Len(log') /\ UNCHANGED faults
                 \/ Fault /\ UNCHANGED synced
        /\ UNCHANGED <<runner, message, calls, flight, caller, history>>

-----------------------------------------------------------------------------
(* runTool, one goroutine per call.                                        *)

CallGoto(u, p, w) == at' = [at EXCEPT ![u] = p] /\ what' = [what EXCEPT ![u] = w]

CallEnds(u, o) ==
    /\ at' = [at EXCEPT ![u] = "done"]
    /\ out' = [out EXCEPT ![u] = o]
    /\ UNCHANGED what

\* The tool is looked up, before_tool hooks and then the gate decide.  An ask
\* moves the whole turn to AwaitingPermission.
GateCall(u) ==
    /\ at[u] = "start" /\ UNCHANGED out
    /\ \/ CallGoto(u, "refuse", "error") /\ UNCHANGED state    \* unknown tool
       \/ \E d \in {"allow", "deny"} : CallGoto(u, "decide", d) /\ UNCHANGED state
       \/ CallGoto(u, "question", "none") /\ state' = "awaiting_permission"
    /\ UNCHANGED <<turn, interrupt, streamCut, flow, message, flight, disk, caller, history>>

\* Mutant: a call that registers after cancelAll is not cancelled.
Register_NoLatch(u, p) ==
    /\ CallGoto(u, p, "none") /\ UNCHANGED out
    /\ UNCHANGED <<cut, latched>>

\* inflight.add: registering after cancelAll cancels the call on the spot.
Register(u, p) ==
    /\ CallGoto(u, p, "none") /\ UNCHANGED out
    /\ cut' = [cut EXCEPT ![u] = latched] /\ UNCHANGED latched

Ask(u) ==
    /\ at[u] = "question" /\ Register(u, "asking")
    /\ UNCHANGED <<runner, flow, message, disk, caller, history>>

\* Asker.Ask returns an answer, or an error (ErrNoAsker, its context's end).
AskReturns(u) ==
    /\ at[u] = "asking" /\ UNCHANGED out
    /\ \E a \in {"allow", "deny"} : CallGoto(u, "asked", a)
    /\ UNCHANGED <<runner, flow, message, flight, disk, caller, history>>

\* Mutant: a question that was interrupted leaves nothing in the log.
ObserveAsk_Silent(u) ==
    /\ at[u] = "asked"
    /\ IF interrupt # "none" THEN CallEnds(u, interrupt)
       ELSE IF ctxDone THEN CallEnds(u, "ctx")
       ELSE CallGoto(u, "decide", what[u]) /\ UNCHANGED out
    /\ UNCHANGED <<runner, flow, message, flight, disk, caller, history>>

\* The interrupt is looked at before the answer: a question asked of a turn that
\* was cut is refused, whatever the asker said.
ObserveAsk(u) ==
    /\ at[u] = "asked"
    /\ IF interrupt # "none" THEN CallGoto(u, "refuse", "killed") /\ out' = [out EXCEPT ![u] = interrupt]
       ELSE IF ctxDone THEN CallGoto(u, "refuse", "killed") /\ out' = [out EXCEPT ![u] = "ctx"]
       ELSE CallGoto(u, "decide", what[u]) /\ UNCHANGED out
    /\ UNCHANGED <<runner, flow, message, flight, disk, caller, history>>

\* refuse: the deny, then the result (see AppendResult).
Refuse(u) ==
    LET e == Entry("permission_decision", {u}, "deny")
    IN  /\ at[u] = "refuse"
        /\ \/ Appended(e) /\ CallGoto(u, "result", what[u]) /\ UNCHANGED out
           \/ AppendFails(e) /\ CallEnds(u, "internal")
        /\ UNCHANGED <<runner, flow, message, flight, caller, history>>

\* The decision is appended; a deny is answered with an error result.
Decide(u) ==
    LET e == Entry("permission_decision", {u}, what[u])
    IN  /\ at[u] = "decide"
        /\ \/ /\ Appended(e) /\ UNCHANGED out
              /\ IF what[u] = "deny" THEN CallGoto(u, "result", "error")
                                     ELSE CallGoto(u, "allowed", "none")
           \/ AppendFails(e) /\ CallEnds(u, "internal")
        /\ UNCHANGED <<runner, flow, message, flight, caller, history>>

\* setState(RunningTool); a tool without Invoke is a plugin fault.
SetRunning(u) ==
    /\ at[u] = "allowed" /\ state' = "running_tool"
    /\ \/ CallGoto(u, "invoke", "none") /\ UNCHANGED out
       \/ Faulty /\ CallEnds(u, "plugin")
    /\ UNCHANGED <<turn, interrupt, streamCut, flow, message, flight, disk, caller, history>>

Invoke(u) ==
    /\ at[u] = "invoke" /\ Register(u, "running")
    /\ UNCHANGED <<runner, flow, message, disk, caller, history>>

\* Invoke returns: a result, an error or a timeout; or it panics.
InvokeReturns(u) ==
    /\ at[u] = "running"
    /\ \/ \E w \in {"ok", "error"} : CallGoto(u, "returned", w) /\ UNCHANGED out
       \/ Faulty /\ CallEnds(u, "plugin")
    /\ saw' = [saw EXCEPT ![u] = interrupt # "none" \/ ctxDone]
    /\ UNCHANGED <<runner, flow, message, flight, disk, caller, hit, cancelled>>

\* Mutant: a tool that finished cleanly keeps its ok although the turn was cut.
ObserveInvoke_KeepsOk(u) ==
    /\ at[u] = "returned"
    /\ CallGoto(u, "result", IF what[u] = "ok" THEN "ok" ELSE "killed")
    /\ out' = [out EXCEPT ![u] = IF interrupt # "none" THEN interrupt ELSE IF ctxDone THEN "ctx" ELSE "none"]
    /\ UNCHANGED <<runner, flow, message, flight, disk, caller, history>>

\* Every call observes the interrupt and none consumes it.
ObserveInvoke(u) ==
    /\ at[u] = "returned"
    /\ IF interrupt # "none" THEN CallGoto(u, "result", "killed") /\ out' = [out EXCEPT ![u] = interrupt]
       ELSE IF ctxDone THEN CallGoto(u, "result", "killed") /\ out' = [out EXCEPT ![u] = "ctx"]
       ELSE CallGoto(u, "result", what[u]) /\ UNCHANGED out
    /\ UNCHANGED <<runner, flow, message, flight, disk, caller, history>>

\* appendToolResult; what the call asks of the turn was settled before it.
AppendResult(u) ==
    LET e == Entry("tool_result", {u}, what[u])
    IN  /\ at[u] = "result"
        /\ \/ Appended(e) /\ CallEnds(u, out[u])
           \/ AppendFails(e) /\ CallEnds(u, "internal")
        /\ UNCHANGED <<runner, flow, message, flight, caller, history>>

-----------------------------------------------------------------------------
(* The outside: interrupts and the end of the caller's context.            *)

\* Cancelling a turn parked in Steering ends it here, under mu.
CancelSteering ==
    LET e == Entry("turn_interrupted", {}, "cancel")
    IN  /\ state = "steering" /\ state' = "idle"
        /\ \/ AppendFails(e)
           \/ /\ Legal(e) /\ log' = Append(log, e)
              /\ \/ synced' = Len(log') /\ UNCHANGED faults
                 \/ Fault /\ UNCHANGED synced
        /\ hit' = hit \cup {runs}
        /\ UNCHANGED <<turn, interrupt, streamCut, flow, message, calls, flight, caller,
                       cancelled, saw>>

\* Interrupt of an active turn: the flag, the stream and every call in flight,
\* all under mu.
InterruptActive(how) ==
    /\ state \in Active
    /\ interrupt' = IF interrupt = "cancel" THEN "cancel" ELSE how
    /\ streamCut' = TRUE /\ latched' = TRUE
    /\ cut' = [u \in Uses |-> cut[u] \/ at[u] \in {"asking", "running"}]
    /\ hit' = hit \cup {runs}
    /\ cancelled' = IF how = "cancel" /\ cancelled = "no"
                    THEN IF pc \in {"partial", "finish", "sync", "clear", "settle", "fail", "out"}
                         THEN "late" ELSE "early"
                    ELSE cancelled
    /\ UNCHANGED <<state, turn, flow, message, calls, disk, caller, saw>>

CallerEnds ==
    /\ pc # "out" /\ ~ctxDone /\ ctxDone' = TRUE
    /\ hit' = hit \cup {runs}
    /\ UNCHANGED <<runner, flow, message, calls, flight, disk, runs, cancelled, saw>>

-----------------------------------------------------------------------------
Init ==
    /\ state = "idle" /\ turn = 0 /\ interrupt = "none" /\ streamCut = FALSE
    /\ latched = FALSE /\ cut = [u \in Uses |-> FALSE] /\ ctxDone = FALSE
    /\ pc = "out" /\ arg = "none" /\ steps = 0
    /\ batch = {} /\ malformed = {}
    /\ at = [u \in Uses |-> "none"] /\ what = [u \in Uses |-> "none"]
    /\ out = [u \in Uses |-> "none"]
    /\ log = <<>> /\ synced = 0
    /\ runs = 0 /\ issued = 0 /\ faults = 0
    /\ hit = {} /\ cancelled = "no" /\ saw = [u \in Uses |-> FALSE]

\* Steps of the Run goroutine that wait for nobody.
RunStep ==
    \/ AppendMessage \/ NextStep \/ Request \/ ObserveStream \/ AppendPartial \/ AppendWhole
    \/ MaybeCompact \/ Dispatch \/ RefuseMalformed \/ EndTurn \/ FinishInterrupt
    \/ RestSync \/ ClearInterrupt \/ Settle \/ Fail

\* Steps of a call's goroutine that wait for nobody.
CallStep(u) ==
    \/ GateCall(u) \/ Ask(u) \/ ObserveAsk(u) \/ Refuse(u) \/ Decide(u) \/ SetRunning(u)
    \/ Invoke(u) \/ ObserveInvoke(u) \/ AppendResult(u)

Next ==
    \/ Start \/ Resume
    \/ RunStep \/ StreamReturns \/ CompactReturns
    \/ \E u \in Uses : CallStep(u) \/ AskReturns(u) \/ InvokeReturns(u)
    \/ CancelSteering \/ CallerEnds
    \/ \E how \in {"steer", "cancel"} : InterruptActive(how)

Spec == Init /\ [][Next]_vars

\* Goroutines run; a provider, an asker or a tool is only known to return once
\* its context is cancelled.
Fairness ==
    /\ WF_vars(RunStep)
    /\ \A u \in Uses : WF_vars(CallStep(u))
    /\ WF_vars((streamCut \/ ctxDone) /\ StreamReturns)
    /\ WF_vars(ctxDone /\ CompactReturns)
    /\ \A u \in Uses : WF_vars((cut[u] \/ ctxDone) /\ (AskReturns(u) \/ InvokeReturns(u)))

FairSpec == Spec /\ Fairness

-----------------------------------------------------------------------------
(* Properties.                                                             *)

EntryKinds == {"user_message", "assistant_message", "permission_decision", "tool_result",
               "compaction", "turn_interrupted", "turn_failed"}

Words == {"none", "typed", "steer", "cancel", "whole", "interrupted", "allow", "deny", "ok",
          "error", "killed", "summary", "refused", "internal", "limit", "provider", "plugin", "ctx"}

Entries == [kind: EntryKinds, run: Nat, turn: Nat, uses: SUBSET Uses, what: Words]

RunPlaces == {"out", "message", "loop", "request", "streaming", "streamed", "partial", "whole",
              "compact", "compacting", "dispatch", "refuse", "wait", "finish", "sync", "clear",
              "settle", "fail"}

CallPlaces == {"none", "start", "refuse", "decide", "question", "asking", "asked", "allowed",
               "invoke", "running", "returned", "result", "done"}

\* Types of every variable: the values runner.go gives its fields and locals.
TypeOK ==
    /\ state \in States /\ turn \in Nat /\ interrupt \in Interrupts /\ streamCut \in BOOLEAN
    /\ latched \in BOOLEAN /\ cut \in [Uses -> BOOLEAN] /\ ctxDone \in BOOLEAN
    /\ pc \in RunPlaces /\ arg \in Words \cup States /\ steps \in Nat
    /\ batch \subseteq Uses /\ malformed \subseteq Uses
    /\ at \in [Uses -> CallPlaces] /\ what \in [Uses -> Words] /\ out \in [Uses -> Words]
    /\ log \in Seq(Entries) /\ synced \in 0..Len(log)
    /\ runs \in 0..MaxRuns /\ issued \in 0..MaxUses /\ faults \in 0..MaxFaults
    /\ hit \subseteq 0..MaxRuns /\ cancelled \in {"no", "early", "late"}
    /\ saw \in [Uses -> BOOLEAN]

\* The runner never asks the log for an entry Session.Append refuses: a turn
\* fails as internal only when a write or a sync really failed.
OnlyFaultsFailInternally ==
    \A i \in DOMAIN log : log[i].kind = "turn_failed" /\ log[i].what = "internal" => faults > 0

\* No call records success once the turn it belongs to has been cut: a tool
\* whose Invoke returned under an interrupt, or after ctx ended, is never ok.
NoSuccessAfterCut ==
    \A i \in DOMAIN log : log[i].kind = "tool_result" /\ log[i].what = "ok" =>
        \A u \in log[i].uses : ~saw[u]

Ending(e) == e.kind \in {"turn_interrupted", "turn_failed"}

\* Nothing of a turn is written after its ending, whoever wrote it, except the
\* turn_failed of a cancelled turn whose fsync failed.
NothingAfterEnding ==
    \A i, j \in DOMAIN log : i < j /\ Ending(log[i]) /\ log[j].turn = log[i].turn =>
        /\ faults > 0
        /\ log[i].kind = "turn_interrupted" /\ log[j].kind = "turn_failed"

\* When Run has returned and the turn did not fail, every tool_use of a message
\* that was not cut has its tool_result, except one whose own call failed while
\* an earlier call in call order ended the turn.
AnsweredUnlessFailed ==
    pc = "out" /\ state # "failed" =>
        \A i \in DOMAIN log : log[i].kind = "assistant_message" /\ log[i].what = "whole"
                              /\ log[i].turn = turn =>
            \A u \in log[i].uses : Said("tool_result", u) \/ out[u] \in {"internal", "plugin"}

\* A Run is cut only by an interrupt, or an end of ctx, that came while it was
\* the one running: nothing an earlier turn left behind cuts a later one.
CutByItsOwnInterrupt ==
    \A i \in DOMAIN log :
        log[i].what \in {"killed", "interrupted"} \/ log[i].kind = "turn_interrupted" =>
            log[i].run \in hit

\* A cancel that arrives while calls still run overrides a steer that some of
\* them have already seen: the turn does not park in Steering.
CancelOverridesSteer == pc = "out" /\ state = "steering" => cancelled # "early"

\* A turn that comes to rest has made everything it wrote durable.
DurableAtRest ==
    pc = "out" =>
        /\ state \in {"completed", "steering"} => synced = Len(log)
        /\ synced # Len(log) => faults > 0

\* An interrupt cuts the Run it came to and no other, as the strongest interrupt that came to it
\* asked (Interrupt, endTurn).
InterruptHeeded == CutByItsOwnInterrupt /\ CancelOverridesSteer

\* A turn's ending is the last thing it wrote, and is on disk when Run returns.
EndingIsFinal == NothingAfterEnding /\ DurableAtRest

\* Whatever the provider, the asker and the tools do before their contexts are
\* cancelled, an interrupt ends the Run it lands in, unless that Run waits for a
\* compaction's summary, which only the end of the caller's context reaches; and
\* the end of the caller's context always ends the Run.
EndsOnceCut ==
    /\ (interrupt # "none" /\ pc # "out") ~> (pc \in {"out", "compacting"})
    /\ ctxDone ~> (pc = "out")

\* Each tool_use is followed by exactly one tool_result before the next
\* assistant_message (rudy-contracts.md).
AnsweredBeforeNextMessage ==
    \A i, j \in DOMAIN log :
        i < j /\ log[i].kind = "assistant_message" /\ log[j].kind = "assistant_message" =>
            \A u \in log[i].uses : \E k \in i..j : log[k].kind = "tool_result" /\ u \in log[k].uses
=============================================================================
