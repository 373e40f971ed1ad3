--------------------------- MODULE TurnRunnerProofs ---------------------------
(***************************************************************************)
(* Proofs about TurnRunner for any number of Runs, calls and faults.       *)
(*                                                                         *)
(* What a turn leaves in the log is decided in four places: the goroutine  *)
(* of Run, the goroutine of each call, the interrupt under Runner.mu, and  *)
(* the contexts.  The inductive invariant says where each of them may be   *)
(* while another is somewhere (Placed, Calling), whom an interrupt has to  *)
(* do with (Heeded), and, for each kind of entry, what has to be so before *)
(* it can be appended (Clean, Landed, Ended, Durable, Answered).           *)
(***************************************************************************)
EXTENDS TurnRunner, WellFoundedInduction, TLAPS

-----------------------------------------------------------------------------
(* The inductive invariant                                                 *)

IsSeq(s) == \E S : s \in Seq(S)

\* The tables by call are functions, and the bounds count.
Shape ==
    /\ IsSeq(log)
    /\ at = [u \in Uses |-> at[u]] /\ what = [u \in Uses |-> what[u]]
    /\ out = [u \in Uses |-> out[u]] /\ saw = [u \in Uses |-> saw[u]]
    /\ runs \in Nat /\ turn \in 0..runs /\ faults \in Nat /\ issued \in 0..MaxUses
    /\ batch \subseteq 1..issued /\ malformed \subseteq batch
    /\ interrupt \in Interrupts

\* Where a Run is between its end and its message, and where it is when its interrupt can no
\* longer change how it ends.
Late == {"partial", "finish", "sync", "clear", "settle", "fail", "out"}
\* It failed, or is about to.
Failing ==
    \/ pc = "fail"
    \/ pc \in {"clear", "settle"} /\ arg = "failed"
    \/ pc = "out" /\ state = "failed"

\* What Run carries, and the state it leaves behind.
Placed ==
    /\ pc \in RunPlaces /\ (pc = "message" => runs > 0)
    /\ pc = "out" => state \in Resting \cup {"steering"}
    /\ state = "steering" => pc = "out"
    /\ pc = "sync" => arg \in {"completed", "idle", "steering"}
    /\ pc \in {"clear", "settle"} => arg \in Resting \cup {"steering"}
    /\ pc \in {"partial", "finish"} => arg \in {"steer", "cancel"}
    /\ pc = "fail" => arg \in {"internal", "limit", "provider", "plugin"}
    \* a turn without an id has its message still to append, or could not
    /\ turn = 0 => \/ pc = "message" \/ Failing
                   \/ pc = "out" /\ state = "idle"

\* Where Run is when the calls of its message have yet to start, and how a call can end a turn.
Before == {"streaming", "streamed", "partial", "whole", "compact", "compacting", "dispatch",
           "refuse"}
Endings == {"steer", "cancel", "ctx"}
Faults == {"internal", "plugin"}

\* The goroutine of u runs only while Run waits for it.
CallOk(u) ==
    /\ at[u] \in CallPlaces /\ out[u] \in {"none"} \cup Endings \cup Faults
    /\ at[u] \notin {"none", "done"} => pc = "wait" /\ u \in batch
    /\ pc = "wait" /\ u \in batch => at[u] # "none"
    /\ pc \in Before /\ u \in batch => at[u] = "none"
    /\ u > issued => at[u] = "none"
    /\ at[u] = "none" => out[u] = "none"
    /\ at[u] = "decide" => what[u] \in {"allow", "deny"}
    /\ at[u] = "asked" => what[u] \in {"allow", "deny"}
    /\ at[u] = "refuse" => what[u] \in {"error", "killed"}
    /\ at[u] = "returned" => what[u] \in {"ok", "error"}
    /\ at[u] = "result" => what[u] \in {"ok", "error", "killed"}
    \* who ended without a result says so
    /\ at[u] = "done" => Said("tool_result", u) \/ out[u] \in Faults

Calling == \A u \in Uses : CallOk(u)

\* An interrupt, or an end of ctx, and what it makes of the Run, is of this Run.
Heeded ==
    /\ interrupt # "none" \/ ctxDone \/ pc \in {"partial", "finish"} => runs \in hit
    /\ \A u \in Uses :
         /\ pc = "wait" /\ u \in batch /\ out[u] \in Endings => runs \in hit
         /\ at[u] \in {"refuse", "result"} /\ what[u] = "killed" => runs \in hit

\* What is recorded as cut belongs to a Run that was.
Landed == CutByItsOwnInterrupt

\* An early cancel is the interrupt there is, until it has decided how the Run ends.
Cancelled ==
    cancelled = "early" =>
        /\ pc \notin Late => interrupt = "cancel"
        /\ pc \in {"partial", "finish"} => arg = "cancel"
        /\ pc \in {"sync", "clear", "settle"} => arg # "steering"
        /\ pc = "out" => state # "steering"

\* A call whose Invoke returned after the cut still finds the turn cut.
Clean ==
    /\ \A u \in Uses :
         /\ at[u] = "returned" /\ saw[u] => interrupt # "none" \/ ctxDone
         /\ at[u] = "result" /\ what[u] = "ok" => ~saw[u]
    /\ \A i \in DOMAIN log : log[i].kind = "tool_result" /\ log[i].what = "ok" =>
         \A u \in log[i].uses : u \in Uses /\ at[u] = "done" /\ ~saw[u]

\* Entries name the turn that wrote them, and a turn that begins has written nothing.
Named ==
    /\ \A i \in DOMAIN log : log[i].turn \in 1..runs
    /\ pc = "message" /\ turn = 0 => \A i \in DOMAIN log : log[i].turn < runs

\* Where a turn may be once its ending is in the log.
Ended ==
    /\ \A i \in DOMAIN log : Ending(log[i]) /\ log[i].turn = turn =>
         \/ pc = "sync" /\ arg = "idle" /\ log[i].kind = "turn_interrupted"
         \/ pc = "fail" /\ log[i].kind = "turn_interrupted" /\ faults > 0
         \/ pc \in {"clear", "settle"} /\ arg \in {"idle", "failed"}
         \/ pc = "out" /\ state \in {"idle", "failed"}
    /\ NothingAfterEnding

\* From its sync on a turn writes nothing.
Durable ==
    /\ pc \in {"clear", "settle"} =>
         /\ arg \in {"completed", "steering"} => synced = Len(log)
         /\ synced # Len(log) => faults > 0
    /\ DurableAtRest
    /\ turn = 0 /\ pc = "fail" => faults > 0

\* A call of a whole message of this turn was answered, failed, or is still in hand.
InHand == {"compact", "compacting", "dispatch", "refuse", "wait"}
Answered ==
    \A i \in DOMAIN log :
        log[i].kind = "assistant_message" /\ log[i].what = "whole" /\ log[i].turn = turn =>
            \A u \in log[i].uses :
                /\ u \in Uses
                /\ \/ Said("tool_result", u)
                   \/ at[u] = "done" /\ out[u] \in Faults
                   \/ pc \in InHand /\ u \in batch
                   \/ Failing

Inv ==
    /\ Shape /\ Placed /\ Calling /\ Heeded /\ Landed /\ Cancelled /\ Clean /\ Named /\ Ended
    /\ Durable /\ Answered

-----------------------------------------------------------------------------
(* The log                                                                 *)

\* What appending e makes of the log.
Grows(e) ==
    /\ log' = Append(log, e) /\ IsSeq(log)' /\ Len(log) \in Nat /\ Len(log') = Len(log) + 1
    /\ \A i \in DOMAIN log : i \in DOMAIN log' /\ log'[i] = log[i] /\ i < Len(log')
    /\ Len(log') \in DOMAIN log' /\ log'[Len(log')] = e
    /\ \A i \in DOMAIN log' : i \in DOMAIN log \/ i = Len(log')
    /\ \A k, u : Said(k, u)' <=> Said(k, u) \/ (e.kind = k /\ u \in e.uses)

\* Append adds one entry and keeps the others where they were.
LEMMA Grown ==
  ASSUME NEW e, IsSeq(log), log' = Append(log, e)
  PROVE  Grows(e)
  <1>1. PICK S : log \in Seq(S)
    BY DEF IsSeq
  <1>2. log' \in Seq(S \cup {e})
    BY <1>1
  <1>3. IsSeq(log)' /\ Len(log) \in Nat /\ Len(log') = Len(log) + 1
    BY <1>1, <1>2 DEF IsSeq
  <1>4. DOMAIN log = 1..Len(log) /\ DOMAIN log' = 1..Len(log')
    BY <1>1, <1>2
  <1>5. \A i \in DOMAIN log : i \in DOMAIN log' /\ log'[i] = log[i] /\ i < Len(log')
    BY <1>1, <1>3, <1>4
  <1>6. Len(log') \in DOMAIN log' /\ log'[Len(log')] = e
    BY <1>1, <1>3, <1>4
  <1>7. \A i \in DOMAIN log' : i \in DOMAIN log \/ i = Len(log')
    BY <1>3, <1>4
  <1>8. \A k, u : Said(k, u)' <=> Said(k, u) \/ (e.kind = k /\ u \in e.uses)
    BY <1>5, <1>6, <1>7 DEF Said
  <1>9. QED
    BY <1>3, <1>5, <1>6, <1>7, <1>8 DEF Grows

\* The log takes what a turn says of itself, if it has an id.
LEMMA LegalIs ==
    ASSUME NEW us, NEW w
    PROVE  /\ Legal(Entry("turn_failed", us, w)) <=> turn # 0
           /\ Legal(Entry("turn_interrupted", us, w))
           /\ Legal([Entry("user_message", us, w) EXCEPT !.turn = runs])
           /\ Legal([Entry("user_message", us, w) EXCEPT !.turn = turn])
  BY DEF Legal, Entry

\* The numbers less than one another, as a relation.
LEMMA LessIs == OpToRel(<, Nat) = {p \in Nat \X Nat : p[1] < p[2]}
  BY DEF OpToRel

\* endTurn's first call in call order is one of the calls.
LEMMA LeastIs ==
  ASSUME NEW Q, Q \subseteq Nat, Q # {}
  PROVE  Least(Q) \in Q
  <1>1. IsWellFoundedOn({p \in Nat \X Nat : p[1] < p[2]}, Nat)
    BY NatLessThanWellFounded, LessIs
  <1>2. PICK u \in Q : \A v \in Q : ~(<<v, u>> \in {p \in Nat \X Nat : p[1] < p[2]})
    BY <1>1, WFMin
  <1>3. ASSUME NEW v \in Q PROVE u <= v
    <2>1. v \in Nat /\ u \in Nat
      OBVIOUS
    <2>2. <<v, u>> \in Nat \X Nat /\ <<v, u>>[1] = v /\ <<v, u>>[2] = u
      BY <2>1
    <2>3. ~(<<v, u>>[1] < <<v, u>>[2])
      BY <1>2, <2>2, Zenon
    <2>4. ~(v < u)
      BY <2>2, <2>3
    <2>5. QED
      BY <2>1, <2>4
  <1>4. QED
    BY <1>3 DEF Least

-----------------------------------------------------------------------------
(* Steps of a call's goroutine                                             *)

\* Only the goroutine of u moved: to p, carrying w, with outcome o.
Moves(u, p, w, o) ==
    /\ at' = [v \in Uses |-> at'[v]] /\ what' = [v \in Uses |-> what'[v]]
    /\ out' = [v \in Uses |-> out'[v]]
    /\ at'[u] = p /\ what'[u] = w /\ out'[u] = o
    /\ \A v \in Uses : v # u => at'[v] = at[v] /\ what'[v] = what[v] /\ out'[v] = out[v]

\* The step leaves the rest as it was, but for the state.
Aside(u) ==
    /\ at[u] \notin {"none", "done"}
    /\ state' = state \/ state' \in Active
    /\ interrupt' = interrupt /\ turn' = turn /\ pc' = pc /\ arg' = arg
    /\ batch' = batch /\ malformed' = malformed /\ issued' = issued
    /\ runs' = runs /\ ctxDone' = ctxDone /\ hit' = hit /\ cancelled' = cancelled
    /\ synced' = synced /\ faults' \in {faults, faults + 1}
    /\ saw' = [v \in Uses |-> saw'[v]] /\ \A v \in Uses : v # u => saw'[v] = saw[v]

\* Where it moves to suits what it carries there.
Suits(u, p, w, o) ==
    /\ p \in CallPlaces \ {"none"} /\ o \in {"none"} \cup Endings \cup Faults
    /\ p \in {"decide", "asked"} => w \in {"allow", "deny"}
    /\ p = "refuse" => w \in {"error", "killed"}
    /\ p = "returned" => w \in {"ok", "error"} /\ (saw'[u] => interrupt # "none" \/ ctxDone)
    /\ p = "result" => w \in {"ok", "error", "killed"} /\ (w = "ok" => ~saw'[u])
    /\ o \in Endings \/ (p \in {"refuse", "result"} /\ w = "killed") => runs \in hit

\* What the updates of a call's goroutine come to.
LEMMA CallMoves ==
  ASSUME Shape, NEW u \in Uses
  PROVE  /\ \A p, w : CallGoto(u, p, w) /\ UNCHANGED out => Moves(u, p, w, out[u])
         /\ \A p, w, o : CallGoto(u, p, w) /\ out' = [out EXCEPT ![u] = o] => Moves(u, p, w, o)
         /\ \A o : CallEnds(u, o) => Moves(u, "done", what[u], o)
  BY DEF Shape, CallGoto, CallEnds, Moves

\* A call's step that writes nothing.
LEMMA CallKeeps ==
  ASSUME Inv, NEW u \in Uses, NEW p, NEW w, NEW o, Moves(u, p, w, o), Aside(u), Suits(u, p, w, o),
         log' = log, p = "done" => o \in Faults
  PROVE  Inv'
  <1>1. pc = "wait" /\ u \in batch /\ ~Failing /\ ~Failing'
    BY DEF Inv, Calling, CallOk, Aside, Failing
  <1>2. Shape'
    BY DEF Inv, Shape, Aside, Moves
  <1>3. Placed'
    BY <1>1 DEF Inv, Placed, Aside, Active
  <1>4. Calling'
    <2> SUFFICES ASSUME NEW v \in Uses PROVE CallOk(v)'
      BY DEF Calling
    <2>1. CASE v = u
      BY <1>1, <2>1 DEF Inv, Shape, Uses, Aside, Moves, Suits, CallOk, Said, Faults, Before
    <2>2. CASE v # u
      BY <2>2 DEF Inv, Calling, CallOk, Aside, Moves, Said
    <2>3. QED
      BY <2>1, <2>2
  <1>5. Heeded'
    BY DEF Inv, Heeded, Aside, Moves, Suits
  <1>6. Landed' /\ Named'
    BY DEF Inv, Landed, CutByItsOwnInterrupt, Named, Aside
  <1>7. Cancelled'
    BY <1>1 DEF Inv, Cancelled, Aside, Late
  <1>8. Clean'
    BY DEF Inv, Clean, Aside, Moves, Suits
  <1>9. Ended'
    BY <1>1, <1>2 DEF Inv, Ended, NothingAfterEnding, Aside, Shape
  <1>10. Durable'
    BY <1>1 DEF Inv, Durable, DurableAtRest, Aside
  <1>11. Answered'
    BY <1>1 DEF Inv, Answered, Aside, Moves, Said
  <1>12. QED
    BY <1>2, <1>3, <1>4, <1>5, <1>6, <1>7, <1>8, <1>9, <1>10, <1>11 DEF Inv

\* A call's step that appends its decision or its result.
LEMMA CallWrites ==
  ASSUME Inv, NEW u \in Uses, NEW p, NEW w, NEW o, Moves(u, p, w, o), Aside(u), Suits(u, p, w, o),
         NEW k \in {"permission_decision", "tool_result"},
         NEW x \in {"allow", "deny", "ok", "error", "killed"},
         Grows(Entry(k, {u}, x)), saw' = saw, p = "done" <=> k = "tool_result",
         x = "ok" => ~saw[u], x = "killed" => runs \in hit
  PROVE  Inv'
  <1> DEFINE e == Entry(k, {u}, x)
  <1>1. pc = "wait" /\ u \in batch /\ ~Failing /\ ~Failing' /\ turn # 0
    BY DEF Inv, Calling, CallOk, Aside, Failing, Placed
  <1>e. /\ e.kind = k /\ e.uses = {u} /\ e.what = x /\ e.run = runs /\ e.turn = turn
        /\ e.kind \notin {"turn_interrupted", "turn_failed", "assistant_message"}
    BY DEF Entry
  <1> HIDE DEF e
  <1>g. Grows(e)
    BY DEF e
  <1>2. Shape'
    BY <1>g DEF Inv, Shape, Aside, Moves, Grows
  <1>3. Placed'
    BY <1>1 DEF Inv, Placed, Aside, Active
  <1>4. Calling'
    <2> SUFFICES ASSUME NEW v \in Uses PROVE CallOk(v)'
      BY DEF Calling
    <2>1. CASE v = u
      BY <1>1, <1>e, <1>g, <2>1
      DEF Inv, Shape, Uses, Aside, Moves, Suits, CallOk, Grows, Faults, Before
    <2>2. CASE v # u
      BY <1>g, <2>2 DEF Inv, Calling, CallOk, Aside, Moves, Grows
    <2>3. QED
      BY <2>1, <2>2
  <1>5. Heeded'
    BY DEF Inv, Heeded, Aside, Moves, Suits
  <1>6. Landed'
    BY <1>e, <1>g DEF Inv, Landed, CutByItsOwnInterrupt, Aside, Grows
  <1>7. Cancelled'
    BY <1>1 DEF Inv, Cancelled, Aside, Late
  <1>8. Clean'
    <2>1. ASSUME NEW v \in Uses
          PROVE  /\ (at[v] = "returned" /\ saw[v] => interrupt # "none" \/ ctxDone)'
                 /\ (at[v] = "result" /\ what[v] = "ok" => ~saw[v])'
      BY DEF Inv, Clean, Aside, Moves, Suits
    <2>2. ASSUME NEW i \in DOMAIN log, log[i].kind = "tool_result", log[i].what = "ok",
                 NEW v \in log[i].uses
          PROVE  v \in Uses /\ at'[v] = "done" /\ ~saw'[v]
      BY <2>2 DEF Inv, Clean, Aside, Moves
    <2>3. e.kind = "tool_result" /\ e.what = "ok" => at'[u] = "done" /\ ~saw'[u]
      BY <1>e DEF Moves
    <2>4. ASSUME NEW i \in DOMAIN log', log'[i].kind = "tool_result", log'[i].what = "ok",
                 NEW v \in log'[i].uses
          PROVE  v \in Uses /\ at'[v] = "done" /\ ~saw'[v]
      BY <1>e, <1>g, <2>2, <2>3, <2>4 DEF Grows
    <2>5. QED
      BY <2>1, <2>4 DEF Clean
  <1>9. Named'
    BY <1>e, <1>g, <1>1 DEF Inv, Named, Aside, Grows, Shape
  <1>10. Ended'
    <2>1. \A i \in DOMAIN log : ~(Ending(log[i]) /\ log[i].turn = turn)
      BY <1>1 DEF Inv, Ended
    <2>2. faults' > 0 \/ faults' = faults
      BY DEF Inv, Shape, Aside
    <2>3. NothingAfterEnding'
      BY <1>e, <1>g, <2>1, <2>2 DEF Inv, Ended, NothingAfterEnding, Grows, Ending
    <2>4. QED
      BY <1>e, <1>g, <2>1, <2>3 DEF Ended, Ending, Aside, Grows
  <1>11. Durable'
    BY <1>1 DEF Inv, Durable, DurableAtRest, Aside
  <1>12. Answered'
    BY <1>1, <1>e, <1>g DEF Inv, Answered, Aside, Moves, Grows
  <1>13. QED
    BY <1>2, <1>3, <1>4, <1>5, <1>6, <1>7, <1>8, <1>9, <1>10, <1>11, <1>12 DEF Inv

\* An append that fails leaves the log as it was.
LEMMA FailedAppend ==
  ASSUME NEW e, AppendFails(e)
  PROVE  log' = log /\ synced' = synced /\ faults' \in {faults, faults + 1}
  BY DEF AppendFails, Fault

\* The gate decides, or asks first.
LEMMA GateCallKeeps ==
  ASSUME Inv, NEW u \in Uses, GateCall(u)
  PROVE  Inv'
  <1>1. at[u] = "start" /\ Aside(u) /\ log' = log /\ out[u] \in {"none"} \cup Endings \cup Faults
    BY DEF Inv, Calling, CallOk, GateCall, Aside, Shape, Active,
           runner, flow, message, flight, disk, caller, history
  <1>2. PICK p \in {"refuse", "decide", "question"}, w \in {"error", "allow", "deny", "none"} :
           /\ CallGoto(u, p, w) /\ UNCHANGED out
           /\ p = "refuse" => w = "error"
           /\ p = "decide" => w \in {"allow", "deny"}
    BY DEF GateCall
  <1>3. Moves(u, p, w, out[u])
    BY <1>2, CallMoves DEF Inv
  <1>4. Suits(u, p, w, out[u])
    BY <1>1, <1>2 DEF Inv, Suits, Heeded, Calling, CallOk, CallPlaces
  <1>5. QED
    BY <1>1, <1>2, <1>3, <1>4, CallKeeps

\* A call registers in the inflight set and asks or runs.
LEMMA RegisterKeeps ==
  ASSUME Inv, NEW u \in Uses, Ask(u) \/ Invoke(u)
  PROVE  Inv'
  <1>1. at[u] \in {"question", "invoke"} /\ Aside(u) /\ log' = log
        /\ out[u] \in {"none"} \cup Endings \cup Faults
    BY DEF Inv, Calling, CallOk, Ask, Invoke, Register, Aside, Shape,
           runner, flow, message, flight, disk, caller, history
  <1>2. PICK p \in {"asking", "running"} : CallGoto(u, p, "none") /\ UNCHANGED out
    BY DEF Ask, Invoke, Register
  <1>3. Moves(u, p, "none", out[u])
    BY <1>2, CallMoves DEF Inv
  <1>4. Suits(u, p, "none", out[u])
    BY <1>1, <1>2 DEF Inv, Suits, Heeded, Calling, CallOk, CallPlaces
  <1>5. QED
    BY <1>1, <1>2, <1>3, <1>4, CallKeeps

\* The asker's answer is only looked at later.
LEMMA AskReturnsKeeps ==
  ASSUME Inv, NEW u \in Uses, AskReturns(u)
  PROVE  Inv'
  <1>1. at[u] = "asking" /\ Aside(u) /\ log' = log /\ out[u] \in {"none"} \cup Endings \cup Faults
    BY DEF Inv, Calling, CallOk, AskReturns, Aside, Shape,
           runner, flow, message, flight, disk, caller, history
  <1>2. PICK a \in {"allow", "deny"} : CallGoto(u, "asked", a) /\ UNCHANGED out
    BY DEF AskReturns
  <1>3. Moves(u, "asked", a, out[u])
    BY <1>2, CallMoves DEF Inv
  <1>4. Suits(u, "asked", a, out[u])
    BY <1>1, <1>2 DEF Inv, Suits, Heeded, Calling, CallOk, CallPlaces
  <1>5. QED
    BY <1>1, <1>2, <1>3, <1>4, CallKeeps

\* An interrupt, or the end of ctx, makes the call killed, and the Run has been hit.
LEMMA ObserveAskKeeps ==
  ASSUME Inv, NEW u \in Uses, ObserveAsk(u)
  PROVE  Inv'
  <1>1. at[u] = "asked" /\ Aside(u) /\ log' = log /\ out[u] \in {"none"} \cup Endings \cup Faults
        /\ what[u] \in {"allow", "deny"}
    BY DEF Inv, Calling, CallOk, ObserveAsk, Aside, Shape,
           runner, flow, message, flight, disk, caller, history
  <1>2. CASE interrupt = "none" /\ ~ctxDone
    <2>1. Moves(u, "decide", what[u], out[u])
      BY <1>2, CallMoves DEF Inv, ObserveAsk
    <2>2. Suits(u, "decide", what[u], out[u])
      BY <1>1 DEF Inv, Suits, Heeded, Calling, CallOk, CallPlaces
    <2>3. QED
      BY <1>1, <2>1, <2>2, CallKeeps
  <1>3. CASE interrupt # "none" \/ ctxDone
    <2>1. PICK o \in Endings : Moves(u, "refuse", "killed", o)
      BY <1>3, CallMoves DEF Inv, Shape, Interrupts, ObserveAsk, Endings
    <2>2. Suits(u, "refuse", "killed", o)
      BY <1>3 DEF Inv, Suits, Heeded, CallPlaces
    <2>3. QED
      BY <1>1, <2>1, <2>2, CallKeeps
  <1>4. QED
    BY <1>2, <1>3

\* A call that may run does, unless its tool has no Invoke.
LEMMA SetRunningKeeps ==
  ASSUME Inv, NEW u \in Uses, SetRunning(u)
  PROVE  Inv'
  <1>1. at[u] = "allowed" /\ Aside(u) /\ log' = log /\ out[u] \in {"none"} \cup Endings \cup Faults
    BY DEF Inv, Calling, CallOk, SetRunning, Aside, Shape, Active,
           runner, flow, message, flight, disk, caller, history
  <1>2. CASE CallGoto(u, "invoke", "none") /\ UNCHANGED out
    <2>1. Moves(u, "invoke", "none", out[u])
      BY <1>2, CallMoves DEF Inv
    <2>2. Suits(u, "invoke", "none", out[u])
      BY <1>1 DEF Inv, Suits, Heeded, Calling, CallOk, CallPlaces
    <2>3. QED
      BY <1>1, <2>1, <2>2, CallKeeps
  <1>3. CASE CallEnds(u, "plugin")
    <2>1. Moves(u, "done", what[u], "plugin")
      BY <1>3, CallMoves DEF Inv
    <2>2. Suits(u, "done", what[u], "plugin") /\ "plugin" \in Faults
      BY DEF Suits, CallPlaces, Faults, Endings
    <2>3. QED
      BY <1>1, <2>1, <2>2, CallKeeps
  <1>4. QED
    BY <1>2, <1>3 DEF SetRunning

\* Invoke returns cleanly, or panics; saw[u] remembers whether the turn was cut by then.
LEMMA InvokeReturnsKeeps ==
  ASSUME Inv, NEW u \in Uses, InvokeReturns(u)
  PROVE  Inv'
  <1>1. at[u] = "running" /\ Aside(u) /\ log' = log /\ out[u] \in {"none"} \cup Endings \cup Faults
        /\ (saw'[u] => interrupt # "none" \/ ctxDone)
    BY DEF Inv, Calling, CallOk, InvokeReturns, Aside, Shape,
           runner, flow, message, flight, disk, caller
  <1>2. ASSUME NEW w \in {"ok", "error"}, CallGoto(u, "returned", w) /\ UNCHANGED out
        PROVE  Inv'
    <2>1. Moves(u, "returned", w, out[u])
      BY <1>2, CallMoves DEF Inv
    <2>2. Suits(u, "returned", w, out[u])
      BY <1>1 DEF Inv, Suits, Heeded, Calling, CallOk, CallPlaces
    <2>3. QED
      BY <1>1, <2>1, <2>2, CallKeeps
  <1>3. CASE CallEnds(u, "plugin")
    <2>1. Moves(u, "done", what[u], "plugin")
      BY <1>3, CallMoves DEF Inv
    <2>2. Suits(u, "done", what[u], "plugin") /\ "plugin" \in Faults
      BY DEF Suits, CallPlaces, Faults, Endings
    <2>3. QED
      BY <1>1, <2>1, <2>2, CallKeeps
  <1>4. QED
    BY <1>2, <1>3 DEF InvokeReturns

\* Whoever's Invoke returned under a cut finds the cut still there, and is killed.
LEMMA ObserveInvokeKeeps ==
  ASSUME Inv, NEW u \in Uses, ObserveInvoke(u)
  PROVE  Inv'
  <1>1. at[u] = "returned" /\ Aside(u) /\ log' = log /\ out[u] \in {"none"} \cup Endings \cup Faults
        /\ what[u] \in {"ok", "error"} /\ saw'[u] = saw[u]
    BY DEF Inv, Calling, CallOk, ObserveInvoke, Aside, Shape,
           runner, flow, message, flight, disk, caller, history
  <1>2. CASE interrupt = "none" /\ ~ctxDone
    <2>1. Moves(u, "result", what[u], out[u])
      BY <1>2, CallMoves DEF Inv, ObserveInvoke
    <2>2. ~saw[u]
      BY <1>1, <1>2 DEF Inv, Clean
    <2>3. Suits(u, "result", what[u], out[u])
      BY <1>1, <2>2 DEF Inv, Suits, Heeded, Calling, CallOk, CallPlaces
    <2>4. QED
      BY <1>1, <2>1, <2>3, CallKeeps
  <1>3. CASE interrupt # "none" \/ ctxDone
    <2>1. PICK o \in Endings : Moves(u, "result", "killed", o)
      BY <1>3, CallMoves DEF Inv, Shape, Interrupts, ObserveInvoke, Endings
    <2>2. Suits(u, "result", "killed", o)
      BY <1>3 DEF Inv, Suits, Heeded, CallPlaces
    <2>3. QED
      BY <1>1, <2>1, <2>2, CallKeeps
  <1>4. QED
    BY <1>2, <1>3

\* refuse and the decision: the entry is appended, or the call ends.
LEMMA DecideKeeps ==
  ASSUME Inv, NEW u \in Uses, Refuse(u) \/ Decide(u)
  PROVE  Inv'
  <1>1. at[u] \in {"refuse", "decide"} /\ Aside(u) /\ saw' = saw
        /\ out[u] \in {"none"} \cup Endings \cup Faults
        /\ (at[u] = "refuse" => what[u] \in {"error", "killed"})
        /\ (at[u] = "decide" => what[u] \in {"allow", "deny"})
    BY DEF Inv, Calling, CallOk, Refuse, Decide, Appended, AppendFails, Fault, Aside, Shape,
           runner, flow, message, flight, disk, caller, history
  <1>2. CASE \E d \in {"allow", "deny"} : AppendFails(Entry("permission_decision", {u}, d))
                                          /\ CallEnds(u, "internal")
    <2>1. Moves(u, "done", what[u], "internal") /\ log' = log
      BY <1>2, CallMoves, FailedAppend DEF Inv
    <2>2. Suits(u, "done", what[u], "internal") /\ "internal" \in Faults
      BY DEF Suits, CallPlaces, Faults, Endings
    <2>3. QED
      BY <1>1, <2>1, <2>2, CallKeeps
  <1>3. ASSUME NEW d \in {"allow", "deny"}, NEW p \in {"result", "allowed"}, NEW w,
               Appended(Entry("permission_decision", {u}, d)),
               CallGoto(u, p, w) /\ UNCHANGED out, Suits(u, p, w, out[u])
        PROVE  Inv'
    <2>1. Grows(Entry("permission_decision", {u}, d))
      BY <1>3, Grown DEF Inv, Shape, Appended
    <2>2. Moves(u, p, w, out[u])
      BY <1>3, CallMoves DEF Inv
    <2>3. QED
      BY <1>1, <1>3, <2>1, <2>2, CallWrites
  <1>4. CASE Refuse(u) /\ Appended(Entry("permission_decision", {u}, "deny"))
             /\ CallGoto(u, "result", what[u]) /\ UNCHANGED out
    <2>1. at[u] = "refuse"
      BY <1>4 DEF Refuse
    <2>2. Suits(u, "result", what[u], out[u])
      BY <1>1, <2>1 DEF Inv, Suits, Heeded, Calling, CallOk, CallPlaces
    <2>3. QED
      BY <1>3, <1>4, <2>2
  <1>5. CASE Decide(u) /\ Appended(Entry("permission_decision", {u}, what[u])) /\ UNCHANGED out
             /\ IF what[u] = "deny" THEN CallGoto(u, "result", "error")
                                    ELSE CallGoto(u, "allowed", "none")
    <2>1. at[u] = "decide" /\ what[u] \in {"allow", "deny"}
      BY <1>1, <1>5 DEF Decide
    <2>2. Suits(u, "result", "error", out[u]) /\ Suits(u, "allowed", "none", out[u])
      BY <1>1, <2>1 DEF Inv, Suits, Heeded, Calling, CallOk, CallPlaces
    <2>3. QED
      BY <1>3, <1>5, <2>1, <2>2
  <1>6. QED
    BY <1>1, <1>2, <1>4, <1>5 DEF Refuse, Decide

\* The result of a call is recorded, and only a call the cut did not see records ok.
LEMMA AppendResultKeeps ==
  ASSUME Inv, NEW u \in Uses, AppendResult(u)
  PROVE  Inv'
  <1>1. at[u] = "result" /\ Aside(u) /\ saw' = saw /\ out[u] \in {"none"} \cup Endings \cup Faults
        /\ what[u] \in {"ok", "error", "killed"}
    BY DEF Inv, Calling, CallOk, AppendResult, Appended, AppendFails, Fault, Aside, Shape,
           runner, flow, message, flight, disk, caller, history
  <1>2. CASE AppendFails(Entry("tool_result", {u}, what[u])) /\ CallEnds(u, "internal")
    <2>1. Moves(u, "done", what[u], "internal") /\ log' = log
      BY <1>2, CallMoves, FailedAppend DEF Inv
    <2>2. Suits(u, "done", what[u], "internal") /\ "internal" \in Faults
      BY DEF Suits, CallPlaces, Faults, Endings
    <2>3. QED
      BY <1>1, <2>1, <2>2, CallKeeps
  <1>3. CASE Appended(Entry("tool_result", {u}, what[u])) /\ CallEnds(u, out[u])
    <2>1. Moves(u, "done", what[u], out[u])
      BY <1>3, CallMoves DEF Inv
    <2>2. Grows(Entry("tool_result", {u}, what[u]))
      BY <1>3, Grown DEF Inv, Shape, Appended
    <2>3. Suits(u, "done", what[u], out[u])
      BY <1>1 DEF Inv, Suits, Heeded, Calling, CallOk, CallPlaces
    <2>4. (what[u] = "ok" => ~saw[u]) /\ (what[u] = "killed" => runs \in hit)
      BY <1>1 DEF Inv, Clean, Heeded
    <2>5. QED
      BY <1>1, <2>1, <2>2, <2>3, <2>4, CallWrites
  <1>4. QED
    BY <1>2, <1>3 DEF AppendResult

-----------------------------------------------------------------------------
(* Steps of Run that write nothing                                         *)

\* The step limit, or the next request.
LEMMA NextStepKeeps ==
  ASSUME Inv, NextStep
  PROVE  Inv'
  <1>1. /\ pc = "loop"
        /\ \/ pc' = "fail" /\ arg' = "limit" /\ state' = state
           \/ pc' = "request" /\ state' = "streaming"
        /\ batch' = batch /\ malformed' = malformed /\ issued' = issued
        /\ turn' = turn /\ interrupt' = interrupt /\ synced' = synced
        /\ runs' = runs /\ faults' = faults /\ hit' = hit /\ ctxDone' = ctxDone
        /\ cancelled' = cancelled
        /\ at' = at /\ what' = what /\ out' = out /\ saw' = saw /\ log' = log
    BY DEF NextStep, runner, message, calls, flight, disk, caller, history, Goto
  <1>2. Shape'
    BY <1>1 DEF Inv, Shape
  <1>3. Placed'
    BY <1>1 DEF Inv, Placed, Failing, RunPlaces, Resting, Active
  <1>4. Calling'
    BY <1>1 DEF Inv, Calling, CallOk, Said, Before
  <1>5. Heeded'
    BY <1>1 DEF Inv, Heeded
  <1>6. Landed'
    BY <1>1 DEF Inv, Landed, CutByItsOwnInterrupt
  <1>7. Cancelled'
    BY <1>1 DEF Inv, Cancelled, Late
  <1>8. Clean'
    BY <1>1 DEF Inv, Clean
  <1>9. Named'
    BY <1>1 DEF Inv, Named
  <1>10. Ended'
    BY <1>1 DEF Inv, Ended, NothingAfterEnding
  <1>11. Durable'
    BY <1>1 DEF Inv, Durable, DurableAtRest, Placed, Failing
  <1>12. Answered'
    BY <1>1 DEF Inv, Answered, Said, InHand, Failing
  <1>13. QED
    BY <1>2, <1>3, <1>4, <1>5, <1>6, <1>7, <1>8, <1>9, <1>10, <1>11, <1>12 DEF Inv

\* The message of a request is a new one.
LEMMA RequestKeeps ==
  ASSUME Inv, Request
  PROVE  Inv'
  <1>1. /\ pc = "request" /\ pc' = "streaming" /\ state' = state
        /\ batch' = {} /\ malformed' = {} /\ issued' = issued
        /\ turn' = turn /\ interrupt' = interrupt /\ synced' = synced
        /\ runs' = runs /\ faults' = faults /\ hit' = hit /\ ctxDone' = ctxDone
        /\ cancelled' = cancelled
        /\ at' = at /\ what' = what /\ out' = out /\ saw' = saw /\ log' = log
    BY DEF Request, runner, message, calls, flight, disk, caller, history, Goto
  <1>2. Shape'
    BY <1>1 DEF Inv, Shape
  <1>3. Placed'
    BY <1>1 DEF Inv, Placed, Failing, RunPlaces, Resting, Active
  <1>4. Calling'
    BY <1>1 DEF Inv, Calling, CallOk, Said, Before
  <1>5. Heeded'
    BY <1>1 DEF Inv, Heeded
  <1>6. Landed'
    BY <1>1 DEF Inv, Landed, CutByItsOwnInterrupt
  <1>7. Cancelled'
    BY <1>1 DEF Inv, Cancelled, Late
  <1>8. Clean'
    BY <1>1 DEF Inv, Clean
  <1>9. Named'
    BY <1>1 DEF Inv, Named
  <1>10. Ended'
    BY <1>1 DEF Inv, Ended, NothingAfterEnding
  <1>11. Durable'
    BY <1>1 DEF Inv, Durable, DurableAtRest
  <1>12. Answered'
    BY <1>1 DEF Inv, Answered, Said, InHand, Failing
  <1>13. QED
    BY <1>2, <1>3, <1>4, <1>5, <1>6, <1>7, <1>8, <1>9, <1>10, <1>11, <1>12 DEF Inv

\* Its tool_uses have ids that no call has.
LEMMA StreamReturnsKeeps ==
  ASSUME Inv, StreamReturns
  PROVE  Inv'
  <1>1. /\ pc = "streaming" /\ pc' = "streamed" /\ state' = state
        /\ issued' \in issued..MaxUses /\ batch' = (issued + 1)..issued'
        /\ malformed' \subseteq batch'
        /\ turn' = turn /\ interrupt' = interrupt /\ synced' = synced
        /\ runs' = runs /\ faults' = faults /\ hit' = hit /\ ctxDone' = ctxDone
        /\ cancelled' = cancelled
        /\ at' = at /\ what' = what /\ out' = out /\ saw' = saw /\ log' = log
    BY DEF StreamReturns, Inv, Shape, runner, message, calls, flight, disk, caller, history,
           Goto
  <1>2. Shape'
    BY <1>1 DEF Inv, Shape
  <1>3. Placed'
    BY <1>1 DEF Inv, Placed, Failing, RunPlaces, Resting, Active
  <1>4. Calling'
    BY <1>1 DEF Inv, Calling, CallOk, Said, Before, Shape, Uses
  <1>5. Heeded'
    BY <1>1 DEF Inv, Heeded
  <1>6. Landed'
    BY <1>1 DEF Inv, Landed, CutByItsOwnInterrupt
  <1>7. Cancelled'
    BY <1>1 DEF Inv, Cancelled, Late
  <1>8. Clean'
    BY <1>1 DEF Inv, Clean
  <1>9. Named'
    BY <1>1 DEF Inv, Named
  <1>10. Ended'
    BY <1>1 DEF Inv, Ended, NothingAfterEnding
  <1>11. Durable'
    BY <1>1 DEF Inv, Durable, DurableAtRest
  <1>12. Answered'
    BY <1>1 DEF Inv, Answered, Said, InHand, Failing
  <1>13. QED
    BY <1>2, <1>3, <1>4, <1>5, <1>6, <1>7, <1>8, <1>9, <1>10, <1>11, <1>12 DEF Inv

\* An interrupt, or the end of ctx under an error, cuts the message.
LEMMA ObserveStreamKeeps ==
  ASSUME Inv, ObserveStream
  PROVE  Inv'
  <1>1. /\ pc = "streamed" /\ state' = state
        /\ \/ pc' = "partial" /\ arg' = interrupt /\ interrupt # "none"
           \/ pc' = "partial" /\ arg' = "cancel" /\ ctxDone
           \/ pc' = "fail" /\ arg' = "provider" /\ interrupt = "none"
           \/ pc' = "whole" /\ interrupt = "none"
        /\ batch' = batch /\ malformed' = malformed /\ issued' = issued
        /\ turn' = turn /\ interrupt' = interrupt /\ synced' = synced
        /\ runs' = runs /\ faults' = faults /\ hit' = hit /\ ctxDone' = ctxDone
        /\ cancelled' = cancelled
        /\ at' = at /\ what' = what /\ out' = out /\ saw' = saw /\ log' = log
    BY DEF ObserveStream, runner, message, calls, flight, disk, caller, history, Goto
  <1>2. Shape'
    BY <1>1 DEF Inv, Shape
  <1>3. Placed'
    BY <1>1 DEF Inv, Placed, Failing, RunPlaces, Resting, Active, Shape, Interrupts
  <1>4. Calling'
    BY <1>1 DEF Inv, Calling, CallOk, Said, Before
  <1>5. Heeded'
    BY <1>1 DEF Inv, Heeded
  <1>6. Landed'
    BY <1>1 DEF Inv, Landed, CutByItsOwnInterrupt
  <1>7. Cancelled'
    BY <1>1 DEF Inv, Cancelled, Late, Shape
  <1>8. Clean'
    BY <1>1 DEF Inv, Clean
  <1>9. Named'
    BY <1>1 DEF Inv, Named
  <1>10. Ended'
    BY <1>1 DEF Inv, Ended, NothingAfterEnding
  <1>11. Durable'
    BY <1>1 DEF Inv, Durable, DurableAtRest, Placed, Failing
  <1>12. Answered'
    BY <1>1 DEF Inv, Answered, Said, InHand, Failing
  <1>13. QED
    BY <1>2, <1>3, <1>4, <1>5, <1>6, <1>7, <1>8, <1>9, <1>10, <1>11, <1>12 DEF Inv

\* A whole message may be followed by a compaction.
LEMMA MaybeCompactKeeps ==
  ASSUME Inv, MaybeCompact
  PROVE  Inv'
  <1>1. /\ pc = "compact" /\ pc' \in {"dispatch", "compacting"} /\ state' = state
        /\ batch' = batch /\ malformed' = malformed /\ issued' = issued
        /\ turn' = turn /\ interrupt' = interrupt /\ synced' = synced
        /\ runs' = runs /\ faults' = faults /\ hit' = hit /\ ctxDone' = ctxDone
        /\ cancelled' = cancelled
        /\ at' = at /\ what' = what /\ out' = out /\ saw' = saw /\ log' = log
    BY DEF MaybeCompact, runner, message, calls, flight, disk, caller, history, Goto
  <1>2. Shape'
    BY <1>1 DEF Inv, Shape
  <1>3. Placed'
    BY <1>1 DEF Inv, Placed, Failing, RunPlaces, Resting, Active
  <1>4. Calling'
    BY <1>1 DEF Inv, Calling, CallOk, Said, Before
  <1>5. Heeded'
    BY <1>1 DEF Inv, Heeded
  <1>6. Landed'
    BY <1>1 DEF Inv, Landed, CutByItsOwnInterrupt
  <1>7. Cancelled'
    BY <1>1 DEF Inv, Cancelled, Late
  <1>8. Clean'
    BY <1>1 DEF Inv, Clean
  <1>9. Named'
    BY <1>1 DEF Inv, Named
  <1>10. Ended'
    BY <1>1 DEF Inv, Ended, NothingAfterEnding
  <1>11. Durable'
    BY <1>1 DEF Inv, Durable, DurableAtRest
  <1>12. Answered'
    BY <1>1 DEF Inv, Answered, Said, InHand, Failing
  <1>13. QED
    BY <1>2, <1>3, <1>4, <1>5, <1>6, <1>7, <1>8, <1>9, <1>10, <1>11, <1>12 DEF Inv

\* The calls of a message start together, and Run waits for them.
LEMMA DispatchKeeps ==
  ASSUME Inv, Dispatch
  PROVE  Inv'
  <1>1. /\ pc = "dispatch" /\ state' = state
        /\ \/ pc' = "refuse" /\ at' = at
           \/ pc' = "wait" /\ at' = [u \in Uses |-> IF u \in batch THEN "start" ELSE at[u]]
           \/ pc' = "sync" /\ arg' = "completed" /\ batch = {} /\ at' = at
        /\ batch' = batch /\ malformed' = malformed /\ issued' = issued
        /\ turn' = turn /\ interrupt' = interrupt /\ synced' = synced
        /\ runs' = runs /\ faults' = faults /\ hit' = hit /\ ctxDone' = ctxDone
        /\ cancelled' = cancelled
        /\ what' = what /\ out' = out /\ saw' = saw /\ log' = log
    BY DEF Dispatch, runner, message, calls, flight, disk, caller, history, Goto
  <1>2. Shape'
    BY <1>1 DEF Inv, Shape
  <1>3. Placed'
    BY <1>1 DEF Inv, Placed, Failing, RunPlaces, Resting, Active
  <1>4. Calling'
    BY <1>1 DEF Inv, Calling, CallOk, Said, Before, CallPlaces, Shape, Endings
  <1>5. Heeded'
    BY <1>1 DEF Inv, Heeded, Calling, CallOk, Before, Endings
  <1>6. Landed'
    BY <1>1 DEF Inv, Landed, CutByItsOwnInterrupt
  <1>7. Cancelled'
    BY <1>1 DEF Inv, Cancelled, Late
  <1>8. Clean'
    BY <1>1 DEF Inv, Clean, Calling, CallOk, Before
  <1>9. Named'
    BY <1>1 DEF Inv, Named
  <1>10. Ended'
    BY <1>1 DEF Inv, Ended, NothingAfterEnding
  <1>11. Durable'
    BY <1>1 DEF Inv, Durable, DurableAtRest
  <1>12. Answered'
    <2> SUFFICES ASSUME NEW i \in DOMAIN log, log[i].kind = "assistant_message",
                        log[i].what = "whole", log[i].turn = turn, NEW u \in log[i].uses
                 PROVE  /\ u \in Uses
                        /\ \/ Said("tool_result", u)'
                           \/ at'[u] = "done" /\ out'[u] \in Faults
                           \/ pc' \in InHand /\ u \in batch'
                           \/ Failing'
      BY <1>1 DEF Answered
    <2>1. u \in Uses /\ (u \in batch => at[u] = "none")
      BY <1>1 DEF Inv, Answered, Calling, CallOk, Before
    <2>2. Said("tool_result", u) \/ (at[u] = "done" /\ out[u] \in Faults) \/ u \in batch
      BY <1>1 DEF Inv, Answered, Failing
    <2>3. QED
      BY <1>1, <2>1, <2>2 DEF Said, InHand
  <1>13. QED
    BY <1>2, <1>3, <1>4, <1>5, <1>6, <1>7, <1>8, <1>9, <1>10, <1>11, <1>12 DEF Inv

\* endTurn goes by the outcome of a call, which says whom an interrupt hit.
LEMMA Outcome ==
  ASSUME Inv, EndTurn
  PROVE  \/ pc' = "loop" /\ \A u \in batch : out[u] = "none"
         \/ pc' = "finish" /\ runs \in hit /\ arg' \in {"steer", "cancel"}
            /\ (interrupt = "cancel" => arg' = "cancel")
         \/ pc' = "fail" /\ arg' \in Faults
  <1> DEFINE asked == {u \in batch : out[u] # "none"}
  <1>2. CASE asked = {}
    BY <1>2 DEF EndTurn, Goto
  <1>3. CASE asked # {}
    <2>1. asked \subseteq Nat /\ asked \subseteq Uses
      BY TurnRunnerAssumption DEF Inv, Shape, Uses
    <2>2. PICK u \in asked : u = Least(asked)
      BY <1>3, <2>1, LeastIs
    <2>3. out[u] \in Endings \cup Faults /\ pc = "wait" /\ u \in batch /\ u \in Uses
      BY <2>1 DEF Inv, Calling, CallOk, EndTurn
    <2>4. out[u] \in Endings => runs \in hit
      BY <2>3 DEF Inv, Heeded
    <2>5. interrupt \in Interrupts
      BY DEF Inv, Shape
    <2>6. CASE out[u] = "ctx"
      BY <1>3, <2>2, <2>4, <2>6 DEF EndTurn, Goto, Endings
    <2>7. CASE out[u] \in {"steer", "cancel"}
      BY <1>3, <2>2, <2>4, <2>5, <2>7 DEF EndTurn, Goto, Endings, Interrupts
    <2>8. CASE out[u] \in Faults
      BY <1>3, <2>2, <2>8 DEF EndTurn, Goto, Faults
    <2>9. QED
      BY <2>3, <2>6, <2>7, <2>8 DEF Endings
  <1>4. QED
    BY <1>2, <1>3

\* Every call of the message is done, so each was answered or failed.
LEMMA EndTurnKeeps ==
  ASSUME Inv, EndTurn
  PROVE  Inv'
  <1>1. /\ pc = "wait" /\ \A u \in batch : at[u] = "done"
        /\ \/ pc' = "loop" /\ \A u \in batch : out[u] = "none"
           \/ /\ pc' = "finish" /\ runs \in hit /\ arg' \in {"steer", "cancel"}
              /\ interrupt = "cancel" => arg' = "cancel"
           \/ pc' = "fail" /\ arg' \in Faults
        /\ state' = state
        /\ batch' = batch /\ malformed' = malformed /\ issued' = issued
        /\ turn' = turn /\ interrupt' = interrupt /\ synced' = synced
        /\ runs' = runs /\ faults' = faults /\ hit' = hit /\ ctxDone' = ctxDone
        /\ cancelled' = cancelled
        /\ at' = at /\ what' = what /\ out' = out /\ saw' = saw /\ log' = log
    BY Outcome DEF EndTurn, runner, message, calls, flight, disk, caller, history, Goto
  <1>2. Shape'
    BY <1>1 DEF Inv, Shape
  <1>3. Placed'
    BY <1>1 DEF Inv, Placed, Failing, RunPlaces, Resting, Active, Faults
  <1>4. Calling'
    BY <1>1 DEF Inv, Calling, CallOk, Said, Before
  <1>5. Heeded'
    BY <1>1 DEF Inv, Heeded
  <1>6. Landed'
    BY <1>1 DEF Inv, Landed, CutByItsOwnInterrupt
  <1>7. Cancelled'
    BY <1>1 DEF Inv, Cancelled, Late
  <1>8. Clean'
    BY <1>1 DEF Inv, Clean
  <1>9. Named'
    BY <1>1 DEF Inv, Named
  <1>10. Ended'
    BY <1>1 DEF Inv, Ended, NothingAfterEnding
  <1>11. Durable'
    BY <1>1 DEF Inv, Durable, DurableAtRest, Placed, Failing
  <1>12. Answered'
    BY <1>1 DEF Inv, Answered, Said, InHand, Failing, Calling, CallOk
  <1>13. QED
    BY <1>2, <1>3, <1>4, <1>5, <1>6, <1>7, <1>8, <1>9, <1>10, <1>11, <1>12 DEF Inv

\* A sync that fails fails the turn, though its ending may be in the log.
LEMMA RestSyncKeeps ==
  ASSUME Inv, RestSync
  PROVE  Inv'
  <1>1. /\ pc = "sync" /\ state' = state
        /\ \/ pc' = "clear" /\ arg' = arg /\ synced' = Len(log) /\ faults' = faults
           \/ pc' = "fail" /\ arg' = "internal" /\ synced' = synced /\ faults' = faults + 1
        /\ batch' = batch /\ malformed' = malformed /\ issued' = issued
        /\ turn' = turn /\ interrupt' = interrupt
        /\ runs' = runs /\ hit' = hit /\ ctxDone' = ctxDone /\ cancelled' = cancelled
        /\ at' = at /\ what' = what /\ out' = out /\ saw' = saw /\ log' = log
    BY DEF RestSync, Fault, runner, message, calls, flight, disk, caller, history, Goto
  <1>2. Shape'
    BY <1>1 DEF Inv, Shape
  <1>3. Placed'
    BY <1>1 DEF Inv, Placed, Failing, RunPlaces, Resting, Active
  <1>4. Calling'
    BY <1>1 DEF Inv, Calling, CallOk, Said, Before
  <1>5. Heeded'
    BY <1>1 DEF Inv, Heeded
  <1>6. Landed'
    BY <1>1 DEF Inv, Landed, CutByItsOwnInterrupt
  <1>7. Cancelled'
    BY <1>1 DEF Inv, Cancelled, Late
  <1>8. Clean'
    BY <1>1 DEF Inv, Clean
  <1>9. Named'
    BY <1>1 DEF Inv, Named
  <1>10. Ended'
    BY <1>1 DEF Inv, Ended, NothingAfterEnding, Shape
  <1>11. Durable'
    BY <1>1 DEF Inv, Durable, DurableAtRest, Shape, Placed, Failing
  <1>12. Answered'
    BY <1>1 DEF Inv, Answered, Said, InHand, Failing
  <1>13. QED
    BY <1>2, <1>3, <1>4, <1>5, <1>6, <1>7, <1>8, <1>9, <1>10, <1>11, <1>12 DEF Inv

\* The interrupt is cleared when no call is left to see it.
LEMMA ClearInterruptKeeps ==
  ASSUME Inv, ClearInterrupt
  PROVE  Inv'
  <1>1. /\ pc = "clear" /\ pc' = "settle" /\ arg' = arg /\ state' = state /\ interrupt' = "none"
        /\ batch' = batch /\ malformed' = malformed /\ issued' = issued
        /\ turn' = turn /\ synced' = synced
        /\ runs' = runs /\ faults' = faults /\ hit' = hit /\ ctxDone' = ctxDone
        /\ cancelled' = cancelled
        /\ at' = at /\ what' = what /\ out' = out /\ saw' = saw /\ log' = log
    BY DEF ClearInterrupt, runner, message, calls, flight, disk, caller, history, Goto
  <1>2. Shape'
    BY <1>1 DEF Inv, Shape, Interrupts
  <1>3. Placed'
    BY <1>1 DEF Inv, Placed, Failing, RunPlaces, Resting, Active
  <1>4. Calling'
    BY <1>1 DEF Inv, Calling, CallOk, Said, Before
  <1>5. Heeded'
    BY <1>1 DEF Inv, Heeded
  <1>6. Landed'
    BY <1>1 DEF Inv, Landed, CutByItsOwnInterrupt
  <1>7. Cancelled'
    BY <1>1 DEF Inv, Cancelled, Late
  <1>8. Clean'
    BY <1>1 DEF Inv, Clean, Calling, CallOk
  <1>9. Named'
    BY <1>1 DEF Inv, Named
  <1>10. Ended'
    BY <1>1 DEF Inv, Ended, NothingAfterEnding
  <1>11. Durable'
    BY <1>1 DEF Inv, Durable, DurableAtRest
  <1>12. Answered'
    BY <1>1 DEF Inv, Answered, Said, InHand, Failing
  <1>13. QED
    BY <1>2, <1>3, <1>4, <1>5, <1>6, <1>7, <1>8, <1>9, <1>10, <1>11, <1>12 DEF Inv

\* And the state is set to what Run decided.
LEMMA SettleKeeps ==
  ASSUME Inv, Settle
  PROVE  Inv'
  <1>1. /\ pc = "settle" /\ pc' = "out" /\ state' = arg
        /\ batch' = batch /\ malformed' = malformed /\ issued' = issued
        /\ turn' = turn /\ interrupt' = interrupt /\ synced' = synced
        /\ runs' = runs /\ faults' = faults /\ hit' = hit /\ ctxDone' = ctxDone
        /\ cancelled' = cancelled
        /\ at' = at /\ what' = what /\ out' = out /\ saw' = saw /\ log' = log
    BY DEF Settle, runner, message, calls, flight, disk, caller, history, Goto
  <1>2. Shape'
    BY <1>1 DEF Inv, Shape
  <1>3. Placed'
    BY <1>1 DEF Inv, Placed, Failing, RunPlaces, Resting, Active
  <1>4. Calling'
    BY <1>1 DEF Inv, Calling, CallOk, Said, Before
  <1>5. Heeded'
    BY <1>1 DEF Inv, Heeded
  <1>6. Landed'
    BY <1>1 DEF Inv, Landed, CutByItsOwnInterrupt
  <1>7. Cancelled'
    BY <1>1 DEF Inv, Cancelled, Late
  <1>8. Clean'
    BY <1>1 DEF Inv, Clean
  <1>9. Named'
    BY <1>1 DEF Inv, Named
  <1>10. Ended'
    BY <1>1 DEF Inv, Ended, NothingAfterEnding
  <1>11. Durable'
    BY <1>1 DEF Inv, Durable, DurableAtRest
  <1>12. Answered'
    BY <1>1 DEF Inv, Answered, Said, InHand, Failing
  <1>13. QED
    BY <1>2, <1>3, <1>4, <1>5, <1>6, <1>7, <1>8, <1>9, <1>10, <1>11, <1>12 DEF Inv

-----------------------------------------------------------------------------
(* Steps of Run that write, and the outside                                *)

\* An entry of a turn that has not ended comes after no ending of it.
LEMMA FirstEnding ==
  ASSUME Inv, NEW e, Grows(e), faults' = faults, e.turn = turn',
         \A i \in DOMAIN log : ~(Ending(log[i]) /\ log[i].turn = e.turn),
         Ending(e) => pc' = "sync" /\ arg' = "idle" /\ e.kind = "turn_interrupted"
  PROVE  Ended'
  <1>1. NothingAfterEnding'
    <2> SUFFICES ASSUME NEW i \in DOMAIN log', NEW j \in DOMAIN log', i < j, Ending(log'[i]),
                        log'[j].turn = log'[i].turn
                 PROVE  /\ faults > 0
                        /\ log'[i].kind = "turn_interrupted" /\ log'[j].kind = "turn_failed"
      BY DEF NothingAfterEnding, Ending
    <2>1. i \in DOMAIN log
      BY DEF Grows
    <2>2. CASE j \in DOMAIN log
      BY <2>1, <2>2 DEF Inv, Ended, NothingAfterEnding, Grows
    <2>3. CASE j = Len(log')
      BY <2>1, <2>3 DEF Grows
    <2>4. QED
      BY <2>2, <2>3 DEF Grows
  <1>2. ASSUME NEW i \in DOMAIN log', Ending(log'[i]), log'[i].turn = turn'
        PROVE  pc' = "sync" /\ arg' = "idle" /\ log'[i].kind = "turn_interrupted"
    BY <1>2 DEF Grows
  <1>3. QED
    BY <1>1, <1>2 DEF Ended, Ending

\* The first entry of a turn is its message, and gives it its id.
LEMMA AppendMessageKeeps ==
  ASSUME Inv, AppendMessage
  PROVE  Inv'
  <1>1. /\ pc = "message" /\ state' = state /\ interrupt' = interrupt
        /\ batch' = batch /\ malformed' = malformed /\ issued' = issued
        /\ runs' = runs /\ hit' = hit /\ ctxDone' = ctxDone /\ cancelled' = cancelled
        /\ at' = at /\ what' = what /\ out' = out /\ saw' = saw
    BY DEF AppendMessage, Appended, AppendFails, Fault, runner, message, calls, flight, caller,
           history, Goto
  <1>2. ASSUME NEW e, Grows(e), e.kind = "user_message", e.uses = {},
               e.what = (IF turn = 0 THEN "typed" ELSE "steer"), e.run = runs, e.turn = turn',
               turn' = IF turn = 0 THEN runs ELSE turn,
               pc' = "loop", synced' = synced, faults' = faults
        PROVE  Inv'
    <2>1. Shape'
      BY <1>1, <1>2 DEF Inv, Shape, Grows, Placed
    <2>2. Placed'
      BY <1>1, <1>2 DEF Inv, Placed, Failing, RunPlaces, Resting, Active
    <2>3. Calling'
      BY <1>1, <1>2 DEF Inv, Calling, CallOk, Before, Grows, Said
    <2>4. Heeded'
      BY <1>1, <1>2 DEF Inv, Heeded
    <2>5. Landed'
      BY <1>1, <1>2 DEF Inv, Landed, CutByItsOwnInterrupt, Grows
    <2>6. Cancelled'
      BY <1>1, <1>2 DEF Inv, Cancelled, Late
    <2>7. Clean'
      BY <1>1, <1>2 DEF Inv, Clean, Grows
    <2>8. Named'
      BY <1>1, <1>2 DEF Inv, Named, Shape, Grows, Placed
    <2>9. Ended'
      <3>1. \A i \in DOMAIN log : ~(Ending(log[i]) /\ log[i].turn = e.turn)
        BY <1>1, <1>2 DEF Inv, Ended, Placed, Failing, Named
      <3>2. QED
        BY <1>1, <1>2, <3>1, FirstEnding DEF Ending
    <2>10. Durable'
      BY <1>1, <1>2 DEF Inv, Durable, DurableAtRest, Grows
    <2>11. Answered'
      BY <1>1, <1>2 DEF Inv, Answered, InHand, Failing, Grows, Said, Named
    <2>12. QED
      BY <2>1, <2>2, <2>3, <2>4, <2>5, <2>6, <2>7, <2>8, <2>9, <2>10, <2>11 DEF Inv
  <1>3. ASSUME log' = log, synced' = synced, faults' \in {faults, faults + 1},
               faults' = faults + 1,
               turn' = turn, pc' = "fail", arg' = "internal"
        PROVE  Inv'
    <2>1. Shape'
      BY <1>1, <1>3 DEF Inv, Shape
    <2>2. Placed'
      BY <1>1, <1>3 DEF Inv, Placed, Failing, RunPlaces, Resting, Active
    <2>3. Calling'
      BY <1>1, <1>3 DEF Inv, Calling, CallOk, Before, Said
    <2>4. Heeded'
      BY <1>1, <1>3 DEF Inv, Heeded
    <2>5. Landed'
      BY <1>1, <1>3 DEF Inv, Landed, CutByItsOwnInterrupt
    <2>6. Cancelled'
      BY <1>1, <1>3 DEF Inv, Cancelled, Late
    <2>7. Clean'
      BY <1>1, <1>3 DEF Inv, Clean
    <2>8. Named'
      BY <1>1, <1>3 DEF Inv, Named, Shape
    <2>9. Ended'
      BY <1>1, <1>3 DEF Inv, Ended, NothingAfterEnding, Ending, Shape
    <2>10. Durable'
      BY <1>1, <1>3 DEF Inv, Durable, DurableAtRest, Shape
    <2>11. Answered'
      BY <1>1, <1>3 DEF Inv, Answered, InHand, Failing, Said
    <2>12. QED
      BY <2>1, <2>2, <2>3, <2>4, <2>5, <2>6, <2>7, <2>8, <2>9, <2>10, <2>11 DEF Inv
  <1>4. QED
    <2> DEFINE id == IF turn = 0 THEN runs ELSE turn
               w == IF turn = 0 THEN "typed" ELSE "steer"
               e == [Entry("user_message", {}, w) EXCEPT !.turn = id]
    <2>1. e.kind = "user_message" /\ e.uses = {} /\ e.what = w /\ e.run = runs /\ e.turn = id
      BY DEF Entry
    <2>2. Legal(e)
      BY <2>1 DEF Legal
    <2>3. CASE Appended(e) /\ turn' = id /\ Goto("loop", "none")
      <3>1. Grows(e)
        BY <2>3, Grown DEF Inv, Shape, Appended
      <3>2. e.turn = turn' /\ pc' = "loop" /\ synced' = synced /\ faults' = faults
        BY <2>1, <2>3 DEF Goto, Appended
      <3> HIDE DEF e
      <3>3. QED
        BY <1>2, <2>1, <2>3, <3>1, <3>2
    <2>4. CASE AppendFails(e) /\ UNCHANGED turn /\ Goto("fail", "internal")
      <3>1. faults' = faults + 1 /\ log' = log /\ synced' = synced
        BY <2>2, <2>4 DEF AppendFails, Fault
      <3>2. QED
        BY <1>3, <2>4, <3>1 DEF Goto
    <2>5. QED
      BY <2>3, <2>4 DEF AppendMessage

\* A message that was cut belongs to a Run that was hit.
LEMMA AppendPartialKeeps ==
  ASSUME Inv, AppendPartial
  PROVE  Inv'
  <1>1. /\ pc = "partial" /\ state' = state
        /\ batch' = {} /\ malformed' = {} /\ issued' = issued
        /\ turn' = turn /\ interrupt' = interrupt
        /\ runs' = runs /\ hit' = hit /\ ctxDone' = ctxDone /\ cancelled' = cancelled
        /\ at' = at /\ what' = what /\ out' = out /\ saw' = saw
    BY DEF AppendPartial, Appended, AppendFails, Fault, runner, message, calls, flight, caller,
           history, Goto, Entry
  <1>2. ASSUME NEW e, Grows(e), e.kind = "assistant_message", e.uses = (batch \ malformed),
               e.what = "interrupted", e.run = runs, e.turn = turn,
               synced' = synced, faults' = faults,
               pc' = "finish", arg' = arg
        PROVE  Inv'
    <2>1. Shape'
      BY <1>1, <1>2 DEF Inv, Shape, Grows
    <2>2. Placed'
      BY <1>1, <1>2 DEF Inv, Placed, Failing, RunPlaces, Resting, Active
    <2>3. Calling'
      BY <1>1, <1>2 DEF Inv, Calling, CallOk, Before, Grows, Said
    <2>4. Heeded'
      BY <1>1, <1>2 DEF Inv, Heeded
    <2>5. Landed'
      BY <1>1, <1>2 DEF Inv, Landed, CutByItsOwnInterrupt, Grows, Heeded
    <2>6. Cancelled'
      BY <1>1, <1>2 DEF Inv, Cancelled, Late
    <2>7. Clean'
      BY <1>1, <1>2 DEF Inv, Clean, Grows
    <2>8. Named'
      BY <1>1, <1>2 DEF Inv, Named, Shape, Grows, Placed, Failing
    <2>9. Ended'
      <3>1. \A i \in DOMAIN log : ~(Ending(log[i]) /\ log[i].turn = e.turn)
        BY <1>1, <1>2 DEF Inv, Ended
      <3>2. QED
        BY <1>1, <1>2, <3>1, FirstEnding DEF Ending
    <2>10. Durable'
      BY <1>1, <1>2 DEF Inv, Durable, DurableAtRest, Grows
    <2>11. Answered'
      BY <1>1, <1>2 DEF Inv, Answered, InHand, Failing, Grows, Said
    <2>12. QED
      BY <2>1, <2>2, <2>3, <2>4, <2>5, <2>6, <2>7, <2>8, <2>9, <2>10, <2>11 DEF Inv
  <1>3. ASSUME log' = log, synced' = synced, faults' \in {faults, faults + 1},
               pc' = "fail", arg' = "internal"
        PROVE  Inv'
    <2>1. Shape'
      BY <1>1, <1>3 DEF Inv, Shape
    <2>2. Placed'
      BY <1>1, <1>3 DEF Inv, Placed, Failing, RunPlaces, Resting, Active
    <2>3. Calling'
      BY <1>1, <1>3 DEF Inv, Calling, CallOk, Before, Said
    <2>4. Heeded'
      BY <1>1, <1>3 DEF Inv, Heeded
    <2>5. Landed'
      BY <1>1, <1>3 DEF Inv, Landed, CutByItsOwnInterrupt
    <2>6. Cancelled'
      BY <1>1, <1>3 DEF Inv, Cancelled, Late
    <2>7. Clean'
      BY <1>1, <1>3 DEF Inv, Clean
    <2>8. Named'
      BY <1>1, <1>3 DEF Inv, Named, Shape
    <2>9. Ended'
      BY <1>1, <1>3 DEF Inv, Ended, NothingAfterEnding, Ending, Shape
    <2>10. Durable'
      BY <1>1, <1>3 DEF Inv, Durable, DurableAtRest, Shape, Placed, Failing
    <2>11. Answered'
      BY <1>1, <1>3 DEF Inv, Answered, InHand, Failing, Said
    <2>12. QED
      BY <2>1, <2>2, <2>3, <2>4, <2>5, <2>6, <2>7, <2>8, <2>9, <2>10, <2>11 DEF Inv
  <1>4. QED
    <2> DEFINE e == Entry("assistant_message", batch \ malformed, "interrupted")
    <2>1. /\ e.kind = "assistant_message" /\ e.uses = (batch \ malformed)
          /\ e.what = "interrupted" /\ e.run = runs /\ e.turn = turn
      BY DEF Entry
    <2>2. CASE Appended(e) /\ Goto("finish", arg)
      <3>1. Grows(e) /\ synced' = synced /\ faults' = faults
        BY <2>2, Grown DEF Inv, Shape, Appended
      <3> HIDE DEF e
      <3>2. QED
        BY <1>2, <2>1, <2>2, <3>1 DEF Goto
    <2>3. CASE AppendFails(e) /\ Goto("fail", "internal")
      BY <1>3, <2>3, FailedAppend DEF Goto
    <2>4. QED
      BY <2>2, <2>3 DEF AppendPartial

\* The calls of a whole message are all in hand.
LEMMA AppendWholeKeeps ==
  ASSUME Inv, AppendWhole
  PROVE  Inv'
  <1>1. /\ pc = "whole" /\ state' = state
        /\ batch' = batch /\ malformed' = malformed /\ issued' = issued
        /\ turn' = turn /\ interrupt' = interrupt
        /\ runs' = runs /\ hit' = hit /\ ctxDone' = ctxDone /\ cancelled' = cancelled
        /\ at' = at /\ what' = what /\ out' = out /\ saw' = saw
    BY DEF AppendWhole, Appended, AppendFails, Fault, runner, message, calls, flight, caller,
           history, Goto, Entry
  <1>2. ASSUME NEW e, Grows(e), e.kind = "assistant_message", e.uses = batch,
               e.what = "whole", e.run = runs, e.turn = turn,
               synced' = synced, faults' = faults,
               pc' = "compact"
        PROVE  Inv'
    <2>1. Shape'
      BY <1>1, <1>2 DEF Inv, Shape, Grows
    <2>2. Placed'
      BY <1>1, <1>2 DEF Inv, Placed, Failing, RunPlaces, Resting, Active
    <2>3. Calling'
      BY <1>1, <1>2 DEF Inv, Calling, CallOk, Before, Grows, Said
    <2>4. Heeded'
      BY <1>1, <1>2 DEF Inv, Heeded
    <2>5. Landed'
      BY <1>1, <1>2 DEF Inv, Landed, CutByItsOwnInterrupt, Grows
    <2>6. Cancelled'
      BY <1>1, <1>2 DEF Inv, Cancelled, Late
    <2>7. Clean'
      BY <1>1, <1>2 DEF Inv, Clean, Grows
    <2>8. Named'
      BY <1>1, <1>2 DEF Inv, Named, Shape, Grows, Placed, Failing
    <2>9. Ended'
      <3>1. \A i \in DOMAIN log : ~(Ending(log[i]) /\ log[i].turn = e.turn)
        BY <1>1, <1>2 DEF Inv, Ended
      <3>2. QED
        BY <1>1, <1>2, <3>1, FirstEnding DEF Ending
    <2>10. Durable'
      BY <1>1, <1>2 DEF Inv, Durable, DurableAtRest, Grows
    <2>11. Answered'
      <3>1. batch \subseteq Uses
        BY TurnRunnerAssumption DEF Inv, Shape, Uses
      <3>2. ASSUME NEW i \in DOMAIN log, log[i].kind = "assistant_message",
                   log[i].what = "whole", log[i].turn = turn, NEW u \in log[i].uses
            PROVE  u \in Uses /\ (Said("tool_result", u) \/ (at[u] = "done" /\ out[u] \in Faults))
        BY <1>1, <3>2 DEF Inv, Answered, InHand, Failing
      <3>3. QED
        BY <1>1, <1>2, <3>1, <3>2 DEF Answered, InHand, Grows
    <2>12. QED
      BY <2>1, <2>2, <2>3, <2>4, <2>5, <2>6, <2>7, <2>8, <2>9, <2>10, <2>11 DEF Inv
  <1>3. ASSUME log' = log, synced' = synced, faults' \in {faults, faults + 1},
               pc' = "fail", arg' = "internal"
        PROVE  Inv'
    <2>1. Shape'
      BY <1>1, <1>3 DEF Inv, Shape
    <2>2. Placed'
      BY <1>1, <1>3 DEF Inv, Placed, Failing, RunPlaces, Resting, Active
    <2>3. Calling'
      BY <1>1, <1>3 DEF Inv, Calling, CallOk, Before, Said
    <2>4. Heeded'
      BY <1>1, <1>3 DEF Inv, Heeded
    <2>5. Landed'
      BY <1>1, <1>3 DEF Inv, Landed, CutByItsOwnInterrupt
    <2>6. Cancelled'
      BY <1>1, <1>3 DEF Inv, Cancelled, Late
    <2>7. Clean'
      BY <1>1, <1>3 DEF Inv, Clean
    <2>8. Named'
      BY <1>1, <1>3 DEF Inv, Named, Shape
    <2>9. Ended'
      BY <1>1, <1>3 DEF Inv, Ended, NothingAfterEnding, Ending, Shape
    <2>10. Durable'
      BY <1>1, <1>3 DEF Inv, Durable, DurableAtRest, Shape, Placed, Failing
    <2>11. Answered'
      BY <1>1, <1>3 DEF Inv, Answered, InHand, Failing, Said
    <2>12. QED
      BY <2>1, <2>2, <2>3, <2>4, <2>5, <2>6, <2>7, <2>8, <2>9, <2>10, <2>11 DEF Inv
  <1>4. QED
    <2> DEFINE e == Entry("assistant_message", batch, "whole")
    <2>1. /\ e.kind = "assistant_message" /\ e.uses = batch /\ e.what = "whole" /\ e.run = runs
          /\ e.turn = turn
      BY DEF Entry
    <2>2. CASE Appended(e) /\ Goto("compact", "none")
      <3>1. Grows(e) /\ synced' = synced /\ faults' = faults
        BY <2>2, Grown DEF Inv, Shape, Appended
      <3> HIDE DEF e
      <3>2. QED
        BY <1>2, <2>1, <2>2, <3>1 DEF Goto
    <2>3. CASE AppendFails(e) /\ Goto("fail", "internal")
      BY <1>3, <2>3, FailedAppend DEF Goto
    <2>4. QED
      BY <2>2, <2>3 DEF AppendWhole

\* A compaction changes nothing for the turn.
LEMMA CompactReturnsKeeps ==
  ASSUME Inv, CompactReturns
  PROVE  Inv'
  <1>1. /\ pc = "compacting" /\ pc' = "dispatch" /\ arg' = "none" /\ state' = state
        /\ batch' = batch /\ malformed' = malformed /\ issued' = issued
        /\ turn' = turn /\ interrupt' = interrupt
        /\ runs' = runs /\ hit' = hit /\ ctxDone' = ctxDone /\ cancelled' = cancelled
        /\ at' = at /\ what' = what /\ out' = out /\ saw' = saw
    BY DEF CompactReturns, Appended, AppendFails, Fault, runner, message, calls, flight, caller,
           history, Goto, Entry
  <1>2. ASSUME NEW e, Grows(e), e.kind = "compaction", e.uses = {},
               e.what = "summary", e.run = runs, e.turn = turn,
               synced' = synced, faults' = faults
        PROVE  Inv'
    <2>1. Shape'
      BY <1>1, <1>2 DEF Inv, Shape, Grows
    <2>2. Placed'
      BY <1>1, <1>2 DEF Inv, Placed, Failing, RunPlaces, Resting, Active
    <2>3. Calling'
      BY <1>1, <1>2 DEF Inv, Calling, CallOk, Before, Grows, Said
    <2>4. Heeded'
      BY <1>1, <1>2 DEF Inv, Heeded
    <2>5. Landed'
      BY <1>1, <1>2 DEF Inv, Landed, CutByItsOwnInterrupt, Grows
    <2>6. Cancelled'
      BY <1>1, <1>2 DEF Inv, Cancelled, Late
    <2>7. Clean'
      BY <1>1, <1>2 DEF Inv, Clean, Grows
    <2>8. Named'
      BY <1>1, <1>2 DEF Inv, Named, Shape, Grows, Placed, Failing
    <2>9. Ended'
      <3>1. \A i \in DOMAIN log : ~(Ending(log[i]) /\ log[i].turn = e.turn)
        BY <1>1, <1>2 DEF Inv, Ended
      <3>2. QED
        BY <1>1, <1>2, <3>1, FirstEnding DEF Ending
    <2>10. Durable'
      BY <1>1, <1>2 DEF Inv, Durable, DurableAtRest, Grows
    <2>11. Answered'
      BY <1>1, <1>2 DEF Inv, Answered, InHand, Failing, Grows, Said
    <2>12. QED
      BY <2>1, <2>2, <2>3, <2>4, <2>5, <2>6, <2>7, <2>8, <2>9, <2>10, <2>11 DEF Inv
  <1>3. ASSUME log' = log, synced' = synced, faults' \in {faults, faults + 1}
        PROVE  Inv'
    <2>1. Shape'
      BY <1>1, <1>3 DEF Inv, Shape
    <2>2. Placed'
      BY <1>1, <1>3 DEF Inv, Placed, Failing, RunPlaces, Resting, Active
    <2>3. Calling'
      BY <1>1, <1>3 DEF Inv, Calling, CallOk, Before, Said
    <2>4. Heeded'
      BY <1>1, <1>3 DEF Inv, Heeded
    <2>5. Landed'
      BY <1>1, <1>3 DEF Inv, Landed, CutByItsOwnInterrupt
    <2>6. Cancelled'
      BY <1>1, <1>3 DEF Inv, Cancelled, Late
    <2>7. Clean'
      BY <1>1, <1>3 DEF Inv, Clean
    <2>8. Named'
      BY <1>1, <1>3 DEF Inv, Named, Shape
    <2>9. Ended'
      BY <1>1, <1>3 DEF Inv, Ended, NothingAfterEnding, Ending, Shape
    <2>10. Durable'
      BY <1>1, <1>3 DEF Inv, Durable, DurableAtRest, Shape, Placed, Failing
    <2>11. Answered'
      BY <1>1, <1>3 DEF Inv, Answered, InHand, Failing, Said
    <2>12. QED
      BY <2>1, <2>2, <2>3, <2>4, <2>5, <2>6, <2>7, <2>8, <2>9, <2>10, <2>11 DEF Inv
  <1>4. QED
    <2> DEFINE e == Entry("compaction", {}, "summary")
    <2>1. /\ e.kind = "compaction" /\ e.uses = {} /\ e.what = "summary" /\ e.run = runs
          /\ e.turn = turn
      BY DEF Entry
    <2>2. CASE Appended(e)
      <3>1. Grows(e) /\ synced' = synced /\ faults' = faults
        BY <2>2, Grown DEF Inv, Shape, Appended
      <3> HIDE DEF e
      <3>2. QED
        BY <1>2, <2>1, <2>2, <3>1
    <2>3. CASE UNCHANGED disk
      BY <1>3, <2>3 DEF disk
    <2>4. QED
      BY <2>2, <2>3 DEF CompactReturns

\* A malformed input is refused: its deny, then its result.
LEMMA RefuseMalformedKeeps ==
  ASSUME Inv, RefuseMalformed
  PROVE  Inv'
  <1>1. /\ pc = "refuse" /\ state' = state /\ issued' = issued
        /\ turn' = turn /\ interrupt' = interrupt
        /\ runs' = runs /\ hit' = hit /\ ctxDone' = ctxDone /\ cancelled' = cancelled
        /\ at' = at /\ what' = what /\ out' = out /\ saw' = saw
    BY DEF RefuseMalformed, Appended, AppendFails, Fault, runner, calls, flight, caller,
           history, Goto, Entry
  <1>2. ASSUME NEW e, Grows(e), NEW u, e.uses = {u},
               e.kind \in {"permission_decision", "tool_result"},
               e.what \in {"deny", "error"}, e.run = runs, e.turn = turn,
               synced' = synced, faults' = faults,
               \/ pc' = "refuse" /\ batch' = batch /\ malformed' = malformed
               \/ /\ pc' = "dispatch" /\ e.kind = "tool_result"
                  /\ batch' = batch \ {u} /\ malformed' = malformed \ {u}
        PROVE  Inv'
    <2>1. Shape'
      BY <1>1, <1>2 DEF Inv, Shape, Grows
    <2>2. Placed'
      BY <1>1, <1>2 DEF Inv, Placed, Failing, RunPlaces, Resting, Active
    <2>3. Calling'
      BY <1>1, <1>2 DEF Inv, Calling, CallOk, Before, Grows, Said
    <2>4. Heeded'
      BY <1>1, <1>2 DEF Inv, Heeded
    <2>5. Landed'
      BY <1>1, <1>2 DEF Inv, Landed, CutByItsOwnInterrupt, Grows
    <2>6. Cancelled'
      BY <1>1, <1>2 DEF Inv, Cancelled, Late
    <2>7. Clean'
      BY <1>1, <1>2 DEF Inv, Clean, Grows
    <2>8. Named'
      BY <1>1, <1>2 DEF Inv, Named, Shape, Grows, Placed, Failing
    <2>9. Ended'
      <3>1. \A i \in DOMAIN log : ~(Ending(log[i]) /\ log[i].turn = e.turn)
        BY <1>1, <1>2 DEF Inv, Ended
      <3>2. QED
        BY <1>1, <1>2, <3>1, FirstEnding DEF Ending
    <2>10. Durable'
      BY <1>1, <1>2 DEF Inv, Durable, DurableAtRest, Grows
    <2>11. Answered'
      BY <1>1, <1>2 DEF Inv, Answered, InHand, Failing, Grows, Said
    <2>12. QED
      BY <2>1, <2>2, <2>3, <2>4, <2>5, <2>6, <2>7, <2>8, <2>9, <2>10, <2>11 DEF Inv
  <1>3. ASSUME log' = log, synced' = synced, faults' \in {faults, faults + 1},
               batch' = batch /\ malformed' = malformed,
               pc' = "fail" /\ arg' = "internal"
        PROVE  Inv'
    <2>1. Shape'
      BY <1>1, <1>3 DEF Inv, Shape
    <2>2. Placed'
      BY <1>1, <1>3 DEF Inv, Placed, Failing, RunPlaces, Resting, Active
    <2>3. Calling'
      BY <1>1, <1>3 DEF Inv, Calling, CallOk, Before, Said
    <2>4. Heeded'
      BY <1>1, <1>3 DEF Inv, Heeded
    <2>5. Landed'
      BY <1>1, <1>3 DEF Inv, Landed, CutByItsOwnInterrupt
    <2>6. Cancelled'
      BY <1>1, <1>3 DEF Inv, Cancelled, Late
    <2>7. Clean'
      BY <1>1, <1>3 DEF Inv, Clean
    <2>8. Named'
      BY <1>1, <1>3 DEF Inv, Named, Shape
    <2>9. Ended'
      BY <1>1, <1>3 DEF Inv, Ended, NothingAfterEnding, Ending, Shape
    <2>10. Durable'
      BY <1>1, <1>3 DEF Inv, Durable, DurableAtRest, Shape, Placed, Failing
    <2>11. Answered'
      BY <1>1, <1>3 DEF Inv, Answered, InHand, Failing, Said
    <2>12. QED
      BY <2>1, <2>2, <2>3, <2>4, <2>5, <2>6, <2>7, <2>8, <2>9, <2>10, <2>11 DEF Inv
  <1>4. QED
    <2> DEFINE u == Least(malformed)
               e == IF arg = "deny" THEN Entry("permission_decision", {u}, "deny")
                                    ELSE Entry("tool_result", {u}, "error")
    <2>1. /\ e.uses = {u}
          /\ e.kind = (IF arg = "deny" THEN "permission_decision" ELSE "tool_result")
          /\ e.what \in {"deny", "error"} /\ e.run = runs /\ e.turn = turn
      BY DEF Entry
    <2>2. CASE /\ Appended(e)
               /\ IF arg = "deny" THEN Goto("refuse", "error") /\ UNCHANGED <<batch, malformed>>
                  ELSE /\ Goto("dispatch", "refused")
                       /\ batch' = batch \ {u} /\ malformed' = malformed \ {u}
      <3>1. Grows(e) /\ synced' = synced /\ faults' = faults
        BY <2>2, Grown DEF Inv, Shape, Appended
      <3>2. \/ pc' = "refuse" /\ batch' = batch /\ malformed' = malformed
            \/ /\ pc' = "dispatch" /\ e.kind = "tool_result"
               /\ batch' = batch \ {u} /\ malformed' = malformed \ {u}
        BY <2>1, <2>2 DEF Goto
      <3> HIDE DEF e, u
      <3>3. QED
        BY <1>2, <2>1, <3>1, <3>2
    <2>3. CASE AppendFails(e) /\ Goto("fail", "internal") /\ UNCHANGED <<batch, malformed>>
      BY <1>3, <2>3, FailedAppend DEF Goto
    <2>4. QED
      BY <2>2, <2>3 DEF RefuseMalformed

\* A cancel is recorded, a steer only rests.
LEMMA FinishInterruptKeeps ==
  ASSUME Inv, FinishInterrupt
  PROVE  Inv'
  <1>1. /\ pc = "finish" /\ state' = state
        /\ batch' = batch /\ malformed' = malformed /\ issued' = issued
        /\ turn' = turn /\ interrupt' = interrupt
        /\ runs' = runs /\ hit' = hit /\ ctxDone' = ctxDone /\ cancelled' = cancelled
        /\ at' = at /\ what' = what /\ out' = out /\ saw' = saw
    BY DEF FinishInterrupt, Appended, AppendFails, Fault, runner, message, calls, flight,
           caller, history, Goto, Entry
  <1>2. ASSUME NEW e, Grows(e), e.kind = "turn_interrupted", e.uses = {},
               e.what = "cancel", e.run = runs, e.turn = turn,
               synced' = synced, faults' = faults,
               pc' = "sync", arg' = "idle"
        PROVE  Inv'
    <2>1. Shape'
      BY <1>1, <1>2 DEF Inv, Shape, Grows
    <2>2. Placed'
      BY <1>1, <1>2 DEF Inv, Placed, Failing, RunPlaces, Resting, Active
    <2>3. Calling'
      BY <1>1, <1>2 DEF Inv, Calling, CallOk, Before, Grows, Said
    <2>4. Heeded'
      BY <1>1, <1>2 DEF Inv, Heeded
    <2>5. Landed'
      BY <1>1, <1>2 DEF Inv, Landed, CutByItsOwnInterrupt, Grows, Heeded
    <2>6. Cancelled'
      BY <1>1, <1>2 DEF Inv, Cancelled, Late
    <2>7. Clean'
      BY <1>1, <1>2 DEF Inv, Clean, Grows
    <2>8. Named'
      BY <1>1, <1>2 DEF Inv, Named, Shape, Grows, Placed, Failing
    <2>9. Ended'
      <3>1. \A i \in DOMAIN log : ~(Ending(log[i]) /\ log[i].turn = e.turn)
        BY <1>1, <1>2 DEF Inv, Ended
      <3>2. QED
        BY <1>1, <1>2, <3>1, FirstEnding DEF Ending
    <2>10. Durable'
      BY <1>1, <1>2 DEF Inv, Durable, DurableAtRest, Grows
    <2>11. Answered'
      BY <1>1, <1>2 DEF Inv, Answered, InHand, Failing, Grows, Said
    <2>12. QED
      BY <2>1, <2>2, <2>3, <2>4, <2>5, <2>6, <2>7, <2>8, <2>9, <2>10, <2>11 DEF Inv
  <1>3. ASSUME log' = log, synced' = synced, faults' \in {faults, faults + 1},
               \/ pc' = "sync" /\ arg' = "steering" /\ arg = "steer"
               \/ pc' = "fail" /\ arg' = "internal"
        PROVE  Inv'
    <2>1. Shape'
      BY <1>1, <1>3 DEF Inv, Shape
    <2>2. Placed'
      BY <1>1, <1>3 DEF Inv, Placed, Failing, RunPlaces, Resting, Active
    <2>3. Calling'
      BY <1>1, <1>3 DEF Inv, Calling, CallOk, Before, Said
    <2>4. Heeded'
      BY <1>1, <1>3 DEF Inv, Heeded
    <2>5. Landed'
      BY <1>1, <1>3 DEF Inv, Landed, CutByItsOwnInterrupt
    <2>6. Cancelled'
      BY <1>1, <1>3 DEF Inv, Cancelled, Late
    <2>7. Clean'
      BY <1>1, <1>3 DEF Inv, Clean
    <2>8. Named'
      BY <1>1, <1>3 DEF Inv, Named, Shape
    <2>9. Ended'
      BY <1>1, <1>3 DEF Inv, Ended, NothingAfterEnding, Ending, Shape
    <2>10. Durable'
      BY <1>1, <1>3 DEF Inv, Durable, DurableAtRest, Shape, Placed, Failing
    <2>11. Answered'
      BY <1>1, <1>3 DEF Inv, Answered, InHand, Failing, Said
    <2>12. QED
      BY <2>1, <2>2, <2>3, <2>4, <2>5, <2>6, <2>7, <2>8, <2>9, <2>10, <2>11 DEF Inv
  <1>4. QED
    <2> DEFINE e == Entry("turn_interrupted", {}, "cancel")
    <2>1. /\ e.kind = "turn_interrupted" /\ e.uses = {} /\ e.what = "cancel" /\ e.run = runs
          /\ e.turn = turn
      BY DEF Entry
    <2>2. CASE arg = "cancel" /\ Appended(e) /\ Goto("sync", "idle")
      <3>1. Grows(e) /\ synced' = synced /\ faults' = faults
        BY <2>2, Grown DEF Inv, Shape, Appended
      <3> HIDE DEF e
      <3>2. QED
        BY <1>2, <2>1, <2>2, <3>1 DEF Goto
    <2>3. CASE arg = "cancel" /\ AppendFails(e) /\ Goto("fail", "internal")
      BY <1>3, <2>3, FailedAppend DEF Goto
    <2>4. CASE arg = "steer" /\ Goto("sync", "steering") /\ UNCHANGED disk
      BY <1>3, <2>4 DEF Goto, disk
    <2>5. QED
      BY <2>2, <2>3, <2>4 DEF FinishInterrupt

\* turn_failed and its sync are best effort, and only a fault keeps them from the disk.
LEMMA FailKeeps ==
  ASSUME Inv, Fail
  PROVE  Inv'
  <1>1. /\ pc = "fail" /\ pc' = "clear" /\ arg' = "failed" /\ state' = state
        /\ batch' = batch /\ malformed' = malformed /\ issued' = issued
        /\ turn' = turn /\ interrupt' = interrupt
        /\ runs' = runs /\ hit' = hit /\ ctxDone' = ctxDone /\ cancelled' = cancelled
        /\ at' = at /\ what' = what /\ out' = out /\ saw' = saw
    BY DEF Fail, Appended, AppendFails, Fault, runner, message, calls, flight, caller, history,
           Goto, Entry
  <1>2. ASSUME NEW e, Grows(e), e.kind = "turn_failed", e.uses = {},
               e.what = arg, e.run = runs, e.turn = turn,
               turn # 0,
               \/ synced' = Len(log') /\ faults' = faults
               \/ synced' = synced /\ faults' = faults + 1
        PROVE  Inv'
    <2>1. Shape'
      BY <1>1, <1>2 DEF Inv, Shape, Grows
    <2>2. Placed'
      BY <1>1, <1>2 DEF Inv, Placed, Failing, RunPlaces, Resting, Active
    <2>3. Calling'
      BY <1>1, <1>2 DEF Inv, Calling, CallOk, Before, Grows, Said
    <2>4. Heeded'
      BY <1>1, <1>2 DEF Inv, Heeded
    <2>5. Landed'
      BY <1>1, <1>2 DEF Inv, Landed, CutByItsOwnInterrupt, Grows, Placed
    <2>6. Cancelled'
      BY <1>1, <1>2 DEF Inv, Cancelled, Late
    <2>7. Clean'
      BY <1>1, <1>2 DEF Inv, Clean, Grows
    <2>8. Named'
      BY <1>1, <1>2 DEF Inv, Named, Shape, Grows, Placed, Failing
    <2>9. Ended'
      BY <1>1, <1>2 DEF Inv, Ended, NothingAfterEnding, Ending, Shape, Grows, Placed, Failing
    <2>10. Durable'
      BY <1>1, <1>2 DEF Inv, Durable, DurableAtRest, Grows, Shape
    <2>11. Answered'
      BY <1>1, <1>2 DEF Inv, Answered, InHand, Failing, Grows, Said
    <2>12. QED
      BY <2>1, <2>2, <2>3, <2>4, <2>5, <2>6, <2>7, <2>8, <2>9, <2>10, <2>11 DEF Inv
  <1>3. ASSUME log' = log, synced' = synced,
               (faults' = faults /\ turn = 0) \/ faults' = faults + 1
        PROVE  Inv'
    <2>1. Shape'
      BY <1>1, <1>3 DEF Inv, Shape
    <2>2. Placed'
      BY <1>1, <1>3 DEF Inv, Placed, Failing, RunPlaces, Resting, Active
    <2>3. Calling'
      BY <1>1, <1>3 DEF Inv, Calling, CallOk, Before, Said
    <2>4. Heeded'
      BY <1>1, <1>3 DEF Inv, Heeded
    <2>5. Landed'
      BY <1>1, <1>3 DEF Inv, Landed, CutByItsOwnInterrupt
    <2>6. Cancelled'
      BY <1>1, <1>3 DEF Inv, Cancelled, Late
    <2>7. Clean'
      BY <1>1, <1>3 DEF Inv, Clean
    <2>8. Named'
      BY <1>1, <1>3 DEF Inv, Named, Shape
    <2>9. Ended'
      BY <1>1, <1>3 DEF Inv, Ended, NothingAfterEnding, Ending, Shape
    <2>10. Durable'
      BY <1>1, <1>3 DEF Inv, Durable, DurableAtRest, Shape, Placed, Failing
    <2>11. Answered'
      BY <1>1, <1>3 DEF Inv, Answered, InHand, Failing, Said
    <2>12. QED
      BY <2>1, <2>2, <2>3, <2>4, <2>5, <2>6, <2>7, <2>8, <2>9, <2>10, <2>11 DEF Inv
  <1>4. QED
    <2> DEFINE e == Entry("turn_failed", {}, arg)
    <2>1. e.kind = "turn_failed" /\ e.uses = {} /\ e.what = arg /\ e.run = runs /\ e.turn = turn
      BY DEF Entry
    <2>2. Legal(e) <=> turn # 0
      BY LegalIs
    <2>3. CASE AppendFails(e)
      <3>1. /\ log' = log /\ synced' = synced
            /\ ((faults' = faults /\ turn = 0) \/ faults' = faults + 1)
        BY <2>2, <2>3 DEF AppendFails, Fault
      <3>2. QED
        BY <1>3, <3>1
    <2>4. CASE /\ Legal(e) /\ log' = Append(log, e)
               /\ \/ synced' = Len(log') /\ UNCHANGED faults
                  \/ Fault /\ UNCHANGED synced
      <3>1. Grows(e) /\ turn # 0
        BY <2>2, <2>4, Grown DEF Inv, Shape
      <3>2. (synced' = Len(log') /\ faults' = faults) \/ (synced' = synced /\ faults' = faults + 1)
        BY <2>4 DEF Fault
      <3> HIDE DEF e
      <3>3. QED
        BY <1>2, <2>1, <3>1, <3>2
    <2>5. QED
      BY <2>3, <2>4 DEF Fail

\* Cancelling a parked turn ends it where it is.
LEMMA CancelSteeringKeeps ==
  ASSUME Inv, CancelSteering
  PROVE  Inv'
  <1>1. /\ state = "steering" /\ state' = "idle" /\ pc' = pc /\ arg' = arg
        /\ batch' = batch /\ malformed' = malformed /\ issued' = issued
        /\ turn' = turn /\ interrupt' = interrupt
        /\ runs' = runs /\ hit' = hit \cup {runs} /\ ctxDone' = ctxDone /\ cancelled' = cancelled
        /\ at' = at /\ what' = what /\ out' = out /\ saw' = saw
    BY DEF CancelSteering, Appended, AppendFails, Fault, message, calls, flight, caller, Goto,
           flow, Entry
  <1>2. ASSUME NEW e, Grows(e), e.kind = "turn_interrupted", e.uses = {},
               e.what = "cancel", e.run = runs, e.turn = turn,
               \/ synced' = Len(log') /\ faults' = faults
               \/ synced' = synced /\ faults' = faults + 1
        PROVE  Inv'
    <2>1. Shape'
      BY <1>1, <1>2 DEF Inv, Shape, Grows
    <2>2. Placed'
      BY <1>1, <1>2 DEF Inv, Placed, Failing, RunPlaces, Resting, Active
    <2>3. Calling'
      BY <1>1, <1>2 DEF Inv, Calling, CallOk, Before, Grows, Said
    <2>4. Heeded'
      BY <1>1, <1>2 DEF Inv, Heeded
    <2>5. Landed'
      BY <1>1, <1>2 DEF Inv, Landed, CutByItsOwnInterrupt, Grows
    <2>6. Cancelled'
      BY <1>1, <1>2 DEF Inv, Cancelled, Late
    <2>7. Clean'
      BY <1>1, <1>2 DEF Inv, Clean, Grows
    <2>8. Named'
      BY <1>1, <1>2 DEF Inv, Named, Shape, Grows, Placed, Failing
    <2>9. Ended'
      BY <1>1, <1>2 DEF Inv, Ended, NothingAfterEnding, Ending, Shape, Grows, Placed, Failing
    <2>10. Durable'
      BY <1>1, <1>2 DEF Inv, Durable, DurableAtRest, Grows, Shape, Placed
    <2>11. Answered'
      BY <1>1, <1>2 DEF Inv, Answered, InHand, Failing, Grows, Said
    <2>12. QED
      BY <2>1, <2>2, <2>3, <2>4, <2>5, <2>6, <2>7, <2>8, <2>9, <2>10, <2>11 DEF Inv
  <1>3. ASSUME log' = log, synced' = synced, faults' = faults + 1
        PROVE  Inv'
    <2>1. Shape'
      BY <1>1, <1>3 DEF Inv, Shape
    <2>2. Placed'
      BY <1>1, <1>3 DEF Inv, Placed, Failing, RunPlaces, Resting, Active
    <2>3. Calling'
      BY <1>1, <1>3 DEF Inv, Calling, CallOk, Before, Said
    <2>4. Heeded'
      BY <1>1, <1>3 DEF Inv, Heeded
    <2>5. Landed'
      BY <1>1, <1>3 DEF Inv, Landed, CutByItsOwnInterrupt
    <2>6. Cancelled'
      BY <1>1, <1>3 DEF Inv, Cancelled, Late
    <2>7. Clean'
      BY <1>1, <1>3 DEF Inv, Clean
    <2>8. Named'
      BY <1>1, <1>3 DEF Inv, Named, Shape
    <2>9. Ended'
      BY <1>1, <1>3 DEF Inv, Ended, NothingAfterEnding, Ending, Shape, Placed
    <2>10. Durable'
      BY <1>1, <1>3 DEF Inv, Durable, DurableAtRest, Shape, Placed, Failing
    <2>11. Answered'
      BY <1>1, <1>3 DEF Inv, Answered, InHand, Failing, Said
    <2>12. QED
      BY <2>1, <2>2, <2>3, <2>4, <2>5, <2>6, <2>7, <2>8, <2>9, <2>10, <2>11 DEF Inv
  <1>4. QED
    <2> DEFINE e == Entry("turn_interrupted", {}, "cancel")
    <2>1. /\ e.kind = "turn_interrupted" /\ e.uses = {} /\ e.what = "cancel" /\ e.run = runs
          /\ e.turn = turn
      BY DEF Entry
    <2>2. Legal(e)
      BY LegalIs
    <2>3. CASE AppendFails(e)
      <3>1. log' = log /\ synced' = synced /\ faults' = faults + 1
        BY <2>2, <2>3 DEF AppendFails, Fault
      <3>2. QED
        BY <1>3, <3>1
    <2>4. CASE /\ Legal(e) /\ log' = Append(log, e)
               /\ \/ synced' = Len(log') /\ UNCHANGED faults
                  \/ Fault /\ UNCHANGED synced
      <3>1. Grows(e)
        BY <2>4, Grown DEF Inv, Shape
      <3>2. (synced' = Len(log') /\ faults' = faults) \/ (synced' = synced /\ faults' = faults + 1)
        BY <2>4 DEF Fault
      <3> HIDE DEF e
      <3>3. QED
        BY <1>2, <2>1, <3>1, <3>2
    <2>5. QED
      BY <2>3, <2>4 DEF CancelSteering

\* The end of ctx hits the Run that goes on.
LEMMA CallerEndsKeeps ==
  ASSUME Inv, CallerEnds
  PROVE  Inv'
  <1>1. /\ ctxDone' = TRUE /\ hit' = hit \cup {runs} /\ interrupt' = interrupt
        /\ cancelled' = cancelled
        /\ pc' = pc /\ arg' = arg /\ state' = state /\ turn' = turn /\ runs' = runs
        /\ faults' = faults
        /\ batch' = batch /\ malformed' = malformed /\ issued' = issued
        /\ at' = at /\ what' = what /\ out' = out /\ saw' = saw /\ log' = log /\ synced' = synced
    BY DEF CallerEnds, runner, flow, message, calls, disk, caller, flight
  <1>2. Shape'
    BY <1>1 DEF Inv, Shape
  <1>3. Placed'
    BY <1>1 DEF Inv, Placed, Failing, RunPlaces, Resting, Active
  <1>4. Calling'
    BY <1>1 DEF Inv, Calling, CallOk, Said, Before
  <1>5. Heeded'
    BY <1>1 DEF Inv, Heeded
  <1>6. Landed'
    BY <1>1 DEF Inv, Landed, CutByItsOwnInterrupt
  <1>7. Cancelled'
    BY <1>1 DEF Inv, Cancelled, Late
  <1>8. Clean'
    BY <1>1 DEF Inv, Clean
  <1>9. Named'
    BY <1>1 DEF Inv, Named
  <1>10. Ended'
    BY <1>1 DEF Inv, Ended, NothingAfterEnding
  <1>11. Durable'
    BY <1>1 DEF Inv, Durable, DurableAtRest
  <1>12. Answered'
    BY <1>1 DEF Inv, Answered, Said, InHand, Failing
  <1>13. QED
    BY <1>2, <1>3, <1>4, <1>5, <1>6, <1>7, <1>8, <1>9, <1>10, <1>11, <1>12 DEF Inv

\* An interrupt hits the Run that goes on; an early cancel stands until it has ended the Run.
LEMMA InterruptActiveKeeps ==
  ASSUME Inv, NEW how \in {"steer", "cancel"}, InterruptActive(how)
  PROVE  Inv'
  <1>1. /\ interrupt' = IF interrupt = "cancel" THEN "cancel" ELSE how
        /\ cancelled' = IF how = "cancel" /\ cancelled = "no"
                        THEN IF pc \in Late THEN "late" ELSE "early"
                        ELSE cancelled
        /\ state \in Active /\ hit' = hit \cup {runs} /\ ctxDone' = ctxDone
        /\ pc' = pc /\ arg' = arg /\ state' = state /\ turn' = turn /\ runs' = runs
        /\ faults' = faults
        /\ batch' = batch /\ malformed' = malformed /\ issued' = issued
        /\ at' = at /\ what' = what /\ out' = out /\ saw' = saw /\ log' = log /\ synced' = synced
    BY DEF InterruptActive, Late, runner, flow, message, calls, disk, caller
  <1>2. Shape'
    BY <1>1 DEF Inv, Shape, Interrupts
  <1>3. Placed'
    BY <1>1 DEF Inv, Placed, Failing, RunPlaces, Resting, Active
  <1>4. Calling'
    BY <1>1 DEF Inv, Calling, CallOk, Said, Before
  <1>5. Heeded'
    BY <1>1 DEF Inv, Heeded
  <1>6. Landed'
    BY <1>1 DEF Inv, Landed, CutByItsOwnInterrupt
  <1>7. Cancelled'
    BY <1>1 DEF Inv, Cancelled, Late
  <1>8. Clean'
    BY <1>1 DEF Inv, Clean
  <1>9. Named'
    BY <1>1 DEF Inv, Named
  <1>10. Ended'
    BY <1>1 DEF Inv, Ended, NothingAfterEnding
  <1>11. Durable'
    BY <1>1 DEF Inv, Durable, DurableAtRest
  <1>12. Answered'
    BY <1>1 DEF Inv, Answered, Said, InHand, Failing
  <1>13. QED
    BY <1>2, <1>3, <1>4, <1>5, <1>6, <1>7, <1>8, <1>9, <1>10, <1>11, <1>12 DEF Inv

\* A typed message begins a turn, which has no id and no entry yet.
LEMMA StartKeeps ==
  ASSUME Inv, Start
  PROVE  Inv'
  <1>1. /\ state' = "idle" /\ turn' = 0
        /\ runs' = runs + 1 /\ interrupt' = "none" /\ pc' = "message" /\ cancelled' = "no"
        /\ hit' = hit /\ ctxDone' = ctxDone /\ ~ctxDone /\ faults' = faults /\ pc = "out"
        /\ batch' = batch /\ malformed' = malformed /\ issued' = issued
        /\ at' = at /\ what' = what /\ out' = out /\ saw' = saw /\ log' = log /\ synced' = synced
    BY DEF Start, Claim, message, calls, disk
  <1>2. Shape'
    BY <1>1 DEF Inv, Shape, Interrupts
  <1>3. Placed'
    BY <1>1 DEF Inv, Placed, Failing, RunPlaces, Resting, Active, Shape
  <1>4. Calling'
    BY <1>1 DEF Inv, Calling, CallOk, Said, Before
  <1>5. Heeded'
    BY <1>1 DEF Inv, Heeded, Calling, CallOk
  <1>6. Landed'
    BY <1>1 DEF Inv, Landed, CutByItsOwnInterrupt
  <1>7. Cancelled'
    BY <1>1 DEF Inv, Cancelled, Late
  <1>8. Clean'
    BY <1>1 DEF Inv, Clean, Calling, CallOk
  <1>9. Named'
    BY <1>1 DEF Inv, Named, Shape
  <1>10. Ended'
    BY <1>1 DEF Inv, Ended, NothingAfterEnding, Named
  <1>11. Durable'
    BY <1>1 DEF Inv, Durable, DurableAtRest
  <1>12. Answered'
    BY <1>1 DEF Inv, Answered, Said, InHand, Failing, Named
  <1>13. QED
    BY <1>2, <1>3, <1>4, <1>5, <1>6, <1>7, <1>8, <1>9, <1>10, <1>11, <1>12 DEF Inv

\* A steer message goes on with the turn that is parked, which has not ended.
LEMMA ResumeKeeps ==
  ASSUME Inv, Resume
  PROVE  Inv'
  <1>1. /\ state = "steering" /\ state' = "streaming" /\ turn' = turn
        /\ runs' = runs + 1 /\ interrupt' = "none" /\ pc' = "message" /\ cancelled' = "no"
        /\ hit' = hit /\ ctxDone' = ctxDone /\ ~ctxDone /\ faults' = faults /\ pc = "out"
        /\ batch' = batch /\ malformed' = malformed /\ issued' = issued
        /\ at' = at /\ what' = what /\ out' = out /\ saw' = saw /\ log' = log /\ synced' = synced
    BY DEF Resume, Claim, message, calls, disk
  <1>2. Shape'
    BY <1>1 DEF Inv, Shape, Interrupts
  <1>3. Placed'
    BY <1>1 DEF Inv, Placed, Failing, RunPlaces, Resting, Active, Shape
  <1>4. Calling'
    BY <1>1 DEF Inv, Calling, CallOk, Said, Before
  <1>5. Heeded'
    BY <1>1 DEF Inv, Heeded, Calling, CallOk
  <1>6. Landed'
    BY <1>1 DEF Inv, Landed, CutByItsOwnInterrupt
  <1>7. Cancelled'
    BY <1>1 DEF Inv, Cancelled, Late
  <1>8. Clean'
    BY <1>1 DEF Inv, Clean, Calling, CallOk
  <1>9. Named'
    BY <1>1 DEF Inv, Named, Shape, Placed, Failing
  <1>10. Ended'
    BY <1>1 DEF Inv, Ended, NothingAfterEnding
  <1>11. Durable'
    BY <1>1 DEF Inv, Durable, DurableAtRest
  <1>12. Answered'
    BY <1>1 DEF Inv, Answered, Said, InHand, Failing
  <1>13. QED
    BY <1>2, <1>3, <1>4, <1>5, <1>6, <1>7, <1>8, <1>9, <1>10, <1>11, <1>12 DEF Inv

-----------------------------------------------------------------------------
(* The invariant and the theorems                                          *)

\* Nothing has run and nothing is in the log initially.
LEMMA Starts == Init => Inv
  <1> SUFFICES ASSUME Init PROVE Inv
    OBVIOUS
  <1>1. log = <<>> /\ IsSeq(log) /\ Len(log) = 0 /\ DOMAIN log = {}
    BY DEF Init, IsSeq
  <1>2. Shape
    BY <1>1, TurnRunnerAssumption DEF Init, Shape, Interrupts
  <1>3. Placed
    BY DEF Init, Placed, RunPlaces, Resting
  <1>4. Calling
    BY DEF Init, Calling, CallOk, CallPlaces
  <1>5. Heeded /\ Cancelled
    BY DEF Init, Heeded, Cancelled
  <1>6. Landed /\ Clean /\ Named
    BY <1>1 DEF Init, Landed, CutByItsOwnInterrupt, Clean, Named
  <1>7. Ended /\ Answered
    BY <1>1 DEF Ended, NothingAfterEnding, Answered
  <1>8. Durable
    BY <1>1 DEF Init, Durable, DurableAtRest
  <1>9. QED
    BY <1>2, <1>3, <1>4, <1>5, <1>6, <1>7, <1>8 DEF Inv

\* A step that changes nothing keeps it.
LEMMA Stutters == Inv /\ UNCHANGED vars => Inv'
  <1> SUFFICES ASSUME Inv, UNCHANGED vars PROVE Inv'
    OBVIOUS
  <1> USE DEF vars, runner, flow, message, calls, flight, disk, caller, history
  <1>1. Shape' /\ Placed' /\ Heeded' /\ Landed' /\ Cancelled' /\ Clean' /\ Named' /\ Durable'
    BY DEF Inv, Shape, Placed, Failing, Heeded, Landed, CutByItsOwnInterrupt, Cancelled, Clean,
           Named, Durable, DurableAtRest
  <1>2. Calling'
    BY DEF Inv, Calling, CallOk, Said
  <1>3. Ended'
    BY DEF Inv, Ended, NothingAfterEnding
  <1>4. Answered'
    BY DEF Inv, Answered, Said, Failing
  <1>5. QED
    BY <1>1, <1>2, <1>3, <1>4 DEF Inv

\* Every step keeps the invariant.
LEMMA Steps == Inv /\ [Next]_vars => Inv'
  <1> SUFFICES ASSUME Inv, [Next]_vars PROVE Inv'
    OBVIOUS
  <1>1. CASE Start \/ Resume
    BY <1>1, StartKeeps, ResumeKeeps
  <1>2. CASE RunStep
    BY <1>2, AppendMessageKeeps, NextStepKeeps, RequestKeeps, ObserveStreamKeeps,
       AppendPartialKeeps,
       AppendWholeKeeps, MaybeCompactKeeps, DispatchKeeps, RefuseMalformedKeeps, EndTurnKeeps,
       FinishInterruptKeeps, RestSyncKeeps, ClearInterruptKeeps, SettleKeeps, FailKeeps
    DEF RunStep
  <1>3. CASE StreamReturns \/ CompactReturns
    BY <1>3, StreamReturnsKeeps, CompactReturnsKeeps
  <1>4. CASE \E u \in Uses : CallStep(u) \/ AskReturns(u) \/ InvokeReturns(u)
    BY <1>4, GateCallKeeps, RegisterKeeps, AskReturnsKeeps, ObserveAskKeeps, DecideKeeps,
       SetRunningKeeps,
       InvokeReturnsKeeps, ObserveInvokeKeeps, AppendResultKeeps
    DEF CallStep
  <1>5. CASE CancelSteering \/ CallerEnds
    BY <1>5, CancelSteeringKeeps, CallerEndsKeeps
  <1>6. CASE \E how \in {"steer", "cancel"} : InterruptActive(how)
    BY <1>6, InterruptActiveKeeps
  <1>7. CASE UNCHANGED vars
    BY <1>7, Stutters
  <1>8. QED
    BY <1>1, <1>2, <1>3, <1>4, <1>5, <1>6, <1>7 DEF Next

\* So it holds throughout.
LEMMA Invariant == Spec => []Inv
  BY Starts, Steps, PTL DEF Spec

\* A tool whose Invoke returned under an interrupt, or after ctx ended, is recorded as killed,
\* whichever call of the turn saw the interrupt first and however late (runTool, inflight).
THEOREM CutIsNeverOk == Spec => []NoSuccessAfterCut
  <1>1. Inv => NoSuccessAfterCut
    BY DEF Inv, Clean, NoSuccessAfterCut
  <1>2. QED
    BY <1>1, Invariant, PTL

\* When Run returns and did not fail, each tool_use of a whole message has its tool_result, or its
\* own call failed while an earlier call in call order ended the turn (runTools, endTurn).
THEOREM EveryUseAnswered == Spec => []AnsweredUnlessFailed
  <1>1. Inv => AnsweredUnlessFailed
    BY DEF Inv, Answered, AnsweredUnlessFailed, InHand, Failing, Faults
  <1>2. QED
    BY <1>1, Invariant, PTL

\* An interrupt cuts the Run it came to and no later one, and a cancel is not lost to a steer that
\* came before it (Interrupt, clearInterrupt, endTurn, finishInterrupt).
THEOREM InterruptIsHeeded == Spec => []InterruptHeeded
  <1>1. Inv => InterruptHeeded
    BY DEF Inv, Landed, Cancelled, InterruptHeeded, CancelOverridesSteer
  <1>2. QED
    BY <1>1, Invariant, PTL

\* Nothing of a turn is written after its ending, but the turn_failed of an ending whose sync
\* failed, and what it wrote is durable when Run returns unless a write or a sync failed (rest,
\* fail).
THEOREM EndingStands == Spec => []EndingIsFinal
  <1>1. Inv => EndingIsFinal
    BY DEF Inv, Ended, Durable, EndingIsFinal
  <1>2. QED
    BY <1>1, Invariant, PTL
=============================================================================
