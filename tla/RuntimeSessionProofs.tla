------------------------- MODULE RuntimeSessionProofs -------------------------
(***************************************************************************)
(* RuntimeSession implements TurnLifecycle, for every number of handlers,  *)
(* turns, processes and requests and every length of the pipes and of the  *)
(* queue.                                                                  *)
(***************************************************************************)
EXTENDS RuntimeSession, TLAPS

-----------------------------------------------------------------------------
(* Sequences                                                               *)

IsSeq(s) == \E S : s \in Seq(S)

\* What Append, Tail, SubSeq and a change of entries make of a sequence.
LEMMA AppendIs ==
  ASSUME NEW s, NEW e, IsSeq(s)
  PROVE  /\ IsSeq(Append(s, e)) /\ Len(Append(s, e)) = Len(s) + 1 /\ Len(s) \in Nat
         /\ \A i \in 1..Len(s) : Append(s, e)[i] = s[i]
         /\ Append(s, e)[Len(s) + 1] = e
  <1>1. PICK S : s \in Seq(S)
    BY DEF IsSeq
  <1>2. Append(s, e) \in Seq(S \cup {e})
    BY <1>1
  <1>3. QED
    BY <1>1, <1>2 DEF IsSeq

\* Tail drops the first entry.
LEMMA TailIs ==
  ASSUME NEW s, IsSeq(s), s # <<>>
  PROVE  /\ IsSeq(Tail(s)) /\ Len(Tail(s)) = Len(s) - 1 /\ Len(s) \in Nat \ {0} /\ Head(s) = s[1]
         /\ \A i \in 1..(Len(s) - 1) : Tail(s)[i] = s[i + 1]
  <1>1. PICK S : s \in Seq(S)
    BY DEF IsSeq
  <1>2. Tail(s) \in Seq(S)
    BY <1>1
  <1>3. QED
    BY <1>1, <1>2 DEF IsSeq

\* A prefix keeps its entries where they were.
LEMMA SubSeqIs ==
  ASSUME NEW s, NEW n \in 0..Len(s), IsSeq(s)
  PROVE  /\ IsSeq(SubSeq(s, 1, n)) /\ Len(SubSeq(s, 1, n)) = n
         /\ \A i \in 1..n : SubSeq(s, 1, n)[i] = s[i]
  <1>1. PICK S : s \in Seq(S)
    BY DEF IsSeq
  <1>2. SubSeq(s, 1, n) \in Seq(S)
    BY <1>1
  <1>3. QED
    BY <1>1, <1>2 DEF IsSeq

\* A sequence whose entries are replaced in place stays a sequence of the same length.
LEMMA MapIs ==
  ASSUME NEW s, NEW r, IsSeq(s), DOMAIN r = DOMAIN s, r = [i \in DOMAIN r |-> r[i]]
  PROVE  IsSeq(r) /\ Len(r) = Len(s) /\ DOMAIN s = 1..Len(s)
  <1> DEFINE A == {r[i] : i \in 1..Len(s)}
  <1>1. PICK S : s \in Seq(S)
    BY DEF IsSeq
  <1>2. Len(s) \in Nat /\ DOMAIN s = 1..Len(s)
    BY <1>1
  <1>3. r \in [1..Len(s) -> A]
    BY <1>2
  <1>4. r \in Seq(A) /\ Len(r) = Len(s)
    BY <1>2, <1>3
  <1> QED
    BY <1>2, <1>4 DEF IsSeq

-----------------------------------------------------------------------------
(* The inductive invariant                                                 *)

\* Functions keep their domains.
Functions ==
    /\ up = [t \in Turns |-> up[t]] /\ on = [t \in Turns |-> on[t]]
    /\ said = [t \in Turns |-> said[t]]
    /\ owe = [h \in Handlers |-> owe[h]] /\ pc = [h \in Handlers |-> pc[h]]
    /\ op = [h \in Handlers |-> op[h]] /\ hp = [h \in Handlers |-> hp[h]]
    /\ got = [h \in Handlers |-> got[h]] /\ DOMAIN ev = {"k", "t", "at"}

\* The pipes and the queue are sequences.
Streams ==
    /\ line = [p \in Procs |-> line[p]] /\ \A p \in Procs : IsSeq(line[p])
    /\ IsSeq(q)

Begun == {t \in Turns : up[t] # "none"}
IsNote(m) == m.k \in {"started", "completed"}

\* Where a handler is while it alone may change the session, and while it has called a process.
Busy == {"thread", "call", "wait", "answered", "settle"}
Called == {"wait", "answered", "settle"}
Replied == {"answered", "settle"}

\* One process at most is alive, and it is the client's; an abandoned turn/start is in its hands.
Processes ==
    /\ spawned \in 0..MaxProcs /\ cur \in {None, spawned} /\ dead \subseteq 1..spawned
    /\ \A p \in 1..spawned : p \notin dead => p = cur
    /\ orphan \subseteq (1..spawned) \ dead

\* Turns begin one after the other, each when the one before is over; a turn is over when its
\* completion has been said or its process is dead.
Runtime ==
    /\ \A s, t \in Turns : s < t /\ t \in Begun => s \in Begun /\ up[s] = "over"
    /\ \A t \in Begun : on[t] \in 1..spawned
    /\ \A t \in Turns :
         /\ up[t] \in {"none", "running", "over"} /\ said[t] \in 0..2
         /\ up[t] = "none" => said[t] = 0
         /\ said[t] = 2 => up[t] = "over"
         /\ up[t] = "over" => said[t] = 2 \/ on[t] \in dead
         /\ on[t] \in dead /\ t \in Begun => up[t] = "over"

\* rs.mutating keeps the requests apart; what a handler waits for is in one place.
Handling ==
    /\ \A h \in Handlers : pc[h] \in Busy => mutating
    /\ \A h, i \in Handlers : pc[h] \in Busy /\ pc[i] \in Busy => h = i
    /\ \A h \in Handlers :
         /\ pc[h] = "thread" => op[h] = "start"
         /\ pc[h] \in Called => hp[h] \in 1..spawned
         /\ h \in sent \/ owe[h] # None => pc[h] = "wait"
         /\ owe[h] # None => h \in sent /\ op[h] = "start"
         /\ op[h] = "refresh" => thread

\* What the session and the adapter know of turns is of turns that began.
Known ==
    /\ {active, terminal, tracked.t} \subseteq Begun \cup {None}
    /\ ev = NoEvent \/ (ev.t \in Begun /\ ev.k \in {"started", "completed", "failed"})
    /\ ev.k \in {"started", "completed"} => said[ev.t] >= 1
    /\ ev.k = "completed" => said[ev.t] = 2
    /\ told \subseteq Begun /\ \A t \in told : said[t] = 2

\* What a notification says is what the child said, and when.
NoteIs(m) ==
    /\ m.k \in {"started", "completed", "bad", "dead"} /\ m.p \in Procs
    /\ IsNote(m) => m.t \in Begun /\ m.p = on[m.t] /\ said[m.t] >= 1
    /\ m.k = "completed" => said[m.t] = 2

ReplyIs(m, p) ==
    /\ m.h \in Handlers /\ m = Reply(m.h, m.r)
    /\ pc[m.h] = "wait" /\ hp[m.h] = p /\ m.h \notin sent

\* What may be in the pipe of p.
Carried(m, p) ==
    \/ m = Unawaited
    \/ m.k = "reply" /\ ReplyIs(m, p)
    \/ NoteIs(m) /\ m.p = p

Messages ==
    /\ \A i \in 1..Len(q) : NoteIs(q[i])
    /\ \A p \in Procs : \A i \in 1..Len(line[p]) : Carried(line[p][i], p)
    /\ \A p \in Procs : \A i, j \in 1..Len(line[p]) :
         line[p][i].k = "reply" /\ line[p][j].k = "reply" /\ line[p][i].h = line[p][j].h => i = j

\* Of the client's process no start follows what was said of the same turn or of a later one.
Starts(m, t) == m.k = "started" /\ m.p = cur /\ m.t <= t
Precedes(a, b) == IsNote(a) /\ a.p = cur => ~Starts(b, a.t)

NoStart(t) ==
    /\ \A i \in 1..Len(q) : ~Starts(q[i], t)
    /\ \A p \in Procs : \A i \in 1..Len(line[p]) : ~Starts(line[p][i], t)

QueueOrder == \A i, j \in 1..Len(q) : i < j => Precedes(q[i], q[j])
PipeOrder ==
    \A p \in Procs : \A i, j \in 1..Len(line[p]) : i < j => Precedes(line[p][i], line[p][j])
QueueFirst ==
    \A p \in Procs : \A i \in 1..Len(q), j \in 1..Len(line[p]) : Precedes(q[i], line[p][j])

Order ==
    /\ QueueOrder /\ PipeOrder /\ QueueFirst
    /\ \A t \in told : NoStart(t)
    /\ ev.k \in {"started", "completed"} => NoStart(ev.t)
    /\ ev.k = "started" /\ ev.at = "apply" => \A t \in told : t < ev.t

\* The turn of a turn/start that is being served is the last one.  If it has been reported
\* completed then terminal says so and nothing is active, and it is taken up at most once before
\* the response is.
StartIs(t) ==
    /\ t \in Begun /\ (\A s \in Begun : s <= t) /\ orphan = {}
    /\ t \in told => terminal = t /\ active = None
    /\ terminal = t => active # t
    /\ active = t \/ terminal = t =>
         said[t] >= 1 /\ NoStart(t) /\ ~(ev.k = "started" /\ ev.at = "apply" /\ ev.t = t)

\* A snapshot that is being served still says what runs, and of what has been reported completed
\* unless an event has moved the revision.
ReadIs(t) ==
    /\ orphan = {}
    /\ t = None => Running = {}
    /\ t # None => t \in Begun /\ (\A s \in Begun : s <= t) /\ (~touched => t \notin told)

\* The answer to h: what the child owes it, what is in a pipe, what the reader has handed over.
Holds(h, r) ==
    \/ owe[h] # None /\ r = [ok |-> TRUE, t |-> owe[h]]
    \/ pc[h] \in Replied /\ r = got[h]
    \/ \E p \in Procs : \E i \in 1..Len(line[p]) : line[p][i] = Reply(h, r)

AnswerIs(h, r) ==
    r.ok => (op[h] = "start" => StartIs(r.t)) /\ (op[h] = "refresh" => ReadIs(r.t))

Answers == \A h \in Handlers : \A r : Holds(h, r) => AnswerIs(h, r)

-----------------------------------------------------------------------------
(* What the actions do to the pipes and to the queue                       *)

\* The pipes are sequences still.
Pipes == line' = [r \in Procs |-> line'[r]] /\ \A r \in Procs : IsSeq(line'[r])

\* Process p wrote m.
Wrote(p, m) ==
    /\ \A r \in Procs : r # p => line'[r] = line[r]
    /\ Len(line[p]) \in Nat /\ Len(line'[p]) = Len(line[p]) + 1
    /\ \A i \in 1..Len(line[p]) : line'[p][i] = line[p][i]
    /\ line'[p][Len(line[p]) + 1] = m

\* The pipes hold nothing new, and what they hold is in its order.
Shrunk(r, d) ==
    /\ Len(line[r]) \in Nat /\ Len(line'[r]) \in Nat /\ Len(line'[r]) + d <= Len(line[r])
    /\ \A i \in 1..Len(line'[r]) : line'[r][i] \in {line[r][i + d], Unawaited}
Shrinks == \A r \in Procs : Shrunk(r, 0) \/ Shrunk(r, 1)

\* m was queued.
Queued(m) ==
    /\ Len(q) \in Nat /\ Len(q') = Len(q) + 1
    /\ \A i \in 1..Len(q) : q'[i] = q[i]
    /\ q'[Len(q) + 1] = m

\* The head of the queue was taken.
Took ==
    /\ Len(q) \in Nat \ {0} /\ Len(q') = Len(q) - 1
    /\ \A i \in 1..Len(q') : q'[i] = q[i + 1]
    /\ Head(q) = q[1]

\* Write puts one message at the end of one pipe.
LEMMA WriteIs ==
  ASSUME Streams, NEW p \in Procs, NEW m, Write(p, m)
  PROVE  Pipes /\ Wrote(p, m)
  <1>1. line' = [line EXCEPT ![p] = Append(@, m)]
    BY DEF Write
  <1>2. \A r \in Procs : r # p => line'[r] = line[r]
    BY <1>1 DEF Streams
  <1>3. line'[p] = Append(line[p], m) /\ line' = [r \in Procs |-> line'[r]]
    BY <1>1 DEF Streams
  <1>4. IsSeq(line[p])
    BY DEF Streams
  <1>5. /\ IsSeq(line'[p]) /\ Len(line'[p]) = Len(line[p]) + 1 /\ Len(line[p]) \in Nat
        /\ \A i \in 1..Len(line[p]) : line'[p][i] = line[p][i]
        /\ line'[p][Len(line[p]) + 1] = m
    BY <1>3, <1>4, AppendIs
  <1>6. \A r \in Procs : IsSeq(line[r])
    BY DEF Streams
  <1>7. Pipes
    BY <1>2, <1>3, <1>5, <1>6 DEF Pipes
  <1>8. QED
    BY <1>2, <1>5, <1>7 DEF Wrote

\* A send on Client.notifications puts one notification at its end.
LEMMA QueueIs ==
  ASSUME Streams, NEW m, q' = Append(q, m)
  PROVE  IsSeq(q') /\ Queued(m)
  <1>1. IsSeq(q)
    BY DEF Streams
  <1>2. QED
    BY <1>1, AppendIs DEF Queued

\* The dispatcher takes the head of Client.notifications.
LEMMA TakeIs ==
  ASSUME Streams, q # <<>>, q' = Tail(q)
  PROVE  IsSeq(q') /\ Took
  <1>1. IsSeq(q)
    BY DEF Streams
  <1>2. /\ IsSeq(q') /\ Len(q') = Len(q) - 1 /\ Len(q) \in Nat \ {0} /\ Head(q) = q[1]
        /\ \A i \in 1..(Len(q) - 1) : q'[i] = q[i + 1]
    BY <1>1, TailIs, Zenon
  <1>3. QED
    BY <1>2 DEF Took

\* Pipes that nobody touches hold nothing new.
LEMMA SameIs ==
  ASSUME Streams, line' = line
  PROVE  Pipes /\ Shrinks
  <1>1. \A r \in Procs : Len(line[r]) \in Nat
    BY AppendIs, Zenon DEF Streams
  <1>2. QED
    BY <1>1 DEF Streams, Pipes, Shrinks, Shrunk

\* readLoop takes the first message of its pipe and no other.
LEMMA ReadLine ==
  ASSUME Streams, NEW p \in Procs, Read(p)
  PROVE  Pipes /\ Shrinks /\ Shrunk(p, 1) /\ Len(line[p]) > 0 /\ Head(line[p]) = line[p][1]
  <1>1. line[p] # <<>> /\ line' = [line EXCEPT ![p] = Tail(@)]
    BY DEF Read
  <1>2. line'[p] = Tail(line[p]) /\ line' = [r \in Procs |-> line'[r]]
    BY <1>1 DEF Streams
  <1>3. \A r \in Procs : r # p => line'[r] = line[r]
    BY <1>1 DEF Streams
  <1>4. IsSeq(line[p])
    BY DEF Streams
  <1>5. /\ IsSeq(line'[p]) /\ Len(line'[p]) = Len(line[p]) - 1 /\ Len(line[p]) \in Nat \ {0}
        /\ Head(line[p]) = line[p][1]
        /\ \A i \in 1..(Len(line[p]) - 1) : line'[p][i] = line[p][i + 1]
    BY <1>1, <1>2, <1>4, TailIs, Zenon
  <1>6. \A r \in Procs : Len(line[r]) \in Nat
    BY AppendIs, Zenon DEF Streams
  <1>7. Shrunk(p, 1) /\ Len(line[p]) > 0
    BY <1>5 DEF Shrunk
  <1>8. \A r \in Procs : IsSeq(line[r])
    BY DEF Streams
  <1>9. Pipes
    BY <1>2, <1>3, <1>5, <1>8 DEF Pipes
  <1>10. \A r \in Procs : r # p => Shrunk(r, 0)
    BY <1>3, <1>6 DEF Shrunk
  <1>11. QED
    BY <1>5, <1>7, <1>9, <1>10 DEF Shrinks

\* A process that dies loses the end of what it wrote.
LEMMA DieIs ==
  ASSUME Streams, NEW p \in Procs, Die(p)
  PROVE  Pipes /\ Shrinks
  <1>1. PICK n \in 0..Len(line[p]) : line' = [line EXCEPT ![p] = SubSeq(@, 1, n)]
    BY DEF Die
  <1>2. line'[p] = SubSeq(line[p], 1, n) /\ line' = [r \in Procs |-> line'[r]]
    BY <1>1 DEF Streams
  <1>3. \A r \in Procs : r # p => line'[r] = line[r]
    BY <1>1 DEF Streams
  <1>4. IsSeq(line[p])
    BY DEF Streams
  <1>5. /\ IsSeq(line'[p]) /\ Len(line'[p]) = n
        /\ \A i \in 1..n : line'[p][i] = line[p][i]
    BY <1>2, <1>4, SubSeqIs, Zenon
  <1>6. \A r \in Procs : Len(line[r]) \in Nat
    BY AppendIs, Zenon DEF Streams
  <1>7. \A r \in Procs : IsSeq(line[r])
    BY DEF Streams
  <1>8. Pipes
    BY <1>2, <1>3, <1>5, <1>7 DEF Pipes
  <1>9. Shrunk(p, 0)
    BY <1>5, <1>6 DEF Shrunk
  <1>10. \A r \in Procs : r # p => Shrunk(r, 0)
    BY <1>3, <1>6 DEF Shrunk
  <1>11. QED
    BY <1>8, <1>9, <1>10 DEF Shrinks

\* Nobody waits for the answer to h any more.
LEMMA LostIs ==
  ASSUME Streams, Processes, Handling, NEW h \in Handlers, Lost(h)
  PROVE  /\ Pipes /\ Shrinks
         /\ \A r \in Procs : r # hp[h] => line'[r] = line[r]
         /\ hp[h] \in Procs => /\ Len(line'[hp[h]]) = Len(line[hp[h]])
                               /\ \A i \in 1..Len(line[hp[h]]) :
                                    /\ line'[hp[h]][i] \in {line[hp[h]][i], Unawaited}
                                    /\ line[hp[h]][i].k = "reply" /\ line[hp[h]][i].h = h
                                         => line'[hp[h]][i] = Unawaited
  <1> DEFINE p == hp[h]
             mark(s) == [i \in DOMAIN s |->
                           IF s[i].k = "reply" /\ s[i].h = h THEN Unawaited ELSE s[i]]
  <1>1. line' = [line EXCEPT ![p] = mark(@)]
    BY DEF Lost
  <1>2. line' = [r \in Procs |-> line'[r]] /\ \A r \in Procs : r # p => line'[r] = line[r]
    BY <1>1 DEF Streams
  <1>3. \A r \in Procs : Len(line[r]) \in Nat
    BY AppendIs, Zenon DEF Streams
  <1>4. CASE p \notin Procs
    BY <1>2, <1>3, <1>4 DEF Streams, Pipes, Shrinks, Shrunk
  <1>5. CASE p \in Procs
    <2>1. line'[p] = mark(line[p])
      BY <1>1, <1>5 DEF Streams
    <2>2. IsSeq(line[p])
      BY <1>5 DEF Streams
    <2>3. DOMAIN line'[p] = DOMAIN line[p] /\ line'[p] = [i \in DOMAIN line'[p] |-> line'[p][i]]
      BY <2>1
    <2>4. IsSeq(line'[p]) /\ Len(line'[p]) = Len(line[p]) /\ DOMAIN line[p] = 1..Len(line[p])
      BY <2>2, <2>3, MapIs, Zenon
    <2>5. \A i \in 1..Len(line[p]) :
            /\ line'[p][i] \in {line[p][i], Unawaited}
            /\ line[p][i].k = "reply" /\ line[p][i].h = h => line'[p][i] = Unawaited
      BY <2>1, <2>4
    <2>6. \A r \in Procs : IsSeq(line[r])
      BY DEF Streams
    <2>7. Pipes
      BY <1>2, <2>4, <2>6 DEF Pipes
    <2>8. Shrunk(p, 0)
      BY <1>3, <1>5, <2>4, <2>5 DEF Shrunk
    <2>9. \A r \in Procs : r # p => Shrunk(r, 0)
      BY <1>2, <1>3 DEF Shrunk
    <2>10. Shrinks
      BY <2>8, <2>9 DEF Shrinks
    <2>11. QED
      BY <1>2, <2>4, <2>5, <2>7, <2>10
  <1>6. QED
    BY <1>4, <1>5

\* A process that was called, or that runs a turn, is one of the processes.
LEMMA ProcIs ==
  ASSUME Processes
  PROVE  (1..spawned) \subseteq Procs
  BY RuntimeAssumption DEF Processes, Procs

\* The child writes the answer, unless it begins a turn and answers later.
LEMMA HandleIs ==
  ASSUME Streams, Processes, Handling, NEW h \in Handlers, Handle(h)
  PROVE  /\ hp[h] \in Procs /\ hp[h] \in 1..spawned
         /\ BeginTurn(h) \/ \E r : Pipes /\ Wrote(hp[h], Reply(h, r))
  <1>1. hp[h] \in 1..spawned
    BY DEF Handle, Handling, Called
  <1>2. hp[h] \in Procs
    BY <1>1, ProcIs
  <1>3. BeginTurn(h) \/ \E r : Write(hp[h], Reply(h, r))
    BY Zenon DEF Handle, Reject, Acknowledge, Snapshot
  <1>4. ASSUME NEW r, Write(hp[h], Reply(h, r)) PROVE Pipes /\ Wrote(hp[h], Reply(h, r))
    BY <1>2, <1>4, WriteIs, Zenon
  <1>5. QED
    BY <1>1, <1>2, <1>3, <1>4, Zenon

\* The child answers turn/start with the turn it accepted, in the pipe it was asked on.
LEMMA RespondIs ==
  ASSUME Streams, Processes, Handling, NEW h \in Handlers, Respond(h)
  PROVE  /\ hp[h] \in Procs /\ hp[h] \in 1..spawned /\ Pipes
         /\ Wrote(hp[h], Reply(h, [ok |-> TRUE, t |-> owe[h]]))
  <1>1. hp[h] \in 1..spawned
    BY DEF Respond, Handling, Called
  <1>2. hp[h] \in Procs
    BY <1>1, ProcIs
  <1>3. QED
    BY <1>1, <1>2, WriteIs DEF Respond

\* Only the client's process speaks, and each kind of notification is written once.
LEMMA SayIs ==
  ASSUME Streams, Processes, Runtime, NEW t \in Turns, Say(t)
  PROVE  /\ on[t] \in Procs /\ on[t] \in 1..spawned /\ t \in Begun /\ on[t] = cur /\ Pipes
         /\ \/ SayStarted(t) /\ Wrote(on[t], Note("started", t, on[t]))
            \/ SayCompleted(t) /\ Wrote(on[t], Note("completed", t, on[t]))
            \/ SayBad(t) /\ Wrote(on[t], Note("bad", t, on[t]))
  <1>1. t \in Begun /\ on[t] \in 1..spawned /\ on[t] = cur
    BY DEF Say, Begun, Runtime, Processes
  <1>2. on[t] \in Procs
    BY <1>1, ProcIs
  <1>3. CASE SayStarted(t)
    BY <1>1, <1>2, <1>3, WriteIs DEF SayStarted
  <1>4. CASE SayCompleted(t)
    BY <1>1, <1>2, <1>4, WriteIs DEF SayCompleted
  <1>5. CASE SayBad(t)
    BY <1>1, <1>2, <1>5, WriteIs DEF SayBad
  <1>6. QED
    BY <1>3, <1>4, <1>5 DEF Say

-----------------------------------------------------------------------------
(* Functions and streams                                                   *)

\* No step changes a domain.
LEMMA FunctionsNext == Functions /\ [Next]_vars => Functions'
  <1> SUFFICES ASSUME Functions, [Next]_vars PROVE Functions'
    OBVIOUS
  <1>1. ASSUME NEW h \in Handlers, BeginStart(h) PROVE Functions'
    BY <1>1
    DEF BeginStart, Goes, child, process, turnMu, rs, handler, Functions
  <1>2. ASSUME NEW h \in Handlers, BeginSteer(h) PROVE Functions'
    BY <1>2
    DEF BeginSteer, Goes, child, process, turnMu, rs, handler, Functions
  <1>3. ASSUME NEW h \in Handlers, BeginInterrupt(h) PROVE Functions'
    BY <1>3
    DEF BeginInterrupt, Goes, child, process, turnMu, rs, handler, Functions
  <1>4. ASSUME NEW h \in Handlers, BeginRefresh(h) PROVE Functions'
    BY <1>4
    DEF BeginRefresh, Goes, child, process, turnMu, rs, handler, Functions
  <1>5. ASSUME NEW h \in Handlers, BeginFork(h) PROVE Functions'
    BY <1>5
    DEF BeginFork, Goes, child, process, turnMu, rs, handler, Functions
  <1>6. ASSUME NEW h \in Handlers, StartThread(h) PROVE Functions'
    BY <1>6
    DEF StartThread, Finish, Done, Started, child, process, turnMu, rs, handler, Functions
  <1>7. ASSUME NEW h \in Handlers, Call(h) PROVE Functions'
    BY <1>7
    DEF Call, Finish, Done, Started, child, process, turnMu, rs, handler, Functions
  <1>8. ASSUME NEW h \in Handlers, Lost(h) PROVE Functions'
    BY <1>8
    DEF Lost, Finish, Done, Mutation, child, process, turnMu, rs, handler, Functions
  <1>9. ASSUME NEW h \in Handlers, Track(h) PROVE Functions'
    BY <1>9
    DEF Track, TrackTurn, child, process, turnMu, rs, handler, Functions
  <1>10. ASSUME NEW h \in Handlers, Settle(h) PROVE Functions'
    BY <1>10
    DEF Settle, SettleStart, SettleRefresh, SettleOther, Finish, Done, child, process, turnMu, rs,
        handler, Functions
  <1>11. ASSUME NEW h \in Handlers, Mirror(h) PROVE Functions'
    BY <1>11
    DEF Mirror, Done, child, process, turnMu, rs, handler, Functions
  <1>12. ASSUME NEW h \in Handlers, Handle(h) PROVE Functions'
    BY <1>12
    DEF Handle, Reject, BeginTurn, Acknowledge, Snapshot, Accept, child, process, turnMu, rs,
        handler, Functions
  <1>13. ASSUME NEW h \in Handlers, Respond(h) PROVE Functions'
    BY <1>13
    DEF Respond, Write, child, process, turnMu, rs, handler, Functions
  <1>14. ASSUME NEW t \in Turns, Say(t) PROVE Functions'
    BY <1>14
    DEF Say, SayStarted, SayCompleted, SayBad, child, process, turnMu, rs, handler, Functions
  <1>15. ASSUME NEW p \in Procs, Read(p) PROVE Functions'
    BY <1>15
    DEF Read, child, process, turnMu, rs, handler, Functions
  <1>16. ASSUME NEW p \in Procs, Die(p) PROVE Functions'
    BY <1>16
    DEF Die, child, process, turnMu, rs, handler, Functions
  <1>17. ASSUME NEW p \in Procs, Watch(p) PROVE Functions'
    BY <1>17
    DEF Watch, child, process, turnMu, rs, handler, Functions
  <1>18. ASSUME NEW p \in Procs, HandleOrphan(p) PROVE Functions'
    BY <1>18
    DEF HandleOrphan, Accept, child, process, turnMu, rs, handler, Functions
  <1>19. ASSUME Dispatch PROVE Functions'
    BY <1>19
    DEF Dispatch, FailTracked, Observe, child, process, turnMu, rs, handler, Functions
  <1>20. ASSUME Apply PROVE Functions'
    BY <1>20
    DEF Apply, Over, child, process, turnMu, rs, handler, NoEvent, Functions
  <1>21. ASSUME Publish PROVE Functions'
    BY <1>21
    DEF Publish, Over, child, process, turnMu, rs, handler, NoEvent, Functions
  <1>22. CASE UNCHANGED vars
    BY <1>22
    DEF vars, child, process, turnMu, rs, handler, Functions
  <1>23. QED
    BY <1>1, <1>2, <1>3, <1>4, <1>5, <1>6, <1>7, <1>8, <1>9, <1>10, <1>11, <1>12, <1>13, <1>14,
       <1>15, <1>16, <1>17, <1>18, <1>19, <1>20, <1>21, <1>22
    DEF Next, Request, Serve

\* Every step leaves the pipes and the queue sequences.
LEMMA StreamsNext == Streams /\ Processes /\ Handling /\ Runtime /\ [Next]_vars => Streams'
  <1> SUFFICES ASSUME Streams, Processes, Handling, Runtime, [Next]_vars PROVE Streams'
    OBVIOUS
  <1>1. ASSUME NEW h \in Handlers, BeginStart(h) PROVE Streams'
    BY <1>1
    DEF BeginStart, Goes, child, process, turnMu, rs, handler, Streams
  <1>2. ASSUME NEW h \in Handlers, BeginSteer(h) PROVE Streams'
    BY <1>2
    DEF BeginSteer, Goes, child, process, turnMu, rs, handler, Streams
  <1>3. ASSUME NEW h \in Handlers, BeginInterrupt(h) PROVE Streams'
    BY <1>3
    DEF BeginInterrupt, Goes, child, process, turnMu, rs, handler, Streams
  <1>4. ASSUME NEW h \in Handlers, BeginRefresh(h) PROVE Streams'
    BY <1>4
    DEF BeginRefresh, Goes, child, process, turnMu, rs, handler, Streams
  <1>5. ASSUME NEW h \in Handlers, BeginFork(h) PROVE Streams'
    BY <1>5
    DEF BeginFork, Goes, child, process, turnMu, rs, handler, Streams
  <1>6. ASSUME NEW h \in Handlers, StartThread(h) PROVE Streams'
    BY <1>6
    DEF StartThread, Finish, Done, Started, child, process, turnMu, rs, handler, Streams
  <1>7. ASSUME NEW h \in Handlers, Call(h) PROVE Streams'
    BY <1>7
    DEF Call, Finish, Done, Started, child, process, turnMu, rs, handler, Streams
  <1>8. ASSUME NEW h \in Handlers, Lost(h) PROVE Streams'
    BY <1>8, LostIs DEF Lost, Pipes, Streams
  <1>9. ASSUME NEW h \in Handlers, Track(h) PROVE Streams'
    <2>1. line' = line /\ (q' = q \/ \E m : q' = Append(q, m))
      BY <1>9 DEF Track, TrackTurn, process
    <2>2. QED
      BY <2>1, QueueIs DEF Streams
  <1>10. ASSUME NEW h \in Handlers, Settle(h) PROVE Streams'
    BY <1>10
    DEF Settle, SettleStart, SettleRefresh, SettleOther, Finish, Done, child, process, turnMu, rs,
        handler, Streams
  <1>11. ASSUME NEW h \in Handlers, Mirror(h) PROVE Streams'
    BY <1>11
    DEF Mirror, Done, child, process, turnMu, rs, handler, Streams
  <1>12. ASSUME NEW h \in Handlers, Handle(h) PROVE Streams'
    <2>1. q' = q
      BY <1>12 DEF Handle
    <2>2. CASE BeginTurn(h)
      BY <2>1, <2>2 DEF BeginTurn, Streams
    <2>3. CASE Pipes
      BY <2>1, <2>3 DEF Pipes, Streams
    <2>4. QED
      BY <1>12, <2>2, <2>3, HandleIs
  <1>13. ASSUME NEW h \in Handlers, Respond(h) PROVE Streams'
    BY <1>13, RespondIs DEF Respond, Pipes, Streams
  <1>14. ASSUME NEW t \in Turns, Say(t) PROVE Streams'
    BY <1>14, SayIs DEF Say, Pipes, Streams
  <1>15. ASSUME NEW p \in Procs, Read(p) PROVE Streams'
    <2>1. Pipes
      BY <1>15, ReadLine
    <2>2. q' = q \/ \E m : q' = Append(q, m)
      BY <1>15 DEF Read
    <2>3. QED
      BY <2>1, <2>2, QueueIs DEF Pipes, Streams
  <1>16. ASSUME NEW p \in Procs, Die(p) PROVE Streams'
    BY <1>16, DieIs DEF Die, Pipes, Streams
  <1>17. ASSUME NEW p \in Procs, Watch(p) PROVE Streams'
    <2>1. line' = line /\ \E m : q' = Append(q, m)
      BY <1>17 DEF Watch
    <2>2. QED
      BY <2>1, QueueIs DEF Streams
  <1>18. ASSUME NEW p \in Procs, HandleOrphan(p) PROVE Streams'
    BY <1>18
    DEF HandleOrphan, Accept, child, process, turnMu, rs, handler, Streams
  <1>19. ASSUME Dispatch PROVE Streams'
    <2>1. line' = line /\ q # <<>> /\ q' = Tail(q)
      BY <1>19 DEF Dispatch, process
    <2>2. QED
      BY <2>1, TakeIs DEF Streams
  <1>20. ASSUME Apply PROVE Streams'
    BY <1>20
    DEF Apply, Over, child, process, turnMu, rs, handler, Streams
  <1>21. ASSUME Publish PROVE Streams'
    BY <1>21
    DEF Publish, Over, child, process, turnMu, rs, handler, Streams
  <1>22. CASE UNCHANGED vars
    BY <1>22
    DEF vars, child, process, turnMu, rs, handler, Streams
  <1>23. QED
    BY <1>1, <1>2, <1>3, <1>4, <1>5, <1>6, <1>7, <1>8, <1>9, <1>10, <1>11, <1>12, <1>13, <1>14,
       <1>15, <1>16, <1>17, <1>18, <1>19, <1>20, <1>21, <1>22
    DEF Next, Request, Serve

-----------------------------------------------------------------------------
(* Processes, turns and handlers                                           *)

\* Client.Start replaces only a dead process, so no step leaves two alive.
LEMMA ProcessesNext ==
    Functions /\ Processes /\ Handling /\ [Next]_vars => Processes'
  <1> SUFFICES ASSUME Functions, Processes, Handling, [Next]_vars PROVE Processes'
    OBVIOUS
  <1> USE RuntimeAssumption
  <1>1. ASSUME NEW h \in Handlers, BeginStart(h) PROVE Processes'
    BY <1>1
    DEF BeginStart, Goes, child, process, turnMu, rs, handler, Functions, Processes, None
  <1>2. ASSUME NEW h \in Handlers, BeginSteer(h) PROVE Processes'
    BY <1>2
    DEF BeginSteer, Goes, child, process, turnMu, rs, handler, Functions, Processes, None
  <1>3. ASSUME NEW h \in Handlers, BeginInterrupt(h) PROVE Processes'
    BY <1>3
    DEF BeginInterrupt, Goes, child, process, turnMu, rs, handler, Functions, Processes, None
  <1>4. ASSUME NEW h \in Handlers, BeginRefresh(h) PROVE Processes'
    BY <1>4
    DEF BeginRefresh, Goes, child, process, turnMu, rs, handler, Functions, Processes, None
  <1>5. ASSUME NEW h \in Handlers, BeginFork(h) PROVE Processes'
    BY <1>5
    DEF BeginFork, Goes, child, process, turnMu, rs, handler, Functions, Processes, None
  <1>6. ASSUME NEW h \in Handlers, StartThread(h) PROVE Processes'
    BY <1>6
    DEF StartThread, Finish, Done, Started, child, process, turnMu, rs, handler, Functions,
        Processes, None
  <1>7. ASSUME NEW h \in Handlers, Call(h) PROVE Processes'
    BY <1>7
    DEF Call, Finish, Done, Started, child, process, turnMu, rs, handler, Functions, Processes, None
  <1>8. ASSUME NEW h \in Handlers, Lost(h) PROVE Processes'
    BY <1>8
    DEF Lost, Finish, Done, Mutation, child, process, turnMu, rs, handler, Handling, Called,
        Functions, Processes, None
  <1>9. ASSUME NEW h \in Handlers, Track(h) PROVE Processes'
    BY <1>9
    DEF Track, TrackTurn, child, process, turnMu, rs, handler, Functions, Processes, None
  <1>10. ASSUME NEW h \in Handlers, Settle(h) PROVE Processes'
    BY <1>10
    DEF Settle, SettleStart, SettleRefresh, SettleOther, Finish, Done, child, process, turnMu, rs,
        handler, Functions, Processes, None
  <1>11. ASSUME NEW h \in Handlers, Mirror(h) PROVE Processes'
    BY <1>11
    DEF Mirror, Done, child, process, turnMu, rs, handler, Functions, Processes, None
  <1>12. ASSUME NEW h \in Handlers, Handle(h) PROVE Processes'
    BY <1>12
    DEF Handle, Reject, BeginTurn, Acknowledge, Snapshot, Accept, child, process, turnMu, rs,
        handler, Functions, Processes, None
  <1>13. ASSUME NEW h \in Handlers, Respond(h) PROVE Processes'
    BY <1>13
    DEF Respond, Write, child, process, turnMu, rs, handler, Functions, Processes, None
  <1>14. ASSUME NEW t \in Turns, Say(t) PROVE Processes'
    BY <1>14
    DEF Say, SayStarted, SayCompleted, SayBad, child, process, turnMu, rs, handler, Functions,
        Processes, None
  <1>15. ASSUME NEW p \in Procs, Read(p) PROVE Processes'
    BY <1>15
    DEF Read, child, process, turnMu, rs, handler, Functions, Processes, None
  <1>16. ASSUME NEW p \in Procs, Die(p) PROVE Processes'
    BY <1>16
    DEF Die, child, process, turnMu, rs, handler, Procs, Functions, Processes, None
  <1>17. ASSUME NEW p \in Procs, Watch(p) PROVE Processes'
    BY <1>17
    DEF Watch, child, process, turnMu, rs, handler, Functions, Processes, None
  <1>18. ASSUME NEW p \in Procs, HandleOrphan(p) PROVE Processes'
    BY <1>18
    DEF HandleOrphan, Accept, child, process, turnMu, rs, handler, Functions, Processes, None
  <1>19. ASSUME Dispatch PROVE Processes'
    BY <1>19
    DEF Dispatch, FailTracked, Observe, child, process, turnMu, rs, handler, Functions, Processes,
        None
  <1>20. ASSUME Apply PROVE Processes'
    BY <1>20
    DEF Apply, Over, child, process, turnMu, rs, handler, Functions, Processes, None
  <1>21. ASSUME Publish PROVE Processes'
    BY <1>21
    DEF Publish, Over, child, process, turnMu, rs, handler, Functions, Processes, None
  <1>22. CASE UNCHANGED vars
    BY <1>22
    DEF vars, child, process, turnMu, rs, handler, Functions, Processes, None
  <1>23. QED
    BY <1>1, <1>2, <1>3, <1>4, <1>5, <1>6, <1>7, <1>8, <1>9, <1>10, <1>11, <1>12, <1>13, <1>14,
       <1>15, <1>16, <1>17, <1>18, <1>19, <1>20, <1>21, <1>22
    DEF Next, Request, Serve

\* The next turn begins when none runs.
LEMMA AcceptIs ==
  ASSUME Functions, Runtime, NEW p \in (1..spawned) \ dead, NEW t \in Turns, Accept(p, t),
         UNCHANGED <<said, spawned, dead>>
  PROVE  /\ Runtime'
         /\ t \notin Begun /\ Begun' = Begun \cup {t} /\ \A s \in Begun : s < t /\ up[s] = "over"
         /\ \A s \in Turns : s # t => on'[s] = on[s] /\ up'[s] = up[s]
         /\ up'[t] = "running"
  <1>1. /\ up' = [up EXCEPT ![t] = "running"] /\ on' = [on EXCEPT ![t] = p]
        /\ up[t] = "none" /\ (\A s \in Turns : s < t => up[s] # "none") /\ Running = {}
    BY DEF Accept
  <1>2. \A s \in Turns : s # t => up'[s] = up[s] /\ on'[s] = on[s]
    BY <1>1 DEF Functions
  <1>3. up'[t] = "running" /\ on'[t] = p
    BY <1>1 DEF Functions
  <1>4. t \notin Begun /\ Begun' = Begun \cup {t}
    BY <1>1, <1>2, <1>3 DEF Begun
  <1>5. \A s \in Begun : s < t /\ up[s] = "over"
    BY <1>1, RuntimeAssumption DEF Begun, Runtime, Running, Turns
  <1>6. \A s \in Turns : s < t => s \in Begun
    BY <1>1 DEF Begun
  <1>7. Runtime'
    <2>1. \A s, r \in Turns : s < r /\ r \in Begun' => s \in Begun' /\ up'[s] = "over"
      BY <1>2, <1>4, <1>5, <1>6, RuntimeAssumption DEF Runtime, Turns
    <2>2. \A r \in Begun' : on'[r] \in 1..spawned'
      BY <1>2, <1>3, <1>4, RuntimeAssumption DEF Runtime, Begun
    <2>3. \A r \in Turns :
            /\ up'[r] \in {"none", "running", "over"} /\ said'[r] \in 0..2
            /\ up'[r] = "none" => said'[r] = 0
            /\ said'[r] = 2 => up'[r] = "over"
            /\ up'[r] = "over" => said'[r] = 2 \/ on'[r] \in dead'
            /\ on'[r] \in dead' /\ r \in Begun' => up'[r] = "over"
      BY <1>1, <1>2, <1>3, <1>4 DEF Runtime
    <2>4. QED
      BY <2>1, <2>2, <2>3 DEF Runtime
  <1>8. QED
    BY <1>2, <1>3, <1>4, <1>5, <1>7

\* Turns begin in order and none is over before its completion is said or its process died.
LEMMA RuntimeNext ==
    Functions /\ Processes /\ Handling /\ Runtime /\ [Next]_vars => Runtime'
  <1> SUFFICES ASSUME Functions, Processes, Handling, Runtime, [Next]_vars PROVE Runtime'
    OBVIOUS
  <1> USE RuntimeAssumption
  <1>1. ASSUME NEW h \in Handlers, BeginStart(h) PROVE Runtime'
    BY <1>1
    DEF BeginStart, Goes, child, process, turnMu, rs, handler, Functions, Processes, Runtime, Begun,
        None, Turns
  <1>2. ASSUME NEW h \in Handlers, BeginSteer(h) PROVE Runtime'
    BY <1>2
    DEF BeginSteer, Goes, child, process, turnMu, rs, handler, Functions, Processes, Runtime, Begun,
        None, Turns
  <1>3. ASSUME NEW h \in Handlers, BeginInterrupt(h) PROVE Runtime'
    BY <1>3
    DEF BeginInterrupt, Goes, child, process, turnMu, rs, handler, Functions, Processes, Runtime,
        Begun, None, Turns
  <1>4. ASSUME NEW h \in Handlers, BeginRefresh(h) PROVE Runtime'
    BY <1>4
    DEF BeginRefresh, Goes, child, process, turnMu, rs, handler, Functions, Processes, Runtime,
        Begun, None, Turns
  <1>5. ASSUME NEW h \in Handlers, BeginFork(h) PROVE Runtime'
    BY <1>5
    DEF BeginFork, Goes, child, process, turnMu, rs, handler, Functions, Processes, Runtime, Begun,
        None, Turns
  <1>6. ASSUME NEW h \in Handlers, StartThread(h) PROVE Runtime'
    BY <1>6
    DEF StartThread, Finish, Done, Started, child, process, turnMu, rs, handler, Functions,
        Processes, Runtime, Begun, None, Turns
  <1>7. ASSUME NEW h \in Handlers, Call(h) PROVE Runtime'
    BY <1>7
    DEF Call, Finish, Done, Started, child, process, turnMu, rs, handler, Functions, Processes,
        Runtime, Begun, None, Turns
  <1>8. ASSUME NEW h \in Handlers, Lost(h) PROVE Runtime'
    BY <1>8
    DEF Lost, Finish, Done, Mutation, child, process, turnMu, rs, handler, Functions, Processes,
        Runtime, Begun, None, Turns
  <1>9. ASSUME NEW h \in Handlers, Track(h) PROVE Runtime'
    BY <1>9
    DEF Track, TrackTurn, child, process, turnMu, rs, handler, Functions, Processes, Runtime, Begun,
        None, Turns
  <1>10. ASSUME NEW h \in Handlers, Settle(h) PROVE Runtime'
    BY <1>10
    DEF Settle, SettleStart, SettleRefresh, SettleOther, Finish, Done, child, process, turnMu, rs,
        handler, Functions, Processes, Runtime, Begun, None, Turns
  <1>11. ASSUME NEW h \in Handlers, Mirror(h) PROVE Runtime'
    BY <1>11
    DEF Mirror, Done, child, process, turnMu, rs, handler, Functions, Processes, Runtime, Begun,
        None, Turns
  <1>12. ASSUME NEW h \in Handlers, Handle(h) PROVE Runtime'
    <2>1. hp[h] \in (1..spawned) \ dead /\ UNCHANGED <<said, spawned, dead>>
      BY <1>12 DEF Handle, Handling, Called
    <2>2. CASE BeginTurn(h)
      BY <2>1, <2>2, AcceptIs DEF BeginTurn
    <2>3. CASE up' = up /\ on' = on
      BY <2>1, <2>3 DEF Runtime, Begun
    <2>4. QED
      BY <1>12, <2>2, <2>3 DEF Handle, Reject, Acknowledge, Snapshot
  <1>13. ASSUME NEW h \in Handlers, Respond(h) PROVE Runtime'
    BY <1>13
    DEF Respond, Write, child, process, turnMu, rs, handler, Functions, Processes, Runtime, Begun,
        None, Turns
  <1>14. ASSUME NEW t \in Turns, Say(t) PROVE Runtime'
    BY SMTT(30), <1>14
    DEF Say, SayStarted, SayCompleted, SayBad, child, process, turnMu, rs, handler, Functions,
        Processes, Runtime, Begun, None, Turns
  <1>15. ASSUME NEW p \in Procs, Read(p) PROVE Runtime'
    BY <1>15
    DEF Read, child, process, turnMu, rs, handler, Functions, Processes, Runtime, Begun, None, Turns
  <1>16. ASSUME NEW p \in Procs, Die(p) PROVE Runtime'
    BY <1>16
    DEF Die, child, process, turnMu, rs, handler, Functions, Processes, Runtime, Begun, None, Turns
  <1>17. ASSUME NEW p \in Procs, Watch(p) PROVE Runtime'
    BY <1>17
    DEF Watch, child, process, turnMu, rs, handler, Functions, Processes, Runtime, Begun, None,
        Turns
  <1>18. ASSUME NEW p \in Procs, HandleOrphan(p) PROVE Runtime'
    <2>1. p \in (1..spawned) \ dead /\ UNCHANGED <<said, spawned, dead>>
      BY <1>18 DEF HandleOrphan, Processes, process
    <2>2. CASE \E t \in Turns : Accept(p, t)
      BY <2>1, <2>2, AcceptIs
    <2>3. CASE up' = up /\ on' = on
      BY <2>1, <2>3 DEF Runtime, Begun
    <2>4. QED
      BY <1>18, <2>2, <2>3 DEF HandleOrphan
  <1>19. ASSUME Dispatch PROVE Runtime'
    BY <1>19
    DEF Dispatch, FailTracked, Observe, child, process, turnMu, rs, handler, Functions, Processes,
        Runtime, Begun, None, Turns
  <1>20. ASSUME Apply PROVE Runtime'
    BY <1>20
    DEF Apply, Over, child, process, turnMu, rs, handler, Functions, Processes, Runtime, Begun,
        None, Turns
  <1>21. ASSUME Publish PROVE Runtime'
    BY <1>21
    DEF Publish, Over, child, process, turnMu, rs, handler, Functions, Processes, Runtime, Begun,
        None, Turns
  <1>22. CASE UNCHANGED vars
    BY <1>22
    DEF vars, child, process, turnMu, rs, handler, Functions, Processes, Runtime, Begun, None, Turns
  <1>23. QED
    BY <1>1, <1>2, <1>3, <1>4, <1>5, <1>6, <1>7, <1>8, <1>9, <1>10, <1>11, <1>12, <1>13, <1>14,
       <1>15, <1>16, <1>17, <1>18, <1>19, <1>20, <1>21, <1>22
    DEF Next, Request, Serve

\* rs.mutating lets one handler at a time past its begin section.
LEMMA HandlingNext ==
    Functions /\ Streams /\ Processes /\ Handling /\ Messages /\ [Next]_vars => Handling'
  <1> SUFFICES ASSUME Functions, Streams, Processes, Handling, Messages, [Next]_vars PROVE Handling'
    OBVIOUS
  <1> USE RuntimeAssumption
  <1>1. ASSUME NEW h \in Handlers, BeginStart(h) PROVE Handling'
    BY <1>1
    DEF BeginStart, Goes, child, process, turnMu, rs, handler, Functions, Processes, Handling, Busy,
        Called, None
  <1>2. ASSUME NEW h \in Handlers, BeginSteer(h) PROVE Handling'
    BY <1>2
    DEF BeginSteer, Goes, child, process, turnMu, rs, handler, Functions, Processes, Handling, Busy,
        Called, None
  <1>3. ASSUME NEW h \in Handlers, BeginInterrupt(h) PROVE Handling'
    BY <1>3
    DEF BeginInterrupt, Goes, child, process, turnMu, rs, handler, Functions, Processes, Handling,
        Busy, Called, None
  <1>4. ASSUME NEW h \in Handlers, BeginRefresh(h) PROVE Handling'
    BY <1>4
    DEF BeginRefresh, Goes, child, process, turnMu, rs, handler, Functions, Processes, Handling,
        Busy, Called, None
  <1>5. ASSUME NEW h \in Handlers, BeginFork(h) PROVE Handling'
    BY <1>5
    DEF BeginFork, Goes, child, process, turnMu, rs, handler, Functions, Processes, Handling, Busy,
        Called, None
  <1>6. ASSUME NEW h \in Handlers, StartThread(h) PROVE Handling'
    BY <1>6
    DEF StartThread, Finish, Done, Started, child, process, turnMu, rs, handler, Functions,
        Processes, Handling, Busy, Called, None
  <1>7. ASSUME NEW h \in Handlers, Call(h) PROVE Handling'
    BY <1>7
    DEF Call, Finish, Done, Started, child, process, turnMu, rs, handler, Functions, Processes,
        Handling, Busy, Called, None
  <1>8. ASSUME NEW h \in Handlers, Lost(h) PROVE Handling'
    BY <1>8
    DEF Lost, Finish, Done, Mutation, child, process, turnMu, rs, handler, Functions, Processes,
        Handling, Busy, Called, None
  <1>9. ASSUME NEW h \in Handlers, Track(h) PROVE Handling'
    BY <1>9
    DEF Track, TrackTurn, child, process, turnMu, rs, handler, Functions, Processes, Handling, Busy,
        Called, None
  <1>10. ASSUME NEW h \in Handlers, Settle(h) PROVE Handling'
    BY <1>10
    DEF Settle, SettleStart, SettleRefresh, SettleOther, Finish, Done, child, process, turnMu, rs,
        handler, Functions, Processes, Handling, Busy, Called, None
  <1>11. ASSUME NEW h \in Handlers, Mirror(h) PROVE Handling'
    BY <1>11
    DEF Mirror, Done, child, process, turnMu, rs, handler, Functions, Processes, Handling, Busy,
        Called, None
  <1>12. ASSUME NEW h \in Handlers, Handle(h) PROVE Handling'
    BY <1>12
    DEF Handle, Reject, BeginTurn, Acknowledge, Snapshot, Accept, child, process, turnMu, rs,
        handler, Functions, Processes, Handling, Busy, Called, None
  <1>13. ASSUME NEW h \in Handlers, Respond(h) PROVE Handling'
    BY <1>13
    DEF Respond, Write, child, process, turnMu, rs, handler, Functions, Processes, Handling, Busy,
        Called, None
  <1>14. ASSUME NEW t \in Turns, Say(t) PROVE Handling'
    BY <1>14
    DEF Say, SayStarted, SayCompleted, SayBad, child, process, turnMu, rs, handler, Functions,
        Processes, Handling, Busy, Called, None
  <1>15. ASSUME NEW p \in Procs, Read(p) PROVE Handling'
    <2>1. /\ Head(line[p]) = line[p][1] /\ 1 \in 1..Len(line[p])
      BY <1>15, ReadLine DEF Shrunk
    <2>2. CASE pc' = pc
      BY <1>15, <2>2 DEF Read, Handling, child, rs
    <2>3. CASE Head(line[p]).k = "reply" /\ p \notin dead
      <3>1. LET m == Head(line[p]) IN m.h \in Handlers /\ pc[m.h] = "wait" /\ m.h \notin sent
        BY <2>1, <2>3 DEF Messages, Carried, ReplyIs, NoteIs, Unawaited
      <3>2. pc' = [pc EXCEPT ![Head(line[p]).h] = "answered"]
        BY <1>15, <2>3 DEF Read
      <3>3. UNCHANGED <<mutating, op, hp, sent, owe, spawned, thread>>
        BY <1>15 DEF Read, child, rs
      <3>4. QED
        BY <3>1, <3>2, <3>3 DEF Functions, Handling, Busy, Called
    <2>4. QED
      BY <1>15, <2>2, <2>3 DEF Read
  <1>16. ASSUME NEW p \in Procs, Die(p) PROVE Handling'
    BY <1>16
    DEF Die, child, process, turnMu, rs, handler, Functions, Processes, Handling, Busy, Called, None
  <1>17. ASSUME NEW p \in Procs, Watch(p) PROVE Handling'
    BY <1>17
    DEF Watch, child, process, turnMu, rs, handler, Functions, Processes, Handling, Busy, Called,
        None
  <1>18. ASSUME NEW p \in Procs, HandleOrphan(p) PROVE Handling'
    BY <1>18
    DEF HandleOrphan, Accept, child, process, turnMu, rs, handler, Functions, Processes, Handling,
        Busy, Called, None
  <1>19. ASSUME Dispatch PROVE Handling'
    BY <1>19
    DEF Dispatch, FailTracked, Observe, child, process, turnMu, rs, handler, Functions, Processes,
        Handling, Busy, Called, None
  <1>20. ASSUME Apply PROVE Handling'
    BY <1>20
    DEF Apply, Over, child, process, turnMu, rs, handler, Functions, Processes, Handling, Busy,
        Called, None
  <1>21. ASSUME Publish PROVE Handling'
    BY <1>21
    DEF Publish, Over, child, process, turnMu, rs, handler, Functions, Processes, Handling, Busy,
        Called, None
  <1>22. CASE UNCHANGED vars
    BY <1>22
    DEF vars, child, process, turnMu, rs, handler, Functions, Processes, Handling, Busy, Called,
        None
  <1>23. QED
    BY <1>1, <1>2, <1>3, <1>4, <1>5, <1>6, <1>7, <1>8, <1>9, <1>10, <1>11, <1>12, <1>13, <1>14,
       <1>15, <1>16, <1>17, <1>18, <1>19, <1>20, <1>21, <1>22
    DEF Next, Request, Serve

-----------------------------------------------------------------------------
(* The messages on their way                                               *)

\* Turns do not unbegin, change their process or take back what was said.
Grown ==
    /\ Begun \subseteq Begun'
    /\ \A t \in Begun : on'[t] = on[t] /\ said'[t] \in 0..2 /\ said'[t] >= said[t]

\* No step takes back what the child began or said.
LEMMA GrownNext ==
    Functions /\ Processes /\ Handling /\ Runtime /\ [Next]_vars => Grown
  <1> SUFFICES ASSUME Functions, Processes, Handling, Runtime, [Next]_vars PROVE Grown
    OBVIOUS
  <1>1. ASSUME NEW h \in Handlers, BeginStart(h) PROVE Grown
    BY <1>1
    DEF BeginStart, Goes, child, process, turnMu, rs, handler, Functions, Runtime, Begun, Grown
  <1>2. ASSUME NEW h \in Handlers, BeginSteer(h) PROVE Grown
    BY <1>2
    DEF BeginSteer, Goes, child, process, turnMu, rs, handler, Functions, Runtime, Begun, Grown
  <1>3. ASSUME NEW h \in Handlers, BeginInterrupt(h) PROVE Grown
    BY <1>3
    DEF BeginInterrupt, Goes, child, process, turnMu, rs, handler, Functions, Runtime, Begun, Grown
  <1>4. ASSUME NEW h \in Handlers, BeginRefresh(h) PROVE Grown
    BY <1>4
    DEF BeginRefresh, Goes, child, process, turnMu, rs, handler, Functions, Runtime, Begun, Grown
  <1>5. ASSUME NEW h \in Handlers, BeginFork(h) PROVE Grown
    BY <1>5
    DEF BeginFork, Goes, child, process, turnMu, rs, handler, Functions, Runtime, Begun, Grown
  <1>6. ASSUME NEW h \in Handlers, StartThread(h) PROVE Grown
    BY <1>6
    DEF StartThread, Finish, Done, Started, child, process, turnMu, rs, handler, Functions, Runtime,
        Begun, Grown
  <1>7. ASSUME NEW h \in Handlers, Call(h) PROVE Grown
    BY <1>7
    DEF Call, Finish, Done, Started, child, process, turnMu, rs, handler, Functions, Runtime, Begun,
        Grown
  <1>8. ASSUME NEW h \in Handlers, Lost(h) PROVE Grown
    BY <1>8
    DEF Lost, Finish, Done, Mutation, child, process, turnMu, rs, handler, Functions, Runtime,
        Begun, Grown
  <1>9. ASSUME NEW h \in Handlers, Track(h) PROVE Grown
    BY <1>9
    DEF Track, TrackTurn, child, process, turnMu, rs, handler, Functions, Runtime, Begun, Grown
  <1>10. ASSUME NEW h \in Handlers, Settle(h) PROVE Grown
    BY <1>10
    DEF Settle, SettleStart, SettleRefresh, SettleOther, Finish, Done, child, process, turnMu, rs,
        handler, Functions, Runtime, Begun, Grown
  <1>11. ASSUME NEW h \in Handlers, Mirror(h) PROVE Grown
    BY <1>11
    DEF Mirror, Done, child, process, turnMu, rs, handler, Functions, Runtime, Begun, Grown
  <1>12. ASSUME NEW h \in Handlers, Handle(h) PROVE Grown
    <2>1. hp[h] \in (1..spawned) \ dead /\ UNCHANGED <<said, spawned, dead>>
      BY <1>12 DEF Handle, Handling, Called
    <2>2. CASE BeginTurn(h)
      BY <2>1, <2>2, AcceptIs DEF BeginTurn, Grown, Runtime, Begun
    <2>3. CASE up' = up /\ on' = on
      BY <2>1, <2>3 DEF Grown, Runtime, Begun
    <2>4. QED
      BY <1>12, <2>2, <2>3 DEF Handle, Reject, Acknowledge, Snapshot
  <1>13. ASSUME NEW h \in Handlers, Respond(h) PROVE Grown
    BY <1>13
    DEF Respond, Write, child, process, turnMu, rs, handler, Functions, Runtime, Begun, Grown
  <1>14. ASSUME NEW t \in Turns, Say(t) PROVE Grown
    BY <1>14
    DEF Say, SayStarted, SayCompleted, SayBad, child, process, turnMu, rs, handler, Functions,
        Runtime, Begun, Grown
  <1>15. ASSUME NEW p \in Procs, Read(p) PROVE Grown
    BY <1>15
    DEF Read, child, process, turnMu, rs, handler, Functions, Runtime, Begun, Grown
  <1>16. ASSUME NEW p \in Procs, Die(p) PROVE Grown
    BY <1>16
    DEF Die, child, process, turnMu, rs, handler, Functions, Runtime, Begun, Grown
  <1>17. ASSUME NEW p \in Procs, Watch(p) PROVE Grown
    BY <1>17
    DEF Watch, child, process, turnMu, rs, handler, Functions, Runtime, Begun, Grown
  <1>18. ASSUME NEW p \in Procs, HandleOrphan(p) PROVE Grown
    <2>1. p \in (1..spawned) \ dead /\ UNCHANGED <<said, spawned, dead>>
      BY <1>18 DEF HandleOrphan, Processes, process
    <2>2. CASE \E t \in Turns : Accept(p, t)
      BY <2>1, <2>2, AcceptIs DEF Grown, Runtime, Begun
    <2>3. CASE up' = up /\ on' = on
      BY <2>1, <2>3 DEF Grown, Runtime, Begun
    <2>4. QED
      BY <1>18, <2>2, <2>3 DEF HandleOrphan
  <1>19. ASSUME Dispatch PROVE Grown
    BY <1>19
    DEF Dispatch, FailTracked, Observe, child, process, turnMu, rs, handler, Functions, Runtime,
        Begun, Grown
  <1>20. ASSUME Apply PROVE Grown
    BY <1>20
    DEF Apply, Over, child, process, turnMu, rs, handler, Functions, Runtime, Begun, Grown
  <1>21. ASSUME Publish PROVE Grown
    BY <1>21
    DEF Publish, Over, child, process, turnMu, rs, handler, Functions, Runtime, Begun, Grown
  <1>22. CASE UNCHANGED vars
    BY <1>22
    DEF vars, child, process, turnMu, rs, handler, Functions, Runtime, Begun, Grown
  <1>23. QED
    BY <1>1, <1>2, <1>3, <1>4, <1>5, <1>6, <1>7, <1>8, <1>9, <1>10, <1>11, <1>12, <1>13, <1>14,
       <1>15, <1>16, <1>17, <1>18, <1>19, <1>20, <1>21, <1>22
    DEF Next, Request, Serve

\* What a notification says stays true.
LEMMA NoteStays ==
  ASSUME Runtime, Grown, NEW m, NoteIs(m)
  PROVE  NoteIs(m)'
  BY DEF Runtime, Grown, NoteIs, IsNote, Begun

\* The streams move when nothing is written: messages are read, lost or cut off, one is taken
\* from the queue, a death is queued, or a notification goes from its pipe to the queue.
QueueMoves ==
    \/ q' = q
    \/ Took
    \/ \E m : Queued(m) /\ m.k = "dead" /\ m.p \in Procs
    \/ \E p \in Procs : Shrunk(p, 1) /\ Len(line[p]) > 0 /\ NoteIs(line[p][1]) /\ Queued(line[p][1])
Moves == Shrinks /\ QueueMoves

\* The steps in which the child writes nothing.
Quiet ==
    \/ \E h \in Handlers : Request(h) \/ Serve(h)
    \/ \E p \in Procs : Read(p) \/ Die(p) \/ Watch(p) \/ HandleOrphan(p)
    \/ Dispatch \/ Apply \/ Publish

\* In a quiet step messages only move on.
LEMMA MovesIs ==
  ASSUME Streams, Processes, Handling, Messages, Quiet
  PROVE  Moves
  <1>1. line' = line /\ q' = q => Moves
    BY SameIs DEF Moves, QueueMoves
  <1>2. ASSUME NEW h \in Handlers, BeginStart(h) PROVE Moves
    BY <1>2, <1>1, Zenon
    DEF BeginStart, process
  <1>3. ASSUME NEW h \in Handlers, BeginSteer(h) PROVE Moves
    BY <1>3, <1>1, Zenon
    DEF BeginSteer, process
  <1>4. ASSUME NEW h \in Handlers, BeginInterrupt(h) PROVE Moves
    BY <1>4, <1>1, Zenon
    DEF BeginInterrupt, process
  <1>5. ASSUME NEW h \in Handlers, BeginRefresh(h) PROVE Moves
    BY <1>5, <1>1, Zenon
    DEF BeginRefresh, process
  <1>6. ASSUME NEW h \in Handlers, BeginFork(h) PROVE Moves
    BY <1>6, <1>1, Zenon
    DEF BeginFork, process
  <1>7. ASSUME NEW h \in Handlers, StartThread(h) PROVE Moves
    BY <1>7, <1>1, Zenon
    DEF StartThread, process
  <1>8. ASSUME NEW h \in Handlers, Call(h) PROVE Moves
    BY <1>8, <1>1, Zenon
    DEF Call, process
  <1>9. ASSUME NEW h \in Handlers, Lost(h) PROVE Moves
    BY <1>9, LostIs DEF Lost, Moves, QueueMoves
  <1>10. ASSUME NEW h \in Handlers, Track(h) PROVE Moves
    <2>1. line' = line /\ (q' = q \/ q' = Append(q, [k |-> "dead", t |-> None, p |-> hp[h]]))
      BY <1>10 DEF Track, TrackTurn, process
    <2>2. hp[h] \in Procs
      BY <1>10, ProcIs DEF Track, Handling, Called
    <2>3. QED
      BY <1>1, <2>1, <2>2, SameIs, QueueIs DEF Moves, QueueMoves
  <1>11. ASSUME NEW h \in Handlers, Settle(h) PROVE Moves
    BY <1>11, <1>1, Zenon
    DEF Settle, process
  <1>12. ASSUME NEW h \in Handlers, Mirror(h) PROVE Moves
    BY <1>12, <1>1, Zenon
    DEF Mirror, process
  <1>13. ASSUME NEW p \in Procs, Read(p) PROVE Moves
    <2>1. Shrinks /\ Shrunk(p, 1) /\ Len(line[p]) > 0 /\ Head(line[p]) = line[p][1]
      BY <1>13, ReadLine
    <2>2. CASE q' = q
      BY <2>1, <2>2 DEF Moves, QueueMoves
    <2>3. CASE q' = Append(q, Head(line[p])) /\ Head(line[p]).k \notin {"reply", "unawaited"}
      <3>1. NoteIs(line[p][1])
        BY <2>1, <2>3 DEF Messages, Carried, Unawaited, Shrunk
      <3>2. QED
        BY <2>1, <2>3, <3>1, QueueIs DEF Moves, QueueMoves
    <2>4. QED
      <3>1. Head(line[p]).k \in {"reply", "unawaited"} => q' = q
        BY <1>13 DEF Read
      <3>2. Head(line[p]).k \notin {"reply", "unawaited"} => q' = Append(q, Head(line[p]))
        BY <1>13 DEF Read
      <3>3. QED
        BY <2>2, <2>3, <3>1, <3>2
  <1>14. ASSUME NEW p \in Procs, Die(p) PROVE Moves
    BY <1>14, DieIs DEF Die, Moves, QueueMoves
  <1>15. ASSUME NEW p \in Procs, Watch(p) PROVE Moves
    BY <1>15, SameIs, QueueIs DEF Watch, Note, Moves, QueueMoves
  <1>16. ASSUME NEW p \in Procs, HandleOrphan(p) PROVE Moves
    BY <1>16, <1>1, Zenon
    DEF HandleOrphan, process
  <1>17. ASSUME Dispatch PROVE Moves
    BY <1>17, SameIs, TakeIs DEF Dispatch, process, Moves, QueueMoves
  <1>18. ASSUME Apply PROVE Moves
    BY <1>18, <1>1, Zenon
    DEF Apply, process
  <1>19. ASSUME Publish PROVE Moves
    BY <1>19, <1>1, Zenon
    DEF Publish, process
  <1>20. QED
    BY <1>2, <1>3, <1>4, <1>5, <1>6, <1>7, <1>8, <1>9, <1>10, <1>11, <1>12, <1>13, <1>14, <1>15,
       <1>16, <1>17, <1>18, <1>19
    DEF Quiet, Request, Serve

\* A handler that has been answered waits on.
StaysAt(h) == pc[h] = "wait" /\ h \notin sent => pc'[h] = "wait" /\ hp'[h] = hp[h] /\ h \notin sent'

\* What the queue holds, said of the messages themselves.
LEMMA QueueHolds ==
  ASSUME \A m : (\E i \in 1..Len(q') : m = q'[i]) => NoteIs(m)'
  PROVE  (\A i \in 1..Len(q) : NoteIs(q[i]))'
  BY DEF NoteIs, IsNote

\* The same of the pipes.
LEMMA PipesHold ==
  ASSUME \A p \in Procs : \A m : (\E i \in 1..Len(line'[p]) : m = line'[p][i]) => Carried(m, p)'
  PROVE  (\A p \in Procs : \A i \in 1..Len(line[p]) : Carried(line[p][i], p))'
  BY DEF Carried, NoteIs, IsNote, ReplyIs

\* In a step that writes nothing and ends no wait the messages stay what they are.
LEMMA QueueStays ==
  ASSUME Runtime, Grown, Messages, QueueMoves
  PROVE  (\A i \in 1..Len(q) : NoteIs(q[i]))'
  <1> SUFFICES ASSUME NEW i \in 1..Len(q'), NEW m, m = q'[i] PROVE NoteIs(m)'
    BY QueueHolds
  <1>1. CASE q' = q
    BY <1>1, NoteStays DEF Messages
  <1>2. CASE Took
    BY <1>2, NoteStays DEF Messages, Took
  <1>3. CASE \E n : Queued(n) /\ n.k = "dead" /\ n.p \in Procs
    <2>1. PICK n : Queued(n) /\ n.k = "dead" /\ n.p \in Procs
      BY <1>3
    <2>2. NoteIs(n)'
      BY <2>1 DEF NoteIs, IsNote
    <2>3. m = n \/ NoteIs(m)
      BY <2>1 DEF Messages, Queued
    <2>4. QED
      BY <2>2, <2>3, NoteStays
  <1>4. CASE \E p \in Procs : NoteIs(line[p][1]) /\ Queued(line[p][1])
    <2>1. PICK n : NoteIs(n) /\ Queued(n)
      BY <1>4
    <2>2. NoteIs(m)
      BY <2>1 DEF Messages, Queued
    <2>3. QED
      BY <2>2, NoteStays
  <1>5. QED
    BY <1>1, <1>2, <1>3, <1>4 DEF QueueMoves

\* What may be in a pipe may stay there as long as the handler it answers waits on.
LEMMA CarriedStays ==
  ASSUME Runtime, Grown, NEW m, NEW p, Carried(m, p),
         m.k = "reply" => StaysAt(m.h)
  PROVE  Carried(m, p)'
  BY NoteStays DEF Carried, ReplyIs, StaysAt

\* A response nobody waits for may be in any pipe.
LEMMA UnawaitedIs == Unawaited.k = "unawaited" /\ \A p : Carried(Unawaited, p)'
  BY DEF Unawaited, Carried

\* A pipe that shrinks carries what it carried, and each answer once.
LEMMA PipeStays ==
  ASSUME Runtime, Grown, Messages, NEW p \in Procs, NEW d \in {0, 1}, Shrunk(p, d),
         \A i \in 1..Len(line'[p]) : line'[p][i].k = "reply" => StaysAt(line'[p][i].h)
  PROVE  /\ \A m : (\E i \in 1..Len(line'[p]) : m = line'[p][i]) => Carried(m, p)'
         /\ \A i, j \in 1..Len(line'[p]) :
              line'[p][i].k = "reply" /\ line'[p][j].k = "reply" /\ line'[p][i].h = line'[p][j].h
              => i = j
  <1>1. \A i \in 1..Len(line'[p]) :
          line'[p][i] = Unawaited \/ (i + d \in 1..Len(line[p]) /\ line'[p][i] = line[p][i + d])
    BY DEF Shrunk
  <1>2. ASSUME NEW m, NEW i \in 1..Len(line'[p]), m = line'[p][i] PROVE Carried(m, p)'
    <2>1. CASE m = Unawaited
      BY <2>1, UnawaitedIs
    <2>2. CASE i + d \in 1..Len(line[p]) /\ m = line[p][i + d]
      <3>1. Carried(m, p)
        BY <2>2 DEF Messages
      <3>2. QED
        BY <1>2, <3>1, CarriedStays
    <2>3. QED
      BY <1>1, <1>2, <2>1, <2>2
  <1>3. ASSUME NEW i \in 1..Len(line'[p]), NEW j \in 1..Len(line'[p]),
               line'[p][i].k = "reply", line'[p][j].k = "reply", line'[p][i].h = line'[p][j].h
        PROVE  i = j
    <2>1. /\ i + d \in 1..Len(line[p]) /\ line'[p][i] = line[p][i + d]
          /\ j + d \in 1..Len(line[p]) /\ line'[p][j] = line[p][j + d]
      BY <1>1, <1>3, UnawaitedIs
    <2>2. i + d = j + d
      BY <1>3, <2>1 DEF Messages
    <2>3. QED
      BY <2>2
  <1>4. QED
    BY <1>2, <1>3

\* In a quiet step every message stays what it is.
LEMMA MessagesStay ==
  ASSUME Runtime, Grown, Messages, Moves,
         \A p \in Procs : \A i \in 1..Len(line'[p]) :
            line'[p][i].k = "reply" => StaysAt(line'[p][i].h)
  PROVE  Messages'
  <1>1. \A p \in Procs :
          /\ \A m : (\E i \in 1..Len(line'[p]) : m = line'[p][i]) => Carried(m, p)'
          /\ \A i, j \in 1..Len(line'[p]) :
               line'[p][i].k = "reply" /\ line'[p][j].k = "reply" /\ line'[p][i].h = line'[p][j].h
               => i = j
    BY PipeStays DEF Moves, Shrinks
  <1>2. (\A p \in Procs : \A i \in 1..Len(line[p]) : Carried(line[p][i], p))'
    BY <1>1, PipesHold
  <1>3. (\A i \in 1..Len(q) : NoteIs(q[i]))'
    BY QueueStays DEF Moves
  <1>4. QED
    BY <1>1, <1>2, <1>3 DEF Messages

\* Every answer in a pipe is to a handler.
LEMMA RepliesKept ==
  ASSUME Messages, Shrinks, \A h \in Handlers : StaysAt(h)
  PROVE  \A p \in Procs : \A i \in 1..Len(line'[p]) :
            line'[p][i].k = "reply" => StaysAt(line'[p][i].h)
  <1> SUFFICES ASSUME NEW p \in Procs, NEW i \in 1..Len(line'[p]), line'[p][i].k = "reply"
               PROVE  line'[p][i].h \in Handlers
    OBVIOUS
  <1>1. PICK d \in {0, 1} : Shrunk(p, d)
    BY DEF Shrinks
  <1>2. i + d \in 1..Len(line[p]) /\ line'[p][i] = line[p][i + d]
    BY <1>1, UnawaitedIs DEF Shrunk
  <1>3. Carried(line[p][i + d], p)
    BY <1>2 DEF Messages
  <1>4. QED
    BY <1>2, <1>3, UnawaitedIs DEF Carried, ReplyIs, NoteIs

\* So it does when the child writes a message that is what it should be.
LEMMA MessagesWritten ==
  ASSUME Runtime, Grown, Messages, NEW p \in Procs, NEW m, Wrote(p, m), q' = q,
         \A h \in Handlers : StaysAt(h),
         Carried(m, p)',
         \A i \in 1..Len(line[p]) :
            line[p][i].k = "reply" /\ m.k = "reply" => line[p][i].h # m.h
  PROVE  Messages'
  <1>1. (\A i \in 1..Len(q) : NoteIs(q[i]))'
    BY QueueStays DEF QueueMoves
  <1>2. \A r \in Procs : \A i \in 1..Len(line[r]) : Carried(line[r][i], r)
    BY DEF Messages
  <1>3. ASSUME NEW r \in Procs, NEW n, NEW i \in 1..Len(line[r]), n = line[r][i]
        PROVE Carried(n, r)'
    <2>1. Carried(n, r)
      BY <1>2, <1>3
    <2>2. n.k = "reply" => StaysAt(n.h)
      BY <2>1, UnawaitedIs DEF Carried, ReplyIs, NoteIs
    <2>3. QED
      BY <2>1, <2>2, CarriedStays
  <1>4. ASSUME NEW r \in Procs, NEW n, NEW i \in 1..Len(line'[r]), n = line'[r][i]
        PROVE Carried(n, r)'
    <2>1. (r = p /\ n = m) \/ (i \in 1..Len(line[r]) /\ n = line[r][i])
      BY <1>4 DEF Wrote
    <2>2. QED
      BY <1>3, <2>1
  <1>5. (\A r \in Procs : \A i \in 1..Len(line[r]) : Carried(line[r][i], r))'
    BY <1>4, PipesHold
  <1>6. \A r \in Procs : \A i, j \in 1..Len(line'[r]) :
          line'[r][i].k = "reply" /\ line'[r][j].k = "reply" /\ line'[r][i].h = line'[r][j].h
             => i = j
    <2>1. \A r \in Procs : r # p => line'[r] = line[r]
      BY DEF Wrote
    <2>2. \A i \in 1..Len(line'[p]) : \/ i = Len(line[p]) + 1 /\ line'[p][i] = m
                                      \/ i \in 1..Len(line[p]) /\ line'[p][i] = line[p][i]
      BY DEF Wrote
    <2>3. QED
      BY SMTT(30), <2>1, <2>2 DEF Messages
  <1>7. QED
    BY <1>1, <1>5, <1>6 DEF Messages

\* No step puts a message in a stream that the child did not write.
LEMMA MessagesNext ==
    /\ Functions /\ Streams /\ Processes /\ Handling /\ Runtime /\ Messages /\ [Next]_vars
    => Messages'
  <1> SUFFICES ASSUME Functions, Streams, Processes, Handling, Runtime, Messages, [Next]_vars
               PROVE  Messages'
    OBVIOUS
  <1> Grown
    BY GrownNext
  <1>1. ASSUME Moves, \A h \in Handlers : StaysAt(h) PROVE Messages'
    BY <1>1, RepliesKept, MessagesStay DEF Moves
  <1>2. ASSUME NEW h \in Handlers, BeginStart(h) PROVE Messages'
    <2>1. \A i \in Handlers : StaysAt(i)
      BY <1>2
      DEF BeginStart, Goes, child, handler, StaysAt, Functions
    <2>2. QED
      BY <1>2, <1>1, <2>1, MovesIs DEF Quiet, Request, Serve
  <1>3. ASSUME NEW h \in Handlers, BeginSteer(h) PROVE Messages'
    <2>1. \A i \in Handlers : StaysAt(i)
      BY <1>3
      DEF BeginSteer, Goes, child, handler, StaysAt, Functions
    <2>2. QED
      BY <1>3, <1>1, <2>1, MovesIs DEF Quiet, Request, Serve
  <1>4. ASSUME NEW h \in Handlers, BeginInterrupt(h) PROVE Messages'
    <2>1. \A i \in Handlers : StaysAt(i)
      BY <1>4
      DEF BeginInterrupt, Goes, child, handler, StaysAt, Functions
    <2>2. QED
      BY <1>4, <1>1, <2>1, MovesIs DEF Quiet, Request, Serve
  <1>5. ASSUME NEW h \in Handlers, BeginRefresh(h) PROVE Messages'
    <2>1. \A i \in Handlers : StaysAt(i)
      BY <1>5
      DEF BeginRefresh, Goes, child, handler, StaysAt, Functions
    <2>2. QED
      BY <1>5, <1>1, <2>1, MovesIs DEF Quiet, Request, Serve
  <1>6. ASSUME NEW h \in Handlers, BeginFork(h) PROVE Messages'
    <2>1. \A i \in Handlers : StaysAt(i)
      BY <1>6
      DEF BeginFork, Goes, child, handler, StaysAt, Functions
    <2>2. QED
      BY <1>6, <1>1, <2>1, MovesIs DEF Quiet, Request, Serve
  <1>7. ASSUME NEW h \in Handlers, StartThread(h) PROVE Messages'
    <2>1. \A i \in Handlers : StaysAt(i)
      BY <1>7
      DEF StartThread, Done, child, handler, StaysAt, Functions
    <2>2. QED
      BY <1>7, <1>1, <2>1, MovesIs DEF Quiet, Request, Serve
  <1>8. ASSUME NEW h \in Handlers, Call(h) PROVE Messages'
    <2>1. \A i \in Handlers : StaysAt(i)
      BY <1>8
      DEF Call, Done, child, handler, StaysAt, Functions
    <2>2. QED
      BY <1>8, <1>1, <2>1, MovesIs DEF Quiet, Request, Serve
  <1>9. ASSUME NEW h \in Handlers, Lost(h) PROVE Messages'
    <2>1. Moves
      BY <1>9, MovesIs DEF Quiet, Request, Serve
    <2>2. \A i \in Handlers : i # h => StaysAt(i)
      BY <1>9 DEF Lost, Done, StaysAt, Functions
    <2>3. ASSUME NEW p \in Procs, NEW i \in 1..Len(line'[p]), line'[p][i].k = "reply"
          PROVE  StaysAt(line'[p][i].h)
      <3>1. i \in 1..Len(line[p]) /\ line'[p][i] = line[p][i]
        BY <1>9, <2>3, LostIs, UnawaitedIs
      <3>2. Carried(line[p][i], p)
        BY <3>1 DEF Messages
      <3>3. line[p][i].h \in Handlers /\ hp[line[p][i].h] = p
        BY <2>3, <3>1, <3>2, UnawaitedIs DEF Carried, ReplyIs, NoteIs
      <3>4. line[p][i].h # h
        BY <1>9, <2>3, <3>1, <3>3, LostIs, UnawaitedIs
      <3>5. QED
        BY <2>2, <3>1, <3>3, <3>4
    <2>4. QED
      BY <2>1, <2>3, MessagesStay
  <1>10. ASSUME NEW h \in Handlers, Track(h) PROVE Messages'
    <2>1. \A i \in Handlers : StaysAt(i)
      BY <1>10
      DEF Track, child, handler, StaysAt, Functions
    <2>2. QED
      BY <1>10, <1>1, <2>1, MovesIs DEF Quiet, Request, Serve
  <1>11. ASSUME NEW h \in Handlers, Settle(h) PROVE Messages'
    <2>1. \A i \in Handlers : StaysAt(i)
      BY <1>11
      DEF Settle, SettleStart, SettleRefresh, SettleOther, Done, child, handler, StaysAt, Functions
    <2>2. QED
      BY <1>11, <1>1, <2>1, MovesIs DEF Quiet, Request, Serve
  <1>12. ASSUME NEW h \in Handlers, Mirror(h) PROVE Messages'
    <2>1. \A i \in Handlers : StaysAt(i)
      BY <1>12
      DEF Mirror, Done, child, handler, StaysAt, Functions
    <2>2. QED
      BY <1>12, <1>1, <2>1, MovesIs DEF Quiet, Request, Serve
  <1>13. ASSUME NEW h \in Handlers, Handle(h) PROVE Messages'
    <2>1. hp[h] \in Procs /\ h \in sent /\ pc[h] = "wait" /\ q' = q
      BY <1>13, HandleIs DEF Handle, Handling
    <2>2. UNCHANGED <<pc, hp>>
      BY <1>13 DEF Handle, handler
    <2>3. ASSUME NEW r, Wrote(hp[h], Reply(h, r)), sent' = sent \ {h} PROVE Messages'
      <3>1. PICK p \in Procs : p = hp[h]
        BY <2>1
      <3>2. PICK m : m = Reply(h, r)
        OBVIOUS
      <3>3. m.k = "reply" /\ m.h = h /\ m.r = r /\ Wrote(p, m)
        BY <2>3, <3>1, <3>2 DEF Reply
      <3>4. Carried(m, p)'
        BY <2>1, <2>2, <2>3, <3>1, <3>3, <3>2 DEF Carried, ReplyIs, Reply
      <3>5. \A i \in Handlers : StaysAt(i)
        BY <2>1, <2>2, <2>3 DEF StaysAt
      <3>6. \A i \in 1..Len(line[p]) : line[p][i].k = "reply" => line[p][i].h # h
        BY <2>1, UnawaitedIs DEF Messages, Carried, ReplyIs, NoteIs
      <3>7. QED
        BY <2>1, <3>3, <3>4, <3>5, <3>6, MessagesWritten
    <2>4. CASE BeginTurn(h)
      <3>1. Moves
        BY <2>1, <2>4, SameIs DEF BeginTurn, Moves, QueueMoves
      <3>2. \A i \in Handlers : StaysAt(i)
        BY <2>2, <2>4 DEF BeginTurn, StaysAt
      <3>3. QED
        BY <1>1, <3>1, <3>2
    <2>5. ~BeginTurn(h) => sent' = sent \ {h}
      BY <1>13 DEF Handle, Reject, Acknowledge, Snapshot
    <2>6. QED
      BY <1>13, <2>3, <2>4, <2>5, HandleIs
  <1>14. ASSUME NEW h \in Handlers, Respond(h) PROVE Messages'
    <2>1. hp[h] \in Procs /\ h \in sent /\ pc[h] = "wait" /\ q' = q
      BY <1>14, RespondIs DEF Respond, Handling
    <2>2. UNCHANGED <<pc, hp>>
      BY <1>14 DEF Respond, handler
    <2>3. ASSUME NEW r, Wrote(hp[h], Reply(h, r)), sent' = sent \ {h} PROVE Messages'
      <3>1. PICK p \in Procs : p = hp[h]
        BY <2>1
      <3>2. PICK m : m = Reply(h, r)
        OBVIOUS
      <3>3. m.k = "reply" /\ m.h = h /\ m.r = r /\ Wrote(p, m)
        BY <2>3, <3>1, <3>2 DEF Reply
      <3>4. Carried(m, p)'
        BY <2>1, <2>2, <2>3, <3>1, <3>3, <3>2 DEF Carried, ReplyIs, Reply
      <3>5. \A i \in Handlers : StaysAt(i)
        BY <2>1, <2>2, <2>3 DEF StaysAt
      <3>6. \A i \in 1..Len(line[p]) : line[p][i].k = "reply" => line[p][i].h # h
        BY <2>1, UnawaitedIs DEF Messages, Carried, ReplyIs, NoteIs
      <3>7. QED
        BY <2>1, <3>3, <3>4, <3>5, <3>6, MessagesWritten
    <2>4. QED
      BY <1>14, <2>3, RespondIs DEF Respond
  <1>15. ASSUME NEW t \in Turns, Say(t) PROVE Messages'
    <2>1. /\ on[t] \in Procs /\ t \in Begun
          /\ q' = q /\ UNCHANGED <<pc, hp, sent, on>>
      BY <1>15, SayIs DEF Say, handler
    <2>2. \A i \in Handlers : StaysAt(i)
      BY <2>1 DEF StaysAt
    <2>3. t \in Begun' /\ on'[t] = on[t] /\ said'[t] >= said[t]
      BY <2>1 DEF Grown
    <2>4. ASSUME NEW m, Wrote(on[t], m), m.p = on[t], m.t = t, m.k \in {"started", "completed", "bad"},
                 IsNote(m) => said'[t] >= 1, m.k = "completed" => said'[t] = 2
          PROVE  Messages'
      <3>1. PICK p \in Procs : p = on[t]
        BY <2>1
      <3>2. NoteIs(m)'
        BY <2>1, <2>3, <2>4 DEF NoteIs, IsNote
      <3>3. Carried(m, p)'
        BY <2>4, <3>1, <3>2 DEF Carried
      <3>4. m.k # "reply"
        BY <2>4
      <3>5. QED
        BY <2>1, <2>2, <2>4, <3>1, <3>3, <3>4, MessagesWritten
    <2>5. CASE SayStarted(t) /\ Wrote(on[t], Note("started", t, on[t]))
      <3>1. said'[t] = 1
        BY <2>5 DEF SayStarted, Functions
      <3>2. QED
        BY <2>4, <2>5, <3>1 DEF Note, IsNote
    <2>6. CASE SayCompleted(t) /\ Wrote(on[t], Note("completed", t, on[t]))
      <3>1. said'[t] = 2
        BY <2>6 DEF SayCompleted, Functions
      <3>2. QED
        BY <2>4, <2>6, <3>1 DEF Note, IsNote
    <2>7. CASE SayBad(t) /\ Wrote(on[t], Note("bad", t, on[t]))
      BY <2>4, <2>7 DEF Note, IsNote
    <2>8. QED
      BY <1>15, <2>5, <2>6, <2>7, SayIs
  <1>16. ASSUME NEW p \in Procs, Read(p) PROVE Messages'
    <2>1. Moves
      BY <1>16, MovesIs DEF Quiet, Request, Serve
    <2>2. UNCHANGED <<hp, sent>>
      BY <1>16 DEF Read, child
    <2>3. CASE pc' = pc
      BY <1>1, <2>1, <2>2, <2>3 DEF StaysAt
    <2>4. CASE Head(line[p]).k = "reply" /\ p \notin dead
      <3>1. Shrunk(p, 1) /\ Len(line[p]) > 0 /\ Head(line[p]) = line[p][1]
        BY <1>16, ReadLine
      <3>2. 1 \in 1..Len(line[p]) /\ Carried(line[p][1], p)
        BY <3>1 DEF Messages, Shrunk
      <3>3. PICK h \in Handlers : h = line[p][1].h /\ hp[h] = p
        BY <2>4, <3>1, <3>2, UnawaitedIs DEF Carried, ReplyIs, NoteIs
      <3>4. \A i \in Handlers : i # h => StaysAt(i)
        BY <1>16, <2>2, <2>4, <3>1, <3>3 DEF Read, StaysAt, Functions
      <3>5. ASSUME NEW r \in Procs, NEW i \in 1..Len(line'[r]), line'[r][i].k = "reply"
            PROVE  StaysAt(line'[r][i].h)
        <4>1. PICK d \in {0, 1} : Shrunk(r, d) /\ (r = p => d = 1)
          BY <2>1, <3>1 DEF Moves, Shrinks
        <4>2. i + d \in 1..Len(line[r]) /\ line'[r][i] = line[r][i + d]
          BY <3>5, <4>1, UnawaitedIs DEF Shrunk
        <4>3. Carried(line[r][i + d], r)
          BY <4>2 DEF Messages
        <4>4. line[r][i + d].h \in Handlers /\ hp[line[r][i + d].h] = r
          BY <3>5, <4>2, <4>3, UnawaitedIs DEF Carried, ReplyIs, NoteIs
        <4>5. line[r][i + d].h # h
          <5>1. CASE r # p
            BY <3>3, <4>4, <5>1
          <5>2. CASE r = p
            <6>1. i + 1 \in 1..Len(line[p]) /\ i + 1 # 1 /\ line[p][i + 1].k = "reply"
              BY <3>5, <4>1, <4>2, <5>2
            <6>2. line[p][i + 1].h # line[p][1].h
              BY <2>4, <3>1, <3>2, <6>1 DEF Messages
            <6>3. QED
              BY <3>3, <4>1, <5>2, <6>2
          <5>3. QED
            BY <5>1, <5>2
        <4>6. QED
          BY <3>4, <4>2, <4>4, <4>5
      <3>6. QED
        BY <2>1, <3>5, MessagesStay
    <2>5. QED
      BY <1>16, <2>3, <2>4 DEF Read
  <1>17. ASSUME NEW p \in Procs, Die(p) PROVE Messages'
    <2>1. \A i \in Handlers : StaysAt(i)
      BY <1>17
      DEF Die, child, handler, StaysAt, Functions
    <2>2. QED
      BY <1>17, <1>1, <2>1, MovesIs DEF Quiet, Request, Serve
  <1>18. ASSUME NEW p \in Procs, Watch(p) PROVE Messages'
    <2>1. \A i \in Handlers : StaysAt(i)
      BY <1>18
      DEF Watch, child, handler, StaysAt, Functions
    <2>2. QED
      BY <1>18, <1>1, <2>1, MovesIs DEF Quiet, Request, Serve
  <1>19. ASSUME NEW p \in Procs, HandleOrphan(p) PROVE Messages'
    <2>1. \A i \in Handlers : StaysAt(i)
      BY <1>19
      DEF HandleOrphan, child, handler, StaysAt, Functions
    <2>2. QED
      BY <1>19, <1>1, <2>1, MovesIs DEF Quiet, Request, Serve
  <1>20. ASSUME Dispatch PROVE Messages'
    <2>1. \A i \in Handlers : StaysAt(i)
      BY <1>20
      DEF Dispatch, child, handler, StaysAt, Functions
    <2>2. QED
      BY <1>20, <1>1, <2>1, MovesIs DEF Quiet, Request, Serve
  <1>21. ASSUME Apply PROVE Messages'
    <2>1. \A i \in Handlers : StaysAt(i)
      BY <1>21
      DEF Apply, child, handler, StaysAt, Functions
    <2>2. QED
      BY <1>21, <1>1, <2>1, MovesIs DEF Quiet, Request, Serve
  <1>22. ASSUME Publish PROVE Messages'
    <2>1. \A i \in Handlers : StaysAt(i)
      BY <1>22
      DEF Publish, child, handler, StaysAt, Functions
    <2>2. QED
      BY <1>22, <1>1, <2>1, MovesIs DEF Quiet, Request, Serve
  <1>23. CASE UNCHANGED vars
    <2>1. \A i \in Handlers : StaysAt(i)
      BY <1>23 DEF vars, handler, child, StaysAt
    <2>2. Moves
      BY <1>23, SameIs DEF vars, process, Moves, QueueMoves
    <2>3. QED
      BY <1>1, <2>1, <2>2
  <1>24. QED
    BY <1>2, <1>3, <1>4, <1>5, <1>6, <1>7, <1>8, <1>9, <1>10, <1>11, <1>12, <1>13, <1>14, <1>15,
       <1>16, <1>17, <1>18, <1>19, <1>20, <1>21, <1>22, <1>23
    DEF Next, Request, Serve

-----------------------------------------------------------------------------
(* The order of the notifications                                          *)

\* The client's process stays the same, or there is none, or it is a new one.
CurStays == cur' = cur \/ cur' \notin 1..spawned

\* Client.process is never set back to an older process.
LEMMA CurNext == Processes /\ [Next]_vars => CurStays
  <1> SUFFICES ASSUME Processes, [Next]_vars PROVE CurStays
    OBVIOUS
  <1>1. ASSUME NEW h \in Handlers, BeginStart(h) PROVE CurStays
    BY <1>1
    DEF BeginStart, Goes, child, process, turnMu, rs, handler, Processes, CurStays, None
  <1>2. ASSUME NEW h \in Handlers, BeginSteer(h) PROVE CurStays
    BY <1>2
    DEF BeginSteer, Goes, child, process, turnMu, rs, handler, Processes, CurStays, None
  <1>3. ASSUME NEW h \in Handlers, BeginInterrupt(h) PROVE CurStays
    BY <1>3
    DEF BeginInterrupt, Goes, child, process, turnMu, rs, handler, Processes, CurStays, None
  <1>4. ASSUME NEW h \in Handlers, BeginRefresh(h) PROVE CurStays
    BY <1>4
    DEF BeginRefresh, Goes, child, process, turnMu, rs, handler, Processes, CurStays, None
  <1>5. ASSUME NEW h \in Handlers, BeginFork(h) PROVE CurStays
    BY <1>5
    DEF BeginFork, Goes, child, process, turnMu, rs, handler, Processes, CurStays, None
  <1>6. ASSUME NEW h \in Handlers, StartThread(h) PROVE CurStays
    BY <1>6
    DEF StartThread, Finish, Done, Started, child, process, turnMu, rs, handler, Processes,
        CurStays, None
  <1>7. ASSUME NEW h \in Handlers, Call(h) PROVE CurStays
    BY <1>7
    DEF Call, Finish, Done, Started, child, process, turnMu, rs, handler, Processes, CurStays, None
  <1>8. ASSUME NEW h \in Handlers, Lost(h) PROVE CurStays
    BY <1>8
    DEF Lost, Finish, Done, Mutation, child, process, turnMu, rs, handler, Processes, CurStays, None
  <1>9. ASSUME NEW h \in Handlers, Track(h) PROVE CurStays
    BY <1>9
    DEF Track, TrackTurn, child, process, turnMu, rs, handler, Processes, CurStays, None
  <1>10. ASSUME NEW h \in Handlers, Settle(h) PROVE CurStays
    BY <1>10
    DEF Settle, SettleStart, SettleRefresh, SettleOther, Finish, Done, child, process, turnMu, rs,
        handler, Processes, CurStays, None
  <1>11. ASSUME NEW h \in Handlers, Mirror(h) PROVE CurStays
    BY <1>11
    DEF Mirror, Done, child, process, turnMu, rs, handler, Processes, CurStays, None
  <1>12. ASSUME NEW h \in Handlers, Handle(h) PROVE CurStays
    BY <1>12
    DEF Handle, Reject, BeginTurn, Acknowledge, Snapshot, Accept, child, process, turnMu, rs,
        handler, Processes, CurStays, None
  <1>13. ASSUME NEW h \in Handlers, Respond(h) PROVE CurStays
    BY <1>13
    DEF Respond, Write, child, process, turnMu, rs, handler, Processes, CurStays, None
  <1>14. ASSUME NEW t \in Turns, Say(t) PROVE CurStays
    BY <1>14
    DEF Say, SayStarted, SayCompleted, SayBad, child, process, turnMu, rs, handler, Processes,
        CurStays, None
  <1>15. ASSUME NEW p \in Procs, Read(p) PROVE CurStays
    BY <1>15
    DEF Read, child, process, turnMu, rs, handler, Processes, CurStays, None
  <1>16. ASSUME NEW p \in Procs, Die(p) PROVE CurStays
    BY <1>16
    DEF Die, child, process, turnMu, rs, handler, Processes, CurStays, None
  <1>17. ASSUME NEW p \in Procs, Watch(p) PROVE CurStays
    BY <1>17
    DEF Watch, child, process, turnMu, rs, handler, Processes, CurStays, None
  <1>18. ASSUME NEW p \in Procs, HandleOrphan(p) PROVE CurStays
    BY <1>18
    DEF HandleOrphan, Accept, child, process, turnMu, rs, handler, Processes, CurStays, None
  <1>19. ASSUME Dispatch PROVE CurStays
    BY <1>19
    DEF Dispatch, FailTracked, Observe, child, process, turnMu, rs, handler, Processes, CurStays,
        None
  <1>20. ASSUME Apply PROVE CurStays
    BY <1>20
    DEF Apply, Over, child, process, turnMu, rs, handler, Processes, CurStays, None
  <1>21. ASSUME Publish PROVE CurStays
    BY <1>21
    DEF Publish, Over, child, process, turnMu, rs, handler, Processes, CurStays, None
  <1>22. CASE UNCHANGED vars
    BY <1>22
    DEF vars, child, process, turnMu, rs, handler, Processes, CurStays, None
  <1>23. QED
    BY <1>1, <1>2, <1>3, <1>4, <1>5, <1>6, <1>7, <1>8, <1>9, <1>10, <1>11, <1>12, <1>13, <1>14,
       <1>15, <1>16, <1>17, <1>18, <1>19, <1>20, <1>21, <1>22
    DEF Next, Request, Serve

\* What may be a notification is one.
Noted(m) == IsNote(m) => NoteIs(m)

\* What looks like a notification, in the queue or in a pipe, is one, and is in its own pipe.
LEMMA AllNoted ==
  ASSUME Messages
  PROVE  /\ \A i \in 1..Len(q) : Noted(q[i])
         /\ \A p \in Procs : \A i \in 1..Len(line[p]) :
              Noted(line[p][i]) /\ (IsNote(line[p][i]) => line[p][i].p = p)
  BY UnawaitedIs DEF Messages, Carried, Noted, IsNote

\* A message that starts no turn up to t never does.
LEMMA StartsStay ==
  ASSUME Runtime, CurStays, NEW m, Noted(m), NEW t, ~Starts(m, t)
  PROVE  ~Starts(m, t)'
  BY DEF Runtime, CurStays, Noted, NoteIs, IsNote, Starts

\* Two messages in order stay in order.
LEMMA PrecedesStay ==
  ASSUME Runtime, CurStays, NEW a, NEW b, Noted(a), Noted(b), Precedes(a, b)
  PROVE  Precedes(a, b)'
  BY DEF Runtime, CurStays, Noted, NoteIs, IsNote, Starts, Precedes

\* The order, said of the messages themselves.
LEMMA OrderHolds ==
  ASSUME \A i, j \in 1..Len(q') : \A a, b : i < j /\ a = q'[i] /\ b = q'[j] => Precedes(a, b)',
         \A p \in Procs : \A i, j \in 1..Len(line'[p]) : \A a, b :
            i < j /\ a = line'[p][i] /\ b = line'[p][j] => Precedes(a, b)',
         \A p \in Procs : \A i \in 1..Len(q'), j \in 1..Len(line'[p]) : \A a, b :
            a = q'[i] /\ b = line'[p][j] => Precedes(a, b)'
  PROVE  QueueOrder' /\ PipeOrder' /\ QueueFirst'
  BY DEF QueueOrder, PipeOrder, QueueFirst, Precedes, Starts, IsNote

\* That no start up to t is on its way, said of the messages themselves.
LEMMA NoStartHolds ==
  ASSUME NEW t, \A m : (\E i \in 1..Len(q') : m = q'[i]) => ~Starts(m, t)',
         \A p \in Procs : \A m : (\E i \in 1..Len(line'[p]) : m = line'[p][i]) => ~Starts(m, t)'
  PROVE  NoStart(t)'
  BY DEF NoStart, Starts

\* Where a message of the queue or of a pipe was before a step that writes nothing.
LEMMA QueueFrom ==
  ASSUME QueueMoves, NEW i \in 1..Len(q')
  PROVE  \/ i \in 1..Len(q) /\ q'[i] = q[i]
         \/ Took /\ i + 1 \in 1..Len(q) /\ q'[i] = q[i + 1]
         \/ q'[i].k = "dead"
         \/ \E p \in Procs : /\ Shrunk(p, 1) /\ Len(line[p]) > 0 /\ Queued(line[p][1])
                             /\ i = Len(q) + 1 /\ q'[i] = line[p][1]
  BY DEF QueueMoves, Took, Queued

\* The same of a pipe.
LEMMA PipeFrom ==
  ASSUME NEW p \in Procs, NEW d \in {0, 1}, Shrunk(p, d), NEW i \in 1..Len(line'[p])
  PROVE  \/ line'[p][i] = Unawaited
         \/ i + d \in 1..Len(line[p]) /\ line'[p][i] = line[p][i + d]
  BY DEF Shrunk

\* A quiet step brings no start back.
LEMMA NoStartStays ==
  ASSUME Runtime, Messages, CurStays, Moves, NEW t, NoStart(t)
  PROVE  NoStart(t)'
  <1>1. ASSUME NEW m, NEW i \in 1..Len(q'), m = q'[i] PROVE ~Starts(m, t)'
    <2>1. CASE m.k = "dead"
      BY <2>1 DEF Starts
    <2>2. CASE \E j \in 1..Len(q) : m = q[j]
      BY <2>2, AllNoted, StartsStay DEF NoStart
    <2>3. CASE \E p \in Procs : Len(line[p]) > 0 /\ Shrunk(p, 1) /\ m = line[p][1]
      <3>1. PICK p \in Procs : 1 \in 1..Len(line[p]) /\ m = line[p][1]
        BY <2>3 DEF Shrunk
      <3>2. QED
        BY <3>1, AllNoted, StartsStay DEF NoStart
    <2>4. QED
      BY <1>1, <2>1, <2>2, <2>3, QueueFrom DEF Moves
  <1>2. ASSUME NEW p \in Procs, NEW m, NEW i \in 1..Len(line'[p]), m = line'[p][i]
        PROVE  ~Starts(m, t)'
    <2>1. CASE m = Unawaited
      BY <2>1, UnawaitedIs DEF Starts
    <2>2. CASE \E j \in 1..Len(line[p]) : m = line[p][j]
      BY <2>2, AllNoted, StartsStay DEF NoStart
    <2>3. QED
      BY <1>2, <2>1, <2>2, PipeFrom DEF Moves, Shrinks
  <1>3. QED
    BY <1>1, <1>2, NoStartHolds

\* Reading, losing and dispatching keep the order of the notifications.
LEMMA OrderMoves ==
  ASSUME Runtime, Messages, CurStays, Moves, QueueOrder, PipeOrder, QueueFirst
  PROVE  QueueOrder' /\ PipeOrder' /\ QueueFirst'
  <1> USE DEF Moves
  <1>1. ASSUME NEW i \in 1..Len(q'), NEW j \in 1..Len(q'), NEW a, NEW b,
               i < j, a = q'[i], b = q'[j]
        PROVE  Precedes(a, b)'
    <2>1. CASE a.k = "dead" \/ b.k = "dead"
      BY <2>1 DEF Precedes, IsNote, Starts
    <2>2. CASE \E k, l \in 1..Len(q) : k < l /\ a = q[k] /\ b = q[l]
      BY <2>2, AllNoted, PrecedesStay DEF QueueOrder
    <2>3. CASE \E k \in 1..Len(q), p \in Procs : 1 \in 1..Len(line[p]) /\ a = q[k] /\ b = line[p][1]
      BY <2>3, AllNoted, PrecedesStay DEF QueueFirst
    <2>4. QED
      <3>1. CASE q' = q
        BY <1>1, <2>2, <3>1
      <3>2. CASE Took
        BY <1>1, <2>2, <3>2 DEF Took
      <3>3. CASE \E m : Queued(m) /\ m.k = "dead" /\ m.p \in Procs
        BY <1>1, <2>1, <2>2, <3>3 DEF Queued
      <3>4. CASE \E p \in Procs : Shrunk(p, 1) /\ Len(line[p]) > 0 /\ Queued(line[p][1])
        <4>1. PICK p \in Procs : Shrunk(p, 1) /\ Len(line[p]) > 0 /\ Queued(line[p][1])
          BY <3>4
        <4>2. 1 \in 1..Len(line[p])
          BY <4>1 DEF Shrunk
        <4>3. i \in 1..Len(q) /\ a = q[i]
          BY <1>1, <4>1 DEF Queued
        <4>4. (j \in 1..Len(q) /\ b = q[j]) \/ b = line[p][1]
          BY <1>1, <4>1 DEF Queued
        <4>5. QED
          BY <1>1, <2>2, <2>3, <4>2, <4>3, <4>4
      <3>5. QED
        BY <3>1, <3>2, <3>3, <3>4 DEF QueueMoves
  <1>2. ASSUME NEW p \in Procs, NEW i \in 1..Len(line'[p]), NEW j \in 1..Len(line'[p]),
               NEW a, NEW b, i < j, a = line'[p][i], b = line'[p][j]
        PROVE  Precedes(a, b)'
    <2>1. PICK d \in {0, 1} : Shrunk(p, d)
      BY DEF Shrinks
    <2>2. CASE a = Unawaited \/ b = Unawaited
      BY <2>2, UnawaitedIs DEF Precedes, IsNote, Starts
    <2>3. CASE /\ i + d \in 1..Len(line[p]) /\ a = line[p][i + d]
               /\ j + d \in 1..Len(line[p]) /\ b = line[p][j + d]
      <3>1. Precedes(a, b) /\ Noted(a) /\ Noted(b)
        BY <1>2, <2>3, AllNoted DEF PipeOrder
      <3>2. QED
        BY <3>1, PrecedesStay
    <2>4. QED
      BY <1>2, <2>1, <2>2, <2>3, PipeFrom
  <1>3. ASSUME NEW p \in Procs, NEW i \in 1..Len(q'), NEW j \in 1..Len(line'[p]),
               NEW a, NEW b, a = q'[i], b = line'[p][j]
        PROVE  Precedes(a, b)'
    <2>1. CASE a.k = "dead"
      BY <2>1 DEF Precedes, IsNote
    <2>2. CASE b = Unawaited
      BY <2>2, UnawaitedIs DEF Precedes, Starts
    <2>3. CASE \E k \in 1..Len(q), l \in 1..Len(line[p]) : a = q[k] /\ b = line[p][l]
      BY <2>3, AllNoted, PrecedesStay DEF QueueFirst
    <2>4. CASE \E r \in Procs : Shrunk(r, 1) /\ Len(line[r]) > 0 /\ a = line[r][1]
      <3>1. PICK r \in Procs : Shrunk(r, 1) /\ Len(line[r]) > 0 /\ a = line[r][1]
        BY <2>4
      <3>2. 1 \in 1..Len(line[r])
        BY <3>1 DEF Shrunk
      <3>3. CASE r = p
        <4>1. b = Unawaited \/ (j + 1 \in 1..Len(line[p]) /\ b = line[p][j + 1])
          BY <1>3, <3>1, <3>3, PipeFrom
        <4>2. j + 1 \in 1..Len(line[p]) /\ b = line[p][j + 1] => Precedes(a, b) /\ Noted(a)
                 /\ Noted(b)
          BY <3>1, <3>2, <3>3, AllNoted DEF PipeOrder
        <4>3. QED
          BY <2>2, <4>1, <4>2, PrecedesStay
      <3>4. CASE r # p
        <4>1. PICK d \in {0, 1} : Shrunk(p, d)
          BY DEF Shrinks
        <4>2. b = Unawaited \/ (Noted(b) /\ (IsNote(b) => b.p = p))
          BY SMTT(30), <1>3, <4>1, PipeFrom, AllNoted
        <4>3. Noted(a) /\ (IsNote(a) => a.p = r)
          BY <3>1, <3>2, AllNoted
        <4>4. QED
          BY <2>2, <3>4, <4>2, <4>3 DEF Precedes, Starts, IsNote
      <3>5. QED
        BY <3>3, <3>4
    <2>5. QED
      <3>1. PICK d \in {0, 1} : Shrunk(p, d)
        BY DEF Shrinks
      <3>2. b = Unawaited \/ \E l \in 1..Len(line[p]) : b = line[p][l]
        BY <1>3, <3>1, PipeFrom
      <3>3. \/ a.k = "dead" \/ \E k \in 1..Len(q) : a = q[k]
            \/ \E r \in Procs : Shrunk(r, 1) /\ Len(line[r]) > 0 /\ a = line[r][1]
        BY <1>3, QueueFrom
      <3>4. QED
        BY <2>1, <2>2, <2>3, <2>4, <3>2, <3>3
  <1>4. QED
    BY <1>1, <1>2, <1>3, OrderHolds

\* A message that is written goes behind all others: it is no start of a turn that was spoken of.
Behind(m) ==
    m.k = "started" => /\ \A i \in 1..Len(q) : IsNote(q[i]) /\ q[i].p = cur => q[i].t < m.t
                       /\ \A p \in Procs : \A i \in 1..Len(line[p]) :
                            IsNote(line[p][i]) /\ line[p][i].p = cur => line[p][i].t < m.t

\* Where a message of a pipe was before one was written.
LEMMA WrittenFrom ==
  ASSUME NEW p \in Procs, NEW m, Wrote(p, m), NEW r \in Procs, NEW i \in 1..Len(line'[r])
  PROVE  \/ r = p /\ i = Len(line[r]) + 1 /\ line'[r][i] = m
         \/ i \in 1..Len(line[r]) /\ line'[r][i] = line[r][i]
  BY DEF Wrote

\* Writing keeps the order if what is written goes behind.
LEMMA OrderWritten ==
  ASSUME Runtime, Messages, cur' = cur, q' = q, NEW p \in Procs, NEW m, Wrote(p, m), Behind(m),
         m.k = "started" => m.t \in Turns,
         QueueOrder, PipeOrder, QueueFirst
  PROVE  QueueOrder' /\ PipeOrder' /\ QueueFirst'
  <1>1. CurStays
    BY DEF CurStays
  <1>2. ASSUME NEW a, Noted(a), IsNote(a) /\ a.p = cur /\ m.k = "started" => a.t < m.t
        PROVE  Precedes(a, m)'
    BY <1>2, RuntimeAssumption DEF Precedes, Starts, IsNote, Noted, NoteIs, Begun, Turns
  <1>3. ASSUME NEW i \in 1..Len(q'), NEW j \in 1..Len(q'), NEW a, NEW b,
               i < j, a = q'[i], b = q'[j]
        PROVE  Precedes(a, b)'
    BY <1>1, <1>3, AllNoted, PrecedesStay DEF QueueOrder
  <1>4. ASSUME NEW r \in Procs, NEW i \in 1..Len(line'[r]), NEW j \in 1..Len(line'[r]),
               NEW a, NEW b, i < j, a = line'[r][i], b = line'[r][j]
        PROVE  Precedes(a, b)'
    <2>1. i \in 1..Len(line[r]) /\ a = line[r][i]
      BY SMTT(30), <1>4, WrittenFrom DEF Wrote
    <2>2. CASE b = m
      BY <1>2, <2>1, <2>2, AllNoted DEF Behind
    <2>3. CASE j \in 1..Len(line[r]) /\ b = line[r][j]
      BY <1>1, <1>4, <2>1, <2>3, AllNoted, PrecedesStay DEF PipeOrder
    <2>4. QED
      BY <1>4, <2>2, <2>3, WrittenFrom
  <1>5. ASSUME NEW r \in Procs, NEW i \in 1..Len(q'), NEW j \in 1..Len(line'[r]),
               NEW a, NEW b, a = q'[i], b = line'[r][j]
        PROVE  Precedes(a, b)'
    <2>1. CASE b = m
      BY <1>2, <1>5, <2>1, AllNoted DEF Behind
    <2>2. CASE j \in 1..Len(line[r]) /\ b = line[r][j]
      BY <1>1, <1>5, <2>2, AllNoted, PrecedesStay DEF QueueFirst
    <2>3. QED
      BY <1>5, <2>1, <2>2, WrittenFrom
  <1>6. QED
    BY <1>3, <1>4, <1>5, OrderHolds

\* Writing something else brings no start back.
LEMMA NoStartWritten ==
  ASSUME Runtime, Messages, cur' = cur, q' = q, NEW p \in Procs, NEW m, Wrote(p, m),
         NEW t, NoStart(t), ~Starts(m, t)
  PROVE  NoStart(t)'
  <1>1. CurStays
    BY DEF CurStays
  <1>2. ASSUME NEW n, NEW i \in 1..Len(q'), n = q'[i] PROVE ~Starts(n, t)'
    BY <1>1, <1>2, AllNoted, StartsStay DEF NoStart
  <1>3. ASSUME NEW r \in Procs, NEW n, NEW i \in 1..Len(line'[r]), n = line'[r][i]
        PROVE  ~Starts(n, t)'
    <2>1. CASE n = m
      BY <2>1 DEF Starts
    <2>2. CASE i \in 1..Len(line[r]) /\ n = line[r][i]
      BY <1>1, <2>2, AllNoted, StartsStay DEF NoStart
    <2>3. QED
      BY <1>3, <2>1, <2>2, WrittenFrom
  <1>4. QED
    BY <1>2, <1>3, NoStartHolds

\* The events stay in order when the dispatcher does nothing.
LEMMA OrderKept ==
  ASSUME Order, QueueOrder' /\ PipeOrder' /\ QueueFirst', UNCHANGED <<ev, told>>,
         \A t \in told : NoStart(t)',
         ev.k \in {"started", "completed"} => NoStart(ev.t)'
  PROVE  Order'
  <1>1. \A t \in told' : NoStart(t)'
    OBVIOUS
  <1>2. ev'.k \in {"started", "completed"} => NoStart(ev.t)'
    OBVIOUS
  <1>3. ev'.k = "started" /\ ev'.at = "apply" => \A t \in told' : t < ev'.t
    BY DEF Order
  <1>4. QED
    BY <1>1, <1>2, <1>3 DEF Order, NoStart, Starts


\* A start is said before anything else of its turn, and after every turn before it.
LEMMA SaidBefore ==
  ASSUME Runtime, NEW t \in Turns, t \in Begun, on[t] \notin dead, said[t] = 0
  PROVE  \A s \in Begun : said[s] >= 1 => s < t
  <1> SUFFICES ASSUME NEW s \in Begun, said[s] >= 1 PROVE s < t
    OBVIOUS
  <1>1. s # t
    BY DEF Runtime
  <1>2. ~(t < s)
    BY DEF Runtime, Begun
  <1>3. s \in Nat /\ t \in Nat
    BY RuntimeAssumption DEF Begun, Turns
  <1>4. QED
    BY <1>1, <1>2, <1>3

\* The order holds in every step: a start that the child says is of a turn it has not spoken of,
\* and the turn whose event the dispatcher takes has no start left behind it.
LEMMA OrderNext ==
    /\ Functions /\ Streams /\ Processes /\ Handling /\ Runtime /\ Messages /\ Known /\ Order
    /\ [Next]_vars
    => Order'
  <1> SUFFICES ASSUME Functions, Streams, Processes, Handling, Runtime, Messages, Known, Order,
                      [Next]_vars
               PROVE  Order'
    OBVIOUS
  <1> CurStays
    BY CurNext
  <1>1. ASSUME QueueOrder' /\ PipeOrder' /\ QueueFirst', \A t : NoStart(t) => NoStart(t)',
               UNCHANGED <<ev, told>>
        PROVE  Order'
    BY <1>1, OrderKept DEF Order
  <1>2. ASSUME Moves, UNCHANGED <<ev, told>> PROVE Order'
    BY <1>1, <1>2, OrderMoves, NoStartStays DEF Order
  <1>3. ASSUME NEW h \in Handlers, Request(h) PROVE Order'
    <2>1. UNCHANGED <<ev, told>>
      BY <1>3 DEF Request, BeginStart, BeginSteer, BeginInterrupt, BeginRefresh, BeginFork
    <2>2. Moves
      BY <1>3, MovesIs, Zenon DEF Quiet
    <2>3. QED
      BY <1>2, <2>1, <2>2
  <1>4. ASSUME NEW h \in Handlers, Serve(h) PROVE Order'
    <2>1. UNCHANGED <<ev, told>>
      BY <1>4 DEF Serve, StartThread, Call, Lost, Track, Settle, Mirror
    <2>2. Moves
      BY <1>4, MovesIs, Zenon DEF Quiet
    <2>3. QED
      BY <1>2, <2>1, <2>2
  <1>5. ASSUME NEW h \in Handlers, Handle(h) PROVE Order'
    <2>1. hp[h] \in Procs /\ UNCHANGED <<cur, q, ev, told>>
      BY <1>5, HandleIs DEF Handle
    <2>2. ASSUME NEW r, Wrote(hp[h], Reply(h, r)) PROVE Order'
      <3>1. PICK m : m = Reply(h, r)
        OBVIOUS
      <3>2. m.k = "reply" /\ Wrote(hp[h], m)
        BY <2>2, <3>1 DEF Reply
      <3>3. Behind(m) /\ \A t : ~Starts(m, t)
        BY <3>2 DEF Behind, Starts
      <3>4. QueueOrder' /\ PipeOrder' /\ QueueFirst'
        BY <2>1, <3>2, <3>3, OrderWritten DEF Order
      <3>5. \A t : NoStart(t) => NoStart(t)'
        BY <2>1, <3>2, <3>3, NoStartWritten
      <3>6. QED
        BY <1>1, <2>1, <3>4, <3>5
    <2>3. CASE BeginTurn(h)
      <3>1. Moves
        BY <2>1, <2>3, SameIs DEF BeginTurn, Moves, QueueMoves
      <3>2. QED
        BY <1>2, <2>1, <3>1
    <2>4. QED
      BY <1>5, <2>2, <2>3, HandleIs
  <1>6. ASSUME NEW h \in Handlers, Respond(h) PROVE Order'
    <2>1. hp[h] \in Procs /\ UNCHANGED <<cur, q, ev, told>>
      BY <1>6, RespondIs DEF Respond
    <2>2. ASSUME NEW r, Wrote(hp[h], Reply(h, r)) PROVE Order'
      <3>1. PICK m : m = Reply(h, r)
        OBVIOUS
      <3>2. m.k = "reply" /\ Wrote(hp[h], m)
        BY <2>2, <3>1 DEF Reply
      <3>3. Behind(m) /\ \A t : ~Starts(m, t)
        BY <3>2 DEF Behind, Starts
      <3>4. QueueOrder' /\ PipeOrder' /\ QueueFirst'
        BY <2>1, <3>2, <3>3, OrderWritten DEF Order
      <3>5. \A t : NoStart(t) => NoStart(t)'
        BY <2>1, <3>2, <3>3, NoStartWritten
      <3>6. QED
        BY <1>1, <2>1, <3>4, <3>5
    <2>3. QED
      BY <1>6, <2>2, RespondIs
  <1>7. ASSUME NEW t \in Turns, Say(t) PROVE Order'
    <2>1. on[t] \in Procs /\ t \in Begun /\ UNCHANGED <<cur, q, ev, told>>
      BY <1>7, SayIs DEF Say
    <2>2. said[t] = 0 => \A s \in Begun : said[s] >= 1 => s < t
      BY <1>7, <2>1, SaidBefore DEF Say
    <2>3. ASSUME NEW m, Wrote(on[t], m), m.k = "started" => m.t = t /\ said[t] = 0 PROVE Order'
      <3>1. \A n : Noted(n) /\ IsNote(n) => n.t \in Begun /\ said[n.t] >= 1
        BY DEF Noted, NoteIs
      <3>2. Behind(m)
        BY <2>2, <2>3, <3>1, AllNoted DEF Behind
      <3>3. \A s \in Begun : said[s] >= 1 => ~Starts(m, s)
        BY <2>1, <2>2, <2>3, RuntimeAssumption DEF Starts, Begun, Turns
      <3>4. m.k = "started" => m.t \in Turns
        BY <2>3
      <3>5. QueueOrder' /\ PipeOrder' /\ QueueFirst'
        BY <2>1, <2>3, <3>2, <3>4, OrderWritten DEF Order
      <3>6. \A s \in Begun : said[s] >= 1 /\ NoStart(s) => NoStart(s)'
        BY <2>1, <2>3, <3>3, NoStartWritten
      <3>7. \A s \in told : s \in Begun /\ said[s] >= 1
        BY DEF Known
      <3>8. ev.k \in {"started", "completed"} => ev.t \in Begun /\ said[ev.t] >= 1
        BY DEF Known, NoEvent
      <3>9. QED
        BY <2>1, <3>5, <3>6, <3>7, <3>8, OrderKept DEF Order
    <2>4. CASE SayStarted(t) /\ Wrote(on[t], Note("started", t, on[t]))
      BY <2>3, <2>4 DEF SayStarted, Note
    <2>5. CASE SayCompleted(t) /\ Wrote(on[t], Note("completed", t, on[t]))
      BY <2>3, <2>5 DEF Note
    <2>6. CASE SayBad(t) /\ Wrote(on[t], Note("bad", t, on[t]))
      BY <2>3, <2>6 DEF Note
    <2>7. QED
      BY <1>7, <2>4, <2>5, <2>6, SayIs
  <1>8. ASSUME NEW p \in Procs, Read(p) \/ Die(p) \/ Watch(p) \/ HandleOrphan(p) PROVE Order'
    <2>1. UNCHANGED <<ev, told>>
      BY <1>8 DEF Read, Die, Watch, HandleOrphan
    <2>2. Moves
      BY <1>8, MovesIs, Zenon DEF Quiet
    <2>3. QED
      BY <1>2, <2>1, <2>2
  <1>9. ASSUME Dispatch PROVE Order'
    <2>1. Moves
      BY <1>9, MovesIs, Zenon DEF Quiet, Request, Serve
    <2>2. QueueOrder' /\ PipeOrder' /\ QueueFirst'
      BY <2>1, OrderMoves DEF Order
    <2>3. \A t : NoStart(t) => NoStart(t)'
      BY <2>1, NoStartStays
    <2>4. told' = told /\ cur' = cur /\ line' = line /\ Took /\ ev = NoEvent
      BY <1>9, TakeIs DEF Dispatch, process
    <2>5. CASE ev' = ev \/ ev'.k = "failed"
      BY <2>2, <2>3, <2>4, <2>5 DEF Order, NoEvent
    <2>6. CASE /\ IsNote(q[1]) /\ q[1].p = cur
               /\ ev' = [k |-> q[1].k, t |-> q[1].t, at |-> "apply"]
      <3>1. 1 \in 1..Len(q) /\ \A i \in 1..Len(q') : i + 1 \in 1..Len(q) /\ 1 < i + 1
               /\ q'[i] = q[i + 1]
        BY <2>4 DEF Took
      <3>2. \A i \in 1..Len(q') : Precedes(q[1], q'[i])
        BY <3>1 DEF Order, QueueOrder
      <3>3. \A p \in Procs : \A i \in 1..Len(line[p]) : Precedes(q[1], line[p][i])
        BY <3>1 DEF Order, QueueFirst
      <3>4. PICK t : t = q[1].t
        OBVIOUS
      <3>5. NoStart(t)'
        BY <2>4, <2>6, <3>2, <3>3, <3>4 DEF NoStart, Precedes, Starts
      <3>6. NoteIs(q[1])
        BY <3>1 DEF Messages
      <3>7. q[1].k = "started" => \A s \in told : s < t
        <4>1. \A s \in told : ~Starts(q[1], s)
          BY <3>1 DEF Order, NoStart
        <4>2. t \in Turns /\ told \subseteq Turns
          BY <2>6, <3>4, <3>6 DEF NoteIs, Begun, Known
        <4>3. QED
          BY <2>6, <3>4, <4>1, <4>2, RuntimeAssumption DEF Starts, Turns
      <3>8. ev'.k = q[1].k /\ ev'.t = t
        BY <2>6, <3>4
      <3>9. \A s \in told' : NoStart(s)'
        BY <2>3, <2>4 DEF Order
      <3>10. QED
        BY <2>2, <2>4, <3>5, <3>7, <3>8, <3>9 DEF Order, NoStart, Starts
    <2>7. QED
      BY <1>9, <2>4, <2>5, <2>6 DEF Dispatch, FailTracked, Observe, IsNote, Took
  <1>10. ASSUME Apply PROVE Order'
    <2>1. Moves
      BY <1>10, MovesIs, Zenon DEF Quiet, Request, Serve
    <2>2. QueueOrder' /\ PipeOrder' /\ QueueFirst'
      BY <2>1, OrderMoves DEF Order
    <2>3. \A t : NoStart(t) => NoStart(t)'
      BY <2>1, NoStartStays
    <2>4. CASE ev' = NoEvent /\ told' = told
      BY <2>2, <2>3, <2>4 DEF Order, NoEvent
    <2>5. CASE /\ ev' = [ev EXCEPT !.at = "mirror"]
               /\ told' = told \/ (ev.k = "completed" /\ told' = told \cup {ev.t})
      <3>1. ev'.k = ev.k /\ ev'.t = ev.t /\ ev'.at = "mirror"
        BY <2>5 DEF Functions
      <3>2. \A t \in told' : NoStart(t)'
        BY <2>3, <2>5 DEF Order
      <3>3. PICK t : t = ev'.t
        OBVIOUS
      <3>4. ev'.k \in {"started", "completed"} => NoStart(t)'
        BY <2>3, <3>1, <3>3 DEF Order
      <3>5. QED
        BY <2>2, <3>1, <3>2, <3>3, <3>4 DEF Order, NoStart, Starts
    <2>6. QED
      BY <1>10, <2>4, <2>5 DEF Apply
  <1>11. ASSUME Publish PROVE Order'
    <2>1. Moves
      BY <1>11, MovesIs, Zenon DEF Quiet, Request, Serve
    <2>2. QueueOrder' /\ PipeOrder' /\ QueueFirst'
      BY <2>1, OrderMoves DEF Order
    <2>3. \A t : NoStart(t) => NoStart(t)'
      BY <2>1, NoStartStays
    <2>4. ev' = NoEvent /\ told' = told
      BY <1>11 DEF Publish
    <2>5. QED
      BY <2>2, <2>3, <2>4 DEF Order, NoEvent
  <1>12. CASE UNCHANGED vars
    <2>1. Moves /\ UNCHANGED <<ev, told>>
      BY <1>12, SameIs DEF vars, process, Moves, QueueMoves
    <2>2. QED
      BY <1>2, <2>1
  <1>13. QED
    BY <1>3, <1>4, <1>5, <1>6, <1>7, <1>8, <1>9, <1>10, <1>11, <1>12
    DEF Next

-----------------------------------------------------------------------------
(* What is known of the turns, and the answers                             *)

\* What the handlers and the dispatcher take up are turns that began.
LEMMA KnownNext ==
    /\ Functions /\ Streams /\ Processes /\ Handling /\ Runtime /\ Messages /\ Known /\ Answers
    /\ [Next]_vars
    => Known'
  <1> SUFFICES ASSUME Functions, Streams, Processes, Handling, Runtime, Messages, Known, Answers,
                      [Next]_vars
               PROVE  Known'
    OBVIOUS
  <1>1. /\ Begun \subseteq Begun' /\ \A t \in Begun : said'[t] \in 0..2 /\ said'[t] >= said[t]
        /\ \A t \in Begun : said[t] \in 0..2
    BY GrownNext DEF Grown, Runtime, Begun
  <1>2. ASSUME NEW h \in Handlers, Request(h) PROVE Known'
    <2>1. UNCHANGED <<active, tracked, ev, told>> /\ terminal' \in {terminal, None}
      BY <1>2 DEF Request, BeginStart, BeginSteer, BeginInterrupt, BeginRefresh, BeginFork, turnMu
    <2>2. QED
      BY <1>1, <2>1 DEF Known, NoEvent
  <1>3. ASSUME NEW h \in Handlers, StartThread(h) \/ Call(h) \/ Lost(h) \/ Mirror(h) PROVE Known'
    <2>1. UNCHANGED <<active, terminal, tracked, ev, told>>
      BY <1>3 DEF StartThread, Call, Lost, Mirror, Finish, turnMu, rs
    <2>2. QED
      BY <1>1, <2>1 DEF Known, NoEvent
  <1>4. ASSUME NEW h \in Handlers, Track(h) PROVE Known'
    <2>1. UNCHANGED <<active, terminal, ev, told>>
      BY <1>4 DEF Track, rs
    <2>2. pc[h] \in Replied
      BY <1>4 DEF Track, Replied
    <2>3. AnswerIs(h, got[h])
      BY <2>2, Zenon DEF Answers, Holds
    <2>4. tracked'.t = tracked.t \/ (tracked'.t = got[h].t /\ got[h].t # None /\ got[h].ok
             /\ op[h] \in {"start", "refresh"})
      BY <1>4 DEF Track, TrackTurn, turnMu
    <2>5. tracked'.t \in Begun \cup {None}
      BY <2>3, <2>4 DEF AnswerIs, StartIs, ReadIs, Known
    <2>6. QED
      BY <1>1, <2>1, <2>5 DEF Known, NoEvent
  <1>5. ASSUME NEW h \in Handlers, Settle(h) PROVE Known'
    <2>1. UNCHANGED <<tracked, ev, told>> /\ terminal' \in {terminal, None}
      BY <1>5 DEF Settle, SettleStart, SettleRefresh, SettleOther, Finish, turnMu
    <2>2. pc[h] \in Replied
      BY <1>5 DEF Settle, Replied
    <2>3. AnswerIs(h, got[h])
      BY <2>2, Zenon DEF Answers, Holds
    <2>4. \/ active' \in {active, None}
          \/ active' = got[h].t /\ got[h].ok /\ op[h] \in {"start", "refresh"}
      BY <1>5 DEF Settle, SettleStart, SettleRefresh, SettleOther, Finish
    <2>5. active' \in Begun \cup {None}
      BY <2>3, <2>4 DEF AnswerIs, StartIs, ReadIs, Known
    <2>6. QED
      BY <1>1, <2>1, <2>5 DEF Known, NoEvent
  <1>6. ASSUME NEW h \in Handlers, Handle(h) \/ Respond(h) PROVE Known'
    <2>1. UNCHANGED <<active, terminal, tracked, ev, told>>
      BY <1>6 DEF Handle, Respond, turnMu, rs
    <2>2. QED
      BY <1>1, <2>1 DEF Known, NoEvent
  <1>7. ASSUME NEW t \in Turns, Say(t) PROVE Known'
    <2>1. UNCHANGED <<active, terminal, tracked, ev, told>>
      BY <1>7 DEF Say, turnMu, rs
    <2>2. QED
      BY <1>1, <2>1 DEF Known, NoEvent
  <1>8. ASSUME NEW p \in Procs, Read(p) \/ Die(p) \/ Watch(p) \/ HandleOrphan(p) PROVE Known'
    <2>1. UNCHANGED <<active, terminal, tracked, ev, told>>
      BY <1>8 DEF Read, Die, Watch, HandleOrphan, turnMu, rs
    <2>2. QED
      BY <1>1, <2>1 DEF Known, NoEvent
  <1>9. ASSUME Dispatch PROVE Known'
    <2>1. UNCHANGED <<active, terminal, told>> /\ Took /\ Head(q) = q[1] /\ ev = NoEvent
      BY <1>9, TakeIs DEF Dispatch, rs, Took
    <2>2. NoteIs(q[1])
      BY <2>1 DEF Took, Messages
    <2>3. CASE UNCHANGED <<tracked, ev>>
      BY <1>1, <2>1, <2>3 DEF Known, NoEvent
    <2>4. CASE tracked' = NoTrack /\ tracked.t # None
             /\ ev' = [k |-> "failed", t |-> tracked.t, at |-> "apply"]
      BY <1>1, <2>1, <2>4 DEF Known, NoTrack
    <2>5. CASE /\ IsNote(q[1]) /\ tracked'.t \in {tracked.t, q[1].t, None}
               /\ ev' = [k |-> q[1].k, t |-> q[1].t, at |-> "apply"]
      <3>1. q[1].t \in Begun /\ said[q[1].t] >= 1 /\ (q[1].k = "completed" => said[q[1].t] = 2)
        BY <2>2, <2>5 DEF NoteIs
      <3>2. ev'.k = q[1].k /\ ev'.t = q[1].t
        BY <2>5
      <3>3. QED
        BY <1>1, <2>1, <2>5, <3>1, <3>2 DEF Known, IsNote
    <2>6. QED
      BY <1>9, <2>1, <2>3, <2>4, <2>5 DEF Dispatch, FailTracked, Observe, IsNote, NoTrack, turnMu
  <1>10. ASSUME Apply PROVE Known'
    <2>1. tracked' = tracked
      BY <1>10 DEF Apply, turnMu
    <2>2. CASE UNCHANGED <<active, terminal, told>> /\ ev' = NoEvent
      BY <1>1, <2>1, <2>2 DEF Known, NoEvent
    <2>3. CASE /\ active' \in {None, ev.t} /\ terminal' \in {terminal, ev.t}
               /\ told' = told \/ (ev.k = "completed" /\ told' = told \cup {ev.t})
               /\ ev' = [ev EXCEPT !.at = "mirror"]
      <3>1. ev # NoEvent
        BY <1>10 DEF Apply, NoEvent
      <3>2. ev'.k = ev.k /\ ev'.t = ev.t
        BY <2>3 DEF Functions
      <3>3. QED
        BY <1>1, <2>1, <2>3, <3>1, <3>2 DEF Known
    <2>4. QED
      BY <1>10, <2>2, <2>3 DEF Apply
  <1>11. ASSUME Publish PROVE Known'
    <2>1. UNCHANGED <<active, terminal, tracked, told>> /\ ev' = NoEvent
      BY <1>11 DEF Publish, turnMu, rs
    <2>2. QED
      BY <1>1, <2>1 DEF Known, NoEvent
  <1>12. CASE UNCHANGED vars
    BY <1>12, <1>1 DEF vars, rs, turnMu, Known, NoEvent
  <1>13. QED
    BY <1>2, <1>3, <1>4, <1>5, <1>6, <1>7, <1>8, <1>9, <1>10, <1>11, <1>12
    DEF Next, Serve

\* A response in a pipe is to a handler that waits on that process and is not served any more.
LEMMA ReplyOf ==
  ASSUME NEW h, NEW r, NEW p, NEW m, m = Reply(h, r), Carried(m, p)
  PROVE  pc[h] = "wait" /\ hp[h] = p /\ h \notin sent /\ h \in Handlers
  BY UnawaitedIs DEF Carried, ReplyIs, NoteIs, Reply

\* An answer is to a handler that has called and has the session for itself.
LEMMA HoldsAlone ==
  ASSUME Handling, Messages, NEW h \in Handlers, NEW r, Holds(h, r)
  PROVE  /\ pc[h] \in Called /\ mutating /\ ~(h \in sent /\ owe[h] = None)
         /\ \A i \in Handlers : i # h => pc[i] \notin Busy
  <1>1. pc[h] \in Called /\ ~(h \in sent /\ owe[h] = None)
    <2>1. CASE owe[h] # None
      BY <2>1 DEF Handling, Called
    <2>2. CASE pc[h] \in Replied
      BY <2>2 DEF Handling, Called, Replied
    <2>3. ASSUME NEW p \in Procs, NEW i \in 1..Len(line[p]), line[p][i] = Reply(h, r)
          PROVE  pc[h] = "wait" /\ h \notin sent
      BY <2>3, ReplyOf DEF Messages
    <2>4. QED
      BY <2>1, <2>2, <2>3 DEF Holds, Called
  <1>2. QED
    BY <1>1 DEF Handling, Called, Busy

\* A step that writes nothing makes no new answer.
LEMMA HoldsStays ==
  ASSUME Shrinks, NEW h \in Handlers, NEW r, Holds(h, r)', owe'[h] \in {owe[h], None},
         pc'[h] \in Replied => pc[h] \in Replied /\ got'[h] = got[h]
  PROVE  Holds(h, r)
  <1>1. CASE owe'[h] # None /\ r = [ok |-> TRUE, t |-> owe'[h]]
    BY <1>1 DEF Holds
  <1>2. CASE pc'[h] \in Replied /\ r = got'[h]
    BY <1>2 DEF Holds
  <1>3. ASSUME NEW p \in Procs, NEW i \in 1..Len(line'[p]), line'[p][i] = Reply(h, r)
        PROVE  Holds(h, r)
    <2>1. PICK d \in {0, 1} : Shrunk(p, d)
      BY DEF Shrinks
    <2>2. i + d \in 1..Len(line[p]) /\ line[p][i + d] = Reply(h, r)
      BY <1>3, <2>1, UnawaitedIs, PipeFrom DEF Reply
    <2>3. QED
      BY <2>2, Zenon DEF Holds
  <1>4. QED
    BY <1>1, <1>2, <1>3 DEF Holds, Replied, Reply

\* An answer is new only if it is what was written.
LEMMA HoldsWritten ==
  ASSUME NEW p \in Procs, NEW m, Wrote(p, m), NEW h \in Handlers, NEW r, Holds(h, r)',
         owe'[h] \in {owe[h], None}, UNCHANGED <<pc, got>>
  PROVE  Holds(h, r) \/ m = Reply(h, r)
  <1>1. CASE owe'[h] # None /\ r = [ok |-> TRUE, t |-> owe'[h]]
    BY <1>1 DEF Holds
  <1>2. CASE pc'[h] \in Replied /\ r = got'[h]
    BY <1>2 DEF Holds
  <1>3. ASSUME NEW s \in Procs, NEW i \in 1..Len(line'[s]), line'[s][i] = Reply(h, r), m # Reply(h, r)
        PROVE  Holds(h, r)
    <2>1. i \in 1..Len(line[s]) /\ line[s][i] = Reply(h, r)
      BY <1>3, WrittenFrom
    <2>2. QED
      BY <2>1, Zenon DEF Holds
  <1>4. QED
    BY <1>1, <1>2, <1>3 DEF Holds, Replied, Reply

\* What the answers say stays true while no turn begins and nothing happens to this one.
LEMMA StartStays ==
  ASSUME NEW t, StartIs(t), Runtime, Grown, Begun' = Begun, orphan' \subseteq orphan,
         UNCHANGED <<told, active, terminal>>,
         active = t \/ terminal = t =>
            NoStart(t)' /\ ~(ev'.k = "started" /\ ev'.at = "apply" /\ ev'.t = t)
  PROVE  StartIs(t)'
  <1>1. t \in Begun' /\ (\A s \in Begun' : s <= t) /\ orphan' = {}
    BY DEF StartIs
  <1>2. active = t \/ terminal = t => said'[t] >= 1
    BY <1>1 DEF StartIs, Runtime, Begun, Grown
  <1>3. QED
    BY <1>1, <1>2 DEF StartIs

\* A snapshot stays true while no turn begins and, unless the revision moves, none is reported.
LEMMA ReadStays ==
  ASSUME NEW t, ReadIs(t), Begun' = Begun, orphan' \subseteq orphan, Running' \subseteq Running,
         ~touched' => ~touched /\ told' = told
  PROVE  ReadIs(t)'
  BY DEF ReadIs


\* What an answer says of its turn stays true until the handler has settled it, because the
\* handler has the session for itself: no other turn begins, and whatever the dispatcher reports
\* meanwhile is left in terminal, active and the revision.
LEMMA AnswersNext ==
    /\ Functions /\ Streams /\ Processes /\ Handling /\ Runtime /\ Messages /\ Known /\ Order
       /\ Answers
    /\ Handling' /\ Messages' /\ [Next]_vars
    => Answers'
  <1> SUFFICES ASSUME Functions, Streams, Processes, Handling, Runtime, Messages, Known, Order, Answers,
                      Handling', Messages', [Next]_vars
               PROVE  Answers'
    OBVIOUS
  <1> SUFFICES ASSUME NEW h \in Handlers, NEW r, Holds(h, r)' PROVE AnswerIs(h, r)'
    BY Zenon DEF Answers
  <1> CurStays /\ Grown
    BY CurNext, GrownNext
  <1>1. pc'[h] \in Called
    <2>1. CASE owe'[h] # None
      BY <2>1 DEF Handling, Called
    <2>2. CASE pc'[h] \in Replied
      BY <2>2 DEF Called, Replied
    <2>3. ASSUME NEW p \in Procs, NEW i \in 1..Len(line'[p]), line'[p][i] = Reply(h, r)
          PROVE  pc'[h] = "wait"
      <3>1. Carried(line[p][i], p)'
        BY DEF Messages
      <3>2. QED
        BY <2>3, <3>1, UnawaitedIs DEF Carried, ReplyIs, NoteIs, Reply
    <2>4. QED
      BY <2>1, <2>2, <2>3 DEF Holds, Called, Replied, Reply
  <1>2. ASSUME Holds(h, r), op'[h] = op[h], StartIs(r.t) => StartIs(r.t)',
               op[h] = "refresh" /\ ReadIs(r.t) => ReadIs(r.t)'
        PROVE  AnswerIs(h, r)'
    <2>1. AnswerIs(h, r)
      BY <1>2, Zenon DEF Answers
    <2>2. QED
      BY <1>2, <2>1 DEF AnswerIs
  <1>3. ASSUME Holds(h, r), op'[h] = op[h], Begun' = Begun, Running' \subseteq Running,
               orphan' \subseteq orphan, UNCHANGED <<told, active, terminal, ev, touched>>,
               \A t : NoStart(t) => NoStart(t)'
        PROVE  AnswerIs(h, r)'
    <2>1. StartIs(r.t) => StartIs(r.t)'
      BY <1>3, StartStays DEF StartIs
    <2>2. ReadIs(r.t) => ReadIs(r.t)'
      BY <1>3, ReadStays
    <2>3. QED
      BY <1>2, <1>3, <2>1, <2>2
  <1>4. ASSUME Holds(h, r), op'[h] = op[h], UNCHANGED <<up, orphan, told, active, terminal, ev, touched>>,
               \A t : NoStart(t) => NoStart(t)'
        PROVE  AnswerIs(h, r)'
    BY <1>3, <1>4 DEF Begun, Running
  <1>5. ASSUME NEW i \in Handlers, Request(i) PROVE AnswerIs(h, r)'
    <2>1. ~mutating /\ UNCHANGED <<line, owe>> /\ pc'[i] \notin Called
      BY <1>5 DEF Request, BeginStart, BeginSteer, BeginInterrupt, BeginRefresh, BeginFork, Goes,
          child, process, Functions, Called
    <2>2. h # i => pc'[h] = pc[h] /\ got'[h] = got[h]
      BY <1>5 DEF Request, BeginStart, BeginSteer, BeginInterrupt, BeginRefresh, BeginFork, Goes,
          Functions
    <2>3. Holds(h, r)
      BY <1>1, <2>1, <2>2, SameIs, HoldsStays
    <2>4. QED
      BY <2>1, <2>3, HoldsAlone
  <1>6. ASSUME NEW i \in Handlers, StartThread(i) \/ Call(i) PROVE AnswerIs(h, r)'
    <2>1. UNCHANGED <<line, owe>> /\ pc[i] \in {"thread", "call"} /\ pc'[i] \notin Replied
      BY <1>6 DEF StartThread, Call, Done, child, process, Functions, Replied
    <2>2. h # i => pc'[h] = pc[h] /\ got'[h] = got[h]
      BY <1>6 DEF StartThread, Call, Done, Functions
    <2>3. Holds(h, r)
      BY <2>1, <2>2, SameIs, HoldsStays
    <2>4. QED
      BY <2>1, <2>3, HoldsAlone DEF Called, Busy
  <1>7. ASSUME NEW i \in Handlers, Lost(i) \/ Settle(i) PROVE AnswerIs(h, r)'
    <2>1. pc[i] \in Busy /\ pc'[i] \notin Called /\ Shrinks
      <3>1. CASE Lost(i)
        BY <3>1, LostIs DEF Lost, Done, Functions, Called, Busy
      <3>2. CASE Settle(i)
        BY <3>2, SameIs
        DEF Settle, SettleStart, SettleRefresh, SettleOther, Done, process, Functions,
            Called, Busy
      <3>3. QED
        BY <1>7, <3>1, <3>2
    <2>2. h # i => pc'[h] = pc[h] /\ got'[h] = got[h] /\ owe'[h] = owe[h]
      BY <1>7 DEF Lost, Settle, SettleStart, SettleRefresh, SettleOther, Done, child, Functions
    <2>3. h # i /\ Holds(h, r)
      BY <1>1, <2>1, <2>2, HoldsStays
    <2>4. QED
      BY <2>1, <2>3, HoldsAlone
  <1>8. ASSUME NEW i \in Handlers, Track(i) \/ Mirror(i) PROVE AnswerIs(h, r)'
    <2>1. Shrinks /\ Moves /\ UNCHANGED <<up, orphan, owe, told, active, terminal, ev, touched>>
      BY <1>8, MovesIs DEF Track, Mirror, child, rs, Quiet, Serve, Moves
    <2>2. /\ pc'[h] \in Replied => pc[h] \in Replied /\ got'[h] = got[h]
          /\ pc'[h] \in Called => op'[h] = op[h]
      BY <1>8 DEF Track, Mirror, Done, Functions, Replied, Called
    <2>3. Holds(h, r)
      BY <2>1, <2>2, HoldsStays
    <2>4. QED
      BY <1>1, <1>4, <2>1, <2>2, <2>3, NoStartStays
  <1>9. ASSUME NEW i \in Handlers, Handle(i) PROVE AnswerIs(h, r)'
    <2>1. /\ hp[i] \in Procs /\ i \in sent /\ owe[i] = None /\ pc[i] = "wait"
          /\ UNCHANGED <<pc, op, got, told, active, terminal, ev, touched, cur, orphan>>
      BY <1>9, HandleIs DEF Handle, Handling, handler, rs
    <2>2. ~Holds(h, r)
      BY <2>1, HoldsAlone DEF Busy
    <2>3. orphan = {}
      BY <1>9, HandleIs DEF Handle, Processes
    <2>4. CASE BeginTurn(i)
      <3>1. PICK t \in Turns : Accept(hp[i], t) /\ owe' = [owe EXCEPT ![i] = t] /\ line' = line
               /\ op[i] = "start"
        BY <2>4 DEF BeginTurn
      <3>2. h = i /\ owe'[h] = t
        BY <2>1, <2>2, <3>1, SameIs, HoldsStays DEF Functions
      <3>3. r = [ok |-> TRUE, t |-> t]
        <4>1. CASE r = [ok |-> TRUE, t |-> owe'[h]]
          BY <3>2, <4>1
        <4>2. CASE \E p \in Procs : \E j \in 1..Len(line[p]) : line[p][j] = Reply(h, r)
          BY <2>2, <4>2, Zenon DEF Holds
        <4>3. QED
          BY <2>1, <3>1, <3>2, <4>1, <4>2 DEF Holds, Replied, Reply
      <3>4. /\ t \notin Begun /\ Begun' = Begun \cup {t} /\ \A s \in Begun : s < t
        BY <1>9, <3>1, AcceptIs, HandleIs DEF Handle
      <3>5. t \notin told /\ active # t /\ terminal # t
        BY <3>4, RuntimeAssumption DEF Known, Turns, None
      <3>6. \A s \in Begun' : s <= t
        BY <3>4, RuntimeAssumption DEF Begun, Turns
      <3>7. StartIs(t)'
        BY <2>1, <2>3, <3>4, <3>5, <3>6 DEF StartIs
      <3>8. r.ok /\ r.t = t /\ op'[h] = "start"
        BY <2>1, <3>1, <3>2, <3>3
      <3>9. QED
        BY <3>7, <3>8 DEF AnswerIs
    <2>5. ASSUME NEW a, Wrote(hp[i], Reply(i, a)), UNCHANGED <<up, on, owe>> PROVE h = i /\ r = a
      <3>1. PICK m : m = Reply(i, a)
        OBVIOUS
      <3>2. m = Reply(h, r)
        BY <2>1, <2>2, <2>5, <3>1, HoldsWritten
      <3>3. QED
        BY <3>1, <3>2 DEF Reply
    <2>6. CASE Reject(i)
      <3>1. Wrote(hp[i], Reply(i, NoReply)) /\ UNCHANGED <<up, on, owe>>
        BY <2>1, <2>6, WriteIs DEF Reject
      <3>2. QED
        BY <2>5, <3>1 DEF AnswerIs, NoReply
    <2>7. CASE Acknowledge(i)
      <3>1. /\ Wrote(hp[i], Reply(i, [ok |-> TRUE, t |-> None])) /\ UNCHANGED <<up, on, owe>>
            /\ op[i] \notin {"start", "refresh"}
        BY <2>1, <2>7, WriteIs DEF Acknowledge
      <3>2. QED
        BY <2>1, <2>5, <3>1 DEF AnswerIs
    <2>8. CASE Snapshot(i)
      <3>1. PICK t \in IF Running = {} THEN {None} ELSE Running :
                Write(hp[i], Reply(i, [ok |-> TRUE, t |-> t]))
        BY <2>8 DEF Snapshot
      <3>2. Wrote(hp[i], Reply(i, [ok |-> TRUE, t |-> t])) /\ UNCHANGED <<up, on, owe>>
               /\ op[i] # "start"
        BY <2>1, <2>8, <3>1, WriteIs DEF Snapshot
      <3>3. h = i /\ r = [ok |-> TRUE, t |-> t]
        BY <2>5, <3>2
      <3>4. t # None => t \in Begun /\ up[t] = "running" /\ \A s \in Begun : s <= t
        BY <3>1, RuntimeAssumption DEF Running, Begun, Runtime, Turns, None
      <3>5. t # None => t \notin told
        BY <3>4 DEF Known, Runtime, Begun
      <3>6. t = None => Running = {}
        BY <3>1, RuntimeAssumption DEF Running, Turns, None
      <3>7. ReadIs(t)
        BY <2>3, <3>4, <3>5, <3>6 DEF ReadIs
      <3>8. ReadIs(t)'
        BY <2>1, <3>2, <3>7, ReadStays DEF Begun, Running
      <3>9. r.ok /\ r.t = t /\ op'[h] # "start"
        BY <2>1, <3>2, <3>3
      <3>10. QED
        BY <3>8, <3>9 DEF AnswerIs
    <2>9. QED
      BY <1>9, <2>4, <2>6, <2>7, <2>8 DEF Handle
  <1>10. ASSUME NEW i \in Handlers, Respond(i) PROVE AnswerIs(h, r)'
    <2>1. /\ hp[i] \in Procs /\ owe[i] # None /\ Wrote(hp[i], Reply(i, [ok |-> TRUE, t |-> owe[i]]))
          /\ UNCHANGED <<pc, op, got, told, active, terminal, ev, touched, cur, orphan, q, up>>
          /\ owe'[h] \in {owe[h], None}
      BY <1>10, RespondIs DEF Respond, handler, rs, Functions
    <2>2. PICK m : m = Reply(i, [ok |-> TRUE, t |-> owe[i]])
      OBVIOUS
    <2>3. Holds(h, r)
      <3>1. Holds(h, r) \/ m = Reply(h, r)
        BY <2>1, <2>2, HoldsWritten
      <3>2. m = Reply(h, r) => h = i /\ r = [ok |-> TRUE, t |-> owe[i]]
        BY <2>2 DEF Reply
      <3>3. QED
        BY <2>1, <3>1, <3>2, Zenon DEF Holds
    <2>4. m.k # "started" /\ Wrote(hp[i], m)
      BY <2>1, <2>2 DEF Reply
    <2>5. \A t : NoStart(t) => NoStart(t)'
      BY <2>1, <2>4, NoStartWritten DEF Starts
    <2>6. QED
      BY <1>4, <2>1, <2>3, <2>5
  <1>11. ASSUME NEW t \in Turns, Say(t) PROVE AnswerIs(h, r)'
    <2>1. /\ on[t] \in Procs /\ t \in Begun /\ on[t] \notin dead
          /\ UNCHANGED <<pc, op, got, told, active, terminal, ev, touched, cur, orphan, q, owe, on>>
      BY <1>11, SayIs DEF Say, handler, rs
    <2>2. /\ Begun' = Begun /\ Running' \subseteq Running
      BY <1>11 DEF Say, SayStarted, SayCompleted, SayBad, Begun, Running, Functions
    <2>3. PICK m : Wrote(on[t], m) /\ m.k # "reply" /\ (m.k = "started" => m.t = t /\ said[t] = 0)
      <3>1. CASE SayStarted(t) /\ Wrote(on[t], Note("started", t, on[t]))
        BY <3>1 DEF SayStarted, Note
      <3>2. CASE Wrote(on[t], Note("completed", t, on[t]))
        BY <3>2 DEF Note
      <3>3. CASE Wrote(on[t], Note("bad", t, on[t]))
        BY <3>3 DEF Note
      <3>4. QED
        BY <1>11, <3>1, <3>2, <3>3, SayIs
    <2>4. Holds(h, r)
      BY <2>1, <2>3, HoldsWritten DEF Reply
    <2>5. ASSUME StartIs(r.t) PROVE StartIs(r.t)'
      <3>1. ASSUME active = r.t \/ terminal = r.t PROVE NoStart(r.t)'
        <4>1. r.t \in Begun /\ said[r.t] >= 1 /\ NoStart(r.t)
          BY <2>5, <3>1 DEF StartIs
        <4>2. m.k = "started" => r.t < t
          BY <2>1, <2>3, <4>1, SaidBefore
        <4>3. ~Starts(m, r.t)
          BY <2>1, <2>3, <4>1, <4>2, RuntimeAssumption DEF Starts, Begun, Turns
        <4>4. QED
          BY <2>1, <2>3, <4>1, <4>3, NoStartWritten
      <3>2. QED
        BY <2>1, <2>2, <2>5, <3>1, StartStays DEF StartIs
    <2>6. ReadIs(r.t) => ReadIs(r.t)'
      BY <2>1, <2>2, ReadStays
    <2>7. QED
      BY <1>2, <2>1, <2>4, <2>5, <2>6
  <1>12. ASSUME NEW p \in Procs, Read(p) PROVE AnswerIs(h, r)'
    <2>1. /\ Moves /\ UNCHANGED <<up, orphan, owe, told, active, terminal, ev, touched, op>>
      BY <1>12, MovesIs DEF Read, child, rs, Quiet
    <2>2. Holds(h, r)
      <3>1. CASE UNCHANGED <<pc, got>>
        BY <2>1, <3>1, HoldsStays DEF Moves
      <3>2. CASE /\ Head(line[p]).k = "reply" /\ pc' = [pc EXCEPT ![Head(line[p]).h] = "answered"]
                 /\ got' = [got EXCEPT ![Head(line[p]).h] = Head(line[p]).r]
        <4>1. 1 \in 1..Len(line[p]) /\ Head(line[p]) = line[p][1]
          BY <1>12, ReadLine DEF Shrunk
        <4>2. /\ line[p][1].h \in Handlers /\ line[p][1] = Reply(line[p][1].h, line[p][1].r)
          BY <3>2, <4>1, UnawaitedIs DEF Messages, Carried, ReplyIs, NoteIs
        <4>3. CASE h = line[p][1].h
          <5>1. got'[h] = line[p][1].r
            BY <3>2, <4>1, <4>3 DEF Functions
          <5>2. owe[h] = None
            <6>1. Carried(line[p][1], p)
              BY <4>1 DEF Messages
            <6>2. h \notin sent
              BY <4>2, <4>3, <6>1, ReplyOf
            <6>3. QED
              BY <6>2 DEF Handling
          <5>3. CASE r = got'[h]
            BY <4>1, <4>2, <4>3, <5>1, <5>3, Zenon DEF Holds
          <5>4. CASE r # got'[h]
            <6>1. PICK s \in Procs : \E j \in 1..Len(line'[s]) : line'[s][j] = Reply(h, r)
              BY <2>1, <5>2, <5>4 DEF Holds, Reply
            <6>2. PICK j \in 1..Len(line'[s]) : line'[s][j] = Reply(h, r)
              BY <6>1
            <6>3. PICK d \in {0, 1} : Shrunk(s, d)
              BY <2>1 DEF Moves, Shrinks
            <6>4. j + d \in 1..Len(line[s]) /\ line[s][j + d] = Reply(h, r)
              BY <6>2, <6>3, UnawaitedIs, PipeFrom DEF Reply
            <6>5. QED
              BY <6>4, Zenon DEF Holds
          <5>5. QED
            BY <5>3, <5>4
        <4>4. CASE h # line[p][1].h
          <5>1. pc'[h] = pc[h] /\ got'[h] = got[h]
            BY <3>2, <4>1, <4>4 DEF Functions
          <5>2. QED
            BY <2>1, <5>1, HoldsStays DEF Moves
        <4>5. QED
          BY <4>3, <4>4
      <3>3. QED
        BY <1>12, <3>1, <3>2 DEF Read
    <2>3. QED
      BY <1>4, <2>1, <2>2, NoStartStays
  <1>13. ASSUME NEW p \in Procs, Die(p) \/ Watch(p) PROVE AnswerIs(h, r)'
    <2>1. /\ Moves /\ UNCHANGED <<told, active, terminal, ev, touched, op, pc, got>>
      BY <1>13, MovesIs DEF Die, Watch, handler, rs, Quiet
    <2>2. orphan' \subseteq orphan /\ owe'[h] \in {owe[h], None}
      BY <1>13 DEF Die, Watch, child
    <2>3. Begun' = Begun /\ Running' \subseteq Running
      BY <1>13 DEF Die, Watch, child, Begun, Running
    <2>4. Holds(h, r)
      BY <2>1, <2>2, HoldsStays DEF Moves
    <2>5. QED
      BY <1>3, <2>1, <2>2, <2>3, <2>4, NoStartStays
  <1>14. ASSUME NEW p \in Procs, HandleOrphan(p) PROVE AnswerIs(h, r)'
    <2>1. p \in orphan /\ Shrinks /\ UNCHANGED <<owe, op, pc, got>>
      BY <1>14, SameIs DEF HandleOrphan, process, handler
    <2>2. Holds(h, r)
      BY <2>1, HoldsStays
    <2>3. QED
      BY <1>2, <2>1, <2>2 DEF StartIs, ReadIs
  <1>15. ASSUME Dispatch PROVE AnswerIs(h, r)'
    <2>1. /\ Moves /\ UNCHANGED <<up, orphan, owe, told, active, terminal, touched, op, pc, got>>
      BY <1>15, MovesIs DEF Dispatch, child, rs, handler, Quiet
    <2>2. Holds(h, r)
      BY <2>1, HoldsStays DEF Moves
    <2>3. Begun' = Begun /\ Running' = Running
      BY <2>1 DEF Begun, Running
    <2>4. ASSUME StartIs(r.t) PROVE StartIs(r.t)'
      <3>1. ASSUME active = r.t \/ terminal = r.t
            PROVE  NoStart(r.t)' /\ ~(ev'.k = "started" /\ ev'.at = "apply" /\ ev'.t = r.t)
        <4>1. NoStart(r.t) /\ ev = NoEvent /\ r.t \in Turns
          BY <1>15, <2>4, <3>1 DEF StartIs, Dispatch, Begun
        <4>2. Head(q) = q[1] /\ 1 \in 1..Len(q)
          BY <1>15, TakeIs DEF Dispatch, Took
        <4>3. ~Starts(q[1], r.t)
          BY <4>1, <4>2 DEF NoStart
        <4>4. \/ ev'.k # "started"
              \/ q[1].k = "started" /\ q[1].p = cur
                 /\ ev' = [k |-> q[1].k, t |-> q[1].t, at |-> "apply"]
          BY <1>15, <4>1, <4>2 DEF Dispatch, FailTracked, Observe, NoEvent
        <4>5. ~(ev'.k = "started" /\ ev'.t = r.t)
          BY <4>1, <4>3, <4>4, RuntimeAssumption DEF Starts, Turns
        <4>6. QED
          BY <2>1, <4>1, <4>5, NoStartStays
      <3>2. QED
        BY <2>1, <2>3, <2>4, <3>1, StartStays
    <2>5. ReadIs(r.t) => ReadIs(r.t)'
      BY <2>1, <2>3, ReadStays
    <2>6. QED
      BY <1>2, <2>1, <2>2, <2>4, <2>5
  <1>16. ASSUME Apply PROVE AnswerIs(h, r)'
    <2>1. /\ Moves /\ ev.at = "apply" /\ UNCHANGED <<up, said, orphan, owe, op, pc, got>>
      BY <1>16, MovesIs DEF Apply, child, handler, Quiet
    <2>2. Holds(h, r)
      BY <2>1, HoldsStays DEF Moves
    <2>3. Begun' = Begun /\ Running' = Running
      BY <2>1 DEF Begun, Running
    <2>4. ev # NoEvent /\ ev.t \in Begun /\ None \notin Begun
      BY <2>1, RuntimeAssumption DEF Known, NoEvent, Begun, Turns, None
    <2>5. ASSUME StartIs(r.t) PROVE StartIs(r.t)'
      <3>1. CASE ev' = NoEvent /\ UNCHANGED <<active, terminal, told>>
        <4>1. NoStart(r.t) => NoStart(r.t)'
          BY <2>1, NoStartStays
        <4>2. QED
          BY <2>1, <2>3, <2>5, <3>1, <4>1, StartStays DEF StartIs, NoEvent
      <3>2. CASE /\ ev.k = "started" /\ active \in {None, ev.t} /\ ev' = [ev EXCEPT !.at = "mirror"]
                 /\ active' = ev.t /\ UNCHANGED <<terminal, told>>
        <4>1. ev'.at = "mirror"
          BY <3>2 DEF Functions
        <4>2. NoStart(ev.t) /\ said[ev.t] >= 1 /\ \A s \in told : s < ev.t
          BY <2>1, <3>2 DEF Order, Known
        <4>3. r.t \notin told
          BY <2>4, <2>5, <4>2, RuntimeAssumption DEF StartIs, Begun, Turns
        <4>4. terminal = r.t => ev.t # r.t
          BY <2>1, <2>5, <3>2 DEF StartIs
        <4>5. active' = r.t \/ terminal' = r.t => said'[r.t] >= 1 /\ NoStart(r.t)'
          BY <2>1, <2>5, <3>2, <4>2, NoStartStays DEF StartIs
        <4>6. QED
          BY <2>1, <2>3, <2>5, <3>2, <4>1, <4>3, <4>4, <4>5 DEF StartIs
      <3>3. CASE /\ active = ev.t /\ ev' = [ev EXCEPT !.at = "mirror"]
                 /\ active' = None /\ terminal' = ev.t /\ told' \in {told, told \cup {ev.t}}
        <4>1. ev'.at = "mirror"
          BY <3>3 DEF Functions
        <4>2. r.t \in told' => ev.t = r.t
          BY <2>4, <2>5, <3>3 DEF StartIs
        <4>3. ev.t = r.t => said'[r.t] >= 1 /\ NoStart(r.t)'
          BY <2>1, <2>5, <3>3, NoStartStays DEF StartIs
        <4>4. r.t # None
          BY <2>4, <2>5 DEF StartIs
        <4>5. QED
          BY <2>1, <2>3, <2>5, <3>3, <4>1, <4>2, <4>3, <4>4 DEF StartIs
      <3>4. QED
        BY <1>16, <2>4, <3>1, <3>2, <3>3 DEF Apply, Over, Known
    <2>6. ASSUME op[h] = "refresh", ReadIs(r.t) PROVE ReadIs(r.t)'
      <3>1. thread
        BY <2>6 DEF Handling
      <3>2. touched'
        BY <1>16, <2>6, <3>1 DEF Apply
      <3>3. QED
        BY <2>1, <2>3, <2>6, <3>2, ReadStays
    <2>7. QED
      BY <1>2, <2>1, <2>2, <2>5, <2>6
  <1>17. ASSUME Publish PROVE AnswerIs(h, r)'
    <2>1. /\ Moves /\ ev' = NoEvent
          /\ UNCHANGED <<up, orphan, owe, told, active, terminal, touched, op, pc, got>>
      BY <1>17, MovesIs DEF Publish, child, rs, handler, Quiet
    <2>2. Holds(h, r)
      BY <2>1, HoldsStays DEF Moves
    <2>3. Begun' = Begun /\ Running' = Running
      BY <2>1 DEF Begun, Running
    <2>4. StartIs(r.t) => StartIs(r.t)'
      <3>1. StartIs(r.t) /\ (active = r.t \/ terminal = r.t) => NoStart(r.t)'
        BY <2>1, NoStartStays DEF StartIs
      <3>2. QED
        BY <2>1, <2>3, <3>1, StartStays DEF NoEvent
    <2>5. ReadIs(r.t) => ReadIs(r.t)'
      BY <2>1, <2>3, ReadStays
    <2>6. QED
      BY <1>2, <2>1, <2>2, <2>4, <2>5
  <1>18. CASE UNCHANGED vars
    <2>1. Moves /\ UNCHANGED <<up, orphan, owe, told, active, terminal, ev, touched, op, pc, got>>
      BY <1>18, SameIs DEF vars, process, child, rs, handler, Moves, QueueMoves
    <2>2. Holds(h, r)
      BY <2>1, HoldsStays DEF Moves
    <2>3. QED
      BY <1>4, <2>1, <2>2, NoStartStays
  <1>19. QED
    BY <1>5, <1>6, <1>7, <1>8, <1>9, <1>10, <1>11, <1>12, <1>13, <1>14, <1>15, <1>16, <1>17, <1>18
    DEF Next, Serve

-----------------------------------------------------------------------------
(* The refinement                                                          *)

Marked == ambiguous \in BOOLEAN

\* ambiguous is a flag.
LEMMA MarkedNext == Marked /\ [Next]_vars => Marked'
  <1> SUFFICES ASSUME Marked, [Next]_vars PROVE Marked'
    OBVIOUS
  <1>1. ASSUME NEW h \in Handlers, Request(h) PROVE Marked'
    BY <1>1 DEF Request, BeginStart, BeginSteer, BeginInterrupt, BeginRefresh, BeginFork, Marked
  <1>2. ASSUME NEW h \in Handlers, Serve(h) PROVE Marked'
    <2>1. CASE UNCHANGED ambiguous
      BY <2>1 DEF Marked
    <2>2. CASE \E b \in BOOLEAN : ambiguous' = (ambiguous \/ b)
      BY <2>2, Zenon DEF Marked
    <2>3. CASE SettleRefresh(h)
      BY <2>3 DEF SettleRefresh, Marked
    <2>4. Mutation(h) \in BOOLEAN
      BY DEF Mutation
    <2>5. QED
      BY <1>2, <2>1, <2>2, <2>3, <2>4, Zenon
      DEF Serve, StartThread, Call, Lost, Track, Settle, SettleStart,
         SettleOther, Mirror, Finish, rs
  <1>3. ASSUME NEW h \in Handlers, Handle(h) \/ Respond(h) PROVE Marked'
    BY <1>3 DEF Handle, Respond, rs, Marked
  <1>4. ASSUME NEW t \in Turns, Say(t) PROVE Marked'
    BY <1>4 DEF Say, rs, Marked
  <1>5. ASSUME NEW p \in Procs, Read(p) \/ Die(p) \/ Watch(p) \/ HandleOrphan(p) PROVE Marked'
    BY <1>5 DEF Read, Die, Watch, HandleOrphan, rs, Marked
  <1>6. ASSUME Dispatch \/ Publish PROVE Marked'
    BY <1>6 DEF Dispatch, Publish, rs, Marked
  <1>7. ASSUME Apply PROVE Marked'
    <2>1. ambiguous' = ambiguous \/ ambiguous' = (ambiguous \/ ev.k = "failed")
      BY <1>7, Zenon DEF Apply
    <2>2. QED
      BY <2>1, Zenon DEF Marked
  <1>8. CASE UNCHANGED vars
    BY <1>8 DEF vars, rs, Marked
  <1>9. QED
    BY <1>1, <1>2, <1>3, <1>4, <1>5, <1>6, <1>7, <1>8
    DEF Next

Inv ==
    /\ Functions /\ Streams /\ Processes /\ Runtime /\ Handling /\ Known /\ Messages /\ Order
    /\ Answers /\ Marked

\* The invariant holds initially.
LEMMA InvInit == Init => Inv
  <1> SUFFICES ASSUME Init PROVE Inv
    OBVIOUS
  <1> USE RuntimeAssumption
  <1>1. Functions /\ Marked
    BY DEF Init, Functions, Marked, NoEvent
  <1>2. Processes
    BY DEF Init, Processes, None
  <1>3. Handling
    BY DEF Init, Handling, Busy, Called
  <1>4. Begun = {}
    BY DEF Init, Begun
  <1>5. Runtime
    BY <1>4 DEF Init, Runtime
  <1>6. Known
    BY DEF Init, Known, NoEvent, NoTrack
  <1>7. IsSeq(<<>>) /\ Len(<<>>) = 0
    BY DEF IsSeq
  <1>8. q = <<>> /\ Len(q) = 0 /\ \A p \in Procs : line[p] = <<>> /\ Len(line[p]) = 0
    BY <1>7 DEF Init
  <1>9. Streams
    BY <1>7, <1>8 DEF Init, Streams
  <1>10. Messages
    BY <1>8 DEF Messages
  <1>11. Order
    BY <1>8 DEF Init, Order, QueueOrder, PipeOrder, QueueFirst, NoStart, NoEvent
  <1>12. Answers
    BY <1>8 DEF Init, Answers, Holds, Replied, None
  <1>13. QED
    BY <1>1, <1>2, <1>3, <1>5, <1>6, <1>9, <1>10, <1>11, <1>12 DEF Inv

\* The invariant is inductive.
LEMMA InvNext == Inv /\ [Next]_vars => Inv'
  BY FunctionsNext, StreamsNext, ProcessesNext, RuntimeNext, HandlingNext, KnownNext, MessagesNext,
     OrderNext, AnswersNext, MarkedNext, Zenon DEF Inv

\* A step of TurnLifecycle, or none.
LStep == [L!Next]_(L!vars)

\* Every step is a step of TurnLifecycle or leaves its variables alone.
LEMMA StepIs ==
  ASSUME Inv, [Next]_vars
  PROVE  LStep
  <1> USE DEF Inv
  <1>1. ASSUME UNCHANGED <<up, active, told, ambiguous>> PROVE LStep
    BY <1>1 DEF LStep, L!vars
  <1>2. ASSUME UNCHANGED <<up, active, told>>, ambiguous' \in BOOLEAN PROVE LStep
    BY <1>2 DEF LStep, L!Next, L!Mark
  <1>3. ASSUME NEW t \in Turns, UNCHANGED <<active, told, ambiguous>>,
               \/ up[t] = "none" /\ up' = [up EXCEPT ![t] = "running"]
               \/ up[t] = "running" /\ up' = [up EXCEPT ![t] = "over"]
        PROVE  LStep
    BY <1>3 DEF LStep, L!Next, L!Progress
  <1>4. ASSUME NEW h \in Handlers, Request(h) PROVE LStep
    <2>1. UNCHANGED <<up, active, told, ambiguous>>
      BY <1>4 DEF Request, BeginStart, BeginSteer, BeginInterrupt, BeginRefresh, BeginFork, child
    <2>2. QED
      BY <1>1, <2>1
  <1>5. ASSUME NEW h \in Handlers, StartThread(h) \/ Call(h) \/ Lost(h) PROVE LStep
    <2>1. UNCHANGED <<up, active, told>>
      BY <1>5 DEF StartThread, Call, Lost, Finish, child, rs
    <2>2. ambiguous' \in BOOLEAN
      BY <1>5, MarkedNext DEF Marked, Next, Serve
    <2>3. QED
      BY <1>2, <2>1, <2>2
  <1>6. ASSUME NEW h \in Handlers, Track(h) \/ Mirror(h) PROVE LStep
    <2>1. UNCHANGED <<up, active, told, ambiguous>>
      BY <1>6 DEF Track, Mirror, child, rs
    <2>2. QED
      BY <1>1, <2>1
  <1>7. ASSUME NEW h \in Handlers, Settle(h) PROVE LStep
    <2>1. UNCHANGED <<up, told>> /\ pc[h] \in Replied
      BY <1>7 DEF Settle, child, Replied
    <2>2. ambiguous' \in BOOLEAN
      BY <1>7, MarkedNext DEF Marked, Next, Serve
    <2>3. AnswerIs(h, got[h])
      BY <2>1, Zenon DEF Answers, Holds
    <2>4. ASSUME NEW t \in Begun, \A s \in Begun : s <= t, t \notin told, active' = t PROVE LStep
      <3>1. active \notin {None, t} => up[active] = "over"
        BY <2>4, RuntimeAssumption DEF Known, Runtime, Begun, Turns
      <3>2. up[t] # "none" /\ t \in Turns
        BY DEF Begun
      <3>3. CASE active = t
        BY <1>2, <2>1, <2>2, <2>4, <3>3
      <3>4. CASE active # t
        BY <2>1, <2>2, <2>4, <3>1, <3>2, <3>4 DEF LStep, L!Next, L!Adopt, L!Replace
      <3>5. QED
        BY <3>3, <3>4
    <2>5. ASSUME active' = None, active # None => up[active] = "over" PROVE LStep
      <3>1. CASE active = None
        BY <1>2, <2>1, <2>2, <2>5, <3>1
      <3>2. CASE active # None
        BY <2>1, <2>2, <2>5, <3>2 DEF LStep, L!Next, L!Release
      <3>3. QED
        BY <3>1, <3>2
    <2>6. CASE SettleStart(h)
      <3>1. StartIs(got[h].t)
        BY <2>3, <2>6 DEF SettleStart, AnswerIs
      <3>2. CASE terminal = got[h].t
        <4>1. active # None => up[active] = "over"
          BY <3>1, <3>2, RuntimeAssumption DEF StartIs, Known, Runtime, Begun, Turns
        <4>2. QED
          BY <2>5, <2>6, <3>2, <4>1 DEF SettleStart
      <3>3. CASE terminal # got[h].t
        BY <2>4, <2>6, <3>1, <3>3 DEF SettleStart, StartIs
      <3>4. QED
        BY <3>2, <3>3
    <2>7. CASE SettleRefresh(h)
      <3>1. ReadIs(got[h].t)
        BY <2>3, <2>7 DEF SettleRefresh, AnswerIs
      <3>2. CASE touched
        BY <1>2, <2>1, <2>2, <2>7, <3>2 DEF SettleRefresh
      <3>3. CASE ~touched /\ got[h].t = None
        <4>1. active # None => up[active] = "over"
          BY <3>1, <3>3 DEF ReadIs, Running, Known, Runtime, Begun
        <4>2. QED
          BY <2>5, <2>7, <3>3, <4>1 DEF SettleRefresh
      <3>4. CASE ~touched /\ got[h].t # None
        BY <2>4, <2>7, <3>1, <3>4 DEF SettleRefresh, ReadIs
      <3>5. QED
        BY <3>2, <3>3, <3>4
    <2>8. CASE SettleOther(h)
      BY <1>2, <2>1, <2>2, <2>8 DEF SettleOther, Finish
    <2>9. QED
      BY <1>7, <2>6, <2>7, <2>8 DEF Settle
  <1>8. ASSUME NEW h \in Handlers, Handle(h) PROVE LStep
    <2>1. UNCHANGED <<active, told, ambiguous>>
      BY <1>8 DEF Handle, rs
    <2>2. CASE BeginTurn(h)
      BY <1>3, <2>1, <2>2 DEF BeginTurn, Accept
    <2>3. CASE up' = up
      BY <1>1, <2>1, <2>3
    <2>4. QED
      BY <1>8, <2>2, <2>3 DEF Handle, Reject, Acknowledge, Snapshot
  <1>9. ASSUME NEW h \in Handlers, Respond(h) PROVE LStep
    <2>1. UNCHANGED <<up, active, told, ambiguous>>
      BY <1>9 DEF Respond, rs
    <2>2. QED
      BY <1>1, <2>1
  <1>10. ASSUME NEW t \in Turns, Say(t) PROVE LStep
    <2>1. UNCHANGED <<active, told, ambiguous>>
      BY <1>10 DEF Say, rs
    <2>2. CASE SayCompleted(t)
      <3>1. up[t] = "running" /\ up' = [up EXCEPT ![t] = "over"]
        BY <1>10, <2>2 DEF Say, SayCompleted, Runtime
      <3>2. QED
        BY <1>3, <2>1, <3>1
    <2>3. CASE up' = up
      BY <1>1, <2>1, <2>3
    <2>4. QED
      BY <1>10, <2>2, <2>3 DEF Say, SayStarted, SayBad
  <1>11. ASSUME NEW p \in Procs, Read(p) \/ Watch(p) PROVE LStep
    <2>1. UNCHANGED <<up, active, told, ambiguous>>
      BY <1>11 DEF Read, Watch, child, rs
    <2>2. QED
      BY <1>1, <2>1
  <1>12. ASSUME NEW p \in Procs, Die(p) PROVE LStep
    <2>1. UNCHANGED <<active, told, ambiguous>>
      BY <1>12 DEF Die, rs
    <2>2. up' = [t \in Turns |-> IF on[t] = p /\ up[t] = "running" THEN "over" ELSE up[t]]
      BY <1>12 DEF Die
    <2>3. CASE \A t \in Turns : ~(on[t] = p /\ up[t] = "running")
      <3>1. up' = up
        BY <2>2, <2>3 DEF Functions
      <3>2. QED
        BY <1>1, <2>1, <3>1
    <2>4. ASSUME NEW t \in Turns, on[t] = p, up[t] = "running" PROVE LStep
      <3>1. \A s \in Turns : s # t => up[s] # "running"
        BY <2>4, RuntimeAssumption DEF Runtime, Begun, Turns
      <3>2. up' = [up EXCEPT ![t] = "over"]
        BY <2>2, <2>4, <3>1 DEF Functions
      <3>3. QED
        BY <1>3, <2>1, <2>4, <3>2
    <2>5. QED
      BY <2>3, <2>4
  <1>13. ASSUME NEW p \in Procs, HandleOrphan(p) PROVE LStep
    <2>1. UNCHANGED <<active, told, ambiguous>>
      BY <1>13 DEF HandleOrphan, rs
    <2>2. QED
      BY <1>13, <1>1, <1>3, <2>1 DEF HandleOrphan, Accept
  <1>14. ASSUME Dispatch \/ Publish PROVE LStep
    <2>1. UNCHANGED <<up, active, told, ambiguous>>
      BY <1>14 DEF Dispatch, Publish, child, rs
    <2>2. QED
      BY <1>1, <2>1
  <1>15. ASSUME Apply PROVE LStep
    <2>1. up' = up /\ ev # NoEvent /\ ev.t \in Begun /\ None \notin Begun
      BY <1>15, RuntimeAssumption DEF Apply, child, Known, NoEvent, Begun, Turns, None
    <2>2. ambiguous' \in BOOLEAN
      BY <1>15, MarkedNext DEF Marked, Next
    <2>3. CASE UNCHANGED <<active, told>>
      BY <1>2, <2>1, <2>2, <2>3
    <2>4. CASE ev.k = "started" /\ active \in {None, ev.t} /\ active' = ev.t /\ told' = told
      <3>1. ev.t \notin told /\ ev.t \in Turns /\ up[ev.t] # "none"
        BY <1>15, <2>1, <2>4, RuntimeAssumption DEF Apply, Order, Begun, Turns
      <3>2. CASE active = ev.t
        BY <1>2, <2>1, <2>2, <2>4, <3>2
      <3>3. CASE active = None
        BY <2>1, <2>2, <2>4, <3>1, <3>3 DEF LStep, L!Next, L!Adopt
      <3>4. QED
        BY <2>4, <3>2, <3>3
    <2>5. CASE ev.k = "completed" /\ active = ev.t /\ active' = None /\ told' = told \cup {ev.t}
      <3>1. up[ev.t] = "over"
        BY <2>1, <2>5 DEF Known, Runtime, Begun
      <3>2. QED
        BY <2>1, <2>2, <2>5, <3>1 DEF LStep, L!Next, L!Release
    <2>6. CASE ev.k = "failed" /\ active = ev.t /\ active' = None /\ told' = told /\ ambiguous'
      BY <2>1, <2>2, <2>6 DEF LStep, L!Next, L!Release
    <2>7. QED
      BY <1>15, <2>1, <2>3, <2>4, <2>5, <2>6 DEF Apply, Over, Known
  <1>16. CASE UNCHANGED vars
    BY <1>16, <1>1 DEF vars, child, rs
  <1>17. QED
    BY <1>4, <1>5, <1>6, <1>7, <1>8, <1>9, <1>10, <1>11, <1>12, <1>13, <1>14, <1>15, <1>16
    DEF Next, Serve

\* startRuntimeTurn, refreshRuntimeSession and runtimeEvent implement TurnLifecycle, whatever the
\* number of handlers, turns, processes, requests and malformed notifications, and however long
\* the pipes and the queue are: rs.active is a turn that began and was not reported completed, it
\* is let go only when the child ended it or with ambiguous set.
THEOREM RuntimeRefines == Spec => Lifecycle
  <1>1. Init => L!Init
    BY DEF Init, L!Init
  <1>2. Inv /\ [Next]_vars => [L!Next]_(L!vars)
    BY StepIs DEF LStep
  <1>3. QED
    BY <1>1, <1>2, InvInit, InvNext, PTL DEF Spec, Lifecycle, L!Spec

===============================================================================
