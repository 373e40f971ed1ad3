--------------------------- MODULE PluginHostProofs ---------------------------
(***************************************************************************)
(* Proofs about PluginHost for any names, contents, buffer, cap of the     *)
(* queue and number of messages.                                           *)
(*                                                                         *)
(* Stream follows each delta of a completion from the child to emit: those *)
(* emitted, those in the parts channel, the one the serve loop has in hand,*)
(* those queued and those on the wire are, in this order, the numbers from *)
(* one on, and the reader ended with none of them skipped.  Answers places *)
(* the answer of Complete behind them on the wire, and Barriers the barrier*)
(* of finish behind them in the queue.                                     *)
(*                                                                         *)
(* The last two sections are about the disk behind it (Stores): where the  *)
(* copies of an installed plugin are while a verb is under way and after   *)
(* it died (StoreInv), and what a boot of a workspace's own plugins has    *)
(* read and been told (TrustInv).                                          *)
(***************************************************************************)
EXTENDS PluginHost, Stores, SequenceTheorems, WellFoundedInduction, TLAPS

-----------------------------------------------------------------------------
(* The inductive invariant                                                 *)

\* What the wire and the queue carry.
Msg == ({"register"} \X Names) \cup ({"status"} \X Contents) \cup ({"delta"} \X Nat)
       \cup ({"answer"} \X Calls) \cup {Barrier}

\* The deltas of a sequence of messages, their numbers, and that these increase.
Deltas(s) == {i \in DOMAIN s : s[i][1] = "delta"}
Numbers(s) == {s[i][2] : i \in Deltas(s)}
InOrder(s) == \A i, j \in Deltas(s) : i < j => s[i][2] < s[j][2]

\* The deltas that have left the queue.
InHand == IF cur.msg[1] = "delta" THEN 1 ELSE 0
OnHand == Len(emitted) + Len(parts) + InHand

\* What the child has sent.
Sends == [msgs : Nat, deltas : Nat, owed : Nat, answers : SUBSET Calls]

\* The types, without the bounds; a reader that ended left nothing on the wire.
Typed ==
    /\ wire \in Seq(Msg) /\ q \in Seq(Msg) /\ parts \in Seq(Nat) /\ emitted \in Seq(Nat)
    /\ cur \in [msg : Msg \cup {Idle.msg}, at : {"none", "new", "stage", "write"}]
    /\ sent \in Sends
    /\ call \in [Calls -> CallStates]
    /\ comp \in {"idle", "run", "finish", "sync", "drain", "stopped", "failed"}
    /\ ~reading => wire = <<>> /\ ~open

\* Where Load and the watcher are when a plugin is live, committed or withdrawn.
Surface ==
    /\ commit => load \in {"next", "done"}
    /\ watch = "fail" \/ failed => commit
    /\ live => load \in {"loaded", "ready", "next", "done"}
    /\ FailedForGood

\* An answer reaches its call after the child sent it, and no delta follows Complete's.
Answers ==
    /\ answered \subseteq sent.answers
    /\ \A i \in DOMAIN wire : wire[i][1] = "answer" => wire[i][2] \in sent.answers
    /\ \A i, j \in DOMAIN wire :
         wire[i] = <<"answer", "complete">> /\ i < j => wire[j][1] # "delta"
    /\ load \in {"commit", "loaded", "ready"} \/ live => "init" \in sent.answers
    /\ comp # "idle" => live
    /\ comp = "idle" => call["complete"] = "idle" /\ sent.deltas = 0
    /\ "complete" \in sent.answers => sent.owed = sent.deltas /\ comp # "idle"
    /\ comp \in {"finish", "sync", "drain", "stopped"} => "complete" \in sent.answers

\* The reader gave Complete its answer.
Came == "complete" \in answered \/ comp \in {"finish", "sync", "drain"}

\* The reader took n deltas: the queue holds those of them that nobody has taken, the wire the
\* rest, and nothing is left there once the answer came.
Queued(n) ==
    /\ OnHand <= n /\ n <= sent.deltas
    /\ Numbers(q) = (OnHand + 1)..n
    /\ reading => Numbers(wire) = (n + 1)..sent.deltas
    /\ Came => n = sent.deltas

\* The deltas of a completion that has not ended, from the child to emit.
Stream ==
    comp \notin {"stopped", "failed"} =>
        /\ \A i \in DOMAIN emitted : emitted[i] = i
        /\ \A i \in DOMAIN parts : parts[i] = Len(emitted) + i
        /\ cur.msg[1] = "delta" => cur.msg[2] = OnHand
        /\ InOrder(q) /\ InOrder(wire)
        /\ \E n \in 0..sent.deltas : Queued(n)

\* The serve loop is past the deltas, or has a barrier behind them to pass.
Passing == Deltas(q) = {} /\ cur.msg[1] # "delta"
Waiting == \E b \in DOMAIN q : q[b] = Barrier /\ \A i \in Deltas(q) : i < b

\* What finish may conclude from its barrier.
Barriers ==
    /\ comp = "sync" /\ reading => Waiting \/ Passing
    /\ comp = "drain" /\ ~cut => Passing
    /\ comp = "stopped" /\ ~cut =>
         Len(emitted) = sent.deltas /\ \A i \in DOMAIN emitted : emitted[i] = i

HostInv == Typed /\ Surface /\ Answers /\ Stream /\ Barriers

-----------------------------------------------------------------------------
(* Sequences of messages                                                   *)

\* Kinds and arguments of messages.
LEMMA MsgIs ==
    /\ \A m \in Msg : m[1] = "delta" => m[2] \in Nat
    /\ Barrier \in Msg /\ Barrier[1] = "barrier" /\ Idle.msg[1] = "none"
    /\ \A c \in Calls : <<"answer", c>> \in Msg
  BY DEF Msg, Barrier, Idle

\* A message that is no delta leaves the deltas of a sequence as they are.
LEMMA AppendOther ==
    ASSUME NEW s \in Seq(Msg), NEW m \in Msg, m[1] # "delta"
    PROVE  /\ Append(s, m) \in Seq(Msg) /\ Deltas(Append(s, m)) = Deltas(s)
           /\ Numbers(Append(s, m)) = Numbers(s)
           /\ InOrder(s) => InOrder(Append(s, m))
  <1>1. /\ Append(s, m) \in Seq(Msg) /\ DOMAIN Append(s, m) = 1..Len(s) + 1
        /\ \A i \in 1..Len(s) : Append(s, m)[i] = s[i]
        /\ Append(s, m)[Len(s) + 1] = m /\ DOMAIN s = 1..Len(s) /\ Len(s) \in Nat
    BY AppendProperties
  <1>2. Deltas(Append(s, m)) = Deltas(s)
    BY <1>1 DEF Deltas
  <1>3. \A i \in Deltas(s) : Append(s, m)[i] = s[i]
    BY <1>1 DEF Deltas
  <1>4. Numbers(Append(s, m)) = Numbers(s)
    <2>1. \A x \in Numbers(Append(s, m)) : x \in Numbers(s)
      BY <1>2, <1>3 DEF Numbers
    <2>2. \A x \in Numbers(s) : x \in Numbers(Append(s, m))
      BY <1>2, <1>3 DEF Numbers
    <2>3. QED
      BY <2>1, <2>2
  <1>5. QED
    BY <1>1, <1>2, <1>3, <1>4 DEF InOrder

\* A delta after all the others adds its number.
LEMMA AppendDelta ==
    ASSUME NEW s \in Seq(Msg), NEW m \in Msg, m[1] = "delta", \A x \in Numbers(s) : x < m[2]
    PROVE  /\ Append(s, m) \in Seq(Msg)
           /\ Numbers(Append(s, m)) = Numbers(s) \cup {m[2]}
           /\ InOrder(s) => InOrder(Append(s, m))
  <1>1. /\ Append(s, m) \in Seq(Msg) /\ DOMAIN Append(s, m) = 1..Len(s) + 1
        /\ \A i \in 1..Len(s) : Append(s, m)[i] = s[i]
        /\ Append(s, m)[Len(s) + 1] = m /\ DOMAIN s = 1..Len(s) /\ Len(s) \in Nat
    BY AppendProperties
  <1>2. Deltas(Append(s, m)) = Deltas(s) \cup {Len(s) + 1}
    BY <1>1 DEF Deltas
  <1>3. \A i \in Deltas(s) : Append(s, m)[i] = s[i] /\ i < Len(s) + 1 /\ s[i][2] < m[2]
    BY <1>1 DEF Deltas, Numbers
  <1>4. Numbers(Append(s, m)) = Numbers(s) \cup {m[2]}
    <2>1. \A x \in Numbers(Append(s, m)) : x \in Numbers(s) \cup {m[2]}
      <3>1. SUFFICES ASSUME NEW i \in Deltas(Append(s, m))
                     PROVE  Append(s, m)[i][2] \in Numbers(s) \cup {m[2]}
        BY DEF Numbers
      <3>2. CASE i \in Deltas(s)
        BY <1>3, <3>2 DEF Numbers
      <3>3. CASE i = Len(s) + 1
        BY <1>1, <3>3
      <3>4. QED
        BY <1>2, <3>2, <3>3
    <2>2. \A x \in Numbers(s) : x \in Numbers(Append(s, m))
      BY <1>2, <1>3 DEF Numbers
    <2>3. m[2] \in Numbers(Append(s, m))
      BY <1>1, <1>2 DEF Numbers
    <2>4. QED
      BY <2>1, <2>2, <2>3
  <1>5. ASSUME InOrder(s) PROVE InOrder(Append(s, m))
    <2>1. Deltas(s) \subseteq 1..Len(s)
      BY <1>1 DEF Deltas
    <2>2. SUFFICES ASSUME NEW i \in Deltas(Append(s, m)), NEW j \in Deltas(Append(s, m)), i < j
                   PROVE  Append(s, m)[i][2] < Append(s, m)[j][2]
      BY DEF InOrder
    <2>3. i \in Deltas(s)
      BY <1>2, <2>1, <2>2
    <2>4. CASE j \in Deltas(s)
      BY <1>3, <1>5, <2>2, <2>3, <2>4 DEF InOrder
    <2>5. CASE j = Len(s) + 1
      BY <1>1, <1>3, <2>3, <2>5
    <2>6. QED
      BY <1>2, <2>4, <2>5
  <1>6. QED
    BY <1>1, <1>4, <1>5

\* r is what is left of s without its first f messages, none of which but the last is a delta.
Drops(s, f, r) ==
    /\ Len(r) = Len(s) - f /\ \A i \in 1..Len(r) : r[i] = s[i + f]
    /\ \A i \in 1..f - 1 : s[i][1] # "delta"

\* What dropping messages from the front leaves keeps its order and adds no number.
LEMMA DropIs ==
    ASSUME NEW s \in Seq(Msg), InOrder(s), NEW f \in 1..Len(s), NEW r \in Seq(Msg), Drops(s, f, r)
    PROVE  /\ \A i \in Deltas(s) : s[i][2] \in Nat /\ i \in 1..Len(s) /\ f <= i
           /\ \A i \in Deltas(r) : i + f \in Deltas(s) /\ r[i] = s[i + f] /\ i \in 1..Len(r)
           /\ \A i \in Deltas(s) : f < i => i - f \in Deltas(r) /\ r[i - f] = s[i]
           /\ InOrder(r) /\ Numbers(r) \subseteq Numbers(s)
  <1> USE DEF Drops
  <1>1. DOMAIN r = 1..Len(r) /\ DOMAIN s = 1..Len(s) /\ Len(s) \in Nat /\ Len(r) \in Nat
    OBVIOUS
  <1>2. \A i \in Deltas(s) : s[i][2] \in Nat /\ i \in 1..Len(s) /\ f <= i
    BY <1>1, MsgIs DEF Deltas
  <1>3. \A i \in Deltas(r) : i + f \in Deltas(s) /\ r[i] = s[i + f] /\ i \in 1..Len(r)
    BY <1>1 DEF Deltas
  <1>4. \A i \in Deltas(s) : f < i => i - f \in Deltas(r) /\ r[i - f] = s[i]
    BY <1>1, <1>2 DEF Deltas
  <1>5. InOrder(r)
    <2>1. SUFFICES ASSUME NEW i \in Deltas(r), NEW j \in Deltas(r), i < j
                   PROVE  r[i][2] < r[j][2]
      BY DEF InOrder
    <2>2. i + f \in Deltas(s) /\ j + f \in Deltas(s) /\ i + f < j + f
      BY <1>1, <1>3, <2>1
    <2>3. s[i + f][2] < s[j + f][2]
      BY <2>2 DEF InOrder
    <2>4. QED
      BY <1>3, <2>3
  <1>6. Numbers(r) \subseteq Numbers(s)
    <2>1. SUFFICES ASSUME NEW i \in Deltas(r) PROVE r[i][2] \in Numbers(s)
      BY DEF Numbers
    <2>2. r[i] = s[i + f] /\ i + f \in Deltas(s)
      BY <1>3
    <2>3. QED
      BY <2>2 DEF Numbers
  <1>7. QED
    BY <1>2, <1>3, <1>4, <1>5, <1>6

\* When no delta was dropped, all the numbers are left.
LEMMA DropOther ==
    ASSUME NEW s \in Seq(Msg), InOrder(s), NEW f \in 1..Len(s), NEW r \in Seq(Msg), Drops(s, f, r),
           s[f][1] # "delta"
    PROVE  InOrder(r) /\ Numbers(r) = Numbers(s)
  <1>1. /\ \A i \in Deltas(s) : i \in 1..Len(s) /\ f <= i
        /\ \A i \in Deltas(s) : f < i => i - f \in Deltas(r) /\ r[i - f] = s[i]
        /\ InOrder(r) /\ Numbers(r) \subseteq Numbers(s)
    BY DropIs
  <1>2. SUFFICES ASSUME NEW i \in Deltas(s) PROVE s[i][2] \in Numbers(r)
    BY <1>1 DEF Numbers
  <1>3. f < i
    <2>1. i # f
      BY DEF Deltas
    <2>2. QED
      BY <1>1, <2>1
  <1>4. i - f \in Deltas(r) /\ r[i - f] = s[i]
    BY <1>1, <1>3
  <1>5. QED
    BY <1>4 DEF Numbers

\* When the last message dropped is a delta, it was the least, and the greater ones are left.
LEMMA DropDelta ==
    ASSUME NEW s \in Seq(Msg), InOrder(s), NEW f \in 1..Len(s), NEW r \in Seq(Msg), Drops(s, f, r),
           s[f][1] = "delta"
    PROVE  /\ InOrder(r) /\ s[f][2] \in Numbers(s) /\ \A x \in Numbers(s) : s[f][2] <= x
           /\ Numbers(r) = {x \in Numbers(s) : s[f][2] < x}
  <1>1. /\ \A i \in Deltas(s) : s[i][2] \in Nat /\ i \in 1..Len(s) /\ f <= i
        /\ \A i \in Deltas(s) : f < i => i - f \in Deltas(r) /\ r[i - f] = s[i]
        /\ InOrder(r) /\ Numbers(r) \subseteq Numbers(s)
    BY DropIs
  <1>2. \A i \in Deltas(r) : i + f \in Deltas(s) /\ r[i] = s[i + f] /\ i \in 1..Len(r)
    BY DropIs
  <1>3. f \in Deltas(s) /\ s[f][2] \in Numbers(s) /\ s[f][2] \in Nat
    <2>1. f \in Deltas(s)
      BY DEF Deltas
    <2>2. QED
      BY <1>1, <2>1 DEF Numbers
  <1>4. \A i \in Deltas(s) : i = f \/ (f < i /\ s[f][2] < s[i][2])
    BY <1>1, <1>3 DEF InOrder
  <1>5. \A x \in Numbers(s) : s[f][2] <= x
    <2>1. SUFFICES ASSUME NEW i \in Deltas(s) PROVE s[f][2] <= s[i][2]
      BY DEF Numbers
    <2>2. CASE i = f
      BY <1>3, <2>2
    <2>3. CASE s[f][2] < s[i][2]
      <3>1. s[i][2] \in Nat
        BY <1>1
      <3>2. QED
        BY ONLY <1>3, <2>3, <3>1
    <2>4. QED
      BY <1>4, <2>2, <2>3
  <1>6. ASSUME NEW i \in Deltas(s), s[f][2] < s[i][2] PROVE s[i][2] \in Numbers(r)
    <2>1. i # f
      BY <1>3, <1>6
    <2>2. i - f \in Deltas(r) /\ r[i - f] = s[i]
      BY <1>1, <1>4, <2>1
    <2>3. QED
      BY <2>2 DEF Numbers
  <1>7. ASSUME NEW i \in Deltas(r) PROVE s[f][2] < r[i][2]
    <2>1. i + f \in Deltas(s) /\ r[i] = s[i + f] /\ i + f # f
      BY <1>2
    <2>2. QED
      BY <1>4, <2>1
  <1>8. Numbers(r) = {x \in Numbers(s) : s[f][2] < x}
    <2>1. \A x \in Numbers(r) : x \in Numbers(s) /\ s[f][2] < x
      BY <1>1, <1>7 DEF Numbers
    <2>2. \A x \in Numbers(s) : s[f][2] < x => x \in Numbers(r)
      BY <1>6 DEF Numbers
    <2>3. QED
      BY <2>1, <2>2
  <1>9. QED
    BY <1>1, <1>3, <1>5, <1>8

\* Taking the head off a sequence of messages.
LEMMA TailIs ==
    ASSUME NEW s \in Seq(Msg), s # <<>>
    PROVE  /\ Head(s) = s[1] /\ s[1] \in Msg /\ 1 \in DOMAIN s /\ DOMAIN s = 1..Len(s)
           /\ Tail(s) \in Seq(Msg) /\ Len(Tail(s)) = Len(s) - 1
           /\ \A i \in DOMAIN Tail(s) : i + 1 \in DOMAIN s /\ Tail(s)[i] = s[i + 1] /\ i \in Nat
           /\ InOrder(s) =>
                /\ InOrder(Tail(s))
                /\ s[1][1] # "delta" => Numbers(Tail(s)) = Numbers(s)
                /\ s[1][1] = "delta" =>
                     /\ s[1][2] \in Numbers(s) /\ \A x \in Numbers(s) : s[1][2] <= x
                     /\ Numbers(Tail(s)) = {x \in Numbers(s) : s[1][2] < x}
  <1>1. /\ Head(s) = s[1] /\ Len(s) \in Nat /\ Len(s) >= 1 /\ DOMAIN s = 1..Len(s)
        /\ s[1] \in Msg /\ Tail(s) \in Seq(Msg) /\ Len(Tail(s)) = Len(s) - 1
        /\ DOMAIN Tail(s) = 1..Len(s) - 1
        /\ \A i \in 1..Len(s) - 1 : Tail(s)[i] = s[i + 1]
    BY HeadTailProperties
  <1>2. 1 \in 1..Len(s) /\ 1..1 - 1 = {}
    BY <1>1
  <1>3. ASSUME InOrder(s)
        PROVE  /\ InOrder(Tail(s))
               /\ s[1][1] # "delta" => Numbers(Tail(s)) = Numbers(s)
               /\ s[1][1] = "delta" =>
                    /\ s[1][2] \in Numbers(s) /\ \A x \in Numbers(s) : s[1][2] <= x
                    /\ Numbers(Tail(s)) = {x \in Numbers(s) : s[1][2] < x}
    <2>1. Drops(s, 1, Tail(s))
      BY <1>1, <1>2 DEF Drops
    <2>2. CASE s[1][1] # "delta"
      BY <1>1, <1>2, <1>3, <2>1, <2>2, DropOther
    <2>3. CASE s[1][1] = "delta"
      BY <1>1, <1>2, <1>3, <2>1, <2>3, DropDelta
    <2>4. QED
      BY <2>2, <2>3
  <1>4. QED
    BY <1>1, <1>2, <1>3

-----------------------------------------------------------------------------
(* Steps that leave the stream where it is.                                *)

\* What the completion's stream is made of.
path == <<wire, q, reading, sent, comp, parts, emitted, cut>>

\* A step that touches no part of the stream, but for a message in hand that is no delta.
LEMMA StreamStays ==
    ASSUME HostInv, UNCHANGED path, answered' \subseteq answered,
           cur' = cur \/ (cur.msg[1] # "delta" /\ cur'.msg[1] # "delta")
    PROVE  Stream' /\ Barriers'
  <1>1. InHand' = InHand /\ OnHand' = OnHand /\ (Came' => Came)
    BY DEF InHand, OnHand, Came, path
  <1>2. /\ Deltas(q)' = Deltas(q) /\ Numbers(q)' = Numbers(q) /\ InOrder(q)' = InOrder(q)
        /\ Numbers(wire)' = Numbers(wire) /\ InOrder(wire)' = InOrder(wire)
    BY DEF path, Deltas, Numbers, InOrder
  <1>3. \A n : Queued(n) => Queued(n)'
    BY <1>1, <1>2 DEF Queued, path
  <1>4. Stream'
    BY <1>1, <1>2, <1>3 DEF HostInv, Stream, path
  <1>5. Waiting' = Waiting /\ (Passing => Passing')
    BY <1>2 DEF Waiting, Passing, path
  <1>6. QED
    BY <1>4, <1>5 DEF HostInv, Barriers, path

\* A step that sends nothing and makes nothing live.
LEMMA AnswersStay ==
    ASSUME HostInv, UNCHANGED <<wire, sent>>, comp' = comp, answered' \subseteq answered,
           comp # "idle" \/ call'["complete"] = call["complete"],
           load' \in {"commit", "loaded", "ready"} \/ live' =>
              load \in {"commit", "loaded", "ready"} \/ live,
           live => live'
    PROVE  Answers'
  BY DEF HostInv, Answers

\* The return of plugin.init leaves the completion's call alone.
LEMMA CallStays ==
    ASSUME HostInv, NEW how \in {"ok", "cancelled", "ended"}, CallReturns("init", how)
    PROVE  call' \in [Calls -> CallStates] /\ call'["complete"] = call["complete"]
           /\ answered' \subseteq answered /\ (how = "ok" => "init" \in answered)
  BY PluginHostAssumption DEF HostInv, Typed, CallReturns, Return, CallStates

-----------------------------------------------------------------------------
(* What is registered.                                                     *)

\* Every step keeps Surface, and under a live plugin gives it no name: what is withdrawn is
\* withdrawn in one section (Fail), and commit, which alone gives it names, is over by then.
LEMMA SurfaceNext ==
    ASSUME Surface, [Next]_vars
    PROVE  Surface' /\ (live => Owned' \subseteq Owned)
  <1> USE DEF Surface, FailedForGood
  <1>1. ASSUME UNCHANGED <<load, watch, commit, live, failed, status, tools, item>>
        PROVE  Surface' /\ (live => Owned' \subseteq Owned)
    BY <1>1 DEF Owned
  <1>2. ASSUME ReaderStep \/ ChildStep \/ Reap \/ CompleteStart \/ CompleteStep
               \/ CompleteAborts \/ Shutdown \/ StopStep \/ UNCHANGED vars
        PROVE  UNCHANGED <<load, watch, commit, live, failed, status, tools, item>>
    <2>1. CASE ReaderStep
      BY <2>1 DEF ReaderStep, registry, spawn
    <2>2. CASE ChildStep
      BY <2>2 DEF ChildStep, ChildSends, ChildStreams, ChildEnds, ChildAnswers, registry, spawn
    <2>3. CASE Reap \/ CompleteStart \/ CompleteAborts \/ Shutdown
      BY <2>3 DEF Reap, CompleteStart, CompleteAborts, Shutdown, registry, spawn
    <2>4. CASE CompleteStep
      BY <2>4 DEF CompleteStep, Emit, CompleteReturned, Sync, Synced, Stopped, registry, spawn
    <2>5. CASE StopStep
      BY <2>5 DEF StopStep, ClosePlugins, CloseEnds, registry, spawn
    <2>6. CASE UNCHANGED vars
      BY <2>6 DEF vars, registry, spawn
    <2>7. QED
      BY <1>2, <2>1, <2>2, <2>3, <2>4, <2>5, <2>6
  <1>3. CASE LoadStep
    <2>1. CASE Start
      BY <2>1 DEF Start, table, spawn, Owned
    <2>2. CASE InitReturns
      BY <2>2 DEF InitReturns, registry, Owned
    <2>3. CASE InitFails \/ Abandon
      BY <2>3 DEF InitFails, Abandon, registry, spawn, Owned
    <2>4. CASE AbandonEnds
      BY <2>4 DEF AbandonEnds, table, spawn, Owned
    <2>5. CASE Commit
      BY <2>5 DEF Commit, spawn, Owned
    <2>6. CASE Loaded
      BY <2>6 DEF Loaded, table, spawn, Owned
    <2>7. CASE Committed
      BY <2>7 DEF Committed, registry, Owned
    <2>8. CASE NextCommits
      <3>1. Owned' \subseteq Owned
        BY <2>8 DEF NextCommits, Owned
      <3>2. QED
        BY <2>8, <3>1 DEF NextCommits, spawn
    <2>9. CASE \E n \in Names : NextRegisters(n)
      BY <2>9 DEF NextRegisters, spawn, Owned
    <2>10. QED
      BY <1>3, <2>1, <2>2, <2>3, <2>4, <2>5, <2>6, <2>7, <2>8, <2>9 DEF LoadStep
  <1>4. CASE ServeStep
    <2>1. CASE setStatusItem
      BY <2>1 DEF setStatusItem, spawn, Owned
    <2>2. CASE Take \/ RefuseLate \/ DeliverDelta \/ ServeEnds
      BY <1>1, <2>2 DEF Take, RefuseLate, DeliverDelta, ServeEnds, registry, spawn
    <2>3. CASE StageRegister \/ StageItem
      BY <1>1, <2>3 DEF StageRegister, StageItem, spawn
    <2>4. QED
      BY <1>4, <2>1, <2>2, <2>3 DEF ServeStep
  <1>5. CASE WatchStep
    <2>1. CASE Fail
      <3>1. Owned' = {} /\ Owned' \subseteq Owned
        BY <2>1, PluginHostAssumption DEF Fail, Owned
      <3>2. QED
        BY <2>1, <3>1 DEF Fail, spawn
    <2>2. CASE WatchCommit
      BY <2>2 DEF WatchCommit, registry, spawn, Owned
    <2>3. CASE WatchExit \/ WatchLost \/ Terminate
      BY <2>3 DEF WatchExit, WatchLost, Terminate, exitOf, registry, spawn, Owned
    <2>4. CASE WatchCloses
      BY <2>4 DEF WatchCloses, registry, spawn, Owned
    <2>5. QED
      BY <1>5, <2>1, <2>2, <2>3, <2>4 DEF WatchStep
  <1>6. QED
    BY <1>1, <1>2, <1>3, <1>4, <1>5 DEF Next

-----------------------------------------------------------------------------
(* The reader and the child.                                               *)

\* What a step has to keep beside Surface.
Good == Typed' /\ Answers' /\ Stream' /\ Barriers'

\* The counts are numbers.
LEMMA OnHandIs ==
    ASSUME Typed
    PROVE  /\ OnHand \in Nat /\ sent.deltas \in Nat /\ sent.owed \in Nat /\ InHand \in Nat
           /\ Len(emitted) \in Nat /\ Len(parts) \in Nat
  BY DEF Typed, OnHand, InHand, Sends

\* An answer reaches its call: every delta the child sent before it is out of the wire.
LEMMA DeliverKeeps ==
    ASSUME HostInv, reading, wire # <<>>, IsAnswer(Head(wire)), Deliver(Head(wire)),
           UNCHANGED <<hungup, down, call, child, load, serve, cur, watch, stop, spawn, registry,
                       stream>>
    PROVE  Good
  <1> DEFINE m == wire[1]
  <1>1. /\ wire \in Seq(Msg) /\ 1 \in DOMAIN wire /\ Head(wire) = m /\ m[1] = "answer" /\ m \in Msg
        /\ wire' = Tail(wire) /\ wire' \in Seq(Msg)
        /\ \A i \in DOMAIN wire' : i + 1 \in DOMAIN wire /\ wire'[i] = wire[i + 1] /\ i \in Nat
        /\ q' = q /\ reading' = reading /\ open' = open
        /\ answered' = (IF call[m[2]] = "pending" THEN answered \cup {m[2]} ELSE answered)
    <2>1. wire \in Seq(Msg)
      BY DEF HostInv, Typed
    <2>2. QED
      BY <2>1, TailIs DEF IsAnswer, Deliver, Took
  <1>2. Typed'
    BY <1>1 DEF HostInv, Typed, child, stream
  <1>3. m[2] \in sent.answers
    BY <1>1 DEF HostInv, Answers
  <1>4. Answers'
    <2>1. \A i \in DOMAIN wire' : i + 1 \in DOMAIN wire /\ wire'[i] = wire[i + 1] /\ i \in Nat
      BY <1>1
    <2>2. \A i \in DOMAIN wire' : wire'[i][1] = "answer" => wire'[i][2] \in sent.answers
      BY <2>1 DEF HostInv, Answers
    <2>3. \A i, j \in DOMAIN wire' :
            wire'[i] = <<"answer", "complete">> /\ i < j => wire'[j][1] # "delta"
      <3>1. SUFFICES ASSUME NEW i \in DOMAIN wire', NEW j \in DOMAIN wire',
                            wire'[i] = <<"answer", "complete">>, i < j
                     PROVE  wire'[j][1] # "delta"
        OBVIOUS
      <3>2. i + 1 < j + 1
        BY <2>1, <3>1
      <3>3. QED
        BY <2>1, <3>1, <3>2 DEF HostInv, Answers
    <2>4. answered' \subseteq sent.answers
      BY <1>1, <1>3 DEF HostInv, Answers
    <2>5. QED
      BY <2>2, <2>3, <2>4 DEF HostInv, Answers, child, registry, stream
  <1>5. InOrder(wire) => InOrder(wire') /\ Numbers(wire') = Numbers(wire)
    BY <1>1, TailIs
  <1>6. "complete" \in answered' =>
          "complete" \in answered \/ \A j \in DOMAIN wire : 1 < j => wire[j][1] # "delta"
    <2>1. SUFFICES ASSUME m[2] = "complete"
          PROVE \A j \in DOMAIN wire : 1 < j => wire[j][1] # "delta"
      BY <1>1
    <2>2. m = <<"answer", "complete">>
      BY <1>1, <2>1 DEF Msg, Barrier
    <2>3. QED
      BY <1>1, <2>2 DEF HostInv, Answers
  <1>7. InHand' = InHand /\ OnHand' = OnHand
    BY DEF InHand, OnHand, stream
  <1>8. Stream'
    <2>1. SUFFICES ASSUME comp \notin {"stopped", "failed"} PROVE Stream'
      BY DEF Stream, stream
    <2>2. PICK n \in 0..sent.deltas : Queued(n)
      BY <2>1 DEF HostInv, Stream
    <2>3. InOrder(wire') /\ Numbers(wire') = Numbers(wire)
      BY <1>5, <2>1 DEF HostInv, Stream
    <2>4. Came' => n = sent.deltas
      <3>1. CASE Came
        BY <2>2, <3>1 DEF Queued
      <3>2. CASE ~Came
        <4>1. SUFFICES ASSUME "complete" \in answered', "complete" \notin answered
                       PROVE  n = sent.deltas
          BY <3>2 DEF Came, stream
        <4>2. Numbers(wire) = {}
          BY <1>1, <1>6, <4>1 DEF Numbers, Deltas
        <4>3. n \in Nat /\ sent.deltas \in Nat /\ n <= sent.deltas /\ (n + 1)..sent.deltas = {}
          BY <2>2, <4>2, OnHandIs DEF Queued, HostInv
        <4>4. QED
          BY <4>3
      <3>3. QED
        BY <3>1, <3>2
    <2>5. Queued(n)'
      BY <1>1, <1>7, <2>2, <2>3, <2>4 DEF Queued, child
    <2>6. QED
      BY <1>1, <1>7, <2>1, <2>2, <2>3, <2>5 DEF HostInv, Stream, stream, child
  <1>9. Barriers'
    BY <1>1 DEF HostInv, Barriers, Waiting, Passing, Deltas, stream, child
  <1>10. QED
    BY <1>2, <1>4, <1>8, <1>9 DEF Good

\* The least of a range, and a range with one more.
LEMMA LeastOf ==
    ASSUME NEW n \in Nat, NEW d \in Nat, NEW x \in (n + 1)..d, \A y \in (n + 1)..d : x <= y
    PROVE  x = n + 1 /\ n < d /\ {y \in (n + 1)..d : x < y} = (n + 2)..d
  <1>1. x \in Nat /\ n + 1 <= x /\ x <= d
    OBVIOUS
  <1>2. n + 1 \in (n + 1)..d
    BY <1>1
  <1>3. x = n + 1 /\ n < d
    BY <1>1, <1>2
  <1>4. \A y : y \in (n + 1)..d /\ x < y <=> y \in (n + 2)..d
    BY <1>3
  <1>5. QED
    BY <1>3, <1>4

\* A range that grows at its end.
LEMMA OneMore ==
    ASSUME NEW a \in Nat, NEW n \in Nat, a <= n
    PROVE  ((a + 1)..n) \cup {n + 1} = (a + 1)..(n + 1)
  <1>1. \A y : y \in ((a + 1)..n) \cup {n + 1} <=> y \in (a + 1)..(n + 1)
    OBVIOUS
  <1>2. QED
    BY <1>1

\* The empty sequence.
LEMMA EmptyIs ==
    <<>> \in Seq(Msg) /\ Deltas(<<>>) = {} /\ Numbers(<<>>) = {} /\ InOrder(<<>>)
  BY DEF Deltas, Numbers, InOrder

\* The end of the connection loses only what nobody has read.
LEMMA EndKeeps ==
    ASSUME HostInv, End,
           UNCHANGED <<q, answered, call, sent, load, live, cur, comp, parts, emitted, cut>>
    PROVE  Good
  <1>1. /\ wire' = <<>> /\ ~reading' /\ ~open' /\ DOMAIN wire' = {}
        /\ InHand' = InHand /\ OnHand' = OnHand /\ Came' = Came
    BY DEF End, InHand, OnHand, Came
  <1>2. Typed'
    BY <1>1, EmptyIs DEF HostInv, Typed
  <1>3. Answers'
    BY <1>1 DEF HostInv, Answers
  <1>4. \A n : Queued(n) => Queued(n)'
    BY <1>1 DEF Queued
  <1>5. InOrder(wire')
    BY <1>1, EmptyIs
  <1>6. Stream'
    BY <1>1, <1>4, <1>5 DEF HostInv, Stream
  <1>7. Barriers'
    BY <1>1 DEF HostInv, Barriers, Passing, Waiting
  <1>8. QED
    BY <1>2, <1>3, <1>6, <1>7 DEF Good

\* Everything else is queued, in the order it came.
LEMMA PushKeeps ==
    ASSUME HostInv, reading, wire # <<>>, ~IsAnswer(Head(wire)), q' = Append(q, Head(wire)),
           wire' = Tail(wire),
           UNCHANGED <<reading, open, answered, call, sent, load, live, cur, comp, parts, emitted,
                       cut>>
    PROVE  Good
  <1> DEFINE m == wire[1]
  <1>1. /\ wire \in Seq(Msg) /\ q \in Seq(Msg) /\ m \in Msg /\ 1 \in DOMAIN wire
        /\ wire' = Tail(wire) /\ wire' \in Seq(Msg) /\ q' = Append(q, m) /\ q' \in Seq(Msg)
        /\ \A i \in DOMAIN wire' : i + 1 \in DOMAIN wire /\ wire'[i] = wire[i + 1] /\ i \in Nat
    <2>1. wire \in Seq(Msg) /\ q \in Seq(Msg)
      BY DEF HostInv, Typed
    <2>2. QED
      BY <2>1, TailIs
  <1>2. Typed'
    BY <1>1 DEF HostInv, Typed
  <1>3. Answers'
    <2>1. \A i \in DOMAIN wire' : wire'[i][1] = "answer" => wire'[i][2] \in sent.answers
      BY <1>1 DEF HostInv, Answers
    <2>2. \A i, j \in DOMAIN wire' :
            wire'[i] = <<"answer", "complete">> /\ i < j => wire'[j][1] # "delta"
      <3>1. SUFFICES ASSUME NEW i \in DOMAIN wire', NEW j \in DOMAIN wire',
                            wire'[i] = <<"answer", "complete">>, i < j
                     PROVE  wire'[j][1] # "delta"
        OBVIOUS
      <3>2. i + 1 < j + 1
        BY <1>1, <3>1
      <3>3. QED
        BY <1>1, <3>1, <3>2 DEF HostInv, Answers
    <2>3. QED
      BY <2>1, <2>2 DEF HostInv, Answers
  <1>4. InHand' = InHand /\ OnHand' = OnHand /\ Came' = Came
    BY DEF InHand, OnHand, Came
  <1>5. m[1] # "delta" => Deltas(q') = Deltas(q) /\ Numbers(q') = Numbers(q)
    BY <1>1, AppendOther
  <1>6. ASSUME comp \notin {"stopped", "failed"} PROVE Stream' /\ (m[1] = "delta" => ~Came)
    <2>1. PICK n \in 0..sent.deltas : Queued(n)
      BY <1>6 DEF HostInv, Stream
    <2>2. n \in Nat /\ OnHand \in Nat /\ sent.deltas \in Nat /\ OnHand <= n /\ n <= sent.deltas
      BY <2>1, OnHandIs DEF Queued, HostInv
    <2>3. InOrder(q) /\ InOrder(wire) /\ InOrder(wire')
      BY <1>1, <1>6, TailIs DEF HostInv, Stream
    <2>4. Numbers(q) = (OnHand + 1)..n /\ Numbers(wire) = (n + 1)..sent.deltas
      BY <2>1 DEF Queued
    <2>5. CASE m[1] # "delta"
      <3>1. InOrder(q') /\ Numbers(wire') = Numbers(wire)
        BY <1>1, <2>3, <2>5, AppendOther, TailIs
      <3>2. Queued(n)'
        BY <1>4, <1>5, <2>1, <2>5, <3>1 DEF Queued
      <3>3. QED
        BY <1>4, <1>6, <2>1, <2>3, <2>5, <3>1, <3>2 DEF HostInv, Stream
    <2>6. CASE m[1] = "delta"
      <3>1. /\ m[2] \in Numbers(wire) /\ \A x \in Numbers(wire) : m[2] <= x
            /\ Numbers(wire') = {x \in Numbers(wire) : m[2] < x}
        BY <1>1, <2>3, <2>6, TailIs
      <3>2. n < sent.deltas /\ m[2] = n + 1
        BY <2>2, <2>4, <3>1, LeastOf
      <3>3. Numbers(wire') = (n + 2)..sent.deltas
        BY <2>2, <2>4, <3>1, LeastOf
      <3>4. \A x \in Numbers(q) : x < m[2]
        BY <2>2, <2>4, <3>2
      <3>5. InOrder(q') /\ Numbers(q') = Numbers(q) \cup {m[2]}
        BY <1>1, <2>3, <2>6, <3>4, AppendDelta
      <3>6. Numbers(q') = (OnHand + 1)..(n + 1)
        BY <2>2, <2>4, <3>2, <3>5, OneMore
      <3>7. ~Came
        BY <2>1, <2>2, <3>2 DEF Queued
      <3>8. n + 1 \in 0..sent.deltas' /\ Queued(n + 1)'
        BY <1>4, <2>2, <3>2, <3>3, <3>6, <3>7 DEF Queued
      <3>9. QED
        BY <1>4, <1>6, <2>3, <3>5, <3>7, <3>8 DEF HostInv, Stream
    <2>7. QED
      BY <2>5, <2>6
  <1>7. Stream'
    BY <1>6 DEF Stream
  <1>8. Barriers'
    <2>1. CASE comp \in {"sync", "drain"}
      <3>1. Deltas(q') = Deltas(q)
        BY <1>5, <1>6, <2>1 DEF Came
      <3>2. Waiting => Waiting'
        <4>1. \A b \in DOMAIN q : b \in DOMAIN q' /\ q'[b] = q[b]
          BY <1>1
        <4>2. QED
          BY <3>1, <4>1 DEF Waiting
      <3>3. QED
        BY <2>1, <3>1, <3>2 DEF HostInv, Barriers, Passing
    <2>2. QED
      BY <2>1 DEF HostInv, Barriers
  <1>9. QED
    BY <1>2, <1>3, <1>7, <1>8 DEF Good

\* The reader delivers, queues, or ends the connection.
LEMMA ReaderKeeps == ASSUME HostInv, ReaderStep PROVE Good
  <1>1. CASE Read
    <2>1. CASE IsAnswer(Head(wire))
      BY <1>1, <2>1, DeliverKeeps DEF ReaderStep, Read
    <2>2. CASE ~IsAnswer(Head(wire)) /\ Len(q) >= MaxIncoming
      BY <1>1, <2>2, EndKeeps DEF ReaderStep, Read, Push, child, registry, stream
    <2>3. CASE ~IsAnswer(Head(wire)) /\ ~(Len(q) >= MaxIncoming)
      BY <1>1, <2>3, PushKeeps DEF ReaderStep, Read, Push, Took, child, registry, stream
    <2>4. QED
      BY <2>1, <2>2, <2>3
  <1>2. CASE ReadFails
    BY <1>2, EndKeeps DEF ReaderStep, ReadFails, child, registry, stream
  <1>3. QED
    BY <1>1, <1>2 DEF ReaderStep

\* The indexes of a sequence with one message more.
LEMMA AppendIs ==
    ASSUME NEW s \in Seq(Msg), NEW m \in Msg
    PROVE  /\ Append(s, m) \in Seq(Msg) /\ Len(s) \in Nat /\ DOMAIN s = 1..Len(s)
           /\ DOMAIN Append(s, m) = DOMAIN s \cup {Len(s) + 1} /\ Len(s) + 1 \notin DOMAIN s
           /\ \A i \in DOMAIN s : Append(s, m)[i] = s[i] /\ i \in Nat /\ i < Len(s) + 1
           /\ Append(s, m)[Len(s) + 1] = m
  BY AppendProperties

\* One message more, and one delta more or none.
LEMMA CountIs ==
    ASSUME NEW x \in Sends, NEW d \in Nat, NEW y,
           y = [x EXCEPT !.msgs = @ + 1, !.deltas = @ + d]
    PROVE  /\ y \in Sends /\ y.deltas = x.deltas + d /\ y.owed = x.owed
           /\ y.answers = x.answers
  <1>1. y = [msgs |-> x.msgs + 1, deltas |-> x.deltas + d, owed |-> x.owed,
             answers |-> x.answers]
    BY DEF Sends
  <1>2. x.msgs + 1 \in Nat /\ x.deltas + d \in Nat /\ x.owed \in Nat /\ x.answers \in SUBSET Calls
    BY DEF Sends
  <1>3. QED
    BY <1>1, <1>2 DEF Sends

\* All but the wire and what was sent.
rest == <<hungup, open, reading, q, down, call, answered, proc, reaped, load, serve, cur, watch,
          stop, spawn, registry, stream>>

\* A write of the child that is no answer, and no delta.
LEMMA WriteKeeps ==
    ASSUME HostInv, open, NEW m \in Msg, m[1] \notin {"answer", "delta"},
           wire' = Append(wire, m), UNCHANGED rest,
           sent' \in Sends,
           sent'.deltas = sent.deltas, sent'.owed = sent.owed, sent'.answers = sent.answers
    PROVE  Good
  <1>1. wire \in Seq(Msg) /\ reading
    BY DEF HostInv, Typed
  <1>2. Typed'
    BY <1>1, AppendIs DEF HostInv, Typed, rest, stream
  <1>3. Answers'
    <2>1. \A i \in DOMAIN wire' : wire'[i][1] = "answer" => wire'[i][2] \in sent.answers
      BY <1>1, AppendIs DEF HostInv, Answers
    <2>2. \A i, j \in DOMAIN wire' :
            wire'[i] = <<"answer", "complete">> /\ i < j => wire'[j][1] # "delta"
      <3>1. SUFFICES ASSUME NEW i \in DOMAIN wire', NEW j \in DOMAIN wire',
                            wire'[i] = <<"answer", "complete">>, i < j
                     PROVE  wire'[j][1] # "delta"
        OBVIOUS
      <3>2. CASE j = Len(wire) + 1
        BY <1>1, <3>2, AppendIs
      <3>3. CASE j \in DOMAIN wire
        <4>1. i \in DOMAIN wire
          BY <1>1, <3>1, <3>3, AppendIs
        <4>2. wire'[i] = wire[i] /\ wire'[j] = wire[j]
          BY <1>1, <3>3, <4>1, AppendIs
        <4>3. QED
          BY <3>1, <3>3, <4>1, <4>2 DEF HostInv, Answers
      <3>4. QED
        BY <1>1, <3>2, <3>3, AppendIs
    <2>3. QED
      BY <2>1, <2>2 DEF HostInv, Answers, rest, registry, stream
  <1>4. Numbers(wire') = Numbers(wire) /\ (InOrder(wire) => InOrder(wire'))
    BY <1>1, AppendOther
  <1>5. InHand' = InHand /\ OnHand' = OnHand /\ Came' = Came
    BY DEF InHand, OnHand, Came, rest, stream
  <1>6. \A n : Queued(n) => Queued(n)'
    BY <1>4, <1>5 DEF Queued, rest
  <1>7. Stream'
    BY <1>4, <1>5, <1>6 DEF HostInv, Stream, rest, stream
  <1>8. Barriers'
    BY DEF HostInv, Barriers, Waiting, Passing, rest, stream
  <1>9. QED
    BY <1>2, <1>3, <1>7, <1>8 DEF Good

\* A delta goes behind the others on the wire, and Complete has no answer yet.
LEMMA StreamsKeeps == ASSUME HostInv, ChildStreams PROVE Good
  <1> DEFINE m == <<"delta", sent.deltas + 1>>
  <1>1. /\ wire \in Seq(Msg) /\ reading /\ sent.deltas \in Nat /\ wire' = Append(wire, m)
        /\ "complete" \notin sent.answers /\ comp # "idle"
        /\ sent' = [sent EXCEPT !.msgs = @ + 1, !.deltas = @ + 1] /\ UNCHANGED rest
    <2>1. /\ wire \in Seq(Msg) /\ sent \in Sends /\ sent.deltas \in Nat /\ (~reading => ~open)
          /\ comp = "idle" => call["complete"] = "idle"
      BY DEF HostInv, Typed, Answers, Sends
    <2>2. /\ ChildSends(m) /\ open /\ "complete" \notin sent.answers /\ call["complete"] # "idle"
      BY DEF ChildStreams, ChildSends
    <2>3. m[1] = "delta"
      OBVIOUS
    <2> HIDE DEF m
    <2>4. QED
      BY <2>1, <2>2, <2>3 DEF ChildSends, Writes, rest
  <1>2. m \in Msg /\ m[1] = "delta" /\ m[2] = sent.deltas + 1
    BY <1>1 DEF Msg
  <1> HIDE DEF m
  <1>3. /\ sent'.deltas = sent.deltas + 1 /\ sent'.owed = sent.owed /\ sent'.answers = sent.answers
        /\ sent' \in Sends
    <2>1. sent \in Sends /\ 1 \in Nat
      BY DEF HostInv, Typed
    <2>2. sent' = [sent EXCEPT !.msgs = @ + 1, !.deltas = @ + 1]
      BY <1>1
    <2>3. QED
      BY ONLY <2>1, <2>2, CountIs
  <1>4. Typed'
    BY <1>1, <1>2, <1>3, AppendIs DEF HostInv, Typed, rest, stream
  <1>5. Answers'
    <2>1. \A i \in DOMAIN wire' : wire'[i][1] = "answer" => i \in DOMAIN wire /\ wire'[i] = wire[i]
      BY <1>1, <1>2, AppendIs
    <2>2. \A i \in DOMAIN wire' : wire'[i][1] = "answer" => wire'[i][2] \in sent.answers
      BY <2>1 DEF HostInv, Answers
    <2>3. \A i \in DOMAIN wire' : wire'[i] # <<"answer", "complete">>
      <3>1. SUFFICES ASSUME NEW i \in DOMAIN wire', wire'[i] = <<"answer", "complete">> PROVE FALSE
        OBVIOUS
      <3>2. wire'[i][1] = "answer" /\ wire'[i][2] = "complete"
        BY <3>1
      <3>3. QED
        BY <1>1, <2>2, <3>2
    <2>4. QED
      BY <1>1, <1>3, <2>2, <2>3 DEF HostInv, Answers, rest, registry, stream
  <1>6. InHand' = InHand /\ OnHand' = OnHand /\ Came' = Came
    BY <1>1 DEF InHand, OnHand, Came, rest, stream
  <1>7. ~Came /\ comp \notin {"sync", "drain", "stopped"}
    BY <1>1 DEF Came, HostInv, Answers
  <1>8. Stream'
    <2>1. SUFFICES ASSUME comp \notin {"stopped", "failed"} PROVE Stream'
      BY <1>1 DEF Stream, rest, stream
    <2>2. PICK n \in 0..sent.deltas : Queued(n)
      BY <2>1 DEF HostInv, Stream
    <2>3. n \in Nat /\ n <= sent.deltas /\ Numbers(wire) = (n + 1)..sent.deltas
      BY <1>1, <2>2 DEF Queued
    <2>4. \A x \in Numbers(wire) : x < m[2]
      BY <1>1, <1>2, <2>3
    <2>5. InOrder(wire') /\ Numbers(wire') = Numbers(wire) \cup {m[2]}
      BY <1>1, <1>2, <2>1, <2>4, AppendDelta DEF HostInv, Stream
    <2>6. Numbers(wire') = (n + 1)..(sent.deltas + 1)
      BY <1>1, <1>2, <2>3, <2>5, OneMore
    <2>7. n \in 0..sent'.deltas /\ Queued(n)'
      BY <1>1, <1>3, <1>6, <1>7, <2>2, <2>3, <2>6 DEF Queued, rest
    <2>8. QED
      BY <1>1, <1>6, <2>1, <2>5, <2>7 DEF HostInv, Stream, rest, stream
  <1>9. Barriers'
    BY <1>1, <1>7 DEF Barriers, rest, stream
  <1>10. QED
    BY <1>4, <1>5, <1>8, <1>9 DEF Good

\* An answer of the child owes what was sent before it.
LEMMA AnswersKeeps == ASSUME HostInv, NEW c \in Calls, ChildAnswers(c) PROVE Good
  <1> DEFINE m == <<"answer", c>>
  <1>1. /\ wire \in Seq(Msg) /\ reading /\ wire' = Append(wire, m) /\ UNCHANGED rest
        /\ c \notin sent.answers /\ call[c] \notin {"idle", "ended"}
        /\ sent' = [sent EXCEPT !.answers = @ \cup {c}, !.owed = sent.deltas]
    BY DEF HostInv, Typed, ChildAnswers, Writes, rest
  <1>2. m \in Msg /\ m[1] = "answer" /\ m[2] = c
    BY MsgIs
  <1> HIDE DEF m
  <1>3. /\ sent'.deltas = sent.deltas /\ sent'.owed = sent.deltas
        /\ sent'.answers = sent.answers \cup {c}
        /\ sent' \in Sends
    <2>1. sent \in Sends
      BY DEF HostInv, Typed
    <2>2. sent' = [sent EXCEPT !.answers = @ \cup {c}, !.owed = sent.deltas] /\ c \in Calls
      BY <1>1
    <2>3. sent' = [msgs |-> sent.msgs, deltas |-> sent.deltas, owed |-> sent.deltas,
                   answers |-> sent.answers \cup {c}]
      BY ONLY <2>1, <2>2 DEF Sends
    <2>4. /\ sent.msgs \in Nat /\ sent.deltas \in Nat
          /\ sent.answers \cup {c} \in SUBSET Calls
      BY ONLY <2>1, <2>2 DEF Sends
    <2>5. QED
      BY ONLY <2>3, <2>4 DEF Sends
  <1>4. Typed'
    BY <1>1, <1>2, <1>3, AppendIs DEF HostInv, Typed, rest, stream
  <1>5. Answers'
    <2>1. \A i \in DOMAIN wire' : wire'[i][1] = "answer" => wire'[i][2] \in sent'.answers
      BY <1>1, <1>2, <1>3, AppendIs DEF HostInv, Answers
    <2>2. \A i, j \in DOMAIN wire' :
            wire'[i] = <<"answer", "complete">> /\ i < j => wire'[j][1] # "delta"
      <3>1. SUFFICES ASSUME NEW i \in DOMAIN wire', NEW j \in DOMAIN wire',
                            wire'[i] = <<"answer", "complete">>, i < j
                     PROVE  wire'[j][1] # "delta"
        OBVIOUS
      <3>2. CASE j = Len(wire) + 1
        BY <1>1, <1>2, <3>2, AppendIs
      <3>3. CASE j \in DOMAIN wire
        <4>1. i \in DOMAIN wire
          BY <1>1, <1>2, <3>1, <3>3, AppendIs
        <4>2. wire'[i] = wire[i] /\ wire'[j] = wire[j]
          BY <1>1, <1>2, <3>3, <4>1, AppendIs
        <4>3. QED
          BY <3>1, <3>3, <4>1, <4>2 DEF HostInv, Answers
      <3>4. QED
        BY <1>1, <1>2, <3>2, <3>3, AppendIs
    <2>3. answered' \subseteq sent'.answers
      BY <1>1, <1>3 DEF HostInv, Answers, rest
    <2>4. "complete" \in sent'.answers => comp # "idle"
      BY <1>1, <1>3 DEF HostInv, Answers
    <2>5. QED
      BY <1>1, <1>3, <2>1, <2>2, <2>3, <2>4 DEF HostInv, Answers, rest, registry, stream
  <1>6. Numbers(wire') = Numbers(wire) /\ (InOrder(wire) => InOrder(wire'))
    BY <1>1, <1>2, AppendOther
  <1>7. InHand' = InHand /\ OnHand' = OnHand /\ Came' = Came
    BY <1>1 DEF InHand, OnHand, Came, rest, stream
  <1>8. \A n : Queued(n) => Queued(n)'
    BY <1>1, <1>3, <1>6, <1>7 DEF Queued, rest
  <1>9. Stream'
    BY <1>1, <1>3, <1>6, <1>7, <1>8 DEF HostInv, Stream, rest, stream
  <1>10. Barriers'
    BY <1>1, <1>3 DEF HostInv, Barriers, Waiting, Passing, rest, stream
  <1>11. QED
    BY <1>4, <1>5, <1>9, <1>10 DEF Good

\* Whatever the child does.
LEMMA ChildKeeps == ASSUME HostInv, ChildStep PROVE Good
  <1>1. ASSUME NEW m \in Msg, m[1] \notin {"answer", "delta"}, ChildSends(m) PROVE Good
    <2>1. /\ sent' = [sent EXCEPT !.msgs = @ + 1, !.deltas = @ + 0] /\ open
          /\ wire' = Append(wire, m) /\ UNCHANGED rest
      BY <1>1 DEF ChildSends, Writes, rest
    <2>2. /\ sent' \in Sends
          /\ sent'.deltas = sent.deltas /\ sent'.owed = sent.owed /\ sent'.answers = sent.answers
      <3>1. sent \in Sends /\ 0 \in Nat /\ sent.deltas + 0 = sent.deltas
        BY DEF HostInv, Typed, Sends
      <3>2. QED
        BY <2>1, <3>1, CountIs
    <2>3. QED
      BY <1>1, <2>1, <2>2, WriteKeeps
  <1>2. ASSUME NEW n \in Names, ChildSends(<<"register", n>>) PROVE Good
    <2>1. <<"register", n>> \in Msg
      BY DEF Msg
    <2>2. QED
      BY <1>1, <1>2, <2>1
  <1>3. ASSUME NEW shown \in Contents, ChildSends(<<"status", shown>>) PROVE Good
    <2>1. <<"status", shown>> \in Msg
      BY DEF Msg
    <2>2. QED
      BY <1>1, <1>3, <2>1
  <1>4. CASE ChildEnds
    <2>1. UNCHANGED path /\ UNCHANGED <<answered, cur, load, live, call, open, sent, wire, comp>>
      BY <1>4 DEF ChildEnds, path, registry, stream
    <2>2. Typed'
      BY <1>4, <2>1 DEF HostInv, Typed, path
    <2>3. Answers'
      BY <2>1, AnswersStay
    <2>4. QED
      BY <2>1, <2>2, <2>3, StreamStays DEF Good
  <1>5. QED
    BY <1>2, <1>3, <1>4, StreamsKeeps, AnswersKeeps DEF ChildStep

-----------------------------------------------------------------------------
(* The serve loop.                                                         *)

\* A set of numbers has a least one.
LEMMA LeastIs ==
    ASSUME NEW Q, Q \subseteq Nat, Q # {}
    PROVE  \E u \in Q : \A v \in Q : u <= v
  <1>1. IsWellFoundedOn(OpToRel(<, Nat), Nat)
    BY NatLessThanWellFounded
  <1>2. PICK u \in Q : \A v \in Q : ~(<<v, u>> \in OpToRel(<, Nat))
    BY <1>1, WFMin
  <1>3. \A v \in Q : ~(v < u)
    BY <1>2 DEF OpToRel
  <1>4. u \in Nat /\ \A v \in Q : v \in Nat
    BY <1>2
  <1>5. \A v \in Q : u <= v
    BY <1>3, <1>4
  <1>6. QED
    BY <1>2, <1>5

\* What Recv takes is the first message of the queue, and what it leaves is the rest of it.
LEMMA RecvIs ==
    ASSUME Typed, Messages # {}, q' = SubSeq(q, First + 1, Len(q))
    PROVE  /\ First \in 1..Len(q) /\ First \in Messages /\ \A i \in 1..First - 1 : q[i] = Barrier
           /\ \A i \in Messages : First <= i
           /\ q' \in Seq(Msg) /\ Len(q') = Len(q) - First
           /\ \A i \in 1..Len(q') : q'[i] = q[i + First]
           /\ q[First] \in Msg
  <1>1. q \in Seq(Msg) /\ Len(q) \in Nat /\ Messages \subseteq 1..Len(q)
    BY DEF Typed, Messages
  <1>2. \E u \in Messages : \A v \in Messages : u <= v
    <2>1. Messages \subseteq Nat /\ Messages # {}
      BY <1>1
    <2> HIDE DEF Messages
    <2>2. QED
      BY <2>1, LeastIs
  <1>3. First \in Messages /\ \A v \in Messages : First <= v
    BY <1>2 DEF First
  <1>4. First \in 1..Len(q)
    BY <1>1, <1>3
  <1>5. \A i \in 1..First - 1 : q[i] = Barrier
    BY <1>1, <1>3, <1>4 DEF Messages
  <1>6. /\ q' \in Seq(Msg) /\ Len(q') = Len(q) - First
        /\ \A i \in 1..Len(q') : q'[i] = q[i + First]
    BY <1>1, <1>4, SubSeqProperties
  <1>7. q[First] \in Msg
    BY <1>1, <1>4
  <1>8. QED
    BY <1>3, <1>4, <1>5, <1>6, <1>7

\* Recv pops the barriers in front of a message and hands the message to the serve loop.
LEMMA TakeKeeps == ASSUME HostInv, Take PROVE Good
  <1> DEFINE m == q[First]
  <1>1. /\ Messages # {} /\ q' = SubSeq(q, First + 1, Len(q)) /\ cur' = [msg |-> m, at |-> "new"]
        /\ cur.msg[1] = "none"
           /\ UNCHANGED <<wire, reading, open, call, answered, sent, load, live>>
        /\ UNCHANGED <<comp, parts, emitted, cut>>
    BY MsgIs DEF Take, Recv, child, registry, stream
  <1>2. /\ First \in 1..Len(q) /\ First \in Messages /\ q' \in Seq(Msg) /\ Len(q') = Len(q) - First
        /\ \A i \in 1..Len(q') : q'[i] = q[i + First]
        /\ m \in Msg /\ \A i \in 1..First - 1 : q[i] = Barrier
        /\ \A i \in Messages : First <= i
    BY <1>1, RecvIs DEF HostInv
  <1>3. q \in Seq(Msg) /\ Len(q) \in Nat /\ DOMAIN q = 1..Len(q) /\ DOMAIN q' = 1..Len(q')
    BY <1>2 DEF HostInv, Typed
  <1>4. \A i \in 1..First - 1 : q[i][1] # "delta"
    BY <1>2, MsgIs
  <1>5. Typed'
    BY <1>1, <1>2 DEF HostInv, Typed
  <1>6. Answers'
    BY <1>1 DEF HostInv, Answers
  <1> HIDE DEF m
  <1>7. /\ cur'.msg = m /\ InHand = 0 /\ InHand' = (IF m[1] = "delta" THEN 1 ELSE 0)
        /\ Came' = Came /\ OnHand' = OnHand + InHand' /\ OnHand \in Nat
    <2>1. cur'.msg = m /\ InHand = 0 /\ InHand' = (IF m[1] = "delta" THEN 1 ELSE 0) /\ Came' = Came
      BY <1>1 DEF InHand, Came
    <2>2. OnHand \in Nat /\ Len(emitted) \in Nat /\ Len(parts) \in Nat
      BY OnHandIs DEF HostInv
    <2>3. OnHand = Len(emitted) + Len(parts) /\ OnHand' = Len(emitted) + Len(parts) + InHand'
      BY <1>1, <2>1, <2>2 DEF OnHand
    <2>4. QED
      BY <2>1, <2>2, <2>3
  <1>8. InOrder(q) =>
          /\ InOrder(q')
          /\ m[1] # "delta" => Numbers(q') = Numbers(q)
          /\ m[1] = "delta" =>
               /\ m[2] \in Numbers(q) /\ \A x \in Numbers(q) : m[2] <= x
               /\ Numbers(q') = {x \in Numbers(q) : m[2] < x}
    <2>1. SUFFICES ASSUME InOrder(q)
                   PROVE  /\ InOrder(q')
                          /\ q[First][1] # "delta" => Numbers(q') = Numbers(q)
                          /\ q[First][1] = "delta" =>
                               /\ q[First][2] \in Numbers(q)
                               /\ \A x \in Numbers(q) : q[First][2] <= x
                               /\ Numbers(q') = {x \in Numbers(q) : q[First][2] < x}
      BY DEF m
    <2>2. Drops(q, First, q')
      BY <1>2, <1>4 DEF Drops
    <2>3. CASE q[First][1] # "delta"
      BY <1>2, <1>3, <2>1, <2>2, <2>3, DropOther
    <2>4. CASE q[First][1] = "delta"
      BY <1>2, <1>3, <2>1, <2>2, <2>4, DropDelta
    <2>5. QED
      BY <2>3, <2>4
  <1>9. Stream'
    <2>1. SUFFICES ASSUME comp \notin {"stopped", "failed"} PROVE Stream'
      BY <1>1 DEF Stream
    <2>2. PICK n \in 0..sent.deltas : Queued(n)
      BY <2>1 DEF HostInv, Stream
    <2>3. /\ n \in Nat /\ OnHand <= n /\ n <= sent.deltas /\ Numbers(q) = (OnHand + 1)..n
          /\ InOrder(q) /\ InOrder(wire)
      BY <2>1, <2>2 DEF Queued, HostInv, Stream
    <2>4. CASE m[1] # "delta"
      <3>1. InOrder(q') /\ Numbers(q') = Numbers(q) /\ OnHand' = OnHand
        BY <1>7, <1>8, <2>3, <2>4
      <3>2. Queued(n)'
        BY <1>1, <1>7, <2>2, <3>1 DEF Queued
      <3>3. QED
        BY <1>1, <1>7, <2>1, <2>2, <2>3, <2>4, <3>1, <3>2 DEF HostInv, Stream
    <2>5. CASE m[1] = "delta"
      <3>1. /\ m[2] \in Numbers(q) /\ \A x \in Numbers(q) : m[2] <= x
            /\ Numbers(q') = {x \in Numbers(q) : m[2] < x} /\ InOrder(q')
        BY <1>8, <2>3, <2>5
      <3>2. m[2] = OnHand + 1 /\ OnHand < n /\ Numbers(q') = (OnHand + 2)..n
        BY <1>7, <2>3, <3>1, LeastOf
      <3>3. OnHand' = OnHand + 1 /\ (OnHand' + 1)..n = (OnHand + 2)..n
        BY <1>7, <2>5
      <3>4. Queued(n)'
        BY <1>1, <1>7, <2>2, <2>3, <3>2, <3>3 DEF Queued
      <3>5. QED
        BY <1>1, <1>7, <2>1, <2>2, <2>3, <2>5, <3>1, <3>2, <3>3, <3>4 DEF HostInv, Stream
    <2>6. QED
      BY <2>4, <2>5
  <1>10. \A i \in Deltas(q') : i + First \in Deltas(q) /\ i \in 1..Len(q')
    <2>1. SUFFICES ASSUME NEW i \in Deltas(q') PROVE i + First \in Deltas(q) /\ i \in 1..Len(q')
      OBVIOUS
    <2>2. i \in 1..Len(q') /\ q'[i][1] = "delta"
      BY <1>3 DEF Deltas
    <2>3. i + First \in 1..Len(q) /\ q'[i] = q[i + First]
      <3>1. /\ First \in 1..Len(q) /\ Len(q') = Len(q) - First
            /\ \A k \in 1..Len(q') : q'[k] = q[k + First]
        BY <1>2
      <3>2. i \in 1..Len(q') /\ Len(q) \in Nat
        BY <1>3, <2>2
      <3>3. QED
        BY ONLY <3>1, <3>2
    <2>4. QED
      BY <1>3, <2>2, <2>3 DEF Deltas
  <1>11. Passing => Passing'
    <2>1. SUFFICES ASSUME Passing PROVE Passing'
      OBVIOUS
    <2>2. Deltas(q') = {} /\ Deltas(q) = {}
      BY <1>10, <2>1 DEF Passing
    <2>3. m[1] # "delta"
      BY <1>2, <1>3, <2>2 DEF Deltas, m
    <2>4. QED
      BY <1>7, <2>2, <2>3 DEF Passing
  <1>12. Waiting => Waiting' \/ Passing'
    <2>1. SUFFICES ASSUME Waiting PROVE Waiting' \/ Passing'
      OBVIOUS
    <2>2. PICK b \in DOMAIN q : q[b] = Barrier /\ \A i \in Deltas(q) : i < b
      BY <2>1 DEF Waiting
    <2>3. b # First
      BY <1>2, <2>2 DEF Messages
    <2>4. CASE First < b
      <3>1. b - First \in DOMAIN q' /\ q'[b - First] = Barrier
        BY <1>2, <1>3, <2>2, <2>4
      <3>2. \A i \in Deltas(q') : i < b - First
        BY <1>2, <1>3, <1>10, <2>2
      <3>3. QED
        BY <3>1, <3>2 DEF Waiting
    <2>5. CASE b < First
      <3>1. Deltas(q) = {}
        <4>1. SUFFICES ASSUME NEW i \in Deltas(q) PROVE FALSE
          OBVIOUS
        <4>2. i \in 1..First - 1
          BY <1>2, <1>3, <2>2, <2>5 DEF Deltas
        <4>3. QED
          BY <1>4, <4>2 DEF Deltas
      <3>2. Deltas(q') = {} /\ m[1] # "delta"
        BY <1>2, <1>3, <1>10, <3>1 DEF Deltas, m
      <3>3. QED
        BY <1>7, <3>2 DEF Passing
    <2>6. QED
      BY <1>2, <1>3, <2>2, <2>3, <2>4, <2>5
  <1>13. Barriers'
    BY <1>1, <1>11, <1>12 DEF HostInv, Barriers
  <1>14. QED
    BY <1>5, <1>6, <1>9, <1>13 DEF Good

\* The delta in hand is the next part of its completion.
LEMMA DeliverDeltaKeeps == ASSUME HostInv, DeliverDelta PROVE Good
  <1> DEFINE k == cur.msg[2]
             subscribed == comp \in {"run", "finish", "sync", "drain"}
  <1>1. /\ cur.msg[1] = "delta" /\ cur' = Idle
        /\ parts' = (IF subscribed THEN Append(parts, k) ELSE parts)
        /\ UNCHANGED <<wire, q, reading, open, call, answered, sent, load, live>>
        /\ UNCHANGED <<comp, emitted, cut>>
    BY DEF DeliverDelta, Handles, child, registry, peer
  <1>2. cur'.msg[1] = "none"
           /\ cur' \in [msg : Msg \cup {Idle.msg}, at : {"none", "new", "stage", "write"}]
    BY <1>1, MsgIs DEF Idle
  <1>3. k \in Nat
    BY <1>1, MsgIs DEF HostInv, Typed
  <1> HIDE DEF k
  <1>4. Typed'
    BY <1>1, <1>2, <1>3 DEF HostInv, Typed
  <1>5. Answers'
    BY <1>1 DEF HostInv, Answers
  <1>6. /\ InHand = 1 /\ InHand' = 0 /\ Came' = Came /\ parts \in Seq(Nat)
        /\ Len(emitted) \in Nat /\ Len(parts) \in Nat /\ OnHand = Len(emitted) + Len(parts) + 1
    BY <1>1, <1>2, OnHandIs DEF InHand, OnHand, Came, HostInv, Typed
  <1>7. Stream'
    <2>1. SUFFICES ASSUME comp \notin {"stopped", "failed"} PROVE Stream'
      BY <1>1 DEF Stream
    <2>2. PICK n \in 0..sent.deltas : Queued(n)
      BY <2>1 DEF HostInv, Stream
    <2>3. k = OnHand
      BY <1>1, <2>1 DEF HostInv, Stream, k
    <2>4. comp # "idle"
      <3>1. OnHand <= n /\ n <= sent.deltas /\ sent.deltas \in Nat
        BY <2>2, OnHandIs DEF Queued, HostInv
      <3>2. sent.deltas # 0
        BY <1>6, <3>1
      <3>3. QED
        BY <3>2 DEF HostInv, Answers
    <2>5. subscribed
      BY <2>1, <2>4 DEF HostInv, Typed
    <2>6. parts' = Append(parts, k) /\ Len(parts') = Len(parts) + 1
      BY <1>1, <1>3, <1>6, <2>5
    <2>7. OnHand' = OnHand
      BY <1>1, <1>6, <2>6 DEF OnHand
    <2>8. \A i \in DOMAIN parts' : parts'[i] = Len(emitted) + i
      <3>1. SUFFICES ASSUME NEW i \in 1..Len(parts) + 1 PROVE parts'[i] = Len(emitted) + i
        BY <1>3, <1>6, <2>6
      <3>2. CASE i \in 1..Len(parts)
        <4>1. parts'[i] = parts[i] /\ i \in DOMAIN parts
          BY <1>3, <1>6, <2>6, <3>2
        <4>2. QED
          BY <2>1, <4>1 DEF HostInv, Stream
      <3>3. CASE i = Len(parts) + 1
        BY <1>3, <1>6, <2>3, <2>6, <3>3
      <3>4. QED
        BY <1>6, <3>2, <3>3
    <2>9. Queued(n)'
      BY <1>1, <1>6, <2>2, <2>7 DEF Queued
    <2>10. QED
      BY <1>1, <1>2, <2>1, <2>2, <2>8, <2>9 DEF HostInv, Stream
  <1>8. Barriers'
    BY <1>1, <1>2 DEF HostInv, Barriers, Passing, Waiting
  <1>9. QED
    BY <1>4, <1>5, <1>7, <1>8 DEF Good

\* Recv fails only when no message is queued.
LEMMA ServeEndsKeeps == ASSUME HostInv, ServeEnds PROVE Good
  <1>1. /\ Messages = {} /\ q' = <<>> /\ cur.msg[1] = "none"
        /\ UNCHANGED <<wire, reading, open, call, answered, sent, load, live, cur>>
        /\ UNCHANGED <<comp, parts, emitted, cut>>
    BY MsgIs DEF ServeEnds, RecvFails, child, registry, stream
  <1>2. Deltas(q) = {} /\ Numbers(q) = {}
    <2>1. \A i \in DOMAIN q : q[i] = Barrier
      <3>1. DOMAIN q = 1..Len(q)
        BY DEF HostInv, Typed
      <3>2. QED
        BY <1>1, <3>1 DEF Messages
    <2>2. QED
      BY <2>1, MsgIs DEF Deltas, Numbers
  <1>3. Typed'
    BY <1>1, EmptyIs DEF HostInv, Typed
  <1>4. Answers'
    BY <1>1 DEF HostInv, Answers
  <1>5. InHand' = InHand /\ OnHand' = OnHand /\ Came' = Came
    BY <1>1 DEF InHand, OnHand, Came
  <1>6. Numbers(q') = {} /\ Deltas(q') = {} /\ InOrder(q')
    BY <1>1, EmptyIs
  <1>7. \A n : Queued(n) => Queued(n)'
    BY <1>1, <1>2, <1>5, <1>6 DEF Queued
  <1>8. Stream'
    BY <1>1, <1>5, <1>6, <1>7 DEF HostInv, Stream
  <1>9. Passing'
    BY <1>1, <1>6 DEF Passing
  <1>10. Barriers'
    BY <1>1, <1>9 DEF HostInv, Barriers
  <1>11. QED
    BY <1>3, <1>4, <1>8, <1>10 DEF Good

\* The serve loop.
LEMMA ServeKeeps == ASSUME HostInv, ServeStep PROVE Good
  <1>1. ASSUME RefuseLate \/ StageRegister \/ StageItem \/ setStatusItem PROVE Good
    <2>1. /\ cur.msg[1] # "delta" /\ UNCHANGED <<peer, child, load, live, stream>>
          /\ cur' = Idle \/ cur' = [cur EXCEPT !.at = "stage"] \/ cur' = [cur EXCEPT !.at = "write"]
      BY <1>1 DEF RefuseLate, StageRegister, StageItem, setStatusItem, Handles, Doing, registry
    <2>2. /\ cur'.msg[1] # "delta"
          /\ cur' \in [msg : Msg \cup {Idle.msg}, at : {"none", "new", "stage", "write"}]
      <3>1. cur \in [msg : Msg \cup {Idle.msg}, at : {"none", "new", "stage", "write"}]
        BY DEF HostInv, Typed
      <3>2. Idle.msg[1] = "none" /\ Idle = [msg |-> Idle.msg, at |-> "none"]
        BY DEF Idle
      <3> HIDE DEF Idle
      <3>3. QED
        BY <2>1, <3>1, <3>2
    <2>3. UNCHANGED path /\ UNCHANGED <<answered, load, live, call, open, sent, wire, comp>>
      BY <2>1 DEF path, peer, child, stream
    <2>4. Typed'
      BY <2>2, <2>3 DEF HostInv, Typed, path
    <2>5. Answers'
      BY <2>3, AnswersStay
    <2>6. QED
      BY <2>1, <2>2, <2>3, <2>4, <2>5, StreamStays DEF Good
  <1>2. QED
    BY <1>1, TakeKeeps, DeliverDeltaKeeps, ServeEndsKeeps DEF ServeStep

-----------------------------------------------------------------------------
(* Load, the watcher and the shutdown: steps beside the stream.            *)

\* A step outside the stream that ends no call of the completion.
LEMMA BesideKeeps ==
    ASSUME HostInv, UNCHANGED path, cur' = cur, answered' \subseteq answered,
           call' \in [Calls -> CallStates],
           comp # "idle" \/ call'["complete"] = call["complete"],
           load' \in {"commit", "loaded", "ready"} \/ live' =>
              load \in {"commit", "loaded", "ready"} \/ live \/ "init" \in answered,
           live => live', ~reading => ~open'
    PROVE  Good
  <1>1. Typed'
    BY DEF HostInv, Typed, path
  <1>2. Answers'
    BY DEF HostInv, Answers, path
  <1>3. QED
    BY <1>1, <1>2, StreamStays DEF Good

\* The table of calls, and what plugin.init does to it.
LEMMA TypedCall ==
    ASSUME HostInv
    PROVE  call \in [Calls -> CallStates] /\ (~reading => ~open)
           /\ \A how \in CallStates : [call EXCEPT !["init"] = how] \in [Calls -> CallStates]
           /\ \A h : [call EXCEPT !["init"] = h]["complete"] = call["complete"]
  BY PluginHostAssumption DEF HostInv, Typed

\* Load: a plugin becomes live only after it answered plugin.init.
LEMMA LoadKeeps == ASSUME HostInv, LoadStep PROVE Good
  <1>1. call \in [Calls -> CallStates] /\ (~reading => ~open)
    BY TypedCall
  <1>2. CASE Start
    <2>1. /\ UNCHANGED <<wire, q, reading, open, answered, sent, comp, parts, emitted, cut>>
          /\ cur' = cur /\ live' = live /\ load' \in {"next", "init"}
          /\ call' = call \/ CallStart("init")
      BY <1>2 DEF Start, table, stream, peer
    <2>2. call' \in [Calls -> CallStates] /\ call'["complete"] = call["complete"]
      BY <2>1, TypedCall DEF CallStart, Return, CallStates
    <2>3. QED
      BY <1>1, <2>1, <2>2, BesideKeeps DEF path
  <1>3. CASE InitReturns
    <2>1. /\ UNCHANGED <<wire, q, reading, open, sent, comp, parts, emitted, cut>>
          /\ cur' = cur /\ live' = live /\ CallReturns("init", "ok")
      BY <1>3 DEF InitReturns, CallReturns, child, registry, stream
    <2>2. QED
      BY <1>1, <2>1, CallStays, BesideKeeps DEF path
  <1>4. CASE InitFails
    <2>1. /\ UNCHANGED <<wire, q, reading, open, sent, comp, parts, emitted, cut>>
          /\ cur' = cur /\ live' = live /\ load' = "abandon"
      BY <1>4 DEF InitFails, CallReturns, child, registry, stream, peer
    <2>2. CASE UNCHANGED peer
      BY <1>1, <2>1, <2>2, BesideKeeps DEF path, peer
    <2>3. CASE \E how \in {"ok", "cancelled", "ended"} : CallReturns("init", how)
      BY <1>1, <2>1, <2>3, CallStays, BesideKeeps DEF path
    <2>4. QED
      BY <1>4, <2>2, <2>3 DEF InitFails
  <1>5. CASE Abandon \/ AbandonEnds
    <2>1. /\ UNCHANGED path /\ UNCHANGED <<answered, call, cur, live>>
          /\ load' \in {"stopping", "next"} /\ (open' = open \/ open' = FALSE)
      BY <1>5 DEF Abandon, AbandonEnds, PeerClose, path, child, registry, table, stream, spawn
    <2>2. QED
      BY <1>1, <2>1, BesideKeeps
  <1>6. CASE Commit
    <2>1. UNCHANGED path /\ UNCHANGED <<answered, call, cur, open>> /\ live' /\ load = "commit"
      BY <1>6 DEF Commit, path, peer, child, stream
    <2>2. QED
      BY <1>1, <2>1, BesideKeeps
  <1>7. CASE Loaded \/ Committed \/ NextCommits \/ \E n \in Names : NextRegisters(n)
    <2>1. /\ UNCHANGED path /\ UNCHANGED <<answered, call, cur, open, live>>
          /\ load' \in {"commit", "loaded", "ready"} => load \in {"commit", "loaded", "ready"}
      <3>1. CASE Loaded \/ Committed \/ NextCommits
        BY <1>7, <3>1 DEF Loaded, Committed, NextCommits, path, peer, child, stream, table, registry
      <3>2. CASE \E n \in Names : NextRegisters(n)
        BY <1>7, <3>2 DEF NextRegisters, path, peer, child, stream
      <3>3. QED
        BY <1>7, <3>1, <3>2
    <2>2. QED
      BY <1>1, <2>1, BesideKeeps
  <1>8. QED
    BY <1>2, <1>3, <1>4, <1>5, <1>6, <1>7 DEF LoadStep

\* The watcher, the reaper and the shutdown leave the stream to the reader.
LEMMA OthersKeep ==
    ASSUME HostInv, Reap \/ WatchStep \/ Shutdown \/ StopStep \/ UNCHANGED vars
    PROVE  Good
  <1>1. call \in [Calls -> CallStates] /\ (~reading => ~open)
    BY TypedCall
  <1>2. /\ UNCHANGED path /\ UNCHANGED <<answered, call, cur, live, load>>
        /\ open' = open \/ open' = FALSE
    <2>1. CASE Reap \/ Shutdown \/ UNCHANGED vars
      BY <2>1 DEF Reap, Shutdown, vars, path, peer, child, registry, stream
    <2>2. CASE WatchStep
      BY <2>2 DEF WatchStep, WatchExit, WatchLost, Terminate, WatchCommit, Fail, WatchCloses, Kill,
                  PeerClose, path, peer, child, registry, stream
    <2>3. CASE StopStep
      BY <2>3 DEF StopStep, ClosePlugins, CloseEnds, Shut, Kill, PeerClose, path, peer, child,
                  registry, stream
    <2>4. QED
      BY <2>1, <2>2, <2>3
  <1>3. QED
    BY <1>1, <1>2, BesideKeeps

-----------------------------------------------------------------------------
(* The completion.                                                         *)

\* However Complete's call ends, the table of calls keeps its type.
LEMMA CallEnds ==
    ASSUME HostInv, NEW how \in {"ok", "cancelled", "ended"}
    PROVE  [call EXCEPT !["complete"] = how] \in [Calls -> CallStates]
  BY PluginHostAssumption DEF HostInv, Typed, CallStates

\* Complete starts with nothing sent, and its call open or refused.
LEMMA StartKeeps == ASSUME HostInv, CompleteStart PROVE Good
  <1>1. /\ UNCHANGED <<wire, q, reading, open, answered, sent, load, live, cur>>
        /\ UNCHANGED <<parts, emitted, cut>>
        /\ comp = "idle" /\ comp' = "run" /\ live /\ CallStart("complete")
    BY DEF CompleteStart, child, registry
  <1>2. call' \in [Calls -> CallStates]
    BY <1>1 DEF CallStart, Return, HostInv, Typed, CallStates
  <1>3. Typed'
    BY <1>1, <1>2 DEF HostInv, Typed
  <1>4. Answers'
    BY <1>1 DEF HostInv, Answers
  <1>5. InHand' = InHand /\ OnHand' = OnHand /\ Came' = Came
    BY <1>1 DEF InHand, OnHand, Came
  <1>6. \A n : Queued(n) => Queued(n)'
    BY <1>1, <1>5 DEF Queued
  <1>7. Stream'
    BY <1>1, <1>5, <1>6 DEF HostInv, Stream
  <1>8. Barriers'
    BY <1>1 DEF Barriers
  <1>9. QED
    BY <1>3, <1>4, <1>7, <1>8 DEF Good

\* The part emitted is the next one.
LEMMA EmitKeeps == ASSUME HostInv, Emit PROVE Good
  <1>1. /\ UNCHANGED <<wire, q, reading, open, answered, call, sent, load, live, cur, comp, cut>>
        /\ comp \notin {"idle", "stopped", "failed"} /\ parts # <<>>
        /\ parts' = Tail(parts) /\ emitted' = Append(emitted, Head(parts))
    BY DEF Emit, peer, child, registry
  <1>2. parts \in Seq(Nat) /\ emitted \in Seq(Nat)
    BY DEF HostInv, Typed
  <1>3. /\ Head(parts) = parts[1] /\ Len(parts) \in Nat /\ Len(parts) >= 1
        /\ Head(parts) \in Nat /\ parts' \in Seq(Nat) /\ Len(parts') = Len(parts) - 1
        /\ DOMAIN parts = 1..Len(parts) /\ DOMAIN parts' = 1..Len(parts) - 1
        /\ \A i \in 1..Len(parts) - 1 : parts'[i] = parts[i + 1]
    BY <1>1, <1>2, HeadTailProperties
  <1>4. /\ emitted' \in Seq(Nat) /\ Len(emitted) \in Nat /\ Len(emitted') = Len(emitted) + 1
        /\ DOMAIN emitted = 1..Len(emitted) /\ DOMAIN emitted' = 1..Len(emitted) + 1
        /\ \A i \in 1..Len(emitted) : emitted'[i] = emitted[i]
        /\ emitted'[Len(emitted) + 1] = Head(parts)
    BY <1>1, <1>2, <1>3, AppendProperties
  <1>5. Typed'
    BY <1>1, <1>3, <1>4 DEF HostInv, Typed
  <1>6. Answers'
    BY <1>1 DEF HostInv, Answers
  <1>7. InHand' = InHand /\ OnHand' = OnHand /\ Came' = Came
    BY <1>1, <1>3, <1>4, OnHandIs DEF InHand, OnHand, Came, HostInv
  <1>8. /\ \A i \in DOMAIN emitted : emitted[i] = i
        /\ \A i \in DOMAIN parts : parts[i] = Len(emitted) + i
    BY <1>1 DEF HostInv, Stream
  <1>9. \A i \in DOMAIN emitted' : emitted'[i] = i
    <2>1. Head(parts) = Len(emitted) + 1
      <3>1. Head(parts) = parts[1] /\ 1 \in DOMAIN parts
        BY <1>3
      <3>2. QED
        BY <1>8, <3>1
    <2>2. QED
      BY <1>4, <1>8, <2>1
  <1>10. \A i \in DOMAIN parts' : parts'[i] = Len(emitted') + i
    <2>1. SUFFICES ASSUME NEW i \in 1..Len(parts) - 1 PROVE parts'[i] = Len(emitted') + i
      BY <1>3
    <2>2. i + 1 \in 1..Len(parts)
      BY <1>3
    <2>3. parts[i + 1] = Len(emitted) + (i + 1)
      BY <1>3, <1>8, <2>2
    <2>4. parts'[i] = Len(emitted) + (i + 1) /\ Len(emitted') = Len(emitted) + 1
      BY <1>3, <1>4, <2>3
    <2>5. QED
      BY <1>4, <2>4
  <1>11. \A n : Queued(n) => Queued(n)'
    BY <1>1, <1>7 DEF Queued
  <1>12. Stream'
    BY <1>1, <1>7, <1>9, <1>10, <1>11 DEF HostInv, Stream
  <1>13. Barriers'
    BY <1>1 DEF HostInv, Barriers, Passing, Waiting
  <1>14. QED
    BY <1>5, <1>6, <1>12, <1>13 DEF Good

\* A completion given up promises nothing of its stream.
LEMMA AbortKeeps == ASSUME HostInv, CompleteAborts PROVE Good
  <1>1. /\ UNCHANGED <<wire, q, reading, open, answered, sent, load, live, cur, emitted, cut>>
        /\ comp # "idle" /\ comp' = "failed" /\ parts' = <<>>
        /\ call' = call \/ call' = [call EXCEPT !["complete"] = "cancelled"]
    BY DEF CompleteAborts, Return, child, registry
  <1>2. call' \in [Calls -> CallStates]
    BY <1>1, CallEnds DEF HostInv, Typed
  <1>3. Typed'
    BY <1>1, <1>2 DEF HostInv, Typed
  <1>4. Answers'
    BY <1>1 DEF HostInv, Answers
  <1>5. Stream' /\ Barriers'
    BY <1>1 DEF Stream, Barriers
  <1>6. QED
    BY <1>3, <1>4, <1>5 DEF Good

\* finish runs only once the answer came, and every delta left the wire before it.
LEMMA ReturnedKeeps == ASSUME HostInv, CompleteReturned PROVE Good
  <1>1. /\ UNCHANGED <<wire, q, reading, open, sent, load, live, cur, parts, emitted, cut>>
        /\ comp = "run" /\ comp' \in {"failed", "finish"} /\ answered' \subseteq answered
        /\ comp' = "finish" => "complete" \in answered
        /\ call' = call \/ \E how \in {"ok", "ended"} : call' = [call EXCEPT !["complete"] = how]
    BY DEF CompleteReturned, CallReturns, Return, peer, child, registry
  <1>2. call' \in [Calls -> CallStates]
    BY <1>1, CallEnds DEF HostInv, Typed
  <1>3. Typed'
    BY <1>1, <1>2 DEF HostInv, Typed
  <1>4. Answers'
    BY <1>1 DEF HostInv, Answers
  <1>5. InHand' = InHand /\ OnHand' = OnHand
    BY <1>1 DEF InHand, OnHand
  <1>6. comp' = "finish" => Came
    BY <1>1 DEF Came
  <1>7. comp' = "finish" => \A n : Queued(n) => Queued(n)'
    BY <1>1, <1>5, <1>6 DEF Queued
  <1>8. Stream'
    BY <1>1, <1>5, <1>7 DEF HostInv, Stream
  <1>9. Barriers'
    BY <1>1 DEF Barriers
  <1>10. QED
    BY <1>3, <1>4, <1>8, <1>9 DEF Good

\* The barrier stands behind every delta that was queued.
LEMMA SyncKeeps == ASSUME HostInv, Sync PROVE Good
  <1>1. /\ UNCHANGED <<wire, reading, open, answered, call, sent, load, live, cur, parts>>
        /\ UNCHANGED <<emitted, cut>> /\ comp = "finish" /\ comp' = "sync"
        /\ q' = (IF reading THEN Append(q, Barrier) ELSE q)
    BY DEF Sync, SyncStart, child, registry
  <1>2. /\ q \in Seq(Msg) /\ Barrier \in Msg /\ Barrier[1] # "delta"
    BY MsgIs DEF HostInv, Typed
  <1>3. /\ q' \in Seq(Msg) /\ Deltas(q') = Deltas(q) /\ Numbers(q') = Numbers(q)
        /\ InOrder(q) => InOrder(q')
    BY <1>1, <1>2, AppendOther
  <1>4. Typed'
    BY <1>1, <1>3 DEF HostInv, Typed
  <1>5. Answers'
    BY <1>1 DEF HostInv, Answers
  <1>6. InHand' = InHand /\ OnHand' = OnHand /\ Came' /\ Came
    BY <1>1 DEF InHand, OnHand, Came
  <1>7. \A n : Queued(n) => Queued(n)'
    BY <1>1, <1>3, <1>6 DEF Queued
  <1>8. Stream'
    BY <1>1, <1>3, <1>6, <1>7 DEF HostInv, Stream
  <1>9. reading => Waiting'
    <2>1. SUFFICES ASSUME reading PROVE Waiting'
      OBVIOUS
    <2>2. /\ Len(q) + 1 \in DOMAIN q' /\ q'[Len(q) + 1] = Barrier
          /\ \A i \in Deltas(q') : i < Len(q) + 1
      BY <1>1, <1>2, <1>3, <2>1, AppendIs DEF Deltas
    <2>3. QED
      BY <2>2 DEF Waiting
  <1>10. Barriers'
    BY <1>1, <1>9 DEF Barriers
  <1>11. QED
    BY <1>4, <1>5, <1>8, <1>10 DEF Good

\* A barrier that was passed leaves no delta in the queue or in hand.
LEMMA SyncedKeeps == ASSUME HostInv, Synced PROVE Good
  <1>1. /\ UNCHANGED <<wire, q, reading, open, answered, call, sent, load, live, cur, parts>>
        /\ emitted' = emitted /\ comp = "sync" /\ comp' = "drain"
        /\ cut' = (~Passed \/ ~reading \/ down)
    BY DEF Synced, peer, child, registry
  <1>2. Typed' /\ Answers'
    BY <1>1 DEF HostInv, Typed, Answers
  <1>3. InHand' = InHand /\ OnHand' = OnHand /\ Came' /\ Came
    BY <1>1 DEF InHand, OnHand, Came
  <1>4. \A n : Queued(n) => Queued(n)'
    BY <1>1, <1>3 DEF Queued
  <1>5. Stream'
    BY <1>1, <1>3, <1>4 DEF HostInv, Stream
  <1>6. Passed => ~Waiting
    <2>1. q \in Seq(Msg)
      BY DEF HostInv, Typed
    <2>2. DOMAIN q = 1..Len(q)
      BY <2>1
    <2>3. QED
      BY <2>2 DEF Waiting, Passed
  <1>7. Barriers'
    BY <1>1, <1>6 DEF HostInv, Barriers, Passing
  <1>8. QED
    BY <1>2, <1>5, <1>7 DEF Good

\* With nothing queued, in hand or in the channel, what was emitted is all that was sent.
LEMMA StoppedKeeps == ASSUME HostInv, Stopped PROVE Good
  <1>1. /\ UNCHANGED <<wire, q, reading, open, answered, call, sent, load, live, cur, parts, cut>>
        /\ emitted' = emitted /\ comp = "drain" /\ comp' = "stopped" /\ parts = <<>>
    BY DEF Stopped, peer, child, registry
  <1>2. Typed' /\ Answers'
    BY <1>1 DEF HostInv, Typed, Answers
  <1>3. Stream'
    BY <1>1 DEF Stream
  <1>4. PICK n \in 0..sent.deltas : Queued(n)
    BY <1>1 DEF HostInv, Stream
  <1>5. \A i \in DOMAIN emitted : emitted[i] = i
    BY <1>1 DEF HostInv, Stream
  <1>6. ~cut => Len(emitted) = sent.deltas
    <2>1. SUFFICES ASSUME ~cut PROVE Len(emitted) = sent.deltas
      OBVIOUS
    <2>2. Deltas(q) = {} /\ InHand = 0
      BY <1>1, <2>1 DEF HostInv, Barriers, Passing, InHand
    <2>3. Numbers(q) = {}
      BY <2>2 DEF Numbers
    <2>4. OnHand = Len(emitted) /\ Len(emitted) \in Nat
      BY <1>1, <2>2, OnHandIs DEF OnHand, HostInv
    <2>5. n = sent.deltas /\ OnHand <= n /\ (OnHand + 1)..n = {}
      BY <1>1, <1>4, <2>3 DEF Queued, Came
    <2>6. n \in Nat
      BY <1>4
    <2>7. QED
      BY <2>4, <2>5, <2>6
  <1>7. Barriers'
    BY <1>1, <1>5, <1>6 DEF Barriers
  <1>8. QED
    BY <1>2, <1>3, <1>7 DEF Good

-----------------------------------------------------------------------------
(* The invariant, and what it shows.                                       *)

\* The invariant holds before anything has started.
LEMMA InitInv == Init => HostInv
  <1>1. SUFFICES ASSUME Init PROVE HostInv
    OBVIOUS
  <1>2. /\ wire = <<>> /\ q = <<>> /\ parts = <<>> /\ emitted = <<>> /\ cur = Idle
        /\ answered = {} /\ call = [c \in Calls |-> "idle"] /\ comp = "idle" /\ load = "start"
        /\ sent = [msgs |-> 0, deltas |-> 0, owed |-> 0, answers |-> {}]
    BY <1>1 DEF Init, PeerInit
  <1> /\ reading /\ ~live /\ ~failed /\ ~commit /\ watch # "fail"
    BY <1>1 DEF Init, PeerInit
  <1>3. /\ <<>> \in Seq(Nat) /\ DOMAIN <<>> = {} /\ Len(<<>>) = 0
        /\ Idle \in [msg : Msg \cup {Idle.msg}, at : {"none", "new", "stage", "write"}]
    BY DEF Idle
  <1>4. sent \in Sends /\ sent.deltas = 0 /\ sent.answers = {}
    BY <1>2 DEF Sends
  <1>5. Typed
    BY <1>2, <1>3, <1>4, EmptyIs DEF Typed, CallStates
  <1>6. Surface
    BY DEF Surface, FailedForGood
  <1>7. Answers
    BY <1>2, <1>3, <1>4, PluginHostAssumption DEF Answers
  <1>8. InHand = 0 /\ OnHand = 0 /\ ~Came
    BY <1>2, <1>3, MsgIs DEF InHand, OnHand, Came
  <1>9. Queued(0)
    BY <1>2, <1>4, <1>8, EmptyIs DEF Queued
  <1>10. Stream
    BY <1>2, <1>3, <1>4, <1>9, EmptyIs, MsgIs DEF Stream
  <1>11. Barriers
    BY <1>2 DEF Barriers
  <1>12. QED
    BY <1>5, <1>6, <1>7, <1>10, <1>11 DEF HostInv

\* Every step keeps the invariant.
LEMMA NextKeeps == HostInv /\ [Next]_vars => HostInv'
  <1>1. SUFFICES ASSUME HostInv, [Next]_vars PROVE HostInv'
    OBVIOUS
  <1>2. Surface'
    BY <1>1, SurfaceNext DEF HostInv
  <1>3. Good
    <2>1. CASE ReaderStep \/ ChildStep \/ LoadStep \/ ServeStep
      BY <1>1, <2>1, ReaderKeeps, ChildKeeps, LoadKeeps, ServeKeeps
    <2>2. CASE Reap \/ WatchStep \/ Shutdown \/ StopStep \/ UNCHANGED vars
      BY <1>1, <2>2, OthersKeep
    <2>3. CASE CompleteStep
      BY <1>1, <2>3, EmitKeeps, ReturnedKeeps, SyncKeeps, SyncedKeeps, StoppedKeeps
         DEF CompleteStep
    <2>4. CASE CompleteStart \/ CompleteAborts
      BY <1>1, <2>4, StartKeeps, AbortKeeps
    <2>5. QED
      BY <1>1, <2>1, <2>2, <2>3, <2>4 DEF Next
  <1>4. QED
    BY <1>2, <1>3 DEF HostInv, Good

\* The invariant holds in every state.
THEOREM HostInvHolds == Spec => []HostInv
  BY InitInv, NextKeeps, PTL DEF Spec

\* A completion that ended with its stop part emitted every delta the child sent before its
\* answer, in order, unless finish's wait was cut short (remoteProvider.finish, Peer.Sync).
THEOREM StopsWhole == Spec => []DeltasBeforeStop
  <1>1. HostInv => DeltasBeforeStop
    <2>1. SUFFICES ASSUME HostInv, comp = "stopped", ~cut PROVE DeltasBeforeStop
      BY DEF DeltasBeforeStop
    <2>2. /\ Len(emitted) = sent.deltas /\ \A i \in DOMAIN emitted : emitted[i] = i
          /\ sent.owed = sent.deltas /\ emitted \in Seq(Nat)
      BY <2>1 DEF HostInv, Barriers, Answers, Typed
    <2>3. DOMAIN emitted = 1..Len(emitted) /\ Len(emitted) \in Nat
      BY <2>2
    <2>4. QED
      BY <2>2, <2>3 DEF DeltasBeforeStop
  <1>2. QED
    BY <1>1, HostInvHolds, PTL

\* A plugin gains no capability once it is live, and one that Fail withdrew keeps none and gets
\* none back (refuseLate, the stage, commit, setStatusItem, Fail).
THEOREM Shrinks == Spec => SurfaceOnlyShrinks
  <1> DEFINE Step == FailedForGood' /\ (live
     => {n \in Names : tools'[n] = "spawned"} \subseteq Owned)
  <1>1. HostInv /\ [Next]_vars => [Step]_vars
    <2>1. SUFFICES ASSUME HostInv, [Next]_vars PROVE Step
      OBVIOUS
    <2>2. Surface' /\ (live => Owned' \subseteq Owned)
      BY <2>1, SurfaceNext DEF HostInv
    <2>3. QED
      BY <2>2 DEF Surface, Owned
  <1>2. QED
    BY <1>1, HostInvHolds, PTL DEF Spec, SurfaceOnlyShrinks

-----------------------------------------------------------------------------
(* The plugin store, when one terminal runs its verbs                      *)

\* The records a verb and the lock file hold have their fields.
JobOk(j) ==
    \/ j = Store!Idle
    \/ /\ j = [f \in {"verb", "step", "n", "kind", "pin", "seen", "v"} |-> j[f]]
       /\ j.verb \in {"install", "update", "uninstall", "enable", "disable"}
       /\ j.n \in Plugins
EntryOk(e) == e = [f \in {"kind", "pin", "v", "on"} |-> e[f]]
StoreShape ==
    /\ lockf = [n \in DOMAIN lockf |-> lockf[n]] /\ DOMAIN lockf \subseteq Plugins
    /\ \A n \in DOMAIN lockf : EntryOk(lockf[n])
    /\ co = [n \in Plugins |-> co[n]] /\ old = [n \in Plugins |-> old[n]]
    /\ job = [t \in Terminals |-> job[t]] /\ \A t \in Terminals : JobOk(job[t])

\* What a verb under way knows, and has done to its plugin, at each of its steps.  Nobody else
\* writes the lock, so it still is what the verb read.
Midway(j) ==
    /\ j.seen = lockf
    /\ j.verb = "install" =>
        /\ j.step \in {"stage", "check", "build", "place", "write"}
        /\ j.step # "stage" => j.v # 0
        /\ j.step \in {"build", "place", "write"} => j.n \notin DOMAIN lockf
        /\ j.step = "write" => co[j.n] = j.v
    /\ j.verb = "update" =>
        /\ j.step \in {"stage", "build", "swap1", "swap2", "swap3", "write"}
        /\ j.n \in DOMAIN lockf /\ j.kind = lockf[j.n].kind
        /\ j.step # "stage" => j.v # 0
        /\ j.step \in {"swap3", "write"} => co[j.n] = j.v
    /\ j.verb = "uninstall" =>
        /\ j.step \in {"remove", "write"} /\ j.n \in DOMAIN lockf \cap leaving
        /\ j.step = "write" => co[j.n] = 0
    /\ j.verb \in {"enable", "disable"} => j.step = "write" /\ j.n \in DOMAIN lockf

\* The checkout of a plugin and its entry agree: there is none the lock does not name and, as
\* long as nothing failed, the lock names none that is not there, each at its version.
AtRest(n) ==
    /\ co[n] # 0 => n \in DOMAIN lockf
    /\ fault = "none" /\ n \in DOMAIN lockf =>
         co[n] # 0 /\ Store!Recorded(lockf[n].kind, co[n]) = lockf[n].v

\* A verb has moved the checkout and not yet written the lock.
Moved(j) ==
    \/ j.verb = "install" /\ j.step = "write"
    \/ j.verb = "update" /\ j.step \in {"swap2", "swap3", "write"}
    \/ j.verb = "uninstall" /\ j.step = "write"

\* A plugin whose checkout no verb has moved agrees with its entry, until a process died between
\* two steps; what has an entry and is not on its way out has a copy even then.
StoreInv ==
    /\ StoreShape
    /\ \A t \in Terminals : job[t] # Store!Idle => Midway(job[t])
    /\ \A n \in DOMAIN lockf \ leaving : co[n] # 0 \/ old[n] # 0
    /\ fault # "crash" =>
         \A n \in Plugins :
            (\A t \in Terminals : job[t] = Store!Idle \/ job[t].n # n \/ ~Moved(job[t]))
               => AtRest(n)

\* Where no verb is under way the property follows.
LEMMA StoreKeeps == StoreInv => NoPluginLost
  BY DEF StoreInv, StoreShape, NoPluginLost, Store!NoPluginLost, Store!LockIsRecord,
         Store!CopySurvives, Store!Quiet, Store!Locked, AtRest

LEMMA StoreInit == Store!Init => StoreInv
  BY DEF Store!Init, StoreInv, StoreShape, JobOk, EntryOk, AtRest, Store!Idle

LEMMA IdleHasNoVerb == ASSUME NEW j, JobOk(j) PROVE (j = Store!Idle) <=> (j.verb = "none")
  BY DEF JobOk, Store!Idle

\* What a step of the verb under way has to show.
LEMMA VerbStep ==
    ASSUME StoreInv, \A s, u \in Terminals : s = u, NEW t \in Terminals,
           NEW j, job' = [job EXCEPT ![t] = j], JobOk(j)',
           lockf' = [n \in DOMAIN lockf' |-> lockf'[n]], DOMAIN lockf' \subseteq Plugins,
           \A n \in DOMAIN lockf' : EntryOk(lockf'[n]),
           co' = [n \in Plugins |-> co'[n]], old' = [n \in Plugins |-> old'[n]],
           j # Store!Idle => Midway(j)',
           \A n \in DOMAIN lockf' \ leaving' : co'[n] # 0 \/ old'[n] # 0,
           fault' # "crash" =>
             \A n \in Plugins : (j = Store!Idle \/ j.n # n \/ ~Moved(j)) => AtRest(n)'
    PROVE  StoreInv'
  <1>1. /\ job'[t] = j /\ job' = [s \in Terminals |-> job'[s]]
        /\ \A s \in Terminals : s = t
    BY DEF StoreInv, StoreShape
  <1>2. StoreShape'
    BY <1>1 DEF StoreShape
  <1> QED BY <1>1, <1>2 DEF StoreInv, Moved

\* A verb begins: it has read the lock and done nothing yet.
LEMMA BeginKeeps ==
    ASSUME StoreInv, \A s, u \in Terminals : s = u, ~Ages,
           NEW t \in Terminals, NEW n \in Plugins, NEW verb, NEW step, NEW kind, NEW pin,
           Store!Begin(t, n, verb, step, kind, pin, lockf),
           \/ verb = "install" /\ step = "stage"
           \/ verb = "update" /\ step = "stage" /\ n \in DOMAIN lockf /\ kind = lockf[n].kind
           \/ verb = "uninstall" /\ step = "remove" /\ n \in DOMAIN lockf
           \/ verb \in {"enable", "disable"} /\ step = "write" /\ n \in DOMAIN lockf,
           UNCHANGED <<lockf, co, old, fault>>,
           leaving' = IF verb = "uninstall" THEN leaving \cup {n} ELSE leaving
    PROVE  StoreInv'
  <1>1. PICK j : j = [verb |-> verb, step |-> step, n |-> n, kind |-> kind, pin |-> pin,
                         seen |-> lockf, v |-> 0]
    OBVIOUS
  <1>2. /\ job' = [job EXCEPT ![t] = j] /\ job[t] = Store!Idle
        /\ j.verb = verb /\ j.step = step /\ j.n = n /\ j.kind = kind /\ j.seen = lockf
    BY <1>1 DEF Store!Begin
  <1>3. JobOk(j)
    BY <1>1 DEF JobOk
  <1>4. Midway(j)'
    BY <1>2 DEF Midway
  <1>5. ASSUME fault # "crash", NEW m \in Plugins PROVE AtRest(m)'
    <2>1. AtRest(m)
      BY <1>2, <1>5 DEF StoreInv
    <2> QED BY <2>1 DEF AtRest
  <1>6. /\ lockf = [m \in DOMAIN lockf |-> lockf[m]] /\ DOMAIN lockf \subseteq Plugins
        /\ \A m \in DOMAIN lockf : EntryOk(lockf[m])
        /\ co = [m \in Plugins |-> co[m]] /\ old = [m \in Plugins |-> old[m]]
        /\ \A m \in DOMAIN lockf \ leaving : co[m] # 0 \/ old[m] # 0
    BY DEF StoreInv, StoreShape
  <1> QED BY <1>2, <1>3, <1>4, <1>5, <1>6, VerbStep


\* What is known of the verb under way.
LEMMA VerbIs ==
    ASSUME StoreInv, NEW t \in Terminals, job[t].verb # "none"
    PROVE  /\ job[t] # Store!Idle /\ JobOk(job[t]) /\ Midway(job[t])
           /\ job[t].n \in Plugins
           /\ job[t].verb \in {"install", "update", "uninstall", "enable", "disable"}
           /\ \A n \in DOMAIN lockf \ leaving : co[n] # 0 \/ old[n] # 0
           /\ lockf = [m \in DOMAIN lockf |-> lockf[m]] /\ DOMAIN lockf \subseteq Plugins
           /\ \A m \in DOMAIN lockf : EntryOk(lockf[m])
           /\ co = [m \in Plugins |-> co[m]] /\ old = [m \in Plugins |-> old[m]]
  BY DEF StoreInv, StoreShape, JobOk, Store!Idle

\* ... and of the plugins: one the verb is not at, and the one it is at until it is moved.
LEMMA VerbLeaves ==
    ASSUME StoreInv, \A s, u \in Terminals : s = u, NEW t \in Terminals, fault # "crash",
           NEW n \in Plugins, job[t] = Store!Idle \/ job[t].n # n \/ ~Moved(job[t])
    PROVE  AtRest(n)
  BY DEF StoreInv

\* A verb that goes on, or ends, and has not touched the disk.
LEMMA StayStep ==
    ASSUME StoreInv, \A s, u \in Terminals : s = u, NEW t \in Terminals, job[t].verb # "none",
           UNCHANGED <<lockf, co, old, leaving, fault>>,
           NEW j, job' = [job EXCEPT ![t] = j], JobOk(j),
           j # Store!Idle => Midway(j) /\ j.n = job[t].n /\ (Moved(job[t]) => Moved(j)),
           j = Store!Idle => ~Moved(job[t])
    PROVE  StoreInv'
  <1>1. ASSUME fault # "crash", NEW n \in Plugins, j = Store!Idle \/ j.n # n \/ ~Moved(j)
        PROVE  AtRest(n)'
    <2>1. AtRest(n)
      BY <1>1, VerbLeaves
    <2> QED BY <2>1 DEF AtRest
  <1>2. j # Store!Idle => Midway(j)'
    BY DEF Midway
  <1> QED BY <1>1, <1>2, VerbIs, VerbStep

\* A verb's record g follows r: the fields it may change, and the rest.
Goes(r, g, step, v, seen) ==
    /\ g.verb = r.verb /\ g.n = r.n /\ g.kind = r.kind /\ g.step = step /\ g.v = v /\ g.seen = seen
    /\ JobOk(g) /\ g # Store!Idle

\* The three ways a verb's record changes.
LEMMA VerbGoes ==
    ASSUME NEW r, JobOk(r), r # Store!Idle, NEW step, NEW v, NEW seen
    PROVE  /\ Goes(r, [r EXCEPT !.step = step], step, r.v, r.seen)
           /\ Goes(r, [r EXCEPT !.v = v, !.step = step], step, v, r.seen)
           /\ Goes(r, [r EXCEPT !.step = step, !.seen = seen], step, r.v, seen)
  <1>1. /\ r = [f \in {"verb", "step", "n", "kind", "pin", "seen", "v"} |-> r[f]]
        /\ r.verb \in {"install", "update", "uninstall", "enable", "disable"}
        /\ r.n \in Plugins
    BY DEF JobOk
  <1>2. ASSUME NEW h, NEW w, NEW x,
               h = [f \in {"verb", "step", "n", "kind", "pin", "seen", "v"} |-> h[f]],
               h.verb = r.verb, h.n = r.n, h.kind = r.kind, h.step = step, h.v = w, h.seen = x
        PROVE  Goes(r, h, step, w, x)
    <2>1. h # Store!Idle
      BY <1>1, <1>2 DEF Store!Idle
    <2>2. JobOk(h)
      BY <1>1, <1>2 DEF JobOk
    <2> QED BY <1>2, <2>1, <2>2 DEF Goes
  <1>3. Goes(r, [r EXCEPT !.step = step], step, r.v, r.seen)
    BY <1>1, <1>2
  <1>4. Goes(r, [r EXCEPT !.v = v, !.step = step], step, v, r.seen)
    BY <1>1, <1>2
  <1>5. Goes(r, [r EXCEPT !.step = step, !.seen = seen], step, r.v, seen)
    BY <1>1, <1>2
  <1> QED BY <1>3, <1>4, <1>5

LEMMA StageKeeps ==
    ASSUME StoreInv, \A s, u \in Terminals : s = u, NEW t \in Terminals, Store!Stage(t)
    PROVE  StoreInv'
  <1>1. /\ job[t].verb \in {"install", "update"} /\ job[t].step = "stage"
        /\ UNCHANGED <<lockf, co, old, leaving, fault>>
    BY DEF Store!Stage, Store!disk
  <1>2. ~Moved(job[t]) /\ Midway(job[t])
    BY <1>1, VerbIs DEF Moved
  <1>3. CASE job' = [job EXCEPT ![t] = Store!Idle]
    BY <1>1, <1>2, <1>3, StayStep DEF JobOk
  <1>4. ASSUME NEW v, v # 0,
               job' = [job EXCEPT ![t].v = v,
                       ![t].step = IF job[t].verb = "install" THEN "check" ELSE "build"]
        PROVE  StoreInv'
    <2>1. PICK step : step = IF job[t].verb = "install" THEN "check" ELSE "build"
      OBVIOUS
    <2>2. PICK j : j = [job[t] EXCEPT !.v = v, !.step = step]
      OBVIOUS
    <2>3. job' = [job EXCEPT ![t] = j] /\ Goes(job[t], j, step, v, job[t].seen)
      BY <1>1, <1>4, <2>1, <2>2, VerbIs, VerbGoes DEF StoreInv, StoreShape
    <2>4. Midway(j)
      BY <2>1, <2>3, <1>1, <1>2, <1>4 DEF Goes, Midway
    <2> QED BY <1>1, <1>2, <2>3, <2>4, StayStep DEF Goes
  <1> QED BY <1>3, <1>4 DEF Store!Stage, Store!Done

LEMMA CheckKeeps ==
    ASSUME StoreInv, \A s, u \in Terminals : s = u, NEW t \in Terminals, Store!Check(t)
    PROVE  StoreInv'
  <1>1. /\ job[t].verb = "install" /\ job[t].step = "check"
        /\ UNCHANGED <<lockf, co, old, leaving, fault>>
    BY DEF Store!Check, Store!Doing, Store!disk
  <1>2. ~Moved(job[t]) /\ Midway(job[t])
    BY <1>1, VerbIs DEF Moved
  <1>3. CASE job' = [job EXCEPT ![t] = Store!Idle]
    BY <1>1, <1>2, <1>3, StayStep DEF JobOk
  <1>4. CASE job' = [job EXCEPT ![t].step = "build", ![t].seen = lockf] /\ ~Store!Locked(job[t].n)
    <2>2. PICK j : j = [job[t] EXCEPT !.step = "build", !.seen = lockf]
      OBVIOUS
    <2>3. job' = [job EXCEPT ![t] = j] /\ Goes(job[t], j, "build", job[t].v, lockf)
      BY <1>1, <1>4, <2>2, VerbIs, VerbGoes DEF StoreInv, StoreShape
    <2>4. Midway(j)
      BY <2>3, <1>1, <1>2, <1>4 DEF Goes, Midway, Store!Locked
    <2> QED BY <1>1, <1>2, <2>3, <2>4, StayStep DEF Goes
  <1> QED BY <1>3, <1>4 DEF Store!Check, Store!Done

LEMMA BuildKeeps ==
    ASSUME StoreInv, \A s, u \in Terminals : s = u, NEW t \in Terminals, Store!Build(t)
    PROVE  StoreInv'
  <1>1. /\ job[t].verb \in {"install", "update"} /\ job[t].step = "build"
        /\ UNCHANGED <<lockf, co, old, leaving, fault>>
    BY DEF Store!Build, Store!disk
  <1>2. ~Moved(job[t]) /\ Midway(job[t])
    BY <1>1, VerbIs DEF Moved
  <1>3. CASE job' = [job EXCEPT ![t] = Store!Idle]
    BY <1>1, <1>2, <1>3, StayStep DEF JobOk
  <1>4. PICK step : step = IF job[t].verb = "install" THEN "place" ELSE "swap1"
    OBVIOUS
  <1>5. CASE job' = [job EXCEPT ![t].step = step]
    <2>2. PICK j : j = [job[t] EXCEPT !.step = step]
      OBVIOUS
    <2>3. job' = [job EXCEPT ![t] = j] /\ Goes(job[t], j, step, job[t].v, job[t].seen)
      BY <1>1, <1>5, <2>2, VerbIs, VerbGoes DEF StoreInv, StoreShape
    <2>4. Midway(j)
      BY <1>4, <2>3, <1>1, <1>2 DEF Goes, Midway
    <2> QED BY <1>1, <1>2, <2>3, <2>4, StayStep DEF Goes
  <1> QED BY <1>3, <1>4, <1>5 DEF Store!Build, Store!Done, Store!Goto

\* A verb that moves the checkout of its plugin n, or its backup, and goes on.
LEMMA MoveStep ==
    ASSUME StoreInv, \A s, u \in Terminals : s = u, NEW t \in Terminals, job[t].verb # "none",
           UNCHANGED <<lockf, leaving, fault>>,
           NEW step, job' = [job EXCEPT ![t].step = step],
           NEW c, NEW o, co' = [co EXCEPT ![job[t].n] = c], old' = [old EXCEPT ![job[t].n] = o],
           \A j : Goes(job[t], j, step, job[t].v, job[t].seen) => Moved(j) /\ Midway(j)',
           job[t].n \in DOMAIN lockf \ leaving => c # 0 \/ o # 0
    PROVE  StoreInv'
  <1>1. PICK j : j = [job[t] EXCEPT !.step = step]
    OBVIOUS
  <1>2. job' = [job EXCEPT ![t] = j] /\ Goes(job[t], j, step, job[t].v, job[t].seen)
    BY <1>1, VerbIs, VerbGoes DEF StoreInv, StoreShape
  <1>3. Moved(j) /\ Midway(j)'
    BY <1>2
  <1>4. /\ co' = [n \in Plugins |-> co'[n]] /\ old' = [n \in Plugins |-> old'[n]]
        /\ co'[job[t].n] = c /\ old'[job[t].n] = o
        /\ \A n \in Plugins : n # job[t].n => co'[n] = co[n] /\ old'[n] = old[n]
    BY VerbIs
  <1>5. ASSUME NEW n \in DOMAIN lockf' \ leaving' PROVE co'[n] # 0 \/ old'[n] # 0
    BY <1>4, <1>5, VerbIs
  <1>6. ASSUME fault' # "crash", NEW n \in Plugins, j = Store!Idle \/ j.n # n \/ ~Moved(j)
        PROVE  AtRest(n)'
    <2>1. n # job[t].n
      BY <1>2, <1>3, <1>6 DEF Goes
    <2>2. AtRest(n)
      BY <1>6, <2>1, VerbLeaves
    <2> QED BY <2>1, <2>2, <1>4 DEF AtRest
  <1>7. JobOk(j)' /\ (j # Store!Idle => Midway(j)')
    BY <1>2, <1>3 DEF Goes, JobOk
  <1>8. /\ lockf' = [n \in DOMAIN lockf' |-> lockf'[n]] /\ DOMAIN lockf' \subseteq Plugins
        /\ \A n \in DOMAIN lockf' : EntryOk(lockf'[n])
    BY VerbIs
  <1> QED BY <1>2, <1>4, <1>5, <1>6, <1>7, <1>8, VerbStep

LEMMA PlaceKeeps ==
    ASSUME StoreInv, \A s, u \in Terminals : s = u, NEW t \in Terminals, Store!Place(t)
    PROVE  StoreInv'
  <1>1. /\ job[t].verb = "install" /\ job[t].step = "place"
        /\ UNCHANGED <<lockf, old, leaving, fault>>
    BY DEF Store!Place, Store!Doing
  <1>2. ~Moved(job[t]) /\ Midway(job[t]) /\ job[t].n \in Plugins
    BY <1>1, VerbIs DEF Moved
  <1>3. CASE job' = [job EXCEPT ![t] = Store!Idle] /\ UNCHANGED co
    BY <1>1, <1>2, <1>3, StayStep DEF JobOk
  <1>4. CASE job' = [job EXCEPT ![t].step = "write"] /\ co' = [co EXCEPT ![job[t].n] = job[t].v]
    <2>1. ASSUME NEW j, Goes(job[t], j, "write", job[t].v, job[t].seen)
          PROVE  Moved(j) /\ Midway(j)'
      BY <1>1, <1>2, <1>4, <2>1, VerbIs DEF Goes, Moved, Midway
    <2>2. old' = [old EXCEPT ![job[t].n] = old[job[t].n]]
      BY <1>1, VerbIs
    <2>3. job[t].n \notin DOMAIN lockf
      BY <1>1, <1>2 DEF Midway
    <2> QED BY <1>1, <1>4, <2>1, <2>2, <2>3, MoveStep
  <1> QED BY <1>3, <1>4 DEF Store!Place, Store!Done, Store!Goto

LEMMA Swap1Keeps ==
    ASSUME StoreInv, \A s, u \in Terminals : s = u, NEW t \in Terminals, Store!Swap1(t)
    PROVE  StoreInv'
  <1>1. /\ job[t].verb = "update" /\ job[t].step = "swap1"
        /\ UNCHANGED <<lockf, leaving, fault>>
        /\ job' = [job EXCEPT ![t].step = "swap2"]
    BY DEF Store!Swap1, Store!Doing, Store!Goto
  <1>2. Midway(job[t]) /\ job[t].n \in Plugins
    BY <1>1, VerbIs
  <1>3. ASSUME NEW j, Goes(job[t], j, "swap2", job[t].v, job[t].seen)
        PROVE  Moved(j) /\ Midway(j)'
    BY <1>1, <1>2, <1>3 DEF Goes, Moved, Midway
  <1>4. CASE co[job[t].n] = 0
    <2>1. /\ co' = [co EXCEPT ![job[t].n] = co[job[t].n]]
             /\ old' = [old EXCEPT ![job[t].n] = old[job[t].n]]
      BY <1>1, <1>4, VerbIs DEF Store!Swap1
    <2>2. job[t].n \in DOMAIN lockf \ leaving => co[job[t].n] # 0 \/ old[job[t].n] # 0
      BY <1>1, VerbIs
    <2> QED BY <1>1, <1>3, <2>1, <2>2, MoveStep
  <1>5. CASE co[job[t].n] # 0
    <2>1. /\ co' = [co EXCEPT ![job[t].n] = 0] /\ old' = [old EXCEPT ![job[t].n] = co[job[t].n]]
      BY <1>5 DEF Store!Swap1
    <2> QED BY <1>1, <1>3, <1>5, <2>1, MoveStep
  <1> QED BY <1>4, <1>5

LEMMA Swap2Keeps ==
    ASSUME StoreInv, \A s, u \in Terminals : s = u, NEW t \in Terminals, Store!Swap2(t)
    PROVE  StoreInv'
  <1>1. /\ job[t].verb = "update" /\ job[t].step = "swap2"
        /\ UNCHANGED <<lockf, old, leaving, fault>>
        /\ job' = [job EXCEPT ![t].step = "swap3"] /\ co' = [co EXCEPT ![job[t].n] = job[t].v]
    BY DEF Store!Swap2, Store!Doing, Store!Goto
  <1>2. Midway(job[t]) /\ job[t].n \in Plugins /\ co'[job[t].n] = job[t].v
    BY <1>1, VerbIs
  <1>3. ASSUME NEW j, Goes(job[t], j, "swap3", job[t].v, job[t].seen)
        PROVE  Moved(j) /\ Midway(j)'
    BY <1>1, <1>2, <1>3 DEF Goes, Moved, Midway
  <1>4. old' = [old EXCEPT ![job[t].n] = old[job[t].n]]
    BY <1>1, VerbIs
  <1>5. job[t].v # 0
    BY <1>1, <1>2 DEF Midway
  <1> QED BY <1>1, <1>3, <1>4, <1>5, MoveStep

LEMMA Swap3Keeps ==
    ASSUME StoreInv, \A s, u \in Terminals : s = u, NEW t \in Terminals, Store!Swap3(t)
    PROVE  StoreInv'
  <1>1. /\ job[t].verb = "update" /\ job[t].step = "swap3"
        /\ UNCHANGED <<lockf, co, leaving, fault>>
        /\ job' = [job EXCEPT ![t].step = "write"] /\ old' = [old EXCEPT ![job[t].n] = 0]
    BY DEF Store!Swap3, Store!Doing, Store!Goto
  <1>2. Midway(job[t]) /\ job[t].n \in Plugins
    BY <1>1, VerbIs
  <1>3. ASSUME NEW j, Goes(job[t], j, "write", job[t].v, job[t].seen)
        PROVE  Moved(j) /\ Midway(j)'
    BY <1>1, <1>2, <1>3 DEF Goes, Moved, Midway
  <1>4. co' = [co EXCEPT ![job[t].n] = co[job[t].n]]
    BY <1>1, VerbIs
  <1>5. co[job[t].n] # 0
    BY <1>1, <1>2 DEF Midway
  <1> QED BY <1>1, <1>3, <1>4, <1>5, MoveStep

LEMMA RemoveKeeps ==
    ASSUME StoreInv, \A s, u \in Terminals : s = u, NEW t \in Terminals, Store!Remove(t)
    PROVE  StoreInv'
  <1>1. /\ job[t].verb = "uninstall" /\ job[t].step = "remove"
        /\ UNCHANGED <<lockf, leaving, fault>>
        /\ job' = [job EXCEPT ![t].step = "write"]
        /\ co' = [co EXCEPT ![job[t].n] = 0] /\ old' = [old EXCEPT ![job[t].n] = 0]
    BY DEF Store!Remove, Store!Doing, Store!Goto
  <1>2. Midway(job[t]) /\ job[t].n \in Plugins /\ co'[job[t].n] = 0
    BY <1>1, VerbIs
  <1>3. ASSUME NEW j, Goes(job[t], j, "write", job[t].v, job[t].seen)
        PROVE  Moved(j) /\ Midway(j)'
    BY <1>1, <1>2, <1>3 DEF Goes, Moved, Midway
  <1>4. job[t].n \in leaving
    BY <1>1, <1>2 DEF Midway
  <1> QED BY <1>1, <1>3, <1>4, MoveStep

\* A verb ends: its plugin agrees with its entry, or has lost what it had to.
LEMMA EndStep ==
    ASSUME StoreInv, \A s, u \in Terminals : s = u, NEW t \in Terminals, job[t].verb # "none",
           NEW m, m = job[t].n, job' = [job EXCEPT ![t] = Store!Idle], UNCHANGED old,
           lockf' = [n \in DOMAIN lockf' |-> lockf'[n]], DOMAIN lockf' \subseteq Plugins,
           \A n \in DOMAIN lockf' : EntryOk(lockf'[n]),
           co' = [n \in Plugins |-> co'[n]],
           \A n \in DOMAIN lockf' \ leaving' : co'[n] # 0 \/ old'[n] # 0,
           fault' # "crash" => fault # "crash" /\ AtRest(m)',
           \A n \in Plugins : n # m =>
             /\ n \in DOMAIN lockf' <=> n \in DOMAIN lockf
             /\ n \in DOMAIN lockf => lockf'[n] = lockf[n]
             /\ co'[n] = co[n],
           fault' = "none" => fault = "none"
    PROVE  StoreInv'
  <1>1. ASSUME fault' # "crash", NEW n \in Plugins PROVE AtRest(n)'
    <2>1. CASE n # m
      <3>1. AtRest(n)
        BY <1>1, <2>1, VerbLeaves
      <3> QED BY <2>1, <3>1 DEF AtRest
    <2> QED BY <1>1, <2>1
  <1>2. JobOk(Store!Idle) /\ old = [n \in Plugins |-> old[n]]
    BY VerbIs DEF JobOk
  <1>3. PICK j : j = Store!Idle
    OBVIOUS
  <1>4. job' = [job EXCEPT ![t] = j] /\ JobOk(j)'
    BY <1>2, <1>3 DEF JobOk
  <1> QED BY <1>1, <1>2, <1>3, <1>4, VerbStep

\* A lock w that differs from the lock f for the plugin n only.
LockWrites(w, f, n) ==
    /\ w = [m \in DOMAIN w |-> w[m]] /\ DOMAIN w \subseteq Plugins
    /\ \A m \in DOMAIN w : EntryOk(w[m])
    /\ \A m \in Plugins : m # n =>
         (m \in DOMAIN w <=> m \in DOMAIN f) /\ (m \in DOMAIN f => w[m] = f[m])

LEMMA WithWrites ==
    ASSUME NEW f, f = [m \in DOMAIN f |-> f[m]], DOMAIN f \subseteq Plugins,
           \A m \in DOMAIN f : EntryOk(f[m]),
           NEW n \in Plugins, NEW e, EntryOk(e), NEW w, w = Store!With(f, n, e)
    PROVE  LockWrites(w, f, n) /\ n \in DOMAIN w /\ w[n] = e
  <1>1. DOMAIN w = DOMAIN f \cup {n} /\ w = [m \in DOMAIN w |-> w[m]]
    BY DEF Store!With
  <1>2. \A m \in DOMAIN w : w[m] = IF m = n THEN e ELSE f[m]
    BY DEF Store!With
  <1> QED BY <1>1, <1>2 DEF LockWrites

LEMMA WithoutWrites ==
    ASSUME NEW f, f = [m \in DOMAIN f |-> f[m]], DOMAIN f \subseteq Plugins,
           \A m \in DOMAIN f : EntryOk(f[m]), NEW n \in Plugins, NEW w, w = Store!Without(f, n)
    PROVE  LockWrites(w, f, n) /\ n \notin DOMAIN w
  <1>1. DOMAIN w = DOMAIN f \ {n} /\ w = [m \in DOMAIN w |-> w[m]]
    BY DEF Store!Without
  <1>2. \A m \in DOMAIN w : w[m] = f[m]
    BY DEF Store!Without
  <1> QED BY <1>1, <1>2 DEF LockWrites

\* What Write makes of the lock, by verb.
LEMMA WrittenIs ==
    ASSUME NEW j, JobOk(j), j # Store!Idle, NEW f, j.seen = f, f = [m \in DOMAIN f |-> f[m]],
           DOMAIN f \subseteq Plugins, \A m \in DOMAIN f : EntryOk(f[m]),
           j.verb # "install" => j.n \in DOMAIN f, NEW w, w = Store!Written(j), NEW n, n = j.n
    PROVE  /\ LockWrites(w, f, n)
           /\ n \in DOMAIN w <=> j.verb # "uninstall"
           /\ j.verb = "install" => w[n].kind = j.kind /\ w[n].v = Store!Recorded(j.kind, j.v)
           /\ j.verb = "update" => w[n].kind = f[n].kind /\ w[n].v = Store!Recorded(j.kind, j.v)
           /\ j.verb \in {"enable", "disable"} => w[n].kind = f[n].kind /\ w[n].v = f[n].v
  <1>1. n \in Plugins /\ j.verb \in {"install", "update", "uninstall", "enable", "disable"}
    BY DEF JobOk
  <1>2. CASE j.verb = "install"
    <2>1. PICK e : e = Store!Entry(j.kind, j.pin, Store!Recorded(j.kind, j.v), TRUE)
      OBVIOUS
    <2>2. EntryOk(e) /\ e.kind = j.kind /\ e.v = Store!Recorded(j.kind, j.v)
      BY <2>1 DEF EntryOk, Store!Entry
    <2>3. w = Store!With(f, n, e)
      BY <1>2, <2>1 DEF Store!Written
    <2> QED BY <1>1, <1>2, <2>2, <2>3, WithWrites
  <1>3. CASE j.verb = "update"
    <2>1. PICK e : e = [f[n] EXCEPT !.v = Store!Recorded(j.kind, j.v)]
      OBVIOUS
    <2>2. EntryOk(f[n])
      BY <1>3
    <2>3. EntryOk(e) /\ e.kind = f[n].kind /\ e.v = Store!Recorded(j.kind, j.v)
      BY <2>1, <2>2 DEF EntryOk
    <2>4. w = Store!With(f, n, e)
      BY <1>3, <2>1 DEF Store!Written
    <2> QED BY <1>1, <1>3, <2>3, <2>4, WithWrites
  <1>4. CASE j.verb = "uninstall"
    <2>1. w = Store!Without(f, n)
      BY <1>4 DEF Store!Written
    <2> QED BY <1>1, <1>4, <2>1, WithoutWrites
  <1>5. CASE j.verb \in {"enable", "disable"}
    <2>1. PICK e : e = [f[n] EXCEPT !.on = (j.verb = "enable")]
      OBVIOUS
    <2>2. EntryOk(f[n])
      BY <1>5
    <2>3. EntryOk(e) /\ e.kind = f[n].kind /\ e.v = f[n].v
      BY <2>1, <2>2 DEF EntryOk
    <2>4. w = Store!With(f, n, e)
      BY <1>5, <2>1 DEF Store!Written
    <2> QED BY <1>1, <1>5, <2>3, <2>4, WithWrites
  <1> QED BY <1>1, <1>2, <1>3, <1>4, <1>5

LEMMA WriteLockKeeps ==
    ASSUME StoreInv, \A s, u \in Terminals : s = u, NEW t \in Terminals, Store!WriteLock(t)
    PROVE  StoreInv'
  <1>1. /\ job[t].verb # "none" /\ job[t].step = "write" /\ lockf' = Store!Written(job[t])
        /\ job' = [job EXCEPT ![t] = Store!Idle] /\ UNCHANGED <<co, old, fault>>
        /\ leaving' = IF job[t].verb = "install" THEN leaving \ {job[t].n} ELSE leaving
    BY IdleHasNoVerb DEF Store!WriteLock, Store!Done, StoreInv, StoreShape
  <1>2. PICK j, n : j = job[t] /\ n = j.n
    OBVIOUS
  <1>3. /\ j # Store!Idle /\ JobOk(j) /\ Midway(j) /\ n \in Plugins
        /\ j.verb \in {"install", "update", "uninstall", "enable", "disable"}
    BY <1>1, <1>2, VerbIs
  <1>4. /\ j.seen = lockf /\ (j.verb # "install" => n \in DOMAIN lockf)
        /\ j.verb = "install" => co[n] = j.v /\ j.v # 0
        /\ j.verb = "update" => co[n] = j.v /\ j.v # 0 /\ j.kind = lockf[n].kind
        /\ j.verb = "uninstall" => co[n] = 0 /\ n \in leaving
    BY <1>1, <1>2, <1>3 DEF Midway
  <1>5. /\ LockWrites(lockf', lockf, n)
        /\ n \in DOMAIN lockf' <=> j.verb # "uninstall"
        /\ j.verb = "install" => lockf'[n].kind = j.kind
           /\ lockf'[n].v = Store!Recorded(j.kind, j.v)
        /\ j.verb = "update" => lockf'[n].kind = lockf[n].kind
           /\ lockf'[n].v = Store!Recorded(j.kind, j.v)
        /\ j.verb \in {"enable", "disable"} => lockf'[n].kind = lockf[n].kind
           /\ lockf'[n].v = lockf[n].v
    BY <1>1, <1>2, <1>3, <1>4, WrittenIs, VerbIs
  <1>6. ASSUME fault' # "crash" PROVE AtRest(n)'
    <2>1. CASE j.verb \in {"install", "update", "uninstall"}
      BY <1>1, <1>3, <1>4, <1>5, <2>1 DEF AtRest
    <2>2. CASE j.verb \in {"enable", "disable"}
      <3>1. AtRest(n)
        BY <1>1, <1>2, <1>3, <1>6, <2>2, VerbLeaves DEF Moved
      <3> QED BY <1>1, <1>4, <1>5, <2>2, <3>1 DEF AtRest
    <2> QED BY <1>3, <2>1, <2>2
  <1>7. ASSUME NEW m \in DOMAIN lockf' \ leaving' PROVE co'[m] # 0 \/ old'[m] # 0
    <2>1. CASE m # n
      <3>1. m \in DOMAIN lockf \ leaving
        BY <1>1, <1>2, <1>5, <1>7, <2>1 DEF LockWrites
      <3> QED BY <1>1, <3>1, VerbIs
    <2>2. CASE m = n /\ j.verb \in {"enable", "disable"}
      <3>1. m \in DOMAIN lockf \ leaving
        BY <1>1, <1>2, <1>4, <1>7, <2>2
      <3> QED BY <1>1, <3>1, VerbIs
    <2>3. CASE m = n /\ j.verb \in {"install", "update", "uninstall"}
      BY <1>1, <1>4, <1>5, <1>7, <2>3
    <2> QED BY <1>3, <2>1, <2>2, <2>3
  <1>8. co' = [m \in Plugins |-> co'[m]]
    BY <1>1, VerbIs
  <1>9. fault' # "crash" => fault # "crash"
    BY <1>1
  <1>10. \A m \in Plugins : m # n =>
             /\ m \in DOMAIN lockf' <=> m \in DOMAIN lockf
             /\ m \in DOMAIN lockf => lockf'[m] = lockf[m]
             /\ co'[m] = co[m]
    BY <1>1, <1>5 DEF LockWrites
  <1>11. /\ lockf' = [m \in DOMAIN lockf' |-> lockf'[m]] /\ DOMAIN lockf' \subseteq Plugins
         /\ \A m \in DOMAIN lockf' : EntryOk(lockf'[m])
    BY <1>5 DEF LockWrites
  <1> QED BY <1>1, <1>2, <1>6, <1>7, <1>8, <1>9, <1>10, <1>11, EndStep

LEMMA WriteFailsKeeps ==
    ASSUME StoreInv, \A s, u \in Terminals : s = u, NEW t \in Terminals, Store!WriteFails(t)
    PROVE  StoreInv'
  <1>1. /\ job[t].verb # "none" /\ job[t].step = "write" /\ fault = "none" /\ fault' = "write"
        /\ job' = [job EXCEPT ![t] = Store!Idle] /\ UNCHANGED <<lockf, old, leaving>>
        /\ co' = IF job[t].verb = "install" THEN [co EXCEPT ![job[t].n] = 0] ELSE co
    BY IdleHasNoVerb DEF Store!WriteFails, Store!Done, StoreInv, StoreShape
  <1>2. PICK j, n : j = job[t] /\ n = j.n
    OBVIOUS
  <1>3. /\ j # Store!Idle /\ JobOk(j) /\ Midway(j) /\ n \in Plugins
        /\ j.verb \in {"install", "update", "uninstall", "enable", "disable"}
    BY <1>1, <1>2, VerbIs
  <1>4. /\ j.verb = "install" => n \notin DOMAIN lockf /\ co'[n] = 0
        /\ j.verb # "install" => n \in DOMAIN lockf
        /\ \A m \in Plugins : m # n => co'[m] = co[m]
        /\ j.verb # "install" => co' = co
        /\ co' = [m \in Plugins |-> co'[m]]
    BY <1>1, <1>2, <1>3, VerbIs DEF Midway
  <1>5. AtRest(n)'
    BY <1>1, <1>4 DEF AtRest
  <1>6. ASSUME NEW m \in DOMAIN lockf' \ leaving' PROVE co'[m] # 0 \/ old'[m] # 0
    <2>1. m \in DOMAIN lockf \ leaving /\ m \in Plugins
      BY <1>1, <1>6, VerbIs
    <2>2. co[m] # 0 \/ old[m] # 0
      BY <1>1, <2>1, VerbIs
    <2>3. co'[m] = co[m]
      BY <1>4, <2>1
    <2> QED BY <1>1, <2>2, <2>3
  <1>7. /\ lockf' = [m \in DOMAIN lockf' |-> lockf'[m]] /\ DOMAIN lockf' \subseteq Plugins
        /\ \A m \in DOMAIN lockf' : EntryOk(lockf'[m])
    BY <1>1, VerbIs
  <1> QED BY <1>1, <1>2, <1>4, <1>5, <1>6, <1>7, EndStep

LEMMA CrashKeeps ==
    ASSUME StoreInv, \A s, u \in Terminals : s = u, NEW t \in Terminals, Store!Crash(t)
    PROVE  StoreInv'
  <1>1. /\ job[t].verb # "none" /\ fault' = "crash"
        /\ job' = [job EXCEPT ![t] = Store!Idle] /\ UNCHANGED <<lockf, co, old, leaving>>
    BY IdleHasNoVerb DEF Store!Crash, Store!Done, Store!disk, StoreInv, StoreShape
  <1>2. PICK n : n = job[t].n
    OBVIOUS
  <1>3. /\ lockf' = [m \in DOMAIN lockf' |-> lockf'[m]] /\ DOMAIN lockf' \subseteq Plugins
        /\ \A m \in DOMAIN lockf' : EntryOk(lockf'[m])
        /\ co' = [m \in Plugins |-> co'[m]]
        /\ \A m \in DOMAIN lockf' \ leaving' : co'[m] # 0 \/ old'[m] # 0
    BY <1>1, VerbIs
  <1> QED BY <1>1, <1>2, <1>3, EndStep

LEMMA StoreStutters == ASSUME StoreInv, UNCHANGED <<lockf, co, old, job, leaving, fault>>
PROVE StoreInv'
  BY DEF StoreInv, StoreShape, Midway, AtRest

LEMMA BeginsKeep ==
    ASSUME StoreInv, \A s, u \in Terminals : s = u, ~Ages, NEW t \in Terminals, NEW n \in Plugins,
           \/ \E kind \in SourceKinds, pin \in BOOLEAN : Store!Install(t, n, kind, pin)
           \/ Store!Update(t, n) \/ Store!Uninstall(t, n)
           \/ \E verb \in {"enable", "disable"} : Store!SetEnabled(t, n, verb)
    PROVE  StoreInv'
  <1>1. ASSUME NEW kind, NEW pin, Store!Install(t, n, kind, pin) PROVE StoreInv'
    BY <1>1, BeginKeeps DEF Store!Install, Store!Sweep
  <1>2. CASE Store!Update(t, n)
    BY <1>2, BeginKeeps DEF Store!Update, Store!Sweep, Store!Locked
  <1>3. CASE Store!Uninstall(t, n)
    BY <1>3, BeginKeeps DEF Store!Uninstall, Store!Locked, Store!disk
  <1>4. ASSUME NEW verb, Store!SetEnabled(t, n, verb) PROVE StoreInv'
    BY <1>4, BeginKeeps DEF Store!SetEnabled, Store!Locked, Store!disk
  <1> QED BY <1>1, <1>2, <1>3, <1>4

LEMMA StoreNext ==
    ASSUME StoreInv, \A s, u \in Terminals : s = u, ~Ages, [Store!Next]_(Store!vars)
    PROVE  StoreInv'
  <1>1. CASE UNCHANGED Store!vars
    BY <1>1, StoreStutters DEF Store!vars, Store!disk
  <1>2. ASSUME NEW n \in Plugins, Store!Publish(n) PROVE StoreInv'
    BY <1>2, StoreStutters DEF Store!Publish, Store!disk
  <1> QED BY <1>1, <1>2, BeginsKeep, StageKeeps, CheckKeeps, BuildKeeps, PlaceKeeps, Swap1Keeps,
       Swap2Keeps,
             Swap3Keeps, RemoveKeeps, WriteLockKeeps, WriteFailsKeeps, CrashKeeps DEF Store!Next

\* While one terminal runs the verbs, and nothing a crash left is swept, no verb that fails and
\* no crash loses an installed plugin: between verbs the lock is the record of the checkouts
\* there are, and each plugin it names has a copy in its place or beside it (Store.Install,
\* Update, Uninstall, SetEnabled, swapCheckout), whatever the plugins, kinds and versions.
THEOREM NothingInstalledIsLost ==
    ASSUME \A s, u \in Terminals : s = u, ~Ages
    PROVE  Store!Spec => []NoPluginLost
  <1>1. Store!Init => StoreInv
    BY StoreInit
  <1>2. StoreInv /\ [Store!Next]_(Store!vars) => StoreInv'
    BY StoreNext
  <1>3. StoreInv => NoPluginLost
    BY StoreKeeps
  <1> QED BY <1>1, <1>2, <1>3, PTL DEF Store!Spec

-----------------------------------------------------------------------------
(* The trust in a workspace's own plugins                                  *)

\* What the store trusts, a person agreed to and did not take back.
TrustInv == trust # 0 => trust \in agreed

LEMMA TrustNext ==
    ASSUME TrustInv, [Workspace!Next]_(Workspace!vars)
    PROVE  TrustInv' /\ (started' # started /\ started' # 0 => started' \in agreed')
  BY DEF TrustInv, Workspace!Next, Workspace!vars, Workspace!EditWorkspace, Workspace!Trust,
         Workspace!Untrust, Workspace!BootReads, Workspace!BootTrusted, Workspace!BootAnswered

\* A boot starts a workspace's own plugins only with the manifests a person agreed to, whatever
\* the workspace, another terminal and the answer do between its steps (trustedOnly).
THEOREM BootsWhatWasAgreed == Workspace!Spec => RunsWhatWasAgreed
  <1>1. Workspace!Init => TrustInv
    BY DEF Workspace!Init, TrustInv
  <1>2. TrustInv /\ [Workspace!Next]_(Workspace!vars) => TrustInv'
    BY TrustNext
  <1>3. TrustInv /\ [Workspace!Next]_(Workspace!vars)
            => [started' # started /\ started' # 0 => started' \in agreed']_(Workspace!vars)
    BY TrustNext
  <1> QED BY <1>1, <1>2, <1>3, PTL
       DEF Workspace!Spec, RunsWhatWasAgreed, Workspace!RunsWhatWasAgreed
=============================================================================
