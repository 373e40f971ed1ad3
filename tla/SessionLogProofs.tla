--------------------------- MODULE SessionLogProofs ---------------------------
(***************************************************************************)
(* Proofs about SessionLog for every number of processes, sessions, tool   *)
(* uses, crashes and faults, and every limit on the generations that Load  *)
(* follows.                                                                *)
(***************************************************************************)
EXTENDS SessionLog, SequenceTheorems, FiniteSetTheorems, WellFoundedInduction, TLAPS

\* A sequence whose elements lie in a set is a sequence over that set.
LEMMA SeqOver ==
    ASSUME NEW S, NEW T, NEW q \in Seq(S), \A i \in DOMAIN q : q[i] \in T
    PROVE  q \in Seq(T)
  OBVIOUS

\* Two sequences that agree up to n have the same prefix of length n.
LEMMA SamePrefix ==
    ASSUME NEW S, NEW q \in Seq(S), NEW r \in Seq(S), NEW n \in Nat,
           n <= Len(q), n <= Len(r), \A i \in 1..n : q[i] = r[i]
    PROVE  Prefix(q, n) = Prefix(r, n)
  BY DEF Prefix

\* A prefix of a sequence is a sequence over the same set.
LEMMA PrefixType ==
    ASSUME NEW S, NEW q \in Seq(S), NEW n \in 0..Len(q)
    PROVE  /\ Prefix(q, n) \in Seq(S)
           /\ Len(Prefix(q, n)) = n
           /\ \A i \in 1..n : Prefix(q, n)[i] = q[i]
  BY DEF Prefix

\* A flush only adds lines: what the file held stays where it was.
LEMMA FlushedExtends ==
    ASSUME TypeOK, NEW s \in Sessions, NEW q \in Seq(Entry)
    PROVE  /\ Flushed(s, q) \in Seq(Line)
           /\ Len(Flushed(s, q)) \in Nat
           /\ Len(Flushed(s, q)) = Len(file[s]) + Len(q)
           /\ \A i \in 1..Len(file[s]) : Flushed(s, q)[i] = file[s][i]
  <1>1. file[s] \in Seq(Line)
    BY DEF TypeOK
  <1>2. q \in Seq(Line)
    BY SeqOver DEF Line
  <1>3. Bad \in Line
    BY DEF Line
  <1>4. CASE tail[s] = "dead" /\ q # <<>>
    <2>1. <<Bad>> \in Seq(Line) /\ Tail(q) \in Seq(Line) /\ Len(Tail(q)) = Len(q) - 1
      BY <1>2, <1>3, <1>4
    <2>2. Flushed(s, q) = (file[s] \o <<Bad>>) \o Tail(q)
      BY <1>4 DEF Flushed
    <2>3. /\ file[s] \o <<Bad>> \in Seq(Line)
          /\ Len(file[s] \o <<Bad>>) = Len(file[s]) + 1
          /\ \A i \in 1..Len(file[s]) : (file[s] \o <<Bad>>)[i] = file[s][i]
      BY <1>1, <2>1
    <2>4. QED
      BY <1>1, <1>2, <2>1, <2>2, <2>3
  <1>5. CASE ~(tail[s] = "dead" /\ q # <<>>)
    BY <1>1, <1>2, <1>5 DEF Flushed
  <1>6. QED
    BY <1>4, <1>5

-----------------------------------------------------------------------------
(* Type correctness.                                                       *)

\* The entries Append and Fork build are entries.
LEMMA EntryTypes ==
    ASSUME NEW n \in Nat, NEW u \in Uses \cup {None}, NEW s \in Sessions, NEW e \in Nat
    PROVE  /\ \A k \in Kinds : NewEntry(n, k, u) \in Entry
           /\ ForkPoint(n, s, e) \in Entry
  BY DEF NewEntry, ForkPoint, Entry, Kinds

\* An update of one session's slot in one process.
LEMMA PutType ==
    ASSUME NEW T, NEW f \in [Procs -> [Sessions -> T]], NEW p \in Procs, NEW s \in Sessions, NEW v \in T
    PROVE  Put(f, p, s, v) \in [Procs -> [Sessions -> T]]
  BY DEF Put

\* What Forget leaves is well typed.
LEMMA ForgetType ==
    ASSUME TypeOK, NEW p \in Procs, NEW s \in Sessions, Forget(p, s)
    PROVE  /\ lock' \in [Sessions -> Procs \cup {None}]
           /\ pc' \in [Procs -> [Sessions -> States]]
           /\ own' \in [Procs -> [Sessions -> Seq(Entry)]]
           /\ buf' \in [Procs -> [Sessions -> Seq(Entry)]]
  <1>1. "none" \in States /\ <<>> \in Seq(Entry)
    BY DEF States
  <1>2. QED
    BY <1>1, PutType DEF Forget, TypeOK

\* What a Sync of a process's buffer writes is well typed.
LEMMA SyncType ==
    ASSUME TypeOK, NEW p \in Procs, NEW s \in Sessions
    PROVE  /\ buf[p][s] \in Seq(Entry)
           /\ Flushed(s, buf[p][s]) \in Seq(Line)
           /\ Len(Flushed(s, buf[p][s])) \in Nat
  <1>1. buf[p][s] \in Seq(Entry)
    BY DEF TypeOK
  <1>2. QED
    BY <1>1, FlushedExtends

\* SyncTo keeps the disk well typed.
LEMMA SyncToType ==
    ASSUME TypeOK, NEW s \in Sessions, NEW q \in Seq(Entry), SyncTo(s, q)
    PROVE  /\ file' \in [Sessions -> Seq(Line)]
           /\ synced' \in [Sessions -> Nat]
           /\ tail' \in [Sessions -> {"none", "live", "dead"}]
  <1>1. Flushed(s, q) \in Seq(Line) /\ Len(Flushed(s, q)) \in Nat
    BY FlushedExtends
  <1>2. QED
    BY <1>1 DEF SyncTo, TypeOK

\* The empty store is well typed.
LEMMA TypeInit == Init => TypeOK
  BY DEF Init, TypeOK, States

\* Init and every step keep the shape of the state (the structures of
\* session.go and log.go).
LEMMA TypeNext == TypeOK /\ [Next]_vars => TypeOK'
  <1> SUFFICES ASSUME TypeOK, [Next]_vars PROVE TypeOK'
    OBVIOUS
  <1> USE SessionLogAssumption
  <1>a. /\ {"none", "creating", "read", "recovering", "open", "broken"} \subseteq States
        /\ <<>> \in Seq(Entry)
    BY DEF States
  <1>1. ASSUME NEW p \in Procs, NEW s \in Sessions, Open(p, s) PROVE TypeOK'
    <2> DEFINE first == NewEntry(nextId, "session_opened", None)
    <2>1. first \in Entry
      BY DEF TypeOK, Kinds, NewEntry, Entry
    <2>2. <<first>> \in Seq(Entry)
      BY <2>1
    <2> HIDE DEF first
    <2>3. /\ pc' \in [Procs -> [Sessions -> States]]
          /\ own' \in [Procs -> [Sessions -> Seq(Entry)]]
          /\ buf' \in [Procs -> [Sessions -> Seq(Entry)]]
      BY <1>1, <1>a, <2>2, PutType DEF Open, Create, TypeOK, first
    <2>4. /\ lock' = [lock EXCEPT ![s] = p]
          /\ nextId' = nextId + 1
          /\ UNCHANGED <<file, synced, tail, issued, granted, ran, crashes, faults>>
      BY <1>1 DEF Open, Create, disk
    <2>5. QED
      BY SMTT(30), <2>3, <2>4 DEF TypeOK
  <1>2. ASSUME NEW p \in Procs, NEW s \in Sessions, NEW c \in Sessions \ {s},
               NEW at \in 1..MaxIds, Fork(p, s, c, at)
        PROVE  TypeOK'
    <2> DEFINE first == ForkPoint(nextId, s, at)
    <2>1. first \in Entry
      BY DEF TypeOK, Kinds, ForkPoint, Entry
    <2>2. <<first>> \in Seq(Entry)
      BY <2>1
    <2>a. c \in Sessions
      OBVIOUS
    <2> HIDE DEF first
    <2>3. /\ pc' \in [Procs -> [Sessions -> States]]
          /\ own' \in [Procs -> [Sessions -> Seq(Entry)]]
      BY <1>2, <1>a, <2>a, <2>2, PutType DEF Fork, Create, TypeOK, first
    <2>4. buf' \in [Procs -> [Sessions -> Seq(Entry)]]
      BY <1>2, <1>a, <2>2 DEF Fork, TypeOK, first
    <2>5. /\ file' \in [Sessions -> Seq(Line)] /\ synced' \in [Sessions -> Nat]
          /\ tail' \in [Sessions -> {"none", "live", "dead"}]
      BY <1>2, SyncType, SyncToType DEF Fork
    <2>6. /\ lock' = [lock EXCEPT ![c] = p]
          /\ nextId' = nextId + 1
          /\ UNCHANGED <<issued, granted, ran, crashes, faults>>
      BY <1>2 DEF Fork, Create
    <2>7. lock' \in [Sessions -> Procs \cup {None}] /\ nextId' \in Nat \ {0}
      BY <2>6, <2>a DEF TypeOK
    <2>8. QED
      BY <2>3, <2>4, <2>5, <2>6, <2>7 DEF TypeOK
  <1>3. ASSUME NEW p \in Procs, NEW s \in Sessions, CreateSync(p, s) PROVE TypeOK'
    <2>1. /\ file' \in [Sessions -> Seq(Line)] /\ synced' \in [Sessions -> Nat]
          /\ tail' \in [Sessions -> {"none", "live", "dead"}]
      BY <1>3, SyncType, SyncToType DEF CreateSync
    <2>2. /\ pc' \in [Procs -> [Sessions -> States]]
          /\ buf' \in [Procs -> [Sessions -> Seq(Entry)]]
      BY <1>3, <1>a, PutType DEF CreateSync, TypeOK
    <2>3. QED
      BY <1>3, <2>1, <2>2 DEF CreateSync, TypeOK
  <1>4. ASSUME NEW p \in Procs, NEW s \in Sessions,
               NEW k \in {"message", "assistant_message", "allow", "deny", "tool_result"},
               NEW u \in Uses \cup {None}, k # "message" => u \in Uses,
               AppendPayload(p, s, k, u)
        PROVE  TypeOK'
    <2> DEFINE e == NewEntry(nextId, k, u)
               q == Append(buf[p][s], e)
    <2>1. e \in Entry
      BY DEF TypeOK, Kinds, NewEntry, Entry
    <2>2. q \in Seq(Entry) /\ Append(own[p][s], e) \in Seq(Entry)
      <3> HIDE DEF e
      <3> QED BY <2>1 DEF TypeOK
    <2>3. issued' \in SUBSET Uses
      BY <1>4 DEF AppendPayload, Issue, TypeOK
    <2>4. granted' \in [Procs -> SUBSET (Sessions \X Uses)]
      <3>1. CASE k = "allow"
        BY <1>4, <3>1 DEF AppendPayload, TypeOK
      <3>2. CASE k # "allow"
        BY <1>4, <3>2 DEF AppendPayload, TypeOK
      <3>3. QED
        BY <3>1, <3>2
    <2>5. /\ file' \in [Sessions -> Seq(Line)] /\ synced' \in [Sessions -> Nat]
          /\ tail' \in [Sessions -> {"none", "live", "dead"}]
      <3>1. CASE durableAllow(k)
        <4>1. SyncTo(s, q)
          BY <1>4, <3>1 DEF AppendPayload
        <4>2. QED
          BY <4>1, <2>2, SyncToType
      <3>2. CASE ~durableAllow(k)
        BY <1>4, <3>2 DEF AppendPayload, disk, TypeOK
      <3>3. QED
        BY <3>1, <3>2
    <2>6. own' \in [Procs -> [Sessions -> Seq(Entry)]]
      BY <1>4, <2>2, PutType DEF AppendPayload, TypeOK
    <2>7. buf' \in [Procs -> [Sessions -> Seq(Entry)]]
      <3>1. \/ buf' = Put(buf, p, s, <<>>)
            \/ buf' = Put(buf, p, s, q)
        BY <1>4 DEF AppendPayload
      <3>2. QED
        <4>1. buf \in [Procs -> [Sessions -> Seq(Entry)]]
          BY DEF TypeOK
        <4>2. /\ Put(buf, p, s, <<>>) \in [Procs -> [Sessions -> Seq(Entry)]]
              /\ Put(buf, p, s, q) \in [Procs -> [Sessions -> Seq(Entry)]]
          BY <4>1, <1>a, <2>2, PutType
        <4>3. QED
          BY <3>1, <4>2
    <2>8. /\ nextId' \in Nat \ {0}
          /\ UNCHANGED <<lock, pc, ran, crashes, faults>>
      BY <1>4 DEF AppendPayload, TypeOK
    <2>9. QED
      BY <2>3, <2>4, <2>5, <2>6, <2>7, <2>8 DEF TypeOK
  <1>5. ASSUME NEW p \in Procs, NEW s \in Sessions, NEW u \in Uses, RunTool(p, s, u)
        PROVE  TypeOK'
    BY <1>5 DEF RunTool, disk, mem, TypeOK
  <1>6. ASSUME NEW p \in Procs, NEW s \in Sessions, Sync(p, s) PROVE TypeOK'
    <2>1. /\ file' \in [Sessions -> Seq(Line)] /\ synced' \in [Sessions -> Nat]
          /\ tail' \in [Sessions -> {"none", "live", "dead"}]
      BY <1>6, SyncType, SyncToType DEF Sync
    <2>2. buf' \in [Procs -> [Sessions -> Seq(Entry)]]
      BY <1>6, <1>a, PutType DEF Sync, TypeOK
    <2>3. QED
      BY <1>6, <2>1, <2>2 DEF Sync, TypeOK
  <1>7. ASSUME NEW p \in Procs, NEW s \in Sessions, Close(p, s) PROVE TypeOK'
    <2>1. /\ file' \in [Sessions -> Seq(Line)] /\ synced' \in [Sessions -> Nat]
          /\ tail' \in [Sessions -> {"none", "live", "dead"}]
      BY <1>7, SyncType, SyncToType DEF Close
    <2>2. Forget(p, s)
      BY <1>7 DEF Close
    <2>3. QED
      BY <1>7, <2>1, <2>2, ForgetType DEF Close, TypeOK
  <1>8. ASSUME NEW p \in Procs, NEW s \in Sessions, CloseBroken(p, s) PROVE TypeOK'
    <2>1. Forget(p, s)
      BY <1>8 DEF CloseBroken
    <2>2. QED
      BY <1>8, <2>1, ForgetType DEF CloseBroken, disk, TypeOK
  <1>9. ASSUME NEW p \in Procs, NEW s \in Sessions, Spill(p, s) PROVE TypeOK'
    <2>0. PICK n \in 0..Len(buf[p][s]) : \E t \in TailsAfter(s, buf[p][s], n) :
            /\ file' = [file EXCEPT ![s] = Flushed(s, Prefix(buf[p][s], n))]
            /\ tail' = [tail EXCEPT ![s] = t]
            /\ buf' = Put(buf, p, s, SubSeq(buf[p][s], n + 1, Len(buf[p][s])))
      BY <1>9 DEF Spill
    <2>1. PICK t \in TailsAfter(s, buf[p][s], n) :
            /\ file' = [file EXCEPT ![s] = Flushed(s, Prefix(buf[p][s], n))]
            /\ tail' = [tail EXCEPT ![s] = t]
            /\ buf' = Put(buf, p, s, SubSeq(buf[p][s], n + 1, Len(buf[p][s])))
      BY <2>0
    <2>2. buf[p][s] \in Seq(Entry)
      BY SyncType
    <2>3. Flushed(s, Prefix(buf[p][s], n)) \in Seq(Line)
      BY <2>2, PrefixType, FlushedExtends
    <2>4. t \in {"none", "live", "dead"}
      BY <2>1 DEF TailsAfter, TypeOK
    <2>5. SubSeq(buf[p][s], n + 1, Len(buf[p][s])) \in Seq(Entry)
      BY <2>2
    <2>6. buf' \in [Procs -> [Sessions -> Seq(Entry)]]
      BY <2>1, <2>5, PutType DEF TypeOK
    <2>7. QED
      BY <1>9, <2>1, <2>3, <2>4, <2>6 DEF Spill, TypeOK
  <1>10. ASSUME NEW p \in Procs, NEW s \in Sessions, NEW q \in Seq(Entry),
                FlushFails(p, s, q) \/ FsyncFails(p, s, q),
                UNCHANGED <<issued, granted, ran, crashes>>, faults' \in Nat, nextId' \in Nat \ {0}
         PROVE  TypeOK'
    <2>1. CASE FlushFails(p, s, q)
      <3>0. PICK n \in 0..Len(q) - 1 : \E t \in TailsAfter(s, q, n) :
              /\ file' = [file EXCEPT ![s] = Flushed(s, Prefix(q, n))]
              /\ tail' = [tail EXCEPT ![s] = Orphaned(t)]
        BY <2>1 DEF FlushFails
      <3>1. PICK t \in TailsAfter(s, q, n) :
              /\ file' = [file EXCEPT ![s] = Flushed(s, Prefix(q, n))]
              /\ tail' = [tail EXCEPT ![s] = Orphaned(t)]
        BY <3>0
      <3>2. Flushed(s, Prefix(q, n)) \in Seq(Line)
        BY PrefixType, FlushedExtends
      <3>3. Orphaned(t) \in {"none", "live", "dead"}
        BY <3>1 DEF TailsAfter, Orphaned, TypeOK
      <3>4. /\ lock' \in [Sessions -> Procs \cup {None}]
            /\ pc' \in [Procs -> [Sessions -> States]]
            /\ own' \in [Procs -> [Sessions -> Seq(Entry)]]
            /\ buf' \in [Procs -> [Sessions -> Seq(Entry)]]
        <4>1. CASE pc[p][s] = "open"
          <5>1. pc' = Put(pc, p, s, "broken") /\ UNCHANGED <<lock, own, buf>>
            BY <2>1, <4>1 DEF FlushFails, Failed
          <5>2. QED
            BY <5>1, <1>a, PutType DEF TypeOK
        <4>2. CASE pc[p][s] # "open"
          BY <2>1, <4>2, ForgetType DEF FlushFails, Failed
        <4>3. QED
          BY <4>1, <4>2
      <3>5. QED
        BY <1>10, <2>1, <3>1, <3>2, <3>3, <3>4 DEF FlushFails, TypeOK
    <2>2. CASE FsyncFails(p, s, q)
      <3>1. Flushed(s, q) \in Seq(Line)
        BY FlushedExtends
      <3>2. /\ lock' \in [Sessions -> Procs \cup {None}]
            /\ pc' \in [Procs -> [Sessions -> States]]
            /\ own' \in [Procs -> [Sessions -> Seq(Entry)]]
            /\ buf' \in [Procs -> [Sessions -> Seq(Entry)]]
        <4>1. CASE pc[p][s] = "open"
          <5>1. buf' = Put(buf, p, s, <<>>) /\ UNCHANGED <<lock, own, pc>>
            BY <2>2, <4>1 DEF FsyncFails
          <5>2. QED
            BY <5>1, <1>a, PutType DEF TypeOK
        <4>2. CASE pc[p][s] # "open"
          BY <2>2, <4>2, ForgetType DEF FsyncFails
        <4>3. QED
          BY <4>1, <4>2
      <3>3. QED
        BY <1>10, <2>2, <3>1, <3>2 DEF FsyncFails, TypeOK
    <2>3. QED
      BY <1>10, <2>1, <2>2
  <1>11. ASSUME NEW p \in Procs, NEW s \in Sessions, SyncFails(p, s) PROVE TypeOK'
    <2>1. buf[p][s] \in Seq(Entry)
      BY SyncType
    <2>2. /\ FlushFails(p, s, buf[p][s]) \/ FsyncFails(p, s, buf[p][s])
          /\ UNCHANGED <<issued, granted, ran, crashes>>
          /\ faults' \in Nat /\ nextId' \in Nat \ {0}
      BY <1>11 DEF SyncFails, TypeOK
    <2>3. QED
      BY <1>10, <2>1, <2>2
  <1>12. ASSUME NEW p \in Procs, NEW s \in Sessions, NEW u \in Uses, AppendAllowFails(p, s, u)
         PROVE  TypeOK'
    <2> DEFINE q == Append(buf[p][s], NewEntry(nextId, "allow", u))
    <2>1. NewEntry(nextId, "allow", u) \in Entry
      BY DEF TypeOK, Kinds, NewEntry, Entry
    <2>2. q \in Seq(Entry)
      BY <2>1, SyncType
    <2>3. /\ FlushFails(p, s, q) \/ FsyncFails(p, s, q)
          /\ UNCHANGED <<issued, granted, ran, crashes>>
          /\ faults' \in Nat /\ nextId' \in Nat \ {0}
      BY <1>12 DEF AppendAllowFails, TypeOK
    <2> HIDE DEF q
    <2>4. QED
      BY <1>10, <2>2, <2>3
  <1>13. ASSUME NEW p \in Procs, NEW s \in Sessions, LoadRead(p, s) PROVE TypeOK'
    <2>1. file[s] \in Seq(Entry)
      BY <1>13, SeqOver DEF LoadRead, Loads, Readable, Line, TypeOK
    <2>2. /\ pc' \in [Procs -> [Sessions -> States]]
          /\ own' \in [Procs -> [Sessions -> Seq(Entry)]]
      BY <1>13, <1>a, <2>1, PutType DEF LoadRead, TypeOK
    <2>3. QED
      BY <1>13, <2>2 DEF LoadRead, disk, TypeOK
  <1>14. ASSUME NEW p \in Procs, NEW s \in Sessions, LoadLock(p, s) PROVE TypeOK'
    <2>1. pc' \in [Procs -> [Sessions -> States]]
      BY <1>14, <1>a, PutType DEF LoadLock, TypeOK
    <2>2. QED
      BY <1>14, <2>1 DEF LoadLock, disk, TypeOK
  <1>15. ASSUME NEW p \in Procs, NEW s \in Sessions, LoadRefused(p, s) PROVE TypeOK'
    <2>1. /\ pc' \in [Procs -> [Sessions -> States]]
          /\ own' \in [Procs -> [Sessions -> Seq(Entry)]]
      BY <1>15, <1>a, PutType DEF LoadRefused, TypeOK
    <2>2. QED
      BY <1>15, <2>1 DEF LoadRefused, disk, TypeOK
  <1>16. ASSUME NEW p \in Procs, NEW s \in Sessions, NEW u \in Uses, RecoverUse(p, s, u)
         PROVE  TypeOK'
    <2>1. /\ NewEntry(nextId, "tool_result", u) \in Entry
          /\ NewEntry(nextId, "deny", u) \in Entry
          /\ NewEntry(nextId + 1, "tool_result", u) \in Entry
      BY DEF TypeOK, Kinds, NewEntry, Entry
    <2>2. RecoveryOf(p, s, u) \in Seq(Entry) /\ Len(RecoveryOf(p, s, u)) \in Nat
      BY <2>1 DEF RecoveryOf
    <2>3. own[p][s] \in Seq(Entry) /\ buf[p][s] \in Seq(Entry)
      BY DEF TypeOK
    <2>4. /\ own[p][s] \o RecoveryOf(p, s, u) \in Seq(Entry)
          /\ buf[p][s] \o RecoveryOf(p, s, u) \in Seq(Entry)
      BY <2>2, <2>3
    <2>5. /\ own' \in [Procs -> [Sessions -> Seq(Entry)]]
          /\ buf' \in [Procs -> [Sessions -> Seq(Entry)]]
      BY <1>16, <2>4, PutType DEF RecoverUse, TypeOK
    <2>6. QED
      <3>1. /\ nextId' = nextId + Len(RecoveryOf(p, s, u))
            /\ UNCHANGED <<file, synced, tail, lock, pc, issued, granted, ran, crashes, faults>>
        BY <1>16 DEF RecoverUse, disk
      <3>2. nextId' \in Nat \ {0}
        BY <3>1, <2>2 DEF TypeOK
      <3>3. QED
        BY <3>1, <3>2, <2>5 DEF TypeOK
  <1>17. ASSUME NEW p \in Procs, NEW s \in Sessions, RecoverDone(p, s) PROVE TypeOK'
    <2>1. /\ file' \in [Sessions -> Seq(Line)] /\ synced' \in [Sessions -> Nat]
          /\ tail' \in [Sessions -> {"none", "live", "dead"}]
      <3>1. CASE buf[p][s] = <<>>
        BY <1>17, <3>1 DEF RecoverDone, disk, TypeOK
      <3>2. CASE buf[p][s] # <<>>
        BY <1>17, <3>2, SyncType, SyncToType DEF RecoverDone
      <3>3. QED
        BY <3>1, <3>2
    <2>2. /\ pc' \in [Procs -> [Sessions -> States]]
          /\ buf' \in [Procs -> [Sessions -> Seq(Entry)]]
      <3>1. /\ pc' = Put(pc, p, s, "open")
            /\ buf' = buf \/ buf' = Put(buf, p, s, <<>>)
        BY <1>17 DEF RecoverDone
      <3>2. QED
        <4>1. /\ buf \in [Procs -> [Sessions -> Seq(Entry)]]
              /\ pc \in [Procs -> [Sessions -> States]]
          BY DEF TypeOK
        <4>2. /\ Put(buf, p, s, <<>>) \in [Procs -> [Sessions -> Seq(Entry)]]
              /\ Put(pc, p, s, "open") \in [Procs -> [Sessions -> States]]
          BY <4>1, <1>a, PutType
        <4>3. QED
          BY <3>1, <4>1, <4>2
    <2>3. QED
      BY <1>17, <2>1, <2>2 DEF RecoverDone, TypeOK
  <1>18. ASSUME NEW p \in Procs, Crash(p) PROVE TypeOK'
    <2>1. tail' \in [Sessions -> {"none", "live", "dead"}]
      BY <1>18 DEF Crash, Orphaned, TypeOK
    <2>2. /\ own' \in [Procs -> [Sessions -> Seq(Entry)]]
          /\ buf' \in [Procs -> [Sessions -> Seq(Entry)]]
          /\ pc' \in [Procs -> [Sessions -> States]]
      BY <1>18, <1>a DEF Crash, TypeOK
    <2>3. lock' \in [Sessions -> Procs \cup {None}]
      BY <1>18 DEF Crash, TypeOK
    <2>4. QED
      BY <1>18, <2>1, <2>2, <2>3 DEF Crash, TypeOK
  <1>19. ASSUME PowerLoss PROVE TypeOK'
    <2>1. PICK keep \in [Sessions -> 0..nextId], torn \in SUBSET Sessions :
            /\ \A s \in Sessions : keep[s] \in synced[s]..Len(file[s])
            /\ file' = [s \in Sessions |-> Prefix(file[s], keep[s])]
            /\ synced' = keep
            /\ tail' = [s \in Sessions |-> IF s \in torn THEN "dead" ELSE "none"]
      BY <1>19 DEF PowerLoss
    <2>2. \A s \in Sessions : Prefix(file[s], keep[s]) \in Seq(Line)
      BY <2>1, PrefixType DEF TypeOK
    <2>3. keep \in [Sessions -> Nat]
      BY DEF TypeOK
    <2>4. QED
      BY <1>19, <2>1, <2>2, <2>3 DEF PowerLoss, TypeOK, States
  <1>20. CASE UNCHANGED vars
    BY <1>20 DEF vars, TypeOK
  <1>21. QED
    <2>1. ASSUME NEW p \in Procs, NEW s \in Sessions, SessionStep(p, s) PROVE TypeOK'
      BY <2>1, <1>1, <1>2, <1>3, <1>4, <1>5, <1>6, <1>7, <1>8, <1>9, <1>11, <1>12, <1>13,
         <1>14, <1>15, <1>16, <1>17 DEF SessionStep
    <2>2. QED
      BY <2>1, <1>18, <1>19, <1>20 DEF Next

\* THEOREM: in every behaviour of the log the state keeps its type.
THEOREM TypeCorrect == Spec => []TypeOK
  BY TypeInit, TypeNext, PTL DEF Spec

-----------------------------------------------------------------------------
(* One writer per log.                                                     *)

\* The flock protocol is inductive with the types.
LEMMA LockNext == TypeOK /\ LockedWhileOpen /\ [Next]_vars => LockedWhileOpen'
  <1> SUFFICES ASSUME TypeOK, LockedWhileOpen, [Next]_vars PROVE LockedWhileOpen'
    OBVIOUS
  <1> USE SessionLogAssumption DEF LockedWhileOpen, Writer
  <1>0. pc \in [Procs -> [Sessions -> States]] /\ lock \in [Sessions -> Procs \cup {None}]
    BY DEF TypeOK
  <1>1. ASSUME NEW p \in Procs, NEW s \in Sessions, NEW first, NEW inherited,
               Create(p, s, first, inherited)
        PROVE  LockedWhileOpen'
    BY <1>0, <1>1 DEF Create, Put
  <1>2. ASSUME NEW p \in Procs, NEW s \in Sessions, pc[p][s] \in Writer, Forget(p, s)
        PROVE  LockedWhileOpen'
    BY <1>0, <1>2 DEF Forget, Put
  <1>3. ASSUME NEW p \in Procs, NEW s \in Sessions, NEW v \in Writer, pc[p][s] \in Writer,
               pc' = Put(pc, p, s, v), lock' = lock
        PROVE  LockedWhileOpen'
    BY <1>0, <1>3 DEF Put
  <1>4. ASSUME NEW p \in Procs, NEW s \in Sessions, Open(p, s) PROVE LockedWhileOpen'
    BY <1>1, <1>4 DEF Open
  <1>5. ASSUME NEW p \in Procs, NEW s \in Sessions, NEW c \in Sessions \ {s},
               NEW at \in 1..MaxIds, Fork(p, s, c, at)
        PROVE  LockedWhileOpen'
    <2>1. Create(p, c, ForkPoint(nextId, s, at), UpTo(Entries(p, s), at))
      BY <1>5 DEF Fork
    <2>2. QED
      BY <1>1, <2>1
  <1>6. ASSUME NEW p \in Procs, NEW s \in Sessions, CreateSync(p, s) PROVE LockedWhileOpen'
    BY <1>3, <1>6 DEF CreateSync
  <1>7. ASSUME NEW p \in Procs, NEW s \in Sessions, NEW k, NEW u, AppendPayload(p, s, k, u)
        PROVE  LockedWhileOpen'
    BY <1>7 DEF AppendPayload
  <1>8. ASSUME NEW p \in Procs, NEW s \in Sessions, NEW u \in Uses, RunTool(p, s, u)
        PROVE  LockedWhileOpen'
    BY <1>8 DEF RunTool, mem
  <1>9. ASSUME NEW p \in Procs, NEW s \in Sessions, Sync(p, s) \/ Spill(p, s)
        PROVE  LockedWhileOpen'
    BY <1>9 DEF Sync, Spill
  <1>10. ASSUME NEW p \in Procs, NEW s \in Sessions, Close(p, s) \/ CloseBroken(p, s)
         PROVE  LockedWhileOpen'
    BY <1>2, <1>10 DEF Close, CloseBroken
  <1>11. ASSUME NEW p \in Procs, NEW s \in Sessions, NEW q, pc[p][s] \in Writer,
                FlushFails(p, s, q) \/ FsyncFails(p, s, q)
         PROVE  LockedWhileOpen'
    <2>1. CASE pc[p][s] = "open"
      <3>1. \/ pc' = Put(pc, p, s, "broken") /\ lock' = lock
            \/ pc' = pc /\ lock' = lock
        BY <1>11, <2>1 DEF FlushFails, FsyncFails, Failed
      <3>2. QED
        BY <1>3, <1>11, <3>1
    <2>2. CASE pc[p][s] # "open"
      BY <1>2, <1>11, <2>2 DEF FlushFails, FsyncFails, Failed
    <2>3. QED
      BY <2>1, <2>2
  <1>12. ASSUME NEW p \in Procs, NEW s \in Sessions, SyncFails(p, s) PROVE LockedWhileOpen'
    BY <1>11, <1>12 DEF SyncFails
  <1>13. ASSUME NEW p \in Procs, NEW s \in Sessions, NEW u \in Uses, AppendAllowFails(p, s, u)
         PROVE  LockedWhileOpen'
    <2>1. /\ pc[p][s] \in Writer
          /\ \/ FlushFails(p, s, Append(buf[p][s], NewEntry(nextId, "allow", u)))
             \/ FsyncFails(p, s, Append(buf[p][s], NewEntry(nextId, "allow", u)))
      BY <1>13 DEF AppendAllowFails
    <2>2. QED
      BY <1>11, <2>1
  <1>14. ASSUME NEW p \in Procs, NEW s \in Sessions, LoadRead(p, s) \/ LoadRefused(p, s)
         PROVE  LockedWhileOpen'
    <2>1. PICK v \in {"read", "none"} : pc' = Put(pc, p, s, v) /\ lock' = lock
      BY <1>14 DEF LoadRead, LoadRefused
    <2>2. pc[p][s] \notin Writer
      BY <1>14 DEF LoadRead, LoadRefused
    <2>3. QED
      BY <1>0, <2>1, <2>2 DEF Put
  <1>15. ASSUME NEW p \in Procs, NEW s \in Sessions, LoadLock(p, s) PROVE LockedWhileOpen'
    BY <1>0, <1>15 DEF LoadLock, Put
  <1>16. ASSUME NEW p \in Procs, NEW s \in Sessions, NEW u \in Uses, RecoverUse(p, s, u)
         PROVE  LockedWhileOpen'
    BY <1>16 DEF RecoverUse
  <1>17. ASSUME NEW p \in Procs, NEW s \in Sessions, RecoverDone(p, s) PROVE LockedWhileOpen'
    BY <1>3, <1>17 DEF RecoverDone
  <1>18. ASSUME NEW p \in Procs, Crash(p) PROVE LockedWhileOpen'
    <2>1. ASSUME NEW q \in Procs, NEW s \in Sessions
          PROVE  pc'[q][s] \in Writer <=> lock'[s] = q
      <3>1. lock'[s] = IF lock[s] = p THEN None ELSE lock[s]
        BY <1>18 DEF Crash
      <3>2. CASE q = p
        <4>1. pc'[q][s] = "none"
          BY <1>0, <1>18, <3>2 DEF Crash
        <4>2. QED
          BY <3>1, <3>2, <4>1
      <3>3. CASE q # p
        <4>1. pc'[q][s] = pc[q][s]
          BY <1>0, <1>18, <3>3 DEF Crash
        <4>2. QED
          BY <3>1, <3>3, <4>1
      <3>4. QED
        BY <3>2, <3>3
    <2>2. QED
      BY <2>1
  <1>19. ASSUME PowerLoss PROVE LockedWhileOpen'
    BY <1>19 DEF PowerLoss
  <1>20. CASE UNCHANGED vars
    BY <1>20 DEF vars
  <1>21. QED
    <2>1. ASSUME NEW p \in Procs, NEW s \in Sessions, SessionStep(p, s) PROVE LockedWhileOpen'
      BY <2>1, <1>4, <1>5, <1>6, <1>7, <1>8, <1>9, <1>10, <1>12, <1>13, <1>14, <1>15, <1>16,
         <1>17 DEF SessionStep
    <2>2. QED
      BY <2>1, <1>18, <1>19, <1>20 DEF Next

\* A process writes a log exactly while it holds the flock of its directory, so
\* no two processes ever write one log (Store.Lock, create, Close).
THEOREM OneWriter == Spec => []LockedWhileOpen
  <1>1. Init => LockedWhileOpen
    BY SessionLogAssumption DEF Init, LockedWhileOpen, Writer
  <1>2. QED
    BY <1>1, LockNext, TypeCorrect, PTL DEF Spec

-----------------------------------------------------------------------------
(* What fsync made durable.                                                *)

SyncedInFile == \A s \in Sessions : synced[s] <= Len(file[s])

\* What a step does to the durable part of every log: it grows or stays, and
\* its lines are the lines it had.
DurableGrows ==
    \A s \in Sessions :
        /\ synced[s] <= synced'[s]
        /\ synced'[s] <= Len(file'[s])
        /\ \A i \in 1..synced[s] : file'[s][i] = file[s][i]

\* A Sync leaves every durable line in place.
LEMMA SyncToGrows ==
    ASSUME TypeOK, SyncedInFile, NEW s \in Sessions, NEW q \in Seq(Entry), SyncTo(s, q)
    PROVE  DurableGrows
  <1>1. /\ Flushed(s, q) \in Seq(Line) /\ Len(Flushed(s, q)) \in Nat
        /\ Len(Flushed(s, q)) = Len(file[s]) + Len(q)
        /\ \A i \in 1..Len(file[s]) : Flushed(s, q)[i] = file[s][i]
    BY FlushedExtends
  <1>2. ASSUME NEW r \in Sessions PROVE file[r] \in Seq(Line) /\ synced[r] \in Nat /\ synced[r] <= Len(file[r])
    BY DEF TypeOK, SyncedInFile
  <1>3. file \in [Sessions -> Seq(Line)] /\ synced \in [Sessions -> Nat]
    BY DEF TypeOK
  <1>4. ASSUME NEW r \in Sessions
        PROVE  /\ synced[r] <= synced'[r]
               /\ synced'[r] <= Len(file'[r])
               /\ \A i \in 1..synced[r] : file'[r][i] = file[r][i]
    <2>1. CASE r = s
      <3>1. file'[r] = Flushed(s, q) /\ synced'[r] = Len(Flushed(s, q))
        BY <1>3, <2>1 DEF SyncTo
      <3>2. QED
        BY <1>1, <1>2, <2>1, <3>1
    <2>2. CASE r # s
      <3>1. file'[r] = file[r] /\ synced'[r] = synced[r]
        BY <1>3, <2>2 DEF SyncTo
      <3>2. QED
        BY <1>2, <3>1
    <2>3. QED
      BY <2>1, <2>2
  <1>5. QED
    BY <1>4 DEF DurableGrows

\* A flush without an fsync leaves every durable line in place.
LEMMA FlushGrows ==
    ASSUME TypeOK, SyncedInFile, NEW s \in Sessions, NEW q \in Seq(Entry),
           file' = [file EXCEPT ![s] = Flushed(s, q)], synced' = synced
    PROVE  DurableGrows
  <1>1. /\ Flushed(s, q) \in Seq(Line) /\ Len(Flushed(s, q)) \in Nat
        /\ Len(Flushed(s, q)) = Len(file[s]) + Len(q)
        /\ \A i \in 1..Len(file[s]) : Flushed(s, q)[i] = file[s][i]
    BY FlushedExtends
  <1>2. ASSUME NEW r \in Sessions PROVE file[r] \in Seq(Line) /\ synced[r] \in Nat /\ synced[r] <= Len(file[r])
    BY DEF TypeOK, SyncedInFile
  <1>3. file \in [Sessions -> Seq(Line)]
    BY DEF TypeOK
  <1>4. ASSUME NEW r \in Sessions
        PROVE  /\ synced[r] <= synced'[r]
               /\ synced'[r] <= Len(file'[r])
               /\ \A i \in 1..synced[r] : file'[r][i] = file[r][i]
    <2>1. CASE r = s
      BY <1>1, <1>2, <1>3, <2>1
    <2>2. CASE r # s
      BY <1>2, <1>3, <2>2
    <2>3. QED
      BY <2>1, <2>2
  <1>5. QED
    BY <1>4 DEF DurableGrows

\* A step that writes nothing leaves every durable line in place.
LEMMA SameGrows ==
    ASSUME TypeOK, SyncedInFile, file' = file, synced' = synced
    PROVE  DurableGrows
  BY DEF DurableGrows, TypeOK, SyncedInFile

\* No step of the program or of the environment rewrites or drops a durable line.
LEMMA DurableNext == TypeOK /\ SyncedInFile /\ [Next]_vars => DurableGrows
  <1> SUFFICES ASSUME TypeOK, SyncedInFile, [Next]_vars PROVE DurableGrows
    OBVIOUS
  <1>1. ASSUME NEW p \in Procs, NEW s \in Sessions, SessionStep(p, s) PROVE DurableGrows
    <2>0. buf[p][s] \in Seq(Entry)
      BY SyncType
    <2>1. CASE Open(p, s)
      BY <2>1, SameGrows DEF Open, disk
    <2>2. ASSUME NEW c \in Sessions \ {s}, NEW at \in 1..MaxIds, Fork(p, s, c, at)
          PROVE  DurableGrows
      BY <2>0, <2>2, SyncToGrows DEF Fork
    <2>3. CASE CreateSync(p, s)
      BY <2>0, <2>3, SyncToGrows DEF CreateSync
    <2>4. ASSUME NEW k \in Kinds, NEW u \in Uses \cup {None}, AppendPayload(p, s, k, u)
          PROVE  DurableGrows
      <3> DEFINE q == Append(buf[p][s], NewEntry(nextId, k, u))
      <3>1. NewEntry(nextId, k, u) \in Entry
        BY DEF TypeOK, NewEntry, Entry
      <3>2. q \in Seq(Entry)
        BY <2>0, <3>1
      <3>3. SyncTo(s, q) \/ (file' = file /\ synced' = synced)
        BY <2>4 DEF AppendPayload, disk
      <3> HIDE DEF q
      <3>4. QED
        BY <3>2, <3>3, SyncToGrows, SameGrows
    <2>5. ASSUME NEW u \in Uses, RunTool(p, s, u) PROVE DurableGrows
      BY <2>5, SameGrows DEF RunTool, disk
    <2>6. CASE Sync(p, s)
      BY <2>0, <2>6, SyncToGrows DEF Sync
    <2>7. CASE Close(p, s)
      BY <2>0, <2>7, SyncToGrows DEF Close
    <2>8. CASE CloseBroken(p, s)
      BY <2>8, SameGrows DEF CloseBroken, disk
    <2>9. CASE Spill(p, s)
      <3>1. PICK n \in 0..Len(buf[p][s]) :
              file' = [file EXCEPT ![s] = Flushed(s, Prefix(buf[p][s], n))] /\ synced' = synced
        BY <2>9 DEF Spill
      <3>2. Prefix(buf[p][s], n) \in Seq(Entry)
        BY <2>0, PrefixType
      <3>3. QED
        BY <3>1, <3>2, FlushGrows
    <2>10. ASSUME NEW q \in Seq(Entry), FlushFails(p, s, q) \/ FsyncFails(p, s, q)
           PROVE  DurableGrows
      <3>1. CASE FlushFails(p, s, q)
        <4>1. PICK n \in 0..Len(q) - 1 :
                file' = [file EXCEPT ![s] = Flushed(s, Prefix(q, n))] /\ synced' = synced
          BY <3>1 DEF FlushFails
        <4>2. Prefix(q, n) \in Seq(Entry)
          BY PrefixType
        <4>3. QED
          BY <4>1, <4>2, FlushGrows
      <3>2. CASE FsyncFails(p, s, q)
        BY <3>2, FlushGrows DEF FsyncFails
      <3>3. QED
        BY <2>10, <3>1, <3>2
    <2>11. CASE SyncFails(p, s)
      BY <2>0, <2>10, <2>11 DEF SyncFails
    <2>12. ASSUME NEW u \in Uses, AppendAllowFails(p, s, u) PROVE DurableGrows
      <3> DEFINE q == Append(buf[p][s], NewEntry(nextId, "allow", u))
      <3>1. NewEntry(nextId, "allow", u) \in Entry
        BY DEF TypeOK, NewEntry, Entry, Kinds
      <3>2. q \in Seq(Entry)
        BY <2>0, <3>1
      <3>3. FlushFails(p, s, q) \/ FsyncFails(p, s, q)
        BY <2>12 DEF AppendAllowFails
      <3> HIDE DEF q
      <3>4. QED
        BY <2>10, <3>2, <3>3
    <2>13. CASE LoadRead(p, s) \/ LoadLock(p, s) \/ LoadRefused(p, s)
      BY <2>13, SameGrows DEF LoadRead, LoadLock, LoadRefused, disk
    <2>14. ASSUME NEW u \in Uses, RecoverUse(p, s, u) PROVE DurableGrows
      BY <2>14, SameGrows DEF RecoverUse, disk
    <2>15. CASE RecoverDone(p, s)
      <3>1. SyncTo(s, buf[p][s]) \/ (file' = file /\ synced' = synced)
        BY <2>15 DEF RecoverDone, disk
      <3>2. QED
        BY <2>0, <3>1, SyncToGrows, SameGrows
    <2>16. QED
      BY <1>1, <2>1, <2>2, <2>3, <2>4, <2>5, <2>6, <2>7, <2>8, <2>9, <2>11, <2>12, <2>13,
         <2>14, <2>15 DEF SessionStep, Kinds
  <1>2. ASSUME NEW p \in Procs, Crash(p) PROVE DurableGrows
    BY <1>2, SameGrows DEF Crash
  <1>3. CASE PowerLoss
    <2>1. PICK keep \in [Sessions -> 0..nextId] :
            /\ \A s \in Sessions : keep[s] \in synced[s]..Len(file[s])
            /\ file' = [s \in Sessions |-> Prefix(file[s], keep[s])]
            /\ synced' = keep
      BY <1>3 DEF PowerLoss
    <2>2. ASSUME NEW s \in Sessions
          PROVE  /\ synced[s] <= synced'[s]
                 /\ synced'[s] <= Len(file'[s])
                 /\ \A i \in 1..synced[s] : file'[s][i] = file[s][i]
      <3>1. file[s] \in Seq(Line) /\ synced[s] \in Nat /\ keep[s] \in Nat
            /\ synced[s] <= keep[s] /\ keep[s] <= Len(file[s])
        BY <2>1 DEF TypeOK
      <3>2. /\ Len(Prefix(file[s], keep[s])) = keep[s]
            /\ \A i \in 1..keep[s] : Prefix(file[s], keep[s])[i] = file[s][i]
        <4>1. keep[s] \in 0..Len(file[s])
          BY <3>1
        <4>2. QED
          BY ONLY <3>1, <4>1, PrefixType
      <3>3. QED
        BY <2>1, <3>1, <3>2
    <2>3. QED
      BY <2>2 DEF DurableGrows
  <1>4. CASE UNCHANGED vars
    BY <1>4, SameGrows DEF vars
  <1>5. QED
    BY <1>1, <1>2, <1>3, <1>4 DEF Next

\* Only lines of the file are durable.
LEMMA SyncedInvariant == Spec => []SyncedInFile
  <1>1. Init => SyncedInFile
    BY DEF Init, SyncedInFile
  <1>2. TypeOK /\ SyncedInFile /\ [Next]_vars => SyncedInFile'
    BY DurableNext DEF DurableGrows, SyncedInFile
  <1>3. QED
    BY <1>1, <1>2, TypeCorrect, PTL DEF Spec

\* The durable part of a log is append-only under every operation, failing write,
\* crash and power loss, torn lines included (OpenLog's O_APPEND, Log.Sync).
THEOREM DurablePrefix == Spec => SyncedPrefixStable
  <1>1. TypeOK /\ TypeOK' /\ SyncedInFile /\ [Next]_vars =>
          [\A s \in Sessions :
            /\ Len(file'[s]) >= synced[s]
            /\ Prefix(file'[s], synced[s]) = Prefix(file[s], synced[s])]_vars
    <2> SUFFICES ASSUME TypeOK, TypeOK', SyncedInFile, [Next]_vars, NEW s \in Sessions
                 PROVE  /\ Len(file'[s]) >= synced[s]
                        /\ Prefix(file'[s], synced[s]) = Prefix(file[s], synced[s])
      OBVIOUS
    <2>1. /\ file[s] \in Seq(Line) /\ file'[s] \in Seq(Line)
          /\ synced[s] \in Nat /\ synced'[s] \in Nat /\ synced[s] <= Len(file[s])
      BY DEF TypeOK, SyncedInFile
    <2>2. /\ synced[s] <= synced'[s] /\ synced'[s] <= Len(file'[s])
          /\ \A i \in 1..synced[s] : file'[s][i] = file[s][i]
      BY DurableNext DEF DurableGrows
    <2>3. synced[s] <= Len(file'[s])
      BY <2>1, <2>2
    <2>4. QED
      BY <2>1, <2>2, <2>3, SamePrefix
  <1>2. QED
    BY <1>1, TypeCorrect, SyncedInvariant, PTL DEF Spec, SyncedPrefixStable

-----------------------------------------------------------------------------
(* No tool runs on an allow a crash can lose.                              *)

\* Without torn writes no partial line ever survives, so an appended line is read
\* back as the entry it was.
NoTail == \A s \in Sessions : tail[s] = "none"

\* The strengthening: an allow is durable already when Append hands it to the
\* turn, not only once the tool has started.
GrantedDurable ==
    /\ \A p \in Procs : \A r \in granted[p] : Durable(r[1], r[2])
    /\ AllowDurableBeforeRun

\* A durable allow stays durable.
LEMMA DurableStays ==
    ASSUME TypeOK, SyncedInFile, DurableGrows, TypeOK',
           NEW s \in Sessions, NEW u, Durable(s, u)
    PROVE  Durable(s, u)'
  <1>1. PICK i \in 1..synced[s] : file[s][i].kind = "allow" /\ file[s][i].use = u
    BY DEF Durable
  <1>2. /\ i \in 1..synced'[s] /\ file'[s][i] = file[s][i]
    BY DEF DurableGrows, TypeOK
  <1>3. QED
    BY <1>1, <1>2 DEF Durable

\* Without torn writes no step leaves a partial line.
LEMMA TailNext ==
    ASSUME ~TornWrites, TypeOK, NoTail, [Next]_vars
    PROVE  NoTail'
  <1>0. tail \in [Sessions -> {"none", "live", "dead"}]
    BY DEF TypeOK
  <1>1. ASSUME NEW s \in Sessions, NEW q, SyncTo(s, q) PROVE NoTail'
    BY <1>0, <1>1 DEF SyncTo, NoTail
  <1>2. ASSUME NEW s \in Sessions, NEW q, NEW n, NEW t \in TailsAfter(s, q, n) PROVE t = "none"
    BY <1>2 DEF TailsAfter, NoTail
  <1>3. ASSUME NEW p \in Procs, NEW s \in Sessions, SessionStep(p, s) PROVE NoTail'
    <2>1. CASE tail' = tail
      BY <2>1 DEF NoTail
    <2>2. ASSUME NEW c, NEW at, Fork(p, s, c, at) PROVE NoTail'
      BY <1>1, <2>2 DEF Fork
    <2>3. CASE CreateSync(p, s) \/ Sync(p, s) \/ Close(p, s)
      BY <1>1, <2>3 DEF CreateSync, Sync, Close
    <2>4. ASSUME NEW k, NEW u, AppendPayload(p, s, k, u) PROVE NoTail'
      <3>1. SyncTo(s, Append(buf[p][s], NewEntry(nextId, k, u))) \/ tail' = tail
        BY <2>4 DEF AppendPayload, disk
      <3>2. QED
        BY <1>1, <2>1, <3>1
    <2>5. CASE Spill(p, s)
      <3>1. PICK n \in 0..Len(buf[p][s]) : \E t \in TailsAfter(s, buf[p][s], n) :
              tail' = [tail EXCEPT ![s] = t]
        BY <2>5 DEF Spill
      <3>2. tail' = [tail EXCEPT ![s] = "none"]
        BY <3>1, <1>2
      <3>3. QED
        BY <1>0, <3>2 DEF NoTail
    <2>6. ASSUME NEW q, FlushFails(p, s, q) \/ FsyncFails(p, s, q) PROVE NoTail'
      <3>1. CASE FlushFails(p, s, q)
        <4>1. PICK n \in 0..Len(q) - 1 : \E t \in TailsAfter(s, q, n) :
                tail' = [tail EXCEPT ![s] = Orphaned(t)]
          BY <3>1 DEF FlushFails
        <4>2. tail' = [tail EXCEPT ![s] = "none"]
          BY <4>1, <1>2 DEF Orphaned
        <4>3. QED
          BY <1>0, <4>2 DEF NoTail
      <3>2. CASE FsyncFails(p, s, q)
        BY <1>0, <3>2 DEF FsyncFails, NoTail
      <3>3. QED
        BY <2>6, <3>1, <3>2
    <2>7. CASE SyncFails(p, s)
      BY <2>6, <2>7 DEF SyncFails
    <2>8. ASSUME NEW u \in Uses, AppendAllowFails(p, s, u) PROVE NoTail'
      <3>1. \/ FlushFails(p, s, Append(buf[p][s], NewEntry(nextId, "allow", u)))
            \/ FsyncFails(p, s, Append(buf[p][s], NewEntry(nextId, "allow", u)))
        BY <2>8 DEF AppendAllowFails
      <3>2. QED
        BY <2>6, <3>1
    <2>9. CASE RecoverDone(p, s)
      <3>1. SyncTo(s, buf[p][s]) \/ tail' = tail
        BY <2>9 DEF RecoverDone, disk
      <3>2. QED
        BY <1>1, <2>1, <3>1
    <2>10. CASE \/ Open(p, s) \/ CloseBroken(p, s) \/ LoadRead(p, s) \/ LoadLock(p, s)
                \/ LoadRefused(p, s) \/ \E u \in Uses : RunTool(p, s, u) \/ RecoverUse(p, s, u)
      BY <2>1, <2>10 DEF Open, CloseBroken, LoadRead, LoadLock, LoadRefused, RunTool,
         RecoverUse, disk
    <2>11. QED
      BY <1>3, <2>2, <2>3, <2>4, <2>5, <2>7, <2>8, <2>9, <2>10 DEF SessionStep
  <1>4. ASSUME NEW p \in Procs, Crash(p) PROVE NoTail'
    BY <1>4 DEF Crash, Orphaned, NoTail
  <1>5. CASE PowerLoss
    <2>1. PICK torn \in SUBSET Sessions :
            /\ \A s \in torn : TornWrites
            /\ tail' = [s \in Sessions |-> IF s \in torn THEN "dead" ELSE "none"]
      BY <1>5 DEF PowerLoss
    <2>2. QED
      BY <2>1 DEF NoTail
  <1>6. CASE UNCHANGED vars
    BY <1>6 DEF vars, NoTail
  <1>7. QED
    BY <1>3, <1>4, <1>5, <1>6 DEF Next

\* The allow Append returns is in the fsynced part of the log.
LEMMA AllowIsDurable ==
    ASSUME TypeOK, NoTail, NEW p \in Procs, NEW s \in Sessions, NEW u \in Uses,
           AppendPayload(p, s, "allow", u)
    PROVE  Durable(s, u)'
  <1> DEFINE e == NewEntry(nextId, "allow", u)
             q == Append(buf[p][s], e)
             n == Len(file[s]) + Len(buf[p][s]) + 1
  <1>1. e \in Entry /\ e.kind = "allow" /\ e.use = u
    BY DEF TypeOK, NewEntry, Entry, Kinds
  <1>2. file[s] \in Seq(Line) /\ buf[p][s] \in Seq(Entry) /\ file \in [Sessions -> Seq(Line)]
        /\ synced \in [Sessions -> Nat]
    BY DEF TypeOK
  <1>3. SyncTo(s, q)
    BY DEF AppendPayload, durableAllow
  <1>4. Flushed(s, q) = file[s] \o q
    BY DEF Flushed, NoTail
  <1>5. file'[s] = file[s] \o q /\ synced'[s] = Len(file[s] \o q)
    BY <1>2, <1>3, <1>4 DEF SyncTo
  <1> HIDE DEF e
  <1>6. q \in Seq(Line)
    BY <1>1, <1>2, SeqOver DEF Line
  <1>7. Len(file[s] \o q) = n /\ n \in Nat /\ (file[s] \o q)[n] = e
    BY <1>1, <1>2, <1>6
  <1>8. n \in 1..synced'[s] /\ file'[s][n] = e
    BY <1>2, <1>5, <1>7
  <1>9. QED
    BY <1>1, <1>8 DEF Durable

\* Every step keeps the allows handed to turns durable.
LEMMA GrantedNext ==
    ASSUME TypeOK, TypeOK', SyncedInFile, NoTail, GrantedDurable, [Next]_vars
    PROVE  GrantedDurable'
  <1>0. DurableGrows
    BY DurableNext
  <1>1. ASSUME NEW r \in Sessions \X Uses, Durable(r[1], r[2]) PROVE Durable(r[1], r[2])'
    BY <1>0, <1>1, DurableStays
  <1>2. /\ granted \in [Procs -> SUBSET (Sessions \X Uses)] /\ ran \in SUBSET (Sessions \X Uses)
    BY DEF TypeOK
  <1>3. ASSUME ran' \subseteq ran, \A p \in Procs : granted'[p] \subseteq granted[p]
        PROVE  GrantedDurable'
    BY <1>1, <1>2, <1>3 DEF GrantedDurable, AllowDurableBeforeRun
  <1>4. ASSUME NEW p \in Procs, NEW s \in Sessions, NEW k, NEW u, AppendPayload(p, s, k, u),
               k = "allow" => u \in Uses
        PROVE  GrantedDurable'
    <2>1. CASE k = "allow"
      <3>1. Durable(s, u)'
        BY <1>4, <2>1, AllowIsDurable
      <3>2. ran' = ran /\ granted' = [granted EXCEPT ![p] = @ \cup {<<s, u>>}]
        BY <1>4, <2>1 DEF AppendPayload
      <3>3. QED
        BY <1>1, <1>2, <3>1, <3>2 DEF GrantedDurable, AllowDurableBeforeRun
    <2>2. CASE k # "allow"
      BY <1>3, <1>4, <2>2 DEF AppendPayload
    <2>3. QED
      BY <2>1, <2>2
  <1>5. ASSUME NEW p \in Procs, NEW s \in Sessions, NEW u \in Uses, RunTool(p, s, u)
        PROVE  GrantedDurable'
    <2>1. /\ <<s, u>> \in granted[p]
          /\ granted' = [granted EXCEPT ![p] = @ \ {<<s, u>>}]
          /\ ran' = ran \cup {<<s, u>>}
      BY <1>5 DEF RunTool
    <2>2. \A q \in Procs : granted'[q] \subseteq granted[q]
      BY <1>2, <2>1
    <2>3. \A r \in ran' : r \in Sessions \X Uses /\ Durable(r[1], r[2])
      BY <1>2, <2>1 DEF GrantedDurable, AllowDurableBeforeRun
    <2>4. QED
      BY <1>1, <1>2, <2>2, <2>3 DEF GrantedDurable, AllowDurableBeforeRun
  <1>6. ASSUME NEW p \in Procs, NEW s \in Sessions, SessionStep(p, s) PROVE GrantedDurable'
    <2>1. CASE ran' = ran /\ granted' = granted
      BY <1>3, <2>1
    <2>2. ASSUME NEW c, NEW at, Fork(p, s, c, at) PROVE GrantedDurable'
      BY <2>1, <2>2 DEF Fork, Create
    <2>3. ASSUME NEW u \in Uses, AppendAllowFails(p, s, u) \/ RecoverUse(p, s, u)
          PROVE  GrantedDurable'
      BY <2>1, <2>3 DEF AppendAllowFails, RecoverUse
    <2>4. CASE \/ Open(p, s) \/ CreateSync(p, s) \/ Sync(p, s) \/ Close(p, s) \/ CloseBroken(p, s)
               \/ Spill(p, s) \/ SyncFails(p, s) \/ LoadRead(p, s) \/ LoadLock(p, s)
               \/ LoadRefused(p, s) \/ RecoverDone(p, s)
      BY <2>1, <2>4 DEF Open, Create, CreateSync, Sync, Close, CloseBroken, Spill, SyncFails,
         LoadRead, LoadLock, LoadRefused, RecoverDone
    <2>5. QED
      BY <1>4, <1>5, <1>6, <2>2, <2>3, <2>4 DEF SessionStep
  <1>7. ASSUME NEW p \in Procs, Crash(p) PROVE GrantedDurable'
    BY <1>2, <1>3, <1>7 DEF Crash
  <1>8. CASE PowerLoss
    BY <1>2, <1>3, <1>8 DEF PowerLoss
  <1>9. CASE UNCHANGED vars
    BY <1>3, <1>9 DEF vars
  <1>10. QED
    BY <1>6, <1>7, <1>8, <1>9 DEF Next

\* When lines reach the disk whole, a tool never runs on an allow that a failing
\* write, a crash or a power loss can still lose (Session.Append and durableAllow).
THEOREM ToolsRunOnDurableAllows ==
    ASSUME ~TornWrites
    PROVE  Spec => []AllowDurableBeforeRun
  <1>1. Init => NoTail /\ GrantedDurable
    BY DEF Init, NoTail, GrantedDurable, AllowDurableBeforeRun
  <1>2. TypeOK /\ TypeOK' /\ SyncedInFile /\ NoTail /\ GrantedDurable /\ [Next]_vars
        => (NoTail /\ GrantedDurable)'
    BY TailNext, GrantedNext
  <1>3. GrantedDurable => AllowDurableBeforeRun
    BY DEF GrantedDurable
  <1>4. QED
    BY <1>1, <1>2, <1>3, TypeCorrect, SyncedInvariant, PTL DEF Spec

-----------------------------------------------------------------------------
(* Counting up.                                                            *)

\* Induction, for a set of numbers.
LEMMA CountsUp ==
    ASSUME NEW Q, \A n \in Nat : (\A m \in 0..n - 1 : m \in Q) => n \in Q
    PROVE  \A n \in Nat : n \in Q
  <1> DEFINE Less == {r \in Nat \X Nat : r[1] < r[2]}
             T == {n \in Nat : n \notin Q}
  <1>1. Less = OpToRel(<, Nat)
    BY DEF OpToRel
  <1>2. IsWellFoundedOn(Less, Nat)
    BY <1>1, NatLessThanWellFounded
  <1>3. SUFFICES ASSUME T # {} PROVE FALSE
    OBVIOUS
  <1>4. PICK n \in T : \A m \in T : <<m, n>> \notin Less
    BY <1>2, <1>3, WFMin
  <1>5. ASSUME NEW m \in 0..n - 1 PROVE m \in Q
    <2>1. n \in Nat /\ m \in Nat /\ m < n
      BY <1>4
    <2>2. <<m, n>> \in Less
      BY <2>1
    <2>3. QED
      BY <1>4, <2>1, <2>2
  <1>6. QED
    BY <1>4, <1>5

-----------------------------------------------------------------------------
(* What InheritedTo computes.                                              *)

\* One generation more, from the chains of the generation before.
Generation(f, v, d) ==
    [s \in Sessions |->
        IF d = 0 \/ ~Forked(f, s) THEN <<>>
        ELSE IF \/ ~Readable(f, f[s][1].parent) \/ f[f[s][1].parent] = <<>>
                \/ Forked(f, f[s][1].parent) /\ v[f[s][1].parent] = <<>>
             THEN <<>>
             ELSE UpTo(v[f[s][1].parent] \o f[f[s][1].parent], f[s][1].at)]

\* There are functions that satisfy the equation of InheritedTo, for any number of generations.
LEMMA GenerationsExist ==
    ASSUME NEW f
    PROVE  \A n \in Nat : \E g : g = [d \in 0..n |-> Generation(f, g[d - 1], d)]
  <1> DEFINE Eq(g, n) == g = [d \in 0..n |-> Generation(f, g[d - 1], d)]
             Q == {n \in Nat : \E g : Eq(g, n)}
  <1>0. \A v, w : Generation(f, v, 0) = Generation(f, w, 0)
    BY DEF Generation
  <1>1. 0 \in Q
    <2> DEFINE g == [d \in {0} |-> Generation(f, <<>>, 0)]
    <2>1. g = [d \in 0..0 |-> Generation(f, g[d - 1], d)]
      <3>1. 0..0 = {0}
        OBVIOUS
      <3>2. \A d \in {0} : Generation(f, g[d - 1], d) = Generation(f, <<>>, 0)
        BY <1>0
      <3>3. QED
        BY <3>1, <3>2
    <2>2. Eq(g, 0)
      BY <2>1
    <2>3. QED
      BY <2>2
  <1>2. ASSUME NEW n \in Nat, n \in Q PROVE n + 1 \in Q
    <2>1. PICK g : Eq(g, n)
      BY <1>2
    <2> DEFINE h == [d \in 0..n + 1 |-> IF d = n + 1 THEN Generation(f, g[n], n + 1) ELSE g[d]]
    <2>2. ASSUME NEW d \in 0..n + 1 PROVE h[d] = Generation(f, h[d - 1], d)
      <3>1. CASE d = n + 1
        BY <3>1
      <3>2. CASE d = 0
        BY <1>0, <2>1, <3>2
      <3>3. CASE d \in 1..n
        BY <2>1, <3>3
      <3>4. QED
        BY <3>1, <3>2, <3>3
    <2>3. Eq(h, n + 1)
      BY <2>2
    <2> HIDE DEF h
    <2>4. QED
      BY <2>3
  <1>3. ASSUME NEW n \in Nat, \A m \in 0..n - 1 : m \in Q PROVE n \in Q
    <2>1. CASE n = 0
      BY <1>1, <2>1
    <2>2. CASE n # 0
      <3>1. n - 1 \in Nat /\ n - 1 \in Q /\ n = (n - 1) + 1
        BY <1>3, <2>2
      <3>2. (n - 1) + 1 \in Q
        BY <1>2, <3>1
      <3>3. QED
        BY <3>1, <3>2
    <2>3. QED
      BY <2>1, <2>2
  <1> HIDE DEF Q
  <1>4. \A n \in Nat : n \in Q
    BY <1>3, CountsUp
  <1>5. QED
    BY <1>4 DEF Q

\* So InheritedTo is one of them, and every chain is made of the one before.
LEMMA InheritedIs ==
    ASSUME NEW f, NEW d \in 0..MaxForkDepth + 1
    PROVE  InheritedTo(f)[d] = Generation(f, InheritedTo(f)[d - 1], d)
  <1>1. MaxForkDepth + 1 \in Nat
    BY SessionLogAssumption
  <1>2. PICK g : g = [e \in 0..MaxForkDepth + 1 |-> Generation(f, g[e - 1], e)]
    BY <1>1, GenerationsExist
  <1>3. InheritedTo(f) = CHOOSE I : I = [e \in 0..MaxForkDepth + 1 |-> Generation(f, I[e - 1], e)]
    BY DEF InheritedTo, Generation
  <1>4. InheritedTo(f) = [e \in 0..MaxForkDepth + 1 |-> Generation(f, InheritedTo(f)[e - 1], e)]
    BY <1>2, <1>3
  <1>5. QED
    BY <1>4

\* Every fork names a session.
Named(f) == \A s \in Sessions : Forked(f, s) => f[s][1].parent \in Sessions

TooDeep(f, s) == ForkedTo(f, s, MaxForkDepth + 1)

\* A path of forks from the parent is one generation shorter, and one from the child longer.
LEMMA DeeperIsParents ==
    ASSUME NEW f, Named(f), NEW s \in Sessions, NEW d \in Nat
    PROVE  ForkedTo(f, s, d + 1) <=> Forked(f, s) /\ ForkedTo(f, f[s][1].parent, d)
  <1>1. ASSUME ForkedTo(f, s, d + 1) PROVE Forked(f, s) /\ ForkedTo(f, f[s][1].parent, d)
    <2>1. PICK c \in [0..d + 1 -> Sessions] :
            /\ c[0] = s
            /\ \A i \in 0..d + 1 : Forked(f, c[i])
            /\ \A i \in 0..(d + 1) - 1 : c[i + 1] = f[c[i]][1].parent
      BY <1>1 DEF ForkedTo
    <2> DEFINE b == [i \in 0..d |-> c[i + 1]]
    <2>2. b \in [0..d -> Sessions] /\ b[0] = f[s][1].parent
      BY <2>1
    <2>3. \A i \in 0..d : Forked(f, b[i])
      BY <2>1
    <2>4. ASSUME NEW i \in 0..d - 1 PROVE b[i + 1] = f[b[i]][1].parent
      <3>1. i \in 0..d /\ i + 1 \in 0..d /\ i + 1 \in 0..(d + 1) - 1
        OBVIOUS
      <3>2. b[i] = c[i + 1] /\ b[i + 1] = c[(i + 1) + 1]
        BY <3>1
      <3>3. QED
        BY <2>1, <3>1, <3>2
    <2>5. Forked(f, s)
      BY <2>1
    <2> HIDE DEF b
    <2>6. QED
      BY <2>2, <2>3, <2>4, <2>5 DEF ForkedTo
  <1>2. ASSUME Forked(f, s), ForkedTo(f, f[s][1].parent, d) PROVE ForkedTo(f, s, d + 1)
    <2>1. PICK b \in [0..d -> Sessions] :
            /\ b[0] = f[s][1].parent
            /\ \A i \in 0..d : Forked(f, b[i])
            /\ \A i \in 0..d - 1 : b[i + 1] = f[b[i]][1].parent
      BY <1>2 DEF ForkedTo
    <2> DEFINE c == [i \in 0..d + 1 |-> IF i = 0 THEN s ELSE b[i - 1]]
    <2>2. c \in [0..d + 1 -> Sessions] /\ c[0] = s
      BY <2>1
    <2>3. ASSUME NEW i \in 0..d + 1 PROVE Forked(f, c[i])
      BY <1>2, <2>1
    <2>4. ASSUME NEW i \in 0..(d + 1) - 1 PROVE c[i + 1] = f[c[i]][1].parent
      <3>1. c[i + 1] = b[i]
        OBVIOUS
      <3>2. CASE i = 0
        BY <2>1, <3>1, <3>2
      <3>3. CASE i # 0
        <4>1. i - 1 \in 0..d - 1 /\ (i - 1) + 1 = i /\ c[i] = b[i - 1]
          BY <3>3
        <4>2. b[(i - 1) + 1] = f[b[i - 1]][1].parent
          BY <2>1, <4>1
        <4>3. QED
          BY <3>1, <4>1, <4>2
      <3>4. QED
        BY <3>2, <3>3
    <2> HIDE DEF c
    <2>5. QED
      BY <2>2, <2>3, <2>4 DEF ForkedTo
  <1>3. QED
    BY <1>1, <1>2

\* A session that is a fork is a path of none, and the beginning of a path is one.
LEMMA ShorterIsToo ==
    ASSUME NEW f, NEW s \in Sessions
    PROVE  /\ ForkedTo(f, s, 0) => Forked(f, s)
           /\ Forked(f, s) => ForkedTo(f, s, 0)
           /\ \A d \in Nat : ForkedTo(f, s, d + 1) => ForkedTo(f, s, d)
  <1>1. ASSUME Forked(f, s) PROVE ForkedTo(f, s, 0)
    <2> DEFINE c == [i \in 0..0 |-> s]
    <2>1. /\ c \in [0..0 -> Sessions] /\ c[0] = s
          /\ \A i \in 0..0 : Forked(f, c[i])
          /\ \A i \in 0..0 - 1 : c[i + 1] = f[c[i]][1].parent
      BY <1>1
    <2> HIDE DEF c
    <2>2. QED
      BY <2>1 DEF ForkedTo
  <1>2. ForkedTo(f, s, 0) => Forked(f, s)
    BY DEF ForkedTo
  <1>3. ASSUME NEW d \in Nat, ForkedTo(f, s, d + 1) PROVE ForkedTo(f, s, d)
    <2>1. PICK c \in [0..d + 1 -> Sessions] :
            /\ c[0] = s
            /\ \A i \in 0..d + 1 : Forked(f, c[i])
            /\ \A i \in 0..(d + 1) - 1 : c[i + 1] = f[c[i]][1].parent
      BY <1>3 DEF ForkedTo
    <2> DEFINE b == [i \in 0..d |-> c[i]]
    <2>2. /\ b \in [0..d -> Sessions] /\ b[0] = s
          /\ \A i \in 0..d : Forked(f, b[i])
          /\ \A i \in 0..d - 1 : b[i + 1] = f[b[i]][1].parent
      BY <2>1
    <2> HIDE DEF b
    <2>3. QED
      BY <2>2 DEF ForkedTo
  <1>4. \A d \in Nat : ForkedTo(f, s, d + 1) => ForkedTo(f, s, d)
    BY <1>3
  <1>5. Forked(f, s) => ForkedTo(f, s, 0)
    BY <1>1
  <1>6. QED
    BY <1>2, <1>4, <1>5

\* What one generation of a fork's chain is made of.
LEMMA ForkIs ==
    ASSUME NEW f, NEW d \in 0..MaxForkDepth + 1, NEW s \in Sessions
    PROVE  LET up == f[s][1].parent IN
           InheritedTo(f)[d][s] =
             IF d = 0 \/ ~Forked(f, s) THEN <<>>
             ELSE IF \/ ~Readable(f, up) \/ f[up] = <<>>
                     \/ Forked(f, up) /\ InheritedTo(f)[d - 1][up] = <<>>
                  THEN <<>>
                  ELSE UpTo(InheritedTo(f)[d - 1][up] \o f[up], f[s][1].at)
  <1> DEFINE v == InheritedTo(f)[d - 1]
  <1>1. InheritedTo(f)[d] = Generation(f, v, d)
    BY InheritedIs
  <1> HIDE DEF v
  <1>2. InheritedTo(f)[d][s] = Generation(f, v, d)[s]
    BY <1>1
  <1>3. Generation(f, v, d)[s] =
          IF d = 0 \/ ~Forked(f, s) THEN <<>>
          ELSE IF \/ ~Readable(f, f[s][1].parent) \/ f[f[s][1].parent] = <<>>
                  \/ Forked(f, f[s][1].parent) /\ v[f[s][1].parent] = <<>>
               THEN <<>>
               ELSE UpTo(v[f[s][1].parent] \o f[f[s][1].parent], f[s][1].at)
    BY DEF Generation
  <1>4. QED
    BY <1>2, <1>3 DEF v

\* A chain of too many generations resolves to nothing.
LEMMA DeepIsEmpty ==
    ASSUME NEW f, Named(f)
    PROVE  \A d \in 0..MaxForkDepth + 1, s \in Sessions :
             ForkedTo(f, s, d) => InheritedTo(f)[d][s] = <<>>
  <1> DEFINE Q == {d \in Nat : d <= MaxForkDepth + 1 => \A s \in Sessions :
                                 ForkedTo(f, s, d) => InheritedTo(f)[d][s] = <<>>}
  <1>0. MaxForkDepth \in Nat
    BY SessionLogAssumption
  <1>1. ASSUME NEW d \in Nat, \A e \in 0..d - 1 : e \in Q PROVE d \in Q
    <2>1. SUFFICES ASSUME d <= MaxForkDepth + 1, NEW s \in Sessions, ForkedTo(f, s, d)
                   PROVE  InheritedTo(f)[d][s] = <<>>
      OBVIOUS
    <2>2. d \in 0..MaxForkDepth + 1
      BY <1>0, <2>1
    <2>3. CASE d = 0
      BY <2>2, <2>3, ForkIs
    <2>4. CASE d # 0
      <3>1. d - 1 \in Nat /\ d = (d - 1) + 1 /\ d - 1 \in 0..d - 1 /\ d - 1 <= MaxForkDepth + 1
        BY <1>0, <2>1, <2>4
      <3>2. Forked(f, s) /\ ForkedTo(f, f[s][1].parent, d - 1)
        BY <2>1, <3>1, DeeperIsParents
      <3>3. f[s][1].parent \in Sessions
        BY <3>2 DEF Named
      <3>4. InheritedTo(f)[d - 1][f[s][1].parent] = <<>>
        BY <1>1, <3>1, <3>2, <3>3
      <3>5. Forked(f, f[s][1].parent)
        BY <3>2, <3>3, <3>1 DEF ForkedTo
      <3>6. QED
        BY <2>2, <3>4, <3>5, ForkIs
    <2>5. QED
      BY <2>3, <2>4
  <1> HIDE DEF Q
  <1>2. \A d \in Nat : d \in Q
    BY <1>1, CountsUp
  <1>3. QED
    BY <1>0, <1>2 DEF Q

\* One generation more adds nothing to a chain that is not too deep.
LEMMA DeepEnough ==
    ASSUME NEW f, Named(f)
    PROVE  \A d \in 0..MaxForkDepth, s \in Sessions :
             ~ForkedTo(f, s, d) => InheritedTo(f)[d + 1][s] = InheritedTo(f)[d][s]
  <1> DEFINE Q == {d \in Nat : d <= MaxForkDepth => \A s \in Sessions :
                     ~ForkedTo(f, s, d) => InheritedTo(f)[d + 1][s] = InheritedTo(f)[d][s]}
  <1>0. MaxForkDepth \in Nat
    BY SessionLogAssumption
  <1>1. ASSUME NEW d \in Nat, \A e \in 0..d - 1 : e \in Q PROVE d \in Q
    <2>1. SUFFICES ASSUME d <= MaxForkDepth, NEW s \in Sessions, ~ForkedTo(f, s, d)
                   PROVE  InheritedTo(f)[d + 1][s] = InheritedTo(f)[d][s]
      OBVIOUS
    <2>2. d \in 0..MaxForkDepth + 1 /\ d + 1 \in 0..MaxForkDepth + 1
      BY <1>0, <2>1
    <2>3. CASE ~Forked(f, s)
      BY <2>2, <2>3, ForkIs
    <2>4. CASE Forked(f, s)
      <3>0. d # 0
        BY <2>1, <2>4, ShorterIsToo
      <3>1. d - 1 \in Nat /\ d = (d - 1) + 1 /\ d - 1 \in 0..d - 1 /\ d - 1 <= MaxForkDepth
            /\ (d + 1) - 1 = d
        BY <1>0, <2>1, <3>0
      <3>2. f[s][1].parent \in Sessions /\ ~ForkedTo(f, f[s][1].parent, d - 1)
        BY <2>1, <2>4, <3>1, DeeperIsParents DEF Named
      <3>3. d - 1 \in Q
        BY <1>1, <3>1
      <3>4. InheritedTo(f)[(d - 1) + 1][f[s][1].parent] = InheritedTo(f)[d - 1][f[s][1].parent]
        BY <3>1, <3>2, <3>3
      <3>5. QED
        BY <2>2, <2>4, <3>0, <3>1, <3>4, ForkIs
    <2>5. QED
      BY <2>3, <2>4
  <1> HIDE DEF Q
  <1>2. \A d \in Nat : d \in Q
    BY <1>1, CountsUp
  <1>3. QED
    BY <1>0, <1>2 DEF Q

\* What Load inherits: nothing but for a fork, and for a fork within the limit the parent's
\* chain and log up to the entry it was forked at.
LEMMA HomeIs ==
    ASSUME NEW f, Named(f), NEW s \in Sessions
    PROVE  /\ ~Forked(f, s) \/ TooDeep(f, s) => InheritedEntries(f, s) = <<>>
           /\ Forked(f, s) /\ ~TooDeep(f, s) =>
                LET up == f[s][1].parent
                IN  /\ up \in Sessions /\ ~TooDeep(f, up)
                    /\ InheritedEntries(f, s) =
                         IF \/ ~Readable(f, up) \/ f[up] = <<>>
                            \/ Forked(f, up) /\ InheritedEntries(f, up) = <<>>
                         THEN <<>>
                         ELSE UpTo(InheritedEntries(f, up) \o f[up], f[s][1].at)
  <1> DEFINE D == MaxForkDepth + 1
             up == f[s][1].parent
  <1>0. MaxForkDepth \in Nat /\ D \in 0..D /\ D # 0 /\ D - 1 = MaxForkDepth
    BY SessionLogAssumption
  <1>1. \A t : InheritedEntries(f, t) = InheritedTo(f)[D][t]
    BY DEF InheritedEntries, InheritedAt
  <1>2. ASSUME ~Forked(f, s) PROVE InheritedEntries(f, s) = <<>>
    BY <1>0, <1>1, <1>2, ForkIs
  <1>3. ASSUME TooDeep(f, s) PROVE InheritedEntries(f, s) = <<>>
    BY <1>0, <1>1, <1>3, DeepIsEmpty DEF TooDeep
  <1>4. ASSUME Forked(f, s), ~TooDeep(f, s)
        PROVE  /\ up \in Sessions /\ ~TooDeep(f, up)
               /\ InheritedEntries(f, s) =
                    IF \/ ~Readable(f, up) \/ f[up] = <<>>
                       \/ Forked(f, up) /\ InheritedEntries(f, up) = <<>>
                    THEN <<>>
                    ELSE UpTo(InheritedEntries(f, up) \o f[up], f[s][1].at)
    <2>1. up \in Sessions
      BY <1>4 DEF Named
    <2>2. ~ForkedTo(f, up, MaxForkDepth)
      BY <1>0, <1>4, DeeperIsParents DEF TooDeep
    <2>3. ~TooDeep(f, up)
      BY <1>0, <2>1, <2>2, ShorterIsToo DEF TooDeep
    <2>4. InheritedTo(f)[D][up] = InheritedTo(f)[MaxForkDepth][up]
      BY <1>0, <2>1, <2>2, DeepEnough
    <2>5. InheritedTo(f)[D][s] =
             IF D = 0 \/ ~Forked(f, s) THEN <<>>
             ELSE IF \/ ~Readable(f, up) \/ f[up] = <<>>
                     \/ Forked(f, up) /\ InheritedTo(f)[D - 1][up] = <<>>
                  THEN <<>>
                  ELSE UpTo(InheritedTo(f)[D - 1][up] \o f[up], f[s][1].at)
      BY <1>0, ForkIs
    <2>6. InheritedTo(f)[D - 1][up] = InheritedEntries(f, up)
      BY <1>0, <1>1, <2>4
    <2>7. QED
      BY <1>0, <1>1, <1>4, <2>1, <2>3, <2>5, <2>6
  <1>5. QED
    BY <1>2, <1>3, <1>4

-----------------------------------------------------------------------------
(* The ids of the entries of a log.                                        *)

\* The ids in a sequence of entries, and that each is greater than the one before it.
Ids(q) == {q[i].id : i \in DOMAIN q}
Rising(q) == \A i, j \in DOMAIN q : i < j => q[i].id < q[j].id

\* The numbers in an entry.
LEMMA EntryId == \A e \in Entry : e.id \in Nat /\ e.at \in Nat
  BY DEF Entry

\* Ids are numbers.
LEMMA IdsAreNumbers == \A q \in Seq(Entry) : \A x \in Ids(q) : x \in Nat
  <1>1. ASSUME NEW q \in Seq(Entry), NEW i \in DOMAIN q PROVE q[i].id \in Nat
    BY EntryId
  <1>2. QED
    BY <1>1 DEF Ids

\* Up to an id, a sequence that rises is the prefix that ends in it.
LEMMA UpToIs ==
    ASSUME NEW q \in Seq(Entry), Rising(q), NEW i \in DOMAIN q
    PROVE  UpTo(q, q[i].id) = Prefix(q, i)
  <1>1. \A j \in DOMAIN q : q[j].id \in Nat
    BY EntryId
  <1>2. ASSUME NEW j \in DOMAIN q, q[j].id = q[i].id PROVE j = i
    <2>1. i \in Int /\ j \in Int
      OBVIOUS
    <2>2. ~(i < j) /\ ~(j < i)
      BY <1>1, <1>2 DEF Rising
    <2>3. QED
      BY <2>1, <2>2
  <1>3. (CHOOSE j \in DOMAIN q : q[j].id = q[i].id) = i
    BY <1>2
  <1>4. QED
    BY <1>3 DEF UpTo

\* What that prefix holds.
LEMMA CutIs ==
    ASSUME NEW q \in Seq(Entry), Rising(q), NEW e \in Ids(q)
    PROVE  /\ UpTo(q, e) \in Seq(Entry) /\ UpTo(q, e) # <<>> /\ Rising(UpTo(q, e))
           /\ UpTo(q, e)[Len(UpTo(q, e))].id = e
           /\ Ids(UpTo(q, e)) = {x \in Ids(q) : x <= e}
  <1>1. PICK i \in DOMAIN q : q[i].id = e
    BY DEF Ids
  <1>2. UpTo(q, e) = Prefix(q, i)
    BY <1>1, UpToIs
  <1>3. i \in 1..Len(q)
    OBVIOUS
  <1>4. /\ Prefix(q, i) \in Seq(Entry) /\ Len(Prefix(q, i)) = i
        /\ \A j \in 1..i : Prefix(q, i)[j] = q[j]
    BY <1>3, SubSeqProperties DEF Prefix
  <1>5. DOMAIN q = 1..Len(q) /\ DOMAIN Prefix(q, i) = 1..i
    BY <1>4
  <1>6. Rising(Prefix(q, i))
    BY <1>3, <1>4, <1>5 DEF Rising
  <1>7. \A j \in 1..Len(q) : q[j].id \in Nat
    BY EntryId
  <1>8. ASSUME NEW j \in 1..Len(q) PROVE q[j].id <= e <=> j <= i
    <2>1. j < i => q[j].id < q[i].id
      BY <1>3, <1>5 DEF Rising
    <2>2. i < j => q[i].id < q[j].id
      BY <1>3, <1>5 DEF Rising
    <2>3. q[j].id \in Nat /\ e \in Nat
      BY <1>1, <1>3, <1>7
    <2>4. QED
      BY <1>1, <1>3, <2>1, <2>2, <2>3
  <1>9. Ids(Prefix(q, i)) = {x \in Ids(q) : x <= e}
    <2>1. ASSUME NEW x \in Ids(Prefix(q, i)) PROVE x \in Ids(q) /\ x <= e
      BY <1>3, <1>4, <1>5, <1>8 DEF Ids
    <2>2. ASSUME NEW x \in Ids(q), x <= e PROVE x \in Ids(Prefix(q, i))
      <3>1. PICK j \in 1..Len(q) : q[j].id = x
        BY <1>5 DEF Ids
      <3>2. j \in 1..i
        BY <1>8, <2>2, <3>1
      <3>3. QED
        BY <1>4, <1>5, <3>1, <3>2 DEF Ids
    <2>3. QED
      BY <2>1, <2>2
  <1>10. QED
    BY <1>1, <1>2, <1>3, <1>4, <1>6, <1>9

\* It is the same of two sequences that agree up to it.
LEMMA SameCut ==
    ASSUME NEW q \in Seq(Entry), NEW r \in Seq(Entry), Rising(q), Rising(r),
           NEW k \in Nat, k <= Len(q), k <= Len(r), \A i \in 1..k : q[i] = r[i],
           NEW i \in 1..k
    PROVE  UpTo(q, q[i].id) = UpTo(r, q[i].id)
  <1>1. i \in DOMAIN q /\ i \in DOMAIN r /\ r[i] = q[i]
    OBVIOUS
  <1>2. UpTo(q, q[i].id) = Prefix(q, i) /\ UpTo(r, r[i].id) = Prefix(r, i)
    BY <1>1, UpToIs
  <1>3. Prefix(q, i) = Prefix(r, i)
    BY DEF Prefix
  <1>4. QED
    BY <1>1, <1>2, <1>3

\* Two sequences one after the other.
LEMMA JoinIs ==
    ASSUME NEW S, NEW q \in Seq(S), NEW r \in Seq(S)
    PROVE  /\ q \o r \in Seq(S) /\ Len(q \o r) = Len(q) + Len(r)
           /\ \A i \in 1..Len(q) : (q \o r)[i] = q[i]
           /\ \A i \in 1..Len(r) : (q \o r)[Len(q) + i] = r[i]
           /\ \A i \in DOMAIN (q \o r) : \/ i \in 1..Len(q)
                                         \/ i - Len(q) \in 1..Len(r) /\ (q \o r)[i] = r[i - Len(q)]
  OBVIOUS

\* The ids of both.
LEMMA JoinIds ==
    ASSUME NEW q \in Seq(Entry), NEW r \in Seq(Entry)
    PROVE  Ids(q \o r) = Ids(q) \cup Ids(r)
  <1>1. DOMAIN (q \o r) = 1..(Len(q) + Len(r)) /\ DOMAIN q = 1..Len(q) /\ DOMAIN r = 1..Len(r)
    OBVIOUS
  <1>2. ASSUME NEW x \in Ids(q \o r) PROVE x \in Ids(q) \cup Ids(r)
    <2>1. PICK i \in DOMAIN (q \o r) : x = (q \o r)[i].id
      BY DEF Ids
    <2>2. CASE i \in 1..Len(q)
      BY <1>1, <2>1, <2>2, JoinIs DEF Ids
    <2>3. CASE i - Len(q) \in 1..Len(r) /\ (q \o r)[i] = r[i - Len(q)]
      BY <1>1, <2>1, <2>3 DEF Ids
    <2>4. QED
      BY <2>2, <2>3, JoinIs
  <1>3. ASSUME NEW x \in Ids(q) PROVE x \in Ids(q \o r)
    <2>1. PICK i \in 1..Len(q) : x = q[i].id
      BY <1>1 DEF Ids
    <2>2. i \in DOMAIN (q \o r) /\ (q \o r)[i].id = x
      BY <1>1, <2>1, JoinIs
    <2>3. QED
      BY <2>2 DEF Ids
  <1>4. ASSUME NEW x \in Ids(r) PROVE x \in Ids(q \o r)
    <2>1. PICK i \in 1..Len(r) : x = r[i].id
      BY <1>1 DEF Ids
    <2>2. Len(q) + i \in DOMAIN (q \o r) /\ (q \o r)[Len(q) + i].id = x
      BY <1>1, <2>1, JoinIs
    <2>3. QED
      BY <2>2 DEF Ids
  <1>5. QED
    BY <1>2, <1>3, <1>4

\* They rise when each does and the second begins after the first.
LEMMA JoinRises ==
    ASSUME NEW q \in Seq(Entry), NEW r \in Seq(Entry)
    PROVE  Rising(q \o r) <=> /\ Rising(q) /\ Rising(r)
                              /\ \A x \in Ids(q), y \in Ids(r) : x < y
  <1>1. /\ DOMAIN (q \o r) = 1..(Len(q) + Len(r)) /\ DOMAIN q = 1..Len(q) /\ DOMAIN r = 1..Len(r)
        /\ Len(q) \in Nat /\ Len(r) \in Nat
    OBVIOUS
  <1>2. ASSUME Rising(q \o r) PROVE Rising(q) /\ Rising(r) /\ \A x \in Ids(q), y \in Ids(r) : x < y
    <2>1. Rising(q)
      BY <1>1, <1>2, JoinIs DEF Rising
    <2>2. ASSUME NEW i \in 1..Len(r), NEW j \in 1..Len(r), i < j PROVE r[i].id < r[j].id
      <3>1. /\ Len(q) + i \in DOMAIN (q \o r) /\ Len(q) + j \in DOMAIN (q \o r)
            /\ Len(q) + i < Len(q) + j
        BY <1>1, <2>2
      <3>2. (q \o r)[Len(q) + i].id < (q \o r)[Len(q) + j].id
        BY <1>2, <3>1 DEF Rising
      <3>3. QED
        BY <3>2, JoinIs
    <2>3. ASSUME NEW i \in 1..Len(q), NEW j \in 1..Len(r) PROVE q[i].id < r[j].id
      <3>1. /\ i \in DOMAIN (q \o r) /\ Len(q) + j \in DOMAIN (q \o r)
            /\ i < Len(q) + j
        BY <1>1
      <3>2. (q \o r)[i].id < (q \o r)[Len(q) + j].id
        BY <1>2, <3>1 DEF Rising
      <3>3. QED
        BY <3>2, JoinIs
    <2>4. Rising(r)
      BY <1>1, <2>2 DEF Rising
    <2>5. QED
      BY <1>1, <2>1, <2>3, <2>4 DEF Ids
  <1>3. ASSUME Rising(q), Rising(r), \A x \in Ids(q), y \in Ids(r) : x < y PROVE Rising(q \o r)
    <2>1. ASSUME NEW i \in DOMAIN (q \o r), NEW j \in DOMAIN (q \o r), i < j
          PROVE  (q \o r)[i].id < (q \o r)[j].id
      <3>1. i \in 1..(Len(q) + Len(r)) /\ j \in 1..(Len(q) + Len(r))
        BY <1>1
      <3>2. CASE j \in 1..Len(q)
        <4>1. i \in 1..Len(q)
          BY <2>1, <3>1, <3>2
        <4>2. (q \o r)[i] = q[i] /\ (q \o r)[j] = q[j]
          BY <3>2, <4>1, JoinIs
        <4>3. QED
          BY <1>1, <1>3, <2>1, <3>2, <4>1, <4>2 DEF Rising
      <3>3. CASE i \in 1..Len(q) /\ j \notin 1..Len(q)
        <4>1. (q \o r)[i] = q[i] /\ j - Len(q) \in 1..Len(r) /\ (q \o r)[j] = r[j - Len(q)]
          BY <3>3, JoinIs
        <4>2. q[i].id \in Ids(q) /\ r[j - Len(q)].id \in Ids(r)
          BY <1>1, <3>3, <4>1 DEF Ids
        <4>3. QED
          BY <1>3, <4>1, <4>2
      <3>4. CASE i \notin 1..Len(q)
        <4>1. j \notin 1..Len(q)
          BY <2>1, <3>1, <3>4
        <4>2. /\ i - Len(q) \in 1..Len(r) /\ (q \o r)[i] = r[i - Len(q)]
              /\ j - Len(q) \in 1..Len(r) /\ (q \o r)[j] = r[j - Len(q)]
          BY <3>4, <4>1, JoinIs
        <4>3. i - Len(q) < j - Len(q)
          BY <1>1, <2>1, <3>1
        <4>4. QED
          BY <1>1, <1>3, <4>2, <4>3 DEF Rising
      <3>5. QED
        BY <3>2, <3>3, <3>4
    <2>2. QED
      BY <2>1 DEF Rising
  <1>4. QED
    BY <1>2, <1>3

-----------------------------------------------------------------------------
(* What a fork's chain resolves to.                                        *)

\* A prefix keeps what it keeps.
LEMMA PrefixIs ==
    ASSUME NEW q \in Seq(Entry), NEW k \in 0..Len(q)
    PROVE  /\ Prefix(q, k) \in Seq(Entry) /\ Len(Prefix(q, k)) = k
           /\ \A i \in 1..k : Prefix(q, k)[i] = q[i]
           /\ Ids(Prefix(q, k)) \subseteq Ids(q)
           /\ Rising(q) => Rising(Prefix(q, k))
  <1>1. /\ Prefix(q, k) \in Seq(Entry) /\ Len(Prefix(q, k)) = k
        /\ \A i \in 1..k : Prefix(q, k)[i] = q[i]
    BY SubSeqProperties DEF Prefix
  <1>2. DOMAIN Prefix(q, k) = 1..k /\ DOMAIN q = 1..Len(q)
    BY <1>1
  <1>3. QED
    BY <1>1, <1>2 DEF Ids, Rising

\* A malformed line is no entry.
LEMMA BadIsNoEntry == Bad \notin Entry
  BY DEF Bad, Entry, Kinds

\* What a fork_point e says of its parent: it was there before, synced, and e.at is in what the
\* parent inherits or in what of its own log is synced.
Rooted(f, n, e) ==
    /\ e.parent \in Sessions /\ n[e.parent] >= 1
    /\ f[e.parent][1].id < e.id /\ e.at < e.id
Found(f, n, e) ==
    ~TooDeep(f, e.parent) =>
        e.at \in Ids(InheritedEntries(f, e.parent)) \cup Ids(Prefix(f[e.parent], n[e.parent]))

\* Logs of entries that rise, n[s] of them synced, and whose forks are rooted.
Logs(f, n) == \A s \in Sessions : f[s] \in Seq(Entry) /\ Rising(f[s]) /\ n[s] \in 0..Len(f[s])
Chains(f, n) == Logs(f, n) /\ \A s \in Sessions :
                  Forked(f, s) => Rooted(f, n, f[s][1]) /\ Found(f, n, f[s][1])

\* The first entry of a log that has one.
LEMMA FirstIs ==
    ASSUME NEW f, NEW n, Chains(f, n), NEW s \in Sessions, f[s] # <<>>
    PROVE  f[s][1] \in Entry /\ f[s][1].id \in Nat /\ f[s][1].at \in Nat /\ f[s][1].id \in Ids(f[s])
  <1>1. f[s] \in Seq(Entry)
    BY DEF Chains, Logs
  <1>2. 1 \in DOMAIN f[s] /\ f[s][1] \in Entry
    BY <1>1
  <1>3. QED
    BY <1>2, EntryId DEF Ids

\* The forks of logs that are chains name sessions.
LEMMA ChainsNamed == ASSUME NEW f, NEW n, Chains(f, n) PROVE Named(f)
  BY DEF Chains, Rooted, Named

\* What a chain within the limit resolves to.
Sound(f, s) ==
    LET up == f[s][1].parent
    IN  /\ InheritedEntries(f, s) \in Seq(Entry) /\ Rising(InheritedEntries(f, s) \o f[s])
        /\ Forked(f, s) /\ ~TooDeep(f, s) =>
             /\ InheritedEntries(f, s) # <<>>
             /\ InheritedEntries(f, s)[Len(InheritedEntries(f, s))].id = f[s][1].at
             /\ InheritedEntries(f, s) = UpTo(InheritedEntries(f, up) \o f[up], f[s][1].at)
             /\ Ids(InheritedEntries(f, s)) =
                  {x \in Ids(InheritedEntries(f, up)) \cup Ids(f[up]) : x <= f[s][1].at}

\* Nothing before a sequence.
LEMMA EmptyIs == ASSUME NEW q \in Seq(Entry) PROVE <<>> \o q = q
  OBVIOUS

\* A log that inherits nothing is sound.
LEMMA RootSound ==
    ASSUME NEW f, NEW n, Chains(f, n), NEW s \in Sessions, ~Forked(f, s) \/ TooDeep(f, s)
    PROVE  Sound(f, s)
  <1>1. InheritedEntries(f, s) = <<>>
    BY ChainsNamed, HomeIs
  <1>2. f[s] \in Seq(Entry) /\ Rising(f[s])
    BY DEF Chains, Logs
  <1>3. <<>> \o f[s] = f[s] /\ <<>> \in Seq(Entry)
    BY <1>2, EmptyIs
  <1>4. QED
    BY <1>1, <1>2, <1>3 DEF Sound

\* A fork of a sound log is sound.
LEMMA ForkSound ==
    ASSUME NEW f, NEW n, Chains(f, n), NEW s \in Sessions, Forked(f, s), ~TooDeep(f, s),
           Sound(f, f[s][1].parent)
    PROVE  Sound(f, s)
  <1> DEFINE e == f[s][1]
             up == e.parent
             h == InheritedEntries(f, up)
             all == h \o f[up]
  <1>1. f[s] \in Seq(Entry) /\ Rising(f[s]) /\ f[s] # <<>>
    BY DEF Chains, Logs, Forked
  <1>2. /\ up \in Sessions /\ n[up] >= 1 /\ f[up][1].id < e.id /\ e.at < e.id /\ Found(f, n, e)
        /\ e.id \in Nat /\ e.at \in Nat
    BY <1>1, FirstIs DEF Chains, Rooted
  <1>3. f[up] \in Seq(Entry) /\ Rising(f[up]) /\ n[up] \in 0..Len(f[up])
    BY <1>2 DEF Chains, Logs
  <1>4. f[up] # <<>>
    BY <1>2, <1>3
  <1>5. ~TooDeep(f, up)
    BY ChainsNamed, HomeIs
  <1>6. h \in Seq(Entry) /\ all \in Seq(Entry) /\ Rising(all) /\ Ids(all) = Ids(h) \cup Ids(f[up])
    BY <1>3, JoinIs, JoinIds DEF Sound
  <1>7. Readable(f, up)
    <2>1. \A i \in DOMAIN f[up] : f[up][i] \in Entry
      BY <1>3
    <2>2. QED
      BY <2>1, BadIsNoEntry DEF Readable
  <1>8. ~(Forked(f, up) /\ h = <<>>)
    BY <1>5 DEF Sound
  <1>9. InheritedEntries(f, s) = UpTo(all, e.at)
    BY <1>4, <1>7, <1>8, ChainsNamed, HomeIs
  <1>10. e.at \in Ids(all)
    BY <1>2, <1>3, <1>5, <1>6, PrefixIs DEF Found
  <1> HIDE DEF all
  <1>11. /\ InheritedEntries(f, s) \in Seq(Entry) /\ InheritedEntries(f, s) # <<>>
         /\ Rising(InheritedEntries(f, s))
         /\ InheritedEntries(f, s)[Len(InheritedEntries(f, s))].id = e.at
         /\ Ids(InheritedEntries(f, s)) = {x \in Ids(all) : x <= e.at}
    BY <1>6, <1>9, <1>10, CutIs
  <1>12. ASSUME NEW x \in Ids(InheritedEntries(f, s)), NEW y \in Ids(f[s]) PROVE x < y
    <2>1. PICK i \in DOMAIN f[s] : y = f[s][i].id
      BY DEF Ids
    <2>2. y \in Nat /\ e.id <= y
      <3>1. i = 1 \/ 1 < i
        BY <1>1
      <3>2. f[s][i].id \in Nat /\ 1 \in DOMAIN f[s]
        BY <1>1, EntryId
      <3>3. QED
        BY <1>1, <1>2, <2>1, <3>1, <3>2 DEF Rising
    <2>3. x <= e.at /\ x \in Ids(all)
      BY <1>11
    <2>4. x \in Nat
      BY <1>6, <2>3, EntryId DEF Ids
    <2>5. QED
      BY <1>2, <2>2, <2>3, <2>4
  <1>13. Rising(InheritedEntries(f, s) \o f[s])
    BY <1>1, <1>11, <1>12, JoinRises
  <1>14. QED
    BY <1>6, <1>9, <1>11, <1>13 DEF Sound, all

\* Every log is.
LEMMA AllSound ==
    ASSUME NEW f, NEW n, Chains(f, n)
    PROVE  \A s \in Sessions : Sound(f, s)
  <1> DEFINE Q == {k \in Nat : \A s \in Sessions : f[s] # <<>> /\ f[s][1].id = k => Sound(f, s)}
  <1>1. ASSUME NEW k \in Nat, \A m \in 0..k - 1 : m \in Q PROVE k \in Q
    <2>1. SUFFICES ASSUME NEW s \in Sessions, f[s] # <<>>, f[s][1].id = k PROVE Sound(f, s)
      OBVIOUS
    <2>2. CASE ~Forked(f, s) \/ TooDeep(f, s)
      BY <2>2, RootSound
    <2>3. CASE Forked(f, s) /\ ~TooDeep(f, s)
      <3> DEFINE up == f[s][1].parent
      <3>1. up \in Sessions /\ n[up] >= 1 /\ f[up][1].id < k /\ n[up] \in 0..Len(f[up])
        BY <2>1, <2>3 DEF Chains, Logs, Rooted
      <3>2. f[up] \in Seq(Entry) /\ f[up] # <<>>
        BY <3>1 DEF Chains, Logs
      <3>3. f[up][1].id \in 0..k - 1
        BY <3>1, <3>2, FirstIs
      <3>4. Sound(f, up)
        BY <1>1, <3>1, <3>2, <3>3
      <3>5. QED
        BY <2>3, <3>4, ForkSound
    <2>4. QED
      BY <2>2, <2>3
  <1> HIDE DEF Q
  <1>2. \A k \in Nat : k \in Q
    BY <1>1, CountsUp
  <1>3. ASSUME NEW s \in Sessions PROVE Sound(f, s)
    <2>1. CASE f[s] = <<>>
      BY <2>1, RootSound DEF Forked
    <2>2. CASE f[s] # <<>>
      <3>1. f[s][1].id \in Nat
        BY <2>2, FirstIs
      <3>2. QED
        BY <1>2, <2>2, <3>1 DEF Q
    <2>3. QED
      BY <2>1, <2>2
  <1>4. QED
    BY <1>3

-----------------------------------------------------------------------------
(* What a step leaves of the chains.                                       *)

\* g keeps what of f is synced, and a session begins as it did.
Kept(f, n, g, m) == \A s \in Sessions :
    n[s] <= m[s] /\ n[s] <= Len(g[s]) /\ \A i \in 1..n[s] : g[s][i] = f[s][i]
Same(f, g, s) == f[s] # <<>> /\ g[s] # <<>> /\ g[s][1] = f[s][1]

\* The logs change from f to g: nothing synced is lost, and who is a fork was one or is rooted.
Moved(f, n, g, m) ==
    /\ Chains(f, n) /\ Logs(g, m) /\ Kept(f, n, g, m)
    /\ \A s \in Sessions : Forked(g, s) =>
         Same(f, g, s) \/ (Rooted(f, n, g[s][1]) /\ Found(f, n, g[s][1]))

\* The first entry has the least id.
LEMMA FirstLeast ==
    ASSUME NEW q \in Seq(Entry), Rising(q), NEW y \in Ids(q)
    PROVE  q # <<>> /\ q[1].id <= y /\ y \in Nat
  <1>1. PICK i \in DOMAIN q : y = q[i].id
    BY DEF Ids
  <1>2. q # <<>> /\ 1 \in DOMAIN q /\ i \in Nat /\ (i = 1 \/ 1 < i)
    OBVIOUS
  <1>3. q[1].id \in Nat /\ q[i].id \in Nat
    BY <1>2, EntryId
  <1>4. QED
    BY <1>1, <1>2, <1>3 DEF Rising

\* A parent named by a rooted entry begins as it did.
LEMMA ParentSame ==
    ASSUME NEW f, NEW n, NEW g, NEW m, Moved(f, n, g, m), NEW e, Rooted(f, n, e)
    PROVE  Same(f, g, e.parent) /\ e.parent \in Sessions
  <1> DEFINE up == e.parent
  <1>1. up \in Sessions /\ n[up] >= 1
    BY DEF Rooted
  <1>2. /\ f[up] \in Seq(Entry) /\ g[up] \in Seq(Entry) /\ n[up] \in 0..Len(f[up])
        /\ n[up] <= Len(g[up]) /\ \A i \in 1..n[up] : g[up][i] = f[up][i]
    BY <1>1 DEF Moved, Chains, Logs, Kept
  <1>3. QED
    BY <1>1, <1>2 DEF Same

\* Forks name sessions after the step too, and begin as they did.
LEMMA MovedNamed ==
    ASSUME NEW f, NEW n, NEW g, NEW m, Moved(f, n, g, m)
    PROVE  /\ Named(g)
           /\ \A s \in Sessions : Same(f, g, s) =>
                /\ Forked(f, s) => Forked(g, s)
                /\ Forked(g, s) => Forked(f, s)
                /\ Forked(f, s) => /\ Rooted(f, n, f[s][1]) /\ Found(f, n, f[s][1])
                                   /\ f[s][1].parent \in Sessions
                                   /\ Same(f, g, f[s][1].parent)
  <1>1. ASSUME NEW s \in Sessions, Same(f, g, s)
        PROVE  (Forked(f, s) => Forked(g, s)) /\ (Forked(g, s) => Forked(f, s))
    BY <1>1 DEF Same, Forked
  <1>2. ASSUME NEW s \in Sessions, Same(f, g, s), Forked(f, s)
        PROVE  /\ Rooted(f, n, f[s][1]) /\ Found(f, n, f[s][1])
               /\ f[s][1].parent \in Sessions
               /\ Same(f, g, f[s][1].parent)
    <2>1. Rooted(f, n, f[s][1]) /\ Found(f, n, f[s][1])
      BY <1>2 DEF Moved, Chains
    <2>2. QED
      BY <2>1, ParentSame
  <1>3. ASSUME NEW s \in Sessions, Forked(g, s) PROVE g[s][1].parent \in Sessions
    <2>1. CASE Same(f, g, s)
      BY <1>1, <1>2, <2>1, <1>3 DEF Same
    <2>2. CASE Rooted(f, n, g[s][1])
      BY <2>2 DEF Rooted
    <2>3. QED
      BY <1>3, <2>1, <2>2 DEF Moved
  <1>4. Named(g)
    BY <1>3 DEF Named
  <1>5. QED
    BY <1>1, <1>2, <1>4

\* So does the path of its forks.
LEMMA PathStays ==
    ASSUME NEW f, NEW n, NEW g, NEW m, Moved(f, n, g, m)
    PROVE  \A d \in Nat : \A s \in Sessions : Same(f, g, s) =>
             (ForkedTo(f, s, d) => ForkedTo(g, s, d)) /\ (ForkedTo(g, s, d) => ForkedTo(f, s, d))
  <1> DEFINE P(d) == \A s \in Sessions : Same(f, g, s) =>
                 /\ ForkedTo(f, s, d) => ForkedTo(g, s, d)
                 /\ ForkedTo(g, s, d) => ForkedTo(f, s, d)
             Q == {d \in Nat : P(d)}
  <1>0. Named(f) /\ Named(g)
    BY MovedNamed, ChainsNamed DEF Moved
  <1>1. ASSUME NEW d \in Nat, \A e \in 0..d - 1 : e \in Q PROVE d \in Q
    <2>1. SUFFICES ASSUME NEW s \in Sessions, Same(f, g, s)
                   PROVE  /\ ForkedTo(f, s, d) => ForkedTo(g, s, d)
                          /\ ForkedTo(g, s, d) => ForkedTo(f, s, d)
      OBVIOUS
    <2>2. CASE d = 0
      <3>1. /\ ForkedTo(f, s, 0) => Forked(f, s)
            /\ Forked(f, s) => ForkedTo(f, s, 0)
            /\ ForkedTo(g, s, 0) => Forked(g, s)
            /\ Forked(g, s) => ForkedTo(g, s, 0)
        BY ShorterIsToo
      <3>2. (Forked(f, s) => Forked(g, s)) /\ (Forked(g, s) => Forked(f, s))
        BY <2>1, MovedNamed
      <3>3. QED
        BY <2>2, <3>1, <3>2
    <2>3. CASE d # 0
      <3> DEFINE up == f[s][1].parent
      <3>1. d - 1 \in Nat /\ d = (d - 1) + 1 /\ d - 1 \in 0..d - 1 /\ g[s][1] = f[s][1]
        BY <2>1, <2>3 DEF Same
      <3>2. /\ ForkedTo(f, s, (d - 1) + 1) <=> Forked(f, s) /\ ForkedTo(f, up, d - 1)
            /\ ForkedTo(g, s, (d - 1) + 1) <=> Forked(g, s) /\ ForkedTo(g, up, d - 1)
        BY <1>0, <3>1, DeeperIsParents
      <3>3. (Forked(f, s) => Forked(g, s)) /\ (Forked(g, s) => Forked(f, s))
        BY <2>1, MovedNamed
      <3>4. Forked(f, s) => up \in Sessions /\ Same(f, g, up)
        BY <2>1, MovedNamed
      <3>5. d - 1 \in Q
        BY <1>1, <3>1
      <3>6. Forked(f, s) => /\ ForkedTo(f, up, d - 1) => ForkedTo(g, up, d - 1)
                            /\ ForkedTo(g, up, d - 1) => ForkedTo(f, up, d - 1)
        BY <3>4, <3>5
      <3>7. QED
        BY <3>1, <3>2, <3>3, <3>6
    <2>4. QED
      BY <2>2, <2>3
  <1> HIDE DEF Q
  <1>2. \A d \in Nat : d \in Q
    BY <1>1, CountsUp
  <1>3. QED
    BY <1>2 DEF Q

\* A chain is too deep after the step if it was, and was if it is.
LEMMA DepthStays ==
    ASSUME NEW f, NEW n, NEW g, NEW m, Moved(f, n, g, m), NEW s \in Sessions, Same(f, g, s)
    PROVE  (TooDeep(f, s) => TooDeep(g, s)) /\ (TooDeep(g, s) => TooDeep(f, s))
  <1>1. MaxForkDepth + 1 \in Nat
    BY SessionLogAssumption
  <1>2. QED
    BY <1>1, PathStays DEF TooDeep

\* Sequences that agree up to n agree so much further after the same beginning.
LEMMA JoinsAgree ==
    ASSUME NEW h \in Seq(Entry), NEW q \in Seq(Entry), NEW r \in Seq(Entry), NEW n \in Nat,
           n <= Len(q), n <= Len(r), \A i \in 1..n : r[i] = q[i]
    PROVE  /\ h \o q \in Seq(Entry) /\ h \o r \in Seq(Entry) /\ Len(h) + n \in Nat
           /\ Len(h) + n <= Len(h \o q) /\ Len(h) + n <= Len(h \o r)
           /\ \A i \in 1..Len(h) + n : (h \o q)[i] = (h \o r)[i]
  <1>1. ASSUME NEW i \in 1..Len(h) + n PROVE (h \o q)[i] = (h \o r)[i]
    <2>1. CASE i \in 1..Len(h)
      BY <2>1, JoinIs
    <2>2. CASE i \notin 1..Len(h)
      <3>1. i - Len(h) \in 1..n /\ Len(h) + (i - Len(h)) = i
        BY <2>2
      <3>2. i - Len(h) \in 1..Len(q) /\ i - Len(h) \in 1..Len(r)
        BY <3>1
      <3>3. (h \o q)[i] = q[i - Len(h)] /\ (h \o r)[i] = r[i - Len(h)]
        BY <3>1, <3>2, JoinIs
      <3>4. QED
        BY <3>1, <3>3
    <2>3. QED
      BY <2>1, <2>2
  <1>2. QED
    BY <1>1, JoinIs

\* A cut in what does not change is the same.
LEMMA CutStays ==
    ASSUME NEW h \in Seq(Entry), NEW q \in Seq(Entry), NEW r \in Seq(Entry), Rising(h \o q),
           Rising(r), NEW n \in Nat, n <= Len(q), n <= Len(r), \A i \in 1..n : r[i] = q[i],
           q # <<>>, r # <<>>, r[1] = q[1], NEW e \in Ids(h) \cup Ids(Prefix(q, n))
    PROVE  UpTo(h \o r, e) = UpTo(h \o q, e)
  <1> DEFINE k == Len(h) + n
  <1>1. Rising(h) /\ \A x \in Ids(h), y \in Ids(q) : x < y
    BY JoinRises
  <1>2. Rising(h \o r)
    <2>1. q[1].id \in Ids(q)
      BY DEF Ids
    <2>2. ASSUME NEW x \in Ids(h), NEW y \in Ids(r) PROVE x < y
      <3>1. x < q[1].id /\ x \in Nat /\ q[1].id \in Nat
        BY <1>1, <2>1, IdsAreNumbers
      <3>2. q[1].id <= y /\ y \in Nat
        BY FirstLeast
      <3>3. QED
        BY <3>1, <3>2
    <2>3. QED
      BY <1>1, <2>2, JoinRises
  <1>3. /\ h \o q \in Seq(Entry) /\ h \o r \in Seq(Entry) /\ k \in Nat
        /\ k <= Len(h \o q) /\ k <= Len(h \o r)
        /\ \A i \in 1..k : (h \o q)[i] = (h \o r)[i]
    BY JoinsAgree
  <1>4. \E i \in 1..k : (h \o q)[i].id = e
    <2>1. CASE e \in Ids(h)
      <3>1. PICK i \in 1..Len(h) : h[i].id = e
        BY <2>1 DEF Ids
      <3>2. i \in 1..k /\ (h \o q)[i] = h[i]
        BY JoinIs
      <3>3. QED
        BY <3>1, <3>2
    <2>2. CASE e \in Ids(Prefix(q, n))
      <3>1. /\ Prefix(q, n) \in Seq(Entry) /\ Len(Prefix(q, n)) = n
            /\ \A i \in 1..n : Prefix(q, n)[i] = q[i]
        <4>1. n \in 0..Len(q)
          OBVIOUS
        <4>2. QED
          BY <4>1, PrefixIs
      <3>2. PICK i \in DOMAIN Prefix(q, n) : Prefix(q, n)[i].id = e
        BY <2>2 DEF Ids
      <3>3. i \in 1..n /\ q[i].id = e
        BY <3>1, <3>2
      <3>4. Len(h) + i \in 1..k /\ (h \o q)[Len(h) + i] = q[i]
        BY <3>3, JoinIs
      <3>5. QED
        BY <3>3, <3>4
    <2>3. QED
      BY <2>1, <2>2
  <1>5. PICK i \in 1..k : (h \o q)[i].id = e
    BY <1>4
  <1> DEFINE a == h \o q
             b == h \o r
  <1> HIDE DEF a, b, k
  <1>6. UpTo(a, a[i].id) = UpTo(b, a[i].id)
    BY <1>2, <1>3, <1>5, SameCut DEF a, b
  <1>7. QED
    BY <1>5, <1>6 DEF a, b

\* What a fork inherits stays when what its parent inherits stays.
LEMMA ForkStays ==
    ASSUME NEW f, NEW n, NEW g, NEW m, Moved(f, n, g, m), NEW s \in Sessions, Same(f, g, s),
           Forked(f, s), ~TooDeep(f, s),
           InheritedEntries(g, f[s][1].parent) = InheritedEntries(f, f[s][1].parent)
    PROVE  InheritedEntries(g, s) = InheritedEntries(f, s)
  <1>0. PICK e, up : e = f[s][1] /\ up = e.parent
    OBVIOUS
  <1>1. /\ Forked(g, s) /\ ~TooDeep(g, s) /\ g[s][1] = e
        /\ Rooted(f, n, e) /\ Found(f, n, e) /\ up \in Sessions /\ Same(f, g, up)
        /\ Named(f) /\ Named(g) /\ Chains(f, n)
    BY <1>0, MovedNamed, DepthStays, ChainsNamed DEF Same, Moved
  <1>2. ~TooDeep(f, up) /\ ~TooDeep(g, up)
    BY <1>0, <1>1, HomeIs
  <1>3. Sound(f, s) /\ Sound(f, up)
    BY <1>1, AllSound
  <1>4. /\ f[up] \in Seq(Entry) /\ g[up] \in Seq(Entry) /\ Rising(f[up]) /\ Rising(g[up])
        /\ n[up] \in Nat /\ n[up] <= Len(f[up]) /\ n[up] <= Len(g[up])
        /\ \A i \in 1..n[up] : g[up][i] = f[up][i]
    <2>1. /\ f[up] \in Seq(Entry) /\ g[up] \in Seq(Entry) /\ Rising(f[up]) /\ Rising(g[up])
          /\ n[up] \in 0..Len(f[up])
      BY <1>1 DEF Moved, Chains, Logs
    <2>2. n[up] <= Len(g[up]) /\ \A i \in 1..n[up] : g[up][i] = f[up][i]
      BY <1>1 DEF Moved, Kept
    <2>3. n[up] \in Nat /\ n[up] <= Len(f[up])
      BY <2>1
    <2>4. QED
      BY <2>1, <2>2, <2>3
  <1>5. f[up] # <<>> /\ g[up] # <<>> /\ g[up][1] = f[up][1]
    BY <1>1 DEF Same
  <1>6. Readable(g, up)
    <2>1. g[up] \in Seq(Entry)
      BY <1>4
    <2>2. QED
      BY <2>1, BadIsNoEntry DEF Readable
  <1> DEFINE h == InheritedEntries(f, up)
  <1>7. InheritedEntries(g, up) = h
    BY <1>0
  <1>8. ~(Forked(g, up) /\ h = <<>>)
    <2>1. Forked(g, up) => Forked(f, up)
      BY <1>1, MovedNamed
    <2>2. Forked(f, up) => h # <<>>
      BY <1>2, <1>3 DEF Sound
    <2>3. QED
      BY <2>1, <2>2
  <1>9. InheritedEntries(g, s) = UpTo(h \o g[up], e.at)
    BY <1>0, <1>1, <1>5, <1>6, <1>7, <1>8, HomeIs
  <1>10. InheritedEntries(f, s) = UpTo(h \o f[up], e.at)
    BY <1>0, <1>3 DEF Sound
  <1>11. h \in Seq(Entry) /\ Rising(h \o f[up])
    BY <1>3 DEF Sound
  <1>12. e.at \in Ids(h) \cup Ids(Prefix(f[up], n[up]))
    BY <1>0, <1>1, <1>2 DEF Found
  <1> DEFINE q == f[up]
             r == g[up]
             l == n[up]
  <1>13. UpTo(h \o r, e.at) = UpTo(h \o q, e.at)
    <2>1. /\ h \in Seq(Entry) /\ q \in Seq(Entry) /\ r \in Seq(Entry) /\ Rising(h \o q)
          /\ Rising(r) /\ l \in Nat /\ l <= Len(q) /\ l <= Len(r)
          /\ q # <<>> /\ r # <<>> /\ r[1] = q[1] /\ e.at \in Ids(h) \cup Ids(Prefix(q, l))
      BY <1>4, <1>5, <1>11, <1>12
    <2>2. \A i \in 1..l : r[i] = q[i]
      BY <1>4
    <2> HIDE DEF h, q, r, l
    <2>3. QED
      BY ONLY <2>1, <2>2, CutStays
  <1>14. QED
    BY <1>9, <1>10, <1>13

\* What a session inherits stays.
LEMMA HomeStays ==
    ASSUME NEW f, NEW n, NEW g, NEW m, Moved(f, n, g, m)
    PROVE  \A s \in Sessions : Same(f, g, s) => InheritedEntries(g, s) = InheritedEntries(f, s)
  <1> DEFINE Q == {k \in Nat : \A s \in Sessions : Same(f, g, s) /\ f[s][1].id = k =>
                                 InheritedEntries(g, s) = InheritedEntries(f, s)}
  <1>0. Chains(f, n) /\ Named(f) /\ Named(g)
    BY MovedNamed, ChainsNamed DEF Moved
  <1>1. ASSUME NEW k \in Nat, \A j \in 0..k - 1 : j \in Q PROVE k \in Q
    <2>1. SUFFICES ASSUME NEW s \in Sessions, Same(f, g, s), f[s][1].id = k
                   PROVE  InheritedEntries(g, s) = InheritedEntries(f, s)
      OBVIOUS
    <2>2. CASE ~Forked(f, s) \/ TooDeep(f, s)
      <3>1. ~Forked(g, s) \/ TooDeep(g, s)
        BY <2>1, <2>2, MovedNamed, DepthStays
      <3>2. QED
        BY <1>0, <2>2, <3>1, HomeIs
    <2>3. CASE Forked(f, s) /\ ~TooDeep(f, s)
      <3> DEFINE up == f[s][1].parent
      <3>1. up \in Sessions /\ Same(f, g, up) /\ Rooted(f, n, f[s][1])
        BY <2>1, <2>3, MovedNamed
      <3>2. f[up][1].id \in Nat /\ f[up][1].id < k
        BY <1>0, <2>1, <3>1, FirstIs DEF Same, Rooted
      <3>3. f[up][1].id \in Q
        BY <1>1, <3>2
      <3>4. InheritedEntries(g, up) = InheritedEntries(f, up)
        BY <3>1, <3>3
      <3>5. QED
        BY <2>1, <2>3, <3>4, ForkStays
    <2>4. QED
      BY <2>2, <2>3
  <1> HIDE DEF Q
  <1>2. \A k \in Nat : k \in Q
    BY <1>1, CountsUp
  <1>3. ASSUME NEW s \in Sessions, Same(f, g, s)
        PROVE  InheritedEntries(g, s) = InheritedEntries(f, s)
    <2>1. f[s][1].id \in Nat
      BY <1>0, <1>3, FirstIs DEF Same
    <2>2. f[s][1].id \in Q
      BY <1>2, <2>1
    <2>3. QED
      BY <1>3, <2>2 DEF Q
  <1>4. QED
    BY <1>3

\* A rooted entry stays rooted, and what it forked at is still found.
LEMMA AnchorStays ==
    ASSUME NEW f, NEW n, NEW g, NEW m, Moved(f, n, g, m), NEW e, Rooted(f, n, e), Found(f, n, e)
    PROVE  Rooted(g, m, e) /\ Found(g, m, e)
  <1> DEFINE up == e.parent
  <1>1. up \in Sessions /\ Same(f, g, up)
    BY ParentSame
  <1>2. /\ n[up] \in 0..Len(f[up]) /\ m[up] \in 0..Len(g[up]) /\ n[up] <= m[up]
        /\ f[up] \in Seq(Entry) /\ g[up] \in Seq(Entry)
        /\ n[up] <= Len(g[up]) /\ \A i \in 1..n[up] : g[up][i] = f[up][i]
    BY <1>1 DEF Moved, Chains, Logs, Kept
  <1>3. Rooted(g, m, e)
    BY <1>1, <1>2 DEF Rooted, Same
  <1>4. Ids(Prefix(f[up], n[up])) \subseteq Ids(Prefix(g[up], m[up]))
    <2>1. /\ Prefix(f[up], n[up]) \in Seq(Entry) /\ Len(Prefix(f[up], n[up])) = n[up]
          /\ \A i \in 1..n[up] : Prefix(f[up], n[up])[i] = f[up][i]
          /\ Prefix(g[up], m[up]) \in Seq(Entry) /\ Len(Prefix(g[up], m[up])) = m[up]
          /\ \A i \in 1..m[up] : Prefix(g[up], m[up])[i] = g[up][i]
      BY <1>2, PrefixIs
    <2>2. ASSUME NEW x \in Ids(Prefix(f[up], n[up])) PROVE x \in Ids(Prefix(g[up], m[up]))
      <3>1. PICK i \in 1..n[up] : x = f[up][i].id
        BY <2>1 DEF Ids
      <3>2. i \in 1..m[up] /\ x = Prefix(g[up], m[up])[i].id
        BY <1>2, <2>1, <3>1
      <3>3. QED
        BY <2>1, <3>2 DEF Ids
    <2>3. QED
      BY <2>2
  <1>5. InheritedEntries(g, up) = InheritedEntries(f, up)
    BY <1>1, HomeStays
  <1>6. TooDeep(f, up) => TooDeep(g, up)
    BY <1>1, DepthStays
  <1>7. Found(g, m, e)
    BY <1>4, <1>5, <1>6 DEF Found
  <1>8. QED
    BY <1>3, <1>7

\* So the logs after the step are chains again.
LEMMA ChainsStay ==
    ASSUME NEW f, NEW n, NEW g, NEW m, Moved(f, n, g, m)
    PROVE  Chains(g, m)
  <1>1. ASSUME NEW s \in Sessions, Forked(g, s) PROVE Rooted(g, m, g[s][1]) /\ Found(g, m, g[s][1])
    <2>1. CASE Same(f, g, s)
      <3>1. Rooted(f, n, f[s][1]) /\ Found(f, n, f[s][1]) /\ g[s][1] = f[s][1]
        BY <1>1, <2>1, MovedNamed DEF Same
      <3>2. QED
        BY <3>1, AnchorStays
    <2>2. CASE Rooted(f, n, g[s][1]) /\ Found(f, n, g[s][1])
      BY <2>2, AnchorStays
    <2>3. QED
      BY <1>1, <2>1, <2>2 DEF Moved
  <1>2. QED
    BY <1>1 DEF Chains, Moved

-----------------------------------------------------------------------------
(* The inductive invariant of ForkResolves.                                *)

\* An entry that begins a fork's log, on disk or still in a buffer.
Anchored(e) == e.kind = "fork_point" => Rooted(file, synced, e) /\ Found(file, synced, e)

\* A session being created: its first entry is buffered, and a fork inherits what its parent
\* had up to the entry it is forked at.
Making(p, s) ==
    \E e \in Entry :
        /\ file[s] = <<>> /\ own[p][s] = <<e>> /\ buf[p][s] = <<e>>
        /\ Anchored(e)
        /\ e.kind # "fork_point" => inh[p][s] = <<>>
        /\ e.kind = "fork_point" /\ ~TooDeep(file, e.parent) =>
             \A x \in Ids(inh[p][s]) :
                x <= e.at /\ x \in Ids(InheritedEntries(file, e.parent)) \cup Ids(file[e.parent])

Hot == {"creating", "recovering", "open"}

\* What process p has of session s in memory, and what is written or buffered.
Ordered(p, s) ==
    /\ inh[p][s] \in Seq(Entry)
    /\ \A x \in Ids(buf[p][s]) \cup Ids(inh[p][s]) \cup Ids(own[p][s]) : x < nextId
    /\ pc[p][s] \in {"none", "read"} => buf[p][s] = <<>>
    /\ pc[p][s] \in Hot => Rising(file[s] \o buf[p][s])
    /\ pc[p][s] \in Hot \cup {"read"} => Rising(inh[p][s] \o own[p][s])

\* What it remembers is in the log or its buffer, and in the chain.
Remembers(p, s) ==
    /\ pc[p][s] \in Hot \cup {"read"} => Ids(own[p][s]) \subseteq Ids(file[s]) \cup Ids(buf[p][s])
    /\ pc[p][s] \in {"read", "recovering", "open"} =>
         /\ file[s] # <<>>
         /\ ~TooDeep(file, s) => Ids(inh[p][s]) \subseteq Ids(InheritedEntries(file, s))
    /\ pc[p][s] = "creating" => Making(p, s)

Numbered == \A s \in Sessions : \A x \in Ids(file[s]) : x < nextId

Slot(p, s) == Ordered(p, s) /\ Remembers(p, s)

ChainInv ==
    /\ inh \in [Procs -> [Sessions -> Seq(Entry)]]
    /\ Chains(file, synced) /\ Numbered
    /\ \A p \in Procs, s \in Sessions : Slot(p, s)

Before == TypeOK /\ SyncedInFile /\ LockedWhileOpen /\ NoTail /\ ChainInv

\* A step adds r to the log of s.
Adds(s, r) ==
    /\ r \in Seq(Entry) /\ Rising(file[s] \o r) /\ \A x \in Ids(r) : x < nextId'
    /\ file' = [file EXCEPT ![s] = @ \o r]

Longer == \A t \in Sessions :
    Len(file[t]) <= Len(file'[t]) /\ \A i \in 1..Len(file[t]) : file'[t][i] = file[t][i]

\* What every step that only adds lines does to the logs.
LEMMA AddsMoves ==
    ASSUME Before, TypeOK', DurableGrows, nextId <= nextId', NEW s \in Sessions, NEW r, Adds(s, r),
           file[s] = <<>> /\ r # <<>> => Anchored(r[1])
    PROVE  Moved(file, synced, file', synced') /\ Longer /\ Numbered'
  <1>1. /\ file \in [Sessions -> Seq(Line)] /\ Logs(file, synced) /\ Chains(file, synced)
        /\ Numbered /\ synced' \in [Sessions -> Nat] /\ nextId \in Nat /\ nextId' \in Nat
    BY DEF Before, TypeOK, ChainInv, Chains
  <1>2. \A t \in Sessions : file[t] \in Seq(Entry) /\ Rising(file[t])
    BY <1>1 DEF Logs
  <1>3. r \in Seq(Entry) /\ Rising(file[s] \o r) /\ \A x \in Ids(r) : x < nextId'
    BY DEF Adds
  <1>4. file'[s] = file[s] \o r /\ \A t \in Sessions : t # s => file'[t] = file[t]
    BY <1>1 DEF Adds
  <1>5. file'[s] \in Seq(Entry) /\ Rising(file'[s]) /\ Ids(file'[s]) = Ids(file[s]) \cup Ids(r)
    BY <1>2, <1>3, <1>4, JoinIs, JoinIds
  <1>6. ASSUME NEW t \in Sessions
        PROVE  /\ Len(file[t]) <= Len(file'[t])
               /\ \A i \in 1..Len(file[t]) : file'[t][i] = file[t][i]
    <2>1. CASE t = s
      BY <1>2, <1>3, <1>4, <2>1, JoinIs
    <2>2. CASE t # s
      BY <1>2, <1>4, <2>2
    <2>3. QED
      BY <2>1, <2>2
  <1>7. Longer
    BY <1>6 DEF Longer
  <1>8. Logs(file', synced')
    <2>1. \A t \in Sessions : file'[t] \in Seq(Entry) /\ Rising(file'[t])
      BY <1>2, <1>4, <1>5
    <2>2. ASSUME NEW t \in Sessions PROVE synced'[t] \in 0..Len(file'[t])
      <3>1. synced'[t] \in Nat /\ synced'[t] <= Len(file'[t]) /\ Len(file'[t]) \in Nat
        BY <1>1, <2>1 DEF DurableGrows
      <3>2. QED
        BY <3>1
    <2>3. QED
      BY <2>1, <2>2 DEF Logs
  <1>9. Kept(file, synced, file', synced')
    <2>1. \A t \in Sessions : synced[t] \in 0..Len(file[t]) /\ synced'[t] \in 0..Len(file'[t])
      BY <1>1, <1>8 DEF Logs
    <2>2. QED
      BY <2>1 DEF DurableGrows, Kept
  <1>10. ASSUME NEW t \in Sessions, Forked(file', t)
         PROVE  \/ Same(file, file', t)
                \/ Rooted(file, synced, file'[t][1]) /\ Found(file, synced, file'[t][1])
    <2>1. CASE file[t] # <<>>
      BY <1>2, <1>6, <2>1, <1>10 DEF Same, Forked
    <2>2. CASE file[t] = <<>>
      <3>1. t = s /\ file'[s] = r
        BY <1>3, <1>4, <1>10, <2>2, EmptyIs DEF Forked
      <3>2. Anchored(r[1]) /\ r[1].kind = "fork_point"
        BY <1>10, <2>2, <3>1 DEF Forked
      <3>3. QED
        BY <3>1, <3>2 DEF Anchored
    <2>3. QED
      BY <2>1, <2>2
  <1>11. Numbered'
    <2>1. ASSUME NEW t \in Sessions, NEW x \in Ids(file'[t]) PROVE x < nextId'
      <3>1. CASE t = s /\ x \in Ids(r)
        BY <1>3, <3>1
      <3>2. CASE x \in Ids(file[t])
        <4>1. x < nextId /\ x \in Nat
          BY <1>1, <1>2, <3>2, FirstLeast DEF Numbered
        <4>2. QED
          BY <1>1, <4>1
      <3>3. QED
        BY <1>4, <1>5, <2>1, <3>1, <3>2
    <2>2. QED
      BY <2>1 DEF Numbered
  <1>12. Moved(file, synced, file', synced')
    <2>1. \A t \in Sessions : Forked(file', t) =>
            \/ Same(file, file', t)
            \/ Rooted(file, synced, file'[t][1]) /\ Found(file, synced, file'[t][1])
      BY <1>10
    <2>2. QED
      BY <1>1, <1>8, <1>9, <2>1 DEF Moved
  <1>13. QED
    BY <1>7, <1>11, <1>12

\* The ids of a log that grows.
LEMMA LongerIds ==
    ASSUME Longer, NEW s \in Sessions, file[s] \in Seq(Entry), file'[s] \in Seq(Entry)
    PROVE  Ids(file[s]) \subseteq Ids(file'[s]) /\ (file[s] # <<>> => Same(file, file', s))
  <1>1. /\ Len(file[s]) <= Len(file'[s]) /\ \A i \in 1..Len(file[s]) : file'[s][i] = file[s][i]
        /\ DOMAIN file[s] = 1..Len(file[s]) /\ DOMAIN file'[s] = 1..Len(file'[s])
        /\ Len(file[s]) \in Nat /\ Len(file'[s]) \in Nat
    BY DEF Longer
  <1>2. QED
    BY <1>1 DEF Ids, Same

\* A process a step does not touch remembers what it did.
LEMMA SlotStays ==
    ASSUME Before, TypeOK', Moved(file, synced, file', synced'), Longer, nextId <= nextId',
           NEW p \in Procs, NEW s \in Sessions, Slot(p, s),
           pc'[p][s] = pc[p][s], own'[p][s] = own[p][s], inh'[p][s] = inh[p][s],
           buf'[p][s] = buf[p][s], pc[p][s] \in Hot => file'[s] = file[s]
    PROVE  Slot(p, s)'
  <1>1. /\ Logs(file, synced) /\ Logs(file', synced') /\ nextId \in Nat /\ nextId' \in Nat
        /\ own[p][s] \in Seq(Entry) /\ buf[p][s] \in Seq(Entry) /\ inh[p][s] \in Seq(Entry)
    BY DEF Before, TypeOK, ChainInv, Chains, Moved
  <1>2. \A t \in Sessions : file[t] \in Seq(Entry) /\ file'[t] \in Seq(Entry)
    BY <1>1 DEF Logs
  <1>3. Ordered(p, s)'
    <2>1. \A x \in Ids(buf[p][s]) \cup Ids(inh[p][s]) \cup Ids(own[p][s]) : x \in Nat
      BY <1>1, EntryId DEF Ids
    <2>2. Ordered(p, s)
      BY DEF Slot
    <2>3. \A x \in Ids(buf[p][s]) \cup Ids(inh[p][s]) \cup Ids(own[p][s]) : x < nextId'
      BY <1>1, <2>1, <2>2 DEF Ordered
    <2>4. QED
      BY <2>2, <2>3 DEF Ordered
  <1>4. Remembers(p, s)
    BY DEF Slot
  <1>5. pc[p][s] \in Hot \cup {"read"} => Ids(own[p][s]) \subseteq Ids(file'[s]) \cup Ids(buf[p][s])
    BY <1>2, <1>4, LongerIds DEF Remembers
  <1>6. ASSUME pc[p][s] \in {"read", "recovering", "open"}
        PROVE  /\ file'[s] # <<>>
               /\ ~TooDeep(file', s) => Ids(inh[p][s]) \subseteq Ids(InheritedEntries(file', s))
    <2>1. Same(file, file', s)
      BY <1>2, <1>4, <1>6, LongerIds DEF Remembers
    <2>2. InheritedEntries(file', s) = InheritedEntries(file, s)
      BY <2>1, HomeStays
    <2>3. TooDeep(file, s) => TooDeep(file', s)
      BY <2>1, DepthStays
    <2>4. QED
      BY <1>4, <1>6, <2>1, <2>2, <2>3 DEF Remembers, Same
  <1>7. ASSUME pc[p][s] = "creating" PROVE Making(p, s)'
    <2>1. PICK e \in Entry :
             /\ file[s] = <<>> /\ own[p][s] = <<e>> /\ buf[p][s] = <<e>>
             /\ Anchored(e)
             /\ e.kind # "fork_point" => inh[p][s] = <<>>
             /\ e.kind = "fork_point" /\ ~TooDeep(file, e.parent) =>
                  \A x \in Ids(inh[p][s]) :
                     /\ x <= e.at
                     /\ x \in Ids(InheritedEntries(file, e.parent)) \cup Ids(file[e.parent])
      BY <1>4, <1>7 DEF Remembers, Making
    <2>2. file'[s] = <<>>
      BY <1>7, <2>1 DEF Hot
    <2>3. CASE e.kind # "fork_point"
      BY <2>1, <2>2, <2>3 DEF Making, Anchored
    <2>4. CASE e.kind = "fork_point"
      <3>1. Rooted(file, synced, e) /\ Found(file, synced, e)
        BY <2>1, <2>4 DEF Anchored
      <3>2. Rooted(file', synced', e) /\ Found(file', synced', e)
        BY <3>1, AnchorStays
      <3>3. Same(file, file', e.parent) /\ e.parent \in Sessions
        BY <3>1, ParentSame
      <3>4. InheritedEntries(file', e.parent) = InheritedEntries(file, e.parent)
        BY <3>3, HomeStays
      <3>5. TooDeep(file, e.parent) => TooDeep(file', e.parent)
        BY <3>3, DepthStays
      <3>6. Ids(file[e.parent]) \subseteq Ids(file'[e.parent])
        BY <1>2, <3>3, LongerIds
      <3>7. Anchored(e)'
        BY <3>2 DEF Anchored
      <3>8. ASSUME ~TooDeep(file', e.parent)
            PROVE  \A x \in Ids(inh[p][s]) :
                     /\ x <= e.at
                     /\ x \in Ids(InheritedEntries(file', e.parent)) \cup Ids(file'[e.parent])
        BY <2>1, <2>4, <3>4, <3>5, <3>6, <3>8
      <3>9. QED
        BY <2>1, <2>2, <2>4, <3>7, <3>8 DEF Making
    <2>5. QED
      BY <2>3, <2>4
  <1>8. Remembers(p, s)'
    BY <1>5, <1>6, <1>7 DEF Remembers
  <1>9. QED
    BY <1>3, <1>8 DEF Slot

-----------------------------------------------------------------------------
(* A process that writes.                                                  *)

\* Sequences joined in either order are the same.
LEMMA JoinAssoc == \A q, r, w \in Seq(Entry) : (q \o r) \o w = q \o (r \o w)
  <1>1. ASSUME NEW q \in Seq(Entry), NEW r \in Seq(Entry), NEW w \in Seq(Entry)
        PROVE  (q \o r) \o w = q \o (r \o w)
    OBVIOUS
  <1>2. QED
    BY <1>1

\* What is made in this step comes after all there was.
LEMMA FreshAfter ==
    ASSUME NEW q \in Seq(Entry), Rising(q), NEW r \in Seq(Entry), Rising(r), NEW n \in Nat,
           \A x \in Ids(q) : x < n, \A x \in Ids(r) : n <= x
    PROVE  Rising(q \o r)
  <1>1. ASSUME NEW x \in Ids(q), NEW y \in Ids(r) PROVE x < y
    BY IdsAreNumbers
  <1>2. QED
    BY <1>1, JoinRises

\* Entries made in this step.
Fresh(r) == r \in Seq(Entry) /\ Rising(r) /\ \A x \in Ids(r) : nextId <= x /\ x < nextId'

\* Nothing is made in this step.
LEMMA NothingIsFresh == Fresh(<<>>)
  BY DEF Fresh, Rising, Ids

\* The step leaves every other process's sessions, and this one's others, alone.
OthersKeep(p, s) ==
    /\ inh' \in [Procs -> [Sessions -> Seq(Entry)]]
    /\ \A q \in Procs, t \in Sessions : q # p \/ t # s =>
         /\ pc'[q][t] = pc[q][t] /\ own'[q][t] = own[q][t]
         /\ inh'[q][t] = inh[q][t] /\ buf'[q][t] = buf[q][t]

\* With one slot changed, that slot is all there is to show.
LEMMA OneSlot ==
    ASSUME Before, TypeOK', DurableGrows, nextId <= nextId', NEW p \in Procs, NEW s \in Sessions,
           NEW w, Adds(s, w), file[s] = <<>> /\ w # <<>> => Anchored(w[1]),
           pc[p][s] \in Writer \/ w = <<>>, OthersKeep(p, s), Slot(p, s)'
    PROVE  ChainInv'
  <1>1. Moved(file, synced, file', synced') /\ Longer /\ Numbered'
    BY AddsMoves
  <1>2. /\ file \in [Sessions -> Seq(Line)] /\ Logs(file, synced)
    BY DEF Before, TypeOK, ChainInv, Chains
  <1>3. /\ \A t \in Sessions : t # s => file'[t] = file[t]
        /\ w = <<>> => file'[s] = file[s]
    BY <1>2 DEF Adds, Logs
  <1>4. ASSUME NEW q \in Procs, NEW t \in Sessions PROVE Slot(q, t)'
    <2>1. CASE q = p /\ t = s
      BY <2>1
    <2>2. CASE q # p \/ t # s
      <3>1. /\ pc'[q][t] = pc[q][t] /\ own'[q][t] = own[q][t]
            /\ inh'[q][t] = inh[q][t] /\ buf'[q][t] = buf[q][t]
        BY <2>2 DEF OthersKeep
      <3>2. Slot(q, t)
        BY DEF Before, ChainInv
      <3>3. ASSUME pc[q][t] \in Hot PROVE file'[t] = file[t]
        <4>1. CASE t # s \/ w = <<>>
          BY <1>3, <4>1
        <4>2. CASE t = s /\ pc[p][s] \in Writer
          <5>1. lock[s] = p /\ lock[t] = q
            BY <3>3, <4>2 DEF Before, LockedWhileOpen, Hot, Writer
          <5>2. QED
            BY <2>2, <4>2, <5>1
        <4>3. QED
          BY <4>1, <4>2
      <3>4. QED
        BY <1>1, <3>1, <3>2, <3>3, SlotStays
    <2>3. QED
      BY <2>1, <2>2
  <1>5. Chains(file', synced')
    BY <1>1, ChainsStay
  <1>6. QED
    BY <1>1, <1>4, <1>5 DEF ChainInv, OthersKeep

\* The slot of a process that goes on writing.
LEMMA HotSlot ==
    ASSUME Before, TypeOK', Moved(file, synced, file', synced'), Longer, nextId <= nextId',
           NEW p \in Procs, NEW s \in Sessions, NEW w \in Seq(Entry), NEW r, Fresh(r),
           pc[p][s] \in {"recovering", "open"}, pc'[p][s] \in {"recovering", "open"},
           file'[s] = file[s] \o w, w \o buf'[p][s] = buf[p][s] \o r,
           own'[p][s] = own[p][s] \/ own'[p][s] = own[p][s] \o r, inh'[p][s] = inh[p][s]
    PROVE  Slot(p, s)'
  <1>1. /\ file[s] \in Seq(Entry) /\ buf[p][s] \in Seq(Entry) /\ buf'[p][s] \in Seq(Entry)
        /\ own[p][s] \in Seq(Entry) /\ inh[p][s] \in Seq(Entry) /\ r \in Seq(Entry)
        /\ nextId \in Nat /\ nextId' \in Nat /\ file'[s] \in Seq(Entry)
    BY DEF Before, TypeOK, ChainInv, Chains, Logs, Fresh, Moved
  <1>2. /\ \A x \in Ids(buf[p][s]) \cup Ids(inh[p][s]) \cup Ids(own[p][s]) : x < nextId /\ x \in Nat
        /\ \A x \in Ids(file[s]) : x < nextId /\ x \in Nat
        /\ \A x \in Ids(r) : nextId <= x /\ x < nextId' /\ x \in Nat
        /\ Rising(r) /\ Rising(file[s] \o buf[p][s]) /\ Rising(inh[p][s] \o own[p][s])
    <2>1. \A x \in Ids(buf[p][s]) \cup Ids(inh[p][s]) \cup Ids(own[p][s]) \cup Ids(file[s])
                   \cup Ids(r) :
             x \in Nat
      BY <1>1, IdsAreNumbers
    <2>2. Ordered(p, s) /\ Numbered
      BY DEF Before, ChainInv, Slot
    <2>3. QED
      BY <2>1, <2>2 DEF Ordered, Numbered, Fresh, Hot
  <1> DEFINE fb == file[s] \o buf[p][s]
             io == inh[p][s] \o own[p][s]
  <1>3. fb \in Seq(Entry) /\ Ids(fb) = Ids(file[s]) \cup Ids(buf[p][s])
        /\ io \in Seq(Entry) /\ Ids(io) = Ids(inh[p][s]) \cup Ids(own[p][s])
    BY <1>1, JoinIs, JoinIds
  <1>4. file'[s] \o buf'[p][s] = fb \o r
    <2>1. file[s] \in Seq(Entry) /\ w \in Seq(Entry) /\ buf'[p][s] \in Seq(Entry)
      BY <1>1
    <2>2. file[s] \in Seq(Entry) /\ buf[p][s] \in Seq(Entry) /\ r \in Seq(Entry)
      BY <1>1
    <2>3. (file[s] \o w) \o buf'[p][s] = file[s] \o (w \o buf'[p][s])
      BY ONLY <2>1, JoinAssoc, ZenonT(60)
    <2>4. (file[s] \o buf[p][s]) \o r = file[s] \o (buf[p][s] \o r)
      BY ONLY <2>2, JoinAssoc, ZenonT(60)
    <2>5. QED
      BY <2>3, <2>4
  <1>5. Rising(fb \o r)
    <2>1. Rising(fb) /\ \A x \in Ids(fb) : x < nextId
      BY <1>2, <1>3
    <2> HIDE DEF fb
    <2>2. QED
      BY <1>1, <1>2, <1>3, <2>1, FreshAfter
  <1>6. Rising(io \o r)
    <2>1. Rising(io) /\ \A x \in Ids(io) : x < nextId
      BY <1>2, <1>3
    <2> HIDE DEF io
    <2>2. QED
      BY <1>1, <1>2, <1>3, <2>1, FreshAfter
  <1>7. /\ own'[p][s] \in Seq(Entry)
        /\ Ids(own'[p][s]) \subseteq Ids(own[p][s]) \cup Ids(r)
        /\ Rising(inh'[p][s] \o own'[p][s])
    <2>1. CASE own'[p][s] = own[p][s]
      BY <1>1, <1>2, <2>1
    <2>2. CASE own'[p][s] = own[p][s] \o r
      <3>0. inh[p][s] \in Seq(Entry) /\ own[p][s] \in Seq(Entry) /\ r \in Seq(Entry)
        BY <1>1
      <3>1. (inh[p][s] \o own[p][s]) \o r = inh[p][s] \o (own[p][s] \o r)
        BY ONLY <3>0, JoinAssoc, ZenonT(60)
      <3>2. own[p][s] \o r \in Seq(Entry) /\ Ids(own[p][s] \o r) = Ids(own[p][s]) \cup Ids(r)
        BY <1>1, JoinIs, JoinIds
      <3>3. QED
        BY <1>6, <2>2, <3>1, <3>2
    <2>3. QED
      BY <2>1, <2>2
  <1>8. Ids(file'[s]) \cup Ids(buf'[p][s]) = (Ids(file[s]) \cup Ids(buf[p][s])) \cup Ids(r)
    <2>1. Ids(file'[s] \o buf'[p][s]) = Ids(file'[s]) \cup Ids(buf'[p][s])
      BY <1>1, JoinIds
    <2>2. Ids(fb \o r) = Ids(fb) \cup Ids(r)
      BY <1>1, <1>3, JoinIds
    <2>3. QED
      BY <1>3, <1>4, <2>1, <2>2
  <1> HIDE DEF fb, io
  <1>9. Ordered(p, s)'
    <2>1. ASSUME NEW x \in Ids(buf'[p][s]) \cup Ids(inh'[p][s]) \cup Ids(own'[p][s])
          PROVE  x < nextId'
      <3>1. x \in Ids(file[s]) \cup Ids(buf[p][s]) \cup Ids(inh[p][s]) \cup Ids(own[p][s])
              \/ x \in Ids(r)
        BY <1>7, <1>8, <2>1
      <3>2. QED
        BY <1>1, <1>2, <3>1
    <2>2. pc'[p][s] \notin {"none", "read"}
      OBVIOUS
    <2>3. Rising(file'[s] \o buf'[p][s])
      BY <1>4, <1>5
    <2>4. QED
      BY <1>1, <1>7, <2>1, <2>2, <2>3 DEF Ordered
  <1>10. Remembers(p, s)
    BY DEF Before, ChainInv, Slot
  <1>11. Ids(own'[p][s]) \subseteq Ids(file'[s]) \cup Ids(buf'[p][s])
    BY <1>7, <1>8, <1>10 DEF Remembers, Hot
  <1>12. Same(file, file', s)
    BY <1>1, <1>10, LongerIds DEF Remembers
  <1>13. ~TooDeep(file', s) => Ids(inh'[p][s]) \subseteq Ids(InheritedEntries(file', s))
    <2>1. /\ InheritedEntries(file', s) = InheritedEntries(file, s)
          /\ TooDeep(file, s) => TooDeep(file', s)
      BY <1>12, HomeStays, DepthStays
    <2>2. QED
      BY <1>10, <2>1 DEF Remembers
  <1>14. Remembers(p, s)'
    BY <1>11, <1>12, <1>13 DEF Remembers, Same
  <1>15. QED
    BY <1>9, <1>14 DEF Slot

\* A step in which a process that writes goes on writing.
LEMMA HotStep ==
    ASSUME Before, TypeOK', DurableGrows, nextId <= nextId', NEW p \in Procs, NEW s \in Sessions,
           NEW w \in Seq(Entry), NEW r, Fresh(r), OthersKeep(p, s),
           pc[p][s] \in {"recovering", "open"}, pc'[p][s] \in {"recovering", "open"},
           file' = [file EXCEPT ![s] = @ \o w], w \o buf'[p][s] = buf[p][s] \o r,
           own'[p][s] = own[p][s] \/ own'[p][s] = own[p][s] \o r, inh'[p][s] = inh[p][s]
    PROVE  ChainInv'
  <1>1. /\ file[s] \in Seq(Entry) /\ buf[p][s] \in Seq(Entry) /\ buf'[p][s] \in Seq(Entry)
        /\ r \in Seq(Entry) /\ nextId \in Nat /\ nextId' \in Nat
        /\ file \in [Sessions -> Seq(Line)]
    BY DEF Before, TypeOK, ChainInv, Chains, Logs, Fresh
  <1>2. /\ Ordered(p, s) /\ Numbered /\ file[s] # <<>>
    BY DEF Before, ChainInv, Slot, Remembers
  <1>3. Adds(s, w)
    <2> DEFINE fb == file[s] \o buf[p][s]
    <2>1. fb \in Seq(Entry) /\ Ids(fb) = Ids(file[s]) \cup Ids(buf[p][s]) /\ Rising(fb)
      BY <1>1, <1>2, JoinIs, JoinIds DEF Ordered, Hot
    <2>2. \A x \in Ids(fb) : x < nextId /\ x \in Nat
      <3>1. \A x \in Ids(file[s]) \cup Ids(buf[p][s]) : x \in Nat
        BY <1>1, IdsAreNumbers
      <3>2. QED
        BY <1>2, <2>1, <3>1 DEF Ordered, Numbered
    <2>3. \A x \in Ids(r) : nextId <= x /\ x < nextId' /\ x \in Nat
      BY <1>1, IdsAreNumbers DEF Fresh
    <2>4. Rising(fb \o r) /\ Ids(fb \o r) = Ids(fb) \cup Ids(r)
      <3> HIDE DEF fb
      <3>1. Rising(fb \o r)
        BY <1>1, <2>1, <2>2, <2>3, FreshAfter DEF Fresh
      <3>2. QED
        BY <1>1, <2>1, <3>1, JoinIds
    <2>5. fb \o r = (file[s] \o w) \o buf'[p][s]
      <3>1. file[s] \in Seq(Entry) /\ w \in Seq(Entry) /\ buf'[p][s] \in Seq(Entry)
        BY <1>1
      <3>2. file[s] \in Seq(Entry) /\ buf[p][s] \in Seq(Entry) /\ r \in Seq(Entry)
        BY <1>1
      <3>3. (file[s] \o w) \o buf'[p][s] = file[s] \o (w \o buf'[p][s])
        BY ONLY <3>1, JoinAssoc, ZenonT(60)
      <3>4. (file[s] \o buf[p][s]) \o r = file[s] \o (buf[p][s] \o r)
        BY ONLY <3>2, JoinAssoc, ZenonT(60)
      <3>5. QED
        BY <3>3, <3>4
    <2> HIDE DEF fb
    <2>6. file[s] \o w \in Seq(Entry) /\ Ids(file[s] \o w) = Ids(file[s]) \cup Ids(w)
      BY <1>1, JoinIs, JoinIds
    <2>7. Rising(file[s] \o w)
      <3>1. Rising((file[s] \o w) \o buf'[p][s])
        BY <2>4, <2>5
      <3>2. QED
        BY <1>1, <2>6, <3>1, JoinRises, Zenon
    <2>8. \A x \in Ids(w) : x \in Ids(fb) \cup Ids(r)
      <3>1. Ids((file[s] \o w) \o buf'[p][s]) = Ids(file[s] \o w) \cup Ids(buf'[p][s])
        BY <1>1, <2>6, JoinIds, Zenon
      <3>2. QED
        BY <2>4, <2>5, <2>6, <3>1
    <2>9. \A x \in Ids(w) : x < nextId'
      BY <1>1, <2>2, <2>3, <2>8
    <2>10. QED
      BY <1>1, <2>7, <2>9 DEF Adds
  <1>4. Moved(file, synced, file', synced') /\ Longer
    BY <1>2, <1>3, AddsMoves
  <1>5. file'[s] = file[s] \o w
    BY <1>1
  <1>6. Slot(p, s)'
    BY <1>4, <1>5, HotSlot
  <1>7. pc[p][s] \in Writer
    BY DEF Writer
  <1>8. QED
    BY <1>2, <1>3, <1>6, <1>7, OneSlot

-----------------------------------------------------------------------------
(* What a process may flush.                                               *)

\* A step that updates no other slot.
Touches(p, s) ==
    /\ pc' = pc \/ \E v : pc' = Put(pc, p, s, v)
    /\ own' = own \/ \E v : own' = Put(own, p, s, v)
    /\ inh' = inh \/ \E v \in Seq(Entry) : inh' = Put(inh, p, s, v)
    /\ buf' = buf \/ \E v : buf' = Put(buf, p, s, v)

\* It leaves every other slot alone.
LEMMA TouchesOne ==
    ASSUME Before, NEW p \in Procs, NEW s \in Sessions, Touches(p, s)
    PROVE  OthersKeep(p, s)
  <1>1. /\ pc \in [Procs -> [Sessions -> States]] /\ own \in [Procs -> [Sessions -> Seq(Entry)]]
        /\ inh \in [Procs -> [Sessions -> Seq(Entry)]]
        /\ buf \in [Procs -> [Sessions -> Seq(Entry)]]
    BY DEF Before, TypeOK, ChainInv
  <1>2. inh' \in [Procs -> [Sessions -> Seq(Entry)]]
    <2>1. CASE inh' = inh
      BY <1>1, <2>1
    <2>2. CASE \E v \in Seq(Entry) : inh' = Put(inh, p, s, v)
      <3>1. PICK v \in Seq(Entry) : inh' = Put(inh, p, s, v)
        BY <2>2
      <3>2. QED
        BY <1>1, <3>1, PutType
    <2>3. QED
      BY <2>1, <2>2 DEF Touches
  <1>3. ASSUME NEW q \in Procs, NEW t \in Sessions, q # p \/ t # s
        PROVE  /\ pc'[q][t] = pc[q][t] /\ own'[q][t] = own[q][t]
               /\ inh'[q][t] = inh[q][t] /\ buf'[q][t] = buf[q][t]
    <2>1. pc'[q][t] = pc[q][t]
      <3>1. pc' = pc \/ \E v : pc' = Put(pc, p, s, v)
        BY DEF Touches
      <3>2. QED
        BY <1>1, <1>3, <3>1 DEF Put
    <2>2. own'[q][t] = own[q][t]
      <3>1. own' = own \/ \E v : own' = Put(own, p, s, v)
        BY DEF Touches
      <3>2. QED
        BY <1>1, <1>3, <3>1 DEF Put
    <2>3. inh'[q][t] = inh[q][t]
      <3>1. inh' = inh \/ \E v : inh' = Put(inh, p, s, v)
        BY DEF Touches
      <3>2. QED
        BY <1>1, <1>3, <3>1 DEF Put
    <2>4. buf'[q][t] = buf[q][t]
      <3>1. buf' = buf \/ \E v : buf' = Put(buf, p, s, v)
        BY DEF Touches
      <3>2. QED
        BY <1>1, <1>3, <3>1 DEF Put
    <2>5. QED
      BY <2>1, <2>2, <2>3, <2>4
  <1>4. QED
    BY <1>2, <1>3 DEF OthersKeep

\* Without torn writes what is flushed follows what is there.
LEMMA FlushedIs ==
    ASSUME Before, NEW s \in Sessions, NEW q
    PROVE  Flushed(s, q) = file[s] \o q
  BY DEF Before, NoTail, Flushed

\* Nothing after a sequence.
LEMMA EndsAtOnce == ASSUME NEW q \in Seq(Entry) PROVE q \o <<>> = q
  OBVIOUS

\* A step that writes nothing adds nothing.
LEMMA AddsNothing ==
    ASSUME Before, TypeOK', nextId <= nextId', NEW s \in Sessions, file' = file
    PROVE  Adds(s, <<>>) /\ file' = [file EXCEPT ![s] = @ \o <<>>]
  <1>1. /\ file \in [Sessions -> Seq(Line)] /\ file[s] \in Seq(Entry) /\ Rising(file[s])
    BY DEF Before, TypeOK, ChainInv, Chains, Logs
  <1>2. file[s] \o <<>> = file[s] /\ <<>> \in Seq(Entry) /\ Ids(<<>>) = {}
    BY <1>1, EndsAtOnce DEF Ids
  <1>3. file' = [file EXCEPT ![s] = @ \o <<>>]
    BY <1>1, <1>2
  <1>4. QED
    BY <1>1, <1>2, <1>3 DEF Adds

\* What a process may flush to the log of s.
Writes(s, q) ==
    /\ q \in Seq(Entry) /\ Rising(file[s] \o q) /\ \A x \in Ids(q) : x < nextId'
    /\ file[s] = <<>> /\ q # <<>> => Anchored(q[1])

\* Its buffer.
LEMMA WritesBuffer ==
    ASSUME Before, TypeOK', nextId <= nextId', NEW p \in Procs, NEW s \in Sessions, pc[p][s] \in Hot
    PROVE  Writes(s, buf[p][s])
  <1>1. /\ buf[p][s] \in Seq(Entry) /\ nextId \in Nat /\ nextId' \in Nat
        /\ Ordered(p, s) /\ Remembers(p, s)
    BY DEF Before, TypeOK, ChainInv, Slot
  <1>2. \A x \in Ids(buf[p][s]) : x < nextId'
    <2>1. \A x \in Ids(buf[p][s]) : x < nextId /\ x \in Nat
      BY <1>1, IdsAreNumbers DEF Ordered
    <2>2. QED
      BY <1>1, <2>1
  <1>3. file[s] = <<>> => Anchored(buf[p][s][1])
    <2>1. CASE pc[p][s] = "creating"
      <3>1. PICK e \in Entry : buf[p][s] = <<e>> /\ Anchored(e)
        BY <1>1, <2>1 DEF Remembers, Making
      <3>2. QED
        BY <3>1
    <2>2. CASE pc[p][s] \in {"recovering", "open"}
      BY <1>1, <2>2 DEF Remembers
    <2>3. QED
      BY <2>1, <2>2 DEF Hot
  <1>4. QED
    BY <1>1, <1>2, <1>3 DEF Writes, Ordered

\* Its buffer and what it makes in this step, of a log that is there.
LEMMA WritesFresh ==
    ASSUME Before, TypeOK', nextId <= nextId', NEW p \in Procs, NEW s \in Sessions,
           pc[p][s] \in {"recovering", "open"}, NEW r, Fresh(r)
    PROVE  Writes(s, buf[p][s] \o r)
  <1>1. /\ buf[p][s] \in Seq(Entry) /\ nextId \in Nat /\ nextId' \in Nat /\ r \in Seq(Entry)
        /\ file[s] \in Seq(Entry) /\ Rising(r) /\ file[s] # <<>> /\ Numbered
    BY DEF Before, TypeOK, ChainInv, Slot, Remembers, Chains, Logs, Fresh
  <1>2. Writes(s, buf[p][s])
    BY WritesBuffer DEF Hot
  <1>3. /\ \A x \in Ids(buf[p][s]) \cup Ids(file[s]) : x < nextId /\ x \in Nat
        /\ \A x \in Ids(r) : nextId <= x /\ x < nextId'
    <2>1. Ordered(p, s)
      BY DEF Before, ChainInv, Slot
    <2>2. QED
      BY <1>1, <2>1, IdsAreNumbers DEF Ordered, Numbered, Fresh
  <1> DEFINE fb == file[s] \o buf[p][s]
  <1>4. fb \in Seq(Entry) /\ Ids(fb) = Ids(file[s]) \cup Ids(buf[p][s]) /\ Rising(fb)
    BY <1>1, <1>2, JoinIs, JoinIds DEF Writes
  <1>5. fb \o r = file[s] \o (buf[p][s] \o r)
    <2>1. file[s] \in Seq(Entry) /\ buf[p][s] \in Seq(Entry) /\ r \in Seq(Entry)
      BY <1>1
    <2>2. (file[s] \o buf[p][s]) \o r = file[s] \o (buf[p][s] \o r)
      BY ONLY <2>1, JoinAssoc, ZenonT(60)
    <2>3. QED
      BY <2>2
  <1> HIDE DEF fb
  <1>6. Rising(fb \o r)
    BY <1>1, <1>3, <1>4, FreshAfter
  <1>7. buf[p][s] \o r \in Seq(Entry) /\ Ids(buf[p][s] \o r) = Ids(buf[p][s]) \cup Ids(r)
    BY <1>1, JoinIs, JoinIds
  <1>8. \A x \in Ids(buf[p][s] \o r) : x < nextId'
    BY <1>1, <1>3, <1>7
  <1>9. QED
    BY <1>1, <1>5, <1>6, <1>7, <1>8 DEF Writes

\* A part of it.
LEMMA WritesPart ==
    ASSUME Before, NEW s \in Sessions, NEW q, Writes(s, q), NEW n \in 0..Len(q)
    PROVE  Writes(s, Prefix(q, n))
  <1>1. q \in Seq(Entry) /\ file[s] \in Seq(Entry) /\ Rising(file[s] \o q)
    BY DEF Writes, Before, ChainInv, Chains, Logs
  <1>2. /\ Prefix(q, n) \in Seq(Entry) /\ Len(Prefix(q, n)) = n
        /\ \A i \in 1..n : Prefix(q, n)[i] = q[i]
        /\ Ids(Prefix(q, n)) \subseteq Ids(q)
        /\ Rising(q) => Rising(Prefix(q, n))
    BY <1>1, PrefixIs
  <1>3. Rising(file[s] \o Prefix(q, n))
    <2>1. Rising(file[s]) /\ Rising(q) /\ \A x \in Ids(file[s]), y \in Ids(q) : x < y
      BY <1>1, JoinRises
    <2>2. QED
      BY <1>1, <1>2, <2>1, JoinRises
  <1>4. \A x \in Ids(Prefix(q, n)) : x < nextId'
    BY <1>2 DEF Writes
  <1>5. Prefix(q, n) # <<>> => q # <<>> /\ Prefix(q, n)[1] = q[1]
    BY <1>1, <1>2
  <1>6. QED
    BY <1>2, <1>3, <1>4, <1>5 DEF Writes

-----------------------------------------------------------------------------
(* Steps of one process at one session.                                    *)

\* What a step in process p at session s is given.
Steps(p, s) ==
    /\ Before /\ TypeOK' /\ DurableGrows /\ nextId <= nextId'
    /\ p \in Procs /\ s \in Sessions /\ Touches(p, s)

\* A step of a process that goes on writing: it flushes w and makes r.
LEMMA GoesOn ==
    ASSUME NEW p \in Procs, NEW s \in Sessions, Steps(p, s), NEW w \in Seq(Entry), NEW r, Fresh(r),
           pc[p][s] \in {"recovering", "open"}, pc'[p][s] \in {"recovering", "open"},
           file' = [file EXCEPT ![s] = Flushed(s, w)] \/ (w = <<>> /\ file' = file),
           w \o buf'[p][s] = buf[p][s] \o r,
           own'[p][s] = own[p][s] \/ own'[p][s] = own[p][s] \o r, inh'[p][s] = inh[p][s]
    PROVE  ChainInv'
  <1>1. OthersKeep(p, s)
    BY TouchesOne DEF Steps
  <1>2. file' = [file EXCEPT ![s] = @ \o w]
    <2>1. CASE file' = [file EXCEPT ![s] = Flushed(s, w)]
      BY <2>1, FlushedIs DEF Steps
    <2>2. CASE w = <<>> /\ file' = file
      BY <2>2, AddsNothing DEF Steps
    <2>3. QED
      BY <2>1, <2>2
  <1>3. QED
    BY <1>1, <1>2, HotStep DEF Steps

\* A slot whose process is not with the session, or whose log failed.
LEMMA IdleSlot ==
    ASSUME Before, TypeOK', nextId <= nextId', NEW p \in Procs, NEW s \in Sessions,
           inh'[p][s] \in Seq(Entry), pc'[p][s] \in {"none", "broken"},
           \/ buf'[p][s] = <<>> /\ own'[p][s] = <<>> /\ inh'[p][s] = <<>>
           \/ /\ pc'[p][s] = "broken" /\ buf'[p][s] = buf[p][s] /\ own'[p][s] = own[p][s]
              /\ inh'[p][s] = inh[p][s]
    PROVE  Slot(p, s)'
  <1>1. \A x \in Ids(buf'[p][s]) \cup Ids(inh'[p][s]) \cup Ids(own'[p][s]) : x < nextId'
    <2>1. CASE buf'[p][s] = <<>> /\ own'[p][s] = <<>> /\ inh'[p][s] = <<>>
      BY <2>1 DEF Ids
    <2>2. CASE /\ buf'[p][s] = buf[p][s] /\ own'[p][s] = own[p][s] /\ inh'[p][s] = inh[p][s]
      <3>1. /\ buf[p][s] \in Seq(Entry) /\ own[p][s] \in Seq(Entry) /\ inh[p][s] \in Seq(Entry)
            /\ nextId \in Nat /\ nextId' \in Nat /\ Ordered(p, s)
        BY DEF Before, TypeOK, ChainInv, Slot
      <3>2. \A x \in Ids(buf[p][s]) \cup Ids(inh[p][s]) \cup Ids(own[p][s]) :
                     x < nextId /\ x \in Nat
        BY <3>1, IdsAreNumbers DEF Ordered
      <3>3. QED
        BY <2>2, <3>1, <3>2
    <2>3. QED
      BY <2>1, <2>2
  <1>2. Ordered(p, s)'
    BY <1>1 DEF Ordered, Hot
  <1>3. Remembers(p, s)'
    BY DEF Remembers, Hot
  <1>4. QED
    BY <1>2, <1>3 DEF Slot

\* A step with which a process is done with a log, or its log failed.
LEMMA EndsWith ==
    ASSUME NEW p \in Procs, NEW s \in Sessions, Steps(p, s), NEW q, Writes(s, q),
           NEW n \in 0..Len(q),
           \/ pc[p][s] \in Writer /\ file' = [file EXCEPT ![s] = Flushed(s, Prefix(q, n))]
           \/ file' = file,
           pc'[p][s] \in {"none", "broken"},
           \/ buf'[p][s] = <<>> /\ own'[p][s] = <<>> /\ inh'[p][s] = <<>>
           \/ /\ pc'[p][s] = "broken" /\ buf'[p][s] = buf[p][s] /\ own'[p][s] = own[p][s]
              /\ inh'[p][s] = inh[p][s]
    PROVE  ChainInv'
  <1>1. OthersKeep(p, s)
    BY TouchesOne DEF Steps
  <1>2. Slot(p, s)'
    BY <1>1, IdleSlot DEF Steps, OthersKeep
  <1>3. CASE pc[p][s] \in Writer /\ file' = [file EXCEPT ![s] = Flushed(s, Prefix(q, n))]
    <2> DEFINE w == Prefix(q, n)
    <2>1. Writes(s, w)
      BY WritesPart DEF Steps
    <2>2. file' = [file EXCEPT ![s] = @ \o w]
      BY <1>3, FlushedIs DEF Steps
    <2> HIDE DEF w
    <2>3. Adds(s, w) /\ (file[s] = <<>> /\ w # <<>> => Anchored(w[1]))
      BY <2>1, <2>2 DEF Writes, Adds
    <2>4. QED
      BY <1>1, <1>2, <1>3, <2>3, OneSlot DEF Steps
  <1>4. CASE file' = file
    <2>1. Adds(s, <<>>)
      BY <1>4, AddsNothing DEF Steps
    <2>2. QED
      BY <1>1, <1>2, <2>1, OneSlot DEF Steps
  <1>5. QED
    BY <1>3, <1>4

\* Entries made in this step are fresh.
LEMMA OneFresh ==
    ASSUME Before, NEW e \in Entry, e.id = nextId, nextId' = nextId + 1
    PROVE  Fresh(<<e>>) /\ nextId <= nextId'
  <1>1. nextId \in Nat
    BY DEF Before, TypeOK
  <1>2. <<e>> \in Seq(Entry) /\ DOMAIN <<e>> = {1} /\ <<e>>[1] = e
    OBVIOUS
  <1>3. Rising(<<e>>) /\ Ids(<<e>>) = {e.id}
    BY <1>2 DEF Rising, Ids
  <1>4. QED
    BY <1>1, <1>2, <1>3 DEF Fresh

\* Two of them.
LEMMA TwoFresh ==
    ASSUME Before, NEW d \in Entry, NEW e \in Entry, d.id = nextId, e.id = nextId + 1,
           nextId' = nextId + 2
    PROVE  Fresh(<<d, e>>) /\ nextId <= nextId'
  <1>1. nextId \in Nat
    BY DEF Before, TypeOK
  <1>2. <<d, e>> \in Seq(Entry) /\ DOMAIN <<d, e>> = {1, 2} /\ <<d, e>>[1] = d /\ <<d, e>>[2] = e
    OBVIOUS
  <1>3. Rising(<<d, e>>) /\ Ids(<<d, e>>) = {d.id, e.id}
    BY <1>1, <1>2 DEF Rising, Ids
  <1>4. QED
    BY <1>1, <1>2, <1>3 DEF Fresh

-----------------------------------------------------------------------------
(* The operations, one by one.                                             *)

\* One entry more.
LEMMA AppendIs ==
    ASSUME NEW q \in Seq(Entry), NEW e \in Entry
    PROVE  Append(q, e) = q \o <<e>> /\ <<e>> \in Seq(Entry) /\ Append(q, e) \in Seq(Entry)
  OBVIOUS

\* The parts of a sequence.
LEMMA PartsAre ==
    ASSUME NEW q \in Seq(Entry), NEW n \in 0..Len(q)
    PROVE  Prefix(q, n) \in Seq(Entry) /\ Prefix(q, n) \o SubSeq(q, n + 1, Len(q)) = q
  <1>1. SubSeq(q, 1, n) \o SubSeq(q, n + 1, Len(q)) = SubSeq(q, 1, Len(q))
    <2>1. /\ Len(q) \in Nat /\ 1 \in 1..Len(q) + 1 /\ n \in 1 - 1..Len(q)
          /\ Len(q) \in n..Len(q)
      OBVIOUS
    <2>2. QED
      BY ONLY q \in Seq(Entry), <2>1, ConcatAdjacentSubSeq
  <1>2. QED
    <2>1. SubSeq(q, 1, Len(q)) = q
      BY SubSeqFull
    <2>2. Prefix(q, n) \in Seq(Entry)
      BY PrefixIs
    <2>3. QED
      BY <1>1, <2>1, <2>2 DEF Prefix

\* What makes a step.
LEMMA StepIs ==
    ASSUME Before, TypeOK', DurableGrows, NEW p \in Procs, NEW s \in Sessions, nextId <= nextId',
           Touches(p, s)
    PROVE  Steps(p, s)
  BY DEF Steps

\* Append: the entry follows what the session remembers.
LEMMA AppendChain ==
    ASSUME Before, TypeOK', DurableGrows, NEW p \in Procs, NEW s \in Sessions,
           NEW k \in Kinds, NEW u \in Uses \cup {None}, AppendPayload(p, s, k, u)
    PROVE  ChainInv'
  <1> DEFINE e == NewEntry(nextId, k, u)
  <1>1. /\ e \in Entry /\ e.id = nextId
        /\ buf[p][s] \in Seq(Entry) /\ own[p][s] \in Seq(Entry)
        /\ buf \in [Procs -> [Sessions -> Seq(Entry)]]
        /\ own \in [Procs -> [Sessions -> Seq(Entry)]]
    BY DEF Before, TypeOK, NewEntry, Entry
  <1> DEFINE q == Append(buf[p][s], e)
  <1>2. /\ pc[p][s] = "open" /\ pc' = pc /\ inh' = inh /\ nextId' = nextId + 1
        /\ own' = Put(own, p, s, Append(own[p][s], e))
        /\ \/ SyncTo(s, q) /\ buf' = Put(buf, p, s, <<>>)
           \/ file' = file /\ buf' = Put(buf, p, s, q)
    BY DEF AppendPayload, disk
  <1> HIDE DEF e
  <1>3. Append(own[p][s], e) = own[p][s] \o <<e>> /\ q = buf[p][s] \o <<e>> /\ <<e>> \in Seq(Entry)
        /\ q \in Seq(Entry)
    BY <1>1, AppendIs
  <1> HIDE DEF q
  <1>4. Fresh(<<e>>) /\ nextId <= nextId'
    BY <1>1, <1>2, OneFresh
  <1>5. Touches(p, s)
    BY <1>2 DEF Touches
  <1>6. Steps(p, s)
    BY <1>4, <1>5, StepIs
  <1>7. own'[p][s] = own[p][s] \o <<e>>
    BY <1>1, <1>2, <1>3 DEF Put
  <1>8. CASE SyncTo(s, q) /\ buf' = Put(buf, p, s, <<>>)
    <2>1. buf'[p][s] = <<>>
      BY <1>1, <1>8 DEF Put
    <2>2. q \o buf'[p][s] = buf[p][s] \o <<e>>
      BY <1>3, <2>1, EndsAtOnce
    <2>3. file' = [file EXCEPT ![s] = Flushed(s, q)]
      BY <1>8 DEF SyncTo
    <2>4. QED
      BY <1>2, <1>3, <1>4, <1>6, <1>7, <2>2, <2>3, GoesOn
  <1>9. CASE file' = file /\ buf' = Put(buf, p, s, q)
    <2>1. buf'[p][s] = q
      BY <1>1, <1>9 DEF Put
    <2>2. <<>> \o buf'[p][s] = buf[p][s] \o <<e>> /\ <<>> \in Seq(Entry)
      BY <1>3, <2>1, EmptyIs
    <2>3. QED
      BY <1>2, <1>3, <1>4, <1>6, <1>7, <1>9, <2>2, GoesOn
  <1>10. QED
    BY <1>2, <1>8, <1>9

\* Sync writes the buffer.
LEMMA SyncChain ==
    ASSUME Before, TypeOK', DurableGrows, NEW p \in Procs, NEW s \in Sessions,
           pc[p][s] \in {"recovering", "open"}, pc'[p][s] \in {"recovering", "open"},
           SyncTo(s, buf[p][s]), buf' = Put(buf, p, s, <<>>),
           pc' = pc \/ \E v : pc' = Put(pc, p, s, v), own' = own, inh' = inh, nextId' = nextId
    PROVE  ChainInv'
  <1>1. /\ buf[p][s] \in Seq(Entry) /\ buf \in [Procs -> [Sessions -> Seq(Entry)]] /\ nextId \in Nat
    BY DEF Before, TypeOK
  <1>2. buf'[p][s] = <<>>
    BY <1>1 DEF Put
  <1>3. buf[p][s] \o buf'[p][s] = buf[p][s] \o <<>>
    BY <1>2
  <1>4. Touches(p, s)
    BY DEF Touches
  <1>5. Steps(p, s)
    BY <1>1, <1>4, StepIs
  <1>6. file' = [file EXCEPT ![s] = Flushed(s, buf[p][s])]
    BY DEF SyncTo
  <1>7. QED
    BY <1>1, <1>3, <1>5, <1>6, NothingIsFresh, GoesOn

\* A spill writes some of it.
LEMMA SpillChain ==
    ASSUME Before, TypeOK', DurableGrows, NEW p \in Procs, NEW s \in Sessions, Spill(p, s)
    PROVE  ChainInv'
  <1> DEFINE q == buf[p][s]
  <1>1. q \in Seq(Entry) /\ buf \in [Procs -> [Sessions -> Seq(Entry)]] /\ nextId \in Nat
    BY DEF Before, TypeOK
  <1>2. PICK n \in 0..Len(q) :
          /\ file' = [file EXCEPT ![s] = Flushed(s, Prefix(q, n))]
          /\ buf' = Put(buf, p, s, SubSeq(q, n + 1, Len(q)))
    BY DEF Spill
  <1>3. pc[p][s] \in {"recovering", "open"} /\ UNCHANGED <<pc, own, inh, nextId>>
    BY DEF Spill
  <1>4. buf'[p][s] = SubSeq(q, n + 1, Len(q))
    BY <1>1, <1>2 DEF Put
  <1>5. Touches(p, s)
    BY <1>2, <1>3 DEF Touches
  <1>6. Steps(p, s)
    BY <1>1, <1>3, <1>5, StepIs
  <1> HIDE DEF q
  <1>7. /\ Prefix(q, n) \in Seq(Entry) /\ Prefix(q, n) \o SubSeq(q, n + 1, Len(q)) = q
        /\ q \o <<>> = q
    BY <1>1, PartsAre, EndsAtOnce
  <1>8. Prefix(q, n) \o buf'[p][s] = q \o <<>>
    BY <1>4, <1>7
  <1>9. Prefix(q, n) \o buf'[p][s] = buf[p][s] \o <<>>
    BY <1>8 DEF q
  <1>10. QED
    BY <1>2, <1>3, <1>6, <1>7, <1>9, NothingIsFresh, GoesOn

\* Recover appends what nobody recorded.
LEMMA RecoverChain ==
    ASSUME Before, TypeOK', DurableGrows, NEW p \in Procs, NEW s \in Sessions, NEW u \in Uses,
           RecoverUse(p, s, u)
    PROVE  ChainInv'
  <1> DEFINE r == RecoveryOf(p, s, u)
  <1>1. /\ buf[p][s] \in Seq(Entry) /\ buf \in [Procs -> [Sessions -> Seq(Entry)]] /\ nextId \in Nat
        /\ own \in [Procs -> [Sessions -> Seq(Entry)]]
    BY DEF Before, TypeOK
  <1>2. /\ pc[p][s] = "recovering" /\ UNCHANGED <<file, pc, inh>>
        /\ own' = Put(own, p, s, own[p][s] \o r) /\ buf' = Put(buf, p, s, buf[p][s] \o r)
        /\ nextId' = nextId + Len(r)
    BY DEF RecoverUse, disk
  <1>3. Fresh(r) /\ nextId <= nextId'
    <2> DEFINE d == NewEntry(nextId, "tool_result", u)
               e == NewEntry(nextId, "deny", u)
               g == NewEntry(nextId + 1, "tool_result", u)
    <2>1. /\ d \in Entry /\ e \in Entry /\ g \in Entry
          /\ d.id = nextId /\ e.id = nextId /\ g.id = nextId + 1
      BY <1>1 DEF NewEntry, Entry, Kinds
    <2>2. r = <<d>> \/ r = <<e, g>>
      BY DEF RecoveryOf
    <2> HIDE DEF d, e, g, r
    <2>3. CASE r = <<d>>
      <3>1. nextId' = nextId + 1
        BY <1>2, <2>3
      <3>2. QED
        BY <2>1, <2>3, <3>1, OneFresh
    <2>4. CASE r = <<e, g>>
      <3>1. nextId' = nextId + 2
        BY <1>2, <2>4
      <3>2. QED
        BY <2>1, <2>4, <3>1, TwoFresh
    <2>5. QED
      BY <2>2, <2>3, <2>4
  <1>4. own'[p][s] = own[p][s] \o r /\ buf'[p][s] = buf[p][s] \o r
    BY <1>1, <1>2 DEF Put
  <1>5. Touches(p, s)
    BY <1>2 DEF Touches
  <1>6. Steps(p, s)
    BY <1>3, <1>5, StepIs
  <1> HIDE DEF r
  <1>7. <<>> \o buf'[p][s] = buf[p][s] \o r /\ <<>> \in Seq(Entry)
    <2>1. r \in Seq(Entry) /\ buf[p][s] \o r \in Seq(Entry)
      BY <1>1, <1>3, JoinIs DEF Fresh
    <2>2. QED
      BY <1>4, <2>1, EmptyIs
  <1>8. QED
    BY <1>2, <1>3, <1>4, <1>6, <1>7, GoesOn

\* Recover syncs what it appended.
LEMMA RecoverDoneChain ==
    ASSUME Before, TypeOK', DurableGrows, NEW p \in Procs, NEW s \in Sessions, RecoverDone(p, s)
    PROVE  ChainInv'
  <1>1. /\ buf \in [Procs -> [Sessions -> Seq(Entry)]] /\ nextId \in Nat
        /\ pc \in [Procs -> [Sessions -> States]] /\ buf[p][s] \in Seq(Entry)
    BY DEF Before, TypeOK
  <1>2. /\ pc[p][s] = "recovering" /\ pc' = Put(pc, p, s, "open") /\ UNCHANGED <<own, inh, nextId>>
        /\ \/ UNCHANGED <<file, buf>>
           \/ SyncTo(s, buf[p][s]) /\ buf' = Put(buf, p, s, <<>>)
    BY DEF RecoverDone, disk
  <1>3. pc'[p][s] = "open"
    BY <1>1, <1>2 DEF Put
  <1>4. CASE SyncTo(s, buf[p][s]) /\ buf' = Put(buf, p, s, <<>>)
    BY <1>2, <1>3, <1>4, SyncChain
  <1>5. CASE UNCHANGED <<file, buf>>
    <2>1. Touches(p, s)
      BY <1>2, <1>5 DEF Touches
    <2>2. Steps(p, s)
      BY <1>1, <1>2, <2>1, StepIs
    <2>3. <<>> \o buf'[p][s] = buf[p][s] \o <<>> /\ <<>> \in Seq(Entry)
      BY <1>1, <1>5, EmptyIs, EndsAtOnce
    <2>4. QED
      BY <1>2, <1>3, <1>5, <2>2, <2>3, NothingIsFresh, GoesOn
  <1>6. QED
    BY <1>2, <1>4, <1>5

\* What Forget leaves.
LEMMA Forgets ==
    ASSUME Before, NEW p \in Procs, NEW s \in Sessions, Forget(p, s)
    PROVE  /\ pc'[p][s] = "none" /\ own'[p][s] = <<>> /\ inh'[p][s] = <<>> /\ buf'[p][s] = <<>>
           /\ Touches(p, s)
  <1>1. /\ pc \in [Procs -> [Sessions -> States]] /\ own \in [Procs -> [Sessions -> Seq(Entry)]]
        /\ inh \in [Procs -> [Sessions -> Seq(Entry)]]
        /\ buf \in [Procs -> [Sessions -> Seq(Entry)]]
    BY DEF Before, TypeOK, ChainInv
  <1>2. pc'[p][s] = "none" /\ own'[p][s] = <<>>
    BY <1>1 DEF Forget, Put
  <1>3. inh'[p][s] = <<>> /\ buf'[p][s] = <<>>
    BY <1>1 DEF Forget, Put
  <1>4. <<>> \in Seq(Entry)
    OBVIOUS
  <1>5. Touches(p, s)
    BY <1>4 DEF Forget, Touches
  <1>6. QED
    BY <1>2, <1>3, <1>5

\* Closing a session, with or without what its buffer holds.
LEMMA CloseChain ==
    ASSUME Before, TypeOK', DurableGrows, NEW p \in Procs, NEW s \in Sessions,
           Close(p, s) \/ CloseBroken(p, s)
    PROVE  ChainInv'
  <1>1. /\ Forget(p, s) /\ nextId' = nextId /\ nextId \in Nat
        /\ \/ pc[p][s] = "open" /\ SyncTo(s, buf[p][s])
           \/ file' = file
    BY DEF Close, CloseBroken, disk, Before, TypeOK
  <1>2. /\ pc'[p][s] = "none" /\ own'[p][s] = <<>> /\ inh'[p][s] = <<>> /\ buf'[p][s] = <<>>
        /\ Touches(p, s)
    BY <1>1, Forgets
  <1>3. Steps(p, s)
    BY <1>1, <1>2, StepIs
  <1>4. CASE file' = file
    <2>1. Writes(s, <<>>) /\ 0 \in 0..Len(<<>>)
      <3>1. Adds(s, <<>>)
        BY <1>1, <1>4, AddsNothing
      <3>2. QED
        BY <3>1 DEF Adds, Writes
    <2>2. QED
      BY <1>2, <1>3, <1>4, <2>1, EndsWith
  <1>5. CASE pc[p][s] = "open" /\ SyncTo(s, buf[p][s])
    <2> DEFINE q == buf[p][s]
    <2>1. Writes(s, q) /\ q \in Seq(Entry)
      BY <1>1, <1>5, WritesBuffer DEF Hot, Writes
    <2>2. Len(q) \in 0..Len(q) /\ Prefix(q, Len(q)) = q
      BY <2>1, SubSeqFull DEF Prefix
    <2>3. file' = [file EXCEPT ![s] = Flushed(s, Prefix(q, Len(q)))]
      BY <1>5, <2>2 DEF SyncTo
    <2>4. pc[p][s] \in Writer
      BY <1>5 DEF Writer
    <2> HIDE DEF q
    <2>5. QED
      BY <1>2, <1>3, <2>1, <2>2, <2>3, <2>4, EndsWith
  <1>6. QED
    BY <1>1, <1>4, <1>5

\* A write that fails.
LEMMA FlushFailsChain ==
    ASSUME Before, TypeOK', DurableGrows, NEW p \in Procs, NEW s \in Sessions, nextId <= nextId',
           pc[p][s] \in Hot, NEW q, Writes(s, q), FlushFails(p, s, q)
    PROVE  ChainInv'
  <1>1. PICK n \in 0..Len(q) - 1 : file' = [file EXCEPT ![s] = Flushed(s, Prefix(q, n))]
    BY DEF FlushFails
  <1>2. n \in 0..Len(q)
    BY DEF Writes
  <1>3. pc[p][s] \in Writer
    BY DEF Writer, Hot
  <1>4. CASE pc[p][s] = "open"
    <2>1. pc' = Put(pc, p, s, "broken") /\ UNCHANGED <<own, inh, buf>>
      BY <1>4 DEF FlushFails, Failed
    <2>2. pc'[p][s] = "broken"
      BY <2>1 DEF Put, Before, TypeOK
    <2>3. Touches(p, s)
      BY <2>1 DEF Touches
    <2>4. Steps(p, s)
      BY <2>3, StepIs
    <2>5. QED
      BY <1>1, <1>2, <1>3, <2>1, <2>2, <2>4, EndsWith
  <1>5. CASE pc[p][s] # "open"
    <2>1. Forget(p, s)
      BY <1>5 DEF FlushFails, Failed
    <2>2. /\ pc'[p][s] = "none" /\ own'[p][s] = <<>> /\ inh'[p][s] = <<>> /\ buf'[p][s] = <<>>
          /\ Touches(p, s)
      BY <2>1, Forgets
    <2>3. Steps(p, s)
      BY <2>2, StepIs
    <2>4. QED
      BY <1>1, <1>2, <1>3, <2>2, <2>3, EndsWith
  <1>6. QED
    BY <1>4, <1>5

\* An fsync that fails after the write did not.
LEMMA FsyncFailsChain ==
    ASSUME Before, TypeOK', DurableGrows, NEW p \in Procs, NEW s \in Sessions, nextId <= nextId',
           pc[p][s] \in Hot, NEW r, Fresh(r), pc[p][s] = "open" \/ r = <<>>,
           FsyncFails(p, s, buf[p][s] \o r)
    PROVE  ChainInv'
  <1> DEFINE q == buf[p][s] \o r
  <1>1. buf[p][s] \in Seq(Entry) /\ r \in Seq(Entry) /\ q \in Seq(Entry)
    BY JoinIs DEF Before, TypeOK, Fresh
  <1>2. file' = [file EXCEPT ![s] = Flushed(s, q)]
    BY DEF FsyncFails
  <1>3. CASE pc[p][s] = "open"
    <2>1. buf' = Put(buf, p, s, <<>>) /\ UNCHANGED <<pc, own, inh>>
      BY <1>3 DEF FsyncFails
    <2>2. buf'[p][s] = <<>>
      BY <2>1 DEF Put, Before, TypeOK
    <2>3. Touches(p, s)
      BY <2>1 DEF Touches
    <2>4. Steps(p, s)
      BY <2>3, StepIs
    <2>5. q \o buf'[p][s] = buf[p][s] \o r
      BY <1>1, <2>2, EndsAtOnce
    <2> HIDE DEF q
    <2>6. QED
      BY <1>1, <1>2, <1>3, <2>1, <2>4, <2>5, GoesOn
  <1>4. CASE pc[p][s] # "open"
    <2>1. r = <<>> /\ Forget(p, s)
      BY <1>4 DEF FsyncFails
    <2>2. q = buf[p][s]
      BY <1>1, <2>1, EndsAtOnce
    <2>3. Writes(s, q)
      BY <2>2, WritesBuffer
    <2>4. Len(q) \in 0..Len(q) /\ Prefix(q, Len(q)) = q
      BY <1>1, SubSeqFull DEF Prefix
    <2>5. /\ pc'[p][s] = "none" /\ own'[p][s] = <<>> /\ inh'[p][s] = <<>> /\ buf'[p][s] = <<>>
          /\ Touches(p, s)
      BY <2>1, Forgets
    <2>6. Steps(p, s)
      BY <2>5, StepIs
    <2>7. pc[p][s] \in Writer /\ file' = [file EXCEPT ![s] = Flushed(s, Prefix(q, Len(q)))]
      BY <1>2, <2>4 DEF Writer, Hot
    <2> HIDE DEF q
    <2>8. QED
      BY <2>3, <2>4, <2>5, <2>6, <2>7, EndsWith
  <1>5. QED
    BY <1>3, <1>4

\* A Sync that fails.
LEMMA SyncFailsChain ==
    ASSUME Before, TypeOK', DurableGrows, NEW p \in Procs, NEW s \in Sessions, SyncFails(p, s)
    PROVE  ChainInv'
  <1>1. /\ pc[p][s] \in Hot /\ nextId' = nextId /\ nextId \in Nat /\ buf[p][s] \in Seq(Entry)
        /\ FlushFails(p, s, buf[p][s]) \/ FsyncFails(p, s, buf[p][s])
    BY DEF SyncFails, Hot, Before, TypeOK
  <1>2. nextId <= nextId' /\ buf[p][s] \o <<>> = buf[p][s]
    BY <1>1, EndsAtOnce
  <1>3. Writes(s, buf[p][s])
    BY <1>1, <1>2, WritesBuffer
  <1>4. CASE FlushFails(p, s, buf[p][s])
    BY <1>1, <1>2, <1>3, <1>4, FlushFailsChain
  <1>5. CASE FsyncFails(p, s, buf[p][s])
    <2>1. FsyncFails(p, s, buf[p][s] \o <<>>)
      BY <1>2, <1>5
    <2>2. QED
      BY <1>1, <1>2, <2>1, NothingIsFresh, FsyncFailsChain
  <1>6. QED
    BY <1>1, <1>4, <1>5

\* Append of an allow that is not synced.
LEMMA AllowFailsChain ==
    ASSUME Before, TypeOK', DurableGrows, NEW p \in Procs, NEW s \in Sessions, NEW u \in Uses,
           AppendAllowFails(p, s, u)
    PROVE  ChainInv'
  <1> DEFINE e == NewEntry(nextId, "allow", u)
             q == Append(buf[p][s], e)
  <1>1. e \in Entry /\ e.id = nextId /\ buf[p][s] \in Seq(Entry)
    BY DEF Before, TypeOK, NewEntry, Entry, Kinds
  <1>2. /\ pc[p][s] = "open" /\ nextId' = nextId + 1
        /\ FlushFails(p, s, q) \/ FsyncFails(p, s, q)
    BY DEF AppendAllowFails
  <1> HIDE DEF e
  <1>3. q = buf[p][s] \o <<e>>
    BY <1>1, AppendIs
  <1> HIDE DEF q
  <1>4. Fresh(<<e>>) /\ nextId <= nextId'
    BY <1>1, <1>2, OneFresh
  <1>5. CASE FlushFails(p, s, q)
    <2>1. Writes(s, q)
      BY <1>2, <1>3, <1>4, WritesFresh
    <2>2. QED
      BY <1>2, <1>4, <1>5, <2>1, FlushFailsChain DEF Hot
  <1>6. CASE FsyncFails(p, s, q)
    <2>1. FsyncFails(p, s, buf[p][s] \o <<e>>)
      BY <1>3, <1>6
    <2>2. QED
      BY <1>2, <1>4, <2>1, FsyncFailsChain DEF Hot
  <1>7. QED
    BY <1>2, <1>5, <1>6

\* A step that changes neither a log nor what a process has of one.
LEMMA StillChain ==
    ASSUME ChainInv, UNCHANGED <<file, synced, pc, own, inh, buf, nextId>>
    PROVE  ChainInv'
  <1>1. ASSUME NEW p \in Procs, NEW s \in Sessions PROVE Slot(p, s)'
    <2>1. Ordered(p, s) /\ Remembers(p, s)
      BY DEF ChainInv, Slot
    <2>2. Ordered(p, s)'
      BY <2>1 DEF Ordered
    <2>3. Making(p, s) => Making(p, s)'
      BY DEF Making, Anchored
    <2>4. Remembers(p, s)'
      BY <2>1, <2>3 DEF Remembers
    <2>5. QED
      BY <2>2, <2>4 DEF Slot
  <1>2. Numbered'
    BY DEF ChainInv, Numbered
  <1>3. QED
    BY <1>1, <1>2 DEF ChainInv

\* A step that writes nothing and changes one slot.
LEMMA QuietStep ==
    ASSUME NEW p \in Procs, NEW s \in Sessions, Steps(p, s), file' = file, Slot(p, s)'
    PROVE  ChainInv'
  <1>1. OthersKeep(p, s) /\ Adds(s, <<>>)
    BY TouchesOne, AddsNothing DEF Steps
  <1>2. QED
    BY <1>1, OneSlot DEF Steps

\* A log that is there, its chain and their ids.
LEMMA HomeBefore ==
    ASSUME Before, NEW s \in Sessions, file[s] # <<>>
    PROVE  /\ InheritedEntries(file, s) \in Seq(Entry)
           /\ Rising(InheritedEntries(file, s) \o file[s]) /\ Rising(file[s])
           /\ \A x \in Ids(InheritedEntries(file, s)) \cup Ids(file[s]) : x < nextId
  <1>1. Chains(file, synced) /\ file[s] \in Seq(Entry) /\ Numbered /\ nextId \in Nat
    BY DEF Before, ChainInv, Chains, Logs, TypeOK
  <1> DEFINE h == InheritedEntries(file, s)
  <1>2. h \in Seq(Entry) /\ Rising(h \o file[s])
    BY <1>1, AllSound DEF Sound
  <1> HIDE DEF h
  <1>3. Rising(h) /\ Rising(file[s]) /\ \A x \in Ids(h), y \in Ids(file[s]) : x < y
    BY <1>1, <1>2, JoinRises
  <1>4. file[s][1].id \in Ids(file[s])
    BY <1>1, FirstIs
  <1>5. \A x \in Ids(h) \cup Ids(file[s]) : x \in Nat
    BY <1>1, <1>2, IdsAreNumbers
  <1>6. \A x \in Ids(h) \cup Ids(file[s]) : x < nextId
    BY <1>1, <1>3, <1>4, <1>5 DEF Numbered
  <1>7. QED
    BY <1>2, <1>3, <1>6 DEF h

\* Load remembers the log and its chain.
LEMMA LoadReadChain ==
    ASSUME Before, TypeOK', DurableGrows, NEW p \in Procs, NEW s \in Sessions, LoadRead(p, s)
    PROVE  ChainInv'
  <1>1. /\ pc[p][s] = "none" /\ file[s] # <<>> /\ UNCHANGED <<file, synced, buf, nextId>>
        /\ pc' = Put(pc, p, s, "read") /\ own' = Put(own, p, s, file[s])
        /\ inh' = Put(inh, p, s, InheritedEntries(file, s))
    BY DEF LoadRead, Loads, disk
  <1>2. /\ InheritedEntries(file, s) \in Seq(Entry)
        /\ Rising(InheritedEntries(file, s) \o file[s])
        /\ \A x \in Ids(InheritedEntries(file, s)) \cup Ids(file[s]) : x < nextId
    BY <1>1, HomeBefore
  <1>3. Touches(p, s)
    BY <1>1, <1>2 DEF Touches
  <1>4. nextId <= nextId' /\ buf[p][s] = <<>>
    BY <1>1 DEF Before, TypeOK, ChainInv, Slot, Ordered
  <1>5. Steps(p, s)
    BY <1>3, <1>4, StepIs
  <1>6. /\ pc'[p][s] = "read" /\ own'[p][s] = file[s]
        /\ inh'[p][s] = InheritedEntries(file, s)
    BY <1>1 DEF Put, Before, TypeOK, ChainInv
  <1>7. Ids(<<>>) = {}
    BY DEF Ids
  <1>8. Ordered(p, s)'
    BY <1>1, <1>2, <1>4, <1>6, <1>7 DEF Ordered, Hot
  <1>9. Remembers(p, s)'
    BY <1>1, <1>6 DEF Remembers
  <1>10. QED
    BY <1>1, <1>5, <1>8, <1>9, QuietStep DEF Slot

\* Load takes the lock.
LEMMA LoadLockChain ==
    ASSUME Before, TypeOK', DurableGrows, NEW p \in Procs, NEW s \in Sessions, LoadLock(p, s)
    PROVE  ChainInv'
  <1>1. /\ pc[p][s] = "read" /\ UNCHANGED <<file, synced, own, inh, buf, nextId>>
        /\ pc' = Put(pc, p, s, "recovering")
    BY DEF LoadLock, disk
  <1>2. Touches(p, s)
    BY <1>1 DEF Touches
  <1>3. nextId <= nextId' /\ Ordered(p, s) /\ Remembers(p, s)
    BY <1>1 DEF Before, TypeOK, ChainInv, Slot
  <1>4. Steps(p, s)
    BY <1>2, <1>3, StepIs
  <1>5. pc'[p][s] = "recovering"
    BY <1>1 DEF Put, Before, TypeOK
  <1>6. Rising(file[s] \o buf[p][s])
    <2>1. buf[p][s] = <<>>
      BY <1>1, <1>3 DEF Ordered
    <2>2. file[s] \in Seq(Entry) /\ Rising(file[s])
      BY DEF Before, ChainInv, Chains, Logs
    <2>3. QED
      BY <2>1, <2>2, EndsAtOnce
  <1>7. Ordered(p, s)'
    BY <1>1, <1>3, <1>5, <1>6 DEF Ordered, Hot
  <1>8. Remembers(p, s)'
    BY <1>1, <1>3, <1>5 DEF Remembers
  <1>9. QED
    BY <1>1, <1>4, <1>7, <1>8, QuietStep DEF Slot

\* Load is refused the lock.
LEMMA LoadRefusedChain ==
    ASSUME Before, TypeOK', DurableGrows, NEW p \in Procs, NEW s \in Sessions, LoadRefused(p, s)
    PROVE  ChainInv'
  <1>1. /\ pc[p][s] = "read" /\ UNCHANGED <<file, synced, buf, nextId>>
        /\ pc' = Put(pc, p, s, "none") /\ own' = Put(own, p, s, <<>>) /\ inh' = Put(inh, p, s, <<>>)
    BY DEF LoadRefused, disk
  <1>2. <<>> \in Seq(Entry)
    OBVIOUS
  <1>3. Touches(p, s)
    BY <1>1, <1>2 DEF Touches
  <1>4. nextId <= nextId' /\ buf[p][s] = <<>>
    BY <1>1 DEF Before, TypeOK, ChainInv, Slot, Ordered
  <1>5. Steps(p, s)
    BY <1>3, <1>4, StepIs
  <1>6. /\ pc'[p][s] = "none" /\ own'[p][s] = <<>> /\ inh'[p][s] = <<>> /\ buf'[p][s] = <<>>
    BY <1>1, <1>4 DEF Put, Before, TypeOK, ChainInv
  <1>7. Slot(p, s)'
    BY <1>2, <1>4, <1>6, IdleSlot
  <1>8. QED
    BY <1>1, <1>5, <1>7, QuietStep

\* One entry alone.
LEMMA OneEntry ==
    ASSUME NEW e \in Entry
    PROVE  /\ <<e>> \in Seq(Entry) /\ <<e>> # <<>> /\ <<e>>[1] = e
           /\ Ids(<<e>>) = {e.id} /\ Rising(<<e>>)
  <1>1. <<e>> \in Seq(Entry) /\ DOMAIN <<e>> = {1} /\ <<e>>[1] = e
    OBVIOUS
  <1>2. QED
    BY <1>1 DEF Rising, Ids

\* A slot that is being created.
LEMMA MakingSlot ==
    ASSUME TypeOK', NEW p \in Procs, NEW s \in Sessions, NEW e \in Entry, e.id < nextId',
           pc'[p][s] = "creating", own'[p][s] = <<e>>, buf'[p][s] = <<e>>, file'[s] = <<>>,
           inh'[p][s] \in Seq(Entry), Rising(inh'[p][s]), \A x \in Ids(inh'[p][s]) : x < e.id,
           Making(p, s)'
    PROVE  Slot(p, s)'
  <1>1. /\ <<e>> \in Seq(Entry) /\ Ids(<<e>>) = {e.id} /\ Rising(<<e>>)
        /\ e.id \in Nat /\ nextId' \in Nat
    BY OneEntry, EntryId DEF TypeOK
  <1>2. Rising(inh'[p][s] \o <<e>>)
    <2>1. \A x \in Ids(inh'[p][s]), y \in Ids(<<e>>) : x < y
      BY <1>1
    <2>2. QED
      BY <1>1, <2>1, JoinRises, Zenon
  <1>3. Rising(file'[s] \o buf'[p][s])
    BY <1>1, EmptyIs
  <1>4. \A x \in Ids(inh'[p][s]) : x \in Nat
    BY IdsAreNumbers
  <1>5. Ordered(p, s)'
    BY <1>1, <1>2, <1>3, <1>4 DEF Ordered
  <1>6. Remembers(p, s)'
    BY DEF Remembers
  <1>7. QED
    BY <1>5, <1>6 DEF Slot

\* Open buffers a log's first entry.
LEMMA OpenChain ==
    ASSUME Before, TypeOK', DurableGrows, NEW p \in Procs, NEW s \in Sessions, Open(p, s)
    PROVE  ChainInv'
  <1> DEFINE e == NewEntry(nextId, "session_opened", None)
  <1>1. e \in Entry /\ e.id = nextId /\ e.kind = "session_opened" /\ nextId \in Nat
    BY DEF Before, TypeOK, NewEntry, Entry, Kinds
  <1>2. /\ file[s] = <<>> /\ UNCHANGED <<file, synced>> /\ nextId' = nextId + 1
        /\ pc' = Put(pc, p, s, "creating") /\ own' = Put(own, p, s, <<e>>)
        /\ inh' = Put(inh, p, s, <<>>) /\ buf' = Put(buf, p, s, <<e>>)
    BY DEF Open, Create, disk
  <1> HIDE DEF e
  <1>3. <<>> \in Seq(Entry) /\ Rising(<<>>) /\ Ids(<<>>) = {}
    BY DEF Rising, Ids
  <1>4. Touches(p, s)
    BY <1>2, <1>3 DEF Touches
  <1>5. Steps(p, s)
    BY <1>1, <1>2, <1>4, StepIs
  <1>6. /\ pc'[p][s] = "creating" /\ own'[p][s] = <<e>>
        /\ inh'[p][s] = <<>> /\ buf'[p][s] = <<e>>
    BY <1>2 DEF Put, Before, TypeOK, ChainInv
  <1>7. Making(p, s)'
    BY <1>1, <1>2, <1>6 DEF Making, Anchored
  <1>8. Slot(p, s)'
    <2>1. e.id < nextId' /\ file'[s] = <<>>
      BY <1>1, <1>2
    <2>2. inh'[p][s] \in Seq(Entry) /\ Rising(inh'[p][s]) /\ \A x \in Ids(inh'[p][s]) : x < e.id
      BY <1>3, <1>6
    <2>3. QED
      BY <1>1, <1>6, <1>7, <2>1, <2>2, MakingSlot, Zenon
  <1>9. QED
    BY <1>2, <1>5, <1>8, QuietStep

\* The first entry is on disk: the session is open.
LEMMA CreateSyncChain ==
    ASSUME Before, TypeOK', DurableGrows, NEW p \in Procs, NEW s \in Sessions, CreateSync(p, s)
    PROVE  ChainInv'
  <1>1. /\ pc[p][s] = "creating" /\ SyncTo(s, buf[p][s]) /\ buf' = Put(buf, p, s, <<>>)
        /\ pc' = Put(pc, p, s, "open") /\ UNCHANGED <<own, inh, nextId>>
    BY DEF CreateSync
  <1>2. /\ Ordered(p, s) /\ Making(p, s) /\ nextId \in Nat /\ inh[p][s] \in Seq(Entry)
        /\ own[p][s] \in Seq(Entry)
    BY <1>1 DEF Before, TypeOK, ChainInv, Slot, Remembers
  <1>3. PICK e \in Entry :
          /\ file[s] = <<>> /\ own[p][s] = <<e>> /\ buf[p][s] = <<e>>
          /\ Anchored(e)
          /\ e.kind # "fork_point" => inh[p][s] = <<>>
          /\ e.kind = "fork_point" /\ ~TooDeep(file, e.parent) =>
               \A x \in Ids(inh[p][s]) :
                  x <= e.at /\ x \in Ids(InheritedEntries(file, e.parent)) \cup Ids(file[e.parent])
    BY <1>2 DEF Making
  <1>4. /\ <<e>> \in Seq(Entry) /\ <<e>> # <<>> /\ <<e>>[1] = e /\ Ids(<<e>>) = {e.id}
        /\ Rising(<<e>>)
    BY OneEntry
  <1>5. Writes(s, <<e>>)
    BY <1>1, <1>2, <1>3, WritesBuffer DEF Hot
  <1>6. Touches(p, s)
    BY <1>1 DEF Touches
  <1>7. Steps(p, s)
    BY <1>1, <1>2, <1>6, StepIs
  <1>8. file' = [file EXCEPT ![s] = @ \o <<e>>]
    BY <1>1, <1>3, FlushedIs DEF SyncTo
  <1>9. Adds(s, <<e>>) /\ Anchored(e)
    BY <1>3, <1>4, <1>5, <1>8 DEF Adds, Writes
  <1>10. Moved(file, synced, file', synced') /\ Longer
    BY <1>4, <1>7, <1>9, AddsMoves DEF Steps
  <1>11. file'[s] = <<e>>
    BY <1>3, <1>4, <1>8, EmptyIs DEF Before, TypeOK
  <1>12. pc'[p][s] = "open" /\ buf'[p][s] = <<>> /\ own'[p][s] = <<e>> /\ inh'[p][s] = inh[p][s]
    BY <1>1, <1>3 DEF Put, Before, TypeOK
  <1>13. Ordered(p, s)'
    <2>1. Rising(file'[s] \o buf'[p][s])
      BY <1>4, <1>11, <1>12, EndsAtOnce
    <2>2. Ids(<<>>) = {}
      BY DEF Ids
    <2>3. Rising(inh[p][s] \o <<e>>)
      BY <1>1, <1>2, <1>3 DEF Ordered, Hot
    <2>4. \A x \in Ids(inh[p][s]) \cup Ids(<<e>>) : x < nextId
      BY <1>2, <1>3 DEF Ordered
    <2>5. QED
      BY <1>1, <1>2, <1>12, <2>1, <2>2, <2>3, <2>4 DEF Ordered
  <1>14. ~TooDeep(file', s) => Ids(inh[p][s]) \subseteq Ids(InheritedEntries(file', s))
    <2>1. CASE e.kind # "fork_point"
      BY <1>3, <2>1 DEF Ids
    <2>2. CASE e.kind = "fork_point"
      <3> SUFFICES ASSUME ~TooDeep(file', s)
                   PROVE  Ids(inh[p][s]) \subseteq Ids(InheritedEntries(file', s))
        OBVIOUS
      <3>1. Forked(file', s) /\ file'[s][1] = e
        BY <1>4, <1>11, <2>2 DEF Forked
      <3>2. Chains(file', synced')
        BY <1>10, ChainsStay
      <3>3. Named(file')
        BY <3>2, ChainsNamed
      <3>4. Rooted(file, synced, e)
        BY <1>9, <2>2 DEF Anchored
      <3>5. Same(file, file', e.parent) /\ e.parent \in Sessions
        BY <1>10, <3>4, ParentSame
      <3>6. InheritedEntries(file', e.parent) = InheritedEntries(file, e.parent)
        BY <1>10, <3>5, HomeStays
      <3>7. ~TooDeep(file', e.parent)
        BY <3>1, <3>3, HomeIs
      <3>8. ~TooDeep(file, e.parent)
        BY <1>10, <3>5, <3>7, DepthStays
      <3>9. Ids(file[e.parent]) \subseteq Ids(file'[e.parent])
        BY <1>10, <3>5, LongerIds DEF Moved, Chains, Logs
      <3>10. Ids(InheritedEntries(file', s)) =
               {x \in Ids(InheritedEntries(file', e.parent)) \cup Ids(file'[e.parent]) : x <= e.at}
        BY <3>1, <3>2, AllSound DEF Sound
      <3>11. QED
        BY <1>3, <2>2, <3>6, <3>8, <3>9, <3>10
    <2>3. QED
      BY <2>1, <2>2
  <1>15. Remembers(p, s)'
    BY <1>4, <1>11, <1>12, <1>14 DEF Remembers
  <1>16. OthersKeep(p, s)
    BY <1>7, TouchesOne DEF Steps
  <1>17. pc[p][s] \in Writer
    BY <1>1 DEF Writer
  <1>18. Slot(p, s)'
    BY <1>13, <1>15 DEF Slot
  <1>19. QED
    BY <1>4, <1>7, <1>9, <1>16, <1>17, <1>18, OneSlot DEF Steps

\* A sequence that is not empty has a first.
LEMMA NotEmptyIs == ASSUME NEW q \in Seq(Entry), q # <<>> PROVE Len(q) >= 1
  OBVIOUS

\* What a fork at an entry the parent remembers inherits.
LEMMA ForkCut ==
    ASSUME Before, NEW p \in Procs, NEW s \in Sessions, pc[p][s] = "open",
           NEW at \in Ids(Entries(p, s))
    PROVE  /\ UpTo(Entries(p, s), at) \in Seq(Entry) /\ Rising(UpTo(Entries(p, s), at))
           /\ Ids(UpTo(Entries(p, s), at)) =
                {x \in Ids(inh[p][s]) \cup Ids(own[p][s]) : x <= at}
           /\ at \in Ids(inh[p][s]) \cup Ids(own[p][s]) /\ at < nextId /\ at \in Nat
           /\ \A x \in Ids(inh[p][s]) \cup Ids(own[p][s]) : x < nextId
  <1>1. /\ inh[p][s] \in Seq(Entry) /\ own[p][s] \in Seq(Entry) /\ Ordered(p, s)
    BY DEF Before, TypeOK, ChainInv, Slot
  <1> DEFINE q == Entries(p, s)
  <1>2. q \in Seq(Entry) /\ Ids(q) = Ids(inh[p][s]) \cup Ids(own[p][s]) /\ Rising(q)
    BY <1>1, JoinIs, JoinIds DEF Entries, Ordered, Hot
  <1> HIDE DEF q
  <1>3. at \in Ids(q)
    BY DEF q
  <1>4. /\ UpTo(q, at) \in Seq(Entry) /\ Rising(UpTo(q, at))
        /\ Ids(UpTo(q, at)) = {x \in Ids(q) : x <= at}
    BY <1>2, <1>3, CutIs
  <1>5. \A x \in Ids(inh[p][s]) \cup Ids(own[p][s]) : x < nextId
    BY <1>1 DEF Ordered
  <1>6. at < nextId /\ at \in Nat
    BY <1>2, <1>3, <1>5, IdsAreNumbers
  <1>7. QED
    BY <1>2, <1>3, <1>4, <1>5, <1>6 DEF q

\* Fork syncs the parent and buffers the child's first entry.
LEMMA ForkChain ==
    ASSUME Before, TypeOK', DurableGrows, NEW p \in Procs, NEW s \in Sessions,
           NEW c \in Sessions \ {s}, NEW at \in 1..MaxIds, Fork(p, s, c, at)
    PROVE  ChainInv'
  <1> DEFINE u == UpTo(Entries(p, s), at)
  <1>0. PICK e \in Entry : e = ForkPoint(nextId, s, at)
    <2>1. nextId \in Nat /\ at \in Nat
      BY SessionLogAssumption DEF Before, TypeOK
    <2>2. ForkPoint(nextId, s, at) \in Entry
      BY <2>1, EntryTypes
    <2>3. QED
      BY <2>2
  <1>1. /\ e.id = nextId /\ e.kind = "fork_point" /\ e.parent = s /\ e.at = at
        /\ nextId \in Nat /\ buf[p][s] \in Seq(Entry)
        /\ pc \in [Procs -> [Sessions -> States]] /\ own \in [Procs -> [Sessions -> Seq(Entry)]]
        /\ inh \in [Procs -> [Sessions -> Seq(Entry)]]
        /\ buf \in [Procs -> [Sessions -> Seq(Entry)]]
    <2>1. e.id = nextId /\ e.kind = "fork_point" /\ e.parent = s /\ e.at = at
      BY <1>0 DEF ForkPoint
    <2>2. /\ pc \in [Procs -> [Sessions -> States]] /\ own \in [Procs -> [Sessions -> Seq(Entry)]]
          /\ inh \in [Procs -> [Sessions -> Seq(Entry)]]
          /\ buf \in [Procs -> [Sessions -> Seq(Entry)]]
      BY DEF Before, TypeOK, ChainInv
    <2>3. nextId \in Nat
      BY DEF Before, TypeOK
    <2>4. QED
      BY <2>1, <2>2, <2>3
  <1>2. /\ pc[p][s] = "open" /\ file[c] = <<>> /\ nextId' = nextId + 1
        /\ pc' = Put(pc, p, c, "creating") /\ own' = Put(own, p, c, <<e>>)
        /\ inh' = Put(inh, p, c, u) /\ buf' = [buf EXCEPT ![p][s] = <<>>, ![p][c] = <<e>>]
        /\ SyncTo(s, buf[p][s])
    BY <1>0 DEF Fork, Create
  <1>3. PICK i \in DOMAIN Entries(p, s) : Entries(p, s)[i].id = at
    BY DEF Fork
  <1>4. /\ u \in Seq(Entry) /\ Rising(u)
        /\ Ids(u) = {x \in Ids(inh[p][s]) \cup Ids(own[p][s]) : x <= at}
        /\ at \in Ids(inh[p][s]) \cup Ids(own[p][s]) /\ at < nextId /\ at \in Nat
        /\ \A x \in Ids(inh[p][s]) \cup Ids(own[p][s]) : x < nextId
    <2>0. at \in Ids(Entries(p, s))
      BY <1>3 DEF Ids
    <2>1. pc[p][s] = "open"
      BY <1>2
    <2>2. QED
      BY <2>1, <2>0, ForkCut, Zenon
  <1> HIDE DEF u
  <1>5. /\ pc'[p][s] = pc[p][s] /\ own'[p][s] = own[p][s] /\ inh'[p][s] = inh[p][s]
        /\ buf'[p][s] = <<>>
        /\ pc'[p][c] = "creating" /\ own'[p][c] = <<e>> /\ inh'[p][c] = u /\ buf'[p][c] = <<e>>
    <2>1. pc'[p][s] = pc[p][s] /\ pc'[p][c] = "creating"
      BY <1>1, <1>2 DEF Put
    <2>2. own'[p][s] = own[p][s] /\ own'[p][c] = <<e>>
      BY <1>1, <1>2 DEF Put
    <2>3. inh'[p][s] = inh[p][s] /\ inh'[p][c] = u
      BY <1>1, <1>2 DEF Put
    <2>4. buf'[p][s] = <<>> /\ buf'[p][c] = <<e>>
      BY <1>1, <1>2
    <2>5. QED
      BY <2>1, <2>2, <2>3, <2>4
  <1>6. nextId <= nextId' /\ nextId < nextId' /\ nextId' \in Nat
    BY <1>1, <1>2
  <1>7. Writes(s, buf[p][s]) /\ file[s] # <<>> /\ file[s] \in Seq(Entry)
    <2>1. Remembers(p, s)
      BY DEF Before, ChainInv, Slot
    <2>2. QED
      BY <1>2, <1>6, <2>1, WritesBuffer DEF Hot, Remembers, Before, ChainInv, Chains, Logs
  <1>8. file' = [file EXCEPT ![s] = @ \o buf[p][s]]
    BY <1>2, FlushedIs DEF SyncTo
  <1>9. Adds(s, buf[p][s])
    BY <1>7, <1>8 DEF Adds, Writes
  <1>10. Moved(file, synced, file', synced') /\ Longer /\ Numbered'
    BY <1>6, <1>7, <1>9, AddsMoves
  <1>11. /\ file'[s] = file[s] \o buf[p][s] /\ synced'[s] = Len(file'[s]) /\ file'[c] = <<>>
         /\ file'[s] \in Seq(Entry) /\ file'[s] # <<>> /\ file'[s][1] = file[s][1]
    <2>1. file \in [Sessions -> Seq(Line)] /\ synced \in [Sessions -> Nat]
      BY DEF Before, TypeOK
    <2>2. file'[s] = file[s] \o buf[p][s] /\ file'[c] = <<>>
      BY <1>2, <1>8, <2>1
    <2>3. synced'[s] = Len(file'[s])
      BY <1>2, <2>1, <2>2, FlushedIs DEF SyncTo
    <2>4. file'[s] \in Seq(Entry)
      BY <1>10 DEF Moved, Logs
    <2>5. Same(file, file', s)
      BY <1>7, <1>10, <2>4, LongerIds
    <2>6. QED
      BY <2>2, <2>3, <2>4, <2>5 DEF Same
  <1>12. Slot(p, s)'
    <2>1. buf[p][s] \o buf'[p][s] = buf[p][s] \o <<>>
      BY <1>5
    <2>2. pc[p][s] \in {"recovering", "open"} /\ pc'[p][s] \in {"recovering", "open"}
      BY <1>2, <1>5
    <2>3. buf[p][s] \in Seq(Entry) /\ Fresh(<<>>)
      BY <1>1, NothingIsFresh
    <2>4. QED
      BY <1>5, <1>6, <1>10, <1>11, <2>1, <2>2, <2>3, HotSlot, Zenon
  <1>13. Slot(p, c)'
    <2>1. Remembers(p, s)' /\ pc'[p][s] = "open"
      BY <1>2, <1>5, <1>12 DEF Slot
    <2>2. Ids(own[p][s]) \subseteq Ids(file'[s])
      <3>1. Ids(<<>>) = {}
        BY DEF Ids
      <3>2. QED
        BY <1>5, <2>1, <3>1 DEF Remembers, Hot
    <2>3. ~TooDeep(file', s) => Ids(inh[p][s]) \subseteq Ids(InheritedEntries(file', s))
      BY <1>5, <2>1 DEF Remembers
    <2>4. Rooted(file', synced', e)
      <3>1. file[s][1].id < nextId
        <4>1. file[s][1].id \in Ids(file[s])
          BY <1>7, FirstIs DEF Before, ChainInv
        <4>2. QED
          BY <4>1 DEF Before, ChainInv, Numbered
      <3>2. synced'[s] >= 1
        BY <1>11, NotEmptyIs
      <3>3. QED
        BY <1>1, <1>4, <1>11, <3>1, <3>2 DEF Rooted
    <2>5. Found(file', synced', e)
      <3>1. Prefix(file'[s], synced'[s]) = file'[s]
        BY <1>11, SubSeqFull DEF Prefix
      <3>2. QED
        BY <1>1, <1>4, <2>2, <2>3, <3>1 DEF Found
    <2>6. Making(p, c)'
      <3>1. Anchored(e)'
        BY <2>4, <2>5 DEF Anchored
      <3>2. ~TooDeep(file', s) => \A x \in Ids(u) :
              x <= at /\ x \in Ids(InheritedEntries(file', s)) \cup Ids(file'[s])
        BY <1>4, <2>2, <2>3
      <3>3. QED
        BY <1>1, <1>5, <1>11, <3>1, <3>2 DEF Making
    <2>7. e.id < nextId' /\ \A x \in Ids(u) : x < e.id
      BY <1>1, <1>4, <1>6
    <2>8. c \in Sessions
      OBVIOUS
    <2>9. QED
      BY <1>1, <1>4, <1>5, <1>11, <2>6, <2>7, <2>8, MakingSlot
  <1>14. ASSUME NEW q \in Procs, NEW t \in Sessions, q # p \/ (t # s /\ t # c) PROVE Slot(q, t)'
    <2>1. pc'[q][t] = pc[q][t] /\ own'[q][t] = own[q][t]
      BY <1>1, <1>2, <1>14 DEF Put
    <2>2. inh'[q][t] = inh[q][t]
      BY <1>1, <1>2, <1>14 DEF Put
    <2>3. buf'[q][t] = buf[q][t]
      BY <1>1, <1>2, <1>14
    <2>4. Slot(q, t)
      BY DEF Before, ChainInv
    <2>5. ASSUME pc[q][t] \in Hot PROVE file'[t] = file[t]
      <3>1. CASE t # s
        BY <1>8, <3>1 DEF Before, TypeOK
      <3>2. CASE t = s
        <4>1. lock[s] = p /\ lock[t] = q
          BY <1>2, <2>5, <3>2 DEF Before, LockedWhileOpen, Hot, Writer
        <4>2. QED
          BY <1>14, <3>2, <4>1
      <3>3. QED
        BY <3>1, <3>2
    <2>6. QED
      BY <1>6, <1>10, <2>1, <2>2, <2>3, <2>4, <2>5, SlotStays
  <1>15. Chains(file', synced')
    BY <1>10, ChainsStay
  <1>16. inh' \in [Procs -> [Sessions -> Seq(Entry)]]
    BY <1>1, <1>2, <1>4, PutType
  <1>17. QED
    BY <1>10, <1>12, <1>13, <1>14, <1>15, <1>16 DEF ChainInv

-----------------------------------------------------------------------------
(* Crashes, and the theorem.                                               *)

\* A process dies: what it had of its sessions is gone.
LEMMA CrashChain ==
    ASSUME Before, TypeOK', DurableGrows, NEW p \in Procs, Crash(p)
    PROVE  ChainInv'
  <1>1. /\ pc \in [Procs -> [Sessions -> States]] /\ own \in [Procs -> [Sessions -> Seq(Entry)]]
        /\ inh \in [Procs -> [Sessions -> Seq(Entry)]]
        /\ buf \in [Procs -> [Sessions -> Seq(Entry)]]
    BY DEF Before, TypeOK, ChainInv
  <1>2. nextId \in Nat /\ UNCHANGED <<file, synced, nextId>>
    BY DEF Before, TypeOK, Crash
  <1>3. /\ pc' = [pc EXCEPT ![p] = [s \in Sessions |-> "none"]]
        /\ own' = [own EXCEPT ![p] = [s \in Sessions |-> <<>>]]
        /\ inh' = [inh EXCEPT ![p] = [s \in Sessions |-> <<>>]]
        /\ buf' = [buf EXCEPT ![p] = [s \in Sessions |-> <<>>]]
    BY DEF Crash
  <1>4. nextId <= nextId'
    BY <1>2
  <1>5. PICK t \in Sessions : pc[p][t] # "none"
    BY DEF Crash
  <1>6. Adds(t, <<>>)
    BY <1>2, <1>4, AddsNothing
  <1>7. Moved(file, synced, file', synced') /\ Longer /\ Numbered'
    BY <1>4, <1>6, AddsMoves
  <1>8. ASSUME NEW q \in Procs, NEW s \in Sessions PROVE Slot(q, s)'
    <2>1. CASE q = p
      <3>1. pc'[q][s] = "none" /\ own'[q][s] = <<>>
        BY <1>1, <1>3, <2>1
      <3>2. inh'[q][s] = <<>> /\ buf'[q][s] = <<>> /\ <<>> \in Seq(Entry)
        BY <1>1, <1>3, <2>1
      <3>3. QED
        BY <1>4, <3>1, <3>2, IdleSlot
    <2>2. CASE q # p
      <3>1. pc'[q][s] = pc[q][s] /\ own'[q][s] = own[q][s]
        BY <1>1, <1>3, <2>2
      <3>2. inh'[q][s] = inh[q][s] /\ buf'[q][s] = buf[q][s]
        BY <1>1, <1>3, <2>2
      <3>3. Slot(q, s) /\ file'[s] = file[s]
        BY <1>2 DEF Before, ChainInv
      <3>4. QED
        BY <1>4, <1>7, <3>1, <3>2, <3>3, SlotStays
    <2>3. QED
      BY <2>1, <2>2
  <1>9. Chains(file', synced')
    BY <1>7, ChainsStay
  <1>10. inh' \in [Procs -> [Sessions -> Seq(Entry)]]
    <2>1. [s \in Sessions |-> <<>>] \in [Sessions -> Seq(Entry)]
      OBVIOUS
    <2>2. QED
      BY <1>1, <1>3, <2>1
  <1>11. QED
    BY <1>7, <1>8, <1>9, <1>10 DEF ChainInv

\* The machine loses power: every log keeps what was synced and perhaps more.
LEMMA PowerChain ==
    ASSUME Before, TypeOK', DurableGrows, PowerLoss
    PROVE  ChainInv'
  <1>1. PICK keep \in [Sessions -> 0..nextId] :
          /\ \A s \in Sessions : keep[s] \in synced[s]..Len(file[s])
          /\ file' = [s \in Sessions |-> Prefix(file[s], keep[s])]
          /\ synced' = keep
    BY DEF PowerLoss
  <1>2. /\ pc' = [p \in Procs |-> [s \in Sessions |-> "none"]]
        /\ own' = [p \in Procs |-> [s \in Sessions |-> <<>>]]
        /\ inh' = [p \in Procs |-> [s \in Sessions |-> <<>>]]
        /\ buf' = [p \in Procs |-> [s \in Sessions |-> <<>>]]
        /\ nextId' = nextId
    BY DEF PowerLoss
  <1>3. /\ Logs(file, synced) /\ Chains(file, synced) /\ Numbered /\ nextId \in Nat
        /\ nextId <= nextId'
    BY <1>2 DEF Before, TypeOK, ChainInv, Chains
  <1>4. ASSUME NEW s \in Sessions
        PROVE  /\ file'[s] = Prefix(file[s], keep[s]) /\ keep[s] \in 0..Len(file[s])
               /\ synced'[s] = keep[s] /\ synced[s] <= keep[s]
               /\ file[s] \in Seq(Entry) /\ Rising(file[s])
    <2>1. file[s] \in Seq(Entry) /\ Rising(file[s]) /\ synced[s] \in 0..Len(file[s])
      BY <1>3 DEF Logs
    <2>2. QED
      BY <1>1, <2>1
  <1>5. ASSUME NEW s \in Sessions
        PROVE  /\ file'[s] \in Seq(Entry) /\ Len(file'[s]) = keep[s]
               /\ \A i \in 1..keep[s] : file'[s][i] = file[s][i]
               /\ Ids(file'[s]) \subseteq Ids(file[s]) /\ Rising(file'[s])
    BY <1>4, PrefixIs
  <1>6. Logs(file', synced')
    <2>1. ASSUME NEW s \in Sessions
          PROVE  file'[s] \in Seq(Entry) /\ Rising(file'[s]) /\ synced'[s] \in 0..Len(file'[s])
      BY <1>4, <1>5
    <2>2. QED
      BY <2>1 DEF Logs
  <1>7. Kept(file, synced, file', synced')
    <2>1. \A s \in Sessions : synced[s] \in 0..Len(file[s]) /\ synced'[s] \in 0..Len(file'[s])
      BY <1>3, <1>6 DEF Logs
    <2>2. QED
      BY <2>1 DEF DurableGrows, Kept
  <1>8. ASSUME NEW s \in Sessions, Forked(file', s) PROVE Same(file, file', s)
    <2>1. file'[s] # <<>>
      BY <1>8 DEF Forked
    <2>2. Len(file'[s]) >= 1
      BY <1>5, <2>1, NotEmptyIs
    <2>3. keep[s] \in Nat /\ keep[s] >= 1 /\ keep[s] <= Len(file[s])
      BY <1>4, <1>5, <2>2
    <2>4. file'[s][1] = file[s][1] /\ file[s] # <<>>
      BY <1>4, <1>5, <2>3
    <2>5. QED
      BY <2>1, <2>4 DEF Same
  <1>9. Moved(file, synced, file', synced')
    BY <1>3, <1>6, <1>7, <1>8 DEF Moved
  <1>10. Chains(file', synced')
    BY <1>9, ChainsStay
  <1>11. Numbered'
    BY <1>2, <1>3, <1>5 DEF Numbered
  <1>12. ASSUME NEW q \in Procs, NEW s \in Sessions PROVE Slot(q, s)'
    <2>1. /\ pc'[q][s] = "none" /\ own'[q][s] = <<>> /\ inh'[q][s] = <<>> /\ buf'[q][s] = <<>>
          /\ <<>> \in Seq(Entry)
      BY <1>2
    <2>2. QED
      BY <1>3, <2>1, IdleSlot
  <1>13. inh' \in [Procs -> [Sessions -> Seq(Entry)]]
    BY <1>2
  <1>14. QED
    BY <1>10, <1>11, <1>12, <1>13 DEF ChainInv

\* Every step keeps the chains.
LEMMA ChainNext ==
    ASSUME Before, TypeOK', [Next]_vars
    PROVE  ChainInv'
  <1>0. TypeOK /\ SyncedInFile /\ ChainInv /\ DurableGrows
    BY DurableNext DEF Before
  <1>1. ASSUME NEW p \in Procs, NEW s \in Sessions, SessionStep(p, s) PROVE ChainInv'
    <2>1. CASE Open(p, s)
      BY <1>0, <2>1, OpenChain
    <2>2. ASSUME NEW c \in Sessions \ {s}, NEW at \in 1..MaxIds, Fork(p, s, c, at)
          PROVE  ChainInv'
      BY <1>0, <2>2, ForkChain
    <2>3. CASE CreateSync(p, s)
      BY <1>0, <2>3, CreateSyncChain
    <2>4. ASSUME NEW k \in Kinds, NEW u \in Uses \cup {None}, AppendPayload(p, s, k, u)
          PROVE  ChainInv'
      BY <1>0, <2>4, AppendChain
    <2>5. ASSUME NEW u \in Uses, RunTool(p, s, u) PROVE ChainInv'
      <3>1. UNCHANGED <<file, synced, pc, own, inh, buf, nextId>>
        BY <2>5 DEF RunTool, disk, mem
      <3>2. QED
        BY <1>0, <3>1, StillChain
    <2>6. CASE Sync(p, s)
      BY <1>0, <2>6, SyncChain DEF Sync
    <2>7. CASE Close(p, s) \/ CloseBroken(p, s)
      BY <1>0, <2>7, CloseChain
    <2>8. CASE Spill(p, s)
      BY <1>0, <2>8, SpillChain
    <2>9. CASE SyncFails(p, s)
      BY <1>0, <2>9, SyncFailsChain
    <2>10. ASSUME NEW u \in Uses, AppendAllowFails(p, s, u) PROVE ChainInv'
      BY <1>0, <2>10, AllowFailsChain
    <2>11. CASE LoadRead(p, s)
      BY <1>0, <2>11, LoadReadChain
    <2>12. CASE LoadLock(p, s)
      BY <1>0, <2>12, LoadLockChain
    <2>13. CASE LoadRefused(p, s)
      BY <1>0, <2>13, LoadRefusedChain
    <2>14. ASSUME NEW u \in Uses, RecoverUse(p, s, u) PROVE ChainInv'
      BY <1>0, <2>14, RecoverChain
    <2>15. CASE RecoverDone(p, s)
      BY <1>0, <2>15, RecoverDoneChain
    <2>16. QED
      BY <1>1, <2>1, <2>2, <2>3, <2>4, <2>5, <2>6, <2>7, <2>8, <2>9, <2>10, <2>11, <2>12, <2>13,
         <2>14, <2>15 DEF SessionStep, Kinds
  <1>2. ASSUME NEW p \in Procs, Crash(p) PROVE ChainInv'
    BY <1>0, <1>2, CrashChain
  <1>3. CASE PowerLoss
    BY <1>0, <1>3, PowerChain
  <1>4. CASE UNCHANGED vars
    <2>1. UNCHANGED <<file, synced, pc, own, inh, buf, nextId>>
      BY <1>4 DEF vars
    <2>2. QED
      BY <1>0, <2>1, StillChain
  <1>5. QED
    BY <1>1, <1>2, <1>3, <1>4 DEF Next

\* The empty store has no chains.
LEMMA ChainInit == Init => NoTail /\ ChainInv
  <1> SUFFICES ASSUME Init PROVE NoTail /\ ChainInv
    OBVIOUS
  <1>1. <<>> \in Seq(Entry) /\ Rising(<<>>) /\ Ids(<<>>) = {}
    BY DEF Rising, Ids
  <1>2. \A s \in Sessions : file[s] = <<>> /\ synced[s] = 0
    BY DEF Init
  <1>3. Chains(file, synced)
    <2>1. Logs(file, synced)
      <3>1. 0 \in 0..Len(<<>>)
        OBVIOUS
      <3>2. ASSUME NEW s \in Sessions
            PROVE  file[s] \in Seq(Entry) /\ Rising(file[s]) /\ synced[s] \in 0..Len(file[s])
        BY <1>1, <1>2, <3>1
      <3>3. QED
        BY <3>2 DEF Logs
    <2>2. \A s \in Sessions : ~Forked(file, s)
      BY <1>2 DEF Forked
    <2>3. QED
      BY <2>1, <2>2 DEF Chains
  <1>4. ASSUME NEW p \in Procs, NEW s \in Sessions PROVE Slot(p, s)
    <2>1. pc[p][s] = "none" /\ own[p][s] = <<>> /\ inh[p][s] = <<>> /\ buf[p][s] = <<>>
      BY DEF Init
    <2>2. Ordered(p, s)
      BY <1>1, <2>1 DEF Ordered, Hot
    <2>3. Remembers(p, s)
      BY <2>1 DEF Remembers, Hot
    <2>4. QED
      BY <2>2, <2>3 DEF Slot
  <1>5. inh \in [Procs -> [Sessions -> Seq(Entry)]] /\ NoTail
    BY <1>1 DEF Init, NoTail
  <1>6. Numbered
    BY <1>1, <1>2 DEF Numbered
  <1>7. QED
    BY <1>3, <1>4, <1>5, <1>6 DEF ChainInv

\* When lines reach the disk whole, a log that begins with a fork_point resolves to a chain that
\* ends at its fork entry, whatever fails and whoever crashes, up to the generations Load follows.
THEOREM ForksResolve ==
    ASSUME ~TornWrites
    PROVE  Spec => []ForkResolves
  <1>1. Init => NoTail /\ ChainInv
    BY ChainInit
  <1>2. /\ TypeOK /\ TypeOK' /\ SyncedInFile /\ LockedWhileOpen
        /\ NoTail /\ ChainInv /\ [Next]_vars
        => (NoTail /\ ChainInv)'
    <2> SUFFICES ASSUME TypeOK, TypeOK', SyncedInFile, LockedWhileOpen, NoTail, ChainInv,
                        [Next]_vars
                 PROVE  NoTail' /\ ChainInv'
      OBVIOUS
    <2>1. NoTail'
      BY TailNext
    <2>2. Before
      BY DEF Before
    <2>3. QED
      BY <2>1, <2>2, ChainNext
  <1>3. ChainInv => ForkResolves
    <2> SUFFICES ASSUME ChainInv, NEW s \in Sessions, Forked(file, s), ~TooDeep(file, s)
                 PROVE  /\ InheritedEntries(file, s) # <<>>
                        /\ InheritedEntries(file, s)[Len(InheritedEntries(file, s))].id =
                             file[s][1].at
      BY DEF ForkResolves, TooDeep
    <2>1. Sound(file, s)
      BY AllSound DEF ChainInv
    <2>2. QED
      BY <2>1 DEF Sound
  <1>4. QED
    BY <1>1, <1>2, <1>3, TypeCorrect, OneWriter, SyncedInvariant, PTL DEF Spec

-----------------------------------------------------------------------------
(* One decision and one result, when one process writes and no write fails. *)

\* A sequence with at most one entry of the kinds K about u, and one with at most one decision
\* and one result about every use.
OnlyOne(q, K, u) == \A i, j \in DOMAIN q :
    q[i].kind \in K /\ q[i].use = u /\ q[j].kind \in K /\ q[j].use = u => i = j
Once(q) == \A u \in Uses : OnlyOne(q, {"tool_result"}, u) /\ OnlyOne(q, {"allow", "deny"}, u)

\* Entries of q that are all in r, at the places m gives, are as few.
LEMMA OnlyOneOf ==
    ASSUME NEW q, NEW r, NEW K, NEW u, OnlyOne(r, K, u), NEW d \in Int,
           \A i \in DOMAIN q : i \in Int /\ i + d \in DOMAIN r /\ r[i + d] = q[i]
    PROVE  OnlyOne(q, K, u)
  <1> SUFFICES ASSUME NEW i \in DOMAIN q, NEW j \in DOMAIN q,
                      q[i].kind \in K, q[i].use = u, q[j].kind \in K, q[j].use = u
               PROVE  i = j
    BY DEF OnlyOne
  <1>1. i + d \in DOMAIN r /\ j + d \in DOMAIN r /\ r[i + d] = q[i] /\ r[j + d] = q[j]
    OBVIOUS
  <1>2. i + d = j + d
    BY <1>1 DEF OnlyOne
  <1>3. i \in Int /\ j \in Int
    OBVIOUS
  <1>4. QED
    BY <1>2, <1>3

\* The parts of a sequence in which everything is there once.
LEMMA OnceParts ==
    ASSUME NEW q \in Seq(Entry), NEW r \in Seq(Entry), Once(q \o r)
    PROVE  Once(q) /\ Once(r)
  <1>1. /\ \A i \in 1..Len(q) : (q \o r)[i] = q[i]
        /\ \A i \in 1..Len(r) : (q \o r)[Len(q) + i] = r[i]
        /\ DOMAIN q = 1..Len(q) /\ DOMAIN r = 1..Len(r)
        /\ DOMAIN (q \o r) = 1..(Len(q) + Len(r)) /\ Len(q) \in Nat /\ Len(r) \in Nat
    BY JoinIs
  <1> DEFINE a == q \o r
  <1>2. \A i \in DOMAIN q : i \in Int /\ i + 0 \in DOMAIN a /\ a[i + 0] = q[i]
    BY <1>1
  <1>3. ASSUME NEW i \in DOMAIN r
        PROVE  i \in Int /\ i + Len(q) \in DOMAIN a /\ a[i + Len(q)] = r[i]
    BY <1>1
  <1>4. Once(a)
    OBVIOUS
  <1> HIDE DEF a
  <1>5. ASSUME NEW u \in Uses, NEW K, OnlyOne(a, K, u) PROVE OnlyOne(q, K, u) /\ OnlyOne(r, K, u)
    <2>1. OnlyOne(q, K, u)
      BY <1>2, <1>5, OnlyOneOf
    <2>2. Len(q) \in Int
      BY <1>1
    <2>3. OnlyOne(r, K, u)
      BY <1>3, <1>5, <2>2, OnlyOneOf
    <2>4. QED
      BY <2>1, <2>3
  <1>6. QED
    BY <1>4, <1>5 DEF Once

\* A prefix of one.
LEMMA OncePrefix ==
    ASSUME NEW q \in Seq(Entry), Once(q), NEW n \in 0..Len(q)
    PROVE  Once(Prefix(q, n))
  <1>1. Prefix(q, n) \in Seq(Entry) /\ Prefix(q, n) \o SubSeq(q, n + 1, Len(q)) = q
    BY PartsAre
  <1>2. SubSeq(q, n + 1, Len(q)) \in Seq(Entry)
    OBVIOUS
  <1>3. QED
    BY <1>1, <1>2, OnceParts

\* The part of one up to an entry.
LEMMA OnceCut ==
    ASSUME NEW q \in Seq(Entry), Rising(q), Once(q), NEW e \in Ids(q)
    PROVE  Once(UpTo(q, e))
  <1>1. PICK i \in DOMAIN q : q[i].id = e
    BY DEF Ids
  <1>2. UpTo(q, e) = Prefix(q, i)
    BY <1>1, UpToIs
  <1>3. i \in 0..Len(q)
    OBVIOUS
  <1>4. Once(Prefix(q, i))
    BY ONLY <1>3, q \in Seq(Entry), Once(q), OncePrefix
  <1>5. QED
    BY <1>2, <1>4

\* A sequence and one entry more.
LEMMA WithOne ==
    ASSUME NEW q \in Seq(Entry), NEW e \in Entry
    PROVE  /\ DOMAIN (q \o <<e>>) = 1..(Len(q) + 1) /\ DOMAIN q = 1..Len(q) /\ Len(q) \in Nat
           /\ \A i \in 1..Len(q) : (q \o <<e>>)[i] = q[i]
           /\ (q \o <<e>>)[Len(q) + 1] = e
  OBVIOUS

\* Two entries.
LEMMA TwoAre ==
    ASSUME NEW d \in Entry, NEW e \in Entry
    PROVE  /\ <<d>> \o <<e>> = <<d, e>> /\ <<d>> \in Seq(Entry) /\ <<e>> \in Seq(Entry)
           /\ <<d, e>> \in Seq(Entry)
  <1>1. <<d>> \in Seq(Entry) /\ <<e>> \in Seq(Entry) /\ <<d, e>> \in Seq(Entry)
    OBVIOUS
  <1>2. <<d>> \o <<e>> = <<d, e>>
    <2>1. /\ Len(<<d>>) = 1 /\ <<d>>[1] = d /\ Len(<<d, e>>) = 2
          /\ <<d, e>>[1] = d /\ <<d, e>>[2] = e
      OBVIOUS
    <2>2. (<<d>> \o <<e>>)[1] = d /\ (<<d>> \o <<e>>)[2] = e
      BY <1>1, <2>1, WithOne
    <2>3. <<d>> \o <<e>> \in Seq(Entry) /\ Len(<<d>> \o <<e>>) = 2
      BY <1>1, <2>1, JoinIs
    <2>4. \A i \in 1..2 : (<<d>> \o <<e>>)[i] = <<d, e>>[i]
      <3>1. \A i \in 1..2 : i = 1 \/ i = 2
        OBVIOUS
      <3>2. QED
        BY <2>1, <2>2, <3>1, Zenon
    <2>5. QED
      BY <1>1, <2>1, <2>3, <2>4, SeqEqual
  <1>3. QED
    BY <1>1, <1>2

\* One entry more, of which there was none.
LEMMA OneMore ==
    ASSUME NEW q \in Seq(Entry), NEW e \in Entry, NEW K, NEW u, OnlyOne(q, K, u),
           e.kind \in K /\ e.use = u => \A i \in DOMAIN q : ~(q[i].kind \in K /\ q[i].use = u)
    PROVE  OnlyOne(q \o <<e>>, K, u)
  <1> DEFINE a == q \o <<e>>
  <1>1. /\ \A i \in 1..Len(q) : a[i] = q[i]
        /\ a[Len(q) + 1] = e /\ DOMAIN q = 1..Len(q) /\ DOMAIN a = 1..(Len(q) + 1)
        /\ Len(q) \in Nat
    BY WithOne
  <1> HIDE DEF a
  <1> SUFFICES ASSUME NEW i \in DOMAIN a, NEW j \in DOMAIN a,
                      a[i].kind \in K, a[i].use = u, a[j].kind \in K, a[j].use = u
               PROVE  i = j
    BY DEF OnlyOne, a
  <1>2. CASE i \in 1..Len(q) /\ j \in 1..Len(q)
    BY <1>1, <1>2 DEF OnlyOne
  <1>3. ASSUME NEW k \in DOMAIN a, k \notin 1..Len(q) PROVE k = Len(q) + 1
    BY <1>1, <1>3
  <1>4. CASE i \notin 1..Len(q) /\ j \in 1..Len(q)
    BY <1>1, <1>3, <1>4
  <1>5. CASE i \in 1..Len(q) /\ j \notin 1..Len(q)
    BY <1>1, <1>3, <1>5
  <1>6. CASE i \notin 1..Len(q) /\ j \notin 1..Len(q)
    BY <1>3, <1>6
  <1>7. QED
    BY <1>2, <1>4, <1>5, <1>6

\* What the rules of Append let in.
LEMMA OnceMore ==
    ASSUME NEW q \in Seq(Entry), Once(q), NEW e \in Entry,
           e.kind = "tool_result" => ~HasResult(q, e.use),
           e.kind \in {"allow", "deny"} => ~HasDecision(q, e.use)
    PROVE  Once(q \o <<e>>)
  <1>1. ASSUME NEW u \in Uses PROVE OnlyOne(q \o <<e>>, {"tool_result"}, u)
    <2>1. e.kind \in {"tool_result"} /\ e.use = u =>
            \A i \in DOMAIN q : ~(q[i].kind \in {"tool_result"} /\ q[i].use = u)
      BY DEF HasResult
    <2>2. OnlyOne(q, {"tool_result"}, u)
      BY DEF Once
    <2>3. QED
      BY <2>1, <2>2, OneMore
  <1>2. ASSUME NEW u \in Uses PROVE OnlyOne(q \o <<e>>, {"allow", "deny"}, u)
    <2>1. e.kind \in {"allow", "deny"} /\ e.use = u =>
            \A i \in DOMAIN q : ~(q[i].kind \in {"allow", "deny"} /\ q[i].use = u)
      BY DEF HasDecision
    <2>2. OnlyOne(q, {"allow", "deny"}, u)
      BY DEF Once
    <2>3. QED
      BY <2>1, <2>2, OneMore
  <1>3. QED
    BY <1>1, <1>2 DEF Once

\* Nothing holds nothing twice.
LEMMA OnceNothing == Once(<<>>)
  BY DEF Once, OnlyOne

-----------------------------------------------------------------------------
(* The inductive invariant.                                                *)

Reads == {"read", "recovering", "open"}

\* What a process remembers of a session holds everything once, and is what a reload would read;
\* a fork that is being created inherits what its parent's log will resolve to.
Agrees(p, s) ==
    /\ pc[p][s] \in Reads \cup {"creating"} => Once(Entries(p, s))
    /\ pc[p][s] \in Reads =>
         /\ own[p][s] = file[s] \o buf[p][s]
         /\ TooDeep(file, s) \/ inh[p][s] = InheritedEntries(file, s)
    /\ pc[p][s] \in {"read", "recovering"} => ~TooDeep(file, s)
    /\ pc[p][s] = "creating" /\ own[p][s][1].kind = "fork_point" =>
         LET up == own[p][s][1].parent
         IN  \/ TooDeep(file, up)
             \/ inh[p][s] = UpTo(InheritedEntries(file, up) \o file[up], own[p][s][1].at)

LogsOnce == \A s \in Sessions : Once(InheritedEntries(file, s) \o file[s])

OnceInv == LogsOnce /\ \A p \in Procs, s \in Sessions : Agrees(p, s)

\* One process.
Lone == \A p, q \in Procs : p = q

\* What a step starts from and ends in, whatever it does.
Going == Lone /\ Before /\ OnceInv /\ TypeOK' /\ ChainInv' /\ DurableGrows

\* A buffered fork_point cuts its parent's chain where it did.
LEMMA AnchorCut ==
    ASSUME NEW f, NEW n, NEW g, NEW m, Moved(f, n, g, m), NEW e, Rooted(f, n, e), Found(f, n, e),
           ~TooDeep(f, e.parent)
    PROVE  UpTo(InheritedEntries(g, e.parent) \o g[e.parent], e.at) =
             UpTo(InheritedEntries(f, e.parent) \o f[e.parent], e.at)
  <1>0. PICK up : up = e.parent
    OBVIOUS
  <1>1. up \in Sessions /\ Same(f, g, up) /\ Chains(f, n)
    BY <1>0, ParentSame DEF Moved
  <1> DEFINE h == InheritedEntries(f, up)
             q == f[up]
             r == g[up]
             l == n[up]
  <1>2. InheritedEntries(g, up) = h
    BY <1>1, HomeStays
  <1>3. h \in Seq(Entry) /\ Rising(h \o q)
    BY <1>1, AllSound DEF Sound
  <1>4. q \in Seq(Entry) /\ r \in Seq(Entry) /\ Rising(r) /\ l \in 0..Len(q)
    BY <1>1 DEF Moved, Chains, Logs
  <1>5. l <= Len(r) /\ \A i \in 1..l : r[i] = q[i]
    BY <1>1 DEF Moved, Kept
  <1>6. q # <<>> /\ r # <<>> /\ r[1] = q[1]
    BY <1>1 DEF Same
  <1>7. e.at \in Ids(h) \cup Ids(Prefix(q, l))
    BY <1>0 DEF Found
  <1>8. l \in Nat /\ l <= Len(q)
    BY <1>4
  <1> HIDE DEF h, q, r, l
  <1>9. UpTo(h \o r, e.at) = UpTo(h \o q, e.at)
    BY ONLY <1>3, <1>4, <1>5, <1>6, <1>7, <1>8, CutStays
  <1>10. QED
    BY <1>0, <1>2, <1>9 DEF h, q, r

\* What a log that does not change inherits.
LEMMA HomeOfSame ==
    ASSUME NEW f, NEW n, NEW g, NEW m, Moved(f, n, g, m), NEW s \in Sessions, g[s] = f[s]
    PROVE  InheritedEntries(g, s) = InheritedEntries(f, s)
  <1>1. CASE f[s] = <<>>
    <2>1. Named(f) /\ Named(g)
      BY MovedNamed, ChainsNamed DEF Moved
    <2>2. ~Forked(f, s) /\ ~Forked(g, s)
      BY <1>1 DEF Forked
    <2>3. QED
      BY <2>1, <2>2, HomeIs
  <1>2. CASE f[s] # <<>>
    <2>1. Same(f, g, s)
      BY <1>2 DEF Same
    <2>2. QED
      BY <2>1, HomeStays
  <1>3. QED
    BY <1>1, <1>2

\* A log holds everything once when a process that remembers more of it does.
LEMMA ShownOnce ==
    ASSUME NEW f, NEW n, Chains(f, n), NEW s \in Sessions, NEW h \in Seq(Entry),
           NEW b \in Seq(Entry), TooDeep(f, s) \/ h = InheritedEntries(f, s),
           Once(h \o (f[s] \o b))
    PROVE  Once(InheritedEntries(f, s) \o f[s])
  <1>1. f[s] \in Seq(Entry) /\ Named(f)
    BY ChainsNamed DEF Chains, Logs
  <1>2. h \o (f[s] \o b) = (h \o f[s]) \o b
    <2>1. h \in Seq(Entry) /\ f[s] \in Seq(Entry) /\ b \in Seq(Entry)
      BY <1>1
    <2>2. QED
      BY ONLY <2>1, JoinAssoc, ZenonT(60)
  <1>3. h \o f[s] \in Seq(Entry)
    BY <1>1, JoinIs
  <1>4. Once(h \o f[s])
    BY <1>2, <1>3, OnceParts
  <1>5. CASE h = InheritedEntries(f, s)
    BY <1>4, <1>5
  <1>6. CASE TooDeep(f, s)
    <2>1. InheritedEntries(f, s) = <<>>
      BY <1>1, <1>6, HomeIs
    <2>2. Once(f[s])
      BY <1>1, <1>4, OnceParts
    <2>3. QED
      BY <1>1, <2>1, <2>2, EmptyIs
  <1>7. QED
    BY <1>5, <1>6

\* The logs move as the chains need, when no log begins that was not anchored.
LEMMA GoingMoves ==
    ASSUME Going,
           \A t \in Sessions : Forked(file', t) =>
             \/ Same(file, file', t)
             \/ Rooted(file, synced, file'[t][1]) /\ Found(file, synced, file'[t][1])
    PROVE  Moved(file, synced, file', synced')
  <1>1. Chains(file, synced) /\ Logs(file, synced) /\ Logs(file', synced')
    BY DEF Going, Before, ChainInv, Chains
  <1>2. Kept(file, synced, file', synced')
    <2>1. \A t \in Sessions : synced[t] \in 0..Len(file[t]) /\ synced'[t] \in 0..Len(file'[t])
      BY <1>1 DEF Logs
    <2>2. QED
      BY <2>1 DEF Going, DurableGrows, Kept
  <1>3. QED
    BY <1>1, <1>2 DEF Moved

\* What a process remembers of a log the step leaves alone.
LEMMA AgreesStays ==
    ASSUME Going, Moved(file, synced, file', synced'), NEW p \in Procs, NEW s \in Sessions,
           file'[s] = file[s],
           pc'[p][s] = pc[p][s], own'[p][s] = own[p][s], inh'[p][s] = inh[p][s],
           buf'[p][s] = buf[p][s]
    PROVE  Agrees(p, s)'
  <1>1. Agrees(p, s) /\ Remembers(p, s)
    BY DEF Going, OnceInv, Before, ChainInv, Slot
  <1>2. ASSUME pc[p][s] \in Reads
        PROVE  /\ TooDeep(file', s) => TooDeep(file, s)
               /\ TooDeep(file, s) => TooDeep(file', s)
               /\ InheritedEntries(file', s) = InheritedEntries(file, s)
    <2>1. Same(file, file', s)
      BY <1>1, <1>2 DEF Remembers, Reads, Same
    <2>2. QED
      BY <2>1, DepthStays, HomeStays
  <1>3. ASSUME pc[p][s] = "creating", own[p][s][1].kind = "fork_point"
        PROVE  LET up == own[p][s][1].parent
               IN  \/ TooDeep(file', up)
                   \/ inh[p][s] = UpTo(InheritedEntries(file', up) \o file'[up], own[p][s][1].at)
    <2>1. PICK e \in Entry : own[p][s] = <<e>> /\ Anchored(e)
      BY <1>1, <1>3 DEF Remembers, Making
    <2>2. own[p][s][1] = e
      BY <2>1
    <2>3. Rooted(file, synced, e) /\ Found(file, synced, e)
      BY <1>3, <2>1, <2>2 DEF Anchored
    <2>4. Same(file, file', e.parent) /\ e.parent \in Sessions
      BY <2>3, ParentSame
    <2>5. TooDeep(file, e.parent) => TooDeep(file', e.parent)
      BY <2>4, DepthStays
    <2>6. CASE TooDeep(file, e.parent)
      BY <2>2, <2>5, <2>6
    <2>7. CASE ~TooDeep(file, e.parent)
      <3>1. inh[p][s] = UpTo(InheritedEntries(file, e.parent) \o file[e.parent], e.at)
        BY <1>1, <1>3, <2>2, <2>7 DEF Agrees
      <3>2. UpTo(InheritedEntries(file', e.parent) \o file'[e.parent], e.at) =
              UpTo(InheritedEntries(file, e.parent) \o file[e.parent], e.at)
        BY <2>3, <2>7, AnchorCut
      <3>3. QED
        BY <2>2, <3>1, <3>2
    <2>8. QED
      BY <2>6, <2>7
  <1>4. Entries(p, s)' = Entries(p, s)
    BY DEF Entries
  <1>5. pc[p][s] \in Reads \cup {"creating"} => Once(Entries(p, s))'
    BY <1>1, <1>4 DEF Agrees
  <1>6. pc[p][s] \in Reads =>
          /\ own[p][s] = file'[s] \o buf[p][s]
          /\ TooDeep(file', s) \/ inh[p][s] = InheritedEntries(file', s)
    BY <1>1, <1>2 DEF Agrees
  <1>7. pc[p][s] \in {"read", "recovering"} => ~TooDeep(file', s)
    BY <1>1, <1>2 DEF Agrees, Reads
  <1>8. QED
    BY <1>3, <1>5, <1>6, <1>7 DEF Agrees

\* With one slot changed, that slot and its log are all there is to show.
LEMMA OnceStep ==
    ASSUME Going, Moved(file, synced, file', synced'), NEW p \in Procs, NEW s \in Sessions,
           OthersKeep(p, s), \A t \in Sessions : t # s => file'[t] = file[t],
           Agrees(p, s)', Once(InheritedEntries(file', s) \o file'[s])
    PROVE  OnceInv'
  <1>1. ASSUME NEW q \in Procs, NEW t \in Sessions PROVE Agrees(q, t)'
    <2>1. q = p
      BY DEF Going, Lone
    <2>2. CASE t = s
      BY <2>1, <2>2
    <2>3. CASE t # s
      <3>1. /\ pc'[q][t] = pc[q][t] /\ own'[q][t] = own[q][t]
            /\ inh'[q][t] = inh[q][t] /\ buf'[q][t] = buf[q][t]
        BY <2>3 DEF OthersKeep
      <3>2. file'[t] = file[t]
        BY <2>3
      <3>3. QED
        BY <3>1, <3>2, AgreesStays
    <2>4. QED
      BY <2>2, <2>3
  <1>2. ASSUME NEW t \in Sessions PROVE Once(InheritedEntries(file', t) \o file'[t])
    <2>1. CASE t = s
      BY <2>1
    <2>2. CASE t # s
      <3>1. file'[t] = file[t]
        BY <2>2
      <3>2. InheritedEntries(file', t) = InheritedEntries(file, t)
        BY <3>1, HomeOfSame
      <3>3. Once(InheritedEntries(file, t) \o file[t])
        BY DEF Going, OnceInv, LogsOnce
      <3>4. QED
        BY <3>1, <3>2, <3>3
    <2>3. QED
      BY <2>1, <2>2
  <1>3. LogsOnce'
    BY <1>2 DEF LogsOnce
  <1>4. QED
    BY <1>1, <1>3 DEF OnceInv

\* A log that is there grows, or nothing does.
LEMMA GrowsMoves ==
    ASSUME Going, NEW s \in Sessions, NEW w \in Seq(Entry), file' = [file EXCEPT ![s] = @ \o w],
           file[s] # <<>> \/ w = <<>>
    PROVE  /\ Moved(file, synced, file', synced')
           /\ file'[s] = file[s] \o w /\ \A t \in Sessions : t # s => file'[t] = file[t]
           /\ file[s] # <<>> => Same(file, file', s)
  <1>1. file \in [Sessions -> Seq(Line)] /\ file[s] \in Seq(Entry)
    BY DEF Going, Before, TypeOK, ChainInv, Chains, Logs
  <1>2. file'[s] = file[s] \o w /\ \A t \in Sessions : t # s => file'[t] = file[t]
    BY <1>1
  <1>3. file[s] # <<>> => Same(file, file', s)
    <2> SUFFICES ASSUME file[s] # <<>> PROVE Same(file, file', s)
      OBVIOUS
    <2>1. 1 \in 1..Len(file[s])
      BY <1>1
    <2>2. (file[s] \o w)[1] = file[s][1] /\ file[s] \o w # <<>>
      BY <1>1, <2>1
    <2>3. QED
      BY <1>2, <2>2 DEF Same
  <1>4. ASSUME NEW t \in Sessions, Forked(file', t) PROVE Same(file, file', t)
    <2>1. CASE t # s
      BY <1>2, <1>4, <2>1 DEF Forked, Same
    <2>2. CASE t = s /\ file[s] # <<>>
      BY <1>3, <2>2
    <2>3. CASE t = s /\ file[s] = <<>>
      <3>1. file'[s] = <<>>
        BY <1>2, <2>3
      <3>2. QED
        BY <1>4, <2>3, <3>1 DEF Forked
    <2>4. QED
      BY <2>1, <2>2, <2>3
  <1>5. Moved(file, synced, file', synced')
    BY <1>4, GoingMoves
  <1>6. QED
    BY <1>2, <1>3, <1>5

\* A step that writes nothing moves nothing.
LEMMA StillMoves ==
    ASSUME Going, file' = file
    PROVE  Moved(file, synced, file', synced')
  <1>1. \A t \in Sessions : Forked(file', t) => Same(file, file', t)
    BY DEF Forked, Same
  <1>2. QED
    BY <1>1, GoingMoves

\* A step that writes nothing and changes one slot.
LEMMA QuietOnce ==
    ASSUME Going, NEW p \in Procs, NEW s \in Sessions, Touches(p, s), file' = file, Agrees(p, s)'
    PROVE  OnceInv'
  <1>1. Moved(file, synced, file', synced')
    BY StillMoves
  <1>2. OthersKeep(p, s)
    BY TouchesOne DEF Going
  <1>3. Once(InheritedEntries(file', s) \o file'[s])
    BY DEF Going, OnceInv, LogsOnce
  <1>4. QED
    BY <1>1, <1>2, <1>3, OnceStep

\* A step of a process that goes on writing: it flushes w and makes r.
LEMMA GoesOnce ==
    ASSUME Going, NEW p \in Procs, NEW s \in Sessions, Touches(p, s),
           NEW w \in Seq(Entry), NEW r \in Seq(Entry),
           pc[p][s] \in {"recovering", "open"}, pc'[p][s] \in {"recovering", "open"},
           pc'[p][s] = "recovering" => pc[p][s] = "recovering",
           file' = [file EXCEPT ![s] = Flushed(s, w)] \/ (w = <<>> /\ file' = file),
           w \o buf'[p][s] = buf[p][s] \o r,
           own'[p][s] = own[p][s] \o r, inh'[p][s] = inh[p][s],
           Once(inh[p][s] \o (own[p][s] \o r))
    PROVE  OnceInv'
  <1>1. /\ file[s] \in Seq(Entry) /\ buf[p][s] \in Seq(Entry) /\ buf'[p][s] \in Seq(Entry)
        /\ own[p][s] \in Seq(Entry) /\ inh[p][s] \in Seq(Entry) /\ Chains(file', synced')
        /\ file \in [Sessions -> Seq(Line)]
    BY DEF Going, Before, TypeOK, ChainInv, Chains, Logs
  <1>2. Agrees(p, s) /\ Remembers(p, s)
    BY DEF Going, OnceInv, Before, ChainInv, Slot
  <1>3. file[s] # <<>>
    BY <1>2 DEF Remembers
  <1>4. file' = [file EXCEPT ![s] = @ \o w]
    <2>1. CASE file' = [file EXCEPT ![s] = Flushed(s, w)]
      BY <2>1, FlushedIs DEF Going
    <2>2. CASE w = <<>> /\ file' = file
      BY <1>1, <2>2, EndsAtOnce
    <2>3. QED
      BY <2>1, <2>2
  <1>5. /\ Moved(file, synced, file', synced') /\ Same(file, file', s)
        /\ file'[s] = file[s] \o w /\ \A t \in Sessions : t # s => file'[t] = file[t]
    BY <1>3, <1>4, GrowsMoves
  <1>6. InheritedEntries(file', s) = InheritedEntries(file, s)
    BY <1>5, HomeStays
  <1>7. (TooDeep(file, s) => TooDeep(file', s)) /\ (TooDeep(file', s) => TooDeep(file, s))
    BY <1>5, DepthStays
  <1>8. own'[p][s] = file'[s] \o buf'[p][s]
    <2>1. own[p][s] = file[s] \o buf[p][s]
      BY <1>2 DEF Agrees, Reads
    <2>2. /\ file[s] \in Seq(Entry) /\ buf[p][s] \in Seq(Entry) /\ r \in Seq(Entry)
          /\ w \in Seq(Entry) /\ buf'[p][s] \in Seq(Entry)
      BY <1>1
    <2>3. (file[s] \o buf[p][s]) \o r = file[s] \o (buf[p][s] \o r)
      BY ONLY <2>2, JoinAssoc, ZenonT(60)
    <2>4. (file[s] \o w) \o buf'[p][s] = file[s] \o (w \o buf'[p][s])
      BY ONLY <2>2, JoinAssoc, ZenonT(60)
    <2>5. QED
      BY <1>5, <2>1, <2>3, <2>4
  <1>9. TooDeep(file', s) \/ inh[p][s] = InheritedEntries(file', s)
    BY <1>2, <1>6, <1>7 DEF Agrees, Reads
  <1>10. Once(inh[p][s] \o own'[p][s])
    OBVIOUS
  <1>11. Agrees(p, s)'
    <2>1. Once(Entries(p, s))'
      BY <1>10 DEF Entries
    <2>2. pc'[p][s] \in {"read", "recovering"} => ~TooDeep(file', s)
      BY <1>2, <1>7 DEF Agrees
    <2>3. pc'[p][s] # "creating"
      OBVIOUS
    <2>4. QED
      BY <1>8, <1>9, <2>1, <2>2, <2>3 DEF Agrees
  <1>12. Once(InheritedEntries(file', s) \o file'[s])
    BY <1>1, <1>8, <1>9, <1>10, ShownOnce
  <1>13. OthersKeep(p, s)
    BY TouchesOne DEF Going
  <1>14. QED
    BY <1>5, <1>11, <1>12, <1>13, OnceStep

\* A step with which a process is done with a log.
LEMMA EndsOnce ==
    ASSUME Going, NEW p \in Procs, NEW s \in Sessions, Touches(p, s), pc'[p][s] = "none",
           file' = file \/ (pc[p][s] = "open" /\ SyncTo(s, buf[p][s]))
    PROVE  OnceInv'
  <1>1. Agrees(p, s)'
    BY DEF Agrees, Reads
  <1>2. CASE file' = file
    BY <1>1, <1>2, QuietOnce
  <1>3. CASE pc[p][s] = "open" /\ SyncTo(s, buf[p][s])
    <2>1. /\ file[s] \in Seq(Entry) /\ buf[p][s] \in Seq(Entry) /\ own[p][s] \in Seq(Entry)
          /\ inh[p][s] \in Seq(Entry) /\ Chains(file', synced') /\ <<>> \in Seq(Entry)
      BY DEF Going, Before, TypeOK, ChainInv, Chains, Logs
    <2>2. /\ own[p][s] = file[s] \o buf[p][s] /\ file[s] # <<>>
          /\ TooDeep(file, s) \/ inh[p][s] = InheritedEntries(file, s)
          /\ Once(inh[p][s] \o own[p][s])
      <3>1. Agrees(p, s) /\ Remembers(p, s)
        BY DEF Going, OnceInv, Before, ChainInv, Slot
      <3>2. QED
        BY <1>3, <3>1 DEF Agrees, Remembers, Reads, Entries
    <2>3. file' = [file EXCEPT ![s] = @ \o buf[p][s]]
      BY <1>3, FlushedIs DEF Going, SyncTo
    <2>4. /\ Moved(file, synced, file', synced') /\ Same(file, file', s)
          /\ file'[s] = own[p][s] /\ \A t \in Sessions : t # s => file'[t] = file[t]
      BY <2>1, <2>2, <2>3, GrowsMoves
    <2>5. TooDeep(file', s) \/ inh[p][s] = InheritedEntries(file', s)
      BY <2>2, <2>4, DepthStays, HomeStays
    <2>6. file'[s] \o <<>> = own[p][s]
      BY <2>1, <2>4, EndsAtOnce
    <2>7. Once(InheritedEntries(file', s) \o file'[s])
      BY <2>1, <2>2, <2>5, <2>6, ShownOnce
    <2>8. OthersKeep(p, s)
      BY TouchesOne DEF Going
    <2>9. QED
      BY <1>1, <2>4, <2>7, <2>8, OnceStep
  <1>4. QED
    BY <1>2, <1>3

-----------------------------------------------------------------------------
(* The operations, one by one.                                             *)

\* Append lets in a decision of a use that has none, and a result of one that has none.
LEMMA AppendOnce ==
    ASSUME Going, NEW p \in Procs, NEW s \in Sessions,
           NEW k \in Kinds, NEW u \in Uses \cup {None}, AppendPayload(p, s, k, u)
    PROVE  OnceInv'
  <1> DEFINE e == NewEntry(nextId, k, u)
  <1>1. /\ e \in Entry /\ e.kind = k /\ e.use = u
        /\ buf[p][s] \in Seq(Entry) /\ own[p][s] \in Seq(Entry) /\ inh[p][s] \in Seq(Entry)
        /\ buf \in [Procs -> [Sessions -> Seq(Entry)]]
        /\ own \in [Procs -> [Sessions -> Seq(Entry)]]
    <2>1. nextId \in Nat
      BY DEF Going, Before, TypeOK
    <2>2. e \in Entry /\ e.kind = k /\ e.use = u
      BY <2>1 DEF NewEntry, Entry
    <2>3. /\ buf \in [Procs -> [Sessions -> Seq(Entry)]]
          /\ own \in [Procs -> [Sessions -> Seq(Entry)]]
          /\ inh \in [Procs -> [Sessions -> Seq(Entry)]]
      BY DEF Going, Before, TypeOK, ChainInv
    <2>4. QED
      BY <2>2, <2>3
  <1> DEFINE q == Append(buf[p][s], e)
  <1>2. /\ pc[p][s] = "open" /\ pc' = pc /\ inh' = inh
        /\ own' = Put(own, p, s, Append(own[p][s], e))
        /\ \/ SyncTo(s, q) /\ buf' = Put(buf, p, s, <<>>)
           \/ file' = file /\ buf' = Put(buf, p, s, q)
        /\ AppendRule(p, s, k, u)
    BY DEF AppendPayload, disk
  <1>3. /\ e.kind = "tool_result" => ~HasResult(Entries(p, s), e.use)
        /\ e.kind \in {"allow", "deny"} => ~HasDecision(Entries(p, s), e.use)
    BY <1>1, <1>2 DEF AppendRule, PendingToolUsesIn
  <1> HIDE DEF e
  <1>4. /\ Append(own[p][s], e) = own[p][s] \o <<e>> /\ q = buf[p][s] \o <<e>>
        /\ <<e>> \in Seq(Entry) /\ q \in Seq(Entry)
    BY <1>1, AppendIs
  <1> HIDE DEF q
  <1>5. Touches(p, s)
    BY <1>2 DEF Touches
  <1>6. own'[p][s] = own[p][s] \o <<e>>
    BY <1>1, <1>2, <1>4 DEF Put
  <1>7. Once(inh[p][s] \o (own[p][s] \o <<e>>))
    <2>1. Once(Entries(p, s))
      BY <1>2 DEF Going, OnceInv, Agrees, Reads
    <2>2. Entries(p, s) \in Seq(Entry)
      BY <1>1, JoinIs DEF Entries
    <2>3. Once(Entries(p, s) \o <<e>>)
      BY <1>1, <1>3, <2>1, <2>2, OnceMore
    <2>4. inh[p][s] \in Seq(Entry) /\ own[p][s] \in Seq(Entry) /\ <<e>> \in Seq(Entry)
      BY <1>1, <1>4
    <2>5. (inh[p][s] \o own[p][s]) \o <<e>> = inh[p][s] \o (own[p][s] \o <<e>>)
      BY ONLY <2>4, JoinAssoc, ZenonT(60)
    <2>6. QED
      BY <2>3, <2>5 DEF Entries
  <1>8. CASE SyncTo(s, q) /\ buf' = Put(buf, p, s, <<>>)
    <2>1. buf'[p][s] = <<>>
      BY <1>1, <1>8 DEF Put
    <2>2. q \o buf'[p][s] = buf[p][s] \o <<e>>
      BY <1>4, <2>1, EndsAtOnce
    <2>3. file' = [file EXCEPT ![s] = Flushed(s, q)]
      BY <1>8 DEF SyncTo
    <2>4. QED
      BY <1>2, <1>4, <1>5, <1>6, <1>7, <2>2, <2>3, GoesOnce
  <1>9. CASE file' = file /\ buf' = Put(buf, p, s, q)
    <2>1. buf'[p][s] = q
      BY <1>1, <1>9 DEF Put
    <2>2. <<>> \o buf'[p][s] = buf[p][s] \o <<e>> /\ <<>> \in Seq(Entry)
      BY <1>4, <2>1, EmptyIs
    <2>3. QED
      BY <1>2, <1>4, <1>5, <1>6, <1>7, <1>9, <2>2, GoesOnce
  <1>10. QED
    BY <1>2, <1>8, <1>9

\* A step that makes nothing, of a process that goes on writing.
LEMMA NothingMade ==
    ASSUME Going, NEW p \in Procs, NEW s \in Sessions, Touches(p, s), NEW w \in Seq(Entry),
           pc[p][s] \in {"recovering", "open"}, pc'[p][s] \in {"recovering", "open"},
           pc'[p][s] = "recovering" => pc[p][s] = "recovering",
           file' = [file EXCEPT ![s] = Flushed(s, w)] \/ (w = <<>> /\ file' = file),
           w \o buf'[p][s] = buf[p][s], own' = own, inh' = inh
    PROVE  OnceInv'
  <1>1. buf[p][s] \in Seq(Entry) /\ own[p][s] \in Seq(Entry)
    BY DEF Going, Before, TypeOK
  <1>2. buf[p][s] \o <<>> = buf[p][s] /\ own[p][s] \o <<>> = own[p][s] /\ <<>> \in Seq(Entry)
    BY <1>1, EndsAtOnce
  <1>3. Once(inh[p][s] \o own[p][s])
    BY DEF Going, OnceInv, Agrees, Reads, Entries
  <1>4. w \o buf'[p][s] = buf[p][s] \o <<>> /\ own'[p][s] = own[p][s] \o <<>>
    BY <1>2
  <1>5. Once(inh[p][s] \o (own[p][s] \o <<>>)) /\ inh'[p][s] = inh[p][s]
    BY <1>2, <1>3
  <1>6. QED
    BY <1>2, <1>4, <1>5, GoesOnce

\* Sync writes the buffer.
LEMMA SyncOnce ==
    ASSUME Going, NEW p \in Procs, NEW s \in Sessions,
           pc[p][s] \in {"recovering", "open"}, pc'[p][s] = "open",
           SyncTo(s, buf[p][s]), buf' = Put(buf, p, s, <<>>),
           pc' = pc \/ \E v : pc' = Put(pc, p, s, v), own' = own, inh' = inh
    PROVE  OnceInv'
  <1>1. buf[p][s] \in Seq(Entry) /\ buf \in [Procs -> [Sessions -> Seq(Entry)]]
    BY DEF Going, Before, TypeOK
  <1>2. buf'[p][s] = <<>>
    BY <1>1 DEF Put
  <1>3. buf[p][s] \o buf'[p][s] = buf[p][s]
    BY <1>1, <1>2, EndsAtOnce
  <1>4. Touches(p, s)
    BY DEF Touches
  <1>5. file' = [file EXCEPT ![s] = Flushed(s, buf[p][s])]
    BY DEF SyncTo
  <1>6. QED
    BY <1>1, <1>3, <1>4, <1>5, NothingMade

\* A spill writes some of it.
LEMMA SpillOnce ==
    ASSUME Going, NEW p \in Procs, NEW s \in Sessions, Spill(p, s)
    PROVE  OnceInv'
  <1> DEFINE q == buf[p][s]
  <1>1. q \in Seq(Entry) /\ buf \in [Procs -> [Sessions -> Seq(Entry)]]
    BY DEF Going, Before, TypeOK
  <1>2. PICK n \in 0..Len(q) :
          /\ file' = [file EXCEPT ![s] = Flushed(s, Prefix(q, n))]
          /\ buf' = Put(buf, p, s, SubSeq(q, n + 1, Len(q)))
    BY DEF Spill
  <1>3. pc[p][s] \in {"recovering", "open"} /\ UNCHANGED <<pc, own, inh>>
    BY DEF Spill
  <1>4. buf'[p][s] = SubSeq(q, n + 1, Len(q))
    BY <1>1, <1>2 DEF Put
  <1>5. Touches(p, s)
    BY <1>2, <1>3 DEF Touches
  <1> HIDE DEF q
  <1>6. Prefix(q, n) \in Seq(Entry) /\ Prefix(q, n) \o SubSeq(q, n + 1, Len(q)) = q
    BY <1>1, PartsAre
  <1>7. Prefix(q, n) \o buf'[p][s] = buf[p][s]
    BY <1>4, <1>6 DEF q
  <1>8. QED
    BY <1>2, <1>3, <1>5, <1>6, <1>7, NothingMade

\* Recover appends a deny when nothing was decided, and the result that is missing.
LEMMA RecoverOnce ==
    ASSUME Going, NEW p \in Procs, NEW s \in Sessions, NEW u \in Uses, RecoverUse(p, s, u)
    PROVE  OnceInv'
  <1> DEFINE r == RecoveryOf(p, s, u)
             d == NewEntry(nextId, "tool_result", u)
             e == NewEntry(nextId, "deny", u)
             g == NewEntry(nextId + 1, "tool_result", u)
             a == Entries(p, s)
  <1>1. /\ buf[p][s] \in Seq(Entry) /\ buf \in [Procs -> [Sessions -> Seq(Entry)]] /\ nextId \in Nat
        /\ own \in [Procs -> [Sessions -> Seq(Entry)]] /\ own[p][s] \in Seq(Entry)
        /\ inh[p][s] \in Seq(Entry)
    BY DEF Going, Before, TypeOK, ChainInv
  <1>2. /\ pc[p][s] = "recovering" /\ UNCHANGED <<file, pc, inh>>
        /\ own' = Put(own, p, s, own[p][s] \o r) /\ buf' = Put(buf, p, s, buf[p][s] \o r)
        /\ u \in PendingToolUsesIn(a)
    BY DEF RecoverUse, disk
  <1>3. /\ d \in Entry /\ e \in Entry /\ g \in Entry
        /\ d.kind = "tool_result" /\ e.kind = "deny" /\ g.kind = "tool_result"
        /\ d.use = u /\ e.use = u /\ g.use = u
    BY <1>1 DEF NewEntry, Entry, Kinds
  <1>4. (HasDecision(a, u) /\ r = <<d>>) \/ (~HasDecision(a, u) /\ r = <<e, g>>)
    BY DEF RecoveryOf
  <1>5. ~HasResult(a, u)
    BY <1>2 DEF PendingToolUsesIn
  <1>6. a \in Seq(Entry) /\ Once(a) /\ a = inh[p][s] \o own[p][s]
    BY <1>1, <1>2, JoinIs DEF Entries, Going, OnceInv, Agrees, Reads
  <1> HIDE DEF d, e, g, r, a
  <1>7. r \in Seq(Entry) /\ Once(a \o r)
    <2>1. CASE r = <<d>>
      <3>1. Once(a \o <<d>>)
        BY <1>3, <1>5, <1>6, OnceMore
      <3>2. <<d>> \in Seq(Entry)
        BY <1>3, OneEntry
      <3>3. QED
        BY <2>1, <3>1, <3>2
    <2>2. CASE ~HasDecision(a, u) /\ r = <<e, g>>
      <3>1. Once(a \o <<e>>)
        BY <1>3, <1>6, <2>2, OnceMore
      <3>2. a \o <<e>> \in Seq(Entry)
        BY <1>3, <1>6, AppendIs
      <3>3. ~HasResult(a \o <<e>>, u)
        <4>1. ASSUME NEW i \in DOMAIN (a \o <<e>>) PROVE (a \o <<e>>)[i].kind # "tool_result" \/
                       (a \o <<e>>)[i].use # u
          <5>1. /\ DOMAIN (a \o <<e>>) = 1..(Len(a) + 1) /\ DOMAIN a = 1..Len(a)
                /\ \A j \in 1..Len(a) : (a \o <<e>>)[j] = a[j]
                /\ (a \o <<e>>)[Len(a) + 1] = e
            BY <1>3, <1>6, WithOne
          <5>2. CASE i \in 1..Len(a)
            BY <1>5, <5>1, <5>2 DEF HasResult
          <5>3. CASE i = Len(a) + 1
            BY <1>3, <5>1, <5>3
          <5>4. QED
            BY <5>1, <5>2, <5>3
        <4>2. QED
          BY <4>1 DEF HasResult
      <3>4. Once((a \o <<e>>) \o <<g>>)
        BY <1>3, <3>1, <3>2, <3>3, OnceMore
      <3>5. (a \o <<e>>) \o <<g>> = a \o <<e, g>> /\ <<e, g>> \in Seq(Entry)
        <4>1. <<e>> \o <<g>> = <<e, g>> /\ <<e>> \in Seq(Entry) /\ <<g>> \in Seq(Entry)
              /\ <<e, g>> \in Seq(Entry)
          BY <1>3, TwoAre
        <4>2. (a \o <<e>>) \o <<g>> = a \o (<<e>> \o <<g>>)
          BY ONLY <1>6, <4>1, JoinAssoc, ZenonT(60)
        <4>3. QED
          BY <4>1, <4>2
      <3>6. QED
        BY <2>2, <3>4, <3>5
    <2>3. QED
      BY <1>4, <2>1, <2>2
  <1>8. Once(inh[p][s] \o (own[p][s] \o r))
    <2>1. inh[p][s] \in Seq(Entry) /\ own[p][s] \in Seq(Entry) /\ r \in Seq(Entry)
      BY <1>1, <1>7
    <2>2. (inh[p][s] \o own[p][s]) \o r = inh[p][s] \o (own[p][s] \o r)
      BY ONLY <2>1, JoinAssoc, ZenonT(60)
    <2>3. QED
      BY <1>6, <1>7, <2>2
  <1>9. own'[p][s] = own[p][s] \o r /\ buf'[p][s] = buf[p][s] \o r /\ inh'[p][s] = inh[p][s]
    BY <1>1, <1>2 DEF Put
  <1>10. Touches(p, s)
    BY <1>2 DEF Touches
  <1>11. <<>> \o buf'[p][s] = buf[p][s] \o r /\ <<>> \in Seq(Entry)
    <2>1. buf[p][s] \o r \in Seq(Entry)
      BY <1>1, <1>7, JoinIs
    <2>2. QED
      BY <1>9, <2>1, EmptyIs
  <1>12. QED
    BY <1>2, <1>7, <1>8, <1>9, <1>10, <1>11, GoesOnce

\* Recover syncs what it appended.
LEMMA RecoverDoneOnce ==
    ASSUME Going, NEW p \in Procs, NEW s \in Sessions, RecoverDone(p, s)
    PROVE  OnceInv'
  <1>1. /\ buf \in [Procs -> [Sessions -> Seq(Entry)]] /\ buf[p][s] \in Seq(Entry)
        /\ pc \in [Procs -> [Sessions -> States]]
    BY DEF Going, Before, TypeOK
  <1>2. /\ pc[p][s] = "recovering" /\ pc' = Put(pc, p, s, "open") /\ UNCHANGED <<own, inh>>
        /\ \/ UNCHANGED <<file, buf>>
           \/ SyncTo(s, buf[p][s]) /\ buf' = Put(buf, p, s, <<>>)
    BY DEF RecoverDone, disk
  <1>3. pc'[p][s] = "open"
    BY <1>1, <1>2 DEF Put
  <1>4. CASE SyncTo(s, buf[p][s]) /\ buf' = Put(buf, p, s, <<>>)
    BY <1>2, <1>3, <1>4, SyncOnce
  <1>5. CASE UNCHANGED <<file, buf>>
    <2>1. Touches(p, s)
      BY <1>2, <1>5 DEF Touches
    <2>2. <<>> \o buf'[p][s] = buf[p][s] /\ <<>> \in Seq(Entry)
      BY <1>1, <1>5, EmptyIs
    <2>3. QED
      BY <1>2, <1>3, <1>5, <2>1, <2>2, NothingMade
  <1>6. QED
    BY <1>2, <1>4, <1>5

\* Closing a session, with or without what its buffer holds.
LEMMA CloseOnce ==
    ASSUME Going, NEW p \in Procs, NEW s \in Sessions, Close(p, s) \/ CloseBroken(p, s)
    PROVE  OnceInv'
  <1>1. Forget(p, s) /\ ((pc[p][s] = "open" /\ SyncTo(s, buf[p][s])) \/ file' = file)
    BY DEF Close, CloseBroken, disk
  <1>2. pc'[p][s] = "none" /\ Touches(p, s)
    BY <1>1, Forgets DEF Going
  <1>3. QED
    BY <1>1, <1>2, EndsOnce

\* Load remembers the log and its chain.
LEMMA LoadReadOnce ==
    ASSUME Going, NEW p \in Procs, NEW s \in Sessions, LoadRead(p, s)
    PROVE  OnceInv'
  <1>1. /\ pc[p][s] = "none" /\ file[s] # <<>> /\ UNCHANGED <<file, buf>>
        /\ pc' = Put(pc, p, s, "read") /\ own' = Put(own, p, s, file[s])
        /\ inh' = Put(inh, p, s, InheritedEntries(file, s))
        /\ Forked(file, s) => InheritedEntries(file, s) # <<>>
    BY DEF LoadRead, Loads, disk
  <1>2. InheritedEntries(file, s) \in Seq(Entry) /\ file[s] \in Seq(Entry) /\ Named(file)
    BY <1>1, HomeBefore, ChainsNamed DEF Going, Before, ChainInv, Chains, Logs
  <1>3. Touches(p, s)
    BY <1>1, <1>2 DEF Touches
  <1>4. buf[p][s] = <<>>
    BY <1>1 DEF Going, Before, ChainInv, Slot, Ordered
  <1>5. pc'[p][s] = "read" /\ own'[p][s] = file[s] /\ inh'[p][s] = InheritedEntries(file, s)
    BY <1>1 DEF Put, Going, Before, TypeOK, ChainInv
  <1>6. Once(Entries(p, s))'
    BY <1>5 DEF Entries, Going, OnceInv, LogsOnce
  <1>7. own'[p][s] = file'[s] \o buf'[p][s]
    BY <1>1, <1>2, <1>4, <1>5, EndsAtOnce
  <1>8. ~TooDeep(file, s)
    <2>1. ASSUME ~Forked(file, s) PROVE ~TooDeep(file, s)
      <3>1. 0 \in 0..MaxForkDepth + 1
        BY SessionLogAssumption
      <3>2. QED
        BY <2>1, <3>1 DEF TooDeep, ForkedTo
    <2>2. ASSUME Forked(file, s) PROVE ~TooDeep(file, s)
      BY <1>1, <1>2, <2>2, HomeIs
    <2>3. QED
      BY <2>1, <2>2
  <1>9. Agrees(p, s)'
    BY <1>1, <1>5, <1>6, <1>7, <1>8 DEF Agrees
  <1>10. QED
    BY <1>1, <1>3, <1>9, QuietOnce

\* Load takes the lock of the log it read.
LEMMA LoadLockOnce ==
    ASSUME Going, NEW p \in Procs, NEW s \in Sessions, LoadLock(p, s)
    PROVE  OnceInv'
  <1>1. pc[p][s] = "read" /\ UNCHANGED <<file, own, inh, buf>> /\ pc' = Put(pc, p, s, "recovering")
    BY DEF LoadLock, disk
  <1>2. Touches(p, s)
    BY <1>1 DEF Touches
  <1>3. pc'[p][s] = "recovering" /\ Agrees(p, s)
    BY <1>1 DEF Put, Going, Before, TypeOK, OnceInv
  <1>4. Agrees(p, s)'
    BY <1>1, <1>3 DEF Agrees, Reads, Entries
  <1>5. QED
    BY <1>1, <1>2, <1>4, QuietOnce

\* Load is refused the lock.
LEMMA LoadRefusedOnce ==
    ASSUME Going, NEW p \in Procs, NEW s \in Sessions, LoadRefused(p, s)
    PROVE  OnceInv'
  <1>1. /\ UNCHANGED <<file, buf>>
        /\ pc' = Put(pc, p, s, "none") /\ own' = Put(own, p, s, <<>>) /\ inh' = Put(inh, p, s, <<>>)
    BY DEF LoadRefused, disk
  <1>2. <<>> \in Seq(Entry)
    OBVIOUS
  <1>3. Touches(p, s)
    BY <1>1, <1>2 DEF Touches
  <1>4. pc'[p][s] = "none"
    BY <1>1 DEF Put, Going, Before, TypeOK
  <1>5. QED
    BY <1>1, <1>3, <1>4, EndsOnce

\* One entry holds nothing twice.
LEMMA OnceOne ==
    ASSUME NEW q \in Seq(Entry), Once(q), NEW e \in Entry,
           e.kind \in {"session_opened", "fork_point"}
    PROVE  Once(q \o <<e>>)
  BY OnceMore

\* Open buffers a log's first entry.
LEMMA OpenOnce ==
    ASSUME Going, NEW p \in Procs, NEW s \in Sessions, Open(p, s)
    PROVE  OnceInv'
  <1> DEFINE e == NewEntry(nextId, "session_opened", None)
  <1>1. e \in Entry /\ e.kind = "session_opened"
    BY DEF Going, Before, TypeOK, NewEntry, Entry, Kinds
  <1>2. /\ file' = file
        /\ pc' = Put(pc, p, s, "creating") /\ own' = Put(own, p, s, <<e>>)
        /\ inh' = Put(inh, p, s, <<>>) /\ buf' = Put(buf, p, s, <<e>>)
    BY DEF Open, Create, disk
  <1> HIDE DEF e
  <1>3. <<>> \in Seq(Entry)
    OBVIOUS
  <1>4. Touches(p, s)
    BY <1>2, <1>3 DEF Touches
  <1>5. pc'[p][s] = "creating" /\ own'[p][s] = <<e>> /\ inh'[p][s] = <<>>
    BY <1>2 DEF Put, Going, Before, TypeOK, ChainInv
  <1>6. Once(<<>> \o <<e>>)
    BY <1>1, <1>3, OnceNothing, OnceOne
  <1>7. Once(Entries(p, s))'
    BY <1>5, <1>6 DEF Entries
  <1>8. own'[p][s][1].kind # "fork_point"
    BY <1>1, <1>5
  <1>9. Agrees(p, s)'
    BY <1>5, <1>7, <1>8 DEF Agrees, Reads
  <1>10. QED
    BY <1>2, <1>4, <1>9, QuietOnce

\* What a log that begins with e inherits, when e cut it from the chain.
LEMMA BegunIs ==
    ASSUME NEW f, NEW n, Chains(f, n), NEW s \in Sessions, NEW e \in Entry, f[s] = <<e>>, NEW h,
           e.kind # "fork_point" => h = <<>>,
           e.kind = "fork_point" =>
             \/ TooDeep(f, e.parent)
             \/ h = UpTo(InheritedEntries(f, e.parent) \o f[e.parent], e.at)
    PROVE  TooDeep(f, s) \/ h = InheritedEntries(f, s)
  <1>1. Named(f) /\ f[s] # <<>> /\ f[s][1] = e
    BY ChainsNamed, OneEntry
  <1>2. CASE e.kind # "fork_point"
    <2>1. ~Forked(f, s)
      BY <1>1, <1>2 DEF Forked
    <2>2. QED
      BY <1>1, <1>2, <2>1, HomeIs
  <1>3. CASE e.kind = "fork_point" /\ ~TooDeep(f, s)
    <2>1. Forked(f, s)
      BY <1>1, <1>3 DEF Forked
    <2>2. ~TooDeep(f, e.parent)
      BY <1>1, <1>3, <2>1, HomeIs
    <2>3. Sound(f, s)
      BY AllSound
    <2>4. InheritedEntries(f, s) = UpTo(InheritedEntries(f, e.parent) \o f[e.parent], e.at)
      BY <1>1, <1>3, <2>1, <2>3 DEF Sound
    <2>5. QED
      BY <1>3, <2>2, <2>4
  <1>4. QED
    BY <1>2, <1>3

\* The first entry is on disk: the session is open.
LEMMA CreateSyncOnce ==
    ASSUME Going, NEW p \in Procs, NEW s \in Sessions, CreateSync(p, s)
    PROVE  OnceInv'
  <1>1. /\ pc[p][s] = "creating" /\ SyncTo(s, buf[p][s]) /\ buf' = Put(buf, p, s, <<>>)
        /\ pc' = Put(pc, p, s, "open") /\ UNCHANGED <<own, inh>>
    BY DEF CreateSync
  <1>2. /\ Making(p, s) /\ inh[p][s] \in Seq(Entry) /\ Agrees(p, s) /\ Chains(file', synced')
        /\ file \in [Sessions -> Seq(Line)]
    BY <1>1 DEF Going, Before, TypeOK, ChainInv, Slot, Remembers, OnceInv
  <1>3. PICK e \in Entry :
          /\ file[s] = <<>> /\ own[p][s] = <<e>> /\ buf[p][s] = <<e>> /\ Anchored(e)
          /\ e.kind # "fork_point" => inh[p][s] = <<>>
    BY <1>2 DEF Making
  <1>4. <<e>> \in Seq(Entry) /\ <<e>> # <<>> /\ <<e>>[1] = e
    BY OneEntry
  <1>5. file' = [file EXCEPT ![s] = @ \o <<e>>]
    BY <1>1, <1>3, FlushedIs DEF SyncTo, Going
  <1>6. file'[s] = <<e>> /\ \A t \in Sessions : t # s => file'[t] = file[t]
    BY <1>2, <1>3, <1>4, <1>5, EmptyIs
  <1>7. ASSUME NEW t \in Sessions, Forked(file', t)
        PROVE  \/ Same(file, file', t)
               \/ Rooted(file, synced, file'[t][1]) /\ Found(file, synced, file'[t][1])
    <2>1. CASE t = s
      BY <1>3, <1>4, <1>6, <1>7, <2>1 DEF Forked, Anchored
    <2>2. CASE t # s
      BY <1>6, <1>7, <2>2 DEF Forked, Same
    <2>3. QED
      BY <2>1, <2>2
  <1>8. Moved(file, synced, file', synced')
    BY <1>7, GoingMoves
  <1>9. pc'[p][s] = "open" /\ buf'[p][s] = <<>> /\ own'[p][s] = <<e>> /\ inh'[p][s] = inh[p][s]
    BY <1>1, <1>3 DEF Put, Going, Before, TypeOK
  <1>10. ASSUME e.kind = "fork_point"
         PROVE  \/ TooDeep(file', e.parent)
                \/ inh[p][s] = UpTo(InheritedEntries(file', e.parent) \o file'[e.parent], e.at)
    <2>1. Rooted(file, synced, e) /\ Found(file, synced, e)
      BY <1>3, <1>10 DEF Anchored
    <2>2. Same(file, file', e.parent) /\ e.parent \in Sessions
      BY <1>8, <2>1, ParentSame
    <2>3. CASE TooDeep(file, e.parent)
      BY <1>8, <2>2, <2>3, DepthStays
    <2>4. CASE ~TooDeep(file, e.parent)
      <3>1. own[p][s][1] = e
        BY <1>3, <1>4
      <3>2. inh[p][s] = UpTo(InheritedEntries(file, e.parent) \o file[e.parent], e.at)
        BY <1>1, <1>2, <1>10, <2>4, <3>1 DEF Agrees
      <3>3. QED
        BY <1>8, <2>1, <2>4, <3>2, AnchorCut
    <2>5. QED
      BY <2>3, <2>4
  <1>11. TooDeep(file', s) \/ inh[p][s] = InheritedEntries(file', s)
    BY <1>2, <1>3, <1>6, <1>10, BegunIs
  <1>12. Once(inh[p][s] \o <<e>>)
    BY <1>1, <1>2, <1>3 DEF Agrees, Entries
  <1>13. <<e>> = file'[s] \o <<>>
    BY <1>4, <1>6, EndsAtOnce
  <1>14. Agrees(p, s)'
    BY <1>9, <1>11, <1>12, <1>13 DEF Agrees, Entries
  <1>15. Once(InheritedEntries(file', s) \o file'[s])
    <2>1. Once(inh[p][s] \o (file'[s] \o <<>>)) /\ <<>> \in Seq(Entry)
      BY <1>12, <1>13
    <2>2. QED
      BY <1>2, <1>11, <2>1, ShownOnce
  <1>16. Touches(p, s)
    BY <1>1 DEF Touches
  <1>17. OthersKeep(p, s)
    BY <1>16, TouchesOne DEF Going
  <1>18. QED
    BY <1>6, <1>8, <1>14, <1>15, <1>17, OnceStep

\* Fork cuts what the parent remembers where the chain of its log will be cut.
LEMMA ForkOnce ==
    ASSUME Going, NEW p \in Procs, NEW s \in Sessions, NEW c \in Sessions \ {s},
           NEW at \in 1..MaxIds, Fork(p, s, c, at)
    PROVE  OnceInv'
  <1> DEFINE u == UpTo(Entries(p, s), at)
  <1>0. PICK e \in Entry : e = ForkPoint(nextId, s, at)
    <2>1. nextId \in Nat /\ at \in Nat
      BY SessionLogAssumption DEF Going, Before, TypeOK
    <2>2. ForkPoint(nextId, s, at) \in Entry
      BY <2>1, EntryTypes
    <2>3. QED
      BY <2>2
  <1>1. e.kind = "fork_point" /\ e.parent = s /\ e.at = at
    BY <1>0 DEF ForkPoint
  <1>2. /\ pc[p][s] = "open"
        /\ pc' = Put(pc, p, c, "creating") /\ own' = Put(own, p, c, <<e>>)
        /\ inh' = Put(inh, p, c, u) /\ buf' = [buf EXCEPT ![p][s] = <<>>, ![p][c] = <<e>>]
        /\ SyncTo(s, buf[p][s])
    BY <1>0 DEF Fork, Create
  <1>3. at \in Ids(Entries(p, s))
    BY DEF Fork, Ids
  <1>4. /\ pc \in [Procs -> [Sessions -> States]] /\ own \in [Procs -> [Sessions -> Seq(Entry)]]
        /\ inh \in [Procs -> [Sessions -> Seq(Entry)]]
        /\ buf \in [Procs -> [Sessions -> Seq(Entry)]] /\ Chains(file', synced')
        /\ file[s] \in Seq(Entry) /\ Rising(Entries(p, s)) /\ c \in Sessions
    BY <1>2 DEF Going, Before, TypeOK, ChainInv, Chains, Logs, Slot, Ordered, Entries, Hot
  <1>5. buf[p][s] \in Seq(Entry) /\ own[p][s] \in Seq(Entry) /\ inh[p][s] \in Seq(Entry)
    BY <1>4
  <1>6. /\ Entries(p, s) \in Seq(Entry) /\ Once(Entries(p, s)) /\ file[s] # <<>>
        /\ own[p][s] = file[s] \o buf[p][s]
        /\ TooDeep(file, s) \/ inh[p][s] = InheritedEntries(file, s)
    <2>1. Agrees(p, s) /\ Remembers(p, s)
      BY DEF Going, OnceInv, Before, ChainInv, Slot
    <2>2. Entries(p, s) \in Seq(Entry)
      BY <1>5, JoinIs DEF Entries
    <2>3. QED
      BY <1>2, <2>1, <2>2 DEF Agrees, Remembers, Reads
  <1>7. file' = [file EXCEPT ![s] = @ \o buf[p][s]]
    BY <1>2, FlushedIs DEF SyncTo, Going
  <1>8. /\ Moved(file, synced, file', synced') /\ Same(file, file', s)
        /\ file'[s] = own[p][s] /\ \A t \in Sessions : t # s => file'[t] = file[t]
    BY <1>5, <1>6, <1>7, GrowsMoves
  <1>9. TooDeep(file', s) \/ inh[p][s] = InheritedEntries(file', s)
    BY <1>6, <1>8, DepthStays, HomeStays
  <1>10. u \in Seq(Entry) /\ Once(u)
    BY <1>3, <1>4, <1>6, CutIs, OnceCut
  <1> HIDE DEF u
  <1>11. pc'[p][s] = "open" /\ own'[p][s] = own[p][s] /\ inh'[p][s] = inh[p][s] /\ buf'[p][s] = <<>>
    <2>1. pc'[p][s] = "open" /\ own'[p][s] = own[p][s]
      BY <1>2, <1>4 DEF Put
    <2>2. inh'[p][s] = inh[p][s]
      BY <1>2, <1>4 DEF Put
    <2>3. buf'[p][s] = <<>>
      BY <1>2, <1>4
    <2>4. QED
      BY <2>1, <2>2, <2>3
  <1>12. pc'[p][c] = "creating" /\ own'[p][c] = <<e>> /\ inh'[p][c] = u
    BY <1>2, <1>4 DEF Put
  <1>13. Agrees(p, s)'
    <2>1. own[p][s] = file'[s] \o <<>>
      BY <1>5, <1>8, EndsAtOnce
    <2>2. Once(Entries(p, s))'
      BY <1>6, <1>11 DEF Entries
    <2>3. QED
      BY <1>9, <1>11, <2>1, <2>2 DEF Agrees
  <1>14. Agrees(p, c)'
    <2>1. Once(u \o <<e>>)
      BY <1>1, <1>10, OnceOne
    <2>2. Once(Entries(p, c))'
      BY <1>12, <2>1 DEF Entries
    <2>3. own'[p][c][1] = e
      BY <1>12, OneEntry
    <2>4. TooDeep(file', s) \/ u = UpTo(InheritedEntries(file', s) \o file'[s], at)
      BY <1>8, <1>9 DEF u, Entries
    <2>5. QED
      BY <1>1, <1>12, <2>2, <2>3, <2>4 DEF Agrees, Reads
  <1>15. ASSUME NEW q \in Procs, NEW t \in Sessions, t # s, t # c PROVE Agrees(q, t)'
    <2>1. pc'[q][t] = pc[q][t] /\ own'[q][t] = own[q][t]
      BY <1>2, <1>4, <1>15 DEF Put
    <2>2. inh'[q][t] = inh[q][t]
      BY <1>2, <1>4, <1>15 DEF Put
    <2>3. buf'[q][t] = buf[q][t]
      BY <1>2, <1>4, <1>15
    <2>4. file'[t] = file[t]
      BY <1>8, <1>15
    <2>5. QED
      BY <1>8, <2>1, <2>2, <2>3, <2>4, AgreesStays
  <1>16. ASSUME NEW q \in Procs, NEW t \in Sessions PROVE Agrees(q, t)'
    <2>1. q = p
      BY DEF Going, Lone
    <2>2. QED
      BY <1>13, <1>14, <1>15, <2>1
  <1>17. ASSUME NEW t \in Sessions PROVE Once(InheritedEntries(file', t) \o file'[t])
    <2>1. CASE t = s
      <3>1. Once(inh[p][s] \o (file'[s] \o <<>>)) /\ <<>> \in Seq(Entry)
        BY <1>5, <1>6, <1>8, EndsAtOnce DEF Entries
      <3>2. QED
        BY <1>4, <1>5, <1>9, <2>1, <3>1, ShownOnce
    <2>2. CASE t # s
      <3>1. file'[t] = file[t]
        BY <1>8, <2>2
      <3>2. InheritedEntries(file', t) = InheritedEntries(file, t)
        BY <1>8, <3>1, HomeOfSame
      <3>3. QED
        BY <3>1, <3>2 DEF Going, OnceInv, LogsOnce
    <2>3. QED
      BY <2>1, <2>2
  <1>18. LogsOnce'
    BY <1>17 DEF LogsOnce
  <1>19. QED
    BY <1>16, <1>18 DEF OnceInv

-----------------------------------------------------------------------------
(* Crashes, and the theorem.                                               *)

\* A process dies: it remembers nothing, and the logs are as they were.
LEMMA CrashOnce ==
    ASSUME Going, NEW p \in Procs, Crash(p)
    PROVE  OnceInv'
  <1>1. file' = file /\ pc' = [pc EXCEPT ![p] = [s \in Sessions |-> "none"]]
    BY DEF Crash
  <1>2. ASSUME NEW q \in Procs, NEW s \in Sessions PROVE Agrees(q, s)'
    <2>1. q = p
      BY DEF Going, Lone
    <2>2. pc'[q][s] = "none"
      BY <1>1, <2>1 DEF Going, Before, TypeOK
    <2>3. QED
      BY <2>2 DEF Agrees, Reads
  <1>3. LogsOnce'
    BY <1>1 DEF Going, OnceInv, LogsOnce
  <1>4. QED
    BY <1>2, <1>3 DEF OnceInv

\* The machine loses power: what is left of a log is a part of it.
LEMMA PowerOnce ==
    ASSUME Going, PowerLoss
    PROVE  OnceInv'
  <1>1. PICK keep \in [Sessions -> 0..nextId] :
          /\ \A s \in Sessions : keep[s] \in synced[s]..Len(file[s])
          /\ file' = [s \in Sessions |-> Prefix(file[s], keep[s])]
    BY DEF PowerLoss
  <1>2. pc' = [p \in Procs |-> [s \in Sessions |-> "none"]]
    BY DEF PowerLoss
  <1>3. ASSUME NEW s \in Sessions
        PROVE  /\ file'[s] = Prefix(file[s], keep[s]) /\ keep[s] \in 0..Len(file[s])
               /\ file[s] \in Seq(Entry)
    <2>1. file[s] \in Seq(Entry) /\ synced[s] \in 0..Len(file[s])
      BY DEF Going, Before, ChainInv, Chains, Logs
    <2>2. QED
      BY <1>1, <2>1
  <1>4. ASSUME NEW s \in Sessions, file'[s] # <<>> PROVE Same(file, file', s)
    <2>1. /\ file'[s] \in Seq(Entry) /\ Len(file'[s]) = keep[s]
          /\ \A i \in 1..keep[s] : file'[s][i] = file[s][i]
      BY <1>3, PrefixIs
    <2>2. Len(file'[s]) >= 1
      BY <1>4, <2>1, NotEmptyIs
    <2>3. keep[s] \in Nat /\ keep[s] >= 1 /\ keep[s] <= Len(file[s])
      BY <1>3, <2>1, <2>2
    <2>4. file'[s][1] = file[s][1] /\ file[s] # <<>>
      BY <1>3, <2>1, <2>3
    <2>5. QED
      BY <1>4, <2>4 DEF Same
  <1>5. Moved(file, synced, file', synced')
    BY <1>4, GoingMoves DEF Forked
  <1>6. ASSUME NEW s \in Sessions PROVE Once(InheritedEntries(file', s) \o file'[s])
    <2>1. CASE file'[s] = <<>>
      <3>1. Named(file') /\ ~Forked(file', s)
        BY <1>5, <2>1, MovedNamed DEF Forked
      <3>2. InheritedEntries(file', s) = <<>>
        BY <3>1, HomeIs
      <3>3. <<>> \o <<>> = <<>>
        OBVIOUS
      <3>4. QED
        BY <2>1, <3>2, <3>3, OnceNothing
    <2>2. CASE file'[s] # <<>>
      <3> DEFINE h == InheritedEntries(file, s)
                 a == Prefix(file[s], keep[s])
                 b == SubSeq(file[s], keep[s] + 1, Len(file[s]))
      <3>1. Same(file, file', s)
        BY <1>4, <2>2
      <3>2. InheritedEntries(file', s) = h
        BY <1>5, <3>1, HomeStays
      <3>3. h \in Seq(Entry)
        BY <3>1, HomeBefore DEF Same, Going
      <3>4. a \in Seq(Entry) /\ a \o b = file[s]
        BY <1>3, PartsAre
      <3>5. b \in Seq(Entry)
        BY <1>3
      <3>6. Once(h \o file[s])
        BY DEF Going, OnceInv, LogsOnce
      <3> HIDE DEF h, a, b
      <3>7. (h \o a) \o b = h \o (a \o b)
        BY ONLY <3>3, <3>4, <3>5, JoinAssoc, ZenonT(60)
      <3>8. h \o a \in Seq(Entry)
        BY <3>3, <3>4, JoinIs
      <3>9. Once((h \o a) \o b)
        BY <3>4, <3>6, <3>7
      <3>10. Once(h \o a)
        BY <3>5, <3>8, <3>9, OnceParts
      <3>11. file'[s] = a
        BY <1>3 DEF a
      <3>12. QED
        BY <3>2, <3>10, <3>11
    <2>3. QED
      BY <2>1, <2>2
  <1>7. ASSUME NEW q \in Procs, NEW s \in Sessions PROVE Agrees(q, s)'
    <2>1. pc'[q][s] = "none"
      BY <1>2
    <2>2. QED
      BY <2>1 DEF Agrees, Reads
  <1>8. LogsOnce'
    BY <1>6 DEF LogsOnce
  <1>9. QED
    BY <1>7, <1>8 DEF OnceInv

\* A step that changes neither a log nor what a process has of one.
LEMMA StillOnce ==
    ASSUME OnceInv, UNCHANGED <<file, pc, own, inh, buf>>
    PROVE  OnceInv'
  <1>1. ASSUME NEW p \in Procs, NEW s \in Sessions PROVE Agrees(p, s)'
    BY DEF OnceInv, Agrees, Entries
  <1>2. LogsOnce'
    BY DEF OnceInv, LogsOnce
  <1>3. QED
    BY <1>1, <1>2 DEF OnceInv

\* No write fails.
LEMMA NoFault ==
    ASSUME MaxFaults = 0, TypeOK, NEW p \in Procs, NEW s \in Sessions
    PROVE  ~SyncFails(p, s) /\ \A u \in Uses : ~AppendAllowFails(p, s, u)
  <1>1. ~(faults < MaxFaults)
    BY DEF TypeOK
  <1>2. QED
    BY <1>1 DEF SyncFails, AppendAllowFails

\* Every step keeps everything there once.
LEMMA OnceNext ==
    ASSUME MaxFaults = 0, Going, [Next]_vars
    PROVE  OnceInv'
  <1>0. TypeOK /\ OnceInv
    BY DEF Going, Before
  <1>1. ASSUME NEW p \in Procs, NEW s \in Sessions, SessionStep(p, s) PROVE OnceInv'
    <2>1. CASE Open(p, s)
      BY <2>1, OpenOnce
    <2>2. ASSUME NEW c \in Sessions \ {s}, NEW at \in 1..MaxIds, Fork(p, s, c, at)
          PROVE  OnceInv'
      BY <2>2, ForkOnce
    <2>3. CASE CreateSync(p, s)
      BY <2>3, CreateSyncOnce
    <2>4. ASSUME NEW k \in Kinds, NEW u \in Uses \cup {None}, AppendPayload(p, s, k, u)
          PROVE  OnceInv'
      BY <2>4, AppendOnce
    <2>5. ASSUME NEW u \in Uses, RunTool(p, s, u) PROVE OnceInv'
      <3>1. UNCHANGED <<file, pc, own, inh, buf>>
        BY <2>5 DEF RunTool, disk, mem
      <3>2. QED
        BY <1>0, <3>1, StillOnce
    <2>6. CASE Sync(p, s)
      BY <2>6, SyncOnce DEF Sync
    <2>7. CASE Close(p, s) \/ CloseBroken(p, s)
      BY <2>7, CloseOnce
    <2>8. CASE Spill(p, s)
      BY <2>8, SpillOnce
    <2>9. ~SyncFails(p, s) /\ \A u \in Uses : ~AppendAllowFails(p, s, u)
      BY <1>0, NoFault
    <2>10. CASE LoadRead(p, s)
      BY <2>10, LoadReadOnce
    <2>11. CASE LoadLock(p, s)
      BY <2>11, LoadLockOnce
    <2>12. CASE LoadRefused(p, s)
      BY <2>12, LoadRefusedOnce
    <2>13. ASSUME NEW u \in Uses, RecoverUse(p, s, u) PROVE OnceInv'
      BY <2>13, RecoverOnce
    <2>14. CASE RecoverDone(p, s)
      BY <2>14, RecoverDoneOnce
    <2>15. QED
      BY <1>1, <2>1, <2>2, <2>3, <2>4, <2>5, <2>6, <2>7, <2>8, <2>9, <2>10, <2>11, <2>12, <2>13,
         <2>14 DEF SessionStep, Kinds
  <1>2. ASSUME NEW p \in Procs, Crash(p) PROVE OnceInv'
    BY <1>2, CrashOnce
  <1>3. CASE PowerLoss
    BY <1>3, PowerOnce
  <1>4. CASE UNCHANGED vars
    BY <1>0, <1>4, StillOnce DEF vars
  <1>5. QED
    BY <1>1, <1>2, <1>3, <1>4 DEF Next

\* The empty store holds nothing twice.
LEMMA OnceInit == Init => OnceInv
  <1> SUFFICES ASSUME Init PROVE OnceInv
    OBVIOUS
  <1>1. ASSUME NEW p \in Procs, NEW s \in Sessions PROVE Agrees(p, s)
    BY DEF Init, Agrees, Reads
  <1>2. Chains(file, synced) /\ Named(file)
    BY ChainInit, ChainsNamed DEF ChainInv
  <1>3. ASSUME NEW s \in Sessions PROVE Once(InheritedEntries(file, s) \o file[s])
    <2>1. file[s] = <<>> /\ ~Forked(file, s)
      BY DEF Init, Forked
    <2>2. InheritedEntries(file, s) = <<>>
      BY <1>2, <2>1, HomeIs
    <2>3. <<>> \o <<>> = <<>>
      OBVIOUS
    <2>4. QED
      BY <2>1, <2>2, <2>3, OnceNothing
  <1>4. QED
    BY <1>1, <1>3 DEF OnceInv, LogsOnce

\* A set of which any two members are the same has at most one.
LEMMA AtMostOne ==
    ASSUME NEW S, \A i, j \in S : i = j
    PROVE  IsFiniteSet(S) /\ Cardinality(S) <= 1
  <1>1. CASE S = {}
    BY <1>1, FS_EmptySet
  <1>2. CASE S # {}
    <2>1. PICK i \in S : S = {i}
      BY <1>2
    <2>2. IsFiniteSet({i}) /\ Cardinality({i}) = 1
      BY FS_Singleton
    <2>3. QED
      BY <2>1, <2>2
  <1>3. QED
    BY <1>1, <1>2

\* What is there once is counted at most once.
LEMMA OnceCounts ==
    ASSUME NEW q, NEW K, NEW u, OnlyOne(q, K, u)
    PROVE  Cardinality({i \in DOMAIN q : q[i].kind \in K /\ q[i].use = u}) <= 1
  <1> DEFINE S == {i \in DOMAIN q : q[i].kind \in K /\ q[i].use = u}
  <1>1. \A i, j \in S : i = j
    BY DEF OnlyOne
  <1> HIDE DEF S
  <1>2. Cardinality(S) <= 1
    BY <1>1, AtMostOne
  <1>3. QED
    BY <1>2 DEF S

\* Where every step of one process starts.
LEMMA GoingIs ==
    ASSUME ~TornWrites, Lone, TypeOK, TypeOK', SyncedInFile, LockedWhileOpen, NoTail, ChainInv,
           OnceInv, [Next]_vars
    PROVE  Going /\ NoTail'
  <1>1. NoTail'
    BY TailNext
  <1>2. Before
    BY DEF Before
  <1>3. ChainInv' /\ DurableGrows
    BY <1>2, ChainNext, DurableNext
  <1>4. QED
    BY <1>1, <1>2, <1>3 DEF Going

\* With one process whose writes reach the disk whole, the logs and what it remembers of them
\* hold everything once.
LEMMA OnceInvariant ==
    ASSUME ~TornWrites, MaxFaults = 0, Lone
    PROVE  Spec => [](NoTail /\ ChainInv /\ OnceInv)
  <1>1. Init => NoTail /\ ChainInv /\ OnceInv
    BY ChainInit, OnceInit
  <1>2. /\ TypeOK /\ TypeOK' /\ SyncedInFile /\ LockedWhileOpen
        /\ NoTail /\ ChainInv /\ OnceInv /\ [Next]_vars
        => (NoTail /\ ChainInv /\ OnceInv)'
    <2> SUFFICES ASSUME TypeOK, TypeOK', SyncedInFile, LockedWhileOpen, NoTail, ChainInv, OnceInv,
                        [Next]_vars
                 PROVE  NoTail' /\ ChainInv' /\ OnceInv'
      OBVIOUS
    <2>1. Going /\ NoTail'
      BY GoingIs
    <2>2. QED
      BY <2>1, OnceNext DEF Going
  <1>3. QED
    BY <1>1, <1>2, TypeCorrect, OneWriter, SyncedInvariant, PTL DEF Spec

\* When one process writes and no write fails or stops in the middle of a line, no log holds two
\* decisions or two results of one tool_use with what it inherits, whatever is forked, whenever the
\* process dies or the machine loses power, and whatever Recover makes up for (Append, Recover).
THEOREM OneResult ==
    ASSUME ~TornWrites, MaxFaults = 0, \A p, q \in Procs : p = q
    PROVE  Spec => []OneResultPerUse
  <1>0. Lone
    BY DEF Lone
  <1>1. OnceInv => OneResultPerUse
    <2> SUFFICES ASSUME OnceInv, NEW s \in Sessions, NEW u \in Uses
                 PROVE  LET all == InheritedEntries(file, s) \o file[s]
                        IN  /\ Cardinality({i \in DOMAIN all :
                                 all[i].kind = "tool_result" /\ all[i].use = u}) <= 1
                            /\ Cardinality({i \in DOMAIN all :
                                 all[i].kind \in {"allow", "deny"} /\ all[i].use = u}) <= 1
      BY DEF OneResultPerUse
    <2> DEFINE all == InheritedEntries(file, s) \o file[s]
    <2>1. OnlyOne(all, {"tool_result"}, u) /\ OnlyOne(all, {"allow", "deny"}, u)
      BY DEF OnceInv, LogsOnce, Once
    <2> HIDE DEF all
    <2>2. Cardinality({i \in DOMAIN all : all[i].kind \in {"tool_result"} /\ all[i].use = u}) <= 1
      BY <2>1, OnceCounts
    <2>3. Cardinality({i \in DOMAIN all : all[i].kind \in {"allow", "deny"} /\ all[i].use = u}) <= 1
      BY <2>1, OnceCounts
    <2>4. {i \in DOMAIN all : all[i].kind \in {"tool_result"} /\ all[i].use = u} =
            {i \in DOMAIN all : all[i].kind = "tool_result" /\ all[i].use = u}
      OBVIOUS
    <2>5. QED
      BY <2>2, <2>3, <2>4 DEF all
  <1>2. Spec => [](NoTail /\ ChainInv /\ OnceInv)
    BY <1>0, OnceInvariant
  <1>3. QED
    BY <1>1, <1>2, PTL

\* Only the end of Recover opens a session that is being loaded.
LEMMA OpenedBy ==
    ASSUME MaxFaults = 0, Going, [Next]_vars, NEW p \in Procs, NEW s \in Sessions,
           pc[p][s] = "recovering", pc'[p][s] = "open"
    PROVE  RecoverDone(p, s)
  <1>0. pc \in [Procs -> [Sessions -> States]] /\ TypeOK
    BY DEF Going, Before, TypeOK
  <1>1. ASSUME NEW q \in Procs, NEW t \in Sessions, SessionStep(q, t) PROVE RecoverDone(p, s)
    <2>0. q = p
      BY DEF Going, Lone
    <2>1. ASSUME NEW c \in Sessions, NEW v, pc' = Put(pc, p, c, v) PROVE c = s /\ v = "open"
      <3>1. c # s => pc'[p][s] = pc[p][s]
        BY <1>0, <2>1 DEF Put
      <3>2. c = s => pc'[p][s] = v
        BY <1>0, <2>1 DEF Put
      <3>3. QED
        BY <3>1, <3>2
    <2>2. ~Open(q, t)
      BY <2>0, <2>1 DEF Open, Create
    <2>3. ASSUME NEW c \in Sessions \ {t}, NEW at \in 1..MaxIds, Fork(q, t, c, at) PROVE FALSE
      BY <2>0, <2>1, <2>3 DEF Fork, Create
    <2>4. ~CreateSync(q, t)
      BY <2>0, <2>1 DEF CreateSync
    <2>5. \A k \in Kinds, u \in Uses \cup {None} : ~AppendPayload(q, t, k, u)
      BY DEF AppendPayload
    <2>6. \A u \in Uses : ~RunTool(q, t, u) /\ ~RecoverUse(q, t, u)
      BY DEF RunTool, RecoverUse, mem
    <2>7. ~Sync(q, t) /\ ~Spill(q, t)
      BY DEF Sync, Spill
    <2>8. ~Close(q, t) /\ ~CloseBroken(q, t)
      BY <2>0, <2>1 DEF Close, CloseBroken, Forget
    <2>9. ~SyncFails(q, t) /\ \A u \in Uses : ~AppendAllowFails(q, t, u)
      BY <1>0, NoFault
    <2>10. ~LoadRead(q, t) /\ ~LoadLock(q, t) /\ ~LoadRefused(q, t)
      BY <2>0, <2>1 DEF LoadRead, LoadLock, LoadRefused
    <2>11. RecoverDone(q, t)
      BY <1>1, <2>2, <2>3, <2>4, <2>5, <2>6, <2>7, <2>8, <2>9, <2>10 DEF SessionStep, Kinds
    <2>12. t = s
      BY <2>0, <2>1, <2>11 DEF RecoverDone
    <2>13. QED
      BY <2>0, <2>11, <2>12
  <1>2. ASSUME NEW q \in Procs, Crash(q) PROVE FALSE
    <2>1. q = p /\ pc' = [pc EXCEPT ![q] = [t \in Sessions |-> "none"]]
      BY <1>2 DEF Going, Lone, Crash
    <2>2. QED
      BY <1>0, <2>1
  <1>3. ~PowerLoss
    BY DEF PowerLoss
  <1>4. ~UNCHANGED vars
    BY DEF vars
  <1>5. QED
    BY <1>1, <1>2, <1>3, <1>4 DEF Next

\* What Recover leaves on disk has nothing pending.
LEMMA RecoveredClean ==
    ASSUME Going, NEW p \in Procs, NEW s \in Sessions, RecoverDone(p, s)
    PROVE  PendingToolUsesIn(InheritedEntries(file', s) \o file'[s]) = {}
  <1>1. /\ pc[p][s] = "recovering" /\ PendingToolUsesIn(Entries(p, s)) = {}
        /\ \/ UNCHANGED <<file, buf>> /\ buf[p][s] = <<>>
           \/ SyncTo(s, buf[p][s])
    BY DEF RecoverDone, disk
  <1>2. Agrees(p, s) /\ file[s] # <<>>
    BY <1>1 DEF Going, OnceInv, Before, ChainInv, Slot, Remembers
  <1>3. own[p][s] = file[s] \o buf[p][s] /\ inh[p][s] = InheritedEntries(file, s)
    BY <1>1, <1>2 DEF Agrees, Reads
  <1>4. buf[p][s] \in Seq(Entry) /\ file[s] \in Seq(Entry) /\ <<>> \in Seq(Entry)
    BY DEF Going, Before, TypeOK, ChainInv, Chains, Logs
  <1>5. CASE UNCHANGED <<file, buf>> /\ buf[p][s] = <<>>
    <2>1. own[p][s] = file[s]
      BY <1>3, <1>4, <1>5, EndsAtOnce
    <2>2. QED
      BY <1>1, <1>3, <1>5, <2>1 DEF Entries
  <1>6. CASE SyncTo(s, buf[p][s])
    <2>1. file' = [file EXCEPT ![s] = @ \o buf[p][s]]
      BY <1>6, FlushedIs DEF Going, SyncTo
    <2>2. /\ Moved(file, synced, file', synced') /\ Same(file, file', s)
          /\ file'[s] = own[p][s]
      BY <1>2, <1>3, <1>4, <2>1, GrowsMoves
    <2>3. InheritedEntries(file', s) = inh[p][s]
      BY <1>3, <2>2, HomeStays
    <2>4. QED
      BY <1>1, <2>2, <2>3 DEF Entries
  <1>7. QED
    BY <1>1, <1>5, <1>6

\* When one process writes and no write fails or stops in the middle of a line, a session that Load
\* returns has a result on disk for every tool_use that it or its parents issued: nobody who reads
\* that log again finds anything pending (Recover and its Sync).
THEOREM LoadRepairs ==
    ASSUME ~TornWrites, MaxFaults = 0, \A p, q \in Procs : p = q
    PROVE  Spec => LoadLeavesNothingPending
  <1>0. Lone
    BY DEF Lone
  <1> DEFINE Clean == \A p \in Procs, s \in Sessions :
                 pc[p][s] = "recovering" /\ pc'[p][s] = "open" =>
                     PendingToolUsesIn(InheritedEntries(file', s) \o file'[s]) = {}
  <1>1. /\ TypeOK /\ TypeOK' /\ SyncedInFile /\ LockedWhileOpen
        /\ NoTail /\ ChainInv /\ OnceInv /\ [Next]_vars
        => Clean
    <2> SUFFICES ASSUME TypeOK, TypeOK', SyncedInFile, LockedWhileOpen, NoTail, ChainInv, OnceInv,
                        [Next]_vars
                 PROVE  Clean
      OBVIOUS
    <2>1. Going
      BY <1>0, GoingIs
    <2>2. ASSUME NEW p \in Procs, NEW s \in Sessions, pc[p][s] = "recovering", pc'[p][s] = "open"
          PROVE  PendingToolUsesIn(InheritedEntries(file', s) \o file'[s]) = {}
      <3>1. RecoverDone(p, s)
        BY <2>1, <2>2, OpenedBy
      <3>2. QED
        BY <2>1, <3>1, RecoveredClean
    <2>3. QED
      BY <2>2
  <1>2. Spec => [](NoTail /\ ChainInv /\ OnceInv)
    BY <1>0, OnceInvariant
  <1>3. Spec => [][Clean]_vars
    <2> HIDE DEF Clean
    <2>1. QED
      BY <1>1, <1>2, TypeCorrect, OneWriter, SyncedInvariant, PTL DEF Spec
  <1>4. QED
    BY <1>3 DEF LoadLeavesNothingPending
=============================================================================
