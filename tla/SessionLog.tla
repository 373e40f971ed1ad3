------------------------------ MODULE SessionLog ------------------------------
(***************************************************************************)
(* The append-only session log of internal/session: one entries.jsonl per  *)
(* session directory, written through a 64 KiB buffer by the one process   *)
(* that holds the directory's flock, read back by Load, repaired by        *)
(* Recover and shared with children by Fork.                               *)
(*                                                                         *)
(* A log line is an entry, or Bad: bytes that end in a newline and do not  *)
(* parse.  A file may also end in a partial line without a newline.  `tail'*)
(* says whose it is: "live" while the writer that owns it still has the    *)
(* rest in its buffer, "dead" once that writer is gone.                    *)
(***************************************************************************)
EXTENDS Integers, Sequences, FiniteSets

CONSTANTS
    Procs,          \* rudy processes that share one store
    Sessions,       \* session directories
    Uses,           \* tool_use ids, each issued by one assistant message
    MaxIds,         \* bound: entries ever created (NewID calls)
    MaxCrashes,     \* bound: process deaths and power losses
    MaxFaults,      \* bound: write or fsync calls that fail
    MaxForkDepth,   \* the fork chain limit, 64 in the code
    TornWrites,     \* may a flush stop in the middle of a line
    None            \* no process, no session, no use

ASSUME SessionLogAssumption ==
    /\ MaxIds \in Nat /\ MaxCrashes \in Nat /\ MaxFaults \in Nat
    /\ MaxForkDepth \in Nat
    /\ TornWrites \in BOOLEAN
    /\ None \notin Procs \cup Sessions \cup Uses

VARIABLES
    file,      \* file[s]: complete lines a reader of the directory sees
    synced,    \* synced[s]: how many of them fsync has made durable
    tail,      \* tail[s]: "none", "live" or "dead" partial last line
    lock,      \* lock[s]: the process holding the flock, or None
    pc,        \* pc[p][s]: where process p is with session s
    own,       \* own[p][s]: Session.own, this log's entries in memory
    inh,       \* inh[p][s]: Session.inherited
    buf,       \* buf[p][s]: entries in the bufio.Writer, not in the file
    issued,    \* tool_use ids a provider has handed out
    granted,   \* granted[p]: <<session, use>> whose allow Append returned to a turn of p
    ran,       \* <<session, use>> whose tool a turn has started
    nextId,    \* NewID
    crashes, faults

disk == <<file, synced, tail>>
mem == <<pc, own, inh, buf>>
vars == <<file, synced, tail, lock, pc, own, inh, buf, issued, granted, ran, nextId, crashes, faults>>

-----------------------------------------------------------------------------
(* Entries.  A payload is its kind and what the log's rules look at.       *)

Kinds == {"session_opened", "fork_point", "message", "assistant_message",
          "allow", "deny", "tool_result"}

Entry == [id: Nat, kind: Kinds, use: Uses \cup {None},
          parent: Sessions \cup {None}, at: Nat]

Bad == [id |-> 0, kind |-> "bad", use |-> None, parent |-> None, at |-> 0]

Line == Entry \cup {Bad}

NewEntry(n, k, u) == [id |-> n, kind |-> k, use |-> u, parent |-> None, at |-> 0]

ForkPoint(n, s, e) ==
    [id |-> n, kind |-> "fork_point", use |-> None, parent |-> s, at |-> e]

Prefix(q, n) == SubSeq(q, 1, n)

-----------------------------------------------------------------------------
(* What the log says, of any sequence of entries.                          *)

HasUse(q, u) == \E i \in DOMAIN q : q[i].kind = "assistant_message" /\ q[i].use = u

HasResult(q, u) == \E i \in DOMAIN q : q[i].kind = "tool_result" /\ q[i].use = u

HasDecision(q, u) == \E i \in DOMAIN q : q[i].kind \in {"allow", "deny"} /\ q[i].use = u

Allowed(q, u) == \E i \in DOMAIN q : q[i].kind = "allow" /\ q[i].use = u

\* PendingToolUsesIn: tool_use blocks with no tool_result yet.
PendingToolUsesIn(q) == {u \in Uses : HasUse(q, u) /\ ~HasResult(q, u)}

Entries(p, s) == inh[p][s] \o own[p][s]

-----------------------------------------------------------------------------
(* Reading a log back.                                                     *)

\* ReadLog drops a partial last line, so the complete lines are the entries; a
\* malformed line that ends in a newline fails the whole read.
Readable(f, s) == \A i \in DOMAIN f[s] : f[s][i] # Bad

\* The prefix of q up to the entry named e, or nothing when it is not there.
UpTo(q, e) ==
    IF \E i \in DOMAIN q : q[i].id = e
    THEN Prefix(q, CHOOSE i \in DOMAIN q : q[i].id = e)
    ELSE <<>>

Forked(f, s) == f[s] # <<>> /\ f[s][1].kind = "fork_point"

\* inheritedEntries, by fork depth: the parent chain up to the fork entry.
\* A chain deeper than the limit, an unreadable parent or a missing fork entry
\* is an error, which the empty sequence stands for.
InheritedTo(f) ==
    LET I[d \in 0..MaxForkDepth + 1] ==
            [s \in Sessions |->
                IF d = 0 \/ ~Forked(f, s) THEN <<>>
                ELSE LET up == f[s][1].parent
                     IN  IF \/ ~Readable(f, up) \/ f[up] = <<>>
                            \/ Forked(f, up) /\ I[d - 1][up] = <<>>
                         THEN <<>>
                         ELSE UpTo(I[d - 1][up] \o f[up], f[s][1].at)]
    IN  I

InheritedAt(f) == InheritedTo(f)[MaxForkDepth + 1]

InheritedEntries(f, s) == InheritedAt(f)[s]

\* Load refuses an empty or malformed log and an unresolved fork.
Loads(f, s) ==
    /\ Readable(f, s) /\ f[s] # <<>>
    /\ f[s][1].kind \in {"session_opened", "fork_point"}
    /\ \A i \in 1..Len(f[s]) - 1 : f[s][i].id < f[s][i + 1].id
    /\ Forked(f, s) => InheritedEntries(f, s) # <<>>

-----------------------------------------------------------------------------
(* Writing: bufio, flush and fsync.                                        *)

\* The lines of the file once q is flushed after what it holds.  A dead partial
\* line swallows the first line that is written after it.
Flushed(s, q) ==
    IF tail[s] = "dead" /\ q # <<>> THEN file[s] \o <<Bad>> \o Tail(q) ELSE file[s] \o q

\* What the file may end in once the first n lines of q are flushed: nothing,
\* or the first bytes of the next line.
TailsAfter(s, q, n) ==
    {IF n = 0 THEN tail[s] ELSE "none"} \cup
    (IF TornWrites /\ n < Len(q)
     THEN {IF n = 0 /\ tail[s] = "dead" THEN "dead" ELSE "live"} ELSE {})

\* A partial line whose writer will not finish it.
Orphaned(t) == IF t = "live" THEN "dead" ELSE t

\* log.Sync with q in the buffer: Flush, then fsync.
SyncTo(s, q) ==
    /\ file' = [file EXCEPT ![s] = Flushed(s, q)]
    /\ synced' = [synced EXCEPT ![s] = Len(Flushed(s, q))]
    /\ tail' = [tail EXCEPT ![s] = IF q = <<>> THEN @ ELSE "none"]

Put(f, p, s, v) == [f EXCEPT ![p][s] = v]

\* The session is closed in this process and its flock released.
Forget(p, s) ==
    /\ lock' = [lock EXCEPT ![s] = None]
    /\ pc' = Put(pc, p, s, "none")
    /\ own' = Put(own, p, s, <<>>)
    /\ inh' = Put(inh, p, s, <<>>)
    /\ buf' = Put(buf, p, s, <<>>)

\* Fork holds the parent's mutex until the child's fork_point is on disk.
MuFree(p, s) == \A c \in Sessions :
    pc[p][c] = "creating" /\ buf[p][c] # <<>> => buf[p][c][1].parent # s

-----------------------------------------------------------------------------
Init ==
    /\ file = [s \in Sessions |-> <<>>]
    /\ synced = [s \in Sessions |-> 0]
    /\ tail = [s \in Sessions |-> "none"]
    /\ lock = [s \in Sessions |-> None]
    /\ pc = [p \in Procs |-> [s \in Sessions |-> "none"]]
    /\ own = [p \in Procs |-> [s \in Sessions |-> <<>>]]
    /\ inh = [p \in Procs |-> [s \in Sessions |-> <<>>]]
    /\ buf = [p \in Procs |-> [s \in Sessions |-> <<>>]]
    /\ issued = {}
    /\ granted = [p \in Procs |-> {}]
    /\ ran = {}
    /\ nextId = 1
    /\ crashes = 0
    /\ faults = 0

\* create for a new id: the directory does not exist, its flock is taken and the
\* first entry is buffered.
Create(p, s, first, inherited) ==
    /\ nextId <= MaxIds
    /\ lock[s] = None
    /\ file[s] = <<>> /\ tail[s] = "none"
    /\ \A q \in Procs : pc[q][s] = "none"
    /\ lock' = [lock EXCEPT ![s] = p]
    /\ pc' = Put(pc, p, s, "creating")
    /\ own' = Put(own, p, s, <<first>>)
    /\ inh' = Put(inh, p, s, inherited)
    /\ nextId' = nextId + 1
    /\ UNCHANGED <<issued, granted, ran, crashes, faults>>

Open(p, s) ==
    LET first == NewEntry(nextId, "session_opened", None)
    IN  /\ Create(p, s, first, <<>>)
        /\ buf' = Put(buf, p, s, <<first>>)
        /\ UNCHANGED disk

\* Mutant: the parent is not synced first.
Fork_NoSync(p, s, c, at) ==
    LET first == ForkPoint(nextId, s, at)
    IN  /\ pc[p][s] = "open" /\ MuFree(p, s)
        /\ \E i \in DOMAIN Entries(p, s) : Entries(p, s)[i].id = at
        /\ Create(p, c, first, UpTo(Entries(p, s), at))
        /\ buf' = Put(buf, p, c, <<first>>)
        /\ UNCHANGED disk

\* Fork syncs the parent, cuts its entries at `at' and creates the child.
Fork(p, s, c, at) ==
    LET first == ForkPoint(nextId, s, at)
    IN  /\ pc[p][s] = "open" /\ MuFree(p, s)
        /\ \E i \in DOMAIN Entries(p, s) : Entries(p, s)[i].id = at
        /\ Create(p, c, first, UpTo(Entries(p, s), at))
        /\ buf' = [buf EXCEPT ![p][s] = <<>>, ![p][c] = <<first>>]
        /\ SyncTo(s, buf[p][s])

\* Open and Fork return once the first entry is on disk.
CreateSync(p, s) ==
    /\ pc[p][s] = "creating"
    /\ SyncTo(s, buf[p][s])
    /\ buf' = Put(buf, p, s, <<>>)
    /\ pc' = Put(pc, p, s, "open")
    /\ UNCHANGED <<lock, own, inh, issued, granted, ran, nextId, crashes, faults>>

-----------------------------------------------------------------------------
(* Append: the rules, then the buffer, then an fsync for an allow.         *)

\* Mutant: no decision is synced.
durableAllow_Never(k) == FALSE

\* Only an allow is on disk before Append returns.
durableAllow(k) == k = "allow"

\* Mutant: a tool_result is not checked against the pending uses.
AppendRule_AnyResult(p, s, k, u) ==
    IF k \in {"allow", "deny"}
    THEN u \in PendingToolUsesIn(Entries(p, s)) /\ ~HasDecision(Entries(p, s), u)
    ELSE k = "tool_result" => HasDecision(Entries(p, s), u)

AppendRule(p, s, k, u) ==
    CASE k \in {"allow", "deny"} -> /\ u \in PendingToolUsesIn(Entries(p, s))
                                    /\ ~HasDecision(Entries(p, s), u)
      [] k = "tool_result"       -> /\ u \in PendingToolUsesIn(Entries(p, s))
                                    /\ HasDecision(Entries(p, s), u)
      [] OTHER                   -> Entries(p, s) # <<>>

\* A provider hands out a tool_use id once.
Issue(k, u) ==
    IF k = "assistant_message"
    THEN u \notin issued /\ issued' = issued \cup {u}
    ELSE UNCHANGED issued

AppendPayload(p, s, k, u) ==
    LET e == NewEntry(nextId, k, u)
        q == Append(buf[p][s], e)
    IN  /\ pc[p][s] = "open" /\ MuFree(p, s)
        /\ nextId <= MaxIds
        /\ AppendRule(p, s, k, u)
        /\ Issue(k, u)
        /\ own' = Put(own, p, s, Append(own[p][s], e))
        /\ nextId' = nextId + 1
        /\ IF durableAllow(k)
           THEN SyncTo(s, q) /\ buf' = Put(buf, p, s, <<>>)
           ELSE UNCHANGED disk /\ buf' = Put(buf, p, s, q)
        /\ granted' = IF k = "allow" THEN [granted EXCEPT ![p] = @ \cup {<<s, u>>}] ELSE granted
        /\ UNCHANGED <<lock, pc, inh, ran, crashes, faults>>

\* The turn that got the allow starts the tool, even on a session closed meanwhile.
RunTool(p, s, u) ==
    /\ <<s, u>> \in granted[p]
    /\ granted' = [granted EXCEPT ![p] = @ \ {<<s, u>>}]
    /\ ran' = ran \cup {<<s, u>>}
    /\ UNCHANGED <<disk, lock, mem, issued, nextId, crashes, faults>>

Sync(p, s) ==
    /\ pc[p][s] = "open" /\ MuFree(p, s)
    /\ buf[p][s] # <<>>
    /\ SyncTo(s, buf[p][s])
    /\ buf' = Put(buf, p, s, <<>>)
    /\ UNCHANGED <<lock, pc, own, inh, issued, granted, ran, nextId, crashes, faults>>

Close(p, s) ==
    /\ pc[p][s] = "open" /\ MuFree(p, s)
    /\ SyncTo(s, buf[p][s])
    /\ Forget(p, s)
    /\ UNCHANGED <<issued, granted, ran, nextId, crashes, faults>>

\* A log whose flush failed once: bufio keeps the error, so only Close works.
CloseBroken(p, s) ==
    /\ pc[p][s] = "broken"
    /\ Forget(p, s)
    /\ UNCHANGED <<disk, issued, granted, ran, nextId, crashes, faults>>

\* The 64 KiB buffer overflows and bufio writes some of it out, not at a line end.
Spill(p, s) ==
    /\ pc[p][s] \in {"open", "recovering"}
    /\ \E n \in 0..Len(buf[p][s]) : \E t \in TailsAfter(s, buf[p][s], n) :
        /\ file' = [file EXCEPT ![s] = Flushed(s, Prefix(buf[p][s], n))]
        /\ tail' = [tail EXCEPT ![s] = t]
        /\ buf' = Put(buf, p, s, SubSeq(buf[p][s], n + 1, Len(buf[p][s])))
        /\ n > 0 \/ t # tail[s]
    /\ UNCHANGED <<synced, lock, pc, own, inh, issued, granted, ran, nextId, crashes, faults>>

-----------------------------------------------------------------------------
(* Failing writes.                                                         *)

\* A failed write or fsync ends a creation or a recovery with Close; a log that
\* was already open stays open, unusable after a failed write.
Failed(p, s, next) ==
    IF pc[p][s] = "open"
    THEN pc' = Put(pc, p, s, next) /\ UNCHANGED <<lock, own, inh, buf>>
    ELSE Forget(p, s)

\* Flush writes n lines of the buffer q, perhaps part of another, and errors.
FlushFails(p, s, q) ==
    /\ \E n \in 0..Len(q) - 1 : \E t \in TailsAfter(s, q, n) :
        /\ file' = [file EXCEPT ![s] = Flushed(s, Prefix(q, n))]
        /\ tail' = [tail EXCEPT ![s] = Orphaned(t)]
    /\ Failed(p, s, "broken")
    /\ UNCHANGED synced

\* Flush writes all of q and the fsync errors.
FsyncFails(p, s, q) ==
    /\ file' = [file EXCEPT ![s] = Flushed(s, q)]
    /\ tail' = [tail EXCEPT ![s] = IF q = <<>> THEN @ ELSE "none"]
    /\ IF pc[p][s] = "open"
       THEN buf' = Put(buf, p, s, <<>>) /\ UNCHANGED <<lock, pc, own, inh>>
       ELSE Forget(p, s)
    /\ UNCHANGED synced

SyncFails(p, s) ==
    /\ pc[p][s] \in {"creating", "recovering", "open"} /\ MuFree(p, s)
    /\ buf[p][s] # <<>>
    /\ faults < MaxFaults /\ faults' = faults + 1
    /\ FlushFails(p, s, buf[p][s]) \/ FsyncFails(p, s, buf[p][s])
    /\ UNCHANGED <<issued, granted, ran, nextId, crashes>>

\* Append of an allow whose Sync fails: the line is written, or half written,
\* and the entry is not in Session.own.
AppendAllowFails(p, s, u) ==
    LET q == Append(buf[p][s], NewEntry(nextId, "allow", u))
    IN  /\ pc[p][s] = "open" /\ MuFree(p, s)
        /\ nextId <= MaxIds
        /\ AppendRule(p, s, "allow", u)
        /\ faults < MaxFaults /\ faults' = faults + 1
        /\ nextId' = nextId + 1
        /\ FlushFails(p, s, q) \/ FsyncFails(p, s, q)
        /\ UNCHANGED <<issued, granted, ran, crashes>>

-----------------------------------------------------------------------------
(* Load and Recover.                                                       *)

\* Load reads the log and its fork chain before it takes the lock.
LoadRead(p, s) ==
    /\ pc[p][s] = "none"
    /\ Loads(file, s)
    /\ pc' = Put(pc, p, s, "read")
    /\ own' = Put(own, p, s, file[s])
    /\ inh' = Put(inh, p, s, InheritedEntries(file, s))
    /\ UNCHANGED <<disk, lock, buf, issued, granted, ran, nextId, crashes, faults>>

\* Mutant: the flock is not tried.
LoadLock_NoLock(p, s) ==
    /\ pc[p][s] = "read"
    /\ lock' = [lock EXCEPT ![s] = p]
    /\ pc' = Put(pc, p, s, "recovering")
    /\ UNCHANGED <<disk, own, inh, buf, issued, granted, ran, nextId, crashes, faults>>

\* Mutant: the log is opened with O_TRUNC.
LoadLock_Truncates(p, s) ==
    /\ pc[p][s] = "read" /\ lock[s] = None
    /\ lock' = [lock EXCEPT ![s] = p]
    /\ pc' = Put(pc, p, s, "recovering")
    /\ file' = [file EXCEPT ![s] = <<>>]
    /\ UNCHANGED <<synced, tail, own, inh, buf, issued, granted, ran, nextId, crashes, faults>>

LoadLock(p, s) ==
    /\ pc[p][s] = "read" /\ lock[s] = None
    /\ lock' = [lock EXCEPT ![s] = p]
    /\ pc' = Put(pc, p, s, "recovering")
    /\ UNCHANGED <<disk, own, inh, buf, issued, granted, ran, nextId, crashes, faults>>

\* ErrLocked.
LoadRefused(p, s) ==
    /\ pc[p][s] = "read" /\ lock[s] # None
    /\ pc' = Put(pc, p, s, "none")
    /\ own' = Put(own, p, s, <<>>)
    /\ inh' = Put(inh, p, s, <<>>)
    /\ UNCHANGED <<disk, lock, buf, issued, granted, ran, nextId, crashes, faults>>

\* Recover, one pending tool_use: a deny when nothing was decided, then the
\* result nobody recorded.
RecoveryOf(p, s, u) ==
    IF HasDecision(Entries(p, s), u)
    THEN <<NewEntry(nextId, "tool_result", u)>>
    ELSE <<NewEntry(nextId, "deny", u), NewEntry(nextId + 1, "tool_result", u)>>

RecoverUse(p, s, u) ==
    LET r == RecoveryOf(p, s, u)
    IN  /\ pc[p][s] = "recovering"
        /\ u \in PendingToolUsesIn(Entries(p, s))
        /\ own' = Put(own, p, s, own[p][s] \o r)
        /\ buf' = Put(buf, p, s, buf[p][s] \o r)
        /\ nextId' = nextId + Len(r)
        /\ UNCHANGED <<disk, lock, pc, inh, issued, granted, ran, crashes, faults>>

\* Mutant: what recovery appended is not synced.
RecoverDone_NoSync(p, s) ==
    /\ pc[p][s] = "recovering"
    /\ PendingToolUsesIn(Entries(p, s)) = {}
    /\ pc' = Put(pc, p, s, "open")
    /\ UNCHANGED <<disk, buf, lock, own, inh, issued, granted, ran, nextId, crashes, faults>>

\* Recover syncs what it appended and Load returns the session.
RecoverDone(p, s) ==
    /\ pc[p][s] = "recovering"
    /\ PendingToolUsesIn(Entries(p, s)) = {}
    /\ pc' = Put(pc, p, s, "open")
    /\ IF buf[p][s] = <<>>
       THEN UNCHANGED <<disk, buf>>
       ELSE SyncTo(s, buf[p][s]) /\ buf' = Put(buf, p, s, <<>>)
    /\ UNCHANGED <<lock, own, inh, issued, granted, ran, nextId, crashes, faults>>

-----------------------------------------------------------------------------
(* The environment: a process dies, the machine loses power.               *)

Crash(p) ==
    /\ crashes < MaxCrashes /\ crashes' = crashes + 1
    /\ \E s \in Sessions : pc[p][s] # "none"
    /\ tail' = [s \in Sessions |-> IF lock[s] = p THEN Orphaned(tail[s]) ELSE tail[s]]
    /\ lock' = [s \in Sessions |-> IF lock[s] = p THEN None ELSE lock[s]]
    /\ pc' = [pc EXCEPT ![p] = [s \in Sessions |-> "none"]]
    /\ own' = [own EXCEPT ![p] = [s \in Sessions |-> <<>>]]
    /\ inh' = [inh EXCEPT ![p] = [s \in Sessions |-> <<>>]]
    /\ buf' = [buf EXCEPT ![p] = [s \in Sessions |-> <<>>]]
    /\ granted' = [granted EXCEPT ![p] = {}]
    /\ UNCHANGED <<file, synced, issued, ran, nextId, faults>>

\* Lines that were never fsynced may be gone, or cut in the middle.
PowerLoss ==
    /\ crashes < MaxCrashes /\ crashes' = crashes + 1
    /\ \E keep \in [Sessions -> 0..nextId] : \E torn \in SUBSET Sessions :
        /\ \A s \in Sessions : keep[s] \in synced[s]..Len(file[s])
        /\ \A s \in torn : /\ TornWrites
                           /\ keep[s] < Len(file[s]) \/ tail[s] # "none"
        /\ file' = [s \in Sessions |-> Prefix(file[s], keep[s])]
        /\ synced' = keep
        /\ tail' = [s \in Sessions |-> IF s \in torn THEN "dead" ELSE "none"]
    /\ lock' = [s \in Sessions |-> None]
    /\ pc' = [p \in Procs |-> [s \in Sessions |-> "none"]]
    /\ own' = [p \in Procs |-> [s \in Sessions |-> <<>>]]
    /\ inh' = [p \in Procs |-> [s \in Sessions |-> <<>>]]
    /\ buf' = [p \in Procs |-> [s \in Sessions |-> <<>>]]
    /\ granted' = [p \in Procs |-> {}]
    /\ UNCHANGED <<issued, ran, nextId, faults>>

-----------------------------------------------------------------------------
SessionStep(p, s) ==
    \/ Open(p, s)
    \/ \E c \in Sessions \ {s} : \E at \in 1..MaxIds : Fork(p, s, c, at)
    \/ CreateSync(p, s)
    \/ AppendPayload(p, s, "message", None)
    \/ \E u \in Uses : \E k \in {"assistant_message", "allow", "deny", "tool_result"} :
            AppendPayload(p, s, k, u)
    \/ \E u \in Uses : RunTool(p, s, u)
    \/ Sync(p, s)
    \/ Close(p, s)
    \/ CloseBroken(p, s)
    \/ Spill(p, s)
    \/ SyncFails(p, s)
    \/ \E u \in Uses : AppendAllowFails(p, s, u)
    \/ LoadRead(p, s)
    \/ LoadLock(p, s)
    \/ LoadRefused(p, s)
    \/ \E u \in Uses : RecoverUse(p, s, u)
    \/ RecoverDone(p, s)

Next ==
    \/ \E p \in Procs : \E s \in Sessions : SessionStep(p, s)
    \/ \E p \in Procs : Crash(p)
    \/ PowerLoss

Spec == Init /\ [][Next]_vars

-----------------------------------------------------------------------------
(* Properties.                                                             *)

States == {"none", "creating", "read", "recovering", "open", "broken"}

\* Every variable keeps its shape: the structures session.go and log.go declare.
\* inh is what InheritedEntries computes; MemoryIsLog says which value.
TypeOK ==
    /\ file \in [Sessions -> Seq(Line)]
    /\ synced \in [Sessions -> Nat]
    /\ tail \in [Sessions -> {"none", "live", "dead"}]
    /\ lock \in [Sessions -> Procs \cup {None}]
    /\ pc \in [Procs -> [Sessions -> States]]
    /\ own \in [Procs -> [Sessions -> Seq(Entry)]]
    /\ buf \in [Procs -> [Sessions -> Seq(Entry)]]
    /\ issued \in SUBSET Uses
    /\ granted \in [Procs -> SUBSET (Sessions \X Uses)]
    /\ ran \in SUBSET (Sessions \X Uses)
    /\ nextId \in Nat \ {0} /\ crashes \in Nat /\ faults \in Nat

Writer == {"creating", "recovering", "open", "broken"}

\* A process has a session open for writing exactly while it holds the flock of
\* its directory (create, Close): two processes never write one log at once.
LockedWhileOpen ==
    \A p \in Procs, s \in Sessions : pc[p][s] \in Writer <=> lock[s] = p

Durable(s, u) ==
    \E i \in 1..synced[s] : file[s][i].kind = "allow" /\ file[s][i].use = u

\* An allow is durable before its tool runs (Append fsyncs it before it returns):
\* whatever fails next, a tool that ran has its allow in the fsynced part of the
\* log of its session.
AllowDurableBeforeRun == \A r \in ran : Durable(r[1], r[2])

\* A tool_use has at most one decision and at most one tool_result in a log and
\* the chain it inherits.
OneResultPerUse ==
    \A s \in Sessions : \A u \in Uses :
        LET all == InheritedEntries(file, s) \o file[s]
        IN  /\ Cardinality({i \in DOMAIN all : all[i].kind = "tool_result" /\ all[i].use = u}) <= 1
            /\ Cardinality({i \in DOMAIN all : all[i].kind \in {"allow", "deny"} /\ all[i].use = u}) <= 1

\* c is s, its parent, and so on for n generations, every one of them a fork.
ForkedTo(f, s, n) ==
    \E c \in [0..n -> Sessions] :
        /\ c[0] = s
        /\ \A i \in 0..n : Forked(f, c[i])
        /\ \A i \in 0..n - 1 : c[i + 1] = f[c[i]][1].parent

\* The parent's bytes are on disk before the child exists: a log that starts with
\* a fork_point always resolves to a readable chain that ends at its fork entry,
\* unless the chain has more generations than Load follows.
ForkResolves ==
    \A s \in Sessions :
        Forked(file, s) /\ ~ForkedTo(file, s, MaxForkDepth + 1) =>
            /\ InheritedEntries(file, s) # <<>>
            /\ InheritedEntries(file, s)[Len(InheritedEntries(file, s))].id = file[s][1].at

\* Until a write fails, a process that has a session open remembers the log a
\* reload would read once the buffer is flushed (Load, Append).
MemoryIsLog ==
    faults = 0 => \A p \in Procs, s \in Sessions :
        pc[p][s] \in {"creating", "recovering", "open"} =>
            /\ own[p][s] = Flushed(s, buf[p][s])
            /\ file[s] # <<>> => inh[p][s] = InheritedEntries(file, s)

\* Load accepts a truncated last line because a process died mid-append; a log
\* that a crash left is one the next Load can still read.
SurvivesTornTail == \A s \in Sessions : Readable(file, s)

\* What fsync made durable is never rewritten or lost: the file is opened for
\* append only, and a crash drops lines only from the part that was not synced.
SyncedPrefixStable ==
    [][\A s \in Sessions :
        /\ Len(file'[s]) >= synced[s]
        /\ Prefix(file'[s], synced[s]) = Prefix(file[s], synced[s])]_vars

\* A session that Load returns has a result for every tool_use it or its parents
\* issued, on disk (Recover and its Sync).
LoadLeavesNothingPending ==
    [][\A p \in Procs, s \in Sessions :
        pc[p][s] = "recovering" /\ pc'[p][s] = "open" =>
            PendingToolUsesIn(InheritedEntries(file', s) \o file'[s]) = {}]_vars

=============================================================================
