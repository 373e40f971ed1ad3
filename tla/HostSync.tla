------------------------------ MODULE HostSync ------------------------------
(***************************************************************************)
(* The working tree between this machine and a host (internal/cli/hosts):  *)
(* Sync takes it to the placement before a session opens there, Pull and   *)
(* the client's pullBack bring it home.  Every step is one git command,    *)
(* one ssh line or one rename, and may fail or be the last; the operator   *)
(* edits and commits here meanwhile and the session edits and commits on   *)
(* the host.  A file's content is a version, 0 where there is no file and  *)
(* Cut where an archive ended inside it.  A head is the sequence of trees  *)
(* committed, so that ancestor means prefix.                               *)
(***************************************************************************)
EXTENDS Integers, Sequences, SequencesExt, FiniteSets

CONSTANTS
    Files,          \* paths of the tree
    MaxEdits,       \* bound on the versions written, here and there together
    MaxCommits,     \* bound on the commits made
    MaxSyncs,       \* bound on the syncs and pulls begun
    Busy            \* may a turn left running on the host edit during a sync?

VARIABLES
    here,           \* this machine's tree: [git, head, wt]
    box,            \* the placement: [there, git, head, wt]
    job,            \* what the client is doing: [step, ...]
    copied,         \* dialed.copied: what the session runs on is a copy
    turn,           \* a session's turn is running on the host
    edits, commits, syncs, faults,
    byBox           \* the versions written on the host

counts == <<edits, commits, syncs, faults>>
vars == <<here, box, job, copied, turn, counts, byBox>>

Cut == -1
Nothing == [f \in Files |-> 0]
TreeOf(head) == IF head = <<>> THEN Nothing ELSE Last(head)

\* status --porcelain: anything that is not the head's, untracked files included.
Dirty(m) == m.wt # TreeOf(m.head)

\* diff-index: changes to tracked files only.
TrackedDirty(m) == \E f \in Files : TreeOf(m.head)[f] # 0 /\ m.wt[f] # TreeOf(m.head)[f]

\* changed: modified and untracked files, and separately the deleted ones.
Changed(m) == {f \in Files : m.wt[f] # 0 /\ m.wt[f] # TreeOf(m.head)[f]}
Deleted(m) == {f \in Files : m.wt[f] = 0 /\ TreeOf(m.head)[f] # 0}

Idle == [step |-> "none"]
At(step) == job.step = step
Goto(step) == job' = [job EXCEPT !.step = step]
Stop == job' = Idle

\* Laying files of src over a tree.
Over(wt, src, fs) == [f \in Files |-> IF f \in fs THEN src[f] ELSE wt[f]]

\* What an archive of the files fs that was cut short leaves: some of them, and one torn.
Partly(wt, src, fs) ==
    {Over(wt, src, got) : got \in SUBSET fs}
    \cup {[Over(wt, src, got) EXCEPT ![f] = Cut] : got \in SUBSET fs, f \in fs}

-----------------------------------------------------------------------------
(* Sync                                                                    *)

\* Local: the tree as it is when the sync begins, and how much was edited and committed by then.
Local ==
    /\ job = Idle /\ syncs < MaxSyncs
    /\ syncs' = syncs + 1
    /\ job' = [step |-> "inspect", was |-> here, saw |-> box, since |-> edits + commits,
               gone |-> {}]
    /\ UNCHANGED <<here, box, copied, turn, edits, commits, faults, byBox>>

\* Inspect: the placement, in one round trip.
Inspect ==
    /\ At("inspect")
    /\ job' = [job EXCEPT !.step = "decide", !.saw = box]
    /\ UNCHANGED <<here, box, copied, turn, counts, byBox>>

\* ancestry: nothing to ask without a head here; a fetch that fails reads as nothing to lose.
Ancestry(fetched) ==
    IF job.was.head = <<>> THEN [behind |-> FALSE, ahead |-> FALSE]
    ELSE IF ~fetched THEN [behind |-> TRUE, ahead |-> FALSE]
    ELSE [behind |-> IsPrefix(box.head, job.was.head), ahead |-> IsPrefix(job.was.head, box.head)]

\* Decide: the table, from the tree here, what Inspect saw and the ancestry.
Decide(local, remote, anc) ==
    IF ~local.git THEN (IF remote.there THEN "asis" ELSE "copy")
    ELSE IF ~remote.there THEN "push"
    ELSE IF ~remote.git THEN "refuse"
    ELSE IF Dirty(remote) THEN "asis"
    ELSE IF anc.behind THEN "push"
    ELSE IF anc.ahead THEN "asis"
    ELSE "refuse"

\* SyncCopied, from the answer to its plan.  The branch is not on a host without a commit.
Plan ==
    /\ At("decide")
    /\ \E fetched \in BOOLEAN :
         /\ fetched => box.head # <<>>
         /\ LET plan == Decide(job.was, job.saw, Ancestry(fetched)) IN
              /\ job' = CASE plan = "push" -> [job EXCEPT !.step = "prepare"]
                          [] plan = "copy" -> [job EXCEPT !.step = "copy"]
                          [] plan = "asis" -> [step |-> "open"]
                          [] plan = "refuse" -> Idle
              /\ copied' = IF plan = "asis" THEN ~job.was.git ELSE copied
    /\ UNCHANGED <<here, box, turn, counts, byBox>>

\* Push makes the checkout unless it is one.
Prepare ==
    /\ At("prepare")
    /\ box' = [box EXCEPT !.there = TRUE, !.git = TRUE]
    /\ Goto("push")
    /\ UNCHANGED <<here, copied, turn, counts, byBox>>

\* Mutant: the push is forced.
GitPush_Forced ==
    /\ At("push")
    /\ IF here.head = <<>> THEN Goto("tar") /\ UNCHANGED box
       ELSE Goto("tar") /\ box' = [box EXCEPT !.head = here.head, !.wt = TreeOf(here.head)]
    /\ UNCHANGED <<here, copied, turn, counts, byBox>>

\* git push and checkout: refused unless it fast-forwards a clean tree; a branch without a
\* commit has nothing to push.
GitPush ==
    /\ At("push")
    /\ IF here.head = <<>> THEN Goto("tar") /\ UNCHANGED box
       ELSE IF IsPrefix(box.head, here.head) /\ ~Dirty(box)
       THEN Goto("tar") /\ box' = [box EXCEPT !.head = here.head, !.wt = TreeOf(here.head)]
       ELSE Stop /\ UNCHANGED box
    /\ UNCHANGED <<here, copied, turn, counts, byBox>>

\* changed is read, and its files are sent as one archive.
SendChanged ==
    /\ At("tar")
    /\ box' = [box EXCEPT !.wt = Over(@, here.wt, Changed(here))]
    /\ job' = [job EXCEPT !.step = "rm", !.gone = Deleted(here)]
    /\ UNCHANGED <<here, copied, turn, counts, byBox>>

\* Mutant: what was deleted here is not removed there.
RemoveOnHost_Skips ==
    /\ At("rm")
    /\ Goto("pushed") /\ copied' = FALSE
    /\ UNCHANGED <<here, box, turn, counts, byBox>>

\* removeOnHost, after which the sync is over and the session opens.
RemoveOnHost ==
    /\ At("rm")
    /\ box' = [box EXCEPT !.wt = Over(@, Nothing, job.gone)]
    /\ Goto("pushed") /\ copied' = FALSE
    /\ UNCHANGED <<here, turn, counts, byBox>>

\* Copy: every file, to a placement that was not there.
CopyTree ==
    /\ At("copy")
    /\ box' = [box EXCEPT !.there = TRUE, !.wt = Over(@, here.wt, {f \in Files : here.wt[f] # 0})]
    /\ Goto("pushed") /\ copied' = TRUE
    /\ UNCHANGED <<here, turn, counts, byBox>>

\* The connection fails under an archive: some of it is on the host, and the sync is over.
ArchiveCut ==
    /\ job.step \in {"tar", "copy"} /\ faults < 1
    /\ faults' = faults + 1
    /\ LET fs == IF At("tar") THEN Changed(here) ELSE {f \in Files : here.wt[f] # 0}
       IN  \E wt \in Partly(box.wt, here.wt, fs) : box' = [box EXCEPT !.there = TRUE, !.wt = wt]
    /\ Stop
    /\ UNCHANGED <<here, copied, turn, edits, commits, syncs, byBox>>

\* Any other step fails, or the client dies.
Fails ==
    /\ job # Idle /\ faults < 1
    /\ faults' = faults + 1
    /\ Stop
    /\ UNCHANGED <<here, box, copied, turn, edits, commits, syncs, byBox>>

-----------------------------------------------------------------------------
(* The session, and the way back                                           *)

\* session.open on the placement, and the first turn.
OpenSession ==
    /\ job.step \in {"open", "pushed"}
    /\ turn' = TRUE
    /\ job' = [step |-> "session"]
    /\ UNCHANGED <<here, box, copied, counts, byBox>>

TurnEnds ==
    /\ turn /\ turn' = FALSE
    /\ UNCHANGED <<here, box, job, copied, counts, byBox>>

\* Pull reads the tree here afresh.
PullStart == [step |-> IF here.git THEN "fetch" ELSE "stream"]

\* The client closes; pullBack only for a copy, and only when no turn runs.
PullBack ==
    /\ At("session")
    /\ job' = IF copied /\ ~turn THEN PullStart ELSE Idle
    /\ UNCHANGED <<here, box, copied, turn, counts, byBox>>

\* rudy hosts pull.
Pull ==
    /\ job = Idle /\ syncs < MaxSyncs /\ box.there
    /\ syncs' = syncs + 1
    /\ job' = PullStart
    /\ UNCHANGED <<here, box, copied, turn, edits, commits, faults, byBox>>

\* pullGit: fetch, then refuse a dirty tree or one that has moved.
Fetch ==
    /\ At("fetch")
    /\ job' = IF box.head = <<>> \/ TrackedDirty(here) \/ ~IsPrefix(here.head, box.head) THEN Idle
              ELSE [step |-> "merge", fetched |-> box.head]
    /\ UNCHANGED <<here, box, copied, turn, counts, byBox>>

\* merge --ff-only: refused when the head has moved since or a file it writes has changed.
Merge ==
    /\ At("merge")
    /\ LET to == TreeOf(job.fetched)
           writes == {f \in Files : to[f] # TreeOf(here.head)[f]}
       IN  IF IsPrefix(here.head, job.fetched) /\ (\A f \in writes : here.wt[f] = TreeOf(here.head)[f])
           THEN here' = [here EXCEPT !.head = job.fetched, !.wt = Over(@, to, writes)]
           ELSE UNCHANGED here
    /\ Stop
    /\ UNCHANGED <<box, copied, turn, counts, byBox>>

\* pullCopy: the archive is staged.  A stream that ends between two entries reads as a whole
\* archive, and the exit status is only asked for after the move; one torn inside an entry,
\* and one whose places do not fit, moves nothing.
Unpack ==
    /\ At("stream")
    /\ LET fs == {f \in Files : box.wt[f] # 0} IN
         \/ job' = [step |-> "move", files |-> fs, src |-> box.wt] /\ UNCHANGED faults
         \/ /\ faults < 1 /\ faults' = faults + 1
            /\ \E got \in SUBSET fs : job' = [step |-> "move", files |-> got, src |-> box.wt]
         \/ Stop /\ UNCHANGED faults
    /\ UNCHANGED <<here, box, copied, turn, edits, commits, syncs, byBox>>

\* moveInto: one rename at a time.
Move ==
    /\ At("move")
    /\ \E f \in job.files :
         /\ here' = [here EXCEPT !.wt[f] = job.src[f]]
         /\ job' = IF job.files = {f} THEN Idle ELSE [job EXCEPT !.files = @ \ {f}]
    /\ UNCHANGED <<box, copied, turn, counts, byBox>>

MoveNothing ==
    /\ At("move") /\ job.files = {} /\ Stop
    /\ UNCHANGED <<here, box, copied, turn, counts, byBox>>

-----------------------------------------------------------------------------
(* The people and the agents                                               *)

EditHere(f, gone) ==
    /\ edits < MaxEdits /\ edits' = edits + 1
    /\ gone => here.wt[f] # 0
    /\ here' = [here EXCEPT !.wt[f] = IF gone THEN 0 ELSE edits + 1]
    /\ UNCHANGED <<box, job, copied, turn, commits, syncs, faults, byBox>>

CommitHere ==
    /\ here.git /\ Dirty(here) /\ commits < MaxCommits
    /\ commits' = commits + 1
    /\ here' = [here EXCEPT !.head = Append(@, here.wt)]
    /\ UNCHANGED <<box, job, copied, turn, edits, syncs, faults, byBox>>

\* The operator makes a plain tree a repository.
GitInit ==
    /\ ~here.git /\ job.step \in {"none", "session"} /\ here' = [here EXCEPT !.git = TRUE]
    /\ UNCHANGED <<box, job, copied, turn, counts, byBox>>

MayEdit == turn /\ (Busy \/ job.step \in {"none", "session"})

EditBox(f, gone) ==
    /\ MayEdit /\ edits < MaxEdits /\ edits' = edits + 1
    /\ gone => box.wt[f] # 0
    /\ box' = [box EXCEPT !.wt[f] = IF gone THEN 0 ELSE edits + 1]
    /\ byBox' = IF gone THEN byBox ELSE byBox \cup {edits + 1}
    /\ UNCHANGED <<here, job, copied, turn, commits, syncs, faults>>

CommitBox ==
    /\ MayEdit /\ box.git /\ Dirty(box) /\ commits < MaxCommits
    /\ commits' = commits + 1
    /\ box' = [box EXCEPT !.head = Append(@, box.wt)]
    /\ UNCHANGED <<here, job, copied, turn, edits, syncs, faults, byBox>>

-----------------------------------------------------------------------------
Init ==
    /\ here \in [git : BOOLEAN, head : {<<>>}, wt : {[f \in Files |-> 1]}]
    /\ box = [there |-> FALSE, git |-> FALSE, head |-> <<>>, wt |-> Nothing]
    /\ job = Idle /\ copied = FALSE /\ turn = FALSE
    /\ edits = 1 /\ commits = 0 /\ syncs = 0 /\ faults = 0 /\ byBox = {}

Syncing ==
    \/ Local \/ Inspect \/ Plan \/ Prepare \/ GitPush \/ SendChanged \/ RemoveOnHost
    \/ CopyTree \/ ArchiveCut \/ Fails \/ OpenSession

Pulling == PullBack \/ Pull \/ Fetch \/ Merge \/ Unpack \/ Move \/ MoveNothing

Working ==
    \/ \E f \in Files, gone \in BOOLEAN : EditHere(f, gone) \/ EditBox(f, gone)
    \/ CommitHere \/ GitInit \/ CommitBox \/ TurnEnds

Next == Syncing \/ Pulling \/ Working

Spec == Init /\ [][Next]_vars

-----------------------------------------------------------------------------
(* Properties                                                              *)

Committed(m) == {m.head[i] : i \in DOMAIN m.head}

\* A file's content is safe across a step when it is still there, or a commit has it.
Kept(wt, m) ==
    \A f \in Files : wt[f] \in {0, Cut} \/ m.wt[f] = wt[f] \/ \E t \in Committed(m) : t[f] = wt[f]

\* The box is truth whenever it holds work: no sync, whatever it saw and however it was cut,
\* overwrites on the host what no commit there has, or takes a commit from it.
BoxWorkKept ==
    [][Syncing \/ Pulling => Kept(box.wt, box') /\ IsPrefix(box.head, box'.head)]_vars

\* Nothing a checkout here holds is lost to a sync or a pull: what is not committed stays as
\* it is, and the head only moves forward, even when the tree changed after it was looked at.
CheckoutKept ==
    [][(Syncing \/ Pulling) /\ here.git => Kept(here.wt, here') /\ IsPrefix(here.head, here'.head)]_vars

\* Neither side of a sync loses work: the host's and this machine's.
NoWorkLost ==
    [][Syncing \/ Pulling =>
        /\ Kept(box.wt, box') /\ IsPrefix(box.head, box'.head)
        /\ here.git => Kept(here.wt, here') /\ IsPrefix(here.head, here'.head)]_vars

\* A session that opens after a push opens on this tree: when nothing here changed since the
\* sync began, the placement has its head, its uncommitted files and none of its deletions.
OpensThisTree == At("pushed") /\ job.since = edits + commits => box.wt = here.wt /\ box.head = here.head

\* "What the box changed wins and what it added arrives": a pull writes over a file here only
\* what was written on the box.
OnlyWhatTheBoxChanged ==
    [][Pulling => \A f \in Files : here'.wt[f] # here.wt[f] => here'.wt[f] \in byBox]_vars

==============================================================================
