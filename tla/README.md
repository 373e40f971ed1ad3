# rudy: a TLA+ verification project

rudy is a coding agent: one Go binary that is a terminal client, a headless
client and a server at once. A server process owns sessions. A session is an
append-only log; a turn runner drives it against a model provider and runs the
tools the model asks for, behind a permission gate that may put a question to
whichever connected client can answer. Or the session's turns run in a child
process, the Codex app server, and the server mirrors them. Plugins, linked or
spawned, add tools, providers, hooks and whole agent runtimes.

This directory holds TLA+ models of the parts of it where order matters, TLC
instances that check them, and TLAPS proofs. Paths below are relative to the
repository root.

## 1. Inventory

| Component | State it keeps | Operations | Talks to | What is hard |
|---|---|---|---|---|
| session log (`internal/session`) | `entries.jsonl`, a 64 KiB buffer, the flock, entries in memory, the inherited chain of a fork | Open, Fork, Load, Append, Sync, Close, Recover | turn runner and server call it; other processes share the directory | crashes and power loss anywhere, torn and failing writes, two processes, forks by reference |
| turn runner (`internal/turn`) | state, turn id, interrupt, the in-flight set | Run, Interrupt | session (Append, Sync), provider, tools, gate and asker, hooks | one goroutine per call, interrupts at any moment, panics, appends that fail |
| permission gate (`internal/gate`) | none | Evaluate, MatcherFor | runner | order of the rules |
| permission questions (`internal/server/session_live.go`) | `asking`, `pending`, `standing`, queues of joiners | Ask, answer, settle, detach | runner, connections | calls that share a question, hand-over when a holder is cancelled, the last asker leaving |
| live sessions (`internal/server/server.go`, `session_live.go`) | `live`, `loading`, `closing`, each `liveSession` with `mu`, `obsMu`, mirror, runner, subscribers | resume, fork, submit, interrupt, set_*, compact, shell, detach, Shutdown | session store, runner, connections | stale pointers, TryLock, who closes, two locks, a replay that races live entries |
| runtime sessions (`internal/server/runtime_*.go`) | `rs.active`, `terminal`, `steering`, `ambiguous`; open approvals; login attempts | start, steer, interrupt, refresh, fork, approve, login | the codex adapter, the log, connections | responses and notifications that overtake each other, a process that dies, an id used again |
| codex adapter (`internal/provider/codexapp`) | process, active and finished turns and logins, the notification queue | Start, request, dispatch, watch | child process | requests in flight when a process dies, one dispatcher for everything |
| protocol (`internal/protocol`) | request ids, pending calls, the Incoming queue, the socket's lock | Call, Serve, Sync, Close, Listen | every client and plugin | an answer that overtakes what was sent before it, takeover of a stale socket |
| plugin host (`internal/plugin`) | registrations, the stage of a plugin being loaded, spawned processes | load, register, commit, withdraw, complete, close | runner, server, the child over a peer | a child that dies or hangs up at any point of its handshake, its commit or a stream |
| provider HTTP and dialects (`internal/provider`) | attempts, the idle timer, the decoder's blocks | Complete | network, turn runner | retries, interleaved fragments, a stream that ends anywhere |
| plugin store and trust (`internal/pluginstore`) | checkouts, `plugins.lock.toml`, `trust.toml` | install, update, enable, disable, uninstall, boot | file system, git, HTTP | a crash or failed write between two renames, files that change under a question |
| remote hosts (`internal/cli/hosts`) | two working trees and their heads | Sync, Pull | git, ssh, tar | a sync cut anywhere, work on both sides |
| command line and daemon (`internal/cli`) | the socket, exit codes | serve, bridge, stop, dial, print | server, protocol | start-or-connect races, proof of a stop, which turn an answer belongs to |
| terminal UI (`internal/tui`) | mirror of the session on screen, queue, transcript rows | notifications, keys, switch | protocol client | answers before notifications, switches that fail, rows printed for good |
| memory plugin (`internal/plugins/memory`) | one fold per session | open, turn and close hooks, Close | a model | a close while a fold runs |
| subagents (`internal/plugins/subagents`) | none beyond one call | agent | a child session | a child that outlives its call |

`PROJECT.json` lists every part with its source files, and under "hazards"
each place where this code can go wrong in a way a test would hardly reach,
with the property that would show it.

## 2. Modules

| Module | Models | Composes |
|---|---|---|
| `SessionLog` | `internal/session`: one store, several processes | |
| `SessionLogProofs` | theorems about `SessionLog`, the chains of forks last | EXTENDS `SessionLog`, `WellFoundedInduction`, `TLAPS` |
| `TurnRunner` | `internal/turn`: one session's runner | its own small view of the log's rules |
| `Gate` | `internal/gate`: the verdict | |
| `PermissionAsk` | the questions of one turn | `Gate` with the server's askers and the runner's interrupt |
| `LiveSession` | one session inside one server | Runs seen from outside, the store's lock |
| `TurnLifecycle` | abstract: what a session promises of a turn that runs elsewhere | |
| `RuntimeSession` | a session whose turns run in the Codex app server | server and adapter; implements `TurnLifecycle` |
| `RuntimeApproval` | the questions the app server asks | server, adapter, askers |
| `RuntimeLogin` | signing in | server and adapter, whose calls nest |
| `Peer` | `internal/protocol`: one two-way connection | |
| `PluginHost` | `internal/plugin`: the registry and one spawned plugin | EXTENDS `Peer`; the server's serve loop and `Built.Close` as the plugin sees them |
| `ProviderStream` | one completion: HTTP attempts, both decoders, the accumulator | `httpx`, `openaichat`, `anthropicmsgs`, `turn` |
| `ClientFeed` | one terminal client and its connection | the server's outbox with the client's mirror |
| `Transcript` | the rows of the terminal client | |
| `TurnFollower` | `rudy --print` and the agent tool | the server's fanout, a turn and a child's turn |
| `PluginStore`, `WorkspaceTrust` | `internal/pluginstore` | the boot of `internal/cli/wire.go` |
| `HostSync` | `internal/cli/hosts` | two machines |
| `Daemon` | serve, bridge, stop and dial | the socket of `internal/protocol`, the server's shutdown |
| `MemoryFold` | the memory plugin's folds | |
| `Stores` | what the commands keep on disks | INSTANCEs of `PluginStore`, `WorkspaceTrust`, `HostSync`; extended by `MCDisks` and two proof modules |
| `AroundTurns` | what goes on around turns | INSTANCEs of `RuntimeLogin`, `MemoryFold`, `TurnFollower`; extended by `MCBackends` and `RuntimeApprovalProofs` |
| `RuntimeSessionProofs`, `PermissionAskProofs` | theorems about the module each is named for | EXTENDS that module, `TLAPS` |
| `Screens` | what a client has on screen | an INSTANCE of `ClientFeed`; extended by `MCClients` and `DaemonProofs` |
| `DaemonProofs` | theorems about `Daemon`, about the tree on a host, and about a client's screen | EXTENDS `Daemon`, `Stores`, `Screens`, `WellFoundedInduction`, `TLAPS` |
| `RuntimeApprovalProofs` | theorems about the app server's questions, and about logins, folds and followers | EXTENDS `RuntimeApproval`, `AroundTurns`, `TLAPS` |
| `LiveSessionProofs` | theorems about who holds a live session and about its turns | EXTENDS `LiveSession`, `TLAPS` |
| `TurnRunnerProofs` | theorems about a session's turns | EXTENDS `TurnRunner`, `WellFoundedInduction`, `TLAPS` |
| `PluginHostProofs` | theorems about a plugin's surface and its streams, and about the plugin store and its trust | EXTENDS `PluginHost`, `Stores`, `WellFoundedInduction`, `TLAPS` |
| `MC*` | TLC instances | |

In each module an action is one atomic piece of the code: what happens under
one hold of a mutex, one append to the log, one channel select, one system call
or command, or one external call returning. Between two actions any other
goroutine or process may run. Definitions whose name ends in `_Something` after
an underscore and whose comment starts with "Mutant" are deliberately wrong
variants of the definition that follows them; nothing refers to them. They are
there to show that each property can fail.

Several `MC` modules hold more than one component. Where the components share
no state a variable `part` (or `scene`, for two settings of one component) is
chosen once and only that part moves, so a behaviour is a behaviour of one of
them; the other parts' variables stay at their initial values.

### SessionLog

`file`, `synced` and `tail` are the disk: complete lines, how many of them fsync
covered, and whether the file ends in a partial line. `lock` is the flock. Per
process and session, `pc` is the place in Open, Fork, Load or Recover, and
`own`, `inh`, `buf` are `Session.own`, `Session.inherited` and the bytes still in
the `bufio.Writer`. `Crash` loses what a process has in memory; `PowerLoss`
also loses any suffix of the lines that were not synced. `Spill` is the buffer
filling up; with `TornWrites` it, and a crash, can stop in the middle of a
line. `SyncFails` and `AppendAllowFails` are a write or an fsync that errors.
`LoadRead` and `LoadLock` are two actions because `Load` reads the log before
it takes the lock. `Fork` holds the parent's mutex until the child's
`CreateSync`, which `MuFree` stands for.

Payloads are their kind and the tool_use they are about. `MaxForkDepth` is the
chain limit (64 in the code). `inheritedEntries` refuses a longer chain, but
`Fork` does not look at it: a fork with one generation more is created, and can
never be loaded. `ForkResolves` therefore speaks of the chains `Load` follows
(`ForkedTo` counts the generations). In the run the limit is 2 and one fork has
one parent; the theorem is about every limit and chain.

### TurnRunner

`pc`/`arg` is the Run goroutine, `at`/`what`/`out` the goroutine of each call.
`interrupt`, `streamCut`, `latched` and `cut` are the flag under `Runner.mu`, the
stream's cancelled context, `inflight.cancelled` and each call's own context.
`Start` is a new runner (the server makes one per typed message), `Resume` a
steer message on a parked one. `rest` is three actions because it syncs, clears
the interrupt and sets the state in three critical sections. The log keeps what
`Session.Append` checks, so an append out of order is refused as it is in the
code.

### Gate and PermissionAsk

`Evaluate` is `Gate.Evaluate` on the facts it reads. In `PermissionAsk` a
`standingAsk` is named by the call that created it. `pending` and `standing` are
published in two actions, as in `liveAsker.ask`. `Resolve` is `resolveAnswer`:
the first answer takes the channel, retires the question and settles the
published questions a session allow covers. `Leave` hands the question to the
next call in the queue; a waiter that gives up takes itself out of the queue
(`Without`, which is `removeChan`). `Detach`, `CheckAskers` and `AbandonStanding` are the
steps of a connection that goes away.

### LiveSession

Every load makes a new `liveSession`, here an instance number, and handlers keep
the instance they looked up. `live`, `loading` and `closing` are the server's
maps, `flock` the store's lock. `ls[g].mu` is held across actions by handlers
that hold it across a call. `Claimable` is `claimCloseIfIdle` with its TryLock.
A Run's inside is `TurnRunner`'s; here it begins, parks or ends.
`markStarting` is part of `Start`.

### TurnLifecycle and RuntimeSession

`TurnLifecycle` is what the rest of the server may assume of a turn that runs
somewhere else; it has four variables and says nothing of processes, responses
or notifications. `RuntimeSession` is the code: `active`, `terminal`,
`steering`, `mutating`, `ambiguous` and `touched` are the fields under `rs.mu`;
`tracked` and `finished` the adapter's tables under `turnMu`; `line` the pipe of
each child process, `q` the adapter's one notification queue, `ev` the event
the one dispatcher is delivering. A response goes from the reader straight to
its caller, a notification through the queue, so either comes first. A handler
is a program counter, an operation and what it was answered. The child is
external: it starts and ends turns, answers late, dies, or sends a notification
that cannot be decoded. The response to an interrupt only acknowledges it: the
turn is over when its `turn/completed` is said. A response whose caller has
gone (`Lost`) stays in the pipe as `Unawaited`, and the reader drops it.

`RuntimeSession` implements `TurnLifecycle` under the mapping
`NoTurn <- None, status <- up, current <- active, unsure <- ambiguous` with
`told` as it is (`Lifecycle == L!Spec`, a property of the run `backends`).

### RuntimeApproval and RuntimeLogin

`RuntimeApproval`: one goroutine per question (`pc[r]`), the dispatcher that
ends items and turns, an answer that holds `rs.mu` until it has recorded and
sent its decision, and `detach`, which looks for askers first and abandons the
questions afterwards (`leaving`). The tables of `liveSession` are keyed by the
child's request id, which the child may use again in its next turn: `seen` is
by id, `open` by question.

`RuntimeLogin`: `startRuntimeLogin`, `StartLogin`, `Client.Start`,
`LoginCompleted` and `finishLogin` call each other, in a connection's goroutine
and in the dispatcher, so a goroutine is a stack of frames and a step works on
the innermost.

### ProviderStream

`step`, `sends` and `gone` are the HTTP client's attempts; `st` the decoder's
open calls and the stop it withholds; `acc` the accumulator's blocks. The
endpoint sends events one at a time; each codec turns one into the parts it
emits. `wire` records what was sent, so `MessageAsSent` compares the two ends.

### ClientFeed and Transcript

`ClientFeed`: `subs`, `deliver`, `notes` are the connection in the server
(subscription, an attach being delivered, the outbox); `ui`, `sw` the client's
mirror and the switch in flight with what it holds back. `reqs` and `answers`
are sets because each call has its own goroutine. A session may move while its
attach is delivered (`Moves`), and the user may go back to a session whose close
is still under way (`Switch`); both are races the code has, see section 4. The
history variable `raced` keeps the sessions they happened to, and
`ScreenIsFaithful` is what the code promises of the others: a session that was
at rest during every attach delivered of it and was not resumed ahead of its
close. A session once in `raced` stays there, although the client's picture is
whole again after its next attach. The picker offers the sessions that were on
screen before (`known`); in the code it offers every session of the workspace.

`Transcript`: `rows` is the live region, `printed` the scrollback. A row has a
key, a turn, the call it renders under, and whether it is provisional. The feed
is the log of one session in order, with a subagent's child in between.

### TurnFollower

`par` and `kid` are the turn `rudy --print` submitted and a child's, `pq` and
`aq` what each follower has not read, `call` the agent tool's call and `pr`
`runPrint`. `call.orphan` marks a child that runs on after its call returned.

### PluginStore and WorkspaceTrust

A verb is a process (`job[t]`) with one step for each rename, removal or write
of the lock file; `Crash` and a failing write may come between any two. The four
kinds of source differ in what staging them may come to (`Resolves`).
`WorkspaceTrust` is the boot that reads manifests once, compares their digest,
asks, and starts what it read.

### HostSync

Two trees with their heads; a sync or a pull is a sequence of git commands, ssh
lines and archives, each of which may fail or be cut, an archive inside a file.
`byBox` remembers what was written on the host, for `NoWorkLost`. `sync.since`
counts the edits and commits here when a sync began and `sync.gone` what it
removes, for `OpensThisTree`: comparing the trees instead would take a file that
was made and deleted again during a sync for no change at all, which the attempt
to prove it showed.

### Daemon

`path` and `lock` are the socket and the lock beside it, `srv` the server
processes with their exit codes, `cli` every client with its connection and the
server's loop for it. The shutdown is claimed and committed in two steps, as
`beginShutdown` does it.

### MemoryFold

`kept` is the plugin's table, `fold` the goroutine of each session, `hist` what
happened, for the property.

### Peer and PluginHost

`wire` is what the other side wrote, `q` the Incoming queue with its barriers,
`call` and `answered` the pending calls and their channels. `Read` routes an
answer past the queue, which is why `Sync` exists. `PluginHost` adds the
goroutines of one spawned plugin, each with its program counter: `load`
(`Registry.Load` and `Spawned.Init`), `serve` with the message in hand `cur`,
`watch`, `comp` (`remoteProvider.Complete`) and `stop` (`Built.Close`). `RefuseLate`
and `StageRegister`, and `StageItem` and `setStatusItem`, are two actions each
because the code reads a flag, releases it and then writes. `staged`, `live`,
`tools`, `item`, `failed` and `status` are the host's stage and the registry; every
kind of capability is a name. The child is external: it may send anything the
protocol allows it, answer late or never, close its stdout, exit or ignore its
closed stdin. The plugin after it in the load order stands for any other owner
of names.

## 3. Runs

All bounds are constants named `Max...` (and `PipeCap`, `QueueCap`,
`StepLimit`, `ResumeAttempts`, `DeltaBuffer`, which are limits of the code at a
small value). `CHECK_DEADLOCK FALSE` is set everywhere: an idle store, runner,
server or client may stop, and so does one that has used up its bounds.

| Run | Bounds | Shows |
|---|---|---|
| `disks` | log: 1 process with 2 sessions and 5 entries, or 2 processes with torn writes, 1 fault and 4 entries, 1 crash; store: 1 plugin of any kind, 2 versions, 4 verbs, 1 fault; trust: 3 versions of the manifests; tree: 2 files, 2 edits, 3 commits, 3 syncs | one writer, the fsynced prefix is stable, no tool without a durable allow, a fork resolves, one result per use, Load repairs; no plugin is lost to a verb that failed; a boot runs what was agreed to; a sync loses no work and opens on this tree |
| `turn` | one Run with 2 calls at once, 1 fault, panics and a compaction, or 3 Runs of 1 call, 2 steps | no success after a cut, every call answered, the strongest interrupt cuts its own Run only, endings final and durable, and under fairness every Run ends once it is cut |
| `live_sessions` | 3 connections, 2 loads, 2 Runs, 4 requests | registry and locks agree, one turn, one close |
| `requests` | 2 questions of 2 turns under one id, 2 askers, 2 attaches; a session with 2 connections, 2 loads, 4 requests | a question is decided once and its waiter always returns; a session whose last client left is closed |
| `plugin_host` | 1 name, 2 messages besides the answers, queue of 1, channel of 1 | boot ends, a plugin that is gone is withdrawn whole and for good, the surface never grows, a completion's stop follows its last delta |
| `backends` | 2 turns, 3 requests, 1 handler over 2 processes and 1 bad notification, or 2 handlers over 1; logins: 2 commands on 1 process, or 1 over 2; streams: 2 indexes, 5 attempts, 4 events; folds: 2 sessions, 2 turns each; followers: 2 messages | `RuntimeSession` implements `TurnLifecycle`; a login is told at most once; a message is what the endpoint sent; a closed session is finalized; who follows a turn reports that turn |
| `clients` | feed: 2 sessions, 1 notification in flight, and 2 switches with 3 entries in the first log, or 1 switch and 1 typed message with 2 entries in each log or 3 in the forked one; rows: 2 turns of 2 messages with a child; questions: 3 calls, 2 keys under 1 matcher, 1 asker, 1 attach or detach, 3 modes | the screen is the session unless one of two races hit it, a typed message goes home, every row is printed once; consent stays with its arguments and its call, dangerous calls take their own answer, nobody is left waiting |
| `daemon` | 2 servers, 2 bridges and a stop, or 2 stops and a client, 1 fault | the path names the server that listens, a stop is proof, bridges land on one daemon, an acknowledged shutdown ends |

Why the bounds are enough to be interesting: a fork needs two sessions and a
parent entry that is not yet synced; a second writer needs two processes; the
interrupt races need two calls in different places and a third Run to see what
the second left behind; a hand-over that strands somebody needs three calls on
one question (holder, promoted, waiting); a reload that collides with a close
needs two connections and two instances. A plugin's two messages fill its queue
and its channel and overflow the queue of one. A late event needs two turns, a
stale process two processes, and two handlers only meet on one. An id used
again needs two turns. Fragments interleave with two indexes, and four events
hold two announcements and two fragments. A second switch while one is failing,
and going back, need two sessions and two switches; three entries in a log are a
head, a turn and what comes after it. A message queued behind a turn that a
switch leaves needs a turn in either session. The notification in flight bounds
what sessions do, not what an attach sends. A verb after a crashed one, and one to see
what it left, are within four. A push, a pull and a push again are three syncs.
Two bridges may each start a server and a stop may meet either.
One tool_use, one matcher, one plugin and one asker are enough because the
rules look at one of each at a time.

Symmetry is used on processes, sessions, calls and connections (`disks`,
`clients`, `live_sessions`): no temporal property there except action
properties on single steps.

### Fairness

`TurnRunner.FairSpec`: a goroutine that can take a step takes it. A provider,
an asker and a tool are only assumed to return once their context is cancelled
(`StreamReturns`, `AskReturns`, `InvokeReturns` are fair only under `streamCut`,
`cut[u]` or `ctxDone`); the summary of a compaction only once the caller's
context ended. That is what `internal/provider`, `liveAsker.ask` and the tool
contract promise. Nobody has to interrupt.

`LiveSession.FairSpec`: a request being served and a `runTurn` outside its Run
go on. A Run may last for ever, no client has to send or to leave.

`PluginHost.FairSpec`: the reader, Load, the serve loop, the watcher, a
completion and a close under way go on, and their timers fire. Nothing is
assumed of the child, of a turn that gives up, or of a shutdown being asked for.

`RuntimeApproval.Fair`: a waiter, the dispatcher, an answer that holds
`rs.mu` and a detach that found no asker go on: Go schedules them all. Nobody
has to answer, no time has to run out, the turn need not end.

`Daemon.Fairness`: a server process and the server's loop for a connection go
on. No client has to send, read or leave.

`MCTurnRunner` and `MCRequests` restate the same fairness for their scenes,
since a step there is a step of one of them. `RuntimeSession.Fair` names the
goroutines of that module; the refinement is a safety property and does not use
it.

## 4. Where the code and its documents disagree

Four runs are expected to fail; each states a sentence of the documents.

* `session_log_torn_tail` (`SurvivesTornTail`): a log whose partial last line
  Load accepted gets its next entry glued to it and can then never be loaded.
* `turn_dangling_use` (`AnsweredBeforeNextMessage`): a tool_use that was
  complete when its message was cut is never answered.
* `live_two_turns` (`OneTurn` with steer submits): `runTurn` reads the runner's
  state after a steer resumed it, drops the runner, and a second turn starts.
  The same two turns break `NoAppendAfterClose`: when the first has ended, the
  session can be closed, and the second goes on appending.
* `attach_overtaken` (`InEntryOrder`): an attach is delivered outside the lock
  under which entries are broadcast (`server.go:2137`). An entry appended
  meanwhile reaches the connection ahead of older entries of the replay and of
  the response, where `rudy-contracts.md:309` has every entry, then the response,
  then live notifications. In the client the fold then starts in the middle, or
  a state or question of the replay undoes a newer one: without `raced`,
  `ScreenIsFaithful` fails in the run `clients`.

Others met while modelling, without a run of their own. Where a constant or a
definition is named, the statement can be checked by changing it.

Sessions and turns:

* Load reads before it locks and recovers from a copy another process has
  outdated (`session.go:86`; `docs/specs/rudy-contracts.md:501`): `OneResultPerUse`
  fails with two processes. The run states it for one (`OneResultAlone`).
* A steer is chosen in `finishInterrupt`, and `rest` then clears the interrupt
  and sets Steering in two sections: a cancel in between is lost
  (`runner.go:213` says cancel overrides a pending steer). `CancelOverridesSteer`,
  part of `InterruptHeeded`, therefore speaks of cancels that come before the
  turn observed its end.
* From the append of its message to the loop's first `setState` a turn is Idle
  and cannot be interrupted (`Start` in `TurnRunner`).
* A tool that panics, or has no Invoke, leaves its allow without a result until
  the next Load; `AnsweredUnlessFailed` names the exception.
* Interrupt does not reach a compaction's summary request; `EndsOnceCut` names
  the exception.
* After a failed fsync of an allow the entry is on disk and not in memory; a
  later deny makes two decisions. `OneResultPerUse` is stated for logs whose
  writes succeed.
* `retireIfCurrentLocked` argues that a key has at most one pending entry; a
  holder that is answered but whose select takes its cancelled context promotes
  a joiner while a new question of the same key is published. `EntryIsTheirOwn`
  states the comment (`session_live.go:930`) and fails: the entry an answer
  deletes may be its successor's, and a later call then raises a duplicate of a
  question that stands.
* A call gated before a session allow is appended, and not yet published when it
  is answered, asks again although it is covered.
* `claimCloseIfIdle` reads a held `ls.mu` as a compaction that will come back.
  Any other handler (`set_title`) does not: the session stays live. With `"set"`
  among the `Uses` of `MCRequests`' session, `NotLeftLive` fails; likewise with
  `"stop"` (a client that steers and leaves before the turn parks) and `"fork"`
  (the parent is loaded and nobody is attached).
* A cancel between a steer submit's check and its Run leaves the session marked
  active with no turn: with `"steer"` among `Uses` of `live_sessions`,
  `MarkedOnlyWhileActive` fails.
* `handleShell` does not look for a turn again after its command;
  `TurnOwnsLog` names the exception.
* A child session's question is put to the parent's askers, and the parent's
  last asker leaving does not release it (`session_live.go:372`).

Runtime sessions:

* `runtime_failed` is dropped when it comes before `startRuntimeTurn` has set
  `rs.active` (`runtime_session.go:413,554`): the turn of a process that died
  stays active, though ADR 0046 (line 18) has it fail with its process.
* A notification that cannot be decoded fails a turn that still runs. If a
  refresh takes that turn up again its completion is dropped as already
  finished, and the session stays active.
* `startRuntimeTurn`, the steer of an interrupt and the refresh write the
  session's state after they left `rs.mu`, so an older state can be published
  after a newer one (`rudy-contracts.md:125`). A refresh that finds the session
  changed clears `ambiguous` while it throws away the snapshot that would have
  justified it.
* `bindRuntimeThreadRefLocked` may bind a thread to a session that was closed
  meanwhile, and `closeIfUnusedLocked` reads `ls.runtime.thread` without `rs.mu`.
* A login's end can be lost: `Client.Start` and `abortProcess` both collect and
  clear the adapter's logins while another is being registered. The contract
  (`rudy-contracts.md:94`) says exactly once; `ToldAtMostOnce` is the half that
  holds.
* A fallback to a device code that runs in `StartLogin`'s own goroutine waits
  for the token that goroutine holds.
* The dispatcher itself makes `finishLogin`'s synchronous calls; the reader that
  would deliver their responses stops when the queue of 256 is full.
* Cancelling a login that has completed answers "unknown login id", and the
  cancel is retried for ever.

Clients:

* Going back to a session whose close is still in flight: the close and the
  resume are calls of two goroutines, and a close served last takes the new
  subscription away. The screen then stays silent. `raced` covers this, the
  second exception of `ScreenIsFaithful`; the TUI has no guard against it.
* The TUI's `started()` revives a turn whose rest came first; the answer to
  `command.run` is applied to whatever session is on screen; a refused submit
  loses what was typed. `ScreenIsSession` therefore says of a turn that it is shown
  when it runs, and not the converse.
* `placeGroup` sweeps the provisional calls of one message only; a message's
  rows need not be together (`Transcript`'s `MessageTogether`,
  `transcript.go:585`).
* `print.go`'s observe does not look at an entry's session: a message of a child
  that outlived its agent call can become the printed answer, and the usage of
  children is added to the total. An agent call whose submit is cut off leaves
  its child running. `PrintTellsItsTurn` names the exception (`call.orphan`).

Plugins and providers:

* `Spawned.Init` takes the answer to `plugin.init` without waiting for the Incoming
  queue, so a registration the child sent before it may be refused as late, or
  staged after the commit and lost although it was accepted
  (`rudy-contracts.md:299` says it is committed with the plugin).
* `Peer.Sync` returns at once when the connection has ended, though messages are
  still queued: a child that answers a completion and exits loses its last
  deltas, and the completion reports success. `DeltasBeforeStop` names the
  exception (`cut`).
* Plugin store: a stage's `.old` copy older than an hour is swept although it
  may be the only copy (`Ages = TRUE`); nothing locks `plugins.lock.toml`, so two
  terminals lose one another's entry (`Terminals = {1, 2}`); a crash or failing
  write after the swap of an update leaves the lock behind the checkout; one
  between an install's rename and its write leaves a checkout no verb manages.
* The digest of the workspace's trust covers manifests, not the programs they
  start.
* A malformed chunk, and the anthropic classifier's fallback, report one attempt
  whatever their number was (`openaichat/stream.go:260`;
  `rudy-contracts.md:709`). The idle timer also counts the time the consumer
  takes. Two concurrent refreshes of the registry each write the snapshot they
  began with, and one is lost.
* A session resumed while a fold runs and closed again loses its finalize
  (`Resumes = TRUE`, `fold.go:116`; `plugin.go:52` says nothing will ever ask for
  it again).

Machines:

* A turn left running on the host that edits between Inspect and the archive
  loses that edit (`Busy = TRUE` of `HostSync`); a pull of a copy brings home
  files the host did not change; a copy or push that was cut is opened as it is
  by a retry; a commit made here between the push and `changed()` hides a change.
* A bridge whose serve exits busy because a departing daemon still holds the
  lock dials until its budget of 30 s is gone (`bridge.go:207`). After a signal
  whose budget ran out, `--stop` may return 0 while the old process still runs.

## 5. Proofs

Each theorem is about `Spec` (or an instance of it) for every value of the
constants that the named assumption allows. Each rests on an inductive
invariant, which was checked with TLC on the instances of section 3 before it
was proved. A proof has one lemma for each action or group of actions, and
under it a step for each conjunct the action can disturb; the lemmas at the
head of a module say field by field what the updates shared by the actions
come to.

| Theorem | States | Assumes of the constants |
|---|---|---|
| `SessionLogProofs!TypeCorrect` | `TypeOK` | `SessionLogAssumption`: bounds are numbers, `None` is no process, session or use |
| `SessionLogProofs!OneWriter` | `LockedWhileOpen` | the same |
| `SessionLogProofs!DurablePrefix` | `SyncedPrefixStable` | the same |
| `SessionLogProofs!ToolsRunOnDurableAllows` | `AllowDurableBeforeRun` | the same, and whole-line writes (`~TornWrites`) |
| `SessionLogProofs!ForksResolve` | `ForkResolves` | the same, and whole-line writes |
| `SessionLogProofs!OneResult` | `OneResultPerUse` | the same, whole-line writes, no failing write (`MaxFaults = 0`) and one process |
| `SessionLogProofs!LoadRepairs` | `LoadLeavesNothingPending` | the same |
| `DaemonProofs!OneSocket` | `SocketIsItsServers` | `DaemonAssumption`: servers are numbered from 1 |
| `DaemonProofs!StopProves` | `StopIsProof` | the same |
| `DaemonProofs!BridgesLand` | `EveryBridgeLands` | the same |
| `RuntimeSessionProofs!RuntimeRefines` | `Lifecycle`, the refinement of `TurnLifecycle` | `RuntimeAssumption`: two bounds are numbers |
| `RuntimeApprovalProofs!OneDecision` | `OneRecordedDecision` | none |
| `PermissionAskProofs!OwnConsent` | `ConsentIsItsOwn` | `PermissionAskAssumption`: keys have matchers, a reply is a decision and a scope |
| `PermissionAskProofs!DangerousAsks` | `DangerousTakesItsOwnAnswer` | the same |
| `PermissionAskProofs!NobodyIsLeft` | `NobodyLeftWaiting` | the same |
| `LiveSessionProofs!SessionsStayOpen` | `LiveIsKept` | `LiveSessionAssumption`: bounds are numbers, at least one attempt, finitely many connections |
| `LiveSessionProofs!LogClosedOnce` | `ClosedOnce` | the same |
| `LiveSessionProofs!NothingAfterClose` | `ClosesOnce` | the same, and no steer messages |
| `LiveSessionProofs!OneTurnAtATime` | `TurnOwnsSession` | the same, and no steer messages |
| `TurnRunnerProofs!CutIsNeverOk` | `NoSuccessAfterCut` | `TurnRunnerAssumption`: bounds are numbers, two flags are Boolean |
| `TurnRunnerProofs!EveryUseAnswered` | `AnsweredUnlessFailed` | the same |
| `TurnRunnerProofs!InterruptIsHeeded` | `InterruptHeeded` | the same |
| `TurnRunnerProofs!EndingStands` | `EndingIsFinal` | the same |
| `PluginHostProofs!Shrinks` | `SurfaceOnlyShrinks` | `PluginHostAssumption`: the two calls are `init` and `complete`, contents are Boolean, bounds are numbers, owners differ from `None`; `PeerAssumption`: a queue of at least one |
| `PluginHostProofs!StopsWhole` | `DeltasBeforeStop` | the same |
| `PluginHostProofs!NothingInstalledIsLost` | `NoPluginLost` | one terminal (nothing locks the store between verbs), and no backup older than an hour is swept meanwhile (`~Ages`) |
| `PluginHostProofs!BootsWhatWasAgreed` | `RunsWhatWasAgreed` | none |
| `DaemonProofs!OpensOnThisTree` | `OpensThisTree` | no turn left running edits on the host during a sync (`~Busy`) |
| `DaemonProofs!SyncLosesNoWork` | `NoWorkLost` | the same |
| `DaemonProofs!MessagesGoHome` | `TypedGoesHome` | `FeedAssumption`: sessions are numbered from 1, bounds are numbers |
| `DaemonProofs!ScreenStaysFaithful` | `ScreenIsFaithful` | the same |
| `RuntimeApprovalProofs!EndsOnce` | `ToldAtMostOnce` | `LoginAssumption`: the number of attempts is a number |
| `RuntimeApprovalProofs!ClosedIsFinalized` | `FinalizedAfterClose` | no session is resumed while a fold of it runs (`~Resumes`) |
| `RuntimeApprovalProofs!ReportsTheTurn` | `ReportsItsTurn` | none |

### The arguments

`SessionLog`. `TypeOK` is inductive as it stands, `LockedWhileOpen` with it.
`DurablePrefix` holds for torn and failing writes too; it needs `SyncedInFile`
(no more lines are counted as synced than the file has), and each step then
satisfies `DurableGrows`. For `ToolsRunOnDurableAllows` the invariant is
`GrantedDurable`: the allow is durable already when `Append` returns it to the
turn (`granted`), not only when the tool starts. `NoTail` is needed because a
partial line would swallow the allow written after it, which is why the theorem
assumes whole-line writes.

`SessionLog`, its forks. `ChainInv` says what survives a crash: the entries of
each log rise in id, and a log that begins with a fork_point has a parent of
which a line is synced, with an older first entry, and the fork entry is in what
that parent inherits or in what of its own log is synced (`Rooted`, `Found`).
It is synced and not only written because `PowerLoss` may take the rest. A
parent's first entry is older than its child's, so a chain has no cycle and what
it resolves to can be found by induction on that id (`AllSound`). The induction
is written with the least element of a set of numbers (`CountsUp`), and so is
the existence of the function `InheritedTo`, which is recursive in the
generations. The half of the invariant about processes (`Slot`) is there because
`Fork` cuts what the parent remembers, not what a reader would find: a session
remembers only what is in its log, in its buffer or in its chain, and in that
order. After a failed fsync a session goes on with entries in memory that the
disk may lose; the sync at the head of `Fork` is what covers them. Torn lines are
excluded because they end the promise: a parent made unreadable by one
(`session_log_torn_tail`) takes its forks with it. The proof attempt corrected
the property, which had left out the limit.

`SessionLog`, when one process writes. `OneResult` and `LoadRepairs` are what the
run states for one process (`OneResultAlone`, `RepairedAlone`), with the
conditions of that scene as assumptions. They are needed: a second process
recovers from what it read before it had the lock, and an allow whose sync
failed is appended again after the denial. `OnceInv` adds to `ChainInv` that
each log with its chain holds a decision, and a result, of a tool_use at most
once (`LogsOnce`), and that what a session has in memory is what a reader of the
disk would find once the buffer is written (`Agrees`): its own entries are the
file and the buffer, its inherited ones what its chain resolves to. From the
second part, `Recover`, which looks only at memory, appends no result that the
disk has, and the sync that ends it leaves nothing pending there. A fork cuts
its parent's chain at an entry that may still be in the buffer; `AnchorCut` says
that the cut is the same before and after it is written. One process is what
makes the log of a session change by the steps of its own slot alone.

`Daemon`. `LockFollows` ties the lock and the path to the place each server is
at: exactly the servers between `takeLock` and its release hold the lock, those
that listen have the path, and one that has given its path up, or not bound it
yet, is not what the path names. The property speaks of listening servers only,
which a server about to remove or bind the path could break. `ProofHolds` says
that whoever was told "stopped" spoke to a server whose shutdown completed.
`CalmHolds` says of a world without failures, stops and kills what a bridge
relies on: a server that gave up did so because another holds the lock
(exit code 3), and a bridge that dials has some server started.

`RuntimeSession` implements `TurnLifecycle`. The refinement needs that
`rs.active` is a turn that began, that a turn told completed is not active
again, and that it is let go only when it is over or with `ambiguous` set. That
depends on what is still under way in pipes, responses and the queue:
`Processes` (one process alive, the client's), `Runtime` (turns begin one after
the other; one is over when its completion was said or its process died),
`Handling` (`rs.mutating` keeps requests apart), `Known` and `Messages` (every
turn in the adapter's tables, in a message or in a handler's hands has begun),
`Order` (in a pipe, and from the queue to the pipe, a turn's start precedes its
end, and turns come in order), `Answers` (what a response may say when it
arrives late). The proof attempt corrected the model twice: the response to an
interrupt had ended the turn, which the code leaves to `turn/completed`, and the
unread responses of a process that was lost had stayed addressed to callers who
were gone.

`RuntimeApproval`. An answer, a disconnect, a timeout, a withdrawal and the end
of an item or a turn race for a question; `pending.answered` decides. The
invariant says who owes what: nothing is recorded or sent for a question nobody
has claimed or whose claimant has not finished (`Owed`), an open unclaimed
question has its waiter (`Waits`), a claimed one is in one pair of hands
(`Claims`), and an allow under way is the record (`Told`).

`PermissionAsk`. `Keyed`: what travels to a call (the question it joined, the
answer in its channel, the answer the question was retired with) fits the
call's own key. `Fresh`: a question that can be joined has no answer yet, so no
answer is older than the call that takes it. `Held`: a question that is not
retired has exactly one holder, and the calls in its queue are just the ones
that wait and were not promoted, each once; without the second half a promoted
call that is cancelled could leave the question to nobody. `Stands`: what only
an asker can settle stands only while a connection has not finished leaving.

`LiveSession`, its registry. The store's lock is held for exactly the one
instance that was made and whose log is not closed (`Locked`). There is one
load at a time, and what it has made is in nobody's hands before it is
installed (`Loads`). Whoever closes is alone until the log is closed
(`Claims`), and until Shutdown takes the sessions each close is registered in
`s.closing` from its claim to its end, so that a load waits for it
(`Registered`). `Room` and `Spawning` say that a submit under way finds a free
run within the bound `MaxRuns`. This part holds whatever clients send.

`LiveSession`, its turns. Each run has a runner of its own, which is the
session's runner and whose state is the mirror's as long as the run is on its way,
going on or parked (`RunOk`, `MarkOk`). Whoever appends outside a turn, or
starts one, holds `ls.mu` and finds no such run (`ConnOk`; the output of a shell
command is the exception the code has). Shutdown closes the sessions when
nothing goes on or its budget is gone (`Waits`). With steer messages none of
this holds: a parked run resumes without `ls.mu`, and `live_two_turns` shows
two turns. That is why two theorems are stated for clients that send no steer
messages. The run `live_sessions` is about the same clients.

`TurnRunner`. A call's goroutine runs only while `Run` waits for its batch, so
the interrupt is cleared only when no call is left that must see it (`Placed`,
`Calling`); a call whose `Invoke` returned under the cut therefore still finds
the turn cut when it decides what to log (`Clean`). An interrupt, or the end of
`ctx`, and what it makes of the calls belong to the `Run` it hit (`Heeded`,
`Landed`); one that came before `Run` cleared the flag is the interrupt there is
until it has decided how that `Run` ends (`Cancelled`). Every entry names the
turn that wrote it, and once a turn's ending is in the log its `Run` has nothing
left to append (`Named`, `Ended`). A call of a whole message was answered, or is
in hand, or its `Run` failed (`Durable`, `Answered`). The position of a turn's
ending is the least of those the log offers. That there is a least one comes
from the well-foundedness of `<` on the naturals.

`PluginHost`. A plugin's surface needs little (`Surface`): the watcher withdraws
only after Load said the plugin was committed, so neither `Loaded` nor commit
comes after `Fail`. The stream needs to know where each delta is. `Stream` follows
them from the child to `emit`: what was emitted, what is in the channel, what the
serve loop has in hand, what is queued and what is on the wire are the numbers
from one on, none skipped and none twice. The answer of `Complete` takes another
way, past the queue, so `Answers` says that it has every delta in front of it on
the wire. When the reader delivers it, nothing is left there (`Came` in `Queued`).
From there `Barriers` takes over: while the reader goes on, the barrier `finish`
queued stands behind each delta of the queue or the serve loop is past them all,
and a wait that was not cut short therefore ends with nothing queued or in hand.
A reader that ends may lose what is on the wire, and then no answer was
delivered, or nothing was lost. That the serve loop's `Recv` takes the first
message needs the least element of a set of numbers again.

The plugin store (`StoreInv`). Between two steps of a verb the lock file and the
directories disagree, so the invariant says for each place of a verb what it has
done and what it still knows (`Midway`): which version it read, that the backup
it made is the copy the lock names, that what it stages is not installed yet.
When no verb is under way (`AtRest`), a plugin that has an entry and is not being
removed has its checkout or a backup, also after a crash, and the next verb finds
it there before it moves anything (`Moved`). With a second terminal, or with
backups that age, it is not true (section 4).

Trust (`TrustInv`). What boot starts is what it read, and its digest is compared
with a trust that a person gave for that very version, this boot or an earlier
one; the question shows what was read, and the answer trusts that and not what
the files hold by then.

The tree on a host (`TreeInv`). `TreeShape` types it, `Places` says at each step
of a sync or pull which side it may still touch, `Relies` what it found out
there and that it still holds: nobody edits on the host meanwhile. `Brought` says
what the host has once the archive is in and the old files are removed: what was
here when the sync began, and it is still what is here unless an edit or commit
came since. `NoWorkLost` needs that whatever was on the host alone was looked at
before anything was written over it.

Sign-ins (`LoginInv`). The right to tell how an attempt ended is one token,
which is in `s.loginAttempts` or in one frame of one goroutine (`OneHand`). An
attempt whose token is still there has not been told (`NotYet`), one that was told
has none (`ToldOnce`). The response, the completion, the death of a process and
the fallback all take the token before they tell.

Folds (`FoldInv`). For each session the plugin's table, the goroutine and what
happened agree (`Session`): a close while a fold runs leaves its mark in the
table, and the goroutine does not end before it has seen it.

Clients that follow a turn (`AnswerInv`). The log's ids grow, and a child's turn
lies within the one that waits for it (`Nested`). What the agent tool has read is
what its child said so far, or its call is over (`CallHears`). For `--print` the
last message and the end of its turn are each told already or still queued: told,
it is what is held as text; queued, nothing after it changes that (`KernelHeard`).
With a runtime the entries come in order however often they are published again
(`RuntimeHeard`), and the end of the turn is the last of them in the queue unless
a child outlived its call (`EndsHeard`), which is the exception the property makes.

A client's screen (`FeedInv`). That a message goes home needs only that what is
queued was typed on the screen it is queued on (`Homely`), through the fold of
all a switch held back, which `Replayed` writes as a function over the buffer so
that the prover can follow it step by step. The screen takes more. A session is
looked at through what a mirror has to agree with (`Of(s)`), and a mirror
against all that is still under way to it: held back, queued, and to be replayed
(`Pending`). `Safe` says that folding that will never leave a gap: each entry
comes after the one before it, or continues what was seen, or waits for a head.
`Full` says that it will leave nothing out: every entry, a run without a later
rest, a question without a later decision are seen or in there. A fold takes
one notification from the second to the first (`FoldSafe`, for any notification),
and the server's steps append to the second (`StepsSafe`,
`StepsFull`). A served resume makes a
fresh mirror `Safe` and `Full` (`AttachSafe`), and `Switched` is the induction over
the buffer (`ReplaySafe`). Both races stand against this: what a session says
while its replay is under way comes in the middle of `Pending` and not at its
end, and `Switching`, which says that no close of the session on screen or of
the one a switch goes to is under way, is not true of a session resumed ahead
of its close.

### What is only model-checked

* Liveness under fairness, which the prover cannot reach: `EndsOnceCut`,
  `NotLeftLive`, `WaiterReturns`, `LoadEnds`, `GoneIsWithdrawn`,
  `AcknowledgedEnds`.
* `MessageAsSent` and `EveryRowOnce`: what a codec's events fold into, and which
  rows a filter leaves, is induction over sequences through operators that take an
  operator (`FoldLeft`, `SelectSeq`).

## 6. Plan

The models cover the parts named in section 2, and the safety properties of most
of them are proved. Worth doing next: hook order and timeouts in `PluginHost`, the
provider registry's copy of its set against a withdrawal, and a composition of
`TurnRunner` with `SessionLog` by refinement.

### Not modelled

* Configuration (`internal/config`): layers merged and validated by pure
  functions over TOML text; `config/sync.go` adds the keys a file lacks.
* The MCP plugin: a client over a third-party library; its connection is the
  library's.
* The tools linked in and their commands: file and network I/O of one call with
  no state between calls.
* Workspace discovery, front matter, prompts: pure reading and parsing.
* Hook order and timeouts of the plugin host; the remote agent runtime a
  spawned plugin may register; the registry's model cache.
* Handlers of the server that only read.
* Rendering, themes, keys, JSON encodings, generated documentation: conversions
  no property is about.
