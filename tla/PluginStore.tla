----------------------------- MODULE PluginStore -----------------------------
(***************************************************************************)
(* The plugin store (internal/pluginstore): the checkouts under            *)
(* Root/plugins and the lock file beside them, and what a session's boot   *)
(* starts from them (internal/cli/wire.go).  Every verb is a process of    *)
(* its own that reads the lock, works on the file system one call at a     *)
(* time and writes the lock whole; it may be killed between any two calls. *)
(* A version stands for the content of a checkout, and a plugin's source   *)
(* has a tip, which moves, and a tag, which somebody may move.             *)
(***************************************************************************)
EXTENDS Integers, FiniteSets

CONSTANTS
    Terminals,      \* processes that may run a verb at the same time
    Plugins,        \* plugin names
    Kinds,          \* source kinds, of {"git", "path", "go", "https"}
    MaxVersion,     \* bound on the versions published
    MaxVerbs,       \* bound on the verbs begun
    Ages            \* may what a crash left behind age past an hour?

VARIABLES
    lockf,          \* plugins.lock.toml: the entries of the plugins installed
    co,             \* Root/plugins/<name>: its version, 0 when there is none
    old,            \* Root/plugins/<name>.old
    upstream,       \* the tip and the tag of every source
    job,            \* what a terminal is doing
    verbs,          \* verbs begun
    off,            \* plugins the user turned off, and whose disable returned
    leaving,        \* plugins whose uninstall began
    fault           \* the fault met: "none", "write" (of the lock, it failed) or "crash"

disk == <<lockf, co, old>>
vars == <<disk, upstream, job, verbs, off, leaving, fault>>

Idle == [verb |-> "none"]

\* A lock entry: its source's kind, whether a ref is pinned, what it resolved to.
Entry(k, pin, v, on) == [kind |-> k, pin |-> pin, v |-> v, on |-> on]
Locked(n) == n \in DOMAIN lockf
With(f, n, e) == [m \in DOMAIN f \cup {n} |-> IF m = n THEN e ELSE f[m]]
Without(f, n) == [m \in DOMAIN f \ {n} |-> f[m]]

-----------------------------------------------------------------------------
(* Sources: what staging one may come to, a version or a failure (0)       *)

At(n, pin) == IF pin THEN upstream[n].tag ELSE upstream[n].tip

\* stageGitInstall and stageGitUpdate: the ref is resolved again every time.
GitResolves(n, pin) == {At(n, pin), 0}

\* stagePath: there is no ref.
PathResolves(n) == {upstream[n].tip, 0}

\* stageGo and stageGoUpdate: a pinned module whose content changed is refused.
GoResolves(n, pin, prior) == IF pin /\ prior # 0 /\ At(n, pin) # prior THEN {0} ELSE {At(n, pin), 0}

\* stageHTTPS and stageHTTPSUpdate: a digest that did not change (-1) is nothing to do.
HTTPSResolves(n, prior) == IF prior # 0 /\ upstream[n].tip = prior THEN {-1, 0} ELSE {upstream[n].tip, 0}

\* stageForInstall (prior is 0) and stageForUpdate.
Resolves(n, kind, pin, prior) ==
    CASE kind = "git" -> GitResolves(n, pin)
      [] kind = "path" -> PathResolves(n)
      [] kind = "go" -> GoResolves(n, pin, prior)
      [] kind = "https" -> HTTPSResolves(n, prior)

-----------------------------------------------------------------------------
(* Verbs                                                                   *)

Doing(t, verb, step) == job[t].verb = verb /\ job[t].step = step
Goto(t, step) == job' = [job EXCEPT ![t].step = step]
Done(t) == job' = [job EXCEPT ![t] = Idle]

Begin(t, n, verb, step, kind, pin, seen) ==
    /\ job[t] = Idle /\ verbs < MaxVerbs
    /\ verbs' = verbs + 1
    /\ job' = [job EXCEPT ![t] = [verb |-> verb, step |-> step, n |-> n, kind |-> kind, pin |-> pin,
                                  seen |-> seen, v |-> 0]]

\* sweepStaleStages: a backup a crash left behind goes once it is an hour old.
Sweep ==
    \/ UNCHANGED old
    \/ /\ Ages /\ \E n \in Plugins : old[n] # 0
       /\ \A t \in Terminals : job[t].verb = "none" \/ job[t].step \notin {"swap2", "swap3"}
       /\ old' = [n \in Plugins |-> 0]

\* Store.Install, up to the stage.
Install(t, n, kind, pin) ==
    /\ Begin(t, n, "install", "stage", kind, pin, lockf)
    /\ Sweep
    /\ UNCHANGED <<lockf, co, upstream, off, leaving, fault>>

\* Store.Update reads the lock before it stages, and takes kind and ref from it.
Update(t, n) ==
    /\ Locked(n)
    /\ Begin(t, n, "update", "stage", lockf[n].kind, lockf[n].pin, lockf)
    /\ Sweep
    /\ UNCHANGED <<lockf, co, upstream, off, leaving, fault>>

\* The stage is filled, or nothing changed, or it failed and the stage is removed.
Stage(t) ==
    /\ job[t].verb \in {"install", "update"} /\ job[t].step = "stage"
    /\ LET j == job[t]
           prior == IF j.verb = "update" THEN j.seen[j.n].v ELSE 0
       IN  \E v \in Resolves(j.n, j.kind, j.pin, prior) :
             IF v \in {0, -1} THEN Done(t)
             ELSE job' = [job EXCEPT ![t].v = v,
                                     ![t].step = IF j.verb = "install" THEN "check" ELSE "build"]
    /\ UNCHANGED <<disk, upstream, verbs, off, leaving, fault>>

\* Install reads the lock once it knows the manifest's name.
Check(t) ==
    /\ Doing(t, "install", "check")
    /\ IF Locked(job[t].n) THEN Done(t)
       ELSE job' = [job EXCEPT ![t].step = "build", ![t].seen = lockf]
    /\ UNCHANGED <<disk, upstream, verbs, off, leaving, fault>>

\* runBuild, in the stage.
Build(t) ==
    /\ job[t].verb \in {"install", "update"} /\ job[t].step = "build"
    /\ Done(t) \/ Goto(t, IF job[t].verb = "install" THEN "place" ELSE "swap1")
    /\ UNCHANGED <<disk, upstream, verbs, off, leaving, fault>>

\* Install renames the stage to a checkout that must not be there.
Place(t) ==
    /\ Doing(t, "install", "place")
    /\ IF co[job[t].n] # 0 THEN Done(t) /\ UNCHANGED co
       ELSE Goto(t, "write") /\ co' = [co EXCEPT ![job[t].n] = job[t].v]
    /\ UNCHANGED <<lockf, old, upstream, verbs, off, leaving, fault>>

\* Mutant: the backup goes whether or not there is a checkout to set aside.
Swap1_DropsBackup(t) ==
    /\ Doing(t, "update", "swap1")
    /\ old' = [old EXCEPT ![job[t].n] = co[job[t].n]]
    /\ co' = [co EXCEPT ![job[t].n] = 0]
    /\ Goto(t, "swap2")
    /\ UNCHANGED <<lockf, upstream, verbs, off, leaving, fault>>

\* swapCheckout: the live checkout is set aside, if there is one; a backup goes only then.
Swap1(t) ==
    /\ Doing(t, "update", "swap1")
    /\ IF co[job[t].n] = 0 THEN UNCHANGED <<co, old>>
       ELSE /\ old' = [old EXCEPT ![job[t].n] = co[job[t].n]]
            /\ co' = [co EXCEPT ![job[t].n] = 0]
    /\ Goto(t, "swap2")
    /\ UNCHANGED <<lockf, upstream, verbs, off, leaving, fault>>

Swap2(t) ==
    /\ Doing(t, "update", "swap2")
    /\ co' = [co EXCEPT ![job[t].n] = job[t].v]
    /\ Goto(t, "swap3")
    /\ UNCHANGED <<lockf, old, upstream, verbs, off, leaving, fault>>

Swap3(t) ==
    /\ Doing(t, "update", "swap3")
    /\ old' = [old EXCEPT ![job[t].n] = 0]
    /\ Goto(t, "write")
    /\ UNCHANGED <<lockf, co, upstream, verbs, off, leaving, fault>>

\* Store.Uninstall: the checkout, its backup, then the lock.
Uninstall(t, n) ==
    /\ Locked(n)
    /\ Begin(t, n, "uninstall", "remove", "none", FALSE, lockf)
    /\ leaving' = leaving \cup {n}
    /\ UNCHANGED <<disk, upstream, off, fault>>

Remove(t) ==
    /\ Doing(t, "uninstall", "remove")
    /\ co' = [co EXCEPT ![job[t].n] = 0]
    /\ old' = [old EXCEPT ![job[t].n] = 0]
    /\ Goto(t, "write")
    /\ UNCHANGED <<lockf, upstream, verbs, off, leaving, fault>>

\* Store.SetEnabled.
SetEnabled(t, n, verb) ==
    /\ verb \in {"enable", "disable"} /\ Locked(n)
    /\ Begin(t, n, verb, "write", "none", FALSE, lockf)
    /\ off' = IF verb = "enable" THEN off \ {n} ELSE off
    /\ UNCHANGED <<disk, upstream, leaving, fault>>

\* A path source resolves to nothing the lock records.
Recorded(kind, v) == IF kind = "path" THEN 0 ELSE v

\* What a verb writes: the lock it read, with its own entry changed.
Written(j) ==
    CASE j.verb = "install" -> With(j.seen, j.n, Entry(j.kind, j.pin, Recorded(j.kind, j.v), TRUE))
      [] j.verb = "update" -> With(j.seen, j.n, [j.seen[j.n] EXCEPT !.v = Recorded(j.kind, j.v)])
      [] j.verb = "uninstall" -> Without(j.seen, j.n)
      [] j.verb \in {"enable", "disable"} -> With(j.seen, j.n, [j.seen[j.n] EXCEPT !.on = (j.verb = "enable")])

\* Store.Write, through a temporary file and a rename.
WriteLock(t) ==
    /\ job[t] # Idle /\ job[t].step = "write"
    /\ lockf' = Written(job[t])
    /\ off' = CASE job[t].verb = "disable" -> off \cup {job[t].n}
                [] job[t].verb = "uninstall" -> off \ {job[t].n}
                [] OTHER -> off
    /\ leaving' = IF job[t].verb = "install" THEN leaving \ {job[t].n} ELSE leaving
    /\ Done(t)
    /\ UNCHANGED <<co, old, upstream, verbs, fault>>

\* The write fails: an install takes its checkout back.
WriteFails(t) ==
    /\ job[t] # Idle /\ job[t].step = "write" /\ fault = "none" /\ fault' = "write"
    /\ co' = IF job[t].verb = "install" THEN [co EXCEPT ![job[t].n] = 0] ELSE co
    /\ Done(t)
    /\ UNCHANGED <<lockf, old, upstream, verbs, off, leaving>>

\* The process dies between two calls; its stage is swept in time and nothing reads it.
Crash(t) ==
    /\ job[t] # Idle /\ fault = "none" /\ fault' = "crash"
    /\ Done(t)
    /\ UNCHANGED <<disk, upstream, verbs, off, leaving>>

-----------------------------------------------------------------------------
(* Upstream, and a boot                                                    *)

Publish(n) ==
    /\ upstream[n].tip < MaxVersion
    /\ \E tag \in {upstream[n].tag, upstream[n].tip + 1} :
         upstream' = [upstream EXCEPT ![n] = [tip |-> @.tip + 1, tag |-> tag]]
    /\ UNCHANGED <<disk, job, verbs, off, leaving, fault>>

\* discoverPlugins: every checkout but the ones the lock turns off.
Boots == {n \in Plugins : co[n] # 0 /\ ~(Locked(n) /\ ~lockf[n].on)}

-----------------------------------------------------------------------------
Init ==
    /\ lockf = [n \in {} |-> Idle]
    /\ co = [n \in Plugins |-> 0] /\ old = [n \in Plugins |-> 0]
    /\ upstream = [n \in Plugins |-> [tip |-> 1, tag |-> 1]]
    /\ job = [t \in Terminals |-> Idle]
    /\ verbs = 0 /\ off = {} /\ leaving = {} /\ fault = "none"

Next ==
    \/ \E t \in Terminals :
         \/ \E n \in Plugins :
              \/ \E kind \in Kinds, pin \in BOOLEAN : Install(t, n, kind, pin)
              \/ Update(t, n) \/ Uninstall(t, n)
              \/ \E verb \in {"enable", "disable"} : SetEnabled(t, n, verb)
         \/ Stage(t) \/ Check(t) \/ Build(t) \/ Place(t) \/ Swap1(t) \/ Swap2(t) \/ Swap3(t)
         \/ Remove(t) \/ WriteLock(t) \/ WriteFails(t) \/ Crash(t)
    \/ \E n \in Plugins : Publish(n)

Spec == Init /\ [][Next]_vars

-----------------------------------------------------------------------------
(* Properties                                                              *)

Quiet == \A t \in Terminals : job[t] = Idle

\* Between verbs the lock is the record of what is installed: whatever failed short of the
\* process itself, there is no checkout the lock does not name (Discover would start it and
\* no verb could disable or remove it), and as long as nothing failed the lock names exactly
\* the checkouts there are, each at the version it holds.
LockIsRecord ==
    Quiet /\ fault # "crash" =>
        \A n \in Plugins :
            /\ co[n] # 0 => Locked(n)
            /\ fault = "none" /\ Locked(n) => co[n] # 0 /\ Recorded(lockf[n].kind, co[n]) = lockf[n].v

\* No fault destroys a plugin: one the lock names, and nobody began to uninstall, has a whole
\* copy in its place or beside it wherever swapCheckout or the write of the lock was cut.
CopySurvives == \A n \in DOMAIN lockf \ leaving : co[n] # 0 \/ old[n] # 0

\* Both hold through every verb, whatever failed in it: neither the record of an installed
\* plugin nor its last copy is lost (Install, Update, Uninstall, swapCheckout).
NoPluginLost == LockIsRecord /\ CopySurvives

\* A boot starts no plugin the user turned off, whatever other verb ran since.
OffStaysOff == off \cap Boots = {}

\* A pinned go module that is installed never changes under its pin.
PinHolds ==
    [][\A n \in DOMAIN lockf \cap DOMAIN lockf' :
         lockf[n].kind = "go" /\ lockf[n].pin /\ lockf'[n] # lockf[n] => lockf'[n].v = lockf[n].v]_vars

==============================================================================
