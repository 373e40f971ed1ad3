--------------------------- MODULE WorkspaceTrust ---------------------------
(***************************************************************************)
(* Whether a workspace's own plugins run (internal/pluginstore/trust.go,   *)
(* internal/cli/wire.go): a boot reads the manifests the workspace ships,  *)
(* compares their digest with the one a person agreed to, and asks when it *)
(* can.  The workspace changes meanwhile, and another terminal may agree   *)
(* or take it back.  A version stands for the manifests and their digest.  *)
(***************************************************************************)
EXTENDS Integers

CONSTANT MaxManifests   \* bound on the versions of the manifests

VARIABLES
    trust,          \* trust.toml: the manifests agreed to, 0 for none
    ws,             \* the workspace's own manifests
    agreed,         \* the manifests a person agreed to and did not take back
    boot,           \* a boot's own manifests as it read them: [st, own], st idle, read or asking
    ran             \* the manifests the last boot started, 0 for none

vars == <<trust, ws, agreed, boot, ran>>

\* The workspace's manifests change, in an order of versions.
EditWorkspace ==
    /\ ws < MaxManifests /\ ws' = ws + 1
    /\ UNCHANGED <<trust, agreed, boot, ran>>

\* rudy plugins trust, and with --forget: Store.Trust and Store.Untrust.
Trust ==
    /\ trust' = ws /\ agreed' = agreed \cup {ws}
    /\ UNCHANGED <<ws, boot, ran>>

Untrust ==
    /\ trust # 0 /\ trust' = 0 /\ agreed' = {}
    /\ UNCHANGED <<ws, boot, ran>>

\* spawnedPlugins reads the workspace's own manifests once.
BootReads ==
    /\ boot.st = "idle"
    /\ boot' = [st |-> "read", own |-> ws] /\ ran' = 0
    /\ UNCHANGED <<trust, ws, agreed>>

\* trustedOnly: they run as they were read when IsTrusted says so of them, and somebody who
\* can be asked is asked otherwise.
BootTrusted ==
    /\ boot.st = "read"
    /\ IF trust = boot.own THEN ran' = boot.own /\ boot' = [boot EXCEPT !.st = "idle"]
       ELSE /\ boot' \in {[boot EXCEPT !.st = "idle"], [boot EXCEPT !.st = "asking"]}
            /\ UNCHANGED ran
    /\ UNCHANGED <<trust, ws, agreed>>

\* Mutant: the manifests are read again once the answer is there.
BootAnswered_Rereads(yes) ==
    /\ boot.st = "asking"
    /\ boot' = [boot EXCEPT !.st = "idle"]
    /\ IF yes THEN /\ trust' = ws /\ ran' = ws
                   /\ agreed' = agreed \cup {boot.own}
       ELSE UNCHANGED <<trust, ran, agreed>>
    /\ UNCHANGED <<ws>>

\* The answer is about the manifests that were shown.
BootAnswered(yes) ==
    /\ boot.st = "asking"
    /\ boot' = [boot EXCEPT !.st = "idle"]
    /\ IF yes THEN /\ trust' = boot.own /\ ran' = boot.own
                   /\ agreed' = agreed \cup {boot.own}
       ELSE UNCHANGED <<trust, ran, agreed>>
    /\ UNCHANGED <<ws>>

-----------------------------------------------------------------------------
Init ==
    /\ trust = 0 /\ ws = 1 /\ agreed = {}
    /\ boot = [st |-> "idle", own |-> 0] /\ ran = 0

Next ==
    \/ EditWorkspace \/ Trust \/ Untrust \/ BootReads \/ BootTrusted
    \/ \E yes \in BOOLEAN : BootAnswered(yes)

Spec == Init /\ [][Next]_vars

-----------------------------------------------------------------------------
(* Properties                                                              *)

\* A boot starts the workspace's own plugins only as a person agreed to them: not as they
\* were when an earlier version was agreed to, not as they became while the question stood.
RunsWhatWasAgreed == [][ran' # ran /\ ran' # 0 => ran' \in agreed']_vars

==============================================================================
