------------------------------- MODULE Stores -------------------------------
(* What the commands keep on disks beside the logs: the plugin store of    *)
(* this machine, the trust it keeps in a workspace's own plugins, and the  *)
(* working tree between it and a host.                                     *)

CONSTANTS Terminals, Plugins, SourceKinds, MaxVersion, MaxVerbs, Ages,
    Files, MaxEdits, MaxCommits, MaxSyncs, Busy, MaxManifests

VARIABLES
    lockf, co, old, upstream, job, verbs, off, leaving, fault,
    trust, ws, agreed, boot, started,
    here, box, sync, copied, turn, edits, commits, syncs, lapses, byBox

Store == INSTANCE PluginStore WITH Kinds <- SourceKinds
Workspace == INSTANCE WorkspaceTrust WITH ran <- started
Tree == INSTANCE HostSync WITH job <- sync, faults <- lapses

storeVars == <<lockf, co, old, upstream, job, verbs, off, leaving, fault>>
trustVars == <<trust, ws, agreed, boot, started>>
treeVars == <<here, box, sync, copied, turn, edits, commits, syncs, lapses, byBox>>

\* Neither the record of an installed plugin nor its last copy is lost to a verb that fails.
NoPluginLost == Store!NoPluginLost

\* A boot starts the workspace's own plugins only as a person agreed to them.
RunsWhatWasAgreed == Workspace!RunsWhatWasAgreed

\* Neither side of a sync loses work that no commit has, or a commit.
NoWorkLost == Tree!NoWorkLost

\* A session that opens after a push opens on this tree.
OpensThisTree == Tree!OpensThisTree
=============================================================================
