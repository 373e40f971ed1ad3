----------------------------- MODULE MemoryFold -----------------------------
(***************************************************************************)
(* The memory plugin's folds (internal/plugins/memory): the hooks a        *)
(* session fires when it opens, when a turn of it completes and when it    *)
(* closes, and the goroutine that folds its transcript into the summary,   *)
(* one at a time for a session, the last of them the finalizing one.  A    *)
(* fold asks a model and takes up to two minutes; the session goes on, and *)
(* may be closed and resumed meanwhile.                                    *)
(***************************************************************************)
EXTENDS Integers

CONSTANTS
    Folded,         \* the sessions there are
    MaxHooks,       \* bound on the turns and the opens of each
    Resumes         \* may a session be resumed while a fold of it runs?

VARIABLES
    kept,           \* kept[s]: memPlugin.sessions' entry of s
    attached,       \* attached[s]: whether the session is open
    fold,           \* fold[s]: the fold goroutine of s
    hist,           \* hist[s]: what happened: opens, turns and closes so far, the turns the
                    \*   last fold read and the closes the last finalize came after
    closing         \* Close: "no", "waits", "done" or "gaveup"

vars == <<kept, attached, fold, hist, closing>>

Forgotten == [known |-> FALSE, on |-> FALSE, folding |-> FALSE, finalize |-> FALSE]
NoFold == [st |-> "none", fin |-> FALSE]

Init ==
    /\ kept = [s \in Folded |-> Forgotten]
    /\ attached = [s \in Folded |-> FALSE]
    /\ fold = [s \in Folded |-> NoFold]
    /\ hist = [s \in Folded |-> [opens |-> 0, on |-> FALSE, turns |-> 0, closes |-> 0, read |-> 0, final |-> 0]]
    /\ closing = "no"

-----------------------------------------------------------------------------
(* The hooks                                                               *)

\* onOpened, of a new session and of one resumed: the entry there is is updated in place.  A
\* session without a project and a child session have memory off.
OnOpened(s, on) ==
    /\ closing = "no" /\ ~attached[s] /\ hist[s].opens < MaxHooks
    /\ hist[s].opens > 0 => on = hist[s].on
    /\ Resumes \/ fold[s].st = "none"
    /\ attached' = [attached EXCEPT ![s] = TRUE]
    /\ kept' = [kept EXCEPT ![s].known = TRUE, ![s].on = on]
    /\ hist' = [hist EXCEPT ![s].opens = @ + 1, ![s].on = on]
    /\ UNCHANGED <<fold, closing>>

\* startFold: a fold that is asked for while one runs is dropped, a finalize remembered.
StartFold(s, fin) ==
    CASE ~kept[s].known \/ ~kept[s].on -> UNCHANGED <<kept, fold>>
      [] kept[s].known /\ kept[s].on /\ kept[s].folding ->
           /\ kept' = [kept EXCEPT ![s].finalize = @ \/ fin]
           /\ UNCHANGED fold
      [] kept[s].known /\ kept[s].on /\ ~kept[s].folding ->
           /\ kept' = [kept EXCEPT ![s].folding = TRUE]
           /\ fold' = [fold EXCEPT ![s] = [st |-> "folds", fin |-> fin]]

\* onTurnCompleted.
OnTurnCompleted(s) ==
    /\ attached[s] /\ hist[s].turns < MaxHooks
    /\ hist' = [hist EXCEPT ![s].turns = @ + 1]
    /\ StartFold(s, FALSE)
    /\ UNCHANGED <<attached, closing>>

\* onClosed: the entry is the fold's to forget, or goes at once when there is none.
OnClosed(s) ==
    /\ attached[s]
    /\ attached' = [attached EXCEPT ![s] = FALSE]
    /\ hist' = [hist EXCEPT ![s].closes = @ + 1]
    /\ IF kept[s].known /\ kept[s].on THEN StartFold(s, TRUE)
       ELSE kept' = [kept EXCEPT ![s] = Forgotten] /\ UNCHANGED fold
    /\ UNCHANGED closing

-----------------------------------------------------------------------------
(* The goroutine                                                           *)

\* fold, for a session that is still known: it reads the transcript and runs the job.  A fold
\* that is not due, fails or panics (guard) is over as well, and only its note tells.
Folds(s) ==
    /\ fold[s].st = "folds"
    /\ fold' = [fold EXCEPT ![s].st = "folded"]
    /\ IF kept[s].known /\ kept[s].on
       THEN hist' = [hist EXCEPT ![s].read = hist[s].turns,
                                 ![s].final = IF fold[s].fin THEN hist[s].closes ELSE @]
       ELSE UNCHANGED hist
    /\ UNCHANGED <<kept, attached, closing>>

\* Mutant: a finalize that came while a fold ran is not looked for.
Settles_Once(s) ==
    /\ fold[s].st = "folded"
    /\ IF fold[s].fin THEN kept' = [kept EXCEPT ![s] = Forgotten]
       ELSE kept' = [kept EXCEPT ![s].folding = FALSE]
    /\ fold' = [fold EXCEPT ![s] = NoFold]
    /\ UNCHANGED <<attached, hist, closing>>

\* foldUntilQuiet, after a fold: a finalize that has run forgets the session; one that came
\* meanwhile is run.
Settles(s) ==
    /\ fold[s].st = "folded"
    /\ CASE ~kept[s].known -> fold' = [fold EXCEPT ![s] = NoFold] /\ UNCHANGED kept
         [] kept[s].known /\ fold[s].fin ->
              /\ kept' = [kept EXCEPT ![s] = Forgotten]
              /\ fold' = [fold EXCEPT ![s] = NoFold]
         [] kept[s].known /\ ~fold[s].fin /\ kept[s].finalize ->
              /\ kept' = [kept EXCEPT ![s].finalize = FALSE]
              /\ fold' = [fold EXCEPT ![s] = [st |-> "folds", fin |-> TRUE]]
         [] kept[s].known /\ ~fold[s].fin /\ ~kept[s].finalize ->
              /\ kept' = [kept EXCEPT ![s].folding = FALSE]
              /\ fold' = [fold EXCEPT ![s] = NoFold]
    /\ UNCHANGED <<attached, hist, closing>>

-----------------------------------------------------------------------------
(* The end of the process                                                  *)

\* CloseContext, once the server has closed every session.
CloseBegins ==
    /\ closing = "no" /\ \A s \in Folded : ~attached[s]
    /\ closing' = "waits"
    /\ UNCHANGED <<kept, attached, fold, hist>>

\* It waits for what is in flight, or gives up.
CloseEnds ==
    /\ closing = "waits"
    /\ closing' = IF \A s \in Folded : fold[s].st = "none" THEN "done" ELSE "gaveup"
    /\ UNCHANGED <<kept, attached, fold, hist>>

Next ==
    \/ \E s \in Folded : (\E on \in BOOLEAN : OnOpened(s, on)) \/ OnTurnCompleted(s) \/ OnClosed(s)
                         \/ Folds(s) \/ Settles(s)
    \/ CloseBegins \/ CloseEnds

Spec == Init /\ [][Next]_vars

-----------------------------------------------------------------------------
(* Correctness                                                             *)

\* A closed session for which nothing is in flight has been finalized after its last close,
\* over everything it said, and is forgotten (startFold, foldUntilQuiet): nothing would ever
\* ask for the finalize again.
FinalizedAfterClose ==
    \A s \in Folded :
        ~attached[s] /\ hist[s].closes > 0 /\ fold[s].st = "none"
            => /\ ~kept[s].known
               /\ hist[s].on => hist[s].final = hist[s].closes /\ hist[s].read = hist[s].turns

\* An exit that waited for the folds leaves none undone.
DoneMeansDone == closing = "done" => \A s \in Folded : hist[s].on => hist[s].final = hist[s].closes
=============================================================================
