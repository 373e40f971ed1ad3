------------------------------ MODULE MCClients ------------------------------
(* What the clients of a daemon see and answer: the feed of the session on *)
(* screen, in three sizes, the rows of one session, and the question that  *)
(* attached clients are asked.  None shares state with another, so a       *)
(* behaviour is one of them.                                               *)
EXTENDS PermissionAsk, Screens, TLC

CONSTANTS MaxTurns, MaxMsgs

VARIABLES
    part,   \* what moves
    rows, printed, turn, committed, toolTurn, feed, child

\* Two switches, back to the session left among them: the bounds of Feed.
Log1 == <<3, 1>>

\* A message typed and queued, and a turn of either session.
Queues == INSTANCE ClientFeed WITH standing <- stands, MaxLog <- <<2, 2>>, MaxTyped <- 1, MaxSwitch <- 1

\* A message typed, and a turn with its question in the session forked.
Forks == INSTANCE ClientFeed WITH standing <- stands, MaxLog <- <<1, 3>>, MaxTyped <- 1, MaxSwitch <- 1

T == INSTANCE Transcript

rowVars == <<rows, printed, turn, committed, toolTurn, feed, child>>
askVars == <<key, mode, vars>>
mcVars == <<feedVars, rowVars, askVars, part>>

\* One question is enough where no question is asked.
MCInit ==
    /\ part \in {"returns", "queues", "forks", "rows", "questions"}
    /\ Feed!Init /\ T!Init /\ Init
    /\ part # "questions" =>
         mode = "off" /\ (\E c \in Calls : key[c] = "b") /\ conn = [a \in Conns |-> "on"]
MCNext ==
    \/ part = "returns" /\ Feed!Next /\ UNCHANGED <<part, rowVars, askVars>>
    \/ part = "queues" /\ Queues!Next /\ UNCHANGED <<part, rowVars, askVars>>
    \/ part = "forks" /\ Forks!Next /\ UNCHANGED <<part, rowVars, askVars>>
    \/ part = "rows" /\ T!Next /\ UNCHANGED <<part, feedVars, askVars>>
    \/ part = "questions" /\ Next /\ UNCHANGED <<part, feedVars, rowVars>>
MCSpec == MCInit /\ [][MCNext]_mcVars

\* The keys "a" and "b" share a matcher.
OneMatcher == [k \in Keys |-> "m"]

\* All calls ask the same thing, or all but one do.
AtMostOneB == {f \in [Calls -> Keys] : Cardinality({c \in Calls : f[c] = "b"}) <= 1}

Symmetry == Permutations(Calls)

\* What askers send.
AllowSession == {<<"allow", "session">>}

\* Per session, notifications are delivered in entry order.
InEntryOrder == Feed!InEntryOrder

\* Every row reaches the page, once.
EveryRowOnce == T!EveryRowOnce
==============================================================================
