-------------------------- MODULE LiveSessionProofs --------------------------
(***************************************************************************)
(* Proofs about LiveSession for any number of connections, loads, runs and *)
(* requests.                                                               *)
(*                                                                         *)
(* The first part is about who has the store's lock and who closes the     *)
(* log (Registry), and holds whatever clients send.  The second is about   *)
(* turns (Turns), for clients that send no steer messages: with steer      *)
(* messages two Runs can go on in one session (run live_two_turns), and    *)
(* the properties of the second part fail.                                 *)
(***************************************************************************)
EXTENDS LiveSession, FiniteSetTheorems, TLAPS

-----------------------------------------------------------------------------
(* The registry: who has the store's lock                                  *)

\* Shutdown has not taken the live sessions yet.
Before == down \in {"up", "asked"}

\* Where a request can be: it has no session; it goes on with the one it found; it loads one;
\* it closes one.
NoSession == {"idle", "load", "attach"}
Plain == {"fork", "submit", "steer", "start", "spawn", "undo", "await", "set", "append", "compact",
    "summary", "shell", "command", "stop", "cancel", "cut", "check"}
Claimants == {"closing", "closed"}
Held == Plain \cup {"unload"} \cup Claimants
Free == NoSession \cup Plain

\* Instance g has been made, and its load has put it into s.live.
Installed(g) == g \in 1..made /\ \A c \in Conns : conn[c].at = "install" => conn[c].ls # g

LiveFields == {"closed", "mu", "state", "runner", "subs", "closes"}
ConnFields == {"op", "at", "ls", "r", "tries"}
RunFields == {"at", "ls", "r"}

Shape ==
    /\ made \in 0..MaxLoads /\ flock \in 0..made /\ live \in 0..made
    /\ closing \in 0..made /\ closer \in 0..made
    /\ ls = [g \in Instances |-> ls[g]] /\ \A g \in Instances : DOMAIN ls[g] = LiveFields
    /\ conn = [c \in Conns |-> conn[c]] /\ \A c \in Conns : DOMAIN conn[c] = ConnFields
    /\ run = [r \in Runs |-> run[r]] /\ \A r \in Runs : DOMAIN run[r] = RunFields

\* The lock is held for the one instance that was made and whose log is not closed.
Locked ==
    /\ \A g \in 1..made : ls[g].closes = 0 <=> g = flock
    /\ \A g \in Instances : ls[g].closes \in {0, 1}
    /\ \A g \in Instances : ls[g].closes # 0 => ls[g].closed
    /\ \A g \in Instances : g > made => ls[g].closes = 0 /\ ~ls[g].closed /\ ls[g].subs = {}
    /\ live # 0 => live = flock /\ ~ls[live].closed

\* One load at a time; what it has made is nobody else's before it is installed.
Loads ==
    /\ \A c \in Conns : conn[c].at \in {"read", "install", "unload"} <=> loading = c
    /\ \A c \in Conns : conn[c].at = "install" =>
          /\ conn[c].ls = flock /\ flock # 0 /\ ~ls[flock].closed /\ ls[flock].subs = {}
          /\ live = 0 /\ closer # flock
    /\ \A c \in Conns : conn[c].at = "read" => made < MaxLoads
    /\ \A c \in Conns : conn[c].at \in Held => Installed(conn[c].ls)
    /\ \A c \in Conns : conn[c].at \in Held \cup NoSession \cup {"read", "install"}
    /\ \A r \in Runs : run[r].at # "none" => Installed(run[r].ls)
    /\ \A g \in Instances : ls[g].subs # {} => Installed(g)

\* Whoever has claimed a close still has the lock, and is alone, until the log is closed.
Claims ==
    /\ \A c \in Conns : conn[c].at = "closed" => ls[conn[c].ls].closes # 0
    /\ \A r \in Runs : run[r].at = "closed" => ls[run[r].ls].closes # 0
    /\ \A c \in Conns : conn[c].at = "closing" => conn[c].ls = flock /\ ls[flock].closed
    /\ \A r \in Runs : run[r].at = "closing" => run[r].ls = flock /\ ls[flock].closed
    /\ down = "closing" => closer = flock /\ ls[flock].closed /\ closer # 0
    /\ \A c, d \in Conns : conn[c].at = "closing" /\ conn[d].at = "closing" => c = d
    /\ \A r, q \in Runs : run[r].at = "closing" /\ run[q].at = "closing" => r = q
    /\ \A c \in Conns, r \in Runs : ~(conn[c].at = "closing" /\ run[r].at = "closing")
    /\ down = "closing" => /\ \A c \in Conns : conn[c].at # "closing"
                           /\ \A r \in Runs : run[r].at # "closing"

\* Until Shutdown takes the sessions, a close is registered from its claim to its end, no load
\* gets past it, and whoever has the lock can be found.
Registered ==
    Before =>
        /\ ~refused /\ closer = 0
        /\ closing # 0 => /\ live = 0 /\ ls[closing].closed
                          /\ \A c \in Conns : conn[c].at \notin {"read", "install"}
        /\ \A c \in Conns : conn[c].at \in Claimants => conn[c].ls = closing
        /\ \A r \in Runs : run[r].at \in Claimants => run[r].ls = closing
        /\ \A c, d \in Conns : conn[c].at \in Claimants /\ conn[d].at \in Claimants => c = d
        /\ \A r, q \in Runs : run[r].at \in Claimants /\ run[q].at \in Claimants => r = q
        /\ \A c \in Conns, r \in Runs : ~(conn[c].at \in Claimants /\ run[r].at \in Claimants)
        /\ \A c \in Conns : conn[c].at = "read" => live = 0 /\ flock = 0
        /\ flock # 0 => \/ live = flock \/ closing = flock
                        \/ \E c \in Conns : conn[c].at = "install"
        /\ \A g \in Instances : ls[g].subs # {} => live = g

\* What Shutdown took is no longer live.
Taken == closer # 0 => closer # live /\ Installed(closer)

\* A submit that is under way can still start its run, within the bound.
Asking == {"submit", "steer", "start"}
Submitting == {c \in Conns : conn[c].at \in Asking}
Unused == {r \in Runs : run[r] = NoRun}
Room == Cardinality(Submitting) <= Cardinality(Unused)

\* The run of a request that has yet to spawn it is its own.
Spawning ==
    /\ \A c \in Conns : conn[c].at = "spawn" => conn[c].r \in Runs /\ run[conn[c].r].at = "made"
    /\ \A c, d \in Conns :
          conn[c].at = "spawn" /\ conn[d].at = "spawn" /\ conn[c].r = conn[d].r => c = d

Registry == Room /\ Spawning /\ Shape /\ Locked /\ Loads /\ Claims /\ Registered /\ Taken

-----------------------------------------------------------------------------
(* What the updates come to                                                *)

\* Only the request of c changed, to these.
Moved(c, o, p, g, r) ==
    /\ conn' = [d \in Conns |-> conn'[d]]
    /\ \A d \in Conns : d # c => conn'[d] = conn[d]
    /\ DOMAIN conn'[c] = ConnFields
    /\ conn'[c].op = o /\ conn'[c].at = p /\ conn'[c].ls = g /\ conn'[c].r = r

LEMMA StepIs ==
  ASSUME Shape, NEW c \in Conns, NEW p, Step(c, p)
  PROVE  Moved(c, conn[c].op, p, conn[c].ls, conn[c].r)
  BY DEF Step, Moved, Shape, ConnFields

LEMMA AnswerIs ==
  ASSUME Shape, NEW c \in Conns, Answer(c)
  PROVE  Moved(c, "none", "idle", 0, 0)
  BY DEF Answer, AtRest, Moved, Shape, ConnFields

\* No instance was claimed, closed or attached to.
SameSessions ==
    /\ ls' = [g \in Instances |-> ls'[g]]
    /\ \A g \in Instances :
          /\ DOMAIN ls'[g] = LiveFields
          /\ (ls'[g].closed <=> ls[g].closed) /\ ls'[g].closes = ls[g].closes
          /\ ls'[g].subs \subseteq ls[g].subs

\* No instance was made, claimed, closed or attached to; a request that moved has no part
\* in a load or a close, and no run began or ended a close.
Ordinary ==
    /\ UNCHANGED <<registry, closer, refused>>
    /\ SameSessions
    /\ conn' = [c \in Conns |-> conn'[c]]
    /\ \A c \in Conns :
          /\ DOMAIN conn'[c] = ConnFields
          /\ \/ conn'[c] = conn[c]
             \/ /\ conn[c].at \in Free /\ conn'[c].at \in Free
                /\ conn'[c].at \in Plain => Installed(conn'[c].ls)
    /\ run' = [r \in Runs |-> run'[r]]
    /\ \A r \in Runs :
          /\ DOMAIN run'[r] = RunFields
          /\ \/ run'[r] = run[r]
             \/ /\ run[r].at \notin Claimants /\ run'[r].at \notin Claimants
                /\ run'[r].at # "none" => Installed(run'[r].ls)
    /\ (Before' <=> Before) /\ (down' = "closing" <=> down = "closing")
    /\ Room' /\ Spawning'

LEMMA OrdinaryKeeps ==
  ASSUME Registry, Ordinary
  PROVE  Registry'
  <1>1. /\ live' = live /\ loading' = loading /\ closing' = closing /\ flock' = flock
        /\ made' = made /\ closer' = closer /\ (refused' <=> refused)
    BY DEF Ordinary, registry
  <1>2. Shape'
    BY <1>1 DEF Registry, Shape, Ordinary, SameSessions
  <1>3. \A c \in Conns : /\ conn'[c].at = "install" <=> conn[c].at = "install"
                         /\ conn'[c].at = "read" <=> conn[c].at = "read"
                         /\ conn'[c].at = "unload" <=> conn[c].at = "unload"
                         /\ conn'[c].at = "closing" <=> conn[c].at = "closing"
                         /\ conn'[c].at = "closed" <=> conn[c].at = "closed"
                         /\ conn[c].at \in {"install", "read", "unload", "closing", "closed"}
                              => conn'[c] = conn[c]
    BY DEF Ordinary, Free, Plain, NoSession
  <1>4. \A r \in Runs : /\ run'[r].at \in Claimants <=> run[r].at \in Claimants
                        /\ run[r].at \in Claimants => run'[r] = run[r]
    BY DEF Ordinary
  <1>5. \A g : Installed(g)' <=> Installed(g)
    BY <1>1, <1>3 DEF Installed
  <1>6. /\ \A g \in 1..made : g \in Instances
        /\ \A g \in 0..made : g # 0 => g \in Instances
    BY LiveSessionAssumption DEF Registry, Shape, Instances
  <1>7. \A g \in Instances : /\ ls'[g].closed <=> ls[g].closed
                             /\ ls'[g].closes = ls[g].closes /\ ls'[g].subs \subseteq ls[g].subs
    BY DEF Ordinary, SameSessions
  <1>8. Locked'
    <2>1. live # 0 => live \in Instances
      BY <1>6 DEF Registry, Shape
    <2>2. QED
      BY <1>1, <1>6, <1>7, <2>1 DEF Registry, Locked
  <1>9. Loads'
    <2>1. \A c \in Conns : conn'[c].at \in {"read", "install", "unload"} <=> loading' = c
      BY <1>1, <1>3 DEF Registry, Loads
    <2>2. \A c \in Conns : conn'[c].at = "install" =>
             /\ conn'[c].ls = flock' /\ flock' # 0 /\ ~ls'[flock'].closed /\ ls'[flock'].subs = {}
             /\ live' = 0 /\ closer' # flock'
      <3>1. flock # 0 => flock \in Instances
        BY <1>6 DEF Registry, Shape
      <3>2. QED
        BY <1>1, <1>3, <1>7, <3>1 DEF Registry, Loads
    <2>3. \A c \in Conns : conn'[c].at \in Held => Installed(conn[c].ls)'
      <3>1. SUFFICES ASSUME NEW c \in Conns, conn'[c].at \in Held PROVE Installed(conn'[c].ls)
        BY <1>1, <1>3 DEF Installed
      <3>2. CASE conn'[c] = conn[c]
        BY <3>1, <3>2 DEF Registry, Loads
      <3>3. CASE conn'[c] # conn[c]
        BY <3>1, <3>3 DEF Ordinary, Free, Plain, NoSession, Held, Claimants
      <3>4. QED
        BY <3>2, <3>3
    <2>4. \A c \in Conns : conn'[c].at \in Held \cup NoSession \cup {"read", "install"}
      BY <1>3 DEF Registry, Loads, Ordinary, Free, Held
    <2>5. \A r \in Runs : run'[r].at # "none" => Installed(run[r].ls)'
      <3>1. SUFFICES ASSUME NEW r \in Runs, run'[r].at # "none" PROVE Installed(run'[r].ls)
        BY <1>1, <1>3 DEF Installed
      <3>2. CASE run'[r] = run[r]
        BY <3>1, <3>2 DEF Registry, Loads
      <3>3. CASE run'[r] # run[r]
        BY <3>1, <3>3 DEF Ordinary
      <3>4. QED
        BY <3>2, <3>3
    <2>6. \A g \in Instances : ls'[g].subs # {} => Installed(g)'
      BY <1>5, <1>7 DEF Registry, Loads
    <2>7. \A c \in Conns : conn'[c].at = "read" => made' < MaxLoads
      BY <1>1, <1>3 DEF Registry, Loads
    <2>8. QED
      BY <2>1, <2>2, <2>3, <2>4, <2>5, <2>6, <2>7 DEF Loads
  <1>10. Claims'
    <2>1. \A r \in Runs : run'[r].at = "closing" => run'[r] = run[r]
      BY <1>4 DEF Claimants
    <2>2. \A c \in Conns : conn'[c].at = "closing" => conn'[c] = conn[c]
      BY <1>3
    <2>3. \A c \in Conns : conn[c].at = "closing" => flock \in Instances
      BY <1>6 DEF Registry, Claims, Loads, Held, Claimants, Installed
    <2>4. \A r \in Runs : run[r].at = "closing" => flock \in Instances
      BY <1>6 DEF Registry, Claims, Loads, Installed
    <2>5. down = "closing" => flock \in Instances
      BY <1>6 DEF Registry, Claims, Shape
    <2>6. down' = "closing" <=> down = "closing"
      BY DEF Ordinary
    <2>7. \A r \in Runs : run'[r].at = "closed" => ls'[run'[r].ls].closes # 0
      <3>1. SUFFICES ASSUME NEW r \in Runs, run'[r].at = "closed"
                     PROVE  ls'[run'[r].ls].closes # 0
        OBVIOUS
      <3>2. run'[r] = run[r]
        BY <1>4, <3>1 DEF Claimants
      <3>3. run[r].ls \in Instances
        BY <1>6, <3>1, <3>2 DEF Registry, Loads, Installed
      <3>4. QED
        BY <1>7, <3>1, <3>2, <3>3 DEF Registry, Claims
    <2>8. \A c \in Conns : conn'[c].at = "closed" => ls'[conn'[c].ls].closes # 0
      <3>1. SUFFICES ASSUME NEW c \in Conns, conn'[c].at = "closed"
                     PROVE  ls'[conn'[c].ls].closes # 0
        OBVIOUS
      <3>2. conn'[c] = conn[c]
        BY <1>3, <3>1
      <3>3. conn[c].ls \in Instances
        BY <1>6, <3>1, <3>2 DEF Registry, Loads, Installed, Held, Claimants
      <3>4. QED
        BY <1>7, <3>1, <3>2, <3>3 DEF Registry, Claims
    <2>9. QED
      BY <1>1, <1>7, <2>1, <2>2, <2>3, <2>4, <2>5, <2>6, <2>7, <2>8 DEF Registry, Claims
  <1>11. Registered'
    <2>1. \A r \in Runs : run'[r].at \in Claimants => run'[r] = run[r]
      BY <1>4
    <2>2. \A c \in Conns : conn'[c].at \in Claimants => conn'[c] = conn[c]
      BY <1>3 DEF Claimants
    <2>3. closing # 0 => closing \in Instances
      BY <1>6 DEF Registry, Shape
    <2>4. Before' <=> Before
      BY DEF Ordinary
    <2>5. QED
      BY <1>1, <1>3, <1>7, <2>1, <2>2, <2>3, <2>4 DEF Registry, Registered
  <1>12. Taken'
    BY <1>1, <1>5 DEF Registry, Taken
  <1>13. Room' /\ Spawning'
    BY DEF Ordinary
  <1>14. QED
    BY <1>13, <1>2, <1>8, <1>9, <1>10, <1>11, <1>12 DEF Registry

\* The bound on runs is kept by a step after which no more requests ask for one, and that uses
\* none.
LEMMA RoomStays ==
  ASSUME Room, Submitting' \subseteq Submitting, Unused \subseteq Unused'
  PROVE  Room'
  <1>1. IsFiniteSet(Submitting) /\ IsFiniteSet(Unused')
    <2>1. IsFiniteSet(Runs)
      BY FS_Interval, LiveSessionAssumption DEF Runs
    <2>2. Submitting \subseteq Conns /\ Unused' \subseteq Runs
      BY DEF Submitting, Unused
    <2>3. QED
      BY <2>1, <2>2, FS_Subset, LiveSessionAssumption
  <1>2. /\ Cardinality(Submitting') <= Cardinality(Submitting)
        /\ Cardinality(Unused) <= Cardinality(Unused')
    BY <1>1, FS_Subset
  <1>3. /\ Cardinality(Submitting) \in Nat /\ Cardinality(Submitting') \in Nat
        /\ Cardinality(Unused) \in Nat /\ Cardinality(Unused') \in Nat
    BY <1>1, FS_Subset, FS_CardinalityType
  <1>4. QED
    BY <1>2, <1>3 DEF Room

\* So does a request that does not come to ask for one.
LEMMA RoomMoves ==
  ASSUME Room, NEW c \in Conns, NEW o, NEW p, NEW g, NEW r, Moved(c, o, p, g, r),
         p \in Asking => conn[c].at \in Asking, run' = run
  PROVE  Room'
  <1>1. Submitting' \subseteq Submitting
    BY DEF Submitting, Moved
  <1>2. Unused \subseteq Unused'
    BY DEF Unused
  <1>3. QED
    BY <1>1, <1>2, RoomStays

\* Nobody came to spawn a run, and no run that waits for it went on.
LEMMA SpawningStays ==
  ASSUME Spawning, \A d \in Conns : conn'[d].at = "spawn" => conn'[d] = conn[d],
         \A r \in Runs : run[r].at = "made" => run'[r].at = "made"
  PROVE  Spawning'
  BY DEF Spawning

\* A request that goes on with the instance it has, or ends, or looks one up that is live.
LEMMA GoesOn ==
  ASSUME Registry, NEW c \in Conns, NEW o, NEW p, NEW g, NEW r, Moved(c, o, p, g, r),
         conn[c].at \in Free, p \in Free, p \in Plain => (g = conn[c].ls
            /\ conn[c].at \in Plain) \/ (g = live /\ live # 0),
         SameSessions, UNCHANGED <<registry, run, closer, refused>>, Room',
         Before' <=> Before, down' = "closing" <=> down = "closing",
         p # "spawn"
  PROVE  Registry'
  <1>1. Spawning'
    BY SpawningStays DEF Registry, Moved
  <1>2. p \in Plain => Installed(g)
    <2>1. CASE g = conn[c].ls /\ conn[c].at \in Plain
      BY <2>1 DEF Registry, Loads, Held
    <2>2. CASE g = live /\ live # 0
      BY <2>2 DEF Registry, Loads, Shape, Installed
    <2>3. QED
      BY <2>1, <2>2
  <1>3. Ordinary
    BY <1>2, <1>1 DEF Ordinary, Moved, Registry, Shape, registry
  <1>4. QED
    BY <1>3, OrdinaryKeeps

\* A run that goes on with the instance it has and neither claims nor ends a close.
LEMMA RunGoesOn ==
  ASSUME Registry, NEW r \in Runs, run' = [q \in Runs |-> run'[q]],
         \A q \in Runs : q # r => run'[q] = run[q],
         DOMAIN run'[r] = RunFields, run'[r].ls = run[r].ls, run[r].at \notin {"none", "made"},
         run[r].at \notin Claimants, run'[r].at \notin Claimants,
         SameSessions, UNCHANGED <<registry, conn, down, closer, refused>>
  PROVE  Registry'
  <1>1. Installed(run[r].ls)
    BY DEF Registry, Loads
  <1>2. Room'
    <2>1. Submitting' \subseteq Submitting
      BY DEF Submitting
    <2>2. Unused \subseteq Unused'
      BY DEF Unused, NoRun
    <2>3. QED
      BY <2>1, <2>2, RoomStays DEF Registry
  <1>3. Spawning'
    BY SpawningStays DEF Registry
  <1>4. Ordinary
    BY <1>2, <1>1, <1>3 DEF Ordinary, Registry, Shape, registry, Before
  <1>5. QED
    BY <1>4, OrdinaryKeeps

\* Asking for a run needs one that is left (RunsLeft).
LEMMA RoomLeft ==
  ASSUME Registry, NEW c \in Conns, NEW o, NEW p, NEW g, NEW r, Moved(c, o, p, g, r),
         conn[c].at \notin Asking, RunsLeft, run' = run
  PROVE  Room'
  <1>1. IsFiniteSet(Submitting) /\ IsFiniteSet(Unused)
    <2>1. IsFiniteSet(Runs)
      BY FS_Interval, LiveSessionAssumption DEF Runs
    <2>2. Submitting \subseteq Conns /\ Unused \subseteq Runs
      BY DEF Submitting, Unused
    <2>3. QED
      BY <2>1, <2>2, FS_Subset, LiveSessionAssumption
  <1>2. Cardinality(Submitting) < Cardinality(Unused)
    BY DEF RunsLeft, Submitting, Unused, Asking
  <1>3. Submitting' \subseteq Submitting \cup {c} /\ c \notin Submitting
    BY DEF Submitting, Moved
  <1>4. Cardinality(Submitting \cup {c}) = Cardinality(Submitting) + 1
        /\ IsFiniteSet(Submitting \cup {c})
    BY <1>1, <1>3, FS_AddElement
  <1>5. Cardinality(Submitting') <= Cardinality(Submitting \cup {c}) /\ IsFiniteSet(Submitting')
    BY <1>3, <1>4, FS_Subset
  <1>6. /\ Cardinality(Submitting) \in Nat /\ Cardinality(Submitting') \in Nat
        /\ Cardinality(Unused) \in Nat
    BY <1>1, <1>5, FS_CardinalityType
  <1>7. Unused' = Unused
    BY DEF Unused
  <1>8. QED
    BY <1>2, <1>4, <1>5, <1>6, <1>7 DEF Room

\* A submit that goes on has a run to start, and takes it.
LEMMA RoomTaken ==
  ASSUME Registry, NEW c \in Conns, NEW o, NEW p, NEW g, NEW r, Moved(c, o, p, g, r),
         conn[c].at \in Asking, p \notin Asking, NEW x, x # NoRun,
         run' = [run EXCEPT ![NextRun] = x]
  PROVE  NextRun \in Runs /\ run[NextRun] = NoRun /\ Room'
  <1>1. IsFiniteSet(Submitting) /\ IsFiniteSet(Unused)
    <2>1. IsFiniteSet(Runs)
      BY FS_Interval, LiveSessionAssumption DEF Runs
    <2>2. Submitting \subseteq Conns /\ Unused \subseteq Runs
      BY DEF Submitting, Unused
    <2>3. QED
      BY <2>1, <2>2, FS_Subset, LiveSessionAssumption
  <1>2. c \in Submitting /\ Submitting' = Submitting \ {c}
    BY DEF Submitting, Moved
  <1>3. /\ Cardinality(Submitting') = Cardinality(Submitting) - 1
        /\ Cardinality(Submitting) \in Nat /\ Cardinality(Unused) \in Nat
        /\ IsFiniteSet(Submitting')
    BY <1>1, <1>2, FS_RemoveElement, FS_CardinalityType
  <1>4. Cardinality(Submitting') \in Nat
    BY <1>3, FS_CardinalityType
  <1>5. Cardinality(Unused) # 0
    BY <1>3, <1>4 DEF Registry, Room
  <1>6. Unused # {}
    BY <1>5, FS_EmptySet
  <1>7. NextRun \in Runs /\ run[NextRun] = NoRun
    BY <1>6 DEF Unused, NextRun
  <1>8. run' = [q \in Runs |-> IF q = NextRun THEN x ELSE run[q]]
    BY <1>7 DEF Registry, Shape
  <1>9. NextRun \in Unused /\ Unused' = Unused \ {NextRun}
    BY <1>7, <1>8 DEF Unused, NoRun
  <1>10. Cardinality(Unused') = Cardinality(Unused) - 1
    BY <1>1, <1>9, FS_RemoveElement
  <1>11. QED
    BY <1>3, <1>4, <1>7, <1>10 DEF Registry, Room

\* The steps of a request that go on with what it has found.
LEMMA OrdinarySteps ==
  ASSUME Registry, NEW c \in Conns
  PROVE  /\ \A o \in Uses : Resume(c, o) \/ Lookup(c, o) => Registry'
         /\ Load(c) /\ live # 0 => Registry'
         /\ Attach(c) /\ live = 0 => Registry'
         /\ Check(c) /\ ~Claimable(ls[conn[c].ls]) => Registry'
         /\ Fork(c) \/ Set(c) \/ Append(c) \/ Compact(c) \/ Compacted(c) => Registry'
         /\ Shell(c) \/ ShellAppend(c) \/ Interrupt(c) \/ RunnerInterrupt(c) => Registry'
         /\ Submit(c) \/ Start(c) \/ Spawn(c) \/ Undo(c) \/ Await(c) => Registry'
  <1> USE DEF Registry
  <1>1. ls' = ls => SameSessions
    BY DEF SameSessions, Shape
  <1>2. ASSUME NEW g, NEW m, ls' = [ls EXCEPT ![g].mu = m] PROVE SameSessions
    BY <1>2 DEF SameSessions, Shape, LiveFields
  <1>3. ASSUME NEW p, Step(c, p), SameSessions, UNCHANGED <<registry, run, ending, refused>>,
               p \in Free, conn[c].at \in Plain, p \in Asking => conn[c].at \in Asking, p # "spawn"
        PROVE  Registry'
    <2>1. Moved(c, conn[c].op, p, conn[c].ls, conn[c].r)
      BY <1>3, StepIs
    <2>2. Room'
      BY <1>3, <2>1, RoomMoves
    <2>3. /\ conn[c].at \in Free /\ (Before' <=> Before) /\ (down' = "closing" <=> down = "closing")
          /\ UNCHANGED <<closer, refused>>
      BY <1>3 DEF ending, Before, Free
    <2>4. QED
      BY <1>3, <2>1, <2>2, <2>3, GoesOn
  <1>4. ASSUME Answer(c), SameSessions, UNCHANGED <<registry, run, ending, refused>>,
               conn[c].at \in Free
        PROVE  Registry'
    <2>1. Moved(c, "none", "idle", 0, 0)
      BY <1>4, AnswerIs
    <2>2. Room'
      BY <1>4, <2>1, RoomMoves DEF Asking
    <2>3. QED
      BY <1>4, <2>1, <2>2, GoesOn DEF ending, Before, Free, NoSession, Plain
  <1>5. ASSUME NEW o \in Uses, Resume(c, o) PROVE Registry'
    <2>1. Moved(c, o, "load", 0, 0) /\ conn[c].at = "idle"
             /\ UNCHANGED <<registry, ls, turns, ending, refused>>
      BY <1>5 DEF Resume, Request, AtRest, Moved, Shape, ConnFields
    <2>2. Room'
      BY <2>1, RoomMoves DEF Asking, turns
    <2>3. QED
      BY <2>1, <2>2, <1>1, GoesOn DEF ending, turns, Before, Free, NoSession, Plain
  <1>6. ASSUME NEW o \in Uses, Lookup(c, o) PROVE Registry'
    <2>1. /\ Moved(c, o, o, live, 0) /\ live # 0 /\ conn[c].at = "idle"
          /\ o \in Requests \ {"resume", "fork", "shutdown"}
          /\ o \in {"submit", "steer"} => RunsLeft
          /\ UNCHANGED <<registry, ls, turns, ending, refused>>
      BY <1>6, LiveSessionAssumption DEF Lookup, Request, AtRest, Moved, Shape, ConnFields
    <2>2. Room'
      <3>1. CASE o \in {"submit", "steer"}
        BY <2>1, <3>1, RoomLeft DEF Asking, turns
      <3>2. CASE o \notin {"submit", "steer"}
        BY <2>1, <3>2, RoomMoves DEF Asking, turns, Requests
      <3>3. QED
        BY <3>1, <3>2
    <2>3. /\ conn[c].at \in Free /\ o \in Plain /\ o \in Free /\ o # "spawn"
          /\ UNCHANGED <<run, closer, refused, down>> /\ SameSessions /\ UNCHANGED registry
      BY <2>1, <1>1 DEF Requests, ending, turns, Free, Plain, NoSession
    <2>4. QED
      BY <2>1, <2>2, <2>3, GoesOn DEF Before
  <1>7. ASSUME Load(c), live # 0 PROVE Registry'
    <2>1. PICK p \in {"fork", "attach"} : Moved(c, conn[c].op, p, live, conn[c].r)
      <3>1. PICK p \in {"fork", "attach"} : conn' = [conn EXCEPT ![c].ls = live, ![c].at = p]
        BY <1>7 DEF Load, Loaded
      <3>2. Moved(c, conn[c].op, p, live, conn[c].r)
        BY <3>1 DEF Moved, Shape, ConnFields
      <3>3. QED
        BY <3>2
    <2>2. conn[c].at = "load" /\ UNCHANGED <<registry, ls, turns, ending, refused>>
      BY <1>7 DEF Load, registry
    <2>3. Room'
      BY <2>1, <2>2, RoomMoves DEF Asking, turns
    <2>4. QED
      BY <1>7, <2>1, <2>2, <2>3, <1>1, GoesOn DEF ending, turns, Before, Free, NoSession, Plain
  <1>8. ASSUME Attach(c), live = 0 PROVE Registry'
    <2>1. PICK p, o, g, r : p \in {"idle", "load"} /\ Moved(c, o, p, g, r)
      <3>1. CASE Answer(c)
        BY <3>1, AnswerIs
      <3>2. CASE conn' = [conn EXCEPT ![c].tries = @ + 1, ![c].at = "load"]
        <4>1. Moved(c, conn[c].op, "load", conn[c].ls, conn[c].r)
          BY <3>2 DEF Moved, Shape, ConnFields
        <4>2. QED
          BY <4>1
      <3>3. QED
        BY <1>8, <3>1, <3>2 DEF Attach
    <2>2. conn[c].at = "attach" /\ UNCHANGED <<registry, ls, turns, ending, refused>>
      BY <1>8 DEF Attach
    <2>3. Room'
      BY <2>1, <2>2, RoomMoves DEF Asking, turns
    <2>4. QED
      BY <2>1, <2>2, <2>3, <1>1, GoesOn DEF ending, turns, Before, Free, NoSession, Plain
  <1>9. ASSUME Check(c), ~Claimable(ls[conn[c].ls]) PROVE Registry'
    BY <1>9, <1>1, <1>4 DEF Check, turns, Free, Plain
  <1>10. ASSUME Fork(c) PROVE Registry'
    BY <1>10, <1>1, <1>4 DEF Fork, turns, Free, Plain
  <1>11. ASSUME Set(c) PROVE Registry'
    BY <1>11, <1>1, <1>2, <1>3, <1>4 DEF Set, TakeMu, turns, Free, Plain, Asking
  <1>12. ASSUME Append(c) PROVE Registry'
    BY <1>12, <1>2, <1>4 DEF Append, turns, Free, Plain
  <1>13. ASSUME Compact(c) PROVE Registry'
    BY <1>13, <1>1, <1>2, <1>3 DEF Compact, turns, Free, Plain, Asking
  <1>14. ASSUME Compacted(c) PROVE Registry'
    BY <1>14, <1>2, <1>3 DEF Compacted, turns, Free, Plain, Asking
  <1>15. ASSUME Shell(c) PROVE Registry'
    BY <1>15, <1>1, <1>3, <1>4 DEF Shell, turns, Free, Plain, Asking
  <1>16. ASSUME ShellAppend(c) PROVE Registry'
    BY <1>16, <1>1, <1>2, <1>3, <1>4 DEF ShellAppend, TakeMu, turns, Free, Plain, Asking
  <1>17. ASSUME Interrupt(c) PROVE Registry'
    <2>1. CASE Answer(c)
      BY <1>17, <2>1, <1>1, <1>4 DEF Interrupt, turns, Free, Plain
    <2>2. CASE conn' = [conn EXCEPT ![c].r = ls[conn[c].ls].runner, ![c].at = "cut"]
      <3>1. Moved(c, conn[c].op, "cut", conn[c].ls, ls[conn[c].ls].runner)
        BY <2>2 DEF Moved, Shape, ConnFields
      <3>2. conn[c].at \in Plain /\ UNCHANGED <<registry, ls, turns, ending, refused>>
        BY <1>17 DEF Interrupt, Plain
      <3>3. Room'
        BY <3>1, <3>2, RoomMoves DEF Asking, turns
      <3>4. /\ conn[c].at \in Free /\ "cut" \in Plain \cap Free
               /\ UNCHANGED <<run, closer, refused, down>>
            /\ SameSessions /\ UNCHANGED registry
        BY <3>2, <1>1 DEF ending, turns, Free, Plain
      <3>5. QED
        BY <3>1, <3>2, <3>3, <3>4, GoesOn DEF Before
    <2>3. QED
      BY <1>17, <2>1, <2>2 DEF Interrupt
  <1>18. ASSUME RunnerInterrupt(c) PROVE Registry'
    <2>1. SameSessions
      <3>1. CASE ls' = ls
        BY <3>1, <1>1
      <3>2. CASE ls' = [ls EXCEPT ![run[conn[c].r].ls].state = "idle"]
        BY <3>2 DEF SameSessions, Shape, LiveFields
      <3>3. QED
        BY <1>18, <3>1, <3>2 DEF RunnerInterrupt
    <2>2. QED
      BY <1>18, <2>1, <1>3, <1>4 DEF RunnerInterrupt, Free, Plain, Asking
  <1>19. ASSUME Submit(c) PROVE Registry'
    BY <1>19, <1>1, <1>2, <1>3, <1>4 DEF Submit, TakeMu, turns, Free, Plain, Asking
  <1>20. ASSUME Start(c) PROVE Registry'
    <2>1. Moved(c, conn[c].op, "spawn", conn[c].ls, NextRun) /\ conn[c].at = "start"
      BY <1>20 DEF Start, Moved, Shape, ConnFields
    <2>2. PICK t : run' = [run EXCEPT ![NextRun] = [at |-> "made", ls |-> conn[c].ls, r |-> t]]
      BY <1>20 DEF Start
    <2>3. PICK x : x = [at |-> "made", ls |-> conn[c].ls, r |-> t]
      OBVIOUS
    <2>4. x # NoRun /\ run' = [run EXCEPT ![NextRun] = x]
      BY <2>2, <2>3 DEF NoRun
    <2>5. conn[c].at \in Asking /\ "spawn" \notin Asking
      BY <2>1 DEF Asking
    <2>6. NextRun \in Runs /\ run[NextRun] = NoRun /\ Room'
      <3> HIDE DEF Registry
      <3>1. QED
        BY <2>1, <2>5, <2>4, RoomTaken
    <2>7. /\ run' = [r \in Runs |-> run'[r]]
          /\ run'[NextRun] = [at |-> "made", ls |-> conn[c].ls, r |-> t]
          /\ \A r \in Runs : r # NextRun => run'[r] = run[r]
      BY <2>2, <2>6 DEF Shape
    <2>8. Spawning'
      BY <2>1, <2>6, <2>7 DEF Spawning, Moved, NoRun
    <2>9. SameSessions
      BY <1>20 DEF Start, SameSessions, Shape, LiveFields
    <2>10. Installed(conn[c].ls)
      BY <2>1 DEF Loads, Held, Plain
    <2>11. Ordinary
      <3>1. UNCHANGED <<registry, closer, refused>> /\ UNCHANGED down
        BY <1>20 DEF Start, ending
      <3>2. /\ run' = [r \in Runs |-> run'[r]]
            /\ \A r \in Runs :
                  /\ DOMAIN run'[r] = RunFields
                  /\ \/ run'[r] = run[r]
                     \/ /\ run[r].at \notin Claimants /\ run'[r].at \notin Claimants
                        /\ run'[r].at # "none" => Installed(run'[r].ls)
        BY <2>7, <2>6, <2>10 DEF Shape, RunFields, NoRun, Claimants
      <3>3. QED
        BY <2>1, <2>6, <2>8, <2>9, <2>10, <3>1, <3>2 DEF Ordinary, Moved, Shape, Before, Free, Plain
    <2>12. QED
      BY <2>11, OrdinaryKeeps
  <1>21. ASSUME Spawn(c) PROVE Registry'
    <2>1. /\ conn[c].at = "spawn" /\ UNCHANGED <<registry, ls, ending, refused>>
          /\ conn[c].r \in Runs /\ run[conn[c].r].at = "made" /\ Installed(conn[c].ls)
          /\ Installed(run[conn[c].r].ls)
      BY <1>21 DEF Spawn, Spawning, Loads, Held, Plain
    <2>2. PICK o, p, g, r : /\ Moved(c, o, p, g, r) /\ p \in {"await", "undo", "idle"}
                            /\ p # "idle" => g = conn[c].ls
      BY <1>21, StepIs, AnswerIs DEF Spawn
    <2>3. PICK q \in {"run", "done"} : run' = [run EXCEPT ![conn[c].r].at = q]
      BY <1>21 DEF Spawn
    <2>4. /\ run' = [x \in Runs |-> run'[x]]
          /\ DOMAIN run'[conn[c].r] = RunFields /\ run'[conn[c].r].at = q
          /\ run'[conn[c].r].ls = run[conn[c].r].ls
          /\ \A x \in Runs : x # conn[c].r => run'[x] = run[x]
      BY <2>1, <2>3 DEF Shape, RunFields
    <2>5. Room'
      <3>1. Submitting' \subseteq Submitting
        BY <2>2 DEF Submitting, Moved, Asking
      <3>2. Unused \subseteq Unused'
        BY <2>1, <2>4 DEF Unused, NoRun
      <3>3. QED
        BY <3>1, <3>2, RoomStays
    <2>6. Spawning'
      BY <2>1, <2>2, <2>4 DEF Spawning, Moved
    <2>7. Ordinary
      <3>1. UNCHANGED <<registry, closer, refused, down>> /\ SameSessions
        BY <2>1, <1>1 DEF ending
      <3>2. \A x \in Runs :
               /\ DOMAIN run'[x] = RunFields
               /\ \/ run'[x] = run[x]
                  \/ /\ run[x].at \notin Claimants /\ run'[x].at \notin Claimants
                     /\ run'[x].at # "none" => Installed(run'[x].ls)
        BY <2>1, <2>3, <2>4 DEF Shape, Claimants
      <3>3. QED
        BY <2>1, <2>2, <2>4, <2>5, <2>6, <3>1, <3>2
        DEF Ordinary, Moved, Shape, Before, Free, Plain, NoSession
    <2>8. QED
      BY <2>7, OrdinaryKeeps
  <1>22. ASSUME Undo(c) PROVE Registry'
    <2>1. SameSessions
      BY <1>22 DEF Undo, SameSessions, Shape, LiveFields
    <2>2. QED
      BY <1>22, <2>1, <1>4 DEF Undo, turns, Free, Plain
  <1>23. ASSUME Await(c) PROVE Registry'
    BY <1>23, <1>1, <1>4 DEF Await, turns, Free, Plain
  <1>24. QED
    BY <1>5, <1>6, <1>7, <1>8, <1>9, <1>10, <1>11, <1>12, <1>13, <1>14, <1>15, <1>16, <1>17,
       <1>18, <1>19, <1>20, <1>21, <1>22, <1>23

\* The steps of a run that goes on, and what Shutdown does with the sessions left alone.
LEMMA OrdinaryRunSteps ==
  ASSUME Registry
  PROVE  /\ \A r \in Runs : RunBegins(r) \/ RunEnds(r) \/ Final(r) \/ Drop(r) => Registry'
         /\ \A r \in Runs : RunCheck(r) /\ ~Claimable(ls[run[r].ls]) => Registry'
         /\ Shutdown \/ CancelTurns \/ Waited => Registry'
         /\ UNCHANGED vars => Registry'
  <1> USE DEF Registry
  <1>1. ls' = ls => SameSessions
    BY DEF SameSessions, Shape
  <1>2. ASSUME NEW r \in Runs, NEW p, run' = [run EXCEPT ![r].at = p], SameSessions,
               run[r].at \notin {"none", "made"}, run[r].at \notin Claimants, p \notin Claimants,
               UNCHANGED <<registry, conn, ending, refused>>
        PROVE  Registry'
    <2>1. /\ run' = [q \in Runs |-> run'[q]] /\ DOMAIN run'[r] = RunFields
          /\ run'[r].ls = run[r].ls /\ run'[r].at = p
          /\ \A q \in Runs : q # r => run'[q] = run[q]
      BY <1>2 DEF Shape, RunFields
    <2>2. UNCHANGED <<registry, conn, down, closer, refused>>
      BY <1>2 DEF ending
    <2>3. QED
      BY <1>2, <2>1, <2>2, RunGoesOn
  <1>3. ASSUME NEW g, NEW s, ls' = [ls EXCEPT ![g].state = s] PROVE SameSessions
    BY <1>3 DEF SameSessions, Shape, LiveFields
  <1>4. ASSUME NEW g, NEW s, ls' = [ls EXCEPT ![g].runner = s] PROVE SameSessions
    BY <1>4 DEF SameSessions, Shape, LiveFields
  <1>5. ASSUME NEW r \in Runs, RunBegins(r) PROVE Registry'
    <2>1. /\ run[r].at \notin {"none", "made"} /\ run[r].at \notin Claimants
          /\ UNCHANGED <<registry, conn, ending, refused>>
      BY <1>5 DEF RunBegins, Claimants
    <2>2. SameSessions
      BY <1>5, <1>1, <1>3 DEF RunBegins
    <2>3. PICK p \in {"loop", "returned"} : run' = [run EXCEPT ![r].at = p]
      BY <1>5 DEF RunBegins
    <2>4. QED
      BY <2>1, <2>2, <2>3, <1>2 DEF Claimants
  <1>6. ASSUME NEW r \in Runs, RunEnds(r) PROVE Registry'
    <2>1. PICK s : ls' = [ls EXCEPT ![run[r].ls].state = s]
      BY <1>6 DEF RunEnds
    <2>2. SameSessions
      BY <2>1, <1>3
    <2>3. /\ run' = [run EXCEPT ![r].at = "returned"] /\ run[r].at = "loop"
          /\ UNCHANGED <<registry, conn, ending, refused>>
      BY <1>6 DEF RunEnds
    <2>4. /\ run[r].at \notin {"none", "made"} /\ run[r].at \notin Claimants
          /\ "returned" \notin Claimants
      BY <2>3 DEF Claimants
    <2>5. QED
      BY <2>2, <2>3, <2>4, <1>2
  <1>7. ASSUME NEW r \in Runs, Final(r) PROVE Registry'
    <2>1. PICK p \in {"keep", "drop"} : run' = [run EXCEPT ![r].at = p]
      BY <1>7 DEF Final
    <2>2. QED
      BY <1>7, <2>1, <1>1, <1>2 DEF Final, Claimants
  <1>8. ASSUME NEW r \in Runs, Drop(r) PROVE Registry'
    <2>1. SameSessions
      BY <1>8, <1>1, <1>4 DEF Drop
    <2>2. /\ run' = [run EXCEPT ![r].at = "check"] /\ run[r].at \in {"keep", "drop"}
          /\ UNCHANGED <<registry, conn, ending, refused>>
      BY <1>8 DEF Drop
    <2>3. /\ run[r].at \notin {"none", "made"} /\ run[r].at \notin Claimants
          /\ "check" \notin Claimants
      BY <2>2 DEF Claimants
    <2>4. QED
      BY <2>1, <2>2, <2>3, <1>2
  <1>9. ASSUME NEW r \in Runs, RunCheck(r), ~Claimable(ls[run[r].ls]) PROVE Registry'
    BY <1>9, <1>1, <1>2 DEF RunCheck, Claimants
  <1>10. ASSUME UNCHANGED <<registry, ls, conn, turns, closer, refused>>, Before' <=> Before,
                down' = "closing" <=> down = "closing"
         PROVE  Registry'
    <2>1. Room' /\ Spawning'
      BY <1>10 DEF Room, Submitting, Unused, Spawning, turns
    <2>2. Ordinary
      BY <1>10, <2>1, <1>1 DEF Ordinary, Shape, turns
    <2>3. QED
      BY <2>2, OrdinaryKeeps
  <1>11. ASSUME Shutdown \/ CancelTurns \/ Waited PROVE Registry'
    BY <1>11, <1>10 DEF Shutdown, CancelTurns, Waited, Before
  <1>12. ASSUME UNCHANGED vars PROVE Registry'
    BY <1>12, <1>10 DEF vars, ending, Before
  <1>13. QED
    BY <1>5, <1>6, <1>7, <1>8, <1>9, <1>11, <1>12

-----------------------------------------------------------------------------
(* Closing                                                                 *)

\* Only instance g changed, to these.
Became(g, closed, closes, subs) ==
    /\ ls' = [h \in Instances |-> ls'[h]]
    /\ \A h \in Instances : h # g => ls'[h] = ls[h]
    /\ DOMAIN ls'[g] = LiveFields
    /\ (ls'[g].closed <=> closed) /\ ls'[g].closes = closes /\ ls'[g].subs = subs

\* Only run r changed, to these.
RunMoved(r, p) ==
    /\ run' = [q \in Runs |-> run'[q]]
    /\ \A q \in Runs : q # r => run'[q] = run[q]
    /\ DOMAIN run'[r] = RunFields /\ run'[r].at = p /\ run'[r].ls = run[r].ls

\* An installed session that nobody has claimed has the lock, and nobody closes.
LEMMA OpenIsHeld ==
  ASSUME Registry, NEW g, Installed(g), ~ls[g].closed
  PROVE  /\ g = flock /\ g \in Instances /\ g # 0 /\ ls[g].closes = 0
         /\ \A c \in Conns : conn[c].at \notin {"closing", "install"}
         /\ \A r \in Runs : run[r].at # "closing"
         /\ down # "closing"
         /\ Before => /\ live = g /\ closing = 0
                      /\ \A c \in Conns : conn[c].at # "read" /\ conn[c].at \notin Claimants
                      /\ \A r \in Runs : run[r].at \notin Claimants
  <1> USE DEF Registry
  <1>1. g \in 1..made /\ g \in Instances /\ g # 0
    BY LiveSessionAssumption DEF Installed, Instances, Shape
  <1>2. g = flock /\ ls[g].closes = 0
    BY <1>1 DEF Locked
  <1>3. \A c \in Conns : conn[c].at \notin {"closing", "install"}
    BY <1>2 DEF Claims, Loads, Installed
  <1>4. (\A r \in Runs : run[r].at # "closing") /\ down # "closing"
    BY <1>2 DEF Claims
  <1>5. ASSUME Before
        PROVE  /\ live = g /\ closing = 0
               /\ \A c \in Conns : conn[c].at # "read" /\ conn[c].at \notin Claimants
               /\ \A r \in Runs : run[r].at \notin Claimants
    <2>1. live = g
      BY <1>1, <1>2, <1>3, <1>5 DEF Registered
    <2>2. closing = 0
      BY <1>1, <1>5, <2>1 DEF Registered
    <2>3. ~Installed(0)
      BY DEF Installed
    <2>4. /\ \A c \in Conns : conn[c].at \notin Claimants
          /\ \A r \in Runs : run[r].at \notin Claimants
      BY <1>5, <2>2, <2>3 DEF Registered, Loads, Held, Claimants
    <2>5. QED
      BY <1>1, <1>5, <2>1, <2>2, <2>4 DEF Registered
  <1>6. QED
    BY <1>1, <1>2, <1>3, <1>4, <1>5

\* What the claim of an unused session keeps, whoever makes it.
Claiming(g) ==
    /\ Installed(g) /\ ~ls[g].closed /\ Became(g, TRUE, ls[g].closes, {})
    /\ live' = 0 /\ closing' = g /\ UNCHANGED <<loading, flock, made, ending, refused>>

LEMMA RequestClaims ==
  ASSUME Registry, NEW g, Claiming(g), NEW c \in Conns, NEW o, NEW r, Moved(c, o, "closing", g, r),
         conn[c].at \in Free, run' = run
  PROVE  Registry'
  <1>1. /\ g = flock /\ g \in Instances /\ g # 0 /\ ls[g].closes = 0 /\ g \in 1..made
        /\ \A d \in Conns : conn[d].at \notin {"closing", "install"}
        /\ \A q \in Runs : run[q].at # "closing"
        /\ down # "closing"
        /\ Before => /\ live = g /\ closing = 0
                     /\ \A d \in Conns : conn[d].at # "read" /\ conn[d].at \notin Claimants
                     /\ \A q \in Runs : run[q].at \notin Claimants
    BY OpenIsHeld DEF Claiming, Installed
  <1>2. /\ live' = 0 /\ closing' = g /\ loading' = loading /\ flock' = flock /\ made' = made
        /\ down' = down /\ closer' = closer /\ (refused' <=> refused) /\ run' = run
        /\ (Before' <=> Before)
    BY DEF Claiming, ending, Before
  <1>3. /\ \A d \in Conns : d # c => conn'[d] = conn[d]
        /\ conn'[c].at = "closing" /\ conn'[c].ls = g
        /\ conn[c].at \notin {"read", "install", "unload", "closing", "closed"}
    BY DEF Moved, Free, NoSession, Plain
  <1>4. /\ \A h \in Instances : /\ h # g => ls'[h] = ls[h]
                                /\ ls'[h].closes = ls[h].closes
                                /\ ls'[h].subs \subseteq ls[h].subs
                                /\ ls[h].closed => ls'[h].closed
        /\ ls'[g].closed /\ ls'[g].subs = {}
    BY <1>1 DEF Claiming, Became
  <1>5. \A h : Installed(h)' <=> Installed(h)
    BY <1>2, <1>3 DEF Installed
  <1>6. Shape'
    BY <1>1, <1>2 DEF Registry, Shape, Claiming, Became, Moved
  <1>7. Room' /\ Spawning'
    <2>1. Room'
      BY RoomMoves DEF Registry, Asking
    <2>2. QED
      BY <1>2, <1>3, <2>1, SpawningStays DEF Registry
  <1>8. Locked'
    <2>1. \A h \in 1..made : h \in Instances
      BY LiveSessionAssumption DEF Registry, Shape, Instances
    <2>2. \A h \in Instances : /\ ls'[h].closes = ls[h].closes
                               /\ ls[h].subs = {} => ls'[h].subs = {}
                               /\ h > made => h # g
      BY <1>1, <1>4 DEF Registry, Shape
    <2>3. QED
      BY <1>1, <1>2, <1>4, <2>1, <2>2 DEF Registry, Locked
  <1>9. Loads'
    <2>1. \A d \in Conns : conn'[d].at \in Held => Installed(conn'[d].ls)
      BY <1>3 DEF Registry, Loads, Claiming
    <2>2. \A d \in Conns : conn'[d].at \in Held \cup NoSession \cup {"read", "install"}
      BY <1>3 DEF Registry, Loads, Held, Claimants
    <2>3. \A d \in Conns : conn'[d].at \in {"read", "install", "unload"} <=> loading' = d
      BY <1>2, <1>3 DEF Registry, Loads
    <2>4. /\ \A d \in Conns : conn'[d].at # "install"
          /\ \A d \in Conns : conn'[d].at = "read" => made' < MaxLoads
      BY <1>1, <1>2, <1>3 DEF Registry, Loads
    <2>5. /\ \A q \in Runs : run'[q].at # "none" => Installed(run'[q].ls)
          /\ \A h \in Instances : ls'[h].subs # {} => Installed(h)
      BY <1>2, <1>4 DEF Registry, Loads
    <2>6. QED
      BY <1>5, <2>1, <2>2, <2>3, <2>4, <2>5 DEF Loads, Installed
  <1>10. Claims'
    <2>1. \A d \in Conns : conn'[d].at = "closed" => ls'[conn'[d].ls].closes # 0
      <3>1. \A d \in Conns : conn[d].at = "closed" => conn[d].ls \in Instances
        BY LiveSessionAssumption
        DEF Registry, Loads, Held, Claimants, Installed, Shape, Instances
      <3>2. QED
        BY <1>3, <1>4, <3>1 DEF Registry, Claims
    <2>2. \A q \in Runs : run'[q].at = "closed" => ls'[run'[q].ls].closes # 0
      <3>1. \A q \in Runs : run[q].at = "closed" => run[q].ls \in Instances
        BY LiveSessionAssumption DEF Registry, Loads, Installed, Shape, Instances
      <3>2. QED
        BY <1>2, <1>4, <3>1 DEF Registry, Claims
    <2>3. QED
      BY <1>1, <1>2, <1>3, <1>4, <2>1, <2>2 DEF Claims
  <1>11. Registered'
    BY <1>1, <1>2, <1>3, <1>4 DEF Registry, Registered, Claimants
  <1>12. Taken'
    BY <1>2, <1>5 DEF Registry, Taken
  <1>13. QED
    BY <1>6, <1>7, <1>8, <1>9, <1>10, <1>11, <1>12 DEF Registry

LEMMA RunClaims ==
  ASSUME Registry, NEW g, Claiming(g), NEW r \in Runs, RunMoved(r, "closing"), run[r].ls = g,
         run[r].at = "check", conn' = conn
  PROVE  Registry'
  <1>1. /\ g = flock /\ g \in Instances /\ g # 0 /\ ls[g].closes = 0 /\ g \in 1..made
        /\ \A d \in Conns : conn[d].at \notin {"closing", "install"}
        /\ \A q \in Runs : run[q].at # "closing"
        /\ down # "closing"
        /\ Before => /\ live = g /\ closing = 0
                     /\ \A d \in Conns : conn[d].at # "read" /\ conn[d].at \notin Claimants
                     /\ \A q \in Runs : run[q].at \notin Claimants
    BY OpenIsHeld DEF Claiming, Installed
  <1>2. /\ live' = 0 /\ closing' = g /\ loading' = loading /\ flock' = flock /\ made' = made
        /\ down' = down /\ closer' = closer /\ (refused' <=> refused) /\ conn' = conn
        /\ (Before' <=> Before)
    BY DEF Claiming, ending, Before
  <1>3. /\ \A q \in Runs : q # r => run'[q] = run[q]
        /\ run'[r].at = "closing" /\ run'[r].ls = g
    BY DEF RunMoved
  <1>4. /\ \A h \in Instances : /\ h # g => ls'[h] = ls[h]
                                /\ ls'[h].closes = ls[h].closes
                                /\ ls'[h].subs \subseteq ls[h].subs
                                /\ ls[h].closed => ls'[h].closed
        /\ ls'[g].closed /\ ls'[g].subs = {}
    BY <1>1 DEF Claiming, Became
  <1>5. \A h : Installed(h)' <=> Installed(h)
    BY <1>2, <1>3 DEF Installed
  <1>6. Shape'
    BY <1>1, <1>2 DEF Registry, Shape, Claiming, Became, RunMoved
  <1>7. Room' /\ Spawning'
    <2>1. Submitting' \subseteq Submitting /\ Unused \subseteq Unused'
      BY <1>2, <1>3 DEF Submitting, Unused, NoRun
    <2>2. Room'
      BY <2>1, RoomStays DEF Registry
    <2>3. QED
      BY <1>2, <1>3, <2>2, SpawningStays DEF Registry
  <1>8. Locked'
    <2>1. \A h \in 1..made : h \in Instances
      BY LiveSessionAssumption DEF Registry, Shape, Instances
    <2>2. \A h \in Instances : /\ ls'[h].closes = ls[h].closes
                               /\ ls[h].subs = {} => ls'[h].subs = {}
                               /\ h > made => h # g
      BY <1>1, <1>4 DEF Registry, Shape
    <2>3. QED
      BY <1>1, <1>2, <1>4, <2>1, <2>2 DEF Registry, Locked
  <1>9. Loads'
    <2>1. \A d \in Conns : conn'[d].at \in Held => Installed(conn'[d].ls)
      BY <1>3 DEF Registry, Loads, Claiming
    <2>2. \A d \in Conns : conn'[d].at \in Held \cup NoSession \cup {"read", "install"}
      BY <1>3 DEF Registry, Loads, Held, Claimants
    <2>3. \A d \in Conns : conn'[d].at \in {"read", "install", "unload"} <=> loading' = d
      BY <1>2, <1>3 DEF Registry, Loads
    <2>4. /\ \A d \in Conns : conn'[d].at # "install"
          /\ \A d \in Conns : conn'[d].at = "read" => made' < MaxLoads
      BY <1>1, <1>2, <1>3 DEF Registry, Loads
    <2>5. /\ \A q \in Runs : run'[q].at # "none" => Installed(run'[q].ls)
          /\ \A h \in Instances : ls'[h].subs # {} => Installed(h)
      BY <1>3, <1>4 DEF Registry, Loads, Claiming
    <2>6. QED
      BY <1>5, <2>1, <2>2, <2>3, <2>4, <2>5 DEF Loads, Installed
  <1>10. Claims'
    <2>1. \A d \in Conns : conn'[d].at = "closed" => ls'[conn'[d].ls].closes # 0
      <3>1. \A d \in Conns : conn[d].at = "closed" => conn[d].ls \in Instances
        BY LiveSessionAssumption
        DEF Registry, Loads, Held, Claimants, Installed, Shape, Instances
      <3>2. QED
        BY <1>3, <1>4, <3>1 DEF Registry, Claims
    <2>2. \A q \in Runs : run'[q].at = "closed" => ls'[run'[q].ls].closes # 0
      <3>1. \A q \in Runs : run[q].at = "closed" => run[q].ls \in Instances
        BY LiveSessionAssumption DEF Registry, Loads, Installed, Shape, Instances
      <3>2. QED
        BY <1>3, <1>4, <3>1 DEF Registry, Claims
    <2>3. QED
      BY <1>1, <1>2, <1>3, <1>4, <2>1, <2>2 DEF Claims
  <1>11. Registered'
    BY <1>1, <1>2, <1>3, <1>4 DEF Registry, Registered, Claimants
  <1>12. Taken'
    BY <1>2, <1>5 DEF Registry, Taken
  <1>13. QED
    BY <1>6, <1>7, <1>8, <1>9, <1>10, <1>11, <1>12 DEF Registry

\* One of those that closes a log, g's, has closed it: a request, a run or Shutdown.
LogCloses(g) ==
    /\ g = flock /\ g # 0 /\ ls[g].closed /\ Became(g, TRUE, 1, ls[g].subs) /\ flock' = 0
    /\ UNCHANGED <<live, loading, closing, made, closer, refused>>
    /\ conn' = [d \in Conns |-> conn'[d]]
    /\ \A d \in Conns :
          \/ conn'[d] = conn[d]
          \/ /\ conn[d].at = "closing" /\ conn'[d].at = "closed" /\ DOMAIN conn'[d] = ConnFields
             /\ conn'[d].ls = conn[d].ls
    /\ run' = [q \in Runs |-> run'[q]]
    /\ \A q \in Runs :
          \/ run'[q] = run[q]
          \/ /\ run[q].at = "closing" /\ run'[q].at = "closed" /\ DOMAIN run'[q] = RunFields
             /\ run'[q].ls = run[q].ls
    /\ down' = down \/ (down = "closing" /\ down' = "stopped")
    /\ (\A d \in Conns : conn'[d].at # "closing") /\ (\A q \in Runs : run'[q].at # "closing")
    /\ down' # "closing"

LEMMA LogClosesKeeps ==
  ASSUME Registry, NEW g, LogCloses(g)
  PROVE  Registry'
  <1>1. /\ g = flock /\ g # 0 /\ g \in 1..made /\ g \in Instances /\ ls[g].closed
        /\ live = 0
        /\ \A d \in Conns : conn[d].at # "install"
        /\ Before => \A d \in Conns : conn[d].at # "read"
    BY LiveSessionAssumption
    DEF Registry, LogCloses, Shape, Instances, Locked, Loads, Registered
  <1>2. /\ live' = live /\ closing' = closing /\ loading' = loading /\ flock' = 0 /\ made' = made
        /\ closer' = closer /\ (refused' <=> refused) /\ (Before' <=> Before)
    BY DEF LogCloses, Before
  <1>3. \A d \in Conns :
           /\ conn'[d].ls = conn[d].ls /\ conn'[d].at # "closing" /\ DOMAIN conn'[d] = ConnFields
           /\ conn'[d].at = "closed" <=> conn[d].at \in Claimants
           /\ conn[d].at \notin Claimants => conn'[d] = conn[d]
    BY DEF LogCloses, Claimants, Registry, Shape
  <1>4. \A q \in Runs :
           /\ run'[q].ls = run[q].ls /\ run'[q].at # "closing" /\ DOMAIN run'[q] = RunFields
           /\ run'[q].at = "closed" <=> run[q].at \in Claimants
           /\ run[q].at \notin Claimants => run'[q] = run[q]
    BY DEF LogCloses, Claimants, Registry, Shape
  <1>5. /\ \A h \in Instances : /\ h # g => ls'[h] = ls[h]
                                /\ ls'[h].subs = ls[h].subs
                                /\ ls[h].closed <=> ls'[h].closed
                                /\ ls[h].closes # 0 => ls'[h].closes # 0
                                /\ DOMAIN ls'[h] = LiveFields
        /\ ls'[g].closes = 1
    BY <1>1 DEF LogCloses, Became, Registry, Shape
  <1>6. \A h : Installed(h)' <=> Installed(h)
    BY <1>1, <1>2, <1>3 DEF Installed
  <1>7. Shape'
    BY <1>1, <1>2, <1>3, <1>4, <1>5 DEF Registry, Shape, LogCloses, Became
  <1>8. Room'
    <2>1. Submitting' \subseteq Submitting
      BY <1>3 DEF Submitting, Asking, Claimants
    <2>2. Unused \subseteq Unused'
      BY <1>4 DEF Unused, NoRun, Claimants
    <2>3. QED
      BY <2>1, <2>2, RoomStays DEF Registry
  <1>9. Spawning'
    BY <1>3, <1>4, SpawningStays DEF Registry, Claimants
  <1>10. Locked'
    <2>1. \A h \in 1..made : h \in Instances /\ ls'[h].closes # 0 /\ h # 0
      <3>1. \A h \in 1..made : h \in Instances /\ h # 0
        BY LiveSessionAssumption DEF Registry, Shape, Instances
      <3>2. QED
        BY <1>1, <1>5, <3>1 DEF Registry, Locked
    <2>2. \A h \in Instances : h > made => h # g
      BY <1>1 DEF Registry, Shape
    <2>3. /\ \A h \in Instances : ls'[h].closes \in {0, 1}
          /\ \A h \in Instances : ls'[h].closes # 0 => ls'[h].closed
          /\ \A h \in Instances : h > made => ls'[h].closes = 0 /\ ~ls'[h].closed
             /\ ls'[h].subs = {}
      BY <1>1, <1>5, <2>2 DEF Registry, Locked
    <2>4. QED
      BY <1>1, <1>2, <2>1, <2>3 DEF Locked
  <1>11. Loads'
    <2>1. \A d \in Conns : /\ conn'[d].at \in Held => conn[d].at \in Held
                           /\ conn'[d].at \in Held \cup NoSession \cup {"read", "install"}
                           /\ conn'[d].at \in {"read", "install", "unload"} <=> loading' = d
                           /\ conn'[d].at = "read" => made' < MaxLoads
                           /\ conn'[d].at # "install"
      BY <1>1, <1>2, <1>3 DEF Registry, Loads, Held, Claimants
    <2>2. \A d \in Conns : conn'[d].at \in Held => Installed(conn'[d].ls)
      BY <1>3, <2>1 DEF Registry, Loads
    <2>3. \A q \in Runs : run'[q].at # "none" => Installed(run'[q].ls)
      BY <1>4 DEF Registry, Loads, Claimants
    <2>4. \A h \in Instances : ls'[h].subs # {} => Installed(h)
      BY <1>5 DEF Registry, Loads
    <2>5. QED
      BY <1>6, <2>1, <2>2, <2>3, <2>4 DEF Loads, Installed
  <1>12. Claims'
    <2>1. \A d \in Conns : conn'[d].at = "closed" => ls'[conn'[d].ls].closes # 0
      <3>1. \A d \in Conns : conn[d].at \in Claimants => conn[d].ls \in Instances
        BY LiveSessionAssumption
        DEF Registry, Loads, Held, Claimants, Installed, Shape, Instances
      <3>2. QED
        <4>1. SUFFICES ASSUME NEW d \in Conns, conn'[d].at = "closed"
                       PROVE  ls'[conn[d].ls].closes # 0
          BY <1>3
        <4>2. CASE conn[d].at = "closed"
          BY <1>5, <3>1, <4>1, <4>2 DEF Registry, Claims, Claimants
        <4>3. CASE conn[d].at = "closing"
          BY <1>1, <1>5, <4>3 DEF Registry, Claims
        <4>4. QED
          BY <1>3, <4>1, <4>2, <4>3 DEF Claimants
    <2>2. \A q \in Runs : run'[q].at = "closed" => ls'[run'[q].ls].closes # 0
      <3>1. \A q \in Runs : run[q].at \in Claimants => run[q].ls \in Instances
        BY LiveSessionAssumption DEF Registry, Loads, Installed, Shape, Instances, Claimants
      <3>2. QED
        <4>1. SUFFICES ASSUME NEW q \in Runs, run'[q].at = "closed"
                       PROVE  ls'[run[q].ls].closes # 0
          BY <1>4
        <4>2. CASE run[q].at = "closed"
          BY <1>5, <3>1, <4>1, <4>2 DEF Registry, Claims, Claimants
        <4>3. CASE run[q].at = "closing"
          BY <1>1, <1>5, <4>3 DEF Registry, Claims
        <4>4. QED
          BY <1>4, <4>1, <4>2, <4>3 DEF Claimants
    <2>3. down' # "closing"
      BY DEF LogCloses
    <2>4. QED
      BY <1>3, <1>4, <2>1, <2>2, <2>3 DEF Claims
  <1>13. Registered'
    <2>1. \A d \in Conns : /\ conn'[d].at \in Claimants <=> conn[d].at \in Claimants
                           /\ conn'[d].at = "read" => conn[d].at = "read"
      BY <1>3 DEF Claimants
    <2>2. \A q \in Runs : run'[q].at \in Claimants <=> run[q].at \in Claimants
      BY <1>4 DEF Claimants
    <2>3. closing # 0 => closing \in Instances
      BY LiveSessionAssumption DEF Registry, Shape, Instances
    <2>4. QED
      BY <1>1, <1>2, <1>3, <1>4, <1>5, <2>1, <2>2, <2>3 DEF Registry, Registered
  <1>14. Taken'
    BY <1>2, <1>6 DEF Registry, Taken
  <1>15. QED
    BY <1>7, <1>8, <1>9, <1>10, <1>11, <1>12, <1>13, <1>14 DEF Registry

\* A request or a run has ended the close it had claimed (CloseDone, RunCloseDone).
CloseEnds ==
    /\ closing' = 0 /\ UNCHANGED <<live, loading, flock, made, ls, ending, refused>>
    /\ conn' = [d \in Conns |-> conn'[d]]
    /\ \A d \in Conns :
          \/ conn'[d] = conn[d]
          \/ /\ conn[d].at = "closed" /\ conn'[d].at = "idle" /\ DOMAIN conn'[d] = ConnFields
    /\ run' = [q \in Runs |-> run'[q]]
    /\ \A q \in Runs :
          \/ run'[q] = run[q]
          \/ /\ run[q].at = "closed" /\ run'[q].at = "done" /\ DOMAIN run'[q] = RunFields
             /\ run'[q].ls = run[q].ls
    /\ \/ \E d \in Conns : conn[d].at = "closed" /\ conn'[d].at = "idle"
       \/ \E q \in Runs : run[q].at = "closed" /\ run'[q].at = "done"

LEMMA CloseEndsKeeps ==
  ASSUME Registry, CloseEnds
  PROVE  Registry'
  <1>1. /\ live' = live /\ closing' = 0 /\ loading' = loading /\ flock' = flock /\ made' = made
        /\ closer' = closer /\ (refused' <=> refused) /\ (Before' <=> Before) /\ ls' = ls
        /\ down' = down
    BY DEF CloseEnds, Before, ending
  <1>2. \A d \in Conns : /\ conn'[d].at = "closing" <=> conn[d].at = "closing"
                         /\ conn'[d].at = "install" <=> conn[d].at = "install"
                         /\ conn'[d].at = "read" <=> conn[d].at = "read"
                         /\ conn'[d].at \notin {"idle", "none"} => conn'[d] = conn[d]
                         /\ conn'[d].at # "idle" => conn'[d] = conn[d]
                         /\ DOMAIN conn'[d] = ConnFields
    BY DEF CloseEnds, Registry, Shape
  <1>3. \A q \in Runs : /\ run'[q].ls = run[q].ls /\ DOMAIN run'[q] = RunFields
                        /\ run'[q].at \in Claimants => run'[q] = run[q]
                        /\ run'[q].at = "none" <=> run[q].at = "none"
                        /\ run[q].at = "made" => run'[q] = run[q]
                        /\ run[q] = NoRun => run'[q] = NoRun
    BY DEF CloseEnds, Registry, Shape, Claimants, NoRun
  <1>4. \A h : Installed(h)' <=> Installed(h)
    BY <1>1, <1>2 DEF Installed
  <1>5. Shape'
    BY <1>1, <1>2, <1>3 DEF Registry, Shape, CloseEnds
  <1>6. Room'
    <2>1. Submitting' \subseteq Submitting
      BY <1>2 DEF Submitting, Asking
    <2>2. Unused \subseteq Unused'
      BY <1>3 DEF Unused
    <2>3. QED
      BY <2>1, <2>2, RoomStays DEF Registry
  <1>7. Spawning'
    BY <1>2, <1>3, SpawningStays DEF Registry
  <1>8. Locked'
    BY <1>1 DEF Registry, Locked
  <1>9. Loads'
    <2>1. \A d \in Conns : /\ conn'[d].at \in Held => Installed(conn'[d].ls)
                           /\ conn'[d].at \in Held \cup NoSession \cup {"read", "install"}
      BY <1>2 DEF Registry, Loads, Held, NoSession, Plain, Claimants
    <2>2. \A d \in Conns : conn'[d].at \in {"read", "install", "unload"} <=> loading' = d
      BY <1>1 DEF Registry, Loads, CloseEnds
    <2>3. \A d \in Conns : conn'[d].at \in {"read", "install"} => conn'[d] = conn[d]
      BY <1>2
    <2>4. QED
      BY <1>1, <1>3, <1>4, <2>1, <2>2, <2>3 DEF Registry, Loads
  <1>10. Claims'
    BY <1>1, <1>2, <1>3 DEF Registry, Claims, Claimants
  <1>11. Registered'
    <2>1. SUFFICES ASSUME Before PROVE Registered'
      BY <1>1 DEF Registered
    <2>2. /\ \A d \in Conns : conn'[d].at \notin Claimants
          /\ \A q \in Runs : run'[q].at \notin Claimants
      BY <2>1, <1>2, <1>3 DEF CloseEnds, Registry, Registered, Claimants
    <2>3. flock # closing
      <3>1. ls[closing].closes # 0 /\ Installed(closing)
        BY <2>1 DEF CloseEnds, Registry, Registered, Claims, Loads, Held, Claimants
      <3>2. QED
        BY <3>1 DEF Registry, Locked, Installed
    <2>4. QED
      BY <2>1, <2>2, <2>3, <1>1, <1>2 DEF Registry, Registered
  <1>12. Taken'
    BY <1>1, <1>4 DEF Registry, Taken
  <1>13. QED
    BY <1>5, <1>6, <1>7, <1>8, <1>9, <1>10, <1>11, <1>12 DEF Registry

\* The steps of those who close.
LEMMA ClosingSteps ==
  ASSUME Registry
  PROVE  /\ \A c \in Conns : Check(c) /\ Claimable(ls[conn[c].ls]) => Registry'
         /\ \A c \in Conns : CloseLog(c) \/ CloseDone(c) => Registry'
         /\ \A r \in Runs : RunCheck(r) /\ Claimable(ls[run[r].ls]) => Registry'
         /\ \A r \in Runs : RunCloseLog(r) \/ RunCloseDone(r) => Registry'
         /\ ShutdownCloseLog => Registry'
  <1>1. \A g : Installed(g) => g \in Instances
    BY LiveSessionAssumption DEF Registry, Shape, Installed, Instances
  <1>2. ASSUME NEW g, Installed(g), Claimable(ls[g]), Claimed(g, ls[g]),
               UNCHANGED <<ending, refused>>
        PROVE  Claiming(g)
    <2>1. Became(g, TRUE, ls[g].closes, {})
      BY <1>1, <1>2 DEF Claimed, Claimable, Became, Registry, Shape, LiveFields
    <2>2. QED
      BY <1>2, <2>1 DEF Claiming, Claimed, Claimable
  <1>3. ASSUME NEW c \in Conns, Check(c), Claimable(ls[conn[c].ls]) PROVE Registry'
    <2>1. conn[c].at = "check" /\ Installed(conn[c].ls)
      BY <1>3 DEF Check, Registry, Loads, Held, Plain
    <2>2. Claiming(conn[c].ls)
      BY <1>2, <1>3, <2>1 DEF Check
    <2>3. Moved(c, conn[c].op, "closing", conn[c].ls, conn[c].r)
      BY <1>3, StepIs DEF Check, Registry
    <2>4. run' = run /\ conn[c].at \in Free
      BY <1>3, <2>1 DEF Check, turns, Free, Plain
    <2>5. QED
      BY <2>2, <2>3, <2>4, RequestClaims
  <1>4. ASSUME NEW r \in Runs, NEW p, run' = [run EXCEPT ![r].at = p] PROVE RunMoved(r, p)
    BY <1>4 DEF RunMoved, Registry, Shape, RunFields
  <1>5. ASSUME NEW r \in Runs, RunCheck(r), Claimable(ls[run[r].ls]) PROVE Registry'
    <2>1. run[r].at = "check" /\ Installed(run[r].ls)
      BY <1>5 DEF RunCheck, Registry, Loads
    <2>2. Claiming(run[r].ls)
      BY <1>2, <1>5, <2>1 DEF RunCheck
    <2>3. RunMoved(r, "closing") /\ conn' = conn
      BY <1>4, <1>5 DEF RunCheck
    <2>4. QED
      BY <2>1, <2>2, <2>3, RunClaims
  <1>6. ASSUME NEW g, Installed(g), ls[g].closed, g = flock, LogClosed(g)
        PROVE  Became(g, TRUE, 1, ls[g].subs) /\ flock' = 0 /\ g # 0
    <2>1. g \in 1..made /\ g \in Instances
      BY <1>1, <1>6 DEF Installed
    <2>2. ls[g].closes = 0
      BY <1>6, <2>1 DEF Registry, Locked
    <2>3. QED
      <3>1. g # 0 /\ flock' = 0
        BY <1>6, <2>1 DEF LogClosed
      <3>2. /\ ls' = [h \in Instances |-> ls'[h]] /\ \A h \in Instances : h # g => ls'[h] = ls[h]
            /\ ls'[g] = [ls[g] EXCEPT !.closes = @ + 1]
        BY <1>6, <2>1 DEF LogClosed, Registry, Shape
      <3>3. DOMAIN ls'[g] = LiveFields /\ ls'[g].closes = 1 /\ ls'[g].subs = ls[g].subs
            /\ ls'[g].closed = ls[g].closed
        BY <2>1, <2>2, <3>2 DEF Registry, Shape, LiveFields
      <3>4. QED
        BY <1>6, <3>1, <3>2, <3>3 DEF Became
  <1>7. ASSUME NEW c \in Conns, CloseLog(c) PROVE Registry'
    <2>1. /\ conn[c].at = "closing" /\ Installed(conn[c].ls) /\ conn[c].ls = flock
          /\ ls[conn[c].ls].closed
      BY <1>7 DEF CloseLog, Registry, Claims, Loads, Held, Claimants
    <2>2. Became(conn[c].ls, TRUE, 1, ls[conn[c].ls].subs) /\ flock' = 0 /\ conn[c].ls # 0
      BY <1>6, <1>7, <2>1 DEF CloseLog
    <2>3. Moved(c, conn[c].op, "closed", conn[c].ls, conn[c].r)
      BY <1>7, StepIs DEF CloseLog, Registry
    <2>4. UNCHANGED <<live, loading, closing, made, closer, refused, run, down>>
      BY <1>7 DEF CloseLog, turns, ending
    <2>5. /\ \A d \in Conns : d # c => conn[d].at # "closing"
          /\ \A q \in Runs : run[q].at # "closing"
          /\ down # "closing"
      BY <2>1 DEF Registry, Claims
    <2>6. LogCloses(conn[c].ls)
      BY <2>1, <2>2, <2>3, <2>4, <2>5 DEF LogCloses, Moved, Registry, Shape
    <2>7. QED
      BY <2>6, LogClosesKeeps
  <1>8. ASSUME NEW r \in Runs, RunCloseLog(r) PROVE Registry'
    <2>1. /\ run[r].at = "closing" /\ Installed(run[r].ls) /\ run[r].ls = flock
          /\ ls[run[r].ls].closed
      BY <1>8 DEF RunCloseLog, Registry, Claims, Loads
    <2>2. Became(run[r].ls, TRUE, 1, ls[run[r].ls].subs) /\ flock' = 0 /\ run[r].ls # 0
      BY <1>6, <1>8, <2>1 DEF RunCloseLog
    <2>3. RunMoved(r, "closed")
      BY <1>4, <1>8 DEF RunCloseLog
    <2>4. UNCHANGED <<live, loading, closing, made, closer, refused, conn, down>>
      BY <1>8 DEF RunCloseLog, ending
    <2>5. /\ \A d \in Conns : conn[d].at # "closing"
          /\ \A q \in Runs : q # r => run[q].at # "closing"
          /\ down # "closing"
      BY <2>1 DEF Registry, Claims
    <2>6. LogCloses(run[r].ls)
      BY <2>1, <2>2, <2>3, <2>4, <2>5 DEF LogCloses, RunMoved, Registry, Shape
    <2>7. QED
      BY <2>6, LogClosesKeeps
  <1>9. ASSUME ShutdownCloseLog PROVE Registry'
    <2>1. down = "closing" /\ closer = flock /\ ls[closer].closed /\ Installed(closer)
      BY <1>9 DEF ShutdownCloseLog, Registry, Claims, Taken
    <2>2. Became(closer, TRUE, 1, ls[closer].subs) /\ flock' = 0 /\ closer # 0
      BY <1>6, <1>9, <2>1 DEF ShutdownCloseLog
    <2>3. UNCHANGED <<live, loading, closing, made, closer, refused, conn, run>>
             /\ down' = "stopped"
      BY <1>9 DEF ShutdownCloseLog, turns
    <2>4. (\A d \in Conns : conn[d].at # "closing") /\ (\A q \in Runs : run[q].at # "closing")
      BY <2>1 DEF Registry, Claims
    <2>5. LogCloses(closer)
      BY <2>1, <2>2, <2>3, <2>4 DEF LogCloses, Registry, Shape
    <2>6. QED
      BY <2>5, LogClosesKeeps
  <1>10. ASSUME NEW c \in Conns, CloseDone(c) PROVE Registry'
    <2>1. Moved(c, "none", "idle", 0, 0)
      BY <1>10, AnswerIs DEF CloseDone, Registry
    <2>2. /\ conn[c].at = "closed" /\ closing' = 0 /\ run' = run
          /\ UNCHANGED <<live, loading, flock, made, ls, ending, refused>>
      BY <1>10 DEF CloseDone, turns
    <2>3. CloseEnds
      BY <2>1, <2>2 DEF CloseEnds, Moved, Registry, Shape
    <2>4. QED
      BY <2>3, CloseEndsKeeps
  <1>11. ASSUME NEW r \in Runs, RunCloseDone(r) PROVE Registry'
    <2>1. RunMoved(r, "done")
      BY <1>4, <1>11 DEF RunCloseDone
    <2>2. /\ run[r].at = "closed" /\ closing' = 0 /\ conn' = conn
          /\ UNCHANGED <<live, loading, flock, made, ls, ending, refused>>
      BY <1>11 DEF RunCloseDone
    <2>3. CloseEnds
      BY <2>1, <2>2 DEF CloseEnds, RunMoved, Registry, Shape
    <2>4. QED
      BY <2>3, CloseEndsKeeps
  <1>12. QED
    BY <1>3, <1>5, <1>7, <1>8, <1>9, <1>10, <1>11

-----------------------------------------------------------------------------
(* Loading, attaching and leaving                                          *)

\* A cold load starts when no load and no close is in flight, so nobody has the lock.
LEMMA LoadStarts ==
  ASSUME Registry, NEW c \in Conns, Load(c), live = 0
  PROVE  Registry'
  <1>1. Moved(c, conn[c].op, "read", conn[c].ls, conn[c].r) /\ conn[c].at = "load"
    BY StepIs DEF Load, Registry
  <1>2. /\ loading = None /\ closing = 0 /\ made < MaxLoads /\ loading' = c
        /\ UNCHANGED <<live, closing, flock, made, ls, run, ending, refused>>
    BY DEF Load, turns
  <1>3. \A d \in Conns : conn[d].at \notin {"read", "install", "unload"}
    BY <1>2, LiveSessionAssumption DEF Registry, Loads
  <1>4. Before => flock = 0
    BY <1>2, <1>3 DEF Registry, Registered
  <1>5. \A h : Installed(h)' <=> Installed(h)
    BY <1>1, <1>2, <1>3 DEF Installed, Moved
  <1>6. Shape'
    BY <1>1, <1>2 DEF Registry, Shape, Moved, ending
  <1>7. Room' /\ Spawning'
    <2>1. Room'
      BY <1>1, <1>2, RoomMoves DEF Registry, Asking
    <2>2. QED
      BY <1>1, <1>2, <2>1, SpawningStays DEF Registry, Moved
  <1>8. Locked'
    BY <1>2 DEF Registry, Locked
  <1>9. Loads'
    <2>1. \A d \in Conns : conn'[d].at \in {"read", "install", "unload"} <=> loading' = d
      BY <1>1, <1>2, <1>3 DEF Moved
    <2>2. \A d \in Conns : conn'[d].at # "install" /\ (conn'[d].at = "read" => made' < MaxLoads)
      BY <1>1, <1>2, <1>3 DEF Moved
    <2>3. \A d \in Conns : /\ conn'[d].at \in Held => Installed(conn'[d].ls)
                           /\ conn'[d].at \in Held \cup NoSession \cup {"read", "install"}
      BY <1>1 DEF Registry, Loads, Moved, Held, Plain, Claimants
    <2>4. QED
      BY <1>2, <1>5, <2>1, <2>2, <2>3 DEF Registry, Loads
  <1>10. Claims'
    <2>1. \A d \in Conns : conn'[d].at \in Claimants => conn'[d] = conn[d]
      BY <1>1 DEF Moved, Claimants
    <2>2. QED
      BY <1>2, <2>1 DEF Registry, Claims, Claimants, ending
  <1>11. Registered'
    <2>1. \A d \in Conns : conn'[d].at \in Claimants => conn'[d] = conn[d]
      BY <1>1 DEF Moved, Claimants
    <2>2. \A d \in Conns : conn'[d].at # "install"
      BY <1>1, <1>3 DEF Moved
    <2>3. QED
      BY <1>2, <1>4, <2>1, <2>2 DEF Registry, Registered, Before, ending
  <1>12. Taken'
    BY <1>2, <1>5 DEF Registry, Taken, ending
  <1>13. QED
    BY <1>6, <1>7, <1>8, <1>9, <1>10, <1>11, <1>12 DEF Registry

\* A load makes an instance and takes the lock, or is refused, which it is not before Shutdown
\* has taken the sessions.
LEMMA ReadKeeps ==
  ASSUME Registry, NEW c \in Conns, Read(c)
  PROVE  Registry'
  <1>1. /\ conn[c].at = "read" /\ loading = c /\ made < MaxLoads
        /\ UNCHANGED <<live, closing, ls, run, ending>>
        /\ \A d \in Conns : d # c => conn[d].at \notin {"read", "install", "unload"}
    BY DEF Read, Registry, Loads, turns
  <1>2. made \in Nat /\ MaxLoads \in Nat
    BY LiveSessionAssumption DEF Registry, Shape
  <1>3. CASE flock = 0
    <2>1. /\ made' = made + 1 /\ flock' = made + 1 /\ loading' = loading /\ (refused' <=> refused)
          /\ conn' = [conn EXCEPT ![c].ls = made + 1, ![c].at = "install"]
      BY <1>1, <1>3 DEF Read
    <2>2. Moved(c, conn[c].op, "install", made + 1, conn[c].r)
      BY <2>1 DEF Moved, Registry, Shape, ConnFields
    <2>3. /\ live = 0 /\ closer # made + 1 /\ made + 1 \in Instances
          /\ \A h \in Instances : h > made => ls[h].closes = 0 /\ ~ls[h].closed /\ ls[h].subs = {}
      BY <1>1, <1>2, <1>3 DEF Registry, Locked, Shape, Instances
    <2>4. \A h : Installed(h) => Installed(h)'
      <3>1. \A h \in 1..made : h \in 1..made' /\ h # made + 1
        BY <1>2, <2>1
      <3>2. \A d \in Conns : conn'[d].at = "install" => conn'[d].ls = made + 1
        BY <1>1, <2>2 DEF Moved
      <3>3. QED
        BY <3>1, <3>2 DEF Installed
    <2>5. Shape'
      BY <1>1, <1>2, <2>1, <2>2 DEF Registry, Shape, Moved, ending
    <2>6. Room' /\ Spawning'
      <3>1. Room'
        BY <1>1, <2>2, RoomMoves DEF Registry, Asking
      <3>2. QED
        BY <1>1, <2>2, <3>1, SpawningStays DEF Registry, Moved
    <2>7. Locked'
      <3>1. \A h \in 1..(made + 1) : h \in Instances /\ (h \in 1..made \/ h = made + 1)
        BY <1>1, <1>2 DEF Instances
      <3>2. \A h \in 1..made : ls[h].closes # 0 /\ h # made + 1
        BY <1>2, <1>3 DEF Registry, Locked
      <3>3. \A h \in 1..made' : ls'[h].closes = 0 <=> h = flock'
        BY <1>1, <1>2, <2>1, <2>3, <3>1, <3>2
      <3>4. \A h \in Instances : h > made' =>
                ls'[h].closes = 0 /\ ~ls'[h].closed /\ ls'[h].subs = {}
        BY <1>1, <1>2, <2>1, <2>3 DEF Instances
      <3>5. QED
        BY <1>1, <2>3, <3>3, <3>4 DEF Registry, Locked
    <2>8. Loads'
      <3>1. \A d \in Conns : conn'[d].at \in {"read", "install", "unload"} <=> loading' = d
        BY <1>1, <2>1, <2>2 DEF Moved
      <3>2. \A d \in Conns : conn'[d].at = "install" =>
               /\ conn'[d].ls = flock' /\ flock' # 0 /\ ~ls'[flock'].closed /\ ls'[flock'].subs = {}
               /\ live' = 0 /\ closer' # flock'
        <4>1. /\ flock' = made + 1 /\ made + 1 # 0 /\ ls' = ls /\ live' = live /\ closer' = closer
              /\ made + 1 > made
          BY <1>1, <1>2, <2>1 DEF ending
        <4>2. \A d \in Conns : conn'[d].at = "install" => conn'[d].ls = made + 1
          BY <1>1, <2>2 DEF Moved
        <4>3. QED
          BY <2>3, <4>1, <4>2
      <3>3. \A d \in Conns : conn'[d].at # "read"
        BY <1>1, <2>2 DEF Moved
      <3>4. \A d \in Conns : /\ conn'[d].at \in Held => Installed(conn'[d].ls)
                             /\ conn'[d].at \in Held \cup NoSession \cup {"read", "install"}
        BY <2>2 DEF Registry, Loads, Moved, Held, Plain, Claimants
      <3>5. QED
        BY <1>1, <2>4, <3>1, <3>2, <3>3, <3>4 DEF Registry, Loads
    <2>9. Claims'
      <3>1. \A d \in Conns : conn'[d].at \in Claimants => conn'[d] = conn[d]
        BY <2>2 DEF Moved, Claimants
      <3>2. \A d \in Conns : conn[d].at # "closing"
        BY <1>3 DEF Registry, Claims, Loads, Held, Claimants, Installed
      <3>3. \A r \in Runs : run[r].at # "closing"
        BY <1>3 DEF Registry, Claims, Loads, Installed
      <3>4. down # "closing"
        BY <1>3 DEF Registry, Claims
      <3>5. QED
        BY <1>1, <3>1, <3>2, <3>3, <3>4 DEF Registry, Claims, Claimants, ending
    <2>10. Registered'
      <3>1. \A d \in Conns : conn'[d].at \in Claimants => conn'[d] = conn[d]
        BY <2>2 DEF Moved, Claimants
      <3>2. (\E d \in Conns : conn'[d].at = "install") /\ \A d \in Conns : conn'[d].at # "read"
        BY <1>1, <2>2 DEF Moved
      <3>3. Before => closing = 0
        BY <1>1 DEF Registry, Registered
      <3>4. QED
        BY <1>1, <2>1, <3>1, <3>2, <3>3 DEF Registry, Registered, Before, ending
    <2>11. Taken'
      BY <1>1, <2>4 DEF Registry, Taken, ending
    <2>12. QED
      BY <2>5, <2>6, <2>7, <2>8, <2>9, <2>10, <2>11 DEF Registry
  <1>4. CASE flock # 0
    <2>1. /\ loading' = None /\ UNCHANGED <<made, flock>> /\ ~Before
      BY <1>1, <1>4 DEF Read, Registry, Registered
    <2>2. Moved(c, "none", "idle", 0, 0)
      BY <1>1, <1>4, AnswerIs DEF Read, Registry
    <2>3. \A h : Installed(h)' <=> Installed(h)
      BY <1>1, <2>1, <2>2 DEF Installed, Moved
    <2>4. Shape'
      BY <1>1, <2>1, <2>2 DEF Registry, Shape, Moved, ending
    <2>5. Room' /\ Spawning'
      <3>1. Room'
        BY <1>1, <2>2, RoomMoves DEF Registry, Asking
      <3>2. QED
        BY <1>1, <2>2, <3>1, SpawningStays DEF Registry, Moved
    <2>6. Locked'
      BY <1>1, <2>1 DEF Registry, Locked
    <2>7. Loads'
      <3>1. \A d \in Conns : conn'[d].at \notin {"read", "install", "unload"} /\ loading' # d
        BY <1>1, <2>1, <2>2, LiveSessionAssumption DEF Moved
      <3>2. \A d \in Conns : /\ conn'[d].at \in Held => Installed(conn'[d].ls)
                             /\ conn'[d].at \in Held \cup NoSession \cup {"read", "install"}
        BY <2>2 DEF Registry, Loads, Moved, Held, Plain, Claimants, NoSession
      <3>3. QED
        BY <1>1, <2>3, <3>1, <3>2 DEF Registry, Loads
    <2>8. Claims'
      <3>1. \A d \in Conns : conn'[d].at \in Claimants => conn'[d] = conn[d]
        BY <2>2 DEF Moved, Claimants
      <3>2. QED
        BY <1>1, <2>1, <3>1 DEF Registry, Claims, Claimants, ending
    <2>9. Registered' /\ Taken'
      BY <1>1, <2>1, <2>3 DEF Registry, Registered, Taken, Before, ending
    <2>10. QED
      BY <2>4, <2>5, <2>6, <2>7, <2>8, <2>9 DEF Registry
  <1>5. QED
    BY <1>3, <1>4

\* The load puts its instance into s.live, and then is over.
LEMMA InstallKeeps ==
  ASSUME Registry, NEW c \in Conns, Install(c)
  PROVE  Registry'
  <1>1. /\ conn[c].at = "install" /\ live' = conn[c].ls
        /\ Moved(c, conn[c].op, "unload", conn[c].ls, conn[c].r)
        /\ UNCHANGED <<loading, closing, flock, made, ls, run, ending, refused>>
    BY StepIs DEF Install, Registry, turns
  <1>2. /\ live' = flock /\ flock # 0 /\ ~ls[flock].closed /\ ls[flock].subs = {}
        /\ live = 0 /\ closer # flock /\ loading = c
        /\ flock \in 1..made /\ flock \in Instances
    <2>1. /\ live' = flock /\ flock # 0 /\ ~ls[flock].closed /\ ls[flock].subs = {}
          /\ live = 0 /\ closer # flock /\ loading = c
      BY <1>1 DEF Registry, Loads
    <2>2. flock \in 1..made /\ flock \in Instances
      BY <2>1, LiveSessionAssumption DEF Registry, Shape, Instances
    <2>3. QED
      BY <2>1, <2>2
  <1>3. \A d \in Conns : d # c => conn[d].at \notin {"read", "install", "unload"}
    BY <1>2 DEF Registry, Loads
  <1>4. \A h : (Installed(h) => Installed(h)') /\ Installed(flock)'
    BY <1>1, <1>2, <1>3 DEF Installed, Moved
  <1>5. Shape'
    BY <1>1, <1>2 DEF Registry, Shape, Moved, ending
  <1>6. Room' /\ Spawning'
    <2>1. Room'
      BY <1>1, RoomMoves DEF Registry, Asking
    <2>2. QED
      BY <1>1, <2>1, SpawningStays DEF Registry, Moved
  <1>7. Locked'
    BY <1>1, <1>2 DEF Registry, Locked
  <1>8. Loads'
    <2>1. \A d \in Conns : conn'[d].at \in {"read", "install", "unload"} <=> loading' = d
      BY <1>1, <1>2, <1>3 DEF Moved
    <2>2. \A d \in Conns : conn'[d].at \notin {"read", "install"}
      BY <1>1, <1>3 DEF Moved
    <2>3. \A d \in Conns : /\ conn'[d].at \in Held => Installed(conn[d].ls)'
                           /\ conn'[d].at \in Held \cup NoSession \cup {"read", "install"}
      <3>1. SUFFICES ASSUME NEW d \in Conns
                     PROVE  /\ conn'[d].at \in Held => Installed(conn[d].ls)'
                            /\ conn'[d].at \in Held \cup NoSession \cup {"read", "install"}
        OBVIOUS
      <3>2. CASE d = c
        <4>1. conn'[d].at = "unload" /\ conn'[d].ls = flock
          BY <1>1, <1>2, <3>2 DEF Moved
        <4>2. Installed(conn[d].ls)'
          BY <1>1, <1>4, <4>1 DEF Installed
        <4>3. QED
          BY <4>1, <4>2 DEF Held
      <3>3. CASE d # c
        <4>1. conn'[d] = conn[d]
          BY <1>1, <3>3 DEF Moved
        <4>2. /\ conn[d].at \in Held => Installed(conn[d].ls)
              /\ conn[d].at \in Held \cup NoSession \cup {"read", "install"}
          BY DEF Registry, Loads
        <4>3. Installed(conn[d].ls) => Installed(conn[d].ls)'
          BY <1>4, <4>1 DEF Installed
        <4>4. QED
          BY <4>1, <4>2, <4>3
      <3>4. QED
        BY <3>2, <3>3
    <2>4. QED
      BY <1>1, <1>4, <2>1, <2>2, <2>3 DEF Registry, Loads
  <1>9. Claims'
    <2>1. \A d \in Conns : conn'[d].at \in Claimants => conn'[d] = conn[d]
      BY <1>1 DEF Moved, Claimants
    <2>2. QED
      BY <1>1, <2>1 DEF Registry, Claims, Claimants, ending
  <1>10. Registered'
    <2>1. \A d \in Conns : conn'[d].at \in Claimants => conn'[d] = conn[d]
      BY <1>1 DEF Moved, Claimants
    <2>2. \A d \in Conns : conn'[d].at \notin {"read", "install"}
      BY <1>1, <1>3 DEF Moved
    <2>3. Before => closing = 0 /\ \A h \in Instances : ls[h].subs = {}
      BY <1>1, <1>2, LiveSessionAssumption DEF Registry, Registered, Instances
    <2>4. QED
      BY <1>1, <1>2, <2>1, <2>2, <2>3 DEF Registry, Registered, Before, ending
  <1>11. Taken'
    BY <1>1, <1>2, <1>4 DEF Registry, Taken, ending
  <1>12. QED
    BY <1>5, <1>6, <1>7, <1>8, <1>9, <1>10, <1>11 DEF Registry

LEMMA UnloadKeeps ==
  ASSUME Registry, NEW c \in Conns, Unload(c)
  PROVE  Registry'
  <1>1. PICK p \in {"fork", "attach"} : conn' = [conn EXCEPT ![c].ls = conn[c].ls, ![c].at = p]
    BY DEF Unload, Loaded
  <1>2. Moved(c, conn[c].op, p, conn[c].ls, conn[c].r)
    BY <1>1 DEF Moved, Registry, Shape, ConnFields
  <1>3. /\ conn[c].at = "unload" /\ loading' = None /\ loading = c
        /\ UNCHANGED <<live, closing, flock, made, ls, run, ending, refused>>
        /\ \A d \in Conns : d # c => conn[d].at \notin {"read", "install", "unload"}
    BY DEF Unload, Registry, Loads, turns
  <1>4. \A h : Installed(h)' <=> Installed(h)
    BY <1>2, <1>3 DEF Installed, Moved
  <1>5. Shape'
    BY <1>2, <1>3 DEF Registry, Shape, Moved, ending
  <1>6. Room' /\ Spawning'
    <2>1. Room'
      BY <1>2, <1>3, RoomMoves DEF Registry, Asking
    <2>2. QED
      BY <1>2, <1>3, <2>1, SpawningStays DEF Registry, Moved
  <1>7. Locked'
    BY <1>3 DEF Registry, Locked
  <1>8. Loads'
    <2>1. \A d \in Conns : conn'[d].at \notin {"read", "install", "unload"} /\ loading' # d
      BY <1>2, <1>3, LiveSessionAssumption DEF Moved
    <2>2. \A d \in Conns : /\ conn'[d].at \in Held => Installed(conn'[d].ls)
                           /\ conn'[d].at \in Held \cup NoSession \cup {"read", "install"}
      BY <1>2, <1>3 DEF Registry, Loads, Moved, Held, Plain, Claimants, NoSession
    <2>3. QED
      BY <1>3, <1>4, <2>1, <2>2 DEF Registry, Loads
  <1>9. Claims' /\ Registered'
    <2>1. \A d \in Conns : /\ conn'[d].at \in Claimants => conn'[d] = conn[d]
                           /\ conn'[d].at = "install" <=> conn[d].at = "install"
                           /\ conn'[d].at = "read" <=> conn[d].at = "read"
      BY <1>2, <1>3 DEF Moved, Claimants
    <2>2. QED
      BY <1>3, <2>1 DEF Registry, Claims, Registered, Claimants, Before, ending
  <1>10. Taken'
    BY <1>3, <1>4 DEF Registry, Taken, ending
  <1>11. QED
    BY <1>5, <1>6, <1>7, <1>8, <1>9, <1>10 DEF Registry

\* A client attaches to what is live.
LEMMA AttachKeeps ==
  ASSUME Registry, NEW c \in Conns, Attach(c), live # 0
  PROVE  Registry'
  <1>1. /\ conn[c].at = "attach" /\ ls' = [ls EXCEPT ![live].subs = @ \cup {c}]
        /\ Moved(c, "none", "idle", 0, 0)
        /\ UNCHANGED <<registry, run, ending, refused>>
    BY AnswerIs DEF Attach, Registry, turns
  <1>2. /\ live = flock /\ live \in 1..made /\ live \in Instances
        /\ \A d \in Conns : conn[d].at # "install"
        /\ Installed(live)
    BY LiveSessionAssumption DEF Registry, Locked, Loads, Shape, Instances, Installed
  <1>3. /\ ls' = [h \in Instances |-> ls'[h]]
        /\ \A h \in Instances : /\ DOMAIN ls'[h] = LiveFields /\ ls'[h].closes = ls[h].closes
                                /\ (ls'[h].closed <=> ls[h].closed)
                                /\ h # live => ls'[h].subs = ls[h].subs
    BY <1>1, <1>2 DEF Registry, Shape, LiveFields
  <1>4. \A h : Installed(h)' <=> Installed(h)
    BY <1>1, <1>2 DEF Installed, Moved, registry
  <1>5. Shape'
    BY <1>1, <1>3 DEF Registry, Shape, Moved, ending, registry
  <1>6. Room' /\ Spawning'
    <2>1. Room'
      BY <1>1, RoomMoves DEF Registry, Asking
    <2>2. QED
      BY <1>1, <2>1, SpawningStays DEF Registry, Moved
  <1>7. Locked'
    <2>1. \A h \in 1..made : h \in Instances
      BY LiveSessionAssumption DEF Registry, Shape, Instances
    <2>2. \A h \in Instances : h > made => h # live
      BY <1>2 DEF Registry, Shape
    <2>3. QED
      BY <1>1, <1>2, <1>3, <2>1, <2>2 DEF Registry, Locked, registry
  <1>8. Loads'
    <2>1. \A d \in Conns : /\ conn'[d].at \in Held => Installed(conn'[d].ls)
                           /\ conn'[d].at \in Held \cup NoSession \cup {"read", "install"}
                           /\ conn'[d].at \in {"read", "install", "unload"} <=> loading = d
                           /\ conn'[d].at # "install"
                           /\ conn'[d].at = "read" => made < MaxLoads
      BY <1>1, <1>2 DEF Registry, Loads, Moved, Held, Plain, Claimants, NoSession
    <2>2. \A h \in Instances : ls'[h].subs # {} => Installed(h)
      BY <1>2, <1>3 DEF Registry, Loads
    <2>3. QED
      BY <1>1, <1>4, <2>1, <2>2 DEF Registry, Loads, registry
  <1>9. Claims'
    <2>1. \A d \in Conns : conn'[d].at \in Claimants => conn'[d] = conn[d]
      BY <1>1 DEF Moved, Claimants
    <2>2. \A d \in Conns : conn[d].at \in Claimants => conn[d].ls \in Instances
      BY LiveSessionAssumption DEF Registry, Loads, Held, Claimants, Installed, Shape, Instances
    <2>3. \A q \in Runs : run[q].at \in Claimants => run[q].ls \in Instances
      BY LiveSessionAssumption DEF Registry, Loads, Installed, Shape, Instances, Claimants
    <2>4. flock \in Instances
      BY <1>2
    <2>5. QED
      BY <1>1, <1>3, <2>1, <2>2, <2>3, <2>4 DEF Registry, Claims, Claimants, ending, registry
  <1>10. Registered'
    <2>1. \A d \in Conns : /\ conn'[d].at \in Claimants => conn'[d] = conn[d]
                           /\ conn'[d].at = "install" <=> conn[d].at = "install"
                           /\ conn'[d].at = "read" <=> conn[d].at = "read"
      BY <1>1 DEF Moved, Claimants
    <2>2. Before => closing = 0
      BY DEF Registry, Registered
    <2>3. QED
      BY <1>1, <1>2, <1>3, <2>1, <2>2 DEF Registry, Registered, Before, ending, registry
  <1>11. Taken'
    BY <1>1, <1>4 DEF Registry, Taken, ending, registry
  <1>12. QED
    BY <1>5, <1>6, <1>7, <1>8, <1>9, <1>10, <1>11 DEF Registry

\* A client leaves, and closes the session it was the last to use, or cancels its parked turn.
LEMMA DetachKeeps ==
  ASSUME Registry, NEW c \in Conns, Detach(c)
  PROVE  Registry'
  <1>1. PICK g \in Instances :
           LET l == [ls[g] EXCEPT !.subs = @ \ {c}]
           IN  /\ conn[c].at = "idle" /\ c \in ls[g].subs
               /\ IF Claimable(l)
                  THEN Claimed(g, l)
                  ELSE ls' = [ls EXCEPT ![g] = l] /\ UNCHANGED registry
               /\ conn' = [conn EXCEPT ![c] =
                      IF Claimable(l)
                      THEN [AtRest EXCEPT !.op = "detach", !.at = "closing", !.ls = g]
                      ELSE IF l.subs = {} /\ l.state = "steering"
                           THEN [AtRest EXCEPT !.op = "detach", !.at = "stop", !.ls = g]
                           ELSE AtRest]
               /\ UNCHANGED <<turns, ops, ending, refused>>
    BY DEF Detach
  <1> DEFINE l == [ls[g] EXCEPT !.subs = @ \ {c}]
  <1>2. /\ conn[c].at = "idle" /\ Installed(g) /\ run' = run /\ UNCHANGED <<ending, refused>>
        /\ DOMAIN ls[g] = LiveFields
    BY <1>1 DEF Registry, Loads, Shape, turns
  <1>3. CASE Claimable(l)
    <2>1. /\ Claimed(g, l)
          /\ conn' = [conn EXCEPT ![c] =
                          [AtRest EXCEPT !.op = "detach", !.at = "closing", !.ls = g]]
      BY <1>1, <1>3
    <2>2. Moved(c, "detach", "closing", g, 0)
      BY <2>1 DEF Moved, Registry, Shape, AtRest, ConnFields
    <2>3. /\ l.closed = ls[g].closed /\ l.closes = ls[g].closes /\ l.subs = {} /\ ~l.closed
          /\ DOMAIN l = LiveFields
      BY <1>2, <1>3 DEF Claimable, LiveFields
    <2>4. Became(g, TRUE, ls[g].closes, {})
      <3> HIDE DEF l
      <3>1. ls' = [ls EXCEPT ![g] = [l EXCEPT !.closed = TRUE]]
        BY <2>1 DEF Claimed
      <3>2. QED
        BY <2>3, <3>1 DEF Became, Registry, Shape, LiveFields
    <2>5. Claiming(g)
      BY <1>2, <2>1, <2>3, <2>4 DEF Claiming, Claimed
    <2>6. QED
      BY <1>2, <2>2, <2>5, RequestClaims DEF Free, NoSession
  <1>4. CASE ~Claimable(l)
    <2>1. /\ ls' = [ls EXCEPT ![g] = l] /\ UNCHANGED registry
          /\ conn' = [conn EXCEPT ![c] =
                IF l.subs = {} /\ l.state = "steering"
                THEN [AtRest EXCEPT !.op = "detach", !.at = "stop", !.ls = g]
                ELSE AtRest]
      BY <1>1, <1>4
    <2>2. SameSessions
      <3>1. /\ l.closed = ls[g].closed /\ l.closes = ls[g].closes /\ l.subs \subseteq ls[g].subs
            /\ DOMAIN l = LiveFields
        BY <1>2 DEF LiveFields
      <3> HIDE DEF l
      <3>2. QED
        BY <2>1, <3>1 DEF SameSessions, Registry, Shape
    <2>3. PICK p, o, h : p \in {"stop", "idle"} /\ Moved(c, o, p, h, 0) /\ (p = "stop" => h = g)
      <3>1. CASE conn' = [conn EXCEPT ![c] =
                             [AtRest EXCEPT !.op = "detach", !.at = "stop", !.ls = g]]
        BY <3>1 DEF Moved, Registry, Shape, AtRest, ConnFields
      <3>2. CASE conn' = [conn EXCEPT ![c] = AtRest]
        <4>1. Moved(c, "none", "idle", 0, 0)
          BY <3>2 DEF Moved, Registry, Shape, AtRest, ConnFields
        <4>2. QED
          BY <4>1
      <3>3. QED
        BY <2>1, <3>1, <3>2
    <2>4. Room'
      BY <1>2, <2>3, RoomMoves DEF Registry, Asking
    <2>5. Spawning'
      BY <1>2, <2>3, SpawningStays DEF Registry, Moved
    <2>6. Ordinary
      <3>1. /\ UNCHANGED <<closer, refused, registry>> /\ (Before' <=> Before)
            /\ (down' = "closing" <=> down = "closing")
        BY <1>2, <2>1 DEF ending, Before
      <3>2. /\ p \in Free /\ conn[c].at \in Free /\ (p \in Plain => h = g)
        BY <1>2, <2>3 DEF Free, NoSession, Plain
      <3>3. QED
        BY <1>2, <2>2, <2>3, <2>4, <2>5, <3>1, <3>2 DEF Ordinary, Moved, Registry, Shape
    <2>7. QED
      BY <2>6, OrdinaryKeeps
  <1>5. QED
    BY <1>3, <1>4

\* Shutdown takes the live session out of the map,
LEMMA TakeLiveKeeps ==
  ASSUME Registry, TakeLive
  PROVE  Registry'
  <1>1. /\ down = "asked" /\ down' = "taken" /\ closer' = live /\ live' = 0 /\ ~Before'
        /\ UNCHANGED <<loading, closing, flock, made, ls, conn, run>>
    BY DEF TakeLive, turns, Before
  <1>2. \A h : Installed(h)' <=> Installed(h)
    BY <1>1 DEF Installed
  <1>3. Shape'
    BY <1>1 DEF Registry, Shape
  <1>4. Room' /\ Spawning'
    BY <1>1 DEF Registry, Room, Submitting, Unused, Spawning
  <1>5. Locked'
    BY <1>1 DEF Registry, Locked
  <1>6. Loads'
    BY <1>1, <1>2 DEF Registry, Loads
  <1>7. Claims' /\ Registered'
    BY <1>1 DEF Registry, Claims, Registered
  <1>8. Taken'
    <2>1. live # 0 => Installed(live)
      BY DEF Registry, Loads, Shape, Installed
    <2>2. QED
      BY <1>1, <1>2, <2>1 DEF Taken
  <1>9. QED
    BY <1>3, <1>4, <1>5, <1>6, <1>7, <1>8 DEF Registry

\* and closes it unless somebody else has claimed it.
LEMMA CloseIfOpenKeeps ==
  ASSUME Registry, CloseIfOpen
  PROVE  Registry'
  <1>1. /\ down = "close" /\ down' \in {"stopped", "closing"}
        /\ UNCHANGED <<registry, conn, run, closer, refused>> /\ ~Before /\ ~Before'
    BY DEF CloseIfOpen, turns, Before
  <1>2. CASE down' = "stopped"
    <2>1. SameSessions
      <3>1. CASE closer = 0
        BY <3>1 DEF CloseIfOpen, SameSessions, Registry, Shape
      <3>2. CASE closer # 0 /\ ls[closer].closed
        <4>1. ls' = [ls EXCEPT ![closer].closed = TRUE]
          BY <3>2 DEF CloseIfOpen
        <4>2. QED
          BY <3>2, <4>1 DEF SameSessions, Registry, Shape, LiveFields
      <3>3. QED
        BY <1>2, <3>1, <3>2 DEF CloseIfOpen
    <2>2. Room' /\ Spawning'
      BY <1>1 DEF Registry, Room, Submitting, Unused, Spawning
    <2>3. Ordinary
      BY <1>1, <1>2, <2>1, <2>2 DEF Ordinary, Registry, Shape
    <2>4. QED
      BY <2>3, OrdinaryKeeps
  <1>3. CASE down' = "closing"
    <2>1. closer # 0 /\ ~ls[closer].closed /\ ls' = [ls EXCEPT ![closer].closed = TRUE]
      BY <1>3 DEF CloseIfOpen
    <2>2. /\ closer = flock /\ closer \in Instances /\ closer \in 1..made
          /\ \A c \in Conns : conn[c].at \notin {"closing", "install"}
          /\ \A r \in Runs : run[r].at # "closing"
          /\ closer # live
      BY <2>1, OpenIsHeld DEF Registry, Taken, Installed
    <2>3. /\ ls' = [h \in Instances |-> ls'[h]]
          /\ \A h \in Instances : /\ DOMAIN ls'[h] = LiveFields /\ ls'[h].closes = ls[h].closes
                                  /\ ls'[h].subs = ls[h].subs
                                  /\ h # closer => (ls'[h].closed <=> ls[h].closed)
          /\ ls'[closer].closed
      BY <2>1, <2>2 DEF Registry, Shape, LiveFields
    <2>4. live' = 0 /\ live = 0
      BY <1>1, <2>2 DEF Registry, Locked, registry
    <2>5. \A h : Installed(h)' <=> Installed(h)
      BY <1>1 DEF Installed, registry
    <2>6. Shape'
      BY <1>1, <2>3 DEF Registry, Shape, registry
    <2>7. Room' /\ Spawning'
      BY <1>1 DEF Registry, Room, Submitting, Unused, Spawning
    <2>8. Locked'
      <3>1. \A h \in 1..made : h \in Instances
        BY LiveSessionAssumption DEF Registry, Shape, Instances
      <3>2. \A h \in Instances : h > made => h # closer
        BY <2>2 DEF Registry, Shape
      <3>3. QED
        BY <1>1, <2>2, <2>3, <2>4, <3>1, <3>2 DEF Registry, Locked, registry
    <2>9. Loads'
      BY <1>1, <2>2, <2>3, <2>5 DEF Registry, Loads, registry
    <2>10. Claims'
      <3>1. \A d \in Conns : conn[d].at = "closed" => conn[d].ls \in Instances
        BY LiveSessionAssumption DEF Registry, Loads, Held, Claimants, Installed, Shape, Instances
      <3>2. \A q \in Runs : run[q].at = "closed" => run[q].ls \in Instances
        BY LiveSessionAssumption DEF Registry, Loads, Installed, Shape, Instances
      <3>3. QED
        BY <1>1, <2>1, <2>2, <2>3, <3>1, <3>2 DEF Registry, Claims, registry
    <2>11. Registered' /\ Taken'
      BY <1>1, <2>5 DEF Registry, Registered, Taken, registry
    <2>12. QED
      BY <2>6, <2>7, <2>8, <2>9, <2>10, <2>11 DEF Registry
  <1>4. QED
    BY <1>1, <1>2, <1>3

-----------------------------------------------------------------------------
(* The theorem                                                             *)

LEMMA RegistryInit == Init => Registry
  <1> SUFFICES ASSUME Init PROVE Registry
    OBVIOUS
  <1>1. /\ live = 0 /\ loading = None /\ closing = 0 /\ flock = 0 /\ made = 0 /\ closer = 0
        /\ ~refused /\ down = "up" /\ MaxLoads \in Nat
        /\ ls = [g \in Instances |-> Fresh] /\ conn = [c \in Conns |-> AtRest]
        /\ run = [r \in Runs |-> NoRun]
    BY LiveSessionAssumption DEF Init
  <1>2. /\ \A c \in Conns : conn[c].at = "idle" /\ DOMAIN conn[c] = ConnFields
        /\ \A r \in Runs : run[r].at = "none" /\ DOMAIN run[r] = RunFields /\ run[r] = NoRun
        /\ \A g \in Instances : /\ ls[g].closes = 0 /\ ~ls[g].closed /\ ls[g].subs = {}
                                /\ DOMAIN ls[g] = LiveFields
    BY <1>1 DEF AtRest, NoRun, Fresh, ConnFields, RunFields, LiveFields
  <1>3. Room
    <2>1. Submitting = {} /\ Unused = Runs
      BY <1>2 DEF Submitting, Unused, Asking
    <2>2. IsFiniteSet(Runs)
      BY FS_Interval, LiveSessionAssumption DEF Runs
    <2>3. Cardinality({}) = 0 /\ Cardinality(Runs) \in Nat
      BY <2>2, FS_EmptySet, FS_CardinalityType
    <2>4. QED
      BY <2>1, <2>3 DEF Room
  <1>4. Spawning /\ Shape
    BY <1>1, <1>2 DEF Spawning, Shape
  <1>5. Locked
    BY <1>1, <1>2 DEF Locked
  <1>6. Loads
    BY <1>1, <1>2, LiveSessionAssumption DEF Loads, Held, Plain, Claimants, NoSession
  <1>7. Claims /\ Registered /\ Taken
    BY <1>1, <1>2 DEF Claims, Registered, Taken, Claimants
  <1>8. QED
    BY <1>3, <1>4, <1>5, <1>6, <1>7 DEF Registry

LEMMA RegistryNext ==
  ASSUME Registry, [Next]_vars
  PROVE  Registry'
  <1>1. ASSUME NEW c \in Conns, Serve(c) PROVE Registry'
    <2>1. CASE Load(c)
      BY <2>1, OrdinarySteps, LoadStarts
    <2>2. CASE Read(c)
      BY <2>2, ReadKeeps
    <2>3. CASE Install(c)
      BY <2>3, InstallKeeps
    <2>4. CASE Unload(c)
      BY <2>4, UnloadKeeps
    <2>5. CASE Attach(c)
      BY <2>5, OrdinarySteps, AttachKeeps
    <2>6. CASE Fork(c) \/ Set(c) \/ Append(c) \/ Compact(c) \/ Compacted(c)
      BY <2>6, OrdinarySteps
    <2>7. CASE Shell(c) \/ ShellAppend(c) \/ Interrupt(c) \/ RunnerInterrupt(c)
      BY <2>7, OrdinarySteps
    <2>8. CASE Submit(c) \/ Start(c) \/ Spawn(c) \/ Undo(c) \/ Await(c)
      BY <2>8, OrdinarySteps
    <2>9. CASE Check(c)
      BY <2>9, OrdinarySteps, ClosingSteps
    <2>10. CASE CloseLog(c) \/ CloseDone(c)
      BY <2>10, ClosingSteps
    <2>11. QED
      BY <1>1, <2>1, <2>2, <2>3, <2>4, <2>5, <2>6, <2>7, <2>8, <2>9, <2>10 DEF Serve
  <1>2. ASSUME NEW c \in Conns, Detach(c) PROVE Registry'
    BY <1>2, DetachKeeps
  <1>3. ASSUME NEW c \in Conns, NEW o \in Uses, Resume(c, o) \/ Lookup(c, o) PROVE Registry'
    BY <1>3, OrdinarySteps
  <1>4. ASSUME NEW r \in Runs, RunTurn(r) \/ RunEnds(r) PROVE Registry'
    BY <1>4, OrdinaryRunSteps, ClosingSteps DEF RunTurn
  <1>5. ASSUME Shutdown \/ ShutdownStep PROVE Registry'
    BY <1>5, OrdinaryRunSteps, ClosingSteps, TakeLiveKeeps, CloseIfOpenKeeps DEF ShutdownStep
  <1>6. CASE UNCHANGED vars
    BY <1>6, OrdinaryRunSteps
  <1>7. QED
    BY <1>1, <1>2, <1>3, <1>4, <1>5, <1>6 DEF Next

LEMMA RegistryAlways == Spec => []Registry
  <1>1. Init => Registry
    BY RegistryInit
  <1>2. Registry /\ [Next]_vars => Registry'
    BY RegistryNext
  <1>3. QED
    BY <1>1, <1>2, PTL DEF Spec

\* A session that can be found, or that a client is attached to, is open and holds the store's
\* lock, and no load of this process is refused for a close of this process, whatever loads,
\* attachments, detachments and closes are under way (coldLoadOne, attachIfLive, detach,
\* claimCloseIfIdle, closeIfOpen).
THEOREM SessionsStayOpen == Spec => []LiveIsKept
  <1>1. Registry => LiveIsKept
    <2> SUFFICES ASSUME Registry PROVE LiveIsKept
      OBVIOUS
    <2>1. LiveIsOpen
      BY DEF Registry, Locked, LiveIsOpen
    <2>2. NotLockedOut
      BY DEF Registry, Registered, Before, NotLockedOut
    <2>3. SubscribersKeepItOpen
      BY DEF Registry, Registered, Locked, Before, Loads, Installed, SubscribersKeepItOpen
    <2>4. QED
      BY <2>1, <2>2, <2>3 DEF LiveIsKept
  <1>2. QED
    BY <1>1, RegistryAlways, PTL

-----------------------------------------------------------------------------
(* Turns                                                                   *)

\* Run r is on its way, going on, or parked.
Going == {"made", "run", "loop"}
Busy(r) == run[r].at \in Going \/ isActive(rs[r])

\* No such run is in instance g.
NoTurn(g) == \A r \in Runs : run[r].ls = g => ~Busy(r)

\* Each run has a runner of its own, and the mirror of its session is active while it is busy.
RunOk(r) ==
    /\ run[r].at \in RunSteps
    /\ run[r].at # "none" => run[r].r = r
    /\ rs[r] \in States
    /\ run[r].at \in {"none", "made", "run"} => rs[r] = "idle"
    /\ rs[r] = "busy" <=> run[r].at = "loop"
    /\ run[r].at = "drop" => rs[r] = "idle"
    /\ Busy(r) => ls[run[r].ls].runner = r /\ isActive(ls[run[r].ls].state)
    /\ run[r].at \in Going /\ ls[run[r].ls].closed => cut

Runners == rs = [r \in Runs |-> rs[r]] /\ \A r \in Runs : RunOk(r)

\* What a session's mirror says of runs.
MarkOk(g) ==
    /\ ls[g].runner # 0 => /\ ls[g].runner \in Runs
                           /\ run[ls[g].runner].at # "none" /\ run[ls[g].runner].ls = g
    /\ g > made => ls[g].state = "idle" /\ ls[g].runner = 0
    /\ down = "up" /\ isActive(ls[g].state) => \E r \in Runs : run[r].ls = g /\ Busy(r)

\* Whoever writes to a session outside a turn, or starts one, has its lock, and finds no turn
\* (a shell command's output is the exception).
Writers == {"append", "summary", "start"}
ConnOk(c) ==
    /\ conn[c].at # "steer" /\ conn[c].op # "steer"
    /\ conn[c].at \in {"shell", "command"} => conn[c].op = "shell"
    /\ conn[c].at \in Writers => /\ ls[conn[c].ls].mu = c /\ ~ls[conn[c].ls].closed
                                 /\ \/ NoTurn(conn[c].ls)
                                    \/ conn[c].at = "append" /\ conn[c].op = "shell"
    /\ conn[c].at = "cut" => conn[c].r \in Runs
    /\ conn[c].at = "undo" => /\ conn[c].r \in Runs /\ ~Busy(conn[c].r)
                              /\ run[conn[c].r].at # "none"

\* When Shutdown closes the sessions, nothing goes on, unless it ran out of its budget.
Waits ==
    /\ cut => down \in {"close", "closing", "stopped"}
    /\ down \in {"close", "closing", "stopped"} /\ ~cut => Quiet

Turns ==
    /\ Runners /\ Waits
    /\ (\A g \in Instances : MarkOk(g)) /\ (\A c \in Conns : ConnOk(c))

-----------------------------------------------------------------------------
(* Steps in which no turn begins or ends                                   *)

\* What who's step does to the sessions: a claim finds the lock free and no turn.
Sessions(who) ==
    \A g \in Instances :
        /\ ls'[g].state = ls[g].state
        /\ ls'[g].runner = ls[g].runner \/ (ls'[g].runner = 0 /\ NoTurn(g))
        /\ \/ ls'[g].mu = ls[g].mu
           \/ ls[g].mu = None /\ ls'[g].mu = who
           \/ ls[g].mu = who /\ ls'[g].mu = None
        /\ ls'[g].closed =>
              \/ ls[g].closed
              \/ ls[g].mu = None /\ \A r \in Runs : run[r].ls = g /\ run[r].at \in Going => cut

\* A run that has come to rest goes on.
Rests(r) ==
    /\ run[r].at \notin Going \cup {"none"} /\ run'[r].at \in RunSteps \ (Going \cup {"none"})
    /\ run'[r].r = run[r].r /\ run'[r].ls = run[r].ls
    /\ run'[r].at = "drop" => rs[r] = "idle"

LEMMA InInstances ==
  ASSUME Registry
  PROVE  /\ \A r \in Runs : run[r].at # "none" => run[r].ls \in Instances
         /\ \A c \in Conns : conn[c].at \in Held => conn[c].ls \in Instances
  BY LiveSessionAssumption DEF Registry, Loads, Installed, Shape, Instances

\* A session that is not marked active has no turn.
LEMMA UnmarkedIsFree ==
  ASSUME Turns, NEW g, ls[g].runner = 0 \/ ~isActive(ls[g].state)
  PROVE  NoTurn(g)
  BY DEF Turns, Runners, RunOk, NoTurn, Runs

LEMMA NoTurnKeeps ==
  ASSUME Registry, Turns, NEW who \in Conns \cup {None}, Sessions(who), rs' = rs, cut => cut',
         made' \in Nat, made <= made', down' = "up" => down = "up", Waits',
         \A r \in Runs : run'[r] = run[r] \/ Rests(r),
         \A d \in Conns : d # who => conn'[d] = conn[d],
         who \in Conns => ConnOk(who)'
  PROVE  Turns'
  <1>1. /\ \A r \in Runs : run[r].at # "none" => run[r].ls \in Instances
        /\ \A c \in Conns : conn[c].at \in Held => conn[c].ls \in Instances
    BY InInstances
  <1>2. \A r \in Runs : /\ run'[r].ls = run[r].ls
                        /\ run'[r].at = "none" <=> run[r].at = "none"
                        /\ run'[r].at \in Going <=> run[r].at \in Going
    BY DEF Rests
  <1>3. \A r \in Runs : Busy(r)' <=> Busy(r)
    BY <1>2 DEF Busy
  <1>4. \A g : NoTurn(g)' <=> NoTurn(g)
    BY <1>2, <1>3 DEF NoTurn
  <1>5. ASSUME NEW r \in Runs PROVE RunOk(r)'
    <2>1. RunOk(r)
      BY DEF Turns, Runners
    <2>2. /\ run'[r].at \in RunSteps
          /\ run'[r].at # "none" => run'[r].r = r
          /\ rs'[r] \in States
          /\ run'[r].at \in {"none", "made", "run"} => rs'[r] = "idle"
          /\ rs'[r] = "busy" <=> run'[r].at = "loop"
          /\ run'[r].at = "drop" => rs'[r] = "idle"
      BY <2>1 DEF RunOk, Rests, Going
    <2>3. Busy(r)' => ls'[run[r].ls].runner = r /\ isActive(ls'[run[r].ls].state)
      <3>1. SUFFICES ASSUME Busy(r)
            PROVE ls'[run[r].ls].runner = r /\ isActive(ls'[run[r].ls].state)
        BY <1>3
      <3>2. run[r].ls \in Instances
        BY <1>1, <2>1, <3>1 DEF Busy, RunOk, Going, isActive
      <3>3. QED
        BY <2>1, <3>1, <3>2 DEF RunOk, Sessions, NoTurn
    <2>4. run'[r].at \in Going /\ ls'[run[r].ls].closed => cut'
      BY <1>1, <1>2, <2>1 DEF RunOk, Sessions, Going
    <2>5. QED
      BY <1>2, <2>2, <2>3, <2>4 DEF RunOk
  <1>6. ASSUME NEW g \in Instances PROVE MarkOk(g)'
    <2>1. MarkOk(g)
      BY DEF Turns
    <2>2. /\ ls'[g].state = ls[g].state
          /\ ls'[g].runner = ls[g].runner \/ ls'[g].runner = 0
      BY DEF Sessions
    <2>3. g > made' => g > made
      BY LiveSessionAssumption DEF Registry, Shape, Instances
    <2>4. QED
      BY <1>2, <1>3, <2>1, <2>2, <2>3 DEF MarkOk
  <1>7. ASSUME NEW d \in Conns PROVE ConnOk(d)'
    <2>1. CASE d = who
      BY <2>1
    <2>2. CASE d # who
      <3>1. conn'[d] = conn[d] /\ ConnOk(d)
        BY <2>2 DEF Turns
      <3>2. conn[d].at \in Writers => ls'[conn[d].ls].mu = d /\ ~ls'[conn[d].ls].closed
        <4>1. SUFFICES ASSUME conn[d].at \in Writers
                       PROVE  ls'[conn[d].ls].mu = d /\ ~ls'[conn[d].ls].closed
          OBVIOUS
        <4>2. conn[d].ls \in Instances
          BY <1>1, <4>1 DEF Writers, Held, Plain
        <4>3. QED
          BY <2>2, <3>1, <4>1, <4>2, LiveSessionAssumption DEF ConnOk, Sessions
      <3>3. conn[d].at = "undo" => ~Busy(conn[d].r)' /\ run'[conn[d].r].at # "none"
        BY <1>2, <1>3, <3>1 DEF ConnOk, Busy
      <3>4. QED
        BY <1>4, <3>1, <3>2, <3>3 DEF ConnOk, NoTurn, Busy
    <2>3. QED
      BY <2>1, <2>2
  <1>8. rs' = [r \in Runs |-> rs'[r]]
    BY DEF Turns, Runners
  <1>9. QED
    BY <1>5, <1>6, <1>7, <1>8 DEF Turns, Runners

\* The requests' steps in which no turn begins or ends.
LEMMA QuietRequests ==
  ASSUME "steer" \notin Uses, Registry, Turns, NEW c \in Conns
  PROVE  /\ \A o \in Uses : Resume(c, o) \/ Lookup(c, o) => Turns'
         /\ Load(c) \/ Read(c) \/ Install(c) \/ Unload(c) \/ Attach(c) \/ Detach(c) => Turns'
         /\ Fork(c) \/ Set(c) \/ Append(c) \/ Compact(c) \/ Compacted(c) => Turns'
         /\ Shell(c) \/ ShellAppend(c) \/ Interrupt(c) => Turns'
         /\ Submit(c) \/ Undo(c) \/ Await(c) \/ Check(c) \/ CloseLog(c) \/ CloseDone(c) => Turns'
  <1>1. /\ Shape /\ made \in Nat /\ made <= made /\ None \notin Conns
        /\ (conn[c].at \in Held => conn[c].ls \in Instances)
        /\ ConnOk(c)
    BY InInstances, LiveSessionAssumption DEF Registry, Shape, Turns
  \* It is enough to look at the sessions and at the request.
  <1>2. ASSUME Sessions(c), UNCHANGED <<rs, run, down, cut>>, made' = made \/ made' = made + 1,
               conn[c].at # "idle" \/ down = "up" \/ (\E g \in Instances : c \in ls[g].subs),
               \A d \in Conns : d # c => conn'[d] = conn[d], ConnOk(c)'
        PROVE  Turns'
    <2>1. Waits'
      BY <1>2 DEF Turns, Waits, Quiet
    <2>2. made' \in Nat /\ made <= made'
      BY <1>1, <1>2
    <2>3. QED
      BY <1>1, <1>2, <2>1, <2>2, NoTurnKeeps
  \* Where nothing is held, and no run is known.
  <1> DEFINE Harmless == ConnSteps \ (Writers \cup {"steer", "shell", "command", "cut", "undo"})
  <1>3. ASSUME NEW o, NEW p \in Harmless, NEW g, NEW r, Moved(c, o, p, g, r), o # "steer"
        PROVE  (\A d \in Conns : d # c => conn'[d] = conn[d]) /\ ConnOk(c)'
    BY <1>3 DEF Moved, ConnOk
  <1>4. ls' = ls => Sessions(c)
    BY DEF Sessions
  \* A request goes on, or ends, and nothing else changes.
  <1>5. ASSUME NEW p \in Harmless, Step(c, p), Sessions(c), UNCHANGED <<rs, run, down, cut>>,
               made' = made \/ made' = made + 1, conn[c].at # "idle"
        PROVE  Turns'
    <2>1. Moved(c, conn[c].op, p, conn[c].ls, conn[c].r) /\ conn[c].op # "steer"
      BY <1>1, <1>5, StepIs DEF ConnOk
    <2>2. QED
      BY <1>2, <1>3, <1>5, <2>1
  <1>6. ASSUME Answer(c), Sessions(c), UNCHANGED <<rs, run, down, cut>>,
               made' = made, conn[c].at # "idle"
        PROVE  Turns'
    <2>1. Moved(c, "none", "idle", 0, 0) /\ "idle" \in Harmless
      BY <1>1, <1>6, AnswerIs DEF ConnSteps, Writers
    <2>2. QED
      BY <1>2, <1>3, <1>6, <2>1
  <1>7. ASSUME NEW o, NEW p \in Harmless, NEW g, NEW r, Moved(c, o, p, g, r), o # "steer",
               Sessions(c),
               UNCHANGED <<rs, run, down, cut>>, made' = made \/ made' = made + 1,
               conn[c].at # "idle" \/ down = "up" \/ (\E h \in Instances : c \in ls[h].subs)
        PROVE  Turns'
    BY <1>2, <1>3, <1>7
  \* What the updates of a session come to.
  <1>8. ASSUME NEW g, ls[g].mu = c, ls' = [ls EXCEPT ![g].mu = None] PROVE Sessions(c)
    BY <1>1, <1>8 DEF Sessions, Shape, LiveFields
  <1>9. ASSUME NEW g \in Instances, ls[g].mu = None, ls' = [ls EXCEPT ![g].mu = c]
        PROVE  Sessions(c) /\ ls'[g].mu = c /\ ls'[g].closed = ls[g].closed
    BY <1>1, <1>9 DEF Sessions, Shape, LiveFields
  <1>10. ASSUME NEW g, Claimable(ls[g]), Claimed(g, ls[g]) PROVE Sessions(c) /\ made' = made
    <2>1. NoTurn(g) /\ ls[g].mu = None
      BY <1>10, UnmarkedIsFree DEF Claimable
    <2>2. ls' = [ls EXCEPT ![g].closed = TRUE] /\ made' = made
      BY <1>10 DEF Claimed, Shape
    <2>3. \A h \in Instances : /\ ls'[h].state = ls[h].state /\ ls'[h].runner = ls[h].runner
                               /\ ls'[h].mu = ls[h].mu
                               /\ h # g => ls'[h].closed = ls[h].closed
      BY <1>1, <2>2 DEF Shape, LiveFields
    <2>4. QED
      BY <2>1, <2>2, <2>3 DEF Sessions, NoTurn, Busy
  <1> DEFINE Frame == UNCHANGED <<rs, run, down, cut>>
  <1>11. ASSUME UNCHANGED turns \/ UNCHANGED <<run, rs, how>>, UNCHANGED ending
         PROVE  Frame
    BY <1>11 DEF turns, ending
  <1>12. ASSUME NEW o \in Uses, Resume(c, o) PROVE Turns'
    <2>1. Moved(c, o, "load", 0, 0) /\ down = "up" /\ UNCHANGED <<made, ls>> /\ o # "steer" /\ Frame
      BY <1>1, <1>11, <1>12 DEF Resume, Request, AtRest, Moved, Shape, ConnFields, registry
    <2>2. "load" \in Harmless
      BY DEF ConnSteps, Writers
    <2>3. QED
      BY <2>1, <2>2, <1>4, <1>7
  <1>13. ASSUME NEW o \in Uses, Lookup(c, o) PROVE Turns'
    <2>1. /\ Moved(c, o, o, live, 0) /\ down = "up" /\ UNCHANGED <<made, ls>> /\ Frame
          /\ o \in Requests \ {"resume", "fork", "shutdown", "steer"}
      BY <1>1, <1>11, <1>13, LiveSessionAssumption
      DEF Lookup, Request, AtRest, Moved, Shape, ConnFields, registry
    <2>2. ConnOk(c)' /\ \A d \in Conns : d # c => conn'[d] = conn[d]
      BY <2>1 DEF Moved, ConnOk, Requests, Writers
    <2>3. QED
      BY <2>1, <2>2, <1>4, <1>2
  <1>14. ASSUME Load(c) PROVE Turns'
    <2>1. PICK p, g : p \in {"read", "fork", "attach"} /\ Moved(c, conn[c].op, p, g, conn[c].r)
      <3>1. CASE Step(c, "read")
        BY <1>1, <3>1, StepIs
      <3>2. CASE Loaded(c, live)
        <4>1. PICK p \in {"fork", "attach"} : conn' = [conn EXCEPT ![c].ls = live, ![c].at = p]
          BY <3>2 DEF Loaded
        <4>2. Moved(c, conn[c].op, p, live, conn[c].r)
          BY <1>1, <4>1 DEF Moved, Shape, ConnFields
        <4>3. QED
          BY <4>2
      <3>3. QED
        BY <1>14, <3>1, <3>2 DEF Load
    <2>2. conn[c].at = "load" /\ UNCHANGED <<made, ls>> /\ Frame /\ conn[c].op # "steer"
      BY <1>1, <1>11, <1>14 DEF Load, ConnOk
    <2>3. p \in Harmless
      BY <2>1 DEF ConnSteps, Writers
    <2>4. QED
      BY <2>1, <2>2, <2>3, <1>4, <1>7
  <1>15. ASSUME Read(c) PROVE Turns'
    <2>1. /\ conn[c].at = "read" /\ ls' = ls /\ Frame /\ conn[c].op # "steer"
          /\ made' = made \/ made' = made + 1
      BY <1>1, <1>11, <1>15 DEF Read, ConnOk
    <2>2. CASE Answer(c)
      <3>1. Moved(c, "none", "idle", 0, 0) /\ "idle" \in Harmless
        BY <1>1, <2>2, AnswerIs DEF ConnSteps, Writers
      <3>2. QED
        BY <2>1, <3>1, <1>4, <1>7
    <2>3. CASE conn' = [conn EXCEPT ![c].ls = made', ![c].at = "install"]
      <3>1. Moved(c, conn[c].op, "install", made', conn[c].r) /\ "install" \in Harmless
        BY <1>1, <2>3 DEF Moved, Shape, ConnFields, ConnSteps, Writers
      <3>2. QED
        BY <2>1, <3>1, <1>4, <1>7
    <2>4. QED
      BY <1>15, <2>2, <2>3 DEF Read
  <1>16. ASSUME Install(c) PROVE Turns'
    BY <1>16, <1>4, <1>5, <1>11 DEF Install, ConnSteps, Writers
  <1>17. ASSUME Unload(c) PROVE Turns'
    <2>1. PICK p \in {"fork", "attach"} : conn' = [conn EXCEPT ![c].ls = conn[c].ls, ![c].at = p]
      BY <1>17 DEF Unload, Loaded
    <2>2. Moved(c, conn[c].op, p, conn[c].ls, conn[c].r) /\ p \in Harmless
      BY <1>1, <2>1 DEF Moved, Shape, ConnFields, ConnSteps, Writers
    <2>3. conn[c].at = "unload" /\ UNCHANGED <<made, ls>> /\ Frame /\ conn[c].op # "steer"
      BY <1>1, <1>11, <1>17 DEF Unload, ConnOk
    <2>4. QED
      BY <2>2, <2>3, <1>4, <1>7
  <1>18. ASSUME Attach(c) PROVE Turns'
    <2>1. PICK p, o, g, r : p \in {"idle", "load"} /\ Moved(c, o, p, g, r) /\ o # "steer"
      <3>1. CASE Answer(c)
        BY <1>1, <3>1, AnswerIs
      <3>2. CASE conn' = [conn EXCEPT ![c].tries = @ + 1, ![c].at = "load"]
        BY <1>1, <3>2 DEF Moved, Shape, ConnFields, ConnOk
      <3>3. QED
        BY <1>18, <3>1, <3>2 DEF Attach
    <2>2. Sessions(c)
      <3>1. CASE ls' = [ls EXCEPT ![live].subs = @ \cup {c}]
        BY <1>1, <3>1 DEF Sessions, Shape, LiveFields
      <3>2. QED
        BY <1>18, <1>4, <3>1 DEF Attach
    <2>3. conn[c].at = "attach" /\ made' = made /\ Frame /\ p \in Harmless
      BY <1>11, <1>18, <2>1 DEF Attach, registry, ConnSteps, Writers
    <2>4. QED
      BY <2>1, <2>2, <2>3, <1>7
  <1>19. ASSUME Detach(c) PROVE Turns'
    <2>1. PICK g \in Instances :
             LET l == [ls[g] EXCEPT !.subs = @ \ {c}]
             IN  /\ conn[c].at = "idle" /\ c \in ls[g].subs
                 /\ IF Claimable(l)
                    THEN Claimed(g, l)
                    ELSE ls' = [ls EXCEPT ![g] = l] /\ UNCHANGED registry
                 /\ conn' = [conn EXCEPT ![c] =
                        IF Claimable(l)
                        THEN [AtRest EXCEPT !.op = "detach", !.at = "closing", !.ls = g]
                        ELSE IF l.subs = {} /\ l.state = "steering"
                             THEN [AtRest EXCEPT !.op = "detach", !.at = "stop", !.ls = g]
                             ELSE AtRest]
                 /\ UNCHANGED <<turns, ops, ending, refused>>
      BY <1>19 DEF Detach
    <2> DEFINE l == [ls[g] EXCEPT !.subs = @ \ {c}]
    <2>2. PICK p, o, k, r : p \in {"closing", "stop", "idle"} /\ Moved(c, o, p, k, r) /\ o # "steer"
      <3>1. CASE conn' = [conn EXCEPT ![c] =
                             [AtRest EXCEPT !.op = "detach", !.at = "closing", !.ls = g]]
        <4>1. Moved(c, "detach", "closing", g, 0)
          BY <1>1, <3>1 DEF Moved, Shape, AtRest, ConnFields
        <4>2. QED
          BY <4>1
      <3>2. CASE conn' = [conn EXCEPT ![c] =
                             [AtRest EXCEPT !.op = "detach", !.at = "stop", !.ls = g]]
        <4>1. Moved(c, "detach", "stop", g, 0)
          BY <1>1, <3>2 DEF Moved, Shape, AtRest, ConnFields
        <4>2. QED
          BY <4>1
      <3>3. CASE conn' = [conn EXCEPT ![c] = AtRest]
        <4>1. Moved(c, "none", "idle", 0, 0)
          BY <1>1, <3>3 DEF Moved, Shape, AtRest, ConnFields
        <4>2. QED
          BY <4>1
      <3>4. QED
        BY <2>1, <3>1, <3>2, <3>3
    <2>3. /\ DOMAIN ls[g] = LiveFields /\ DOMAIN l = LiveFields
          /\ l.closed = ls[g].closed /\ l.mu = ls[g].mu /\ l.state = ls[g].state
          /\ l.runner = ls[g].runner
      BY <1>1 DEF Shape, LiveFields
    <2>4. Sessions(c) /\ made' = made
      <3>1. CASE Claimable(l)
        <4>1. NoTurn(g) /\ ls[g].mu = None
          BY <2>3, <3>1, UnmarkedIsFree DEF Claimable
        <4>2. ls' = [ls EXCEPT ![g] = [l EXCEPT !.closed = TRUE]] /\ made' = made
          BY <2>1, <3>1 DEF Claimed
        <4> HIDE DEF l
        <4>3. \A h \in Instances : /\ ls'[h].state = ls[h].state /\ ls'[h].runner = ls[h].runner
                                   /\ ls'[h].mu = ls[h].mu
                                   /\ h # g => ls'[h].closed = ls[h].closed
          BY <1>1, <2>3, <4>2 DEF Shape, LiveFields
        <4>4. QED
          BY <4>1, <4>2, <4>3 DEF Sessions, NoTurn, Busy
      <3>2. CASE ~Claimable(l)
        <4>1. ls' = [ls EXCEPT ![g] = l] /\ made' = made
          BY <2>1, <3>2 DEF registry
        <4> HIDE DEF l
        <4>2. QED
          BY <1>1, <2>3, <4>1 DEF Sessions, Shape
      <3>3. QED
        BY <3>1, <3>2
    <2>5. Frame /\ p \in Harmless /\ \E h \in Instances : c \in ls[h].subs
      BY <1>11, <2>1, <2>2 DEF ConnSteps, Writers
    <2>6. QED
      BY <2>2, <2>4, <2>5, <1>7
  <1>20. ASSUME Fork(c) PROVE Turns'
    BY <1>20, <1>4, <1>6, <1>11 DEF Fork, registry
  \* c takes the session's lock, to write or to start a turn, or answers.
  <1>21. ASSUME NEW ok, NEW p \in Writers, TakeMu(c, ok, p), conn[c].at \in Held \ {"closed"},
                ok => ~ls[conn[c].ls].closed,
                ok => NoTurn(conn[c].ls) \/ (p = "append" /\ conn[c].op = "shell")
         PROVE  Turns'
    <2>1. ls[conn[c].ls].mu = None /\ made' = made /\ Frame
      BY <1>21, <1>11 DEF TakeMu, registry
    <2>2. CASE ok
      <3>1. ls' = [ls EXCEPT ![conn[c].ls].mu = c] /\ Step(c, p) /\ conn[c].ls \in Instances
        BY <1>1, <1>21, <2>2 DEF TakeMu
      <3>2. Moved(c, conn[c].op, p, conn[c].ls, conn[c].r)
        BY <1>1, <3>1, StepIs
      <3>3. Sessions(c) /\ ls'[conn[c].ls].mu = c /\ ls'[conn[c].ls].closed = ls[conn[c].ls].closed
        BY <2>1, <3>1, <1>9
      <3>4. NoTurn(conn[c].ls)' <=> \A r \in Runs : run[r].ls = conn'[c].ls => ~Busy(r)
        BY <2>1 DEF NoTurn, Busy
      <3>5. ConnOk(c)'
        BY <1>1, <1>21, <2>2, <3>2, <3>3, <3>4 DEF Moved, ConnOk, NoTurn, Writers
      <3>6. (\A d \in Conns : d # c => conn'[d] = conn[d]) /\ conn[c].at # "idle"
        BY <1>21, <3>2 DEF Moved, Held, Plain, Claimants
      <3>7. QED
        BY <2>1, <3>3, <3>5, <3>6, <1>2
    <2>3. CASE ~ok
      BY <1>21, <2>1, <2>3, <1>4, <1>6 DEF TakeMu, Held, Plain, Claimants
    <2>4. QED
      BY <2>2, <2>3
  <1>22. ASSUME Set(c) PROVE Turns'
    <2>1. /\ conn[c].at = "set" /\ "append" \in Writers /\ conn[c].at \in Held \ {"closed"}
          /\ TakeMu(c, ~ls[conn[c].ls].closed /\ ~isActive(ls[conn[c].ls].state), "append")
      BY <1>22 DEF Set, Writers, Held, Plain
    <2>2. ~isActive(ls[conn[c].ls].state) => NoTurn(conn[c].ls)
      BY UnmarkedIsFree
    <2>3. QED
      BY <2>1, <2>2, <1>21
  <1>23. ASSUME Append(c) PROVE Turns'
    <2>1. conn[c].at = "append" /\ ls[conn[c].ls].mu = c /\ made' = made /\ Frame
      BY <1>1, <1>11, <1>23 DEF Append, ConnOk, Writers, registry
    <2>2. Sessions(c)
      BY <1>8, <1>23, <2>1 DEF Append
    <2>3. QED
      BY <1>6, <1>23, <2>1, <2>2 DEF Append
  <1>24. ASSUME Compact(c) PROVE Turns'
    <2>1. /\ conn[c].at = "compact" /\ ls[conn[c].ls].mu = None /\ made' = made /\ Frame
          /\ conn[c].ls \in Instances /\ "summary" \in Writers /\ "check" \in Harmless
      BY <1>1, <1>11, <1>24 DEF Compact, registry, Held, Plain, Writers, ConnSteps
    <2> DEFINE ok == /\ ~ls[conn[c].ls].closed
                     /\ ~(ls[conn[c].ls].runner # 0 /\ isActive(ls[conn[c].ls].state))
    <2>2. CASE ok
      <3>1. NoTurn(conn[c].ls)
        BY <2>2, UnmarkedIsFree
      <3>2. ls' = [ls EXCEPT ![conn[c].ls].mu = c] /\ Step(c, "summary")
        BY <1>24, <2>2 DEF Compact
      <3>3. Moved(c, conn[c].op, "summary", conn[c].ls, conn[c].r)
        BY <1>1, <3>2, StepIs
      <3>4. Sessions(c) /\ ls'[conn[c].ls].mu = c /\ ls'[conn[c].ls].closed = ls[conn[c].ls].closed
        BY <2>1, <3>2, <1>9
      <3>5. ConnOk(c)'
        BY <1>1, <2>1, <2>2, <3>1, <3>3, <3>4 DEF Moved, ConnOk, NoTurn, Busy, Writers
      <3>6. \A d \in Conns : d # c => conn'[d] = conn[d]
        BY <3>3 DEF Moved
      <3>7. QED
        BY <2>1, <3>4, <3>5, <3>6, <1>2
    <2>3. CASE ~ok
      BY <1>4, <1>5, <1>24, <2>1, <2>3 DEF Compact
    <2>4. QED
      BY <2>2, <2>3
  <1>25. ASSUME Compacted(c) PROVE Turns'
    <2>1. /\ conn[c].at = "summary" /\ ls[conn[c].ls].mu = c /\ made' = made /\ Frame
          /\ "check" \in Harmless
      BY <1>1, <1>11, <1>25 DEF Compacted, ConnOk, Writers, registry, ConnSteps
    <2>2. Sessions(c)
      BY <1>8, <1>25, <2>1 DEF Compacted
    <2>3. QED
      BY <1>5, <1>25, <2>1, <2>2 DEF Compacted
  <1>26. ASSUME Shell(c) PROVE Turns'
    <2>1. conn[c].at = "shell" /\ made' = made /\ ls' = ls /\ Frame /\ conn[c].op = "shell"
      BY <1>1, <1>11, <1>26 DEF Shell, registry, ConnOk
    <2>2. CASE Answer(c)
      BY <1>4, <1>6, <2>1, <2>2
    <2>3. CASE Step(c, "command")
      <3>1. Moved(c, conn[c].op, "command", conn[c].ls, conn[c].r)
        BY <1>1, <2>3, StepIs
      <3>2. ConnOk(c)' /\ \A d \in Conns : d # c => conn'[d] = conn[d]
        BY <2>1, <3>1 DEF Moved, ConnOk, Writers
      <3>3. QED
        BY <1>2, <1>4, <2>1, <3>2
    <2>4. QED
      BY <1>26, <2>2, <2>3 DEF Shell
  <1>27. ASSUME ShellAppend(c) PROVE Turns'
    <2>1. /\ conn[c].at = "command" /\ TakeMu(c, ~ls[conn[c].ls].closed, "append")
          /\ conn[c].op = "shell" /\ "append" \in Writers /\ conn[c].at \in Held \ {"closed"}
      BY <1>1, <1>27 DEF ShellAppend, ConnOk, Writers, Held, Plain
    <2>2. QED
      BY <2>1, <1>21
  <1>28. ASSUME Interrupt(c) PROVE Turns'
    <2>1. /\ conn[c].at \in {"stop", "cancel"} /\ made' = made /\ ls' = ls /\ Frame
          /\ conn[c].ls \in Instances
      BY <1>1, <1>11, <1>28 DEF Interrupt, registry, Held, Plain
    <2>2. CASE ls[conn[c].ls].runner = 0
      BY <1>4, <1>6, <1>28, <2>1, <2>2 DEF Interrupt
    <2>3. CASE ls[conn[c].ls].runner # 0
      <3>1. conn' = [conn EXCEPT ![c].r = ls[conn[c].ls].runner, ![c].at = "cut"]
        BY <1>28, <2>3 DEF Interrupt
      <3>2. Moved(c, conn[c].op, "cut", conn[c].ls, ls[conn[c].ls].runner)
        BY <1>1, <3>1 DEF Moved, Shape, ConnFields
      <3>3. ls[conn[c].ls].runner \in Runs
        BY <2>1, <2>3 DEF Turns, MarkOk
      <3>4. ConnOk(c)' /\ \A d \in Conns : d # c => conn'[d] = conn[d]
        BY <1>1, <3>2, <3>3 DEF Moved, ConnOk, Writers
      <3>5. QED
        BY <1>2, <1>4, <2>1, <3>4
    <2>4. QED
      BY <2>2, <2>3
  <1>29. ASSUME Submit(c) PROVE Turns'
    <2>1. conn[c].at = "submit" /\ conn[c].op # "steer"
      BY <1>1, <1>29 DEF Submit, ConnOk
    <2>2. /\ "start" \in Writers /\ conn[c].at \in Held \ {"closed"}
          /\ TakeMu(c, ~ls[conn[c].ls].closed /\ ~(ls[conn[c].ls].runner # 0
             /\ isActive(ls[conn[c].ls].state)),
                    "start")
      BY <1>29, <2>1 DEF Submit, Writers, Held, Plain
    <2>3. ~(ls[conn[c].ls].runner # 0 /\ isActive(ls[conn[c].ls].state)) => NoTurn(conn[c].ls)
      BY UnmarkedIsFree
    <2>4. QED
      BY <2>2, <2>3, <1>21
  <1>30. ASSUME Undo(c) PROVE Turns'
    <2>1. /\ conn[c].at = "undo" /\ made' = made /\ Frame /\ conn[c].r \in Runs /\ ~Busy(conn[c].r)
      BY <1>1, <1>11, <1>30 DEF Undo, registry, ConnOk
    <2>2. CASE ls[conn[c].ls].runner = conn[c].r
      <3>1. NoTurn(conn[c].ls)
        BY <2>1, <2>2 DEF Turns, Runners, RunOk, NoTurn
      <3>2. ls' = [ls EXCEPT ![conn[c].ls].runner = 0]
        BY <1>30, <2>2 DEF Undo
      <3>3. Sessions(c)
        BY <1>1, <3>1, <3>2 DEF Sessions, Shape, LiveFields
      <3>4. QED
        BY <1>6, <1>30, <2>1, <3>3 DEF Undo
    <2>3. CASE ls[conn[c].ls].runner # conn[c].r
      <3>1. ls' = [ls EXCEPT ![conn[c].ls].runner = @]
        BY <1>30, <2>3 DEF Undo
      <3>2. Sessions(c)
        BY <1>1, <3>1 DEF Sessions, Shape, LiveFields
      <3>3. QED
        BY <1>6, <1>30, <2>1, <3>2 DEF Undo
    <2>4. QED
      BY <2>2, <2>3
  <1>31. ASSUME Await(c) PROVE Turns'
    BY <1>31, <1>4, <1>6, <1>11 DEF Await, registry
  <1>32. ASSUME Check(c) PROVE Turns'
    <2>1. conn[c].at = "check" /\ Frame /\ "closing" \in Harmless
      BY <1>11, <1>32 DEF Check, ConnSteps, Writers
    <2>2. CASE Claimable(ls[conn[c].ls])
      <3>1. Sessions(c) /\ made' = made /\ Step(c, "closing")
        BY <1>10, <1>32, <2>2 DEF Check
      <3>2. QED
        BY <1>5, <2>1, <3>1
    <2>3. CASE ~Claimable(ls[conn[c].ls])
      BY <1>4, <1>6, <1>32, <2>1, <2>3 DEF Check, registry
    <2>4. QED
      BY <2>2, <2>3
  <1>33. ASSUME CloseLog(c) PROVE Turns'
    <2>1. conn[c].at = "closing" /\ Frame /\ "closed" \in Harmless /\ made' = made
             /\ Step(c, "closed")
      BY <1>11, <1>33 DEF CloseLog, ConnSteps, Writers
    <2>2. Sessions(c)
      BY <1>1, <1>33 DEF CloseLog, LogClosed, Sessions, Shape, LiveFields
    <2>3. QED
      BY <1>5, <2>1, <2>2
  <1>34. ASSUME CloseDone(c) PROVE Turns'
    BY <1>34, <1>4, <1>6, <1>11 DEF CloseDone
  <1>35. QED
    BY <1>12, <1>13, <1>14, <1>15, <1>16, <1>17, <1>18, <1>19, <1>20, <1>22, <1>23, <1>24, <1>25,
       <1>26, <1>27, <1>28, <1>29, <1>30, <1>31, <1>32, <1>33, <1>34

\* A run that has come to rest goes on, and nothing else moves.
Resting == {"returned", "keep", "drop", "check", "closing", "closed"}
Rested == {"keep", "drop", "check", "closing", "closed", "done"}

LEMMA RestKeeps ==
  ASSUME Registry, Turns, NEW r \in Runs, NEW p \in Rested, run' = [run EXCEPT ![r].at = p],
         Sessions(None), UNCHANGED <<rs, conn, down, cut>>, made' = made,
         run[r].at \in Resting, p = "drop" => rs[r] = "idle"
  PROVE  Turns'
  <1>1. Shape /\ made \in Nat /\ made <= made /\ None \notin Conns
    BY LiveSessionAssumption DEF Registry, Shape
  <1>2. Rests(r) /\ \A q \in Runs : q # r => run'[q] = run[q]
    BY <1>1 DEF Rests, Shape, RunFields, RunSteps, Going, Resting, Rested
  <1>3. ~Quiet
    BY DEF Quiet, Resting
  <1>4. Waits'
    BY <1>3 DEF Turns, Waits
  <1>5. QED
    BY <1>1, <1>2, <1>4, NoTurnKeeps

\* The steps of a run that has come to rest, and of Shutdown.
LEMMA QuietRuns ==
  ASSUME Registry, Turns
  PROVE  /\ \A r \in Runs : Final(r) \/ Drop(r) \/ RunCheck(r) => Turns'
         /\ \A r \in Runs : RunCloseLog(r) \/ RunCloseDone(r) => Turns'
         /\ Shutdown \/ ShutdownStep => Turns'
         /\ UNCHANGED vars => Turns'
  <1>1. Shape /\ made \in Nat /\ made <= made /\ None \notin Conns
    BY LiveSessionAssumption DEF Registry, Shape
  <1>2. ls' = ls => Sessions(None)
    BY DEF Sessions
  <1>3. ASSUME NEW g, Claimable(ls[g]), Claimed(g, ls[g]) PROVE Sessions(None) /\ made' = made
    <2>1. NoTurn(g) /\ ls[g].mu = None
      BY <1>3, UnmarkedIsFree DEF Claimable
    <2>2. ls' = [ls EXCEPT ![g].closed = TRUE] /\ made' = made
      BY <1>3 DEF Claimed, Shape
    <2>3. \A h \in Instances : /\ ls'[h].state = ls[h].state /\ ls'[h].runner = ls[h].runner
                               /\ ls'[h].mu = ls[h].mu
                               /\ h # g => ls'[h].closed = ls[h].closed
      BY <1>1, <2>2 DEF Shape, LiveFields
    <2>4. QED
      BY <2>1, <2>2, <2>3 DEF Sessions, NoTurn, Busy
  <1>4. ASSUME NEW g, LogClosed(g) PROVE Sessions(None)
    BY <1>1, <1>4 DEF LogClosed, Sessions, Shape, LiveFields
  <1>5. ASSUME NEW r \in Runs, Final(r) PROVE Turns'
    <2>1. /\ run[r].at = "returned" /\ run[r].r = r /\ rs[r] \in {"idle", "steering"}
          /\ UNCHANGED <<rs, conn, down, cut>> /\ made' = made /\ ls' = ls
          /\ "keep" \in Rested /\ "drop" \in Rested /\ run[r].at \in Resting
      BY <1>5 DEF Final, Turns, Runners, RunOk, States, registry, ending, Rested, Resting
    <2>2. PICK p \in {"keep", "drop"} : /\ run' = [run EXCEPT ![r].at = p]
                                        /\ p = "drop" => rs[r] = "idle"
      BY <1>5, <2>1 DEF Final
    <2>3. QED
      BY <1>2, <2>1, <2>2, RestKeeps
  <1>6. ASSUME NEW r \in Runs, Drop(r) PROVE Turns'
    <2>1. /\ run[r].at \in {"keep", "drop"} /\ run' = [run EXCEPT ![r].at = "check"]
          /\ UNCHANGED <<rs, conn, down, cut>> /\ made' = made
          /\ "check" \in Rested /\ run[r].at \in Resting
      BY <1>6 DEF Drop, registry, ending, Rested, Resting
    <2>2. Sessions(None)
      <3>1. CASE ls' = ls
        BY <1>2, <3>1
      <3>2. CASE /\ run[r].at = "drop" /\ ls[run[r].ls].runner = run[r].r
                 /\ ls' = [ls EXCEPT ![run[r].ls].runner = 0]
        <4>1. run[r].r = r /\ ~Busy(r)
          BY <3>2 DEF Turns, Runners, RunOk, Busy, Going, isActive
        <4>2. NoTurn(run[r].ls)
          BY <3>2, <4>1 DEF Turns, Runners, RunOk, NoTurn
        <4>3. QED
          BY <1>1, <3>2, <4>2 DEF Sessions, Shape, LiveFields
      <3>3. QED
        BY <1>6, <3>1, <3>2 DEF Drop
    <2>3. QED
      BY <2>1, <2>2, RestKeeps
  <1>7. ASSUME NEW r \in Runs, RunCheck(r) PROVE Turns'
    <2>1. /\ run[r].at \in Resting /\ UNCHANGED <<rs, conn, down, cut>>
          /\ "closing" \in Rested /\ "done" \in Rested
      BY <1>7 DEF RunCheck, ending, Rested, Resting
    <2>2. CASE Claimable(ls[run[r].ls])
      <3>1. Sessions(None) /\ made' = made /\ run' = [run EXCEPT ![r].at = "closing"]
        BY <1>3, <1>7, <2>2 DEF RunCheck
      <3>2. QED
        BY <2>1, <3>1, RestKeeps
    <2>3. CASE ~Claimable(ls[run[r].ls])
      <3>1. ls' = ls /\ made' = made /\ run' = [run EXCEPT ![r].at = "done"]
        BY <1>7, <2>3 DEF RunCheck, registry
      <3>2. QED
        BY <1>2, <2>1, <3>1, RestKeeps
    <2>4. QED
      BY <2>2, <2>3
  <1>8. ASSUME NEW r \in Runs, RunCloseLog(r) PROVE Turns'
    <2>1. /\ run[r].at \in Resting /\ run' = [run EXCEPT ![r].at = "closed"] /\ made' = made
          /\ "closed" \in Rested
          /\ UNCHANGED <<rs, conn, down, cut>> /\ Sessions(None)
      BY <1>4, <1>8 DEF RunCloseLog, ending, Rested, Resting
    <2>2. QED
      BY <2>1, RestKeeps
  <1>9. ASSUME NEW r \in Runs, RunCloseDone(r) PROVE Turns'
    <2>1. /\ run[r].at \in Resting /\ run' = [run EXCEPT ![r].at = "done"] /\ made' = made
          /\ "done" \in Rested
          /\ UNCHANGED <<rs, conn, down, cut>> /\ Sessions(None)
      BY <1>2, <1>9 DEF RunCloseDone, ending, Rested, Resting
    <2>2. QED
      BY <2>1, RestKeeps
  <1>10. ASSUME UNCHANGED <<conn, run, rs, made>>, Sessions(None), cut => cut', Waits',
                down' = "up" => down = "up"
         PROVE  Turns'
    BY <1>1, <1>10, NoTurnKeeps
  <1>11. ASSUME Shutdown \/ TakeLive \/ CancelTurns PROVE Turns'
    <2>1. UNCHANGED <<conn, run, rs, made, ls, cut>> /\ down' \in {"asked", "taken", "cancelled"}
          /\ down \in {"up", "asked", "taken"}
      BY <1>11 DEF Shutdown, TakeLive, CancelTurns, registry, turns
    <2>2. Waits'
      BY <2>1 DEF Turns, Waits
    <2>3. QED
      BY <1>2, <1>10, <2>1, <2>2
  <1>12. ASSUME Waited PROVE Turns'
    <2>1. /\ UNCHANGED <<conn, run, rs, made, ls>> /\ down' = "close" /\ down = "cancelled"
          /\ (cut' <=> ~Quiet)
      BY <1>12 DEF Waited, registry, turns
    <2>2. Quiet' <=> Quiet
      BY <2>1 DEF Quiet
    <2>3. Waits' /\ (cut => cut')
      BY <2>1, <2>2 DEF Turns, Waits
    <2>4. QED
      BY <1>2, <1>10, <2>1, <2>3
  <1>13. ASSUME CloseIfOpen PROVE Turns'
    <2>1. /\ UNCHANGED <<conn, run, rs, made, cut>> /\ down = "close"
          /\ down' \in {"stopped", "closing"}
      BY <1>13 DEF CloseIfOpen, registry, turns
    <2>2. cut \/ Quiet
      BY <2>1 DEF Turns, Waits
    <2>3. /\ \A g \in Instances : ls'[g].subs = ls[g].subs
          /\ Sessions(None)
      <3>1. CASE ls' = ls
        BY <1>2, <3>1
      <3>2. CASE ls[closer].mu = None /\ ls' = [ls EXCEPT ![closer].closed = TRUE]
        <4>1. \A g \in Instances : /\ ls'[g].state = ls[g].state /\ ls'[g].runner = ls[g].runner
                                   /\ ls'[g].mu = ls[g].mu /\ ls'[g].subs = ls[g].subs
                                   /\ g # closer => ls'[g].closed = ls[g].closed
          BY <1>1, <3>2 DEF Shape, LiveFields
        <4>2. \A r \in Runs : run[r].at \in Going => cut
          BY <2>2 DEF Quiet, Going
        <4>3. QED
          BY <3>2, <4>1, <4>2 DEF Sessions
      <3>3. QED
        BY <1>13, <3>1, <3>2 DEF CloseIfOpen
    <2>4. Quiet' <=> Quiet
      BY <2>1, <2>3 DEF Quiet
    <2>5. Waits'
      BY <2>1, <2>4 DEF Turns, Waits
    <2>6. QED
      BY <1>10, <2>1, <2>3, <2>5
  <1>14. ASSUME ShutdownCloseLog PROVE Turns'
    <2>1. /\ UNCHANGED <<conn, run, rs, made, cut>> /\ down = "closing" /\ down' = "stopped"
          /\ LogClosed(closer)
      BY <1>14 DEF ShutdownCloseLog, turns
    <2>2. \A g \in Instances : ls'[g].subs = ls[g].subs
      BY <1>1, <2>1 DEF LogClosed, Shape, LiveFields
    <2>3. Quiet' <=> Quiet
      BY <2>1, <2>2 DEF Quiet
    <2>4. Waits'
      BY <2>1, <2>3 DEF Turns, Waits
    <2>5. QED
      BY <1>4, <1>10, <2>1, <2>4
  <1>15. ASSUME UNCHANGED vars PROVE Turns'
    <2>1. UNCHANGED <<conn, run, rs, made, ls, cut, down>>
      BY <1>15 DEF vars, registry, turns, ending
    <2>2. Waits'
      BY <2>1 DEF Turns, Waits, Quiet
    <2>3. QED
      BY <1>2, <1>10, <2>1, <2>2
  <1>16. QED
    BY <1>5, <1>6, <1>7, <1>8, <1>9, <1>11, <1>12, <1>13, <1>14, <1>15 DEF ShutdownStep

-----------------------------------------------------------------------------
(* Steps in which a turn begins or ends                                    *)

\* A request has started a run, its own, in the session whose lock it had.
LEMMA StartKeeps ==
  ASSUME Registry, Turns, NEW c \in Conns, Start(c)
  PROVE  Turns'
  <1>1. /\ Shape /\ made \in Nat /\ None \notin Conns /\ ConnOk(c)
        /\ \A r \in Runs : run[r].at # "none" => run[r].ls \in Instances
        /\ \A d \in Conns : conn[d].at \in Held => conn[d].ls \in Instances
    BY InInstances, LiveSessionAssumption DEF Registry, Shape, Turns
  <1>2. PICK g : g = conn[c].ls
    OBVIOUS
  <1>3. /\ conn[c].at = "start" /\ conn[c].op # "steer" /\ g \in Instances
        /\ ls[g].mu = c /\ ~ls[g].closed /\ NoTurn(g)
        /\ UNCHANGED <<rs, made, down, cut>>
    BY <1>1, <1>2 DEF Start, ConnOk, Writers, Held, Plain, registry, ending
  <1>4. PICK n : n = NextRun
    OBVIOUS
  <1>5. /\ ls' = [ls EXCEPT ![g].runner = n, ![g].state = "busy", ![g].mu = None]
        /\ run' = [run EXCEPT ![n] = [at |-> "made", ls |-> g, r |-> n]]
        /\ conn' = [conn EXCEPT ![c].at = "spawn", ![c].r = n]
    BY <1>3, <1>2, <1>4 DEF Start
  <1>6. Moved(c, conn[c].op, "spawn", g, n)
    BY <1>1, <1>5, <1>2 DEF Moved, Shape, ConnFields
  <1>7. n \in Runs /\ run[n] = NoRun
    <2>1. PICK x : x = [at |-> "made", ls |-> g, r |-> n]
      OBVIOUS
    <2>2. x # NoRun /\ run' = [run EXCEPT ![NextRun] = x]
      BY <1>5, <1>4, <2>1 DEF NoRun
    <2>3. conn[c].at \in Asking /\ "spawn" \notin Asking
      BY <1>3 DEF Asking
    <2>4. QED
      BY <1>6, <1>4, <2>2, <2>3, RoomTaken
  <1>8. /\ run'[n].at = "made" /\ run'[n].ls = g /\ run'[n].r = n
        /\ \A r \in Runs : r # n => run'[r] = run[r]
        /\ run[n].at = "none" /\ rs[n] = "idle" /\ n # 0
    <2>1. run[n].at = "none" /\ n # 0
      BY <1>7, LiveSessionAssumption DEF NoRun, Runs
    <2>2. rs[n] = "idle"
      BY <1>7, <2>1 DEF Turns, Runners, RunOk
    <2>3. run'[n] = [at |-> "made", ls |-> g, r |-> n] /\ \A r \in Runs : r # n => run'[r] = run[r]
      BY <1>1, <1>5, <1>7 DEF Shape
    <2>4. run'[n].at = "made" /\ run'[n].ls = g /\ run'[n].r = n
      BY <2>3
    <2>5. QED
      BY <2>1, <2>2, <2>3, <2>4
  <1>9. /\ ls'[g].runner = n /\ ls'[g].state = "busy" /\ ls'[g].mu = None
        /\ ls'[g].closed = ls[g].closed
        /\ \A h \in Instances : h # g => ls'[h] = ls[h]
    BY <1>1, <1>3, <1>5 DEF Shape, LiveFields
  <1>10. \A r \in Runs : r # n => (Busy(r)' <=> Busy(r))
    BY <1>3, <1>8 DEF Busy
  <1>11. Busy(n)'
    BY <1>8 DEF Busy, Going
  <1>12. Waits'
    <2>1. ~Quiet
      BY <1>3 DEF Quiet
    <2>2. QED
      BY <1>3, <2>1 DEF Turns, Waits
  <1>13. ASSUME NEW r \in Runs PROVE RunOk(r)'
    <2>1. CASE r = n
      <3>1. isActive("busy") /\ ~ls'[g].closed
        BY <1>3, <1>9 DEF isActive
      <3>2. QED
        BY <1>3, <1>8, <1>9, <2>1, <3>1 DEF RunOk, RunSteps, States, Going
    <2>2. CASE r # n
      <3>1. RunOk(r) /\ run'[r] = run[r] /\ (Busy(r)' <=> Busy(r))
        BY <1>8, <1>10, <2>2 DEF Turns, Runners
      <3>2. Busy(r) => run[r].ls # g /\ run[r].ls \in Instances
        BY <1>1, <1>3, <3>1 DEF NoTurn, Busy, RunOk, Going, isActive
      <3>3. Busy(r) => ls'[run[r].ls] = ls[run[r].ls]
        BY <1>9, <3>2
      <3>4. run[r].at \in Going => Busy(r)
        BY DEF Busy
      <3>5. QED
        BY <1>3, <3>1, <3>3, <3>4 DEF RunOk
    <2>3. QED
      BY <2>1, <2>2
  <1>14. ASSUME NEW h \in Instances PROVE MarkOk(h)'
    <2>1. MarkOk(h)
      BY DEF Turns
    <2>2. CASE h = g
      <3>1. ~(g > made)
        BY <1>1, <1>3, <1>2 DEF Registry, Loads, Held, Plain, Installed
      <3>2. QED
        BY <1>3, <1>7, <1>8, <1>9, <1>11, <2>2, <3>1 DEF MarkOk
    <2>3. CASE h # g
      <3>1. ls'[h] = ls[h]
        BY <1>9, <2>3
      <3>2. ls[h].runner # 0 => ls[h].runner # n
        BY <1>8, <2>1 DEF MarkOk
      <3>3. \A r \in Runs : run[r].ls = h /\ Busy(r) => r # n
        BY <1>8 DEF Busy, Going, isActive
      <3>4. QED
        BY <1>3, <1>8, <1>10, <2>1, <3>1, <3>2, <3>3 DEF MarkOk
    <2>4. QED
      BY <2>2, <2>3
  <1>15. ASSUME NEW d \in Conns PROVE ConnOk(d)'
    <2>1. CASE d = c
      BY <1>3, <1>6, <2>1 DEF ConnOk, Moved, Writers
    <2>2. CASE d # c
      <3>1. conn'[d] = conn[d] /\ ConnOk(d)
        BY <1>6, <2>2 DEF Moved, Turns
      <3>2. conn[d].at \in Writers =>
               /\ ls'[conn[d].ls].mu = d /\ ~ls'[conn[d].ls].closed
               /\ conn[d].ls # g
        <4>1. conn[d].at \in Writers => conn[d].ls \in Instances
          BY <1>1 DEF Writers, Held, Plain
        <4>2. QED
          BY <1>3, <1>9, <2>2, <3>1, <4>1 DEF ConnOk
      <3>3. \A h : h # g /\ NoTurn(h) => NoTurn(h)'
        BY <1>8, <1>10 DEF NoTurn
      <3>4. conn[d].at = "undo" => ~Busy(conn[d].r)' /\ run'[conn[d].r].at # "none"
        BY <1>8, <1>10, <3>1 DEF ConnOk
      <3>5. (conn[d].at \in Writers /\ NoTurn(conn[d].ls)) => NoTurn(conn[d].ls)'
        BY <3>1, <3>2, <3>3 DEF NoTurn
      <3>6. QED
        BY <3>1, <3>2, <3>4, <3>5 DEF ConnOk, NoTurn, Busy
    <2>3. QED
      BY <2>1, <2>2
  <1>16. QED
    BY <1>3, <1>12, <1>13, <1>14, <1>15 DEF Turns, Runners

\* Run r has become busy, or less so: what its session's mirror says follows.
LEMMA TurnMoves ==
  ASSUME Registry, Turns, NEW r \in Runs, run[r].at # "none",
         \A q \in Runs : q # r => run'[q] = run[q] /\ rs'[q] = rs[q],
         rs' = [q \in Runs |-> rs'[q]], run'[r].ls = run[r].ls, run'[r].at # "none",
         Busy(r)' => Busy(r), RunOk(r)', Waits', UNCHANGED <<made, cut>>,
         down' = "up" => down = "up",
         \A g \in Instances : /\ ls'[g].runner = ls[g].runner /\ ls'[g].mu = ls[g].mu
                              /\ ls'[g].closed = ls[g].closed
                              /\ ls'[g].state = ls[g].state \/ (g = run[r].ls /\ Busy(r)),
         down' = "up" /\ Busy(r) /\ isActive(ls'[run[r].ls].state) => Busy(r)',
         \A d \in Conns : conn'[d] = conn[d] \/ ConnOk(d)'
  PROVE  Turns'
  <1>1. /\ made \in Nat
        /\ \A q \in Runs : run[q].at # "none" => run[q].ls \in Instances
        /\ \A d \in Conns : conn[d].at \in Held => conn[d].ls \in Instances
    BY InInstances, LiveSessionAssumption DEF Registry, Shape
  <1>2. \A q \in Runs : q # r => (Busy(q)' <=> Busy(q))
    BY DEF Busy
  \* No other run is in a session where r is busy.
  <1>3. ASSUME NEW q \in Runs, q # r, Busy(q), Busy(r) PROVE run[q].ls # run[r].ls
    BY <1>3 DEF Turns, Runners, RunOk
  <1>4. ASSUME NEW q \in Runs PROVE RunOk(q)'
    <2>1. CASE q = r
      BY <2>1
    <2>2. CASE q # r
      <3>1. run'[q] = run[q] /\ rs'[q] = rs[q] /\ RunOk(q) /\ (Busy(q)' <=> Busy(q))
        BY <1>2, <2>2 DEF Turns, Runners
      <3>2. Busy(q) => run[q].ls \in Instances
        BY <1>1, <3>1 DEF Busy, RunOk, Going, isActive
      <3>3. Busy(q) => ls'[run[q].ls].runner = q /\ isActive(ls'[run[q].ls].state)
        BY <1>3, <2>2, <3>1, <3>2 DEF RunOk
      <3>4. run[q].at \in Going /\ ls'[run[q].ls].closed => cut'
        BY <1>1, <3>1 DEF RunOk, Going
      <3>5. QED
        BY <3>1, <3>3, <3>4 DEF RunOk
    <2>3. QED
      BY <2>1, <2>2
  <1>5. ASSUME NEW g \in Instances PROVE MarkOk(g)'
    <2>1. MarkOk(g)
      BY DEF Turns
    <2>2. /\ ls'[g].runner = ls[g].runner
          /\ \A q \in Runs : /\ run'[q].ls = run[q].ls
                             /\ run'[q].at = "none" <=> run[q].at = "none"
      OBVIOUS
    <2>3. CASE g = run[r].ls /\ Busy(r)
      <3>1. g > made' => FALSE
        BY <1>1, <2>3 DEF Registry, Loads, Installed
      <3>2. down' = "up" /\ isActive(ls'[g].state) => \E q \in Runs : run'[q].ls = g /\ Busy(q)'
        BY <2>2, <2>3
      <3>3. QED
        BY <2>1, <2>2, <3>1, <3>2 DEF MarkOk
    <2>4. CASE ~(g = run[r].ls /\ Busy(r))
      <3>1. ls'[g].state = ls[g].state
        BY <2>4
      <3>2. \A q \in Runs : run[q].ls = g /\ Busy(q) => Busy(q)'
        BY <1>2, <2>4
      <3>3. QED
        BY <2>1, <2>2, <3>1, <3>2 DEF MarkOk
    <2>5. QED
      BY <2>3, <2>4
  <1>6. ASSUME NEW d \in Conns PROVE ConnOk(d)'
    <2>1. CASE conn'[d] = conn[d]
      <3>1. ConnOk(d)
        BY DEF Turns
      <3>2. conn[d].at \in Writers => ls'[conn[d].ls].mu = d /\ ~ls'[conn[d].ls].closed
        BY <1>1, <3>1 DEF ConnOk, Writers, Held, Plain
      <3>3. \A q \in Runs : run'[q].ls = run[q].ls /\ (Busy(q)' => Busy(q))
        BY <1>2
      <3>4. NoTurn(conn[d].ls) => \A q \in Runs : run'[q].ls = conn[d].ls => ~Busy(q)'
        BY <3>3 DEF NoTurn
      <3>5. conn[d].at = "undo" => ~Busy(conn[d].r)' /\ run'[conn[d].r].at # "none"
        <4>1. conn[d].at = "undo" =>
                 conn[d].r \in Runs /\ ~Busy(conn[d].r) /\ run[conn[d].r].at # "none"
          BY <3>1 DEF ConnOk
        <4>2. PICK x : x = conn[d].r
          OBVIOUS
        <4>3. conn[d].at = "undo" => ~Busy(x)' /\ run'[x].at # "none"
          BY <3>3, <4>1, <4>2
        <4>4. QED
          BY <2>1, <4>2, <4>3 DEF Busy
      <3>6. QED
        BY <2>1, <3>1, <3>2, <3>4, <3>5 DEF ConnOk, NoTurn, Busy
    <2>2. QED
      BY <2>1
  <1>7. QED
    BY <1>4, <1>5, <1>6 DEF Turns, Runners

LEMMA SpawnKeeps ==
  ASSUME Registry, Turns, NEW c \in Conns, Spawn(c)
  PROVE  Turns'
  <1>1. Shape /\ ConnOk(c)
    BY DEF Registry, Turns
  <1>2. PICK r : r = conn[c].r
    OBVIOUS
  <1>3. /\ conn[c].at = "spawn" /\ r \in Runs /\ run[r].at = "made" /\ RunOk(r) /\ run[r].r = r
        /\ rs[r] = "idle" /\ conn[c].op # "steer"
    <2>1. conn[c].at = "spawn" /\ r \in Runs /\ run[r].at = "made" /\ conn[c].op # "steer"
      BY <1>1, <1>2 DEF Spawn, Registry, Spawning, ConnOk
    <2>2. RunOk(r)
      BY <2>1 DEF Turns, Runners
    <2>3. QED
      BY <2>1, <2>2 DEF RunOk
  <1>4. UNCHANGED <<made, ls, rs, down, cut>>
    BY DEF Spawn, registry, ending
  <1>5. PICK q \in {"run", "done"} : /\ run' = [run EXCEPT ![r].at = q]
                                     /\ q = "run" <=> down = "up"
                                     /\ Step(c, IF q = "run" THEN "await" ELSE "undo")
    BY <1>2, <1>3 DEF Spawn
  <1>6. /\ run'[r].at = q /\ run'[r].ls = run[r].ls /\ run'[r].r = r
        /\ \A x \in Runs : x # r => run'[x] = run[x] /\ rs'[x] = rs[x]
    BY <1>1, <1>3, <1>4, <1>5 DEF Shape, RunFields
  <1>7. Busy(r) /\ (Busy(r)' <=> q = "run")
    BY <1>3, <1>4, <1>6 DEF Busy, Going, isActive
  <1>8. RunOk(r)'
    BY <1>3, <1>4, <1>6, <1>7 DEF RunOk, RunSteps, Going
  <1>9. Moved(c, conn[c].op, IF q = "run" THEN "await" ELSE "undo", conn[c].ls, r)
    BY <1>1, <1>2, <1>5, StepIs
  <1>10. ConnOk(c)'
    <2>1. conn'[c].r = r /\ conn'[c].op # "steer" /\ conn'[c].at \in {"await", "undo"}
          /\ (conn'[c].at = "undo" => q = "done")
      BY <1>3, <1>9 DEF Moved
    <2>2. q = "done" => ~Busy(conn[c].r)' /\ run'[conn'[c].r].at # "none"
      BY <1>4, <1>6, <1>3, <2>1 DEF Busy, Going, isActive
    <2>3. QED
      BY <1>3, <2>1, <2>2 DEF ConnOk, Writers
  <1>11. Waits'
    <2>1. ~Quiet
      BY <1>3 DEF Quiet
    <2>2. QED
      BY <1>4, <2>1 DEF Turns, Waits
  <1>12. \A d \in Conns : conn'[d] = conn[d] \/ ConnOk(d)'
    BY <1>9, <1>10 DEF Moved
  <1>13. rs' = [x \in Runs |-> rs'[x]] /\ run[r].at # "none" /\ run'[r].at # "none"
    BY <1>3, <1>4, <1>5, <1>6 DEF Turns, Runners
  <1>14. QED
    BY <1>3, <1>4, <1>5, <1>6, <1>7, <1>8, <1>11, <1>12, <1>13, TurnMoves

\* An interrupt reaches the runner after the request let go of the session's lock.
LEMMA RunnerInterruptKeeps ==
  ASSUME Registry, Turns, NEW c \in Conns, RunnerInterrupt(c)
  PROVE  Turns'
  <1>1. /\ Shape /\ ConnOk(c) /\ made \in Nat /\ made <= made
        /\ \A x \in Runs : run[x].at # "none" => run[x].ls \in Instances
    BY InInstances, LiveSessionAssumption DEF Registry, Turns, Shape
  <1>2. PICK r : r = conn[c].r
    OBVIOUS
  <1>3. /\ conn[c].at = "cut" /\ r \in Runs /\ RunOk(r) /\ conn[c].op # "steer"
        /\ UNCHANGED <<made, run, down, cut>>
    BY <1>1, <1>2 DEF RunnerInterrupt, ConnOk, Turns, Runners, registry, ending
  <1>4. PICK p, o, g, q : p \in {"check", "idle"} /\ Moved(c, o, p, g, q) /\ o # "steer"
    <2>1. CASE Answer(c)
      BY <1>1, <2>1, AnswerIs
    <2>2. CASE Step(c, "check")
      <3>1. Moved(c, conn[c].op, "check", conn[c].ls, conn[c].r)
        BY <1>1, <2>2, StepIs
      <3>2. QED
        BY <1>3, <3>1
    <2>3. QED
      BY <2>1, <2>2 DEF RunnerInterrupt
  <1>5. ConnOk(c)' /\ \A d \in Conns : d # c => conn'[d] = conn[d]
    BY <1>4 DEF Moved, ConnOk, Writers
  <1>6. Waits'
    <2>1. ~Quiet
      BY <1>3 DEF Quiet
    <2>2. QED
      BY <1>3, <2>1 DEF Turns, Waits
  <1>7. CASE ls' = ls /\ rs' = rs
    <2>1. Sessions(c)
      BY <1>7 DEF Sessions
    <2>2. QED
      BY <1>1, <1>3, <1>5, <1>6, <1>7, <2>1, NoTurnKeeps
  <1>8. CASE /\ rs[r] = "steering" /\ rs' = [rs EXCEPT ![r] = "idle"]
             /\ ls' = [ls EXCEPT ![run[r].ls].state = "idle"]
    <2>1. /\ Busy(r) /\ run[r].at \notin Going /\ run[r].at # "none" /\ run[r].ls \in Instances
      BY <1>1, <1>3, <1>8 DEF Busy, isActive, RunOk, Going
    <2>2. /\ rs'[r] = "idle" /\ \A x \in Runs : x # r => run'[x] = run[x] /\ rs'[x] = rs[x]
          /\ rs' = [x \in Runs |-> rs'[x]]
      BY <1>3, <1>8 DEF Turns, Runners
    <2>3. ~Busy(r)'
      BY <1>3, <2>1, <2>2 DEF Busy, isActive
    <2>4. \A g1 \in Instances : /\ ls'[g1].runner = ls[g1].runner /\ ls'[g1].mu = ls[g1].mu
                                /\ ls'[g1].closed = ls[g1].closed
                                /\ g1 # run[r].ls => ls'[g1].state = ls[g1].state
                                /\ g1 = run[r].ls => ls'[g1].state = "idle"
      BY <1>1, <1>8, <2>1 DEF Shape, LiveFields
    <2>5. RunOk(r)'
      BY <1>3, <2>1, <2>2, <2>3 DEF RunOk, States, Going
    <2>6. ~isActive(ls'[run[r].ls].state)
      BY <2>1, <2>4 DEF isActive
    <2>7. /\ run'[r].ls = run[r].ls /\ run'[r].at # "none"
          /\ \A d \in Conns : conn'[d] = conn[d] \/ ConnOk(d)'
      BY <1>3, <1>5, <2>1
    <2>8. QED
      BY <1>3, <1>6, <2>1, <2>2, <2>3, <2>4, <2>5, <2>6, <2>7, TurnMoves
  <1>9. QED
    BY <1>2, <1>7, <1>8 DEF RunnerInterrupt

\* A Run begins, or comes to rest: the mirror follows its runner's state.
LEMMA RunKeeps ==
  ASSUME Registry, Turns, NEW r \in Runs, RunBegins(r) \/ RunEnds(r)
  PROVE  Turns'
  <1>1. Shape /\ RunOk(r) /\ \A x \in Runs : run[x].at # "none" => run[x].ls \in Instances
    BY InInstances DEF Registry, Turns, Runners
  <1>2. /\ run[r].at \in {"run", "loop"} /\ run[r].r = r /\ Busy(r) /\ run[r].ls \in Instances
        /\ UNCHANGED <<made, conn, down, cut>>
    BY <1>1 DEF RunBegins, RunEnds, RunOk, Busy, Going, registry, ending
  <1>3. PICK p \in {"loop", "returned"}, s \in States :
           /\ run' = [run EXCEPT ![r].at = p] /\ rs' = [rs EXCEPT ![r] = s]
           /\ ls' = [ls EXCEPT ![run[r].ls].state = s]
           /\ s = "busy" <=> p = "loop"
    <2>1. CASE RunBegins(r)
      BY <1>2, <2>1 DEF RunBegins, States
    <2>2. CASE RunEnds(r)
      BY <1>2, <2>2 DEF RunEnds, States
    <2>3. QED
      BY <2>1, <2>2
  <1>4. /\ run'[r].at = p /\ run'[r].ls = run[r].ls /\ run'[r].r = r /\ rs'[r] = s
        /\ \A x \in Runs : x # r => run'[x] = run[x] /\ rs'[x] = rs[x]
        /\ rs' = [x \in Runs |-> rs'[x]]
    BY <1>1, <1>2, <1>3 DEF Shape, RunFields, Turns, Runners
  <1>5. \A g \in Instances : /\ ls'[g].runner = ls[g].runner /\ ls'[g].mu = ls[g].mu
                             /\ ls'[g].closed = ls[g].closed
                             /\ g # run[r].ls => ls'[g].state = ls[g].state
                             /\ g = run[r].ls => ls'[g].state = s
    BY <1>1, <1>2, <1>3 DEF Shape, LiveFields
  <1>6. isActive(s) <=> Busy(r)'
    BY <1>3, <1>4 DEF Busy, Going, isActive
  <1>7. RunOk(r)'
    BY <1>1, <1>2, <1>3, <1>4, <1>5, <1>6 DEF RunOk, RunSteps, Going
  <1>8. Waits'
    <2>1. ~Quiet
      BY <1>2 DEF Quiet
    <2>2. QED
      BY <1>2, <2>1 DEF Turns, Waits
  <1>9. QED
    BY <1>2, <1>3, <1>4, <1>5, <1>6, <1>7, <1>8, TurnMoves

-----------------------------------------------------------------------------
(* The theorems                                                            *)

LEMMA TurnsInit == Init => Turns
  <1> SUFFICES ASSUME Init PROVE Turns
    OBVIOUS
  <1>1. /\ down = "up" /\ ~cut /\ ls = [g \in Instances |-> Fresh]
        /\ conn = [c \in Conns |-> AtRest]
        /\ run = [r \in Runs |-> NoRun] /\ rs = [r \in Runs |-> "idle"]
    BY DEF Init
  <1>2. \A r \in Runs : run[r].at = "none" /\ rs[r] = "idle" /\ ~Busy(r)
    BY <1>1 DEF NoRun, Busy, Going, isActive
  <1>3. Runners
    BY <1>1, <1>2 DEF Runners, RunOk, RunSteps, States, Going
  <1>4. ASSUME NEW g \in Instances PROVE MarkOk(g)
    BY <1>1 DEF MarkOk, Fresh, isActive
  <1>5. ASSUME NEW c \in Conns PROVE ConnOk(c)
    BY <1>1 DEF ConnOk, AtRest, Writers
  <1>6. Waits
    BY <1>1 DEF Waits
  <1>7. QED
    BY <1>3, <1>4, <1>5, <1>6 DEF Turns

LEMMA TurnsNext ==
  ASSUME "steer" \notin Uses, Registry, Turns, [Next]_vars
  PROVE  Turns'
  <1>1. ASSUME NEW c \in Conns, Serve(c) PROVE Turns'
    <2>1. CASE \/ Load(c) \/ Read(c) \/ Install(c) \/ Unload(c) \/ Attach(c) \/ Fork(c)
               \/ Set(c) \/ Append(c) \/ Compact(c) \/ Compacted(c) \/ Shell(c) \/ ShellAppend(c)
      BY <2>1, QuietRequests
    <2>2. CASE \/ Interrupt(c) \/ Submit(c) \/ Undo(c) \/ Await(c)
               \/ Check(c) \/ CloseLog(c) \/ CloseDone(c)
      BY <2>2, QuietRequests
    <2>3. CASE RunnerInterrupt(c)
      BY <2>3, RunnerInterruptKeeps
    <2>4. CASE Start(c)
      BY <2>4, StartKeeps
    <2>5. CASE Spawn(c)
      BY <2>5, SpawnKeeps
    <2>6. QED
      BY <1>1, <2>1, <2>2, <2>3, <2>4, <2>5 DEF Serve
  <1>2. ASSUME NEW c \in Conns, Detach(c) PROVE Turns'
    BY <1>2, QuietRequests
  <1>3. ASSUME NEW c \in Conns, NEW o \in Uses, Resume(c, o) \/ Lookup(c, o) PROVE Turns'
    BY <1>3, QuietRequests
  <1>4. ASSUME NEW r \in Runs, RunTurn(r) \/ RunEnds(r) PROVE Turns'
    BY <1>4, QuietRuns, RunKeeps DEF RunTurn
  <1>5. ASSUME Shutdown \/ ShutdownStep PROVE Turns'
    BY <1>5, QuietRuns
  <1>6. CASE UNCHANGED vars
    BY <1>6, QuietRuns
  <1>7. QED
    BY <1>1, <1>2, <1>3, <1>4, <1>5, <1>6 DEF Next

LEMMA TurnsAlways ==
  ASSUME "steer" \notin Uses
  PROVE  Spec => [](Registry /\ Turns)
  <1>1. Init => Registry /\ Turns
    BY RegistryInit, TurnsInit
  <1>2. Registry /\ Turns /\ [Next]_vars => (Registry /\ Turns)'
    BY RegistryNext, TurnsNext
  <1>3. QED
    BY <1>1, <1>2, PTL DEF Spec

\* Whichever of detach, runTurn, compact and Shutdown decide to, a session's log is closed once
\* and its session_closed hook fires once (claimCloseIfIdle, closeIfOpen, closeClaimed).
THEOREM LogClosedOnce == Spec => []ClosedOnce
  <1>1. Registry => ClosedOnce
    BY DEF Registry, Locked, ClosedOnce
  <1>2. QED
    BY <1>1, RegistryAlways, PTL

\* And nothing is appended to it afterwards, unless Shutdown ran out of its budget, when clients
\* send no steer messages (closeIfUnusedLocked, appendAndBroadcastLocked, runTurn).
THEOREM NothingAfterClose ==
  ASSUME "steer" \notin Uses
  PROVE  Spec => []ClosesOnce
  <1>1. Registry /\ Turns => ClosesOnce
    <2> SUFFICES ASSUME Registry, Turns PROVE ClosesOnce
      OBVIOUS
    <2>1. ClosedOnce
      BY DEF Registry, Locked, ClosedOnce
    <2>2. \A g \in Instances : ls[g].closes = 0 \/ ls[g].closed
      BY DEF Registry, Locked
    <2>3. NoAppendAfterClose
      BY <2>2 DEF Turns, ConnOk, Runners, RunOk, Writers, Going, Written, NoAppendAfterClose
    <2>4. QED
      BY <2>1, <2>3 DEF ClosesOnce
  <1>2. QED
    BY <1>1, TurnsAlways, PTL

\* One turn at a time owns a session and its log, and a session is marked active only while one
\* is on its way or goes on, when clients send no steer messages (startTurn, markStarting,
\* appendAndBroadcastLocked).
THEOREM OneTurnAtATime ==
  ASSUME "steer" \notin Uses
  PROVE  Spec => []TurnOwnsSession
  <1>1. Registry /\ Turns => TurnOwnsSession
    <2> SUFFICES ASSUME Registry, Turns PROVE TurnOwnsSession
      OBVIOUS
    <2>1. \A g \in Instances : \A r \in Owners(g) : r \in Runs /\ Busy(r) /\ run[r].ls = g
      BY DEF Owners, Busy
    <2>2. OneTurn
      <3>1. SUFFICES ASSUME NEW g \in Instances PROVE Cardinality(Owners(g)) <= 1
        BY DEF OneTurn
      <3>2. Owners(g) \subseteq {ls[g].runner}
        BY <2>1 DEF Turns, Runners, RunOk
      <3>3. IsFiniteSet({ls[g].runner}) /\ Cardinality({ls[g].runner}) = 1
        BY FS_Singleton
      <3>4. Cardinality(Owners(g)) <= Cardinality({ls[g].runner})
        BY <3>2, <3>3, FS_Subset
      <3>5. QED
        BY <3>3, <3>4
    <2>3. TurnOwnsLog
      <3>1. SUFFICES ASSUME NEW c \in Conns, conn[c].at \in {"append", "summary"},
                            conn[c].op # "shell"
                     PROVE  Owners(conn[c].ls) = {}
        BY DEF TurnOwnsLog
      <3>2. NoTurn(conn[c].ls)
        BY <3>1 DEF Turns, ConnOk, Writers
      <3>3. QED
        BY <3>2 DEF Owners, NoTurn, Busy
    <2>4. MarkedOnlyWhileActive
      <3>1. SUFFICES ASSUME NEW g \in Instances, isActive(ls[g].state), down = "up"
                     PROVE  \/ Owners(g) # {}
                            \/ \E r \in Runs : run[r].ls = g
                               /\ run[r].at \in {"made", "run", "loop"}
        BY DEF MarkedOnlyWhileActive
      <3>2. PICK r \in Runs : run[r].ls = g /\ Busy(r)
        BY <3>1 DEF Turns, MarkOk
      <3>3. CASE run[r].at \in Going
        BY <3>2, <3>3 DEF Going
      <3>4. CASE isActive(rs[r])
        <4>1. run[r].r = r
          BY <3>4 DEF Turns, Runners, RunOk, isActive
        <4>2. r \in Owners(g)
          BY <3>2, <3>4, <4>1 DEF Owners
        <4>3. QED
          BY <4>2
      <3>5. QED
        BY <3>2, <3>3, <3>4 DEF Busy
    <2>5. QED
      BY <2>2, <2>3, <2>4 DEF TurnOwnsSession
  <1>2. QED
    BY <1>1, TurnsAlways, PTL
=============================================================================
