----------------------------- MODULE DaemonProofs -----------------------------
(***************************************************************************)
(* Proofs about Daemon for every number of servers, bridges, stop commands *)
(* and local clients, and of faults.                                       *)
(*                                                                         *)
(* Two sections follow. One is about the working tree on a remote host     *)
(* (Stores): what a sync has found out, on either side, at each of its     *)
(* steps (TreeInv). The other is about what a terminal client has on       *)
(* screen (Screens): where what is queued was typed (FeedInv), and what    *)
(* the entries on their way to the client make of its mirror (ScreenInv).  *)
(***************************************************************************)
EXTENDS Daemon, Stores, Screens, Sequences, SequenceTheorems, WellFoundedInduction, TLAPS

-----------------------------------------------------------------------------
(* Type correctness                                                        *)


ServerFields == {"st", "code", "up", "sig", "claimed", "committed", "ok"}
ClientFields == {"pc", "to", "loop", "told", "eof", "child"}

Shape ==
    /\ path \in Servers \cup {0, -1, -2} /\ lock \in Servers \cup {0}
    /\ srv = [p \in Servers |-> srv[p]] /\ \A p \in Servers : DOMAIN srv[p] = ServerFields
    /\ cli = [c \in Clients |-> cli[c]] /\ \A c \in Clients : DOMAIN cli[c] = ClientFields
    /\ \A c \in Clients : cli[c].to \in Servers \cup {0} /\ cli[c].child \in Servers \cup {0}

-----------------------------------------------------------------------------
(* What the updates the actions share come to, field by field              *)

\* p is over with its code and has nothing up, and the other servers are as they were.
Ended(p, code) ==
    /\ srv' = [q \in Servers |-> srv'[q]]
    /\ \A q \in Servers : q # p => srv'[q] = srv[q]
    /\ DOMAIN srv'[p] = ServerFields
    /\ srv'[p].st = "over" /\ srv'[p].code = code
    /\ ~srv'[p].up /\ ~srv'[p].sig /\ ~srv'[p].committed

\* Only c changed, and it changed its place, its connection, what it knows or its child to these.
Moved(c, pc, to, loop, told, child) ==
    /\ cli' = [d \in Clients |-> cli'[d]]
    /\ \A d \in Clients : d # c => cli'[d] = cli[d]
    /\ DOMAIN cli'[c] = ClientFields
    /\ cli'[c].pc = pc /\ cli'[c].told = told /\ cli'[c].child = child
    /\ cli'[c].to = to /\ cli'[c].loop = loop

\* Some connections ended, and nobody was told anything.
HungUp ==
    /\ cli' = [d \in Clients |-> cli'[d]]
    /\ \A d \in Clients :
         /\ DOMAIN cli'[d] = ClientFields
         /\ cli'[d].pc = cli[d].pc /\ cli'[d].told = cli[d].told
         /\ cli'[d].to = cli[d].to /\ cli'[d].child = cli[d].child
         /\ cli'[d].loop \in {"none", cli[d].loop}

\* The end of a server process leaves every other server as it was.
LEMMA EndsIs ==
  ASSUME Shape, NEW p \in Servers, NEW code, srv' = Ends(p, code)
  PROVE  Ended(p, code)
  <1>1. srv'[p] = [NoServer EXCEPT !.st = "over", !.code = code]
    BY DEF Ends, Shape
  <1>2. /\ srv' = [q \in Servers |-> srv'[q]]
        /\ \A q \in Servers : q # p => srv'[q] = srv[q]
    BY DEF Ends, Shape
  <1>3. /\ DOMAIN srv'[p] = ServerFields
        /\ srv'[p].st = "over" /\ srv'[p].code = code
        /\ srv'[p].up = FALSE /\ srv'[p].sig = FALSE /\ srv'[p].committed = FALSE
    BY <1>1 DEF NoServer, ServerFields
  <1>4. QED
    BY <1>2, <1>3, Zenon DEF Ended

\* A client that is done keeps the server it was connected to and that server's loop.
LEMMA DoneIs ==
  ASSUME Shape, NEW c \in Clients, NEW pc, Done(c, pc)
  PROVE  Moved(c, pc, cli[c].to, cli[c].loop, {}, 0)
  BY DEF Moved, Done, Shape, ClientFields

\* A client that connects reaches the server at the path.
LEMMA ConnectedIs ==
  ASSUME Shape, NEW c \in Clients, NEW child, cli' = [cli EXCEPT ![c] = Connected(c, child)]
  PROVE  Moved(c, "joined", path, "backlog", cli[c].told, child)
  BY DEF Moved, Connected, Shape, ClientFields

\* The connections in Cut end.
WithEnded(Cut) ==
    [d \in Clients |-> IF d \in Cut THEN [cli[d] EXCEPT !.eof = TRUE, !.loop = "none"] ELSE cli[d]]

\* Connections that are cut tell nobody anything.
LEMMA CutIs ==
  ASSUME Shape, NEW Cut, cli' = WithEnded(Cut)
  PROVE  HungUp
  <1>2. cli' = [d \in Clients |-> cli'[d]]
    BY Zenon DEF WithEnded
  <1>3. SUFFICES ASSUME NEW d \in Clients
        PROVE  /\ DOMAIN cli'[d] = ClientFields
               /\ cli'[d].pc = cli[d].pc /\ cli'[d].told = cli[d].told
               /\ cli'[d].to = cli[d].to /\ cli'[d].child = cli[d].child
               /\ cli'[d].loop \in {"none", cli[d].loop}
    BY <1>2, Zenon DEF HungUp
  <1>4. CASE d \notin Cut
    <2>1. cli'[d] = cli[d]
      BY <1>4, Zenon DEF WithEnded
    <2>2. QED
      BY <2>1 DEF Shape
  <1>5. CASE d \in Cut
    <2>1. cli'[d] = [cli[d] EXCEPT !.eof = TRUE, !.loop = "none"]
      BY <1>5, Zenon DEF WithEnded
    <2>2. QED
      BY <2>1 DEF Shape, ClientFields
  <1>6. QED
    BY <1>4, <1>5

\* A server that ends takes its connections with it.
LEMMA HangupIs ==
  ASSUME Shape, NEW p \in Servers, cli' = Hangup(cli, p)
  PROVE  HungUp
  <1> DEFINE Cut == {d \in Clients : cli[d].to = p}
  <1>1. cli' = WithEnded(Cut)
    BY Zenon DEF Hangup, WithEnded
  <1>2. QED
    BY <1>1, CutIs, Zenon

\* A listener that closes resets what waits in its backlog.
LEMMA CloseListenerIs ==
  ASSUME Shape, NEW p \in Servers, CloseListener(p)
  PROVE  HungUp
  <1> DEFINE Cut == {d \in Clients : cli[d].to = p /\ cli[d].loop = "backlog"}
  <1>1. cli' = WithEnded(Cut)
    BY Zenon DEF CloseListener, WithEnded
  <1>2. QED
    BY <1>1, CutIs, Zenon

\* Only the connection that asked for the shutdown is told of its end, and "stopped" only when
\* cleaning up went well.
Settled(p) ==
    /\ cli' = [d \in Clients |-> cli'[d]]
    /\ \A d \in Clients :
         /\ DOMAIN cli'[d] = ClientFields
         /\ cli'[d].pc = cli[d].pc /\ cli'[d].to = cli[d].to /\ cli'[d].child = cli[d].child
         /\ cli'[d].loop \in {"none", cli[d].loop}
         /\ cli'[d].told # cli[d].told => cli[d].to = p /\ cli[d].loop # "none"
         /\ "stopped" \in cli'[d].told /\ "stopped" \notin cli[d].told => srv[p].ok

\* Only the connection that asked for the shutdown hears how it went.
LEMMA SettleIs ==
  ASSUME Shape, NEW p \in Servers, Settle(p)
  PROVE  Settled(p)
  <1> DEFINE Hears(d) == cli[d].to = p /\ cli[d].loop = "control"
             Told(d) == [cli[d] EXCEPT !.loop = "none", !.eof = TRUE, !.told = @ \cup Proof(p)]
  <1>1. cli' = [d \in Clients |-> IF Hears(d) THEN Told(d) ELSE cli[d]]
    BY Zenon DEF Settle
  <1>2. cli' = [d \in Clients |-> cli'[d]]
    BY <1>1, Zenon
  <1>3. SUFFICES ASSUME NEW d \in Clients
        PROVE  /\ DOMAIN cli'[d] = ClientFields
               /\ cli'[d].pc = cli[d].pc /\ cli'[d].to = cli[d].to /\ cli'[d].child = cli[d].child
               /\ cli'[d].loop \in {"none", cli[d].loop}
               /\ cli'[d].told # cli[d].told => cli[d].to = p /\ cli[d].loop # "none"
               /\ "stopped" \in cli'[d].told /\ "stopped" \notin cli[d].told => srv[p].ok
    BY <1>2, Zenon DEF Settled
  <1>4. CASE ~Hears(d)
    <2>1. cli'[d] = cli[d]
      BY <1>1, <1>4, Zenon
    <2>2. QED
      BY <2>1 DEF Shape
  <1>5. CASE Hears(d)
    <2>1. cli'[d] = Told(d)
      BY <1>1, <1>5, Zenon
    <2>2. "stopped" \in Proof(p) => srv[p].ok
      BY DEF Proof
    <2>3. QED
      BY <1>5, <2>1, <2>2 DEF Shape, ClientFields
  <1>6. QED
    BY <1>4, <1>5

\* The shape holds initially.
LEMMA ShapeInit == Init => Shape
  BY DEF Init, Shape, NoServer, NoClient, ServerFields, ClientFields

\* No step changes a domain or what a flag, a place or a server's number may be.
LEMMA ShapeNext == Shape /\ [Next]_vars => Shape'
  <1> SUFFICES ASSUME Shape, [Next]_vars PROVE Shape'
    OBVIOUS
  <1>1. ASSUME NEW p \in Servers, Serve(p) PROVE Shape'
    BY <1>1 DEF Serve, Fresh, Goto, Shape, ServerFields, ClientFields
  <1>2. ASSUME NEW p \in Servers, TakeLock(p) PROVE Shape'
    <2>1. CASE ~Ours
      <3>1. srv' = Ends(p, 1) /\ calm' = FALSE /\ UNCHANGED <<lock, path, cli, faults>>
        BY <1>2, <2>1 DEF TakeLock
      <3>2. Ended(p, 1)
        BY <3>1, EndsIs
      <3>3. QED
        BY <1>2, <3>1, <3>2 DEF TakeLock, Ended, Shape, ServerFields, ClientFields
    <2>2. CASE Ours /\ lock = 0
      BY <1>2, <2>2 DEF TakeLock, Goto, Shape, ServerFields, ClientFields
    <2>3. CASE Ours /\ lock # 0
      <3>1. srv' = Ends(p, 3) /\ UNCHANGED <<calm, lock, path, cli, faults>>
        BY <1>2, <2>3 DEF TakeLock
      <3>2. Ended(p, 3)
        BY <3>1, EndsIs
      <3>3. QED
        BY <1>2, <2>3, <3>1, <3>2 DEF TakeLock, Ended, Shape, ServerFields, ClientFields
    <2>4. QED
      BY <2>1, <2>2, <2>3
  <1>3. ASSUME NEW p \in Servers, Probe(p) PROVE Shape'
    BY <1>3 DEF Probe, Goto, Ends, NoServer, Answers, Listens, Shape, ServerFields, ClientFields
  <1>4. ASSUME NEW p \in Servers, RemoveStale(p) PROVE Shape'
    BY <1>4 DEF RemoveStale, Goto, Shape, ServerFields, ClientFields
  <1>5. ASSUME NEW p \in Servers, Bind(p) PROVE Shape'
    BY <1>5 DEF Bind, Goto, Ends, NoServer, Shape, ServerFields, ClientFields
  <1>6. ASSUME NEW p \in Servers, Built(p) PROVE Shape'
    BY <1>6 DEF Built, Shape, ServerFields, ClientFields
  <1>7. ASSUME NEW p \in Servers, Wake(p) PROVE Shape'
    BY <1>7 DEF Wake, Goto, Shape, ServerFields, ClientFields
  <1>8. ASSUME NEW p \in Servers, BeginShutdown(p) PROVE Shape'
    BY <1>8 DEF BeginShutdown, Shape, ServerFields, ClientFields
  <1>9. ASSUME NEW p \in Servers, CloseRuntime(p) PROVE Shape'
    BY <1>9 DEF CloseRuntime, Shape, ServerFields, ClientFields
  <1>10. ASSUME NEW p \in Servers, CloseListener(p) PROVE Shape'
    <2>1. HungUp
      BY <1>10, CloseListenerIs
    <2>2. srv[p].st = "closing" /\ srv' = [srv EXCEPT ![p].st = "closed"]
             /\ UNCHANGED <<path, lock, faults, calm>>
      BY <1>10 DEF CloseListener, Goto
    <2>3. QED
      BY <2>1, <2>2 DEF HungUp, Shape, ServerFields, ClientFields
  <1>11. ASSUME NEW p \in Servers, RemovePath(p) PROVE Shape'
    BY <1>11 DEF RemovePath, Goto, Shape, ServerFields, ClientFields
  <1>12. ASSUME NEW p \in Servers, ReleaseLock(p) PROVE Shape'
    BY <1>12 DEF ReleaseLock, Goto, Shape, ServerFields, ClientFields
  <1>13. ASSUME NEW p \in Servers, Settle(p) PROVE Shape'
    BY <1>13 DEF Settle, Goto, Proof, Shape, ServerFields, ClientFields
  <1>14. ASSUME NEW p \in Servers, Exit(p) PROVE Shape'
    <2>1. PICK code : srv' = Ends(p, code)
      BY <1>14 DEF Exit
    <2>2. Ended(p, code)
      BY <2>1, EndsIs
    <2>3. HungUp
      BY <1>14, HangupIs DEF Exit
    <2>4. srv[p].st = "settled" /\ UNCHANGED <<path, lock, faults, calm>>
      BY <1>14 DEF Exit
    <2>5. QED
      BY <2>2, <2>3, <2>4 DEF Ended, HungUp, Alive, Shape, ServerFields, ClientFields
  <1>15. ASSUME NEW p \in Servers, Signal(p) PROVE Shape'
    BY <1>15 DEF Signal, Shape, ServerFields, ClientFields
  <1>16. ASSUME NEW p \in Servers, BuildFails(p) PROVE Shape'
    BY <1>16 DEF BuildFails, Shape, ServerFields, ClientFields
  <1>17. ASSUME NEW p \in Servers, CloseFails(p) PROVE Shape'
    BY <1>17 DEF CloseFails, Shape, ServerFields, ClientFields
  <1>18. ASSUME NEW p \in Servers, Crash(p) PROVE Shape'
    <2>1. PICK code : srv' = Ends(p, code)
      BY <1>18 DEF Crash
    <2>2. Ended(p, code)
      BY <2>1, EndsIs
    <2>3. HungUp
      BY <1>18, HangupIs DEF Crash
    <2>4. lock' = (IF lock = p THEN 0 ELSE lock) /\ path' = path /\ calm' = FALSE
      BY <1>18 DEF Crash
    <2>5. QED
      BY <2>2, <2>3, <2>4 DEF Ended, HungUp, Alive, Shape, ServerFields, ClientFields
  <1>19. ASSUME NEW c \in Clients, Accept(c) PROVE Shape'
    BY <1>19 DEF Accept, Shape, ServerFields, ClientFields
  <1>20. ASSUME NEW c \in Clients, LoopEnds(c) PROVE Shape'
    BY <1>20 DEF LoopEnds, Shape, ServerFields, ClientFields
  <1>21. ASSUME NEW c \in Clients, Flushed(c) PROVE Shape'
    BY <1>21 DEF Flushed, Shape, ServerFields, ClientFields
  <1>22. ASSUME NEW c \in Clients, FlushFails(c) PROVE Shape'
    <2>1. PICK told : cli' = [cli EXCEPT ![c].loop = "none", ![c].eof = TRUE, ![c].told = told]
      BY <1>22 DEF FlushFails
    <2>2. srv' = [srv EXCEPT ![cli[c].to].claimed = srv[cli[c].to].committed]
             /\ UNCHANGED <<path, lock>>
      BY <1>22 DEF FlushFails
    <2>3. srv' = [q \in Servers |-> srv'[q]] /\ \A q \in Servers : DOMAIN srv'[q] = ServerFields
      BY <2>2 DEF Shape
    <2>4. /\ cli' = [d \in Clients |-> cli'[d]]
          /\ \A d \in Clients : DOMAIN cli'[d] = ClientFields /\ cli'[d].to = cli[d].to
             /\ cli'[d].child = cli[d].child
      BY <2>1 DEF Shape, ClientFields
    <2>5. QED
      BY <2>2, <2>3, <2>4 DEF Shape
  <1>23. ASSUME NEW c \in Clients, StopDial(c) PROVE Shape'
    BY <1>23 DEF StopDial, Answers, Ours, Shape, ServerFields, ClientFields
  <1>24. ASSUME NEW c \in Clients, Greet(c) PROVE Shape'
    <2>1. CASE Claimable(cli[c].to)
      BY <1>24, <2>1 DEF Greet, Shape, ServerFields, ClientFields
    <2>2. CASE ~Claimable(cli[c].to)
      <3>1. Done(c, "refused") /\ UNCHANGED <<path, lock, srv, faults, calm>>
        BY <1>24, <2>2 DEF Greet
      <3>2. Moved(c, "refused", cli[c].to, cli[c].loop, {}, 0)
        BY <3>1, DoneIs
      <3>3. QED
        BY <1>24, <3>1, <3>2 DEF Greet, Moved, Shape, ServerFields, ClientFields
    <2>3. QED
      BY <2>1, <2>2
  <1>25. ASSUME NEW c \in Clients, AskStop(c) PROVE Shape'
    <2>1. CASE Claimable(cli[c].to)
      BY <1>25, <2>1 DEF AskStop, Shape, ServerFields, ClientFields
    <2>2. CASE ~Claimable(cli[c].to)
      <3>1. Done(c, "refused") /\ UNCHANGED <<path, lock, srv, faults, calm>>
        BY <1>25, <2>2 DEF AskStop
      <3>2. Moved(c, "refused", cli[c].to, cli[c].loop, {}, 0)
        BY <3>1, DoneIs
      <3>3. QED
        BY <1>25, <3>1, <3>2 DEF AskStop, Moved, Shape, ServerFields, ClientFields
    <2>3. QED
      BY <2>1, <2>2
  <1>26. ASSUME NEW c \in Clients, HearStop(c) PROVE Shape'
    BY <1>26 DEF HearStop, Done, Shape, ServerFields, ClientFields
  <1>27. ASSUME NEW c \in Clients, StopGivesUp(c) PROVE Shape'
    BY <1>27 DEF StopGivesUp, Done, Shape, ServerFields, ClientFields
  <1>28. ASSUME NEW c \in Clients, BridgeDial(c) PROVE Shape'
    <2>1. CASE Answers
      <3>1. cli' = [cli EXCEPT ![c] = Connected(c, 0)]
               /\ UNCHANGED <<path, lock, srv, faults, calm>>
        BY <1>28, <2>1 DEF BridgeDial
      <3>2. path \in Servers
        BY <2>1 DEF Answers
      <3>3. Moved(c, "joined", path, "backlog", cli[c].told, 0)
        BY <3>1, ConnectedIs
      <3>4. QED
        BY <1>28, <3>1, <3>2, <3>3 DEF BridgeDial, Moved, Shape, ServerFields, ClientFields
    <2>2. CASE ~Answers
      BY <1>28, <2>2 DEF BridgeDial, Shape, ServerFields, ClientFields
    <2>3. QED
      BY <2>1, <2>2
  <1>29. ASSUME NEW c \in Clients, Redial(c) PROVE Shape'
    BY <1>29 DEF Redial, Answers, Connected, Shape, ServerFields, ClientFields
  <1>30. ASSUME NEW c \in Clients, Consult(c) PROVE Shape'
    BY <1>30 DEF Consult, Over, Shape, ServerFields, ClientFields
  <1>31. ASSUME NEW c \in Clients, BudgetEnds(c) PROVE Shape'
    BY <1>31 DEF BudgetEnds, Done, Answers, Listens, Shape, ServerFields, ClientFields
  <1>32. ASSUME NEW c \in Clients, BridgeEnds(c) PROVE Shape'
    BY ZenonT(60), <1>32 DEF BridgeEnds, Done, IsReason, Over, Shape, ServerFields, ClientFields
  <1>33. ASSUME NEW c \in Clients, HangUp(c) PROVE Shape'
    BY <1>33 DEF HangUp, Done, Shape, ServerFields, ClientFields
  <1>34. ASSUME NEW c \in Clients, DialLocal(c) PROVE Shape'
    BY <1>34 DEF DialLocal, Ours, Answers, Connected, Shape, ServerFields, ClientFields
  <1>35. ASSUME NEW c \in Clients, GreetFails(c) PROVE Shape'
    BY <1>35 DEF GreetFails, Done, Shape, ServerFields, ClientFields
  <1>36. ASSUME NEW c \in Clients, NEW p \in Servers, Spawn(c, p) PROVE Shape'
    BY <1>36 DEF Spawn, Fresh, Goto, Shape, ServerFields, ClientFields
  <1>37. CASE UNCHANGED vars
    BY <1>37 DEF vars, Shape, ServerFields, ClientFields
  <1>38. QED
    BY <1>1, <1>2, <1>3, <1>4, <1>5, <1>6, <1>7, <1>8, <1>9, <1>10, <1>11, <1>12, <1>13, <1>14,
        <1>15, <1>16, <1>17, <1>18, <1>19, <1>20, <1>21, <1>22, <1>23, <1>24, <1>25, <1>26, <1>27,
        <1>28, <1>29, <1>30, <1>31, <1>32, <1>33, <1>34, <1>35, <1>36, <1>37
    DEF Next, ServerStep, Trouble, LoopStep, ClientStep

-----------------------------------------------------------------------------
(* The lock and the path                                                   *)

\* Where runServe is while it holds the lock, and while its socket is at the path.
Holding == {"locked", "stale", "clear", "building", "serving", "ending", "draining", "closing",
            "closed", "removed"}
Named == {"building", "serving", "ending", "draining", "closing", "closed"}

\* The lock is held exactly from takeLock to Listener.Close, the path is cleared and named
\* only under it, and a server that removed its socket is not named again.
LockFollows ==
    \A p \in Servers :
        /\ srv[p].st \in Holding <=> lock = p
        /\ srv[p].st \in Named => path = p
        /\ srv[p].st = "clear" => path = 0
        /\ srv[p].st \in {"none", "start", "locked", "removed", "released", "settled"} => path # p

\* No server runs initially.
LEMMA LockInit == Init => LockFollows
  BY DaemonAssumption DEF Init, LockFollows, Holding, Named, NoServer

\* Who listens holds the lock and the path: each step of a server's start and end keeps it, and no
\* step of another process takes them from a server that lives.
LEMMA LockNext == Shape /\ LockFollows /\ [Next]_vars => LockFollows'
  <1> SUFFICES ASSUME Shape, LockFollows, [Next]_vars PROVE LockFollows'
    OBVIOUS
  <1> USE DaemonAssumption
  <1>1. ASSUME NEW p \in Servers, Serve(p) PROVE LockFollows'
    BY <1>1 DEF Serve, Fresh, Goto, Shape, ServerFields, ClientFields, LockFollows, Holding, Named
  <1>2. ASSUME NEW p \in Servers, TakeLock(p) PROVE LockFollows'
    <2>1. CASE ~Ours
      <3>1. srv' = Ends(p, 1) /\ calm' = FALSE /\ UNCHANGED <<lock, path, cli, faults>>
        BY <1>2, <2>1 DEF TakeLock
      <3>2. Ended(p, 1)
        BY <3>1, EndsIs
      <3>3. QED
        BY <1>2, <3>1, <3>2
        DEF TakeLock, Ended, Shape, ServerFields, ClientFields, LockFollows, Holding, Named
    <2>2. CASE Ours /\ lock = 0
      BY <1>2, <2>2
      DEF TakeLock, Goto, Shape, ServerFields, ClientFields, LockFollows, Holding, Named
    <2>3. CASE Ours /\ lock # 0
      <3>1. srv' = Ends(p, 3) /\ UNCHANGED <<calm, lock, path, cli, faults>>
        BY <1>2, <2>3 DEF TakeLock
      <3>2. Ended(p, 3)
        BY <3>1, EndsIs
      <3>3. QED
        BY <1>2, <2>3, <3>1, <3>2
        DEF TakeLock, Ended, Shape, ServerFields, ClientFields, LockFollows, Holding, Named
    <2>4. QED
      BY <2>1, <2>2, <2>3
  <1>3. ASSUME NEW p \in Servers, Probe(p) PROVE LockFollows'
    BY <1>3
    DEF Probe, Goto, Ends, NoServer, Answers, Listens, Shape, ServerFields, ClientFields,
        LockFollows, Holding, Named
  <1>4. ASSUME NEW p \in Servers, RemoveStale(p) PROVE LockFollows'
    BY <1>4 DEF RemoveStale, Goto, Shape, ServerFields, ClientFields, LockFollows, Holding, Named
  <1>5. ASSUME NEW p \in Servers, Bind(p) PROVE LockFollows'
    BY <1>5
    DEF Bind, Goto, Ends, NoServer, Shape, ServerFields, ClientFields, LockFollows, Holding, Named
  <1>6. ASSUME NEW p \in Servers, Built(p) PROVE LockFollows'
    BY <1>6 DEF Built, Shape, ServerFields, ClientFields, LockFollows, Holding, Named
  <1>7. ASSUME NEW p \in Servers, Wake(p) PROVE LockFollows'
    BY <1>7 DEF Wake, Goto, Shape, ServerFields, ClientFields, LockFollows, Holding, Named
  <1>8. ASSUME NEW p \in Servers, BeginShutdown(p) PROVE LockFollows'
    BY <1>8 DEF BeginShutdown, Shape, ServerFields, ClientFields, LockFollows, Holding, Named
  <1>9. ASSUME NEW p \in Servers, CloseRuntime(p) PROVE LockFollows'
    BY <1>9 DEF CloseRuntime, Shape, ServerFields, ClientFields, LockFollows, Holding, Named
  <1>10. ASSUME NEW p \in Servers, CloseListener(p) PROVE LockFollows'
    <2>1. HungUp
      BY <1>10, CloseListenerIs
    <2>2. srv[p].st = "closing" /\ srv' = [srv EXCEPT ![p].st = "closed"]
             /\ UNCHANGED <<path, lock, faults, calm>>
      BY <1>10 DEF CloseListener, Goto
    <2>3. QED
      BY <2>1, <2>2 DEF HungUp, Shape, ServerFields, ClientFields, LockFollows, Holding, Named
  <1>11. ASSUME NEW p \in Servers, RemovePath(p) PROVE LockFollows'
    BY <1>11 DEF RemovePath, Goto, Shape, ServerFields, ClientFields, LockFollows, Holding, Named
  <1>12. ASSUME NEW p \in Servers, ReleaseLock(p) PROVE LockFollows'
    BY <1>12 DEF ReleaseLock, Goto, Shape, ServerFields, ClientFields, LockFollows, Holding, Named
  <1>13. ASSUME NEW p \in Servers, Settle(p) PROVE LockFollows'
    BY ZenonT(60), <1>13
    DEF Settle, Goto, Proof, Shape, ServerFields, ClientFields, LockFollows, Holding, Named
  <1>14. ASSUME NEW p \in Servers, Exit(p) PROVE LockFollows'
    <2>1. PICK code : srv' = Ends(p, code)
      BY <1>14 DEF Exit
    <2>2. Ended(p, code)
      BY <2>1, EndsIs
    <2>3. HungUp
      BY <1>14, HangupIs DEF Exit
    <2>4. srv[p].st = "settled" /\ UNCHANGED <<path, lock, faults, calm>>
      BY <1>14 DEF Exit
    <2>5. QED
      BY <2>2, <2>3, <2>4
      DEF Ended, HungUp, Alive, Shape, ServerFields, ClientFields, LockFollows, Holding, Named
  <1>15. ASSUME NEW p \in Servers, Signal(p) PROVE LockFollows'
    BY <1>15 DEF Signal, Shape, ServerFields, ClientFields, LockFollows, Holding, Named
  <1>16. ASSUME NEW p \in Servers, BuildFails(p) PROVE LockFollows'
    BY <1>16 DEF BuildFails, Shape, ServerFields, ClientFields, LockFollows, Holding, Named
  <1>17. ASSUME NEW p \in Servers, CloseFails(p) PROVE LockFollows'
    BY <1>17 DEF CloseFails, Shape, ServerFields, ClientFields, LockFollows, Holding, Named
  <1>18. ASSUME NEW p \in Servers, Crash(p) PROVE LockFollows'
    <2>1. PICK code : srv' = Ends(p, code)
      BY <1>18 DEF Crash
    <2>2. Ended(p, code)
      BY <2>1, EndsIs
    <2>3. HungUp
      BY <1>18, HangupIs DEF Crash
    <2>4. lock' = (IF lock = p THEN 0 ELSE lock) /\ path' = path /\ calm' = FALSE
      BY <1>18 DEF Crash
    <2>5. QED
      BY <2>2, <2>3, <2>4
      DEF Ended, HungUp, Alive, Shape, ServerFields, ClientFields, LockFollows, Holding, Named
  <1>19. ASSUME NEW c \in Clients, Accept(c) PROVE LockFollows'
    BY <1>19 DEF Accept, Shape, ServerFields, ClientFields, LockFollows, Holding, Named
  <1>20. ASSUME NEW c \in Clients, LoopEnds(c) PROVE LockFollows'
    BY <1>20 DEF LoopEnds, Shape, ServerFields, ClientFields, LockFollows, Holding, Named
  <1>21. ASSUME NEW c \in Clients, Flushed(c) PROVE LockFollows'
    BY <1>21 DEF Flushed, Shape, ServerFields, ClientFields, LockFollows, Holding, Named
  <1>22. ASSUME NEW c \in Clients, FlushFails(c) PROVE LockFollows'
    BY <1>22 DEF FlushFails, Shape, ServerFields, ClientFields, LockFollows, Holding, Named
  <1>23. ASSUME NEW c \in Clients, StopDial(c) PROVE LockFollows'
    BY <1>23
    DEF StopDial, Answers, Ours, Shape, ServerFields, ClientFields, LockFollows, Holding, Named
  <1>24. ASSUME NEW c \in Clients, Greet(c) PROVE LockFollows'
    <2>1. CASE Claimable(cli[c].to)
      BY <1>24, <2>1 DEF Greet, Shape, ServerFields, ClientFields, LockFollows, Holding, Named
    <2>2. CASE ~Claimable(cli[c].to)
      <3>1. Done(c, "refused") /\ UNCHANGED <<path, lock, srv, faults, calm>>
        BY <1>24, <2>2 DEF Greet
      <3>2. Moved(c, "refused", cli[c].to, cli[c].loop, {}, 0)
        BY <3>1, DoneIs
      <3>3. QED
        BY <1>24, <3>1, <3>2
        DEF Greet, Moved, Shape, ServerFields, ClientFields, LockFollows, Holding, Named
    <2>3. QED
      BY <2>1, <2>2
  <1>25. ASSUME NEW c \in Clients, AskStop(c) PROVE LockFollows'
    <2>1. CASE Claimable(cli[c].to)
      <3>0. cli' = [cli EXCEPT ![c].loop = "flush"] /\ cli[c].loop = "served"
        BY <1>25, <2>1 DEF AskStop
      <3>1. srv' = [srv EXCEPT ![cli[c].to].claimed = TRUE]
               /\ UNCHANGED <<path, lock, faults, calm>>
        BY <1>25, <2>1 DEF AskStop
      <3>2. \A q \in Servers : srv'[q].st = srv[q].st /\ srv'[q].up = srv[q].up
               /\ srv'[q].ok = srv[q].ok
               /\ srv'[q].sig = srv[q].sig /\ srv'[q].committed = srv[q].committed
               /\ srv'[q].code = srv[q].code
        BY <3>1 DEF Shape, ServerFields
      <3>3. \A d \in Clients : cli'[d].pc = cli[d].pc /\ cli'[d].told = cli[d].told
               /\ cli'[d].to = cli[d].to
               /\ (cli'[d].loop = "none" <=> cli[d].loop = "none")
        BY <3>0 DEF Shape, ClientFields
      <3>4. QED
        BY <3>1, <3>2, <3>3 DEF LockFollows, Holding, Named
    <2>2. CASE ~Claimable(cli[c].to)
      <3>1. Done(c, "refused") /\ UNCHANGED <<path, lock, srv, faults, calm>>
        BY <1>25, <2>2 DEF AskStop
      <3>2. Moved(c, "refused", cli[c].to, cli[c].loop, {}, 0)
        BY <3>1, DoneIs
      <3>3. QED
        BY <1>25, <3>1, <3>2
        DEF AskStop, Moved, Shape, ServerFields, ClientFields, LockFollows, Holding, Named
    <2>3. QED
      BY <2>1, <2>2
  <1>26. ASSUME NEW c \in Clients, HearStop(c) PROVE LockFollows'
    BY <1>26 DEF HearStop, Done, Shape, ServerFields, ClientFields, LockFollows, Holding, Named
  <1>27. ASSUME NEW c \in Clients, StopGivesUp(c) PROVE LockFollows'
    BY <1>27 DEF StopGivesUp, Done, Shape, ServerFields, ClientFields, LockFollows, Holding, Named
  <1>28. ASSUME NEW c \in Clients, BridgeDial(c) PROVE LockFollows'
    <2>1. CASE Answers
      <3>1. cli' = [cli EXCEPT ![c] = Connected(c, 0)]
               /\ UNCHANGED <<path, lock, srv, faults, calm>>
        BY <1>28, <2>1 DEF BridgeDial
      <3>2. path \in Servers
        BY <2>1 DEF Answers
      <3>3. Moved(c, "joined", path, "backlog", cli[c].told, 0)
        BY <3>1, ConnectedIs
      <3>4. QED
        BY <1>28, <3>1, <3>2, <3>3
        DEF BridgeDial, Moved, Shape, ServerFields, ClientFields, LockFollows, Holding, Named
    <2>2. CASE ~Answers
      BY <1>28, <2>2 DEF BridgeDial, Shape, ServerFields, ClientFields, LockFollows, Holding, Named
    <2>3. QED
      BY <2>1, <2>2
  <1>29. ASSUME NEW c \in Clients, Redial(c) PROVE LockFollows'
    BY <1>29
    DEF Redial, Answers, Connected, Shape, ServerFields, ClientFields, LockFollows, Holding, Named
  <1>30. ASSUME NEW c \in Clients, Consult(c) PROVE LockFollows'
    BY <1>30 DEF Consult, Over, Shape, ServerFields, ClientFields, LockFollows, Holding, Named
  <1>31. ASSUME NEW c \in Clients, BudgetEnds(c) PROVE LockFollows'
    BY <1>31
    DEF BudgetEnds, Done, Answers, Listens, Shape, ServerFields, ClientFields, LockFollows,
        Holding, Named
  <1>32. ASSUME NEW c \in Clients, BridgeEnds(c) PROVE LockFollows'
    BY <1>32
    DEF BridgeEnds, Done, IsReason, Over, Shape, ServerFields, ClientFields, LockFollows, Holding,
        Named
  <1>33. ASSUME NEW c \in Clients, HangUp(c) PROVE LockFollows'
    BY <1>33 DEF HangUp, Done, Shape, ServerFields, ClientFields, LockFollows, Holding, Named
  <1>34. ASSUME NEW c \in Clients, DialLocal(c) PROVE LockFollows'
    BY <1>34
    DEF DialLocal, Ours, Answers, Connected, Shape, ServerFields, ClientFields, LockFollows,
        Holding, Named
  <1>35. ASSUME NEW c \in Clients, GreetFails(c) PROVE LockFollows'
    BY <1>35 DEF GreetFails, Done, Shape, ServerFields, ClientFields, LockFollows, Holding, Named
  <1>36. ASSUME NEW c \in Clients, NEW p \in Servers, Spawn(c, p) PROVE LockFollows'
    BY <1>36 DEF Spawn, Fresh, Goto, Shape, ServerFields, ClientFields, LockFollows, Holding, Named
  <1>37. CASE UNCHANGED vars
    BY <1>37 DEF vars, Shape, ServerFields, ClientFields, LockFollows, Holding, Named
  <1>38. QED
    BY <1>1, <1>2, <1>3, <1>4, <1>5, <1>6, <1>7, <1>8, <1>9, <1>10, <1>11, <1>12, <1>13, <1>14,
        <1>15, <1>16, <1>17, <1>18, <1>19, <1>20, <1>21, <1>22, <1>23, <1>24, <1>25, <1>26, <1>27,
        <1>28, <1>29, <1>30, <1>31, <1>32, <1>33, <1>34, <1>35, <1>36, <1>37
    DEF Next, ServerStep, Trouble, LoopStep, ClientStep

-----------------------------------------------------------------------------
(* A stop that is proof                                                    *)

\* p has nothing left that a replacement could meet.
Proven(p) == srv[p].st \in {"settled", "over"} /\ ~srv[p].up /\ path # p /\ lock # p

\* Cleaning up that went well has closed the sessions and plugins; a client that has not
\* connected was told nothing; one that was told "stopped" was told by a server that is.
ProofHolds ==
    /\ \A p \in Servers :
         srv[p].st \in {"closing", "closed", "removed", "released", "settled"} /\ srv[p].ok
            => ~srv[p].up
    /\ \A c \in Clients :
         /\ cli[c].pc \in {"idle", "spawn", "loop", "look"} => cli[c].loop = "none"
            /\ cli[c].told = {}
         /\ cli[c].loop # "none" => cli[c].to \in Servers
         /\ "stopped" \in cli[c].told \/ cli[c].pc = "stopped"
              => cli[c].to \in Servers /\ Proven(cli[c].to)

\* Nobody has been told anything initially.
LEMMA ProofInit == Init => ProofHolds
  BY DEF Init, ProofHolds, NoServer, NoClient

\* What a connection is told of a shutdown was true when it was said and stays so.
LEMMA ProofNext == Shape /\ LockFollows /\ ProofHolds /\ [Next]_vars => ProofHolds'
  <1> SUFFICES ASSUME Shape, LockFollows, ProofHolds, [Next]_vars PROVE ProofHolds'
    OBVIOUS
  <1> USE DaemonAssumption
  <1>1. ASSUME NEW p \in Servers, Serve(p) PROVE ProofHolds'
    BY <1>1
    DEF Serve, Fresh, Goto, Shape, ServerFields, ClientFields, LockFollows, Holding, Named,
        ProofHolds, Proven
  <1>2. ASSUME NEW p \in Servers, TakeLock(p) PROVE ProofHolds'
    <2>1. CASE ~Ours
      <3>1. srv' = Ends(p, 1) /\ calm' = FALSE /\ UNCHANGED <<lock, path, cli, faults>>
        BY <1>2, <2>1 DEF TakeLock
      <3>2. Ended(p, 1)
        BY <3>1, EndsIs
      <3>3. QED
        BY <1>2, <3>1, <3>2
        DEF TakeLock, Ended, Shape, ServerFields, ClientFields, LockFollows, Holding, Named,
            ProofHolds, Proven
    <2>2. CASE Ours /\ lock = 0
      BY <1>2, <2>2
      DEF TakeLock, Goto, Shape, ServerFields, ClientFields, LockFollows, Holding, Named,
          ProofHolds, Proven
    <2>3. CASE Ours /\ lock # 0
      <3>1. srv' = Ends(p, 3) /\ UNCHANGED <<calm, lock, path, cli, faults>>
        BY <1>2, <2>3 DEF TakeLock
      <3>2. Ended(p, 3)
        BY <3>1, EndsIs
      <3>3. QED
        BY <1>2, <2>3, <3>1, <3>2
        DEF TakeLock, Ended, Shape, ServerFields, ClientFields, LockFollows, Holding, Named,
            ProofHolds, Proven
    <2>4. QED
      BY <2>1, <2>2, <2>3
  <1>3. ASSUME NEW p \in Servers, Probe(p) PROVE ProofHolds'
    BY <1>3
    DEF Probe, Goto, Ends, NoServer, Answers, Listens, Shape, ServerFields, ClientFields,
        LockFollows, Holding, Named, ProofHolds, Proven
  <1>4. ASSUME NEW p \in Servers, RemoveStale(p) PROVE ProofHolds'
    BY <1>4
    DEF RemoveStale, Goto, Shape, ServerFields, ClientFields, LockFollows, Holding, Named,
        ProofHolds, Proven
  <1>5. ASSUME NEW p \in Servers, Bind(p) PROVE ProofHolds'
    BY <1>5
    DEF Bind, Goto, Ends, NoServer, Shape, ServerFields, ClientFields, LockFollows, Holding, Named,
        ProofHolds, Proven
  <1>6. ASSUME NEW p \in Servers, Built(p) PROVE ProofHolds'
    BY <1>6
    DEF Built, Shape, ServerFields, ClientFields, LockFollows, Holding, Named, ProofHolds, Proven
  <1>7. ASSUME NEW p \in Servers, Wake(p) PROVE ProofHolds'
    BY <1>7
    DEF Wake, Goto, Shape, ServerFields, ClientFields, LockFollows, Holding, Named, ProofHolds,
        Proven
  <1>8. ASSUME NEW p \in Servers, BeginShutdown(p) PROVE ProofHolds'
    BY <1>8
    DEF BeginShutdown, Shape, ServerFields, ClientFields, LockFollows, Holding, Named, ProofHolds,
        Proven
  <1>9. ASSUME NEW p \in Servers, CloseRuntime(p) PROVE ProofHolds'
    BY <1>9
    DEF CloseRuntime, Shape, ServerFields, ClientFields, LockFollows, Holding, Named, ProofHolds,
        Proven
  <1>10. ASSUME NEW p \in Servers, CloseListener(p) PROVE ProofHolds'
    <2>1. HungUp
      BY <1>10, CloseListenerIs
    <2>2. srv[p].st = "closing" /\ srv' = [srv EXCEPT ![p].st = "closed"]
             /\ UNCHANGED <<path, lock, faults, calm>>
      BY <1>10 DEF CloseListener, Goto
    <2>3. QED
      BY <2>1, <2>2
      DEF HungUp, Shape, ServerFields, ClientFields, LockFollows, Holding, Named, ProofHolds, Proven
  <1>11. ASSUME NEW p \in Servers, RemovePath(p) PROVE ProofHolds'
    BY <1>11
    DEF RemovePath, Goto, Shape, ServerFields, ClientFields, LockFollows, Holding, Named,
        ProofHolds, Proven
  <1>12. ASSUME NEW p \in Servers, ReleaseLock(p) PROVE ProofHolds'
    BY <1>12
    DEF ReleaseLock, Goto, Shape, ServerFields, ClientFields, LockFollows, Holding, Named,
        ProofHolds, Proven
  <1>13. ASSUME NEW p \in Servers, Settle(p) PROVE ProofHolds'
    <2>1. Settled(p)
      BY <1>13, SettleIs
    <2>2. srv[p].st = "released" /\ srv' = [srv EXCEPT ![p].st = "settled"]
             /\ UNCHANGED <<path, lock>>
      BY <1>13 DEF Settle, Goto
    <2>3. QED
      BY <2>1, <2>2 DEF Settled, Shape, ServerFields, LockFollows, Holding, ProofHolds, Proven
  <1>14. ASSUME NEW p \in Servers, Exit(p) PROVE ProofHolds'
    <2>1. PICK code : srv' = Ends(p, code)
      BY <1>14 DEF Exit
    <2>2. Ended(p, code)
      BY <2>1, EndsIs
    <2>3. HungUp
      BY <1>14, HangupIs DEF Exit
    <2>4. srv[p].st = "settled" /\ UNCHANGED <<path, lock, faults, calm>>
      BY <1>14 DEF Exit
    <2>5. QED
      BY <2>2, <2>3, <2>4
      DEF Ended, HungUp, Alive, Shape, ServerFields, ClientFields, LockFollows, Holding, Named,
          ProofHolds, Proven
  <1>15. ASSUME NEW p \in Servers, Signal(p) PROVE ProofHolds'
    BY <1>15
    DEF Signal, Shape, ServerFields, ClientFields, LockFollows, Holding, Named, ProofHolds, Proven
  <1>16. ASSUME NEW p \in Servers, BuildFails(p) PROVE ProofHolds'
    BY <1>16
    DEF BuildFails, Shape, ServerFields, ClientFields, LockFollows, Holding, Named, ProofHolds,
        Proven
  <1>17. ASSUME NEW p \in Servers, CloseFails(p) PROVE ProofHolds'
    BY <1>17
    DEF CloseFails, Shape, ServerFields, ClientFields, LockFollows, Holding, Named, ProofHolds,
        Proven
  <1>18. ASSUME NEW p \in Servers, Crash(p) PROVE ProofHolds'
    <2>1. PICK code : srv' = Ends(p, code)
      BY <1>18 DEF Crash
    <2>2. Ended(p, code)
      BY <2>1, EndsIs
    <2>3. HungUp
      BY <1>18, HangupIs DEF Crash
    <2>4. lock' = (IF lock = p THEN 0 ELSE lock) /\ path' = path /\ calm' = FALSE
      BY <1>18 DEF Crash
    <2>5. QED
      BY <2>2, <2>3, <2>4
      DEF Ended, HungUp, Alive, Shape, ServerFields, ClientFields, LockFollows, Holding, Named,
          ProofHolds, Proven
  <1>19. ASSUME NEW c \in Clients, Accept(c) PROVE ProofHolds'
    BY SMTT(30), <1>19
    DEF Accept, Shape, ServerFields, ClientFields, LockFollows, Holding, Named, ProofHolds, Proven
  <1>20. ASSUME NEW c \in Clients, LoopEnds(c) PROVE ProofHolds'
    BY SMTT(30), <1>20
    DEF LoopEnds, Shape, ServerFields, ClientFields, LockFollows, Holding, Named, ProofHolds, Proven
  <1>21. ASSUME NEW c \in Clients, Flushed(c) PROVE ProofHolds'
    BY SMTT(30), <1>21
    DEF Flushed, Shape, ServerFields, ClientFields, LockFollows, Holding, Named, ProofHolds, Proven
  <1>22. ASSUME NEW c \in Clients, FlushFails(c) PROVE ProofHolds'
    BY SMTT(30), <1>22
    DEF FlushFails, Shape, ServerFields, ClientFields, LockFollows, Holding, Named, ProofHolds,
        Proven
  <1>23. ASSUME NEW c \in Clients, StopDial(c) PROVE ProofHolds'
    BY <1>23
    DEF StopDial, Answers, Ours, Shape, ServerFields, ClientFields, LockFollows, Holding, Named,
        ProofHolds, Proven
  <1>24. ASSUME NEW c \in Clients, Greet(c) PROVE ProofHolds'
    <2>1. CASE Claimable(cli[c].to)
      BY <1>24, <2>1
      DEF Greet, Shape, ServerFields, ClientFields, LockFollows, Holding, Named, ProofHolds, Proven
    <2>2. CASE ~Claimable(cli[c].to)
      <3>1. Done(c, "refused") /\ UNCHANGED <<path, lock, srv, faults, calm>>
        BY <1>24, <2>2 DEF Greet
      <3>2. Moved(c, "refused", cli[c].to, cli[c].loop, {}, 0)
        BY <3>1, DoneIs
      <3>3. QED
        BY <1>24, <3>1, <3>2
        DEF Greet, Moved, Shape, ServerFields, ClientFields, LockFollows, Holding, Named,
            ProofHolds, Proven
    <2>3. QED
      BY <2>1, <2>2
  <1>25. ASSUME NEW c \in Clients, AskStop(c) PROVE ProofHolds'
    <2>1. CASE Claimable(cli[c].to)
      <3>0. cli' = [cli EXCEPT ![c].loop = "flush"] /\ cli[c].loop = "served"
        BY <1>25, <2>1 DEF AskStop
      <3>1. srv' = [srv EXCEPT ![cli[c].to].claimed = TRUE]
               /\ UNCHANGED <<path, lock, faults, calm>>
        BY <1>25, <2>1 DEF AskStop
      <3>2. \A q \in Servers : srv'[q].st = srv[q].st /\ srv'[q].up = srv[q].up
               /\ srv'[q].ok = srv[q].ok
               /\ srv'[q].sig = srv[q].sig /\ srv'[q].committed = srv[q].committed
               /\ srv'[q].code = srv[q].code
        BY <3>1 DEF Shape, ServerFields
      <3>3. \A d \in Clients : cli'[d].pc = cli[d].pc /\ cli'[d].told = cli[d].told
               /\ cli'[d].to = cli[d].to
               /\ (cli'[d].loop = "none" <=> cli[d].loop = "none")
        BY <3>0 DEF Shape, ClientFields
      <3>4. QED
        BY <3>1, <3>2, <3>3 DEF LockFollows, Holding, Named, ProofHolds, Proven
    <2>2. CASE ~Claimable(cli[c].to)
      <3>1. Done(c, "refused") /\ UNCHANGED <<path, lock, srv, faults, calm>>
        BY <1>25, <2>2 DEF AskStop
      <3>2. Moved(c, "refused", cli[c].to, cli[c].loop, {}, 0)
        BY <3>1, DoneIs
      <3>3. QED
        BY <1>25, <3>1, <3>2
        DEF AskStop, Moved, Shape, ServerFields, ClientFields, LockFollows, Holding, Named,
            ProofHolds, Proven
    <2>3. QED
      BY <2>1, <2>2
  <1>26. ASSUME NEW c \in Clients, HearStop(c) PROVE ProofHolds'
    BY <1>26
    DEF HearStop, Done, Shape, ServerFields, ClientFields, LockFollows, Holding, Named, ProofHolds,
        Proven
  <1>27. ASSUME NEW c \in Clients, StopGivesUp(c) PROVE ProofHolds'
    BY <1>27
    DEF StopGivesUp, Done, Shape, ServerFields, ClientFields, LockFollows, Holding, Named,
        ProofHolds, Proven
  <1>28. ASSUME NEW c \in Clients, BridgeDial(c) PROVE ProofHolds'
    <2>1. CASE Answers
      <3>1. cli' = [cli EXCEPT ![c] = Connected(c, 0)]
               /\ UNCHANGED <<path, lock, srv, faults, calm>>
        BY <1>28, <2>1 DEF BridgeDial
      <3>2. path \in Servers
        BY <2>1 DEF Answers
      <3>3. Moved(c, "joined", path, "backlog", cli[c].told, 0)
        BY <3>1, ConnectedIs
      <3>4. QED
        BY <1>28, <3>1, <3>2, <3>3
        DEF BridgeDial, Moved, Shape, ServerFields, ClientFields, LockFollows, Holding, Named,
            ProofHolds, Proven
    <2>2. CASE ~Answers
      BY <1>28, <2>2
      DEF BridgeDial, Shape, ServerFields, ClientFields, LockFollows, Holding, Named, ProofHolds,
          Proven
    <2>3. QED
      BY <2>1, <2>2
  <1>29. ASSUME NEW c \in Clients, Redial(c) PROVE ProofHolds'
    BY SMTT(30), <1>29
    DEF Redial, Answers, Connected, Shape, ServerFields, ClientFields, LockFollows, Holding, Named,
        ProofHolds, Proven
  <1>30. ASSUME NEW c \in Clients, Consult(c) PROVE ProofHolds'
    BY <1>30
    DEF Consult, Over, Shape, ServerFields, ClientFields, LockFollows, Holding, Named, ProofHolds,
        Proven
  <1>31. ASSUME NEW c \in Clients, BudgetEnds(c) PROVE ProofHolds'
    BY SMTT(30), <1>31
    DEF BudgetEnds, Done, Answers, Listens, Shape, ServerFields, ClientFields, LockFollows,
        Holding, Named, ProofHolds, Proven
  <1>32. ASSUME NEW c \in Clients, BridgeEnds(c) PROVE ProofHolds'
    BY SMTT(30), <1>32
    DEF BridgeEnds, Done, IsReason, Over, Shape, ServerFields, ClientFields, LockFollows, Holding,
        Named, ProofHolds, Proven
  <1>33. ASSUME NEW c \in Clients, HangUp(c) PROVE ProofHolds'
    BY <1>33
    DEF HangUp, Done, Shape, ServerFields, ClientFields, LockFollows, Holding, Named, ProofHolds,
        Proven
  <1>34. ASSUME NEW c \in Clients, DialLocal(c) PROVE ProofHolds'
    BY <1>34
    DEF DialLocal, Ours, Answers, Connected, Shape, ServerFields, ClientFields, LockFollows,
        Holding, Named, ProofHolds, Proven
  <1>35. ASSUME NEW c \in Clients, GreetFails(c) PROVE ProofHolds'
    BY <1>35
    DEF GreetFails, Done, Shape, ServerFields, ClientFields, LockFollows, Holding, Named,
        ProofHolds, Proven
  <1>36. ASSUME NEW c \in Clients, NEW p \in Servers, Spawn(c, p) PROVE ProofHolds'
    BY <1>36
    DEF Spawn, Fresh, Goto, Shape, ServerFields, ClientFields, LockFollows, Holding, Named,
        ProofHolds, Proven
  <1>37. CASE UNCHANGED vars
    BY <1>37
    DEF vars, Shape, ServerFields, ClientFields, LockFollows, Holding, Named, ProofHolds, Proven
  <1>38. QED
    BY <1>1, <1>2, <1>3, <1>4, <1>5, <1>6, <1>7, <1>8, <1>9, <1>10, <1>11, <1>12, <1>13, <1>14,
        <1>15, <1>16, <1>17, <1>18, <1>19, <1>20, <1>21, <1>22, <1>23, <1>24, <1>25, <1>26, <1>27,
        <1>28, <1>29, <1>30, <1>31, <1>32, <1>33, <1>34, <1>35, <1>36, <1>37
    DEF Next, ServerStep, Trouble, LoopStep, ClientStep

-----------------------------------------------------------------------------
(* Bridges that land                                                       *)

\* The way up of a server, and what it may be while nothing has gone wrong.
Starting == {"locked", "stale", "clear", "building", "serving"}

\* While nothing has failed, been stopped or been killed a server is on its way up, serves,
\* or is over because another one holds the lock; and a bridge that waits has seen one start.
CalmHolds ==
    calm =>
        /\ \A p \in Servers :
             /\ srv[p].st \in Starting \cup {"none", "start", "over"}
             /\ ~srv[p].sig /\ ~srv[p].committed
             /\ srv[p].st = "over" => srv[p].code = 3
             /\ srv[p].st \notin {"none", "start"} => lock \in Servers
        /\ \A c \in Clients :
             cli[c].pc \in {"loop", "look"} => \E p \in Servers : srv[p].st # "none"
        /\ \A c \in Clients : cli[c].pc \notin {"exited", "budget"}

\* Nothing has failed initially.
LEMMA CalmInit == Init => CalmHolds
  BY DEF Init, CalmHolds, Starting, NoServer, NoClient

\* While nothing has failed, been stopped or been killed, a bridge that waits has a server to wait for.
LEMMA CalmNext == Shape /\ LockFollows /\ CalmHolds /\ [Next]_vars => CalmHolds'
  <1> SUFFICES ASSUME Shape, LockFollows, CalmHolds, [Next]_vars PROVE CalmHolds'
    OBVIOUS
  <1> USE DaemonAssumption
  <1>1. ASSUME NEW p \in Servers, Serve(p) PROVE CalmHolds'
    BY <1>1
    DEF Serve, Fresh, Goto, Shape, ServerFields, ClientFields, LockFollows, Holding, Named,
        CalmHolds, Starting
  <1>2. ASSUME NEW p \in Servers, TakeLock(p) PROVE CalmHolds'
    <2>1. CASE ~Ours
      <3>1. srv' = Ends(p, 1) /\ calm' = FALSE /\ UNCHANGED <<lock, path, cli, faults>>
        BY <1>2, <2>1 DEF TakeLock
      <3>2. Ended(p, 1)
        BY <3>1, EndsIs
      <3>3. QED
        BY <1>2, <3>1, <3>2
        DEF TakeLock, Ended, Shape, ServerFields, ClientFields, LockFollows, Holding, Named,
            CalmHolds, Starting
    <2>2. CASE Ours /\ lock = 0
      <3>1. /\ srv' = [srv EXCEPT ![p].st = "locked"] /\ lock' = p
            /\ UNCHANGED <<path, cli, faults, calm>>
        BY <1>2, <2>2 DEF TakeLock, Goto
      <3>2. \A q \in Servers : srv[q].st # "none" => srv'[q].st # "none"
        BY <3>1 DEF Shape, ServerFields
      <3>3. \A q \in Servers : /\ srv'[q].sig = srv[q].sig /\ srv'[q].committed = srv[q].committed
                               /\ srv'[q].code = srv[q].code
                               /\ srv'[q].st = srv[q].st \/ srv'[q].st = "locked"
        BY <3>1 DEF Shape, ServerFields
      <3>4. QED
        BY <3>1, <3>2, <3>3 DEF CalmHolds, Starting
    <2>3. CASE Ours /\ lock # 0
      <3>1. srv' = Ends(p, 3) /\ UNCHANGED <<calm, lock, path, cli, faults>>
        BY <1>2, <2>3 DEF TakeLock
      <3>2. Ended(p, 3)
        BY <3>1, EndsIs
      <3>3. QED
        BY <1>2, <2>3, <3>1, <3>2
        DEF TakeLock, Ended, Shape, ServerFields, ClientFields, LockFollows, Holding, Named,
            CalmHolds, Starting
    <2>4. QED
      BY <2>1, <2>2, <2>3
  <1>3. ASSUME NEW p \in Servers, Probe(p) PROVE CalmHolds'
    BY <1>3
    DEF Probe, Goto, Ends, NoServer, Answers, Listens, Shape, ServerFields, ClientFields,
        LockFollows, Holding, Named, CalmHolds, Starting
  <1>4. ASSUME NEW p \in Servers, RemoveStale(p) PROVE CalmHolds'
    BY <1>4
    DEF RemoveStale, Goto, Shape, ServerFields, ClientFields, LockFollows, Holding, Named,
        CalmHolds, Starting
  <1>5. ASSUME NEW p \in Servers, Bind(p) PROVE CalmHolds'
    BY <1>5
    DEF Bind, Goto, Ends, NoServer, Shape, ServerFields, ClientFields, LockFollows, Holding, Named,
        CalmHolds, Starting
  <1>6. ASSUME NEW p \in Servers, Built(p) PROVE CalmHolds'
    BY <1>6
    DEF Built, Shape, ServerFields, ClientFields, LockFollows, Holding, Named, CalmHolds, Starting
  <1>7. ASSUME NEW p \in Servers, Wake(p) PROVE CalmHolds'
    BY <1>7
    DEF Wake, Goto, Shape, ServerFields, ClientFields, LockFollows, Holding, Named, CalmHolds,
        Starting
  <1>8. ASSUME NEW p \in Servers, BeginShutdown(p) PROVE CalmHolds'
    BY <1>8
    DEF BeginShutdown, Shape, ServerFields, ClientFields, LockFollows, Holding, Named, CalmHolds,
        Starting
  <1>9. ASSUME NEW p \in Servers, CloseRuntime(p) PROVE CalmHolds'
    BY <1>9
    DEF CloseRuntime, Shape, ServerFields, ClientFields, LockFollows, Holding, Named, CalmHolds,
        Starting
  <1>10. ASSUME NEW p \in Servers, CloseListener(p) PROVE CalmHolds'
    <2>1. HungUp
      BY <1>10, CloseListenerIs
    <2>2. srv[p].st = "closing" /\ srv' = [srv EXCEPT ![p].st = "closed"]
             /\ UNCHANGED <<path, lock, faults, calm>>
      BY <1>10 DEF CloseListener, Goto
    <2>3. QED
      BY <2>1, <2>2
      DEF HungUp, Shape, ServerFields, ClientFields, LockFollows, Holding, Named, CalmHolds,
          Starting
  <1>11. ASSUME NEW p \in Servers, RemovePath(p) PROVE CalmHolds'
    BY <1>11
    DEF RemovePath, Goto, Shape, ServerFields, ClientFields, LockFollows, Holding, Named,
        CalmHolds, Starting
  <1>12. ASSUME NEW p \in Servers, ReleaseLock(p) PROVE CalmHolds'
    BY <1>12
    DEF ReleaseLock, Goto, Shape, ServerFields, ClientFields, LockFollows, Holding, Named,
        CalmHolds, Starting
  <1>13. ASSUME NEW p \in Servers, Settle(p) PROVE CalmHolds'
    BY <1>13
    DEF Settle, Goto, Proof, Shape, ServerFields, ClientFields, LockFollows, Holding, Named,
        CalmHolds, Starting
  <1>14. ASSUME NEW p \in Servers, Exit(p) PROVE CalmHolds'
    <2>1. PICK code : srv' = Ends(p, code)
      BY <1>14 DEF Exit
    <2>2. Ended(p, code)
      BY <2>1, EndsIs
    <2>3. HungUp
      BY <1>14, HangupIs DEF Exit
    <2>4. srv[p].st = "settled" /\ UNCHANGED <<path, lock, faults, calm>>
      BY <1>14 DEF Exit
    <2>5. QED
      BY <2>2, <2>3, <2>4
      DEF Ended, HungUp, Alive, Shape, ServerFields, ClientFields, LockFollows, Holding, Named,
          CalmHolds, Starting
  <1>15. ASSUME NEW p \in Servers, Signal(p) PROVE CalmHolds'
    BY <1>15
    DEF Signal, Shape, ServerFields, ClientFields, LockFollows, Holding, Named, CalmHolds, Starting
  <1>16. ASSUME NEW p \in Servers, BuildFails(p) PROVE CalmHolds'
    BY <1>16
    DEF BuildFails, Shape, ServerFields, ClientFields, LockFollows, Holding, Named, CalmHolds,
        Starting
  <1>17. ASSUME NEW p \in Servers, CloseFails(p) PROVE CalmHolds'
    BY <1>17
    DEF CloseFails, Shape, ServerFields, ClientFields, LockFollows, Holding, Named, CalmHolds,
        Starting
  <1>18. ASSUME NEW p \in Servers, Crash(p) PROVE CalmHolds'
    <2>1. PICK code : srv' = Ends(p, code)
      BY <1>18 DEF Crash
    <2>2. Ended(p, code)
      BY <2>1, EndsIs
    <2>3. HungUp
      BY <1>18, HangupIs DEF Crash
    <2>4. lock' = (IF lock = p THEN 0 ELSE lock) /\ path' = path /\ calm' = FALSE
      BY <1>18 DEF Crash
    <2>5. QED
      BY <2>2, <2>3, <2>4
      DEF Ended, HungUp, Alive, Shape, ServerFields, ClientFields, LockFollows, Holding, Named,
          CalmHolds, Starting
  <1>19. ASSUME NEW c \in Clients, Accept(c) PROVE CalmHolds'
    BY <1>19
    DEF Accept, Shape, ServerFields, ClientFields, LockFollows, Holding, Named, CalmHolds, Starting
  <1>20. ASSUME NEW c \in Clients, LoopEnds(c) PROVE CalmHolds'
    BY <1>20
    DEF LoopEnds, Shape, ServerFields, ClientFields, LockFollows, Holding, Named, CalmHolds,
        Starting
  <1>21. ASSUME NEW c \in Clients, Flushed(c) PROVE CalmHolds'
    BY SMTT(30), <1>21
    DEF Flushed, Shape, ServerFields, ClientFields, LockFollows, Holding, Named, CalmHolds, Starting
  <1>22. ASSUME NEW c \in Clients, FlushFails(c) PROVE CalmHolds'
    BY SMTT(30), <1>22
    DEF FlushFails, Shape, ServerFields, ClientFields, LockFollows, Holding, Named, CalmHolds,
        Starting
  <1>23. ASSUME NEW c \in Clients, StopDial(c) PROVE CalmHolds'
    BY <1>23
    DEF StopDial, Answers, Ours, Shape, ServerFields, ClientFields, LockFollows, Holding, Named,
        CalmHolds, Starting
  <1>24. ASSUME NEW c \in Clients, Greet(c) PROVE CalmHolds'
    <2>1. CASE Claimable(cli[c].to)
      BY <1>24, <2>1
      DEF Greet, Shape, ServerFields, ClientFields, LockFollows, Holding, Named, CalmHolds, Starting
    <2>2. CASE ~Claimable(cli[c].to)
      <3>1. Done(c, "refused") /\ UNCHANGED <<path, lock, srv, faults, calm>>
        BY <1>24, <2>2 DEF Greet
      <3>2. Moved(c, "refused", cli[c].to, cli[c].loop, {}, 0)
        BY <3>1, DoneIs
      <3>3. QED
        BY <1>24, <3>1, <3>2
        DEF Greet, Moved, Shape, ServerFields, ClientFields, LockFollows, Holding, Named,
            CalmHolds, Starting
    <2>3. QED
      BY <2>1, <2>2
  <1>25. ASSUME NEW c \in Clients, AskStop(c) PROVE CalmHolds'
    <2>1. CASE Claimable(cli[c].to)
      <3>0. cli' = [cli EXCEPT ![c].loop = "flush"] /\ cli[c].loop = "served"
        BY <1>25, <2>1 DEF AskStop
      <3>1. srv' = [srv EXCEPT ![cli[c].to].claimed = TRUE]
               /\ UNCHANGED <<path, lock, faults, calm>>
        BY <1>25, <2>1 DEF AskStop
      <3>2. \A q \in Servers : srv'[q].st = srv[q].st /\ srv'[q].up = srv[q].up
               /\ srv'[q].ok = srv[q].ok
               /\ srv'[q].sig = srv[q].sig /\ srv'[q].committed = srv[q].committed
               /\ srv'[q].code = srv[q].code
        BY <3>1 DEF Shape, ServerFields
      <3>3. \A d \in Clients : cli'[d].pc = cli[d].pc /\ cli'[d].told = cli[d].told
               /\ cli'[d].to = cli[d].to
               /\ (cli'[d].loop = "none" <=> cli[d].loop = "none")
        BY <3>0 DEF Shape, ClientFields
      <3>4. QED
        BY <3>1, <3>2, <3>3 DEF LockFollows, Holding, Named, CalmHolds, Starting
    <2>2. CASE ~Claimable(cli[c].to)
      <3>1. Done(c, "refused") /\ UNCHANGED <<path, lock, srv, faults, calm>>
        BY <1>25, <2>2 DEF AskStop
      <3>2. Moved(c, "refused", cli[c].to, cli[c].loop, {}, 0)
        BY <3>1, DoneIs
      <3>3. QED
        BY <1>25, <3>1, <3>2
        DEF AskStop, Moved, Shape, ServerFields, ClientFields, LockFollows, Holding, Named,
            CalmHolds, Starting
    <2>3. QED
      BY <2>1, <2>2
  <1>26. ASSUME NEW c \in Clients, HearStop(c) PROVE CalmHolds'
    BY <1>26
    DEF HearStop, Done, Shape, ServerFields, ClientFields, LockFollows, Holding, Named, CalmHolds,
        Starting
  <1>27. ASSUME NEW c \in Clients, StopGivesUp(c) PROVE CalmHolds'
    BY <1>27
    DEF StopGivesUp, Done, Shape, ServerFields, ClientFields, LockFollows, Holding, Named,
        CalmHolds, Starting
  <1>28. ASSUME NEW c \in Clients, BridgeDial(c) PROVE CalmHolds'
    <2>1. CASE Answers
      <3>1. cli' = [cli EXCEPT ![c] = Connected(c, 0)]
               /\ UNCHANGED <<path, lock, srv, faults, calm>>
        BY <1>28, <2>1 DEF BridgeDial
      <3>2. path \in Servers
        BY <2>1 DEF Answers
      <3>3. Moved(c, "joined", path, "backlog", cli[c].told, 0)
        BY <3>1, ConnectedIs
      <3>4. QED
        BY <1>28, <3>1, <3>2, <3>3
        DEF BridgeDial, Moved, Shape, ServerFields, ClientFields, LockFollows, Holding, Named,
            CalmHolds, Starting
    <2>2. CASE ~Answers
      BY <1>28, <2>2
      DEF BridgeDial, Shape, ServerFields, ClientFields, LockFollows, Holding, Named, CalmHolds,
          Starting
    <2>3. QED
      BY <2>1, <2>2
  <1>29. ASSUME NEW c \in Clients, Redial(c) PROVE CalmHolds'
    BY <1>29
    DEF Redial, Answers, Connected, Shape, ServerFields, ClientFields, LockFollows, Holding, Named,
        CalmHolds, Starting
  <1>30. ASSUME NEW c \in Clients, Consult(c) PROVE CalmHolds'
    BY <1>30
    DEF Consult, Over, Shape, ServerFields, ClientFields, LockFollows, Holding, Named, CalmHolds,
        Starting
  <1>31. ASSUME NEW c \in Clients, BudgetEnds(c) PROVE CalmHolds'
    BY SMTT(30), <1>31
    DEF BudgetEnds, Done, Answers, Listens, Shape, ServerFields, ClientFields, LockFollows,
        Holding, Named, CalmHolds, Starting
  <1>32. ASSUME NEW c \in Clients, BridgeEnds(c) PROVE CalmHolds'
    BY <1>32
    DEF BridgeEnds, Done, IsReason, Over, Shape, ServerFields, ClientFields, LockFollows, Holding,
        Named, CalmHolds, Starting
  <1>33. ASSUME NEW c \in Clients, HangUp(c) PROVE CalmHolds'
    BY <1>33
    DEF HangUp, Done, Shape, ServerFields, ClientFields, LockFollows, Holding, Named, CalmHolds,
        Starting
  <1>34. ASSUME NEW c \in Clients, DialLocal(c) PROVE CalmHolds'
    BY <1>34
    DEF DialLocal, Ours, Answers, Connected, Shape, ServerFields, ClientFields, LockFollows,
        Holding, Named, CalmHolds, Starting
  <1>35. ASSUME NEW c \in Clients, GreetFails(c) PROVE CalmHolds'
    BY <1>35
    DEF GreetFails, Done, Shape, ServerFields, ClientFields, LockFollows, Holding, Named,
        CalmHolds, Starting
  <1>36. ASSUME NEW c \in Clients, NEW p \in Servers, Spawn(c, p) PROVE CalmHolds'
    BY <1>36
    DEF Spawn, Fresh, Goto, Shape, ServerFields, ClientFields, LockFollows, Holding, Named,
        CalmHolds, Starting
  <1>37. CASE UNCHANGED vars
    BY <1>37
    DEF vars, Shape, ServerFields, ClientFields, LockFollows, Holding, Named, CalmHolds, Starting
  <1>38. QED
    BY <1>1, <1>2, <1>3, <1>4, <1>5, <1>6, <1>7, <1>8, <1>9, <1>10, <1>11, <1>12, <1>13, <1>14,
        <1>15, <1>16, <1>17, <1>18, <1>19, <1>20, <1>21, <1>22, <1>23, <1>24, <1>25, <1>26, <1>27,
        <1>28, <1>29, <1>30, <1>31, <1>32, <1>33, <1>34, <1>35, <1>36, <1>37
    DEF Next, ServerStep, Trouble, LoopStep, ClientStep

-----------------------------------------------------------------------------
(* What holds of every behaviour                                           *)

\* The inductive invariant holds in every state.
LEMMA InvariantHolds == Spec => [](Shape /\ LockFollows /\ ProofHolds /\ CalmHolds)
  <1>1. Init => Shape /\ LockFollows /\ ProofHolds /\ CalmHolds
    BY ShapeInit, LockInit, ProofInit, CalmInit
  <1>2. /\ Shape /\ LockFollows /\ ProofHolds /\ CalmHolds /\ [Next]_vars
        => (Shape /\ LockFollows /\ ProofHolds /\ CalmHolds)'
    BY ShapeNext, LockNext, ProofNext, CalmNext
  <1>3. QED
    BY <1>1, <1>2, PTL DEF Spec

\* However many servers, bridges, stop commands and crashes there are, a server that listens has
\* the path and the lock, so two servers are never up at once (takeLock, clearSocketPath,
\* Listener.Close).
THEOREM OneSocket == Spec => []SocketIsItsServers
  <1>1. LockFollows => SocketIsItsServers
    BY DEF LockFollows, SocketIsItsServers, Listens, Holding, Named
  <1>2. QED
    BY <1>1, InvariantHolds, PTL

\* A "bridge --stop" that reports success leaves nothing a replacement could meet: the server's
\* sessions and plugins are closed and its path and lock given up (CompleteShutdown,
\* waitForDaemonStop).
THEOREM StopProves == Spec => []StopIsProof
  <1>1. ProofHolds => StopIsProof
    BY DEF ProofHolds, Proven, StopIsProof, Clients
  <1>2. QED
    BY <1>1, InvariantHolds, PTL

\* Any number of bridges that start daemons at once end up on one: while no server has failed,
\* been stopped or been killed none reports an exit or a start that never answered
\* (dialOrStart, exitSocketBusy).
THEOREM BridgesLand == Spec => []EveryBridgeLands
  <1>1. CalmHolds => EveryBridgeLands
    BY DEF CalmHolds, EveryBridgeLands, Clients
  <1>2. QED
    BY <1>1, InvariantHolds, PTL

-----------------------------------------------------------------------------
(* The working tree between this machine and a host                        *)

Contents == [Files -> Int]
Heads == Seq(Contents)
SyncSteps == {"inspect", "decide", "prepare", "push", "tar", "rm", "copy", "pushed"}

\* The trees, the counts and what the client holds have their types.
TreeShape ==
    /\ here \in [git : BOOLEAN, head : Heads, wt : Contents]
    /\ box \in [there : BOOLEAN, git : BOOLEAN, head : Heads, wt : Contents]
    /\ edits \in Nat /\ commits \in Nat
    /\ sync = [x \in DOMAIN sync |-> sync[x]] /\ "step" \in DOMAIN sync
    /\ sync.step \in SyncSteps \cup {"none", "open", "session", "fetch", "merge", "stream", "move"}
    /\ sync.step \in SyncSteps =>
         /\ {"was", "saw", "since", "gone"} \subseteq DOMAIN sync
         /\ sync.was \in [git : BOOLEAN, head : Heads, wt : Contents]
         /\ sync.since \in Nat /\ sync.since <= edits + commits
         /\ sync.gone \subseteq Files
    /\ sync.step = "merge" => sync.fetched \in Heads
    /\ sync.step = "move" =>
         {"files", "src"} \subseteq DOMAIN sync /\ sync.files \subseteq Files
         /\ sync.src \in Contents

\* Nothing was edited or committed since the sync began.
Unchanged == sync.since = edits + commits

\* A placement that is not there holds nothing, and a plain tree here has no commit; turns run,
\* and a session opens, where there is a placement.
Places ==
    /\ ~here.git => here.head = <<>>
    /\ ~box.there => box.head = <<>> /\ box.wt = Tree!Nothing
    /\ turn => box.there
    /\ sync.step \in {"push", "tar", "rm", "pushed", "open"} => box.there
    /\ sync.step \in {"fetch", "merge"} => here.git
    /\ sync.step \in {"stream", "move"} => ~here.git

\* What a sync relies on at each of its steps: the placement is as it was seen until it is
\* written, and clean when it is; what is sent and removed replaces committed files only.
Relies ==
    /\ sync.step \in SyncSteps => (sync.was.head # <<>> => here.head # <<>>)
    /\ sync.step \in {"inspect", "decide"} => sync.was.git = here.git
    /\ sync.step = "decide" => sync.saw = box
    /\ sync.step \in {"prepare", "push"} =>
         ~Tree!Dirty(box) /\ (sync.was.head # <<>> \/ box.head = <<>>)
    /\ sync.step = "tar" => ~Tree!Dirty(box)
    /\ sync.step = "rm" => \A f \in sync.gone : box.wt[f] = Tree!TreeOf(box.head)[f]
    /\ sync.step = "copy" => ~box.there /\ ~here.git

\* What it has brought there, as long as nothing changed here.
Brought ==
    /\ sync.step = "tar" /\ Unchanged => box.head = here.head
    /\ sync.step = "rm" /\ Unchanged =>
         box.head = here.head /\ here.wt = Tree!Over(box.wt, Tree!Nothing, sync.gone)
    /\ sync.step = "pushed" /\ Unchanged => box.head = here.head /\ box.wt = here.wt

TreeInv == TreeShape /\ Places /\ Relies /\ Brought

LEMMA TreeOpens == TreeInv => OpensThisTree
  BY DEF TreeInv, Brought, Unchanged, OpensThisTree, Tree!OpensThisTree, Tree!At

-----------------------------------------------------------------------------
(* Trees and heads                                                         *)

LEMMA TreesAre ==
    /\ Tree!Nothing \in Contents
    /\ \A f \in Files : Tree!Nothing[f] = 0
    /\ Tree!TreeOf(<<>>) = Tree!Nothing
    /\ \A h \in Heads : h # <<>> => Len(h) \in Nat \ {0} /\ Tree!TreeOf(h) = h[Len(h)]
          /\ h[Len(h)] \in Contents
    /\ \A h \in Heads : Tree!TreeOf(h) \in Contents
    /\ <<>> \in Heads
  <1>1. Tree!Nothing \in Contents /\ (\A f \in Files : Tree!Nothing[f] = 0)
    BY DEF Tree!Nothing, Contents
  <1>2. Tree!TreeOf(<<>>) = Tree!Nothing
    BY DEF Tree!TreeOf
  <1>3. ASSUME NEW h \in Heads, h # <<>>
        PROVE  Len(h) \in Nat \ {0} /\ Tree!TreeOf(h) = h[Len(h)] /\ h[Len(h)] \in Contents
    BY <1>3 DEF Heads, Tree!TreeOf, Tree!Last
  <1>4. <<>> \in Heads
    BY DEF Heads
  <1>5. ASSUME NEW h \in Heads PROVE Tree!TreeOf(h) \in Contents
    <2>1. CASE h = <<>>
      BY <1>1, <1>2, <2>1
    <2>2. CASE h # <<>>
      BY <1>3, <2>2
    <2> QED BY <2>1, <2>2
  <1> QED BY <1>1, <1>2, <1>3, <1>4, <1>5

LEMMA OverIs ==
    ASSUME NEW wt \in Contents, NEW src \in Contents, NEW fs
    PROVE  /\ Tree!Over(wt, src, fs) \in Contents
           /\ \A f \in Files : Tree!Over(wt, src, fs)[f] = IF f \in fs THEN src[f] ELSE wt[f]
  BY DEF Tree!Over, Contents

LEMMA HeadGrows ==
    ASSUME NEW h \in Heads, NEW wt \in Contents
    PROVE  /\ Append(h, wt) \in Heads /\ Append(h, wt) # <<>>
  BY AppendProperties DEF Heads

LEMMA PrefixSelf == ASSUME NEW h \in Heads PROVE Tree!IsPrefix(h, h) /\ Tree!IsPrefix(<<>>, h)
  BY DEF Heads, Tree!IsPrefix

\* A clean file is in a commit, of this head and of every head that goes on from it.
LEMMA CleanIsKept ==
    ASSUME NEW h \in Heads, NEW wt \in Contents, NEW m, m.head \in Heads, Tree!IsPrefix(h, m.head),
           \A f \in Files : m.wt[f] = wt[f] \/ wt[f] = Tree!TreeOf(h)[f] \/ wt[f] = 0
    PROVE  Tree!Kept(wt, m)
  <1>1. CASE h = <<>>
    BY <1>1, TreesAre DEF Tree!Kept
  <1>2. CASE h # <<>>
    <2>1. Len(h) \in DOMAIN m.head /\ m.head[Len(h)] = h[Len(h)]
      BY <1>2, TreesAre DEF Heads, Tree!IsPrefix
    <2>2. Tree!TreeOf(h) \in Tree!Committed(m)
      BY <1>2, <2>1, TreesAre DEF Tree!Committed
    <2> QED BY <2>2 DEF Tree!Kept
  <1> QED BY <1>1, <1>2

\* What a sync or a pull may not do, said of one step.
NothingLost ==
    /\ Tree!Kept(box.wt, box') /\ Tree!IsPrefix(box.head, box'.head)
    /\ here.git => Tree!Kept(here.wt, here') /\ Tree!IsPrefix(here.head, here'.head)

LEMMA TreesStay == ASSUME TreeShape, UNCHANGED <<here, box>> PROVE NothingLost
  <1>1. /\ box.head \in Heads /\ box.wt \in Contents /\ here.head \in Heads /\ here.wt \in Contents
    BY DEF TreeShape
  <1>2. Tree!Kept(box.wt, box') /\ Tree!Kept(here.wt, here')
    BY DEF Tree!Kept
  <1> QED BY <1>1, <1>2, PrefixSelf DEF NothingLost

\* The record of what the client does, when only its step changes.
LEMMA SyncGoes ==
    ASSUME TreeShape, NEW step, Tree!Goto(step)
    PROVE  /\ sync'.step = step /\ DOMAIN sync' = DOMAIN sync
           /\ sync' = [x \in DOMAIN sync' |-> sync'[x]]
           /\ sync'.was = sync.was /\ sync'.saw = sync.saw /\ sync'.since = sync.since
           /\ sync'.gone = sync.gone
  BY DEF TreeShape, Tree!Goto

LEMMA LocalKeeps == ASSUME TreeInv, Tree!Local PROVE TreeInv' /\ NothingLost
  <1>1. /\ sync' = [step |-> "inspect", was |-> here, saw |-> box, since |-> edits + commits,
                  gone |-> {}]
        /\ UNCHANGED <<here, box, turn, edits, commits>>
    BY DEF Tree!Local
  <1>2. /\ sync'.step = "inspect" /\ sync'.was = here /\ sync'.since = edits + commits
        /\ sync'.gone = {} /\ DOMAIN sync' = {"step", "was", "saw", "since", "gone"}
        /\ sync' = [x \in DOMAIN sync' |-> sync'[x]]
    BY <1>1
  <1>3. TreeShape'
    BY <1>1, <1>2 DEF TreeInv, TreeShape, SyncSteps
  <1>4. Places' /\ Relies' /\ Brought'
    BY <1>1, <1>2 DEF TreeInv, Places, Relies, Brought
  <1> QED BY <1>1, <1>3, <1>4, TreesStay DEF TreeInv

LEMMA InspectKeeps == ASSUME TreeInv, Tree!Inspect PROVE TreeInv' /\ NothingLost
  <1>1. /\ sync.step = "inspect" /\ sync' = [sync EXCEPT !.step = "decide", !.saw = box]
        /\ UNCHANGED <<here, box, turn, edits, commits>>
    BY DEF Tree!Inspect, Tree!At, Tree!counts
  <1>2. /\ sync'.step = "decide" /\ sync'.was = sync.was /\ sync'.since = sync.since
        /\ sync'.saw = box
        /\ sync'.gone = sync.gone
        /\ DOMAIN sync' = DOMAIN sync /\ sync' = [x \in DOMAIN sync' |-> sync'[x]]
    BY <1>1 DEF TreeInv, TreeShape, SyncSteps
  <1>3. TreeShape'
    BY <1>1, <1>2 DEF TreeInv, TreeShape, SyncSteps
  <1>4. Places' /\ Relies' /\ Brought'
    BY <1>1, <1>2 DEF TreeInv, Places, Relies, Brought, SyncSteps
  <1> QED BY <1>1, <1>3, <1>4, TreesStay DEF TreeInv

LEMMA PlanKeeps == ASSUME TreeInv, Tree!Plan PROVE TreeInv' /\ NothingLost
  <1>1. PICK fetched, plan :
        /\ sync.step = "decide" /\ plan = Tree!Decide(sync.was, sync.saw, Tree!Ancestry(fetched))
        /\ sync' = CASE plan = "push" -> [sync EXCEPT !.step = "prepare"]
                     [] plan = "copy" -> [sync EXCEPT !.step = "copy"]
                     [] plan = "asis" -> [step |-> "open"]
                     [] plan = "refuse" -> Tree!Idle
        /\ UNCHANGED <<here, box, turn, edits, commits>>
    BY DEF Tree!Plan, Tree!At, Tree!counts
  <1>2. plan \in {"push", "copy", "asis", "refuse"}
    BY <1>1 DEF Tree!Decide
  <1>3. /\ sync.saw = box /\ sync.was.git = here.git
        /\ plan = "push" => ~box.there \/ (~Tree!Dirty(box) /\ sync.was.head # <<>>)
        /\ plan = "copy" => ~here.git /\ ~box.there
        /\ plan = "asis" => box.there
    <2>1. sync.saw = box /\ sync.was.git = here.git
      BY <1>1 DEF TreeInv, Relies
    <2>2. plan = "push" => ~box.there \/ (~Tree!Dirty(box) /\ sync.was.head # <<>>)
      BY <1>1, <2>1 DEF Tree!Decide, Tree!Ancestry
    <2>3. plan = "copy" => ~here.git /\ ~box.there
      BY <1>1, <2>1 DEF Tree!Decide
    <2>4. plan = "asis" => box.there
      BY <1>1, <2>1 DEF Tree!Decide
    <2> QED BY <2>1, <2>2, <2>3, <2>4
  <1>4. CASE plan = "push"
    <2>1. /\ Tree!Goto("prepare")
      BY <1>1, <1>4 DEF Tree!Goto
    <2>2. /\ sync'.step = "prepare" /\ DOMAIN sync' = DOMAIN sync
          /\ sync' = [x \in DOMAIN sync' |-> sync'[x]]
          /\ sync'.was = sync.was /\ sync'.since = sync.since /\ sync'.gone = sync.gone
      BY <2>1, SyncGoes DEF TreeInv
    <2>3. ~Tree!Dirty(box) /\ (sync.was.head # <<>> \/ box.head = <<>>)
      BY <1>3, <1>4, TreesAre DEF TreeInv, Places, Tree!Dirty
    <2>4. TreeShape'
      BY <1>1, <2>2 DEF TreeInv, TreeShape, SyncSteps
    <2>5. Places' /\ Relies' /\ Brought'
      BY <1>1, <2>2, <2>3 DEF TreeInv, Places, Relies, Brought, SyncSteps, Tree!Dirty
    <2> QED BY <1>1, <2>4, <2>5, TreesStay DEF TreeInv
  <1>5. CASE plan = "copy"
    <2>1. /\ Tree!Goto("copy")
      BY <1>1, <1>5 DEF Tree!Goto
    <2>2. /\ sync'.step = "copy" /\ DOMAIN sync' = DOMAIN sync
          /\ sync' = [x \in DOMAIN sync' |-> sync'[x]]
          /\ sync'.was = sync.was /\ sync'.since = sync.since /\ sync'.gone = sync.gone
      BY <2>1, SyncGoes DEF TreeInv
    <2>4. TreeShape'
      BY <1>1, <2>2 DEF TreeInv, TreeShape, SyncSteps
    <2>5. Places' /\ Relies' /\ Brought'
      BY <1>1, <1>3, <1>5, <2>2 DEF TreeInv, Places, Relies, Brought, SyncSteps
    <2> QED BY <1>1, <2>4, <2>5, TreesStay DEF TreeInv
  <1>6. CASE plan \in {"asis", "refuse"}
    <2>1. /\ sync' = [step |-> sync'.step] /\ DOMAIN sync' = {"step"}
          /\ sync' = [x \in DOMAIN sync' |-> sync'[x]]
          /\ sync'.step \in {"open", "none"} /\ (sync'.step = "open" => plan = "asis")
      BY <1>1, <1>6 DEF Tree!Idle
    <2>4. TreeShape'
      BY <1>1, <2>1 DEF TreeInv, TreeShape, SyncSteps
    <2>5. Places' /\ Relies' /\ Brought'
      BY <1>1, <1>3, <2>1 DEF TreeInv, Places, Relies, Brought, SyncSteps
    <2> QED BY <1>1, <2>4, <2>5, TreesStay DEF TreeInv
  <1> QED BY <1>2, <1>4, <1>5, <1>6

LEMMA PrepareKeeps == ASSUME TreeInv, Tree!Prepare PROVE TreeInv' /\ NothingLost
  <1>1. /\ sync.step = "prepare" /\ box' = [box EXCEPT !.there = TRUE, !.git = TRUE]
        /\ Tree!Goto("push")
        /\ UNCHANGED <<here, turn, edits, commits>>
    BY DEF Tree!Prepare, Tree!At, Tree!counts
  <1>2. /\ sync'.step = "push" /\ DOMAIN sync' = DOMAIN sync
        /\ sync' = [x \in DOMAIN sync' |-> sync'[x]]
        /\ sync'.was = sync.was /\ sync'.since = sync.since /\ sync'.gone = sync.gone
    BY <1>1, SyncGoes DEF TreeInv
  <1>3. box'.there /\ box'.head = box.head /\ box'.wt = box.wt
    BY <1>1 DEF TreeInv, TreeShape
  <1>4. TreeShape'
    BY <1>1, <1>2 DEF TreeInv, TreeShape, SyncSteps
  <1>5. Places' /\ Relies' /\ Brought'
    BY <1>1, <1>2, <1>3 DEF TreeInv, Places, Relies, Brought, SyncSteps, Tree!Dirty
  <1>6. NothingLost
    BY <1>1, <1>3, PrefixSelf DEF TreeInv, TreeShape, NothingLost, Tree!Kept
  <1> QED BY <1>4, <1>5, <1>6 DEF TreeInv

LEMMA GitPushKeeps == ASSUME TreeInv, Tree!GitPush PROVE TreeInv' /\ NothingLost
  <1>1. sync.step = "push" /\ UNCHANGED <<here, turn, edits, commits>>
    BY DEF Tree!GitPush, Tree!At, Tree!counts
  <1>2. /\ ~Tree!Dirty(box) /\ (sync.was.head # <<>> \/ box.head = <<>>) /\ box.there
        /\ sync.was.head # <<>> => here.head # <<>>
        /\ here.head \in Heads /\ box.head \in Heads /\ box.wt \in Contents
    BY <1>1 DEF TreeInv, Relies, Places, TreeShape, SyncSteps
  <1>3. CASE here.head = <<>>
    <2>1. Tree!Goto("tar") /\ UNCHANGED box
      BY <1>3 DEF Tree!GitPush
    <2>2. /\ sync'.step = "tar" /\ DOMAIN sync' = DOMAIN sync
          /\ sync' = [x \in DOMAIN sync' |-> sync'[x]]
          /\ sync'.was = sync.was /\ sync'.since = sync.since /\ sync'.gone = sync.gone
      BY <2>1, SyncGoes DEF TreeInv
    <2>3. TreeShape'
      BY <1>1, <2>1, <2>2 DEF TreeInv, TreeShape, SyncSteps
    <2>4. Places' /\ Relies' /\ Brought'
      BY <1>1, <1>2, <1>3, <2>1, <2>2 DEF TreeInv, Places, Relies, Brought, SyncSteps, Tree!Dirty
    <2> QED BY <1>1, <2>1, <2>3, <2>4, TreesStay DEF TreeInv
  <1>4. CASE here.head # <<>> /\ Tree!IsPrefix(box.head, here.head)
    <2>1. /\ Tree!Goto("tar")
          /\ box' = [box EXCEPT !.head = here.head, !.wt = Tree!TreeOf(here.head)]
      BY <1>2, <1>4 DEF Tree!GitPush
    <2>2. /\ sync'.step = "tar" /\ DOMAIN sync' = DOMAIN sync
          /\ sync' = [x \in DOMAIN sync' |-> sync'[x]]
          /\ sync'.was = sync.was /\ sync'.since = sync.since /\ sync'.gone = sync.gone
      BY <2>1, SyncGoes DEF TreeInv
    <2>3. /\ box'.there /\ box'.head = here.head /\ box'.wt = Tree!TreeOf(here.head)
          /\ box' \in [there : BOOLEAN, git : BOOLEAN, head : Heads, wt : Contents]
      BY <1>2, <2>1, TreesAre DEF TreeInv, TreeShape
    <2>4. TreeShape'
      BY <1>1, <2>2, <2>3 DEF TreeInv, TreeShape, SyncSteps
    <2>5. Places' /\ Relies' /\ Brought'
      BY <1>1, <1>2, <1>4, <2>2, <2>3 DEF TreeInv, Places, Relies, Brought, SyncSteps, Tree!Dirty
    <2>6. Tree!Kept(box.wt, box')
      BY <1>2, <1>4, <2>3, CleanIsKept DEF Tree!Dirty
    <2>7. NothingLost
      BY <1>1, <1>2, <1>4, <2>3, <2>6, PrefixSelf DEF TreeInv, TreeShape, NothingLost, Tree!Kept
    <2> QED BY <2>4, <2>5, <2>7 DEF TreeInv
  <1>5. CASE here.head # <<>> /\ ~Tree!IsPrefix(box.head, here.head)
    <2>1. sync' = [step |-> "none"] /\ UNCHANGED box
      BY <1>2, <1>5 DEF Tree!GitPush, Tree!Stop, Tree!Idle
    <2>2. sync'.step = "none" /\ DOMAIN sync' = {"step"}
          /\ sync' = [x \in DOMAIN sync' |-> sync'[x]]
      BY <2>1
    <2>3. TreeShape'
      BY <1>1, <2>1, <2>2 DEF TreeInv, TreeShape, SyncSteps
    <2>4. Places' /\ Relies' /\ Brought'
      BY <1>1, <2>1, <2>2 DEF TreeInv, Places, Relies, Brought, SyncSteps
    <2> QED BY <1>1, <2>1, <2>3, <2>4, TreesStay DEF TreeInv
  <1> QED BY <1>3, <1>4, <1>5

LEMMA SendChangedKeeps == ASSUME TreeInv, Tree!SendChanged PROVE TreeInv' /\ NothingLost
  <1>1. /\ sync.step = "tar" /\ UNCHANGED <<here, turn, edits, commits>>
        /\ box' = [box EXCEPT !.wt = Tree!Over(box.wt, here.wt, Tree!Changed(here))]
    BY DEF Tree!SendChanged, Tree!At, Tree!counts
  <1>2. /\ sync'.step = "rm" /\ sync'.was = sync.was /\ sync'.since = sync.since
        /\ sync'.gone = Tree!Deleted(here)
        /\ DOMAIN sync' = DOMAIN sync /\ sync' = [x \in DOMAIN sync' |-> sync'[x]]
    <2>1. PICK gone : gone = Tree!Deleted(here)
      OBVIOUS
    <2>2. sync' = [sync EXCEPT !.step = "rm", !.gone = gone]
      BY <2>1 DEF Tree!SendChanged
    <2>3. sync = [x \in DOMAIN sync |-> sync[x]]
          /\ {"step", "was", "since", "gone"} \subseteq DOMAIN sync
      BY <1>1 DEF TreeInv, TreeShape, SyncSteps
    <2> QED BY <2>1, <2>2, <2>3
  <1>3. /\ here.head \in Heads /\ here.wt \in Contents /\ box.head \in Heads /\ box.wt \in Contents
        /\ box.wt = Tree!TreeOf(box.head) /\ box.there
        /\ Unchanged => box.head = here.head
    BY <1>1 DEF TreeInv, TreeShape, Places, Relies, Brought, Tree!Dirty
  <1>4. /\ box'.there /\ box'.head = box.head /\ box'.wt \in Contents
        /\ \A f \in Files : box'.wt[f] = IF f \in Tree!Changed(here) THEN here.wt[f] ELSE box.wt[f]
        /\ box' \in [there : BOOLEAN, git : BOOLEAN, head : Heads, wt : Contents]
    <2>1. PICK w : w = Tree!Over(box.wt, here.wt, Tree!Changed(here))
      OBVIOUS
    <2>2. /\ w \in Contents
          /\ \A f \in Files : w[f] = IF f \in Tree!Changed(here) THEN here.wt[f] ELSE box.wt[f]
      BY <1>3, <2>1, OverIs
    <2> QED BY <1>1, <1>3, <2>1, <2>2 DEF TreeInv, TreeShape
  <1>5. Tree!Deleted(here) \subseteq Files
    BY DEF Tree!Deleted
  <1>6. TreeShape'
    BY <1>1, <1>2, <1>4, <1>5 DEF TreeInv, TreeShape, SyncSteps
  <1>7. \A f \in Tree!Deleted(here) : box'.wt[f] = Tree!TreeOf(box'.head)[f]
    BY <1>3, <1>4 DEF Tree!Deleted, Tree!Changed
  <1>8. ASSUME Unchanged
        PROVE  here.wt = Tree!Over(box'.wt, Tree!Nothing, Tree!Deleted(here))
    <2>1. PICK w : w = Tree!Over(box'.wt, Tree!Nothing, Tree!Deleted(here))
      OBVIOUS
    <2>2. /\ w \in Contents
          /\ \A f \in Files :
                w[f] = IF f \in Tree!Deleted(here) THEN Tree!Nothing[f] ELSE box'.wt[f]
      BY <1>4, <2>1, OverIs, TreesAre
    <2>3. ASSUME NEW f \in Files PROVE w[f] = here.wt[f]
      BY <1>3, <1>4, <1>8, <2>2, TreesAre DEF Tree!Deleted, Tree!Changed
    <2> QED BY <1>3, <2>1, <2>2, <2>3 DEF Contents
  <1>9. Unchanged' <=> Unchanged
    BY <1>1, <1>2 DEF Unchanged
  <1>10. Places' /\ Relies'
    BY <1>1, <1>2, <1>4, <1>7 DEF TreeInv, Places, Relies, SyncSteps
  <1>11. Brought'
    BY <1>1, <1>2, <1>3, <1>4, <1>8, <1>9 DEF Brought
  <1>12. Tree!Kept(box.wt, box')
    BY <1>3, <1>4, CleanIsKept, PrefixSelf
  <1>13. NothingLost
    BY <1>1, <1>3, <1>4, <1>12, PrefixSelf DEF NothingLost, Tree!Kept
  <1> QED BY <1>6, <1>10, <1>11, <1>13 DEF TreeInv

LEMMA RemoveKeepsTree == ASSUME TreeInv, Tree!RemoveOnHost PROVE TreeInv' /\ NothingLost
  <1>1. /\ sync.step = "rm" /\ UNCHANGED <<here, turn, edits, commits>> /\ Tree!Goto("pushed")
        /\ box' = [box EXCEPT !.wt = Tree!Over(box.wt, Tree!Nothing, sync.gone)]
    BY DEF Tree!RemoveOnHost, Tree!At, Tree!counts
  <1>2. /\ sync'.step = "pushed" /\ DOMAIN sync' = DOMAIN sync
        /\ sync' = [x \in DOMAIN sync' |-> sync'[x]]
        /\ sync'.was = sync.was /\ sync'.since = sync.since /\ sync'.gone = sync.gone
    BY <1>1, SyncGoes DEF TreeInv
  <1>3. /\ here.head \in Heads /\ here.wt \in Contents /\ box.head \in Heads /\ box.wt \in Contents
        /\ \A f \in sync.gone : box.wt[f] = Tree!TreeOf(box.head)[f]
        /\ box.there
    BY <1>1 DEF TreeInv, TreeShape, Places, Relies
  <1>4. /\ box'.there /\ box'.head = box.head /\ box'.wt \in Contents
        /\ box'.wt = Tree!Over(box.wt, Tree!Nothing, sync.gone)
        /\ \A f \in Files : box'.wt[f] = IF f \in sync.gone THEN 0 ELSE box.wt[f]
        /\ box' \in [there : BOOLEAN, git : BOOLEAN, head : Heads, wt : Contents]
    <2>1. PICK w : w = Tree!Over(box.wt, Tree!Nothing, sync.gone)
      OBVIOUS
    <2>2. /\ w \in Contents
          /\ \A f \in Files : w[f] = IF f \in sync.gone THEN 0 ELSE box.wt[f]
      BY <1>3, <2>1, OverIs, TreesAre
    <2> QED BY <1>1, <1>3, <2>1, <2>2 DEF TreeInv, TreeShape
  <1>6. TreeShape'
    BY <1>1, <1>2, <1>4 DEF TreeInv, TreeShape, SyncSteps
  <1>9. Unchanged' <=> Unchanged
    BY <1>1, <1>2 DEF Unchanged
  <1>10. Places' /\ Relies'
    BY <1>1, <1>2, <1>4 DEF TreeInv, Places, Relies, SyncSteps
  <1>11. Brought'
    BY <1>1, <1>2, <1>4, <1>9 DEF TreeInv, Brought
  <1>12. Tree!Kept(box.wt, box')
    BY <1>3, <1>4, CleanIsKept, PrefixSelf
  <1>13. NothingLost
    BY <1>1, <1>3, <1>4, <1>12, PrefixSelf DEF NothingLost, Tree!Kept
  <1> QED BY <1>6, <1>10, <1>11, <1>13 DEF TreeInv

LEMMA CopyTreeKeeps == ASSUME TreeInv, Tree!CopyTree PROVE TreeInv' /\ NothingLost
  <1>1. /\ sync.step = "copy" /\ UNCHANGED <<here, turn, edits, commits>> /\ Tree!Goto("pushed")
        /\ box' = [box EXCEPT !.there = TRUE,
                              !.wt = Tree!Over(box.wt, here.wt, {f \in Files : here.wt[f] # 0})]
    BY DEF Tree!CopyTree, Tree!At, Tree!counts
  <1>2. /\ sync'.step = "pushed" /\ DOMAIN sync' = DOMAIN sync
        /\ sync' = [x \in DOMAIN sync' |-> sync'[x]]
        /\ sync'.was = sync.was /\ sync'.since = sync.since /\ sync'.gone = sync.gone
    BY <1>1, SyncGoes DEF TreeInv
  <1>3. /\ here.head = <<>> /\ here.wt \in Contents /\ box.head = <<>> /\ box.wt = Tree!Nothing
        /\ ~here.git
    BY <1>1 DEF TreeInv, TreeShape, Places, Relies
  <1>4. /\ box'.there /\ box'.head = box.head /\ box'.wt = here.wt
        /\ box' \in [there : BOOLEAN, git : BOOLEAN, head : Heads, wt : Contents]
    <2>1. PICK w : w = Tree!Over(box.wt, here.wt, {f \in Files : here.wt[f] # 0})
      OBVIOUS
    <2>2. /\ w \in Contents
          /\ \A f \in Files : w[f] = here.wt[f]
      BY <1>3, <2>1, OverIs, TreesAre
    <2>3. w = here.wt
      BY <1>3, <2>2 DEF Contents
    <2> QED BY <1>1, <1>3, <2>1, <2>3 DEF TreeInv, TreeShape
  <1>6. TreeShape'
    BY <1>1, <1>2, <1>4 DEF TreeInv, TreeShape, SyncSteps
  <1>10. Places' /\ Relies'
    BY <1>1, <1>2, <1>4 DEF TreeInv, Places, Relies, SyncSteps
  <1>11. Brought'
    BY <1>1, <1>2, <1>3, <1>4 DEF TreeInv, Brought
  <1>12. Tree!Kept(box.wt, box')
    BY <1>3, TreesAre DEF Tree!Kept
  <1>13. NothingLost
    BY <1>3, <1>4, <1>12, TreesAre, PrefixSelf DEF NothingLost
  <1> QED BY <1>6, <1>10, <1>11, <1>13 DEF TreeInv

\* The client stops: it knows nothing of the sync any more.
LEMMA StopKeeps ==
    ASSUME TreeInv, Tree!Stop, UNCHANGED <<here, turn, edits, commits>>,
           box' \in [there : BOOLEAN, git : BOOLEAN, head : Heads, wt : Contents],
           box'.there \/ box' = box, box.there => box'.there
    PROVE  TreeInv'
  <1>1. /\ sync'.step = "none" /\ DOMAIN sync' = {"step"}
        /\ sync' = [x \in DOMAIN sync' |-> sync'[x]]
    BY DEF Tree!Stop, Tree!Idle
  <1>2. TreeShape'
    BY <1>1 DEF TreeInv, TreeShape, SyncSteps
  <1>3. Places' /\ Relies' /\ Brought'
    BY <1>1 DEF TreeInv, Places, Relies, Brought, SyncSteps
  <1> QED BY <1>2, <1>3 DEF TreeInv

LEMMA ArchiveCutKeeps == ASSUME TreeInv, Tree!ArchiveCut PROVE TreeInv' /\ NothingLost
  <1>1. PICK fs, wt :
        /\ sync.step \in {"tar", "copy"} /\ Tree!Stop /\ UNCHANGED <<here, turn, edits, commits>>
        /\ fs = IF Tree!At("tar") THEN Tree!Changed(here) ELSE {f \in Files : here.wt[f] # 0}
        /\ wt \in Tree!Partly(box.wt, here.wt, fs)
        /\ box' = [box EXCEPT !.there = TRUE, !.wt = wt]
    BY DEF Tree!ArchiveCut
  <1>2. /\ here.head \in Heads /\ here.wt \in Contents /\ box.head \in Heads /\ box.wt \in Contents
    BY DEF TreeInv, TreeShape
  <1>3. box.wt = Tree!TreeOf(box.head)
    BY <1>1, TreesAre DEF TreeInv, Places, Relies, Tree!Dirty
  <1>4. wt \in Contents
    <2>1. CASE \E got \in SUBSET fs : wt = Tree!Over(box.wt, here.wt, got)
      BY <1>2, <2>1, OverIs
    <2>2. ASSUME NEW got \in SUBSET fs, NEW f \in fs,
                 wt = [Tree!Over(box.wt, here.wt, got) EXCEPT ![f] = Tree!Cut]
          PROVE  wt \in Contents
      <3>1. PICK w : w = Tree!Over(box.wt, here.wt, got)
        OBVIOUS
      <3>2. w \in Contents
        BY <1>2, <3>1, OverIs
      <3>3. Tree!Cut \in Int
        BY DEF Tree!Cut
      <3> QED BY <2>2, <3>1, <3>2, <3>3 DEF Contents
    <2> QED BY <1>1, <2>1, <2>2 DEF Tree!Partly
  <1>5. /\ box'.there /\ box'.head = box.head /\ box'.wt = wt
        /\ box' \in [there : BOOLEAN, git : BOOLEAN, head : Heads, wt : Contents]
    BY <1>1, <1>2, <1>4 DEF TreeInv, TreeShape
  <1>6. TreeInv'
    BY <1>1, <1>5, StopKeeps
  <1>7. Tree!Kept(box.wt, box')
    BY <1>2, <1>3, <1>5, CleanIsKept, PrefixSelf
  <1>8. NothingLost
    BY <1>1, <1>2, <1>5, <1>7, PrefixSelf DEF NothingLost, Tree!Kept
  <1> QED BY <1>6, <1>8

LEMMA FailsKeeps == ASSUME TreeInv, Tree!Fails PROVE TreeInv' /\ NothingLost
  <1>1. Tree!Stop /\ UNCHANGED <<here, box, turn, edits, commits>>
    BY DEF Tree!Fails
  <1>2. box \in [there : BOOLEAN, git : BOOLEAN, head : Heads, wt : Contents]
    BY DEF TreeInv, TreeShape
  <1> QED BY <1>1, <1>2, StopKeeps, TreesStay DEF TreeInv

LEMMA OpenSessionKeeps == ASSUME TreeInv, Tree!OpenSession PROVE TreeInv' /\ NothingLost
  <1>1. /\ sync.step \in {"open", "pushed"} /\ turn' = TRUE /\ sync' = [step |-> "session"]
        /\ UNCHANGED <<here, box, edits, commits>>
    BY DEF Tree!OpenSession, Tree!counts
  <1>2. sync'.step = "session" /\ DOMAIN sync' = {"step"}
        /\ sync' = [x \in DOMAIN sync' |-> sync'[x]]
    BY <1>1
  <1>3. TreeShape'
    BY <1>1, <1>2 DEF TreeInv, TreeShape, SyncSteps
  <1>4. Places' /\ Relies' /\ Brought'
    BY <1>1, <1>2 DEF TreeInv, Places, Relies, Brought, SyncSteps
  <1> QED BY <1>1, <1>3, <1>4, TreesStay DEF TreeInv

\* The steps of a pull that leave both trees alone.
LEMMA PullsKeep ==
    ASSUME TreeInv, Tree!PullBack \/ Tree!Pull \/ Tree!Fetch \/ Tree!Unpack \/ Tree!MoveNothing
    PROVE  TreeInv' /\ NothingLost
  <1>1. UNCHANGED <<here, box, turn, edits, commits>>
    BY DEF Tree!PullBack, Tree!Pull, Tree!Fetch, Tree!Unpack, Tree!MoveNothing, Tree!counts
  <1>2. /\ sync'.step \in {"none", "fetch", "merge", "stream", "move"}
        /\ "step" \in DOMAIN sync' /\ sync' = [x \in DOMAIN sync' |-> sync'[x]]
        /\ sync'.step \in {"fetch", "merge"} => here.git
        /\ sync'.step \in {"stream", "move"} => ~here.git
        /\ sync'.step = "merge" => sync'.fetched = box.head
        /\ sync'.step = "move" =>
             {"files", "src"} \subseteq DOMAIN sync' /\ sync'.files \subseteq Files
             /\ sync'.src = box.wt
    <2>1. CASE sync' = Tree!Idle
      BY <2>1 DEF Tree!Idle
    <2>2. CASE sync' = Tree!PullStart
      BY <2>2 DEF Tree!PullStart
    <2>3. CASE sync' = [step |-> "merge", fetched |-> box.head] /\ sync.step = "fetch"
      BY <2>3 DEF TreeInv, Places
    <2>4. ASSUME NEW files, files \subseteq Files,
                 sync' = [step |-> "move", files |-> files, src |-> box.wt],
                 sync.step = "stream"
          PROVE  /\ sync'.step = "move" /\ ~here.git /\ sync'.files \subseteq Files
                 /\ sync'.src = box.wt
                 /\ {"files", "src"} \subseteq DOMAIN sync'
                 /\ "step" \in DOMAIN sync' /\ sync' = [x \in DOMAIN sync' |-> sync'[x]]
      BY <2>4 DEF TreeInv, Places
    <2>5. CASE Tree!PullBack \/ Tree!Pull \/ Tree!MoveNothing
      BY <2>1, <2>2, <2>5 DEF Tree!PullBack, Tree!Pull, Tree!MoveNothing, Tree!Stop
    <2>6. CASE Tree!Fetch
      BY <2>1, <2>3, <2>6 DEF Tree!Fetch, Tree!At
    <2>7. CASE Tree!Unpack
      <3>1. \/ sync' = Tree!Idle
            \/ \E files : files \subseteq Files
                  /\ sync' = [step |-> "move", files |-> files, src |-> box.wt]
        BY <2>7 DEF Tree!Unpack, Tree!Stop
      <3>2. sync.step = "stream"
        BY <2>7 DEF Tree!Unpack, Tree!At
      <3> QED BY <2>1, <2>4, <3>1, <3>2
    <2> QED BY <2>5, <2>6, <2>7
  <1>3. TreeShape'
    BY <1>1, <1>2 DEF TreeInv, TreeShape, SyncSteps
  <1>4. Places' /\ Relies' /\ Brought'
    BY <1>1, <1>2 DEF TreeInv, Places, Relies, Brought, SyncSteps
  <1> QED BY <1>1, <1>3, <1>4, TreesStay DEF TreeInv

LEMMA MergeKeeps == ASSUME TreeInv, Tree!Merge PROVE TreeInv' /\ NothingLost
  <1>1. /\ sync.step = "merge" /\ sync'.step = "none" /\ DOMAIN sync' = {"step"}
        /\ sync' = [x \in DOMAIN sync' |-> sync'[x]]
        /\ UNCHANGED <<box, turn, edits, commits>>
    BY DEF Tree!Merge, Tree!At, Tree!counts, Tree!Stop, Tree!Idle
  <1>2. PICK to, writes : to = Tree!TreeOf(sync.fetched)
                          /\ writes = {f \in Files : to[f] # Tree!TreeOf(here.head)[f]}
    OBVIOUS
  <1>3. /\ sync.fetched \in Heads /\ to \in Contents /\ here.head \in Heads /\ here.wt \in Contents
        /\ box.head \in Heads /\ box.wt \in Contents /\ here.git
    BY <1>1, <1>2, TreesAre DEF TreeInv, TreeShape, Places
  <1>4. CASE UNCHANGED here
    <2>1. TreeShape'
      BY <1>1, <1>4 DEF TreeInv, TreeShape, SyncSteps
    <2>2. Places' /\ Relies' /\ Brought'
      BY <1>1, <1>4 DEF TreeInv, Places, Relies, Brought, SyncSteps
    <2> QED BY <1>1, <1>4, <2>1, <2>2, TreesStay DEF TreeInv
  <1>5. CASE /\ Tree!IsPrefix(here.head, sync.fetched)
             /\ \A f \in writes : here.wt[f] = Tree!TreeOf(here.head)[f]
             /\ here' = [here EXCEPT !.head = sync.fetched, !.wt = Tree!Over(here.wt, to, writes)]
    <2>1. /\ here'.git /\ here'.head = sync.fetched /\ here'.wt \in Contents
          /\ \A f \in Files : here'.wt[f] = here.wt[f] \/ here.wt[f] = Tree!TreeOf(here.head)[f]
          /\ here' \in [git : BOOLEAN, head : Heads, wt : Contents]
      <3>1. PICK w : w = Tree!Over(here.wt, to, writes)
        OBVIOUS
      <3>2. /\ w \in Contents
            /\ \A f \in Files : w[f] = IF f \in writes THEN to[f] ELSE here.wt[f]
        BY <1>3, <3>1, OverIs
      <3> QED BY <1>3, <1>5, <3>1, <3>2 DEF TreeInv, TreeShape
    <2>2. TreeShape'
      BY <1>1, <2>1 DEF TreeInv, TreeShape, SyncSteps
    <2>3. Places' /\ Relies' /\ Brought'
      BY <1>1, <2>1 DEF TreeInv, Places, Relies, Brought, SyncSteps
    <2>4. Tree!Kept(here.wt, here')
      <3>1. PICK m, h, wt : m = here' /\ h = here.head /\ wt = here.wt
        OBVIOUS
      <3>2. m.head \in Heads /\ h \in Heads /\ wt \in Contents /\ Tree!IsPrefix(h, m.head)
        BY <1>3, <1>5, <2>1, <3>1
      <3>3. \A f \in Files : m.wt[f] = wt[f] \/ wt[f] = Tree!TreeOf(h)[f]
        BY <2>1, <3>1
      <3>4. Tree!Kept(wt, m)
        BY <3>2, <3>3, CleanIsKept
      <3> QED BY <3>1, <3>4
    <2>5. Tree!Kept(box.wt, box') /\ Tree!IsPrefix(box.head, box'.head)
      BY <1>1, <1>3, PrefixSelf DEF Tree!Kept
    <2> QED BY <1>5, <2>1, <2>2, <2>3, <2>4, <2>5 DEF TreeInv, NothingLost
  <1> QED BY <1>2, <1>4, <1>5 DEF Tree!Merge

LEMMA MoveKeeps == ASSUME TreeInv, Tree!Move PROVE TreeInv' /\ NothingLost
  <1>1. PICK f \in sync.files :
        /\ sync.step = "move" /\ here' = [here EXCEPT !.wt[f] = sync.src[f]]
        /\ sync' = IF sync.files = {f} THEN Tree!Idle ELSE [sync EXCEPT !.files = sync.files \ {f}]
        /\ UNCHANGED <<box, turn, edits, commits>>
    BY DEF Tree!Move, Tree!At, Tree!counts
  <1>2. /\ sync.files \subseteq Files /\ sync.src \in Contents /\ ~here.git
        /\ here.wt \in Contents /\ box.head \in Heads /\ box.wt \in Contents
    BY <1>1 DEF TreeInv, TreeShape, Places
  <1>3. /\ here'.git = here.git /\ here'.head = here.head
        /\ here' \in [git : BOOLEAN, head : Heads, wt : Contents]
    BY <1>1, <1>2 DEF TreeInv, TreeShape, Contents
  <1>4. /\ sync'.step \in {"none", "move"} /\ "step" \in DOMAIN sync'
        /\ sync' = [x \in DOMAIN sync' |-> sync'[x]]
        /\ sync'.step = "move" =>
             {"files", "src"} \subseteq DOMAIN sync' /\ sync'.files \subseteq Files
             /\ sync'.src = sync.src
    <2>1. CASE sync' = Tree!Idle
      BY <2>1 DEF Tree!Idle
    <2>2. CASE sync' = [sync EXCEPT !.files = sync.files \ {f}]
      <3>1. /\ sync = [x \in DOMAIN sync |-> sync[x]]
            /\ {"step", "files", "src"} \subseteq DOMAIN sync
            /\ sync.step = "move"
        BY <1>1 DEF TreeInv, TreeShape
      <3>2. /\ DOMAIN sync' = DOMAIN sync /\ sync' = [x \in DOMAIN sync' |-> sync'[x]]
        BY <2>2, <3>1
      <3>3. sync'.step = "move" /\ sync'.files = sync.files \ {f} /\ sync'.src = sync.src
        BY <2>2, <3>1
      <3> QED BY <1>2, <3>1, <3>2, <3>3
    <2> QED BY <1>1, <2>1, <2>2
  <1>5. TreeShape'
    BY <1>1, <1>2, <1>3, <1>4 DEF TreeInv, TreeShape, SyncSteps
  <1>6. Places' /\ Relies' /\ Brought'
    BY <1>1, <1>2, <1>3, <1>4 DEF TreeInv, Places, Relies, Brought, SyncSteps
  <1>7. NothingLost
    BY <1>1, <1>2, PrefixSelf DEF NothingLost, Tree!Kept
  <1> QED BY <1>5, <1>6, <1>7 DEF TreeInv

\* No turn works on the host while a sync runs.
LEMMA OnlyBetweenSyncs ==
    ASSUME TreeInv, ~Busy, Tree!MayEdit
    PROVE  box.there /\ sync.step \in {"none", "session"}
  BY DEF TreeInv, Places, Tree!MayEdit

\* Work here during a sync shows in the counts, and leaves a head that had commits with some.
LEMMA WorkHereKeeps ==
    ASSUME TreeInv, UNCHANGED <<box, sync, turn>>, edits' \in Nat, commits' \in Nat,
           edits' + commits' > edits + commits,
           here' \in [git : BOOLEAN, head : Heads, wt : Contents], here'.git = here.git,
           here.head # <<>> => here'.head # <<>>, ~here.git => here'.head = here.head
    PROVE  TreeInv'
  <1>1. TreeShape'
    BY DEF TreeInv, TreeShape, SyncSteps
  <1>2. Places' /\ Relies'
    BY DEF TreeInv, Places, Relies, SyncSteps
  <1>3. sync.step \in SyncSteps => ~Unchanged'
    BY DEF TreeInv, TreeShape, Unchanged
  <1>4. Brought'
    BY <1>3 DEF Brought, SyncSteps
  <1> QED BY <1>1, <1>2, <1>4 DEF TreeInv

LEMMA EditHereKeeps ==
    ASSUME TreeInv, NEW f \in Files, NEW gone \in BOOLEAN, Tree!EditHere(f, gone) PROVE TreeInv'
  <1>1. PICK v \in Int : here' = [here EXCEPT !.wt[f] = v]
    <2>1. PICK v : v = IF gone THEN 0 ELSE edits + 1
      OBVIOUS
    <2>2. v \in Int
      BY <2>1 DEF TreeInv, TreeShape
    <2>3. here' = [here EXCEPT !.wt[f] = v]
      BY <2>1 DEF Tree!EditHere
    <2> QED BY <2>2, <2>3
  <1>2. edits' = edits + 1 /\ UNCHANGED <<box, sync, turn, commits>> /\ edits \in Nat
        /\ commits \in Nat
    BY DEF Tree!EditHere, TreeInv, TreeShape
  <1>3. /\ here' \in [git : BOOLEAN, head : Heads, wt : Contents]
        /\ here'.git = here.git /\ here'.head = here.head
    BY <1>1 DEF TreeInv, TreeShape, Contents
  <1> QED BY <1>2, <1>3, WorkHereKeeps

LEMMA CommitHereKeeps == ASSUME TreeInv, Tree!CommitHere PROVE TreeInv'
  <1>1. /\ here.git /\ here' = [here EXCEPT !.head = Append(here.head, here.wt)]
        /\ commits' = commits + 1 /\ UNCHANGED <<box, sync, turn, edits>>
        /\ edits \in Nat /\ commits \in Nat /\ here.head \in Heads /\ here.wt \in Contents
    BY DEF Tree!CommitHere, TreeInv, TreeShape
  <1>2. PICK h : h = Append(here.head, here.wt)
    OBVIOUS
  <1>3. h \in Heads /\ h # <<>>
    BY <1>1, <1>2, HeadGrows
  <1>4. here' \in [git : BOOLEAN, head : Heads, wt : Contents] /\ here'.git = here.git
        /\ here'.head = h
    BY <1>1, <1>2, <1>3 DEF TreeInv, TreeShape
  <1> QED BY <1>1, <1>3, <1>4, WorkHereKeeps

LEMMA GitInitKeeps == ASSUME TreeInv, Tree!GitInit PROVE TreeInv'
  <1>1. /\ sync.step \in {"none", "session"} /\ here' = [here EXCEPT !.git = TRUE]
        /\ UNCHANGED <<box, sync, turn, edits, commits>>
    BY DEF Tree!GitInit, Tree!counts
  <1>2. here' \in [git : BOOLEAN, head : Heads, wt : Contents] /\ here'.git
    BY <1>1 DEF TreeInv, TreeShape
  <1>3. TreeShape'
    BY <1>1, <1>2 DEF TreeInv, TreeShape, SyncSteps
  <1>4. Places' /\ Relies' /\ Brought'
    BY <1>1, <1>2 DEF TreeInv, Places, Relies, Brought, SyncSteps
  <1> QED BY <1>3, <1>4 DEF TreeInv

\* Work on the host, where no sync relies on what is there.
LEMMA WorkThereKeeps ==
    ASSUME TreeInv, UNCHANGED <<here, sync, turn>>, edits' \in Nat, commits' \in Nat,
           sync.step \in {"none", "session"},
           box' \in [there : BOOLEAN, git : BOOLEAN, head : Heads, wt : Contents], box'.there
    PROVE  TreeInv'
  <1>1. TreeShape'
    BY DEF TreeInv, TreeShape, SyncSteps
  <1>2. Places' /\ Relies' /\ Brought'
    BY DEF TreeInv, Places, Relies, Brought, SyncSteps
  <1> QED BY <1>1, <1>2 DEF TreeInv

LEMMA EditBoxKeeps ==
    ASSUME TreeInv, ~Busy, NEW f \in Files, NEW gone \in BOOLEAN,
           Tree!EditBox(f, gone)
    PROVE  TreeInv'
  <1>1. PICK v \in Int : box' = [box EXCEPT !.wt[f] = v]
    <2>1. PICK v : v = IF gone THEN 0 ELSE edits + 1
      OBVIOUS
    <2>2. v \in Int
      BY <2>1 DEF TreeInv, TreeShape
    <2>3. box' = [box EXCEPT !.wt[f] = v]
      BY <2>1 DEF Tree!EditBox
    <2> QED BY <2>2, <2>3
  <1>2. /\ edits' = edits + 1 /\ UNCHANGED <<here, sync, turn, commits>> /\ edits \in Nat
        /\ commits \in Nat
        /\ Tree!MayEdit
    BY DEF Tree!EditBox, TreeInv, TreeShape
  <1>3. box' \in [there : BOOLEAN, git : BOOLEAN, head : Heads, wt : Contents]
        /\ box'.there = box.there
    BY <1>1 DEF TreeInv, TreeShape, Contents
  <1> QED BY <1>2, <1>3, OnlyBetweenSyncs, WorkThereKeeps

LEMMA CommitBoxKeeps == ASSUME TreeInv, ~Busy, Tree!CommitBox PROVE TreeInv'
  <1>1. /\ Tree!MayEdit /\ box' = [box EXCEPT !.head = Append(box.head, box.wt)]
        /\ commits' = commits + 1 /\ UNCHANGED <<here, sync, turn, edits>>
        /\ edits \in Nat /\ commits \in Nat /\ box.head \in Heads /\ box.wt \in Contents
    BY DEF Tree!CommitBox, TreeInv, TreeShape
  <1>2. PICK h : h = Append(box.head, box.wt)
    OBVIOUS
  <1>3. h \in Heads
    BY <1>1, <1>2, HeadGrows
  <1>4. box' \in [there : BOOLEAN, git : BOOLEAN, head : Heads, wt : Contents]
        /\ box'.there = box.there
    BY <1>1, <1>2, <1>3 DEF TreeInv, TreeShape
  <1> QED BY <1>1, <1>4, OnlyBetweenSyncs, WorkThereKeeps

LEMMA TurnEndsKeeps == ASSUME TreeInv, Tree!TurnEnds PROVE TreeInv'
  <1>1. ~turn' /\ UNCHANGED <<here, box, sync, edits, commits>>
    BY DEF Tree!TurnEnds, Tree!counts
  <1>2. TreeShape'
    BY <1>1 DEF TreeInv, TreeShape, SyncSteps
  <1>3. Places' /\ Relies' /\ Brought'
    BY <1>1 DEF TreeInv, Places, Relies, Brought, Unchanged
  <1> QED BY <1>2, <1>3 DEF TreeInv

LEMMA WorkKeeps == ASSUME TreeInv, ~Busy, Tree!Working PROVE TreeInv'
  BY EditHereKeeps, EditBoxKeeps, CommitHereKeeps, GitInitKeeps, CommitBoxKeeps, TurnEndsKeeps
  DEF Tree!Working

LEMMA TreeStutters == ASSUME TreeInv, UNCHANGED Tree!vars PROVE TreeInv'
  <1>1. UNCHANGED <<here, box, sync, turn, edits, commits>>
    BY DEF Tree!vars, Tree!counts
  <1>2. TreeShape'
    BY <1>1 DEF TreeInv, TreeShape, SyncSteps
  <1>3. Places' /\ Relies' /\ Brought'
    BY <1>1 DEF TreeInv, Places, Relies, Brought, Unchanged
  <1> QED BY <1>2, <1>3 DEF TreeInv

LEMMA SyncKeeps == ASSUME TreeInv, Tree!Syncing \/ Tree!Pulling PROVE TreeInv' /\ NothingLost
  <1>1. CASE Tree!Syncing
    BY <1>1, LocalKeeps, InspectKeeps, PlanKeeps, PrepareKeeps, GitPushKeeps, SendChangedKeeps,
       RemoveKeepsTree, CopyTreeKeeps, ArchiveCutKeeps, FailsKeeps, OpenSessionKeeps
    DEF Tree!Syncing
  <1>2. CASE Tree!Pulling
    BY <1>2, PullsKeep, MergeKeeps, MoveKeeps DEF Tree!Pulling
  <1> QED BY <1>1, <1>2

LEMMA TreeInit == Tree!Init => TreeInv
  <1> SUFFICES ASSUME Tree!Init PROVE TreeInv
    OBVIOUS
  <1>1. /\ here.head = <<>> /\ here \in [git : BOOLEAN, head : Heads, wt : Contents]
        /\ box = [there |-> FALSE, git |-> FALSE, head |-> <<>>, wt |-> Tree!Nothing]
        /\ sync = [step |-> "none"] /\ ~turn /\ edits = 1 /\ commits = 0
    BY TreesAre DEF Tree!Init, Tree!Idle, Contents
  <1>2. TreeShape
    BY <1>1, TreesAre DEF TreeShape, SyncSteps
  <1>3. /\ sync.step = "none" /\ ~box.there /\ box.head = <<>> /\ box.wt = Tree!Nothing
    BY <1>1
  <1>4. Places /\ Relies /\ Brought
    BY <1>1, <1>3 DEF Places, Relies, Brought, SyncSteps
  <1> QED BY <1>2, <1>4 DEF TreeInv

LEMMA TreeNext == ASSUME TreeInv, ~Busy, [Tree!Next]_(Tree!vars) PROVE TreeInv'
  BY SyncKeeps, WorkKeeps, TreeStutters DEF Tree!Next

\* A session that opens after a push opens on this machine's tree.
THEOREM OpensOnThisTree == ASSUME ~Busy PROVE Tree!Spec => []OpensThisTree
  <1>1. TreeInv /\ [Tree!Next]_(Tree!vars) => TreeInv'
    BY TreeNext
  <1> QED BY <1>1, TreeInit, TreeOpens, PTL DEF Tree!Spec

\* No sync and no pull loses work, here or on the host.
THEOREM SyncLosesNoWork == ASSUME ~Busy PROVE Tree!Spec => NoWorkLost
  <1>1. TreeInv /\ [Tree!Next]_(Tree!vars) => TreeInv'
    BY TreeNext
  <1>2. TreeInv /\ [Tree!Next]_(Tree!vars) =>
          [Tree!Syncing \/ Tree!Pulling => NothingLost]_(Tree!vars)
    BY SyncKeeps
  <1>3. [Tree!Syncing \/ Tree!Pulling => NothingLost]_(Tree!vars) =>
          [Tree!Syncing \/ Tree!Pulling =>
             /\ Tree!Kept(box.wt, box') /\ Tree!IsPrefix(box.head, box'.head)
             /\ here.git => Tree!Kept(here.wt, here')
                   /\ Tree!IsPrefix(here.head, here'.head)]_(Tree!vars)
    BY DEF NothingLost
  <1>4. Tree!Spec => [][Tree!Syncing \/ Tree!Pulling =>
             /\ Tree!Kept(box.wt, box') /\ Tree!IsPrefix(box.head, box'.head)
             /\ here.git => Tree!Kept(here.wt, here')
                   /\ Tree!IsPrefix(here.head, here'.head)]_(Tree!vars)
    BY <1>1, <1>2, <1>3, TreeInit, PTL DEF Tree!Spec
  <1> QED BY <1>4 DEF NoWorkLost, Tree!NoWorkLost

-----------------------------------------------------------------------------
(* What a terminal has on screen: the types                                *)

FeedKinds == {"head", "note", "user", "decided"}
NoteKinds == FeedKinds \cup {"run", "rest", "ask"}
FeedNotes == [t : {"entry", "state", "ask"}, s : Sessions, i : Nat, k : NoteKinds]
FeedReqs == [m : {"submit", "answer", "close", "resume", "fork", "command"}, s : Sessions, i : Nat,
  home : Sessions]
FeedAnswers == [q : FeedReqs, ok : BOOLEAN, r : Nat]
Mirrors == [on : Sessions, await : BOOLEAN, shown : Seq(Nat), running : BOOLEAN, turn : Nat,
            prompts : SUBSET Nat, asked : SUBSET Nat, queue : Seq([i : Nat, home : Sessions]),
            send : SUBSET FeedReqs]

\* What is queued was typed for the session on screen, and so is what is sent.
Homely(u) ==
    /\ u \in Mirrors
    /\ \A j \in DOMAIN u.queue : u.queue[j].home = u.on
    /\ \A q \in u.send : q.m = "submit" /\ q.s = u.on /\ q.home = u.on

\* An answer that names a session.
Names(a) ==
    a.q.m \in {"resume", "fork", "command"} =>
        (a.ok => a.r \in Sessions) /\ (a.q.m = "command" => a.ok)

FeedShape ==
    /\ log \in [Sessions -> Seq(FeedKinds)] /\ run \in [Sessions -> Nat]
    /\ stands \in [Sessions -> SUBSET Nat] /\ subs \in [Sessions -> {0, 1}]
    /\ deliver \in [on : BOOLEAN, s : Sessions \cup {0}, left : Seq(FeedNotes),
         ans : FeedAnswers \cup {<<>>}]
    /\ deliver.on => /\ deliver.s \in Sessions /\ deliver.ans \in FeedAnswers
                     /\ deliver.ans.ok /\ deliver.ans.r = deliver.s
                     /\ deliver.ans.q.m \in {"resume", "fork", "command"}
    /\ reqs \in SUBSET FeedReqs /\ notes \in Seq(FeedNotes) /\ answers \in SUBSET FeedAnswers
    /\ \A a \in answers : Names(a)
    /\ sw \in [on : BOOLEAN, buffer : Seq(FeedNotes)] /\ (~sw.on => sw.buffer = <<>>)
    /\ typed \in Nat /\ known \subseteq Sessions
    /\ Homely(ui) /\ ui.send = {}
    /\ \A q \in reqs : q.m = "submit" => q.s = q.home

-----------------------------------------------------------------------------
(* A session, and what notifications say of it                             *)

\* What a mirror of session s has to agree with: its log, its turn, the questions that
\* stand, the subscription of the client, and the client's answers on their way.
Of(s) == [log |-> log[s], run |-> run[s], standing |-> stands[s], subs |-> subs[s],
          answered |-> {q.i : q \in {r \in reqs : r.m = "answer" /\ r.s = s}}]

Views == [log : Seq(FeedKinds), run : Nat, standing : SUBSET Nat, subs : {0, 1},
          answered : SUBSET Nat]

\* Only the head begins a log, and a question stands while its turn runs, undecided.
LogOk(w) ==
    /\ w.log = <<>> => w.run = 0 /\ w.standing = {} /\ w.subs = 0
    /\ \A i \in 1..Len(w.log) : w.log[i] = "head" <=> i = 1
    /\ w.run \in 0..Len(w.log)
    /\ \A t \in w.standing : t = w.run /\ t # 0
    /\ \A t \in w.standing : \A i \in 1..Len(w.log) : i > t => w.log[i] # "decided"

\* The question of turn t was asked: it stands, or its decision came after it.
WasPut(w, t) ==
    /\ t \in 1..Len(w.log)
    /\ \/ t \in w.standing
       \/ \E i \in 1..Len(w.log) : i > t /\ w.log[i] = "decided"

Genuine(w, n) ==
    \/ n.t = "entry" /\ n.i \in 1..Len(w.log) /\ n.k = w.log[n.i]
    \/ n.t = "state" /\ n.k \in {"run", "rest"}
    \/ n.t = "ask" /\ n.k = "ask" /\ WasPut(w, n.i)

IsEntry(n, s, i) == n.t = "entry" /\ n.s = s /\ n.i = i
IsAsk(n, s) == n.t = "ask" /\ n.s = s
IsRun(n, s) == n.t = "state" /\ n.s = s /\ n.k = "run"
IsRest(n, s) == n.t = "state" /\ n.s = s /\ n.k = "rest"
Clears(n, s) == IsRest(n, s) \/ (n.t = "entry" /\ n.s = s /\ n.k = "decided")

-----------------------------------------------------------------------------
(* What mirror u will have shown of w when notifications p have arrived    *)

Told(w, s, p) == \A k \in 1..Len(p) : p[k].s = s => Genuine(w, p[k])

\* Between j and k no replay starts.
NoHead(p, s, j, k) == \A h \in 1..Len(p) : j < h /\ h < k => ~IsEntry(p[h], s, 1)

\* No entry is skipped: entry i, at place k of p, comes after entry i - 1, or is the
\* continuation of what u has seen, or no head has come yet.
Follows(u, p, k, i) ==
    \/ i = 1
    \/ \E j \in 1..Len(p) : j < k /\ IsEntry(p[j], u.on, i - 1) /\ NoHead(p, u.on, j, k)
    \/ NoHead(p, u.on, 0, k) /\ (u.await \/ 1..(i - 1) \subseteq Feed!Seen(u))

\* What u has seen is of the log, without a gap but for messages echoed early, and its
\* questions were put and are not known to be decided.
Sane(w, u) ==
    /\ Feed!Seen(u) \subseteq 1..Len(w.log)
    /\ u.await => Feed!Seen(u) = {}
    /\ \A i \in Feed!Seen(u) : w.log[i] # "user" => 1..i \subseteq Feed!Seen(u)
    /\ \A t \in u.prompts \cup u.asked :
         /\ WasPut(w, t)
         /\ \A i \in Feed!Seen(u) : i > t => w.log[i] # "decided"

\* A question comes before its decision.
AsksFirst(w, u, p) ==
    \A k \in 1..Len(p) : IsAsk(p[k], u.on) =>
        \A i \in 1..Len(w.log) : i > p[k].i /\ w.log[i] = "decided" =>
            /\ i \notin Feed!Seen(u)
            /\ \A j \in 1..Len(p) : j < k => ~IsEntry(p[j], u.on, i)

InOrder(u, p) == \A k \in 1..Len(p) : p[k].t = "entry" /\ p[k].s = u.on => Follows(u, p, k, p[k].i)

Safe(w, u, p) ==
    /\ LogOk(w)
    /\ Told(w, u.on, p)
    /\ Sane(w, u)
    /\ AsksFirst(w, u, p)
    /\ InOrder(u, p)
    /\ w.subs = 1 => Follows(u, p, Len(p) + 1, Len(w.log) + 1)

\* Every entry is seen or will be.
Complete(w, u, p) ==
    \A i \in 1..Len(w.log) :
        \/ i \in Feed!Seen(u)
        \/ \E j \in 1..Len(p) :
             /\ IsEntry(p[j], u.on, i)
             /\ u.await => \E h \in 1..Len(p) : h <= j /\ IsEntry(p[h], u.on, 1)

\* A running turn is shown running, or will be.
RunsOn(w, u, p) ==
    w.run # 0 =>
        \/ \E j \in 1..Len(p) : IsRun(p[j], u.on)
             /\ \A h \in 1..Len(p) : h > j => ~IsRest(p[h], u.on)
        \/ u.running /\ \A h \in 1..Len(p) : ~IsRest(p[h], u.on)

\* Places j and on say nothing more of a question.
Mute(p, s, j) == \A h \in 1..Len(p) : h > j => ~Clears(p[h], s) /\ ~IsAsk(p[h], s)

\* A question that stands is shown, or will be, or an answer to it is under way.
Asks(w, u, p) ==
    \A t \in w.standing :
        \/ \E j \in 1..Len(p) : IsAsk(p[j], u.on) /\ p[j].i = t /\ Mute(p, u.on, j)
        \/ Mute(p, u.on, 0) /\ t \in u.prompts \cup w.answered

Full(w, u, p) == Complete(w, u, p) /\ RunsOn(w, u, p) /\ Asks(w, u, p)

-----------------------------------------------------------------------------
(* The switch in flight                                                    *)

Opens(q) == q.m \in {"resume", "fork"}
HasLog(s) == s \in Sessions /\ log[s] # <<>>

\* Session s can be put on screen: it is there, and not being left.
Enterable(s) == HasLog(s) /\ ~\E q \in reqs : q.m = "close" /\ q.s = s

\* The call of a switch is a request, being delivered, or an answer, and there is one of them
\* while a switch is in flight and none otherwise.
OneSwitch ==
    /\ \A q \in reqs : Opens(q) =>
         /\ sw.on
         /\ \A p \in reqs : Opens(p) => p = q
         /\ ~(deliver.on /\ Opens(deliver.ans.q))
         /\ \A a \in answers : ~Opens(a.q)
    /\ deliver.on /\ Opens(deliver.ans.q) => sw.on /\ \A a \in answers : ~Opens(a.q)
    /\ \A a \in answers : Opens(a.q) =>
         /\ sw.on
         /\ \A b \in answers : Opens(b.q) => a = b

\* The switch in flight goes to s and was served: the replay is on its way, or was sent.
Served(s) ==
    \/ deliver.on /\ Opens(deliver.ans.q) /\ deliver.s = s
    \/ \E a \in answers : Opens(a.q) /\ a.ok /\ a.r = s

\* Where the switch in flight goes.
Target(s) == Served(s) \/ \E q \in reqs : q.m = "resume" /\ q.s = s

\* A fork made by a command that nobody has switched to.
Spare(s) ==
    \/ deliver.on /\ deliver.ans.q.m = "command" /\ deliver.s = s
    \/ \E a \in answers : a.q.m = "command" /\ a.r = s

Switching ==
    /\ HasLog(ui.on) /\ ui.on \in known
    /\ ui.on \notin raced => Enterable(ui.on) /\ subs[ui.on] = 1
    /\ \A s \in known : HasLog(s)
    /\ \A q \in reqs : HasLog(q.s)
    /\ OneSwitch
    /\ deliver.on => HasLog(deliver.s) /\ \A j \in 1..Len(deliver.left) : deliver.left[j].s =
         deliver.s
    /\ \A s \in Sessions : Target(s) => s # ui.on /\ HasLog(s)
    /\ \A s \in Sessions : Served(s) /\ s \notin raced => Enterable(s) /\ subs[s] = 1
    /\ \A s \in Sessions : Spare(s) => s \notin known /\ Enterable(s) /\ ~Target(s)
    /\ \A a \in answers :
         /\ a.q.m = "command" => ~(deliver.on /\ deliver.s = a.r)
         /\ a.q.m = "command" => \A b \in answers : b.q.m = "command" /\ b.r = a.r => a = b
         /\ a.q.m = "submit" /\ a.ok => a.r \in 1..Len(log[a.q.s]) /\ log[a.q.s][a.r] = "user"

-----------------------------------------------------------------------------

\* What is under way to the client of session s: held back, sent, and still to be replayed.
Pending(s) == sw.buffer \o notes \o (IF deliver.on /\ deliver.s = s THEN deliver.left ELSE <<>>)

\* What a race has torn aside: a mirror that waits for the replay of s would be safe, and so
\* is the one on screen, which will be whole, as will the one of a switch that was served.
ScreenInv ==
    /\ \A s \in Sessions : LogOk(Of(s))
    /\ \A s \in Sessions : s \notin raced => Safe(Of(s), Feed!Fresh(s, TRUE), Pending(s))
    /\ ui.on \notin raced => Safe(Of(ui.on), ui, Pending(ui.on)) /\ Full(Of(ui.on), ui, Pending(ui.on))
    /\ \A s \in Sessions : Served(s) /\ s \notin raced =>
         Full(Of(s), Feed!Fresh(s, TRUE), Pending(s))

FeedInv == FeedShape /\ Switching /\ ScreenInv

-----------------------------------------------------------------------------
(* Counting up, and what a switch replays                                  *)

\* Induction, for a set of numbers.
LEMMA FeedCounts ==
    ASSUME NEW Q, 0 \in Q, \A n \in Nat : n \in Q => n + 1 \in Q
    PROVE  \A n \in Nat : n \in Q
  <1> DEFINE Less == {r \in Nat \X Nat : r[1] < r[2]}
             T == {n \in Nat : n \notin Q}
  <1>1. Less = OpToRel(<, Nat)
    BY DEF OpToRel
  <1>2. IsWellFoundedOn(Less, Nat)
    BY <1>1, NatLessThanWellFounded
  <1>3. SUFFICES ASSUME T # {} PROVE FALSE
    OBVIOUS
  <1>4. PICK n \in T : \A m \in T : <<m, n>> \notin Less
    BY <1>2, <1>3, WFMin
  <1>5. n # 0 /\ n - 1 \in Nat /\ n = (n - 1) + 1
    BY <1>4
  <1>6. n - 1 \in T
    BY <1>4, <1>5
  <1>7. <<n - 1, n>> \in Less
    BY <1>4, <1>5
  <1>8. QED
    BY <1>4, <1>6, <1>7

\* g folds the first n notifications of b into u, one after the other.
FoldsTo(g, u, b, n) == g = [i \in 0..n |-> IF i = 0 THEN u ELSE Feed!Fold(g[i - 1], b[i])]

\* There is a function that folds what was held back, one notification after the other.
LEMMA FoldsExist ==
    ASSUME NEW u, NEW b
    PROVE  \A n \in Nat : \E g : FoldsTo(g, u, b, n)
  <1> DEFINE Eq(g, n) == FoldsTo(g, u, b, n)
             Q == {n \in Nat : \E g : Eq(g, n)}
  <1>1. 0 \in Q
    <2> DEFINE g == [i \in 0..0 |-> u]
    <2>1. g = [i \in 0..0 |-> IF i = 0 THEN u ELSE Feed!Fold(g[i - 1], b[i])]
      OBVIOUS
    <2>2. Eq(g, 0)
      BY <2>1 DEF FoldsTo
    <2> HIDE DEF g
    <2>3. QED
      BY <2>2
  <1>2. ASSUME NEW n \in Nat, n \in Q PROVE n + 1 \in Q
    <2>1. PICK g : Eq(g, n)
      BY <1>2
    <2> DEFINE h == [i \in 0..n + 1 |-> IF i = n + 1 THEN Feed!Fold(g[n], b[n + 1]) ELSE g[i]]
    <2>2. ASSUME NEW i \in 0..n + 1 PROVE h[i] = IF i = 0 THEN u ELSE Feed!Fold(h[i - 1], b[i])
      <3>1. CASE i = n + 1
        <4>1. h[i] = Feed!Fold(g[n], b[n + 1]) /\ h[i - 1] = g[n] /\ i # 0
          BY <3>1
        <4>2. QED
          BY <3>1, <4>1
      <3>2. CASE i = 0
        BY <2>1, <3>2 DEF FoldsTo
      <3>3. CASE i \in 1..n
        <4>1. h[i] = g[i] /\ h[i - 1] = g[i - 1] /\ g[i] = Feed!Fold(g[i - 1], b[i]) /\ i # 0
          BY <2>1, <3>3 DEF FoldsTo
        <4>2. QED
          BY <4>1
      <3>4. QED
        BY <3>1, <3>2, <3>3
    <2>3. Eq(h, n + 1)
      BY <2>2 DEF FoldsTo
    <2> HIDE DEF h
    <2>4. QED
      BY <2>3
  <1> HIDE DEF Q
  <1>4. \A n \in Nat : n \in Q
    BY <1>1, <1>2, FeedCounts
  <1>5. QED
    BY <1>4 DEF Q

\* The mirrors a replay goes through.
LEMMA ReplayIs ==
    ASSUME NEW u, Len(sw.buffer) \in Nat
    PROVE  \E g : /\ g[0] = u
                  /\ \A i \in 1..Len(sw.buffer) : g[i] = Feed!Fold(g[i - 1], sw.buffer[i])
                  /\ Feed!Replayed(u) = g[Len(sw.buffer)]
  <1> DEFINE n == Len(sw.buffer)
             Eq(g) == FoldsTo(g, u, sw.buffer, n)
             c == CHOOSE g : Eq(g)
  <1>1. \E g : Eq(g)
    BY FoldsExist
  <1>2. Eq(c)
    BY <1>1
  <1>3. Feed!Replayed(u) = c[n]
    BY DEF Feed!Replayed, FoldsTo
  <1>4. c[0] = u /\ \A i \in 1..n : c[i] = Feed!Fold(c[i - 1], sw.buffer[i])
    <2>1. n \in Nat
      OBVIOUS
    <2> HIDE DEF n, c
    <2>2. c = [i \in 0..n |-> IF i = 0 THEN u ELSE Feed!Fold(c[i - 1], sw.buffer[i])]
      BY <1>2 DEF FoldsTo
    <2>3. \A i \in 0..n : c[i] = IF i = 0 THEN u ELSE Feed!Fold(c[i - 1], sw.buffer[i])
      BY <2>2
    <2>4. QED
      BY <2>1, <2>3
  <1> HIDE DEF c
  <1>5. QED
    BY <1>3, <1>4

\* A connection has one subscription to a session or none.
LEMMA CopiesAre ==
    ASSUME NEW s, NEW ns, subs[s] \in {0, 1}
    PROVE  Feed!Copies(s, ns) = IF subs[s] = 1 THEN ns ELSE <<>>
  <1> DEFINE one == [j \in 1..subs[s] |-> ns]
  <1>1. CASE subs[s] = 0
    <2>1. one = <<>> /\ Len(one) = 0
      BY <1>1
    <2>2. QED
      BY <1>1, <2>1 DEF Feed!Copies, Feed!FlattenSeq
  <1>2. CASE subs[s] = 1
    <2> DEFINE Eq(f) == f = [i \in 1..Len(one) |-> IF i = 1 THEN one[i] ELSE f[i - 1] \o one[i]]
               g == [i \in 1..1 |-> ns]
               c == CHOOSE f : Eq(f)
    <2>1. one = <<ns>> /\ Len(one) = 1 /\ one[1] = ns
      BY <1>2
    <2>2. Eq(g)
      BY <2>1
    <2>3. Eq(c)
      <3> HIDE DEF g, Eq
      <3>1. QED
        BY <2>2
    <2>4. c[1] = ns
      <3> HIDE DEF one, c
      <3>1. c = [i \in 1..Len(one) |-> IF i = 1 THEN one[i] ELSE c[i - 1] \o one[i]]
        BY <2>3
      <3>2. QED
        BY <2>1, <3>1
    <2>5. Feed!Copies(s, ns) = c[1]
      <3>1. Feed!Copies(s, ns) = Feed!FlattenSeq(one)
        BY DEF Feed!Copies
      <3>2. Feed!FlattenSeq(one) = c[Len(one)]
        <4> HIDE DEF one
        <4>1. QED
          BY <2>1 DEF Feed!FlattenSeq
      <3>3. QED
        BY <2>1, <3>1, <3>2
    <2>6. QED
      BY <1>2, <2>4, <2>5
  <1>3. QED
    BY <1>1, <1>2

-----------------------------------------------------------------------------
(* What a notification does to a mirror                                    *)

\* A notification of another session leaves the mirror as it is.
LEMMA FoldOther ==
    ASSUME NEW u, NEW n, n.s # u.on
    PROVE  Feed!Fold(u, n) = u
  BY DEF Feed!Fold

\* An entry that is shown already, or that comes while the head is awaited.
LEMMA FoldOld ==
    ASSUME NEW u \in Mirrors, NEW n \in FeedNotes, n.s = u.on, n.t = "entry", n.k # "head",
           u.await \/ n.i \in Feed!Seen(u)
    PROVE  Feed!Fold(u, n) = u
  BY DEF Feed!Fold, Feed!FoldEntry, FeedNotes, Mirrors

\* A new entry joins the mirror, and a decision takes its questions away.
LEMMA FoldNew ==
    ASSUME NEW u \in Mirrors, NEW n \in FeedNotes, n.s = u.on, n.t = "entry",
           n.k = "head" \/ ~u.await, n.i \notin Feed!Seen(u)
    PROVE  Feed!Fold(u, n) =
             [u EXCEPT !.await = FALSE, !.shown = Append(@, n.i),
                       !.prompts = IF n.k = "decided" THEN {} ELSE @,
                       !.asked = IF n.k = "decided" THEN {} ELSE @]
  BY ZenonT(60) DEF Feed!Fold, Feed!FoldEntry, FeedNotes, Mirrors, Feed!Seen, Feed!ToSet

\* A head that was seen before.
LEMMA FoldHead ==
    ASSUME NEW u \in Mirrors, NEW n \in FeedNotes, n.s = u.on, n.t = "entry", n.k = "head",
           n.i \in Feed!Seen(u)
    PROVE  Feed!Fold(u, n) = [u EXCEPT !.await = FALSE]
  BY DEF Feed!Fold, Feed!FoldEntry, FeedNotes, Mirrors, Feed!Seen, Feed!ToSet

\* A question replaces the one shown.
LEMMA FoldAsk ==
    ASSUME NEW u \in Mirrors, NEW n \in FeedNotes, n.s = u.on, n.t = "ask"
    PROVE  Feed!Fold(u, n) = [u EXCEPT !.prompts = {n.i}]
  BY DEF Feed!Fold, FeedNotes, Mirrors

\* A turn that runs is shown running.
LEMMA FoldRun ==
    ASSUME NEW u \in Mirrors, NEW n \in FeedNotes, n.s = u.on, n.t = "state", n.k = "run"
    PROVE  Feed!Fold(u, n) = [u EXCEPT !.running = TRUE, !.turn = n.i]
  BY DEF Feed!Fold, Feed!FoldState, FeedNotes, Mirrors

\* A turn that ends takes its questions away and sends the first message queued.
LEMMA FoldRest ==
    ASSUME NEW u \in Mirrors, NEW n \in FeedNotes, n.s = u.on, n.t = "state", n.k # "run"
    PROVE  LET v == [u EXCEPT !.running = FALSE, !.turn = n.i, !.prompts = {}, !.asked = {}]
           IN  Feed!Fold(u, n) =
                 IF u.queue = <<>> THEN v
                 ELSE [v EXCEPT !.queue = Tail(@),
                         !.send = @ \cup {Feed!Req("submit", v.on, Head(v.queue).i,
                           Head(v.queue).home)}]
  BY DEF Feed!Fold, Feed!FoldState, FeedNotes, Mirrors

\* The mirror stays one of its session, with its own messages queued.
LEMMA FoldHomely ==
    ASSUME NEW u, Homely(u), NEW n \in FeedNotes
    PROVE  Homely(Feed!Fold(u, n)) /\ Feed!Fold(u, n).on = u.on
  <1> DEFINE v == Feed!Fold(u, n)
  <1>0. u \in Mirrors /\ n.i \in Nat /\ n.s \in Sessions /\ n.t \in {"entry", "state", "ask"}
    BY DEF Homely, FeedNotes
  <1>1. CASE n.s # u.on
    BY <1>1, FoldOther
  <1>2. CASE n.s = u.on /\ n.t = "entry"
    <2>1. CASE n.k # "head" /\ (u.await \/ n.i \in Feed!Seen(u))
      BY <1>0, <1>2, <2>1, FoldOld
    <2>2. CASE n.k = "head" /\ n.i \in Feed!Seen(u)
      <3>1. v = [u EXCEPT !.await = FALSE]
        BY <1>0, <1>2, <2>2, FoldHead
      <3>2. QED
        BY <1>0, <3>1 DEF Homely, Mirrors
    <2>3. CASE (n.k = "head" \/ ~u.await) /\ n.i \notin Feed!Seen(u)
      <3>1. v = [u EXCEPT !.await = FALSE, !.shown = Append(@, n.i),
                          !.prompts = IF n.k = "decided" THEN {} ELSE @,
                          !.asked = IF n.k = "decided" THEN {} ELSE @]
        BY <1>0, <1>2, <2>3, FoldNew
      <3>2. Append(u.shown, n.i) \in Seq(Nat)
        BY <1>0 DEF Mirrors
      <3>3. QED
        BY ZenonT(60), <1>0, <3>1, <3>2 DEF Homely, Mirrors
    <2>4. QED
      BY <2>1, <2>2, <2>3
  <1>3. CASE n.s = u.on /\ n.t = "ask"
    <2>1. v = [u EXCEPT !.prompts = {n.i}]
      BY <1>0, <1>3, FoldAsk
    <2>2. n.i \in Nat /\ {n.i} \in SUBSET Nat
      BY <1>0
    <2> HIDE DEF v
    <2>3. v \in Mirrors
      BY <1>0, <2>1, <2>2 DEF Mirrors
    <2>4. v.queue = u.queue /\ v.send = u.send /\ v.on = u.on
      BY <1>0, <2>1 DEF Mirrors
    <2>5. QED
      BY <2>3, <2>4 DEF Homely, v
  <1>4. CASE n.s = u.on /\ n.t = "state" /\ n.k = "run"
    <2>1. v = [u EXCEPT !.running = TRUE, !.turn = n.i]
      BY <1>0, <1>4, FoldRun
    <2> HIDE DEF v
    <2>2. v \in Mirrors
      BY <1>0, <2>1 DEF Mirrors
    <2>3. v.queue = u.queue /\ v.send = u.send /\ v.on = u.on
      BY <1>0, <2>1 DEF Mirrors
    <2>4. QED
      BY <2>2, <2>3 DEF Homely, v
  <1>5. CASE n.s = u.on /\ n.t = "state" /\ n.k # "run"
    <2> DEFINE w == [u EXCEPT !.running = FALSE, !.turn = n.i, !.prompts = {}, !.asked = {}]
    <2>1. v = IF u.queue = <<>> THEN w
              ELSE [w EXCEPT !.queue = Tail(@),
                      !.send = @ \cup {Feed!Req("submit", w.on, Head(w.queue).i,
                        Head(w.queue).home)}]
      BY <1>0, <1>5, FoldRest
    <2>2. Homely(w) /\ w.on = u.on /\ w.queue = u.queue /\ w.send = u.send /\ w \in Mirrors
      BY <1>0 DEF Homely, Mirrors
    <2>3. CASE u.queue = <<>>
      BY <2>1, <2>2, <2>3
    <2>4. CASE u.queue # <<>>
      <3> DEFINE h == Head(u.queue)
                 q == Feed!Req("submit", u.on, h.i, h.home)
      <3>1. u.queue \in Seq([i : Nat, home : Sessions])
        BY <1>0 DEF Mirrors
      <3>2. h = u.queue[1] /\ 1 \in DOMAIN u.queue /\ h \in [i : Nat, home : Sessions]
        <4>1. h = u.queue[1] /\ 1 \in DOMAIN u.queue
          BY <2>4, <3>1
        <4>2. u.queue[1] \in [i : Nat, home : Sessions]
          <5> DEFINE S == [i : Nat, home : Sessions]
          <5>1. u.queue \in Seq(S) /\ 1 \in 1..Len(u.queue)
            BY <3>1, <4>1
          <5> HIDE DEF S
          <5>2. u.queue[1] \in S
            BY <5>1, ElementOfSeq
          <5>3. QED
            BY <5>2 DEF S
        <4>3. QED
          BY <4>1, <4>2
      <3>3. h.home = u.on
        BY <3>2 DEF Homely
      <3>4. Tail(u.queue) \in Seq([i : Nat, home : Sessions])
        BY <2>4, <3>1
      <3>5. \A j \in DOMAIN Tail(u.queue) : Tail(u.queue)[j].home = u.on
        <4>1. ASSUME NEW j \in DOMAIN Tail(u.queue) PROVE Tail(u.queue)[j].home = u.on
          <5>1. Tail(u.queue)[j] = u.queue[j + 1] /\ j + 1 \in DOMAIN u.queue
            BY <2>4, <3>1
          <5>2. QED
            BY <5>1 DEF Homely
        <4>2. QED
          BY <4>1
      <3>6. u.on \in Sessions
        BY <1>0 DEF Mirrors
      <3>7. q \in FeedReqs /\ q.m = "submit" /\ q.s = u.on /\ q.home = u.on
        BY <3>2, <3>3, <3>6 DEF Feed!Req, FeedReqs
      <3>8. v = [w EXCEPT !.queue = Tail(u.queue), !.send = u.send \cup {q}]
        BY <2>1, <2>2, <2>4
      <3> HIDE DEF q, w, h, v
      <3>9. v \in Mirrors /\ v.queue = Tail(u.queue) /\ v.send = u.send \cup {q} /\ v.on = u.on
        <4>1. u.send \cup {q} \in SUBSET FeedReqs
          BY <1>0, <3>7 DEF Mirrors
        <4>2. v \in Mirrors
          BY <2>2, <3>4, <3>8, <4>1 DEF Mirrors
        <4>3. v.queue = Tail(u.queue) /\ v.send = u.send \cup {q} /\ v.on = w.on
          BY <2>2, <3>8 DEF Mirrors
        <4>4. QED
          BY <2>2, <4>2, <4>3
      <3>10. QED
        BY <3>5, <3>7, <3>9 DEF Homely, v
    <2>5. QED
      BY <2>3, <2>4
  <1>6. QED
    BY <1>0, <1>1, <1>2, <1>3, <1>4, <1>5

\* A replay puts nothing in the queue that was typed elsewhere.
LEMMA ReplayHomely ==
    ASSUME NEW u, Homely(u), sw.buffer \in Seq(FeedNotes)
    PROVE  Homely(Feed!Replayed(u)) /\ Feed!Replayed(u).on = u.on
  <1>1. Len(sw.buffer) \in Nat
    OBVIOUS
  <1>2. PICK g : /\ g[0] = u
                 /\ \A i \in 1..Len(sw.buffer) : g[i] = Feed!Fold(g[i - 1], sw.buffer[i])
                 /\ Feed!Replayed(u) = g[Len(sw.buffer)]
    BY <1>1, ReplayIs
  <1> DEFINE Q == {i \in Nat : i <= Len(sw.buffer) => Homely(g[i]) /\ g[i].on = u.on}
  <1>3. 0 \in Q
    BY <1>2
  <1>4. ASSUME NEW i \in Nat, i \in Q PROVE i + 1 \in Q
    <2>1. SUFFICES ASSUME i + 1 <= Len(sw.buffer) PROVE Homely(g[i + 1]) /\ g[i + 1].on = u.on
      OBVIOUS
    <2>2. g[i + 1] = Feed!Fold(g[i], sw.buffer[i + 1]) /\ sw.buffer[i + 1] \in FeedNotes
      BY <1>1, <1>2, <2>1
    <2>3. Homely(g[i]) /\ g[i].on = u.on
      BY <1>1, <1>4, <2>1
    <2>4. QED
      BY <2>2, <2>3, FoldHomely
  <1> HIDE DEF Q
  <1>5. \A i \in Nat : i \in Q
    BY <1>3, <1>4, FeedCounts
  <1>6. QED
    BY <1>1, <1>2, <1>5 DEF Q

-----------------------------------------------------------------------------
(* The types are kept                                                      *)

\* The notifications of entries number them on from the end of the log.
LEMMA EntriesShape ==
    ASSUME FeedShape, NEW s \in Sessions, NEW ks \in Seq(FeedKinds)
    PROVE  /\ Feed!Entries(s, ks) \in Seq(FeedNotes)
           /\ Len(Feed!Entries(s, ks)) = Len(ks)
           /\ \A j \in 1..Len(ks) : Feed!Entries(s, ks)[j] = Feed!EntryNote(s, Len(log[s]) + j,
                ks[j])
  <1>1. Len(log[s]) \in Nat /\ Len(ks) \in Nat
    BY DEF FeedShape
  <1>2. \A j \in 1..Len(ks) : Feed!EntryNote(s, Len(log[s]) + j, ks[j]) \in FeedNotes
    BY <1>1 DEF Feed!EntryNote, FeedNotes, NoteKinds
  <1>3. Feed!Entries(s, ks) = [j \in 1..Len(ks) |-> Feed!EntryNote(s, Len(log[s]) + j, ks[j])]
    BY DEF Feed!Entries
  <1>4. QED
    BY <1>1, <1>2, <1>3

\* A state and a question are notifications.
LEMMA StateShape ==
    ASSUME NEW s \in Sessions, NEW i \in Nat, NEW b \in BOOLEAN
    PROVE  /\ Feed!StateNote(s, i, b) \in FeedNotes /\ Feed!AskNote(s, i) \in FeedNotes
           /\ <<Feed!StateNote(s, i, b)>> \in Seq(FeedNotes)
                /\ <<Feed!AskNote(s, i)>> \in Seq(FeedNotes)
  <1>1. Feed!StateNote(s, i, b) \in FeedNotes /\ Feed!AskNote(s, i) \in FeedNotes
    BY DEF Feed!StateNote, Feed!AskNote, FeedNotes, NoteKinds
  <1>2. \A x \in FeedNotes : <<x>> \in Seq(FeedNotes)
    OBVIOUS
  <1>3. QED
    BY <1>1, <1>2

\* What an attach sends are notifications.
LEMMA AttachmentShape ==
    ASSUME FeedShape, NEW s \in Sessions
    PROVE  Feed!Attachment(s) \in Seq(FeedNotes)
  <1> DEFINE a == [j \in 1..Len(log[s]) |-> Feed!EntryNote(s, j, log[s][j])]
             b == IF run[s] = 0 THEN <<>> ELSE <<Feed!StateNote(s, run[s], TRUE)>>
             c == IF stands[s] = {} THEN <<>> ELSE <<Feed!AskNote(s, run[s])>>
  <1>1. log[s] \in Seq(FeedKinds) /\ run[s] \in Nat
    BY DEF FeedShape
  <1>2. \A j \in 1..Len(log[s]) : Feed!EntryNote(s, j, log[s][j]) \in FeedNotes
    BY <1>1 DEF Feed!EntryNote, FeedNotes, NoteKinds
  <1>3. a \in Seq(FeedNotes)
    BY <1>1, <1>2
  <1>4. b \in Seq(FeedNotes) /\ c \in Seq(FeedNotes)
    <2>1. <<>> \in Seq(FeedNotes)
      OBVIOUS
    <2>2. <<Feed!StateNote(s, run[s], TRUE)>> \in Seq(FeedNotes)
      BY <1>1, StateShape
    <2>3. <<Feed!AskNote(s, run[s])>> \in Seq(FeedNotes)
      BY <1>1, StateShape
    <2>4. QED
      BY <2>1, <2>2, <2>3
  <1>5. Feed!Attachment(s) = a \o b \o c
    BY DEF Feed!Attachment
  <1> HIDE DEF a, b, c
  <1>6. QED
    BY <1>3, <1>4, <1>5

\* A log that grows is a log.
LEMMA GrowShape ==
    ASSUME FeedShape, NEW s \in Sessions, NEW ks \in Seq(FeedKinds)
    PROVE  Feed!Grow(s, ks) \in [Sessions -> Seq(FeedKinds)]
  BY DEF FeedShape, Feed!Grow

\* A client that subscribed is sent all of it, another one nothing.
LEMMA CopiesShape ==
    ASSUME FeedShape, NEW s \in Sessions, NEW ns \in Seq(FeedNotes)
    PROVE  /\ notes \o Feed!Copies(s, ns) \in Seq(FeedNotes)
           /\ notes \o Feed!Copies(s, ns) = IF subs[s] = 1 THEN notes \o ns ELSE notes
  <1>1. subs[s] \in {0, 1} /\ notes \in Seq(FeedNotes)
    BY DEF FeedShape
  <1>2. Feed!Copies(s, ns) = IF subs[s] = 1 THEN ns ELSE <<>>
    BY <1>1, CopiesAre
  <1>3. QED
    BY <1>1, <1>2

\* One entry of each kind is a sequence of entries.
LEMMA KindsShape ==
    /\ <<"note">> \in Seq(FeedKinds) /\ <<"user">> \in Seq(FeedKinds)
         /\ <<"decided">> \in Seq(FeedKinds)
    /\ <<"head">> \in Seq(FeedKinds) /\ <<>> \in Seq(FeedKinds)
  BY DEF FeedKinds

\* A turn that begins keeps the types of what it changes.
LEMMA BeginShape ==
    ASSUME FeedShape, NEW s \in Sessions, Feed!BeginTurn(s)
    PROVE  /\ log' \in [Sessions -> Seq(FeedKinds)] /\ run' \in [Sessions -> Nat]
           /\ notes' \in Seq(FeedNotes)
  <1>1. log' = Feed!Grow(s, <<"user">>) /\ run' = [run EXCEPT ![s] = Len(log[s]) + 1]
    BY DEF Feed!BeginTurn
  <1>2. Len(log[s]) + 1 \in Nat
    BY DEF FeedShape
  <1>3. run' \in [Sessions -> Nat]
    BY <1>1, <1>2 DEF FeedShape
  <1>4. log' \in [Sessions -> Seq(FeedKinds)]
    BY <1>1, KindsShape, GrowShape
  <1> DEFINE a == Feed!Entries(s, <<"user">>)
             b == <<Feed!StateNote(s, Len(log[s]) + 1, TRUE)>>
  <1>5. a \in Seq(FeedNotes)
    BY KindsShape, EntriesShape
  <1>6. b \in Seq(FeedNotes)
    BY <1>2, StateShape
  <1>7. notes' = notes \o Feed!Copies(s, a \o b)
    BY DEF Feed!BeginTurn
  <1> HIDE DEF a, b
  <1>8. a \o b \in Seq(FeedNotes)
    BY <1>5, <1>6
  <1>9. notes' \in Seq(FeedNotes)
    BY <1>7, <1>8, CopiesShape
  <1>10. QED
    BY <1>3, <1>4, <1>9

\* A decision keeps the types of what it changes.
LEMMA DecidedShape ==
    ASSUME FeedShape, NEW s \in Sessions, Feed!Decided(s)
    PROVE  /\ log' \in [Sessions -> Seq(FeedKinds)] /\ stands' \in [Sessions -> SUBSET Nat]
           /\ notes \o Feed!Copies(s, Feed!Entries(s, <<"decided">>)) \in Seq(FeedNotes)
  <1>1. log' = Feed!Grow(s, <<"decided">>) /\ stands' = [stands EXCEPT ![s] = {}]
    BY DEF Feed!Decided
  <1>2. log' \in [Sessions -> Seq(FeedKinds)]
    BY <1>1, KindsShape, GrowShape
  <1>3. stands' \in [Sessions -> SUBSET Nat]
    BY <1>1 DEF FeedShape
  <1>4. Feed!Entries(s, <<"decided">>) \in Seq(FeedNotes)
    BY KindsShape, EntriesShape
  <1>5. QED
    BY <1>2, <1>3, <1>4, CopiesShape

\* What sessions do of themselves keeps the types.
LEMMA MovesShape ==
    ASSUME FeedShape, NEW s \in Sessions,
           \/ Feed!AppendNote(s) \/ Feed!StartTurn(s) \/ Feed!Ask(s) \/ Feed!Decide(s)
                \/ Feed!EndTurn(s)
    PROVE  FeedShape'
  <1>1. CASE Feed!AppendNote(s)
    <2>1. log' \in [Sessions -> Seq(FeedKinds)]
      BY <1>1, KindsShape, GrowShape DEF Feed!AppendNote
    <2>2. Feed!Entries(s, <<"note">>) \in Seq(FeedNotes)
      BY KindsShape, EntriesShape
    <2>3. notes' \in Seq(FeedNotes)
      BY <1>1, <2>2, CopiesShape DEF Feed!AppendNote
    <2>4. UNCHANGED <<run, stands, subs, deliver, reqs, answers, ui, sw, typed, switches, known>>
      BY <1>1 DEF Feed!AppendNote, Feed!client
    <2>5. QED
      BY <2>1, <2>3, <2>4 DEF FeedShape
  <1>2. CASE Feed!StartTurn(s)
    <2>1. Feed!BeginTurn(s) /\ UNCHANGED <<stands, subs, deliver, reqs, answers, ui, sw, typed,
            switches, known>>
      BY <1>2 DEF Feed!StartTurn, Feed!client
    <2>2. QED
      BY <2>1, BeginShape DEF FeedShape
  <1>3. CASE Feed!Ask(s)
    <2>1. run[s] \in Nat
      BY DEF FeedShape
    <2>2. stands' \in [Sessions -> SUBSET Nat]
      BY <1>3, <2>1 DEF FeedShape, Feed!Ask
    <2>3. <<Feed!AskNote(s, run[s])>> \in Seq(FeedNotes)
      BY <2>1, StateShape
    <2>4. notes' \in Seq(FeedNotes)
      BY <1>3, <2>3, CopiesShape DEF Feed!Ask
    <2>5. UNCHANGED <<log, run, subs, deliver, reqs, answers, ui, sw, typed, switches, known>>
      BY <1>3 DEF Feed!Ask, Feed!client
    <2>6. QED
      BY <2>2, <2>4, <2>5 DEF FeedShape
  <1>4. CASE Feed!Decide(s)
    <2>1. Feed!Decided(s) /\ UNCHANGED <<run, subs, deliver, reqs, answers, ui, sw, typed, switches,
            known>>
      BY <1>4 DEF Feed!Decide, Feed!client
    <2>2. notes' = notes \o Feed!Copies(s, Feed!Entries(s, <<"decided">>))
      BY <1>4 DEF Feed!Decide
    <2>3. QED
      BY <2>1, <2>2, DecidedShape DEF FeedShape
  <1>5. CASE Feed!EndTurn(s)
    <2> DEFINE ks == IF stands[s] = {} THEN <<>> ELSE <<"decided">>
    <2>1. ks \in Seq(FeedKinds)
      BY KindsShape
    <2>2. log' = Feed!Grow(s, ks)
      BY <1>5 DEF Feed!EndTurn
    <2>3. log' \in [Sessions -> Seq(FeedKinds)]
      BY <2>1, <2>2, GrowShape
    <2>4. run[s] \in Nat
      BY DEF FeedShape
    <2> DEFINE a == Feed!Entries(s, ks)
               b == <<Feed!StateNote(s, run[s], FALSE)>>
    <2>5. a \in Seq(FeedNotes) /\ b \in Seq(FeedNotes)
      BY <2>1, <2>4, EntriesShape, StateShape
    <2>6. notes' = notes \o Feed!Copies(s, a \o b)
      BY <1>5 DEF Feed!EndTurn
    <2> HIDE DEF a, b
    <2>7. a \o b \in Seq(FeedNotes)
      BY <2>5
    <2>8. notes' \in Seq(FeedNotes)
      BY <2>6, <2>7, CopiesShape
    <2>9. stands' \in [Sessions -> SUBSET Nat] /\ run' \in [Sessions -> Nat]
      BY <1>5 DEF FeedShape, Feed!EndTurn
    <2>10. UNCHANGED <<subs, deliver, reqs, answers, ui, sw, typed, switches, known>>
      BY <1>5 DEF Feed!EndTurn, Feed!client
    <2>11. QED
      BY <2>3, <2>8, <2>9, <2>10 DEF FeedShape
  <1>6. QED
    BY <1>1, <1>2, <1>3, <1>4, <1>5

\* Sessions are numbers.
LEMMA SessionNumbers == \A s \in Sessions : s \in Nat
  <1>1. PICK n : Sessions = 1..n
    BY FeedAssumption
  <1>2. \A s \in 1..n : s \in Int /\ 1 <= s
    OBVIOUS
  <1>3. QED
    BY <1>1, <1>2

\* An answer to a request is an answer.
LEMMA AnswerShape ==
    ASSUME NEW q \in FeedReqs, NEW ok \in BOOLEAN, NEW r \in Nat
    PROVE  Feed!Ans(q, ok, r) \in FeedAnswers /\ Feed!Ans(q, ok, r).q = q
           /\ Feed!Ans(q, ok, r).ok = ok /\ Feed!Ans(q, ok, r).r = r
  BY DEF Feed!Ans, FeedAnswers

\* An answer that opens nothing joins the answers.
LEMMA AnswersShape ==
    ASSUME NEW A \in SUBSET FeedAnswers, \A a \in A : Names(a), NEW q \in FeedReqs, NEW r \in Nat,
           NEW ok \in BOOLEAN, q.m \in {"submit", "answer"} \/ (q.m = "resume" /\ ~ok)
    PROVE  A \cup {Feed!Ans(q, ok, r)} \in SUBSET FeedAnswers
             /\ \A a \in A \cup {Feed!Ans(q, ok, r)} : Names(a)
  <1>1. Feed!Ans(q, ok, r) \in FeedAnswers
    BY AnswerShape
  <1>2. Names(Feed!Ans(q, ok, r))
    BY DEF Names, Feed!Ans
  <1>3. QED
    BY <1>1, <1>2

\* What an attach leaves to be delivered has its type.
LEMMA DeliverShape ==
    ASSUME NEW s \in Sessions, NEW left \in Seq(FeedNotes), NEW ans \in FeedAnswers
    PROVE  [on |-> TRUE, s |-> s, left |-> left, ans |-> ans]
             \in [on : BOOLEAN, s : Sessions \cup {0}, left : Seq(FeedNotes),
               ans : FeedAnswers \cup {<<>>}]
  OBVIOUS

\* Serving a request keeps the types.
LEMMA ServesShape ==
    ASSUME FeedShape, NEW q \in reqs,
           \/ Feed!ServeSubmit(q) \/ Feed!ServeAnswer(q) \/ Feed!ServeClose(q)
                \/ Feed!ServeResume(q)
           \/ \E s \in Sessions : Feed!ServeFork(q, s)
    PROVE  FeedShape'
  <1>0. /\ q \in FeedReqs /\ q.s \in Sessions /\ q.i \in Nat
        /\ Len(log[q.s]) + 1 \in Nat /\ q.s \in Nat
        /\ reqs \in SUBSET FeedReqs /\ answers \in SUBSET FeedAnswers /\ \A a \in answers : Names(a)
    <2>1. q \in FeedReqs /\ reqs \in SUBSET FeedReqs /\ answers \in SUBSET FeedAnswers
            /\ \A a \in answers : Names(a)
      BY DEF FeedShape
    <2>2. q.s \in Sessions /\ q.i \in Nat
      BY <2>1 DEF FeedReqs
    <2>3. Len(log[q.s]) + 1 \in Nat
      BY <2>2 DEF FeedShape
    <2>4. QED
      BY <2>1, <2>2, <2>3, SessionNumbers
  <1>9. /\ Feed!ServeSubmit(q) \/ Feed!ServeAnswer(q) => q.m \in {"submit", "answer"}
        /\ Feed!ServeResume(q) => q.m = "resume"
    BY DEF Feed!ServeSubmit, Feed!ServeAnswer, Feed!ServeResume
  <1>1. CASE Feed!ServeSubmit(q)
    <2>1. reqs' = reqs \ {q} /\ UNCHANGED <<stands, subs, deliver, ui, sw, typed, switches,
            known>>
      BY <1>1 DEF Feed!ServeSubmit, Feed!Serve, Feed!client
    <2>2. CASE run[q.s] = 0 /\ Feed!Room(q.s)
      <3>1. Feed!BeginTurn(q.s) /\ answers' = answers \cup {Feed!Ans(q, TRUE, Len(log[q.s]) + 1)}
        BY <1>1, <2>2 DEF Feed!ServeSubmit
      <3>2. answers' \in SUBSET FeedAnswers /\ \A a \in answers' : Names(a)
        <4> DEFINE r == Len(log[q.s]) + 1
        <4>1. r \in Nat /\ answers' = answers \cup {Feed!Ans(q, TRUE, r)}
          BY <1>0, <3>1
        <4> HIDE DEF r
        <4>2. q.m \in {"submit", "answer"} \/ (q.m = "resume" /\ ~TRUE)
          BY <1>9, <1>1
        <4>3. QED
          BY <1>0, <4>1, <4>2, AnswersShape
      <3>3. log' \in [Sessions -> Seq(FeedKinds)] /\ run' \in [Sessions -> Nat]
              /\ notes' \in Seq(FeedNotes)
        BY <1>0, <3>1, BeginShape
      <3>4. QED
        BY <2>1, <3>2, <3>3 DEF FeedShape
    <2>3. CASE ~(run[q.s] = 0 /\ Feed!Room(q.s))
      <3>1. answers' = answers \cup {Feed!Ans(q, FALSE, 0)} /\ UNCHANGED <<log, run, notes>>
        BY <1>1, <2>3 DEF Feed!ServeSubmit
      <3>2. answers' \in SUBSET FeedAnswers /\ \A a \in answers' : Names(a)
        <4> DEFINE r == 0
        <4>1. r \in Nat /\ answers' = answers \cup {Feed!Ans(q, FALSE, r)}
          BY <1>0, <3>1
        <4> HIDE DEF r
        <4>2. q.m \in {"submit", "answer"} \/ (q.m = "resume" /\ ~FALSE)
          BY <1>9, <1>1
        <4>3. QED
          BY <1>0, <4>1, <4>2, AnswersShape
      <3>3. QED
        BY <2>1, <3>1, <3>2 DEF FeedShape
    <2>4. QED
      BY <2>2, <2>3
  <1>2. CASE Feed!ServeAnswer(q)
    <2>1. reqs' = reqs \ {q} /\ UNCHANGED <<run, subs, deliver, ui, sw, typed, switches, known>>
      BY <1>2 DEF Feed!ServeAnswer, Feed!Serve, Feed!client
    <2>2. CASE q.i \in stands[q.s]
      <3>1. /\ Feed!Decided(q.s) /\ answers' = answers \cup {Feed!Ans(q, TRUE, 0)}
            /\ notes' = notes \o Feed!Copies(q.s, Feed!Entries(q.s, <<"decided">>))
        BY <1>2, <2>2 DEF Feed!ServeAnswer
      <3>2. answers' \in SUBSET FeedAnswers /\ \A a \in answers' : Names(a)
        <4> DEFINE r == 0
        <4>1. r \in Nat /\ answers' = answers \cup {Feed!Ans(q, TRUE, r)}
          BY <1>0, <3>1
        <4> HIDE DEF r
        <4>2. q.m \in {"submit", "answer"} \/ (q.m = "resume" /\ ~TRUE)
          BY <1>9, <1>2
        <4>3. QED
          BY <1>0, <4>1, <4>2, AnswersShape
      <3>3. log' \in [Sessions -> Seq(FeedKinds)] /\ stands' \in [Sessions -> SUBSET Nat]
              /\ notes' \in Seq(FeedNotes)
        BY <1>0, <3>1, DecidedShape
      <3>4. QED
        BY <2>1, <3>2, <3>3 DEF FeedShape
    <2>3. CASE q.i \notin stands[q.s]
      <3>1. answers' = answers \cup {Feed!Ans(q, FALSE, 0)} /\ UNCHANGED <<stands, log, notes>>
        BY <1>2, <2>3 DEF Feed!ServeAnswer
      <3>2. answers' \in SUBSET FeedAnswers /\ \A a \in answers' : Names(a)
        <4> DEFINE r == 0
        <4>1. r \in Nat /\ answers' = answers \cup {Feed!Ans(q, FALSE, r)}
          BY <1>0, <3>1
        <4> HIDE DEF r
        <4>2. q.m \in {"submit", "answer"} \/ (q.m = "resume" /\ ~FALSE)
          BY <1>9, <1>2
        <4>3. QED
          BY <1>0, <4>1, <4>2, AnswersShape
      <3>3. QED
        BY <2>1, <3>1, <3>2 DEF FeedShape
    <2>4. QED
      BY <2>2, <2>3
  <1>3. CASE Feed!ServeClose(q)
    BY <1>0, <1>3 DEF Feed!ServeClose, Feed!Serve, Feed!client, FeedShape
  <1>4. CASE Feed!ServeResume(q)
    <2>1. reqs' = reqs \ {q} /\ UNCHANGED <<log, run, stands, notes, ui, sw, typed, switches,
            known>>
      BY <1>4 DEF Feed!ServeResume, Feed!Serve, Feed!client
    <2>2. CASE /\ subs' = [subs EXCEPT ![q.s] = 1] /\ UNCHANGED answers
               /\ deliver' = [on |-> TRUE, s |-> q.s, left |-> Feed!Attachment(q.s),
                    ans |-> Feed!Ans(q, TRUE, q.s)]
      <3>1. Feed!Ans(q, TRUE, q.s) \in FeedAnswers /\ Feed!Attachment(q.s) \in Seq(FeedNotes)
        BY <1>0, AnswerShape, AttachmentShape
      <3>2. deliver' \in [on : BOOLEAN, s : Sessions \cup {0}, left : Seq(FeedNotes),
              ans : FeedAnswers \cup {<<>>}]
        BY <1>0, <2>2, <3>1, DeliverShape
      <3>3. /\ deliver'.s \in Sessions /\ deliver'.ans \in FeedAnswers
            /\ deliver'.ans.ok /\ deliver'.ans.r = deliver'.s /\ deliver'.ans.q.m = "resume"
        BY <1>0, <1>4, <1>9, <2>2, <3>1 DEF Feed!Ans
      <3>4. subs' \in [Sessions -> {0, 1}]
        BY <2>2 DEF FeedShape
      <3>5. QED
        BY <2>1, <2>2, <3>2, <3>3, <3>4 DEF FeedShape
    <2>3. CASE subs' = [subs EXCEPT ![q.s] = 0] /\ answers' = answers \cup {Feed!Ans(q, FALSE, 0)}
                 /\ UNCHANGED deliver
      <3>1. answers' \in SUBSET FeedAnswers /\ \A a \in answers' : Names(a)
        <4> DEFINE r == 0
        <4>1. r \in Nat /\ answers' = answers \cup {Feed!Ans(q, FALSE, r)}
          BY <1>0, <2>3
        <4> HIDE DEF r
        <4>2. q.m \in {"submit", "answer"} \/ (q.m = "resume" /\ ~FALSE)
          BY <1>9, <1>4
        <4>3. QED
          BY <1>0, <4>1, <4>2, AnswersShape
      <3>2. subs' \in [Sessions -> {0, 1}]
        BY <2>3 DEF FeedShape
      <3>3. QED
        BY <2>1, <2>3, <3>1, <3>2 DEF FeedShape
    <2>4. QED
      BY <1>4, <2>2, <2>3 DEF Feed!ServeResume
  <1>5. ASSUME NEW s \in Sessions, Feed!ServeFork(q, s) PROVE FeedShape'
    <2>1. /\ reqs' = reqs \ {q} /\ UNCHANGED <<run, stands, notes, answers, ui, sw, typed,
               switches, known>>
          /\ log' = Feed!Grow(s, <<"head">>) /\ subs' = [subs EXCEPT ![s] = 1]
          /\ deliver' = [on |-> TRUE, s |-> s, left |-> <<Feed!EntryNote(s, 1, "head")>>,
               ans |-> Feed!Ans(q, TRUE, s)]
      BY <1>5 DEF Feed!ServeFork, Feed!Serve, Feed!client
    <2>2. log' \in [Sessions -> Seq(FeedKinds)]
      BY <2>1, KindsShape, GrowShape
    <2>3. <<Feed!EntryNote(s, 1, "head")>> \in Seq(FeedNotes)
      BY DEF Feed!EntryNote, FeedNotes, NoteKinds, FeedKinds
    <2>4. Feed!Ans(q, TRUE, s) \in FeedAnswers
      BY <1>0, SessionNumbers, AnswerShape
    <2>5. deliver' \in [on : BOOLEAN, s : Sessions \cup {0}, left : Seq(FeedNotes),
            ans : FeedAnswers \cup {<<>>}]
      BY <2>1, <2>3, <2>4, DeliverShape
    <2>6. /\ deliver'.s \in Sessions /\ deliver'.ans \in FeedAnswers
          /\ deliver'.ans.ok /\ deliver'.ans.r = deliver'.s
               /\ deliver'.ans.q.m \in {"fork", "command"}
      BY <1>5, <2>1, <2>4 DEF Feed!Ans, Feed!ServeFork
    <2>7. subs' \in [Sessions -> {0, 1}]
      BY <2>1 DEF FeedShape
    <2>8. QED
      BY <2>1, <2>2, <2>5, <2>6, <2>7 DEF FeedShape
  <1>6. QED
    BY <1>1, <1>2, <1>3, <1>4, <1>5

\* A delivery keeps the types.
LEMMA DeliverKeepsShape ==
    ASSUME FeedShape, Feed!Deliver
    PROVE  FeedShape'
  <1>1. UNCHANGED <<log, run, stands, subs, reqs, ui, sw, typed, switches, known>> /\ deliver.on
    BY DEF Feed!Deliver, Feed!server, Feed!client
  <1>2. CASE deliver.left # <<>>
    <2>1. /\ notes' = Append(notes, Head(deliver.left))
               /\ deliver' = [deliver EXCEPT !.left = Tail(@)]
          /\ answers' = answers
      BY <1>2 DEF Feed!Deliver
    <2>2. deliver.left \in Seq(FeedNotes)
      BY DEF FeedShape
    <2>3. Head(deliver.left) \in FeedNotes /\ Tail(deliver.left) \in Seq(FeedNotes)
      BY <1>2, <2>2, HeadTailProperties
    <2>4. notes' \in Seq(FeedNotes)
      BY <2>1, <2>3 DEF FeedShape
    <2>5. deliver' \in [on : BOOLEAN, s : Sessions \cup {0}, left : Seq(FeedNotes),
            ans : FeedAnswers \cup {<<>>}]
      BY <2>1, <2>3 DEF FeedShape
    <2>6. deliver'.s = deliver.s /\ deliver'.ans = deliver.ans
      BY <2>1 DEF FeedShape
    <2>7. QED
      BY <1>1, <2>1, <2>4, <2>5, <2>6 DEF FeedShape
  <1>3. CASE deliver.left = <<>>
    <2>1. answers' = answers \cup {deliver.ans} /\ deliver' = Feed!NoDeliver /\ notes' = notes
      BY <1>3 DEF Feed!Deliver
    <2>2. deliver.ans \in FeedAnswers /\ Names(deliver.ans)
      BY <1>1 DEF FeedShape, Names
    <2>3. answers' \in SUBSET FeedAnswers /\ \A a \in answers' : Names(a)
      BY <2>1, <2>2 DEF FeedShape
    <2>4. QED
      BY <1>1, <2>1, <2>3 DEF FeedShape, Feed!NoDeliver
  <1>4. QED
    BY <1>2, <1>3

\* A screen that was just opened has nothing queued.
LEMMA FreshHomely ==
    ASSUME NEW s \in Sessions
    PROVE  Homely(Feed!Fresh(s, TRUE)) /\ Feed!Fresh(s, TRUE).on = s
  BY DEF Homely, Feed!Fresh, Mirrors

\* What the screen has to send becomes requests.
LEMMA SettleShape ==
    ASSUME FeedShape, NEW u, Homely(u), NEW more \in SUBSET FeedReqs, Feed!Settle(u, more),
           \A q \in more : q.m # "submit"
    PROVE  /\ Homely(ui') /\ ui'.send = {} /\ ui'.on = u.on
           /\ reqs' \in SUBSET FeedReqs
           /\ \A q \in reqs' : q.m = "submit" => q.s = q.home
  <1>1. ui' = [u EXCEPT !.send = {}] /\ reqs' = reqs \cup u.send \cup more
    BY DEF Feed!Settle
  <1>2. u \in Mirrors /\ u.send \in SUBSET FeedReqs
    BY DEF Homely, Mirrors
  <1>3. ui' \in Mirrors /\ ui'.send = {} /\ ui'.on = u.on /\ ui'.queue = u.queue
    BY <1>1, <1>2 DEF Mirrors
  <1>4. Homely(ui')
    BY <1>3 DEF Homely
  <1>5. reqs' \in SUBSET FeedReqs
    BY <1>1, <1>2 DEF FeedShape
  <1>6. ASSUME NEW q \in reqs', q.m = "submit" PROVE q.s = q.home
    <2>1. q \in reqs \/ q \in u.send
      BY <1>1, <1>6
    <2>2. QED
      BY <1>6, <2>1 DEF FeedShape, Homely
  <1>7. QED
    BY <1>3, <1>4, <1>5, <1>6

\* A request made for the session on screen.
LEMMA ReqShape ==
    ASSUME NEW m \in {"submit", "answer", "close", "resume", "fork", "command"},
           NEW s \in Sessions, NEW i \in Nat, NEW h \in Sessions
    PROVE  Feed!Req(m, s, i, h) \in FeedReqs /\ Feed!Req(m, s, i, h).m = m
           /\ Feed!Req(m, s, i, h).s = s /\ Feed!Req(m, s, i, h).i = i
                /\ Feed!Req(m, s, i, h).home = h
  BY DEF Feed!Req, FeedReqs

\* Taking a notification keeps the types.
LEMMA TakeShape ==
    ASSUME FeedShape, Feed!Take
    PROVE  FeedShape'
  <1>1. /\ notes # <<>> /\ notes' = Tail(notes)
        /\ UNCHANGED <<log, run, stands, subs, deliver, answers, typed, switches, known>>
    BY DEF Feed!Take, Feed!server
  <1>2. notes \in Seq(FeedNotes)
    BY DEF FeedShape
  <1>3. Head(notes) \in FeedNotes /\ notes' \in Seq(FeedNotes)
    BY <1>1, <1>2, HeadTailProperties
  <1>4. CASE sw.on
    <2>1. sw' = [sw EXCEPT !.buffer = Append(@, Head(notes))] /\ UNCHANGED <<ui, reqs>>
      BY <1>4 DEF Feed!Take
    <2>2. sw' \in [on : BOOLEAN, buffer : Seq(FeedNotes)] /\ sw'.on
      <3>1. sw \in [on : BOOLEAN, buffer : Seq(FeedNotes)] /\ sw.buffer \in Seq(FeedNotes)
        BY DEF FeedShape
      <3>2. Append(sw.buffer, Head(notes)) \in Seq(FeedNotes)
        BY <1>3, <3>1
      <3>3. QED
        BY <1>4, <2>1, <3>1, <3>2
    <2>3. QED
      BY <1>1, <1>3, <2>1, <2>2 DEF FeedShape
  <1>5. CASE ~sw.on
    <2> DEFINE u == Feed!Fold(ui, Head(notes))
    <2>1. Feed!Settle(u, {}) /\ sw' = sw
      BY <1>5 DEF Feed!Take
    <2>2. Homely(u)
      BY <1>3, FoldHomely DEF FeedShape
    <2> HIDE DEF u
    <2>3. Homely(ui') /\ ui'.send = {} /\ reqs' \in SUBSET FeedReqs
            /\ \A q \in reqs' : q.m = "submit" => q.s = q.home
      BY <2>1, <2>2, SettleShape
    <2>4. QED
      BY <1>1, <1>3, <2>1, <2>3 DEF FeedShape
  <1>6. QED
    BY <1>4, <1>5

\* What a person types keeps the types.
LEMMA KeysShape ==
    ASSUME FeedShape,
           \/ Feed!Enter \/ Feed!CancelTurn \/ Feed!Switch \/ Feed!ForkCommand
           \/ \E p \in ui.prompts : Feed!AnswerKey(p)
    PROVE  FeedShape'
  <1>0. ui \in Mirrors /\ ui.on \in Sessions /\ typed + 1 \in Nat /\ ui.send = {} /\ Homely(ui)
        /\ reqs \in SUBSET FeedReqs /\ \A q \in reqs : q.m = "submit" => q.s = q.home
    BY DEF FeedShape, Homely, Mirrors
  <1>1. CASE Feed!Enter
    <2>1. typed' = typed + 1 /\ UNCHANGED <<log, run, stands, subs, deliver, notes, answers, sw,
            switches, known>>
      BY <1>1 DEF Feed!Enter, Feed!server
    <2>2. CASE ui.running
      <3> DEFINE x == [i |-> typed + 1, home |-> ui.on]
                 S == [i : Nat, home : Sessions]
      <3>1. ui' = [ui EXCEPT !.queue = Append(@, x)] /\ reqs' = reqs
        BY <1>1, <2>2 DEF Feed!Enter
      <3>2. ui.queue \in Seq(S) /\ x \in S /\ x.home = ui.on
        BY <1>0 DEF Mirrors
      <3> HIDE DEF x, S
      <3>3. Append(ui.queue, x) \in Seq(S)
        BY <3>2
      <3>4. \A j \in DOMAIN Append(ui.queue, x) : Append(ui.queue, x)[j].home = ui.on
        <4>1. ASSUME NEW j \in DOMAIN Append(ui.queue, x) PROVE Append(ui.queue, x)[j].home = ui.on
          <5>1. (j \in DOMAIN ui.queue /\ Append(ui.queue, x)[j] = ui.queue[j])
                  \/ Append(ui.queue, x)[j] = x
            BY <3>2
          <5>2. QED
            BY <1>0, <3>2, <5>1 DEF Homely
        <4>2. QED
          BY <4>1
      <3>5. ui' \in Mirrors /\ ui'.queue = Append(ui.queue, x) /\ ui'.send = {} /\ ui'.on = ui.on
        BY <1>0, <3>1, <3>3 DEF Mirrors, S
      <3>6. Homely(ui')
        BY <3>4, <3>5 DEF Homely
      <3>7. QED
        BY <1>0, <2>1, <3>1, <3>5, <3>6 DEF FeedShape
    <2>3. CASE ~ui.running
      <3>1. reqs' = reqs \cup {Feed!Req("submit", ui.on, typed + 1, ui.on)} /\ ui' = ui
        BY <1>1, <2>3 DEF Feed!Enter
      <3>2. /\ Feed!Req("submit", ui.on, typed + 1, ui.on) \in FeedReqs
            /\ Feed!Req("submit", ui.on, typed + 1, ui.on).s = Feed!Req("submit", ui.on, typed + 1,
                 ui.on).home
        BY <1>0 DEF Feed!Req, FeedReqs
      <3>3. reqs' \in SUBSET FeedReqs /\ \A q \in reqs' : q.m = "submit" => q.s = q.home
        BY <1>0, <3>1, <3>2
      <3>4. QED
        BY <2>1, <3>1, <3>3 DEF FeedShape
    <2>4. QED
      BY <2>2, <2>3
  <1>2. CASE Feed!CancelTurn
    <2>1. ui' = [ui EXCEPT !.queue = <<>>]
          /\ UNCHANGED <<log, run, stands, subs, deliver, reqs, notes, answers, sw, typed,
               switches, known>>
      BY <1>2 DEF Feed!CancelTurn, Feed!server, Feed!wire
    <2>2. ui' \in Mirrors /\ ui'.queue = <<>> /\ ui'.send = {}
      <3>1. <<>> \in Seq([i : Nat, home : Sessions])
        OBVIOUS
      <3>2. QED
        BY <1>0, <2>1, <3>1 DEF Mirrors
    <2>3. Homely(ui')
      BY <2>2 DEF Homely
    <2>4. QED
      BY <2>1, <2>2, <2>3 DEF FeedShape
  <1>3. ASSUME NEW q \in FeedReqs, q.m # "submit", reqs' = reqs \cup {q}
        PROVE  reqs' \in SUBSET FeedReqs /\ \A p \in reqs' : p.m = "submit" => p.s = p.home
    BY <1>0, <1>3
  <1>4. CASE Feed!Switch
    <2>1. UNCHANGED <<log, run, stands, subs, deliver, notes, answers, ui, typed, known>>
      BY <1>4 DEF Feed!Switch, Feed!server
    <2>2. PICK q \in FeedReqs : q.m # "submit" /\ Feed!StartSwitch(q)
      <3>1. CASE Feed!StartSwitch(Feed!Req("fork", ui.on, 0, ui.on))
        BY <1>0, <3>1, ReqShape
      <3>2. CASE \E s \in known \ {ui.on} : Feed!StartSwitch(Feed!Req("resume", s, 0, ui.on))
        <4>1. PICK s \in known : Feed!StartSwitch(Feed!Req("resume", s, 0, ui.on))
          BY <3>2
        <4>2. s \in Sessions
          BY DEF FeedShape
        <4>3. Feed!Req("resume", s, 0, ui.on) \in FeedReqs
                /\ Feed!Req("resume", s, 0, ui.on).m = "resume"
          BY <1>0, <4>2, ReqShape
        <4>4. QED
          BY <4>1, <4>3
      <3>3. QED
        BY <1>4, <3>1, <3>2 DEF Feed!Switch
    <2>3. reqs' = reqs \cup {q} /\ sw' = [on |-> TRUE, buffer |-> <<>>]
      BY <2>2 DEF Feed!StartSwitch
    <2>4. reqs' \in SUBSET FeedReqs /\ \A p \in reqs' : p.m = "submit" => p.s = p.home
      BY <1>3, <2>2, <2>3
    <2>5. sw' \in [on : BOOLEAN, buffer : Seq(FeedNotes)] /\ sw'.on
      BY <2>3
    <2>6. QED
      BY <2>1, <2>4, <2>5 DEF FeedShape
  <1>5. CASE Feed!ForkCommand
    <2>1. reqs' = reqs \cup {Feed!Req("command", ui.on, 0, ui.on)}
          /\ UNCHANGED <<log, run, stands, subs, deliver, notes, answers, ui, sw, typed, known>>
      BY <1>5 DEF Feed!ForkCommand, Feed!server
    <2>2. Feed!Req("command", ui.on, 0, ui.on) \in FeedReqs
            /\ Feed!Req("command", ui.on, 0, ui.on).m # "submit"
      BY <1>0 DEF Feed!Req, FeedReqs
    <2>3. reqs' \in SUBSET FeedReqs /\ \A p \in reqs' : p.m = "submit" => p.s = p.home
      BY <1>3, <2>1, <2>2
    <2>4. QED
      BY <2>1, <2>3 DEF FeedShape
  <1>6. ASSUME NEW p \in ui.prompts, Feed!AnswerKey(p) PROVE FeedShape'
    <2>1. /\ ui' = [ui EXCEPT !.prompts = @ \ {p}, !.asked = @ \cup {p}]
          /\ reqs' = reqs \cup {Feed!Req("answer", ui.on, p, ui.on)}
          /\ UNCHANGED <<log, run, stands, subs, deliver, notes, answers, sw, typed, switches,
               known>>
      BY <1>6 DEF Feed!AnswerKey, Feed!server
    <2>2. p \in Nat
      BY <1>0 DEF Mirrors
    <2>3. Feed!Req("answer", ui.on, p, ui.on) \in FeedReqs
            /\ Feed!Req("answer", ui.on, p, ui.on).m # "submit"
      BY <1>0, <2>2 DEF Feed!Req, FeedReqs
    <2>4. reqs' \in SUBSET FeedReqs /\ \A q \in reqs' : q.m = "submit" => q.s = q.home
      BY <1>3, <2>1, <2>3
    <2>5. ui' \in Mirrors /\ ui'.queue = ui.queue /\ ui'.send = {} /\ ui'.on = ui.on
      BY <1>0, <2>1, <2>2 DEF Mirrors
    <2>6. Homely(ui')
      BY <1>0, <2>5 DEF Homely
    <2>7. QED
      BY <2>1, <2>4, <2>5, <2>6 DEF FeedShape
  <1>7. QED
    BY <1>1, <1>2, <1>4, <1>5, <1>6

\* Taking an answer keeps the types.
LEMMA AnswersTakenShape ==
    ASSUME FeedShape, NEW a \in answers,
           \/ Feed!SubmitAnswered(a) \/ Feed!AnswerAnswered(a) \/ Feed!CommandAnswered(a)
           \/ Feed!Switched(a) \/ Feed!Aborted(a)
    PROVE  FeedShape'
  <1>0. /\ a \in FeedAnswers /\ a.r \in Nat /\ a.q \in FeedReqs /\ a.q.i \in Nat
        /\ ui \in Mirrors /\ ui.on \in Sessions /\ ui.send = {} /\ Homely(ui)
        /\ answers \ {a} \in SUBSET FeedAnswers /\ Names(a) /\ sw.buffer \in Seq(FeedNotes)
        /\ reqs \in SUBSET FeedReqs /\ \A q \in reqs : q.m = "submit" => q.s = q.home
    BY DEF FeedShape, FeedAnswers, FeedReqs, Homely, Mirrors
  <1>1. CASE Feed!SubmitAnswered(a)
    <2>1. answers' = answers \ {a} /\ UNCHANGED <<log, run, stands, subs, deliver, reqs, notes, sw,
            typed, switches, known>>
      BY <1>1 DEF Feed!SubmitAnswered, Feed!TakeAnswer, Feed!server
    <2>2. Homely(ui') /\ ui'.send = {}
      <3>1. CASE ~a.ok \/ a.q.s # ui.on
        BY <1>0, <1>1, <3>1 DEF Feed!SubmitAnswered
      <3>2. CASE a.ok /\ a.q.s = ui.on
        <4> DEFINE n == Feed!EntryNote(ui.on, a.r, "user")
                   u == Feed!Fold(ui, n)
        <4>1. n \in FeedNotes /\ n.t = "entry" /\ n.s = ui.on /\ n.k = "user" /\ n.i = a.r
          BY <1>0 DEF Feed!EntryNote, FeedNotes, NoteKinds, FeedKinds
        <4>2. Feed!FoldEntry(ui, n) = u
          BY <4>1 DEF Feed!Fold
        <4>3. Homely(u) /\ u.on = ui.on
          BY <1>0, <4>1, FoldHomely
        <4>4. u.send = {}
          <5>1. CASE ui.await \/ a.r \in Feed!Seen(ui)
            BY <1>0, <4>1, <5>1, FoldOld
          <5>2. CASE ~ui.await /\ a.r \notin Feed!Seen(ui)
            <6>1. u = [ui EXCEPT !.await = FALSE, !.shown = Append(@, n.i),
                       !.prompts = IF n.k = "decided" THEN {} ELSE @,
                       !.asked = IF n.k = "decided" THEN {} ELSE @]
              BY <1>0, <4>1, <5>2, FoldNew
            <6>2. QED
              BY <1>0, <6>1 DEF Mirrors
          <5>3. QED
            BY <5>1, <5>2
        <4>5. ui' = Feed!Started(u, a.r)
          BY <1>1, <3>2, <4>2 DEF Feed!SubmitAnswered
        <4> HIDE DEF u, n
        <4>6. Homely(ui') /\ ui'.send = {}
          <5>1. CASE u.turn = a.r
            BY <4>3, <4>4, <4>5, <5>1 DEF Feed!Started
          <5>2. CASE u.turn # a.r
            <6>1. ui' = [u EXCEPT !.running = TRUE, !.turn = a.r] /\ u \in Mirrors
              BY <4>3, <4>5, <5>2 DEF Feed!Started, Homely
            <6>2. ui' \in Mirrors
              BY <1>0, <6>1 DEF Mirrors
            <6>3. ui'.queue = u.queue /\ ui'.send = u.send /\ ui'.on = u.on
              BY <6>1 DEF Mirrors
            <6>4. QED
              BY <4>3, <4>4, <6>2, <6>3 DEF Homely
          <5>3. QED
            BY <5>1, <5>2
        <4>7. QED
          BY <4>6
      <3>3. QED
        BY <3>1, <3>2
    <2>3. QED
      BY <1>0, <2>1, <2>2 DEF FeedShape
  <1>2. CASE Feed!AnswerAnswered(a)
    <2>1. answers' = answers \ {a} /\ UNCHANGED <<log, run, stands, subs, deliver, reqs, notes, sw,
            typed, switches, known>>
      BY <1>2 DEF Feed!AnswerAnswered, Feed!TakeAnswer, Feed!server
    <2>2. Homely(ui') /\ ui'.send = {}
      <3>1. CASE a.q.s # ui.on \/ a.q.i \notin ui.asked
        BY <1>0, <1>2, <3>1 DEF Feed!AnswerAnswered
      <3>2. CASE ~(a.q.s # ui.on \/ a.q.i \notin ui.asked)
        <4>1. ui' = [ui EXCEPT !.asked = @ \ {a.q.i},
                !.prompts = IF a.ok THEN @ ELSE @ \cup {a.q.i}]
          BY <1>2, <3>2 DEF Feed!AnswerAnswered
        <4>2. ui' \in Mirrors
          BY <1>0, <4>1 DEF Mirrors
        <4>3. ui'.queue = ui.queue /\ ui'.send = {} /\ ui'.on = ui.on
          BY <1>0, <4>1 DEF Mirrors
        <4>4. QED
          BY <1>0, <4>2, <4>3 DEF Homely
      <3>3. QED
        BY <3>1, <3>2
    <2>3. QED
      BY <1>0, <2>1, <2>2 DEF FeedShape
  <1>3. CASE Feed!CommandAnswered(a)
    <2>1. answers' = answers \ {a} /\ UNCHANGED <<log, run, stands, subs, deliver, notes, ui,
            typed, switches, known>>
      BY <1>3 DEF Feed!CommandAnswered, Feed!TakeAnswer, Feed!server
    <2>2. a.r \in Sessions /\ a.q.m = "command"
      BY <1>0, <1>3 DEF Feed!CommandAnswered, Names
    <2>3. CASE sw.on
      <3>1. reqs' = reqs \cup {Feed!Req("close", a.r, 0, ui.on)} /\ sw' = sw
        BY <1>3, <2>3 DEF Feed!CommandAnswered
      <3>2. Feed!Req("close", a.r, 0, ui.on) \in FeedReqs
              /\ Feed!Req("close", a.r, 0, ui.on).m = "close"
        BY <1>0, <2>2 DEF Feed!Req, FeedReqs
      <3>3. reqs' \in SUBSET FeedReqs /\ \A q \in reqs' : q.m = "submit" => q.s = q.home
        BY <1>0, <3>1, <3>2
      <3>4. QED
        BY <1>0, <2>1, <3>1, <3>3 DEF FeedShape
    <2>4. CASE ~sw.on /\ a.r # ui.on
      <3>1. reqs' = reqs \cup {Feed!Req("resume", a.r, 0, ui.on)}
              /\ sw' = [on |-> TRUE, buffer |-> <<>>]
        BY <1>3, <2>4 DEF Feed!CommandAnswered, Feed!StartSwitch
      <3>2. Feed!Req("resume", a.r, 0, ui.on) \in FeedReqs
              /\ Feed!Req("resume", a.r, 0, ui.on).m = "resume"
        BY <1>0, <2>2 DEF Feed!Req, FeedReqs
      <3>3. reqs' \in SUBSET FeedReqs /\ \A q \in reqs' : q.m = "submit" => q.s = q.home
        BY <1>0, <3>1, <3>2
      <3>4. sw' \in [on : BOOLEAN, buffer : Seq(FeedNotes)] /\ sw'.on
        BY <3>1
      <3>5. QED
        BY <1>0, <2>1, <3>3, <3>4 DEF FeedShape
    <2>5. CASE ~sw.on /\ a.r = ui.on
      <3>1. UNCHANGED <<reqs, sw>>
        BY <1>3, <2>5 DEF Feed!CommandAnswered
      <3>2. QED
        BY <1>0, <2>1, <3>1 DEF FeedShape
    <2>6. QED
      BY <2>3, <2>4, <2>5
  <1>4. CASE Feed!Switched(a)
    <2> DEFINE u == Feed!Replayed(Feed!Fresh(a.r, TRUE))
               more == {q \in {Feed!Req("close", ui.on, 0, ui.on)} : q.s # a.r}
    <2>1. /\ answers' = answers \ {a} /\ Feed!Settle(u, more) /\ sw' = Feed!NoSwitch
          /\ known' = known \cup {a.r}
          /\ UNCHANGED <<log, run, stands, subs, deliver, notes, typed, switches>>
      BY <1>4 DEF Feed!Switched, Feed!TakeAnswer, Feed!server
    <2>2. a.r \in Sessions
      BY <1>0, <1>4 DEF Feed!Switched, Names
    <2>3. Homely(u)
      BY <1>0, <2>2, FreshHomely, ReplayHomely
    <2>4. more \in SUBSET FeedReqs /\ \A q \in more : q.m # "submit"
      BY <1>0 DEF Feed!Req, FeedReqs
    <2> HIDE DEF u, more
    <2>5. Homely(ui') /\ ui'.send = {} /\ reqs' \in SUBSET FeedReqs
            /\ \A q \in reqs' : q.m = "submit" => q.s = q.home
      BY <2>1, <2>3, <2>4, SettleShape
    <2>6. QED
      BY <1>0, <2>1, <2>2, <2>5 DEF FeedShape, Feed!NoSwitch
  <1>5. CASE Feed!Aborted(a)
    <2> DEFINE u == Feed!Replayed(ui)
    <2>1. /\ answers' = answers \ {a} /\ Feed!Settle(u, {}) /\ sw' = Feed!NoSwitch
          /\ UNCHANGED <<log, run, stands, subs, deliver, notes, typed, switches, known>>
      BY <1>5 DEF Feed!Aborted, Feed!TakeAnswer, Feed!server
    <2>2. Homely(u)
      BY <1>0, ReplayHomely
    <2> HIDE DEF u
    <2>3. Homely(ui') /\ ui'.send = {} /\ reqs' \in SUBSET FeedReqs
            /\ \A q \in reqs' : q.m = "submit" => q.s = q.home
      BY <2>1, <2>2, SettleShape
    <2>4. QED
      BY <1>0, <2>1, <2>3 DEF FeedShape, Feed!NoSwitch
  <1>6. QED
    BY <1>1, <1>2, <1>3, <1>4, <1>5

\* Every step keeps the types.
LEMMA FeedShapeNext ==
    ASSUME FeedShape, Feed!Next
    PROVE  FeedShape'
  <1>1. ASSUME NEW s \in Sessions,
               Feed!AppendNote(s) \/ Feed!StartTurn(s) \/ Feed!Ask(s) \/ Feed!Decide(s)
                 \/ Feed!EndTurn(s)
        PROVE  FeedShape'
    BY <1>1, MovesShape
  <1>2. ASSUME NEW q \in reqs,
               \/ Feed!ServeSubmit(q) \/ Feed!ServeAnswer(q) \/ Feed!ServeClose(q)
                    \/ Feed!ServeResume(q)
               \/ \E s \in Sessions : Feed!ServeFork(q, s)
        PROVE  FeedShape'
    BY <1>2, ServesShape
  <1>3. ASSUME NEW a \in answers,
               \/ Feed!SubmitAnswered(a) \/ Feed!AnswerAnswered(a) \/ Feed!CommandAnswered(a)
               \/ Feed!Switched(a) \/ Feed!Aborted(a)
        PROVE  FeedShape'
    BY <1>3, AnswersTakenShape
  <1>4. QED
    BY <1>1, <1>2, <1>3, DeliverKeepsShape, TakeShape, KeysShape DEF Feed!Next

\* The types hold of every state.
LEMMA FeedTypes == Feed!Spec => []FeedShape
  <1>1. Feed!Init => FeedShape
    <2>1. SUFFICES ASSUME Feed!Init PROVE FeedShape
      OBVIOUS
    <2>2. 1 \in Sessions
      BY FeedAssumption
    <2>3. log \in [Sessions -> Seq(FeedKinds)]
      BY <2>1, KindsShape DEF Feed!Init
    <2>4. /\ run \in [Sessions -> Nat] /\ stands \in [Sessions -> SUBSET Nat]
               /\ subs \in [Sessions -> {0, 1}]
          /\ deliver \in [on : BOOLEAN, s : Sessions \cup {0}, left : Seq(FeedNotes),
               ans : FeedAnswers \cup {<<>>}]
          /\ ~deliver.on
      BY <2>1 DEF Feed!Init, Feed!NoDeliver
    <2>5. notes \in Seq(FeedNotes)
      BY <2>1, <2>2 DEF Feed!Init, Feed!EntryNote, FeedNotes, NoteKinds, FeedKinds
    <2>6. Homely(ui) /\ ui.send = {}
      BY <2>1, <2>2 DEF Feed!Init, Homely, Feed!Fresh, Mirrors
    <2>7. sw \in [on : BOOLEAN, buffer : Seq(FeedNotes)] /\ ~sw.on /\ sw.buffer = <<>>
      BY <2>1 DEF Feed!Init, Feed!NoSwitch
    <2>8. reqs = {} /\ answers = {} /\ typed = 0 /\ known = {1}
      BY <2>1 DEF Feed!Init
    <2>9. QED
      BY <2>2, <2>3, <2>4, <2>5, <2>6, <2>7, <2>8 DEF FeedShape
  <1>2. FeedShape /\ [Feed!Next]_Feed!vars => FeedShape'
    <2>1. FeedShape /\ UNCHANGED Feed!vars => FeedShape'
      BY DEF FeedShape, Feed!vars, Feed!server, Feed!wire, Feed!client
    <2>2. QED
      BY <2>1, FeedShapeNext
  <1>3. QED
    BY <1>1, <1>2, PTL DEF Feed!Spec

\* A message typed for one session is never submitted to another, whatever is queued,
\* switched, refused and held back meanwhile (Model.submit, turnChanged and switched).
THEOREM MessagesGoHome == Feed!Spec => []TypedGoesHome
  <1>1. FeedShape => TypedGoesHome
    BY DEF FeedShape, TypedGoesHome, Feed!TypedGoesHome
  <1>2. QED
    BY <1>1, FeedTypes, PTL

-----------------------------------------------------------------------------
(* The same notifications of a session at other places                     *)

\* Place k of p is of session s, or the end.
Own(p, s, k) == k = Len(p) + 1 \/ (k \in 1..Len(p) /\ p[k].s = s)

\* f moves the notifications of session s from their places in p to those in r.
PlacedAs(f, s, p, r) ==
    /\ f[Len(p) + 1] = Len(r) + 1
    /\ \A k \in 1..Len(p) : p[k].s = s => f[k] \in 1..Len(r) /\ r[f[k]] = p[k]
    /\ \A j, k \in 1..Len(p) + 1 : Own(p, s, j) /\ Own(p, s, k) /\ j < k => f[j] < f[k]
    /\ \A h \in 1..Len(r) : r[h].s = s => \E k \in 1..Len(p) : p[k].s = s /\ f[k] = h

\* Where no replay starts in p, none starts between the same places of r.
LEMMA PlacesNoHead ==
    ASSUME NEW p \in Seq(FeedNotes), NEW r \in Seq(FeedNotes), NEW f, NEW s, PlacedAs(f, s, p, r),
           NEW k \in 1..Len(p) + 1, Own(p, s, k)
    PROVE  /\ NoHead(p, s, 0, k) => NoHead(r, s, 0, f[k])
           /\ \A j \in 1..Len(p) : p[j].s = s /\ NoHead(p, s, j, k) => NoHead(r, s, f[j], f[k])
  <1>0. Len(p) \in Nat /\ Len(r) \in Nat /\ f[k] \in Int
    <2>1. Len(p) \in Nat /\ Len(r) \in Nat
      OBVIOUS
    <2>2. QED
      BY <2>1 DEF Own, PlacedAs
  <1>1. ASSUME NEW h \in 1..Len(r), IsEntry(r[h], s, 1), h < f[k]
        PROVE  \E m \in 1..Len(p) : m < k /\ IsEntry(p[m], s, 1) /\ f[m] = h
    <2>1. PICK m \in 1..Len(p) : p[m].s = s /\ f[m] = h
      BY <1>1 DEF PlacedAs, IsEntry
    <2>2. r[h] = p[m]
      BY <2>1 DEF PlacedAs
    <2>3. m < k
      <3>1. SUFFICES ASSUME k < m PROVE FALSE
        BY <1>0, <1>1, <2>1
      <3>2. m \in 1..Len(p) + 1 /\ Own(p, s, m)
        BY <1>0, <2>1 DEF Own
      <3>3. f[k] < f[m]
        BY <3>1, <3>2 DEF PlacedAs
      <3>4. QED
        BY <1>0, <1>1, <2>1, <3>3
    <2>4. QED
      BY <1>1, <2>1, <2>2, <2>3
  <1>2. ASSUME NoHead(p, s, 0, k) PROVE NoHead(r, s, 0, f[k])
    BY <1>0, <1>1, <1>2 DEF NoHead
  <1>3. ASSUME NEW j \in 1..Len(p), p[j].s = s, NoHead(p, s, j, k) PROVE NoHead(r, s, f[j], f[k])
    <2>1. f[j] \in Int /\ j \in 1..Len(p) + 1 /\ Own(p, s, j)
      BY <1>0, <1>3 DEF PlacedAs, Own
    <2>2. ASSUME NEW h \in 1..Len(r), f[j] < h, h < f[k], IsEntry(r[h], s, 1) PROVE FALSE
      <3>1. PICK m \in 1..Len(p) : m < k /\ IsEntry(p[m], s, 1) /\ f[m] = h
        BY <1>1, <2>2
      <3>2. m \in 1..Len(p) + 1 /\ Own(p, s, m)
        BY <1>0, <3>1 DEF Own, IsEntry
      <3>3. j < m
        <4>1. SUFFICES ASSUME m < j PROVE FALSE
          BY <1>0, <2>1, <2>2, <3>1
        <4>2. f[m] < f[j]
          BY <2>1, <3>2, <4>1 DEF PlacedAs
        <4>3. QED
          BY <2>1, <2>2, <3>1, <4>2
      <3>4. QED
        BY <1>3, <3>1, <3>3 DEF NoHead
    <2>3. QED
      BY <2>2 DEF NoHead
  <1>4. QED
    BY <1>2, <1>3

\* An entry that follows in p follows at its place in r.
LEMMA PlacesFollows ==
    ASSUME NEW p \in Seq(FeedNotes), NEW r \in Seq(FeedNotes), NEW f, NEW u, PlacedAs(f, u.on, p, r),
           NEW k \in 1..Len(p) + 1, Own(p, u.on, k), NEW i, Follows(u, p, k, i)
    PROVE  Follows(u, r, f[k], i)
  <1>0. Len(p) \in Nat
    OBVIOUS
  <1>1. CASE i = 1
    BY <1>1 DEF Follows
  <1>2. ASSUME NEW j \in 1..Len(p), j < k, IsEntry(p[j], u.on, i - 1), NoHead(p, u.on, j, k)
        PROVE  Follows(u, r, f[k], i)
    <2>1. p[j].s = u.on /\ f[j] \in 1..Len(r) /\ r[f[j]] = p[j]
      BY <1>2 DEF PlacedAs, IsEntry
    <2>2. f[j] < f[k]
      <3>1. j \in 1..Len(p) + 1 /\ Own(p, u.on, j)
        BY <1>0, <2>1 DEF Own
      <3>2. QED
        BY <1>2, <3>1 DEF PlacedAs
    <2>3. NoHead(r, u.on, f[j], f[k])
      BY <1>2, <2>1, PlacesNoHead
    <2>4. IsEntry(r[f[j]], u.on, i - 1)
      BY <1>2, <2>1
    <2>5. QED
      BY <2>1, <2>2, <2>3, <2>4 DEF Follows
  <1>3. CASE NoHead(p, u.on, 0, k) /\ (u.await \/ 1..(i - 1) \subseteq Feed!Seen(u))
    <2>1. NoHead(r, u.on, 0, f[k])
      BY <1>3, PlacesNoHead
    <2>2. QED
      BY <1>3, <2>1 DEF Follows
  <1>4. QED
    BY <1>1, <1>2, <1>3 DEF Follows

\* What is safe of one is safe of the other.
LEMMA PlacesSafe ==
    ASSUME NEW p \in Seq(FeedNotes), NEW r \in Seq(FeedNotes), NEW f, NEW u, PlacedAs(f, u.on, p, r),
           NEW w \in Views, Safe(w, u, p)
    PROVE  Safe(w, u, r)
  <1>0. Len(p) \in Nat /\ Len(r) \in Nat /\ Len(w.log) \in Nat
    BY DEF Views
  <1>1. Told(w, u.on, r)
    BY DEF Safe, Told, PlacedAs
  <1>2. AsksFirst(w, u, r)
    <2>1. ASSUME NEW k \in 1..Len(r), IsAsk(r[k], u.on), NEW i \in 1..Len(w.log),
                 i > r[k].i, w.log[i] = "decided"
          PROVE  i \notin Feed!Seen(u) /\ \A j \in 1..Len(r) : j < k => ~IsEntry(r[j], u.on, i)
      <3>1. PICK m \in 1..Len(p) : p[m].s = u.on /\ f[m] = k
        BY <2>1 DEF PlacedAs, IsAsk
      <3>2. r[k] = p[m]
        BY <3>1 DEF PlacedAs
      <3>3. i \notin Feed!Seen(u) /\ \A j \in 1..Len(p) : j < m => ~IsEntry(p[j], u.on, i)
        BY <2>1, <3>2 DEF Safe, AsksFirst
      <3>4. ASSUME NEW j \in 1..Len(r), j < k, IsEntry(r[j], u.on, i) PROVE FALSE
        <4>1. PICK h \in 1..Len(p) : p[h].s = u.on /\ f[h] = j
          BY <3>4 DEF PlacedAs, IsEntry
        <4>2. r[j] = p[h]
          BY <4>1 DEF PlacedAs
        <4>3. ~(h < m)
          BY <3>3, <3>4, <4>2
        <4>4. h # m /\ m < h
          BY <1>0, <3>1, <3>4, <4>1, <4>3
        <4>5. f[m] < f[h]
          <5>1. m \in 1..Len(p) + 1 /\ h \in 1..Len(p) + 1 /\ Own(p, u.on, m) /\ Own(p, u.on, h)
            BY <1>0, <3>1, <4>1 DEF Own
          <5>2. QED
            BY <4>4, <5>1 DEF PlacedAs
        <4>6. QED
          BY <1>0, <3>1, <3>4, <4>1, <4>5
      <3>5. QED
        BY <3>3, <3>4
    <2>2. QED
      BY <2>1 DEF AsksFirst
  <1>3. InOrder(u, r)
    <2>1. ASSUME NEW k \in 1..Len(r), r[k].t = "entry", r[k].s = u.on PROVE Follows(u, r, k, r[k].i)
      <3>1. PICK m \in 1..Len(p) : p[m].s = u.on /\ f[m] = k
        BY <2>1 DEF PlacedAs
      <3>2. r[k] = p[m]
        BY <3>1 DEF PlacedAs
      <3>3. Follows(u, p, m, r[k].i) /\ m \in 1..Len(p) + 1 /\ Own(p, u.on, m)
        BY <1>0, <2>1, <3>1, <3>2 DEF Safe, InOrder, Own
      <3>4. QED
        BY <3>1, <3>3, PlacesFollows
    <2>2. QED
      BY <2>1 DEF InOrder
  <1>4. ASSUME w.subs = 1 PROVE Follows(u, r, Len(r) + 1, Len(w.log) + 1)
    <2>1. Follows(u, p, Len(p) + 1, Len(w.log) + 1)
      BY <1>4 DEF Safe
    <2>2. Len(p) + 1 \in 1..Len(p) + 1 /\ Own(p, u.on, Len(p) + 1) /\ f[Len(p) + 1] = Len(r) + 1
      BY <1>0 DEF Own, PlacedAs
    <2>3. QED
      BY <2>1, <2>2, PlacesFollows
  <1>5. QED
    BY <1>1, <1>2, <1>3, <1>4 DEF Safe

\* What says nothing more in p says nothing more in r.
LEMMA PlacesMute ==
    ASSUME NEW p \in Seq(FeedNotes), NEW r \in Seq(FeedNotes), NEW f, NEW s, PlacedAs(f, s, p, r)
    PROVE  /\ Mute(p, s, 0) => Mute(r, s, 0)
           /\ \A j \in 1..Len(p) : p[j].s = s /\ Mute(p, s, j) => Mute(r, s, f[j])
  <1>0. Len(p) \in Nat /\ Len(r) \in Nat
    OBVIOUS
  <1>1. Mute(p, s, 0) => Mute(r, s, 0)
    BY SMTT(30), <1>0 DEF Mute, PlacedAs, Clears, IsRest, IsAsk
  <1>2. ASSUME NEW j \in 1..Len(p), p[j].s = s, Mute(p, s, j) PROVE Mute(r, s, f[j])
    <2>1. ASSUME NEW h \in 1..Len(r), h > f[j], Clears(r[h], s) \/ IsAsk(r[h], s) PROVE FALSE
      <3>1. PICK m \in 1..Len(p) : p[m].s = s /\ f[m] = h
        BY <2>1 DEF PlacedAs, Clears, IsRest, IsAsk
      <3>2. r[h] = p[m] /\ f[j] \in Int
        BY <1>0, <1>2, <3>1 DEF PlacedAs
      <3>3. ~(m > j)
        BY <1>2, <2>1, <3>2 DEF Mute
      <3>4. m < j
        BY <1>0, <2>1, <3>1, <3>2, <3>3
      <3>5. m \in 1..Len(p) + 1 /\ j \in 1..Len(p) + 1 /\ Own(p, s, m) /\ Own(p, s, j)
        BY <1>0, <1>2, <3>1 DEF Own
      <3>6. f[m] < f[j]
        BY <3>4, <3>5 DEF PlacedAs
      <3>7. QED
        BY <1>0, <2>1, <3>1, <3>2, <3>6
    <2>2. QED
      BY <2>1 DEF Mute
  <1>3. QED
    BY <1>1, <1>2

\* And what is full of one is full of the other.
LEMMA PlacesFull ==
    ASSUME NEW p \in Seq(FeedNotes), NEW r \in Seq(FeedNotes), NEW f, NEW u, PlacedAs(f, u.on, p, r),
           NEW w \in Views, Full(w, u, p)
    PROVE  Full(w, u, r)
  <1>0. Len(p) \in Nat /\ Len(r) \in Nat
    OBVIOUS
  <1>1. Complete(w, u, r)
    <2>1. ASSUME NEW i \in 1..Len(w.log), i \notin Feed!Seen(u)
          PROVE  \E j \in 1..Len(r) : /\ IsEntry(r[j], u.on, i)
                                      /\ u.await => \E h \in 1..Len(r) : h <= j
                                           /\ IsEntry(r[h], u.on, 1)
      <3>1. PICK j \in 1..Len(p) : /\ IsEntry(p[j], u.on, i)
                                   /\ u.await => \E h \in 1..Len(p) : h <= j
                                        /\ IsEntry(p[h], u.on, 1)
        BY <2>1 DEF Full, Complete
      <3>2. f[j] \in 1..Len(r) /\ r[f[j]] = p[j] /\ j \in 1..Len(p) + 1 /\ Own(p, u.on, j)
        BY <1>0, <3>1 DEF PlacedAs, IsEntry, Own
      <3>3. ASSUME u.await PROVE \E h \in 1..Len(r) : h <= f[j] /\ IsEntry(r[h], u.on, 1)
        <4>1. PICK h \in 1..Len(p) : h <= j /\ IsEntry(p[h], u.on, 1)
          BY <3>1, <3>3
        <4>2. f[h] \in 1..Len(r) /\ r[f[h]] = p[h] /\ h \in 1..Len(p) + 1 /\ Own(p, u.on, h)
          BY <1>0, <4>1 DEF PlacedAs, IsEntry, Own
        <4>3. f[h] <= f[j]
          <5>1. CASE h = j
            BY <3>2, <5>1
          <5>2. CASE h # j
            <6>1. h < j
              BY <4>1, <5>2
            <6>2. f[h] < f[j]
              BY <3>2, <4>2, <6>1 DEF PlacedAs
            <6>3. QED
              BY <3>2, <4>2, <6>2
          <5>3. QED
            BY <5>1, <5>2
        <4>4. QED
          BY <4>1, <4>2, <4>3
      <3>4. QED
        BY <3>1, <3>2, <3>3
    <2>2. QED
      BY <2>1 DEF Complete
  <1>2. RunsOn(w, u, r)
    <2>1. SUFFICES ASSUME w.run # 0 PROVE RunsOn(w, u, r)
      BY DEF RunsOn
    <2>2. CASE u.running /\ \A h \in 1..Len(p) : ~IsRest(p[h], u.on)
      <3>1. \A h \in 1..Len(r) : ~IsRest(r[h], u.on)
        BY <2>2 DEF PlacedAs, IsRest
      <3>2. QED
        BY <2>2, <3>1 DEF RunsOn
    <2>3. ASSUME NEW j \in 1..Len(p), IsRun(p[j], u.on), \A h \in 1..Len(p) : h > j =>
                   ~IsRest(p[h], u.on)
          PROVE  RunsOn(w, u, r)
      <3>1. f[j] \in 1..Len(r) /\ r[f[j]] = p[j] /\ j \in 1..Len(p) + 1 /\ Own(p, u.on, j)
        BY <1>0, <2>3 DEF PlacedAs, IsRun, Own
      <3>2. ASSUME NEW h \in 1..Len(r), h > f[j], IsRest(r[h], u.on) PROVE FALSE
        <4>1. PICK m \in 1..Len(p) : p[m].s = u.on /\ f[m] = h
          BY <3>2 DEF PlacedAs, IsRest
        <4>2. r[h] = p[m] /\ m \in 1..Len(p) + 1 /\ Own(p, u.on, m)
          BY <1>0, <4>1 DEF PlacedAs, Own
        <4>3. m < j
          BY <1>0, <2>3, <3>1, <3>2, <4>1, <4>2
        <4>4. f[m] < f[j]
          BY <3>1, <4>2, <4>3 DEF PlacedAs
        <4>5. QED
          BY <3>1, <3>2, <4>1, <4>4
      <3>3. IsRun(r[f[j]], u.on)
        BY <2>3, <3>1
      <3>4. QED
        BY <3>1, <3>2, <3>3 DEF RunsOn
    <2>4. QED
      BY <2>1, <2>2, <2>3 DEF Full, RunsOn
  <1>3. Asks(w, u, r)
    <2>1. ASSUME NEW t \in w.standing
          PROVE  \/ \E j \in 1..Len(r) : IsAsk(r[j], u.on) /\ r[j].i = t /\ Mute(r, u.on, j)
                 \/ Mute(r, u.on, 0) /\ t \in u.prompts \cup w.answered
      <3>1. CASE Mute(p, u.on, 0) /\ t \in u.prompts \cup w.answered
        BY <3>1, PlacesMute
      <3>2. ASSUME NEW j \in 1..Len(p), IsAsk(p[j], u.on), p[j].i = t, Mute(p, u.on, j)
            PROVE  \E k \in 1..Len(r) : IsAsk(r[k], u.on) /\ r[k].i = t /\ Mute(r, u.on, k)
        <4>1. p[j].s = u.on /\ f[j] \in 1..Len(r) /\ r[f[j]] = p[j]
          BY <3>2 DEF PlacedAs, IsAsk
        <4>2. Mute(r, u.on, f[j])
          BY <3>2, <4>1, PlacesMute
        <4>3. QED
          BY <3>2, <4>1, <4>2
      <3>3. QED
        BY <3>1, <3>2 DEF Full, Asks
    <2>2. QED
      BY <2>1 DEF Asks
  <1>4. QED
    BY <1>1, <1>2, <1>3 DEF Full

\* What a concatenation is made of.
LEMMA JoinIs ==
    ASSUME NEW a \in Seq(FeedNotes), NEW b \in Seq(FeedNotes)
    PROVE  /\ a \o b \in Seq(FeedNotes) /\ Len(a) \in Nat /\ Len(b) \in Nat
           /\ Len(a \o b) = Len(a) + Len(b)
           /\ \A k \in 1..Len(a) : (a \o b)[k] = a[k]
           /\ \A k \in Len(a) + 1..Len(a) + Len(b) : (a \o b)[k] = b[k - Len(a)]
  OBVIOUS

\* A notification of another session can be dropped from the front.
LEMMA PlacesTail ==
    ASSUME NEW p \in Seq(FeedNotes), p # <<>>, NEW s, Head(p).s # s
    PROVE  \E f : PlacedAs(f, s, p, Tail(p))
  <1> DEFINE f == [k \in 1..Len(p) + 1 |-> k - 1]
  <1>1. /\ Len(p) \in Nat /\ Len(p) # 0 /\ Tail(p) \in Seq(FeedNotes) /\ Len(Tail(p)) = Len(p) - 1
        /\ Head(p) = p[1] /\ \A k \in 1..Len(p) - 1 : Tail(p)[k] = p[k + 1]
    OBVIOUS
  <1>2. f[Len(p) + 1] = Len(Tail(p)) + 1
    BY <1>1
  <1>3. ASSUME NEW k \in 1..Len(p), p[k].s = s
        PROVE  f[k] \in 1..Len(Tail(p)) /\ Tail(p)[f[k]] = p[k]
    <2>1. k # 1 /\ k - 1 \in 1..Len(p) - 1 /\ f[k] = k - 1 /\ (k - 1) + 1 = k
      BY <1>1, <1>3
    <2> HIDE DEF f
    <2>2. QED
      BY <1>1, <2>1
  <1>4. ASSUME NEW h \in 1..Len(Tail(p)), Tail(p)[h].s = s
        PROVE  \E k \in 1..Len(p) : p[k].s = s /\ f[k] = h
    <2>1. h \in 1..Len(p) - 1 /\ h + 1 \in 1..Len(p) /\ f[h + 1] = h
      BY <1>1
    <2> HIDE DEF f
    <2>2. p[h + 1].s = s
      BY <1>1, <1>4, <2>1
    <2>3. QED
      BY <2>1, <2>2
  <1>5. \A j, k \in 1..Len(p) + 1 : j < k => f[j] < f[k]
    BY <1>1
  <1> HIDE DEF f
  <1>6. PlacedAs(f, s, p, Tail(p))
    BY <1>2, <1>3, <1>4, <1>5 DEF PlacedAs
  <1>7. QED
    BY <1>6

\* Notifications of other sessions can be put in between.
LEMMA PlacesBetween ==
    ASSUME NEW a \in Seq(FeedNotes), NEW b \in Seq(FeedNotes), NEW c \in Seq(FeedNotes), NEW s,
           \A k \in 1..Len(b) : b[k].s # s
    PROVE  \E f : PlacedAs(f, s, a \o c, (a \o b) \o c)
  <1> DEFINE p == a \o c
             r == (a \o b) \o c
             la == Len(a)
             lb == Len(b)
             lc == Len(c)
             f == [k \in 1..la + lc + 1 |-> IF k <= la THEN k ELSE k + lb]
  <1>1. la \in Nat /\ lb \in Nat /\ lc \in Nat
    OBVIOUS
  <1>2. /\ Len(p) = la + lc /\ \A k \in 1..la : p[k] = a[k]
        /\ \A k \in la + 1..la + lc : p[k] = c[k - la]
    OBVIOUS
  <1>3. /\ Len(r) = la + lb + lc /\ \A k \in 1..la : r[k] = a[k]
        /\ \A k \in la + 1..la + lb : r[k] = b[k - la]
        /\ \A k \in la + lb + 1..la + lb + lc : r[k] = c[k - (la + lb)]
    <2> DEFINE d == a \o b
    <2>1. d \in Seq(FeedNotes) /\ Len(d) = la + lb /\ (\A k \in 1..la : d[k] = a[k])
          /\ \A k \in la + 1..la + lb : d[k] = b[k - la]
      BY JoinIs
    <2> HIDE DEF d
    <2>2. Len(d \o c) = Len(d) + lc /\ (\A k \in 1..Len(d) : (d \o c)[k] = d[k])
          /\ \A k \in Len(d) + 1..Len(d) + lc : (d \o c)[k] = c[k - Len(d)]
      BY <2>1, JoinIs
    <2>3. r = d \o c
      BY DEF d
    <2> HIDE DEF r, la, lb, lc
    <2>4. Len(r) = la + lb + lc
      BY <1>1, <2>1, <2>2, <2>3
    <2>5. ASSUME NEW k \in 1..la + lb PROVE r[k] = d[k]
      BY <1>1, <2>1, <2>2, <2>3
    <2>6. ASSUME NEW k \in 1..la PROVE r[k] = a[k]
      <3>1. k \in 1..la + lb
        BY <1>1
      <3>2. QED
        BY <2>1, <2>5, <3>1
    <2>7. ASSUME NEW k \in la + 1..la + lb PROVE r[k] = b[k - la]
      <3>1. k \in 1..la + lb
        BY <1>1
      <3>2. QED
        BY <2>1, <2>5, <3>1
    <2>8. \A k \in la + lb + 1..la + lb + lc : r[k] = c[k - (la + lb)]
      BY <1>1, <2>1, <2>2, <2>3
    <2>9. QED
      BY <2>4, <2>6, <2>7, <2>8
  <1>b. \A k \in 1..lb : b[k].s # s
    OBVIOUS
  <1>4. /\ \A k \in 1..la : f[k] = k
        /\ \A k \in la + 1..la + lc + 1 : f[k] = k + lb
    BY <1>1
  <1> HIDE DEF f, p, r, la, lb, lc
  <1>5. f[Len(p) + 1] = Len(r) + 1
    BY <1>1, <1>2, <1>3, <1>4
  <1>6. ASSUME NEW k \in 1..Len(p) PROVE f[k] \in 1..Len(r) /\ r[f[k]] = p[k]
    <2>1. CASE k <= la
      BY <1>1, <1>2, <1>3, <1>4, <2>1
    <2>2. CASE k > la
      <3>1. k \in la + 1..la + lc /\ k \in la + 1..la + lc + 1
        BY <1>1, <1>2, <2>2
      <3>2. k + lb \in la + lb + 1..la + lb + lc /\ (k + lb) - (la + lb) = k - la
              /\ k + lb \in 1..Len(r)
        BY <1>1, <1>3, <3>1
      <3>3. f[k] = k + lb
        BY <1>4, <3>1
      <3>4. p[k] = c[k - la] /\ r[k + lb] = c[(k + lb) - (la + lb)]
        BY <1>2, <1>3, <3>1, <3>2
      <3>5. QED
        BY <3>2, <3>3, <3>4
    <2>3. QED
      BY <1>1, <1>2, <2>1, <2>2
  <1>7. ASSUME NEW h \in 1..Len(r), r[h].s = s PROVE \E k \in 1..Len(p) : p[k].s = s /\ f[k] = h
    <2>1. CASE h <= la
      <3>1. h \in 1..la /\ h \in 1..Len(p) /\ f[h] = h /\ r[h] = p[h]
        BY <1>1, <1>2, <1>3, <1>4, <2>1
      <3>2. QED
        BY <1>7, <3>1
    <2>2. CASE h > la /\ h <= la + lb
      <3>0. h \in la + 1..la + lb /\ h - la \in 1..lb
        BY <1>1, <1>3, <2>2
      <3>1. r[h] = b[h - la] /\ h - la \in 1..lb
        BY <1>3, <3>0
      <3>2. QED
        BY <1>7, <1>b, <3>1
    <2>3. CASE h > la + lb
      <3>1. h \in la + lb + 1..la + lb + lc /\ h - lb \in la + 1..la + lc /\ h - lb \in 1..Len(p)
            /\ (h - lb) - la = h - (la + lb) /\ (h - lb) + lb = h /\ h - lb \in la + 1..la + lc + 1
        BY <1>1, <1>2, <1>3, <2>3
      <3>2. f[h - lb] = h
        BY <1>4, <3>1
      <3>3. r[h] = p[h - lb]
        BY <1>2, <1>3, <3>1
      <3>4. QED
        BY <1>7, <3>1, <3>2, <3>3
    <2>4. QED
      BY <1>1, <1>3, <2>1, <2>2, <2>3
  <1>8. ASSUME NEW j \in 1..Len(p) + 1, NEW k \in 1..Len(p) + 1, j < k PROVE f[j] < f[k]
    <2>0. j \in 1..la + lc + 1 /\ k \in 1..la + lc + 1 /\ j \in Nat /\ k \in Nat
      BY <1>1, <1>2
    <2>1. ASSUME NEW m \in 1..la + lc + 1 PROVE m \in 1..la \/ m \in la + 1..la + lc + 1
      BY <1>1
    <2>2. CASE j \in 1..la /\ k \in 1..la
      BY <1>4, <1>8, <2>2
    <2>3. CASE j \in 1..la /\ k \in la + 1..la + lc + 1
      BY <1>1, <1>4, <1>8, <2>0, <2>3
    <2>4. CASE j \in la + 1..la + lc + 1 /\ k \in la + 1..la + lc + 1
      BY <1>1, <1>4, <1>8, <2>0, <2>4
    <2>5. CASE j \in la + 1..la + lc + 1 /\ k \in 1..la
      BY <1>1, <1>8, <2>0, <2>5
    <2>6. QED
      BY <2>0, <2>1, <2>2, <2>3, <2>4, <2>5
  <1>9. PlacedAs(f, s, p, r)
    BY <1>5, <1>6, <1>7, <1>8 DEF PlacedAs
  <1>10. QED
    BY <1>9 DEF p, r
-----------------------------------------------------------------------------
(* The client takes a notification                                         *)

TailIs(p) ==
    /\ Len(p) \in Nat /\ Len(p) # 0 /\ 1 \in 1..Len(p) /\ Head(p) = p[1] /\ Head(p) \in FeedNotes
    /\ Len(Tail(p)) = Len(p) - 1
    /\ \A k \in 1..Len(Tail(p)) : k + 1 \in 1..Len(p) /\ Tail(p)[k] = p[k + 1]
    /\ \A k \in 1..Len(p) : k # 1 => k - 1 \in 1..Len(Tail(p)) /\ p[k] = Tail(p)[k - 1]

\* What is left after the first notification.
LEMMA TailFacts ==
    ASSUME NEW p \in Seq(FeedNotes), p # <<>>
    PROVE  TailIs(p) /\ Tail(p) \in Seq(FeedNotes)
  <1>1. /\ Len(p) \in Nat /\ Len(p) # 0 /\ Head(p) = p[1] /\ Len(Tail(p)) = Len(p) - 1
        /\ Tail(p) \in Seq(FeedNotes) /\ \A k \in 1..Len(p) - 1 : Tail(p)[k] = p[k + 1]
    OBVIOUS
  <1>2. p[1] \in FeedNotes
    BY <1>1
  <1>3. ASSUME NEW k \in 1..Len(p), k # 1 PROVE k - 1 \in 1..Len(Tail(p)) /\ p[k] = Tail(p)[k - 1]
    <2>1. k - 1 \in 1..Len(p) - 1 /\ (k - 1) + 1 = k
      BY <1>1, <1>3
    <2>2. QED
      BY <1>1, <2>1
  <1>4. QED
    BY <1>1, <1>2, <1>3 DEF TailIs

\* What a mirror sees later goes on from what it sees now: v is u after the first of p.
LEMMA TailFollows ==
    ASSUME NEW p, TailIs(p), NEW u, NEW v, v.on = u.on,
           NEW k \in 1..Len(p) + 1, k # 1, NEW i \in Nat, i >= 1, Follows(u, p, k, i),
           NoHead(p, u.on, 0, k) /\ (u.await \/ 1..(i - 1) \subseteq Feed!Seen(u))
                => (v.await \/ 1..(i - 1) \subseteq Feed!Seen(v)),
           i # 1 /\ IsEntry(p[1], u.on, i - 1) => (v.await \/ 1..(i - 1) \subseteq Feed!Seen(v))
    PROVE  Follows(v, Tail(p), k - 1, i)
  <1> DEFINE r == Tail(p)
  <1>0. Len(p) \in Nat /\ k \in Nat /\ Len(r) \in Nat
    BY DEF TailIs
  <1>h. ASSUME NEW j \in Nat, NoHead(p, u.on, j + 1, k) PROVE NoHead(r, u.on, j, k - 1)
    BY <1>0, <1>h DEF NoHead, TailIs
  <1>1. CASE i = 1
    BY <1>1 DEF Follows
  <1>2. ASSUME i # 1, NEW j \in 1..Len(p), j < k, IsEntry(p[j], u.on, i - 1), NoHead(p, u.on, j, k)
        PROVE  Follows(v, r, k - 1, i)
    <2>1. CASE j = 1
      <3>1. NoHead(r, u.on, 0, k - 1)
        BY <1>2, <1>h, <2>1
      <3>2. v.await \/ 1..(i - 1) \subseteq Feed!Seen(v)
        BY <1>2, <2>1
      <3> HIDE DEF r
      <3>3. QED
        BY <3>1, <3>2 DEF Follows
    <2>2. CASE j # 1
      <3>1. j - 1 \in 1..Len(r) /\ r[j - 1] = p[j] /\ j - 1 < k - 1 /\ j - 1 \in Nat
              /\ (j - 1) + 1 = j
        BY <1>0, <1>2, <2>2 DEF TailIs
      <3>2. NoHead(r, u.on, j - 1, k - 1)
        BY <1>2, <1>h, <3>1
      <3> HIDE DEF r
      <3>3. IsEntry(r[j - 1], u.on, i - 1)
        BY <1>2, <3>1
      <3>4. QED
        BY <3>1, <3>2, <3>3 DEF Follows
    <2>3. QED
      BY <2>1, <2>2
  <1>3. CASE NoHead(p, u.on, 0, k) /\ (u.await \/ 1..(i - 1) \subseteq Feed!Seen(u))
    <2>1. NoHead(p, u.on, 0 + 1, k)
      BY <1>3 DEF NoHead
    <2>2. NoHead(r, u.on, 0, k - 1)
      BY <1>h, <2>1
    <2>3. v.await \/ 1..(i - 1) \subseteq Feed!Seen(v)
      BY <1>3
    <2> HIDE DEF r
    <2>4. NoHead(r, v.on, 0, k - 1)
      BY <2>2
    <2>5. QED
      BY <2>3, <2>4 DEF Follows, r
  <1>4. QED
    BY <1>1, <1>2, <1>3 DEF Follows

\* A mirror that waits for the head has no part in what comes before it.
LEMMA FreshTail ==
    ASSUME NEW s \in Sessions, NEW w \in Views, NEW p \in Seq(FeedNotes), p # <<>>,
           Safe(w, Feed!Fresh(s, TRUE), p)
    PROVE  Safe(w, Feed!Fresh(s, TRUE), Tail(p))
  <1> DEFINE u == Feed!Fresh(s, TRUE)
             r == Tail(p)
  <1>0. TailIs(p) /\ Len(w.log) \in Nat
    BY TailFacts DEF Views
  <1>1. u.on = s /\ u.await /\ Feed!Seen(u) = {} /\ u.prompts = {} /\ u.asked = {}
    BY DEF Feed!Fresh, Feed!Seen, Feed!ToSet
  <1> HIDE DEF u
  <1>2. Told(w, s, r)
    BY <1>0, <1>1 DEF Safe, Told, TailIs, u
  <1>3. AsksFirst(w, u, r)
    <2>1. ASSUME NEW k \in 1..Len(r), IsAsk(r[k], s), NEW i \in 1..Len(w.log), i > r[k].i,
                   w.log[i] = "decided",
                 NEW j \in 1..Len(r), j < k, IsEntry(r[j], s, i)
          PROVE  FALSE
      <3>1. k + 1 \in 1..Len(p) /\ r[k] = p[k + 1] /\ j + 1 \in 1..Len(p) /\ r[j] = p[j + 1]
              /\ j + 1 < k + 1
        BY <1>0, <2>1 DEF TailIs
      <3> HIDE DEF r
      <3>2. QED
        BY <1>1, <2>1, <3>1 DEF Safe, AsksFirst, u
    <2>2. QED
      BY <1>1, <2>1 DEF AsksFirst
  <1>4. InOrder(u, r)
    <2>1. ASSUME NEW k \in 1..Len(r), r[k].t = "entry", r[k].s = s PROVE Follows(u, r, k, r[k].i)
      <3>1. k + 1 \in 1..Len(p) /\ r[k] = p[k + 1] /\ k + 1 \in 1..Len(p) + 1 /\ k + 1 # 1
              /\ (k + 1) - 1 = k
        BY <1>0 DEF TailIs
      <3>2. Follows(u, p, k + 1, r[k].i)
        BY <1>1, <2>1, <3>1 DEF Safe, InOrder, u
      <3>3. r[k].i \in Nat /\ r[k].i >= 1
        <4>1. Genuine(w, r[k])
          BY <1>2, <2>1 DEF Told
        <4>2. r[k].i \in 1..Len(w.log)
          BY <2>1, <4>1 DEF Genuine
        <4>3. Len(w.log) \in Nat
          BY DEF Views
        <4>4. QED
          BY <4>2, <4>3
      <3>4. QED
        BY <1>0, <1>1, <3>1, <3>2, <3>3, TailFollows
    <2>2. QED
      BY <1>1, <2>1 DEF InOrder
  <1>5. ASSUME w.subs = 1 PROVE Follows(u, r, Len(r) + 1, Len(w.log) + 1)
    <2>1. Follows(u, p, Len(p) + 1, Len(w.log) + 1)
      BY <1>5 DEF Safe, u
    <2>2. /\ Len(p) + 1 \in 1..Len(p) + 1 /\ Len(p) + 1 # 1 /\ (Len(p) + 1) - 1 = Len(r) + 1
          /\ Len(w.log) + 1 \in Nat /\ Len(w.log) + 1 >= 1
      BY <1>0 DEF TailIs
    <2>3. QED
      BY <1>0, <1>1, <2>1, <2>2, TailFollows
  <1>6. QED
    BY <1>1, <1>2, <1>3, <1>4, <1>5 DEF Safe, u

\* v is what u becomes when it takes n, as far as later notifications go.
Onward(u, v, n) ==
    /\ v.on = u.on
    /\ v.await <=> u.await /\ ~IsEntry(n, u.on, 1)
    /\ Feed!Seen(u) \subseteq Feed!Seen(v)
    /\ \A i \in Feed!Seen(v) : i \in Feed!Seen(u) \/ IsEntry(n, u.on, i)
    /\ n.t = "entry" /\ n.s = u.on => v.await \/ 1..n.i \subseteq Feed!Seen(v)
    /\ IsRun(n, u.on) \/ (u.running /\ ~IsRest(n, u.on)) => v.running
    /\ IsAsk(n, u.on) => n.i \in v.prompts
    /\ ~Clears(n, u.on) /\ ~IsAsk(n, u.on) => u.prompts \subseteq v.prompts

\* What followed follows still, once the first notification is folded in.
LEMMA OnwardFollows ==
    ASSUME NEW p, TailIs(p), NEW u, NEW v, Onward(u, v, p[1]),
           NEW k \in 1..Len(p) + 1, k # 1, NEW i \in Nat, i >= 1, Follows(u, p, k, i)
    PROVE  Follows(v, Tail(p), k - 1, i)
  <1>0. 1 \in 1..Len(p) /\ k \in Nat /\ v.on = u.on
    BY DEF TailIs, Onward
  <1>1. ASSUME NoHead(p, u.on, 0, k), u.await \/ 1..(i - 1) \subseteq Feed!Seen(u)
        PROVE  v.await \/ 1..(i - 1) \subseteq Feed!Seen(v)
    <2>1. ~IsEntry(p[1], u.on, 1)
      BY <1>0, <1>1 DEF NoHead
    <2>2. QED
      BY <1>1, <2>1 DEF Onward
  <1>2. ASSUME i # 1, IsEntry(p[1], u.on, i - 1) PROVE v.await \/ 1..(i - 1) \subseteq Feed!Seen(v)
    BY <1>2 DEF Onward, IsEntry
  <1>3. QED
    BY <1>0, <1>1, <1>2, TailFollows

\* Folding in a notification keeps Safe, when the mirror it leaves is sane.
LEMMA OnwardSafe ==
    ASSUME NEW u, NEW v, NEW w \in Views, NEW p \in Seq(FeedNotes), p # <<>>,
           Onward(u, v, p[1]), Sane(w, v), Safe(w, u, p)
    PROVE  Safe(w, v, Tail(p))
  <1> DEFINE r == Tail(p)
  <1>0. TailIs(p) /\ Len(w.log) \in Nat /\ v.on = u.on
    BY TailFacts DEF Views, Onward
  <1>1. Told(w, v.on, r)
    BY <1>0 DEF Safe, Told, TailIs
  <1>2. AsksFirst(w, v, r)
    <2>1. ASSUME NEW k \in 1..Len(r), IsAsk(r[k], v.on), NEW i \in 1..Len(w.log),
                 i > r[k].i, w.log[i] = "decided"
          PROVE  i \notin Feed!Seen(v) /\ \A j \in 1..Len(r) : j < k => ~IsEntry(r[j], v.on, i)
      <3>1. k + 1 \in 1..Len(p) /\ r[k] = p[k + 1] /\ k \in Nat /\ 1 \in 1..Len(p)
        BY <1>0 DEF TailIs
      <3>2. i \notin Feed!Seen(u) /\ \A j \in 1..Len(p) : j < k + 1 => ~IsEntry(p[j], u.on, i)
        <4> HIDE DEF r
        <4>1. QED
          BY <1>0, <2>1, <3>1 DEF Safe, AsksFirst
      <3>3. ~IsEntry(p[1], u.on, i)
        BY <2>1, <3>1, <3>2
      <3>4. i \notin Feed!Seen(v)
        BY <3>2, <3>3 DEF Onward
      <3>5. ASSUME NEW j \in 1..Len(r), j < k PROVE ~IsEntry(r[j], v.on, i)
        <4>1. j + 1 \in 1..Len(p) /\ r[j] = p[j + 1] /\ j + 1 < k + 1
          BY <1>0, <3>1, <3>5 DEF TailIs
        <4> HIDE DEF r
        <4>2. QED
          BY <1>0, <3>2, <4>1
      <3>6. QED
        BY <3>4, <3>5
    <2>2. QED
      BY <2>1 DEF AsksFirst
  <1>3. InOrder(v, r)
    <2>1. ASSUME NEW k \in 1..Len(r), r[k].t = "entry", r[k].s = v.on PROVE Follows(v, r, k, r[k].i)
      <3>1. k + 1 \in 1..Len(p) /\ r[k] = p[k + 1] /\ k + 1 \in 1..Len(p) + 1 /\ k + 1 # 1
              /\ (k + 1) - 1 = k
        BY <1>0 DEF TailIs
      <3>2. Follows(u, p, k + 1, r[k].i)
        BY <1>0, <2>1, <3>1 DEF Safe, InOrder
      <3>3. r[k].i \in Nat /\ r[k].i >= 1
        <4>1. Genuine(w, r[k])
          BY <1>1, <2>1 DEF Told
        <4>2. r[k].i \in 1..Len(w.log)
          BY <2>1, <4>1 DEF Genuine
        <4>3. QED
          BY <1>0, <4>2
      <3>4. QED
        BY <1>0, <3>1, <3>2, <3>3, OnwardFollows
    <2>2. QED
      BY <2>1 DEF InOrder
  <1>4. ASSUME w.subs = 1 PROVE Follows(v, r, Len(r) + 1, Len(w.log) + 1)
    <2>1. Follows(u, p, Len(p) + 1, Len(w.log) + 1)
      BY <1>4 DEF Safe
    <2>2. /\ Len(p) + 1 \in 1..Len(p) + 1 /\ Len(p) + 1 # 1 /\ (Len(p) + 1) - 1 = Len(r) + 1
          /\ Len(w.log) + 1 \in Nat /\ Len(w.log) + 1 >= 1
      BY <1>0 DEF TailIs
    <2>3. QED
      BY <1>0, <2>1, <2>2, OnwardFollows
  <1>5. QED
    BY <1>1, <1>2, <1>3, <1>4 DEF Safe

\* What said nothing more says nothing more, once the first is folded in.
LEMMA OnwardMute ==
    ASSUME NEW p, TailIs(p), NEW s
    PROVE  /\ Mute(p, s, 0) => Mute(Tail(p), s, 0) /\ ~Clears(p[1], s) /\ ~IsAsk(p[1], s)
           /\ \A j \in 1..Len(p) : Mute(p, s, j) => Mute(Tail(p), s, j - 1)
  BY DEF TailIs, Mute

\* Folding in a notification keeps Full, when the mirror moves on by it.
LEMMA OnwardFull ==
    ASSUME NEW u, NEW v, NEW w \in Views, NEW p \in Seq(FeedNotes), p # <<>>,
           Onward(u, v, p[1]), Full(w, u, p)
    PROVE  Full(w, v, Tail(p))
  <1> DEFINE r == Tail(p)
  <1>0. TailIs(p) /\ v.on = u.on
    BY TailFacts DEF Onward
  <1>t. \A k \in 1..Len(p) : k # 1 => k - 1 \in 1..Len(r) /\ p[k] = r[k - 1]
    BY <1>0 DEF TailIs
  <1>s. Len(p) \in Nat /\ \A h \in 1..Len(r) : h + 1 \in 1..Len(p) /\ r[h] = p[h + 1]
    BY <1>0 DEF TailIs
  <1> HIDE DEF r
  <1>1. Complete(w, v, r)
    <2>1. ASSUME NEW i \in 1..Len(w.log), i \notin Feed!Seen(v)
          PROVE  \E j \in 1..Len(r) : /\ IsEntry(r[j], v.on, i)
                                      /\ v.await => \E h \in 1..Len(r) : h <= j
                                           /\ IsEntry(r[h], v.on, 1)
      <3>1. i \notin Feed!Seen(u)
        BY <2>1 DEF Onward
      <3>2. PICK j \in 1..Len(p) : /\ IsEntry(p[j], u.on, i)
                                   /\ u.await => \E h \in 1..Len(p) : h <= j
                                        /\ IsEntry(p[h], u.on, 1)
        BY <3>1 DEF Full, Complete
      <3>3. ASSUME v.await PROVE \E h \in 1..Len(p) : h # 1 /\ h <= j /\ IsEntry(p[h], u.on, 1)
        BY <3>2, <3>3 DEF Onward
      <3>4. j # 1
        <4>1. SUFFICES ASSUME j = 1 PROVE FALSE
          OBVIOUS
        <4>2. i \in 1..i
          BY <1>s
        <4>3. v.await
          BY <2>1, <3>2, <4>1, <4>2 DEF Onward, IsEntry
        <4>4. QED
          BY <1>s, <3>3, <4>1, <4>3
      <3>5. ASSUME v.await PROVE \E h \in 1..Len(r) : h <= j - 1 /\ IsEntry(r[h], v.on, 1)
        <4>1. PICK h \in 1..Len(p) : h # 1 /\ h <= j /\ IsEntry(p[h], u.on, 1)
          BY <3>3, <3>5
        <4>2. h - 1 \in 1..Len(r) /\ p[h] = r[h - 1] /\ h - 1 <= j - 1
          BY <1>s, <1>t, <4>1
        <4>3. QED
          BY <1>0, <4>1, <4>2
      <3>6. j - 1 \in 1..Len(r) /\ p[j] = r[j - 1]
        BY <1>t, <3>4
      <3>7. QED
        BY <1>0, <3>2, <3>5, <3>6
    <2>2. QED
      BY <2>1 DEF Complete
  <1>2. RunsOn(w, v, r)
    <2>1. SUFFICES ASSUME w.run # 0 PROVE RunsOn(w, v, r)
      BY DEF RunsOn
    <2>2. CASE u.running /\ \A h \in 1..Len(p) : ~IsRest(p[h], u.on)
      <3>1. \A h \in 1..Len(r) : ~IsRest(r[h], u.on)
        BY <1>s, <2>2
      <3>2. 1 \in 1..Len(p)
        BY <1>0 DEF TailIs
      <3>3. v.running
        BY <2>2, <3>2 DEF Onward
      <3>4. QED
        BY <1>0, <3>1, <3>3 DEF RunsOn
    <2>3. ASSUME NEW j \in 1..Len(p), IsRun(p[j], u.on), \A h \in 1..Len(p) : h > j =>
                   ~IsRest(p[h], u.on)
          PROVE  RunsOn(w, v, r)
      <3>1. \A h \in 1..Len(r) : h > j - 1 => ~IsRest(r[h], u.on)
        BY <1>s, <2>3
      <3>2. CASE j = 1
        <4>1. v.running
          BY <2>3, <3>2 DEF Onward
        <4>2. \A h \in 1..Len(r) : ~IsRest(r[h], u.on)
          BY <1>s, <3>1, <3>2
        <4>3. QED
          BY <1>0, <4>1, <4>2 DEF RunsOn
      <3>3. CASE j # 1
        <4>1. j - 1 \in 1..Len(r) /\ p[j] = r[j - 1]
          BY <1>t, <3>3
        <4>2. IsRun(r[j - 1], u.on)
          BY <2>3, <4>1
        <4>3. QED
          BY <1>0, <3>1, <4>1, <4>2 DEF RunsOn
      <3>4. QED
        BY <3>2, <3>3
    <2>4. QED
      BY <2>1, <2>2, <2>3 DEF Full, RunsOn
  <1>3. Asks(w, v, r)
    <2>1. ASSUME NEW t \in w.standing
          PROVE  \/ \E j \in 1..Len(r) : IsAsk(r[j], v.on) /\ r[j].i = t /\ Mute(r, v.on, j)
                 \/ Mute(r, v.on, 0) /\ t \in v.prompts \cup w.answered
      <3>1. CASE Mute(p, u.on, 0) /\ t \in u.prompts \cup w.answered
        <4>1. Mute(r, u.on, 0) /\ ~Clears(p[1], u.on) /\ ~IsAsk(p[1], u.on)
          BY <1>0, <3>1, OnwardMute DEF r
        <4>2. u.prompts \subseteq v.prompts
          BY <4>1 DEF Onward
        <4>3. QED
          BY <1>0, <3>1, <4>1, <4>2
      <3>2. ASSUME NEW j \in 1..Len(p), IsAsk(p[j], u.on), p[j].i = t, Mute(p, u.on, j)
            PROVE  \/ \E k \in 1..Len(r) : IsAsk(r[k], v.on) /\ r[k].i = t /\ Mute(r, v.on, k)
                   \/ Mute(r, v.on, 0) /\ t \in v.prompts
        <4>1. Mute(r, u.on, j - 1)
          BY <1>0, <3>2, OnwardMute DEF r
        <4>2. CASE j = 1
          <5>1. t \in v.prompts
            BY <3>2, <4>2 DEF Onward
          <5>2. Mute(r, u.on, 0)
            BY <4>1, <4>2
          <5>3. QED
            BY <1>0, <5>1, <5>2
        <4>3. CASE j # 1
          <5>1. j - 1 \in 1..Len(r) /\ p[j] = r[j - 1]
            BY <1>t, <4>3
          <5>2. QED
            BY <1>0, <3>2, <4>1, <5>1
        <4>4. QED
          BY <4>2, <4>3
      <3>3. QED
        BY <3>1, <3>2 DEF Full, Asks
    <2>2. QED
      BY <2>1 DEF Asks
  <1>4. QED
    BY <1>1, <1>2, <1>3 DEF Full, r

\* An entry shown is an entry seen.
LEMMA SeenIs ==
    ASSUME NEW u, NEW v, u.shown \in Seq(Nat), NEW i \in Nat, v.shown = Append(u.shown, i)
    PROVE  Feed!Seen(v) = Feed!Seen(u) \cup {i}
  <1>1. /\ Len(u.shown) \in Nat /\ DOMAIN u.shown = 1..Len(u.shown)
        /\ DOMAIN v.shown = 1..Len(u.shown) + 1 /\ v.shown[Len(u.shown) + 1] = i
        /\ \A j \in 1..Len(u.shown) : v.shown[j] = u.shown[j]
    OBVIOUS
  <1> HIDE DEF Feed!Seen
  <1>2. \A j \in 1..Len(u.shown) + 1 : j \in 1..Len(u.shown) \/ j = Len(u.shown) + 1
    BY <1>1
  <1>3. Feed!Seen(u) = {u.shown[j] : j \in 1..Len(u.shown)}
    BY <1>1 DEF Feed!Seen, Feed!ToSet
  <1>4. Feed!Seen(v) = {v.shown[j] : j \in 1..Len(u.shown) + 1}
    BY <1>1 DEF Feed!Seen, Feed!ToSet
  <1>5. QED
    BY <1>1, <1>2, <1>3, <1>4

\* The mirror of a session takes the next of what is under way.
LEMMA FoldGoesOn ==
    ASSUME NEW w \in Views, NEW u \in Mirrors, NEW p \in Seq(FeedNotes), p # <<>>, Safe(w, u, p),
           Head(p).s = u.on
    PROVE  Onward(u, Feed!Fold(u, p[1]), p[1]) /\ Sane(w, Feed!Fold(u, p[1]))
  <1> DEFINE n == p[1]
             v == Feed!Fold(u, n)
  <1>0. /\ TailIs(p) /\ Len(w.log) \in Nat /\ n \in FeedNotes /\ n.s = u.on /\ n.i \in Nat
        /\ n.t \in {"entry", "state", "ask"} /\ 1 \in 1..Len(p) /\ u.shown \in Seq(Nat)
    <2>1. TailIs(p)
      BY TailFacts
    <2>2. n \in FeedNotes /\ n.s = u.on /\ 1 \in 1..Len(p)
      BY <2>1 DEF TailIs
    <2> HIDE DEF n
    <2>3. n.i \in Nat /\ n.t \in {"entry", "state", "ask"}
      BY <2>2 DEF FeedNotes
    <2>4. Len(w.log) \in Nat /\ u.shown \in Seq(Nat)
      BY DEF Views, Mirrors
    <2>5. QED
      BY <2>1, <2>2, <2>3, <2>4
  <1>1. Genuine(w, n) /\ LogOk(w) /\ Sane(w, u)
    BY <1>0 DEF Safe, Told
  <1>2. n.t = "entry" => n.i \in 1..Len(w.log) /\ n.k = w.log[n.i] /\ (n.k = "head" <=> n.i = 1)
    BY <1>1 DEF Genuine, LogOk
  <1>3. n.t = "entry" => n.i = 1 \/ u.await \/ 1..(n.i - 1) \subseteq Feed!Seen(u)
    <2>1. SUFFICES ASSUME n.t = "entry" PROVE n.i = 1 \/ u.await
                            \/ 1..(n.i - 1) \subseteq Feed!Seen(u)
      OBVIOUS
    <2>2. Follows(u, p, 1, n.i)
      BY <1>0, <2>1 DEF Safe, InOrder
    <2>3. QED
      BY <1>0, <2>2 DEF Follows
  <1>4. n.t = "ask" => WasPut(w, n.i) /\ \A i \in 1..Len(w.log) : i > n.i
          /\ w.log[i] = "decided" => i \notin Feed!Seen(u)
    <2>1. SUFFICES ASSUME n.t = "ask" PROVE WasPut(w, n.i) /\ \A i \in 1..Len(w.log) : i > n.i
                            /\ w.log[i] = "decided" => i \notin Feed!Seen(u)
      OBVIOUS
    <2>2. IsAsk(p[1], u.on)
      BY <1>0, <2>1 DEF IsAsk
    <2>3. QED
      BY <1>0, <1>1, <2>1, <2>2 DEF Safe, AsksFirst, Genuine
  <1> HIDE DEF n
  <1>5. CASE n.t = "entry" /\ n.k # "head" /\ (u.await \/ n.i \in Feed!Seen(u))
    <2>1. v = u
      BY <1>0, <1>5, FoldOld
    <2>2. ~IsEntry(n, u.on, 1)
      BY <1>2, <1>5 DEF IsEntry
    <2>3. u.await \/ 1..n.i \subseteq Feed!Seen(u)
      <3>1. SUFFICES ASSUME ~u.await PROVE 1..n.i \subseteq Feed!Seen(u)
        OBVIOUS
      <3>2. n.i \in Feed!Seen(u) /\ 1..(n.i - 1) \subseteq Feed!Seen(u)
        BY <1>2, <1>3, <1>5, <3>1
      <3>3. QED
        BY <1>0, <3>2
    <2>4. ~IsRun(n, u.on) /\ ~IsRest(n, u.on) /\ ~IsAsk(n, u.on)
      BY <1>5 DEF IsRun, IsRest, IsAsk
    <2>5. Onward(u, u, n)
      BY <2>2, <2>3, <2>4 DEF Onward
    <2>6. QED
      BY <1>1, <2>1, <2>5 DEF n
  <1>6. CASE n.t = "entry" /\ n.k = "head" /\ n.i \in Feed!Seen(u)
    <2>1. v = [u EXCEPT !.await = FALSE]
      BY <1>0, <1>6, FoldHead
    <2>2. ~u.await
      BY <1>1, <1>6 DEF Sane
    <2>3. v = u
      BY <2>1, <2>2 DEF Mirrors
    <2>4. 1..n.i \subseteq Feed!Seen(u)
      BY <1>2, <1>6
    <2>5. ~IsRun(n, u.on) /\ ~IsRest(n, u.on) /\ ~IsAsk(n, u.on)
      BY <1>6 DEF IsRun, IsRest, IsAsk
    <2>6. Onward(u, u, n)
      BY <2>2, <2>4, <2>5 DEF Onward
    <2>7. QED
      BY <1>1, <2>3, <2>6 DEF n
  <1>7. CASE n.t = "entry" /\ (n.k = "head" \/ ~u.await) /\ n.i \notin Feed!Seen(u)
    <2>1. v = [u EXCEPT !.await = FALSE, !.shown = Append(@, n.i),
                        !.prompts = IF n.k = "decided" THEN {} ELSE @,
                        !.asked = IF n.k = "decided" THEN {} ELSE @]
      BY <1>0, <1>7, FoldNew
    <2> HIDE DEF v
    <2>2. /\ v.on = u.on /\ ~v.await /\ v.shown = Append(u.shown, n.i) /\ v.running = u.running
          /\ v.prompts = IF n.k = "decided" THEN {} ELSE u.prompts
          /\ v.asked = IF n.k = "decided" THEN {} ELSE u.asked
      BY <2>1 DEF Mirrors
    <2>3. Feed!Seen(v) = Feed!Seen(u) \cup {n.i}
      <3>1. n.i \in Nat /\ u.shown \in Seq(Nat) /\ v.shown = Append(u.shown, n.i)
        BY <1>0, <2>2
      <3>2. QED
        BY <3>1, SeenIs
    <2>4. 1..n.i \subseteq Feed!Seen(v)
      <3>1. n.i = 1 \/ 1..(n.i - 1) \subseteq Feed!Seen(u)
        BY <1>2, <1>3, <1>7
      <3>2. QED
        BY <1>0, <2>3, <3>1
    <2>5. ~IsRun(n, u.on) /\ ~IsRest(n, u.on) /\ ~IsAsk(n, u.on) /\ IsEntry(n, u.on, n.i)
          /\ (n.k = "decided" => Clears(n, u.on))
      BY <1>0, <1>7 DEF IsRun, IsRest, IsAsk, IsEntry, Clears
    <2>6. u.await => IsEntry(n, u.on, 1)
      BY <1>0, <1>2, <1>7 DEF IsEntry
    <2>7. Onward(u, v, n)
      <3>1. u.await /\ ~IsEntry(n, u.on, 1) => FALSE
        BY <2>6
      <3>2. \A i \in Feed!Seen(v) : i \in Feed!Seen(u) \/ IsEntry(n, u.on, i)
        BY <2>3, <2>5
      <3>3. ~Clears(n, u.on) => u.prompts \subseteq v.prompts
        BY <2>2, <2>5
      <3>4. QED
        BY <2>2, <2>3, <2>4, <2>5, <3>1, <3>2, <3>3 DEF Onward
    <2>8. Sane(w, v)
      <3>1. Feed!Seen(v) \subseteq 1..Len(w.log)
        BY <1>1, <1>2, <1>7, <2>3 DEF Sane
      <3>2. \A i \in Feed!Seen(v) : w.log[i] # "user" => 1..i \subseteq Feed!Seen(v)
        BY <1>1, <2>3, <2>4 DEF Sane
      <3>3. \A t \in v.prompts \cup v.asked : WasPut(w, t)
              /\ \A i \in Feed!Seen(v) : i > t => w.log[i] # "decided"
        <4>1. CASE n.k = "decided"
          BY <2>2, <4>1
        <4>2. CASE n.k # "decided"
          BY <1>1, <1>2, <1>7, <2>2, <2>3, <4>2 DEF Sane
        <4>3. QED
          BY <4>1, <4>2
      <3>4. QED
        BY <2>2, <3>1, <3>2, <3>3 DEF Sane
    <2>9. QED
      BY <2>7, <2>8 DEF n, v
  <1>8. CASE n.t = "ask"
    <2>1. v = [u EXCEPT !.prompts = {n.i}]
      BY <1>0, <1>8, FoldAsk
    <2> HIDE DEF v
    <2>2. /\ v.on = u.on /\ v.await = u.await /\ v.shown = u.shown /\ v.running = u.running
          /\ v.prompts = {n.i} /\ v.asked = u.asked
      BY <2>1 DEF Mirrors
    <2>3. Feed!Seen(v) = Feed!Seen(u)
      BY <2>2 DEF Feed!Seen
    <2>4. ~IsEntry(n, u.on, 1) /\ ~IsRun(n, u.on) /\ IsAsk(n, u.on)
      BY <1>0, <1>8 DEF IsEntry, IsRun, IsAsk
    <2>5. Onward(u, v, n)
      BY <1>8, <2>2, <2>3, <2>4 DEF Onward
    <2>6. Sane(w, v)
      BY <1>1, <1>4, <1>8, <2>2, <2>3 DEF Sane
    <2>7. QED
      BY <2>5, <2>6 DEF n, v
  <1>9. CASE n.t = "state"
    <2> DEFINE x == [u EXCEPT !.running = FALSE, !.turn = n.i, !.prompts = {}, !.asked = {}]
    <2>1. CASE n.k = "run"
      <3>1. v = [u EXCEPT !.running = TRUE, !.turn = n.i]
        BY <1>0, <1>9, <2>1, FoldRun
      <3> HIDE DEF v
      <3>2. /\ v.on = u.on /\ v.await = u.await /\ v.shown = u.shown /\ v.running
            /\ v.prompts = u.prompts /\ v.asked = u.asked
        BY <3>1 DEF Mirrors
      <3>3. Feed!Seen(v) = Feed!Seen(u)
        BY <3>2 DEF Feed!Seen
      <3>4. ~IsEntry(n, u.on, 1) /\ ~IsAsk(n, u.on)
        BY <1>9 DEF IsEntry, IsAsk
      <3>5. Onward(u, v, n)
        BY <1>9, <3>2, <3>3, <3>4 DEF Onward
      <3>6. Sane(w, v)
        BY <1>1, <3>2, <3>3 DEF Sane
      <3>7. QED
        BY <3>5, <3>6 DEF n, v
    <2>2. CASE n.k # "run"
      <3>1. n.k = "rest" /\ IsRest(n, u.on)
        BY SMTT(30), <1>0, <1>1, <1>9, <2>2 DEF Genuine, IsRest
      <3>2. v = IF u.queue = <<>> THEN x
                ELSE [x EXCEPT !.queue = Tail(@),
                        !.send = @ \cup {Feed!Req("submit", x.on, Head(x.queue).i,
                          Head(x.queue).home)}]
        BY <1>0, <1>9, <2>2, FoldRest
      <3>3. /\ x.on = u.on /\ x.await = u.await /\ x.shown = u.shown
            /\ x.prompts = {} /\ x.asked = {} /\ x \in Mirrors
        BY <1>0 DEF Mirrors
      <3> HIDE DEF v, x
      <3>4. /\ v.on = u.on /\ v.await = u.await /\ v.shown = u.shown
            /\ v.prompts = {} /\ v.asked = {}
        BY <3>2, <3>3 DEF Mirrors
      <3>5. Feed!Seen(v) = Feed!Seen(u)
        BY <3>4 DEF Feed!Seen
      <3>6. ~IsEntry(n, u.on, 1) /\ ~IsAsk(n, u.on) /\ ~IsRun(n, u.on) /\ Clears(n, u.on)
        BY <1>9, <3>1 DEF IsEntry, IsAsk, IsRun, Clears
      <3>7. Onward(u, v, n)
        BY <1>9, <3>1, <3>4, <3>5, <3>6 DEF Onward
      <3>8. Sane(w, v)
        BY <1>1, <3>4, <3>5 DEF Sane
      <3>9. QED
        BY <3>7, <3>8 DEF n, v
    <2>3. QED
      BY <2>1, <2>2
  <1>10. QED
    BY <1>0, <1>5, <1>6, <1>7, <1>8, <1>9

\* Whatever comes first, folding it in keeps Safe, and Full with it.
LEMMA FoldSafe ==
    ASSUME NEW w \in Views, NEW u \in Mirrors, NEW p \in Seq(FeedNotes), p # <<>>, Safe(w, u, p)
    PROVE  /\ Safe(w, Feed!Fold(u, p[1]), Tail(p))
           /\ Full(w, u, p) => Full(w, Feed!Fold(u, p[1]), Tail(p))
  <1>1. CASE Head(p).s = u.on
    BY <1>1, FoldGoesOn, OnwardSafe, OnwardFull
  <1>2. CASE Head(p).s # u.on
    <2>1. Head(p) = p[1] /\ Tail(p) \in Seq(FeedNotes)
      BY TailFacts DEF TailIs
    <2>2. Feed!Fold(u, p[1]) = u
      BY <1>2, <2>1, FoldOther
    <2>3. PICK f : PlacedAs(f, u.on, p, Tail(p))
      BY <1>2, PlacesTail
    <2>4. QED
      BY ZenonT(60), <2>1, <2>2, <2>3, PlacesSafe, PlacesFull
  <1>3. QED
    BY <1>1, <1>2

-----------------------------------------------------------------------------
(* A session moves, and notifies                                           *)

\* One step of session s, from w to x, and the notification of it.
Wrote(w, x, n, s, k) ==
    /\ k \in {"note", "user", "decided"} /\ x.log = Append(w.log, k) /\ x.run = w.run
    /\ k # "decided" => x.standing = w.standing /\ x.answered = w.answered
    /\ k = "decided" => w.standing # {} /\ x.standing = {}
    /\ n = Feed!EntryNote(s, Len(w.log) + 1, k)

Put(w, x, n, s) ==
    /\ w.run # 0 /\ w.standing = {} /\ x.standing = {w.run} /\ x.log = w.log /\ x.run = w.run
    /\ ~\E i \in 1..Len(w.log) : i > w.run /\ w.log[i] = "decided"
    /\ n = Feed!AskNote(s, w.run)

Turned(w, x, n, s) ==
    /\ w.standing = {} /\ x.standing = {} /\ x.log = w.log
    /\ \/ x.run = Len(w.log) /\ n = Feed!StateNote(s, x.run, TRUE)
       \/ x.run = 0 /\ n = Feed!StateNote(s, w.run, FALSE)

Steps(w, x, n, s) ==
    /\ w.log # <<>> /\ x.subs = w.subs
    /\ (\E k \in FeedKinds : Wrote(w, x, n, s, k)) \/ Put(w, x, n, s) \/ Turned(w, x, n, s)

\* r goes on from p.
Extends(p, r) ==
    /\ Len(p) \in Nat /\ Len(r) \in Nat /\ Len(p) <= Len(r)
    /\ \A k \in 1..Len(p) : r[k] = p[k]

\* What one notification at the end makes of a sequence.
LEMMA AppendIs ==
    ASSUME NEW S, NEW p \in Seq(S), NEW n \in S
    PROVE  /\ Append(p, n) \in Seq(S) /\ Extends(p, Append(p, n)) /\ Len(Append(p, n)) = Len(p) + 1
           /\ Append(p, n)[Len(p) + 1] = n
  BY DEF Extends

\* What follows, follows in a longer sequence.
LEMMA ExtendsFollows ==
    ASSUME NEW u, NEW p, NEW r, Extends(p, r), NEW k \in 1..Len(p) + 1, NEW i, Follows(u, p, k, i)
    PROVE  Follows(u, r, k, i)
  <1>0. Len(p) \in Nat /\ Len(r) \in Nat /\ Len(p) <= Len(r) /\ \A h \in 1..Len(p) : r[h] = p[h]
    BY DEF Extends
  <1>1. ASSUME NEW j \in Int, NoHead(p, u.on, j, k) PROVE NoHead(r, u.on, j, k)
    BY <1>0, <1>1 DEF NoHead
  <1>2. CASE i = 1
    BY <1>2 DEF Follows
  <1>3. ASSUME NEW j \in 1..Len(p), j < k, IsEntry(p[j], u.on, i - 1), NoHead(p, u.on, j, k)
        PROVE  Follows(u, r, k, i)
    <2>1. NoHead(r, u.on, j, k) /\ j \in 1..Len(r) /\ IsEntry(r[j], u.on, i - 1)
      BY <1>0, <1>1, <1>3
    <2>2. QED
      BY <1>3, <2>1 DEF Follows
  <1>4. CASE NoHead(p, u.on, 0, k) /\ (u.await \/ 1..(i - 1) \subseteq Feed!Seen(u))
    <2>1. NoHead(r, u.on, 0, k)
      BY <1>1, <1>4
    <2>2. QED
      BY <1>4, <2>1 DEF Follows
  <1>5. QED
    BY <1>2, <1>3, <1>4 DEF Follows

\* The log grows as a log does.
LEMMA StepsLog ==
    ASSUME NEW w \in Views, NEW x \in Views, NEW n \in FeedNotes, NEW s, Steps(w, x, n, s), LogOk(w)
    PROVE  /\ LogOk(x) /\ Genuine(x, n)
           /\ Extends(w.log, x.log) /\ Len(x.log) <= Len(w.log) + 1
           /\ \A t \in Nat : WasPut(w, t) => WasPut(x, t)
  <1>0. w.log \in Seq(FeedKinds) /\ Len(w.log) \in Nat /\ Len(w.log) # 0 /\ w.run \in Nat
          /\ w.log # <<>>
    BY DEF Views, Steps
  <1>1. ASSUME NEW k \in FeedKinds, Wrote(w, x, n, s, k)
        PROVE  /\ LogOk(x) /\ Genuine(x, n)
               /\ Extends(w.log, x.log) /\ Len(x.log) <= Len(w.log) + 1
               /\ \A t \in Nat : WasPut(w, t) => WasPut(x, t)
    <2>1. /\ Extends(w.log, x.log) /\ Len(x.log) = Len(w.log) + 1
          /\ x.log[Len(w.log) + 1] = k
      BY <1>0, <1>1, AppendIs DEF Wrote
    <2>2. /\ Len(x.log) \in Nat /\ \A i \in 1..Len(w.log) : x.log[i] = w.log[i]
      BY <1>0, <2>1 DEF Extends
    <2>3. ASSUME NEW i \in 1..Len(x.log) PROVE i \in 1..Len(w.log) \/ i = Len(w.log) + 1
      BY <1>0, <2>1
    <2>4. k \in {"note", "user", "decided"} /\ x.run = w.run
      BY <1>1 DEF Wrote
    <2>5. Genuine(x, n)
      <3>1. n.t = "entry" /\ n.i = Len(w.log) + 1 /\ n.k = k
        BY <1>1 DEF Wrote, Feed!EntryNote
      <3>2. QED
        BY <1>0, <2>1, <3>1 DEF Genuine
    <2>6. \A i \in 1..Len(x.log) : x.log[i] = "head" <=> i = 1
      BY <1>0, <2>1, <2>2, <2>3, <2>4 DEF LogOk
    <2>7. x.run \in 0..Len(x.log) /\ x.log # <<>>
      BY <1>0, <2>1, <2>4 DEF LogOk
    <2>8. CASE k = "decided"
      <3>1. x.standing = {}
        BY <1>1, <2>8 DEF Wrote
      <3>2. LogOk(x)
        BY <2>6, <2>7, <3>1 DEF LogOk
      <3>3. ASSUME NEW t \in Nat, WasPut(w, t) PROVE WasPut(x, t)
        <4>1. t \in 1..Len(w.log) /\ t \in 1..Len(x.log)
          BY <1>0, <2>1, <3>3 DEF WasPut
        <4>2. Len(w.log) + 1 > t /\ Len(w.log) + 1 \in 1..Len(x.log)
          BY <1>0, <2>1, <4>1
        <4>3. QED
          BY <2>1, <2>8, <4>1, <4>2 DEF WasPut
      <3>4. QED
        BY <1>0, <2>1, <2>5, <3>2, <3>3
    <2>9. CASE k # "decided"
      <3>1. x.standing = w.standing
        BY <1>1, <2>9 DEF Wrote
      <3>2. \A t \in x.standing : \A i \in 1..Len(x.log) : i > t => x.log[i] # "decided"
        BY <2>1, <2>2, <2>3, <2>9, <3>1 DEF LogOk
      <3>3. LogOk(x)
        BY <2>4, <2>6, <2>7, <3>1, <3>2 DEF LogOk
      <3>4. ASSUME NEW t \in Nat, WasPut(w, t) PROVE WasPut(x, t)
        <4>1. t \in 1..Len(x.log)
          BY <1>0, <2>1, <3>4 DEF WasPut
        <4>2. \A i \in 1..Len(w.log) : i \in 1..Len(x.log)
          BY <1>0, <2>1
        <4>3. QED
          BY <2>2, <3>1, <3>4, <4>1, <4>2 DEF WasPut
      <3>5. QED
        BY <1>0, <2>1, <2>5, <3>3, <3>4
    <2>10. QED
      BY <2>8, <2>9
  <1>2. CASE Put(w, x, n, s)
    <2>1. /\ w.run # 0 /\ w.standing = {} /\ x.standing = {w.run} /\ x.log = w.log /\ x.run = w.run
          /\ \A i \in 1..Len(w.log) : ~(i > w.run /\ w.log[i] = "decided")
          /\ n.t = "ask" /\ n.k = "ask" /\ n.i = w.run
      BY <1>2 DEF Put, Feed!AskNote
    <2>2. LogOk(x)
      BY <1>0, <2>1 DEF LogOk
    <2>3. w.run \in 1..Len(w.log)
      BY <1>0, <2>1 DEF LogOk
    <2>4. Genuine(x, n)
      BY <2>1, <2>3 DEF Genuine, WasPut
    <2>5. \A t \in Nat : WasPut(w, t) => WasPut(x, t)
      BY <2>1 DEF WasPut
    <2>6. Extends(w.log, x.log) /\ Len(x.log) <= Len(w.log) + 1
      BY <1>0, <2>1 DEF Extends
    <2>7. QED
      BY <2>2, <2>4, <2>5, <2>6
  <1>3. CASE Turned(w, x, n, s)
    <2>1. /\ w.standing = {} /\ x.standing = {} /\ x.log = w.log /\ x.run \in 0..Len(w.log)
          /\ n.t = "state" /\ n.k \in {"run", "rest"}
      BY <1>0, <1>3 DEF Turned, Feed!StateNote
    <2>2. LogOk(x)
      BY <1>0, <2>1 DEF LogOk
    <2>3. Genuine(x, n) /\ \A t \in Nat : WasPut(w, t) => WasPut(x, t)
      BY <2>1 DEF Genuine, WasPut
    <2>4. Extends(w.log, x.log) /\ Len(x.log) <= Len(w.log) + 1
      BY <1>0, <2>1 DEF Extends
    <2>5. QED
      BY <2>2, <2>3, <2>4
  <1>4. QED
    BY <1>1, <1>2, <1>3 DEF Steps

\* What was said of a log stays true of it as it grows.
LEMMA StepsGenuine ==
    ASSUME NEW w, NEW x, Extends(w.log, x.log), \A t \in Nat : WasPut(w, t) => WasPut(x, t),
           NEW n \in FeedNotes, Genuine(w, n)
    PROVE  Genuine(x, n)
  <1>1. n.i \in Nat
    BY DEF FeedNotes
  <1>2. \A i \in 1..Len(w.log) : i \in 1..Len(x.log) /\ x.log[i] = w.log[i]
    BY DEF Extends
  <1>3. QED
    BY <1>1, <1>2 DEF Genuine

\* A mirror stays sane when the log grows.
LEMMA StepsSane ==
    ASSUME NEW w \in Views, NEW x, Extends(w.log, x.log), \A t \in Nat : WasPut(w, t) =>
             WasPut(x, t),
           NEW u \in Mirrors, Sane(w, u)
    PROVE  Sane(x, u)
  <1>1. u.prompts \subseteq Nat /\ u.asked \subseteq Nat
    BY DEF Mirrors
  <1>2. \A i \in 1..Len(w.log) : i \in 1..Len(x.log) /\ x.log[i] = w.log[i]
    BY DEF Extends
  <1>3. QED
    BY <1>1, <1>2 DEF Sane

\* What the notification of a step is.
LEMMA StepsNote ==
    ASSUME NEW w \in Views, NEW x \in Views, NEW n, NEW s, Steps(w, x, n, s)
    PROVE  /\ n.s = s /\ n.t \in {"entry", "state", "ask"}
           /\ n.t = "entry" => n.i = Len(w.log) + 1 /\ Len(x.log) = Len(w.log) + 1
           /\ n.t # "entry" => x.log = w.log
           /\ n.t = "ask" => n.i = w.run /\ \A i \in 1..Len(w.log) : i > w.run =>
                w.log[i] # "decided"
  <1>0. w.log \in Seq(FeedKinds)
    BY DEF Views
  <1>1. ASSUME NEW k \in FeedKinds, Wrote(w, x, n, s, k)
        PROVE  n.s = s /\ n.t = "entry" /\ n.i = Len(w.log) + 1 /\ Len(x.log) = Len(w.log) + 1
    BY <1>0, <1>1 DEF Wrote, Feed!EntryNote
  <1>2. CASE Put(w, x, n, s)
    BY <1>2 DEF Put, Feed!AskNote
  <1>3. CASE Turned(w, x, n, s)
    BY <1>3 DEF Turned, Feed!StateNote
  <1>4. QED
    BY <1>1, <1>2, <1>3 DEF Steps

\* A step of the session and its notification keep Safe.
LEMMA StepsSafe ==
    ASSUME NEW w \in Views, NEW x \in Views, NEW u \in Mirrors, NEW n \in FeedNotes,
             Steps(w, x, n, u.on),
           NEW p \in Seq(FeedNotes), NEW r \in Seq(FeedNotes), Safe(w, u, p),
           r = IF w.subs = 1 THEN Append(p, n) ELSE p
    PROVE  Safe(x, u, r)
  <1> DEFINE L == Len(w.log)
  <1>0. L \in Nat /\ Len(p) \in Nat /\ Len(r) \in Nat /\ x.subs = w.subs
    BY DEF Views, Steps
  <1>1. /\ Extends(p, r)
        /\ w.subs = 1 => Len(r) = Len(p) + 1 /\ r[Len(p) + 1] = n
        /\ w.subs # 1 => Len(r) = Len(p)
    <2>1. CASE w.subs = 1
      <3>1. r = Append(p, n)
        BY <2>1
      <3>2. QED
        BY <2>1, <3>1, AppendIs
    <2>2. CASE w.subs # 1
      BY <1>0, <2>2 DEF Extends
    <2>3. QED
      BY <2>1, <2>2
  <1>2. /\ LogOk(x) /\ Genuine(x, n) /\ Extends(w.log, x.log) /\ Len(x.log) <= L + 1
        /\ \A t \in Nat : WasPut(w, t) => WasPut(x, t)
    BY StepsLog DEF Safe
  <1>3. /\ n.s = u.on /\ n.t \in {"entry", "state", "ask"}
        /\ n.t = "entry" => n.i = L + 1 /\ Len(x.log) = L + 1
        /\ n.t # "entry" => x.log = w.log
        /\ n.t = "ask" => n.i = w.run /\ \A i \in 1..L : i > w.run => w.log[i] # "decided"
    BY StepsNote
  <1>4. Len(x.log) \in Nat /\ L <= Len(x.log) /\ \A i \in 1..L : x.log[i] = w.log[i]
    BY <1>2 DEF Extends
  <1>5. ASSUME NEW k \in 1..Len(r)
        PROVE  (k \in 1..Len(p) /\ r[k] = p[k])
                 \/ (w.subs = 1 /\ k = Len(p) + 1 /\ r[k] = n /\ Len(r) = Len(p) + 1)
    <2>1. CASE k <= Len(p)
      BY <1>0, <1>1, <2>1 DEF Extends
    <2>2. CASE k > Len(p)
      BY <1>0, <1>1, <2>2
    <2>3. QED
      BY <1>0, <2>1, <2>2
  <1>6. Told(x, u.on, r)
    <2>1. ASSUME NEW k \in 1..Len(r), r[k].s = u.on PROVE Genuine(x, r[k])
      <3>1. CASE k \in 1..Len(p) /\ r[k] = p[k]
        <4>1. Genuine(w, p[k]) /\ p[k] \in FeedNotes
          BY <2>1, <3>1 DEF Safe, Told
        <4>2. QED
          BY <1>2, <3>1, <4>1, StepsGenuine
      <3>2. QED
        BY <1>2, <1>5, <3>1
    <2>2. QED
      BY <2>1 DEF Told
  <1>7. Sane(x, u)
    BY <1>2, StepsSane DEF Safe
  <1>8. AsksFirst(x, u, r)
    <2>1. ASSUME NEW k \in 1..Len(r), IsAsk(r[k], u.on), NEW i \in 1..Len(x.log), i > r[k].i,
                   x.log[i] = "decided"
          PROVE  i \notin Feed!Seen(u) /\ \A j \in 1..Len(r) : j < k => ~IsEntry(r[j], u.on, i)
      <3>1. CASE k \in 1..Len(p) /\ r[k] = p[k]
        <4>1. ASSUME NEW j \in 1..Len(r), j < k PROVE j \in 1..Len(p) /\ r[j] = p[j]
          BY <1>0, <1>1, <3>1, <4>1 DEF Extends
        <4>2. CASE i <= L
          <5>1. i \in 1..L /\ w.log[i] = "decided"
            BY <1>0, <1>4, <2>1, <4>2
          <5>2. i \notin Feed!Seen(u) /\ \A j \in 1..Len(p) : j < k => ~IsEntry(p[j], u.on, i)
            BY <2>1, <3>1, <5>1 DEF Safe, AsksFirst
          <5>3. QED
            BY <4>1, <5>2
        <4>3. CASE i > L
          <5>1. i \notin Feed!Seen(u)
            BY <1>0, <4>3 DEF Safe, Sane
          <5>2. ASSUME NEW j \in 1..Len(p), IsEntry(p[j], u.on, i) PROVE FALSE
            <6>1. Genuine(w, p[j])
              BY <5>2 DEF Safe, Told, IsEntry
            <6>2. i \in 1..L
              BY <5>2, <6>1 DEF Genuine, IsEntry
            <6>3. L \in Nat
              BY <1>0
            <6> HIDE DEF L
            <6>4. QED
              BY <4>3, <6>2, <6>3
          <5>3. QED
            BY <4>1, <5>1, <5>2
        <4>4. i \in Nat /\ L \in Nat
          BY <1>0, <1>4
        <4> HIDE DEF L
        <4>5. i <= L \/ i > L
          BY <4>4
        <4>6. QED
          BY <4>2, <4>3, <4>5
      <3>2. CASE k = Len(p) + 1 /\ r[k] = n
        <4>1. n.t = "ask"
          BY <2>1, <3>2 DEF IsAsk
        <4>2. x.log = w.log /\ i > w.run /\ i \in 1..L
          BY <1>3, <2>1, <3>2, <4>1
        <4>3. QED
          BY <1>3, <2>1, <4>1, <4>2
      <3>3. QED
        BY <1>5, <3>1, <3>2
    <2>2. QED
      BY <2>1 DEF AsksFirst
  <1>9. InOrder(u, r)
    <2>1. ASSUME NEW k \in 1..Len(r), r[k].t = "entry", r[k].s = u.on PROVE Follows(u, r, k, r[k].i)
      <3>1. CASE k \in 1..Len(p) /\ r[k] = p[k]
        <4>1. Follows(u, p, k, r[k].i) /\ k \in 1..Len(p) + 1
          BY <1>0, <2>1, <3>1 DEF Safe, InOrder
        <4>2. QED
          BY <1>1, <4>1, ExtendsFollows
      <3>2. CASE w.subs = 1 /\ k = Len(p) + 1 /\ r[k] = n
        <4>1. Follows(u, p, Len(p) + 1, L + 1) /\ Len(p) + 1 \in 1..Len(p) + 1
          BY <1>0, <3>2 DEF Safe
        <4>2. Follows(u, r, Len(p) + 1, L + 1)
          BY <1>1, <4>1, ExtendsFollows
        <4>3. QED
          BY <1>3, <2>1, <3>2, <4>2
      <3>3. QED
        BY <1>5, <3>1, <3>2
    <2>2. QED
      BY <2>1 DEF InOrder
  <1>10. ASSUME x.subs = 1 PROVE Follows(u, r, Len(r) + 1, Len(x.log) + 1)
    <2>1. w.subs = 1 /\ Len(r) = Len(p) + 1 /\ r[Len(r)] = n /\ Len(r) \in 1..Len(r)
      BY <1>0, <1>1, <1>10
    <2>2. CASE n.t = "entry"
      <3>1. IsEntry(r[Len(r)], u.on, (Len(x.log) + 1) - 1)
        BY <1>0, <1>3, <2>1, <2>2 DEF IsEntry
      <3>2. NoHead(r, u.on, Len(r), Len(r) + 1)
        BY <1>0 DEF NoHead
      <3>3. Len(r) < Len(r) + 1
        BY <1>0
      <3>4. QED
        BY <2>1, <3>1, <3>2, <3>3 DEF Follows
    <2>3. CASE n.t # "entry"
      <3>1. Follows(u, p, Len(p) + 1, L + 1) /\ Len(p) + 1 \in 1..Len(p) + 1 /\ x.log = w.log
        BY <1>0, <1>3, <2>1, <2>3 DEF Safe
      <3>2. Follows(u, r, Len(p) + 1, L + 1)
        BY <1>1, <3>1, ExtendsFollows
      <3>3. ~IsEntry(r[Len(p) + 1], u.on, 1)
        BY <2>1, <2>3 DEF IsEntry
      <3>4. ASSUME NEW j \in Int, NoHead(r, u.on, j, Len(p) + 1)
            PROVE  NoHead(r, u.on, j, Len(p) + 2)
        BY <1>0, <2>1, <3>3, <3>4 DEF NoHead
      <3>5. Len(r) + 1 = Len(p) + 2 /\ \A j \in 1..Len(r) : j < Len(p) + 1 => j < Len(p) + 2
        BY <1>0, <2>1
      <3>6. Follows(u, r, Len(p) + 2, L + 1)
        BY <3>2, <3>4, <3>5 DEF Follows
      <3>7. QED
        BY <3>1, <3>5, <3>6
    <2>4. QED
      BY <2>2, <2>3
  <1>11. QED
    BY <1>2, <1>6, <1>7, <1>8, <1>9, <1>10 DEF Safe

\* A step of the session keeps Full of a client that is told of it.
LEMMA StepsFull ==
    ASSUME NEW w \in Views, NEW x \in Views, NEW u \in Mirrors, NEW n \in FeedNotes,
             Steps(w, x, n, u.on),
           NEW p \in Seq(FeedNotes), Safe(w, u, p), Full(w, u, p)
    PROVE  Full(x, u, Append(p, n))
  <1> DEFINE L == Len(w.log)
             r == Append(p, n)
  <1>0. L \in Nat /\ Len(p) \in Nat /\ LogOk(w) /\ Sane(w, u) /\ L # 0 /\ w.log \in Seq(FeedKinds)
    BY DEF Views, Steps, Safe
  <1>1. Extends(p, r) /\ Len(r) = Len(p) + 1 /\ r[Len(p) + 1] = n /\ Len(r) \in Nat
    BY AppendIs
  <1>2. /\ Extends(w.log, x.log) /\ Len(x.log) <= L + 1
    BY StepsLog DEF Safe
  <1>3. /\ n.s = u.on /\ n.t \in {"entry", "state", "ask"}
        /\ n.t = "entry" => n.i = L + 1 /\ Len(x.log) = L + 1
        /\ n.t # "entry" => x.log = w.log
        /\ n.t = "ask" => n.i = w.run /\ \A i \in 1..L : i > w.run => w.log[i] # "decided"
    BY StepsNote
  <1> HIDE DEF r
  <1>4. \A k \in 1..Len(p) : k \in 1..Len(r) /\ r[k] = p[k]
    BY <1>0, <1>1 DEF Extends
  <1>5. ASSUME NEW k \in 1..Len(r)
        PROVE  (k \in 1..Len(p) /\ r[k] = p[k]) \/ (k = Len(p) + 1 /\ r[k] = n)
    BY <1>0, <1>1, <1>4
  <1>6. Complete(x, u, r)
    <2>1. ASSUME NEW i \in 1..L, i \notin Feed!Seen(u)
          PROVE  \E j \in 1..Len(p) : /\ IsEntry(r[j], u.on, i)
                                      /\ u.await => \E h \in 1..Len(r) : h <= j
                                           /\ IsEntry(r[h], u.on, 1)
      <3>1. PICK j \in 1..Len(p) : /\ IsEntry(p[j], u.on, i)
                                   /\ u.await => \E h \in 1..Len(p) : h <= j
                                        /\ IsEntry(p[h], u.on, 1)
        BY <2>1 DEF Full, Complete
      <3>2. QED
        BY <1>4, <3>1
    <2>2. ASSUME NEW i \in 1..Len(x.log), i \notin Feed!Seen(u), ~(i \in 1..L)
          PROVE  \E j \in 1..Len(r) : /\ IsEntry(r[j], u.on, i)
                                      /\ u.await => \E h \in 1..Len(r) : h <= j
                                           /\ IsEntry(r[h], u.on, 1)
      <3>1. n.t = "entry" /\ i = L + 1
        BY <1>0, <1>2, <1>3, <2>2
      <3>2. IsEntry(r[Len(p) + 1], u.on, i) /\ Len(p) + 1 \in 1..Len(r)
        BY <1>0, <1>1, <1>3, <3>1 DEF IsEntry
      <3>3. ASSUME u.await PROVE \E h \in 1..Len(r) : h <= Len(p) + 1 /\ IsEntry(r[h], u.on, 1)
        <4>1. 1 \in 1..L /\ 1 \notin Feed!Seen(u)
          BY <1>0, <3>3 DEF Sane
        <4>2. PICK j \in 1..Len(p) : IsEntry(r[j], u.on, 1)
          BY <2>1, <4>1
        <4>3. QED
          BY <1>0, <1>4, <4>2
      <3>4. QED
        BY <3>2, <3>3
    <2>3. QED
      BY <1>4, <2>1, <2>2 DEF Complete
  <1>7. RunsOn(x, u, r)
    <2>1. SUFFICES ASSUME x.run # 0 PROVE RunsOn(x, u, r)
      BY DEF RunsOn
    <2>2. CASE Turned(w, x, n, u.on)
      <3>1. IsRun(n, u.on)
        BY <1>3, <2>1, <2>2 DEF Turned, Feed!StateNote, IsRun
      <3>2. Len(p) + 1 \in 1..Len(r) /\ \A h \in 1..Len(r) : ~(h > Len(p) + 1)
        BY <1>0, <1>1
      <3>3. QED
        BY <1>1, <3>1, <3>2 DEF RunsOn
    <2>3. CASE ~Turned(w, x, n, u.on)
      <3>1. x.run = w.run /\ n.t # "state"
        BY <2>3 DEF Steps, Wrote, Put, Feed!EntryNote, Feed!AskNote
      <3>2. ~IsRest(n, u.on)
        BY <3>1 DEF IsRest
      <3>3. CASE u.running /\ \A h \in 1..Len(p) : ~IsRest(p[h], u.on)
        <4>1. \A h \in 1..Len(r) : ~IsRest(r[h], u.on)
          BY <1>5, <3>2, <3>3
        <4>2. QED
          BY <3>3, <4>1 DEF RunsOn
      <3>4. ASSUME NEW j \in 1..Len(p), IsRun(p[j], u.on), \A h \in 1..Len(p) : h > j =>
                     ~IsRest(p[h], u.on)
            PROVE  RunsOn(x, u, r)
        <4>1. \A h \in 1..Len(r) : h > j => ~IsRest(r[h], u.on)
          BY <1>5, <3>2, <3>4
        <4>2. QED
          BY <1>4, <3>4, <4>1 DEF RunsOn
      <3>5. QED
        BY <2>1, <3>1, <3>3, <3>4 DEF Full, RunsOn
    <2>4. QED
      BY <2>2, <2>3
  <1>8. Asks(x, u, r)
    <2>1. ASSUME NEW t \in x.standing
          PROVE  \/ \E j \in 1..Len(r) : IsAsk(r[j], u.on) /\ r[j].i = t /\ Mute(r, u.on, j)
                 \/ Mute(r, u.on, 0) /\ t \in u.prompts \cup x.answered
      <3>1. CASE Put(w, x, n, u.on)
        <4>1. IsAsk(n, u.on) /\ n.i = t
          BY <2>1, <3>1 DEF Put, Feed!AskNote, IsAsk
        <4>2. Len(p) + 1 \in 1..Len(r) /\ Mute(r, u.on, Len(p) + 1)
          BY <1>0, <1>1 DEF Mute
        <4>3. QED
          BY <1>1, <4>1, <4>2
      <3>2. CASE ~Put(w, x, n, u.on)
        <4>1. PICK k \in FeedKinds : Wrote(w, x, n, u.on, k)
          BY <2>1, <3>2 DEF Steps, Turned
        <4>2. k # "decided" /\ x.standing = w.standing /\ x.answered = w.answered /\ n.t = "entry"
                /\ n.k = k
          BY <2>1, <4>1 DEF Wrote, Feed!EntryNote
        <4>3. ~Clears(n, u.on) /\ ~IsAsk(n, u.on)
          BY <4>2 DEF Clears, IsRest, IsAsk
        <4>4. ASSUME NEW j \in Int, Mute(p, u.on, j) PROVE Mute(r, u.on, j)
          BY <1>5, <4>3, <4>4 DEF Mute
        <4>5. CASE Mute(p, u.on, 0) /\ t \in u.prompts \cup w.answered
          BY <4>2, <4>4, <4>5
        <4>6. CASE \E j \in 1..Len(p) : IsAsk(p[j], u.on) /\ p[j].i = t /\ Mute(p, u.on, j)
          BY <1>4, <4>4, <4>6
        <4>7. QED
          BY <2>1, <4>2, <4>5, <4>6 DEF Full, Asks
      <3>3. QED
        BY <3>1, <3>2
    <2>2. QED
      BY <2>1 DEF Asks
  <1>9. QED
    BY <1>6, <1>7, <1>8 DEF Full, r

-----------------------------------------------------------------------------
(* What changes nothing, and what the keys and the answers change          *)

\* Two mirrors that differ in their queue, what they send and the turn's number.
LEMMA MirrorAlike ==
    ASSUME NEW w, NEW u, NEW v, NEW p,
           v.on = u.on, v.await = u.await, v.shown = u.shown,
           v.prompts = u.prompts, v.asked = u.asked, u.running => v.running
    PROVE  (Safe(w, u, p) => Safe(w, v, p)) /\ (Full(w, u, p) => Full(w, v, p))
  <1>1. Feed!Seen(v) = Feed!Seen(u)
    BY DEF Feed!Seen
  <1>2. Safe(w, u, p) => Safe(w, v, p)
    BY <1>1 DEF Safe, Sane, AsksFirst, InOrder, Follows
  <1>3. Full(w, u, p) => Full(w, v, p)
    BY <1>1 DEF Full, Complete, RunsOn, Asks
  <1>4. QED
    BY <1>2, <1>3

\* A subscription that goes, and answers on their way that come or that no question needs.
LEMMA ViewAlike ==
    ASSUME NEW w, NEW x, NEW u, NEW p,
           x.log = w.log, x.run = w.run, x.standing = w.standing, x.subs \in {w.subs, 0}
    PROVE  /\ Safe(w, u, p) => Safe(x, u, p)
           /\ Full(w, u, p) /\ (\A t \in w.standing : t \in w.answered => t \in x.answered)
                => Full(x, u, p)
  <1>1. \A t : WasPut(w, t) => WasPut(x, t)
    BY DEF WasPut
  <1>2. Safe(w, u, p) => Safe(x, u, p)
    <2>1. LogOk(w) => LogOk(x)
      BY DEF LogOk
    <2>2. Told(w, u.on, p) => Told(x, u.on, p)
      BY <1>1 DEF Told, Genuine
    <2>3. Sane(w, u) => Sane(x, u)
      BY <1>1 DEF Sane
    <2>4. AsksFirst(w, u, p) => AsksFirst(x, u, p)
      BY DEF AsksFirst
    <2>5. QED
      BY <2>1, <2>2, <2>3, <2>4 DEF Safe
  <1>3. Full(w, u, p) /\ (\A t \in w.standing : t \in w.answered => t \in x.answered) =>
          Full(x, u, p)
    <2>1. Complete(w, u, p) => Complete(x, u, p)
      BY DEF Complete
    <2>2. RunsOn(w, u, p) => RunsOn(x, u, p)
      BY DEF RunsOn
    <2>3. Asks(w, u, p) /\ (\A t \in w.standing : t \in w.answered => t \in x.answered) =>
            Asks(x, u, p)
      <3>1. SUFFICES ASSUME Asks(w, u, p), \A t \in w.standing : t \in w.answered =>
                              t \in x.answered,
                            NEW t \in x.standing
                     PROVE  \/ \E j \in 1..Len(p) : IsAsk(p[j], u.on) /\ p[j].i = t
                                 /\ Mute(p, u.on, j)
                            \/ Mute(p, u.on, 0) /\ t \in u.prompts \cup x.answered
        BY DEF Asks
      <3>2. t \in w.standing
        OBVIOUS
      <3>3. QED
        BY <3>1, <3>2 DEF Asks
    <2>4. QED
      BY <2>1, <2>2, <2>3 DEF Full
  <1>4. QED
    BY <1>2, <1>3

\* started, and the echo of a message before the entry arrives.
LEMMA EchoSafe ==
    ASSUME NEW w \in Views, NEW u \in Mirrors, NEW p \in Seq(FeedNotes), Safe(w, u, p),
             Full(w, u, p),
           NEW n \in FeedNotes, n.t = "entry", n.s = u.on, n.k = "user",
           n.i \in 1..Len(w.log), w.log[n.i] = "user"
    PROVE  Safe(w, Feed!Fold(u, n), p) /\ Full(w, Feed!Fold(u, n), p)
  <1> DEFINE v == Feed!Fold(u, n)
  <1>0. n.i \in Nat /\ u.shown \in Seq(Nat)
    BY DEF FeedNotes, Mirrors
  <1>1. CASE u.await \/ n.i \in Feed!Seen(u)
    <2>1. v = u
      BY <1>1, FoldOld
    <2>2. QED
      BY <2>1
  <1>2. CASE ~u.await /\ n.i \notin Feed!Seen(u)
    <2>1. v = [u EXCEPT !.await = FALSE, !.shown = Append(@, n.i),
                        !.prompts = IF n.k = "decided" THEN {} ELSE @,
                        !.asked = IF n.k = "decided" THEN {} ELSE @]
      BY <1>2, FoldNew
    <2> HIDE DEF v
    <2>2. /\ v.on = u.on /\ v.await = u.await /\ v.shown = Append(u.shown, n.i)
               /\ v.running = u.running
          /\ v.prompts = u.prompts /\ v.asked = u.asked
      BY <1>2, <2>1 DEF Mirrors
    <2>3. Feed!Seen(v) = Feed!Seen(u) \cup {n.i}
      BY <1>0, <2>2, SeenIs
    <2>4. Sane(w, v)
      BY <1>2, <2>2, <2>3 DEF Safe, Sane
    <2>5. AsksFirst(w, v, p)
      BY <2>2, <2>3 DEF Safe, AsksFirst
    <2>6. ASSUME NEW k, NEW i, Follows(u, p, k, i) PROVE Follows(v, p, k, i)
      BY <1>2, <2>2, <2>3, <2>6 DEF Follows
    <2>7. Safe(w, v, p)
      BY <2>2, <2>4, <2>5, <2>6 DEF Safe, InOrder
    <2>8. Complete(w, v, p)
      BY <2>2, <2>3 DEF Full, Complete
    <2>9. RunsOn(w, v, p) /\ Asks(w, v, p)
      BY <2>2 DEF Full, RunsOn, Asks
    <2>10. QED
      BY <2>7, <2>8, <2>9 DEF Full, v
  <1>3. QED
    BY <1>1, <1>2

\* A question answered is kept in hand, and its answer is on its way.
LEMMA KeySafe ==
    ASSUME NEW w \in Views, NEW u \in Mirrors, NEW p \in Seq(FeedNotes), Safe(w, u, p),
             Full(w, u, p),
           NEW t \in u.prompts, NEW x, x.log = w.log, x.run = w.run, x.standing = w.standing,
             x.subs = w.subs,
           x.answered = w.answered \cup {t}, NEW v,
           v = [u EXCEPT !.prompts = @ \ {t}, !.asked = @ \cup {t}]
    PROVE  Safe(x, v, p) /\ Full(x, v, p)
  <1>1. /\ v.on = u.on /\ v.await = u.await /\ v.shown = u.shown /\ v.running = u.running
        /\ v.prompts = u.prompts \ {t} /\ v.asked = u.asked \cup {t}
    BY DEF Mirrors
  <1>2. Feed!Seen(v) = Feed!Seen(u)
    BY <1>1 DEF Feed!Seen
  <1>3. Safe(w, v, p)
    <2>1. v.prompts \cup v.asked = u.prompts \cup u.asked
      BY <1>1
    <2>2. Sane(w, v)
      BY <1>1, <1>2, <2>1 DEF Safe, Sane
    <2>3. AsksFirst(w, v, p)
      BY <1>1, <1>2 DEF Safe, AsksFirst
    <2>4. \A k, i : Follows(u, p, k, i) => Follows(v, p, k, i)
      BY <1>1, <1>2 DEF Follows
    <2>5. QED
      BY <1>1, <2>2, <2>3, <2>4 DEF Safe, InOrder
  <1>4. Complete(w, v, p) /\ RunsOn(w, v, p)
    BY <1>1, <1>2 DEF Full, Complete, RunsOn
  <1>5. Complete(x, v, p) /\ RunsOn(x, v, p)
    BY <1>4 DEF Complete, RunsOn
  <1>6. Asks(x, v, p)
    <2>1. u.prompts \cup w.answered \subseteq v.prompts \cup x.answered
      BY <1>1
    <2>2. QED
      BY <1>1, <2>1 DEF Full, Asks
  <1>7. QED
    BY <1>3, <1>5, <1>6, ViewAlike DEF Full

\* The answer to an answer: the question comes back or goes for good.
LEMMA HandSafe ==
    ASSUME NEW w \in Views, NEW u \in Mirrors, NEW p \in Seq(FeedNotes), Safe(w, u, p),
             Full(w, u, p),
           NEW t \in u.asked, NEW ok \in BOOLEAN, NEW v,
           v = [u EXCEPT !.asked = @ \ {t}, !.prompts = IF ok THEN @ ELSE @ \cup {t}]
    PROVE  Safe(w, v, p) /\ Full(w, v, p)
  <1>1. /\ v.on = u.on /\ v.await = u.await /\ v.shown = u.shown /\ v.running = u.running
        /\ v.prompts = (IF ok THEN u.prompts ELSE u.prompts \cup {t}) /\ v.asked = u.asked \ {t}
    BY DEF Mirrors
  <1>2. Feed!Seen(v) = Feed!Seen(u)
    BY <1>1 DEF Feed!Seen
  <1>3. v.prompts \cup v.asked \subseteq u.prompts \cup u.asked /\ u.prompts \subseteq v.prompts
    BY <1>1
  <1>4. Sane(w, v)
    BY <1>1, <1>2, <1>3 DEF Safe, Sane
  <1>5. AsksFirst(w, v, p)
    BY <1>1, <1>2 DEF Safe, AsksFirst
  <1>6. \A k, i : Follows(u, p, k, i) => Follows(v, p, k, i)
    BY <1>1, <1>2 DEF Follows
  <1>7. Safe(w, v, p)
    BY <1>1, <1>4, <1>5, <1>6 DEF Safe, InOrder
  <1>8. Complete(w, v, p) /\ RunsOn(w, v, p)
    BY <1>1, <1>2 DEF Full, Complete, RunsOn
  <1>9. Asks(w, v, p)
    BY <1>1, <1>3 DEF Full, Asks
  <1>10. QED
    BY <1>7, <1>8, <1>9 DEF Full

-----------------------------------------------------------------------------
(* A newcomer is sent everything                                           *)

\* r goes on from p with what a newcomer to session s is owed.
AttachedTo(p, r, w, s) ==
    LET at == Len(p) + Len(w.log) IN
    /\ Extends(p, r) /\ at <= Len(r)
    /\ \A i \in 1..Len(w.log) : r[Len(p) + i] = Feed!EntryNote(s, i, w.log[i])
    /\ w.run # 0 => at + 1 <= Len(r) /\ r[at + 1] = Feed!StateNote(s, w.run, TRUE)
    /\ w.standing # {} => at + 2 = Len(r) /\ r[at + 2] = Feed!AskNote(s, w.run)
    /\ w.standing = {} => Len(r) <= at + 1
    /\ w.run = 0 => at = Len(r)

\* An attach sends the whole log, the turn, and the question that stands.
LEMMA AttachIs ==
    ASSUME FeedShape, NEW s \in Sessions, LogOk(Of(s)), NEW p \in Seq(FeedNotes)
    PROVE  AttachedTo(p, p \o Feed!Attachment(s), Of(s), s)
  <1> DEFINE w == Of(s)
             L == Len(w.log)
             a == [j \in 1..Len(log[s]) |-> Feed!EntryNote(s, j, log[s][j])]
             b == IF run[s] = 0 THEN <<>> ELSE <<Feed!StateNote(s, run[s], TRUE)>>
             c == IF stands[s] = {} THEN <<>> ELSE <<Feed!AskNote(s, run[s])>>
  <1>0. /\ w.log = log[s] /\ w.run = run[s] /\ w.standing = stands[s] /\ log[s] \in Seq(FeedKinds)
        /\ run[s] \in Nat /\ L \in Nat /\ (w.standing # {} => w.run # 0)
    BY DEF Of, FeedShape, LogOk
  <1>1. a \in Seq(FeedNotes) /\ Len(a) = L /\ \A i \in 1..L : a[i] = Feed!EntryNote(s, i, w.log[i])
    <2>1. \A i \in 1..L : Feed!EntryNote(s, i, log[s][i]) \in FeedNotes
      BY <1>0 DEF Feed!EntryNote, FeedNotes, NoteKinds
    <2>2. QED
      BY <1>0, <2>1
  <1>2. /\ b \in Seq(FeedNotes) /\ (w.run = 0 => Len(b) = 0)
        /\ w.run # 0 => Len(b) = 1 /\ b[1] = Feed!StateNote(s, w.run, TRUE)
    <2>1. CASE w.run = 0
      <3>1. b = <<>>
        BY <1>0, <2>1
      <3>2. QED
        BY <2>1, <3>1
    <2>2. CASE w.run # 0
      <3>1. b = <<Feed!StateNote(s, w.run, TRUE)>>
        BY <1>0, <2>2
      <3>2. Feed!StateNote(s, w.run, TRUE) \in FeedNotes
        BY <1>0, StateShape
      <3> DEFINE y == Feed!StateNote(s, w.run, TRUE)
      <3> HIDE DEF b, y
      <3>3. b = <<y>> /\ y \in FeedNotes
        BY <3>1, <3>2 DEF y
      <3>4. b \in Seq(FeedNotes) /\ Len(b) = 1 /\ b[1] = y
        BY <3>3
      <3>5. QED
        BY <2>2, <3>4 DEF y
    <2>3. QED
      BY <2>1, <2>2
  <1>3. /\ c \in Seq(FeedNotes) /\ (w.standing = {} => Len(c) = 0)
        /\ w.standing # {} => Len(c) = 1 /\ c[1] = Feed!AskNote(s, w.run)
    <2>1. CASE w.standing = {}
      <3>1. c = <<>>
        BY <1>0, <2>1
      <3>2. QED
        BY <2>1, <3>1
    <2>2. CASE w.standing # {}
      <3>1. c = <<Feed!AskNote(s, w.run)>>
        BY <1>0, <2>2
      <3>2. Feed!AskNote(s, w.run) \in FeedNotes
        BY <1>0, StateShape
      <3> HIDE DEF c
      <3>3. QED
        BY <2>2, <3>1, <3>2
    <2>3. QED
      BY <2>1, <2>2
  <1>4. Feed!Attachment(s) = (a \o b) \o c
    BY DEF Feed!Attachment
  <1> DEFINE d == a \o b
             e == d \o c
             r == p \o e
  <1> HIDE DEF a, b, c, w, L
  <1>5. /\ d \in Seq(FeedNotes) /\ Len(d) = L + Len(b)
        /\ \A i \in 1..L : d[i] = Feed!EntryNote(s, i, w.log[i])
        /\ w.run # 0 => d[L + 1] = Feed!StateNote(s, w.run, TRUE)
    <2>1. /\ d \in Seq(FeedNotes) /\ Len(d) = L + Len(b) /\ (\A i \in 1..L : d[i] = a[i])
          /\ \A i \in L + 1..L + Len(b) : d[i] = b[i - L]
      BY <1>1, <1>2, JoinIs
    <2> HIDE DEF d
    <2>2. ASSUME w.run # 0 PROVE d[L + 1] = b[1]
      <3>1. Len(b) = 1
        BY <1>2, <2>2
      <3>2. L + 1 \in L + 1..L + Len(b) /\ (L + 1) - L = 1
        BY <1>0, <3>1
      <3>3. QED
        BY <2>1, <3>2
    <2>3. QED
      BY <1>1, <1>2, <2>1, <2>2
  <1> HIDE DEF d
  <1>6. /\ e \in Seq(FeedNotes) /\ Len(e) = L + Len(b) + Len(c)
        /\ \A i \in 1..L : e[i] = Feed!EntryNote(s, i, w.log[i])
        /\ w.run # 0 => e[L + 1] = Feed!StateNote(s, w.run, TRUE)
        /\ w.standing # {} => e[L + 2] = Feed!AskNote(s, w.run)
    <2>1. /\ e \in Seq(FeedNotes) /\ Len(e) = Len(d) + Len(c) /\ (\A i \in 1..Len(d) : e[i] = d[i])
          /\ \A i \in Len(d) + 1..Len(d) + Len(c) : e[i] = c[i - Len(d)]
      BY <1>3, <1>5, JoinIs
    <2> HIDE DEF e
    <2>2. Len(d) \in Nat /\ Len(b) \in Nat
      BY <1>2, <1>5
    <2>3. ASSUME NEW i \in 1..L PROVE e[i] = d[i]
      <3>1. i \in 1..Len(d)
        BY <1>0, <1>5, <2>2
      <3>2. QED
        BY <2>1, <3>1
    <2>4. ASSUME w.run # 0 PROVE e[L + 1] = d[L + 1]
      <3>1. L + 1 \in 1..Len(d)
        <4>1. Len(b) = 1 /\ Len(d) = L + Len(b)
          BY <1>2, <1>5, <2>4
        <4>2. QED
          BY <1>0, <4>1
      <3>2. QED
        BY <2>1, <3>1
    <2>5. ASSUME w.standing # {} PROVE e[L + 2] = c[1]
      <3>1. Len(d) = L + 1 /\ Len(c) = 1
        BY <1>0, <1>2, <1>3, <1>5, <2>5
      <3>2. L + 2 \in Len(d) + 1..Len(d) + Len(c) /\ (L + 2) - Len(d) = 1
        BY <1>0, <3>1
      <3>3. QED
        BY <2>1, <3>2
    <2>6. QED
      BY <1>3, <1>5, <2>1, <2>3, <2>4, <2>5
  <1> HIDE DEF e
  <1>7. /\ Len(p) \in Nat /\ Len(r) = Len(p) + Len(e) /\ (\A i \in 1..Len(p) : r[i] = p[i])
        /\ \A i \in Len(p) + 1..Len(p) + Len(e) : r[i] = e[i - Len(p)]
    BY <1>6, JoinIs
  <1>8. Len(e) \in Nat /\ Len(b) \in Nat /\ Len(c) \in Nat
    BY <1>2, <1>3, <1>6
  <1> HIDE DEF r
  <1>9. ASSUME NEW i \in 1..Len(e) PROVE r[Len(p) + i] = e[i]
    <2>1. Len(p) + i \in Len(p) + 1..Len(p) + Len(e) /\ (Len(p) + i) - Len(p) = i
      BY <1>7, <1>8
    <2>2. QED
      BY <1>7, <2>1
  <1>10. Extends(p, r)
    BY <1>7, <1>8 DEF Extends
  <1>11. \A i \in 1..L : r[Len(p) + i] = Feed!EntryNote(s, i, w.log[i])
    <2>1. ASSUME NEW i \in 1..L PROVE i \in 1..Len(e)
      BY <1>0, <1>6, <1>8
    <2>2. QED
      BY <1>6, <1>9, <2>1
  <1>12. ASSUME w.run # 0
         PROVE  (Len(p) + L) + 1 <= Len(r) /\ r[(Len(p) + L) + 1] = Feed!StateNote(s, w.run, TRUE)
    <2>1. L + 1 \in 1..Len(e) /\ (Len(p) + L) + 1 = Len(p) + (L + 1) /\ Len(p) + (L + 1) <= Len(r)
      <3>1. Len(b) = 1 /\ Len(e) = L + Len(b) + Len(c) /\ Len(r) = Len(p) + Len(e)
        BY <1>2, <1>6, <1>7, <1>12
      <3>2. Len(c) \in Nat /\ Len(p) \in Nat
        BY <1>7, <1>8
      <3>3. QED
        BY <1>0, <3>1, <3>2
    <2>2. r[Len(p) + (L + 1)] = e[L + 1]
      BY <1>9, <2>1
    <2>3. QED
      BY <1>6, <1>12, <2>1, <2>2
  <1>13. ASSUME w.standing # {}
         PROVE  (Len(p) + L) + 2 = Len(r) /\ r[(Len(p) + L) + 2] = Feed!AskNote(s, w.run)
    <2>1. Len(b) = 1 /\ Len(c) = 1
      BY <1>0, <1>2, <1>3, <1>13
    <2>2. L + 2 \in 1..Len(e) /\ (Len(p) + L) + 2 = Len(p) + (L + 2) /\ Len(p) + (L + 2) = Len(r)
      BY <1>0, <1>6, <1>7, <2>1
    <2>3. r[Len(p) + (L + 2)] = e[L + 2]
      BY <1>9, <2>2
    <2>4. QED
      BY <1>6, <1>13, <2>2, <2>3
  <1>14. /\ Len(p) + L <= Len(r)
         /\ w.standing = {} => Len(r) <= (Len(p) + L) + 1
         /\ w.run = 0 => Len(p) + L = Len(r)
    <2>1. Len(b) <= 1 /\ (w.standing = {} => Len(c) = 0) /\ (w.run = 0 => Len(b) = 0 /\ Len(c) = 0)
      <3>1. CASE w.run = 0
        BY <1>0, <1>2, <1>3, <3>1
      <3>2. CASE w.run # 0
        <4>1. Len(b) = 1
          BY <1>2, <3>2
        <4>2. QED
          BY <1>3, <3>2, <4>1
      <3>3. QED
        BY <3>1, <3>2
    <2>2. Len(r) = Len(p) + (L + Len(b) + Len(c)) /\ Len(p) \in Nat
      BY <1>6, <1>7
    <2>3. Len(p) + L <= Len(r)
      BY <1>0, <1>8, <2>2
    <2>4. ASSUME w.standing = {} PROVE Len(r) <= (Len(p) + L) + 1
      BY <1>0, <1>8, <2>1, <2>2, <2>4
    <2>5. ASSUME w.run = 0 PROVE Len(p) + L = Len(r)
      BY <1>0, <1>8, <2>1, <2>2, <2>5
    <2>6. QED
      BY <2>3, <2>4, <2>5
  <1>15. AttachedTo(p, r, w, s)
    BY <1>10, <1>11, <1>12, <1>13, <1>14 DEF AttachedTo, L
  <1>16. QED
    BY <1>4, <1>15 DEF r, e, d, w

\* A new mirror that is sent an attach is Safe, and Full.
LEMMA AttachSafe ==
    ASSUME NEW s \in Sessions, NEW w \in Views, NEW x \in Views, w.log # <<>>,
           x.log = w.log, x.run = w.run, x.standing = w.standing,
           NEW p \in Seq(FeedNotes), NEW r \in Seq(FeedNotes), AttachedTo(p, r, w, s),
           Safe(w, Feed!Fresh(s, TRUE), p)
    PROVE  Safe(x, Feed!Fresh(s, TRUE), r) /\ Full(x, Feed!Fresh(s, TRUE), r)
  <1> DEFINE u == Feed!Fresh(s, TRUE)
             L == Len(w.log)
             at == Len(p) + L
  <1>0. /\ w.log \in Seq(FeedKinds) /\ L \in Nat /\ L # 0 /\ Len(p) \in Nat /\ Len(r) \in Nat
             /\ LogOk(w) /\ at \in Nat
        /\ w.run \in Nat /\ at <= Len(r) /\ Len(p) <= Len(r) /\ \A k \in 1..Len(p) : r[k] = p[k]
    BY DEF Views, Safe, AttachedTo, Extends
  <1>1. u.on = s /\ u.await /\ Feed!Seen(u) = {} /\ u.prompts = {} /\ u.asked = {}
    BY DEF Feed!Fresh, Feed!Seen, Feed!ToSet
  <1>2. Safe(w, u, p)
    OBVIOUS
  <1> HIDE DEF u
  <1>3. ASSUME NEW i \in 1..L
        PROVE  /\ Len(p) + i \in 1..Len(r) /\ r[Len(p) + i].t = "entry" /\ r[Len(p) + i].s = s
               /\ r[Len(p) + i].i = i /\ r[Len(p) + i].k = w.log[i] /\ IsEntry(r[Len(p) + i], s, i)
    <2>1. r[Len(p) + i] = Feed!EntryNote(s, i, w.log[i])
      BY DEF AttachedTo
    <2>2. Len(p) + i \in 1..Len(r)
      BY <1>0
    <2>3. QED
      BY <2>1, <2>2 DEF Feed!EntryNote, IsEntry
  <1>4. w.standing # {} => w.run # 0 /\ w.run \in w.standing
          /\ \A i \in 1..L : i > w.run => w.log[i] # "decided"
    BY <1>0 DEF LogOk
  <1>5. ASSUME NEW k \in 1..Len(r), k > at
        PROVE  \/ k = at + 1 /\ w.run # 0 /\ r[k].t = "state" /\ r[k].k = "run" /\ r[k].s = s
               \/ k = at + 2 /\ k = Len(r) /\ w.standing # {} /\ r[k].t = "ask" /\ r[k].k = "ask"
                    /\ r[k].i = w.run
    <2>1. w.run # 0
      BY <1>0, <1>5 DEF AttachedTo
    <2>2. r[at + 1] = Feed!StateNote(s, w.run, TRUE)
      BY <2>1 DEF AttachedTo
    <2>3. CASE k = at + 1
      BY <2>1, <2>2, <2>3 DEF Feed!StateNote
    <2>4. CASE k # at + 1
      <3>1. w.standing # {}
        <4>1. SUFFICES ASSUME w.standing = {} PROVE FALSE
          OBVIOUS
        <4>2. Len(r) <= at + 1
          BY <4>1 DEF AttachedTo
        <4>3. k \in Int /\ k <= Len(r)
          BY <1>0
        <4> HIDE DEF at
        <4>4. QED
          BY <1>0, <1>5, <2>4, <4>2, <4>3
      <3>2. at + 2 = Len(r) /\ r[at + 2] = Feed!AskNote(s, w.run)
        BY <3>1 DEF AttachedTo
      <3>3. k = at + 2
        <4>1. k \in Int /\ k <= Len(r) /\ at + 2 = Len(r)
          BY <1>0, <3>2
        <4> HIDE DEF at
        <4>2. QED
          BY <1>0, <1>5, <2>4, <4>1
      <3>4. QED
        BY <3>1, <3>2, <3>3 DEF Feed!AskNote
    <2>5. QED
      BY <2>3, <2>4
  <1>6. ASSUME NEW k \in 1..Len(r)
        PROVE  \/ k \in 1..Len(p) /\ r[k] = p[k]
               \/ \E i \in 1..L : k = Len(p) + i
               \/ k > at
    <2>1. CASE k <= Len(p)
      BY <1>0, <2>1
    <2>2. CASE k > Len(p) /\ k <= at
      <3>1. k - Len(p) \in 1..L /\ k = Len(p) + (k - Len(p))
        BY <1>0, <2>2
      <3>2. QED
        BY <3>1
    <2>3. QED
      BY <1>0, <2>1, <2>2
  <1>7. LogOk(x)
    BY <1>0 DEF LogOk
  <1>8. Told(x, s, r)
    <2>1. ASSUME NEW k \in 1..Len(r), r[k].s = s PROVE Genuine(x, r[k])
      <3>1. CASE k \in 1..Len(p) /\ r[k] = p[k]
        <4>1. Genuine(w, p[k])
          BY <1>1, <1>2, <2>1, <3>1 DEF Safe, Told
        <4>2. QED
          BY <3>1, <4>1 DEF Genuine, WasPut
      <3>2. ASSUME NEW i \in 1..L, k = Len(p) + i PROVE Genuine(x, r[k])
        BY <1>3, <3>2 DEF Genuine
      <3>3. CASE k > at
        <4>1. w.run \in 0..L
          BY <1>0 DEF LogOk
        <4>2. w.standing # {} => WasPut(x, w.run)
          BY <1>0, <1>4, <4>1 DEF WasPut
        <4>3. QED
          BY <1>5, <3>3, <4>2 DEF Genuine
      <3>4. QED
        BY <1>6, <3>1, <3>2, <3>3
    <2>2. QED
      BY <2>1 DEF Told
  <1>9. Sane(x, u)
    BY <1>1 DEF Sane
  <1>10. AsksFirst(x, u, r)
    <2>1. ASSUME NEW k \in 1..Len(r), IsAsk(r[k], s), NEW i \in 1..L, i > r[k].i,
                   w.log[i] = "decided",
                 NEW j \in 1..Len(r), j < k, IsEntry(r[j], s, i)
          PROVE  FALSE
      <3>1. CASE k \in 1..Len(p) /\ r[k] = p[k]
        <4>1. j \in 1..Len(p) /\ r[j] = p[j]
          BY <1>0, <2>1, <3>1
        <4>2. QED
          BY <1>1, <1>2, <2>1, <3>1, <4>1 DEF Safe, AsksFirst
      <3>2. ASSUME NEW h \in 1..L, k = Len(p) + h PROVE FALSE
        BY <1>3, <2>1, <3>2 DEF IsAsk
      <3>3. CASE k > at
        BY <1>4, <1>5, <2>1, <3>3 DEF IsAsk
      <3>4. QED
        BY <1>6, <3>1, <3>2, <3>3
    <2>2. QED
      BY <1>1, <2>1 DEF AsksFirst
  <1>11. InOrder(u, r)
    <2>1. ASSUME NEW k \in 1..Len(r), r[k].t = "entry", r[k].s = s PROVE Follows(u, r, k, r[k].i)
      <3>1. CASE k \in 1..Len(p) /\ r[k] = p[k]
        <4>1. Follows(u, p, k, r[k].i) /\ k \in 1..Len(p) + 1
          BY <1>0, <1>1, <1>2, <2>1, <3>1 DEF Safe, InOrder
        <4>2. Extends(p, r)
          BY DEF AttachedTo
        <4>3. QED
          BY <4>1, <4>2, ExtendsFollows
      <3>2. ASSUME NEW i \in 1..L, k = Len(p) + i PROVE Follows(u, r, k, i)
        <4>1. CASE i = 1
          BY <4>1 DEF Follows
        <4>2. CASE i # 1
          <5>1. i - 1 \in 1..L /\ Len(p) + (i - 1) < k /\ k = (Len(p) + (i - 1)) + 1
            BY <1>0, <3>2, <4>2
          <5>2. Len(p) + (i - 1) \in 1..Len(r) /\ IsEntry(r[Len(p) + (i - 1)], s, i - 1)
            BY <1>3, <5>1
          <5>3. NoHead(r, s, Len(p) + (i - 1), k)
            BY <1>0, <5>1 DEF NoHead
          <5>4. QED
            BY <1>1, <5>1, <5>2, <5>3 DEF Follows
        <4>3. QED
          BY <4>1, <4>2
      <3>3. CASE k > at
        BY <1>5, <2>1, <3>3
      <3>4. QED
        BY <1>3, <1>6, <3>1, <3>2, <3>3
    <2>2. QED
      BY <1>1, <2>1 DEF InOrder
  <1>12. Follows(u, r, Len(r) + 1, L + 1)
    <2>1. at \in 1..Len(r) /\ at < Len(r) + 1 /\ IsEntry(r[at], s, (L + 1) - 1)
      BY <1>0, <1>3
    <2>2. NoHead(r, s, at, Len(r) + 1)
      BY <1>5 DEF NoHead, IsEntry
    <2>3. QED
      BY <1>1, <2>1, <2>2 DEF Follows
  <1>13. Safe(x, u, r)
    BY <1>1, <1>7, <1>8, <1>9, <1>10, <1>11, <1>12 DEF Safe
  <1>14. Complete(x, u, r)
    <2>1. ASSUME NEW i \in 1..L
          PROVE  \E j \in 1..Len(r) : /\ IsEntry(r[j], s, i)
                                      /\ \E h \in 1..Len(r) : h <= j /\ IsEntry(r[h], s, 1)
      <3>1. 1 \in 1..L /\ Len(p) + 1 <= Len(p) + i
        BY <1>0
      <3>2. Len(p) + 1 \in 1..Len(r) /\ IsEntry(r[Len(p) + 1], s, 1)
        BY <1>3, <3>1
      <3>3. Len(p) + i \in 1..Len(r) /\ IsEntry(r[Len(p) + i], s, i)
        BY <1>3
      <3>4. QED
        BY <3>1, <3>2, <3>3
    <2>2. QED
      BY <1>1, <2>1 DEF Complete
  <1>15. RunsOn(x, u, r)
    <2>1. SUFFICES ASSUME w.run # 0 PROVE RunsOn(x, u, r)
      BY DEF RunsOn
    <2>2. at + 1 \in 1..Len(r) /\ at + 1 > at
      <3>1. at + 1 <= Len(r)
        BY <2>1 DEF AttachedTo
      <3> HIDE DEF at
      <3>2. QED
        BY <1>0, <3>1
    <2>3. IsRun(r[at + 1], s)
      <3>1. at + 1 # at + 2
        BY <1>0
      <3>2. QED
        BY <1>5, <2>2, <3>1 DEF IsRun
    <2>4. ASSUME NEW h \in 1..Len(r), h > at + 1 PROVE ~IsRest(r[h], s)
      <3>1. h > at /\ h # at + 1
        BY <1>0, <2>4
      <3>2. QED
        BY <1>5, <3>1 DEF IsRest
    <2>5. QED
      BY <1>1, <2>2, <2>3, <2>4 DEF RunsOn
  <1>16. Asks(x, u, r)
    <2>1. SUFFICES ASSUME NEW t \in w.standing
                   PROVE  \E j \in 1..Len(r) : IsAsk(r[j], s) /\ r[j].i = t /\ Mute(r, s, j)
      BY <1>1 DEF Asks
    <2>2. t = w.run /\ at + 2 = Len(r) /\ r[at + 2] = Feed!AskNote(s, w.run)
      BY <1>0 DEF LogOk, AttachedTo
    <2>3. Len(r) \in 1..Len(r) /\ Mute(r, s, Len(r))
      BY <1>0, <2>2 DEF Mute
    <2>4. QED
      BY <2>2, <2>3 DEF Feed!AskNote, IsAsk
  <1>17. QED
    BY <1>13, <1>14, <1>15, <1>16 DEF Full, u

-----------------------------------------------------------------------------
(* How a session moves                                                     *)

Grew(s, ks) == log' = Feed!Grow(s, ks)
Sent(s, ns) == notes' = notes \o Feed!Copies(s, ns)

Noted(s) ==
    /\ Grew(s, <<"note">>) /\ Sent(s, Feed!Entries(s, <<"note">>))
    /\ UNCHANGED <<run, stands>>
Began(s) ==
    /\ run[s] = 0 /\ Grew(s, <<"user">>) /\ run' = [run EXCEPT ![s] = Len(log[s]) + 1]
    /\ Sent(s, Feed!Entries(s, <<"user">>) \o <<Feed!StateNote(s, Len(log[s]) + 1, TRUE)>>)
    /\ UNCHANGED stands
Asked(s) ==
    /\ run[s] # 0 /\ stands[s] = {}
    /\ ~\E i \in 1..Len(log[s]) : i > run[s] /\ log[s][i] = "decided"
    /\ stands' = [stands EXCEPT ![s] = {run[s]}]
    /\ Sent(s, <<Feed!AskNote(s, run[s])>>)
    /\ UNCHANGED <<log, run>>
DecidedIn(s) ==
    /\ stands[s] # {} /\ stands' = [stands EXCEPT ![s] = {}]
    /\ Grew(s, <<"decided">>) /\ Sent(s, Feed!Entries(s, <<"decided">>))
    /\ UNCHANGED run
Stopped(s) ==
    /\ run[s] # 0 /\ stands[s] = {}
    /\ Sent(s, <<Feed!StateNote(s, run[s], FALSE)>>)
    /\ run' = [run EXCEPT ![s] = 0]
    /\ UNCHANGED <<log, stands>>
Denied(s) ==
    /\ run[s] # 0 /\ stands[s] # {} /\ stands' = [stands EXCEPT ![s] = {}]
    /\ Grew(s, <<"decided">>)
    /\ Sent(s, Feed!Entries(s, <<"decided">>) \o <<Feed!StateNote(s, run[s], FALSE)>>)
    /\ run' = [run EXCEPT ![s] = 0]

\* Session s moves, and is torn when it is being replayed to the client.
SessionStep(s) ==
    /\ HasLog(s) /\ raced' = raced \cup Feed!MidAttach(s)
    /\ Noted(s) \/ Began(s) \/ Asked(s) \/ DecidedIn(s) \/ Stopped(s) \/ Denied(s)
    /\ UNCHANGED <<subs, deliver, ui, sw, typed, known>>

\* The server stands still.
Still == UNCHANGED <<log, run, stands, subs, raced>>

\* What sessions do of themselves is a step of one session, told to its client.
LEMMA MovesAre ==
    ASSUME FeedShape, NEW s \in Sessions,
           \/ Feed!AppendNote(s) \/ Feed!StartTurn(s) \/ Feed!Ask(s) \/ Feed!Decide(s)
                \/ Feed!EndTurn(s)
    PROVE  SessionStep(s) /\ UNCHANGED <<reqs, answers>>
  <1>0. Feed!Moves(s) => HasLog(s) /\ raced' = raced \cup Feed!MidAttach(s)
    BY DEF Feed!Moves, Feed!Live, HasLog
  <1>1. CASE Feed!AppendNote(s)
    BY <1>0, <1>1 DEF Feed!AppendNote, Feed!client, SessionStep, Noted, Grew, Sent
  <1>2. CASE Feed!StartTurn(s)
    BY <1>0, <1>2 DEF Feed!StartTurn, Feed!BeginTurn, Feed!client, SessionStep, Began, Grew, Sent
  <1>3. CASE Feed!Ask(s)
    BY <1>0, <1>3 DEF Feed!Ask, Feed!client, SessionStep, Asked, Grew, Sent
  <1>4. CASE Feed!Decide(s)
    BY <1>0, <1>4 DEF Feed!Decide, Feed!Decided, Feed!client, SessionStep, DecidedIn, Grew, Sent
  <1>5. CASE Feed!EndTurn(s)
    <2>1. /\ HasLog(s) /\ raced' = raced \cup Feed!MidAttach(s) /\ run[s] # 0
          /\ UNCHANGED <<subs, deliver, reqs, answers, ui, sw, typed, known>>
          /\ stands' = [stands EXCEPT ![s] = {}] /\ run' = [run EXCEPT ![s] = 0]
      BY <1>0, <1>5 DEF Feed!EndTurn, Feed!client
    <2>2. CASE stands[s] = {}
      <3>1. log' = Feed!Grow(s, <<>>)
            /\ notes' = notes \o Feed!Copies(s,
                 Feed!Entries(s, <<>>) \o <<Feed!StateNote(s, run[s], FALSE)>>)
        BY <1>5, <2>2 DEF Feed!EndTurn
      <3>2. log' = log
        <4>1. log[s] \o <<>> = log[s]
          BY DEF FeedShape
        <4>2. QED
          BY <3>1, <4>1 DEF FeedShape, Feed!Grow
      <3>3. Feed!Entries(s, <<>>) \o <<Feed!StateNote(s, run[s], FALSE)>> = <<Feed!StateNote(s,
              run[s], FALSE)>>
        <4>1. Feed!Entries(s, <<>>) = <<>>
          BY DEF Feed!Entries
        <4>2. \A x : <<>> \o <<x>> = <<x>>
          OBVIOUS
        <4>3. QED
          BY <4>1, <4>2
      <3>4. stands' = stands
        BY <2>1, <2>2 DEF FeedShape
      <3>5. Stopped(s)
        BY <2>1, <2>2, <3>1, <3>2, <3>3, <3>4 DEF Stopped, Sent
      <3>6. QED
        BY <2>1, <3>5 DEF SessionStep
    <2>3. CASE stands[s] # {}
      <3>1. log' = Feed!Grow(s, <<"decided">>)
            /\ notes' = notes \o Feed!Copies(s,
                 Feed!Entries(s, <<"decided">>) \o <<Feed!StateNote(s, run[s], FALSE)>>)
        BY <1>5, <2>3 DEF Feed!EndTurn
      <3>2. Denied(s)
        BY <2>1, <2>3, <3>1 DEF Denied, Sent, Grew
      <3>3. QED
        BY <2>1, <3>2 DEF SessionStep
    <2>4. QED
      BY <2>2, <2>3
  <1>6. QED
    BY <1>1, <1>2, <1>3, <1>4, <1>5

\* A submit and an answer move their session or change nothing of it.
LEMMA ServesAre ==
    ASSUME FeedShape, NEW q \in reqs, HasLog(q.s), Feed!ServeSubmit(q) \/ Feed!ServeAnswer(q)
    PROVE  /\ reqs' = reqs \ {q} /\ ~deliver.on
           /\ \/ /\ SessionStep(q.s)
                 /\ \/ /\ q.m = "submit" /\ Began(q.s)
                       /\ answers' = answers \cup {Feed!Ans(q, TRUE, Len(log[q.s]) + 1)}
                    \/ /\ q.m = "answer" /\ q.i \in stands[q.s] /\ DecidedIn(q.s)
                       /\ answers' = answers \cup {Feed!Ans(q, TRUE, 0)}
              \/ /\ Still /\ UNCHANGED <<deliver, notes, ui, sw, typed, known>>
                 /\ q.m \in {"submit", "answer"} /\ (q.m = "answer" => q.i \notin stands[q.s])
                 /\ answers' = answers \cup {Feed!Ans(q, FALSE, 0)}
  <1>0. ~deliver.on => Feed!MidAttach(q.s) = {}
    BY DEF Feed!MidAttach
  <1>1. CASE Feed!ServeSubmit(q)
    <2>1. CASE run[q.s] = 0 /\ Feed!Room(q.s)
      BY <1>0, <1>1, <2>1 DEF Feed!ServeSubmit, Feed!BeginTurn, Feed!Serve, Feed!client, SessionStep,
         Began, Grew, Sent
    <2>2. CASE ~(run[q.s] = 0 /\ Feed!Room(q.s))
      BY <1>1, <2>2 DEF Feed!ServeSubmit, Feed!Serve, Feed!client, Still
    <2>3. QED
      BY <2>1, <2>2
  <1>2. CASE Feed!ServeAnswer(q)
    <2>1. CASE q.i \in stands[q.s]
      BY <1>0, <1>2, <2>1 DEF Feed!ServeAnswer, Feed!Decided, Feed!Serve, Feed!client, SessionStep,
         DecidedIn, Grew, Sent
    <2>2. CASE q.i \notin stands[q.s]
      BY <1>2, <2>2 DEF Feed!ServeAnswer, Feed!Serve, Feed!client, Still
    <2>3. QED
      BY <2>1, <2>2
  <1>3. QED
    BY <1>1, <1>2

-----------------------------------------------------------------------------
(* The session and the mirrors of a state                                  *)

Waiting(s) == Feed!Fresh(s, TRUE)
Logs == \A s \in Sessions : LogOk(Of(s))

\* The types of the views and of what is under way.
LEMMA ViewTypes ==
    ASSUME FeedShape
    PROVE  /\ \A s \in Sessions : Of(s) \in Views
           /\ \A s \in Sessions : Pending(s) \in Seq(FeedNotes)
           /\ \A s \in Sessions : Waiting(s) \in Mirrors /\ Waiting(s).on = s
           /\ ui \in Mirrors /\ ui.on \in Sessions
           /\ sw.buffer \in Seq(FeedNotes) /\ notes \in Seq(FeedNotes)
                /\ deliver.left \in Seq(FeedNotes)
           /\ sw.buffer \o notes \in Seq(FeedNotes)
  <1>1. ASSUME NEW s \in Sessions PROVE Of(s) \in Views
    <2>1. /\ log[s] \in Seq(FeedKinds) /\ run[s] \in Nat /\ stands[s] \in SUBSET Nat
               /\ subs[s] \in {0, 1}
      BY DEF FeedShape
    <2>2. {q.i : q \in {r \in reqs : r.m = "answer" /\ r.s = s}} \in SUBSET Nat
      <3>1. \A q \in reqs : q.i \in Nat
        BY DEF FeedShape, FeedReqs
      <3>2. QED
        BY <3>1
    <2>3. QED
      BY <2>1, <2>2 DEF Of, Views
  <1>2. sw.buffer \in Seq(FeedNotes) /\ notes \in Seq(FeedNotes) /\ deliver.left \in Seq(FeedNotes)
    BY DEF FeedShape
  <1>3. sw.buffer \o notes \in Seq(FeedNotes)
    BY <1>2
  <1>4. ASSUME NEW s \in Sessions PROVE Pending(s) \in Seq(FeedNotes)
    <2>1. \A d \in Seq(FeedNotes) : (sw.buffer \o notes) \o d \in Seq(FeedNotes)
      BY <1>3
    <2>2. <<>> \in Seq(FeedNotes)
      OBVIOUS
    <2>3. QED
      BY <1>2, <2>1, <2>2 DEF Pending
  <1>5. ui \in Mirrors /\ ui.on \in Sessions
    BY DEF FeedShape, Homely, Mirrors
  <1>6. QED
    BY <1>1, <1>2, <1>3, <1>4, <1>5, FreshHomely DEF Homely, Waiting

\* A session other than the one that moves has the same view, and s walks one step or two;
\* when it is not torn it is not being replayed.
Walks(s) ==
    /\ HasLog(s) /\ raced \subseteq raced' /\ (s \notin raced' => ~(deliver.on /\ deliver.s = s))
    /\ UNCHANGED <<subs, deliver, ui, sw, known>>
    /\ \A r \in Sessions : r # s => Of(r)' = Of(r)
    /\ \/ \E n \in FeedNotes :
            /\ Steps(Of(s), Of(s)', n, s)
            /\ notes' = notes \o IF subs[s] = 1 THEN <<n>> ELSE <<>>
       \/ \E m, n \in FeedNotes, y \in Views :
            /\ Steps(Of(s), y, m, s) /\ Steps(y, Of(s)', n, s)
            /\ notes' = notes \o IF subs[s] = 1 THEN <<m, n>> ELSE <<>>

\* The answers on their way: none was served, but one that settled a question of s.
Answering(s) ==
    /\ \A r \in Sessions : r # s => Of(r)'.answered = Of(r).answered
    /\ Of(s)'.answered # Of(s).answered => DecidedIn(s)

\* The notification of one entry.
LEMMA EntryIs ==
    ASSUME FeedShape, NEW s \in Sessions, NEW k \in FeedKinds
    PROVE  /\ Feed!Entries(s, <<k>>) = <<Feed!EntryNote(s, Len(log[s]) + 1, k)>>
           /\ Feed!EntryNote(s, Len(log[s]) + 1, k) \in FeedNotes
  <1>1. <<k>> \in Seq(FeedKinds) /\ Len(<<k>>) = 1 /\ <<k>>[1] = k /\ 1 \in 1..1
    OBVIOUS
  <1>2. /\ Feed!Entries(s, <<k>>) \in Seq(FeedNotes) /\ Len(Feed!Entries(s, <<k>>)) = 1
        /\ Feed!Entries(s, <<k>>)[1] = Feed!EntryNote(s, Len(log[s]) + 1, k)
    BY <1>1, EntriesShape
  <1>3. \A e \in Seq(FeedNotes) : Len(e) = 1 => e = <<e[1]>> /\ e[1] \in FeedNotes
    OBVIOUS
  <1>4. QED
    BY <1>2, <1>3

\* What one entry makes of the logs.
LEMMA GrewIs ==
    ASSUME FeedShape, NEW s \in Sessions, NEW k \in FeedKinds, Grew(s, <<k>>)
    PROVE  /\ log'[s] = Append(log[s], k) /\ \A r \in Sessions : r # s => log'[r] = log[r]
           /\ log' \in [Sessions -> Seq(FeedKinds)]
  <1>1. log[s] \in Seq(FeedKinds) /\ log \in [Sessions -> Seq(FeedKinds)]
    BY DEF FeedShape
  <1>2. log' = [log EXCEPT ![s] = log[s] \o <<k>>]
    BY DEF Grew, Feed!Grow
  <1>3. log[s] \o <<k>> = Append(log[s], k) /\ Append(log[s], k) \in Seq(FeedKinds)
    BY <1>1
  <1>4. QED
    BY <1>1, <1>2, <1>3

\* Two notifications.
LEMMA PairIs ==
    ASSUME NEW S, NEW m \in S, NEW n \in S
    PROVE  <<m>> \o <<n>> = <<m, n>>
  <1>1. <<m>> \in Seq(S) /\ <<n>> \in Seq(S) /\ <<m, n>> \in Seq(S)
    OBVIOUS
  <1>2. /\ <<m>> \o <<n>> \in Seq(S) /\ Len(<<m>> \o <<n>>) = 2
        /\ (<<m>> \o <<n>>)[1] = m /\ (<<m>> \o <<n>>)[2] = n
    OBVIOUS
  <1>3. /\ Len(<<m, n>>) = 2 /\ <<m, n>>[1] = m /\ <<m, n>>[2] = n
    OBVIOUS
  <1>4. \A i \in 1..2 : i = 1 \/ i = 2
    OBVIOUS
  <1>5. \A i \in 1..Len(<<m>> \o <<n>>) : (<<m>> \o <<n>>)[i] = <<m, n>>[i]
    BY <1>2, <1>3, <1>4
  <1>6. QED
    BY ONLY <1>1, <1>2, <1>3, <1>5, SeqEqual

\* A client that subscribed is sent it, another one nothing.
LEMMA SentIs ==
    ASSUME FeedShape, NEW s \in Sessions, NEW ns, Sent(s, ns)
    PROVE  notes' = notes \o IF subs[s] = 1 THEN ns ELSE <<>>
  <1>1. subs[s] \in {0, 1}
    BY DEF FeedShape
  <1>2. QED
    BY <1>1, CopiesAre DEF Sent

\* A step of a session is a walk of one or two notifications.
LEMMA MovedWalks ==
    ASSUME FeedShape, FeedShape', Logs, NEW s \in Sessions, SessionStep(s), Answering(s)
    PROVE  Walks(s)
  <1> DEFINE w == Of(s)
             x == Of(s)'
             L == Len(log[s])
  <1>0. /\ w.log = log[s] /\ w.run = run[s] /\ w.standing = stands[s] /\ w.subs = subs[s]
        /\ x.log = log'[s] /\ x.run = run'[s] /\ x.standing = stands'[s] /\ x.subs = subs'[s]
        /\ w \in Views /\ log[s] # <<>> /\ L \in Nat /\ run[s] \in Nat /\ log[s] \in Seq(FeedKinds)
        /\ run \in [Sessions -> Nat] /\ stands \in [Sessions -> SUBSET Nat]
    <2>1. /\ w.log = log[s] /\ w.run = run[s] /\ w.standing = stands[s] /\ w.subs = subs[s]
          /\ x.log = log'[s] /\ x.run = run'[s] /\ x.standing = stands'[s] /\ x.subs = subs'[s]
      BY DEF Of
    <2>2. w \in Views /\ log[s] # <<>>
      BY ViewTypes DEF SessionStep, HasLog
    <2>3. /\ log[s] \in Seq(FeedKinds) /\ run[s] \in Nat
          /\ run \in [Sessions -> Nat] /\ stands \in [Sessions -> SUBSET Nat]
      BY DEF FeedShape
    <2>4. L \in Nat
      BY <2>3
    <2>5. QED
      BY <2>1, <2>2, <2>3, <2>4
  <1>1. LogOk(w) /\ subs' = subs
    BY DEF Logs, SessionStep
  <1>2. /\ HasLog(s) /\ raced \subseteq raced' /\ (s \notin raced' => ~(deliver.on /\ deliver.s = s))
        /\ UNCHANGED <<subs, deliver, ui, sw, known>>
    BY DEF SessionStep, Feed!MidAttach
  <1>3. ASSUME \A r \in Sessions : r # s => log'[r] = log[r] /\ run'[r] = run[r]
                 /\ stands'[r] = stands[r]
        PROVE  \A r \in Sessions : r # s => Of(r)' = Of(r)
    BY <1>1, <1>3 DEF Answering, Of
  <1>e. ~DecidedIn(s) => x.answered = w.answered
    BY DEF Answering
  <1>f. {"note", "user", "decided"} \subseteq FeedKinds
    BY DEF FeedKinds
  <1> HIDE DEF w, x
  <1>4. CASE Noted(s)
    <2> DEFINE n == Feed!EntryNote(s, L + 1, "note")
    <2>1. log'[s] = Append(log[s], "note") /\ run' = run /\ stands' = stands
            /\ \A r \in Sessions : r # s => log'[r] = log[r]
      BY <1>4, <1>f, GrewIs DEF Noted
    <2>2. n \in FeedNotes /\ notes' = notes \o IF subs[s] = 1 THEN <<n>> ELSE <<>>
      BY <1>4, <1>f, EntryIs, SentIs DEF Noted
    <2>3. ~DecidedIn(s)
      BY <1>0, <2>1 DEF DecidedIn
    <2>4. Wrote(w, x, n, s, "note")
      BY <1>0, <1>e, <2>1, <2>3 DEF Wrote
    <2>5. Steps(w, x, n, s)
      BY <1>0, <1>1, <1>f, <2>4 DEF Steps
    <2> HIDE DEF n
    <2>6. QED
      BY <1>2, <1>3, <2>1, <2>2, <2>5 DEF Walks, w, x
  <1>5. CASE Began(s)
    <2> DEFINE m == Feed!EntryNote(s, L + 1, "user")
               n == Feed!StateNote(s, L + 1, TRUE)
               y == [w EXCEPT !.log = Append(@, "user")]
    <2>1. /\ log'[s] = Append(log[s], "user") /\ run'[s] = L + 1 /\ run[s] = 0
               /\ stands' = stands
          /\ \A r \in Sessions : r # s => log'[r] = log[r] /\ run'[r] = run[r]
      BY <1>0, <1>5, <1>f, GrewIs DEF Began
    <2>2. n \in FeedNotes
      <3>1. L + 1 \in Nat
        BY <1>0
      <3>2. QED
        BY <3>1, StateShape
    <2>3. m \in FeedNotes /\ notes' = notes \o IF subs[s] = 1 THEN <<m>> \o <<n>> ELSE <<>>
      BY <1>5, <1>f, EntryIs, SentIs DEF Began
    <2>4. stands[s] = {} /\ ~DecidedIn(s)
      BY <1>0, <1>1, <2>1 DEF LogOk, DecidedIn
    <2>5. /\ y \in Views /\ y.log = Append(log[s], "user") /\ y.run = 0 /\ y.standing = {}
               /\ y.subs = w.subs
          /\ y.answered = w.answered
      <3>1. Append(log[s], "user") \in Seq(FeedKinds)
        BY <1>0, <1>f
      <3>2. QED
        BY <1>0, <2>1, <2>4, <3>1 DEF Views
    <2> HIDE DEF y
    <2>6. Steps(w, y, m, s)
      <3>1. Wrote(w, y, m, s, "user")
        BY <1>0, <2>1, <2>4, <2>5 DEF Wrote
      <3>2. QED
        BY <1>0, <1>f, <2>5, <3>1 DEF Steps
    <2>7. Steps(y, x, n, s)
      <3>1. Len(y.log) = L + 1 /\ y.log # <<>>
        BY <1>0, <2>5
      <3>2. Turned(y, x, n, s)
        BY <1>0, <2>1, <2>4, <2>5, <3>1 DEF Turned
      <3>3. QED
        BY <1>0, <1>1, <2>5, <3>1, <3>2 DEF Steps
    <2> HIDE DEF m, n
    <2>8. <<m>> \o <<n>> = <<m, n>>
      BY <2>2, <2>3, PairIs
    <2>9. QED
      BY <1>2, <1>3, <2>1, <2>2, <2>3, <2>5, <2>6, <2>7, <2>8 DEF Walks, w, x
  <1>6. CASE Asked(s)
    <2> DEFINE n == Feed!AskNote(s, run[s])
    <2>1. /\ run[s] # 0 /\ stands[s] = {} /\ log' = log /\ run' = run
          /\ ~\E i \in 1..Len(log[s]) : i > run[s] /\ log[s][i] = "decided"
          /\ stands'[s] = {run[s]} /\ \A r \in Sessions : r # s => stands'[r] = stands[r]
      BY <1>0, <1>6 DEF Asked
    <2>2. n \in FeedNotes /\ notes' = notes \o IF subs[s] = 1 THEN <<n>> ELSE <<>>
      BY <1>0, <1>6, StateShape, SentIs DEF Asked
    <2>3. Put(w, x, n, s)
      BY <1>0, <2>1 DEF Put
    <2>4. Steps(w, x, n, s)
      BY <1>0, <1>1, <2>3 DEF Steps
    <2> HIDE DEF n
    <2>5. QED
      BY <1>2, <1>3, <2>1, <2>2, <2>4 DEF Walks, w, x
  <1>7. CASE DecidedIn(s)
    <2> DEFINE n == Feed!EntryNote(s, L + 1, "decided")
    <2>1. /\ log'[s] = Append(log[s], "decided") /\ run' = run /\ stands[s] # {}
               /\ stands'[s] = {}
          /\ \A r \in Sessions : r # s => log'[r] = log[r] /\ stands'[r] = stands[r]
      BY <1>0, <1>7, <1>f, GrewIs DEF DecidedIn
    <2>2. n \in FeedNotes /\ notes' = notes \o IF subs[s] = 1 THEN <<n>> ELSE <<>>
      BY <1>7, <1>f, EntryIs, SentIs DEF DecidedIn
    <2>3. Wrote(w, x, n, s, "decided")
      BY <1>0, <2>1 DEF Wrote
    <2>4. Steps(w, x, n, s)
      BY <1>0, <1>1, <1>f, <2>3 DEF Steps
    <2> HIDE DEF n
    <2>5. QED
      BY <1>2, <1>3, <2>1, <2>2, <2>4 DEF Walks, w, x
  <1>8. CASE Stopped(s)
    <2> DEFINE n == Feed!StateNote(s, run[s], FALSE)
    <2>1. /\ stands[s] = {} /\ log' = log /\ stands' = stands
          /\ run'[s] = 0 /\ \A r \in Sessions : r # s => run'[r] = run[r]
      BY <1>0, <1>8 DEF Stopped
    <2>2. n \in FeedNotes /\ notes' = notes \o IF subs[s] = 1 THEN <<n>> ELSE <<>>
      BY <1>0, <1>8, StateShape, SentIs DEF Stopped
    <2>3. Turned(w, x, n, s)
      BY <1>0, <2>1 DEF Turned
    <2>4. Steps(w, x, n, s)
      BY <1>0, <1>1, <2>3 DEF Steps
    <2> HIDE DEF n
    <2>5. QED
      BY <1>2, <1>3, <2>1, <2>2, <2>4 DEF Walks, w, x
  <1>9. CASE Denied(s)
    <2> DEFINE m == Feed!EntryNote(s, L + 1, "decided")
               n == Feed!StateNote(s, run[s], FALSE)
               y == [w EXCEPT !.log = Append(@, "decided"), !.standing = {}]
    <2>1. /\ log'[s] = Append(log[s], "decided") /\ run'[s] = 0 /\ stands[s] # {}
               /\ stands'[s] = {}
          /\ \A r \in Sessions : r # s => log'[r] = log[r] /\ run'[r] = run[r]
               /\ stands'[r] = stands[r]
      BY <1>0, <1>9, <1>f, GrewIs DEF Denied
    <2>2. n \in FeedNotes
      BY <1>0, StateShape
    <2>3. m \in FeedNotes /\ notes' = notes \o IF subs[s] = 1 THEN <<m>> \o <<n>> ELSE <<>>
      BY <1>9, <1>f, EntryIs, SentIs DEF Denied
    <2>4. /\ y \in Views /\ y.log = Append(log[s], "decided") /\ y.run = run[s] /\ y.standing = {}
               /\ y.subs = w.subs
      <3>1. Append(log[s], "decided") \in Seq(FeedKinds)
        BY <1>0, <1>f
      <3>2. QED
        BY <1>0, <3>1 DEF Views
    <2> HIDE DEF y
    <2>5. Steps(w, y, m, s)
      <3>1. Wrote(w, y, m, s, "decided")
        BY <1>0, <2>1, <2>4 DEF Wrote
      <3>2. QED
        BY <1>0, <1>f, <2>4, <3>1 DEF Steps
    <2>6. Steps(y, x, n, s)
      <3>1. y.log # <<>>
        BY <1>0, <2>4
      <3>2. Turned(y, x, n, s)
        BY <1>0, <2>1, <2>4 DEF Turned
      <3>3. QED
        BY <1>0, <1>1, <2>4, <3>1, <3>2 DEF Steps
    <2> HIDE DEF m, n
    <2>7. <<m>> \o <<n>> = <<m, n>>
      BY <2>2, <2>3, PairIs
    <2>8. QED
      BY <1>2, <1>3, <2>1, <2>2, <2>3, <2>4, <2>5, <2>6, <2>7 DEF Walks, w, x
  <1>10. QED
    BY <1>4, <1>5, <1>6, <1>7, <1>8, <1>9 DEF SessionStep

-----------------------------------------------------------------------------
(* What a step of one session does to the mirrors of all                   *)

\* The invariant of the screen after a step.
LEMMA ScreenAfter ==
    ASSUME \A s \in Sessions : LogOk(Of(s)'),
           \A s \in Sessions : s \notin raced' => Safe(Of(s)', Waiting(s), Pending(s)'),
           ui'.on \notin raced' =>
             Safe(Of(ui.on)', ui', Pending(ui.on)') /\ Full(Of(ui.on)', ui', Pending(ui.on)'),
           \A s \in Sessions : Served(s)' /\ s \notin raced' => Full(Of(s)', Waiting(s), Pending(s)')
    PROVE  ScreenInv'
  BY DEF ScreenInv, Waiting, Feed!Fresh

\* What ScreenInv says of each mirror.
LEMMA ScreenNow ==
    ASSUME FeedShape, ScreenInv
    PROVE  /\ \A s \in Sessions : s \notin raced => Safe(Of(s), Waiting(s), Pending(s))
           /\ ui.on \notin raced =>
                Safe(Of(ui.on), ui, Pending(ui.on)) /\ Full(Of(ui.on), ui, Pending(ui.on))
           /\ \A s \in Sessions : Served(s) /\ s \notin raced =>
                Full(Of(s), Waiting(s), Pending(s))
           /\ Logs
  BY DEF ScreenInv, Waiting, Logs

\* Session s goes one step or two, from w to x, and what is under way from p to r.
Goes(w, x, s, p, r) ==
    \/ \E n \in FeedNotes : Steps(w, x, n, s) /\ r = IF w.subs = 1 THEN Append(p, n) ELSE p
    \/ \E m, n \in FeedNotes, y \in Views :
         /\ Steps(w, y, m, s) /\ Steps(y, x, n, s)
         /\ r = IF w.subs = 1 THEN Append(Append(p, m), n) ELSE p

\* A walk keeps Safe, and Full of a client that is told of it.
LEMMA GoesSafe ==
    ASSUME NEW w \in Views, NEW x \in Views, NEW u \in Mirrors, NEW p \in Seq(FeedNotes), NEW r,
           Goes(w, x, u.on, p, r), Safe(w, u, p)
    PROVE  /\ Safe(x, u, r)
           /\ w.subs = 1 /\ Full(w, u, p) => Full(x, u, r)
  <1>1. CASE \E n \in FeedNotes : Steps(w, x, n, u.on) /\ r = IF w.subs = 1 THEN Append(p, n) ELSE p
    <2>1. PICK n \in FeedNotes : Steps(w, x, n, u.on) /\ r = IF w.subs = 1 THEN Append(p, n) ELSE p
      BY <1>1
    <2>2. r \in Seq(FeedNotes)
      BY <2>1
    <2>3. Safe(x, u, r)
      BY <2>1, <2>2, StepsSafe
    <2>4. w.subs = 1 /\ Full(w, u, p) => Full(x, u, r)
      BY <2>1, StepsFull
    <2>5. QED
      BY <2>3, <2>4
  <1>2. CASE \E m, n \in FeedNotes, y \in Views :
               /\ Steps(w, y, m, u.on) /\ Steps(y, x, n, u.on)
               /\ r = IF w.subs = 1 THEN Append(Append(p, m), n) ELSE p
    <2>1. PICK m \in FeedNotes, n \in FeedNotes, y \in Views :
               /\ Steps(w, y, m, u.on) /\ Steps(y, x, n, u.on)
               /\ r = IF w.subs = 1 THEN Append(Append(p, m), n) ELSE p
      BY <1>2
    <2> DEFINE q == IF w.subs = 1 THEN Append(p, m) ELSE p
    <2>2. y.subs = w.subs
      BY <2>1 DEF Steps
    <2>3. q \in Seq(FeedNotes) /\ r = (IF y.subs = 1 THEN Append(q, n) ELSE q)
            /\ r \in Seq(FeedNotes)
      BY <2>1, <2>2
    <2>4. w.subs = 1 => q = Append(p, m) /\ r = Append(q, n)
      BY <2>1
    <2>5. q = IF w.subs = 1 THEN Append(p, m) ELSE p
      OBVIOUS
    <2> HIDE DEF q
    <2>6. Safe(y, u, q)
      BY <2>1, <2>3, <2>5, StepsSafe
    <2>7. Safe(x, u, r)
      BY <2>1, <2>3, <2>6, StepsSafe
    <2>8. w.subs = 1 /\ Full(w, u, p) => Full(y, u, q)
      BY <2>1, <2>4, StepsFull
    <2>9. w.subs = 1 /\ Full(w, u, p) => Full(x, u, r)
      BY <2>1, <2>3, <2>4, <2>6, <2>8, StepsFull
    <2>10. QED
      BY <2>7, <2>9
  <1>3. QED
    BY <1>1, <1>2 DEF Goes

\* One notification more, behind what is buffered.
LEMMA JoinOne ==
    ASSUME NEW S, NEW b \in Seq(S), NEW c \in Seq(S), NEW n \in S
    PROVE  b \o (c \o <<n>>) = Append(b \o c, n) /\ b \o (c \o <<n>>) \in Seq(S)
  <1>1. c \o <<n>> = Append(c, n)
    OBVIOUS
  <1>2. b \o Append(c, n) \in Seq(S) /\ Append(b \o c, n) \in Seq(S)
    OBVIOUS
  <1>3. Len(b \o Append(c, n)) = Len(Append(b \o c, n))
    OBVIOUS
  <1>4. \A i \in 1..Len(b \o Append(c, n)) : (b \o Append(c, n))[i] = Append(b \o c, n)[i]
    OBVIOUS
  <1>5. b \o Append(c, n) = Append(b \o c, n)
    BY ONLY <1>2, <1>3, <1>4, SeqEqual
  <1>6. QED
    BY <1>1, <1>2, <1>5

\* Two notifications more, behind what is buffered.
LEMMA JoinTwo ==
    ASSUME NEW b \in Seq(FeedNotes), NEW c \in Seq(FeedNotes), NEW m \in FeedNotes,
             NEW n \in FeedNotes
    PROVE  b \o (c \o <<m, n>>) = Append(Append(b \o c, m), n)
  <1>0. <<m>> \in Seq(FeedNotes) /\ <<n>> \in Seq(FeedNotes)
    OBVIOUS
  <1>a. c \o <<m>> \in Seq(FeedNotes)
    OBVIOUS
  <1>b. <<m>> \o <<n>> = <<m, n>>
    BY PairIs
  <1>c. (c \o <<m>>) \o <<n>> = c \o (<<m>> \o <<n>>)
    BY <1>0, ConcatAssociative
  <1>2. c \o <<m, n>> = (c \o <<m>>) \o <<n>>
    BY ONLY <1>b, <1>c
  <1>3. (c \o <<m>>) \o <<n>> = Append(c \o <<m>>, n)
          /\ b \o ((c \o <<m>>) \o <<n>>) = Append(b \o (c \o <<m>>), n)
    BY <1>a, JoinOne
  <1>4. b \o (c \o <<m>>) = Append(b \o c, m)
    BY JoinOne
  <1>5. QED
    BY ONLY <1>2, <1>3, <1>4

\* Concatenations in either order are the same.
LEMMA JoinAcross ==
    ASSUME NEW a \in Seq(FeedNotes), NEW b \in Seq(FeedNotes), NEW c \in Seq(FeedNotes)
    PROVE  a \o (b \o c) = (a \o b) \o c
  BY SMTT(30), ConcatAssociative

\* Nothing more changes nothing.
LEMMA JoinNone ==
    ASSUME NEW S, NEW p \in Seq(S)
    PROVE  p \o <<>> = p
  OBVIOUS

\* Views and what is under way have their types.
LEMMA TypedNow ==
    FeedShape => \A s \in Sessions : Of(s) \in Views /\ Pending(s) \in Seq(FeedNotes)
  BY ViewTypes

\* And so they have after a step.
LEMMA TypedAfter ==
    FeedShape' => \A s \in Sessions : Of(s)' \in Views /\ Pending(s)' \in Seq(FeedNotes)
  <1>1. FeedShape' => (\A s \in Sessions : Of(s) \in Views /\ Pending(s) \in Seq(FeedNotes))'
    BY TypedNow, PTL
  <1>2. QED
    BY <1>1 DEF Views

\* What was sent is under way behind what was held back.
LEMMA WalksPending ==
    ASSUME FeedShape, NEW s \in Sessions, Walks(s)
    PROVE  /\ s \notin raced' => Goes(Of(s), Of(s)', s, Pending(s), Pending(s)')
           /\ \A r \in Sessions : r # s => \E f : PlacedAs(f, r, Pending(r), Pending(r)')
  <1> DEFINE b == sw.buffer
             D(r) == IF deliver.on /\ deliver.s = r THEN deliver.left ELSE <<>>
             w == Of(s)
             x == Of(s)'
             Moving(ns) ==
               \/ \E n \in FeedNotes : Steps(w, x, n, s) /\ ns = IF subs[s] = 1 THEN <<n>> ELSE <<>>
               \/ \E m, n \in FeedNotes, y \in Views :
                    Steps(w, y, m, s) /\ Steps(y, x, n, s)
                      /\ ns = IF subs[s] = 1 THEN <<m, n>> ELSE <<>>
  <1>1. b \in Seq(FeedNotes) /\ notes \in Seq(FeedNotes) /\ b \o notes \in Seq(FeedNotes)
    BY ViewTypes
  <1>2. \A r \in Sessions : D(r) \in Seq(FeedNotes) /\ Pending(r) = (b \o notes) \o D(r)
    <2>1. <<>> \in Seq(FeedNotes)
      OBVIOUS
    <2>2. QED
      BY <2>1, ViewTypes DEF Pending
  <1>3. \A r \in Sessions : Pending(r)' = (b \o notes') \o D(r)
    BY DEF Walks, Pending
  <1>4. (s \notin raced' => D(s) = <<>>) /\ w.subs = subs[s]
    BY DEF Walks, Of
  <1>5. w \in Views
    BY ViewTypes
  <1>6. PICK ns : notes' = notes \o ns /\ Moving(ns)
    BY DEF Walks
  <1> HIDE DEF b, D, w, x
  <1>7. ns \in Seq(FeedNotes) /\ \A k \in 1..Len(ns) : ns[k].s = s
    <2>1. CASE ns = <<>>
      BY <2>1
    <2>2. CASE \E n \in FeedNotes : n.s = s /\ ns = <<n>>
      BY <2>2
    <2>3. CASE \E m, n \in FeedNotes : m.s = s /\ n.s = s /\ ns = <<m, n>>
      <3>1. PICK m \in FeedNotes, n \in FeedNotes : m.s = s /\ n.s = s /\ ns = <<m, n>>
        BY <2>3
      <3>2. Len(ns) = 2 /\ ns[1] = m /\ ns[2] = n /\ ns \in Seq(FeedNotes)
        BY <3>1
      <3>3. QED
        BY <3>1, <3>2
    <2>4. \A n, y, z : Steps(y, z, n, s) => n.s = s
      BY DEF Steps, Wrote, Put, Turned, Feed!EntryNote, Feed!StateNote, Feed!AskNote
    <2> HIDE DEF Moving
    <2>5. ns = <<>> \/ (\E n \in FeedNotes : n.s = s /\ ns = <<n>>)
            \/ (\E m, n \in FeedNotes : m.s = s /\ n.s = s /\ ns = <<m, n>>)
      BY <1>6, <2>4 DEF Moving
    <2>6. QED
      BY <2>1, <2>2, <2>3, <2>5
  <1>8. b \o notes' = (b \o notes) \o ns
    BY SMTT(30), <1>1, <1>6, <1>7, JoinAcross
  <1>9. ASSUME NEW r \in Sessions, r # s PROVE \E f : PlacedAs(f, r, Pending(r), Pending(r)')
    <2>1. \A k \in 1..Len(ns) : ns[k].s # r
      BY <1>7, <1>9
    <2>2. Pending(r) = (b \o notes) \o D(r) /\ Pending(r)' = ((b \o notes) \o ns) \o D(r)
            /\ D(r) \in Seq(FeedNotes)
      BY <1>2, <1>3, <1>8
    <2> HIDE DEF Moving
    <2>3. \E f : PlacedAs(f, r, (b \o notes) \o D(r), ((b \o notes) \o ns) \o D(r))
      BY <1>1, <1>7, <2>1, <2>2, PlacesBetween
    <2>4. QED
      BY <2>2, <2>3
  <1>10. ASSUME s \notin raced' PROVE Goes(w, x, s, Pending(s), Pending(s)')
    <2> DEFINE p == b \o notes
    <2>1. p \in Seq(FeedNotes) /\ Pending(s) = p
      BY <1>1, <1>2, <1>4, <1>10, JoinNone
    <2>2. b \o notes' \in Seq(FeedNotes) /\ Pending(s)' = b \o notes'
      <3>1. (b \o notes) \o ns \in Seq(FeedNotes)
        BY <1>1, <1>7
      <3>2. QED
        BY <1>3, <1>4, <1>8, <1>10, <3>1, JoinNone
    <2>3. CASE \E n \in FeedNotes : Steps(w, x, n, s) /\ ns = IF subs[s] = 1 THEN <<n>> ELSE <<>>
      <3>1. PICK n \in FeedNotes : Steps(w, x, n, s) /\ ns = IF subs[s] = 1 THEN <<n>> ELSE <<>>
        BY <2>3
      <3>2. subs[s] = 1 => b \o notes' = Append(p, n)
        BY <1>1, <1>6, <3>1, JoinOne
      <3>3. subs[s] # 1 => b \o notes' = p
        BY <1>1, <1>8, <3>1, JoinNone
      <3>4. QED
        BY <1>4, <2>1, <2>2, <3>1, <3>2, <3>3 DEF Goes
    <2>4. CASE \E m, n \in FeedNotes, y \in Views :
                    Steps(w, y, m, s) /\ Steps(y, x, n, s)
                      /\ ns = IF subs[s] = 1 THEN <<m, n>> ELSE <<>>
      <3>1. PICK m \in FeedNotes, n \in FeedNotes, y \in Views :
                    Steps(w, y, m, s) /\ Steps(y, x, n, s)
                      /\ ns = IF subs[s] = 1 THEN <<m, n>> ELSE <<>>
        BY <2>4
      <3>2. subs[s] = 1 => b \o notes' = Append(Append(p, m), n)
        <4>1. b \o (notes \o <<m, n>>) = Append(Append(b \o notes, m), n)
          BY <1>1, JoinTwo
        <4>2. subs[s] = 1 => notes' = notes \o <<m, n>>
          BY <1>6, <3>1
        <4>3. QED
          BY ONLY <4>1, <4>2
      <3>3. subs[s] # 1 => b \o notes' = p
        BY <1>1, <1>8, <3>1, JoinNone
      <3>4. QED
        BY <1>4, <2>1, <2>2, <3>1, <3>2, <3>3 DEF Goes
    <2>5. QED
      BY <1>6, <2>3, <2>4
  <1>11. QED
    BY <1>9, <1>10 DEF w, x

\* The log of s stays one.
LEMMA WalksLog ==
    ASSUME FeedShape, FeedShape', Logs, NEW s \in Sessions, Walks(s)
    PROVE  \A r \in Sessions : LogOk(Of(r)')
  <1> DEFINE w == Of(s)
             x == Of(s)'
  <1>1. w \in Views /\ x \in Views /\ LogOk(w)
    BY TypedNow, TypedAfter DEF Logs
  <1>2. \/ \E n \in FeedNotes : Steps(w, x, n, s)
        \/ \E m, n \in FeedNotes, y \in Views : Steps(w, y, m, s) /\ Steps(y, x, n, s)
    BY DEF Walks
  <1>3. \A r \in Sessions : r # s => LogOk(Of(r)')
    BY DEF Walks, Logs
  <1> HIDE DEF w, x
  <1>4. LogOk(x)
    BY <1>1, <1>2, StepsLog
  <1>5. QED
    BY <1>3, <1>4 DEF x

\* A walk of a session keeps ScreenInv.
LEMMA WalksKeep ==
    ASSUME FeedShape, FeedShape', Switching, ScreenInv, NEW s \in Sessions, Walks(s),
           \A r \in Sessions : Served(r)' = Served(r)
    PROVE  ScreenInv'
  <1>1. \A r \in Sessions : Of(r) \in Views /\ Of(r)' \in Views /\ Pending(r) \in Seq(FeedNotes)
                            /\ Pending(r)' \in Seq(FeedNotes)
    BY TypedNow, TypedAfter
  <1>2. ui' = ui /\ ui \in Mirrors /\ ui.on \in Sessions
    BY ViewTypes DEF Walks
  <1>0. raced \subseteq raced'
    BY DEF Walks
  <1>3. ASSUME NEW u \in Mirrors, u.on \in Sessions, u.on \notin raced',
               Safe(Of(u.on), u, Pending(u.on))
        PROVE  /\ Safe(Of(u.on)', u, Pending(u.on)')
               /\ Full(Of(u.on), u, Pending(u.on))
                    /\ Of(u.on).subs = 1 => Full(Of(u.on)', u, Pending(u.on)')
    <2>1. CASE u.on = s
      <3>1. Goes(Of(u.on), Of(u.on)', u.on, Pending(u.on), Pending(u.on)')
        BY <1>3, <2>1, WalksPending
      <3>2. QED
        BY <1>1, <1>3, <3>1, GoesSafe
    <2>2. CASE u.on # s
      <3>1. PICK f : PlacedAs(f, u.on, Pending(u.on), Pending(u.on)')
        BY <1>3, <2>2, WalksPending
      <3>2. Of(u.on)' = Of(u.on)
        BY <1>3, <2>2 DEF Walks
      <3>3. QED
        BY <1>1, <1>3, <3>1, <3>2, PlacesSafe, PlacesFull
    <2>3. QED
      BY <2>1, <2>2
  <1>4. \A r \in Sessions : Waiting(r) \in Mirrors /\ Waiting(r).on = r
    BY ViewTypes
  <1>5. \A r \in Sessions : r \notin raced' => Safe(Of(r), Waiting(r), Pending(r))
    BY <1>0, ScreenNow
  <1>6. \A r \in Sessions : r \notin raced' => Safe(Of(r)', Waiting(r), Pending(r)')
    BY <1>3, <1>4, <1>5
  <1>7. /\ ui.on \notin raced' => Of(ui.on).subs = 1
        /\ \A r \in Sessions : Served(r) /\ r \notin raced' => Of(r).subs = 1
    BY <1>0 DEF Switching, Of
  <1>8. ASSUME ui'.on \notin raced'
        PROVE  Safe(Of(ui.on)', ui', Pending(ui.on)') /\ Full(Of(ui.on)', ui', Pending(ui.on)')
    <2>1. ui.on \notin raced' /\ ui.on \notin raced
      BY <1>0, <1>2, <1>8
    <2>2. Safe(Of(ui.on)', ui, Pending(ui.on)') /\ Full(Of(ui.on)', ui, Pending(ui.on)')
      BY <1>2, <1>3, <1>7, <2>1, ScreenNow
    <2>3. QED
      BY <1>2, <2>2
  <1>9. \A r \in Sessions : Served(r)' /\ r \notin raced' => Full(Of(r)', Waiting(r), Pending(r)')
    BY <1>0, <1>3, <1>4, <1>5, <1>7, ScreenNow
  <1>10. \A r \in Sessions : LogOk(Of(r)')
    BY WalksLog, ScreenNow
  <1>11. QED
    BY <1>6, <1>8, <1>9, <1>10, ScreenAfter

-----------------------------------------------------------------------------
(* Steps that say nothing to a mirror                                      *)

\* The session goes on as it is, perhaps without the subscription.
Alike(w, x) ==
    /\ x.log = w.log /\ x.run = w.run /\ x.standing = w.standing /\ x.subs \in {w.subs, 0}
    /\ \A t \in w.standing : t \in w.answered => t \in x.answered

\* A step of the client that keeps its own mirror Safe and Full keeps ScreenInv.
LEMMA MirrorKeeps ==
    ASSUME FeedShape, ScreenInv, raced \subseteq raced',
           \A s \in Sessions : Alike(Of(s), Of(s)') /\ Pending(s)' = Pending(s)
             /\ (Served(s)' => Served(s)),
           NEW o \in Sessions, o = ui.on, o = ui'.on,
           o \notin raced' => Safe(Of(o)', ui', Pending(o)) /\ Full(Of(o)', ui', Pending(o))
    PROVE  ScreenInv'
  <1>1. ASSUME NEW s \in Sessions, s \notin raced'
        PROVE  /\ Safe(Of(s)', Waiting(s), Pending(s)')
               /\ Served(s)' => Full(Of(s)', Waiting(s), Pending(s)')
    <2>1. Safe(Of(s), Waiting(s), Pending(s)) /\ (Served(s)' => Full(Of(s), Waiting(s), Pending(s)))
      BY <1>1, ScreenNow
    <2> DEFINE w == Of(s)
               x == Of(s)'
               u == Waiting(s)
               p == Pending(s)
    <2>2. Alike(w, x) /\ Pending(s)' = p
      OBVIOUS
    <2>3. Safe(w, u, p) /\ (Served(s)' => Full(w, u, p))
      BY <2>1
    <2> HIDE DEF w, x, u, p
    <2>4. Safe(x, u, p) /\ (Served(s)' => Full(x, u, p))
      BY <2>2, <2>3, ViewAlike DEF Alike
    <2>5. QED
      BY <2>2, <2>4 DEF w, x, u, p
  <1>2. ui'.on \notin raced' =>
          Safe(Of(ui.on)', ui', Pending(ui.on)') /\ Full(Of(ui.on)', ui', Pending(ui.on)')
    OBVIOUS
  <1>3. ASSUME NEW s \in Sessions PROVE LogOk(Of(s)')
    <2>1. LogOk(Of(s)) /\ Alike(Of(s), Of(s)')
      BY ScreenNow DEF Logs
    <2>2. \A w, x : LogOk(w) /\ Alike(w, x) => LogOk(x)
      BY DEF LogOk, Alike
    <2>3. QED
      BY <2>1, <2>2
  <1>4. QED
    BY <1>1, <1>2, <1>3, ScreenAfter

\* So does one that leaves what its mirror shows.
LEMMA RestKeeps ==
    ASSUME FeedShape, ScreenInv, raced \subseteq raced',
           \A s \in Sessions : Alike(Of(s), Of(s)') /\ Pending(s)' = Pending(s)
             /\ (Served(s)' => Served(s)),
           ui'.on = ui.on, ui'.await = ui.await, ui'.shown = ui.shown,
           ui'.prompts = ui.prompts, ui'.asked = ui.asked, ui.running => ui'.running
    PROVE  ScreenInv'
  <1>1. PICK o \in Sessions : o = ui.on /\ o = ui'.on
    BY ViewTypes
  <1>2. o \notin raced' => Safe(Of(o), ui, Pending(o)) /\ Full(Of(o), ui, Pending(o))
    BY <1>1, ScreenNow
  <1>3. o \notin raced' => Safe(Of(o), ui', Pending(o)) /\ Full(Of(o), ui', Pending(o))
    BY <1>2, MirrorAlike
  <1>4. Alike(Of(o), Of(o)')
    BY <1>1
  <1>5. o \notin raced' => Safe(Of(o)', ui', Pending(o)) /\ Full(Of(o)', ui', Pending(o))
    BY <1>3, <1>4, ViewAlike DEF Alike
  <1>6. QED
    BY <1>1, <1>5, MirrorKeeps

\* A view that differs in the answers on their way.
LEMMA AlikeNow ==
    ASSUME FeedShape, NEW s \in Sessions, log'[s] = log[s], run'[s] = run[s],
             stands'[s] = stands[s],
           subs'[s] \in {subs[s], 0},
           \A q \in reqs : q.m = "answer" /\ q.s = s => q \in reqs' \/ q.i \notin stands[s]
    PROVE  Alike(Of(s), Of(s)')
  <1>1. ASSUME NEW t \in stands[s], t \in Of(s).answered PROVE t \in (Of(s)').answered
    <2>1. PICK q \in reqs : q.m = "answer" /\ q.s = s /\ q.i = t
      BY <1>1 DEF Of
    <2>2. q \in reqs'
      BY <2>1
    <2>3. QED
      BY <2>1, <2>2 DEF Of
  <1>2. QED
    BY <1>1 DEF Alike, Of

\* Whether the switch in flight was served to s is read off what is being delivered and the answers.
LEMMA ServedNow ==
    ASSUME deliver' = deliver, \A a \in answers' : Opens(a.q) /\ a.ok => a \in answers
    PROVE  \A s \in Sessions : Served(s)' => Served(s)
  BY DEF Served, Opens

\* So does a request that is served without a word to the client.
LEMMA StandsKeep ==
    ASSUME FeedShape, ScreenInv, UNCHANGED <<log, run, stands, deliver, notes>>,
             sw'.buffer = sw.buffer, raced \subseteq raced',
           \A s \in Sessions : subs'[s] \in {subs[s], 0},
           \A q \in reqs : q \in reqs' \/ q.m # "answer" \/ q.i \notin stands[q.s],
           \A a \in answers' : Opens(a.q) /\ a.ok => a \in answers,
           ui'.on = ui.on, ui'.await = ui.await, ui'.shown = ui.shown,
           ui'.prompts = ui.prompts, ui'.asked = ui.asked, ui.running => ui'.running
    PROVE  ScreenInv'
  <1>1. \A s \in Sessions : Alike(Of(s), Of(s)')
    BY AlikeNow
  <1>2. \A s \in Sessions : Pending(s)' = Pending(s)
    BY DEF Pending
  <1>3. \A s \in Sessions : Served(s)' => Served(s)
    BY ServedNow
  <1>4. QED
    BY <1>1, <1>2, <1>3, RestKeeps

\* So do the keys, a close that is served and a command that is answered.
LEMMA KeysKeep ==
    ASSUME FeedShape, ScreenInv,
           \/ Feed!Enter \/ Feed!CancelTurn \/ Feed!Switch \/ Feed!ForkCommand
           \/ \E q \in reqs : Feed!ServeClose(q)
           \/ \E a \in answers : Feed!CommandAnswered(a)
    PROVE  ScreenInv'
  <1>0. /\ subs \in [Sessions -> {0, 1}] /\ ui \in Mirrors
             /\ sw \in [on : BOOLEAN, buffer : Seq(FeedNotes)]
        /\ ~sw.on => sw.buffer = <<>>
    BY DEF FeedShape, Homely
  <1>u. /\ ui \in [on : Sessions, await : BOOLEAN, shown : Seq(Nat), running : BOOLEAN, turn : Nat,
                   prompts : SUBSET Nat, asked : SUBSET Nat,
                     queue : Seq([i : Nat, home : Sessions]),
                   send : SUBSET FeedReqs]
    BY <1>0 DEF Mirrors
  <1>1. CASE Feed!Enter
    <2>1. /\ UNCHANGED <<log, run, stands, subs, raced, deliver, notes, answers, sw>>
          /\ reqs \subseteq reqs'
          /\ ui' = ui \/ ui' = [ui EXCEPT !.queue = Append(@, [i |-> typed + 1, home |-> ui.on])]
      BY <1>1 DEF Feed!Enter, Feed!server
    <2>2. /\ ui'.on = ui.on /\ ui'.await = ui.await /\ ui'.shown = ui.shown
          /\ ui'.prompts = ui.prompts /\ ui'.asked = ui.asked /\ (ui.running => ui'.running)
      BY <1>u, <2>1
    <2>3. QED
      BY <1>0, <2>1, <2>2, StandsKeep
  <1>2. CASE Feed!CancelTurn
    <2>1. /\ UNCHANGED <<log, run, stands, subs, raced, deliver, notes, answers, sw, reqs>>
          /\ ui' = [ui EXCEPT !.queue = <<>>]
      BY <1>2 DEF Feed!CancelTurn, Feed!server, Feed!wire
    <2>2. /\ ui'.on = ui.on /\ ui'.await = ui.await /\ ui'.shown = ui.shown
          /\ ui'.prompts = ui.prompts /\ ui'.asked = ui.asked /\ (ui.running => ui'.running)
      BY <1>u, <2>1
    <2>3. QED
      BY <1>0, <2>1, <2>2, StandsKeep
  <1>3. CASE Feed!Switch
    <2>1. /\ UNCHANGED <<log, run, stands, subs, raced, deliver, notes, answers, ui>>
          /\ reqs \subseteq reqs' /\ ~sw.on /\ sw'.buffer = <<>>
      BY <1>3 DEF Feed!Switch, Feed!StartSwitch, Feed!server
    <2>2. QED
      BY <1>0, <2>1, StandsKeep
  <1>4. CASE Feed!ForkCommand
    <2>1. /\ UNCHANGED <<log, run, stands, subs, raced, deliver, notes, answers, ui, sw>>
          /\ reqs \subseteq reqs'
      BY <1>4 DEF Feed!ForkCommand, Feed!server
    <2>2. QED
      BY <1>0, <2>1, StandsKeep
  <1>5. ASSUME NEW q \in reqs, Feed!ServeClose(q) PROVE ScreenInv'
    <2>1. /\ UNCHANGED <<log, run, stands, raced, deliver, notes, answers, ui, sw>>
          /\ reqs' = reqs \ {q} /\ q.m = "close" /\ subs' = [subs EXCEPT ![q.s] = 0]
      BY <1>5 DEF Feed!ServeClose, Feed!Serve, Feed!client
    <2>2. \A s \in Sessions : subs'[s] \in {subs[s], 0}
      BY <1>0, <2>1
    <2>3. QED
      BY <1>0, <2>1, <2>2, StandsKeep
  <1>6. ASSUME NEW a \in answers, Feed!CommandAnswered(a) PROVE ScreenInv'
    <2>1. /\ UNCHANGED <<log, run, stands, subs, raced, deliver, notes, ui>>
          /\ reqs \subseteq reqs' /\ (sw' = sw \/ (~sw.on /\ sw'.buffer = <<>>))
               /\ answers' \subseteq answers
      BY <1>6 DEF Feed!CommandAnswered, Feed!TakeAnswer, Feed!StartSwitch, Feed!server
    <2>2. QED
      BY <1>0, <2>1, StandsKeep
  <1>7. QED
    BY <1>1, <1>2, <1>3, <1>4, <1>5, <1>6

\* What the client has in hand of the questions, and what it echoes.
LEMMA HandKeeps ==
    ASSUME FeedShape, Switching, ScreenInv,
           \/ \E t \in ui.prompts : Feed!AnswerKey(t)
           \/ \E a \in answers : Feed!SubmitAnswered(a) \/ Feed!AnswerAnswered(a)
    PROVE  ScreenInv'
  <1>0. /\ subs \in [Sessions -> {0, 1}] /\ ui \in Mirrors /\ answers \in SUBSET FeedAnswers
        /\ \A a \in answers : a.q.m = "submit" /\ a.ok => a.r \in 1..Len(log[a.q.s])
             /\ log[a.q.s][a.r] = "user"
    BY DEF FeedShape, Homely, Switching
  <1>1. PICK o \in Sessions : o = ui.on
    BY ViewTypes
  <1>2. o \notin raced => Safe(Of(o), ui, Pending(o)) /\ Full(Of(o), ui, Pending(o))
    BY <1>1, ScreenNow
  <1>3. Of(o) \in Views /\ Pending(o) \in Seq(FeedNotes)
    BY ViewTypes
  <1>u. /\ ui \in [on : Sessions, await : BOOLEAN, shown : Seq(Nat), running : BOOLEAN, turn : Nat,
                   prompts : SUBSET Nat, asked : SUBSET Nat,
                     queue : Seq([i : Nat, home : Sessions]),
                   send : SUBSET FeedReqs]
    BY <1>0 DEF Mirrors
  <1>4. ASSUME NEW t \in ui.prompts, Feed!AnswerKey(t) PROVE ScreenInv'
    <2>1. /\ UNCHANGED <<log, run, stands, subs, raced, deliver, notes, answers, sw>>
          /\ reqs' = reqs \cup {Feed!Req("answer", o, t, o)}
          /\ ui' = [ui EXCEPT !.prompts = @ \ {t}, !.asked = @ \cup {t}]
      BY <1>1, <1>4 DEF Feed!AnswerKey, Feed!server
    <2>2. ui'.on = o
      BY <1>1, <1>u, <2>1
    <2>3. \A s \in Sessions : Alike(Of(s), Of(s)')
      BY <1>0, <2>1, AlikeNow
    <2>4. \A s \in Sessions : Pending(s)' = Pending(s)
      BY <2>1 DEF Pending
    <2>5. \A s \in Sessions : Served(s)' => Served(s)
      BY <2>1, ServedNow
    <2>6. Of(o)'.answered = Of(o).answered \cup {t}
      <3> DEFINE c == Feed!Req("answer", o, t, o)
      <3>1. c.m = "answer" /\ c.s = o /\ c.i = t /\ reqs' = reqs \cup {c}
        BY <2>1 DEF Feed!Req
      <3> HIDE DEF c
      <3>2. \A i : i \in Of(o).answered <=> \E q \in reqs : q.m = "answer" /\ q.s = o /\ q.i = i
        BY DEF Of
      <3>3. \A i : i \in Of(o)'.answered <=> \E q \in reqs' : q.m = "answer" /\ q.s = o /\ q.i = i
        BY DEF Of
      <3>4. \A i : i \in Of(o)'.answered <=> i \in Of(o).answered \/ i = t
        BY <3>1, <3>2, <3>3
      <3>5. QED
        BY <3>4
    <2>7. /\ Of(o)'.log = Of(o).log /\ Of(o)'.run = Of(o).run /\ Of(o)'.standing = Of(o).standing
          /\ Of(o)'.subs = Of(o).subs
      BY <2>1 DEF Of
    <2>8. ASSUME o \notin raced' PROVE Safe(Of(o)', ui', Pending(o)) /\ Full(Of(o)', ui', Pending(o))
      <3> DEFINE x == Of(o)'
                 w == Of(o)
                 v == ui'
                 p == Pending(o)
      <3>1. /\ x.log = w.log /\ x.run = w.run /\ x.standing = w.standing /\ x.subs = w.subs
            /\ x.answered = w.answered \cup {t}
                 /\ v = [ui EXCEPT !.prompts = @ \ {t}, !.asked = @ \cup {t}]
            /\ w \in Views /\ p \in Seq(FeedNotes) /\ Safe(w, ui, p) /\ Full(w, ui, p)
        BY SMTT(30), <1>2, <1>3, <2>1, <2>6, <2>7, <2>8
      <3> HIDE DEF x, w, v, p
      <3>2. Safe(x, v, p) /\ Full(x, v, p)
        BY <1>0, <3>1, KeySafe
      <3>3. QED
        BY <3>2 DEF x, w, v, p
    <2>9. QED
      BY <1>1, <2>1, <2>2, <2>3, <2>4, <2>5, <2>8, MirrorKeeps
  <1>5. ASSUME NEW a \in answers, Feed!SubmitAnswered(a) PROVE ScreenInv'
    <2>1. /\ UNCHANGED <<log, run, stands, subs, raced, deliver, notes, reqs, sw>>
               /\ answers' \subseteq answers
          /\ a.q.m = "submit"
      BY <1>5 DEF Feed!SubmitAnswered, Feed!TakeAnswer, Feed!server
    <2>2. CASE ~a.ok \/ a.q.s # o
      <3>1. ui' = ui
        BY <1>1, <1>5, <2>2 DEF Feed!SubmitAnswered
      <3>2. QED
        BY <1>0, <2>1, <3>1, StandsKeep
    <2>3. CASE a.ok /\ a.q.s = o
      <3> DEFINE n == Feed!EntryNote(o, a.r, "user")
                 v == Feed!Fold(ui, n)
                 w == Of(o)
                 p == Pending(o)
      <3>1. a.r \in Nat
        BY <1>0 DEF FeedAnswers
      <3>2. n \in FeedNotes /\ n.t = "entry" /\ n.s = o /\ n.k = "user" /\ n.i = a.r
        BY <3>1 DEF Feed!EntryNote, FeedNotes, NoteKinds, FeedKinds
      <3>3. a.r \in 1..Len(w.log) /\ w.log[a.r] = "user"
        BY <1>0, <2>1, <2>3 DEF Of
      <3>4. v = Feed!FoldEntry(ui, n)
        BY <1>1, <3>2 DEF Feed!Fold
      <3>5. ui' = Feed!Started(v, a.r)
        BY <1>1, <1>5, <2>3, <3>4 DEF Feed!SubmitAnswered
      <3>6. Homely(v) /\ v.on = o
        BY <1>1, <3>2, FoldHomely DEF FeedShape
      <3>w. w \in Views /\ p \in Seq(FeedNotes) /\ (o \notin raced => Safe(w, ui, p) /\ Full(w, ui, p))
        BY <1>2, <1>3
      <3> HIDE DEF n, v, w, p
      <3>7. ASSUME o \notin raced PROVE Safe(w, v, p) /\ Full(w, v, p)
        <4>1. n.s = ui.on /\ n.i \in 1..Len(w.log) /\ w.log[n.i] = "user"
          BY <1>1, <3>2, <3>3
        <4>2. Safe(w, Feed!Fold(ui, n), p) /\ Full(w, Feed!Fold(ui, n), p)
          BY <1>0, <3>2, <3>7, <3>w, <4>1, EchoSafe
        <4>3. QED
          BY <4>2 DEF v
      <3>8. /\ v.on = ui'.on /\ ui'.await = v.await /\ ui'.shown = v.shown
                 /\ ui'.prompts = v.prompts
            /\ ui'.asked = v.asked /\ (v.running => ui'.running)
        <4>1. /\ v \in [on : Sessions, await : BOOLEAN, shown : Seq(Nat), running : BOOLEAN,
                   turn : Nat,
                   prompts : SUBSET Nat, asked : SUBSET Nat,
                     queue : Seq([i : Nat, home : Sessions]),
                   send : SUBSET FeedReqs]
          BY <3>6 DEF Homely, Mirrors
        <4>2. ui' = v \/ ui' = [v EXCEPT !.running = TRUE, !.turn = a.r]
          BY <3>5 DEF Feed!Started
        <4>3. QED
          BY <4>1, <4>2
      <3>9. o \notin raced => Safe(w, ui', p) /\ Full(w, ui', p)
        BY <3>7, <3>8, MirrorAlike
      <3>10. Of(o)' = Of(o)
        BY <2>1 DEF Of
      <3>11. o \notin raced' => Safe(Of(o)', ui', Pending(o)) /\ Full(Of(o)', ui', Pending(o))
        BY <2>1, <3>9, <3>10 DEF w, p
      <3>12. \A s \in Sessions : Alike(Of(s), Of(s)')
        BY <1>0, <2>1, AlikeNow
      <3>13. \A s \in Sessions : Pending(s)' = Pending(s)
        BY <2>1 DEF Pending
      <3>14. \A s \in Sessions : Served(s)' => Served(s)
        BY <2>1, ServedNow
      <3>15. QED
        BY <1>1, <2>1, <3>6, <3>8, <3>11, <3>12, <3>13, <3>14, MirrorKeeps
    <2>4. QED
      BY <2>2, <2>3
  <1>6. ASSUME NEW a \in answers, Feed!AnswerAnswered(a) PROVE ScreenInv'
    <2>1. /\ UNCHANGED <<log, run, stands, subs, raced, deliver, notes, reqs, sw>>
               /\ answers' \subseteq answers
      BY <1>6 DEF Feed!AnswerAnswered, Feed!TakeAnswer, Feed!server
    <2>2. CASE a.q.s # o \/ a.q.i \notin ui.asked
      <3>1. ui' = ui
        BY <1>1, <1>6, <2>2 DEF Feed!AnswerAnswered
      <3>2. QED
        BY <1>0, <2>1, <3>1, StandsKeep
    <2>3. CASE a.q.s = o /\ a.q.i \in ui.asked
      <3> DEFINE t == a.q.i
                 w == Of(o)
                 p == Pending(o)
      <3>1. ui' = [ui EXCEPT !.asked = @ \ {t}, !.prompts = IF a.ok THEN @ ELSE @ \cup {t}]
        BY <1>1, <1>6, <2>3 DEF Feed!AnswerAnswered
      <3>2. t \in ui.asked /\ a.ok \in BOOLEAN
        BY <1>0, <2>3 DEF FeedAnswers
      <3>3. w \in Views /\ p \in Seq(FeedNotes) /\ (o \notin raced => Safe(w, ui, p) /\ Full(w, ui, p))
        BY <1>2, <1>3
      <3>4. ui'.on = o
        BY <1>1, <1>u, <3>1
      <3> HIDE DEF t, w, p
      <3>5. o \notin raced => Safe(w, ui', p) /\ Full(w, ui', p)
        BY <1>0, <3>1, <3>2, <3>3, HandSafe
      <3>6. Of(o)' = Of(o)
        BY <2>1 DEF Of
      <3>7. o \notin raced' => Safe(Of(o)', ui', Pending(o)) /\ Full(Of(o)', ui', Pending(o))
        BY <2>1, <3>5, <3>6 DEF w, p
      <3>8. \A s \in Sessions : Alike(Of(s), Of(s)')
        BY <1>0, <2>1, AlikeNow
      <3>9. \A s \in Sessions : Pending(s)' = Pending(s)
        BY <2>1 DEF Pending
      <3>10. \A s \in Sessions : Served(s)' => Served(s)
        BY <2>1, ServedNow
      <3>11. QED
        BY <1>1, <2>1, <3>4, <3>7, <3>8, <3>9, <3>10, MirrorKeeps
    <2>4. QED
      BY <2>2, <2>3
  <1>7. QED
    BY <1>4, <1>5, <1>6

\* So does what sessions do of themselves.
LEMMA MovesKeep ==
    ASSUME FeedShape, FeedShape', Switching, ScreenInv, NEW s \in Sessions,
           \/ Feed!AppendNote(s) \/ Feed!StartTurn(s) \/ Feed!Ask(s) \/ Feed!Decide(s)
                \/ Feed!EndTurn(s)
    PROVE  ScreenInv'
  <1>1. SessionStep(s) /\ UNCHANGED <<reqs, answers>>
    BY MovesAre
  <1>2. Answering(s)
    BY <1>1 DEF Answering, Of
  <1>3. Walks(s)
    BY <1>1, <1>2, MovedWalks, ScreenNow
  <1>4. \A r \in Sessions : Served(r)' = Served(r)
    BY <1>1 DEF SessionStep, Served, Opens
  <1>5. QED
    BY <1>3, <1>4, WalksKeep

\* So do a message and an answer that are served.
LEMMA ServesKeep ==
    ASSUME FeedShape, FeedShape', Switching, ScreenInv, NEW q \in reqs,
           Feed!ServeSubmit(q) \/ Feed!ServeAnswer(q)
    PROVE  ScreenInv'
  <1>1. q.s \in Sessions /\ HasLog(q.s)
    BY DEF Switching, FeedShape, FeedReqs
  <1>2. reqs' = reqs \ {q} /\ ~deliver.on
    BY <1>1, ServesAre
  <1>3. CASE /\ SessionStep(q.s)
             /\ \/ /\ q.m = "submit" /\ Began(q.s)
                   /\ answers' = answers \cup {Feed!Ans(q, TRUE, Len(log[q.s]) + 1)}
                \/ /\ q.m = "answer" /\ q.i \in stands[q.s] /\ DecidedIn(q.s)
                   /\ answers' = answers \cup {Feed!Ans(q, TRUE, 0)}
    <2>1. ASSUME NEW r \in Sessions, r # q.s \/ q.m # "answer"
          PROVE  Of(r)'.answered = Of(r).answered
      <3>1. {c \in reqs' : c.m = "answer" /\ c.s = r} = {c \in reqs : c.m = "answer" /\ c.s = r}
        BY <1>2, <2>1
      <3>2. QED
        BY <3>1 DEF Of
    <2>2. Answering(q.s)
      BY <1>1, <1>3, <2>1 DEF Answering
    <2>3. Walks(q.s)
      BY <1>1, <1>3, <2>2, MovedWalks, ScreenNow
    <2>4. deliver' = deliver /\ ~Opens(q)
      BY <1>3 DEF SessionStep, Opens
    <2>5. \A a : Opens(a.q) => (a \in answers' <=> a \in answers)
      <3>1. \A r : Feed!Ans(q, TRUE, r).q = q
        BY DEF Feed!Ans
      <3>2. PICK k : answers' = answers \cup {Feed!Ans(q, TRUE, k)}
        BY <1>3
      <3>3. \A a : a \in answers' <=> a \in answers \/ a = Feed!Ans(q, TRUE, k)
        BY <3>2
      <3>4. QED
        BY <2>4, <3>1, <3>3
    <2>6. \A r \in Sessions : Served(r)' = Served(r)
      BY <2>4, <2>5 DEF Served, Opens
    <2>7. QED
      BY <1>1, <2>3, <2>6, WalksKeep
  <1>4. CASE /\ Still /\ UNCHANGED <<deliver, notes, ui, sw, typed, known>>
             /\ q.m \in {"submit", "answer"} /\ (q.m = "answer" => q.i \notin stands[q.s])
             /\ answers' = answers \cup {Feed!Ans(q, FALSE, 0)}
    <2>1. \A a \in answers' : Opens(a.q) /\ a.ok => a \in answers
      BY <1>4 DEF Feed!Ans
    <2>2. \A c \in reqs : c \in reqs' \/ c.m # "answer" \/ c.i \notin stands[c.s]
      BY <1>2, <1>4
    <2>3. QED
      BY <1>4, <2>1, <2>2, StandsKeep DEF Still
  <1>5. QED
    BY <1>1, <1>3, <1>4, ServesAre

-----------------------------------------------------------------------------
(* An attach                                                               *)

\* A session that is being delivered to the client is the target of its switch or a spare,
\* so what is on screen is another.
LEMMA DeliveredElsewhere ==
    ASSUME FeedShape, Switching, deliver.on
    PROVE  deliver.s \in Sessions /\ deliver.s # ui.on
  <1>1. deliver.s \in Sessions /\ deliver.ans.q.m \in {"resume", "fork", "command"}
    BY DEF FeedShape
  <1>2. Opens(deliver.ans.q) => deliver.s # ui.on
    BY <1>1 DEF Switching, Target, Served
  <1>3. deliver.ans.q.m = "command" => deliver.s # ui.on
    BY <1>1 DEF Switching, Spare
  <1>4. QED
    BY <1>1, <1>2, <1>3 DEF Opens

\* One more of the replay is sent.
LEMMA DeliverNote ==
    ASSUME FeedShape, Switching, Feed!Deliver, deliver.left # <<>>, NEW s \in Sessions,
             s = deliver.s
    PROVE  /\ Pending(s)' = Pending(s)
           /\ \A r \in Sessions : r # s => \E f : PlacedAs(f, r, Pending(r), Pending(r)')
           /\ \A r \in Sessions : Served(r)' = Served(r)
  <1> DEFINE b == sw.buffer
             n == Head(deliver.left)
             t == Tail(deliver.left)
  <1>1. /\ deliver.on /\ b \in Seq(FeedNotes) /\ notes \in Seq(FeedNotes)
        /\ deliver.left \in Seq(FeedNotes) /\ b \o notes \in Seq(FeedNotes)
    BY ViewTypes DEF Feed!Deliver
  <1>2. UNCHANGED <<log, run, stands, subs, reqs, ui, sw, answers>> /\ notes' = Append(notes, n)
    BY DEF Feed!Deliver, Feed!server, Feed!client
  <1>3. deliver'.on /\ deliver'.s = s /\ deliver'.left = t /\ deliver'.ans = deliver.ans
    <2>1. deliver \in [on : BOOLEAN, s : Sessions \cup {0}, left : Seq(FeedNotes),
            ans : FeedAnswers \cup {<<>>}]
      BY DEF FeedShape
    <2>2. deliver' = [deliver EXCEPT !.left = t]
      BY DEF Feed!Deliver
    <2>3. QED
      BY <1>1, <2>1, <2>2
  <1>4. n \in FeedNotes /\ n.s = s /\ t \in Seq(FeedNotes) /\ TailIs(deliver.left)
    <2>1. TailIs(deliver.left) /\ t \in Seq(FeedNotes)
      BY <1>1, TailFacts
    <2>2. \A j \in 1..Len(deliver.left) : deliver.left[j].s = deliver.s
      BY <1>1 DEF Switching
    <2>3. QED
      BY <2>1, <2>2 DEF TailIs
  <1>5. <<n>> \in Seq(FeedNotes) /\ notes \o <<n>> = Append(notes, n)
    BY <1>1, <1>4
  <1>6. b \o notes' = (b \o notes) \o <<n>>
    <2>1. b \o (notes \o <<n>>) = (b \o notes) \o <<n>>
      BY ZenonT(60), <1>1, <1>5, JoinAcross
    <2>2. QED
      BY <1>2, <1>5, <2>1
  <1>7. Pending(s)' = Pending(s)
    <2>1. Pending(s) = (b \o notes) \o deliver.left
      BY <1>1 DEF Pending
    <2>2. deliver.left = <<n>> \o t
      <3>1. <<n>> \o t \in Seq(FeedNotes) /\ Len(<<n>> \o t) = Len(deliver.left)
        BY <1>4, <1>5 DEF TailIs
      <3>2. \A k \in 1..Len(deliver.left) : deliver.left[k] = (<<n>> \o t)[k]
        BY <1>4, <1>5 DEF TailIs
      <3>3. QED
        BY <1>1, <3>1, <3>2, SeqEqual
    <2>3. (b \o notes) \o (<<n>> \o t) = ((b \o notes) \o <<n>>) \o t
      <3> HIDE DEF b, n, t
      <3>1. QED
        BY ZenonT(60), <1>1, <1>4, <1>5, JoinAcross
    <2>4. Pending(s)' = (b \o notes') \o t
      BY <1>2, <1>3 DEF Pending
    <2>5. QED
      BY ONLY <1>6, <2>1, <2>2, <2>3, <2>4
  <1>8. ASSUME NEW r \in Sessions, r # s PROVE \E f : PlacedAs(f, r, Pending(r), Pending(r)')
    <2>1. (b \o notes) \o <<>> = Pending(r)
      BY <1>8 DEF Pending
    <2>2. ((b \o notes) \o <<n>>) \o <<>> = Pending(r)'
      BY <1>2, <1>3, <1>6, <1>8 DEF Pending
    <2>3. <<>> \in Seq(FeedNotes) /\ \A k \in 1..Len(<<n>>) : <<n>>[k].s # r
      BY <1>4, <1>8
    <2> HIDE DEF b, n
    <2>4. \E f : PlacedAs(f, r, (b \o notes) \o <<>>, ((b \o notes) \o <<n>>) \o <<>>)
      BY <1>1, <1>5, <2>3, PlacesBetween
    <2>5. QED
      BY <2>1, <2>2, <2>4
  <1>9. \A r \in Sessions : Served(r)' = Served(r)
    BY <1>1, <1>2, <1>3 DEF Served, Opens
  <1>10. QED
    BY <1>7, <1>8, <1>9

\* So does a notification of an attach that is sent.
LEMMA DeliverKeeps ==
    ASSUME FeedShape, FeedShape', Switching, ScreenInv, Feed!Deliver
    PROVE  ScreenInv'
  <1>1. PICK s \in Sessions : s = deliver.s /\ s # ui.on
    BY DeliveredElsewhere DEF Feed!Deliver
  <1>2. UNCHANGED <<log, run, stands, subs, raced, reqs, ui, sw>> /\ deliver.on
    BY DEF Feed!Deliver, Feed!server, Feed!client
  <1>3. \A r \in Sessions : Of(r)' = Of(r)
    BY <1>2 DEF Of
  <1>4. CASE deliver.left # <<>>
    <2>1. /\ Pending(s)' = Pending(s)
          /\ \A r \in Sessions : r # s => \E f : PlacedAs(f, r, Pending(r), Pending(r)')
          /\ \A r \in Sessions : Served(r)' = Served(r)
      BY <1>1, <1>4, DeliverNote
    <2>2. \A r \in Sessions : Of(r) \in Views /\ Pending(r) \in Seq(FeedNotes)
            /\ Pending(r)' \in Seq(FeedNotes)
      BY TypedNow, TypedAfter
    <2>3. ASSUME NEW u \in Mirrors, u.on \in Sessions, Safe(Of(u.on), u, Pending(u.on))
          PROVE  /\ Safe(Of(u.on)', u, Pending(u.on)')
                 /\ Full(Of(u.on), u, Pending(u.on)) => Full(Of(u.on)', u, Pending(u.on)')
      <3>1. CASE u.on = s
        BY <1>3, <2>1, <2>3, <3>1
      <3>2. CASE u.on # s
        <4>1. PICK f : PlacedAs(f, u.on, Pending(u.on), Pending(u.on)')
          BY <2>1, <2>3, <3>2
        <4>2. Of(u.on)' = Of(u.on)
          BY <1>3, <2>3
        <4>3. QED
          BY <2>2, <2>3, <4>1, <4>2, PlacesSafe, PlacesFull
      <3>3. QED
        BY <3>1, <3>2
    <2>4. \A r \in Sessions : Waiting(r) \in Mirrors /\ Waiting(r).on = r
      BY ViewTypes
    <2>5. \A r \in Sessions : r \notin raced' => Safe(Of(r)', Waiting(r), Pending(r)')
      BY <1>2, <2>3, <2>4, ScreenNow
    <2>6. ASSUME ui'.on \notin raced'
          PROVE  Safe(Of(ui.on)', ui', Pending(ui.on)') /\ Full(Of(ui.on)', ui', Pending(ui.on)')
      <3>1. ui' = ui /\ ui \in Mirrors /\ ui.on \in Sessions
        BY <1>2, ViewTypes
      <3>2. Safe(Of(ui.on)', ui, Pending(ui.on)') /\ Full(Of(ui.on)', ui, Pending(ui.on)')
        BY <1>2, <2>3, <2>6, <3>1, ScreenNow
      <3>3. QED
        BY <3>1, <3>2
    <2>7. \A r \in Sessions : Served(r)' /\ r \notin raced' => Full(Of(r)', Waiting(r), Pending(r)')
      BY <1>2, <2>1, <2>3, <2>4, ScreenNow
    <2>8. \A r \in Sessions : LogOk(Of(r)')
      BY <1>3, ScreenNow DEF Logs
    <2>9. QED
      BY <2>5, <2>6, <2>7, <2>8, ScreenAfter
  <1>5. CASE deliver.left = <<>>
    <2>1. answers' = answers \cup {deliver.ans} /\ ~deliver'.on /\ notes' = notes
      BY <1>5 DEF Feed!Deliver, Feed!NoDeliver
    <2>2. deliver.ans.ok /\ deliver.ans.r = deliver.s
      BY <1>2 DEF FeedShape
    <2>3. \A r \in Sessions : Pending(r)' = Pending(r)
      BY <1>2, <1>5, <2>1 DEF Pending
    <2>4. \A r \in Sessions : Served(r)' => Served(r)
      BY <1>2, <2>1, <2>2 DEF Served, Opens
    <2>5. \A r \in Sessions : Alike(Of(r), Of(r)')
      BY <1>3 DEF Alike
    <2>6. QED
      BY <1>2, <2>3, <2>4, <2>5, RestKeeps
  <1>6. QED
    BY <1>4, <1>5

\* The client is attached to s, and everything else stays.
LEMMA AttachKeeps ==
    ASSUME FeedShape, ScreenInv, NEW s \in Sessions, s # ui.on, ~deliver.on,
           raced \subseteq raced', deliver'.on, deliver'.s = s, UNCHANGED <<notes, answers, ui, sw>>,
           \A r \in Sessions : r # s => Of(r)' = Of(r),
           LogOk(Of(s)'),
           LET r == (sw.buffer \o notes) \o deliver'.left
           IN  s \notin raced' => Safe(Of(s)', Waiting(s), r) /\ Full(Of(s)', Waiting(s), r)
    PROVE  ScreenInv'
  <1>1. Pending(s)' = (sw.buffer \o notes) \o deliver'.left
    BY DEF Pending
  <1>2. \A r \in Sessions : r # s => Pending(r)' = Pending(r)
    BY DEF Pending
  <1>3. \A r \in Sessions : r # s /\ Served(r)' => Served(r)
    BY DEF Served
  <1>4. s \notin raced' => Safe(Of(s)', Waiting(s), Pending(s)') /\ Full(Of(s)', Waiting(s), Pending(s)')
    BY <1>1
  <1>5. ASSUME NEW r \in Sessions, r \notin raced'
        PROVE  Safe(Of(r)', Waiting(r), Pending(r)')
                 /\ (Served(r)' => Full(Of(r)', Waiting(r), Pending(r)'))
    <2>1. CASE r = s
      BY <1>4, <1>5, <2>1
    <2>2. CASE r # s
      <3>1. Of(r)' = Of(r) /\ Pending(r)' = Pending(r) /\ (Served(r)' => Served(r))
        BY <1>2, <1>3, <2>2
      <3>2. Safe(Of(r), Waiting(r), Pending(r))
              /\ (Served(r) => Full(Of(r), Waiting(r), Pending(r)))
        BY <1>5, ScreenNow
      <3>3. QED
        BY <3>1, <3>2
    <2>3. QED
      BY <2>1, <2>2
  <1>6. ASSUME ui'.on \notin raced'
        PROVE  Safe(Of(ui.on)', ui', Pending(ui.on)') /\ Full(Of(ui.on)', ui', Pending(ui.on)')
    <2>1. PICK o \in Sessions : o = ui.on /\ o = ui'.on /\ ui' = ui
      BY ViewTypes
    <2>2. Of(o)' = Of(o) /\ Pending(o)' = Pending(o)
      BY <1>2, <2>1
    <2>3. Safe(Of(o), ui, Pending(o)) /\ Full(Of(o), ui, Pending(o))
      BY <1>6, <2>1, ScreenNow
    <2>4. Safe(Of(o)', ui', Pending(o)') /\ Full(Of(o)', ui', Pending(o)')
      BY <2>1, <2>2, <2>3
    <2>5. QED
      BY <2>1, <2>4
  <1>7. \A r \in Sessions : LogOk(Of(r)')
    BY ScreenNow DEF Logs
  <1>8. QED
    BY <1>5, <1>6, <1>7, ScreenAfter

\* So does a resume that is served.
LEMMA ResumeKeeps ==
    ASSUME FeedShape, FeedShape', Switching, ScreenInv, NEW q \in reqs, Feed!ServeResume(q)
    PROVE  ScreenInv'
  <1> DEFINE s == q.s
             p == sw.buffer \o notes
  <1>1. /\ s \in Sessions /\ HasLog(s) /\ q \in FeedReqs /\ q.m = "resume" /\ ~deliver.on
             /\ reqs' = reqs \ {q}
        /\ UNCHANGED <<log, run, stands, notes, ui, sw>> /\ raced \subseteq raced'
    BY DEF Switching, FeedShape, FeedReqs, Feed!ServeResume, Feed!Serve, Feed!client
  <1>2. s # ui.on
    BY <1>1 DEF Switching, Target
  <1>3. subs \in [Sessions -> {0, 1}]
    BY DEF FeedShape
  <1>4. CASE /\ subs' = [subs EXCEPT ![q.s] = 1] /\ answers' = answers
             /\ deliver' = [on |-> TRUE, s |-> q.s, left |-> Feed!Attachment(q.s),
                  ans |-> Feed!Ans(q, TRUE, q.s)]
    <2>1. deliver'.on /\ deliver'.s = s /\ deliver'.left = Feed!Attachment(s)
      BY <1>4
    <2>2. ASSUME NEW r \in Sessions, r # s PROVE Of(r)' = Of(r)
      <3>1. {c \in reqs' : c.m = "answer" /\ c.s = r} = {c \in reqs : c.m = "answer" /\ c.s = r}
        BY <1>1
      <3>2. subs'[r] = subs[r]
        BY <1>3, <1>4, <2>2
      <3>3. QED
        BY <1>1, <3>1, <3>2 DEF Of
    <2>3. p \in Seq(FeedNotes) /\ Pending(s) = p
      <3>1. p \in Seq(FeedNotes)
        BY ViewTypes
      <3>2. QED
        BY <1>1, <3>1, JoinNone DEF Pending
    <2> DEFINE w == Of(s)
               x == Of(s)'
               r == p \o Feed!Attachment(s)
    <2>4. w \in Views /\ x \in Views /\ LogOk(w) /\ w.log # <<>>
      <3>1. w \in Views /\ x \in Views
        BY <1>1, TypedNow, TypedAfter
      <3>2. LogOk(w)
        BY <1>1, ScreenNow DEF Logs
      <3>3. w.log # <<>>
        BY <1>1 DEF Of, HasLog
      <3>4. QED
        BY <3>1, <3>2, <3>3
    <2>5. x.log = w.log /\ x.run = w.run /\ x.standing = w.standing
      BY <1>1 DEF Of
    <2>6. AttachedTo(p, r, w, s) /\ r \in Seq(FeedNotes)
      <3>1. Feed!Attachment(s) \in Seq(FeedNotes)
        BY <1>1, AttachmentShape
      <3>2. r \in Seq(FeedNotes)
        BY <2>3, <3>1
      <3>3. QED
        BY <1>1, <2>3, <2>4, <3>2, AttachIs
    <2>7. s \notin raced' => Safe(w, Waiting(s), p)
      BY <1>1, <2>3, ScreenNow
    <2> HIDE DEF w, x, r
    <2>8. s \notin raced' => Safe(x, Waiting(s), r) /\ Full(x, Waiting(s), r)
      BY <1>1, <2>3, <2>4, <2>5, <2>6, <2>7, AttachSafe DEF Waiting
    <2>9. LogOk(x)
      BY <2>4, <2>5 DEF LogOk
    <2>10. QED
      BY <1>1, <1>2, <1>4, <2>1, <2>2, <2>8, <2>9, AttachKeeps DEF x, r
  <1>5. CASE /\ subs' = [subs EXCEPT ![q.s] = 0] /\ deliver' = deliver
             /\ answers' = answers \cup {Feed!Ans(q, FALSE, 0)}
    <2>1. \A r \in Sessions : subs'[r] \in {subs[r], 0}
      BY <1>3, <1>5
    <2>2. \A a \in answers' : Opens(a.q) /\ a.ok => a \in answers
      BY <1>5 DEF Feed!Ans
    <2>3. QED
      BY <1>1, <1>5, <2>1, <2>2, StandsKeep
  <1>6. QED
    BY <1>4, <1>5 DEF Feed!ServeResume

\* A session that is opened: it has its head, which is to be sent.
LEMMA OpenedSafe ==
    ASSUME NEW s \in Sessions, NEW w \in Views, NEW x \in Views, w.log = <<>>,
           x.log = <<"head">>, x.run = w.run, x.standing = w.standing,
           NEW p \in Seq(FeedNotes), Safe(w, Waiting(s), p)
    PROVE  LET r == Append(p, Feed!EntryNote(s, 1, "head"))
           IN  Safe(x, Waiting(s), r) /\ Full(x, Waiting(s), r)
  <1> DEFINE y == [x EXCEPT !.subs = 0]
             n == Feed!EntryNote(s, 1, "head")
             u == Waiting(s)
             r == Append(p, n)
  <1>1. w.run = 0 /\ w.standing = {} /\ LogOk(w)
    BY DEF Safe, LogOk
  <1>2. /\ y \in Views /\ y.log = <<"head">> /\ y.run = 0 /\ y.standing = {} /\ y.subs = 0
        /\ Len(y.log) = 1 /\ y.log[1] = "head" /\ y.log # <<>>
    <2>1. x \in [log : Seq(FeedKinds), run : Nat, standing : SUBSET Nat, subs : {0, 1},
            answered : SUBSET Nat]
      BY DEF Views
    <2>2. y.log = <<"head">> /\ y.run = 0 /\ y.standing = {} /\ y.subs = 0
      BY <1>1, <2>1
    <2>3. y \in Views
      BY <2>1 DEF Views
    <2>4. \A e : e = <<"head">> => Len(e) = 1 /\ e[1] = "head" /\ e # <<>>
      OBVIOUS
    <2>5. QED
      BY <2>2, <2>3, <2>4
  <1>3. u.on = s /\ u.prompts = {} /\ u.asked = {} /\ Feed!Seen(u) = {}
    <2>1. u.shown = <<>> /\ u.on = s /\ u.prompts = {} /\ u.asked = {}
      BY DEF Waiting, Feed!Fresh
    <2>2. \A z : z.shown = <<>> => Feed!Seen(z) = {}
      BY DEF Feed!Seen, Feed!ToSet
    <2>3. QED
      BY <2>1, <2>2
  <1>4. n \in FeedNotes /\ n.t = "entry" /\ n.s = s /\ n.i = 1 /\ n.k = "head"
    BY DEF Feed!EntryNote, FeedNotes, NoteKinds, FeedKinds
  <1>5. Len(w.log) = 0
    OBVIOUS
  <1>6. r \in Seq(FeedNotes) /\ Extends(p, r) /\ Len(r) = Len(p) + 1 /\ r[Len(p) + 1] = n
    BY <1>4, AppendIs
  <1>7. x.log = y.log /\ x.run = y.run /\ x.standing = y.standing
    BY <1>1, <1>2
  <1>u. Safe(w, u, p) /\ n = Feed!EntryNote(s, 1, "head")
    OBVIOUS
  <1> HIDE DEF y, n, u, r
  <1>8. Safe(y, u, p)
    <2>1. LogOk(y)
      BY <1>2 DEF LogOk
    <2>2. \A k \in 1..Len(p) : p[k].s = s => p[k].t = "state" /\ p[k].k \in {"run", "rest"}
      BY <1>3, <1>5, <1>u DEF Safe, Told, Genuine, WasPut
    <2>3. Told(y, s, p) /\ AsksFirst(y, u, p)
      BY <1>3, <2>2 DEF Told, Genuine, AsksFirst, IsAsk
    <2>4. Sane(y, u)
      BY <1>3 DEF Sane
    <2>5. InOrder(u, p)
      BY <1>u DEF Safe
    <2>6. QED
      BY <1>2, <1>3, <2>1, <2>3, <2>4, <2>5 DEF Safe
  <1>9. AttachedTo(p, r, y, s)
    <2>1. Len(p) \in Nat /\ Len(p) + Len(y.log) = Len(r)
      BY <1>2, <1>6
    <2>2. r[Len(p) + 1] = Feed!EntryNote(s, 1, y.log[1])
      BY <1>2, <1>6, <1>u
    <2>3. \A i \in 1..Len(y.log) : i = 1
      BY <1>2
    <2>4. QED
      BY <1>2, <1>6, <2>1, <2>2, <2>3 DEF AttachedTo
  <1>10. Safe(x, u, r) /\ Full(x, u, r)
    BY <1>2, <1>6, <1>7, <1>8, <1>9, AttachSafe DEF u, Waiting
  <1>11. QED
    BY <1>10 DEF r, n, u

\* So does a fork that is served.
LEMMA ForkKeeps ==
    ASSUME FeedShape, FeedShape', Switching, ScreenInv, NEW q \in reqs, NEW s \in Sessions,
             Feed!ServeFork(q, s)
    PROVE  ScreenInv'
  <1> DEFINE p == sw.buffer \o notes
             n == Feed!EntryNote(s, 1, "head")
  <1>1. /\ q.m \in {"fork", "command"} /\ ~deliver.on /\ reqs' = reqs \ {q} /\ log[s] = <<>>
        /\ log' = Feed!Grow(s, <<"head">>) /\ subs' = [subs EXCEPT ![s] = 1]
        /\ deliver' = [on |-> TRUE, s |-> s, left |-> <<n>>, ans |-> Feed!Ans(q, TRUE, s)]
        /\ UNCHANGED <<run, stands, raced, notes, answers, ui, sw>>
    BY DEF Feed!ServeFork, Feed!Serve, Feed!Live, Feed!client
  <1>2. s # ui.on
    BY <1>1 DEF Switching, Enterable, HasLog
  <1>3. deliver'.on /\ deliver'.s = s /\ deliver'.left = <<n>>
    BY <1>1
  <1>4. log'[s] = <<"head">> /\ \A r \in Sessions : r # s => log'[r] = log[r] /\ subs'[r] = subs[r]
    <2>1. log \in [Sessions -> Seq(FeedKinds)] /\ subs \in [Sessions -> {0, 1}]
      BY DEF FeedShape
    <2>2. <<>> \o <<"head">> = <<"head">>
      OBVIOUS
    <2>3. QED
      BY <1>1, <2>1, <2>2 DEF Feed!Grow
  <1>5. ASSUME NEW r \in Sessions, r # s PROVE Of(r)' = Of(r)
    <2>1. {c \in reqs' : c.m = "answer" /\ c.s = r} = {c \in reqs : c.m = "answer" /\ c.s = r}
      BY <1>1
    <2>2. QED
      BY <1>1, <1>4, <1>5, <2>1 DEF Of
  <1>6. p \in Seq(FeedNotes) /\ Pending(s) = p
    <2>1. p \in Seq(FeedNotes)
      BY ViewTypes
    <2>2. QED
      BY <1>1, <2>1, JoinNone DEF Pending
  <1> DEFINE w == Of(s)
             x == Of(s)'
  <1>7. w \in Views /\ x \in Views
    BY TypedNow, TypedAfter
  <1>8. w.log = <<>> /\ x.log = <<"head">> /\ x.run = w.run /\ x.standing = w.standing
    BY <1>1, <1>4 DEF Of
  <1>9. s \notin raced => Safe(w, Waiting(s), p)
    BY <1>6, ScreenNow
  <1>10. n \in FeedNotes /\ p \o <<n>> = Append(p, n)
    <2>1. n \in FeedNotes
      BY DEF Feed!EntryNote, FeedNotes, NoteKinds, FeedKinds
    <2>2. QED
      BY <1>6, <2>1
  <1> HIDE DEF w, x
  <1>11. s \notin raced => Safe(x, Waiting(s), Append(p, n)) /\ Full(x, Waiting(s), Append(p, n))
    BY <1>6, <1>7, <1>8, <1>9, OpenedSafe
  <1>12. LogOk(x)
    <2>1. LogOk(w)
      BY ScreenNow DEF Logs, w
    <2>2. \A e : e = <<"head">> => Len(e) = 1 /\ e[1] = "head" /\ e # <<>>
      OBVIOUS
    <2>3. x.run = 0 /\ x.standing = {}
      BY <1>8, <2>1 DEF LogOk
    <2>4. QED
      BY <1>8, <2>2, <2>3 DEF LogOk
  <1>13. raced' = raced
    BY <1>1
  <1>14. QED
    BY <1>1, <1>2, <1>3, <1>5, <1>10, <1>11, <1>12, <1>13, AttachKeeps DEF x

-----------------------------------------------------------------------------
(* What the client takes                                                   *)

\* So does a notification that is taken.
LEMMA TakeKeeps ==
    ASSUME FeedShape, FeedShape', Switching, ScreenInv, Feed!Take
    PROVE  ScreenInv'
  <1> DEFINE b == sw.buffer
             n == Head(notes)
             t == Tail(notes)
             D(r) == IF deliver.on /\ deliver.s = r THEN deliver.left ELSE <<>>
  <1>1. /\ notes # <<>> /\ notes' = t /\ UNCHANGED <<log, run, stands, subs, raced, deliver, answers>>
        /\ b \in Seq(FeedNotes) /\ notes \in Seq(FeedNotes) /\ deliver.left \in Seq(FeedNotes)
        /\ sw \in [on : BOOLEAN, buffer : Seq(FeedNotes)] /\ (~sw.on => b = <<>>)
        /\ Homely(ui) /\ ui \in Mirrors /\ ui.on \in Sessions /\ ui.send = {}
    <2>1. /\ notes # <<>> /\ notes' = t /\ UNCHANGED <<log, run, stands, subs, raced, deliver, answers>>
      BY DEF Feed!Take, Feed!server
    <2>2. /\ sw \in [on : BOOLEAN, buffer : Seq(FeedNotes)] /\ (~sw.on => b = <<>>) /\ Homely(ui)
               /\ ui.send = {}
      BY DEF FeedShape
    <2>3. QED
      BY <2>1, <2>2, ViewTypes
  <1>2. TailIs(notes) /\ t \in Seq(FeedNotes)
    BY <1>1, TailFacts
  <1>3. n \in FeedNotes
    BY <1>2 DEF TailIs
  <1>4. \A r \in Sessions : D(r) \in Seq(FeedNotes)
    BY <1>1
  <1>5. notes = <<n>> \o t
    <2>1. <<n>> \in Seq(FeedNotes) /\ <<n>> \o t \in Seq(FeedNotes) /\ Len(<<n>> \o t) = Len(notes)
      BY <1>2, <1>3 DEF TailIs
    <2>2. \A k \in 1..Len(notes) : notes[k] = (<<n>> \o t)[k]
      BY <1>2, <1>3 DEF TailIs
    <2>3. QED
      BY <1>1, <2>1, <2>2, SeqEqual
  <1>6. CASE sw.on
    <2>1. sw'.on = sw.on /\ sw'.buffer = Append(b, n) /\ ui' = ui /\ reqs' = reqs
      <3>1. sw' = [sw EXCEPT !.buffer = Append(@, n)] /\ ui' = ui /\ reqs' = reqs
        BY <1>6 DEF Feed!Take
      <3>2. QED
        BY <1>1, <3>1
    <2>2. Append(b, n) \o t = b \o notes
      <3>1. b \o <<n>> = Append(b, n) /\ <<n>> \in Seq(FeedNotes)
        BY <1>1, <1>3
      <3> HIDE DEF b, n, t
      <3>2. b \o (<<n>> \o t) = (b \o <<n>>) \o t
        BY SMTT(30), <1>1, <1>2, <3>1, JoinAcross
      <3>3. QED
        BY <1>5, <3>1, <3>2
    <2>3. \A r \in Sessions : Pending(r)' = Pending(r)
      <3>1. \A r \in Sessions : Pending(r)' = (Append(b, n) \o t) \o D(r)
        BY <1>1, <2>1 DEF Pending
      <3>2. \A r \in Sessions : Pending(r) = (b \o notes) \o D(r)
        BY DEF Pending
      <3> HIDE DEF b, n, t, D
      <3>3. QED
        BY <2>2, <3>1, <3>2
    <2>4. \A r \in Sessions : Served(r)' => Served(r)
      BY <1>1 DEF Served
    <2>5. \A r \in Sessions : Alike(Of(r), Of(r)')
      BY <1>1, <2>1 DEF Of, Alike
    <2>6. QED
      BY <1>1, <2>1, <2>3, <2>4, <2>5, RestKeeps
  <1>7. CASE ~sw.on
    <2> DEFINE v == Feed!Fold(ui, n)
    <2>1. /\ ui' = [v EXCEPT !.send = {}] /\ reqs' = reqs \cup v.send /\ sw' = sw
      BY <1>7 DEF Feed!Take, Feed!Settle
    <2>2. Homely(v) /\ v.on = ui.on
      BY <1>1, <1>3, FoldHomely
    <2>3. /\ v \in Mirrors /\ \A q \in v.send : q.m = "submit"
      BY <2>2 DEF Homely
    <2>4. \A r \in Sessions : Of(r)' = Of(r)
      <3>1. ASSUME NEW r \in Sessions
            PROVE  {q \in reqs' : q.m = "answer" /\ q.s = r} = {q \in reqs : q.m = "answer"
                     /\ q.s = r}
        BY <2>1, <2>3
      <3>2. QED
        BY <1>1, <3>1 DEF Of
    <2>5. ASSUME NEW r \in Sessions
          PROVE  /\ Pending(r) \in Seq(FeedNotes) /\ Pending(r) # <<>> /\ Pending(r)[1] = n
                 /\ Pending(r)' = Tail(Pending(r))
      <3>1. b \o notes = notes /\ b \o t = t
        BY SMTT(30), <1>1, <1>2, <1>7
      <3>2. Pending(r) = notes \o D(r) /\ Pending(r)' = t \o D(r)
        BY <1>1, <2>1, <3>1 DEF Pending
      <3>3. D(r) \in Seq(FeedNotes)
        BY <1>4
      <3> DEFINE d == D(r)
      <3> HIDE DEF D, n, t, b
      <3>4. notes \o d \in Seq(FeedNotes) /\ notes \o d # <<>> /\ (notes \o d)[1] = notes[1]
        BY <1>1, <1>2, <3>3 DEF TailIs
      <3>5. Tail(notes \o d) = Tail(notes) \o d
        BY <1>1, <3>3
      <3>6. n = notes[1] /\ t = Tail(notes)
        BY <1>2 DEF n, t, TailIs
      <3>7. QED
        BY <3>2, <3>4, <3>5, <3>6
    <2>6. \A r \in Sessions : r \notin raced' => Safe(Of(r)', Waiting(r), Pending(r)')
      <3>1. \A r \in Sessions : r \notin raced => Safe(Of(r), Waiting(r), Tail(Pending(r)))
        BY <2>5, TypedNow, ScreenNow, FreshTail DEF Waiting
      <3>2. QED
        BY <1>1, <2>4, <2>5, <3>1
    <2>7. PICK o \in Sessions : o = ui.on
      BY <1>1
    <2> HIDE DEF v
    <2>8. ASSUME o \notin raced PROVE Safe(Of(o), v, Tail(Pending(o))) /\ Full(Of(o), v, Tail(Pending(o)))
      <3> DEFINE w == Of(o)
                 p == Pending(o)
      <3>1. Safe(w, ui, p) /\ Full(w, ui, p)
        BY <2>7, <2>8, ScreenNow
      <3>2. w \in Views /\ p \in Seq(FeedNotes) /\ p # <<>> /\ p[1] = n
        BY <2>5, TypedNow
      <3> HIDE DEF w, p
      <3>3. Safe(w, Feed!Fold(ui, p[1]), Tail(p)) /\ Full(w, Feed!Fold(ui, p[1]), Tail(p))
        BY <1>1, <3>1, <3>2, FoldSafe
      <3>4. QED
        BY <3>2, <3>3 DEF w, p, v
    <2>9. /\ ui'.on = v.on /\ ui'.await = v.await /\ ui'.shown = v.shown /\ ui'.prompts = v.prompts
          /\ ui'.asked = v.asked /\ ui'.running = v.running
      BY <2>1, <2>3 DEF Mirrors
    <2>10. o \notin raced => Safe(Of(o), ui', Tail(Pending(o))) /\ Full(Of(o), ui', Tail(Pending(o)))
      BY <2>8, <2>9, MirrorAlike
    <2>11. ui'.on \notin raced' =>
             Safe(Of(ui.on)', ui', Pending(ui.on)') /\ Full(Of(ui.on)', ui', Pending(ui.on)')
      <3>1. ui'.on = o
        BY <2>2, <2>7, <2>9
      <3>2. o \notin raced' => Safe(Of(o)', ui', Pending(o)') /\ Full(Of(o)', ui', Pending(o)')
        BY <1>1, <2>4, <2>5, <2>10
      <3>3. QED
        BY <3>1, <3>2
    <2>12. \A r \in Sessions : ~Served(r)'
      <3>1. \A r \in Sessions : ~Served(r)
        BY <1>7 DEF Switching, OneSwitch, Served
      <3>2. QED
        BY <1>1, <3>1 DEF Served
    <2>13. \A r \in Sessions : LogOk(Of(r)')
      BY <2>4, ScreenNow DEF Logs
    <2>14. QED
      BY <2>6, <2>11, <2>12, <2>13, ScreenAfter
  <1>8. QED
    BY <1>6, <1>7

\* What is left of p after i of it.
LeftOf(p, i) == SubSeq(p, i + 1, Len(p))

\* What is left of a sequence after its first i.
LEMMA RestIs ==
    ASSUME NEW p \in Seq(FeedNotes), NEW i \in Nat, i < Len(p)
    PROVE  /\ LeftOf(p, i) \in Seq(FeedNotes) /\ LeftOf(p, i) # <<>> /\ LeftOf(p, i)[1] = p[i + 1]
           /\ Tail(LeftOf(p, i)) = LeftOf(p, i + 1)
  <1>1. Len(p) \in Nat
    OBVIOUS
  <1>2. /\ LeftOf(p, i) \in Seq(FeedNotes) /\ Len(LeftOf(p, i)) = Len(p) - i
        /\ \A k \in 1..Len(p) - i : LeftOf(p, i)[k] = p[i + k]
    BY <1>1 DEF LeftOf
  <1>3. /\ LeftOf(p, i + 1) \in Seq(FeedNotes) /\ Len(LeftOf(p, i + 1)) = Len(p) - i - 1
        /\ \A k \in 1..Len(p) - i - 1 : LeftOf(p, i + 1)[k] = p[i + 1 + k]
    BY <1>1 DEF LeftOf
  <1>4. LeftOf(p, i) # <<>>
    BY <1>1, <1>2
  <1>5. TailIs(LeftOf(p, i)) /\ Tail(LeftOf(p, i)) \in Seq(FeedNotes)
    BY <1>2, <1>4, TailFacts
  <1>6. Len(Tail(LeftOf(p, i))) = Len(LeftOf(p, i + 1))
    BY <1>1, <1>2, <1>3, <1>5 DEF TailIs
  <1>7. ASSUME NEW k \in 1..Len(Tail(LeftOf(p, i))) PROVE Tail(LeftOf(p, i))[k] = LeftOf(p, i + 1)[k]
    <2>1. Tail(LeftOf(p, i))[k] = LeftOf(p, i)[k + 1] /\ k + 1 \in 1..Len(p) - i
            /\ k \in 1..Len(p) - i - 1
      BY <1>1, <1>2, <1>3, <1>5, <1>6 DEF TailIs
    <2>2. i + (k + 1) = i + 1 + k
      OBVIOUS
    <2>3. QED
      BY <1>2, <1>3, <2>1, <2>2
  <1>8. Tail(LeftOf(p, i)) = LeftOf(p, i + 1)
    BY <1>3, <1>5, <1>6, <1>7, SeqEqual
  <1>9. LeftOf(p, i)[1] = p[i + 1]
    BY <1>1, <1>2
  <1>10. QED
    BY <1>2, <1>4, <1>8, <1>9

\* After none all of it is left, after the first part the second.
LEMMA RestEnds ==
    ASSUME NEW b \in Seq(FeedNotes), NEW c \in Seq(FeedNotes)
    PROVE  /\ b \o c \in Seq(FeedNotes) /\ Len(b) \in Nat
           /\ LeftOf(b \o c, 0) = b \o c /\ LeftOf(b \o c, Len(b)) = c
           /\ \A i \in Nat : i < Len(b) => i < Len(b \o c) /\ (b \o c)[i + 1] = b[i + 1]
  <1> DEFINE p == b \o c
  <1>1. /\ p \in Seq(FeedNotes) /\ Len(b) \in Nat /\ Len(c) \in Nat /\ Len(p) = Len(b) + Len(c)
        /\ \A k \in 1..Len(b) : p[k] = b[k]
        /\ \A k \in Len(b) + 1..Len(b) + Len(c) : p[k] = c[k - Len(b)]
    BY JoinIs
  <1> HIDE DEF p
  <1>2. LeftOf(p, 0) = p
    <2>1. LeftOf(p, 0) \in Seq(FeedNotes) /\ Len(LeftOf(p, 0)) = Len(p)
          /\ \A k \in 1..Len(p) : LeftOf(p, 0)[k] = p[k]
      BY <1>1 DEF LeftOf
    <2>2. QED
      BY <1>1, <2>1, SeqEqual
  <1>3. LeftOf(p, Len(b)) = c
    <2>1. /\ LeftOf(p, Len(b)) \in Seq(FeedNotes) /\ Len(LeftOf(p, Len(b))) = Len(c)
          /\ \A k \in 1..Len(c) : LeftOf(p, Len(b))[k] = p[Len(b) + k]
      BY <1>1 DEF LeftOf
    <2>2. \A k \in 1..Len(c) : p[Len(b) + k] = c[k]
      <3>1. \A k \in 1..Len(c) : Len(b) + k \in Len(b) + 1..Len(b) + Len(c)
              /\ (Len(b) + k) - Len(b) = k
        BY <1>1
      <3>2. QED
        BY <1>1, <3>1
    <2>3. QED
      BY <2>1, <2>2, SeqEqual
  <1>4. \A i \in Nat : i < Len(b) => i < Len(p) /\ p[i + 1] = b[i + 1]
    BY <1>1
  <1>5. QED
    BY <1>1, <1>2, <1>3, <1>4 DEF p

\* What a new mirror would fold in first can be dropped.
LEMMA FreshDrop ==
    ASSUME NEW s \in Sessions, NEW w \in Views, NEW b \in Seq(FeedNotes), NEW c \in Seq(FeedNotes),
           Safe(w, Waiting(s), b \o c)
    PROVE  Safe(w, Waiting(s), c)
  <1> DEFINE p == b \o c
             Q == {n \in Nat : n <= Len(b) => Safe(w, Waiting(s), LeftOf(p, n))}
  <1>1. /\ p \in Seq(FeedNotes) /\ Len(b) \in Nat /\ LeftOf(p, 0) = p /\ LeftOf(p, Len(b)) = c
        /\ \A i \in Nat : i < Len(b) => i < Len(p)
    BY RestEnds
  <1>p. Safe(w, Waiting(s), p)
    OBVIOUS
  <1> HIDE DEF p
  <1>2. 0 \in Q
    BY <1>1, <1>p
  <1>3. ASSUME NEW n \in Nat, n \in Q PROVE n + 1 \in Q
    <2>1. SUFFICES ASSUME n + 1 <= Len(b) PROVE Safe(w, Waiting(s), LeftOf(p, n + 1))
      OBVIOUS
    <2>2. n < Len(b) /\ n < Len(p) /\ Safe(w, Waiting(s), LeftOf(p, n))
      BY <1>1, <1>3, <2>1
    <2>3. LeftOf(p, n) \in Seq(FeedNotes) /\ LeftOf(p, n) # <<>> /\ Tail(LeftOf(p, n)) = LeftOf(p, n + 1)
      BY <1>1, <2>2, RestIs
    <2>4. Safe(w, Waiting(s), Tail(LeftOf(p, n)))
      BY <2>2, <2>3, FreshTail DEF Waiting
    <2>5. QED
      BY <2>3, <2>4
  <1> HIDE DEF Q
  <1>4. \A n \in Nat : n \in Q
    BY <1>2, <1>3, FeedCounts
  <1>5. QED
    BY <1>1, <1>4 DEF Q

\* What was held back is folded.
LEMMA ReplaySafe ==
    ASSUME NEW w \in Views, NEW u, Homely(u), sw.buffer \in Seq(FeedNotes),
             NEW c \in Seq(FeedNotes),
           Safe(w, u, sw.buffer \o c), Full(w, u, sw.buffer \o c)
    PROVE  Safe(w, Feed!Replayed(u), c) /\ Full(w, Feed!Replayed(u), c)
  <1> DEFINE b == sw.buffer
             p == b \o c
  <1>1. /\ p \in Seq(FeedNotes) /\ Len(b) \in Nat /\ LeftOf(p, 0) = p /\ LeftOf(p, Len(b)) = c
        /\ \A i \in Nat : i < Len(b) => i < Len(p) /\ p[i + 1] = b[i + 1]
    BY RestEnds
  <1>2. PICK g : /\ g[0] = u
                 /\ \A i \in 1..Len(b) : g[i] = Feed!Fold(g[i - 1], b[i])
                 /\ Feed!Replayed(u) = g[Len(b)]
    BY <1>1, ReplayIs
  <1> DEFINE Q == {n \in Nat : n <= Len(b) => /\ Homely(g[n])
                                              /\ Safe(w, g[n], LeftOf(p, n))
                                                   /\ Full(w, g[n], LeftOf(p, n))}
  <1>p. Safe(w, u, p) /\ Full(w, u, p) /\ b \in Seq(FeedNotes)
    OBVIOUS
  <1> HIDE DEF p, b
  <1>3. 0 \in Q
    BY <1>1, <1>2, <1>p
  <1>4. ASSUME NEW n \in Nat, n \in Q PROVE n + 1 \in Q
    <2>1. SUFFICES ASSUME n + 1 <= Len(b)
                   PROVE  Homely(g[n + 1]) /\ Safe(w, g[n + 1], LeftOf(p, n + 1))
                            /\ Full(w, g[n + 1], LeftOf(p, n + 1))
      OBVIOUS
    <2>2. /\ n < Len(b) /\ n < Len(p) /\ p[n + 1] = b[n + 1] /\ n + 1 \in 1..Len(b)
               /\ (n + 1) - 1 = n
          /\ Homely(g[n]) /\ Safe(w, g[n], LeftOf(p, n)) /\ Full(w, g[n], LeftOf(p, n))
      BY <1>1, <1>4, <2>1
    <2>3. /\ LeftOf(p, n) \in Seq(FeedNotes) /\ LeftOf(p, n) # <<>> /\ LeftOf(p, n)[1] = b[n + 1]
          /\ Tail(LeftOf(p, n)) = LeftOf(p, n + 1)
      BY <1>1, <2>2, RestIs
    <2>4. g[n + 1] = Feed!Fold(g[n], b[n + 1])
      BY <1>2, <2>2
    <2>5. b[n + 1] \in FeedNotes
      BY <1>p, <2>2
    <2>6. Homely(g[n + 1])
      BY <2>2, <2>4, <2>5, FoldHomely
    <2>7. g[n] \in Mirrors
      BY <2>2 DEF Homely
    <2> HIDE DEF Q
    <2>8. /\ Safe(w, Feed!Fold(g[n], LeftOf(p, n)[1]), Tail(LeftOf(p, n)))
          /\ Full(w, Feed!Fold(g[n], LeftOf(p, n)[1]), Tail(LeftOf(p, n)))
      BY <2>2, <2>3, <2>7, FoldSafe
    <2>9. QED
      BY <2>3, <2>4, <2>6, <2>8
  <1> HIDE DEF Q
  <1>5. \A n \in Nat : n \in Q
    BY <1>3, <1>4, FeedCounts
  <1>6. Safe(w, g[Len(b)], LeftOf(p, Len(b))) /\ Full(w, g[Len(b)], LeftOf(p, Len(b)))
    BY <1>1, <1>5 DEF Q
  <1>7. QED
    BY <1>1, <1>2, <1>6

\* The switch in flight ends: what was held is folded into v, which is put on screen.
LEMMA SettlesKeep ==
    ASSUME FeedShape, ScreenInv, NEW v, Homely(v),
           v.on \notin raced => Safe(Of(v.on), v, Pending(v.on)) /\ Full(Of(v.on), v, Pending(v.on)),
           NEW more \in SUBSET FeedReqs, \A q \in more : q.m # "answer",
           Feed!Settle(Feed!Replayed(v), more), sw'.buffer = <<>>,
           UNCHANGED <<log, run, stands, subs, raced, deliver, notes>>, \A s \in Sessions : ~Served(s)'
    PROVE  ScreenInv'
  <1> DEFINE b == sw.buffer
             D(r) == IF deliver.on /\ deliver.s = r THEN deliver.left ELSE <<>>
             z == Feed!Replayed(v)
  <1>1. b \in Seq(FeedNotes) /\ notes \in Seq(FeedNotes) /\ deliver.left \in Seq(FeedNotes)
          /\ sw'.buffer = <<>>
    BY ViewTypes
  <1>2. Homely(z) /\ z.on = v.on
    BY <1>1, ReplayHomely
  <1>3. z \in Mirrors /\ z.on \in Sessions /\ \A q \in z.send : q.m = "submit"
    BY <1>2 DEF Homely, Mirrors
  <1>4. ui' = [z EXCEPT !.send = {}] /\ reqs' = reqs \cup z.send \cup more
    BY DEF Feed!Settle
  <1>5. PICK o \in Sessions : o = v.on
    BY <1>2, <1>3
  <1>6. \A r \in Sessions : Of(r)' = Of(r)
    <2>1. ASSUME NEW r \in Sessions
          PROVE  {q \in reqs' : q.m = "answer" /\ q.s = r} = {q \in reqs : q.m = "answer"
                   /\ q.s = r}
      BY <1>3, <1>4
    <2>2. QED
      BY <2>1 DEF Of
  <1>7. ASSUME NEW r \in Sessions
        PROVE  /\ notes \o D(r) \in Seq(FeedNotes) /\ Pending(r) = b \o (notes \o D(r))
               /\ Pending(r)' = notes \o D(r)
    <2>1. D(r) \in Seq(FeedNotes)
      BY <1>1
    <2>2. Pending(r) = (b \o notes) \o D(r) /\ Pending(r)' = (<<>> \o notes) \o D(r)
      BY <1>1 DEF Pending
    <2> HIDE DEF D
    <2>3. <<>> \o notes = notes /\ notes \o D(r) \in Seq(FeedNotes)
      BY <1>1, <2>1
    <2>4. (b \o notes) \o D(r) = b \o (notes \o D(r))
      BY <1>1, <2>1, JoinAcross
    <2>5. QED
      BY ONLY <2>2, <2>3, <2>4
  <1> HIDE DEF D
  <1>8. \A r \in Sessions : r \notin raced' => Safe(Of(r)', Waiting(r), Pending(r)')
    <2>1. ASSUME NEW r \in Sessions, r \notin raced' PROVE Safe(Of(r)', Waiting(r), Pending(r)')
      <3>1. Safe(Of(r), Waiting(r), b \o (notes \o D(r)))
        BY <1>7, <2>1, ScreenNow
      <3>2. Safe(Of(r), Waiting(r), notes \o D(r))
        BY <1>1, <1>7, <3>1, TypedNow, FreshDrop
      <3>3. QED
        BY <1>6, <1>7, <3>2
    <2>2. QED
      BY <2>1
  <1>9. ASSUME o \notin raced PROVE Safe(Of(o), z, notes \o D(o)) /\ Full(Of(o), z, notes \o D(o))
    <2>1. Safe(Of(o), v, b \o (notes \o D(o))) /\ Full(Of(o), v, b \o (notes \o D(o)))
      BY <1>5, <1>7, <1>9
    <2>2. Of(o) \in Views
      BY TypedNow
    <2>3. QED
      BY <1>1, <1>7, <2>1, <2>2, ReplaySafe
  <1> HIDE DEF z
  <1>10. /\ ui'.on = z.on /\ ui'.await = z.await /\ ui'.shown = z.shown /\ ui'.prompts = z.prompts
         /\ ui'.asked = z.asked /\ ui'.running = z.running
    BY <1>3, <1>4 DEF Mirrors
  <1>11. o \notin raced => Safe(Of(o), ui', notes \o D(o)) /\ Full(Of(o), ui', notes \o D(o))
    BY <1>9, <1>10, MirrorAlike
  <1>12. ui'.on \notin raced' =>
           Safe(Of(ui.on)', ui', Pending(ui.on)') /\ Full(Of(ui.on)', ui', Pending(ui.on)')
    <2>1. ui'.on = o
      BY <1>2, <1>5, <1>10
    <2>2. o \notin raced' => Safe(Of(o)', ui', Pending(o)') /\ Full(Of(o)', ui', Pending(o)')
      BY <1>6, <1>7, <1>11
    <2>3. QED
      BY <2>1, <2>2
  <1>13. \A r \in Sessions : LogOk(Of(r)')
    BY <1>6, ScreenNow DEF Logs
  <1>14. QED
    BY <1>8, <1>12, <1>13, ScreenAfter

\* The end of a switch keeps ScreenInv: the replay, or the return to the queue held.
LEMMA SwitchKeeps ==
    ASSUME FeedShape, FeedShape', Switching, ScreenInv, NEW a \in answers, Feed!Switched(a)
             \/ Feed!Aborted(a)
    PROVE  ScreenInv'
  <1>1. /\ Opens(a.q) /\ answers' = answers \ {a}
             /\ UNCHANGED <<log, run, stands, subs, raced, deliver, notes>>
        /\ sw'.buffer = <<>>
    <2>1. CASE Feed!Switched(a)
      BY <2>1 DEF Feed!Switched, Feed!TakeAnswer, Feed!NoSwitch, Feed!server, Opens
    <2>2. CASE Feed!Aborted(a)
      BY <2>2 DEF Feed!Aborted, Feed!TakeAnswer, Feed!NoSwitch, Feed!server, Opens
    <2>3. QED
      BY <2>1, <2>2
  <1>2. \A s \in Sessions : ~Served(s)'
    <2>1. \A b \in answers : Opens(b.q) => a = b
      BY <1>1 DEF Switching, OneSwitch
    <2>2. ~(deliver.on /\ Opens(deliver.ans.q))
      BY <1>1 DEF Switching, OneSwitch
    <2>3. QED
      BY <1>1, <2>1, <2>2 DEF Served, Opens
  <1>3. CASE Feed!Aborted(a)
    <2>1. Feed!Settle(Feed!Replayed(ui), {})
      BY <1>3 DEF Feed!Aborted
    <2>2. Homely(ui)
      BY DEF FeedShape
    <2>3. ui.on \notin raced => Safe(Of(ui.on), ui, Pending(ui.on)) /\ Full(Of(ui.on), ui, Pending(ui.on))
      BY ScreenNow
    <2>4. QED
      BY <1>1, <1>2, <2>1, <2>2, <2>3, SettlesKeep
  <1>4. CASE Feed!Switched(a)
    <2> DEFINE more == {q \in {Feed!Req("close", ui.on, 0, ui.on)} : q.s # a.r}
               v == Feed!Fresh(a.r, TRUE)
    <2>1. Feed!Settle(Feed!Replayed(v), more) /\ a.ok
      BY <1>4 DEF Feed!Switched
    <2>2. a.r \in Sessions
      BY <1>1, <2>1 DEF FeedShape, Names, Opens
    <2>3. Homely(v) /\ v.on = a.r
      BY <2>2, FreshHomely
    <2>4. Served(a.r)
      BY <1>1, <2>1 DEF Served
    <2>5. a.r \notin raced => Safe(Of(a.r), v, Pending(a.r)) /\ Full(Of(a.r), v, Pending(a.r))
      BY <2>2, <2>4, ScreenNow DEF Waiting
    <2>6. more \in SUBSET FeedReqs /\ \A q \in more : q.m # "answer"
      <3>1. ui.on \in Sessions
        BY ViewTypes
      <3>2. Feed!Req("close", ui.on, 0, ui.on) \in FeedReqs
              /\ Feed!Req("close", ui.on, 0, ui.on).m = "close"
        BY <3>1, ReqShape
      <3>3. QED
        BY <3>2
    <2> HIDE DEF more, v
    <2>7. QED
      BY <1>1, <1>2, <2>1, <2>3, <2>5, <2>6, SettlesKeep
  <1>5. QED
    BY <1>3, <1>4

\* Every step keeps the screen.
LEMMA ScreenNext ==
    ASSUME FeedShape, FeedShape', Switching, ScreenInv, Feed!Next
    PROVE  ScreenInv'
  <1>1. ASSUME NEW s \in Sessions,
               \/ Feed!AppendNote(s) \/ Feed!StartTurn(s) \/ Feed!Ask(s) \/ Feed!Decide(s)
                    \/ Feed!EndTurn(s)
        PROVE  ScreenInv'
    BY <1>1, MovesKeep
  <1>2. ASSUME NEW q \in reqs, Feed!ServeSubmit(q) \/ Feed!ServeAnswer(q) PROVE ScreenInv'
    BY <1>2, ServesKeep
  <1>3. ASSUME NEW q \in reqs, Feed!ServeClose(q) PROVE ScreenInv'
    BY <1>3, KeysKeep
  <1>4. ASSUME NEW q \in reqs, Feed!ServeResume(q) PROVE ScreenInv'
    BY <1>4, ResumeKeeps
  <1>5. ASSUME NEW q \in reqs, NEW s \in Sessions, Feed!ServeFork(q, s) PROVE ScreenInv'
    BY <1>5, ForkKeeps
  <1>6. CASE Feed!Deliver
    BY <1>6, DeliverKeeps
  <1>7. CASE Feed!Take
    BY <1>7, TakeKeeps
  <1>8. CASE Feed!Enter \/ Feed!CancelTurn \/ Feed!Switch \/ Feed!ForkCommand
    BY <1>8, KeysKeep
  <1>9. ASSUME NEW p \in ui.prompts, Feed!AnswerKey(p) PROVE ScreenInv'
    BY <1>9, HandKeeps
  <1>10. ASSUME NEW a \in answers, Feed!SubmitAnswered(a) \/ Feed!AnswerAnswered(a) PROVE ScreenInv'
    BY <1>10, HandKeeps
  <1>11. ASSUME NEW a \in answers, Feed!CommandAnswered(a) PROVE ScreenInv'
    BY <1>11, KeysKeep
  <1>12. ASSUME NEW a \in answers, Feed!Switched(a) \/ Feed!Aborted(a) PROVE ScreenInv'
    BY <1>12, SwitchKeeps
  <1>13. QED
    BY <1>1, <1>2, <1>3, <1>4, <1>5, <1>6, <1>7, <1>8, <1>9, <1>10, <1>11, <1>12 DEF Feed!Next

-----------------------------------------------------------------------------
(* The switch in flight, step by step                                      *)

\* Where the parts of it come from.
LEMMA SwitchingNow ==
    ASSUME FeedShape, Switching
    PROVE  /\ ui.on \in Sessions /\ HasLog(ui.on) /\ ui.on \in known
           /\ ui.on \notin raced => Enterable(ui.on) /\ subs[ui.on] = 1
           /\ known \subseteq Sessions /\ \A s \in known : HasLog(s)
           /\ \A q \in reqs : q \in FeedReqs /\ q.s \in Sessions /\ HasLog(q.s)
           /\ \A q \in reqs : Opens(q) =>
                /\ sw.on /\ (\A p \in reqs : Opens(p) => p = q)
                /\ ~(deliver.on /\ Opens(deliver.ans.q)) /\ \A a \in answers : ~Opens(a.q)
           /\ deliver.on /\ Opens(deliver.ans.q) => sw.on /\ \A a \in answers : ~Opens(a.q)
           /\ \A a \in answers : Opens(a.q) => sw.on /\ \A b \in answers : Opens(b.q) => a = b
           /\ deliver.on => /\ deliver.s \in Sessions /\ HasLog(deliver.s) /\ deliver.ans.ok
                                 /\ deliver.ans.r = deliver.s
                            /\ \A j \in 1..Len(deliver.left) : deliver.left[j].s = deliver.s
                            /\ deliver.ans.q.m \in {"resume", "fork", "command"}
           /\ \A s \in Sessions : Target(s) => s # ui.on /\ HasLog(s)
           /\ \A s \in Sessions : Served(s) /\ s \notin raced => Enterable(s) /\ subs[s] = 1
           /\ \A s \in Sessions : Spare(s) => s \notin known /\ Enterable(s) /\ ~Target(s)
           /\ \A a \in answers : a.q \in FeedReqs /\ a.q.s \in Sessions
           /\ \A a \in answers : a.q.m \in {"resume", "fork", "command"} /\ a.ok => a.r \in Sessions
           /\ \A a \in answers : a.q.m = "command" =>
                /\ a.ok /\ a.r \in Sessions /\ Spare(a.r) /\ ~(deliver.on /\ deliver.s = a.r)
                /\ \A b \in answers : b.q.m = "command" /\ b.r = a.r => a = b
           /\ \A a \in answers : a.q.m = "submit" /\ a.ok => a.r \in 1..Len(log[a.q.s])
                /\ log[a.q.s][a.r] = "user"
  <1>1. ui.on \in Sessions
    BY ViewTypes
  <1>2. known \subseteq Sessions /\ reqs \in SUBSET FeedReqs /\ answers \in SUBSET FeedAnswers
    BY DEF FeedShape
  <1>3. \A q \in FeedReqs : q.s \in Sessions
    BY DEF FeedReqs
  <1>4. \A a \in answers : a.q \in FeedReqs
    BY <1>2 DEF FeedAnswers
  <1>5. /\ \A a \in answers : a.q.m \in {"resume", "fork", "command"} /\ a.ok => a.r \in Sessions
        /\ \A a \in answers : a.q.m = "command" => a.ok
    BY DEF FeedShape, Names
  <1>6. \A a \in answers : a.q.m = "command" => a.r \in Sessions /\ Spare(a.r)
    BY <1>5 DEF Spare
  <1>7. deliver.on => /\ deliver.s \in Sessions /\ deliver.ans.ok /\ deliver.ans.r = deliver.s
                      /\ deliver.ans.q.m \in {"resume", "fork", "command"}
    BY DEF FeedShape
  <1>8. OneSwitch
    BY DEF Switching
  <1>9. QED
    BY <1>1, <1>2, <1>3, <1>4, <1>5, <1>6, <1>7, <1>8 DEF Switching, OneSwitch

\* A step that neither opens, closes nor switches.
LEMMA QuietSwitches ==
    ASSUME FeedShape, Switching,
           raced \subseteq raced', known' = known, sw'.on = sw.on, ui'.on = ui.on,
           \A s \in Sessions : HasLog(s) => log'[s] # <<>>,
           \A s \in Sessions : \A i \in 1..Len(log[s]) : i \in 1..Len(log'[s])
             /\ log'[s][i] = log[s][i],
           \A s \in Sessions : subs'[s] = subs[s] \/ ~Enterable(s),
           deliver'.on = deliver.on, deliver'.s = deliver.s, deliver'.ans = deliver.ans,
           deliver.on => \A j \in 1..Len(deliver'.left) : deliver'.left[j].s = deliver.s,
           \A q \in reqs' : q \in reqs \/ (q.m \in {"submit", "answer", "command"} /\ HasLog(q.s)),
           \A a \in answers' : \/ a \in answers
                               \/ a.q.m = "answer"
                               \/ a.q.m = "submit"
                                    /\ (a.ok => a.r \in 1..Len(log'[a.q.s])
                                         /\ log'[a.q.s][a.r] = "user")
    PROVE  Switching'
  <1>1. \A s \in Sessions : (HasLog(s) => HasLog(s)') /\ (Enterable(s) => Enterable(s)')
    BY DEF HasLog, Enterable
  <1>2. \A q \in reqs' : Opens(q) => q \in reqs
    BY DEF Opens
  <1>3. \A a \in answers' : Opens(a.q) \/ a.q.m = "command" => a \in answers
    BY DEF Opens
  <1>4. \A s \in Sessions : (Served(s)' => Served(s)) /\ (Target(s)' => Target(s))
          /\ (Spare(s)' => Spare(s))
    BY <1>2, <1>3 DEF Served, Target, Spare, Opens
  <1>5. OneSwitch'
    BY <1>2, <1>3, SwitchingNow DEF OneSwitch, Opens
  <1>6. /\ HasLog(ui.on)' /\ ui'.on \in known'
        /\ ui'.on \notin raced' => Enterable(ui.on)' /\ subs'[ui'.on] = 1
    BY <1>1, SwitchingNow
  <1>7. (\A s \in known : HasLog(s))' /\ (\A q \in reqs : HasLog(q.s))'
    <2>1. \A s \in known' : HasLog(s)'
      BY <1>1, SwitchingNow
    <2>2. \A q \in reqs' : HasLog(q.s) /\ q.s \in Sessions
      BY SwitchingNow DEF HasLog
    <2>3. QED
      BY <1>1, <2>1, <2>2
  <1>8. deliver'.on => HasLog(deliver.s)' /\ \A j \in 1..Len(deliver'.left) : deliver'.left[j].s =
          deliver'.s
    BY <1>1, SwitchingNow
  <1>9. /\ \A s \in Sessions : Target(s)' => s # ui'.on /\ HasLog(s)'
        /\ \A s \in Sessions : Served(s)' /\ s \notin raced' => Enterable(s)' /\ subs'[s] = 1
        /\ \A s \in Sessions : Spare(s)' => s \notin known' /\ Enterable(s)' /\ ~Target(s)'
    <2>1. \A s \in Sessions : s \notin raced' => s \notin raced
      OBVIOUS
    <2>2. QED
      BY <1>1, <1>4, <2>1, SwitchingNow
  <1>10. /\ \A a \in answers' : a.q.m = "command" => ~(deliver'.on /\ deliver'.s = a.r)
         /\ \A a \in answers' : a.q.m = "command" => \A b \in answers' : b.q.m = "command"
              /\ b.r = a.r => a = b
    BY <1>3, SwitchingNow
  <1>11. \A a \in answers' : a.q.m = "submit" /\ a.ok => a.r \in 1..Len(log'[a.q.s])
           /\ log'[a.q.s][a.r] = "user"
    BY SwitchingNow
  <1>12. QED
    BY <1>5, <1>6, <1>7, <1>8, <1>9, <1>10, <1>11 DEF Switching

\* The log grows, and says what it said.
LEMMA GrowKeeps ==
    ASSUME FeedShape, NEW s \in Sessions, NEW k \in FeedKinds, Grew(s, <<k>>)
    PROVE  \A r \in Sessions : /\ log[r] # <<>> => log'[r] # <<>>
                               /\ \A i \in 1..Len(log[r]) : i \in 1..Len(log'[r])
                                    /\ log'[r][i] = log[r][i]
  <1>1. log'[s] = Append(log[s], k) /\ \A r \in Sessions : r # s => log'[r] = log[r]
    BY GrewIs
  <1>2. \A r \in Sessions : log[r] \in Seq(FeedKinds)
    BY DEF FeedShape
  <1>3. ASSUME NEW l \in Seq(FeedKinds)
        PROVE  /\ Append(l, k) # <<>>
               /\ \A i \in 1..Len(l) : i \in 1..Len(Append(l, k)) /\ Append(l, k)[i] = l[i]
    <2>1. Extends(l, Append(l, k)) /\ Len(Append(l, k)) = Len(l) + 1
      BY AppendIs
    <2>2. Len(l) \in Nat /\ Len(Append(l, k)) # 0
      BY <2>1
    <2>3. Append(l, k) # <<>>
      BY <2>2
    <2>4. ASSUME NEW i \in 1..Len(l)
          PROVE  i \in 1..Len(Append(l, k)) /\ Append(l, k)[i] = l[i]
      <3>1. i \in 1..Len(Append(l, k))
        BY <2>1, <2>2
      <3>2. Append(l, k)[i] = l[i]
        BY <2>1 DEF Extends
      <3>3. QED
        BY <3>1, <3>2
    <2>5. QED
      BY <2>3, <2>4
  <1>4. /\ log'[s] # <<>>
        /\ \A i \in 1..Len(log[s]) : i \in 1..Len(log'[s]) /\ log'[s][i] = log[s][i]
    BY <1>1, <1>2, <1>3
  <1>5. ASSUME NEW r \in Sessions, r # s
        PROVE  /\ log[r] # <<>> => log'[r] # <<>>
               /\ \A i \in 1..Len(log[r]) : i \in 1..Len(log'[r]) /\ log'[r][i] = log[r][i]
    BY <1>1, <1>5
  <1>6. QED
    BY <1>4, <1>5

\* A step of a session only adds to its log.
LEMMA MovedLogs ==
    ASSUME FeedShape, NEW s \in Sessions, SessionStep(s)
    PROVE  \A r \in Sessions : /\ log[r] # <<>> => log'[r] # <<>>
                               /\ \A i \in 1..Len(log[r]) : i \in 1..Len(log'[r])
                                    /\ log'[r][i] = log[r][i]
  <1>1. {"note", "user", "decided"} \subseteq FeedKinds
    BY DEF FeedKinds
  <1>2. CASE \E k \in FeedKinds : Grew(s, <<k>>)
    BY <1>2, GrowKeeps
  <1>3. CASE log' = log
    BY <1>3
  <1>4. log' = log \/ \E k \in FeedKinds : Grew(s, <<k>>)
    BY <1>1 DEF SessionStep, Noted, Began, Asked, DecidedIn, Stopped, Denied
  <1>5. QED
    BY <1>2, <1>3, <1>4

\* What sessions do of themselves keeps Switching.
LEMMA MovesSwitch ==
    ASSUME FeedShape, Switching, NEW s \in Sessions,
           \/ Feed!AppendNote(s) \/ Feed!StartTurn(s) \/ Feed!Ask(s) \/ Feed!Decide(s)
                \/ Feed!EndTurn(s)
    PROVE  Switching'
  <1>1. SessionStep(s) /\ UNCHANGED <<reqs, answers>>
    BY MovesAre
  <1>2. raced \subseteq raced' /\ UNCHANGED <<subs, deliver, ui, sw, known>>
    BY <1>1 DEF SessionStep
  <1>3. \A r \in Sessions : /\ HasLog(r) => log'[r] # <<>>
                            /\ \A i \in 1..Len(log[r]) : i \in 1..Len(log'[r])
                                 /\ log'[r][i] = log[r][i]
    BY <1>1, MovedLogs DEF HasLog
  <1>4. QED
    BY <1>1, <1>2, <1>3, SwitchingNow, QuietSwitches

\* So do a message and an answer that are served.
LEMMA ServesSwitch ==
    ASSUME FeedShape, Switching, NEW q \in reqs, Feed!ServeSubmit(q) \/ Feed!ServeAnswer(q)
    PROVE  Switching'
  <1>1. q.s \in Sessions /\ HasLog(q.s)
    BY SwitchingNow
  <1>2. reqs' = reqs \ {q} /\ ~deliver.on
    BY <1>1, ServesAre
  <1>3. CASE /\ SessionStep(q.s)
             /\ \/ /\ q.m = "submit" /\ Began(q.s)
                   /\ answers' = answers \cup {Feed!Ans(q, TRUE, Len(log[q.s]) + 1)}
                \/ /\ q.m = "answer" /\ q.i \in stands[q.s] /\ DecidedIn(q.s)
                   /\ answers' = answers \cup {Feed!Ans(q, TRUE, 0)}
    <2>1. raced \subseteq raced' /\ UNCHANGED <<subs, deliver, ui, sw, known>>
      BY <1>3 DEF SessionStep
    <2>2. \A r \in Sessions : /\ HasLog(r) => log'[r] # <<>>
                              /\ \A i \in 1..Len(log[r]) : i \in 1..Len(log'[r])
                                   /\ log'[r][i] = log[r][i]
      BY <1>1, <1>3, MovedLogs DEF HasLog
    <2>3. \A a \in answers' : \/ a \in answers
                              \/ a.q.m = "answer"
                              \/ a.q.m = "submit"
                                   /\ (a.ok => a.r \in 1..Len(log'[a.q.s])
                                        /\ log'[a.q.s][a.r] = "user")
      <3>1. CASE q.m = "answer" /\ answers' = answers \cup {Feed!Ans(q, TRUE, 0)}
        BY <3>1 DEF Feed!Ans
      <3>2. CASE q.m = "submit" /\ Began(q.s) /\ answers' = answers \cup {Feed!Ans(q, TRUE,
                   Len(log[q.s]) + 1)}
        <4> DEFINE i == Len(log[q.s]) + 1
                   a == Feed!Ans(q, TRUE, i)
        <4>1. log'[q.s] = Append(log[q.s], "user") /\ log[q.s] \in Seq(FeedKinds)
          BY <1>1, <3>2, GrewIs DEF Began, FeedKinds, FeedShape
        <4>2. i \in 1..Len(log'[q.s]) /\ log'[q.s][i] = "user"
          BY <4>1
        <4>3. a.q = q /\ a.r = i
          BY DEF Feed!Ans
        <4> HIDE DEF i, a
        <4>4. \A b \in answers' : b \in answers \/ b = a
          BY <3>2 DEF a, i
        <4>5. QED
          BY <3>2, <4>2, <4>3, <4>4
      <3>3. QED
        BY <1>3, <3>1, <3>2
    <2>4. QED
      BY <1>2, <2>1, <2>2, <2>3, SwitchingNow, QuietSwitches
  <1>4. CASE /\ Still /\ UNCHANGED <<deliver, notes, ui, sw, typed, known>>
             /\ q.m \in {"submit", "answer"} /\ (q.m = "answer" => q.i \notin stands[q.s])
             /\ answers' = answers \cup {Feed!Ans(q, FALSE, 0)}
    <2>1. \A a \in answers' : a \in answers \/ a.q.m = "answer" \/ (a.q.m = "submit" /\ ~a.ok)
      BY <1>4 DEF Feed!Ans
    <2>2. UNCHANGED <<log, subs, raced, deliver, ui, sw, known>>
      BY <1>4 DEF Still
    <2>3. \A s \in Sessions : HasLog(s) => log'[s] # <<>>
      BY <2>2 DEF HasLog
    <2>4. QED
      BY <1>2, <1>4, <2>1, <2>2, <2>3, SwitchingNow, QuietSwitches
  <1>5. QED
    BY <1>1, <1>3, <1>4, ServesAre

\* So do the keys and the answers that open nothing.
LEMMA KeysSwitch ==
    ASSUME FeedShape, Switching,
           \/ Feed!Take \/ Feed!Enter \/ Feed!CancelTurn \/ Feed!ForkCommand
           \/ \E t \in ui.prompts : Feed!AnswerKey(t)
           \/ \E q \in reqs : Feed!ServeClose(q)
           \/ \E a \in answers : Feed!SubmitAnswered(a) \/ Feed!AnswerAnswered(a)
    PROVE  Switching'
  <1>0. ui \in Mirrors /\ Homely(ui) /\ notes \in Seq(FeedNotes) /\ subs \in [Sessions -> {0, 1}]
        /\ sw \in [on : BOOLEAN, buffer : Seq(FeedNotes)] /\ typed \in Nat
        /\ reqs \in SUBSET FeedReqs /\ answers \in SUBSET FeedAnswers
    BY DEF FeedShape, Homely
  <1>u. /\ ui \in [on : Sessions, await : BOOLEAN, shown : Seq(Nat), running : BOOLEAN, turn : Nat,
                   prompts : SUBSET Nat, asked : SUBSET Nat,
                     queue : Seq([i : Nat, home : Sessions]),
                   send : SUBSET FeedReqs]
    BY <1>0 DEF Mirrors
  <1>a. HasLog(ui.on) /\ ui.on \in Sessions
    BY SwitchingNow
  <1>w. SUFFICES /\ log' = log /\ raced' = raced /\ deliver' = deliver /\ known' = known /\ sw'.on = sw.on
                      /\ ui'.on = ui.on
                 /\ \A s \in Sessions : subs'[s] = subs[s] \/ ~Enterable(s)
                 /\ \A q \in reqs' : q \in reqs
                      \/ (q.m \in {"submit", "answer", "command"} /\ HasLog(q.s))
                 /\ answers' \subseteq answers
    BY SwitchingNow, QuietSwitches DEF HasLog
  <1>1. CASE Feed!Take
    <2>1. UNCHANGED <<log, raced, deliver, known, subs, answers>> /\ notes # <<>>
      BY <1>1 DEF Feed!Take, Feed!server
    <2>2. CASE sw.on
      <3>1. sw' = [sw EXCEPT !.buffer = Append(@, Head(notes))] /\ ui' = ui /\ reqs' = reqs
        BY <1>1, <2>2 DEF Feed!Take
      <3>2. QED
        BY <1>0, <2>1, <3>1
    <2>3. CASE ~sw.on
      <3> DEFINE v == Feed!Fold(ui, Head(notes))
      <3>1. /\ ui' = [v EXCEPT !.send = {}] /\ reqs' = reqs \cup v.send /\ sw' = sw
        BY <1>1, <2>3 DEF Feed!Take, Feed!Settle
      <3>2. Head(notes) \in FeedNotes
        BY <1>0, <2>1
      <3>3. Homely(v) /\ v.on = ui.on
        BY <1>0, <3>2, FoldHomely
      <3> HIDE DEF v
      <3>4. v \in Mirrors /\ \A q \in v.send : q.m = "submit" /\ q.s = ui.on
        BY <3>3 DEF Homely
      <3>5. ui'.on = ui.on
        BY <3>1, <3>3, <3>4 DEF Mirrors
      <3>6. QED
        BY <1>a, <2>1, <3>1, <3>4, <3>5
    <2>4. QED
      BY <2>2, <2>3
  <1>2. CASE Feed!Enter
    <2>1. /\ UNCHANGED <<log, raced, deliver, known, subs, answers, sw>>
          /\ ui' = ui \/ ui' = [ui EXCEPT !.queue = Append(@, [i |-> typed + 1, home |-> ui.on])]
          /\ \A q \in reqs' : q \in reqs \/ q = Feed!Req("submit", ui.on, typed + 1, ui.on)
      BY <1>2 DEF Feed!Enter, Feed!server
    <2>2. ui'.on = ui.on
      BY <1>u, <2>1
    <2>3. QED
      BY <1>a, <2>1, <2>2 DEF Feed!Req
  <1>3. CASE Feed!CancelTurn
    <2>1. /\ UNCHANGED <<log, raced, deliver, known, subs, answers, sw, reqs>>
               /\ ui' = [ui EXCEPT !.queue = <<>>]
      BY <1>3 DEF Feed!CancelTurn, Feed!server, Feed!wire
    <2>2. QED
      BY <1>u, <2>1
  <1>4. CASE Feed!ForkCommand
    <2>1. /\ UNCHANGED <<log, raced, deliver, known, subs, answers, sw, ui>>
          /\ reqs' = reqs \cup {Feed!Req("command", ui.on, 0, ui.on)}
      BY <1>4 DEF Feed!ForkCommand, Feed!server
    <2>2. QED
      BY <1>a, <2>1 DEF Feed!Req
  <1>5. ASSUME NEW t \in ui.prompts, Feed!AnswerKey(t)
        PROVE /\ log' = log /\ raced' = raced /\ deliver' = deliver /\ known' = known /\ sw'.on = sw.on
                   /\ ui'.on = ui.on
              /\ \A s \in Sessions : subs'[s] = subs[s] \/ ~Enterable(s)
              /\ \A q \in reqs' : q \in reqs \/ (q.m \in {"submit", "answer", "command"}
                   /\ HasLog(q.s))
              /\ answers' \subseteq answers
    <2>1. /\ UNCHANGED <<log, raced, deliver, known, subs, answers, sw>>
          /\ reqs' = reqs \cup {Feed!Req("answer", ui.on, t, ui.on)}
          /\ ui' = [ui EXCEPT !.prompts = @ \ {t}, !.asked = @ \cup {t}]
      BY <1>5 DEF Feed!AnswerKey, Feed!server
    <2>2. ui'.on = ui.on
      BY <1>u, <2>1
    <2>3. QED
      BY <1>a, <2>1, <2>2 DEF Feed!Req
  <1>6. ASSUME NEW q \in reqs, Feed!ServeClose(q)
        PROVE /\ log' = log /\ raced' = raced /\ deliver' = deliver /\ known' = known /\ sw'.on = sw.on
                   /\ ui'.on = ui.on
              /\ \A s \in Sessions : subs'[s] = subs[s] \/ ~Enterable(s)
              /\ \A p \in reqs' : p \in reqs \/ (p.m \in {"submit", "answer", "command"}
                   /\ HasLog(p.s))
              /\ answers' \subseteq answers
    <2>1. /\ UNCHANGED <<log, raced, deliver, known, answers, sw, ui>> /\ q.m = "close"
               /\ reqs' = reqs \ {q}
          /\ subs' = [subs EXCEPT ![q.s] = 0]
      BY <1>6 DEF Feed!ServeClose, Feed!Serve, Feed!client
    <2>2. ~Enterable(q.s)
      BY <2>1 DEF Enterable
    <2>3. QED
      BY <1>0, <2>1, <2>2
  <1>7. ASSUME NEW a \in answers, Feed!SubmitAnswered(a) \/ Feed!AnswerAnswered(a)
        PROVE /\ log' = log /\ raced' = raced /\ deliver' = deliver /\ known' = known /\ sw'.on = sw.on
                   /\ ui'.on = ui.on
              /\ \A s \in Sessions : subs'[s] = subs[s] \/ ~Enterable(s)
              /\ \A q \in reqs' : q \in reqs \/ (q.m \in {"submit", "answer", "command"}
                   /\ HasLog(q.s))
              /\ answers' \subseteq answers
    <2>1. UNCHANGED <<log, raced, deliver, known, subs, sw, reqs>> /\ answers' \subseteq answers
      BY <1>7 DEF Feed!SubmitAnswered, Feed!AnswerAnswered, Feed!TakeAnswer, Feed!server
    <2>2. ui'.on = ui.on
      <3>1. CASE Feed!SubmitAnswered(a)
        <4> DEFINE n == Feed!EntryNote(ui.on, a.r, "user")
                   v == Feed!FoldEntry(ui, n)
        <4>1. ui' = ui \/ ui' = v \/ ui' = [v EXCEPT !.running = TRUE, !.turn = a.r]
          BY <3>1 DEF Feed!SubmitAnswered, Feed!Started
        <4>2. a.r \in Nat
          BY <1>0 DEF FeedAnswers
        <4>3. n \in FeedNotes /\ n.t = "entry" /\ n.s = ui.on
          BY <1>a, <4>2 DEF Feed!EntryNote, FeedNotes, NoteKinds, FeedKinds
        <4>4. v = Feed!Fold(ui, n)
          BY <4>3 DEF Feed!Fold
        <4>5. Homely(v) /\ v.on = ui.on
          BY <1>0, <4>3, <4>4, FoldHomely
        <4>6. v \in Mirrors
          BY <4>5 DEF Homely
        <4> HIDE DEF v
        <4>7. QED
          BY <4>1, <4>5, <4>6 DEF Mirrors
      <3>2. CASE Feed!AnswerAnswered(a)
        BY <1>u, <3>2 DEF Feed!AnswerAnswered
      <3>3. QED
        BY <1>7, <3>1, <3>2
    <2>3. QED
      BY SMTT(30), <2>1, <2>2
  <1>8. QED
    BY <1>1, <1>2, <1>3, <1>4, <1>5, <1>6, <1>7

\* What is replayed of a session is the session's.
LEMMA AttachmentOwn ==
    ASSUME FeedShape, NEW s \in Sessions, LogOk(Of(s))
    PROVE  \A j \in 1..Len(Feed!Attachment(s)) : Feed!Attachment(s)[j].s = s
  <1> DEFINE r == <<>> \o Feed!Attachment(s)
             w == Of(s)
             L == Len(w.log)
  <1>1. <<>> \in Seq(FeedNotes) /\ Feed!Attachment(s) \in Seq(FeedNotes)
    BY AttachmentShape
  <1>2. r = Feed!Attachment(s)
    BY <1>1
  <1>3. AttachedTo(<<>>, r, w, s)
    BY <1>1, AttachIs
  <1>4. w \in Views /\ LogOk(w)
    BY ViewTypes
  <1> HIDE DEF r, w
  <1>5. L \in Nat /\ Len(<<>>) = 0 /\ 0 + L = L /\ Len(r) \in Nat
    BY <1>1, <1>2, <1>4 DEF Views
  <1>6. /\ \A i \in 1..L : r[i].s = s
        /\ w.run # 0 => r[L + 1].s = s
        /\ w.standing # {} => r[L + 2].s = s /\ L + 2 = Len(r)
        /\ w.standing = {} => Len(r) <= L + 1
        /\ w.run = 0 => L = Len(r)
    <2> DEFINE z == Len(<<>>)
    <2>1. /\ \A i \in 1..L : r[z + i] = Feed!EntryNote(s, i, w.log[i])
          /\ w.run # 0 => r[z + L + 1] = Feed!StateNote(s, w.run, TRUE)
          /\ w.standing # {} => z + L + 2 = Len(r) /\ r[z + L + 2] = Feed!AskNote(s, w.run)
          /\ w.standing = {} => Len(r) <= z + L + 1
          /\ w.run = 0 => z + L = Len(r)
      BY <1>3 DEF AttachedTo
    <2>2. z = 0
      BY <1>5
    <2> HIDE DEF z
    <2>3. /\ \A i \in 1..L : z + i = i
          /\ z + L + 1 = L + 1 /\ z + L + 2 = L + 2 /\ z + L = L
      BY <1>5, <2>2
    <2>4. /\ \A i, k : Feed!EntryNote(s, i, k).s = s
          /\ \A i : Feed!StateNote(s, i, TRUE).s = s /\ Feed!AskNote(s, i).s = s
      BY DEF Feed!EntryNote, Feed!StateNote, Feed!AskNote
    <2>5. \A i \in 1..L : r[i].s = s
      BY <2>1, <2>3, <2>4
    <2>6. w.run # 0 => r[L + 1].s = s
      BY <2>1, <2>3, <2>4
    <2>7. w.standing # {} => r[L + 2].s = s /\ L + 2 = Len(r)
      BY <2>1, <2>3, <2>4
    <2>8. QED
      BY <2>1, <2>3, <2>5, <2>6, <2>7
  <1>7. w.standing # {} => w.run # 0
    BY <1>4 DEF LogOk
  <1>8. \A j \in 1..Len(r) : j \in 1..L \/ j = L + 1 \/ j = L + 2
    BY <1>5, <1>6
  <1>9. \A j \in 1..Len(r) : r[j].s = s
    BY <1>5, <1>6, <1>7, <1>8
  <1>10. QED
    BY <1>2, <1>9

\* So does a notification of an attach that is sent.
LEMMA DeliverSwitch ==
    ASSUME FeedShape, Switching, Feed!Deliver
    PROVE  Switching'
  <1>1. deliver.on /\ UNCHANGED <<log, subs, raced, reqs, ui, sw, known>>
    BY DEF Feed!Deliver, Feed!server, Feed!client
  <1>2. CASE deliver.left # <<>>
    <2>1. deliver' = [deliver EXCEPT !.left = Tail(@)] /\ answers' = answers
      BY <1>2 DEF Feed!Deliver
    <2>2. /\ deliver \in [on : BOOLEAN, s : Sessions \cup {0}, left : Seq(FeedNotes),
               ans : FeedAnswers \cup {<<>>}]
          /\ deliver.left \in Seq(FeedNotes)
      BY ViewTypes DEF FeedShape
    <2>3. deliver'.on = deliver.on /\ deliver'.s = deliver.s /\ deliver'.ans = deliver.ans
            /\ deliver'.left = Tail(deliver.left)
      BY <2>1, <2>2
    <2>4. \A j \in 1..Len(deliver'.left) : deliver'.left[j].s = deliver.s
      <3>1. TailIs(deliver.left)
        BY <1>2, <2>2, TailFacts
      <3>2. \A j \in 1..Len(deliver.left) : deliver.left[j].s = deliver.s
        BY <1>1, SwitchingNow
      <3>3. \A j \in 1..Len(Tail(deliver.left)) : Tail(deliver.left)[j].s = deliver.s
        BY <3>1, <3>2 DEF TailIs
      <3>4. QED
        BY <2>3, <3>3
    <2>5. QED
      BY <1>1, <2>1, <2>3, <2>4, QuietSwitches DEF HasLog
  <1>3. CASE deliver.left = <<>>
    <2> DEFINE a == deliver.ans
               s == deliver.s
    <2>1. answers' = answers \cup {a} /\ ~deliver'.on
      BY <1>3 DEF Feed!Deliver, Feed!NoDeliver
    <2>2. /\ s \in Sessions /\ a.ok /\ a.r = s /\ HasLog(s)
               /\ a.q.m \in {"resume", "fork", "command"}
      BY <1>1, SwitchingNow
    <2>3. \A r \in Sessions : (Served(r)' <=> Served(r)) /\ (Spare(r)' <=> Spare(r))
            /\ (Target(r)' <=> Target(r))
      <3>1. \A r \in Sessions : (Served(r)' <=> Served(r)) /\ (Spare(r)' <=> Spare(r))
        BY <1>1, <2>1, <2>2 DEF Served, Spare, Opens
      <3>2. QED
        BY <1>1, <3>1 DEF Target
    <2>4. \A r \in Sessions : (HasLog(r)' <=> HasLog(r)) /\ (Enterable(r)' <=> Enterable(r))
      BY <1>1 DEF Enterable, HasLog
    <2>5. OneSwitch'
      BY <1>1, <2>1, SwitchingNow DEF OneSwitch, Opens
    <2>6. /\ HasLog(ui.on)' /\ ui'.on \in known'
          /\ ui'.on \notin raced' => Enterable(ui.on)' /\ subs'[ui'.on] = 1
      BY <1>1, <2>4, SwitchingNow
    <2>7. (\A r \in known : HasLog(r))' /\ (\A q \in reqs : HasLog(q.s))'
      BY <1>1, <2>4, SwitchingNow
    <2>8. /\ \A r \in Sessions : Target(r)' => r # ui'.on /\ HasLog(r)'
          /\ \A r \in Sessions : Served(r)' /\ r \notin raced' => Enterable(r)' /\ subs'[r] = 1
          /\ \A r \in Sessions : Spare(r)' => r \notin known' /\ Enterable(r)' /\ ~Target(r)'
      BY <1>1, <2>3, <2>4, SwitchingNow
    <2>9. \A b, c \in answers' : b.q.m = "command" /\ c.q.m = "command" /\ c.r = b.r => b = c
      <3>1. \A b \in answers' : b \in answers \/ b = a
        BY <2>1
      <3>2. \A b \in answers : b.q.m = "command" => b.r # a.r
        BY <1>1, <2>2, SwitchingNow
      <3>3. \A b, c \in answers : b.q.m = "command" /\ c.q.m = "command" /\ c.r = b.r => b = c
        BY SwitchingNow
      <3> HIDE DEF a
      <3>4. QED
        BY <3>1, <3>2, <3>3
    <2>10. \A b \in answers' : b.q.m = "submit" /\ b.ok => b.r \in 1..Len(log'[b.q.s])
             /\ log'[b.q.s][b.r] = "user"
      BY <1>1, <2>1, <2>2, SwitchingNow
    <2>11. QED
      BY <2>1, <2>5, <2>6, <2>7, <2>8, <2>9, <2>10 DEF Switching
  <1>4. QED
    BY <1>2, <1>3

\* So does a resume that is served.
LEMMA ResumeSwitch ==
    ASSUME FeedShape, Switching, Logs, NEW q \in reqs, Feed!ServeResume(q)
    PROVE  Switching'
  <1> DEFINE s == q.s
  <1>1. /\ q.m = "resume" /\ ~deliver.on /\ reqs' = reqs \ {q} /\ UNCHANGED <<log, ui, sw, known>>
        /\ s \in Sessions /\ HasLog(s) /\ Opens(q)
        /\ raced \subseteq raced' /\ (s \notin raced' => ~\E p \in reqs : p.m = "close" /\ p.s = s)
    BY SwitchingNow DEF Feed!ServeResume, Feed!Serve, Feed!client, Opens
  <1>2. Target(s) /\ s # ui.on /\ ~Spare(s) /\ (s \notin raced' => Enterable(s))
    <2>1. Target(s)
      BY <1>1 DEF Target
    <2>2. QED
      BY <1>1, <2>1, SwitchingNow DEF Enterable
  <1>3. sw.on /\ (\A p \in reqs' : ~Opens(p)) /\ (\A a \in answers : ~Opens(a.q))
    BY <1>1, SwitchingNow
  <1>4. \A r \in Sessions : (HasLog(r)' <=> HasLog(r)) /\ (Enterable(r)' <=> Enterable(r))
    BY <1>1 DEF Enterable, HasLog
  <1>5. subs \in [Sessions -> {0, 1}]
    BY DEF FeedShape
  <1>6. CASE /\ subs' = [subs EXCEPT ![q.s] = 1] /\ answers' = answers
             /\ deliver' = [on |-> TRUE, s |-> q.s, left |-> Feed!Attachment(q.s),
                  ans |-> Feed!Ans(q, TRUE, q.s)]
    <2>1. deliver'.on /\ deliver'.s = s /\ deliver'.left = Feed!Attachment(s) /\ deliver'.ans.q = q
      BY <1>6 DEF Feed!Ans
    <2>2. \A r \in Sessions : (Served(r)' <=> r = s) /\ (Target(r)' <=> r = s)
            /\ (Spare(r)' => Spare(r))
      <3>1. \A r \in Sessions : Served(r)' <=> r = s
        BY ZenonT(60), <1>1, <1>3, <1>6, <2>1 DEF Served, Opens
      <3>2. \A r \in Sessions : Target(r)' <=> r = s
        BY <1>3, <3>1 DEF Target, Opens
      <3>3. \A r \in Sessions : Spare(r)' => Spare(r)
        BY <1>1, <1>6, <2>1 DEF Spare
      <3>4. QED
        BY <3>1, <3>2, <3>3
    <2>3. OneSwitch'
      BY <1>1, <1>3, <1>6 DEF OneSwitch, Opens
    <2>4. /\ HasLog(ui.on)' /\ ui'.on \in known'
          /\ ui'.on \notin raced' => Enterable(ui.on)' /\ subs'[ui'.on] = 1
      BY <1>1, <1>2, <1>4, <1>5, <1>6, SwitchingNow
    <2>5. (\A r \in known : HasLog(r))' /\ (\A p \in reqs : HasLog(p.s))'
      BY <1>1, <1>4, SwitchingNow
    <2>6. HasLog(deliver.s)' /\ \A j \in 1..Len(deliver'.left) : deliver'.left[j].s = deliver'.s
      <3>1. \A j \in 1..Len(Feed!Attachment(s)) : Feed!Attachment(s)[j].s = s
        BY <1>1, AttachmentOwn DEF Logs
      <3>2. QED
        BY <1>1, <1>4, <2>1, <3>1
    <2>7. /\ \A r \in Sessions : Target(r)' => r # ui'.on /\ HasLog(r)'
          /\ \A r \in Sessions : Served(r)' /\ r \notin raced' => Enterable(r)' /\ subs'[r] = 1
          /\ \A r \in Sessions : Spare(r)' => r \notin known' /\ Enterable(r)' /\ ~Target(r)'
      BY <1>1, <1>2, <1>4, <1>5, <1>6, <2>2, SwitchingNow
    <2>8. \A a \in answers' : a.q.m = "command" => ~(deliver'.on /\ deliver'.s = a.r)
      BY <1>2, <1>6, <2>1, SwitchingNow
    <2>9. /\ \A a \in answers' : a.q.m = "command" => \A b \in answers' : b.q.m = "command"
               /\ b.r = a.r => a = b
          /\ \A a \in answers' : a.q.m = "submit" /\ a.ok => a.r \in 1..Len(log'[a.q.s])
               /\ log'[a.q.s][a.r] = "user"
      BY <1>1, <1>6, SwitchingNow
    <2>10. QED
      BY <2>3, <2>4, <2>5, <2>6, <2>7, <2>8, <2>9 DEF Switching
  <1>7. CASE /\ subs' = [subs EXCEPT ![q.s] = 0] /\ deliver' = deliver
             /\ answers' = answers \cup {Feed!Ans(q, FALSE, 0)}
    <2> DEFINE c == Feed!Ans(q, FALSE, 0)
    <2>1. c.q = q /\ ~c.ok /\ \A a \in answers' : a \in answers \/ a = c
      BY <1>7 DEF Feed!Ans
    <2> HIDE DEF c
    <2>2. \A r \in Sessions : ~Served(r)' /\ ~Target(r)' /\ (Spare(r)' => Spare(r))
      <3>1. \A r \in Sessions : ~Served(r)'
        BY <1>1, <1>3, <1>7, <2>1 DEF Served
      <3>2. \A r \in Sessions : ~Target(r)'
        BY <1>3, <3>1 DEF Target, Opens
      <3>3. \A r \in Sessions : Spare(r)' => Spare(r)
        BY <1>1, <1>7, <2>1 DEF Spare
      <3>4. QED
        BY <3>1, <3>2, <3>3
    <2>3. OneSwitch'
      BY <1>1, <1>3, <1>7, <2>1 DEF OneSwitch, Opens
    <2>4. /\ HasLog(ui.on)' /\ ui'.on \in known'
          /\ ui'.on \notin raced' => Enterable(ui.on)' /\ subs'[ui'.on] = 1
      BY <1>1, <1>2, <1>4, <1>5, <1>7, SwitchingNow
    <2>5. (\A r \in known : HasLog(r))' /\ (\A p \in reqs : HasLog(p.s))'
      BY <1>1, <1>4, SwitchingNow
    <2>6. ~deliver'.on
      BY <1>1, <1>7
    <2>7. /\ \A r \in Sessions : Target(r)' => r # ui'.on /\ HasLog(r)'
          /\ \A r \in Sessions : Served(r)' /\ r \notin raced' => Enterable(r)' /\ subs'[r] = 1
          /\ \A r \in Sessions : Spare(r)' => r \notin known' /\ Enterable(r)' /\ ~Target(r)'
      BY <1>1, <1>4, <2>2, SwitchingNow
    <2>8. \A a \in answers' : a.q.m = "command" => a \in answers
      BY <1>1, <2>1
    <2>9. /\ \A a \in answers' : a.q.m = "command" => \A b \in answers' : b.q.m = "command"
               /\ b.r = a.r => a = b
          /\ \A a \in answers' : a.q.m = "submit" /\ a.ok => a.r \in 1..Len(log'[a.q.s])
               /\ log'[a.q.s][a.r] = "user"
      BY <1>1, <2>1, <2>8, SwitchingNow
    <2>10. QED
      BY <2>3, <2>4, <2>5, <2>6, <2>7, <2>9 DEF Switching
  <1>8. QED
    BY <1>6, <1>7 DEF Feed!ServeResume

\* So does a fork that is served.
LEMMA ForkSwitch ==
    ASSUME FeedShape, Switching, NEW q \in reqs, NEW s \in Sessions, Feed!ServeFork(q, s)
    PROVE  Switching'
  <1>1. /\ q.m \in {"fork", "command"} /\ ~deliver.on /\ reqs' = reqs \ {q} /\ log[s] = <<>>
        /\ log' = Feed!Grow(s, <<"head">>) /\ subs' = [subs EXCEPT ![s] = 1]
        /\ deliver' = [on |-> TRUE, s |-> s, left |-> <<Feed!EntryNote(s, 1, "head")>>,
             ans |-> Feed!Ans(q, TRUE, s)]
        /\ UNCHANGED <<answers, raced, ui, sw, known>>
    BY DEF Feed!ServeFork, Feed!Serve, Feed!Live, Feed!client
  <1>2. ~HasLog(s) /\ ~Enterable(s) /\ s # ui.on /\ s \notin known /\ ~Target(s) /\ ~Spare(s)
        /\ \A c \in reqs : c.s # s
    BY <1>1, SwitchingNow DEF Enterable, HasLog
  <1>3. Grew(s, <<"head">>) /\ "head" \in FeedKinds
    BY <1>1 DEF Grew, FeedKinds
  <1>4. \A r \in Sessions : /\ log[r] # <<>> => log'[r] # <<>>
                            /\ \A i \in 1..Len(log[r]) : i \in 1..Len(log'[r])
                                 /\ log'[r][i] = log[r][i]
    BY <1>3, GrowKeeps
  <1>5. log'[s] # <<>>
    <2>1. log'[s] = Append(log[s], "head") /\ log[s] \in Seq(FeedKinds)
      BY <1>3, GrewIs DEF FeedShape
    <2>2. QED
      BY <2>1
  <1>6. \A r \in Sessions : (HasLog(r) => HasLog(r)') /\ (Enterable(r) => Enterable(r)') /\ HasLog(s)'
          /\ Enterable(s)'
    BY <1>1, <1>2, <1>4, <1>5 DEF Enterable, HasLog
  <1>7. subs'[s] = 1 /\ \A r \in Sessions : r # s => subs'[r] = subs[r]
    <2>1. subs \in [Sessions -> {0, 1}]
      BY DEF FeedShape
    <2>2. QED
      BY <1>1, <2>1
  <1>8. deliver'.on /\ deliver'.s = s /\ deliver'.ans.q = q
          /\ deliver'.left = <<Feed!EntryNote(s, 1, "head")>>
    BY <1>1 DEF Feed!Ans
  <1>9. \A r \in Sessions : /\ Served(r)' => Served(r) \/ (q.m = "fork" /\ r = s)
                            /\ Target(r)' => Target(r) \/ (q.m = "fork" /\ r = s)
                            /\ Spare(r)' => Spare(r) \/ (q.m = "command" /\ r = s)
    <2>1. \A r \in Sessions : /\ Served(r)' => Served(r) \/ (q.m = "fork" /\ r = s)
                              /\ Spare(r)' => Spare(r) \/ (q.m = "command" /\ r = s)
      BY <1>1, <1>8 DEF Served, Spare, Opens
    <2>2. QED
      BY <1>1, <2>1 DEF Target
  <1>10. q.m = "fork" => \A r \in Sessions : Spare(r) => ~Target(r)' /\ r # s
    BY <1>2, <1>9, SwitchingNow
  <1>11. OneSwitch'
    <2>1. CASE q.m = "fork"
      <3>1. sw.on /\ (\A p \in reqs' : ~Opens(p)) /\ (\A a \in answers : ~Opens(a.q))
        BY <1>1, <2>1, SwitchingNow DEF Opens
      <3>2. QED
        BY <1>1, <3>1 DEF OneSwitch, Opens
    <2>2. CASE q.m = "command"
      BY <1>1, <1>8, <2>2, SwitchingNow DEF OneSwitch, Opens
    <2>3. QED
      BY <1>1, <2>1, <2>2
  <1>12. /\ HasLog(ui.on)' /\ ui'.on \in known'
         /\ ui'.on \notin raced' => Enterable(ui.on)' /\ subs'[ui'.on] = 1
    BY <1>1, <1>2, <1>6, <1>7, SwitchingNow
  <1>13. (\A r \in known : HasLog(r))' /\ (\A p \in reqs : HasLog(p.s))'
    BY <1>1, <1>6, SwitchingNow
  <1>14. HasLog(deliver.s)' /\ \A j \in 1..Len(deliver'.left) : deliver'.left[j].s = deliver'.s
    BY <1>6, <1>8 DEF Feed!EntryNote
  <1>15. /\ \A r \in Sessions : Target(r)' => r # ui'.on /\ HasLog(r)'
         /\ \A r \in Sessions : Served(r)' /\ r \notin raced' => Enterable(r)' /\ subs'[r] = 1
    BY <1>1, <1>2, <1>6, <1>7, <1>9, SwitchingNow
  <1>16. \A r \in Sessions : Spare(r)' => r \notin known' /\ Enterable(r)' /\ ~Target(r)'
    <2>1. CASE q.m = "fork"
      BY <1>1, <1>6, <1>9, <1>10, <2>1, SwitchingNow
    <2>2. CASE q.m = "command"
      BY <1>1, <1>2, <1>6, <1>9, <2>2, SwitchingNow
    <2>3. QED
      BY <1>1, <2>1, <2>2
  <1>17. \A a \in answers' : a.q.m = "command" => ~(deliver'.on /\ deliver'.s = a.r)
    BY <1>1, <1>2, <1>8, SwitchingNow
  <1>18. /\ \A a \in answers' : a.q.m = "command" => \A b \in answers' : b.q.m = "command"
              /\ b.r = a.r => a = b
         /\ \A a \in answers' : a.q.m = "submit" /\ a.ok => a.r \in 1..Len(log'[a.q.s])
              /\ log'[a.q.s][a.r] = "user"
    BY <1>1, <1>4, SwitchingNow
  <1>19. QED
    BY <1>11, <1>12, <1>13, <1>14, <1>15, <1>16, <1>17, <1>18 DEF Switching

\* A switch starts: to a new session, or to one that can be put on screen.
LEMMA StartSwitches ==
    ASSUME FeedShape, Switching, ~sw.on, NEW q \in FeedReqs, Feed!StartSwitch(q),
           \/ q.m = "fork" /\ q.s = ui.on
           \/ q.m = "resume" /\ q.s # ui.on /\ HasLog(q.s),
           UNCHANGED <<log, subs, raced, deliver, ui, known>>, answers' \subseteq answers,
           q.m = "resume" => \A s \in Sessions : Spare(s)' => s # q.s
    PROVE  Switching'
  <1>1. reqs' = reqs \cup {q} /\ sw'.on
    BY DEF Feed!StartSwitch
  <1>2. (\A c \in reqs : ~Opens(c)) /\ ~(deliver.on /\ Opens(deliver.ans.q))
          /\ (\A a \in answers : ~Opens(a.q))
    BY SwitchingNow
  <1>3. q.s \in Sessions /\ HasLog(q.s)
    BY SwitchingNow DEF FeedReqs
  <1>4. \A r \in Sessions : (HasLog(r)' <=> HasLog(r)) /\ (Enterable(r)' <=> Enterable(r))
    BY <1>1 DEF Enterable, HasLog
  <1>5. \A r \in Sessions : /\ ~Served(r)' /\ (Spare(r)' => Spare(r))
                            /\ Target(r)' => q.m = "resume" /\ r = q.s
    <2>1. \A r \in Sessions : ~Served(r)' /\ (Spare(r)' => Spare(r))
      BY <1>2 DEF Served, Spare
    <2>2. QED
      BY <1>1, <1>2, <2>1 DEF Target, Opens
  <1>6. OneSwitch'
    BY <1>1, <1>2 DEF OneSwitch, Opens
  <1>7. /\ HasLog(ui.on)' /\ ui'.on \in known'
        /\ ui'.on \notin raced' => Enterable(ui.on)' /\ subs'[ui'.on] = 1
    BY <1>4, SwitchingNow
  <1>8. (\A r \in known : HasLog(r))' /\ (\A p \in reqs : HasLog(p.s))'
    BY <1>1, <1>3, <1>4, SwitchingNow
  <1>9. deliver'.on => HasLog(deliver.s)' /\ \A j \in 1..Len(deliver'.left) : deliver'.left[j].s =
          deliver'.s
    BY <1>4, SwitchingNow
  <1>10. /\ \A r \in Sessions : Target(r)' => r # ui'.on /\ HasLog(r)'
         /\ \A r \in Sessions : Served(r)' /\ r \notin raced' => Enterable(r)' /\ subs'[r] = 1
         /\ \A r \in Sessions : Spare(r)' => r \notin known' /\ Enterable(r)' /\ ~Target(r)'
    BY <1>4, <1>5, SwitchingNow
  <1>11. /\ \A a \in answers' : a.q.m = "command" => ~(deliver'.on /\ deliver'.s = a.r)
         /\ \A a \in answers' : a.q.m = "command" => \A b \in answers' : b.q.m = "command"
              /\ b.r = a.r => a = b
         /\ \A a \in answers' : a.q.m = "submit" /\ a.ok => a.r \in 1..Len(log'[a.q.s])
              /\ log'[a.q.s][a.r] = "user"
    BY SwitchingNow
  <1>12. QED
    BY <1>6, <1>7, <1>8, <1>9, <1>10, <1>11 DEF Switching

\* So does a switch that begins.
LEMMA SwitchSwitch ==
    ASSUME FeedShape, Switching, Feed!Switch
    PROVE  Switching'
  <1>1. ~sw.on /\ UNCHANGED <<log, subs, raced, deliver, ui, known, answers>>
    BY DEF Feed!Switch, Feed!server
  <1>2. ui.on \in Sessions /\ known \subseteq Sessions
    BY SwitchingNow
  <1>3. CASE Feed!StartSwitch(Feed!Req("fork", ui.on, 0, ui.on))
    <2> DEFINE q == Feed!Req("fork", ui.on, 0, ui.on)
    <2>1. q \in FeedReqs /\ q.m = "fork" /\ q.s = ui.on
      BY <1>2, ReqShape
    <2> HIDE DEF q
    <2>2. QED
      BY <1>1, <1>3, <2>1, StartSwitches DEF q
  <1>4. ASSUME NEW s \in known \ {ui.on}, Feed!StartSwitch(Feed!Req("resume", s, 0, ui.on))
        PROVE  Switching'
    <2> DEFINE q == Feed!Req("resume", s, 0, ui.on)
    <2>1. q \in FeedReqs /\ q.m = "resume" /\ q.s = s
      BY <1>2, ReqShape
    <2>2. HasLog(s) /\ s # ui.on
      BY <1>4, SwitchingNow
    <2>3. \A r \in Sessions : Spare(r)' => r # s
      <3>1. \A r \in Sessions : Spare(r)' => Spare(r)
        BY <1>1 DEF Spare
      <3>2. QED
        BY <3>1, SwitchingNow
    <2>4. Feed!StartSwitch(q)
      BY <1>4
    <2> HIDE DEF q
    <2>5. QED
      BY <1>1, <2>1, <2>2, <2>3, <2>4, StartSwitches
  <1>5. QED
    BY <1>3, <1>4 DEF Feed!Switch

\* So does a command that is answered.
LEMMA CommandSwitch ==
    ASSUME FeedShape, Switching, NEW a \in answers, Feed!CommandAnswered(a)
    PROVE  Switching'
  <1>1. /\ a.q.m = "command" /\ answers' = answers \ {a}
             /\ UNCHANGED <<log, subs, raced, deliver, ui, known>>
    BY DEF Feed!CommandAnswered, Feed!TakeAnswer, Feed!server
  <1>2. /\ a.r \in Sessions /\ Spare(a.r) /\ ~(deliver.on /\ deliver.s = a.r)
        /\ \A b \in answers : b.q.m = "command" /\ b.r = a.r => a = b
        /\ a.r \notin known /\ HasLog(a.r) /\ ~Target(a.r) /\ a.r # ui.on /\ ui.on \in Sessions
    BY <1>1, SwitchingNow DEF Enterable
  <1>3. \A s \in Sessions : (Spare(s)' => Spare(s) /\ s # a.r) /\ (Served(s)' => Served(s))
    BY <1>1, <1>2 DEF Spare, Served
  <1>4. CASE sw.on
    <2> DEFINE q == Feed!Req("close", a.r, 0, ui.on)
    <2>1. q \in FeedReqs /\ q.m = "close" /\ q.s = a.r
      BY <1>2, ReqShape
    <2>2. reqs' = reqs \cup {q} /\ sw' = sw
      BY <1>4 DEF Feed!CommandAnswered
    <2> HIDE DEF q
    <2>3. \A s \in Sessions : (HasLog(s)' <=> HasLog(s))
            /\ (Enterable(s)' <=> Enterable(s) /\ s # a.r)
      BY <1>1, <2>1, <2>2 DEF Enterable, HasLog
    <2>4. \A s \in Sessions : Target(s)' => Target(s)
      BY <1>3, <2>1, <2>2 DEF Target
    <2>5. OneSwitch'
      BY <1>1, <2>1, <2>2, SwitchingNow DEF OneSwitch, Opens
    <2>6. /\ HasLog(ui.on)' /\ ui'.on \in known'
          /\ ui'.on \notin raced' => Enterable(ui.on)' /\ subs'[ui'.on] = 1
      BY <1>1, <1>2, <2>3, SwitchingNow
    <2>7. (\A r \in known : HasLog(r))' /\ (\A p \in reqs : HasLog(p.s))'
      BY <1>1, <1>2, <2>1, <2>2, <2>3, SwitchingNow
    <2>8. deliver'.on => HasLog(deliver.s)' /\ \A j \in 1..Len(deliver'.left) : deliver'.left[j].s =
            deliver'.s
      BY <1>1, <2>3, SwitchingNow
    <2>9. /\ \A r \in Sessions : Target(r)' => r # ui'.on /\ HasLog(r)'
          /\ \A r \in Sessions : Served(r)' /\ r \notin raced' => Enterable(r)' /\ subs'[r] = 1
          /\ \A r \in Sessions : Spare(r)' => r \notin known' /\ Enterable(r)' /\ ~Target(r)'
      <3>1. \A r \in Sessions : Served(r) => r # a.r
        BY <1>2 DEF Target
      <3>2. QED
        BY <1>1, <1>2, <1>3, <2>3, <2>4, <3>1, SwitchingNow
    <2>10. /\ \A b \in answers' : b.q.m = "command" => ~(deliver'.on /\ deliver'.s = b.r)
           /\ \A b \in answers' : b.q.m = "command" => \A c \in answers' : c.q.m = "command"
                /\ c.r = b.r => b = c
           /\ \A b \in answers' : b.q.m = "submit" /\ b.ok => b.r \in 1..Len(log'[b.q.s])
                /\ log'[b.q.s][b.r] = "user"
      BY <1>1, SwitchingNow
    <2>11. QED
      BY <2>5, <2>6, <2>7, <2>8, <2>9, <2>10 DEF Switching
  <1>5. CASE ~sw.on
    <2> DEFINE q == Feed!Req("resume", a.r, 0, ui.on)
    <2>1. q \in FeedReqs /\ q.m = "resume" /\ q.s = a.r
      BY <1>2, ReqShape
    <2>2. Feed!StartSwitch(q)
      BY <1>2, <1>5 DEF Feed!CommandAnswered
    <2> HIDE DEF q
    <2>3. QED
      BY <1>1, <1>2, <1>3, <1>5, <2>1, <2>2, StartSwitches
  <1>6. QED
    BY <1>4, <1>5

\* The switch in flight ends, with u on screen.
LEMMA EndsSwitch ==
    ASSUME FeedShape, Switching, NEW a \in answers, Feed!Switched(a) \/ Feed!Aborted(a)
    PROVE  Switching'
  <1>1. /\ Opens(a.q) /\ answers' = answers \ {a} /\ UNCHANGED <<log, subs, raced, deliver>>
    <2>1. CASE Feed!Switched(a)
      BY <2>1 DEF Feed!Switched, Feed!TakeAnswer, Feed!server, Opens
    <2>2. CASE Feed!Aborted(a)
      BY <2>2 DEF Feed!Aborted, Feed!TakeAnswer, Feed!server, Opens
    <2>3. QED
      BY <2>1, <2>2
  <1>2. /\ \A c \in reqs : ~Opens(c)
        /\ ~(deliver.on /\ Opens(deliver.ans.q))
        /\ \A b \in answers' : ~Opens(b.q)
    BY <1>1, SwitchingNow
  <1>3. sw.buffer \in Seq(FeedNotes) /\ Homely(ui)
    BY DEF FeedShape
  <1> DEFINE was == ui.on
             next == ui'.on
             c == Feed!Req("close", was, 0, was)
  <1>4. was \in Sessions /\ was \in known /\ HasLog(was)
    BY SwitchingNow
  <1>5. c.m = "close" /\ c.s = was
    BY DEF Feed!Req
  <1> HIDE DEF c
  <1>6. /\ next \in Sessions /\ HasLog(next) /\ (next \notin raced => Enterable(next) /\ subs[next] = 1)
        /\ known' \subseteq known \cup {next} /\ known \subseteq known' /\ next \in known'
        /\ \A q \in reqs' : q \in reqs \/ (q.m = "submit" /\ q.s = next) \/ (q = c /\ next # was)
        /\ next # was => \A s \in Sessions : Spare(s) => s # next
    <2>1. CASE Feed!Switched(a)
      <3> DEFINE v == Feed!Fresh(a.r, TRUE)
                 z == Feed!Replayed(v)
      <3>1. /\ a.ok /\ ui' = [z EXCEPT !.send = {}] /\ known' = known \cup {a.r}
            /\ reqs' = reqs \cup z.send \cup {q \in {c} : q.s # a.r}
        BY <2>1 DEF Feed!Switched, Feed!Settle, c
      <3>2. a.r \in Sessions
        BY <1>1, <3>1, SwitchingNow DEF Opens
      <3>3. Homely(z) /\ z.on = a.r
        BY <1>3, <3>2, FreshHomely, ReplayHomely
      <3> HIDE DEF z, v
      <3>4. z \in Mirrors /\ \A q \in z.send : q.m = "submit" /\ q.s = a.r
        BY <3>3 DEF Homely
      <3>5. next = a.r
        BY <3>1, <3>3, <3>4 DEF Mirrors
      <3>6. Served(a.r) /\ Target(a.r)
        BY <1>1, <3>1 DEF Served, Target
      <3>7. /\ HasLog(a.r) /\ (a.r \notin raced => Enterable(a.r) /\ subs[a.r] = 1)
            /\ \A s \in Sessions : Spare(s) => s # a.r
        BY <3>2, <3>6, SwitchingNow
      <3>8. \A q \in reqs' : q \in reqs \/ (q.m = "submit" /\ q.s = next) \/ (q = c /\ next # was)
        BY <1>5, <3>1, <3>4, <3>5
      <3>9. QED
        BY <3>1, <3>2, <3>5, <3>7, <3>8
    <2>2. CASE Feed!Aborted(a)
      <3> DEFINE z == Feed!Replayed(ui)
      <3>1. /\ ui' = [z EXCEPT !.send = {}] /\ known' = known /\ reqs' = reqs \cup z.send
        BY <2>2 DEF Feed!Aborted, Feed!Settle
      <3>2. Homely(z) /\ z.on = was
        BY <1>3, ReplayHomely
      <3> HIDE DEF z
      <3>3. z \in Mirrors /\ \A q \in z.send : q.m = "submit" /\ q.s = was
        BY <3>2 DEF Homely
      <3>4. next = was
        BY <3>1, <3>2, <3>3 DEF Mirrors
      <3>5. /\ HasLog(was) /\ (was \notin raced => Enterable(was) /\ subs[was] = 1)
            /\ was \in known /\ was \in Sessions
        BY SwitchingNow
      <3> HIDE DEF next, was
      <3>6. QED
        BY <3>1, <3>3, <3>4, <3>5
    <2>3. QED
      BY <2>1, <2>2
  <1>p. PICK new \in Sessions :
          /\ new = next /\ HasLog(new) /\ (new \notin raced => Enterable(new) /\ subs[new] = 1)
          /\ known' \subseteq known \cup {new} /\ known \subseteq known' /\ new \in known'
          /\ \A q \in reqs' : q \in reqs \/ (q.m = "submit" /\ q.s = new) \/ (q = c /\ new # was)
          /\ new # was => \A s \in Sessions : Spare(s) => s # new
    BY <1>6
  <1>7. \A s \in Sessions : /\ HasLog(s)' <=> HasLog(s)
                            /\ Enterable(s) /\ (new = was \/ s # was) => Enterable(s)'
    BY <1>1, <1>5, <1>p DEF Enterable, HasLog
  <1>8. \A s \in Sessions : ~Served(s)' /\ ~Target(s)' /\ (Spare(s)' => Spare(s))
    <2>1. \A s \in Sessions : ~Served(s)' /\ (Spare(s)' => Spare(s))
      BY <1>1, <1>2 DEF Served, Spare
    <2>2. \A q \in reqs' : q.m # "resume"
      BY <1>2, <1>5, <1>p DEF Opens
    <2>3. QED
      BY <2>1, <2>2 DEF Target
  <1>9. OneSwitch'
    <2>1. \A q \in reqs' : ~Opens(q)
      BY <1>2, <1>5, <1>p DEF Opens
    <2>2. QED
      BY <1>1, <1>2, <2>1 DEF OneSwitch, Opens
  <1>10. /\ HasLog(ui.on)' /\ ui'.on \in known'
         /\ ui'.on \notin raced' => Enterable(ui.on)' /\ subs'[ui'.on] = 1
    <2>1. HasLog(new)' /\ (new \notin raced => Enterable(new)')
      BY <1>p, <1>7
    <2>2. QED
      BY <1>1, <1>p, <2>1 DEF Enterable, HasLog
  <1>11. (\A r \in known : HasLog(r))' /\ (\A p \in reqs : HasLog(p.s))'
    <2>1. \A r \in known' : r \in Sessions /\ HasLog(r)
      BY <1>p, SwitchingNow
    <2>2. \A p \in reqs' : p.s \in Sessions /\ HasLog(p.s)
      BY <1>4, <1>5, <1>p, SwitchingNow
    <2>3. QED
      BY <1>7, <2>1, <2>2
  <1>12. deliver'.on => HasLog(deliver.s)' /\ \A j \in 1..Len(deliver'.left) : deliver'.left[j].s =
           deliver'.s
    BY <1>1, <1>7, SwitchingNow
  <1>13. \A r \in Sessions : Spare(r)' => r \notin known' /\ Enterable(r)'
    <2>1. \A r \in Sessions : Spare(r) => r \notin known /\ Enterable(r)
      BY SwitchingNow
    <2>2. \A r \in Sessions : Spare(r) => r # was
      BY <1>4, <2>1
    <2>3. \A r \in Sessions : Spare(r) => r # new
      BY <1>p, <2>2
    <2>4. QED
      BY <1>p, <1>7, <1>8, <2>1, <2>2, <2>3
  <1>14. /\ \A b \in answers' : b.q.m = "command" => ~(deliver'.on /\ deliver'.s = b.r)
         /\ \A b \in answers' : b.q.m = "command" => \A d \in answers' : d.q.m = "command"
              /\ d.r = b.r => b = d
         /\ \A b \in answers' : b.q.m = "submit" /\ b.ok => b.r \in 1..Len(log'[b.q.s])
              /\ log'[b.q.s][b.r] = "user"
    BY <1>1, SwitchingNow
  <1>15. QED
    BY <1>8, <1>9, <1>10, <1>11, <1>12, <1>13, <1>14 DEF Switching

\* Every step keeps Switching.
LEMMA SwitchingNext ==
    ASSUME FeedShape, Switching, Logs, Feed!Next
    PROVE  Switching'
  <1>1. ASSUME NEW s \in Sessions,
               \/ Feed!AppendNote(s) \/ Feed!StartTurn(s) \/ Feed!Ask(s) \/ Feed!Decide(s)
                    \/ Feed!EndTurn(s)
        PROVE  Switching'
    BY <1>1, MovesSwitch
  <1>2. ASSUME NEW q \in reqs, Feed!ServeSubmit(q) \/ Feed!ServeAnswer(q) PROVE Switching'
    BY <1>2, ServesSwitch
  <1>3. ASSUME NEW q \in reqs, Feed!ServeClose(q) PROVE Switching'
    BY <1>3, KeysSwitch
  <1>4. ASSUME NEW q \in reqs, Feed!ServeResume(q) PROVE Switching'
    BY <1>4, ResumeSwitch
  <1>5. ASSUME NEW q \in reqs, NEW s \in Sessions, Feed!ServeFork(q, s) PROVE Switching'
    BY <1>5, ForkSwitch
  <1>6. CASE Feed!Deliver
    BY <1>6, DeliverSwitch
  <1>7. CASE Feed!Take \/ Feed!Enter \/ Feed!CancelTurn \/ Feed!ForkCommand
    BY <1>7, KeysSwitch
  <1>8. CASE Feed!Switch
    BY <1>8, SwitchSwitch
  <1>9. ASSUME NEW p \in ui.prompts, Feed!AnswerKey(p) PROVE Switching'
    BY <1>9, KeysSwitch
  <1>10. ASSUME NEW a \in answers, Feed!SubmitAnswered(a) \/ Feed!AnswerAnswered(a) PROVE Switching'
    BY <1>10, KeysSwitch
  <1>11. ASSUME NEW a \in answers, Feed!CommandAnswered(a) PROVE Switching'
    BY <1>11, CommandSwitch
  <1>12. ASSUME NEW a \in answers, Feed!Switched(a) \/ Feed!Aborted(a) PROVE Switching'
    BY <1>12, EndsSwitch
  <1>13. QED
    BY <1>1, <1>2, <1>3, <1>4, <1>5, <1>6, <1>7, <1>8, <1>9, <1>10, <1>11, <1>12 DEF Feed!Next

-----------------------------------------------------------------------------
(* The screen, over a run                                                  *)

\* Both hold at first.
LEMMA FeedStarts ==
    ASSUME Feed!Init, FeedShape
    PROVE  Switching /\ ScreenInv
  <1> DEFINE n == Feed!EntryNote(1, 1, "head")
  <1>1. /\ log = [s \in Sessions |-> IF s = 1 THEN <<"head">> ELSE <<>>]
        /\ run = [s \in Sessions |-> 0] /\ stands = [s \in Sessions |-> {}]
        /\ subs = [s \in Sessions |-> IF s = 1 THEN 1 ELSE 0]
        /\ ~deliver.on /\ reqs = {} /\ answers = {} /\ notes = <<n>>
        /\ ui = Feed!Fresh(1, FALSE) /\ ~sw.on /\ sw.buffer = <<>> /\ known = {1}
    BY DEF Feed!Init, Feed!NoDeliver, Feed!NoSwitch
  <1>2. ui.on = 1 /\ ~ui.await /\ ui.shown = <<>> /\ ui.prompts = {} /\ ui.asked = {} /\ ~ui.running
    BY <1>1 DEF Feed!Fresh
  <1>3. 1 \in Sessions
    BY FeedAssumption
  <1>4. Switching
    <2>1. HasLog(1) /\ Enterable(1)
      BY <1>1, <1>3 DEF Enterable, HasLog
    <2>2. \A s \in Sessions : ~Served(s) /\ ~Target(s) /\ ~Spare(s)
      BY <1>1 DEF Served, Target, Spare
    <2>3. OneSwitch
      BY <1>1 DEF OneSwitch
    <2>4. QED
      BY <1>1, <1>2, <1>3, <2>1, <2>2, <2>3 DEF Switching
  <1>5. n \in FeedNotes /\ n.t = "entry" /\ n.s = 1 /\ n.i = 1 /\ n.k = "head"
    BY <1>3 DEF Feed!EntryNote, FeedNotes, NoteKinds, FeedKinds
  <1> HIDE DEF n
  <1>6. \A s \in Sessions : Pending(s) = <<n>>
    BY <1>1, <1>5 DEF Pending
  <1>7. Len(<<n>>) = 1 /\ <<n>>[1] = n /\ \A k \in 1..1 : k = 1
    OBVIOUS
  <1>8. ASSUME NEW u, NEW s \in Sessions, u.on = s, u.shown = <<>>, u.prompts = {}, u.asked = {},
               u.await \/ s = 1
        PROVE  Safe(Of(s), u, <<n>>)
    <2> DEFINE w == Of(s)
    <2>1. /\ w.log = (IF s = 1 THEN <<"head">> ELSE <<>>) /\ w.run = 0 /\ w.standing = {}
          /\ w.subs = IF s = 1 THEN 1 ELSE 0
      BY <1>1 DEF Of
    <2>2. Len(<<"head">>) = 1 /\ <<"head">>[1] = "head" /\ <<"head">> # <<>> /\ Len(<<>>) = 0
      OBVIOUS
    <2>3. Feed!Seen(u) = {}
      <3>1. \A z : z.shown = <<>> => Feed!Seen(z) = {}
        BY DEF Feed!Seen, Feed!ToSet
      <3>2. QED
        BY <1>8, <3>1
    <2> HIDE DEF w
    <2>4. LogOk(w)
      BY <2>1, <2>2 DEF LogOk
    <2>5. Told(w, s, <<n>>)
      BY <1>5, <1>7, <2>1, <2>2 DEF Told, Genuine
    <2>6. Sane(w, u)
      BY <1>8, <2>3 DEF Sane
    <2>7. AsksFirst(w, u, <<n>>)
      BY <1>5, <1>7 DEF AsksFirst, IsAsk
    <2>8. InOrder(u, <<n>>)
      BY <1>5, <1>7 DEF InOrder, Follows
    <2>9. w.subs = 1 => Follows(u, <<n>>, Len(<<n>>) + 1, Len(w.log) + 1)
      <3>1. SUFFICES ASSUME s = 1 PROVE Follows(u, <<n>>, 2, 2)
        BY <1>7, <2>1, <2>2
      <3>2. IsEntry(<<n>>[1], u.on, 1) /\ NoHead(<<n>>, u.on, 1, 2) /\ 1 \in 1..Len(<<n>>)
              /\ 2 - 1 = 1 /\ 1 < 2
        BY <1>5, <1>7, <1>8, <3>1 DEF IsEntry, NoHead
      <3>3. QED
        BY <3>2 DEF Follows
    <2>10. QED
      BY <1>8, <2>4, <2>5, <2>6, <2>7, <2>8, <2>9 DEF Safe, w
  <1>9. \A s \in Sessions : Safe(Of(s), Feed!Fresh(s, TRUE), Pending(s))
    <2>1. ASSUME NEW s \in Sessions PROVE Safe(Of(s), Feed!Fresh(s, TRUE), <<n>>)
      <3> DEFINE u == Feed!Fresh(s, TRUE)
      <3>1. u.on = s /\ u.shown = <<>> /\ u.prompts = {} /\ u.asked = {} /\ u.await
        BY DEF Feed!Fresh
      <3> HIDE DEF u
      <3>2. Safe(Of(s), u, <<n>>)
        BY <1>8, <3>1
      <3>3. QED
        BY <3>2 DEF u
    <2>2. QED
      BY <1>6, <2>1
  <1>10. Safe(Of(ui.on), ui, Pending(ui.on))
    BY <1>2, <1>3, <1>6, <1>8
  <1>11. Full(Of(ui.on), ui, Pending(ui.on))
    <2> DEFINE w == Of(1)
    <2>1. w.log = <<"head">> /\ Len(w.log) = 1 /\ w.run = 0 /\ w.standing = {}
      BY <1>1, <1>3 DEF Of
    <2> HIDE DEF w
    <2>2. IsEntry(<<n>>[1], ui.on, 1) /\ 1 \in 1..Len(<<n>>)
      BY <1>2, <1>5, <1>7 DEF IsEntry
    <2>3. Complete(w, ui, <<n>>)
      BY <1>2, <1>7, <2>1, <2>2 DEF Complete
    <2>4. RunsOn(w, ui, <<n>>) /\ Asks(w, ui, <<n>>)
      BY <2>1 DEF RunsOn, Asks
    <2>5. QED
      BY <1>2, <1>3, <1>6, <2>3, <2>4 DEF Full, w
  <1>12. \A s \in Sessions : ~Served(s)
    BY <1>1 DEF Served
  <1>13. \A s \in Sessions : LogOk(Of(s))
    BY <1>9 DEF Safe
  <1>14. QED
    BY <1>4, <1>9, <1>10, <1>11, <1>12, <1>13 DEF ScreenInv

\* Both hold when nothing changes.
LEMMA FeedRests ==
    ASSUME FeedShape, Switching, ScreenInv, UNCHANGED feedVars
    PROVE  Switching' /\ ScreenInv'
  <1>1. UNCHANGED <<log, run, stands, subs, raced, deliver, reqs, notes, answers, ui, sw, known>>
    BY DEF feedVars
  <1>2. Switching'
    BY <1>1, SwitchingNow, QuietSwitches DEF HasLog
  <1>3. subs \in [Sessions -> {0, 1}]
    BY DEF FeedShape
  <1>4. ScreenInv'
    BY <1>1, <1>3, StandsKeep
  <1>5. QED
    BY <1>2, <1>4

\* What the invariant says of the screen: no gap, and at rest the whole session.
LEMMA FaithfulNow ==
    ASSUME FeedShape, ScreenInv
    PROVE  ScreenIsFaithful
  <1>0. SUFFICES ASSUME ui.on \notin raced PROVE Feed!NothingSkipped /\ Feed!ScreenIsSession
    BY DEF ScreenIsFaithful, Feed!ScreenIsFaithful
  <1>1. PICK o \in Sessions : o = ui.on
    BY ViewTypes
  <1> DEFINE w == Of(o)
             seen == Feed!Seen(ui)
             p == Pending(o)
  <1>2. /\ w.log = log[o] /\ w.run = run[o] /\ w.standing = stands[o] /\ w \in Views
        /\ DOMAIN log[o] = 1..Len(w.log)
    <2>1. w.log = log[o] /\ w.run = run[o] /\ w.standing = stands[o]
      BY DEF Of
    <2>2. log[o] \in Seq(FeedKinds)
      BY DEF FeedShape
    <2>3. DOMAIN log[o] = 1..Len(log[o])
      BY <2>2
    <2>4. QED
      BY <2>1, <2>3, ViewTypes
  <1>3. Safe(w, ui, p) /\ Full(w, ui, p)
    BY <1>0, <1>1, ScreenNow
  <1>4. Sane(w, ui)
    BY <1>3 DEF Safe
  <1>5. Feed!NothingSkipped
    BY <1>1, <1>2, <1>4 DEF Sane, Feed!NothingSkipped
  <1>6. ASSUME Feed!Quiet
        PROVE  seen = DOMAIN log[o] /\ ui.prompts = stands[o] /\ (run[o] # 0 => ui.running)
    <2>1. p = <<>> /\ w.answered = {}
      <3>1. notes = <<>> /\ ~deliver.on /\ sw.buffer = <<>> /\ reqs = {}
        BY <1>6 DEF Feed!Quiet, FeedShape
      <3>2. p = <<>>
        BY <3>1 DEF Pending
      <3>3. QED
        BY <3>1, <3>2 DEF Of
    <2>2. Len(<<>>) = 0
      OBVIOUS
    <2> HIDE DEF w, p, seen
    <2>3. \A i \in 1..Len(w.log) : i \in seen
      BY <1>3, <2>1, <2>2 DEF Full, Complete, seen
    <2>4. seen \subseteq 1..Len(w.log)
      BY <1>4 DEF Sane, seen
    <2>5. \A t \in w.standing : t \in ui.prompts
      BY <1>3, <2>1, <2>2 DEF Full, Asks
    <2>6. \A t \in ui.prompts : t \in w.standing
      <3>1. SUFFICES ASSUME NEW t \in ui.prompts PROVE t \in w.standing
        OBVIOUS
      <3>2. WasPut(w, t) /\ \A i \in seen : i > t => w.log[i] # "decided"
        BY <1>4 DEF Sane, seen
      <3>3. QED
        BY <2>3, <3>2 DEF WasPut
    <2>7. w.run # 0 => ui.running
      BY <1>3, <2>1, <2>2 DEF Full, RunsOn
    <2>8. QED
      BY <1>2, <2>3, <2>4, <2>5, <2>6, <2>7
  <1>7. Feed!ScreenIsSession
    BY <1>1, <1>6 DEF Feed!ScreenIsSession
  <1>8. QED
    BY <1>5, <1>7

\* The client's picture of the session on screen has no gap but for messages it echoed before
\* they arrived, and once nothing is under way it is the session: its whole log, the questions
\* that stand, and its turn shown running (Model.notification, Model.entry, replayBuffered,
\* abortSwitch, deliverAttach), when it was at rest during every attach the server delivered of
\* it and was not gone back to ahead of its close (it is not in raced).
THEOREM ScreenStaysFaithful == Feed!Spec => []ScreenIsFaithful
  <1>1. Feed!Init /\ FeedShape => Switching /\ ScreenInv
    BY FeedStarts
  <1>2. FeedShape /\ FeedShape' /\ Switching /\ ScreenInv /\ [Feed!Next]_Feed!vars => Switching'
          /\ ScreenInv'
    <2>1. ASSUME FeedShape, FeedShape', Switching, ScreenInv, Feed!Next
          PROVE  Switching' /\ ScreenInv'
      BY <2>1, ScreenNext, SwitchingNext, ScreenNow
    <2>2. ASSUME FeedShape, Switching, ScreenInv, UNCHANGED Feed!vars PROVE Switching' /\ ScreenInv'
      <3>1. UNCHANGED feedVars
        BY <2>2 DEF feedVars, Feed!vars, Feed!server, Feed!wire, Feed!client
      <3>2. QED
        BY <2>2, <3>1, FeedRests
    <2>3. QED
      BY <2>1, <2>2
  <1>3. FeedShape /\ ScreenInv => ScreenIsFaithful
    BY FaithfulNow
  <1>4. QED
    BY <1>1, <1>2, <1>3, FeedTypes, PTL DEF Feed!Spec
=============================================================================
