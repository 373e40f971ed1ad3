---------------------------------- MODULE Peer ----------------------------------
(***************************************************************************)
(* One connection used in both directions (internal/protocol/peer.go and   *)
(* client.go): one reader gives an answer straight to the Call waiting for *)
(* it and queues everything else for the consumer of Incoming, so answers  *)
(* overtake what was sent before them unless a Sync barrier is used.       *)
(*                                                                         *)
(* A message is <<kind, argument>>; an answer is <<"answer", call>>.       *)
(***************************************************************************)
EXTENDS Integers, Sequences

CONSTANTS
    Calls,        \* the requests made over the connection, each once
    MaxIncoming   \* maxIncoming, the cap of the Incoming queue

ASSUME PeerAssumption == MaxIncoming \in Nat \ {0}

VARIABLES
    wire,         \* what the other side wrote and the reader has not taken
    hungup,       \* the other side closed its end of the wire
    open,         \* our Conn has not been closed
    reading,      \* the reader runs; once not, the queue is final and Client.done closed
    q,            \* queueConn.q, messages and barriers
    down,         \* queueConn.closed
    call,         \* call[c]: "idle", "pending", "ok", "cancelled" or "ended"
    answered      \* calls whose response channel holds an answer

peer == <<wire, hungup, open, reading, q, down, call, answered>>

CallStates == {"idle", "pending", "ok", "cancelled", "ended"}
Barrier == <<"barrier", 0>>
IsAnswer(m) == m[1] = "answer"

PeerInit ==
    /\ wire = <<>> /\ q = <<>> /\ answered = {}
    /\ hungup = FALSE /\ open = TRUE /\ down = FALSE /\ reading = TRUE
    /\ call = [c \in Calls |-> "idle"]

-----------------------------------------------------------------------------
(* The reader.                                                             *)

\* end and finishReading: pending calls fail, the queue is final, the transport
\* is closed and what it still held is lost.
End == reading' = FALSE /\ open' = FALSE /\ wire' = <<>>
Took == wire' = Tail(wire)

\* deliver: an answer nobody waits for, or a second one, is dropped.
Deliver(m) ==
    /\ answered' = IF call[m[2]] = "pending" THEN answered \cup {m[2]} ELSE answered
    /\ Took /\ UNCHANGED <<reading, open, q>>

\* push: past the cap the reader ends the connection.
Push(m) ==
    /\ IF Len(q) >= MaxIncoming
       THEN End /\ UNCHANGED q
       ELSE q' = Append(q, m) /\ Took /\ UNCHANGED <<reading, open>>
    /\ UNCHANGED answered

Read ==
    /\ reading /\ open /\ wire # <<>>
    /\ IF IsAnswer(Head(wire)) THEN Deliver(Head(wire)) ELSE Push(Head(wire))
    /\ UNCHANGED <<hungup, down, call>>

\* Recv fails: end of input once the wire is empty, or our own Close.
ReadFails ==
    /\ reading /\ (~open \/ (hungup /\ wire = <<>>))
    /\ End
    /\ UNCHANGED <<hungup, q, down, call, answered>>

-----------------------------------------------------------------------------
(* Client.Call, and Peer.Close.                                            *)

Return(c, how) == call' = [call EXCEPT ![c] = how]

\* A call made after the reader ended, or whose write fails, fails at once.
SendFails == ~reading \/ ~open \/ hungup
CallStart(c) ==
    /\ call[c] = "idle"
    /\ \/ reading /\ open /\ Return(c, "pending")
       \/ SendFails /\ Return(c, "ended")

\* The select of Call: an answer that has arrived wins over the context and
\* over the end of the connection.
CallReturns(c, how) ==
    /\ call[c] = "pending"
    /\ how = "ok" <=> c \in answered
    /\ how = "ended" => ~reading
    /\ Return(c, how) /\ answered' = answered \ {c}
    /\ UNCHANGED <<wire, hungup, open, reading, q, down>>

PeerClose == open' = FALSE /\ down' = TRUE

-----------------------------------------------------------------------------
(* Incoming: its Recv pops the barriers in front of the next message.      *)

Messages == {i \in 1..Len(q) : q[i] # Barrier}
First == CHOOSE i \in Messages : \A j \in Messages : i <= j
Recv(m) == Messages # {} /\ m = q[First] /\ q' = SubSeq(q, First + 1, Len(q))

\* Recv returns an error: the queue is final and empty, the Peer was closed,
\* or the consumer's context ended (why is "eof", "closed" or "canceled").
RecvFails(why, ctxDone) ==
    /\ Messages = {} /\ q' = <<>>
    /\ \/ why = "eof" /\ ~reading
       \/ why = "closed" /\ reading /\ down
       \/ why = "canceled" /\ reading /\ ctxDone

\* sync: a barrier is queued unless the queue is final; it has been passed when
\* the consumer took everything in front of it.
SyncStart == q' = IF reading THEN Append(q, Barrier) ELSE q
Passed == \A i \in 1..Len(q) : q[i] # Barrier
=============================================================================
