--------------------------- MODULE ProviderStream ---------------------------
(***************************************************************************)
(* One completion request of a provider: the attempts of the HTTP client   *)
(* (internal/provider/httpx), the stream it answers with, decoded by the   *)
(* openai_chat codec or the Anthropic one into parts                       *)
(* (internal/provider/openaichat, internal/provider/anthropicmsgs), and    *)
(* the message the turn's accumulator makes of them                        *)
(* (internal/turn/runner.go).                                              *)
(*                                                                         *)
(* The endpoint is the environment.  It announces calls at indexes, sends  *)
(* their arguments in fragments that may name the call again or only its   *)
(* index, gives an index to the next call when the last one is complete,   *)
(* and the stream may end early, be cut, or fall silent.                   *)
(***************************************************************************)
EXTENDS Integers, Sequences, FiniteSets, SequencesExt

CONSTANTS
    Indexes,        \* the indexes calls come at
    MaxAttempts,    \* len(backoff)
    MaxEvents       \* bound on the events of one stream

VARIABLES
    codec,          \* "openai" or "anthropic"
    step,           \* where Complete is
    sends,          \* requests sent
    gone,           \* whether the caller's context has ended
    st,             \* the codec's stream state
    acc,            \* the accumulator's blocks
    wire,           \* what the endpoint has sent
    result          \* how Complete ended

http == <<codec, step, sends, gone>>
vars == <<http, st, acc, wire, result>>

\* The stream state: the call open at each index, the indexes in order, the stop withheld,
\* the parts emitted.
NoStream == [open |-> [i \in Indexes |-> 0], order |-> <<>>, stop |-> FALSE, parts |-> <<>>]

\* What was sent: the call each index carries, how many calls there were, the fragments of
\* each in order, whether the finish was sent, and the events so far.
NoWire == [at |-> [i \in Indexes |-> 0], calls |-> 0, frags |-> <<>>, fin |-> FALSE, n |-> 0]

Init ==
    /\ codec \in {"openai", "anthropic"}
    /\ step = "send" /\ sends = 0 /\ gone = FALSE
    /\ st = NoStream /\ acc = <<>> /\ wire = NoWire /\ result = "none"

-----------------------------------------------------------------------------
(* Parts and the accumulator                                               *)

\* A part; x is the call whose argument bytes it carries.
Part(t, id, x) == [t |-> t, id |-> id, x |-> x]

\* accumulator.add, appendText and finishToolUse: text joins the text before it, a call's
\* fragments go to the block its id opened, and nothing joins a block that was ended.
Add(bs, p) ==
    LET mine == {i \in DOMAIN bs : bs[i].id = p.id /\ bs[i].open}
    IN  CASE p.t = "text" -> IF bs # <<>> /\ Last(bs).t = "text" THEN bs
                             ELSE Append(bs, [t |-> "text", id |-> 0, open |-> FALSE, input |-> <<>>])
          [] p.t = "start" -> Append(bs, [t |-> "call", id |-> p.id, open |-> TRUE, input |-> <<>>])
          [] p.t = "delta" -> [i \in DOMAIN bs |-> IF i \in mine THEN [bs[i] EXCEPT !.input = Append(@, p.x)] ELSE bs[i]]
          [] p.t = "end" -> [i \in DOMAIN bs |-> IF i \in mine THEN [bs[i] EXCEPT !.open = FALSE] ELSE bs[i]]
          [] p.t \in {"usage", "stop"} -> bs

Send(s, p) == [s EXCEPT !.parts = Append(@, p)]

\* The accumulator takes the parts as they are emitted.
Emitted(s) ==
    /\ st' = s
    /\ acc' = FoldLeft(Add, acc, SubSeq(s.parts, Len(st.parts) + 1, Len(s.parts)))

-----------------------------------------------------------------------------
(* The codecs                                                              *)

\* closeToolUse of anthropicmsgs: the call open at an index, if there is one, is ended and the
\* index free.
CloseToolUse(s, i) ==
    IF s.open[i] = 0 THEN s ELSE Send([s EXCEPT !.open[i] = 0], Part("end", s.open[i], 0))

\* closeCall of openaichat, which also takes the index out of the order.
CloseCall(s, i) == CloseToolUse([s EXCEPT !.order = SelectSeq(@, LAMBDA j : j # i)], i)

\* closeToolCalls, and the loop of anthropicmsgs' finish: what is still open, in the order of
\* arrival.
CloseAll(s) == [FoldLeft(CloseToolUse, s, s.order) EXCEPT !.order = <<>>]

Start(s, i, id) == Send([s EXCEPT !.open[i] = id, !.order = Append(@, i)], Part("start", id, 0))

\* Mutant: a fragment joins the call open at its index whatever id it names.
Fragment_AnyId(s, i, id, name, x) ==
    LET t == IF s.open[i] = 0 /\ id # 0 /\ name THEN Start(s, i, id) ELSE s
    IN  IF t.open[i] = 0 \/ x = 0 THEN t ELSE Send(t, Part("delta", t.open[i], x))

\* streamState.delta of openaichat: another id at an index is another call; a fragment for a
\* call that never started is dropped.
Fragment(s, i, id, name, x) ==
    LET other == s.open[i] # 0 /\ id # 0 /\ id # s.open[i]
        u == IF other THEN CloseCall(s, i) ELSE s
        t == IF u.open[i] = 0 /\ id # 0 /\ name THEN Start(u, i, id) ELSE u
    IN  IF t.open[i] = 0 \/ x = 0 THEN t ELSE Send(t, Part("delta", t.open[i], x))

\* streamState.event of anthropicmsgs: blocks start, carry their input by index, and stop.
BlockStart(s, i, id) == Start(s, i, id)
BlockDelta(s, i, x) == IF s.open[i] = 0 THEN s ELSE Send(s, Part("delta", s.open[i], x))
BlockStop(s, i) == CloseToolUse(s, i)

\* A finish_reason, or the stop_reason of a message_delta: the calls end with it in openaichat,
\* the stop is withheld in both.
Finish(s) ==
    IF codec = "openai" THEN [CloseAll(s) EXCEPT !.stop = TRUE]
    ELSE Send([s EXCEPT !.stop = TRUE], Part("usage", 0, 0))

\* streamState.finish.
Finished(s) == Send(CloseAll(s), Part("stop", 0, 0))

-----------------------------------------------------------------------------
(* httpx.Client.Do                                                         *)

Over(r) == step' = "over" /\ result' = r

\* An attempt that fails on the way: the caller's end is told from the endpoint's.
SendFails ==
    /\ step = "send"
    /\ sends' = sends + 1
    /\ \/ gone /\ Over("cancelled")
       \/ ~gone /\ sends + 1 < MaxAttempts /\ step' = "backoff" /\ UNCHANGED result
       \/ ~gone /\ sends + 1 = MaxAttempts /\ Over("transport")
    /\ UNCHANGED <<codec, gone, st, acc, wire>>

\* statusError, and classify, which asks after the caller first.
StatusError == IF gone /\ codec = "anthropic" THEN Over("cancelled") ELSE Over("provider")

\* A status that warrants another attempt.  The last one's is the answer, if its body can be
\* read.
RetryableStatus ==
    /\ step = "send"
    /\ sends' = sends + 1
    /\ \/ sends + 1 < MaxAttempts /\ step' = "backoff" /\ UNCHANGED result
       \/ sends + 1 = MaxAttempts /\ StatusError
       \/ sends + 1 = MaxAttempts /\ (IF gone THEN Over("cancelled") ELSE Over("transport"))
    /\ UNCHANGED <<codec, gone, st, acc, wire>>

\* sleepCtx: the context ends the wait, unless the sleep is over as well.
Backoff ==
    /\ step = "backoff"
    /\ \/ gone /\ Over("cancelled")
       \/ step' = "send" /\ UNCHANGED result
    /\ UNCHANGED <<codec, sends, gone, st, acc, wire>>

\* Any other status is the answer.
Answered ==
    /\ step = "send"
    /\ sends' = sends + 1
    /\ \/ step' = "read" /\ UNCHANGED result
       \/ StatusError
    /\ UNCHANGED <<codec, gone, st, acc, wire>>

ContextEnds ==
    /\ ~gone /\ step # "over"
    /\ gone' = TRUE
    /\ UNCHANGED <<codec, step, sends, st, acc, wire, result>>

-----------------------------------------------------------------------------
(* Complete reading the stream                                             *)

Reading == step = "read" /\ wire.n < MaxEvents
Event(w) == wire' = [w EXCEPT !.n = @ + 1] /\ UNCHANGED <<http, result>>

Text ==
    /\ Reading /\ ~wire.fin
    /\ Emitted(Send(st, Part("text", 0, 0)))
    /\ Event(wire)

\* The endpoint announces its next call at index i, whose last call it is done with, perhaps
\* with the first of its arguments.
Announce(i) ==
    /\ Reading /\ ~wire.fin
    /\ LET id == wire.calls + 1
       IN  \/ /\ codec = "openai"
              /\ \E x \in {0, id} :
                   /\ Emitted(Fragment(st, i, id, TRUE, x))
                   /\ Event([wire EXCEPT !.at[i] = id, !.calls = id,
                                         !.frags = Append(@, IF x = 0 THEN 0 ELSE 1)])
           \/ /\ codec = "anthropic" /\ st.open[i] = 0
              /\ Emitted(BlockStart(st, i, id))
              /\ Event([wire EXCEPT !.at[i] = id, !.calls = id, !.frags = Append(@, 0)])

\* More of the arguments of the call at index i, which openai_chat may name again.
Continue(i) ==
    /\ Reading /\ ~wire.fin /\ wire.at[i] # 0
    /\ \/ /\ codec = "openai"
          /\ \E id \in {0, wire.at[i]} : Emitted(Fragment(st, i, id, FALSE, wire.at[i]))
       \/ codec = "anthropic" /\ Emitted(BlockDelta(st, i, wire.at[i]))
    /\ Event([wire EXCEPT !.frags[wire.at[i]] = @ + 1])

\* A fragment of a call nobody announced.
Orphan(i) ==
    /\ Reading /\ ~wire.fin /\ wire.at[i] = 0 /\ codec = "openai"
    /\ Emitted(Fragment(st, i, 0, FALSE, wire.calls + 1))
    /\ Event(wire)

Stops(i) ==
    /\ Reading /\ codec = "anthropic" /\ wire.at[i] # 0
    /\ Emitted(BlockStop(st, i))
    /\ Event([wire EXCEPT !.at[i] = 0])

FinishReason ==
    /\ Reading /\ ~wire.fin
    /\ Emitted(Finish(st))
    /\ Event([wire EXCEPT !.fin = TRUE])

\* A usage report, which openai_chat sends after the finish.
Usage ==
    /\ Reading
    /\ Emitted(Send(st, Part("usage", 0, 0)))
    /\ Event(wire)

\* [DONE] or the end of the stream: readSSE and Complete finish.
StreamEnds ==
    /\ step = "read"
    /\ Emitted(Finished(st))
    /\ Over("ok")
    /\ UNCHANGED <<codec, sends, gone, wire>>

\* IdleBody: silence cancels the request, which Complete tells from every other end.
Idle ==
    /\ step = "read"
    /\ Over("idle")
    /\ UNCHANGED <<codec, sends, gone, st, acc, wire>>

\* transportError, classify and the switch after readSSE: the caller's own end comes before
\* what the stream said of it.
Cut ==
    /\ step = "read"
    /\ IF gone THEN Over("cancelled") ELSE Over("transport")
    /\ UNCHANGED <<codec, sends, gone, st, acc, wire>>

\* An event that cannot be parsed or says the provider failed.
Malformed ==
    /\ step = "read"
    /\ IF gone THEN Over("cancelled")
       ELSE \/ Over("provider")
            \/ codec = "anthropic" /\ Over("transport")
    /\ UNCHANGED <<codec, sends, gone, st, acc, wire>>

\* An emit that fails is the caller's own error, which openaichat too asks the caller's context
\* about first.
EmitFails ==
    /\ step = "read"
    /\ IF gone /\ codec = "openai" THEN Over("cancelled") ELSE Over("emit")
    /\ UNCHANGED <<codec, sends, gone, st, acc, wire>>

\* completeJSON: an endpoint that does not stream answers with the whole message, whose calls
\* take the index of their place.
Whole ==
    /\ step = "read" /\ codec = "openai" /\ wire.n = 0
    /\ \E n \in 0..Cardinality(Indexes) :
         LET is == SubSeq(SetToSeq(Indexes), 1, n)
             all == FoldLeft(LAMBDA s, k : Fragment(s, is[k], k, TRUE, k), st, [k \in 1..n |-> k])
         IN  /\ Emitted(Finished(Send(Finish(all), Part("usage", 0, 0))))
             /\ wire' = [wire EXCEPT !.calls = n, !.frags = [k \in 1..n |-> 1], !.fin = TRUE]
    /\ Over("ok")
    /\ UNCHANGED <<codec, sends, gone>>

Next ==
    \/ SendFails \/ RetryableStatus \/ Backoff \/ Answered \/ ContextEnds
    \/ Text \/ FinishReason \/ Usage
    \/ \E i \in Indexes : Announce(i) \/ Continue(i) \/ Orphan(i) \/ Stops(i)
    \/ StreamEnds \/ Whole \/ Idle \/ Cut \/ Malformed \/ EmitFails

Spec == Init /\ [][Next]_vars

-----------------------------------------------------------------------------
(* Correctness                                                             *)

\* The message a completion makes has each call the endpoint announced once, in their order,
\* with its own arguments, all of them and no other call's: consent is given for those bytes
\* (streamState.delta, closeCall, accumulator.add).
CallsAsSent ==
    LET calls == SelectSeq(acc, LAMBDA b : b.t = "call")
    IN  /\ Len(calls) = wire.calls
        /\ \A k \in DOMAIN calls :
             /\ calls[k].id = k
             /\ ToSet(calls[k].input) \subseteq {k}
             /\ Len(calls[k].input) = wire.frags[k]

\* What the turn reads of a whole completion: one stop, after everything else, and every call
\* started before it ended once (streamState.finish, closeToolCalls).
StopOnceLast ==
    result = "ok" =>
        /\ {i \in DOMAIN st.parts : st.parts[i].t = "stop"} = {Len(st.parts)}
        /\ \A k \in 1..wire.calls :
             Cardinality({i \in DOMAIN st.parts : st.parts[i].t = "end" /\ st.parts[i].id = k}) = 1
        /\ \A b \in ToSet(acc) : ~b.open

\* What a turn makes of a completion is what the endpoint sent, in both dialects.
MessageAsSent == CallsAsSent /\ StopOnceLast
=============================================================================
