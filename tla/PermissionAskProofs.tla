------------------------- MODULE PermissionAskProofs -------------------------
(***************************************************************************)
(* Consent of one's own, and nobody left waiting, proved for any calls,    *)
(* keys, matchers, askers and replies.                                     *)
(*                                                                         *)
(* The three properties of the run are consequences of one invariant.      *)
(* Keyed: whatever travels to a call (the standing question it joined, the *)
(* answer on its channel, the answer its question was retired with) fits   *)
(* the call's own key.  Fresh: the standing question of a key that can be  *)
(* joined has no answer yet, so an answer is never older than the calls    *)
(* that take it.  Held: a standing question that is not retired has one    *)
(* holder, and the calls queued behind it are just the ones still waiting. *)
(* Standing: a question only an asker can settle stands, and stands only   *)
(* while some connection has not finished leaving.                         *)
(***************************************************************************)
EXTENDS PermissionAsk, FiniteSetTheorems, TLAPS

Early == {"gate", "ask"}

\* The answer fits the call: it was given for the call's key, or for the session and covers it.
Fits(a, c) ==
    \/ key[a.of] = key[c]
    \/ a.scope = "session" /\ Mat(a.of) = Mat(c) /\ key[c] \notin Dangerous

\* The types the proof needs.
Shape ==
    /\ key \in [Calls -> Keys] /\ at = [c \in Calls |-> at[c]]
    /\ st \in [Calls -> Calls \cup {None}] /\ got \in [Calls -> Returns]
    /\ asking \in [Keys -> Calls \cup {None}] /\ queue \in [Calls -> Seq(Calls)]
    /\ done \in [Calls -> Returns] /\ chan \in [Calls -> Answers \cup {Nothing}]
    /\ pending \subseteq Calls /\ standing \subseteq Calls
    /\ prior = [c \in Calls |-> prior[c]] /\ conn = [a \in Conns |-> conn[a]]

\* A call that has not asked is nowhere in the tables, and one that has is on a question.
Begun ==
    /\ \A c \in Calls : at[c] \in Early =>
          /\ st[c] = None /\ got[c] = Nothing /\ done[c] = Nothing
          /\ c \notin promoted
          /\ \A h \in Calls : st[h] # c
          /\ \A k \in Keys : asking[k] # c
    /\ \A c \in Calls : st[c] = None => at[c] \in Early \cup Ended /\ got[c] = Nothing
    /\ \A c \in Calls : at[c] \in {"retire", "leave"} => got[c] # Nothing

\* An answer is sent only to a call that is published, and once.
Sent ==
    /\ \A c \in Calls : at[c] \in Early \cup {"wait", "raise"} => chan[c] = Nothing
    /\ \A c \in pending : at[c] \in {"publish", "select"} /\ chan[c] = Nothing

Keyed ==
    /\ \A c \in Calls : st[c] # None => key[st[c]] = key[c]
    /\ \A k \in Keys : asking[k] # None => key[asking[k]] = k
    /\ \A c \in Calls : chan[c] \in Answers => Fits(chan[c], c)
    /\ \A c \in Calls : got[c] \in Answers => Fits(got[c], c)
    /\ \A c \in Calls : done[c] \in Answers => Fits(done[c], c)

\* No answer is on its way to whoever joins question s.
Open(s) ==
    /\ done[s] = Nothing
    /\ \A h \in Calls : st[h] = s => chan[h] = Nothing /\ got[h] \notin Answers

\* What call h heard, or will, is newer than call c.
Newer(h, c) ==
    /\ chan[h] \in Answers => chan[h].of \notin prior[c]
    /\ got[h] \in Answers => got[h].of \notin prior[c]

Fresh ==
    /\ \A c \in Calls : prior[c] \subseteq Replied
    /\ \A k \in Keys : asking[k] # None => Open(asking[k])
    /\ \A c, h \in Calls : st[c] # None /\ st[h] = st[c] => Newer(h, c)
    /\ \A c \in Calls : st[c] # None /\ done[st[c]] \in Answers => done[st[c]].of \notin prior[c]

\* Question s has a holder.
Holder(s) == \E h \in Calls : st[h] = s /\ Holds(h)

\* Call c is in line behind the holder of s.
InLine(c, s) == \E i \in 1..Len(queue[s]) : queue[s][i] = c

\* A question has at most one holder, and it holds only until it is retired;
OneHolder ==
    /\ \A c, d \in Calls : st[c] # None /\ st[c] = st[d] /\ Holds(c) /\ Holds(d) => c = d
    /\ \A h \in Calls : st[h] # None /\ Holds(h) => done[st[h]] = Nothing

\* one that can be joined, or that is waited for, has a holder;
SomeHolder ==
    /\ \A k \in Keys : asking[k] # None => Holder(asking[k])
    /\ \A c \in Calls : at[c] = "wait" /\ done[st[c]] = Nothing => Holder(st[c])

\* and who waits without holding it is in line, once, with nobody else.
Line ==
    /\ \A c \in Calls : at[c] = "wait" /\ c \notin promoted => InLine(c, st[c])
    /\ \A s \in Calls : done[s] = Nothing =>
          \A i \in 1..Len(queue[s]) :
             /\ at[queue[s][i]] = "wait" /\ st[queue[s][i]] = s /\ queue[s][i] \notin promoted
             /\ \A j \in 1..Len(queue[s]) : queue[s][i] = queue[s][j] => i = j

Held == OneHolder /\ SomeHolder /\ Line

Stands ==
    /\ \A c \in Calls : at[c] = "select" /\ chan[c] = Nothing /\ c \notin abandoned =>
          c \in standing
    /\ standing # {} => \E a \in Conns : conn[a] # "off"

Ran ==
    /\ \A c \in Calls : at[c] = "ran" /\ got[c] # Nothing => got[c] \in Answers
    /\ \A c \in Calls : at[c] = "ran" /\ key[c] \in Dangerous /\ mode # "off" =>
          got[c] \in Answers

Inv == Shape /\ Begun /\ Sent /\ Keyed /\ Fresh /\ Held /\ Stands /\ Ran

-----------------------------------------------------------------------------
(* Answers and errors.                                                     *)

\* An answer names the call it was given for; no error does.
LEMMA AnswerFacts ==
    ASSUME NEW a \in Answers
    PROVE  a.of \in Calls /\ a # Nothing /\ a # NoAsker /\ a # Cut
  <1>1. PICK c \in Calls, r \in Replies : a = [of |-> c, decision |-> r[1], scope |-> r[2]]
    BY DEF Answers
  <1>2. a.of = c
    BY <1>1
  <1>3. Nothing.of = None /\ NoAsker.of = None /\ Cut.of = None
    BY DEF Nothing, NoAsker, Cut, Error
  <1>4. QED
    BY <1>2, <1>3, PermissionAskAssumption

\* An error is not an allow, and is not what a call has before it hears anything.
LEMMA ErrorFacts ==
    /\ NoAsker # Nothing /\ Cut # Nothing
    /\ Nothing.of \notin Calls /\ Nothing.decision # "allow"
    /\ NoAsker.decision # "allow" /\ Cut.decision # "allow"
  <1>1. /\ Nothing.decision = "none" /\ NoAsker.decision = "no_asker"
        /\ Cut.decision = "cancelled" /\ Nothing.of = None
    BY DEF Nothing, NoAsker, Cut, Error
  <1>2. QED
    BY <1>1, PermissionAskAssumption

\* What Ask returns is an answer, or one of the errors.
LEMMA ReturnFacts ==
    /\ \A a : a \in Returns <=> a \in Answers \/ a = NoAsker \/ a = Cut \/ a = Nothing
    /\ NoAsker \notin Answers /\ Cut \notin Answers /\ Nothing \notin Answers
  BY AnswerFacts DEF Returns

\* The calls whose question is published are not among those answered.
LEMMA PendingFacts ==
    ASSUME Sent, Shape
    PROVE  \A c \in pending : c \notin Replied
  BY ErrorFacts DEF Sent, Shape, Replied

\* Only calls are in line.
LEMMA InLineAreCalls ==
    ASSUME Shape
    PROVE  \A s \in Calls : \A i \in 1..Len(queue[s]) : queue[s][i] \in Calls
  BY DEF Shape

\* A call that has asked and has not ended is on a question.
LEMMA OnAQuestion ==
    ASSUME Shape, Begun, NEW c \in Calls, at[c] \notin Early \cup Ended
    PROVE  st[c] \in Calls /\ st[c] # None
  <1>1. st[c] # None
    BY DEF Begun
  <1>2. QED
    BY <1>1 DEF Shape

\* What removeChan leaves.
LEMMA WithoutFacts ==
    ASSUME NEW q \in Seq(Calls), NEW i \in 1..Len(q)
    PROVE  /\ Without(q, i) \in Seq(Calls) /\ Len(Without(q, i)) = Len(q) - 1
           /\ \A j \in 1..(Len(q) - 1) :
                 Without(q, i)[j] = IF j < i THEN q[j] ELSE q[j + 1]
  <1>1. \A j \in 1..(Len(q) - 1) : (IF j < i THEN q[j] ELSE q[j + 1]) \in Calls
    OBVIOUS
  <1>2. Len(q) - 1 \in Nat
    OBVIOUS
  <1>3. QED
    BY <1>1, <1>2 DEF Without

-----------------------------------------------------------------------------
(* What the steps of a call keep.                                          *)

\* A joiner takes the answer its question was retired with (Ask, case <-st.done).
LEMMA TakesShared ==
    ASSUME NEW c \in Calls, Inv, TakeShared(c), UNCHANGED <<key, mode>>
    PROVE  Inv'
  <1>1. UNCHANGED <<key, mode, st, asking, queue, done, promoted, pending, standing, chan,
                    abandoned, prior, conn>>
    BY DEF TakeShared, Go, share, question, outside
  <1>2. st[c] \in Calls /\ st[c] # None
    <2>1. at[c] = "wait"
      BY DEF TakeShared
    <2>2. QED
      BY <2>1, OnAQuestion DEF Inv, Early, Ended
  <1>3. done[st[c]] # Nothing /\ done[st[c]] \in Returns
    BY <1>2 DEF TakeShared, Inv, Shape
  <1>4. /\ at[c] = "wait" /\ at' = [d \in Calls |-> at'[d]] /\ at'[c] = "answered"
        /\ \A d \in Calls : d # c => at'[d] = at[d]
    BY DEF Inv, Shape, TakeShared, Go
  <1>5. /\ got'[c] = done[st[c]]
        /\ \A d \in Calls : d # c => got'[d] = got[d]
        /\ got' \in [Calls -> Returns]
    BY <1>2, <1>3 DEF Inv, Shape, TakeShared
  <1>6. c \notin promoted
    BY <1>2, <1>3, <1>4 DEF Inv, Held, OneHolder, Holds, Shape
  <1>7. \A d \in Calls : Holds(d)' <=> Holds(d)
    <2>1. Holds(c)' <=> Holds(c)
      BY <1>1, <1>2, <1>3, <1>4, <1>5, <1>6 DEF Holds
    <2>2. \A d \in Calls : d # c => (Holds(d)' <=> Holds(d))
      BY <1>1, <1>2, <1>3, <1>4, <1>5, <1>6 DEF Holds
    <2>3. QED
      BY <2>1, <2>2
  <1>8. Shape'
    BY <1>1, <1>2, <1>3, <1>4, <1>5, <1>6 DEF Inv, Shape
  <1>9. Begun'
    BY <1>1, <1>2, <1>3, <1>4, <1>5, <1>6 DEF Inv, Begun, Early, Ended
  <1>10. Sent'
    BY <1>1, <1>2, <1>3, <1>4, <1>5, <1>6 DEF Inv, Sent, Early, Shape
  <1>11. Keyed'
    <2>1. got'[c] \in Answers => Fits(got'[c], c)
      BY <1>2, <1>5 DEF Inv, Keyed, Fits, Mat
    <2>2. \A d \in Calls : got'[d] \in Answers => Fits(got'[d], d)
      BY <1>5, <2>1 DEF Inv, Keyed
    <2>3. \A a : \A d : Fits(a, d)' <=> Fits(a, d)
      BY <1>1 DEF Fits, Mat
    <2>4. QED
      BY <1>1, <2>2, <2>3 DEF Inv, Keyed
  <1>12. Fresh'
    <2>1. \A k \in Keys : asking[k] # None => asking[k] # st[c]
      BY <1>3 DEF Inv, Fresh, Open
    <2>2. \A k \in Keys : asking[k] # None => Open(asking[k])'
      BY <1>1, <1>5, <2>1 DEF Inv, Fresh, Open
    <2>3. \A d, h \in Calls : st[d] # None /\ st[h] = st[d] => Newer(h, d)'
      BY <1>1, <1>2, <1>5 DEF Inv, Fresh, Newer
    <2>4. QED
      BY <1>1, <2>2, <2>3 DEF Inv, Fresh, Replied
  <1>13. OneHolder'
    BY <1>1, <1>2, <1>3, <1>4, <1>5, <1>6, <1>7 DEF Inv, Held, OneHolder, Shape
  <1>14. SomeHolder'
    BY <1>1, <1>2, <1>3, <1>4, <1>5, <1>6, <1>7 DEF Inv, Held, SomeHolder, Holder, Shape
  <1>15. Line'
    BY <1>1, <1>2, <1>3, <1>4, InLineAreCalls DEF Inv, Held, Line, InLine
  <1>16. Stands'
    BY <1>1, <1>2, <1>3, <1>4, <1>5, <1>6 DEF Inv, Stands, Shape
  <1>17. Ran'
    BY <1>1, <1>2, <1>3, <1>4, <1>5, <1>6 DEF Inv, Ran, Shape
  <1>18. QED
    BY <1>8, <1>9, <1>10, <1>11, <1>12, <1>13, <1>14, <1>15, <1>16, <1>17 DEF Inv, Held

\* A promoted joiner starts to raise the question (Ask, case <-promote).
LEMMA IsPromoted ==
    ASSUME NEW c \in Calls, Inv, Promoted(c), UNCHANGED <<key, mode>>
    PROVE  Inv'
  <1>1. UNCHANGED <<key, mode, st, got, asking, queue, done, promoted, pending, standing, chan,
                    abandoned, prior, conn>>
    BY DEF Promoted, Go, share, question, outside
  <1>2. /\ at[c] = "wait" /\ at' = [d \in Calls |-> at'[d]] /\ at'[c] = "raise"
        /\ \A d \in Calls : d # c => at'[d] = at[d]
        /\ c \in promoted
    BY DEF Inv, Shape, Promoted, Go
  <1>3. \A d \in Calls : Holds(d)' <=> Holds(d)
    <2>1. Holds(c)' <=> Holds(c)
      BY <1>1, <1>2 DEF Holds
    <2>2. \A d \in Calls : d # c => (Holds(d)' <=> Holds(d))
      BY <1>1, <1>2 DEF Holds
    <2>3. QED
      BY <2>1, <2>2
  <1>4. Shape'
    BY <1>1, <1>2 DEF Inv, Shape
  <1>5. Begun'
    BY <1>1, <1>2 DEF Inv, Begun, Early, Ended
  <1>6. Sent'
    BY <1>1, <1>2 DEF Inv, Sent, Early, Shape
  <1>7. Keyed'
    BY <1>1 DEF Inv, Keyed, Fits, Mat, Shape
  <1>8. Fresh'
    BY <1>1 DEF Inv, Fresh, Open, Newer, Replied, Shape
  <1>9. OneHolder'
    BY <1>1, <1>2, <1>3 DEF Inv, Held, OneHolder, Shape
  <1>10. SomeHolder'
    BY <1>1, <1>2, <1>3 DEF Inv, Held, SomeHolder, Holder, Shape
  <1>11. Line'
    BY <1>1, <1>2, InLineAreCalls DEF Inv, Held, Line, InLine
  <1>12. Stands'
    BY <1>1, <1>2 DEF Inv, Stands, Shape
  <1>13. Ran'
    BY <1>1, <1>2 DEF Inv, Ran, Shape
  <1>14. QED
    BY <1>4, <1>5, <1>6, <1>7, <1>8, <1>9, <1>10, <1>11, <1>12, <1>13 DEF Inv, Held

\* The holder publishes its answer channel (ask).
LEMMA Publishes ==
    ASSUME NEW c \in Calls, Inv, Publish(c), UNCHANGED <<key, mode>>
    PROVE  Inv'
  <1>1. UNCHANGED <<key, mode, st, got, asking, queue, done, promoted, standing, chan,
                    abandoned, prior, conn>>
    BY DEF Publish, Go, share, question, outside
  <1>2. /\ at[c] = "raise" /\ at' = [d \in Calls |-> at'[d]] /\ at'[c] = "publish"
        /\ \A d \in Calls : d # c => at'[d] = at[d]
        /\ pending' = pending \cup {c}
    BY DEF Inv, Shape, Publish, Go
  <1>3. \A d \in Calls : Holds(d)' <=> Holds(d)
    <2>1. Holds(c)' <=> Holds(c)
      BY <1>1, <1>2 DEF Holds
    <2>2. \A d \in Calls : d # c => (Holds(d)' <=> Holds(d))
      BY <1>1, <1>2 DEF Holds
    <2>3. QED
      BY <2>1, <2>2
  <1>4. Shape'
    BY <1>1, <1>2 DEF Inv, Shape
  <1>5. Begun'
    BY <1>1, <1>2 DEF Inv, Begun, Early, Ended
  <1>6. Sent'
    BY <1>1, <1>2 DEF Inv, Sent, Early, Shape
  <1>7. Keyed'
    BY <1>1 DEF Inv, Keyed, Fits, Mat, Shape
  <1>8. Fresh'
    BY <1>1 DEF Inv, Fresh, Open, Newer, Replied, Shape
  <1>9. OneHolder'
    BY <1>1, <1>2, <1>3 DEF Inv, Held, OneHolder, Shape
  <1>10. SomeHolder'
    BY <1>1, <1>2, <1>3 DEF Inv, Held, SomeHolder, Holder, Shape
  <1>11. Line'
    <2>1. \A d \in Calls : at'[d] = "wait" <=> at[d] = "wait"
      BY <1>1, <1>2
    <2>2. QED
      BY <1>1, <2>1, InLineAreCalls DEF Inv, Held, Line, InLine
  <1>12. Stands'
    BY <1>1, <1>2 DEF Inv, Stands, Shape
  <1>13. Ran'
    BY <1>1, <1>2 DEF Inv, Ran, Shape
  <1>14. QED
    BY <1>4, <1>5, <1>6, <1>7, <1>8, <1>9, <1>10, <1>11, <1>12, <1>13 DEF Inv, Held

\* The runner records what Ask returned.
LEMMA Decides ==
    ASSUME NEW c \in Calls, Inv, Decide(c), UNCHANGED <<key, mode>>
    PROVE  Inv'
  <1>1. UNCHANGED <<key, mode, st, got, asking, queue, done, promoted, pending, standing, chan,
                    abandoned, prior, conn>>
    BY DEF Decide, Go, share, question, outside
  <1>2. /\ at[c] = "answered" /\ at' = [d \in Calls |-> at'[d]] /\ at'[c] \in {"ran", "denied"}
        /\ \A d \in Calls : d # c => at'[d] = at[d]
    BY DEF Inv, Shape, Decide, Go
  <1>3. at'[c] = "ran" => got[c].decision = "allow"
    BY DEF Inv, Shape, Decide, Go
  <1>4. at'[c] = "ran" => got[c] \in Answers
    BY <1>3, ReturnFacts, ErrorFacts DEF Inv, Shape
  <1>5. \A d \in Calls : Holds(d)' <=> Holds(d)
    <2>1. Holds(c)' <=> Holds(c)
      BY <1>1, <1>2, <1>3, <1>4 DEF Holds
    <2>2. \A d \in Calls : d # c => (Holds(d)' <=> Holds(d))
      BY <1>1, <1>2, <1>3, <1>4 DEF Holds
    <2>3. QED
      BY <2>1, <2>2
  <1>6. Shape'
    BY <1>1, <1>2, <1>3, <1>4 DEF Inv, Shape
  <1>7. Begun'
    BY <1>1, <1>2, <1>3, <1>4 DEF Inv, Begun, Early, Ended
  <1>8. Sent'
    BY <1>1, <1>2, <1>3, <1>4 DEF Inv, Sent, Early, Shape
  <1>9. Keyed'
    BY <1>1 DEF Inv, Keyed, Fits, Mat, Shape
  <1>10. Fresh'
    BY <1>1 DEF Inv, Fresh, Open, Newer, Replied, Shape
  <1>11. OneHolder'
    BY <1>1, <1>2, <1>3, <1>4, <1>5 DEF Inv, Held, OneHolder, Shape
  <1>12. SomeHolder'
    BY <1>1, <1>2, <1>3, <1>4, <1>5 DEF Inv, Held, SomeHolder, Holder, Shape
  <1>13. Line'
    <2>1. \A d \in Calls : at'[d] = "wait" <=> at[d] = "wait"
      BY <1>1, <1>2, <1>3, <1>4
    <2>2. QED
      BY <1>1, <2>1, InLineAreCalls DEF Inv, Held, Line, InLine
  <1>14. Stands'
    BY <1>1, <1>2, <1>3, <1>4 DEF Inv, Stands, Shape
  <1>15. Ran'
    BY <1>1, <1>2, <1>3, <1>4 DEF Inv, Ran, Shape
  <1>16. QED
    BY <1>6, <1>7, <1>8, <1>9, <1>10, <1>11, <1>12, <1>13, <1>14, <1>15 DEF Inv, Held

\* The gate lets the call run, denies it or makes it ask; it never just lets a dangerous one
\* run unless the mode is off.
LEMMA IsGated ==
    ASSUME NEW c \in Calls, Inv, Gated(c), UNCHANGED <<key, mode>>
    PROVE  Inv'
  <1>1. UNCHANGED <<key, mode, st, got, asking, queue, done, promoted, pending, standing, chan,
                    abandoned, prior, conn>>
    BY DEF Gated, Go, share, question, outside
  <1>2. /\ at[c] = "gate" /\ at' = [d \in Calls |-> at'[d]] /\ at'[c] \in {"ask", "ran", "denied"}
        /\ \A d \in Calls : d # c => at'[d] = at[d]
    BY DEF Inv, Shape, Gated, Go
  <1>3. got[c] = Nothing
    BY <1>2 DEF Inv, Begun, Early
  <1>4. at'[c] = "ran" /\ key[c] \in Dangerous => mode = "off"
    BY DEF Inv, Shape, Gated, Go, Evaluate, Verdict
  <1>5. \A d \in Calls : Holds(d)' <=> Holds(d)
    <2>1. Holds(c)' <=> Holds(c)
      BY <1>1, <1>2, <1>3, <1>4 DEF Holds
    <2>2. \A d \in Calls : d # c => (Holds(d)' <=> Holds(d))
      BY <1>1, <1>2, <1>3, <1>4 DEF Holds
    <2>3. QED
      BY <2>1, <2>2
  <1>6. Shape'
    BY <1>1, <1>2, <1>3, <1>4 DEF Inv, Shape
  <1>7. Begun'
    BY <1>1, <1>2, <1>3, <1>4 DEF Inv, Begun, Early, Ended
  <1>8. Sent'
    BY <1>1, <1>2, <1>3, <1>4 DEF Inv, Sent, Early, Shape
  <1>9. Keyed'
    BY <1>1 DEF Inv, Keyed, Fits, Mat, Shape
  <1>10. Fresh'
    BY <1>1 DEF Inv, Fresh, Open, Newer, Replied, Shape
  <1>11. OneHolder'
    BY <1>1, <1>2, <1>3, <1>4, <1>5 DEF Inv, Held, OneHolder, Shape
  <1>12. SomeHolder'
    BY <1>1, <1>2, <1>3, <1>4, <1>5 DEF Inv, Held, SomeHolder, Holder, Shape
  <1>13. Line'
    <2>1. \A d \in Calls : at'[d] = "wait" <=> at[d] = "wait"
      BY <1>1, <1>2, <1>3, <1>4
    <2>2. QED
      BY <1>1, <2>1, InLineAreCalls DEF Inv, Held, Line, InLine
  <1>14. Stands'
    BY <1>1, <1>2, <1>3, <1>4 DEF Inv, Stands, Shape
  <1>15. Ran'
    BY <1>1, <1>2, <1>3, <1>4 DEF Inv, Ran, Shape
  <1>16. QED
    BY <1>6, <1>7, <1>8, <1>9, <1>10, <1>11, <1>12, <1>13, <1>14, <1>15 DEF Inv, Held

\* A cancelled joiner that is no longer in line holds the question, and hands it on.
LEMMA LeavesTheHolder ==
    ASSUME NEW c \in Calls, ~InLine(c, st[c]), Inv, GiveUp(c), UNCHANGED <<key, mode>>
    PROVE  Inv'
  <1>1. UNCHANGED <<key, mode, st, asking, done, promoted, pending, standing, chan, abandoned,
                    prior, conn>>
    BY DEF GiveUp, Go, share, question, outside
  <1>2. st[c] \in Calls /\ st[c] # None
    <2>1. at[c] = "wait"
      BY DEF GiveUp
    <2>2. QED
      BY <2>1, OnAQuestion DEF Inv, Early, Ended
  <1>3. queue[st[c]] \in Seq(Calls) /\ DOMAIN queue[st[c]] = 1..Len(queue[st[c]])
    BY <1>2 DEF Inv, Shape
  <1>4. /\ at[c] = "wait" /\ at' = [d \in Calls |-> at'[d]] /\ at'[c] = "leave"
        /\ \A d \in Calls : d # c => at'[d] = at[d]
        /\ queue' = queue
    BY <1>3 DEF Inv, Shape, GiveUp, InLine, Go
  <1>5. /\ got'[c] = Cut
        /\ \A d \in Calls : d # c => got'[d] = got[d]
        /\ got' \in [Calls -> Returns]
    BY ReturnFacts DEF Inv, Shape, GiveUp
  <1>6. c \in promoted
    BY <1>4 DEF Inv, Held, Line
  <1>7. \A d \in Calls : Holds(d)' <=> Holds(d)
    <2>1. Holds(c)' <=> Holds(c)
      BY <1>1, <1>2, <1>3, <1>4, <1>5, <1>6 DEF Holds
    <2>2. \A d \in Calls : d # c => (Holds(d)' <=> Holds(d))
      BY <1>1, <1>2, <1>3, <1>4, <1>5, <1>6 DEF Holds
    <2>3. QED
      BY <2>1, <2>2
  <1>8. Shape'
    BY <1>1, <1>2, <1>3, <1>4, <1>5, <1>6 DEF Inv, Shape
  <1>9. Begun'
    BY <1>1, <1>2, <1>4, <1>5, ErrorFacts DEF Inv, Begun, Early, Ended
  <1>10. Sent'
    BY <1>1, <1>2, <1>3, <1>4, <1>5, <1>6 DEF Inv, Sent, Early, Shape
  <1>11. Keyed'
    <2>1. got'[c] \in Answers => Fits(got'[c], c)
      BY <1>5, ReturnFacts DEF Inv, Keyed
    <2>2. \A d \in Calls : got'[d] \in Answers => Fits(got'[d], d)
      BY <1>5, <2>1 DEF Inv, Keyed
    <2>3. \A a : \A d : Fits(a, d)' <=> Fits(a, d)
      BY <1>1 DEF Fits, Mat
    <2>4. QED
      BY <1>1, <2>2, <2>3 DEF Inv, Keyed
  <1>12. Fresh'
    <2>1. \A k \in Keys : asking[k] # None => Open(asking[k])'
      BY <1>1, <1>5, ReturnFacts DEF Inv, Fresh, Open
    <2>2. \A d, h \in Calls : st[d] # None /\ st[h] = st[d] => Newer(h, d)'
      BY <1>1, <1>5, ReturnFacts DEF Inv, Fresh, Newer
    <2>3. QED
      BY <1>1, <2>1, <2>2 DEF Inv, Fresh, Replied
  <1>13. OneHolder'
    BY <1>1, <1>2, <1>3, <1>4, <1>5, <1>6, <1>7 DEF Inv, Held, OneHolder, Shape
  <1>14. SomeHolder'
    BY <1>1, <1>2, <1>3, <1>4, <1>5, <1>6, <1>7 DEF Inv, Held, SomeHolder, Holder, Shape
  <1>15. Line'
    BY <1>1, <1>2, <1>4, <1>6, InLineAreCalls DEF Inv, Held, Line, InLine
  <1>16. Stands'
    BY <1>1, <1>2, <1>3, <1>4, <1>5, <1>6 DEF Inv, Stands, Shape
  <1>17. Ran'
    BY <1>1, <1>2, <1>3, <1>4, <1>5, <1>6 DEF Inv, Ran, Shape
  <1>18. QED
    BY <1>8, <1>9, <1>10, <1>11, <1>12, <1>13, <1>14, <1>15, <1>16, <1>17 DEF Inv, Held

\* A cancelled joiner leaves the line (removeChan): who is behind it moves up.
LEMMA LeavesTheLine ==
    ASSUME NEW c \in Calls, InLine(c, st[c]), Inv, GiveUp(c), UNCHANGED <<key, mode>>
    PROVE  Inv'
  <1>1. UNCHANGED <<key, mode, st, asking, done, promoted, pending, standing, chan, abandoned,
                    prior, conn>>
    BY DEF GiveUp, Go, share, question, outside
  <1>2. st[c] \in Calls /\ st[c] # None
    <2>1. at[c] = "wait"
      BY DEF GiveUp
    <2>2. QED
      BY <2>1, OnAQuestion DEF Inv, Early, Ended
  <1>3. queue[st[c]] \in Seq(Calls) /\ DOMAIN queue[st[c]] = 1..Len(queue[st[c]])
    BY <1>2 DEF Inv, Shape
  <1>4. /\ at[c] = "wait" /\ at' = [d \in Calls |-> at'[d]] /\ at'[c] = "answered"
        /\ \A d \in Calls : d # c => at'[d] = at[d]
    BY <1>3 DEF Inv, Shape, GiveUp, InLine, Go
  <1>5. /\ got'[c] = Cut
        /\ \A d \in Calls : d # c => got'[d] = got[d]
        /\ got' \in [Calls -> Returns]
    BY ReturnFacts DEF Inv, Shape, GiveUp
  <1>6. PICK i \in 1..Len(queue[st[c]]) :
              queue[st[c]][i] = c /\ queue' = [queue EXCEPT ![st[c]] = Without(queue[st[c]], i)]
    BY <1>3 DEF InLine, GiveUp
  <1>7. /\ queue' \in [Calls -> Seq(Calls)]
        /\ queue'[st[c]] = Without(queue[st[c]], i)
        /\ \A s \in Calls : s # st[c] => queue'[s] = queue[s]
    BY <1>2, <1>3, <1>6, WithoutFacts DEF Inv, Shape
  <1>8. c \notin promoted
    BY <1>2, <1>4, <1>6 DEF Inv, Held, OneHolder, Line, Holds
  <1>9. /\ Len(queue'[st[c]]) = Len(queue[st[c]]) - 1
        /\ \A j \in 1..Len(queue'[st[c]]) :
              queue'[st[c]][j] = IF j < i THEN queue[st[c]][j] ELSE queue[st[c]][j + 1]
    <2>1. PICK q \in Seq(Calls) : q = queue[st[c]]
      BY <1>3
    <2>2. i \in 1..Len(q) /\ queue'[st[c]] = Without(q, i)
      BY <1>6, <1>7, <2>1
    <2>3. /\ Len(Without(q, i)) = Len(q) - 1
          /\ \A j \in 1..(Len(q) - 1) : Without(q, i)[j] = IF j < i THEN q[j] ELSE q[j + 1]
      BY <2>2, WithoutFacts
    <2>4. QED
      BY <2>1, <2>2, <2>3
  <1>10. \A d \in Calls : Holds(d)' <=> Holds(d)
    <2>1. Holds(c)' <=> Holds(c)
      BY <1>1, <1>2, <1>3, <1>4, <1>5, <1>6, <1>7, <1>8, <1>9 DEF Holds
    <2>2. \A d \in Calls : d # c => (Holds(d)' <=> Holds(d))
      BY <1>1, <1>2, <1>3, <1>4, <1>5, <1>6, <1>7, <1>8, <1>9 DEF Holds
    <2>3. QED
      BY <2>1, <2>2
  <1>11. Shape'
    BY <1>1, <1>4, <1>5, <1>7 DEF Inv, Shape
  <1>12. Begun'
    BY <1>1, <1>2, <1>4, <1>5, ErrorFacts DEF Inv, Begun, Early, Ended
  <1>13. Sent'
    BY <1>1, <1>2, <1>3, <1>4, <1>5, <1>6, <1>7, <1>8, <1>9 DEF Inv, Sent, Early, Shape
  <1>14. Keyed'
    <2>1. got'[c] \in Answers => Fits(got'[c], c)
      BY <1>5, ReturnFacts DEF Inv, Keyed
    <2>2. \A d \in Calls : got'[d] \in Answers => Fits(got'[d], d)
      BY <1>5, <2>1 DEF Inv, Keyed
    <2>3. \A a : \A d : Fits(a, d)' <=> Fits(a, d)
      BY <1>1 DEF Fits, Mat
    <2>4. QED
      BY <1>1, <2>2, <2>3 DEF Inv, Keyed
  <1>15. Fresh'
    <2>1. \A k \in Keys : asking[k] # None => Open(asking[k])'
      BY <1>1, <1>5, ReturnFacts DEF Inv, Fresh, Open
    <2>2. \A d, h \in Calls : st[d] # None /\ st[h] = st[d] => Newer(h, d)'
      BY <1>1, <1>5, ReturnFacts DEF Inv, Fresh, Newer
    <2>3. QED
      BY <1>1, <2>1, <2>2 DEF Inv, Fresh, Replied
  <1>16. OneHolder'
    BY <1>1, <1>2, <1>3, <1>4, <1>5, <1>6, <1>7, <1>8, <1>9, <1>10 DEF Inv, Held, OneHolder, Shape
  <1>17. SomeHolder'
    BY ZenonT(40), <1>1, <1>2, <1>3, <1>4, <1>5, <1>6, <1>7, <1>8, <1>9, <1>10
    DEF Inv, Held, SomeHolder, Holder, Shape
  <1>18. Line'
    <2>1. ASSUME NEW d \in Calls, at'[d] = "wait", d \notin promoted
          PROVE  InLine(d, st[d])'
      <3>1. at[d] = "wait" /\ d # c /\ InLine(d, st[d])
        BY <1>4, <2>1 DEF Inv, Held, Line
      <3>2. PICK k \in 1..Len(queue[st[d]]) : queue[st[d]][k] = d
        BY <3>1 DEF InLine
      <3>3. st[d] \in Calls
        BY <3>1, OnAQuestion DEF Inv, Early, Ended
      <3>4. CASE st[d] # st[c]
        BY <1>1, <1>7, <3>2, <3>3, <3>4 DEF InLine
      <3>5. CASE st[d] = st[c]
        <4>1. k # i
          BY <1>6, <3>1, <3>2, <3>5
        <4>2. \E j \in 1..Len(queue'[st[c]]) : queue'[st[c]][j] = d
          <5>1. CASE k < i
            <6>1. k \in 1..Len(queue'[st[c]]) /\ queue'[st[c]][k] = d
              BY <1>3, <1>6, <1>9, <3>2, <3>5, <5>1
            <6>2. QED
              BY <6>1
          <5>2. CASE k > i
            <6>1. k - 1 \in 1..Len(queue'[st[c]]) /\ queue'[st[c]][k - 1] = d
              BY <1>3, <1>6, <1>9, <3>2, <3>5, <5>2
            <6>2. QED
              BY <6>1
          <5>3. QED
            BY <4>1, <5>1, <5>2
        <4>3. QED
          BY <1>1, <3>5, <4>2 DEF InLine
      <3>6. QED
        BY <3>4, <3>5
    <2>2. ASSUME NEW s \in Calls, done[s] = Nothing, NEW j \in 1..Len(queue'[s])
          PROVE  /\ at'[queue'[s][j]] = "wait" /\ st[queue'[s][j]] = s
                 /\ queue'[s][j] \notin promoted
                 /\ \A k \in 1..Len(queue'[s]) : queue'[s][j] = queue'[s][k] => j = k
      <3>1. CASE s # st[c]
        <4>1. queue'[s] = queue[s]
          BY <1>7, <3>1
        <4>2. /\ at[queue[s][j]] = "wait" /\ st[queue[s][j]] = s /\ queue[s][j] \notin promoted
              /\ \A k \in 1..Len(queue[s]) : queue[s][j] = queue[s][k] => j = k
          BY <2>2, <4>1 DEF Inv, Held, Line
        <4>3. queue[s][j] \in Calls /\ queue[s][j] # c
          BY <3>1, <4>1, <4>2, InLineAreCalls DEF Inv
        <4>4. QED
          BY <1>4, <4>1, <4>2, <4>3
      <3>2. CASE s = st[c]
        <4> DEFINE to(m) == IF m < i THEN m ELSE m + 1
        <4>1. \A m \in 1..Len(queue'[s]) : /\ to(m) \in 1..Len(queue[s]) /\ to(m) # i
                                           /\ queue'[s][m] = queue[s][to(m)]
          BY <1>3, <1>6, <1>9, <3>2
        <4>2. \A m, n \in 1..Len(queue'[s]) : to(m) = to(n) => m = n
          BY <1>3, <1>6, <1>9, <3>2
        <4> HIDE DEF to
        <4>3. \A m, n \in 1..Len(queue[s]) : queue[s][m] = queue[s][n] => m = n
          BY <2>2 DEF Inv, Held, Line
        <4>4. queue'[s][j] # c
          BY <1>6, <3>2, <4>1, <4>3
        <4>5. queue'[s][j] \in Calls
          BY <4>1, InLineAreCalls DEF Inv
        <4>6. at[queue'[s][j]] = "wait" /\ st[queue'[s][j]] = s /\ queue'[s][j] \notin promoted
          BY <2>2, <4>1 DEF Inv, Held, Line
        <4>7. \A k \in 1..Len(queue'[s]) : queue'[s][j] = queue'[s][k] => j = k
          BY <4>1, <4>2, <4>3
        <4>8. QED
          BY <1>4, <4>4, <4>5, <4>6, <4>7
      <3>3. QED
        BY <3>1, <3>2
    <2>3. QED
      BY <1>1, <2>1, <2>2 DEF Line
  <1>19. Stands'
    BY <1>1, <1>2, <1>3, <1>4, <1>5, <1>6, <1>7, <1>8, <1>9 DEF Inv, Stands, Shape
  <1>20. Ran'
    BY <1>1, <1>2, <1>3, <1>4, <1>5, <1>6, <1>7, <1>8, <1>9 DEF Inv, Ran, Shape
  <1>21. QED
    BY <1>11, <1>12, <1>13, <1>14, <1>15, <1>16, <1>17, <1>18, <1>19, <1>20 DEF Inv, Held

\* The question is put to the askers (stand).
LEMMA StandsUp ==
    ASSUME NEW c \in Calls, askers # {}, Inv, Stand(c), UNCHANGED <<key, mode>>
    PROVE  Inv'
  <1>1. UNCHANGED <<key, mode, st, got, asking, queue, done, promoted, pending, chan,
                    abandoned, prior, conn>>
    BY DEF Stand, Go, share, question, outside
  <1>2. /\ at[c] = "publish" /\ at' = [d \in Calls |-> at'[d]] /\ at'[c] = "select"
        /\ \A d \in Calls : d # c => at'[d] = at[d]
        /\ standing' = standing \cup {c}
    BY DEF Inv, Shape, Stand, Go
  <1>3. \A d \in Calls : Holds(d)' <=> Holds(d)
    <2>1. Holds(c)' <=> Holds(c)
      BY <1>1, <1>2 DEF Holds
    <2>2. \A d \in Calls : d # c => (Holds(d)' <=> Holds(d))
      BY <1>1, <1>2 DEF Holds
    <2>3. QED
      BY <2>1, <2>2
  <1>4. Shape'
    BY <1>1, <1>2 DEF Inv, Shape
  <1>5. Begun'
    BY <1>1, <1>2 DEF Inv, Begun, Early, Ended
  <1>6. Sent'
    BY <1>1, <1>2 DEF Inv, Sent, Early, Shape
  <1>7. Keyed'
    BY <1>1 DEF Inv, Keyed, Fits, Mat, Shape
  <1>8. Fresh'
    BY <1>1 DEF Inv, Fresh, Open, Newer, Replied, Shape
  <1>9. OneHolder'
    BY <1>1, <1>2, <1>3 DEF Inv, Held, OneHolder, Shape
  <1>10. SomeHolder'
    BY <1>1, <1>2, <1>3 DEF Inv, Held, SomeHolder, Holder, Shape
  <1>11. Line'
    <2>1. \A d \in Calls : at'[d] = "wait" <=> at[d] = "wait"
      BY <1>1, <1>2
    <2>2. QED
      BY <1>1, <2>1, InLineAreCalls DEF Inv, Held, Line, InLine
  <1>12. Stands'
    <2>1. \E a \in Conns : conn[a] # "off"
      BY DEF askers
    <2>2. QED
      BY <1>1, <1>2, <2>1 DEF Inv, Stands
  <1>13. Ran'
    BY <1>1, <1>2 DEF Inv, Ran, Shape
  <1>14. QED
    BY <1>4, <1>5, <1>6, <1>7, <1>8, <1>9, <1>10, <1>11, <1>12, <1>13 DEF Inv, Held

\* With nobody attached the holder gets errNoAsker (stand, forget).
LEMMA NobodyToAsk ==
    ASSUME NEW c \in Calls, askers = {}, Inv, Stand(c), UNCHANGED <<key, mode>>
    PROVE  Inv'
  <1>1. UNCHANGED <<key, mode, st, asking, queue, done, promoted, standing, chan, abandoned,
                    prior, conn>>
    BY DEF Stand, Go, share, question, outside
  <1>2. st[c] \in Calls /\ st[c] # None
    <2>1. at[c] = "publish"
      BY DEF Stand
    <2>2. QED
      BY <2>1, OnAQuestion DEF Inv, Early, Ended
  <1>3. /\ at[c] = "publish" /\ at' = [d \in Calls |-> at'[d]] /\ at'[c] = "retire"
        /\ \A d \in Calls : d # c => at'[d] = at[d]
        /\ pending' = pending \ {c}
    BY DEF Inv, Shape, Stand, Go
  <1>4. /\ got'[c] = NoAsker
        /\ \A d \in Calls : d # c => got'[d] = got[d]
        /\ got' \in [Calls -> Returns]
    BY ReturnFacts DEF Inv, Shape, Stand
  <1>5. \A d \in Calls : Holds(d)' <=> Holds(d)
    <2>1. Holds(c)' <=> Holds(c)
      BY <1>1, <1>2, <1>3, <1>4 DEF Holds
    <2>2. \A d \in Calls : d # c => (Holds(d)' <=> Holds(d))
      BY <1>1, <1>2, <1>3, <1>4 DEF Holds
    <2>3. QED
      BY <2>1, <2>2
  <1>6. Shape'
    BY <1>1, <1>2, <1>3, <1>4 DEF Inv, Shape
  <1>7. Begun'
    BY <1>1, <1>2, <1>3, <1>4, ErrorFacts DEF Inv, Begun, Early, Ended
  <1>8. Sent'
    BY <1>1, <1>2, <1>3, <1>4 DEF Inv, Sent, Early, Shape
  <1>9. Keyed'
    <2>1. got'[c] \in Answers => Fits(got'[c], c)
      BY <1>4, ReturnFacts DEF Inv, Keyed
    <2>2. \A d \in Calls : got'[d] \in Answers => Fits(got'[d], d)
      BY <1>4, <2>1 DEF Inv, Keyed
    <2>3. \A a : \A d : Fits(a, d)' <=> Fits(a, d)
      BY <1>1 DEF Fits, Mat
    <2>4. QED
      BY <1>1, <2>2, <2>3 DEF Inv, Keyed
  <1>10. Fresh'
    <2>1. \A k \in Keys : asking[k] # None => Open(asking[k])'
      BY <1>1, <1>4, ReturnFacts DEF Inv, Fresh, Open
    <2>2. \A d, h \in Calls : st[d] # None /\ st[h] = st[d] => Newer(h, d)'
      BY <1>1, <1>4, ReturnFacts DEF Inv, Fresh, Newer
    <2>3. QED
      BY <1>1, <2>1, <2>2 DEF Inv, Fresh, Replied
  <1>11. OneHolder'
    BY <1>1, <1>2, <1>3, <1>4, <1>5 DEF Inv, Held, OneHolder, Shape
  <1>12. SomeHolder'
    BY <1>1, <1>2, <1>3, <1>4, <1>5 DEF Inv, Held, SomeHolder, Holder, Shape
  <1>13. Line'
    <2>1. \A d \in Calls : at'[d] = "wait" <=> at[d] = "wait"
      BY <1>1, <1>2, <1>3, <1>4
    <2>2. QED
      BY <1>1, <2>1, InLineAreCalls DEF Inv, Held, Line, InLine
  <1>14. Stands'
    BY <1>1, <1>2, <1>3, <1>4 DEF Inv, Stands, Shape
  <1>15. Ran'
    BY <1>1, <1>2, <1>3, <1>4 DEF Inv, Ran, Shape
  <1>16. QED
    BY <1>6, <1>7, <1>8, <1>9, <1>10, <1>11, <1>12, <1>13, <1>14, <1>15 DEF Inv, Held

\* The holder hears an answer, the askers' leaving or its own cancellation.
LEMMA Selects ==
    ASSUME NEW c \in Calls, Inv, Select(c), UNCHANGED <<key, mode>>
    PROVE  Inv'
  <1>1. UNCHANGED <<key, mode, st, asking, queue, done, promoted, chan, prior, conn>>
    BY DEF Select, Go, share, question, outside
  <1>2. st[c] \in Calls /\ st[c] # None
    <2>1. at[c] = "select"
      BY DEF Select
    <2>2. QED
      BY <2>1, OnAQuestion DEF Inv, Early, Ended
  <1>3. /\ at[c] = "select" /\ at' = [d \in Calls |-> at'[d]] /\ at'[c] \in {"retire", "leave"}
        /\ \A d \in Calls : d # c => at'[d] = at[d]
        /\ pending' = pending \ {c}
        /\ standing' = standing \ {c}
        /\ abandoned' = abandoned \ {c}
    BY DEF Inv, Shape, Select, Go
  <1>4. /\ got'[c] = NoAsker \/ got'[c] = Cut \/ (got'[c] = chan[c] /\ chan[c] # Nothing)
        /\ \A d \in Calls : d # c => got'[d] = got[d]
        /\ got' = [d \in Calls |-> got'[d]]
    BY DEF Inv, Shape, Select
  <1>5. got' \in [Calls -> Returns] /\ got'[c] # Nothing
    BY <1>4, ReturnFacts, ErrorFacts DEF Inv, Shape
  <1>6. \A d \in Calls : Holds(d)' <=> Holds(d)
    <2>1. Holds(c)' <=> Holds(c)
      BY <1>1, <1>2, <1>3, <1>4, <1>5 DEF Holds
    <2>2. \A d \in Calls : d # c => (Holds(d)' <=> Holds(d))
      BY <1>1, <1>2, <1>3, <1>4, <1>5 DEF Holds
    <2>3. QED
      BY <2>1, <2>2
  <1>7. Shape'
    BY <1>1, <1>2, <1>3, <1>4, <1>5 DEF Inv, Shape
  <1>8. Begun'
    BY <1>1, <1>2, <1>3, <1>4, <1>5 DEF Inv, Begun, Early, Ended
  <1>9. Sent'
    BY <1>1, <1>2, <1>3, <1>4, <1>5 DEF Inv, Sent, Early, Shape
  <1>10. Keyed'
    <2>1. got'[c] \in Answers => Fits(got'[c], c)
      BY <1>4, ReturnFacts DEF Inv, Keyed
    <2>2. \A d \in Calls : got'[d] \in Answers => Fits(got'[d], d)
      BY <1>4, <2>1 DEF Inv, Keyed
    <2>3. \A a : \A d : Fits(a, d)' <=> Fits(a, d)
      BY <1>1 DEF Fits, Mat
    <2>4. QED
      BY <1>1, <2>2, <2>3 DEF Inv, Keyed
  <1>11. Fresh'
    <2>1. \A k \in Keys : asking[k] # None => Open(asking[k])'
      BY <1>1, <1>4, ReturnFacts DEF Inv, Fresh, Open
    <2>2. \A d, h \in Calls : st[d] # None /\ st[h] = st[d] => Newer(h, d)'
      BY <1>1, <1>4, ReturnFacts DEF Inv, Fresh, Newer
    <2>3. QED
      BY <1>1, <2>1, <2>2 DEF Inv, Fresh, Replied
  <1>12. OneHolder'
    BY <1>1, <1>2, <1>3, <1>4, <1>5, <1>6 DEF Inv, Held, OneHolder, Shape
  <1>13. SomeHolder'
    BY <1>1, <1>2, <1>3, <1>4, <1>5, <1>6 DEF Inv, Held, SomeHolder, Holder, Shape
  <1>14. Line'
    <2>1. \A d \in Calls : at'[d] = "wait" <=> at[d] = "wait"
      BY <1>1, <1>2, <1>3, <1>4, <1>5
    <2>2. QED
      BY <1>1, <2>1, InLineAreCalls DEF Inv, Held, Line, InLine
  <1>15. Stands'
    BY <1>1, <1>2, <1>3, <1>4, <1>5 DEF Inv, Stands, Shape
  <1>16. Ran'
    BY <1>1, <1>2, <1>3, <1>4, <1>5 DEF Inv, Ran, Shape
  <1>17. QED
    BY <1>7, <1>8, <1>9, <1>10, <1>11, <1>12, <1>13, <1>14, <1>15, <1>16 DEF Inv, Held

\* The question is retired, by a holder with an answer or by the last one to leave.
LEMMA RetiresIt ==
    ASSUME NEW c \in Calls, Inv, Retire(c) \/ (Leave(c)
       /\ queue[st[c]] = <<>>), UNCHANGED <<key, mode>>
    PROVE  Inv'
  <1>1. UNCHANGED <<key, mode, st, got, queue, promoted, pending, standing, chan, abandoned,
                    prior, conn>>
    BY DEF Retire, Leave, Go, share, question, outside
  <1>2. st[c] \in Calls /\ st[c] # None
    <2>1. at[c] \in {"retire", "leave"}
      BY DEF Retire, Leave
    <2>2. QED
      BY <2>1, OnAQuestion DEF Inv, Early, Ended
  <1>3. /\ at[c] \in {"retire", "leave"} /\ at' = [d \in Calls |-> at'[d]] /\ at'[c] = "answered"
        /\ \A d \in Calls : d # c => at'[d] = at[d]
    BY DEF Inv, Shape, Retire, Leave, Go
  <1>4. got[c] # Nothing /\ got[c] \in Returns
    BY <1>3 DEF Inv, Begun, Shape
  <1>5. /\ done' \in [Calls -> Returns]
        /\ done'[st[c]] = got[c]
        /\ \A s \in Calls : s # st[c] => done'[s] = done[s]
    BY <1>2, <1>4 DEF Inv, Shape, Retire, Leave
  <1>6. asking' = Retired(c)
    BY DEF Retire, Leave
  <1>7. key[st[c]] = key[c] /\ key[c] \in Keys
    BY <1>2 DEF Inv, Keyed, Shape
  <1>8. /\ asking' \in [Keys -> Calls \cup {None}]
        /\ \A k \in Keys : asking'[k] # None => asking'[k] = asking[k] /\ asking[k] # st[c]
    BY <1>6, <1>7 DEF Inv, Shape, Keyed, Retired
  <1>9. \A d \in Calls : /\ st[d] = st[c] => ~Holds(d)'
                         /\ d # c => (Holds(d)' <=> Holds(d))
    <2>1. Holds(c) /\ ~Holds(c)'
      BY <1>3 DEF Holds
    <2>2. \A d \in Calls : d # c => (Holds(d)' <=> Holds(d))
      BY <1>1, <1>3 DEF Holds
    <2>3. QED
      BY <1>2, <2>1, <2>2 DEF Inv, Held, OneHolder
  <1>10. Shape'
    BY <1>1, <1>3, <1>5, <1>8 DEF Inv, Shape
  <1>11. Begun'
    <2>1. \A d \in Calls : at'[d] \in Early => at[d] \in Early /\ d # st[c]
      BY <1>2, <1>3 DEF Inv, Begun, Early
    <2>2. \A d \in Calls : at'[d] \in Early => done'[d] = Nothing
      BY <1>5, <2>1 DEF Inv, Begun
    <2>3. \A d \in Calls : at'[d] \in Early => \A k \in Keys : asking'[k] # d
      BY <1>8, <2>1, PermissionAskAssumption DEF Inv, Begun
    <2>4. \A d \in Calls : st[d] = None => at'[d] = at[d]
      BY <1>2, <1>3
    <2>5. \A d \in Calls : at'[d] \in {"retire", "leave"} => at[d] = at'[d]
      BY <1>3
    <2>6. QED
      BY <1>1, <2>1, <2>2, <2>3, <2>4, <2>5 DEF Inv, Begun
  <1>12. Sent'
    BY <1>1, <1>2, <1>3, <1>4, <1>5, <1>6, <1>7, <1>8 DEF Inv, Sent, Early, Shape
  <1>13. Keyed'
    <2>1. done'[st[c]] \in Answers => Fits(done'[st[c]], st[c])
      BY <1>5, <1>7 DEF Inv, Keyed, Fits, Mat
    <2>2. \A d \in Calls : done'[d] \in Answers => Fits(done'[d], d)
      BY <1>5, <2>1 DEF Inv, Keyed
    <2>3. \A a : \A d : Fits(a, d)' <=> Fits(a, d)
      BY <1>1 DEF Fits, Mat
    <2>4. \A k \in Keys : asking'[k] # None => key[asking'[k]] = k
      BY <1>8 DEF Inv, Keyed
    <2>5. QED
      BY <1>1, <2>2, <2>3, <2>4 DEF Inv, Keyed
  <1>14. Fresh'
    <2>1. \A k \in Keys : asking'[k] # None => Open(asking'[k])
      BY <1>8 DEF Inv, Fresh
    <2>2. \A k \in Keys : asking'[k] # None => Open(asking[k])'
      BY <1>1, <1>5, <1>8, <2>1 DEF Inv, Shape, Open
    <2>3. \A d \in Calls : st[d] # None /\ done'[st[d]] \in Answers
             => done'[st[d]].of \notin prior[d]
      BY <1>2, <1>5 DEF Inv, Fresh, Newer, Shape
    <2>4. QED
      BY <1>1, <1>8, <2>2, <2>3 DEF Inv, Fresh, Newer, Replied, Open
  <1>15. OneHolder'
    <2>1. \A d \in Calls : Holds(d)' => Holds(d) /\ st[d] # st[c]
      BY <1>3, <1>9
    <2>2. \A d \in Calls : st[d] # None => st[d] \in Calls
      BY DEF Inv, Shape
    <2>3. QED
      BY <1>1, <1>5, <2>1, <2>2 DEF Inv, Held, OneHolder
  <1>16. SomeHolder'
    <2>1. \A s \in Calls : s # st[c] /\ Holder(s) => Holder(s)'
      <3>1. SUFFICES ASSUME NEW s \in Calls, s # st[c], NEW h \in Calls, st[h] = s, Holds(h)
                     PROVE  Holds(h)'
        BY <1>1 DEF Holder
      <3>2. QED
        BY <1>9, <3>1
    <2>2. \A k \in Keys : asking'[k] # None => Holder(asking[k])'
      BY <1>8, <2>1 DEF Inv, Held, SomeHolder, Shape
    <2>3. \A d \in Calls : at'[d] = "wait" /\ done'[st[d]] = Nothing => Holder(st[d])'
      <3>1. \A d \in Calls : at'[d] = "wait" => at[d] = "wait" /\ st[d] \in Calls
        BY <1>3, OnAQuestion DEF Inv, Early, Ended
      <3>2. QED
        <4>1. SUFFICES ASSUME NEW d \in Calls, at'[d] = "wait", done'[st[d]] = Nothing
                       PROVE  Holder(st[d])'
          OBVIOUS
        <4>2. st[d] # st[c] /\ done[st[d]] = Nothing /\ st[d] \in Calls
          BY <1>4, <1>5, <3>1, <4>1
        <4>3. Holder(st[d])
          BY <3>1, <4>1, <4>2 DEF Inv, Held, SomeHolder
        <4>4. QED
          BY <1>1, <2>1, <4>2, <4>3
    <2>4. QED
      BY <1>1, <1>8, <2>2, <2>3 DEF SomeHolder, Holder
  <1>17. Line'
    <2>1. \A d \in Calls : at'[d] = "wait" <=> at[d] = "wait"
      BY <1>3
    <2>2. \A s \in Calls : done'[s] = Nothing => done[s] = Nothing
      BY <1>4, <1>5
    <2>3. QED
      BY SMTT(30), <1>1, <2>1, <2>2, InLineAreCalls DEF Inv, Held, Line, InLine
  <1>18. Stands'
    BY <1>1, <1>2, <1>3, <1>4, <1>5, <1>6, <1>7, <1>8 DEF Inv, Stands, Shape
  <1>19. Ran'
    BY <1>1, <1>2, <1>3, <1>4, <1>5, <1>6, <1>7, <1>8 DEF Inv, Ran, Shape
  <1>20. QED
    BY <1>10, <1>11, <1>12, <1>13, <1>14, <1>15, <1>16, <1>17, <1>18, <1>19 DEF Inv, Held

\* A holder that leaves hands the question to the next in line (leave).
LEMMA PassesItOn ==
    ASSUME NEW c \in Calls, queue[st[c]] # <<>>, Inv, Leave(c), UNCHANGED <<key, mode>>
    PROVE  Inv'
  <1>1. UNCHANGED <<key, mode, st, got, asking, done, pending, standing, chan, abandoned,
                    prior, conn>>
    BY DEF Leave, Go, share, question, outside
  <1>2. st[c] \in Calls /\ st[c] # None
    <2>1. at[c] = "leave"
      BY DEF Leave
    <2>2. QED
      BY <2>1, OnAQuestion DEF Inv, Early, Ended
  <1>3. /\ at[c] = "leave" /\ at' = [d \in Calls |-> at'[d]] /\ at'[c] = "answered"
        /\ \A d \in Calls : d # c => at'[d] = at[d]
    BY DEF Inv, Shape, Leave, Go
  <1>4. done[st[c]] = Nothing
    BY <1>2, <1>3 DEF Inv, Held, OneHolder, Holds
  <1>5. PICK q \in Seq(Calls) : q = queue[st[c]] /\ q # <<>>
    BY <1>2 DEF Inv, Shape
  <1>6. /\ Len(q) \in Nat /\ Len(q) > 0 /\ Head(q) = q[1] /\ Tail(q) \in Seq(Calls)
        /\ Len(Tail(q)) = Len(q) - 1
        /\ \A j \in 1..(Len(q) - 1) : Tail(q)[j] = q[j + 1]
    BY <1>5
  <1>7. PICK e \in Calls : e = q[1] /\ e = Head(q)
    BY <1>5, <1>6
  <1>8. /\ at[e] = "wait" /\ st[e] = st[c] /\ e \notin promoted
        /\ \A i, j \in 1..Len(q) : q[i] = q[j] => i = j
        /\ \A i \in 1..Len(q) : at[q[i]] = "wait" /\ st[q[i]] = st[c] /\ q[i] \notin promoted
    BY <1>2, <1>4, <1>5, <1>6, <1>7 DEF Inv, Held, Line
  <1>9. /\ promoted' = promoted \cup {e}
        /\ queue' \in [Calls -> Seq(Calls)] /\ queue'[st[c]] = Tail(q)
        /\ \A s \in Calls : s # st[c] => queue'[s] = queue[s]
    BY <1>2, <1>5, <1>6, <1>7 DEF Inv, Shape, Leave
  <1>10. /\ Holds(e)' /\ ~Holds(c)' /\ Holds(c)
         /\ \A d \in Calls : d # c /\ d # e => (Holds(d)' <=> Holds(d))
    <2>1. Holds(e)'
      BY <1>3, <1>8, <1>9 DEF Holds
    <2>2. ~Holds(c)' /\ Holds(c)
      BY <1>3 DEF Holds
    <2>3. \A d \in Calls : d # c /\ d # e => (Holds(d)' <=> Holds(d))
      BY <1>3, <1>9 DEF Holds
    <2>4. QED
      BY <2>1, <2>2, <2>3
  <1>11. Shape'
    BY <1>1, <1>3, <1>9 DEF Inv, Shape
  <1>12. Begun'
    BY ZenonT(40), <1>1, <1>2, <1>3, <1>8, <1>9 DEF Inv, Begun, Early, Ended
  <1>13. Sent'
    BY <1>1, <1>2, <1>3, <1>4, <1>5, <1>6, <1>7, <1>8, <1>9 DEF Inv, Sent, Early, Shape
  <1>14. Keyed'
    BY <1>1 DEF Inv, Keyed, Fits, Mat, Shape
  <1>15. Fresh'
    BY <1>1 DEF Inv, Fresh, Open, Newer, Replied, Shape
  <1>16. OneHolder'
    <2>1. \A d \in Calls : st[d] = st[c] /\ Holds(d)' => d = e
      BY <1>2, <1>10 DEF Inv, Held, OneHolder
    <2>2. \A d \in Calls : st[d] # st[c] /\ Holds(d)' => Holds(d)
      BY <1>8, <1>10
    <2>3. QED
      BY <1>1, <1>4, <2>1, <2>2 DEF Inv, Held, OneHolder
  <1>17. SomeHolder'
    <2>1. \A s : Holder(s) => Holder(s)'
      <3>1. SUFFICES ASSUME NEW s, NEW h \in Calls, st[h] = s, Holds(h)
                     PROVE  Holder(s)'
        BY DEF Holder
      <3>2. CASE h = c
        BY <1>1, <1>8, <1>10, <3>1, <3>2 DEF Holder
      <3>3. CASE h # c
        BY <1>1, <1>10, <3>1, <3>3 DEF Holder
      <3>4. QED
        BY <3>2, <3>3
    <2>2. QED
      BY <1>1, <1>3, <2>1 DEF Inv, Held, SomeHolder
  <1>18. Line'
    <2>1. ASSUME NEW d \in Calls, at'[d] = "wait", d \notin promoted'
          PROVE  InLine(d, st[d])'
      <3>1. at[d] = "wait" /\ d # e /\ InLine(d, st[d])
        BY <1>3, <1>9, <2>1 DEF Inv, Held, Line
      <3>2. PICK k \in 1..Len(queue[st[d]]) : queue[st[d]][k] = d
        BY <3>1 DEF InLine
      <3>3. st[d] \in Calls
        BY <3>1, OnAQuestion DEF Inv, Early, Ended
      <3>4. CASE st[d] # st[c]
        BY <1>1, <1>9, <3>2, <3>3, <3>4 DEF InLine
      <3>5. CASE st[d] = st[c]
        <4>1. k \in 1..Len(q) /\ q[k] = d /\ k # 1
          BY <1>5, <1>7, <3>1, <3>2, <3>5
        <4>2. k - 1 \in 1..Len(queue'[st[c]]) /\ queue'[st[c]][k - 1] = d
          BY <1>6, <1>9, <4>1
        <4>3. QED
          BY <1>1, <3>5, <4>2 DEF InLine
      <3>6. QED
        BY <3>4, <3>5
    <2>2. ASSUME NEW s \in Calls, done[s] = Nothing, NEW j \in 1..Len(queue'[s])
          PROVE  /\ at'[queue'[s][j]] = "wait" /\ st[queue'[s][j]] = s
                 /\ queue'[s][j] \notin promoted'
                 /\ \A k \in 1..Len(queue'[s]) : queue'[s][j] = queue'[s][k] => j = k
      <3>1. CASE s # st[c]
        <4>1. queue'[s] = queue[s]
          BY <1>9, <3>1
        <4>2. /\ at[queue[s][j]] = "wait" /\ st[queue[s][j]] = s /\ queue[s][j] \notin promoted
              /\ \A k \in 1..Len(queue[s]) : queue[s][j] = queue[s][k] => j = k
          BY <2>2, <4>1 DEF Inv, Held, Line
        <4>3. queue[s][j] \in Calls /\ queue[s][j] # c /\ queue[s][j] # e
          BY <1>8, <3>1, <4>1, <4>2, InLineAreCalls DEF Inv
        <4>4. QED
          BY <1>3, <1>9, <4>1, <4>2, <4>3
      <3>2. CASE s = st[c]
        <4>1. queue'[s] = Tail(q) /\ Len(queue'[s]) = Len(q) - 1
          BY <1>6, <1>9, <3>2
        <4>2. \A m \in 1..Len(queue'[s]) : /\ m + 1 \in 1..Len(q) /\ m + 1 # 1
                                           /\ queue'[s][m] = q[m + 1]
          <5>1. SUFFICES ASSUME NEW m \in 1..Len(queue'[s])
                         PROVE  m + 1 \in 1..Len(q) /\ m + 1 # 1 /\ queue'[s][m] = q[m + 1]
            OBVIOUS
          <5>2. m \in 1..(Len(q) - 1)
            BY <4>1, <5>1
          <5>3. QED
            BY <1>6, <4>1, <5>2
        <4>3. queue'[s][j] # e /\ queue'[s][j] \in Calls
          BY <1>5, <1>6, <1>7, <1>8, <4>2
        <4>4. at[queue'[s][j]] = "wait" /\ st[queue'[s][j]] = s /\ queue'[s][j] \notin promoted
          BY <1>8, <3>2, <4>2
        <4>5. \A k \in 1..Len(queue'[s]) : queue'[s][j] = queue'[s][k] => j = k
          <5>1. SUFFICES ASSUME NEW k \in 1..Len(queue'[s]), queue'[s][j] = queue'[s][k]
                         PROVE  j = k
            OBVIOUS
          <5>2. j + 1 = k + 1
            BY <1>8, <4>2, <5>1
          <5>3. QED
            BY <1>6, <1>9, <3>2, <5>2
        <4>6. at'[queue'[s][j]] = "wait"
          BY <1>3, <4>3, <4>4
        <4>7. QED
          BY <1>9, <4>3, <4>4, <4>5, <4>6
      <3>3. QED
        BY <3>1, <3>2
    <2>3. QED
      BY <1>1, <2>1, <2>2 DEF Line
  <1>19. Stands'
    BY <1>1, <1>2, <1>3, <1>4, <1>5, <1>6, <1>7, <1>8, <1>9 DEF Inv, Stands, Shape
  <1>20. Ran'
    BY <1>1, <1>2, <1>3, <1>4, <1>5, <1>6, <1>7, <1>8, <1>9 DEF Inv, Ran, Shape
  <1>21. QED
    BY <1>11, <1>12, <1>13, <1>14, <1>15, <1>16, <1>17, <1>18, <1>19, <1>20 DEF Inv, Held

\* The first call with a key creates its standing question.
LEMMA Creates ==
    ASSUME NEW c \in Calls, asking[key[c]] = None, Inv, Ask(c), UNCHANGED <<key, mode>>
    PROVE  Inv'
  <1>1. UNCHANGED <<key, mode, got, queue, done, promoted, pending, standing, chan, abandoned,
                    conn>>
    BY DEF Ask, Go, share, question, outside
  <1>2. /\ at[c] = "ask" /\ st[c] = None /\ got[c] = Nothing /\ done[c] = Nothing
        /\ c \notin promoted /\ chan[c] = Nothing
        /\ \A h \in Calls : st[h] # c
        /\ \A k \in Keys : asking[k] # c
    BY DEF Inv, Begun, Sent, Early, Ask
  <1>3. /\ at[c] = "ask" /\ at' = [d \in Calls |-> at'[d]] /\ at'[c] = "raise"
        /\ \A d \in Calls : d # c => at'[d] = at[d]
    BY DEF Inv, Shape, Ask, Go
  <1>4. /\ st' \in [Calls -> Calls \cup {None}] /\ st'[c] = c
        /\ \A d \in Calls : d # c => st'[d] = st[d]
    BY DEF Inv, Shape, Ask
  <1>5. key[c] \in Keys /\ c # None
    BY PermissionAskAssumption DEF Inv, Shape
  <1>6. /\ asking' \in [Keys -> Calls \cup {None}] /\ asking'[key[c]] = c
        /\ \A k \in Keys : k # key[c] => asking'[k] = asking[k]
    <2>1. asking \in [Keys -> Calls \cup {None}]
      BY DEF Inv, Shape
    <2>2. asking' = [asking EXCEPT ![key[c]] = c]
      BY DEF Ask
    <2>3. QED
      BY <1>5, <2>1, <2>2
  <1>7. /\ prior' = [d \in Calls |-> prior'[d]] /\ prior'[c] = Replied
        /\ \A d \in Calls : d # c => prior'[d] = prior[d]
    BY DEF Inv, Shape, Ask
  <1>8. /\ Holds(c)' /\ ~Holds(c)
        /\ \A d \in Calls : d # c => (Holds(d)' <=> Holds(d))
    <2>1. Holds(c)' /\ ~Holds(c)
      BY <1>3 DEF Holds
    <2>2. \A d \in Calls : d # c => (Holds(d)' <=> Holds(d))
      BY <1>1, <1>3 DEF Holds
    <2>3. QED
      BY <2>1, <2>2
  <1>9. Shape'
    BY <1>1, <1>3, <1>4, <1>6, <1>7 DEF Inv, Shape
  <1>10. Begun'
    BY <1>1, <1>2, <1>3, <1>4, <1>5, <1>6 DEF Inv, Begun, Early, Ended
  <1>11. Sent'
    BY <1>1, <1>2, <1>3, <1>4, <1>5, <1>6, <1>7 DEF Inv, Sent, Early, Shape
  <1>12. Keyed'
    <2>1. \A d \in Calls : st'[d] # None => key[st'[d]] = key[d]
      BY <1>4 DEF Inv, Keyed
    <2>2. \A k \in Keys : asking'[k] # None => key[asking'[k]] = k
      BY <1>6 DEF Inv, Keyed
    <2>3. \A a : \A d : Fits(a, d)' <=> Fits(a, d)
      BY <1>1 DEF Fits, Mat
    <2>4. QED
      BY <1>1, <2>1, <2>2, <2>3 DEF Inv, Keyed
  <1>13. Fresh'
    <2>1. \A d \in Calls : prior'[d] \subseteq Replied'
      BY <1>1, <1>7 DEF Inv, Fresh, Replied
    <2>2. \A k \in Keys : asking'[k] # None => Open(asking[k])'
      <3>1. ASSUME NEW s \in Calls, \A h \in Calls : st'[h] = s => chan[h] = Nothing
               /\ got[h] \notin Answers,
                   done[s] = Nothing
            PROVE  Open(s)'
        BY <1>1, <3>1 DEF Open
      <3>2. Open(c)'
        BY <1>2, <1>4, <3>1, ReturnFacts
      <3>3. \A k \in Keys : k # key[c] /\ asking[k] # None => Open(asking[k])'
        <4>1. SUFFICES ASSUME NEW k \in Keys, k # key[c], asking[k] # None
                       PROVE  Open(asking[k])'
          OBVIOUS
        <4>2. PICK s \in Calls : s = asking[k] /\ s # c
          BY <1>2, <4>1 DEF Inv, Shape
        <4>3. Open(s)
          BY <4>1, <4>2 DEF Inv, Fresh
        <4>4. Open(s)'
          BY <1>4, <3>1, <4>2, <4>3 DEF Open
        <4>5. QED
          BY <1>6, <4>1, <4>2, <4>4
      <3>4. QED
        BY <1>5, <1>6, <3>2, <3>3
    <2>3. \A d, h \in Calls : st'[d] # None /\ st'[h] = st'[d] => Newer(h, d)'
      BY <1>1, <1>2, <1>4, <1>7, ReturnFacts DEF Inv, Fresh, Newer
    <2>4. \A d \in Calls : st'[d] # None /\ done[st'[d]] \in Answers
             => done[st'[d]].of \notin prior'[d]
      BY <1>2, <1>4, <1>7, ReturnFacts DEF Inv, Fresh
    <2>5. QED
      BY <1>1, <2>1, <2>2, <2>3, <2>4 DEF Fresh
  <1>14. OneHolder'
    <2>1. \A d \in Calls : d # c => st'[d] # c /\ st'[d] = st[d]
      BY <1>2, <1>4
    <2>2. QED
      BY <1>1, <1>2, <1>4, <1>8, <2>1 DEF Inv, Held, OneHolder
  <1>15. SomeHolder'
    <2>1. \A s : s # None /\ Holder(s) => Holder(s)'
      BY <1>4, <1>8 DEF Holder
    <2>2. Holder(c)'
      BY <1>4, <1>8 DEF Holder
    <2>3. \A k \in Keys : asking'[k] # None => Holder(asking[k])'
      BY <1>6, <2>1, <2>2 DEF Inv, Held, SomeHolder
    <2>4. \A d \in Calls : at'[d] = "wait" /\ done'[st'[d]] = Nothing => Holder(st[d])'
      <3>1. \A d \in Calls : at'[d] = "wait" => at[d] = "wait" /\ st[d] # None /\ st'[d] = st[d]
        BY <1>3, <1>4, OnAQuestion DEF Inv, Early, Ended
      <3>2. QED
        BY <1>1, <2>1, <3>1 DEF Inv, Held, SomeHolder
    <2>5. QED
      BY <2>3, <2>4 DEF SomeHolder
  <1>16. Line'
    <2>1. \A d \in Calls : at'[d] = "wait" <=> at[d] = "wait"
      BY <1>3
    <2>2. \A d \in Calls : at[d] = "wait" => st'[d] = st[d]
      BY <1>3, <1>4
    <2>3. QED
      BY <1>1, <2>1, <2>2, InLineAreCalls DEF Inv, Held, Line, InLine
  <1>17. Stands'
    BY <1>1, <1>2, <1>3, <1>4, <1>5, <1>6, <1>7 DEF Inv, Stands, Shape
  <1>18. Ran'
    BY <1>1, <1>2, <1>3, <1>4, <1>5, <1>6, <1>7 DEF Inv, Ran, Shape
  <1>19. QED
    BY <1>9, <1>10, <1>11, <1>12, <1>13, <1>14, <1>15, <1>16, <1>17, <1>18 DEF Inv, Held

\* A call with a key that is being asked joins the line.
LEMMA Joins ==
    ASSUME NEW c \in Calls, asking[key[c]] # None, Inv, Ask(c), UNCHANGED <<key, mode>>
    PROVE  Inv'
  <1>1. UNCHANGED <<key, mode, got, asking, done, promoted, pending, standing, chan, abandoned,
                    conn>>
    BY DEF Ask, Go, share, question, outside
  <1>2. /\ at[c] = "ask" /\ st[c] = None /\ got[c] = Nothing /\ done[c] = Nothing
        /\ c \notin promoted /\ chan[c] = Nothing
        /\ \A h \in Calls : st[h] # c
        /\ \A k \in Keys : asking[k] # c
    BY DEF Inv, Begun, Sent, Early, Ask
  <1>3. /\ at[c] = "ask" /\ at' = [d \in Calls |-> at'[d]] /\ at'[c] = "wait"
        /\ \A d \in Calls : d # c => at'[d] = at[d]
    BY DEF Inv, Shape, Ask, Go
  <1>4. key[c] \in Keys
    BY DEF Inv, Shape
  <1>5. PICK s \in Calls : s = asking[key[c]] /\ s # None
    BY <1>4 DEF Inv, Shape
  <1>6. /\ Open(s) /\ key[s] = key[c] /\ Holder(s)
    BY <1>4, <1>5 DEF Inv, Fresh, Keyed, Held, SomeHolder
  <1>7. /\ st' \in [Calls -> Calls \cup {None}] /\ st'[c] = s
        /\ \A d \in Calls : d # c => st'[d] = st[d]
    BY <1>5 DEF Inv, Shape, Ask
  <1>8. /\ queue' \in [Calls -> Seq(Calls)] /\ queue'[s] = Append(queue[s], c)
        /\ \A d \in Calls : d # s => queue'[d] = queue[d]
    <2>1. queue' = [queue EXCEPT ![s] = Append(@, c)]
      BY <1>5 DEF Ask
    <2>2. Append(queue[s], c) \in Seq(Calls)
      BY DEF Inv, Shape
    <2>3. QED
      BY <2>1, <2>2 DEF Inv, Shape
  <1>9. /\ prior' = [d \in Calls |-> prior'[d]] /\ prior'[c] = Replied
        /\ \A d \in Calls : d # c => prior'[d] = prior[d]
    BY DEF Inv, Shape, Ask
  <1>10. /\ queue[s] \in Seq(Calls) /\ Len(queue[s]) \in Nat /\ Len(queue'[s]) = Len(queue[s]) + 1
         /\ queue'[s][Len(queue[s]) + 1] = c
         /\ \A i \in 1..Len(queue[s]) : queue'[s][i] = queue[s][i]
    BY <1>8 DEF Inv, Shape
  <1>11. \A d \in Calls : Holds(d)' <=> Holds(d)
    <2>1. ~Holds(c)' /\ ~Holds(c)
      BY <1>1, <1>2, <1>3 DEF Holds
    <2>2. \A d \in Calls : d # c => (Holds(d)' <=> Holds(d))
      BY <1>1, <1>3 DEF Holds
    <2>3. QED
      BY <2>1, <2>2
  <1>12. Shape'
    BY <1>1, <1>3, <1>7, <1>8, <1>9 DEF Inv, Shape
  <1>13. Begun'
    BY <1>1, <1>2, <1>3, <1>4, <1>5, <1>7 DEF Inv, Begun, Early, Ended
  <1>14. Sent'
    BY <1>1, <1>2, <1>3, <1>4, <1>5, <1>6, <1>7, <1>8, <1>9, <1>10 DEF Inv, Sent, Early, Shape
  <1>15. Keyed'
    <2>1. \A d \in Calls : st'[d] # None => key[st'[d]] = key[d]
      BY <1>6, <1>7 DEF Inv, Keyed
    <2>2. \A a : \A d : Fits(a, d)' <=> Fits(a, d)
      BY <1>1 DEF Fits, Mat
    <2>3. QED
      BY <1>1, <2>1, <2>2 DEF Inv, Keyed
  <1>16. Fresh'
    <2>1. \A d \in Calls : prior'[d] \subseteq Replied'
      BY <1>1, <1>9 DEF Inv, Fresh, Replied
    <2>2. \A k \in Keys : asking[k] # None => Open(asking[k])'
      BY <1>1, <1>2, <1>7, ReturnFacts DEF Inv, Fresh, Open
    <2>3. \A d, h \in Calls : st'[d] # None /\ st'[h] = st'[d] => Newer(h, d)'
      <3>1. SUFFICES ASSUME NEW d \in Calls, NEW h \in Calls, st'[d] # None, st'[h] = st'[d]
                     PROVE  Newer(h, d)'
        OBVIOUS
      <3>2. CASE h = c
        BY <1>1, <1>2, <3>2, ReturnFacts DEF Newer
      <3>3. CASE h # c /\ d = c
        <4>1. st[h] = s
          BY <1>7, <3>1, <3>3
        <4>2. chan[h] = Nothing /\ got[h] \notin Answers
          BY <1>6, <4>1 DEF Open
        <4>3. QED
          BY <1>1, <4>2, ReturnFacts DEF Newer
      <3>4. CASE h # c /\ d # c
        BY <1>1, <1>7, <1>9, <3>1, <3>4 DEF Inv, Fresh, Newer
      <3>5. QED
        BY <3>2, <3>3, <3>4
    <2>4. \A d \in Calls : st'[d] # None /\ done[st'[d]] \in Answers
             => done[st'[d]].of \notin prior'[d]
      BY <1>6, <1>7, <1>9, ReturnFacts DEF Inv, Fresh, Open
    <2>5. QED
      BY <1>1, <2>1, <2>2, <2>3, <2>4 DEF Fresh
  <1>17. OneHolder'
    <2>1. \A d \in Calls : Holds(d)' => Holds(d) /\ st'[d] = st[d]
      BY <1>3, <1>7, <1>11 DEF Holds
    <2>2. QED
      BY <1>1, <2>1 DEF Inv, Held, OneHolder
  <1>18. SomeHolder'
    <2>1. \A q : q # None /\ Holder(q) => Holder(q)'
      BY <1>2, <1>7, <1>11 DEF Holder
    <2>2. \A d \in Calls : at'[d] = "wait" /\ done'[st'[d]] = Nothing => Holder(st[d])'
      <3>1. \A d \in Calls : at[d] = "wait" => st[d] # None
        BY OnAQuestion DEF Inv, Early, Ended
      <3>2. QED
        BY <1>1, <1>3, <1>5, <1>6, <1>7, <2>1, <3>1 DEF Inv, Held, SomeHolder
    <2>3. QED
      BY <1>1, <2>1, <2>2 DEF Inv, Held, SomeHolder
  <1>19. Line'
    <2>1. ASSUME NEW d \in Calls, at'[d] = "wait", d \notin promoted
          PROVE  InLine(d, st[d])'
      <3>1. CASE d = c
        <4>1. Len(queue[s]) + 1 \in 1..Len(queue'[s])
          BY <1>10
        <4>2. QED
          BY <1>7, <1>10, <3>1, <4>1 DEF InLine
      <3>2. CASE d # c
        <4>1. at[d] = "wait" /\ st'[d] = st[d] /\ InLine(d, st[d])
          BY <1>3, <1>7, <2>1, <3>2 DEF Inv, Held, Line
        <4>2. PICK k \in 1..Len(queue[st[d]]) : queue[st[d]][k] = d
          BY <4>1 DEF InLine
        <4>3. st[d] \in Calls
          BY <4>1, OnAQuestion DEF Inv, Early, Ended
        <4>4. k \in 1..Len(queue'[st[d]]) /\ queue'[st[d]][k] = d
          <5>1. CASE st[d] = s
            BY <1>10, <4>2, <5>1
          <5>2. CASE st[d] # s
            BY <1>8, <4>2, <4>3, <5>2
          <5>3. QED
            BY <5>1, <5>2
        <4>5. QED
          BY <4>1, <4>4 DEF InLine
      <3>3. QED
        BY <3>1, <3>2
    <2>2. ASSUME NEW t \in Calls, done[t] = Nothing, NEW j \in 1..Len(queue'[t])
          PROVE  /\ at'[queue'[t][j]] = "wait" /\ st'[queue'[t][j]] = t
                 /\ queue'[t][j] \notin promoted
                 /\ \A k \in 1..Len(queue'[t]) : queue'[t][j] = queue'[t][k] => j = k
      <3>1. \A i \in 1..Len(queue[t]) :
               /\ queue[t][i] \in Calls /\ queue[t][i] # c
               /\ at[queue[t][i]] = "wait" /\ st[queue[t][i]] = t /\ queue[t][i] \notin promoted
               /\ \A k \in 1..Len(queue[t]) : queue[t][i] = queue[t][k] => i = k
        BY <1>2, <2>2, InLineAreCalls DEF Inv, Held, Line
      <3>2. CASE t # s
        <4>1. queue'[t] = queue[t]
          BY <1>8, <3>2
        <4>2. QED
          BY <1>3, <1>7, <3>1, <4>1
      <3>3. CASE t = s
        <4>1. CASE j = Len(queue[s]) + 1
          <5>1. queue'[s][j] = c
            BY <1>10, <4>1
          <5>2. \A k \in 1..Len(queue'[s]) : queue'[s][k] = c => k = j
            BY <1>10, <3>1, <3>3, <4>1
          <5>3. QED
            BY <1>2, <1>3, <1>7, <3>3, <5>1, <5>2
        <4>2. CASE j # Len(queue[s]) + 1
          <5>1. j \in 1..Len(queue[s]) /\ queue'[s][j] = queue[s][j]
            BY <1>10, <3>3, <4>2
          <5>2. \A k \in 1..Len(queue'[s]) : queue'[s][j] = queue'[s][k] => j = k
            <6>1. SUFFICES ASSUME NEW k \in 1..Len(queue'[s]), queue'[s][j] = queue'[s][k]
                           PROVE  j = k
              OBVIOUS
            <6>2. CASE k = Len(queue[s]) + 1
              BY <1>10, <3>1, <3>3, <5>1, <6>1, <6>2
            <6>3. CASE k # Len(queue[s]) + 1
              <7>1. k \in 1..Len(queue[s]) /\ queue'[s][k] = queue[s][k]
                BY <1>10, <6>3
              <7>2. QED
                BY <3>1, <3>3, <5>1, <6>1, <7>1
            <6>4. QED
              BY <6>2, <6>3
          <5>3. QED
            BY <1>3, <1>7, <3>1, <3>3, <5>1, <5>2
        <4>3. QED
          BY <4>1, <4>2
      <3>4. QED
        BY <3>2, <3>3
    <2>3. QED
      BY <1>1, <2>1, <2>2 DEF Line
  <1>20. Stands'
    BY <1>1, <1>2, <1>3, <1>4, <1>5, <1>6, <1>7, <1>8, <1>9, <1>10 DEF Inv, Stands, Shape
  <1>21. Ran'
    BY <1>1, <1>2, <1>3, <1>4, <1>5, <1>6, <1>7, <1>8, <1>9, <1>10 DEF Inv, Ran, Shape
  <1>22. QED
    BY <1>12, <1>13, <1>14, <1>15, <1>16, <1>17, <1>18, <1>19, <1>20, <1>21 DEF Inv, Held

\* An answer claims its question and those a session allow covers (resolveAnswer,
\* settleLocked).
LEMMA Resolves ==
    ASSUME NEW a \in Answers, Inv, Resolve(a), UNCHANGED <<key, mode>>
    PROVE  Inv'
  <1>1. UNCHANGED <<key, mode, at, st, got, queue, done, promoted, abandoned, prior, conn>>
    BY DEF Resolve, Go, share, question, outside
  <1>2. PICK settled \in SUBSET Calls :
              /\ settled = {a.of} \cup (IF ForSession(a) THEN Covered(a.of) ELSE {})
              /\ a.of \in settled /\ settled \subseteq pending
    <2>1. a.of \in pending /\ pending \subseteq Calls
      BY DEF Resolve, Inv, Shape
    <2>2. QED
      BY <2>1 DEF Covered
  <1>3. /\ pending' = pending \ settled /\ standing' = standing \ settled
        /\ asking' = [k \in Keys |-> IF \E c \in settled : key[c] = k THEN None ELSE asking[k]]
        /\ chan' = [c \in Calls |-> IF c \in settled THEN a ELSE chan[c]]
    BY <1>2 DEF Resolve
  <1>4. /\ asking' \in [Keys -> Calls \cup {None}]
        /\ \A k \in Keys : asking'[k] # None => asking'[k] = asking[k]
           /\ \A c \in settled : key[c] # k
    BY <1>3 DEF Inv, Shape
  <1>5. /\ chan' \in [Calls -> Answers \cup {Nothing}]
        /\ \A c \in settled : chan'[c] = a
        /\ \A c \in Calls : c \notin settled => chan'[c] = chan[c]
    BY <1>3 DEF Inv, Shape
  <1>6. a # Nothing /\ a.of \notin Replied /\ \A c \in settled : chan[c] = Nothing
    BY <1>2, AnswerFacts, PendingFacts DEF Inv, Sent
  <1>7. Shape'
    BY <1>1, <1>3, <1>4, <1>5 DEF Inv, Shape
  <1>8. Begun'
    BY <1>1, <1>4, PermissionAskAssumption DEF Inv, Begun
  <1>9. Sent'
    BY ZenonT(40), <1>1, <1>2, <1>3, <1>5 DEF Inv, Shape, Sent, Early
  <1>10. Keyed'
    <2>1. \A c \in settled : Fits(a, c)
      BY <1>2 DEF Fits, Covered, ForSession
    <2>2. \A c \in Calls : chan'[c] \in Answers => Fits(chan'[c], c)
      BY <1>5, <2>1 DEF Inv, Keyed
    <2>3. \A k \in Keys : asking'[k] # None => key[asking'[k]] = k
      BY <1>4 DEF Inv, Keyed
    <2>4. \A b : \A d : Fits(b, d)' <=> Fits(b, d)
      BY <1>1 DEF Fits, Mat
    <2>5. QED
      BY <1>1, <2>2, <2>3, <2>4 DEF Inv, Keyed
  <1>11. Fresh'
    <2>1. Replied \subseteq Replied'
      BY <1>2, <1>5, <1>6, ErrorFacts DEF Replied
    <2>2. \A d \in Calls : prior[d] \subseteq Replied /\ a.of \notin prior[d]
      BY <1>6 DEF Inv, Fresh
    <2>3. \A k \in Keys : asking'[k] # None => Open(asking[k])'
      <3>1. SUFFICES ASSUME NEW k \in Keys, asking'[k] # None
                     PROVE  Open(asking[k])'
        OBVIOUS
      <3>2. PICK s : s = asking'[k] /\ s = asking[k] /\ s # None
        BY <1>4, <3>1
      <3>3. Open(s) /\ key[s] = k
        BY <3>2 DEF Inv, Fresh, Keyed
      <3>4. \A h \in Calls : st[h] = s => h \notin settled
        <4>1. \A h \in Calls : st[h] = s => key[h] = k
          BY <3>2, <3>3 DEF Inv, Keyed
        <4>2. \A c \in settled : key[c] # k
          BY <1>4, <3>1
        <4>3. QED
          BY <4>1, <4>2
      <3>5. Open(s)'
        BY <1>1, <1>5, <3>3, <3>4 DEF Open
      <3>6. QED
        BY <3>2, <3>5
    <2>4. \A d, h \in Calls : st[d] # None /\ st[h] = st[d] => Newer(h, d)'
      BY <1>1, <1>5, <2>2 DEF Inv, Fresh, Newer
    <2>5. QED
      BY <1>1, <2>1, <2>2, <2>3, <2>4 DEF Inv, Fresh
  <1>12. OneHolder'
    BY <1>1 DEF Inv, Held, OneHolder, Shape, Holds
  <1>13. SomeHolder'
    <2>1. \A s : Holder(s)' <=> Holder(s)
      BY <1>1 DEF Holder, Holds
    <2>2. QED
      BY <1>1, <1>4, <2>1 DEF Inv, Held, SomeHolder
  <1>14. Line'
    BY <1>1 DEF Inv, Held, Line, InLine, Shape
  <1>15. Stands'
    BY <1>1, <1>2, <1>3, <1>5, <1>6 DEF Inv, Stands, Shape
  <1>16. Ran'
    BY <1>1 DEF Inv, Ran, Shape
  <1>17. QED
    BY <1>7, <1>8, <1>9, <1>10, <1>11, <1>12, <1>13, <1>14, <1>15, <1>16 DEF Inv, Held

\* An asker attaches.
LEMMA Attaches ==
    ASSUME NEW a \in Conns, Inv, Attach(a), UNCHANGED <<key, mode>>
    PROVE  Inv'
  <1>1. UNCHANGED <<key, mode, at, st, got, asking, queue, done, promoted, pending, standing,
                    chan, abandoned, prior>>
    BY DEF Attach, Go, share, question, outside
  <1>2. Shape'
    BY <1>1 DEF Inv, Shape, Attach
  <1>3. Begun'
    BY <1>1 DEF Inv, Begun, Early, Ended
  <1>4. Sent'
    BY <1>1 DEF Inv, Sent, Early, Shape
  <1>5. Keyed'
    BY <1>1 DEF Inv, Keyed, Fits, Mat, Shape
  <1>6. Fresh'
    BY <1>1 DEF Inv, Fresh, Open, Newer, Replied, Shape
  <1>7. OneHolder'
    BY <1>1 DEF Inv, Held, OneHolder, Shape, Holds
  <1>8. SomeHolder'
    BY <1>1 DEF Inv, Held, SomeHolder, Holder, Shape, Holds
  <1>9. Line'
    BY <1>1 DEF Inv, Held, Line, InLine, Shape
  <1>10. Stands'
    BY <1>1 DEF Inv, Stands, Shape, Attach
  <1>11. Ran'
    BY <1>1 DEF Inv, Ran, Shape
  <1>12. QED
    BY <1>2, <1>3, <1>4, <1>5, <1>6, <1>7, <1>8, <1>9, <1>10, <1>11 DEF Inv, Held

\* An asker leaves, and looks at what stands.
LEMMA Detaches ==
    ASSUME NEW a \in Conns, Inv, Detach(a), UNCHANGED <<key, mode>>
    PROVE  Inv'
  <1>1. UNCHANGED <<key, mode, at, st, got, asking, queue, done, promoted, pending, standing,
                    chan, abandoned, prior>>
    BY DEF Detach, Go, share, question, outside
  <1>2. Shape'
    BY <1>1 DEF Inv, Shape, Detach
  <1>3. Begun'
    BY <1>1 DEF Inv, Begun, Early, Ended
  <1>4. Sent'
    BY <1>1 DEF Inv, Sent, Early, Shape
  <1>5. Keyed'
    BY <1>1 DEF Inv, Keyed, Fits, Mat, Shape
  <1>6. Fresh'
    BY <1>1 DEF Inv, Fresh, Open, Newer, Replied, Shape
  <1>7. OneHolder'
    BY <1>1 DEF Inv, Held, OneHolder, Shape, Holds
  <1>8. SomeHolder'
    BY <1>1 DEF Inv, Held, SomeHolder, Holder, Shape, Holds
  <1>9. Line'
    BY <1>1 DEF Inv, Held, Line, InLine, Shape
  <1>10. Stands'
    BY <1>1 DEF Inv, Stands, Shape, Detach
  <1>11. Ran'
    BY <1>1 DEF Inv, Ran, Shape
  <1>12. QED
    BY <1>2, <1>3, <1>4, <1>5, <1>6, <1>7, <1>8, <1>9, <1>10, <1>11 DEF Inv, Held

\* Having left, it asks whether another asker is there (abandonStanding).
LEMMA ChecksAskers ==
    ASSUME NEW a \in Conns, Inv, CheckAskers(a), UNCHANGED <<key, mode>>
    PROVE  Inv'
  <1>1. UNCHANGED <<key, mode, at, st, got, asking, queue, done, promoted, pending, standing,
                    chan, abandoned, prior>>
    BY DEF CheckAskers, Go, share, question, outside
  <1>2. Shape'
    BY <1>1 DEF Inv, Shape, CheckAskers
  <1>3. Begun'
    BY <1>1 DEF Inv, Begun, Early, Ended
  <1>4. Sent'
    BY <1>1 DEF Inv, Sent, Early, Shape
  <1>5. Keyed'
    BY <1>1 DEF Inv, Keyed, Fits, Mat, Shape
  <1>6. Fresh'
    BY <1>1 DEF Inv, Fresh, Open, Newer, Replied, Shape
  <1>7. OneHolder'
    BY <1>1 DEF Inv, Held, OneHolder, Shape, Holds
  <1>8. SomeHolder'
    BY <1>1 DEF Inv, Held, SomeHolder, Holder, Shape, Holds
  <1>9. Line'
    BY <1>1 DEF Inv, Held, Line, InLine, Shape
  <1>10. Stands'
    BY <1>1 DEF Inv, Stands, Shape, CheckAskers, askers
  <1>11. Ran'
    BY <1>1 DEF Inv, Ran, Shape
  <1>12. QED
    BY <1>2, <1>3, <1>4, <1>5, <1>6, <1>7, <1>8, <1>9, <1>10, <1>11 DEF Inv, Held

\* It was the last: what stands is given up.
LEMMA Abandons ==
    ASSUME NEW a \in Conns, Inv, AbandonStanding(a), UNCHANGED <<key, mode>>
    PROVE  Inv'
  <1>1. UNCHANGED <<key, mode, at, st, got, asking, queue, done, promoted, pending, chan, prior>>
    BY DEF AbandonStanding, Go, share, question, outside
  <1>2. Shape'
    BY <1>1 DEF Inv, Shape, AbandonStanding
  <1>3. Begun'
    BY <1>1 DEF Inv, Begun, Early, Ended
  <1>4. Sent'
    BY <1>1 DEF Inv, Sent, Early, Shape
  <1>5. Keyed'
    BY <1>1 DEF Inv, Keyed, Fits, Mat, Shape
  <1>6. Fresh'
    BY <1>1 DEF Inv, Fresh, Open, Newer, Replied, Shape
  <1>7. OneHolder'
    BY <1>1 DEF Inv, Held, OneHolder, Shape, Holds
  <1>8. SomeHolder'
    BY <1>1 DEF Inv, Held, SomeHolder, Holder, Shape, Holds
  <1>9. Line'
    BY <1>1 DEF Inv, Held, Line, InLine, Shape
  <1>10. Stands'
    BY <1>1 DEF Inv, Stands, Shape, AbandonStanding
  <1>11. Ran'
    BY <1>1 DEF Inv, Ran, Shape
  <1>12. QED
    BY <1>2, <1>3, <1>4, <1>5, <1>6, <1>7, <1>8, <1>9, <1>10, <1>11 DEF Inv, Held

\* A cancellation and an interrupt only end contexts.
LEMMA Cancels ==
    ASSUME Inv, UNCHANGED <<key, mode, at, st, got, asking, queue, done, promoted, pending,
                            standing, chan, abandoned, prior, conn>>
    PROVE  Inv'
  <1>1. Shape'
    BY DEF Inv, Shape
  <1>2. Begun'
    BY DEF Inv, Begun, Early, Ended
  <1>3. Sent'
    BY DEF Inv, Sent, Early, Shape
  <1>4. Keyed'
    BY DEF Inv, Keyed, Fits, Mat, Shape
  <1>5. Fresh'
    BY DEF Inv, Fresh, Open, Newer, Replied, Shape
  <1>6. OneHolder'
    BY DEF Inv, Held, OneHolder, Shape, Holds
  <1>7. SomeHolder'
    BY DEF Inv, Held, SomeHolder, Holder, Shape, Holds
  <1>8. Line'
    BY DEF Inv, Held, Line, InLine, Shape
  <1>9. Stands'
    BY DEF Inv, Stands, Shape
  <1>10. Ran'
    BY DEF Inv, Ran, Shape
  <1>11. QED
    BY <1>1, <1>2, <1>3, <1>4, <1>5, <1>6, <1>7, <1>8, <1>9, <1>10 DEF Inv, Held

-----------------------------------------------------------------------------
(* The theorems.                                                           *)

\* Every step keeps the invariant.
LEMMA StepKeeps == Inv /\ [Next]_vars => Inv'
  <1> SUFFICES ASSUME Inv, [Next]_vars
               PROVE  Inv'
    OBVIOUS
  <1>1. CASE UNCHANGED vars
    BY <1>1, Cancels DEF vars, share, question, outside
  <1>2. CASE Step /\ UNCHANGED <<key, mode>>
    <2>1. CASE \E c \in Calls : CallStep(c)
      <3>1. PICK c \in Calls : CallStep(c)
        BY <2>1
      <3>2. CASE Gated(c) \/ Decide(c)
        BY <1>2, <3>2, IsGated, Decides
      <3>3. CASE Ask(c)
        BY <1>2, <3>3, Creates, Joins
      <3>4. CASE TakeShared(c) \/ Promoted(c)
        BY <1>2, <3>4, TakesShared, IsPromoted
      <3>5. CASE GiveUp(c)
        BY <1>2, <3>5, LeavesTheHolder, LeavesTheLine
      <3>6. CASE Publish(c)
        BY <1>2, <3>6, Publishes
      <3>7. CASE Stand(c)
        BY <1>2, <3>7, StandsUp, NobodyToAsk
      <3>8. CASE Select(c)
        BY <1>2, <3>8, Selects
      <3>9. CASE Retire(c) \/ Leave(c)
        BY <1>2, <3>9, RetiresIt, PassesItOn
      <3>10. QED
        BY <3>1, <3>2, <3>3, <3>4, <3>5, <3>6, <3>7, <3>8, <3>9 DEF CallStep
    <2>2. CASE Interrupt \/ \E c \in Calls : CancelCall(c)
      BY <1>2, <2>2, Cancels DEF Interrupt, CancelCall, share, question
    <2>3. CASE \E a \in Conns : ConnStep(a) \/ Attach(a) \/ Detach(a)
      BY <1>2, <2>3, Attaches, Detaches, ChecksAskers, Abandons DEF ConnStep
    <2>4. CASE \E a \in Answers : Resolve(a)
      BY <1>2, <2>4, Resolves
    <2>5. QED
      BY <1>2, <2>1, <2>2, <2>3, <2>4 DEF Step
  <1>3. QED
    BY <1>1, <1>2 DEF Next

\* At the start no call has asked.
LEMMA Starts == Init => Inv
  <1> SUFFICES ASSUME Init
               PROVE  Inv
    OBVIOUS
  <1>1. /\ key \in [Calls -> Keys]
        /\ \A c \in Calls : /\ at[c] = "gate" /\ st[c] = None /\ got[c] = Nothing
                            /\ done[c] = Nothing /\ chan[c] = Nothing /\ prior[c] = {}
        /\ \A k \in Keys : asking[k] = None
        /\ pending = {} /\ standing = {} /\ promoted = {}
    BY PermissionAskAssumption DEF Init
  <1>2. /\ queue \in [Calls -> Seq(Calls)] /\ \A c \in Calls : Len(queue[c]) = 0
    BY DEF Init
  <1>3. Shape
    BY <1>1, <1>2, ReturnFacts DEF Init, Shape
  <1>4. Begun /\ Sent
    BY <1>1, PermissionAskAssumption DEF Begun, Sent, Early, Ended
  <1>5. Keyed
    BY <1>1, ReturnFacts DEF Keyed
  <1>6. Fresh
    BY <1>1 DEF Fresh
  <1>7. OneHolder /\ SomeHolder
    BY <1>1 DEF OneHolder, SomeHolder, Holds
  <1>8. Line
    BY <1>1, <1>2 DEF Line
  <1>9. Stands /\ Ran
    BY <1>1 DEF Stands, Ran
  <1>10. QED
    BY <1>3, <1>4, <1>5, <1>6, <1>7, <1>8, <1>9 DEF Inv, Held

\* The invariant holds of every behaviour.
LEMMA Invariant == Spec => []Inv
  BY Starts, StepKeeps, PTL DEF Spec

\* A call runs only on consent given for its own arguments, or for the session where that
\* covers it, and never on an answer that was given before it asked: neither joining a
\* standing question (liveAsker.Ask), nor being promoted to one (leave), nor being settled by
\* another call's session allow (settleLocked) lets an older or a foreign answer through.
THEOREM OwnConsent == Spec => []ConsentIsItsOwn
  <1>1. Inv => ConsentIsItsOwn
    <2> SUFFICES ASSUME Inv
                 PROVE  ConsentIsItsOwn
      OBVIOUS
    <2>1. ConsentIsForTheseArguments
      BY DEF Inv, Ran, Keyed, Fits, ConsentIsForTheseArguments
    <2>2. \A c \in Calls : got[c] \in Answers => st[c] # None
      BY ReturnFacts DEF Inv, Begun
    <2>3. NoAnswerFromBefore
      BY <2>2 DEF Inv, Fresh, Newer, NoAnswerFromBefore
    <2>4. QED
      BY <2>1, <2>3 DEF ConsentIsItsOwn
  <1>2. QED
    BY Invariant, <1>1, PTL

\* In every mode but off a dangerous call runs only on an answer to its own question, whatever
\* allowances the session has and whatever other answers are given (ADR 0011).
THEOREM DangerousAsks == Spec => []DangerousTakesItsOwnAnswer
  <1>1. Inv => DangerousTakesItsOwnAnswer
    BY DEF Inv, Ran, Keyed, Fits, DangerousTakesItsOwnAnswer
  <1>2. QED
    BY Invariant, <1>1, PTL

\* No call is parked on a question without exactly one call holding it, however holders and
\* joiners are cancelled, promoted and answered (leave, removeChan); and once every asker has
\* left, no question waits for an asker (abandonStanding).
THEOREM NobodyIsLeft == Spec => []NobodyLeftWaiting
  <1>1. Inv => NobodyLeftWaiting
    <2> SUFFICES ASSUME Inv
                 PROVE  NobodyLeftWaiting
      OBVIOUS
    <2>1. ASSUME NEW c \in Calls, at[c] = "wait", done[st[c]] = Nothing
          PROVE  Cardinality({d \in Calls : st[d] = st[c] /\ Holds(d)}) = 1
      <3>1. PICK h \in Calls : st[h] = st[c] /\ Holds(h)
        BY <2>1 DEF Inv, Held, SomeHolder, Holder
      <3>2. st[c] # None
        BY <2>1, OnAQuestion DEF Inv, Early, Ended
      <3>3. {d \in Calls : st[d] = st[c] /\ Holds(d)} = {h}
        BY <3>1, <3>2 DEF Inv, Held, OneHolder
      <3>4. QED
        BY <3>3, FS_Singleton
    <2>2. DeniedWhenNobodyLeft
      BY DEF Inv, Stands, DeniedWhenNobodyLeft
    <2>3. QED
      BY <2>1, <2>2 DEF NobodyLeftWaiting, NobodyStranded
  <1>2. QED
    BY Invariant, <1>1, PTL

=============================================================================
