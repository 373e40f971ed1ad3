------------------------ MODULE RuntimeApprovalProofs ------------------------
(***************************************************************************)
(* One decision for each question of the Codex app server, and no "allow"  *)
(* that is not that decision, proved for any questions, askers, turns and  *)
(* attachments.                                                            *)
(*                                                                         *)
(* An answer, a disconnect, a timeout, a withdrawal and the end of an item *)
(* or a turn race for a question.  What keeps them apart is the claim      *)
(* (pending.answered): whoever makes it owes the question its one record   *)
(* and its one send.  The inductive invariant says who owes what: a        *)
(* question nobody has claimed, or whose claimant has not sent yet, has    *)
(* nothing recorded and nothing on its way (Owed); an open question that   *)
(* is not claimed has its waiter still waiting (Waits); only claimed       *)
(* questions are in the dispatcher's or an answer's hands, and in one of   *)
(* the two (Claims); and an allow that is on its way or was delivered is   *)
(* the record (Told).                                                      *)
(*                                                                         *)
(* Three sections follow about what goes on around turns (AroundTurns).    *)
(* Sign-ins: the right to tell how an attempt ended is one token, in one   *)
(* pair of hands (LoginInv). Folds of the memory plugin: a session that    *)
(* closed while a fold ran is finalized by the goroutine of that fold      *)
(* (FoldInv). Clients that follow a turn: where its last message and its   *)
(* end are, told or still queued (AnswerInv).                              *)
(***************************************************************************)
EXTENDS RuntimeApproval, AroundTurns, Integers, SequenceTheorems, TLAPS

Waiting == {"wait", "disconnect", "context"}

\* The record of a question an asker allowed.
Allowed(r) == \E a \in Askers : record[r] = <<[decision |-> "allow", by |-> a]>>

\* The question is in the hands of an answer.
InHand(r) == \E x \in hand : x.r = r

\* Nobody has decided the question yet, or whoever did has still to record and send it.
Undecided(r) ==
    \/ pc[r] \in {"none", "check"}
    \/ pc[r] \in Waiting /\ r \notin answered
    \/ r \in todo
    \/ InHand(r)

\* The tables by question are functions, and an answer names an asker and a decision.
Shape ==
    /\ record = [r \in Questions |-> record[r]]
    /\ reply = [r \in Questions |-> reply[r]]
    /\ pc = [r \in Questions |-> pc[r]]
    /\ open \subseteq Questions /\ todo \subseteq Questions
    /\ \A x \in hand : x.r \in Questions /\ x.by \in Askers /\ x.d \in {"allow", "deny"}

Owed == \A r \in Questions : Undecided(r) => record[r] = <<>> /\ reply[r] = <<>>

Waits ==
    /\ \A r \in Questions : pc[r] \in {"none", "check"} => r \notin open /\ r \notin answered
    /\ \A r \in open : r \notin answered => pc[r] \in Waiting

Claims ==
    /\ \A r \in todo : r \in answered /\ ~InHand(r)
    /\ \A x \in hand : x.r \in answered

Told ==
    /\ \A r \in Questions : reply[r] \in {<<>>, <<"allow">>, <<"deny">>}
    /\ \A r \in Questions : reply[r] = <<"allow">> => Allowed(r)
    /\ granted \subseteq Questions
    /\ \A r \in granted : Allowed(r)

Inv == Shape /\ Owed /\ Waits /\ Claims /\ Told /\ DecidedOnce

\* What the invariant is about.
core == <<record, reply, pc, open, todo, hand, answered, granted>>

\* The first entry of a question's record (recordRuntimeDecision) is its only one.
LEMMA FirstEntry ==
    ASSUME NEW e
    PROVE  Append(<<>>, e) = <<e>> /\ Len(<<e>>) = 1 /\ <<e>> # <<>>
  OBVIOUS

\* What is sent says allow or deny, never both.
LEMMA Sends == <<"deny">> # <<"allow">> /\ <<"allow">> # <<>> /\ <<"deny">> # <<>>
  <1>1. <<"deny">> # <<"allow">>
    <2>1. SUFFICES ASSUME <<"deny">> = <<"allow">> PROVE FALSE
      OBVIOUS
    <2>2. <<"deny">>[1] = <<"allow">>[1]
      BY <2>1
    <2>3. <<"deny">>[1] = "deny" /\ <<"allow">>[1] = "allow"
      OBVIOUS
    <2>4. QED
      BY <2>2, <2>3
  <1>2. QED
    BY <1>1, FirstEntry

\* recordRuntimeDecision of a question that has no record, whether the append fails or not.
LEMMA Writes ==
    ASSUME Shape, NEW r \in Questions, record[r] = <<>>, NEW d, NEW by,
           record' \in {Recorded(r, d, by), record}
    PROVE  /\ record' = [s \in Questions |-> record'[s]] /\ Len(record'[r]) <= 1
           /\ \A s \in Questions : s # r => record'[s] = record[s]
  <1>1. CASE record' = record
    BY <1>1 DEF Shape
  <1>2. CASE record' = Recorded(r, d, by)
    <2> DEFINE e == [decision |-> d, by |-> by]
    <2>1. record' = [record EXCEPT ![r] = Append(@, e)]
      BY <1>2 DEF Recorded
    <2> HIDE DEF e
    <2>2. record'[r] = <<e>>
      BY <2>1, FirstEntry DEF Shape
    <2>3. Len(record'[r]) = 1
      BY <2>2, FirstEntry
    <2>4. record' = [s \in Questions |-> record'[s]]
      BY <2>1 DEF Shape
    <2>5. \A s \in Questions : s # r => record'[s] = record[s]
      BY <2>1 DEF Shape
    <2>6. QED
      BY <2>3, <2>4, <2>5
  <1>3. QED
    BY <1>1, <1>2

\* A step that leaves the questions, their answers and their records alone keeps it all.
LEMMA Elsewhere ==
    ASSUME Inv, UNCHANGED core
    PROVE  Inv'
  <1>1. Shape'
    BY DEF Inv, core, Shape
  <1>2. Owed'
    BY DEF Inv, core, Owed, Undecided, InHand
  <1>3. Waits' /\ Claims'
    BY DEF Inv, core, Waits, Claims, InHand
  <1>4. Told' /\ DecidedOnce'
    BY DEF Inv, core, Told, Allowed, DecidedOnce
  <1>5. QED
    BY <1>1, <1>2, <1>3, <1>4 DEF Inv

\* The resolutions of the dispatcher (ItemCompleted, EndTurn, RequestResolved) claim what
\* nobody has, and owe those questions a denial.
LEMMA TakesOut ==
    ASSUME NEW which, which \subseteq open, Inv, todo = {}, TakeOut(which),
           UNCHANGED <<record, reply, pc, hand, granted>>
    PROVE  Inv'
  <1>1. Shape'
    BY DEF Inv, Shape, TakeOut
  <1>2. Owed'
    BY DEF Inv, Shape, Owed, Undecided, InHand, Waits, TakeOut
  <1>3. Waits'
    BY DEF Inv, Waits, TakeOut
  <1>4. Claims'
    BY DEF Inv, Claims, InHand, TakeOut
  <1>5. Told' /\ DecidedOnce'
    BY DEF Inv, Told, Allowed, DecidedOnce
  <1>6. QED
    BY <1>1, <1>2, <1>3, <1>4, <1>5 DEF Inv

\* A denial is recorded and sent by the dispatcher that owed it.
LEMMA Denies ==
    ASSUME NEW r \in Questions, Inv, Deny(r)
    PROVE  Inv'
  <1>1. r \in answered /\ ~InHand(r) /\ record[r] = <<>>
    BY DEF Inv, Deny, Claims, Owed, Undecided
  <1>2. pc[r] \notin {"none", "check"}
    BY <1>1 DEF Inv, Waits
  <1>3. /\ record' = [s \in Questions |-> record'[s]] /\ Len(record'[r]) <= 1
        /\ \A s \in Questions : s # r => record'[s] = record[s]
    BY <1>1, Writes DEF Inv, Deny
  <1>a. /\ reply' = [s \in Questions |-> reply'[s]] /\ reply'[r] = <<"deny">>
        /\ \A s \in Questions : s # r => reply'[s] = reply[s]
    BY DEF Inv, Shape, Deny
  <1>4. Shape'
    BY <1>3, <1>a DEF Inv, Shape, Deny, lock, tables
  <1>5. Owed'
    BY <1>1, <1>2, <1>3, <1>a DEF Inv, Shape, Owed, Undecided, InHand, Deny, lock, tables
  <1>6. Waits' /\ Claims'
    BY DEF Inv, Waits, Claims, InHand, Deny, lock, tables
  <1>7. r \notin granted
    BY <1>1, FirstEntry DEF Inv, Told, Allowed
  <1>8. \A s \in Questions : s # r => (Allowed(s) <=> Allowed(s)')
    BY <1>3 DEF Allowed
  <1>8b. Told'
    BY <1>a, <1>7, <1>8, Sends DEF Inv, Told, Deny
  <1>9. DecidedOnce'
    BY <1>3 DEF Inv, DecidedOnce
  <1>10. QED
    BY <1>4, <1>5, <1>6, <1>8b, <1>9 DEF Inv

\* The question moves on in its goroutine and nothing is said or recorded: it stays undecided
\* unless its answer is on the way.
LEMMA Moves ==
    ASSUME NEW r \in Questions, Inv, Ask(r) \/ Wake(r) \/ (Claim(r) /\ r \in answered)
    PROVE  Inv'
  <1>1. UNCHANGED <<record, reply, open, todo, hand, answered, granted>>
    BY DEF Ask, Wake, Claim, tables, lock, disp
  <1>2. /\ pc' = [s \in Questions |-> pc'[s]]
        /\ \A s \in Questions : s # r => pc'[s] = pc[s]
        /\ \/ pc[r] = "none" /\ pc'[r] = "check"
           \/ pc[r] = "wait" /\ pc'[r] = "take" /\ reply[r] # <<>>
           \/ pc[r] = "wait" /\ pc'[r] \in {"disconnect", "context"}
           \/ pc[r] \in {"disconnect", "context"} /\ pc'[r] = "take" /\ r \in answered
    BY DEF Inv, Shape, Ask, Wake, Claim
  <1>3. \A s \in Questions : Undecided(s)' => Undecided(s)
    BY <1>1, <1>2 DEF Undecided, InHand, Waiting
  <1>4. Shape'
    BY <1>1, <1>2 DEF Inv, Shape
  <1>5. Owed'
    BY <1>1, <1>3 DEF Inv, Owed
  <1>6. pc[r] = "wait" /\ reply[r] # <<>> => r \in answered
    BY DEF Inv, Owed, Undecided, Waiting
  <1>7. Waits'
    BY <1>1, <1>2, <1>6 DEF Inv, Shape, Waits, Waiting
  <1>8. Claims' /\ Told' /\ DecidedOnce'
    BY <1>1 DEF Inv, Claims, InHand, Told, Allowed, DecidedOnce
  <1>9. QED
    BY <1>4, <1>5, <1>7, <1>8 DEF Inv

\* What a decision by the goroutine itself (RequestApproval's own denials) does.
Returns(r) ==
    /\ pc[r] \in {"check", "disconnect", "context"}
    /\ r \in answered => pc[r] = "check"
    /\ pc' = [pc EXCEPT ![r] = "done"]
    /\ \E by : record' \in {Recorded(r, "deny", by), record}
    /\ open' \subseteq open
    /\ answered' = answered \/ answered' = answered \cup {r}
    /\ r \in open' => r \in answered'
    /\ UNCHANGED <<reply, todo, hand, granted>>

\* The goroutine returns with a decision of its own: nobody else had claimed the question.
LEMMA Decides ==
    ASSUME NEW r \in Questions, Inv, Returns(r)
    PROVE  Inv'
  <1>1. r \notin answered /\ Undecided(r)
    BY DEF Inv, Waits, Undecided, Returns, Waiting
  <1>2. record[r] = <<>> /\ reply[r] = <<>> /\ r \notin todo /\ ~InHand(r)
    BY <1>1 DEF Inv, Owed, Claims, InHand
  <1>3. /\ record' = [s \in Questions |-> record'[s]] /\ Len(record'[r]) <= 1
        /\ \A s \in Questions : s # r => record'[s] = record[s]
    <2>1. PICK by : record' \in {Recorded(r, "deny", by), record}
      BY DEF Returns
    <2>2. QED
      BY <1>2, <2>1, Writes DEF Inv
  <1>4. /\ pc' = [s \in Questions |-> pc'[s]] /\ pc'[r] = "done"
        /\ \A s \in Questions : s # r => pc'[s] = pc[s]
    BY DEF Inv, Shape, Returns
  <1>5. \A s \in Questions : Undecided(s)' => s # r /\ Undecided(s)
    BY <1>2, <1>4 DEF Returns, Undecided, InHand, Waiting
  <1>6. Shape'
    BY <1>3, <1>4 DEF Inv, Shape, Returns
  <1>7. Owed'
    BY <1>3, <1>5 DEF Inv, Owed, Returns
  <1>8. Waits'
    BY <1>4 DEF Inv, Shape, Waits, Waiting, Returns
  <1>9. Claims'
    BY DEF Inv, Claims, InHand, Returns
  <1>10. r \notin granted
    BY <1>2, FirstEntry DEF Inv, Told, Allowed
  <1>11. \A s \in Questions : s # r => (Allowed(s) <=> Allowed(s)')
    BY <1>3 DEF Allowed
  <1>12. Told'
    BY <1>2, <1>10, <1>11, Sends DEF Inv, Told, Returns
  <1>13. DecidedOnce'
    BY <1>3 DEF Inv, DecidedOnce
  <1>14. QED
    BY <1>6, <1>7, <1>8, <1>9, <1>12, <1>13 DEF Inv

\* RequestApproval's section under rs.mu: the question is refused, denied or opened.
LEMMA Checks ==
    ASSUME NEW r \in Questions, Inv, Check(r)
    PROVE  Inv'
  <1>1. pc[r] = "check" /\ r \notin open /\ r \notin answered
    BY DEF Inv, Waits, Check
  <1>2. UNCHANGED <<reply, todo, hand, answered, granted>>
    BY DEF Check, lock, disp
  <1>3. CASE pc' = [pc EXCEPT ![r] = "done"] /\ open' = open
             /\ \E by : record' \in {Recorded(r, "deny", by), record}
    <2>1. Returns(r)
      BY <1>1, <1>2, <1>3 DEF Returns
    <2>2. QED
      BY <2>1, Decides
  <1>4. CASE pc' = [pc EXCEPT ![r] = "wait"] /\ open' = open \cup {r} /\ record' = record
    <2>1. /\ pc' = [s \in Questions |-> pc'[s]] /\ pc'[r] = "wait"
          /\ \A s \in Questions : s # r => pc'[s] = pc[s]
      BY <1>4 DEF Inv, Shape
    <2>2. \A s \in Questions : Undecided(s)' => Undecided(s)
      BY <1>1, <1>2, <2>1 DEF Undecided, InHand, Waiting
    <2>3. Shape'
      BY <1>2, <1>4, <2>1 DEF Inv, Shape
    <2>4. Owed'
      BY <1>2, <1>4, <2>2 DEF Inv, Owed
    <2>5. Waits'
      BY <1>1, <1>2, <1>4, <2>1 DEF Inv, Shape, Waits, Waiting
    <2>6. Claims' /\ Told' /\ DecidedOnce'
      BY <1>2, <1>4 DEF Inv, Claims, InHand, Told, Allowed, DecidedOnce
    <2>7. QED
      BY <2>3, <2>4, <2>5, <2>6 DEF Inv
  <1>5. QED
    BY <1>3, <1>4, Zenon DEF Check, Ends

\* finishRuntimeApproval of a question nobody has claimed.
LEMMA Finishes ==
    ASSUME NEW r \in Questions, Inv, Claim(r), r \notin answered
    PROVE  Inv'
  <1>1. Returns(r)
    BY DEF Returns, Claim, Ends, lock, disp
  <1>2. QED
    BY <1>1, Decides

\* The waiter receives what was sent, and tells the child.
LEMMA Takes ==
    ASSUME NEW r \in Questions, Inv, Take(r)
    PROVE  Inv'
  <1>1. ~Undecided(r)
    BY DEF Inv, Owed, Take
  <1>2. UNCHANGED <<record, open, todo, hand, answered>>
    BY DEF Take, lock, disp, tables
  <1>3. /\ pc' = [s \in Questions |-> pc'[s]] /\ pc'[r] = "done"
        /\ \A s \in Questions : s # r => pc'[s] = pc[s]
    BY DEF Inv, Shape, Take, Ends
  <1>4. /\ reply' = [s \in Questions |-> reply'[s]] /\ reply'[r] = <<>>
        /\ \A s \in Questions : s # r => reply'[s] = reply[s]
    BY DEF Inv, Shape, Take
  <1>5. \A s \in Questions : Undecided(s)' => s # r /\ Undecided(s)
    BY <1>1, <1>2, <1>3 DEF Undecided, InHand, Waiting
  <1>6. Shape'
    BY <1>2, <1>3, <1>4 DEF Inv, Shape
  <1>7. Owed'
    BY <1>2, <1>4, <1>5 DEF Inv, Owed
  <1>8. r \in open => r \in answered
    BY DEF Inv, Waits, Waiting, Take
  <1>9. Waits' /\ Claims'
    BY <1>2, <1>3, <1>8 DEF Inv, Shape, Waits, Claims, InHand
  <1>10. granted' = granted \/ (granted' = granted \cup {r} /\ reply[r] = <<"allow">>)
    <2>1. reply[r] \in {<<"allow">>, <<"deny">>}
      BY DEF Inv, Told, Take
    <2>2. CASE reply[r] = <<"deny">>
      <3>1. Head(reply[r]) = "deny"
        BY <2>2
      <3>2. QED
        BY <3>1 DEF Take
    <2>3. QED
      BY <2>1, <2>2 DEF Take
  <1>11. Told'
    BY <1>2, <1>4, <1>10, Sends DEF Inv, Told, Allowed
  <1>12. DecidedOnce'
    BY <1>2 DEF Inv, DecidedOnce
  <1>13. QED
    BY <1>6, <1>7, <1>9, <1>11, <1>12 DEF Inv

\* An answer claims the question it finds: from here on it owes the record and the send.
LEMMA Answers ==
    ASSUME NEW a \in Askers, NEW r \in Questions, NEW d \in {"allow", "deny"}, Inv,
           Answer(a, r, d)
    PROVE  Inv'
  <1>1. PICK s \in open : /\ s \notin answered /\ answered' = answered \cup {s}
                          /\ hand' = {[by |-> a, r |-> s, d |-> d]}
    BY DEF Answer
  <1>2. UNCHANGED <<record, reply, pc, open, todo, granted>>
    BY DEF Answer, disp
  <1>3. s \in Questions /\ pc[s] \in Waiting /\ s \notin todo
    BY <1>1 DEF Inv, Shape, Waits, Claims
  <1>4. \A q \in Questions : InHand(q)' <=> q = s
    BY <1>1 DEF InHand
  <1>5. \A q \in Questions : Undecided(q)' => Undecided(q)
    BY <1>1, <1>2, <1>3, <1>4 DEF Undecided
  <1>6. Shape'
    BY <1>1, <1>2, <1>3 DEF Inv, Shape
  <1>7. Owed'
    BY <1>2, <1>5 DEF Inv, Owed
  <1>8. Waits'
    BY <1>1, <1>2, <1>3 DEF Inv, Waits, Waiting
  <1>9. Claims'
    BY <1>1, <1>2, <1>3, <1>4 DEF Inv, Shape, Claims
  <1>10. Told' /\ DecidedOnce'
    BY <1>2 DEF Inv, Told, Allowed, DecidedOnce
  <1>11. QED
    BY <1>6, <1>7, <1>8, <1>9, <1>10 DEF Inv

\* The answer records its decision and sends it: an allow is sent only as it was recorded.
LEMMA Settles ==
    ASSUME Inv, Settle
    PROVE  Inv'
  <1>1. PICK x \in hand :
            \/ /\ record' = Recorded(x.r, x.d, x.by)
               /\ reply' = [reply EXCEPT ![x.r] = <<x.d>>]
            \/ reply' = [reply EXCEPT ![x.r] = <<"deny">>] /\ record' = record
    BY DEF Settle
  <1>2. PICK r \in Questions : r = x.r
    BY DEF Inv, Shape
  <1>3. hand' = {} /\ UNCHANGED <<pc, open, todo, answered, granted>>
    BY DEF Settle, tables, disp
  <1>4. r \in answered /\ r \notin todo /\ Undecided(r)
    BY <1>2 DEF Inv, Claims, Undecided, InHand
  <1>5. record[r] = <<>> /\ pc[r] \notin {"none", "check"}
    BY <1>4 DEF Inv, Owed, Waits
  <1>6. /\ record' = [s \in Questions |-> record'[s]] /\ Len(record'[r]) <= 1
        /\ \A s \in Questions : s # r => record'[s] = record[s]
    <2>1. record' \in {Recorded(r, x.d, x.by), record}
      BY <1>1, <1>2
    <2>2. QED
      BY <1>5, <2>1, Writes DEF Inv
  <1>7. x.d \in {"allow", "deny"} /\ x.by \in Askers
    BY DEF Inv, Shape
  <1>8. /\ reply' = [s \in Questions |-> reply'[s]]
        /\ \A s \in Questions : s # r => reply'[s] = reply[s]
    BY <1>1, <1>2 DEF Inv, Shape
  <1>9. \/ reply'[r] = <<"deny">>
        \/ reply'[r] = <<"allow">> /\ Allowed(r)'
    <2>1. CASE reply' = [reply EXCEPT ![x.r] = <<"deny">>]
      BY <1>2, <2>1 DEF Inv, Shape
    <2>2. CASE x.d = "allow" /\ record' = Recorded(x.r, x.d, x.by)
               /\ reply' = [reply EXCEPT ![x.r] = <<x.d>>]
      <3> DEFINE e == [decision |-> "allow", by |-> x.by]
      <3>1. record' = [record EXCEPT ![r] = Append(@, e)]
        BY <1>2, <2>2 DEF Recorded
      <3> HIDE DEF e
      <3>2. record'[r] = <<e>>
        BY <1>5, <3>1, FirstEntry DEF Inv, Shape
      <3>3. Allowed(r)'
        BY <1>7, <3>2 DEF Allowed, e
      <3>4. reply'[r] = <<"allow">>
        BY <1>2, <2>2 DEF Inv, Shape
      <3>5. QED
        BY <3>3, <3>4
    <2>3. QED
      BY <1>1, <1>7, <2>1, <2>2
  <1>10. \A s \in Questions : Undecided(s)' => s # r /\ Undecided(s)
    BY <1>3, <1>4, <1>5 DEF Undecided, InHand
  <1>11. Shape'
    BY <1>3, <1>6, <1>8 DEF Inv, Shape
  <1>12. Owed'
    BY <1>6, <1>8, <1>10 DEF Inv, Owed
  <1>13. Waits' /\ Claims'
    BY <1>3 DEF Inv, Waits, Claims, InHand
  <1>14. r \notin granted
    BY <1>5, FirstEntry DEF Inv, Told, Allowed
  <1>15. \A s \in Questions : s # r => (Allowed(s) <=> Allowed(s)')
    BY <1>6 DEF Allowed
  <1>16. Told'
    BY <1>3, <1>8, <1>9, <1>14, <1>15, Sends DEF Inv, Told
  <1>17. DecidedOnce'
    BY <1>6 DEF Inv, DecidedOnce
  <1>18. QED
    BY <1>11, <1>12, <1>13, <1>16, <1>17 DEF Inv

\* Every step keeps the invariant.
LEMMA Step == Inv /\ [Next]_vars => Inv'
  <1> SUFFICES ASSUME Inv, [Next]_vars
               PROVE  Inv'
    OBVIOUS
  <1>1. CASE StartTurn \/ Cleared \/ Abandon
    <2>1. UNCHANGED core
      BY <1>1 DEF StartTurn, Cleared, Abandon, core, lock, tables, disp
    <2>2. QED
      BY <2>1, Elsewhere
  <1>2. CASE ItemCompleted
    <2>1. todo = {} /\ UNCHANGED <<record, reply, pc, hand, granted>>
      BY <1>2 DEF ItemCompleted, Idle, lock
    <2>2. TakeOut({r \in open \ answered : r.turn = turn})
      BY <1>2 DEF ItemCompleted
    <2>3. QED
      BY <2>1, <2>2, TakesOut
  <1>3. CASE EndTurn
    <2>1. todo = {} /\ UNCHANGED <<record, reply, pc, hand, granted>>
      BY <1>3 DEF EndTurn, Idle
    <2>2. TakeOut({r \in open : r.turn = turn})
      BY <1>3 DEF EndTurn
    <2>3. QED
      BY <2>1, <2>2, TakesOut
  <1>4. CASE \E r \in Questions : Deny(r)
    BY <1>4, Denies
  <1>5. CASE Settle
    BY <1>5, Settles
  <1>6. CASE \E r \in Questions : Ask(r) \/ Waiter(r)
    <2>1. PICK r \in Questions : Ask(r) \/ Waiter(r)
      BY <1>6
    <2>2. CASE Check(r)
      BY <2>2, Checks
    <2>3. CASE Claim(r) /\ r \notin answered
      BY <2>3, Finishes
    <2>4. CASE Ask(r) \/ Wake(r) \/ (Claim(r) /\ r \in answered)
      BY <2>4, Moves
    <2>5. CASE Take(r)
      BY <2>5, Takes
    <2>6. QED
      BY <2>1, <2>2, <2>3, <2>4, <2>5 DEF Waiter
  <1>7. CASE \E r \in Questions : Expire(r)
    <2>1. UNCHANGED core
      BY <1>7 DEF Expire, core, lock, tables, disp
    <2>2. QED
      BY <2>1, Elsewhere
  <1>8. CASE \E r \in Questions : RequestResolved(r)
    <2>1. PICK r \in Questions : RequestResolved(r)
      BY <1>8
    <2>2. todo = {} /\ UNCHANGED <<record, reply, pc, hand, granted>>
      BY <2>1 DEF RequestResolved, Idle, lock
    <2>3. TakeOut({s \in open : s.id = r.id})
      BY <2>1 DEF RequestResolved
    <2>4. QED
      BY <2>2, <2>3, TakesOut
  <1>9. CASE \E a \in Askers : Attach(a) \/ Detach(a)
    <2>1. UNCHANGED core
      BY <1>9 DEF Attach, Detach, core, lock, tables, disp
    <2>2. QED
      BY <2>1, Elsewhere
  <1>10. CASE \E a \in Askers, r \in Questions, d \in {"allow", "deny"} : Answer(a, r, d)
    BY <1>10, Answers
  <1>11. CASE UNCHANGED vars
    <2>1. UNCHANGED core
      BY <1>11 DEF vars, core, lock, tables, disp
    <2>2. QED
      BY <2>1, Elsewhere
  <1>12. QED
    BY <1>1, <1>2, <1>3, <1>4, <1>5, <1>6, <1>7, <1>8, <1>9, <1>10, <1>11 DEF Next, Dispatch

\* At the start nobody has asked.
LEMMA Start == Init => Inv
  <1> SUFFICES ASSUME Init PROVE Inv
    OBVIOUS
  <1>1. Shape
    BY DEF Init, Shape
  <1>2. Owed /\ Waits /\ Claims
    BY DEF Init, Owed, Waits, Claims, Undecided, InHand
  <1>3. Told /\ DecidedOnce
    BY Sends DEF Init, Told, Allowed, DecidedOnce
  <1>4. QED
    BY <1>1, <1>2, <1>3 DEF Inv

\* Whatever the order in which an answer, a disconnect, a timeout, a withdrawal and the end of
\* an item or a turn reach a question (runtime_approval.go), its log gets at most one decision,
\* and the child hears "allow" only when that decision is an asker's recorded allow.
THEOREM OneDecision == Spec => []OneRecordedDecision
  <1>1. Inv => OneRecordedDecision
    BY DEF Inv, Told, Allowed, OneRecordedDecision, AllowIsRecorded
  <1>2. QED
    BY Start, Step, <1>1, PTL DEF Spec

-----------------------------------------------------------------------------
(* Signing in to an agent runtime                                          *)

\* A stack as a sequence of whatever frames, its frames counted from the outermost.
IsStack(s) == \E S : s \in Seq(S)
Fr(s, h) == s[Len(s) + 1 - h]
Same(t, s, k) == \A h \in 1..k : Fr(t, h) = Fr(s, h)

FrameKeys == {"fn", "at", "n", "ok", "m", "a", "ns"}
IsFrame(f) == f = [k \in FrameKeys |-> f[k]]

\* The frames of a login command, of starting a login for it and of how it ended name its
\* attempt, and a login of that attempt or none.
FrameOk(f, b) ==
    /\ IsFrame(f)
    /\ f.fn \in {"login", "finish", "begin"} =>
         /\ f.a \in SignIn!Attempts
         /\ f.n # 0 => f.n \in SignIn!Logins /\ b[f.n].a = f.a

\* StartLogin is called by the command, or by the fallback, for the same attempt.
Calls(g, f) == g.fn \in {"login", "finish"} /\ g.at = "bind" /\ g.a = f.a

StackOk(s, b) ==
    /\ IsStack(s)
    /\ \A h \in 1..Len(s) :
         /\ FrameOk(Fr(s, h), b)
         /\ Fr(s, h).fn = "begin" => h > 1 /\ Calls(Fr(s, h - 1), Fr(s, h))

\* A frame that will yet tell its attempt or pass it on: the command's, and finishLogin's once
\* it has taken the attempt.
Carries(f) == f.fn = "login" \/ (f.fn = "finish" /\ f.at # "claim")
Bears(s, h, a) == h \in 1..Len(s) /\ Carries(Fr(s, h)) /\ Fr(s, h).a = a

LoginShape ==
    /\ stack = [x \in SignIn!Actors |-> stack[x]]
    /\ \A x \in SignIn!Actors : StackOk(stack[x], begun)
    /\ begun = [n \in SignIn!Logins |-> begun[n]]
    /\ attempts \subseteq SignIn!Logins /\ \A n \in attempts : begun[n].a \in SignIn!Attempts
    /\ tries \in [Owners -> Nat] /\ ltold \in [SignIn!Attempts -> Nat]

\* An attempt is in one pair of hands: one frame's, or the table's under one login.
OneHand ==
    /\ \A x, y \in SignIn!Actors : \A a \in SignIn!Attempts : \A g, h :
         Bears(stack[x], g, a) /\ Bears(stack[y], h, a) => x = y /\ g = h
    /\ \A x \in SignIn!Actors : \A a \in SignIn!Attempts : \A h : \A n \in attempts :
         Bears(stack[x], h, a) => begun[n].a # a
    /\ \A n, k \in attempts : begun[n].a = begun[k].a => n = k

\* It is in nobody's once it was told.
LetGo(a) ==
    /\ \A x \in SignIn!Actors : \A h : ~Bears(stack[x], h, a)
    /\ \A n \in attempts : begun[n].a # a
ToldOnce == \A a \in SignIn!Attempts : ltold[a] = 0 \/ (ltold[a] = 1 /\ LetGo(a))

\* And in nobody's before its command.
NotYet == \A a \in SignIn!Attempts : a[2] > tries[a[1]] => ltold[a] = 0 /\ LetGo(a)

LoginInv == LoginShape /\ OneHand /\ ToldOnce /\ NotYet

LEMMA LoginTells == LoginInv => ToldAtMostOnce
  BY DEF LoginInv, LoginShape, ToldOnce, ToldAtMostOnce

LEMMA LoginInit == SignIn!Init => LoginInv
  <1> SUFFICES ASSUME SignIn!Init PROVE LoginInv
    OBVIOUS
  <1>1. /\ stack = [x \in SignIn!Actors |-> <<>>] /\ attempts = {}
        /\ ltold = [a \in SignIn!Attempts |-> 0] /\ tries = [o \in Owners |-> 0]
        /\ begun = [n \in SignIn!Logins |-> SignIn!NoLogin]
    BY DEF SignIn!Init
  <1>2. \A x \in SignIn!Actors : stack[x] = <<>> /\ Len(stack[x]) = 0
    BY <1>1
  <1>3. \A x \in SignIn!Actors : IsStack(stack[x])
    <2>1. <<>> \in Seq({})
      OBVIOUS
    <2> QED BY <1>2, <2>1 DEF IsStack
  <1>4. \A x \in SignIn!Actors : \A h, a : ~Bears(stack[x], h, a)
    BY <1>2 DEF Bears
  <1>5. LoginShape
    BY <1>1, <1>2, <1>3 DEF LoginShape, StackOk
  <1>6. OneHand
    BY <1>1, <1>4 DEF OneHand
  <1>7. ToldOnce /\ NotYet
    BY <1>1, <1>4 DEF ToldOnce, NotYet, LetGo
  <1> QED BY <1>5, <1>6, <1>7 DEF LoginInv

-----------------------------------------------------------------------------
(* Stacks                                                                  *)

LEMMA TailForm ==
    ASSUME NEW s, IsStack(s), s # <<>>
    PROVE  /\ Len(s) \in Nat \ {0} /\ Head(s) = Fr(s, Len(s))
           /\ IsStack(Tail(s)) /\ Len(Tail(s)) = Len(s) - 1
           /\ Same(Tail(s), s, Len(s) - 1)
  <1>1. PICK S : s \in Seq(S)
    BY DEF IsStack
  <1>2. Len(s) \in Nat \ {0} /\ Head(s) = s[1] /\ Tail(s) \in Seq(S) /\ Len(Tail(s)) = Len(s) - 1
    BY <1>1
  <1>3. \A i \in 1..(Len(s) - 1) : Tail(s)[i] = s[i + 1]
    BY <1>1
  <1>4. Head(s) = Fr(s, Len(s))
    BY <1>2 DEF Fr
  <1>5. IsStack(Tail(s))
    BY <1>2 DEF IsStack
  <1>6. ASSUME NEW h \in 1..(Len(s) - 1) PROVE Fr(Tail(s), h) = Fr(s, h)
    <2>1. Len(Tail(s)) + 1 - h \in 1..(Len(s) - 1) /\ Len(Tail(s)) + 1 - h + 1 = Len(s) + 1 - h
      BY <1>2
    <2> QED BY <1>3, <2>1 DEF Fr
  <1> QED BY <1>2, <1>4, <1>5, <1>6 DEF Same

LEMMA OnTop ==
    ASSUME NEW s, IsStack(s), NEW g, NEW t, t = <<g>> \o s
    PROVE  /\ Len(s) \in Nat /\ IsStack(t) /\ Len(t) = Len(s) + 1 /\ Fr(t, Len(s) + 1) = g
           /\ Same(t, s, Len(s))
  <1>1. PICK S : s \in Seq(S)
    BY DEF IsStack
  <1>2. PICK T : T = S \cup {g}
    OBVIOUS
  <1>3. s \in Seq(T) /\ <<g>> \in Seq(T)
    BY <1>1, <1>2
  <1>4. t \in Seq(T) /\ Len(s) \in Nat /\ Len(t) = Len(s) + 1
    BY <1>3
  <1>5. t[1] = g /\ \A i \in 2..(Len(s) + 1) : t[i] = s[i - 1]
    BY <1>3
  <1>6. IsStack(t)
    BY <1>4 DEF IsStack
  <1>7. Fr(t, Len(s) + 1) = g
    BY <1>4, <1>5 DEF Fr
  <1>8. ASSUME NEW h \in 1..Len(s) PROVE Fr(t, h) = Fr(s, h)
    <2>1. Len(t) + 1 - h \in 2..(Len(s) + 1) /\ Len(t) + 1 - h - 1 = Len(s) + 1 - h
      BY <1>4
    <2> QED BY <1>5, <2>1 DEF Fr
  <1> QED BY <1>4, <1>6, <1>7, <1>8 DEF Same

LEMMA ReplaceForm ==
    ASSUME NEW s, IsStack(s), s # <<>>, NEW g, NEW t, t = <<g>> \o Tail(s)
    PROVE  /\ Len(s) \in Nat \ {0} /\ Head(s) = Fr(s, Len(s)) /\ IsStack(t) /\ Len(t) = Len(s)
           /\ Fr(t, Len(s)) = g /\ Same(t, s, Len(s) - 1)
  <1>1. /\ Len(s) \in Nat \ {0} /\ Head(s) = Fr(s, Len(s)) /\ IsStack(Tail(s))
        /\ Len(Tail(s)) = Len(s) - 1
    BY TailForm
  <1>2. Same(Tail(s), s, Len(s) - 1)
    BY TailForm
  <1>3. /\ IsStack(t) /\ Len(t) = Len(Tail(s)) + 1 /\ Fr(t, Len(Tail(s)) + 1) = g
        /\ Same(t, Tail(s), Len(Tail(s)))
    BY <1>1, OnTop
  <1>4. Len(Tail(s)) + 1 = Len(s)
    BY <1>1
  <1>5. Same(t, s, Len(s) - 1)
    <2>1. Same(t, Tail(s), Len(s) - 1)
      BY <1>1, <1>3
    <2> QED BY <1>2, <2>1 DEF Same
  <1> QED BY <1>1, <1>3, <1>4, <1>5

PushedOn(t, s, f, g) ==
    /\ IsStack(t) /\ Len(t) = Len(s) + 1
    /\ Fr(t, Len(s)) = g /\ Fr(t, Len(s) + 1) = f /\ Same(t, s, Len(s) - 1)

LEMMA PushForm ==
    ASSUME NEW s, IsStack(s), s # <<>>, NEW f, NEW g
    PROVE  PushedOn(<<f, g>> \o Tail(s), s, f, g)
  <1> DEFINE t == <<f, g>> \o Tail(s)
  <1>1. /\ Len(s) \in Nat \ {0} /\ Head(s) = Fr(s, Len(s)) /\ IsStack(Tail(s))
        /\ Len(Tail(s)) = Len(s) - 1
    BY TailForm
  <1>2. Same(Tail(s), s, Len(s) - 1)
    BY TailForm
  <1>3. PICK r : r = Tail(s)
    OBVIOUS
  <1>4. PICK S : r \in Seq(S)
    BY <1>1, <1>3 DEF IsStack
  <1>5. PICK T : T = S \cup {f, g}
    OBVIOUS
  <1>6. r \in Seq(T) /\ <<f, g>> \in Seq(T) /\ t = <<f, g>> \o r
    BY <1>3, <1>4, <1>5
  <1>7. t \in Seq(T) /\ Len(t) = Len(s) + 1
    BY <1>1, <1>3, <1>6
  <1>8. t[1] = f /\ t[2] = g /\ \A i \in 3..(Len(s) + 1) : t[i] = r[i - 2]
    BY <1>1, <1>3, <1>6
  <1>9. IsStack(t)
    BY <1>7 DEF IsStack
  <1>10. Fr(t, Len(s)) = g /\ Fr(t, Len(s) + 1) = f
    BY <1>1, <1>7, <1>8 DEF Fr
  <1>11. ASSUME NEW h \in 1..(Len(s) - 1) PROVE Fr(t, h) = Fr(s, h)
    <2>1. Fr(r, h) = Fr(s, h)
      BY <1>2, <1>3 DEF Same
    <2>2. Len(t) + 1 - h \in 3..(Len(s) + 1) /\ Len(t) + 1 - h - 2 = Len(r) + 1 - h
      BY <1>1, <1>3, <1>7
    <2> QED BY <1>8, <2>1, <2>2 DEF Fr
  <1> QED BY <1>7, <1>9, <1>10, <1>11 DEF Same, PushedOn

\* No frame bears an attempt that did not before, at the same place.
NoNew(s, t) == \A h, a : Bears(t, h, a) => Bears(s, h, a)

\* A frame pops.
LEMMA Pops ==
    ASSUME NEW s, NEW b, StackOk(s, b), s # <<>>
    PROVE  StackOk(Tail(s), b) /\ NoNew(s, Tail(s))
  <1>0. IsStack(s)
    BY DEF StackOk
  <1>1. PICK t : t = Tail(s)
    OBVIOUS
  <1>2. /\ Len(s) \in Nat \ {0} /\ IsStack(t) /\ Len(t) = Len(s) - 1
        /\ Same(t, s, Len(s) - 1)
    BY <1>1, <1>0, TailForm
  <1>3. \A h \in 1..Len(t) :
          h \in 1..Len(s) /\ Fr(t, h) = Fr(s, h) /\ (h > 1 => Fr(t, h - 1) = Fr(s, h - 1))
    BY <1>2 DEF Same
  <1>4. StackOk(t, b)
    BY <1>2, <1>3 DEF StackOk
  <1>5. NoNew(s, t)
    BY <1>3 DEF NoNew, Bears
  <1> QED BY <1>1, <1>4, <1>5

\* The innermost frame goes on.
LEMMA Replaces ==
    ASSUME NEW s, NEW b, StackOk(s, b), s # <<>>, NEW g, FrameOk(g, b),
           g.fn = "begin" => Head(s).fn = "begin" /\ g.a = Head(s).a
    PROVE  /\ StackOk(<<g>> \o Tail(s), b)
           /\ (Carries(g) => Carries(Head(s)) /\ g.a = Head(s).a) => NoNew(s, <<g>> \o Tail(s))
           /\ \A h, a : Bears(<<g>> \o Tail(s), h, a)
                          => Bears(s, h, a) \/ (h = Len(s) /\ Carries(g) /\ a = g.a)
           /\ \A h, a : h # Len(s) => (Bears(<<g>> \o Tail(s), h, a) <=> Bears(s, h, a))
  <1>0. IsStack(s)
    BY DEF StackOk
  <1>1. PICK t : t = <<g>> \o Tail(s)
    OBVIOUS
  <1>2. /\ Len(s) \in Nat \ {0} /\ IsStack(t) /\ Len(t) = Len(s) /\ Head(s) = Fr(s, Len(s))
        /\ Fr(t, Len(s)) = g /\ Same(t, s, Len(s) - 1)
    BY <1>1, <1>0, ReplaceForm
  <1>3. \A h \in 1..Len(t) :
          /\ h \in 1..Len(s) /\ (h # Len(s) => Fr(t, h) = Fr(s, h))
          /\ h > 1 => Fr(t, h - 1) = Fr(s, h - 1)
    BY <1>2 DEF Same
  <1>4. StackOk(t, b)
    <2>1. ASSUME NEW h \in 1..Len(t)
          PROVE  /\ FrameOk(Fr(t, h), b)
                 /\ Fr(t, h).fn = "begin" => h > 1 /\ Calls(Fr(t, h - 1), Fr(t, h))
      <3>1. CASE h # Len(s)
        BY <1>3, <3>1 DEF StackOk
      <3>2. CASE h = Len(s)
        BY <1>2, <1>3, <3>2 DEF StackOk, Calls
      <3> QED BY <3>1, <3>2
    <2> QED BY <1>2, <2>1 DEF StackOk
  <1>5. (Carries(g) => Carries(Head(s)) /\ g.a = Head(s).a) => NoNew(s, t)
    BY <1>2, <1>3 DEF NoNew, Bears
  <1>6. \A h, a : Bears(t, h, a) => Bears(s, h, a) \/ (h = Len(s) /\ Carries(g) /\ a = g.a)
    BY <1>2, <1>3 DEF Bears
  <1>7. \A h, a : h # Len(s) => (Bears(t, h, a) <=> Bears(s, h, a))
    BY <1>2, <1>3 DEF Bears
  <1> QED BY <1>1, <1>4, <1>5, <1>6, <1>7

\* The innermost frame calls, and neither of the two bears what it did not.
LEMMA Pushes ==
    ASSUME NEW s, NEW b, StackOk(s, b), s # <<>>, NEW g, FrameOk(g, b), NEW f, FrameOk(f, b),
           g.fn = "begin" => Head(s).fn = "begin" /\ g.a = Head(s).a,
           f.fn = "begin" => Calls(g, f), ~Carries(f)
    PROVE  /\ StackOk(<<f, g>> \o Tail(s), b)
           /\ (Carries(g) => Carries(Head(s)) /\ g.a = Head(s).a) => NoNew(s, <<f, g>> \o Tail(s))
           /\ \A h, a : Bears(<<f, g>> \o Tail(s), h, a)
                          => Bears(s, h, a) \/ (h = Len(s) /\ Carries(g) /\ a = g.a)
           /\ \A h, a : h # Len(s) => (Bears(<<f, g>> \o Tail(s), h, a) <=> Bears(s, h, a))
  <1>0. IsStack(s)
    BY DEF StackOk
  <1>1. PICK t : t = <<f, g>> \o Tail(s)
    OBVIOUS
  <1>2. /\ Len(s) \in Nat \ {0} /\ IsStack(t) /\ Len(t) = Len(s) + 1 /\ Head(s) = Fr(s, Len(s))
        /\ Fr(t, Len(s)) = g /\ Fr(t, Len(s) + 1) = f /\ Same(t, s, Len(s) - 1)
    <2>1. PushedOn(t, s, f, g)
      BY <1>0, <1>1, PushForm
    <2>2. Len(s) \in Nat \ {0} /\ Head(s) = Fr(s, Len(s))
      BY <1>0, TailForm
    <2> QED BY <2>1, <2>2 DEF PushedOn
  <1>3. \A h \in 1..Len(t) :
          /\ h = Len(s) + 1 \/ h \in 1..Len(s)
          /\ h < Len(s) => Fr(t, h) = Fr(s, h)
          /\ h > 1 /\ h <= Len(s) => Fr(t, h - 1) = Fr(s, h - 1)
    BY <1>2 DEF Same
  <1>4. StackOk(t, b)
    <2>1. ASSUME NEW h \in 1..Len(t)
          PROVE  /\ FrameOk(Fr(t, h), b)
                 /\ Fr(t, h).fn = "begin" => h > 1 /\ Calls(Fr(t, h - 1), Fr(t, h))
      <3>1. CASE h < Len(s)
        BY <1>2, <1>3, <3>1 DEF StackOk
      <3>2. CASE h = Len(s)
        BY <1>2, <1>3, <3>2 DEF StackOk, Calls
      <3>3. CASE h = Len(s) + 1
        BY <1>2, <3>3
      <3> QED BY <1>2, <1>3, <3>1, <3>2, <3>3
    <2> QED BY <1>2, <2>1 DEF StackOk
  <1>5. \A h, a : Bears(t, h, a) => h \in 1..Len(s)
    BY <1>2, <1>3 DEF Bears
  <1>6. \A h, a : h # Len(s) => (Bears(t, h, a) <=> Bears(s, h, a))
    BY <1>2, <1>3, <1>5 DEF Bears
  <1>7. \A a : Bears(t, Len(s), a) => Carries(g) /\ a = g.a
    BY <1>2 DEF Bears
  <1>8. \A a : Carries(Head(s)) /\ a = Head(s).a => Bears(s, Len(s), a)
    BY <1>2 DEF Bears
  <1> QED BY <1>1, <1>4, <1>6, <1>7, <1>8 DEF NoNew
-----------------------------------------------------------------------------
(* One goroutine moves                                                     *)

\* The stack of x moves on, no login or attempt being passed to a frame that had it not.
GoesOn(x) ==
    /\ stack' = [stack EXCEPT ![x] = stack'[x]]
    /\ StackOk(stack'[x], begun) /\ NoNew(stack[x], stack'[x])

LEMMA FrameAt ==
    ASSUME NEW f, IsFrame(f), NEW v, NEW g, g = [f EXCEPT !.at = v]
    PROVE  IsFrame(g) /\ g.at = v /\ g.fn = f.fn /\ g.n = f.n /\ g.a = f.a
  BY DEF IsFrame, FrameKeys

\* f goes on as g: another step, another login.
OnAs(f, g, at, n) == IsFrame(g) /\ g.at = at /\ g.fn = f.fn /\ g.n = n /\ g.a = f.a

LEMMA FrameOn ==
    ASSUME NEW f, IsFrame(f), NEW v, NEW w
    PROVE  OnAs(f, [f EXCEPT !.n = v, !.ok = w], f.at, v)
  BY DEF OnAs, IsFrame, FrameKeys

LEMMA FrameSet ==
    ASSUME NEW f, IsFrame(f), NEW v, NEW w
    PROVE  /\ IsFrame([f EXCEPT !.at = v, !.ns = w]) /\ [f EXCEPT !.at = v, !.ns = w].fn = f.fn
           /\ IsFrame([f EXCEPT !.ns = w]) /\ [f EXCEPT !.ns = w].fn = f.fn
  BY DEF IsFrame, FrameKeys

LEMMA FrameSent ==
    ASSUME NEW f, IsFrame(f), NEW v, NEW w
    PROVE  OnAs(f, [f EXCEPT !.at = v, !.n = w], v, w)
  BY DEF OnAs, IsFrame, FrameKeys

LEMMA FrameEnded ==
    ASSUME NEW f, IsFrame(f), NEW v, NEW g, g = [f EXCEPT !.ok = v]
    PROVE  IsFrame(g) /\ g.at = f.at /\ g.fn = f.fn /\ g.n = f.n /\ g.a = f.a
  BY DEF IsFrame, FrameKeys

LEMMA FrameMade ==
    ASSUME NEW fn, NEW at, NEW n, NEW m, NEW a, NEW ns, NEW ok
    PROVE  /\ IsFrame(SignIn!Frame(fn, at, n, m, a)) /\ SignIn!Frame(fn, at, n, m, a).fn = fn
           /\ SignIn!Frame(fn, at, n, m, a).at = at /\ SignIn!Frame(fn, at, n, m, a).n = n
           /\ SignIn!Frame(fn, at, n, m, a).a = a
           /\ IsFrame(SignIn!Deliver(ns, ok)) /\ SignIn!Deliver(ns, ok).fn = "done"
  BY DEF SignIn!Frame, SignIn!Deliver, IsFrame, FrameKeys

\* The frame on top, and the stack under it.
LEMMA TopOk ==
    ASSUME NEW s, NEW b, StackOk(s, b), s # <<>>
    PROVE  /\ Len(s) \in Nat \ {0} /\ Head(s) = Fr(s, Len(s)) /\ FrameOk(Head(s), b)
           /\ Head(s).fn = "begin" =>
                Tail(s) # <<>> /\ StackOk(Tail(s), b) /\ Calls(Head(Tail(s)), Head(s))
  <1>0. IsStack(s)
    BY DEF StackOk
  <1>1. /\ Len(s) \in Nat \ {0} /\ Head(s) = Fr(s, Len(s))
        /\ IsStack(Tail(s)) /\ Len(Tail(s)) = Len(s) - 1 /\ Same(Tail(s), s, Len(s) - 1)
    BY <1>0, TailForm
  <1>2. FrameOk(Head(s), b)
    BY <1>1 DEF StackOk
  <1>3. ASSUME Head(s).fn = "begin"
        PROVE  Tail(s) # <<>> /\ StackOk(Tail(s), b) /\ Calls(Head(Tail(s)), Head(s))
    <2>1. Len(s) > 1 /\ Calls(Fr(s, Len(s) - 1), Fr(s, Len(s)))
      BY <1>1, <1>3 DEF StackOk
    <2>2. Tail(s) # <<>>
      <3>1. Len(Tail(s)) # 0
        BY <1>1, <2>1
      <3>2. Len(<<>>) = 0
        OBVIOUS
      <3> QED BY <3>1, <3>2
    <2>3. Head(Tail(s)) = Fr(Tail(s), Len(Tail(s)))
      BY <1>1, <2>2, TailForm
    <2>4. Fr(Tail(s), Len(Tail(s))) = Fr(s, Len(s) - 1)
      BY <1>1, <2>1 DEF Same
    <2>5. StackOk(Tail(s), b)
      BY Pops
    <2> QED BY <1>1, <2>1, <2>2, <2>3, <2>4, <2>5
  <1> QED BY <1>1, <1>2, <1>3

\* StartLogin's return hands its login to its caller's frame.
Returned(s, n, v) ==
    IF Tail(s) = <<>> \/ Head(s).fn # "begin" THEN Tail(s)
    ELSE <<[Head(Tail(s)) EXCEPT !.n = n, !.ok = v]>> \o Tail(Tail(s))

LEMMA ReturnForm ==
    ASSUME NEW s, NEW b, StackOk(s, b), s # <<>>, NEW n,
           Head(s).fn = "begin" /\ n # 0 => n \in SignIn!Logins /\ b[n].a = Head(s).a,
           NEW v
    PROVE  StackOk(Returned(s, n, v), b) /\ NoNew(s, Returned(s, n, v))
  <1>0. PICK t : t = Returned(s, n, v)
    OBVIOUS
  <1>1. StackOk(Tail(s), b) /\ NoNew(s, Tail(s))
    BY Pops
  <1>2. CASE Tail(s) = <<>> \/ Head(s).fn # "begin"
    BY <1>0, <1>1, <1>2 DEF Returned
  <1>3. CASE Tail(s) # <<>> /\ Head(s).fn = "begin"
    <2>1. PICK r, f, g : r = Tail(s) /\ f = Head(r) /\ g = [f EXCEPT !.n = n, !.ok = v]
      OBVIOUS
    <2>2. t = <<g>> \o Tail(r) /\ r # <<>> /\ StackOk(r, b)
      BY <1>0, <1>1, <1>3, <2>1 DEF Returned
    <2>3. Calls(f, Head(s)) /\ FrameOk(f, b) /\ FrameOk(Head(s), b)
      BY <1>3, <2>1, <2>2, TopOk
    <2>4. IsFrame(g) /\ g.n = n /\ g.fn = f.fn /\ g.at = f.at /\ g.a = f.a
      <3>1. OnAs(f, [f EXCEPT !.n = n, !.ok = v], f.at, n)
        BY <2>3, FrameOn DEF FrameOk
      <3> QED BY <2>1, <3>1 DEF OnAs
    <2>5. g.fn \in {"login", "finish"} /\ g.a = Head(s).a
      BY <2>3, <2>4 DEF Calls
    <2>6. FrameOk(g, b)
      BY <1>3, <2>3, <2>4, <2>5 DEF FrameOk
    <2>7. Carries(g) => Carries(Head(r)) /\ g.a = Head(r).a
      BY <2>1, <2>4 DEF Carries
    <2>8. g.fn = "begin" => Head(r).fn = "begin" /\ g.a = Head(r).a
      BY <2>5
    <2>9. StackOk(t, b) /\ NoNew(r, t)
      BY <2>2, <2>6, <2>7, <2>8, Replaces
    <2>10. NoNew(s, r)
      BY <1>1, <2>1
    <2>11. NoNew(s, t)
      BY <2>9, <2>10 DEF NoNew
    <2> QED BY <1>0, <2>9, <2>11
  <1> QED BY <1>0, <1>2, <1>3

LEMMA StackIs ==
    ASSUME LoginShape, NEW x \in SignIn!Actors, NEW t, stack' = [stack EXCEPT ![x] = t]
    PROVE  /\ stack'[x] = t /\ stack' = [stack EXCEPT ![x] = stack'[x]] /\ StackOk(stack[x], begun)
           /\ \A y \in SignIn!Actors : y # x => stack'[y] = stack[y]
           /\ stack' = [y \in SignIn!Actors |-> stack'[y]]
  BY DEF LoginShape

LEMMA ReturnMoves ==
    ASSUME LoginShape, NEW x \in SignIn!Actors, stack[x] # <<>>, NEW n,
           Head(stack[x]).fn = "begin" /\ n # 0
             => n \in SignIn!Logins /\ begun[n].a = Head(stack[x]).a,
           SignIn!Return(x, n)
    PROVE  GoesOn(x)
  <1>1. PICK s, v, t : s = stack[x] /\ v = (n # 0) /\ t = Returned(s, n, v)
    OBVIOUS
  <1>2. stack' = [stack EXCEPT ![x] = t]
    BY <1>1 DEF SignIn!Return, SignIn!Set, SignIn!Top, SignIn!None, Returned
  <1>3. stack'[x] = t /\ stack' = [stack EXCEPT ![x] = stack'[x]] /\ StackOk(s, begun)
    BY <1>1, <1>2, StackIs
  <1>4. s # <<>> /\ (Head(s).fn = "begin" /\ n # 0 => n \in SignIn!Logins /\ begun[n].a = Head(s).a)
    BY <1>1
  <1>5. StackOk(Returned(s, n, v), begun) /\ NoNew(s, Returned(s, n, v))
    BY <1>3, <1>4, ReturnForm
  <1> QED BY <1>1, <1>3, <1>5 DEF GoesOn

LEMMA ReplaceMoves ==
    ASSUME LoginShape, NEW x \in SignIn!Actors, stack[x] # <<>>, NEW g, FrameOk(g, begun),
           g.fn = "begin" => Head(stack[x]).fn = "begin" /\ g.a = Head(stack[x]).a,
           Carries(g) => Carries(Head(stack[x])) /\ g.a = Head(stack[x]).a,
           stack' = [stack EXCEPT ![x] = <<g>> \o Tail(stack[x])]
    PROVE  GoesOn(x)
  <1>1. PICK s, t : s = stack[x] /\ t = <<g>> \o Tail(s)
    OBVIOUS
  <1>2. stack'[x] = t /\ stack' = [stack EXCEPT ![x] = stack'[x]] /\ StackOk(s, begun)
    BY <1>1, StackIs
  <1>3. StackOk(t, begun) /\ NoNew(s, t)
    BY <1>1, <1>2, Replaces
  <1> QED BY <1>1, <1>2, <1>3 DEF GoesOn

LEMMA PushMoves ==
    ASSUME LoginShape, NEW x \in SignIn!Actors, stack[x] # <<>>, NEW g, FrameOk(g, begun),
           NEW f, FrameOk(f, begun), ~Carries(f), f.fn = "begin" => Calls(g, f),
           g.fn = "begin" => Head(stack[x]).fn = "begin" /\ g.a = Head(stack[x]).a,
           Carries(g) => Carries(Head(stack[x])) /\ g.a = Head(stack[x]).a,
           stack' = [stack EXCEPT ![x] = <<f, g>> \o Tail(stack[x])]
    PROVE  GoesOn(x)
  <1>1. PICK s, t : s = stack[x] /\ t = <<f, g>> \o Tail(s)
    OBVIOUS
  <1>2. stack'[x] = t /\ stack' = [stack EXCEPT ![x] = stack'[x]] /\ StackOk(s, begun)
    BY <1>1, StackIs
  <1>3. StackOk(t, begun) /\ NoNew(s, t)
    BY <1>1, <1>2, Pushes
  <1> QED BY <1>1, <1>2, <1>3 DEF GoesOn

LEMMA GotoMoves ==
    ASSUME LoginShape, NEW x \in SignIn!Actors, stack[x] # <<>>, NEW at,
           Head(stack[x]).fn = "finish" => Head(stack[x]).at # "claim", SignIn!Goto(x, at)
    PROVE  GoesOn(x)
  <1>1. PICK f, g : f = Head(stack[x]) /\ g = [f EXCEPT !.at = at]
    OBVIOUS
  <1>2. FrameOk(f, begun)
    BY <1>1, TopOk DEF LoginShape
  <1>3. IsFrame(g) /\ g.fn = f.fn /\ g.n = f.n /\ g.a = f.a
    BY <1>1, <1>2, FrameAt DEF FrameOk
  <1>4. FrameOk(g, begun) /\ (Carries(g) => Carries(f) /\ g.a = f.a)
    BY <1>1, <1>2, <1>3 DEF FrameOk, Carries
  <1>5. stack' = [stack EXCEPT ![x] = <<g>> \o Tail(stack[x])]
    BY <1>1 DEF SignIn!Goto, SignIn!Set, SignIn!Top
  <1> QED BY <1>1, <1>3, <1>4, <1>5, ReplaceMoves

LEMMA CallMoves ==
    ASSUME LoginShape, NEW x \in SignIn!Actors, stack[x] # <<>>, NEW at,
           Head(stack[x]).fn = "finish" => Head(stack[x]).at # "claim",
           NEW f, FrameOk(f, begun), ~Carries(f),
           f.fn = "begin" => /\ Head(stack[x]).fn \in {"login", "finish"} /\ at = "bind"
                             /\ f.a = Head(stack[x]).a,
           SignIn!Call(x, at, f)
    PROVE  GoesOn(x)
  <1>1. PICK e, g : e = Head(stack[x]) /\ g = [e EXCEPT !.at = at]
    OBVIOUS
  <1>2. FrameOk(e, begun)
    BY <1>1, TopOk DEF LoginShape
  <1>3. IsFrame(g) /\ g.fn = e.fn /\ g.n = e.n /\ g.a = e.a /\ g.at = at
    BY <1>1, <1>2, FrameAt DEF FrameOk
  <1>4. /\ FrameOk(g, begun) /\ (Carries(g) => Carries(e) /\ g.a = e.a)
        /\ f.fn = "begin" => Calls(g, f)
    BY <1>1, <1>2, <1>3 DEF FrameOk, Carries, Calls
  <1>5. stack' = [stack EXCEPT ![x] = <<f, g>> \o Tail(stack[x])]
    BY <1>1 DEF SignIn!Call, SignIn!Set, SignIn!Top
  <1> QED BY <1>1, <1>3, <1>4, <1>5, PushMoves

\* What neither passes an attempt on nor tells one keeps the invariant.
LEMMA Keeps ==
    ASSUME LoginInv, stack' = [y \in SignIn!Actors |-> stack'[y]],
           \A y \in SignIn!Actors : StackOk(stack'[y], begun') /\ NoNew(stack[y], stack'[y]),
           attempts' \subseteq attempts, begun' = [n \in SignIn!Logins |-> begun'[n]],
           \A n \in attempts : begun'[n].a = begun[n].a, tries' = tries, ltold' = ltold
    PROVE  LoginInv'
  <1>1. LoginShape'
    BY DEF LoginInv, LoginShape
  <1>2. \A y \in SignIn!Actors : \A h, a : Bears(stack'[y], h, a) => Bears(stack[y], h, a)
    BY DEF NoNew
  <1>3. \A a : LetGo(a) => LetGo(a)'
    BY <1>2 DEF LetGo
  <1>4. OneHand'
    <2>1. \A y, z \in SignIn!Actors : \A a \in SignIn!Attempts : \A g, h :
            Bears(stack'[y], g, a) /\ Bears(stack'[z], h, a) => y = z /\ g = h
      BY <1>2 DEF LoginInv, OneHand
    <2>2. \A y \in SignIn!Actors : \A a \in SignIn!Attempts : \A h : \A n \in attempts' :
            Bears(stack'[y], h, a) => begun'[n].a # a
      BY <1>2 DEF LoginInv, OneHand
    <2>3. \A n, k \in attempts' : begun'[n].a = begun'[k].a => n = k
      BY DEF LoginInv, OneHand
    <2> QED BY <2>1, <2>2, <2>3 DEF OneHand
  <1>5. ToldOnce' /\ NotYet'
    BY <1>3 DEF LoginInv, ToldOnce, NotYet
  <1> QED BY <1>1, <1>4, <1>5 DEF LoginInv

LEMMA MovesShape ==
    ASSUME LoginShape, NEW x \in SignIn!Actors, GoesOn(x) \/ stack' = stack
    PROVE  /\ stack' = [y \in SignIn!Actors |-> stack'[y]]
           /\ \A y \in SignIn!Actors : StackOk(stack'[y], begun) /\ NoNew(stack[y], stack'[y])
  BY DEF GoesOn, LoginShape, NoNew

LEMMA Stays ==
    ASSUME LoginInv, NEW x \in SignIn!Actors, GoesOn(x) \/ stack' = stack,
           attempts' \subseteq attempts, begun' = begun, tries' = tries, ltold' = ltold
    PROVE  LoginInv'
  <1>1. LoginShape
    BY DEF LoginInv
  <1>2. /\ stack' = [y \in SignIn!Actors |-> stack'[y]]
        /\ \A y \in SignIn!Actors : StackOk(stack'[y], begun') /\ NoNew(stack[y], stack'[y])
    BY <1>1, MovesShape
  <1>3. begun' = [n \in SignIn!Logins |-> begun'[n]] /\ \A n \in attempts : begun'[n].a = begun[n].a
    BY <1>1 DEF LoginShape
  <1> QED BY <1>2, <1>3, Keeps

-----------------------------------------------------------------------------
(* The steps that leave the attempts where they are                        *)

LEMMA AtTop ==
    ASSUME LoginShape, NEW x \in SignIn!Actors, NEW fn, NEW at, SignIn!At(x, fn, at)
    PROVE  /\ stack[x] # <<>> /\ Head(stack[x]).fn = fn /\ Head(stack[x]).at = at
           /\ FrameOk(Head(stack[x]), begun) /\ IsFrame(Head(stack[x]))
  <1>1. stack[x] # <<>> /\ Head(stack[x]).fn = fn /\ Head(stack[x]).at = at
    BY DEF SignIn!At, SignIn!Top
  <1>2. FrameOk(Head(stack[x]), begun)
    BY <1>1, TopOk DEF LoginShape
  <1> QED BY <1>1, <1>2 DEF FrameOk

\* The frames of Client.Start and of a delivery have no attempt.
LEMMA PlainFrame ==
    ASSUME NEW f, IsFrame(f), NEW b, f.fn \notin {"login", "finish", "begin"}
    PROVE  FrameOk(f, b) /\ ~Carries(f) /\ f.fn # "begin"
  BY DEF FrameOk, Carries

LEMMA StartProcOk ==
    ASSUME NEW x, NEW b
    PROVE  /\ FrameOk(SignIn!StartProc(x), b) /\ ~Carries(SignIn!StartProc(x))
           /\ SignIn!StartProc(x).fn = "proc"
  <1>1. IsFrame(SignIn!StartProc(x)) /\ SignIn!StartProc(x).fn = "proc"
    BY FrameMade DEF SignIn!StartProc
  <1> QED BY <1>1, PlainFrame

LEMMA DeliverOk ==
    ASSUME NEW ns, NEW ok, NEW b
    PROVE  /\ FrameOk(SignIn!Deliver(ns, ok), b) /\ ~Carries(SignIn!Deliver(ns, ok))
           /\ SignIn!Deliver(ns, ok).fn = "done"
  <1>1. IsFrame(SignIn!Deliver(ns, ok)) /\ SignIn!Deliver(ns, ok).fn = "done"
    BY FrameMade
  <1> QED BY <1>1, PlainFrame

LEMMA CollectMoves ==
    ASSUME LoginShape, NEW x \in SignIn!Actors, SignIn!Collect(x) PROVE GoesOn(x)
  <1>1. /\ stack[x] # <<>> /\ Head(stack[x]).fn = "proc" /\ IsFrame(Head(stack[x]))
    BY AtTop DEF SignIn!Collect
  <1>2. CASE SignIn!Return(x, 0)
    BY <1>1, <1>2, ReturnMoves
  <1>3. CASE ~SignIn!Return(x, 0)
    <2>1. PICK v, w : stack' = [stack EXCEPT ![x] =
                        <<[Head(stack[x]) EXCEPT !.at = v, !.ns = w]>> \o Tail(stack[x])]
      BY <1>3 DEF SignIn!Collect, SignIn!Set, SignIn!Top, SignIn!None
    <2>2. PICK g : g = [Head(stack[x]) EXCEPT !.at = v, !.ns = w]
      OBVIOUS
    <2>3. IsFrame(g) /\ g.fn = "proc"
      BY <1>1, <2>2 DEF IsFrame, FrameKeys
    <2>4. FrameOk(g, begun) /\ ~Carries(g) /\ g.fn # "begin"
      BY <2>3, PlainFrame
    <2> QED BY <1>1, <2>1, <2>2, <2>4, ReplaceMoves
  <1> QED BY <1>2, <1>3

LEMMA SpawnMoves ==
    ASSUME LoginShape, NEW x \in SignIn!Actors, SignIn!Spawn(x) PROVE GoesOn(x)
  <1>1. stack[x] # <<>>
    BY AtTop DEF SignIn!Spawn
  <1>2. PICK g : g = SignIn!Deliver(Head(stack[x]).ns, FALSE)
    OBVIOUS
  <1>3. FrameOk(g, begun) /\ ~Carries(g) /\ g.fn # "begin"
    BY <1>2, DeliverOk
  <1>4. stack' = [stack EXCEPT ![x] = <<g>> \o Tail(stack[x])]
    BY <1>2 DEF SignIn!Spawn, SignIn!Set, SignIn!Top
  <1> QED BY <1>1, <1>3, <1>4, ReplaceMoves

LEMMA TokenMoves ==
    ASSUME LoginShape, NEW x \in SignIn!Actors, SignIn!Token(x) PROVE GoesOn(x)
  <1>1. stack[x] # <<>> /\ Head(stack[x]).fn = "begin"
    BY AtTop DEF SignIn!Token
  <1>2. CASE SignIn!Return(x, 0)
    BY <1>1, <1>2, ReturnMoves
  <1>3. CASE SignIn!Call(x, "call", SignIn!StartProc(x))
    <2>1. /\ FrameOk(SignIn!StartProc(x), begun) /\ ~Carries(SignIn!StartProc(x))
          /\ SignIn!StartProc(x).fn # "begin"
      BY StartProcOk
    <2> QED BY <1>1, <1>3, <2>1, CallMoves
  <1> QED BY <1>2, <1>3 DEF SignIn!Token, SignIn!None

LEMMA LoginReplyMoves ==
    ASSUME LoginShape, NEW x \in SignIn!Actors, SignIn!LoginReply(x) PROVE GoesOn(x)
  <1>1. stack[x] # <<>> /\ Head(stack[x]).fn = "begin"
    BY AtTop DEF SignIn!LoginReply
  <1>2. CASE SignIn!Return(x, 0)
    BY <1>1, <1>2, ReturnMoves
  <1>3. CASE SignIn!Goto(x, "register")
    BY <1>1, <1>3, GotoMoves
  <1> QED BY <1>2, <1>3 DEF SignIn!LoginReply, SignIn!None

LEMMA RegisterMoves ==
    ASSUME LoginShape, NEW x \in SignIn!Actors, SignIn!Register(x) PROVE GoesOn(x)
  <1>1. stack[x] # <<>> /\ Head(stack[x]).fn = "begin"
    BY AtTop DEF SignIn!Register
  <1>2. CASE SignIn!Goto(x, "out")
    BY <1>1, <1>2, GotoMoves
  <1>3. CASE ~SignIn!Goto(x, "out")
    <2>1. PICK ns, ok : SignIn!Call(x, "out", SignIn!Deliver(ns, ok))
      BY <1>3 DEF SignIn!Register
    <2>2. PICK f : f = SignIn!Deliver(ns, ok)
      OBVIOUS
    <2>3. FrameOk(f, begun) /\ ~Carries(f) /\ f.fn # "begin"
      BY <2>2, DeliverOk
    <2> QED BY <1>1, <2>1, <2>2, <2>3, CallMoves
  <1> QED BY <1>2, <1>3

LEMMA BeginOutMoves ==
    ASSUME LoginShape, NEW x \in SignIn!Actors, SignIn!BeginOut(x) PROVE GoesOn(x)
  <1>1. stack[x] # <<>> /\ Head(stack[x]).fn = "begin" /\ FrameOk(Head(stack[x]), begun)
    BY AtTop DEF SignIn!BeginOut
  <1>2. PICK n : n = Head(stack[x]).n
    OBVIOUS
  <1>3. n # 0 => n \in SignIn!Logins /\ begun[n].a = Head(stack[x]).a
    BY <1>1, <1>2 DEF FrameOk
  <1>4. SignIn!Return(x, n)
    BY <1>2 DEF SignIn!BeginOut, SignIn!Top
  <1> QED BY <1>1, <1>3, <1>4, ReturnMoves

LEMMA GiveUpMoves ==
    ASSUME LoginShape, NEW x \in SignIn!Actors, SignIn!GiveUp(x) PROVE GoesOn(x)
  <1>1. stack[x] # <<>> /\ Head(stack[x]).fn = "login"
    BY AtTop DEF SignIn!GiveUp
  <1> QED BY <1>1, ReturnMoves DEF SignIn!GiveUp, SignIn!None

LEMMA AccountMoves ==
    ASSUME LoginShape, NEW x \in SignIn!Actors, SignIn!Account(x) PROVE GoesOn(x)
  <1>1. stack[x] # <<>> /\ Head(stack[x]).fn = "login"
    BY AtTop DEF SignIn!Account
  <1>2. /\ FrameOk(SignIn!StartProc(x), begun) /\ ~Carries(SignIn!StartProc(x))
        /\ SignIn!StartProc(x).fn # "begin"
    BY StartProcOk
  <1>3. SignIn!Call(x, "start", SignIn!StartProc(x))
    BY DEF SignIn!Account
  <1> QED BY <1>1, <1>2, <1>3, CallMoves

\* StartLogin for the attempt of its caller.
LEMMA BeginOk ==
    ASSUME NEW f, NEW b, FrameOk(f, b), f.fn \in {"login", "finish"}, NEW m, NEW g,
           g = SignIn!Frame("begin", "token", SignIn!None, m, f.a)
    PROVE  FrameOk(g, b) /\ ~Carries(g) /\ g.fn = "begin" /\ g.a = f.a
  <1>1. IsFrame(g) /\ g.fn = "begin" /\ g.n = 0 /\ g.a = f.a
    BY FrameMade DEF SignIn!None
  <1> QED BY <1>1 DEF FrameOk, Carries

LEMMA StartMoves ==
    ASSUME LoginShape, NEW x \in SignIn!Actors, SignIn!Start(x) PROVE GoesOn(x)
  <1>1. stack[x] # <<>> /\ Head(stack[x]).fn = "login" /\ FrameOk(Head(stack[x]), begun)
    BY AtTop DEF SignIn!Start
  <1>2. PICK f, m, g : /\ f = Head(stack[x]) /\ m = f.m
                       /\ g = SignIn!Frame("begin", "token", SignIn!None, m, f.a)
    OBVIOUS
  <1>3. FrameOk(g, begun) /\ ~Carries(g) /\ g.fn = "begin" /\ g.a = f.a
    BY <1>1, <1>2, BeginOk
  <1>4. SignIn!Call(x, "bind", g)
    BY <1>2 DEF SignIn!Start, SignIn!Top
  <1> QED BY <1>1, <1>2, <1>3, <1>4, CallMoves

LEMMA FallBackMoves ==
    ASSUME LoginShape, NEW x \in SignIn!Actors, SignIn!FallBack(x) PROVE GoesOn(x)
  <1>1. /\ stack[x] # <<>> /\ Head(stack[x]).fn = "finish" /\ Head(stack[x]).at = "failed"
        /\ FrameOk(Head(stack[x]), begun)
    BY AtTop DEF SignIn!FallBack
  <1>2. CASE SignIn!Goto(x, "tell")
    BY <1>1, <1>2, GotoMoves
  <1>3. CASE ~SignIn!Goto(x, "tell")
    <2>1. PICK f, g : /\ f = Head(stack[x])
                      /\ g = SignIn!Frame("begin", "token", SignIn!None, "device", f.a)
      OBVIOUS
    <2>2. FrameOk(g, begun) /\ ~Carries(g) /\ g.fn = "begin" /\ g.a = f.a
      BY <1>1, <2>1, BeginOk
    <2>3. SignIn!Call(x, "bind", g)
      BY <1>3, <2>1 DEF SignIn!FallBack, SignIn!Top
    <2> QED BY <1>1, <2>1, <2>2, <2>3, CallMoves
  <1> QED BY <1>2, <1>3

LEMMA ReadAccountMoves ==
    ASSUME LoginShape, NEW x \in SignIn!Actors, SignIn!ReadAccount(x) PROVE GoesOn(x)
  <1>1. /\ stack[x] # <<>> /\ Head(stack[x]).fn = "finish" /\ Head(stack[x]).at = "read"
    BY AtTop DEF SignIn!ReadAccount
  <1>2. PICK at : SignIn!Goto(x, at)
    BY DEF SignIn!ReadAccount
  <1> QED BY <1>1, <1>2, GotoMoves

\* finishLogin before it has claimed its attempt.
Finishing(n, m, a, ok) == [SignIn!Frame("finish", "claim", n, m, a) EXCEPT !.ok = ok]

LEMMA FinishingOk ==
    ASSUME NEW b, NEW n \in SignIn!Logins, NEW m, NEW ok, b[n].a \in SignIn!Attempts
    PROVE  /\ FrameOk(Finishing(n, m, b[n].a, ok), b) /\ ~Carries(Finishing(n, m, b[n].a, ok))
           /\ Finishing(n, m, b[n].a, ok).fn # "begin"
  <1>1. PICK a, f, g : /\ a = b[n].a /\ f = SignIn!Frame("finish", "claim", n, m, a)
                       /\ g = [f EXCEPT !.ok = ok]
    OBVIOUS
  <1>2. IsFrame(f) /\ f.fn = "finish" /\ f.at = "claim" /\ f.n = n /\ f.a = a
    BY <1>1, FrameMade
  <1>3. IsFrame(g) /\ g.at = f.at /\ g.fn = f.fn /\ g.n = f.n /\ g.a = f.a
    BY <1>1, <1>2, FrameEnded
  <1>4. FrameOk(g, b) /\ ~Carries(g) /\ g.fn # "begin"
    BY <1>1, <1>2, <1>3 DEF FrameOk, Carries
  <1> QED BY <1>1, <1>4 DEF Finishing

LEMMA CompletedMoves ==
    ASSUME LoginShape, NEW x \in SignIn!Actors, SignIn!Completed(x) PROVE GoesOn(x)
  <1>1. stack[x] # <<>> /\ Head(stack[x]).fn = "done" /\ IsFrame(Head(stack[x]))
    BY AtTop DEF SignIn!Completed
  <1>2. CASE SignIn!Return(x, 0)
    BY <1>1, <1>2, ReturnMoves
  <1>3. CASE ~SignIn!Return(x, 0)
    <2>1. PICK f : f = Head(stack[x])
      OBVIOUS
    <2>2. PICK n \in f.ns :
            LET rest == [f EXCEPT !.ns = @ \ {n}] IN
            IF n \in attempts /\ n \notin lfinished
            THEN SignIn!Set(x, <<Finishing(n, begun[n].m, begun[n].a, f.ok), rest>>
                                 \o Tail(stack[x]))
            ELSE SignIn!Set(x, <<rest>> \o Tail(stack[x]))
      BY <1>3, <2>1 DEF SignIn!Completed, SignIn!Top, SignIn!None, Finishing
    <2>3. PICK rest : rest = [f EXCEPT !.ns = @ \ {n}]
      OBVIOUS
    <2>4. IsFrame(rest) /\ rest.fn = "done"
      BY <1>1, <2>1, <2>3 DEF IsFrame, FrameKeys
    <2>5. FrameOk(rest, begun) /\ ~Carries(rest) /\ rest.fn # "begin"
      BY <2>4, PlainFrame
    <2>6. CASE n \in attempts /\ n \notin lfinished
      <3>1. PICK m, ok, g : m = begun[n].m /\ ok = f.ok /\ g = Finishing(n, m, begun[n].a, ok)
        OBVIOUS
      <3>2. n \in SignIn!Logins /\ begun[n].a \in SignIn!Attempts
        BY <2>6 DEF LoginShape
      <3>3. FrameOk(g, begun) /\ ~Carries(g) /\ g.fn # "begin"
        BY <3>1, <3>2, FinishingOk
      <3>4. stack' = [stack EXCEPT ![x] = <<g, rest>> \o Tail(stack[x])]
        BY <2>2, <2>3, <2>6, <3>1 DEF SignIn!Set
      <3> QED BY <1>1, <2>5, <3>3, <3>4, PushMoves
    <2>7. CASE ~(n \in attempts /\ n \notin lfinished)
      <3>1. stack' = [stack EXCEPT ![x] = <<rest>> \o Tail(stack[x])]
        BY <2>2, <2>3, <2>7 DEF SignIn!Set
      <3> QED BY <1>1, <2>5, <3>1, ReplaceMoves
    <2> QED BY <2>6, <2>7
  <1> QED BY <1>2, <1>3

\* A delivery on an idle goroutine.
LEMMA DeliverMoves ==
    ASSUME LoginShape, NEW x \in SignIn!Actors, NEW ns, NEW ok,
           stack' = [stack EXCEPT ![x] = <<SignIn!Deliver(ns, ok)>>]
    PROVE  GoesOn(x)
  <1>1. PICK f, t : f = SignIn!Deliver(ns, ok) /\ t = <<f>>
    OBVIOUS
  <1>2. FrameOk(f, begun) /\ ~Carries(f) /\ f.fn # "begin"
    BY <1>1, DeliverOk
  <1>3. IsStack(t) /\ Len(t) = 1 /\ t[1] = f
    <2>1. t \in Seq({f})
      BY <1>1
    <2> QED BY <1>1, <2>1 DEF IsStack
  <1>4. Fr(t, 1) = f
    BY <1>3 DEF Fr
  <1>5. \A h \in 1..Len(t) : h = 1
    BY <1>3
  <1>6. StackOk(t, begun)
    BY <1>2, <1>3, <1>4, <1>5 DEF StackOk
  <1>7. NoNew(stack[x], t)
    BY <1>2, <1>4, <1>5 DEF NoNew, Bears
  <1>8. stack'[x] = t /\ stack' = [stack EXCEPT ![x] = stack'[x]]
    BY <1>1, StackIs
  <1> QED BY <1>6, <1>7, <1>8 DEF GoesOn

\* What these steps leave alone.
LEMMA StepStays ==
    ASSUME LoginInv, NEW x \in SignIn!Actors,
           \/ SignIn!Collect(x) \/ SignIn!Spawn(x) \/ SignIn!Token(x) \/ SignIn!LoginReply(x)
           \/ SignIn!Register(x) \/ SignIn!BeginOut(x) \/ SignIn!GiveUp(x) \/ SignIn!Account(x)
           \/ SignIn!Start(x) \/ SignIn!Completed(x) \/ SignIn!ReadAccount(x) \/ SignIn!FallBack(x)
    PROVE  LoginInv'
  <1>1. LoginShape
    BY DEF LoginInv
  <1>2. GoesOn(x)
    BY <1>1, CollectMoves, SpawnMoves, TokenMoves, LoginReplyMoves, RegisterMoves, BeginOutMoves,
       GiveUpMoves, AccountMoves, StartMoves, CompletedMoves, ReadAccountMoves, FallBackMoves
  <1>3. attempts' = attempts /\ begun' = begun /\ tries' = tries /\ ltold' = ltold
    BY DEF SignIn!Collect, SignIn!Spawn, SignIn!Token, SignIn!LoginReply, SignIn!Register,
       SignIn!BeginOut, SignIn!GiveUp, SignIn!Account, SignIn!Start, SignIn!Completed,
       SignIn!ReadAccount, SignIn!FallBack, SignIn!smu, SignIn!child, SignIn!history
  <1> QED BY <1>2, <1>3, Stays

-----------------------------------------------------------------------------
(* The steps that begin an attempt, pass it on or tell it                  *)

LEMMA StackOkStays ==
    ASSUME NEW s, NEW b, StackOk(s, b), NEW c,
           \A k \in SignIn!Logins : b[k].a \in SignIn!Attempts => c[k].a = b[k].a
    PROVE  StackOk(s, c)
  BY DEF StackOk, FrameOk

\* A login that has not begun is no attempt's.
LEMMA NoLoginsAttempt == SignIn!NoLogin.a \notin SignIn!Attempts
  <1>1. \A a \in SignIn!Attempts : a[2] \in 1..LoginTries
    BY DEF SignIn!Attempts
  <1>2. SignIn!NoLogin.a[2] = 0
    BY DEF SignIn!NoLogin, SignIn!None
  <1> QED BY <1>1, <1>2

LEMMA LoginStartKeeps ==
    ASSUME LoginInv, NEW x \in SignIn!Actors, SignIn!LoginStart(x) PROVE LoginInv'
  <1>1. LoginShape
    BY DEF LoginInv
  <1>2. /\ stack[x] # <<>> /\ Head(stack[x]).fn = "begin" /\ FrameOk(Head(stack[x]), begun)
        /\ IsFrame(Head(stack[x]))
    BY <1>1, AtTop DEF SignIn!LoginStart
  <1>3. attempts' = attempts /\ tries' = tries /\ ltold' = ltold
    BY DEF SignIn!LoginStart, SignIn!smu, SignIn!history
  <1>4. CASE SignIn!Return(x, 0) /\ begun' = begun
    <2>1. GoesOn(x)
      BY <1>1, <1>2, <1>4, ReturnMoves
    <2> QED BY <1>3, <1>4, <2>1, Stays
  <1>5. CASE ~(SignIn!Return(x, 0) /\ begun' = begun)
    <2>1. PICK f, a : f = Head(stack[x]) /\ a = f.a
      OBVIOUS
    <2>2. PICK n \in SignIn!Logins :
            /\ begun[n] = SignIn!NoLogin
            /\ begun' = [begun EXCEPT ![n] = [p |-> lcur, m |-> f.m, a |-> a]]
            /\ SignIn!Set(x, <<[f EXCEPT !.at = "wait", !.n = n]>> \o Tail(stack[x]))
      BY <1>5, <2>1 DEF SignIn!LoginStart, SignIn!child, SignIn!Top, SignIn!None
    <2>3. PICK b : b = [begun EXCEPT ![n] = [p |-> lcur, m |-> f.m, a |-> a]]
      OBVIOUS
    <2>4. /\ b = [k \in SignIn!Logins |-> b[k]] /\ b[n].a = a
          /\ \A k \in SignIn!Logins : k # n => b[k] = begun[k]
      BY <1>1, <2>3 DEF LoginShape
    <2>5. \A k \in SignIn!Logins : begun[k].a \in SignIn!Attempts => b[k].a = begun[k].a
      BY <2>2, <2>4, NoLoginsAttempt
    <2>6. PICK g : g = [f EXCEPT !.at = "wait", !.n = n]
      OBVIOUS
    <2>7. IsFrame(g) /\ g.fn = "begin" /\ g.n = n /\ g.a = a
      <3>1. OnAs(f, [f EXCEPT !.at = "wait", !.n = n], "wait", n)
        BY <1>2, <2>1, FrameSent
      <3> QED BY <1>2, <2>1, <2>6, <3>1 DEF OnAs
    <2>8. FrameOk(g, b) /\ ~Carries(g)
      BY <1>2, <2>1, <2>2, <2>4, <2>7 DEF FrameOk, Carries
    <2>9. ASSUME NEW y \in SignIn!Actors PROVE StackOk(stack[y], b)
      <3>1. StackOk(stack[y], begun)
        BY <1>1 DEF LoginShape
      <3> QED BY <2>5, <3>1, StackOkStays
    <2>10. PICK t : t = <<g>> \o Tail(stack[x])
      OBVIOUS
    <2>11. StackOk(t, b) /\ NoNew(stack[x], t)
      <3>1. StackOk(stack[x], b) /\ g.a = Head(stack[x]).a
        BY <2>1, <2>7, <2>9
      <3> QED BY <1>2, <2>8, <2>10, <3>1, Replaces
    <2>12. /\ stack'[x] = t /\ stack' = [y \in SignIn!Actors |-> stack'[y]]
           /\ \A y \in SignIn!Actors : y # x => stack'[y] = stack[y]
      BY <1>1, <2>2, <2>6, <2>10, StackIs DEF SignIn!Set
    <2>13. \A y \in SignIn!Actors : StackOk(stack'[y], b) /\ NoNew(stack[y], stack'[y])
      BY <2>9, <2>11, <2>12 DEF NoNew
    <2>14. begun' = b
      BY <2>2, <2>3
    <2>15. \A k \in attempts : begun'[k].a = begun[k].a
      BY <1>1, <2>5, <2>14 DEF LoginShape
    <2> QED BY <1>3, <2>4, <2>12, <2>13, <2>14, <2>15, Keeps
  <1> QED BY <1>4, <1>5

\* The innermost frame, where it bears its attempt; and where it has passed it on.
LEMMA TopBears ==
    ASSUME NEW s, NEW b, StackOk(s, b), s # <<>>, Carries(Head(s))
    PROVE  Bears(s, Len(s), Head(s).a)
  <1>1. Len(s) \in Nat \ {0} /\ Head(s) = Fr(s, Len(s))
    BY TopOk
  <1> QED BY <1>1 DEF Bears

LEMMA PopReleases ==
    ASSUME NEW s, IsStack(s), s # <<>>, NEW a PROVE ~Bears(Tail(s), Len(s), a)
  <1>1. Len(s) \in Nat \ {0} /\ Len(Tail(s)) = Len(s) - 1
    BY TailForm
  <1> QED BY <1>1 DEF Bears

LEMMA ReplaceReleases ==
    ASSUME NEW s, IsStack(s), s # <<>>, NEW g, ~Carries(g), NEW a
    PROVE  ~Bears(<<g>> \o Tail(s), Len(s), a)
  <1>1. PICK t : t = <<g>> \o Tail(s)
    OBVIOUS
  <1>2. Fr(t, Len(s)) = g
    BY <1>1, ReplaceForm
  <1> QED BY <1>1, <1>2 DEF Bears

\* The attempt of x's innermost frame was in no other hands; once released it is in none.
LEMMA OnlyTop ==
    ASSUME LoginInv, NEW x \in SignIn!Actors, stack[x] # <<>>, Carries(Head(stack[x])),
           NEW a \in SignIn!Attempts, a = Head(stack[x]).a
    PROVE  /\ \A y \in SignIn!Actors : \A h : Bears(stack[y], h, a) => y = x /\ h = Len(stack[x])
           /\ \A n \in attempts : begun[n].a # a
           /\ ltold[a] = 0 /\ ~(a[2] > tries[a[1]])
  <1>1. Bears(stack[x], Len(stack[x]), a)
    BY TopBears DEF LoginInv, LoginShape
  <1>2. ASSUME NEW y \in SignIn!Actors, NEW h, Bears(stack[y], h, a)
        PROVE  y = x /\ h = Len(stack[x])
    <2>1. \A u, v \in SignIn!Actors : \A e \in SignIn!Attempts : \A g, k :
            Bears(stack[u], g, e) /\ Bears(stack[v], k, e) => u = v /\ g = k
      BY DEF LoginInv, OneHand
    <2> QED BY <1>1, <1>2, <2>1
  <1>3. \A n \in attempts : begun[n].a # a
    BY <1>1 DEF LoginInv, OneHand
  <1>4. ltold[a] = 0
    BY <1>1 DEF LoginInv, ToldOnce, LetGo
  <1>5. ~(a[2] > tries[a[1]])
    BY <1>1 DEF LoginInv, NotYet, LetGo
  <1> QED BY <1>2, <1>3, <1>4, <1>5

LEMMA TellKeeps ==
    ASSUME LoginInv, NEW x \in SignIn!Actors, SignIn!Tell(x) PROVE LoginInv'
  <1>1. LoginShape
    BY DEF LoginInv
  <1>2. /\ stack[x] # <<>> /\ Head(stack[x]).fn = "finish" /\ Head(stack[x]).at = "tell"
        /\ FrameOk(Head(stack[x]), begun)
    BY <1>1, AtTop DEF SignIn!Tell
  <1>3. PICK a : a = Head(stack[x]).a
    OBVIOUS
  <1>4. a \in SignIn!Attempts /\ Carries(Head(stack[x]))
    BY <1>2, <1>3 DEF FrameOk, Carries
  <1>5. /\ attempts' = attempts /\ tries' = tries /\ begun' = begun
        /\ ltold' = [ltold EXCEPT ![a] = @ + 1] /\ SignIn!Return(x, 0)
    BY <1>3 DEF SignIn!Tell, SignIn!smu, SignIn!child, SignIn!Top, SignIn!None
  <1>6. GoesOn(x)
    BY <1>1, <1>2, <1>5, ReturnMoves
  <1>7. /\ stack' = [y \in SignIn!Actors |-> stack'[y]]
        /\ \A y \in SignIn!Actors : StackOk(stack'[y], begun) /\ NoNew(stack[y], stack'[y])
    BY <1>1, <1>6, MovesShape
  <1>8. \A y \in SignIn!Actors : \A h, e : Bears(stack'[y], h, e) => Bears(stack[y], h, e)
    BY <1>7 DEF NoNew
  <1>9. /\ \A y \in SignIn!Actors : \A h : Bears(stack[y], h, a) => y = x /\ h = Len(stack[x])
        /\ \A n \in attempts : begun[n].a # a
        /\ ltold[a] = 0 /\ ~(a[2] > tries[a[1]])
    BY <1>2, <1>3, <1>4, OnlyTop
  <1>10. stack'[x] = Tail(stack[x]) /\ IsStack(stack[x])
    <2>1. stack' = [stack EXCEPT ![x] = Tail(stack[x])]
      BY <1>2, <1>5 DEF SignIn!Return, SignIn!Set, SignIn!Top
    <2> QED BY <1>1, <2>1, StackIs DEF StackOk
  <1>11. ~Bears(stack'[x], Len(stack[x]), a)
    BY <1>2, <1>10, PopReleases
  <1>12. LetGo(a)'
    BY <1>5, <1>8, <1>9, <1>11 DEF LetGo
  <1>13. \A e : LetGo(e) => LetGo(e)'
    BY <1>5, <1>8 DEF LetGo
  <1>14. /\ ltold' \in [SignIn!Attempts -> Nat] /\ ltold'[a] = 1
         /\ \A e \in SignIn!Attempts : e # a => ltold'[e] = ltold[e]
    BY <1>1, <1>4, <1>5, <1>9 DEF LoginShape
  <1>15. LoginShape'
    BY <1>1, <1>5, <1>7, <1>14 DEF LoginShape
  <1>16. OneHand'
    <2>1. \A y, z \in SignIn!Actors : \A e \in SignIn!Attempts : \A g, h :
            Bears(stack'[y], g, e) /\ Bears(stack'[z], h, e) => y = z /\ g = h
      BY <1>8 DEF LoginInv, OneHand
    <2>2. \A y \in SignIn!Actors : \A e \in SignIn!Attempts : \A h : \A n \in attempts' :
            Bears(stack'[y], h, e) => begun'[n].a # e
      BY <1>5, <1>8 DEF LoginInv, OneHand
    <2>3. \A n, k \in attempts' : begun'[n].a = begun'[k].a => n = k
      BY <1>5 DEF LoginInv, OneHand
    <2> QED BY <2>1, <2>2, <2>3 DEF OneHand
  <1>17. ToldOnce'
    BY <1>12, <1>13, <1>14 DEF LoginInv, ToldOnce
  <1>18. NotYet'
    BY <1>5, <1>9, <1>13, <1>14 DEF LoginInv, NotYet
  <1> QED BY <1>15, <1>16, <1>17, <1>18 DEF LoginInv

LEMMA BindKeeps ==
    ASSUME LoginInv, NEW x \in SignIn!Actors, SignIn!Bind(x) PROVE LoginInv'
  <1>1. LoginShape
    BY DEF LoginInv
  <1>2. PICK f : f = Head(stack[x])
    OBVIOUS
  <1>3. /\ stack[x] # <<>> /\ f.fn \in {"login", "finish"} /\ f.at = "bind" /\ FrameOk(f, begun)
    BY <1>1, <1>2, AtTop DEF SignIn!Bind
  <1>4. begun' = begun /\ tries' = tries /\ ltold' = ltold
    BY DEF SignIn!Bind, SignIn!child
  <1>5. CASE attempts' = attempts /\ (SignIn!Return(x, 0) \/ SignIn!Goto(x, "tell"))
    <2>1. CASE SignIn!Return(x, 0)
      <3>1. GoesOn(x)
        BY <1>1, <1>3, <2>1, ReturnMoves
      <3> QED BY <1>4, <1>5, <3>1, Stays
    <2>2. CASE SignIn!Goto(x, "tell")
      <3>1. GoesOn(x)
        BY <1>1, <1>2, <1>3, <2>2, GotoMoves
      <3> QED BY <1>4, <1>5, <3>1, Stays
    <2> QED BY <1>5, <2>1, <2>2
  <1>6. CASE ~(attempts' = attempts /\ (SignIn!Return(x, 0) \/ SignIn!Goto(x, "tell")))
    <2>1. PICK n, a : n = f.n /\ a = f.a
      OBVIOUS
    <2>2. /\ n # 0 /\ attempts' = attempts \cup {n}
          /\ \/ SignIn!Return(x, 0)
             \/ \E ok : SignIn!Set(x, <<Finishing(n, f.m, a, ok)>> \o Tail(stack[x]))
      BY <1>2, <1>6, <2>1 DEF SignIn!Bind, SignIn!Top, SignIn!None, Finishing
    <2>3. n \in SignIn!Logins /\ begun[n].a = a /\ a \in SignIn!Attempts /\ Carries(f)
      BY <1>3, <2>1, <2>2 DEF FrameOk, Carries
    <2>4. IsStack(stack[x])
      BY <1>1 DEF LoginShape, StackOk
    <2>5. GoesOn(x) /\ ~Bears(stack'[x], Len(stack[x]), a)
      <3>1. CASE SignIn!Return(x, 0)
        <4>1. stack' = [stack EXCEPT ![x] = Tail(stack[x])]
          BY <1>2, <1>3, <3>1 DEF SignIn!Return, SignIn!Set, SignIn!Top
        <4>2. stack'[x] = Tail(stack[x])
          BY <1>1, <4>1, StackIs
        <4>3. GoesOn(x)
          BY <1>1, <1>2, <1>3, <3>1, ReturnMoves
        <4> QED BY <1>3, <2>4, <4>2, <4>3, PopReleases
      <3>2. CASE \E ok : SignIn!Set(x, <<Finishing(n, f.m, a, ok)>> \o Tail(stack[x]))
        <4>1. PICK ok, m, g : /\ m = f.m /\ g = Finishing(n, m, a, ok)
                              /\ SignIn!Set(x, <<g>> \o Tail(stack[x]))
          BY <3>2
        <4>2. FrameOk(g, begun) /\ ~Carries(g) /\ g.fn # "begin"
          BY <2>3, <4>1, FinishingOk
        <4>3. stack' = [stack EXCEPT ![x] = <<g>> \o Tail(stack[x])]
          BY <4>1 DEF SignIn!Set
        <4>4. stack'[x] = <<g>> \o Tail(stack[x])
          BY <1>1, <4>3, StackIs
        <4>5. GoesOn(x)
          BY <1>1, <1>3, <4>2, <4>3, ReplaceMoves
        <4> QED BY <1>3, <2>4, <4>2, <4>4, <4>5, ReplaceReleases
      <3> QED BY <2>2, <3>1, <3>2
    <2>6. /\ stack' = [y \in SignIn!Actors |-> stack'[y]]
          /\ \A y \in SignIn!Actors : StackOk(stack'[y], begun) /\ NoNew(stack[y], stack'[y])
      BY <1>1, <2>5, MovesShape
    <2>7. \A y \in SignIn!Actors : \A h, e : Bears(stack'[y], h, e) => Bears(stack[y], h, e)
      BY <2>6 DEF NoNew
    <2>8. /\ \A y \in SignIn!Actors : \A h : Bears(stack[y], h, a) => y = x /\ h = Len(stack[x])
          /\ \A k \in attempts : begun[k].a # a
          /\ ltold[a] = 0 /\ ~(a[2] > tries[a[1]])
      BY <1>2, <1>3, <2>1, <2>3, OnlyTop
    <2>9. \A y \in SignIn!Actors : \A h : ~Bears(stack'[y], h, a)
      BY <2>5, <2>7, <2>8
    <2>10. \A e : e # a /\ LetGo(e) => LetGo(e)'
      BY <1>4, <2>2, <2>3, <2>7 DEF LetGo
    <2>11. LoginShape'
      BY <1>1, <1>4, <2>2, <2>3, <2>6 DEF LoginShape
    <2>12. OneHand'
      <3>1. \A y, z \in SignIn!Actors : \A e \in SignIn!Attempts : \A g, h :
              Bears(stack'[y], g, e) /\ Bears(stack'[z], h, e) => y = z /\ g = h
        BY <2>7 DEF LoginInv, OneHand
      <3>2. ASSUME NEW y \in SignIn!Actors, NEW e \in SignIn!Attempts, NEW h, NEW k \in attempts',
                   Bears(stack'[y], h, e)
            PROVE  begun'[k].a # e
        <4>1. Bears(stack[y], h, e) /\ e # a
          BY <2>7, <2>9, <3>2
        <4>2. k \in attempts \/ k = n
          BY <2>2
        <4>3. k \in attempts => begun[k].a # e
          BY <4>1 DEF LoginInv, OneHand
        <4> QED BY <1>4, <2>3, <4>1, <4>2, <4>3
      <3>3. \A j, k \in attempts' : begun'[j].a = begun'[k].a => j = k
        BY <1>4, <2>2, <2>3, <2>8 DEF LoginInv, OneHand
      <3> QED BY <3>1, <3>2, <3>3 DEF OneHand
    <2>13. ToldOnce'
      BY <1>4, <2>8, <2>10 DEF LoginInv, ToldOnce
    <2>14. NotYet'
      BY <1>4, <2>8, <2>10 DEF LoginInv, NotYet
    <2> QED BY <2>11, <2>12, <2>13, <2>14 DEF LoginInv
  <1> QED BY <1>5, <1>6

LEMMA ClaimKeeps ==
    ASSUME LoginInv, NEW x \in SignIn!Actors, SignIn!Claim(x) PROVE LoginInv'
  <1>1. LoginShape
    BY DEF LoginInv
  <1>2. PICK f, n, a : f = Head(stack[x]) /\ n = f.n /\ a = f.a
    OBVIOUS
  <1>3. stack[x] # <<>> /\ f.fn = "finish" /\ f.at = "claim" /\ FrameOk(f, begun) /\ IsFrame(f)
    BY <1>1, <1>2, AtTop DEF SignIn!Claim
  <1>4. begun' = begun /\ tries' = tries /\ ltold' = ltold
    BY DEF SignIn!Claim, SignIn!child, SignIn!history
  <1>5. CASE n \notin attempts
    <2>1. attempts' = attempts /\ SignIn!Return(x, 0)
      BY <1>2, <1>5 DEF SignIn!Claim, SignIn!Top, SignIn!None
    <2>2. GoesOn(x)
      BY <1>1, <1>2, <1>3, <2>1, ReturnMoves
    <2> QED BY <1>4, <2>1, <2>2, Stays
  <1>6. CASE n \in attempts
    <2>1. /\ attempts' = attempts \ {n}
          /\ SignIn!Goto(x, "failed") \/ SignIn!Call(x, "read", SignIn!StartProc(x))
      BY <1>2, <1>6 DEF SignIn!Claim, SignIn!Top
    <2>2. n \in SignIn!Logins /\ n # 0 /\ begun[n].a = a /\ a \in SignIn!Attempts
      BY <1>1, <1>2, <1>3, <1>6 DEF LoginShape, FrameOk, SignIn!Logins
    <2>3. PICK s : s = stack[x]
      OBVIOUS
    <2>4. /\ stack' = [y \in SignIn!Actors |-> stack'[y]] /\ StackOk(stack'[x], begun)
          /\ \A y \in SignIn!Actors : y # x => stack'[y] = stack[y]
          /\ \A h, e : Bears(stack'[x], h, e) => Bears(s, h, e) \/ (h = Len(s) /\ e = a)
      <3>1. StackOk(s, begun) /\ s # <<>> /\ Head(s) = f
        BY <1>1, <1>2, <1>3, <2>3 DEF LoginShape
      <3>2. CASE SignIn!Goto(x, "failed")
        <4>1. PICK g : g = [f EXCEPT !.at = "failed"]
          OBVIOUS
        <4>2. IsFrame(g) /\ g.fn = f.fn /\ g.n = f.n /\ g.a = f.a
          BY <1>3, <4>1 DEF IsFrame, FrameKeys
        <4>3. FrameOk(g, begun) /\ g.fn # "begin"
          BY <1>3, <4>2 DEF FrameOk
        <4>4. PICK t : t = <<g>> \o Tail(s)
          OBVIOUS
        <4>5. stack' = [stack EXCEPT ![x] = t]
          BY <1>2, <2>3, <3>2, <4>1, <4>4 DEF SignIn!Goto, SignIn!Set, SignIn!Top
        <4>6. /\ StackOk(t, begun)
              /\ \A h, e : Bears(t, h, e)
                           => Bears(s, h, e) \/ (h = Len(s) /\ Carries(g) /\ e = g.a)
          BY <3>1, <4>3, <4>4, Replaces
        <4>7. /\ stack'[x] = t /\ stack' = [y \in SignIn!Actors |-> stack'[y]]
              /\ \A y \in SignIn!Actors : y # x => stack'[y] = stack[y]
          BY <1>1, <4>5, StackIs
        <4>8. g.a = a
          BY <1>2, <4>2
        <4> QED BY <4>6, <4>7, <4>8
      <3>3. CASE SignIn!Call(x, "read", SignIn!StartProc(x))
        <4>1. PICK g, p : g = [f EXCEPT !.at = "read"] /\ p = SignIn!StartProc(x)
          OBVIOUS
        <4>2. IsFrame(g) /\ g.fn = f.fn /\ g.n = f.n /\ g.a = f.a
          BY <1>3, <4>1 DEF IsFrame, FrameKeys
        <4>3. FrameOk(g, begun) /\ g.fn # "begin"
          BY <1>3, <4>2 DEF FrameOk
        <4>4. FrameOk(p, begun) /\ ~Carries(p) /\ p.fn # "begin"
          BY <4>1, StartProcOk
        <4>5. PICK t : t = <<p, g>> \o Tail(s)
          OBVIOUS
        <4>6. stack' = [stack EXCEPT ![x] = t]
          BY <1>2, <2>3, <3>3, <4>1, <4>5 DEF SignIn!Call, SignIn!Set, SignIn!Top
        <4>7. /\ StackOk(t, begun)
              /\ \A h, e : Bears(t, h, e)
                           => Bears(s, h, e) \/ (h = Len(s) /\ Carries(g) /\ e = g.a)
          BY <3>1, <4>3, <4>4, <4>5, Pushes
        <4>8. /\ stack'[x] = t /\ stack' = [y \in SignIn!Actors |-> stack'[y]]
              /\ \A y \in SignIn!Actors : y # x => stack'[y] = stack[y]
          BY <1>1, <4>6, StackIs
        <4>9. g.a = a
          BY <1>2, <4>2
        <4> QED BY <4>7, <4>8, <4>9
      <3> QED BY <2>1, <3>2, <3>3
    <2>5. \A y \in SignIn!Actors : \A h, e :
            Bears(stack'[y], h, e) => Bears(stack[y], h, e) \/ (y = x /\ h = Len(s) /\ e = a)
      BY <2>3, <2>4
    <2>6. \A y \in SignIn!Actors : \A h : ~Bears(stack[y], h, a)
      BY <1>6, <2>2 DEF LoginInv, OneHand
    <2>7. \A k \in attempts' : begun[k].a # a
      BY <1>6, <2>1, <2>2 DEF LoginInv, OneHand
    <2>8. ltold[a] = 0 /\ ~(a[2] > tries[a[1]])
      BY <1>6, <2>2 DEF LoginInv, ToldOnce, NotYet, LetGo
    <2>9. ASSUME NEW e, e # a, LetGo(e) PROVE LetGo(e)'
      <3>1. ASSUME NEW y \in SignIn!Actors, NEW h PROVE ~Bears(stack'[y], h, e)
        <4>1. ~Bears(stack[y], h, e)
          BY <2>9 DEF LetGo
        <4> QED BY <2>5, <2>9, <4>1
      <3>2. \A k \in attempts' : begun'[k].a # e
        BY <1>4, <2>1, <2>9 DEF LetGo
      <3> QED BY <3>1, <3>2 DEF LetGo
    <2>10. LoginShape'
      <3>1. \A y \in SignIn!Actors : StackOk(stack'[y], begun)
        BY <1>1, <2>4 DEF LoginShape
      <3> QED BY <1>1, <1>4, <2>1, <2>4, <3>1 DEF LoginShape
    <2>11. OneHand'
      <3>1. ASSUME NEW y \in SignIn!Actors, NEW z \in SignIn!Actors, NEW e \in SignIn!Attempts,
                   NEW g, NEW h, Bears(stack'[y], g, e) /\ Bears(stack'[z], h, e)
            PROVE  y = z /\ g = h
        <4>1. CASE e = a
          <5>1. ~Bears(stack[y], g, e) /\ ~Bears(stack[z], h, e)
            BY <2>6, <4>1
          <5>2. Bears(stack'[y], g, e) => Bears(stack[y], g, e) \/ (y = x /\ g = Len(s))
            BY <2>5
          <5>3. Bears(stack'[z], h, e) => Bears(stack[z], h, e) \/ (z = x /\ h = Len(s))
            BY <2>5
          <5> QED BY <3>1, <5>1, <5>2, <5>3
        <4>2. CASE e # a
          <5>1. Bears(stack[y], g, e) /\ Bears(stack[z], h, e)
            BY <2>5, <3>1, <4>2
          <5>2. \A u, v \in SignIn!Actors : \A c \in SignIn!Attempts : \A i, k :
                  Bears(stack[u], i, c) /\ Bears(stack[v], k, c) => u = v /\ i = k
            BY DEF LoginInv, OneHand
          <5> QED BY <5>1, <5>2
        <4> QED BY <4>1, <4>2
      <3>2. ASSUME NEW y \in SignIn!Actors, NEW e \in SignIn!Attempts, NEW h, NEW k \in attempts',
                   Bears(stack'[y], h, e)
            PROVE  begun'[k].a # e
        <4>1. CASE e = a
          BY <1>4, <2>7, <4>1
        <4>2. CASE e # a
          <5>1. Bears(stack[y], h, e)
            BY <2>5, <3>2, <4>2
          <5> QED BY <1>4, <2>1, <5>1 DEF LoginInv, OneHand
        <4> QED BY <4>1, <4>2
      <3>3. \A j, k \in attempts' : begun'[j].a = begun'[k].a => j = k
        BY <1>4, <2>1 DEF LoginInv, OneHand
      <3> QED BY <3>1, <3>2, <3>3 DEF OneHand
    <2>12. ToldOnce'
      BY <1>4, <2>8, <2>9 DEF LoginInv, ToldOnce
    <2>13. NotYet'
      BY <1>4, <2>8, <2>9 DEF LoginInv, NotYet
    <2> QED BY <2>10, <2>11, <2>12, <2>13 DEF LoginInv
  <1> QED BY <1>5, <1>6

\* A login command alone on its stack.
LEMMA CommandOk ==
    ASSUME NEW b, NEW a \in SignIn!Attempts, NEW m, NEW t,
           t = <<SignIn!Frame("login", "account", SignIn!None, m, a)>>
    PROVE  StackOk(t, b) /\ \A h, e : Bears(t, h, e) => h = 1 /\ e = a
  <1>1. PICK f : f = SignIn!Frame("login", "account", SignIn!None, m, a)
    OBVIOUS
  <1>2. IsFrame(f) /\ f.fn = "login" /\ f.n = 0 /\ f.a = a
    BY <1>1, FrameMade DEF SignIn!None
  <1>3. IsStack(t) /\ Len(t) = 1 /\ t[1] = f
    <2>1. t \in Seq({f})
      BY <1>1
    <2> QED BY <1>1, <2>1 DEF IsStack
  <1>4. Fr(t, 1) = f /\ \A h \in 1..Len(t) : h = 1
    BY <1>3 DEF Fr
  <1>5. StackOk(t, b)
    BY <1>2, <1>3, <1>4 DEF StackOk, FrameOk
  <1>6. \A h, e : Bears(t, h, e) => h = 1 /\ e = a
    BY <1>2, <1>4 DEF Bears
  <1> QED BY <1>5, <1>6

LEMMA LoginKeeps ==
    ASSUME LoginInv, NEW o \in Owners, NEW m, SignIn!Login(o, m) PROVE LoginInv'
  <1>1. LoginShape /\ o \in SignIn!Actors
    BY DEF LoginInv, SignIn!Actors
  <1>2. PICK n, a : n = tries[o] + 1 /\ a = <<o, n>>
    OBVIOUS
  <1>3. tries[o] \in Nat /\ tries[o] < LoginTries /\ n \in 1..LoginTries
    BY <1>1, <1>2, LoginAssumption DEF SignIn!Login, LoginShape
  <1>4. a \in SignIn!Attempts /\ a[1] = o /\ a[2] = n
    BY <1>2, <1>3 DEF SignIn!Attempts
  <1>5. /\ attempts' \subseteq attempts /\ begun' = begun /\ ltold' = ltold
        /\ tries' = [tries EXCEPT ![o] = @ + 1]
    BY DEF SignIn!Login, SignIn!Disown, SignIn!child
  <1>6. PICK t : t = <<SignIn!Frame("login", "account", SignIn!None, m, a)>>
    OBVIOUS
  <1>7. stack' = [stack EXCEPT ![o] = t]
    BY <1>2, <1>6 DEF SignIn!Login, SignIn!Set
  <1>8. StackOk(t, begun) /\ \A h, e : Bears(t, h, e) => h = 1 /\ e = a
    BY <1>4, <1>6, CommandOk
  <1>9. /\ stack'[o] = t /\ stack' = [y \in SignIn!Actors |-> stack'[y]]
        /\ \A y \in SignIn!Actors : y # o => stack'[y] = stack[y]
    BY <1>1, <1>7, StackIs
  <1>10. \A y \in SignIn!Actors : \A h, e :
           Bears(stack'[y], h, e) => Bears(stack[y], h, e) \/ (y = o /\ h = 1 /\ e = a)
    BY <1>8, <1>9
  <1>11. ltold[a] = 0 /\ LetGo(a)
    BY <1>2, <1>3, <1>4 DEF LoginInv, NotYet
  <1>12. ASSUME NEW e, e # a, LetGo(e) PROVE LetGo(e)'
    <2>1. ASSUME NEW y \in SignIn!Actors, NEW h PROVE ~Bears(stack'[y], h, e)
      <3>1. ~Bears(stack[y], h, e)
        BY <1>12 DEF LetGo
      <3> QED BY <1>10, <1>12, <3>1
    <2>2. \A k \in attempts' : begun'[k].a # e
      BY <1>5, <1>12 DEF LetGo
    <2> QED BY <2>1, <2>2 DEF LetGo
  <1>13. /\ tries' \in [Owners -> Nat] /\ tries'[o] = n
         /\ \A p \in Owners : p # o => tries'[p] = tries[p]
    BY <1>1, <1>2, <1>3, <1>5 DEF LoginShape
  <1>14. LoginShape'
    <2>1. \A y \in SignIn!Actors : StackOk(stack'[y], begun)
      BY <1>1, <1>8, <1>9 DEF LoginShape
    <2> QED BY <1>1, <1>5, <1>9, <1>13, <2>1 DEF LoginShape
  <1>15. OneHand'
    <2>1. ASSUME NEW y \in SignIn!Actors, NEW z \in SignIn!Actors, NEW e \in SignIn!Attempts,
                 NEW g, NEW h, Bears(stack'[y], g, e) /\ Bears(stack'[z], h, e)
          PROVE  y = z /\ g = h
      <3>1. CASE e = a
        <4>1. ~Bears(stack[y], g, e) /\ ~Bears(stack[z], h, e)
          BY <1>11, <3>1 DEF LetGo
        <4>2. Bears(stack'[y], g, e) => Bears(stack[y], g, e) \/ (y = o /\ g = 1)
          BY <1>10
        <4>3. Bears(stack'[z], h, e) => Bears(stack[z], h, e) \/ (z = o /\ h = 1)
          BY <1>10
        <4> QED BY <2>1, <4>1, <4>2, <4>3
      <3>2. CASE e # a
        <4>1. Bears(stack[y], g, e) /\ Bears(stack[z], h, e)
          BY <1>10, <2>1, <3>2
        <4>2. \A u, v \in SignIn!Actors : \A c \in SignIn!Attempts : \A i, k :
                Bears(stack[u], i, c) /\ Bears(stack[v], k, c) => u = v /\ i = k
          BY DEF LoginInv, OneHand
        <4> QED BY <4>1, <4>2
      <3> QED BY <3>1, <3>2
    <2>2. ASSUME NEW y \in SignIn!Actors, NEW e \in SignIn!Attempts, NEW h, NEW k \in attempts',
                 Bears(stack'[y], h, e)
          PROVE  begun'[k].a # e
      <3>1. CASE e = a
        BY <1>5, <1>11, <3>1 DEF LetGo
      <3>2. CASE e # a
        <4>1. Bears(stack[y], h, e)
          BY <1>10, <2>2, <3>2
        <4> QED BY <1>5, <4>1 DEF LoginInv, OneHand
      <3> QED BY <3>1, <3>2
    <2>3. \A j, k \in attempts' : begun'[j].a = begun'[k].a => j = k
      BY <1>5 DEF LoginInv, OneHand
    <2> QED BY <2>1, <2>2, <2>3 DEF OneHand
  <1>16. ToldOnce'
    BY <1>5, <1>11, <1>12 DEF LoginInv, ToldOnce
  <1>17. NotYet'
    <2>1. ASSUME NEW e \in SignIn!Attempts, e[2] > tries'[e[1]]
          PROVE  ltold'[e] = 0 /\ LetGo(e)'
      <3>1. e # a
        BY <1>3, <1>4, <1>13, <2>1
      <3>2. e[1] \in Owners /\ e[2] \in 1..LoginTries
        BY DEF SignIn!Attempts
      <3>3. e[2] > tries[e[1]]
        <4>1. tries[e[1]] \in Nat /\ tries'[e[1]] \in Nat /\ tries[e[1]] <= tries'[e[1]]
          BY <1>1, <1>2, <1>3, <1>13, <3>2 DEF LoginShape
        <4>2. e[2] \in Int /\ LoginTries \in Int
          BY <3>2, LoginAssumption
        <4> QED BY <2>1, <4>1, <4>2
      <3> QED BY <1>5, <1>12, <3>1, <3>3 DEF LoginInv, NotYet
    <2> QED BY <2>1 DEF NotYet
  <1> QED BY <1>14, <1>15, <1>16, <1>17 DEF LoginInv

LEMMA LoginInvStep ==
    ASSUME LoginInv, [SignIn!Next]_(SignIn!vars) PROVE LoginInv'
  <1>1. LoginShape /\ SignIn!Dispatcher \in SignIn!Actors
    BY DEF LoginInv, SignIn!Actors
  <1>2. ASSUME stack' = stack, attempts' \subseteq attempts, begun' = begun, tries' = tries,
               ltold' = ltold
        PROVE  LoginInv'
    BY <1>1, <1>2, Stays
  <1>3. CASE SignIn!Next
    <2>1. ASSUME NEW x \in SignIn!Actors, SignIn!Step(x) PROVE LoginInv'
      BY <2>1, StepStays, LoginStartKeeps, BindKeeps, ClaimKeeps, TellKeeps DEF SignIn!Step
    <2>2. ASSUME NEW o \in Owners, SignIn!Disconnect(o) PROVE LoginInv'
      BY <1>2, <2>2 DEF SignIn!Disconnect, SignIn!Disown, SignIn!child
    <2>3. ASSUME NEW o \in Owners, NEW m, SignIn!Login(o, m) PROVE LoginInv'
      BY <2>3, LoginKeeps
    <2>4. ASSUME NEW n, SignIn!Cancelled(n) PROVE LoginInv'
      BY <1>2, <2>4 DEF SignIn!Cancelled, SignIn!smu, SignIn!history
    <2>5. ASSUME NEW n, NEW ok, SignIn!Complete(n, ok) PROVE LoginInv'
      BY <1>2, <2>5 DEF SignIn!Complete, SignIn!smu, SignIn!history
    <2>6. ASSUME NEW p, SignIn!Die(p) PROVE LoginInv'
      BY <1>2, <2>6 DEF SignIn!Die, SignIn!smu, SignIn!history
    <2>7. ASSUME NEW p, SignIn!Watch(p) PROVE LoginInv'
      BY <1>2, <2>7 DEF SignIn!Watch, SignIn!smu, SignIn!child, SignIn!history
    <2>8. ASSUME SignIn!Dispatch PROVE LoginInv'
      <3>1. attempts' = attempts /\ begun' = begun /\ tries' = tries /\ ltold' = ltold
        BY <2>8 DEF SignIn!Dispatch, SignIn!smu, SignIn!child, SignIn!history
      <3>2. CASE stack' = stack
        BY <1>2, <3>1, <3>2
      <3>3. CASE stack' # stack
        <4>1. PICK ns, ok :
                stack' = [stack EXCEPT ![SignIn!Dispatcher] = <<SignIn!Deliver(ns, ok)>>]
          BY <2>8, <3>3 DEF SignIn!Dispatch, SignIn!Set
        <4>2. GoesOn(SignIn!Dispatcher)
          BY <1>1, <4>1, DeliverMoves
        <4> QED BY <1>1, <3>1, <4>2, Stays
      <3> QED BY <3>2, <3>3
    <2> QED BY <1>3, <2>1, <2>2, <2>3, <2>4, <2>5, <2>6, <2>7, <2>8 DEF SignIn!Next
  <1>4. CASE UNCHANGED SignIn!vars
    BY <1>2, <1>4 DEF SignIn!vars, SignIn!smu, SignIn!child, SignIn!history
  <1> QED BY <1>3, <1>4

\* No attempt to sign in is told twice how it ended: the response, the completion, the death of
\* its process (collected by Client.Start and again by the dispatcher) and the fallback to a
\* device code pass one token, which is in the command's or finishLogin's hands or in
\* s.loginAttempts.
THEOREM EndsOnce == SignIn!Spec => []ToldAtMostOnce
  <1>1. LoginInv /\ [SignIn!Next]_(SignIn!vars) => LoginInv'
    BY LoginInvStep
  <1> QED BY <1>1, LoginInit, LoginTells, PTL DEF SignIn!Spec

-----------------------------------------------------------------------------
(* The folds of the memory plugin                                          *)

KeptIs == [known : BOOLEAN, on : BOOLEAN, folding : BOOLEAN, finalize : BOOLEAN]
FoldIs == [st : {"none", "folds", "folded"}, fin : BOOLEAN]
HistIs == [opens : Nat, on : BOOLEAN, turns : Nat, closes : Nat, read : Nat, final : Nat]
FoldShape ==
    /\ kept \in [Folded -> KeptIs] /\ attached \in [Folded -> BOOLEAN]
    /\ fold \in [Folded -> FoldIs] /\ hist \in [Folded -> HistIs]

\* The finalize of a closed session ran over all it said.
Finalized(h) == h.final = h.closes /\ h.read = h.turns

\* A session whose memory is on has a fold exactly when the plugin says so, and one only while
\* it is known.  An open session is known and has no finalize ahead of it; a closed one is
\* forgotten once that has run, and until then has one running, or asked for.
Session(k, up, f, h) ==
    /\ f.st # "none" <=> k.folding
    /\ k.folding => k.known
    /\ k.known => k.on = h.on /\ h.opens > 0
    /\ k.folding => k.on
    /\ k.finalize => k.folding /\ ~f.fin
    /\ up => k.known /\ ~k.finalize /\ (f.st # "none" => ~f.fin)
    /\ ~up /\ k.known => h.on /\ k.folding /\ (f.fin \/ k.finalize)
    /\ ~up /\ k.known /\ f.fin /\ f.st = "folded" => Finalized(h)
    /\ ~up /\ ~k.known /\ h.on => Finalized(h)

FoldInv == FoldShape /\ \A s \in Folded : Session(kept[s], attached[s], fold[s], hist[s])

LEMMA FoldInvGives == FoldInv => FinalizedAfterClose
  BY DEF FoldInv, FoldShape, Session, Finalized, FinalizedAfterClose, Memory!FinalizedAfterClose,
         KeptIs, FoldIs, HistIs

LEMMA FoldInit == Memory!Init => FoldInv
  BY DEF Memory!Init, FoldInv, FoldShape, Session, Finalized, KeptIs, FoldIs, HistIs,
         Memory!Forgotten, Memory!NoFold

\* A step that moves one session.
LEMMA FoldStep ==
    ASSUME FoldInv, NEW s \in Folded, NEW k \in KeptIs, NEW up \in BOOLEAN, NEW f \in FoldIs,
           NEW h \in HistIs, Session(k, up, f, h),
           kept' = [kept EXCEPT ![s] = k], attached' = [attached EXCEPT ![s] = up],
           fold' = [fold EXCEPT ![s] = f], hist' = [hist EXCEPT ![s] = h]
    PROVE  FoldInv'
  <1>1. FoldShape'
    BY DEF FoldInv, FoldShape
  <1>2. ASSUME NEW r \in Folded PROVE Session(kept'[r], attached'[r], fold'[r], hist'[r])
    BY DEF FoldInv, FoldShape
  <1> QED BY <1>1, <1>2 DEF FoldInv

\* What is so of a session, with its parts in hand.
LEMMA SessionIs ==
    ASSUME FoldInv, NEW s \in Folded
    PROVE  /\ kept[s] \in KeptIs /\ attached[s] \in BOOLEAN /\ fold[s] \in FoldIs
           /\ hist[s] \in HistIs /\ Session(kept[s], attached[s], fold[s], hist[s])
           /\ kept = [kept EXCEPT ![s] = kept[s]] /\ attached = [attached EXCEPT ![s] = attached[s]]
           /\ fold = [fold EXCEPT ![s] = fold[s]] /\ hist = [hist EXCEPT ![s] = hist[s]]
  BY DEF FoldInv, FoldShape

LEMMA OpenedKeeps ==
    ASSUME FoldInv, ~Resumes, NEW s \in Folded, NEW on \in BOOLEAN, Memory!OnOpened(s, on)
    PROVE  FoldInv'
  <1>1. PICK k, f, h : k = kept[s] /\ f = fold[s] /\ h = hist[s]
    OBVIOUS
  <1>2. /\ ~attached[s] /\ f.st = "none" /\ (h.opens > 0 => on = h.on)
        /\ attached' = [attached EXCEPT ![s] = TRUE] /\ fold' = [fold EXCEPT ![s] = f]
        /\ kept' = [kept EXCEPT ![s] = [k EXCEPT !.known = TRUE, !.on = on]]
        /\ hist' = [hist EXCEPT ![s] = [h EXCEPT !.opens = h.opens + 1, !.on = on]]
    <2>1. /\ ~attached[s] /\ f.st = "none" /\ (h.opens > 0 => on = h.on)
          /\ attached' = [attached EXCEPT ![s] = TRUE] /\ fold' = [fold EXCEPT ![s] = f]
      BY <1>1, SessionIs DEF Memory!OnOpened
    <2>2. kept' = [kept EXCEPT ![s] = [k EXCEPT !.known = TRUE, !.on = on]]
      BY <1>1 DEF Memory!OnOpened, FoldInv, FoldShape
    <2>3. hist' = [hist EXCEPT ![s] = [h EXCEPT !.opens = h.opens + 1, !.on = on]]
      BY <1>1 DEF Memory!OnOpened, FoldInv, FoldShape
    <2> QED BY <2>1, <2>2, <2>3
  <1>3. k \in KeptIs /\ f \in FoldIs /\ h \in HistIs /\ Session(k, FALSE, f, h)
    BY <1>1, <1>2, SessionIs
  <1>4. PICK k2, h2 : k2 = [k EXCEPT !.known = TRUE, !.on = on]
                      /\ h2 = [h EXCEPT !.opens = h.opens + 1, !.on = on]
    OBVIOUS
  <1>5. /\ k2 \in KeptIs /\ k2.known /\ k2.on = on /\ k2.folding = k.folding
           /\ k2.finalize = k.finalize
        /\ h2 \in HistIs /\ h2.on = on /\ h2.opens > 0
    <2>1. /\ k2 \in KeptIs /\ k2.known /\ k2.on = on /\ k2.folding = k.folding
          /\ k2.finalize = k.finalize
      BY <1>3, <1>4 DEF KeptIs
    <2>2. PICK n \in Nat : n = h.opens + 1 /\ n > 0
      BY <1>3 DEF HistIs
    <2>3. h2 = [h EXCEPT !.opens = n, !.on = on]
      BY <1>4, <2>2
    <2>4. h2 \in HistIs /\ h2.on = on /\ h2.opens = n
      BY <1>3, <2>3 DEF HistIs
    <2> QED BY <2>1, <2>2, <2>4
  <1>6. Session(k2, TRUE, f, h2)
    BY <1>2, <1>3, <1>5 DEF Session, KeptIs, FoldIs
  <1> QED BY <1>2, <1>3, <1>4, <1>5, <1>6, FoldStep

\* What startFold makes of a session's entry and its fold.
Started(k, f, k2, f2, fin) ==
    \/ (~k.known \/ ~k.on) /\ k2 = k /\ f2 = f
    \/ k.known /\ k.on /\ k.folding /\ k2 = [k EXCEPT !.finalize = k.finalize \/ fin] /\ f2 = f
    \/ k.known /\ k.on /\ ~k.folding /\ k2 = [k EXCEPT !.folding = TRUE]
         /\ f2 = [st |-> "folds", fin |-> fin]

LEMMA StartFoldIs ==
    ASSUME FoldInv, NEW s \in Folded, NEW fin \in BOOLEAN, Memory!StartFold(s, fin)
    PROVE  \E k2 \in KeptIs, f2 \in FoldIs :
             /\ Started(kept[s], fold[s], k2, f2, fin)
             /\ kept' = [kept EXCEPT ![s] = k2] /\ fold' = [fold EXCEPT ![s] = f2]
  <1>1. PICK k, f : k = kept[s] /\ f = fold[s] /\ k \in KeptIs /\ f \in FoldIs
    BY SessionIs
  <1>2. CASE ~k.known \/ ~k.on
    BY <1>1, <1>2, SessionIs DEF Memory!StartFold, Started, KeptIs
  <1>3. CASE k.known /\ k.on /\ k.folding
    <2>1. PICK k2 : k2 = [k EXCEPT !.finalize = k.finalize \/ fin]
      OBVIOUS
    <2>2. k2 \in KeptIs
      BY <1>1, <2>1 DEF KeptIs
    <2>3. kept' = [kept EXCEPT ![s] = k2] /\ fold' = [fold EXCEPT ![s] = f]
      BY <1>1, <1>3, <2>1, SessionIs DEF Memory!StartFold, FoldInv, FoldShape
    <2> QED BY <1>1, <1>3, <2>1, <2>2, <2>3 DEF Started
  <1>4. CASE k.known /\ k.on /\ ~k.folding
    <2>1. PICK k2, f2 : k2 = [k EXCEPT !.folding = TRUE] /\ f2 = [st |-> "folds", fin |-> fin]
      OBVIOUS
    <2>2. k2 \in KeptIs /\ f2 \in FoldIs
      BY <1>1, <2>1 DEF KeptIs, FoldIs
    <2>3. kept' = [kept EXCEPT ![s] = k2] /\ fold' = [fold EXCEPT ![s] = f2]
      BY <1>1, <1>4, <2>1 DEF Memory!StartFold, FoldInv, FoldShape
    <2> QED BY <1>1, <1>4, <2>1, <2>2, <2>3 DEF Started
  <1> QED BY <1>1, <1>2, <1>3, <1>4 DEF KeptIs

LEMMA TurnCompletedKeeps ==
    ASSUME FoldInv, NEW s \in Folded, Memory!OnTurnCompleted(s) PROVE FoldInv'
  <1>1. PICK k, f, h : /\ k = kept[s] /\ f = fold[s] /\ h = hist[s] /\ k \in KeptIs /\ f \in FoldIs
                       /\ h \in HistIs /\ Session(k, TRUE, f, h) /\ attached[s] = TRUE
    BY SessionIs DEF Memory!OnTurnCompleted
  <1>2. PICK h2 : h2 = [h EXCEPT !.turns = h.turns + 1]
    OBVIOUS
  <1>3. /\ attached' = [attached EXCEPT ![s] = TRUE] /\ hist' = [hist EXCEPT ![s] = h2]
    BY <1>1, <1>2, SessionIs DEF Memory!OnTurnCompleted, FoldInv, FoldShape
  <1>4. h2 \in HistIs /\ h2.on = h.on /\ h2.opens = h.opens
    BY <1>1, <1>2 DEF HistIs
  <1>5. PICK k2 \in KeptIs, f2 \in FoldIs :
          /\ Started(k, f, k2, f2, FALSE)
          /\ kept' = [kept EXCEPT ![s] = k2] /\ fold' = [fold EXCEPT ![s] = f2]
    <2>1. Memory!StartFold(s, FALSE)
      BY DEF Memory!OnTurnCompleted
    <2>2. \E k2 \in KeptIs, f2 \in FoldIs :
             /\ Started(kept[s], fold[s], k2, f2, FALSE)
             /\ kept' = [kept EXCEPT ![s] = k2] /\ fold' = [fold EXCEPT ![s] = f2]
      BY <2>1, StartFoldIs
    <2> QED BY <1>1, <2>2
  <1>6. Session(k2, TRUE, f2, h2)
    BY <1>1, <1>4, <1>5 DEF Session, Started, KeptIs, FoldIs
  <1> QED BY <1>3, <1>4, <1>5, <1>6, FoldStep

LEMMA ClosedKeeps == ASSUME FoldInv, NEW s \in Folded, Memory!OnClosed(s) PROVE FoldInv'
  <1>1. PICK k, f, h : /\ k = kept[s] /\ f = fold[s] /\ h = hist[s] /\ k \in KeptIs /\ f \in FoldIs
                       /\ h \in HistIs /\ Session(k, TRUE, f, h)
    BY SessionIs DEF Memory!OnClosed
  <1>2. PICK h2 : h2 = [h EXCEPT !.closes = h.closes + 1]
    OBVIOUS
  <1>3. /\ attached' = [attached EXCEPT ![s] = FALSE] /\ hist' = [hist EXCEPT ![s] = h2]
    BY <1>1, <1>2, SessionIs DEF Memory!OnClosed, FoldInv, FoldShape
  <1>4. h2 \in HistIs /\ h2.on = h.on /\ h2.opens = h.opens
    BY <1>1, <1>2 DEF HistIs
  <1>5. CASE k.on
    <2>1. PICK k2 \in KeptIs, f2 \in FoldIs :
            /\ Started(k, f, k2, f2, TRUE)
            /\ kept' = [kept EXCEPT ![s] = k2] /\ fold' = [fold EXCEPT ![s] = f2]
      <3>1. k.known
        BY <1>1 DEF Session
      <3>2. Memory!StartFold(s, TRUE)
        BY <1>1, <1>5, <3>1 DEF Memory!OnClosed
      <3>3. \E k2 \in KeptIs, f2 \in FoldIs :
               /\ Started(kept[s], fold[s], k2, f2, TRUE)
               /\ kept' = [kept EXCEPT ![s] = k2] /\ fold' = [fold EXCEPT ![s] = f2]
        BY <3>2, StartFoldIs
      <3> QED BY <1>1, <3>3
    <2>2. Session(k2, FALSE, f2, h2)
      <3>1. k.known /\ ~k.finalize /\ k.on = h.on /\ h.opens > 0 /\ (f.st # "none" => ~f.fin)
        BY <1>1 DEF Session
      <3>2. CASE k.folding
        <4>1. k2 = [k EXCEPT !.finalize = k.finalize \/ TRUE] /\ f2 = f
          BY <1>5, <2>1, <3>1, <3>2 DEF Started
        <4>2. k2.known /\ k2.on = k.on /\ k2.folding /\ k2.finalize
          BY <1>1, <3>1, <3>2, <4>1 DEF KeptIs
        <4>3. f.st # "none"
          BY <1>1, <3>2 DEF Session
        <4> QED BY <1>4, <1>5, <3>1, <4>1, <4>2, <4>3 DEF Session
      <3>3. CASE ~k.folding
        <4>1. k2 = [k EXCEPT !.folding = TRUE] /\ f2 = [st |-> "folds", fin |-> TRUE]
          BY <1>5, <2>1, <3>1, <3>3 DEF Started
        <4>2. k2.known /\ k2.on = k.on /\ k2.folding /\ ~k2.finalize
          BY <1>1, <3>1, <4>1 DEF KeptIs
        <4> QED BY <1>4, <1>5, <3>1, <4>1, <4>2 DEF Session
      <3> QED BY <3>2, <3>3
    <2> QED BY <1>3, <1>4, <2>1, <2>2, FoldStep
  <1>6. CASE ~k.on
    <2>1. PICK k2 : k2 = Memory!Forgotten
      OBVIOUS
    <2>2. k2 \in KeptIs /\ ~k2.known /\ ~k2.on /\ ~k2.folding /\ ~k2.finalize
      BY <2>1 DEF Memory!Forgotten, KeptIs
    <2>3. kept' = [kept EXCEPT ![s] = k2] /\ fold' = [fold EXCEPT ![s] = f]
      BY <1>1, <1>6, <2>1, SessionIs DEF Memory!OnClosed
    <2>4. Session(k2, FALSE, f, h2)
      BY <1>1, <1>4, <1>6, <2>2 DEF Session, KeptIs, FoldIs
    <2> QED BY <1>1, <1>3, <1>4, <2>2, <2>3, <2>4, FoldStep
  <1> QED BY <1>1, <1>5, <1>6 DEF KeptIs

LEMMA FoldsKeep == ASSUME FoldInv, NEW s \in Folded, Memory!Folds(s) PROVE FoldInv'
  <1>1. PICK k, o, f, h : /\ k = kept[s] /\ o = attached[s] /\ f = fold[s] /\ h = hist[s]
                          /\ k \in KeptIs /\ o \in BOOLEAN /\ f \in FoldIs /\ h \in HistIs
                          /\ Session(k, o, f, h) /\ f.st = "folds"
    BY SessionIs DEF Memory!Folds
  <1>2. k.known /\ k.on
    BY <1>1 DEF Session
  <1>3. PICK f2, h2 : /\ f2 = [f EXCEPT !.st = "folded"]
                      /\ h2 = [h EXCEPT !.read = h.turns,
                                           !.final = IF f.fin THEN h.closes ELSE h.final]
    OBVIOUS
  <1>4. /\ kept' = [kept EXCEPT ![s] = k] /\ attached' = [attached EXCEPT ![s] = o]
        /\ fold' = [fold EXCEPT ![s] = f2] /\ hist' = [hist EXCEPT ![s] = h2]
    <2>1. kept' = [kept EXCEPT ![s] = k] /\ attached' = [attached EXCEPT ![s] = o]
      BY <1>1, SessionIs DEF Memory!Folds
    <2>2. fold' = [fold EXCEPT ![s] = f2]
      BY <1>1, <1>3 DEF Memory!Folds, FoldInv, FoldShape
    <2>3. hist' = [hist EXCEPT ![s].read = hist[s].turns,
                               ![s].final = IF fold[s].fin THEN hist[s].closes ELSE hist[s].final]
      BY <1>1, <1>2 DEF Memory!Folds
    <2>4. hist' = [hist EXCEPT ![s] = h2]
      BY <1>1, <1>3, <2>3 DEF FoldInv, FoldShape
    <2> QED BY <2>1, <2>2, <2>4
  <1>5. /\ f2 \in FoldIs /\ f2.st = "folded" /\ f2.fin = f.fin
        /\ h2 \in HistIs /\ h2.on = h.on /\ h2.opens = h.opens /\ (f.fin => Finalized(h2))
    BY <1>1, <1>3 DEF FoldIs, HistIs, Finalized
  <1>6. Session(k, o, f2, h2)
    BY <1>1, <1>2, <1>5 DEF Session, KeptIs
  <1> QED BY <1>1, <1>4, <1>5, <1>6, FoldStep

LEMMA SettlesKeep == ASSUME FoldInv, NEW s \in Folded, Memory!Settles(s) PROVE FoldInv'
  <1>1. PICK k, o, f, h : /\ k = kept[s] /\ o = attached[s] /\ f = fold[s] /\ h = hist[s]
                          /\ k \in KeptIs /\ o \in BOOLEAN /\ f \in FoldIs /\ h \in HistIs
                          /\ Session(k, o, f, h) /\ f.st = "folded"
    BY SessionIs DEF Memory!Settles
  <1>2. k.known /\ k.on /\ k.folding
    BY <1>1 DEF Session
  <1>3. /\ attached' = [attached EXCEPT ![s] = o] /\ hist' = [hist EXCEPT ![s] = h]
    BY <1>1, SessionIs DEF Memory!Settles
  <1>4. CASE f.fin
    <2>1. PICK k2, f2 : k2 = Memory!Forgotten /\ f2 = Memory!NoFold
      OBVIOUS
    <2>2. /\ k2 \in KeptIs /\ ~k2.known /\ ~k2.on /\ ~k2.folding /\ ~k2.finalize
          /\ f2 \in FoldIs /\ f2.st = "none"
      BY <2>1 DEF Memory!Forgotten, Memory!NoFold, KeptIs, FoldIs
    <2>3. kept' = [kept EXCEPT ![s] = k2] /\ fold' = [fold EXCEPT ![s] = f2]
      BY <1>1, <1>2, <1>4, <2>1 DEF Memory!Settles
    <2>4. Session(k2, o, f2, h)
      BY <1>1, <1>2, <1>4, <2>2 DEF Session, KeptIs
    <2>5. k2 \in KeptIs /\ f2 \in FoldIs /\ o \in BOOLEAN /\ h \in HistIs
      BY <1>1, <2>2
    <2> QED BY <1>3, <2>3, <2>4, <2>5, FoldStep
  <1>5. CASE ~f.fin /\ k.finalize
    <2>1. PICK k2, f2 : k2 = [k EXCEPT !.finalize = FALSE] /\ f2 = [st |-> "folds", fin |-> TRUE]
      OBVIOUS
    <2>2. /\ k2 \in KeptIs /\ k2.known /\ k2.on = k.on /\ k2.folding /\ ~k2.finalize
          /\ f2 \in FoldIs /\ f2.st = "folds" /\ f2.fin
      BY <1>1, <1>2, <2>1 DEF KeptIs, FoldIs
    <2>3. kept' = [kept EXCEPT ![s] = k2] /\ fold' = [fold EXCEPT ![s] = f2]
      BY <1>1, <1>2, <1>5, <2>1 DEF Memory!Settles, FoldInv, FoldShape
    <2>4. Session(k2, o, f2, h)
      BY <1>1, <1>2, <1>5, <2>2 DEF Session, KeptIs
    <2>5. k2 \in KeptIs /\ f2 \in FoldIs /\ o \in BOOLEAN /\ h \in HistIs
      BY <1>1, <2>2
    <2> QED BY <1>3, <2>3, <2>4, <2>5, FoldStep
  <1>6. CASE ~f.fin /\ ~k.finalize
    <2>1. PICK k2, f2 : k2 = [k EXCEPT !.folding = FALSE] /\ f2 = Memory!NoFold
      OBVIOUS
    <2>2. /\ k2 \in KeptIs /\ k2.known /\ k2.on = k.on /\ ~k2.folding /\ ~k2.finalize
          /\ f2 \in FoldIs /\ f2.st = "none"
      BY <1>1, <1>2, <1>6, <2>1 DEF KeptIs, FoldIs, Memory!NoFold
    <2>3. kept' = [kept EXCEPT ![s] = k2] /\ fold' = [fold EXCEPT ![s] = f2]
      BY <1>1, <1>2, <1>6, <2>1 DEF Memory!Settles, FoldInv, FoldShape
    <2>4. Session(k2, o, f2, h)
      BY <1>1, <1>2, <1>6, <2>2 DEF Session, KeptIs
    <2>5. k2 \in KeptIs /\ f2 \in FoldIs /\ o \in BOOLEAN /\ h \in HistIs
      BY <1>1, <2>2
    <2> QED BY <1>3, <2>3, <2>4, <2>5, FoldStep
  <1> QED BY <1>1, <1>4, <1>5, <1>6 DEF KeptIs, FoldIs

LEMMA FoldStays == ASSUME FoldInv, UNCHANGED <<kept, attached, fold, hist>> PROVE FoldInv'
  BY DEF FoldInv, FoldShape

LEMMA FoldNext == ASSUME FoldInv, ~Resumes, [Memory!Next]_(Memory!vars) PROVE FoldInv'
  <1>1. ASSUME Memory!CloseBegins \/ Memory!CloseEnds \/ UNCHANGED Memory!vars PROVE FoldInv'
    BY <1>1, FoldStays DEF Memory!CloseBegins, Memory!CloseEnds, Memory!vars
  <1> QED BY <1>1, OpenedKeeps, TurnCompletedKeeps, ClosedKeeps, FoldsKeep, SettlesKeep
          DEF Memory!Next

\* A session that nothing resumes while a fold of it runs is finalized after its last close, over
\* all it said, and forgotten (startFold, foldUntilQuiet).
THEOREM ClosedIsFinalized == ASSUME ~Resumes PROVE Memory!Spec => []FinalizedAfterClose
  <1>1. FoldInv /\ [Memory!Next]_(Memory!vars) => FoldInv'
    BY FoldNext
  <1> QED BY <1>1, FoldInit, FoldInvGives, PTL DEF Memory!Spec

-----------------------------------------------------------------------------
(* The clients that follow a turn                                          *)

Whats ==
    {"end_turn", "refusal", "tool_use", "interrupted", "failed", "completed", "idle", "ok", "no"}
Notes == [s : {"p", "c"}, m : {"entry", "state", "login"}, id : Nat, what : Whats]
TurnIs ==
    [st : {"none", "streams", "calls", "completes", "fails", "idles", "parked"} \cup Follow!Rests,
     turn : Nat, said : Seq(Nat), stop : Whats \cup {"none"}, cut : {"no", "steer", "cancel"}]
CallIs ==
    [st : {"none", "open", "submit", "wait", "grace", "close", "done"}, ended : BOOLEAN,
     cause : BOOLEAN, text : Nat, failure : BOOLEAN, res : {"none", "failed", "ok"},
     orphan : BOOLEAN]
PrintIs ==
    [st : {"open", "submit", "wait", "login", "finish", "over"}, code : Nat, text : Seq(Nat),
     stop : Whats \cup {"none"}, state : Whats \cup {"none"}]
Prompts == {"text", "notice", "unknown", "login"}
AnswerShape ==
    /\ kind \in {"kernel", "runtime"} /\ par \in TurnIs /\ kid \in TurnIs /\ call \in CallIs
    /\ pr \in PrintIs /\ pq \in Seq(Notes) /\ aq \in Seq(Notes) /\ next \in Nat \ {0}

LastSaid(s) == s[Len(s)]

\* A message of turn t, among what waits; none of it; and the latest.
Words(n, t) == n.m = "entry" /\ n.what # "failed" /\ n.id > t
Silent(q, t) == \A i \in 1..Len(q) : ~Words(q[i], t)
EndsOn(q, t, id, what) ==
    \E i \in 1..Len(q) :
       /\ Words(q[i], t) /\ q[i].id = id /\ q[i].what = what
       /\ \A j \in 1..Len(q) : j > i => ~Words(q[j], t)

\* The ids of a turn and of what it said.
Grows(p, n) ==
    /\ \A i \in 1..Len(p.said) : p.turn < p.said[i] /\ p.said[i] < n
    /\ \A i, j \in 1..Len(p.said) : i < j => p.said[i] < p.said[j]
    /\ p.st = "none" => p = Follow!NoTurn
    /\ p.st # "none" => 0 < p.turn /\ p.turn < n
Below(q, n) == \A i \in 1..Len(q) : q[i].m # "login" => q[i].id < n
IdsGrow(p, k, q, n) ==
    /\ Grows(p, n) /\ Grows(k, n) /\ Below(q, n)
    /\ k.st # "none" => p.st # "none" /\ p.turn < k.turn

\* One call, of a kernel's turn, which waits for it; a child that goes on without it is an
\* orphan.
Nested(kd, p, k, c, q) ==
    /\ c.st # "none" => kd = "kernel" /\ p.st # "none"
    /\ p.st = "calls" => c.st # "none"
    /\ c.st \notin {"none", "done"} => p.st = "calls"
    /\ c.st \in {"none", "open", "submit"} => k = Follow!NoTurn /\ q = <<>>
    /\ c.st \in {"none", "open", "submit", "wait", "grace"} => c.res = "none"
    /\ c.st \in {"wait", "grace"} => k.st # "none"
    /\ k.st \in {"none", "streams"} \cup Follow!Rests
    /\ k.st = "streams" => c.st \in {"wait", "grace", "close"} \/ c.orphan
    /\ k.st = "completed" => k.said # <<>>
    /\ c.orphan => c.st = "done"
    /\ kd = "runtime" => p.st \notin {"calls", "completes"}

\* What the agent tool is told of the child, and what it makes of it.
CallHears(c, k, q) ==
    c.st \in {"wait", "grace"} =>
        /\ \A i \in 1..Len(q) :
             /\ q[i].m = "entry" => q[i].id > k.turn
             /\ q[i].m = "state" => i = Len(q) /\ q[i].what = k.st /\ k.st \in Follow!Rests
        /\ k.said # <<>> =>
             \/ c.text = LastSaid(k.said) /\ Silent(q, k.turn)
             \/ EndsOn(q, k.turn, LastSaid(k.said), "end_turn")
CallTells(c, k) ==
    c.res = "ok" => /\ k.st = "completed" /\ k.said # <<>> /\ c.text = LastSaid(k.said)
                    /\ c.st \in {"close", "done"}

\* What --print is told of how turns ended; o: the child is an orphan.
EndsHeard(p, k, o, r, q) ==
    /\ r.st \in {"open", "submit", "login"} => p.st = "none" /\ r.text = <<>> /\ r.state = "none"
    /\ r.st \in {"wait", "finish"} => p.st # "none"
    /\ r.state # "none" => r.st \in {"finish", "over"}
    /\ r.st = "finish" => r.state # "none"
    /\ \A i \in 1..Len(q) : q[i].m = "state" =>
         \/ k.st # "none" /\ q[i].id = k.turn
         \/ /\ p.st \in Follow!Rests /\ q[i].id = p.turn /\ q[i].what = p.st
            /\ ~o => i = Len(q)

\* The message a kernel's turn ended with, on its way to --print or there.
KernelHeard(kd, p, o, r, q) ==
    kd = "kernel" /\ p.st \in {"completes", "completed"} =>
        /\ p.stop \in Follow!Stops /\ p.said # <<>>
        /\ r.st = "wait" /\ ~o =>
             \/ r.text = <<LastSaid(p.said)>> /\ r.stop = p.stop /\ Silent(q, p.turn)
             \/ EndsOn(q, p.turn, LastSaid(p.said), p.stop)

\* The messages of a runtime's turn: those --print has taken, and the others, in their order
\* however often they are published.
Prefix(t, said) == Len(t) <= Len(said) /\ \A i \in 1..Len(t) : t[i] = said[i]
Comes(q, n, id) == \E i \in 1..n : q[i].m = "entry" /\ q[i].id = id
InOrder(q, t, said, n) ==
    /\ \A i \in (n + 1)..Len(said) : Comes(q, Len(q), said[i])
    /\ \A h \in 1..Len(q) : q[h].m = "entry" /\ q[h].id > t =>
         \E j \in 1..Len(said) :
            q[h].id = said[j] /\ \A i \in (n + 1)..(j - 1) : Comes(q, h - 1, said[i])
RuntimeHeard(kd, p, r, q) ==
    kd = "runtime" /\ r.st = "wait" =>
        Prefix(r.text, p.said) /\ InOrder(q, p.turn, p.said, Len(r.text))

\* What --print ends with.
Code(r) == IF r.state = "failed" THEN 1 ELSE Follow!ExitFor(r.state, r.stop)
Reports(kd, p, o, r) ==
    r.state # "none" =>
        /\ r.state = p.st /\ p.st \in Follow!Rests
        /\ ~o /\ p.st = "completed" =>
             /\ r.text = IF kd = "kernel" THEN <<LastSaid(p.said)>> ELSE p.said
             /\ r.stop = IF kd = "kernel" THEN p.stop ELSE "end_turn"
        /\ r.st = "over" => r.code = Code(r)

AnswerInv ==
    /\ AnswerShape /\ IdsGrow(par, kid, pq, next) /\ Nested(kind, par, kid, call, aq)
    /\ CallHears(call, kid, aq) /\ CallTells(call, kid)
    /\ EndsHeard(par, kid, call.orphan, pr, pq) /\ KernelHeard(kind, par, call.orphan, pr, pq)
    /\ RuntimeHeard(kind, par, pr, pq) /\ Reports(kind, par, call.orphan, pr)

LEMMA AnswerGives == AnswerInv => ReportsItsTurn
  <1> SUFFICES ASSUME AnswerInv PROVE ReportsItsTurn
    OBVIOUS
  <1>1. /\ AnswerShape /\ CallTells(call, kid) /\ Reports(kind, par, call.orphan, pr)
        /\ KernelHeard(kind, par, call.orphan, pr, pq)
    BY DEF AnswerInv
  <1>2. Follow!AgentTellsItsTurn
    BY <1>1 DEF CallTells, LastSaid, Follow!AgentTellsItsTurn
  <1>3. ASSUME pr.st = "over", pr.state # "none", ~call.orphan
        PROVE  /\ pr.code = 0 => /\ par.st = "completed"
                                 /\ pr.text = IF kind = "kernel" THEN <<par.said[Len(par.said)]>>
                                              ELSE par.said
               /\ pr.code = 130 => par.st = "idle"
               /\ pr.code = 1 => par.st = "failed" \/ par.stop = "refusal"
    <2>1. /\ pr.state = par.st /\ par.st \in {"completed", "failed", "idle"} /\ pr.code = Code(pr)
          /\ par.st = "completed" =>
               /\ pr.text = IF kind = "kernel" THEN <<LastSaid(par.said)>> ELSE par.said
               /\ pr.stop = IF kind = "kernel" THEN par.stop ELSE "end_turn"
      BY <1>1, <1>3 DEF Reports, Follow!Rests
    <2>2. CASE par.st = "failed"
      BY <2>1, <2>2 DEF Code
    <2>3. CASE par.st = "idle"
      BY <2>1, <2>3 DEF Code, Follow!ExitFor
    <2>4. CASE par.st = "completed"
      <3>1. pr.stop \in {"end_turn", "refusal"} /\ (pr.stop = "refusal" => par.stop = "refusal")
        BY <1>1, <2>1, <2>4 DEF KernelHeard, Follow!Stops, AnswerShape
      <3>2. pr.code = IF pr.stop = "end_turn" THEN 0 ELSE 1
        BY <2>1, <2>4, <3>1 DEF Code, Follow!ExitFor
      <3> QED BY <2>1, <2>4, <3>1, <3>2 DEF LastSaid
    <2> QED BY <2>1, <2>2, <2>3, <2>4
  <1>4. Follow!PrintTellsItsTurn
    BY <1>3 DEF Follow!PrintTellsItsTurn
  <1> QED BY <1>2, <1>4 DEF ReportsItsTurn, Follow!ReportsItsTurn

LEMMA AnswerInit == Follow!Init => AnswerInv
  <1> SUFFICES ASSUME Follow!Init PROVE AnswerInv
    OBVIOUS
  <1>1. /\ par = Follow!NoTurn /\ kid = Follow!NoTurn /\ call = Follow!NoCall /\ next = 1
        /\ pr = [st |-> "open", code |-> 0, text |-> <<>>, stop |-> "none", state |-> "none"]
        /\ pq = <<>> /\ aq = <<>> /\ kind \in {"kernel", "runtime"}
    BY DEF Follow!Init
  <1>2. /\ Follow!NoTurn \in TurnIs /\ Follow!NoTurn.st = "none" /\ Follow!NoTurn.turn = 0
        /\ Follow!NoTurn.said = <<>> /\ Len(Follow!NoTurn.said) = 0
    BY DEF Follow!NoTurn, TurnIs
  <1>3. /\ call \in CallIs /\ call.st = "none" /\ call.res = "none" /\ ~call.orphan
    BY <1>1 DEF Follow!NoCall, CallIs
  <1>4. pr \in PrintIs /\ pr.st = "open" /\ pr.state = "none"
    BY <1>1 DEF PrintIs
  <1>5. pq \in Seq(Notes) /\ aq \in Seq(Notes) /\ Len(pq) = 0
    BY <1>1
  <1>6. AnswerShape
    BY <1>1, <1>2, <1>3, <1>4, <1>5 DEF AnswerShape
  <1>7. IdsGrow(par, kid, pq, next)
    BY <1>1, <1>2, <1>5 DEF IdsGrow, Grows, Below
  <1>8. Nested(kind, par, kid, call, aq) /\ CallHears(call, kid, aq) /\ CallTells(call, kid)
    BY <1>1, <1>2, <1>3 DEF Nested, CallHears, CallTells
  <1>9. EndsHeard(par, kid, call.orphan, pr, pq) /\ KernelHeard(kind, par, call.orphan, pr, pq)
    BY <1>1, <1>2, <1>4, <1>5 DEF EndsHeard, KernelHeard
  <1>10. RuntimeHeard(kind, par, pr, pq) /\ Reports(kind, par, call.orphan, pr)
    BY <1>4 DEF RuntimeHeard, Reports
  <1> QED BY <1>6, <1>7, <1>8, <1>9, <1>10 DEF AnswerInv

-----------------------------------------------------------------------------
(* Queues of notifications                                                 *)

LEMMA AtEnd ==
    ASSUME NEW S, NEW q \in Seq(S), NEW n \in S
    PROVE  /\ Append(q, n) \in Seq(S) /\ Len(q) \in Nat /\ Len(Append(q, n)) = Len(q) + 1
           /\ Append(q, n)[Len(q) + 1] = n /\ \A i \in 1..Len(q) : Append(q, n)[i] = q[i]
  OBVIOUS

LEMMA Rest ==
    ASSUME NEW S, NEW q \in Seq(S), q # <<>>
    PROVE  /\ Tail(q) \in Seq(S) /\ Len(q) \in Nat \ {0} /\ Len(Tail(q)) = Len(q) - 1
           /\ Head(q) = q[1] /\ \A i \in 1..Len(Tail(q)) : Tail(q)[i] = q[i + 1]
  OBVIOUS

LEMMA SilentAtEnd ==
    ASSUME NEW q \in Seq(Notes), NEW n \in Notes, NEW t, ~Words(n, t), Silent(q, t)
    PROVE  Silent(Append(q, n), t)
  <1>1. PICK r : r = Append(q, n)
    OBVIOUS
  <1>2. Len(q) \in Nat /\ Len(r) = Len(q) + 1 /\ r[Len(q) + 1] = n
        /\ \A i \in 1..Len(q) : r[i] = q[i]
    BY <1>1, AtEnd
  <1>3. \A i \in 1..Len(r) : i = Len(q) + 1 \/ i \in 1..Len(q)
    BY <1>2
  <1> QED BY <1>1, <1>2, <1>3 DEF Silent

LEMMA EndsAtEnd ==
    ASSUME NEW q \in Seq(Notes), NEW n \in Notes, NEW t, NEW id, NEW what
    PROVE  /\ Words(n, t) /\ n.id = id /\ n.what = what => EndsOn(Append(q, n), t, id, what)
           /\ ~Words(n, t) /\ EndsOn(q, t, id, what) => EndsOn(Append(q, n), t, id, what)
  <1>1. PICK r, l : r = Append(q, n) /\ l = Len(q)
    OBVIOUS
  <1>2. l \in Nat /\ Len(r) = l + 1 /\ r[l + 1] = n /\ \A i \in 1..l : r[i] = q[i]
    BY <1>1, AtEnd
  <1>3. ASSUME Words(n, t), n.id = id, n.what = what PROVE EndsOn(r, t, id, what)
    <2>1. l + 1 \in 1..Len(r) /\ \A j \in 1..Len(r) : ~(j > l + 1)
      BY <1>2
    <2> QED BY <1>2, <1>3, <2>1 DEF EndsOn
  <1>4. ASSUME ~Words(n, t), EndsOn(q, t, id, what) PROVE EndsOn(r, t, id, what)
    <2>1. PICK i \in 1..l : /\ Words(q[i], t) /\ q[i].id = id /\ q[i].what = what
                            /\ \A j \in 1..l : j > i => ~Words(q[j], t)
      BY <1>1, <1>4 DEF EndsOn
    <2>2. i \in 1..Len(r) /\ r[i] = q[i]
      BY <1>2
    <2>3. ASSUME NEW j \in 1..Len(r), j > i PROVE ~Words(r[j], t)
      <3>1. j = l + 1 \/ j \in 1..l
        BY <1>2
      <3> QED BY <1>2, <1>4, <2>1, <2>3, <3>1
    <2> QED BY <2>1, <2>2, <2>3 DEF EndsOn
  <1> QED BY <1>1, <1>3, <1>4

LEMMA SilentRest ==
    ASSUME NEW q \in Seq(Notes), q # <<>>, NEW t, Silent(q, t)
    PROVE  Silent(Tail(q), t) /\ ~Words(Head(q), t)
  <1>1. PICK r, l : r = Tail(q) /\ l = Len(q)
    OBVIOUS
  <1>2. l \in Nat \ {0} /\ Len(r) = l - 1 /\ Head(q) = q[1] /\ \A i \in 1..Len(r) : r[i] = q[i + 1]
    BY <1>1, Rest
  <1>3. 1 \in 1..l /\ \A i \in 1..Len(r) : i + 1 \in 1..l
    BY <1>2
  <1> QED BY <1>1, <1>2, <1>3 DEF Silent

LEMMA EndsRest ==
    ASSUME NEW q \in Seq(Notes), q # <<>>, NEW t, NEW id, NEW what, EndsOn(q, t, id, what)
    PROVE  \/ EndsOn(Tail(q), t, id, what)
           \/ /\ Words(Head(q), t) /\ Head(q).id = id /\ Head(q).what = what /\ Silent(Tail(q), t)
  <1>1. PICK r, l : r = Tail(q) /\ l = Len(q)
    OBVIOUS
  <1>2. l \in Nat \ {0} /\ Len(r) = l - 1 /\ Head(q) = q[1] /\ \A i \in 1..Len(r) : r[i] = q[i + 1]
    BY <1>1, Rest
  <1>3. PICK i \in 1..l : /\ Words(q[i], t) /\ q[i].id = id /\ q[i].what = what
                          /\ \A j \in 1..l : j > i => ~Words(q[j], t)
    BY <1>1 DEF EndsOn
  <1>4. CASE i = 1
    <2>1. \A j \in 1..Len(r) : j + 1 \in 1..l /\ j + 1 > 1
      BY <1>2
    <2>2. Silent(r, t)
      BY <1>2, <1>3, <1>4, <2>1 DEF Silent
    <2> QED BY <1>1, <1>2, <1>3, <1>4, <2>2
  <1>5. CASE i # 1
    <2>1. i - 1 \in 1..Len(r) /\ r[i - 1] = q[i]
      <3>1. i - 1 \in 1..Len(r) /\ (i - 1) + 1 = i
        BY <1>2, <1>5
      <3> QED BY <1>2, <3>1
    <2>2. ASSUME NEW j \in 1..Len(r), j > i - 1 PROVE ~Words(r[j], t)
      <3>1. j + 1 \in 1..l /\ j + 1 > i
        BY <1>2, <2>2
      <3> QED BY <1>2, <1>3, <3>1
    <2>3. EndsOn(r, t, id, what)
      BY <1>3, <2>1, <2>2 DEF EndsOn
    <2> QED BY <1>1, <2>3
  <1> QED BY <1>4, <1>5

\* What is published once more is what the turn said; and so is what it says now.
LEMMA OrderAgain ==
    ASSUME NEW q \in Seq(Notes), NEW m \in Notes, NEW t, NEW said \in Seq(Nat), NEW n \in Nat,
           InOrder(q, t, said, n),
           m.m = "entry" /\ m.id > t => \E j \in 1..Len(said) : m.id = said[j]
    PROVE  InOrder(Append(q, m), t, said, n)
  <1>1. PICK r, l : r = Append(q, m) /\ l = Len(q)
    OBVIOUS
  <1>2. l \in Nat /\ Len(r) = l + 1 /\ r[l + 1] = m /\ \A i \in 1..l : r[i] = q[i]
    BY <1>1, AtEnd
  <1>3. ASSUME NEW h \in 0..l, NEW id, Comes(q, h, id) PROVE Comes(r, h, id)
    <2>1. PICK i \in 1..h : q[i].m = "entry" /\ q[i].id = id
      BY <1>3 DEF Comes
    <2>2. i \in 1..l
      BY <1>2
    <2> QED BY <1>2, <2>1, <2>2 DEF Comes
  <1>4. ASSUME NEW id, Comes(q, l, id) PROVE Comes(r, l, id) /\ Comes(r, l + 1, id)
    <2>1. PICK i \in 1..l : q[i].m = "entry" /\ q[i].id = id
      BY <1>4 DEF Comes
    <2>2. i \in 1..(l + 1) /\ r[i] = q[i]
      BY <1>2
    <2> QED BY <2>1, <2>2 DEF Comes
  <1>5. \A i \in (n + 1)..Len(said) : Comes(q, l, said[i])
    BY <1>1 DEF InOrder
  <1>6. \A i \in (n + 1)..Len(said) : Comes(r, Len(r), said[i])
    BY <1>2, <1>4, <1>5
  <1>7. ASSUME NEW h \in 1..Len(r), r[h].m = "entry", r[h].id > t
        PROVE  \E j \in 1..Len(said) :
                 r[h].id = said[j] /\ \A i \in (n + 1)..(j - 1) : Comes(r, h - 1, said[i])
    <2>1. CASE h = l + 1
      <3>1. PICK j \in 1..Len(said) : m.id = said[j]
        BY <1>2, <1>7, <2>1
      <3>2. \A i \in (n + 1)..(j - 1) : i \in (n + 1)..Len(said)
        OBVIOUS
      <3>3. \A i \in (n + 1)..(j - 1) : Comes(r, l, said[i])
        BY <1>4, <1>5, <3>2
      <3>4. h - 1 = l
        BY <1>2, <2>1
      <3> QED BY <1>2, <2>1, <3>1, <3>3, <3>4
    <2>2. CASE h \in 1..l
      <3>1. r[h] = q[h] /\ h - 1 \in 0..l
        BY <1>2, <2>2
      <3>2. PICK j \in 1..Len(said) :
              q[h].id = said[j] /\ \A i \in (n + 1)..(j - 1) : Comes(q, h - 1, said[i])
        BY <1>1, <1>7, <2>2, <3>1 DEF InOrder
      <3> QED BY <1>3, <3>1, <3>2
    <2> QED BY <1>2, <2>1, <2>2
  <1> QED BY <1>1, <1>6, <1>7 DEF InOrder

\* A runtime's turn says something new.
LEMMA OrderNew ==
    ASSUME NEW q \in Seq(Notes), NEW m \in Notes, NEW t, NEW said \in Seq(Nat), NEW n \in Nat,
           NEW more, more = Append(said, m.id), n <= Len(said),
           InOrder(q, t, said, n), m.m = "entry"
    PROVE  InOrder(Append(q, m), t, more, n)
  <1>1. PICK r, l, k : r = Append(q, m) /\ l = Len(q) /\ k = Len(said)
    OBVIOUS
  <1>2. l \in Nat /\ Len(r) = l + 1 /\ r[l + 1] = m /\ \A i \in 1..l : r[i] = q[i]
    BY <1>1, AtEnd
  <1>3. /\ k \in Nat /\ more \in Seq(Nat) /\ Len(more) = k + 1 /\ more[k + 1] = m.id
        /\ \A i \in 1..k : more[i] = said[i]
    <2>1. m.id \in Nat
      BY DEF Notes
    <2> QED BY <1>1, <2>1, AtEnd
  <1>4. ASSUME NEW h \in 0..l, NEW id, Comes(q, h, id) PROVE Comes(r, h, id)
    <2>1. PICK i \in 1..h : q[i].m = "entry" /\ q[i].id = id
      BY <1>4 DEF Comes
    <2>2. i \in 1..l
      BY <1>2
    <2> QED BY <1>2, <2>1, <2>2 DEF Comes
  <1>5. ASSUME NEW id, Comes(q, l, id) PROVE Comes(r, l, id) /\ Comes(r, l + 1, id)
    <2>1. PICK i \in 1..l : q[i].m = "entry" /\ q[i].id = id
      BY <1>5 DEF Comes
    <2>2. i \in 1..(l + 1) /\ r[i] = q[i]
      BY <1>2
    <2> QED BY <2>1, <2>2 DEF Comes
  <1>6. \A i \in (n + 1)..k : Comes(q, l, said[i])
    BY <1>1 DEF InOrder
  <1>7. Comes(r, l + 1, m.id)
    <2>1. l + 1 \in 1..(l + 1)
      BY <1>2
    <2> QED BY <1>2, <2>1 DEF Comes
  <1>8. ASSUME NEW i \in (n + 1)..Len(more) PROVE Comes(r, Len(r), more[i])
    <2>1. CASE i = k + 1
      BY <1>2, <1>3, <1>7, <2>1
    <2>2. CASE i # k + 1
      <3>1. i \in (n + 1)..k /\ i \in 1..k
        BY <1>3, <2>2
      <3>2. Comes(r, l + 1, said[i])
        BY <1>5, <1>6, <3>1
      <3> QED BY <1>2, <1>3, <3>1, <3>2
    <2> QED BY <2>1, <2>2
  <1>9. ASSUME NEW h \in 1..Len(r), r[h].m = "entry", r[h].id > t
        PROVE  \E j \in 1..Len(more) :
                 r[h].id = more[j] /\ \A i \in (n + 1)..(j - 1) : Comes(r, h - 1, more[i])
    <2>1. CASE h = l + 1
      <3>1. k + 1 \in 1..Len(more) /\ r[h].id = more[k + 1] /\ h - 1 = l /\ (k + 1) - 1 = k
        BY <1>2, <1>3, <2>1
      <3>2. ASSUME NEW i \in (n + 1)..k PROVE Comes(r, l, more[i])
        <4>1. i \in 1..k
          BY <1>3
        <4>2. Comes(r, l, said[i])
          BY <1>5, <1>6
        <4> QED BY <1>3, <4>1, <4>2
      <3> QED BY <3>1, <3>2
    <2>2. CASE h \in 1..l
      <3>1. r[h] = q[h] /\ h - 1 \in 0..l
        BY <1>2, <2>2
      <3>2. PICK j \in 1..k :
              q[h].id = said[j] /\ \A i \in (n + 1)..(j - 1) : Comes(q, h - 1, said[i])
        BY <1>1, <1>9, <2>2, <3>1 DEF InOrder
      <3>3. ASSUME NEW i \in (n + 1)..(j - 1) PROVE Comes(r, h - 1, more[i])
        <4>1. i \in 1..k
          BY <1>3
        <4>2. Comes(r, h - 1, said[i])
          BY <1>4, <3>1, <3>2
        <4> QED BY <1>3, <4>1, <4>2
      <3>4. j \in 1..Len(more) /\ r[h].id = more[j]
        BY <1>3, <3>1, <3>2
      <3> QED BY <3>3, <3>4
    <2>3. h = l + 1 \/ h \in 1..l
      BY <1>2
    <2> QED BY <2>1, <2>2, <2>3
  <1> QED BY <1>1, <1>8, <1>9 DEF InOrder

\* What --print takes is the next of what the turn said, or something it has taken.
LEMMA HeadNext ==
    ASSUME NEW q \in Seq(Notes), q # <<>>, NEW t, NEW said \in Seq(Nat), NEW n \in Nat,
           InOrder(q, t, said, n), Head(q).m = "entry", Head(q).id > t
    PROVE  \E j \in 1..Len(said) : Head(q).id = said[j] /\ j <= n + 1
  <1>1. Len(q) \in Nat \ {0} /\ Head(q) = q[1] /\ 1 \in 1..Len(q) /\ 1 - 1 = 0
    BY Rest
  <1>2. PICK j \in 1..Len(said) :
          q[1].id = said[j] /\ \A i \in (n + 1)..(j - 1) : Comes(q, 0, said[i])
    BY <1>1 DEF InOrder
  <1>3. \A id : ~Comes(q, 0, id)
    BY DEF Comes
  <1>4. j <= n + 1
    <2>1. n + 1 \notin (n + 1)..(j - 1)
      BY <1>2, <1>3
    <2> QED BY <2>1
  <1> QED BY <1>1, <1>2, <1>4

LEMMA OrderRest ==
    ASSUME NEW q \in Seq(Notes), q # <<>>, NEW t, NEW said \in Seq(Nat), NEW n \in Nat,
           NEW k \in Nat, InOrder(q, t, said, n),
           \/ k = n /\ (Head(q).m = "entry" /\ n < Len(said) => Head(q).id # said[n + 1])
           \/ k = n + 1,
           \A i \in 1..Len(said) : said[i] > t,
           \A i, j \in 1..Len(said) : said[i] = said[j] => i = j
    PROVE  InOrder(Tail(q), t, said, k)
  <1>1. PICK r, l : r = Tail(q) /\ l = Len(q)
    OBVIOUS
  <1>2. l \in Nat \ {0} /\ Len(r) = l - 1 /\ Head(q) = q[1] /\ \A i \in 1..Len(r) : r[i] = q[i + 1]
    BY <1>1, Rest
  <1>3. n <= k /\ k <= n + 1
    OBVIOUS
  <1>4. ASSUME NEW h \in 0..(l - 1), NEW i \in (k + 1)..Len(said), Comes(q, h + 1, said[i])
        PROVE  Comes(r, h, said[i])
    <2>0. i \in 1..Len(said) /\ i \in Nat
      BY <1>3
    <2>1. PICK g \in 1..(h + 1) : q[g].m = "entry" /\ q[g].id = said[i]
      BY <1>4 DEF Comes
    <2>2. ASSUME g = 1 PROVE FALSE
      <3>1. Head(q).m = "entry" /\ Head(q).id = said[i] /\ Head(q).id > t
        BY <1>2, <2>0, <2>1, <2>2
      <3>2. PICK j \in 1..Len(said) : Head(q).id = said[j] /\ j <= n + 1
        BY <3>1, HeadNext
      <3>3. j = i
        BY <2>0, <3>1, <3>2
      <3>4. i = n + 1 /\ k = n /\ n < Len(said)
        BY <2>0, <3>2, <3>3, <1>3
      <3> QED BY <3>1, <3>4
    <2>3. g - 1 \in 1..h /\ g - 1 \in 1..Len(r) /\ (g - 1) + 1 = g
      BY <1>2, <2>2
    <2>4. r[g - 1] = q[g]
      BY <1>2, <2>3
    <2> QED BY <2>1, <2>3, <2>4 DEF Comes
  <1>5. ASSUME NEW i \in (k + 1)..Len(said) PROVE Comes(r, Len(r), said[i])
    <2>1. i \in (n + 1)..Len(said) /\ l - 1 \in 0..(l - 1) /\ (l - 1) + 1 = l
      BY <1>2, <1>3
    <2>2. Comes(q, l, said[i])
      BY <1>1, <2>1 DEF InOrder
    <2> QED BY <1>2, <1>4, <2>1, <2>2
  <1>6. ASSUME NEW h \in 1..Len(r), r[h].m = "entry", r[h].id > t
        PROVE  \E j \in 1..Len(said) :
                 r[h].id = said[j] /\ \A i \in (k + 1)..(j - 1) : Comes(r, h - 1, said[i])
    <2>1. h + 1 \in 1..l /\ r[h] = q[h + 1] /\ (h + 1) - 1 = h /\ h - 1 \in 0..(l - 1)
          /\ (h - 1) + 1 = h
      BY <1>2
    <2>2. PICK j \in 1..Len(said) :
            q[h + 1].id = said[j] /\ \A i \in (n + 1)..(j - 1) : Comes(q, h, said[i])
      BY <1>1, <1>6, <2>1 DEF InOrder
    <2>3. ASSUME NEW i \in (k + 1)..(j - 1) PROVE Comes(r, h - 1, said[i])
      <3>1. i \in (n + 1)..(j - 1) /\ i \in (k + 1)..Len(said)
        BY <1>3
      <3> QED BY <1>4, <2>1, <2>2, <3>1
    <2> QED BY <2>1, <2>2, <2>3
  <1> QED BY <1>1, <1>5, <1>6 DEF InOrder

\* The ids grow.
LEMMA GrowsOn ==
    ASSUME NEW p \in TurnIs, NEW n \in Nat, Grows(p, n)
    PROVE  Grows(p, n + 1)
  BY DEF Grows, TurnIs

LEMMA GrowsSame ==
    ASSUME NEW p \in TurnIs, NEW r \in TurnIs, NEW n \in Nat, Grows(p, n),
           r.said = p.said, r.turn = p.turn, p.st # "none", r.st # "none"
    PROVE  Grows(r, n)
  BY DEF Grows

LEMMA GrowsSays ==
    ASSUME NEW p \in TurnIs, NEW r \in TurnIs, NEW n \in Nat, Grows(p, n),
           r.said = Append(p.said, n), r.turn = p.turn, p.st # "none", r.st # "none"
    PROVE  Grows(r, n + 1) /\ r.said # <<>> /\ LastSaid(r.said) = n
  <1>1. PICK s, k : s = p.said /\ k = Len(p.said)
    OBVIOUS
  <1>2. /\ s \in Seq(Nat) /\ k \in Nat /\ Len(r.said) = k + 1 /\ r.said[k + 1] = n
        /\ \A i \in 1..k : r.said[i] = s[i]
    <2>1. s \in Seq(Nat)
      BY <1>1 DEF TurnIs
    <2> QED BY <1>1, <2>1, AtEnd
  <1>3. /\ p.turn < n /\ 0 < p.turn /\ p.turn \in Nat
        /\ \A i \in 1..k : p.turn < s[i] /\ s[i] < n /\ s[i] \in Nat
        /\ \A i, j \in 1..k : i < j => s[i] < s[j]
    <2>1. \A i \in 1..k : s[i] \in Nat
      BY <1>1, <1>2
    <2> QED BY <1>1, <2>1 DEF Grows, TurnIs
  <1>4. \A i \in 1..Len(r.said) : i = k + 1 \/ i \in 1..k
    BY <1>2
  <1>5. ASSUME NEW i \in 1..Len(r.said) PROVE r.turn < r.said[i] /\ r.said[i] < n + 1
    <2>1. CASE i = k + 1
      BY <1>2, <1>3, <2>1
    <2>2. CASE i \in 1..k
      <3>1. r.said[i] = s[i] /\ r.turn < s[i] /\ s[i] < n /\ s[i] \in Nat
        BY <1>2, <1>3, <2>2
      <3> QED BY <3>1
    <2> QED BY <1>4, <2>1, <2>2
  <1>6. \A i, j \in 1..Len(r.said) : i < j => r.said[i] < r.said[j]
    <2> SUFFICES ASSUME NEW i \in 1..Len(r.said), NEW j \in 1..Len(r.said), i < j
                 PROVE  r.said[i] < r.said[j]
      OBVIOUS
    <2>1. i \in 1..k
      BY <1>2
    <2>2. CASE j = k + 1
      BY <1>2, <1>3, <2>1, <2>2
    <2>3. CASE j \in 1..k
      BY <1>2, <1>3, <2>1, <2>3
    <2> QED BY <1>4, <2>2, <2>3
  <1>7. 0 < r.turn /\ r.turn < n + 1
    BY <1>3
  <1>8. r.said # <<>> /\ LastSaid(r.said) = n
    BY <1>2 DEF LastSaid
  <1> QED BY <1>5, <1>6, <1>7, <1>8 DEF Grows

LEMMA BelowOn ==
    ASSUME NEW q \in Seq(Notes), NEW n \in Nat, Below(q, n)
    PROVE  Below(q, n + 1)
  <1>1. \A i \in 1..Len(q) : q[i] \in Notes
    OBVIOUS
  <1>2. \A i \in 1..Len(q) : q[i].id \in Nat
    BY <1>1 DEF Notes
  <1> QED BY <1>2 DEF Below

LEMMA BelowAtEnd ==
    ASSUME NEW q \in Seq(Notes), NEW m \in Notes, NEW n \in Nat, Below(q, n),
           m.m # "login" => m.id < n
    PROVE  Below(Append(q, m), n)
  <1>1. PICK r : r = Append(q, m)
    OBVIOUS
  <1>2. Len(q) \in Nat /\ Len(r) = Len(q) + 1 /\ r[Len(q) + 1] = m
        /\ \A i \in 1..Len(q) : r[i] = q[i]
    BY <1>1, AtEnd
  <1>3. \A i \in 1..Len(r) : i = Len(q) + 1 \/ i \in 1..Len(q)
    BY <1>2
  <1> QED BY <1>1, <1>2, <1>3 DEF Below

LEMMA BelowRest ==
    ASSUME NEW q \in Seq(Notes), q # <<>>, NEW n, Below(q, n)
    PROVE  Below(Tail(q), n)
  <1>1. PICK r, l : r = Tail(q) /\ l = Len(q)
    OBVIOUS
  <1>2. l \in Nat \ {0} /\ Len(r) = l - 1 /\ \A i \in 1..Len(r) : r[i] = q[i + 1]
    BY <1>1, Rest
  <1>3. \A i \in 1..Len(r) : i + 1 \in 1..l
    BY <1>2
  <1> QED BY <1>1, <1>2, <1>3 DEF Below

\* What --print hears while no end of its own turn waits for it.
LEMMA EndsMore ==
    ASSUME NEW p, NEW k, NEW o, NEW r, NEW q \in Seq(Notes), NEW m \in Notes,
           EndsHeard(p, k, o, r, q), p.st \notin Follow!Rests \/ o,
           m.m = "state" => k.st # "none" /\ m.id = k.turn
    PROVE  EndsHeard(p, k, o, r, Append(q, m))
  <1>1. PICK s : s = Append(q, m)
    OBVIOUS
  <1>2. Len(q) \in Nat /\ Len(s) = Len(q) + 1 /\ s[Len(q) + 1] = m
        /\ \A i \in 1..Len(q) : s[i] = q[i]
    BY <1>1, AtEnd
  <1>3. \A i \in 1..Len(s) : i = Len(q) + 1 \/ i \in 1..Len(q)
    BY <1>2
  <1>4. \A i \in 1..Len(s) : s[i].m = "state" =>
          \/ k.st # "none" /\ s[i].id = k.turn
          \/ p.st \in Follow!Rests /\ s[i].id = p.turn /\ s[i].what = p.st /\ o
    BY <1>2, <1>3 DEF EndsHeard
  <1> QED BY <1>1, <1>4 DEF EndsHeard

\* The turn goes on, or comes to rest and says so.
LEMMA EndsKept ==
    ASSUME NEW p, NEW r, NEW k, NEW o, NEW r0, NEW q,
           EndsHeard(p, k, o, r0, q), p.st \notin Follow!Rests, p.st # "none",
           r.st # "none"
    PROVE  EndsHeard(r, k, o, r0, q)
  BY DEF EndsHeard

LEMMA EndsRested ==
    ASSUME NEW p, NEW r, NEW k, NEW o, NEW r0, NEW q \in Seq(Notes), NEW m \in Notes,
           EndsHeard(p, k, o, r0, q), p.st \notin Follow!Rests, p.st # "none",
           r.st \in Follow!Rests, m.id = r.turn, m.what = r.st
    PROVE  EndsHeard(r, k, o, r0, Append(q, m))
  <1>1. PICK s : s = Append(q, m)
    OBVIOUS
  <1>2. Len(q) \in Nat /\ Len(s) = Len(q) + 1 /\ s[Len(q) + 1] = m
        /\ \A i \in 1..Len(q) : s[i] = q[i]
    BY <1>1, AtEnd
  <1>3. \A i \in 1..Len(s) : i = Len(s) \/ i \in 1..Len(q)
    BY <1>2
  <1>4. \A i \in 1..Len(s) : s[i].m = "state" =>
          \/ k.st # "none" /\ s[i].id = k.turn
          \/ s[i].id = r.turn /\ s[i].what = r.st /\ i = Len(s)
    BY <1>2, <1>3 DEF EndsHeard
  <1>5. r.st # "none"
    BY DEF Follow!Rests
  <1> QED BY <1>1, <1>4, <1>5 DEF EndsHeard

LEMMA EndsRestOf ==
    ASSUME NEW p, NEW k, NEW o, NEW r, NEW q \in Seq(Notes), q # <<>>, EndsHeard(p, k, o, r, q)
    PROVE  EndsHeard(p, k, o, r, Tail(q))
  <1>1. PICK s, l : s = Tail(q) /\ l = Len(q)
    OBVIOUS
  <1>2. l \in Nat \ {0} /\ Len(s) = l - 1 /\ \A i \in 1..Len(s) : s[i] = q[i + 1]
    BY <1>1, Rest
  <1>3. \A i \in 1..Len(s) : i + 1 \in 1..l /\ (i + 1 = l => i = Len(s))
    BY <1>2
  <1>4. \A i \in 1..Len(s) : s[i].m = "state" =>
          \/ k.st # "none" /\ s[i].id = k.turn
          \/ /\ p.st \in Follow!Rests /\ s[i].id = p.turn /\ s[i].what = p.st
             /\ ~o => i = Len(s)
    BY <1>1, <1>2, <1>3 DEF EndsHeard
  <1> QED BY <1>1, <1>4 DEF EndsHeard

\* What the agent tool's child does not do to what the agent tool hears.
LEMMA CallKept ==
    ASSUME NEW c, NEW d, NEW k, NEW q, CallHears(c, k, q), d.st = c.st, d.text = c.text
    PROVE  CallHears(d, k, q)
  BY DEF CallHears

LEMMA EntryIs ==
    ASSUME NEW s \in {"p", "c"}, NEW id \in Nat, NEW what \in Whats
    PROVE  /\ Follow!Entry(s, id, what) \in Notes /\ Follow!Entry(s, id, what).m = "entry"
           /\ Follow!Entry(s, id, what).id = id /\ Follow!Entry(s, id, what).what = what
  BY DEF Follow!Entry, Notes

LEMMA StateIs ==
    ASSUME NEW s \in {"p", "c"}, NEW id \in Nat, NEW what \in Whats
    PROVE  /\ Follow!State(s, id, what) \in Notes /\ Follow!State(s, id, what).m = "state"
           /\ Follow!State(s, id, what).id = id /\ Follow!State(s, id, what).what = what
  BY DEF Follow!State, Notes

-----------------------------------------------------------------------------
(* The session's turn                                                      *)

LEMMA AnswerMessage ==
    ASSUME AnswerInv, NEW what \in Follow!Stops \cup {"tool_use"}, Follow!Message(what)
    PROVE  AnswerInv'
  <1>1. /\ kind \in {"kernel", "runtime"} /\ par \in TurnIs /\ kid \in TurnIs /\ call \in CallIs
        /\ pr \in PrintIs /\ pq \in Seq(Notes) /\ aq \in Seq(Notes) /\ next \in Nat \ {0}
    BY DEF AnswerInv, AnswerShape
  <1>2. PICK e : e = Follow!Entry("p", next, what)
    OBVIOUS
  <1>3. /\ kind' = kind /\ pr' = pr /\ kid' = kid /\ aq' = aq /\ pq' = Append(pq, e)
        /\ next' = next + 1
        /\ par.st = "streams" /\ (kind = "runtime" => what = "end_turn")
        /\ what = "tool_use" => kind = "kernel" /\ call.st = "none"
    BY <1>2 DEF Follow!Message, Follow!Up, Follow!Tell
  <1>4. /\ par' \in TurnIs /\ par'.said = Append(par.said, next) /\ par'.turn = par.turn
        /\ par'.stop = what
        /\ par'.st = IF what = "tool_use" THEN "calls"
                     ELSE IF kind = "kernel" THEN "completes" ELSE "streams"
    <2>1. PICK z : z = IF what = "tool_use" THEN "calls"
                       ELSE IF kind = "kernel" THEN "completes" ELSE "streams"
      OBVIOUS
    <2>2. par' = [par EXCEPT !.said = Append(@, next), !.stop = what, !.st = z]
      BY <1>1, <1>3, <2>1 DEF Follow!Message
    <2>3. Append(par.said, next) \in Seq(Nat) /\ what \in Whats
          /\ z \in {"calls", "completes", "streams"}
      BY <1>1, <2>1 DEF TurnIs, Follow!Stops, Whats
    <2>4. /\ par'.said = Append(par.said, next) /\ par'.turn = par.turn /\ par'.stop = what
          /\ par'.st = z
      BY <1>1, <2>2 DEF TurnIs
    <2>5. par' \in TurnIs
      BY <1>1, <2>2, <2>3 DEF TurnIs
    <2> QED BY <2>1, <2>4, <2>5
  <1>5. /\ call' \in CallIs /\ call'.orphan = call.orphan /\ call'.res = call.res
        /\ call'.text = call.text /\ (what # "tool_use" => call' = call)
        /\ what = "tool_use" => call'.st = "open"
    BY <1>1 DEF Follow!Message, CallIs
  <1>6. e \in Notes /\ e.m = "entry" /\ e.id = next /\ e.what = what /\ what # "failed"
    BY <1>1, <1>2, EntryIs DEF Follow!Stops, Whats
  <1>7. pq' \in Seq(Notes) /\ next' \in Nat \ {0} /\ next \in Nat
    BY <1>1, <1>3, <1>6, AtEnd
  <1>8. AnswerShape'
    BY <1>1, <1>3, <1>4, <1>5, <1>7 DEF AnswerShape
  <1>9. /\ Grows(par, next) /\ Grows(kid, next) /\ Below(pq, next)
        /\ kid.st # "none" => par.st # "none" /\ par.turn < kid.turn
    BY DEF AnswerInv, IdsGrow
  <1>10. IdsGrow(par', kid', pq', next')
    <2>1. par'.st # "none"
      BY <1>4
    <2>2. Grows(par', next')
      BY <1>1, <1>3, <1>4, <1>7, <1>9, <2>1, GrowsSays
    <2>3. Grows(kid', next')
      BY <1>1, <1>3, <1>7, <1>9, GrowsOn
    <2>4. Below(pq', next')
      <3>1. Below(pq, next + 1) /\ e.id < next + 1 /\ next + 1 \in Nat
        BY <1>1, <1>6, <1>7, <1>9, BelowOn
      <3> QED BY <1>1, <1>3, <1>6, <3>1, BelowAtEnd
    <2> QED BY <1>3, <1>4, <1>9, <2>1, <2>2, <2>3, <2>4 DEF IdsGrow
  <1>11. Nested(kind', par', kid', call', aq')
    BY <1>3, <1>4, <1>5 DEF AnswerInv, Nested, Follow!Rests
  <1>12. CallHears(call', kid', aq')
    <2>1. CASE what = "tool_use"
      BY <1>5, <2>1 DEF CallHears
    <2>2. CASE what # "tool_use"
      BY <1>3, <1>5, <2>2 DEF AnswerInv
    <2> QED BY <2>1, <2>2
  <1>13. CallTells(call', kid')
    <2>1. CASE what = "tool_use"
      BY <1>3, <1>5, <2>1 DEF AnswerInv, CallTells
    <2>2. CASE what # "tool_use"
      BY <1>3, <1>5, <2>2 DEF AnswerInv
    <2> QED BY <2>1, <2>2
  <1>14. EndsHeard(par', kid', call'.orphan, pr', pq')
    <2>1. EndsHeard(par', kid, call.orphan, pr, pq)
      BY <1>3, <1>4, EndsKept DEF AnswerInv, Follow!Rests
    <2>2. par'.st \notin Follow!Rests
      BY <1>4 DEF Follow!Rests
    <2> QED BY <1>1, <1>3, <1>5, <1>6, <2>1, <2>2, EndsMore
  <1>15. KernelHeard(kind', par', call'.orphan, pr', pq')
    <2> SUFFICES ASSUME kind = "kernel", par'.st = "completes"
                 PROVE  KernelHeard(kind', par', call'.orphan, pr', pq')
      BY <1>3, <1>4 DEF KernelHeard
    <2>1. par'.stop \in Follow!Stops
      BY <1>4
    <2>2. par'.said # <<>> /\ LastSaid(par'.said) = next
      BY <1>1, <1>3, <1>4, <1>7, <1>9, GrowsSays
    <2>3. Words(e, par'.turn)
      BY <1>1, <1>3, <1>4, <1>6, <1>9 DEF Words, Grows, TurnIs
    <2>4. EndsOn(pq', par'.turn, next, what)
      BY <1>1, <1>3, <1>6, <2>3, EndsAtEnd
    <2> QED BY <1>4, <2>1, <2>2, <2>4 DEF KernelHeard
  <1>16. RuntimeHeard(kind', par', pr', pq')
    <2> SUFFICES ASSUME kind = "runtime", pr.st = "wait"
                 PROVE  RuntimeHeard(kind', par', pr', pq')
      BY <1>3 DEF RuntimeHeard
    <2>1. PICK n \in Nat : n = Len(pr.text)
      BY <1>1 DEF PrintIs
    <2>2. Prefix(pr.text, par.said) /\ InOrder(pq, par.turn, par.said, n)
      BY <2>1 DEF AnswerInv, RuntimeHeard
    <2>3. n <= Len(par.said) /\ par.said \in Seq(Nat)
      BY <1>1, <2>1, <2>2 DEF Prefix, TurnIs
    <2>4. InOrder(pq', par'.turn, par'.said, n)
      BY <1>1, <1>3, <1>4, <1>6, <2>2, <2>3, OrderNew
    <2>5. Prefix(pr'.text, par'.said)
      <3>1. /\ Len(par'.said) = Len(par.said) + 1
            /\ \A i \in 1..Len(par.said) : par'.said[i] = par.said[i]
        BY <1>4, <1>7, <2>3, AtEnd
      <3> QED BY <1>3, <2>1, <2>2, <2>3, <3>1 DEF Prefix
    <2> QED BY <1>3, <2>1, <2>4, <2>5 DEF RuntimeHeard
  <1>17. Reports(kind', par', call'.orphan, pr')
    BY <1>3 DEF AnswerInv, Reports, Follow!Rests
  <1> QED BY <1>8, <1>10, <1>11, <1>12, <1>13, <1>14, <1>15, <1>16, <1>17 DEF AnswerInv

\* A step of a turn that is under way and stays so.
LEMMA TurnMoves ==
    ASSUME AnswerInv, AnswerShape', kind' = kind, pr' = pr, kid' = kid, aq' = aq,
           call'.st = call.st, call'.text = call.text, call'.res = call.res,
           call'.orphan = call.orphan,
           par.st \notin Follow!Rests \cup {"none"},
           par'.st \notin Follow!Rests \cup {"none", "completes"}, par'.turn = par.turn,
           Grows(par', next'), next' \in {next, next + 1}, Below(pq', next'),
           EndsHeard(par', kid', call'.orphan, pr', pq'), RuntimeHeard(kind', par', pr', pq'),
           Nested(kind', par', kid', call', aq')
    PROVE  AnswerInv'
  <1>1. /\ Grows(kid, next) /\ kid \in TurnIs /\ next \in Nat
        /\ kid.st # "none" => par.st # "none" /\ par.turn < kid.turn
    BY DEF AnswerInv, IdsGrow, AnswerShape
  <1>2. Grows(kid, next + 1)
    BY <1>1, GrowsOn
  <1>3. IdsGrow(par', kid', pq', next')
    BY <1>1, <1>2 DEF IdsGrow
  <1>4. CallHears(call', kid', aq')
    BY CallKept DEF AnswerInv
  <1>5. CallTells(call', kid')
    BY DEF AnswerInv, CallTells
  <1>6. KernelHeard(kind', par', call'.orphan, pr', pq')
    BY DEF KernelHeard, Follow!Rests
  <1>7. Reports(kind', par', call'.orphan, pr')
    BY DEF AnswerInv, Reports
  <1> QED BY <1>3, <1>4, <1>5, <1>6, <1>7 DEF AnswerInv

LEMMA AnswerInterrupt ==
    ASSUME AnswerInv, NEW how \in {"steer", "cancel"}, Follow!Interrupt(how)
    PROVE  AnswerInv'
  <1>1. /\ kind \in {"kernel", "runtime"} /\ par \in TurnIs /\ kid \in TurnIs /\ call \in CallIs
        /\ pr \in PrintIs /\ pq \in Seq(Notes) /\ aq \in Seq(Notes) /\ next \in Nat \ {0}
    BY DEF AnswerInv, AnswerShape
  <1>2. /\ kind' = kind /\ pr' = pr /\ kid' = kid /\ aq' = aq /\ pq' = pq /\ next' = next
        /\ par.st \in {"streams", "calls"}
        /\ par' = [par EXCEPT !.cut = how] /\ call' = [call EXCEPT !.ended = par.st = "calls"]
    BY DEF Follow!Interrupt, Follow!Up
  <1>3. /\ par' \in TurnIs /\ par'.said = par.said /\ par'.turn = par.turn /\ par'.st = par.st
        /\ par'.stop = par.stop
    BY <1>1, <1>2 DEF TurnIs
  <1>4. /\ call' \in CallIs /\ call'.st = call.st /\ call'.text = call.text /\ call'.res = call.res
        /\ call'.orphan = call.orphan
    BY <1>1, <1>2 DEF CallIs
  <1>5. AnswerShape'
    BY <1>1, <1>2, <1>3, <1>4 DEF AnswerShape
  <1>6. par.st \notin Follow!Rests \cup {"none"}
        /\ par'.st \notin Follow!Rests \cup {"none", "completes"}
    BY <1>2, <1>3 DEF Follow!Rests
  <1>7. Grows(par', next') /\ Below(pq', next')
    BY <1>1, <1>2, <1>3, <1>6, GrowsSame DEF AnswerInv, IdsGrow
  <1>8. EndsHeard(par', kid', call'.orphan, pr', pq')
    <2>1. EndsHeard(par, kid, call.orphan, pr, pq)
      BY DEF AnswerInv
    <2>2. par.st # "none" /\ par'.st # "none" /\ par.st \notin Follow!Rests
      BY <1>6
    <2>3. EndsHeard(par', kid, call.orphan, pr, pq)
      BY <2>1, <2>2, EndsKept
    <2>4. kid' = kid /\ call'.orphan = call.orphan /\ pr' = pr /\ pq' = pq
      BY <1>2, <1>4
    <2> QED BY <2>3, <2>4
  <1>9. RuntimeHeard(kind', par', pr', pq')
    BY <1>2, <1>3 DEF AnswerInv, RuntimeHeard
  <1>10. Nested(kind', par', kid', call', aq')
    BY <1>2, <1>3, <1>4 DEF AnswerInv, Nested
  <1> QED BY <1>2, <1>3, <1>4, <1>5, <1>6, <1>7, <1>8, <1>9, <1>10, TurnMoves

LEMMA AnswerAnswered ==
    ASSUME AnswerInv, Follow!Answered
    PROVE  AnswerInv'
  <1>1. /\ kind \in {"kernel", "runtime"} /\ par \in TurnIs /\ kid \in TurnIs /\ call \in CallIs
        /\ pr \in PrintIs /\ pq \in Seq(Notes) /\ aq \in Seq(Notes) /\ next \in Nat \ {0}
    BY DEF AnswerInv, AnswerShape
  <1>2. /\ kind' = kind /\ pr' = pr /\ kid' = kid /\ aq' = aq /\ pq' = pq /\ next' = next
        /\ call' = call /\ par.st = "calls" /\ call.st = "done"
    BY DEF Follow!Answered, Follow!Up
  <1>3. PICK z : z = IF par.cut = "no" THEN "streams"
                     ELSE IF par.cut = "steer" THEN "parked" ELSE "idles"
    OBVIOUS
  <1>4. par' = [par EXCEPT !.st = z]
    BY <1>1, <1>3 DEF Follow!Answered, TurnIs
  <1>5. z \in {"streams", "parked", "idles"}
    BY <1>3
  <1>6. /\ par' \in TurnIs /\ par'.said = par.said /\ par'.turn = par.turn /\ par'.st = z
        /\ par'.stop = par.stop
    BY <1>1, <1>4, <1>5 DEF TurnIs
  <1>7. AnswerShape'
    BY <1>1, <1>2, <1>6 DEF AnswerShape
  <1>8. par.st \notin Follow!Rests \cup {"none"}
        /\ par'.st \notin Follow!Rests \cup {"none", "completes"}
    BY <1>2, <1>5, <1>6 DEF Follow!Rests
  <1>9. Grows(par', next') /\ Below(pq', next')
    BY <1>1, <1>2, <1>6, <1>8, GrowsSame DEF AnswerInv, IdsGrow
  <1>10. EndsHeard(par', kid', call'.orphan, pr', pq')
    BY <1>2, <1>8, EndsKept DEF AnswerInv
  <1>11. RuntimeHeard(kind', par', pr', pq')
    BY <1>2, <1>6 DEF AnswerInv, RuntimeHeard
  <1>12. Nested(kind', par', kid', call', aq')
    BY <1>2, <1>5, <1>6 DEF AnswerInv, Nested
  <1> QED BY <1>2, <1>6, <1>7, <1>8, <1>9, <1>10, <1>11, <1>12, TurnMoves

LEMMA AnswerSteer ==
    ASSUME AnswerInv, Follow!Steer
    PROVE  AnswerInv'
  <1>1. /\ kind \in {"kernel", "runtime"} /\ par \in TurnIs /\ kid \in TurnIs /\ call \in CallIs
        /\ pr \in PrintIs /\ pq \in Seq(Notes) /\ aq \in Seq(Notes) /\ next \in Nat \ {0}
    BY DEF AnswerInv, AnswerShape
  <1>2. /\ kind' = kind /\ pr' = pr /\ kid' = kid /\ aq' = aq /\ pq' = pq /\ next' = next
        /\ call' = call /\ par.st = "parked" /\ par' = [par EXCEPT !.st = "streams", !.cut = "no"]
    BY DEF Follow!Steer, Follow!Up
  <1>3. /\ par' \in TurnIs /\ par'.said = par.said /\ par'.turn = par.turn /\ par'.st = "streams"
        /\ par'.stop = par.stop
    BY <1>1, <1>2 DEF TurnIs
  <1>4. AnswerShape'
    BY <1>1, <1>2, <1>3 DEF AnswerShape
  <1>5. par.st \notin Follow!Rests \cup {"none"}
        /\ par'.st \notin Follow!Rests \cup {"none", "completes"}
    BY <1>2, <1>3 DEF Follow!Rests
  <1>6. Grows(par', next') /\ Below(pq', next')
    BY <1>1, <1>2, <1>3, <1>5, GrowsSame DEF AnswerInv, IdsGrow
  <1>7. EndsHeard(par', kid', call'.orphan, pr', pq')
    BY <1>2, <1>5, EndsKept DEF AnswerInv
  <1>8. RuntimeHeard(kind', par', pr', pq')
    BY <1>2, <1>3 DEF AnswerInv, RuntimeHeard
  <1>9. Nested(kind', par', kid', call', aq')
    BY <1>2, <1>3 DEF AnswerInv, Nested
  <1> QED BY <1>2, <1>3, <1>4, <1>5, <1>6, <1>7, <1>8, <1>9, TurnMoves

\* What a turn's last words, cut or failed, are to whoever hears them.
LEMMA SaidLast ==
    ASSUME AnswerInv, NEW what \in Whats, par.st = "streams", par'.st # "none",
           kind = "kernel", kind' = kind, pr' = pr, kid' = kid, call' = call, next' = next + 1,
           pq' = Append(pq, Follow!Entry("p", next, what)), par'.st \notin Follow!Rests
    PROVE  /\ Below(pq', next') /\ pq' \in Seq(Notes) /\ next' \in Nat \ {0}
           /\ EndsHeard(par', kid', call'.orphan, pr', pq') /\ RuntimeHeard(kind', par', pr', pq')
  <1>1. kid \in TurnIs /\ pr \in PrintIs /\ pq \in Seq(Notes) /\ next \in Nat \ {0} /\ next \in Nat
    BY DEF AnswerInv, AnswerShape
  <1>2. PICK e \in Notes : pq' = Append(pq, e) /\ e.m = "entry" /\ e.id = next
    BY <1>1, EntryIs
  <1>3. Below(pq, next)
    BY DEF AnswerInv, IdsGrow
  <1>4. Below(pq, next + 1) /\ e.id < next + 1 /\ next + 1 \in Nat \ {0}
    BY <1>1, <1>2, <1>3, BelowOn
  <1>5. Below(pq', next') /\ pq' \in Seq(Notes)
    BY <1>1, <1>2, <1>4, BelowAtEnd, AtEnd
  <1>6. EndsHeard(par, kid, call.orphan, pr, pq) /\ par.st \notin Follow!Rests /\ par.st # "none"
    BY DEF AnswerInv, Follow!Rests
  <1>7. EndsHeard(par', kid, call.orphan, pr, pq)
    BY <1>6, EndsKept
  <1>8. EndsHeard(par', kid, call.orphan, pr, pq')
    BY <1>1, <1>2, <1>7, EndsMore
  <1>9. RuntimeHeard(kind', par', pr', pq')
    BY DEF RuntimeHeard
  <1> QED BY <1>4, <1>5, <1>8, <1>9

LEMMA AnswerCut ==
    ASSUME AnswerInv, Follow!Cut
    PROVE  AnswerInv'
  <1>1. /\ kind \in {"kernel", "runtime"} /\ par \in TurnIs /\ kid \in TurnIs /\ call \in CallIs
        /\ pr \in PrintIs /\ pq \in Seq(Notes) /\ aq \in Seq(Notes) /\ next \in Nat \ {0}
    BY DEF AnswerInv, AnswerShape
  <1>2. /\ kind' = kind /\ pr' = pr /\ kid' = kid /\ next' = next + 1 /\ call' = call
        /\ par.st = "streams" /\ aq' = aq
        /\ kind = "kernel" => pq' = Append(pq, Follow!Entry("p", next, "interrupted"))
        /\ kind = "runtime" => pq' = pq
    BY <1>1 DEF Follow!Cut, Follow!Up, Follow!Tell
  <1>3. PICK z, s, w : /\ z = IF par.cut = "steer" THEN "parked" ELSE "idles"
                       /\ s = IF kind = "kernel" THEN Append(par.said, next) ELSE par.said
                       /\ w = IF kind = "kernel" THEN "interrupted" ELSE par.stop
    OBVIOUS
  <1>4. par' = [par EXCEPT !.st = z, !.said = s, !.stop = w]
    BY <1>1, <1>3 DEF Follow!Cut, TurnIs
  <1>5. z \in {"parked", "idles"} /\ s \in Seq(Nat) /\ w \in Whats \cup {"none"}
    BY <1>1, <1>3 DEF TurnIs, Whats
  <1>6. par' \in TurnIs /\ par'.said = s /\ par'.turn = par.turn /\ par'.st = z
    BY <1>1, <1>4, <1>5 DEF TurnIs
  <1>7. par.st \notin Follow!Rests \cup {"none"}
        /\ par'.st \notin Follow!Rests \cup {"none", "completes"}
    BY <1>2, <1>5, <1>6 DEF Follow!Rests
  <1>8. Nested(kind', par', kid', call', aq')
    BY <1>2, <1>5, <1>6 DEF AnswerInv, Nested
  <1>9. Grows(par, next) /\ Below(pq, next) /\ next \in Nat /\ next + 1 \in Nat \ {0}
    BY <1>1 DEF AnswerInv, IdsGrow
  <1>10. CASE kind = "kernel"
    <2>1. Grows(par', next')
      BY <1>1, <1>2, <1>3, <1>6, <1>7, <1>9, <1>10, GrowsSays
    <2>2. /\ Below(pq', next') /\ pq' \in Seq(Notes) /\ next' \in Nat \ {0}
          /\ EndsHeard(par', kid', call'.orphan, pr', pq') /\ RuntimeHeard(kind', par', pr', pq')
      <3>1. "interrupted" \in Whats
        BY DEF Whats
      <3> QED BY <1>2, <1>7, <1>10, <3>1, SaidLast
    <2>3. AnswerShape'
      BY <1>1, <1>2, <1>6, <2>2 DEF AnswerShape
    <2> QED BY <1>2, <1>6, <1>7, <1>8, <2>1, <2>2, <2>3, TurnMoves
  <1>11. CASE kind = "runtime"
    <2>1. AnswerShape'
      BY <1>1, <1>2, <1>6, <1>9, <1>11 DEF AnswerShape
    <2>2. par'.said = par.said
      BY <1>3, <1>6, <1>11
    <2>3. Grows(par', next') /\ Below(pq', next')
      <3>1. Grows(par', next)
        BY <1>1, <1>6, <1>7, <1>9, <2>2, GrowsSame
      <3> QED BY <1>1, <1>2, <1>6, <1>9, <1>11, <3>1, GrowsOn, BelowOn
    <2>4. EndsHeard(par', kid', call'.orphan, pr', pq')
      BY <1>2, <1>7, <1>11, EndsKept DEF AnswerInv
    <2>5. RuntimeHeard(kind', par', pr', pq')
      BY <1>2, <1>6, <1>11, <2>2 DEF AnswerInv, RuntimeHeard
    <2> QED BY <1>2, <1>6, <1>7, <1>8, <2>1, <2>3, <2>4, <2>5, TurnMoves
  <1> QED BY <1>1, <1>10, <1>11

LEMMA AnswerFails ==
    ASSUME AnswerInv, Follow!Fails
    PROVE  AnswerInv'
  <1>1. /\ kind \in {"kernel", "runtime"} /\ par \in TurnIs /\ kid \in TurnIs /\ call \in CallIs
        /\ pr \in PrintIs /\ pq \in Seq(Notes) /\ aq \in Seq(Notes) /\ next \in Nat \ {0}
    BY DEF AnswerInv, AnswerShape
  <1>2. /\ kind' = kind /\ pr' = pr /\ kid' = kid /\ next' = next + 1 /\ call' = call
        /\ par.st = "streams" /\ aq' = aq /\ par' = [par EXCEPT !.st = "fails"]
        /\ kind = "kernel" => pq' = Append(pq, Follow!Entry("p", next, "failed"))
        /\ kind = "runtime" => pq' = pq
    BY <1>1 DEF Follow!Fails, Follow!Up, Follow!Tell
  <1>3. par' \in TurnIs /\ par'.said = par.said /\ par'.turn = par.turn /\ par'.st = "fails"
    BY <1>1, <1>2 DEF TurnIs
  <1>4. par.st \notin Follow!Rests \cup {"none"}
        /\ par'.st \notin Follow!Rests \cup {"none", "completes"}
    BY <1>2, <1>3 DEF Follow!Rests
  <1>5. Nested(kind', par', kid', call', aq')
    BY <1>2, <1>3 DEF AnswerInv, Nested
  <1>6. Grows(par, next) /\ Below(pq, next) /\ next \in Nat /\ next + 1 \in Nat \ {0}
    BY <1>1 DEF AnswerInv, IdsGrow
  <1>7. Grows(par', next')
    <2>1. Grows(par', next)
      BY <1>1, <1>3, <1>4, <1>6, GrowsSame
    <2> QED BY <1>2, <1>3, <1>6, <2>1, GrowsOn
  <1>8. CASE kind = "kernel"
    <2>1. /\ Below(pq', next') /\ pq' \in Seq(Notes) /\ next' \in Nat \ {0}
          /\ EndsHeard(par', kid', call'.orphan, pr', pq') /\ RuntimeHeard(kind', par', pr', pq')
      <3>1. "failed" \in Whats
        BY DEF Whats
      <3> QED BY <1>2, <1>4, <1>8, <3>1, SaidLast
    <2>2. AnswerShape'
      BY <1>1, <1>2, <1>3, <2>1 DEF AnswerShape
    <2> QED BY <1>2, <1>3, <1>4, <1>5, <1>7, <2>1, <2>2, TurnMoves
  <1>9. CASE kind = "runtime"
    <2>1. AnswerShape'
      BY <1>1, <1>2, <1>3, <1>6, <1>9 DEF AnswerShape
    <2>2. Below(pq', next')
      BY <1>1, <1>2, <1>6, <1>9, BelowOn
    <2>3. EndsHeard(par', kid', call'.orphan, pr', pq')
      BY <1>2, <1>4, <1>9, EndsKept DEF AnswerInv
    <2>4. RuntimeHeard(kind', par', pr', pq')
      BY <1>2, <1>3, <1>9 DEF AnswerInv, RuntimeHeard
    <2> QED BY <1>2, <1>3, <1>4, <1>5, <1>7, <2>1, <2>2, <2>3, <2>4, TurnMoves
  <1> QED BY <1>1, <1>8, <1>9

\* A runtime's entry is published again.
LEMMA AnswerAgain ==
    ASSUME AnswerInv, Follow!Again
    PROVE  AnswerInv'
  <1>1. /\ kind \in {"kernel", "runtime"} /\ par \in TurnIs /\ kid \in TurnIs /\ call \in CallIs
        /\ pr \in PrintIs /\ pq \in Seq(Notes) /\ aq \in Seq(Notes) /\ next \in Nat \ {0}
    BY DEF AnswerInv, AnswerShape
  <1>2. /\ kind' = kind /\ pr' = pr /\ kid' = kid /\ next' = next /\ call' = call /\ par' = par
        /\ aq' = aq /\ kind = "runtime" /\ par.st \notin Follow!Rests /\ par.said # <<>>
    BY DEF Follow!Again, Follow!Up, Follow!Tell, Follow!turns
  <1>3. /\ Grows(par, next) /\ Grows(kid, next) /\ Below(pq, next)
        /\ kid.st # "none" => par.st # "none" /\ par.turn < kid.turn
        /\ par.said \in Seq(Nat)
    BY <1>1 DEF AnswerInv, IdsGrow, TurnIs
  <1>4. PICK g \in 1..Len(par.said) : pq' = Append(pq, Follow!Entry("p", par.said[g], "end_turn"))
    <2>1. DOMAIN par.said = 1..Len(par.said)
      BY <1>3
    <2> QED BY <2>1 DEF Follow!Again, Follow!Tell
  <1>5. par.said[g] \in Nat /\ par.said[g] < next
    BY <1>3 DEF Grows
  <1>6. PICK e \in Notes : pq' = Append(pq, e) /\ e.m = "entry" /\ e.id = par.said[g]
    BY <1>4, <1>5, EntryIs DEF Whats
  <1>7. pq' \in Seq(Notes)
    BY <1>1, <1>6, AtEnd
  <1>8. AnswerShape'
    BY <1>1, <1>2, <1>7 DEF AnswerShape
  <1>9. IdsGrow(par', kid', pq', next')
    <2>1. Below(pq', next)
      BY <1>1, <1>3, <1>5, <1>6, BelowAtEnd
    <2> QED BY <1>2, <1>3, <2>1 DEF IdsGrow
  <1>10. Nested(kind', par', kid', call', aq') /\ CallHears(call', kid', aq')
         /\ CallTells(call', kid')
    BY <1>2 DEF AnswerInv
  <1>11. EndsHeard(par', kid', call'.orphan, pr', pq')
    <2>1. EndsHeard(par, kid, call.orphan, pr, pq)
      BY DEF AnswerInv
    <2>2. EndsHeard(par, kid, call.orphan, pr, pq')
      BY <1>1, <1>2, <1>6, <2>1, EndsMore
    <2> QED BY <1>2, <2>2
  <1>12. KernelHeard(kind', par', call'.orphan, pr', pq')
    BY <1>2 DEF KernelHeard
  <1>13. RuntimeHeard(kind', par', pr', pq')
    <2> SUFFICES ASSUME pr.st = "wait" PROVE RuntimeHeard(kind', par', pr', pq')
      BY <1>2 DEF RuntimeHeard
    <2>1. PICK n \in Nat : n = Len(pr.text)
      BY <1>1 DEF PrintIs
    <2>2. Prefix(pr.text, par.said) /\ InOrder(pq, par.turn, par.said, n)
      BY <1>2, <2>1 DEF AnswerInv, RuntimeHeard
    <2>3. InOrder(pq', par.turn, par.said, n)
      BY <1>1, <1>3, <1>6, <2>2, OrderAgain
    <2> QED BY <1>2, <2>1, <2>2, <2>3 DEF RuntimeHeard
  <1>14. Reports(kind', par', call'.orphan, pr')
    BY <1>2 DEF AnswerInv
  <1> QED BY <1>8, <1>9, <1>10, <1>11, <1>12, <1>13, <1>14 DEF AnswerInv

LEMMA AnswerRested ==
    ASSUME AnswerInv, Follow!Rested
    PROVE  AnswerInv'
  <1>1. /\ kind \in {"kernel", "runtime"} /\ par \in TurnIs /\ kid \in TurnIs /\ call \in CallIs
        /\ pr \in PrintIs /\ pq \in Seq(Notes) /\ aq \in Seq(Notes) /\ next \in Nat \ {0}
    BY DEF AnswerInv, AnswerShape
  <1>2. PICK z : /\ z # "none" /\ par' = [par EXCEPT !.st = z]
                 /\ pq' = Append(pq, Follow!State("p", par.turn, z))
                 /\ z = CASE par.st = "completes" \/ (kind = "runtime" /\ par.st = "streams")
                                 -> "completed"
                          [] par.st = "fails" -> "failed"
                          [] par.st \in {"idles", "parked"} -> "idle"
                          [] OTHER -> "none"
    BY DEF Follow!Rested, Follow!Tell
  <1>3. /\ z \in Follow!Rests /\ par.st \in {"completes", "streams", "fails", "idles", "parked"}
        /\ z = "completed" <=> par.st = "completes" \/ (kind = "runtime" /\ par.st = "streams")
    BY <1>2 DEF Follow!Rests
  <1>4. /\ kind' = kind /\ pr' = pr /\ kid' = kid /\ next' = next /\ call' = call /\ aq' = aq
    BY DEF Follow!Rested, Follow!Up, Follow!Tell
  <1>5. /\ par' \in TurnIs /\ par'.said = par.said /\ par'.turn = par.turn /\ par'.st = z
        /\ par'.stop = par.stop
    BY <1>1, <1>2, <1>3 DEF TurnIs
  <1>6. par.st \notin Follow!Rests \cup {"none"} /\ par'.st # "none" /\ z \in Whats
        /\ par.turn \in Nat
    BY <1>1, <1>3, <1>5 DEF Follow!Rests, Whats, TurnIs
  <1>7. PICK e \in Notes : pq' = Append(pq, e) /\ e.m = "state" /\ e.id = par.turn /\ e.what = z
    BY <1>2, <1>6, StateIs
  <1>8. pq' \in Seq(Notes)
    BY <1>1, <1>7, AtEnd
  <1>9. AnswerShape'
    BY <1>1, <1>4, <1>5, <1>8 DEF AnswerShape
  <1>10. /\ Grows(par, next) /\ Grows(kid, next) /\ Below(pq, next) /\ next \in Nat
         /\ kid.st # "none" => par.st # "none" /\ par.turn < kid.turn
    BY <1>1 DEF AnswerInv, IdsGrow
  <1>11. IdsGrow(par', kid', pq', next')
    <2>1. Grows(par', next)
      BY <1>1, <1>5, <1>6, <1>10, GrowsSame
    <2>2. e.id < next
      BY <1>6, <1>7, <1>10 DEF Grows
    <2>3. Below(pq', next)
      BY <1>1, <1>7, <1>10, <2>2, BelowAtEnd
    <2> QED BY <1>4, <1>5, <1>6, <1>10, <2>1, <2>3 DEF IdsGrow
  <1>12. Nested(kind', par', kid', call', aq')
    BY <1>3, <1>4, <1>5 DEF AnswerInv, Nested, Follow!Rests
  <1>13. CallHears(call', kid', aq') /\ CallTells(call', kid')
    BY <1>4 DEF AnswerInv
  <1>14. EndsHeard(par', kid', call'.orphan, pr', pq')
    <2>1. EndsHeard(par, kid, call.orphan, pr, pq)
      BY DEF AnswerInv
    <2>2. par'.st \in Follow!Rests /\ e.id = par'.turn /\ e.what = par'.st
      BY <1>3, <1>5, <1>7
    <2>3. EndsHeard(par', kid, call.orphan, pr, Append(pq, e))
      BY <1>1, <1>6, <2>1, <2>2, EndsRested
    <2> QED BY <1>4, <1>7, <2>3
  <1>15. KernelHeard(kind', par', call'.orphan, pr', pq')
    <2> SUFFICES ASSUME kind = "kernel", z = "completed"
                 PROVE  KernelHeard(kind', par', call'.orphan, pr', pq')
      BY <1>3, <1>4, <1>5 DEF KernelHeard, Follow!Rests
    <2>1. par.st = "completes" /\ ~Words(e, par.turn)
      BY <1>3, <1>7 DEF Words
    <2>2. /\ par.stop \in Follow!Stops /\ par.said # <<>>
          /\ pr.st = "wait" /\ ~call.orphan =>
               \/ pr.text = <<LastSaid(par.said)>> /\ pr.stop = par.stop /\ Silent(pq, par.turn)
               \/ EndsOn(pq, par.turn, LastSaid(par.said), par.stop)
      BY <2>1 DEF AnswerInv, KernelHeard
    <2>3. pr.st = "wait" /\ ~call.orphan =>
               \/ pr.text = <<LastSaid(par.said)>> /\ pr.stop = par.stop /\ Silent(pq', par.turn)
               \/ EndsOn(pq', par.turn, LastSaid(par.said), par.stop)
      BY <1>1, <1>7, <2>1, <2>2, SilentAtEnd, EndsAtEnd
    <2> QED BY <1>4, <1>5, <2>2, <2>3 DEF KernelHeard
  <1>16. RuntimeHeard(kind', par', pr', pq')
    <2> SUFFICES ASSUME kind = "runtime", pr.st = "wait" PROVE RuntimeHeard(kind', par', pr', pq')
      BY <1>4 DEF RuntimeHeard
    <2>1. PICK n \in Nat : n = Len(pr.text)
      BY <1>1 DEF PrintIs
    <2>2. Prefix(pr.text, par.said) /\ InOrder(pq, par.turn, par.said, n) /\ par.said \in Seq(Nat)
      BY <1>1, <2>1 DEF AnswerInv, RuntimeHeard, TurnIs
    <2>3. InOrder(pq', par.turn, par.said, n)
      BY <1>1, <1>7, <2>2, OrderAgain
    <2> QED BY <1>4, <1>5, <2>1, <2>2, <2>3 DEF RuntimeHeard
  <1>17. Reports(kind', par', call'.orphan, pr')
    BY <1>4, <1>6 DEF AnswerInv, Reports
  <1> QED BY <1>9, <1>11, <1>12, <1>13, <1>14, <1>15, <1>16, <1>17 DEF AnswerInv

-----------------------------------------------------------------------------
(* The child's turn                                                        *)

\* The agent tool hears one thing more of the child's turn, which then is k2.
LEMMA HearsMore ==
    ASSUME NEW c, NEW k \in TurnIs, NEW k2 \in TurnIs, NEW q \in Seq(Notes), NEW m \in Notes,
           CallHears(c, k, q), k.st \notin Follow!Rests, k2.turn = k.turn,
           m.m = "entry" => m.id > k.turn,
           m.m = "state" => m.what = k2.st /\ k2.st \in Follow!Rests,
           \/ k2.said = k.said /\ ~Words(m, k.turn)
           \/ LastSaid(k2.said) = m.id /\ Words(m, k.turn) /\ m.what = "end_turn"
    PROVE  CallHears(c, k2, Append(q, m))
  <1> SUFFICES ASSUME c.st \in {"wait", "grace"} PROVE CallHears(c, k2, Append(q, m))
    BY DEF CallHears
  <1>1. PICK s : s = Append(q, m)
    OBVIOUS
  <1>2. Len(q) \in Nat /\ Len(s) = Len(q) + 1 /\ s[Len(q) + 1] = m
        /\ \A i \in 1..Len(q) : s[i] = q[i]
    BY <1>1, AtEnd
  <1>3. \A i \in 1..Len(s) : i = Len(s) \/ i \in 1..Len(q)
    BY <1>2
  <1>4. /\ \A i \in 1..Len(q) : (q[i].m = "entry" => q[i].id > k.turn) /\ q[i].m # "state"
        /\ k.said # <<>> =>
             \/ c.text = LastSaid(k.said) /\ Silent(q, k.turn)
             \/ EndsOn(q, k.turn, LastSaid(k.said), "end_turn")
    BY DEF CallHears
  <1>5. \A i \in 1..Len(s) : /\ s[i].m = "entry" => s[i].id > k2.turn
                             /\ s[i].m = "state" =>
                                  i = Len(s) /\ s[i].what = k2.st /\ k2.st \in Follow!Rests
    BY <1>2, <1>3, <1>4
  <1>6. k2.said # <<>> => \/ c.text = LastSaid(k2.said) /\ Silent(s, k2.turn)
                          \/ EndsOn(s, k2.turn, LastSaid(k2.said), "end_turn")
    BY <1>1, <1>4, SilentAtEnd, EndsAtEnd
  <1> QED BY <1>1, <1>5, <1>6 DEF CallHears

LEMMA KidMoves ==
    ASSUME AnswerInv, AnswerShape', kind' = kind, pr' = pr, par' = par, call' = call,
           kid.st = "streams", kid'.st \in {"streams"} \cup Follow!Rests, kid'.turn = kid.turn,
           kid'.st = "completed" => kid'.said # <<>>,
           Grows(kid', next'), next' = next + 1, Below(pq', next'),
           EndsHeard(par, kid', call.orphan, pr, pq'),
           call.st \in {"wait", "grace"} => CallHears(call, kid', aq')
    PROVE  AnswerInv'
  <1>1. par \in TurnIs /\ next \in Nat /\ Grows(par, next) /\ par.st # "none" /\ par.turn < kid.turn
    BY DEF AnswerInv, IdsGrow, AnswerShape
  <1>2. Grows(par, next + 1)
    BY <1>1, GrowsOn
  <1>3. IdsGrow(par', kid', pq', next')
    BY <1>1, <1>2 DEF IdsGrow
  <1>4. kind = "kernel" /\ (call.orphan \/ par.st = "calls")
        /\ call.st \in {"wait", "grace", "close", "done"}
    BY DEF AnswerInv, Nested, CallIs, AnswerShape, Follow!Rests, Follow!NoTurn
  <1>5. Nested(kind', par', kid', call', aq')
    <2>1. kid'.st = "streams" => call.st \in {"wait", "grace", "close"} \/ call.orphan
      BY DEF AnswerInv, Nested
    <2>2. kid'.st # "none"
      BY DEF Follow!Rests
    <2> QED BY <1>4, <2>1, <2>2 DEF AnswerInv, Nested
  <1>6. CallHears(call', kid', aq')
    BY DEF CallHears
  <1>7. CallTells(call', kid')
    BY DEF AnswerInv, CallTells
  <1>8. KernelHeard(kind', par', call'.orphan, pr', pq')
    BY <1>4 DEF AnswerInv, KernelHeard, Follow!Rests
  <1>9. RuntimeHeard(kind', par', pr', pq')
    BY <1>4 DEF RuntimeHeard
  <1>10. Reports(kind', par', call'.orphan, pr')
    BY DEF AnswerInv
  <1> QED BY <1>3, <1>5, <1>6, <1>7, <1>8, <1>9, <1>10 DEF AnswerInv

LEMMA AnswerKidMessage ==
    ASSUME AnswerInv, Follow!KidMessage
    PROVE  AnswerInv'
  <1>1. /\ kind \in {"kernel", "runtime"} /\ par \in TurnIs /\ kid \in TurnIs /\ call \in CallIs
        /\ pr \in PrintIs /\ pq \in Seq(Notes) /\ aq \in Seq(Notes) /\ next \in Nat \ {0}
        /\ next \in Nat
    BY DEF AnswerInv, AnswerShape
  <1>2. PICK e \in Notes : /\ e = Follow!Entry("c", next, "end_turn") /\ e.m = "entry"
                           /\ e.id = next
                           /\ e.what = "end_turn"
    BY <1>1, EntryIs DEF Whats
  <1>3. /\ kind' = kind /\ pr' = pr /\ par' = par /\ call' = call /\ next' = next + 1
        /\ kid.st = "streams" /\ kid' = [kid EXCEPT !.said = Append(@, next)]
        /\ pq' = Append(pq, e)
        /\ aq' = IF call.st \in {"submit", "wait", "grace"} THEN Append(aq, e) ELSE aq
    BY <1>2 DEF Follow!KidMessage, Follow!KidSays, Follow!Hears, Follow!Up
  <1>4. /\ kid' \in TurnIs /\ kid'.said = Append(kid.said, next) /\ kid'.turn = kid.turn
        /\ kid'.st = "streams"
    <2>1. Append(kid.said, next) \in Seq(Nat)
      BY <1>1 DEF TurnIs
    <2> QED BY <1>1, <1>3, <2>1 DEF TurnIs
  <1>5. pq' \in Seq(Notes) /\ aq' \in Seq(Notes) /\ next' \in Nat \ {0} /\ next + 1 \in Nat
    BY <1>1, <1>2, <1>3, AtEnd
  <1>6. AnswerShape'
    BY <1>1, <1>3, <1>4, <1>5 DEF AnswerShape
  <1>7. Grows(kid, next) /\ Below(pq, next)
    BY DEF AnswerInv, IdsGrow
  <1>8. Grows(kid', next') /\ kid'.said # <<>> /\ LastSaid(kid'.said) = next
    BY <1>1, <1>3, <1>4, <1>7, GrowsSays
  <1>9. Below(pq', next')
    <2>1. Below(pq, next + 1) /\ e.id < next + 1
      BY <1>1, <1>2, <1>7, BelowOn
    <2> QED BY <1>1, <1>2, <1>3, <1>5, <2>1, BelowAtEnd
  <1>10. par.st \notin Follow!Rests \/ call.orphan
    BY <1>3 DEF AnswerInv, Nested, Follow!Rests
  <1>11. EndsHeard(par, kid', call.orphan, pr, pq')
    <2>1. EndsHeard(par, kid, call.orphan, pr, pq)
      BY DEF AnswerInv
    <2>2. EndsHeard(par, kid, call.orphan, pr, pq')
      BY <1>1, <1>2, <1>3, <1>10, <2>1, EndsMore
    <2> QED BY <1>3, <1>4, <2>2 DEF EndsHeard
  <1>12. ASSUME call.st \in {"wait", "grace"} PROVE CallHears(call, kid', aq')
    <2>1. e.id > kid.turn /\ Words(e, kid.turn)
      BY <1>1, <1>2, <1>3, <1>7 DEF Grows, Words, TurnIs
    <2>2. CallHears(call, kid, aq) /\ kid.st \notin Follow!Rests
      BY <1>3 DEF AnswerInv, Follow!Rests
    <2>3. CallHears(call, kid', Append(aq, e))
      BY <1>1, <1>2, <1>4, <1>8, <2>1, <2>2, HearsMore
    <2> QED BY <1>3, <1>12, <2>3
  <1> QED BY <1>3, <1>4, <1>6, <1>8, <1>9, <1>11, <1>12, KidMoves

LEMMA TwoAtEnd ==
    ASSUME NEW S, NEW q \in Seq(S), NEW a \in S, NEW b \in S
    PROVE  q \o <<b>> = Append(q, b) /\ q \o <<a, b>> = Append(Append(q, a), b)
  OBVIOUS

\* Between its last words and its end, the child's failure is an entry and no message.
LEMMA KidFails ==
    ASSUME AnswerInv, kid.st = "streams", NEW e \in Notes, e.m = "entry", e.id = next,
           e.what = "failed"
    PROVE  /\ Append(pq, e) \in Seq(Notes) /\ Below(Append(pq, e), next + 1)
           /\ EndsHeard(par, kid, call.orphan, pr, Append(pq, e))
           /\ Append(aq, e) \in Seq(Notes)
           /\ call.st \in {"wait", "grace"} => CallHears(call, kid, Append(aq, e))
  <1>1. /\ kid \in TurnIs /\ pq \in Seq(Notes) /\ aq \in Seq(Notes) /\ next \in Nat
        /\ next + 1 \in Nat
        /\ Grows(kid, next) /\ Below(pq, next)
    BY DEF AnswerInv, AnswerShape, IdsGrow
  <1>2. Below(pq, next + 1) /\ e.id < next + 1
    BY <1>1, BelowOn
  <1>3. Append(pq, e) \in Seq(Notes) /\ Below(Append(pq, e), next + 1)
        /\ Append(aq, e) \in Seq(Notes)
    BY <1>1, <1>2, BelowAtEnd, AtEnd
  <1>4. par.st \notin Follow!Rests \/ call.orphan
    BY DEF AnswerInv, Nested, Follow!Rests
  <1>5. EndsHeard(par, kid, call.orphan, pr, pq)
    BY DEF AnswerInv
  <1>6. EndsHeard(par, kid, call.orphan, pr, Append(pq, e))
    BY <1>1, <1>4, <1>5, EndsMore
  <1>7. e.id > kid.turn /\ ~Words(e, kid.turn)
    BY <1>1 DEF Grows, Words, TurnIs
  <1>8. CallHears(call, kid, aq) /\ kid.st \notin Follow!Rests
    BY DEF AnswerInv, Follow!Rests
  <1>9. CallHears(call, kid, Append(aq, e))
    BY <1>1, <1>7, <1>8, HearsMore
  <1> QED BY <1>3, <1>6, <1>9

LEMMA AnswerKidEnds ==
    ASSUME AnswerInv, NEW rest \in Follow!Rests, Follow!KidEnds(rest)
    PROVE  AnswerInv'
  <1>1. /\ kind \in {"kernel", "runtime"} /\ par \in TurnIs /\ kid \in TurnIs /\ call \in CallIs
        /\ pr \in PrintIs /\ pq \in Seq(Notes) /\ aq \in Seq(Notes) /\ next \in Nat \ {0}
        /\ next \in Nat
    BY DEF AnswerInv, AnswerShape
  <1>2. PICK e \in Notes : /\ e = Follow!Entry("c", next, "failed") /\ e.m = "entry" /\ e.id = next
                           /\ e.what = "failed"
    BY <1>1, EntryIs DEF Whats
  <1>3. kid.turn \in Nat /\ rest \in Whats
    BY <1>1 DEF TurnIs, Whats, Follow!Rests
  <1>4. PICK b \in Notes : b = Follow!State("c", kid.turn, rest) /\ b.m = "state" /\ b.id = kid.turn
                           /\ b.what = rest
    BY <1>3, StateIs
  <1>5. PICK p, a : /\ p = IF rest = "failed" THEN Append(pq, e) ELSE pq
                    /\ a = IF rest = "failed" THEN Append(aq, e) ELSE aq
    OBVIOUS
  <1>6. /\ kind' = kind /\ pr' = pr /\ par' = par /\ call' = call /\ next' = next + 1
        /\ kid.st = "streams" /\ kid' = [kid EXCEPT !.st = rest]
        /\ rest = "completed" => kid.said # <<>>
    BY DEF Follow!KidEnds, Follow!Up
  <1>7. /\ pq' = Append(p, b)
        /\ aq' = IF call.st \in {"submit", "wait", "grace"} THEN Append(a, b) ELSE aq
    <2>1. PICK all : /\ all = IF rest = "failed" THEN <<e, b>> ELSE <<b>>
                     /\ aq' = IF call.st \in {"submit", "wait", "grace"} THEN aq \o all ELSE aq
                     /\ pq' = pq \o all
      BY <1>2, <1>4 DEF Follow!KidEnds
    <2>2. /\ pq \o <<b>> = Append(pq, b) /\ pq \o <<e, b>> = Append(Append(pq, e), b)
          /\ aq \o <<b>> = Append(aq, b) /\ aq \o <<e, b>> = Append(Append(aq, e), b)
      BY <1>1, TwoAtEnd
    <2>3. CASE rest = "failed"
      BY <1>5, <2>1, <2>2, <2>3
    <2>4. CASE rest # "failed"
      BY <1>5, <2>1, <2>2, <2>4
    <2> QED BY <2>3, <2>4
  <1>8. /\ kid' \in TurnIs /\ kid'.said = kid.said /\ kid'.turn = kid.turn /\ kid'.st = rest
    BY <1>1, <1>6 DEF TurnIs
  <1>10. /\ p \in Seq(Notes) /\ a \in Seq(Notes) /\ Below(p, next + 1)
         /\ EndsHeard(par, kid, call.orphan, pr, p)
         /\ call.st \in {"wait", "grace"} => CallHears(call, kid, a)
    <2>1. CASE rest = "failed"
      BY <1>1, <1>2, <1>5, <1>6, <2>1, KidFails
    <2>2. CASE rest # "failed"
      <3>1. p = pq /\ a = aq
        BY <1>5, <2>2
      <3>2. Below(pq, next)
        BY DEF AnswerInv, IdsGrow
      <3>3. Below(pq, next + 1)
        BY <1>1, <3>2, BelowOn
      <3> QED BY <1>1, <3>1, <3>3 DEF AnswerInv
    <2> QED BY <2>1, <2>2
  <1>11. pq' \in Seq(Notes) /\ aq' \in Seq(Notes) /\ next' \in Nat \ {0}
    BY <1>1, <1>4, <1>6, <1>7, <1>10, AtEnd
  <1>12. AnswerShape'
    BY <1>1, <1>6, <1>8, <1>11 DEF AnswerShape
  <1>13. Grows(kid, next) /\ kid.turn < next
    BY <1>6 DEF AnswerInv, IdsGrow, Grows
  <1>14. Grows(kid', next')
    <2>1. rest # "none"
      BY DEF Follow!Rests
    <2>2. Grows(kid', next)
      BY <1>1, <1>6, <1>8, <1>13, <2>1, GrowsSame
    <2> QED BY <1>1, <1>6, <1>8, <2>2, GrowsOn
  <1>15. Below(pq', next')
    <2>1. b.id < next + 1 /\ next + 1 \in Nat
      BY <1>1, <1>3, <1>4, <1>13
    <2> QED BY <1>4, <1>6, <1>7, <1>10, <2>1, BelowAtEnd
  <1>16. par.st \notin Follow!Rests \/ call.orphan
    BY <1>6 DEF AnswerInv, Nested, Follow!Rests
  <1>17. EndsHeard(par, kid', call.orphan, pr, pq')
    <2>1. EndsHeard(par, kid, call.orphan, pr, pq')
      BY <1>4, <1>6, <1>7, <1>10, <1>16, EndsMore
    <2>2. kid'.st # "none"
      BY <1>8 DEF Follow!Rests
    <2> QED BY <1>8, <2>1, <2>2 DEF EndsHeard
  <1>18. ASSUME call.st \in {"wait", "grace"} PROVE CallHears(call, kid', aq')
    <2>1. ~Words(b, kid.turn) /\ b.m # "entry" /\ kid'.said = kid.said /\ b.what = kid'.st
      BY <1>4, <1>8 DEF Words
    <2>2. CallHears(call, kid, a) /\ kid.st \notin Follow!Rests
      BY <1>6, <1>10, <1>18 DEF Follow!Rests
    <2>3. CallHears(call, kid', Append(a, b))
      BY <1>1, <1>4, <1>8, <1>10, <2>1, <2>2, HearsMore
    <2> QED BY <1>7, <1>18, <2>3
  <1> QED BY <1>6, <1>8, <1>12, <1>14, <1>15, <1>17, <1>18, KidMoves

-----------------------------------------------------------------------------
(* The agent tool                                                          *)

LEMMA CallStays ==
    ASSUME AnswerInv, AnswerShape', kind' = kind, pr' = pr, par' = par, pq' = pq,
           call'.orphan = call.orphan, call.st \notin {"none", "done"},
           Grows(kid', next'), next' \in {next, next + 1},
           kid'.st # "none" => par.turn < kid'.turn, EndsHeard(par, kid', call.orphan, pr, pq),
           Nested(kind, par, kid', call', aq'), CallHears(call', kid', aq'), CallTells(call', kid')
    PROVE  AnswerInv'
  <1>1. par \in TurnIs /\ pq \in Seq(Notes) /\ next \in Nat /\ Grows(par, next) /\ Below(pq, next)
    BY DEF AnswerInv, IdsGrow, AnswerShape
  <1>2. Grows(par, next + 1) /\ Below(pq, next + 1)
    BY <1>1, GrowsOn, BelowOn
  <1>3. par.st # "none"
    BY DEF AnswerInv, Nested
  <1>4. IdsGrow(par', kid', pq', next')
    BY <1>1, <1>2, <1>3 DEF IdsGrow
  <1>5. /\ KernelHeard(kind', par', call'.orphan, pr', pq') /\ RuntimeHeard(kind', par', pr', pq')
        /\ Reports(kind', par', call'.orphan, pr')
    BY DEF AnswerInv
  <1> QED BY <1>4, <1>5 DEF AnswerInv

\* The call fails, wherever it was.
LEMMA CallGivesUp ==
    ASSUME AnswerInv, kind' = kind, pr' = pr, par' = par, pq' = pq, kid' = kid, next' = next,
           aq' = aq,
           NEW z \in {"close", "done"}, call' = [call EXCEPT !.st = z, !.res = "failed"],
           call.st \notin {"none", "done"}, z = "done" => call.st = "open"
    PROVE  AnswerInv'
  <1>1. call \in CallIs
    BY DEF AnswerInv, AnswerShape
  <1>2. call' \in CallIs /\ call'.st = z /\ call'.res = "failed" /\ call'.orphan = call.orphan
    BY <1>1 DEF CallIs
  <1>3. AnswerShape'
    BY <1>2 DEF AnswerInv, AnswerShape
  <1>4. /\ Grows(kid, next) /\ kid.st # "none" => par.turn < kid.turn
    BY DEF AnswerInv, IdsGrow
  <1>5. Nested(kind, par, kid', call', aq')
    BY <1>2 DEF AnswerInv, Nested, Follow!NoTurn, Follow!Rests
  <1>6. CallHears(call', kid', aq') /\ CallTells(call', kid')
    BY <1>2 DEF CallHears, CallTells
  <1>7. EndsHeard(par, kid', call.orphan, pr, pq)
    BY DEF AnswerInv
  <1>8. Grows(kid', next')
    BY DEF AnswerInv, IdsGrow
  <1> QED BY <1>2, <1>3, <1>4, <1>5, <1>6, <1>7, <1>8, CallStays

LEMMA AnswerOpens ==
    ASSUME AnswerInv, Follow!Opens
    PROVE  AnswerInv'
  <1>1. /\ call \in CallIs /\ kind' = kind /\ pr' = pr /\ par' = par /\ pq' = pq /\ kid' = kid
        /\ next' = next /\ aq' = aq /\ call.st = "open" /\ call' = [call EXCEPT !.st = "submit"]
    BY DEF AnswerInv, AnswerShape, Follow!Opens, Follow!Calling
  <1>2. call' \in CallIs /\ call'.st = "submit" /\ call'.res = call.res
        /\ call'.orphan = call.orphan
    BY <1>1 DEF CallIs
  <1>3. AnswerShape'
    BY <1>1, <1>2 DEF AnswerInv, AnswerShape
  <1>4. Nested(kind, par, kid', call', aq')
    BY <1>1, <1>2 DEF AnswerInv, Nested
  <1>5. CallHears(call', kid', aq') /\ CallTells(call', kid')
    BY <1>1, <1>2 DEF AnswerInv, Nested, CallHears, CallTells
  <1>6. EndsHeard(par, kid', call.orphan, pr, pq)
    BY <1>1 DEF AnswerInv
  <1>7. Grows(kid', next') /\ (kid'.st # "none" => par.turn < kid'.turn)
    BY <1>1 DEF AnswerInv, IdsGrow
  <1> QED BY <1>1, <1>2, <1>3, <1>4, <1>5, <1>6, <1>7, CallStays

LEMMA AnswerGivesUp ==
    ASSUME AnswerInv, Follow!OpenFails \/ Follow!SubmitFails \/ Follow!GraceEnds \/ Follow!CallLost
    PROVE  AnswerInv'
  <1>1. PICK z \in {"close", "done"} : /\ call' = [call EXCEPT !.st = z, !.res = "failed"]
                                       /\ call.st \notin {"none", "done"}
                                       /\ (z = "done" => call.st = "open")
    BY DEF Follow!OpenFails, Follow!SubmitFails, Follow!GraceEnds, Follow!CallLost, Follow!Calling
  <1>2. /\ kind' = kind /\ pr' = pr /\ par' = par /\ pq' = pq /\ kid' = kid /\ next' = next
        /\ aq' = aq
    BY DEF Follow!OpenFails, Follow!SubmitFails, Follow!GraceEnds, Follow!CallLost, Follow!Calling
  <1> QED BY <1>1, <1>2, CallGivesUp

LEMMA AnswerSubmits ==
    ASSUME AnswerInv, Follow!Submits
    PROVE  AnswerInv'
  <1>1. /\ call \in CallIs /\ par \in TurnIs /\ kid = Follow!NoTurn /\ aq = <<>>
        /\ call.res = "none"
        /\ ~call.orphan /\ par.st = "calls" /\ kind = "kernel" /\ next \in Nat \ {0}
        /\ Grows(par, next)
        /\ EndsHeard(par, kid, call.orphan, pr, pq)
    BY DEF AnswerInv, AnswerShape, Nested, IdsGrow, Follow!Submits, Follow!Calling
  <1>2. /\ kind' = kind /\ pr' = pr /\ par' = par /\ pq' = pq /\ aq' = aq /\ next' = next + 1
        /\ kid' = [kid EXCEPT !.st = "streams", !.turn = next] /\ call.st = "submit"
    BY DEF Follow!Submits, Follow!Calling
  <1>3. /\ call' \in CallIs /\ call'.orphan = call.orphan
        /\ \/ call'.st = "wait" /\ call'.res = "none"
           \/ call'.st = "close" /\ call'.res = "failed"
    <2>1. \/ call' = [call EXCEPT !.st = "wait"]
          \/ call' = [call EXCEPT !.st = "close", !.res = "failed"]
      BY DEF Follow!Submits
    <2>2. CASE call' = [call EXCEPT !.st = "wait"]
      BY <1>1, <2>2 DEF CallIs
    <2>3. CASE call' = [call EXCEPT !.st = "close", !.res = "failed"]
      BY <1>1, <2>3 DEF CallIs
    <2> QED BY <2>1, <2>2, <2>3
  <1>4. /\ kid' \in TurnIs /\ kid'.st = "streams" /\ kid'.turn = next /\ kid'.said = <<>>
        /\ Len(kid'.said) = 0
    <2>1. kid \in TurnIs /\ kid.said = <<>> /\ next \in Nat
      BY <1>1 DEF Follow!NoTurn, TurnIs
    <2>2. /\ kid' \in TurnIs /\ kid'.st = "streams" /\ kid'.turn = next /\ kid'.said = kid.said
      BY <1>2, <2>1 DEF TurnIs
    <2> QED BY <2>1, <2>2
  <1>5. AnswerShape'
    BY <1>1, <1>2, <1>3, <1>4 DEF AnswerInv, AnswerShape
  <1>6. Grows(kid', next') /\ par.turn < kid'.turn
    BY <1>1, <1>2, <1>4 DEF Grows, TurnIs
  <1>7. EndsHeard(par, kid', call.orphan, pr, pq)
    <2>1. kid.st = "none"
      BY <1>1 DEF Follow!NoTurn
    <2> QED BY <1>1, <2>1 DEF EndsHeard
  <1>8. Nested(kind, par, kid', call', aq')
    BY <1>1, <1>2, <1>3, <1>4 DEF Nested
  <1>9. CallHears(call', kid', aq') /\ CallTells(call', kid')
    <2>1. Len(aq') = 0
      BY <1>1, <1>2
    <2> QED BY <1>3, <1>4, <2>1 DEF CallHears, CallTells
  <1> QED BY <1>2, <1>3, <1>5, <1>6, <1>7, <1>8, <1>9, CallStays

LEMMA AnswerCancelled ==
    ASSUME AnswerInv, Follow!Cancelled
    PROVE  AnswerInv'
  <1>1. /\ call \in CallIs /\ kid \in TurnIs /\ kind' = kind /\ pr' = pr /\ par' = par /\ pq' = pq
        /\ next' = next /\ aq' = aq /\ call.st = "wait"
        /\ call' = [call EXCEPT !.st = "grace", !.cause = TRUE]
        /\ kid' = kid \/ kid' = [kid EXCEPT !.cut = "cancel"]
    BY DEF AnswerInv, AnswerShape, Follow!Cancelled, Follow!Calling
  <1>2. /\ call' \in CallIs /\ call'.st = "grace" /\ call'.res = call.res /\ call'.text = call.text
        /\ call'.orphan = call.orphan
    BY <1>1 DEF CallIs
  <1>3. /\ kid' \in TurnIs /\ kid'.st = kid.st /\ kid'.said = kid.said /\ kid'.turn = kid.turn
    BY <1>1 DEF TurnIs
  <1>4. AnswerShape'
    BY <1>1, <1>2, <1>3 DEF AnswerInv, AnswerShape
  <1>5. kid.st # "none"
    BY <1>1 DEF AnswerInv, Nested
  <1>6. Grows(kid', next') /\ par.turn < kid'.turn
    <2>1. Grows(kid, next) /\ par.turn < kid.turn /\ next \in Nat
      BY <1>5 DEF AnswerInv, IdsGrow, AnswerShape
    <2> QED BY <1>1, <1>3, <1>5, <2>1, GrowsSame
  <1>7. Nested(kind, par, kid', call', aq')
    BY <1>1, <1>2, <1>3, <1>5 DEF AnswerInv, Nested
  <1>8. CallHears(call', kid', aq') /\ CallTells(call', kid')
    <2>1. call.res = "none" /\ CallHears(call, kid, aq)
      BY <1>1 DEF AnswerInv, Nested
    <2> QED BY <1>1, <1>2, <1>3, <2>1 DEF CallHears, CallTells
  <1>9. EndsHeard(par, kid', call.orphan, pr, pq)
    BY <1>3 DEF AnswerInv, EndsHeard
  <1> QED BY <1>1, <1>2, <1>4, <1>6, <1>7, <1>8, <1>9, CallStays

LEMMA AnswerCloses ==
    ASSUME AnswerInv, Follow!Closes
    PROVE  AnswerInv'
  <1>1. /\ call \in CallIs /\ kid \in TurnIs /\ kind' = kind /\ pr' = pr /\ par' = par /\ pq' = pq
        /\ kid' = kid /\ next' = next /\ aq' = <<>> /\ call.st = "close"
        /\ call' = [call EXCEPT !.st = "done", !.orphan = kid.st = "streams"]
    BY DEF AnswerInv, AnswerShape, Follow!Closes, Follow!Calling
  <1>2. /\ call' \in CallIs /\ call'.st = "done" /\ call'.res = call.res /\ call'.text = call.text
        /\ call'.orphan = (kid.st = "streams")
    BY <1>1 DEF CallIs
  <1>3. AnswerShape'
    BY <1>1, <1>2 DEF AnswerInv, AnswerShape
  <1>4. par.st = "calls"
    BY <1>1 DEF AnswerInv, Nested
  <1>5. Nested(kind', par', kid', call', aq')
    BY <1>1, <1>2 DEF AnswerInv, Nested
  <1>6. CallHears(call', kid', aq') /\ CallTells(call', kid')
    BY <1>1, <1>2 DEF AnswerInv, CallHears, CallTells
  <1>7. IdsGrow(par', kid', pq', next')
    BY <1>1 DEF AnswerInv
  <1>8. EndsHeard(par', kid', call'.orphan, pr', pq')
    BY <1>1, <1>4 DEF AnswerInv, EndsHeard, Follow!Rests
  <1>9. /\ KernelHeard(kind', par', call'.orphan, pr', pq') /\ RuntimeHeard(kind', par', pr', pq')
        /\ Reports(kind', par', call'.orphan, pr')
    BY <1>1, <1>4 DEF AnswerInv, KernelHeard, RuntimeHeard, Reports, Follow!Rests
  <1> QED BY <1>3, <1>5, <1>6, <1>7, <1>8, <1>9 DEF AnswerInv

\* What the agent tool hears of the child, when what it took tells it nothing of what was said.
LEMMA HearsOn ==
    ASSUME NEW c, NEW d, NEW k, NEW q \in Seq(Notes), q # <<>>, CallHears(c, k, q),
           c.st \in {"wait", "grace"}, d.text = c.text, ~Words(Head(q), k.turn)
    PROVE  CallHears(d, k, Tail(q))
  <1>1. PICK s, l : s = Tail(q) /\ l = Len(q)
    OBVIOUS
  <1>2. l \in Nat \ {0} /\ Len(s) = l - 1 /\ \A i \in 1..Len(s) : s[i] = q[i + 1]
    BY <1>1, Rest
  <1>3. \A i \in 1..Len(s) : i + 1 \in 1..l /\ (i + 1 = l => i = Len(s))
    BY <1>2
  <1>4. \A i \in 1..Len(s) : /\ s[i].m = "entry" => s[i].id > k.turn
                             /\ s[i].m = "state" =>
                                  i = Len(s) /\ s[i].what = k.st /\ k.st \in Follow!Rests
    BY <1>1, <1>2, <1>3 DEF CallHears
  <1>5. k.said # <<>> => \/ c.text = LastSaid(k.said) /\ Silent(q, k.turn)
                         \/ EndsOn(q, k.turn, LastSaid(k.said), "end_turn")
    BY DEF CallHears
  <1>6. k.said # <<>> => \/ d.text = LastSaid(k.said) /\ Silent(s, k.turn)
                         \/ EndsOn(s, k.turn, LastSaid(k.said), "end_turn")
    BY <1>1, <1>5, SilentRest, EndsRest
  <1> QED BY <1>1, <1>4, <1>6 DEF CallHears

\* And when it is a message.
LEMMA HearsWords ==
    ASSUME NEW c, NEW d, NEW k, NEW q \in Seq(Notes), q # <<>>, CallHears(c, k, q),
           c.st \in {"wait", "grace"}, d.text = Head(q).id, Words(Head(q), k.turn)
    PROVE  CallHears(d, k, Tail(q))
  <1>1. PICK s, l : s = Tail(q) /\ l = Len(q)
    OBVIOUS
  <1>2. l \in Nat \ {0} /\ Len(s) = l - 1 /\ \A i \in 1..Len(s) : s[i] = q[i + 1]
    BY <1>1, Rest
  <1>3. \A i \in 1..Len(s) : i + 1 \in 1..l /\ (i + 1 = l => i = Len(s))
    BY <1>2
  <1>4. \A i \in 1..Len(s) : /\ s[i].m = "entry" => s[i].id > k.turn
                             /\ s[i].m = "state" =>
                                  i = Len(s) /\ s[i].what = k.st /\ k.st \in Follow!Rests
    BY <1>1, <1>2, <1>3 DEF CallHears
  <1>5. k.said # <<>> => EndsOn(q, k.turn, LastSaid(k.said), "end_turn")
    BY SilentRest DEF CallHears
  <1>6. k.said # <<>> => \/ d.text = LastSaid(k.said) /\ Silent(s, k.turn)
                         \/ EndsOn(s, k.turn, LastSaid(k.said), "end_turn")
    BY <1>1, <1>5, EndsRest
  <1> QED BY <1>1, <1>4, <1>6 DEF CallHears

LEMMA AnswerObserve ==
    ASSUME AnswerInv, Follow!Observe
    PROVE  AnswerInv'
  <1>1. /\ call \in CallIs /\ kid \in TurnIs /\ aq \in Seq(Notes) /\ aq # <<>>
        /\ call.st \in {"wait", "grace"} /\ call.res = "none" /\ kid.st # "none"
        /\ CallHears(call, kid, aq) /\ par.turn < kid.turn
    BY DEF AnswerInv, AnswerShape, Nested, IdsGrow, Follow!Observe
  <1>2. PICK n : n = Head(aq)
    OBVIOUS
  <1>3. /\ n \in Notes /\ Tail(aq) \in Seq(Notes) /\ n = aq[1] /\ 1 \in 1..Len(aq)
        /\ Len(aq) \in Nat
    BY <1>1, <1>2, Rest
  <1>4. n.m = "entry" => n.id > kid.turn
    BY <1>1, <1>3 DEF CallHears
  <1>5. /\ kind' = kind /\ pr' = pr /\ par' = par /\ pq' = pq /\ aq' = Tail(aq) /\ kid' = kid
        /\ next' = next
        /\ call' = CASE n.m = "entry" /\ n.id > kid.turn ->
                          IF n.what = "failed" THEN [call EXCEPT !.failure = TRUE]
                          ELSE [call EXCEPT !.text = n.id]
                     [] n.m = "state" /\ n.id = kid.turn ->
                          [call EXCEPT !.st = "close",
                                       !.res = IF call.cause \/ call.failure \/ n.what # "completed"
                                               THEN "failed" ELSE "ok"]
                     [] OTHER -> call
    BY <1>2 DEF Follow!Observe, Follow!Calling
  <1>6. /\ Grows(kid', next') /\ (kid'.st # "none" => par.turn < kid'.turn)
        /\ EndsHeard(par, kid', call.orphan, pr, pq)
    BY <1>1, <1>5 DEF AnswerInv, IdsGrow
  <1>7. ASSUME call' \in CallIs, call'.st = call.st, call'.res = call.res,
               call'.orphan = call.orphan,
               CallHears(call', kid, Tail(aq))
        PROVE  AnswerInv'
    <2>1. AnswerShape'
      BY <1>3, <1>5, <1>7 DEF AnswerInv, AnswerShape
    <2>2. Nested(kind, par, kid', call', aq')
      BY <1>1, <1>5, <1>7 DEF AnswerInv, Nested
    <2>3. CallHears(call', kid', aq') /\ CallTells(call', kid')
      BY <1>1, <1>5, <1>7 DEF CallTells
    <2> QED BY <1>1, <1>5, <1>6, <1>7, <2>1, <2>2, <2>3, CallStays
  <1>8. CASE n.m = "entry" /\ n.what = "failed"
    <2>1. call' = [call EXCEPT !.failure = TRUE]
      BY <1>4, <1>5, <1>8
    <2>2. /\ call' \in CallIs /\ call'.st = call.st /\ call'.res = call.res
          /\ call'.orphan = call.orphan
          /\ call'.text = call.text
      BY <1>1, <2>1 DEF CallIs
    <2>3. ~Words(n, kid.turn)
      BY <1>8 DEF Words
    <2> QED BY <1>1, <1>2, <1>7, <2>2, <2>3, HearsOn
  <1>9. CASE n.m = "entry" /\ n.what # "failed"
    <2>1. call' = [call EXCEPT !.text = n.id]
      BY <1>4, <1>5, <1>9
    <2>2. n.id \in Nat
      BY <1>3 DEF Notes
    <2>3. /\ call' \in CallIs /\ call'.st = call.st /\ call'.res = call.res
          /\ call'.orphan = call.orphan
          /\ call'.text = n.id
      BY <1>1, <2>1, <2>2 DEF CallIs
    <2>4. Words(n, kid.turn)
      BY <1>4, <1>9 DEF Words
    <2> QED BY <1>1, <1>2, <1>7, <2>3, <2>4, HearsWords
  <1>10. CASE n.m # "entry" /\ ~(n.m = "state" /\ n.id = kid.turn)
    <2>1. call' = call
      BY <1>5, <1>10
    <2>2. ~Words(n, kid.turn)
      BY <1>10 DEF Words
    <2> QED BY <1>1, <1>2, <1>7, <2>1, <2>2, HearsOn
  <1>11. CASE n.m = "state" /\ n.id = kid.turn
    <2>1. PICK z \in {"failed", "ok"} : /\ z = "ok" => n.what = "completed"
                                        /\ call' = [call EXCEPT !.st = "close", !.res = z]
      BY <1>5, <1>11
    <2>2. /\ call' \in CallIs /\ call'.st = "close" /\ call'.res = z /\ call'.orphan = call.orphan
          /\ call'.text = call.text
      BY <1>1, <2>1 DEF CallIs
    <2>3. n.what = kid.st /\ Len(aq) = 1
      BY <1>1, <1>3, <1>11 DEF CallHears
    <2>4. ASSUME z = "ok" 
          PROVE  kid.st = "completed" /\ kid.said # <<>> /\ call.text = LastSaid(kid.said)
      <3>1. kid.st = "completed" /\ kid.said # <<>>
        BY <2>1, <2>3, <2>4 DEF AnswerInv, Nested
      <3>2. ~EndsOn(aq, kid.turn, LastSaid(kid.said), "end_turn")
        BY <1>3, <1>11, <2>3 DEF EndsOn, Words
      <3> QED BY <1>1, <3>1, <3>2 DEF CallHears
    <2>5. AnswerShape'
      BY <1>3, <1>5, <2>2 DEF AnswerInv, AnswerShape
    <2>6. Nested(kind, par, kid', call', aq')
      BY <1>1, <1>5, <2>2 DEF AnswerInv, Nested
    <2>7. CallHears(call', kid', aq') /\ CallTells(call', kid')
      BY <1>5, <2>2, <2>4 DEF CallHears, CallTells
    <2> QED BY <1>1, <1>5, <1>6, <2>2, <2>5, <2>6, <2>7, CallStays
  <1> QED BY <1>8, <1>9, <1>10, <1>11

-----------------------------------------------------------------------------
(* --print                                                                 *)

LEMMA PrintMoves ==
    ASSUME AnswerInv, AnswerShape', kind' = kind, kid' = kid, call' = call, aq' = aq, par' = par,
           next' \in {next, next + 1}, Below(pq', next'),
           EndsHeard(par, kid, call.orphan, pr', pq'),
           KernelHeard(kind, par, call.orphan, pr', pq'),
           RuntimeHeard(kind, par, pr', pq'), Reports(kind, par, call.orphan, pr')
    PROVE  AnswerInv'
  <1>1. /\ par \in TurnIs /\ kid \in TurnIs /\ next \in Nat /\ Grows(par, next) /\ Grows(kid, next)
        /\ kid.st # "none" => par.st # "none" /\ par.turn < kid.turn
    BY DEF AnswerInv, IdsGrow, AnswerShape
  <1>2. Grows(par, next + 1) /\ Grows(kid, next + 1)
    BY <1>1, GrowsOn
  <1>3. IdsGrow(par', kid', pq', next')
    BY <1>1, <1>2 DEF IdsGrow
  <1>4. Nested(kind', par', kid', call', aq') /\ CallHears(call', kid', aq')
        /\ CallTells(call', kid')
    BY DEF AnswerInv
  <1> QED BY <1>3, <1>4 DEF AnswerInv

\* --print goes on to another state, or ends.
LEMMA PrintGoesOn ==
    ASSUME AnswerInv, kind' = kind, kid' = kid, call' = call, aq' = aq, par' = par, next' = next,
           pq' \in Seq(Notes), Below(pq', next), EndsHeard(par, kid, call.orphan, pr, pq'),
           NEW z \in {"submit", "login", "over"}, NEW x \in Nat,
           pr' = [pr EXCEPT !.st = z, !.code = x],
           pr.st # "over", z # "over" => pr.st \in {"open", "submit", "login"},
           pr.state # "none" => x = Code(pr)
    PROVE  AnswerInv'
  <1>1. pr \in PrintIs
    BY DEF AnswerInv, AnswerShape
  <1>2. /\ pr' \in PrintIs /\ pr'.st = z /\ pr'.text = pr.text /\ pr'.stop = pr.stop
        /\ pr'.state = pr.state /\ pr'.code = x
    BY <1>1 DEF PrintIs
  <1>3. AnswerShape'
    BY <1>2 DEF AnswerInv, AnswerShape
  <1>4. EndsHeard(par, kid, call.orphan, pr', pq')
    BY <1>2 DEF EndsHeard
  <1>5. KernelHeard(kind, par, call.orphan, pr', pq') /\ RuntimeHeard(kind, par, pr', pq')
    BY <1>2 DEF AnswerInv, KernelHeard, RuntimeHeard
  <1>6. Reports(kind, par, call.orphan, pr')
    BY <1>2 DEF AnswerInv, Reports, Code
  <1> QED BY <1>3, <1>4, <1>5, <1>6, PrintMoves

\* With what waits for it left alone.
LEMMA PrintSteps ==
    ASSUME AnswerInv, kind' = kind, kid' = kid, call' = call, aq' = aq, par' = par, next' = next,
           pq' = pq,
           NEW z \in {"submit", "login", "over"}, NEW x \in Nat,
           pr' = [pr EXCEPT !.st = z, !.code = x],
           pr.st # "over", z # "over" => pr.st \in {"open", "submit", "login"},
           pr.state # "none" => x = Code(pr)
    PROVE  AnswerInv'
  <1>1. /\ pq' \in Seq(Notes) /\ Below(pq', next) /\ EndsHeard(par, kid, call.orphan, pr, pq')
    BY DEF AnswerInv, AnswerShape, IdsGrow
  <1> QED BY <1>1, PrintGoesOn

LEMMA AnswerRefused ==
    ASSUME AnswerInv, Follow!OpenRefused \/ Follow!SubmitRefused \/ Follow!PrintLost
    PROVE  AnswerInv'
  <1>1. /\ kind' = kind /\ kid' = kid /\ call' = call /\ aq' = aq /\ par' = par /\ next' = next
        /\ pq' = pq
        /\ pr.st \in {"open", "submit", "wait", "login"}
    BY DEF Follow!OpenRefused, Follow!SubmitRefused, Follow!PrintLost, Follow!Printing
  <1>2. PICK x \in Nat : pr' = [pr EXCEPT !.st = "over", !.code = x]
    BY DEF Follow!OpenRefused, Follow!SubmitRefused, Follow!PrintLost, Follow!Exit
  <1>3. pr.state = "none" /\ pr.st # "over"
    BY <1>1 DEF AnswerInv, EndsHeard
  <1> QED BY <1>1, <1>2, <1>3, PrintSteps

LEMMA AnswerFinish ==
    ASSUME AnswerInv, Follow!Finish
    PROVE  AnswerInv'
  <1>1. /\ kind' = kind /\ kid' = kid /\ call' = call /\ aq' = aq /\ par' = par /\ next' = next
        /\ pq' = pq
        /\ pr.st = "finish"
    BY DEF Follow!Finish, Follow!Printing
  <1>2. PICK x : x = Code(pr)
    OBVIOUS
  <1>3. pr' = [pr EXCEPT !.st = "over", !.code = x]
    BY <1>2 DEF Follow!Finish, Follow!Exit, Code
  <1>4. x \in Nat
    BY <1>2 DEF Code, Follow!ExitFor
  <1> QED BY <1>1, <1>2, <1>3, <1>4, PrintSteps

LEMMA AnswerOpenOrResume ==
    ASSUME AnswerInv, Follow!OpenOrResume
    PROVE  AnswerInv'
  <1>1. /\ kind' = kind /\ kid' = kid /\ call' = call /\ aq' = aq /\ par' = par
        /\ pr' = [pr EXCEPT !.st = "submit"] /\ pr.st = "open"
    BY DEF Follow!OpenOrResume, Follow!Printing
  <1>2. /\ pr \in PrintIs /\ pq \in Seq(Notes) /\ next \in Nat \ {0} /\ next \in Nat
        /\ Below(pq, next)
        /\ EndsHeard(par, kid, call.orphan, pr, pq) /\ par.st = "none" /\ pr.state = "none"
    BY <1>1 DEF AnswerInv, AnswerShape, IdsGrow, EndsHeard
  <1>3. /\ pr' \in PrintIs /\ pr'.st = "submit" /\ pr'.text = pr.text /\ pr'.stop = pr.stop
        /\ pr'.state = pr.state /\ pr'.code = pr.code
    BY <1>1, <1>2 DEF PrintIs
  <1>4. /\ pq' \in Seq(Notes) /\ Below(pq', next') /\ EndsHeard(par, kid, call.orphan, pr, pq')
        /\ next' \in {next, next + 1}
    <2>1. CASE pq' = pq /\ next' = next
      BY <1>2, <2>1
    <2>2. CASE pq' = Append(pq, Follow!Entry("p", next, "end_turn")) /\ next' = next + 1
      <3>1. PICK e \in Notes : pq' = Append(pq, e) /\ e.m = "entry" /\ e.id = next
        BY <1>2, <2>2, EntryIs DEF Whats
      <3>2. Below(pq, next + 1) /\ e.id < next + 1 /\ next + 1 \in Nat
        BY <1>2, <3>1, BelowOn
      <3>3. Below(pq', next')
        BY <1>2, <2>2, <3>1, <3>2, BelowAtEnd
      <3>4. par.st \notin Follow!Rests
        BY <1>2 DEF Follow!Rests
      <3>5. EndsHeard(par, kid, call.orphan, pr, pq')
        BY <1>2, <3>1, <3>4, EndsMore
      <3>6. pq' \in Seq(Notes)
        BY <1>2, <3>1, AtEnd
      <3> QED BY <2>2, <3>3, <3>5, <3>6
    <2> QED BY <2>1, <2>2 DEF Follow!OpenOrResume
  <1>5. AnswerShape'
    BY <1>1, <1>2, <1>3, <1>4 DEF AnswerInv, AnswerShape
  <1>6. EndsHeard(par, kid, call.orphan, pr', pq')
    BY <1>1, <1>2, <1>3, <1>4 DEF EndsHeard
  <1>7. KernelHeard(kind, par, call.orphan, pr', pq') /\ RuntimeHeard(kind, par, pr', pq')
    BY <1>2, <1>3 DEF KernelHeard, RuntimeHeard
  <1>8. Reports(kind, par, call.orphan, pr')
    BY <1>2, <1>3 DEF Reports
  <1> QED BY <1>1, <1>4, <1>5, <1>6, <1>7, <1>8, PrintMoves

\* A turn begins: nothing of it has been said, and nothing that waits is of it.
LEMMA AnswerBegins ==
    ASSUME AnswerInv, kind' = kind, kid' = kid, call' = call, aq' = aq, pq' = pq, next' = next + 1,
           par' = [par EXCEPT !.st = "streams", !.turn = next], pr' = [pr EXCEPT !.st = "wait"],
           pr.st = "submit"
    PROVE  AnswerInv'
  <1>1. /\ pr \in PrintIs /\ par \in TurnIs /\ kid \in TurnIs /\ pq \in Seq(Notes)
        /\ call \in CallIs
        /\ next \in Nat \ {0} /\ next \in Nat /\ next + 1 \in Nat \ {0}
    BY DEF AnswerInv, AnswerShape
  <1>2. /\ par.st = "none" /\ pr.text = <<>> /\ pr.state = "none" /\ par = Follow!NoTurn
        /\ kid.st = "none" /\ call.st = "none" /\ Grows(kid, next) /\ Below(pq, next)
    <2>1. par.st = "none" /\ pr.text = <<>> /\ pr.state = "none"
      BY DEF AnswerInv, EndsHeard
    <2> QED BY <2>1 DEF AnswerInv, IdsGrow, Grows, Nested
  <1>3. /\ pr' \in PrintIs /\ pr'.st = "wait" /\ pr'.text = <<>> /\ pr'.state = "none"
    BY <1>1, <1>2 DEF PrintIs
  <1>4. par' \in TurnIs /\ par'.st = "streams" /\ par'.turn = next /\ par'.said = par.said
    BY <1>1 DEF TurnIs
  <1>5. par'.said = <<>> /\ Len(par'.said) = 0
    BY <1>2, <1>4 DEF Follow!NoTurn
  <1>6. AnswerShape'
    BY <1>1, <1>3, <1>4 DEF AnswerInv, AnswerShape
  <1>7. IdsGrow(par', kid', pq', next')
    <2>1. Grows(par', next')
      BY <1>1, <1>4, <1>5 DEF Grows
    <2>2. Grows(kid', next') /\ Below(pq', next')
      BY <1>1, <1>2, GrowsOn, BelowOn
    <2> QED BY <1>2, <2>1, <2>2 DEF IdsGrow
  <1>8. Nested(kind', par', kid', call', aq')
    BY <1>2, <1>4 DEF AnswerInv, Nested
  <1>9. CallHears(call', kid', aq') /\ CallTells(call', kid')
    BY DEF AnswerInv
  <1>10. EndsHeard(par', kid', call'.orphan, pr', pq')
    <2>1. \A i \in 1..Len(pq) : pq[i].m # "state"
      BY <1>2 DEF AnswerInv, EndsHeard, Follow!Rests
    <2> QED BY <1>3, <1>4, <2>1 DEF EndsHeard
  <1>11. KernelHeard(kind', par', call'.orphan, pr', pq')
    BY <1>4 DEF KernelHeard
  <1>12. RuntimeHeard(kind', par', pr', pq')
    <2>1. Prefix(pr'.text, par'.said) /\ Len(pr'.text) = 0
      BY <1>3, <1>5 DEF Prefix
    <2>2. \A h \in 1..Len(pq) : ~(pq[h].m = "entry" /\ pq[h].id > next)
      <3>1. \A h \in 1..Len(pq) : pq[h] \in Notes
        BY <1>1
      <3> QED BY <1>1, <1>2, <3>1 DEF Below, Notes
    <2>3. InOrder(pq', par'.turn, par'.said, 0)
      BY <1>4, <1>5, <2>2 DEF InOrder
    <2> QED BY <2>1, <2>3 DEF RuntimeHeard
  <1>13. Reports(kind', par', call'.orphan, pr')
    BY <1>3 DEF Reports
  <1> QED BY <1>6, <1>7, <1>8, <1>9, <1>10, <1>11, <1>12, <1>13 DEF AnswerInv

LEMMA AnswerSubmit ==
    ASSUME AnswerInv, prompt \in Prompts, Follow!Submit
    PROVE  AnswerInv'
  <1>1. /\ kind' = kind /\ kid' = kid /\ call' = call /\ aq' = aq /\ pq' = pq /\ pr.st = "submit"
        /\ pr \in PrintIs /\ pr.state = "none"
    BY DEF AnswerInv, AnswerShape, EndsHeard, Follow!Submit, Follow!Printing
  <1>2. \/ /\ par' = [par EXCEPT !.st = "streams", !.turn = next] /\ next' = next + 1
           /\ pr' = [pr EXCEPT !.st = "wait"]
        \/ /\ par' = par /\ next' = next
           /\ \/ \E x \in {0, 2} : pr' = [pr EXCEPT !.st = "over", !.code = x]
              \/ pr' = [pr EXCEPT !.st = "login"]
    <2>1. CASE prompt = "text"
      BY <2>1 DEF Follow!Submit
    <2>2. CASE prompt = "notice"
      BY <2>2 DEF Follow!Submit, Follow!Exit
    <2>3. CASE prompt = "unknown"
      BY <2>3 DEF Follow!Submit, Follow!Exit
    <2>4. CASE prompt = "login"
      BY <2>4 DEF Follow!Submit
    <2> QED BY <2>1, <2>2, <2>3, <2>4 DEF Prompts
  <1>3. CASE par' = par /\ next' = next /\ pr' = [pr EXCEPT !.st = "login"]
    <2>1. pr' = [pr EXCEPT !.st = "login", !.code = pr.code] /\ pr.code \in Nat
      BY <1>1, <1>3 DEF PrintIs
    <2> QED BY <1>1, <1>3, <2>1, PrintSteps
  <1>4. CASE par' = par /\ next' = next
             /\ \E x \in {0, 2} : pr' = [pr EXCEPT !.st = "over", !.code = x]
    <2>1. PICK x \in Nat : pr' = [pr EXCEPT !.st = "over", !.code = x]
      BY <1>4
    <2> QED BY <1>1, <1>4, <2>1, PrintSteps
  <1>5. CASE /\ par' = [par EXCEPT !.st = "streams", !.turn = next] /\ next' = next + 1
             /\ pr' = [pr EXCEPT !.st = "wait"]
    BY <1>1, <1>5, AnswerBegins
  <1> QED BY <1>2, <1>3, <1>4, <1>5

LEMMA AnswerLoginTold ==
    ASSUME AnswerInv, Follow!LoginTold
    PROVE  AnswerInv'
  <1>1. /\ kind' = kind /\ kid' = kid /\ call' = call /\ aq' = aq /\ par' = par /\ next' = next
        /\ pr.st = "login" /\ pq # <<>> /\ pq' = Tail(pq)
    BY DEF Follow!LoginTold, Follow!Printing
  <1>2. /\ pr \in PrintIs /\ pq \in Seq(Notes) /\ Below(pq, next) /\ pr.state = "none"
        /\ EndsHeard(par, kid, call.orphan, pr, pq)
    BY <1>1 DEF AnswerInv, AnswerShape, EndsHeard, IdsGrow
  <1>3. pq' \in Seq(Notes) /\ Below(pq', next) /\ EndsHeard(par, kid, call.orphan, pr, pq')
    BY <1>1, <1>2, Rest, BelowRest, EndsRestOf
  <1>4. PICK z \in {"login", "over"}, x \in Nat : pr' = [pr EXCEPT !.st = z, !.code = x]
    <2>1. CASE Head(pq).m = "login" /\ Head(pq).id = 1
      <3>1. pr' = [pr EXCEPT !.st = "over", !.code = IF Head(pq).what = "ok" THEN 0 ELSE 1]
        BY <2>1 DEF Follow!LoginTold
      <3> QED BY <3>1
    <2>2. CASE ~(Head(pq).m = "login" /\ Head(pq).id = 1)
      <3>1. pr' = pr
        BY <2>2 DEF Follow!LoginTold
      <3>2. pr' = [pr EXCEPT !.st = "login", !.code = pr.code] /\ pr.code \in Nat
        BY <1>1, <1>2, <3>1 DEF PrintIs
      <3> QED BY <3>2
    <2> QED BY <2>1, <2>2
  <1> QED BY <1>1, <1>2, <1>3, <1>4, PrintGoesOn

LEMMA AnswerLoginEnds ==
    ASSUME AnswerInv, NEW mine \in BOOLEAN, NEW ok \in BOOLEAN, Follow!LoginEnds(mine, ok)
    PROVE  AnswerInv'
  <1>1. /\ kind' = kind /\ kid' = kid /\ call' = call /\ aq' = aq /\ par' = par /\ next' = next
        /\ pr' = pr /\ pr.st = "login" /\ pq' = Append(pq, Follow!Login(mine, ok))
    BY DEF Follow!LoginEnds, Follow!Up, Follow!Tell, Follow!turns
  <1>2. /\ pr \in PrintIs /\ pq \in Seq(Notes) /\ next \in Nat /\ Below(pq, next) /\ par.st = "none"
        /\ EndsHeard(par, kid, call.orphan, pr, pq) /\ pr.state = "none"
    BY <1>1 DEF AnswerInv, AnswerShape, EndsHeard, IdsGrow
  <1>3. PICK e \in Notes : pq' = Append(pq, e) /\ e.m = "login"
    <2>1. Follow!Login(mine, ok) \in Notes /\ Follow!Login(mine, ok).m = "login"
      BY DEF Follow!Login, Notes, Whats
    <2> QED BY <1>1, <2>1
  <1>4. pq' \in Seq(Notes) /\ Below(pq', next)
    BY <1>2, <1>3, AtEnd, BelowAtEnd
  <1>5. EndsHeard(par, kid, call.orphan, pr, pq')
    <2>1. par.st \notin Follow!Rests
      BY <1>2 DEF Follow!Rests
    <2> QED BY <1>2, <1>3, <2>1, EndsMore
  <1>6. AnswerShape'
    BY <1>1, <1>4 DEF AnswerInv, AnswerShape
  <1>7. KernelHeard(kind, par, call.orphan, pr', pq') /\ RuntimeHeard(kind, par, pr', pq')
    BY <1>1, <1>2 DEF KernelHeard, RuntimeHeard
  <1>8. Reports(kind, par, call.orphan, pr')
    BY <1>1 DEF AnswerInv
  <1> QED BY <1>1, <1>4, <1>5, <1>6, <1>7, <1>8, PrintMoves

\* A signal cuts the turn, and nothing of it is waited for.
LEMMA AnswerSignal ==
    ASSUME AnswerInv, Follow!Signal
    PROVE  AnswerInv'
  <1>1. /\ kind' = kind /\ kid' = kid /\ call' = call /\ aq' = aq /\ pq' = pq /\ next' = next
        /\ pr.st \in {"wait", "login"} /\ pr' = [pr EXCEPT !.st = "over", !.code = 130]
        /\ \/ par' = par
           \/ par.st \in {"streams", "calls"} /\ par' = [par EXCEPT !.cut = "cancel"]
    BY DEF Follow!Signal, Follow!Printing, Follow!Exit
  <1>2. pr \in PrintIs /\ par \in TurnIs /\ next \in Nat /\ pr.state = "none" /\ Grows(par, next)
    BY <1>1 DEF AnswerInv, AnswerShape, EndsHeard, IdsGrow
  <1>3. CASE par' = par
    BY <1>1, <1>2, <1>3, PrintSteps
  <1>4. CASE par.st \in {"streams", "calls"} /\ par' = [par EXCEPT !.cut = "cancel"]
    <2>1. /\ par' \in TurnIs /\ par'.st = par.st /\ par'.turn = par.turn /\ par'.said = par.said
          /\ par'.stop = par.stop
      BY <1>2, <1>4 DEF TurnIs
    <2>2. pr' \in PrintIs /\ pr'.st = "over" /\ pr'.state = "none"
      BY <1>1, <1>2 DEF PrintIs
    <2>3. AnswerShape'
      BY <1>1, <2>1, <2>2 DEF AnswerInv, AnswerShape
    <2>4. IdsGrow(par', kid', pq', next')
      <3>1. Grows(par', next)
        BY <1>2, <1>4, <2>1, GrowsSame
      <3> QED BY <1>1, <2>1, <3>1 DEF AnswerInv, IdsGrow
    <2>5. Nested(kind', par', kid', call', aq')
      BY <1>1, <1>4, <2>1 DEF AnswerInv, Nested
    <2>6. CallHears(call', kid', aq') /\ CallTells(call', kid')
      BY <1>1 DEF AnswerInv
    <2>7. EndsHeard(par', kid', call'.orphan, pr', pq')
      BY <1>1, <1>4, <2>1, <2>2 DEF AnswerInv, EndsHeard
    <2>8. KernelHeard(kind', par', call'.orphan, pr', pq') /\ RuntimeHeard(kind', par', pr', pq')
      BY <1>4, <2>1, <2>2 DEF KernelHeard, RuntimeHeard
    <2>9. Reports(kind', par', call'.orphan, pr')
      BY <2>2 DEF Reports
    <2> QED BY <2>3, <2>4, <2>5, <2>6, <2>7, <2>8, <2>9 DEF AnswerInv
  <1> QED BY <1>1, <1>3, <1>4

\* Words that --print takes, of a kernel's turn; and what it takes that are none.
LEMMA KernelTakes ==
    ASSUME NEW p, NEW o, NEW r, NEW s, NEW q \in Seq(Notes), q # <<>>,
           KernelHeard("kernel", p, o, r, q), r.st = "wait",
           \/ Words(Head(q), p.turn) /\ s.text = <<Head(q).id>> /\ s.stop = Head(q).what
           \/ ~Words(Head(q), p.turn) /\ s.text = r.text /\ s.stop = r.stop
    PROVE  KernelHeard("kernel", p, o, s, Tail(q))
  <1> SUFFICES ASSUME p.st \in {"completes", "completed"}
               PROVE  KernelHeard("kernel", p, o, s, Tail(q))
    BY DEF KernelHeard
  <1>1. /\ p.stop \in Follow!Stops /\ p.said # <<>>
        /\ ~o => \/ r.text = <<LastSaid(p.said)>> /\ r.stop = p.stop /\ Silent(q, p.turn)
                 \/ EndsOn(q, p.turn, LastSaid(p.said), p.stop)
    BY DEF KernelHeard
  <1>2. ASSUME ~o
        PROVE  \/ s.text = <<LastSaid(p.said)>> /\ s.stop = p.stop /\ Silent(Tail(q), p.turn)
               \/ EndsOn(Tail(q), p.turn, LastSaid(p.said), p.stop)
    <2>1. CASE Silent(q, p.turn) /\ r.text = <<LastSaid(p.said)>> /\ r.stop = p.stop
      BY <2>1, SilentRest
    <2>2. CASE EndsOn(q, p.turn, LastSaid(p.said), p.stop)
      BY <2>2, EndsRest
    <2> QED BY <1>1, <1>2, <2>1, <2>2
  <1> QED BY <1>1, <1>2 DEF KernelHeard

\* The end of its own turn, as --print takes it.
LEMMA EndTold ==
    ASSUME AnswerInv, pr.st = "wait", pq # <<>>, Head(pq).m = "state", Head(pq).id = par.turn
    PROVE  par.st \in Follow!Rests /\ Head(pq).what = par.st /\ (~call.orphan => Len(pq) = 1)
  <1>1. pq \in Seq(Notes) /\ par \in TurnIs /\ kid \in TurnIs
    BY DEF AnswerInv, AnswerShape
  <1>2. Head(pq) = pq[1] /\ 1 \in 1..Len(pq)
    BY <1>1, Rest
  <1>3. ~(kid.st # "none" /\ pq[1].id = kid.turn)
    BY <1>1, <1>2 DEF AnswerInv, IdsGrow, TurnIs
  <1> QED BY <1>2, <1>3 DEF AnswerInv, EndsHeard

LEMMA AnswerTakeKernel ==
    ASSUME AnswerInv, Follow!Take, kind = "kernel"
    PROVE  AnswerInv'
  <1>1. /\ kind' = kind /\ kid' = kid /\ call' = call /\ aq' = aq /\ par' = par /\ next' = next
        /\ pr.st = "wait" /\ pq # <<>> /\ pq' = Tail(pq) /\ pr' = Follow!Fold(Head(pq))
    BY DEF Follow!Take, Follow!Printing
  <1>2. /\ pr \in PrintIs /\ par \in TurnIs /\ pq \in Seq(Notes) /\ Below(pq, next)
        /\ pr.state = "none"
        /\ EndsHeard(par, kid, call.orphan, pr, pq) /\ par.st # "none"
        /\ KernelHeard("kernel", par, call.orphan, pr, pq)
    BY <1>1 DEF AnswerInv, AnswerShape, EndsHeard, IdsGrow
  <1>3. /\ pq' \in Seq(Notes) /\ Below(pq', next) /\ EndsHeard(par, kid, call.orphan, pr, pq')
    BY <1>1, <1>2, Rest, BelowRest, EndsRestOf
  <1>4. PICK n \in Notes : n = Head(pq)
    BY <1>1, <1>2, Rest
  <1>5. ASSUME pr' \in PrintIs, pr'.st = "wait", pr'.state = "none",
               \/ Words(n, par.turn) /\ pr'.text = <<n.id>> /\ pr'.stop = n.what
               \/ ~Words(n, par.turn) /\ pr'.text = pr.text /\ pr'.stop = pr.stop
        PROVE  AnswerInv'
    <2>1. AnswerShape'
      BY <1>1, <1>3, <1>5 DEF AnswerInv, AnswerShape
    <2>2. EndsHeard(par, kid, call.orphan, pr', pq')
      BY <1>2, <1>3, <1>5 DEF EndsHeard
    <2>3. KernelHeard(kind, par, call.orphan, pr', pq')
      BY <1>1, <1>2, <1>4, <1>5, KernelTakes
    <2>4. RuntimeHeard(kind, par, pr', pq') /\ Reports(kind, par, call.orphan, pr')
      BY <1>5 DEF RuntimeHeard, Reports
    <2> QED BY <1>1, <1>3, <2>1, <2>2, <2>3, <2>4, PrintMoves
  <1>6. CASE Words(n, par.turn)
    <2>1. n.id \in Nat /\ n.what \in Whats
      BY DEF Notes
    <2>2. pr' = [pr EXCEPT !.text = <<n.id>>, !.stop = n.what]
      BY <1>1, <1>4, <1>6 DEF Follow!Fold, Words
    <2>3. pr' \in PrintIs /\ pr'.st = "wait" /\ pr'.state = "none" /\ pr'.text = <<n.id>>
          /\ pr'.stop = n.what
      <3>1. PICK t \in Seq(Nat), w \in Whats : t = <<n.id>> /\ w = n.what
        <4>1. <<n.id>> \in Seq(Nat)
          BY <2>1
        <4> QED BY <2>1, <4>1
      <3>2. pr' = [pr EXCEPT !.text = t, !.stop = w]
        BY <2>2, <3>1
      <3>3. pr' \in PrintIs /\ pr'.st = pr.st /\ pr'.state = pr.state /\ pr'.text = t
            /\ pr'.stop = w
        BY <1>2, <3>2 DEF PrintIs
      <3> QED BY <1>1, <1>2, <3>1, <3>3
    <2> QED BY <1>5, <1>6, <2>3
  <1>7. CASE ~Words(n, par.turn) /\ ~(n.m = "state" /\ n.id = par.turn)
    <2>1. pr' = pr
      BY <1>1, <1>4, <1>7 DEF Follow!Fold, Words
    <2> QED BY <1>1, <1>2, <1>5, <1>7, <2>1
  <1>8. CASE n.m = "state" /\ n.id = par.turn
    <2>1. par.st \in Follow!Rests /\ n.what = par.st /\ (~call.orphan => Len(pq) = 1)
      BY <1>1, <1>4, <1>8, EndTold
    <2>2. pr' = [pr EXCEPT !.state = n.what, !.st = "finish"]
      <3>1. pr' = [pr EXCEPT !.state = n.what, !.st = "finish", !.stop = @]
        BY <1>1, <1>4, <1>8 DEF Follow!Fold
      <3>2. pr.stop = pr.stop
        OBVIOUS
      <3> QED BY <1>2, <3>1 DEF PrintIs
    <2>3. n.what \in Whats /\ n.what # "none"
      BY <2>1 DEF Whats, Follow!Rests
    <2>4. /\ pr' \in PrintIs /\ pr'.st = "finish" /\ pr'.state = par.st /\ pr'.text = pr.text
          /\ pr'.stop = pr.stop
      BY <1>2, <2>1, <2>2, <2>3 DEF PrintIs
    <2>5. AnswerShape'
      BY <1>1, <1>3, <2>4 DEF AnswerInv, AnswerShape
    <2>6. EndsHeard(par, kid, call.orphan, pr', pq')
      BY <1>2, <1>3, <2>1, <2>3, <2>4 DEF EndsHeard
    <2>7. KernelHeard(kind, par, call.orphan, pr', pq') /\ RuntimeHeard(kind, par, pr', pq')
      BY <1>2, <2>4 DEF KernelHeard, RuntimeHeard
    <2>8. ASSUME ~call.orphan, par.st = "completed"
          PROVE  pr.text = <<LastSaid(par.said)>> /\ pr.stop = par.stop
      <3>1. ~EndsOn(pq, par.turn, LastSaid(par.said), par.stop)
        <4>1. Head(pq) = pq[1] /\ \A i \in 1..Len(pq) : i = 1
          BY <1>1, <1>2, <2>1, <2>8, Rest
        <4> QED BY <1>4, <1>8, <4>1 DEF EndsOn, Words
      <3> QED BY <1>1, <1>2, <2>8, <3>1 DEF KernelHeard
    <2>9. Reports(kind, par, call.orphan, pr')
      BY <2>1, <2>4, <2>8 DEF Reports
    <2> QED BY <1>1, <1>3, <2>5, <2>6, <2>7, <2>9, PrintMoves
  <1> QED BY <1>6, <1>7, <1>8

\* All that a runtime's turn said has been taken, when its end is all that waits.
LEMMA AllTaken ==
    ASSUME NEW t \in Seq(Nat), NEW said \in Seq(Nat), NEW q, NEW t0, Prefix(t, said),
           InOrder(q, t0, said, Len(t)), Len(q) = 1, q[1].m # "entry"
    PROVE  t = said
  <1>1. Len(t) \in Nat /\ Len(said) \in Nat /\ Len(t) <= Len(said)
    BY DEF Prefix
  <1>2. \A i \in (Len(t) + 1)..Len(said) : Comes(q, 1, said[i])
    BY DEF InOrder
  <1>3. \A id : ~Comes(q, 1, id)
    BY DEF Comes
  <1>4. ~(Len(t) < Len(said))
    <2> SUFFICES ASSUME Len(t) < Len(said) PROVE FALSE
      OBVIOUS
    <2>1. Len(said) \in (Len(t) + 1)..Len(said)
      BY <1>1
    <2> QED BY <1>2, <1>3, <2>1
  <1>5. Len(t) = Len(said) /\ \A i \in 1..Len(t) : t[i] = said[i]
    BY <1>1, <1>4 DEF Prefix
  <1> QED BY <1>5, SeqEqual

LEMMA AnswerTakeRuntime ==
    ASSUME AnswerInv, Follow!Take, kind = "runtime"
    PROVE  AnswerInv'
  <1>1. /\ kind' = kind /\ kid' = kid /\ call' = call /\ aq' = aq /\ par' = par /\ next' = next
        /\ pr.st = "wait" /\ pq # <<>> /\ pq' = Tail(pq) /\ pr' = Follow!Fold(Head(pq))
    BY DEF Follow!Take, Follow!Printing
  <1>2. /\ pr \in PrintIs /\ par \in TurnIs /\ pq \in Seq(Notes) /\ Below(pq, next)
        /\ pr.state = "none"
        /\ EndsHeard(par, kid, call.orphan, pr, pq) /\ par.st # "none" /\ Grows(par, next)
    BY <1>1 DEF AnswerInv, AnswerShape, EndsHeard, IdsGrow
  <1>3. /\ pq' \in Seq(Notes) /\ Below(pq', next) /\ EndsHeard(par, kid, call.orphan, pr, pq')
    BY <1>1, <1>2, Rest, BelowRest, EndsRestOf
  <1>4. PICK n \in Notes : n = Head(pq)
    BY <1>1, <1>2, Rest
  <1>5. PICK t, said, c : t = pr.text /\ said = par.said /\ c = Len(t)
    OBVIOUS
  <1>6. /\ t \in Seq(Nat) /\ said \in Seq(Nat) /\ c \in Nat /\ Prefix(t, said) /\ c <= Len(said)
        /\ InOrder(pq, par.turn, said, c)
    <2>1. t \in Seq(Nat) /\ said \in Seq(Nat)
      BY <1>2, <1>5 DEF PrintIs, TurnIs
    <2> QED BY <1>1, <1>5, <2>1 DEF AnswerInv, RuntimeHeard, Prefix
  <1>7. /\ \A i \in 1..Len(said) : said[i] > par.turn /\ said[i] \in Nat
        /\ \A i, j \in 1..Len(said) : said[i] = said[j] => i = j
    <2>1. \A i \in 1..Len(said) : said[i] > par.turn /\ said[i] \in Nat
      BY <1>2, <1>5, <1>6 DEF Grows, TurnIs
    <2>2. \A i, j \in 1..Len(said) : i < j => said[i] < said[j]
      BY <1>2, <1>5 DEF Grows
    <2>3. ASSUME NEW i \in 1..Len(said), NEW j \in 1..Len(said), said[i] = said[j] PROVE i = j
      <3>1. ~(i < j) /\ ~(j < i)
        BY <2>1, <2>2, <2>3
      <3> QED BY <3>1
    <2> QED BY <2>1, <2>3
  <1>8. ASSUME pr' \in PrintIs, pr'.st = "wait", pr'.state = "none",
               Prefix(pr'.text, said), InOrder(pq', par.turn, said, Len(pr'.text))
        PROVE  AnswerInv'
    <2>1. AnswerShape'
      BY <1>1, <1>3, <1>8 DEF AnswerInv, AnswerShape
    <2>2. EndsHeard(par, kid, call.orphan, pr', pq')
      BY <1>2, <1>3, <1>8 DEF EndsHeard
    <2>3. RuntimeHeard(kind, par, pr', pq')
      BY <1>5, <1>8 DEF RuntimeHeard
    <2>4. KernelHeard(kind, par, call.orphan, pr', pq') /\ Reports(kind, par, call.orphan, pr')
      BY <1>8 DEF KernelHeard, Reports
    <2> QED BY <1>1, <1>3, <2>1, <2>2, <2>3, <2>4, PrintMoves
  <1>9. ASSUME n.m = "entry", n.id > par.turn, \A i \in 1..c : t[i] # n.id PROVE AnswerInv'
    <2>1. DOMAIN pr.text = 1..c
      BY <1>5, <1>6
    <2>2. n.id \in Nat
      BY DEF Notes
    <2>3. PICK u : u = Append(t, n.id)
      OBVIOUS
    <2>4. u \in Seq(Nat) /\ Len(u) = c + 1 /\ u[c + 1] = n.id /\ \A i \in 1..c : u[i] = t[i]
      BY <1>5, <1>6, <2>2, <2>3, AtEnd
    <2>5. pr' = [pr EXCEPT !.text = u]
      <3>1. pr' = [pr EXCEPT !.text = Append(@, n.id)]
        BY <1>1, <1>4, <1>5, <1>9, <2>1 DEF Follow!Fold
      <3> QED BY <1>2, <1>5, <2>3, <3>1 DEF PrintIs
    <2>6. pr' \in PrintIs /\ pr'.st = "wait" /\ pr'.state = "none" /\ pr'.text = u
      BY <1>1, <1>2, <2>4, <2>5 DEF PrintIs
    <2>7. c < Len(said) /\ n.id = said[c + 1]
      <3>1. PICK j \in 1..Len(said) : n.id = said[j] /\ j <= c + 1
        BY <1>1, <1>2, <1>4, <1>6, <1>9, HeadNext
      <3>2. ~(j \in 1..c)
        BY <1>5, <1>6, <1>9, <3>1 DEF Prefix
      <3> QED BY <1>6, <3>1, <3>2
    <2>8. Prefix(u, said)
      <3>1. \A i \in 1..Len(u) : i = c + 1 \/ i \in 1..c
        BY <1>6, <2>4
      <3>2. \A i \in 1..c : t[i] = said[i]
        BY <1>5, <1>6 DEF Prefix
      <3>3. \A i \in 1..Len(u) : u[i] = said[i]
        BY <2>4, <2>7, <3>1, <3>2
      <3> QED BY <1>6, <2>4, <2>7, <3>3 DEF Prefix
    <2>9. InOrder(pq', par.turn, said, Len(u))
      <3>1. c + 1 \in Nat /\ \A i \in 1..Len(said) : said[i] > par.turn
        BY <1>6, <1>7
      <3>2. InOrder(Tail(pq), par.turn, said, c + 1)
        BY <1>1, <1>2, <1>6, <1>7, <3>1, OrderRest
      <3> QED BY <1>1, <2>4, <3>2
    <2> QED BY <1>8, <2>6, <2>8, <2>9
  <1>10. ASSUME ~(n.m = "state" /\ n.id = par.turn),
                ~(n.m = "entry" /\ n.id > par.turn /\ \A i \in 1..c : t[i] # n.id)
         PROVE  AnswerInv'
    <2>1. DOMAIN pr.text = 1..c
      BY <1>5, <1>6
    <2>2. pr' = pr
      BY <1>1, <1>4, <1>5, <1>10, <2>1 DEF Follow!Fold
    <2>3. ~(n.m = "entry" /\ c < Len(said) /\ n.id = said[c + 1])
      <3> SUFFICES ASSUME n.m = "entry", c < Len(said), n.id = said[c + 1] PROVE FALSE
        OBVIOUS
      <3>1. c + 1 \in 1..Len(said)
        BY <1>6
      <3>2. n.id > par.turn
        BY <1>7, <3>1
      <3>3. PICK i \in 1..c : t[i] = n.id
        BY <1>10, <3>2
      <3>4. i \in 1..Len(said) /\ said[i] = n.id /\ i # c + 1
        BY <1>5, <1>6, <3>3 DEF Prefix
      <3> QED BY <1>7, <3>1, <3>4
    <2>4. InOrder(Tail(pq), par.turn, said, c)
      <3>1. \A i \in 1..Len(said) : said[i] > par.turn
        BY <1>7
      <3> QED BY <1>1, <1>2, <1>4, <1>6, <1>7, <2>3, <3>1, OrderRest
    <2> QED BY <1>1, <1>2, <1>5, <1>6, <1>8, <2>2, <2>4
  <1>11. ASSUME n.m = "state", n.id = par.turn PROVE AnswerInv'
    <2>1. par.st \in Follow!Rests /\ n.what = par.st /\ (~call.orphan => Len(pq) = 1)
      BY <1>1, <1>4, <1>11, EndTold
    <2>2. PICK w : w = IF n.what = "completed" THEN "end_turn"
                       ELSE IF n.what = "idle" THEN "interrupted" ELSE pr.stop
      OBVIOUS
    <2>3. pr' = [pr EXCEPT !.state = n.what, !.st = "finish", !.stop = w]
      BY <1>1, <1>2, <1>4, <1>11, <2>2 DEF Follow!Fold, PrintIs
    <2>4. n.what \in Whats /\ n.what # "none" /\ w \in Whats \cup {"none"}
      BY <1>2, <2>1, <2>2 DEF Whats, Follow!Rests, PrintIs
    <2>5. /\ pr' \in PrintIs /\ pr'.st = "finish" /\ pr'.state = par.st /\ pr'.text = t
          /\ pr'.stop = w
      BY <1>2, <1>5, <2>1, <2>3, <2>4 DEF PrintIs
    <2>6. AnswerShape'
      BY <1>1, <1>3, <2>5 DEF AnswerInv, AnswerShape
    <2>7. EndsHeard(par, kid, call.orphan, pr', pq')
      BY <1>2, <1>3, <2>1, <2>4, <2>5 DEF EndsHeard
    <2>8. KernelHeard(kind, par, call.orphan, pr', pq') /\ RuntimeHeard(kind, par, pr', pq')
      BY <2>5 DEF KernelHeard, RuntimeHeard
    <2>9. ASSUME ~call.orphan, par.st = "completed" PROVE t = said /\ w = "end_turn"
      <3>1. Len(pq) = 1 /\ pq[1].m # "entry"
        BY <1>1, <1>2, <1>4, <1>11, <2>1, <2>9, Rest
      <3>2. t = said
        BY <1>5, <1>6, <3>1, AllTaken
      <3> QED BY <2>1, <2>2, <2>9, <3>2
    <2>10. Reports(kind, par, call.orphan, pr')
      BY <1>5, <2>1, <2>5, <2>9 DEF Reports
    <2> QED BY <1>1, <1>3, <2>6, <2>7, <2>8, <2>10, PrintMoves
  <1> QED BY <1>9, <1>10, <1>11

-----------------------------------------------------------------------------

LEMMA AnswerStep ==
    ASSUME AnswerInv, prompt \in Prompts, [Follow!Next]_(Follow!vars)
    PROVE  (AnswerInv /\ prompt \in Prompts)'
  <1>1. ASSUME Follow!Turn PROVE AnswerInv' /\ prompt' = prompt
    <2>1. prompt' = prompt
      BY <1>1 DEF Follow!Turn, Follow!Message, Follow!Interrupt, Follow!Again, Follow!Answered,
         Follow!Cut, Follow!Steer, Follow!Fails, Follow!Rested, Follow!Up
    <2>2. \/ \E what \in Follow!Stops \cup {"tool_use"} : Follow!Message(what)
          \/ \E how \in {"steer", "cancel"} : Follow!Interrupt(how)
          \/ Follow!Again \/ Follow!Answered \/ Follow!Cut \/ Follow!Steer \/ Follow!Fails
          \/ Follow!Rested
      BY <1>1 DEF Follow!Turn
    <2>3. AnswerInv'
      BY <2>2, AnswerMessage, AnswerInterrupt, AnswerAgain, AnswerAnswered, AnswerCut, AnswerSteer,
         AnswerFails, AnswerRested
    <2> QED BY <2>1, <2>3
  <1>2. ASSUME Follow!Child PROVE AnswerInv' /\ prompt' = prompt
    <2>1. prompt' = prompt
      BY <1>2 DEF Follow!Child, Follow!KidMessage, Follow!KidEnds, Follow!Up
    <2>2. Follow!KidMessage \/ \E rest \in Follow!Rests : Follow!KidEnds(rest)
      BY <1>2 DEF Follow!Child
    <2>3. AnswerInv'
      BY <2>2, AnswerKidMessage, AnswerKidEnds
    <2> QED BY <2>1, <2>3
  <1>3. ASSUME Follow!Agent PROVE AnswerInv' /\ prompt' = prompt
    <2>1. prompt' = prompt
      BY <1>3 DEF Follow!Agent, Follow!Opens, Follow!OpenFails, Follow!Submits, Follow!SubmitFails,
         Follow!Observe, Follow!Cancelled, Follow!GraceEnds, Follow!CallLost, Follow!Closes,
         Follow!Calling
    <2>2. \/ Follow!OpenFails \/ Follow!SubmitFails \/ Follow!GraceEnds \/ Follow!CallLost
          \/ Follow!Opens \/ Follow!Submits \/ Follow!Observe \/ Follow!Cancelled \/ Follow!Closes
      BY <1>3 DEF Follow!Agent
    <2>3. AnswerInv'
      BY <2>2, AnswerGivesUp, AnswerOpens, AnswerSubmits, AnswerObserve, AnswerCancelled,
         AnswerCloses
    <2> QED BY <2>1, <2>3
  <1>4. ASSUME Follow!Printer PROVE AnswerInv' /\ prompt' = prompt
    <2>1. prompt' = prompt
      BY <1>4 DEF Follow!Printer, Follow!OpenOrResume, Follow!OpenRefused, Follow!Submit,
         Follow!SubmitRefused, Follow!Take, Follow!Finish, Follow!Signal, Follow!PrintLost,
         Follow!LoginTold, Follow!LoginEnds, Follow!Printing, Follow!Up
    <2>2. \/ Follow!OpenRefused \/ Follow!SubmitRefused \/ Follow!PrintLost
          \/ Follow!OpenOrResume \/ Follow!Submit \/ Follow!Take \/ Follow!Finish \/ Follow!Signal
          \/ Follow!LoginTold \/ \E mine, ok \in BOOLEAN : Follow!LoginEnds(mine, ok)
      BY <1>4 DEF Follow!Printer
    <2>3. kind \in {"kernel", "runtime"}
      BY DEF AnswerInv, AnswerShape
    <2>4. AnswerInv'
      BY <2>2, <2>3, AnswerRefused, AnswerOpenOrResume, AnswerSubmit, AnswerTakeKernel,
         AnswerTakeRuntime, AnswerFinish, AnswerSignal, AnswerLoginTold, AnswerLoginEnds
    <2> QED BY <2>1, <2>4
  <1>5. ASSUME Follow!ServerCloses \/ UNCHANGED Follow!vars PROVE AnswerInv' /\ prompt' = prompt
    <2>1. /\ kind' = kind /\ par' = par /\ kid' = kid /\ call' = call /\ pr' = pr /\ pq' = pq
          /\ aq' = aq /\ next' = next /\ prompt' = prompt
      BY <1>5 DEF Follow!ServerCloses, Follow!vars, Follow!turns
    <2>2. AnswerShape'
      BY <2>1 DEF AnswerInv, AnswerShape
    <2> QED BY <2>1, <2>2 DEF AnswerInv
  <1> QED BY <1>1, <1>2, <1>3, <1>4, <1>5 DEF Follow!Next

\* Exit code 0 and an answer, or a result of the agent tool, are those of the turn that was
\* submitted and completed, whatever is replayed, published again, forwarded or cut meanwhile.
THEOREM ReportsTheTurn == Follow!Spec => []ReportsItsTurn
  <1>1. Follow!Init => AnswerInv /\ prompt \in Prompts
    BY AnswerInit DEF Follow!Init, Prompts
  <1>2. AnswerInv /\ prompt \in Prompts /\ [Follow!Next]_(Follow!vars)
          => (AnswerInv /\ prompt \in Prompts)'
    BY AnswerStep
  <1>3. AnswerInv => ReportsItsTurn
    BY AnswerGives
  <1> QED BY <1>1, <1>2, <1>3, PTL DEF Follow!Spec
==============================================================================
