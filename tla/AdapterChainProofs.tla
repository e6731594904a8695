------------------------- MODULE AdapterChainProofs -------------------------
(* Theorems about AdapterChain, for any number of requests.                *)
EXTENDS AdapterChain, TLAPS

LEMMA InitTyped == Init => TypeOK
BY ClientsAssumption DEF Init, TypeOK, Connection

LEMMA InitStages == Init => StagesInOrder
BY DEF Init, StagesInOrder

LEMMA InitAnswers == Init => AnswersInOrder
<1> SUFFICES ASSUME Init, NEW r \in Requests
             PROVE  /\ handler[r] = "idle"
                    /\ reply[r] = "none" /\ out[r] = "none" /\ user[r] = "away"
  BY DEF AnswersInOrder, Outcomes
<1>1. QED
  BY DEF Init

(* An answer that is flushed was set before, by AnswersInOrder.            *)
LEMMA StepTyped == TypeOK /\ AnswersInOrder /\ [Next]_vars => TypeOK'
<1> SUFFICES ASSUME TypeOK, AnswersInOrder, [Next]_vars PROVE TypeOK'
  OBVIOUS
<1> USE DEF TypeOK, Connection, Outcomes, Accepted, router, below, health
<1>1. ASSUME NEW r \in Requests, Submit(r) PROVE TypeOK'
  BY <1>1 DEF Submit
<1>2. ASSUME NEW r \in Requests, HangUp(r) PROVE TypeOK'
  BY <1>2 DEF HangUp
<1>3. ASSUME NEW r \in Requests, Select(r) PROVE TypeOK'
  BY <1>3 DEF Select, Handler
<1>4. ASSUME NEW r \in Requests, Send(r) PROVE TypeOK'
  BY <1>4 DEF Send, Handler
<1>5. ASSUME NEW r \in Requests, Receive(r) PROVE TypeOK'
  BY <1>5 DEF Receive, Handler
<1>6. ASSUME NEW r \in Requests, RouterTimeout(r) PROVE TypeOK'
  BY <1>6 DEF RouterTimeout, Handler
<1>7. ASSUME NEW r \in Requests, NoticeHangUp(r) PROVE TypeOK'
  BY <1>7 DEF NoticeHangUp, Handler
<1>8. ASSUME NEW r \in Requests, Lose(r) PROVE TypeOK'
  BY <1>8 DEF Lose
<1>9. ASSUME NEW r \in Requests, NoticeLoss(r) PROVE TypeOK'
  BY <1>9 DEF NoticeLoss, Handler
<1>10. ASSUME NEW r \in Requests, Fail(r) PROVE TypeOK'
  BY <1>10 DEF Fail, Handler
<1>11. ASSUME NEW r \in Requests, Release(r) PROVE TypeOK'
  BY <1>11 DEF Release, Handler
<1>12. ASSUME NEW r \in Requests, Flush(r) PROVE TypeOK'
  <2>1. out[r] \in {"refused", "error"} \cup Outcomes
    BY <1>12 DEF Flush, Handler, AnswersInOrder
  <2>2. user' \in [Requests -> {"away", "waiting", "gone", "cut", "refused", "error"}
                               \cup Outcomes]
    BY <1>12, <2>1 DEF Flush
  <2>3. QED
    BY <1>12, <2>2 DEF Flush, Handler
<1>13. ASSUME NEW r \in Requests, Call(r) PROVE TypeOK'
  BY <1>13 DEF Call, Respond
<1>14. ASSUME NEW r \in Requests, Generate(r) PROVE TypeOK'
  BY <1>14 DEF Generate, Respond
<1>15. ASSUME NEW r \in Requests, AdapterTimeout(r) PROVE TypeOK'
  BY <1>15 DEF AdapterTimeout, Respond
<1>16. ASSUME NEW r \in Requests, ContextDone(r) PROVE TypeOK'
  BY <1>16 DEF ContextDone, Respond
<1>17. ASSUME NEW r \in Requests, NEW outcome \in Outcomes, Work(r, outcome) PROVE TypeOK'
  BY <1>17 DEF Work
<1>18. CASE AdapterCrash
  BY <1>18 DEF AdapterCrash
<1>19. ASSUME NEW value \in BOOLEAN, Probe(value) PROVE TypeOK'
  BY <1>19 DEF Probe
<1>20. CASE CloseListener
  BY <1>20 DEF CloseListener
<1>21. CASE Exit
  BY <1>21 DEF Exit
<1>22. CASE UNCHANGED vars
  BY <1>22 DEF vars
<1>23. QED
  BY <1>1, <1>2, <1>3, <1>4, <1>5, <1>6, <1>7, <1>8, <1>9, <1>10, <1>11,
     <1>12, <1>13, <1>14, <1>15, <1>16, <1>17, <1>18, <1>19, <1>20, <1>21, <1>22
     DEF Next, Handle, Adapt

(* Each step that gives the charge back finds the connection closed.       *)
LEMMA StepStages == TypeOK /\ StagesInOrder /\ [Next]_vars => StagesInOrder'
<1> SUFFICES ASSUME TypeOK, StagesInOrder, [Next]_vars PROVE StagesInOrder'
  OBVIOUS
<1> USE DEF TypeOK, StagesInOrder, Connection, router, below, health
<1>1. ASSUME NEW r \in Requests, Submit(r) PROVE StagesInOrder'
  BY <1>1 DEF Submit
<1>2. ASSUME NEW r \in Requests, HangUp(r) PROVE StagesInOrder'
  BY <1>2 DEF HangUp
<1>3. ASSUME NEW r \in Requests, Select(r) PROVE StagesInOrder'
  BY <1>3 DEF Select, Handler
<1>4. ASSUME NEW r \in Requests, Send(r) PROVE StagesInOrder'
  BY <1>4 DEF Send, Handler
<1>5. ASSUME NEW r \in Requests, Receive(r) PROVE StagesInOrder'
  BY <1>5 DEF Receive, Handler
<1>6. ASSUME NEW r \in Requests, RouterTimeout(r) PROVE StagesInOrder'
  BY <1>6 DEF RouterTimeout, Handler
<1>7. ASSUME NEW r \in Requests, NoticeHangUp(r) PROVE StagesInOrder'
  BY <1>7 DEF NoticeHangUp, Handler
<1>8. ASSUME NEW r \in Requests, Lose(r) PROVE StagesInOrder'
  BY <1>8 DEF Lose
<1>9. ASSUME NEW r \in Requests, NoticeLoss(r) PROVE StagesInOrder'
  BY <1>9 DEF NoticeLoss, Handler
<1>10. ASSUME NEW r \in Requests, Fail(r) PROVE StagesInOrder'
  BY <1>10 DEF Fail, Handler
<1>11. ASSUME NEW r \in Requests, Release(r) PROVE StagesInOrder'
  BY <1>11 DEF Release, Handler
<1>12. ASSUME NEW r \in Requests, Flush(r) PROVE StagesInOrder'
  <2>1. \A q \in Requests : user'[q] = "away" => user[q] = "away"
    BY <1>12 DEF Flush, Accepted
  <2>2. QED
    BY <1>12, <2>1 DEF Flush, Handler
<1>13. ASSUME NEW r \in Requests, Call(r) PROVE StagesInOrder'
  BY <1>13 DEF Call, Respond
<1>14. ASSUME NEW r \in Requests, Generate(r) PROVE StagesInOrder'
  BY <1>14 DEF Generate, Respond
<1>15. ASSUME NEW r \in Requests, AdapterTimeout(r) PROVE StagesInOrder'
  BY <1>15 DEF AdapterTimeout, Respond
<1>16. ASSUME NEW r \in Requests, ContextDone(r) PROVE StagesInOrder'
  BY <1>16 DEF ContextDone, Respond
<1>17. ASSUME NEW r \in Requests, NEW outcome \in Outcomes, Work(r, outcome) PROVE StagesInOrder'
  BY <1>17 DEF Work
<1>18. CASE AdapterCrash
  BY <1>18 DEF AdapterCrash
<1>19. ASSUME NEW value \in BOOLEAN, Probe(value) PROVE StagesInOrder'
  BY <1>19 DEF Probe
<1>20. CASE CloseListener
  BY <1>20 DEF CloseListener
<1>21. CASE Exit
  BY <1>21 DEF Exit
<1>22. CASE UNCHANGED vars
  BY <1>22 DEF vars
<1>23. QED
  BY <1>1, <1>2, <1>3, <1>4, <1>5, <1>6, <1>7, <1>8, <1>9, <1>10, <1>11,
     <1>12, <1>13, <1>14, <1>15, <1>16, <1>17, <1>18, <1>19, <1>20, <1>21, <1>22
     DEF Next, Handle, Adapt

(* A request is sent only when the adapter has not begun on it.            *)
LEMMA StepAnswers ==
  TypeOK /\ StagesInOrder /\ AnswersInOrder /\ [Next]_vars => AnswersInOrder'
<1> SUFFICES ASSUME TypeOK, StagesInOrder, AnswersInOrder, [Next]_vars PROVE AnswersInOrder'
  OBVIOUS
<1> USE DEF TypeOK, AnswersInOrder, Outcomes, Accepted, router, below, health
<1>1. ASSUME NEW r \in Requests, Submit(r) PROVE AnswersInOrder'
  BY <1>1 DEF Submit
<1>2. ASSUME NEW r \in Requests, HangUp(r) PROVE AnswersInOrder'
  BY <1>2 DEF HangUp
<1>3. ASSUME NEW r \in Requests, Select(r) PROVE AnswersInOrder'
  BY <1>3 DEF Select, Handler
<1>4. ASSUME NEW r \in Requests, Send(r) PROVE AnswersInOrder'
  BY <1>4 DEF Send, Handler, StagesInOrder
<1>5. ASSUME NEW r \in Requests, Receive(r) PROVE AnswersInOrder'
  BY <1>5 DEF Receive, Handler
<1>6. ASSUME NEW r \in Requests, RouterTimeout(r) PROVE AnswersInOrder'
  BY <1>6 DEF RouterTimeout, Handler
<1>7. ASSUME NEW r \in Requests, NoticeHangUp(r) PROVE AnswersInOrder'
  BY <1>7 DEF NoticeHangUp, Handler
<1>8. ASSUME NEW r \in Requests, Lose(r) PROVE AnswersInOrder'
  BY <1>8 DEF Lose
<1>9. ASSUME NEW r \in Requests, NoticeLoss(r) PROVE AnswersInOrder'
  BY <1>9 DEF NoticeLoss, Handler
<1>10. ASSUME NEW r \in Requests, Fail(r) PROVE AnswersInOrder'
  BY <1>10 DEF Fail, Handler
<1>11. ASSUME NEW r \in Requests, Release(r) PROVE AnswersInOrder'
  BY <1>11 DEF Release, Handler
<1>12. ASSUME NEW r \in Requests, Flush(r) PROVE AnswersInOrder'
  BY <1>12 DEF Flush, Handler
<1>13. ASSUME NEW r \in Requests, Call(r) PROVE AnswersInOrder'
  BY <1>13 DEF Call, Respond
<1>14. ASSUME NEW r \in Requests, Generate(r) PROVE AnswersInOrder'
  BY <1>14 DEF Generate, Respond
<1>15. ASSUME NEW r \in Requests, AdapterTimeout(r) PROVE AnswersInOrder'
  BY <1>15 DEF AdapterTimeout, Respond
<1>16. ASSUME NEW r \in Requests, ContextDone(r) PROVE AnswersInOrder'
  BY <1>16 DEF ContextDone, Respond
<1>17. ASSUME NEW r \in Requests, NEW outcome \in Outcomes, Work(r, outcome) PROVE AnswersInOrder'
  BY <1>17 DEF Work
<1>18. CASE AdapterCrash
  BY <1>18 DEF AdapterCrash
<1>19. ASSUME NEW value \in BOOLEAN, Probe(value) PROVE AnswersInOrder'
  BY <1>19 DEF Probe
<1>20. CASE CloseListener
  BY <1>20 DEF CloseListener
<1>21. CASE Exit
  BY <1>21 DEF Exit
<1>22. CASE UNCHANGED vars
  BY <1>22 DEF vars
<1>23. QED
  BY <1>1, <1>2, <1>3, <1>4, <1>5, <1>6, <1>7, <1>8, <1>9, <1>10, <1>11,
     <1>12, <1>13, <1>14, <1>15, <1>16, <1>17, <1>18, <1>19, <1>20, <1>21, <1>22
     DEF Next, Handle, Adapt

-----------------------------------------------------------------------------
LEMMA Inductive ==
  /\ Init => TypeOK /\ StagesInOrder /\ AnswersInOrder
  /\ TypeOK /\ StagesInOrder /\ AnswersInOrder /\ [Next]_vars
       => TypeOK' /\ StagesInOrder' /\ AnswersInOrder'
BY InitTyped, InitStages, InitAnswers, StepTyped, StepStages, StepAnswers

(***************************************************************************)
(* The variables of the four programs keep their types in every run: in    *)
(* particular a handler that writes an answer has one, and it is one that  *)
(* the adapter's client accepts.                                           *)
(***************************************************************************)
THEOREM ChainTypeCorrect == Spec => []TypeOK
BY Inductive, PTL DEF Spec

(***************************************************************************)
(* For any number of requests: as long as the connection above stands, the *)
(* work that a model server does for a request is charged to its backend,  *)
(* however hang-ups, timeouts, losses, crashes and the exit interleave.    *)
(***************************************************************************)
THEOREM WorkIsCharged == Spec => []ChargeCoversWork
<1>1. TypeOK /\ StagesInOrder => ChargeCoversWork
  BY DEF TypeOK, Connection, StagesInOrder, ChargeCoversWork
<1>2. QED
  BY <1>1, Inductive, PTL DEF Spec

(***************************************************************************)
(* For any number of requests: a user who is told 200 gets what the model  *)
(* server sent for this request once its work was over, and that was no    *)
(* error and no blank text; with the llm client it was a text.  With the   *)
(* Triton client it may be a b64 value, of which only "" is refused.       *)
(***************************************************************************)
THEOREM SuccessesAreEarned == Spec => []SuccessIsEarned
<1>1. AnswersInOrder => SuccessIsEarned
  BY DEF AnswersInOrder, Accepted, SuccessIsEarned
<1>2. QED
  BY <1>1, Inductive, PTL DEF Spec
=============================================================================
