----------------------------- MODULE MemoProofs -----------------------------
(***************************************************************************)
(* Memo for any number of calls, batches and keys: the inductive invariant *)
(* behind OneFetch and CancelledIsOwn, and the proof that every step of    *)
(* Memo is a step of OneAnswer or changes nothing it sees.                 *)
(***************************************************************************)
EXTENDS Memo, TLAPS

(* Who made the entry of a key: a call about that key that is fetching, has *)
(* completed it or panicked, or a batch that has an answer for the key.     *)
EntryInv ==
  \A k \in Keys :
    /\ \A c \in Calls : entries[k] = c =>
         /\ KeyOf[c] = k
         /\ c \notin abandoned
         /\ c \in ready \/ pc[c] = "fetching" \/ result[c] = "panicked"
    /\ \A b \in Batches : entries[k] = b => batch[b][k] \in Answers

(* A fetching call owns the entry of its key; one that drops or has dropped *)
(* it does not.                                                             *)
CallInv ==
  \A c \in Calls :
    /\ pc[c] = "fetching" => entries[KeyOf[c]] = c /\ c \notin ready
    /\ pc[c] = "dropping" => CtxDone(c) /\ c \notin ready
    /\ c \in abandoned => c \in ready
    /\ c \in ready => pc[c] = "done" /\ result[c] # "panicked"
    /\ c \in ready /\ c \notin abandoned => entries[KeyOf[c]] = c /\ value[c] \in Answers
    /\ pc[c] = "done" <=> result[c] # "pending"

(* What a waiter waits on is the entry of its key, or one that is or will   *)
(* be marked abandoned.                                                     *)
WaitInv ==
  \A c \in Calls : pc[c] = "waiting" =>
    /\ waitsOn[c] # Nobody
    /\ waitsOn[c] \in Batches => entries[KeyOf[c]] = waitsOn[c]
    /\ \A d \in Calls : waitsOn[c] = d =>
         entries[KeyOf[c]] = d \/ d \in abandoned \/ pc[d] = "dropping"

(* A call that returned an answer returned the one its key is settled with. *)
ResultInv ==
  \A c \in Calls :
    /\ result[c] = "cancelled" => CtxDone(c)
    /\ result[c] \notin GaveUp \union {"pending"} =>
         /\ Settled(KeyOf[c])
         /\ result[c] = AnswerOf(entries[KeyOf[c]], KeyOf[c])

(* What a batch has still to store are answers.                             *)
BatchInv ==
  \A b \in Batches, k \in Keys : k \notin stored[b] => batch[b][k] \in Answers

IInv == TypeOK /\ EntryInv /\ CallInv /\ WaitInv /\ ResultInv /\ BatchInv

LEMMA InitIInv == Init => IInv
<1> SUFFICES ASSUME Init PROVE IInv
  OBVIOUS
<1> USE CallsAssumption, NamesAssumption DEF Init
<1>1. TypeOK
  BY DEF TypeOK, Places, NoAnswers
<1>2. EntryInv
  BY DEF EntryInv
<1>3. CallInv
  BY DEF CallInv
<1>4. WaitInv
  BY DEF WaitInv
<1>5. ResultInv
  BY DEF ResultInv, GaveUp
<1>6. BatchInv
  BY DEF BatchInv
<1> QED
  BY <1>1, <1>2, <1>3, <1>4, <1>5, <1>6 DEF IInv

LEMMA StepIInv == IInv /\ [Next]_vars => IInv'
<1> SUFFICES ASSUME IInv, [Next]_vars PROVE IInv'
  OBVIOUS
<1> USE CallsAssumption, NamesAssumption
    DEF IInv, TypeOK, EntryInv, CallInv, WaitInv, ResultInv, BatchInv, GaveUp, Places,
        NoAnswers, CtxDone, Settled, IsReady, AnswerOf, Return,
        memoVars, callVars, batchVars, ctxVars
<1>1. ASSUME NEW c \in Calls, Begin(c) PROVE IInv'
  <2>1. TypeOK'
    BY <1>1 DEF Begin
  <2>2. EntryInv'
    BY <1>1 DEF Begin
  <2>3. CallInv'
    BY <1>1 DEF Begin
  <2>4. WaitInv'
    BY <1>1 DEF Begin
  <2>5. ResultInv'
    BY <1>1 DEF Begin
  <2>6. BatchInv'
    BY <1>1 DEF Begin
  <2> QED
    BY <2>1, <2>2, <2>3, <2>4, <2>5, <2>6
<1>2. ASSUME NEW c \in Calls, Look(c) PROVE IInv'
  <2>1. TypeOK'
    <3> HIDE DEF EntryInv, CallInv, WaitInv, ResultInv, BatchInv
    <3>1. KeyOf[c] \in Keys
      OBVIOUS
    <3>2. CASE entries[KeyOf[c]] = Nobody
      <4>1. /\ entries' = [entries EXCEPT ![KeyOf[c]] = c]
            /\ pc' = [pc EXCEPT ![c] = "fetching"]
            /\ waitsOn' = waitsOn
        BY <1>2, <3>2 DEF Look
      <4> QED
        BY <1>2, <3>1, <4>1 DEF Look
    <3>3. CASE entries[KeyOf[c]] # Nobody
      BY <1>2, <3>1, <3>3 DEF Look
    <3> QED
      BY <3>2, <3>3
  <2>2. EntryInv'
    BY <1>2 DEF Look
  <2>3. CallInv'
    BY <1>2 DEF Look
  <2>4. WaitInv'
    BY <1>2 DEF Look
  <2>5. ResultInv'
    BY <1>2 DEF Look
  <2>6. BatchInv'
    BY <1>2 DEF Look
  <2> QED
    BY <2>1, <2>2, <2>3, <2>4, <2>5, <2>6
<1>3. ASSUME NEW c \in Calls, WaiterWakes(c) PROVE IInv'
  <2> DEFINE r == AnswerOf(waitsOn[c], KeyOf[c])
  <2>0. r \in Answers \union {"zero"}
    BY <1>3 DEF WaiterWakes
  <2>1. TypeOK'
    <3>1. CASE waitsOn[c] \in abandoned
      BY <1>3, <3>1 DEF WaiterWakes
    <3>2. CASE waitsOn[c] \notin abandoned
      <4>1. result' = [result EXCEPT ![c] = r] /\ pc' = [pc EXCEPT ![c] = "done"]
        BY <1>3, <3>2 DEF WaiterWakes
      <4> HIDE DEF r
      <4> QED
        BY <1>3, <2>0, <4>1 DEF WaiterWakes
    <3> QED
      BY <3>1, <3>2
  <2>2. EntryInv'
    BY <1>3 DEF WaiterWakes
  <2>3. CallInv'
    BY <1>3 DEF WaiterWakes
  <2>4. WaitInv'
    BY <1>3 DEF WaiterWakes
  <2>5. ResultInv'
    BY <1>3 DEF WaiterWakes
  <2>6. BatchInv'
    BY <1>3 DEF WaiterWakes
  <2> QED
    BY <2>1, <2>2, <2>3, <2>4, <2>5, <2>6
<1>4. ASSUME NEW c \in Calls, WaiterLeaves(c) PROVE IInv'
  BY <1>4 DEF WaiterLeaves
<1>5. ASSUME NEW c \in Calls, NEW a \in Answers, Complete(c, a) PROVE IInv'
  BY <1>5 DEF Complete, Answers
<1>6. ASSUME NEW c \in Calls, Drop(c) PROVE IInv'
  BY <1>6 DEF Drop
<1>7. ASSUME NEW c \in Calls, Abandon(c) PROVE IInv'
  BY <1>7 DEF Abandon
<1>8. ASSUME NEW c \in Calls, FetchPanics(c) PROVE IInv'
  BY <1>8 DEF FetchPanics
<1>9. ASSUME NEW b \in Batches, BatchEnds(b) PROVE IInv'
  BY <1>9 DEF BatchEnds, BatchReplies
<1>10. ASSUME NEW b \in Batches, NEW k \in Keys, Store(b, k) PROVE IInv'
  BY <1>10 DEF Store
<1>11. CASE RunEnds
  BY <1>11 DEF RunEnds
<1>12. ASSUME NEW c \in Calls, TimeoutPasses(c) PROVE IInv'
  BY <1>12 DEF TimeoutPasses
<1>13. CASE UNCHANGED vars
  BY <1>13 DEF vars
<1> QED
  BY <1>1, <1>2, <1>3, <1>4, <1>5, <1>6, <1>7, <1>8, <1>9, <1>10, <1>11, <1>12, <1>13
  DEF Next, Step

LEMMA SpecIInv == Spec => []IInv
  BY InitIInv, StepIInv, PTL DEF Spec

(* Every variable keeps its type, for any number of calls, batches and keys. *)
THEOREM MemoTypeOK == Spec => []TypeOK
  BY SpecIInv, PTL DEF IInv

(* One fetch per key: two calls never fetch the same key at once, and a key  *)
(* that has an answer is not fetched again (loader.go's memo.do).            *)
THEOREM MemoOneFetch == Spec => []OneFetch
<1>1. IInv => OneFetch
  BY CallsAssumption, NamesAssumption
  DEF IInv, TypeOK, EntryInv, CallInv, OneFetch, Settled, IsReady
<1> QED
  BY <1>1, SpecIInv, PTL

(* A call that reports a cancellation had its own context ended.             *)
THEOREM MemoCancelledIsOwn == Spec => []CancelledIsOwn
<1>1. IInv => CancelledIsOwn
  BY DEF IInv, ResultInv, CancelledIsOwn
<1> QED
  BY <1>1, SpecIInv, PTL

-----------------------------------------------------------------------------
(* The refinement.  Every step of Memo leaves the settled answers alone,     *)
(* except the completion of a fetch and the store of a batch's answer.       *)

LEMMA InitRefines == Init => Promise!Init
  BY CallsAssumption, NamesAssumption
  DEF Init, Promise!Init, SettledAnswer, Settled, CtxDone

\* The settled answers and the ended contexts depend on nothing else.
LEMMA SameView ==
  ASSUME UNCHANGED <<entries, ready, value, batch>>
  PROVE  SettledAnswer' = SettledAnswer
  BY DEF SettledAnswer, Settled, IsReady, AnswerOf

LEMMA SameEnded ==
  ASSUME UNCHANGED ctxVars
  PROVE  {c \in Calls : CtxDone(c)}' = {c \in Calls : CtxDone(c)}
  BY DEF CtxDone, ctxVars

\* An entry in the map that is ready holds an answer.
LEMMA SettledIsAnswer ==
  ASSUME IInv, NEW k \in Keys, Settled(k)
  PROVE  /\ AnswerOf(entries[k], k) \in Answers
         /\ SettledAnswer[k] = AnswerOf(entries[k], k)
         /\ SettledAnswer[k] # "unknown"
  BY CallsAssumption, NamesAssumption
  DEF IInv, TypeOK, EntryInv, CallInv, Settled, IsReady, AnswerOf, SettledAnswer

LEMMA StepRefines == IInv /\ IInv' /\ [Next]_vars => [Promise!Next]_(Promise!vars)
<1> SUFFICES ASSUME IInv, IInv', [Next]_vars PROVE [Promise!Next]_(Promise!vars)
  OBVIOUS
<1> USE CallsAssumption, NamesAssumption DEF IInv
<1> DEFINE ended == {c \in Calls : CtxDone(c)}
<1>1. ASSUME NEW c \in Calls, Begin(c) PROVE [Promise!Next]_(Promise!vars)
  <2>1. SettledAnswer' = SettledAnswer /\ ended' = ended
    BY <1>1, SameView, SameEnded DEF Begin, memoVars, batchVars
  <2>2. CASE KeyOf[c] \in Unsupported
    <3>1. Promise!GiveUp(c, "refused")
      BY <1>1, <2>1, <2>2 DEF Begin, Return, Promise!GiveUp, CallInv
    <3> QED
      BY <3>1 DEF Promise!Next, Promise!GaveUp
  <2>3. CASE KeyOf[c] \notin Unsupported
    BY <1>1, <2>1, <2>3 DEF Begin, Promise!vars
  <2> QED
    BY <2>2, <2>3
<1>2. ASSUME NEW c \in Calls, Look(c) PROVE [Promise!Next]_(Promise!vars)
  <2>1. ended' = ended
    BY <1>2, SameEnded DEF Look
  <2>2. result' = result
    BY <1>2 DEF Look
  <2>3. SettledAnswer' = SettledAnswer
    BY <1>2 DEF Look, SettledAnswer, Settled, IsReady, AnswerOf, batchVars, TypeOK, CallInv
  <2> QED
    BY <2>1, <2>2, <2>3 DEF Promise!vars
<1>3. ASSUME NEW c \in Calls, WaiterWakes(c) PROVE [Promise!Next]_(Promise!vars)
  <2>1. SettledAnswer' = SettledAnswer /\ ended' = ended
    BY <1>3, SameView, SameEnded DEF WaiterWakes, memoVars, batchVars
  <2>2. CASE waitsOn[c] \in abandoned
    BY <1>3, <2>1, <2>2 DEF WaiterWakes, Promise!vars
  <2>3. CASE waitsOn[c] \notin abandoned
    <3>1. KeyOf[c] \in Keys /\ entries[KeyOf[c]] = waitsOn[c] /\ Settled(KeyOf[c])
      BY <1>3, <2>3 DEF WaiterWakes, IsReady, Settled, TypeOK, WaitInv, CallInv
    <3>2. /\ SettledAnswer[KeyOf[c]] # "unknown"
          /\ SettledAnswer[KeyOf[c]] = AnswerOf(waitsOn[c], KeyOf[c])
      BY <3>1, SettledIsAnswer
    <3>3. Promise!Reply(c)
      BY <1>3, <2>1, <2>3, <3>2 DEF WaiterWakes, Return, Promise!Reply, CallInv
    <3> QED
      BY <3>3 DEF Promise!Next
  <2> QED
    BY <2>2, <2>3
<1>4. ASSUME NEW c \in Calls, WaiterLeaves(c) PROVE [Promise!Next]_(Promise!vars)
  <2>1. SettledAnswer' = SettledAnswer /\ ended' = ended
    BY <1>4, SameView, SameEnded DEF WaiterLeaves, memoVars, batchVars
  <2>2. Promise!GiveUp(c, "cancelled")
    BY <1>4, <2>1 DEF WaiterLeaves, Return, Promise!GiveUp, CallInv
  <2> QED
    BY <2>2 DEF Promise!Next, Promise!GaveUp
<1>5. ASSUME NEW c \in Calls, NEW a \in Answers, Complete(c, a)
      PROVE  [Promise!Next]_(Promise!vars)
  <2>1. ended' = ended
    BY <1>5, SameEnded DEF Complete
  <2>2. KeyOf[c] \in Keys /\ entries[KeyOf[c]] = c /\ ~Settled(KeyOf[c])
    BY <1>5 DEF Complete, Settled, IsReady, CallInv
  <2>3. SettledAnswer' = [SettledAnswer EXCEPT ![KeyOf[c]] = a]
    <3>1. entries' = entries /\ batch' = batch /\ ready' = ready \union {c}
      BY <1>5 DEF Complete, batchVars
    <3>2. value' = [value EXCEPT ![c] = a] /\ value'[c] = a
      BY <1>5 DEF Complete, TypeOK
    <3>3. ASSUME NEW k \in Keys, k # KeyOf[c]
          PROVE  Settled(k)' = Settled(k) /\ AnswerOf(entries[k], k)' = AnswerOf(entries[k], k)
      <4>1. entries[k] # c
        BY <3>3 DEF EntryInv
      <4> QED
        BY <4>1, <3>1, <3>2 DEF Settled, IsReady, AnswerOf, TypeOK
    <3>4. Settled(KeyOf[c])' /\ AnswerOf(entries[KeyOf[c]], KeyOf[c])' = a
      BY <2>2, <3>1, <3>2 DEF Settled, IsReady, AnswerOf
    <3> QED
      BY <2>2, <3>3, <3>4 DEF SettledAnswer
  <2>4. SettledAnswer[KeyOf[c]] = "unknown"
    BY <2>2 DEF SettledAnswer
  <2>5. Promise!SettleAndReply(c, a)
    BY <1>5, <2>1, <2>3, <2>4 DEF Complete, Return, Promise!SettleAndReply, CallInv
  <2> QED
    BY <2>5 DEF Promise!Next
<1>6. ASSUME NEW c \in Calls, Drop(c) PROVE [Promise!Next]_(Promise!vars)
  <2>1. ended' = ended /\ result' = result
    BY <1>6, SameEnded DEF Drop
  <2>2. KeyOf[c] \in Keys /\ entries[KeyOf[c]] = c /\ ~Settled(KeyOf[c])
    BY <1>6 DEF Drop, Settled, IsReady, CallInv
  <2>3. SettledAnswer' = SettledAnswer
    BY <1>6, <2>2 DEF Drop, SettledAnswer, Settled, IsReady, AnswerOf, batchVars, TypeOK
  <2> QED
    BY <2>1, <2>3 DEF Promise!vars
<1>7. ASSUME NEW c \in Calls, Abandon(c) PROVE [Promise!Next]_(Promise!vars)
  <2>1. ended' = ended
    BY <1>7, SameEnded DEF Abandon
  <2>2. \A k \in Keys : entries[k] # c
    BY <1>7 DEF Abandon, EntryInv, CallInv, TypeOK
  <2>3. SettledAnswer' = SettledAnswer
    BY <1>7, <2>2 DEF Abandon, SettledAnswer, Settled, IsReady, AnswerOf, batchVars, TypeOK
  <2>4. Promise!GiveUp(c, "cancelled")
    BY <1>7, <2>1, <2>3 DEF Abandon, Return, Promise!GiveUp, CallInv
  <2> QED
    BY <2>4 DEF Promise!Next, Promise!GaveUp
<1>8. ASSUME NEW c \in Calls, FetchPanics(c) PROVE [Promise!Next]_(Promise!vars)
  <2>1. SettledAnswer' = SettledAnswer /\ ended' = ended
    BY <1>8, SameView, SameEnded DEF FetchPanics, memoVars, batchVars
  <2>2. Promise!GiveUp(c, "panicked")
    BY <1>8, <2>1 DEF FetchPanics, Return, Promise!GiveUp, CallInv
  <2> QED
    BY <2>2 DEF Promise!Next, Promise!GaveUp
<1>9. ASSUME NEW b \in Batches, BatchEnds(b) PROVE [Promise!Next]_(Promise!vars)
  <2>1. ended' = ended /\ result' = result
    BY <1>9, SameEnded DEF BatchEnds, callVars
  <2>2. \A k \in Keys : entries[k] # b
    BY <1>9 DEF BatchEnds, EntryInv, NoAnswers
  <2>3. SettledAnswer' = SettledAnswer
    BY <1>9, <2>2 DEF BatchEnds, SettledAnswer, Settled, IsReady, AnswerOf, memoVars, TypeOK
  <2> QED
    BY <2>1, <2>3 DEF Promise!vars
<1>10. ASSUME NEW b \in Batches, NEW k \in Keys, Store(b, k)
       PROVE  [Promise!Next]_(Promise!vars)
  <2>1. ended' = ended /\ result' = result
    BY <1>10, SameEnded DEF Store, callVars
  <2>2. CASE entries[k] = Nobody
    <3>1. SettledAnswer' = [SettledAnswer EXCEPT ![k] = batch[b][k]]
      BY <1>10, <2>2
      DEF Store, SettledAnswer, Settled, IsReady, AnswerOf, TypeOK
    <3>2. SettledAnswer[k] = "unknown" /\ batch[b][k] \in Answers
      BY <1>10, <2>2 DEF Store, SettledAnswer, Settled, BatchInv
    <3>3. Promise!Settle(k, batch[b][k])
      BY <2>1, <3>1, <3>2 DEF Promise!Settle
    <3> QED
      BY <3>2, <3>3 DEF Promise!Next
  <2>3. CASE entries[k] # Nobody
    <3>1. SettledAnswer' = SettledAnswer
      BY <1>10, <2>3, SameView DEF Store
    <3> QED
      BY <2>1, <3>1 DEF Promise!vars
  <2> QED
    BY <2>2, <2>3
<1>11. CASE RunEnds
  <2>1. SettledAnswer' = SettledAnswer /\ result' = result
    BY <1>11, SameView DEF RunEnds, memoVars, callVars, batchVars
  <2>2. ended' = ended \union Calls
    BY <1>11 DEF RunEnds, CtxDone
  <2>3. Promise!End(Calls)
    BY <2>1, <2>2 DEF Promise!End
  <2> QED
    BY <2>3 DEF Promise!Next
<1>12. ASSUME NEW c \in Calls, TimeoutPasses(c) PROVE [Promise!Next]_(Promise!vars)
  <2>1. SettledAnswer' = SettledAnswer /\ result' = result
    BY <1>12, SameView DEF TimeoutPasses, memoVars, callVars, batchVars
  <2>2. ended' = ended \union {c}
    BY <1>12 DEF TimeoutPasses, CtxDone
  <2>3. Promise!End({c})
    BY <2>1, <2>2 DEF Promise!End
  <2> QED
    BY <2>3 DEF Promise!Next
<1>13. CASE UNCHANGED vars
  <2>1. SettledAnswer' = SettledAnswer /\ result' = result /\ ended' = ended
    BY <1>13, SameView, SameEnded DEF vars, ctxVars
  <2> QED
    BY <2>1 DEF Promise!vars
<1> QED
  BY <1>1, <1>2, <1>3, <1>4, <1>5, <1>6, <1>7, <1>8, <1>9, <1>10, <1>11, <1>12, <1>13
  DEF Next, Step

(* Memo implements OneAnswer: a key is settled once and every call that      *)
(* returns an answer returns that one.                                       *)
THEOREM MemoKeepsPromise == Spec => KeepsPromise
  BY InitRefines, StepRefines, SpecIInv, PTL DEF Spec, KeepsPromise, Promise!Spec

=============================================================================
