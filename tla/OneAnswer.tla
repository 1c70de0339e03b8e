----------------------------- MODULE OneAnswer -----------------------------
(***************************************************************************)
(* What internal/checks/loader.go promises of a run's data: a key is       *)
(* settled at most once, every call about it is told that one answer, and  *)
(* a call gives up without the answer only because its own context ended,  *)
(* its key has no source, or its own fetch panicked.  Memo implements it.  *)
(***************************************************************************)
CONSTANTS
  Calls,      \* invocations of a loader method
  Keys,       \* normalized package refs
  Answers,    \* what a source can say of a key: a value or an error
  KeyOf,      \* the key each call asks about
  Unanswered  \* the answer of a key nothing has settled

VARIABLES
  answer,     \* the answer settled for each key
  result,     \* what each call returned
  ended       \* the calls whose context has ended

vars == <<answer, result, ended>>

GaveUp == {"cancelled", "refused", "panicked"}

Init ==
  /\ answer = [k \in Keys |-> Unanswered]
  /\ result = [c \in Calls |-> "pending"]
  /\ ended = {}

\* A batch settles a key nobody is told about yet.
Settle(k, a) ==
  /\ answer[k] = Unanswered
  /\ answer' = [answer EXCEPT ![k] = a]
  /\ UNCHANGED <<result, ended>>

\* A call settles its key itself and returns what it settled.
SettleAndReply(c, a) ==
  /\ answer[KeyOf[c]] = Unanswered
  /\ result[c] = "pending"
  /\ answer' = [answer EXCEPT ![KeyOf[c]] = a]
  /\ result' = [result EXCEPT ![c] = a]
  /\ UNCHANGED ended

\* A call returns the answer its key already has.
Reply(c) ==
  /\ answer[KeyOf[c]] # Unanswered
  /\ result[c] = "pending"
  /\ result' = [result EXCEPT ![c] = answer[KeyOf[c]]]
  /\ UNCHANGED <<answer, ended>>

\* A call returns without an answer; only an ended context cancels it.
GiveUp(c, how) ==
  /\ result[c] = "pending"
  /\ how = "cancelled" => c \in ended
  /\ result' = [result EXCEPT ![c] = how]
  /\ UNCHANGED <<answer, ended>>

\* Contexts end, and stay ended.
End(S) ==
  /\ ended' = ended \union S
  /\ UNCHANGED <<answer, result>>

Next ==
  \/ \E k \in Keys, a \in Answers : Settle(k, a)
  \/ \E c \in Calls, a \in Answers : SettleAndReply(c, a)
  \/ \E c \in Calls : Reply(c)
  \/ \E c \in Calls, how \in GaveUp : GiveUp(c, how)
  \/ \E S \in SUBSET Calls : End(S)

Spec == Init /\ [][Next]_vars

=============================================================================
