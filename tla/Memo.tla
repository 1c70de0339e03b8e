-------------------------------- MODULE Memo --------------------------------
(***************************************************************************)
(* The per-run loader of internal/checks/loader.go: memo.do and memo.store *)
(* as its methods and its prefetches use them.  Calls run concurrently on  *)
(* one memo.  The first call about a key inserts an entry and fetches;     *)
(* later calls wait on that entry; a fetch that fails after its own        *)
(* caller's context ended is dropped and whoever waited starts over.       *)
(*                                                                         *)
(* An entry is named after whoever made it, since a call makes at most one *)
(* and a batch at most one per key.                                        *)
(***************************************************************************)
CONSTANTS
  Calls,        \* invocations of a loader method (Versions, Advisories, ...)
  Batches,      \* batches of Prefetch and PrefetchDownloads
  Keys,         \* normalized package refs
  Values,       \* what a source can answer
  Failures,     \* errors of a source, memoized like values
  KeyOf,        \* the key each call asks about
  BatchKeys,    \* the keys each batch covers
  Unsupported,  \* keys no configured source indexes
  Timed,        \* calls made by a check, under the runner's per-check timeout
  Nobody        \* no entry

Answers == Values \union Failures

ASSUME CallsAssumption ==
  /\ KeyOf \in [Calls -> Keys]
  /\ Timed \subseteq Calls
  /\ Unsupported \subseteq Keys
  /\ BatchKeys \in [Batches -> SUBSET (Keys \ Unsupported)]

ASSUME NamesAssumption ==
  /\ Calls \intersect Batches = {}
  /\ Nobody \notin Calls \union Batches
  /\ Answers \intersect {"zero", "unknown", "pending", "cancelled", "refused", "panicked"} = {}

VARIABLES
  entries,   \* entries[k]: who made the entry of k in the memo's map
  ready,     \* calls whose entry's channel is closed
  value,     \* value[c]: val and err of the entry c made
  abandoned, \* calls whose entry is marked abandoned
  pc,        \* where each call is in do
  waitsOn,   \* the maker of the entry a call waits on
  result,    \* what each call returned
  batch,     \* batch[b]: what batch b answered per key
  stored,    \* the keys batch b has been through with store
  runEnded,  \* the run's context has ended
  expired    \* calls whose per-check timeout has passed

vars == <<entries, ready, value, abandoned, pc, waitsOn, result, batch, stored, runEnded, expired>>

memoVars == <<entries, ready, value, abandoned>>
callVars == <<pc, waitsOn, result>>
batchVars == <<batch, stored>>
ctxVars == <<runEnded, expired>>

NoAnswers == [k \in Keys |-> "unknown"]
GaveUp == {"cancelled", "refused", "panicked"}
Places == {"idle", "looking", "waiting", "fetching", "dropping", "done"}

\* ctx.Err() of the context a call runs under: the run's, or the check's.
CtxDone(c) == runEnded \/ c \in expired

\* The entry somebody made for k holds an answer.
IsReady(who) == who \in Batches \/ who \in ready

\* The answer in the entry that who made for k.
AnswerOf(who, k) == IF who \in Batches THEN batch[who][k] ELSE value[who]

Settled(k) == entries[k] # Nobody /\ IsReady(entries[k])

TypeOK ==
  /\ entries \in [Keys -> Calls \union Batches \union {Nobody}]
  /\ ready \subseteq Calls
  /\ value \in [Calls -> Answers \union {"zero"}]
  /\ abandoned \subseteq Calls
  /\ pc \in [Calls -> Places]
  /\ waitsOn \in [Calls -> Calls \union Batches \union {Nobody}]
  /\ result \in [Calls -> Answers \union GaveUp \union {"pending", "zero"}]
  /\ batch \in [Batches -> [Keys -> Answers \union {"unknown"}]]
  /\ stored \in [Batches -> SUBSET Keys]
  /\ runEnded \in BOOLEAN
  /\ expired \subseteq Timed

Init ==
  /\ entries = [k \in Keys |-> Nobody]
  /\ ready = {}
  /\ value = [c \in Calls |-> "zero"]
  /\ abandoned = {}
  /\ pc = [c \in Calls |-> "idle"]
  /\ waitsOn = [c \in Calls |-> Nobody]
  /\ result = [c \in Calls |-> "pending"]
  /\ batch = [b \in Batches |-> NoAnswers]
  /\ stored = [b \in Batches |-> Keys]
  /\ runEnded = FALSE
  /\ expired = {}

-----------------------------------------------------------------------------
(* The methods: advisoryReady, depsDevReady and reg.For answer for a key    *)
(* no source indexes without touching the memo.                             *)

Return(c, r) ==
  /\ pc' = [pc EXCEPT ![c] = "done"]
  /\ result' = [result EXCEPT ![c] = r]

Begin(c) ==
  /\ pc[c] = "idle"
  /\ IF KeyOf[c] \in Unsupported
       THEN Return(c, "refused")
       ELSE /\ pc' = [pc EXCEPT ![c] = "looking"]
            /\ UNCHANGED result
  /\ UNCHANGED <<waitsOn, memoVars, batchVars, ctxVars>>

\* Mutant: an entry in flight is not joined.
LookJoinsOnlyComplete(c) ==
  LET k == KeyOf[c] IN
  /\ pc[c] = "looking"
  /\ IF ~Settled(k)
       THEN /\ entries' = [entries EXCEPT ![k] = c]
            /\ pc' = [pc EXCEPT ![c] = "fetching"]
            /\ UNCHANGED waitsOn
       ELSE /\ pc' = [pc EXCEPT ![c] = "waiting"]
            /\ waitsOn' = [waitsOn EXCEPT ![c] = entries[k]]
            /\ UNCHANGED entries
  /\ UNCHANGED <<ready, value, abandoned, result, batchVars, ctxVars>>

(* do, up to the unlock: take the entry that is there or insert one.        *)
Look(c) ==
  LET k == KeyOf[c] IN
  /\ pc[c] = "looking"
  /\ IF entries[k] = Nobody
       THEN /\ entries' = [entries EXCEPT ![k] = c]
            /\ pc' = [pc EXCEPT ![c] = "fetching"]
            /\ UNCHANGED waitsOn
       ELSE /\ pc' = [pc EXCEPT ![c] = "waiting"]
            /\ waitsOn' = [waitsOn EXCEPT ![c] = entries[k]]
            /\ UNCHANGED entries
  /\ UNCHANGED <<ready, value, abandoned, result, batchVars, ctxVars>>

\* Mutant: a waiter takes whatever the entry holds, abandoned or not.
WaiterIgnoresAbandoned(c) ==
  /\ pc[c] = "waiting"
  /\ IsReady(waitsOn[c])
  /\ waitsOn' = [waitsOn EXCEPT ![c] = Nobody]
  /\ Return(c, AnswerOf(waitsOn[c], KeyOf[c]))
  /\ UNCHANGED <<memoVars, batchVars, ctxVars>>

(* The waiter's select: the channel closed ...                              *)
WaiterWakes(c) ==
  LET who == waitsOn[c] IN
  /\ pc[c] = "waiting"
  /\ IsReady(who)
  /\ waitsOn' = [waitsOn EXCEPT ![c] = Nobody]
  /\ IF who \in abandoned
       THEN /\ pc' = [pc EXCEPT ![c] = "looking"]
            /\ UNCHANGED result
       ELSE Return(c, AnswerOf(who, KeyOf[c]))
  /\ UNCHANGED <<memoVars, batchVars, ctxVars>>

(* ... or its own context ended; with both, select picks either.            *)
WaiterLeaves(c) ==
  /\ pc[c] = "waiting"
  /\ CtxDone(c)
  /\ waitsOn' = [waitsOn EXCEPT ![c] = Nobody]
  /\ Return(c, "cancelled")
  /\ UNCHANGED <<memoVars, batchVars, ctxVars>>

(* fetch returned and the entry is completed: a value, or an error while    *)
(* the caller's context is alive.                                           *)
Complete(c, a) ==
  /\ pc[c] = "fetching"
  /\ a \in Failures => ~CtxDone(c)
  /\ value' = [value EXCEPT ![c] = a]
  /\ ready' = ready \union {c}
  /\ Return(c, a)
  /\ UNCHANGED <<entries, abandoned, waitsOn, batchVars, ctxVars>>

\* Mutant: the error of an ended context is memoized like a source's.
DropMemoizesCancellation(c) ==
  /\ pc[c] = "fetching"
  /\ CtxDone(c)
  /\ value' = [value EXCEPT ![c] = "cancelled"]
  /\ ready' = ready \union {c}
  /\ Return(c, "cancelled")
  /\ UNCHANGED <<entries, abandoned, waitsOn, batchVars, ctxVars>>

(* fetch failed and the caller's context has ended: the entry leaves the    *)
(* map, and only after the unlock is it marked and its channel closed.      *)
Drop(c) ==
  /\ pc[c] = "fetching"
  /\ CtxDone(c)
  /\ entries' = [entries EXCEPT ![KeyOf[c]] = Nobody]
  /\ pc' = [pc EXCEPT ![c] = "dropping"]
  /\ UNCHANGED <<ready, value, abandoned, waitsOn, result, batchVars, ctxVars>>

\* Mutant: the dropped entry is marked but its channel stays open.
AbandonLeavesOpen(c) ==
  /\ pc[c] = "dropping"
  /\ abandoned' = abandoned \union {c}
  /\ Return(c, "cancelled")
  /\ UNCHANGED <<entries, ready, value, waitsOn, batchVars, ctxVars>>

Abandon(c) ==
  /\ pc[c] = "dropping"
  /\ abandoned' = abandoned \union {c}
  /\ ready' = ready \union {c}
  /\ Return(c, "cancelled")
  /\ UNCHANGED <<entries, value, waitsOn, batchVars, ctxVars>>

(* fetch panicked under a check: runCheck recovers the check's goroutine,   *)
(* and nothing in do completes or drops the entry.                          *)
FetchPanics(c) ==
  /\ pc[c] = "fetching"
  /\ c \in Timed
  /\ Return(c, "panicked")
  /\ UNCHANGED <<waitsOn, memoVars, batchVars, ctxVars>>

-----------------------------------------------------------------------------
(* A batch answered.  A partial failure loses some keys, a failure all the  *)
(* unanswered ones, and only a batch that succeeded leaves keys unknown     *)
(* (PrefetchDownloads).  A batch that failed after ctx ended stores nothing *)
(* and is left as it is.                                                    *)
BatchReplies(b) ==
  {f \in [Keys -> Answers \union {"unknown"}] :
     /\ \A k \in Keys \ BatchKeys[b] : f[k] = "unknown"
     /\ ~ (\E j, k \in BatchKeys[b] : f[j] \in Failures /\ f[k] = "unknown")}

BatchEnds(b) ==
  /\ batch[b] = NoAnswers
  /\ stored[b] = Keys
  /\ \E f \in BatchReplies(b) :
       /\ (\E k \in Keys : f[k] \in Failures) => ~runEnded
       /\ batch' = [batch EXCEPT ![b] = f]
       /\ stored' = [stored EXCEPT ![b] = {k \in Keys : f[k] = "unknown"}]
  /\ UNCHANGED <<memoVars, callVars, ctxVars>>

\* Mutant: the last answer wins.
StoreOverwrites(b, k) ==
  /\ k \notin stored[b]
  /\ stored' = [stored EXCEPT ![b] = @ \union {k}]
  /\ entries' = [entries EXCEPT ![k] = b]
  /\ UNCHANGED <<ready, value, abandoned, callVars, batch, ctxVars>>

(* store: an entry that is there, complete or in flight, is left alone.     *)
Store(b, k) ==
  /\ k \notin stored[b]
  /\ stored' = [stored EXCEPT ![b] = @ \union {k}]
  /\ entries' = IF entries[k] = Nobody THEN [entries EXCEPT ![k] = b] ELSE entries
  /\ UNCHANGED <<ready, value, abandoned, callVars, batch, ctxVars>>

-----------------------------------------------------------------------------
(* The contexts: the user interrupts the run, a check's timeout passes.     *)

RunEnds ==
  /\ ~runEnded
  /\ runEnded' = TRUE
  /\ UNCHANGED <<memoVars, callVars, batchVars, expired>>

TimeoutPasses(c) ==
  /\ c \in Timed \ expired
  /\ pc[c] \in {"looking", "waiting", "fetching"}
  /\ expired' = expired \union {c}
  /\ UNCHANGED <<memoVars, callVars, batchVars, runEnded>>

\* One turn of do for c: what the Go scheduler and the source owe it.
Step(c) ==
  \/ Look(c)
  \/ WaiterWakes(c)
  \/ WaiterLeaves(c)
  \/ \E a \in Answers : Complete(c, a)
  \/ Drop(c)
  \/ Abandon(c)
  \/ FetchPanics(c)

Next ==
  \/ \E c \in Calls : Begin(c)
  \/ \E c \in Calls : Step(c)
  \/ \E b \in Batches : BatchEnds(b)
  \/ \E b \in Batches, k \in Keys : Store(b, k)
  \/ RunEnds
  \/ \E c \in Calls : TimeoutPasses(c)

\* A started call keeps running (its goroutine is scheduled and every fetch
\* of internal/httpcache is bounded), and a started timer fires.
Fairness ==
  /\ \A c \in Calls : WF_vars(Step(c))
  /\ \A c \in Timed : WF_vars(TimeoutPasses(c))

Spec == Init /\ [][Next]_vars /\ Fairness

-----------------------------------------------------------------------------
(* The data of a key comes from one fetch: while a call fetches, its entry  *)
(* is the one in the map, so nobody else fetches that key (loader.go: "one  *)
(* fetch per package and per version however many checks ask") and a key    *)
(* with an answer is never fetched again.                                   *)
OneFetch ==
  \A c \in Calls : pc[c] = "fetching" =>
    /\ ~Settled(KeyOf[c])
    /\ \A d \in Calls : pc[d] = "fetching" /\ KeyOf[d] = KeyOf[c] => d = c

(* A call reports a cancellation only when its own context ended: the       *)
(* cancellation of the call it waited for is never handed on (loader.go:    *)
(* "that says nothing about the source").                                   *)
CancelledIsOwn == \A c \in Calls : result[c] = "cancelled" => CtxDone(c)

\* The answer of each key, and the calls whose context has ended.
SettledAnswer ==
  [k \in Keys |-> IF Settled(k) THEN AnswerOf(entries[k], k) ELSE "unknown"]

Promise == INSTANCE OneAnswer WITH
  answer <- SettledAnswer,
  ended <- {c \in Calls : CtxDone(c)},
  Unanswered <- "unknown"

(* Memo keeps the promise of OneAnswer: whatever the order of calls,        *)
(* batches, timeouts and interrupts, a key is settled once and every call   *)
(* that gets an answer gets that one.                                       *)
KeepsPromise == Promise!Spec

\* c waits for an entry whose maker panicked: nobody will ever complete it.
Orphaned(c) ==
  /\ pc[c] = "waiting"
  /\ waitsOn[c] \in Calls
  /\ result[waitsOn[c]] = "panicked"

(* Every call returns, unless it is stuck behind a panicked fetch without   *)
(* a timeout of its own.                                                    *)
CallsReturn ==
  \A c \in Calls : pc[c] = "looking" ~> pc[c] = "done" \/ (c \notin Timed /\ Orphaned(c))

(* runner.go, on checks: "the runner recovers a panic and reports the check *)
(* as skipped with the message, but whatever the check found is lost", so   *)
(* nothing but that check is affected and every other call still returns.   *)
PanicStaysInItsCheck ==
  \A c \in Calls : pc[c] = "looking" ~> pc[c] = "done"

=============================================================================
