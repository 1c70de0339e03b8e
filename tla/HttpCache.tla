----------------------------- MODULE HttpCache -----------------------------
(***************************************************************************)
(* internal/httpcache: one entry of the disk cache, shared by requests of  *)
(* several processes, and the server it is a copy of.  A request takes the *)
(* mutex its process keeps for the entry, reads the metadata file and then *)
(* the body file, and serves them, revalidates them or fetches anew; what  *)
(* it fetched is written body first, metadata second, each by a rename.    *)
(* Nothing orders two processes: any of those steps may fall between two   *)
(* steps of another, a process may die between its two renames, and `cache *)
(* clear` removes the two files one after the other.                       *)
(*                                                                         *)
(* A client with NoCache reads and writes no entry and is left out.        *)
(* Time is counted in units of DefaultTTL; one attempt takes none.         *)
(***************************************************************************)
EXTENDS Naturals, FiniteSets

CONSTANTS
  Requests,   \* calls of Get or Post about the entry
  Processes,  \* trustdiff processes that share the cache directory
  ProcessOf,  \* the process that makes each request
  Disconnected, \* the processes started with Offline
  TTL,        \* the freshness each request asks for
  Method,     \* the method of the requests: it is part of the entry's key
  Docs,       \* what the server may answer
  Status,     \* the status each of them is answered with
  Length,     \* the length of each body
  Retries,    \* Options.Retries
  MaxTime,    \* bound: the clock stops here
  Nothing,    \* no file, no entry, no document, no request
  Failure,    \* the reply of a request that gave up
  Offline     \* the reply ErrOffline

DefaultTTL == 1
Times == 0..MaxTime

Meta == [doc: Docs, fetched: Times, ttl: Nat]
Entry == [doc: Docs, body: Docs, fetched: Times, ttl: Nat]
Reply == [doc: Docs, body: Docs, fetched: Times]

ASSUME HttpCacheAssumption ==
  /\ ProcessOf \in [Requests -> Processes]
  /\ Disconnected \subseteq Processes
  /\ TTL \in [Requests -> Nat \ {0}]
  /\ Method \in {"GET", "POST"}
  /\ Status \in [Docs -> {200, 404, 203}]
  /\ Length \in [Docs -> Nat]
  /\ Retries \in Nat /\ MaxTime \in Nat
  /\ Nothing \notin Docs \union Requests
  /\ {Nothing, Failure, Offline} \intersect Reply = {}

VARIABLES
  now,      \* the clock
  doc,      \* what the server holds
  held,     \* what it held during each unit of time
  body,     \* the body file
  meta,     \* the metadata file
  lock,     \* the holder of each process's mutex for the entry
  pc,       \* where each request is in do
  cached,   \* the entry it read, or the metadata of one
  got,      \* what the server answered it, and when
  tries,    \* attempts and body failures so far
  began,    \* when it looked in the cache
  reply,    \* what it returned
  dead,     \* processes that were killed
  clearing  \* where `cache clear` is

disk == <<body, meta>>
world == <<now, doc, held, dead, clearing>>
vars == <<now, doc, held, body, meta, lock, pc, cached, got, tries, began, reply,
          dead, clearing>>

TypeOK ==
  /\ now \in Times /\ doc \in Docs /\ held \in [Times -> SUBSET Docs]
  /\ body \in Docs \union {Nothing} /\ meta \in Meta \union {Nothing}
  /\ lock \in [Processes -> Requests \union {Nothing}]
  /\ pc \in [Requests -> {"idle", "reading", "readingBody", "fetching",
                          "refreshing", "storing", "storingMeta", "done"}]
  /\ cached \in [Requests -> Meta \union Entry \union {Nothing}]
  /\ got \in [Requests -> [doc: Docs, fetched: Times] \union {Nothing}]
  /\ tries \in [Requests -> [attempt: 0..Retries, body: 0..1]]
  /\ began \in [Requests -> Times]
  /\ reply \in [Requests -> Reply \union {Nothing, Failure, Offline}]
  /\ dead \subseteq Processes
  /\ clearing \in {"idle", "meta", "done"}

NoTries == [attempt |-> 0, body |-> 0]

Init ==
  /\ now = 0 /\ doc \in Docs
  /\ held = [t \in Times |-> IF t = 0 THEN {doc} ELSE {}]
  /\ body = Nothing /\ meta = Nothing
  /\ lock = [p \in Processes |-> Nothing]
  /\ pc = [r \in Requests |-> "idle"]
  /\ cached = [r \in Requests |-> Nothing]
  /\ got = [r \in Requests |-> Nothing]
  /\ tries = [r \in Requests |-> NoTries]
  /\ began = [r \in Requests |-> 0]
  /\ reply = [r \in Requests |-> Nothing]
  /\ dead = {} /\ clearing = "idle"

-----------------------------------------------------------------------------
(* The rest of the world.                                                   *)
Tick ==
  /\ now < MaxTime
  /\ now' = now + 1
  /\ held' = [held EXCEPT ![now + 1] = {doc}]
  /\ UNCHANGED <<doc, disk, lock, pc, cached, got, tries, began, reply, dead, clearing>>

\* Bound: the server changes once per unit of time.
Publish(d) ==
  /\ held[now] = {doc} /\ d # doc
  /\ doc' = d
  /\ held' = [held EXCEPT ![now] = @ \union {d}]
  /\ UNCHANGED <<now, disk, lock, pc, cached, got, tries, began, reply, dead, clearing>>

\* A process that is killed leaves its two files as they are.  Bound: one is.
Die(p) ==
  LET own == {r \in Requests : ProcessOf[r] = p} IN
  /\ dead = {}
  /\ \E r \in own : pc[r] \notin {"idle", "done"}
  /\ dead' = dead \union {p}
  /\ pc' = [r \in Requests |-> IF r \in own THEN "done" ELSE pc[r]]
  /\ cached' = [r \in Requests |-> IF r \in own THEN Nothing ELSE cached[r]]
  /\ got' = [r \in Requests |-> IF r \in own THEN Nothing ELSE got[r]]
  /\ tries' = [r \in Requests |-> IF r \in own THEN NoTries ELSE tries[r]]
  /\ lock' = [lock EXCEPT ![p] = Nothing]
  /\ UNCHANGED <<now, doc, held, disk, began, reply, clearing>>

\* Clear lists the directory and removes what it listed in the order of the
\* names: <key>.body before <key>.json.
Clear ==
  /\ \/ /\ clearing = "idle"
        /\ clearing' = IF meta = Nothing THEN "done" ELSE "meta"
        /\ body' = Nothing
        /\ UNCHANGED meta
     \/ /\ clearing = "meta"
        /\ clearing' = "done"
        /\ meta' = Nothing
        /\ UNCHANGED body
  /\ UNCHANGED <<now, doc, held, lock, pc, cached, got, tries, began, reply, dead>>

-----------------------------------------------------------------------------
Running(r, at) == pc[r] = at /\ ProcessOf[r] \notin dead
IsOffline(r) == ProcessOf[r] \in Disconnected

EffectiveTTL(ttl, d) == IF Status[d] = 404 /\ ttl > DefaultTTL THEN DefaultTTL ELSE ttl

\* Mutant: freshness is decided by the TTL the entry was stored under.
FreshAsStored(e, r) == now < e.fetched + e.ttl

Fresh(e, r) == now < e.fetched + EffectiveTTL(TTL[r], e.doc)

Served(e) == [doc |-> e.doc, body |-> e.body, fetched |-> e.fetched]

\* Mutant: the error return of fetch leaves the entry locked.
ReturnHolding(r, answer) ==
  /\ pc' = [pc EXCEPT ![r] = "done"]
  /\ reply' = [reply EXCEPT ![r] = answer]
  /\ lock' = [p \in Processes |-> IF lock[p] = r /\ answer # Failure THEN Nothing ELSE lock[p]]
  /\ cached' = [cached EXCEPT ![r] = Nothing]
  /\ got' = [got EXCEPT ![r] = Nothing]
  /\ tries' = [tries EXCEPT ![r] = NoTries]

(* Every return of do goes through the deferred unlock.                     *)
Return(r, answer) ==
  /\ pc' = [pc EXCEPT ![r] = "done"]
  /\ reply' = [reply EXCEPT ![r] = answer]
  /\ lock' = [p \in Processes |-> IF lock[p] = r THEN Nothing ELSE lock[p]]
  /\ cached' = [cached EXCEPT ![r] = Nothing]
  /\ got' = [got EXCEPT ![r] = Nothing]
  /\ tries' = [tries EXCEPT ![r] = NoTries]

GoTo(r, at) ==
  /\ pc' = [pc EXCEPT ![r] = at]
  /\ UNCHANGED <<lock, reply, tries>>

\* A request waits in lockKey, which does not look at the context, until its
\* process's mutex for the entry is free.
LockKey(r) ==
  /\ Running(r, "idle")
  /\ lock[ProcessOf[r]] = Nothing
  /\ lock' = [lock EXCEPT ![ProcessOf[r]] = r]
  /\ pc' = [pc EXCEPT ![r] = "reading"]
  /\ began' = [began EXCEPT ![r] = now]
  /\ UNCHANGED <<world, disk, cached, got, tries, reply>>

\* do, once readEntry has answered.
Looked(r, e) ==
  IF e # Nothing /\ (IsOffline(r) \/ Fresh(e, r)) THEN Return(r, Served(e))
  ELSE IF IsOffline(r) THEN Return(r, Offline)
  ELSE /\ cached' = [cached EXCEPT ![r] = e]
       /\ GoTo(r, "fetching")
       /\ UNCHANGED got

ReadMeta(r) ==
  /\ Running(r, "reading")
  /\ IF meta = Nothing
       THEN Looked(r, Nothing)
       ELSE /\ cached' = [cached EXCEPT ![r] = meta]
            /\ GoTo(r, "readingBody")
            /\ UNCHANGED got
  /\ UNCHANGED <<world, disk, began>>

\* Mutant: a body of another length is not a miss.
MatchesAnything(m, b) == b # Nothing

Matches(m, b) == b # Nothing /\ Length[b] = Length[m.doc]

ReadBody(r) ==
  /\ Running(r, "readingBody")
  /\ LET m == cached[r] IN
       Looked(r, IF Matches(m, body)
                   THEN [doc |-> m.doc, body |-> body, fetched |-> m.fetched, ttl |-> m.ttl]
                   ELSE Nothing)
  /\ UNCHANGED <<world, disk, began>>

-----------------------------------------------------------------------------
(* fetch: one attempt of the retry loop, with the loop's decision.          *)
Fetched(g) == [doc |-> g.doc, body |-> g.doc, fetched |-> g.fetched]

Answered(r) ==
  LET g == [doc |-> doc, fetched |-> now] IN
  /\ Running(r, "fetching")
  /\ IF Status[doc] \in {200, 404}
       THEN /\ got' = [got EXCEPT ![r] = g]
            /\ GoTo(r, "storing")
            /\ UNCHANGED cached
       ELSE Return(r, Fetched(g))
  /\ UNCHANGED <<world, disk, began>>

\* A GET sends the validators of the entry it read: 304 means still held.
NotModified(r) ==
  /\ Running(r, "fetching")
  /\ Method = "GET" /\ cached[r] # Nothing /\ cached[r].doc = doc
  /\ got' = [got EXCEPT ![r] = [doc |-> doc, fetched |-> now]]
  /\ GoTo(r, "refreshing")
  /\ UNCHANGED <<world, disk, cached, began>>

\* Mutant: one attempt too many.
GivesUpLate(r, failure) ==
  \/ failure = "final"
  \/ failure = "body" /\ tries[r].body = 1
  \/ tries[r].attempt > Retries

GivesUp(r, failure) ==
  \/ failure = "final"
  \/ failure = "body" /\ tries[r].body = 1
  \/ tries[r].attempt >= Retries

Failed(r, failure) ==
  /\ Running(r, "fetching")
  /\ IF GivesUp(r, failure)
       THEN Return(r, Failure)
       ELSE /\ tries' = [tries EXCEPT ![r] =
                            [attempt |-> @.attempt + 1, body |-> @.body + (IF failure = "body" THEN 1 ELSE 0)]]
            /\ UNCHANGED <<pc, lock, reply, cached, got>>
  /\ UNCHANGED <<world, disk, began>>

\* The caller's context may end at any moment: the rate limiter, the attempt
\* or the sleep between two attempts then fails.
Stops(r) ==
  /\ Running(r, "fetching")
  /\ Return(r, Failure)
  /\ UNCHANGED <<world, disk, began>>

-----------------------------------------------------------------------------
(* The cache write.  Its failure is logged and the answer returned all the  *)
(* same.                                                                    *)
StoreBody(r) ==
  /\ Running(r, "storing")
  /\ \/ body' = got[r].doc /\ GoTo(r, "storingMeta") /\ UNCHANGED <<cached, got>>
     \/ Return(r, Fetched(got[r])) /\ UNCHANGED body
  /\ UNCHANGED <<world, meta, began>>

Stored(g, r) == [doc |-> g.doc, fetched |-> g.fetched, ttl |-> EffectiveTTL(TTL[r], g.doc)]

StoreMeta(r) ==
  /\ Running(r, "storingMeta")
  /\ meta' \in {meta, Stored(got[r], r)}
  /\ Return(r, Fetched(got[r]))
  /\ UNCHANGED <<world, body, began>>

RefreshEntry(r) ==
  /\ Running(r, "refreshing")
  /\ meta' \in {meta, Stored(got[r], r)}
  /\ Return(r, Served([cached[r] EXCEPT !.fetched = got[r].fetched]))
  /\ UNCHANGED <<world, body, began>>

Step(r) ==
  \/ LockKey(r) \/ ReadMeta(r) \/ ReadBody(r)
  \/ Answered(r) \/ NotModified(r) \/ Stops(r)
  \/ \E failure \in {"final", "body", "transport"} : Failed(r, failure)
  \/ StoreBody(r) \/ StoreMeta(r) \/ RefreshEntry(r)

Next ==
  \/ \E r \in Requests : Step(r)
  \/ \E d \in Docs : Publish(d)
  \/ \E p \in Processes : Die(p)
  \/ Tick
  \/ Clear

Spec == Init /\ [][Next]_vars

-----------------------------------------------------------------------------
\* readEntry compares the body with the metadata by their lengths and by nothing else.
Describes(d, b) ==
  b = d \/ (Length[b] = Length[d] /\ \E t \in Times : b \in held[t])

(* A reply names a document the server held when the reply says it was last *)
(* confirmed, whichever processes wrote the two files in between and        *)
(* wherever they died; and its body is that document, or one of the same    *)
(* length the server held at some time: never a body of another length, and *)
(* never bytes the server did not send (disk.go readEntry, writeEntry).     *)
HonestReply ==
  \A r \in Requests : reply[r] \in Reply =>
    /\ reply[r].doc \in held[reply[r].fetched]
    /\ Describes(reply[r].doc, reply[r].body)

(* Whatever TTL other requests stored the entry under, a request that may   *)
(* use the network is answered with what the server held less than its own  *)
(* TTL before it looked, and with a "not found" less than DefaultTTL before: *)
(* of a body that is not the reply's document only the length is as recent. *)
BoundedStaleness ==
  \A r \in Requests : reply[r] \in Reply /\ ~IsOffline(r) =>
    \E t \in Times : /\ reply[r].doc \in held[t]
                     /\ Length[reply[r].body] = Length[reply[r].doc]
                     /\ began[r] < t + EffectiveTTL(TTL[r], reply[r].doc)

(* No way out of do leaves the entry locked: whoever holds a process's      *)
(* mutex is a request still at work, so one that waits gets its turn.       *)
EntryFreed ==
  \A p \in Processes : lock[p] # Nothing =>
    /\ ProcessOf[lock[p]] = p
    /\ pc[lock[p]] \notin {"idle", "done"}

(* disk.go, writeEntry: "a reader that finds valid metadata always finds    *)
(* the body it describes".                                                  *)
ReaderFindsItsBody ==
  \A r \in Requests : reply[r] \in Reply => reply[r].body = reply[r].doc

=============================================================================
