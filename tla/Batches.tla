------------------------------- MODULE Batches ------------------------------
(* The clients that answer for many packages at once, and what the loader   *)
(* keeps of their answers (internal/checks/loader.go Prefetch and           *)
(* PrefetchDownloads):                                                      *)
(*                                                                          *)
(*   osv        pages of a batch query, then the record of every advisory   *)
(*              it lists (internal/advisory/osv/osv.go)                     *)
(*   index      the offline index in place of both (osv.go)                 *)
(*   depsdev    one batch of versions or findings, attributed to the        *)
(*              requests (internal/advisory/depsdev/depsdev.go)             *)
(*   downloads  npm's bulk counts (internal/registry/npm/npm.go)            *)
(*                                                                          *)
(* The clients run side by side and share nothing, so a behaviour follows   *)
(* one. The services are modelled by what they may answer: pages cut        *)
(* anywhere, a record withdrawn between listing and reading, a response     *)
(* that is missing or repeated, and requests that fail. What deps.dev       *)
(* promises is kept: as many responses as requests come in their order.     *)
EXTENDS Naturals, Sequences, SequencesExt

CONSTANTS
  Refs,               \* the packages of the run, in order
  Canon,              \* the name deps.dev knows each by
  Scoped,             \* those whose name npm's bulk endpoint refuses
  Ids,                \* the advisories, in the order of their ids
  Malicious,          \* those with a MAL- id
  Listings,           \* what the query may list: functions of a ref to ids
  ChunkSize,          \* requests in one batch
  MaxPages,           \* pages read of one batch
  MaxDetailFailures   \* failed records after which none is requested

Packages == ToSet(Refs)

\* A batch is asked about some packages, each once, by name (loader.go uniqueVersioned);
\* "unknown" is what deps.dev echoes of a package nobody asked about.
ASSUME BatchesAssumption ==
  /\ ChunkSize \in Nat \ {0} /\ MaxPages \in Nat \ {0} /\ MaxDetailFailures \in Nat
  /\ Refs \in Seq(Packages) /\ Ids \in Seq(ToSet(Ids))
  /\ Refs # <<>> /\ IsInjective(Refs) /\ IsInjective(Ids)
  /\ "unknown" \notin Packages
  /\ DOMAIN Canon = Packages /\ Scoped \subseteq Packages /\ Malicious \subseteq ToSet(Ids)
  /\ \A l \in Listings: l \in [Packages -> SUBSET ToSet(Ids)]

VARIABLES
  client,     \* the client that runs
  served,     \* what its service holds
  phase,      \* "query", "details", "answered" or "cancelled"
  chunk,      \* the batch being asked
  page,       \* pages of it read
  pending,    \* the refs, then the advisories, still to ask about
  hits,       \* what was read of each ref
  details,    \* advisories whose record was read, or stands for itself
  failed,     \* advisories whose record could not be read
  lost,       \* refs without an answer
  stored,     \* what the loader keeps of each ref: "nothing", "error" or an "answer"
  broke,      \* refs and advisories whose own request failed
  alone       \* names asked for one by one after the batch

vars == <<client, served, phase, chunk, page, pending, hits, details, failed, lost, stored, broke, alone>>

Nothing == [kind |-> "nothing", of |-> {}]
Error == [kind |-> "error", of |-> {}]
Answer(s) == [kind |-> "answer", of |-> s]

Statuses == {"current", "withdrawn", "gone"}

ChunksOf(s) == [k \in 1..((Len(s) + ChunkSize - 1) \div ChunkSize) |->
                  SubSeq(s, (k - 1) * ChunkSize + 1, IF k * ChunkSize < Len(s) THEN k * ChunkSize ELSE Len(s))]

\* The downloads client asks in bulk for unscoped names; scoped ones, and a name
\* left over, follow one by one.
DownloadPlan ==
  LET chunks == ChunksOf(SelectSeq(Refs, LAMBDA r: r \notin Scoped))
      bulk == SelectSeq(chunks, LAMBDA c: Len(c) > 1)
      singles == SelectSeq(Refs, LAMBDA r: r \in Scoped)
      left == SelectSeq(chunks, LAMBDA c: Len(c) = 1)
  IN bulk \o [k \in DOMAIN singles |-> <<singles[k]>>] \o left

Plan == IF client = "downloads" THEN DownloadPlan ELSE ChunksOf(Refs)
Asked == ToSet(Plan[chunk])

Services ==
  [osv |-> [listing: Listings, status: [ToSet(Ids) -> Statuses]],
   index |-> [listing: Listings, status: [ToSet(Ids) -> {"current"}]],
   depsdev |-> [seen: SUBSET {Canon[r]: r \in Packages}],
   downloads |-> [counted: SUBSET Packages]]

Init ==
  /\ client \in DOMAIN Services
  /\ served \in Services[client]
  /\ phase = "query" /\ chunk = 1 /\ page = 0
  /\ pending = ToSet(Plan[1])
  /\ hits = [r \in Packages |-> {}]
  /\ details = {} /\ failed = {} /\ lost = {}
  /\ stored = [r \in Packages |-> Nothing]
  /\ broke = {} /\ alone = {}

\* What the loader stores of a whole answer, of a partial one, and of an error.
Store(ok) == stored' = [r \in Packages |-> IF r \in ok THEN Answer(hits'[r]) ELSE Error]

\* On to the next batch, or to what follows the last.
NextChunk(after) ==
  /\ chunk' = chunk + 1
  /\ page' = 0
  /\ IF chunk < Len(Plan)
     THEN phase' = "query" /\ pending' = ToSet(Plan[chunk + 1])
     ELSE phase' = "details" /\ pending' = after

-----------------------------------------------------------------------------
(* OSV.                                                                     *)

Unlisted(r) == served.listing[r] \ hits[r]
ListedIds == UNION {hits'[r]: r \in Packages}

\* One page: of every pending query some of what is not yet listed, and a token
\* when there is more.
QueryPage ==
  /\ client = "osv" /\ phase = "query"
  /\ page < MaxPages
  /\ \E part \in [pending -> SUBSET ToSet(Ids)]:
       /\ \A r \in pending: part[r] \subseteq Unlisted(r)
       /\ hits' = [r \in Packages |-> IF r \in pending THEN hits[r] \cup part[r] ELSE hits[r]]
       /\ LET more == {r \in pending: part[r] # Unlisted(r)}
          IN IF more = {} THEN NextChunk(ListedIds)
             ELSE pending' = more /\ page' = page + 1 /\ UNCHANGED <<chunk, phase>>
  /\ UNCHANGED <<client, served, details, failed, lost, stored, broke, alone>>

\* Mutant: the failure of one batch is the failure of the call.
LoseAll == hits' = [r \in Packages |-> {}] /\ lost' = Packages

\* What was read of a failed batch is forgotten and its refs are lost.
LoseChunk ==
  /\ hits' = [r \in Packages |-> IF r \in Asked THEN {} ELSE hits[r]]
  /\ lost' = lost \cup Asked

\* The request fails, the response has another number of results, or the batch
\* has more pages than are read.
QueryFails ==
  /\ client = "osv" /\ phase = "query"
  /\ LoseChunk
  /\ broke' = broke \cup Asked
  /\ NextChunk(ListedIds)
  /\ UNCHANGED <<client, served, details, failed, stored, alone>>

DueId == Ids[CHOOSE i \in DOMAIN Ids: Ids[i] \in pending /\ \A j \in DOMAIN Ids: Ids[j] \in pending => i <= j]
Requested == Cardinality(failed) < MaxDetailFailures

\* The record is read; one withdrawn is dropped, and one the service does not
\* know as well, unless its id alone says that the package is malicious.
DetailRead ==
  /\ client = "osv" /\ phase = "details"
  /\ pending # {} /\ Requested
  /\ details' = IF served.status[DueId] = "current" \/ (served.status[DueId] = "gone" /\ DueId \in Malicious)
                THEN details \cup {DueId} ELSE details
  /\ pending' = pending \ {DueId}
  /\ UNCHANGED <<client, served, phase, chunk, page, hits, failed, lost, stored, broke, alone>>

\* A malicious package stands by its id; any other advisory has failed.
NoRecord ==
  IF DueId \in Malicious THEN details' = details \cup {DueId} /\ UNCHANGED failed
  ELSE failed' = failed \cup {DueId} /\ UNCHANGED details

DetailFails ==
  /\ client = "osv" /\ phase = "details"
  /\ pending # {} /\ Requested
  /\ broke' = broke \cup {DueId}
  /\ NoRecord
  /\ pending' = pending \ {DueId}
  /\ UNCHANGED <<client, served, phase, chunk, page, hits, lost, stored, alone>>

\* After repeated failures nothing more is requested.
DetailNotRequested ==
  /\ client = "osv" /\ phase = "details"
  /\ pending # {} /\ ~Requested
  /\ NoRecord
  /\ pending' = pending \ {DueId}
  /\ UNCHANGED <<client, served, phase, chunk, page, hits, lost, stored, broke, alone>>

\* A ref that lists an advisory whose record failed is lost; of the others the
\* advisories that were not dropped are the answer.
Assemble ==
  /\ client = "osv" /\ phase = "details" /\ pending = {}
  /\ lost' = lost \cup {r \in Packages: hits[r] \cap failed # {}}
  /\ hits' = [r \in Packages |-> hits[r] \cap details]
  /\ Store(Packages \ lost')
  /\ phase' = "answered"
  /\ UNCHANGED <<client, served, chunk, page, pending, details, failed, broke, alone>>

\* The offline index answers each ref on its own; it may have none, or fail to
\* read the part a ref is in.
IndexAnswers ==
  /\ client = "index" /\ phase = "query"
  /\ \E bad \in SUBSET Packages:
       /\ lost' = bad /\ broke' = bad
       /\ hits' = [r \in Packages |-> IF r \in bad THEN {} ELSE served.listing[r]]
       /\ Store(Packages \ bad)
  /\ phase' = "answered"
  /\ UNCHANGED <<client, served, chunk, page, pending, details, failed, alone>>

-----------------------------------------------------------------------------
(* deps.dev.                                                                *)

\* What may come back, over all pages: in request order when there is one for
\* each request, and otherwise with some missing or repeated. A request that
\* collapsed onto an earlier one is echoed in the earlier spelling, and a
\* spelling of the service's own names no request.
Echoes(r) == {q \in Asked: Canon[q] = Canon[r]} \cup {"unknown"}
Responses ==
  LET n == Len(Plan[chunk])
      response == UNION {[of: {r}, echo: Echoes(r)]: r \in Asked}
  IN {s \in UNION {[1..m -> response]: m \in 0..(n + 1)}:
        Len(s) = n => \A i \in 1..n: s[i].of = Plan[chunk][i]}

\* The request each response answers: by position when the numbers agree, by the
\* echo otherwise.
Place(s) == IF Len(s) = Len(Plan[chunk]) THEN Plan[chunk] ELSE [i \in DOMAIN s |-> s[i].echo]

\* Mutant: a request without a response is a version nobody has seen.
AttributedShort(s) == \A i \in DOMAIN s: Place(s)[i] \in Asked

\* Every response can be placed, and every request has one.
Attributed(s) ==
  /\ \A i \in DOMAIN s: Place(s)[i] \in Asked
  /\ Asked \subseteq ToSet(Place(s))

Facts(r) == IF Canon[r] \in served.seen THEN {Canon[r]} ELSE {}

\* The last response placed with a request is what is known of it.
Resolved(s, r) ==
  LET own == {i \in DOMAIN s: Place(s)[i] = r}
  IN IF own = {} THEN {} ELSE Facts(s[CHOOSE i \in own: \A j \in own: j <= i].of)

DepsDevAnswers ==
  /\ client = "depsdev" /\ phase = "query"
  /\ \E s \in Responses:
       /\ Attributed(s)
       /\ hits' = [r \in Packages |-> IF r \in Asked THEN Resolved(s, r) ELSE hits[r]]
  /\ IF chunk < Len(Plan)
     THEN NextChunk({}) /\ UNCHANGED stored
     ELSE phase' = "answered" /\ Store(Packages) /\ UNCHANGED <<chunk, page, pending>>
  /\ UNCHANGED <<client, served, details, failed, lost, broke, alone>>

\* A request or a page that fails, more pages than are read, or a response that
\* cannot be attributed: the call has no answer for anybody.
DepsDevFails ==
  /\ client = "depsdev" /\ phase = "query"
  /\ hits' = [r \in Packages |-> {}]
  /\ lost' = Packages
  /\ broke' = Packages
  /\ Store({})
  /\ phase' = "answered"
  /\ UNCHANGED <<client, served, chunk, page, pending, details, failed, alone>>

-----------------------------------------------------------------------------
(* npm's download counts.                                                   *)

Counts(r) == IF r \in served.counted THEN {r} ELSE {}

\* Mutant: after a failure what was not answered is left to be asked again.
StoreCounted == stored' = [r \in Packages |-> IF hits'[r] # {} THEN Answer(hits'[r]) ELSE Nothing]

\* A count is stored; a name without one takes the error of the batch, and
\* nothing when there was none.
StoreCounts == stored' = [r \in Packages |->
                  IF hits'[r] # {} THEN Answer(hits'[r]) ELSE IF broke' = {} THEN Nothing ELSE Error]

DownloadsAnswered ==
  /\ client = "downloads" /\ phase = "query"
  /\ hits' = [r \in Packages |-> IF r \in Asked THEN Counts(r) ELSE hits[r]]
  /\ UNCHANGED broke
  /\ IF chunk < Len(Plan)
     THEN NextChunk({}) /\ UNCHANGED stored
     ELSE phase' = "answered" /\ StoreCounts /\ UNCHANGED <<chunk, page, pending>>
  /\ UNCHANGED <<client, served, details, failed, lost, alone>>

\* The first request that fails ends the batch with what was read before it.
DownloadsFail ==
  /\ client = "downloads" /\ phase = "query"
  /\ UNCHANGED hits
  /\ broke' = Asked
  /\ StoreCounts
  /\ phase' = "answered"
  /\ UNCHANGED <<client, served, chunk, page, pending, details, failed, lost, alone>>

\* A check asks for the count of a name nothing is stored of.
AskAlone(r) ==
  /\ client = "downloads" /\ phase = "answered"
  /\ stored[r] = Nothing
  /\ alone' = alone \cup {r}
  /\ \E ok \in BOOLEAN: stored' = [stored EXCEPT ![r] = IF ok /\ Counts(r) # {} THEN Answer(Counts(r)) ELSE Error]
  /\ UNCHANGED <<client, served, phase, chunk, page, pending, hits, details, failed, lost, broke>>

-----------------------------------------------------------------------------

\* The run ends while a client asks: nothing is stored.
Cancel ==
  /\ phase \in {"query", "details"}
  /\ phase' = "cancelled"
  /\ UNCHANGED <<client, served, chunk, page, pending, hits, details, failed, lost, stored, broke, alone>>

Next ==
  \/ QueryPage \/ QueryFails
  \/ DetailRead \/ DetailFails \/ DetailNotRequested \/ Assemble
  \/ IndexAnswers
  \/ DepsDevAnswers \/ DepsDevFails
  \/ DownloadsAnswered \/ DownloadsFail
  \/ \E r \in Packages: AskAlone(r)
  \/ Cancel

Spec == Init /\ [][Next]_vars

-----------------------------------------------------------------------------
(* Correctness.                                                             *)

Holds(r) ==
  CASE client \in {"osv", "index"} ->
         {i \in served.listing[r]: served.status[i] = "current" \/ (served.status[i] # "withdrawn" /\ i \in Malicious)}
    [] client = "depsdev" -> Facts(r)
    [] client = "downloads" -> Counts(r)

\* What the loader keeps as an answer is all its service holds of that package and
\* nothing of another: no page, record or response that went missing makes a short
\* list, a version deps.dev "has never seen" or a count of nobody's (osv.go: a
\* failed chunk "loses only its own refs"; depsdev.go: "Found false is never the
\* result of a missing or misplaced response"). A malicious entry may be told of
\* a record that was withdrawn, where the record itself could not be read.
AnsweredIsWhole ==
  \A r \in Packages: stored[r].kind = "answer" =>
    /\ Holds(r) \subseteq stored[r].of
    /\ \A x \in stored[r].of \ Holds(r):
         client = "osv" /\ x \in served.listing[r] \cap Malicious /\ (x \in broke \/ ~Requested)

\* A package is without an answer only for a failure of a request that concerned
\* it: its own batch, or an advisory it lists, requested or given up on.
LossIsLocal ==
  client \in {"osv", "index"} => \A r \in Packages:
    stored[r] = Error => r \in broke \/ served.listing[r] \cap failed # {}

\* A failed batch is not asked again name by name (loader.go: "one failed batch
\* used to become one request per package").
NoStorm == broke # {} => alone = {}

\* Every answer is whole, and what has none lost it to a failure of its own that
\* nothing was made worse by: the three statements above of one batched call.
AnsweredOrLost == AnsweredIsWhole /\ LossIsLocal /\ NoStorm

=============================================================================
