---------------------------- MODULE ClientsProofs ---------------------------
(***************************************************************************)
(* The clients for any number of packages, callers, requests and batches,  *)
(* whatever their services answer and whichever of their requests fail:    *)
(* those that answer for many packages at once (Batches), those that ask   *)
(* several requests of one version (Registries), and the programs that run *)
(* another one and go by what it wrote (Hosts).                            *)
(***************************************************************************)
EXTENDS Batches, Registries, Hosts, FiniteSetTheorems, SequenceTheorems, WellFoundedInduction, TLAPS

(* A set of natural numbers that is not empty has a least one.              *)
LEMMA Least ==
  ASSUME NEW S \in SUBSET Nat, S # {}
  PROVE  \E i \in S : \A j \in S : i <= j
<1> DEFINE R == {ss \in Nat \X Nat : ss[1] < ss[2]}
<1>1. IsWellFoundedOn(R, Nat)
  BY NatLessThanWellFounded, Zenon DEF OpToRel
<1>2. PICK i \in S : \A j \in S : ~(<<j, i>> \in R)
  <2> HIDE DEF R
  <2> QED
    BY <1>1, WFMin
<1>3. \A j \in S : ~(j < i)
  BY <1>2
<1> QED
  BY <1>3

(* One that is bounded has a greatest one.                                  *)
LEMMA Greatest ==
  ASSUME NEW n \in Nat, NEW S \in SUBSET 1..n, S # {}
  PROVE  \E i \in S : \A j \in S : j <= i
<1> DEFINE T == {k \in Nat : n - k \in S}
<1>1. T # {}
  <2>1. PICK i \in S : TRUE
    OBVIOUS
  <2>2. n - i \in Nat /\ n - (n - i) = i
    BY <2>1
  <2> QED
    BY <2>1, <2>2
<1>2. PICK k \in T : \A m \in T : k <= m
  <2>1. T \in SUBSET Nat
    OBVIOUS
  <2> HIDE DEF T
  <2> QED
    BY <1>1, <2>1, Least
<1>3. ASSUME NEW j \in S
      PROVE  j <= n - k
  <2>1. n - j \in Nat /\ n - (n - j) = j
    OBVIOUS
  <2>2. n - j \in T
    BY <2>1
  <2> QED
    BY <1>2, <2>2
<1> QED
  BY <1>2, <1>3

(* Things in numbered groups of m: each is in the group of its number.      *)
LEMMA GroupOf ==
  ASSUME NEW m \in Nat \ {0}, NEW i \in Nat \ {0}, NEW n \in Nat, i <= n
  PROVE  LET k == (i + m - 1) \div m
         IN /\ k \in 1..((n + m - 1) \div m)
            /\ (k - 1) * m + 1 <= i /\ i <= k * m
<1> QED
  OBVIOUS

-----------------------------------------------------------------------------
(* Batches. Of each package the query client has the whole list, or has     *)
(* lost it, or has yet to ask: in this batch or in a later one.             *)

Later(r) == \E k \in (chunk + 1)..Len(Plan) : r \in ToSet(Plan[k])

AskingInv ==
  phase = "query" /\ client \in {"osv", "depsdev"} =>
    chunk \in 1..Len(Plan) /\ pending \subseteq Asked

OsvLists ==
  /\ \A r \in Packages : hits[r] \subseteq served.listing[r]
  /\ phase = "query" =>
       /\ \A r \in Packages : r \in lost \/ hits[r] = served.listing[r] \/ r \in pending \/ Later(r)
       /\ details = {} /\ failed = {}
  /\ phase = "details" => \A r \in Packages : r \in lost \/ hits[r] = served.listing[r]

(* Of each advisory that is listed the record was read, has failed, was     *)
(* dropped or is still to be asked for.                                     *)
Dropped(i) == served.status[i] = "withdrawn" \/ (served.status[i] = "gone" /\ i \notin Malicious)
Current(i) == served.status[i] = "current" \/ (served.status[i] # "withdrawn" /\ i \in Malicious)

OsvDetails ==
  /\ IsFiniteSet(failed)
  /\ \A i \in details : Current(i) \/ (i \in Malicious /\ (i \in broke \/ ~Requested))
  /\ phase = "details" =>
       /\ pending \subseteq ToSet(Ids)
       /\ \A r \in Packages : \A i \in hits[r] : i \in pending \cup details \cup failed \/ Dropped(i)
       /\ lost \subseteq broke
  /\ phase = "query" => lost \subseteq broke

OsvInv == client = "osv" => served \in Services.osv /\ OsvLists /\ OsvDetails

DepsDevInv ==
  client = "depsdev" /\ phase = "query" =>
    \A r \in Packages : hits[r] = Facts(r) \/ \E k \in chunk..Len(Plan) : r \in ToSet(Plan[k])

DownloadsInv ==
  client = "downloads" =>
    /\ \A r \in Packages : hits[r] \in {{}, Counts(r)}
    /\ phase # "answered" => broke = {}
    /\ phase = "answered" /\ broke # {} => \A r \in Packages : stored[r] # Nothing

BatchesIInv ==
  /\ client \in {"osv", "index", "depsdev", "downloads"} /\ served \in Services[client]
  /\ hits = [r \in Packages |-> hits[r]] /\ stored = [r \in Packages |-> stored[r]]
  /\ phase # "answered" => alone = {} /\ stored = [r \in Packages |-> Nothing]
  /\ AskingInv /\ OsvInv /\ DepsDevInv /\ DownloadsInv
  /\ AnsweredIsWhole /\ LossIsLocal /\ NoStorm

(* Every element of a sequence that is cut into batches is in one of them.  *)
LEMMA EveryoneIsAsked ==
  ASSUME NEW S, NEW s \in Seq(S), NEW r \in ToSet(s)
  PROVE  /\ Len(ChunksOf(s)) \in Nat
         /\ \E k \in 1..Len(ChunksOf(s)) : r \in ToSet(ChunksOf(s)[k])
<1> DEFINE n == (Len(s) + ChunkSize - 1) \div ChunkSize
           Upto(k) == IF k * ChunkSize < Len(s) THEN k * ChunkSize ELSE Len(s)
           From(k) == (k - 1) * ChunkSize + 1
<1>1. ChunkSize \in Nat \ {0} /\ Len(s) \in Nat /\ DOMAIN s = 1..Len(s)
  BY BatchesAssumption
<1>2. PICK i \in 1..Len(s) : r = s[i]
  BY <1>1 DEF ToSet
<1>3. PICK k \in 1..n : From(k) <= i /\ i <= k * ChunkSize
  <2> DEFINE k == (i + ChunkSize - 1) \div ChunkSize
  <2>1. k \in 1..n /\ (k - 1) * ChunkSize + 1 <= i /\ i <= k * ChunkSize
    BY <1>1, <1>2, GroupOf
  <2> HIDE DEF k, n
  <2> QED
    BY <2>1
<1>4. ChunksOf(s) = [j \in 1..n |-> SubSeq(s, From(j), Upto(j))]
  BY DEF ChunksOf
<1>5. n \in Nat
  BY <1>1
<1> HIDE DEF n
<1>6. Len(ChunksOf(s)) = n /\ ChunksOf(s)[k] = SubSeq(s, From(k), Upto(k))
  <2> DEFINE c == ChunksOf(s)
  <2>1. c = [j \in 1..n |-> SubSeq(s, From(j), Upto(j))]
    BY <1>4
  <2> HIDE DEF c, From, Upto
  <2> DEFINE T == {SubSeq(s, From(j), Upto(j)) : j \in 1..n}
  <2>2. c \in [1..n -> T] /\ c[k] = SubSeq(s, From(k), Upto(k))
    BY <2>1
  <2> HIDE DEF T
  <2>3. c \in Seq(T) /\ DOMAIN c = 1..n
    BY <1>5, <2>2
  <2>4. Len(c) = n
    BY <1>5, <2>3
  <2> QED
    BY <2>2, <2>4 DEF c
<1>7. From(k) \in 1..Len(s) /\ Upto(k) \in 1..Len(s) /\ From(k) <= i /\ i <= Upto(k)
  <2>1. k * ChunkSize \in Nat /\ (k - 1) * ChunkSize \in Nat
    BY <1>1, <1>3, <1>5
  <2> DEFINE a == k * ChunkSize
             b == (k - 1) * ChunkSize
  <2> HIDE DEF a, b
  <2>2. b + 1 <= i /\ i <= a /\ a \in Nat /\ b \in Nat
    BY <1>3, <2>1 DEF a, b
  <2>3. b + 1 \in 1..Len(s) /\ (IF a < Len(s) THEN a ELSE Len(s)) \in 1..Len(s)
        /\ i <= (IF a < Len(s) THEN a ELSE Len(s))
    BY <1>1, <1>2, <2>2
  <2> QED
    BY <1>3, <2>3 DEF a, b
<1> DEFINE f == From(k)
           u == Upto(k)
<1>8. f \in 1..Len(s) /\ u \in 1..Len(s) /\ f <= i /\ i <= u
  BY <1>7
<1> HIDE DEF f, u, From, Upto
<1>9. (i - f + 1) \in DOMAIN SubSeq(s, f, u) /\ SubSeq(s, f, u)[i - f + 1] = s[i]
  BY <1>1, <1>2, <1>8
<1> QED
  BY <1>2, <1>3, <1>5, <1>6, <1>9 DEF ToSet, f, u

LEMMA PlanCovers ==
  ASSUME client \in {"osv", "depsdev"}
  PROVE  /\ Plan = ChunksOf(Refs) /\ 1 \in 1..Len(Plan) /\ Len(Plan) \in Nat
         /\ \A r \in Packages : \E k \in 1..Len(Plan) : r \in ToSet(Plan[k])
<1>1. Plan = ChunksOf(Refs)
  BY DEF Plan
<1>2. Refs \in Seq(Packages) /\ Refs # <<>> /\ Packages = ToSet(Refs)
  BY BatchesAssumption DEF Packages
<1>3. \A r \in Packages : Len(Plan) \in Nat /\ \E k \in 1..Len(Plan) : r \in ToSet(Plan[k])
  <2> HIDE DEF Packages
  <2> QED
    BY <1>1, <1>2, EveryoneIsAsked
<1>4. Refs[1] \in Packages
  BY <1>2 DEF ToSet
<1>5. PICK k \in 1..Len(Plan) : Refs[1] \in ToSet(Plan[k])
  BY <1>3, <1>4
<1> QED
  BY <1>1, <1>3, <1>4, <1>5

(* Going on to the next batch.                                              *)
LEMMA NextChunkAsks ==
  ASSUME client \in {"osv", "depsdev"}, chunk \in 1..Len(Plan), UNCHANGED client, NEW after, NextChunk(after)
  PROVE  /\ phase' = "query" => /\ chunk' \in 1..Len(Plan') /\ pending' \subseteq Asked'
                                /\ \A r : Later(r) => r \in pending' \/ Later(r)'
         /\ phase' # "query" => phase' = "details" /\ pending' = after /\ \A r : ~Later(r)
<1>1. Plan' = Plan /\ Len(Plan) \in Nat
  BY PlanCovers DEF Plan
<1>2. CASE chunk < Len(Plan)
  <2>1. chunk' = chunk + 1 /\ phase' = "query" /\ pending' = ToSet(Plan[chunk + 1]) /\ chunk + 1 \in 1..Len(Plan)
    BY <1>1, <1>2 DEF NextChunk
  <2>2. pending' = Asked'
    BY <1>1, <2>1 DEF Asked
  <2>3. ASSUME NEW r, NEW k \in (chunk + 1)..Len(Plan), r \in ToSet(Plan[k])
        PROVE  r \in pending' \/ k \in (chunk' + 1)..Len(Plan)
    <3>1. CASE k = chunk + 1
      BY <2>1, <2>3, <3>1
    <3>2. CASE k # chunk + 1
      BY <1>1, <2>1, <2>3, <3>2
    <3> QED
      BY <3>1, <3>2
  <2> QED
    BY <1>1, <2>1, <2>2, <2>3 DEF Later
<1>3. CASE ~(chunk < Len(Plan))
  <2>1. phase' = "details" /\ pending' = after /\ (chunk + 1)..Len(Plan) = {}
    BY <1>1, <1>3 DEF NextChunk
  <2> QED
    BY <2>1 DEF Later
<1> QED
  BY <1>2, <1>3

(* A step of a call that goes on.                                           *)
LEMMA UnansweredStep ==
  ASSUME BatchesIInv, phase # "answered", phase' # "answered", UNCHANGED <<client, served, stored, alone>>,
         hits' = [r \in Packages |-> hits'[r]], AskingInv', OsvInv', DepsDevInv', DownloadsInv'
  PROVE  BatchesIInv'
<1>1. stored' = [r \in Packages |-> Nothing] /\ alone' = {}
  BY DEF BatchesIInv
<1>2. AnsweredIsWhole' /\ LossIsLocal' /\ NoStorm'
  BY <1>1 DEF AnsweredIsWhole, LossIsLocal, NoStorm, Nothing, Error
<1> QED
  BY <1>1, <1>2 DEF BatchesIInv, Services

LEMMA InitBatches == Init => BatchesIInv
<1> SUFFICES ASSUME Init PROVE BatchesIInv
  OBVIOUS
<1>1. /\ client \in {"osv", "index", "depsdev", "downloads"} /\ served \in Services[client]
      /\ hits = [r \in Packages |-> {}] /\ stored = [r \in Packages |-> Nothing]
      /\ phase = "query" /\ chunk = 1 /\ pending = Asked
      /\ details = {} /\ failed = {} /\ lost = {} /\ broke = {} /\ alone = {}
  BY DEF Init, Services, Asked
<1>2. AnsweredIsWhole /\ LossIsLocal /\ NoStorm
  BY <1>1 DEF AnsweredIsWhole, LossIsLocal, NoStorm, Nothing, Error
<1>3. AskingInv
  BY <1>1, PlanCovers DEF AskingInv
<1>4. ASSUME client \in {"osv", "depsdev"}, NEW r \in Packages
      PROVE  \E k \in chunk..Len(Plan) : r \in ToSet(Plan[k])
  BY <1>1, <1>4, PlanCovers
<1>5. OsvInv
  <2> SUFFICES ASSUME client = "osv" PROVE served \in Services.osv /\ OsvLists /\ OsvDetails
    BY DEF OsvInv
  <2>1. \A r \in Packages : r \in pending \/ Later(r)
    <3> SUFFICES ASSUME NEW r \in Packages PROVE r \in pending \/ Later(r)
      OBVIOUS
    <3>1. PICK k \in chunk..Len(Plan) : r \in ToSet(Plan[k])
      BY <1>4
    <3>2. k = chunk \/ k \in (chunk + 1)..Len(Plan)
      BY <1>1, PlanCovers
    <3> QED
      BY <1>1, <3>1, <3>2 DEF Later, Asked
  <2>2. served \in Services.osv
    BY <1>1
  <2>3. OsvLists
    BY <1>1, <2>1 DEF OsvLists
  <2>4. OsvDetails
    BY <1>1, FS_EmptySet DEF OsvDetails
  <2> QED
    BY <2>2, <2>3, <2>4
<1>6. DepsDevInv
  BY <1>4 DEF DepsDevInv
<1>7. DownloadsInv
  BY <1>1 DEF DownloadsInv
<1> QED
  BY <1>1, <1>2, <1>3, <1>5, <1>6, <1>7 DEF BatchesIInv

(* A step of OSV's query, which only adds what is listed or loses a ref.    *)
LEMMA OsvQueryStep ==
  ASSUME BatchesIInv, client = "osv", phase = "query", UNCHANGED <<client, served, details, failed, stored, alone>>,
         hits' = [r \in Packages |-> hits'[r]], broke \subseteq broke', lost' \subseteq broke',
         \A r \in Packages : hits'[r] \subseteq served.listing[r],
         \/ /\ phase' = "query" /\ AskingInv'
            /\ \A r \in Packages : r \in lost' \/ hits'[r] = served.listing[r] \/ r \in pending' \/ Later(r)'
         \/ /\ phase' = "details" /\ pending' = ListedIds
            /\ \A r \in Packages : r \in lost' \/ hits'[r] = served.listing[r]
  PROVE  BatchesIInv'
<1>1. served \in Services.osv /\ OsvLists /\ OsvDetails /\ details = {} /\ failed = {}
  BY DEF BatchesIInv, OsvInv, OsvLists
<1>2. served.listing \in Listings
  BY <1>1 DEF Services
<1>3. served.listing \in [Packages -> SUBSET ToSet(Ids)]
  BY <1>2, BatchesAssumption
<1>4. AskingInv'
  BY DEF AskingInv
<1>5. OsvLists'
  BY <1>1 DEF OsvLists
<1>6. OsvDetails'
  <2>1. ListedIds \subseteq ToSet(Ids) /\ \A r \in Packages : hits'[r] \subseteq ListedIds
    BY <1>3 DEF ListedIds
  <2> HIDE DEF ListedIds
  <2>2. phase' = "details" => /\ pending' \subseteq ToSet(Ids)
                              /\ \A r \in Packages : \A i \in hits'[r] : i \in pending'
    BY <2>1
  <2> QED
    BY <1>1, <2>2 DEF OsvDetails
<1>7. OsvInv' /\ DepsDevInv' /\ DownloadsInv'
  BY <1>1, <1>5, <1>6 DEF OsvInv, DepsDevInv, DownloadsInv, Services
<1> QED
  BY <1>4, <1>7, UnansweredStep

LEMMA QueryPageStep ==
  ASSUME BatchesIInv, QueryPage
  PROVE  BatchesIInv'
<1>1. /\ client = "osv" /\ phase = "query" /\ UNCHANGED <<client, served, details, failed, lost, stored, broke, alone>>
      /\ OsvLists /\ OsvDetails /\ AskingInv
  BY DEF QueryPage, BatchesIInv, OsvInv
<1>2. PICK part \in [pending -> SUBSET ToSet(Ids)] :
        /\ \A r \in pending : part[r] \subseteq Unlisted(r)
        /\ hits' = [r \in Packages |-> IF r \in pending THEN hits[r] \cup part[r] ELSE hits[r]]
        /\ LET more == {r \in pending : part[r] # Unlisted(r)}
           IN IF more = {} THEN NextChunk(ListedIds)
              ELSE pending' = more /\ page' = page + 1 /\ UNCHANGED <<chunk, phase>>
  BY DEF QueryPage
<1> DEFINE more == {r \in pending : part[r] # Unlisted(r)}
<1>3. \A r \in Packages : hits'[r] \subseteq served.listing[r]
  BY <1>1, <1>2 DEF OsvLists, Unlisted
<1>4. \A r \in Packages : r \in pending \ more => hits'[r] = served.listing[r]
  BY <1>1, <1>2 DEF OsvLists, Unlisted
<1>5. \A r \in Packages : r \notin pending => hits'[r] = hits[r]
  BY <1>2
<1>6. \A r \in Packages : r \in lost \/ hits'[r] = served.listing[r] \/ r \in more \/ Later(r)
  BY <1>1, <1>2, <1>3, <1>4, <1>5 DEF OsvLists
<1>7. lost \subseteq broke /\ chunk \in 1..Len(Plan) /\ pending \subseteq Asked
  BY <1>1 DEF OsvLists, OsvDetails, AskingInv
<1>8. hits' = [r \in Packages |-> hits'[r]]
  BY <1>2
<1> HIDE DEF more
<1>9. CASE more = {}
  <2>1. NextChunk(ListedIds)
    BY <1>2, <1>9 DEF more
  <2> HIDE DEF ListedIds
  <2>2. /\ phase' = "query" => AskingInv' /\ \A r \in Packages : Later(r) => r \in pending' \/ Later(r)'
        /\ phase' # "query" => phase' = "details" /\ pending' = ListedIds /\ \A r \in Packages : ~Later(r)
    BY <1>1, <1>7, <2>1, NextChunkAsks DEF AskingInv
  <2>3. \A r \in Packages : r \in lost' \/ hits'[r] = served.listing[r] \/ Later(r)
    BY <1>1, <1>6, <1>9
  <2> QED
    BY <1>1, <1>3, <1>7, <1>8, <2>2, <2>3, OsvQueryStep
<1>10. CASE more # {}
  <2>1. pending' = more /\ UNCHANGED <<chunk, phase>> /\ more \subseteq pending
    BY <1>2, <1>10 DEF more
  <2>2. AskingInv' /\ \A r \in Packages : Later(r) <=> Later(r)'
    BY <1>1, <1>7, <2>1 DEF AskingInv, Asked, Later, Plan
  <2> QED
    BY <1>1, <1>3, <1>6, <1>7, <1>8, <2>1, <2>2, OsvQueryStep
<1> QED
  BY <1>9, <1>10

LEMMA QueryFailsStep ==
  ASSUME BatchesIInv, QueryFails
  PROVE  BatchesIInv'
<1>1. /\ client = "osv" /\ phase = "query" /\ UNCHANGED <<client, served, details, failed, stored, alone>>
      /\ hits' = [r \in Packages |-> IF r \in Asked THEN {} ELSE hits[r]]
      /\ lost' = lost \cup Asked /\ broke' = broke \cup Asked /\ NextChunk(ListedIds)
      /\ OsvLists /\ OsvDetails /\ AskingInv
  BY DEF QueryFails, LoseChunk, BatchesIInv, OsvInv
<1>2. lost \subseteq broke /\ chunk \in 1..Len(Plan) /\ pending \subseteq Asked
  BY <1>1 DEF OsvLists, OsvDetails, AskingInv
<1>3. \A r \in Packages : hits'[r] \subseteq served.listing[r]
  BY <1>1 DEF OsvLists
<1>4. \A r \in Packages : r \in lost' \/ hits'[r] = served.listing[r] \/ Later(r)
  BY <1>1, <1>2 DEF OsvLists
<1> HIDE DEF ListedIds
<1>5. /\ phase' = "query" => AskingInv' /\ \A r \in Packages : Later(r) => r \in pending' \/ Later(r)'
      /\ phase' # "query" => phase' = "details" /\ pending' = ListedIds /\ \A r \in Packages : ~Later(r)
  BY <1>1, <1>2, NextChunkAsks DEF AskingInv
<1> QED
  BY <1>1, <1>2, <1>3, <1>4, <1>5, OsvQueryStep

(* The advisory that is asked for next is one of those still to ask for.    *)
LEMMA DueIsPending ==
  ASSUME pending \subseteq ToSet(Ids), pending # {}
  PROVE  DueId \in pending
<1> DEFINE due == {i \in DOMAIN Ids : Ids[i] \in pending}
<1>1. Ids \in Seq(ToSet(Ids))
  BY BatchesAssumption
<1>2. due \in SUBSET Nat
  BY <1>1
<1>3. due # {}
  BY DEF ToSet
<1>4. \E i \in due : \A j \in due : i <= j
  <2> HIDE DEF due
  <2> QED
    BY <1>2, <1>3, Least
<1>5. \E i \in DOMAIN Ids : Ids[i] \in pending /\ \A j \in DOMAIN Ids : Ids[j] \in pending => i <= j
  BY <1>4
<1> QED
  BY <1>5 DEF DueId

LEMMA DetailStep ==
  ASSUME BatchesIInv, DetailRead \/ DetailFails \/ DetailNotRequested
  PROVE  BatchesIInv'
<1> DEFINE i == DueId
<1>1. /\ client = "osv" /\ phase = "details" /\ pending # {}
      /\ UNCHANGED <<client, served, phase, chunk, page, hits, lost, stored, alone>>
      /\ pending' = pending \ {i} /\ broke \subseteq broke'
      /\ OsvLists /\ OsvDetails
  BY DEF DetailRead, DetailFails, DetailNotRequested, BatchesIInv, OsvInv
<1>2. i \in pending
  <2>1. pending \subseteq ToSet(Ids)
    BY <1>1 DEF OsvDetails
  <2> QED
    BY <1>1, <2>1, DueIsPending
<1>3. \/ details' = details \cup {i} /\ failed' = failed /\ (Current(i) \/ (i \in Malicious /\ (i \in broke' \/ ~Requested)))
      \/ details' = details /\ failed' = failed /\ Dropped(i)
      \/ details' = details /\ failed' = failed \cup {i}
  <2>1. CASE DetailRead
    <3>1. served.status[i] \in Statuses
      <4>1. served.status \in [ToSet(Ids) -> Statuses] /\ i \in ToSet(Ids)
        BY <1>1, <1>2 DEF BatchesIInv, OsvInv, OsvDetails, Services
      <4> HIDE DEF i
      <4> QED
        BY <4>1
    <3> QED
      BY <2>1, <3>1 DEF DetailRead, Current, Dropped, Statuses
  <2>2. CASE DetailFails \/ DetailNotRequested
    BY <2>2 DEF DetailFails, DetailNotRequested, NoRecord
  <2> QED
    BY <1>1, <2>1, <2>2
<1> HIDE DEF i
<1>4. IsFiniteSet(failed) /\ IsFiniteSet(failed') /\ (~Requested => ~Requested')
  <2>1. IsFiniteSet(failed) /\ (failed' = failed \/ failed' = failed \cup {i})
    BY <1>1, <1>3 DEF OsvDetails
  <2>2. IsFiniteSet(failed') /\ failed \subseteq failed'
    BY <2>1, FS_AddElement
  <2>3. Cardinality(failed) <= Cardinality(failed') /\ Cardinality(failed) \in Nat /\ Cardinality(failed') \in Nat
    BY <2>1, <2>2, FS_Subset, FS_CardinalityType
  <2> QED
    BY <2>1, <2>2, <2>3, BatchesAssumption DEF Requested
<1>5. OsvLists'
  BY <1>1 DEF OsvLists
<1>6. OsvDetails'
  <2>1. \A x \in details' : Current(x)' \/ (x \in Malicious /\ (x \in broke' \/ ~Requested'))
    BY <1>1, <1>3, <1>4 DEF OsvDetails, Current
  <2>2. \A r \in Packages : \A x \in hits'[r] : x \in pending' \cup details' \cup failed' \/ Dropped(x)'
    BY <1>1, <1>3 DEF OsvDetails, Dropped
  <2>3. pending' \subseteq ToSet(Ids) /\ lost' \subseteq broke'
    BY <1>1 DEF OsvDetails
  <2> QED
    BY <1>1, <1>4, <2>1, <2>2, <2>3 DEF OsvDetails
<1>7. OsvInv' /\ AskingInv' /\ DepsDevInv' /\ DownloadsInv' /\ hits' = [r \in Packages |-> hits'[r]]
  BY <1>1, <1>5, <1>6 DEF BatchesIInv, OsvInv, AskingInv, DepsDevInv, DownloadsInv, Services
<1> QED
  BY <1>1, <1>7, UnansweredStep

(* A step after which the call has its answers.                             *)
LEMMA AnsweredStep ==
  ASSUME BatchesIInv, phase # "answered", phase' = "answered", UNCHANGED <<client, served, alone>>,
         hits' = [r \in Packages |-> hits'[r]], stored' = [r \in Packages |-> stored'[r]],
         OsvInv', DownloadsInv', AnsweredIsWhole', LossIsLocal'
  PROVE  BatchesIInv'
<1>1. alone' = {} /\ AskingInv' /\ DepsDevInv'
  BY DEF BatchesIInv, AskingInv, DepsDevInv
<1>2. NoStorm'
  BY <1>1 DEF NoStorm
<1> QED
  BY <1>1, <1>2 DEF BatchesIInv, Services

LEMMA AssembleStep ==
  ASSUME BatchesIInv, Assemble
  PROVE  BatchesIInv'
<1>1. /\ client = "osv" /\ phase = "details" /\ pending = {}
      /\ UNCHANGED <<client, served, details, failed, broke, alone>> /\ phase' = "answered"
      /\ lost' = lost \cup {r \in Packages : hits[r] \cap failed # {}}
      /\ hits' = [r \in Packages |-> hits[r] \cap details]
      /\ stored' = [r \in Packages |-> IF r \in Packages \ lost' THEN Answer(hits'[r]) ELSE Error]
      /\ served \in Services.osv /\ OsvLists /\ OsvDetails
  BY DEF Assemble, Store, BatchesIInv, OsvInv
<1>2. ASSUME NEW r \in Packages, stored'[r].kind = "answer"
      PROVE  stored'[r].of = served.listing[r] \cap details /\ served.listing[r] \cap failed = {}
  <2>1. r \notin lost' /\ stored'[r] = Answer(hits'[r])
    BY <1>1, <1>2 DEF Error
  <2>2. hits[r] = served.listing[r] /\ hits[r] \cap failed = {}
    BY <1>1, <2>1 DEF OsvLists
  <2> QED
    BY <1>1, <2>1, <2>2 DEF Answer
<1>3. AnsweredIsWhole'
  <2> SUFFICES ASSUME NEW r \in Packages, stored'[r].kind = "answer"
               PROVE  /\ Holds(r)' \subseteq stored'[r].of
                      /\ \A x \in stored'[r].of \ Holds(r)' :
                           x \in served'.listing[r] \cap Malicious /\ (x \in broke' \/ ~Requested')
    BY <1>1 DEF AnsweredIsWhole
  <2>1. Holds(r)' = {i \in served.listing[r] : Current(i)}
    BY <1>1 DEF Holds, Current
  <2>2. stored'[r].of = served.listing[r] \cap details /\ served.listing[r] \cap failed = {} /\ hits[r] \subseteq served.listing[r]
    BY <1>1, <1>2 DEF OsvLists
  <2>3. hits[r] = served.listing[r]
    <3>1. r \notin lost
      BY <1>1 DEF Error
    <3> QED
      BY <1>1, <3>1 DEF OsvLists
  <2>4. \A i \in served.listing[r] : Current(i) => i \in details
    BY <1>1, <2>2, <2>3 DEF OsvDetails, Current, Dropped
  <2>5. \A i \in details : Current(i) \/ (i \in Malicious /\ (i \in broke' \/ ~Requested'))
    BY <1>1 DEF OsvDetails, Requested
  <2> QED
    BY <1>1, <2>1, <2>2, <2>4, <2>5
<1>4. LossIsLocal'
  <2> SUFFICES ASSUME NEW r \in Packages, stored'[r] = Error
               PROVE  r \in broke' \/ served'.listing[r] \cap failed' # {}
    BY DEF LossIsLocal
  <2>1. r \in lost'
    BY <1>1 DEF Error, Answer
  <2> QED
    BY <1>1, <2>1 DEF OsvDetails, OsvLists
<1>5. OsvInv'
  <2>1. OsvLists'
    BY <1>1 DEF OsvLists
  <2>2. OsvDetails'
    BY <1>1 DEF OsvDetails, Current, Requested
  <2> QED
    BY <1>1, <2>1, <2>2 DEF OsvInv, Services
<1>6. DownloadsInv'
  BY <1>1 DEF DownloadsInv
<1> QED
  BY <1>1, <1>3, <1>4, <1>5, <1>6, AnsweredStep

LEMMA IndexStep ==
  ASSUME BatchesIInv, IndexAnswers
  PROVE  BatchesIInv'
<1>1. PICK bad \in SUBSET Packages :
        /\ lost' = bad /\ broke' = bad
        /\ hits' = [r \in Packages |-> IF r \in bad THEN {} ELSE served.listing[r]]
        /\ stored' = [r \in Packages |-> IF r \in Packages \ bad THEN Answer(hits'[r]) ELSE Error]
  BY DEF IndexAnswers, Store
<1>2. client = "index" /\ phase # "answered" /\ phase' = "answered" /\ UNCHANGED <<client, served, failed, alone>>
  BY DEF IndexAnswers
<1>3. served \in Services.index
  BY <1>2 DEF BatchesIInv
<1>4. \A r \in Packages : \A i \in served.listing[r] : served.status[i] = "current"
  <2>1. served.listing \in Listings /\ served.status \in [ToSet(Ids) -> {"current"}]
    BY <1>3 DEF Services
  <2>2. served.listing \in [Packages -> SUBSET ToSet(Ids)]
    BY <2>1, BatchesAssumption
  <2> QED
    BY <2>1, <2>2
<1>5. AnsweredIsWhole'
  <2> SUFFICES ASSUME NEW r \in Packages, stored'[r].kind = "answer"
               PROVE  stored'[r].of = Holds(r)'
    BY <1>1 DEF AnsweredIsWhole
  <2>1. stored'[r].of = served.listing[r]
    BY <1>1 DEF Error, Answer
  <2>2. Holds(r)' = {i \in served.listing[r] : Current(i)}
    BY <1>2 DEF Holds, Current
  <2> QED
    BY <1>4, <2>1, <2>2 DEF Current
<1>6. LossIsLocal'
  BY <1>1 DEF LossIsLocal, Error, Answer
<1>7. OsvInv' /\ DownloadsInv'
  BY <1>2 DEF OsvInv, DownloadsInv
<1> QED
  BY <1>1, <1>2, <1>5, <1>6, <1>7, AnsweredStep

(* A batch is a sequence.                                                   *)
LEMMA BatchIsSeq ==
  ASSUME client = "depsdev", chunk \in 1..Len(Plan)
  PROVE  Len(Plan[chunk]) \in Nat /\ DOMAIN Plan[chunk] = 1..Len(Plan[chunk])
<1> DEFINE n == (Len(Refs) + ChunkSize - 1) \div ChunkSize
           upto(k) == IF k * ChunkSize < Len(Refs) THEN k * ChunkSize ELSE Len(Refs)
           from(k) == (k - 1) * ChunkSize + 1
<1>1. /\ ChunkSize \in Nat \ {0} /\ Refs \in Seq(Packages) /\ Len(Refs) \in Nat /\ DOMAIN Refs = 1..Len(Refs)
  BY BatchesAssumption
<1>2. Plan = [k \in 1..n |-> SubSeq(Refs, from(k), upto(k))]
  BY PlanCovers DEF ChunksOf
<1>3. n \in Nat
  BY <1>1
<1> HIDE DEF n
<1>4. chunk \in 1..n
  <2> DEFINE T == {SubSeq(Refs, from(k), upto(k)) : k \in 1..n}
             c == Plan
  <2>1. c \in [1..n -> T]
    BY <1>2
  <2> HIDE DEF T, c
  <2>2. c \in Seq(T) /\ DOMAIN c = 1..n
    BY <1>3, <2>1
  <2>3. Len(c) = n
    BY <1>3, <2>2
  <2> QED
    BY <2>3 DEF c
<1>5. Plan[chunk] = SubSeq(Refs, from(chunk), upto(chunk))
  BY <1>2, <1>4
<1>6. from(chunk) \in Int /\ upto(chunk) \in Int
  BY <1>1, <1>3, <1>4
<1> DEFINE f == from(chunk)
           u == upto(chunk)
<1>7. f \in Int /\ u \in Int /\ Plan[chunk] = SubSeq(Refs, f, u)
  BY <1>5, <1>6
<1> HIDE DEF f, u
<1>8. SubSeq(Refs, f, u) = [i \in 1..(u - f + 1) |-> Refs[i + f - 1]]
  BY <1>1, <1>7
<1>9. CASE u - f + 1 \in Nat
  <2> DEFINE m == u - f + 1
             T == {Refs[i + f - 1] : i \in 1..m}
             c == Plan[chunk]
  <2>1. m \in Nat /\ c \in [1..m -> T]
    BY <1>7, <1>8, <1>9
  <2> HIDE DEF m, T, c
  <2>2. c \in Seq(T)
    BY <2>1
  <2>3. Len(c) \in Nat /\ DOMAIN c = 1..Len(c)
    BY <2>2
  <2> QED
    BY <2>3 DEF c
<1>10. CASE u - f + 1 \notin Nat
  <2>1. u < f
    BY <1>7, <1>10
  <2>2. Plan[chunk] = <<>>
    BY <1>7, <2>1, SubSeqEmpty
  <2> QED
    BY <2>2
<1> QED
  BY <1>9, <1>10

(* Responses that can be attributed tell of each request what deps.dev      *)
(* knows of that package, in whatever spelling and order they come.         *)
LEMMA ResolvedIsItsOwn ==
  ASSUME client = "depsdev", chunk \in 1..Len(Plan), NEW s \in Responses, Attributed(s), NEW r \in Asked, r \in Packages
  PROVE  Resolved(s, r) = Facts(r)
<1> DEFINE n == Len(Plan[chunk])
           response == UNION {[of : {q}, echo : Echoes(q)] : q \in Asked}
           own == {i \in DOMAIN s : Place(s)[i] = r}
<1>1. PICK m \in 0..(n + 1) : s \in [1..m -> response]
  BY DEF Responses
<1>2. n \in Nat
  BY BatchIsSeq
<1>3. DOMAIN s = 1..m /\ m \in Nat /\ Len(s) = m
  <2> HIDE DEF response, n
  <2>1. m \in Nat
    BY <1>2
  <2>2. s \in Seq(response) /\ DOMAIN s = 1..m
    BY <1>1, <2>1
  <2> QED
    BY <2>1, <2>2
<1>4. own # {}
  <2>1. r \in ToSet(Place(s))
    BY DEF Attributed
  <2>2. DOMAIN Place(s) \subseteq DOMAIN s
    <3>1. CASE m = n
      <4>1. Place(s) = Plan[chunk] /\ DOMAIN Plan[chunk] = 1..n
        BY <1>3, <3>1, BatchIsSeq DEF Place
      <4> QED
        BY <1>3, <3>1, <4>1
    <3>2. CASE m # n
      BY <1>3, <3>2 DEF Place
    <3> QED
      BY <3>1, <3>2
  <2> QED
    BY <2>1, <2>2 DEF ToSet
<1>5. PICK i \in own : \A j \in own : j <= i
  <2>1. own \in SUBSET 1..m
    BY <1>3
  <2> HIDE DEF own
  <2> QED
    BY <1>3, <1>4, <2>1, Greatest
<1> DEFINE last == CHOOSE k \in own : \A j \in own : j <= k
<1>6. last \in own
  BY <1>5
<1>7. Resolved(s, r) = Facts(s[last].of)
  BY <1>4 DEF Resolved
<1>8. last \in 1..m /\ Place(s)[last] = r
  BY <1>3, <1>6
<1> HIDE DEF last, own
<1>9. CASE m = n
  <2>1. \A k \in 1..n : s[k].of = Plan[chunk][k]
    BY <1>3, <1>9 DEF Responses
  <2>2. s[last].of = r
    BY <1>3, <1>8, <1>9, <2>1 DEF Place
  <2> QED
    BY <1>7, <2>2
<1>10. CASE m # n
  <2>1. s[last].echo = r
    BY <1>3, <1>8, <1>10 DEF Place
  <2>2. s[last] \in response
    BY <1>1, <1>8
  <2>3. PICK q \in Asked : s[last] \in [of : {q}, echo : Echoes(q)]
    BY <2>2
  <2>4. s[last].of = q /\ r \in Echoes(q)
    BY <2>1, <2>3
  <2>5. Canon[q] = Canon[r]
    BY <2>4, BatchesAssumption DEF Echoes
  <2> QED
    BY <1>7, <2>4, <2>5 DEF Facts
<1> QED
  BY <1>9, <1>10

LEMMA DepsDevAnswersStep ==
  ASSUME BatchesIInv, DepsDevAnswers
  PROVE  BatchesIInv'
<1>1. PICK s \in Responses :
        /\ Attributed(s)
        /\ hits' = [r \in Packages |-> IF r \in Asked THEN Resolved(s, r) ELSE hits[r]]
  BY DEF DepsDevAnswers
<1>2. /\ client = "depsdev" /\ phase = "query"
      /\ UNCHANGED <<client, served, details, failed, lost, broke, alone>>
      /\ IF chunk < Len(Plan) THEN NextChunk({}) /\ UNCHANGED stored
         ELSE phase' = "answered" /\ stored' = [r \in Packages |-> IF r \in Packages THEN Answer(hits'[r]) ELSE Error]
      /\ AskingInv /\ DepsDevInv
  BY DEF DepsDevAnswers, Store, BatchesIInv
<1>3. chunk \in 1..Len(Plan) /\ Plan' = Plan /\ Len(Plan) \in Nat
  BY <1>2, PlanCovers DEF AskingInv, Plan
<1>4. \A r \in Packages : r \in Asked => hits'[r] = Facts(r)
  BY <1>1, <1>2, <1>3, ResolvedIsItsOwn
<1>5. \A r \in Packages : r \notin Asked => hits'[r] = hits[r]
  BY <1>1
<1>6. ASSUME NEW r \in Packages
      PROVE  hits'[r] = Facts(r) \/ \E k \in (chunk + 1)..Len(Plan) : r \in ToSet(Plan[k])
  <2>1. CASE r \in Asked \/ hits[r] = Facts(r)
    BY <1>4, <1>5, <2>1
  <2>2. CASE r \notin Asked /\ hits[r] # Facts(r)
    <3>1. PICK k \in chunk..Len(Plan) : r \in ToSet(Plan[k])
      BY <1>2, <2>2 DEF DepsDevInv
    <3>2. k # chunk
      BY <2>2, <3>1 DEF Asked
    <3> QED
      BY <1>3, <3>1, <3>2
  <2> QED
    BY <2>1, <2>2
<1>7. hits' = [r \in Packages |-> hits'[r]] /\ \A r : Facts(r)' = Facts(r)
  BY <1>1, <1>2 DEF Facts
<1>8. OsvInv' /\ DownloadsInv'
  BY <1>2 DEF OsvInv, DownloadsInv
<1>9. CASE chunk < Len(Plan)
  <2>1. chunk' = chunk + 1 /\ phase' = "query" /\ pending' = ToSet(Plan[chunk + 1]) /\ UNCHANGED stored
    BY <1>2, <1>9 DEF NextChunk
  <2>2. AskingInv' /\ DepsDevInv'
    BY <1>3, <1>6, <1>7, <1>9, <2>1 DEF AskingInv, Asked, DepsDevInv
  <2> QED
    BY <1>2, <1>7, <1>8, <2>1, <2>2, UnansweredStep
<1>10. CASE ~(chunk < Len(Plan))
  <2>1. phase' = "answered" /\ stored' = [r \in Packages |-> Answer(hits'[r])]
    BY <1>2, <1>10
  <2>2. \A r \in Packages : hits'[r] = Facts(r)
    BY <1>3, <1>6, <1>10
  <2>3. \A r : Holds(r)' = Facts(r)
    BY <1>2, <1>7 DEF Holds
  <2>4. AnsweredIsWhole'
    BY <2>1, <2>2, <2>3 DEF AnsweredIsWhole, Answer
  <2>5. LossIsLocal'
    BY <1>2 DEF LossIsLocal
  <2> QED
    BY <1>2, <1>7, <1>8, <2>1, <2>4, <2>5, AnsweredStep
<1> QED
  BY <1>9, <1>10

LEMMA DepsDevFailsStep ==
  ASSUME BatchesIInv, DepsDevFails
  PROVE  BatchesIInv'
<1>1. /\ client = "depsdev" /\ phase = "query" /\ phase' = "answered" /\ UNCHANGED <<client, served, alone>>
      /\ hits' = [r \in Packages |-> {}] /\ stored' = [r \in Packages |-> IF r \in {} THEN Answer(hits'[r]) ELSE Error]
  BY DEF DepsDevFails, Store
<1>2. AnsweredIsWhole' /\ LossIsLocal' /\ OsvInv' /\ DownloadsInv'
  BY <1>1 DEF AnsweredIsWhole, LossIsLocal, OsvInv, DownloadsInv, Error
<1> QED
  BY <1>1, <1>2, AnsweredStep

(* What is stored of the counts.                                            *)
LEMMA CountsStored ==
  ASSUME BatchesIInv, client = "downloads", phase = "query", phase' = "answered", StoreCounts,
         UNCHANGED <<client, served, alone>>, hits' = [r \in Packages |-> hits'[r]],
         \A r \in Packages : hits'[r] \in {{}, Counts(r)}
  PROVE  BatchesIInv'
<1>1. stored' = [r \in Packages |->
        IF hits'[r] # {} THEN Answer(hits'[r]) ELSE IF broke' = {} THEN Nothing ELSE Error]
  BY DEF StoreCounts
<1>2. \A r \in Packages : Counts(r)' = Counts(r) /\ Holds(r)' = Counts(r)
  BY DEF Counts, Holds
<1>3. AnsweredIsWhole'
  BY <1>1, <1>2 DEF AnsweredIsWhole, Answer, Nothing, Error
<1>4. LossIsLocal' /\ OsvInv'
  BY DEF LossIsLocal, OsvInv
<1>5. DownloadsInv'
  BY <1>1, <1>2 DEF DownloadsInv, Answer, Nothing, Error
<1> QED
  BY <1>1, <1>3, <1>4, <1>5, AnsweredStep

LEMMA DownloadsStep ==
  ASSUME BatchesIInv, DownloadsAnswered \/ DownloadsFail
  PROVE  BatchesIInv'
<1>1. /\ client = "downloads" /\ phase = "query" /\ UNCHANGED <<client, served, alone>>
      /\ hits = [r \in Packages |-> hits[r]] /\ broke = {}
      /\ \A r \in Packages : hits[r] \in {{}, Counts(r)}
  BY DEF DownloadsAnswered, DownloadsFail, BatchesIInv, DownloadsInv
<1>2. CASE DownloadsFail
  BY <1>1, <1>2, CountsStored DEF DownloadsFail
<1>3. CASE DownloadsAnswered
  <2>1. hits' = [r \in Packages |-> IF r \in Asked THEN Counts(r) ELSE hits[r]] /\ broke' = broke
    BY <1>3 DEF DownloadsAnswered
  <2>2. hits' = [r \in Packages |-> hits'[r]] /\ \A r \in Packages : hits'[r] \in {{}, Counts(r)}
    BY <1>1, <2>1
  <2>3. CASE phase' = "answered" /\ StoreCounts
    BY <1>1, <2>2, <2>3, CountsStored
  <2>4. CASE NextChunk({}) /\ UNCHANGED stored
    <3>1. phase' # "answered" /\ AskingInv' /\ OsvInv' /\ DepsDevInv'
      BY <1>1, <2>4 DEF NextChunk, AskingInv, OsvInv, DepsDevInv
    <3>2. DownloadsInv'
      BY <1>1, <2>1, <2>2, <3>1 DEF DownloadsInv, Counts
    <3> QED
      BY <1>1, <2>2, <2>4, <3>1, <3>2, UnansweredStep
  <2> QED
    BY <1>3, <2>3, <2>4 DEF DownloadsAnswered
<1> QED
  BY <1>2, <1>3

LEMMA AskAloneStep ==
  ASSUME BatchesIInv, NEW r \in Packages, AskAlone(r)
  PROVE  BatchesIInv'
<1>1. PICK ok \in BOOLEAN :
        stored' = [stored EXCEPT ![r] = IF ok /\ Counts(r) # {} THEN Answer(Counts(r)) ELSE Error]
  BY DEF AskAlone
<1>2. /\ client = "downloads" /\ phase = "answered" /\ stored[r] = Nothing
      /\ UNCHANGED <<client, served, phase, chunk, page, pending, hits, details, failed, lost, broke>>
  BY DEF AskAlone
<1>3. broke = {}
  BY <1>2 DEF BatchesIInv, DownloadsInv
<1>4. \A q \in Packages : stored'[q] = IF q = r THEN IF ok /\ Counts(r) # {} THEN Answer(Counts(r)) ELSE Error ELSE stored[q]
  BY <1>1 DEF BatchesIInv
<1>5. stored' = [q \in Packages |-> stored'[q]]
  BY <1>1 DEF BatchesIInv
<1>6. \A q \in Packages : Counts(q)' = Counts(q) /\ Holds(q)' = Counts(q) /\ Holds(q) = Counts(q)
  BY <1>2 DEF Counts, Holds
<1>7. AnsweredIsWhole'
  <2> SUFFICES ASSUME NEW q \in Packages, stored'[q].kind = "answer"
               PROVE  stored'[q].of = Counts(q)
    BY <1>6 DEF AnsweredIsWhole
  <2>1. CASE q = r
    BY <1>4, <2>1 DEF Answer, Error
  <2>2. CASE q # r
    BY <1>2, <1>4, <1>6, <2>2 DEF BatchesIInv, AnsweredIsWhole
  <2> QED
    BY <2>1, <2>2
<1>8. LossIsLocal' /\ OsvInv' /\ AskingInv' /\ DepsDevInv' /\ NoStorm'
  BY <1>2, <1>3 DEF LossIsLocal, OsvInv, AskingInv, DepsDevInv, NoStorm
<1>9. DownloadsInv'
  BY <1>2, <1>3, <1>6 DEF BatchesIInv, DownloadsInv
<1> QED
  BY <1>2, <1>5, <1>7, <1>8, <1>9 DEF BatchesIInv, Services

LEMMA CancelStep ==
  ASSUME BatchesIInv, Cancel
  PROVE  BatchesIInv'
<1>1. /\ phase \in {"query", "details"} /\ phase' = "cancelled"
      /\ UNCHANGED <<client, served, chunk, page, pending, hits, details, failed, lost, stored, broke, alone>>
  BY DEF Cancel
<1>2. AskingInv' /\ DepsDevInv'
  BY <1>1 DEF AskingInv, DepsDevInv
<1>3. OsvInv'
  <2>1. OsvLists => OsvLists'
    BY <1>1 DEF OsvLists
  <2>2. OsvDetails => OsvDetails'
    BY <1>1 DEF OsvDetails, Current, Requested
  <2> QED
    BY <1>1, <2>1, <2>2 DEF BatchesIInv, OsvInv, Services
<1>4. DownloadsInv' /\ hits' = [r \in Packages |-> hits'[r]]
  BY <1>1 DEF BatchesIInv, DownloadsInv, Counts
<1> QED
  BY <1>1, <1>2, <1>3, <1>4, UnansweredStep

LEMMA StepBatches == BatchesIInv /\ [Next]_vars => BatchesIInv'
<1> SUFFICES ASSUME BatchesIInv, [Next]_vars PROVE BatchesIInv'
  OBVIOUS
<1>1. CASE QueryPage \/ QueryFails
  BY <1>1, QueryPageStep, QueryFailsStep
<1>2. CASE DetailRead \/ DetailFails \/ DetailNotRequested \/ Assemble
  BY <1>2, DetailStep, AssembleStep
<1>3. CASE IndexAnswers \/ DepsDevAnswers \/ DepsDevFails
  BY <1>3, IndexStep, DepsDevAnswersStep, DepsDevFailsStep
<1>4. CASE DownloadsAnswered \/ DownloadsFail
  BY <1>4, DownloadsStep
<1>5. CASE \E r \in Packages : AskAlone(r)
  BY <1>5, AskAloneStep
<1>6. CASE Cancel
  BY <1>6, CancelStep
<1>7. CASE UNCHANGED vars
  <2>1. UNCHANGED <<client, served, phase, chunk, page, pending, hits, details, failed, lost, stored, broke, alone>>
    BY <1>7 DEF vars
  <2>2. AskingInv' /\ DepsDevInv' /\ DownloadsInv'
    BY <2>1 DEF BatchesIInv, AskingInv, DepsDevInv, DownloadsInv, Asked, Plan, DownloadPlan, Facts, Counts
  <2>3. OsvInv'
    <3> SUFFICES ASSUME client = "osv" PROVE OsvInv'
      BY <2>1 DEF OsvInv
    <3>1. OsvLists => OsvLists'
      <4>1. Plan' = Plan /\ chunk' = chunk
        BY <2>1 DEF Plan
      <4>2. \A r : Later(r)' <=> Later(r)
        BY <4>1, Zenon DEF Later
      <4> QED
        BY <2>1, <4>2 DEF OsvLists
    <3>2. OsvDetails => OsvDetails'
      BY <2>1 DEF OsvDetails, Current, Dropped, Requested
    <3> QED
      BY <2>1, <3>1, <3>2 DEF BatchesIInv, OsvInv, Services
  <2>4. AnsweredIsWhole' /\ LossIsLocal' /\ NoStorm'
    BY <2>1 DEF BatchesIInv, AnsweredIsWhole, LossIsLocal, NoStorm, Holds, Facts, Counts, Requested
  <2> QED
    BY <2>1, <2>2, <2>3, <2>4 DEF BatchesIInv, Services
<1> QED
  BY <1>1, <1>2, <1>3, <1>4, <1>5, <1>6, <1>7 DEF Next

(* Of a batched call every package has a whole answer or lost it to a       *)
(* request of its own (osv.go, depsdev.go, npm.go, loader.go), for every    *)
(* number of packages, advisories, pages and failures.                      *)
THEOREM BatchesAnsweredOrLost == Spec => []AnsweredOrLost
<1>1. BatchesIInv => AnsweredOrLost
  BY DEF BatchesIInv, AnsweredOrLost
<1> QED
  BY <1>1, InitBatches, StepBatches, PTL DEF Spec

-----------------------------------------------------------------------------
(* Registries. The request of a call that settles a facet: after it the     *)
(* facet is true, or unknown, or one of the two cases that read as zero.    *)

RegistryNames == {"npm", "verified", "pypi", "crates", "jsr"}
Facets == {"scripts", "provenance", "dependencies"}
SettledBy(f) ==
  CASE f = "scripts" -> IF registry = "crates" THEN 3 ELSE 1
    [] f = "provenance" -> IF \/ registry = "verified" /\ truth.attested
                              \/ registry = "pypi" /\ PreferredFile # {}
                              \/ registry = "jsr"
                           THEN 2 ELSE 1
    [] f = "dependencies" -> IF registry = "crates" THEN 2 ELSE IF registry = "jsr" THEN 4 ELSE 1

(* What a facet is before anything was read of it.                          *)
Zero == FALSE

Told(x, f) ==
  \/ x.info[f] = Truth[f]
  \/ f \in x.unknown
  \/ registry = "npm" /\ ~truth.understood
  \/ registry = "pypi" /\ f = "provenance" /\ ~ServesVersion

PackageDocuments == Seq([revision : Nat, listed : BOOLEAN])
Call == [op : Operations, asked : Nat, document : PackageDocuments, info : [Facets -> BOOLEAN], unknown : SUBSET (Facets \cup {"deprecated"}),
         result : {"", "outage", "notfound", "unsupported", "answer"}]

(* A document that does not list the version was served after it went.      *)
DocumentInv(doc) == doc \in PackageDocuments /\ (doc # <<>> /\ ~doc[1].listed => ~ServesVersion)

CallInv(x, k) ==
  /\ x \in Call
  /\ DocumentInv(x.document)
  /\ x.op = "info" => /\ \A f \in Facets : x.asked >= SettledBy(f) => Told(x, f)
                      /\ registry = "pypi" /\ x.asked <= 1 => x.info["provenance"] = Zero
                      /\ x.result = "answer" => \A f \in Facets : x.asked >= SettledBy(f)
  /\ x.result = "notfound" => IF x.op = "info" THEN ~ServesVersion ELSE ~ServesPackage
  /\ registry \in {"npm", "verified"} => /\ x.asked > 0 => x.document \in {<<>>, k}
                                         /\ x.op = "downloads" => x.document = <<>>

RegistriesIInv ==
  /\ registry \in RegistryNames /\ truth \in Truths[registry]
  /\ standing \in {"published", "unpublished", "gone"} /\ revision \in Nat
  /\ DocumentInv(kept)
  /\ calls = [c \in Callers |-> calls[c]]
  /\ \A c \in Callers : CallInv(calls[c], kept)

(* What a crate archive says of its build script once it is read as far as  *)
(* it has to be: there is one manifest, so nothing after it can tell more.  *)
LEMMA InspectTells ==
  ASSUME NEW s \in Archives, Inspect(s).manifest # {}
  PROVE  BuildScript(Inspect(s)) = BuildScript(SeenIn(s))
<1> DEFINE stops == {n \in 0..Len(s) : Settled(SeenIn(SubSeq(s, 1, n)))}
           stop == IF stops = {} THEN Len(s) ELSE CHOOSE n \in stops : \A m \in stops : n <= m
           p == SubSeq(s, 1, stop)
           Kinds == Manifests \cup {"build.rs", "other"}
<1>1. PICK n \in 0..MaxFiles : s \in [1..n -> Kinds]
  BY DEF Archives
<1>2. n \in Nat /\ s \in Seq(Kinds) /\ Len(s) = n /\ DOMAIN s = 1..n
  BY <1>1, RegistriesAssumption
<1>3. \A i, j \in DOMAIN s : s[i] \in Manifests /\ s[j] \in Manifests => i = j
  BY DEF Archives
<1>4. stop \in 0..n /\ (stops # {} => stop \in stops) /\ (stops = {} => stop = n)
  <2>1. CASE stops = {}
    BY <1>2, <2>1
  <2>2. CASE stops # {}
    <3>1. stops \in SUBSET Nat /\ stops \subseteq 0..n
      BY <1>2
    <3> HIDE DEF stops
    <3>2. \E i \in stops : \A j \in stops : i <= j
      BY <2>2, <3>1, Least
    <3> QED
      BY <2>2, <3>1, <3>2
  <2> QED
    BY <2>1, <2>2
<1>5. Inspect(s) = SeenIn(p)
  BY DEF Inspect
<1> HIDE DEF stop
<1>6. ToSet(p) \subseteq ToSet(s) /\ (stop = n => p = s)
  <2>1. p = [i \in 1..stop |-> s[i]]
    BY <1>2, <1>4
  <2>2. ToSet(p) = {s[i] : i \in 1..stop}
    BY <2>1 DEF ToSet
  <2>3. 1..stop \subseteq DOMAIN s
    BY <1>2, <1>4
  <2>4. stop = n => p = s
    BY <1>1, <1>2, <2>1
  <2> QED
    BY <2>2, <2>3, <2>4 DEF ToSet
<1>7. CASE stops = {}
  BY <1>4, <1>5, <1>6, <1>7
<1>8. CASE stops # {}
  <2> DEFINE a == ToSet(p)
             b == ToSet(s)
  <2>1. Settled(SeenIn(p)) /\ a \subseteq b
    BY <1>4, <1>6, <1>8
  <2>2. \A x, y \in b : x \in Manifests /\ y \in Manifests => x = y
    BY <1>3 DEF ToSet
  <2> HIDE DEF p
  <2>3. a \cap Manifests # {} /\ ("build.rs" \in a \/ a \cap Manifests # {"plain"})
    BY <2>1 DEF Settled, SeenIn
  <2> HIDE DEF a, b
  <2>4. a \cap Manifests = b \cap Manifests
    BY <2>1, <2>2, <2>3
  <2>5. "names" \in b <=> "names" \in a
    BY <2>4 DEF Manifests
  <2>6. "disables" \in b <=> "disables" \in a
    BY <2>4 DEF Manifests
  <2>7. "build.rs" \in b => "build.rs" \in a \/ "names" \in a \/ "disables" \in a
    BY <2>3 DEF Manifests
  <2>8. BuildScript(SeenIn(p)) <=> "disables" \notin a /\ ("names" \in a \/ "build.rs" \in a)
    BY DEF BuildScript, SeenIn, Manifests, a
  <2>9. BuildScript(SeenIn(s)) <=> "disables" \notin b /\ ("names" \in b \/ "build.rs" \in b)
    BY DEF BuildScript, SeenIn, Manifests, b
  <2>10. BuildScript(SeenIn(p)) <=> BuildScript(SeenIn(s))
    BY <2>1, <2>5, <2>6, <2>7, <2>8, <2>9
  <2>11. BuildScript(SeenIn(p)) \in BOOLEAN /\ BuildScript(SeenIn(s)) \in BOOLEAN
    BY DEF BuildScript
  <2> QED
    BY <1>5, <2>10, <2>11
<1> QED
  BY <1>7, <1>8

(* What there is to learn is a yes or a no.                                 *)
LEMMA TruthShape ==
  ASSUME registry \in RegistryNames, truth \in Truths[registry]
  PROVE  /\ Scripts \in BOOLEAN /\ Provenance \in BOOLEAN /\ Dependencies \in BOOLEAN
         /\ DOMAIN Truth = Facets /\ \A f \in Facets : Truth[f] \in BOOLEAN
         /\ Truth["scripts"] = Scripts /\ Truth["provenance"] = Provenance /\ Truth["dependencies"] = Dependencies
         /\ \A f \in Facets : SettledBy(f) \in 1..4
<1>1. Scripts \in BOOLEAN /\ Provenance \in BOOLEAN /\ Dependencies \in BOOLEAN
  <2>1. CASE registry = "npm"
    BY <2>1 DEF Truths, Scripts, Provenance, Dependencies
  <2>2. CASE registry = "verified"
    BY <2>2 DEF Truths, Scripts, Provenance, Dependencies
  <2>3. CASE registry = "pypi"
    BY <2>3 DEF Truths, Scripts, Provenance, Dependencies
  <2>4. CASE registry = "crates"
    BY <2>4 DEF Truths, Scripts, Provenance, Dependencies, BuildScript
  <2>5. CASE registry = "jsr"
    BY <2>5 DEF Truths, Scripts, Provenance, Dependencies
  <2> QED
    BY <2>1, <2>2, <2>3, <2>4, <2>5 DEF RegistryNames
<1>2. DOMAIN Truth = Facets /\ Truth["scripts"] = Scripts /\ Truth["provenance"] = Provenance /\ Truth["dependencies"] = Dependencies
  BY DEF Truth, Facets
<1>3. \A f \in Facets : SettledBy(f) \in 1..4
  BY DEF Facets, SettledBy
<1> QED
  BY <1>1, <1>2, <1>3 DEF Facets

(* The requests of a call that asks for a version.                          *)
LEMMA InfoRequests ==
  ASSUME registry \in RegistryNames, NEW c \in Callers, calls[c].asked \in Nat, NEW q, Asks(c, q)
  PROVE  /\ calls[c].op = "info" =>
              \/ q = "document" /\ registry # "pypi" /\ calls[c].asked = 0
              \/ q = "release" /\ registry = "pypi" /\ calls[c].asked = 0
              \/ q = "attestation" /\ registry = "verified" /\ truth.attested /\ calls[c].asked = 1
              \/ q = "provenance" /\ registry = "pypi" /\ PreferredFile # {} /\ calls[c].asked = 1
              \/ q = "dependencies" /\ registry = "crates" /\ calls[c].asked = 1
              \/ q = "archive" /\ registry = "crates" /\ calls[c].asked = 2
              \/ q = "details" /\ registry = "jsr" /\ calls[c].asked = 1
              \/ q = "record" /\ registry = "jsr" /\ calls[c].asked = 2
              \/ q = "optional dependencies" /\ registry = "jsr" /\ calls[c].asked = 3
         /\ calls[c].op \in Operations \ {"info"} =>
              /\ q \in {"count", "document", "owners", "project", "details", "record"}
              /\ registry \in {"npm", "verified"} =>
                   calls[c].asked = 0 /\ q = IF calls[c].op = "downloads" THEN "count" ELSE "document"
<1> DEFINE k == calls[c].asked
<1>1. k \in Nat /\ k < Len(Requests(calls[c].op)) /\ q = Requests(calls[c].op)[k + 1]
  BY DEF Asks, Due
<1> HIDE DEF k
<1>2. CASE registry = "npm"
  <2>1. Requests(calls[c].op) \in {<<"count">>, <<"document">>} /\ (calls[c].op = "info" => Requests(calls[c].op) = <<"document">>)
    BY <1>2 DEF Requests
  <2>2. Requests(calls[c].op) = IF calls[c].op = "downloads" THEN <<"count">> ELSE <<"document">>
    BY <1>2 DEF Requests
  <2> QED
    BY <1>1, <1>2, <2>1, <2>2 DEF k
<1>3. CASE registry = "verified"
  <2>1. /\ calls[c].op = "info" /\ truth.attested => Requests(calls[c].op) = <<"document", "attestation">>
        /\ calls[c].op = "info" /\ ~truth.attested => Requests(calls[c].op) = <<"document">>
        /\ calls[c].op # "info" =>
             Requests(calls[c].op) = IF calls[c].op = "downloads" THEN <<"count">> ELSE <<"document">>
    BY <1>3 DEF Requests
  <2> QED
    BY <1>1, <1>3, <2>1 DEF k
<1>4. CASE registry = "pypi"
  <2>1. /\ calls[c].op = "info" /\ PreferredFile = {} => Requests(calls[c].op) = <<"release">>
        /\ calls[c].op = "info" /\ PreferredFile # {} => Requests(calls[c].op) = <<"release", "provenance">>
        /\ calls[c].op # "info" => Requests(calls[c].op) \in {<<>>, <<"project">>}
    BY <1>4 DEF Requests
  <2> QED
    BY <1>1, <1>4, <2>1 DEF k
<1>5. CASE registry = "crates"
  <2>1. /\ calls[c].op = "info" => Requests(calls[c].op) = <<"document", "dependencies", "archive">>
        /\ calls[c].op # "info" => Requests(calls[c].op) \in {<<"owners">>, <<"document">>}
    BY <1>5 DEF Requests
  <2> QED
    BY <1>1, <1>5, <2>1 DEF k
<1>6. CASE registry = "jsr"
  <2>1. /\ calls[c].op = "info" => Requests(calls[c].op) = <<"document", "details", "record", "optional dependencies">>
        /\ calls[c].op \in Operations \ {"info"} =>
             Requests(calls[c].op) \in {<<"document", "details", "record">>, <<"owners">>, <<"count">>}
    BY <1>6 DEF Requests, Operations
  <2> DEFINE r == Requests(calls[c].op)
  <2>2. k < Len(r) /\ q = r[k + 1]
    BY <1>1
  <2> HIDE DEF r
  <2>3. CASE calls[c].op = "info"
    <3>1. r = <<"document", "details", "record", "optional dependencies">>
      BY <2>1, <2>3 DEF r
    <3>2. Len(r) = 4
      BY <3>1
    <3>3. k \in Nat /\ k < 4
      BY <1>1, <2>2, <3>2
    <3>4. k \in {0, 1, 2, 3}
      BY <3>3
    <3>5. r[1] = "document" /\ r[2] = "details" /\ r[3] = "record" /\ r[4] = "optional dependencies"
      BY <3>1
    <3>6. /\ k = 0 => q = "document"
          /\ k = 1 => q = "details"
          /\ k = 2 => q = "record"
          /\ k = 3 => q = "optional dependencies"
      <4>1. k = 0 => k + 1 = 1
        OBVIOUS
      <4>2. k = 1 => k + 1 = 2
        OBVIOUS
      <4>3. k = 2 => k + 1 = 3
        OBVIOUS
      <4>4. k = 3 => k + 1 = 4
        OBVIOUS
      <4> QED
        BY <2>2, <3>5, <4>1, <4>2, <4>3, <4>4
    <3> HIDE DEF r
    <3> QED
      BY <1>6, <2>3, <3>4, <3>6 DEF k
  <2>4. CASE calls[c].op \in Operations \ {"info"}
    <3>1. r \in {<<"document", "details", "record">>, <<"owners">>, <<"count">>}
      BY <2>1, <2>4 DEF r
    <3>2. q \in {"document", "details", "record", "owners", "count"}
      BY <1>1, <2>2, <3>1
    <3> QED
      BY <1>6, <2>4, <3>2
  <2> QED
    BY <2>3, <2>4
<1> QED
  BY <1>2, <1>3, <1>4, <1>5, <1>6 DEF RegistryNames

(* A step of one caller; the client may come to keep its first document.    *)
LEMMA CallerStep ==
  ASSUME RegistriesIInv, NEW c \in Callers, NEW x, calls' = [calls EXCEPT ![c] = x],
         UNCHANGED <<registry, truth, standing, revision>>,
         kept' = kept \/ (kept = <<>> /\ DocumentInv(kept')), CallInv(x, kept')
  PROVE  RegistriesIInv'
<1>1. \A d \in Callers : calls'[d] = IF d = c THEN x ELSE calls[d]
  BY DEF RegistriesIInv
<1>2. calls' = [d \in Callers |-> calls'[d]]
  BY DEF RegistriesIInv
<1>3. ASSUME NEW y, NEW k
      PROVE  CallInv(y, k)' <=> CallInv(y, k)
  <2>1. Truth' = Truth
    BY DEF Truth, Scripts, Provenance, Dependencies, PreferredFile
  <2>2. \A f : SettledBy(f)' = SettledBy(f)
    BY DEF SettledBy, PreferredFile
  <2>3. \A f : Told(y, f)' <=> Told(y, f)
    BY <2>1 DEF Told, ServesVersion
  <2> QED
    BY <2>2, <2>3 DEF CallInv, DocumentInv, ServesVersion, ServesPackage
<1>4. ASSUME NEW d \in Callers
      PROVE  CallInv(calls[d], kept')
  BY <1>4 DEF RegistriesIInv, CallInv
<1>5. ASSUME NEW d \in Callers
      PROVE  CallInv(calls[d], kept)'
  <2>1. CallInv(calls'[d], kept')
    <3>1. CASE d = c
      BY <1>1, <3>1
    <3>2. CASE d # c
      BY <1>1, <1>4, <3>2
    <3> QED
      BY <3>1, <3>2
  <2>2. PICK y, k : y = calls'[d] /\ k = kept'
    OBVIOUS
  <2>3. CallInv(y, k)
    BY <2>1, <2>2
  <2>4. CallInv(y, k)'
    BY <1>3, <2>3
  <2> QED
    BY <2>2, <2>4
<1>6. DocumentInv(kept)'
  BY DEF RegistriesIInv, DocumentInv, ServesVersion
<1> QED
  BY <1>2, <1>5, <1>6 DEF RegistriesIInv, Truths

LEMMA AskedIsCall ==
  ASSUME RegistriesIInv, NEW c \in Callers
  PROVE  /\ calls[c] \in Call /\ calls[c].asked \in Nat /\ calls[c].op \in Operations
         /\ CallInv(calls[c], kept)
         /\ \A f \in Facets : SettledBy(f) \in 1..4
  BY TruthShape DEF RegistriesIInv, CallInv, Call

(* What a call y has learnt, x, when it goes on to its next request.        *)
LearnsInv(y, x, k) ==
  /\ x \in Call /\ x.result = "" /\ x.op = y.op /\ x.asked = y.asked
  /\ DocumentInv(x.document)
  /\ registry \in {"npm", "verified"} => /\ x.document \in {<<>>, k}
                                         /\ x.op = "downloads" => x.document = <<>>
  /\ x.op = "info" => /\ \A f \in Facets : y.asked + 1 >= SettledBy(f) => Told(x, f)
                      /\ registry = "pypi" /\ y.asked = 0 => x.info["provenance"] = Zero

LEMMA LearnsKeeps ==
  ASSUME RegistriesIInv, NEW c \in Callers, NEW new, Learns(c, new), LearnsInv(calls[c], new, kept'),
         UNCHANGED <<registry, truth, standing, revision>>,
         kept' = kept \/ (kept = <<>> /\ DocumentInv(kept'))
  PROVE  RegistriesIInv'
<1>1. PICK n : n = calls[c].asked + 1
  OBVIOUS
<1>2. n \in Nat
  BY <1>1, AskedIsCall
<1> DEFINE x == [new EXCEPT !.asked = n]
<1>3. new \in Call /\ new.asked = calls[c].asked
  BY DEF LearnsInv
<1>4. calls' = [calls EXCEPT ![c] = x]
  BY <1>1, <1>3 DEF Learns
<1>5. /\ x \in Call /\ x.op = new.op /\ x.asked = n /\ x.document = new.document
      /\ x.info = new.info /\ x.unknown = new.unknown /\ x.result = new.result
  BY <1>2, <1>3 DEF Call
<1> HIDE DEF x
<1>6. \A f : Told(x, f) <=> Told(new, f)
  BY <1>5 DEF Told
<1>7. x.op = "info" => /\ \A f \in Facets : x.asked >= SettledBy(f) => Told(x, f)
                       /\ registry = "pypi" /\ x.asked <= 1 => x.info["provenance"] = Zero
  <2>1. x.op = "info" => /\ \A f \in Facets : n >= SettledBy(f) => Told(x, f)
                         /\ registry = "pypi" /\ calls[c].asked = 0 => x.info["provenance"] = Zero
    BY <1>1, <1>5, <1>6 DEF LearnsInv
  <2>2. n <= 1 => calls[c].asked = 0
    <3>1. calls[c].asked \in Nat
      BY AskedIsCall
    <3> QED
      BY <1>1, <3>1
  <2> QED
    BY <1>5, <2>1, <2>2
<1>8. CallInv(x, kept')
  BY <1>5, <1>7 DEF CallInv, LearnsInv
<1> QED
  BY <1>4, <1>8, CallerStep

(* A call ends with what it has.                                            *)
LEMMA EndsKeeps ==
  ASSUME RegistriesIInv, NEW c \in Callers, NEW result \in {"outage", "notfound", "unsupported", "answer"},
         Ends(c, result), Quiet,
         result = "notfound" => IF calls[c].op = "info" THEN ~ServesVersion ELSE ~ServesPackage,
         result = "answer" /\ calls[c].op = "info" => \A f \in Facets : calls[c].asked >= SettledBy(f)
  PROVE  RegistriesIInv'
<1> DEFINE x == [calls[c] EXCEPT !.result = result]
<1>1. calls' = [calls EXCEPT ![c] = x]
  BY DEF Ends
<1>2. CallInv(calls[c], kept) /\ calls[c] \in Call
  BY AskedIsCall
<1>3. /\ x \in Call /\ x.op = calls[c].op /\ x.asked = calls[c].asked /\ x.document = calls[c].document
      /\ x.info = calls[c].info /\ x.unknown = calls[c].unknown /\ x.result = result
  BY <1>2 DEF Call
<1> HIDE DEF x
<1>4. \A f : Told(x, f) <=> Told(calls[c], f)
  BY <1>3 DEF Told
<1>5. CallInv(x, kept)
  BY <1>2, <1>3, <1>4 DEF CallInv
<1> QED
  BY <1>1, <1>5, CallerStep DEF Quiet

LEMMA FailsStep ==
  ASSUME RegistriesIInv, NEW c \in Callers, Fails(c) \/ NotFound(c)
  PROVE  RegistriesIInv'
<1>1. CASE Fails(c)
  BY <1>1, EndsKeeps DEF Fails
<1>2. CASE NotFound(c)
  <2>1. ServesVersion => ServesPackage
    BY DEF ServesVersion, ServesPackage
  <2>2. (\E q \in {"release", "dependencies"} : Asks(c, q)) => calls[c].op = "info"
    BY InfoRequests, AskedIsCall DEF RegistriesIInv
  <2>3. IF calls[c].op = "info" THEN ~ServesVersion ELSE ~ServesPackage
    BY <1>2, <2>1, <2>2 DEF NotFound
  <2> QED
    BY <1>2, <2>3, EndsKeeps DEF NotFound
<1> QED
  BY <1>1, <1>2

(* A call has asked for every facet by its last request.                    *)
LEMMA ReturnsStep ==
  ASSUME RegistriesIInv, NEW c \in Callers, Returns(c)
  PROVE  RegistriesIInv'
<1>1. /\ calls[c].asked = Len(Requests(calls[c].op)) /\ Quiet
      /\ Ends(c, IF Unsupported(calls[c].op) THEN "unsupported" ELSE "answer")
  BY DEF Returns
<1>2. \A f \in Facets : SettledBy(f) \in 1..4
  BY AskedIsCall
<1>3. ASSUME calls[c].op = "info", NEW f \in Facets
      PROVE  calls[c].asked >= SettledBy(f)
  <2>1. CASE registry = "npm"
    BY <1>1, <1>3, <2>1 DEF Requests, SettledBy, Facets
  <2>2. CASE registry = "verified"
    <3>1. Len(Requests("info")) = IF truth.attested THEN 2 ELSE 1
      <4>1. CASE truth.attested
        BY <2>2, <4>1 DEF Requests
      <4>2. CASE ~truth.attested
        BY <2>2, <4>2 DEF Requests
      <4> QED
        BY <4>1, <4>2
    <3>2. SettledBy(f) <= IF truth.attested THEN 2 ELSE 1
      BY <1>3, <2>2 DEF SettledBy, Facets
    <3> QED
      BY <1>1, <1>3, <1>2, <3>1, <3>2
  <2>3. CASE registry = "pypi"
    <3>1. Len(Requests("info")) = IF PreferredFile = {} THEN 1 ELSE 2
      <4>1. CASE PreferredFile = {}
        BY <2>3, <4>1 DEF Requests
      <4>2. CASE PreferredFile # {}
        BY <2>3, <4>2 DEF Requests
      <4> QED
        BY <4>1, <4>2
    <3>2. SettledBy(f) <= IF PreferredFile = {} THEN 1 ELSE 2
      BY <1>3, <2>3 DEF SettledBy, Facets
    <3> QED
      BY <1>1, <1>3, <1>2, <3>1, <3>2
  <2>4. CASE registry = "crates"
    BY <1>1, <1>3, <2>4 DEF Requests, SettledBy, Facets
  <2>5. CASE registry = "jsr"
    <3>1. Requests("info") = <<"document", "details", "record", "optional dependencies">>
      BY <2>5 DEF Requests
    <3> DEFINE r == Requests("info")
    <3> HIDE DEF r
    <3>2. r = <<"document", "details", "record", "optional dependencies">>
      BY <3>1 DEF r
    <3>3. Len(r) = 4
      BY <3>2
    <3>4. SettledBy(f) <= 4
      BY <1>2
    <3> QED
      BY <1>1, <1>3, <3>3, <3>4 DEF r
  <2> QED
    BY <2>1, <2>2, <2>3, <2>4, <2>5 DEF RegistriesIInv, RegistryNames
<1> QED
  BY <1>1, <1>3, EndsKeeps

(* The first answer of a call that is not a document.                       *)
LEMMA AnsweredCallStep ==
  ASSUME RegistriesIInv, NEW c \in Callers, Answered(c)
  PROVE  RegistriesIInv'
<1>1. PICK q \in Decisive : Asks(c, q) /\ Learns(c, Reads(c, q))
  BY DEF Answered
<1> DEFINE new == Reads(c, q)
           i == calls[c].info
           j == new.info
<1>2. calls[c] \in Call /\ calls[c].result = "" /\ Quiet
  BY <1>1, AskedIsCall DEF Answered, Asks, Open
<1>3. /\ Scripts \in BOOLEAN /\ Provenance \in BOOLEAN /\ Dependencies \in BOOLEAN
      /\ Truth["scripts"] = Scripts /\ Truth["provenance"] = Provenance /\ Truth["dependencies"] = Dependencies
  BY TruthShape DEF RegistriesIInv
<1>4. i \in [Facets -> BOOLEAN] /\ "scripts" \in Facets /\ "dependencies" \in Facets /\ "provenance" \in Facets
  BY <1>2 DEF Call, Facets
<1>5. /\ new \in Call /\ new.result = "" /\ new.op = calls[c].op /\ new.asked = calls[c].asked
      /\ new.document = calls[c].document /\ new.unknown = calls[c].unknown
      /\ q = "release" => j = [i EXCEPT !["scripts"] = Scripts, !["dependencies"] = Dependencies]
      /\ q = "dependencies" => j = [i EXCEPT !["dependencies"] = Dependencies]
  <2>1. CASE q = "release"
    BY <1>2, <1>3, <1>4, <2>1 DEF Reads, Call
  <2>2. CASE q = "dependencies"
    BY <1>2, <1>3, <1>4, <2>2 DEF Reads, Call
  <2>3. CASE q \notin {"release", "dependencies"}
    BY <1>2, <2>3 DEF Reads
  <2> QED
    BY <2>1, <2>2, <2>3
<1>6. Learns(c, new)
  BY <1>1
<1> HIDE DEF new
<1>7. calls[c].op = "info" =>
        \/ q = "release" /\ registry = "pypi" /\ calls[c].asked = 0
        \/ q = "dependencies" /\ registry = "crates" /\ calls[c].asked = 1
  BY <1>1, InfoRequests, AskedIsCall DEF RegistriesIInv, Decisive
<1>8. ASSUME calls[c].op = "info", q = "release", registry = "pypi", calls[c].asked = 0
      PROVE  LearnsInv(calls[c], new, kept)
  <2>1. i["provenance"] = Zero /\ DocumentInv(calls[c].document)
    BY <1>8, AskedIsCall DEF CallInv
  <2> HIDE DEF i, j
  <2>2. j["scripts"] = Scripts /\ j["dependencies"] = Dependencies /\ j["provenance"] = Zero
    BY <1>4, <1>5, <1>8, <2>1
  <2>3. PreferredFile = {} => Provenance = Zero
    BY <1>8 DEF Provenance, Zero
  <2>4. /\ SettledBy("provenance") = IF PreferredFile = {} THEN 1 ELSE 2
        /\ SettledBy("scripts") = 1 /\ SettledBy("dependencies") = 1
    BY <1>8 DEF SettledBy
  <2>5. Told(new, "scripts") /\ Told(new, "dependencies") /\ (PreferredFile = {} => Told(new, "provenance"))
    BY <1>3, <2>2, <2>3 DEF Told, j
  <2>6. \A f \in Facets : calls[c].asked + 1 >= SettledBy(f) => Told(new, f)
    BY <1>8, <2>4, <2>5 DEF Facets
  <2> QED
    BY <1>5, <1>8, <2>1, <2>2, <2>6 DEF LearnsInv, j
<1>9. ASSUME calls[c].op = "info", q = "dependencies", registry = "crates", calls[c].asked = 1
      PROVE  LearnsInv(calls[c], new, kept)
  <2>1. SettledBy("provenance") = 1 /\ SettledBy("scripts") = 3
    BY <1>9 DEF SettledBy
  <2>2. Told(calls[c], "provenance") /\ DocumentInv(calls[c].document)
    BY <1>4, <1>9, <2>1, AskedIsCall DEF CallInv
  <2> HIDE DEF i, j
  <2>3. j["dependencies"] = Dependencies /\ j["provenance"] = i["provenance"]
    BY <1>4, <1>5, <1>9
  <2>4. Told(new, "provenance") /\ Told(new, "dependencies")
    BY <1>3, <1>5, <2>2, <2>3 DEF Told, i, j
  <2>5. \A f \in Facets : calls[c].asked + 1 >= SettledBy(f) => Told(new, f)
    BY <1>9, <2>1, <2>4 DEF Facets
  <2> QED
    BY <1>5, <1>9, <2>2, <2>5 DEF LearnsInv
<1>10. ASSUME calls[c].op # "info"
       PROVE  LearnsInv(calls[c], new, kept)
  <2>1. /\ DocumentInv(calls[c].document)
        /\ registry \in {"npm", "verified"} /\ calls[c].op = "downloads" => calls[c].document = <<>>
    BY AskedIsCall DEF CallInv
  <2>2. registry \in {"npm", "verified"} => calls[c].op = "downloads"
    BY <1>1, <1>10, InfoRequests, AskedIsCall DEF RegistriesIInv, Decisive
  <2> QED
    BY <1>5, <1>10, <2>1, <2>2 DEF LearnsInv
<1>11. LearnsInv(calls[c], new, kept)
  BY <1>7, <1>8, <1>9, <1>10
<1> QED
  BY <1>2, <1>6, <1>11, LearnsKeeps DEF Quiet

(* A version's document is asked for first, and so is all of npm's.         *)
LEMMA DocumentIsFirst ==
  ASSUME RegistriesIInv, NEW c \in Callers, Asks(c, "document")
  PROVE  /\ calls[c].op = "info" => calls[c].asked = 0
         /\ registry \in {"npm", "verified"} => calls[c].asked = 0 /\ calls[c].op # "downloads"
<1>1. calls[c].asked \in Nat /\ calls[c].op \in Operations
  BY AskedIsCall
<1>2. registry \in RegistryNames
  BY DEF RegistriesIInv
<1>3. calls[c].op = "info" => calls[c].asked = 0
  <2>1. PICK q : q = "document"
    OBVIOUS
  <2>2. q \notin {"release", "attestation", "provenance", "dependencies", "archive", "details", "record",
                  "optional dependencies"}
    BY <2>1
  <2>3. Asks(c, q)
    BY <2>1
  <2> QED
    BY <1>1, <1>2, <2>2, <2>3, InfoRequests
<1>4. calls[c].op # "info" /\ registry \in {"npm", "verified"} =>
        calls[c].asked = 0 /\ "document" = IF calls[c].op = "downloads" THEN "count" ELSE "document"
  BY <1>1, <1>2, InfoRequests
<1>5. calls[c].op # "info" /\ registry \in {"npm", "verified"} => calls[c].op # "downloads"
  BY <1>4
<1> QED
  BY <1>3, <1>4, <1>5

LEMMA FacetsRecord ==
  ASSUME NEW a \in BOOLEAN, NEW b \in BOOLEAN, NEW d \in BOOLEAN
  PROVE  [scripts |-> a, dependencies |-> b, provenance |-> d] \in [Facets -> BOOLEAN]
<1> DEFINE r == [scripts |-> a, dependencies |-> b, provenance |-> d]
<1>1. DOMAIN r = Facets /\ r["scripts"] = a /\ r["dependencies"] = b /\ r["provenance"] = d
  BY DEF Facets
<1>2. r = [f \in DOMAIN r |-> r[f]]
  OBVIOUS
<1> HIDE DEF r
<1>3. \A f \in Facets : r[f] \in BOOLEAN
  BY <1>1 DEF Facets
<1>4. r \in [Facets -> BOOLEAN]
  BY <1>1, <1>2, <1>3
<1> QED
  BY <1>4 DEF r

(* No facet is settled before the first request, and few by it.             *)
LEMMA NothingSettled ==
  \A f \in Facets : ~(0 >= SettledBy(f)) /\ (0 + 1 >= SettledBy(f) => SettledBy(f) = 1)
<1> SUFFICES ASSUME NEW f \in Facets
             PROVE  ~(0 >= SettledBy(f)) /\ (0 + 1 >= SettledBy(f) => SettledBy(f) = 1)
  OBVIOUS
<1>1. SettledBy(f) \in 1..4
  BY DEF Facets, SettledBy
<1> QED
  BY <1>1

(* A call goes on with a document: its own, or the one the npm client       *)
(* keeps. It learns everything from npm's, provenance from crates.io's, and *)
(* nothing from JSR's but that there are no scripts.                        *)
LEMMA WithKeeps ==
  ASSUME RegistriesIInv, NEW c \in Callers, Asks(c, "document"), registry # "pypi",
         NEW doc, DocumentInv(doc), doc # <<>>, With(c, doc),
         UNCHANGED <<registry, truth, standing, revision>>,
         kept' = kept \/ (kept = <<>> /\ DocumentInv(kept')),
         registry \in {"npm", "verified"} => doc = kept'
  PROVE  RegistriesIInv'
<1>1. /\ calls[c] \in Call /\ calls[c].asked \in Nat /\ calls[c].op \in Operations /\ calls[c].result = ""
      /\ CallInv(calls[c], kept) /\ \A f \in Facets : SettledBy(f) \in 1..4
  BY AskedIsCall DEF Asks, Open
<1>2. /\ calls[c].op = "info" => calls[c].asked = 0
      /\ registry \in {"npm", "verified"} => calls[c].asked = 0 /\ calls[c].op # "downloads"
  BY <1>1, DocumentIsFirst
<1>3. doc \in PackageDocuments
  BY DEF DocumentInv
<1>4. CASE calls[c].op = "info" /\ ~doc[1].listed
  <2> DEFINE x == [calls[c] EXCEPT !.document = doc, !.result = "notfound"]
  <2>1. calls' = [calls EXCEPT ![c] = x]
    BY <1>4 DEF With, RegistriesIInv
  <2>2. /\ x \in Call /\ x.op = "info" /\ x.asked = 0 /\ x.document = doc /\ x.result = "notfound"
    BY <1>1, <1>2, <1>3, <1>4 DEF Call
  <2>3. ~ServesVersion
    BY <1>4 DEF DocumentInv
  <2> HIDE DEF x
  <2>4. \A f \in Facets : ~(x.asked >= SettledBy(f))
    BY <2>2, NothingSettled
  <2>5. CallInv(x, kept')
    BY <2>2, <2>3, <2>4 DEF CallInv
  <2> QED
    BY <2>1, <2>5, CallerStep
<1>5. CASE ~(calls[c].op = "info" /\ ~doc[1].listed)
  <2> DEFINE i == CASE registry \in {"npm", "verified"} ->
                         IF truth.understood
                         THEN [scripts |-> Scripts, dependencies |-> Dependencies,
                               provenance |-> registry = "npm" /\ Provenance]
                         ELSE Unread
                    [] registry = "crates" -> [Unread EXCEPT !.provenance = Provenance]
                    [] OTHER -> Unread
             new == [calls[c] EXCEPT !.document = doc, !.info = i]
  <2>1. Learns(c, new)
    BY <1>5 DEF With
  <2>2. /\ Scripts \in BOOLEAN /\ Provenance \in BOOLEAN /\ Dependencies \in BOOLEAN
        /\ Truth["scripts"] = Scripts /\ Truth["provenance"] = Provenance /\ Truth["dependencies"] = Dependencies
    BY TruthShape DEF RegistriesIInv
  <2>3. i \in [Facets -> BOOLEAN]
    <3>1. Unread \in [Facets -> BOOLEAN]
      BY FacetsRecord DEF Unread
    <3>2. [Unread EXCEPT !.provenance = Provenance] \in [Facets -> BOOLEAN]
      BY <2>2, <3>1 DEF Facets
    <3>3. (registry = "npm" /\ Provenance) \in BOOLEAN
      OBVIOUS
    <3>4. [scripts |-> Scripts, dependencies |-> Dependencies, provenance |-> registry = "npm" /\ Provenance]
            \in [Facets -> BOOLEAN]
      BY <2>2, <3>3, FacetsRecord
    <3> QED
      BY <3>1, <3>2, <3>4
  <2>4. /\ new \in Call /\ new.op = calls[c].op /\ new.asked = calls[c].asked /\ new.result = ""
        /\ new.document = doc /\ new.info = i /\ new.unknown = calls[c].unknown
    <3> HIDE DEF i
    <3> QED
      BY <1>1, <1>3, <2>3 DEF Call
  <2> HIDE DEF new
  <2>5. ASSUME NEW f \in Facets, SettledBy(f) = 1
        PROVE  Told(new, f)
    <3>1. CASE registry = "npm"
      <4>1. CASE truth.understood
        <5>1. i["scripts"] = Scripts /\ i["dependencies"] = Dependencies /\ i["provenance"] = Provenance
          BY <2>2, <3>1, <4>1
        <5> HIDE DEF i
        <5> QED
          BY <2>2, <2>4, <5>1 DEF Told, Facets
      <4>2. CASE ~truth.understood
        BY <3>1, <4>2 DEF Told
      <4> QED
        BY <4>1, <4>2
    <3>2. CASE registry = "verified"
      <4>1. truth.understood
        BY <3>2 DEF RegistriesIInv, Truths
      <4>2. i["scripts"] = Scripts /\ i["dependencies"] = Dependencies /\ i["provenance"] = Zero
        BY <3>2, <4>1 DEF Zero
      <4>3. f = "provenance" => Provenance = Zero
        BY <2>5, <3>2 DEF SettledBy, Provenance, Zero
      <4> HIDE DEF i
      <4> QED
        BY <2>2, <2>4, <4>2, <4>3 DEF Told, Facets
    <3>3. CASE registry = "crates"
      <4>1. f = "provenance"
        BY <2>5, <3>3 DEF SettledBy, Facets
      <4>2. i["provenance"] = Provenance
        BY <3>3 DEF Unread
      <4> HIDE DEF i
      <4> QED
        BY <2>2, <2>4, <4>1, <4>2 DEF Told
    <3>4. CASE registry = "jsr"
      <4>1. f = "scripts"
        BY <2>5, <3>4 DEF SettledBy, Facets
      <4>2. i["scripts"] = Zero /\ Scripts = Zero
        BY <3>4 DEF Unread, Scripts, Zero
      <4> HIDE DEF i
      <4> QED
        BY <2>2, <2>4, <4>1, <4>2 DEF Told
    <3> QED
      BY <3>1, <3>2, <3>3, <3>4 DEF RegistriesIInv, RegistryNames
  <2>6. LearnsInv(calls[c], new, kept')
    <3>1. calls[c].op = "info" => \A f \in Facets : calls[c].asked + 1 >= SettledBy(f) => Told(new, f)
      <4> SUFFICES ASSUME calls[c].op = "info", NEW f \in Facets, calls[c].asked + 1 >= SettledBy(f)
                   PROVE  Told(new, f)
        OBVIOUS
      <4>1. SettledBy(f) = 1
        BY <1>2, NothingSettled
      <4> QED
        BY <2>5, <4>1
    <3> QED
      BY <1>2, <2>4, <3>1 DEF LearnsInv
  <2> QED
    BY <2>1, <2>6, LearnsKeeps
<1> QED
  BY <1>4, <1>5

(* The documents: the registry's, and the npm client's own.                 *)
LEMMA DocumentSteps ==
  ASSUME RegistriesIInv, NEW c \in Callers, DocumentRead(c) \/ FromKept(c) \/ Fetched(c) \/ Keep(c)
  PROVE  RegistriesIInv'
<1>1. DocumentInv(Document) /\ Document # <<>>
  <2> DEFINE d == [revision |-> revision, listed |-> ServesVersion]
  <2>1. ServesVersion \in BOOLEAN /\ revision \in Nat
    BY DEF ServesVersion, RegistriesIInv
  <2>2. d \in [revision : Nat, listed : BOOLEAN] /\ (~d.listed => ~ServesVersion)
    BY <2>1
  <2> HIDE DEF d
  <2>3. Document = <<d>>
    BY DEF Document, d
  <2> QED
    BY <2>2, <2>3 DEF DocumentInv, PackageDocuments
<1>2. calls[c] \in Call /\ CallInv(calls[c], kept)
  BY AskedIsCall
<1>3. CASE DocumentRead(c)
  BY <1>1, <1>3, WithKeeps DEF DocumentRead, Quiet
<1>4. CASE FromKept(c)
  BY <1>4, WithKeeps DEF FromKept, Quiet, RegistriesIInv
<1>5. CASE Fetched(c)
  <2> DEFINE x == [calls[c] EXCEPT !.document = Document]
  <2>1. calls' = [calls EXCEPT ![c] = x]
    BY <1>5 DEF Fetched, RegistriesIInv
  <2>2. registry \in {"npm", "verified"} /\ calls[c].asked = 0 /\ calls[c].op # "downloads" /\ calls[c].result = ""
    BY <1>5, DocumentIsFirst DEF Fetched, Asks, Open
  <2>3. /\ x \in Call /\ x.op = calls[c].op /\ x.asked = 0 /\ x.document = Document /\ x.result = ""
    <3>1. Document \in PackageDocuments
      BY <1>1 DEF DocumentInv
    <3> QED
      BY <1>2, <2>2, <3>1 DEF Call
  <2> HIDE DEF x
  <2>4. \A f \in Facets : ~(x.asked >= SettledBy(f))
    BY <2>3, NothingSettled
  <2>5. CallInv(x, kept)
    <3>1. registry # "pypi"
      BY <2>2
    <3>2. x.op # "downloads" /\ x.result = ""
      BY <2>2, <2>3, Zenon
    <3>3. ~(x.asked > 0)
      <4>1. ~(0 > 0)
        OBVIOUS
      <4> QED
        BY <2>3, <4>1, Zenon
    <3>4. DocumentInv(x.document)
      BY <1>1, <2>3, Zenon
    <3> QED
      BY <2>3, <2>4, <3>1, <3>2, <3>3, <3>4 DEF CallInv
  <2> QED
    BY <1>5, <2>1, <2>5, CallerStep DEF Fetched, Quiet
<1>6. CASE Keep(c)
  <2>1. DocumentInv(calls[c].document) /\ DocumentInv(kept) /\ calls[c].document # <<>>
    BY <1>2, <1>6 DEF CallInv, Keep, RegistriesIInv
  <2>2. PICK k : k = IF kept = <<>> THEN calls[c].document ELSE kept
    OBVIOUS
  <2>3. kept' = k /\ DocumentInv(k) /\ k # <<>> /\ (kept # <<>> => k = kept)
    BY <1>6, <2>1, <2>2 DEF Keep, KeepFirst
  <2>4. With(c, k)
    BY <1>6, <2>3 DEF Keep
  <2>5. registry # "pypi" /\ Asks(c, "document") /\ UNCHANGED <<registry, truth, standing, revision>>
    BY <1>6 DEF Keep
  <2> QED
    BY <2>3, <2>4, <2>5, WithKeeps
<1> QED
  BY <1>3, <1>4, <1>5, <1>6

LEMMA PositiveNumbers == 1 > 0 /\ 2 > 0 /\ \A n \in Nat : n > 0 => n # 0
  OBVIOUS

(* A request that tells of one facet settles it, and no other: the others   *)
(* were settled by the requests before it.                                  *)
LEMMA OptionalSettles ==
  ASSUME RegistriesIInv, NEW c \in Callers, NEW q \in Optional, Asks(c, q), calls[c].op = "info"
  PROVE  /\ q # "record" => Facet(q) \in Facets
         /\ \A f \in Facets : calls[c].asked + 1 >= SettledBy(f) =>
              calls[c].asked >= SettledBy(f) \/ (q # "record" /\ f = Facet(q))
         /\ registry # "jsr" => calls[c].asked > 0
         /\ q \in {"provenance", "attestation", "details", "archive", "optional dependencies", "record"}
         /\ q = "provenance" => registry = "pypi" /\ PreferredFile # {}
         /\ q = "attestation" => registry = "verified" /\ truth.attested
         /\ q = "archive" => registry = "crates"
         /\ q \in {"details", "record", "optional dependencies"} => registry = "jsr"
<1>1. calls[c].asked \in Nat /\ registry \in RegistryNames
  BY AskedIsCall DEF RegistriesIInv
<1>2. \/ q = "attestation" /\ registry = "verified" /\ truth.attested /\ calls[c].asked = 1
      \/ q = "provenance" /\ registry = "pypi" /\ PreferredFile # {} /\ calls[c].asked = 1
      \/ q = "archive" /\ registry = "crates" /\ calls[c].asked = 2
      \/ q = "details" /\ registry = "jsr" /\ calls[c].asked = 1
      \/ q = "record" /\ registry = "jsr" /\ calls[c].asked = 2
      \/ q = "optional dependencies" /\ registry = "jsr" /\ calls[c].asked = 3
  BY <1>1, InfoRequests DEF Optional
<1>3. q # "record" => Facet(q) \in Facets
  BY DEF Optional, Facet, Facets
<1>4. \A f \in Facets : calls[c].asked + 1 >= SettledBy(f) =>
        calls[c].asked >= SettledBy(f) \/ (q # "record" /\ f = Facet(q))
  <2> DEFINE k == calls[c].asked
  <2> SUFFICES ASSUME NEW f \in Facets, k + 1 >= SettledBy(f)
               PROVE  k >= SettledBy(f) \/ (q # "record" /\ f = Facet(q))
    OBVIOUS
  <2> HIDE DEF k
  <2>1. CASE q = "attestation" /\ registry = "verified" /\ k = 1
    BY <2>1 DEF SettledBy, Facet, Facets
  <2>2. CASE q = "provenance" /\ registry = "pypi" /\ k = 1
    BY <2>2 DEF SettledBy, Facet, Facets
  <2>3. CASE q = "archive" /\ registry = "crates" /\ k = 2
    BY <2>3 DEF SettledBy, Facet, Facets
  <2>4. CASE q = "details" /\ registry = "jsr" /\ k = 1
    BY <2>4 DEF SettledBy, Facet, Facets
  <2>5. CASE q = "record" /\ registry = "jsr" /\ k = 2
    BY <2>5 DEF SettledBy, Facets
  <2>6. CASE q = "optional dependencies" /\ registry = "jsr" /\ k = 3
    <3>1. Facet(q) = "dependencies" /\ q # "record"
      BY <2>6 DEF Facet
    <3>2. f # "dependencies" => SettledBy(f) = 1 \/ SettledBy(f) = 2
      BY <2>6 DEF SettledBy, Facets
    <3>3. 3 >= 1 /\ 3 >= 2
      OBVIOUS
    <3>4. f # "dependencies" => 3 >= SettledBy(f)
      BY <3>2, <3>3, Zenon
    <3> QED
      BY <2>6, <3>1, <3>4, Zenon
  <2>7. \/ q = "attestation" /\ registry = "verified" /\ k = 1
        \/ q = "provenance" /\ registry = "pypi" /\ k = 1
        \/ q = "archive" /\ registry = "crates" /\ k = 2
        \/ q = "details" /\ registry = "jsr" /\ k = 1
        \/ q = "record" /\ registry = "jsr" /\ k = 2
        \/ q = "optional dependencies" /\ registry = "jsr" /\ k = 3
    BY <1>2, Zenon DEF k
  <2> QED
    BY <2>1, <2>2, <2>3, <2>4, <2>5, <2>6, <2>7, Zenon
<1>5. /\ registry # "jsr" => calls[c].asked = 1 \/ calls[c].asked = 2
      /\ q \in {"provenance", "attestation", "details", "archive", "optional dependencies", "record"}
      /\ q = "provenance" => registry = "pypi" /\ PreferredFile # {}
      /\ q = "attestation" => registry = "verified" /\ truth.attested
      /\ q = "archive" => registry = "crates"
      /\ q \in {"details", "record", "optional dependencies"} => registry = "jsr"
  BY <1>2
<1>6. registry # "jsr" => calls[c].asked > 0
  BY <1>5, PositiveNumbers, Zenon
<1> QED
  BY <1>3, <1>4, <1>5, <1>6, Zenon

(* What an answer says of its facet is true.                                *)
LEMMA SaysTruth ==
  ASSUME RegistriesIInv, NEW c \in Callers, NEW q \in Optional \ {"record"}, Asks(c, q), calls[c].op = "info",
         NEW v \in Says(q)
  PROVE  v = Truth[Facet(q)]
<1>1. /\ Truth["scripts"] = Scripts /\ Truth["provenance"] = Provenance /\ Truth["dependencies"] = Dependencies
  BY TruthShape DEF RegistriesIInv
<1>2. CASE q = "provenance"
  BY <1>1, <1>2 DEF Says, Facet
<1>3. CASE q = "attestation"
  <2>1. registry = "verified" /\ truth.attested
    BY <1>3, OptionalSettles
  <2>2. v = TRUE /\ truth.signed
    BY <1>3 DEF Says
  <2>3. truth.attested \in BOOLEAN /\ truth.signed \in BOOLEAN
    BY <2>1 DEF RegistriesIInv, Truths
  <2>4. Provenance = TRUE
    BY <2>1, <2>2, <2>3 DEF Provenance
  <2> QED
    BY <1>1, <1>3, <2>2, <2>4 DEF Facet
<1>4. CASE q = "details"
  <2>1. registry = "jsr"
    BY <1>4, OptionalSettles
  <2> QED
    BY <1>1, <1>4, <2>1 DEF Says, Facet, Provenance
<1>5. CASE q = "archive"
  <2>1. registry = "crates"
    BY <1>5, OptionalSettles
  <2>2. truth.archive \in Archives
    BY <2>1 DEF RegistriesIInv, Truths
  <2>3. Inspect(truth.archive).manifest # {} /\ v = BuildScript(Inspect(truth.archive))
    BY <1>5 DEF Says
  <2>4. v = BuildScript(SeenIn(truth.archive))
    BY <2>2, <2>3, InspectTells
  <2>5. Scripts = BuildScript(SeenIn(truth.archive))
    BY <2>1 DEF Scripts
  <2> QED
    BY <1>1, <1>5, <2>4, <2>5 DEF Facet
<1>6. CASE q = "optional dependencies"
  BY <1>1, <1>6 DEF Says, Facet
<1> QED
  BY <1>2, <1>3, <1>4, <1>5, <1>6 DEF Optional

(* A call that goes on with its facets as they were, but for the one it has *)
(* just asked for.                                                          *)
LEMMA FacetKeeps ==
  ASSUME RegistriesIInv, NEW c \in Callers, NEW q \in Optional, Asks(c, q), NEW new, Learns(c, new), Quiet,
         new \in Call, new.op = calls[c].op, new.asked = calls[c].asked, new.result = "",
         new.document = calls[c].document,
         calls[c].op = "info" =>
           /\ \A f \in Facets : (q = "record" \/ f # Facet(q)) => (Told(calls[c], f) => Told(new, f))
           /\ q # "record" => Told(new, Facet(q))
  PROVE  RegistriesIInv'
<1>1. CallInv(calls[c], kept) /\ calls[c].op \in Operations /\ calls[c].asked \in Nat
  BY AskedIsCall
<1>2. calls[c].op # "info" => registry \notin {"npm", "verified"}
  <2>1. registry \in RegistryNames
    BY DEF RegistriesIInv
  <2> QED
    BY <1>1, <2>1, InfoRequests DEF Optional
<1>3. registry \in {"npm", "verified"} => calls[c].asked > 0
  <2> SUFFICES ASSUME registry \in {"npm", "verified"} PROVE calls[c].asked > 0
    OBVIOUS
  <2>1. registry \in RegistryNames /\ calls[c].op = "info"
    BY <1>2 DEF RegistriesIInv
  <2>2. registry # "jsr"
    OBVIOUS
  <2> QED
    BY <2>1, <2>2, OptionalSettles
<1>4. registry \in {"npm", "verified"} => /\ new.document \in {<<>>, kept}
                                          /\ new.op = "downloads" => new.document = <<>>
  BY <1>1, <1>3 DEF CallInv
<1>5. ASSUME calls[c].op = "info"
      PROVE  /\ \A f \in Facets : calls[c].asked + 1 >= SettledBy(f) => Told(new, f)
             /\ registry = "pypi" => calls[c].asked # 0
  <2>1. /\ q # "record" => Facet(q) \in Facets
        /\ \A f \in Facets : calls[c].asked + 1 >= SettledBy(f) =>
             calls[c].asked >= SettledBy(f) \/ (q # "record" /\ f = Facet(q))
        /\ registry # "jsr" => calls[c].asked > 0
    BY <1>5, OptionalSettles
  <2>2. \A f \in Facets : calls[c].asked >= SettledBy(f) => Told(calls[c], f)
    BY <1>1, <1>5 DEF CallInv
  <2>3. ASSUME NEW f \in Facets, calls[c].asked + 1 >= SettledBy(f)
        PROVE  Told(new, f)
    <3>1. CASE q # "record" /\ f = Facet(q)
      BY <1>5, <3>1
    <3>2. CASE q = "record" \/ f # Facet(q)
      <4>1. calls[c].asked >= SettledBy(f)
        BY <2>1, <2>3, <3>2
      <4>2. Told(calls[c], f)
        BY <2>2, <4>1
      <4> QED
        BY <1>5, <3>2, <4>2
    <3> QED
      BY <3>1, <3>2
  <2>4. registry = "pypi" => registry # "jsr"
    OBVIOUS
  <2> QED
    BY <1>1, <2>1, <2>3, <2>4, PositiveNumbers, Zenon
<1>6. DocumentInv(new.document)
  BY <1>1 DEF CallInv
<1>7. LearnsInv(calls[c], new, kept)
  BY <1>4, <1>5, <1>6 DEF LearnsInv
<1> QED
  BY <1>7, LearnsKeeps DEF Quiet


LEMMA DetailsAreJsr ==
  ASSUME RegistriesIInv, NEW c \in Callers, Asks(c, "details")
  PROVE  registry = "jsr"
<1>1. calls[c].asked \in Nat /\ calls[c].op \in Operations /\ registry \in RegistryNames
  BY AskedIsCall DEF RegistriesIInv
<1>2. calls[c].op = "info" => registry = "jsr"
  <2>1. PICK q : q = "details"
    OBVIOUS
  <2>2. q \notin {"document", "release", "attestation", "provenance", "dependencies", "archive"}
    BY <2>1
  <2>3. Asks(c, q)
    BY <2>1
  <2> QED
    BY <1>1, <2>2, <2>3, InfoRequests
<1>3. calls[c].op # "info" => registry \notin {"npm", "verified"}
  BY <1>1, InfoRequests
<1>4. ASSUME calls[c].op # "info", registry \in {"pypi", "crates"}
      PROVE  FALSE
  <2> DEFINE r == Requests(calls[c].op)
  <2>1. r \in {<<>>, <<"project">>, <<"owners">>, <<"document">>}
    BY <1>4 DEF Requests
  <2>2. calls[c].asked < Len(r) /\ "details" = r[calls[c].asked + 1]
    BY DEF Asks, Due
  <2> HIDE DEF r
  <2> QED
    BY <1>1, <2>1, <2>2
<1> QED
  BY <1>1, <1>2, <1>3, <1>4 DEF RegistryNames

(* An answer of a facet is a yes or a no.                                   *)
LEMMA SaysBoolean ==
  ASSUME RegistriesIInv, NEW c \in Callers, NEW q \in Optional \ {"record"}, Asks(c, q), NEW v \in Says(q)
  PROVE  v \in BOOLEAN
<1>1. Scripts \in BOOLEAN /\ Provenance \in BOOLEAN /\ Dependencies \in BOOLEAN
  BY TruthShape DEF RegistriesIInv
<1>2. CASE q = "details"
  <2>1. registry = "jsr"
    BY <1>2, DetailsAreJsr
  <2> QED
    BY <1>1, <1>2, <2>1 DEF Says, Provenance
<1>3. CASE q # "details"
  BY <1>1, <1>3 DEF Says, Optional, BuildScript
<1> QED
  BY <1>2, <1>3

LEMMA FacetSteps ==
  ASSUME RegistriesIInv, NEW c \in Callers, FacetRead(c) \/ FacetMissed(c) \/ NoProvenance(c)
  PROVE  RegistriesIInv'
<1>1. calls[c] \in Call /\ CallInv(calls[c], kept)
  BY AskedIsCall
<1>2. \A q : Asks(c, q) => calls[c].result = ""
  BY DEF Asks, Open
<1>3. CASE FacetRead(c)
  <2>1. PICK q \in Optional :
          /\ Asks(c, q)
          /\ IF q = "record" THEN ServesPackage /\ Learns(c, calls[c])
             ELSE /\ IF q = "details" THEN ServesPackage ELSE ServesVersion
                  /\ \E v \in Says(q) : Learns(c, [calls[c] EXCEPT !.info[Facet(q)] = v])
    BY <1>3 DEF FacetRead
  <2>2. Quiet /\ calls[c].result = ""
    BY <1>2, <1>3, <2>1 DEF FacetRead
  <2>3. CASE q = "record"
    BY <1>1, <2>1, <2>2, <2>3, FacetKeeps
  <2>4. CASE q # "record"
    <3>1. PICK v \in Says(q) : Learns(c, [calls[c] EXCEPT !.info[Facet(q)] = v])
      BY <2>1, <2>4
    <3> DEFINE new == [calls[c] EXCEPT !.info[Facet(q)] = v]
               g == Facet(q)
    <3>2. g \in Facets
      BY <2>4 DEF Optional, Facet, Facets
    <3>3. v \in BOOLEAN
      BY <2>1, <2>4, SaysBoolean
    <3> HIDE DEF g
    <3>4. calls[c].info \in [Facets -> BOOLEAN]
      BY <1>1 DEF Call
    <3>5. [calls[c].info EXCEPT ![g] = v] \in [Facets -> BOOLEAN]
      BY <3>2, <3>3, <3>4
    <3>6. /\ new \in Call /\ new.op = calls[c].op /\ new.asked = calls[c].asked /\ new.result = ""
          /\ new.document = calls[c].document /\ new.unknown = calls[c].unknown
          /\ new.info = [calls[c].info EXCEPT ![g] = v]
      BY <1>1, <2>2, <3>5 DEF Call, g
    <3>7. Learns(c, new)
      BY <3>1
    <3> HIDE DEF new
    <3>8. new.info[g] = v /\ \A f \in Facets : f # g => new.info[f] = calls[c].info[f]
      BY <3>2, <3>4, <3>6
    <3>9. ASSUME NEW f \in Facets, f # g, Told(calls[c], f)
          PROVE  Told(new, f)
      <4>1. new.info[f] = calls[c].info[f] /\ new.unknown = calls[c].unknown
        BY <3>6, <3>8, <3>9
      <4> QED
        BY <3>9, <4>1, Zenon DEF Told
    <3>10. calls[c].op = "info" => Told(new, g)
      <4>1. calls[c].op = "info" => v = Truth[g]
        BY <2>1, <2>4, <3>1, SaysTruth DEF g
      <4> QED
        BY <3>8, <4>1 DEF Told
    <3> QED
      BY <2>1, <2>2, <2>4, <3>6, <3>7, <3>9, <3>10, FacetKeeps DEF g
  <2> QED
    BY <2>3, <2>4
<1>4. CASE FacetMissed(c)
  <2>1. PICK q \in Optional : Asks(c, q) /\ Miss(c, q)
    BY <1>4 DEF FacetMissed
  <2>2. Quiet /\ calls[c].result = ""
    BY <1>2, <1>4, <2>1 DEF FacetMissed
  <2> DEFINE new == [calls[c] EXCEPT !.unknown = @ \cup {Facet(q)}]
  <2>3. Learns(c, new)
    BY <2>1 DEF Miss
  <2>4. calls[c].unknown \cup {Facet(q)} \in SUBSET (Facets \cup {"deprecated"})
    <3>1. Facet(q) \in Facets \cup {"deprecated"}
      BY DEF Optional, Facet, Facets
    <3>2. calls[c].unknown \in SUBSET (Facets \cup {"deprecated"})
      BY <1>1 DEF Call
    <3> QED
      BY <3>1, <3>2
  <2>5. /\ new \in Call /\ new.op = calls[c].op /\ new.asked = calls[c].asked /\ new.result = ""
        /\ new.document = calls[c].document /\ new.info = calls[c].info
        /\ new.unknown = calls[c].unknown \cup {Facet(q)}
    BY <1>1, <2>2, <2>4 DEF Call
  <2> HIDE DEF new
  <2>6. /\ Told(new, Facet(q))
        /\ \A f \in Facets : Told(calls[c], f) => Told(new, f)
    BY <2>5 DEF Told
  <2> QED
    BY <2>1, <2>2, <2>3, <2>5, <2>6, FacetKeeps
<1>5. CASE NoProvenance(c)
  <2>1. Asks(c, "provenance") /\ Learns(c, calls[c]) /\ Quiet /\ "provenance" \in Optional /\ calls[c].result = ""
        /\ Facet("provenance") = "provenance" /\ (~ServesVersion \/ ~Provenance)
    BY <1>2, <1>5 DEF NoProvenance, Optional, Facet
  <2>2. calls[c].op = "info" => Told(calls[c], "provenance")
    <3> SUFFICES ASSUME calls[c].op = "info" PROVE Told(calls[c], "provenance")
      OBVIOUS
    <3>1. registry = "pypi" /\ calls[c].asked = 1
      BY <1>1, <2>1, AskedIsCall, InfoRequests DEF RegistriesIInv
    <3>2. calls[c].info["provenance"] = Zero
      BY <1>1, <3>1 DEF CallInv
    <3>3. CASE ~ServesVersion
      BY <3>1, <3>3 DEF Told
    <3>4. CASE ~Provenance
      <4>1. Truth["provenance"] = Provenance /\ Provenance \in BOOLEAN
        BY TruthShape DEF RegistriesIInv
      <4>2. Provenance = Zero
        BY <3>4, <4>1 DEF Zero
      <4> QED
        BY <3>2, <4>1, <4>2 DEF Told
    <3> QED
      BY <2>1, <3>3, <3>4
  <2> QED
    BY <1>1, <2>1, <2>2, FacetKeeps
<1> QED
  BY <1>3, <1>4, <1>5


LEMMA InitRegistries == RegistriesInit => RegistriesIInv
<1> SUFFICES ASSUME RegistriesInit PROVE RegistriesIInv
  OBVIOUS
<1>1. /\ registry \in RegistryNames /\ truth \in Truths[registry]
      /\ standing \in {"published", "unpublished", "gone"} /\ revision \in Nat
      /\ kept = <<>> /\ calls \in [Callers -> {NewCall(op) : op \in Operations}]
  BY DEF RegistriesInit, Truths, RegistryNames
<1>2. <<>> \in PackageDocuments /\ DocumentInv(<<>>)
  BY DEF DocumentInv, PackageDocuments
<1>3. ASSUME NEW op \in Operations, NEW x, x = NewCall(op)
      PROVE  CallInv(x, kept)
  <2>1. Unread \in [Facets -> BOOLEAN] /\ Unread["provenance"] = Zero
    BY FacetsRecord DEF Unread, Zero
  <2>2. /\ x.op = op /\ x.asked = 0 /\ x.document = <<>> /\ x.info = Unread /\ x.unknown = {} /\ x.result = ""
        /\ x \in Call
    <3> HIDE DEF Unread
    <3> QED
      BY <1>2, <1>3, <2>1 DEF NewCall, Call
  <2>3. \A f \in Facets : ~(x.asked >= SettledBy(f))
    BY <2>2, NothingSettled
  <2>4. ~(x.asked > 0)
    <3>1. ~(0 > 0)
      OBVIOUS
    <3> QED
      BY <2>2, <3>1, Zenon
  <2>5. DocumentInv(x.document)
    BY <1>2, <2>2
  <2> QED
    BY <2>1, <2>2, <2>3, <2>4, <2>5 DEF CallInv
<1>4. ASSUME NEW c \in Callers
      PROVE  CallInv(calls[c], kept)
  <2>1. PICK op \in Operations : calls[c] = NewCall(op)
    BY <1>1
  <2> QED
    BY <1>3, <2>1
<1>5. calls = [c \in Callers |-> calls[c]]
  BY <1>1
<1> QED
  BY <1>1, <1>2, <1>4, <1>5 DEF RegistriesIInv

(* The package changes, and what was gone stays gone.                       *)
LEMMA ReviseStep ==
  ASSUME RegistriesIInv, Revise \/ UNCHANGED registryVars
  PROVE  RegistriesIInv'
<1>1. UNCHANGED <<registry, truth, kept, calls>> /\ revision' \in Nat
  BY DEF Revise, RegistriesIInv, registryVars
<1>2. /\ standing' \in {"published", "unpublished", "gone"}
      /\ ~ServesVersion => ~ServesVersion'
      /\ ~ServesPackage => ~ServesPackage'
  BY DEF Revise, ServesVersion, ServesPackage, RegistriesIInv, registryVars
<1>3. ASSUME NEW y, NEW k, CallInv(y, k)
      PROVE  CallInv(y, k)'
  <2>1. Truth' = Truth
    BY <1>1 DEF Truth, Scripts, Provenance, Dependencies, PreferredFile
  <2>2. \A f : SettledBy(f)' = SettledBy(f)
    BY <1>1 DEF SettledBy, PreferredFile
  <2>3. \A f : Told(y, f) => Told(y, f)'
    BY <1>1, <1>2, <2>1 DEF Told
  <2>4. \A d : DocumentInv(d) => DocumentInv(d)'
    BY <1>2 DEF DocumentInv
  <2> QED
    BY <1>1, <1>2, <1>3, <2>2, <2>3, <2>4 DEF CallInv
<1>4. ASSUME NEW c \in Callers
      PROVE  CallInv(calls[c], kept)'
  <2>1. PICK y, k : y = calls[c] /\ k = kept
    OBVIOUS
  <2>2. CallInv(y, k)'
    BY <1>3, <2>1 DEF RegistriesIInv
  <2> QED
    BY <1>1, <2>1, <2>2
<1>5. DocumentInv(kept)'
  BY <1>1, <1>2 DEF RegistriesIInv, DocumentInv
<1> QED
  BY <1>1, <1>2, <1>4, <1>5 DEF RegistriesIInv, Truths

LEMMA StepRegistries == RegistriesIInv /\ [RegistriesNext]_registryVars => RegistriesIInv'
<1> SUFFICES ASSUME RegistriesIInv, [RegistriesNext]_registryVars
             PROVE  RegistriesIInv'
  OBVIOUS
<1>1. CASE Revise \/ UNCHANGED registryVars
  BY <1>1, ReviseStep
<1>2. ASSUME NEW c \in Callers,
             \/ Fails(c) \/ NotFound(c) \/ Answered(c)
             \/ DocumentRead(c) \/ FromKept(c) \/ Fetched(c) \/ Keep(c)
             \/ FacetRead(c) \/ FacetMissed(c) \/ NoProvenance(c)
             \/ Returns(c)
      PROVE  RegistriesIInv'
  BY <1>2, FailsStep, AnsweredCallStep, DocumentSteps, FacetSteps, ReturnsStep
<1> QED
  BY <1>1, <1>2 DEF RegistriesNext

(* What the clients say of a version is the registry's word, however the    *)
(* requests of any number of callers fail and interleave and whatever is    *)
(* published or removed in between: every facet of an answer is true or     *)
(* named as unknown, what is said not to be there is not there, and all     *)
(* that is read of an npm package is of one document.                       *)
THEOREM RegistriesTellTheRegistry == RegistriesSpec => []TellTheRegistry
<1>1. RegistriesIInv => TellTheRegistry
  <2> SUFFICES ASSUME RegistriesIInv PROVE TellTheRegistry
    OBVIOUS
  <2>1. \A c \in Callers : CallInv(calls[c], kept)
    BY DEF RegistriesIInv
  <2>2. DOMAIN Truth = Facets
    BY TruthShape DEF RegistriesIInv
  <2>3. FacetsAreTrue
    BY <2>1, <2>2 DEF FacetsAreTrue, CallInv, Told
  <2>4. NotFoundIsTrue
    BY <2>1 DEF NotFoundIsTrue, CallInv
  <2>5. OneDocument
    BY <2>1 DEF OneDocument, CallInv
  <2> QED
    BY <2>3, <2>4, <2>5 DEF TellTheRegistry
<1> QED
  BY <1>1, InitRegistries, StepRegistries, PTL DEF RegistriesSpec


-----------------------------------------------------------------------------
(* Hosts. A package is still on a command line to run, or was reported as   *)
(* the host asks of its reports before it goes on.                          *)

InTodo(r) == \E i \in DOMAIN todo : r \in todo[i]

TodoInv ==
  /\ todo \in Seq(SUBSET Names)
  /\ host = "bun" => \A i, j \in DOMAIN todo : i # j => todo[i] \cap todo[j] = {}

ChildInv ==
  \/ child = NoChild
  \/ /\ todo # <<>> /\ outcome = "" /\ stage # "start"
     /\ \/ child = Running
        \/ \E held \in BOOLEAN : child = [phase |-> "ended", held |-> held, signal |-> TRUE]
        \/ \E held \in BOOLEAN, d \in Documents(todo[1]) :
             child = [phase |-> "ended", held |-> held, signal |-> FALSE, document |-> d]

(* Bun: what is on a line to run has no report yet. A run with exit code 3  *)
(* leaves the package it was about unreported, or with its skipped check.   *)
BunInv ==
  host = "bun" =>
    /\ proposed \in Proposals /\ settings \in [unchecked : {"fatal", "warn", "ignore"}, require : BOOLEAN]
    /\ stage = "start" => reports = [r \in Names |-> NotReported]
    /\ \A r \in Names : reports[r] = NotReported \/ reports[r].verdict \in {"ok", "warn", "block", "skipped"}
    /\ \A r \in Names : InTodo(r) => r \in Listed /\ reports[r] = NotReported
    /\ unavailable => \E r \in Listed : ~InTodo(r) /\ (reports[r] = NotReported \/ (reports[r].code = 3 /\ reports[r].skips))

PnpmInv ==
  host = "pnpm" =>
    /\ proposed \in Lockfiles
    /\ stage # "start" /\ outcome # "thrown" =>
         /\ proposed \cap {"git", "dangling"} = {}
         /\ \A r \in proposed \cap Names : InTodo(r) \/ (reports[r].verdict \in {"ok", "warn"} /\ reports[r].code = 0)

HostsIInv ==
  /\ host \in {"bun", "pnpm", "guarddog"}
  /\ reports = [r \in Names |-> reports[r]]
  /\ stage = "start" => outcome = "" /\ todo = <<>> /\ ~unavailable
  /\ host # "bun" => ~unavailable
  /\ TodoInv /\ ChildInv /\ BunInv /\ PnpmInv
  /\ CleanIsVetted /\ RequiredDataStops

LEMMA NamesFinite == IsFiniteSet(Names)
<1>1. Len(Wanted) \in Nat /\ Wanted \in [1..Len(Wanted) -> Names] /\ \A r \in Names : \E i \in 1..Len(Wanted) : Wanted[i] = r
  BY HostsAssumption DEF Names, ToSet
<1>2. Wanted \in Surjection(1..Len(Wanted), Names)
  BY <1>1 DEF Surjection
<1>3. IsFiniteSet(1..Len(Wanted))
  BY <1>1, FS_Interval
<1> QED
  BY <1>2, <1>3, FS_Surjection

(* Every package of a set is on one of its command lines, and on one only.  *)
LEMMA LinesCover ==
  ASSUME NEW S \in SUBSET Names
  PROVE  /\ Lines(S) \in Seq(SUBSET S)
         /\ \A r \in S : \E k \in DOMAIN Lines(S) : r \in Lines(S)[k]
         /\ \A i, j \in DOMAIN Lines(S) : i # j => Lines(S)[i] \cap Lines(S)[j] = {}
<1> DEFINE n == LineOf(Cardinality(S))
           line(k) == {r \in S : LineOf(Rank(r, S)) = k}
           L == [k \in 1..n |-> line(k)]
<1>1. IsFiniteSet(S) /\ Cardinality(S) \in Nat
  BY NamesFinite, FS_Subset, FS_CardinalityType
<1>2. MaxRefs \in Nat \ {0}
  BY HostsAssumption
<1>3. n \in Nat
  BY <1>1, <1>2 DEF LineOf
<1>4. Lines(S) = L
  BY DEF Lines
<1>5. DOMAIN L = 1..n /\ \A k \in 1..n : L[k] = line(k)
  OBVIOUS
<1>6. \A k : line(k) \in SUBSET S
  OBVIOUS
<1>7. L \in [1..n -> SUBSET S]
  BY <1>5, <1>6
<1>8. ASSUME NEW r \in S
      PROVE  \E k \in 1..n : r \in line(k)
  <2> DEFINE T == {q \in S : Position(q) <= Position(r)}
  <2>1. Position(r) \in Nat
    <3>1. \E i \in DOMAIN Wanted : Wanted[i] = r
      BY DEF Names, ToSet
    <3>2. Position(r) \in DOMAIN Wanted
      BY <3>1 DEF Position
    <3> QED
      BY <3>2, HostsAssumption
  <2>2. r \in T
    BY <2>1
  <2>3. T \in SUBSET S
    OBVIOUS
  <2>4. Rank(r, S) = Cardinality(T)
    BY DEF Rank
  <2> HIDE DEF T
  <2>5. IsFiniteSet(T) /\ Cardinality(T) \in Nat /\ Cardinality(T) <= Cardinality(S)
    BY <1>1, <2>3, FS_Subset, FS_CardinalityType
  <2>6. Cardinality(T) # 0
    BY <2>2, <2>5, FS_EmptySet
  <2> DEFINE i == Rank(r, S)
             c == Cardinality(S)
  <2>7. i \in Nat \ {0} /\ c \in Nat /\ i <= c
    BY <1>1, <2>4, <2>5, <2>6
  <2> HIDE DEF i, c
  <2>8. (i + MaxRefs - 1) \div MaxRefs \in 1..((c + MaxRefs - 1) \div MaxRefs)
    BY <1>2, <2>7, GroupOf
  <2>9. LineOf(i) \in 1..LineOf(c)
    BY <2>8 DEF LineOf
  <2> QED
    BY <2>9 DEF i, c
<1> HIDE DEF n, line
<1>9. L \in Seq(SUBSET S)
  BY <1>3, <1>7
<1>10. \A i, j : i # j => line(i) \cap line(j) = {}
  BY DEF line
<1> QED
  BY <1>4, <1>5, <1>8, <1>9, <1>10

(* A sequence without its first element.                                    *)
LEMMA TailOf ==
  ASSUME NEW S, NEW s \in Seq(S), s # <<>>
  PROVE  /\ s[1] \in S /\ 1 \in DOMAIN s /\ Tail(s) \in Seq(S)
         /\ \A i \in DOMAIN Tail(s) : i + 1 \in DOMAIN s /\ i + 1 # 1 /\ Tail(s)[i] = s[i + 1]
         /\ \A i, j \in DOMAIN Tail(s) : i # j => i + 1 # j + 1
         /\ \A i \in DOMAIN s : i = 1 \/ (i - 1 \in DOMAIN Tail(s) /\ Tail(s)[i - 1] = s[i])
<1>1. Len(s) \in Nat /\ Len(s) # 0 /\ DOMAIN s = 1..Len(s)
  OBVIOUS
<1>2. Tail(s) \in Seq(S) /\ Len(Tail(s)) = Len(s) - 1 /\ \A i \in 1..Len(Tail(s)) : Tail(s)[i] = s[i + 1]
  BY HeadTailProperties
<1>3. DOMAIN Tail(s) = 1..(Len(s) - 1) /\ \A i \in 1..(Len(s) - 1) : Tail(s)[i] = s[i + 1]
  <2>1. DOMAIN Tail(s) = 1..Len(Tail(s))
    BY <1>2
  <2> QED
    BY <1>2, <2>1
<1>4. s[1] \in S /\ 1 \in DOMAIN s
  BY <1>1
<1>5. \A i \in 1..(Len(s) - 1) : i + 1 \in 1..Len(s) /\ i + 1 # 1
  BY <1>1
<1>6. \A i \in 1..Len(s) : i = 1 \/ (i - 1 \in 1..(Len(s) - 1) /\ (i - 1) + 1 = i)
  BY <1>1
<1>7. \A i, j \in 1..(Len(s) - 1) : i # j => i + 1 # j + 1
  BY <1>1
<1> QED
  BY <1>1, <1>2, <1>3, <1>4, <1>5, <1>6, <1>7

(* The first command line is done with.                                     *)
LEMMA LineDone ==
  ASSUME TodoInv, todo # <<>>, todo' = Tail(todo), UNCHANGED host
  PROVE  /\ TodoInv' /\ todo[1] \in SUBSET Names
         /\ \A r : r \in todo[1] => InTodo(r)
         /\ \A r : InTodo(r) => r \in todo[1] \/ InTodo(r)'
         /\ \A r : InTodo(r)' => InTodo(r) /\ (host = "bun" => r \notin todo[1])
<1>1. PICK s : s = todo
  OBVIOUS
<1>2. PICK t : t = Tail(s)
  OBVIOUS
<1>3. s \in Seq(SUBSET Names) /\ s # <<>>
  BY <1>1 DEF TodoInv
<1>4. /\ s[1] \in SUBSET Names /\ 1 \in DOMAIN s /\ t \in Seq(SUBSET Names)
      /\ \A i \in DOMAIN t : i + 1 \in DOMAIN s /\ i + 1 # 1 /\ t[i] = s[i + 1]
      /\ \A i, j \in DOMAIN t : i # j => i + 1 # j + 1
      /\ \A i \in DOMAIN s : i = 1 \/ (i - 1 \in DOMAIN t /\ t[i - 1] = s[i])
  <2> HIDE DEF Names
  <2> QED
    BY <1>2, <1>3, TailOf
<1>5. todo = s /\ todo' = t
  BY <1>1, <1>2
<1>6. host = "bun" => \A i, j \in DOMAIN s : i # j => s[i] \cap s[j] = {}
  BY <1>5 DEF TodoInv
<1>7. host = "bun" => \A i, j \in DOMAIN t : i # j => t[i] \cap t[j] = {}
  BY <1>4, <1>6
<1>8. Names' = Names
  BY DEF Names
<1>9. TodoInv'
  BY <1>4, <1>5, <1>7, <1>8 DEF TodoInv
<1>10. \A r : (InTodo(r) <=> \E i \in DOMAIN s : r \in s[i]) /\ (InTodo(r)' <=> \E i \in DOMAIN t : r \in t[i])
  BY <1>5 DEF InTodo
<1>11. \A r : (\E i \in DOMAIN s : r \in s[i]) => r \in s[1] \/ \E i \in DOMAIN t : r \in t[i]
  BY <1>4
<1>12. \A r : (\E i \in DOMAIN t : r \in t[i]) => (\E i \in DOMAIN s : r \in s[i]) /\ (host = "bun" => r \notin s[1])
  BY <1>4, <1>6
<1>13. \A r : r \in s[1] => \E i \in DOMAIN s : r \in s[i]
  BY <1>4
<1> QED
  BY <1>4, <1>5, <1>9, <1>10, <1>11, <1>12, <1>13

LEMMA NotCleanYet ==
  ASSUME outcome' \in {"", "thrown"}
  PROVE  CleanIsVetted' /\ RequiredDataStops'
BY DEF CleanIsVetted, RequiredDataStops

(* A document that can be used is about the line that was run.              *)
LEMMA UsableDocument ==
  ASSUME HostsIInv, host # "guarddog", child.phase = "ended", Usable(child), NEW d, d = child.document
  PROVE  /\ todo # <<>> /\ outcome = "" /\ stage # "start"
         /\ DOMAIN d.subjects \subseteq todo[1]
         /\ \A r \in DOMAIN d.subjects : d.subjects[r].verdict \in {"ok", "warn", "block", "skipped"}
         /\ d.code = 3 => DOMAIN d.subjects # todo[1] \/ \E r \in todo[1] : d.subjects[r].skips
<1>1. child # NoChild /\ child # Running
  BY DEF NoChild, Running
<1>2. todo # <<>> /\ outcome = "" /\ stage # "start"
  BY <1>1 DEF HostsIInv, ChildInv
<1>3. ~child.signal /\ d.whole
  BY DEF Usable
<1>4. PICK held \in BOOLEAN, e \in Documents(todo[1]) :
        child = [phase |-> "ended", held |-> held, signal |-> FALSE, document |-> e]
  <2>1. ASSUME NEW held \in BOOLEAN, child = [phase |-> "ended", held |-> held, signal |-> TRUE]
        PROVE  FALSE
    <3>1. child.signal = TRUE
      BY <2>1
    <3> QED
      BY <1>3, <3>1
  <2> QED
    BY <1>1, <2>1 DEF HostsIInv, ChildInv
<1>5. d \in Documents(todo[1])
  BY <1>4
<1>6. /\ d.subjects \in UNION {[s -> Subjects] : s \in SUBSET todo[1]}
      /\ d.code = 3 => DOMAIN d.subjects # todo[1] \/ \E r \in todo[1] : d.subjects[r].skips
  BY <1>3, <1>5 DEF Documents
<1>7. PICK s \in SUBSET todo[1] : d.subjects \in [s -> Subjects]
  BY <1>6
<1>8. DOMAIN d.subjects = s /\ \A r \in s : d.subjects[r] \in Subjects
  BY <1>7
<1> QED
  BY <1>2, <1>6, <1>8 DEF Subjects

LEMMA ChildKeeps ==
  ASSUME HostsIInv, stage # "start", outcome = "", ChildInv',
         UNCHANGED <<host, settings, proposed, stage, todo, reports, unavailable, gone, outcome>>
  PROVE  HostsIInv'
<1>1. TodoInv' /\ BunInv' /\ PnpmInv'
  BY DEF HostsIInv, TodoInv, BunInv, PnpmInv, InTodo, Listed
<1>2. CleanIsVetted' /\ RequiredDataStops'
  BY NotCleanYet
<1> QED
  BY <1>1, <1>2 DEF HostsIInv

(* The child starts, ends, is killed, or is let go of by who held its pipes.*)
LEMMA ChildSteps ==
  ASSUME HostsIInv, Start \/ Exits \/ TimeUp \/ Floods \/ LetsGo
  PROVE  HostsIInv'
<1>1. ChildInv
  BY DEF HostsIInv
<1>2. UNCHANGED <<host, settings, proposed, stage, todo, reports, unavailable, gone, outcome>>
  BY DEF Start, Exits, TimeUp, Floods, LetsGo
<1>3. \A a : Documents(a)' = Documents(a)
  BY <1>2 DEF Documents
<1>4. todo # <<>> /\ outcome = "" /\ stage # "start"
  <2>1. Running # NoChild /\ NoChild.phase = "none"
    BY DEF NoChild, Running
  <2>2. Start => todo # <<>> /\ outcome = "" /\ stage # "start"
    BY DEF Start, Waiting
  <2>3. Exits \/ TimeUp \/ Floods \/ LetsGo => child # NoChild
    BY <2>1 DEF Exits, TimeUp, Floods, LetsGo
  <2> QED
    BY <1>1, <2>2, <2>3 DEF ChildInv
<1>5. ASSUME \E held \in BOOLEAN : child' = [phase |-> "ended", held |-> held, signal |-> TRUE]
      PROVE  ChildInv'
  BY <1>2, <1>4, <1>5 DEF ChildInv
<1>6. ASSUME \E held \in BOOLEAN, d \in Documents(todo[1]) :
               child' = [phase |-> "ended", held |-> held, signal |-> FALSE, document |-> d]
      PROVE  ChildInv'
  BY <1>2, <1>3, <1>4, <1>6 DEF ChildInv
<1>7. ASSUME UNCHANGED child
      PROVE  ChildInv'
  BY <1>1, <1>2, <1>3, <1>7 DEF ChildInv
<1>8. ASSUME Start
      PROVE  ChildInv'
  BY <1>2, <1>4, <1>8 DEF Start, ChildInv
<1>9. ASSUME Exits
      PROVE  ChildInv'
  BY <1>6, <1>9 DEF Exits
<1>10. ASSUME TimeUp \/ Floods
       PROVE  ChildInv'
  BY <1>5, <1>7, <1>10 DEF TimeUp, Floods, Kill
<1>11. ASSUME LetsGo
       PROVE  ChildInv'
  <2>1. child # NoChild /\ child # Running /\ child' = [child EXCEPT !.held = FALSE]
    BY <1>11 DEF LetsGo, NoChild, Running
  <2>2. CASE \E held \in BOOLEAN : child = [phase |-> "ended", held |-> held, signal |-> TRUE]
    <3>1. PICK held \in BOOLEAN : child = [phase |-> "ended", held |-> held, signal |-> TRUE]
      BY <2>2
    <3>2. child' = [phase |-> "ended", held |-> FALSE, signal |-> TRUE]
      BY <2>1, <3>1
    <3> QED
      BY <1>5, <3>2
  <2>3. CASE \E held \in BOOLEAN, d \in Documents(todo[1]) :
               child = [phase |-> "ended", held |-> held, signal |-> FALSE, document |-> d]
    <3>1. PICK held \in BOOLEAN, d \in Documents(todo[1]) :
            child = [phase |-> "ended", held |-> held, signal |-> FALSE, document |-> d]
      BY <2>3
    <3>2. child' = [phase |-> "ended", held |-> FALSE, signal |-> FALSE, document |-> d]
      BY <2>1, <3>1
    <3> QED
      BY <1>6, <3>2
  <2> QED
    BY <1>1, <2>1, <2>2, <2>3 DEF ChildInv
<1> QED
  BY <1>2, <1>4, <1>8, <1>9, <1>10, <1>11, ChildKeeps

LEMMA ThrowsKeeps ==
  ASSUME HostsIInv, stage # "start", Throws, UNCHANGED <<host, settings, proposed, stage, todo, reports, unavailable>>
  PROVE  HostsIInv'
<1>1. outcome' = "thrown" /\ child' = NoChild
  BY DEF Throws
<1>2. TodoInv' /\ BunInv' /\ PnpmInv'
  BY <1>1 DEF HostsIInv, TodoInv, BunInv, PnpmInv, InTodo, Listed
<1>3. CleanIsVetted' /\ RequiredDataStops'
  BY <1>1, NotCleanYet
<1> QED
  BY <1>1, <1>2, <1>3 DEF HostsIInv, ChildInv

(* What the GuardDog bridge reads is weighed when it decides.               *)
LEMMA GuardDogLine ==
  ASSUME HostsIInv, host = "guarddog", stage # "start", outcome = "", todo # <<>>, NextLine,
         reports' = [r \in Names |-> reports'[r]], UNCHANGED <<host, settings, proposed, stage, unavailable, outcome>>
  PROVE  HostsIInv'
<1>1. TodoInv' /\ child' = NoChild
  BY LineDone DEF HostsIInv, NextLine
<1>2. CleanIsVetted' /\ RequiredDataStops'
  BY NotCleanYet
<1> QED
  BY <1>1, <1>2 DEF HostsIInv, ChildInv, BunInv, PnpmInv

(* The command lines are planned.                                           *)
LEMMA BunPlanStep ==
  ASSUME HostsIInv, BunPlan
  PROVE  HostsIInv'
<1>1. /\ host = "bun" /\ stage = "start" /\ stage' = "scan" /\ outcome = "" /\ child = NoChild
      /\ todo' = Lines(ToSet(proposed) \cap Names)
      /\ UNCHANGED <<host, settings, proposed, child, late, reports, unavailable, gone, outcome>>
  BY DEF BunPlan, HostsIInv, ChildInv
<1>2. Listed \in SUBSET Names /\ todo' = Lines(Listed)
  BY <1>1 DEF Listed
<1>3. PICK t : t = Lines(Listed)
  OBVIOUS
<1>4. /\ t \in Seq(SUBSET Listed)
      /\ \A i, j \in DOMAIN t : i # j => t[i] \cap t[j] = {}
  BY <1>2, <1>3, LinesCover
<1>5. \A i \in DOMAIN t : t[i] \in SUBSET Listed
  BY <1>4
<1>6. t \in Seq(SUBSET Names)
  BY <1>2, <1>4, <1>5
<1>7. TodoInv'
  BY <1>1, <1>2, <1>3, <1>4, <1>6 DEF TodoInv, Names
<1>8. \A r : InTodo(r)' => r \in Listed
  BY <1>2, <1>3, <1>5 DEF InTodo
<1>9. ~unavailable /\ reports = [r \in Names |-> NotReported]
  BY <1>1 DEF HostsIInv, BunInv
<1>10. Listed' = Listed
  BY <1>1 DEF Listed
<1>11. BunInv'
  BY <1>1, <1>8, <1>9, <1>10 DEF HostsIInv, BunInv, Names
<1>12. CleanIsVetted' /\ RequiredDataStops'
  BY <1>1, NotCleanYet
<1> QED
  BY <1>1, <1>7, <1>9, <1>11, <1>12 DEF HostsIInv, ChildInv, PnpmInv, Names

LEMMA GuardDogPlanStep ==
  ASSUME HostsIInv, GuardDogPlan
  PROVE  HostsIInv'
<1>1. /\ host = "guarddog" /\ stage = "start" /\ stage' = "scan" /\ outcome = "" /\ child = NoChild
      /\ UNCHANGED <<host, settings, proposed, child, late, reports, unavailable, gone, outcome>>
      /\ todo' = [i \in DOMAIN Wanted |-> {Wanted[i]}]
  BY DEF GuardDogPlan, HostsIInv, ChildInv
<1>2. todo' \in Seq(SUBSET Names)
  <2>1. Len(Wanted) \in Nat /\ DOMAIN Wanted = 1..Len(Wanted) /\ \A i \in DOMAIN Wanted : Wanted[i] \in Names
    BY HostsAssumption DEF Names, ToSet
  <2>2. PICK n \in Nat : n = Len(Wanted)
    BY <2>1
  <2> DEFINE line(i) == {Wanted[i]}
  <2>3. todo' = [i \in 1..n |-> line(i)] /\ \A i \in 1..n : line(i) \in SUBSET Names
    BY <1>1, <2>1, <2>2
  <2> HIDE DEF line, Names
  <2>4. todo' \in [1..n -> SUBSET Names]
    BY <2>3
  <2> QED
    BY <2>4
<1>3. CleanIsVetted' /\ RequiredDataStops'
  BY <1>1, NotCleanYet
<1> QED
  BY <1>1, <1>2, <1>3 DEF HostsIInv, ChildInv, TodoInv, BunInv, PnpmInv, Names

LEMMA PnpmPlanStep ==
  ASSUME HostsIInv, PreResolution \/ AfterAllResolved
  PROVE  HostsIInv'
<1>1. PICK l \in Lockfiles :
        /\ host = "pnpm" /\ outcome = "" /\ child = NoChild /\ todo = <<>> /\ stage' # "start" /\ proposed' = l /\ PnpmPlan(l)
        /\ UNCHANGED <<host, settings, child, unavailable>>
  <2>1. CASE PreResolution
    <3>1. host = "pnpm" /\ stage = "start" /\ stage' = "before" /\ PnpmPlan(proposed)
          /\ UNCHANGED <<host, settings, proposed, child, unavailable>>
      BY <2>1 DEF PreResolution
    <3>2. outcome = "" /\ child = NoChild /\ todo = <<>> /\ proposed \in Lockfiles
      BY <3>1 DEF HostsIInv, ChildInv, PnpmInv
    <3> QED
      BY <3>1, <3>2
  <2>2. CASE AfterAllResolved
    <3>1. /\ host = "pnpm" /\ outcome = "" /\ child = NoChild /\ stage' = "after" /\ proposed' \in Lockfiles
          /\ PnpmPlan(proposed') /\ UNCHANGED <<host, settings, child, unavailable>>
          /\ stage = "start" \/ todo = <<>>
      BY <2>2 DEF AfterAllResolved
    <3>2. todo = <<>>
      BY <3>1 DEF HostsIInv
    <3> QED
      BY <3>1, <3>2
  <2> QED
    BY <2>1, <2>2
<1>2. reports' = [r \in Names |-> NotReported]
  BY <1>1 DEF PnpmPlan
<1>3. CASE Refuses(l)
  <2>1. outcome' = "thrown" /\ UNCHANGED todo
    BY <1>1, <1>3 DEF PnpmPlan
  <2>2. CleanIsVetted' /\ RequiredDataStops'
    BY <2>1, NotCleanYet
  <2> QED
    BY <1>1, <1>2, <2>1, <2>2 DEF HostsIInv, ChildInv, TodoInv, BunInv, PnpmInv, Names
<1>4. CASE ~Refuses(l)
  <2>1. outcome' = "" /\ todo' = Lines(l \cap Names) /\ l \cap {"git", "dangling"} = {}
    BY <1>1, <1>4 DEF PnpmPlan, Refuses
  <2>2. PICK t : t = Lines(l \cap Names)
    OBVIOUS
  <2>3. t \in Seq(SUBSET (l \cap Names)) /\ \A r \in l \cap Names : \E k \in DOMAIN t : r \in t[k]
    BY <2>2, LinesCover
  <2>4. t \in Seq(SUBSET Names)
    BY <2>3
  <2>5. \A r \in proposed' \cap Names' : InTodo(r)'
    BY <1>1, <2>1, <2>2, <2>3 DEF InTodo, Names
  <2>6. TodoInv'
    BY <1>1, <2>1, <2>2, <2>4 DEF TodoInv, Names
  <2>7. PnpmInv'
    BY <1>1, <2>1, <2>5 DEF PnpmInv
  <2>8. CleanIsVetted' /\ RequiredDataStops'
    BY <2>1, NotCleanYet
  <2> QED
    BY <1>1, <1>2, <2>6, <2>7, <2>8 DEF HostsIInv, ChildInv, BunInv, Names
<1> QED
  BY <1>3, <1>4

(* What Bun's scanner read of a line.                                       *)
LEMMA BunReadsStep ==
  ASSUME HostsIInv, BunReads
  PROVE  HostsIInv'
<1>1. host = "bun" /\ child.phase = "ended" /\ UNCHANGED <<host, settings, proposed, stage, gone>>
  BY DEF BunReads
<1>2. CASE ~Usable(child)
  <2>1. Throws /\ UNCHANGED <<todo, reports, unavailable>>
    BY <1>2 DEF BunReads
  <2>2. stage # "start"
    <3>1. child # NoChild
      BY <1>1 DEF NoChild
    <3> QED
      BY <3>1 DEF HostsIInv, ChildInv
  <2> QED
    BY <1>1, <2>1, <2>2, ThrowsKeeps
<1>3. CASE Usable(child)
  <2>1. PICK d : d = child.document
    OBVIOUS
  <2>2. /\ NextLine /\ reports' = AsRead(d) /\ UNCHANGED outcome
        /\ unavailable' => unavailable \/ d.code = 3
    BY <1>3, <2>1 DEF BunReads
  <2>3. /\ todo # <<>> /\ outcome = "" /\ stage # "start"
        /\ DOMAIN d.subjects \subseteq todo[1]
        /\ \A r \in DOMAIN d.subjects : d.subjects[r].verdict \in {"ok", "warn", "block", "skipped"}
        /\ d.code = 3 => DOMAIN d.subjects # todo[1] \/ \E r \in todo[1] : d.subjects[r].skips
    BY <1>1, <1>3, <2>1, UsableDocument
  <2>4. /\ TodoInv' /\ todo[1] \in SUBSET Names
        /\ \A r : r \in todo[1] => InTodo(r)
        /\ \A r : InTodo(r)' => InTodo(r) /\ r \notin todo[1]
    BY <1>1, <2>2, <2>3, LineDone DEF HostsIInv, NextLine
  <2>5. /\ \A r \in Names : r \in DOMAIN d.subjects =>
             /\ reports'[r].verdict = d.subjects[r].verdict /\ reports'[r].code = d.code
             /\ reports'[r].skips = d.subjects[r].skips
        /\ \A r \in Names : r \notin DOMAIN d.subjects => reports'[r] = reports[r]
        /\ reports' = [r \in Names |-> reports'[r]]
    BY <2>2, <2>3 DEF AsRead, Said
  <2>6. /\ \A r \in Names : reports[r] = NotReported \/ reports[r].verdict \in {"ok", "warn", "block", "skipped"}
        /\ \A r \in Names : InTodo(r) => r \in Listed /\ reports[r] = NotReported
        /\ unavailable => \E r \in Listed : ~InTodo(r) /\ (reports[r] = NotReported \/ (reports[r].code = 3 /\ reports[r].skips))
    BY <1>1 DEF HostsIInv, BunInv
  <2>7. Listed' = Listed /\ Names' = Names /\ Listed \subseteq Names
    BY <1>1 DEF Listed, Names
  <2>8. \A r \in Names : reports'[r] = NotReported \/ reports'[r].verdict \in {"ok", "warn", "block", "skipped"}
    BY <2>3, <2>5, <2>6
  <2>9. \A r \in Names : InTodo(r)' => r \in Listed /\ reports'[r] = NotReported
    BY <2>3, <2>4, <2>5, <2>6
  <2>10. ASSUME unavailable'
         PROVE  \E r \in Listed : ~InTodo(r)' /\ (reports'[r] = NotReported \/ (reports'[r].code = 3 /\ reports'[r].skips))
    <3>1. CASE unavailable
      <4>1. PICK r \in Listed : ~InTodo(r) /\ (reports[r] = NotReported \/ (reports[r].code = 3 /\ reports[r].skips))
        BY <2>6, <3>1
      <4>2. r \in Names /\ ~InTodo(r)' /\ reports'[r] = reports[r]
        BY <2>3, <2>4, <2>5, <2>7, <4>1
      <4> QED
        BY <4>1, <4>2
    <3>2. CASE d.code = 3 /\ DOMAIN d.subjects # todo[1]
      <4>1. PICK r \in todo[1] : r \notin DOMAIN d.subjects
        BY <2>3, <3>2
      <4>2. r \in Names /\ r \in Listed /\ ~InTodo(r)' /\ reports'[r] = NotReported
        BY <2>4, <2>5, <2>6, <4>1
      <4> QED
        BY <4>2
    <3>3. CASE d.code = 3 /\ DOMAIN d.subjects = todo[1]
      <4>1. PICK r \in todo[1] : d.subjects[r].skips
        BY <2>3, <3>3
      <4>2. r \in Names /\ r \in Listed /\ ~InTodo(r)'
        BY <2>4, <2>6, <4>1
      <4>3. reports'[r].code = 3 /\ reports'[r].skips
        BY <2>5, <3>3, <4>1, <4>2
      <4> QED
        BY <4>2, <4>3
    <3> QED
      BY <2>2, <2>10, <3>1, <3>2, <3>3
  <2>11. BunInv'
    BY <1>1, <2>3, <2>6, <2>7, <2>8, <2>9, <2>10 DEF BunInv, HostsIInv
  <2>12. child' = NoChild /\ outcome' = ""
    BY <2>2, <2>3 DEF NextLine
  <2>13. CleanIsVetted' /\ RequiredDataStops'
    BY <2>12, NotCleanYet
  <2> QED
    BY <1>1, <2>3, <2>4, <2>5, <2>7, <2>11, <2>12, <2>13 DEF HostsIInv, ChildInv, PnpmInv
<1> QED
  BY <1>2, <1>3

(* The pnpm hook goes on from a line that was reported whole and let pass.  *)
LEMMA PnpmReadsStep ==
  ASSUME HostsIInv, PnpmReads
  PROVE  HostsIInv'
<1>1. host = "pnpm" /\ child.phase = "ended" /\ UNCHANGED <<host, settings, proposed, stage, unavailable, gone>>
  BY DEF PnpmReads
<1>2. stage # "start"
  <2>1. child # NoChild
    BY <1>1 DEF NoChild
  <2> QED
    BY <2>1 DEF HostsIInv, ChildInv
<1> DEFINE d == child.document
<1>3. CASE ~(Usable(child) /\ Complete(d) /\ ~Blocked(d))
  <2>1. Throws /\ UNCHANGED <<todo, reports>>
    BY <1>3 DEF PnpmReads
  <2> QED
    BY <1>1, <1>2, <2>1, ThrowsKeeps
<1>4. CASE Usable(child) /\ Complete(d) /\ ~Blocked(d)
  <2>1. NextLine /\ reports' = AsRead(d) /\ UNCHANGED outcome
    BY <1>4 DEF PnpmReads
  <2>2. /\ todo # <<>> /\ outcome = ""
        /\ \A r \in DOMAIN d.subjects : d.subjects[r].verdict \in {"ok", "warn", "block", "skipped"}
    BY <1>1, <1>4, UsableDocument
  <2>3. /\ DOMAIN d.subjects = todo[1] /\ d.code = 0
        /\ \A r \in todo[1] : d.subjects[r].verdict \notin {"skipped", "block"}
    BY <1>4 DEF Complete, Blocked
  <2>4. /\ TodoInv' /\ todo[1] \in SUBSET Names
        /\ \A r : InTodo(r) => r \in todo[1] \/ InTodo(r)'
    BY <1>1, <2>1, <2>2, LineDone DEF HostsIInv, NextLine
  <2>5. /\ reports' = [r \in Names |-> reports'[r]]
        /\ \A r \in todo[1] : reports'[r].verdict \in {"ok", "warn"} /\ reports'[r].code = 0
        /\ \A r \in Names \ todo[1] : reports'[r] = reports[r]
    BY <2>1, <2>2, <2>3, <2>4 DEF AsRead, Said
  <2>6. Names' = Names
    BY DEF Names
  <2>7. ASSUME NEW r \in proposed \cap Names
        PROVE  InTodo(r)' \/ (reports'[r].verdict \in {"ok", "warn"} /\ reports'[r].code = 0)
    <3>1. InTodo(r) \/ (reports[r].verdict \in {"ok", "warn"} /\ reports[r].code = 0)
      BY <1>1, <1>2, <2>2 DEF HostsIInv, PnpmInv
    <3> QED
      BY <2>4, <2>5, <3>1
  <2>8. PnpmInv'
    BY <1>1, <1>2, <2>2, <2>6, <2>7 DEF HostsIInv, PnpmInv
  <2>9. child' = NoChild /\ outcome' = ""
    BY <2>1, <2>2 DEF NextLine
  <2>10. CleanIsVetted' /\ RequiredDataStops'
    BY <2>9, NotCleanYet
  <2> QED
    BY <1>1, <1>2, <2>4, <2>5, <2>6, <2>8, <2>9, <2>10 DEF HostsIInv, ChildInv, BunInv
<1> QED
  BY <1>3, <1>4

LEMMA ChildIsThere ==
  ASSUME HostsIInv, child # NoChild
  PROVE  todo # <<>> /\ outcome = "" /\ stage # "start"
BY DEF HostsIInv, ChildInv

(* A line that ended in no report, or in GuardDog's.                        *)
LEMMA GuardDogReadsStep ==
  ASSUME HostsIInv, GuardDogReads
  PROVE  HostsIInv'
<1>1. /\ host = "guarddog" /\ child # NoChild
      /\ UNCHANGED <<host, settings, proposed, stage, unavailable, gone, outcome>>
  BY DEF GuardDogReads, NoChild
<1>2. todo # <<>> /\ outcome = "" /\ stage # "start"
  BY <1>1, ChildIsThere
<1>3. CASE ~probed /\ Usable(child)
  <2>1. child' = Running /\ UNCHANGED <<todo, reports>>
    BY <1>3 DEF GuardDogReads
  <2> QED
    BY <1>1, <1>2, <2>1, ChildKeeps DEF ChildInv
<1>4. CASE ~(~probed /\ Usable(child))
  <2>1. /\ NextLine
        /\ reports' = IF Usable(child) /\ DOMAIN child.document.subjects = todo[1] /\ ~child.document.extra
                      THEN AsRead(child.document) ELSE FailedLine
    BY <1>4 DEF GuardDogReads
  <2>2. reports' = [r \in Names |-> reports'[r]]
    BY <2>1 DEF AsRead, FailedLine
  <2> QED
    BY <1>1, <1>2, <2>1, <2>2, GuardDogLine
<1> QED
  BY <1>3, <1>4

LEMMA FailedLineKeeps ==
  ASSUME HostsIInv, host = "guarddog", stage # "start", outcome = "", todo # <<>>, NextLine, reports' = FailedLine,
         UNCHANGED <<host, settings, proposed, stage, unavailable, outcome>>
  PROVE  HostsIInv'
<1>1. reports' = [r \in Names |-> reports'[r]]
  BY DEF FailedLine
<1> QED
  BY <1>1, GuardDogLine

LEMMA NotRunStep ==
  ASSUME HostsIInv, BinaryMissing \/ DoesNotStart \/ NotScanned
  PROVE  HostsIInv'
<1>1. Waiting /\ UNCHANGED <<host, settings, proposed, stage, unavailable>>
  BY DEF BinaryMissing, DoesNotStart, NotScanned
<1>2. todo # <<>> /\ outcome = "" /\ child = NoChild /\ stage # "start"
  BY <1>1 DEF Waiting
<1>3. CASE Throws /\ UNCHANGED <<todo, reports>>
  BY <1>1, <1>2, <1>3, ThrowsKeeps
<1>4. CASE host = "guarddog" /\ NextLine /\ reports' = FailedLine /\ UNCHANGED outcome
  BY <1>1, <1>2, <1>4, FailedLineKeeps
<1>5. CASE host = "bun" /\ todo' = <<>> /\ UNCHANGED <<child, reports, outcome>>
  <2>1. Names' = Names /\ Listed' = Listed /\ Listed \subseteq Names
    BY <1>1 DEF Names, Listed
  <2>2. TodoInv' /\ \A r : ~InTodo(r)'
    BY <1>5, <2>1 DEF TodoInv, InTodo
  <2>3. /\ proposed \in Proposals /\ settings \in [unchecked : {"fatal", "warn", "ignore"}, require : BOOLEAN]
        /\ \A r \in Names : reports[r] = NotReported \/ reports[r].verdict \in {"ok", "warn", "block", "skipped"}
        /\ unavailable => \E r \in Listed : reports[r] = NotReported \/ (reports[r].code = 3 /\ reports[r].skips)
    BY <1>5 DEF HostsIInv, BunInv
  <2>4. BunInv'
    BY <1>1, <1>2, <1>5, <2>1, <2>2, <2>3 DEF BunInv
  <2>5. CleanIsVetted' /\ RequiredDataStops'
    BY <1>2, <1>5, NotCleanYet
  <2> QED
    BY <1>1, <1>2, <1>5, <2>1, <2>2, <2>4, <2>5 DEF HostsIInv, ChildInv, PnpmInv
<1>6. CASE BinaryMissing
  <2>1. \/ Throws /\ UNCHANGED <<todo, reports>>
        \/ host = "bun" /\ todo' = <<>> /\ UNCHANGED <<child, reports, outcome>>
        \/ host = "guarddog" /\ NextLine /\ reports' = FailedLine /\ UNCHANGED outcome
    <3>1. CASE host = "bun"
      BY <1>6, <3>1 DEF BinaryMissing
    <3>2. CASE host = "pnpm"
      BY <1>6, <3>2 DEF BinaryMissing
    <3>3. CASE host = "guarddog"
      BY <1>6, <3>3 DEF BinaryMissing
    <3> QED
      BY <3>1, <3>2, <3>3 DEF HostsIInv
  <2> QED
    BY <1>3, <1>4, <1>5, <2>1
<1>7. CASE DoesNotStart \/ NotScanned
  BY <1>3, <1>4, <1>7 DEF DoesNotStart, NotScanned
<1> QED
  BY <1>6, <1>7

LEMMA GivesUpStep ==
  ASSUME HostsIInv, GivesUp
  PROVE  HostsIInv'
<1>1. child # NoChild /\ UNCHANGED <<host, settings, proposed, stage, unavailable>>
  BY DEF GivesUp, NoChild
<1>2. todo # <<>> /\ outcome = "" /\ stage # "start"
  BY <1>1, ChildIsThere
<1>3. CASE Throws /\ UNCHANGED <<todo, reports>>
  BY <1>1, <1>2, <1>3, ThrowsKeeps
<1>4. CASE host = "guarddog" /\ NextLine /\ reports' = FailedLine /\ UNCHANGED outcome
  BY <1>1, <1>2, <1>4, FailedLineKeeps
<1> QED
  BY <1>3, <1>4 DEF GivesUp

LEMMA NothingTodo ==
  ASSUME todo = <<>>
  PROVE  TodoInv /\ \A r : ~InTodo(r)
<1>1. <<>> \in Seq(SUBSET Names) /\ Len(<<>>) = 0
  OBVIOUS
<1>2. DOMAIN <<>> = {}
  BY <1>1
<1>3. todo \in Seq(SUBSET Names) /\ DOMAIN todo = {}
  BY <1>1, <1>2
<1> QED
  BY <1>3 DEF TodoInv, InTodo

(* Bun's scanner decides: whatever level a package earns reaches the user,  *)
(* but what the project ignores.                                            *)
LEMMA BunDecides ==
  ASSUME HostsIInv, host = "bun", Decides
  PROVE  CleanIsVetted' /\ RequiredDataStops'
<1>1. /\ outcome' = (IF "fatal" \in Levels THEN "fatal" ELSE IF "warn" \in Levels THEN "warn" ELSE "clean")
      /\ todo = <<>> /\ UNCHANGED <<host, settings, proposed, reports, unavailable, gone>>
  BY DEF Decides
<1>2. /\ settings.unchecked \in {"fatal", "warn", "ignore"}
      /\ \A r \in Names : reports[r] = NotReported \/ reports[r].verdict \in {"ok", "warn", "block", "skipped"}
      /\ unavailable => \E r \in Listed : ~InTodo(r) /\ (reports[r] = NotReported \/ (reports[r].code = 3 /\ reports[r].skips))
  BY DEF HostsIInv, BunInv
<1>3. Listed' = Listed /\ Unanswered' = Unanswered /\ Listed \subseteq Names
  BY <1>1 DEF Listed, Unanswered, Names
<1>4. /\ \A r \in Listed : FindingLevels(reports[r]) \ {"ignore"} \subseteq Levels
      /\ \A r \in Listed : UncheckedLevels(reports[r]) \ {"ignore"} \subseteq Levels
      /\ UnansweredLevels \ {"ignore"} \subseteq Levels
      /\ "unversioned" \in ToSet(proposed) => {settings.unchecked} \ {"ignore"} \subseteq Levels
  <2> DEFINE each == {FindingLevels(reports[r]) \cup UncheckedLevels(reports[r]) : r \in Listed}
             asked == IF "unversioned" \in ToSet(proposed) THEN {settings.unchecked} ELSE {}
  <2>1. Levels = ((UNION each) \cup UnansweredLevels \cup asked) \ {"ignore"}
    BY DEF Levels
  <2>2. \A r \in Listed : FindingLevels(reports[r]) \cup UncheckedLevels(reports[r]) \subseteq UNION each
    OBVIOUS
  <2>3. "unversioned" \in ToSet(proposed) => asked = {settings.unchecked}
    OBVIOUS
  <2> HIDE DEF each, asked
  <2>4. \A r \in Listed : FindingLevels(reports[r]) \ {"ignore"} \subseteq Levels
    BY <2>1, <2>2
  <2>5. \A r \in Listed : UncheckedLevels(reports[r]) \ {"ignore"} \subseteq Levels
    BY <2>1, <2>2
  <2>6. UnansweredLevels \ {"ignore"} \subseteq Levels
    BY <2>1
  <2>7. "unversioned" \in ToSet(proposed) => {settings.unchecked} \ {"ignore"} \subseteq Levels
    BY <2>1, <2>3
  <2> QED
    BY <2>4, <2>5, <2>6, <2>7
<1>5. CleanIsVetted'
  <2> SUFFICES ASSUME outcome' = "clean"
               PROVE  /\ \A r \in Listed : \/ reports[r].verdict = "ok"
                                           \/ settings.unchecked = "ignore" /\ reports[r].verdict \in {"none", "skipped"}
                      /\ "unversioned" \in ToSet(proposed) => settings.unchecked = "ignore"
    BY <1>1, <1>3 DEF CleanIsVetted
  <2>1. "fatal" \notin Levels /\ "warn" \notin Levels
    BY <1>1
  <2>2. "unversioned" \in ToSet(proposed) => settings.unchecked = "ignore"
    BY <1>2, <1>4, <2>1
  <2>3. ASSUME NEW r \in Listed
        PROVE  \/ reports[r].verdict = "ok"
               \/ settings.unchecked = "ignore" /\ reports[r].verdict \in {"none", "skipped"}
    <3>1. CASE reports[r] = NotReported
      <4>1. Unanswered # {} /\ reports[r].verdict = "none"
        BY <3>1 DEF Unanswered, NotReported
      <4>2. {"fatal"} \subseteq UnansweredLevels \/ {settings.unchecked} \subseteq UnansweredLevels
        BY <4>1 DEF UnansweredLevels
      <4> QED
        BY <1>2, <1>4, <2>1, <4>1, <4>2
    <3>2. CASE reports[r].verdict \in {"block", "warn"}
      BY <1>4, <2>1, <3>2 DEF FindingLevels
    <3>3. CASE reports[r].verdict = "skipped"
      BY <1>2, <1>4, <2>1, <3>3 DEF UncheckedLevels
    <3> QED
      BY <1>2, <1>3, <3>1, <3>2, <3>3
  <2> QED
    BY <2>2, <2>3
<1>6. RequiredDataStops'
  <2> SUFFICES ASSUME unavailable, ~(gone /\ Unanswered # {})
               PROVE  "fatal" \in Levels
    BY <1>1, <1>3 DEF RequiredDataStops
  <2>1. PICK r \in Listed : reports[r] = NotReported \/ (reports[r].code = 3 /\ reports[r].skips)
    BY <1>2
  <2>2. CASE reports[r] = NotReported
    <3>1. Unanswered # {}
      BY <2>2 DEF Unanswered
    <3> QED
      BY <1>4, <3>1 DEF UnansweredLevels
  <2>3. CASE reports[r].code = 3 /\ reports[r].skips
    BY <1>4, <2>3 DEF UncheckedLevels
  <2> QED
    BY <2>1, <2>2, <2>3
<1> QED
  BY <1>5, <1>6

LEMMA DecidesStep ==
  ASSUME HostsIInv, Decides
  PROVE  HostsIInv'
<1>1. /\ outcome = "" /\ child = NoChild /\ todo = <<>>
      /\ UNCHANGED <<host, settings, proposed, stage, todo, child, reports, unavailable, gone>>
  BY DEF Decides
<1>2. \A r : ~InTodo(r)
  BY <1>1, NothingTodo
<1>3. Names' = Names /\ Listed' = Listed
  BY <1>1 DEF Names, Listed
<1>4. CASE host = "bun"
  <2>1. stage = "scan"
    BY <1>4 DEF Decides
  <2>2. CleanIsVetted' /\ RequiredDataStops'
    BY <1>4, BunDecides
  <2>3. BunInv'
    BY <1>1, <1>2, <1>3 DEF HostsIInv, BunInv, InTodo
  <2> QED
    BY <1>1, <1>3, <1>4, <2>1, <2>2, <2>3 DEF HostsIInv, TodoInv, ChildInv, PnpmInv
<1>5. CASE host = "pnpm"
  <2>1. stage # "start" /\ outcome' = "clean"
    BY <1>5 DEF Decides
  <2>2. /\ proposed \cap {"git", "dangling"} = {}
        /\ \A r \in proposed \cap Names : reports[r].verdict \in {"ok", "warn"} /\ reports[r].code = 0
        /\ ~unavailable /\ proposed \in Lockfiles
    BY <1>1, <1>2, <1>5, <2>1 DEF HostsIInv, PnpmInv
  <2>3. CleanIsVetted' /\ RequiredDataStops' /\ PnpmInv'
    BY <1>1, <1>3, <1>5, <2>1, <2>2 DEF CleanIsVetted, RequiredDataStops, PnpmInv
  <2> QED
    BY <1>1, <1>3, <1>5, <2>1, <2>3 DEF HostsIInv, TodoInv, ChildInv, BunInv
<1>6. CASE host = "guarddog"
  <2>1. stage = "scan" /\ outcome' = (IF \A r \in Names : reports[r].verdict = "completed" THEN "clean" ELSE "unavailable")
    BY <1>6 DEF Decides
  <2>2. CleanIsVetted' /\ RequiredDataStops'
    BY <1>1, <1>3, <1>6, <2>1 DEF HostsIInv, CleanIsVetted, RequiredDataStops
  <2> QED
    BY <1>1, <1>3, <1>6, <2>1, <2>2 DEF HostsIInv, TodoInv, ChildInv, BunInv, PnpmInv
<1> QED
  BY <1>4, <1>5, <1>6 DEF HostsIInv

LEMMA InitHosts == HostsInit => HostsIInv
<1> SUFFICES ASSUME HostsInit PROVE HostsIInv
  OBVIOUS
<1>1. /\ stage = "start" /\ todo = <<>> /\ child = NoChild /\ unavailable = FALSE /\ outcome = ""
      /\ reports = [r \in Names |-> NotReported] /\ host \in {"bun", "pnpm", "guarddog"}
  BY DEF HostsInit
<1>2. \A r : ~InTodo(r)
  BY <1>1, NothingTodo
<1>3. BunInv /\ PnpmInv
  BY <1>1, <1>2 DEF HostsInit, BunInv, PnpmInv
<1>4. CleanIsVetted /\ RequiredDataStops
  BY <1>1 DEF CleanIsVetted, RequiredDataStops
<1> QED
  BY <1>1, <1>3, <1>4, NothingTodo DEF HostsIInv, ChildInv

LEMMA StepHosts == HostsIInv /\ [HostsNext]_hostVars => HostsIInv'
<1> SUFFICES ASSUME HostsIInv, [HostsNext]_hostVars
             PROVE  HostsIInv'
  OBVIOUS
<1>1. CASE HostsNext
  BY <1>1, BunPlanStep, PnpmPlanStep, GuardDogPlanStep, ChildSteps, BunReadsStep, PnpmReadsStep, GuardDogReadsStep,
     NotRunStep, GivesUpStep, DecidesStep DEF HostsNext
<1>2. CASE UNCHANGED hostVars
  <2>1. UNCHANGED <<host, settings, proposed, stage, todo, child, reports, unavailable, gone, outcome>>
    BY <1>2 DEF hostVars
  <2>2. Names' = Names /\ Listed' = Listed /\ (\A r : InTodo(r)' <=> InTodo(r)) /\ \A a : Documents(a)' = Documents(a)
    BY <2>1 DEF Names, Listed, InTodo, Documents
  <2>3. TodoInv' /\ BunInv' /\ PnpmInv'
    BY <2>1, <2>2 DEF HostsIInv, TodoInv, BunInv, PnpmInv
  <2>4. ChildInv'
    BY <2>1, <2>2 DEF HostsIInv, ChildInv
  <2>5. CleanIsVetted' /\ RequiredDataStops'
    BY <2>1, <2>2 DEF HostsIInv, CleanIsVetted, RequiredDataStops, Unanswered
  <2> QED
    BY <2>1, <2>2, <2>3, <2>4, <2>5 DEF HostsIInv
<1> QED
  BY <1>1, <1>2

(* No install goes on unquestioned, and no scan is clean, before every      *)
(* package was answered for by a run that ended by itself, and none goes on *)
(* after a run without data the policy requires: for any list of packages   *)
(* on command lines of any length, whatever the child writes, whenever it   *)
(* ends, is killed or goes missing.                                         *)
THEOREM HostsInstallsVetted == HostsSpec => []InstallsVetted
<1>1. HostsIInv => InstallsVetted
  BY DEF HostsIInv, InstallsVetted
<1> QED
  BY <1>1, InitHosts, StepHosts, PTL DEF HostsSpec
=============================================================================
