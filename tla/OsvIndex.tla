------------------------------ MODULE OsvIndex ------------------------------
(***************************************************************************)
(* The offline advisory index of one ecosystem, advisory/osvindex:         *)
(* `cache refresh` downloads an archive and rewrites the shard files one   *)
(* after the other, then the metadata; an offline run opens the index and  *)
(* reads shards as its lookups need them; `cache clear` removes the files  *)
(* in directory order, shards before metadata.  They are processes of      *)
(* their own and take no lock.  Each rename and each removal is a step, a  *)
(* refresh may fail or be killed between any two, and so may a clear.      *)
(*                                                                         *)
(* Archives are numbered in the order the server publishes them.           *)
(***************************************************************************)
EXTENDS Naturals, FiniteSets

CONSTANTS
  Refreshers,  \* processes that run `cache refresh`
  Readers,     \* processes that run checks with --offline
  S,           \* shards, numbered in the order WriteShards visits them
  Archives,    \* bound: how many archives the server publishes
  Holds,       \* Holds[v][s], the records archive v has for shard s
  MaxMishaps,  \* bound: how many times a refresh fails or a clear is run
  Absent,      \* no records, no file
  Unread       \* a shard a reader has not parsed yet

Shards == 1..S
Versions == 1..Archives
Processes == Refreshers \union Readers
Index == "index"

ASSUME OsvIndexAssumption ==
  /\ S \in Nat /\ MaxMishaps \in Nat /\ Archives \in Nat \ {0}
  /\ DOMAIN Holds = Versions /\ \A v \in Versions : DOMAIN Holds[v] = Shards
  /\ \A v \in Versions, s \in Shards : Holds[v][s] # Unread
  /\ Refreshers \intersect Readers = {} /\ Index \notin Processes

Records == {Holds[v][s] : v \in Versions, s \in Shards} \union {Absent}

VARIABLES
  server,    \* the archive the server offers
  shard,     \* the shard files
  meta,      \* the archive meta.json describes, 0 when there is none
  pc,        \* where each process is
  prev,      \* the metadata each process read
  got,       \* the archive each refresher downloaded
  at,        \* the next shard it writes
  parsed,    \* the shards each reader has parsed
  clearing,  \* the next file `cache clear` removes, 0 when none runs
  listed,    \* the files it found
  mishaps,   \* failures and clears so far
  untouched, \* history: the processes no `cache clear` has crossed the path of, and
             \* Index when a whole refresh has written the index since the last one
  suspect    \* history: the refreshes that began to write while an older archive was
             \* still being written, Index once the metadata is one of theirs, and
             \* the processes that read it then

files == <<shard, meta>>
clear == <<clearing, listed, mishaps>>
indexVars == <<server, shard, meta, pc, prev, got, at, parsed, clear, untouched, suspect>>

Places == {"idle", "counting", "asking", "keeping", "writing", "open"}

IndexTypeOK ==
  /\ server \in Versions
  /\ shard \in [Shards -> Records]
  /\ meta \in 0..Archives
  /\ pc \in [Processes -> Places]
  /\ prev \in [Processes -> 0..Archives]
  /\ got \in [Refreshers -> 0..Archives]
  /\ at \in [Refreshers -> 1..(S + 1)]
  /\ parsed \in [Readers -> [Shards -> Records \union {Unread}]]
  /\ clearing \in 0..(S + 1)
  /\ listed \subseteq 1..(S + 1)
  /\ mishaps \in 0..MaxMishaps
  /\ untouched \subseteq Processes \union {Index}
  /\ suspect \subseteq Processes \union {Index}

NothingParsed == [s \in Shards |-> Unread]

IndexInit ==
  /\ server = 1
  /\ shard = [s \in Shards |-> Absent]
  /\ meta = 0
  /\ pc = [x \in Processes |-> "idle"]
  /\ prev = [x \in Processes |-> 0]
  /\ got = [r \in Refreshers |-> 0]
  /\ at = [r \in Refreshers |-> 1]
  /\ parsed = [x \in Readers |-> NothingParsed]
  /\ clearing = 0
  /\ listed = {}
  /\ mishaps = 0
  /\ untouched = {Index}
  /\ suspect = {}

ShardsOf(v) == {s \in Shards : Holds[v][s] # Absent}
OnDisk == {s \in Shards : shard[s] # Absent}

GoTo(x, place) == pc' = [pc EXCEPT ![x] = place]

\* A process is done with the index, and with what it knew of it.
Returns(x) ==
  /\ GoTo(x, "idle")
  /\ prev' = [prev EXCEPT ![x] = 0]
  /\ got' = [r \in Refreshers |-> IF r = x THEN 0 ELSE got[r]]
  /\ at' = [r \in Refreshers |-> IF r = x THEN 1 ELSE at[r]]

Forgotten(x) == untouched' = untouched \ {x} /\ suspect' = suspect \ {x}

-----------------------------------------------------------------------------
Publish ==
  /\ server < Archives
  /\ server' = server + 1
  /\ UNCHANGED <<files, pc, prev, got, at, parsed, clear, untouched, suspect>>

(* readMeta, which refreshOne and Open begin with: the metadata ...         *)
ReadMeta(x) ==
  /\ pc[x] = "idle"
  /\ prev' = [prev EXCEPT ![x] = meta]
  /\ GoTo(x, "counting")
  /\ untouched' = IF clearing = 0 /\ (x \in Refreshers \/ Index \in untouched)
                    THEN untouched \union {x} ELSE untouched \ {x}
  /\ suspect' = IF Index \in suspect THEN suspect \union {x} ELSE suspect \ {x}
  /\ UNCHANGED <<server, files, got, at, parsed, clear>>

\* Mutant: metadata is usable whatever shards are left.
UsableAlone(v) == v # 0

Usable(v) == v # 0 /\ Cardinality(OnDisk) = Cardinality(ShardsOf(v))

(* ... and the shard files it counts.  A refresher without a usable index   *)
(* has nothing to revalidate; a reader without one has ErrNoIndex.          *)
CountShards(x) ==
  /\ pc[x] = "counting"
  /\ \/ /\ x \in Refreshers \/ Usable(prev[x])
        /\ prev' = [prev EXCEPT ![x] = IF Usable(prev[x]) THEN @ ELSE 0]
        /\ GoTo(x, IF x \in Refreshers THEN "asking" ELSE "open")
        /\ UNCHANGED <<got, at, untouched, suspect>>
     \/ /\ x \in Readers /\ ~Usable(prev[x])
        /\ Returns(x) /\ Forgotten(x)
  /\ UNCHANGED <<server, files, parsed, clear>>

-----------------------------------------------------------------------------
(* refreshOne.  The archive is the one prev came from: 304.                 *)
NotModified(r) ==
  /\ pc[r] = "asking"
  /\ prev[r] = server
  /\ GoTo(r, "keeping")
  /\ UNCHANGED <<server, files, prev, got, at, parsed, clear, untouched, suspect>>

\* The metadata is as good as what the process that writes it knew.
MetaIsOf(r) == suspect' = (IF r \in suspect THEN suspect \union {Index} ELSE suspect \ {Index}) \ {r}

\* Keep rewrites the metadata it read, with a new confirmation time.
Keep(r) ==
  /\ pc[r] = "keeping"
  /\ meta' = prev[r]
  /\ Returns(r)
  /\ MetaIsOf(r)
  /\ untouched' = untouched \ {r}
  /\ UNCHANGED <<server, shard, parsed, clear>>

\* download and BuildFromZip: nothing in place is touched.
Download(r) ==
  /\ pc[r] = "asking"
  /\ prev[r] # server
  /\ prev' = [prev EXCEPT ![r] = 0]
  /\ got' = [got EXCEPT ![r] = server]
  /\ at' = [at EXCEPT ![r] = 1]
  /\ GoTo(r, "writing")
  /\ suspect' = IF \E q \in Refreshers : pc[q] = "writing" /\ got[q] # server
                  THEN suspect \union {r} ELSE suspect \ {r}
  /\ UNCHANGED <<server, files, parsed, clear, untouched>>

\* Mutant: shards the new archive has nothing for are left behind.
NewShardKeepingOld(r) ==
  IF Holds[got[r]][at[r]] = Absent THEN shard[at[r]] ELSE Holds[got[r]][at[r]]

\* A shard is removed, left alone or replaced; the file then holds the same.
NewShard(r) == Holds[got[r]][at[r]]

\* Mutant: the metadata is written along with the first shard.
WriteShardAndMeta(r) ==
  /\ pc[r] = "writing"
  /\ at[r] <= S
  /\ shard' = [shard EXCEPT ![at[r]] = NewShard(r)]
  /\ at' = [at EXCEPT ![r] = @ + 1]
  /\ meta' = got[r]
  /\ UNCHANGED <<server, pc, prev, got, parsed, clear, untouched, suspect>>

WriteShard(r) ==
  /\ pc[r] = "writing"
  /\ at[r] <= S
  /\ shard' = [shard EXCEPT ![at[r]] = NewShard(r)]
  /\ at' = [at EXCEPT ![r] = @ + 1]
  /\ UNCHANGED <<server, meta, pc, prev, got, parsed, clear, untouched, suspect>>

WriteMeta(r) ==
  /\ pc[r] = "writing"
  /\ at[r] = S + 1
  /\ meta' = got[r]
  /\ Returns(r)
  /\ untouched' = (IF r \in untouched THEN untouched \union {Index} ELSE untouched) \ {r}
  /\ MetaIsOf(r)
  /\ UNCHANGED <<server, shard, parsed, clear>>

(* The refresh fails or is killed: what is in place stays.                  *)
Fail(r) ==
  /\ pc[r] \notin {"idle", "counting"}
  /\ mishaps < MaxMishaps
  /\ mishaps' = mishaps + 1
  /\ Returns(r) /\ Forgotten(r)
  /\ UNCHANGED <<server, files, parsed, clearing, listed>>

-----------------------------------------------------------------------------
(* packageEntry and readShard: a shard is parsed at the first lookup that   *)
(* lands in it and kept; a missing file means it has no records.            *)
Lookup(x, s) ==
  /\ pc[x] = "open"
  /\ parsed[x][s] = Unread
  /\ parsed' = [parsed EXCEPT ![x][s] = shard[s]]
  /\ UNCHANGED <<server, files, pc, prev, got, at, clear, untouched, suspect>>

CloseReader(x) ==
  /\ pc[x] = "open"
  /\ Returns(x) /\ Forgotten(x)
  /\ parsed' = [parsed EXCEPT ![x] = NothingParsed]
  /\ UNCHANGED <<server, files, clear>>

-----------------------------------------------------------------------------
(* clearEcosystem: list, then remove in directory order.  meta.json is the  *)
(* last name.                                                               *)
ClearBegins ==
  /\ clearing = 0
  /\ mishaps < MaxMishaps
  /\ mishaps' = mishaps + 1
  /\ clearing' = 1
  /\ listed' = OnDisk \union (IF meta = 0 THEN {} ELSE {S + 1})
  /\ untouched' = {}
  /\ UNCHANGED <<server, files, pc, prev, got, at, parsed, suspect>>

\* Mutant: the removal runs past the listing.
ClearNextPastTheEnd ==
  /\ clearing > 0
  /\ clearing' = clearing + 1
  /\ shard' = [s \in Shards |-> IF s = clearing /\ s \in listed THEN Absent ELSE shard[s]]
  /\ UNCHANGED <<server, meta, pc, prev, got, at, parsed, listed, mishaps, untouched, suspect>>

ClearNext ==
  /\ clearing \in Shards
  /\ clearing' = clearing + 1
  /\ shard' = [shard EXCEPT ![clearing] = IF clearing \in listed THEN Absent ELSE @]
  /\ UNCHANGED <<server, meta, pc, prev, got, at, parsed, listed, mishaps, untouched, suspect>>

ClearEnds ==
  /\ clearing = S + 1
  /\ clearing' = 0
  /\ listed' = {}
  /\ meta' = IF S + 1 \in listed THEN 0 ELSE meta
  /\ UNCHANGED <<server, shard, pc, prev, got, at, parsed, mishaps, untouched, suspect>>

ClearKilled ==
  /\ clearing # 0
  /\ clearing' = 0
  /\ listed' = {}
  /\ UNCHANGED <<server, files, pc, prev, got, at, parsed, mishaps, untouched, suspect>>

Refresh(r) ==
  \/ ReadMeta(r) \/ CountShards(r) \/ NotModified(r) \/ Keep(r)
  \/ Download(r) \/ WriteShard(r) \/ WriteMeta(r)

Read(x) == ReadMeta(x) \/ CountShards(x) \/ CloseReader(x) \/ \E s \in Shards : Lookup(x, s)

IndexNext ==
  \/ \E r \in Refreshers : Refresh(r) \/ Fail(r)
  \/ \E x \in Readers : Read(x)
  \/ Publish
  \/ ClearBegins \/ ClearNext \/ ClearEnds \/ ClearKilled

(* A refresh that was started goes on, and refreshes keep being started.    *)
IndexFairness == \A r \in Refreshers : WF_indexVars(Refresh(r))

IndexSpec == IndexInit /\ [][IndexNext]_indexVars /\ IndexFairness

-----------------------------------------------------------------------------
(* What an offline run reads of a shard is what the archive its metadata    *)
(* names, or a later one, has for it: wherever refreshes failed or were     *)
(* killed, it never takes a shard that is not there yet for one with no     *)
(* advisories.  Nothing keeps a clear from crossing its path, nor a refresh *)
(* from writing while another still writes an older archive; the runs that  *)
(* met the one or read the metadata of the other are excepted.              *)
ReadsAnArchive ==
  \A x \in (Readers \intersect untouched) \ suspect : pc[x] = "open" =>
    \A s \in Shards : parsed[x][s] # Unread =>
      \E v \in prev[x]..server : parsed[x][s] = Holds[v][s]

(* refresh.go and osvindex.go, Meta.DownloadedAt: "A refresh answered with  *)
(* 304 moves it forward: the copy on disk was confirmed current at that     *)
(* moment".  The shards a 304 keeps are the ones of the archive it names.   *)
ConfirmedIsCurrent ==
  [][\A r \in (Refreshers \intersect untouched) \ suspect :
       pc[r] = "asking" /\ pc'[r] = "keeping" =>
         \A s \in Shards : shard[s] = Holds[prev[r]][s]]_indexVars

Restored == meta = server /\ \A s \in Shards : shard[s] = Holds[server][s]

(* Whatever earlier failures, kills, clears and refreshes side by side left *)
(* on disk, refreshing restores the index of the archive the server offers, *)
(* unless the metadata of a refresh that overtook an older one stays: what  *)
(* it mixed is then confirmed by every 304 until the next archive.          *)
RefreshRestores == []<>(Index \notin suspect) => <>[]Restored

-----------------------------------------------------------------------------
(* read.go, Reader: "a ref of an ecosystem the index does not hold gets     *)
(* ErrNoIndex, never an empty answer that would look like "no advisories"". *)
NeverInventsNone ==
  \A x \in Readers : pc[x] = "open" =>
    \A s \in Shards : parsed[x][s] = Absent =>
      \E v \in prev[x]..server : Holds[v][s] = Absent

=============================================================================
