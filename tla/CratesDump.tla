----------------------------- MODULE CratesDump -----------------------------
(***************************************************************************)
(* The crates.io dump index, internal/registry/crates/dumpindex.  A        *)
(* refresh builds a whole generation in a staging directory, installs it   *)
(* by one rename and publishes it by replacing current.json; `cache clear` *)
(* removes current.json first, then the shards, then the directories.      *)
(* Both create the file refresh.lock exclusively and remove it when they   *)
(* end, and a scan reads without it.  A process may be killed between any  *)
(* two steps; the lock and the staging directory it leaves are removed by  *)
(* a person, once nothing runs, as docs/crates-dump.md describes.          *)
(*                                                                         *)
(* A generation is named after the archive it was built from, so it stands *)
(* for its snapshot; snapshots are numbered by their date.                 *)
(***************************************************************************)
EXTENDS Naturals

CONSTANTS
  Writers,    \* processes that refresh or clear
  Readers,    \* scans
  Snapshots,  \* the snapshots archives are made of
  Shards,     \* the shard files of a generation
  MaxMishaps  \* bound: how many times a process is killed or a file damaged

ASSUME CratesDumpAssumption ==
  /\ Snapshots \subseteq Nat \ {0}
  /\ MaxMishaps \in Nat

VARIABLES
  lock,      \* refresh.lock is there
  leftover,  \* a build-* directory nobody works in is there
  current,   \* the generation current.json names, 0 when there is none
  dirs,      \* the generation directories
  files,     \* the shard files in each of them
  pc,        \* where each writer is
  got,       \* the snapshot a refresh built
  toRemove,  \* what a clear found and has not removed yet: shard files ...
  toRmdir,   \* ... and directories
  reading,   \* the generation each reader opened, 0 when it has none
  opened,    \* readers that have found its directory
  quiet,     \* history: readers no clear has been running beside
  mishaps,   \* kills and damaged files so far
  stale      \* a killed process has left refresh.lock behind

disk == <<lock, leftover, current, dirs, files>>
local == <<got, toRemove, toRmdir>>
readers == <<reading, opened, quiet>>
accidents == <<mishaps, stale>>
vars == <<disk, pc, local, readers, accidents>>

Refreshing ==
  {"staging", "building", "comparing", "installing", "verifying", "publishing", "cleaning"}
Clearing == {"listing", "unpublishing", "removing"}
Places == Refreshing \union Clearing \union {"idle", "unlocking"}

TypeOK ==
  /\ lock \in BOOLEAN /\ leftover \in BOOLEAN
  /\ current \in Snapshots \union {0}
  /\ dirs \subseteq Snapshots
  /\ files \in [Snapshots -> [Shards -> {"good", "bad", "gone"}]]
  /\ pc \in [Writers -> Places]
  /\ got \in [Writers -> Snapshots \union {0}]
  /\ toRemove \in [Writers -> SUBSET (Snapshots \X Shards)]
  /\ toRmdir \in [Writers -> SUBSET Snapshots]
  /\ reading \in [Readers -> Snapshots \union {0}]
  /\ opened \subseteq Readers /\ quiet \subseteq Readers
  /\ mishaps \in 0..MaxMishaps /\ stale \in BOOLEAN

Empty == [s \in Shards |-> "gone"]
Whole == [s \in Shards |-> "good"]

Init ==
  /\ lock = FALSE /\ leftover = FALSE
  /\ current = 0 /\ dirs = {}
  /\ files = [g \in Snapshots |-> Empty]
  /\ pc = [w \in Writers |-> "idle"]
  /\ got = [w \in Writers |-> 0]
  /\ toRemove = [w \in Writers |-> {}]
  /\ toRmdir = [w \in Writers |-> {}]
  /\ reading = [x \in Readers |-> 0]
  /\ opened = {} /\ quiet = {}
  /\ mishaps = 0 /\ stale = FALSE

GoTo(w, place) == pc' = [pc EXCEPT ![w] = place]

-----------------------------------------------------------------------------
(* The lock file.                                                           *)

\* Mutant: the lock file is opened, not created exclusively.
LockShared(w) ==
  /\ pc[w] = "idle"
  /\ lock' = TRUE
  /\ \/ GoTo(w, "staging") /\ UNCHANGED quiet
     \/ GoTo(w, "listing") /\ quiet' = {}
  /\ UNCHANGED <<leftover, current, dirs, files, local, reading, opened, accidents>>

(* Refresh or Clear begins.  With the lock file there it fails instead.     *)
Lock(w) ==
  /\ pc[w] = "idle"
  /\ ~lock
  /\ lock' = TRUE
  /\ \/ GoTo(w, "staging") /\ UNCHANGED quiet
     \/ GoTo(w, "listing") /\ quiet' = {}
  /\ UNCHANGED <<leftover, current, dirs, files, local, reading, opened, accidents>>

Unlock(w) ==
  /\ pc[w] = "unlocking"
  /\ lock' = FALSE
  /\ GoTo(w, "idle")
  /\ got' = [got EXCEPT ![w] = 0]
  /\ toRemove' = [toRemove EXCEPT ![w] = {}]
  /\ toRmdir' = [toRmdir EXCEPT ![w] = {}]
  /\ UNCHANGED <<leftover, current, dirs, files, readers, accidents>>

-----------------------------------------------------------------------------
(* Refresh.                                                                 *)

\* MkdirTemp: the staging directory is there from here to Clean.
Stage(w) ==
  /\ pc[w] = "staging"
  /\ GoTo(w, "building")
  /\ UNCHANGED <<disk, local, readers, accidents>>

\* download, extract and build; the server may hold any snapshot.
Build(w, v) ==
  /\ pc[w] = "building"
  /\ got' = [got EXCEPT ![w] = v]
  /\ GoTo(w, "comparing")
  /\ UNCHANGED <<disk, toRemove, toRmdir, readers, accidents>>

\* Mutant: an older snapshot is not refused.
CompareNothing(w) ==
  /\ pc[w] = "comparing"
  /\ GoTo(w, "installing")
  /\ UNCHANGED <<disk, local, readers, accidents>>

\* A snapshot older than the published one is refused.
Compare(w) ==
  /\ pc[w] = "comparing"
  /\ GoTo(w, IF current > got[w] THEN "cleaning" ELSE "installing")
  /\ UNCHANGED <<disk, local, readers, accidents>>

(* The generation is renamed into place, unless a directory of its name is  *)
(* there, which is reused ...                                               *)
Install(w) ==
  /\ pc[w] = "installing"
  /\ IF got[w] \in dirs
       THEN GoTo(w, "verifying") /\ UNCHANGED <<dirs, files>>
       ELSE /\ dirs' = dirs \union {got[w]}
            /\ files' = [files EXCEPT ![got[w]] = Whole]
            /\ GoTo(w, "publishing")
  /\ UNCHANGED <<lock, leftover, current, local, readers, accidents>>

\* Mutant: a corrupt generation ends the refresh in a place nothing leads from.
VerifyWithoutReturn(w) ==
  /\ pc[w] = "verifying"
  /\ GoTo(w, IF files[got[w]] = Whole THEN "publishing" ELSE "corrupt")
  /\ UNCHANGED <<disk, local, readers, accidents>>

\* ... if every shard in it is there and has the right checksum.
Verify(w) ==
  /\ pc[w] = "verifying"
  /\ GoTo(w, IF files[got[w]] = Whole THEN "publishing" ELSE "cleaning")
  /\ UNCHANGED <<disk, local, readers, accidents>>

\* Mutant: the generation that was published before is pruned.
PublishAndPrune(w) ==
  /\ pc[w] = "publishing"
  /\ current' = got[w]
  /\ dirs' = {got[w]}
  /\ files' = [g \in Snapshots |-> IF g = got[w] THEN files[g] ELSE Empty]
  /\ GoTo(w, "cleaning")
  /\ UNCHANGED <<lock, leftover, local, readers, accidents>>

\* current.json is replaced by a rename.
Publish(w) ==
  /\ pc[w] = "publishing"
  /\ current' = got[w]
  /\ GoTo(w, "cleaning")
  /\ UNCHANGED <<lock, leftover, dirs, files, local, readers, accidents>>

\* Any step may fail, or find the context ended.
Fail(w) ==
  /\ pc[w] \in Refreshing \ {"cleaning"}
  /\ GoTo(w, IF pc[w] = "staging" THEN "unlocking" ELSE "cleaning")
  /\ UNCHANGED <<disk, local, readers, accidents>>

\* Mutant: a refresh that failed returns before it unlocks.
CleanKeepingLock(w) ==
  /\ pc[w] = "cleaning"
  /\ GoTo(w, IF current = got[w] THEN "unlocking" ELSE "idle")
  /\ UNCHANGED <<disk, local, readers, accidents>>

\* The deferred RemoveAll of the staging directory.
Clean(w) ==
  /\ pc[w] = "cleaning"
  /\ GoTo(w, "unlocking")
  /\ UNCHANGED <<disk, local, readers, accidents>>

-----------------------------------------------------------------------------
(* Clear.                                                                   *)

\* ownedFiles: a build-* directory refuses everything.
List(w) ==
  /\ pc[w] = "listing"
  /\ IF leftover
       THEN GoTo(w, "unlocking") /\ UNCHANGED <<toRemove, toRmdir>>
       ELSE /\ toRemove' = [toRemove EXCEPT ![w] =
                              {f \in Snapshots \X Shards : files[f[1]][f[2]] # "gone"}]
            /\ toRmdir' = [toRmdir EXCEPT ![w] = dirs]
            /\ GoTo(w, "unpublishing")
  /\ UNCHANGED <<disk, got, readers, accidents>>

\* Mutant: current.json goes last.
UnpublishLater(w) ==
  /\ pc[w] = "unpublishing"
  /\ GoTo(w, "removing")
  /\ UNCHANGED <<disk, local, readers, accidents>>

\* current.json comes before every generation in the order of the names.
Unpublish(w) ==
  /\ pc[w] = "unpublishing"
  /\ current' = 0
  /\ GoTo(w, "removing")
  /\ UNCHANGED <<lock, leftover, dirs, files, local, readers, accidents>>

\* The order of the digests is any order.
RemoveFile(w, g, s) ==
  /\ pc[w] = "removing"
  /\ <<g, s>> \in toRemove[w]
  /\ files' = [files EXCEPT ![g][s] = "gone"]
  /\ toRemove' = [toRemove EXCEPT ![w] = @ \ {<<g, s>>}]
  /\ UNCHANGED <<lock, leftover, current, dirs, pc, got, toRmdir, readers, accidents>>

RemoveDir(w, g) ==
  /\ pc[w] = "removing"
  /\ toRemove[w] = {}
  /\ g \in toRmdir[w]
  /\ dirs' = dirs \ {g}
  /\ toRmdir' = [toRmdir EXCEPT ![w] = @ \ {g}]
  /\ UNCHANGED <<lock, leftover, current, files, pc, got, toRemove, readers, accidents>>

\* Mutant: a clear ends with the files and leaves the directories.
ClearedFiles(w) ==
  /\ pc[w] = "removing"
  /\ toRemove[w] = {}
  /\ GoTo(w, "unlocking")
  /\ UNCHANGED <<disk, local, readers, accidents>>

Cleared(w) ==
  /\ pc[w] = "removing"
  /\ toRemove[w] = {} /\ toRmdir[w] = {}
  /\ GoTo(w, "unlocking")
  /\ UNCHANGED <<disk, local, readers, accidents>>

\* A removal fails: the clear ends there.
ClearFails(w) ==
  /\ pc[w] \in Clearing
  /\ GoTo(w, "unlocking")
  /\ UNCHANGED <<disk, local, readers, accidents>>

-----------------------------------------------------------------------------
(* What nobody asked for, and what a person does about it.                  *)

Kill(w) ==
  /\ pc[w] # "idle"
  /\ mishaps < MaxMishaps
  /\ mishaps' = mishaps + 1
  /\ stale' = TRUE
  /\ leftover' = (leftover \/ pc[w] \in Refreshing \ {"staging"})
  /\ GoTo(w, "idle")
  /\ got' = [got EXCEPT ![w] = 0]
  /\ toRemove' = [toRemove EXCEPT ![w] = {}]
  /\ toRmdir' = [toRmdir EXCEPT ![w] = {}]
  /\ UNCHANGED <<lock, current, dirs, files, readers>>

\* Bound: a file is damaged only while no writer is at work.
Damage(g, s) ==
  /\ \A w \in Writers : pc[w] = "idle"
  /\ files[g][s] = "good"
  /\ mishaps < MaxMishaps
  /\ mishaps' = mishaps + 1
  /\ files' = [files EXCEPT ![g][s] = "bad"]
  /\ UNCHANGED <<lock, leftover, current, dirs, pc, local, readers, stale>>

\* A lock that nobody was killed over is no reason to look.
RemoveLock ==
  /\ lock /\ stale
  /\ \A w \in Writers : pc[w] = "idle"
  /\ lock' = FALSE /\ stale' = FALSE
  /\ UNCHANGED <<leftover, current, dirs, files, pc, local, readers, mishaps>>

RemoveBuild ==
  /\ leftover
  /\ \A w \in Writers : pc[w] = "idle"
  /\ leftover' = FALSE
  /\ UNCHANGED <<lock, current, dirs, files, pc, local, readers, accidents>>

-----------------------------------------------------------------------------
(* A scan.                                                                  *)

\* Open reads current.json ...
ReadCurrent(x) ==
  /\ reading[x] = 0
  /\ current # 0
  /\ reading' = [reading EXCEPT ![x] = current]
  /\ quiet' = IF \A w \in Writers : pc[w] \notin Clearing
                THEN quiet \union {x} ELSE quiet \ {x}
  /\ UNCHANGED <<disk, pc, local, opened, accidents>>

\* ... and looks for the directory; without it the scan uses the API.
OpenDir(x) ==
  /\ reading[x] # 0 /\ x \notin opened
  /\ IF reading[x] \in dirs
       THEN opened' = opened \union {x} /\ UNCHANGED reading
       ELSE reading' = [reading EXCEPT ![x] = 0] /\ UNCHANGED opened
  /\ UNCHANGED <<disk, pc, local, quiet, accidents>>

\* The scan ends.  Its lookups change no file and take what they find: the
\* facts of the snapshot it opened, or an error.
CloseIndex(x) ==
  /\ x \in opened
  /\ opened' = opened \ {x}
  /\ reading' = [reading EXCEPT ![x] = 0]
  /\ UNCHANGED <<disk, pc, local, quiet, accidents>>

Step(w) ==
  \/ Unlock(w) \/ Stage(w) \/ Compare(w) \/ Install(w) \/ Verify(w) \/ Publish(w)
  \/ Fail(w) \/ Clean(w) \/ List(w) \/ Unpublish(w) \/ Cleared(w) \/ ClearFails(w)
  \/ \E v \in Snapshots : Build(w, v)
  \/ \E g \in Snapshots, s \in Shards : RemoveFile(w, g, s)
  \/ \E g \in Snapshots : RemoveDir(w, g)

Read(x) == ReadCurrent(x) \/ OpenDir(x) \/ CloseIndex(x)

Next ==
  \/ \E w \in Writers : Lock(w) \/ Step(w) \/ Kill(w)
  \/ \E x \in Readers : Read(x)
  \/ \E g \in Snapshots, s \in Shards : Damage(g, s)
  \/ RemoveLock
  \/ RemoveBuild

\* A writer that took the lock goes on, and a person comes to remove the lock
\* of a killed one.
Fairness == WF_vars(RemoveLock) /\ \A w \in Writers : WF_vars(Step(w))

Spec == Init /\ [][Next]_vars /\ Fairness

-----------------------------------------------------------------------------
(* The lock file keeps writers apart, through kills and the removal of      *)
(* abandoned locks (cache.go and dumpindex: "clearing shares the refresh    *)
(* lock").                                                                  *)
OneWriter ==
  \A v, w \in Writers : pc[v] # "idle" /\ pc[w] # "idle" => v = w

(* Whatever was killed, the generation current.json names is installed and  *)
(* has all its shard files.                                                 *)
PublishedIsWhole ==
  current # 0 => current \in dirs /\ \A s \in Shards : files[current][s] # "gone"

(* docs/crates-dump.md: "Older generations stay on disk so active readers   *)
(* can finish".  A scan beside which no clear ran finds all its shards.     *)
ReadersFinish ==
  \A x \in quiet : reading[x] # 0 =>
    /\ reading[x] \in dirs
    /\ \A s \in Shards : files[reading[x]][s] # "gone"

(* refresh.go: "refuses an older upstream snapshot".  What a refresh        *)
(* publishes is never older than what it replaces, and every shard of it is *)
(* sound when it is published ("A corrupted old generation cannot be        *)
(* published as fresh"), the generation it found in place included.         *)
PublishesForward ==
  [][\A w \in Writers : Publish(w) => current' >= current /\ files'[current'] = Whole]_vars

(* A clear that runs to its end leaves nothing, whatever earlier kills left *)
(* half done and whatever other processes did since it listed the files.    *)
Nothing == current = 0 /\ dirs = {} /\ \A g \in Snapshots : files[g] = Empty
ClearLeavesNothing == [][\A w \in Writers : Cleared(w) => Nothing']_vars

(* Nobody is locked out for good: every way out of a refresh or a clear     *)
(* gives the lock back, and only a killed one needs a person.               *)
LockComesBack == \A w \in Writers : pc[w] # "idle" ~> pc[w] = "idle" /\ ~lock

=============================================================================
