# Verification of trustdiff

trustdiff evaluates the packages a project is about to install: it resolves
each one, asks registries, OSV and deps.dev about it, runs a set of checks
(TD001 to TD017) under a policy and reports what they found. This directory
holds TLA+ models of its parts, the TLC runs over them and the theorems proved
about them.

    tlc -config MCMemo.cfg MCMemo        # any of the runs in PROJECT.json
    tlapm MemoProofs.tla                 # the proofs of one component

`PROJECT.json` maps every definition to the lines it models and lists the
components, the runs, the theorems, the hazards and, for each property, a
plausible bug that breaks it (the definitions marked `Mutant:` in the modules,
which nothing else uses).

## 1. The system

| part | state it keeps | operations | talks to | what is hard |
| --- | --- | --- | --- | --- |
| command line (`internal/cli`) | settings of one run | check, scan, diff, watch, baseline, policy, cache, hook, doctor | everything | exit codes, partial failure |
| check runner (`checks/runner.go`, `check.go`) | the subject and outcome of each input | Evaluate, resolve, load, runOne, skipAll, runCheck | loader, policy, checks | a goroutine per check, timeouts, interrupts, panics |
| checks (`checks/td*.go`) | none | Run | subject, loader | what counts as "not known" |
| per-run loader (`checks/loader.go`) | memos: key to answer, in flight or complete | one method per kind of data, Prefetch, PrefetchDownloads | registries, advisories, deps.dev | concurrent calls on one key, cancellation of one of them |
| registry, OSV and deps.dev clients | none but npm's last document | fetch, batch | HTTP cache | partial batches, facets that fail, removal between two requests |
| HTTP cache (`httpcache`) | two files per entry, a mutex per entry and process | Get, Post, Clear, Stat | servers, the disk, other processes | two renames per write, processes without a common lock, retries |
| OSV index (`advisory/osvindex`) | shard files and metadata per ecosystem | Refresh, Open, Lookup, Clear | OSV's archives, the disk, other processes | a rewrite in many renames, kills, no lock |
| crates dump (`registry/crates/dumpindex`) | generations, `current.json`, a lock file | Refresh, Open, lookup, Clear | crates.io dump, the disk | stale locks, half cleared generations |
| baseline (`baseline`, `cli/baseline.go`) | one JSON file in the repository | Observe, Update, Compare, Lookup | loader, git | read-modify-write by concurrent runs, partial observations |
| watch (`watch`) | the previous snapshot | the loop, compare | runner | what may be called cleared |
| policy (`policy`, `cli/policy_allow.go`) | the policy file | Discover, Load, Effective, Allowed, allow --write | runner, a person's editor | overrides, expiry, globs, a write beside an edit |
| lockfile diff (`gitdiff`, `cli/diff.go`) | none | base, changed files, pairing, plan | git, runner | pairing, unreadable sides |
| manifests and versions (`manifest`, `model/version`) | none | Resolve, Allows, Compare | loader | ordering, bounds of ranges |
| doctor and configuration editors (`doctor`, `configfile`, `textdiff`) | the files they edit, backups | detect, fix, back up, write | the disk | byte-exact edits, overlapping runs, kills |
| GuardDog bridge, Bun scanner, pnpm hook | none | run a process, map its report | external programs | deadlines, pipes, partial reports |

One run goes like this. The command line parses inputs and hands them to the
runner. The runner resolves every input (`resolve`, concurrently), tells the
loader to prefetch in batches, then assembles a subject per input (`load`, again
concurrently) and runs the checks over it one after the other, each in a
goroutine of its own. Everything the runner and the checks ask goes through the
loader's memos, so that one run sees one answer per package; a memo asks a client,
the client asks the HTTP cache, and the cache asks the disk and the network.
Offline runs read the OSV index instead. Several trustdiff processes may share
the cache directory, the baseline and the configuration files at any moment.
`diff` and `check` decide what a run is about and what its exit code says; `watch`
repeats runs and reports what changed; the integrations run trustdiff as a child.

What makes each part correct:

* loader: one fetch per key, one answer per key, no call is told of somebody
  else's cancellation, every call returns;
* runner: every applicable check is filed exactly once, nothing passes for lack
  of data, `Unavailable` says whether data was missing, allow entries hide
  exactly what they cover, a late check changes nothing, Evaluate returns;
* checks: a failed request never turns a finding into a pass or makes one up;
* clients: an answer is whole and of the package that was asked about; what
  could not be read is named;
* HTTP cache: a reply is something the server said, recent enough for whoever
  asked, and the entry's lock is always released;
* OSV index: a read is of a published archive, a confirmation confirms what is on
  disk, a refresh repairs anything, a lookup finds what the archive says;
* crates dump: a reader gets its snapshot's facts or an error; the published
  snapshot is whole and never goes back; kills are recoverable;
* baseline: a recorded signal is lost only when replaced or dropped on purpose,
  drift is reported before it is recorded, a change under review does not vouch
  for itself;
* watch: a finding is called cleared only when a check ran to its end and found
  nothing; the events tell all;
* policy: each field by the most specific statement, an exception grants exactly
  what it says;
* diff, check: what would be installed is evaluated, against the right base;
* doctor: what a person wrote is never lost, and what was fixed stays fixed unless a run
  that overlapped had read the file before;
* hosts of a child: nothing unvetted is installed, and they decide in the end.

## 2. Modules

| module | models | checked by |
| --- | --- | --- |
| `OneAnswer` | what the loader promises a run: an abstract specification | `memo` |
| `Memo` | `memo.do` and `memo.store` under the loader's methods and prefetches | `memo`, `memo_panic` |
| `Runner` | `Evaluate` and everything it files | `runner` |
| `HttpCache` | one disk-cache entry shared by requests of several processes | `http_cache` |
| `OsvIndex` | the offline advisory index of one ecosystem, as files | `osv_index` |
| `Affected` | what an OSV archive says of a version | `osv_index`, `osv_zero` |
| `CratesDump` | the crates.io dump index under its lock file | `crates_dump` |
| `Baseline` | the baseline and the commands that read and write it | `baseline` |
| `Verdicts` | what each check concludes, as operators over facts and failures | `evaluation` |
| `Evaluation` | one check evaluated while facts change and requests fail | `evaluation` |
| `Watch` | the watch loop over `Evaluation`: snapshots, comparison, events | `evaluation` |
| `Diff` | the diff command from base to exit code | `diff` |
| `Versions` | version orders and what a range allows | `diff` |
| `Check` | the check command: references and manifests to exit code | `diff` |
| `Doctor` | doctor --fix: judge, read, back up, write | `doctor` |
| `Policy` | the policy file, and policy allow --write | `doctor` |
| `Batches` | the batched calls of OSV, the index, deps.dev and npm's counts | `clients` |
| `Registries` | the several requests about one version of a package | `clients` |
| `Hosts` | Bun's scanner, the pnpm hook, the GuardDog bridge and their child | `clients` |
| `ConfigProofs` | the theorems about `Doctor` and `Policy` | |
| `WatchProofs` | the theorems about `Verdicts`, `Evaluation` and `Watch` | |
| `ClientsProofs` | the theorems about `Batches`, `Registries` and `Hosts` | |
| `RunnerProofs` | the theorems about `Runner`, `OsvIndex` and `Affected` | |
| `BaselineProofs` | the theorems about `Baseline`, `Diff`, `Check` and `Versions` | |
| other `*Proofs` | the theorems about the module they are named after | |
| `MC*` | the instances TLC checks | |

How they fit together. `Memo` is what `Check` and the loader's callers rely on: one
answer per key and run. `Verdicts` gives the conclusions that `Evaluation` and, over
time, `Watch` evaluate; `Runner` abstracts a check to the sources it reads and
files what it returns. `Diff` and `Check` take an evaluation to be a choice among its
possible results, which are those `Runner` can file. `Affected` says what is in the
files whose life `OsvIndex` follows. Some MC modules hold two or three components
that share nothing: a variable (`part`, or `watching`) says which one a behaviour is
of, the others rest at one initial state, and the properties of each hold throughout.

### Memo

`entries[k]` is the memo's map. An entry is identified with whoever made it, a
call or a batch: a call makes at most one entry and a batch at most one per key,
so nothing is lost. `ready`, `value` and `abandoned` are the fields of
`memoEntry`. A call goes through `Begin` (the method's guards: a key no source
indexes is refused without touching the memo), `Look` (up to the unlock in `do`),
then either the two branches of the waiter's `select` (`WaiterWakes`,
`WaiterLeaves`) or the fetch, which ends in `Complete`, in `Drop` followed by
`Abandon` (the deletion under the mutex and what comes after it are separate
steps, as in the code) or in `FetchPanics`. `BatchEnds` is the answer of one
request of a prefetch, of which only certain shapes exist (`BatchReplies`), and
`Store` stores it key by key. `RunEnds` and `TimeoutPasses` are the two ways a
context ends.

Fairness: a call that was started goes on (goroutines are scheduled, every
request has its own timeouts) and a timer that runs fires. `Begin` and batches
have none: nobody owes a call.

### Runner

A subject is a `stage`, the index of its `next` check and the `outcome` under
construction. `Start` is `forEach`'s semaphore. `Resolutions` lists what `resolve`
can decide; `Load` covers `load` and `loadBase` and leaves in `unavail` the status
of each source: "ok", "definite" or "outage", the distinction of `definite()` in
`check.go`. Then, per check: `SkipCheck` (skipped without running: the subject was
not loaded, `cooldown_exclude`, an allow entry for a check that would ask for
counts) or `StartCheck` followed by the two branches of `runCheck`'s `select`,
`CheckReturns` and `CheckUnfinished`; `LateReturns` is the goroutine that was left
behind. `Close` ends the subject, with `skipAll`'s recomputation of `Unavailable`.

A check is abstracted to what it reads: the sources that settle it (`Reads`), one
it cannot do without (`Requires`), whether it reads the lockfile entry alone
(`LockOnly`) and whether it asks the loader itself (`Asking`). `Results` gives
what such a check can return, after TD001, TD009, TD012 and TD013; `Verdicts` has
each check in full. `N`, `M` and `Jobs` are the inputs, the applicable checks and
the concurrency. Levels, the order of findings and all text are left out.

Fairness: the runner's own steps and the per-check timer. Nothing is assumed of a
check: it need not return.

### HttpCache

The entry's two files are `body` and `meta`; what a file holds is the document it
was written for. Each system call that reads, renames or removes one is a step.
`LockKey` is the mutex, which is per process, so that requests of different
processes interleave freely. `Answered`, `NotModified` and `Failed` are one
attempt of `fetch` and the loop's decision after it; `Stops` is the caller's
context. `Publish` changes the server's document and `held` remembers, per unit of
time, what the server held, which is what the properties compare with. `Die` kills
a process between any two steps and `Clear` is `cache clear`. The unit of time is
`DefaultTTL`; an attempt takes none. No fairness is stated: the properties are
about what a reply says and who holds the lock.

### OsvIndex and Affected

`shard[s]` and `meta` are the files. A refresher reads the metadata and counts the
shards (`ReadMeta`, `CountShards`: `readMeta` is two system calls and a lot can
happen between them), is answered 304 (`NotModified`, `Keep`) or downloads an
archive (`Download`) and writes it (`WriteShard` once per shard in order,
`WriteMeta`). `Fail` ends it anywhere. A reader opens the index by the same two
steps and parses shards as lookups need them. A clear lists the directory
(`ClearBegins`), removes what it listed in order (`ClearNext`, `ClearEnds`) and may
be killed (`ClearKilled`). Archives are numbered in the order they are published.

`untouched` is a history variable: which processes have not had a clear cross
their path, and whether the index has been rewritten in full since the last one.
The properties need it because a clear in the middle of a reader's or a
refresher's work does break them (`MCOsvIndexClear.cfg`). `suspect` is another: the
refreshes that overtook an older one, the metadata they wrote and who read it (section 3).

Fairness: a refresh goes on, and another is started after it (the command is meant
to be run on a schedule). Failures and clears are finitely many (`MaxMishaps`). A clear
beside several refreshers is left to the proofs. `RefreshRestores` has a premise, that the
metadata is again and again that of a refresh that overtook nobody; nothing in the code
brings that about before the next archive.

`Affected` is the content: `BuildFromZip` makes the records of an archive's members
(merging members of one advisory, flattening the events of its ranges) and `LookUp`
reads them for a version, bound by bound. A version or bound is its place in the
ecosystem's order, or a text that order does not accept. What the property compares
with is a reading of the events as the OSV schema has them.

### CratesDump

`current` is what `current.json` names, `dirs` and `files` are the generation
directories and their shards, `lock` is `refresh.lock`, `leftover` a `build-*`
directory nobody works in. A writer's place (`pc`) follows `Refresh` from the
staging directory (`Stage`) over download, extraction and build (`Build`), the
comparison with the published snapshot (`Compare`), the rename into place or the
reuse of a directory of that name (`Install`, `Verify`) to the rename of
`current.json` (`Publish`) and the deferred removals (`Clean`, `Unlock`); or it
follows `Clear`: `List`, `Unpublish` (`current.json` sorts before every `g-*`
directory), `RemoveFile`, `RemoveDir`, `Cleared`. `Fail` and `ClearFails` end
either anywhere. `Kill` stops a process between any two steps, `Damage` corrupts a
shard, and `RemoveLock` and `RemoveBuild` are what `docs/crates-dump.md` asks a
person to do after a forced termination, when nothing runs. `ReadCurrent`,
`OpenDir` and `CloseIndex` are a scan's; every shard it reads is checked against the
digest in the metadata it opened, so that what can go wrong for it is that the
shard is not there.

A generation is named after the digest of its archive; the model takes it to stand
for its snapshot, so two archives of one snapshot are left out. `quiet` is a history
variable, the scans beside which no clear has been running, and `stale` says that a
killed process has left its lock behind.

Fairness: a writer that has the lock goes on, and somebody comes to remove the lock
of a killed one (but no other: a lock that a finished process forgot stays).

### Baseline

`file` is the working tree's record and `base` the base revision's. A run is a
`baseline` (a snapshot of all that is locked), a `scan` or a `diff` with
`--update-baseline`: `Begin` reads the record it compares with and plans what it
looks at, `Ask` is one package's observation, in which the release, its publishing
evidence and the maintainers may each stay unread, `Report` is the exit of a run
that found drift or something worse, `LoadFile` is Update's own reading of the file
and `WriteFile` its rename. `Put` and `Merge` are the operators of those names.
`ChangeOwners`, `LockAt`, `Edit` and `Commit` are the world around a run. A release
half of an entry is abstracted to the release each of its parts was read from, so that
a part of one release filed under another shows. `replaced` and `overlap` are history
variables. Runs have no lock, and nothing makes them finish: there is no fairness.

### Verdicts, Evaluation, Watch

`Verdicts` has an operator per check, over `f`, the facts (what every request would
have answered), and `d`, the requests that could not be made. A verdict is its
findings with what they rest on, whether the check was skipped, and the failures the
skip names, which is what counts for `on_data_unavailable`. The order in which a
check reads and gives up is kept, since it decides which failure hides which.
`Evaluation` changes one fact at a time and evaluates with any `MaxDown` of the
requests failing, and compares with the same check when nothing fails. `Watch` puts
an entry of the report through cycles: `Cycle` evaluates, compares with the last
snapshot (`seen`) and emits, `Wait` is the interval, `Stop` the end of the loop;
`ledger` is what somebody believes who reads the first report and then the events.

### Diff

A `Scenarios` member is a repository: what three commits and the working tree hold of
each lockfile, the flags and the policy. `Resolve` is the choice of the base
(`--base`, `origin/main`, the merge base, the parent), `List` the changed files,
`Compare` one file with its three pairing passes (`Partners`: the same artifact, the
same version, the same name), `GitFails` the end of a run whose git call failed,
`CompareWithFile` is `--base-file`, `DiffPlan` the inputs of the evaluation and
`Evaluate` the exit code. `Installs` is what a parsed lockfile is folded to, line by
line (`Install`), and `PairBy` one pass over the head entries (`Pair`). `Rewrite` is a
package manager that rewrites a lockfile between two steps. The properties do not use
either: `Brings` says by the lines of a file which artifacts it brings in, and they
compare that of the two sides. A line that only stops being bundled changes no
artifact, as `artifactKey` has it (`lockfile.go:139`).

### Versions and Check

`Versions` orders parsed versions and decides ranges, the bounds of a caret, a tilde or
a partial computed as the code computes them. `Check` resolves the declarations of
the manifests a command is given, one `ResolveDeclaration` at a time against a
registry that goes on publishing (`Release`), `Collect`s what they resolved to
and ends in `Judge`. What the property compares with says what a range means by its
pieces ("the leftmost piece that is not zero stays"), not by bounds. `BoundsTell` names
the ranges for which the two differ in the code: section 3 has the examples. `Begins`
is what a manifest and a registry can be given as: every operator a reader of a manifest
accepts, over every version it parses.

### Doctor

A run is a record: where it is, the results of its rules, the content it read, the
files it has copied and fixed. `Begin` starts it, `Judge` is the detection of one of its
rules, then, rule by rule, `Read` (the second reading and the edit in memory),
`BeginBackup`, `EndBackup`, `RefuseBackup`, `SpoilBackup` (the copy and its ways to
fail), `Write` and `FailWrite`. `Kill` stops it anywhere and `Tick` is the second
that a backup is named after. A person edits (`Edit`) while no run is active, which is
the situation `docs/doctor.md` describes. Two variables are history: `left`, each file as a
person last left it, and `exposed`, the fixes written while another run had read the
file and was about to replace it, or in a file a person has edited since.

### Policy

`Load` is discovery and decoding: the nearest policy file, by directory and by name,
or an error if that one cannot be read. `Effective` and `Allowed` settle a check
field by field. `policy allow --write` is `Review` (read, build the new text, show it),
`CompareAgain` (the second reading) and `WriteAllow` (the rename), with `GiveUpAllow`
wherever it stops, beside `EditPolicy`. An instant is half a day, so that an exception
has an instant on its last day and one after it.

### Batches, Registries, Hosts

`Batches` follows one batched call: pages (`QueryPage`, `QueryFails`), records
(`DetailRead`, `DetailFails`, `DetailNotRequested`), `Assemble`, the index in place of
both (`IndexAnswers`), deps.dev's responses attributed to requests
(`DepsDevAnswers`), npm's counts with what is asked one by one afterwards
(`DownloadsAnswered`, `AskAlone`), and an interrupt (`Cancel`).

`Registries` follows the requests that callers make about one version (`Requests` lists
them per client and operation): each is read, missed, refused or answered "not found",
while `Revise` changes the document or removes the version, then the package. That the
version itself is published while a run asks about it is left out: npm's client would
go on saying "not found" from the document it has. npm's
client keeps the document (`Fetched`, `Keep`, `FromKept`).

`Hosts` has the child (`Start`, `Exits`, `TimeUp`, `Floods`, `LetsGo`), what each host
reads of it and what it decides. Fairness: timers fire and a host goes on by itself.
A child need not end, nor whoever holds its pipes let go.

## 3. Runs

| run | instance | shows |
| --- | --- | --- |
| `memo` | 3 calls on one key (2 timed), 1 on an unsupported key, 1 batch, 1 value, 1 failure | `OneFetch`, `CancelledIsOwn`; `KeepsPromise`: Memo implements OneAnswer; `CallsReturn`: every call returns or waits behind a panicked one |
| `memo_panic` | the same | finding: `PanicStaysInItsCheck` is violated |
| `runner` | 2 subjects over 1 slot, the second of 4 kinds, 4 checks of 4 shapes | `EachCheckFiled`, `NoPassForLackOfData`, `FiledIsFinal`, `EvaluateReturns` |
| `http_cache` | 2 processes, 3 requests, a document and another of its length or a 404, 1 retry, 2 units of time, 1 kill, 1 clear | `HonestReply`, `BoundedStaleness`, `EntryFreed` |
| `osv_index` | 1 refresher, 1 reader, 3 shards, 3 archives, 2 mishaps; 2 refreshers, 1 reader, 2 archives, 1 failure; and every line of up to 3 events, and up to 3 members of 7 kinds | `ReadsAnArchive`, `ConfirmedIsCurrent`, `RefreshRestores`; `AffectsAsPublished` |
| `osv_zero` | the same archives, asked about a prerelease of the first version | finding: `ZeroIsTheBeginning` is violated |
| `crates_dump` | 2 writers, 1 scan, 2 snapshots of 2 shards, 2 mishaps | `PublishedIsWhole`, `ReadersFinish`, `PublishesForward`, `LockComesBack` |
| `baseline` | 2 runs of any kind, 1 package, 2 releases, 3 owner listings, 1 change of the world, 2 starts | `RecordedWasSeen`, `DriftReported`, `BaseDecides`, `RecordKeeps` |
| `evaluation` | 14 checks over the whole range of their facts, 2 failing requests; watch cycles with 1 | `OutagesShow`, `InventsNothing`, `LostHashIsJudged`; `ClearedIsTrue`, `EventsTellAll` |
| `diff` | every pair of files of up to 2 lines of 9, up to 3 of 4; every combination of refs, flags and 4 contents; manifests of one range of every form against every near version, and small ones beside failing registries | `ZeroVouches`, `PairedWithItsOwn`, `OwnChangesOnly`; `EvaluatesWhatInstalls` |
| `doctor` | 2 runs, 3 rules over 2 files, 1 edit, 2 seconds; policies of every pair of statements about 2 checks, 5 packages, 2 askers, 1 edit, 2 and a half days | `NothingLost`, `FixesStick`; `JudgedAsWritten`, `GrantsExactly` |
| `clients` | 4 packages in batches of 2, 5 advisories, 2 pages; 2 callers, 1 revision, 2 files; 3 packages, command lines of 2 | `AnsweredOrLost`; `TellTheRegistry`; `InstallsVetted`, `HostDecides` |

Why these bounds are enough to be interesting.

* Memo: an abandoned entry needs a fetcher and a waiter, a second fetch after it a
  third call, and a batch to race them; a second value adds nothing, since a
  failure is memoized like one.
* Runner: checks meet only in the outcome of their subject, so one subject of each
  kind shows all filing; the second over one slot shows the semaphore, and it is held
  by a subject whose check never returns.
* HttpCache: a torn entry needs a writer and a reader in different processes, and two
  documents of one length for the pair to be believed; the second request of one process
  is there for the mutex, and to read what the others tore; the server changes once per
  unit of time, so that a document goes and comes back; the TTLs 1 and 3 against a
  clock of 0 and 1 make an entry fresh for one request and expired for another.
* OsvIndex: three shards are the smallest number over which two archives with
  equally many shards can be mixed without the count giving it away, and a third archive
  is one that was published between two failures; two refreshers and two archives are
  enough for one to overtake the other. Affected: three
  events are an interval and what opens or closes a second one.
* CratesDump: one kill leaves a lock or half a clear and a second one interrupts what
  follows; two snapshots make an older and a newer one; damage falls only between
  writers, as nothing can tell a shard that is damaged after it was verified.
* Baseline: packages share no state; two runs overlap in every way; one change before,
  between or after them makes drift, and an edit or a commit counts as one.
* Evaluation: a check asks at most a few sources, and two failures are enough for one
  to hide the other.
* Diff: three lines are two copies of a version and a bump, the smallest case the three
  passes can disagree on. Check: pieces 0 and 1, with one version below and above
  each bound, show every boundary.
* Doctor: two rules on one file and one on another are enough for one fix to follow
  another in a file, of the run or of another run, and for the loss of one to an overlap;
  two seconds make equal and different backup names.
* Clients: the second batch is full while the first failed, two pages and a record that
  fails twice reach each limit; pnpm's and Bun's command lines are cut once.

`CHECK_DEADLOCK FALSE` is set throughout: every one of these systems ends (all
calls have returned, the evaluation is done, the bounds on time, edits and archives
are used up).

### Where the code and its documentation differ

Two runs expect a violation, and `findings` in `PROJECT.json` quotes what each is about:

* `memo_panic`: a fetch that panics leaves its entry in flight, and a call that has
  no timeout of its own, as those of `load` have not, waits behind it until the run
  is interrupted. The runner recovers the panic of the check and nothing else.
* `osv_zero`: an advisory introduced at "0", which the index's documentation says is
  the beginning of the history, does not affect prereleases of 0.0.0
  (`read.go:270`, `osvindex.go:175`).

These configurations are kept beside them. TLC violates each; they show how far the
properties of the passing runs could be stated, and why they say no more:

| configuration | property | what it shows |
| --- | --- | --- |
| `MCRunnerUnavailable` | `UnavailableWhenUnread` | `skipAll` assigns `Unavailable` after its loop and forgets a lockfile check that timed out (`runner.go:496`) |
| `MCRunnerExpired` | `ExpiredAllowReported` | a subject that could not be resolved or loaded gets no TD000 for its expired allow entry (`runner.go:417`, `docs/checks.md:33`) |
| `MCHttpCacheLength` | `ReaderFindsItsBody` | the length is all that ties a body to its metadata, so that processes may pair those of two documents of equal length (`disk.go:245`) |
| `MCOsvIndexClear` | `NeverInventsNone` | a reader that opened the index before a clear takes removed shards for empty ones (`read.go:157`) |
| `MCBaselinePublisher` | `PublisherStaysKnown` | an observation that read the release but not its evidence erases the recorded publisher |
| `MCBaselineScan` | `ScanReportsDrift` | a scan may record maintainers whose change it could not report |
| `MCEvaluationUsage` | `NeverPassesForLackOfData` | TD008 passes what it would have reported when some of its requests fail (`docs/checks.md`) |
| `MCDoctorBackup` | `BackupIsTheirs` | a run backs up a file that it created itself (`fix.go:126-144`, `fix.go:28-32`) |

Other differences met while modelling, which the models have as the code has them:

* Runs of `baseline` overlap without a lock, so that the later write loses what the
  earlier one recorded; a snapshot writes before it reports; against a revision
  without a baseline a change under review vouches for itself.
* TD004: a failed deps.dev request about the predecessor is not among the failures it
  names, so that a downgrade passes; with deps.dev down an attestation only deps.dev
  had verified reads as a downgrade. TD005, TD007: a base version with a facet that
  was not gathered is passed over. TD011: an unknown archived facet passes. TD003,
  TD004, TD005, TD007: a version list that failed reads as "no earlier release", names
  no outage and is not counted; so does TD002's facet. TD012 reports deps.dev's low
  usage while the registry's count is unread. `PassesUnread`, `Uncounted` and
  `SecondSource` in `Evaluation` list these, and no others exist in the model.
* npm: a version document that is not understood keeps its time and names no unknown
  facet (`npm.go:755`). crates.io: failing dependencies fail the whole version. PyPI:
  "not found" for the provenance of a removed file reads as none. OSV: an advisory's
  malicious entry is lost with a neighbour's failed record (`osv.go:297`).
* Bun's scanner waits for the child's pipes however long another process holds them;
  after a run that ended with exit code 3 and left a package out, a binary that goes
  missing under "ignore" loses the 3.
* npm and Cargo: the upper bound of a range is a release (`<2.0.0`, not `<2.0.0-0`), so
  that the prereleases of that release are below it, and a set lets a prerelease in when
  any of its terms names one of the same numbers (`semver.go:199`). A second term can
  therefore let in what the first one alone never would: `^1.0.0 >=2.0.0-rc.1` allows
  2.0.0-rc.1, and so does the hyphen range `2.0.0-rc.1 - 1`.
* Poetry: a caret or tilde of a version with an epoch has an upper bound without it
  and allows nothing (`pep440.go:421`). PEP 440 `===` never compares a text that is no
  version (`pep440.go:56`) and does not admit the prerelease it names.
* Watch: TD000 shows as coverage_restored; GuardDog's entry leaves as
  analysis_not_requested when the verdict drops below it.
* Refreshes of the OSV index overlap without a lock (`refresh.go:70`). One that begins to
  write while another still writes an older archive may end first: the other's later
  shards then stand under its metadata, and when the count of shards agrees every 304
  confirms them until the next archive is published. `suspect` marks such a refresh, the
  metadata it wrote and who read that; the properties say nothing of these.
* The cache pairs a body with its metadata by length alone (`disk.go:233`), so that of two
  documents of one length one may be served under the other's status and time. The
  properties grant the body that much and no more (`Describes`).
* A lockfile entry that was and stays a path and loses its hash, as npm's local tarballs
  can, is reported by TD016 at info (`td016.go:127`) and exempt from TD014
  (`td014.go:112`). `LostHashIsJudged` names this one case.
* Bun's scanner passes an entry without a name with a line on stderr only, whatever the
  setting for what was not checked.
* An edit that falls between the last comparison of `policy allow --write`, or the
  reading of a `doctor --fix` rule, and the rename is overwritten.
* Runs of `doctor --fix` overlap without a lock, and each writes the whole file it had
  read: on a file that lacks two settings the later write drops what the other run wrote
  in between. A run that overlaps usually writes the setting again, as it judged it
  missing too; but on an .npmrc that lacks three, two runs can both end with no failure,
  and one setting that both reported as written is not there. `exposed` marks such a fix,
  and `FixesStick` says that no other is lost.
* Diff: entries a parser drops and lockfiles git does not track leave a run complete.

## 4. Proofs

All assumptions are the named ones of the modules: the constants have their types, and
model values are distinct from each other. What a module's `ASSUME` says beyond that is
given below. Fairness plays no part in a proof. In each `*Proofs` module `IInv` (with a
prefix where a module proves about several components) is the inductive invariant, an
`Init` and a `Step` lemma show it so, action by action, and the theorems follow from it.

* `MemoProofs`: `MemoTypeOK`, `MemoOneFetch`, `MemoCancelledIsOwn`, and
  `MemoKeepsPromise`, `Spec => OneAnswer!Spec` under the mapping that takes the answer of
  a key to be that of its completed entry. A batch is assumed to cover only keys some
  source indexes. `OneFetch` needs to know that a fetching call owns the entry of its
  key and that the entry is not ready (`CallInv`), and who made each entry
  (`EntryInv`). `CancelledIsOwn` needs that what a waiter waits on is the entry of its
  key or one that is, or is about to be, marked abandoned (`WaitInv`): this is what
  makes it safe to delete the entry first and mark it later. The refinement needs that
  what a batch has left to store are answers (`BatchInv`) and that a call returned the
  answer its key is settled with (`ResultInv`).
* `RunnerProofs`: `RunnerTypeOK`, `RunnerEachCheckFiled`, `RunnerNoPassForLackOfData`,
  `RunnerFiledIsFinal`, for any number of inputs, checks and sources. A subject's state
  is touched by its own steps only, so the invariant is one per subject (`SubjectInv`):
  what it has filed is exactly the checks before `next` (`FiledSoFar`), as the allow
  entries have it (`AllowedSoFar`), `unavailable` agrees with what went unread
  (`CountedSoFar`), and what passed was read (`PassedOnData`). The three filings of
  the code meet in `FilingSkip` and `FilingEvaluated`. Assumed: a check requires one
  source at most, a lockfile check none, a directory has a lockfile entry.
* `HttpCacheProofs`: `HttpCacheTypeOK`, `HttpCacheEntryFreed`, `HttpCacheHonestReply` and
  `HttpCacheBoundedStaleness`, for documents of any lengths. `Held(d, t)` says the server
  held `d` at `t`; `RequestInv` keeps it of whatever a request has in hand by the place
  it is in, and `MetaInv` of the file. Of `body` only `Seen` is known: that the server
  sent it at some time. It is believed when its length agrees, and whatever a request
  puts together of the two `Tells` a document and its bytes. `LockInv` is `EntryFreed`
  made inductive.
* `CratesDumpProofs`: `DumpTypeOK`, `DumpOneWriter`, `DumpPublishedIsWhole`,
  `DumpReadersFinish`, `DumpPublishesForward`, `DumpClearLeavesNothing`. `LockInv`:
  whoever is at work has the lock file in place, which lets every other argument treat
  the working process as the only one (`Alone`). `BuiltInv`: what a refresh has
  established by the place it is in, up to a generation that is installed, sound and no
  older than the published one. `ClearInv`: a clear that is removing has unpublished,
  and what it has left to remove covers everything on disk. `QuietInv`: no clear runs
  beside a quiet scan. Assumed: snapshots are numbered from 1, by their dates.
* `RunnerProofs` on `OsvIndex`: `OsvReadsAnArchive` and `OsvConfirmedIsCurrent`, for any
  number of refreshes side by side. The index *is of* an archive (`IsOf`) when each shard
  is what that archive or a later one has for it, or was removed by a clear, and nobody is
  writing anything older. No step makes it older than that (`Ages`): whoever begins to
  write has the archive on offer. Hence what a process has read or written itself stays
  true whatever the others do (`KnownInv`), unless it began while an older archive was
  still being written: that is what `suspect` takes out, and the argument fails without
  it. Shards that a whole refresh wrote are there (`Sure`), and counting as many shards
  as the metadata says then means that all of them are (`UsableIsWhole`, `AskingInv`).
* `RunnerProofs` on `Affected`: `OsvAffectsAsPublished`, for every archive and version.
  The invariant says only that the records are those of the archive and that the last
  lookup read them (`LookupInv`); the rest is about the recursive definitions, by
  induction with a least number again (`HasLeast`, `Throughout`). `TracksEvent`: after any
  number of events, what has been read is a range for each bound that closes, from the
  bound before it where that one opens, and one without an end for each that opens and
  is followed by another or nothing. `Yields` tells what a line so read says of a
  version, and from it come the three statements of the property: `InsideAsRead`,
  `ClosedLineEnds`, `FixClaims`. `RecordsInv` is what the records say after any number
  of members (`PassedOver`, `Added`). Assumed: an archive has the shape of one.
* `BaselineProofs` on `Baseline`: `BaselineTypeOK`, `BaselineRecordedWasSeen`,
  `BaselineDriftReported`, `BaselineBaseDecides`, `BaselineRecordKeeps`. What a run has
  loaded is as honest as the record (`HonestInv`); a run that went on to the file has
  all its answers (`AskedInv`); and until somebody else writes, the file is what the
  run read of it (`CurrentInv`), which is what makes a drift seen in comparing the one
  that is written. `DriftReported` is inductive with these.
* `BaselineProofs` on `Diff`: `DiffZeroVouches`, `DiffPairedWithItsOwn`,
  `DiffOwnChangesOnly`, for every repository. What is folded line by line and paired
  entry by entry is proved by induction over the lines and entries, of which the provers
  need no more than that a set of numbers has a least one (`LeastIsLeast`: a number at
  which the claim fails, and none smaller). `KeptInv` is what has been kept of the first
  lines: one entry per artifact they state and one per version nothing is stated of
  (`InstallKeeps`, `InstallsKeeps`). `Passed` is what a pass has made of a pairing:
  nobody has two partners, no pair was undone, and whoever has none suits nothing that
  is free (`PairStep`, `PassPairs`). Hence a copy that stayed is paired with itself and
  two copies of one version are not both left over (`PartnersSuit`), and what
  `Changes` lists is by artifact what came and what left (`ChangesCameAndLeft`), paired
  as often as the fewer of the two allow (`CopiesMeet`). The state's part is that a
  comparison is of the two sides as they are (`ComparedInv`) and none is missing from a
  plan (`ListedInv`, `PlannedInv`). Assumed: a scenario has the shape of a repository.
* `BaselineProofs` on `Check` and `Versions`: `CheckEvaluatesWhatInstalls`, for every
  manifest, every form of range over every version, every answer of a registry and every
  release meanwhile. Three arguments meet in it. First, what compares versions is an
  order. The comparisons go piece by piece and the first piece that differs decides
  (`Leads`); when the pieces' results go together as those of an order do (`Coherent`),
  so does the whole (`LexCoherent`), which is applied to segments, to prereleases, to
  releases that go on with zeros and to the seven things PEP 440 compares. Hence a list
  has a first highest version, and `HighestAllowed` picks it. Second, the bounds made of a
  term admit what the term means: raising the piece a caret, a tilde or a partial keeps
  gives a release that no version with those pieces reaches, and that every later one
  does; and which prereleases a term names is the same of its bounds. This is where
  `BoundsTell` is needed, and nowhere else: without it the statement is false, of ranges
  TLC's instance does not have (section 3). Third, the state: `CheckInv` says that an
  answer once given is kept (`AnswersFit`), that a reply is what its declaration
  resolves to by that answer (`RepliesFit`), that what is to be evaluated comes from
  such replies, each once (`SubjectsFit`), and that of every manifest read the
  declarations are settled (`PassedSettled`). Assumed: `Begins`, what a manifest and a
  registry can be given as, which TLC evaluates on its instance.
* `ConfigProofs` on `Doctor`: `DoctorTypeOK`, `DoctorNothingLost`, `DoctorFixesStick`. A
  file on disk agrees with what a person left in it, and is it or has a whole backup of it (`FilesInv`). To
  keep that a run must have judged missing only what nobody stated (`MissingInv`), edit
  the text a person left (`EditedInv`), and have copied it (`CopiedInv`, `CopyingInv`);
  names of backups are never shared (`UniqueInv`, `ApartInv`). A fix that is not exposed
  stands in its file and in what every run holds that may replace it (`FixedInv`).
  Assumed: every rule has a file it may live in.
* `ConfigProofs` on `Policy`: `PolicyGrantsExactly`. The file an asker compared is the
  one it reviewed unless somebody replaced it (`ComparedInv`), and what it writes is that
  file with the exception added (`Asked`); `AllowedByOneMore` and `LastDay` then say what
  one more entry excuses, and through which instant. `PolicyJudgedAsWritten` is settled
  by the one step that judges (`LoadJudges`): the walk finds the file that governs
  (`FoundGoverns`), the three layers of settings give the first that states a field
  (`FieldApplied`, `FieldJudged`, `EffectiveChecks`), and an exception holds by the day
  (`AllowedByDay`); what was judged does not change after (`JustIsWritten`). Assumed: a
  decoded policy has every field, and a request names an ecosystem and a last day.
* `WatchProofs` on `Evaluation`: `EvaluationOutagesShow`, `EvaluationInventsNothing`,
  `EvaluationLostHashIsJudged`. There is one lemma per check (`TD001Shows` to
  `TD015Shows`) that compares the verdict with the failed requests to the one without
  any, for every set of failures; `VerdictShows` joins them. The invariant says no more
  than that the verdict is that of the facts and the failures it was made from.
* `WatchProofs` on `Watch`: `WatchEventsTellAll` needs that the follower's ledger is
  where the last snapshot stood; `ChangeTells` is the table of `compare`, and
  `VerdictConcludes` that every check concludes one way or the other.
  `WatchClearedIsTrue` adds that what is emitted follows from two snapshots, the later
  of which is of the facts as they are (`ClearedIInv`), and takes from `VerdictShows`
  that a check that is clean has nothing to report.
* `ClientsProofs` on `Batches`: `BatchesAnsweredOrLost`. Of each package a client has the
  whole list, or has lost it, or has yet to ask (`OsvLists`); of each listed advisory the
  record was read, failed, was dropped or is due (`OsvDetails`); `PlanCovers` and
  `ResolvedIsItsOwn` say that the batches together ask about everyone, and that deps.dev's
  answers come to the package they are of. Assumed: packages and advisories are listed
  once, and there are packages.
* `ClientsProofs` on `Registries`: `RegistriesTellTheRegistry`. A caller has been told the
  truth, or that it is unknown, of each facet its requests have settled so far
  (`CallInv`), and holds the document that is kept, or none.
* `ClientsProofs` on `Hosts`: `HostsInstallsVetted`. A package is on a command line still
  to run, or was reported as the host demands before it goes on (`BunInv`, `PnpmInv`);
  what a child wrote is about its own line (`ChildInv`), no package is on two lines
  (`TodoInv`), and `LinesCover` says that cutting a list into lines loses none. Assumed:
  no package is listed twice.

Only model-checked is liveness (`CallsReturn`, `EvaluateReturns`, `RefreshRestores`,
`LockComesBack`, `HostDecides`), which the proof system does not reach. Every safety
property of the passing runs is a theorem.

## 5. Not modelled

* Text and bytes: the lockfile and manifest parsers, the configuration editors and
  their unified diffs, the report formats, the clients' decoding, the parsing of a
  version. Their properties are about characters, and TLC enumerates too few of them
  to say anything.
* Tables: the homoglyphs and popular names of TD008, the rules of doctor, the
  ecosystems' names.
* External programs: git, GuardDog, the package managers; they appear as what they may
  answer. So does the file system: a rename replaces in one step and nothing is lost
  in a power failure.
* Inside the modelled parts: NoCache clients, the rate limiter, redirects and Stat of
  the HTTP cache; how crates.io's tables become shards and what a lookup finds there;
  the severity of an advisory; levels and texts of findings; registries that keep
  maintainer history; the flags of the command line, `hook`, `cache`, `policy init`;
  cache directories with files of other programs, which the clears refuse.
* Liveness of a cache request: its waits are bounded by timers and retries, but a run
  that follows them through two processes is beyond the time a run may take; the
  safety half (whoever holds the mutex is at work) is `EntryFreed`.

`components` in `PROJECT.json` gives the reason for each part.

## 6. What is left

In the order of what it would add:

1. The crates dump's lookup: from tables to shards to an answer, as `Affected` does for
   OSV, and `Stat` of both indexes.
2. A composition of `Runner` with `Verdicts`, so that `Results` is what the checks
   conclude rather than an abstraction of it, for one subject.
3. Registries with maintainer history in `Baseline`, and the window of previous
   versions in `Verdicts` as a computation over releases.
