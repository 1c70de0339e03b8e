------------------------------ MODULE Baseline ------------------------------
(* The trust baseline of a project, .trustdiff/baseline.json                *)
(* (internal/baseline), and the commands that read and write it             *)
(* (internal/cli/baseline.go): `baseline` takes a snapshot of everything    *)
(* the project locks, `scan` and `diff` with --update-baseline record what  *)
(* they evaluated. Runs share the file without a lock; a person edits and   *)
(* commits it; the registry changes under all of them.                      *)
(*                                                                          *)
(* An entry's release half (version, publisher, provenance) is abstracted   *)
(* to the release each part was read from, so that a part of one release    *)
(* filed under another shows. Only packages of registries that keep no      *)
(* maintainer history are modelled: the others never ask for a record.      *)
EXTENDS Naturals, FiniteSets

CONSTANTS
  Packages,   \* packages of the project
  Versions,   \* releases a package may be locked at
  Listings,   \* sets of accounts a registry may list as maintainers
  Runs,       \* processes
  Attested,   \* packages whose registry names no publisher: only provenance does
  Policies,   \* policies a project may have: level and allow entries of TD003
  MaxChanges, \* bound: how often the world changes in one behaviour
  MaxStarts,  \* bound: how many runs are started in one behaviour
  None        \* no entry, no value, not read

ASSUME BaselineAssumption ==
  /\ Attested \subseteq Packages
  /\ {} \in Listings
  /\ MaxChanges \in Nat /\ MaxStarts \in Nat
  /\ None \notin Versions \cup Runs
  /\ Policies \subseteq [level: {"off", "warn", "block"}, allowed: SUBSET Packages]

\* No maintainers is how an entry says that it does not know them.
Entry ==
  [version: Versions, publisher: Versions \cup {None}, provenance: Versions \cup {None},
   maintainers: Listings]
NoFile == [p \in Packages |-> None]
Kinds == {"snapshot", "scan", "diff"}
Phases == {"idle", "asking", "loaded", "written"}

\* What one run was told about one package. A release is "read", read without
\* its publishing evidence ("bare"), or not read at all ("unread"); owners are
\* what the registry listed, nobody if it answered with no list.
Answer == [release: {"read", "bare", "unread"}, owners: Listings]

ASSUME NoneAssumption == None \notin Entry \cup Answer \cup [Packages -> Entry \cup {None}]

VARIABLES
  policy,
  owners,   \* what the registry lists now
  locked,   \* the version each package is locked at, None if it is not
  file,     \* the working tree's baseline
  base,     \* the base revision's baseline, None when it holds no such file
  phase,    \* of each run
  kind,     \* the command
  plan,     \* the versions it looks at: a function on a set of packages
  whole,    \* a snapshot that read every lockfile
  head,     \* the record it read when it started
  rev,      \* the base revision's record it compares with, None without one
  answers,  \* what it was told, per package
  loaded,   \* the record Update read
  replaced, \* history: packages whose recorded maintainers its write replaced by others
  overlap,  \* history: the file was written by somebody else since this run read it
  changes,  \* changes of the world so far
  starts    \* runs started so far

world == <<policy, owners, locked, base, changes>>
begun == <<kind, plan, whole, head, rev, starts>>
history == <<replaced, overlap>>
vars == <<world, file, phase, begun, answers, loaded, history>>

TypeOK ==
  /\ policy \in Policies
  /\ owners \in [Packages -> Listings]
  /\ locked \in [Packages -> Versions \cup {None}]
  /\ file \in [Packages -> Entry \cup {None}]
  /\ base = None \/ base \in [Packages -> Entry \cup {None}]
  /\ phase \in [Runs -> Phases]
  /\ kind \in [Runs -> Kinds]
  /\ plan \in [Runs -> [Packages -> Versions \cup {None}]]
  /\ whole \in [Runs -> BOOLEAN]
  /\ head \in [Runs -> [Packages -> Entry \cup {None}]]
  /\ rev \in [Runs -> {None} \cup [Packages -> Entry \cup {None}]]
  /\ answers \in [Runs -> [Packages -> Answer \cup {None}]]
  /\ loaded \in [Runs -> [Packages -> Entry \cup {None}]]
  /\ replaced \in [Runs -> SUBSET Packages]
  /\ overlap \in [Runs -> BOOLEAN]
  /\ changes \in 0..MaxChanges /\ starts \in 0..MaxStarts

-----------------------------------------------------------------------------
(* One observation, and what it makes of the recorded entry.                *)

\* Mutant: a ref without a version is observed too.
TargetsUnversioned(r) == Packages

\* Observe walks the targets: one version per package that has one.
Targets(r) == {p \in Packages: plan[r][p] # None}

\* The publishing identity of a release: the registry's own account when it
\* names one, otherwise the evidence, and only evidence that was read.
PublisherOf(p, v, release) == IF p \in Attested /\ release = "bare" THEN None ELSE v

Missing(a) ==
     (IF a.owners = {} THEN {"maintainers"} ELSE {})
  \cup (IF a.release = "unread" THEN {"release"} ELSE {})
  \cup (IF a.release = "bare" THEN {"provenance"} ELSE {})

Observed(p, v, a) ==
  [version |-> v,
   publisher |-> IF "release" \in Missing(a) THEN None ELSE PublisherOf(p, v, a.release),
   provenance |-> IF a.release = "read" THEN v ELSE None,
   maintainers |-> a.owners]

ReadNothing(missing) == {"maintainers", "release"} \subseteq missing

\* Mutant: every signal is kept on its own, so a publisher moves to another version.
MergeFieldByField(was, now, missing) ==
  [version |-> now.version,
   publisher |-> IF "release" \in missing THEN was.publisher ELSE now.publisher,
   provenance |-> IF now.provenance = None THEN was.provenance ELSE now.provenance,
   maintainers |-> IF "maintainers" \in missing THEN was.maintainers ELSE now.maintainers]

\* Mutant: a maintainer set that was not read is recorded as it is.
MergeWhatWasRead(was, now, missing) ==
  IF ReadNothing(missing) THEN was
  ELSE IF "release" \in missing THEN [was EXCEPT !.maintainers = now.maintainers] ELSE now

\* A signal that was not read keeps its recorded value; the release half moves
\* together or not at all.
Merge(was, now, missing) ==
  LET ofRelease == IF "release" \in missing THEN was ELSE now
      evidence == IF "provenance" \in missing /\ was.version = now.version THEN was ELSE ofRelease
  IN IF ReadNothing(missing)
     THEN was
     ELSE [version |-> ofRelease.version,
           publisher |-> ofRelease.publisher,
           provenance |-> evidence.provenance,
           maintainers |-> IF "maintainers" \in missing THEN was.maintainers ELSE now.maintainers]

Put(was, now, missing) ==
  IF was # None THEN Merge(was, now, missing)
  ELSE IF ReadNothing(missing) THEN None
  ELSE now

\* Mutant: a snapshot that missed a lockfile drops what it missed.
KeptWhateverWasMissed(r, p) == kind[r] # "snapshot" \/ plan[r][p] # None

\* Keep: a complete snapshot drops what the project no longer locks.
Kept(r, p) == ~whole[r] \/ plan[r][p] # None

\* What Update makes of the file it loaded.
Updated(r) ==
  [p \in Packages |->
    IF ~Kept(r, p) THEN None
    ELSE IF p \in Targets(r)
         THEN Put(loaded[r][p], Observed(p, plan[r][p], answers[r][p]), Missing(answers[r][p]))
         ELSE loaded[r][p]]

-----------------------------------------------------------------------------
(* What a run compares with, and what it concludes.                         *)

NotCompared == [observed |-> None, added |-> FALSE]

\* Mutant: the working tree's entry wins.
LookupWorkingTree(r, p) ==
  LET b == IF rev[r] = None THEN None ELSE rev[r][p]
  IN IF head[r][p] # None
     THEN [observed |-> head[r][p], added |-> rev[r] # None /\ b = None]
     ELSE [observed |-> b, added |-> FALSE]

\* The base revision's entry wins over a working tree that says otherwise; an
\* entry only the change under review recorded is marked as added by it.
Lookup(r, p) ==
  LET h == head[r][p]
      b == IF rev[r] = None THEN None ELSE rev[r][p]
  IN CASE b = None /\ h = None -> NotCompared
       [] b = None /\ h # None -> [observed |-> h, added |-> rev[r] # None]
       [] b # None -> [observed |-> b, added |-> FALSE]

\* TD003 of a run that evaluates packages. Any reason to skip is "skip".
Verdict(r, p) ==
  LET record == Lookup(r, p)
      a == answers[r][p]
  IN IF \/ a.release = "unread"
        \/ record.observed = None \/ record.added
        \/ record.observed.maintainers = {}
        \/ a.owners = {}
     THEN "skip"
     ELSE IF record.observed.maintainers # a.owners THEN "changed" ELSE "same"

\* Mutant: only packages whose version moved are compared.
ChangedWithTheVersion(r, p) ==
  /\ head[r][p] # None
  /\ head[r][p].version # plan[r][p]
  /\ answers[r][p].owners # {}
  /\ head[r][p].maintainers # answers[r][p].owners

\* Compare of a snapshot: both sets known and different.
Changed(r, p) ==
  /\ head[r][p] # None
  /\ head[r][p].maintainers # {}
  /\ answers[r][p].owners # {}
  /\ head[r][p].maintainers # answers[r][p].owners

\* The level and the allow entries decide whether a change is a finding.
Reports(p) == policy.level # "off" /\ p \notin policy.allowed

\* The maintainer changes the report of a run names.
Drift(r) ==
  {p \in Targets(r): Reports(p) /\ (IF kind[r] = "snapshot" THEN Changed(r, p) ELSE Verdict(r, p) = "changed")}

-----------------------------------------------------------------------------
(* The world: the registry, the project, the person.                        *)

Change == changes < MaxChanges /\ changes' = changes + 1

\* The file changed under the runs that read it earlier.
Overlapped(writer) ==
  overlap' = [r \in Runs |-> overlap[r] \/ (r # writer /\ phase[r] \notin {"idle", "written"})]

ChangeOwners(p) ==
  /\ Change
  /\ \E s \in Listings: s # owners[p] /\ owners' = [owners EXCEPT ![p] = s]
  /\ UNCHANGED <<policy, locked, base, file, phase, begun, answers, loaded, history>>

LockAt(p) ==
  /\ Change
  /\ \E v \in Versions \cup {None}: v # locked[p] /\ locked' = [locked EXCEPT ![p] = v]
  /\ UNCHANGED <<policy, owners, base, file, phase, begun, answers, loaded, history>>

\* Somebody deletes an entry, or writes one that claims other maintainers.
Claims(p) ==
  {[version |-> IF file[p] = None THEN v ELSE file[p].version, publisher |-> None,
    provenance |-> None, maintainers |-> s]: v \in Versions, s \in Listings \ {{}}}
Edit(p) ==
  /\ Change
  /\ \E e \in Claims(p) \cup {None}: e # file[p] /\ file' = [file EXCEPT ![p] = e]
  /\ Overlapped(None)
  /\ UNCHANGED <<policy, owners, locked, base, phase, begun, answers, loaded, replaced>>

\* The working tree becomes what later changes are compared with.
Commit ==
  /\ Change
  /\ base # file
  /\ base' = file
  /\ UNCHANGED <<policy, owners, locked, file, phase, begun, answers, loaded, history>>

-----------------------------------------------------------------------------
(* One run.                                                                 *)

\* The packages of the lockfiles under a directory, and what a run sees of them:
\* a directory or a lockfile it cannot read costs it only their own entries.
Found == {p \in Packages: locked[p] # None}
Sees(seen) == seen \subseteq Found

Plan(seen) == [p \in Packages |-> IF p \in seen THEN locked[p] ELSE None]

\* Only a diff has a base revision to ask for its record.
RevisionRecord(k) == IF k = "diff" THEN base ELSE None

\* The lockfiles and the record are read first. A run looks at what the
\* lockfiles it could read hold, or at what a diff changed.
Begin(r, k, seen) ==
  /\ phase[r] = "idle"
  /\ starts < MaxStarts /\ starts' = starts + 1
  /\ Sees(seen)
  /\ kind' = [kind EXCEPT ![r] = k]
  /\ plan' = [plan EXCEPT ![r] = Plan(seen)]
  /\ \E complete \in BOOLEAN:
       /\ complete => k = "snapshot" /\ Found \subseteq seen
       /\ whole' = [whole EXCEPT ![r] = complete]
  /\ head' = [head EXCEPT ![r] = file]
  /\ rev' = [rev EXCEPT ![r] = RevisionRecord(k)]
  /\ phase' = [phase EXCEPT ![r] = "asking"]
  /\ UNCHANGED <<world, file, answers, loaded, history>>

\* One package's two lookups. The loader's memo gives the checks and Observe
\* the same answers, so a run asks once.
Ask(r, p) ==
  /\ phase[r] = "asking"
  /\ p \in Targets(r)
  /\ answers[r][p] = None
  /\ \E release \in {"read", "bare", "unread"}, listed \in {owners[p], {}}:
       answers' = [answers EXCEPT ![r][p] = [release |-> release, owners |-> listed]]
  /\ UNCHANGED <<world, file, phase, begun, loaded, history>>

AllAsked(r) == phase[r] = "asking" /\ \A p \in Targets(r): answers[r][p] # None

\* The process has ended; its slot is free for another run.
Exit(r) ==
  /\ phase' = [phase EXCEPT ![r] = "idle"]
  /\ kind' = [kind EXCEPT ![r] = "scan"]
  /\ plan' = [plan EXCEPT ![r] = NoFile]
  /\ whole' = [whole EXCEPT ![r] = FALSE]
  /\ head' = [head EXCEPT ![r] = NoFile]
  /\ rev' = [rev EXCEPT ![r] = None]
  /\ answers' = [answers EXCEPT ![r] = NoFile]
  /\ loaded' = [loaded EXCEPT ![r] = NoFile]
  /\ replaced' = [replaced EXCEPT ![r] = {}]
  /\ overlap' = [overlap EXCEPT ![r] = FALSE]
  /\ UNCHANGED <<world, file, starts>>

\* scan and diff write their report and stop there unless it exits with 0. clean
\* says that nothing but TD003 raises the exit code: no other finding, and no
\* data missing that on_data_unavailable counts. A snapshot goes on whatever it
\* found.
Stops(r, clean) == kind[r] # "snapshot" /\ (~clean \/ (Drift(r) # {} /\ policy.level = "block"))

Report(r, clean) == AllAsked(r) /\ Stops(r, clean) /\ Exit(r)

\* Update, first half: the file as it is now, which other runs may have written.
LoadFile(r, clean) ==
  /\ AllAsked(r)
  /\ ~Stops(r, clean)
  /\ loaded' = [loaded EXCEPT ![r] = file]
  /\ phase' = [phase EXCEPT ![r] = "loaded"]
  /\ UNCHANGED <<world, file, begun, answers, history>>

\* Update, second half: the merged document replaces the file in one rename.
WriteFile(r) ==
  /\ phase[r] = "loaded"
  /\ file' = Updated(r)
  /\ replaced' = [replaced EXCEPT ![r] =
       {p \in Packages: /\ file[p] # None /\ file'[p] # None
                        /\ file[p].maintainers # {}
                        /\ file'[p].maintainers # file[p].maintainers}]
  /\ Overlapped(r)
  /\ phase' = [phase EXCEPT ![r] = "written"]
  /\ UNCHANGED <<world, begun, answers, loaded>>

\* A snapshot reports what changed after it has written. A run that is killed,
\* or cannot write, is one that takes no further step.
Finish(r) ==
  /\ phase[r] = "written"
  /\ Exit(r)

-----------------------------------------------------------------------------

EmptyRecords == [r \in Runs |-> NoFile]

\* A project starts without a record or with one an earlier run made, committed
\* or not.
Init ==
  /\ policy \in Policies
  /\ owners \in [Packages -> Listings \ {{}}]
  /\ locked \in [Packages -> Versions]
  /\ file \in {NoFile} \cup
       {[p \in Packages |-> [version |-> locked[p], publisher |-> locked[p],
                             provenance |-> locked[p], maintainers |-> were[p]]]:
          were \in [Packages -> Listings \ {{}}]}
  /\ base \in {None, file}
  /\ phase = [r \in Runs |-> "idle"]
  /\ kind = [r \in Runs |-> "scan"]
  /\ plan = EmptyRecords
  /\ whole = [r \in Runs |-> FALSE]
  /\ head = EmptyRecords
  /\ rev = [r \in Runs |-> None]
  /\ answers = EmptyRecords
  /\ loaded = EmptyRecords
  /\ replaced = [r \in Runs |-> {}]
  /\ overlap = [r \in Runs |-> FALSE]
  /\ changes = 0 /\ starts = 0

RunStep(r) ==
  \/ \E k \in Kinds, seen \in SUBSET Packages: Begin(r, k, seen)
  \/ \E p \in Packages: Ask(r, p)
  \/ \E clean \in BOOLEAN: Report(r, clean) \/ LoadFile(r, clean)
  \/ WriteFile(r)
  \/ Finish(r)

Next ==
  \/ \E p \in Packages: ChangeOwners(p) \/ LockAt(p) \/ Edit(p)
  \/ Commit
  \/ \E r \in Runs: RunStep(r)

Spec == Init /\ [][Next]_vars

-----------------------------------------------------------------------------
(* Properties.                                                              *)

HonestEntry(e) ==
  e # None => /\ e.publisher \in {None, e.version}
              /\ e.provenance \in {None, e.version}

\* Whatever runs overlap and whatever they could not read, an entry never names
\* the publisher or the evidence of one release under the version of another
\* (merge: the release half of a record moves together or not at all).
RecordedWasSeen == \A p \in Packages: HonestEntry(file[p])

\* A write of a run that has the file to itself between reading and writing.
Undisturbed(r) == WriteFile(r) /\ loaded[r] = file

\* No run that could not read a signal makes the project forget it: the
\* maintainer set stays known, the evidence of the same release too, whatever
\* the registry failed to answer, and for every sequence of runs.
KnownStaysKnown ==
  [][\A r \in Runs, p \in Packages:
       (Undisturbed(r) /\ file[p] # None /\ file'[p] # None) =>
         /\ file[p].maintainers # {} => file'[p].maintainers # {}
         /\ file[p].version = file'[p].version =>
              (file[p].provenance # None => file'[p].provenance # None)]_vars

\* The publisher of a release stays known too: "a signal an observation could not
\* read keeps the value the record holds rather than erasing it" (baseline.go).
PublisherStaysKnown ==
  [][\A r \in Runs, p \in Packages:
       (Undisturbed(r) /\ file[p] # None /\ file'[p] # None /\ file[p].version = file'[p].version) =>
         (file[p].publisher # None => file'[p].publisher # None)]_vars

\* A package leaves the record only when somebody edits it out, when a complete
\* snapshot finds it no longer locked, or when two runs overlap: a scan, a diff
\* and a snapshot that missed a lockfile keep what they never looked at.
ForgottenOnPurpose ==
  [][\A r \in Runs, p \in Packages:
       (WriteFile(r) /\ file[p] # None /\ file'[p] = None) =>
         \/ kind[r] = "snapshot" /\ whole[r] /\ plan[r][p] = None
         \/ overlap[r] /\ loaded[r] # file]_vars

\* What the record holds, signals and packages, it keeps through every write but for
\* those reasons: the two statements above.
RecordKeeps == KnownStaysKnown /\ ForgottenOnPurpose

\* "A run that reported a maintainer takeover would otherwise record [it] as the
\* new truth" (cli/baseline.go): a scan replaces a maintainer set only by one it
\* reported.
ScanReportsDrift ==
  \A r \in Runs: (kind[r] = "scan" /\ ~overlap[r]) =>
    \A p \in replaced[r]: p \in Drift(r) \/ ~Reports(p)

\* What a run was in a position to compare: TD003 needs the release as well,
\* and a diff compares with the base revision.
Comparable(r, p) ==
  \/ kind[r] = "snapshot"
  \/ kind[r] = "scan" /\ answers[r][p].release \in {"read", "bare"}
  \/ kind[r] = "diff" /\ rev[r] = head[r] /\ answers[r][p].release \in {"read", "bare"}

\* A recorded maintainer set is replaced by another one only by a run that
\* reports the change, unless the policy turns the report off, or another
\* writer came between what the run compared with and what it replaced.
DriftReported ==
  \A r \in Runs: \A p \in replaced[r]:
    p \in Drift(r) \/ ~Reports(p) \/ overlap[r] \/ ~Comparable(r, p)

\* A diff against a revision that holds a baseline judges every package by that
\* revision's record, whatever the working tree's copy was edited to say.
BaseDecides ==
  \A r \in Runs: \A p \in Targets(r):
    (kind[r] = "diff" /\ rev[r] # None /\ answers[r][p] # None) =>
      /\ Verdict(r, p) = "same" => rev[r][p] # None /\ rev[r][p].maintainers = answers[r][p].owners
      /\ Verdict(r, p) = "changed" => rev[r][p] # None /\ rev[r][p].maintainers # answers[r][p].owners

=============================================================================
