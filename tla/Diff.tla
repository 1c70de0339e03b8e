-------------------------------- MODULE Diff --------------------------------
(* trustdiff diff (internal/cli/diff.go, internal/gitdiff,                  *)
(* internal/lockfile/lockfile.go): from a repository and a base to the      *)
(* entries that are evaluated and the exit code.                            *)
(*                                                                          *)
(* A commit and the working tree map each lockfile to a content: absent,    *)
(* unread (a symbolic link, or text its parser refuses) or a sequence of    *)
(* lines. A package manager may rewrite a lockfile of the working tree      *)
(* between the steps of the run. The evaluation is Runner's: here it is a   *)
(* choice of which entry has the worst finding and whether a source was     *)
(* unavailable. What --update-baseline writes after exit 0 is Baseline's.   *)
EXTENDS Integers, Sequences, FiniteSets, SequencesExt

CONSTANT
  Scenarios   \* families of repositories with the command's flags and policy

VARIABLES
  given,        \* the scenario
  tree,         \* the working tree: lockfile -> content
  edited,       \* the lockfiles rewritten since the run began
  diffPhase,    \* "start", "resolved", "comparing", "planned" or "done"
  baseRev,      \* the commit compared with, "file" for --base-file
  queue,        \* changed lockfiles that are not compared yet
  comparisons,  \* lockfile -> its comparison
  inputs,       \* what is evaluated
  incomplete,   \* whether a side of a lockfile could not be read
  exit          \* the exit code, -1 before

diffVars == <<given, tree, edited, diffPhase, baseRev, queue, comparisons, inputs, incomplete, exit>>

-----------------------------------------------------------------------------
(* The lines of a lockfile and what they install.                           *)

IsLine(l) ==
  /\ l = [name |-> l.name, version |-> l.version, source |-> l.source, hash |-> l.hash,
          location |-> l.location, bundled |-> l.bundled, direct |-> l.direct]
  /\ l.direct \in BOOLEAN

IsFile(lines) == lines \in Seq({lines[i]: i \in DOMAIN lines}) /\ \A i \in DOMAIN lines: IsLine(lines[i])
IsContent(c) == c.kind \in {"lines", "absent", "unread"} /\ (c.kind = "lines" => IsFile(c.lines))

\* A repository: every tracked lockfile has a content in the tree, every one of the
\* tree one at each commit.
IsScenario(g) ==
  /\ g.tree = [f \in DOMAIN g.tree |-> g.tree[f]]
  /\ g.tracked \subseteq DOMAIN g.tree
  /\ \A f \in DOMAIN g.tree:
       IsContent(g.tree[f]) /\ \A r \in {"tip", "fork", "parent"}: IsContent(g.commits[r][f])
  /\ IsContent(g.file)
  /\ \A c \in g.edits: IsContent(c)

ASSUME DiffAssumption == \A family \in Scenarios: \A g \in family: IsScenario(g)

Ref(l) == <<l.name, l.version>>

\* Moving a registry entry to a mirror is no change of the artifact.
Artifact(l) ==
  [ref |-> Ref(l), source |-> l.source, hash |-> l.hash,
   location |-> IF l.source = "registry" THEN "" ELSE l.location]

SameArtifact(a, b) == Artifact(a) = Artifact(b)

StatesItsArtifact(l) ==
  ~l.bundled /\ (l.location # "" \/ l.hash # "" \/ l.source # "unknown")

Least(S) == CHOOSE i \in S: \A j \in S: i <= j

\* The entry at i stands for line l too.
Fold(kept, i, l) == [kept EXCEPT ![i].direct = @ \/ l.direct]

\* Mutant: one entry per version, however many artifacts its lines install.
InstallVersion(kept, l) ==
  LET same == {i \in DOMAIN kept: Ref(kept[i]) = Ref(l)}
  IN IF same = {} THEN Append(kept, l) ELSE Fold(kept, Least(same), l)

\* A line that states nothing folds into whatever the file states for its version.
Install(kept, l) ==
  LET same == {i \in DOMAIN kept: Ref(kept[i]) = Ref(l)}
      twin == {i \in same: StatesItsArtifact(kept[i]) /\ SameArtifact(kept[i], l)}
      into == IF StatesItsArtifact(l) THEN twin ELSE same
  IN CASE into # {} -> Fold(kept, Least(into), l)
       [] into = {} /\ same # {} /\ ~StatesItsArtifact(kept[Least(same)]) ->
            [kept EXCEPT ![Least(same)] = [l EXCEPT !.direct = @ \/ kept[Least(same)].direct]]
       [] OTHER -> Append(kept, l)

Installs(lines) ==
  LET kept[n \in 0..Len(lines)] == IF n = 0 THEN <<>> ELSE Install(kept[n - 1], lines[n])
  IN kept[Len(lines)]

-----------------------------------------------------------------------------
(* Pairing: each pass gives the head entries that have no partner yet, in   *)
(* order, the first free base entry that suits them.                        *)

\* The base entries that suit each head entry.
Alike(Suits(_, _), old, new) == [i \in DOMAIN new |-> {j \in DOMAIN old: Suits(old[j], new[i])}]

Free(suited, p, i) == suited[i] \ {p[k]: k \in DOMAIN p}

Pair(suited, p, i) ==
  IF p[i] # 0 \/ Free(suited, p, i) = {} THEN p ELSE [p EXCEPT ![i] = Least(Free(suited, p, i))]

PairBy(suited, partner) ==
  LET pass[n \in 0..Len(partner)] == IF n = 0 THEN partner ELSE Pair(suited, pass[n - 1], n)
  IN pass[Len(partner)]

Nobody(new) == [i \in DOMAIN new |-> 0]
SameVersion(a, b) == Ref(a) = Ref(b)
SameName(a, b) == a.name = b.name

\* Mutant: without the pass over versions a bump takes the entry a copy of the
\* same version was repointed from.
PartnersByName(old, new) ==
  PairBy(Alike(SameName, old, new), PairBy(Alike(SameArtifact, old, new), Nobody(new)))

Partners(old, new) ==
  PairBy(Alike(SameName, old, new),
    PairBy(Alike(SameVersion, old, new),
      PairBy(Alike(SameArtifact, old, new), Nobody(new))))

Changes(old, new) ==
  LET p == Partners(old, new)
      paired == {i \in DOMAIN new: p[i] # 0}
  IN [added   |-> {new[i]: i \in DOMAIN new \ paired},
      changed |-> {[from |-> old[p[i]], to |-> new[i]]: i \in {k \in paired: ~SameArtifact(old[p[k]], new[k])}},
      removed |-> {old[j]: j \in DOMAIN old \ {p[i]: i \in paired}}]

NoChanges == [added |-> {}, changed |-> {}, removed |-> {}]

EntriesOf(content) == IF content.kind = "lines" THEN Installs(content.lines) ELSE <<>>

\* An unread base side leaves every entry of the head side added; an unread head
\* side is compared with nothing.
Comparison(old, new) ==
  [changes |-> IF new.kind = "unread" THEN NoChanges ELSE Changes(EntriesOf(old), EntriesOf(new)),
   unread |-> new.kind = "unread",
   baseUnread |-> old.kind = "unread"]

-----------------------------------------------------------------------------

DiffInit ==
  /\ \E family \in Scenarios: given \in family
  /\ tree = given.tree
  /\ edited = {}
  /\ diffPhase = "start"
  /\ baseRev = "none"
  /\ queue = {}
  /\ comparisons = <<>>
  /\ inputs = {}
  /\ incomplete = FALSE
  /\ exit = -1

Fails(code) ==
  /\ diffPhase' = "done"
  /\ exit' = code
  /\ UNCHANGED <<given, tree, edited, queue, comparisons, inputs, incomplete>>

\* Mutant: the named base itself, as "git diff <base>" reads it.
BaseAsNamed ==
  IF given.base = "named" THEN "tip"
  ELSE IF given.remotes # {} /\ given.related THEN "fork"
  ELSE IF given.parent THEN "parent" ELSE "none"

\* The fork point of a named base, or the base itself where git knows no merge
\* base (a shallow clone); else of origin/main or origin/HEAD, else HEAD~1.
ResolveBase ==
  CASE given.base = "missing" -> "none"
    [] given.base = "named" -> IF given.related THEN "fork" ELSE "tip"
    [] OTHER -> IF given.remotes # {} /\ given.related THEN "fork"
                ELSE IF given.parent THEN "parent" ELSE "none"

Resolve ==
  /\ diffPhase = "start"
  /\ given.base # "file"
  /\ baseRev' = ResolveBase
  /\ IF ResolveBase = "none"
     THEN Fails(2)
     ELSE /\ diffPhase' = "resolved"
          /\ UNCHANGED <<given, tree, edited, queue, comparisons, inputs, incomplete, exit>>

At(revision, f) == given.commits[revision][f]

\* git diff compares the tracked files of the working tree with the commit; an
\* untracked lockfile gets a note.
ChangedFiles == {f \in given.tracked: tree[f] # At(baseRev, f)}

List ==
  /\ diffPhase = "resolved"
  /\ diffPhase' = "comparing"
  /\ queue' = ChangedFiles
  /\ UNCHANGED <<given, tree, edited, baseRev, comparisons, inputs, incomplete, exit>>

\* Both sides of one lockfile, in git's order, which nothing depends on.
Compare(f) ==
  /\ diffPhase = "comparing"
  /\ f \in queue
  /\ queue' = queue \ {f}
  /\ comparisons' = [g \in DOMAIN comparisons \cup {f} |->
                       IF g = f THEN Comparison(At(baseRev, f), tree[f]) ELSE comparisons[g]]
  /\ UNCHANGED <<given, tree, edited, diffPhase, baseRev, inputs, incomplete, exit>>

\* Listing the changed files or reading one at the commit: git itself fails.
GitFails ==
  /\ diffPhase = "resolved" \/ (diffPhase = "comparing" /\ queue # {})
  /\ Fails(2)
  /\ UNCHANGED baseRev

\* --base-file: a usage error where the file cannot be read, or no single head side
\* of its name is tracked, or that one is of another format.
CompareWithFile ==
  /\ diffPhase = "start"
  /\ given.base = "file"
  /\ baseRev' = "file"
  /\ IF \/ given.file.kind # "lines"
        \/ Cardinality(given.tracked) # 1
        \/ \E f \in given.tracked: tree[f].kind = "absent" \/ (tree[f].kind = "lines" /\ ~given.sameFormat)
     THEN Fails(2)
     ELSE /\ diffPhase' = "comparing"
          /\ comparisons' = [f \in given.tracked |-> Comparison(given.file, tree[f])]
          /\ UNCHANGED <<given, tree, edited, queue, inputs, incomplete, exit>>

\* An entry with nothing to compare it with carries no base entry.
PlanOf(f) ==
  LET c == comparisons[f].changes
  IN {[file |-> f, entry |-> e, against |-> <<>>]: e \in c.added}
     \cup {[file |-> f, entry |-> d.to, against |-> <<d.from>>]: d \in c.changed}

UnreadSides(compared) == \E f \in DOMAIN compared: compared[f].unread \/ compared[f].baseUnread

DiffPlan ==
  /\ diffPhase = "comparing"
  /\ queue = {}
  /\ diffPhase' = "planned"
  /\ inputs' = UNION {PlanOf(f): f \in DOMAIN comparisons}
  /\ incomplete' = UnreadSides(comparisons)
  /\ UNCHANGED <<given, tree, edited, baseRev, queue, comparisons, exit>>

FailsOn == CASE given.failOn = "block" -> {"block"}
             [] given.failOn = "warn" -> {"block", "warn"}
             [] OTHER -> {}

\* GuardDog scans the public registry releases with a warning or a block; an
\* entry from elsewhere is not scanned, which counts as unavailable too.
ScanMissing(worst, entry, scanned) ==
  given.guardDog /\ worst \in {"warn", "block"} /\ (entry.source # "registry" \/ entry.bundled \/ ~scanned)

ExitCode(worst, unavailable, missing) ==
  CASE worst \in FailsOn -> 1
    [] worst \notin FailsOn /\ given.unavailableFails /\ (unavailable \/ incomplete) -> 3
    [] OTHER -> IF missing THEN 3 ELSE 0

Evaluate(worst, unavailable, scanned) ==
  /\ diffPhase = "planned"
  /\ inputs = {} => worst = "none" /\ ~unavailable
  /\ diffPhase' = "done"
  /\ IF inputs = {}
     THEN exit' = ExitCode("none", FALSE, FALSE)
     ELSE \E i \in inputs: exit' = ExitCode(worst, unavailable, ScanMissing(worst, i.entry, scanned))
  /\ UNCHANGED <<given, tree, edited, baseRev, queue, comparisons, inputs, incomplete>>

\* Somebody installs a package while the run is under way.
Rewrite(f) ==
  /\ diffPhase \in {"start", "resolved", "comparing"}
  /\ \E c \in given.edits \ {tree[f]}: tree' = [tree EXCEPT ![f] = c]
  /\ edited' = edited \cup {f}
  /\ UNCHANGED <<given, diffPhase, baseRev, queue, comparisons, inputs, incomplete, exit>>

DiffNext ==
  \/ Resolve
  \/ List
  \/ \E f \in queue: Compare(f)
  \/ GitFails
  \/ CompareWithFile
  \/ DiffPlan
  \/ \E worst \in {"none", "info", "warn", "block"}, unavailable, scanned \in BOOLEAN:
       Evaluate(worst, unavailable, scanned)
  \/ \E f \in DOMAIN tree: Rewrite(f)

DiffSpec == DiffInit /\ [][DiffNext]_diffVars

-----------------------------------------------------------------------------
(* Correctness.                                                             *)

\* What a file brings in, said by its lines and not by a list: every artifact one of
\* them states, and of a version no line states anything about what the first has.
Chosen(lines, i) ==
  \/ StatesItsArtifact(lines[i])
  \/ \A k \in DOMAIN lines: Ref(lines[k]) = Ref(lines[i]) => ~StatesItsArtifact(lines[k]) /\ i <= k

Brings(content) ==
  IF content.kind = "lines"
  THEN {Artifact(content.lines[i]): i \in {k \in DOMAIN content.lines: Chosen(content.lines, k)}}
  ELSE {}

BaseSide(f) == IF baseRev = "file" THEN given.file ELSE At(baseRev, f)

Covered(f) == {i.entry: i \in {k \in inputs: k.file = f}}

\* Exit code 0 of a run that fails on missing data vouches for the change: every
\* artifact a lockfile of the repository brings in that it did not bring in at the
\* base has been evaluated, wherever its line stands, unless the file was rewritten
\* meanwhile (lockfile.go:208, gitdiff/diff.go:60, cli/diff.go:141).
ZeroVouches ==
  exit = 0 /\ given.unavailableFails =>
    \A f \in given.tracked \ edited:
      /\ Brings(tree[f]) \ Brings(BaseSide(f)) \subseteq {Artifact(e): e \in Covered(f)}
      /\ tree[f].kind = "unread" => baseRev # "file" /\ tree[f] = At(baseRev, f)

OfVersion(ref, artifacts) == {a \in artifacts: a.ref = ref}

\* What stays the same is neither evaluated nor listed as removed, what leaves is the
\* base of one change or listed, and of one version as many copies as can be are
\* compared with what they were repointed from, not taken for a bump of some other
\* version: TD016 and the checks of a downgrade see the right base
\* (gitdiff/diff.go:78).
PairedWithItsOwn ==
  diffPhase \in {"planned", "done"} =>
    \A f \in DOMAIN comparisons \ edited:
      ~comparisons[f].unread =>
        LET new == Brings(tree[f])  old == Brings(BaseSide(f))
            c == comparisons[f].changes
            fresh == c.added \cup {d.to: d \in c.changed}
            left == c.removed \cup {d.from: d \in c.changed}
        IN /\ {Artifact(e): e \in fresh} = new \ old
           /\ {Artifact(e): e \in left} = old \ new
           /\ \A ref \in {a.ref: a \in old \cup new}:
                Cardinality({d \in c.changed: Ref(d.from) = ref /\ Ref(d.to) = ref})
                  = Least({Cardinality(OfVersion(ref, old \ new)), Cardinality(OfVersion(ref, new \ old))})

\* What the base branch gained since the fork is no change of this branch: a lockfile
\* as it was at the fork point is not compared at all.
OwnChangesOnly ==
  given.base # "file" /\ given.related /\ (given.base = "named" \/ given.remotes # {}) =>
    \A f \in DOMAIN comparisons \ edited: tree[f] # At("fork", f)

=============================================================================
