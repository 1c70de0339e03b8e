-------------------------------- MODULE Hosts -------------------------------
(* The programs that run another one with a deadline and go by what it      *)
(* wrote:                                                                   *)
(*                                                                          *)
(*   bun       Bun's scanner, which runs trustdiff check                    *)
(*             (integrations/bun-scanner/src/index.ts)                      *)
(*   pnpm      the pnpm hook, which does the same before and after pnpm     *)
(*             resolves (integrations/pnpm-hook/.pnpmfile.cjs)              *)
(*   guarddog  trustdiff itself, which runs GuardDog on what it reported    *)
(*             (internal/guarddog, internal/cli/guarddog.go)                *)
(*                                                                          *)
(* The child may be missing, fail to start, exit in time or on the deadline *)
(* itself, be killed, write too much or half a document, and leave its      *)
(* pipes to a process of its own that never closes them. The binary may be  *)
(* of another release: its report may leave packages out or tell of others. *)
EXTENDS Naturals, Sequences, SequencesExt

CONSTANTS
  Wanted,        \* the packages, in the order of their names
  MaxRefs,     \* packages in one command line
  MaxPackages, \* scans GuardDog is asked for
  Proposals,   \* what Bun may list: sequences of packages and of unnamed entries
  Lockfiles    \* what pnpm may resolve to: sets of packages and other entries

ASSUME HostsAssumption ==
  /\ Wanted \in Seq(ToSet(Wanted)) /\ IsInjective(Wanted)
  /\ MaxRefs \in Nat \ {0} /\ MaxPackages \in Nat
  /\ \A p \in Proposals: p \in Seq(ToSet(Wanted) \cup {"unversioned", "nameless"})
  /\ \A l \in Lockfiles: l \subseteq ToSet(Wanted) \cup {"link", "git", "dangling"}

VARIABLES
  host,        \* who runs the child
  settings,    \* what the project or the user chose
  proposed,    \* what is to be vetted
  stage,       \* "start", "before" or "after" pnpm resolves, or "scan"
  todo,        \* the command lines still to run
  child,       \* the process: "none", "running" or "ended", and how
  late,        \* the deadline has passed
  reports,     \* what was read of each package, with its run's exit code
  unavailable, \* a run that was read ended with exit code 3
  gone,        \* the binary went missing
  probed,      \* GuardDog's version is known
  scans,       \* scans begun
  outcome      \* "" until the host decides

hostVars == <<host, settings, proposed, stage, todo, child, late, reports, unavailable, gone, probed, scans, outcome>>

Names == ToSet(Wanted)

\* What trustdiff says of a package, and GuardDog.
Subjects == {s \in [verdict: {"ok", "warn", "block", "skipped"}, skips: BOOLEAN]: s.verdict = "skipped" => s.skips}
ScanResults == {[verdict |-> v, skips |-> FALSE]: v \in {"completed", "partial"}}
NotReported == [verdict |-> "none", skips |-> FALSE, code |-> 0]
Failed == [NotReported EXCEPT !.verdict = "unavailable"]

NoChild == [phase |-> "none", held |-> FALSE]
Running == [phase |-> "running", held |-> FALSE]

\* Command lines of at most MaxRefs packages, in the order of their names.
Position(r) == CHOOSE i \in DOMAIN Wanted: Wanted[i] = r
Rank(r, s) == Cardinality({q \in s: Position(q) <= Position(r)})
LineOf(n) == (n + MaxRefs - 1) \div MaxRefs
Lines(s) == [k \in 1..LineOf(Cardinality(s)) |-> {r \in s: LineOf(Rank(r, s)) = k}]

HostsInit ==
  /\ \/ host = "bun" /\ proposed \in Proposals /\ settings \in [unchecked: {"fatal", "warn", "ignore"}, require: BOOLEAN]
     \/ host = "pnpm" /\ proposed \in Lockfiles /\ settings \in [frozen: BOOLEAN]
     \/ host = "guarddog" /\ proposed = Wanted /\ settings = <<>>
  /\ stage = "start" /\ todo = <<>>
  /\ child = NoChild /\ late = FALSE
  /\ reports = [r \in Names |-> NotReported]
  /\ unavailable = FALSE /\ gone = FALSE /\ probed = FALSE /\ scans = 0
  /\ outcome = ""

Waiting == outcome = "" /\ child = NoChild /\ stage # "start" /\ todo # <<>>
Throws == outcome' = "thrown" /\ child' = NoChild

-----------------------------------------------------------------------------
(* Planning.                                                                *)

\* Bun's list without what has no name or no version, and every package once.
BunPlan ==
  /\ host = "bun" /\ stage = "start"
  /\ stage' = "scan"
  /\ todo' = Lines(ToSet(proposed) \cap Names)
  /\ UNCHANGED <<host, settings, proposed, child, late, reports, unavailable, gone, probed, scans, outcome>>

\* Mutant: what is no release of the registry is passed over.
PnpmRefuses(lockfile) == "dangling" \in lockfile

\* An entry that is no release of the registry, or an edge to none, refuses the
\* lockfile; a link or a directory is passed over.
Refuses(lockfile) == {"git", "dangling"} \cap lockfile # {}

\* A scan of a lockfile begins with nothing read.
PnpmPlan(lockfile) ==
  /\ reports' = [r \in Names |-> NotReported]
  /\ IF Refuses(lockfile)
     THEN outcome' = "thrown" /\ UNCHANGED todo
     ELSE todo' = Lines(lockfile \cap Names) /\ UNCHANGED outcome

\* preResolution: an existing lockfile is scanned as it is.
PreResolution ==
  /\ host = "pnpm" /\ stage = "start"
  /\ proposed # {}
  /\ stage' = "before"
  /\ PnpmPlan(proposed)
  /\ UNCHANGED <<host, settings, proposed, child, late, unavailable, gone, probed, scans>>

\* pnpm resolves, unless it installs the lockfile it found: afterAllResolved.
AfterAllResolved ==
  /\ host = "pnpm" /\ outcome = "" /\ child = NoChild
  /\ \/ stage = "start" /\ proposed = {}
     \/ stage = "before" /\ todo = <<>> /\ ~settings.frozen
  /\ stage' = "after"
  /\ proposed' \in Lockfiles
  /\ PnpmPlan(proposed')
  /\ UNCHANGED <<host, settings, child, late, unavailable, gone, probed, scans>>

\* GuardDog is asked about each reported package by itself.
GuardDogPlan ==
  /\ host = "guarddog" /\ stage = "start"
  /\ stage' = "scan"
  /\ todo' = [i \in DOMAIN Wanted |-> {Wanted[i]}]
  /\ UNCHANGED <<host, settings, proposed, child, late, reports, unavailable, gone, probed, scans, outcome>>

-----------------------------------------------------------------------------
(* The child.                                                               *)

Start ==
  /\ Waiting
  /\ ~(host = "guarddog" /\ scans >= MaxPackages)
  /\ child' = Running
  /\ late' = FALSE
  /\ scans' = IF host = "guarddog" THEN scans + 1 ELSE scans
  /\ UNCHANGED <<host, settings, proposed, stage, todo, reports, unavailable, gone, probed, outcome>>

\* What the child may write: a report of some of the packages, with a package
\* nobody asked about or one twice (extra), or no document at all. Exit code 3
\* comes with a check that was skipped, reported or not.
Documents(asked) ==
  LET say == IF host = "guarddog" THEN ScanResults ELSE Subjects
  IN {d \in [whole: {TRUE}, subjects: UNION {[s -> say]: s \in SUBSET asked}, extra: BOOLEAN, code: {0, 1, 3}]:
        /\ d.extra => host # "bun"
        /\ d.code = 3 => DOMAIN d.subjects # asked \/ \E r \in asked: d.subjects[r].skips}
     \cup [whole: {FALSE}, subjects: {<<>>}, extra: {FALSE}, code: {0, 2}]

\* It exits by itself.
Exits ==
  /\ child = Running
  /\ \E d \in Documents(todo[1]), held \in BOOLEAN:
       child' = [phase |-> "ended", held |-> held, signal |-> FALSE, document |-> d]
  /\ UNCHANGED <<host, settings, proposed, stage, todo, late, reports, unavailable, gone, probed, scans, outcome>>

Kill == \E held \in BOOLEAN: child' = [phase |-> "ended", held |-> held, signal |-> TRUE]

\* The deadline passes: a child that runs is killed, and one that has ended may
\* still hold its pipes.
TimeUp ==
  /\ outcome = "" /\ child # NoChild /\ ~late
  /\ late' = TRUE
  /\ IF child.phase = "running" THEN Kill ELSE UNCHANGED child
  /\ UNCHANGED <<host, settings, proposed, stage, todo, reports, unavailable, gone, probed, scans, outcome>>

\* More output than the pnpm hook and the GuardDog bridge keep.
Floods ==
  /\ host # "bun"
  /\ child = Running
  /\ Kill
  /\ UNCHANGED <<host, settings, proposed, stage, todo, late, reports, unavailable, gone, probed, scans, outcome>>

\* Whoever held the pipes lets go of them.
LetsGo ==
  /\ child.phase = "ended" /\ child.held
  /\ child' = [child EXCEPT !.held = FALSE]
  /\ UNCHANGED <<host, settings, proposed, stage, todo, late, reports, unavailable, gone, probed, scans, outcome>>

-----------------------------------------------------------------------------
(* What the host makes of it.                                               *)

\* The child ended by itself, with a code that comes with a document, and the
\* document is whole. The pnpm hook and the GuardDog bridge go by the deadline as
\* well; Bun's scanner takes an answer that came on the last millisecond.
Usable(c) ==
  /\ ~c.signal
  /\ c.document.code \in (IF host = "guarddog" THEN {0} ELSE {0, 1, 3})
  /\ c.document.whole
  /\ host # "bun" => ~late

NextLine == todo' = Tail(todo) /\ child' = NoChild
Said(d, r) == [verdict |-> d.subjects[r].verdict, skips |-> d.subjects[r].skips, code |-> d.code]
AsRead(d) == [r \in Names |-> IF r \in DOMAIN d.subjects \cap todo[1] THEN Said(d, r) ELSE reports[r]]
FailedLine == [r \in Names |-> IF r \in todo[1] THEN Failed ELSE reports[r]]

BunReads ==
  /\ host = "bun" /\ child.phase = "ended" /\ ~child.held
  /\ IF Usable(child)
     THEN /\ NextLine
          /\ reports' = AsRead(child.document)
          /\ unavailable' = (unavailable \/ child.document.code = 3)
          /\ UNCHANGED outcome
     ELSE Throws /\ UNCHANGED <<todo, reports, unavailable>>
  /\ UNCHANGED <<host, settings, proposed, stage, late, gone, probed, scans>>

\* The binary is gone before a batch: what was read so far is kept, unless the
\* project requires the binary. The pnpm hook refuses the install, and a GuardDog
\* that does not start has no result.
BinaryMissing ==
  /\ Waiting
  /\ gone' = TRUE
  /\ CASE host = "bun" -> IF settings.require THEN Throws /\ UNCHANGED <<todo, reports>>
                          ELSE todo' = <<>> /\ UNCHANGED <<child, reports, outcome>>
       [] host = "pnpm" -> Throws /\ UNCHANGED <<todo, reports>>
       [] host = "guarddog" -> NextLine /\ reports' = FailedLine /\ UNCHANGED outcome
  /\ UNCHANGED <<host, settings, proposed, stage, late, unavailable, probed, scans>>

\* The binary is there and does not start.
DoesNotStart ==
  /\ Waiting
  /\ IF host = "guarddog"
     THEN NextLine /\ reports' = FailedLine /\ UNCHANGED outcome
     ELSE Throws /\ UNCHANGED <<todo, reports>>
  /\ UNCHANGED <<host, settings, proposed, stage, late, unavailable, gone, probed, scans>>

\* A report of exactly the packages asked about, none without a check that ran.
Complete(d) ==
  /\ DOMAIN d.subjects = todo[1] /\ ~d.extra
  /\ \A r \in todo[1]: d.subjects[r].verdict # "skipped"

\* Any exit code but 0, or a package at block, refuses the install.
Blocked(d) == d.code # 0 \/ \E r \in todo[1]: d.subjects[r].verdict = "block"

PnpmReads ==
  /\ host = "pnpm" /\ child.phase = "ended" /\ ~child.held
  /\ IF Usable(child) /\ Complete(child.document) /\ ~Blocked(child.document)
     THEN /\ NextLine
          /\ reports' = AsRead(child.document)
          /\ UNCHANGED outcome
     ELSE Throws /\ UNCHANGED <<todo, reports>>
  /\ UNCHANGED <<host, settings, proposed, stage, late, unavailable, gone, probed, scans>>

\* GuardDog's report confirms the package and the version, and every rule ran.
GuardDogReads ==
  /\ host = "guarddog" /\ child.phase = "ended" /\ ~child.held
  /\ IF ~probed /\ Usable(child)
     THEN probed' = TRUE /\ child' = Running /\ UNCHANGED <<todo, reports>>
     ELSE /\ NextLine
          /\ reports' = IF Usable(child) /\ DOMAIN child.document.subjects = todo[1] /\ ~child.document.extra
                        THEN AsRead(child.document) ELSE FailedLine
          /\ UNCHANGED probed
  /\ UNCHANGED <<host, settings, proposed, stage, late, unavailable, gone, scans, outcome>>

\* Beyond the limit nothing is scanned.
NotScanned ==
  /\ Waiting
  /\ host = "guarddog" /\ scans >= MaxPackages
  /\ NextLine
  /\ reports' = FailedLine
  /\ UNCHANGED <<host, settings, proposed, stage, late, unavailable, gone, probed, scans, outcome>>

\* Mutant: only a child that was killed is given up.
GivesUpKilled ==
  /\ child.phase = "ended" /\ child.held /\ child.signal
  /\ \/ host = "pnpm" /\ Throws /\ UNCHANGED <<todo, reports>>
     \/ host = "guarddog" /\ NextLine /\ reports' = FailedLine /\ UNCHANGED outcome
  /\ UNCHANGED <<host, settings, proposed, stage, late, unavailable, gone, probed, scans>>

\* The pipes stay open: a second after the kill the hook refuses the install, and
\* a second after the child ended the bridge closes the pipes and has failed.
GivesUp ==
  /\ child.phase = "ended" /\ child.held
  /\ \/ host = "pnpm" /\ (late \/ child.signal) /\ Throws /\ UNCHANGED <<todo, reports>>
     \/ /\ host = "guarddog"
        /\ NextLine
        /\ reports' = FailedLine
        /\ UNCHANGED outcome
  /\ UNCHANGED <<host, settings, proposed, stage, late, unavailable, gone, probed, scans>>

-----------------------------------------------------------------------------
(* The decision.                                                            *)

Listed == ToSet(proposed) \cap Names
Unanswered == {r \in Listed: reports[r] = NotReported}

\* The advisory level of one package's findings, and of what was not checked:
\* after exit code 3 every skip of that run is fatal, whatever the project set.
FindingLevels(s) ==
  CASE s.verdict = "block" -> {"fatal"}
    [] s.verdict = "warn" -> {"warn"}
    [] OTHER -> {}
UncheckedLevels(s) ==
  IF s.code = 3 /\ s.skips THEN {"fatal"}
  ELSE IF s.verdict = "skipped" THEN {settings.unchecked} ELSE {}

\* Mutant: what no subject came back for is no news.
UnansweredSilently == {}

\* Mutant: what was not answered is treated as the project set, whatever the runs said.
UnansweredAsSet == IF Unanswered = {} THEN {} ELSE {settings.unchecked}

\* A batch that did not answer for a package is treated as the project set, and
\* as fatal beside an exit code 3, except where the binary went missing.
UnansweredLevels ==
  IF Unanswered = {} THEN {}
  ELSE IF unavailable /\ ~gone THEN {"fatal"} ELSE {settings.unchecked}

Levels ==
  ((UNION {FindingLevels(reports[r]) \cup UncheckedLevels(reports[r]): r \in Listed})
     \cup UnansweredLevels
     \cup (IF "unversioned" \in ToSet(proposed) THEN {settings.unchecked} ELSE {})) \ {"ignore"}

Decides ==
  /\ outcome = "" /\ child = NoChild /\ todo = <<>>
  /\ CASE host = "bun" -> stage = "scan" /\ outcome' = (IF "fatal" \in Levels THEN "fatal" ELSE IF "warn" \in Levels THEN "warn" ELSE "clean")
       [] host = "pnpm" -> (stage = "after" \/ (stage = "before" /\ settings.frozen)) /\ outcome' = "clean"
       [] host = "guarddog" -> stage = "scan" /\ outcome' = (IF \A r \in Names: reports[r].verdict = "completed" THEN "clean" ELSE "unavailable")
  /\ UNCHANGED <<host, settings, proposed, stage, todo, child, late, reports, unavailable, gone, probed, scans>>

-----------------------------------------------------------------------------

HostsNext ==
  \/ BunPlan \/ PreResolution \/ AfterAllResolved \/ GuardDogPlan
  \/ Start \/ Exits \/ TimeUp \/ Floods \/ LetsGo
  \/ BunReads \/ PnpmReads \/ GuardDogReads
  \/ BinaryMissing \/ DoesNotStart \/ NotScanned \/ GivesUp
  \/ Decides

\* Timers fire and the host goes on by itself; a child need not end, nor whoever
\* holds its pipes let go of them.
HostsFairness ==
  WF_hostVars(BunPlan \/ PreResolution \/ AfterAllResolved \/ GuardDogPlan
              \/ Start \/ TimeUp \/ BunReads \/ PnpmReads \/ GuardDogReads \/ NotScanned \/ GivesUp \/ Decides)

HostsSpec == HostsInit /\ [][HostsNext]_hostVars /\ HostsFairness

-----------------------------------------------------------------------------
(* Correctness.                                                             *)

\* An install goes on unquestioned only after every package of it was answered
\* for, by a run that ended by itself, without a warning or a block: whichever batch
\* the binary went missing at, whatever a report left out, and whatever pnpm resolved
\* after the first scan. Bun has the project's word to ignore what was not checked,
\* a package without a version among it; an entry without a name it passes with a
\* line on stderr. pnpm has no such word, lets a warning pass, and no git or dangling
\* dependency goes by it.
CleanIsVetted ==
  outcome = "clean" =>
    CASE host = "bun" ->
           /\ \A r \in Listed: reports[r].verdict = "ok" \/ (settings.unchecked = "ignore" /\ reports[r].verdict \in {"none", "skipped"})
           /\ "unversioned" \in ToSet(proposed) => settings.unchecked = "ignore"
      [] host = "pnpm" ->
           /\ proposed \cap {"git", "dangling"} = {}
           /\ \A r \in proposed \cap Names: reports[r].verdict \in {"ok", "warn"} /\ reports[r].code = 0
      [] host = "guarddog" -> \A r \in Names: reports[r].verdict = "completed"

\* A run without a source the policy requires never ends in an install: that
\* "was made by the project in its own policy file, so it is carried through
\* whatever this scanner is set to" (index.ts). It is lost in one case, when the
\* report left out the package it was about and the binary then went missing.
RequiredDataStops ==
  unavailable /\ outcome # "" => outcome \in {"fatal", "thrown"} \/ (gone /\ Unanswered # {})

\* No install of what was not vetted, and none without data the policy requires:
\* the two statements above.
InstallsVetted == CleanIsVetted /\ RequiredDataStops

\* The pnpm hook and the GuardDog bridge decide, whatever the child does and
\* whoever keeps its pipes open; Bun's scanner waits for the pipes.
HostDecides == host # "bun" ~> outcome # ""

=============================================================================
