----------------------------- MODULE Evaluation -----------------------------
(* One check of one package version while the package changes and requests  *)
(* fail (internal/checks/runner.go, internal/report/report.go).             *)
(*                                                                          *)
(* Between two evaluations any facts may change, one field at a time; an    *)
(* evaluation asks for everything the check reads, and any MaxDown of those *)
(* requests may fail. A failed request is an outage, never an answer.       *)
EXTENDS Verdicts, TLC

CONSTANTS
  Selected,   \* the checks that run
  MaxDown     \* requests that fail in one evaluation

ASSUME EvaluationAssumption == Selected \subseteq Checks /\ MaxDown \in Nat

VARIABLES
  check,      \* the check under evaluation
  facts,      \* what is true of the package
  down,       \* the requests the last evaluation could not make
  verdict     \* what the last evaluation concluded

vars == <<check, facts, down, verdict>>

-----------------------------------------------------------------------------
(* The facts of each check, and the requests it makes.                      *)

\* A base or previous release is absent, or one that has or lacks the thing.
Scripts == {"none", "script"}
Provenance == {"none", "unverified", "verified", "trusted"}
Declared == {"none", "optional", "runtime"}
LockChecks == {"TD013", "TD014", "TD016", "TD017"}
\* Where a lock entry comes from; a url is judged as a git entry at no full commit.
Sources == {"registry", "git", "path", "unknown"}

Releases ==
  {[major |-> 1, minor |-> 0, patch |-> 0, year |-> 2025, month |-> 1],
   [major |-> 1, minor |-> 2, patch |-> 0, year |-> 2025, month |-> 3],
   [major |-> 3, minor |-> 0, patch |-> 0, year |-> 2026, month |-> 1]}

\* The values each field takes.
Fields(c) ==
  CASE c = "TD001" -> [published |-> {-1, 1, 5}, indexedAt |-> {-1, 5}, clock |-> 5..8, cooldown |-> {0, 1}]
    [] c = "TD002" -> [publisher |-> {"none", "ci", "account"}, listedBefore |-> BOOLEAN, kept |-> BOOLEAN,
                       window |-> SUBSET {"none", "ci", "account", "another"},
                       repositories |-> {"same", "other", "unlisted"}, identity |-> {"none", "repository"},
                       record |-> {"none", "added", "blank", "account", "another", "repository"}]
    [] c = "TD003" -> [npm |-> BOOLEAN, before |-> {"norelease", "nobody", "m1", "m2"},
                       now |-> {"nobody", "m1", "m2"}, owners |-> {"nobody", "m1", "m2"},
                       record |-> {"none", "added", "nobody", "m1"}]
    [] c = "TD004" -> [now |-> Provenance, previous |-> Provenance \cup {"norelease"},
                       base |-> Provenance \cup {"nobase"}, earlierVerified |-> BOOLEAN, olderLine |-> BOOLEAN,
                       depsdev |-> {"unindexed", "unlisted", "unverified", "verified"}]
    [] c = "TD005" -> [now |-> Scripts, previous |-> Scripts \cup {"norelease"}, base |-> Scripts \cup {"nobase"}]
    [] c = "TD006" -> [now |-> Scripts]
    [] c = "TD007" -> [now |-> Declared, previous |-> Declared \cup {"norelease"}, base |-> {"none", "runtime", "nobase"},
                       young |-> BOOLEAN, lowUsage |-> BOOLEAN, indexed |-> {"yes", "first", "no"},
                       pinned |-> BOOLEAN, origin |-> {"scope", "publisher", "none"}]
    [] c = "TD008" -> [popularList |-> BOOLEAN, popular |-> BOOLEAN, match |-> BOOLEAN, older |-> BOOLEAN,
                       similar |-> {"none", "popular", "other"}, usage |-> {"unsupported", "low", "used"},
                       neighbor |-> {"few", "hundredfold", "thousandfold"}, age |-> {"young", "old"}]
    [] c = "TD009" -> [osv |-> {"unsupported", "clean", "malicious"}, depsdev |-> {"unsupported", "clean", "malicious"}]
    [] c = "TD010" -> [osv |-> {"unsupported", "read"}, advisories |-> SUBSET {"low", "unknown", "high"},
                       threshold |-> {"low", "medium", "high"}]
    [] c = "TD011" -> [signals |-> SUBSET {"yanked", "deprecated", "package", "deps.dev"},
                       depsdev |-> {"unsupported", "read"}]
    [] c = "TD012" -> [usage |-> {"unsupported", "low", "used"}, depsdev |-> {"unsupported", "unindexed", "low", "used"}]
    [] c = "TD015" -> [comparable |-> BOOLEAN, now |-> Releases,
                       earlier |-> {<<>>} \cup {<<r>>: r \in Releases} \cup (Releases \X Releases)]
    [] c \in LockChecks ->
         [locked |-> BOOLEAN, badName |-> {FALSE}, bundled |-> BOOLEAN,
          fileHashesNothing |-> BOOLEAN, first |-> BOOLEAN, pinned |-> BOOLEAN, http |-> {FALSE},
          source |-> Sources, baseSource |-> Sources,
          baseHash |-> {{}, {<<"sha1", "a">>}}, hash |-> {{}, {<<"sha1", "a">>}, {<<"sha1", "b">>}, {<<"sha512", "b">>}},
          moved |-> BOOLEAN,
          inBase |-> BOOLEAN, order |-> {"same", "higher"}]

WithPreviousAsks == {"info", "list", "previous", "facet", "previous facet", "base", "base facet"}

Asks(c) ==
  CASE c = "TD001" -> {"info", "depsdev"}
    [] c = "TD002" -> {"info", "list", "facet", "depsdev", "earlier"}
    [] c = "TD003" -> {"info", "list", "previous", "owners"}
    [] c = "TD004" -> WithPreviousAsks \cup {"depsdev", "findings", "earlier"}
    [] c = "TD005" -> WithPreviousAsks
    [] c = "TD006" -> {"info", "facet"}
    [] c = "TD007" -> WithPreviousAsks \cup {"dependency list", "dependency downloads",
                        "dependency depsdev", "dependency first", "dependency info"}
    [] c = "TD008" -> {"list", "downloads", "similar", "neighbor downloads", "neighbor list"}
    [] c = "TD009" -> {"osv", "depsdev", "findings"}
    [] c = "TD010" -> {"osv"}
    [] c = "TD011" -> {"info", "list", "archived", "depsdev", "findings"}
    [] c = "TD012" -> {"downloads", "depsdev", "findings"}
    [] c = "TD015" -> {"list"}
    [] c \in LockChecks -> {}

NotEvaluated == [Pass EXCEPT !.names = {"not evaluated"}]

-----------------------------------------------------------------------------

Init ==
  /\ check \in Selected
  /\ facts = [k \in DOMAIN Fields(check) |-> CHOOSE v \in Fields(check)[k]: TRUE]
  /\ down = {}
  /\ verdict = NotEvaluated

\* A fact of the package changes between two evaluations.
Change(k) ==
  /\ verdict = NotEvaluated
  /\ \E v \in Fields(check)[k] \ {facts[k]}: facts' = [facts EXCEPT ![k] = v]
  /\ UNCHANGED <<check, down, verdict>>

Evaluate ==
  /\ verdict = NotEvaluated
  /\ \E d \in SUBSET Asks(check):
       /\ Cardinality(d) <= MaxDown
       /\ down' = d
       /\ verdict' = Verdict(check, facts, d)
  /\ UNCHANGED <<check, facts>>

\* The next run asks for everything again.
Again ==
  /\ verdict # NotEvaluated
  /\ down' = {}
  /\ verdict' = NotEvaluated
  /\ UNCHANGED <<check, facts>>

Next ==
  \/ Again
  \/ \E k \in DOMAIN facts: Change(k)
  \/ Evaluate

Spec == Init /\ [][Next]_vars

-----------------------------------------------------------------------------
(* Correctness.                                                             *)

Fully == Verdict(check, facts, {})
Evaluated == verdict # NotEvaluated
Passed(v) == ~v.skipped /\ v.findings = {}

\* The failures that do let a check pass what it would have reported: TD004 asks
\* deps.dev about the earlier release without recording that it could not, TD005
\* and TD007 leave out a base version whose facet was not gathered, TD008 leaves
\* out the download counts its cross-check needs, TD011 the archive state when
\* deps.dev answered, and TD002 and TD003 settle for the reviewed record.
PassesUnread(c, d) ==
  CASE c = "TD004" -> "earlier" \in d
    [] c \in {"TD005", "TD007"} -> "base facet" \in d
    [] c = "TD008" -> {"downloads", "neighbor downloads"} \cap d # {}
    [] c = "TD011" -> "archived" \in d
    [] c \in {"TD002", "TD003"} -> {"list", "previous"} \cap d # {}
    [] OTHER -> FALSE

\* Otherwise a check never passes what it would have reported with every request
\* answered: an outage leads to a skip (check.go cleanOrSkip, and each check's
\* own order of reading and giving up).
NothingPassesUnread ==
  Evaluated /\ Passed(verdict) /\ Fully.findings # {} => PassesUnread(check, down)

\* Without exceptions, as docs/checks.md has it: "A check never passes for lack
\* of data".
NeverPassesForLackOfData == Evaluated /\ Passed(verdict) => Fully.findings = {}

\* Without the list of releases "no earlier release" names no outage, nor does
\* TD002's "no publisher" when the provenance of the release was not gathered.
Uncounted(c, d) ==
  \/ c \in {"TD003", "TD004", "TD005", "TD007"} /\ "list" \in d
  \/ c = "TD002" /\ "facet" \in d

\* Otherwise a skip that full data would have settled names an outage, and so
\* counts for on_data_unavailable (runner.go namesOutage).
OutagesCounted ==
  Evaluated /\ verdict.skipped /\ ~Fully.skipped => Counted(verdict, down) \/ Uncounted(check, down)

\* A request that failed is never passed over: neither in silence nor uncounted.
OutagesShow == NothingPassesUnread /\ OutagesCounted

\* A second source answers in place of the first: the record for the releases,
\* deps.dev's usage for the registry's, and the registry's own word on an
\* attestation for deps.dev's.
SecondSource(c, d) ==
  CASE c \in {"TD002", "TD003"} -> {"list", "previous"} \cap d # {}
    [] c = "TD004" -> {"depsdev"} \cap d # {}
    [] c = "TD012" -> "downloads" \in d /\ verdict = FindsOne("deps.dev", "configured")
    [] OTHER -> FALSE

\* An outage makes a finding only there: a check that reports anything with requests
\* failing also does with every one of them answered (td012.go:77, td004.go).
InventsNothing ==
  Evaluated /\ verdict.findings # {} /\ Fully.findings = {} => SecondSource(check, down)

\* A hash that leaves a lock entry of the same version is always reported: TD016
\* names it, and the level the policy sets is reached by TD016 or, where TD016 only
\* states the move to the registry, by TD014 (of a file that hashes nothing, on its
\* first entry). Only an entry that was and stays a path, of whose bytes nothing is
\* downloaded, is reported at info (td016.go:127, td014.go:112).
LostHashIsJudged ==
  /\ check \in LockChecks /\ facts.locked /\ facts.inBase /\ facts.order = "same"
  /\ facts.baseHash # {} /\ facts.hash = {} /\ ~facts.bundled
  /\ facts.fileHashesNothing => facts.first
  => /\ \E x \in Verdict("TD016", facts, {}).findings: x.what = "integrity-removed"
     /\ \/ facts.baseSource = "path" /\ facts.source = "path"
        \/ \E c \in {"TD014", "TD016"}: \E x \in Verdict(c, facts, {}).findings: x.level = "configured"

=============================================================================
