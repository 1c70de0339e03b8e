------------------------------ MODULE Verdicts ------------------------------
(* What the checks TD001 to TD017 conclude about one package version        *)
(* (internal/checks/td*.go), from the facts the sources hold and the        *)
(* requests that failed.                                                    *)
(*                                                                          *)
(* f is what is true of the package, one record per check: what every       *)
(* request would have answered. d is the set of requests that could not be  *)
(* made: an outage, as opposed to a definite answer such as an ecosystem    *)
(* deps.dev does not index, which is a fact. A verdict holds the findings   *)
(* with what they rest on and the level they ask for, and of a skip the     *)
(* failures its reason names. Explanations and titles are left out.         *)
EXTENDS Integers, Sequences, FiniteSetsExt

Pass == [findings |-> {}, skipped |-> FALSE, names |-> {}]
Finds(findings) == [Pass EXCEPT !.findings = findings]
Skip(names) == [Pass EXCEPT !.skipped = TRUE, !.names = names]

\* A level is "configured", lowered to at most "warn" or "info", or raised to "block".
Finding(what, level) == [what |-> what, level |-> level]
FindsOne(what, level) == Finds({Finding(what, level)})

\* Subject.Unavailable has one entry for both registry requests and one for both
\* of deps.dev; a facet that was not gathered is an outage of its own.
Outages(d) ==
  (IF d \cap {"info", "list"} # {} THEN {"registry"} ELSE {})
  \cup (IF d \cap {"depsdev", "findings"} # {} THEN {"deps.dev"} ELSE {})
  \cup (d \ {"info", "list", "depsdev", "findings"})

\* Mutant: sources that were down are taken for sources that reported nothing.
CleanWithoutAsking(names, d) == Pass

\* What a check returns when every source it read reported nothing.
CleanOrSkip(names, d) ==
  IF names \cap Outages(d) = {} THEN Pass ELSE Skip(names \cap Outages(d))

\* A skip counts for on_data_unavailable when its reason names an outage.
Counted(v, d) == v.skipped /\ v.names \cap Outages(d) # {}

\* Mutant: the skip does not say why there is no version.
NoVersionUnsaid == Skip({})

NoVersion == Skip({"registry"})

-----------------------------------------------------------------------------
(* TD001 young-version.                                                     *)

DefaultCooldown == 3
PublishedAt(f, d) ==
  IF f.published # -1 THEN f.published
  ELSE IF "depsdev" \notin d THEN f.indexedAt ELSE -1
Cooldown(f) == IF f.cooldown > 0 THEN f.cooldown ELSE DefaultCooldown

TD001(f, d) ==
  IF "info" \in d THEN NoVersion
  ELSE IF PublishedAt(f, d) = -1
       THEN Skip({"registry", "deps.dev"} \cap Outages(d))
       ELSE IF f.clock - PublishedAt(f, d) >= Cooldown(f)
            THEN Pass
            ELSE FindsOne(<<"young", PublishedAt(f, d), f.published = -1>>, "configured")

-----------------------------------------------------------------------------
(* TD002 publisher-changed.                                                 *)

Trusted == {"ci", "other ci"}

\* The releases of the window, as the identities that published them; "none" is
\* a release without one, and no release at all is an empty window.
HistoryAnswers(f, d) ==
  f.publisher # "none" /\ "list" \notin d /\ f.window \ {"none"} # {}

\* Both releases' attested repositories have to be known.
Repositories(f, d) ==
  IF {"depsdev", "earlier"} \cap d = {} THEN f.repositories ELSE "unlisted"

\* A migration to trusted publishing is lowered by what it kept, a rotation among
\* the package's own maintainers to warn.
PublisherLevel(f, d) ==
  LET migration == f.publisher \in Trusted /\ f.window \cap Trusted = {}
  IN CASE migration /\ Repositories(f, d) = "same" -> "info"
       [] migration /\ Repositories(f, d) = "unlisted" /\ f.kept -> "warn"
       [] f.publisher \notin Trusted /\ f.listedBefore -> "warn"
       [] OTHER -> "configured"

\* baseline.PublisherOf: the account, otherwise evidence that was read.
Identity(f, d) ==
  CASE f.publisher # "none" -> f.publisher
    [] f.publisher = "none" /\ "facet" \notin d -> f.identity
    [] OTHER -> "none"

\* An entry the change under review added vouches for nobody, and an account is
\* never compared with an attestation.
BaselineAnswers(f, d) ==
  /\ f.record \notin {"none", "added", "blank"}
  /\ Identity(f, d) # "none"
  /\ (f.record = "repository") = (f.publisher = "none")

TD002(f, d) ==
  IF "info" \in d THEN NoVersion
  ELSE IF HistoryAnswers(f, d)
       THEN IF f.publisher \in f.window THEN Pass
            ELSE FindsOne(<<"publisher", f.publisher>>, PublisherLevel(f, d))
  ELSE IF BaselineAnswers(f, d)
       THEN IF Identity(f, d) = f.record THEN Pass
            ELSE FindsOne(<<"publisher", Identity(f, d), f.record>>, "configured")
  ELSE Skip(IF f.publisher = "none" THEN {} ELSE {"registry"} \cap Outages(d))

-----------------------------------------------------------------------------
(* TD003 maintainers-changed, and what watch puts in its place.             *)

\* Only npm records a set per version.
VersionsAnswer(f, d) ==
  /\ f.npm
  /\ {"list", "previous"} \cap d = {}
  /\ f.before \notin {"norelease", "nobody"}
  /\ f.now # "nobody"

Recorded(f) == f.record \notin {"none", "added", "nobody"}

TD003(f, d) ==
  IF "info" \in d THEN NoVersion
  ELSE IF VersionsAnswer(f, d)
       THEN IF f.before = f.now THEN Pass ELSE FindsOne(<<f.before, f.now>>, "configured")
  ELSE IF Recorded(f) /\ "owners" \notin d /\ f.owners # "nobody"
       THEN IF f.record = f.owners THEN Pass ELSE FindsOne(<<f.record, f.owners>>, "configured")
  ELSE Skip((IF f.npm /\ "list" \notin d /\ f.before # "norelease" THEN {"previous"} \cap d ELSE {})
            \cup (IF Recorded(f) THEN {"owners"} \cap d ELSE {}))

\* watch compares the owners with the record alone, and needs no release.
WatchMaintainers(f, d) ==
  IF f.record \in {"none", "nobody"} THEN Skip({})
  ELSE IF "owners" \in d THEN Skip({"owners"})
  ELSE IF f.owners = "nobody" THEN Skip({})
  ELSE IF f.record = f.owners THEN Pass
  ELSE FindsOne(<<f.record, f.owners>>, "configured")

-----------------------------------------------------------------------------
(* What TD004, TD005 and TD007 compare with.                                *)

\* The base lockfile's version is comparable when its facet was gathered.
ComparableBase(f, d) == f.base # "nobase" /\ {"base", "base facet"} \cap d = {}

\* The comparison needs the previous release and both facets; the reason names
\* the first one that is missing.
WithPrevious(f, d, verdict) ==
  IF "info" \in d THEN NoVersion
  ELSE IF "list" \in d \/ f.previous = "norelease" THEN Skip({})
  ELSE IF "previous" \in d THEN Skip({"previous"})
  ELSE IF "facet" \in d THEN Skip({"facet"})
  ELSE IF "previous facet" \in d THEN Skip({"previous facet"})
  ELSE verdict

\* TD004 trust-downgrade. Provenance.Strength: none below an unverified
\* attestation below a verified one below a trusted publishing record.
Strength(p) ==
  CASE p = "none" -> 0 [] p = "unverified" -> 4 [] p = "verified" -> 5 [] p = "trusted" -> 7

\* deps.dev's word for the evaluated version.
Current(f, d) ==
  IF f.now = "unverified" /\ "depsdev" \notin d /\ f.depsdev = "verified" THEN "verified" ELSE f.now

\* deps.dev may lift a predecessor only when it has read this release too.
MaySpeak(f, d) ==
  /\ "depsdev" \notin d
  /\ f.depsdev # "unindexed"
  /\ f.now = "unverified" => f.depsdev # "unlisted"
Predecessor(p, f, d) ==
  IF p = "unverified" /\ MaySpeak(f, d) /\ "earlier" \notin d /\ f.earlierVerified THEN "verified" ELSE p

\* The one shape a deps.dev outage can hide: an attestation nobody verified that
\* would have been stronger.
MightBeVerified(p, f, d) ==
  p = "unverified" /\ "deps.dev" \in Outages(d) /\ Strength("verified") > Strength(Current(f, d))

TrustCompared(f, d) ==
  LET now == Current(f, d)
      previous == Predecessor(f.previous, f, d)
      base == IF ComparableBase(f, d) THEN Predecessor(f.base, f, d) ELSE "none"
      againstBase == Strength(base) > Strength(previous)
      compared == IF againstBase THEN base ELSE previous
  IN CASE Strength(compared) > Strength(now) ->
            FindsOne(<<compared, now>>, IF f.olderLine /\ ~againstBase THEN "warn" ELSE "configured")
       [] Strength(compared) <= Strength(now) /\ f.base # "nobase" /\ "base" \notin d
            /\ "base facet" \in d /\ Strength(now) < Strength("trusted") -> Skip({"base facet"})
       [] Strength(compared) <= Strength(now) /\ f.base # "nobase" /\ "base" \in d -> Skip({"base"})
       [] OTHER ->
            IF \/ MightBeVerified(previous, f, d)
               \/ ComparableBase(f, d) /\ MightBeVerified(base, f, d)
            THEN Skip({"deps.dev"}) ELSE Pass

TD004(f, d) == WithPrevious(f, d, TrustCompared(f, d))

\* TD005 install-script-introduced. A version without scripts passes whatever the
\* previous release's scripts are.
ScriptsCompared(f, d) ==
  LET fromBase == ComparableBase(f, d) /\ f.base = "none"
  IN IF f.previous = "none" \/ fromBase
     THEN FindsOne(<<"script", f.previous = "none", fromBase>>, "configured")
     ELSE CleanOrSkip({"base"}, IF f.base = "nobase" THEN d \ {"base"} ELSE d)

TD005(f, d) ==
  IF /\ {"info", "list", "previous", "facet"} \cap d = {}
     /\ f.previous # "norelease" /\ f.now = "none"
  THEN Pass
  ELSE WithPrevious(f, d, ScriptsCompared(f, d))

\* TD006 install-script-present.
TD006(f, d) ==
  IF "info" \in d THEN NoVersion
  ELSE IF "facet" \in d THEN Skip({"facet"})
  ELSE IF f.now = "none" THEN Pass ELSE FindsOne("script", "configured")

-----------------------------------------------------------------------------
(* TD007 new-dependency-introduced, for one dependency.                     *)

\* New at runtime: undeclared before, or declared as optional only.
NewRuntime(declared, now) ==
  now # "none" /\ (declared = "none" \/ (declared = "optional" /\ now = "runtime"))

\* Without a version the requirement resolves to, deps.dev is not asked. A
\* release it has not indexed yet is excused by its first release, unless pinned.
UnknownToDepsDev(f, d) ==
  /\ {"dependency list", "dependency depsdev"} \cap d = {}
  /\ \/ f.indexed = "no" /\ (f.pinned \/ "dependency first" \notin d)
     \/ f.indexed = "first" /\ f.pinned

Reasons(f, d) ==
  (IF f.young /\ "dependency list" \notin d THEN {"young"} ELSE {})
  \cup (IF f.lowUsage /\ "dependency downloads" \notin d THEN {"low-usage"} ELSE {})
  \cup (IF UnknownToDepsDev(f, d) THEN {"unknown"} ELSE {})

\* The scope is in the name; the publisher takes the resolved release.
SameOrigin(f, d) ==
  \/ f.origin = "scope"
  \/ f.origin = "publisher" /\ {"dependency list", "dependency info"} \cap d = {}

DependencyLevel(f, d) ==
  IF Reasons(f, d) # {} /\ f.now = "runtime" /\ ~SameOrigin(f, d) THEN "block" ELSE "configured"

DependenciesCompared(f, d) ==
  LET fromPrevious == NewRuntime(f.previous, f.now)
      fromBase == ComparableBase(f, d) /\ NewRuntime(f.base, f.now)
  IN IF fromPrevious \/ fromBase
     THEN FindsOne(<<f.now, fromPrevious, fromBase, Reasons(f, d)>>, DependencyLevel(f, d))
     ELSE CleanOrSkip({"base"}, IF f.base = "nobase" THEN d \ {"base"} ELSE d)

TD007(f, d) == WithPrevious(f, d, DependenciesCompared(f, d))

-----------------------------------------------------------------------------
(* TD008 typosquat-suspect. Counts are relative to the package's own.       *)

\* Mutant: a count that could not be read is zero.
OwnCountZero(f, d) == IF "downloads" \in d THEN "low" ELSE f.usage

OwnCount(f, d) == IF "downloads" \in d THEN "unsupported" ELSE f.usage
NeighborCount(f, d) == IF "neighbor downloads" \in d THEN "unknown" ELSE f.neighbor

\* deps.dev's similar names: on the popular list, or far more downloaded.
CrossCheck(f, d) ==
  /\ "similar" \notin d
  /\ \/ f.similar = "popular"
     \/ /\ f.similar = "other"
        /\ OwnCount(f, d) # "unsupported"
        /\ NeighborCount(f, d) \in {"hundredfold", "thousandfold"}

\* The neighbor's popularity outweighs the package's own, unless the package is
\* the older of the two.
Overshadowed(f, d) ==
  /\ NeighborCount(f, d) = "thousandfold"
  /\ ~(f.older /\ "neighbor list" \notin d)

\* Only a package that is old and used is lowered.
Established(f, d) ==
  /\ "list" \notin d /\ f.age = "old"
  /\ OwnCount(f, d) = "used"
  /\ ~Overshadowed(f, d)

TD008(f, d) ==
  IF ~f.popularList THEN Skip({})
  ELSE IF f.popular THEN Pass
  ELSE IF ~f.match /\ ~CrossCheck(f, d)
       THEN IF "similar" \in d THEN Skip({"similar"}) ELSE Pass
  ELSE FindsOne(<<f.match, CrossCheck(f, d)>>, IF Established(f, d) THEN "warn" ELSE "configured")

-----------------------------------------------------------------------------
(* The advisory databases: TD009 malicious-advisory, TD010 vulnerability,   *)
(* TD011 deprecated-or-yanked, TD012 low-usage.                             *)

OsvRead(f, d) == "osv" \notin d /\ f.osv # "unsupported"
DepsDevRead(f, d) == "deps.dev" \notin Outages(d) /\ f.depsdev # "unsupported"

TD009(f, d) ==
  LET listed == (IF OsvRead(f, d) /\ f.osv = "malicious" THEN {"osv"} ELSE {})
                \cup (IF DepsDevRead(f, d) /\ f.depsdev = "malicious" THEN {"deps.dev"} ELSE {})
  IN IF ~OsvRead(f, d) /\ ~DepsDevRead(f, d) THEN Skip({"osv", "deps.dev"})
     ELSE IF listed = {} THEN CleanOrSkip({"osv", "deps.dev"}, d)
     ELSE FindsOne(<<listed, OsvRead(f, d), DepsDevRead(f, d)>>, "configured")

\* An advisory without a usable severity counts as medium.
Severity(s) == CASE s = "low" -> 1 [] s \in {"unknown", "medium"} -> 2 [] s = "high" -> 3
TD010(f, d) ==
  IF ~OsvRead(f, d) THEN Skip({"osv"})
  ELSE Finds({Finding(s, "configured"): s \in {a \in f.advisories: Severity(a) >= Severity(f.threshold)}})

TD011(f, d) ==
  LET haveRegistry == "registry" \notin Outages(d)
      fromRegistry == IF haveRegistry
                      THEN f.signals \cap ({"yanked", "deprecated"}
                             \cup (IF "archived" \in d THEN {} ELSE {"package"}))
                      ELSE {}
      fromDepsDev == IF DepsDevRead(f, d) THEN f.signals \cap {"deps.dev"} ELSE {}
      unread == {"registry", "deps.dev", "archived"} \cap Outages(d)
  IN IF ~haveRegistry /\ ~DepsDevRead(f, d) THEN Skip({"registry", "deps.dev"})
     ELSE IF fromRegistry \cup fromDepsDev # {}
          THEN FindsOne(<<fromRegistry \cup fromDepsDev, unread>>, "configured")
     ELSE IF "archived" \in d /\ ~DepsDevRead(f, d) THEN Skip({"archived"})
     ELSE CleanOrSkip({"registry", "deps.dev"}, d)

TD012(f, d) ==
  IF OwnCount(f, d) # "unsupported"
  THEN IF OwnCount(f, d) = "used" THEN Pass ELSE FindsOne("registry", "configured")
  ELSE IF ~DepsDevRead(f, d) THEN Skip({"downloads", "deps.dev"})
  ELSE IF f.depsdev = "low" THEN FindsOne("deps.dev", "configured")
  ELSE IF f.depsdev = "unindexed" THEN Skip({"downloads"})
  ELSE CleanOrSkip({"downloads"}, d)

-----------------------------------------------------------------------------
(* The lockfile: TD013 exotic-source, TD014 integrity-missing, TD016        *)
(* lockfile-entry-changed, TD017 version-downgraded. They ask nobody.       *)

TD013(f, d) ==
  IF ~f.locked THEN Skip({})
  ELSE IF f.badName THEN FindsOne("invalid-name", "configured")
  ELSE IF f.bundled \/ f.source = "registry" THEN Pass
  ELSE FindsOne(f.source, IF f.source \in {"path", "unknown"} THEN "info" ELSE "configured")

\* Mutant: only an entry the change added is looked at.
MissingHashOfAdded(f) == f.hash = {} /\ ~f.inBase /\ ~f.bundled /\ f.source # "path"

\* A file that hashes nothing is reported once, on its first subject; a git entry
\* at a full commit needs no hash.
MissingHash(f) ==
  /\ f.hash = {}
  /\ f.fileHashesNothing => f.first
  /\ ~f.bundled
  /\ f.source # "path"
  /\ ~(f.source = "git" /\ f.pinned)

TD014(f, d) ==
  IF ~f.locked THEN Skip({})
  ELSE Finds({s \in {Finding("missing-hash", "configured"), Finding("plain-http", "configured")}:
               IF s.what = "missing-hash" THEN MissingHash(f) ELSE f.http})

\* Hashes are pairs of an algorithm and a digest; another algorithm is taken for
\* another encoding of the same bytes.
Disagree(hashes, others) == \E h \in hashes, o \in others: h[1] = o[1] /\ h[2] # o[2]

\* The first difference that says something about the same version.
EntrySignal(f) ==
  CASE f.baseHash # {} /\ f.hash = {} -> "integrity-removed"
    [] Disagree(f.baseHash, f.hash) -> "integrity-changed"
    [] OTHER ->
       IF f.baseSource # f.source THEN "source-changed"
       ELSE IF f.source # "registry" /\ f.moved THEN "resolved-changed"
       ELSE "none"
StatedOnly(f) ==
  \/ f.baseSource = "path" /\ f.source = "path"
  \/ f.baseSource # "registry" /\ f.source = "registry"

TD016(f, d) ==
  IF ~f.locked \/ ~f.inBase THEN Skip({})
  ELSE IF f.order # "same" \/ EntrySignal(f) = "none" THEN Pass
  ELSE FindsOne(EntrySignal(f), IF StatedOnly(f) THEN "info" ELSE "configured")

TD017(f, d) ==
  IF ~f.locked \/ ~f.inBase \/ f.order = "unordered" THEN Skip({})
  ELSE IF f.order = "lower" THEN FindsOne("downgraded", "configured") ELSE Pass

-----------------------------------------------------------------------------
(* TD015 version-anomaly. A release is its major, its minor and the year and *)
(* month it was published in; f.earlier holds those that are comparable, in *)
(* the order of publication.                                                *)

MajorStep(b, a) == a.major - b.major
MinorStep(b, a) == a.minor - b.minor
Steps(releases) == {<<releases[i], releases[i + 1]>>: i \in 1..Len(releases) - 1}
MaxMajor(releases) == Max({0} \cup {MajorStep(s[1], s[2]): s \in Steps(releases)})
MaxMinor(releases) ==
  Max({0} \cup {MinorStep(s[1], s[2]): s \in {t \in Steps(releases): MajorStep(t[1], t[2]) = 0}})

CalendarYear(major) == major \in 1970..2100
Months(b, a) == (a.year - b.year) * 12 + (a.month - b.month)

\* A step beyond the package's own cadence, and for calendar versions beyond the
\* time that has passed.
Jump(now, earlier) ==
  LET last == earlier[Len(earlier)]
      calendar == CalendarYear(now.major) /\ CalendarYear(last.major)
      major == MajorStep(last, now)
      minor == MinorStep(last, now)
  IN \/ /\ major > Max({1, MaxMajor(earlier)})
        /\ ~(calendar /\ major <= now.year - last.year)
     \/ /\ major = 0 /\ minor > Max({10, MaxMinor(earlier)})
        /\ ~(calendar /\ minor <= Months(last, now))

\* Below a release of its own line that was there before it.
OutOfOrder(now, earlier) ==
  \E i \in 1..Len(earlier):
    LET r == earlier[i]
    IN /\ r.major = now.major
       /\ now.major = 0 => r.minor = now.minor
       /\ r.minor > now.minor \/ (r.minor = now.minor /\ r.patch > now.patch)

TD015(f, d) ==
  IF "list" \in d THEN Skip({"registry"})
  ELSE IF ~f.comparable \/ f.earlier = <<>> THEN Skip({})
  ELSE Finds({s \in {Finding("jump", "configured"), Finding("out-of-order", "configured")}:
               IF s.what = "jump" THEN Jump(f.now, f.earlier) ELSE OutOfOrder(f.now, f.earlier)})

-----------------------------------------------------------------------------

Checks ==
  {"TD001", "TD002", "TD003", "TD004", "TD005", "TD006", "TD007", "TD008", "TD009",
   "TD010", "TD011", "TD012", "TD013", "TD014", "TD015", "TD016", "TD017"}

Verdict(c, f, d) ==
  CASE c = "TD001" -> TD001(f, d) [] c = "TD002" -> TD002(f, d) [] c = "TD003" -> TD003(f, d)
    [] c = "TD004" -> TD004(f, d) [] c = "TD005" -> TD005(f, d) [] c = "TD006" -> TD006(f, d)
    [] c = "TD007" -> TD007(f, d) [] c = "TD008" -> TD008(f, d) [] c = "TD009" -> TD009(f, d)
    [] c = "TD010" -> TD010(f, d) [] c = "TD011" -> TD011(f, d) [] c = "TD012" -> TD012(f, d)
    [] c = "TD013" -> TD013(f, d) [] c = "TD014" -> TD014(f, d) [] c = "TD015" -> TD015(f, d)
    [] c = "TD016" -> TD016(f, d) [] c = "TD017" -> TD017(f, d)

=============================================================================
