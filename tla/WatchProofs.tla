---------------------------- MODULE WatchProofs -----------------------------
(***************************************************************************)
(* Watch for any facts, outages and number of cycles: whoever follows the  *)
(* events alone knows where the check stands, and what is called cleared   *)
(* is gone.  And what each check of Verdicts concludes when requests fail, *)
(* which the second rests on: an outage shows, and invents nothing.        *)
(***************************************************************************)
EXTENDS Watch, TLAPS

(* A check concludes or it does not.                                        *)
Concludes(v) == v.skipped \in BOOLEAN

LEMMA Conclusions ==
  /\ Concludes(Pass) /\ Concludes(NoVersion)
  /\ \A names : Concludes(Skip(names))
  /\ \A findings : Concludes(Finds(findings))
  /\ \A what, level : Concludes(FindsOne(what, level))
  /\ \A names, d : Concludes(CleanOrSkip(names, d))
  BY DEF Concludes, Pass, NoVersion, Skip, Finds, FindsOne, CleanOrSkip

LEMMA ComparedConcludes ==
  ASSUME NEW f, NEW d, NEW v, Concludes(v)
  PROVE  Concludes(WithPrevious(f, d, v))
  BY Conclusions DEF WithPrevious

(* So does every check.                                                     *)
LEMMA VerdictConcludes ==
  ASSUME NEW c \in Checks, NEW f, NEW d
  PROVE  Concludes(Verdict(c, f, d))
<1>1. Concludes(TD001(f, d)) /\ Concludes(TD002(f, d)) /\ Concludes(TD003(f, d))
  BY Conclusions DEF TD001, TD002, TD003
<1>2. Concludes(TD004(f, d))
  <2>1. Concludes(TrustCompared(f, d))
    BY Conclusions DEF TrustCompared
  <2> QED
    BY <2>1, ComparedConcludes DEF TD004
<1>3. Concludes(TD005(f, d))
  <2>1. Concludes(ScriptsCompared(f, d))
    BY Conclusions DEF ScriptsCompared
  <2> QED
    BY <2>1, Conclusions, ComparedConcludes DEF TD005
<1>4. Concludes(TD007(f, d))
  <2>1. Concludes(DependenciesCompared(f, d))
    BY Conclusions DEF DependenciesCompared
  <2> QED
    BY <2>1, ComparedConcludes DEF TD007
<1>5. Concludes(TD006(f, d)) /\ Concludes(TD008(f, d)) /\ Concludes(TD009(f, d))
  BY Conclusions DEF TD006, TD008, TD009
<1>6. Concludes(TD010(f, d)) /\ Concludes(TD011(f, d)) /\ Concludes(TD012(f, d))
  BY Conclusions DEF TD010, TD011, TD012
<1>7. Concludes(TD013(f, d)) /\ Concludes(TD014(f, d)) /\ Concludes(TD015(f, d))
  BY Conclusions DEF TD013, TD014, TD015
<1>8. Concludes(TD016(f, d)) /\ Concludes(TD017(f, d))
  BY Conclusions DEF TD016, TD017
<1> QED
  BY <1>1, <1>2, <1>3, <1>4, <1>5, <1>6, <1>7, <1>8 DEF Verdict, Checks

(* An entry of a report.                                                    *)
IsEntry(e) == e.present \in BOOLEAN /\ e.skipped \in BOOLEAN

LEMMA EntryIsEntry ==
  ASSUME NEW c \in Watched, NEW f, NEW d
  PROVE  IsEntry(Entry(c, f, d))
<1> DEFINE of(v) == [present |-> TRUE, skipped |-> v.skipped, names |-> v.names, findings |-> v.findings]
<1>1. ASSUME NEW v, Concludes(v) PROVE IsEntry(of(v))
  BY <1>1 DEF Concludes, IsEntry
<1>2. IsEntry(Absent)
  BY DEF Absent, IsEntry
<1>3. CASE c = "TD000"
  <2>1. Entry(c, f, d) \in {of(FindsOne("expired", "warn")), Absent}
    BY <1>3 DEF Entry
  <2> HIDE DEF of
  <2> QED
    BY <1>1, <1>2, <2>1, Conclusions
<1>4. CASE c = "guarddog"
  <2> DEFINE failed == [Skip({"guarddog"}) EXCEPT !.findings = {"unavailable"}]
  <2>1. Concludes(failed)
    BY DEF Skip, Pass, Concludes
  <2>2. Entry(c, f, d) \in {Absent, of(failed), of(Finds({f.report}))}
    BY <1>4 DEF Entry
  <2> HIDE DEF of, failed
  <2> QED
    BY <1>1, <1>2, <2>1, <2>2, Conclusions
<1>5. CASE c = "TD003"
  <2>1. Concludes(WatchMaintainers(f, d))
    BY Conclusions DEF WatchMaintainers
  <2>2. Entry(c, f, d) = of(WatchMaintainers(f, d))
    BY <1>5 DEF Entry
  <2> HIDE DEF of
  <2> QED
    BY <1>1, <2>1, <2>2
<1>6. CASE c \notin {"TD000", "guarddog", "TD003"}
  <2>1. c \in Checks
    BY <1>6, EvaluationAssumption DEF Watched
  <2>2. Entry(c, f, d) = of(Verdict(c, f, d))
    BY <1>6 DEF Entry
  <2> HIDE DEF of
  <2> QED
    BY <1>1, <2>1, <2>2, VerdictConcludes
<1> QED
  BY <1>3, <1>4, <1>5, <1>6

(* No event, no news.                                                       *)
LEMMA Silence ==
  ASSUME NEW kind, NEW entry, kind = ""
  PROVE  Believes(kind, entry) = ledger
  BY DEF Believes

(* Every event tells a follower who knew where the check stood where it     *)
(* stands now.                                                              *)
LEMMA ChangeTells ==
  ASSUME NEW c, NEW before, NEW after, IsEntry(before), IsEntry(after), ledger = Standing(before)
  PROVE  Believes(Compare(c, before, after), after) = Standing(after)
<1> DEFINE kind == Compare(c, before, after)
<1>1. CASE ~before.present /\ ~after.present
  <2>1. kind = ""
    BY <1>1 DEF Compare
  <2>2. Standing(before) = "absent" /\ Standing(after) = "absent"
    BY <1>1 DEF Standing
  <2>3. Believes(kind, after) = ledger
    BY <2>1, Silence
  <2> QED
    BY <2>2, <2>3
<1>2. CASE c = "guarddog" /\ (before.present \/ after.present)
  <2>1. kind = AnalysisChange(before, after)
    BY <1>2 DEF Compare
  <2>2. CASE before.present # after.present \/ before.skipped # after.skipped
    BY <1>2, <2>1, <2>2 DEF AnalysisChange, Believes, Standing, IsEntry
  <2>3. CASE before.present /\ after.present /\ before.skipped = after.skipped
    BY <2>1, <2>3 DEF AnalysisChange, Believes, Standing, IsEntry
  <2> QED
    BY <1>2, <2>2, <2>3 DEF IsEntry
<1>3. CASE c # "guarddog" /\ before.present /\ (~after.present \/ (after.skipped /\ ~before.skipped))
  <2>1. kind = "coverage_lost"
    BY <1>3 DEF Compare, IsEntry
  <2> QED
    BY <1>3, <2>1 DEF Believes, Standing, IsEntry
<1>4. CASE c # "guarddog" /\ after.present /\ (~before.present \/ (before.skipped /\ ~after.skipped))
  <2>1. kind = "coverage_restored"
    BY <1>4 DEF Compare, IsEntry
  <2> QED
    BY <2>1 DEF Believes
<1>5. CASE c # "guarddog" /\ before.present /\ after.present /\ before.skipped = after.skipped
  <2>1. kind = IF after.skipped THEN IF before.names # after.names THEN "skip_changed" ELSE ""
               ELSE FindingsChange(before, after)
    BY <1>5 DEF Compare, IsEntry
  <2>2. CASE after.skipped
    BY <1>5, <2>1, <2>2 DEF Believes, Standing
  <2>3. CASE ~after.skipped
    <3> DEFINE opened == IF after.findings = {} THEN "clean" ELSE "open"
    <3>1. Standing(after) = opened /\ Standing(before) = IF before.findings = {} THEN "clean" ELSE "open"
      BY <1>5, <2>3 DEF Standing
    <3>2. kind = FindingsChange(before, after)
      BY <2>1, <2>3
    <3>3. CASE before.findings = after.findings
      <4>1. kind = ""
        BY <3>2, <3>3 DEF FindingsChange
      <4>2. Believes(kind, after) = ledger
        BY <4>1, Silence
      <4> QED
        BY <3>1, <3>3, <4>2
    <3>4. CASE before.findings # after.findings /\ after.findings = {}
      <4>1. kind = "findings_cleared"
        BY <3>2, <3>4 DEF FindingsChange
      <4> QED
        BY <3>1, <3>4, <4>1 DEF Believes
    <3>5. CASE before.findings # after.findings /\ after.findings # {}
      <4>1. kind \in {"findings_added", "findings_changed"}
        BY <3>2, <3>5 DEF FindingsChange
      <4> QED
        BY <3>1, <3>5, <4>1 DEF Believes
    <3> QED
      BY <3>3, <3>4, <3>5
  <2> QED
    BY <2>2, <2>3 DEF IsEntry
<1> QED
  BY <1>1, <1>2, <1>3, <1>4, <1>5 DEF IsEntry

(* What a follower believes is where the last snapshot stood.               *)
IInv ==
  /\ check \in Watched
  /\ seen # NotEvaluated => IsEntry(seen) /\ ledger = Standing(seen)
  /\ report # NotEvaluated => report = seen

LEMMA InitIInv == WatchInit => IInv
  BY DEF WatchInit, IInv

LEMMA StepIInv == IInv /\ [WatchNext]_watchVars => IInv'
<1> SUFFICES ASSUME IInv, [WatchNext]_watchVars PROVE IInv'
  OBVIOUS
<1>1. CASE (\E k \in DOMAIN facts : Moves(k)) \/ Wait \/ Stop \/ UNCHANGED watchVars
  <2>1. UNCHANGED <<check, seen, ledger>> /\ (report' = report \/ report' = NotEvaluated)
    BY <1>1 DEF Moves, Wait, Stop, watchVars
  <2> QED
    BY <2>1 DEF IInv, Standing
<1>2. CASE Cycle
  <2>0. PICK d : LET entry == Entry(check, facts, d)
                 IN /\ report' = entry /\ seen' = entry
                    /\ ledger' = IF seen = NotEvaluated THEN Standing(entry)
                                 ELSE Believes(IF seen = NotEvaluated THEN "" ELSE Compare(check, seen, entry), entry)
    BY <1>2 DEF Cycle
  <2> DEFINE entry == Entry(check, facts, d)
  <2>1. /\ check' = check /\ report' = entry /\ seen' = entry
        /\ ledger' = IF seen = NotEvaluated THEN Standing(entry)
                     ELSE Believes(IF seen = NotEvaluated THEN "" ELSE Compare(check, seen, entry), entry)
    BY <1>2, <2>0 DEF Cycle
  <2>2. check \in Watched /\ IsEntry(entry)
    BY EntryIsEntry DEF IInv
  <2> HIDE DEF entry
  <2>3. ledger' = Standing(entry)
    BY <2>1, <2>2, ChangeTells DEF IInv
  <2> QED
    BY <2>1, <2>2, <2>3 DEF IInv, Standing, IsEntry
<1> QED
  BY <1>1, <1>2 DEF WatchNext

(* No sequence of outages, recoveries and changes goes by without the event *)
(* that tells of it (watch.go, Diff).                                       *)
THEOREM WatchEventsTellAll == WatchSpec => []EventsTellAll
<1>1. IInv => EventsTellAll
  BY DEF IInv, EventsTellAll
<1> QED
  BY <1>1, InitIInv, StepIInv, PTL DEF WatchSpec



-----------------------------------------------------------------------------
(* One evaluation. What a check concludes, v, of facts of which it would    *)
(* conclude w with every request answered.                                  *)

SecondSourceOf(c, v, d) ==
  CASE c \in {"TD002", "TD003"} -> {"list", "previous"} \cap d # {}
    [] c = "TD004" -> {"depsdev"} \cap d # {}
    [] c = "TD012" -> "downloads" \in d /\ v = FindsOne("deps.dev", "configured")
    [] OTHER -> FALSE

Shows(c, v, w, d) ==
  /\ Passed(v) /\ w.findings # {} => PassesUnread(c, d)
  /\ v.skipped /\ ~w.skipped => Counted(v, d) \/ Uncounted(c, d)
  /\ v.findings # {} /\ w.findings = {} => SecondSourceOf(c, v, d)

(* What a verdict is made of.                                               *)
LEMMA Shapes ==
  /\ ~Pass.skipped /\ Pass.findings = {}
  /\ NoVersion.skipped /\ NoVersion.findings = {} /\ NoVersion.names = {"registry"}
  /\ \A n : Skip(n).skipped /\ Skip(n).findings = {} /\ Skip(n).names = n
  /\ \A s : ~Finds(s).skipped /\ Finds(s).findings = s
  /\ \A what, level : ~FindsOne(what, level).skipped /\ FindsOne(what, level).findings # {}
<1>1. ~Pass.skipped /\ Pass.findings = {}
  BY DEF Pass
<1>2. \A n : Skip(n).skipped /\ Skip(n).findings = {} /\ Skip(n).names = n
  BY DEF Skip, Pass
<1>3. \A s : ~Finds(s).skipped /\ Finds(s).findings = s
  BY DEF Finds, Pass
<1>4. \A what, level : ~FindsOne(what, level).skipped /\ FindsOne(what, level).findings # {}
  BY <1>3 DEF FindsOne
<1> QED
  BY <1>1, <1>2, <1>3, <1>4 DEF NoVersion

(* The outages that failed requests make.                                   *)
Entries == {"registry", "deps.dev"}
Shared == {"info", "list", "depsdev", "findings"}

LEMMA OutagesOf ==
  ASSUME NEW d, d \cap Entries = {}
  PROVE  /\ "registry" \in Outages(d) <=> "info" \in d \/ "list" \in d
         /\ "deps.dev" \in Outages(d) <=> "depsdev" \in d \/ "findings" \in d
         /\ \A q : q \notin Entries \cup Shared => (q \in Outages(d) <=> q \in d)
         /\ Outages({}) = {}
  BY DEF Outages, Entries, Shared

LEMMA CountedSkip ==
  ASSUME NEW n, NEW d, NEW q, q \in n, q \in Outages(d)
  PROVE  Counted(Skip(n), d)
  BY Shapes DEF Counted

LEMMA Cleans ==
  ASSUME NEW n, NEW d
  PROVE  /\ CleanOrSkip(n, d).findings = {}
         /\ n \cap Outages(d) = {} <=> ~CleanOrSkip(n, d).skipped
         /\ CleanOrSkip(n, d).skipped => Counted(CleanOrSkip(n, d), d)
<1>1. CASE n \cap Outages(d) = {}
  BY <1>1, Shapes DEF CleanOrSkip
<1>2. CASE n \cap Outages(d) # {}
  <2>1. CleanOrSkip(n, d) = Skip(n \cap Outages(d))
    BY <1>2 DEF CleanOrSkip
  <2>2. Counted(Skip(n \cap Outages(d)), d)
    BY <1>2, CountedSkip
  <2> QED
    BY <1>2, <2>1, <2>2, Shapes
<1> QED
  BY <1>1, <1>2

LEMMA NoVersionCounted ==
  ASSUME NEW d, "info" \in d \/ "list" \in d
  PROVE  Counted(NoVersion, d) /\ Counted(Skip({"registry"}), d)
<1>1. "registry" \in Outages(d)
  BY DEF Outages
<1> QED
  BY <1>1, CountedSkip DEF NoVersion

LEMMA TD001Shows ==
  ASSUME NEW f, NEW d, d \subseteq Asks("TD001")
  PROVE  Shows("TD001", TD001(f, d), TD001(f, {}), d)
<1>1. d \cap Entries = {}
  BY DEF Asks, Entries, LockChecks
<1>2. CASE "info" \in d
  BY <1>2, Shapes, NoVersionCounted DEF TD001, Shows, Passed
<1>3. CASE "info" \notin d /\ PublishedAt(f, d) = -1
  <2>1. TD001(f, d) = Skip({"registry", "deps.dev"} \cap Outages(d))
    BY <1>3 DEF TD001
  <2>2. PublishedAt(f, {}) # -1 => "depsdev" \in d
    BY <1>3 DEF PublishedAt
  <2>3. "depsdev" \in d => Counted(TD001(f, d), d)
    BY <1>1, <2>1, OutagesOf, CountedSkip
  <2>4. PublishedAt(f, {}) = -1 => TD001(f, {}).skipped
    BY Shapes DEF TD001
  <2> QED
    BY <2>1, <2>2, <2>3, <2>4, Shapes DEF Shows, Passed
<1>4. CASE "info" \notin d /\ PublishedAt(f, d) # -1
  <2>1. PublishedAt(f, {}) = PublishedAt(f, d)
    BY <1>4 DEF PublishedAt
  <2>2. TD001(f, {}) = TD001(f, d)
    BY <1>4, <2>1 DEF TD001
  <2> QED
    BY <2>2 DEF Shows, Passed
<1> QED
  BY <1>2, <1>3, <1>4

LEMMA TD002Shows ==
  ASSUME NEW f, NEW d, d \subseteq Asks("TD002")
  PROVE  Shows("TD002", TD002(f, d), TD002(f, {}), d)
<1>1. d \cap Entries = {}
  BY DEF Asks, Entries, LockChecks
<1>2. CASE "info" \in d
  BY <1>2, Shapes, NoVersionCounted DEF TD002, Shows, Passed
<1>3. ASSUME "info" \notin d, HistoryAnswers(f, d)
      PROVE  Shows("TD002", TD002(f, d), TD002(f, {}), d)
  <2>1. HistoryAnswers(f, {})
    BY <1>3 DEF HistoryAnswers
  <2> QED
    BY <1>3, <2>1, Shapes DEF TD002, Shows, Passed
<1>4. ASSUME "info" \notin d, ~HistoryAnswers(f, d), BaselineAnswers(f, d)
      PROVE  Shows("TD002", TD002(f, d), TD002(f, {}), d)
  <2>1. Identity(f, {}) = Identity(f, d) /\ BaselineAnswers(f, {})
    BY <1>4 DEF BaselineAnswers, Identity
  <2>2. "list" \notin d => ~HistoryAnswers(f, {})
    BY <1>4 DEF HistoryAnswers
  <2>3. "list" \notin d => TD002(f, {}) = TD002(f, d)
    BY <1>4, <2>1, <2>2 DEF TD002
  <2>4. ~TD002(f, d).skipped
    BY <1>4, Shapes DEF TD002
  <2>5. "list" \in d => PassesUnread("TD002", d) /\ SecondSourceOf("TD002", TD002(f, d), d)
    BY DEF PassesUnread, SecondSourceOf
  <2> QED
    BY <2>3, <2>4, <2>5 DEF Shows, Passed
<1>5. ASSUME "info" \notin d, ~HistoryAnswers(f, d), ~BaselineAnswers(f, d)
      PROVE  Shows("TD002", TD002(f, d), TD002(f, {}), d)
  <2> DEFINE n == IF f.publisher = "none" THEN {} ELSE {"registry"} \cap Outages(d)
  <2>1. TD002(f, d) = Skip(n)
    BY <1>5 DEF TD002
  <2>2. HistoryAnswers(f, {}) => "list" \in d /\ f.publisher # "none"
    BY <1>5 DEF HistoryAnswers
  <2>3. BaselineAnswers(f, {}) => "facet" \in d
    BY <1>5 DEF BaselineAnswers, Identity
  <2>4. ~HistoryAnswers(f, {}) /\ ~BaselineAnswers(f, {}) => TD002(f, {}).skipped
    BY Shapes DEF TD002
  <2>5. "list" \in d /\ f.publisher # "none" => Counted(TD002(f, d), d)
    BY <1>1, <2>1, OutagesOf, CountedSkip
  <2>6. "facet" \in d => Uncounted("TD002", d)
    BY DEF Uncounted
  <2> HIDE DEF n
  <2> QED
    BY <2>1, <2>2, <2>3, <2>4, <2>5, <2>6, Shapes DEF Shows, Passed
<1> QED
  BY <1>2, <1>3, <1>4, <1>5

LEMMA TD003Shows ==
  ASSUME NEW f, NEW d, d \subseteq Asks("TD003")
  PROVE  Shows("TD003", TD003(f, d), TD003(f, {}), d)
<1>1. d \cap Entries = {}
  BY DEF Asks, Entries, LockChecks
<1>2. CASE "info" \in d
  BY <1>2, Shapes, NoVersionCounted DEF TD003, Shows, Passed
<1>3. ASSUME "info" \notin d, VersionsAnswer(f, d)
      PROVE  Shows("TD003", TD003(f, d), TD003(f, {}), d)
  <2>1. VersionsAnswer(f, {})
    BY <1>3 DEF VersionsAnswer
  <2>2. TD003(f, {}) = TD003(f, d)
    BY <1>3, <2>1 DEF TD003
  <2> QED
    BY <2>2 DEF Shows, Passed
<1> DEFINE OwnersAnswer(e) == Recorded(f) /\ "owners" \notin e /\ f.owners # "nobody"
<1>4. ASSUME "info" \notin d, ~VersionsAnswer(f, d), OwnersAnswer(d)
      PROVE  Shows("TD003", TD003(f, d), TD003(f, {}), d)
  <2>1. {"list", "previous"} \cap d = {} => ~VersionsAnswer(f, {})
    BY <1>4 DEF VersionsAnswer
  <2>2. {"list", "previous"} \cap d = {} => TD003(f, {}) = TD003(f, d)
    BY <1>4, <2>1 DEF TD003
  <2>3. ~TD003(f, d).skipped
    BY <1>4, Shapes DEF TD003
  <2>4. {"list", "previous"} \cap d # {} => PassesUnread("TD003", d) /\ SecondSourceOf("TD003", TD003(f, d), d)
    BY DEF PassesUnread, SecondSourceOf
  <2> QED
    BY <2>2, <2>3, <2>4 DEF Shows, Passed
<1>5. ASSUME "info" \notin d, ~VersionsAnswer(f, d), ~OwnersAnswer(d)
      PROVE  Shows("TD003", TD003(f, d), TD003(f, {}), d)
  <2> DEFINE n == (IF f.npm /\ "list" \notin d /\ f.before # "norelease" THEN {"previous"} \cap d ELSE {})
                  \cup (IF Recorded(f) THEN {"owners"} \cap d ELSE {})
  <2>1. TD003(f, d) = Skip(n)
    BY <1>5 DEF TD003
  <2>2. VersionsAnswer(f, {}) /\ "list" \notin d => "previous" \in n
    BY <1>5 DEF VersionsAnswer
  <2>3. OwnersAnswer({}) => "owners" \in n
    BY <1>5
  <2>4. ~VersionsAnswer(f, {}) /\ ~OwnersAnswer({}) => TD003(f, {}).skipped
    BY Shapes DEF TD003
  <2>5. "list" \in d => Uncounted("TD003", d)
    BY DEF Uncounted
  <2>6. ASSUME NEW q \in {"previous", "owners"}, q \in n
        PROVE  Counted(Skip(n), d)
    <3>1. q \in d
      BY <2>6
    <3>2. q \in Outages(d)
      BY <1>1, <3>1, OutagesOf DEF Entries, Shared
    <3> HIDE DEF n
    <3> QED
      BY <2>6, <3>2, CountedSkip
  <2> HIDE DEF n, OwnersAnswer
  <2> QED
    BY <2>1, <2>2, <2>3, <2>4, <2>5, <2>6, Shapes DEF Shows, Passed
<1> QED
  BY <1>2, <1>3, <1>4, <1>5

(* A skip shows when it is counted; the verdict of full data always does.   *)
LEMMA SkipShows ==
  ASSUME NEW c, NEW w, NEW d, NEW n,
         w.skipped \/ Counted(Skip(n), d) \/ Uncounted(c, d)
  PROVE  Shows(c, Skip(n), w, d)
<1>1. Skip(n).skipped /\ Skip(n).findings = {}
  BY Shapes, Zenon
<1>2. ~Passed(Skip(n))
  BY <1>1, Zenon DEF Passed
<1> QED
  BY <1>1, <1>2, Zenon DEF Shows

LEMMA SameShows == \A c, v, d : Shows(c, v, v, d)
  BY Zenon DEF Shows, Passed

(* A comparison with the previous release: what can fail before it.         *)
LEMMA BeforeComparison ==
  ASSUME NEW f, NEW d, d \cap Entries = {}, NEW v, NEW w, NEW c \in {"TD004", "TD005", "TD007"},
         {"info", "list", "previous", "facet", "previous facet"} \cap d = {} /\ f.previous # "norelease" => Shows(c, v, w, d)
  PROVE  Shows(c, WithPrevious(f, d, v), WithPrevious(f, {}, w), d)
<1> DEFINE before == {"info", "list", "previous", "facet", "previous facet"}
<1>1. CASE "info" \in d
  <2>1. WithPrevious(f, d, v) = Skip({"registry"})
    BY <1>1 DEF WithPrevious, NoVersion
  <2>2. Counted(Skip({"registry"}), d)
    BY <1>1, NoVersionCounted
  <2>3. Shows(c, Skip({"registry"}), WithPrevious(f, {}, w), d)
    BY <2>2, SkipShows, Zenon
  <2> QED
    BY <2>1, <2>3
<1>2. CASE "info" \notin d /\ "list" \in d
  <2>1. WithPrevious(f, d, v) = Skip({})
    BY <1>2 DEF WithPrevious
  <2>2. Uncounted(c, d)
    BY <1>2 DEF Uncounted
  <2> QED
    BY <2>1, <2>2, SkipShows
<1>3. CASE "info" \notin d /\ f.previous = "norelease"
  <2>1. WithPrevious(f, d, v) = Skip({}) /\ WithPrevious(f, {}, w) = Skip({})
    BY <1>3 DEF WithPrevious
  <2> QED
    BY <2>1, SameShows
<1>4. ASSUME NEW q \in {"previous", "facet", "previous facet"}, q \in d, WithPrevious(f, d, v) = Skip({q})
      PROVE  Shows(c, WithPrevious(f, d, v), WithPrevious(f, {}, w), d)
  <2>1. q \in Outages(d)
    BY <1>4, OutagesOf DEF Entries, Shared
  <2>2. Counted(Skip({q}), d)
    BY <2>1, CountedSkip
  <2>3. Shows(c, Skip({q}), WithPrevious(f, {}, w), d)
    BY <2>2, SkipShows, Zenon
  <2> QED
    BY <1>4, <2>3
<1>5. CASE {"info", "list"} \cap d = {} /\ f.previous # "norelease" /\ {"previous", "facet", "previous facet"} \cap d # {}
  <2>1. CASE "previous" \in d
    BY <1>4, <1>5, <2>1 DEF WithPrevious
  <2>2. CASE "previous" \notin d /\ "facet" \in d
    BY <1>4, <1>5, <2>2 DEF WithPrevious
  <2>3. CASE "previous" \notin d /\ "facet" \notin d /\ "previous facet" \in d
    BY <1>4, <1>5, <2>3 DEF WithPrevious
  <2> QED
    BY <1>5, <2>1, <2>2, <2>3
<1>6. CASE before \cap d = {} /\ f.previous # "norelease"
  <2>1. WithPrevious(f, d, v) = v /\ WithPrevious(f, {}, w) = w
    BY <1>6 DEF WithPrevious
  <2> QED
    BY <1>6, <2>1
<1> QED
  BY <1>1, <1>2, <1>3, <1>5, <1>6

(* Both verdicts find something.                                            *)
LEMMA BothFind ==
  ASSUME NEW c, NEW d, NEW t, NEW l, NEW u, NEW k
  PROVE  Shows(c, FindsOne(t, l), FindsOne(u, k), d)
<1>1. /\ ~FindsOne(t, l).skipped /\ FindsOne(t, l).findings # {}
      /\ ~FindsOne(u, k).skipped /\ FindsOne(u, k).findings # {}
  BY Shapes, Zenon
<1> QED
  BY <1>1, Zenon DEF Shows, Passed

(* Without its base version a comparison gives up on it, counted, or passes *)
(* over the facet that was not gathered.                                    *)
LEMMA BaseGivenUp ==
  ASSUME NEW c \in {"TD005", "TD007"}, NEW f, NEW d, d \cap Entries = {}, NEW w,
         w = CleanOrSkip({"base"}, {}) \/ (f.base # "nobase" /\ {"base", "base facet"} \cap d # {})
  PROVE  Shows(c, CleanOrSkip({"base"}, IF f.base = "nobase" THEN d \ {"base"} ELSE d), w, d)
<1> DEFINE e == IF f.base = "nobase" THEN d \ {"base"} ELSE d
           v == CleanOrSkip({"base"}, e)
<1>1. CASE f.base # "nobase" /\ "base" \in d
  <2>1. "base" \in Outages(d)
    BY <1>1, OutagesOf DEF Entries, Shared
  <2>2. v = Skip({"base"} \cap Outages(d))
    BY <1>1, <2>1 DEF CleanOrSkip
  <2>3. Counted(Skip({"base"} \cap Outages(d)), d)
    BY <2>1, CountedSkip
  <2>4. Shows(c, Skip({"base"} \cap Outages(d)), w, d)
    BY <2>3, SkipShows, Zenon
  <2> QED
    BY <2>2, <2>4
<1>2. CASE f.base = "nobase" \/ "base" \notin d
  <2>1. "base" \notin Outages(e)
    BY <1>2, OutagesOf DEF Outages
  <2>2. v = Pass
    BY <2>1 DEF CleanOrSkip
  <2>3. w = Pass \/ "base facet" \in d
    BY <1>2 DEF CleanOrSkip, Outages
  <2>4. "base facet" \in d => PassesUnread(c, d)
    BY DEF PassesUnread
  <2>5. ~Pass.skipped /\ Pass.findings = {}
    BY Shapes
  <2>6. "base facet" \in d => Shows(c, Pass, w, d)
    BY <2>4, <2>5, Zenon DEF Shows
  <2>7. Shows(c, Pass, Pass, d)
    BY SameShows
  <2>8. Shows(c, Pass, w, d)
    BY <2>3, <2>6, <2>7
  <2> QED
    BY <2>2, <2>8
<1> QED
  BY <1>1, <1>2

(* TD005 and TD007 report what they see; without a base version to see they *)
(* give up on it, counted, or pass it over.                                 *)
LEMMA TD005Shows ==
  ASSUME NEW f, NEW d, d \subseteq Asks("TD005")
  PROVE  Shows("TD005", TD005(f, d), TD005(f, {}), d)
<1>1. d \cap Entries = {}
  BY DEF Asks, Entries, WithPreviousAsks, LockChecks
<1> DEFINE Unscripted(e) == {"info", "list", "previous", "facet"} \cap e = {}
                            /\ f.previous # "norelease" /\ f.now = "none"
           before == {"info", "list", "previous", "facet", "previous facet"}
<1>2. CASE Unscripted(d)
  <2>1. TD005(f, d) = Pass /\ TD005(f, {}) = Pass
    BY <1>2 DEF TD005
  <2> QED
    BY <2>1, SameShows
<1>3. CASE ~Unscripted(d) /\ Unscripted({})
  <2>1. TD005(f, d) = WithPrevious(f, d, Pass)
    BY <1>3 DEF TD005, WithPrevious
  <2>2. TD005(f, {}) = WithPrevious(f, {}, Pass)
    BY <1>3 DEF TD005, WithPrevious
  <2>3. Shows("TD005", Pass, Pass, d)
    BY SameShows
  <2> QED
    BY <1>1, <2>1, <2>2, <2>3, BeforeComparison
<1>4. CASE ~Unscripted(d) /\ ~Unscripted({})
  <2>1. TD005(f, d) = WithPrevious(f, d, ScriptsCompared(f, d))
    BY <1>4 DEF TD005
  <2>2. TD005(f, {}) = WithPrevious(f, {}, ScriptsCompared(f, {}))
    BY <1>4 DEF TD005
  <2>3. before \cap d = {} => Shows("TD005", ScriptsCompared(f, d), ScriptsCompared(f, {}), d)
    <3> DEFINE e == IF f.base = "nobase" THEN d \ {"base"} ELSE d
               fromBase(x) == ComparableBase(f, x) /\ f.base = "none"
    <3>1. CASE f.previous = "none" \/ fromBase(d)
      <4>1. fromBase(d) => fromBase({})
        BY DEF ComparableBase
      <4>2. PICK t : ScriptsCompared(f, d) = FindsOne(t, "configured")
        BY <3>1 DEF ScriptsCompared
      <4>3. PICK u : ScriptsCompared(f, {}) = FindsOne(u, "configured")
        BY <3>1, <4>1 DEF ScriptsCompared
      <4> QED
        BY <4>2, <4>3, BothFind
    <3>2. CASE f.previous # "none" /\ ~fromBase(d)
      <4>1. ScriptsCompared(f, d) = CleanOrSkip({"base"}, e)
        BY <3>2 DEF ScriptsCompared
      <4>2. ~fromBase({}) => ScriptsCompared(f, {}) = CleanOrSkip({"base"}, {})
        <5>1. (IF f.base = "nobase" THEN {} \ {"base"} ELSE {}) = {}
          OBVIOUS
        <5> QED
          BY <3>2, <5>1 DEF ScriptsCompared
      <4>3. fromBase({}) => f.base # "nobase" /\ {"base", "base facet"} \cap d # {}
        BY <3>2 DEF ComparableBase
      <4> HIDE DEF fromBase, e
      <4> QED
        BY <1>1, <4>1, <4>2, <4>3, BaseGivenUp DEF e
    <3> QED
      BY <3>1, <3>2
  <2> QED
    BY <1>1, <2>1, <2>2, <2>3, BeforeComparison
<1> QED
  BY <1>2, <1>3, <1>4

LEMMA TD006Shows ==
  ASSUME NEW f, NEW d, d \subseteq Asks("TD006")
  PROVE  Shows("TD006", TD006(f, d), TD006(f, {}), d)
<1>1. d \cap Entries = {}
  BY DEF Asks, Entries, LockChecks
<1>2. CASE "info" \in d
  <2>1. TD006(f, d) = Skip({"registry"})
    BY <1>2 DEF TD006, NoVersion
  <2>2. Counted(Skip({"registry"}), d)
    BY <1>2, NoVersionCounted
  <2>3. Shows("TD006", Skip({"registry"}), TD006(f, {}), d)
    BY <2>2, SkipShows, Zenon
  <2> QED
    BY <2>1, <2>3
<1>3. CASE "info" \notin d /\ "facet" \in d
  <2>1. TD006(f, d) = Skip({"facet"})
    BY <1>3 DEF TD006
  <2>2. "facet" \in Outages(d)
    BY <1>1, <1>3, OutagesOf DEF Entries, Shared
  <2>3. Counted(Skip({"facet"}), d)
    BY <2>2, CountedSkip
  <2>4. Shows("TD006", Skip({"facet"}), TD006(f, {}), d)
    BY <2>3, SkipShows, Zenon
  <2> QED
    BY <2>1, <2>4
<1>4. CASE "info" \notin d /\ "facet" \notin d
  <2>1. TD006(f, d) = TD006(f, {})
    BY <1>4 DEF TD006
  <2> QED
    BY <2>1, SameShows
<1> QED
  BY <1>2, <1>3, <1>4

LEMMA TD007Shows ==
  ASSUME NEW f, NEW d, d \subseteq Asks("TD007")
  PROVE  Shows("TD007", TD007(f, d), TD007(f, {}), d)
<1> DEFINE before == {"info", "list", "previous", "facet", "previous facet"}
<1>1. d \cap Entries = {}
  BY DEF Asks, Entries, WithPreviousAsks, LockChecks
<1>2. TD007(f, d) = WithPrevious(f, d, DependenciesCompared(f, d))
  BY DEF TD007
<1>3. TD007(f, {}) = WithPrevious(f, {}, DependenciesCompared(f, {}))
  BY DEF TD007
<1>4. before \cap d = {} => Shows("TD007", DependenciesCompared(f, d), DependenciesCompared(f, {}), d)
  <2> DEFINE e == IF f.base = "nobase" THEN d \ {"base"} ELSE d
             fromPrevious == NewRuntime(f.previous, f.now)
             fromBase(x) == ComparableBase(f, x) /\ NewRuntime(f.base, f.now)
  <2>1. CASE fromPrevious \/ fromBase(d)
    <3>1. fromBase(d) => fromBase({})
      BY DEF ComparableBase
    <3>2. PICK t, l : DependenciesCompared(f, d) = FindsOne(t, l)
      BY <2>1 DEF DependenciesCompared
    <3>3. PICK u, k : DependenciesCompared(f, {}) = FindsOne(u, k)
      BY <2>1, <3>1 DEF DependenciesCompared
    <3> QED
      BY <3>2, <3>3, BothFind
  <2>2. CASE ~fromPrevious /\ ~fromBase(d)
    <3>1. DependenciesCompared(f, d) = CleanOrSkip({"base"}, e)
      BY <2>2 DEF DependenciesCompared
    <3>2. ~fromBase({}) => DependenciesCompared(f, {}) = CleanOrSkip({"base"}, {})
      <4>1. (IF f.base = "nobase" THEN {} \ {"base"} ELSE {}) = {}
        OBVIOUS
      <4> QED
        BY <2>2, <4>1 DEF DependenciesCompared
    <3>3. fromBase({}) => f.base # "nobase" /\ {"base", "base facet"} \cap d # {}
      BY <2>2 DEF ComparableBase
    <3> HIDE DEF fromBase, e, fromPrevious
    <3> QED
      BY <1>1, <3>1, <3>2, <3>3, BaseGivenUp DEF e
  <2> QED
    BY <2>1, <2>2
<1> QED
  BY <1>1, <1>2, <1>3, <1>4, BeforeComparison

LEMMA TD008Shows ==
  ASSUME NEW f, NEW d, d \subseteq Asks("TD008")
  PROVE  Shows("TD008", TD008(f, d), TD008(f, {}), d)
<1>1. d \cap Entries = {}
  BY DEF Asks, Entries, LockChecks
<1>2. CASE ~f.popularList \/ f.popular
  <2>1. TD008(f, d) = TD008(f, {})
    BY <1>2 DEF TD008
  <2> QED
    BY <2>1, SameShows
<1> DEFINE Compares == f.popularList /\ ~f.popular
           Finding1(e) == f.match \/ CrossCheck(f, e)
<1>3. CrossCheck(f, d) => CrossCheck(f, {})
  BY DEF CrossCheck, OwnCount, NeighborCount
<1>4. CASE Compares /\ Finding1(d)
  <2>1. PICK t, l : TD008(f, d) = FindsOne(t, l)
    BY <1>4 DEF TD008
  <2>2. PICK u, k : TD008(f, {}) = FindsOne(u, k)
    BY <1>3, <1>4 DEF TD008
  <2> QED
    BY <2>1, <2>2, BothFind
<1>5. CASE Compares /\ ~Finding1(d) /\ "similar" \in d
  <2>1. TD008(f, d) = Skip({"similar"})
    BY <1>5 DEF TD008
  <2>2. "similar" \in Outages(d)
    BY <1>1, <1>5, OutagesOf DEF Entries, Shared
  <2>3. Counted(Skip({"similar"}), d)
    BY <2>2, CountedSkip
  <2>4. Shows("TD008", Skip({"similar"}), TD008(f, {}), d)
    BY <2>3, SkipShows, Zenon
  <2> QED
    BY <2>1, <2>4
<1>6. CASE Compares /\ ~Finding1(d) /\ "similar" \notin d
  <2>1. TD008(f, d) = Pass
    BY <1>6 DEF TD008
  <2>2. CASE ~CrossCheck(f, {})
    <3>1. TD008(f, {}) = Pass
      BY <1>6, <2>2 DEF TD008
    <3> QED
      BY <2>1, <3>1, SameShows
  <2>3. CASE CrossCheck(f, {})
    <3>1. {"downloads", "neighbor downloads"} \cap d # {}
      BY <1>6, <2>3 DEF CrossCheck, OwnCount, NeighborCount
    <3>2. PassesUnread("TD008", d)
      BY <3>1 DEF PassesUnread
    <3>3. ~Pass.skipped /\ Pass.findings = {}
      BY Shapes
    <3>4. Shows("TD008", Pass, TD008(f, {}), d)
      BY <3>2, <3>3, Zenon DEF Shows
    <3> QED
      BY <2>1, <3>4
  <2> QED
    BY <2>2, <2>3
<1> QED
  BY <1>2, <1>4, <1>5, <1>6

(* Where a name is looked for, its outage is what the skip is counted for.  *)
LEMMA CleanShows ==
  ASSUME NEW c, NEW d, NEW n, NEW w,
         n \cap Outages(d) = {} => w = Pass \/ PassesUnread(c, d)
  PROVE  Shows(c, CleanOrSkip(n, d), w, d)
<1>1. CASE n \cap Outages(d) # {}
  <2>1. CleanOrSkip(n, d) = Skip(n \cap Outages(d))
    BY <1>1 DEF CleanOrSkip
  <2>2. Counted(Skip(n \cap Outages(d)), d)
    BY <1>1, CountedSkip
  <2>3. Shows(c, Skip(n \cap Outages(d)), w, d)
    BY <2>2, SkipShows, Zenon
  <2> QED
    BY <2>1, <2>3
<1>2. CASE n \cap Outages(d) = {}
  <2>1. CleanOrSkip(n, d) = Pass
    BY <1>2 DEF CleanOrSkip
  <2>2. ~Pass.skipped /\ Pass.findings = {}
    BY Shapes
  <2>3. PassesUnread(c, d) => Shows(c, Pass, w, d)
    BY <2>2, Zenon DEF Shows
  <2>4. Shows(c, Pass, Pass, d)
    BY SameShows
  <2> QED
    BY <1>2, <2>1, <2>3, <2>4
<1> QED
  BY <1>1, <1>2

(* A skip of sources that could not be read, unless full data skips too.    *)
LEMMA UnreadShows ==
  ASSUME NEW c, NEW d, NEW n, NEW w,
         n \cap Outages(d) = {} => w.skipped
  PROVE  Shows(c, Skip(n), w, d)
<1>1. n \cap Outages(d) # {} => Counted(Skip(n), d)
  BY CountedSkip
<1> QED
  BY <1>1, SkipShows

LEMMA TD009Shows ==
  ASSUME NEW f, NEW d, d \subseteq Asks("TD009")
  PROVE  Shows("TD009", TD009(f, d), TD009(f, {}), d)
<1> DEFINE n == {"osv", "deps.dev"}
           Listed(e) == (IF OsvRead(f, e) /\ f.osv = "malicious" THEN {"osv"} ELSE {})
                        \cup (IF DepsDevRead(f, e) /\ f.depsdev = "malicious" THEN {"deps.dev"} ELSE {})
<1>1. d \cap Entries = {}
  BY DEF Asks, Entries, LockChecks
<1>2. /\ OsvRead(f, d) => OsvRead(f, {})
      /\ DepsDevRead(f, d) => DepsDevRead(f, {})
  BY DEF OsvRead, DepsDevRead, Outages
<1>3. n \cap Outages(d) = {} =>
        (OsvRead(f, {}) <=> OsvRead(f, d)) /\ (DepsDevRead(f, {}) <=> DepsDevRead(f, d))
  <2>1. "osv" \in d => "osv" \in Outages(d)
    BY DEF Outages
  <2> QED
    BY <1>2, <2>1 DEF OsvRead, DepsDevRead
<1>4. CASE ~OsvRead(f, d) /\ ~DepsDevRead(f, d)
  <2>1. TD009(f, d) = Skip(n)
    BY <1>4 DEF TD009
  <2>2. n \cap Outages(d) = {} => TD009(f, {}) = Skip(n)
    BY <1>3, <1>4 DEF TD009
  <2>3. Skip(n).skipped
    BY Shapes
  <2>4. Shows("TD009", Skip(n), TD009(f, {}), d)
    BY <2>2, <2>3, UnreadShows
  <2> QED
    BY <2>1, <2>4
<1>5. CASE (OsvRead(f, d) \/ DepsDevRead(f, d)) /\ Listed(d) = {}
  <2>1. TD009(f, d) = CleanOrSkip(n, d)
    BY <1>5 DEF TD009
  <2>2. n \cap Outages(d) = {} => TD009(f, {}) = CleanOrSkip(n, {})
    BY <1>3, <1>5 DEF TD009
  <2>3. CleanOrSkip(n, {}) = Pass
    BY DEF CleanOrSkip, Outages
  <2>4. Shows("TD009", CleanOrSkip(n, d), TD009(f, {}), d)
    BY <2>2, <2>3, CleanShows
  <2> QED
    BY <2>1, <2>4
<1>6. CASE (OsvRead(f, d) \/ DepsDevRead(f, d)) /\ Listed(d) # {}
  <2>1. PICK t : TD009(f, d) = FindsOne(t, "configured")
    BY <1>6 DEF TD009
  <2>2. PICK u : TD009(f, {}) = FindsOne(u, "configured")
    BY <1>2, <1>6 DEF TD009
  <2> QED
    BY <2>1, <2>2, BothFind
<1> QED
  BY <1>4, <1>5, <1>6

LEMMA TD010Shows ==
  ASSUME NEW f, NEW d, d \subseteq Asks("TD010")
  PROVE  Shows("TD010", TD010(f, d), TD010(f, {}), d)
<1>1. "osv" \in d => "osv" \in Outages(d)
  BY DEF Outages
<1>2. CASE ~OsvRead(f, d)
  <2>1. TD010(f, d) = Skip({"osv"})
    BY <1>2 DEF TD010
  <2>2. {"osv"} \cap Outages(d) = {} => TD010(f, {}) = Skip({"osv"})
    BY <1>1, <1>2 DEF TD010, OsvRead
  <2>3. Skip({"osv"}).skipped
    BY Shapes
  <2>4. Shows("TD010", Skip({"osv"}), TD010(f, {}), d)
    BY <2>2, <2>3, UnreadShows
  <2> QED
    BY <2>1, <2>4
<1>3. CASE OsvRead(f, d)
  <2>1. OsvRead(f, {})
    BY <1>3 DEF OsvRead
  <2>2. TD010(f, d) = TD010(f, {})
    BY <1>3, <2>1 DEF TD010
  <2> QED
    BY <2>2, SameShows
<1> QED
  BY <1>2, <1>3

LEMMA TD011Shows ==
  ASSUME NEW f, NEW d, d \subseteq Asks("TD011")
  PROVE  Shows("TD011", TD011(f, d), TD011(f, {}), d)
<1> DEFINE n == {"registry", "deps.dev"}
           Registry(e) == IF "registry" \notin Outages(e)
                          THEN f.signals \cap ({"yanked", "deprecated"}
                                 \cup (IF "archived" \in e THEN {} ELSE {"package"}))
                          ELSE {}
           DepsDev(e) == IF DepsDevRead(f, e) THEN f.signals \cap {"deps.dev"} ELSE {}
           Unanswered(e) == "registry" \in Outages(e) /\ ~DepsDevRead(f, e)
           Archive(e) == "archived" \in e /\ ~DepsDevRead(f, e)
           unread == {"registry", "deps.dev", "archived"} \cap Outages(d)
<1>1. d \cap Entries = {}
  BY DEF Asks, Entries, LockChecks
<1>2. Outages({}) = {}
  BY DEF Outages
<1>3. ~Unanswered({}) /\ ~Archive({})
  BY <1>2
<1>4. Registry(d) \subseteq Registry({}) /\ DepsDev(d) \subseteq DepsDev({})
  BY <1>2 DEF DepsDevRead
<1>5. CASE Unanswered(d)
  <2>1. TD011(f, d) = Skip(n)
    BY <1>5 DEF TD011
  <2>2. Counted(Skip(n), d)
    BY <1>5, CountedSkip
  <2>3. Shows("TD011", Skip(n), TD011(f, {}), d)
    BY <2>2, SkipShows, Zenon
  <2> QED
    BY <2>1, <2>3
<1>6. CASE ~Unanswered(d) /\ Registry(d) \cup DepsDev(d) # {}
  <2>1. TD011(f, d) = FindsOne(<<Registry(d) \cup DepsDev(d), unread>>, "configured")
    BY <1>6 DEF TD011
  <2>2. Registry({}) \cup DepsDev({}) # {}
    BY <1>4, <1>6
  <2>3. PICK u : TD011(f, {}) = FindsOne(u, "configured")
    BY <1>3, <2>2 DEF TD011
  <2> HIDE DEF Registry, DepsDev, unread
  <2> QED
    BY <2>1, <2>3, BothFind
<1>7. CASE ~Unanswered(d) /\ Registry(d) \cup DepsDev(d) = {} /\ Archive(d)
  <2>1. TD011(f, d) = Skip({"archived"})
    BY <1>7 DEF TD011
  <2>2. "archived" \in Outages(d)
    BY <1>7 DEF Outages
  <2>3. Counted(Skip({"archived"}), d)
    BY <2>2, CountedSkip
  <2>4. Shows("TD011", Skip({"archived"}), TD011(f, {}), d)
    BY <2>3, SkipShows, Zenon
  <2> QED
    BY <2>1, <2>4
<1>8. CASE ~Unanswered(d) /\ Registry(d) \cup DepsDev(d) = {} /\ ~Archive(d)
  <2>1. TD011(f, d) = CleanOrSkip(n, d)
    BY <1>8 DEF TD011
  <2>2. ASSUME n \cap Outages(d) = {}, "archived" \notin d
        PROVE  TD011(f, {}) = Pass
    <3>1. DepsDevRead(f, {}) <=> DepsDevRead(f, d)
      BY <1>2, <2>2 DEF DepsDevRead
    <3>2. Registry({}) = Registry(d) /\ DepsDev({}) = DepsDev(d)
      BY <1>2, <2>2, <3>1
    <3>3. TD011(f, {}) = CleanOrSkip(n, {})
      BY <1>3, <1>8, <3>2 DEF TD011
    <3> QED
      BY <1>2, <3>3 DEF CleanOrSkip
  <2>3. "archived" \in d => PassesUnread("TD011", d)
    BY DEF PassesUnread
  <2>4. Shows("TD011", CleanOrSkip(n, d), TD011(f, {}), d)
    BY <2>2, <2>3, CleanShows
  <2> QED
    BY <2>1, <2>4
<1> QED
  BY <1>5, <1>6, <1>7, <1>8

LEMMA TD012Shows ==
  ASSUME NEW f, NEW d, d \subseteq Asks("TD012")
  PROVE  Shows("TD012", TD012(f, d), TD012(f, {}), d)
<1> DEFINE n == {"downloads", "deps.dev"}
<1>1. Outages({}) = {} /\ ("downloads" \in d => "downloads" \in Outages(d))
  BY DEF Outages
<1>2. CASE OwnCount(f, d) # "unsupported"
  <2>1. OwnCount(f, {}) = OwnCount(f, d)
    BY <1>2 DEF OwnCount
  <2>2. TD012(f, {}) = TD012(f, d)
    BY <1>2, <2>1 DEF TD012
  <2> QED
    BY <2>2, SameShows
<1>3. ASSUME OwnCount(f, d) = "unsupported"
      PROVE  "downloads" \notin d => OwnCount(f, {}) = "unsupported"
  BY <1>3 DEF OwnCount
<1>4. CASE OwnCount(f, d) = "unsupported" /\ ~DepsDevRead(f, d)
  <2>1. TD012(f, d) = Skip(n)
    BY <1>4 DEF TD012
  <2>2. n \cap Outages(d) = {} => ~DepsDevRead(f, {}) /\ "downloads" \notin d
    BY <1>1, <1>4 DEF DepsDevRead
  <2>3. n \cap Outages(d) = {} => TD012(f, {}) = Skip(n)
    BY <1>3, <1>4, <2>2 DEF TD012
  <2>4. Skip(n).skipped
    BY Shapes
  <2>5. Shows("TD012", Skip(n), TD012(f, {}), d)
    BY <2>3, <2>4, UnreadShows
  <2> QED
    BY <2>1, <2>5
<1>5. DepsDevRead(f, d) => DepsDevRead(f, {})
  BY <1>1 DEF DepsDevRead
<1>6. ASSUME OwnCount(f, d) = "unsupported", DepsDevRead(f, d), "downloads" \notin d
      PROVE  /\ f.depsdev = "low" => TD012(f, {}) = FindsOne("deps.dev", "configured")
             /\ f.depsdev = "unindexed" => TD012(f, {}) = Skip({"downloads"})
             /\ f.depsdev \notin {"low", "unindexed"} => TD012(f, {}) = Pass
  BY <1>1, <1>3, <1>5, <1>6 DEF TD012, CleanOrSkip
<1>7. CASE OwnCount(f, d) = "unsupported" /\ DepsDevRead(f, d) /\ f.depsdev = "low"
  <2>1. TD012(f, d) = FindsOne("deps.dev", "configured")
    BY <1>7 DEF TD012
  <2>2. CASE "downloads" \in d
    <3>1. SecondSourceOf("TD012", TD012(f, d), d)
      BY <2>1, <2>2 DEF SecondSourceOf
    <3>2. ~TD012(f, d).skipped /\ TD012(f, d).findings # {}
      BY <2>1, Shapes
    <3> QED
      BY <3>1, <3>2, Zenon DEF Shows, Passed
  <2>3. CASE "downloads" \notin d
    BY <1>6, <1>7, <2>1, <2>3, SameShows
  <2> QED
    BY <2>2, <2>3
<1>8. CASE OwnCount(f, d) = "unsupported" /\ DepsDevRead(f, d) /\ f.depsdev = "unindexed"
  <2>1. TD012(f, d) = Skip({"downloads"})
    BY <1>8 DEF TD012
  <2>2. {"downloads"} \cap Outages(d) = {} => TD012(f, {}) = Skip({"downloads"})
    BY <1>1, <1>6, <1>8
  <2>3. Skip({"downloads"}).skipped
    BY Shapes
  <2>4. Shows("TD012", Skip({"downloads"}), TD012(f, {}), d)
    BY <2>2, <2>3, UnreadShows
  <2> QED
    BY <2>1, <2>4
<1>9. CASE OwnCount(f, d) = "unsupported" /\ DepsDevRead(f, d) /\ f.depsdev \notin {"low", "unindexed"}
  <2>1. TD012(f, d) = CleanOrSkip({"downloads"}, d)
    BY <1>9 DEF TD012
  <2>2. {"downloads"} \cap Outages(d) = {} => TD012(f, {}) = Pass
    BY <1>1, <1>6, <1>9
  <2>3. Shows("TD012", CleanOrSkip({"downloads"}, d), TD012(f, {}), d)
    BY <2>2, CleanShows
  <2> QED
    BY <2>1, <2>3
<1> QED
  BY <1>2, <1>4, <1>7, <1>8, <1>9

LEMMA TD015Shows ==
  ASSUME NEW f, NEW d, d \subseteq Asks("TD015")
  PROVE  Shows("TD015", TD015(f, d), TD015(f, {}), d)
<1>1. CASE "list" \in d
  <2>1. TD015(f, d) = Skip({"registry"})
    BY <1>1 DEF TD015
  <2>2. Counted(Skip({"registry"}), d)
    BY <1>1, NoVersionCounted
  <2>3. Shows("TD015", Skip({"registry"}), TD015(f, {}), d)
    BY <2>2, SkipShows, Zenon
  <2> QED
    BY <2>1, <2>3
<1>2. CASE "list" \notin d
  <2>1. TD015(f, d) = TD015(f, {})
    BY <1>2 DEF TD015
  <2> QED
    BY <2>1, SameShows
<1> QED
  BY <1>1, <1>2

-----------------------------------------------------------------------------
(* TD004. The strengths are in order, and an answer of deps.dev only lifts. *)

LEMMA Strengths ==
  /\ Strength("none") = 0 /\ Strength("unverified") = 4
  /\ Strength("verified") = 5 /\ Strength("trusted") = 7
  BY DEF Strength

LEMMA StrengthOf == \A p \in Provenance : Strength(p) \in {0, 4, 5, 7}
  BY Strengths DEF Provenance

PreviousOf(f, d) == Predecessor(f.previous, f, d)
BaseOf(f, d) == IF ComparableBase(f, d) THEN Predecessor(f.base, f, d) ELSE "none"
ComparedOf(f, d) ==
  IF Strength(BaseOf(f, d)) > Strength(PreviousOf(f, d)) THEN BaseOf(f, d) ELSE PreviousOf(f, d)
Downgraded(f, d) == Strength(ComparedOf(f, d)) > Strength(Current(f, d))
FacetLost(f, d) ==
  f.base # "nobase" /\ "base" \notin d /\ "base facet" \in d /\ Strength(Current(f, d)) < Strength("trusted")
BaseLost(f, d) == f.base # "nobase" /\ "base" \in d
Hidden(f, d) ==
  MightBeVerified(PreviousOf(f, d), f, d) \/ (ComparableBase(f, d) /\ MightBeVerified(BaseOf(f, d), f, d))

Attested(f) ==
  f.now \in Provenance /\ f.previous \in Provenance /\ f.base \in Provenance \cup {"nobase"}

LEMMA Lifts ==
  ASSUME NEW f, NEW d, Attested(f)
  PROVE  /\ Current(f, d) \in Provenance /\ PreviousOf(f, d) \in Provenance /\ BaseOf(f, d) \in Provenance
         /\ ComparedOf(f, d) \in Provenance
<1>1. Current(f, d) \in Provenance /\ PreviousOf(f, d) \in Provenance
  BY DEF Attested, Current, PreviousOf, Predecessor, Provenance
<1>2. BaseOf(f, d) \in Provenance
  BY DEF Attested, BaseOf, ComparableBase, Predecessor, Provenance
<1> QED
  BY <1>1, <1>2 DEF ComparedOf

LEMMA TrustIs ==
  ASSUME NEW f, NEW d, Attested(f)
  PROVE  /\ Downgraded(f, d) => \E t, l : TrustCompared(f, d) = FindsOne(t, l)
         /\ ~Downgraded(f, d) /\ FacetLost(f, d) => TrustCompared(f, d) = Skip({"base facet"})
         /\ ~Downgraded(f, d) /\ ~FacetLost(f, d) /\ BaseLost(f, d) => TrustCompared(f, d) = Skip({"base"})
         /\ ~Downgraded(f, d) /\ ~FacetLost(f, d) /\ ~BaseLost(f, d) =>
              TrustCompared(f, d) = IF Hidden(f, d) THEN Skip({"deps.dev"}) ELSE Pass
<1> DEFINE now == Current(f, d)
           compared == ComparedOf(f, d)
           againstBase == Strength(BaseOf(f, d)) > Strength(PreviousOf(f, d))
<1>1. TrustCompared(f, d) =
        CASE Strength(compared) > Strength(now) ->
            FindsOne(<<compared, now>>, IF f.olderLine /\ ~againstBase THEN "warn" ELSE "configured")
       [] Strength(compared) <= Strength(now) /\ f.base # "nobase" /\ "base" \notin d
            /\ "base facet" \in d /\ Strength(now) < Strength("trusted") -> Skip({"base facet"})
       [] Strength(compared) <= Strength(now) /\ f.base # "nobase" /\ "base" \in d -> Skip({"base"})
       [] OTHER -> IF Hidden(f, d) THEN Skip({"deps.dev"}) ELSE Pass
  BY DEF TrustCompared, ComparedOf, BaseOf, PreviousOf, Hidden
<1>2. Strength(compared) <= Strength(now) <=> ~Downgraded(f, d)
  BY Lifts, StrengthOf DEF Downgraded
<1>3. Downgraded(f, d) <=> Strength(compared) > Strength(now)
  BY DEF Downgraded
<1> HIDE DEF now, compared, againstBase
<1>4. ASSUME Downgraded(f, d)
      PROVE  \E t, l : TrustCompared(f, d) = FindsOne(t, l)
  BY <1>1, <1>2, <1>3, <1>4
<1>5. ASSUME ~Downgraded(f, d), FacetLost(f, d)
      PROVE  TrustCompared(f, d) = Skip({"base facet"})
  BY <1>1, <1>2, <1>3, <1>5 DEF FacetLost, now
<1>6. ASSUME ~Downgraded(f, d), ~FacetLost(f, d), BaseLost(f, d)
      PROVE  TrustCompared(f, d) = Skip({"base"})
  BY <1>1, <1>2, <1>3, <1>6 DEF BaseLost
<1>7. ASSUME ~Downgraded(f, d), ~FacetLost(f, d), ~BaseLost(f, d)
      PROVE  TrustCompared(f, d) = IF Hidden(f, d) THEN Skip({"deps.dev"}) ELSE Pass
  BY <1>1, <1>2, <1>3, <1>7 DEF FacetLost, BaseLost, now
<1> QED
  BY <1>4, <1>5, <1>6, <1>7

(* With deps.dev answering, full data finds no less than fewer answers do.  *)
LEMMA FullFindsMore ==
  ASSUME NEW f, NEW d, Attested(f), "depsdev" \notin d, Downgraded(f, d)
  PROVE  Downgraded(f, {})
<1>1. Current(f, {}) = Current(f, d)
  BY DEF Current
<1>2. MaySpeak(f, {}) <=> MaySpeak(f, d)
  BY DEF MaySpeak
<1>3. \A p \in Provenance : Strength(Predecessor(p, f, {})) >= Strength(Predecessor(p, f, d))
  BY <1>2, Strengths, StrengthOf DEF Predecessor, Provenance
<1>4. Strength(PreviousOf(f, {})) >= Strength(PreviousOf(f, d))
  BY <1>3 DEF PreviousOf, Attested
<1>5. Strength(BaseOf(f, {})) >= Strength(BaseOf(f, d))
  <2>1. CASE ComparableBase(f, d)
    <3>1. ComparableBase(f, {})
      BY <2>1 DEF ComparableBase
    <3>2. f.base \in Provenance
      BY <2>1 DEF ComparableBase, Attested
    <3> QED
      BY <1>3, <2>1, <3>1, <3>2 DEF BaseOf
  <2>2. CASE ~ComparableBase(f, d)
    <3>1. Strength(BaseOf(f, d)) = 0
      BY <2>2, Strengths DEF BaseOf
    <3> QED
      BY <3>1, Lifts, StrengthOf
  <2> QED
    BY <2>1, <2>2
<1>6. /\ Strength(PreviousOf(f, d)) \in {0, 4, 5, 7} /\ Strength(PreviousOf(f, {})) \in {0, 4, 5, 7}
      /\ Strength(BaseOf(f, d)) \in {0, 4, 5, 7} /\ Strength(BaseOf(f, {})) \in {0, 4, 5, 7}
      /\ Strength(Current(f, d)) \in {0, 4, 5, 7}
  BY Lifts, StrengthOf
<1>7. Strength(ComparedOf(f, {})) >= Strength(ComparedOf(f, d))
  BY <1>4, <1>5, <1>6 DEF ComparedOf
<1>8. Strength(ComparedOf(f, d)) > Strength(Current(f, d))
  BY DEF Downgraded
<1>9. Strength(ComparedOf(f, {})) \in Int /\ Strength(ComparedOf(f, d)) \in Int
  BY Lifts, StrengthOf
<1> QED
  BY <1>1, <1>6, <1>7, <1>8, <1>9 DEF Downgraded

(* What a clean comparison did not see was not there, the earlier release's *)
(* deps.dev record apart.                                                   *)
LEMMA CleanSees ==
  ASSUME NEW f, NEW d, d \cap Entries = {}, Attested(f), "earlier" \notin d,
         ~Downgraded(f, d), ~FacetLost(f, d), ~BaseLost(f, d), ~Hidden(f, d)
  PROVE  ~Downgraded(f, {})
<1>1. Current(f, d) \in Provenance /\ Current(f, {}) \in Provenance
  BY Lifts
<1>2. Strength(Current(f, {})) >= Strength(Current(f, d))
  BY Strengths, StrengthOf, <1>1 DEF Current, Attested
<1>3. /\ Strength(PreviousOf(f, d)) \in {0, 4, 5, 7} /\ Strength(PreviousOf(f, {})) \in {0, 4, 5, 7}
      /\ Strength(BaseOf(f, d)) \in {0, 4, 5, 7} /\ Strength(BaseOf(f, {})) \in {0, 4, 5, 7}
      /\ Strength(Current(f, d)) \in {0, 4, 5, 7} /\ Strength(Current(f, {})) \in {0, 4, 5, 7}
  BY Lifts, StrengthOf
<1>4. Strength(PreviousOf(f, d)) <= Strength(Current(f, d)) /\ Strength(BaseOf(f, d)) <= Strength(Current(f, d))
  BY <1>3 DEF Downgraded, ComparedOf
<1>5. ASSUME NEW p \in Provenance, ~MightBeVerified(Predecessor(p, f, d), f, d),
             Strength(Predecessor(p, f, d)) <= Strength(Current(f, d))
      PROVE  Strength(Predecessor(p, f, {})) <= Strength(Current(f, {}))
  <2>1. CASE "depsdev" \notin d
    <3>1. MaySpeak(f, {}) <=> MaySpeak(f, d)
      BY <2>1 DEF MaySpeak
    <3>2. Predecessor(p, f, {}) = Predecessor(p, f, d)
      BY <3>1 DEF Predecessor
    <3>3. Current(f, {}) = Current(f, d)
      BY <2>1 DEF Current
    <3> QED
      BY <1>5, <3>2, <3>3
  <2>2. CASE "depsdev" \in d
    <3>1. Predecessor(p, f, d) = p
      BY <2>2 DEF Predecessor, MaySpeak
    <3>2. "deps.dev" \in Outages(d)
      BY <2>2, OutagesOf
    <3>3. p = "unverified" => ~(Strength("verified") > Strength(Current(f, d)))
      BY <1>5, <3>1, <3>2 DEF MightBeVerified
    <3>4. CASE p = "unverified"
      <4>1. Strength(Current(f, {})) >= 5
        BY <1>2, <1>3, <3>3, <3>4, Strengths
      <4>2. Strength(Predecessor(p, f, {})) \in {4, 5}
        BY <3>4, Strengths DEF Predecessor
      <4> QED
        BY <1>3, <4>1, <4>2
    <3>5. CASE p # "unverified"
      <4>1. Predecessor(p, f, {}) = p
        BY <3>5 DEF Predecessor
      <4>2. Strength(p) <= Strength(Current(f, d)) /\ Strength(p) \in {0, 4, 5, 7}
        BY <1>5, <3>1, StrengthOf
      <4> QED
        BY <1>2, <1>3, <4>1, <4>2
    <3> QED
      BY <3>4, <3>5
  <2> QED
    BY <2>1, <2>2
<1>6. Strength(PreviousOf(f, {})) <= Strength(Current(f, {}))
  <2>1. f.previous \in Provenance /\ ~MightBeVerified(Predecessor(f.previous, f, d), f, d)
    BY DEF Hidden, PreviousOf, Attested
  <2>2. Strength(Predecessor(f.previous, f, d)) <= Strength(Current(f, d))
    BY <1>4 DEF PreviousOf
  <2> QED
    BY <1>5, <2>1, <2>2 DEF PreviousOf
<1>7. Strength(BaseOf(f, {})) <= Strength(Current(f, {}))
  <2>1. CASE ComparableBase(f, d)
    <3>1. ComparableBase(f, {}) /\ BaseOf(f, d) = Predecessor(f.base, f, d) /\ f.base \in Provenance
      BY <2>1 DEF ComparableBase, BaseOf, Attested
    <3>2. ~MightBeVerified(Predecessor(f.base, f, d), f, d)
      BY <2>1, <3>1 DEF Hidden
    <3>3. BaseOf(f, {}) = Predecessor(f.base, f, {})
      BY <3>1 DEF BaseOf
    <3> QED
      BY <1>4, <1>5, <3>1, <3>2, <3>3
  <2>2. CASE f.base = "nobase"
    <3>1. Strength(BaseOf(f, {})) = 0
      BY <2>2, Strengths DEF BaseOf, ComparableBase
    <3> QED
      BY <1>3, <3>1
  <2>3. CASE f.base # "nobase" /\ {"base", "base facet"} \cap d # {}
    <3>1. ~(Strength(Current(f, d)) < Strength("trusted"))
      BY <2>3 DEF FacetLost, BaseLost
    <3>2. Strength(Current(f, {})) = 7
      BY <1>2, <1>3, <3>1, Strengths
    <3> QED
      BY <1>3, <3>2
  <2> QED
    BY <2>1, <2>2, <2>3 DEF ComparableBase
<1>8. Strength(ComparedOf(f, {})) <= Strength(Current(f, {}))
  BY <1>6, <1>7 DEF ComparedOf
<1>9. Strength(ComparedOf(f, {})) \in Int
  BY Lifts, StrengthOf
<1> QED
  BY <1>3, <1>8, <1>9 DEF Downgraded

LEMMA TrustShows ==
  ASSUME NEW f, NEW d, d \cap Entries = {}, Attested(f)
  PROVE  Shows("TD004", TrustCompared(f, d), TrustCompared(f, {}), d)
<1> DEFINE v == TrustCompared(f, d)
           w == TrustCompared(f, {})
<1>1. ASSUME Downgraded(f, d)
      PROVE  Shows("TD004", v, w, d)
  <2>1. PICK t, l : v = FindsOne(t, l)
    BY <1>1, TrustIs
  <2>2. CASE "depsdev" \notin d
    <3>1. PICK u, k : w = FindsOne(u, k)
      BY <1>1, <2>2, FullFindsMore, TrustIs
    <3> QED
      BY <2>1, <3>1, BothFind
  <2>3. CASE "depsdev" \in d
    <3>1. SecondSourceOf("TD004", v, d)
      BY <2>3 DEF SecondSourceOf
    <3>2. ~v.skipped /\ v.findings # {}
      BY <2>1, Shapes
    <3> HIDE DEF v, w
    <3> QED
      BY <3>1, <3>2, Zenon DEF Shows, Passed
  <2> QED
    BY <2>2, <2>3
<1>2. ASSUME NEW q \in {"base facet", "base", "deps.dev"}, q \in Outages(d), v = Skip({q})
      PROVE  Shows("TD004", v, w, d)
  <2>1. Counted(Skip({q}), d)
    BY <1>2, CountedSkip
  <2>2. Shows("TD004", Skip({q}), w, d)
    BY <2>1, SkipShows, Zenon
  <2> HIDE DEF v, w
  <2> QED
    BY <1>2, <2>2
<1>3. ASSUME ~Downgraded(f, d), FacetLost(f, d) \/ BaseLost(f, d)
      PROVE  Shows("TD004", v, w, d)
  <2>1. CASE FacetLost(f, d)
    <3>1. "base facet" \in Outages(d)
      BY <2>1, OutagesOf DEF FacetLost, Entries, Shared
    <3>2. v = Skip({"base facet"})
      BY <1>3, <2>1, TrustIs
    <3> HIDE DEF v, w
    <3> QED
      BY <1>2, <3>1, <3>2
  <2>2. CASE ~FacetLost(f, d) /\ BaseLost(f, d)
    <3>1. "base" \in Outages(d)
      BY <2>2, OutagesOf DEF BaseLost, Entries, Shared
    <3>2. v = Skip({"base"})
      BY <1>3, <2>2, TrustIs
    <3> HIDE DEF v, w
    <3> QED
      BY <1>2, <3>1, <3>2
  <2> QED
    BY <1>3, <2>1, <2>2
<1>4. ASSUME ~Downgraded(f, d), ~FacetLost(f, d), ~BaseLost(f, d), Hidden(f, d)
      PROVE  Shows("TD004", v, w, d)
  <2>1. v = Skip({"deps.dev"})
    BY <1>4, TrustIs
  <2>2. "deps.dev" \in Outages(d)
    BY <1>4 DEF Hidden, MightBeVerified
  <2> HIDE DEF v, w
  <2> QED
    BY <1>2, <2>1, <2>2
<1>5. ASSUME ~Downgraded(f, d), ~FacetLost(f, d), ~BaseLost(f, d), ~Hidden(f, d)
      PROVE  Shows("TD004", v, w, d)
  <2>1. v = Pass
    BY <1>5, TrustIs
  <2>2. ~Pass.skipped /\ Pass.findings = {}
    BY Shapes
  <2>3. CASE "earlier" \in d
    <3>1. PassesUnread("TD004", d)
      BY <2>3 DEF PassesUnread
    <3>2. Shows("TD004", Pass, w, d)
      BY <2>2, <3>1, Zenon DEF Shows
    <3> HIDE DEF v, w
    <3> QED
      BY <2>1, <3>2
  <2>4. CASE "earlier" \notin d
    <3>1. ~Downgraded(f, {})
      BY <1>5, <2>4, CleanSees
    <3>2. w = IF Hidden(f, {}) THEN Skip({"deps.dev"}) ELSE Pass
      BY <3>1, TrustIs DEF FacetLost, BaseLost
    <3>3. w.findings = {}
      BY <3>2, Shapes
    <3>4. Shows("TD004", Pass, w, d)
      BY <2>2, <3>3, Zenon DEF Shows
    <3> HIDE DEF v, w
    <3> QED
      BY <2>1, <3>4
  <2> QED
    BY <2>3, <2>4
<1> QED
  BY <1>1, <1>3, <1>4, <1>5

LEMMA TD004Shows ==
  ASSUME NEW f, NEW d, d \subseteq Asks("TD004"),
         f.now \in Provenance, f.previous \in Provenance \cup {"norelease"}, f.base \in Provenance \cup {"nobase"}
  PROVE  Shows("TD004", TD004(f, d), TD004(f, {}), d)
<1>1. d \cap Entries = {}
  BY DEF Asks, Entries, WithPreviousAsks, LockChecks
<1>2. f.previous # "norelease" => Shows("TD004", TrustCompared(f, d), TrustCompared(f, {}), d)
  BY <1>1, TrustShows DEF Attested
<1> QED
  BY <1>1, <1>2, BeforeComparison DEF TD004

-----------------------------------------------------------------------------
(* Every check, and every evaluation of it.                                 *)

LEMMA VerdictShows ==
  ASSUME NEW c \in Checks, NEW f, NEW d, d \subseteq Asks(c),
         c = "TD004" => /\ f.now \in Provenance /\ f.previous \in Provenance \cup {"norelease"}
                        /\ f.base \in Provenance \cup {"nobase"}
  PROVE  Shows(c, Verdict(c, f, d), Verdict(c, f, {}), d)
<1>1. CASE c = "TD001"
  BY <1>1, TD001Shows DEF Verdict
<1>2. CASE c = "TD002"
  BY <1>2, TD002Shows DEF Verdict
<1>3. CASE c = "TD003"
  BY <1>3, TD003Shows DEF Verdict
<1>4. CASE c = "TD004"
  BY <1>4, TD004Shows DEF Verdict
<1>5. CASE c = "TD005"
  BY <1>5, TD005Shows DEF Verdict
<1>6. CASE c = "TD006"
  BY <1>6, TD006Shows DEF Verdict
<1>7. CASE c = "TD007"
  BY <1>7, TD007Shows DEF Verdict
<1>8. CASE c = "TD008"
  BY <1>8, TD008Shows DEF Verdict
<1>9. CASE c = "TD009"
  BY <1>9, TD009Shows DEF Verdict
<1>10. CASE c = "TD010"
  BY <1>10, TD010Shows DEF Verdict
<1>11. CASE c = "TD011"
  BY <1>11, TD011Shows DEF Verdict
<1>12. CASE c = "TD012"
  BY <1>12, TD012Shows DEF Verdict
<1>13. CASE c = "TD015"
  BY <1>13, TD015Shows DEF Verdict
<1>14. CASE c \in LockChecks
  <2>1. d = {}
    BY <1>14 DEF Asks, LockChecks
  <2> QED
    BY <2>1, SameShows
<1> QED
  BY <1>1, <1>2, <1>3, <1>4, <1>5, <1>6, <1>7, <1>8, <1>9, <1>10, <1>11, <1>12, <1>13, <1>14 DEF Checks, LockChecks

\* The facts have values among those of their fields.
Typed(c, f, fields) ==
  /\ f = [k \in DOMAIN fields |-> f[k]]
  /\ \A k \in DOMAIN fields : fields[k] # {} => f[k] \in fields[k]

EvaluationIInv ==
  /\ check \in Selected
  /\ Typed(check, facts, Fields(check))
  /\ verdict # NotEvaluated => verdict = Verdict(check, facts, down) /\ down \subseteq Asks(check)

LEMMA ChosenTyped ==
  ASSUME NEW c, NEW fields, NEW f, f = [k \in DOMAIN fields |-> CHOOSE v \in fields[k] : TRUE]
  PROVE  Typed(c, f, fields)
  BY DEF Typed

LEMMA ChangedTyped ==
  ASSUME NEW c, NEW fields, NEW f, Typed(c, f, fields), NEW k \in DOMAIN f, NEW v \in fields[k]
  PROVE  Typed(c, [f EXCEPT ![k] = v], fields)
  BY DEF Typed

LEMMA TrustTyped ==
  ASSUME NEW f, Typed("TD004", f, Fields("TD004"))
  PROVE  f.now \in Provenance /\ f.previous \in Provenance \cup {"norelease"} /\ f.base \in Provenance \cup {"nobase"}
<1> DEFINE fields == Fields("TD004")
<1>1. {"now", "previous", "base"} \subseteq DOMAIN fields
  BY DEF Fields, LockChecks
<1>2. fields.now = Provenance /\ fields.previous = Provenance \cup {"norelease"} /\ fields.base = Provenance \cup {"nobase"}
  BY DEF Fields, LockChecks
<1>3. Provenance # {}
  BY DEF Provenance
<1> HIDE DEF fields
<1>4. \A k \in DOMAIN fields : fields[k] # {} => f[k] \in fields[k]
  BY DEF Typed, fields
<1> QED
  BY <1>1, <1>2, <1>3, <1>4

LEMMA WatchTrustTyped ==
  ASSUME NEW c, c = "TD004", NEW f, Typed(c, f, WatchFields(c))
  PROVE  f.now \in Provenance /\ f.previous \in Provenance \cup {"norelease"} /\ f.base \in Provenance \cup {"nobase"}
<1> DEFINE fields == WatchFields("TD004")
           all == Fields("TD004")
<1>1. {"now", "previous", "base"} \subseteq DOMAIN all
  BY DEF Fields, LockChecks
<1>2. all["now"] = Provenance /\ all["previous"] = Provenance \cup {"norelease"}
  BY DEF Fields, LockChecks
<1> HIDE DEF all
<1>3. fields = [k \in DOMAIN all |-> IF k = "base" THEN {"nobase"} ELSE all[k] \ (IF k = "record" THEN {"added"} ELSE {})]
  BY DEF WatchFields, all
<1> HIDE DEF fields
<1>4. /\ fields["now"] = Provenance /\ fields["previous"] = Provenance \cup {"norelease"}
      /\ fields["base"] = {"nobase"} /\ {"now", "previous", "base"} \subseteq DOMAIN fields
  BY <1>1, <1>2, <1>3
<1>5. Provenance # {}
  BY DEF Provenance
<1>6. \A k \in DOMAIN fields : fields[k] # {} => f[k] \in fields[k]
  BY DEF Typed, fields
<1>7. f["now"] \in Provenance /\ f["previous"] \in Provenance \cup {"norelease"} /\ f["base"] \in {"nobase"}
  BY <1>4, <1>5, <1>6
<1> QED
  BY <1>7

LEMMA InitEvaluation == Init => EvaluationIInv
  BY ChosenTyped DEF Init, EvaluationIInv

LEMMA StepEvaluation == EvaluationIInv /\ [Next]_vars => EvaluationIInv'
<1> SUFFICES ASSUME EvaluationIInv, [Next]_vars PROVE EvaluationIInv'
  OBVIOUS
<1>1. CASE Again
  BY <1>1 DEF Again, EvaluationIInv
<1>2. ASSUME NEW k \in DOMAIN facts, Change(k)
      PROVE  EvaluationIInv'
  <2>1. PICK v \in Fields(check)[k] : facts' = [facts EXCEPT ![k] = v]
    BY <1>2 DEF Change
  <2>2. check' = check /\ verdict' = NotEvaluated
    BY <1>2 DEF Change
  <2>3. Typed(check, [facts EXCEPT ![k] = v], Fields(check))
    BY ChangedTyped DEF EvaluationIInv
  <2> QED
    BY <2>1, <2>2, <2>3 DEF EvaluationIInv
<1>3. CASE Evaluate
  BY <1>3 DEF Evaluate, EvaluationIInv
<1>4. CASE UNCHANGED vars
  BY <1>4 DEF vars, EvaluationIInv
<1> QED
  BY <1>1, <1>2, <1>3, <1>4 DEF Next

LEMMA EvaluationShows ==
  ASSUME EvaluationIInv, Evaluated
  PROVE  Shows(check, verdict, Fully, down)
<1>1. check \in Checks /\ verdict = Verdict(check, facts, down) /\ down \subseteq Asks(check)
  BY EvaluationAssumption DEF EvaluationIInv, Evaluated
<1>2. check = "TD004" => /\ facts.now \in Provenance /\ facts.previous \in Provenance \cup {"norelease"}
                         /\ facts.base \in Provenance \cup {"nobase"}
  BY TrustTyped DEF EvaluationIInv
<1> QED
  BY <1>1, <1>2, VerdictShows DEF Fully

(* A request that failed is never passed over: whatever fails, and however  *)
(* many, a check that would have reported something with every request      *)
(* answered does not pass, the named gaps apart, and a skip that full data  *)
(* would have settled counts for on_data_unavailable (check.go cleanOrSkip, *)
(* runner.go namesOutage).                                                  *)
THEOREM EvaluationOutagesShow == Spec => []OutagesShow
<1>1. EvaluationIInv => OutagesShow
  BY EvaluationShows DEF OutagesShow, NothingPassesUnread, OutagesCounted, Shows
<1> QED
  BY <1>1, InitEvaluation, StepEvaluation, PTL DEF Spec

(* An outage makes a finding only where a second source answers in place of *)
(* the first (td012.go:77, td004.go).                                       *)
THEOREM EvaluationInventsNothing == Spec => []InventsNothing
<1>1. ASSUME NEW c, NEW d PROVE SecondSource(c, d) <=> SecondSourceOf(c, verdict, d)
  BY DEF SecondSource, SecondSourceOf
<1>2. EvaluationIInv => InventsNothing
  BY <1>1, EvaluationShows DEF InventsNothing, Shows
<1> QED
  BY <1>2, InitEvaluation, StepEvaluation, PTL DEF Spec

(* A hash that leaves a lock entry of the same version is always reported:  *)
(* by TD016, and at the level the policy sets by it or by TD014, unless the *)
(* entry was and stays a path (td016.go:127, td014.go:112). Where TD016 only *)
(* states the move to the registry, TD014 reports what the registry entry   *)
(* lacks.                                                                   *)
THEOREM EvaluationLostHashIsJudged == Spec => []LostHashIsJudged
<1>1. ASSUME EvaluationIInv PROVE LostHashIsJudged
  <2> DEFINE level == IF StatedOnly(facts) THEN "info" ELSE "configured"
             removed == Finding("integrity-removed", level)
  <2> SUFFICES ASSUME check \in LockChecks, facts.locked, facts.inBase, facts.order = "same",
                      facts.baseHash # {}, facts.hash = {}, ~facts.bundled,
                      facts.fileHashesNothing => facts.first
               PROVE  /\ \E x \in Verdict("TD016", facts, {}).findings : x.what = "integrity-removed"
                      /\ \/ facts.baseSource = "path" /\ facts.source = "path"
                         \/ \E c \in {"TD014", "TD016"} : \E x \in Verdict(c, facts, {}).findings : x.level = "configured"
    BY DEF LostHashIsJudged
  <2>1. EntrySignal(facts) = "integrity-removed"
    BY DEF EntrySignal, Disagree
  <2>2. Verdict("TD016", facts, {}) = FindsOne("integrity-removed", level)
    BY <2>1 DEF TD016, Verdict
  <2>3. removed \in Verdict("TD016", facts, {}).findings
    BY <2>2, Shapes DEF FindsOne
  <2>4. removed.what = "integrity-removed" /\ removed.level = level
    BY DEF Finding
  <2>5. CASE ~StatedOnly(facts)
    BY <2>3, <2>4, <2>5
  <2>6. CASE facts.source = "registry"
    <3>1. MissingHash(facts)
      BY <2>6 DEF MissingHash
    <3>2. Finding("missing-hash", "configured") \in TD014(facts, {}).findings
      BY <3>1, Shapes DEF TD014, Finding
    <3>3. Verdict("TD014", facts, {}) = TD014(facts, {})
      BY DEF Verdict
    <3>4. \E x \in Verdict("TD014", facts, {}).findings : x.level = "configured"
      BY <3>2, <3>3 DEF Finding
    <3> QED
      BY <2>3, <2>4, <3>4
  <2>7. StatedOnly(facts) => facts.source = "registry" \/ (facts.baseSource = "path" /\ facts.source = "path")
    BY DEF StatedOnly
  <2> QED
    BY <2>3, <2>4, <2>5, <2>6, <2>7
<1> QED
  BY <1>1, InitEvaluation, StepEvaluation, PTL DEF Spec

-----------------------------------------------------------------------------
(* A change reported cleared.                                               *)

Clear(e) == e.present /\ ~e.skipped /\ e.findings = {}

LEMMA EntryHappened ==
  ASSUME NEW c, NEW f, NEW d
  PROVE  Entry(c, f, d) # NotEvaluated
<1> DEFINE of(v) == [present |-> TRUE, skipped |-> v.skipped, names |-> v.names, findings |-> v.findings]
<1>1. "present" \notin DOMAIN NotEvaluated
  BY DEF NotEvaluated, Pass
<1>2. "present" \in DOMAIN Absent
  BY DEF Absent
<1>3. ASSUME NEW v PROVE "present" \in DOMAIN of(v)
  OBVIOUS
<1>4. Entry(c, f, d) = Absent \/ \E v : Entry(c, f, d) = of(v)
  <2>1. CASE c = "TD000"
    BY <2>1 DEF Entry
  <2>2. CASE c = "guarddog"
    BY <2>2 DEF Entry
  <2>3. CASE c = "TD003"
    BY <2>3 DEF Entry
  <2>4. CASE c \notin {"TD000", "guarddog", "TD003"}
    BY <2>4 DEF Entry
  <2> QED
    BY <2>1, <2>2, <2>3, <2>4
<1> HIDE DEF of
<1> QED
  BY <1>1, <1>2, <1>3, <1>4

(* Only a check that was made and found nothing is reported cleared.        *)
LEMMA ClearedIsClear ==
  ASSUME NEW c, NEW before, NEW after, IsEntry(before), IsEntry(after),
         Compare(c, before, after) = "findings_cleared"
  PROVE  c # "guarddog" /\ Clear(after)
<1> DEFINE kind == Compare(c, before, after)
<1>1. ~(~before.present /\ ~after.present)
  BY DEF Compare
<1>2. c # "guarddog"
  <2>1. CASE c = "guarddog"
    <3>1. kind = AnalysisChange(before, after)
      BY <1>1, <2>1 DEF Compare
    <3>2. kind # "findings_cleared"
      BY <1>1, <3>1 DEF AnalysisChange, IsEntry
    <3> QED
      BY <3>2
  <2> QED
    BY <2>1
<1>3. before.present /\ after.present /\ before.skipped = after.skipped
  BY <1>1, <1>2 DEF Compare, IsEntry
<1>4. kind = IF after.skipped THEN IF before.names # after.names THEN "skip_changed" ELSE ""
             ELSE FindingsChange(before, after)
  BY <1>2, <1>3 DEF Compare, IsEntry
<1>5. ~after.skipped /\ FindingsChange(before, after) = "findings_cleared"
  BY <1>4
<1>6. after.findings = {}
  BY <1>5 DEF FindingsChange
<1> QED
  BY <1>2, <1>3, <1>5, <1>6 DEF Clear

(* What an evaluation finds clear is clear, or passed unread.               *)
LEMMA ClearIsTrue ==
  ASSUME NEW c \in Watched, c # "guarddog", NEW f, Typed(c, f, WatchFields(c)),
         NEW d, d \subseteq WatchAsks(c), Clear(Entry(c, f, d))
  PROVE  Entry(c, f, {}).findings = {} \/ PassesUnread(c, d)
<1> DEFINE of(v) == [present |-> TRUE, skipped |-> v.skipped, names |-> v.names, findings |-> v.findings]
<1>1. CASE c = "TD000"
  <2>1. Entry(c, f, d) = of(FindsOne("expired", "warn")) \/ Entry(c, f, d) = Absent
    BY <1>1 DEF Entry
  <2>2. of(FindsOne("expired", "warn")).findings # {}
    BY Shapes
  <2>3. ~Absent.present
    BY DEF Absent
  <2> QED
    BY <2>1, <2>2, <2>3 DEF Clear
<1>2. CASE c = "TD003"
  <2>1. Entry(c, f, d) = of(WatchMaintainers(f, d)) /\ Entry(c, f, {}) = of(WatchMaintainers(f, {}))
    BY <1>2 DEF Entry
  <2>2. ~WatchMaintainers(f, d).skipped /\ WatchMaintainers(f, d).findings = {}
    BY <2>1 DEF Clear
  <2>3. f.record \notin {"none", "nobody"} /\ "owners" \notin d /\ f.owners # "nobody" /\ f.record = f.owners
    BY <2>2, Shapes DEF WatchMaintainers
  <2>4. WatchMaintainers(f, {}) = Pass
    BY <2>3 DEF WatchMaintainers
  <2> QED
    BY <2>1, <2>4, Shapes
<1>3. CASE c \notin {"TD000", "TD003"}
  <2>1. c \in Checks
    BY <1>3, EvaluationAssumption DEF Watched
  <2>2. d \subseteq Asks(c)
    BY <1>3 DEF WatchAsks
  <2>3. Entry(c, f, d) = of(Verdict(c, f, d)) /\ Entry(c, f, {}) = of(Verdict(c, f, {}))
    BY <1>3 DEF Entry
  <2>4. c = "TD004" => /\ f.now \in Provenance /\ f.previous \in Provenance \cup {"norelease"}
                       /\ f.base \in Provenance \cup {"nobase"}
    BY WatchTrustTyped
  <2>5. Passed(Verdict(c, f, d))
    BY <2>3 DEF Clear, Passed
  <2>6. Shows(c, Verdict(c, f, d), Verdict(c, f, {}), d)
    BY <2>1, <2>2, <2>4, VerdictShows
  <2>7. Verdict(c, f, {}).findings = {} \/ PassesUnread(c, d)
    BY <2>5, <2>6 DEF Shows
  <2> QED
    BY <2>3, <2>7
<1> QED
  BY <1>1, <1>2, <1>3

ClearedIInv ==
  /\ check \in Watched
  /\ Typed(check, facts, WatchFields(check))
  /\ seen # NotEvaluated => IsEntry(seen)
  /\ down \subseteq WatchAsks(check)
  /\ emitted = "findings_cleared" =>
       /\ report # NotEvaluated /\ report = Entry(check, facts, down)
       /\ check # "guarddog" /\ Clear(report)

LEMMA InitCleared == WatchInit => ClearedIInv
  BY ChosenTyped DEF WatchInit, ClearedIInv

LEMMA StepCleared == ClearedIInv /\ [WatchNext]_watchVars => ClearedIInv'
<1> SUFFICES ASSUME ClearedIInv, [WatchNext]_watchVars PROVE ClearedIInv'
  OBVIOUS
<1>1. ASSUME NEW k \in DOMAIN facts, Moves(k)
      PROVE  ClearedIInv'
  <2>1. PICK v \in WatchFields(check)[k] : facts' = [facts EXCEPT ![k] = v]
    BY <1>1 DEF Moves
  <2>2. UNCHANGED <<check, down, report, seen, emitted>> /\ report = NotEvaluated
    BY <1>1 DEF Moves
  <2>3. Typed(check, [facts EXCEPT ![k] = v], WatchFields(check))
    BY ChangedTyped DEF ClearedIInv
  <2>4. emitted # "findings_cleared"
    BY <2>2 DEF ClearedIInv
  <2> QED
    BY <2>1, <2>2, <2>3, <2>4 DEF ClearedIInv
<1>2. CASE Cycle
  <2>0. PICK d \in SUBSET WatchAsks(check) :
          LET entry == Entry(check, facts, d)
          IN /\ down' = d /\ report' = entry /\ seen' = entry
             /\ emitted' = IF seen = NotEvaluated THEN "" ELSE Compare(check, seen, entry)
    BY <1>2 DEF Cycle
  <2> DEFINE entry == Entry(check, facts, d)
  <2>1. /\ UNCHANGED <<check, facts>> /\ down' = d /\ report' = entry /\ seen' = entry
        /\ emitted' = IF seen = NotEvaluated THEN "" ELSE Compare(check, seen, entry)
    BY <1>2, <2>0 DEF Cycle
  <2>2. IsEntry(entry) /\ entry # NotEvaluated
    BY EntryIsEntry, EntryHappened DEF ClearedIInv
  <2>3. ASSUME emitted' = "findings_cleared"
        PROVE  check # "guarddog" /\ Clear(entry)
    <3>1. seen # NotEvaluated /\ Compare(check, seen, entry) = "findings_cleared"
      BY <2>1, <2>3
    <3>2. IsEntry(seen)
      BY <3>1 DEF ClearedIInv
    <3> HIDE DEF entry
    <3> QED
      BY <2>2, <3>1, <3>2, ClearedIsClear
  <2>4. report' = Entry(check', facts', down')
    BY <2>1
  <2> HIDE DEF entry
  <2> QED
    BY <2>1, <2>2, <2>3, <2>4 DEF ClearedIInv
<1>3. CASE Wait
  BY <1>3 DEF Wait, ClearedIInv
<1>4. CASE Stop \/ UNCHANGED watchVars
  BY <1>4 DEF Stop, watchVars, ClearedIInv
<1> QED
  BY <1>1, <1>2, <1>3, <1>4 DEF WatchNext

(* What is reported cleared is gone: with every request answered the check  *)
(* would have nothing to report, except where it passes unread (watch.go,   *)
(* "Cleared means a completed check no longer has findings").               *)
THEOREM WatchClearedIsTrue == WatchSpec => []ClearedIsTrue
<1>1. ClearedIInv => ClearedIsTrue
  BY ClearIsTrue DEF ClearedIInv, ClearedIsTrue, Truth
<1> QED
  BY <1>1, InitCleared, StepCleared, PTL DEF WatchSpec
=============================================================================
