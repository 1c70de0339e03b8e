------------------------------- MODULE Watch --------------------------------
(* trustdiff watch (internal/watch/watch.go, internal/cli/watch.go): one    *)
(* check of one package, evaluated again every interval, and the changes    *)
(* the loop emits.                                                          *)
(*                                                                          *)
(* A subscriber sees the first report and then only the kinds of change.    *)
(* TD003 is replaced by a comparison with the record alone. Two entries of  *)
(* a snapshot are no checks: "TD000" is a finding of an expired allow that  *)
(* no check evaluated, and "guarddog" the supplementary scan, there only    *)
(* while the verdict asks for it. There is no base version, no lock entry   *)
(* and no base revision: watch reads the record's packages and nothing else.*)
EXTENDS Evaluation

CONSTANTS
  WatchDown   \* requests that fail in one cycle

VARIABLES
  report,     \* the entry of the cycle that just ended, NotEvaluated in the interval
  seen,       \* the entry of the last cycle's snapshot
  emitted,    \* the kind of change the last cycle emitted, "" for none
  ledger,     \* what a subscriber believes of the check
  running     \* FALSE once the loop has returned

watchVars == <<check, facts, down, report, seen, emitted, ledger, running>>

Absent == [present |-> FALSE, skipped |-> FALSE, names |-> {}, findings |-> {}]

\* The entry of one cycle's report.
Entry(c, f, d) ==
  LET of(v) == [present |-> TRUE, skipped |-> v.skipped, names |-> v.names, findings |-> v.findings]
  IN CASE c = "TD000" -> IF f.expired THEN of(FindsOne("expired", "warn")) ELSE Absent
       [] c = "guarddog" ->
            IF ~f.requested THEN Absent
            ELSE IF "guarddog" \in d THEN of([Skip({"guarddog"}) EXCEPT !.findings = {"unavailable"}])
            ELSE of(Finds({f.report}))
       [] c = "TD003" -> of(WatchMaintainers(f, d))
       [] OTHER -> of(Verdict(c, f, d))

WatchFields(c) ==
  CASE c = "TD000" -> [expired |-> BOOLEAN]
    [] c = "guarddog" -> [requested |-> BOOLEAN, report |-> {"clean", "suspicious"}]
    [] OTHER -> [k \in DOMAIN Fields(c) |->
                   IF k = "base" THEN {"nobase"} ELSE Fields(c)[k] \ (IF k = "record" THEN {"added"} ELSE {})]

Watched == (Selected \ LockChecks) \cup {"TD000", "guarddog"}

WatchAsks(c) ==
  CASE c = "TD000" -> {}
    [] c = "guarddog" -> {"guarddog"}
    [] OTHER -> Asks(c) \ {"base", "base facet"}

-----------------------------------------------------------------------------

AnalysisChange(before, after) ==
  CASE ~after.present /\ before.present -> "analysis_not_requested"
    [] after.present /\ ~before.present -> "analysis_added"
    [] after.present /\ before.present /\ after.skipped # before.skipped ->
         IF after.skipped THEN "coverage_lost" ELSE "coverage_restored"
    [] OTHER -> IF before.findings # after.findings THEN "analysis_changed" ELSE ""

FindingsChange(before, after) ==
  IF before.findings = after.findings THEN ""
  ELSE IF before.findings = {} THEN "findings_added"
  ELSE IF after.findings = {} THEN "findings_cleared"
  ELSE "findings_changed"

\* Mutant: what is no longer found is cleared, whether or not it was looked for.
CompareFindings(c, before, after) == FindingsChange(before, after)

\* Mutant: a check that was skipped last time is new only when it finds something.
CompareSilently(c, before, after) ==
  IF before.skipped /\ ~after.skipped /\ after.findings = {} THEN ""
  ELSE IF after.skipped THEN "coverage_lost" ELSE FindingsChange(before, after)

\* An entry of the last cycle or of this one.
Compare(c, before, after) ==
  CASE ~before.present /\ ~after.present -> ""
    [] c = "guarddog" /\ (before.present \/ after.present) -> AnalysisChange(before, after)
    [] c # "guarddog" /\ before.present /\ (~after.present \/ (after.skipped /\ ~before.skipped)) -> "coverage_lost"
    [] c # "guarddog" /\ after.present /\ (~before.present \/ (before.skipped /\ ~after.skipped)) -> "coverage_restored"
    [] OTHER ->
         IF after.skipped
         THEN IF before.names # after.names THEN "skip_changed" ELSE ""
         ELSE FindingsChange(before, after)

-----------------------------------------------------------------------------

WatchInit ==
  /\ check \in Watched
  /\ facts = [k \in DOMAIN WatchFields(check) |-> CHOOSE v \in WatchFields(check)[k]: TRUE]
  /\ down = {}
  /\ report = NotEvaluated
  /\ seen = NotEvaluated
  /\ emitted = ""
  /\ ledger = "nothing"
  /\ running = TRUE

\* During the interval.
Moves(k) ==
  /\ running
  /\ report = NotEvaluated
  /\ \E v \in WatchFields(check)[k] \ {facts[k]}: facts' = [facts EXCEPT ![k] = v]
  /\ UNCHANGED <<check, down, report, seen, emitted, ledger, running>>

Standing(entry) ==
  CASE ~entry.present -> "absent"
    [] entry.present /\ entry.skipped -> "unknown"
    [] OTHER -> IF entry.findings = {} THEN "clean" ELSE "open"

\* What a subscriber makes of a change; of a check that is back it
\* reads the report, which comes with the event.
Believes(kind, entry) ==
  CASE kind \in {"findings_added", "findings_changed"} -> "open"
    [] kind = "findings_cleared" -> "clean"
    [] kind \in {"coverage_lost", "analysis_not_requested"} -> IF entry.present THEN "unknown" ELSE "absent"
    [] kind \in {"coverage_restored", "analysis_added", "analysis_changed"} -> Standing(entry)
    [] kind = "skip_changed" -> "unknown"
    [] OTHER -> ledger

\* One evaluation, its snapshot, the comparison and the event: the first is
\* emitted whole. The previous snapshot is replaced whether or not it differed.
Cycle ==
  /\ running
  /\ report = NotEvaluated
  /\ \E d \in SUBSET WatchAsks(check):
       LET entry == Entry(check, facts, d)
           kind == IF seen = NotEvaluated THEN "" ELSE Compare(check, seen, entry)
       IN /\ Cardinality(d) <= WatchDown
          /\ down' = d
          /\ report' = entry
          /\ seen' = entry
          /\ emitted' = kind
          /\ ledger' = IF seen = NotEvaluated THEN Standing(entry) ELSE Believes(kind, entry)
  /\ UNCHANGED <<check, facts, running>>

\* The interval starts after the cycle ended, so evaluations never overlap.
Wait ==
  /\ running
  /\ report # NotEvaluated
  /\ down' = {}
  /\ report' = NotEvaluated
  /\ emitted' = ""
  /\ UNCHANGED <<check, facts, seen, ledger, running>>

\* --once returns after the first cycle; a cancelled context or an output that
\* fails ends the loop at any time.
Stop ==
  /\ running
  /\ running' = FALSE
  /\ UNCHANGED <<check, facts, down, report, seen, emitted, ledger>>

WatchNext ==
  \/ \E k \in DOMAIN facts: Moves(k)
  \/ Cycle
  \/ Wait
  \/ Stop

WatchSpec == WatchInit /\ [][WatchNext]_watchVars

-----------------------------------------------------------------------------
(* Correctness.                                                             *)

Truth == Entry(check, facts, {})

\* What is reported cleared is gone: with every request answered the check would
\* have nothing to report, except where it passes unread (watch.go: "Cleared
\* means a completed check no longer has findings; coverage_lost means its
\* current result is unknown, never resolved").
ClearedIsTrue ==
  emitted = "findings_cleared" => Truth.findings = {} \/ PassesUnread(check, down)

\* Whoever follows the events alone knows after every cycle whether the check is
\* open, clean, unknown or absent: no sequence of outages, recoveries and changes
\* goes by without the event that tells of it.
EventsTellAll == report # NotEvaluated => ledger = Standing(report)

=============================================================================
