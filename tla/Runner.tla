------------------------------- MODULE Runner -------------------------------
(***************************************************************************)
(* The check runner of internal/checks/runner.go: Evaluate resolves every  *)
(* input, prefetches, then assembles a subject per input and runs the      *)
(* applicable checks over it, at most Jobs subjects at a time.  A check    *)
(* runs in a goroutine of its own; one that does not return before the     *)
(* per-check timeout or the end of the run is filed as skipped and keeps   *)
(* running in the background.                                              *)
(*                                                                         *)
(* What a source answered is "ok", "definite" (a failure that is an answer *)
(* of the source) or "outage" (anything else), as definite() in check.go   *)
(* tells them apart; the registry's "not found" is a definite answer that  *)
(* load treats apart.                                                      *)
(***************************************************************************)
EXTENDS Naturals, FiniteSets

CONSTANTS
  N,         \* the number of inputs
  M,         \* the number of checks, numbered in id order
  Jobs,      \* subjects in flight
  Sources,   \* the data sources load records in Subject.Unavailable
  Reads,     \* the sources each check reads, any of which can settle it
  Requires,  \* the source without which a check skips itself, at most one
  LockOnly,  \* checks that read the lockfile entry alone
  Asking,    \* checks that ask the Loader themselves (TD008, TD012)
  Cooldown,  \* the check cooldown_exclude turns off (young-version)
  Kinds      \* the inputs to evaluate, as records of InputType

Inputs == 1..N
Checks == 1..M
Status == {"ok", "definite", "outage"}
Allow == {"none", "active", "expired"}

InputType ==
  [where: {"registry", "path", "badname"},  \* what resolve finds before it asks
   versioned: BOOLEAN,                      \* the ref carries a version
   lock: BOOLEAN,                           \* the input came from a lockfile
   excluded: BOOLEAN,                       \* cooldown_exclude covers the package
   allow: [Checks -> Allow]]                \* the allow entry matching each check

ASSUME RunnerAssumption ==
  /\ N \in Nat /\ M \in Nat /\ Jobs \in Nat \ {0}
  /\ Reads \in [Checks -> SUBSET Sources]
  /\ Requires \in [Checks -> SUBSET Sources]
  /\ \A c \in Checks : Cardinality(Requires[c]) <= 1
  /\ LockOnly \subseteq Checks /\ Asking \subseteq Checks /\ LockOnly \intersect Asking = {}
  /\ \A c \in LockOnly : Reads[c] = {} /\ Requires[c] = {}
  /\ \A k \in Kinds : k \in InputType /\ (k.where = "path" => k.lock)

VARIABLES
  input,     \* what the caller passed
  phase,     \* of Evaluate
  stage,     \* where each input is in the current phase
  resolved,  \* what resolve decided for each input
  unavail,   \* Subject.Unavailable of each subject in flight, by source
  next,      \* the next check of each subject
  outcome,   \* the Outcome under construction for each input
  late,      \* <<input, check>> goroutines still running after their timeout
  canceled   \* the run's context has ended

vars == <<input, phase, stage, resolved, unavail, next, outcome, late, canceled>>

NoOutcome ==
  [evaluated |-> {}, skipped |-> {}, unread |-> {}, found |-> {}, expired |-> {},
   unavailable |-> FALSE]

(* What evaluate decided about a subject before its first check.            *)
Resolution == [skip: {"no", "definite", "outage"}, versions: {"ok", "notfound", "definite", "outage"}]

TypeOK ==
  /\ input \in [Inputs -> Kinds]
  /\ phase \in {"resolve", "evaluate", "done"}
  /\ stage \in [Inputs -> {"queued", "running", "checking", "awaiting", "finished"}]
  /\ resolved \in [Inputs -> Resolution]
  /\ unavail \in [Inputs -> [Sources -> Status]]
  /\ next \in [Inputs -> 1..(M + 1)]
  /\ outcome \in [Inputs -> [evaluated: SUBSET Checks, skipped: SUBSET Checks,
                             unread: SUBSET Checks, found: SUBSET Checks,
                             expired: SUBSET Checks, unavailable: BOOLEAN]]
  /\ late \subseteq Inputs \X Checks
  /\ canceled \in BOOLEAN

Answered == [s \in Sources |-> "ok"]

Init ==
  /\ input \in [Inputs -> Kinds]
  /\ phase = "resolve"
  /\ stage = [i \in Inputs |-> "queued"]
  /\ resolved = [i \in Inputs |-> [skip |-> "no", versions |-> "ok"]]
  /\ unavail = [i \in Inputs |-> Answered]
  /\ next = [i \in Inputs |-> 1]
  /\ outcome = [i \in Inputs |-> NoOutcome]
  /\ late = {}
  /\ canceled = FALSE

InFlight == {i \in Inputs : stage[i] \in {"running", "checking", "awaiting"}}

(* forEach: inputs start in order, as long as the semaphore has room.       *)
Start(i) ==
  /\ phase # "done"
  /\ stage[i] = "queued"
  /\ \A j \in Inputs : stage[j] = "queued" => i <= j
  /\ Cardinality(InFlight) < Jobs
  /\ stage' = [stage EXCEPT ![i] = "running"]
  /\ UNCHANGED <<input, phase, resolved, unavail, next, outcome, late, canceled>>

-----------------------------------------------------------------------------
(* resolve.  A directory of the project and a name npm refuses are answers. *)
(* Otherwise the registry is asked: its failure only matters to a ref with  *)
(* no version, an unrelated name counts as an outage, and a bare ref may    *)
(* turn out to have no stable version.                                      *)
Resolutions(i) ==
  LET registry(a) ==
        IF a # "ok"
          THEN {[skip |-> IF input[i].versioned THEN "no"
                          ELSE IF a = "outage" THEN "outage" ELSE "definite",
                 versions |-> a]}
          ELSE {[skip |-> "no", versions |-> "ok"], [skip |-> "outage", versions |-> "ok"]}
               \union (IF input[i].versioned THEN {} ELSE {[skip |-> "definite", versions |-> "ok"]})
  IN  IF input[i].where # "registry"
        THEN {[skip |-> "definite", versions |-> "ok"]}
        ELSE UNION {registry(a) : a \in {"ok", "notfound", "definite", "outage"}}

Resolve(i) ==
  /\ phase = "resolve"
  /\ stage[i] = "running"
  /\ \E r \in Resolutions(i) : resolved' = [resolved EXCEPT ![i] = r]
  /\ stage' = [stage EXCEPT ![i] = "finished"]
  /\ UNCHANGED <<input, phase, unavail, next, outcome, late, canceled>>

(* Every ref is settled: Prefetch and prefetchDownloads warm the loader     *)
(* and the second forEach begins.                                           *)
Prefetch ==
  /\ phase = "resolve"
  /\ \A i \in Inputs : stage[i] = "finished"
  /\ phase' = "evaluate"
  /\ stage' = [i \in Inputs |-> "queued"]
  /\ UNCHANGED <<input, resolved, unavail, next, outcome, late, canceled>>

-----------------------------------------------------------------------------
(* load and loadBase.  The version list is the one resolve had or the same  *)
(* memoized failure; once the run is canceled resolve's failure may not     *)
(* have been memoized, and is asked for again.  "not found" ends the load   *)
(* with a reason.  The registry counts as unavailable when either of its    *)
(* requests failed, and the first failure is the one kept.                  *)
LoadedVersions(i) ==
  LET v == resolved[i].versions IN
  IF canceled /\ v # "ok" THEN {"ok", "notfound", "definite", "outage"} ELSE {v}

Skipping(i) == resolved[i].skip # "no"

Expired(i) == {c \in Checks : input[i].allow[c] = "expired"}

Load(i) ==
  /\ phase = "evaluate"
  /\ stage[i] = "running"
  /\ stage' = [stage EXCEPT ![i] = "checking"]
  /\ \/ /\ Skipping(i)
        /\ UNCHANGED <<resolved, unavail, outcome>>
     \/ /\ ~Skipping(i)
        /\ "notfound" \in LoadedVersions(i)
        /\ resolved' = [resolved EXCEPT ![i].skip = "definite"]
        /\ UNCHANGED <<unavail, outcome>>
     \/ /\ ~Skipping(i)
        /\ \E v \in LoadedVersions(i) \ {"notfound"}, u \in [Sources -> Status] :
             /\ "registry" \in Sources /\ v # "ok" => u["registry"] = v
             /\ unavail' = [unavail EXCEPT ![i] = u]
        /\ outcome' = [outcome EXCEPT ![i].expired = Expired(i)]
        /\ UNCHANGED resolved
  /\ UNCHANGED <<input, phase, next, late, canceled>>

-----------------------------------------------------------------------------
(* Filing.  A skip adds to Skipped, and to Unavailable when data the run    *)
(* did not have is behind it.                                               *)
\* Mutant: a skip for want of data is filed like any other.
FileSkipUncounted(o, c, outage) ==
  [o EXCEPT !.skipped = @ \union {c},
            !.unread = IF outage THEN @ \union {c} ELSE @]

FileSkip(o, c, outage) ==
  [o EXCEPT !.skipped = @ \union {c},
            !.unread = IF outage THEN @ \union {c} ELSE @,
            !.unavailable = @ \/ outage]

FileResult(i, c, found) ==
  [outcome[i] EXCEPT !.evaluated = @ \union {c},
                     !.found = IF found /\ input[i].allow[c] # "active"
                                 THEN @ \union {c} ELSE @]

(* skipAll recomputes Unavailable once every check has been through: what   *)
(* runOne set on the way does not survive.                                  *)
SkippedFor(i) == outcome[i].skipped \ LockOnly

Close(i) ==
  /\ stage[i] = "checking"
  /\ next[i] = M + 1
  /\ stage' = [stage EXCEPT ![i] = "finished"]
  /\ outcome' = IF Skipping(i)
                  THEN [outcome EXCEPT ![i].unavailable =
                          resolved[i].skip = "outage" /\ SkippedFor(i) # {}]
                  ELSE outcome
  /\ unavail' = [unavail EXCEPT ![i] = Answered]
  /\ UNCHANGED <<input, phase, resolved, next, late, canceled>>

-----------------------------------------------------------------------------
(* The loop over the applicable checks: what is skipped without running ... *)
Unloaded(i, c) == Skipping(i) /\ c \notin LockOnly

Excluded(i, c) ==
  \/ ~Skipping(i) /\ c = Cooldown /\ input[i].excluded
  \/ c \in Asking /\ input[i].allow[c] = "active"

SkipCheck(i) ==
  LET c == next[i] IN
  /\ stage[i] = "checking"
  /\ c <= M
  /\ Unloaded(i, c) \/ Excluded(i, c)
  /\ outcome' = [outcome EXCEPT ![i] =
                   FileSkip(@, c, Unloaded(i, c) /\ resolved[i].skip = "outage")]
  /\ next' = [next EXCEPT ![i] = @ + 1]
  /\ UNCHANGED <<input, phase, stage, resolved, unavail, late, canceled>>

(* ... and the others start in a goroutine of their own (runCheck).         *)
StartCheck(i) ==
  /\ stage[i] = "checking"
  /\ next[i] <= M
  /\ ~Unloaded(i, next[i]) /\ ~Excluded(i, next[i])
  /\ stage' = [stage EXCEPT ![i] = "awaiting"]
  /\ UNCHANGED <<input, phase, resolved, unavail, next, outcome, late, canceled>>

(* What a check makes of a subject.  A check that read nothing skips; one   *)
(* that found nothing passes only when no source it reads was an outage     *)
(* (cleanOrSkip); one that asks the loader itself says so when it got no    *)
(* answer (skipOutage).                                                     *)
Result == [how: {"clean", "found", "skip"}, outage: BOOLEAN]
Clean == [how |-> "clean", outage |-> FALSE]
Found == [how |-> "found", outage |-> FALSE]
Skip(outage) == [how |-> "skip", outage |-> outage]

Verdicts(reads, u) ==
  LET down == {s \in reads : u[s] # "ok"}
      lost == {s \in reads : u[s] = "outage"}
  IN  IF reads # {} /\ down = reads
        THEN {Skip(lost # {})}
        ELSE {Found} \union (IF lost # {} THEN {Skip(TRUE)} ELSE {Clean})

\* Mutant: a check with several sources passes on the ones that answered.
ResultsWithoutCleanOrSkip(i, c) ==
  IF c \in LockOnly THEN IF input[i].lock THEN {Clean, Found} ELSE {Skip(FALSE)}
  ELSE IF \E s \in Reads[c] : unavail[i][s] = "ok" THEN {Clean, Found}
  ELSE {Skip(\E s \in Reads[c] : unavail[i][s] = "outage")}

Results(i, c) ==
  LET u == unavail[i]
      required == {s \in Requires[c] : u[s] # "ok"}
      asked == IF c \in Asking THEN {Skip(FALSE), Skip(TRUE)} ELSE {}
  IN  IF c \in LockOnly THEN IF input[i].lock THEN {Clean, Found} ELSE {Skip(FALSE)}
      ELSE IF required # {} THEN {Skip(\E s \in required : u[s] = "outage")}
      ELSE Verdicts(Reads[c], u) \union asked

(* The check returned, or panicked and was recovered into a plain skip.     *)
CheckReturns(i) ==
  LET c == next[i] IN
  /\ stage[i] = "awaiting"
  /\ \E r \in Results(i, c) \union {Skip(FALSE)} :
       outcome' = [outcome EXCEPT ![i] =
                     IF r.how = "skip" THEN FileSkip(@, c, r.outage)
                                       ELSE FileResult(i, c, r.how = "found")]
  /\ next' = [next EXCEPT ![i] = @ + 1]
  /\ stage' = [stage EXCEPT ![i] = "checking"]
  /\ UNCHANGED <<input, phase, resolved, unavail, late, canceled>>

(* The timeout passed or the run was canceled first: the check is skipped   *)
(* for want of data and its goroutine goes on.                              *)
\* Mutant: runCheck has no timeout of its own.
UnfinishedOnCancelOnly(i) ==
  /\ stage[i] = "awaiting" /\ canceled
  /\ outcome' = [outcome EXCEPT ![i] = FileSkip(@, next[i], TRUE)]
  /\ late' = late \union {<<i, next[i]>>}
  /\ next' = [next EXCEPT ![i] = @ + 1]
  /\ stage' = [stage EXCEPT ![i] = "checking"]
  /\ UNCHANGED <<input, phase, resolved, unavail, canceled>>

\* Mutant: a timeout is logged and the check forgotten.
UnfinishedUnfiled(i) ==
  /\ stage[i] = "awaiting"
  /\ late' = late \union {<<i, next[i]>>}
  /\ next' = [next EXCEPT ![i] = @ + 1]
  /\ stage' = [stage EXCEPT ![i] = "checking"]
  /\ UNCHANGED <<input, phase, resolved, unavail, outcome, canceled>>

CheckUnfinished(i) ==
  /\ stage[i] = "awaiting"
  /\ outcome' = [outcome EXCEPT ![i] = FileSkip(@, next[i], TRUE)]
  /\ late' = late \union {<<i, next[i]>>}
  /\ next' = [next EXCEPT ![i] = @ + 1]
  /\ stage' = [stage EXCEPT ![i] = "checking"]
  /\ UNCHANGED <<input, phase, resolved, unavail, canceled>>

\* Mutant: what a late goroutine found is filed after all.
LateFiles(i, c) ==
  /\ <<i, c>> \in late
  /\ late' = late \ {<<i, c>>}
  /\ outcome' = [outcome EXCEPT ![i].found = @ \union {c}]
  /\ UNCHANGED <<input, phase, stage, resolved, unavail, next, canceled>>

(* The late goroutine's result goes into a buffered channel nobody reads.   *)
LateReturns(i, c) ==
  /\ <<i, c>> \in late
  /\ late' = late \ {<<i, c>>}
  /\ UNCHANGED <<input, phase, stage, resolved, unavail, next, outcome, canceled>>

Done ==
  /\ phase = "evaluate"
  /\ \A i \in Inputs : stage[i] = "finished"
  /\ phase' = "done"
  /\ UNCHANGED <<input, stage, resolved, unavail, next, outcome, late, canceled>>

Cancel ==
  /\ ~canceled
  /\ phase # "done"
  /\ canceled' = TRUE
  /\ UNCHANGED <<input, phase, stage, resolved, unavail, next, outcome, late>>

Advance(i) ==
  \/ Start(i)
  \/ Resolve(i)
  \/ Load(i)
  \/ SkipCheck(i)
  \/ StartCheck(i)
  \/ Close(i)

Next ==
  \/ \E i \in Inputs : Advance(i)
  \/ \E i \in Inputs : CheckReturns(i)
  \/ \E i \in Inputs : CheckUnfinished(i)
  \/ \E i \in Inputs, c \in Checks : LateReturns(i, c)
  \/ Prefetch
  \/ Done
  \/ Cancel

(* The runner's own steps run, loads end (the loader's requests are         *)
(* bounded) and the per-check timer fires.  Nothing makes a check return.   *)
Fairness ==
  /\ WF_vars(Prefetch) /\ WF_vars(Done)
  /\ \A i \in Inputs : WF_vars(Advance(i)) /\ WF_vars(CheckUnfinished(i))

Spec == Init /\ [][Next]_vars /\ Fairness

-----------------------------------------------------------------------------
FinishedSubjects == {i \in Inputs : phase # "resolve" /\ stage[i] = "finished"}

(* A finding an active allow entry covers is never reported, and every      *)
(* expired entry of a loaded subject is.                                    *)
AllowHonoured ==
  \A i \in FinishedSubjects :
    /\ \A c \in outcome[i].found : input[i].allow[c] # "active"
    /\ ~Skipping(i) => outcome[i].expired = Expired(i)

(* Every check of a finished subject was filed once, as evaluated or as     *)
(* skipped, whatever timed out, panicked or could not be loaded, and what   *)
(* it found as the allow entries have it.                                   *)
EachCheckFiled ==
  /\ AllowHonoured
  /\ \A i \in FinishedSubjects :
       /\ outcome[i].evaluated \union outcome[i].skipped = Checks
       /\ outcome[i].evaluated \intersect outcome[i].skipped = {}
       /\ outcome[i].found \subseteq outcome[i].evaluated

(* docs/checks.md: "A check never passes for lack of data".  A check that   *)
(* was evaluated and found nothing that an allow entry hides had every      *)
(* source it reads answer, and its subject was loaded.                      *)
NeverPassesForLackOfData ==
  \A i \in InFlight : \A c \in outcome[i].evaluated \ (outcome[i].found \union LockOnly) :
    /\ ~Skipping(i)
    /\ input[i].allow[c] # "active" =>
         \A s \in Reads[c] \union Requires[c] : unavail[i][s] # "outage"

(* on_data_unavailable reacts to Outcome.Unavailable: for a subject that    *)
(* was loaded it is set exactly when some check was skipped for data the    *)
(* run did not have, and for one that was not exactly when a check that     *)
(* needs the data was skipped because of an outage, so that a package the   *)
(* registry does not have never counts.                                     *)
OutageCounted ==
  \A i \in FinishedSubjects :
    LET counted == IF Skipping(i) THEN outcome[i].unread \ LockOnly ELSE outcome[i].unread
    IN  outcome[i].unavailable <=> counted # {}

(* What nothing was read for is never taken for good: no check passes on    *)
(* it, and on_data_unavailable hears of it.                                 *)
NoPassForLackOfData == NeverPassesForLackOfData /\ OutageCounted

(* The outcome of a finished subject is final: a check that outlives its    *)
(* timeout cannot add to it.                                                *)
FiledIsFinal ==
  [][\A i \in FinishedSubjects : outcome'[i] = outcome[i]]_vars

(* Evaluate returns although no check need ever return.                     *)
EvaluateReturns == <>(phase = "done")

-----------------------------------------------------------------------------
(* runner.go, Outcome: "Unavailable is true when a check was skipped        *)
(* because a data source could not be consulted (a failed request, a        *)
(* timeout, a canceled run)", of any subject.                               *)
UnavailableWhenUnread ==
  \A i \in FinishedSubjects : outcome[i].unread # {} => outcome[i].unavailable

(* docs/checks.md, TD000: "the runner emits it before the checks run,       *)
(* always at level warn, and it cannot be turned off".                      *)
ExpiredAllowReported ==
  \A i \in FinishedSubjects : outcome[i].expired = Expired(i)

=============================================================================
