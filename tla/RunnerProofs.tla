---------------------------- MODULE RunnerProofs ----------------------------
(***************************************************************************)
(* Runner for any inputs, checks, sources and number of subjects in        *)
(* flight: each check of a subject is filed once, nothing passes for lack  *)
(* of data, and what is filed is final.  And OsvIndex, what an offline run *)
(* reads, for any archives, shards, refreshes, readers, failures and       *)
(* clears: it is what an archive has, but to the runs a clear crossed and  *)
(* to those after a refresh that overtook another.  And Affected, for any  *)
(* archives and versions: what a lookup finds is what the members publish. *)
(***************************************************************************)
EXTENDS Runner, OsvIndex, Affected, TLAPS, FiniteSetTheorems, SequenceTheorems, WellFoundedInduction

-----------------------------------------------------------------------------
(* Types.                                                                   *)
OutcomeType ==
  [evaluated: SUBSET Checks, skipped: SUBSET Checks, unread: SUBSET Checks,
   found: SUBSET Checks, expired: SUBSET Checks, unavailable: BOOLEAN]

LEMMA ResolutionsType ==
  ASSUME NEW i, NEW r \in Resolutions(i)
  PROVE  r \in Resolution
  BY DEF Resolutions, Resolution

(* A check passes only what it read.                                        *)
LEMMA ResultsRead ==
  ASSUME NEW i \in Inputs, NEW c \in Checks, unavail[i] \in [Sources -> Status],
         NEW r \in Results(i, c) \union {Skip(FALSE)}
  PROVE  /\ r \in Result
         /\ r.how = "clean" /\ c \notin LockOnly =>
              \A s \in Reads[c] \union Requires[c] : unavail[i][s] # "outage"
<1> DEFINE u == unavail[i]
<1>1. /\ Clean \in Result /\ Found \in Result /\ Skip(TRUE) \in Result /\ Skip(FALSE) \in Result
      /\ \A e \in BOOLEAN : Skip(e) \in Result /\ Skip(e).how = "skip"
      /\ Found.how = "found"
  BY DEF Clean, Found, Skip, Result
<1>2. ASSUME NEW v \in Verdicts(Reads[c], u)
      PROVE  v \in Result /\ (v.how = "clean" => \A s \in Reads[c] : u[s] # "outage")
  <2> DEFINE lost == {s \in Reads[c] : u[s] = "outage"}
  <2>1. v = Skip(lost # {}) \/ v = Found \/ v = Skip(TRUE) \/ (v = Clean /\ lost = {})
    BY DEF Verdicts
  <2> QED
    BY <1>1, <2>1
<1>3. CASE r = Skip(FALSE)
  BY <1>1, <1>3
<1>4. CASE c \in LockOnly /\ r \in Results(i, c)
  <2>1. r \in {Clean, Found, Skip(FALSE)}
    BY <1>4 DEF Results
  <2> QED
    BY <1>1, <1>4, <2>1
<1>5. CASE c \notin LockOnly /\ r \in Results(i, c)
  <2> DEFINE required == {s \in Requires[c] : u[s] # "ok"}
  <2>1. CASE required # {}
    <3>1. r = Skip(\E s \in required : u[s] = "outage")
      BY <1>5, <2>1 DEF Results
    <3> QED
      BY <1>1, <3>1
  <2>2. CASE required = {}
    <3>1. r \in Verdicts(Reads[c], u) \/ r \in {Skip(FALSE), Skip(TRUE)}
      BY <1>5, <2>2 DEF Results
    <3> QED
      BY <1>1, <1>2, <2>2, <3>1
  <2> QED
    BY <2>1, <2>2
<1> QED
  BY <1>3, <1>4, <1>5

-----------------------------------------------------------------------------
(* The inductive invariant: what a subject under way has filed, by the      *)
(* checks it has been through.                                              *)
Untouched(i) == next[i] = 1 /\ outcome[i] = NoOutcome

FiledSoFar(i) ==
  /\ outcome[i].evaluated \union outcome[i].skipped = 1..(next[i] - 1)
  /\ outcome[i].evaluated \intersect outcome[i].skipped = {}
  /\ outcome[i].found \subseteq outcome[i].evaluated
  /\ outcome[i].unread \subseteq outcome[i].skipped

AllowedSoFar(i) ==
  /\ \A c \in outcome[i].found : input[i].allow[c] # "active"
  /\ ~Skipping(i) => outcome[i].expired = Expired(i)

(* A subject that could not be loaded evaluates lockfile checks alone, and  *)
(* skips every other for the one reason it has.                             *)
CountedSoFar(i) ==
  IF Skipping(i)
    THEN outcome[i].unread \ LockOnly = IF resolved[i].skip = "outage" THEN SkippedFor(i) ELSE {}
    ELSE outcome[i].unavailable <=> outcome[i].unread # {}

PassedOnData(i) ==
  \A c \in outcome[i].evaluated \ (outcome[i].found \union LockOnly) :
    /\ ~Skipping(i)
    /\ input[i].allow[c] # "active" =>
         \A s \in Reads[c] \union Requires[c] : unavail[i][s] # "outage"

SubjectInv(i) ==
  /\ phase = "resolve" => stage[i] \in {"queued", "running", "finished"}
  /\ phase = "resolve" \/ stage[i] \in {"queued", "running"} => Untouched(i)
  /\ phase # "resolve" /\ stage[i] \in {"checking", "awaiting", "finished"} =>
       FiledSoFar(i) /\ AllowedSoFar(i) /\ CountedSoFar(i)
  /\ stage[i] \in {"checking", "awaiting"} => PassedOnData(i)
  /\ stage[i] = "awaiting" => next[i] \in Checks /\ ~Unloaded(i, next[i])
  /\ phase # "resolve" /\ stage[i] = "finished" =>
       /\ next[i] = M + 1
       /\ Skipping(i) => (outcome[i].unavailable <=> outcome[i].unread \ LockOnly # {})

IInv == TypeOK /\ \A i \in Inputs : SubjectInv(i)

(* The invariant of a subject speaks of the subject alone.                  *)
LEMMA OtherSubjects ==
  ASSUME NEW j, SubjectInv(j), input' = input, phase' = phase,
         stage'[j] = stage[j], resolved'[j] = resolved[j], unavail'[j] = unavail[j],
         next'[j] = next[j], outcome'[j] = outcome[j]
  PROVE  SubjectInv(j)'
  BY DEF SubjectInv, Untouched, FiledSoFar, AllowedSoFar, CountedSoFar, PassedOnData,
         SkippedFor, Skipping, Expired, Unloaded

-----------------------------------------------------------------------------
LEMMA InitIInv == Init => IInv
<1> SUFFICES ASSUME Init PROVE IInv
  OBVIOUS
<1> USE RunnerAssumption
<1>1. Answered \in [Sources -> Status]
  BY DEF Answered, Status
<1>2. NoOutcome \in OutcomeType
  BY DEF NoOutcome, OutcomeType
<1>3. TypeOK
  <2>1. [skip |-> "no", versions |-> "ok"] \in Resolution /\ 1 \in 1..(M + 1)
    BY DEF Resolution
  <2> QED
    BY <1>1, <1>2, <2>1 DEF Init, TypeOK, OutcomeType
<1>4. \A i \in Inputs : SubjectInv(i)
  BY DEF Init, SubjectInv, Untouched
<1> QED
  BY <1>3, <1>4 DEF IInv

(* The steps of one subject.                                                *)
LEMMA StepStart == ASSUME IInv, NEW i \in Inputs, Start(i) PROVE IInv'
<1>1. TypeOK'
  BY DEF IInv, TypeOK, Start
<1>2. ASSUME NEW j \in Inputs PROVE SubjectInv(j)'
  <2>1. CASE j # i
    BY <2>1, OtherSubjects DEF IInv, TypeOK, Start
  <2>2. CASE j = i
    BY <2>2 DEF IInv, TypeOK, Start, SubjectInv, Untouched
  <2> QED
    BY <2>1, <2>2
<1> QED
  BY <1>1, <1>2 DEF IInv

LEMMA StepResolve == ASSUME IInv, NEW i \in Inputs, Resolve(i) PROVE IInv'
<1>1. TypeOK'
  BY ResolutionsType DEF IInv, TypeOK, Resolve
<1>2. ASSUME NEW j \in Inputs PROVE SubjectInv(j)'
  <2>1. CASE j # i
    BY <2>1, OtherSubjects DEF IInv, TypeOK, Resolve
  <2>2. CASE j = i
    BY <2>2 DEF IInv, TypeOK, Resolve, SubjectInv, Untouched
  <2> QED
    BY <2>1, <2>2
<1> QED
  BY <1>1, <1>2 DEF IInv

LEMMA StepPrefetch == ASSUME IInv, Prefetch PROVE IInv'
<1>1. TypeOK'
  BY DEF IInv, TypeOK, Prefetch
<1>2. ASSUME NEW j \in Inputs PROVE SubjectInv(j)'
  BY DEF IInv, TypeOK, Prefetch, SubjectInv, Untouched
<1> QED
  BY <1>1, <1>2 DEF IInv

LEMMA FirstFiled ==
  ASSUME NEW e \in SUBSET Checks
  PROVE  LET o == [NoOutcome EXCEPT !.expired = e]
         IN  /\ o \in OutcomeType /\ o.expired = e /\ o.evaluated = {} /\ o.skipped = {}
             /\ o.unread = {} /\ o.found = {} /\ o.unavailable = FALSE
  BY DEF NoOutcome, OutcomeType

LEMMA StepLoad == ASSUME IInv, NEW i \in Inputs, Load(i) PROVE IInv'
<1> USE RunnerAssumption
<1>1. stage[i] = "running" /\ phase = "evaluate" /\ Untouched(i)
  BY DEF IInv, SubjectInv, Load
<1>2. /\ UNCHANGED <<input, phase, next, late, canceled>>
      /\ stage' = [stage EXCEPT ![i] = "checking"]
  BY DEF Load
<1> DEFINE given == [resolved[i] EXCEPT !.skip = "definite"]
           told == [outcome[i] EXCEPT !.expired = Expired(i)]
<1>3. given \in Resolution /\ given.skip = "definite"
  BY DEF IInv, TypeOK, Resolution
<1>4. /\ told \in OutcomeType /\ told.expired = Expired(i) /\ told.evaluated = {} /\ told.skipped = {}
      /\ told.unread = {} /\ told.found = {} /\ told.unavailable = FALSE
  <2>1. told = [NoOutcome EXCEPT !.expired = Expired(i)] /\ Expired(i) \in SUBSET Checks
    BY <1>1 DEF Untouched, Expired
  <2> HIDE DEF told
  <2> QED
    BY <2>1, FirstFiled
<1>5. \/ Skipping(i) /\ UNCHANGED <<resolved, unavail, outcome>>
      \/ resolved' = [resolved EXCEPT ![i] = given] /\ UNCHANGED <<unavail, outcome>>
      \/ /\ \E u \in [Sources -> Status] : unavail' = [unavail EXCEPT ![i] = u]
         /\ outcome' = [outcome EXCEPT ![i] = told]
         /\ UNCHANGED resolved
  BY Zenon DEF Load
<1> HIDE DEF given, told
<1>6. TypeOK' /\ (\A j \in Inputs : j # i =>
                    resolved'[j] = resolved[j] /\ unavail'[j] = unavail[j] /\ outcome'[j] = outcome[j])
  <2>1. stage' \in [Inputs -> {"queued", "running", "checking", "awaiting", "finished"}]
    BY <1>2 DEF IInv, TypeOK
  <2>2. CASE UNCHANGED <<resolved, unavail, outcome>>
    BY <1>2, <2>1, <2>2 DEF IInv, TypeOK
  <2>3. CASE resolved' = [resolved EXCEPT ![i] = given] /\ UNCHANGED <<unavail, outcome>>
    BY <1>2, <1>3, <2>1, <2>3 DEF IInv, TypeOK
  <2>4. CASE /\ \E u \in [Sources -> Status] : unavail' = [unavail EXCEPT ![i] = u]
             /\ outcome' = [outcome EXCEPT ![i] = told]
             /\ UNCHANGED resolved
    BY <1>2, <1>4, <2>1, <2>4 DEF IInv, TypeOK, OutcomeType
  <2> QED
    BY <1>5, <2>2, <2>3, <2>4
<1>7. SubjectInv(i)'
  <2>1. next'[i] = 1 /\ stage'[i] = "checking"
    BY <1>1, <1>2 DEF Untouched, IInv, TypeOK
  <2>2. /\ outcome'[i].evaluated = {} /\ outcome'[i].skipped = {} /\ outcome'[i].unread = {}
        /\ outcome'[i].found = {} /\ outcome'[i].unavailable = FALSE
    BY <1>1, <1>4, <1>5 DEF Untouched, NoOutcome, IInv, TypeOK
  <2>3. (~Skipping(i))' => outcome'[i].expired = Expired(i)'
    <3>1. CASE Skipping(i) /\ UNCHANGED resolved
      BY <3>1 DEF Skipping
    <3>2. CASE resolved' = [resolved EXCEPT ![i] = given]
      BY <1>3, <3>2 DEF Skipping, IInv, TypeOK
    <3>3. CASE outcome' = [outcome EXCEPT ![i] = told]
      BY <1>2, <1>4, <3>3 DEF Expired, IInv, TypeOK
    <3> QED
      BY <1>5, <3>1, <3>2, <3>3
  <2>4. FiledSoFar(i)'
    BY <2>1, <2>2 DEF FiledSoFar
  <2>5. AllowedSoFar(i)'
    BY <2>2, <2>3 DEF AllowedSoFar
  <2>6. CountedSoFar(i)'
    BY <2>2 DEF CountedSoFar, SkippedFor
  <2>7. PassedOnData(i)'
    BY <2>2 DEF PassedOnData
  <2> QED
    BY <1>1, <1>2, <2>1, <2>4, <2>5, <2>6, <2>7 DEF SubjectInv
<1>8. ASSUME NEW j \in Inputs, j # i PROVE SubjectInv(j)'
  <2>1. stage'[j] = stage[j]
    BY <1>2, <1>8 DEF IInv, TypeOK
  <2> QED
    BY <1>2, <1>6, <1>8, <2>1, OtherSubjects DEF IInv
<1> QED
  BY <1>6, <1>7, <1>8 DEF IInv

(* Filing moves a subject on by one check.                                  *)
Files(i, o) ==
  /\ stage[i] \in {"checking", "awaiting"}
  /\ outcome' = [outcome EXCEPT ![i] = o]
  /\ next' = [next EXCEPT ![i] = @ + 1]
  /\ stage' = [stage EXCEPT ![i] = "checking"]
  /\ late' \subseteq Inputs \X Checks
  /\ UNCHANGED <<input, phase, resolved, unavail, canceled>>

LEMMA FilingFrame ==
  ASSUME IInv, NEW i \in Inputs, NEW o \in OutcomeType, next[i] \in Checks, Files(i, o)
  PROVE  /\ TypeOK'
         /\ outcome'[i] = o /\ next'[i] = next[i] + 1 /\ stage'[i] = "checking"
         /\ outcome[i] \in OutcomeType /\ next[i] \in Nat /\ 1 <= next[i]
         /\ phase # "resolve"
         /\ FiledSoFar(i) /\ AllowedSoFar(i) /\ CountedSoFar(i) /\ PassedOnData(i)
         /\ \A j \in Inputs : j # i => SubjectInv(j)'
<1> USE RunnerAssumption
<1>1. next[i] + 1 \in 1..(M + 1) /\ next[i] \in Nat /\ 1 <= next[i]
  BY DEF Checks
<1>2. TypeOK'
  <2>1. next' \in [Inputs -> 1..(M + 1)]
    BY <1>1 DEF Files, IInv, TypeOK
  <2>2. outcome' \in [Inputs -> OutcomeType]
    BY DEF Files, IInv, TypeOK, OutcomeType
  <2>3. stage' \in [Inputs -> {"queued", "running", "checking", "awaiting", "finished"}]
    BY DEF Files, IInv, TypeOK
  <2> QED
    BY <2>1, <2>2, <2>3 DEF Files, IInv, TypeOK, OutcomeType
<1>3. /\ outcome'[i] = o /\ next'[i] = next[i] + 1 /\ stage'[i] = "checking"
      /\ outcome[i] \in OutcomeType
  BY DEF Files, IInv, TypeOK, OutcomeType
<1>4. /\ phase # "resolve"
      /\ FiledSoFar(i) /\ AllowedSoFar(i) /\ CountedSoFar(i) /\ PassedOnData(i)
  BY DEF Files, IInv, SubjectInv
<1>5. ASSUME NEW j \in Inputs, j # i PROVE SubjectInv(j)'
  BY <1>5, OtherSubjects DEF Files, IInv, TypeOK
<1> QED
  BY <1>1, <1>2, <1>3, <1>4, <1>5

LEMMA FilingSkip ==
  ASSUME IInv, NEW i \in Inputs, NEW c \in Checks, next[i] = c, NEW outage \in BOOLEAN,
         Files(i, FileSkip(outcome[i], c, outage)),
         Skipping(i) /\ c \notin LockOnly => (outage <=> resolved[i].skip = "outage")
  PROVE  IInv'
<1> DEFINE o == FileSkip(outcome[i], c, outage)
<1>1. outcome[i] \in OutcomeType
  BY DEF IInv, TypeOK, OutcomeType
<1>2. /\ o \in OutcomeType
      /\ o.evaluated = outcome[i].evaluated
      /\ o.found = outcome[i].found
      /\ o.expired = outcome[i].expired
      /\ o.skipped = outcome[i].skipped \union {c}
      /\ o.unread = IF outage THEN outcome[i].unread \union {c} ELSE outcome[i].unread
      /\ o.unavailable = (outcome[i].unavailable \/ outage)
  <2>1. o \in OutcomeType
    BY <1>1 DEF FileSkip, OutcomeType
  <2>2. o.evaluated = outcome[i].evaluated /\ o.found = outcome[i].found /\ o.expired = outcome[i].expired
    BY <1>1 DEF FileSkip, OutcomeType
  <2>3. /\ o.skipped = outcome[i].skipped \union {c}
        /\ o.unread = IF outage THEN outcome[i].unread \union {c} ELSE outcome[i].unread
    BY <1>1 DEF FileSkip, OutcomeType
  <2>4. o.unavailable = (outcome[i].unavailable \/ outage)
    BY <1>1 DEF FileSkip, OutcomeType
  <2> QED
    BY <2>1, <2>2, <2>3, <2>4
<1> HIDE DEF o
<1>3. /\ TypeOK'
      /\ outcome'[i] = o /\ next'[i] = c + 1 /\ stage'[i] = "checking" /\ c \in Nat /\ 1 <= c
      /\ phase # "resolve"
      /\ FiledSoFar(i) /\ AllowedSoFar(i) /\ CountedSoFar(i) /\ PassedOnData(i)
      /\ \A j \in Inputs : j # i => SubjectInv(j)'
  BY <1>2, FilingFrame DEF o
<1>4. UNCHANGED <<input, phase, resolved, unavail>>
  BY DEF Files
<1>5. FiledSoFar(i)'
  <2>1. 1..(next'[i] - 1) = 1..(next[i] - 1) \union {c} /\ c \notin 1..(next[i] - 1)
    BY <1>3
  <2> QED
    BY <1>2, <1>3, <2>1 DEF FiledSoFar
<1>6. AllowedSoFar(i)'
  BY <1>2, <1>3, <1>4 DEF AllowedSoFar, Skipping, Expired
<1>7. CountedSoFar(i)'
  <2>1. CASE Skipping(i)
    <3>1. CASE c \in LockOnly
      BY <1>2, <1>3, <1>4, <2>1, <3>1 DEF CountedSoFar, Skipping, SkippedFor
    <3>2. CASE c \notin LockOnly
      BY <1>2, <1>3, <1>4, <2>1, <3>2 DEF CountedSoFar, Skipping, SkippedFor
    <3> QED
      BY <3>1, <3>2
  <2>2. CASE ~Skipping(i)
    BY <1>2, <1>3, <1>4, <2>2 DEF CountedSoFar, Skipping, OutcomeType
  <2> QED
    BY <2>1, <2>2
<1>8. PassedOnData(i)'
  BY <1>2, <1>3, <1>4 DEF PassedOnData, Skipping
<1>9. SubjectInv(i)'
  BY <1>3, <1>4, <1>5, <1>6, <1>7, <1>8 DEF SubjectInv
<1> QED
  BY <1>3, <1>9 DEF IInv

LEMMA FilingEvaluated ==
  ASSUME IInv, NEW i \in Inputs, NEW c \in Checks, next[i] = c, NEW isFound \in BOOLEAN,
         Files(i, FileResult(i, c, isFound)),
         ~Unloaded(i, c),
         ~isFound /\ c \notin LockOnly => \A s \in Reads[c] \union Requires[c] : unavail[i][s] # "outage"
  PROVE  IInv'
<1> DEFINE o == FileResult(i, c, isFound)
<1>1. outcome[i] \in OutcomeType
  BY DEF IInv, TypeOK, OutcomeType
<1>2. /\ o \in OutcomeType
      /\ o.evaluated = outcome[i].evaluated \union {c}
      /\ o.skipped = outcome[i].skipped
      /\ o.unread = outcome[i].unread
      /\ o.expired = outcome[i].expired
      /\ o.unavailable = outcome[i].unavailable
      /\ o.found = IF isFound /\ input[i].allow[c] # "active"
                     THEN outcome[i].found \union {c} ELSE outcome[i].found
  <2>1. o \in OutcomeType
    BY <1>1 DEF FileResult, OutcomeType
  <2>2. /\ o.skipped = outcome[i].skipped /\ o.unread = outcome[i].unread
        /\ o.expired = outcome[i].expired /\ o.unavailable = outcome[i].unavailable
    BY <1>1 DEF FileResult, OutcomeType
  <2>3. /\ o.evaluated = outcome[i].evaluated \union {c}
        /\ o.found = IF isFound /\ input[i].allow[c] # "active"
                       THEN outcome[i].found \union {c} ELSE outcome[i].found
    BY <1>1 DEF FileResult, OutcomeType
  <2> QED
    BY <2>1, <2>2, <2>3
<1> HIDE DEF o
<1>3. /\ TypeOK'
      /\ outcome'[i] = o /\ next'[i] = c + 1 /\ stage'[i] = "checking" /\ c \in Nat /\ 1 <= c
      /\ phase # "resolve"
      /\ FiledSoFar(i) /\ AllowedSoFar(i) /\ CountedSoFar(i) /\ PassedOnData(i)
      /\ \A j \in Inputs : j # i => SubjectInv(j)'
  BY <1>2, FilingFrame DEF o
<1>4. UNCHANGED <<input, phase, resolved, unavail>>
  BY DEF Files
<1>5. FiledSoFar(i)'
  <2>1. 1..(next'[i] - 1) = 1..(next[i] - 1) \union {c} /\ c \notin 1..(next[i] - 1)
    BY <1>3
  <2> QED
    BY <1>2, <1>3, <2>1 DEF FiledSoFar
<1>6. AllowedSoFar(i)'
  BY <1>2, <1>3, <1>4 DEF AllowedSoFar, Skipping, Expired
<1>7. CountedSoFar(i)'
  BY <1>2, <1>3, <1>4 DEF CountedSoFar, Skipping, SkippedFor
<1>8. PassedOnData(i)'
  BY <1>2, <1>3, <1>4 DEF PassedOnData, Skipping, Unloaded
<1>9. SubjectInv(i)'
  BY <1>3, <1>4, <1>5, <1>6, <1>7, <1>8 DEF SubjectInv
<1> QED
  BY <1>3, <1>9 DEF IInv

LEMMA StepSkipCheck == ASSUME IInv, NEW i \in Inputs, SkipCheck(i) PROVE IInv'
<1> DEFINE c == next[i]
           outage == Unloaded(i, c) /\ resolved[i].skip = "outage"
<1>1. c \in Checks /\ outage \in BOOLEAN
  BY RunnerAssumption DEF SkipCheck, IInv, TypeOK, Checks
<1>2. Files(i, FileSkip(outcome[i], c, outage))
  <2>1. stage = [stage EXCEPT ![i] = "checking"]
    BY DEF SkipCheck, IInv, TypeOK
  <2> QED
    BY <2>1 DEF SkipCheck, Files, IInv, TypeOK
<1>3. Skipping(i) /\ c \notin LockOnly => (outage <=> resolved[i].skip = "outage")
  BY DEF Unloaded
<1> HIDE DEF outage
<1> QED
  BY <1>1, <1>2, <1>3, FilingSkip

LEMMA StepStartCheck == ASSUME IInv, NEW i \in Inputs, StartCheck(i) PROVE IInv'
<1>1. TypeOK'
  BY DEF IInv, TypeOK, StartCheck
<1>2. SubjectInv(i)'
  <2>1. next[i] \in Checks
    BY RunnerAssumption DEF StartCheck, IInv, TypeOK, Checks
  <2>2. stage'[i] = "awaiting" /\ phase # "resolve"
    BY DEF StartCheck, IInv, TypeOK, SubjectInv
  <2>3. FiledSoFar(i)' /\ AllowedSoFar(i)' /\ CountedSoFar(i)' /\ PassedOnData(i)'
    BY DEF StartCheck, IInv, SubjectInv, FiledSoFar, AllowedSoFar, CountedSoFar, PassedOnData,
           SkippedFor, Skipping, Expired
  <2>4. (~Unloaded(i, next[i]))'
    BY DEF StartCheck, Unloaded, Skipping
  <2> QED
    BY <2>1, <2>2, <2>3, <2>4 DEF StartCheck, SubjectInv
<1>3. ASSUME NEW j \in Inputs, j # i PROVE SubjectInv(j)'
  BY <1>3, OtherSubjects DEF StartCheck, IInv, TypeOK
<1> QED
  BY <1>1, <1>2, <1>3 DEF IInv

LEMMA StepCheckReturns == ASSUME IInv, NEW i \in Inputs, CheckReturns(i) PROVE IInv'
<1> DEFINE c == next[i]
<1>1. c \in Checks /\ ~Unloaded(i, c) /\ unavail[i] \in [Sources -> Status] /\ late \subseteq Inputs \X Checks
  BY DEF CheckReturns, IInv, TypeOK, SubjectInv
<1>2. PICK r \in Results(i, c) \union {Skip(FALSE)} :
        outcome' = [outcome EXCEPT ![i] = IF r.how = "skip" THEN FileSkip(outcome[i], c, r.outage)
                                          ELSE FileResult(i, c, r.how = "found")]
  BY DEF CheckReturns
<1>3. /\ r \in Result
      /\ r.how = "clean" /\ c \notin LockOnly =>
           \A s \in Reads[c] \union Requires[c] : unavail[i][s] # "outage"
  BY <1>1, ResultsRead
<1>4. CASE r.how = "skip"
  <2>1. Files(i, FileSkip(outcome[i], c, r.outage))
    BY <1>1, <1>2, <1>4 DEF Files, CheckReturns
  <2>2. r.outage \in BOOLEAN
    BY <1>3 DEF Result
  <2>3. Skipping(i) => c \in LockOnly
    BY <1>1 DEF Unloaded
  <2> QED
    BY <1>1, <2>1, <2>2, <2>3, FilingSkip
<1>5. CASE r.how # "skip"
  <2> DEFINE isFound == r.how = "found"
  <2>1. Files(i, FileResult(i, c, isFound))
    BY <1>1, <1>2, <1>5 DEF Files, CheckReturns
  <2>2. isFound \in BOOLEAN /\ (~isFound => r.how = "clean")
    BY <1>3, <1>5 DEF Result
  <2> HIDE DEF isFound
  <2> QED
    BY <1>1, <1>3, <2>1, <2>2, FilingEvaluated
<1> QED
  BY <1>4, <1>5

LEMMA StepCheckUnfinished == ASSUME IInv, NEW i \in Inputs, CheckUnfinished(i) PROVE IInv'
<1>1. next[i] \in Checks /\ ~Unloaded(i, next[i]) /\ late \subseteq Inputs \X Checks
  BY DEF CheckUnfinished, IInv, TypeOK, SubjectInv
<1>2. Files(i, FileSkip(outcome[i], next[i], TRUE))
  BY <1>1 DEF CheckUnfinished, Files
<1>3. Skipping(i) => next[i] \in LockOnly
  BY <1>1 DEF Unloaded
<1> QED
  BY <1>1, <1>2, <1>3, FilingSkip

(* What Close files of a subject that could not be loaded.                  *)
LEMMA StepClose == ASSUME IInv, NEW i \in Inputs, Close(i) PROVE IInv'
<1> DEFINE said == resolved[i].skip = "outage" /\ SkippedFor(i) # {}
           o == IF Skipping(i) THEN [outcome[i] EXCEPT !.unavailable = said] ELSE outcome[i]
<1>1. outcome[i] \in OutcomeType
  BY DEF IInv, TypeOK, OutcomeType
<1>2. /\ o \in OutcomeType
      /\ o.evaluated = outcome[i].evaluated /\ o.skipped = outcome[i].skipped
      /\ o.unread = outcome[i].unread /\ o.found = outcome[i].found
      /\ o.expired = outcome[i].expired
  BY <1>1 DEF OutcomeType
<1>3. o.unavailable = IF Skipping(i) THEN said ELSE outcome[i].unavailable
  BY <1>1 DEF OutcomeType
<1>4. outcome' = [outcome EXCEPT ![i] = o]
  <2>1. CASE Skipping(i)
    BY <2>1, Zenon DEF Close
  <2>2. CASE ~Skipping(i)
    <3>1. outcome' = outcome /\ o = outcome[i]
      BY <2>2 DEF Close
    <3> HIDE DEF o
    <3> QED
      BY <3>1 DEF IInv, TypeOK
  <2> QED
    BY <2>1, <2>2
<1> HIDE DEF o
<1>5. Answered \in [Sources -> Status]
  BY DEF Answered, Status
<1>6. TypeOK'
  <2>1. outcome' \in [Inputs -> OutcomeType]
    BY <1>2, <1>4 DEF IInv, TypeOK, OutcomeType
  <2> QED
    BY <1>5, <2>1 DEF Close, IInv, TypeOK, OutcomeType
<1>7. outcome'[i] = o /\ stage'[i] = "finished" /\ UNCHANGED <<input, phase, resolved, next>>
  BY <1>4 DEF Close, IInv, TypeOK
<1>8. /\ phase # "resolve" /\ next[i] = M + 1
      /\ FiledSoFar(i) /\ AllowedSoFar(i) /\ CountedSoFar(i)
  BY DEF Close, IInv, SubjectInv
<1>9. FiledSoFar(i)' /\ AllowedSoFar(i)'
  BY <1>2, <1>7, <1>8 DEF FiledSoFar, AllowedSoFar, Skipping, Expired
<1>10. CountedSoFar(i)' /\ (Skipping(i)' => (outcome'[i].unavailable <=> outcome'[i].unread \ LockOnly # {}))
  <2>1. CASE Skipping(i)
    BY <1>2, <1>3, <1>7, <1>8, <2>1 DEF CountedSoFar, Skipping, SkippedFor
  <2>2. CASE ~Skipping(i)
    BY <1>2, <1>3, <1>7, <1>8, <2>2 DEF CountedSoFar, Skipping
  <2> QED
    BY <2>1, <2>2
<1>11. SubjectInv(i)'
  BY <1>7, <1>8, <1>9, <1>10 DEF SubjectInv
<1>12. ASSUME NEW j \in Inputs, j # i PROVE SubjectInv(j)'
  BY <1>4, <1>7, <1>12, OtherSubjects DEF Close, IInv, TypeOK
<1> QED
  BY <1>6, <1>11, <1>12 DEF IInv

(* A step that changes no subject.                                          *)
LEMMA StepElsewhere ==
  ASSUME IInv, (\E i \in Inputs, c \in Checks : LateReturns(i, c)) \/ Done \/ Cancel \/ UNCHANGED vars
  PROVE  IInv'
<1>1. /\ UNCHANGED <<input, stage, resolved, unavail, next, outcome>>
      /\ late' \subseteq late
      /\ canceled' \in BOOLEAN
      /\ phase' = phase \/ (phase = "evaluate" /\ phase' = "done")
  BY DEF LateReturns, Done, Cancel, vars, IInv, TypeOK
<1>2. TypeOK'
  BY <1>1 DEF IInv, TypeOK
<1>3. ASSUME NEW j \in Inputs PROVE SubjectInv(j)'
  BY <1>1 DEF IInv, SubjectInv, Untouched, FiledSoFar, AllowedSoFar, CountedSoFar, PassedOnData,
              SkippedFor, Skipping, Expired, Unloaded
<1> QED
  BY <1>2, <1>3 DEF IInv

LEMMA StepIInv == IInv /\ [Next]_vars => IInv'
<1> SUFFICES ASSUME IInv, [Next]_vars PROVE IInv'
  OBVIOUS
<1>1. ASSUME NEW i \in Inputs, Advance(i) PROVE IInv'
  BY <1>1, StepStart, StepResolve, StepLoad, StepSkipCheck, StepStartCheck, StepClose DEF Advance
<1> QED
  BY <1>1, StepPrefetch, StepCheckReturns, StepCheckUnfinished, StepElsewhere DEF Next

-----------------------------------------------------------------------------
(* Every reachable state of the runner is well typed.                       *)
THEOREM RunnerTypeOK == Spec => []TypeOK
<1>1. IInv => TypeOK
  BY DEF IInv
<1> QED
  BY <1>1, InitIInv, StepIInv, PTL DEF Spec

(* Whatever timed out, panicked or could not be loaded, every check of a    *)
(* finished subject was filed once, and as the allow entries have it        *)
(* (runner.go, evaluate).                                                   *)
THEOREM RunnerEachCheckFiled == Spec => []EachCheckFiled
<1>1. IInv => EachCheckFiled
  BY RunnerAssumption
     DEF IInv, SubjectInv, FiledSoFar, AllowedSoFar, EachCheckFiled, AllowHonoured, FinishedSubjects, Checks
<1> QED
  BY <1>1, InitIInv, StepIInv, PTL DEF Spec

(* No check passes for lack of data, and Unavailable is set exactly when a  *)
(* check was skipped for it (runner.go, load and skipAll).                  *)
THEOREM RunnerNoPassForLackOfData == Spec => []NoPassForLackOfData
<1>1. IInv => NeverPassesForLackOfData
  BY DEF IInv, SubjectInv, PassedOnData, Untouched, NoOutcome, NeverPassesForLackOfData, InFlight
<1>2. IInv => OutageCounted
  BY DEF IInv, SubjectInv, CountedSoFar, OutageCounted, FinishedSubjects
<1>3. IInv => NoPassForLackOfData
  BY <1>1, <1>2 DEF NoPassForLackOfData
<1> QED
  BY <1>3, InitIInv, StepIInv, PTL DEF Spec

(* What is filed of a finished subject is final, whatever a check that      *)
(* outlived its timeout returns later (runner.go, runCheck).                *)
THEOREM RunnerFiledIsFinal == Spec => FiledIsFinal
<1> DEFINE Final == \A i \in FinishedSubjects : outcome'[i] = outcome[i]
<1>1. IInv /\ [Next]_vars => [Final]_vars
  <2> SUFFICES ASSUME IInv, Next, NEW i \in FinishedSubjects PROVE outcome'[i] = outcome[i]
    BY DEF vars
  <2>1. i \in Inputs /\ stage[i] = "finished" /\ phase # "resolve"
    BY DEF FinishedSubjects
  <2>2. ASSUME NEW j \in Inputs, NEW o, outcome' = [outcome EXCEPT ![j] = o], stage[j] # "finished"
        PROVE  outcome'[i] = outcome[i]
    BY <2>1, <2>2 DEF IInv, TypeOK
  <2>3. ASSUME NEW j \in Inputs, Advance(j) PROVE outcome'[i] = outcome[i]
    <3>1. CASE Start(j) \/ Resolve(j) \/ StartCheck(j)
      BY <3>1 DEF Start, Resolve, StartCheck
    <3>2. CASE Load(j)
      BY <2>2, <3>2, Zenon DEF Load
    <3>3. CASE SkipCheck(j)
      BY <2>2, <3>3, Zenon DEF SkipCheck
    <3>4. CASE Close(j)
      BY <2>2, <3>4, Zenon DEF Close
    <3> QED
      BY <2>3, <3>1, <3>2, <3>3, <3>4 DEF Advance
  <2>4. ASSUME NEW j \in Inputs, CheckReturns(j) PROVE outcome'[i] = outcome[i]
    BY <2>2, <2>4, Zenon DEF CheckReturns
  <2>5. ASSUME NEW j \in Inputs, CheckUnfinished(j) PROVE outcome'[i] = outcome[i]
    BY <2>2, <2>5, Zenon DEF CheckUnfinished
  <2>6. CASE Prefetch \/ Done \/ Cancel \/ (\E j \in Inputs, c \in Checks : LateReturns(j, c))
    BY <2>6 DEF Prefetch, Done, Cancel, LateReturns
  <2> QED
    BY <2>3, <2>4, <2>5, <2>6 DEF Next
<1> QED
  BY <1>1, InitIInv, StepIInv, PTL DEF Spec, FiledIsFinal

-----------------------------------------------------------------------------
(* OsvIndex.  A shard is what archive v or a later one has for it.          *)
From(v, s) == \E w \in v..server : shard[s] = Holds[w][s]

(* A refresh no clear crossed has written the shard since the last one.     *)
Sure(s) ==
  \/ Index \in untouched
  \/ \E r \in Refreshers \intersect untouched : pc[r] = "writing" /\ s < at[r]

(* The index is of v or later: no shard is older unless a clear removed it, *)
(* and nobody writes anything older.                                        *)
Covers(v, s) == v = 0 \/ From(v, s) \/ (shard[s] = Absent /\ ~Sure(s))
Newer(v) == v <= server /\ \A q \in Refreshers : pc[q] = "writing" => v <= got[q]
IsOf(v) == Newer(v) /\ \A s \in Shards : Covers(v, s)

(* What a process knows of the index, from the metadata it read or from the *)
(* shards it wrote, stays true whatever the others do, unless it is suspect. *)
KnownInv(x) ==
  x \notin suspect =>
    /\ pc[x] \in {"counting", "asking", "keeping", "open"} => IsOf(prev[x])
    /\ pc[x] = "writing" => Newer(got[x]) /\ \A s \in Shards : s < at[x] => Covers(got[x], s)

(* Where a process can be, and with what.                                   *)
PlaceInv(x) ==
  /\ x \in Refreshers =>
       /\ pc[x] # "open"
       /\ pc[x] = "writing" => got[x] # 0 /\ got[x] <= server
       /\ pc[x] = "keeping" => prev[x] # 0
  /\ x \in Readers =>
       /\ pc[x] \in {"idle", "counting", "open"}
       /\ pc[x] = "open" => prev[x] # 0
       /\ pc[x] # "open" => parsed[x] = NothingParsed
       /\ x \in untouched /\ pc[x] # "idle" => Index \in untouched

(* A refresh asks with the archive on offer only of an index that is whole. *)
AskingInv(x) ==
  x \in (Refreshers \intersect untouched) \ suspect /\ pc[x] = "asking" /\ prev[x] = server =>
    \A s \in Shards : shard[s] = Holds[server][s]

ReadInv(x) ==
  x \in (Readers \intersect untouched) \ suspect /\ pc[x] = "open" =>
    \A s \in Shards : parsed[x][s] # Unread =>
      \E v \in prev[x]..server : parsed[x][s] = Holds[v][s]

ProcessInv(x) == KnownInv(x) /\ PlaceInv(x) /\ AskingInv(x) /\ ReadInv(x)

MetaInv == Index \notin suspect => IsOf(meta)
ClearingInv == clearing # 0 => untouched = {}

IndexInv ==
  /\ IndexTypeOK /\ MetaInv /\ ClearingInv
  /\ \A x \in Processes : ProcessInv(x)

LEMMA IndexTypes ==
  ASSUME IndexTypeOK
  PROVE  /\ server \in Nat \ {0} /\ meta \in Nat /\ S \in Nat /\ Archives \in Nat
         /\ prev \in [Processes -> Nat] /\ pc \in [Processes -> Places]
         /\ got \in [Refreshers -> Nat] /\ at \in [Refreshers -> Nat]
         /\ Refreshers \subseteq Processes /\ Readers \subseteq Processes
         /\ Refreshers \intersect Readers = {} /\ Index \notin Processes
         /\ Shards \subseteq Nat /\ Processes = Refreshers \union Readers
  BY OsvIndexAssumption DEF IndexTypeOK, Versions, Processes, Shards

LEMMA InitIndexInv == IndexInit => IndexInv
<1> SUFFICES ASSUME IndexInit PROVE IndexInv
  OBVIOUS
<1>1. IndexTypeOK
  <2>1. 1 \in Versions /\ 1 \in 1..(S + 1) /\ 0 \in 0..Archives /\ 0 \in 0..(S + 1) /\ 0 \in 0..MaxMishaps
    BY OsvIndexAssumption DEF Versions
  <2> QED
    BY <2>1 DEF IndexInit, IndexTypeOK, Places, Records, NothingParsed
<1>2. \A r \in Refreshers : pc[r] # "writing"
  BY DEF IndexInit, Processes
<1>3. MetaInv /\ ClearingInv
  BY <1>2 DEF IndexInit, MetaInv, ClearingInv, IsOf, Newer, Covers
<1>4. ASSUME NEW x \in Processes PROVE ProcessInv(x)
  BY DEF IndexInit, ProcessInv, KnownInv, PlaceInv, AskingInv, ReadInv
<1> QED
  BY <1>1, <1>3, <1>4 DEF IndexInv

-----------------------------------------------------------------------------
(* No step makes the index older than what it was known to be of.           *)
Ages ==
  \A v \in Nat : Newer(v) =>
    /\ Newer(v)'
    /\ \A s \in Shards : Covers(v, s) => Covers(v, s)'

(* A step of process x.                                                     *)
OthersStay(x) ==
  /\ \A y \in Processes \ {x} : /\ pc'[y] = pc[y] /\ prev'[y] = prev[y]
                                /\ y \in untouched' <=> y \in untouched
                                /\ y \in suspect' <=> y \in suspect
  /\ \A r \in Refreshers \ {x} : got'[r] = got[r] /\ at'[r] = at[r]
  /\ \A y \in Readers \ {x} : parsed'[y] = parsed[y]
  /\ server' = server

(* Unless it writes a shard, x lets the index be and may only begin to      *)
(* write the archive on offer.                                              *)
LetsBe(x) ==
  /\ shard' = shard
  /\ pc'[x] = "writing" => x \in Refreshers /\ got'[x] = server /\ at'[x] = 1
  /\ Index \in untouched' => \/ Index \in untouched
                             \/ x \in Refreshers \intersect untouched /\ pc[x] = "writing" /\ at[x] = S + 1

LEMMA LettingBeAges ==
  ASSUME IndexTypeOK, NEW x \in Processes, OthersStay(x), LetsBe(x)
  PROVE  Ages
<1>1. ASSUME NEW v \in Nat, Newer(v) PROVE Newer(v)'
  BY <1>1, IndexTypes DEF Newer, OthersStay, LetsBe
<1>2. ASSUME NEW s \in Shards, Sure(s)' PROVE Sure(s)
  <2>1. s \in Nat /\ s < S + 1 /\ S \in Nat /\ ~(s < 1)
    BY IndexTypes DEF Shards
  <2>2. CASE Index \in untouched'
    BY <2>1, <2>2 DEF Sure, LetsBe
  <2>3. CASE \E r \in Refreshers \intersect untouched' : pc'[r] = "writing" /\ s < at'[r]
    <3>1. PICK r \in Refreshers \intersect untouched' : pc'[r] = "writing" /\ s < at'[r]
      BY <2>3
    <3>2. r # x
      BY <2>1, <3>1 DEF LetsBe
    <3> QED
      BY <3>1, <3>2, IndexTypes DEF OthersStay, Sure
  <2> QED
    BY <1>2, <2>2, <2>3 DEF Sure
<1>3. ASSUME NEW v \in Nat, NEW s \in Shards, Covers(v, s) PROVE Covers(v, s)'
  BY <1>2, <1>3 DEF Covers, From, OthersStay, LetsBe
<1> QED
  BY <1>1, <1>3 DEF Ages

(* The shards are as they were, or as an archive has them that is written.  *)
ShardsOnOffer ==
  \A s \in Shards : shard'[s] = shard[s] \/ \E q \in Refreshers : pc[q] = "writing" /\ shard'[s] = Holds[got[q]][s]

LEMMA OtherProcess ==
  ASSUME IndexInv, Ages, ShardsOnOffer, NEW x \in Processes, OthersStay(x), NEW y \in Processes, y # x,
         Index \in untouched => Index \in untouched'
  PROVE  ProcessInv(y)'
<1>1. /\ pc'[y] = pc[y] /\ prev'[y] = prev[y] /\ server' = server
      /\ y \in untouched' <=> y \in untouched
      /\ y \in suspect' <=> y \in suspect
      /\ y \in Refreshers => got'[y] = got[y] /\ at'[y] = at[y] /\ got[y] \in Nat
      /\ y \in Readers => parsed'[y] = parsed[y]
      /\ prev[y] \in Nat /\ ProcessInv(y)
  BY IndexTypes DEF OthersStay, IndexInv
<1>2. KnownInv(y)'
  <2>1. pc[y] = "writing" => y \in Refreshers
    BY <1>1, IndexTypes DEF ProcessInv, PlaceInv, IndexInv
  <2>2. CASE y \notin suspect /\ pc[y] \in {"counting", "asking", "keeping", "open"}
    <3>1. IsOf(prev[y]) /\ prev[y] \in Nat
      BY <1>1, <2>2 DEF ProcessInv, KnownInv
    <3>2. \A v \in Nat : v = prev'[y] /\ IsOf(v) => IsOf(prev[y])'
      BY DEF IsOf, Ages, Newer, Covers, From, Sure
    <3> QED
      BY <1>1, <2>2, <3>1, <3>2 DEF KnownInv
  <2>3. CASE y \notin suspect /\ pc[y] = "writing"
    <3>1. got[y] \in Nat /\ got'[y] = got[y] /\ at'[y] = at[y] /\ Newer(got[y])
          /\ \A s \in Shards : s < at[y] => Covers(got[y], s)
      BY <1>1, <2>1, <2>3 DEF ProcessInv, KnownInv
    <3>2. \A v \in Nat : v = got'[y] /\ Newer(v) =>
            /\ Newer(got[y])'
            /\ \A s \in Shards : Covers(v, s) => Covers(got[y], s)'
      BY DEF Ages, Newer, Covers, From, Sure
    <3> QED
      BY <1>1, <2>3, <3>1, <3>2 DEF KnownInv
  <2> QED
    BY <1>1, <2>2, <2>3 DEF KnownInv
<1>3. PlaceInv(y)'
  BY <1>1 DEF ProcessInv, PlaceInv
<1>4. AskingInv(y)'
  <2> SUFFICES ASSUME y \in (Refreshers \intersect untouched) \ suspect, pc[y] = "asking", prev[y] = server, NEW s \in Shards
               PROVE  shard'[s] = Holds[server][s]
    BY <1>1 DEF AskingInv
  <2>1. Newer(server) /\ shard[s] = Holds[server][s]
    BY <1>1 DEF ProcessInv, KnownInv, IsOf, AskingInv
  <2>2. ASSUME NEW q \in Refreshers, pc[q] = "writing" PROVE got[q] = server
    <3>1. q \in Processes /\ got[q] \in Nat /\ server \in Nat
      BY IndexTypes DEF IndexInv
    <3>2. got[q] <= server
      BY <2>2, <3>1 DEF IndexInv, ProcessInv, PlaceInv
    <3> QED
      BY <2>1, <2>2, <3>1, <3>2 DEF Newer
  <2> QED
    BY <2>1, <2>2 DEF ShardsOnOffer
<1>5. ReadInv(y)'
  BY <1>1 DEF ProcessInv, ReadInv
<1> QED
  BY <1>2, <1>3, <1>4, <1>5 DEF ProcessInv

(* What is left to show of a step of x.                                     *)
LEMMA ProcessStep ==
  ASSUME IndexInv, NEW x \in Processes, OthersStay(x), LetsBe(x),
         IndexTypeOK', ClearingInv', Index \in untouched => Index \in untouched',
         Index \notin suspect' =>
           \/ Index \notin suspect /\ meta' = meta
           \/ meta' \in Nat /\ IsOf(meta'),
         KnownInv(x)', PlaceInv(x)', AskingInv(x)', ReadInv(x)'
  PROVE  IndexInv'
<1>1. Ages
  BY LettingBeAges DEF IndexInv
<1>2. \A y \in Processes \ {x} : ProcessInv(y)'
  <2>1. ShardsOnOffer
    BY DEF ShardsOnOffer, LetsBe
  <2> QED
    BY <1>1, <2>1, OtherProcess
<1>3. MetaInv'
  <2>1. \A v \in Nat : IsOf(v) => IsOf(v)'
    BY <1>1 DEF IsOf, Ages
  <2>2. meta \in Nat
    BY IndexTypes DEF IndexInv
  <2>3. ASSUME Index \notin suspect' PROVE IsOf(meta)'
    <3>1. meta' \in Nat /\ IsOf(meta')
      BY <2>2, <2>3 DEF IndexInv, MetaInv
    <3>2. \A s \in Shards : Covers(meta', s)
      BY <3>1 DEF IsOf
    <3>3. Newer(meta)' /\ \A s \in Shards : Covers(meta, s)'
      <4>1. \A v \in Nat : v = meta' /\ IsOf(v) => Newer(meta)' /\ \A s \in Shards : Covers(meta, s)'
        BY <2>1 DEF IsOf, Newer, Covers, From, Sure
      <4> QED
        BY <3>1, <4>1
    <3> QED
      BY <3>3 DEF IsOf
  <2> QED
    BY <2>3 DEF MetaInv
<1> QED
  BY <1>2, <1>3 DEF IndexInv, ProcessInv

-----------------------------------------------------------------------------
(* Publishing widens what may be read.                                      *)
LEMMA PublishStep == IndexInv /\ Publish => IndexInv'
<1> SUFFICES ASSUME IndexInv, Publish PROVE IndexInv'
  OBVIOUS
<1>1. /\ server \in Nat /\ server < Archives /\ server' = server + 1
      /\ UNCHANGED <<shard, meta, pc, prev, got, at, parsed, clearing, listed, mishaps, untouched, suspect>>
  BY IndexTypes DEF IndexInv, Publish, files, clear
<1>2. IndexTypeOK'
  BY <1>1, OsvIndexAssumption DEF IndexInv, IndexTypeOK, Versions
<1>3. \A v \in Nat : /\ Newer(v) => Newer(v)' /\ v # server'
                     /\ \A s \in Shards : Covers(v, s) => Covers(v, s)'
  BY <1>1 DEF Newer, Covers, From, Sure
<1>4. \A v \in Nat : IsOf(v) => IsOf(v)' /\ v # server'
  BY <1>3 DEF IsOf
<1>5. MetaInv' /\ ClearingInv'
  BY <1>1, <1>4, IndexTypes DEF IndexInv, MetaInv, ClearingInv
<1>6. ASSUME NEW x \in Processes PROVE ProcessInv(x)'
  <2>1. /\ ProcessInv(x) /\ prev[x] \in Nat
        /\ x \in Refreshers => got[x] \in Nat
        /\ pc[x] = "writing" => x \in Refreshers
    BY IndexTypes DEF IndexInv, ProcessInv, PlaceInv
  <2>2. KnownInv(x)'
    BY <1>1, <1>3, <1>4, <2>1 DEF ProcessInv, KnownInv
  <2>3. PlaceInv(x)'
    BY <1>1, <2>1 DEF ProcessInv, PlaceInv
  <2>4. AskingInv(x)'
    <3>1. x \in Refreshers /\ x \notin suspect /\ pc[x] = "asking" => prev[x] # server'
      BY <1>4, <2>1 DEF ProcessInv, KnownInv
    <3> QED
      BY <1>1, <3>1 DEF AskingInv
  <2>5. ReadInv(x)'
    BY <1>1, <2>1 DEF ProcessInv, ReadInv
  <2> QED
    BY <2>2, <2>3, <2>4, <2>5 DEF ProcessInv
<1> QED
  BY <1>2, <1>5, <1>6 DEF IndexInv

(* What a process reads of the metadata is what the index is of.            *)
LEMMA ReadMetaStep ==
  ASSUME IndexInv, NEW x \in Processes, ReadMeta(x)
  PROVE  IndexInv'
<1>1. /\ pc[x] = "idle" /\ prev' = [prev EXCEPT ![x] = meta] /\ pc' = [pc EXCEPT ![x] = "counting"]
      /\ untouched' = IF clearing = 0 /\ (x \in Refreshers \/ Index \in untouched)
                        THEN untouched \union {x} ELSE untouched \ {x}
      /\ suspect' = IF Index \in suspect THEN suspect \union {x} ELSE suspect \ {x}
      /\ UNCHANGED <<server, shard, meta, got, at, parsed, clearing, listed, mishaps>>
  BY DEF ReadMeta, GoTo, files, clear
<1>2. IndexTypeOK'
  BY <1>1 DEF IndexInv, IndexTypeOK, Places, Processes
<1>3. /\ prev'[x] = meta /\ pc'[x] = "counting" /\ Index # x
      /\ Index \in untouched' <=> Index \in untouched
      /\ Index \in suspect' <=> Index \in suspect
      /\ x \in suspect' <=> Index \in suspect
      /\ x \in untouched' /\ x \in Readers => Index \in untouched
      /\ x \in Processes /\ meta \in Nat
  BY <1>1, IndexTypes DEF IndexInv
<1>4. OthersStay(x) /\ LetsBe(x)
  BY <1>1, <1>3, IndexTypes DEF IndexInv, OthersStay, LetsBe
<1>5. ClearingInv'
  BY <1>1 DEF IndexInv, ClearingInv
<1>6. KnownInv(x)'
  <2>1. Ages
    BY <1>4, LettingBeAges DEF IndexInv
  <2>2. \A v \in Nat : v = prev'[x] /\ IsOf(v) => IsOf(prev[x])'
    BY <2>1 DEF IsOf, Ages, Newer, Covers, From, Sure
  <2> QED
    BY <1>3, <2>2 DEF IndexInv, MetaInv, KnownInv
<1>7. PlaceInv(x)' /\ AskingInv(x)' /\ ReadInv(x)'
  <2>1. parsed' = parsed /\ (x \in Readers => parsed[x] = NothingParsed)
    BY <1>1 DEF IndexInv, ProcessInv, PlaceInv
  <2> QED
    BY <1>3, <2>1 DEF PlaceInv, AskingInv, ReadInv
<1> QED
  BY <1>1, <1>2, <1>3, <1>4, <1>5, <1>6, <1>7, ProcessStep

(* A process that ends knows nothing.                                       *)
LEMMA ReturnStep ==
  ASSUME IndexInv, NEW x \in Processes, Returns(x), shard' = shard, UNCHANGED <<server, clear>>,
         meta' \in 0..Archives, untouched' \subseteq Processes \union {Index}, suspect' \subseteq Processes \union {Index},
         \A y \in Processes \ {x} : /\ y \in untouched' <=> y \in untouched
                                    /\ y \in suspect' <=> y \in suspect,
         \A y \in Readers \ {x} : parsed'[y] = parsed[y],
         parsed' \in [Readers -> [Shards -> Records \union {Unread}]], x \in Readers => parsed'[x] = NothingParsed,
         Index \in untouched => Index \in untouched',
         Index \in untouched' =>
           Index \in untouched \/ (x \in Refreshers \intersect untouched /\ pc[x] = "writing" /\ at[x] = S + 1),
         ClearingInv',
         Index \notin suspect' =>
           \/ Index \notin suspect /\ meta' = meta
           \/ meta' \in Nat /\ IsOf(meta')
  PROVE  IndexInv'
<1>1. /\ pc' = [pc EXCEPT ![x] = "idle"] /\ prev' = [prev EXCEPT ![x] = 0]
      /\ got' = [r \in Refreshers |-> IF r = x THEN 0 ELSE got[r]]
      /\ at' = [r \in Refreshers |-> IF r = x THEN 1 ELSE at[r]]
      /\ UNCHANGED <<clearing, listed, mishaps>>
  BY DEF Returns, GoTo, clear
<1>2. IndexTypeOK'
  <2>1. 0 \in 0..Archives /\ 1 \in 1..(S + 1)
    BY OsvIndexAssumption
  <2> QED
    BY <1>1, <2>1 DEF IndexInv, IndexTypeOK, Places
<1>3. pc'[x] = "idle"
  BY <1>1, IndexTypes DEF IndexInv
<1>4. OthersStay(x) /\ LetsBe(x)
  BY <1>1, <1>3, IndexTypes DEF IndexInv, OthersStay, LetsBe
<1>5. KnownInv(x)' /\ PlaceInv(x)' /\ AskingInv(x)' /\ ReadInv(x)'
  BY <1>3 DEF KnownInv, PlaceInv, AskingInv, ReadInv
<1> QED
  BY <1>2, <1>4, <1>5, ProcessStep

(* As many shards as archive v has, none of another, are all of them.       *)
LEMMA UsableIsWhole ==
  ASSUME IndexTypeOK, Usable(server), IsOf(server)
  PROVE  \A s \in Shards : shard[s] = Holds[server][s]
<1>1. server \in Nat /\ \A s \in Shards : shard[s] = Absent \/ shard[s] = Holds[server][s]
  BY IndexTypes DEF IsOf, Covers, From
<1>2. OnDisk \subseteq ShardsOf(server)
  BY <1>1 DEF OnDisk, ShardsOf
<1>3. IsFiniteSet(ShardsOf(server))
  <2>1. IsFiniteSet(Shards)
    BY FS_Interval, OsvIndexAssumption DEF Shards
  <2> QED
    BY <2>1, FS_Subset DEF ShardsOf
<1>4. OnDisk = ShardsOf(server)
  BY <1>2, <1>3, FS_Subset DEF Usable
<1> QED
  BY <1>1, <1>4 DEF OnDisk, ShardsOf

(* Counting loses what cannot be used, and tells whether the index is whole.*)
LEMMA CountStep ==
  ASSUME IndexInv, NEW x \in Processes, CountShards(x)
  PROVE  IndexInv'
<1>1. pc[x] = "counting" /\ UNCHANGED <<server, shard, meta, parsed, clearing, listed, mishaps>>
      /\ ProcessInv(x) /\ prev[x] \in Nat
  BY IndexTypes DEF IndexInv, CountShards, files, clear
<1>2. CASE x \in Readers /\ ~Usable(prev[x]) /\ Returns(x) /\ Forgotten(x)
  <2>1. parsed \in [Readers -> [Shards -> Records \union {Unread}]] /\ parsed[x] = NothingParsed /\ meta \in 0..Archives
    BY <1>1, <1>2 DEF IndexInv, IndexTypeOK, ProcessInv, PlaceInv
  <2>2. /\ untouched' = untouched \ {x} /\ suspect' = suspect \ {x} /\ Index # x
        /\ untouched \subseteq Processes \union {Index} /\ suspect \subseteq Processes \union {Index}
    BY <1>2, IndexTypes DEF IndexInv, IndexTypeOK, Forgotten
  <2>3. ClearingInv'
    BY <1>1, <2>2 DEF IndexInv, ClearingInv
  <2> QED
    BY <1>1, <1>2, <2>1, <2>2, <2>3, ReturnStep DEF clear
<1>3. CASE ~(x \in Readers /\ ~Usable(prev[x]) /\ Returns(x) /\ Forgotten(x))
  <2> DEFINE place == IF x \in Refreshers THEN "asking" ELSE "open"
             read == IF Usable(prev[x]) THEN prev[x] ELSE 0
  <2>1. /\ x \in Refreshers \/ Usable(prev[x])
        /\ prev' = [prev EXCEPT ![x] = read] /\ pc' = [pc EXCEPT ![x] = place]
        /\ UNCHANGED <<got, at, untouched, suspect>>
    BY <1>3 DEF CountShards, GoTo
  <2>2. /\ read \in {0, prev[x]} /\ place \in {"asking", "open"}
        /\ place = "open" => x \notin Refreshers /\ read # 0 /\ read = prev[x]
        /\ x \in Refreshers => place = "asking"
        /\ read # 0 => Usable(read)
    BY <2>1 DEF Usable
  <2> HIDE DEF place, read
  <2>3. pc'[x] = place /\ prev'[x] = read
    BY <2>1, IndexTypes DEF IndexInv
  <2>4. IndexTypeOK'
    <3>1. read \in 0..Archives
      BY <2>2, OsvIndexAssumption DEF IndexInv, IndexTypeOK
    <3> QED
      BY <1>1, <2>1, <2>2, <3>1 DEF IndexInv, IndexTypeOK, Places
  <2>5. OthersStay(x) /\ LetsBe(x)
    BY <1>1, <2>1, <2>2, <2>3, IndexTypes DEF IndexInv, OthersStay, LetsBe
  <2>6. ClearingInv'
    BY <1>1, <2>1 DEF IndexInv, ClearingInv
  <2>7. KnownInv(x)'
    <3> SUFFICES ASSUME x \notin suspect PROVE IsOf(prev[x])'
      BY <2>1, <2>2, <2>3 DEF KnownInv
    <3>1. Ages
      BY <2>5, LettingBeAges DEF IndexInv
    <3>2. IsOf(0)
      BY IndexTypes DEF IndexInv, IsOf, Newer, Covers
    <3>3. IsOf(read) /\ read \in Nat
      BY <1>1, <2>2, <3>2 DEF ProcessInv, KnownInv
    <3>4. \A v \in Nat : v = prev'[x] /\ IsOf(v) => IsOf(prev[x])'
      BY <3>1 DEF IsOf, Ages, Newer, Covers, From, Sure
    <3>5. read = prev'[x] /\ IsOf(read) /\ read \in Nat
      BY <2>3, <3>3
    <3> QED
      BY <3>4, <3>5
  <2>8. PlaceInv(x)'
    <3>1. x \in Refreshers => x \notin Readers /\ pc'[x] = "asking"
      BY <2>2, <2>3, IndexTypes DEF IndexInv
    <3>2. x \notin Refreshers => x \in Readers /\ pc'[x] \in {"asking", "open"} /\ Usable(prev[x])
      BY <2>1, <2>2, <2>3 DEF Processes
    <3>3. x \in Readers => /\ pc'[x] = "open" /\ prev'[x] # 0 /\ parsed' = parsed
                           /\ x \in untouched' => Index \in untouched'
      BY <1>1, <2>1, <2>2, <2>3, <3>1 DEF ProcessInv, PlaceInv, place, read
    <3> QED
      BY <3>1, <3>2, <3>3 DEF PlaceInv
  <2>9. AskingInv(x)'
    <3> SUFFICES ASSUME x \notin suspect, read = server PROVE \A s \in Shards : shard[s] = Holds[server][s]
      BY <1>1, <2>1, <2>3 DEF AskingInv
    <3>1. server # 0
      BY IndexTypes DEF IndexInv
    <3>2. prev[x] = server /\ Usable(server)
      BY <2>2, <3>1
    <3> QED
      BY <1>1, <3>2, UsableIsWhole DEF IndexInv, ProcessInv, KnownInv
  <2>10. ReadInv(x)'
    <3>1. x \in Readers => parsed' = parsed /\ parsed[x] = NothingParsed
      BY <1>1 DEF ProcessInv, PlaceInv
    <3> QED
      BY <3>1 DEF ReadInv, NothingParsed
  <2> QED
    BY <1>1, <2>1, <2>4, <2>5, <2>6, <2>7, <2>8, <2>9, <2>10, ProcessStep
<1> QED
  BY <1>2, <1>3

(* A 304 keeps what was read.                                               *)
LEMMA NotModifiedStep ==
  ASSUME IndexInv, NEW r \in Refreshers, NotModified(r)
  PROVE  IndexInv'
<1>1. /\ pc[r] = "asking" /\ prev[r] = server /\ pc' = [pc EXCEPT ![r] = "keeping"]
      /\ UNCHANGED <<server, shard, meta, prev, got, at, parsed, clearing, listed, mishaps, untouched, suspect>>
  BY DEF NotModified, GoTo, files, clear
<1>2. r \in Processes /\ r \notin Readers /\ server # 0 /\ pc'[r] = "keeping" /\ ProcessInv(r)
  BY <1>1, IndexTypes DEF IndexInv
<1>3. IndexTypeOK'
  BY <1>1 DEF IndexInv, IndexTypeOK, Places
<1>4. OthersStay(r) /\ LetsBe(r)
  BY <1>1, <1>2, IndexTypes DEF IndexInv, OthersStay, LetsBe
<1>5. ClearingInv'
  BY <1>1 DEF IndexInv, ClearingInv
<1>6. KnownInv(r)'
  <2>1. IsOf(prev[r]) => IsOf(prev[r])'
    <3>1. \A q \in Refreshers : pc'[q] = "writing" => pc[q] = "writing"
      BY <1>1, <1>2
    <3>2. \A q \in Refreshers : pc[q] = "writing" => pc'[q] = "writing"
      BY <1>1, <1>2
    <3> QED
      BY <1>1, <3>1, <3>2 DEF IsOf, Newer, Covers, From, Sure
  <2> QED
    BY <1>1, <1>2, <2>1 DEF ProcessInv, KnownInv
<1>7. PlaceInv(r)' /\ AskingInv(r)' /\ ReadInv(r)'
  BY <1>1, <1>2 DEF PlaceInv, AskingInv, ReadInv
<1> QED
  BY <1>1, <1>2, <1>3, <1>4, <1>5, <1>6, <1>7, ProcessStep

(* What it kept is written again as metadata: the index is of it.           *)
LEMMA KeepStep ==
  ASSUME IndexInv, NEW r \in Refreshers, Keep(r)
  PROVE  IndexInv'
<1>1. /\ pc[r] = "keeping" /\ meta' = prev[r] /\ Returns(r)
      /\ suspect' = (IF r \in suspect THEN suspect \union {Index} ELSE suspect \ {Index}) \ {r}
      /\ untouched' = untouched \ {r}
      /\ UNCHANGED <<server, shard, parsed, clear>>
  BY DEF Keep, MetaIsOf
<1>2. /\ r \in Processes /\ r \notin Readers /\ Index # r /\ ProcessInv(r) /\ prev[r] \in Nat /\ prev[r] \in 0..Archives
      /\ untouched \subseteq Processes \union {Index} /\ suspect \subseteq Processes \union {Index}
      /\ parsed \in [Readers -> [Shards -> Records \union {Unread}]]
      /\ Index \notin Processes
  BY IndexTypes DEF IndexInv, IndexTypeOK
<1>3. Index \notin suspect' => meta' \in Nat /\ IsOf(meta')
  BY <1>1, <1>2 DEF ProcessInv, KnownInv
<1>4. ClearingInv'
  BY <1>1 DEF IndexInv, ClearingInv, clear
<1> QED
  BY <1>1, <1>2, <1>3, <1>4, ReturnStep

(* A refresh begins to write the archive on offer.                          *)
LEMMA DownloadStep ==
  ASSUME IndexInv, NEW r \in Refreshers, Download(r)
  PROVE  IndexInv'
<1>1. /\ pc[r] = "asking" /\ pc' = [pc EXCEPT ![r] = "writing"] /\ prev' = [prev EXCEPT ![r] = 0]
      /\ got' = [got EXCEPT ![r] = server] /\ at' = [at EXCEPT ![r] = 1]
      /\ suspect' = IF \E q \in Refreshers : pc[q] = "writing" /\ got[q] # server
                      THEN suspect \union {r} ELSE suspect \ {r}
      /\ UNCHANGED <<server, shard, meta, parsed, clearing, listed, mishaps, untouched>>
  BY DEF Download, GoTo, files, clear
<1>2. /\ r \in Processes /\ r \notin Readers /\ server \in Nat \ {0} /\ Index # r
      /\ pc'[r] = "writing" /\ got'[r] = server /\ at'[r] = 1
      /\ Index \in suspect' <=> Index \in suspect
  BY <1>1, IndexTypes DEF IndexInv
<1>3. IndexTypeOK'
  <2>1. 0 \in 0..Archives /\ 1 \in 1..(S + 1) /\ server \in 0..Archives
    BY OsvIndexAssumption DEF IndexInv, IndexTypeOK, Versions
  <2> QED
    BY <1>1, <1>2, <2>1 DEF IndexInv, IndexTypeOK, Places
<1>4. OthersStay(r) /\ LetsBe(r)
  BY <1>1, <1>2, IndexTypes DEF IndexInv, OthersStay, LetsBe
<1>5. ClearingInv'
  BY <1>1 DEF IndexInv, ClearingInv
<1>6. KnownInv(r)'
  <2> SUFFICES ASSUME r \notin suspect' PROVE Newer(got[r])' /\ \A s \in Shards : s < at'[r] => Covers(got[r], s)'
    BY <1>2 DEF KnownInv
  <2>1. \A q \in Refreshers : pc'[q] = "writing" => got'[q] = server
    BY <1>1, <1>2, IndexTypes DEF IndexInv
  <2>2. Newer(got[r])'
    BY <1>1, <1>2, <2>1 DEF Newer
  <2>3. \A s \in Shards : ~(s < 1)
    BY IndexTypes DEF IndexInv, Shards
  <2> QED
    BY <1>2, <2>2, <2>3
<1>7. PlaceInv(r)' /\ AskingInv(r)' /\ ReadInv(r)'
  BY <1>1, <1>2 DEF PlaceInv, AskingInv, ReadInv
<1> QED
  BY <1>1, <1>2, <1>3, <1>4, <1>5, <1>6, <1>7, ProcessStep

(* A shard written is of an archive no older than anyone knows of.          *)
LEMMA WriteShardStep ==
  ASSUME IndexInv, NEW r \in Refreshers, WriteShard(r)
  PROVE  IndexInv'
<1> DEFINE a == at[r]
           g == got[r]
<1>1. /\ pc[r] = "writing" /\ a <= S /\ shard' = [shard EXCEPT ![a] = Holds[g][a]]
      /\ at' = [at EXCEPT ![r] = a + 1]
      /\ UNCHANGED <<server, meta, pc, prev, got, parsed, clearing, listed, mishaps, untouched, suspect>>
  BY DEF WriteShard, NewShard, clear
<1>2. /\ server \in Nat /\ a \in Shards /\ a \in Nat /\ g \in Nat /\ g <= server /\ g \in Versions
      /\ at \in [Refreshers -> 1..(S + 1)] /\ shard \in [Shards -> Records]
      /\ r \in Processes /\ r \notin Readers /\ ProcessInv(r)
  <2>1. r \in Processes /\ got[r] \in 0..Archives /\ at[r] \in 1..(S + 1)
    BY IndexTypes DEF IndexInv, IndexTypeOK
  <2>2. got[r] # 0 /\ got[r] <= server
    BY <1>1, <2>1 DEF IndexInv, ProcessInv, PlaceInv
  <2> QED
    BY <1>1, <2>1, <2>2, IndexTypes, OsvIndexAssumption DEF IndexInv, IndexTypeOK, Versions, Shards
<1> HIDE DEF a, g
<1>3. shard'[a] = Holds[g][a] /\ (\A s \in Shards : s # a => shard'[s] = shard[s])
      /\ at'[r] = a + 1 /\ \A q \in Refreshers : q # r => at'[q] = at[q]
  BY <1>1, <1>2
<1>4. IndexTypeOK'
  <2>1. Holds[g][a] \in Records /\ a + 1 \in 1..(S + 1)
    BY <1>1, <1>2, IndexTypes DEF IndexInv, Records, Shards
  <2> QED
    BY <1>1, <1>2, <2>1 DEF IndexInv, IndexTypeOK
<1>5. Ages
  <2>1. ASSUME NEW s \in Shards, s # a, Sure(s)' PROVE Sure(s)
    <3>1. CASE Index \in untouched
      BY <3>1 DEF Sure
    <3>2. CASE Index \notin untouched
      <4>1. PICK q \in Refreshers \intersect untouched : pc[q] = "writing" /\ s < at'[q]
        BY <1>1, <2>1, <3>2 DEF Sure
      <4>2. s < at[q]
        BY <1>2, <1>3, <2>1, <4>1 DEF Shards, a
      <4> QED
        BY <4>1, <4>2 DEF Sure
    <3> QED
      BY <3>1, <3>2
  <2>2. ASSUME NEW v \in Nat, Newer(v), NEW s \in Shards, Covers(v, s) PROVE Covers(v, s)'
    <3>1. CASE s = a
      <4>1. g \in v..server
        BY <1>1, <1>2, <2>2 DEF Newer, g
      <4> QED
        BY <1>1, <1>3, <3>1, <4>1 DEF Covers, From
    <3>2. CASE s # a
      BY <1>1, <1>3, <2>1, <2>2, <3>2 DEF Covers, From
    <3> QED
      BY <3>1, <3>2
  <2>3. \A v \in Nat : Newer(v) => Newer(v)'
    BY <1>1 DEF Newer
  <2> QED
    BY <2>2, <2>3 DEF Ages
<1>6. ASSUME NEW y \in Processes \ {r} PROVE ProcessInv(y)'
  <2>1. OthersStay(r)
    BY <1>1, <1>3 DEF OthersStay
  <2>2. ShardsOnOffer
    BY <1>1, <1>3 DEF ShardsOnOffer, g
  <2> QED
    BY <1>1, <1>2, <1>5, <2>1, <2>2, OtherProcess
<1>7. KnownInv(r)'
  <2> SUFFICES ASSUME r \notin suspect PROVE Newer(got[r])' /\ \A s \in Shards : s < at'[r] => Covers(got[r], s)'
    BY <1>1 DEF KnownInv
  <2>1. Newer(g) /\ \A s \in Shards : s < a => Covers(g, s)
    BY <1>1, <1>2 DEF ProcessInv, KnownInv, a, g
  <2>2. Newer(g)' /\ \A s \in Shards : s < a => Covers(g, s)'
    <3>1. \A v \in Nat : v = g /\ Newer(v) => Newer(g)' /\ \A s \in Shards : Covers(v, s) => Covers(g, s)'
      BY <1>1, <1>5 DEF Ages, Newer, Covers, From, Sure, g
    <3> QED
      BY <1>2, <2>1, <3>1
  <2>4. \A s \in Shards : s < a + 1 => s < a \/ s = a
    BY <1>2 DEF Shards
  <2>5. Newer(got[r])' /\ \A s \in Shards : s < a + 1 => Covers(got[r], s)'
    <3>1. ASSUME NEW s \in Shards, s = a PROVE Covers(got[r], s)'
      BY <1>1, <1>2, <1>3, <3>1 DEF Covers, From, g
    <3> QED
      BY <2>2, <2>4, <3>1 DEF g
  <2> QED
    BY <1>3, <2>5
<1>8. PlaceInv(r)' /\ AskingInv(r)' /\ ReadInv(r)'
  BY <1>1, <1>2 DEF ProcessInv, PlaceInv, AskingInv, ReadInv
<1>9. MetaInv' /\ ClearingInv'
  <2>1. \A v \in Nat : v = meta /\ IsOf(v) => IsOf(meta)'
    BY <1>1, <1>5 DEF IsOf, Ages, Newer, Covers, From, Sure
  <2> QED
    BY <1>1, <2>1, IndexTypes DEF IndexInv, MetaInv, ClearingInv
<1> QED
  BY <1>4, <1>6, <1>7, <1>8, <1>9 DEF IndexInv, ProcessInv

(* The metadata comes after the last shard.                                 *)
LEMMA WriteMetaStep ==
  ASSUME IndexInv, NEW r \in Refreshers, WriteMeta(r)
  PROVE  IndexInv'
<1>1. /\ pc[r] = "writing" /\ at[r] = S + 1 /\ meta' = got[r] /\ Returns(r)
      /\ suspect' = (IF r \in suspect THEN suspect \union {Index} ELSE suspect \ {Index}) \ {r}
      /\ untouched' = (IF r \in untouched THEN untouched \union {Index} ELSE untouched) \ {r}
      /\ UNCHANGED <<server, shard, parsed, clear>>
  BY DEF WriteMeta, MetaIsOf
<1>2. /\ r \in Processes /\ r \notin Readers /\ Index # r /\ ProcessInv(r) /\ got[r] \in Nat /\ got[r] \in 0..Archives
      /\ untouched \subseteq Processes \union {Index} /\ suspect \subseteq Processes \union {Index}
      /\ parsed \in [Readers -> [Shards -> Records \union {Unread}]]
      /\ Index \notin Processes
  BY IndexTypes DEF IndexInv, IndexTypeOK
<1>3. Index \notin suspect' => meta' \in Nat /\ IsOf(meta')
  <2>1. \A s \in Shards : s < S + 1
    BY IndexTypes DEF IndexInv, Shards
  <2> QED
    BY <1>1, <1>2, <2>1 DEF ProcessInv, KnownInv, IsOf
<1>4. ClearingInv'
  BY <1>1 DEF IndexInv, ClearingInv, clear
<1> QED
  BY <1>1, <1>2, <1>3, <1>4, ReturnStep

(* A refresh that fails leaves what is in place.                            *)
LEMMA FailStep ==
  ASSUME IndexInv, NEW r \in Refreshers, Fail(r)
  PROVE  IndexInv'
<1>1. /\ mishaps < MaxMishaps /\ mishaps' = mishaps + 1 /\ Returns(r)
      /\ untouched' = untouched \ {r} /\ suspect' = suspect \ {r}
      /\ UNCHANGED <<server, shard, meta, parsed, clearing, listed>>
  BY DEF Fail, Forgotten, files
<1>2. /\ pc' = [pc EXCEPT ![r] = "idle"] /\ prev' = [prev EXCEPT ![r] = 0]
      /\ got' = [q \in Refreshers |-> IF q = r THEN 0 ELSE got[q]]
      /\ at' = [q \in Refreshers |-> IF q = r THEN 1 ELSE at[q]]
  BY <1>1 DEF Returns, GoTo
<1>3. r \in Processes /\ r \notin Readers /\ Index # r /\ pc'[r] = "idle"
  BY <1>2, IndexTypes DEF IndexInv
<1>4. IndexTypeOK'
  <2>1. 0 \in 0..Archives /\ 1 \in 1..(S + 1) /\ mishaps + 1 \in 0..MaxMishaps
    BY <1>1, OsvIndexAssumption DEF IndexInv, IndexTypeOK
  <2>2. /\ pc' \in [Processes -> Places] /\ prev' \in [Processes -> 0..Archives]
        /\ got' \in [Refreshers -> 0..Archives] /\ at' \in [Refreshers -> 1..(S + 1)]
    BY <1>2, <2>1 DEF IndexInv, IndexTypeOK, Places
  <2> QED
    BY <1>1, <2>1, <2>2 DEF IndexInv, IndexTypeOK
<1>5. OthersStay(r) /\ LetsBe(r)
  BY <1>1, <1>2, <1>3, IndexTypes DEF IndexInv, OthersStay, LetsBe
<1>6. ClearingInv'
  BY <1>1 DEF IndexInv, ClearingInv
<1>7. KnownInv(r)' /\ PlaceInv(r)' /\ AskingInv(r)' /\ ReadInv(r)'
  BY <1>3 DEF KnownInv, PlaceInv, AskingInv, ReadInv
<1> QED
  BY <1>1, <1>3, <1>4, <1>5, <1>6, <1>7, ProcessStep

(* A lookup parses a shard of an archive that is whole.                     *)
LEMMA LookupStep ==
  ASSUME IndexInv, NEW x \in Readers, NEW s \in Shards, Lookup(x, s)
  PROVE  IndexInv'
<1>1. /\ pc[x] = "open" /\ parsed' = [parsed EXCEPT ![x][s] = shard[s]]
      /\ UNCHANGED <<server, shard, meta, pc, prev, got, at, clearing, listed, mishaps, untouched, suspect>>
  BY DEF Lookup, files, clear
<1>2. /\ parsed \in [Readers -> [Shards -> Records \union {Unread}]] /\ shard \in [Shards -> Records]
      /\ x \in Processes /\ x \notin Refreshers /\ ProcessInv(x)
  BY IndexTypes DEF IndexInv, IndexTypeOK
<1>3. /\ \A y \in Readers : y # x => parsed'[y] = parsed[y]
      /\ parsed'[x][s] = shard[s] /\ \A z \in Shards : z # s => parsed'[x][z] = parsed[x][z]
      /\ parsed' \in [Readers -> [Shards -> Records \union {Unread}]]
  BY <1>1, <1>2
<1>4. IndexTypeOK'
  BY <1>1, <1>3 DEF IndexInv, IndexTypeOK
<1>5. OthersStay(x) /\ LetsBe(x)
  BY <1>1, <1>3 DEF OthersStay, LetsBe
<1>6. KnownInv(x)' /\ ClearingInv'
  <2>1. IsOf(prev[x]) => IsOf(prev[x])'
    BY <1>1 DEF IsOf, Newer, Covers, From, Sure
  <2> QED
    BY <1>1, <1>2, <2>1 DEF IndexInv, ClearingInv, ProcessInv, KnownInv
<1>7. PlaceInv(x)' /\ AskingInv(x)'
  BY <1>1, <1>2 DEF ProcessInv, PlaceInv, AskingInv
<1>8. ReadInv(x)'
  <2> SUFFICES ASSUME x \in (Readers \intersect untouched) \ suspect, NEW z \in Shards, parsed'[x][z] # Unread
               PROVE  \E v \in prev[x]..server : parsed'[x][z] = Holds[v][z]
    BY <1>1 DEF ReadInv
  <2>1. CASE z = s
    <3>1. IsOf(prev[x]) /\ prev[x] # 0 /\ Sure(s)
      BY <1>1, <1>2 DEF ProcessInv, KnownInv, PlaceInv, Sure
    <3> QED
      BY <1>3, <2>1, <3>1 DEF IsOf, Covers, From
  <2>2. CASE z # s
    BY <1>1, <1>2, <1>3, <2>2 DEF ProcessInv, ReadInv
  <2> QED
    BY <2>1, <2>2
<1> QED
  BY <1>1, <1>2, <1>4, <1>5, <1>6, <1>7, <1>8, ProcessStep

(* A reader that ends forgets what it parsed.                               *)
LEMMA CloseStep ==
  ASSUME IndexInv, NEW x \in Readers, CloseReader(x)
  PROVE  IndexInv'
<1>1. /\ Returns(x) /\ parsed' = [parsed EXCEPT ![x] = NothingParsed]
      /\ untouched' = untouched \ {x} /\ suspect' = suspect \ {x}
      /\ UNCHANGED <<server, shard, meta, clear>>
  BY DEF CloseReader, Forgotten, files
<1>2. /\ parsed \in [Readers -> [Shards -> Records \union {Unread}]]
      /\ NothingParsed \in [Shards -> Records \union {Unread}]
      /\ x \in Processes /\ x \notin Refreshers /\ Index # x /\ meta \in 0..Archives
      /\ untouched \subseteq Processes \union {Index} /\ suspect \subseteq Processes \union {Index}
  BY IndexTypes DEF IndexInv, IndexTypeOK, NothingParsed
<1>3. ClearingInv'
  BY <1>1 DEF IndexInv, ClearingInv, clear
<1>4. /\ parsed' \in [Readers -> [Shards -> Records \union {Unread}]] /\ parsed'[x] = NothingParsed
      /\ \A y \in Readers \ {x} : parsed'[y] = parsed[y]
  BY <1>1, <1>2
<1> QED
  BY <1>1, <1>2, <1>3, <1>4, ReturnStep

(* A clear crosses every path; what it removes is Absent.                   *)
LEMMA ClearStep ==
  ASSUME IndexInv, ClearBegins \/ ClearNext \/ ClearEnds \/ ClearKilled
  PROVE  IndexInv'
<1>1. /\ UNCHANGED <<server, pc, prev, got, at, parsed, suspect>>
      /\ untouched' = {} /\ mishaps' \in 0..MaxMishaps /\ clearing' \in 0..(S + 1)
      /\ listed' \subseteq 1..(S + 1) /\ meta' \in {meta, 0}
      /\ shard' \in [Shards -> Records] /\ \A s \in Shards : shard'[s] \in {shard[s], Absent}
  <2>0. /\ S \in Nat /\ MaxMishaps \in Nat /\ mishaps \in 0..MaxMishaps /\ clearing \in 0..(S + 1)
        /\ shard \in [Shards -> Records] /\ listed \subseteq 1..(S + 1)
        /\ clearing # 0 => untouched = {}
    BY OsvIndexAssumption DEF IndexInv, IndexTypeOK, ClearingInv
  <2>1. CASE ClearBegins
    <3>1. OnDisk \union (IF meta = 0 THEN {} ELSE {S + 1}) \subseteq 1..(S + 1)
      BY <2>0 DEF OnDisk, Shards
    <3> QED
      BY <2>0, <2>1, <3>1 DEF ClearBegins, files
  <2>2. CASE ClearNext
    <3>1. clearing # 0 /\ clearing + 1 \in 0..(S + 1) /\ Absent \in Records
      BY <2>0, <2>2 DEF ClearNext, Shards, Records
    <3> QED
      BY <2>0, <2>2, <3>1 DEF ClearNext
  <2>3. CASE ClearEnds
    BY <2>0, <2>3 DEF ClearEnds
  <2>4. CASE ClearKilled
    BY <2>0, <2>4 DEF ClearKilled, files
  <2> QED
    BY <2>1, <2>2, <2>3, <2>4
<1>2. IndexTypeOK'
  BY <1>1, OsvIndexAssumption DEF IndexInv, IndexTypeOK
<1>3. \A v : /\ Newer(v) => Newer(v)'
             /\ \A s \in Shards : Covers(v, s) => Covers(v, s)'
  BY <1>1 DEF Newer, Covers, From, Sure
<1>4. \A v : IsOf(v) => IsOf(v)'
  BY <1>3 DEF IsOf
<1>5. MetaInv'
  <2>1. IsOf(0)
    BY IndexTypes DEF IndexInv, IsOf, Newer, Covers
  <2>2. \A v : v = meta' /\ IsOf(v) => IsOf(meta)'
    BY <1>4 DEF IsOf, Newer, Covers, From, Sure
  <2> QED
    BY <1>1, <2>1, <2>2 DEF IndexInv, MetaInv
<1>6. ASSUME NEW x \in Processes PROVE ProcessInv(x)'
  <2>1. KnownInv(x)'
    BY <1>1, <1>3, <1>4 DEF IndexInv, ProcessInv, KnownInv
  <2>2. PlaceInv(x)' /\ AskingInv(x)' /\ ReadInv(x)'
    BY <1>1 DEF IndexInv, ProcessInv, PlaceInv, AskingInv, ReadInv
  <2> QED
    BY <2>1, <2>2 DEF ProcessInv
<1> QED
  BY <1>1, <1>2, <1>5, <1>6 DEF IndexInv, ClearingInv

LEMMA IndexStays ==
  ASSUME IndexInv, UNCHANGED indexVars
  PROVE  IndexInv'
<1>1. UNCHANGED <<server, shard, meta, pc, prev, got, at, parsed, clearing, listed, mishaps, untouched, suspect>>
  BY DEF indexVars, files, clear
<1>2. IndexTypeOK' /\ ClearingInv'
  BY <1>1 DEF IndexInv, IndexTypeOK, ClearingInv
<1>3. \A v : /\ Newer(v) => Newer(v)'
             /\ \A s \in Shards : Covers(v, s) => Covers(v, s)'
  BY <1>1 DEF Newer, Covers, From, Sure
<1>4. \A v : IsOf(v) => IsOf(v)'
  BY <1>3 DEF IsOf
<1>5. MetaInv'
  <2>1. \A v : v = meta /\ IsOf(v) => IsOf(meta)'
    BY <1>1, <1>4 DEF IsOf, Newer, Covers, From, Sure
  <2> QED
    BY <1>1, <2>1 DEF IndexInv, MetaInv
<1>6. ASSUME NEW x \in Processes PROVE ProcessInv(x)'
  <2>1. KnownInv(x)'
    BY <1>1, <1>3, <1>4 DEF IndexInv, ProcessInv, KnownInv
  <2>2. PlaceInv(x)' /\ AskingInv(x)' /\ ReadInv(x)'
    BY <1>1 DEF IndexInv, ProcessInv, PlaceInv, AskingInv, ReadInv
  <2> QED
    BY <2>1, <2>2 DEF ProcessInv
<1> QED
  BY <1>2, <1>5, <1>6 DEF IndexInv

LEMMA StepIndexInv == IndexInv /\ [IndexNext]_indexVars => IndexInv'
<1> SUFFICES ASSUME IndexInv, [IndexNext]_indexVars PROVE IndexInv'
  OBVIOUS
<1>1. ASSUME NEW r \in Refreshers, Refresh(r) \/ Fail(r) PROVE IndexInv'
  <2>1. r \in Processes
    BY DEF Processes
  <2> QED
    BY <1>1, <2>1, ReadMetaStep, CountStep, NotModifiedStep, KeepStep, DownloadStep, WriteShardStep, WriteMetaStep,
       FailStep DEF Refresh
<1>2. ASSUME NEW x \in Readers, Read(x) PROVE IndexInv'
  <2>1. x \in Processes
    BY DEF Processes
  <2> QED
    BY <1>2, <2>1, ReadMetaStep, CountStep, CloseStep, LookupStep DEF Read
<1>3. CASE Publish
  BY <1>3, PublishStep
<1>4. CASE UNCHANGED indexVars
  BY <1>4, IndexStays
<1> QED
  BY <1>1, <1>2, <1>3, <1>4, ClearStep DEF IndexNext

(* Whichever refreshes failed, were killed or are under way, however many   *)
(* there are, an offline run no clear crossed, of metadata no refresh wrote *)
(* that overtook an older one, never takes a shard that is not there yet    *)
(* for one with no advisories (read.go, packageEntry).                      *)
THEOREM OsvReadsAnArchive == IndexSpec => []ReadsAnArchive
<1>1. IndexInv => ReadsAnArchive
  BY DEF IndexInv, ProcessInv, ReadInv, ReadsAnArchive, Processes
<1> QED
  BY <1>1, InitIndexInv, StepIndexInv, PTL DEF IndexSpec

(* The copy a 304 confirms is the archive the server offers, every shard of *)
(* it, whatever other refreshes do: earlier failures left too few shards to *)
(* be taken for it (refresh.go, refreshOne and usablePrevious).             *)
THEOREM OsvConfirmedIsCurrent == IndexSpec => ConfirmedIsCurrent
<1> DEFINE Confirmed == \A r \in (Refreshers \intersect untouched) \ suspect :
                          pc[r] = "asking" /\ pc'[r] = "keeping" =>
                            \A s \in Shards : shard[s] = Holds[prev[r]][s]
<1>1. IndexInv /\ [IndexNext]_indexVars => [Confirmed]_indexVars
  <2> SUFFICES ASSUME IndexInv, IndexNext, NEW r \in (Refreshers \intersect untouched) \ suspect,
                      pc[r] = "asking", pc'[r] = "keeping", NEW s \in Shards
               PROVE  shard[s] = Holds[prev[r]][s]
    BY DEF indexVars
  <2>1. pc \in [Processes -> Places] /\ r \in Processes
    BY DEF IndexInv, IndexTypeOK, Processes
  <2>2. ASSUME NEW y \in Processes, NEW place, place # "keeping", GoTo(y, place) PROVE FALSE
    BY <2>1, <2>2 DEF GoTo
  <2>3. prev[r] = server
    <3>1. ASSUME NEW p \in Refreshers, Refresh(p) \/ Fail(p) PROVE prev[r] = server
      <4>1. p \in Processes
        BY DEF Processes
      <4>2. CASE NotModified(p)
        BY <2>1, <4>1, <4>2 DEF NotModified, GoTo
      <4>3. CASE ReadMeta(p) \/ Keep(p) \/ Download(p) \/ WriteMeta(p) \/ Fail(p)
        BY <2>2, <4>1, <4>3 DEF ReadMeta, Keep, Download, WriteMeta, Fail, Returns
      <4>4. CASE CountShards(p)
        BY <2>2, <4>1, <4>4 DEF CountShards, Returns
      <4>5. CASE WriteShard(p)
        BY <4>5 DEF WriteShard
      <4> QED
        BY <3>1, <4>2, <4>3, <4>4, <4>5 DEF Refresh
    <3>2. ASSUME NEW x \in Readers, Read(x) PROVE prev[r] = server
      <4>1. x \in Processes
        BY DEF Processes
      <4>2. CASE ReadMeta(x) \/ CloseReader(x)
        BY <2>2, <4>1, <4>2 DEF ReadMeta, CloseReader, Returns
      <4>3. CASE CountShards(x)
        BY <2>2, <4>1, <4>3 DEF CountShards, Returns
      <4>4. CASE \E z \in Shards : Lookup(x, z)
        BY <4>4 DEF Lookup
      <4> QED
        BY <3>2, <4>2, <4>3, <4>4 DEF Read
    <3>3. CASE Publish \/ ClearBegins \/ ClearNext \/ ClearEnds \/ ClearKilled
      BY <3>3 DEF Publish, ClearBegins, ClearNext, ClearEnds, ClearKilled
    <3> QED
      BY <3>1, <3>2, <3>3 DEF IndexNext
  <2> QED
    BY <2>1, <2>3 DEF IndexInv, ProcessInv, AskingInv
<1> QED
  BY <1>1, InitIndexInv, StepIndexInv, PTL DEF IndexSpec, ConfirmedIsCurrent

-----------------------------------------------------------------------------
(* Affected.  A set of numbers that is not empty has a least one: that is   *)
(* all the induction the recursive definitions need.                        *)
LEMMA HasLeast ==
  ASSUME NEW A \in SUBSET Nat, A # {}
  PROVE  \E i \in A : \A j \in A : i <= j
<1> DEFINE R == {ss \in Nat \X Nat : ss[1] < ss[2]}
<1>1. IsWellFoundedOn(R, Nat)
  BY NatLessThanWellFounded, Zenon DEF OpToRel
<1>2. PICK i \in A : \A j \in A : ~(<<j, i>> \in R)
  <2> HIDE DEF R
  <2> QED
    BY <1>1, WFMin
<1>3. \A j \in A : ~(j < i)
  BY <1>2
<1>4. \A j \in A : i <= j
  BY <1>3
<1> QED
  BY <1>4

(* What holds first and after each step holds throughout.                   *)
LEMMA Throughout ==
  ASSUME NEW len \in Nat, NEW A, 0 \in A, \A n \in 0..(len - 1) : n \in A => n + 1 \in A
  PROVE  \A n \in 0..len : n \in A
<1> DEFINE broken == {n \in 0..len : n \notin A}
<1>1. ASSUME broken # {} PROVE FALSE
  <2>1. broken \in SUBSET Nat
    OBVIOUS
  <2>2. PICK n \in broken : \A k \in broken : n <= k
    <3> HIDE DEF broken
    <3> QED
      BY <1>1, <2>1, HasLeast
  <2>3. n # 0 /\ n \in 0..len /\ n \notin A
    BY <2>2
  <2>4. n - 1 \in 0..(len - 1) /\ n - 1 \in 0..len /\ ~(n <= n - 1) /\ (n - 1) + 1 = n
    BY <2>3
  <2>5. n - 1 \in A
    BY <2>2, <2>4
  <2> QED
    BY <2>3, <2>4, <2>5
<1> QED
  BY <1>1

-----------------------------------------------------------------------------
(* The recursive definitions, unfolded.                                     *)

ReadOf(read, events, m) == read = [n \in 0..m |-> IF n = 0 THEN NothingRead ELSE ReadEvent(read[n - 1], events[n])]
LineOf(line, events, m) == line = [n \in 0..m |-> IF n = 0 THEN <<>> ELSE line[n - 1] \o Drawn(events[n])]
RecordsOf(records, members, m) ==
  records = [n \in 0..m |-> IF n = 0 THEN <<>> ELSE Collect(records[n - 1], members[n])]

LEMMA ReadExists ==
  ASSUME NEW events, NEW len \in Nat
  PROVE  \E read : ReadOf(read, events, len)
<1> DEFINE A == {m \in Nat : \E read : ReadOf(read, events, m)}
<1>1. 0 \in A
  <2>1. ReadOf([n \in 0..0 |-> NothingRead], events, 0)
    BY DEF ReadOf
  <2> QED
    BY <2>1
<1>2. ASSUME NEW k \in 0..(len - 1), k \in A PROVE k + 1 \in A
  <2>1. k \in Nat /\ k + 1 \in Nat
    OBVIOUS
  <2>2. PICK f : ReadOf(f, events, k)
    BY <1>2
  <2> DEFINE g == [n \in 0..(k + 1) |-> IF n = k + 1 THEN ReadEvent(f[k], events[k + 1]) ELSE f[n]]
  <2>3. \A n \in 0..k : f[n] = IF n = 0 THEN NothingRead ELSE ReadEvent(f[n - 1], events[n])
    BY <2>2 DEF ReadOf
  <2>4. ASSUME NEW n \in 0..(k + 1) PROVE g[n] = IF n = 0 THEN NothingRead ELSE ReadEvent(g[n - 1], events[n])
    <3>1. n # 0 => n - 1 \in 0..(k + 1) /\ n - 1 # k + 1 /\ g[n - 1] = f[n - 1]
      BY <2>1
    <3>2. CASE n = k + 1
      <4>1. n # 0 /\ n - 1 = k
        BY <2>1, <3>2
      <4> QED
        BY <3>1, <3>2, <4>1
    <3>3. CASE n # k + 1
      <4>1. n \in 0..k
        BY <2>1, <3>3
      <4> QED
        BY <2>3, <3>1, <3>3, <4>1
    <3> QED
      BY <3>2, <3>3
  <2>5. ReadOf(g, events, k + 1)
    BY <2>4 DEF ReadOf
  <2> QED
    BY <2>1, <2>5
<1> HIDE DEF A
<1>3. \A n \in 0..len : n \in A
  BY <1>1, <1>2, Throughout
<1>4. len \in A
  BY <1>3
<1> QED
  BY <1>4 DEF A

LEMMA LineExists ==
  ASSUME NEW events, NEW len \in Nat
  PROVE  \E line : LineOf(line, events, len)
<1> DEFINE A == {m \in Nat : \E line : LineOf(line, events, m)}
<1>1. 0 \in A
  <2>1. LineOf([n \in 0..0 |-> <<>>], events, 0)
    BY DEF LineOf
  <2> QED
    BY <2>1
<1>2. ASSUME NEW k \in 0..(len - 1), k \in A PROVE k + 1 \in A
  <2>1. k \in Nat /\ k + 1 \in Nat
    OBVIOUS
  <2>2. PICK f : LineOf(f, events, k)
    BY <1>2
  <2> DEFINE g == [n \in 0..(k + 1) |-> IF n = k + 1 THEN f[k] \o Drawn(events[k + 1]) ELSE f[n]]
  <2>3. \A n \in 0..k : f[n] = IF n = 0 THEN <<>> ELSE f[n - 1] \o Drawn(events[n])
    BY <2>2 DEF LineOf
  <2>4. ASSUME NEW n \in 0..(k + 1) PROVE g[n] = IF n = 0 THEN <<>> ELSE g[n - 1] \o Drawn(events[n])
    <3>1. n # 0 => n - 1 \in 0..(k + 1) /\ n - 1 # k + 1 /\ g[n - 1] = f[n - 1]
      BY <2>1
    <3>2. CASE n = k + 1
      <4>1. n # 0 /\ n - 1 = k
        BY <2>1, <3>2
      <4> QED
        BY <3>1, <3>2, <4>1
    <3>3. CASE n # k + 1
      <4>1. n \in 0..k
        BY <2>1, <3>3
      <4> QED
        BY <2>3, <3>1, <3>3, <4>1
    <3> QED
      BY <3>2, <3>3
  <2>5. LineOf(g, events, k + 1)
    BY <2>4 DEF LineOf
  <2> QED
    BY <2>1, <2>5
<1> HIDE DEF A
<1>3. \A n \in 0..len : n \in A
  BY <1>1, <1>2, Throughout
<1>4. len \in A
  BY <1>3
<1> QED
  BY <1>4 DEF A

LEMMA RecordsExist ==
  ASSUME NEW members, NEW len \in Nat
  PROVE  \E records : RecordsOf(records, members, len)
<1> DEFINE A == {m \in Nat : \E records : RecordsOf(records, members, m)}
<1>1. 0 \in A
  <2>1. RecordsOf([n \in 0..0 |-> <<>>], members, 0)
    BY DEF RecordsOf
  <2> QED
    BY <2>1
<1>2. ASSUME NEW k \in 0..(len - 1), k \in A PROVE k + 1 \in A
  <2>1. k \in Nat /\ k + 1 \in Nat
    OBVIOUS
  <2>2. PICK f : RecordsOf(f, members, k)
    BY <1>2
  <2> DEFINE g == [n \in 0..(k + 1) |-> IF n = k + 1 THEN Collect(f[k], members[k + 1]) ELSE f[n]]
  <2>3. \A n \in 0..k : f[n] = IF n = 0 THEN <<>> ELSE Collect(f[n - 1], members[n])
    BY <2>2 DEF RecordsOf
  <2>4. ASSUME NEW n \in 0..(k + 1) PROVE g[n] = IF n = 0 THEN <<>> ELSE Collect(g[n - 1], members[n])
    <3>1. n # 0 => n - 1 \in 0..(k + 1) /\ n - 1 # k + 1 /\ g[n - 1] = f[n - 1]
      BY <2>1
    <3>2. CASE n = k + 1
      <4>1. n # 0 /\ n - 1 = k
        BY <2>1, <3>2
      <4> QED
        BY <3>1, <3>2, <4>1
    <3>3. CASE n # k + 1
      <4>1. n \in 0..k
        BY <2>1, <3>3
      <4> QED
        BY <2>3, <3>1, <3>3, <4>1
    <3> QED
      BY <3>2, <3>3
  <2>5. RecordsOf(g, members, k + 1)
    BY <2>4 DEF RecordsOf
  <2> QED
    BY <2>1, <2>5
<1> HIDE DEF A
<1>3. \A n \in 0..len : n \in A
  BY <1>1, <1>2, Throughout
<1>4. len \in A
  BY <1>3
<1> QED
  BY <1>4 DEF A

LEMMA ReadIs ==
  ASSUME NEW events, Len(events) \in Nat
  PROVE  \E read : ReadOf(read, events, Len(events)) /\ ReadEvents(events) = read[Len(events)]
<1> DEFINE read == CHOOSE read : read = [n \in 0..Len(events) |-> IF n = 0 THEN NothingRead ELSE ReadEvent(read[n - 1], events[n])]
<1>1. ReadEvents(events) = read[Len(events)]
  BY DEF ReadEvents
<1>2. ReadOf(read, events, Len(events))
  BY ReadExists, Zenon DEF ReadOf
<1> HIDE DEF read
<1> QED
  BY <1>1, <1>2

LEMMA LineIs ==
  ASSUME NEW events, Len(events) \in Nat
  PROVE  \E line : LineOf(line, events, Len(events)) /\ Bounds(events) = line[Len(events)]
<1> DEFINE line == CHOOSE line : line = [n \in 0..Len(events) |-> IF n = 0 THEN <<>> ELSE line[n - 1] \o Drawn(events[n])]
<1>1. Bounds(events) = line[Len(events)]
  BY DEF Bounds
<1>2. LineOf(line, events, Len(events))
  BY LineExists, Zenon DEF LineOf
<1> HIDE DEF line
<1> QED
  BY <1>1, <1>2

LEMMA RecordsAre ==
  ASSUME NEW members, Len(members) \in Nat
  PROVE  \E records : RecordsOf(records, members, Len(members)) /\ Indexed(members) = records[Len(members)]
<1> DEFINE records == CHOOSE records : records = [n \in 0..Len(members) |-> IF n = 0 THEN <<>> ELSE Collect(records[n - 1], members[n])]
<1>1. Indexed(members) = records[Len(members)]
  BY DEF Indexed
<1>2. RecordsOf(records, members, Len(members))
  BY RecordsExist, Zenon DEF RecordsOf
<1> HIDE DEF records
<1> QED
  BY <1>1, <1>2

-----------------------------------------------------------------------------
(* What a range's events read as, told by the bounds they draw: a range for *)
(* each bound that closes, from the bound before it where that one opens,   *)
(* and one without an end for each that is followed by another or nothing.  *)

BoundType == {b \in [opens : BOOLEAN, at : Texts \ {NoText}, itself : BOOLEAN] : b.opens => b.itself}

Introduces(B, i) == IF i > 1 /\ B[i - 1].opens THEN B[i - 1].at ELSE Zero

EndingAt(intro, b) ==
  [introduced |-> intro, fixed |-> IF b.itself THEN b.at ELSE NoText, last |-> IF b.itself THEN NoText ELSE b.at]

Ended(B, x) ==
  \/ \E i \in DOMAIN B : ~B[i].opens /\ x = EndingAt(Introduces(B, i), B[i])
  \/ \E i \in 1..(Len(B) - 1) : B[i].opens /\ B[i + 1].opens /\ x = NewRange(B[i].at)

OpenAtEnd(B, x) == B # <<>> /\ B[Len(B)].opens /\ x = NewRange(B[Len(B)].at)

Tracks(acc, B) ==
  /\ B \in Seq(BoundType)
  /\ acc = [open |-> acc.open, done |-> acc.done]
  /\ \A x : x \in acc.open <=> OpenAtEnd(B, x)
  /\ \A x : x \in acc.done <=> Ended(B, x)

(* One bound.                                                               *)
Opened(acc, place) == [open |-> {NewRange(place)}, done |-> acc.done \cup acc.open]
ClosedWith(acc, b) ==
  [open |-> {}, done |-> acc.done \cup {EndingAt(r.introduced, b) : r \in IF acc.open = {} THEN {NewRange(Zero)} ELSE acc.open}]

LEMMA AppendShape ==
  ASSUME NEW B \in Seq(BoundType), NEW b \in BoundType
  PROVE  /\ Append(B, b) \in Seq(BoundType) /\ Append(B, b) # <<>>
         /\ Len(B) \in Nat /\ Len(Append(B, b)) = Len(B) + 1
         /\ DOMAIN B = 1..Len(B) /\ DOMAIN Append(B, b) = 1..(Len(B) + 1)
         /\ Append(B, b)[Len(B) + 1] = b
         /\ \A i \in 1..Len(B) : Append(B, b)[i] = B[i]
         /\ B # <<>> <=> Len(B) > 0
  OBVIOUS

(* What had ended before is as it was.                                      *)
LEMMA EndedStays ==
  ASSUME NEW B \in Seq(BoundType), NEW b \in BoundType, NEW x
  PROVE  Ended(Append(B, b), x) <=>
           \/ Ended(B, x)
           \/ ~b.opens /\ x = EndingAt(Introduces(Append(B, b), Len(B) + 1), b)
           \/ b.opens /\ OpenAtEnd(B, x)
<1> DEFINE C == Append(B, b)
           n == Len(B)
<1>1. /\ n \in Nat /\ DOMAIN B = 1..n /\ Len(C) = n + 1 /\ DOMAIN C = 1..(n + 1)
      /\ C[n + 1] = b /\ (\A i \in 1..n : C[i] = B[i]) /\ (B # <<>> <=> n > 0)
  BY AppendShape
<1> HIDE DEF C
<1>2. \A i \in 1..n : Introduces(C, i) = Introduces(B, i)
  <2> SUFFICES ASSUME NEW i \in 1..n PROVE Introduces(C, i) = Introduces(B, i)
    OBVIOUS
  <2>1. i > 1 => i - 1 \in 1..n
    BY <1>1
  <2> QED
    BY <1>1, <2>1 DEF Introduces
<1>3. (\E i \in DOMAIN C : ~C[i].opens /\ x = EndingAt(Introduces(C, i), C[i])) <=>
        \/ \E i \in DOMAIN B : ~B[i].opens /\ x = EndingAt(Introduces(B, i), B[i])
        \/ ~b.opens /\ x = EndingAt(Introduces(C, n + 1), b)
  <2>1. DOMAIN C = DOMAIN B \cup {n + 1}
    BY <1>1
  <2> HIDE DEF n
  <2> QED
    BY <1>1, <1>2, <2>1, Zenon
<1>4. (\E i \in 1..(Len(C) - 1) : C[i].opens /\ C[i + 1].opens /\ x = NewRange(C[i].at)) <=>
        \/ \E i \in 1..(n - 1) : B[i].opens /\ B[i + 1].opens /\ x = NewRange(B[i].at)
        \/ b.opens /\ OpenAtEnd(B, x)
  <2>1. Len(C) - 1 = n
    BY <1>1
  <2>2. CASE n = 0
    <3>1. 1..n = {} /\ 1..(n - 1) = {} /\ ~OpenAtEnd(B, x)
      BY <1>1, <2>2 DEF OpenAtEnd
    <3> QED
      BY <2>1, <3>1
  <2>3. CASE n # 0
    <3>1. /\ 1..n = (1..(n - 1)) \cup {n} /\ n \in 1..n
          /\ \A i \in 1..(n - 1) : i \in 1..n /\ i + 1 \in 1..n
      BY <1>1, <2>3
    <3>2. \A i \in 1..(n - 1) : C[i] = B[i] /\ C[i + 1] = B[i + 1]
      BY <1>1, <3>1
    <3>3. OpenAtEnd(B, x) <=> B[n].opens /\ x = NewRange(B[n].at)
      BY <1>1, <2>3 DEF OpenAtEnd
    <3>4. C[n] = B[n] /\ C[n + 1] = b
      BY <1>1, <3>1
    <3> HIDE DEF n
    <3> QED
      BY <2>1, <3>1, <3>2, <3>3, <3>4, Zenon
  <2> QED
    BY <2>2, <2>3
<1> QED
  BY <1>3, <1>4, Zenon DEF Ended, C, n

LEMMA TracksOpened ==
  ASSUME NEW acc, NEW B, Tracks(acc, B), NEW b \in BoundType, b.opens
  PROVE  Tracks(Opened(acc, b.at), Append(B, b))
<1> DEFINE C == Append(B, b)
           new == Opened(acc, b.at)
<1>1. B \in Seq(BoundType)
  BY DEF Tracks
<1>2. new.open = {NewRange(b.at)} /\ new.done = acc.done \cup acc.open /\ new = [open |-> new.open, done |-> new.done]
  BY DEF Opened
<1>3. C \in Seq(BoundType) /\ \A x : OpenAtEnd(C, x) <=> x = NewRange(b.at)
  BY <1>1, AppendShape DEF OpenAtEnd
<1>4. \A x : Ended(C, x) <=> Ended(B, x) \/ OpenAtEnd(B, x)
  BY <1>1, EndedStays
<1> HIDE DEF C, new
<1>5. \A x : x \in new.open <=> OpenAtEnd(C, x)
  BY <1>2, <1>3
<1>6. \A x : x \in new.done <=> Ended(C, x)
  BY <1>2, <1>4 DEF Tracks
<1>7. Tracks(new, C)
  BY <1>2, <1>3, <1>5, <1>6 DEF Tracks
<1> QED
  BY <1>7 DEF new, C

LEMMA TracksClosed ==
  ASSUME NEW acc, NEW B, Tracks(acc, B), NEW b \in BoundType, ~b.opens
  PROVE  Tracks(ClosedWith(acc, b), Append(B, b))
<1> DEFINE C == Append(B, b)
           new == ClosedWith(acc, b)
           from == IF acc.open = {} THEN {NewRange(Zero)} ELSE acc.open
           n == Len(B)
<1>1. B \in Seq(BoundType)
  BY DEF Tracks
<1>2. /\ n \in Nat /\ Len(C) = n + 1 /\ C[n + 1] = b /\ C \in Seq(BoundType)
      /\ (\A i \in 1..n : C[i] = B[i]) /\ (B # <<>> <=> n > 0)
  BY <1>1, AppendShape
<1>3. /\ new.open = {} /\ new.done = acc.done \cup {EndingAt(r.introduced, b) : r \in from}
      /\ new = [open |-> new.open, done |-> new.done]
  BY DEF ClosedWith
<1> HIDE DEF C
<1>4. \A x : ~OpenAtEnd(C, x)
  BY <1>2 DEF OpenAtEnd
<1>5. {EndingAt(r.introduced, b) : r \in from} = {EndingAt(Introduces(C, n + 1), b)}
  <2>1. CASE B # <<>> /\ B[n].opens
    <3>1. acc.open = {NewRange(B[n].at)}
      BY <2>1 DEF Tracks, OpenAtEnd
    <3>2. Introduces(C, n + 1) = B[n].at
      <4>1. n + 1 > 1 /\ (n + 1) - 1 = n /\ C[n] = B[n]
        BY <1>2, <2>1
      <4> QED
        BY <2>1, <4>1 DEF Introduces
    <3>3. NewRange(B[n].at).introduced = B[n].at
      BY DEF NewRange
    <3>4. from = {NewRange(B[n].at)}
      BY <3>1
    <3> HIDE DEF from
    <3> QED
      BY <3>2, <3>3, <3>4
  <2>2. CASE ~(B # <<>> /\ B[n].opens)
    <3>1. acc.open = {}
      BY <2>2 DEF Tracks, OpenAtEnd
    <3>2. Introduces(C, n + 1) = Zero
      <4>1. n + 1 > 1 => B # <<>> /\ (n + 1) - 1 = n /\ C[n] = B[n]
        BY <1>2
      <4> QED
        BY <2>2, <4>1 DEF Introduces
    <3>3. NewRange(Zero).introduced = Zero
      BY DEF NewRange
    <3>4. from = {NewRange(Zero)}
      BY <3>1
    <3> HIDE DEF from
    <3> QED
      BY <3>2, <3>3, <3>4
  <2> QED
    BY <2>1, <2>2
<1>6. \A x : Ended(C, x) <=> Ended(B, x) \/ x = EndingAt(Introduces(C, n + 1), b)
  BY <1>1, EndedStays DEF C
<1> HIDE DEF new, from, n
<1>7. \A x : x \in new.done <=> Ended(C, x)
  BY <1>3, <1>5, <1>6 DEF Tracks
<1>8. \A x : x \in new.open <=> OpenAtEnd(C, x)
  BY <1>3, <1>4
<1>9. Tracks(new, C)
  BY <1>2, <1>3, <1>7, <1>8 DEF Tracks
<1> QED
  BY <1>9 DEF new, C

(* An event draws at most one bound that opens and then one that closes.    *)
LEMMA Joined ==
  ASSUME NEW Bs, NEW B \in Seq(Bs), NEW a \in Bs, NEW b \in Bs
  PROVE  /\ B \o (<<>> \o <<>>) = B
         /\ B \o (<<>> \o <<b>>) = Append(B, b)
         /\ B \o (<<a>> \o <<>>) = Append(B, a)
         /\ B \o (<<a>> \o <<b>>) = Append(Append(B, a), b)
<1>1. <<>> \in Seq(Bs) /\ <<a>> \in Seq(Bs) /\ <<b>> \in Seq(Bs)
  OBVIOUS
<1>2. \A s \in Seq(Bs) : <<>> \o s = s /\ s \o <<>> = s
  BY ConcatEmptySeq
<1>3. \A s \in Seq(Bs), x \in Bs : s \o <<x>> = Append(s, x)
  BY AppendIsConcat
<1>4. B \o (<<a>> \o <<b>>) = (B \o <<a>>) \o <<b>>
  BY <1>1, ConcatAssociative
<1>5. Append(B, a) \in Seq(Bs)
  OBVIOUS
<1> QED
  BY <1>1, <1>2, <1>3, <1>4, <1>5

Opening(e) == [opens |-> TRUE, at |-> e.introduced, itself |-> TRUE]
Closing(e) ==
  IF e.fixed # NoText THEN [opens |-> FALSE, at |-> e.fixed, itself |-> TRUE]
  ELSE [opens |-> FALSE, at |-> e.last, itself |-> FALSE]
Opens(e) == e.introduced # NoText
Closes(e) == e.fixed # NoText \/ e.last # NoText

LEMMA EventBounds ==
  ASSUME NEW e \in RangeEvents
  PROVE  /\ Opens(e) => Opening(e) \in BoundType /\ Opening(e).opens /\ Opening(e).at = e.introduced
         /\ Closes(e) => Closing(e) \in BoundType /\ ~Closing(e).opens
         /\ Drawn(e) = (IF Opens(e) THEN <<Opening(e)>> ELSE <<>>) \o (IF Closes(e) THEN <<Closing(e)>> ELSE <<>>)
<1>1. e.introduced \in Texts /\ e.fixed \in Texts /\ e.last \in Texts
  BY DEF RangeEvents
<1>2. Opens(e) => Opening(e) \in BoundType /\ Opening(e).opens /\ Opening(e).at = e.introduced
  BY <1>1 DEF Opens, Opening, BoundType
<1>3. Closes(e) => Closing(e) \in BoundType /\ ~Closing(e).opens
  BY <1>1 DEF Closes, Closing, BoundType
<1>4. (IF e.introduced = NoText THEN <<>> ELSE Bound(TRUE, e.introduced, TRUE)) = IF Opens(e) THEN <<Opening(e)>> ELSE <<>>
  BY DEF Opens, Opening, Bound
<1>5. (IF e.fixed # NoText THEN Bound(FALSE, e.fixed, TRUE)
       ELSE IF e.last # NoText THEN Bound(FALSE, e.last, FALSE) ELSE <<>>)
        = IF Closes(e) THEN <<Closing(e)>> ELSE <<>>
  BY DEF Closes, Closing, Bound
<1>6. Drawn(e) = (IF Opens(e) THEN <<Opening(e)>> ELSE <<>>) \o (IF Closes(e) THEN <<Closing(e)>> ELSE <<>>)
  BY <1>4, <1>5, Zenon DEF Drawn
<1> QED
  BY <1>2, <1>3, <1>6

LEMMA ClosedIsEnding ==
  ASSUME NEW e \in RangeEvents, Closes(e), NEW intro
  PROVE  Closed(NewRange(intro), e) = EndingAt(NewRange(intro).introduced, Closing(e))
<1>1. e.introduced \in Texts /\ e.fixed \in Texts /\ e.last \in Texts
  BY DEF RangeEvents
<1>2. CASE e.fixed # NoText
  <2>1. Closed(NewRange(intro), e) = [introduced |-> intro, fixed |-> e.fixed, last |-> NoText]
    BY <1>2 DEF Closed, NewRange
  <2>2. Closing(e).itself = TRUE /\ Closing(e).at = e.fixed
    BY <1>2 DEF Closing
  <2> QED
    BY <2>1, <2>2 DEF EndingAt, NewRange
<1>3. CASE e.fixed = NoText
  <2>1. Closed(NewRange(intro), e) = [introduced |-> intro, fixed |-> NoText, last |-> e.last]
    BY <1>3 DEF Closed, NewRange
  <2>2. Closing(e).itself = FALSE /\ Closing(e).at = e.last
    BY <1>3 DEF Closing
  <2> QED
    BY <2>1, <2>2 DEF EndingAt, NewRange
<1> QED
  BY <1>2, <1>3

LEMMA TracksEvent ==
  ASSUME NEW acc, NEW B, Tracks(acc, B), NEW e \in RangeEvents
  PROVE  Tracks(ReadEvent(acc, e), B \o Drawn(e))
<1> DEFINE opened == IF Opens(e) THEN Opened(acc, e.introduced) ELSE acc
           B1 == IF Opens(e) THEN Append(B, Opening(e)) ELSE B
<1>1. /\ Opens(e) => Opening(e) \in BoundType /\ Opening(e).opens /\ Opening(e).at = e.introduced
      /\ Closes(e) => Closing(e) \in BoundType /\ ~Closing(e).opens
      /\ Drawn(e) = (IF Opens(e) THEN <<Opening(e)>> ELSE <<>>) \o (IF Closes(e) THEN <<Closing(e)>> ELSE <<>>)
  BY EventBounds
<1>2. Tracks(opened, B1)
  <2>1. CASE Opens(e)
    BY <1>1, <2>1, TracksOpened
  <2>2. CASE ~Opens(e)
    BY <2>2
  <2> QED
    BY <2>1, <2>2
<1>3. B \o Drawn(e) = IF Closes(e) THEN Append(B1, Closing(e)) ELSE B1
  <2>1. B \in Seq(BoundType)
    BY DEF Tracks
  <2>2. CASE Opens(e) /\ Closes(e)
    <3>1. B \o (<<Opening(e)>> \o <<Closing(e)>>) = Append(Append(B, Opening(e)), Closing(e))
      BY <1>1, <2>1, <2>2, Joined
    <3>2. Drawn(e) = <<Opening(e)>> \o <<Closing(e)>>
      BY <1>1, <2>2
    <3> QED
      BY <2>2, <3>1, <3>2
  <2>3. CASE Opens(e) /\ ~Closes(e)
    <3>1. B \o (<<Opening(e)>> \o <<>>) = Append(B, Opening(e))
      BY <1>1, <2>1, <2>3, Joined
    <3>2. Drawn(e) = <<Opening(e)>> \o <<>>
      BY <1>1, <2>3
    <3> QED
      BY <2>3, <3>1, <3>2
  <2>4. CASE ~Opens(e) /\ Closes(e)
    <3>1. B \o (<<>> \o <<Closing(e)>>) = Append(B, Closing(e))
      BY <1>1, <2>1, <2>4, Joined
    <3>2. Drawn(e) = <<>> \o <<Closing(e)>>
      BY <1>1, <2>4
    <3> QED
      BY <2>4, <3>1, <3>2
  <2>5. CASE ~Opens(e) /\ ~Closes(e)
    <3>1. Drawn(e) = <<>> \o <<>>
      BY <1>1, <2>5
    <3>2. B \o (<<>> \o <<>>) = B
      BY <2>1
    <3> QED
      BY <2>5, <3>1, <3>2
  <2> QED
    BY <2>2, <2>3, <2>4, <2>5
<1>4. ReadEvent(acc, e) =
        IF ~Closes(e) THEN opened
        ELSE [open |-> {},
              done |-> opened.done \cup {Closed(r, e) : r \in IF opened.open = {} THEN {NewRange(Zero)} ELSE opened.open}]
  BY Zenon DEF ReadEvent, Opens, Closes, Opened
<1>5. \A r \in opened.open : \E intro : r = NewRange(intro)
  BY <1>2 DEF Tracks, OpenAtEnd
<1> HIDE DEF opened, B1
<1>6. ASSUME Closes(e) PROVE ReadEvent(acc, e) = ClosedWith(opened, Closing(e))
  <2> DEFINE from == IF opened.open = {} THEN {NewRange(Zero)} ELSE opened.open
  <2>1. \A r \in from : Closed(r, e) = EndingAt(r.introduced, Closing(e))
    <3> SUFFICES ASSUME NEW r \in from PROVE Closed(r, e) = EndingAt(r.introduced, Closing(e))
      OBVIOUS
    <3>1. PICK intro : r = NewRange(intro)
      BY <1>5
    <3> QED
      BY <1>6, <3>1, ClosedIsEnding
  <2>2. ReadEvent(acc, e) = [open |-> {}, done |-> opened.done \cup {Closed(r, e) : r \in from}]
    BY <1>4, <1>6
  <2>3. ClosedWith(opened, Closing(e)) = [open |-> {}, done |-> opened.done \cup {EndingAt(r.introduced, Closing(e)) : r \in from}]
    BY DEF ClosedWith
  <2> HIDE DEF from
  <2>4. {Closed(r, e) : r \in from} = {EndingAt(r.introduced, Closing(e)) : r \in from}
    BY <2>1
  <2> QED
    BY <2>2, <2>3, <2>4
<1>7. CASE Closes(e)
  <2>1. Tracks(ClosedWith(opened, Closing(e)), Append(B1, Closing(e)))
    BY <1>1, <1>2, <1>7, TracksClosed
  <2> QED
    BY <1>3, <1>6, <1>7, <2>1
<1>8. CASE ~Closes(e)
  BY <1>2, <1>3, <1>4, <1>8
<1> QED
  BY <1>7, <1>8

(* The ranges of a list of events.                                          *)
LEMMA FlattenedIs ==
  ASSUME NEW events \in Seq(RangeEvents)
  PROVE  /\ Bounds(events) \in Seq(BoundType)
         /\ \A x : x \in Flattened(events) <=> Ended(Bounds(events), x) \/ OpenAtEnd(Bounds(events), x)
<1> DEFINE len == Len(events)
<1>1. len \in Nat /\ \A n \in 0..(len - 1) : n + 1 \in DOMAIN events /\ events[n + 1] \in RangeEvents
  OBVIOUS
<1>2. PICK read : ReadOf(read, events, len) /\ ReadEvents(events) = read[len]
  BY <1>1, ReadIs
<1>3. PICK line : LineOf(line, events, len) /\ Bounds(events) = line[len]
  BY <1>1, LineIs
<1> HIDE DEF len
<1>4. \A n \in 0..len : read[n] = IF n = 0 THEN NothingRead ELSE ReadEvent(read[n - 1], events[n])
  BY <1>2 DEF ReadOf
<1>5. \A n \in 0..len : line[n] = IF n = 0 THEN <<>> ELSE line[n - 1] \o Drawn(events[n])
  BY <1>3 DEF LineOf
<1> DEFINE A == {n \in 0..len : Tracks(read[n], line[n])}
<1>6. 0 \in A
  <2>1. 0 \in 0..len /\ read[0] = NothingRead /\ line[0] = <<>>
    BY <1>1, <1>4, <1>5
  <2>2. Tracks(NothingRead, <<>>)
    <3>1. <<>> \in Seq(BoundType) /\ Len(<<>>) = 0 /\ DOMAIN <<>> = {} /\ 1..(Len(<<>>) - 1) = {}
      OBVIOUS
    <3> QED
      BY <3>1, Zenon DEF Tracks, NothingRead, Ended, OpenAtEnd
  <2> QED
    BY <2>1, <2>2
<1>7. ASSUME NEW n \in 0..(len - 1), n \in A PROVE n + 1 \in A
  <2>1. n + 1 \in 0..len /\ n + 1 # 0 /\ (n + 1) - 1 = n
    BY <1>1
  <2>2. read[n + 1] = ReadEvent(read[n], events[n + 1]) /\ line[n + 1] = line[n] \o Drawn(events[n + 1])
    BY <1>4, <1>5, <2>1
  <2>3. Tracks(ReadEvent(read[n], events[n + 1]), line[n] \o Drawn(events[n + 1]))
    <3>1. Tracks(read[n], line[n]) /\ events[n + 1] \in RangeEvents
      BY <1>1, <1>7
    <3> QED
      BY <3>1, TracksEvent
  <2>4. Tracks(read[n + 1], line[n + 1])
    BY <2>2, <2>3
  <2> QED
    BY <2>1, <2>4
<1> HIDE DEF A
<1>8. \A n \in 0..len : n \in A
  BY <1>1, <1>6, <1>7, Throughout
<1>9. len \in A
  BY <1>1, <1>8
<1>10. Tracks(ReadEvents(events), Bounds(events))
  BY <1>2, <1>3, <1>9 DEF A
<1> QED
  BY <1>10 DEF Tracks, Flattened

-----------------------------------------------------------------------------
(* A version against the ranges of a line.                                  *)

LEMMA InEnded ==
  ASSUME NEW v \in Texts, v.ok, NEW intro \in Texts \ {NoText}, NEW b \in BoundType
  PROVE  inRange(EndingAt(intro, b), v) <=>
           /\ IF b.itself THEN Below(v, b.at) ELSE Ordered(v, b.at) /\ ~Below(b.at, v)
           /\ Ordered(v, intro) => ~Below(v, intro)
<1> DEFINE x == EndingAt(intro, b)
<1>1. b.at # NoText /\ b.itself \in BOOLEAN
  BY DEF BoundType
<1>2. CASE b.itself
  <2>1. x.introduced = intro /\ x.fixed = b.at /\ x.last = NoText
    BY <1>2 DEF EndingAt
  <2> HIDE DEF x
  <2> QED
    BY <1>1, <1>2, <2>1, Zenon DEF inRange, x
<1>3. CASE ~b.itself
  <2>1. x.introduced = intro /\ x.fixed = NoText /\ x.last = b.at
    BY <1>3 DEF EndingAt
  <2> HIDE DEF x
  <2> QED
    BY <1>1, <1>3, <2>1, Zenon DEF inRange, x
<1> QED
  BY <1>2, <1>3

LEMMA InUnended ==
  ASSUME NEW v \in Texts, v.ok, NEW intro \in Texts \ {NoText}
  PROVE  inRange(NewRange(intro), v) <=> Ordered(v, intro) /\ ~Below(v, intro)
<1> DEFINE x == NewRange(intro)
<1>1. x.introduced = intro /\ x.fixed = NoText /\ x.last = NoText
  BY DEF NewRange
<1> HIDE DEF x
<1> QED
  BY <1>1, Zenon DEF inRange, x

LEMMA ZeroIsText == Zero \in Texts \ {NoText} /\ Zero.ok /\ Zero.at = 0
<1>1. Zero.ok = TRUE /\ NoText.ok = FALSE
  BY DEF Zero, NoText
<1>2. Zero # NoText
  BY <1>1
<1> QED
  BY <1>2 DEF Zero, Texts

LEMMA BoundShape ==
  ASSUME NEW B \in Seq(BoundType)
  PROVE  /\ Len(B) \in Nat /\ DOMAIN B = 1..Len(B) /\ (B # <<>> <=> Len(B) > 0)
         /\ \A i \in DOMAIN B : /\ i \in Nat /\ B[i] \in BoundType /\ B[i].at \in Texts \ {NoText}
                                /\ B[i].opens \in BOOLEAN /\ Introduces(B, i) \in Texts \ {NoText}
<1>1. Len(B) \in Nat /\ DOMAIN B = 1..Len(B) /\ (B # <<>> <=> Len(B) > 0)
  OBVIOUS
<1>2. \A i \in DOMAIN B : B[i] \in BoundType
  OBVIOUS
<1>3. \A i \in DOMAIN B : i \in Nat /\ B[i].at \in Texts \ {NoText} /\ B[i].opens \in BOOLEAN
  BY <1>1, <1>2 DEF BoundType
<1>4. ASSUME NEW i \in DOMAIN B PROVE Introduces(B, i) \in Texts \ {NoText}
  <2>1. CASE i > 1 /\ B[i - 1].opens
    <3>1. i - 1 \in DOMAIN B
      BY <1>1, <2>1
    <3> QED
      BY <1>3, <2>1, <3>1 DEF Introduces
  <2>2. CASE ~(i > 1 /\ B[i - 1].opens)
    BY <2>2, ZeroIsText DEF Introduces
  <2> QED
    BY <2>1, <2>2
<1> QED
  BY <1>1, <1>2, <1>3, <1>4

(* What the two kinds of ranges a line yields say of v.                     *)
LEMMA Yields ==
  ASSUME NEW events \in Seq(RangeEvents), NEW v \in Texts, v.ok
  PROVE  LET B == Bounds(events)
         IN (\E x \in Flattened(events) : inRange(x, v)) <=>
              \/ \E i \in DOMAIN B :
                   /\ ~B[i].opens
                   /\ IF B[i].itself THEN Below(v, B[i].at) ELSE Ordered(v, B[i].at) /\ ~Below(B[i].at, v)
                   /\ Ordered(v, Introduces(B, i)) => ~Below(v, Introduces(B, i))
              \/ \E i \in DOMAIN B :
                   /\ B[i].opens /\ (i = Len(B) \/ B[i + 1].opens)
                   /\ Ordered(v, B[i].at) /\ ~Below(v, B[i].at)
<1> DEFINE B == Bounds(events)
           EndsIn(i) == /\ ~B[i].opens
                        /\ IF B[i].itself THEN Below(v, B[i].at) ELSE Ordered(v, B[i].at) /\ ~Below(B[i].at, v)
                        /\ Ordered(v, Introduces(B, i)) => ~Below(v, Introduces(B, i))
           OpenIn(i) == /\ B[i].opens /\ (i = Len(B) \/ B[i + 1].opens)
                        /\ Ordered(v, B[i].at) /\ ~Below(v, B[i].at)
<1>1. B \in Seq(BoundType) /\ \A x : x \in Flattened(events) <=> Ended(B, x) \/ OpenAtEnd(B, x)
  BY FlattenedIs
<1> HIDE DEF B
<1>2. /\ Len(B) \in Nat /\ DOMAIN B = 1..Len(B) /\ (B # <<>> <=> Len(B) > 0)
      /\ \A i \in DOMAIN B : B[i] \in BoundType /\ B[i].at \in Texts \ {NoText} /\ Introduces(B, i) \in Texts \ {NoText}
  BY <1>1, BoundShape
<1>3. \A i \in DOMAIN B : ~B[i].opens => (inRange(EndingAt(Introduces(B, i), B[i]), v) <=> EndsIn(i))
  <2> SUFFICES ASSUME NEW i \in DOMAIN B, ~B[i].opens
               PROVE  inRange(EndingAt(Introduces(B, i), B[i]), v) <=> EndsIn(i)
    OBVIOUS
  <2>1. B[i] \in BoundType /\ Introduces(B, i) \in Texts \ {NoText}
    BY <1>2
  <2> QED
    BY <2>1, InEnded
<1>4. \A i \in DOMAIN B : inRange(NewRange(B[i].at), v) <=> Ordered(v, B[i].at) /\ ~Below(v, B[i].at)
  BY <1>2, InUnended
<1>5. (\E x : (\E i \in DOMAIN B : ~B[i].opens /\ x = EndingAt(Introduces(B, i), B[i])) /\ inRange(x, v)) <=>
        \E i \in DOMAIN B : EndsIn(i)
  <2>1. \A i \in DOMAIN B : EndsIn(i) => ~B[i].opens
    OBVIOUS
  <2> HIDE DEF EndsIn
  <2> QED
    BY <1>3, <2>1, Zenon
<1>6. (\E x : ((\E i \in 1..(Len(B) - 1) : B[i].opens /\ B[i + 1].opens /\ x = NewRange(B[i].at)) \/ OpenAtEnd(B, x)) /\ inRange(x, v)) <=>
        \E i \in DOMAIN B : OpenIn(i)
  <2>1. ASSUME NEW i \in 1..(Len(B) - 1), B[i].opens, B[i + 1].opens, inRange(NewRange(B[i].at), v)
        PROVE  \E j \in DOMAIN B : OpenIn(j)
    <3>1. i \in DOMAIN B
      BY <1>2
    <3> QED
      BY <1>4, <2>1, <3>1
  <2>2. ASSUME NEW x, OpenAtEnd(B, x), inRange(x, v)
        PROVE  \E j \in DOMAIN B : OpenIn(j)
    <3>1. Len(B) \in DOMAIN B /\ B[Len(B)].opens /\ x = NewRange(B[Len(B)].at)
      BY <1>2, <2>2 DEF OpenAtEnd
    <3> QED
      BY <1>4, <2>2, <3>1
  <2>3. ASSUME NEW i \in DOMAIN B, OpenIn(i)
        PROVE  /\ inRange(NewRange(B[i].at), v)
               /\ OpenAtEnd(B, NewRange(B[i].at)) \/ (i \in 1..(Len(B) - 1) /\ B[i].opens /\ B[i + 1].opens)
    <3>1. inRange(NewRange(B[i].at), v)
      BY <1>4, <2>3
    <3>2. CASE i = Len(B)
      <4>1. B # <<>>
        BY <1>2, <3>2
      <4> QED
        BY <2>3, <3>1, <3>2, <4>1 DEF OpenAtEnd
    <3>3. CASE i # Len(B)
      <4>1. i \in 1..(Len(B) - 1)
        BY <1>2, <3>3
      <4> QED
        BY <2>3, <3>1, <3>3, <4>1
    <3> QED
      BY <3>2, <3>3
  <2> HIDE DEF OpenIn
  <2> QED
    BY <2>1, <2>2, <2>3
<1>7. (\E x \in Flattened(events) : inRange(x, v)) <=> (\E i \in DOMAIN B : EndsIn(i)) \/ (\E i \in DOMAIN B : OpenIn(i))
  <2> HIDE DEF EndsIn, OpenIn
  <2>1. (\E x \in Flattened(events) : inRange(x, v)) <=> \E x : (Ended(B, x) \/ OpenAtEnd(B, x)) /\ inRange(x, v)
    BY <1>1
  <2> QED
    BY <1>5, <1>6, <2>1, Zenon DEF Ended
<1> QED
  BY <1>7 DEF B

Reached(B, v) == {i \in DOMAIN B : Below(B[i].at, v) \/ (B[i].itself /\ B[i].at = v)}

(* Read as the schema says, where every bound can be ordered.               *)
LEMMA InsideAsRead ==
  ASSUME NEW events \in Seq(RangeEvents), NEW v \in Texts, v.ok, v.at >= 0,
         Paired(Bounds(events)), \A i \in DOMAIN Bounds(events) : Bounds(events)[i].at.ok
  PROVE  (\E x \in Flattened(events) : inRange(x, v)) <=> Inside(Bounds(events), v)
<1> DEFINE B == Bounds(events)
<1>1. B \in Seq(BoundType)
  BY FlattenedIs
<1>2. /\ Len(B) \in Nat /\ DOMAIN B = 1..Len(B) /\ (B # <<>> <=> Len(B) > 0)
      /\ \A i \in DOMAIN B : /\ i \in Nat /\ B[i] \in BoundType /\ B[i].at \in Texts \ {NoText}
                             /\ B[i].opens \in BOOLEAN /\ Introduces(B, i) \in Texts \ {NoText}
  BY <1>1, BoundShape
<1>3. /\ \A i \in 1..(Len(B) - 1) : B[i].opens # B[i + 1].opens
      /\ \A i, j \in DOMAIN B : i < j => B[i].at.at < B[j].at.at
      /\ \A i \in DOMAIN B : B[i].at.ok
  BY DEF Paired, Ordered, Below
<1>4. v.at \in Int /\ \A i \in DOMAIN B : B[i].at.at \in Int /\ (B[i].opens => B[i].itself)
  BY <1>2 DEF Texts, BoundType
<1> DEFINE Re == Reached(B, v)
           place(i) == B[i].at.at
<1> HIDE DEF B
<1>5. \A i \in DOMAIN B : i \in Re <=> place(i) < v.at \/ (B[i].itself /\ place(i) = v.at)
  <2> SUFFICES ASSUME NEW i \in DOMAIN B PROVE i \in Re <=> place(i) < v.at \/ (B[i].itself /\ place(i) = v.at)
    OBVIOUS
  <2>1. B[i].at \in Texts /\ B[i].at.ok
    BY <1>2, <1>3
  <2>2. B[i].at = v <=> place(i) = v.at
    BY <2>1 DEF Texts
  <2>3. Below(B[i].at, v) <=> place(i) < v.at
    BY <2>1 DEF Below
  <2> QED
    BY <2>2, <2>3 DEF Reached
<1>6. \A i, j \in DOMAIN B : i < j /\ i \notin Re => j \notin Re
  BY <1>3, <1>4, <1>5
<1>7. \A i \in DOMAIN B : ~B[i].opens =>
        ((IF B[i].itself THEN Below(v, B[i].at) ELSE Ordered(v, B[i].at) /\ ~Below(B[i].at, v)) <=> i \notin Re)
  <2> SUFFICES ASSUME NEW i \in DOMAIN B
               PROVE  (IF B[i].itself THEN Below(v, B[i].at) ELSE Ordered(v, B[i].at) /\ ~Below(B[i].at, v)) <=> i \notin Re
    OBVIOUS
  <2>1. (Below(v, B[i].at) <=> v.at < place(i)) /\ (Below(B[i].at, v) <=> place(i) < v.at) /\ Ordered(v, B[i].at)
    BY <1>3 DEF Below, Ordered
  <2> HIDE DEF Re
  <2> QED
    BY <1>4, <1>5, <2>1
<1>8. \A i \in DOMAIN B : B[i].opens => (Ordered(v, B[i].at) /\ ~Below(v, B[i].at) <=> i \in Re)
  <2> SUFFICES ASSUME NEW i \in DOMAIN B, B[i].opens
               PROVE  Ordered(v, B[i].at) /\ ~Below(v, B[i].at) <=> i \in Re
    OBVIOUS
  <2>1. (Below(v, B[i].at) <=> v.at < place(i)) /\ Ordered(v, B[i].at)
    BY <1>3 DEF Below, Ordered
  <2> HIDE DEF Re
  <2> QED
    BY <1>4, <1>5, <2>1
<1> DEFINE EndsIn(i) == /\ ~B[i].opens
                        /\ IF B[i].itself THEN Below(v, B[i].at) ELSE Ordered(v, B[i].at) /\ ~Below(B[i].at, v)
                        /\ Ordered(v, Introduces(B, i)) => ~Below(v, Introduces(B, i))
           OpenIn(i) == /\ B[i].opens /\ (i = Len(B) \/ B[i + 1].opens)
                        /\ Ordered(v, B[i].at) /\ ~Below(v, B[i].at)
<1>9. (\E x \in Flattened(events) : inRange(x, v)) <=> (\E i \in DOMAIN B : EndsIn(i)) \/ (\E i \in DOMAIN B : OpenIn(i))
  BY Yields DEF B
<1>10. ASSUME NEW i \in DOMAIN B, EndsIn(i) PROVE Inside(B, v)
  <2>1. ~B[i].opens /\ i \notin Re
    BY <1>7, <1>10
  <2>2. \A j \in DOMAIN B : i <= j => j \notin Re
    BY <1>2, <1>6, <2>1
  <2>3. CASE i = 1
    <3>1. Re = {}
      BY <1>2, <2>2, <2>3 DEF Reached
    <3>2. B # <<>> /\ ~B[1].opens
      BY <1>2, <2>1, <2>3
    <3> QED
      BY <3>1, <3>2 DEF Inside, Reached
  <2>4. CASE i # 1
    <3>1. i - 1 \in DOMAIN B /\ i - 1 \in 1..(Len(B) - 1) /\ (i - 1) + 1 = i /\ i > 1
      BY <1>2, <2>4
    <3>2. B[i - 1].opens
      BY <1>2, <1>3, <2>1, <3>1
    <3>3. Introduces(B, i) = B[i - 1].at
      BY <3>1, <3>2 DEF Introduces
    <3>4. i - 1 \in Re
      <4>1. Ordered(v, B[i - 1].at)
        BY <1>3, <3>1 DEF Ordered
      <4>2. ~Below(v, B[i - 1].at)
        BY <1>10, <3>3, <4>1
      <4> QED
        BY <1>8, <3>1, <3>2, <4>1, <4>2
    <3>5. \A j \in Re : j <= i - 1
      <4>1. \A j \in Re : j \in DOMAIN B /\ j \in Nat
        BY <1>2 DEF Reached
      <4>2. \A j \in Re : ~(i <= j)
        BY <2>2, <4>1
      <4> HIDE DEF Re
      <4> QED
        BY <1>2, <4>1, <4>2
    <3> QED
      BY <3>2, <3>4, <3>5 DEF Inside, Reached
  <2> QED
    BY <2>3, <2>4
<1>11. ASSUME NEW i \in DOMAIN B, OpenIn(i) PROVE Inside(B, v)
  <2>1. B[i].opens /\ i \in Re
    BY <1>8, <1>11
  <2>2. i = Len(B)
    <3>1. ASSUME i # Len(B) PROVE FALSE
      <4>1. i \in 1..(Len(B) - 1)
        BY <1>2, <3>1
      <4>2. B[i + 1].opens
        BY <1>11, <3>1
      <4>3. i + 1 \in DOMAIN B
        BY <1>2, <4>1
      <4> QED
        BY <1>2, <1>3, <2>1, <4>1, <4>2, <4>3
    <3> QED
      BY <3>1
  <2>3. \A j \in Re : j <= i
    BY <1>2, <2>2 DEF Reached
  <2> QED
    BY <2>1, <2>3 DEF Inside, Reached
<1>12. ASSUME Inside(B, v) PROVE (\E i \in DOMAIN B : EndsIn(i)) \/ (\E i \in DOMAIN B : OpenIn(i))
  <2>1. CASE Re = {}
    <3>1. B # <<>> /\ ~B[1].opens /\ 1 \in DOMAIN B
      BY <1>2, <1>12, <2>1 DEF Inside, Reached
    <3>2. Introduces(B, 1) = Zero
      BY DEF Introduces
    <3>3. ~Below(v, Zero)
      BY <1>4, ZeroIsText DEF Below
    <3>4. IF B[1].itself THEN Below(v, B[1].at) ELSE Ordered(v, B[1].at) /\ ~Below(B[1].at, v)
      BY <1>7, <2>1, <3>1
    <3>5. EndsIn(1)
      BY <3>1, <3>2, <3>3, <3>4
    <3> HIDE DEF EndsIn
    <3> QED
      BY <3>1, <3>5
  <2>2. CASE Re # {}
    <3>1. PICK i \in Re : B[i].opens /\ \A j \in Re : j <= i
      BY <1>12, <2>2 DEF Inside, Reached
    <3>2. i \in DOMAIN B
      BY DEF Reached
    <3>3. Ordered(v, B[i].at) /\ ~Below(v, B[i].at)
      BY <1>8, <3>1, <3>2
    <3>4. CASE i = Len(B)
      <4>1. OpenIn(i)
        BY <3>1, <3>3, <3>4
      <4> HIDE DEF OpenIn
      <4> QED
        BY <3>2, <4>1
    <3>5. CASE i # Len(B)
      <4>1. i \in 1..(Len(B) - 1) /\ i + 1 \in DOMAIN B /\ i + 1 > 1 /\ (i + 1) - 1 = i /\ ~(i + 1 <= i)
        BY <1>2, <3>2, <3>5
      <4>2. ~B[i + 1].opens
        BY <1>2, <1>3, <3>1, <3>2, <4>1
      <4>3. i + 1 \notin Re
        BY <3>1, <4>1
      <4>4. Introduces(B, i + 1) = B[i].at
        BY <3>1, <4>1 DEF Introduces
      <4>5. IF B[i + 1].itself THEN Below(v, B[i + 1].at) ELSE Ordered(v, B[i + 1].at) /\ ~Below(B[i + 1].at, v)
        BY <1>7, <4>1, <4>2, <4>3
      <4>6. EndsIn(i + 1)
        BY <3>3, <4>2, <4>4, <4>5
      <4> HIDE DEF EndsIn
      <4> QED
        BY <4>1, <4>6
    <3> QED
      BY <3>4, <3>5
  <2> QED
    BY <2>1, <2>2
<1> HIDE DEF EndsIn, OpenIn
<1>13. (\E x \in Flattened(events) : inRange(x, v)) <=> Inside(B, v)
  BY <1>9, <1>10, <1>11, <1>12
<1> QED
  BY <1>13 DEF B

(* Where some cannot: past all that a closed line says, nothing is claimed. *)
LEMMA ClosedLineEnds ==
  ASSUME NEW events \in Seq(RangeEvents), NEW v \in Texts, v.ok,
         Paired(Bounds(events)), Bounds(events) # <<>>, ~Bounds(events)[Len(Bounds(events))].opens,
         \A i \in DOMAIN Bounds(events) : Bounds(events)[i].at.ok => Below(Bounds(events)[i].at, v)
  PROVE  ~\E x \in Flattened(events) : inRange(x, v)
<1> DEFINE B == Bounds(events)
<1>1. B \in Seq(BoundType)
  BY FlattenedIs
<1>2. /\ Len(B) \in Nat /\ DOMAIN B = 1..Len(B)
      /\ \A i \in DOMAIN B : i \in Nat /\ B[i].at \in Texts /\ B[i].opens \in BOOLEAN
  BY <1>1, BoundShape
<1>3. ASSUME NEW i \in DOMAIN B, ~B[i].opens,
             IF B[i].itself THEN Below(v, B[i].at) ELSE Ordered(v, B[i].at) /\ ~Below(B[i].at, v)
      PROVE  FALSE
  <2>1. CASE B[i].at.ok
    <3>1. Below(B[i].at, v)
      BY <2>1
    <3>2. ~Below(v, B[i].at)
      <4>1. v.at \in Int /\ B[i].at.at \in Int
        BY <1>2 DEF Texts
      <4> QED
        BY <3>1, <4>1 DEF Below
    <3> QED
      BY <1>3, <3>1, <3>2
  <2>2. CASE ~B[i].at.ok
    BY <1>3, <2>2 DEF Below, Ordered
  <2> QED
    BY <2>1, <2>2
<1>4. ASSUME NEW i \in DOMAIN B, B[i].opens, i = Len(B) \/ B[i + 1].opens
      PROVE  FALSE
  <2>1. i # Len(B)
    BY <1>4
  <2>2. i \in 1..(Len(B) - 1) /\ i + 1 \in DOMAIN B
    BY <1>2, <2>1
  <2>3. B[i].opens # B[i + 1].opens
    BY <2>2 DEF Paired
  <2> QED
    BY <1>2, <1>4, <2>1, <2>2, <2>3
<1> HIDE DEF B
<1>5. (\E x \in Flattened(events) : inRange(x, v)) <=>
        \/ \E i \in DOMAIN B :
             /\ ~B[i].opens
             /\ IF B[i].itself THEN Below(v, B[i].at) ELSE Ordered(v, B[i].at) /\ ~Below(B[i].at, v)
             /\ Ordered(v, Introduces(B, i)) => ~Below(v, Introduces(B, i))
        \/ \E i \in DOMAIN B :
             /\ B[i].opens /\ (i = Len(B) \/ B[i + 1].opens)
             /\ Ordered(v, B[i].at) /\ ~Below(v, B[i].at)
  BY Yields DEF B
<1> QED
  BY <1>3, <1>4, <1>5

(* And a fix above the version claims it, whatever the range begins with.   *)
LEMMA FixClaims ==
  ASSUME NEW events \in Seq(RangeEvents), NEW v \in Texts, v.ok, NEW i \in 2..Len(Bounds(events)),
         Bounds(events)[i - 1].opens, ~Bounds(events)[i - 1].at.ok, ~Bounds(events)[i].opens,
         Below(v, Bounds(events)[i].at)
  PROVE  \E x \in Flattened(events) : inRange(x, v)
<1> DEFINE B == Bounds(events)
<1>1. B \in Seq(BoundType)
  BY FlattenedIs
<1>2. /\ Len(B) \in Nat /\ DOMAIN B = 1..Len(B) /\ i \in DOMAIN B /\ i > 1 /\ B[i].at \in Texts
  <2>1. /\ Len(B) \in Nat /\ DOMAIN B = 1..Len(B)
        /\ \A j \in DOMAIN B : B[j].at \in Texts
    BY <1>1, BoundShape
  <2> QED
    BY <2>1
<1>3. Introduces(B, i) = B[i - 1].at
  BY <1>2 DEF Introduces
<1>4. ~Ordered(v, Introduces(B, i))
  BY <1>3 DEF Ordered
<1>5. Ordered(v, B[i].at) /\ ~Below(B[i].at, v)
  <2>1. v.at \in Int /\ B[i].at.at \in Int
    BY <1>2 DEF Texts
  <2> QED
    BY <2>1 DEF Below, Ordered
<1>6. ~B[i].opens /\ Below(v, B[i].at)
  OBVIOUS
<1> HIDE DEF B
<1>7. \E j \in DOMAIN B :
        /\ ~B[j].opens
        /\ IF B[j].itself THEN Below(v, B[j].at) ELSE Ordered(v, B[j].at) /\ ~Below(B[j].at, v)
        /\ Ordered(v, Introduces(B, j)) => ~Below(v, Introduces(B, j))
  BY <1>2, <1>4, <1>5, <1>6
<1> QED
  BY <1>7, Yields DEF B

-----------------------------------------------------------------------------
(* The records of the first n members of an archive.                        *)

About(b) == b.ecosystem /\ b.named

Tells(members, n, id, b) ==
  \E i \in 1..n : members[i].usable /\ members[i].id = id /\ b \in members[i].affected /\ About(b)

FirstOf(members, n, id, i) ==
  /\ i \in 1..n /\ members[i].id = id /\ Names(members[i])
  /\ \A j \in 1..(i - 1) : ~(members[j].id = id /\ Names(members[j]))

KeptRecord(rec, members, n, id) ==
  /\ rec = [withdrawn |-> rec.withdrawn, ranges |-> rec.ranges, versions |-> rec.versions]
  /\ \E i : FirstOf(members, n, id, i) /\ rec.withdrawn = members[i].withdrawn
  /\ \A x : x \in rec.ranges <=>
       \E b, r : Tells(members, n, id, b) /\ r \in b.ranges /\ r.type # "GIT" /\ x \in Flattened(r.events)
  /\ \A w : w \in rec.versions <=> w # NoText /\ \E b : Tells(members, n, id, b) /\ w \in b.versions

RecordsInv(records, members, n) ==
  /\ records = [id \in DOMAIN records |-> records[id]]
  /\ \A id : id \in DOMAIN records <=> \E i \in 1..n : members[i].id = id /\ Names(members[i])
  /\ \A id \in DOMAIN records : KeptRecord(records[id], members, n, id)

LEMMA FlattenRangesIs ==
  ASSUME NEW ranges, NEW x
  PROVE  x \in flattenRanges(ranges) <=> \E r \in ranges : r.type # "GIT" /\ x \in Flattened(r.events)
  BY DEF flattenRanges

(* One more member: what it tells is beside what the others told.           *)
LEMMA TellsMore ==
  ASSUME NEW members, NEW n \in Nat, NEW id, NEW b
  PROVE  Tells(members, n + 1, id, b) <=>
           \/ Tells(members, n, id, b)
           \/ members[n + 1].usable /\ members[n + 1].id = id /\ b \in members[n + 1].affected /\ About(b)
<1>1. 1..(n + 1) = (1..n) \cup {n + 1}
  OBVIOUS
<1> QED
  BY <1>1, Zenon DEF Tells

LEMMA NamesIs ==
  ASSUME NEW m
  PROVE  Names(m) <=> m.usable /\ {b \in m.affected : b.ecosystem /\ b.named} # {}
  BY DEF Names

LEMMA FirstStays ==
  ASSUME NEW members, NEW n \in Nat, NEW id, NEW i, FirstOf(members, n, id, i)
  PROVE  FirstOf(members, n + 1, id, i)
<1>1. i \in 1..(n + 1)
  BY DEF FirstOf
<1> QED
  BY <1>1, Zenon DEF FirstOf

(* A member that names nothing is passed over.                              *)
LEMMA PassedOver ==
  ASSUME NEW members, NEW n \in Nat, NEW records, RecordsInv(records, members, n), ~Names(members[n + 1])
  PROVE  RecordsInv(Collect(records, members[n + 1]), members, n + 1)
<1> DEFINE m == members[n + 1]
<1>1. Collect(records, m) = records
  BY NamesIs DEF Collect
<1>2. \A id, b : Tells(members, n + 1, id, b) <=> Tells(members, n, id, b)
  BY TellsMore DEF Names, About
<1>3. 1..(n + 1) = (1..n) \cup {n + 1}
  OBVIOUS
<1>4. \A id : id \in DOMAIN records <=> \E i \in 1..(n + 1) : members[i].id = id /\ Names(members[i])
  BY <1>3, Zenon DEF RecordsInv
<1>5. ASSUME NEW id \in DOMAIN records PROVE KeptRecord(records[id], members, n + 1, id)
  <2>1. KeptRecord(records[id], members, n, id)
    BY DEF RecordsInv
  <2> QED
    BY <1>2, <2>1, FirstStays, Zenon DEF KeptRecord
<1> HIDE DEF m
<1>6. RecordsInv(records, members, n + 1)
  BY <1>4, <1>5, Zenon DEF RecordsInv
<1> QED
  BY <1>1, <1>6 DEF m

(* A member that names the package adds to its advisory's record.           *)
LEMMA Added ==
  ASSUME NEW members, NEW n \in Nat, NEW records, RecordsInv(records, members, n), Names(members[n + 1])
  PROVE  RecordsInv(Collect(records, members[n + 1]), members, n + 1)
<1> DEFINE m == members[n + 1]
           id == m.id
           blocks == {b \in m.affected : b.ecosystem /\ b.named}
           ranges == UNION {flattenRanges(b.ranges) : b \in blocks}
           versions == (UNION {b.versions : b \in blocks}) \ {NoText}
           old == IF id \in DOMAIN records THEN records[id] ELSE [withdrawn |-> m.withdrawn, ranges |-> {}, versions |-> {}]
           rec == [withdrawn |-> old.withdrawn, ranges |-> old.ranges \cup ranges, versions |-> old.versions \cup versions]
           more == [k \in DOMAIN records \cup {id} |-> IF k # id THEN records[k] ELSE rec]
<1>1. m.usable /\ blocks # {}
  BY NamesIs
<1>2. Collect(records, m) = more
  BY <1>1 DEF Collect
<1>3. \A b : b \in blocks <=> b \in m.affected /\ About(b)
  BY DEF About
<1>4. \A x : x \in ranges <=> \E b, r : b \in blocks /\ r \in b.ranges /\ r.type # "GIT" /\ x \in Flattened(r.events)
  <2> HIDE DEF blocks
  <2> SUFFICES ASSUME NEW x
               PROVE  x \in ranges <=> \E b, r : b \in blocks /\ r \in b.ranges /\ r.type # "GIT" /\ x \in Flattened(r.events)
    OBVIOUS
  <2>1. x \in ranges <=> \E b \in blocks : x \in flattenRanges(b.ranges)
    OBVIOUS
  <2>2. \A b : x \in flattenRanges(b.ranges) <=> \E r \in b.ranges : r.type # "GIT" /\ x \in Flattened(r.events)
    BY FlattenRangesIs
  <2> HIDE DEF ranges
  <2>3. ASSUME NEW b \in blocks, x \in flattenRanges(b.ranges)
        PROVE  \E c, r : c \in blocks /\ r \in c.ranges /\ r.type # "GIT" /\ x \in Flattened(r.events)
    BY <2>2, <2>3
  <2>4. ASSUME NEW b \in blocks, NEW r \in b.ranges, r.type # "GIT", x \in Flattened(r.events)
        PROVE  x \in ranges
    BY <2>1, <2>2, <2>4
  <2> QED
    BY <2>1, <2>3, <2>4
<1>5. \A w : w \in versions <=> w # NoText /\ \E b \in blocks : w \in b.versions
  OBVIOUS
<1>6. id = members[n + 1].id /\ m = members[n + 1]
  OBVIOUS
<1> HIDE DEF blocks, ranges, versions
<1>8. /\ rec = [withdrawn |-> rec.withdrawn, ranges |-> rec.ranges, versions |-> rec.versions]
      /\ rec.withdrawn = old.withdrawn /\ rec.ranges = old.ranges \cup ranges /\ rec.versions = old.versions \cup versions
  <2> HIDE DEF old
  <2> QED
    OBVIOUS
<1>9. /\ \A x : x \in old.ranges <=>
           \E b, r : Tells(members, n, id, b) /\ r \in b.ranges /\ r.type # "GIT" /\ x \in Flattened(r.events)
      /\ \A w : w \in old.versions <=> w # NoText /\ \E b : Tells(members, n, id, b) /\ w \in b.versions
  <2>1. CASE id \in DOMAIN records
    <3>1. old = records[id] /\ KeptRecord(records[id], members, n, id)
      BY <2>1 DEF RecordsInv
    <3> HIDE DEF old, id
    <3> QED
      BY <3>1, Zenon DEF KeptRecord
  <2>2. CASE id \notin DOMAIN records
    <3>1. old.ranges = {} /\ old.versions = {}
      BY <2>2
    <3>2. \A b : ~Tells(members, n, id, b)
      <4>1. \A i \in 1..n : ~(members[i].id = id /\ Names(members[i]))
        BY <2>2 DEF RecordsInv
      <4> HIDE DEF id
      <4> QED
        BY <4>1, Zenon DEF Tells, Names, About
    <3> HIDE DEF old, id
    <3> QED
      BY <3>1, <3>2
  <2> QED
    BY <2>1, <2>2
<1>10. \E i : FirstOf(members, n + 1, id, i) /\ rec.withdrawn = members[i].withdrawn
  <2>1. CASE id \in DOMAIN records
    <3>1. old = records[id] /\ KeptRecord(records[id], members, n, id)
      BY <2>1 DEF RecordsInv
    <3>2. PICK i : FirstOf(members, n, id, i) /\ records[id].withdrawn = members[i].withdrawn
      BY <3>1 DEF KeptRecord
    <3> HIDE DEF rec, old, id
    <3> QED
      BY <1>8, <3>1, <3>2, FirstStays
  <2>2. CASE id \notin DOMAIN records
    <3>1. \A i \in 1..n : ~(members[i].id = id /\ Names(members[i]))
      BY <2>2 DEF RecordsInv
    <3>2. old.withdrawn = members[n + 1].withdrawn
      BY <2>2
    <3>3. n + 1 \in 1..(n + 1) /\ (n + 1) - 1 = n
      OBVIOUS
    <3>4. FirstOf(members, n + 1, id, n + 1)
      BY <3>1, <3>3, Zenon DEF FirstOf
    <3> HIDE DEF rec, old, id
    <3> QED
      BY <1>8, <3>2, <3>4
  <2> QED
    BY <2>1, <2>2
<1> HIDE DEF rec, old
<1>11. \A b : Tells(members, n + 1, id, b) <=> Tells(members, n, id, b) \/ b \in blocks
  BY <1>1, <1>3, TellsMore
<1> HIDE DEF id, m
<1>12. KeptRecord(rec, members, n + 1, id)
  <2>1. \A x : x \in rec.ranges <=>
          \E b, r : Tells(members, n + 1, id, b) /\ r \in b.ranges /\ r.type # "GIT" /\ x \in Flattened(r.events)
    <3> SUFFICES ASSUME NEW x
                 PROVE  x \in rec.ranges <=>
                          \E b, r : Tells(members, n + 1, id, b) /\ r \in b.ranges /\ r.type # "GIT" /\ x \in Flattened(r.events)
      OBVIOUS
    <3>1. x \in rec.ranges <=> x \in old.ranges \/ x \in ranges
      BY <1>8
    <3> QED
      BY <1>4, <1>9, <1>11, <3>1, Zenon
  <2>2. \A w : w \in rec.versions <=> w # NoText /\ \E b : Tells(members, n + 1, id, b) /\ w \in b.versions
    <3> SUFFICES ASSUME NEW w
                 PROVE  w \in rec.versions <=> w # NoText /\ \E b : Tells(members, n + 1, id, b) /\ w \in b.versions
      OBVIOUS
    <3>1. w \in rec.versions <=> w \in old.versions \/ w \in versions
      BY <1>8
    <3> QED
      BY <1>5, <1>9, <1>11, <3>1, Zenon
  <2> QED
    BY <1>8, <1>10, <2>1, <2>2, Zenon DEF KeptRecord
<1>13. ASSUME NEW k \in DOMAIN records, k # id PROVE KeptRecord(records[k], members, n + 1, k)
  <2>1. KeptRecord(records[k], members, n, k)
    BY DEF RecordsInv
  <2>2. \A b : Tells(members, n + 1, k, b) <=> Tells(members, n, k, b)
    BY <1>6, <1>13, TellsMore
  <2> QED
    BY <2>1, <2>2, FirstStays, Zenon DEF KeptRecord
<1>14. DOMAIN more = DOMAIN records \cup {id} /\ \A k \in DOMAIN more : more[k] = IF k # id THEN records[k] ELSE rec
  OBVIOUS
<1>15. more = [k \in DOMAIN more |-> more[k]]
  OBVIOUS
<1> HIDE DEF more
<1>16. \A k : k \in DOMAIN more <=> \E i \in 1..(n + 1) : members[i].id = k /\ Names(members[i])
  <2>1. 1..(n + 1) = (1..n) \cup {n + 1}
    OBVIOUS
  <2>2. \A k : k \in DOMAIN records <=> \E i \in 1..n : members[i].id = k /\ Names(members[i])
    BY DEF RecordsInv
  <2> QED
    BY <1>6, <1>14, <2>1, <2>2, Zenon
<1>17. \A k \in DOMAIN more : KeptRecord(more[k], members, n + 1, k)
  BY <1>12, <1>13, <1>14, Zenon
<1>18. RecordsInv(more, members, n + 1)
  BY <1>15, <1>16, <1>17, Zenon DEF RecordsInv
<1> QED
  BY <1>2, <1>6, <1>18

LEMMA IndexedIs ==
  ASSUME NEW members, Len(members) \in Nat
  PROVE  RecordsInv(Indexed(members), members, Len(members))
<1> DEFINE len == Len(members)
<1>1. PICK records : RecordsOf(records, members, len) /\ Indexed(members) = records[len]
  BY RecordsAre
<1>2. len \in Nat
  OBVIOUS
<1> HIDE DEF len
<1>3. \A n \in 0..len : records[n] = IF n = 0 THEN <<>> ELSE Collect(records[n - 1], members[n])
  BY <1>1 DEF RecordsOf
<1> DEFINE A == {n \in 0..len : RecordsInv(records[n], members, n)}
<1>4. 0 \in A
  <2>1. 0 \in 0..len /\ records[0] = <<>>
    BY <1>2, <1>3
  <2>2. RecordsInv(<<>>, members, 0)
    <3>1. DOMAIN <<>> = {} /\ 1..0 = {} /\ <<>> = [id \in DOMAIN <<>> |-> <<>>[id]]
      OBVIOUS
    <3> QED
      BY <3>1, Zenon DEF RecordsInv
  <2> QED
    BY <2>1, <2>2
<1>5. ASSUME NEW n \in 0..(len - 1), n \in A PROVE n + 1 \in A
  <2>1. n \in Nat /\ n + 1 \in 0..len /\ n + 1 # 0 /\ (n + 1) - 1 = n
    BY <1>2
  <2>2. records[n + 1] = Collect(records[n], members[n + 1])
    BY <1>3, <2>1
  <2>3. RecordsInv(records[n], members, n)
    BY <1>5
  <2>4. RecordsInv(Collect(records[n], members[n + 1]), members, n + 1)
    BY <2>1, <2>3, PassedOver, Added
  <2> QED
    BY <2>1, <2>2, <2>4
<1> HIDE DEF A
<1>6. len \in A
  <2>1. \A n \in 0..len : n \in A
    BY <1>2, <1>4, <1>5, Throughout
  <2> QED
    BY <1>2, <2>1
<1> QED
  BY <1>1, <1>6 DEF A, len

-----------------------------------------------------------------------------
(* What the records say, told by the members of the archive.                *)

LEMMA ArchiveShape ==
  ASSUME archive \in Seq(Members)
  PROVE  /\ Len(archive) \in Nat /\ DOMAIN archive = 1..Len(archive)
         /\ \A i \in DOMAIN archive : i \in Nat /\ archive[i] \in Members
  OBVIOUS

LEMMA TellsBlocks ==
  ASSUME archive \in Seq(Members), NEW id, NEW b
  PROVE  Tells(archive, Len(archive), id, b) <=> b \in Blocks(id)
<1>1. DOMAIN archive = 1..Len(archive)
  BY ArchiveShape
<1>2. b \in Blocks(id) <=>
        (\E i \in DOMAIN archive : archive[i].usable /\ archive[i].id = id /\ b \in archive[i].affected) /\ b.ecosystem /\ b.named
  BY DEF Blocks
<1> QED
  BY <1>1, <1>2, Zenon DEF Tells, About

LEMMA OneFirst ==
  ASSUME NEW members, NEW n \in Nat, NEW id, NEW i, NEW j, FirstOf(members, n, id, i), FirstOf(members, n, id, j)
  PROVE  i = j
<1>1. i \in 1..n /\ j \in 1..n
  BY DEF FirstOf
<1>2. ~(i < j)
  <2>1. ASSUME i < j PROVE i \in 1..(j - 1)
    BY <1>1, <2>1
  <2> QED
    BY <2>1, Zenon DEF FirstOf
<1>3. ~(j < i)
  <2>1. ASSUME j < i PROVE j \in 1..(i - 1)
    BY <1>1, <2>1
  <2> QED
    BY <2>1, Zenon DEF FirstOf
<1> QED
  BY <1>1, <1>2, <1>3

LEMMA WithdrawnIs ==
  ASSUME archive \in Seq(Members), NEW id, NEW rec, KeptRecord(rec, archive, Len(archive), id)
  PROVE  rec.withdrawn <=> WithdrawnFirst(id)
<1>1. Len(archive) \in Nat /\ DOMAIN archive = 1..Len(archive)
  BY ArchiveShape
<1>2. PICK i : FirstOf(archive, Len(archive), id, i) /\ rec.withdrawn = archive[i].withdrawn
  BY DEF KeptRecord
<1>3. i \in DOMAIN archive /\ archive[i] \in Members
  <2>1. i \in DOMAIN archive
    BY <1>1, <1>2 DEF FirstOf
  <2> QED
    BY <2>1, ArchiveShape
<1>4. WithdrawnFirst(id) <=> \E j : FirstOf(archive, Len(archive), id, j) /\ archive[j].withdrawn
  BY <1>1, Zenon DEF WithdrawnFirst, FirstOf
<1>5. (\E j : FirstOf(archive, Len(archive), id, j) /\ archive[j].withdrawn) <=> archive[i].withdrawn
  BY <1>1, <1>2, OneFirst, Zenon
<1>6. archive[i].withdrawn \in BOOLEAN
  BY <1>3 DEF Members
<1> QED
  BY <1>2, <1>4, <1>5, <1>6, Zenon

Claims(id, v) == \E r \in RangesOf(id) : \E x \in Flattened(r.events) : inRange(x, v)

LEMMA AffectsIs ==
  ASSUME archive \in Seq(Members), NEW id, NEW rec, KeptRecord(rec, archive, Len(archive), id), NEW v, v # NoText
  PROVE  Affects(rec, v) <=> ListedBy(id, v) \/ Claims(id, v)
<1>1. \A b : Tells(archive, Len(archive), id, b) <=> b \in Blocks(id)
  BY TellsBlocks
<1>2. (\E w \in rec.versions : Same(v, w)) <=> ListedBy(id, v)
  <2>1. \A w : w \in rec.versions <=> w # NoText /\ \E b : Tells(archive, Len(archive), id, b) /\ w \in b.versions
    BY Zenon DEF KeptRecord
  <2> QED
    BY <1>1, <2>1, Zenon DEF ListedBy, Same
<1>3. (\E x \in rec.ranges : inRange(x, v)) <=> Claims(id, v)
  <2>1. \A x : x \in rec.ranges <=>
          \E b, r : Tells(archive, Len(archive), id, b) /\ r \in b.ranges /\ r.type # "GIT" /\ x \in Flattened(r.events)
    BY Zenon DEF KeptRecord
  <2>2. \A r : r \in RangesOf(id) <=> (\E b \in Blocks(id) : r \in b.ranges) /\ r.type # "GIT"
    BY DEF RangesOf
  <2> QED
    BY <1>1, <2>1, <2>2, Zenon DEF Claims
<1> QED
  BY <1>2, <1>3, Zenon DEF Affects

LEMMA NamedHasBlocks ==
  ASSUME archive \in Seq(Members), NEW id, NEW r \in RangesOf(id) \cup UNION {b.versions : b \in Blocks(id)}
  PROVE  \E i \in 1..Len(archive) : archive[i].id = id /\ Names(archive[i])
<1>1. PICK b : b \in Blocks(id)
  BY DEF RangesOf
<1>2. Tells(archive, Len(archive), id, b)
  BY <1>1, TellsBlocks
<1> QED
  BY <1>2, Zenon DEF Tells, Names, About

LEMMA RangesShape ==
  ASSUME archive \in Seq(Members), NEW id, NEW r \in RangesOf(id)
  PROVE  r.events \in Seq(RangeEvents)
<1>1. PICK b : b \in Blocks(id) /\ r \in b.ranges
  BY DEF RangesOf
<1>2. PICK i \in DOMAIN archive : b \in archive[i].affected
  BY <1>1 DEF Blocks
<1>3. archive[i] \in Members
  BY ArchiveShape
<1>4. archive[i].affected \in SUBSET AffectedBlocks
  BY <1>3 DEF Members
<1>5. b \in AffectedBlocks
  BY <1>2, <1>4
<1>6. b.ranges \in SUBSET EventRanges
  BY <1>5 DEF AffectedBlocks
<1>7. r \in EventRanges
  BY <1>1, <1>6
<1> QED
  BY <1>7 DEF EventRanges

-----------------------------------------------------------------------------
(* The invariant: the records are those of the archive, and the last lookup *)
(* read them.                                                               *)

LookedUp(records, v) == {id \in DOMAIN records : ~records[id].withdrawn /\ Affects(records[id], v)}

LookupInv ==
  /\ archive \in Seq(Members)
  /\ built = <<>> \/ built = Indexed(archive)
  /\ found.made => found.version \in Asked /\ found.ids = LookedUp(Indexed(archive), found.version)

LEMMA LookupInvInit == AffectedInit => LookupInv
  BY AffectedAssumption DEF AffectedInit, LookupInv, NoLookup

LEMMA LookupInvStep == LookupInv /\ [AffectedNext]_affectedVars => LookupInv'
<1> SUFFICES ASSUME LookupInv, [AffectedNext]_affectedVars PROVE LookupInv'
  OBVIOUS
<1>1. CASE BuildFromZip
  <2>1. UNCHANGED <<archive, found>> /\ built' = Indexed(archive)
    BY <1>1 DEF BuildFromZip
  <2> QED
    BY <2>1 DEF LookupInv
<1>2. ASSUME NEW v \in Asked, LookUp(v) PROVE LookupInv'
  <2>1. archive' = archive /\ built' = built /\ built = Indexed(archive)
    BY <1>2 DEF LookUp, LookupInv
  <2>2. found'.version = v /\ found'.ids = LookedUp(built, v)
    BY <1>2 DEF LookUp, LookedUp
  <2> QED
    BY <2>1, <2>2 DEF LookupInv
<1>3. CASE UNCHANGED affectedVars
  BY <1>3 DEF LookupInv, affectedVars
<1> QED
  BY <1>1, <1>2, <1>3 DEF AffectedNext

LEMMA FoundIs ==
  ASSUME LookupInv, found.made, found.version.ok, NEW id
  PROVE  /\ found.version \in Texts
         /\ id \in found.ids <=> ~WithdrawnFirst(id) /\ (ListedBy(id, found.version) \/ Claims(id, found.version))
<1> DEFINE v == found.version
           records == Indexed(archive)
<1>1. archive \in Seq(Members) /\ v \in Asked /\ found.ids = LookedUp(records, v)
  BY DEF LookupInv
<1>2. v \in Texts /\ v # NoText
  BY <1>1, AffectedAssumption DEF NoText
<1>3. RecordsInv(records, archive, Len(archive))
  BY <1>1, ArchiveShape, IndexedIs
<1> HIDE DEF v, records
<1>4. CASE id \in DOMAIN records
  <2>1. KeptRecord(records[id], archive, Len(archive), id)
    BY <1>3, <1>4, Zenon DEF RecordsInv
  <2>2. records[id].withdrawn <=> WithdrawnFirst(id)
    BY <1>1, <2>1, WithdrawnIs
  <2>3. Affects(records[id], v) <=> ListedBy(id, v) \/ Claims(id, v)
    BY <1>1, <1>2, <2>1, AffectsIs
  <2>4. id \in found.ids <=> ~WithdrawnFirst(id) /\ (ListedBy(id, v) \/ Claims(id, v))
    BY <1>1, <1>4, <2>2, <2>3 DEF LookedUp
  <2> QED
    BY <1>2, <2>4 DEF v
<1>5. CASE id \notin DOMAIN records
  <2>1. ~\E i \in 1..Len(archive) : archive[i].id = id /\ Names(archive[i])
    BY <1>3, <1>5, Zenon DEF RecordsInv
  <2>2. ~ListedBy(id, v)
    BY <1>1, <2>1, NamedHasBlocks DEF ListedBy
  <2>3. ~Claims(id, v)
    BY <1>1, <2>1, NamedHasBlocks DEF Claims
  <2>4. id \notin found.ids
    BY <1>1, <1>5 DEF LookedUp
  <2> QED
    BY <1>2, <2>2, <2>3, <2>4 DEF v
<1> QED
  BY <1>4, <1>5

LEMMA AffectsAsPublishedHolds == LookupInv => AffectsAsPublished
<1> SUFFICES ASSUME LookupInv, found.made, found.version.ok, NEW id \in Ids
             PROVE  /\ ReadsTheLine(id, found.version)
                    /\ NeverPastTheFix(id, found.version)
                    /\ NoSilentNegative(id, found.version)
  BY DEF AffectsAsPublished
<1> DEFINE v == found.version
<1>1. v \in Texts /\ v.ok /\ archive \in Seq(Members)
  BY FoundIs DEF LookupInv
<1>2. id \in found.ids <=> ~WithdrawnFirst(id) /\ (ListedBy(id, v) \/ Claims(id, v))
  BY FoundIs
<1>3. \A r \in RangesOf(id) : r.events \in Seq(RangeEvents)
  BY <1>1, RangesShape
<1> HIDE DEF v
<1>4. ReadsTheLine(id, v)
  <2> SUFFICES ASSUME ~Below(v, Zero),
                      \A r \in RangesOf(id) : Paired(Bounds(r.events)) /\ \A i \in DOMAIN Bounds(r.events) : Bounds(r.events)[i].at.ok
               PROVE  Claims(id, v) <=> \E r \in RangesOf(id) : Inside(Bounds(r.events), v)
    BY <1>2 DEF ReadsTheLine
  <2>1. v.at >= 0
    BY <1>1, ZeroIsText DEF Below, Texts
  <2>2. \A r \in RangesOf(id) : (\E x \in Flattened(r.events) : inRange(x, v)) <=> Inside(Bounds(r.events), v)
    BY <1>1, <1>3, <2>1, InsideAsRead
  <2> QED
    BY <2>2, Zenon DEF Claims
<1>5. NeverPastTheFix(id, v)
  <2> SUFFICES ASSUME ~ListedBy(id, v),
                      \A r \in RangesOf(id) :
                        LET bounds == Bounds(r.events)
                        IN Paired(bounds) /\ bounds # <<>> /\ ~bounds[Len(bounds)].opens
                           /\ \A i \in DOMAIN bounds : bounds[i].at.ok => Below(bounds[i].at, v)
               PROVE  ~Claims(id, v)
    BY <1>2 DEF NeverPastTheFix
  <2>1. \A r \in RangesOf(id) : ~\E x \in Flattened(r.events) : inRange(x, v)
    BY <1>1, <1>3, ClosedLineEnds
  <2> QED
    BY <2>1, Zenon DEF Claims
<1>6. NoSilentNegative(id, v)
  <2> SUFFICES ASSUME NEW r \in RangesOf(id), NEW i \in 2..Len(Bounds(r.events)),
                      Bounds(r.events)[i - 1].opens, ~Bounds(r.events)[i - 1].at.ok,
                      ~Bounds(r.events)[i].opens, Below(v, Bounds(r.events)[i].at)
               PROVE  Claims(id, v)
    BY <1>2 DEF NoSilentNegative
  <2>1. \E x \in Flattened(r.events) : inRange(x, v)
    BY <1>1, <1>3, FixClaims
  <2> QED
    BY <2>1, Zenon DEF Claims
<1> QED
  BY <1>4, <1>5, <1>6 DEF v

(* Of every archive, however its members, blocks, ranges and events spell   *)
(* them, a lookup claims the advisories that put the version inside and no  *)
(* others as far as their bounds can be ordered (osvindex read.go:195, 245, *)
(* build.go:288, 359).                                                      *)
THEOREM OsvAffectsAsPublished == AffectedSpec => []AffectsAsPublished
<1>1. AffectedSpec => []LookupInv
  BY LookupInvInit, LookupInvStep, PTL DEF AffectedSpec
<1>2. LookupInv => AffectsAsPublished
  BY AffectsAsPublishedHolds
<1> QED
  BY <1>1, <1>2, PTL

=============================================================================
