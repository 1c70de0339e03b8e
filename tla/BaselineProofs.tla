--------------------------- MODULE BaselineProofs ---------------------------
(***************************************************************************)
(* What a run is compared with, and what it is run on.  Baseline for any   *)
(* number of runs, packages, releases and changes of the world, Diff for   *)
(* every repository, and Check for every manifest and registry: their      *)
(* safety properties and the inductive invariants behind them.             *)
(***************************************************************************)
EXTENDS Baseline, Diff, Check, TLAPS, FiniteSetTheorems, WellFoundedInduction, SequenceTheorems

Record == [Packages -> Entry \cup {None}]

(* What a run holds of the record is as honest as the record itself.        *)
HonestInv == \A p \in Packages : HonestEntry(file[p]) /\ \A r \in Runs : HonestEntry(loaded[r][p])

(* Only a snapshot can be complete, and only a diff has a base revision.    *)
KindInv ==
  \A r \in Runs :
    /\ whole[r] => kind[r] = "snapshot"
    /\ kind[r] # "diff" => rev[r] = None

(* A run that went on to the file had all its answers.                      *)
AskedInv == \A r \in Runs : phase[r] = "loaded" => \A p \in Targets(r) : answers[r][p] # None

(* Until somebody else writes, the file is what a run read of it.           *)
CurrentInv ==
  \A r \in Runs : ~overlap[r] =>
    /\ phase[r] \in {"asking", "loaded"} => head[r] = file
    /\ phase[r] = "loaded" => loaded[r] = file

(* Only a run that has written has replaced anything.                       *)
ReplacedInv == \A r \in Runs : replaced[r] # {} => phase[r] = "written"

IInv == TypeOK /\ HonestInv /\ KindInv /\ AskedInv /\ CurrentInv /\ ReplacedInv /\ DriftReported

-----------------------------------------------------------------------------
(* What an observation makes of an entry.                                   *)

LEMMA ObservedIsEntry ==
  ASSUME NEW p \in Packages, NEW v \in Versions, NEW a \in Answer
  PROVE  Observed(p, v, a) \in Entry /\ HonestEntry(Observed(p, v, a))
  BY DEF Observed, Missing, PublisherOf, Answer, Entry, HonestEntry

(* An entry that is merged with an honest observation stays honest.         *)
LEMMA MergeIsEntry ==
  ASSUME NEW was \in Entry, NEW p \in Packages, NEW v \in Versions, NEW a \in Answer,
         HonestEntry(was)
  PROVE  /\ Merge(was, Observed(p, v, a), Missing(a)) \in Entry
         /\ HonestEntry(Merge(was, Observed(p, v, a), Missing(a)))
<1> DEFINE now == Observed(p, v, a)
<1>1. now \in Entry /\ HonestEntry(now) /\ now.version = v
  BY ObservedIsEntry DEF Observed
<1>2. was # None /\ now # None
  BY <1>1, NoneAssumption
<1> HIDE DEF now
<1>3. Merge(was, now, Missing(a)) \in Entry
  BY <1>1 DEF Merge, Entry
<1>4. HonestEntry(Merge(was, now, Missing(a)))
  BY <1>1, <1>2, NoneAssumption DEF Merge, Entry, HonestEntry
<1> QED
  BY <1>3, <1>4 DEF now

LEMMA PutIsEntry ==
  ASSUME NEW was \in Entry \cup {None}, NEW p \in Packages, NEW v \in Versions, NEW a \in Answer,
         HonestEntry(was)
  PROVE  /\ Put(was, Observed(p, v, a), Missing(a)) \in Entry \cup {None}
         /\ HonestEntry(Put(was, Observed(p, v, a), Missing(a)))
         /\ was # None => Put(was, Observed(p, v, a), Missing(a)) # None
  BY ObservedIsEntry, MergeIsEntry, NoneAssumption DEF Put, HonestEntry

(* What a run writes is a record.                                           *)
LEMMA UpdatedIsRecord ==
  ASSUME TypeOK, HonestInv, AskedInv, NEW r \in Runs, phase[r] = "loaded"
  PROVE  /\ Updated(r) \in Record
         /\ \A p \in Packages : HonestEntry(Updated(r)[p])
<1>1. ASSUME NEW p \in Packages
      PROVE  Updated(r)[p] \in Entry \cup {None} /\ HonestEntry(Updated(r)[p])
  <2>1. loaded[r][p] \in Entry \cup {None} /\ HonestEntry(loaded[r][p])
    BY <1>1 DEF TypeOK, HonestInv
  <2>2. CASE ~Kept(r, p)
    BY <2>2 DEF Updated, HonestEntry
  <2>3. CASE Kept(r, p) /\ p \notin Targets(r)
    BY <2>1, <2>3 DEF Updated
  <2>4. CASE Kept(r, p) /\ p \in Targets(r)
    <3>1. plan[r][p] \in Versions /\ answers[r][p] \in Answer
      BY <2>4 DEF TypeOK, Targets, AskedInv
    <3>2. Updated(r)[p] = Put(loaded[r][p], Observed(p, plan[r][p], answers[r][p]), Missing(answers[r][p]))
      BY <2>4 DEF Updated
    <3> QED
      BY <2>1, <3>1, <3>2, PutIsEntry
  <2> QED
    BY <2>2, <2>3, <2>4
<1>2. Updated(r) = [p \in Packages |-> Updated(r)[p]]
  BY DEF Updated
<1> QED
  BY <1>1, <1>2 DEF Record

-----------------------------------------------------------------------------
(* The initial states and the steps.                                        *)

LEMMA InitIInv == Init => IInv
<1> SUFFICES ASSUME Init PROVE IInv
  OBVIOUS
<1>1. NoFile \in Record /\ \A p \in Packages : NoFile[p] = None
  BY DEF NoFile, Record
<1>2. file \in Record /\ \A p \in Packages : HonestEntry(file[p])
  <2>1. CASE file = NoFile
    BY <1>1, <2>1 DEF HonestEntry
  <2>2. ASSUME NEW were \in [Packages -> Listings \ {{}}],
               file = [p \in Packages |-> [version |-> locked[p], publisher |-> locked[p],
                                          provenance |-> locked[p], maintainers |-> were[p]]]
        PROVE  file \in Record /\ \A p \in Packages : HonestEntry(file[p])
    <3>1. \A p \in Packages : locked[p] \in Versions /\ were[p] \in Listings
      BY DEF Init
    <3>2. \A p \in Packages : file[p] \in Entry /\ HonestEntry(file[p])
      BY <2>2, <3>1 DEF Entry, HonestEntry
    <3> QED
      BY <2>2, <3>2 DEF Record
  <2> QED
    BY <2>1, <2>2 DEF Init
<1>3. TypeOK
  <2>1. policy \in Policies /\ owners \in [Packages -> Listings]
        /\ locked \in [Packages -> Versions \cup {None}]
    BY DEF Init
  <2>2. base = None \/ base \in Record
    BY <1>2 DEF Init
  <2>3. phase \in [Runs -> Phases] /\ kind \in [Runs -> Kinds] /\ whole \in [Runs -> BOOLEAN]
    BY DEF Init, Phases, Kinds
  <2>4. plan \in [Runs -> [Packages -> Versions \cup {None}]]
    BY DEF Init, EmptyRecords, NoFile
  <2>5. head \in [Runs -> Record] /\ loaded \in [Runs -> Record]
    BY <1>1 DEF Init, EmptyRecords
  <2>6. answers \in [Runs -> [Packages -> Answer \cup {None}]]
    BY DEF Init, EmptyRecords, NoFile
  <2>7. /\ rev \in [Runs -> {None} \cup Record]
        /\ replaced \in [Runs -> SUBSET Packages] /\ overlap \in [Runs -> BOOLEAN]
        /\ changes \in 0..MaxChanges /\ starts \in 0..MaxStarts
    BY BaselineAssumption DEF Init
  <2> QED
    BY <1>2, <2>1, <2>2, <2>3, <2>4, <2>5, <2>6, <2>7 DEF TypeOK, Record
<1>4. HonestInv
  <2>1. \A r \in Runs, p \in Packages : loaded[r][p] = None
    BY <1>1 DEF Init, EmptyRecords
  <2> QED
    BY <1>2, <2>1 DEF HonestInv, HonestEntry
<1>5. KindInv /\ AskedInv /\ CurrentInv /\ ReplacedInv /\ DriftReported
  BY DEF Init, KindInv, AskedInv, CurrentInv, ReplacedInv, DriftReported
<1> QED
  BY <1>3, <1>4, <1>5 DEF IInv

(* A step that leaves what a run asked and was told alone leaves its verdict alone. *)
LEMMA SameDrift ==
  ASSUME UNCHANGED <<policy, kind, plan, head, rev, answers>>, NEW r \in Runs
  PROVE  /\ Drift(r)' = Drift(r) /\ Targets(r)' = Targets(r)
         /\ \A p \in Packages : Comparable(r, p)' = Comparable(r, p) /\ Reports(p)' = Reports(p)
  BY DEF Drift, Targets, Changed, Verdict, Lookup, NotCompared, Comparable, Reports

(* The steps of the world.                                                  *)
LEMMA WorldStep ==
  ASSUME IInv, Commit \/ \E p \in Packages : ChangeOwners(p) \/ LockAt(p)
  PROVE  IInv'
<1> USE DEF world, begun, history
<1>1. UNCHANGED <<policy, kind, plan, head, rev, answers>> /\ UNCHANGED <<file, phase, begun, loaded, history>>
  BY DEF ChangeOwners, LockAt, Commit
<1>2. changes' \in 0..MaxChanges
  BY BaselineAssumption DEF IInv, TypeOK, Change, ChangeOwners, LockAt, Commit
<1>3. owners' \in [Packages -> Listings] /\ locked' \in [Packages -> Versions \cup {None}]
  <2>1. CASE Commit
    BY <2>1 DEF IInv, TypeOK, Commit
  <2>2. ASSUME NEW p \in Packages, ChangeOwners(p)
        PROVE  owners' \in [Packages -> Listings] /\ locked' \in [Packages -> Versions \cup {None}]
    BY <2>2 DEF IInv, TypeOK, ChangeOwners
  <2>3. ASSUME NEW p \in Packages, LockAt(p)
        PROVE  owners' \in [Packages -> Listings] /\ locked' \in [Packages -> Versions \cup {None}]
    BY <2>3 DEF IInv, TypeOK, LockAt
  <2> QED
    BY <2>1, <2>2, <2>3
<1>4. base' = None \/ base' \in [Packages -> Entry \cup {None}]
  BY DEF IInv, TypeOK, ChangeOwners, LockAt, Commit
<1>5. TypeOK'
  BY <1>1, <1>2, <1>3, <1>4 DEF IInv, TypeOK
<1>6. HonestInv' /\ KindInv' /\ CurrentInv' /\ ReplacedInv'
  BY <1>1 DEF IInv, HonestInv, KindInv, CurrentInv, ReplacedInv, HonestEntry
<1>7. AskedInv' /\ DriftReported'
  BY <1>1, SameDrift DEF IInv, TypeOK, AskedInv, DriftReported
<1> QED
  BY <1>5, <1>6, <1>7 DEF IInv

(* A person's edit: runs that read the file before it are marked.           *)
LEMMA EditStep ==
  ASSUME IInv, NEW p \in Packages, Edit(p)
  PROVE  IInv'
<1> USE DEF world, begun, history
<1>1. UNCHANGED <<policy, owners, locked, base, phase, begun, answers, loaded, replaced>>
  BY DEF Edit
<1>2. PICK e \in Claims(p) \cup {None} : file' = [file EXCEPT ![p] = e]
  BY DEF Edit
<1>3. e \in Entry \cup {None} /\ HonestEntry(e)
  <2>1. CASE e = None
    BY <2>1 DEF HonestEntry
  <2>2. CASE e \in Claims(p)
    <3>1. PICK v \in Versions, s \in Listings \ {{}} :
            e = [version |-> IF file[p] = None THEN v ELSE file[p].version, publisher |-> None,
                 provenance |-> None, maintainers |-> s]
      BY <2>2 DEF Claims
    <3>2. file[p] # None => file[p].version \in Versions
      BY DEF IInv, TypeOK, Entry
    <3> QED
      BY <3>1, <3>2 DEF Entry, HonestEntry
  <2> QED
    BY <1>2, <2>1, <2>2
<1>4. overlap' = [r \in Runs |-> overlap[r] \/ (r # None /\ phase[r] \notin {"idle", "written"})]
  BY DEF Edit, Overlapped
<1>5. \A r \in Runs : r # None
  BY BaselineAssumption
<1>6. TypeOK'
  <2>1. file' \in [Packages -> Entry \cup {None}]
    BY <1>2, <1>3 DEF IInv, TypeOK
  <2>2. overlap' \in [Runs -> BOOLEAN]
    BY <1>4 DEF IInv, TypeOK
  <2>3. changes' \in 0..MaxChanges
    BY BaselineAssumption DEF IInv, TypeOK, Change, Edit
  <2> QED
    BY <1>1, <2>1, <2>2, <2>3 DEF IInv, TypeOK
<1>7. HonestInv'
  BY <1>1, <1>2, <1>3 DEF IInv, TypeOK, HonestInv, HonestEntry
<1>8. KindInv' /\ ReplacedInv'
  BY <1>1 DEF IInv, KindInv, ReplacedInv
<1>9. CurrentInv'
  BY <1>1, <1>4, <1>5 DEF IInv, TypeOK, CurrentInv
<1>10. AskedInv' /\ DriftReported'
  <2>1. \A r \in Runs : overlap[r] => overlap'[r]
    BY <1>4
  <2> QED
    BY <1>1, <2>1, SameDrift DEF IInv, TypeOK, AskedInv, DriftReported
<1> QED
  BY <1>6, <1>7, <1>8, <1>9, <1>10 DEF IInv

(* A run begins, and asks; neither touches the record.                      *)
LEMMA BeginStep ==
  ASSUME IInv, NEW r \in Runs, NEW k \in Kinds, NEW seen \in SUBSET Packages, Begin(r, k, seen)
  PROVE  IInv'
<1> USE DEF world, begun, history
<1>1. UNCHANGED <<policy, owners, locked, base, changes, file, answers, loaded, replaced, overlap>>
  BY DEF Begin
<1>2. /\ phase[r] = "idle"
      /\ kind' = [kind EXCEPT ![r] = k]
      /\ plan' = [plan EXCEPT ![r] = Plan(seen)]
      /\ head' = [head EXCEPT ![r] = file]
      /\ rev' = [rev EXCEPT ![r] = RevisionRecord(k)]
      /\ phase' = [phase EXCEPT ![r] = "asking"]
      /\ starts < MaxStarts /\ starts' = starts + 1
  BY DEF Begin
<1>3. PICK complete \in BOOLEAN : (complete => k = "snapshot") /\ whole' = [whole EXCEPT ![r] = complete]
  BY DEF Begin
<1>4. TypeOK'
  <2>1. Plan(seen) \in [Packages -> Versions \cup {None}]
    BY DEF Plan, IInv, TypeOK
  <2>2. plan' \in [Runs -> [Packages -> Versions \cup {None}]]
    BY <1>2, <2>1 DEF IInv, TypeOK
  <2>3. kind' \in [Runs -> Kinds] /\ whole' \in [Runs -> BOOLEAN] /\ phase' \in [Runs -> Phases]
    BY <1>2, <1>3 DEF IInv, TypeOK, Phases
  <2>4. head' \in [Runs -> [Packages -> Entry \cup {None}]]
    BY <1>2 DEF IInv, TypeOK
  <2>5. RevisionRecord(k) \in {None} \cup [Packages -> Entry \cup {None}]
    BY DEF RevisionRecord, IInv, TypeOK
  <2>6. rev' \in [Runs -> {None} \cup [Packages -> Entry \cup {None}]]
    BY <1>2, <2>5 DEF IInv, TypeOK
  <2>7. starts' \in 0..MaxStarts
    BY <1>2, BaselineAssumption DEF IInv, TypeOK
  <2> QED
    BY <1>1, <2>2, <2>3, <2>4, <2>6, <2>7 DEF IInv, TypeOK
<1>5. HonestInv'
  BY <1>1 DEF IInv, HonestInv, HonestEntry
<1>6. KindInv'
  BY <1>2, <1>3 DEF IInv, TypeOK, KindInv, RevisionRecord
<1>7. CurrentInv' /\ ReplacedInv'
  BY <1>1, <1>2 DEF IInv, TypeOK, CurrentInv, ReplacedInv
<1>8. AskedInv'
  BY <1>1, <1>2 DEF IInv, TypeOK, AskedInv, Targets
<1>9. DriftReported'
  <2> SUFFICES ASSUME NEW x \in Runs, NEW p \in replaced[x]
               PROVE  p \in Drift(x)' \/ ~Reports(p)' \/ overlap[x] \/ ~Comparable(x, p)'
    BY <1>1 DEF DriftReported
  <2>1. x # r
    BY <1>2 DEF IInv, ReplacedInv
  <2>2. kind'[x] = kind[x] /\ plan'[x] = plan[x] /\ head'[x] = head[x] /\ rev'[x] = rev[x]
    BY <1>2, <2>1 DEF IInv, TypeOK
  <2>3. p \in Drift(x) \/ ~Reports(p) \/ overlap[x] \/ ~Comparable(x, p)
    BY DEF IInv, DriftReported
  <2> QED
    BY <1>1, <2>2, <2>3 DEF Drift, Targets, Changed, Verdict, Lookup, NotCompared, Comparable, Reports
<1> QED
  BY <1>4, <1>5, <1>6, <1>7, <1>8, <1>9 DEF IInv

LEMMA AskStep ==
  ASSUME IInv, NEW r \in Runs, NEW p \in Packages, Ask(r, p)
  PROVE  IInv'
<1> USE DEF world, begun, history
<1>1. UNCHANGED <<world, file, phase, begun, loaded, history>> /\ phase[r] = "asking"
  BY DEF Ask
<1>2. PICK release \in {"read", "bare", "unread"}, listed \in {owners[p], {}} :
        answers' = [answers EXCEPT ![r][p] = [release |-> release, owners |-> listed]]
  BY DEF Ask
<1>3. [release |-> release, owners |-> listed] \in Answer
  BY BaselineAssumption DEF Answer, IInv, TypeOK
<1>4. TypeOK'
  <2>1. answers' \in [Runs -> [Packages -> Answer \cup {None}]]
    BY <1>2, <1>3 DEF IInv, TypeOK
  <2> QED
    BY <1>1, <2>1 DEF IInv, TypeOK
<1>5. HonestInv' /\ KindInv' /\ CurrentInv' /\ ReplacedInv'
  BY <1>1 DEF IInv, HonestInv, HonestEntry, KindInv, CurrentInv, ReplacedInv
<1>6. \A x \in Runs : phase[x] # "asking" => answers'[x] = answers[x]
  BY <1>1, <1>2 DEF IInv, TypeOK
<1>7. AskedInv'
  BY <1>1, <1>6 DEF IInv, AskedInv, Targets
<1>8. DriftReported'
  <2> SUFFICES ASSUME NEW x \in Runs, NEW q \in replaced[x]
               PROVE  q \in Drift(x)' \/ ~Reports(q)' \/ overlap[x] \/ ~Comparable(x, q)'
    BY <1>1 DEF DriftReported
  <2>1. answers'[x] = answers[x]
    BY <1>6 DEF IInv, ReplacedInv
  <2>2. q \in Drift(x) \/ ~Reports(q) \/ overlap[x] \/ ~Comparable(x, q)
    BY DEF IInv, DriftReported
  <2> QED
    BY <1>1, <2>1, <2>2 DEF Drift, Targets, Changed, Verdict, Lookup, NotCompared, Comparable, Reports
<1> QED
  BY <1>4, <1>5, <1>7, <1>8 DEF IInv

(* A run that ends leaves nothing behind but the record.                    *)
LEMMA ExitStep ==
  ASSUME IInv, NEW r \in Runs, Exit(r)
  PROVE  IInv'
<1> USE DEF world, begun, history
<1>1. UNCHANGED <<policy, owners, locked, base, changes, file, starts>>
  BY DEF Exit
<1>2. /\ phase' = [phase EXCEPT ![r] = "idle"]
      /\ kind' = [kind EXCEPT ![r] = "scan"]
      /\ plan' = [plan EXCEPT ![r] = NoFile]
      /\ whole' = [whole EXCEPT ![r] = FALSE]
      /\ head' = [head EXCEPT ![r] = NoFile]
      /\ rev' = [rev EXCEPT ![r] = None]
      /\ answers' = [answers EXCEPT ![r] = NoFile]
      /\ loaded' = [loaded EXCEPT ![r] = NoFile]
      /\ replaced' = [replaced EXCEPT ![r] = {}]
      /\ overlap' = [overlap EXCEPT ![r] = FALSE]
  BY DEF Exit
<1>3. /\ NoFile \in [Packages -> Versions \cup {None}] /\ NoFile \in [Packages -> Answer \cup {None}]
      /\ NoFile \in [Packages -> Entry \cup {None}] /\ \A p \in Packages : NoFile[p] = None
  BY DEF NoFile
<1>4. TypeOK'
  <2>1. /\ phase' \in [Runs -> Phases] /\ kind' \in [Runs -> Kinds] /\ whole' \in [Runs -> BOOLEAN]
        /\ replaced' \in [Runs -> SUBSET Packages] /\ overlap' \in [Runs -> BOOLEAN]
    BY <1>2 DEF IInv, TypeOK, Phases, Kinds
  <2>2. /\ plan' \in [Runs -> [Packages -> Versions \cup {None}]]
        /\ head' \in [Runs -> [Packages -> Entry \cup {None}]]
    BY <1>2, <1>3 DEF IInv, TypeOK
  <2>3. /\ answers' \in [Runs -> [Packages -> Answer \cup {None}]]
        /\ loaded' \in [Runs -> [Packages -> Entry \cup {None}]]
    BY <1>2, <1>3 DEF IInv, TypeOK
  <2>4. rev' \in [Runs -> {None} \cup [Packages -> Entry \cup {None}]]
    BY <1>2 DEF IInv, TypeOK
  <2> QED
    BY <1>1, <2>1, <2>2, <2>3, <2>4 DEF IInv, TypeOK
<1>5. HonestInv'
  BY <1>1, <1>2, <1>3 DEF IInv, TypeOK, HonestInv, HonestEntry
<1>6. KindInv' /\ CurrentInv' /\ ReplacedInv'
  BY <1>1, <1>2 DEF IInv, TypeOK, KindInv, CurrentInv, ReplacedInv
<1>7. AskedInv'
  BY <1>2 DEF IInv, TypeOK, AskedInv, Targets
<1>8. DriftReported'
  <2> SUFFICES ASSUME NEW x \in Runs, NEW q \in replaced'[x]
               PROVE  q \in Drift(x)' \/ ~Reports(q)' \/ overlap'[x] \/ ~Comparable(x, q)'
    BY DEF DriftReported
  <2>1. x # r
    BY <1>2 DEF IInv, TypeOK
  <2>2. /\ kind'[x] = kind[x] /\ plan'[x] = plan[x] /\ head'[x] = head[x] /\ rev'[x] = rev[x]
        /\ answers'[x] = answers[x] /\ replaced'[x] = replaced[x] /\ overlap'[x] = overlap[x]
    BY <1>2, <2>1 DEF IInv, TypeOK
  <2>3. q \in Drift(x) \/ ~Reports(q) \/ overlap[x] \/ ~Comparable(x, q)
    BY <2>2 DEF IInv, DriftReported
  <2> QED
    BY <1>1, <2>2, <2>3 DEF Drift, Targets, Changed, Verdict, Lookup, NotCompared, Comparable, Reports
<1> QED
  BY <1>4, <1>5, <1>6, <1>7, <1>8 DEF IInv

(* The file is read for the update once every package has its answer.       *)
LEMMA LoadStep ==
  ASSUME IInv, NEW r \in Runs, NEW clean \in BOOLEAN, LoadFile(r, clean)
  PROVE  IInv'
<1> USE DEF world, begun, history
<1>1. UNCHANGED <<world, file, begun, answers, history>>
  BY DEF LoadFile
<1>2. AllAsked(r) /\ loaded' = [loaded EXCEPT ![r] = file] /\ phase' = [phase EXCEPT ![r] = "loaded"]
  BY DEF LoadFile
<1>3. TypeOK'
  <2>1. loaded' \in [Runs -> [Packages -> Entry \cup {None}]] /\ phase' \in [Runs -> Phases]
    BY <1>2 DEF IInv, TypeOK, Phases
  <2> QED
    BY <1>1, <2>1 DEF IInv, TypeOK
<1>4. HonestInv'
  BY <1>1, <1>2 DEF IInv, TypeOK, HonestInv, HonestEntry
<1>5. KindInv' /\ CurrentInv' /\ ReplacedInv'
  BY <1>1, <1>2 DEF IInv, TypeOK, KindInv, CurrentInv, ReplacedInv, AllAsked
<1>6. AskedInv'
  BY <1>1, <1>2 DEF IInv, TypeOK, AskedInv, Targets, AllAsked
<1>7. DriftReported'
  BY <1>1, SameDrift DEF IInv, TypeOK, DriftReported
<1> QED
  BY <1>3, <1>4, <1>5, <1>6, <1>7 DEF IInv

(* A run whose write replaces a maintainer set it could compare reports it.  *)
LEMMA ReplacedIsDrift ==
  ASSUME IInv, NEW r \in Runs, phase[r] = "loaded", ~overlap[r], NEW p \in Packages,
         file[p] # None, Updated(r)[p] # None, file[p].maintainers # {},
         Updated(r)[p].maintainers # file[p].maintainers,
         Comparable(r, p), Reports(p)
  PROVE  p \in Drift(r)
<1> DEFINE a == answers[r][p]
<1>1. head[r] = file /\ loaded[r] = file
  BY DEF IInv, CurrentInv
<1>2. Kept(r, p)
  BY DEF Updated
<1>3. p \in Targets(r)
  BY <1>1, <1>2 DEF Updated
<1>4. Updated(r)[p] = Merge(file[p], Observed(p, plan[r][p], a), Missing(a))
  BY <1>1, <1>2, <1>3 DEF Updated, Put
<1>5. "maintainers" \notin Missing(a)
  BY <1>4 DEF Merge, ReadNothing
<1>6. a.owners # {}
  BY <1>5 DEF Missing
<1>7. a.owners # file[p].maintainers
  BY <1>4, <1>5 DEF Merge, ReadNothing, Observed
<1>8. CASE kind[r] = "snapshot"
  BY <1>1, <1>3, <1>6, <1>7, <1>8 DEF Drift, Changed
<1>9. CASE kind[r] # "snapshot"
  <2>1. a.release # "unread" /\ (rev[r] = None \/ rev[r] = file)
    BY <1>1, <1>9 DEF Comparable, IInv, KindInv
  <2>2. file # None
    BY NoneAssumption DEF IInv, TypeOK
  <2>3. Lookup(r, p).observed = file[p] /\ ~Lookup(r, p).added
    BY <1>1, <2>1, <2>2 DEF Lookup, NotCompared
  <2>4. Verdict(r, p) = "changed"
    BY <1>6, <1>7, <2>1, <2>3 DEF Verdict
  <2> QED
    BY <1>3, <1>9, <2>4 DEF Drift
<1> QED
  BY <1>8, <1>9

LEMMA WriteStep ==
  ASSUME IInv, NEW r \in Runs, WriteFile(r)
  PROVE  IInv'
<1> USE DEF world, begun, history
<1>1. UNCHANGED <<world, begun, answers, loaded>> /\ phase[r] = "loaded" /\ file' = Updated(r)
      /\ phase' = [phase EXCEPT ![r] = "written"]
  BY DEF WriteFile
<1>2. replaced' = [replaced EXCEPT ![r] =
        {p \in Packages : /\ file[p] # None /\ Updated(r)[p] # None
                          /\ file[p].maintainers # {}
                          /\ Updated(r)[p].maintainers # file[p].maintainers}]
  BY DEF WriteFile
<1>3. overlap' = [x \in Runs |-> overlap[x] \/ (x # r /\ phase[x] \notin {"idle", "written"})]
  BY DEF WriteFile, Overlapped
<1>4. Updated(r) \in Record /\ \A p \in Packages : HonestEntry(Updated(r)[p])
  BY <1>1, UpdatedIsRecord DEF IInv
<1>5. TypeOK'
  <2>1. phase' \in [Runs -> Phases] /\ overlap' \in [Runs -> BOOLEAN]
    BY <1>1, <1>3 DEF IInv, TypeOK, Phases
  <2>2. replaced' \in [Runs -> SUBSET Packages]
    BY <1>2 DEF IInv, TypeOK
  <2> QED
    BY <1>1, <1>4, <2>1, <2>2 DEF IInv, TypeOK, Record
<1>6. HonestInv'
  BY <1>1, <1>4 DEF IInv, HonestInv, HonestEntry
<1>7. KindInv' /\ ReplacedInv'
  BY <1>1, <1>2 DEF IInv, TypeOK, KindInv, ReplacedInv
<1>8. CurrentInv'
  BY <1>1, <1>3 DEF IInv, TypeOK, CurrentInv
<1>9. AskedInv'
  BY <1>1 DEF IInv, TypeOK, AskedInv, Targets
<1>10. DriftReported'
  <2> SUFFICES ASSUME NEW x \in Runs, NEW p \in replaced'[x], ~overlap'[x],
                      Reports(p)', Comparable(x, p)'
               PROVE  p \in Drift(x)'
    BY DEF DriftReported
  <2>1. ~overlap[x] /\ p \in Packages
    BY <1>2, <1>3 DEF IInv, TypeOK
  <2>2. Reports(p) /\ Comparable(x, p) /\ Drift(x)' = Drift(x)
    BY <1>1, <2>1, SameDrift
  <2>3. CASE x = r
    <3>1. /\ file[p] # None /\ Updated(r)[p] # None
          /\ file[p].maintainers # {} /\ Updated(r)[p].maintainers # file[p].maintainers
      BY <1>2, <2>3 DEF IInv, TypeOK
    <3> QED
      BY <1>1, <2>1, <2>2, <2>3, <3>1, ReplacedIsDrift
  <2>4. CASE x # r
    BY <1>2, <2>1, <2>2, <2>4 DEF IInv, TypeOK, DriftReported
  <2> QED
    BY <2>3, <2>4
<1> QED
  BY <1>5, <1>6, <1>7, <1>8, <1>9, <1>10 DEF IInv

LEMMA StepIInv == IInv /\ [Next]_vars => IInv'
<1> SUFFICES ASSUME IInv, [Next]_vars PROVE IInv'
  OBVIOUS
<1>1. ASSUME NEW p \in Packages, ChangeOwners(p) \/ LockAt(p) \/ Edit(p)
      PROVE  IInv'
  BY <1>1, WorldStep, EditStep
<1>2. CASE Commit
  BY <1>2, WorldStep
<1>3. ASSUME NEW r \in Runs, RunStep(r)
      PROVE  IInv'
  BY <1>3, BeginStep, AskStep, ExitStep, LoadStep, WriteStep DEF RunStep, Report, Finish
<1>4. CASE UNCHANGED vars
  <2> USE DEF vars, world, begun, history
  <2>1. TypeOK' /\ HonestInv' /\ KindInv' /\ CurrentInv' /\ ReplacedInv'
    BY <1>4 DEF IInv, TypeOK, HonestInv, HonestEntry, KindInv, CurrentInv, ReplacedInv
  <2>2. AskedInv' /\ DriftReported'
    BY <1>4, SameDrift DEF IInv, TypeOK, AskedInv, DriftReported
  <2> QED
    BY <2>1, <2>2 DEF IInv
<1> QED
  BY <1>1, <1>2, <1>3, <1>4 DEF Next

LEMMA IInvHolds == Spec => []IInv
  BY InitIInv, StepIInv, PTL DEF Spec

-----------------------------------------------------------------------------
(* The theorems.                                                            *)

(* Every variable keeps its type, whatever runs, people and the registry do. *)
THEOREM BaselineTypeOK == Spec => []TypeOK
<1>1. IInv => TypeOK
  BY DEF IInv
<1> QED
  BY <1>1, IInvHolds, PTL

(* For any number of overlapping runs an entry never names the publisher or *)
(* the evidence of one release under the version of another                 *)
(* (internal/baseline/baseline.go, merge).                                  *)
THEOREM BaselineRecordedWasSeen == Spec => []RecordedWasSeen
<1>1. IInv => RecordedWasSeen
  BY DEF IInv, HonestInv, RecordedWasSeen
<1> QED
  BY <1>1, IInvHolds, PTL

(* A recorded maintainer set that a run could compare is replaced only by a *)
(* run that reports the change (cli/baseline.go, observe.go).               *)
THEOREM BaselineDriftReported == Spec => []DriftReported
<1>1. IInv => DriftReported
  BY DEF IInv
<1> QED
  BY <1>1, IInvHolds, PTL

(* A diff judges by the base revision's record, whatever the working tree's *)
(* copy was edited to say (observe.go, Lookup).                             *)
THEOREM BaselineBaseDecides == Spec => []BaseDecides
<1>1. IInv => BaseDecides
  <2> SUFFICES ASSUME NEW r \in Runs, NEW p \in Packages, rev[r] # None, Verdict(r, p) # "skip"
               PROVE  /\ rev[r][p] # None
                      /\ Verdict(r, p) = "same" => rev[r][p].maintainers = answers[r][p].owners
                      /\ Verdict(r, p) = "changed" => rev[r][p].maintainers # answers[r][p].owners
    BY DEF BaseDecides, Targets
  <2>1. Lookup(r, p).observed # None /\ ~Lookup(r, p).added
    BY DEF Verdict
  <2>2. rev[r][p] # None
    BY <2>1 DEF Lookup, NotCompared
  <2>3. Lookup(r, p) = [observed |-> rev[r][p], added |-> FALSE]
    BY <2>2 DEF Lookup
  <2> QED
    BY <2>2, <2>3 DEF Verdict
<1> QED
  BY <1>1, IInvHolds, PTL

(* A write that has the file to itself forgets no signal, and no write drops *)
(* a package but for the reasons a snapshot or an overlap gives.            *)
THEOREM BaselineRecordKeeps == Spec => RecordKeeps
<1> DEFINE Signals ==
      \A r \in Runs, p \in Packages :
        (Undisturbed(r) /\ file[p] # None /\ file'[p] # None) =>
          /\ file[p].maintainers # {} => file'[p].maintainers # {}
          /\ file[p].version = file'[p].version =>
               (file[p].provenance # None => file'[p].provenance # None)
    Purpose ==
      \A r \in Runs, p \in Packages :
        (WriteFile(r) /\ file[p] # None /\ file'[p] = None) =>
          \/ kind[r] = "snapshot" /\ whole[r] /\ plan[r][p] = None
          \/ overlap[r] /\ loaded[r] # file
<1>1. IInv /\ [Next]_vars => [Signals]_vars
  <2> SUFFICES ASSUME IInv, NEW r \in Runs, NEW p \in Packages,
                      WriteFile(r), loaded[r] = file, file[p] # None, file'[p] # None
               PROVE  /\ file[p].maintainers # {} => file'[p].maintainers # {}
                      /\ file[p].version = file'[p].version =>
                           (file[p].provenance # None => file'[p].provenance # None)
    BY DEF Undisturbed
  <2>1. file' = Updated(r) /\ phase[r] = "loaded"
    BY DEF WriteFile
  <2>2. CASE p \notin Targets(r)
    BY <2>1, <2>2 DEF Updated
  <2>3. CASE p \in Targets(r)
    <3> DEFINE a == answers[r][p]
    <3>1. file'[p] = Merge(file[p], Observed(p, plan[r][p], a), Missing(a))
      BY <2>1, <2>3 DEF Updated, Put
    <3>2. a \in Answer /\ plan[r][p] \in Versions /\ plan[r][p] # None
      BY <2>1, <2>3, BaselineAssumption DEF IInv, TypeOK, AskedInv, Targets
    <3>3. "maintainers" \notin Missing(a) => a.owners # {}
      BY DEF Missing
    <3>4. file[p].maintainers # {} => file'[p].maintainers # {}
      BY <3>1, <3>3 DEF Merge, Observed
    <3>5. a.release \in {"read", "bare", "unread"}
      BY <3>2 DEF Answer
    <3>6. CASE a.release = "read"
      BY <3>1, <3>2, <3>6 DEF Merge, Observed, Missing, ReadNothing
    <3>7. CASE a.release = "bare"
      BY <3>1, <3>2, <3>7 DEF Merge, Observed, Missing, ReadNothing
    <3>8. CASE a.release = "unread"
      BY <3>1, <3>8 DEF Merge, Observed, Missing, ReadNothing
    <3> QED
      BY <3>4, <3>5, <3>6, <3>7, <3>8
  <2> QED
    BY <2>2, <2>3
<1>2. IInv /\ [Next]_vars => [Purpose]_vars
  <2> SUFFICES ASSUME IInv, NEW r \in Runs, NEW p \in Packages,
                      WriteFile(r), file[p] # None, file'[p] = None
               PROVE  \/ kind[r] = "snapshot" /\ whole[r] /\ plan[r][p] = None
                      \/ overlap[r] /\ loaded[r] # file
    OBVIOUS
  <2>1. file' = Updated(r) /\ phase[r] = "loaded"
    BY DEF WriteFile
  <2>2. CASE ~Kept(r, p)
    BY <2>2 DEF Kept, IInv, KindInv
  <2>3. CASE Kept(r, p)
    <3>1. loaded[r][p] = None
      <4>1. CASE p \notin Targets(r)
        BY <2>1, <2>3, <4>1 DEF Updated
      <4>2. CASE p \in Targets(r)
        <5>1. answers[r][p] \in Answer /\ plan[r][p] \in Versions
          BY <2>1, <4>2 DEF IInv, TypeOK, AskedInv, Targets
        <5>2. loaded[r][p] \in Entry \cup {None} /\ HonestEntry(loaded[r][p])
          BY DEF IInv, TypeOK, HonestInv
        <5>3. Updated(r)[p] = Put(loaded[r][p], Observed(p, plan[r][p], answers[r][p]), Missing(answers[r][p]))
          BY <2>3, <4>2 DEF Updated
        <5> QED
          BY <2>1, <5>1, <5>2, <5>3, PutIsEntry
      <4> QED
        BY <4>1, <4>2
    <3>2. loaded[r] # file
      BY <3>1
    <3> QED
      BY <2>1, <3>2 DEF IInv, CurrentInv
  <2> QED
    BY <2>2, <2>3
<1> QED
  BY <1>1, <1>2, IInvHolds, PTL DEF Spec, RecordKeeps, KnownStaysKnown, ForgottenOnPurpose
-----------------------------------------------------------------------------
(* Diff.  A set of numbers that is not empty has a least one, and Least     *)
(* finds it: that is all the induction the recursive definitions need.      *)
LEMMA LeastIsLeast ==
  ASSUME NEW A \in SUBSET Nat, A # {}
  PROVE  Least(A) \in A /\ \A j \in A : Least(A) <= j
<1> DEFINE R == {ss \in Nat \X Nat : ss[1] < ss[2]}
<1>1. IsWellFoundedOn(R, Nat)
  BY NatLessThanWellFounded, Zenon DEF OpToRel
<1>2. PICK i \in A : \A j \in A : ~(<<j, i>> \in R)
  <2> HIDE DEF R
  <2> QED
    BY <1>1, WFMin
<1>3. \A j \in A : ~(j < i)
  BY <1>2
<1>4. \A j \in A : i <= j
  BY <1>3
<1> QED
  BY <1>4 DEF Least

(* What a line installs does not depend on who asked for it.                *)
Entries(lines) == {[lines[i] EXCEPT !.direct = d] : i \in DOMAIN lines, d \in BOOLEAN}

Alikes(a, b) == Artifact(a) = Artifact(b) /\ (StatesItsArtifact(a) <=> StatesItsArtifact(b))

LEMMA DirectOnly ==
  ASSUME NEW l, IsLine(l), NEW d \in BOOLEAN
  PROVE  LET e == [l EXCEPT !.direct = d]
         IN IsLine(e) /\ Ref(e) = Ref(l) /\ Alikes(e, l)
<1> DEFINE e == [l EXCEPT !.direct = d]
<1>1. l = [name |-> l.name, version |-> l.version, source |-> l.source, hash |-> l.hash,
           location |-> l.location, bundled |-> l.bundled, direct |-> l.direct]
  BY DEF IsLine
<1>2. e = [name |-> l.name, version |-> l.version, source |-> l.source, hash |-> l.hash,
           location |-> l.location, bundled |-> l.bundled, direct |-> d]
  BY <1>1
<1> HIDE DEF e
<1>3. /\ e.name = l.name /\ e.version = l.version /\ e.source = l.source /\ e.hash = l.hash
      /\ e.location = l.location /\ e.bundled = l.bundled /\ e.direct = d
  BY <1>2
<1>4. IsLine(e)
  BY <1>2, <1>3 DEF IsLine
<1> QED
  BY <1>3, <1>4 DEF Ref, Alikes, Artifact, StatesItsArtifact, e

LEMMA EntryOfLine ==
  ASSUME NEW lines, IsFile(lines), NEW e \in Entries(lines)
  PROVE  /\ IsLine(e)
         /\ \E k \in DOMAIN lines : Ref(e) = Ref(lines[k]) /\ Alikes(e, lines[k])
         /\ \A d \in BOOLEAN : /\ [e EXCEPT !.direct = d] \in Entries(lines)
                               /\ Ref([e EXCEPT !.direct = d]) = Ref(e) /\ Alikes([e EXCEPT !.direct = d], e)
<1>1. PICK k \in DOMAIN lines, c \in BOOLEAN : e = [lines[k] EXCEPT !.direct = c]
  BY DEF Entries
<1>2. IsLine(lines[k])
  BY DEF IsFile
<1>3. IsLine(e) /\ Ref(e) = Ref(lines[k]) /\ Alikes(e, lines[k])
  BY <1>1, <1>2, DirectOnly
<1>4. ASSUME NEW d \in BOOLEAN
      PROVE  /\ [e EXCEPT !.direct = d] \in Entries(lines)
             /\ Ref([e EXCEPT !.direct = d]) = Ref(e) /\ Alikes([e EXCEPT !.direct = d], e)
  <2>1. [e EXCEPT !.direct = d] = [lines[k] EXCEPT !.direct = d]
    BY <1>1, <1>2 DEF IsLine
  <2>2. Ref([lines[k] EXCEPT !.direct = d]) = Ref(lines[k]) /\ Alikes([lines[k] EXCEPT !.direct = d], lines[k])
    BY <1>2, DirectOnly
  <2>3. Alikes([e EXCEPT !.direct = d], e)
    BY <1>3, <2>1, <2>2 DEF Alikes
  <2>4. [lines[k] EXCEPT !.direct = d] \in Entries(lines)
    BY DEF Entries
  <2> QED
    BY <1>3, <2>1, <2>2, <2>3, <2>4
<1> QED
  BY <1>3, <1>4

LEMMA LineIsEntry ==
  ASSUME NEW lines, IsFile(lines), NEW k \in DOMAIN lines
  PROVE  IsLine(lines[k]) /\ lines[k] \in Entries(lines)
<1>1. IsLine(lines[k])
  BY DEF IsFile
<1>2. lines[k].direct \in BOOLEAN /\ lines[k] = [lines[k] EXCEPT !.direct = lines[k].direct]
  BY <1>1 DEF IsLine
<1> QED
  BY <1>1, <1>2 DEF Entries

(* Of the first n lines, the ones whose artifact is kept.                   *)
ChosenOf(lines, n, i) ==
  \/ StatesItsArtifact(lines[i])
  \/ \A k \in 1..n : Ref(lines[k]) = Ref(lines[i]) => ~StatesItsArtifact(lines[k]) /\ i <= k

(* What is kept of the first n lines: one entry for each of them, each of   *)
(* an artifact of its own, and of a version the file says nothing about one.*)
Apart(kept) ==
  \A i, j \in DOMAIN kept :
    /\ Artifact(kept[i]) = Artifact(kept[j]) => i = j
    /\ Ref(kept[i]) = Ref(kept[j]) /\ i # j => StatesItsArtifact(kept[i])
EveryVersion(kept, lines, n) ==
  \A k \in 1..n : \E i \in DOMAIN kept : Ref(kept[i]) = Ref(lines[k])
OnlyChosen(kept, lines, n) ==
  \A i \in DOMAIN kept : \E k \in 1..n : ChosenOf(lines, n, k) /\ Alikes(kept[i], lines[k])
AllChosen(kept, lines, n) ==
  \A k \in 1..n : ChosenOf(lines, n, k) => \E i \in DOMAIN kept : Alikes(kept[i], lines[k])

KeptInv(kept, lines, n) ==
  /\ kept \in Seq(Entries(lines))
  /\ Apart(kept)
  /\ EveryVersion(kept, lines, n)
  /\ OnlyChosen(kept, lines, n)
  /\ AllChosen(kept, lines, n)

LEMMA AlikeRef ==
  ASSUME NEW a, NEW b, Alikes(a, b)
  PROVE  Ref(a) = Ref(b)
<1>1. Artifact(a).ref = Ref(a) /\ Artifact(b).ref = Ref(b)
  BY DEF Artifact
<1> QED
  BY <1>1 DEF Alikes

LEMMA ChosenNext ==
  ASSUME NEW lines, NEW n \in Nat
  PROVE  LET l == lines[n + 1]
         IN /\ \A k \in 1..n : ChosenOf(lines, n + 1, k) <=>
                 /\ ChosenOf(lines, n, k)
                 /\ StatesItsArtifact(lines[k]) \/ Ref(l) # Ref(lines[k]) \/ ~StatesItsArtifact(l)
            /\ StatesItsArtifact(l) => ChosenOf(lines, n + 1, n + 1)
            /\ ~StatesItsArtifact(l) =>
                 (ChosenOf(lines, n + 1, n + 1) <=> \A k \in 1..n : Ref(lines[k]) # Ref(l))
<1>1. 1..(n + 1) = (1..n) \cup {n + 1} /\ n + 1 \notin 1..n
  OBVIOUS
<1>2. \A k \in 1..n : k <= n + 1 /\ ~(n + 1 <= k)
  OBVIOUS
<1>3. ASSUME NEW k \in 1..n
      PROVE  ChosenOf(lines, n + 1, k) <=>
               /\ ChosenOf(lines, n, k)
               /\ StatesItsArtifact(lines[k]) \/ Ref(lines[n + 1]) # Ref(lines[k]) \/ ~StatesItsArtifact(lines[n + 1])
  BY <1>1, <1>2 DEF ChosenOf
<1>4. StatesItsArtifact(lines[n + 1]) => ChosenOf(lines, n + 1, n + 1)
  BY DEF ChosenOf
<1>5. ~StatesItsArtifact(lines[n + 1]) =>
        (ChosenOf(lines, n + 1, n + 1) <=> \A k \in 1..n : Ref(lines[k]) # Ref(lines[n + 1]))
  BY <1>1, <1>2 DEF ChosenOf
<1> QED
  BY <1>3, <1>4, <1>5

(* A line folds into an entry: nothing is lost or brought in.               *)
LEMMA FoldKeeps ==
  ASSUME NEW lines, IsFile(lines), NEW n \in Nat, n + 1 \in DOMAIN lines, NEW kept, KeptInv(kept, lines, n),
         NEW a \in DOMAIN kept, Ref(kept[a]) = Ref(lines[n + 1]),
         StatesItsArtifact(lines[n + 1]) => Alikes(kept[a], lines[n + 1])
  PROVE  KeptInv(Fold(kept, a, lines[n + 1]), lines, n + 1)
<1> DEFINE l == lines[n + 1]
           d == kept[a].direct \/ l.direct
           new == Fold(kept, a, l)
<1>0. 1..(n + 1) = (1..n) \cup {n + 1}
  OBVIOUS
<1>1. IsLine(l) /\ l \in Entries(lines)
  BY LineIsEntry
<1>2. /\ kept \in Seq(Entries(lines)) /\ DOMAIN kept = 1..Len(kept) /\ Len(kept) \in Nat
      /\ \A i \in DOMAIN kept : kept[i] \in Entries(lines)
  BY DEF KeptInv
<1>3. d \in BOOLEAN
  OBVIOUS
<1>4. new = [kept EXCEPT ![a] = [kept[a] EXCEPT !.direct = d]]
  BY <1>1, <1>2 DEF Fold
<1>5. /\ [kept[a] EXCEPT !.direct = d] \in Entries(lines)
      /\ Ref([kept[a] EXCEPT !.direct = d]) = Ref(kept[a])
      /\ Alikes([kept[a] EXCEPT !.direct = d], kept[a])
  BY <1>2, <1>3, EntryOfLine
<1> HIDE DEF d, new, l
<1>6. /\ new \in Seq(Entries(lines)) /\ DOMAIN new = DOMAIN kept
      /\ \A i \in DOMAIN kept : Ref(new[i]) = Ref(kept[i]) /\ Alikes(new[i], kept[i])
  BY <1>2, <1>4, <1>5 DEF Alikes
<1>7. /\ \A k \in 1..n : ChosenOf(lines, n + 1, k) <=>
           /\ ChosenOf(lines, n, k)
           /\ StatesItsArtifact(lines[k]) \/ Ref(l) # Ref(lines[k]) \/ ~StatesItsArtifact(l)
      /\ ~StatesItsArtifact(l) =>
           (ChosenOf(lines, n + 1, n + 1) <=> \A k \in 1..n : Ref(lines[k]) # Ref(l))
      /\ StatesItsArtifact(l) => ChosenOf(lines, n + 1, n + 1)
  BY ChosenNext, Zenon DEF l
<1>8. Apart(new)
  BY <1>6 DEF KeptInv, Apart, Alikes
<1>9. EveryVersion(new, lines, n + 1)
  BY <1>0, <1>6 DEF KeptInv, EveryVersion, l
<1>10. PICK q \in 1..n : ChosenOf(lines, n, q) /\ Alikes(kept[a], lines[q])
  BY DEF KeptInv, OnlyChosen
<1>11. Ref(lines[q]) = Ref(l)
  BY <1>10, AlikeRef DEF l
\* An unstated entry of this version would be another one than a.
<1>12. ASSUME StatesItsArtifact(l), NEW i \in DOMAIN kept, NEW k \in 1..n, ChosenOf(lines, n, k), Alikes(kept[i], lines[k])
       PROVE  StatesItsArtifact(lines[k]) \/ Ref(l) # Ref(lines[k])
  <2>1. Ref(kept[i]) = Ref(lines[k])
    BY <1>12, AlikeRef
  <2>2. StatesItsArtifact(kept[a])
    BY <1>12 DEF Alikes, l
  <2> QED
    BY <1>12, <2>1, <2>2 DEF KeptInv, Apart, Alikes, l
<1>13. OnlyChosen(new, lines, n + 1)
  <2> SUFFICES ASSUME NEW i \in DOMAIN kept
               PROVE  \E k \in 1..(n + 1) : ChosenOf(lines, n + 1, k) /\ Alikes(new[i], lines[k])
    BY <1>6 DEF OnlyChosen
  <2>1. PICK k \in 1..n : ChosenOf(lines, n, k) /\ Alikes(kept[i], lines[k])
    BY DEF KeptInv, OnlyChosen
  <2>2. ChosenOf(lines, n + 1, k)
    BY <1>7, <1>12, <2>1
  <2>3. Alikes(new[i], lines[k])
    BY <1>6, <2>1 DEF Alikes
  <2> QED
    BY <1>0, <2>2, <2>3
<1>14. AllChosen(new, lines, n + 1)
  <2> SUFFICES ASSUME NEW k \in 1..(n + 1), ChosenOf(lines, n + 1, k)
               PROVE  \E i \in DOMAIN kept : Alikes(new[i], lines[k])
    BY <1>6 DEF AllChosen
  <2>1. CASE k \in 1..n
    <3>1. PICK i \in DOMAIN kept : Alikes(kept[i], lines[k])
      BY <1>7, <2>1 DEF KeptInv, AllChosen
    <3> QED
      BY <1>6, <3>1 DEF Alikes
  <2>2. CASE k = n + 1
    <3>1. StatesItsArtifact(l)
      BY <1>7, <1>10, <1>11, <2>2
    <3>2. Alikes(kept[a], lines[k])
      BY <2>2, <3>1 DEF l
    <3> QED
      BY <1>6, <3>2 DEF Alikes
  <2> QED
    BY <1>0, <2>1, <2>2
<1>15. KeptInv(new, lines, n + 1)
  BY <1>6, <1>8, <1>9, <1>13, <1>14 DEF KeptInv
<1> QED
  BY <1>15 DEF new, l

(* The first line that states an artifact takes the place of one that does  *)
(* not.                                                                     *)
LEMMA ReplaceKeeps ==
  ASSUME NEW lines, IsFile(lines), NEW n \in Nat, n + 1 \in DOMAIN lines, NEW kept, KeptInv(kept, lines, n),
         NEW a \in DOMAIN kept, Ref(kept[a]) = Ref(lines[n + 1]),
         StatesItsArtifact(lines[n + 1]), ~StatesItsArtifact(kept[a]),
         NEW d \in BOOLEAN
  PROVE  KeptInv([kept EXCEPT ![a] = [lines[n + 1] EXCEPT !.direct = d]], lines, n + 1)
<1> DEFINE l == lines[n + 1]
           e == [lines[n + 1] EXCEPT !.direct = d]
           new == [kept EXCEPT ![a] = e]
<1>0. 1..(n + 1) = (1..n) \cup {n + 1}
  OBVIOUS
<1>1. e \in Entries(lines) /\ Ref(e) = Ref(l) /\ Alikes(e, l)
  <2>1. IsLine(l)
    BY LineIsEntry
  <2>2. Ref(e) = Ref(l) /\ Alikes(e, l)
    BY <2>1, DirectOnly, Zenon
  <2>3. e \in Entries(lines)
    BY DEF Entries
  <2> QED
    BY <2>2, <2>3
<1>2. /\ kept \in Seq(Entries(lines)) /\ DOMAIN kept = 1..Len(kept) /\ Len(kept) \in Nat
  BY DEF KeptInv
<1> HIDE DEF e, l
<1>3. /\ new \in Seq(Entries(lines)) /\ DOMAIN new = DOMAIN kept /\ new[a] = e
      /\ \A i \in DOMAIN kept : i # a => new[i] = kept[i]
  BY <1>1, <1>2
<1> HIDE DEF new
<1>4. \A i \in DOMAIN kept : i # a => Ref(kept[i]) # Ref(l)
  BY DEF KeptInv, Apart, l
<1>5. \A i \in DOMAIN kept : Ref(new[i]) = Ref(kept[i])
  BY <1>1, <1>3 DEF l
<1>6. \A i \in DOMAIN kept : Artifact(kept[i]).ref = Ref(kept[i]) /\ Artifact(e).ref = Ref(e)
  BY DEF Artifact
<1>7. /\ \A k \in 1..n : ChosenOf(lines, n + 1, k) <=>
           /\ ChosenOf(lines, n, k)
           /\ StatesItsArtifact(lines[k]) \/ Ref(l) # Ref(lines[k])
      /\ ChosenOf(lines, n + 1, n + 1)
  BY ChosenNext, Zenon DEF l
<1>8. Apart(new)
  <2> SUFFICES ASSUME NEW i \in DOMAIN kept, NEW j \in DOMAIN kept
               PROVE  /\ Artifact(new[i]) = Artifact(new[j]) => i = j
                      /\ Ref(new[i]) = Ref(new[j]) /\ i # j => StatesItsArtifact(new[i])
    BY <1>3 DEF Apart
  <2>1. CASE i # a /\ j # a
    BY <1>3, <2>1 DEF KeptInv, Apart
  <2>2. CASE i = a \/ j = a
    BY <1>1, <1>3, <1>4, <1>6, <2>2
  <2> QED
    BY <2>1, <2>2
<1>9. EveryVersion(new, lines, n + 1)
  BY <1>0, <1>1, <1>3, <1>5 DEF KeptInv, EveryVersion, l
<1>10. OnlyChosen(new, lines, n + 1)
  <2> SUFFICES ASSUME NEW i \in DOMAIN kept
               PROVE  \E k \in 1..(n + 1) : ChosenOf(lines, n + 1, k) /\ Alikes(new[i], lines[k])
    BY <1>3 DEF OnlyChosen
  <2>1. CASE i = a
    BY <1>0, <1>1, <1>3, <1>7, <2>1 DEF l
  <2>2. CASE i # a
    <3>1. PICK k \in 1..n : ChosenOf(lines, n, k) /\ Alikes(kept[i], lines[k])
      BY DEF KeptInv, OnlyChosen
    <3>2. Ref(lines[k]) # Ref(l)
      BY <1>4, <2>2, <3>1, AlikeRef
    <3> QED
      BY <1>0, <1>3, <1>7, <2>2, <3>1, <3>2
  <2> QED
    BY <2>1, <2>2
<1>11. AllChosen(new, lines, n + 1)
  <2> SUFFICES ASSUME NEW k \in 1..(n + 1), ChosenOf(lines, n + 1, k)
               PROVE  \E i \in DOMAIN kept : Alikes(new[i], lines[k])
    BY <1>3 DEF AllChosen
  <2>1. CASE k \in 1..n
    <3>1. PICK i \in DOMAIN kept : Alikes(kept[i], lines[k])
      BY <1>7, <2>1 DEF KeptInv, AllChosen
    <3>2. i # a
      <4>1. Ref(kept[i]) = Ref(lines[k])
        BY <3>1, AlikeRef
      <4> QED
        BY <1>7, <2>1, <3>1, <4>1 DEF Alikes, l
    <3> QED
      BY <1>3, <3>1, <3>2
  <2>2. CASE k = n + 1
    BY <1>1, <1>3, <2>2 DEF l
  <2> QED
    BY <1>0, <2>1, <2>2
<1>12. KeptInv(new, lines, n + 1)
  BY <1>3, <1>8, <1>9, <1>10, <1>11 DEF KeptInv
<1> QED
  BY <1>12 DEF new, e

(* A line is kept beside the others: no other entry has its artifact, and   *)
(* none of its version says nothing.                                        *)
LEMMA AppendKeeps ==
  ASSUME NEW lines, IsFile(lines), NEW n \in Nat, n + 1 \in DOMAIN lines, NEW kept, KeptInv(kept, lines, n),
         \A i \in DOMAIN kept : Ref(kept[i]) = Ref(lines[n + 1]) =>
           /\ StatesItsArtifact(lines[n + 1]) /\ StatesItsArtifact(kept[i])
           /\ Artifact(kept[i]) # Artifact(lines[n + 1])
  PROVE  KeptInv(Append(kept, lines[n + 1]), lines, n + 1)
<1> DEFINE l == lines[n + 1]
           new == Append(kept, l)
           last == Len(kept) + 1
<1>0. 1..(n + 1) = (1..n) \cup {n + 1}
  OBVIOUS
<1>1. l \in Entries(lines)
  BY LineIsEntry
<1>2. /\ kept \in Seq(Entries(lines)) /\ DOMAIN kept = 1..Len(kept) /\ Len(kept) \in Nat
  BY DEF KeptInv
<1> HIDE DEF l
<1>3. /\ new \in Seq(Entries(lines)) /\ DOMAIN new = DOMAIN kept \cup {last} /\ new[last] = l
      /\ last \notin DOMAIN kept /\ \A i \in DOMAIN kept : new[i] = kept[i]
  BY <1>1, <1>2
<1> HIDE DEF new, last
<1>4. \A i \in DOMAIN kept : Ref(kept[i]) = Ref(l) =>
        StatesItsArtifact(l) /\ StatesItsArtifact(kept[i]) /\ Artifact(kept[i]) # Artifact(l)
  BY DEF l
<1>5. \A i \in DOMAIN kept : Artifact(kept[i]).ref = Ref(kept[i]) /\ Artifact(l).ref = Ref(l)
  BY DEF Artifact
<1>6. Alikes(l, l)
  BY DEF Alikes
<1>7. /\ \A k \in 1..n : ChosenOf(lines, n + 1, k) <=>
           /\ ChosenOf(lines, n, k)
           /\ StatesItsArtifact(lines[k]) \/ Ref(l) # Ref(lines[k]) \/ ~StatesItsArtifact(l)
      /\ ~StatesItsArtifact(l) =>
           (ChosenOf(lines, n + 1, n + 1) <=> \A k \in 1..n : Ref(lines[k]) # Ref(l))
      /\ StatesItsArtifact(l) => ChosenOf(lines, n + 1, n + 1)
  BY ChosenNext, Zenon DEF l
<1>8. ChosenOf(lines, n + 1, n + 1)
  <2>1. ASSUME ~StatesItsArtifact(l), NEW k \in 1..n PROVE Ref(lines[k]) # Ref(l)
    BY <1>4, <2>1 DEF KeptInv, EveryVersion
  <2> QED
    BY <1>7, <2>1
<1>9. Apart(new)
  <2> SUFFICES ASSUME NEW i \in DOMAIN new, NEW j \in DOMAIN new
               PROVE  /\ Artifact(new[i]) = Artifact(new[j]) => i = j
                      /\ Ref(new[i]) = Ref(new[j]) /\ i # j => StatesItsArtifact(new[i])
    BY DEF Apart
  <2>1. CASE i # last /\ j # last
    BY <1>3, <2>1 DEF KeptInv, Apart
  <2>2. CASE i = last /\ j # last
    BY <1>3, <1>4, <1>5, <2>2
  <2>3. CASE j = last /\ i # last
    BY <1>3, <1>4, <1>5, <2>3
  <2> QED
    BY <2>1, <2>2, <2>3
<1>10. EveryVersion(new, lines, n + 1)
  BY <1>0, <1>3 DEF KeptInv, EveryVersion, l
<1>11. OnlyChosen(new, lines, n + 1)
  <2> SUFFICES ASSUME NEW i \in DOMAIN new
               PROVE  \E k \in 1..(n + 1) : ChosenOf(lines, n + 1, k) /\ Alikes(new[i], lines[k])
    BY DEF OnlyChosen
  <2>1. CASE i = last
    BY <1>0, <1>3, <1>6, <1>8, <2>1 DEF l
  <2>2. CASE i # last
    <3>0. i \in DOMAIN kept
      BY <1>3, <2>2
    <3>1. PICK k \in 1..n : ChosenOf(lines, n, k) /\ Alikes(kept[i], lines[k])
      BY <3>0 DEF KeptInv, OnlyChosen
    <3>2. StatesItsArtifact(lines[k]) \/ Ref(l) # Ref(lines[k]) \/ ~StatesItsArtifact(l)
      BY <1>4, <3>0, <3>1, AlikeRef DEF Alikes
    <3> QED
      BY <1>0, <1>3, <1>7, <3>0, <3>1, <3>2
  <2> QED
    BY <2>1, <2>2
<1>12. AllChosen(new, lines, n + 1)
  <2> SUFFICES ASSUME NEW k \in 1..(n + 1), ChosenOf(lines, n + 1, k)
               PROVE  \E i \in DOMAIN new : Alikes(new[i], lines[k])
    BY DEF AllChosen
  <2>1. CASE k \in 1..n
    <3>1. PICK i \in DOMAIN kept : Alikes(kept[i], lines[k])
      BY <1>7, <2>1 DEF KeptInv, AllChosen
    <3> QED
      BY <1>3, <3>1
  <2>2. CASE k = n + 1
    BY <1>3, <1>6, <2>2 DEF l
  <2> QED
    BY <1>0, <2>1, <2>2
<1>13. KeptInv(new, lines, n + 1)
  BY <1>3, <1>9, <1>10, <1>11, <1>12 DEF KeptInv
<1> QED
  BY <1>13 DEF new, l

LEMMA InstallKeeps ==
  ASSUME NEW lines, IsFile(lines), NEW n \in Nat, n + 1 \in DOMAIN lines, NEW kept, KeptInv(kept, lines, n)
  PROVE  KeptInv(Install(kept, lines[n + 1]), lines, n + 1)
<1> DEFINE l == lines[n + 1]
           same == {i \in DOMAIN kept : Ref(kept[i]) = Ref(l)}
           twin == {i \in same : StatesItsArtifact(kept[i]) /\ SameArtifact(kept[i], l)}
           into == IF StatesItsArtifact(l) THEN twin ELSE same
<1>1. DOMAIN kept \subseteq Nat
  BY DEF KeptInv
<1>2. /\ into # {} => Least(into) \in into
      /\ same # {} => Least(same) \in same
  BY <1>1, LeastIsLeast
<1>3. CASE into # {}
  <2> DEFINE a == Least(into)
  <2>1. /\ a \in DOMAIN kept /\ Ref(kept[a]) = Ref(l)
        /\ StatesItsArtifact(l) => Alikes(kept[a], l)
    BY <1>2, <1>3 DEF SameArtifact, Alikes
  <2>2. Install(kept, l) = Fold(kept, a, l)
    BY <1>3 DEF Install
  <2> HIDE DEF a
  <2> QED
    BY <2>1, <2>2, FoldKeeps
<1>4. CASE into = {} /\ same # {} /\ ~StatesItsArtifact(kept[Least(same)])
  <2> DEFINE a == Least(same)
             d == l.direct \/ kept[a].direct
  <2>1. a \in DOMAIN kept /\ Ref(kept[a]) = Ref(l) /\ StatesItsArtifact(l) /\ ~StatesItsArtifact(kept[a])
    BY <1>2, <1>4
  <2>2. Install(kept, l) = [kept EXCEPT ![a] = [l EXCEPT !.direct = d]]
    <3>1. IsLine(l)
      BY LineIsEntry
    <3>2. [l EXCEPT !.direct = @ \/ kept[a].direct] = [l EXCEPT !.direct = d]
      BY <3>1 DEF IsLine
    <3> QED
      BY <1>4, <3>2 DEF Install
  <2>3. d \in BOOLEAN
    OBVIOUS
  <2> HIDE DEF a, d
  <2> QED
    BY <2>1, <2>2, <2>3, ReplaceKeeps
<1>5. CASE into = {} /\ ~(same # {} /\ ~StatesItsArtifact(kept[Least(same)]))
  <2>1. Install(kept, l) = Append(kept, l)
    BY <1>5 DEF Install
  <2>2. ASSUME NEW i \in DOMAIN kept, Ref(kept[i]) = Ref(l)
        PROVE  StatesItsArtifact(l) /\ StatesItsArtifact(kept[i]) /\ Artifact(kept[i]) # Artifact(l)
    <3>1. i \in same /\ Least(same) \in same /\ StatesItsArtifact(kept[Least(same)]) /\ StatesItsArtifact(l)
      BY <1>2, <1>5, <2>2
    <3>2. StatesItsArtifact(kept[i])
      BY <3>1 DEF KeptInv, Apart
    <3> QED
      BY <1>5, <3>1, <3>2 DEF SameArtifact
  <2> QED
    BY <2>1, <2>2, AppendKeeps
<1> QED
  BY <1>3, <1>4, <1>5

(* The entries kept of the first n lines, for every n: the recursive        *)
(* definition inside Installs has them.                                     *)
KeptOf(kept, lines, m) ==
  kept = [n \in 0..m |-> IF n = 0 THEN <<>> ELSE Install(kept[n - 1], lines[n])]

LEMMA KeptExists ==
  ASSUME NEW lines, NEW len \in Nat
  PROVE  \E kept : KeptOf(kept, lines, len)
<1> SUFFICES ASSUME ~ \E kept : KeptOf(kept, lines, len) PROVE FALSE
  OBVIOUS
<1> DEFINE without == {m \in Nat : ~ \E kept : KeptOf(kept, lines, m)}
<1>1. PICK m \in without : \A k \in without : m <= k
  <2>1. without \in SUBSET Nat /\ without # {}
    OBVIOUS
  <2> HIDE DEF without
  <2> QED
    BY <2>1, LeastIsLeast
<1>2. CASE m = 0
  <2>1. KeptOf([n \in 0..0 |-> <<>>], lines, 0)
    BY DEF KeptOf
  <2> QED
    BY <1>1, <1>2, <2>1
<1>3. CASE m # 0
  <2>1. m - 1 \in Nat /\ m - 1 \notin without
    BY <1>1, <1>3
  <2>2. PICK f : KeptOf(f, lines, m - 1)
    BY <2>1
  <2> DEFINE g == [n \in 0..m |-> IF n = m THEN Install(f[m - 1], lines[m]) ELSE f[n]]
  <2>3. \A n \in 0..(m - 1) : f[n] = IF n = 0 THEN <<>> ELSE Install(f[n - 1], lines[n])
    BY <2>2 DEF KeptOf
  <2>4. ASSUME NEW n \in 0..m PROVE g[n] = IF n = 0 THEN <<>> ELSE Install(g[n - 1], lines[n])
    <3>1. n # 0 => n - 1 \in 0..m /\ n - 1 # m /\ g[n - 1] = f[n - 1]
      BY <1>3
    <3>2. CASE n = m
      BY <1>3, <3>1, <3>2
    <3>3. CASE n # m
      <4>1. n \in 0..(m - 1)
        BY <3>3
      <4> QED
        BY <2>3, <3>1, <3>3, <4>1
    <3> QED
      BY <3>2, <3>3
  <2>5. KeptOf(g, lines, m)
    BY <2>4 DEF KeptOf
  <2> QED
    BY <1>1, <2>5
<1> QED
  BY <1>2, <1>3

LEMMA KeptIs ==
  ASSUME NEW lines, Len(lines) \in Nat
  PROVE  \E kept : KeptOf(kept, lines, Len(lines)) /\ Installs(lines) = kept[Len(lines)]
<1> DEFINE kept == CHOOSE kept : kept = [n \in 0..Len(lines) |-> IF n = 0 THEN <<>> ELSE Install(kept[n - 1], lines[n])]
<1>1. Installs(lines) = kept[Len(lines)]
  BY DEF Installs
<1>2. KeptOf(kept, lines, Len(lines))
  BY KeptExists, Zenon DEF KeptOf
<1> HIDE DEF kept
<1> QED
  BY <1>1, <1>2

(* Line by line, KeptInv holds of what is kept.                             *)
LEMMA InstallsKeeps ==
  ASSUME NEW lines, IsFile(lines)
  PROVE  KeptInv(Installs(lines), lines, Len(lines))
<1>1. Len(lines) \in Nat /\ DOMAIN lines = 1..Len(lines)
  BY DEF IsFile
<1>2. PICK kept : KeptOf(kept, lines, Len(lines)) /\ Installs(lines) = kept[Len(lines)]
  BY <1>1, KeptIs
<1>3. \A n \in 0..Len(lines) : kept[n] = IF n = 0 THEN <<>> ELSE Install(kept[n - 1], lines[n])
  BY <1>2 DEF KeptOf
<1> DEFINE broken == {n \in 0..Len(lines) : ~KeptInv(kept[n], lines, n)}
<1>4. ASSUME broken # {} PROVE FALSE
  <2>1. broken \in SUBSET Nat
    OBVIOUS
  <2>2. PICK n \in broken : \A k \in broken : n <= k
    <3> HIDE DEF broken
    <3> QED
      BY <1>4, <2>1, LeastIsLeast
  <2>3. CASE n = 0
    <3>1. kept[n] = <<>>
      BY <1>1, <1>3, <2>3
    <3>2. KeptInv(<<>>, lines, 0)
      BY DEF KeptInv, Apart, EveryVersion, OnlyChosen, AllChosen
    <3> QED
      BY <2>2, <2>3, <3>1, <3>2
  <2>4. CASE n # 0
    <3>1. /\ n - 1 \in Nat /\ n - 1 \in 0..Len(lines) /\ (n - 1) + 1 = n /\ n \in DOMAIN lines
          /\ n - 1 \notin broken
      BY <1>1, <2>2, <2>4
    <3>2. KeptInv(kept[n - 1], lines, n - 1)
      BY <3>1
    <3>3. kept[n] = Install(kept[n - 1], lines[n])
      BY <1>3, <2>4
    <3>4. KeptInv(Install(kept[n - 1], lines[(n - 1) + 1]), lines, (n - 1) + 1)
      <4>1. n - 1 \in Nat /\ (n - 1) + 1 \in DOMAIN lines
        BY <3>1
      <4> DEFINE m == n - 1
                 k == kept[m]
      <4>2. m \in Nat /\ m + 1 \in DOMAIN lines /\ KeptInv(k, lines, m)
        BY <3>2, <4>1
      <4> HIDE DEF m, k
      <4>3. KeptInv(Install(k, lines[m + 1]), lines, m + 1)
        BY <4>2, InstallKeeps
      <4> QED
        BY <4>3 DEF m, k
    <3>5. KeptInv(kept[n], lines, n)
      BY <3>1, <3>3, <3>4
    <3> QED
      BY <2>2, <3>5
  <2> QED
    BY <2>3, <2>4
<1>5. KeptInv(kept[Len(lines)], lines, Len(lines))
  BY <1>1, <1>4
<1> QED
  BY <1>2, <1>5

(* What the entries of a content are: the artifacts it brings in, each once.*)
LEMMA EntriesBring ==
  ASSUME NEW c, IsContent(c)
  PROVE  /\ EntriesOf(c) \in Seq({EntriesOf(c)[i] : i \in DOMAIN EntriesOf(c)})
         /\ DOMAIN EntriesOf(c) = 1..Len(EntriesOf(c)) /\ Len(EntriesOf(c)) \in Nat
         /\ \A i, j \in DOMAIN EntriesOf(c) :
              Artifact(EntriesOf(c)[i]) = Artifact(EntriesOf(c)[j]) => i = j
         /\ {Artifact(EntriesOf(c)[i]) : i \in DOMAIN EntriesOf(c)} = Brings(c)
<1>1. CASE c.kind # "lines"
  <2>1. EntriesOf(c) = <<>> /\ Brings(c) = {}
    BY <1>1 DEF EntriesOf, Brings
  <2> QED
    BY <2>1
<1>2. CASE c.kind = "lines"
  <2> DEFINE lines == c.lines
             kept == Installs(lines)
  <2>1. EntriesOf(c) = kept /\ IsFile(lines)
    BY <1>2 DEF EntriesOf, IsContent
  <2>2. Brings(c) = {Artifact(lines[i]) : i \in {k \in DOMAIN lines : Chosen(lines, k)}}
    BY <1>2 DEF Brings
  <2>3. DOMAIN lines = 1..Len(lines) /\ Len(lines) \in Nat
    BY <2>1 DEF IsFile
  <2>4. KeptInv(kept, lines, Len(lines))
    BY <2>1, InstallsKeeps
  <2> HIDE DEF kept, lines
  <2>5. /\ kept \in Seq(Entries(lines)) /\ DOMAIN kept = 1..Len(kept) /\ Len(kept) \in Nat
        /\ kept \in Seq({kept[i] : i \in DOMAIN kept})
    BY <2>4 DEF KeptInv
  <2>6. \A k \in DOMAIN lines : Chosen(lines, k) <=> ChosenOf(lines, Len(lines), k)
    BY <2>3 DEF Chosen, ChosenOf
  <2>7. ASSUME NEW i \in DOMAIN kept PROVE Artifact(kept[i]) \in Brings(c)
    <3>1. PICK k \in 1..Len(lines) : ChosenOf(lines, Len(lines), k) /\ Alikes(kept[i], lines[k])
      BY <2>4 DEF KeptInv, OnlyChosen
    <3> QED
      BY <2>2, <2>3, <2>6, <3>1 DEF Alikes
  <2>8. ASSUME NEW k \in DOMAIN lines, Chosen(lines, k)
        PROVE  Artifact(lines[k]) \in {Artifact(kept[i]) : i \in DOMAIN kept}
    <3>1. PICK i \in DOMAIN kept : Alikes(kept[i], lines[k])
      BY <2>3, <2>4, <2>6, <2>8 DEF KeptInv, AllChosen
    <3> QED
      BY <3>1 DEF Alikes
  <2>9. {Artifact(kept[i]) : i \in DOMAIN kept} = Brings(c)
    BY <2>2, <2>7, <2>8
  <2>10. \A i, j \in DOMAIN kept : Artifact(kept[i]) = Artifact(kept[j]) => i = j
    BY <2>4 DEF KeptInv, Apart
  <2> QED
    BY <2>1, <2>5, <2>9, <2>10
<1> QED
  BY <1>1, <1>2

(* A pairing: every head entry has one base entry or none, and no base      *)
(* entry has two.                                                           *)
Pairing(p, N, M) ==
  /\ p \in [1..N -> 0..M]
  /\ \A i, k \in 1..N : p[i] = p[k] /\ p[i] # 0 => i = k

\* What a pass has made of a pairing when it has seen the first n head entries.
Passed(q, suited, partner, n, N, M) ==
  /\ Pairing(q, N, M)
  /\ \A i \in 1..N : partner[i] # 0 => q[i] = partner[i]
  /\ \A i \in 1..N : q[i] # partner[i] => q[i] \in suited[i]
  /\ \A i \in 1..n : q[i] = 0 => \A j \in suited[i] : \E k \in 1..N : q[k] = j

LEMMA PairStep ==
  ASSUME NEW N \in Nat, NEW M \in Nat, NEW suited \in [1..N -> SUBSET (1..M)],
         NEW partner, NEW n \in 1..N, NEW q, Passed(q, suited, partner, n - 1, N, M)
  PROVE  Passed(Pair(suited, q, n), suited, partner, n, N, M)
<1>0. n \in Nat /\ 1..n = (1..(n - 1)) \cup {n} /\ 1..n \subseteq 1..N
  OBVIOUS
<1>1. /\ q \in [1..N -> 0..M] /\ \A i, k \in 1..N : q[i] = q[k] /\ q[i] # 0 => i = k
      /\ \A i \in 1..N : partner[i] # 0 => q[i] = partner[i]
      /\ \A i \in 1..N : q[i] # partner[i] => q[i] \in suited[i]
      /\ \A i \in 1..(n - 1) : q[i] = 0 => \A j \in suited[i] : \E k \in 1..N : q[k] = j
  BY DEF Passed, Pairing
<1>2. Free(suited, q, n) = suited[n] \ {q[k] : k \in 1..N}
  BY <1>1 DEF Free
<1>3. CASE q[n] # 0 \/ Free(suited, q, n) = {}
  <2>1. Pair(suited, q, n) = q
    BY <1>3 DEF Pair
  <2>2. q[n] = 0 => \A j \in suited[n] : j \in {q[k] : k \in 1..N}
    BY <1>2, <1>3
  <2>3. q[n] = 0 => \A j \in suited[n] : \E k \in 1..N : q[k] = j
    BY <2>2
  <2>4. \A i \in 1..n : q[i] = 0 => \A j \in suited[i] : \E k \in 1..N : q[k] = j
    BY <1>0, <1>1, <2>3
  <2> QED
    BY <2>1, <2>4 DEF Passed
<1>4. CASE ~(q[n] # 0 \/ Free(suited, q, n) = {})
  <2> DEFINE x == Least(Free(suited, q, n))
             r == [q EXCEPT ![n] = x]
  <2>1. Pair(suited, q, n) = r
    BY <1>4 DEF Pair
  <2>2. x \in suited[n] /\ x \in 1..M /\ x # 0 /\ \A k \in 1..N : q[k] # x
    <3>1. Free(suited, q, n) \in SUBSET Nat
      BY <1>2
    <3>2. x \in Free(suited, q, n)
      BY <1>4, <3>1, LeastIsLeast
    <3>3. x \in suited[n] /\ x \in 1..M /\ \A k \in 1..N : q[k] # x
      BY <1>2, <3>2
    <3> HIDE DEF x
    <3> QED
      BY <3>3
  <2> HIDE DEF x
  <2>3. r \in [1..N -> 0..M] /\ r[n] = x /\ \A i \in 1..N : i # n => r[i] = q[i]
    BY <1>1, <2>2
  <2> HIDE DEF r
  <2>4. Pairing(r, N, M)
    <3>1. ASSUME NEW i \in 1..N, NEW k \in 1..N, r[i] = r[k], r[i] # 0 PROVE i = k
      <4>1. CASE i # n /\ k # n
        BY <1>1, <2>3, <3>1, <4>1
      <4>2. CASE i = n \/ k = n
        BY <2>2, <2>3, <3>1, <4>2
      <4> QED
        BY <4>1, <4>2
    <3> QED
      BY <2>3, <3>1 DEF Pairing
  <2>5. \A i \in 1..N : partner[i] # 0 => r[i] = partner[i]
    BY <1>1, <1>4, <2>3
  <2>6. \A i \in 1..N : r[i] # partner[i] => r[i] \in suited[i]
    BY <1>1, <2>2, <2>3
  <2>7. ASSUME NEW i \in 1..n, r[i] = 0, NEW j \in suited[i] PROVE \E k \in 1..N : r[k] = j
    <3>1. i # n /\ i \in 1..(n - 1) /\ q[i] = 0 /\ j # 0
      BY <1>0, <2>2, <2>3, <2>7
    <3>2. PICK k \in 1..N : q[k] = j
      BY <1>1, <2>7, <3>1
    <3> QED
      BY <1>4, <2>3, <3>1, <3>2
  <2>8. Passed(r, suited, partner, n, N, M)
    BY <2>4, <2>5, <2>6, <2>7 DEF Passed
  <2> QED
    BY <2>1, <2>8
<1> QED
  BY <1>3, <1>4

PassOf(pass, suited, partner, m) ==
  pass = [n \in 0..m |-> IF n = 0 THEN partner ELSE Pair(suited, pass[n - 1], n)]

LEMMA PassExists ==
  ASSUME NEW suited, NEW partner, NEW len \in Nat
  PROVE  \E pass : PassOf(pass, suited, partner, len)
<1> SUFFICES ASSUME ~ \E pass : PassOf(pass, suited, partner, len) PROVE FALSE
  OBVIOUS
<1> DEFINE without == {m \in Nat : ~ \E pass : PassOf(pass, suited, partner, m)}
<1>1. PICK m \in without : \A k \in without : m <= k
  <2>1. without \in SUBSET Nat /\ without # {}
    OBVIOUS
  <2> HIDE DEF without
  <2> QED
    BY <2>1, LeastIsLeast
<1>2. CASE m = 0
  <2>1. PassOf([n \in 0..0 |-> partner], suited, partner, 0)
    BY DEF PassOf
  <2> QED
    BY <1>1, <1>2, <2>1
<1>3. CASE m # 0
  <2>1. m - 1 \in Nat /\ m - 1 \notin without
    BY <1>1, <1>3
  <2>2. PICK f : PassOf(f, suited, partner, m - 1)
    BY <2>1
  <2> DEFINE g == [n \in 0..m |-> IF n = m THEN Pair(suited, f[m - 1], m) ELSE f[n]]
  <2>3. \A n \in 0..(m - 1) : f[n] = IF n = 0 THEN partner ELSE Pair(suited, f[n - 1], n)
    BY <2>2 DEF PassOf
  <2>4. ASSUME NEW n \in 0..m PROVE g[n] = IF n = 0 THEN partner ELSE Pair(suited, g[n - 1], n)
    <3>1. n # 0 => n - 1 \in 0..m /\ n - 1 # m /\ g[n - 1] = f[n - 1]
      BY <1>3
    <3>2. CASE n = m
      BY <1>3, <3>1, <3>2
    <3>3. CASE n # m
      <4>1. n \in 0..(m - 1)
        BY <3>3
      <4> QED
        BY <2>3, <3>1, <3>3, <4>1
    <3> QED
      BY <3>2, <3>3
  <2>5. PassOf(g, suited, partner, m)
    BY <2>4 DEF PassOf
  <2> QED
    BY <1>1, <2>5
<1> QED
  BY <1>2, <1>3

LEMMA PassIs ==
  ASSUME NEW suited, NEW partner, Len(partner) \in Nat
  PROVE  \E pass : PassOf(pass, suited, partner, Len(partner)) /\ PairBy(suited, partner) = pass[Len(partner)]
<1> DEFINE pass == CHOOSE pass : pass = [n \in 0..Len(partner) |-> IF n = 0 THEN partner ELSE Pair(suited, pass[n - 1], n)]
<1>1. PairBy(suited, partner) = pass[Len(partner)]
  BY DEF PairBy
<1>2. PassOf(pass, suited, partner, Len(partner))
  <2> DEFINE len == Len(partner)
  <2>1. \E f : PassOf(f, suited, partner, len)
    BY PassExists
  <2> HIDE DEF len
  <2>2. PassOf(CHOOSE f : f = [n \in 0..len |-> IF n = 0 THEN partner ELSE Pair(suited, f[n - 1], n)], suited, partner, len)
    BY <2>1, Zenon DEF PassOf
  <2> QED
    BY <2>2 DEF len
<1> HIDE DEF pass
<1> QED
  BY <1>1, <1>2

(* A whole pass: it undoes no pair, makes pairs that suit, and leaves no    *)
(* head entry alone while a base entry that suits it is free.               *)
LEMMA PassPairs ==
  ASSUME NEW N \in Nat, NEW M \in Nat, NEW suited \in [1..N -> SUBSET (1..M)],
         NEW partner, Pairing(partner, N, M)
  PROVE  Passed(PairBy(suited, partner), suited, partner, N, N, M)
<1>1. partner \in [1..N -> 0..M] /\ Len(partner) = N
  BY DEF Pairing
<1>2. PICK pass : PassOf(pass, suited, partner, N) /\ PairBy(suited, partner) = pass[N]
  BY <1>1, PassIs
<1>3. \A n \in 0..N : pass[n] = IF n = 0 THEN partner ELSE Pair(suited, pass[n - 1], n)
  BY <1>2 DEF PassOf
<1> DEFINE broken == {n \in 0..N : ~Passed(pass[n], suited, partner, n, N, M)}
<1>4. ASSUME broken # {} PROVE FALSE
  <2>1. broken \in SUBSET Nat
    OBVIOUS
  <2>2. PICK n \in broken : \A k \in broken : n <= k
    <3> HIDE DEF broken
    <3> QED
      BY <1>4, <2>1, LeastIsLeast
  <2>3. CASE n = 0
    <3>1. pass[n] = partner
      BY <1>3, <2>3
    <3>2. Passed(partner, suited, partner, 0, N, M)
      BY DEF Passed
    <3> QED
      BY <2>2, <2>3, <3>1, <3>2
  <2>4. CASE n # 0
    <3>1. n - 1 \in 0..N /\ n \in 1..N /\ n - 1 \notin broken
      BY <2>2, <2>4
    <3>2. Passed(pass[n - 1], suited, partner, n - 1, N, M)
      BY <3>1
    <3>3. pass[n] = Pair(suited, pass[n - 1], n)
      BY <1>3, <2>4
    <3>4. Passed(pass[n], suited, partner, n, N, M)
      BY <3>1, <3>2, <3>3, PairStep
    <3> QED
      BY <2>2, <3>4
  <2> QED
    BY <2>3, <2>4
<1>5. Passed(pass[N], suited, partner, N, N, M)
  BY <1>4
<1> QED
  BY <1>2, <1>5

(* Every artifact has one entry.                                            *)
Distinct(s) ==
  /\ Len(s) \in Nat /\ DOMAIN s = 1..Len(s)
  /\ \A i, j \in DOMAIN s : Artifact(s[i]) = Artifact(s[j]) => i = j

(* The three passes: a copy of a base entry is paired with it, and of one   *)
(* version no head and base entry that could have been paired stay apart.   *)
LEMMA PartnersSuit ==
  ASSUME NEW old, NEW new, Distinct(old), Distinct(new)
  PROVE  LET p == Partners(old, new)
         IN /\ Pairing(p, Len(new), Len(old))
            /\ \A i \in DOMAIN new, j \in DOMAIN old : SameArtifact(old[j], new[i]) => p[i] = j
            /\ \A i \in DOMAIN new, j \in DOMAIN old :
                 /\ Ref(old[j]) = Ref(new[i])
                 /\ p[i] = 0 \/ Ref(old[p[i]]) # Ref(new[i])
                 => \E k \in DOMAIN new : p[k] = j /\ Ref(new[k]) = Ref(old[j])
<1> DEFINE N == Len(new)
           M == Len(old)
           none == Nobody(new)
           twins == Alike(SameArtifact, old, new)
           copies == Alike(SameVersion, old, new)
           bumps == Alike(SameName, old, new)
           q == PairBy(twins, none)
           r == PairBy(copies, q)
           p == PairBy(bumps, r)
<1>1. p = Partners(old, new)
  BY DEF Partners
<1>2. N \in Nat /\ M \in Nat /\ DOMAIN new = 1..N /\ DOMAIN old = 1..M
  BY DEF Distinct
<1>3. /\ twins \in [1..N -> SUBSET (1..M)]
      /\ \A i \in 1..N : twins[i] = {j \in 1..M : Artifact(old[j]) = Artifact(new[i])}
  BY <1>2 DEF Alike, SameArtifact
<1>4. /\ copies \in [1..N -> SUBSET (1..M)]
      /\ \A i \in 1..N : copies[i] = {j \in 1..M : Ref(old[j]) = Ref(new[i])}
  BY <1>2 DEF Alike, SameVersion
<1>5. bumps \in [1..N -> SUBSET (1..M)]
  BY <1>2 DEF Alike, SameName
<1>6. none \in [1..N -> 0..M] /\ \A i \in 1..N : none[i] = 0
  BY <1>2 DEF Nobody
<1>7. Pairing(none, N, M)
  BY <1>2, <1>6 DEF Pairing
<1> HIDE DEF N, M, none, twins, copies, bumps
<1>8. Passed(q, twins, none, N, N, M)
  BY <1>2, <1>3, <1>7, PassPairs
<1> HIDE DEF q
<1>9. Passed(r, copies, q, N, N, M)
  <2>1. Pairing(q, N, M)
    BY <1>8 DEF Passed
  <2> QED
    BY <1>2, <1>4, <2>1, PassPairs DEF r
<1> HIDE DEF r
<1>10. Passed(p, bumps, r, N, N, M)
  <2>1. Pairing(r, N, M)
    BY <1>9 DEF Passed
  <2> QED
    BY <1>2, <1>5, <2>1, PassPairs DEF p
<1> HIDE DEF p
<1>11. Pairing(p, N, M)
  BY <1>10 DEF Passed
<1>12. \A i \in 1..N : /\ q[i] # 0 => q[i] \in 1..M /\ Artifact(old[q[i]]) = Artifact(new[i])
                       /\ q[i] # 0 => r[i] = q[i]
                       /\ r[i] # 0 => p[i] = r[i]
  BY <1>3, <1>6, <1>8, <1>9, <1>10 DEF Passed
<1>13. ASSUME NEW i \in 1..N, NEW j \in 1..M, Artifact(old[j]) = Artifact(new[i])
       PROVE  p[i] = j
  <2>1. q[i] # 0
    <3>1. SUFFICES ASSUME q[i] = 0 PROVE FALSE
      OBVIOUS
    <3>2. j \in twins[i]
      BY <1>3, <1>13
    <3>3. PICK k \in 1..N : q[k] = j
      BY <1>8, <3>1, <3>2 DEF Passed
    <3>4. j # 0
      BY <1>2
    <3>5. Artifact(new[k]) = Artifact(new[i])
      BY <1>12, <1>13, <3>3, <3>4
    <3>6. k = i
      BY <1>2, <3>5 DEF Distinct
    <3> QED
      BY <3>1, <3>3, <3>4, <3>6
  <2>2. q[i] = j
    BY <1>2, <1>12, <1>13, <2>1 DEF Distinct
  <2> QED
    BY <1>12, <2>1, <2>2
<1>14. \A i \in 1..N : r[i] # 0 => r[i] \in 1..M /\ Ref(old[r[i]]) = Ref(new[i])
  <2> SUFFICES ASSUME NEW i \in 1..N, r[i] # 0
               PROVE  r[i] \in 1..M /\ Ref(old[r[i]]) = Ref(new[i])
    OBVIOUS
  <2>1. CASE r[i] = q[i]
    <3>1. Artifact(old[r[i]]).ref = Ref(old[r[i]]) /\ Artifact(new[i]).ref = Ref(new[i])
      BY DEF Artifact
    <3> QED
      BY <1>12, <2>1, <3>1
  <2>2. CASE r[i] # q[i]
    BY <1>4, <1>9, <2>2 DEF Passed
  <2> QED
    BY <2>1, <2>2
<1>15. ASSUME NEW i \in 1..N, NEW j \in 1..M, Ref(old[j]) = Ref(new[i]),
              p[i] = 0 \/ Ref(old[p[i]]) # Ref(new[i])
       PROVE  \E k \in 1..N : p[k] = j /\ Ref(new[k]) = Ref(old[j])
  <2>1. r[i] = 0
    BY <1>12, <1>14, <1>15
  <2>2. j \in copies[i] /\ j # 0
    BY <1>2, <1>4, <1>15
  <2>3. PICK k \in 1..N : r[k] = j
    BY <1>9, <2>1, <2>2 DEF Passed
  <2> QED
    BY <1>12, <1>14, <2>2, <2>3
<1>16. /\ Pairing(p, Len(new), Len(old))
       /\ \A i \in DOMAIN new, j \in DOMAIN old : SameArtifact(old[j], new[i]) => p[i] = j
       /\ \A i \in DOMAIN new, j \in DOMAIN old :
            /\ Ref(old[j]) = Ref(new[i])
            /\ p[i] = 0 \/ Ref(old[p[i]]) # Ref(new[i])
            => \E k \in DOMAIN new : p[k] = j /\ Ref(new[k]) = Ref(old[j])
  BY <1>2, <1>11, <1>13, <1>15 DEF SameArtifact, N, M
<1> QED
  BY <1>1, <1>16

(* As many are paired as can be, when the pairs leave nobody over on one    *)
(* side.                                                                    *)
LEMMA LeastOfTwo ==
  ASSUME NEW a \in Nat, NEW b \in Nat
  PROVE  Least({a, b}) = IF a <= b THEN a ELSE b
<1>1. {a, b} \in SUBSET Nat /\ {a, b} # {}
  OBVIOUS
<1>2. Least({a, b}) \in {a, b} /\ \A j \in {a, b} : Least({a, b}) <= j
  BY <1>1, LeastIsLeast, Zenon
<1> QED
  BY <1>2

LEMMA PairedUp ==
  ASSUME NEW D, NEW A, NEW B, IsFiniteSet(A), IsFiniteSet(B),
         NEW f \in Injection(D, A), NEW g \in Injection(D, B),
         f \in Surjection(D, A) \/ g \in Surjection(D, B)
  PROVE  Cardinality(D) = Least({Cardinality(B), Cardinality(A)})
<1>1. /\ IsFiniteSet(D)
      /\ Cardinality(D) <= Cardinality(A) /\ Cardinality(D) <= Cardinality(B)
      /\ Cardinality(D) = Cardinality(A) \/ Cardinality(D) = Cardinality(B)
  BY FS_Injection
<1>2. Cardinality(A) \in Nat /\ Cardinality(B) \in Nat /\ Cardinality(D) \in Nat
  BY <1>1, FS_CardinalityType
<1>3. Least({Cardinality(B), Cardinality(A)})
        = IF Cardinality(B) <= Cardinality(A) THEN Cardinality(B) ELSE Cardinality(A)
  BY <1>2, LeastOfTwo
<1> QED
  BY <1>1, <1>2, <1>3

ArtifactsOf(s) == {Artifact(s[i]) : i \in DOMAIN s}

LEMMA FinitelyMany ==
  ASSUME NEW s, Distinct(s)
  PROVE  IsFiniteSet(ArtifactsOf(s))
<1>1. IsFiniteSet(1..Len(s)) /\ DOMAIN s = 1..Len(s)
  BY FS_Interval DEF Distinct
<1> DEFINE f == [i \in 1..Len(s) |-> Artifact(s[i])]
<1>2. f \in Surjection(1..Len(s), ArtifactsOf(s))
  BY <1>1 DEF Surjection, ArtifactsOf
<1> QED
  BY <1>1, <1>2, FS_Surjection

(* What a comparison lists: by artifact, exactly what came and what left;   *)
(* and of one version, as many copies are compared with each other as came  *)
(* or as left.                                                              *)
ByIndex(c, p, old, new) ==
  /\ c.added = {new[i] : i \in {k \in DOMAIN new : p[k] = 0}}
  /\ c.changed = {[from |-> old[p[i]], to |-> new[i]] :
                    i \in {k \in DOMAIN new : p[k] # 0 /\ ~SameArtifact(old[p[k]], new[k])}}
  /\ c.removed = {old[j] : j \in {k \in DOMAIN old : \A i \in DOMAIN new : p[i] # k}}
  /\ Pairing(p, Len(new), Len(old))
  /\ \A i \in DOMAIN new : p[i] # 0 => p[i] \in DOMAIN old
  /\ \A i \in DOMAIN new :
       Artifact(new[i]) \in ArtifactsOf(old) <=> p[i] # 0 /\ SameArtifact(old[p[i]], new[i])
  /\ \A j \in DOMAIN old :
       Artifact(old[j]) \in ArtifactsOf(new)
         <=> \E i \in DOMAIN new : p[i] = j /\ SameArtifact(old[p[i]], new[i])

LEMMA ChangesByIndex ==
  ASSUME NEW old, NEW new, Distinct(old), Distinct(new)
  PROVE  ByIndex(Changes(old, new), Partners(old, new), old, new)
<1> DEFINE p == Partners(old, new)
           paired == {i \in DOMAIN new : p[i] # 0}
<1>1. /\ Pairing(p, Len(new), Len(old))
      /\ \A i \in DOMAIN new, j \in DOMAIN old : SameArtifact(old[j], new[i]) => p[i] = j
  BY PartnersSuit, Zenon
<1>2. Changes(old, new) =
        [added   |-> {new[i] : i \in DOMAIN new \ paired},
         changed |-> {[from |-> old[p[i]], to |-> new[i]] : i \in {k \in paired : ~SameArtifact(old[p[k]], new[k])}},
         removed |-> {old[j] : j \in DOMAIN old \ {p[i] : i \in paired}}]
  BY DEF Changes
<1> HIDE DEF p
<1>3. /\ DOMAIN new = 1..Len(new) /\ DOMAIN old = 1..Len(old) /\ 0 \notin DOMAIN old
      /\ \A i \in DOMAIN new : p[i] # 0 => p[i] \in DOMAIN old
  BY <1>1 DEF Distinct, Pairing
<1>4. DOMAIN new \ paired = {k \in DOMAIN new : p[k] = 0}
  OBVIOUS
<1>5. {k \in paired : ~SameArtifact(old[p[k]], new[k])}
        = {k \in DOMAIN new : p[k] # 0 /\ ~SameArtifact(old[p[k]], new[k])}
  OBVIOUS
<1>6. DOMAIN old \ {p[i] : i \in paired} = {k \in DOMAIN old : \A i \in DOMAIN new : p[i] # k}
  BY <1>3
<1>7. ASSUME NEW i \in DOMAIN new
      PROVE  Artifact(new[i]) \in ArtifactsOf(old) <=> p[i] # 0 /\ SameArtifact(old[p[i]], new[i])
  BY <1>1, <1>3 DEF ArtifactsOf, SameArtifact
<1>8. ASSUME NEW j \in DOMAIN old
      PROVE  Artifact(old[j]) \in ArtifactsOf(new)
               <=> \E i \in DOMAIN new : p[i] = j /\ SameArtifact(old[p[i]], new[i])
  BY <1>1, <1>3 DEF ArtifactsOf, SameArtifact
<1> QED
  BY <1>1, <1>2, <1>3, <1>4, <1>5, <1>6, <1>7, <1>8 DEF p, ByIndex

CameAndLeft(c, old, new) ==
  /\ {Artifact(e) : e \in c.added \cup {d.to : d \in c.changed}} = ArtifactsOf(new) \ ArtifactsOf(old)
  /\ {Artifact(e) : e \in c.removed \cup {d.from : d \in c.changed}} = ArtifactsOf(old) \ ArtifactsOf(new)

LEMMA ChangesCameAndLeft ==
  ASSUME NEW old, NEW new, Distinct(old), Distinct(new)
  PROVE  CameAndLeft(Changes(old, new), old, new)
<1> DEFINE p == Partners(old, new)
           c == Changes(old, new)
           fresh == {k \in DOMAIN new : p[k] = 0}
           moved == {k \in DOMAIN new : p[k] # 0 /\ ~SameArtifact(old[p[k]], new[k])}
           gone == {k \in DOMAIN old : \A i \in DOMAIN new : p[i] # k}
<1>1. /\ c.added = {new[i] : i \in fresh}
      /\ c.changed = {[from |-> old[p[i]], to |-> new[i]] : i \in moved}
      /\ c.removed = {old[j] : j \in gone}
      /\ Pairing(p, Len(new), Len(old))
      /\ \A i \in DOMAIN new : p[i] # 0 => p[i] \in DOMAIN old
      /\ \A i \in DOMAIN new :
           Artifact(new[i]) \in ArtifactsOf(old) <=> p[i] # 0 /\ SameArtifact(old[p[i]], new[i])
      /\ \A j \in DOMAIN old :
           Artifact(old[j]) \in ArtifactsOf(new)
             <=> \E i \in DOMAIN new : p[i] = j /\ SameArtifact(old[p[i]], new[i])
  BY ChangesByIndex DEF ByIndex
<1>2. 0 \notin DOMAIN old /\ DOMAIN new = 1..Len(new)
  BY DEF Distinct
<1>3. \A i, k \in DOMAIN new : p[i] = p[k] /\ p[i] # 0 => i = k
  BY <1>1, <1>2 DEF Pairing
<1> HIDE DEF p, c
<1>4. /\ fresh \cup moved \subseteq DOMAIN new
      /\ \A i \in DOMAIN new : i \in fresh \cup moved <=> Artifact(new[i]) \notin ArtifactsOf(old)
  BY <1>1
<1>5. /\ \A i \in moved : i \in DOMAIN new /\ p[i] \in DOMAIN old /\ Artifact(old[p[i]]) \notin ArtifactsOf(new)
      /\ \A j \in gone : j \in DOMAIN old /\ Artifact(old[j]) \notin ArtifactsOf(new)
  BY <1>1, <1>2, <1>3
<1>6. \A j \in DOMAIN old : Artifact(old[j]) \notin ArtifactsOf(new) =>
        j \in gone \/ \E i \in moved : p[i] = j
  BY <1>1, <1>2
<1> HIDE DEF fresh, moved, gone
<1>7. /\ {d.to : d \in c.changed} = {new[i] : i \in moved}
      /\ {d.from : d \in c.changed} = {old[p[i]] : i \in moved}
  <2> DEFINE d(i) == [from |-> old[p[i]], to |-> new[i]]
  <2>1. \A i \in moved : d(i).to = new[i] /\ d(i).from = old[p[i]]
    OBVIOUS
  <2>2. c.changed = {d(i) : i \in moved}
    BY <1>1
  <2> HIDE DEF d
  <2> QED
    BY <2>1, <2>2
<1>8. c.added \cup {d.to : d \in c.changed} = {new[i] : i \in fresh \cup moved}
  BY <1>1, <1>7
<1>9. {Artifact(e) : e \in {new[i] : i \in fresh \cup moved}} = ArtifactsOf(new) \ ArtifactsOf(old)
  <2> DEFINE came == fresh \cup moved
  <2>1. came \subseteq DOMAIN new /\ \A i \in DOMAIN new : i \in came <=> Artifact(new[i]) \notin ArtifactsOf(old)
    BY <1>4
  <2> HIDE DEF came
  <2>2. {Artifact(e) : e \in {new[i] : i \in came}} = ArtifactsOf(new) \ ArtifactsOf(old)
    BY <2>1 DEF ArtifactsOf
  <2> QED
    BY <2>2 DEF came
<1>10. c.removed \cup {d.from : d \in c.changed} = {old[j] : j \in gone \cup {p[i] : i \in moved}}
  <2>1. {old[j] : j \in {p[i] : i \in moved}} = {old[p[i]] : i \in moved}
    OBVIOUS
  <2> DEFINE taken == {p[i] : i \in moved}
  <2> HIDE DEF taken
  <2>2. {old[j] : j \in gone \cup taken} = {old[j] : j \in gone} \cup {old[j] : j \in taken}
    OBVIOUS
  <2> QED
    BY <1>1, <1>7, <2>1, <2>2 DEF taken
<1>11. {Artifact(e) : e \in {old[j] : j \in gone \cup {p[i] : i \in moved}}} = ArtifactsOf(old) \ ArtifactsOf(new)
  <2> DEFINE left == gone \cup {p[i] : i \in moved}
  <2>1. left \subseteq DOMAIN old /\ \A j \in DOMAIN old : j \in left <=> Artifact(old[j]) \notin ArtifactsOf(new)
    BY <1>5, <1>6
  <2> HIDE DEF left
  <2>2. {Artifact(e) : e \in {old[j] : j \in left}} = ArtifactsOf(old) \ ArtifactsOf(new)
    BY <2>1 DEF ArtifactsOf
  <2> QED
    BY <2>2 DEF left
<1>12. CameAndLeft(c, old, new)
  BY <1>8, <1>9, <1>10, <1>11, Zenon DEF CameAndLeft
<1> QED
  BY <1>12 DEF c

OfRef(c, ref) == {d \in c.changed : Ref(d.from) = ref /\ Ref(d.to) = ref}

LEMMA CopiesMeet ==
  ASSUME NEW old, NEW new, Distinct(old), Distinct(new), NEW ref
  PROVE  Cardinality(OfRef(Changes(old, new), ref)) =
           Least({Cardinality(OfVersion(ref, ArtifactsOf(old) \ ArtifactsOf(new))),
                  Cardinality(OfVersion(ref, ArtifactsOf(new) \ ArtifactsOf(old)))})
<1> DEFINE p == Partners(old, new)
           c == Changes(old, new)
           moved == {k \in DOMAIN new : p[k] # 0 /\ ~SameArtifact(old[p[k]], new[k])}
           D == OfRef(c, ref)
           A == OfVersion(ref, ArtifactsOf(new) \ ArtifactsOf(old))
           B == OfVersion(ref, ArtifactsOf(old) \ ArtifactsOf(new))
           f == [d \in D |-> Artifact(d.to)]
           g == [d \in D |-> Artifact(d.from)]
<1>1. /\ c.changed = {[from |-> old[p[i]], to |-> new[i]] : i \in moved}
      /\ Pairing(p, Len(new), Len(old))
      /\ \A i \in DOMAIN new : p[i] # 0 => p[i] \in DOMAIN old
      /\ \A i \in DOMAIN new :
           Artifact(new[i]) \in ArtifactsOf(old) <=> p[i] # 0 /\ SameArtifact(old[p[i]], new[i])
      /\ \A j \in DOMAIN old :
           Artifact(old[j]) \in ArtifactsOf(new)
             <=> \E i \in DOMAIN new : p[i] = j /\ SameArtifact(old[p[i]], new[i])
  BY ChangesByIndex DEF ByIndex
<1>2. \A i \in DOMAIN new, j \in DOMAIN old :
        /\ Ref(old[j]) = Ref(new[i])
        /\ p[i] = 0 \/ Ref(old[p[i]]) # Ref(new[i])
        => \E k \in DOMAIN new : p[k] = j /\ Ref(new[k]) = Ref(old[j])
  BY PartnersSuit, Zenon
<1>3. /\ 0 \notin DOMAIN old /\ DOMAIN new = 1..Len(new)
      /\ \A i, j \in DOMAIN new : Artifact(new[i]) = Artifact(new[j]) => i = j
      /\ \A i, j \in DOMAIN old : Artifact(old[i]) = Artifact(old[j]) => i = j
  BY DEF Distinct
<1>4. \A i, k \in DOMAIN new : p[i] = p[k] /\ p[i] # 0 => i = k
  BY <1>1, <1>3 DEF Pairing
<1>5. \A e : Artifact(e).ref = Ref(e)
  BY DEF Artifact
<1> HIDE DEF p, c
\* The pairs of this version, by the index of their head entry.
<1>6. ASSUME NEW d \in D
      PROVE  \E i \in moved : /\ d.from = old[p[i]] /\ d.to = new[i]
                              /\ Ref(old[p[i]]) = ref /\ Ref(new[i]) = ref
  BY <1>1 DEF OfRef
<1>7. ASSUME NEW i \in moved, Ref(old[p[i]]) = ref, Ref(new[i]) = ref
      PROVE  \E d \in D : d.from = old[p[i]] /\ d.to = new[i]
  <2> DEFINE d == [from |-> old[p[i]], to |-> new[i]]
  <2>1. d \in c.changed /\ d.from = old[p[i]] /\ d.to = new[i]
    BY <1>1
  <2>2. d \in D
    BY <1>7, <2>1 DEF OfRef
  <2> QED
    BY <2>1, <2>2
<1>8. \A i \in moved : /\ i \in DOMAIN new /\ p[i] \in DOMAIN old /\ p[i] # 0
                       /\ Artifact(new[i]) \in ArtifactsOf(new) \ ArtifactsOf(old)
                       /\ Artifact(old[p[i]]) \in ArtifactsOf(old) \ ArtifactsOf(new)
  <2> SUFFICES ASSUME NEW i \in moved
               PROVE  /\ i \in DOMAIN new /\ p[i] \in DOMAIN old /\ p[i] # 0
                      /\ Artifact(new[i]) \in ArtifactsOf(new) \ ArtifactsOf(old)
                      /\ Artifact(old[p[i]]) \in ArtifactsOf(old) \ ArtifactsOf(new)
    OBVIOUS
  <2>1. i \in DOMAIN new /\ p[i] \in DOMAIN old /\ p[i] # 0 /\ ~SameArtifact(old[p[i]], new[i])
    BY <1>1
  <2>2. Artifact(new[i]) \in ArtifactsOf(new) /\ Artifact(old[p[i]]) \in ArtifactsOf(old)
    BY <2>1 DEF ArtifactsOf
  <2>3. Artifact(new[i]) \notin ArtifactsOf(old)
    BY <1>1, <2>1
  <2>4. Artifact(old[p[i]]) \notin ArtifactsOf(new)
    BY <1>1, <1>4, <2>1
  <2> QED
    BY <2>1, <2>2, <2>3, <2>4
<1>9. f \in Injection(D, A)
  <2>1. \A d \in D : Artifact(d.to) \in A
    BY <1>5, <1>6, <1>8 DEF OfVersion
  <2>2. ASSUME NEW d \in D, NEW e \in D, Artifact(d.to) = Artifact(e.to) PROVE d = e
    <3>1. PICK i \in moved : d = [from |-> old[p[i]], to |-> new[i]]
      BY <1>1 DEF OfRef
    <3>2. PICK k \in moved : e = [from |-> old[p[k]], to |-> new[k]]
      BY <1>1 DEF OfRef
    <3> QED
      BY <1>3, <2>2, <3>1, <3>2
  <2> HIDE DEF D, A
  <2> QED
    BY <2>1, <2>2 DEF Injection, IsInjective
<1>10. g \in Injection(D, B)
  <2>1. \A d \in D : Artifact(d.from) \in B
    BY <1>5, <1>6, <1>8 DEF OfVersion
  <2>2. ASSUME NEW d \in D, NEW e \in D, Artifact(d.from) = Artifact(e.from) PROVE d = e
    <3>1. PICK i \in moved : d = [from |-> old[p[i]], to |-> new[i]]
      BY <1>1 DEF OfRef
    <3>2. PICK k \in moved : e = [from |-> old[p[k]], to |-> new[k]]
      BY <1>1 DEF OfRef
    <3>3. Artifact(old[p[i]]) = Artifact(old[p[k]])
      BY <2>2, <3>1, <3>2
    <3>4. p[i] = p[k]
      BY <1>3, <1>8, <3>3
    <3> QED
      BY <1>4, <1>8, <3>1, <3>2, <3>4
  <2> HIDE DEF D, B
  <2> QED
    BY <2>1, <2>2 DEF Injection, IsInjective
<1>11. IsFiniteSet(A) /\ IsFiniteSet(B)
  <2>1. A \in SUBSET ArtifactsOf(new) /\ B \in SUBSET ArtifactsOf(old)
    BY DEF OfVersion
  <2> HIDE DEF A, B
  <2> QED
    BY <2>1, FinitelyMany, FS_Subset
\* A head entry of this version that no base entry of it got: all of those are taken.
<1>12. ASSUME f \notin Surjection(D, A), NEW b \in B PROVE \E d \in D : Artifact(d.from) = b
  <2>1. f \in [D -> A]
    <3> HIDE DEF f, D, A
    <3> QED
      BY <1>9 DEF Injection
  <2>2. PICK a \in A : \A d \in D : f[d] # a
    <3> HIDE DEF f, D, A
    <3> QED
      BY <1>12, <2>1 DEF Surjection
  <2>3. PICK i \in DOMAIN new : a = Artifact(new[i]) /\ Ref(new[i]) = ref
    BY <1>5 DEF OfVersion, ArtifactsOf
  <2>4. p[i] = 0 \/ Ref(old[p[i]]) # Ref(new[i])
    <3>1. SUFFICES ASSUME p[i] # 0, Ref(old[p[i]]) = Ref(new[i]) PROVE FALSE
      OBVIOUS
    <3>2. i \in moved
      BY <1>1, <2>3, <3>1 DEF OfVersion
    <3>3. PICK d \in D : d.to = new[i]
      BY <1>7, <2>3, <3>1, <3>2
    <3> QED
      BY <2>2, <2>3, <3>3
  <2>5. PICK j \in DOMAIN old : b = Artifact(old[j]) /\ Ref(old[j]) = ref
    BY <1>5 DEF OfVersion, ArtifactsOf
  <2>6. PICK k \in DOMAIN new : p[k] = j /\ Ref(new[k]) = ref
    BY <1>2, <2>3, <2>4, <2>5
  <2>7. k \in moved
    BY <1>1, <1>3, <2>5, <2>6 DEF OfVersion
  <2> QED
    BY <1>7, <2>5, <2>6, <2>7
<1>13. f \in Surjection(D, A) \/ g \in Surjection(D, B)
  <2>1. g \in [D -> B]
    <3> HIDE DEF g, D, B
    <3> QED
      BY <1>10 DEF Injection
  <2> HIDE DEF D, A, B, f
  <2> QED
    BY <1>12, <2>1 DEF Surjection
<1>14. Cardinality(D) = Least({Cardinality(B), Cardinality(A)})
  <2> HIDE DEF D, A, B, f, g
  <2> QED
    BY <1>9, <1>10, <1>11, <1>13, PairedUp
<1> QED
  BY <1>14 DEF c

(* The comparison follows the listing, the plan the comparisons, the exit   *)
(* code the plan, and each says what it says of the lockfiles that were not *)
(* rewritten meanwhile.                                                     *)
TreeInv ==
  /\ \E family \in Scenarios : given \in family
  /\ tree = [f \in DOMAIN given.tree |-> tree[f]]
  /\ \A f \in DOMAIN given.tree : IsContent(tree[f])

RevisionInv ==
  /\ baseRev \in {"none", "file", "tip", "fork", "parent"}
  /\ baseRev = "file" => given.base = "file"
  /\ baseRev \in {"tip", "fork", "parent"} => baseRev = ResolveBase
  /\ baseRev = "none" => diffPhase \in {"start", "done"} /\ queue = {} /\ comparisons = <<>>
  /\ baseRev = "file" => queue = {}
  /\ diffPhase = "start" => baseRev = "none"
  /\ diffPhase = "resolved" => baseRev # "file" /\ comparisons = <<>>

ComparedInv ==
  /\ queue \cup DOMAIN comparisons \subseteq given.tracked
  /\ comparisons = [f \in DOMAIN comparisons |-> comparisons[f]]
  /\ \A f \in DOMAIN comparisons \ edited : comparisons[f] = Comparison(BaseSide(f), tree[f])
  /\ baseRev # "file" => \A f \in (queue \cup DOMAIN comparisons) \ edited : tree[f] # At(baseRev, f)

Evaluates == diffPhase = "planned" \/ (diffPhase = "done" /\ exit # 2)

ListedInv ==
  diffPhase = "comparing" \/ Evaluates =>
    \A f \in given.tracked \ edited :
      f \in queue \cup DOMAIN comparisons \/ (baseRev # "file" /\ tree[f] = At(baseRev, f))

PlannedInv ==
  Evaluates => /\ queue = {}
               /\ inputs = UNION {PlanOf(f) : f \in DOMAIN comparisons}
               /\ incomplete <=> UnreadSides(comparisons)

ExitInv ==
  /\ exit # -1 => diffPhase = "done"
  /\ exit = 0 /\ given.unavailableFails => ~incomplete

DiffInv == TreeInv /\ RevisionInv /\ ComparedInv /\ ListedInv /\ PlannedInv /\ ExitInv

LEMMA DiffInitInv == DiffInit => DiffInv
<1> SUFFICES ASSUME DiffInit PROVE DiffInv
  OBVIOUS
<1>1. PICK family \in Scenarios : given \in family
  BY DEF DiffInit
<1>2. IsScenario(given)
  BY <1>1, DiffAssumption
<1>3. TreeInv
  BY <1>1, <1>2 DEF DiffInit, TreeInv, IsScenario
<1> QED
  BY <1>3 DEF DiffInit, DiffInv, RevisionInv, ComparedInv, ListedInv, PlannedInv, ExitInv, Evaluates

LEMMA FailsStep ==
  ASSUME DiffInv, Fails(2), baseRev' = baseRev
  PROVE  DiffInv'
<1>1. TreeInv'
  BY DEF DiffInv, TreeInv, Fails
<1>2. RevisionInv'
  BY DEF DiffInv, RevisionInv, Fails, ResolveBase
<1>3. ComparedInv'
  BY DEF DiffInv, ComparedInv, Fails, BaseSide, At
<1>4. ListedInv' /\ PlannedInv' /\ ExitInv'
  BY DEF Fails, ListedInv, PlannedInv, ExitInv, Evaluates
<1> QED
  BY <1>1, <1>2, <1>3, <1>4 DEF DiffInv

LEMMA ResolveStep ==
  ASSUME DiffInv, Resolve
  PROVE  DiffInv'
<1>1. TreeInv'
  BY DEF DiffInv, TreeInv, Resolve, Fails
<1>2. baseRev = "none" /\ queue = {} /\ comparisons = <<>> /\ diffPhase' \in {"resolved", "done"}
  BY DEF DiffInv, RevisionInv, Resolve, Fails
<1>3. queue' = {} /\ comparisons' = <<>> /\ edited' = edited
  BY <1>2 DEF Resolve, Fails
<1>4. ResolveBase \in {"none", "tip", "fork", "parent"} /\ baseRev' = ResolveBase /\ ResolveBase' = ResolveBase
  BY DEF ResolveBase, Resolve, Fails
<1>5. baseRev' = "none" => diffPhase' = "done"
  BY <1>4 DEF Resolve, Fails
<1>6. RevisionInv'
  BY <1>2, <1>3, <1>4, <1>5 DEF RevisionInv
<1>7. ComparedInv'
  BY <1>3 DEF ComparedInv
<1>8. ~(diffPhase' = "comparing") /\ ~Evaluates' /\ (exit' # -1 => diffPhase' = "done") /\ exit' # 0
  BY DEF DiffInv, ExitInv, Resolve, Fails, Evaluates
<1>9. ListedInv' /\ PlannedInv' /\ ExitInv'
  BY <1>8 DEF ListedInv, PlannedInv, ExitInv
<1> QED
  BY <1>1, <1>6, <1>7, <1>9 DEF DiffInv

LEMMA ListStep ==
  ASSUME DiffInv, List
  PROVE  DiffInv'
<1>1. TreeInv'
  BY DEF DiffInv, TreeInv, List
<1>2. baseRev \notin {"none", "file"} /\ comparisons = <<>> /\ DOMAIN comparisons = {}
  BY DEF DiffInv, RevisionInv, List
<1>3. RevisionInv'
  BY <1>2 DEF DiffInv, RevisionInv, List, ResolveBase
<1>4. ComparedInv'
  BY <1>2 DEF List, ComparedInv, ChangedFiles, At
<1>5. ListedInv'
  BY <1>2 DEF List, ListedInv, ChangedFiles, At
<1>6. PlannedInv' /\ ExitInv'
  BY DEF DiffInv, List, PlannedInv, ExitInv, Evaluates
<1> QED
  BY <1>1, <1>3, <1>4, <1>5, <1>6 DEF DiffInv

LEMMA CompareStep ==
  ASSUME DiffInv, NEW f \in queue, Compare(f)
  PROVE  DiffInv'
<1>1. TreeInv'
  BY DEF DiffInv, TreeInv, Compare
<1>2. baseRev # "none" /\ diffPhase = "comparing" /\ diffPhase' = "comparing"
  BY DEF DiffInv, RevisionInv, Compare
<1>3. RevisionInv'
  BY <1>2 DEF DiffInv, RevisionInv, Compare, ResolveBase
<1>4. /\ DOMAIN comparisons' = DOMAIN comparisons \cup {f} /\ queue' = queue \ {f} /\ f \in queue
      /\ queue' \cup DOMAIN comparisons' = queue \cup DOMAIN comparisons
      /\ UNCHANGED <<given, tree, edited, baseRev>>
  BY DEF Compare
<1>5. /\ comparisons' = [g \in DOMAIN comparisons' |-> comparisons'[g]]
      /\ \A g \in DOMAIN comparisons' :
           comparisons'[g] = IF g = f THEN Comparison(At(baseRev, f), tree[f]) ELSE comparisons[g]
  BY DEF Compare
<1>6. ComparedInv'
  <2>1. baseRev # "file"
    BY <1>4 DEF DiffInv, RevisionInv
  <2> QED
    BY <1>4, <1>5, <2>1 DEF DiffInv, ComparedInv, BaseSide, At
<1>7. ListedInv'
  BY <1>2, <1>4 DEF DiffInv, ListedInv, At
<1>8. PlannedInv' /\ ExitInv'
  BY <1>2 DEF DiffInv, Compare, PlannedInv, ExitInv, Evaluates
<1> QED
  BY <1>1, <1>3, <1>6, <1>7, <1>8 DEF DiffInv

LEMMA CompareWithFileStep ==
  ASSUME DiffInv, CompareWithFile
  PROVE  DiffInv'
<1> DEFINE refused ==
      \/ given.file.kind # "lines"
      \/ Cardinality(given.tracked) # 1
      \/ \E f \in given.tracked : tree[f].kind = "absent" \/ (tree[f].kind = "lines" /\ ~given.sameFormat)
<1>1. /\ baseRev = "none" /\ queue = {} /\ comparisons = <<>> /\ diffPhase = "start" /\ given.base = "file"
      /\ baseRev' = "file"
      /\ IF refused
         THEN Fails(2)
         ELSE /\ diffPhase' = "comparing"
              /\ comparisons' = [f \in given.tracked |-> Comparison(given.file, tree[f])]
              /\ UNCHANGED <<given, tree, edited, queue, inputs, incomplete, exit>>
  BY DEF DiffInv, RevisionInv, CompareWithFile
<1> HIDE DEF refused
<1>2. TreeInv'
  BY <1>1 DEF DiffInv, TreeInv, Fails
<1>3. CASE refused
  <2>1. RevisionInv'
    BY <1>1, <1>3 DEF RevisionInv, Fails
  <2>2. ComparedInv'
    BY <1>1, <1>3 DEF ComparedInv, Fails
  <2>3. ListedInv' /\ PlannedInv' /\ ExitInv'
    BY <1>1, <1>3 DEF Fails, ListedInv, PlannedInv, ExitInv, Evaluates
  <2> QED
    BY <1>2, <2>1, <2>2, <2>3 DEF DiffInv
<1>4. CASE ~refused
  <2>1. RevisionInv'
    BY <1>1, <1>4 DEF RevisionInv
  <2>2. DOMAIN comparisons' = given.tracked /\ \A f \in given.tracked : comparisons'[f] = Comparison(given.file, tree[f])
    BY <1>1, <1>4
  <2>3. ComparedInv'
    BY <1>1, <1>4, <2>2 DEF ComparedInv, BaseSide
  <2>4. ListedInv'
    BY <1>1, <1>4, <2>2 DEF ListedInv
  <2>5. PlannedInv' /\ ExitInv'
    BY <1>1, <1>4 DEF DiffInv, PlannedInv, ExitInv, Evaluates
  <2> QED
    BY <1>2, <2>1, <2>3, <2>4, <2>5 DEF DiffInv
<1> QED
  BY <1>3, <1>4

LEMMA DiffPlanStep ==
  ASSUME DiffInv, DiffPlan
  PROVE  DiffInv'
<1>1. TreeInv'
  BY DEF DiffInv, TreeInv, DiffPlan
<1>2. RevisionInv'
  BY DEF DiffInv, RevisionInv, DiffPlan, ResolveBase
<1>3. ComparedInv'
  BY DEF DiffInv, ComparedInv, DiffPlan, BaseSide, At
<1>4. ListedInv'
  BY DEF DiffInv, ListedInv, DiffPlan, At
<1>5. PlannedInv'
  BY DEF PlannedInv, DiffPlan, PlanOf
<1>6. ExitInv'
  BY DEF DiffInv, ExitInv, DiffPlan
<1> QED
  BY <1>1, <1>2, <1>3, <1>4, <1>5, <1>6 DEF DiffInv

\* No exit code 0 with a side unread, of a run that fails on missing data.
LEMMA ZeroIsComplete ==
  ASSUME NEW worst, NEW unavailable, NEW missing, ExitCode(worst, unavailable, missing) = 0, given.unavailableFails
  PROVE  ~incomplete
BY DEF ExitCode

LEMMA EvaluateStep ==
  ASSUME DiffInv, NEW worst, NEW unavailable, NEW scanned, Evaluate(worst, unavailable, scanned)
  PROVE  DiffInv'
<1>1. TreeInv'
  BY DEF DiffInv, TreeInv, Evaluate
<1>2. RevisionInv'
  BY DEF DiffInv, RevisionInv, Evaluate, ResolveBase
<1>3. ComparedInv'
  BY DEF DiffInv, ComparedInv, Evaluate, BaseSide, At
<1>4. Evaluates
  BY DEF Evaluate, Evaluates
<1>5. ListedInv'
  BY <1>4 DEF DiffInv, ListedInv, Evaluate, At
<1>6. PlannedInv'
  BY <1>4 DEF DiffInv, PlannedInv, Evaluate, PlanOf, UnreadSides
<1>7. ExitInv'
  <2>1. CASE inputs = {}
    <3>1. exit' = ExitCode("none", FALSE, FALSE)
      BY <2>1 DEF Evaluate
    <3> QED
      BY <3>1, ZeroIsComplete DEF Evaluate, ExitInv
  <2>2. CASE inputs # {}
    <3>1. PICK i \in inputs : exit' = ExitCode(worst, unavailable, ScanMissing(worst, i.entry, scanned))
      BY <2>2 DEF Evaluate
    <3> QED
      BY <3>1, ZeroIsComplete DEF Evaluate, ExitInv
  <2> QED
    BY <2>1, <2>2
<1> QED
  BY <1>1, <1>2, <1>3, <1>5, <1>6, <1>7 DEF DiffInv

LEMMA RewriteStep ==
  ASSUME DiffInv, NEW f \in DOMAIN tree, Rewrite(f)
  PROVE  DiffInv'
<1>1. PICK c \in given.edits : tree' = [tree EXCEPT ![f] = c]
  BY DEF Rewrite
<1>2. /\ UNCHANGED <<given, diffPhase, baseRev, queue, comparisons, inputs, incomplete, exit>>
      /\ edited' = edited \cup {f} /\ diffPhase \in {"start", "resolved", "comparing"}
  BY DEF Rewrite
<1>3. /\ \E family \in Scenarios : given \in family
      /\ tree = [g \in DOMAIN given.tree |-> tree[g]] /\ DOMAIN tree = DOMAIN given.tree
      /\ \A g \in DOMAIN given.tree : IsContent(tree[g])
  BY DEF DiffInv, TreeInv
<1>4. IsContent(c)
  BY <1>3, DiffAssumption DEF IsScenario
<1>5. tree' = [g \in DOMAIN given.tree |-> IF g = f THEN c ELSE tree[g]]
  BY <1>1, <1>3
<1>6. TreeInv'
  BY <1>2, <1>3, <1>4, <1>5 DEF TreeInv
<1>7. RevisionInv'
  BY <1>2 DEF DiffInv, RevisionInv, ResolveBase
<1>8. \A g \in given.tracked \ edited' : g \in given.tracked \ edited /\ tree'[g] = tree[g]
  <2>1. given.tracked \subseteq DOMAIN given.tree
    BY <1>3, DiffAssumption DEF IsScenario
  <2> QED
    BY <1>2, <1>5, <2>1
<1>9. ComparedInv'
  BY <1>2, <1>8 DEF DiffInv, ComparedInv, BaseSide, At
<1>10. ListedInv'
  BY <1>2, <1>8 DEF DiffInv, ListedInv, Evaluates, At
<1>11. PlannedInv' /\ ExitInv'
  BY <1>2 DEF DiffInv, PlannedInv, ExitInv, Evaluates
<1> QED
  BY <1>6, <1>7, <1>9, <1>10, <1>11 DEF DiffInv

LEMMA DiffStep ==
  ASSUME DiffInv, [DiffNext]_diffVars
  PROVE  DiffInv'
<1>1. ASSUME Resolve PROVE DiffInv'
  BY <1>1, ResolveStep
<1>2. ASSUME List PROVE DiffInv'
  BY <1>2, ListStep
<1>3. ASSUME NEW f \in queue, Compare(f) PROVE DiffInv'
  BY <1>3, CompareStep
<1>4. ASSUME GitFails PROVE DiffInv'
  BY <1>4, FailsStep DEF GitFails
<1>5. ASSUME CompareWithFile PROVE DiffInv'
  BY <1>5, CompareWithFileStep
<1>6. ASSUME DiffPlan PROVE DiffInv'
  BY <1>6, DiffPlanStep
<1>7. ASSUME NEW worst, NEW unavailable, NEW scanned, Evaluate(worst, unavailable, scanned)
      PROVE  DiffInv'
  BY <1>7, EvaluateStep
<1>8. ASSUME NEW f \in DOMAIN tree, Rewrite(f) PROVE DiffInv'
  BY <1>8, RewriteStep
<1>9. ASSUME UNCHANGED diffVars PROVE DiffInv'
  <2>1. TreeInv'
    BY <1>9 DEF diffVars, DiffInv, TreeInv
  <2>2. RevisionInv'
    BY <1>9 DEF diffVars, DiffInv, RevisionInv, ResolveBase
  <2>3. ComparedInv'
    BY <1>9 DEF diffVars, DiffInv, ComparedInv, BaseSide, At
  <2>4. ListedInv'
    BY <1>9 DEF diffVars, DiffInv, ListedInv, Evaluates, At
  <2>5. PlannedInv' /\ ExitInv'
    BY <1>9 DEF diffVars, DiffInv, PlannedInv, ExitInv, Evaluates, PlanOf, UnreadSides
  <2> QED
    BY <2>1, <2>2, <2>3, <2>4, <2>5 DEF DiffInv
<1> QED
  BY <1>1, <1>2, <1>3, <1>4, <1>5, <1>6, <1>7, <1>8, <1>9 DEF DiffNext

LEMMA DiffInvariant == DiffSpec => []DiffInv
<1>1. DiffInit => DiffInv
  BY DiffInitInv
<1>2. DiffInv /\ [DiffNext]_diffVars => DiffInv'
  BY DiffStep
<1> QED
  BY <1>1, <1>2, PTL DEF DiffSpec

(* What the invariant says of one compared lockfile.                        *)
LEMMA SidesAreContents ==
  ASSUME DiffInv, NEW f \in DOMAIN comparisons \ edited
  PROVE  /\ IsContent(tree[f]) /\ IsContent(BaseSide(f))
         /\ comparisons[f] = Comparison(BaseSide(f), tree[f])
<1>1. IsScenario(given) /\ f \in given.tracked
  BY DiffAssumption DEF DiffInv, TreeInv, ComparedInv
<1>2. f \in DOMAIN given.tree
  BY <1>1 DEF IsScenario
<1>3. baseRev \in {"file", "tip", "fork", "parent"}
  BY DEF DiffInv, RevisionInv
<1>4. IsContent(BaseSide(f))
  BY <1>1, <1>2, <1>3 DEF BaseSide, At, IsScenario
<1> QED
  BY <1>2, <1>4 DEF DiffInv, TreeInv, ComparedInv

LEMMA UnreadIs ==
  ASSUME NEW old, NEW new, ~Comparison(old, new).unread
  PROVE  new.kind # "unread"
<1>1. Comparison(old, new).unread = (new.kind = "unread")
  BY Zenon DEF Comparison
<1> QED
  BY <1>1, Zenon

LEMMA ContentIsDistinct ==
  ASSUME NEW c, IsContent(c)
  PROVE  Distinct(EntriesOf(c)) /\ ArtifactsOf(EntriesOf(c)) = Brings(c)
BY EntriesBring DEF Distinct, ArtifactsOf

LEMMA ComparisonIs ==
  ASSUME NEW old, NEW new, IsContent(old), IsContent(new), new.kind # "unread"
  PROVE  LET c == Comparison(old, new).changes
         IN /\ {Artifact(e) : e \in c.added \cup {d.to : d \in c.changed}} = Brings(new) \ Brings(old)
            /\ {Artifact(e) : e \in c.removed \cup {d.from : d \in c.changed}} = Brings(old) \ Brings(new)
            /\ \A ref : Cardinality({d \in c.changed : Ref(d.from) = ref /\ Ref(d.to) = ref})
                          = Least({Cardinality(OfVersion(ref, Brings(old) \ Brings(new))),
                                   Cardinality(OfVersion(ref, Brings(new) \ Brings(old)))})
<1> DEFINE o == EntriesOf(old)
           n == EntriesOf(new)
           c == Changes(o, n)
<1>1. Comparison(old, new).changes = c
  BY DEF Comparison
<1>2. Distinct(o) /\ Distinct(n) /\ ArtifactsOf(o) = Brings(old) /\ ArtifactsOf(n) = Brings(new)
  BY ContentIsDistinct
<1> HIDE DEF o, n
<1>3. CameAndLeft(c, o, n)
  BY <1>2, ChangesCameAndLeft
<1>4. ASSUME NEW ref
      PROVE  Cardinality({d \in c.changed : Ref(d.from) = ref /\ Ref(d.to) = ref})
               = Least({Cardinality(OfVersion(ref, Brings(old) \ Brings(new))),
                        Cardinality(OfVersion(ref, Brings(new) \ Brings(old)))})
  BY <1>2, CopiesMeet DEF OfRef
<1> HIDE DEF c
<1> QED
  BY <1>1, <1>2, <1>3, <1>4 DEF CameAndLeft

(* Of every repository, whatever is rewritten meanwhile and whatever the    *)
(* evaluation finds: exit code 0 of a run that fails on missing data means  *)
(* that every artifact a lockfile brings in beside its base was evaluated   *)
(* (lockfile.go:208, gitdiff/diff.go:60, cli/diff.go:141).                  *)
THEOREM DiffZeroVouches == DiffSpec => []ZeroVouches
<1>1. ASSUME DiffInv PROVE ZeroVouches
  <2> SUFFICES ASSUME exit = 0, given.unavailableFails, NEW f \in given.tracked \ edited
               PROVE  /\ Brings(tree[f]) \ Brings(BaseSide(f)) \subseteq {Artifact(e) : e \in Covered(f)}
                      /\ tree[f].kind = "unread" => baseRev # "file" /\ tree[f] = At(baseRev, f)
    BY DEF ZeroVouches
  <2>1. Evaluates /\ ~incomplete
    BY <1>1 DEF DiffInv, ExitInv, Evaluates
  <2>2. queue = {} /\ inputs = UNION {PlanOf(g) : g \in DOMAIN comparisons} /\ ~UnreadSides(comparisons)
    BY <1>1, <2>1 DEF DiffInv, PlannedInv
  <2>3. CASE f \notin DOMAIN comparisons
    <3>1. baseRev # "file" /\ tree[f] = At(baseRev, f)
      BY <1>1, <2>1, <2>2, <2>3 DEF DiffInv, ListedInv
    <3> QED
      BY <3>1 DEF BaseSide
  <2>4. CASE f \in DOMAIN comparisons
    <3> DEFINE c == comparisons[f].changes
               fresh == c.added \cup {d.to : d \in c.changed}
    <3>1. /\ IsContent(tree[f]) /\ IsContent(BaseSide(f))
          /\ comparisons[f] = Comparison(BaseSide(f), tree[f])
      BY <1>1, <2>4, SidesAreContents
    <3>2. tree[f].kind # "unread"
      <4>1. ~comparisons[f].unread
        BY <2>2, <2>4, Zenon DEF UnreadSides
      <4> QED
        BY <3>1, <4>1, UnreadIs, Zenon
    <3>3. {Artifact(e) : e \in fresh} = Brings(tree[f]) \ Brings(BaseSide(f))
      BY <3>1, <3>2, ComparisonIs, Zenon
    <3>4. fresh \subseteq Covered(f)
      <4>1. ASSUME NEW e \in c.added PROVE e \in Covered(f)
        <5>1. [file |-> f, entry |-> e, against |-> <<>>] \in PlanOf(f)
          BY <4>1 DEF PlanOf
        <5> QED
          BY <2>2, <2>4, <5>1 DEF Covered
      <4>2. ASSUME NEW d \in c.changed PROVE d.to \in Covered(f)
        <5>1. [file |-> f, entry |-> d.to, against |-> <<d.from>>] \in PlanOf(f)
          BY <4>2 DEF PlanOf
        <5> QED
          BY <2>2, <2>4, <5>1 DEF Covered
      <4> HIDE DEF c
      <4> QED
        BY <4>1, <4>2
    <3> HIDE DEF fresh
    <3> QED
      BY <3>2, <3>3, <3>4
  <2> QED
    BY <2>3, <2>4
<1> QED
  BY <1>1, DiffInvariant, PTL

(* Of every lockfile that could be read: what came and what left is listed, *)
(* by artifact, nothing else is, and of one version as many copies as can   *)
(* be are compared with each other (gitdiff/diff.go:78).                    *)
THEOREM DiffPairedWithItsOwn == DiffSpec => []PairedWithItsOwn
<1>1. ASSUME DiffInv PROVE PairedWithItsOwn
  <2> SUFFICES ASSUME NEW f \in DOMAIN comparisons \ edited, ~comparisons[f].unread
               PROVE  LET new == Brings(tree[f])  old == Brings(BaseSide(f))
                          c == comparisons[f].changes
                          fresh == c.added \cup {d.to : d \in c.changed}
                          left == c.removed \cup {d.from : d \in c.changed}
                      IN /\ {Artifact(e) : e \in fresh} = new \ old
                         /\ {Artifact(e) : e \in left} = old \ new
                         /\ \A ref \in {a.ref : a \in old \cup new} :
                              Cardinality({d \in c.changed : Ref(d.from) = ref /\ Ref(d.to) = ref})
                                = Least({Cardinality(OfVersion(ref, old \ new)), Cardinality(OfVersion(ref, new \ old))})
    BY DEF PairedWithItsOwn
  <2>1. /\ IsContent(tree[f]) /\ IsContent(BaseSide(f))
        /\ comparisons[f] = Comparison(BaseSide(f), tree[f])
    BY <1>1, SidesAreContents
  <2>2. tree[f].kind # "unread"
    BY <2>1, UnreadIs, Zenon
  <2> QED
    BY <2>1, <2>2, ComparisonIs, Zenon
<1> QED
  BY <1>1, DiffInvariant, PTL

(* A lockfile that is as it was at the fork point is not compared, whatever *)
(* the base branch gained since (gitdiff/base.go:61).                       *)
THEOREM DiffOwnChangesOnly == DiffSpec => []OwnChangesOnly
<1>1. ASSUME DiffInv PROVE OwnChangesOnly
  <2> SUFFICES ASSUME given.base # "file", given.related, given.base = "named" \/ given.remotes # {},
                      NEW f \in DOMAIN comparisons \ edited
               PROVE  tree[f] # At("fork", f)
    BY DEF OwnChangesOnly
  <2>1. baseRev \in {"tip", "fork", "parent"} /\ baseRev = ResolveBase
    BY <1>1 DEF DiffInv, RevisionInv
  <2>2. baseRev = "fork"
    BY <2>1 DEF ResolveBase
  <2> QED
    BY <1>1, <2>2 DEF DiffInv, ComparedInv
<1> QED
  BY <1>1, DiffInvariant, PTL

-----------------------------------------------------------------------------
(* Check.  That it evaluates what an install would bring in rests on three  *)
(* things proved in this order: the comparisons of versions are orders, and *)
(* so a set of versions has a highest; a term as it is expanded allows what *)
(* the term says (of semver, then of PEP 440); and what a run holds while   *)
(* the registries answer is what they answered.                             *)

(* What is compared piece by piece: the first piece that differs decides.   *)
(* Pieces without end, the last of them alike.                              *)

Pos == Nat \ {0}

Leads(f, c) ==
  \/ c = 0 /\ \A i \in Pos : f[i] = 0
  \/ c # 0 /\ \E k \in Pos : f[k] = c /\ \A j \in 1..(k - 1) : f[j] = 0

(* How the results of comparing a with b, b with c and a with c go together *)
(* when what is compared is in an order; and of a with b and b with a.      *)
Coherent(x, y, z) ==
  /\ x >= 0 /\ y >= 0 => z >= 0 /\ (z = 0 => x = 0 /\ y = 0)
  /\ x = 0 => (z > 0 <=> y > 0) /\ (z < 0 <=> y < 0)
  /\ y = 0 => (z > 0 <=> x > 0) /\ (z < 0 <=> x < 0)

Opposed(x, y) == (x > 0 <=> y < 0) /\ (x < 0 <=> y > 0)

LEMMA LeastOf ==
  ASSUME NEW A \in SUBSET Nat, A # {}
  PROVE  \E i \in A : \A j \in A : i <= j
<1> DEFINE R == {ss \in Nat \X Nat : ss[1] < ss[2]}
<1>1. IsWellFoundedOn(R, Nat)
  BY NatLessThanWellFounded, Zenon DEF OpToRel
<1>2. PICK i \in A : \A j \in A : ~(<<j, i>> \in R)
  <2> HIDE DEF R
  <2> QED
    BY <1>1, WFMin
<1>3. \A j \in A : ~(j < i)
  BY <1>2
<1>4. \A j \in A : i <= j
  BY <1>3
<1> QED
  BY <1>4

LEMMA LeadsAt ==
  ASSUME NEW f \in [Pos -> Int], NEW c \in Int, Leads(f, c),
         NEW k \in Pos, f[k] # 0, \A j \in 1..(k - 1) : f[j] = 0
  PROVE  c = f[k]
<1>1. PICK m \in Pos : f[m] = c /\ c # 0 /\ \A j \in 1..(m - 1) : f[j] = 0
  BY DEF Leads
<1>2. ~(m < k)
  <2>1. ASSUME m < k PROVE m \in 1..(k - 1)
    BY <2>1 DEF Pos
  <2> QED
    BY <1>1, <2>1
<1>3. ~(k < m)
  <2>1. ASSUME k < m PROVE k \in 1..(m - 1)
    BY <2>1 DEF Pos
  <2> QED
    BY <1>1, <2>1
<1>4. m = k
  BY <1>2, <1>3 DEF Pos
<1> QED
  BY <1>1, <1>4

LEMMA LeadsNone ==
  ASSUME NEW f, NEW c, Leads(f, c), \A i \in Pos : f[i] = 0
  PROVE  c = 0
  BY DEF Leads

LEMMA LexCoherent ==
  ASSUME NEW f \in [Pos -> Int], NEW g \in [Pos -> Int], NEW h \in [Pos -> Int],
         NEW x \in Int, NEW y \in Int, NEW z \in Int, Leads(f, x), Leads(g, y), Leads(h, z),
         \A i \in Pos : Coherent(f[i], g[i], h[i])
  PROVE  Coherent(x, y, z)
<1>0. \A i \in Pos : f[i] \in Int /\ g[i] \in Int /\ h[i] \in Int
  OBVIOUS
<1>1. CASE x = 0 /\ y = 0
  <2>1. \A i \in Pos : f[i] = 0 /\ g[i] = 0
    BY <1>1 DEF Leads
  <2>2. \A i \in Pos : h[i] = 0
    BY <1>0, <2>1 DEF Coherent
  <2>3. z = 0
    BY <2>2, LeadsNone
  <2> QED
    BY <1>1, <2>3 DEF Coherent
<1>2. CASE x = 0 /\ y # 0
  <2>1. \A i \in Pos : f[i] = 0
    BY <1>2 DEF Leads
  <2>2. PICK k \in Pos : g[k] = y /\ \A j \in 1..(k - 1) : g[j] = 0
    BY <1>2 DEF Leads
  <2>3. \A j \in 1..(k - 1) : j \in Pos /\ h[j] = 0
    <3>1. \A j \in 1..(k - 1) : j \in Pos
      BY DEF Pos
    <3> QED
      BY <1>0, <2>1, <2>2, <3>1 DEF Coherent
  <2>4. f[k] = 0 /\ g[k] = y /\ Coherent(f[k], g[k], h[k])
    BY <2>1, <2>2
  <2>5. h[k] # 0
    BY <1>0, <1>2, <2>4 DEF Coherent
  <2>6. z = h[k]
    BY <2>3, <2>5, LeadsAt
  <2> QED
    BY <1>0, <1>2, <2>4, <2>6
<1>3. CASE x # 0 /\ y = 0
  <2>1. \A i \in Pos : g[i] = 0
    BY <1>3 DEF Leads
  <2>2. PICK k \in Pos : f[k] = x /\ \A j \in 1..(k - 1) : f[j] = 0
    BY <1>3 DEF Leads
  <2>3. \A j \in 1..(k - 1) : j \in Pos /\ h[j] = 0
    <3>1. \A j \in 1..(k - 1) : j \in Pos
      BY DEF Pos
    <3> QED
      BY <1>0, <2>1, <2>2, <3>1 DEF Coherent
  <2>4. g[k] = 0 /\ f[k] = x /\ Coherent(f[k], g[k], h[k])
    BY <2>1, <2>2
  <2>5. h[k] # 0
    BY <1>0, <1>3, <2>4 DEF Coherent
  <2>6. z = h[k]
    BY <2>3, <2>5, LeadsAt
  <2> QED
    BY <1>0, <1>3, <2>4, <2>6
<1>4. CASE x # 0 /\ y # 0
  <2>1. PICK k \in Pos : f[k] = x /\ \A j \in 1..(k - 1) : f[j] = 0
    BY <1>4 DEF Leads
  <2>2. PICK m \in Pos : g[m] = y /\ \A j \in 1..(m - 1) : g[j] = 0
    BY <1>4 DEF Leads
  <2>3. CASE k < m
    <3>1. k \in 1..(m - 1) /\ \A j \in 1..(k - 1) : j \in Pos /\ j \in 1..(m - 1)
      BY <2>3 DEF Pos
    <3>2. \A j \in 1..(k - 1) : h[j] = 0
      BY <1>0, <2>1, <2>2, <3>1 DEF Coherent
    <3>3. f[k] = x /\ g[k] = 0 /\ Coherent(f[k], g[k], h[k])
      BY <2>1, <2>2, <3>1
    <3>4. h[k] # 0 /\ (h[k] > 0 <=> x > 0) /\ (h[k] < 0 <=> x < 0)
      BY <1>0, <1>4, <3>3 DEF Coherent
    <3>5. z = h[k]
      BY <3>2, <3>4, LeadsAt
    <3> QED
      BY <1>0, <1>4, <3>4, <3>5 DEF Coherent
  <2>4. CASE m < k
    <3>1. m \in 1..(k - 1) /\ \A j \in 1..(m - 1) : j \in Pos /\ j \in 1..(k - 1)
      BY <2>4 DEF Pos
    <3>2. \A j \in 1..(m - 1) : h[j] = 0
      BY <1>0, <2>1, <2>2, <3>1 DEF Coherent
    <3>3. f[m] = 0 /\ g[m] = y /\ Coherent(f[m], g[m], h[m])
      BY <2>1, <2>2, <3>1
    <3>4. h[m] # 0 /\ (h[m] > 0 <=> y > 0) /\ (h[m] < 0 <=> y < 0)
      BY <1>0, <1>4, <3>3 DEF Coherent
    <3>5. z = h[m]
      BY <3>2, <3>4, LeadsAt
    <3> QED
      BY <1>0, <1>4, <3>4, <3>5 DEF Coherent
  <2>5. CASE k = m
    <3>1. \A j \in 1..(k - 1) : j \in Pos
      BY DEF Pos
    <3>2. \A j \in 1..(k - 1) : h[j] = 0
      BY <1>0, <2>1, <2>2, <2>5, <3>1 DEF Coherent
    <3>3. f[k] = x /\ g[k] = y /\ Coherent(f[k], g[k], h[k])
      BY <2>1, <2>2, <2>5
    <3>4. CASE x > 0 /\ y > 0
      <4>1. h[k] # 0 /\ h[k] > 0
        BY <1>0, <3>3, <3>4 DEF Coherent
      <4>2. z = h[k]
        BY <3>2, <4>1, LeadsAt
      <4> QED
        BY <1>0, <3>4, <4>1, <4>2 DEF Coherent
    <3>5. CASE ~(x > 0 /\ y > 0)
      BY <1>4, <3>5 DEF Coherent
    <3> QED
      BY <3>4, <3>5
  <2> QED
    BY <2>3, <2>4, <2>5 DEF Pos
<1> QED
  BY <1>1, <1>2, <1>3, <1>4

LEMMA LexOpposed ==
  ASSUME NEW f \in [Pos -> Int], NEW g \in [Pos -> Int], NEW x \in Int, NEW y \in Int,
         Leads(f, x), Leads(g, y), \A i \in Pos : Opposed(f[i], g[i])
  PROVE  Opposed(x, y)
<1>0. \A i \in Pos : f[i] \in Int /\ g[i] \in Int
  OBVIOUS
<1>1. CASE x = 0
  <2>1. \A i \in Pos : f[i] = 0
    BY <1>1 DEF Leads
  <2>2. \A i \in Pos : g[i] = 0
    BY <1>0, <2>1 DEF Opposed
  <2>3. y = 0
    BY <2>2, LeadsNone
  <2> QED
    BY <1>1, <2>3 DEF Opposed
<1>2. CASE x # 0
  <2>1. PICK k \in Pos : f[k] = x /\ \A j \in 1..(k - 1) : f[j] = 0
    BY <1>2 DEF Leads
  <2>2. \A j \in 1..(k - 1) : j \in Pos
    BY DEF Pos
  <2>3. \A j \in 1..(k - 1) : g[j] = 0
    BY <1>0, <2>1, <2>2 DEF Opposed
  <2>4. g[k] # 0
    BY <1>0, <1>2, <2>1 DEF Opposed
  <2>5. y = g[k]
    BY <2>3, <2>4, LeadsAt
  <2> QED
    BY <2>1, <2>5
<1> QED
  BY <1>1, <1>2

(* Leading is the first result that is not zero.                            *)
Padded(results) == [i \in Pos |-> IF i <= Len(results) THEN results[i] ELSE 0]

LEMMA LeadingLeads ==
  ASSUME NEW results \in Seq(Int)
  PROVE  Leading(results) \in Int /\ Leads(Padded(results), Leading(results))
<1> DEFINE telling == {i \in DOMAIN results : results[i] # 0}
           len == Len(results)
<1>1. len \in Nat /\ DOMAIN results = 1..len /\ \A i \in 1..len : results[i] \in Int
  OBVIOUS
<1>2. \A i \in Pos : Padded(results)[i] = IF i <= len THEN results[i] ELSE 0
  BY DEF Padded
<1>3. CASE telling = {}
  <2>1. Leading(results) = 0
    BY <1>3 DEF Leading
  <2>2. \A i \in Pos : i <= len => i \in DOMAIN results
    BY <1>1 DEF Pos
  <2>3. \A i \in Pos : Padded(results)[i] = 0
    BY <1>2, <1>3, <2>2
  <2> QED
    BY <2>1, <2>3 DEF Leads
<1>4. CASE telling # {}
  <2> DEFINE first == CHOOSE i \in telling : \A j \in telling : i <= j
  <2>1. telling \in SUBSET Nat
    BY <1>1
  <2>2. \E i \in telling : \A j \in telling : i <= j
    <3> HIDE DEF telling
    <3> QED
      BY <1>4, <2>1, LeastOf
  <2>3. first \in telling /\ \A j \in telling : first <= j
    <3> HIDE DEF telling
    <3> QED
      BY <2>2
  <2>4. Leading(results) = results[first]
    BY <1>4 DEF Leading
  <2> HIDE DEF first
  <2>5. first \in Pos /\ first <= len /\ first \in 1..len /\ results[first] # 0
    BY <1>1, <2>3 DEF Pos
  <2>6. Padded(results)[first] = results[first]
    BY <1>2, <2>5
  <2>7. \A j \in 1..(first - 1) : Padded(results)[j] = 0
    <3> SUFFICES ASSUME NEW j \in 1..(first - 1) PROVE Padded(results)[j] = 0
      OBVIOUS
    <3>1. j \in Pos /\ j \in DOMAIN results /\ j <= len /\ ~(first <= j)
      BY <1>1, <2>5 DEF Pos
    <3>2. j \notin telling
      BY <2>3, <3>1
    <3> QED
      BY <1>2, <3>1, <3>2
  <2> QED
    BY <1>1, <2>4, <2>5, <2>6, <2>7 DEF Leads
<1> QED
  BY <1>3, <1>4

LEMMA PaddedInt ==
  ASSUME NEW results \in Seq(Int)
  PROVE  Padded(results) \in [Pos -> Int]
<1>1. Len(results) \in Nat /\ \A i \in 1..Len(results) : results[i] \in Int
  OBVIOUS
<1>2. \A i \in Pos : (IF i <= Len(results) THEN results[i] ELSE 0) \in Int
  BY <1>1 DEF Pos
<1> QED
  BY <1>2 DEF Padded

(* One more result at the end.                                              *)
LEMMA Extended ==
  ASSUME NEW m \in Nat, NEW r \in [1..m -> Int], NEW c \in Int
  PROVE  /\ r \o <<c>> \in Seq(Int) /\ Len(r \o <<c>>) = m + 1
         /\ \A i \in 1..m : (r \o <<c>>)[i] = r[i]
         /\ (r \o <<c>>)[m + 1] = c
<1>1. r \in Seq(Int) /\ Len(r) = m
  OBVIOUS
<1>2. r \o <<c>> = Append(r, c)
  BY <1>1, AppendIsConcat
<1> QED
  BY <1>1, <1>2

-----------------------------------------------------------------------------
(* Segments: of a prerelease, or of a local version.                        *)

SegmentAt(a, b, numericFirst) ==
  [i \in Pos |-> IF i <= Len(a) /\ i <= Len(b) THEN CompareSegment(a[i], b[i], numericFirst)
                 ELSE IF i <= Len(a) THEN 1 ELSE IF i <= Len(b) THEN -1 ELSE 0]

LEMMA CompareNumbersIs ==
  ASSUME NEW a \in Int, NEW b \in Int
  PROVE  /\ CompareNumbers(a, b) \in {-1, 0, 1}
         /\ CompareNumbers(a, b) < 0 <=> a < b
         /\ CompareNumbers(a, b) > 0 <=> a > b
         /\ CompareNumbers(a, b) = 0 <=> a = b
  BY DEF CompareNumbers

LEMMA NumbersCoherent ==
  ASSUME NEW a \in Int, NEW b \in Int, NEW c \in Int
  PROVE  /\ Coherent(CompareNumbers(a, b), CompareNumbers(b, c), CompareNumbers(a, c))
         /\ Opposed(CompareNumbers(a, b), CompareNumbers(b, a))
  BY DEF CompareNumbers, Coherent, Opposed

LEMMA SegmentIs ==
  ASSUME NEW x \in Segments, NEW y \in Segments, NEW nf \in BOOLEAN
  PROVE  /\ CompareSegment(x, y, nf) \in {-1, 0, 1}
         /\ x.numeric /\ y.numeric => CompareSegment(x, y, nf) = CompareNumbers(x.n, y.n)
         /\ ~x.numeric /\ ~y.numeric => CompareSegment(x, y, nf) = CompareNumbers(x.n, y.n)
         /\ x.numeric /\ ~y.numeric => CompareSegment(x, y, nf) = (IF nf THEN -1 ELSE 1)
         /\ ~x.numeric /\ y.numeric => CompareSegment(x, y, nf) = (IF nf THEN 1 ELSE -1)
<1>1. x.numeric \in BOOLEAN /\ y.numeric \in BOOLEAN /\ x.n \in Int /\ y.n \in Int
  BY DEF Segments
<1>2. CompareNumbers(x.n, y.n) \in {-1, 0, 1}
  BY <1>1, CompareNumbersIs
<1>3. CASE x.numeric = y.numeric
  <2>1. CompareSegment(x, y, nf) = CompareNumbers(x.n, y.n)
    BY <1>3 DEF CompareSegment
  <2> QED
    BY <1>1, <1>2, <1>3, <2>1
<1>4. CASE x.numeric # y.numeric
  <2>1. CompareSegment(x, y, nf) = IF x.numeric = nf THEN -1 ELSE 1
    BY <1>4 DEF CompareSegment
  <2> QED
    BY <1>1, <1>4, <2>1
<1> QED
  BY <1>3, <1>4

LEMMA SegmentCoherent ==
  ASSUME NEW x \in Segments, NEW y \in Segments, NEW z \in Segments, NEW nf \in BOOLEAN
  PROVE  /\ Coherent(CompareSegment(x, y, nf), CompareSegment(y, z, nf), CompareSegment(x, z, nf))
         /\ Opposed(CompareSegment(x, y, nf), CompareSegment(y, x, nf))
         /\ CompareSegment(x, x, nf) = 0
<1>1. x.numeric \in BOOLEAN /\ y.numeric \in BOOLEAN /\ z.numeric \in BOOLEAN /\ x.n \in Int /\ y.n \in Int /\ z.n \in Int
  BY DEF Segments
<1>2. /\ Coherent(CompareNumbers(x.n, y.n), CompareNumbers(y.n, z.n), CompareNumbers(x.n, z.n))
      /\ Opposed(CompareNumbers(x.n, y.n), CompareNumbers(y.n, x.n))
      /\ CompareNumbers(x.n, x.n) = 0
      /\ CompareNumbers(x.n, y.n) \in Int /\ CompareNumbers(y.n, z.n) \in Int /\ CompareNumbers(x.n, z.n) \in Int
  BY <1>1, NumbersCoherent, CompareNumbersIs
<1>3. CompareSegment(x, x, nf) = 0
  BY <1>1, <1>2, SegmentIs
<1>4. Opposed(CompareSegment(x, y, nf), CompareSegment(y, x, nf))
  <2>1. CASE x.numeric = y.numeric
    BY <1>1, <1>2, <2>1, SegmentIs
  <2>2. CASE x.numeric # y.numeric
    BY <1>1, <2>2, SegmentIs DEF Opposed
  <2> QED
    BY <2>1, <2>2
<1>5. Coherent(CompareSegment(x, y, nf), CompareSegment(y, z, nf), CompareSegment(x, z, nf))
  <2>1. CASE x.numeric = y.numeric /\ y.numeric = z.numeric
    BY <1>1, <1>2, <2>1, SegmentIs
  <2>2. CASE x.numeric # y.numeric /\ y.numeric = z.numeric
    <3>1. CompareSegment(x, y, nf) = CompareSegment(x, z, nf) /\ CompareSegment(x, y, nf) \in {-1, 1}
      BY <1>1, <2>2, SegmentIs
    <3>2. CompareSegment(y, z, nf) \in Int
      BY SegmentIs
    <3> QED
      BY <3>1, <3>2 DEF Coherent
  <2>3. CASE x.numeric = y.numeric /\ y.numeric # z.numeric
    <3>1. CompareSegment(y, z, nf) = CompareSegment(x, z, nf) /\ CompareSegment(y, z, nf) \in {-1, 1}
      BY <1>1, <2>3, SegmentIs
    <3>2. CompareSegment(x, y, nf) \in Int
      BY SegmentIs
    <3> QED
      BY <3>1, <3>2 DEF Coherent
  <2>4. CASE x.numeric # y.numeric /\ y.numeric # z.numeric
    <3>1. CompareSegment(x, y, nf) \in {-1, 1} /\ CompareSegment(y, z, nf) = 0 - CompareSegment(x, y, nf)
      BY <1>1, <2>4, SegmentIs
    <3>2. CompareSegment(x, z, nf) \in Int
      BY SegmentIs
    <3> QED
      BY <3>1, <3>2 DEF Coherent
  <2> QED
    BY <2>1, <2>2, <2>3, <2>4
<1> QED
  BY <1>3, <1>4, <1>5

LEMMA SegmentAtIs ==
  ASSUME NEW a \in Seq(Segments), NEW b \in Seq(Segments), NEW nf \in BOOLEAN, NEW i \in Pos
  PROVE  /\ SegmentAt(a, b, nf)[i] = IF i <= Len(a) /\ i <= Len(b) THEN CompareSegment(a[i], b[i], nf)
                                     ELSE IF i <= Len(a) THEN 1 ELSE IF i <= Len(b) THEN -1 ELSE 0
         /\ SegmentAt(a, b, nf)[i] \in {-1, 0, 1}
         /\ i <= Len(a) => a[i] \in Segments
         /\ i <= Len(b) => b[i] \in Segments
<1>1. Len(a) \in Nat /\ Len(b) \in Nat
  OBVIOUS
<1>2. (i <= Len(a) => a[i] \in Segments) /\ (i <= Len(b) => b[i] \in Segments)
  BY DEF Pos
<1>3. i <= Len(a) /\ i <= Len(b) => CompareSegment(a[i], b[i], nf) \in {-1, 0, 1}
  BY <1>2, SegmentIs
<1> QED
  BY <1>2, <1>3 DEF SegmentAt

LEMMA SegmentAtInt ==
  ASSUME NEW a \in Seq(Segments), NEW b \in Seq(Segments), NEW nf \in BOOLEAN
  PROVE  SegmentAt(a, b, nf) \in [Pos -> Int]
<1>1. \A i \in Pos : SegmentAt(a, b, nf)[i] \in Int
  BY SegmentAtIs
<1> QED
  BY <1>1 DEF SegmentAt

LEMMA SegmentsLead ==
  ASSUME NEW a \in Seq(Segments), NEW b \in Seq(Segments), NEW nf \in BOOLEAN
  PROVE  CompareSegments(a, b, nf) \in Int /\ Leads(SegmentAt(a, b, nf), CompareSegments(a, b, nf))
<1> DEFINE m == Shorter(a, b)
           r == [i \in 1..m |-> CompareSegment(a[i], b[i], nf)]
           c == CompareNumbers(Len(a), Len(b))
           s == r \o <<c>>
           value == Leading(s)
           f == SegmentAt(a, b, nf)
<1>1. /\ m \in Nat /\ Len(a) \in Nat /\ Len(b) \in Nat /\ m <= Len(a) /\ m <= Len(b) /\ (m = Len(a) \/ m = Len(b))
      /\ c \in Int /\ (c = 0 <=> Len(a) = Len(b)) /\ (Len(a) < Len(b) => c = -1) /\ (Len(a) > Len(b) => c = 1)
  BY DEF Shorter, CompareNumbers
<1> HIDE DEF m, c
<1>2. r \in [1..m -> Int]
  <2> SUFFICES ASSUME NEW i \in 1..m PROVE CompareSegment(a[i], b[i], nf) \in Int
    OBVIOUS
  <2>1. i \in Pos /\ i <= Len(a) /\ i <= Len(b)
    BY <1>1 DEF Pos
  <2> QED
    BY <2>1, SegmentAtIs, SegmentIs
<1>3. /\ s \in Seq(Int) /\ Len(s) = m + 1 /\ (\A i \in 1..m : s[i] = CompareSegment(a[i], b[i], nf)) /\ s[m + 1] = c
  <2>1. \A i \in 1..m : r[i] = CompareSegment(a[i], b[i], nf)
    OBVIOUS
  <2> HIDE DEF r
  <2> QED
    BY <1>1, <1>2, <2>1, Extended
<1>4. CompareSegments(a, b, nf) = value
  BY DEF CompareSegments, m, c
<1> HIDE DEF s
<1>5. value \in Int /\ Leads(Padded(s), value)
  BY <1>3, LeadingLeads
<1>6. \A i \in Pos : /\ i <= m => Padded(s)[i] = f[i]
                     /\ i = m + 1 => Padded(s)[i] = c /\ f[i] = c
                     /\ i > m + 1 => Padded(s)[i] = 0
  <2> SUFFICES ASSUME NEW i \in Pos
               PROVE  /\ i <= m => Padded(s)[i] = f[i]
                      /\ i = m + 1 => Padded(s)[i] = c /\ f[i] = c
                      /\ i > m + 1 => Padded(s)[i] = 0
    OBVIOUS
  <2>1. Padded(s)[i] = IF i <= m + 1 THEN s[i] ELSE 0
    BY <1>3 DEF Padded
  <2>2. f[i] = IF i <= Len(a) /\ i <= Len(b) THEN CompareSegment(a[i], b[i], nf)
               ELSE IF i <= Len(a) THEN 1 ELSE IF i <= Len(b) THEN -1 ELSE 0
    BY SegmentAtIs
  <2>3. i \in Nat /\ i > 0
    BY DEF Pos
  <2>4. i <= m => s[i] = CompareSegment(a[i], b[i], nf)
    BY <1>1, <1>3, <2>3
  <2> HIDE DEF f
  <2>5. i <= m => Padded(s)[i] = f[i]
    BY <1>1, <2>1, <2>2, <2>3, <2>4
  <2>6. i = m + 1 => Padded(s)[i] = c /\ f[i] = c
    BY <1>1, <1>3, <2>1, <2>2, <2>3
  <2>7. i > m + 1 => Padded(s)[i] = 0
    BY <1>1, <2>1, <2>3
  <2> QED
    BY <2>5, <2>6, <2>7
<1>7. CASE value = 0
  <2>1. \A i \in Pos : Padded(s)[i] = 0
    BY <1>5, <1>7 DEF Leads
  <2>2. m + 1 \in Pos
    BY <1>1 DEF Pos
  <2>3. c = 0
    BY <1>6, <2>1, <2>2
  <2>4. Len(a) = m /\ Len(b) = m
    BY <1>1, <2>3
  <2>5. \A i \in Pos : f[i] = 0
    <3> SUFFICES ASSUME NEW i \in Pos PROVE f[i] = 0
      OBVIOUS
    <3>1. CASE i <= m
      BY <1>6, <2>1, <3>1
    <3>2. CASE ~(i <= m)
      BY <2>4, <3>2, SegmentAtIs
    <3> QED
      BY <3>1, <3>2
  <2> QED
    BY <1>4, <1>5, <1>7, <2>5 DEF Leads
<1>8. CASE value # 0
  <2>1. PICK k \in Pos : Padded(s)[k] = value /\ \A j \in 1..(k - 1) : Padded(s)[j] = 0
    BY <1>5, <1>8 DEF Leads
  <2>2. k <= m + 1
    BY <1>1, <1>6, <1>8, <2>1 DEF Pos
  <2>3. f[k] = value
    <3>1. k <= m \/ k = m + 1
      BY <1>1, <2>2 DEF Pos
    <3> QED
      BY <1>6, <2>1, <3>1
  <2>4. \A j \in 1..(k - 1) : f[j] = 0
    <3> SUFFICES ASSUME NEW j \in 1..(k - 1) PROVE f[j] = 0
      OBVIOUS
    <3>1. j \in Pos /\ j <= m
      BY <1>1, <2>2 DEF Pos
    <3> QED
      BY <1>6, <2>1, <3>1
  <2> HIDE DEF f
  <2> QED
    BY <1>4, <1>5, <1>8, <2>3, <2>4 DEF Leads, f
<1> QED
  BY <1>7, <1>8

LEMMA SegmentsCoherent ==
  ASSUME NEW a \in Seq(Segments), NEW b \in Seq(Segments), NEW c \in Seq(Segments), NEW nf \in BOOLEAN
  PROVE  /\ Coherent(CompareSegments(a, b, nf), CompareSegments(b, c, nf), CompareSegments(a, c, nf))
         /\ Opposed(CompareSegments(a, b, nf), CompareSegments(b, a, nf))
<1>1. ASSUME NEW i \in Pos
      PROVE  /\ Coherent(SegmentAt(a, b, nf)[i], SegmentAt(b, c, nf)[i], SegmentAt(a, c, nf)[i])
             /\ Opposed(SegmentAt(a, b, nf)[i], SegmentAt(b, a, nf)[i])
  <2>1. Len(a) \in Nat /\ Len(b) \in Nat /\ Len(c) \in Nat /\ i \in Nat
    BY DEF Pos
  <2> DEFINE ab == SegmentAt(a, b, nf)[i]
             bc == SegmentAt(b, c, nf)[i]
             ac == SegmentAt(a, c, nf)[i]
             ba == SegmentAt(b, a, nf)[i]
  <2>2. /\ ab = IF i <= Len(a) /\ i <= Len(b) THEN CompareSegment(a[i], b[i], nf)
                ELSE IF i <= Len(a) THEN 1 ELSE IF i <= Len(b) THEN -1 ELSE 0
        /\ bc = IF i <= Len(b) /\ i <= Len(c) THEN CompareSegment(b[i], c[i], nf)
                ELSE IF i <= Len(b) THEN 1 ELSE IF i <= Len(c) THEN -1 ELSE 0
        /\ ac = IF i <= Len(a) /\ i <= Len(c) THEN CompareSegment(a[i], c[i], nf)
                ELSE IF i <= Len(a) THEN 1 ELSE IF i <= Len(c) THEN -1 ELSE 0
        /\ ba = IF i <= Len(b) /\ i <= Len(a) THEN CompareSegment(b[i], a[i], nf)
                ELSE IF i <= Len(b) THEN 1 ELSE IF i <= Len(a) THEN -1 ELSE 0
        /\ ab \in {-1, 0, 1} /\ bc \in {-1, 0, 1} /\ ac \in {-1, 0, 1} /\ ba \in {-1, 0, 1}
    BY SegmentAtIs
  <2>3. i <= Len(a) /\ i <= Len(b) /\ i <= Len(c) =>
          Coherent(CompareSegment(a[i], b[i], nf), CompareSegment(b[i], c[i], nf), CompareSegment(a[i], c[i], nf))
    BY SegmentAtIs, SegmentCoherent
  <2>4. i <= Len(a) /\ i <= Len(b) => Opposed(CompareSegment(a[i], b[i], nf), CompareSegment(b[i], a[i], nf))
    BY SegmentAtIs, SegmentCoherent
  <2> HIDE DEF ab, bc, ac, ba
  <2>5. Coherent(ab, bc, ac)
    <3>1. CASE i <= Len(a) /\ i <= Len(b) /\ i <= Len(c)
      BY <2>2, <2>3, <3>1
    <3>2. CASE ~(i <= Len(a) /\ i <= Len(b) /\ i <= Len(c))
      BY <2>1, <2>2, <3>2 DEF Coherent
    <3> QED
      BY <3>1, <3>2
  <2>6. Opposed(ab, ba)
    <3>1. CASE i <= Len(a) /\ i <= Len(b)
      BY <2>2, <2>4, <3>1
    <3>2. CASE ~(i <= Len(a) /\ i <= Len(b))
      BY <2>1, <2>2, <3>2 DEF Opposed
    <3> QED
      BY <3>1, <3>2
  <2> QED
    BY <2>5, <2>6 DEF ab, bc, ac, ba
<1>2. /\ SegmentAt(a, b, nf) \in [Pos -> Int] /\ SegmentAt(b, c, nf) \in [Pos -> Int]
      /\ SegmentAt(a, c, nf) \in [Pos -> Int] /\ SegmentAt(b, a, nf) \in [Pos -> Int]
  BY SegmentAtInt
<1>3. /\ CompareSegments(a, b, nf) \in Int /\ Leads(SegmentAt(a, b, nf), CompareSegments(a, b, nf))
      /\ CompareSegments(b, c, nf) \in Int /\ Leads(SegmentAt(b, c, nf), CompareSegments(b, c, nf))
      /\ CompareSegments(a, c, nf) \in Int /\ Leads(SegmentAt(a, c, nf), CompareSegments(a, c, nf))
      /\ CompareSegments(b, a, nf) \in Int /\ Leads(SegmentAt(b, a, nf), CompareSegments(b, a, nf))
  BY SegmentsLead
<1>4. Coherent(CompareSegments(a, b, nf), CompareSegments(b, c, nf), CompareSegments(a, c, nf))
  BY <1>1, <1>2, <1>3, LexCoherent
<1>5. Opposed(CompareSegments(a, b, nf), CompareSegments(b, a, nf))
  BY <1>1, <1>2, <1>3, LexOpposed
<1> QED
  BY <1>4, <1>5

-----------------------------------------------------------------------------
(* Semantic versions: the three numbers, then the prereleases.              *)

ComparePre(p, q) ==
  IF p = <<>> \/ q = <<>> THEN CompareNumbers(Len(q), 0) - CompareNumbers(Len(p), 0) ELSE CompareSegments(p, q, TRUE)

SemverAt(a, b) ==
  [i \in Pos |-> IF i <= 3 THEN CompareNumbers(a.num[i], b.num[i]) ELSE IF i = 4 THEN ComparePre(a.pre, b.pre) ELSE 0]

LEMMA PreIs ==
  ASSUME NEW p \in Seq(Segments), NEW q \in Seq(Segments)
  PROVE  /\ ComparePre(p, q) \in Int
         /\ p = <<>> /\ q = <<>> => ComparePre(p, q) = 0
         /\ p = <<>> /\ q # <<>> => ComparePre(p, q) = 1
         /\ p # <<>> /\ q = <<>> => ComparePre(p, q) = -1
         /\ p # <<>> /\ q # <<>> => ComparePre(p, q) = CompareSegments(p, q, TRUE)
<1>1. Len(p) \in Nat /\ Len(q) \in Nat /\ (p = <<>> <=> Len(p) = 0) /\ (q = <<>> <=> Len(q) = 0)
  OBVIOUS
<1>2. CompareSegments(p, q, TRUE) \in Int
  BY SegmentsLead
<1>3. /\ (Len(p) = 0 => CompareNumbers(Len(p), 0) = 0) /\ (Len(p) # 0 => CompareNumbers(Len(p), 0) = 1)
      /\ (Len(q) = 0 => CompareNumbers(Len(q), 0) = 0) /\ (Len(q) # 0 => CompareNumbers(Len(q), 0) = 1)
  BY <1>1 DEF CompareNumbers
<1>4. CASE p # <<>> /\ q # <<>>
  BY <1>2, <1>4 DEF ComparePre
<1>5. CASE p = <<>> \/ q = <<>>
  <2>1. ComparePre(p, q) = CompareNumbers(Len(q), 0) - CompareNumbers(Len(p), 0)
    BY <1>5 DEF ComparePre
  <2> DEFINE x == CompareNumbers(Len(q), 0)
             y == CompareNumbers(Len(p), 0)
             value == ComparePre(p, q)
  <2>2. /\ (p = <<>> => y = 0) /\ (p # <<>> => y = 1)
        /\ (q = <<>> => x = 0) /\ (q # <<>> => x = 1)
    BY <1>1, <1>3
  <2>3. value = x - y
    BY <2>1
  <2> HIDE DEF x, y, value
  <2>4. /\ value \in Int
        /\ p = <<>> /\ q = <<>> => value = 0
        /\ p = <<>> /\ q # <<>> => value = 1
        /\ p # <<>> /\ q = <<>> => value = -1
    BY <2>2, <2>3
  <2> QED
    BY <1>5, <2>4 DEF value
<1> QED
  BY <1>4, <1>5

LEMMA PreCoherent ==
  ASSUME NEW p \in Seq(Segments), NEW q \in Seq(Segments), NEW r \in Seq(Segments)
  PROVE  /\ Coherent(ComparePre(p, q), ComparePre(q, r), ComparePre(p, r))
         /\ Opposed(ComparePre(p, q), ComparePre(q, p))
<1>1. /\ ComparePre(p, q) \in Int /\ ComparePre(q, r) \in Int /\ ComparePre(p, r) \in Int /\ ComparePre(q, p) \in Int
  BY PreIs
<1>2. Opposed(ComparePre(p, q), ComparePre(q, p))
  <2>1. CASE p # <<>> /\ q # <<>>
    <3>1. ComparePre(p, q) = CompareSegments(p, q, TRUE) /\ ComparePre(q, p) = CompareSegments(q, p, TRUE)
      BY <2>1, PreIs
    <3>2. Opposed(CompareSegments(p, q, TRUE), CompareSegments(q, p, TRUE))
      BY SegmentsCoherent
    <3> QED
      BY <3>1, <3>2, Zenon
  <2>2. CASE p = <<>> \/ q = <<>>
    <3> DEFINE x == ComparePre(p, q)
               y == ComparePre(q, p)
    <3>1. /\ x \in Int /\ y \in Int
          /\ p = <<>> /\ q = <<>> => x = 0 /\ y = 0
          /\ p = <<>> /\ q # <<>> => x = 1 /\ y = -1
          /\ p # <<>> /\ q = <<>> => x = -1 /\ y = 1
      BY PreIs
    <3> HIDE DEF x, y
    <3>2. Opposed(x, y)
      BY <2>2, <3>1 DEF Opposed
    <3> QED
      BY <3>2 DEF x, y
  <2> QED
    BY <2>1, <2>2
<1>3. Coherent(ComparePre(p, q), ComparePre(q, r), ComparePre(p, r))
  <2>1. CASE p # <<>> /\ q # <<>> /\ r # <<>>
    <3>1. /\ ComparePre(p, q) = CompareSegments(p, q, TRUE) /\ ComparePre(q, r) = CompareSegments(q, r, TRUE)
          /\ ComparePre(p, r) = CompareSegments(p, r, TRUE)
      BY <2>1, PreIs
    <3>2. Coherent(CompareSegments(p, q, TRUE), CompareSegments(q, r, TRUE), CompareSegments(p, r, TRUE))
      BY SegmentsCoherent
    <3> QED
      BY <3>1, <3>2, Zenon
  <2>2. CASE p = <<>> \/ q = <<>> \/ r = <<>>
    <3> DEFINE x == ComparePre(p, q)
               y == ComparePre(q, r)
               z == ComparePre(p, r)
    <3>1. /\ x \in Int /\ y \in Int /\ z \in Int
          /\ p = <<>> /\ q = <<>> => x = 0
          /\ p = <<>> /\ q # <<>> => x = 1
          /\ p # <<>> /\ q = <<>> => x = -1
          /\ q = <<>> /\ r = <<>> => y = 0
          /\ q = <<>> /\ r # <<>> => y = 1
          /\ q # <<>> /\ r = <<>> => y = -1
          /\ p = <<>> /\ r = <<>> => z = 0
          /\ p = <<>> /\ r # <<>> => z = 1
          /\ p # <<>> /\ r = <<>> => z = -1
      BY PreIs
    <3> HIDE DEF x, y, z
    <3>2. Coherent(x, y, z)
      BY <2>2, <3>1 DEF Coherent
    <3> QED
      BY <3>2 DEF x, y, z
  <2> QED
    BY <2>1, <2>2
<1> QED
  BY <1>2, <1>3

LEMMA SemverParts ==
  ASSUME NEW a \in SemverVersions
  PROVE  /\ \A i \in 1..3 : a.num[i] \in Nat
         /\ \A i \in 1..3 : a.num[i] \in Int
         /\ a.num[1] \in Nat /\ a.num[2] \in Nat /\ a.num[3] \in Nat
         /\ a.pre \in Seq(Segments)
<1>1. a.num \in [1..3 -> Nat] /\ a.pre \in Seq(Segments)
  BY DEF SemverVersions
<1>2. \A i \in 1..3 : a.num[i] \in Nat
  BY <1>1
<1> QED
  BY <1>1, <1>2

LEMMA SemverAtIs ==
  ASSUME NEW a \in SemverVersions, NEW b \in SemverVersions
  PROVE  /\ SemverAt(a, b) \in [Pos -> Int]
         /\ \A i \in Pos : SemverAt(a, b)[i] = IF i <= 3 THEN CompareNumbers(a.num[i], b.num[i])
                                               ELSE IF i = 4 THEN ComparePre(a.pre, b.pre) ELSE 0
<1>1. /\ \A i \in 1..3 : a.num[i] \in Int /\ b.num[i] \in Int
      /\ a.pre \in Seq(Segments) /\ b.pre \in Seq(Segments)
  BY SemverParts
<1>2. ASSUME NEW i \in Pos
      PROVE  (IF i <= 3 THEN CompareNumbers(a.num[i], b.num[i]) ELSE IF i = 4 THEN ComparePre(a.pre, b.pre) ELSE 0) \in Int
  <2>1. CASE i <= 3
    <3>1. i \in 1..3
      BY <2>1 DEF Pos
    <3>2. a.num[i] \in Int /\ b.num[i] \in Int
      BY <1>1, <3>1
    <3> QED
      BY <2>1, <3>2, CompareNumbersIs
  <2>2. CASE ~(i <= 3)
    <3>1. ComparePre(a.pre, b.pre) \in Int
      BY <1>1, PreIs
    <3> QED
      BY <2>2, <3>1
  <2> QED
    BY <2>1, <2>2
<1> QED
  BY <1>1, <1>2 DEF SemverAt

LEMMA SemverLeads ==
  ASSUME NEW a \in SemverVersions, NEW b \in SemverVersions
  PROVE  CompareSemver(a, b) \in Int /\ Leads(SemverAt(a, b), CompareSemver(a, b))
<1> DEFINE r == [i \in 1..3 |-> CompareNumbers(a.num[i], b.num[i])]
           c == ComparePre(a.pre, b.pre)
           s == r \o <<c>>
<1>1. CompareSemver(a, b) = Leading(s)
  BY DEF CompareSemver, ComparePre
<1>2. r \in [1..3 -> Int] /\ c \in Int /\ \A i \in 1..3 : r[i] = CompareNumbers(a.num[i], b.num[i])
  <2>1. \A i \in 1..3 : a.num[i] \in Int /\ b.num[i] \in Int
    BY SemverParts
  <2>2. \A i \in 1..3 : CompareNumbers(a.num[i], b.num[i]) \in Int
    BY <2>1, CompareNumbersIs
  <2>3. c \in Int
    BY SemverParts, PreIs
  <2> QED
    BY <2>2, <2>3
<1> HIDE DEF r, c
<1>3. s \in Seq(Int) /\ Len(s) = 3 + 1 /\ (\A i \in 1..3 : s[i] = r[i]) /\ s[3 + 1] = c
  <2>1. PICK m \in Nat : m = 3
    OBVIOUS
  <2>2. r \in [1..m -> Int]
    BY <1>2, <2>1
  <2>3. s \in Seq(Int) /\ Len(s) = m + 1 /\ (\A i \in 1..m : s[i] = r[i]) /\ s[m + 1] = c
    BY <1>2, <2>2, Extended
  <2> HIDE DEF s
  <2> QED
    BY <2>1, <2>3
<1>4. 3 + 1 = 4
  OBVIOUS
<1> HIDE DEF s
<1>5. Padded(s) = SemverAt(a, b)
  <2>1. \A i \in Pos : (IF i <= Len(s) THEN s[i] ELSE 0)
                         = IF i <= 3 THEN CompareNumbers(a.num[i], b.num[i]) ELSE IF i = 4 THEN ComparePre(a.pre, b.pre) ELSE 0
    <3> SUFFICES ASSUME NEW i \in Pos
                 PROVE  (IF i <= Len(s) THEN s[i] ELSE 0)
                          = IF i <= 3 THEN CompareNumbers(a.num[i], b.num[i]) ELSE IF i = 4 THEN ComparePre(a.pre, b.pre) ELSE 0
      OBVIOUS
    <3>1. i \in Nat /\ i > 0 /\ (i <= 3 => i \in 1..3)
      BY DEF Pos
    <3>2. CASE i <= 3
      BY <1>2, <1>3, <3>1, <3>2
    <3>3. CASE i = 4
      <4>1. Len(s) = 4 /\ s[4] = c
        BY <1>3, <1>4
      <4>2. (IF i <= Len(s) THEN s[i] ELSE 0) = c
        BY <3>3, <4>1
      <4>3. (IF i <= 3 THEN CompareNumbers(a.num[i], b.num[i]) ELSE IF i = 4 THEN ComparePre(a.pre, b.pre) ELSE 0)
              = ComparePre(a.pre, b.pre)
        BY <3>3
      <4> QED
        BY <4>2, <4>3 DEF c
    <3>4. CASE i > 4
      <4>1. Len(s) = 4 /\ ~(i <= 4) /\ ~(i <= 3) /\ i # 4
        BY <1>3, <1>4, <3>1, <3>4
      <4> QED
        BY <4>1
    <3> QED
      BY <3>1, <3>2, <3>3, <3>4
  <2> QED
    BY <2>1 DEF Padded, SemverAt
<1> QED
  BY <1>1, <1>3, <1>5, LeadingLeads

LEMMA SemverCoherent ==
  ASSUME NEW a \in SemverVersions, NEW b \in SemverVersions, NEW c \in SemverVersions
  PROVE  /\ Coherent(CompareSemver(a, b), CompareSemver(b, c), CompareSemver(a, c))
         /\ Opposed(CompareSemver(a, b), CompareSemver(b, a))
<1>1. ASSUME NEW i \in Pos
      PROVE  /\ Coherent(SemverAt(a, b)[i], SemverAt(b, c)[i], SemverAt(a, c)[i])
             /\ Opposed(SemverAt(a, b)[i], SemverAt(b, a)[i])
  <2>1. CASE i <= 3
    <3>1. i \in 1..3
      BY <2>1 DEF Pos
    <3>2. a.num[i] \in Int /\ b.num[i] \in Int /\ c.num[i] \in Int
      BY <3>1, SemverParts
    <3>3. /\ Coherent(CompareNumbers(a.num[i], b.num[i]), CompareNumbers(b.num[i], c.num[i]), CompareNumbers(a.num[i], c.num[i]))
          /\ Opposed(CompareNumbers(a.num[i], b.num[i]), CompareNumbers(b.num[i], a.num[i]))
      BY <3>2, NumbersCoherent
    <3> QED
      BY <2>1, <3>3, SemverAtIs
  <2>2. CASE i = 4
    <3>1. /\ Coherent(ComparePre(a.pre, b.pre), ComparePre(b.pre, c.pre), ComparePre(a.pre, c.pre))
          /\ Opposed(ComparePre(a.pre, b.pre), ComparePre(b.pre, a.pre))
      BY SemverParts, PreCoherent
    <3>2. ~(i <= 3)
      BY <2>2
    <3> QED
      BY <2>2, <3>1, <3>2, SemverAtIs
  <2>3. CASE ~(i <= 3) /\ i # 4
    <3>1. SemverAt(a, b)[i] = 0 /\ SemverAt(b, c)[i] = 0 /\ SemverAt(a, c)[i] = 0 /\ SemverAt(b, a)[i] = 0
      BY <2>3, SemverAtIs
    <3> QED
      BY <3>1 DEF Coherent, Opposed
  <2> QED
    BY <2>1, <2>2, <2>3
<1>2. /\ SemverAt(a, b) \in [Pos -> Int] /\ SemverAt(b, c) \in [Pos -> Int]
      /\ SemverAt(a, c) \in [Pos -> Int] /\ SemverAt(b, a) \in [Pos -> Int]
  BY SemverAtIs
<1>3. /\ CompareSemver(a, b) \in Int /\ Leads(SemverAt(a, b), CompareSemver(a, b))
      /\ CompareSemver(b, c) \in Int /\ Leads(SemverAt(b, c), CompareSemver(b, c))
      /\ CompareSemver(a, c) \in Int /\ Leads(SemverAt(a, c), CompareSemver(a, c))
      /\ CompareSemver(b, a) \in Int /\ Leads(SemverAt(b, a), CompareSemver(b, a))
  BY SemverLeads
<1>4. Coherent(CompareSemver(a, b), CompareSemver(b, c), CompareSemver(a, c))
  BY <1>1, <1>2, <1>3, LexCoherent
<1>5. Opposed(CompareSemver(a, b), CompareSemver(b, a))
  BY <1>1, <1>2, <1>3, LexOpposed
<1> QED
  BY <1>4, <1>5

(* The order of two versions, by their numbers.                             *)
NumBelow(x, y) == x[1] < y[1] \/ (x[1] = y[1] /\ (x[2] < y[2] \/ (x[2] = y[2] /\ x[3] < y[3])))
NumSame(x, y) == x[1] = y[1] /\ x[2] = y[2] /\ x[3] = y[3]

LEMMA SemverIs ==
  ASSUME NEW a \in SemverVersions, NEW b \in SemverVersions
  PROVE  /\ CompareSemver(a, b) \in Int
         /\ NumBelow(a.num, b.num) => CompareSemver(a, b) < 0
         /\ NumBelow(b.num, a.num) => CompareSemver(a, b) > 0
         /\ NumSame(a.num, b.num) => CompareSemver(a, b) = ComparePre(a.pre, b.pre)
<1> DEFINE f == SemverAt(a, b)
           x == a.num
           y == b.num
           value == CompareSemver(a, b)
<1>1. f \in [Pos -> Int] /\ value \in Int /\ Leads(f, value)
  BY SemverAtIs, SemverLeads
<1>2. /\ x[1] \in Int /\ x[2] \in Int /\ x[3] \in Int /\ y[1] \in Int /\ y[2] \in Int /\ y[3] \in Int
      /\ 1 \in Pos /\ 2 \in Pos /\ 3 \in Pos /\ 4 \in Pos
      /\ f[1] = CompareNumbers(x[1], y[1]) /\ f[2] = CompareNumbers(x[2], y[2]) /\ f[3] = CompareNumbers(x[3], y[3])
      /\ f[4] = ComparePre(a.pre, b.pre) /\ ComparePre(a.pre, b.pre) \in Int
  <2>1. 1 \in Pos /\ 2 \in Pos /\ 3 \in Pos /\ 4 \in Pos
    BY DEF Pos
  <2>2. x[1] \in Int /\ x[2] \in Int /\ x[3] \in Int /\ y[1] \in Int /\ y[2] \in Int /\ y[3] \in Int
    BY SemverParts
  <2>3. ComparePre(a.pre, b.pre) \in Int
    BY SemverParts, PreIs
  <2>4. \A i \in Pos : f[i] = IF i <= 3 THEN CompareNumbers(x[i], y[i]) ELSE IF i = 4 THEN ComparePre(a.pre, b.pre) ELSE 0
    BY SemverAtIs
  <2> HIDE DEF f, x, y
  <2> QED
    BY <2>1, <2>2, <2>3, <2>4
<1>3. /\ (\A j \in 1..(1 - 1) : f[j] = 0)
      /\ (f[1] = 0 => \A j \in 1..(2 - 1) : f[j] = 0)
      /\ (f[1] = 0 /\ f[2] = 0 => \A j \in 1..(3 - 1) : f[j] = 0)
      /\ (f[1] = 0 /\ f[2] = 0 /\ f[3] = 0 => \A j \in 1..(4 - 1) : f[j] = 0)
  <2>1. (\A j \in 1..(1 - 1) : FALSE) /\ (\A j \in 1..(2 - 1) : j = 1) /\ (\A j \in 1..(3 - 1) : j = 1 \/ j = 2)
        /\ (\A j \in 1..(4 - 1) : j = 1 \/ j = 2 \/ j = 3)
    OBVIOUS
  <2> HIDE DEF f
  <2> QED
    BY <2>1
<1> HIDE DEF f, value, x, y
<1>4. /\ f[1] # 0 => value = f[1]
      /\ f[1] = 0 /\ f[2] # 0 => value = f[2]
      /\ f[1] = 0 /\ f[2] = 0 /\ f[3] # 0 => value = f[3]
      /\ f[1] = 0 /\ f[2] = 0 /\ f[3] = 0 /\ f[4] # 0 => value = f[4]
  BY <1>1, <1>2, <1>3, LeadsAt
<1>5. f[1] = 0 /\ f[2] = 0 /\ f[3] = 0 /\ f[4] = 0 => value = 0
  <2> SUFFICES ASSUME f[1] = 0, f[2] = 0, f[3] = 0, f[4] = 0, value # 0 PROVE FALSE
    BY <1>1
  <2>1. PICK k \in Pos : f[k] = value
    BY <1>1 DEF Leads
  <2>2. k \in {1, 2, 3, 4} \/ (~(k <= 3) /\ k # 4)
    BY DEF Pos
  <2>3. ~(k <= 3) /\ k # 4 => f[k] = 0
    BY SemverAtIs DEF f
  <2> QED
    BY <2>1, <2>2, <2>3
<1>6. /\ (f[1] < 0 <=> x[1] < y[1]) /\ (f[1] = 0 <=> x[1] = y[1]) /\ (f[1] > 0 <=> x[1] > y[1])
      /\ (f[2] < 0 <=> x[2] < y[2]) /\ (f[2] = 0 <=> x[2] = y[2]) /\ (f[2] > 0 <=> x[2] > y[2])
      /\ (f[3] < 0 <=> x[3] < y[3]) /\ (f[3] = 0 <=> x[3] = y[3]) /\ (f[3] > 0 <=> x[3] > y[3])
      /\ f[1] \in Int /\ f[2] \in Int /\ f[3] \in Int
  BY <1>2, CompareNumbersIs
<1>7. NumBelow(x, y) => value < 0
  BY <1>2, <1>4, <1>6 DEF NumBelow
<1>8. NumBelow(y, x) => value > 0
  BY <1>2, <1>4, <1>6 DEF NumBelow
<1>9. NumSame(x, y) => value = ComparePre(a.pre, b.pre)
  BY <1>2, <1>4, <1>5, <1>6 DEF NumSame
<1> QED
  BY <1>1, <1>7, <1>8, <1>9 DEF value, x, y

(* Against a bound that is no prerelease: below it are the versions below   *)
(* its numbers, and its own prereleases.                                    *)
LEMMA AgainstRelease ==
  ASSUME NEW v \in SemverVersions, NEW b \in SemverVersions, b.pre = <<>>
  PROVE  /\ CompareSemver(v, b) < 0 <=> NumBelow(v.num, b.num) \/ (NumSame(v.num, b.num) /\ v.pre # <<>>)
         /\ CompareSemver(v, b) >= 0 <=> NumBelow(b.num, v.num) \/ (NumSame(v.num, b.num) /\ v.pre = <<>>)
         /\ CompareSemver(v, b) > 0 <=> NumBelow(b.num, v.num)
         /\ CompareSemver(v, b) <= 0 <=> ~NumBelow(b.num, v.num)
         /\ CompareSemver(v, b) = 0 <=> NumSame(v.num, b.num) /\ v.pre = <<>>
<1>1. NumBelow(v.num, b.num) \/ NumBelow(b.num, v.num) \/ NumSame(v.num, b.num)
  <2>1. /\ v.num[1] \in Int /\ v.num[2] \in Int /\ v.num[3] \in Int
        /\ b.num[1] \in Int /\ b.num[2] \in Int /\ b.num[3] \in Int
    BY DEF SemverVersions
  <2> QED
    BY <2>1 DEF NumBelow, NumSame
<1>2. /\ ~(NumBelow(v.num, b.num) /\ NumBelow(b.num, v.num))
      /\ ~(NumBelow(v.num, b.num) /\ NumSame(v.num, b.num))
      /\ ~(NumBelow(b.num, v.num) /\ NumSame(v.num, b.num))
  <2>1. /\ v.num[1] \in Int /\ v.num[2] \in Int /\ v.num[3] \in Int
        /\ b.num[1] \in Int /\ b.num[2] \in Int /\ b.num[3] \in Int
    BY DEF SemverVersions
  <2> QED
    BY <2>1 DEF NumBelow, NumSame
<1>3. /\ v.pre = <<>> => ComparePre(v.pre, b.pre) = 0
      /\ v.pre # <<>> => ComparePre(v.pre, b.pre) = -1
  BY SemverParts, PreIs
<1>4. /\ CompareSemver(v, b) \in Int
      /\ NumBelow(v.num, b.num) => CompareSemver(v, b) < 0
      /\ NumBelow(b.num, v.num) => CompareSemver(v, b) > 0
      /\ NumSame(v.num, b.num) => CompareSemver(v, b) = ComparePre(v.pre, b.pre)
  BY SemverIs
<1> QED
  BY <1>1, <1>2, <1>3, <1>4

-----------------------------------------------------------------------------
(* Releases: piece by piece, a release going on with zeros.                 *)

LEMMA Upmost ==
  ASSUME NEW len \in Nat, NEW A \in SUBSET (1..len)
  PROVE  \E n \in 0..len : n \in A \cup {0} /\ \A i \in A : i <= n
<1> DEFINE above == {m \in 0..len : \A i \in A : i <= m}
<1>1. len \in above
  OBVIOUS
<1>2. PICK m \in above : \A j \in above : m <= j
  <2>1. above \in SUBSET Nat /\ above # {}
    BY <1>1
  <2> HIDE DEF above
  <2> QED
    BY <2>1, LeastOf
<1>3. m \in 0..len /\ \A i \in A : i <= m
  BY <1>2
<1>4. ASSUME m \notin A, m # 0 PROVE FALSE
  <2>1. m - 1 \in 0..len /\ ~(m <= m - 1)
    BY <1>3, <1>4
  <2>2. \A i \in A : i <= m - 1
    BY <1>3, <1>4
  <2> QED
    BY <1>2, <2>1, <2>2
<1> QED
  BY <1>3, <1>4

LEMMA TrimmedIs ==
  ASSUME NEW a \in Seq(Nat)
  PROVE  /\ Trimmed(a) \in Seq(Nat) /\ Len(Trimmed(a)) <= Len(a)
         /\ \A i \in 1..Len(Trimmed(a)) : Trimmed(a)[i] = a[i]
         /\ Len(Trimmed(a)) # 0 => a[Len(Trimmed(a))] # 0
         /\ \A i \in 1..Len(a) : i > Len(Trimmed(a)) => a[i] = 0
<1> DEFINE stated == {i \in DOMAIN a : a[i] # 0}
           last == CHOOSE n \in 0..Len(a) : n \in stated \cup {0} /\ \A i \in stated : i <= n
<1>1. Len(a) \in Nat /\ DOMAIN a = 1..Len(a)
  OBVIOUS
<1>2. \E n \in 0..Len(a) : n \in stated \cup {0} /\ \A i \in stated : i <= n
  <2>1. stated \in SUBSET (1..Len(a))
    BY <1>1
  <2> HIDE DEF stated
  <2> QED
    BY <1>1, <2>1, Upmost
<1>3. last \in 0..Len(a) /\ last \in stated \cup {0} /\ \A i \in stated : i <= last
  <2> HIDE DEF stated
  <2> QED
    BY <1>2
<1>4. Trimmed(a) = SubSeq(a, 1, last)
  BY DEF Trimmed
<1> HIDE DEF last
<1>5. SubSeq(a, 1, last) \in Seq(Nat) /\ Len(SubSeq(a, 1, last)) = last /\ \A i \in 1..last : SubSeq(a, 1, last)[i] = a[i]
  BY <1>1, <1>3
<1>6. last # 0 => a[last] # 0
  BY <1>3
<1>7. \A i \in 1..Len(a) : i > last => a[i] = 0
  <2> SUFFICES ASSUME NEW i \in 1..Len(a), i > last, a[i] # 0 PROVE FALSE
    OBVIOUS
  <2>1. i \in stated
    BY <1>1
  <2> QED
    BY <1>1, <1>3, <2>1
<1> QED
  BY <1>3, <1>4, <1>5, <1>6, <1>7

LEMMA PieceIs ==
  ASSUME NEW a \in Seq(Nat), NEW i \in Pos
  PROVE  /\ Piece(a, i) \in Nat
         /\ i <= Len(Trimmed(a)) => Trimmed(a)[i] = Piece(a, i)
         /\ i > Len(Trimmed(a)) => Piece(a, i) = 0
         /\ i = Len(Trimmed(a)) => Piece(a, i) # 0
<1>1. i \in Nat /\ i > 0 /\ Len(a) \in Nat /\ Len(Trimmed(a)) \in Nat
  BY TrimmedIs DEF Pos
<1>2. CASE i <= Len(a)
  <2>1. i \in 1..Len(a) /\ a[i] \in Nat /\ Piece(a, i) = a[i]
    BY <1>1, <1>2 DEF Piece
  <2>2. i <= Len(Trimmed(a)) => i \in 1..Len(Trimmed(a))
    BY <1>1
  <2> QED
    BY <1>1, <2>1, <2>2, TrimmedIs
<1>3. CASE ~(i <= Len(a))
  <2>1. Piece(a, i) = 0
    BY <1>3 DEF Piece
  <2>2. Len(Trimmed(a)) <= Len(a)
    BY TrimmedIs
  <2> QED
    BY <1>1, <1>3, <2>1, <2>2
<1> QED
  BY <1>2, <1>3

ReleaseAt(a, b) == [i \in Pos |-> CompareNumbers(Piece(a, i), Piece(b, i))]

LEMMA ReleaseAtIs ==
  ASSUME NEW a \in Seq(Nat), NEW b \in Seq(Nat)
  PROVE  /\ ReleaseAt(a, b) \in [Pos -> Int]
         /\ \A i \in Pos : ReleaseAt(a, b)[i] = CompareNumbers(Piece(a, i), Piece(b, i))
<1>1. \A i \in Pos : Piece(a, i) \in Int /\ Piece(b, i) \in Int
  <2>1. \A i \in Pos : Piece(a, i) \in Nat /\ Piece(b, i) \in Nat
    BY PieceIs
  <2> QED
    BY <2>1
<1>2. \A i \in Pos : CompareNumbers(Piece(a, i), Piece(b, i)) \in Int
  BY <1>1, CompareNumbersIs
<1> QED
  BY <1>2 DEF ReleaseAt

LEMMA ReleaseLeads ==
  ASSUME NEW a \in Seq(Nat), NEW b \in Seq(Nat)
  PROVE  CompareRelease(a, b) \in Int /\ Leads(ReleaseAt(a, b), CompareRelease(a, b))
<1> DEFINE x == Trimmed(a)
           y == Trimmed(b)
           m == Shorter(x, y)
           r == [i \in 1..m |-> CompareNumbers(x[i], y[i])]
           c == CompareNumbers(Len(x), Len(y))
           s == r \o <<c>>
           value == Leading(s)
           f == ReleaseAt(a, b)
<1>0. x \in Seq(Nat) /\ y \in Seq(Nat)
  BY TrimmedIs
<1>4. CompareRelease(a, b) = value
  BY DEF CompareRelease
<1>9. \A i \in Pos : /\ (i <= Len(x) => x[i] = Piece(a, i)) /\ (i > Len(x) => Piece(a, i) = 0) /\ (i = Len(x) => Piece(a, i) # 0)
                     /\ (i <= Len(y) => y[i] = Piece(b, i)) /\ (i > Len(y) => Piece(b, i) = 0) /\ (i = Len(y) => Piece(b, i) # 0)
                     /\ Piece(a, i) \in Nat /\ Piece(b, i) \in Nat
  BY PieceIs
<1>10. \A i \in Pos : f[i] = CompareNumbers(Piece(a, i), Piece(b, i))
  BY ReleaseAtIs
<1> HIDE DEF x, y, f
<1>1. /\ m \in Nat /\ Len(x) \in Nat /\ Len(y) \in Nat /\ m <= Len(x) /\ m <= Len(y) /\ (m = Len(x) \/ m = Len(y))
      /\ c \in Int /\ (c = 0 <=> Len(x) = Len(y)) /\ (Len(x) < Len(y) => c = -1) /\ (Len(x) > Len(y) => c = 1)
  BY <1>0 DEF Shorter, CompareNumbers
<1> HIDE DEF m, c
<1>11. \A i \in 1..m : i \in Pos /\ i <= m /\ i <= Len(x) /\ i <= Len(y) /\ CompareNumbers(x[i], y[i]) = f[i] /\ f[i] \in Int
  <2> SUFFICES ASSUME NEW i \in 1..m
               PROVE  i \in Pos /\ i <= m /\ i <= Len(x) /\ i <= Len(y) /\ CompareNumbers(x[i], y[i]) = f[i] /\ f[i] \in Int
    OBVIOUS
  <2>1. i \in Pos /\ i <= m /\ i <= Len(x) /\ i <= Len(y)
    BY <1>1 DEF Pos
  <2>2. f[i] = CompareNumbers(Piece(a, i), Piece(b, i)) /\ x[i] = Piece(a, i) /\ y[i] = Piece(b, i)
        /\ Piece(a, i) \in Int /\ Piece(b, i) \in Int
    BY <1>9, <1>10, <2>1
  <2>3. f[i] \in Int
    BY <2>2, CompareNumbersIs
  <2> QED
    BY <2>1, <2>2, <2>3
<1>2. r \in [1..m -> Int]
  BY <1>11
<1>3. /\ s \in Seq(Int) /\ Len(s) = m + 1 /\ (\A i \in 1..m : s[i] = f[i]) /\ s[m + 1] = c
  <2>1. \A i \in 1..m : r[i] = f[i]
    BY <1>11
  <2> HIDE DEF r
  <2> QED
    BY <1>1, <1>2, <2>1, Extended
<1> HIDE DEF s
<1>5. value \in Int /\ Leads(Padded(s), value)
  BY <1>3, LeadingLeads
<1>6. \A i \in Pos : /\ i <= m => Padded(s)[i] = f[i]
                     /\ i = m + 1 => Padded(s)[i] = c
                     /\ i > m + 1 => Padded(s)[i] = 0
  <2> SUFFICES ASSUME NEW i \in Pos
               PROVE  /\ i <= m => Padded(s)[i] = f[i]
                      /\ i = m + 1 => Padded(s)[i] = c
                      /\ i > m + 1 => Padded(s)[i] = 0
    OBVIOUS
  <2>1. Padded(s)[i] = IF i <= m + 1 THEN s[i] ELSE 0
    BY <1>3 DEF Padded
  <2>2. i \in Nat /\ i > 0 /\ (i <= m => i \in 1..m)
    BY <1>1 DEF Pos
  <2>3. i <= m => s[i] = f[i]
    BY <1>3, <2>2
  <2> QED
    BY <1>1, <1>3, <2>1, <2>2, <2>3
<1> HIDE DEF value
<1>12. ASSUME \A i \in 1..m : f[i] = 0
       PROVE  Leads(f, c)
  <2>1. CASE Len(x) = Len(y)
    <3>1. c = 0 /\ Len(x) = m /\ Len(y) = m
      BY <1>1, <2>1
    <3>2. ASSUME NEW i \in Pos PROVE f[i] = 0
      <4>1. CASE i <= m
        <5>1. i \in 1..m
          BY <1>1, <4>1 DEF Pos
        <5> QED
          BY <1>12, <5>1
      <4>2. CASE ~(i <= m)
        <5>1. Piece(a, i) = 0 /\ Piece(b, i) = 0
          BY <1>1, <1>9, <3>1, <4>2 DEF Pos
        <5> QED
          BY <1>10, <5>1 DEF CompareNumbers
      <4> QED
        BY <4>1, <4>2
    <3> QED
      BY <3>1, <3>2 DEF Leads
  <2>2. CASE Len(x) < Len(y)
    <3> DEFINE A == {i \in Pos : f[i] # 0}
    <3>1. Len(y) \in Pos /\ Len(y) > Len(x) /\ c = -1 /\ m = Len(x)
      BY <1>1, <2>2 DEF Pos
    <3>2. Piece(a, Len(y)) = 0 /\ Piece(b, Len(y)) # 0 /\ Piece(b, Len(y)) \in Nat
      BY <1>9, <3>1
    <3>3. Len(y) \in A
      BY <1>10, <3>1, <3>2 DEF CompareNumbers
    <3>4. PICK k \in A : \A j \in A : k <= j
      <4>1. A \in SUBSET Nat /\ A # {}
        BY <3>3 DEF Pos
      <4> HIDE DEF A
      <4> QED
        BY <4>1, LeastOf
    <3>5. k \in Pos /\ f[k] # 0
      BY <3>4
    <3>6. ~(k <= m)
      <4>1. k <= m => k \in 1..m
        BY <1>1, <3>5 DEF Pos
      <4> QED
        BY <1>12, <3>5, <4>1
    <3>7. f[k] = -1
      <4>1. Piece(a, k) = 0 /\ Piece(b, k) \in Nat
        BY <1>1, <1>9, <3>1, <3>5, <3>6 DEF Pos
      <4> QED
        BY <1>10, <3>5, <4>1 DEF CompareNumbers
    <3>8. \A j \in 1..(k - 1) : f[j] = 0
      <4> SUFFICES ASSUME NEW j \in 1..(k - 1), f[j] # 0 PROVE FALSE
        OBVIOUS
      <4>1. j \in Pos /\ ~(k <= j)
        BY <3>5 DEF Pos
      <4>2. j \in A
        BY <4>1
      <4> QED
        BY <3>4, <4>1, <4>2
    <3> QED
      BY <3>1, <3>5, <3>7, <3>8 DEF Leads
  <2>3. CASE Len(x) > Len(y)
    <3> DEFINE A == {i \in Pos : f[i] # 0}
    <3>1. Len(x) \in Pos /\ Len(x) > Len(y) /\ c = 1 /\ m = Len(y)
      BY <1>1, <2>3 DEF Pos
    <3>2. Piece(b, Len(x)) = 0 /\ Piece(a, Len(x)) # 0 /\ Piece(a, Len(x)) \in Nat
      BY <1>9, <3>1
    <3>3. Len(x) \in A
      BY <1>10, <3>1, <3>2 DEF CompareNumbers
    <3>4. PICK k \in A : \A j \in A : k <= j
      <4>1. A \in SUBSET Nat /\ A # {}
        BY <3>3 DEF Pos
      <4> HIDE DEF A
      <4> QED
        BY <4>1, LeastOf
    <3>5. k \in Pos /\ f[k] # 0
      BY <3>4
    <3>6. ~(k <= m)
      <4>1. k <= m => k \in 1..m
        BY <1>1, <3>5 DEF Pos
      <4> QED
        BY <1>12, <3>5, <4>1
    <3>7. f[k] = 1
      <4>1. Piece(b, k) = 0 /\ Piece(a, k) \in Nat
        BY <1>1, <1>9, <3>1, <3>5, <3>6 DEF Pos
      <4> QED
        BY <1>10, <3>5, <4>1 DEF CompareNumbers
    <3>8. \A j \in 1..(k - 1) : f[j] = 0
      <4> SUFFICES ASSUME NEW j \in 1..(k - 1), f[j] # 0 PROVE FALSE
        OBVIOUS
      <4>1. j \in Pos /\ ~(k <= j)
        BY <3>5 DEF Pos
      <4>2. j \in A
        BY <4>1
      <4> QED
        BY <3>4, <4>1, <4>2
    <3> QED
      BY <3>1, <3>5, <3>7, <3>8 DEF Leads
  <2> QED
    BY <1>1, <2>1, <2>2, <2>3
<1>7. CASE \A i \in 1..m : f[i] = 0
  <2>1. m + 1 \in Pos /\ \A j \in 1..((m + 1) - 1) : j \in Pos /\ j \in 1..m /\ j <= m
    BY <1>1 DEF Pos
  <2>2. Padded(s)[m + 1] = c /\ \A j \in 1..((m + 1) - 1) : Padded(s)[j] = 0
    BY <1>1, <1>6, <1>7, <2>1
  <2>3. c # 0 => value = c
    <3>1. Padded(s) \in [Pos -> Int]
      BY <1>3, PaddedInt
    <3> QED
      BY <1>5, <2>1, <2>2, <3>1, LeadsAt
  <2>4. c = 0 => value = 0
    <3> SUFFICES ASSUME c = 0 PROVE \A i \in Pos : Padded(s)[i] = 0
      BY <1>5, LeadsNone
    <3> SUFFICES ASSUME NEW i \in Pos PROVE Padded(s)[i] = 0
      OBVIOUS
    <3>1. i <= m => i \in 1..((m + 1) - 1)
      BY <1>1 DEF Pos
    <3>2. i <= m \/ i = m + 1 \/ i > m + 1
      BY <1>1 DEF Pos
    <3> QED
      BY <1>6, <2>2, <3>1, <3>2
  <2>5. value = c
    BY <2>3, <2>4
  <2> QED
    BY <1>4, <1>5, <1>7, <1>12, <2>5 DEF f
<1>8. CASE ~\A i \in 1..m : f[i] = 0
  <2>1. PICK q \in 1..m : f[q] # 0
    BY <1>8
  <2>2. q \in Pos /\ Padded(s)[q] # 0 /\ q <= m
    BY <1>6, <1>11, <2>1
  <2>3. value # 0
    BY <2>2 , <1>5 DEF Leads
  <2>4. PICK k \in Pos : Padded(s)[k] = value /\ \A j \in 1..(k - 1) : Padded(s)[j] = 0
    BY <1>5, <2>3 DEF Leads
  <2>5. k <= m
    <3>1. ~(k <= q) => q \in 1..(k - 1)
      BY <2>2, <2>4 DEF Pos
    <3> QED
      BY <1>1, <2>2, <2>4, <3>1 DEF Pos
  <2>6. \A j \in 1..(k - 1) : j \in Pos /\ j <= m
    BY <1>1, <2>5 DEF Pos
  <2>7. f[k] = value /\ \A j \in 1..(k - 1) : f[j] = 0
    BY <1>6, <2>4, <2>5, <2>6
  <2> QED
    BY <1>4, <1>5, <2>3, <2>4, <2>7 DEF Leads, f
<1> QED
  BY <1>7, <1>8

LEMMA ReleaseCoherent ==
  ASSUME NEW a \in Seq(Nat), NEW b \in Seq(Nat), NEW c \in Seq(Nat)
  PROVE  /\ Coherent(CompareRelease(a, b), CompareRelease(b, c), CompareRelease(a, c))
         /\ Opposed(CompareRelease(a, b), CompareRelease(b, a))
<1>1. ASSUME NEW i \in Pos
      PROVE  /\ Coherent(ReleaseAt(a, b)[i], ReleaseAt(b, c)[i], ReleaseAt(a, c)[i])
             /\ Opposed(ReleaseAt(a, b)[i], ReleaseAt(b, a)[i])
  <2>1. Piece(a, i) \in Nat /\ Piece(b, i) \in Nat /\ Piece(c, i) \in Nat
    BY PieceIs
  <2>2. Piece(a, i) \in Int /\ Piece(b, i) \in Int /\ Piece(c, i) \in Int
    BY <2>1
  <2>3. /\ ReleaseAt(a, b)[i] = CompareNumbers(Piece(a, i), Piece(b, i))
        /\ ReleaseAt(b, c)[i] = CompareNumbers(Piece(b, i), Piece(c, i))
        /\ ReleaseAt(a, c)[i] = CompareNumbers(Piece(a, i), Piece(c, i))
        /\ ReleaseAt(b, a)[i] = CompareNumbers(Piece(b, i), Piece(a, i))
    BY ReleaseAtIs
  <2> QED
    BY <2>2, <2>3, NumbersCoherent
<1>2. /\ ReleaseAt(a, b) \in [Pos -> Int] /\ ReleaseAt(b, c) \in [Pos -> Int]
      /\ ReleaseAt(a, c) \in [Pos -> Int] /\ ReleaseAt(b, a) \in [Pos -> Int]
  BY ReleaseAtIs
<1>3. /\ CompareRelease(a, b) \in Int /\ Leads(ReleaseAt(a, b), CompareRelease(a, b))
      /\ CompareRelease(b, c) \in Int /\ Leads(ReleaseAt(b, c), CompareRelease(b, c))
      /\ CompareRelease(a, c) \in Int /\ Leads(ReleaseAt(a, c), CompareRelease(a, c))
      /\ CompareRelease(b, a) \in Int /\ Leads(ReleaseAt(b, a), CompareRelease(b, a))
  BY ReleaseLeads
<1>4. Coherent(CompareRelease(a, b), CompareRelease(b, c), CompareRelease(a, c))
  BY <1>1, <1>2, <1>3, LexCoherent
<1>5. Opposed(CompareRelease(a, b), CompareRelease(b, a))
  BY <1>1, <1>2, <1>3, LexOpposed
<1> QED
  BY <1>4, <1>5

-----------------------------------------------------------------------------
(* PyPI: the seven things compared.                                         *)

LEMMA OptionalIs ==
  ASSUME NEW x \in Nat \cup {NotSet}, NEW y \in Nat \cup {NotSet}, NEW first \in BOOLEAN
  PROVE  /\ x = NotSet /\ y = NotSet => CompareOptional(x, y, first) = 0
         /\ x # NotSet /\ y # NotSet => CompareOptional(x, y, first) = CompareNumbers(x, y)
         /\ x = NotSet /\ y # NotSet => CompareOptional(x, y, first) = (IF first THEN 1 ELSE -1)
         /\ x # NotSet /\ y = NotSet => CompareOptional(x, y, first) = (IF first THEN -1 ELSE 1)
<1>1. CompareOptional(x, y, first) = IF (x = NotSet) = (y = NotSet) THEN CompareNumbers(x, y)
                                     ELSE IF (x = NotSet) = first THEN 1 ELSE -1
  BY DEF CompareOptional
<1>2. CASE x = NotSet /\ y = NotSet
  <2>1. (x = NotSet) = (y = NotSet)
    BY <1>2, Zenon
  <2>2. CompareNumbers(x, y) = 0
    BY <1>2 DEF CompareNumbers, NotSet
  <2> QED
    BY <1>1, <1>2, <2>1, <2>2, Zenon
<1>3. CASE x # NotSet /\ y # NotSet
  <2>1. (x = NotSet) = (y = NotSet)
    BY <1>3, Zenon
  <2> QED
    BY <1>1, <1>3, <2>1, Zenon
<1>4. CASE x = NotSet /\ y # NotSet
  <2>1. ((x = NotSet) = (y = NotSet)) <=> FALSE
    BY <1>4, Zenon
  <2>2. ((x = NotSet) = first) <=> first
    BY <1>4, Zenon
  <2> QED
    BY <1>1, <1>4, <2>1, <2>2, Zenon
<1>5. CASE x # NotSet /\ y = NotSet
  <2>1. ((x = NotSet) = (y = NotSet)) <=> FALSE
    BY <1>5, Zenon
  <2>2. ((x = NotSet) = first) <=> ~first
    BY <1>5, Zenon
  <2> QED
    BY <1>1, <1>5, <2>1, <2>2, Zenon
<1> QED
  BY <1>2, <1>3, <1>4, <1>5, Zenon

LEMMA OptionalCoherent ==
  ASSUME NEW x \in Nat \cup {NotSet}, NEW y \in Nat \cup {NotSet}, NEW z \in Nat \cup {NotSet}, NEW first \in BOOLEAN
  PROVE  /\ CompareOptional(x, y, first) \in Int
         /\ Coherent(CompareOptional(x, y, first), CompareOptional(y, z, first), CompareOptional(x, z, first))
         /\ Opposed(CompareOptional(x, y, first), CompareOptional(y, x, first))
         /\ CompareOptional(x, x, first) = 0
<1> DEFINE xy == CompareOptional(x, y, first)
           yz == CompareOptional(y, z, first)
           xz == CompareOptional(x, z, first)
           yx == CompareOptional(y, x, first)
           xx == CompareOptional(x, x, first)
           up == IF first THEN 1 ELSE -1
           down == IF first THEN -1 ELSE 1
<1>1. /\ x = NotSet /\ y = NotSet => xy = 0 /\ yx = 0
      /\ x # NotSet /\ y # NotSet => xy = CompareNumbers(x, y) /\ yx = CompareNumbers(y, x)
      /\ x = NotSet /\ y # NotSet => xy = up /\ yx = down
      /\ x # NotSet /\ y = NotSet => xy = down /\ yx = up
  BY OptionalIs
<1>2. /\ y = NotSet /\ z = NotSet => yz = 0
      /\ y # NotSet /\ z # NotSet => yz = CompareNumbers(y, z)
      /\ y = NotSet /\ z # NotSet => yz = up
      /\ y # NotSet /\ z = NotSet => yz = down
  BY OptionalIs
<1>3. /\ x = NotSet /\ z = NotSet => xz = 0
      /\ x # NotSet /\ z # NotSet => xz = CompareNumbers(x, z)
      /\ x = NotSet /\ z # NotSet => xz = up
      /\ x # NotSet /\ z = NotSet => xz = down
  BY OptionalIs
<1>4. (x = NotSet => xx = 0) /\ (x # NotSet => xx = CompareNumbers(x, x))
  BY OptionalIs
<1>5. up \in {1, -1} /\ down \in {1, -1} /\ up + down = 0
  OBVIOUS
<1>6. x \in Int /\ y \in Int /\ z \in Int
  BY DEF NotSet
<1> HIDE DEF xy, yz, xz, yx, xx, up, down
<1>7. xy \in Int /\ xx = 0
  BY <1>1, <1>4, <1>5, <1>6 DEF CompareNumbers
<1>8. Coherent(xy, yz, xz)
  BY <1>1, <1>2, <1>3, <1>5, <1>6 DEF CompareNumbers, Coherent
<1>9. Opposed(xy, yx)
  BY <1>1, <1>5, <1>6 DEF CompareNumbers, Opposed
<1> QED
  BY <1>7, <1>8, <1>9 DEF xy, yz, xz, yx, xx

LEMMA PEPParts ==
  ASSUME NEW a \in PEPVersions
  PROVE  /\ a.epoch \in Nat /\ a.epoch \in Int /\ a.release \in Seq(Nat) /\ a.num \in Nat /\ a.num \in Int
         /\ a.release # <<>> /\ Len(a.release) \in Nat /\ Len(a.release) > 0
         /\ a.post \in Nat \cup {NotSet} /\ a.dev \in Nat \cup {NotSet} /\ a.local \in Seq(Segments)
         /\ a.kind \in {"", "a", "b", "rc"}
         /\ PreRank(a) \in Int
<1>1. /\ a.epoch \in Nat /\ a.release \in Seq(Nat) /\ a.num \in Nat /\ a.release # <<>>
      /\ a.post \in Nat \cup {NotSet} /\ a.dev \in Nat \cup {NotSet} /\ a.local \in Seq(Segments)
      /\ a.kind \in {"", "a", "b", "rc"}
  BY DEF PEPVersions
<1>2. PreRank(a) \in {-1, 0, 1, 2, 3}
  <2>1. CASE a.kind = "a"
    BY <2>1 DEF PreRank
  <2>2. CASE a.kind = "b"
    BY <2>2 DEF PreRank
  <2>3. CASE a.kind = "rc"
    BY <2>3 DEF PreRank
  <2>4. CASE a.kind = ""
    BY <2>4 DEF PreRank
  <2> QED
    BY <1>1, <2>1, <2>2, <2>3, <2>4
<1>3. Len(a.release) \in Nat /\ Len(a.release) > 0
  <2> DEFINE release == a.release
  <2>1. release \in Seq(Nat) /\ release # <<>>
    BY <1>1
  <2> HIDE DEF release
  <2>2. Len(release) \in Nat /\ Len(release) > 0
    BY <2>1
  <2> QED
    BY <2>2 DEF release
<1>4. a.epoch \in Int /\ a.num \in Int /\ PreRank(a) \in Int
  <2>1. a.epoch \in Nat /\ a.num \in Nat
    BY <1>1
  <2>2. PreRank(a) \in Int
    BY <1>2
  <2> QED
    BY <2>1, <2>2
<1> QED
  BY <1>1, <1>3, <1>4

Told(a, b) ==
  <<CompareNumbers(a.epoch, b.epoch), CompareRelease(a.release, b.release), CompareNumbers(PreRank(a), PreRank(b)),
    CompareNumbers(a.num, b.num), CompareOptional(a.post, b.post, FALSE), CompareOptional(a.dev, b.dev, TRUE),
    CompareSegments(a.local, b.local, FALSE)>>

LEMMA ToldIs ==
  ASSUME NEW a \in PEPVersions, NEW b \in PEPVersions
  PROVE  /\ Told(a, b) \in Seq(Int) /\ Len(Told(a, b)) = 7 /\ \A i \in 1..7 : Told(a, b)[i] \in Int
         /\ Told(a, b)[1] = CompareNumbers(a.epoch, b.epoch)
         /\ Told(a, b)[2] = CompareRelease(a.release, b.release)
         /\ Told(a, b)[3] = CompareNumbers(PreRank(a), PreRank(b))
         /\ Told(a, b)[4] = CompareNumbers(a.num, b.num)
         /\ Told(a, b)[5] = CompareOptional(a.post, b.post, FALSE)
         /\ Told(a, b)[6] = CompareOptional(a.dev, b.dev, TRUE)
         /\ Told(a, b)[7] = CompareSegments(a.local, b.local, FALSE)
<1> DEFINE e1 == CompareNumbers(a.epoch, b.epoch)
           e2 == CompareRelease(a.release, b.release)
           e3 == CompareNumbers(PreRank(a), PreRank(b))
           e4 == CompareNumbers(a.num, b.num)
           e5 == CompareOptional(a.post, b.post, FALSE)
           e6 == CompareOptional(a.dev, b.dev, TRUE)
           e7 == CompareSegments(a.local, b.local, FALSE)
<1>1. e1 \in Int /\ e3 \in Int /\ e4 \in Int
  <2>1. /\ a.epoch \in Int /\ b.epoch \in Int /\ PreRank(a) \in Int /\ PreRank(b) \in Int
        /\ a.num \in Int /\ b.num \in Int
    BY PEPParts
  <2>2. \A m, n \in Int : CompareNumbers(m, n) \in Int
    BY CompareNumbersIs
  <2> QED
    BY <2>1, <2>2
<1>2. e2 \in Int
  BY PEPParts, ReleaseLeads
<1>3. e5 \in Int /\ e6 \in Int
  BY PEPParts, OptionalCoherent
<1>4. e7 \in Int
  BY PEPParts, SegmentsLead
<1>5. Told(a, b) = <<e1, e2, e3, e4, e5, e6, e7>>
  BY DEF Told
<1> HIDE DEF e1, e2, e3, e4, e5, e6, e7
<1>6. /\ <<e1, e2, e3, e4, e5, e6, e7>> \in Seq(Int) /\ Len(<<e1, e2, e3, e4, e5, e6, e7>>) = 7
      /\ <<e1, e2, e3, e4, e5, e6, e7>>[1] = e1 /\ <<e1, e2, e3, e4, e5, e6, e7>>[2] = e2
      /\ <<e1, e2, e3, e4, e5, e6, e7>>[3] = e3 /\ <<e1, e2, e3, e4, e5, e6, e7>>[4] = e4
      /\ <<e1, e2, e3, e4, e5, e6, e7>>[5] = e5 /\ <<e1, e2, e3, e4, e5, e6, e7>>[6] = e6
      /\ <<e1, e2, e3, e4, e5, e6, e7>>[7] = e7
  BY <1>1, <1>2, <1>3, <1>4
<1> DEFINE told == Told(a, b)
<1>7. told \in Seq(Int) /\ Len(told) = 7
  BY <1>5, <1>6
<1>8. told[1] = e1 /\ told[2] = e2 /\ told[3] = e3 /\ told[4] = e4 /\ told[5] = e5 /\ told[6] = e6 /\ told[7] = e7
  BY <1>5, <1>6
<1> HIDE DEF told
<1>9. \A i \in 1..7 : told[i] \in Int
  <2>1. \A i \in 1..Len(told) : told[i] \in Int
    BY <1>7, ElementOfSeq
  <2> QED
    BY <1>7, <2>1
<1>10. /\ Told(a, b) \in Seq(Int) /\ Len(Told(a, b)) = 7 /\ \A i \in 1..7 : Told(a, b)[i] \in Int
  BY <1>7, <1>9 DEF told
<1> QED
  BY <1>8, <1>10, Zenon DEF told, e1, e2, e3, e4, e5, e6, e7

LEMMA PEPLeads ==
  ASSUME NEW a \in PEPVersions, NEW b \in PEPVersions
  PROVE  /\ ComparePEP440(a, b) \in Int /\ Leads(Padded(Told(a, b)), ComparePEP440(a, b))
         /\ Padded(Told(a, b)) \in [Pos -> Int]
         /\ \A i \in Pos : i <= 7 => i \in 1..7 /\ Padded(Told(a, b))[i] = Told(a, b)[i]
         /\ \A i \in Pos : i > 7 => Padded(Told(a, b))[i] = 0
<1>1. ComparePEP440(a, b) = Leading(Told(a, b))
  BY DEF ComparePEP440, Told
<1>2. Told(a, b) \in Seq(Int) /\ Len(Told(a, b)) = 7
  BY ToldIs
<1>3. \A i \in Pos : i <= 7 => i \in 1..7 /\ Padded(Told(a, b))[i] = Told(a, b)[i]
  BY <1>2 DEF Padded, Pos
<1>4. \A i \in Pos : i > 7 => Padded(Told(a, b))[i] = 0
  BY <1>2 DEF Padded, Pos
<1> QED
  BY <1>1, <1>2, <1>3, <1>4, LeadingLeads, PaddedInt

LEMMA ToldCoherent ==
  ASSUME NEW a \in PEPVersions, NEW b \in PEPVersions, NEW c \in PEPVersions, NEW i \in 1..7
  PROVE  /\ Coherent(Told(a, b)[i], Told(b, c)[i], Told(a, c)[i])
         /\ Opposed(Told(a, b)[i], Told(b, a)[i])
<1>1. CASE i = 1
  <2>1. /\ Coherent(CompareNumbers(a.epoch, b.epoch), CompareNumbers(b.epoch, c.epoch), CompareNumbers(a.epoch, c.epoch))
        /\ Opposed(CompareNumbers(a.epoch, b.epoch), CompareNumbers(b.epoch, a.epoch))
    BY PEPParts, NumbersCoherent
  <2> QED
    BY <1>1, <2>1, ToldIs
<1>2. CASE i = 2
  <2>1. /\ Coherent(CompareRelease(a.release, b.release), CompareRelease(b.release, c.release), CompareRelease(a.release, c.release))
        /\ Opposed(CompareRelease(a.release, b.release), CompareRelease(b.release, a.release))
    BY PEPParts, ReleaseCoherent
  <2> QED
    BY <1>2, <2>1, ToldIs
<1>3. CASE i = 3
  <2>1. /\ Coherent(CompareNumbers(PreRank(a), PreRank(b)), CompareNumbers(PreRank(b), PreRank(c)), CompareNumbers(PreRank(a), PreRank(c)))
        /\ Opposed(CompareNumbers(PreRank(a), PreRank(b)), CompareNumbers(PreRank(b), PreRank(a)))
    BY PEPParts, NumbersCoherent
  <2> QED
    BY <1>3, <2>1, ToldIs
<1>4. CASE i = 4
  <2>1. /\ Coherent(CompareNumbers(a.num, b.num), CompareNumbers(b.num, c.num), CompareNumbers(a.num, c.num))
        /\ Opposed(CompareNumbers(a.num, b.num), CompareNumbers(b.num, a.num))
    BY PEPParts, NumbersCoherent
  <2> QED
    BY <1>4, <2>1, ToldIs
<1>5. CASE i = 5
  <2>1. /\ Coherent(CompareOptional(a.post, b.post, FALSE), CompareOptional(b.post, c.post, FALSE), CompareOptional(a.post, c.post, FALSE))
        /\ Opposed(CompareOptional(a.post, b.post, FALSE), CompareOptional(b.post, a.post, FALSE))
    BY PEPParts, OptionalCoherent
  <2> QED
    BY <1>5, <2>1, ToldIs
<1>6. CASE i = 6
  <2>1. /\ Coherent(CompareOptional(a.dev, b.dev, TRUE), CompareOptional(b.dev, c.dev, TRUE), CompareOptional(a.dev, c.dev, TRUE))
        /\ Opposed(CompareOptional(a.dev, b.dev, TRUE), CompareOptional(b.dev, a.dev, TRUE))
    BY PEPParts, OptionalCoherent
  <2> QED
    BY <1>6, <2>1, ToldIs
<1>7. CASE i = 7
  <2>1. /\ Coherent(CompareSegments(a.local, b.local, FALSE), CompareSegments(b.local, c.local, FALSE), CompareSegments(a.local, c.local, FALSE))
        /\ Opposed(CompareSegments(a.local, b.local, FALSE), CompareSegments(b.local, a.local, FALSE))
    BY PEPParts, SegmentsCoherent
  <2> QED
    BY <1>7, <2>1, ToldIs
<1> QED
  BY <1>1, <1>2, <1>3, <1>4, <1>5, <1>6, <1>7

LEMMA PEPCoherent ==
  ASSUME NEW a \in PEPVersions, NEW b \in PEPVersions, NEW c \in PEPVersions
  PROVE  /\ Coherent(ComparePEP440(a, b), ComparePEP440(b, c), ComparePEP440(a, c))
         /\ Opposed(ComparePEP440(a, b), ComparePEP440(b, a))
<1>1. ASSUME NEW i \in Pos
      PROVE  /\ Coherent(Padded(Told(a, b))[i], Padded(Told(b, c))[i], Padded(Told(a, c))[i])
             /\ Opposed(Padded(Told(a, b))[i], Padded(Told(b, a))[i])
  <2>1. CASE i <= 7
    <3>1. /\ i \in 1..7
          /\ Padded(Told(a, b))[i] = Told(a, b)[i] /\ Padded(Told(b, c))[i] = Told(b, c)[i]
          /\ Padded(Told(a, c))[i] = Told(a, c)[i] /\ Padded(Told(b, a))[i] = Told(b, a)[i]
      BY <2>1, PEPLeads
    <3> QED
      BY <3>1, ToldCoherent
  <2>2. CASE ~(i <= 7)
    <3>1. i > 7
      BY <2>2 DEF Pos
    <3>2. /\ Padded(Told(a, b))[i] = 0 /\ Padded(Told(b, c))[i] = 0
          /\ Padded(Told(a, c))[i] = 0 /\ Padded(Told(b, a))[i] = 0
      BY <3>1, PEPLeads
    <3> QED
      BY <3>2 DEF Coherent, Opposed
  <2> QED
    BY <2>1, <2>2
<1>2. /\ Padded(Told(a, b)) \in [Pos -> Int] /\ Padded(Told(b, c)) \in [Pos -> Int]
      /\ Padded(Told(a, c)) \in [Pos -> Int] /\ Padded(Told(b, a)) \in [Pos -> Int]
  BY PEPLeads
<1>3. /\ ComparePEP440(a, b) \in Int /\ Leads(Padded(Told(a, b)), ComparePEP440(a, b))
      /\ ComparePEP440(b, c) \in Int /\ Leads(Padded(Told(b, c)), ComparePEP440(b, c))
      /\ ComparePEP440(a, c) \in Int /\ Leads(Padded(Told(a, c)), ComparePEP440(a, c))
      /\ ComparePEP440(b, a) \in Int /\ Leads(Padded(Told(b, a)), ComparePEP440(b, a))
  BY PEPLeads
<1>4. Coherent(ComparePEP440(a, b), ComparePEP440(b, c), ComparePEP440(a, c))
  BY <1>1, <1>2, <1>3, LexCoherent
<1>5. Opposed(ComparePEP440(a, b), ComparePEP440(b, a))
  BY <1>1, <1>2, <1>3, LexOpposed
<1> QED
  BY <1>4, <1>5

-----------------------------------------------------------------------------
(* Ranges of npm and Cargo: what the bounds of a term admit is what the     *)
(* term means, wherever the version is no prerelease of a bound.            *)

Held(C, v) == \A c \in C : Meets(c.op, CompareSemver(v, c.ver))
Clear(C, p, v) == v.pre = <<>> \/ v.num = p.num \/ \A c \in C : c.ver.num # v.num

LEMMA TripleIs ==
  ASSUME NEW x \in Nat, NEW y \in Nat, NEW z \in Nat
  PROVE  /\ Triple(x, y, z) \in SemverVersions
         /\ Triple(x, y, z).num[1] = x /\ Triple(x, y, z).num[2] = y /\ Triple(x, y, z).num[3] = z
         /\ Triple(x, y, z).pre = <<>>
<1>1. <<x, y, z>> \in [1..3 -> Nat] /\ <<x, y, z>>[1] = x /\ <<x, y, z>>[2] = y /\ <<x, y, z>>[3] = z
  OBVIOUS
<1>2. <<>> \in Seq(Segments)
  OBVIOUS
<1> QED
  BY <1>1, <1>2 DEF Triple, SemverVersions

LEMMA ZeroIs ==
  LET b == Triple(0, 0, 0) IN b \in SemverVersions /\ b.pre = <<>> /\ b.num[1] = 0 /\ b.num[2] = 0 /\ b.num[3] = 0
<1>1. 0 \in Nat
  OBVIOUS
<1> QED
  BY ONLY <1>1, TripleIs

LEMMA PartialIs ==
  ASSUME NEW p \in Partials
  PROVE  /\ p.num \in [1..3 -> Int] /\ p.pre \in Seq(Segments) /\ p.explicit \in BOOLEAN
         /\ \A i \in 1..3 : p.num[i] # Wild => p.num[i] \in Nat
         /\ p.num[1] = Wild => p.num[2] = Wild /\ p.num[3] = Wild
         /\ p.num[2] = Wild => p.num[3] = Wild
         /\ p.num[3] = Wild => p.pre = <<>>
<1>1. /\ p.num \in [1..3 -> Nat \cup {Wild}] /\ p.pre \in Seq(Segments) /\ p.explicit \in BOOLEAN
      /\ \A i \in 1..2 : p.num[i] = Wild => p.num[i + 1] = Wild
      /\ p.num[3] = Wild => p.pre = <<>>
  BY DEF Partials
<1>2. \A i \in 1..3 : p.num[i] \in Nat \cup {Wild}
  BY <1>1
<1>3. p.num \in [1..3 -> Int]
  BY <1>1 DEF Wild
<1>4. (p.num[1] = Wild => p.num[2] = Wild) /\ (p.num[2] = Wild => p.num[3] = Wild)
  <2>1. 1 \in 1..2 /\ 2 \in 1..2 /\ 1 + 1 = 2 /\ 2 + 1 = 3
    OBVIOUS
  <2> QED
    BY <1>1, <2>1
<1> QED
  BY <1>1, <1>2, <1>3, <1>4

LEMMA CountTo == \A n \in Nat : Cardinality(1..n) = n
<1> SUFFICES ASSUME NEW n \in Nat PROVE Cardinality(1..n) = n
  OBVIOUS
<1>1. 1 \in Int /\ n \in Int
  OBVIOUS
<1>2. Cardinality(1..n) = IF 1 > n THEN 0 ELSE n - 1 + 1
  BY <1>1, FS_Interval
<1> QED
  BY <1>2

LEMMA PiecesAre ==
  ASSUME NEW p \in Partials
  PROVE  /\ p.num[1] = Wild => Cardinality(Pieces(p)) = 0
         /\ p.num[1] # Wild /\ p.num[2] = Wild => Cardinality(Pieces(p)) = 1
         /\ p.num[2] # Wild /\ p.num[3] = Wild => Cardinality(Pieces(p)) = 2
         /\ p.num[3] # Wild => Cardinality(Pieces(p)) = 3
<1>0. 1..3 = {1, 2, 3}
  OBVIOUS
<1>1. CASE p.num[1] = Wild
  <2>1. Pieces(p) = {}
    BY <1>0, <1>1, PartialIs DEF Pieces
  <2> QED
    BY <1>1, <2>1, PartialIs, FS_EmptySet
<1>2. CASE p.num[1] # Wild /\ p.num[2] = Wild
  <2>1. Pieces(p) = {1}
    BY <1>0, <1>2, PartialIs DEF Pieces
  <2> QED
    BY <1>2, <2>1, PartialIs, FS_Singleton
<1>3. CASE p.num[2] # Wild /\ p.num[3] = Wild
  <2>1. Pieces(p) = 1..2
    BY <1>0, <1>3, PartialIs DEF Pieces
  <2>2. Cardinality(1..2) = 2
    BY CountTo
  <2> QED
    BY <1>3, <2>1, <2>2, PartialIs
<1>4. CASE p.num[3] # Wild
  <2>1. Pieces(p) = 1..3
    BY <1>0, <1>4, PartialIs DEF Pieces
  <2>2. Cardinality(1..3) = 3
    BY CountTo
  <2> QED
    BY <1>4, <2>1, <2>2, PartialIs
<1> QED
  BY <1>1, <1>2, <1>3, <1>4

LEMMA FloorIs ==
  ASSUME NEW p \in Partials
  PROVE  /\ Floor(p) \in SemverVersions /\ Floor(p).pre = p.pre
         /\ \A i \in 1..3 : Floor(p).num[i] = IF p.num[i] = Wild THEN 0 ELSE p.num[i]
         /\ p.num[3] # Wild => Floor(p).num = p.num
<1>1. \A i \in 1..3 : (IF p.num[i] = Wild THEN 0 ELSE p.num[i]) \in Nat
  BY PartialIs
<1>2. Floor(p).num = [i \in 1..3 |-> IF p.num[i] = Wild THEN 0 ELSE p.num[i]] /\ Floor(p).pre = p.pre
  BY DEF Floor
<1>3. ASSUME p.num[3] # Wild
      PROVE  Floor(p).num = p.num
  <2>1. \A i \in 1..3 : p.num[i] # Wild
    <3>1. \A i \in 1..3 : i = 1 \/ i = 2 \/ i = 3
      OBVIOUS
    <3> QED
      BY <1>3, <3>1, PartialIs
  <2>2. p.num = [i \in 1..3 |-> p.num[i]]
    BY PartialIs
  <2> QED
    BY <1>2, <2>1, <2>2
<1>4. Floor(p) \in SemverVersions
  BY <1>1, PartialIs DEF Floor, SemverVersions
<1> QED
  BY <1>2, <1>3, <1>4

LEMMA AboveIs ==
  ASSUME NEW p \in Partials, NEW k \in 1..3, p.num[k] # Wild
  PROVE  /\ Above(p, k) \in SemverVersions /\ Above(p, k).pre = <<>>
         /\ k = 1 => Above(p, k).num[1] = p.num[1] + 1 /\ Above(p, k).num[2] = 0 /\ Above(p, k).num[3] = 0
         /\ k = 2 => Above(p, k).num[1] = p.num[1] /\ Above(p, k).num[2] = p.num[2] + 1 /\ Above(p, k).num[3] = 0
         /\ k = 3 => Above(p, k).num[1] = p.num[1] /\ Above(p, k).num[2] = p.num[2] /\ Above(p, k).num[3] = p.num[3] + 1
         /\ p.num[1] \in Nat /\ (k >= 2 => p.num[2] \in Nat) /\ (k = 3 => p.num[3] \in Nat)
<1>1. k = 1 \/ k = 2 \/ k = 3
  OBVIOUS
<1>2. p.num[1] \in Nat /\ (k >= 2 => p.num[2] \in Nat) /\ (k = 3 => p.num[3] \in Nat)
  BY <1>1, PartialIs
<1>3. \E x, y, z \in Nat : /\ Above(p, k) = Triple(x, y, z)
                           /\ k = 1 => x = p.num[1] + 1 /\ y = 0 /\ z = 0
                           /\ k = 2 => x = p.num[1] /\ y = p.num[2] + 1 /\ z = 0
                           /\ k = 3 => x = p.num[1] /\ y = p.num[2] /\ z = p.num[3] + 1
  <2>1. CASE k = 1
    <3>1. Above(p, k) = Triple(p.num[1] + 1, 0, 0) /\ p.num[1] + 1 \in Nat /\ 0 \in Nat
      BY <1>2, <2>1 DEF Above
    <3> QED
      BY <2>1, <3>1
  <2>2. CASE k = 2
    <3>1. Above(p, k) = Triple(p.num[1], p.num[2] + 1, 0) /\ p.num[1] \in Nat /\ p.num[2] + 1 \in Nat /\ 0 \in Nat
      BY <1>2, <2>2 DEF Above
    <3> QED
      BY <2>2, <3>1
  <2>3. CASE k = 3
    <3>1. /\ Above(p, k) = Triple(p.num[1], p.num[2], p.num[3] + 1)
          /\ p.num[1] \in Nat /\ p.num[2] \in Nat /\ p.num[3] + 1 \in Nat
      BY <1>2, <2>3 DEF Above
    <3> QED
      BY <2>3, <3>1
  <2> QED
    BY <1>1, <2>1, <2>2, <2>3
<1>4. PICK x \in Nat, y \in Nat, z \in Nat :
        /\ Above(p, k) = Triple(x, y, z)
        /\ k = 1 => x = p.num[1] + 1 /\ y = 0 /\ z = 0
        /\ k = 2 => x = p.num[1] /\ y = p.num[2] + 1 /\ z = 0
        /\ k = 3 => x = p.num[1] /\ y = p.num[2] /\ z = p.num[3] + 1
  BY <1>3
<1>5. /\ Triple(x, y, z) \in SemverVersions /\ Triple(x, y, z).pre = <<>>
      /\ Triple(x, y, z).num[1] = x /\ Triple(x, y, z).num[2] = y /\ Triple(x, y, z).num[3] = z
  <2>1. x \in Nat /\ y \in Nat /\ z \in Nat
    BY <1>4
  <2>2. /\ Triple(x, y, z) \in SemverVersions
        /\ Triple(x, y, z).num[1] = x /\ Triple(x, y, z).num[2] = y /\ Triple(x, y, z).num[3] = z
        /\ Triple(x, y, z).pre = <<>>
    BY ONLY <2>1, TripleIs
  <2> QED
    BY ONLY <2>2
<1>6. /\ Above(p, k) \in SemverVersions /\ Above(p, k).pre = <<>>
      /\ Above(p, k).num[1] = x /\ Above(p, k).num[2] = y /\ Above(p, k).num[3] = z
  BY <1>4, <1>5
<1> QED
  BY <1>1, <1>2, <1>4, <1>6

LEMMA NumEqual ==
  ASSUME NEW a \in SemverVersions, NEW b \in SemverVersions
  PROVE  a.num = b.num <=> NumSame(a.num, b.num)
<1>1. a.num \in [1..3 -> Nat] /\ b.num \in [1..3 -> Nat]
  BY DEF SemverVersions
<1>2. \A i \in 1..3 : i = 1 \/ i = 2 \/ i = 3
  OBVIOUS
<1> QED
  BY <1>1, <1>2 DEF NumSame

LEMMA AgainstBound ==
  ASSUME NEW v \in SemverVersions, NEW b \in SemverVersions, b.pre = <<>>, v.pre = <<>> \/ v.num # b.num
  PROVE  /\ Meets("<", CompareSemver(v, b)) <=> NumBelow(v.num, b.num)
         /\ Meets(">=", CompareSemver(v, b)) <=> ~NumBelow(v.num, b.num)
<1>1. v.pre # <<>> => ~NumSame(v.num, b.num)
  BY NumEqual
<1>2. /\ CompareSemver(v, b) < 0 <=> NumBelow(v.num, b.num)
      /\ CompareSemver(v, b) \in Int
  BY <1>1, AgainstRelease, SemverIs
<1> QED
  BY <1>2 DEF Meets

LEMMA AgreeIs ==
  ASSUME NEW x \in [1..3 -> Int], NEW y \in [1..3 -> Int]
  PROVE  /\ Agree(x, y, 0)
         /\ Agree(x, y, 1) <=> x[1] = y[1]
         /\ Agree(x, y, 2) <=> x[1] = y[1] /\ x[2] = y[2]
         /\ Agree(x, y, 3) <=> x[1] = y[1] /\ x[2] = y[2] /\ x[3] = y[3]
<1>1. Len(x) = 3 /\ Len(y) = 3
  <2>1. PICK m \in Nat : m = 3
    OBVIOUS
  <2>2. x \in [1..m -> Int] /\ y \in [1..m -> Int]
    BY <2>1
  <2>3. Len(x) = m /\ Len(y) = m
    BY <2>2
  <2> QED
    BY <2>1, <2>3
<1>2. /\ Piece(x, 1) = x[1] /\ Piece(x, 2) = x[2] /\ Piece(x, 3) = x[3]
      /\ Piece(y, 1) = y[1] /\ Piece(y, 2) = y[2] /\ Piece(y, 3) = y[3]
  BY <1>1 DEF Piece
<1>3. 1..0 = {} /\ 1..1 = {1} /\ 1..2 = {1, 2} /\ 1..3 = {1, 2, 3}
  OBVIOUS
<1> QED
  BY <1>2, <1>3 DEF Agree

LEMMA BeyondIs ==
  ASSUME NEW v, NEW p
  PROVE  /\ ~Beyond(v, p, 0)
         /\ Beyond(v, p, 1) <=> v.num[1] > p.num[1]
         /\ Beyond(v, p, 2) <=> v.num[1] > p.num[1] \/ (v.num[2] > p.num[2] /\ v.num[1] = p.num[1])
<1>1. 1..0 = {} /\ 1..1 = {1} /\ 1..2 = {1, 2} /\ 1 - 1 = 0 /\ 2 - 1 = 1
  OBVIOUS
<1> QED
  BY <1>1 DEF Beyond

(* Of a version not below it, the bound made of its first k pieces tells    *)
(* whether those pieces are the version's.                                  *)
LEMMA Window ==
  ASSUME NEW p \in Partials, NEW k \in 1..3, p.num[k] # Wild, NEW v \in SemverVersions,
         v.pre = <<>> \/ v.num # Above(p, k).num, CompareSemver(v, Floor(p)) >= 0
  PROVE  Meets("<", CompareSemver(v, Above(p, k))) <=> Agree(v.num, p.num, k)
<1> DEFINE x == v.num
           f == Floor(p).num
           a == Above(p, k).num
           y == p.num
<1>1. Floor(p) \in SemverVersions /\ CompareSemver(v, Floor(p)) \in Int /\ ~NumBelow(x, f)
  <2>1. Floor(p) \in SemverVersions
    BY FloorIs
  <2> QED
    BY <2>1, SemverIs
<1>2. Meets("<", CompareSemver(v, Above(p, k))) <=> NumBelow(x, a)
  BY AboveIs, AgainstBound
<1>3. /\ Agree(x, y, 1) <=> x[1] = y[1]
      /\ Agree(x, y, 2) <=> x[1] = y[1] /\ x[2] = y[2]
      /\ Agree(x, y, 3) <=> x[1] = y[1] /\ x[2] = y[2] /\ x[3] = y[3]
  <2>1. x \in [1..3 -> Int] /\ y \in [1..3 -> Int]
    BY PartialIs DEF SemverVersions
  <2> QED
    BY <2>1, AgreeIs
<1>4. x[1] \in Nat /\ x[2] \in Nat /\ x[3] \in Nat
  BY SemverParts
<1>5. /\ k = 1 => a[1] = y[1] + 1 /\ a[2] = 0 /\ a[3] = 0
      /\ k = 2 => a[1] = y[1] /\ a[2] = y[2] + 1 /\ a[3] = 0
      /\ k = 3 => a[1] = y[1] /\ a[2] = y[2] /\ a[3] = y[3] + 1
      /\ y[1] \in Nat /\ (k >= 2 => y[2] \in Nat) /\ (k = 3 => y[3] \in Nat)
  BY AboveIs
<1>6. /\ f[1] = IF y[1] = Wild THEN 0 ELSE y[1]
      /\ f[2] = IF y[2] = Wild THEN 0 ELSE y[2]
      /\ f[3] = IF y[3] = Wild THEN 0 ELSE y[3]
  BY FloorIs
<1>7. f[1] \in Nat /\ f[2] \in Nat /\ f[3] \in Nat
  BY <1>1, SemverParts
<1>8. k = 1 \/ k = 2 \/ k = 3
  OBVIOUS
<1> HIDE DEF x, f, a, y
<1>9. f[1] = y[1] /\ (k >= 2 => f[2] = y[2]) /\ (k = 3 => f[3] = y[3])
  BY <1>5, <1>6, <1>8 DEF Wild
<1>10. NumBelow(x, a) <=> Agree(x, y, k)
  <2>1. CASE k = 1
    BY <1>1, <1>3, <1>4, <1>5, <1>7, <1>9, <2>1 DEF NumBelow
  <2>2. CASE k = 2
    BY <1>1, <1>3, <1>4, <1>5, <1>7, <1>9, <2>2 DEF NumBelow
  <2>3. CASE k = 3
    BY <1>1, <1>3, <1>4, <1>5, <1>7, <1>9, <2>3 DEF NumBelow
  <2> QED
    BY <1>8, <2>1, <2>2, <2>3
<1> QED
  BY <1>2, <1>10 DEF x, y, a

(* A version that is clear of the bounds is not a prerelease of this one.   *)
LEMMA ClearOfAbove ==
  ASSUME NEW p \in Partials, NEW k \in 1..3, p.num[k] # Wild, NEW v \in SemverVersions, NEW C, NEW op,
         Clear(C, p, v), Comparator(op, Above(p, k)) \in C
  PROVE  v.pre = <<>> \/ v.num # Above(p, k).num
<1>1. ASSUME v.num = p.num, v.num = Above(p, k).num PROVE FALSE
  <2>1. k = 1 \/ k = 2 \/ k = 3
    OBVIOUS
  <2>2. Above(p, k).num = p.num
    BY <1>1
  <2>3. /\ k = 1 => Above(p, k).num[1] = p.num[1] + 1
        /\ k = 2 => Above(p, k).num[2] = p.num[2] + 1
        /\ k = 3 => Above(p, k).num[3] = p.num[3] + 1
        /\ p.num[1] \in Nat /\ (k >= 2 => p.num[2] \in Nat) /\ (k = 3 => p.num[3] \in Nat)
    BY AboveIs
  <2> QED
    BY <2>1, <2>2, <2>3
<1>2. ASSUME \A c \in C : c.ver.num # v.num PROVE v.num # Above(p, k).num
  BY <1>2 DEF Comparator
<1> QED
  BY <1>1, <1>2 DEF Clear

LEMMA ClearOfFloor ==
  ASSUME NEW p \in Partials, p.num[3] = Wild, NEW v \in SemverVersions, NEW C, NEW op,
         Clear(C, p, v), Comparator(op, Floor(p)) \in C
  PROVE  v.pre = <<>> \/ v.num # Floor(p).num
<1>1. v.num # p.num
  <2>1. v.num[3] \in Nat /\ p.num[3] = -1
    BY SemverParts DEF Wild
  <2> QED
    BY <2>1
<1> QED
  BY <1>1 DEF Clear, Comparator

LEMMA SignificantIs ==
  ASSUME NEW p \in Partials, NEW n \in 1..3, p.num[n] # Wild
  PROVE  Significant(p.num, n) = IF p.num[1] # 0 \/ n = 1 THEN 1 ELSE IF p.num[2] # 0 \/ n = 2 THEN 2 ELSE 3
<1> DEFINE S == {i \in 1..n : p.num[i] # 0}
           x == p.num
<1>1. Significant(x, n) = IF S = {} THEN n ELSE Leftmost(S)
  BY DEF Significant
<1>2. n = 1 \/ n = 2 \/ n = 3
  OBVIOUS
<1>3. \A i : i \in S <=> i \in 1..n /\ x[i] # 0
  OBVIOUS
<1> HIDE DEF S, x
<1>4. ASSUME NEW k \in S, \A j \in S : k <= j
      PROVE  Leftmost(S) = k
  <2>1. \A i \in S : i \in Int
    BY <1>3
  <2>2. \A i \in S : (\A j \in S : i <= j) => i = k
    BY <1>4, <2>1
  <2>3. Leftmost(S) \in S /\ \A j \in S : Leftmost(S) <= j
    BY <1>4 DEF Leftmost
  <2> QED
    BY <2>2, <2>3
<1>5. CASE x[1] # 0
  <2>1. 1 \in S /\ \A j \in S : 1 <= j
    BY <1>3, <1>5
  <2>2. S # {} /\ Leftmost(S) = 1
    BY <1>4, <2>1
  <2> QED
    BY <1>1, <1>5, <2>2 DEF x
<1>6. CASE x[1] = 0 /\ n >= 2 /\ x[2] # 0
  <2>1. 2 \in S /\ \A j \in S : 2 <= j
    <3>1. \A j \in 1..n : j = 1 \/ 2 <= j
      OBVIOUS
    <3> QED
      BY <1>2, <1>3, <1>6, <3>1
  <2>2. S # {} /\ Leftmost(S) = 2
    BY <1>4, <2>1
  <2> QED
    BY <1>1, <1>6, <2>2 DEF x
<1>7. CASE x[1] = 0 /\ (n >= 2 => x[2] = 0) /\ (n = 3 => x[3] # 0)
  <2>1. CASE n = 3
    <3>1. 3 \in S /\ \A j \in S : 3 <= j
      <4>1. \A j \in 1..n : j = 1 \/ j = 2 \/ j = 3
        BY <2>1
      <4> QED
        BY <1>3, <1>7, <2>1, <4>1
    <3>2. S # {} /\ Leftmost(S) = 3
      BY <1>4, <3>1
    <3> QED
      BY <1>1, <1>7, <2>1, <3>2 DEF x
  <2>2. CASE n # 3
    <3>1. \A j \in 1..n : j = 1 \/ (j = 2 /\ n = 2)
      BY <1>2, <2>2
    <3>2. S = {}
      BY <1>2, <1>3, <1>7, <3>1
    <3> QED
      BY <1>1, <1>2, <1>7, <2>2, <3>2 DEF x
  <2> QED
    BY <2>1, <2>2
<1>8. CASE x[1] = 0 /\ n = 3 /\ x[2] = 0 /\ x[3] = 0
  <2>1. S = {}
    <3>1. \A j \in 1..n : j = 1 \/ j = 2 \/ j = 3
      BY <1>8
    <3> QED
      BY <1>3, <1>8, <3>1
  <2> QED
    BY <1>1, <1>8, <2>1 DEF x
<1> QED
  BY <1>2, <1>5, <1>6, <1>7, <1>8

LEMMA FloorToAbove ==
  ASSUME NEW p \in Partials, NEW k \in 1..3, p.num[k] # Wild, NEW v \in SemverVersions,
         Clear({AtLeast(p), Comparator("<", Above(p, k))}, p, v)
  PROVE  Held({AtLeast(p), Comparator("<", Above(p, k))}, v)
           <=> CompareSemver(v, Floor(p)) >= 0 /\ Agree(v.num, p.num, k)
<1> DEFINE C == {AtLeast(p), Comparator("<", Above(p, k))}
<1>1. Held(C, v) <=> CompareSemver(v, Floor(p)) >= 0 /\ Meets("<", CompareSemver(v, Above(p, k)))
  <2>1. Held(C, v) <=> Meets(">=", CompareSemver(v, Floor(p))) /\ Meets("<", CompareSemver(v, Above(p, k)))
    BY DEF Held, AtLeast, Comparator
  <2>2. Meets(">=", CompareSemver(v, Floor(p))) <=> CompareSemver(v, Floor(p)) >= 0
    BY DEF Meets
  <2> QED
    BY <2>1, <2>2, Zenon
<1>2. v.pre = <<>> \/ v.num # Above(p, k).num
  <2>1. Clear(C, p, v) /\ Comparator("<", Above(p, k)) \in C
    OBVIOUS
  <2> HIDE DEF C
  <2> QED
    BY <2>1, ClearOfAbove
<1> HIDE DEF C
<1>3. CompareSemver(v, Floor(p)) >= 0 => (Meets("<", CompareSemver(v, Above(p, k))) <=> Agree(v.num, p.num, k))
  BY <1>2, Window
<1>4. Held(C, v) <=> CompareSemver(v, Floor(p)) >= 0 /\ Agree(v.num, p.num, k)
  BY <1>1, <1>3, Zenon
<1> QED
  BY <1>4 DEF C

LEMMA CaretMeant ==
  ASSUME NEW p \in Partials, NEW v \in SemverVersions, Clear(Caret(p), p, v)
  PROVE  Held(Caret(p), v) <=> MeantSemver("^", p, v)
<1> DEFINE n == Cardinality(Pieces(p))
<1>0. MeantSemver("^", p, v) <=> n = 0 \/ (CompareSemver(v, Floor(p)) >= 0 /\ Agree(v.num, p.num, Significant(p.num, n)))
  BY Zenon DEF MeantSemver
<1>1. CASE p.num[1] = Wild
  <2>1. n = 0 /\ Caret(p) = {}
    BY <1>1, PiecesAre DEF Caret
  <2> QED
    BY <1>0, <2>1 DEF Held
<1>2. CASE p.num[1] # Wild
  <2>1. /\ n \in 1..3 /\ p.num[n] # Wild
        /\ (n = 1 <=> p.num[2] = Wild) /\ (n = 2 <=> p.num[2] # Wild /\ p.num[3] = Wild)
    BY <1>2, PiecesAre, PartialIs
  <2> HIDE DEF n
  <2> DEFINE k == IF p.num[1] # 0 \/ n = 1 THEN 1 ELSE IF p.num[2] # 0 \/ n = 2 THEN 2 ELSE 3
  <2>2. Significant(p.num, n) = k
    BY <2>1, SignificantIs
  <2>3. k \in 1..3 /\ p.num[k] # Wild
    BY <1>2, <2>1, PartialIs
  <2>4. Caret(p) = {AtLeast(p), Comparator("<", Above(p, k))}
    <3>1. p.num[2] # Wild => (n = 2 <=> p.num[3] = Wild)
      BY <2>1
    <3>2. k = IF p.num[2] = Wild \/ p.num[1] # 0 THEN 1 ELSE IF p.num[3] = Wild \/ p.num[2] # 0 THEN 2 ELSE 3
      BY <2>1, <3>1
    <3> HIDE DEF k
    <3> QED
      BY <1>2, <3>2 DEF Caret
  <2> HIDE DEF k
  <2>5. Held(Caret(p), v) <=> CompareSemver(v, Floor(p)) >= 0 /\ Agree(v.num, p.num, k)
    BY <2>3, <2>4, FloorToAbove
  <2>6. n # 0
    BY <2>1
  <2> QED
    BY <1>0, <2>2, <2>5, <2>6, Zenon
<1> QED
  BY <1>1, <1>2

LEMMA TildeMeant ==
  ASSUME NEW p \in Partials, NEW v \in SemverVersions, Clear(Tilde(p), p, v)
  PROVE  Held(Tilde(p), v) <=> MeantSemver("~", p, v)
<1> DEFINE n == Cardinality(Pieces(p))
<1>0. MeantSemver("~", p, v) <=> n = 0 \/ (CompareSemver(v, Floor(p)) >= 0 /\ Agree(v.num, p.num, IF n = 1 THEN 1 ELSE 2))
  BY Zenon DEF MeantSemver
<1>1. CASE p.num[1] = Wild
  <2>1. n = 0 /\ Tilde(p) = {}
    BY <1>1, PiecesAre DEF Tilde
  <2> QED
    BY <1>0, <2>1 DEF Held
<1>2. CASE p.num[1] # Wild
  <2>1. n \in 1..3 /\ (n = 1 <=> p.num[2] = Wild)
    BY <1>2, PiecesAre, PartialIs
  <2> HIDE DEF n
  <2> DEFINE k == IF n = 1 THEN 1 ELSE 2
  <2>2. k \in 1..3 /\ p.num[k] # Wild /\ k = IF p.num[2] = Wild THEN 1 ELSE 2
    BY <1>2, <2>1, PartialIs
  <2>3. Tilde(p) = {AtLeast(p), Comparator("<", Above(p, k))}
    <3> HIDE DEF k
    <3> QED
      BY <1>2, <2>2 DEF Tilde
  <2> HIDE DEF k
  <2>4. Held(Tilde(p), v) <=> CompareSemver(v, Floor(p)) >= 0 /\ Agree(v.num, p.num, k)
    BY <2>2, <2>3, FloorToAbove
  <2>5. n # 0
    BY <2>1
  <2> QED
    BY <1>0, <2>4, <2>5, Zenon DEF k
<1> QED
  BY <1>1, <1>2

(* The bounds of a version with pieces left out.                            *)
LEMMA PartialBounds ==
  ASSUME NEW p \in Partials, NEW n \in 1..2, p.num[n] # Wild, n = 1 => p.num[2] = Wild, p.num[3] = Wild,
         NEW v \in SemverVersions
  PROVE  /\ NumBelow(v.num, Floor(p).num) <=> ~Beyond(v, p, n) /\ ~Agree(v.num, p.num, n)
         /\ NumBelow(v.num, Above(p, n).num) <=> ~Beyond(v, p, n)
         /\ Agree(v.num, p.num, n) => ~Beyond(v, p, n)
<1> DEFINE x == v.num
           f == Floor(p).num
           a == Above(p, n).num
           y == p.num
<1>1. (Agree(x, y, 1) <=> x[1] = y[1]) /\ (Agree(x, y, 2) <=> x[1] = y[1] /\ x[2] = y[2])
  <2>1. x \in [1..3 -> Int] /\ y \in [1..3 -> Int]
    BY PartialIs DEF SemverVersions
  <2> QED
    BY <2>1, AgreeIs
<1>2. /\ Beyond(v, p, 1) <=> x[1] > y[1]
      /\ Beyond(v, p, 2) <=> x[1] > y[1] \/ (x[2] > y[2] /\ x[1] = y[1])
  BY BeyondIs
<1>3. x[1] \in Nat /\ x[2] \in Nat /\ x[3] \in Nat
  BY SemverParts
<1>4. /\ n = 1 => a[1] = y[1] + 1 /\ a[2] = 0 /\ a[3] = 0
      /\ n = 2 => a[1] = y[1] /\ a[2] = y[2] + 1 /\ a[3] = 0
      /\ y[1] \in Nat /\ (n = 2 => y[2] \in Nat)
  <2>1. n \in 1..3
    OBVIOUS
  <2> QED
    BY <2>1, AboveIs
<1>5. /\ f[1] = IF y[1] = Wild THEN 0 ELSE y[1]
      /\ f[2] = IF y[2] = Wild THEN 0 ELSE y[2]
      /\ f[3] = IF y[3] = Wild THEN 0 ELSE y[3]
  BY FloorIs
<1>6. n = 1 \/ n = 2
  OBVIOUS
<1>7. (n = 1 => y[2] = Wild) /\ y[3] = Wild
  OBVIOUS
<1> HIDE DEF x, f, a, y
<1>8. f[1] = y[1] /\ f[3] = 0 /\ (n = 1 => f[2] = 0) /\ (n = 2 => f[2] = y[2])
  BY <1>4, <1>5, <1>6, <1>7 DEF Wild
<1>9. CASE n = 1
  <2>1. /\ NumBelow(x, f) <=> ~Beyond(v, p, 1) /\ ~Agree(x, y, 1)
        /\ NumBelow(x, a) <=> ~Beyond(v, p, 1)
        /\ Agree(x, y, 1) => ~Beyond(v, p, 1)
    BY <1>1, <1>2, <1>3, <1>4, <1>8, <1>9 DEF NumBelow
  <2> QED
    BY <1>9, <2>1 DEF x, f, a, y
<1>10. CASE n = 2
  <2>1. /\ NumBelow(x, f) <=> ~Beyond(v, p, 2) /\ ~Agree(x, y, 2)
        /\ NumBelow(x, a) <=> ~Beyond(v, p, 2)
        /\ Agree(x, y, 2) => ~Beyond(v, p, 2)
    BY <1>1, <1>2, <1>3, <1>4, <1>8, <1>10 DEF NumBelow
  <2> QED
    BY <1>10, <2>1 DEF x, f, a, y
<1> QED
  BY <1>6, <1>9, <1>10

LEMMA XRangeMeant ==
  ASSUME NEW p \in Partials, NEW v \in SemverVersions, Clear(XRange(p), p, v)
  PROVE  Held(XRange(p), v) <=> MeantSemver("=", p, v)
<1> DEFINE n == Cardinality(Pieces(p))
<1>0. MeantSemver("=", p, v) <=> IF n = 3 THEN CompareSemver(v, Floor(p)) = 0 ELSE Agree(v.num, p.num, n)
  BY Zenon DEF MeantSemver
<1>1. CASE p.num[1] = Wild
  <2>1. n = 0 /\ XRange(p) = {}
    BY <1>1, PiecesAre DEF XRange
  <2>2. Agree(v.num, p.num, 0)
    BY DEF Agree
  <2> QED
    BY <1>0, <2>1, <2>2 DEF Held
<1>2. CASE p.num[1] # Wild /\ p.num[3] = Wild
  <2>1. n \in 1..2 /\ p.num[n] # Wild /\ (n = 1 => p.num[2] = Wild) /\ n = (IF p.num[2] = Wild THEN 1 ELSE 2)
    BY <1>2, PiecesAre, PartialIs
  <2> HIDE DEF n
  <2>2. XRange(p) = {AtLeast(p), Comparator("<", Above(p, n))}
    BY <1>2, <2>1 DEF XRange
  <2>3. n \in 1..3 /\ n # 3
    BY <2>1
  <2>4. Held(XRange(p), v) <=> CompareSemver(v, Floor(p)) >= 0 /\ Agree(v.num, p.num, n)
    BY <2>1, <2>2, <2>3, FloorToAbove
  <2>5. Agree(v.num, p.num, n) => CompareSemver(v, Floor(p)) >= 0
    <3>1. v.pre = <<>> \/ v.num # Floor(p).num
      <4>1. Comparator(">=", Floor(p)) \in XRange(p)
        BY <2>2 DEF AtLeast
      <4> QED
        BY <1>2, <4>1, ClearOfFloor
    <3>2. Floor(p) \in SemverVersions /\ Floor(p).pre = <<>>
      BY <1>2, FloorIs, PartialIs
    <3>3. Meets(">=", CompareSemver(v, Floor(p))) <=> ~NumBelow(v.num, Floor(p).num)
      BY <3>1, <3>2, AgainstBound
    <3>4. Agree(v.num, p.num, n) => ~NumBelow(v.num, Floor(p).num)
      BY <1>2, <2>1, PartialBounds
    <3> QED
      BY <3>3, <3>4 DEF Meets
  <2> QED
    BY <1>0, <2>3, <2>4, <2>5
<1>3. CASE p.num[3] # Wild
  <2>1. n = 3 /\ p.num[1] # Wild
    BY <1>3, PiecesAre, PartialIs
  <2>2. XRange(p) = {Comparator("=", Floor(p))}
    BY <1>3, <2>1 DEF XRange
  <2>3. Held(XRange(p), v) <=> Meets("=", CompareSemver(v, Floor(p)))
    BY <2>2 DEF Held, Comparator
  <2> QED
    BY <1>0, <2>1, <2>3 DEF Meets
<1> QED
  BY <1>1, <1>2, <1>3

Ordering == {">", ">=", "<", "<="}

LEMMA HeldOne ==
  ASSUME NEW o, NEW b, NEW v
  PROVE  Held({Comparator(o, b)}, v) <=> Meets(o, CompareSemver(v, b))
  BY DEF Held, Comparator

LEMMA PrimitiveOfAny ==
  ASSUME NEW p, NEW op, p.num[1] = Wild
  PROVE  Primitive(op, p) = IF op \in {">", "<"} THEN Nothing ELSE {}
  BY DEF Primitive

LEMMA PrimitiveMeant ==
  ASSUME NEW p \in Partials, NEW v \in SemverVersions, NEW op \in Ordering, Clear(Primitive(op, p), p, v)
  PROVE  Held(Primitive(op, p), v) <=> MeantSemver(op, p, v)
<1> DEFINE n == Cardinality(Pieces(p))
           level == CompareSemver(v, Floor(p))
<1>0. /\ op = ">" => (MeantSemver(op, p, v) <=> IF n = 3 THEN level > 0 ELSE Beyond(v, p, n))
      /\ op = ">=" => (MeantSemver(op, p, v) <=> IF n = 3 THEN level >= 0 ELSE Beyond(v, p, n) \/ Agree(v.num, p.num, n))
      /\ op = "<" => (MeantSemver(op, p, v) <=> IF n = 3 THEN level < 0 ELSE ~Beyond(v, p, n) /\ ~Agree(v.num, p.num, n))
      /\ op = "<=" => (MeantSemver(op, p, v) <=> IF n = 3 THEN level <= 0 ELSE ~Beyond(v, p, n))
  BY DEF MeantSemver
<1>4. op = ">" \/ op = ">=" \/ op = "<" \/ op = "<="
  BY DEF Ordering
<1>1. CASE p.num[1] = Wild
  <2>1. n = 0 /\ p.num[3] = Wild
    BY <1>1, PiecesAre, PartialIs
  <2>2. Agree(v.num, p.num, 0)
    BY DEF Agree
  <2>3. ~Beyond(v, p, 0)
    BY BeyondIs
  <2>4. Primitive(op, p) = IF op \in {">", "<"} THEN Nothing ELSE {}
    BY <1>1, PrimitiveOfAny
  <2>5. Clear(Nothing, p, v) => ~Held(Nothing, v)
    <3> DEFINE b == Triple(0, 0, 0)
    <3>1. b \in SemverVersions /\ b.pre = <<>> /\ b.num[1] = 0 /\ b.num[2] = 0 /\ b.num[3] = 0
      BY ONLY ZeroIs
    <3>2. Comparator("<", b) \in Nothing /\ Nothing = {Comparator("<", b)}
      BY DEF Nothing
    <3> HIDE DEF b
    <3>3. v.num # p.num
      <4>1. v.num[3] \in Nat /\ p.num[3] = -1
        BY <2>1, SemverParts DEF Wild
      <4> QED
        BY <4>1
    <3>4. Clear(Nothing, p, v) => v.pre = <<>> \/ v.num # b.num
      BY <3>2, <3>3 DEF Clear, Comparator
    <3>5. ~NumBelow(v.num, b.num)
      <4>1. v.num[1] \in Nat /\ v.num[2] \in Nat /\ v.num[3] \in Nat
        BY SemverParts
      <4> QED
        BY <3>1, <4>1 DEF NumBelow
    <3>6. Clear(Nothing, p, v) => ~Meets("<", CompareSemver(v, b))
      BY <3>1, <3>4, <3>5, AgainstBound
    <3>7. Held(Nothing, v) => Meets("<", CompareSemver(v, b))
      BY <3>2 DEF Held, Comparator
    <3> QED
      BY <3>6, <3>7
  <2>6. CASE op \in {">", "<"}
    <3>1. ~Held(Primitive(op, p), v)
      BY <2>4, <2>5, <2>6
    <3>2. ~MeantSemver(op, p, v)
      BY <1>0, <2>1, <2>2, <2>3, <2>6
    <3> QED
      BY <3>1, <3>2
  <2>7. CASE op \in {">=", "<="}
    <3>1. Held(Primitive(op, p), v)
      BY <2>4, <2>7 DEF Held
    <3>2. MeantSemver(op, p, v)
      BY <1>0, <2>1, <2>2, <2>3, <2>7
    <3> QED
      BY <3>1, <3>2
  <2> QED
    BY <1>4, <2>6, <2>7
<1>2. CASE p.num[1] # Wild /\ p.num[3] = Wild
  <2>1. n \in 1..2 /\ p.num[n] # Wild /\ (n = 1 => p.num[2] = Wild) /\ n = (IF p.num[2] = Wild THEN 1 ELSE 2)
    BY <1>2, PiecesAre, PartialIs
  <2> HIDE DEF n
  <2> DEFINE next == Above(p, n)
             low == Floor(p)
  <2>2. /\ NumBelow(v.num, low.num) <=> ~Beyond(v, p, n) /\ ~Agree(v.num, p.num, n)
        /\ NumBelow(v.num, next.num) <=> ~Beyond(v, p, n)
    BY <1>2, <2>1, PartialBounds
  <2>3. /\ op = ">" => Primitive(op, p) = {Comparator(">=", next)}
        /\ op = ">=" => Primitive(op, p) = {Comparator(">=", low)}
        /\ op = "<" => Primitive(op, p) = {Comparator("<", low)}
        /\ op = "<=" => Primitive(op, p) = {Comparator("<", next)}
    <3>1. [Floor(p) EXCEPT !.pre = <<>>] = Floor(p)
      <4>1. Floor(p).pre = <<>> /\ Floor(p) \in SemverVersions
        BY <1>2, FloorIs, PartialIs
      <4> QED
        BY <4>1 DEF SemverVersions
    <3> QED
      BY <1>2, <2>1, <3>1 DEF Primitive
  <2>4. next \in SemverVersions /\ next.pre = <<>> /\ low \in SemverVersions /\ low.pre = <<>> /\ n \in 1..3
    <3>1. n \in 1..3
      BY <2>1
    <3> QED
      BY <1>2, <2>1, <3>1, AboveIs, FloorIs, PartialIs
  <2>5. /\ \A o : Comparator(o, next) \in Primitive(op, p) => v.pre = <<>> \/ v.num # next.num
        /\ \A o : Comparator(o, low) \in Primitive(op, p) => v.pre = <<>> \/ v.num # low.num
    BY <1>2, <2>1, <2>4, ClearOfAbove, ClearOfFloor
  <2> HIDE DEF next, low
  <2>6. /\ op = ">" => Comparator(">=", next) \in Primitive(op, p)
        /\ op = ">=" => Comparator(">=", low) \in Primitive(op, p)
        /\ op = "<" => Comparator("<", low) \in Primitive(op, p)
        /\ op = "<=" => Comparator("<", next) \in Primitive(op, p)
    BY <2>3
  <2>7. /\ op = ">" => (Held(Primitive(op, p), v) <=> Meets(">=", CompareSemver(v, next)))
        /\ op = ">=" => (Held(Primitive(op, p), v) <=> Meets(">=", CompareSemver(v, low)))
        /\ op = "<" => (Held(Primitive(op, p), v) <=> Meets("<", CompareSemver(v, low)))
        /\ op = "<=" => (Held(Primitive(op, p), v) <=> Meets("<", CompareSemver(v, next)))
    BY <2>3, HeldOne
  <2>8. /\ op = ">" \/ op = "<=" => v.pre = <<>> \/ v.num # next.num
        /\ op = ">=" \/ op = "<" => v.pre = <<>> \/ v.num # low.num
    BY <2>5, <2>6
  <2>9. /\ op = ">" => (Held(Primitive(op, p), v) <=> ~NumBelow(v.num, next.num))
        /\ op = ">=" => (Held(Primitive(op, p), v) <=> ~NumBelow(v.num, low.num))
        /\ op = "<" => (Held(Primitive(op, p), v) <=> NumBelow(v.num, low.num))
        /\ op = "<=" => (Held(Primitive(op, p), v) <=> NumBelow(v.num, next.num))
    BY <2>4, <2>7, <2>8, AgainstBound
  <2>10. n # 3
    BY <2>1
  <2> QED
    BY <1>0, <1>4, <2>2, <2>9, <2>10
<1>3. CASE p.num[3] # Wild
  <2>1. n = 3 /\ p.num[1] # Wild
    BY <1>3, PiecesAre, PartialIs
  <2>2. Primitive(op, p) = {Comparator(op, Floor(p))}
    BY <1>3, <2>1 DEF Primitive
  <2>3. Held(Primitive(op, p), v) <=> Meets(op, CompareSemver(v, Floor(p)))
    BY <2>2 DEF Held, Comparator
  <2> QED
    BY <1>0, <1>4, <2>1, <2>3 DEF Meets
<1> QED
  BY <1>1, <1>2, <1>3

SideOps == {"", "^", "~", "="} \cup Ordering
Stands(op, p, cargo) == IF op # "" THEN op ELSE IF cargo /\ ~p.explicit THEN "^" ELSE "="

LEMMA ExpandIs ==
  ASSUME NEW p \in Partials, NEW cargo \in BOOLEAN, NEW op \in SideOps
  PROVE  /\ Stands(op, p, cargo) \in {"^", "~", "="} \cup Ordering
         /\ Stands(op, p, cargo) = "^" => Expand(op, p, cargo) = Caret(p)
         /\ Stands(op, p, cargo) = "~" => Expand(op, p, cargo) = Tilde(p)
         /\ Stands(op, p, cargo) = "=" => Expand(op, p, cargo) = XRange(p)
         /\ Stands(op, p, cargo) \in Ordering => op = Stands(op, p, cargo) /\ Expand(op, p, cargo) = Primitive(op, p)
<1>1. p.explicit \in BOOLEAN
  BY PartialIs
<1>2. CASE op = ""
  <2>1. CASE cargo /\ ~p.explicit
    BY <1>1, <1>2, <2>1 DEF Expand, Stands, Ordering
  <2>2. CASE ~(cargo /\ ~p.explicit)
    BY <1>1, <1>2, <2>2 DEF Expand, Stands, Ordering
  <2> QED
    BY <2>1, <2>2
<1>3. CASE op = "^"
  BY <1>3 DEF Expand, Stands, Ordering
<1>4. CASE op = "~"
  BY <1>4 DEF Expand, Stands, Ordering
<1>5. CASE op = "="
  BY <1>5 DEF Expand, Stands, Ordering
<1>6. CASE op \in Ordering
  BY <1>6 DEF Expand, Stands, Ordering
<1> QED
  BY <1>2, <1>3, <1>4, <1>5, <1>6 DEF SideOps

LEMMA SideMeant ==
  ASSUME NEW p \in Partials, NEW v \in SemverVersions, NEW cargo \in BOOLEAN, NEW op \in SideOps,
         Clear(Expand(op, p, cargo), p, v)
  PROVE  Held(Expand(op, p, cargo), v) <=> MeantSemver(Stands(op, p, cargo), p, v)
<1>1. CASE Stands(op, p, cargo) = "^"
  BY <1>1, ExpandIs, CaretMeant
<1>2. CASE Stands(op, p, cargo) = "~"
  BY <1>2, ExpandIs, TildeMeant
<1>3. CASE Stands(op, p, cargo) = "="
  BY <1>3, ExpandIs, XRangeMeant
<1>4. CASE Stands(op, p, cargo) \in Ordering
  BY <1>4, ExpandIs, PrimitiveMeant
<1> QED
  BY <1>1, <1>2, <1>3, <1>4, ExpandIs

(* A term's bounds name the prerelease the term names, and no other.        *)
LEMMA SideNames ==
  ASSUME NEW p \in Partials, NEW cargo \in BOOLEAN, NEW op \in SideOps
  PROVE  /\ \A c \in Expand(op, p, cargo) : c.ver.pre # <<>> => p.pre # <<>> /\ c.ver.num = p.num
         /\ p.pre # <<>> => \E c \in Expand(op, p, cargo) : c.ver.pre # <<>> /\ c.ver.num = p.num
<1>1. Floor(p).pre = p.pre /\ (p.pre # <<>> => p.num[3] # Wild /\ Floor(p).num = p.num /\ p.num[1] # Wild /\ p.num[2] # Wild)
  BY FloorIs, PartialIs
<1>2. /\ p.num[1] # Wild => Above(p, 1).pre = <<>>
      /\ p.num[2] # Wild => Above(p, 2).pre = <<>>
      /\ p.num[3] # Wild => Above(p, 3).pre = <<>>
  BY AboveIs
<1>3. \A c \in Nothing : c.ver.pre = <<>>
  BY DEF Nothing, Comparator, Triple
<1>4. AtLeast(p) = Comparator(">=", Floor(p)) /\ \A o, b : Comparator(o, b).ver = b
  BY DEF AtLeast, Comparator
<1>5. [Floor(p) EXCEPT !.pre = <<>>].pre = <<>>
  BY FloorIs DEF SemverVersions
<1>6. /\ \A c \in Caret(p) : c.ver.pre # <<>> => c.ver = Floor(p)
      /\ p.pre # <<>> => \E c \in Caret(p) : c.ver = Floor(p)
  <2>1. p.num[1] # Wild => \E k \in 1..3 : p.num[k] # Wild /\ Caret(p) = {AtLeast(p), Comparator("<", Above(p, k))}
    <3> DEFINE k == IF p.num[2] = Wild \/ p.num[1] # 0 THEN 1 ELSE IF p.num[3] = Wild \/ p.num[2] # 0 THEN 2 ELSE 3
    <3>1. p.num[1] # Wild => k \in 1..3 /\ p.num[k] # Wild
      OBVIOUS
    <3>2. p.num[1] # Wild => Caret(p) = {AtLeast(p), Comparator("<", Above(p, k))}
      BY DEF Caret
    <3> HIDE DEF k
    <3> QED
      BY <3>1, <3>2
  <2>2. p.num[1] = Wild => Caret(p) = {}
    BY DEF Caret
  <2> QED
    BY <1>1, <1>4, <2>1, <2>2, AboveIs
<1>7. /\ \A c \in Tilde(p) : c.ver.pre # <<>> => c.ver = Floor(p)
      /\ p.pre # <<>> => \E c \in Tilde(p) : c.ver = Floor(p)
  BY <1>1, <1>2, <1>4 DEF Tilde
<1>8. /\ \A c \in XRange(p) : c.ver.pre # <<>> => c.ver = Floor(p)
      /\ p.pre # <<>> => \E c \in XRange(p) : c.ver = Floor(p)
  BY <1>1, <1>2, <1>4 DEF XRange
<1>9. ASSUME op \in Ordering
      PROVE  /\ \A c \in Primitive(op, p) : c.ver.pre # <<>> => c.ver = Floor(p)
             /\ p.pre # <<>> => \E c \in Primitive(op, p) : c.ver = Floor(p)
  <2>1. CASE p.num[1] = Wild
    BY <1>1, <1>3, <2>1 DEF Primitive
  <2>2. CASE p.num[1] # Wild /\ p.num[3] # Wild
    BY <1>4, <2>2 DEF Primitive
  <2>3. CASE p.num[1] # Wild /\ p.num[3] = Wild
    <3>1. p.pre = <<>>
      BY <1>1, <2>3
    <3>2. \A c \in Primitive(op, p) : c.ver.pre = <<>>
      <4> DEFINE k == IF p.num[2] = Wild THEN 1 ELSE 2
                 next == Above(p, k)
                 low == [Floor(p) EXCEPT !.pre = <<>>]
      <4>1. next.pre = <<>> /\ low.pre = <<>>
        BY <1>2, <1>5, <2>3
      <4>2. /\ op = ">" => Primitive(op, p) = {Comparator(">=", next)}
            /\ op = ">=" => Primitive(op, p) = {Comparator(">=", low)}
            /\ op = "<" => Primitive(op, p) = {Comparator("<", low)}
            /\ op = "<=" => Primitive(op, p) = {Comparator("<", next)}
        BY <2>3 DEF Primitive
      <4> HIDE DEF next, low
      <4>3. op = ">" \/ op = ">=" \/ op = "<" \/ op = "<="
        BY <1>9 DEF Ordering
      <4> QED
        BY <1>4, <4>1, <4>2, <4>3
    <3> QED
      BY <3>1, <3>2
  <2> QED
    BY <2>1, <2>2, <2>3
<1>10. /\ \A c \in Expand(op, p, cargo) : c.ver.pre # <<>> => c.ver = Floor(p)
       /\ p.pre # <<>> => \E c \in Expand(op, p, cargo) : c.ver = Floor(p)
  BY <1>6, <1>7, <1>8, <1>9, ExpandIs
<1> QED
  BY <1>1, <1>10

(* A hyphen range is its two sides.                                         *)
LEMMA HyphenIs ==
  ASSUME NEW low \in Partials, NEW high \in Partials, NEW cargo \in BOOLEAN
  PROVE  Hyphen(low, high) = Expand(">=", low, cargo) \cup Expand("<=", high, cargo)
<1>1. Expand(">=", low, cargo) = Primitive(">=", low) /\ Expand("<=", high, cargo) = Primitive("<=", high)
  BY DEF Expand
<1>2. (IF low.num[1] = Wild THEN {} ELSE {AtLeast(low)}) = Primitive(">=", low)
  <2>1. CASE low.num[1] = Wild
    BY <2>1 DEF Primitive
  <2>2. CASE low.num[1] # Wild /\ low.num[3] # Wild
    BY <2>2 DEF Primitive, AtLeast
  <2>3. CASE low.num[1] # Wild /\ low.num[3] = Wild
    <3>1. [Floor(low) EXCEPT !.pre = <<>>] = Floor(low)
      <4>1. Floor(low).pre = <<>> /\ Floor(low) \in SemverVersions
        BY <2>3, FloorIs, PartialIs
      <4> QED
        BY <4>1 DEF SemverVersions
    <3>2. Primitive(">=", low) = {Comparator(">=", [Floor(low) EXCEPT !.pre = <<>>])}
      BY <2>3 DEF Primitive
    <3> QED
      BY <2>3, <3>1, <3>2 DEF AtLeast
  <2> QED
    BY <2>1, <2>2, <2>3
<1>3. (CASE high.num[1] = Wild -> {}
         [] high.num[1] # Wild /\ high.num[3] = Wild -> {Comparator("<", Above(high, IF high.num[2] = Wild THEN 1 ELSE 2))}
         [] OTHER -> {Comparator("<=", Floor(high))}) = Primitive("<=", high)
  <2>1. CASE high.num[1] = Wild
    BY <2>1 DEF Primitive
  <2>2. CASE high.num[1] # Wild /\ high.num[3] # Wild
    BY <2>2 DEF Primitive
  <2>3. CASE high.num[1] # Wild /\ high.num[3] = Wild
    BY <2>3 DEF Primitive
  <2> QED
    BY <2>1, <2>2, <2>3
<1> QED
  BY <1>1, <1>2, <1>3, Zenon DEF Hyphen

SideBounds(d, s) == Expand(s.op, s.spec, d.syntax = "cargo")

LEMMA SidesAre ==
  ASSUME NEW d, d.syntax \in Semver, NEW t, TermRead(d.syntax, t)
  PROVE  /\ \A s \in Sides(t) : s.op \in SideOps /\ s.spec \in Partials
         /\ (CASE t.op = "-" -> Hyphen(t.spec, t.high)
               [] t.op # "-" /\ d.syntax \in Semver -> Expand(t.op, t.spec, d.syntax = "cargo")
               [] OTHER -> Clauses(t.op, t.spec)) = UNION {SideBounds(d, s) : s \in Sides(t)}
<1>1. t.op \in SemverOps /\ t.spec \in Partials /\ (t.op = "-" => t.high \in Partials)
  BY DEF TermRead
<1>2. CASE t.op = "-"
  <2> DEFINE lo == [op |-> ">=", spec |-> t.spec]
             hi == [op |-> "<=", spec |-> t.high]
  <2>1. Sides(t) = {lo, hi}
    BY <1>2 DEF Sides
  <2>2. lo.op = ">=" /\ lo.spec = t.spec /\ hi.op = "<=" /\ hi.spec = t.high
    OBVIOUS
  <2>3. ">=" \in SideOps /\ "<=" \in SideOps
    BY DEF SideOps, Ordering
  <2> HIDE DEF lo, hi
  <2>4. UNION {SideBounds(d, s) : s \in Sides(t)} = SideBounds(d, lo) \cup SideBounds(d, hi)
    <3>1. \A c : c \in UNION {SideBounds(d, s) : s \in Sides(t)} <=> \E s \in Sides(t) : c \in SideBounds(d, s)
      BY Zenon
    <3>2. \A s : s \in Sides(t) <=> s = lo \/ s = hi
      BY <2>1, Zenon
    <3>3. \A c : c \in UNION {SideBounds(d, s) : s \in Sides(t)} <=> c \in SideBounds(d, lo) \cup SideBounds(d, hi)
      <4> SUFFICES ASSUME NEW c
                   PROVE  c \in UNION {SideBounds(d, s) : s \in Sides(t)} <=> c \in SideBounds(d, lo) \cup SideBounds(d, hi)
        BY Zenon
      <4>1. (\E s \in Sides(t) : c \in SideBounds(d, s)) <=> c \in SideBounds(d, lo) \/ c \in SideBounds(d, hi)
        BY <3>2
      <4> QED
        BY <3>1, <4>1, Zenon
    <3> DEFINE all == UNION {SideBounds(d, s) : s \in Sides(t)}
               both == SideBounds(d, lo) \cup SideBounds(d, hi)
    <3>4. \A c : c \in all <=> c \in both
      BY <3>3, Zenon
    <3> HIDE DEF all, both
    <3>5. all = both
      BY <3>4
    <3> QED
      BY <3>5, Zenon DEF all, both
  <2>5. Hyphen(t.spec, t.high) = SideBounds(d, lo) \cup SideBounds(d, hi)
    <3>1. /\ SideBounds(d, lo) = Expand(">=", t.spec, d.syntax = "cargo")
          /\ SideBounds(d, hi) = Expand("<=", t.high, d.syntax = "cargo")
      BY <2>2 DEF SideBounds
    <3>2. t.spec \in Partials /\ t.high \in Partials /\ (d.syntax = "cargo") \in BOOLEAN
      BY <1>1, <1>2
    <3> QED
      <4>1. Hyphen(t.spec, t.high) = Expand(">=", t.spec, d.syntax = "cargo") \cup Expand("<=", t.high, d.syntax = "cargo")
        BY <3>2, HyphenIs, Zenon
      <4> QED
        BY <3>1, <4>1
  <2> QED
    BY <1>1, <1>2, <2>1, <2>2, <2>3, <2>4, <2>5
<1>3. CASE t.op # "-"
  <2> DEFINE s1 == [op |-> t.op, spec |-> t.spec]
  <2>1. Sides(t) = {s1}
    BY <1>3 DEF Sides
  <2>2. s1.op = t.op /\ s1.spec = t.spec /\ t.op \in SideOps
    BY <1>1, <1>3 DEF SemverOps, SideOps, Ordering
  <2> HIDE DEF s1
  <2>3. UNION {SideBounds(d, s) : s \in Sides(t)} = SideBounds(d, s1)
    BY <2>1
  <2>4. Expand(t.op, t.spec, d.syntax = "cargo") = SideBounds(d, s1)
    BY <2>2 DEF SideBounds
  <2> QED
    BY <1>1, <1>3, <2>1, <2>2, <2>3, <2>4
<1> QED
  BY <1>2, <1>3

LEMMA TermsAre ==
  ASSUME NEW d, d.syntax \in Semver, NEW alternative, \A t \in alternative : TermRead(d.syntax, t)
  PROVE  /\ \A s \in Said(alternative) : s.op \in SideOps /\ s.spec \in Partials
         /\ \A c : c \in Terms(d, alternative) <=> \E s \in Said(alternative) : c \in SideBounds(d, s)
<1> DEFINE made(t) == CASE t.op = "-" -> Hyphen(t.spec, t.high)
                        [] t.op # "-" /\ d.syntax \in Semver -> Expand(t.op, t.spec, d.syntax = "cargo")
                        [] OTHER -> Clauses(t.op, t.spec)
<1>1. Terms(d, alternative) = UNION {made(t) : t \in alternative}
  BY DEF Terms
<1>2. \A t \in alternative : /\ \A s \in Sides(t) : s.op \in SideOps /\ s.spec \in Partials
                             /\ made(t) = UNION {SideBounds(d, s) : s \in Sides(t)}
  BY SidesAre
<1> HIDE DEF made
<1>3. \A s : s \in Said(alternative) <=> \E t \in alternative : s \in Sides(t)
  BY DEF Said
<1>4. \A c : c \in Terms(d, alternative) <=> \E t \in alternative : c \in made(t)
  BY <1>1
<1>5. \A t \in alternative : \A c : c \in made(t) <=> \E s \in Sides(t) : c \in SideBounds(d, s)
  BY <1>2
<1> QED
  BY <1>2, <1>3, <1>4, <1>5

LEMMA SemverAllowed ==
  ASSUME NEW d, d.syntax \in Semver, NEW alternative, \A t \in alternative : TermRead(d.syntax, t),
         \A s, u \in Said(alternative) : u.spec.pre # <<>> /\ u.spec.num # s.spec.num =>
           \A c \in SideBounds(d, s) : c.ver.num # u.spec.num,
         NEW v \in SemverVersions
  PROVE  SetAllows(Terms(d, alternative), v)
           <=> (\A s \in Said(alternative) : Meant(d, s, v)) /\ MeansPrerelease(d, Said(alternative), v)
<1> DEFINE said == Said(alternative)
<1>1. \A s \in said : s.op \in SideOps /\ s.spec \in Partials
  BY TermsAre
<1>2. \A c : c \in Terms(d, alternative) <=> \E s \in said : c \in SideBounds(d, s)
  BY TermsAre
<1>0. \A s, u \in said : u.spec.pre # <<>> /\ u.spec.num # s.spec.num => \A c \in SideBounds(d, s) : c.ver.num # u.spec.num
  OBVIOUS
<1>3. \A s \in said : /\ \A c \in SideBounds(d, s) : c.ver.pre # <<>> => s.spec.pre # <<>> /\ c.ver.num = s.spec.num
                      /\ s.spec.pre # <<>> => \E c \in SideBounds(d, s) : c.ver.pre # <<>> /\ c.ver.num = s.spec.num
  <2>1. (d.syntax = "cargo") \in BOOLEAN
    OBVIOUS
  <2> HIDE DEF said
  <2> QED
    BY <1>1, <2>1, SideNames DEF SideBounds
<1>4. ASSUME NEW s \in said, Clear(SideBounds(d, s), s.spec, v)
      PROVE  Held(SideBounds(d, s), v) <=> Meant(d, s, v)
  <2>1. (d.syntax = "cargo") \in BOOLEAN
    OBVIOUS
  <2>2. Meant(d, s, v) <=> MeantSemver(Stands(s.op, s.spec, d.syntax = "cargo"), s.spec, v)
    BY DEF Meant, Stands
  <2> HIDE DEF said
  <2> QED
    BY <1>1, <1>4, <2>1, <2>2, SideMeant DEF SideBounds
<1> HIDE DEF said
<1>5. SetAllows(Terms(d, alternative), v)
        <=> (\A s \in said : Held(SideBounds(d, s), v))
            /\ (v.pre # <<>> => \E s \in said : \E c \in SideBounds(d, s) : c.ver.pre # <<>> /\ c.ver.num = v.num)
  BY <1>2 DEF SetAllows, Held
<1>6. (\E s \in said : \E c \in SideBounds(d, s) : c.ver.pre # <<>> /\ c.ver.num = v.num)
        <=> \E s \in said : s.spec.pre # <<>> /\ s.spec.num = v.num
  BY <1>3
<1>7. MeansPrerelease(d, said, v) <=> (v.pre # <<>> => \E s \in said : s.spec.pre # <<>> /\ s.spec.num = v.num)
  BY DEF MeansPrerelease
<1>8. ASSUME v.pre = <<>> \/ \E u \in said : u.spec.pre # <<>> /\ u.spec.num = v.num
      PROVE  \A s \in said : Held(SideBounds(d, s), v) <=> Meant(d, s, v)
  <2> SUFFICES ASSUME NEW s \in said PROVE Clear(SideBounds(d, s), s.spec, v)
    BY <1>4
  <2>1. CASE v.pre = <<>>
    BY <2>1 DEF Clear
  <2>2. CASE \E u \in said : u.spec.pre # <<>> /\ u.spec.num = v.num
    BY <1>0, <2>2 DEF Clear
  <2> QED
    BY <1>8, <2>1, <2>2
<1> QED
  BY <1>5, <1>6, <1>7, <1>8 DEF said

-----------------------------------------------------------------------------
(* Requirements of PyPI and Poetry: a bound is a release with one of its    *)
(* pieces raised, and nothing of its own is below it.                       *)

LEMMA NeverBelow ==
  ASSUME NEW f \in [Pos -> Int], NEW c \in Int, Leads(f, c), \A i \in Pos : f[i] >= 0
  PROVE  c >= 0
<1>1. c = 0 \/ \E k \in Pos : f[k] = c
  BY DEF Leads
<1> QED
  BY <1>1

LEMMA FirstDecides ==
  ASSUME NEW f \in [Pos -> Int], NEW c \in Int, Leads(f, c)
  PROVE  /\ f[1] # 0 => c = f[1]
         /\ f[1] = 0 /\ f[2] # 0 => c = f[2]
<1>1. 1 \in Pos /\ 2 \in Pos
  BY DEF Pos
<1>2. (\A j \in 1..(1 - 1) : f[j] = 0) /\ (f[1] = 0 => \A j \in 1..(2 - 1) : f[j] = 0)
  <2>1. (\A j \in 1..(1 - 1) : FALSE) /\ (\A j \in 1..(2 - 1) : j = 1)
    OBVIOUS
  <2> QED
    BY <2>1
<1> QED
  BY <1>1, <1>2, LeadsAt

LEMMA SameMeansEqual ==
  ASSUME NEW a \in Seq(Nat), NEW b \in Seq(Nat)
  PROVE  CompareRelease(a, b) = 0 <=> Trimmed(a) = Trimmed(b)
<1> DEFINE x == Trimmed(a)
           y == Trimmed(b)
           f == ReleaseAt(a, b)
<1>1. CompareRelease(a, b) \in Int /\ Leads(f, CompareRelease(a, b))
  BY ReleaseLeads
<1>2. \A i \in Pos : f[i] = CompareNumbers(Piece(a, i), Piece(b, i)) /\ Piece(a, i) \in Int /\ Piece(b, i) \in Int
  <2>1. \A i \in Pos : Piece(a, i) \in Nat /\ Piece(b, i) \in Nat
    BY PieceIs
  <2> QED
    BY <2>1, ReleaseAtIs
<1>3. \A i \in Pos : /\ (i <= Len(x) => x[i] = Piece(a, i)) /\ (i > Len(x) => Piece(a, i) = 0) /\ (i = Len(x) => Piece(a, i) # 0)
                     /\ (i <= Len(y) => y[i] = Piece(b, i)) /\ (i > Len(y) => Piece(b, i) = 0) /\ (i = Len(y) => Piece(b, i) # 0)
  BY PieceIs
<1>4. x \in Seq(Nat) /\ y \in Seq(Nat)
  BY TrimmedIs
<1>5. Len(x) \in Nat /\ Len(y) \in Nat
  BY <1>4
<1>6. ASSUME x = y PROVE CompareRelease(a, b) = 0
  <2>1. \A i \in Pos : Piece(a, i) = Piece(b, i)
    <3> SUFFICES ASSUME NEW i \in Pos PROVE Piece(a, i) = Piece(b, i)
      OBVIOUS
    <3>1. i <= Len(x) \/ i > Len(x)
      BY <1>5 DEF Pos
    <3> HIDE DEF x, y
    <3> QED
      BY <1>3, <1>6, <3>1
  <2>2. \A i \in Pos : f[i] = 0
    BY <1>2, <2>1, CompareNumbersIs
  <2> QED
    BY <1>1, <2>2, LeadsNone
<1>7. ASSUME CompareRelease(a, b) = 0 PROVE x = y
  <2>1. \A i \in Pos : f[i] = 0
    BY <1>1, <1>7 DEF Leads
  <2>2. \A i \in Pos : Piece(a, i) = Piece(b, i)
    BY <1>2, <2>1, CompareNumbersIs
  <2> HIDE DEF x, y, f
  <2>3. ~(Len(x) < Len(y))
    <3> SUFFICES ASSUME Len(x) < Len(y) PROVE FALSE
      OBVIOUS
    <3>1. Len(y) \in Pos /\ Len(y) > Len(x)
      BY <1>5 DEF Pos
    <3> QED
      BY <1>3, <2>2, <3>1
  <2>4. ~(Len(y) < Len(x))
    <3> SUFFICES ASSUME Len(y) < Len(x) PROVE FALSE
      OBVIOUS
    <3>1. Len(x) \in Pos /\ Len(x) > Len(y)
      BY <1>5 DEF Pos
    <3> QED
      BY <1>3, <2>2, <3>1
  <2>5. Len(x) = Len(y)
    BY <1>5, <2>3, <2>4
  <2>6. \A i \in 1..Len(x) : x[i] = y[i]
    <3> SUFFICES ASSUME NEW i \in 1..Len(x) PROVE x[i] = y[i]
      OBVIOUS
    <3>1. i \in Pos /\ i <= Len(x) /\ i <= Len(y)
      BY <1>5, <2>5 DEF Pos
    <3> QED
      BY <1>3, <2>2, <3>1
  <2> QED
    BY <1>4, <2>5, <2>6, SeqEqual
<1> QED
  BY <1>6, <1>7

LEMMA PlainIs ==
  ASSUME NEW e \in Nat, NEW r \in Seq(Nat), r # <<>>
  PROVE  /\ Plain(e, r) \in PEPVersions /\ Plain(e, r).epoch = e /\ Plain(e, r).release = r
         /\ ~Prerelease(Plain(e, r)) /\ PreRank(Plain(e, r)) = 3
         /\ Plain(e, r).num = 0 /\ Plain(e, r).post = NotSet /\ Plain(e, r).dev = NotSet /\ Plain(e, r).local = <<>>
<1>1. <<>> \in Seq(Segments) /\ r \in Seq(Nat) \ {<<>>}
  OBVIOUS
<1>2. Plain(e, r) \in PEPVersions
  BY <1>1 DEF Plain, PEPVersions
<1>3. /\ Plain(e, r).epoch = e /\ Plain(e, r).release = r /\ Plain(e, r).kind = ""
      /\ Plain(e, r).num = 0 /\ Plain(e, r).post = NotSet /\ Plain(e, r).dev = NotSet /\ Plain(e, r).local = <<>>
  BY DEF Plain
<1> HIDE DEF Plain
<1>4. ~Prerelease(Plain(e, r)) /\ PreRank(Plain(e, r)) = 3
  BY <1>3 DEF Prerelease, PreRank
<1> QED
  BY <1>2, <1>3, <1>4

LEMMA EmptyIsBelow ==
  ASSUME NEW s \in Seq(Segments), NEW nf \in BOOLEAN
  PROVE  CompareSegments(s, <<>>, nf) >= 0
<1>1. <<>> \in Seq(Segments) /\ Len(<<>>) = 0 /\ Len(s) \in Nat
  OBVIOUS
<1>2. \A i \in Pos : SegmentAt(s, <<>>, nf)[i] >= 0
  <2> SUFFICES ASSUME NEW i \in Pos PROVE SegmentAt(s, <<>>, nf)[i] >= 0
    OBVIOUS
  <2>1. ~(i <= 0)
    BY DEF Pos
  <2>2. SegmentAt(s, <<>>, nf)[i] = IF i <= Len(s) THEN 1 ELSE 0
    BY <1>1, <2>1, SegmentAtIs
  <2> QED
    BY <2>2
<1>3. SegmentAt(s, <<>>, nf) \in [Pos -> Int] /\ CompareSegments(s, <<>>, nf) \in Int
      /\ Leads(SegmentAt(s, <<>>, nf), CompareSegments(s, <<>>, nf))
  BY <1>1, SegmentAtInt, SegmentsLead
<1> QED
  BY <1>2, <1>3, NeverBelow

LEMMA BelowPlain ==
  ASSUME NEW v \in PEPVersions, NEW r \in Seq(Nat), r # <<>>
  PROVE  Satisfies(Clause("<", Plain(0, r), FALSE), v) <=> v.epoch = 0 /\ CompareRelease(v.release, r) < 0
<1> DEFINE b == Plain(0, r)
           f == Padded(Told(v, b))
           value == ComparePEP440(v, b)
           level == CompareRelease(v.release, r)
<1>1. /\ b \in PEPVersions /\ b.epoch = 0 /\ b.release = r /\ ~Prerelease(b) /\ PreRank(b) = 3
      /\ b.num = 0 /\ b.post = NotSet /\ b.dev = NotSet /\ b.local = <<>>
  <2>1. 0 \in Nat
    OBVIOUS
  <2> QED
    BY <2>1, PlainIs
<1>2. Satisfies(Clause("<", b, FALSE), v) <=> value < 0 /\ ~(Prerelease(v) /\ ~Prerelease(b) /\ SameRelease(v, b))
  BY Zenon DEF Satisfies, Clause
<1> HIDE DEF b
<1>3. f \in [Pos -> Int] /\ value \in Int /\ Leads(f, value)
  BY <1>1, PEPLeads
<1>4. /\ v.epoch \in Nat /\ v.release \in Seq(Nat) /\ v.num \in Nat /\ v.local \in Seq(Segments)
      /\ v.post \in Nat \cup {NotSet} /\ v.dev \in Nat \cup {NotSet}
  BY PEPParts
<1>5. level \in Int
  BY <1>4, ReleaseLeads
<1>6. /\ \A i \in Pos : i > 7 => f[i] = 0
      /\ f[1] = CompareNumbers(v.epoch, 0) /\ f[2] = level
      /\ f[3] = CompareNumbers(PreRank(v), 3) /\ f[4] = CompareNumbers(v.num, 0)
      /\ f[5] = CompareOptional(v.post, NotSet, FALSE) /\ f[6] = CompareOptional(v.dev, NotSet, TRUE)
      /\ f[7] = CompareSegments(v.local, <<>>, FALSE)
  <2>1. 1 \in Pos /\ 2 \in Pos /\ 3 \in Pos /\ 4 \in Pos /\ 5 \in Pos /\ 6 \in Pos /\ 7 \in Pos
    BY DEF Pos
  <2>2. \A i \in Pos : i <= 7 => f[i] = Told(v, b)[i]
    BY <1>1, PEPLeads
  <2>3. /\ f[1] = Told(v, b)[1] /\ f[2] = Told(v, b)[2] /\ f[3] = Told(v, b)[3] /\ f[4] = Told(v, b)[4]
        /\ f[5] = Told(v, b)[5] /\ f[6] = Told(v, b)[6] /\ f[7] = Told(v, b)[7]
    BY <2>1, <2>2
  <2>4. \A i \in Pos : i > 7 => f[i] = 0
    BY <1>1, PEPLeads
  <2> HIDE DEF f
  <2> QED
    <3>1. /\ Told(v, b)[1] = CompareNumbers(v.epoch, b.epoch) /\ Told(v, b)[2] = CompareRelease(v.release, b.release)
          /\ Told(v, b)[3] = CompareNumbers(PreRank(v), PreRank(b)) /\ Told(v, b)[4] = CompareNumbers(v.num, b.num)
          /\ Told(v, b)[5] = CompareOptional(v.post, b.post, FALSE) /\ Told(v, b)[6] = CompareOptional(v.dev, b.dev, TRUE)
          /\ Told(v, b)[7] = CompareSegments(v.local, b.local, FALSE)
      BY <1>1, ToldIs, Zenon
    <3>2. CompareRelease(v.release, b.release) = level
      BY <1>1, Zenon
    <3> HIDE DEF level
    <3> QED
      BY <1>1, <2>3, <2>4, <3>1, <3>2, Zenon
<1> HIDE DEF f, value, level
<1>7. v.epoch # 0 => value > 0
  <2>1. CompareNumbers(v.epoch, 0) > 0 <=> v.epoch > 0
    BY <1>4, CompareNumbersIs
  <2>2. v.epoch # 0 => v.epoch > 0
    BY <1>4
  <2>3. v.epoch # 0 => f[1] > 0
    BY <1>6, <2>1, <2>2
  <2>4. f[1] # 0 => value = f[1]
    BY <1>3, FirstDecides
  <2> QED
    BY <2>3, <2>4
<1>8. v.epoch = 0 => CompareNumbers(v.epoch, 0) = 0
  BY DEF CompareNumbers
<1>9. v.epoch = 0 /\ level # 0 => value = level
  BY <1>3, <1>6, <1>8, FirstDecides
<1>10. SameRelease(v, b) <=> v.epoch = 0 /\ level = 0
  BY <1>1, <1>4, SameMeansEqual DEF SameRelease, level
<1>11. ASSUME v.epoch = 0, level = 0, ~Prerelease(v)
       PROVE  value >= 0
  <2>1. v.kind = "" /\ v.dev = NotSet
    BY <1>11 DEF Prerelease
  <2>2. PreRank(v) = 3
    BY <2>1 DEF PreRank
  <2>3. f[1] = 0 /\ f[2] = 0 /\ f[3] = 0
    BY <1>6, <1>8, <1>11, <2>2 DEF CompareNumbers
  <2>4. f[4] >= 0
    BY <1>4, <1>6 DEF CompareNumbers
  <2>5. f[5] >= 0
    <3>1. (v.post = NotSet => f[5] = 0) /\ (v.post # NotSet => f[5] = 1)
      <4>1. NotSet \in Nat \cup {NotSet}
        OBVIOUS
      <4> QED
        BY <1>4, <1>6, <4>1, OptionalIs
    <3> QED
      BY <3>1
  <2>6. f[6] = 0
    <3>1. NotSet \in Nat \cup {NotSet}
      OBVIOUS
    <3> QED
      BY <1>4, <1>6, <2>1, <3>1, OptionalIs
  <2>7. f[7] >= 0
    BY <1>4, <1>6, EmptyIsBelow
  <2>8. \A i \in Pos : i = 1 \/ i = 2 \/ i = 3 \/ i = 4 \/ i = 5 \/ i = 6 \/ i = 7 \/ i > 7
    BY DEF Pos
  <2>9. \A i \in Pos : f[i] >= 0
    <3>1. f[1] >= 0 /\ f[2] >= 0 /\ f[3] >= 0 /\ f[4] >= 0 /\ f[5] >= 0 /\ f[6] >= 0 /\ f[7] >= 0
      BY <2>3, <2>4, <2>5, <2>6, <2>7
    <3>2. \A i \in Pos : i > 7 => f[i] >= 0
      BY <1>6
    <3> QED
      BY <2>8, <3>1, <3>2
  <2> QED
    BY <1>3, <2>9, NeverBelow
<1>12. Satisfies(Clause("<", b, FALSE), v) <=> v.epoch = 0 /\ level < 0
  <2>1. CASE v.epoch # 0
    <3>1. ~(value < 0)
      BY <1>3, <1>7, <2>1
    <3> QED
      BY <1>2, <2>1, <3>1, Zenon
  <2>2. CASE v.epoch = 0 /\ level # 0
    <3>1. ~SameRelease(v, b) /\ value = level
      BY <1>9, <1>10, <2>2
    <3> QED
      BY <1>2, <2>2, <3>1, Zenon
  <2>3. CASE v.epoch = 0 /\ level = 0
    <3>1. SameRelease(v, b) /\ ~(level < 0)
      BY <1>10, <2>3
    <3>2. ~Prerelease(v) => ~(value < 0)
      BY <1>3, <1>11, <2>3
    <3> QED
      BY <1>1, <1>2, <3>1, <3>2, Zenon
  <2> QED
    BY <2>1, <2>2, <2>3
<1> QED
  BY <1>12 DEF b, level

LEMMA BumpedIs ==
  ASSUME NEW release \in Seq(Nat), NEW i \in 1..Len(release)
  PROVE  \E r \in Seq(Nat) :
           /\ Bumped(release, i) = Plain(0, r) /\ r # <<>>
           /\ \A j \in Pos : Piece(r, j) = IF j < i THEN Piece(release, j) ELSE IF j = i THEN Piece(release, j) + 1 ELSE 0
<1> DEFINE short == SubSeq(release, 1, i)
           r == [short EXCEPT ![i] = @ + 1]
<1>1. Bumped(release, i) = Plain(0, r)
  BY DEF Bumped
<1>2. Len(release) \in Nat /\ \A j \in 1..Len(release) : release[j] \in Nat
  OBVIOUS
<1>3. short \in Seq(Nat) /\ Len(short) = i /\ \A j \in 1..i : short[j] = release[j]
  BY <1>2
<1> HIDE DEF short
<1>4. r \in Seq(Nat) /\ Len(r) = i /\ \A j \in 1..i : r[j] = IF j = i THEN release[j] + 1 ELSE release[j]
  <2>1. \A j \in 1..i : short[j] \in Nat /\ release[j] \in Nat
    BY <1>2, <1>3
  <2>2. DOMAIN short = 1..i /\ i \in 1..i /\ i \in Nat
    BY <1>3
  <2>3. r = [j \in 1..i |-> IF j = i THEN short[j] + 1 ELSE short[j]]
    BY <2>2
  <2> HIDE DEF r
  <2>4. \A j \in 1..i : r[j] = IF j = i THEN release[j] + 1 ELSE release[j]
    BY <1>3, <2>3
  <2>5. r \in [1..i -> Nat]
    BY <2>1, <2>3
  <2>6. r \in Seq(Nat) /\ Len(r) = i
    BY <2>2, <2>5
  <2> QED
    BY <2>4, <2>6
<1> HIDE DEF r
<1>5. r # <<>>
  BY <1>4
<1>6. ASSUME NEW j \in Pos
      PROVE  Piece(r, j) = IF j < i THEN Piece(release, j) ELSE IF j = i THEN Piece(release, j) + 1 ELSE 0
  <2>1. Piece(r, j) = IF j <= i THEN r[j] ELSE 0
    BY <1>4 DEF Piece
  <2>2. Piece(release, j) = IF j <= Len(release) THEN release[j] ELSE 0
    BY DEF Piece
  <2>3. j <= i => j \in 1..i /\ j <= Len(release)
    BY <1>2 DEF Pos
  <2> QED
    BY <1>2, <1>4, <2>1, <2>2, <2>3 DEF Pos
<1> QED
  BY <1>1, <1>4, <1>5, <1>6

LEMMA RaisedWindow ==
  ASSUME NEW s \in PEPVersions, s.epoch = 0, NEW i \in 1..Len(s.release), NEW v \in PEPVersions,
         ComparePEP440(v, s) >= 0
  PROVE  Satisfies(Clause("<", Bumped(s.release, i), FALSE), v)
           <=> v.epoch = s.epoch /\ Agree(v.release, s.release, i)
<1>1. /\ v.epoch \in Nat /\ v.release \in Seq(Nat) /\ s.release \in Seq(Nat) /\ i \in Pos /\ i \in Nat
  <2>1. /\ v.epoch \in Nat /\ v.release \in Seq(Nat) /\ s.release \in Seq(Nat) /\ Len(s.release) \in Nat
    BY PEPParts
  <2> QED
    BY <2>1 DEF Pos
<1>2. PICK r \in Seq(Nat) :
        /\ Bumped(s.release, i) = Plain(0, r) /\ r # <<>>
        /\ \A j \in Pos : Piece(r, j) = IF j < i THEN Piece(s.release, j) ELSE IF j = i THEN Piece(s.release, j) + 1 ELSE 0
  BY <1>1, BumpedIs
<1> DEFINE level == CompareRelease(v.release, s.release)
           above == CompareRelease(v.release, r)
           f == ReleaseAt(v.release, s.release)
           g == ReleaseAt(v.release, r)
           x(j) == Piece(v.release, j)
           y(j) == Piece(s.release, j)
<1>3. Satisfies(Clause("<", Bumped(s.release, i), FALSE), v) <=> v.epoch = 0 /\ above < 0
  BY <1>2, BelowPlain
<1>4. \A j \in Pos : x(j) \in Nat /\ y(j) \in Nat
  BY <1>1, PieceIs
<1>5. /\ f \in [Pos -> Int] /\ \A j \in Pos : f[j] = CompareNumbers(x(j), y(j))
      /\ g \in [Pos -> Int] /\ \A j \in Pos : g[j] = CompareNumbers(x(j), Piece(r, j))
  BY <1>1, <1>2, ReleaseAtIs
<1>6. level \in Int /\ Leads(f, level) /\ above \in Int /\ Leads(g, above)
  BY <1>1, <1>2, ReleaseLeads
<1>7. Agree(v.release, s.release, i) <=> \A j \in 1..i : x(j) = y(j)
  BY DEF Agree
<1>8. v.epoch = 0 => level >= 0
  <2> SUFFICES ASSUME v.epoch = 0, level < 0 PROVE FALSE
    BY <1>6
  <2> DEFINE t == Padded(Told(v, s))
  <2>1. t \in [Pos -> Int] /\ ComparePEP440(v, s) \in Int /\ Leads(t, ComparePEP440(v, s))
    BY PEPLeads
  <2>2. 1 \in Pos /\ 2 \in Pos /\ 1 <= 7 /\ 2 <= 7
    BY DEF Pos
  <2>3. t[1] = Told(v, s)[1] /\ t[2] = Told(v, s)[2]
    BY <2>2, PEPLeads
  <2> HIDE DEF t
  <2>4. t[1] = 0
    <3>1. Told(v, s)[1] = CompareNumbers(0, 0)
      BY ToldIs
    <3> QED
      BY <2>3, <3>1 DEF CompareNumbers
  <2>5. t[2] = level
    BY <2>3, ToldIs
  <2>6. ComparePEP440(v, s) = level
    BY <1>6, <2>1, <2>4, <2>5, FirstDecides
  <2> QED
    BY <1>6, <2>1, <2>6
<1>9. \A j \in Pos : Piece(r, j) = IF j < i THEN y(j) ELSE IF j = i THEN y(j) + 1 ELSE 0
  BY <1>2
<1> HIDE DEF level, above, f, g, x, y
<1>10. \A j \in Pos : /\ (f[j] > 0 <=> x(j) > y(j)) /\ (f[j] < 0 <=> x(j) < y(j)) /\ (f[j] = 0 <=> x(j) = y(j))
                      /\ j < i => g[j] = f[j]
                      /\ j = i => (g[j] < 0 <=> x(j) < y(j) + 1) /\ (g[j] > 0 <=> x(j) > y(j) + 1) /\ (g[j] = 0 <=> x(j) = y(j) + 1)
                      /\ j > i => g[j] >= 0
  <2> SUFFICES ASSUME NEW j \in Pos
               PROVE  /\ (f[j] > 0 <=> x(j) > y(j)) /\ (f[j] < 0 <=> x(j) < y(j)) /\ (f[j] = 0 <=> x(j) = y(j))
                      /\ j < i => g[j] = f[j]
                      /\ j = i => (g[j] < 0 <=> x(j) < y(j) + 1) /\ (g[j] > 0 <=> x(j) > y(j) + 1) /\ (g[j] = 0 <=> x(j) = y(j) + 1)
                      /\ j > i => g[j] >= 0
    BY Zenon
  <2>1. x(j) \in Nat /\ y(j) \in Nat
    BY <1>4
  <2>2. f[j] = CompareNumbers(x(j), y(j)) /\ g[j] = CompareNumbers(x(j), Piece(r, j))
    BY <1>5
  <2>3. Piece(r, j) = IF j < i THEN y(j) ELSE IF j = i THEN y(j) + 1 ELSE 0
    BY <1>9
  <2>4. i \in Nat /\ j \in Nat
    BY <1>1 DEF Pos
  <2> QED
    BY <2>1, <2>2, <2>3, <2>4 DEF CompareNumbers
<1>11. ASSUME v.epoch = 0, \A j \in 1..i : x(j) = y(j)
       PROVE  above < 0
  <2>1. \A j \in 1..(i - 1) : j \in Pos /\ j < i /\ j \in 1..i
    BY <1>1 DEF Pos
  <2>2. \A j \in 1..(i - 1) : g[j] = 0
    BY <1>10, <1>11, <2>1
  <2>3. i \in 1..i /\ ~(i < i)
    BY <1>1 DEF Pos
  <2>4. x(i) = y(i) /\ x(i) \in Nat
    BY <1>1, <1>4, <1>11, <2>3
  <2>5. g[i] < 0
    BY <1>1, <1>10, <2>4
  <2>6. g[i] # 0 /\ g[i] \in Int
    BY <1>1, <1>5, <2>5
  <2>7. above = g[i]
    BY <1>1, <1>5, <1>6, <2>2, <2>6, LeadsAt
  <2> QED
    BY <2>5, <2>7
<1>12. ASSUME v.epoch = 0, above < 0
       PROVE  \A j \in 1..i : x(j) = y(j)
  <2> DEFINE A == {j \in 1..i : x(j) # y(j)}
  <2>1. SUFFICES ASSUME A # {} PROVE FALSE
    OBVIOUS
  <2>2. A \in SUBSET Nat
    OBVIOUS
  <2> HIDE DEF A
  <2>3. PICK k \in A : \A j \in A : k <= j
    BY <2>1, <2>2, LeastOf
  <2>4. k \in 1..i /\ x(k) # y(k) /\ k \in Pos /\ k \in Nat
    BY <2>3 DEF A, Pos
  <2>5. \A j \in 1..(k - 1) : j \in Pos /\ j < i /\ x(j) = y(j)
    <3> SUFFICES ASSUME NEW j \in 1..(k - 1) PROVE j \in Pos /\ j < i /\ x(j) = y(j)
      OBVIOUS
    <3>1. j \in Pos /\ j \in 1..i /\ j < i /\ ~(k <= j)
      BY <1>1, <2>4 DEF Pos
    <3>2. j \notin A
      BY <2>3, <3>1
    <3> QED
      BY <3>1, <3>2 DEF A
  <2>6. \A j \in 1..(k - 1) : f[j] = 0 /\ g[j] = 0
    BY <1>10, <2>5
  <2>7. f[k] # 0
    BY <1>10, <2>4
  <2>8. level = f[k]
    BY <1>5, <1>6, <2>4, <2>6, <2>7, LeadsAt
  <2>9. x(k) > y(k)
    <3>1. f[k] \in Int /\ f[k] >= 0
      BY <1>5, <1>8, <1>12, <2>4, <2>8
    <3> QED
      BY <1>10, <2>4, <2>7, <3>1
  <2>10. CASE k < i
    <3>1. g[k] > 0 /\ g[k] # 0
      <4>1. g[k] = f[k] /\ f[k] > 0
        BY <1>10, <2>4, <2>9, <2>10
      <4> QED
        BY <1>5, <2>4, <4>1
    <3>2. above = g[k]
      BY <1>5, <1>6, <2>4, <2>6, <3>1, LeadsAt
    <3> QED
      BY <1>6, <1>12, <3>1, <3>2
  <2>11. CASE k = i
    <3>1. g[k] >= 0
      <4>1. x(k) \in Nat /\ y(k) \in Nat
        BY <1>4, <2>4
      <4>2. x(k) > y(k) + 1 \/ x(k) = y(k) + 1
        BY <2>9, <4>1
      <4>3. g[k] > 0 \/ g[k] = 0
        BY <1>10, <2>4, <2>11, <4>2
      <4>4. g[k] \in Int
        BY <1>5, <2>4
      <4> QED
        BY <4>3, <4>4
    <3>2. \A j \in Pos : g[j] >= 0
      <4> SUFFICES ASSUME NEW j \in Pos PROVE g[j] >= 0
        OBVIOUS
      <4>1. j \in 1..(k - 1) \/ j = k \/ j > i
        BY <1>1, <2>4, <2>11 DEF Pos
      <4> QED
        BY <1>10, <2>6, <3>1, <4>1
    <3>3. above >= 0
      BY <1>5, <1>6, <3>2, NeverBelow
    <3> QED
      BY <1>6, <1>12, <3>3
  <2> QED
    BY <1>1, <2>4, <2>10, <2>11
<1>13. v.epoch = 0 /\ above < 0 <=> v.epoch = s.epoch /\ \A j \in 1..i : x(j) = y(j)
  BY <1>11, <1>12, Zenon
<1> QED
  BY <1>3, <1>7, <1>13, Zenon DEF above, x, y

LEMMA PrefixOf ==
  ASSUME NEW x \in Seq(Nat), NEW m \in Nat, m <= Len(x)
  PROVE  SubSeq(x, 1, m) \in Seq(Nat) /\ Len(SubSeq(x, 1, m)) = m /\ \A i \in 1..m : SubSeq(x, 1, m)[i] = x[i]
<1>1. \A i \in 1..Len(x) : x[i] \in Nat
  OBVIOUS
<1> QED
  BY <1>1

(* The piece a caret keeps is the one its bound is made of.                 *)
LEMMA SignificantPEP ==
  ASSUME NEW release \in Seq(Nat), release # <<>>
  PROVE  /\ Significant(release, Len(release)) \in 1..Len(release)
         /\ CaretBound(release) = Bumped(release, Significant(release, Len(release)))
<1> DEFINE S == {i \in DOMAIN release : release[i] # 0}
           T == {i \in 1..Len(release) : release[i] # 0}
           least == CHOOSE i \in S : \A j \in S : i <= j
<1>1. Len(release) \in Nat /\ Len(release) > 0 /\ DOMAIN release = 1..Len(release)
  OBVIOUS
<1>2. S = T
  BY <1>1
<1>3. Significant(release, Len(release)) = IF S = {} THEN Len(release) ELSE least
  <2>1. Significant(release, Len(release)) = IF T = {} THEN Len(release) ELSE Leftmost(T)
    BY DEF Significant
  <2>2. Leftmost(S) = least
    BY DEF Leftmost
  <2> HIDE DEF S, T, least
  <2> QED
    BY <1>2, <2>1, <2>2
<1>4. CaretBound(release) = Bumped(release, IF S = {} THEN Len(release) ELSE least)
  BY DEF CaretBound
<1>5. S # {} => least \in 1..Len(release)
  <2> SUFFICES ASSUME S # {} PROVE least \in 1..Len(release)
    OBVIOUS
  <2>1. S \in SUBSET Nat /\ \A i \in S : i \in 1..Len(release)
    BY <1>1
  <2> HIDE DEF S
  <2>2. \E i \in S : \A j \in S : i <= j
    BY <2>1, LeastOf
  <2>3. least \in S
    BY <2>2
  <2> QED
    BY <2>1, <2>3
<1> HIDE DEF S, least
<1>6. Len(release) \in 1..Len(release)
  BY <1>1
<1> QED
  BY <1>3, <1>4, <1>5, <1>6

LEMMA PrefixIs ==
  ASSUME NEW v \in PEPVersions, NEW spec \in PEPVersions, NEW n \in Nat, NEW e, NEW r \in Seq(Nat),
         spec.epoch = e, n <= Len(spec.release), Len(r) = n, \A i \in 1..n : r[i] = spec.release[i],
         NEW w, w.epoch = e, w.release = r
  PROVE  PrefixMatch(v, w) <=> v.epoch = spec.epoch /\ Agree(v.release, spec.release, n)
<1>1. DOMAIN r = 1..n
  OBVIOUS
<1>2. Len(spec.release) \in Nat
  BY PEPParts
<1>3. \A i \in 1..n : Piece(spec.release, i) = r[i]
  BY <1>2 DEF Piece
<1>4. \A i \in 1..n : (IF i <= Len(v.release) THEN v.release[i] ELSE 0) = Piece(v.release, i)
  BY DEF Piece
<1>5. PrefixMatch(v, w) <=> v.epoch = e /\ \A i \in 1..n : (IF i <= Len(v.release) THEN v.release[i] ELSE 0) = r[i]
  BY <1>1 DEF PrefixMatch
<1> QED
  BY <1>3, <1>4, <1>5 DEF Agree

MetBy(clauses, v) == \A c \in clauses : Satisfies(c, v)

(* Each operator's clauses say what the operator means.                     *)
LEMMA ClausesMeant ==
  ASSUME NEW op \in PEPOps, NEW s \in PEPVersions, NEW v \in PEPVersions,
         op = "~=" => Len(s.release) > 1, op \in {"^", "~"} => s.epoch = 0
  PROVE  MetBy(Clauses(op, s), v) <=> MeantPEP440(op, s, v)
<1> DEFINE level == ComparePEP440(v, s)
           n == Len(s.release)
           same(k) == v.epoch = s.epoch /\ Agree(v.release, s.release, k)
<1>1. /\ s.release \in Seq(Nat) /\ n \in Nat /\ n > 0 /\ s.release # <<>> /\ level \in Int
      /\ \A i \in 1..n : s.release[i] \in Nat
  <2>1. s.release \in Seq(Nat) /\ n \in Nat /\ n > 0 /\ s.release # <<>>
    BY PEPParts
  <2>2. level \in Int
    BY PEPLeads
  <2> QED
    BY <2>1, <2>2
<1>2. Satisfies(Clause(">=", s, FALSE), v) <=> level >= 0
  <2>1. Clause(">=", s, FALSE).op = ">=" /\ Clause(">=", s, FALSE).spec = s
    BY DEF Clause
  <2> QED
    BY <2>1 DEF Satisfies, Meets
<1>3. ASSUME NEW i \in 1..n, s.epoch = 0
      PROVE  MetBy({Clause(">=", s, FALSE), Clause("<", Bumped(s.release, i), FALSE)}, v) <=> level >= 0 /\ same(i)
  <2>1. MetBy({Clause(">=", s, FALSE), Clause("<", Bumped(s.release, i), FALSE)}, v)
          <=> level >= 0 /\ Satisfies(Clause("<", Bumped(s.release, i), FALSE), v)
    BY <1>2 DEF MetBy
  <2>2. level >= 0 => (Satisfies(Clause("<", Bumped(s.release, i), FALSE), v) <=> same(i))
    BY <1>3, RaisedWindow
  <2> QED
    BY <2>1, <2>2, Zenon
<1>4. CASE op = "^"
  <2>1. Clauses(op, s) = {Clause(">=", s, FALSE), Clause("<", Bumped(s.release, Significant(s.release, n)), FALSE)}
    BY <1>1, <1>4, SignificantPEP DEF Clauses
  <2>2. Significant(s.release, n) \in 1..n
    BY <1>1, SignificantPEP
  <2>3. MeantPEP440(op, s, v) <=> level >= 0 /\ same(Significant(s.release, n))
    BY <1>4 DEF MeantPEP440
  <2> HIDE DEF level, n, same
  <2> QED
    BY <1>3, <1>4, <2>1, <2>2, <2>3
<1>5. CASE op = "~"
  <2>1. Clauses(op, s) = {Clause(">=", s, FALSE), Clause("<", Bumped(s.release, IF n = 1 THEN 1 ELSE 2), FALSE)}
    <3>1. Clauses(op, s) = {Clause(">=", s, FALSE), Clause("<", TildeBound(s.release), FALSE)}
      BY <1>5 DEF Clauses
    <3>2. TildeBound(s.release) = Bumped(s.release, IF n = 1 THEN 1 ELSE 2)
      BY Zenon DEF TildeBound
    <3> DEFINE bound == Bumped(s.release, IF n = 1 THEN 1 ELSE 2)
               tilde == TildeBound(s.release)
    <3>3. tilde = bound
      BY <3>2
    <3>4. Clauses(op, s) = {Clause(">=", s, FALSE), Clause("<", tilde, FALSE)}
      BY <3>1
    <3> HIDE DEF tilde, bound
    <3>5. Clauses(op, s) = {Clause(">=", s, FALSE), Clause("<", bound, FALSE)}
      BY <3>3, <3>4
    <3> QED
      BY <3>5 DEF bound
  <2>2. (IF n = 1 THEN 1 ELSE 2) \in 1..n
    <3>1. n \in Nat /\ n > 0
      BY <1>1
    <3> HIDE DEF n
    <3>2. n = 1 \/ n >= 2
      BY <3>1
    <3>3. CASE n = 1
      BY <3>3
    <3>4. CASE n # 1
      BY <3>1, <3>2, <3>4
    <3> QED
      BY <3>3, <3>4
  <2>3. MeantPEP440(op, s, v) <=> level >= 0 /\ same(IF n = 1 THEN 1 ELSE 2)
    BY <1>5 DEF MeantPEP440
  <2> HIDE DEF level, n, same
  <2> QED
    BY <1>3, <1>5, <2>1, <2>2, <2>3
<1>6. ASSUME NEW o \in {"=", "!="}, NEW w
      PROVE  Satisfies(Clause(o, w, TRUE), v) <=> IF o = "=" THEN PrefixMatch(v, w) ELSE ~PrefixMatch(v, w)
  <2>1. Clause(o, w, TRUE).op = o /\ Clause(o, w, TRUE).spec = w /\ Clause(o, w, TRUE).prefix
    BY DEF Clause
  <2>2. Equals(Clause(o, w, TRUE), v) <=> PrefixMatch(v, w)
    BY <2>1, Zenon DEF Equals
  <2>3. CASE o = "="
    <3>1. Satisfies(Clause(o, w, TRUE), v) <=> Equals(Clause(o, w, TRUE), v)
      BY <2>1, <2>3 DEF Satisfies
    <3> QED
      BY <2>2, <2>3, <3>1, Zenon
  <2>4. CASE o = "!="
    <3>1. Satisfies(Clause(o, w, TRUE), v) <=> ~Equals(Clause(o, w, TRUE), v)
      BY <2>1, <2>4 DEF Satisfies
    <3>2. o # "="
      BY <2>4
    <3> QED
      BY <2>2, <3>1, <3>2, Zenon
  <2> QED
    BY <2>3, <2>4
<1>7. PrefixMatch(v, s) <=> same(n)
  <2>1. n <= n /\ \A i \in 1..n : s.release[i] = s.release[i]
    BY <1>1
  <2> QED
    BY <1>1, <2>1, PrefixIs
<1>8. CASE op = "~="
  <2> DEFINE m == n - 1
  <2>0. m \in Nat /\ m <= n /\ m > 0 /\ m <= Len(s.release)
    BY <1>1, <1>8
  <2> DEFINE r == SubSeq(s.release, 1, m)
  <2>1. r \in Seq(Nat) /\ Len(r) = m /\ \A i \in 1..m : r[i] = s.release[i]
    <3> HIDE DEF m
    <3> QED
      BY <1>1, <2>0, PrefixOf, Zenon
  <2> HIDE DEF r
  <2>3. Plain(s.epoch, r).epoch = s.epoch /\ Plain(s.epoch, r).release = r
    BY DEF Plain
  <2>4. PrefixMatch(v, Plain(s.epoch, r)) <=> same(m)
    <3> HIDE DEF m
    <3> QED
      BY <2>0, <2>1, <2>3, PrefixIs
  <2>5. Clauses(op, s) = {Clause(">=", s, FALSE), Clause("=", Plain(s.epoch, r), TRUE)}
    BY <1>8 DEF Clauses, Compatible, r
  <2>6. MetBy(Clauses(op, s), v) <=> level >= 0 /\ same(m)
    <3>1. Satisfies(Clause("=", Plain(s.epoch, r), TRUE), v) <=> PrefixMatch(v, Plain(s.epoch, r))
      BY <1>6
    <3>2. MetBy(Clauses(op, s), v) <=> Satisfies(Clause(">=", s, FALSE), v) /\ Satisfies(Clause("=", Plain(s.epoch, r), TRUE), v)
      BY <2>5, Zenon DEF MetBy
    <3> QED
      BY <1>2, <2>4, <3>1, <3>2, Zenon
  <2>7. MeantPEP440(op, s, v) <=> level >= 0 /\ same(m)
    BY <1>8 DEF MeantPEP440
  <2> QED
    BY <2>6, <2>7, Zenon
<1>9. CASE op = "=*"
  <2>1. Clauses(op, s) = {Clause("=", s, TRUE)}
    BY <1>9 DEF Clauses
  <2>2. Satisfies(Clause("=", s, TRUE), v) <=> PrefixMatch(v, s)
    BY <1>6
  <2>3. MeantPEP440(op, s, v) <=> same(n)
    BY <1>9 DEF MeantPEP440
  <2> QED
    BY <1>7, <2>1, <2>2, <2>3, Zenon DEF MetBy
<1>10. CASE op = "!=*"
  <2>1. Clauses(op, s) = {Clause("!=", s, TRUE)}
    BY <1>10 DEF Clauses
  <2>2. Satisfies(Clause("!=", s, TRUE), v) <=> ~PrefixMatch(v, s)
    BY <1>6
  <2>3. MeantPEP440(op, s, v) <=> ~same(n)
    BY <1>10 DEF MeantPEP440
  <2> QED
    BY <1>7, <2>1, <2>2, <2>3, Zenon DEF MetBy
<1>11. CASE op \notin {"^", "~", "~=", "=*", "!=*"}
  <2>1. Clauses(op, s) = {Clause(op, s, FALSE)}
    BY <1>11 DEF Clauses
  <2>2. MeantPEP440(op, s, v) <=> Satisfies(Clause(op, s, FALSE), v)
    BY <1>11 DEF MeantPEP440
  <2> QED
    BY <2>1, <2>2, Zenon DEF MetBy
<1> QED
  BY <1>4, <1>5, <1>8, <1>9, <1>10, <1>11

LEMMA OneOfTwo ==
  ASSUME NEW s, NEW first, NEW second, first.op # "===", first.spec = s, ~Prerelease(second.spec)
  PROVE  (\E c \in {first, second} : c.op # "===" /\ Prerelease(c.spec)) <=> Prerelease(s)
OBVIOUS

(* They name a prerelease where the term does.                              *)
LEMMA ClausesName ==
  ASSUME NEW op \in PEPOps, NEW s \in PEPVersions, op = "~=" => Len(s.release) > 1
  PROVE  (\E c \in Clauses(op, s) : c.op # "===" /\ Prerelease(c.spec)) <=> op # "===" /\ Prerelease(s)
<1>1. \A o : \A w : \A b : Clause(o, w, b).op = o /\ Clause(o, w, b).spec = w
  BY DEF Clause
<1>3. \A e : \A r : ~Prerelease(Plain(e, r))
  BY DEF Plain, Prerelease
<1>4. CASE op = "^"
  <2>1. PICK i : Clauses(op, s) = {Clause(">=", s, FALSE), Clause("<", Plain(0, i), FALSE)}
    BY <1>4 DEF Clauses, CaretBound, Bumped
  <2>2. ">=" # "===" /\ "<" # "===" /\ "=" # "===" /\ op # "==="
    BY <1>4
  <2>3. (\E c \in Clauses(op, s) : c.op # "===" /\ Prerelease(c.spec)) <=> Prerelease(s)
    <3> DEFINE first == Clause(">=", s, FALSE)
               second == Clause("<", Plain(0, i), FALSE)
    <3>1. first.op = ">=" /\ first.spec = s
      BY <1>1
    <3>2. second.spec = Plain(0, i)
      BY <1>1
    <3>3. ~Prerelease(second.spec)
      BY <1>3, <3>2
    <3>4. Clauses(op, s) = {first, second} /\ first.op # "==="
      BY <2>1, <2>2, <3>1
    <3> HIDE DEF first, second
    <3> QED
      BY <3>1, <3>3, <3>4, OneOfTwo
  <2> QED
    BY <2>2, <2>3
<1>5. CASE op = "~"
  <2>1. PICK i : Clauses(op, s) = {Clause(">=", s, FALSE), Clause("<", Plain(0, i), FALSE)}
    BY <1>5 DEF Clauses, TildeBound, Bumped
  <2>2. ">=" # "===" /\ "<" # "===" /\ "=" # "===" /\ op # "==="
    BY <1>5
  <2>3. (\E c \in Clauses(op, s) : c.op # "===" /\ Prerelease(c.spec)) <=> Prerelease(s)
    <3> DEFINE first == Clause(">=", s, FALSE)
               second == Clause("<", Plain(0, i), FALSE)
    <3>1. first.op = ">=" /\ first.spec = s
      BY <1>1
    <3>2. second.spec = Plain(0, i)
      BY <1>1
    <3>3. ~Prerelease(second.spec)
      BY <1>3, <3>2
    <3>4. Clauses(op, s) = {first, second} /\ first.op # "==="
      BY <2>1, <2>2, <3>1
    <3> HIDE DEF first, second
    <3> QED
      BY <3>1, <3>3, <3>4, OneOfTwo
  <2> QED
    BY <2>2, <2>3
<1>6. CASE op = "~="
  <2>1. PICK e, i : Clauses(op, s) = {Clause(">=", s, FALSE), Clause("=", Plain(e, i), TRUE)}
    BY <1>6 DEF Clauses, Compatible
  <2>2. ">=" # "===" /\ "<" # "===" /\ "=" # "===" /\ op # "==="
    BY <1>6
  <2>3. (\E c \in Clauses(op, s) : c.op # "===" /\ Prerelease(c.spec)) <=> Prerelease(s)
    <3> DEFINE first == Clause(">=", s, FALSE)
               second == Clause("=", Plain(e, i), TRUE)
    <3>1. first.op = ">=" /\ first.spec = s
      BY <1>1
    <3>2. second.spec = Plain(e, i)
      BY <1>1
    <3>3. ~Prerelease(second.spec)
      BY <1>3, <3>2
    <3>4. Clauses(op, s) = {first, second} /\ first.op # "==="
      BY <2>1, <2>2, <3>1
    <3> HIDE DEF first, second
    <3> QED
      BY <3>1, <3>3, <3>4, OneOfTwo
  <2> QED
    BY <2>2, <2>3
<1>7. CASE op \notin {"^", "~", "~="}
  <2>1. \E o, b : Clauses(op, s) = {Clause(o, s, b)} /\ (o = "===" <=> op = "===")
    <3>1. CASE op = "=*"
      <4>1. Clauses(op, s) = {Clause("=", s, TRUE)} /\ ~("=" = "===") /\ ~(op = "===")
        BY <3>1 DEF Clauses
      <4> QED
        BY <4>1
    <3>2. CASE op = "!=*"
      <4>1. Clauses(op, s) = {Clause("!=", s, TRUE)} /\ ~("!=" = "===") /\ ~(op = "===")
        BY <3>2 DEF Clauses
      <4> QED
        BY <4>1
    <3>3. CASE op \notin {"=*", "!=*"}
      <4>1. Clauses(op, s) = {Clause(op, s, FALSE)}
        BY <1>7, <3>3 DEF Clauses
      <4> QED
        BY <4>1, Zenon
    <3> QED
      BY <3>1, <3>2, <3>3
  <2>2. PICK o, b : Clauses(op, s) = {Clause(o, s, b)} /\ (o = "===" <=> op = "===")
    BY <2>1
  <2>3. Clause(o, s, b).op = o /\ Clause(o, s, b).spec = s
    BY <1>1
  <2> QED
    BY <2>2, <2>3
<1> QED
  BY <1>4, <1>5, <1>6, <1>7
LEMMA PEPAllowed ==
  ASSUME NEW d, d.syntax \notin Semver, NEW alternative, \A t \in alternative : TermRead(d.syntax, t),
         \A s \in Said(alternative) : s.op \in {"^", "~"} => s.spec.epoch = 0,
         NEW v \in PEPVersions
  PROVE  PEPAllows(Terms(d, alternative), v)
           <=> (\A s \in Said(alternative) : Meant(d, s, v)) /\ MeansPrerelease(d, Said(alternative), v)
<1> DEFINE made(t) == CASE t.op = "-" -> Hyphen(t.spec, t.high)
                        [] t.op # "-" /\ d.syntax \in Semver -> Expand(t.op, t.spec, d.syntax = "cargo")
                        [] OTHER -> Clauses(t.op, t.spec)
           side(t) == [op |-> t.op, spec |-> t.spec]
           said == Said(alternative)
<1>1. \A t \in alternative : t.op \in PEPOps /\ t.spec \in PEPVersions /\ (t.op = "~=" => Len(t.spec.release) > 1) /\ t.op # "-"
  BY DEF TermRead, PEPOps
<1>2. \A t \in alternative : made(t) = Clauses(t.op, t.spec)
  BY <1>1
<1>3. \A t \in alternative : Sides(t) = {side(t)}
  BY <1>1, Zenon DEF Sides
<1>4. \A t : side(t).op = t.op /\ side(t).spec = t.spec
  OBVIOUS
<1> HIDE DEF side
<1>5. \A s : s \in said <=> \E t \in alternative : s = side(t)
  BY <1>3 DEF Said
<1>6. Terms(d, alternative) = UNION {made(t) : t \in alternative}
  BY DEF Terms
<1> HIDE DEF made
<1>7. \A c : c \in Terms(d, alternative) <=> \E t \in alternative : c \in Clauses(t.op, t.spec)
  BY <1>2, <1>6
<1> HIDE DEF said
<1>8. \A t \in alternative : MetBy(Clauses(t.op, t.spec), v) <=> MeantPEP440(t.op, t.spec, v)
  <2> SUFFICES ASSUME NEW t \in alternative PROVE MetBy(Clauses(t.op, t.spec), v) <=> MeantPEP440(t.op, t.spec, v)
    BY Zenon
  <2>1. side(t) \in said
    BY <1>5
  <2>2. t.op \in {"^", "~"} => t.spec.epoch = 0
    BY <1>4, <2>1 DEF said
  <2> QED
    BY <1>1, <2>2, ClausesMeant
<1>9. \A t \in alternative : (\E c \in Clauses(t.op, t.spec) : c.op # "===" /\ Prerelease(c.spec)) <=> t.op # "===" /\ Prerelease(t.spec)
  BY <1>1, ClausesName
<1>10. (\A c \in Terms(d, alternative) : Satisfies(c, v)) <=> \A t \in alternative : MetBy(Clauses(t.op, t.spec), v)
  BY <1>7 DEF MetBy
<1>11. (\A s \in said : Meant(d, s, v)) <=> \A t \in alternative : MeantPEP440(t.op, t.spec, v)
  <2>1. \A s : Meant(d, s, v) <=> MeantPEP440(s.op, s.spec, v)
    BY DEF Meant
  <2>2. \A t : Meant(d, side(t), v) <=> MeantPEP440(t.op, t.spec, v)
    BY <1>4, <2>1
  <2> QED
    BY <1>5, <2>2
<1>12. (\E c \in Terms(d, alternative) : c.op # "===" /\ Prerelease(c.spec))
         <=> \E t \in alternative : t.op # "===" /\ Prerelease(t.spec)
  BY <1>7, <1>9
<1>13. (\E s \in said : s.op # "===" /\ Prerelease(s.spec)) <=> \E t \in alternative : t.op # "===" /\ Prerelease(t.spec)
  BY <1>4, <1>5
<1>14. MeansPrerelease(d, said, v) <=> (Prerelease(v) => \E s \in said : s.op # "===" /\ Prerelease(s.spec))
  BY DEF MeansPrerelease
<1>15. PEPAllows(Terms(d, alternative), v)
         <=> (Prerelease(v) => \E c \in Terms(d, alternative) : c.op # "===" /\ Prerelease(c.spec))
             /\ \A c \in Terms(d, alternative) : Satisfies(c, v)
  BY DEF PEPAllows
<1>16. (\A c \in Terms(d, alternative) : Satisfies(c, v)) <=> \A s \in said : Meant(d, s, v)
  BY <1>8, <1>10, <1>11
<1> QED
  BY <1>12, <1>13, <1>14, <1>15, <1>16 DEF said

(* A declaration as a manifest holds it, and what it allows.                *)
Declared1(d) == \A alternative \in d.range : \A t \in alternative : TermRead(d.syntax, t)

LEMMA AllowsAsWritten ==
  ASSUME NEW d, Declared1(d), BoundsTell(d), NEW v, VersionOf(d.syntax, v)
  PROVE  Allows(d, v) <=> AllowedAsWritten(d, v)
<1>1. CASE d.syntax \in Semver
  <2>1. v \in SemverVersions
    BY <1>1 DEF VersionOf
  <2>2. \A alternative \in d.range : \A s, u \in Said(alternative) : u.spec.pre # <<>> /\ u.spec.num # s.spec.num =>
           \A c \in SideBounds(d, s) : c.ver.num # u.spec.num
    BY <1>1, Zenon DEF BoundsTell, SideBounds
  <2>3. \A alternative \in d.range :
          SetAllows(Terms(d, alternative), v)
            <=> (\A s \in Said(alternative) : Meant(d, s, v)) /\ MeansPrerelease(d, Said(alternative), v)
    <3> SUFFICES ASSUME NEW alternative \in d.range
                 PROVE  SetAllows(Terms(d, alternative), v)
                          <=> (\A s \in Said(alternative) : Meant(d, s, v)) /\ MeansPrerelease(d, Said(alternative), v)
      BY Zenon
    <3>1. \A t \in alternative : TermRead(d.syntax, t)
      BY Zenon DEF Declared1
    <3>2. \A s, u \in Said(alternative) : u.spec.pre # <<>> /\ u.spec.num # s.spec.num =>
           \A c \in SideBounds(d, s) : c.ver.num # u.spec.num
      BY <2>2, Zenon
    <3> QED
      BY <1>1, <2>1, <3>1, <3>2, SemverAllowed, Zenon
  <2>4. Allows(d, v) <=> \E alternative \in d.range : SetAllows(Terms(d, alternative), v)
    BY <1>1, Zenon DEF Allows
  <2> QED
    BY <2>3, <2>4, Zenon DEF AllowedAsWritten
<1>2. CASE d.syntax \notin Semver
  <2>1. v \in PEPVersions
    BY <1>2 DEF VersionOf
  <2>2. \A alternative \in d.range : \A s \in Said(alternative) : s.op \in {"^", "~"} => s.spec.epoch = 0
    BY <1>2, Zenon DEF BoundsTell
  <2>3. \A alternative \in d.range :
          PEPAllows(Terms(d, alternative), v)
            <=> (\A s \in Said(alternative) : Meant(d, s, v)) /\ MeansPrerelease(d, Said(alternative), v)
    <3> SUFFICES ASSUME NEW alternative \in d.range
                 PROVE  PEPAllows(Terms(d, alternative), v)
                          <=> (\A s \in Said(alternative) : Meant(d, s, v)) /\ MeansPrerelease(d, Said(alternative), v)
      BY Zenon
    <3>1. \A t \in alternative : TermRead(d.syntax, t)
      BY Zenon DEF Declared1
    <3> QED
      BY <1>2, <2>1, <2>2, <3>1, PEPAllowed, Zenon
  <2>4. Allows(d, v) <=> \E alternative \in d.range : PEPAllows(Terms(d, alternative), v)
    BY <1>2, Zenon DEF Allows
  <2> QED
    BY <2>3, <2>4, Zenon DEF AllowedAsWritten
<1> QED
  BY <1>1, <1>2

(* Of the versions of one ecosystem, "higher" is an order.                  *)
LEMMA HigherOrders ==
  ASSUME NEW d, NEW u, NEW v, NEW w, VersionOf(d.syntax, u), VersionOf(d.syntax, v), VersionOf(d.syntax, w)
  PROVE  /\ Higher(d, u, v) => ~Higher(d, v, u)
         /\ ~Higher(d, v, u) /\ ~Higher(d, w, v) => ~Higher(d, w, u)
<1>1. CASE d.syntax \in Semver
  <2>1. u \in SemverVersions /\ v \in SemverVersions /\ w \in SemverVersions
    BY <1>1 DEF VersionOf
  <2>2. \A x, y \in SemverVersions : CompareSemver(x, y) \in Int
    BY SemverLeads
  <2>3. \A x, y : Higher(d, x, y) <=> CompareSemver(x, y) > 0
    BY <1>1, Zenon DEF Higher
  <2>4. \A x, y \in SemverVersions : Opposed(CompareSemver(x, y), CompareSemver(y, x))
    BY SemverCoherent
  <2>5. Coherent(CompareSemver(u, v), CompareSemver(v, w), CompareSemver(u, w))
    BY <2>1, SemverCoherent
  <2> QED
    BY <2>1, <2>2, <2>3, <2>4, <2>5 DEF Coherent, Opposed
<1>2. CASE d.syntax \notin Semver
  <2>1. u \in PEPVersions /\ v \in PEPVersions /\ w \in PEPVersions
    BY <1>2 DEF VersionOf
  <2>2. \A x, y \in PEPVersions : ComparePEP440(x, y) \in Int
    BY PEPLeads
  <2>3. \A x, y : Higher(d, x, y) <=> ComparePEP440(x, y) > 0
    BY <1>2, Zenon DEF Higher
  <2>4. \A x, y \in PEPVersions : Opposed(ComparePEP440(x, y), ComparePEP440(y, x))
    BY PEPCoherent
  <2>5. Coherent(ComparePEP440(u, v), ComparePEP440(v, w), ComparePEP440(u, w))
    BY <2>1, PEPCoherent
  <2> QED
    BY <2>1, <2>2, <2>3, <2>4, <2>5 DEF Coherent, Opposed
<1> QED
  BY <1>1, <1>2
-----------------------------------------------------------------------------
(* Check.  A finite, not empty list of versions has a first highest one.    *)
LEMMA Onward ==
  ASSUME NEW len \in Nat, NEW A, 0 \in A, \A n \in 0..(len - 1) : n \in A => n + 1 \in A
  PROVE  \A n \in 0..len : n \in A
<1> DEFINE broken == {n \in 0..len : n \notin A}
<1>1. ASSUME broken # {} PROVE FALSE
  <2>1. broken \in SUBSET Nat
    OBVIOUS
  <2>2. PICK n \in broken : \A k \in broken : n <= k
    <3> HIDE DEF broken
    <3> QED
      BY <1>1, <2>1, LeastOf
  <2>3. n # 0 /\ n \in 0..len /\ n \notin A
    BY <2>2
  <2>4. n - 1 \in 0..(len - 1) /\ n - 1 \in 0..len /\ ~(n <= n - 1) /\ (n - 1) + 1 = n
    BY <2>3
  <2>5. n - 1 \in A
    BY <2>2, <2>4
  <2> QED
    BY <2>3, <2>4, <2>5
<1> QED
  BY <1>1

LEMMA ListIs ==
  ASSUME NEW s
  PROVE  /\ IsList(s) => Len(s) \in Nat /\ DOMAIN s = 1..Len(s)
         /\ \A S : s \in Seq(S) => IsList(s)
<1>1. IsList(s) => Len(s) \in Nat /\ DOMAIN s = 1..Len(s)
  BY DEF IsList
<1>2. ASSUME NEW S, s \in Seq(S) PROVE IsList(s)
  <2>1. Len(s) \in Nat /\ DOMAIN s = 1..Len(s) /\ s = [i \in 1..Len(s) |-> s[i]]
    BY <1>2
  <2> DEFINE T == {s[i] : i \in DOMAIN s}
  <2>2. \A i \in 1..Len(s) : s[i] \in T
    BY <2>1
  <2> HIDE DEF T
  <2>3. s \in [1..Len(s) -> T]
    BY <2>1, <2>2
  <2>4. s \in Seq(T)
    BY <2>1, <2>3
  <2> QED
    BY <2>4 DEF IsList, T
<1> QED
  BY <1>1, <1>2

Versioned(d, list) == IsList(list) /\ \A i \in DOMAIN list : VersionOf(d.syntax, list[i].ver)

LEMMA HighestIs ==
  ASSUME NEW d, NEW list, Versioned(d, list)
  PROVE  /\ \A v \in HighestAllowed(d, list) :
              /\ \E i \in Candidates(d, list) : v = list[i].ver
              /\ \A i \in Candidates(d, list) : ~Higher(d, list[i].ver, v)
         /\ Candidates(d, list) # {} => HighestAllowed(d, list) # {}
<1> DEFINE C == Candidates(d, list)
           len == Len(list)
           over(i, j) == Higher(d, list[i].ver, list[j].ver)
           M == {i \in C : \A j \in C : ~over(j, i)}
<1>1. len \in Nat /\ DOMAIN list = 1..len /\ C \subseteq 1..len
  BY ListIs DEF Versioned, Candidates
<1>2. HighestAllowed(d, list) = {list[i].ver : i \in {k \in C : \A j \in C : ~over(j, k) /\ (j < k => over(k, j))}}
  BY DEF HighestAllowed
<1>3. \A i, j, k \in C : /\ over(i, j) => ~over(j, i)
                         /\ ~over(j, i) /\ ~over(k, j) => ~over(k, i)
  <2> SUFFICES ASSUME NEW i \in C, NEW j \in C, NEW k \in C
               PROVE  /\ over(i, j) => ~over(j, i)
                      /\ ~over(j, i) /\ ~over(k, j) => ~over(k, i)
    OBVIOUS
  <2>1. VersionOf(d.syntax, list[i].ver) /\ VersionOf(d.syntax, list[j].ver) /\ VersionOf(d.syntax, list[k].ver)
    BY <1>1, Zenon DEF Versioned
  <2> QED
    BY <2>1, HigherOrders, Zenon
<1> HIDE DEF C, over, len
<1>4. \A v \in HighestAllowed(d, list) : \E i \in C : v = list[i].ver /\ \A j \in C : ~over(j, i)
  BY <1>2
<1>5. ASSUME C # {} PROVE M # {}
  <2> DEFINE A == {n \in 0..len : C \cap 1..n = {} \/ \E i \in C \cap 1..n : \A j \in C \cap 1..n : ~over(j, i)}
  <2>1. 0 \in A
    BY <1>1
  <2>2. ASSUME NEW n \in 0..(len - 1), n \in A PROVE n + 1 \in A
    <3>1. n + 1 \in 0..len /\ n \in Nat /\ \A i \in 1..(n + 1) : i \in 1..n \/ i = n + 1
      BY <1>1
    <3>2. CASE n + 1 \notin C
      <4>1. C \cap 1..(n + 1) = C \cap 1..n
        BY <3>1, <3>2
      <4> QED
        BY <2>2, <3>1, <4>1
    <3>3. CASE n + 1 \in C
      <4>1. C \cap 1..(n + 1) = (C \cap 1..n) \cup {n + 1}
        BY <3>1, <3>3
      <4>2. ~over(n + 1, n + 1)
        BY <1>3, <3>3
      <4>3. CASE C \cap 1..n = {}
        <5>1. \E i \in C \cap 1..(n + 1) : \A j \in C \cap 1..(n + 1) : ~over(j, i)
          BY <4>1, <4>2, <4>3
        <5> QED
          BY <3>1, <5>1
      <4>4. CASE C \cap 1..n # {}
        <5>1. PICK i \in C \cap 1..n : \A j \in C \cap 1..n : ~over(j, i)
          BY <2>2, <4>4
        <5>2. CASE over(n + 1, i)
          <6>1. ~over(i, n + 1)
            BY <1>3, <3>3, <5>1, <5>2
          <6>2. \A j \in C \cap 1..n : ~over(j, n + 1)
            BY <1>3, <3>3, <5>1, <6>1
          <6>3. \E k \in C \cap 1..(n + 1) : \A j \in C \cap 1..(n + 1) : ~over(j, k)
            BY <4>1, <4>2, <6>2
          <6> QED
            BY <3>1, <6>3
        <5>3. CASE ~over(n + 1, i)
          <6>1. \E k \in C \cap 1..(n + 1) : \A j \in C \cap 1..(n + 1) : ~over(j, k)
            BY <4>1, <5>1, <5>3
          <6> QED
            BY <3>1, <6>1
        <5> QED
          BY <5>2, <5>3
      <4> QED
        BY <4>3, <4>4
    <3> QED
      BY <3>2, <3>3
  <2> HIDE DEF A
  <2>3. len \in A
    <3>1. \A n \in 0..len : n \in A
      BY <1>1, <2>1, <2>2, Onward
    <3> QED
      BY <1>1, <3>1
  <2>4. C \cap 1..len = C
    BY <1>1
  <2>5. \E i \in C : \A j \in C : ~over(j, i)
    BY <1>5, <2>3, <2>4 DEF A
  <2> QED
    BY <2>5
<1>6. ASSUME C # {} PROVE HighestAllowed(d, list) # {}
  <2>1. M \in SUBSET Nat
    <3>1. \A i \in 1..len : i \in Nat
      BY <1>1
    <3> QED
      BY <1>1, <3>1
  <2>0. M # {}
    BY <1>5, <1>6, Zenon
  <2>2. PICK i \in M : \A j \in M : i <= j
    <3> HIDE DEF M
    <3> QED
      BY <2>0, <2>1, LeastOf
  <2>3. i \in C /\ i \in Nat /\ \A j \in C : ~over(j, i)
    BY <1>1, <2>2
  <2>4. ASSUME NEW j \in C, j < i PROVE over(i, j)
    <3>1. j \in Nat /\ j \notin M
      BY <1>1, <2>2, <2>3, <2>4
    <3>2. PICK k \in C : over(k, j)
      BY <3>1
    <3>3. ~over(k, i)
      BY <2>3
    <3> QED
      BY <1>3, <2>3, <3>2, <3>3
  <2>5. i \in {k \in C : \A j \in C : ~over(j, k) /\ (j < k => over(k, j))}
    BY <2>3, <2>4
  <2> QED
    BY <1>2, <2>5
<1>7. \A v \in HighestAllowed(d, list) :
        /\ \E i \in Candidates(d, list) : v = list[i].ver
        /\ \A i \in Candidates(d, list) : ~Higher(d, list[i].ver, v)
  BY <1>4, Zenon DEF C, over
<1> QED
  BY <1>6, <1>7, Zenon DEF C
-----------------------------------------------------------------------------
(* What is to be evaluated: each once, and which of them are direct.        *)
Unique(s) == \A i \in DOMAIN s : \A j \in DOMAIN s : s[i].ref = s[j].ref => i = j
Directs(s) == {s[i].ref : i \in {k \in DOMAIN s : s[k].direct}}

LEMMA AddIs ==
  ASSUME NEW s, IsList(s), Unique(s), NEW in
  PROVE  /\ IsList(Add(s, in)) /\ Unique(Add(s, in))
         /\ \A ref : ref \in Directs(Add(s, in)) <=> ref \in Directs(s) \/ (in.direct /\ ref = in.ref)
<1> DEFINE same == {i \in DOMAIN s : s[i].ref = in.ref}
           marked == [i \in DOMAIN s |->
                        IF i \in same THEN [ref |-> in.ref, direct |-> s[i].direct \/ in.direct, nameOnly |-> s[i].nameOnly] ELSE s[i]]
           n == Len(s)
           all == {s[i] : i \in DOMAIN s}
<1>1. n \in Nat /\ DOMAIN s = 1..n
  BY ListIs
<1>2. Add(s, in) = IF same = {} THEN Append(s, in) ELSE marked
  BY Zenon DEF Add
<1>3. CASE same = {}
  <2> DEFINE more == Append(s, in)
  <2>1. s \in Seq(all \cup {in}) /\ in \in all \cup {in}
    <3>1. s \in Seq(all)
      BY DEF IsList
    <3> HIDE DEF all
    <3> QED
      BY <3>1
  <2>2. /\ more \in Seq(all \cup {in}) /\ Len(more) = n + 1 /\ DOMAIN more = 1..(n + 1)
        /\ more[n + 1] = in /\ \A i \in 1..n : more[i] = s[i]
    <3> HIDE DEF all
    <3> QED
      BY <2>1
  <2> HIDE DEF more
  <2>3. \A i \in 1..(n + 1) : i \in 1..n \/ i = n + 1
    BY <1>1
  <2>4. n + 1 \in 1..(n + 1) /\ \A i \in 1..n : i \in 1..(n + 1) /\ i # n + 1
    BY <1>1
  <2>5. \A i \in 1..n : s[i].ref # in.ref
    BY <1>1, <1>3
  <2>6. Unique(more)
    BY <1>1, <2>2, <2>3, <2>5 DEF Unique
  <2>7. IsList(more)
    BY <2>2, ListIs
  <2>8. ASSUME NEW ref PROVE ref \in Directs(more) <=> ref \in Directs(s) \/ (in.direct /\ ref = in.ref)
    <3>1. ref \in Directs(more) <=> \E i \in DOMAIN more : more[i].direct /\ more[i].ref = ref
      BY Zenon DEF Directs
    <3>2. ref \in Directs(s) <=> \E i \in DOMAIN s : s[i].direct /\ s[i].ref = ref
      BY Zenon DEF Directs
    <3>3. (\E i \in 1..(n + 1) : more[i].direct /\ more[i].ref = ref)
            <=> (\E i \in 1..n : s[i].direct /\ s[i].ref = ref) \/ (in.direct /\ in.ref = ref)
      BY <2>2, <2>3, <2>4
    <3> QED
      BY <1>1, <2>2, <3>1, <3>2, <3>3
  <2> QED
    BY <1>2, <1>3, <2>6, <2>7, <2>8 DEF more
<1>4. CASE same # {}
  <2>1. DOMAIN marked = 1..n
    BY <1>1
  <2>2. \A i \in 1..n : i \in same <=> s[i].ref = in.ref
    BY <1>1
  <2>3. \A i \in 1..n : /\ i \in same => marked[i].ref = in.ref
                        /\ i \in same => (marked[i].direct <=> s[i].direct \/ in.direct)
                        /\ i \notin same => marked[i] = s[i]
    <3> SUFFICES ASSUME NEW i \in 1..n
                 PROVE  /\ i \in same => marked[i].ref = in.ref
                        /\ i \in same => (marked[i].direct <=> s[i].direct \/ in.direct)
                        /\ i \notin same => marked[i] = s[i]
      BY Zenon
    <3>1. marked[i] = IF i \in same THEN [ref |-> in.ref, direct |-> s[i].direct \/ in.direct, nameOnly |-> s[i].nameOnly] ELSE s[i]
      BY <1>1, Zenon
    <3> HIDE DEF marked, same
    <3>2. CASE i \in same
      <4> DEFINE b == s[i].direct \/ in.direct
                 e == s[i].nameOnly
      <4>1. marked[i] = [ref |-> in.ref, direct |-> b, nameOnly |-> e]
        BY <3>1, <3>2, Zenon
      <4> HIDE DEF b, e
      <4>2. marked[i].ref = in.ref /\ marked[i].direct = b
        BY <4>1
      <4>3. marked[i].direct <=> s[i].direct \/ in.direct
        BY <4>2, Zenon DEF b
      <4> QED
        BY <3>2, <4>2, <4>3, Zenon
    <3>3. CASE i \notin same
      BY <3>1, <3>3, Zenon
    <3> QED
      BY <3>2, <3>3, Zenon
  <2>4. \E i \in 1..n : i \in same
    BY <1>1, <1>4
  <2>5. IsList(marked)
    <3> DEFINE S == {marked[i] : i \in 1..n}
    <3>1. marked \in [1..n -> S]
      BY <1>1
    <3> HIDE DEF S, marked
    <3>2. marked \in Seq(S)
      BY <1>1, <3>1
    <3> QED
      BY <3>2, ListIs
  <2> HIDE DEF marked, same
  <2>6. \A i \in 1..n : marked[i].ref = s[i].ref
    BY <2>2, <2>3
  <2>7. Unique(marked)
    BY <1>1, <2>1, <2>6 DEF Unique
  <2>8. ASSUME NEW ref PROVE ref \in Directs(marked) <=> ref \in Directs(s) \/ (in.direct /\ ref = in.ref)
    <3>1. ref \in Directs(marked) <=> \E i \in DOMAIN marked : marked[i].direct /\ marked[i].ref = ref
      BY Zenon DEF Directs
    <3>2. ref \in Directs(s) <=> \E i \in DOMAIN s : s[i].direct /\ s[i].ref = ref
      BY Zenon DEF Directs
    <3>3. (\E i \in 1..n : marked[i].direct /\ marked[i].ref = ref)
            <=> (\E i \in 1..n : s[i].direct /\ s[i].ref = ref) \/ (in.direct /\ ref = in.ref)
      BY <2>2, <2>3, <2>4, <2>6, Zenon
    <3> QED
      BY <1>1, <2>1, <3>1, <3>2, <3>3, Zenon
  <2> QED
    BY <1>2, <1>4, <2>5, <2>7, <2>8, Zenon
<1> QED
  BY <1>3, <1>4

(* One reply, and all of a manifest's in order.                             *)
LEMMA TakeIs ==
  ASSUME NEW s, IsList(s), Unique(s), NEW reply, reply.kind = "resolved" => reply.refs # {}
  PROVE  /\ IsList(Take(s, reply)) /\ Unique(Take(s, reply))
         /\ Directs(s) \subseteq Directs(Take(s, reply))
         /\ reply.kind = "resolved" => \E ref \in reply.refs : ref \in Directs(Take(s, reply))
         /\ \A ref \in Directs(Take(s, reply)) : ref \in Directs(s) \/ (reply.kind = "resolved" /\ ref \in reply.refs)
<1>1. CASE reply.kind # "resolved"
  <2>1. Take(s, reply) = s
    BY <1>1, Zenon DEF Take
  <2> QED
    BY <1>1, <2>1
<1>2. CASE reply.kind = "resolved"
  <2> DEFINE chosen == CHOOSE x \in reply.refs : TRUE
             in == [ref |-> chosen, direct |-> TRUE, nameOnly |-> FALSE]
  <2>1. chosen \in reply.refs
    BY <1>2
  <2>2. Take(s, reply) = Add(s, in)
    BY <1>2, Zenon DEF Take
  <2>3. in.ref = chosen /\ in.direct
    BY Zenon
  <2> HIDE DEF in, chosen
  <2>4. /\ IsList(Add(s, in)) /\ Unique(Add(s, in))
        /\ \A ref : ref \in Directs(Add(s, in)) <=> ref \in Directs(s) \/ (in.direct /\ ref = in.ref)
    BY AddIs, Zenon
  <2>5. \A ref : ref \in Directs(Take(s, reply)) <=> ref \in Directs(s) \/ ref = chosen
    BY <2>2, <2>3, <2>4, Zenon
  <2>6. Directs(s) \subseteq Directs(Take(s, reply))
    BY <2>5, Zenon
  <2>7. \E ref \in reply.refs : ref \in Directs(Take(s, reply))
    BY <2>1, <2>5, Zenon
  <2>8. \A ref \in Directs(Take(s, reply)) : ref \in Directs(s) \/ (reply.kind = "resolved" /\ ref \in reply.refs)
    BY <1>2, <2>1, <2>5, Zenon
  <2> QED
    BY <2>2, <2>4, <2>6, <2>7, <2>8, Zenon
<1> QED
  BY <1>1, <1>2

TakenOf(taken, s, answered, m) ==
  taken = [n \in 0..m |-> IF n = 0 THEN s ELSE Take(taken[n - 1], answered[n])]

LEMMA TakenExists ==
  ASSUME NEW s, NEW answered, NEW len \in Nat
  PROVE  \E taken : TakenOf(taken, s, answered, len)
<1> DEFINE A == {m \in Nat : \E taken : TakenOf(taken, s, answered, m)}
<1>1. 0 \in A
  <2>1. TakenOf([n \in 0..0 |-> s], s, answered, 0)
    BY DEF TakenOf
  <2> QED
    BY <2>1
<1>2. ASSUME NEW k \in 0..(len - 1), k \in A PROVE k + 1 \in A
  <2>1. k \in Nat /\ k + 1 \in Nat
    OBVIOUS
  <2>2. PICK f : TakenOf(f, s, answered, k)
    BY <1>2
  <2> DEFINE g == [n \in 0..(k + 1) |-> IF n = k + 1 THEN Take(f[k], answered[k + 1]) ELSE f[n]]
  <2>3. \A n \in 0..k : f[n] = IF n = 0 THEN s ELSE Take(f[n - 1], answered[n])
    BY <2>2 DEF TakenOf
  <2>4. ASSUME NEW n \in 0..(k + 1) PROVE g[n] = IF n = 0 THEN s ELSE Take(g[n - 1], answered[n])
    <3>1. n # 0 => n - 1 \in 0..(k + 1) /\ n - 1 # k + 1 /\ g[n - 1] = f[n - 1]
      BY <2>1
    <3>2. CASE n = k + 1
      <4>1. n # 0 /\ n - 1 = k
        BY <2>1, <3>2
      <4> QED
        BY <3>1, <3>2, <4>1
    <3>3. CASE n # k + 1
      <4>1. n \in 0..k
        BY <2>1, <3>3
      <4> QED
        BY <2>3, <3>1, <3>3, <4>1
    <3> QED
      BY <3>2, <3>3
  <2>5. TakenOf(g, s, answered, k + 1)
    BY <2>4 DEF TakenOf
  <2> QED
    BY <2>1, <2>5
<1> HIDE DEF A
<1>3. \A n \in 0..len : n \in A
  BY <1>1, <1>2, Onward
<1>4. len \in A
  BY <1>3
<1> QED
  BY <1>4 DEF A

Collects(s, answered, n, t) ==
  /\ IsList(t) /\ Unique(t)
  /\ Directs(s) \subseteq Directs(t)
  /\ \A m \in 1..n : answered[m].kind = "resolved" => \E ref \in answered[m].refs : ref \in Directs(t)
  /\ \A ref \in Directs(t) : ref \in Directs(s) \/ \E m \in 1..n : answered[m].kind = "resolved" /\ ref \in answered[m].refs

LEMMA CollectedIs ==
  ASSUME NEW s, IsList(s), Unique(s), NEW answered, Len(answered) \in Nat,
         \A m \in 1..Len(answered) : answered[m].kind = "resolved" => answered[m].refs # {}
  PROVE  Collects(s, answered, Len(answered), Collected(s, answered))
<1> DEFINE len == Len(answered)
           taken == CHOOSE taken : taken = [n \in 0..len |-> IF n = 0 THEN s ELSE Take(taken[n - 1], answered[n])]
<1>1. Collected(s, answered) = taken[len]
  BY Zenon DEF Collected
<1>2. TakenOf(taken, s, answered, len)
  <2>1. \E f : f = [n \in 0..len |-> IF n = 0 THEN s ELSE Take(f[n - 1], answered[n])]
    <3>1. len \in Nat
      OBVIOUS
    <3>2. PICK f : TakenOf(f, s, answered, len)
      BY <3>1, TakenExists
    <3> QED
      BY <3>2, Zenon DEF TakenOf
  <2> QED
    BY <2>1, Zenon DEF TakenOf
<1> HIDE DEF taken
<1>3. taken[0] = s /\ \A n \in 0..(len - 1) : taken[n + 1] = Take(taken[n], answered[n + 1])
  <2>1. \A n \in 0..len : taken[n] = IF n = 0 THEN s ELSE Take(taken[n - 1], answered[n])
    BY <1>2 DEF TakenOf
  <2>2. ASSUME NEW n \in 0..(len - 1) PROVE taken[n + 1] = Take(taken[n], answered[n + 1])
    <3>1. n + 1 \in 0..len /\ n + 1 # 0 /\ (n + 1) - 1 = n
      OBVIOUS
    <3> QED
      BY <2>1, <3>1
  <2> QED
    BY <2>1, <2>2
<1> DEFINE A == {n \in 0..len : Collects(s, answered, n, taken[n])}
<1>4. 0 \in A
  BY <1>3 DEF Collects
<1>5. ASSUME NEW n \in 0..(len - 1), n \in A PROVE n + 1 \in A
  <2> DEFINE t == taken[n]
             reply == answered[n + 1]
             u == taken[n + 1]
  <2>1. n + 1 \in 0..len /\ n + 1 \in 1..len /\ \A m \in 1..(n + 1) : m \in 1..n \/ m = n + 1
    OBVIOUS
  <2>2. \A m \in 1..n : m \in 1..(n + 1)
    OBVIOUS
  <2>3. n + 1 \in 1..(n + 1)
    OBVIOUS
  <2>4. Collects(s, answered, n, t) /\ u = Take(t, reply)
    BY <1>3, <1>5
  <2>5. reply.kind = "resolved" => reply.refs # {}
    BY <2>1
  <2> HIDE DEF t, u
  <2>6. /\ IsList(u) /\ Unique(u) /\ Directs(t) \subseteq Directs(u)
        /\ reply.kind = "resolved" => \E ref \in reply.refs : ref \in Directs(u)
        /\ \A ref \in Directs(u) : ref \in Directs(t) \/ (reply.kind = "resolved" /\ ref \in reply.refs)
    BY <2>4, <2>5, TakeIs DEF Collects
  <2>7. Directs(s) \subseteq Directs(u)
    BY <2>4, <2>6 DEF Collects
  <2>8. \A m \in 1..(n + 1) : answered[m].kind = "resolved" => \E ref \in answered[m].refs : ref \in Directs(u)
    BY <2>1, <2>4, <2>6 DEF Collects
  <2>9. \A ref \in Directs(u) : ref \in Directs(s) \/ \E m \in 1..(n + 1) : answered[m].kind = "resolved" /\ ref \in answered[m].refs
    BY <2>2, <2>3, <2>4, <2>6 DEF Collects
  <2>10. Collects(s, answered, n + 1, u)
    BY <2>6, <2>7, <2>8, <2>9 DEF Collects
  <2> QED
    BY <2>1, <2>10 DEF u
<1> HIDE DEF A
<1>6. len \in A
  <2>1. \A n \in 0..len : n \in A
    BY <1>4, <1>5, Onward
  <2> QED
    BY <2>1
<1> QED
  BY <1>1, <1>6 DEF A
-----------------------------------------------------------------------------
(* The invariant: an answer once given is kept, and replies, subjects and   *)
(* what was left unread are those of the answers.                           *)
Resolves(d, answer, ref) ==
  answer.kind = "list" /\ \E v \in HighestAllowed(d, answer.list) : ref = <<answer.name, v>>

Settled(d, answer, s, u) ==
  /\ answer.kind # "unasked"
  /\ answer.kind = "list" /\ HighestAllowed(d, answer.list) # {} => \E ref \in Directs(s) : Resolves(d, answer, ref)
  /\ answer.kind = "down" => u

InputFits == Begins([command |-> command, market |-> market])

AnswersFit ==
  /\ DOMAIN known = DOMAIN market
  /\ \A n \in DOMAIN known : known[n].kind \in {"unasked", "list", "unknown", "down"}
  /\ \A d \in Declarations : Versioned(d, known[d.name].list)

PlaceFits == place \in 1..(Len(command.targets) + 1)

RepliesFit ==
  /\ DOMAIN replies \subseteq DOMAIN Declared
  /\ \A i \in DOMAIN replies : /\ known[Declared[i].name].kind # "unasked"
                               /\ replies[i] = Reply(Declared[i], known[Declared[i].name])

SubjectsFit ==
  /\ IsList(subjects) /\ Unique(subjects)
  /\ \A ref \in Directs(subjects) : \E d \in Declarations : Resolves(d, known[d.name], ref)

PassedSettled ==
  \A k \in DOMAIN command.targets : k < place =>
    \A i \in DOMAIN command.targets[k].declarations :
      Settled(command.targets[k].declarations[i], known[command.targets[k].declarations[i].name], subjects, unread)

CodeTells == code # -1 => place > Len(command.targets) /\ (code = 0 /\ command.fails => ~unread)

CheckInv == InputFits /\ AnswersFit /\ PlaceFits /\ RepliesFit /\ SubjectsFit /\ PassedSettled /\ CodeTells

LEMMA DeclarationsAre ==
  ASSUME InputFits
  PROVE  /\ Len(command.targets) \in Nat /\ DOMAIN command.targets = 1..Len(command.targets)
         /\ \A k \in DOMAIN command.targets :
              /\ command.targets[k].kind = "ref" => command.targets[k].declarations = <<>>
              /\ IsList(command.targets[k].declarations)
              /\ \A i \in DOMAIN command.targets[k].declarations : command.targets[k].declarations[i] \in Declarations
         /\ \A d \in Declarations : \E k \in DOMAIN command.targets :
              \E i \in DOMAIN command.targets[k].declarations : d = command.targets[k].declarations[i]
<1> DEFINE g == [command |-> command, market |-> market]
<1>1. g.command = command /\ g.market = market
  OBVIOUS
<1>2. Begins(g)
  BY DEF InputFits
<1> HIDE DEF g
<1>3. IsList(command.targets)
  BY <1>1, <1>2, Zenon DEF Begins
<1>4. \A k \in DOMAIN command.targets : /\ command.targets[k].kind = "ref" => command.targets[k].declarations = <<>>
                                        /\ IsList(command.targets[k].declarations)
  BY <1>1, <1>2, Zenon DEF Begins
<1> DEFINE T == {command.targets[k] : k \in DOMAIN command.targets}
           of(t) == {t.declarations[i] : i \in DOMAIN t.declarations}
<1>5. Declarations = UNION {of(t) : t \in T}
  BY DEF Declarations
<1>6. \A d : d \in Declarations <=> \E t \in T : d \in of(t)
  BY <1>5, Zenon
<1>7. \A t, d : d \in of(t) <=> \E i \in DOMAIN t.declarations : d = t.declarations[i]
  BY Zenon
<1>8. \A t : t \in T <=> \E k \in DOMAIN command.targets : t = command.targets[k]
  BY Zenon
<1> HIDE DEF T, of
<1>9. \A k \in DOMAIN command.targets : \A i \in DOMAIN command.targets[k].declarations : command.targets[k].declarations[i] \in Declarations
  BY <1>6, <1>7, <1>8, Zenon
<1>10. \A d \in Declarations : \E k \in DOMAIN command.targets :
         \E i \in DOMAIN command.targets[k].declarations : d = command.targets[k].declarations[i]
  <2> SUFFICES ASSUME NEW d \in Declarations
               PROVE  \E k \in DOMAIN command.targets :
                        \E i \in DOMAIN command.targets[k].declarations : d = command.targets[k].declarations[i]
    BY Zenon
  <2>1. PICK t \in T : d \in of(t)
    BY <1>6
  <2>2. PICK k \in DOMAIN command.targets : t = command.targets[k]
    BY <1>8
  <2>3. \E i \in DOMAIN t.declarations : d = t.declarations[i]
    BY <1>7, <2>1, Zenon
  <2> QED
    BY <2>2, <2>3, Zenon
<1>11. Len(command.targets) \in Nat /\ DOMAIN command.targets = 1..Len(command.targets)
  BY <1>3, ListIs
<1> QED
  BY <1>4, <1>9, <1>10, <1>11, Zenon

LEMMA DeclarationsFit ==
  ASSUME InputFits
  PROVE  /\ \A n \in DOMAIN market : market[n].kind \in {"list", "unknown", "down"} /\ IsList(market[n].list)
         /\ \A d \in Declarations :
              /\ d.name \in DOMAIN market /\ Declared1(d) /\ Versioned(d, market[d.name].list)
              /\ \A r \in Releases : r.name = d.name => VersionOf(d.syntax, r.entry.ver)
<1> DEFINE g == [command |-> command, market |-> market]
<1>1. g.command = command /\ g.market = market
  OBVIOUS
<1>2. Begins(g)
  BY DEF InputFits
<1> HIDE DEF g
<1>3. \A n \in DOMAIN market : market[n].kind \in {"list", "unknown", "down"} /\ IsList(market[n].list)
  BY <1>1, <1>2, Zenon DEF Begins
<1>4. \A k \in DOMAIN command.targets : \A i \in DOMAIN command.targets[k].declarations :
        LET d == command.targets[k].declarations[i]
        IN /\ d.name \in DOMAIN market
           /\ \A alternative \in d.range : \A term \in alternative : TermRead(d.syntax, term)
           /\ \A j \in DOMAIN market[d.name].list : VersionOf(d.syntax, market[d.name].list[j].ver)
           /\ \A r \in Releases : r.name = d.name => VersionOf(d.syntax, r.entry.ver)
  BY <1>1, <1>2, Zenon DEF Begins
<1>5. ASSUME NEW d \in Declarations
      PROVE  /\ d.name \in DOMAIN market /\ Declared1(d) /\ Versioned(d, market[d.name].list)
             /\ \A r \in Releases : r.name = d.name => VersionOf(d.syntax, r.entry.ver)
  <2>1. PICK k \in DOMAIN command.targets : \E i \in DOMAIN command.targets[k].declarations : d = command.targets[k].declarations[i]
    BY DeclarationsAre, Zenon
  <2>2. PICK i \in DOMAIN command.targets[k].declarations : d = command.targets[k].declarations[i]
    BY <2>1
  <2>3. /\ d.name \in DOMAIN market
        /\ \A alternative \in d.range : \A term \in alternative : TermRead(d.syntax, term)
        /\ \A j \in DOMAIN market[d.name].list : VersionOf(d.syntax, market[d.name].list[j].ver)
        /\ \A r \in Releases : r.name = d.name => VersionOf(d.syntax, r.entry.ver)
    BY <1>4, <2>2, Zenon
  <2>4. Declared1(d)
    BY <2>3, Zenon DEF Declared1
  <2>5. Versioned(d, market[d.name].list)
    BY <1>3, <2>3, Zenon DEF Versioned
  <2> QED
    BY <2>3, <2>4, <2>5, Zenon
<1> QED
  BY <1>3, <1>5, Zenon

LEMMA SettledStays ==
  ASSUME NEW d, NEW answer, NEW s, NEW u, NEW t, NEW w, Settled(d, answer, s, u), Directs(s) \subseteq Directs(t), u => w
  PROVE  Settled(d, answer, t, w)
BY Zenon DEF Settled

ReplyTells(d, answer, reply) ==
  /\ reply.kind = "resolved" => reply.refs # {} /\ \A ref \in reply.refs : Resolves(d, answer, ref)
  /\ answer.kind = "list" /\ HighestAllowed(d, answer.list) # {} => reply.kind = "resolved"
  /\ answer.kind = "down" => reply.kind = "unread"

LEMMA ReplyIs ==
  ASSUME NEW d, NEW answer, answer.kind \in {"list", "unknown", "down"}
  PROVE  ReplyTells(d, answer, Reply(d, answer))
<1> DEFINE best == HighestAllowed(d, answer.list)
           reply == Reply(d, answer)
           refs == {<<answer.name, v>> : v \in best}
<1>1. answer.kind = "down" => reply = [kind |-> "unread", refs |-> {}]
  BY DEF Reply
<1>2. answer.kind = "unknown" => reply = [kind |-> "skipped", refs |-> {}]
  BY DEF Reply
<1>3. answer.kind = "list" => reply = [kind |-> IF best = {} THEN "skipped" ELSE "resolved", refs |-> refs]
  BY DEF Reply
<1>4. best # {} => refs # {}
  OBVIOUS
<1>5. \A ref \in refs : \E v \in best : ref = <<answer.name, v>>
  OBVIOUS
<1> HIDE DEF best, reply, refs
<1>6. CASE answer.kind = "down"
  <2>1. reply.kind = "unread"
    BY <1>1, <1>6
  <2> QED
    BY <1>6, <2>1 DEF reply, ReplyTells
<1>7. CASE answer.kind = "unknown"
  <2>1. reply.kind = "skipped"
    BY <1>2, <1>7
  <2> QED
    BY <1>7, <2>1 DEF reply, ReplyTells
<1>8. CASE answer.kind = "list"
  <2>1. reply.refs = refs /\ (best = {} => reply.kind = "skipped") /\ (best # {} => reply.kind = "resolved")
    BY <1>3, <1>8
  <2>2. reply.kind = "resolved" => best # {}
    BY <2>1
  <2>3. \A ref \in refs : Resolves(d, answer, ref)
    BY <1>5, <1>8 DEF Resolves, best
  <2>4. answer.kind # "down"
    BY <1>8
  <2> QED
    BY <1>4, <2>1, <2>2, <2>3, <2>4, Zenon DEF reply, best, ReplyTells
<1> QED
  BY <1>6, <1>7, <1>8
LEMMA CheckInitInv == CheckInit => CheckInv
<1> SUFFICES ASSUME CheckInit PROVE CheckInv
  OBVIOUS
<1>1. InputFits
  <2>1. PICK family \in Given : \E g \in family : command = g.command /\ market = g.market
    BY DEF CheckInit
  <2>2. PICK g \in family : command = g.command /\ market = g.market
    BY <2>1
  <2>3. Begins(g)
    BY CheckAssumption, <2>1, <2>2
  <2> DEFINE h == [command |-> command, market |-> market]
  <2>4. h.command = g.command /\ h.market = g.market
    BY <2>2
  <2> HIDE DEF h
  <2>5. Begins(h)
    BY <2>3, <2>4 DEF Begins
  <2> QED
    BY <2>5 DEF InputFits, h
<1>2. /\ known = [n \in DOMAIN market |-> [kind |-> "unasked", name |-> n, list |-> <<>>]]
      /\ place = 1 /\ replies = <<>> /\ subjects = <<>> /\ code = -1
  BY DEF CheckInit
<1>3. IsList(<<>>) /\ DOMAIN <<>> = {}
  <2>1. <<>> \in Seq({}) /\ DOMAIN <<>> = 1..0 /\ 1..0 = {}
    OBVIOUS
  <2> QED
    BY <2>1, ListIs
<1>4. AnswersFit
  <2>1. \A n \in DOMAIN market : known[n].kind = "unasked" /\ known[n].list = <<>>
    BY <1>2
  <2>2. DOMAIN known = DOMAIN market
    BY <1>2
  <2>3. \A d \in Declarations : known[d.name].list = <<>>
    BY <1>1, <2>1, DeclarationsFit
  <2>4. \A d \in Declarations : Versioned(d, known[d.name].list)
    BY <1>3, <2>3 DEF Versioned
  <2> QED
    BY <2>1, <2>2, <2>4 DEF AnswersFit
<1>5. PlaceFits
  <2>1. Len(command.targets) \in Nat
    BY <1>1, DeclarationsAre
  <2> QED
    BY <1>2, <2>1 DEF PlaceFits
<1>6. RepliesFit
  BY <1>2, <1>3, Zenon DEF RepliesFit
<1>7. SubjectsFit
  <2>1. Directs(<<>>) = {} /\ Unique(<<>>)
    BY <1>3 DEF Directs, Unique
  <2> QED
    BY <1>2, <1>3, <2>1, Zenon DEF SubjectsFit
<1>8. PassedSettled
  <2>1. \A k \in DOMAIN command.targets : ~(k < place)
    BY <1>1, <1>2, DeclarationsAre
  <2> QED
    BY <2>1, Zenon DEF PassedSettled
<1>9. CodeTells
  BY <1>2 DEF CodeTells
<1> QED
  BY <1>1, <1>4, <1>5, <1>6, <1>7, <1>8, <1>9, Zenon DEF CheckInv

(* What most actions leave alone.                                           *)
LEMMA InputStays ==
  ASSUME InputFits, UNCHANGED <<command, market>>
  PROVE  InputFits' /\ Declarations' = Declarations
<1>1. Declarations' = Declarations
  BY DEF Declarations
<1>2. InputFits'
  BY DEF InputFits
<1> QED
  BY <1>1, <1>2

LEMMA AnswersStay ==
  ASSUME AnswersFit, UNCHANGED <<command, market, known>>
  PROVE  AnswersFit'
<1>1. Declarations' = Declarations
  BY DEF Declarations
<1> QED
  BY <1>1 DEF AnswersFit

LEMMA ReferenceStep ==
  ASSUME CheckInv, TakeReference
  PROVE  CheckInv'
<1> DEFINE t == command.targets[place]
           in == [ref |-> t.ref, direct |-> FALSE, nameOnly |-> t.nameOnly]
<1>1. /\ InputFits /\ AnswersFit /\ PlaceFits /\ RepliesFit /\ SubjectsFit /\ PassedSettled /\ CodeTells
  BY Zenon DEF CheckInv
<1>2. /\ Reading("ref") /\ subjects' = Add(subjects, in) /\ place' = place + 1
      /\ UNCHANGED <<command, market, known, replies, unread, releases, code>>
  BY Zenon DEF TakeReference
<1>3. code = -1 /\ place <= Len(command.targets) /\ t.kind = "ref"
  BY <1>2, Zenon DEF Reading
<1>4. /\ Len(command.targets) \in Nat /\ DOMAIN command.targets = 1..Len(command.targets) /\ place \in DOMAIN command.targets
      /\ place \in Nat
  <2>1. Len(command.targets) \in Nat /\ DOMAIN command.targets = 1..Len(command.targets)
    BY <1>1, DeclarationsAre
  <2> QED
    BY <1>1, <1>3, <2>1 DEF PlaceFits
<1>5. t.declarations = <<>>
  BY <1>1, <1>3, <1>4, DeclarationsAre
<1>6. InputFits' /\ Declarations' = Declarations /\ AnswersFit'
  BY <1>1, <1>2, InputStays, AnswersStay
<1>7. PlaceFits'
  BY <1>2, <1>3, <1>4 DEF PlaceFits
<1>8. RepliesFit'
  <2>1. ~Reading("manifest")
    BY <1>3 DEF Reading
  <2>2. Declared = <<>>
    BY <2>1, Zenon DEF Declared
  <2>3. DOMAIN <<>> = {}
    OBVIOUS
  <2>4. DOMAIN replies = {}
    BY <1>1, <2>2, <2>3 DEF RepliesFit
  <2>5. DOMAIN replies' = {}
    BY <1>2, <2>4
  <2> QED
    BY <2>5, Zenon DEF RepliesFit
<1>9. ~in.direct
  BY Zenon
<1> HIDE DEF in
<1>10. IsList(subjects') /\ Unique(subjects') /\ Directs(subjects') = Directs(subjects)
  <2>1. IsList(subjects) /\ Unique(subjects)
    BY <1>1, Zenon DEF SubjectsFit
  <2>2. /\ IsList(Add(subjects, in)) /\ Unique(Add(subjects, in))
        /\ \A ref : ref \in Directs(Add(subjects, in)) <=> ref \in Directs(subjects) \/ (in.direct /\ ref = in.ref)
    BY <2>1, AddIs, Zenon
  <2>3. \A ref : ref \in Directs(Add(subjects, in)) <=> ref \in Directs(subjects)
    BY <1>9, <2>2, Zenon
  <2>4. Directs(Add(subjects, in)) = Directs(subjects)
    BY <2>3
  <2> QED
    BY <1>2, <2>2, <2>4
<1>11. SubjectsFit'
  <2>1. \A ref \in Directs(subjects') : \E d \in Declarations' : Resolves(d, known'[d.name], ref)
    BY <1>1, <1>2, <1>6, <1>10 DEF SubjectsFit
  <2> QED
    BY <1>10, <2>1, Zenon DEF SubjectsFit
<1>12. PassedSettled'
  <2> SUFFICES ASSUME NEW k \in DOMAIN command.targets, k < place + 1, NEW i \in DOMAIN command.targets[k].declarations
               PROVE  Settled(command.targets[k].declarations[i], known[command.targets[k].declarations[i].name], subjects', unread)
    BY <1>2, Zenon DEF PassedSettled
  <2>1. k # place
    <3>1. DOMAIN <<>> = {}
      OBVIOUS
    <3> QED
      BY <1>5, <3>1
  <2>2. k < place
    BY <1>4, <2>1
  <2>3. Settled(command.targets[k].declarations[i], known[command.targets[k].declarations[i].name], subjects, unread)
    BY <1>1, <2>2, Zenon DEF PassedSettled
  <2>4. Directs(subjects) \subseteq Directs(subjects')
    BY <1>10
  <2> QED
    BY <2>3, <2>4, SettledStays
<1>13. CodeTells'
  BY <1>2, <1>3 DEF CodeTells
<1> QED
  BY <1>6, <1>7, <1>8, <1>11, <1>12, <1>13, Zenon DEF CheckInv
LEMMA ReplyStep ==
  ASSUME CheckInv, NEW i, ResolveDeclaration(i)
  PROVE  CheckInv'
<1> DEFINE d == Declared[i]
           answer == IF known[d.name].kind = "unasked" THEN market[d.name] ELSE known[d.name]
<1>1. /\ InputFits /\ AnswersFit /\ PlaceFits /\ RepliesFit /\ SubjectsFit /\ PassedSettled /\ CodeTells
  BY Zenon DEF CheckInv
<1>2. /\ Reading("manifest") /\ i \in DOMAIN Declared
      /\ known' = [known EXCEPT ![d.name] = answer]
      /\ replies' = [k \in DOMAIN replies \cup {i} |-> IF k = i THEN Reply(d, answer) ELSE replies[k]]
      /\ UNCHANGED <<command, market, place, subjects, unread, releases, code>>
  BY Zenon DEF ResolveDeclaration
<1>3. code = -1 /\ place <= Len(command.targets)
  BY <1>2, Zenon DEF Reading
<1>4. /\ Len(command.targets) \in Nat /\ DOMAIN command.targets = 1..Len(command.targets) /\ place \in DOMAIN command.targets
  <2>1. Len(command.targets) \in Nat /\ DOMAIN command.targets = 1..Len(command.targets)
    BY <1>1, DeclarationsAre
  <2> QED
    BY <1>1, <1>3, <2>1 DEF PlaceFits
<1>5. Declared = command.targets[place].declarations
  BY <1>2, Zenon DEF Declared
<1>6. InputFits' /\ Declarations' = Declarations
  BY <1>1, <1>2, InputStays
<1>7. \A k \in DOMAIN Declared : Declared[k] \in Declarations
  BY <1>1, <1>4, <1>5, DeclarationsAre
<1>8. Declared' = Declared
  BY <1>2 DEF Declared, Reading
<1>9. d \in Declarations /\ d.name \in DOMAIN market /\ DOMAIN known = DOMAIN market
  <2>1. d \in Declarations
    BY <1>2, <1>7
  <2>2. d.name \in DOMAIN market
    BY <1>1, <2>1, DeclarationsFit
  <2>3. DOMAIN known = DOMAIN market
    BY <1>1, Zenon DEF AnswersFit
  <2> QED
    BY <2>1, <2>2, <2>3
<1>10. answer.kind \in {"list", "unknown", "down"}
  <2>1. market[d.name].kind \in {"list", "unknown", "down"}
    BY <1>1, <1>9, DeclarationsFit
  <2>2. known[d.name].kind \in {"unasked", "list", "unknown", "down"}
    BY <1>1, <1>9, Zenon DEF AnswersFit
  <2> QED
    BY <2>1, <2>2
<1>11. known[d.name].kind # "unasked" => answer = known[d.name]
  OBVIOUS
<1>12. answer = market[d.name] \/ answer = known[d.name]
  OBVIOUS
<1> HIDE DEF answer, d
<1>13. DOMAIN known' = DOMAIN known /\ \A n \in DOMAIN known : known'[n] = IF n = d.name THEN answer ELSE known[n]
  BY <1>2
<1>14. \A n \in DOMAIN known : known[n].kind # "unasked" => known'[n] = known[n]
  BY <1>11, <1>13
<1>15. \A e \in Declarations : e.name \in DOMAIN known
  BY <1>1, <1>9, DeclarationsFit
<1>16. AnswersFit'
  <2>1. \A n \in DOMAIN known' : known'[n].kind \in {"unasked", "list", "unknown", "down"}
    <3>1. \A n \in DOMAIN known : known[n].kind \in {"unasked", "list", "unknown", "down"}
      BY <1>1, Zenon DEF AnswersFit
    <3> QED
      BY <1>10, <1>13, <3>1
  <2>2. ASSUME NEW e \in Declarations PROVE Versioned(e, known'[e.name].list)
    <3>1. Versioned(e, known[e.name].list)
      BY <1>1, Zenon DEF AnswersFit
    <3>2. Versioned(e, market[e.name].list)
      BY <1>1, DeclarationsFit
    <3>3. known'[e.name] = known[e.name] \/ known'[e.name] = market[e.name]
      BY <1>12, <1>13, <1>15
    <3> QED
      BY <3>1, <3>2, <3>3
  <2>3. DOMAIN known' = DOMAIN market'
    BY <1>2, <1>9, <1>13
  <2>4. \A e \in Declarations' : Versioned(e, known'[e.name].list)
    BY <1>6, <2>2
  <2> QED
    BY <2>1, <2>3, <2>4, Zenon DEF AnswersFit
<1>17. PlaceFits'
  BY <1>1, <1>2 DEF PlaceFits
<1>18. RepliesFit'
  <2>1. DOMAIN replies' = DOMAIN replies \cup {i}
    BY <1>2
  <2>2. DOMAIN replies' \subseteq DOMAIN Declared'
    BY <1>1, <1>2, <1>8, <2>1 DEF RepliesFit
  <2>3. ASSUME NEW k \in DOMAIN replies'
        PROVE  known'[Declared[k].name].kind # "unasked" /\ replies'[k] = Reply(Declared[k], known'[Declared[k].name])
    <3>1. replies'[k] = IF k = i THEN Reply(d, answer) ELSE replies[k]
      BY <1>2, <2>1
    <3>2. CASE k = i
      <4>1. Declared[k] = d
        BY <3>2 DEF d
      <4>2. known'[d.name] = answer
        BY <1>9, <1>13
      <4> QED
        BY <1>10, <3>1, <3>2, <4>1, <4>2
    <3>3. CASE k # i
      <4>1. k \in DOMAIN replies
        BY <2>1, <3>3
      <4>2. known[Declared[k].name].kind # "unasked" /\ replies[k] = Reply(Declared[k], known[Declared[k].name])
        BY <1>1, <4>1, Zenon DEF RepliesFit
      <4>3. Declared[k] \in Declarations
        BY <1>1, <1>7, <4>1 DEF RepliesFit
      <4>4. known'[Declared[k].name] = known[Declared[k].name]
        BY <1>14, <1>15, <4>2, <4>3
      <4> QED
        BY <3>1, <3>3, <4>2, <4>4
    <3> QED
      BY <3>2, <3>3
  <2> QED
    BY <1>8, <2>2, <2>3, Zenon DEF RepliesFit
<1>19. SubjectsFit'
  <2>1. \A ref \in Directs(subjects) : \E e \in Declarations : Resolves(e, known[e.name], ref)
    BY <1>1, Zenon DEF SubjectsFit
  <2>2. \A e \in Declarations : \A ref : Resolves(e, known[e.name], ref) => Resolves(e, known'[e.name], ref)
    <3> SUFFICES ASSUME NEW e \in Declarations, NEW ref, Resolves(e, known[e.name], ref) PROVE Resolves(e, known'[e.name], ref)
      BY Zenon
    <3>1. known[e.name].kind = "list"
      BY Zenon DEF Resolves
    <3>2. known'[e.name] = known[e.name]
      BY <1>14, <1>15, <3>1
    <3> QED
      BY <3>2
  <2>3. \A ref \in Directs(subjects') : \E e \in Declarations' : Resolves(e, known'[e.name], ref)
    BY <1>2, <1>6, <2>1, <2>2
  <2>4. IsList(subjects') /\ Unique(subjects')
    BY <1>1, <1>2 DEF SubjectsFit
  <2> QED
    BY <2>3, <2>4, Zenon DEF SubjectsFit
<1>20. PassedSettled'
  <2> SUFFICES ASSUME NEW k \in DOMAIN command.targets, k < place, NEW j \in DOMAIN command.targets[k].declarations
               PROVE  Settled(command.targets[k].declarations[j], known'[command.targets[k].declarations[j].name], subjects, unread)
    BY <1>2, Zenon DEF PassedSettled
  <2> DEFINE e == command.targets[k].declarations[j]
  <2>1. Settled(e, known[e.name], subjects, unread)
    BY <1>1, Zenon DEF PassedSettled
  <2>2. e \in Declarations
    BY <1>1, DeclarationsAre
  <2> HIDE DEF e
  <2>3. known[e.name].kind # "unasked"
    BY <2>1, Zenon DEF Settled
  <2>4. known'[e.name] = known[e.name]
    BY <1>14, <1>15, <2>2, <2>3
  <2>5. Settled(e, known'[e.name], subjects, unread)
    BY <2>1, <2>4
  <2> QED
    BY <2>5 DEF e
<1>21. CodeTells'
  BY <1>2, <1>3 DEF CodeTells
<1> QED
  BY <1>6, <1>16, <1>17, <1>18, <1>19, <1>20, <1>21, Zenon DEF CheckInv

LEMMA CollectStep ==
  ASSUME CheckInv, Collect
  PROVE  CheckInv'
<1> DEFINE answered == [i \in DOMAIN Declared |-> replies[i]]
<1>1. /\ InputFits /\ AnswersFit /\ PlaceFits /\ RepliesFit /\ SubjectsFit /\ PassedSettled /\ CodeTells
  BY Zenon DEF CheckInv
<1>2. /\ Reading("manifest") /\ DOMAIN replies = DOMAIN Declared
      /\ subjects' = Collected(subjects, answered)
      /\ unread' = (unread \/ \E i \in DOMAIN replies : replies[i].kind = "unread")
      /\ place' = place + 1 /\ replies' = <<>>
      /\ UNCHANGED <<command, market, known, releases, code>>
  BY Zenon DEF Collect
<1>3. code = -1 /\ place <= Len(command.targets)
  BY <1>2, Zenon DEF Reading
<1>4. /\ Len(command.targets) \in Nat /\ DOMAIN command.targets = 1..Len(command.targets) /\ place \in DOMAIN command.targets
      /\ place \in Nat
  <2>1. Len(command.targets) \in Nat /\ DOMAIN command.targets = 1..Len(command.targets)
    BY <1>1, DeclarationsAre
  <2> QED
    BY <1>1, <1>3, <2>1 DEF PlaceFits
<1>5. Declared = command.targets[place].declarations
  BY <1>2, Zenon DEF Declared
<1>6. InputFits' /\ Declarations' = Declarations /\ AnswersFit'
  BY <1>1, <1>2, InputStays, AnswersStay
<1>7. IsList(Declared) /\ \A k \in DOMAIN Declared : Declared[k] \in Declarations
  BY <1>1, <1>4, <1>5, DeclarationsAre
<1>8. Len(Declared) \in Nat /\ DOMAIN Declared = 1..Len(Declared)
  BY <1>7, ListIs
<1>9. Len(answered) = Len(Declared) /\ \A m \in DOMAIN Declared : answered[m] = replies[m]
  <2> DEFINE S == {replies[m] : m \in DOMAIN Declared}
             n == Len(Declared)
  <2>1. n \in Nat /\ DOMAIN Declared = 1..n
    BY <1>8
  <2>2. answered \in [1..n -> S]
    BY <2>1
  <2> HIDE DEF S, n, answered
  <2>3. answered \in Seq(S) /\ Len(answered) = n
    BY <2>1, <2>2
  <2>4. \A m \in DOMAIN Declared : answered[m] = replies[m]
    BY DEF answered
  <2> QED
    BY <2>3, <2>4 DEF n
<1> HIDE DEF answered
<1>10. ASSUME NEW m \in DOMAIN Declared
       PROVE  LET d == Declared[m]
                  answer == known[d.name]
              IN /\ d \in Declarations /\ answer.kind # "unasked"
                 /\ answered[m].kind = "resolved" =>
                      answered[m].refs # {} /\ \A ref \in answered[m].refs : Resolves(d, answer, ref)
                 /\ answer.kind = "list" /\ HighestAllowed(d, answer.list) # {} => answered[m].kind = "resolved"
                 /\ answer.kind = "down" => answered[m].kind = "unread"
  <2> DEFINE d == Declared[m]
             answer == known[d.name]
  <2>1. d \in Declarations
    BY <1>7
  <2>2. d.name \in DOMAIN known
    BY <1>1, <2>1, DeclarationsFit DEF AnswersFit
  <2>3. answer.kind # "unasked" /\ answered[m] = Reply(d, answer)
    BY <1>1, <1>2, <1>9, Zenon DEF RepliesFit
  <2>4. answer.kind \in {"unasked", "list", "unknown", "down"}
    BY <1>1, <2>2, Zenon DEF AnswersFit
  <2> HIDE DEF answer, d
  <2>5. answer.kind \in {"list", "unknown", "down"}
    BY <2>3, <2>4
  <2>6. /\ answered[m].kind = "resolved" =>
             answered[m].refs # {} /\ \A ref \in answered[m].refs : Resolves(d, answer, ref)
        /\ answer.kind = "list" /\ HighestAllowed(d, answer.list) # {} => answered[m].kind = "resolved"
        /\ answer.kind = "down" => answered[m].kind = "unread"
    <3>1. ReplyTells(d, answer, answered[m])
      BY <2>3, <2>5, ReplyIs
    <3> QED
      BY <3>1, Zenon DEF ReplyTells
  <2> QED
    BY <2>1, <2>3, <2>6, Zenon DEF answer, d
<1>11. Collects(subjects, answered, Len(Declared), subjects')
  <2>1. IsList(subjects) /\ Unique(subjects)
    BY <1>1, Zenon DEF SubjectsFit
  <2>2. Len(answered) \in Nat /\ \A m \in 1..Len(answered) : answered[m].kind = "resolved" => answered[m].refs # {}
    BY <1>8, <1>9, <1>10
  <2>3. Collects(subjects, answered, Len(answered), Collected(subjects, answered))
    BY <2>1, <2>2, CollectedIs
  <2> QED
    BY <1>2, <1>9, <2>3
<1>12. /\ IsList(subjects') /\ Unique(subjects') /\ Directs(subjects) \subseteq Directs(subjects')
       /\ \A m \in DOMAIN Declared : answered[m].kind = "resolved" => \E ref \in answered[m].refs : ref \in Directs(subjects')
       /\ \A ref \in Directs(subjects') :
            ref \in Directs(subjects) \/ \E m \in DOMAIN Declared : answered[m].kind = "resolved" /\ ref \in answered[m].refs
  BY <1>8, <1>11, Zenon DEF Collects
<1>13. PlaceFits'
  BY <1>2, <1>3, <1>4 DEF PlaceFits
<1>14. RepliesFit'
  <2>1. DOMAIN replies' = {}
    BY <1>2
  <2> QED
    BY <2>1, Zenon DEF RepliesFit
<1>15. SubjectsFit'
  <2>1. ASSUME NEW ref \in Directs(subjects') PROVE \E d \in Declarations : Resolves(d, known[d.name], ref)
    <3>1. CASE ref \in Directs(subjects)
      BY <1>1, <3>1, Zenon DEF SubjectsFit
    <3>2. CASE ref \notin Directs(subjects)
      <4>1. PICK m \in DOMAIN Declared : answered[m].kind = "resolved" /\ ref \in answered[m].refs
        BY <1>12, <3>2
      <4> DEFINE d == Declared[m]
      <4>2. d \in Declarations /\ Resolves(d, known[d.name], ref)
        BY <1>10, <4>1
      <4> QED
        BY <4>2, Zenon
    <3> QED
      BY <3>1, <3>2
  <2>2. \A ref \in Directs(subjects') : \E d \in Declarations' : Resolves(d, known'[d.name], ref)
    BY <1>2, <1>6, <2>1
  <2> QED
    BY <1>12, <2>2, Zenon DEF SubjectsFit
<1>16. unread => unread'
  BY <1>2
<1>17. PassedSettled'
  <2> SUFFICES ASSUME NEW k \in DOMAIN command.targets, k < place + 1, NEW i \in DOMAIN command.targets[k].declarations
               PROVE  Settled(command.targets[k].declarations[i], known[command.targets[k].declarations[i].name], subjects', unread')
    BY <1>2, Zenon DEF PassedSettled
  <2> DEFINE d == command.targets[k].declarations[i]
             answer == known[d.name]
  <2>1. CASE k = place
    <3>1. i \in DOMAIN Declared /\ d = Declared[i]
      BY <1>5, <2>1
    <3>2. /\ answer.kind # "unasked"
          /\ answered[i].kind = "resolved" =>
               answered[i].refs # {} /\ \A ref \in answered[i].refs : Resolves(d, answer, ref)
          /\ answer.kind = "list" /\ HighestAllowed(d, answer.list) # {} => answered[i].kind = "resolved"
          /\ answer.kind = "down" => answered[i].kind = "unread"
      BY <1>10, <3>1
    <3> HIDE DEF answer, d
    <3>3. answered[i].kind = "resolved" => \E ref \in answered[i].refs : ref \in Directs(subjects')
      BY <1>12, <3>1
    <3>4. answered[i].kind = "unread" => unread'
      BY <1>2, <1>9, <3>1
    <3>5. answer.kind = "list" /\ HighestAllowed(d, answer.list) # {} => \E ref \in Directs(subjects') : Resolves(d, answer, ref)
      BY <3>2, <3>3, Zenon
    <3>6. answer.kind = "down" => unread'
      BY <3>2, <3>4, Zenon
    <3>7. Settled(d, answer, subjects', unread')
      BY <3>2, <3>5, <3>6, Zenon DEF Settled
    <3> QED
      BY <3>7 DEF d, answer
  <2>2. CASE k # place
    <3>1. k < place
      BY <1>4, <2>2
    <3>2. Settled(d, answer, subjects, unread)
      BY <1>1, <3>1, Zenon DEF PassedSettled
    <3> QED
      BY <1>12, <1>16, <3>2, SettledStays
  <2> QED
    BY <2>1, <2>2
<1>18. CodeTells'
  BY <1>2, <1>3 DEF CodeTells
<1> QED
  BY <1>6, <1>13, <1>14, <1>15, <1>17, <1>18, Zenon DEF CheckInv
LEMMA JudgeStep ==
  ASSUME CheckInv, NEW worst, NEW unavailable, Judge(worst, unavailable)
  PROVE  CheckInv'
<1>1. /\ InputFits /\ AnswersFit /\ PlaceFits /\ RepliesFit /\ SubjectsFit /\ PassedSettled /\ CodeTells
  BY Zenon DEF CheckInv
<1>2. /\ code = -1 /\ place > Len(command.targets) /\ code' = CodeOf(worst, unavailable)
      /\ UNCHANGED <<command, market, known, place, replies, subjects, unread, releases>>
  BY Zenon DEF Judge
<1>3. Len(command.targets) \in Nat
  BY <1>1, DeclarationsAre
<1>4. place \in Nat /\ ~(place <= Len(command.targets))
  BY <1>1, <1>2, <1>3 DEF PlaceFits
<1>5. InputFits' /\ Declarations' = Declarations /\ AnswersFit'
  BY <1>1, <1>2, InputStays, AnswersStay
<1>6. PlaceFits'
  BY <1>1, <1>2 DEF PlaceFits
<1>7. RepliesFit'
  <2>1. ~Reading("manifest")
    BY <1>4, Zenon DEF Reading
  <2>2. Declared = <<>>
    BY <2>1, Zenon DEF Declared
  <2>3. DOMAIN <<>> = {}
    OBVIOUS
  <2>4. DOMAIN replies = {}
    BY <1>1, <2>2, <2>3 DEF RepliesFit
  <2>5. DOMAIN replies' = {}
    BY <1>2, <2>4
  <2> QED
    BY <2>5, Zenon DEF RepliesFit
<1>8. SubjectsFit'
  BY <1>1, <1>2, <1>5 DEF SubjectsFit
<1>9. PassedSettled'
  BY <1>1, <1>2 DEF PassedSettled
<1>10. CodeTells'
  <2>1. CodeOf(worst, unavailable) = 0 => ~(command.fails /\ (unavailable \/ unread))
    <3>1. CASE worst \in Fatal
      BY <3>1 DEF CodeOf
    <3>2. CASE worst \notin Fatal /\ command.fails /\ (unavailable \/ unread)
      BY <3>2 DEF CodeOf
    <3>3. CASE worst \notin Fatal /\ ~(command.fails /\ (unavailable \/ unread))
      BY <3>3, Zenon
    <3> QED
      BY <3>1, <3>2, <3>3, Zenon
  <2>2. code' = 0 /\ command'.fails => ~unread'
    BY <1>2, <2>1
  <2>3. place' > Len(command'.targets)
    BY <1>2
  <2> QED
    BY <2>2, <2>3, Zenon DEF CodeTells
<1> QED
  BY <1>5, <1>6, <1>7, <1>8, <1>9, <1>10, Zenon DEF CheckInv

LEMMA ReleaseStep ==
  ASSUME CheckInv, NEW r \in Releases, Release(r)
  PROVE  CheckInv'
<1> DEFINE old == market[r.name]
           new == [kind |-> "list", name |-> old.name, list |-> Append(old.list, r.entry)]
<1>1. /\ InputFits /\ AnswersFit /\ PlaceFits /\ RepliesFit /\ SubjectsFit /\ PassedSettled /\ CodeTells
  BY Zenon DEF CheckInv
<1>2. /\ r.name \in DOMAIN market
      /\ market' = [market EXCEPT ![r.name] = new]
      /\ UNCHANGED <<command, known, place, replies, subjects, unread, code>>
  BY DEF Release
<1>3. Declarations' = Declarations
  BY <1>2 DEF Declarations
<1>4. IsList(old.list)
  BY <1>1, <1>2, DeclarationsFit
<1>5. new.kind = "list" /\ new.list = Append(old.list, r.entry)
  OBVIOUS
<1>6. /\ IsList(new.list) /\ Len(old.list) \in Nat /\ DOMAIN new.list = 1..(Len(old.list) + 1) /\ DOMAIN old.list = 1..Len(old.list)
      /\ new.list[Len(old.list) + 1] = r.entry /\ \A j \in DOMAIN old.list : new.list[j] = old.list[j]
  <2> DEFINE S == {old.list[j] : j \in DOMAIN old.list}
             s == old.list
             more == Append(s, r.entry)
  <2>1. s \in Seq(S)
    BY <1>4, Zenon DEF IsList
  <2> HIDE DEF S, s
  <2>2. s \in Seq(S \cup {r.entry}) /\ r.entry \in S \cup {r.entry}
    BY <2>1
  <2>3. /\ more \in Seq(S \cup {r.entry}) /\ Len(s) \in Nat /\ DOMAIN more = 1..(Len(s) + 1) /\ DOMAIN s = 1..Len(s)
        /\ more[Len(s) + 1] = r.entry /\ \A j \in DOMAIN s : more[j] = s[j]
    BY <2>2
  <2> HIDE DEF more
  <2>4. IsList(more)
    BY <2>3, ListIs
  <2>5. new.list = more
    BY <1>5 DEF more, s
  <2> HIDE DEF new
  <2> QED
    BY <2>3, <2>4, <2>5 DEF s
<1> HIDE DEF new, old
<1>7. DOMAIN market' = DOMAIN market /\ \A n \in DOMAIN market : market'[n] = IF n = r.name THEN new ELSE market[n]
  BY <1>2
<1>8. InputFits'
  <2> DEFINE g == [command |-> command, market |-> market]
             h == [command |-> command', market |-> market']
  <2>1. g.command = command /\ g.market = market /\ h.command = command /\ h.market = market'
    BY <1>2
  <2>2. Begins(g)
    BY <1>1 DEF InputFits
  <2> HIDE DEF g, h
  <2>3. \A n \in DOMAIN market' : market'[n].kind \in {"list", "unknown", "down"} /\ IsList(market'[n].list)
    <3>1. \A n \in DOMAIN market : market[n].kind \in {"list", "unknown", "down"} /\ IsList(market[n].list)
      BY <1>1, DeclarationsFit
    <3> QED
      BY <1>5, <1>6, <1>7, <3>1
  <2>4. ASSUME NEW d \in Declarations
        PROVE  /\ d.name \in DOMAIN market'
               /\ \A alternative \in d.range : \A term \in alternative : TermRead(d.syntax, term)
               /\ \A j \in DOMAIN market'[d.name].list : VersionOf(d.syntax, market'[d.name].list[j].ver)
               /\ \A x \in Releases : x.name = d.name => VersionOf(d.syntax, x.entry.ver)
    <3>1. /\ d.name \in DOMAIN market /\ Declared1(d) /\ Versioned(d, market[d.name].list)
          /\ \A x \in Releases : x.name = d.name => VersionOf(d.syntax, x.entry.ver)
      BY <1>1, DeclarationsFit
    <3>2. \A j \in DOMAIN market[d.name].list : VersionOf(d.syntax, market[d.name].list[j].ver)
      BY <3>1, Zenon DEF Versioned
    <3>3. CASE d.name # r.name
      BY <1>7, <3>1, <3>2, <3>3 DEF Declared1
    <3>4. CASE d.name = r.name
      <4>1. market'[d.name] = new /\ market[d.name] = old
        BY <1>7, <3>1, <3>4 DEF old
      <4>2. VersionOf(d.syntax, r.entry.ver)
        BY <3>1, <3>4
      <4>3. ASSUME NEW j \in DOMAIN new.list PROVE VersionOf(d.syntax, new.list[j].ver)
        <5>1. j \in DOMAIN old.list \/ j = Len(old.list) + 1
          BY <1>6
        <5> QED
          BY <1>6, <3>2, <4>1, <4>2, <5>1
      <4> QED
        BY <1>7, <3>1, <4>1, <4>3 DEF Declared1
    <3> QED
      BY <3>3, <3>4
  <2>5. \A k \in DOMAIN command.targets : \A i \in DOMAIN command.targets[k].declarations :
          command.targets[k].declarations[i] \in Declarations
    BY <1>1, DeclarationsAre
  <2>6. \A k \in DOMAIN command.targets : \A i \in DOMAIN command.targets[k].declarations :
          LET d == command.targets[k].declarations[i]
          IN /\ d.name \in DOMAIN market'
             /\ \A alternative \in d.range : \A term \in alternative : TermRead(d.syntax, term)
             /\ \A j \in DOMAIN market'[d.name].list : VersionOf(d.syntax, market'[d.name].list[j].ver)
             /\ \A x \in Releases : x.name = d.name => VersionOf(d.syntax, x.entry.ver)
    BY <2>4, <2>5, Zenon
  <2>7. /\ IsList(command.targets)
        /\ \A k \in DOMAIN command.targets :
             LET t == command.targets[k]
             IN t.kind \in {"ref", "manifest"} /\ IsList(t.declarations) /\ (t.kind = "ref" => t.declarations = <<>>)
    BY <2>1, <2>2, Zenon DEF Begins
  <2>8. Begins(h)
    BY <2>1, <2>3, <2>6, <2>7, Zenon DEF Begins
  <2> QED
    BY <2>8 DEF InputFits, h
<1>9. AnswersFit'
  BY <1>1, <1>2, <1>3, <1>7 DEF AnswersFit
<1>10. PlaceFits' /\ CodeTells'
  BY <1>1, <1>2 DEF PlaceFits, CodeTells
<1>11. RepliesFit'
  <2>1. Declared' = Declared
    BY <1>2 DEF Declared, Reading
  <2> QED
    BY <1>1, <1>2, <2>1 DEF RepliesFit
<1>12. SubjectsFit'
  BY <1>1, <1>2, <1>3 DEF SubjectsFit
<1>13. PassedSettled'
  BY <1>1, <1>2 DEF PassedSettled
<1> QED
  BY <1>8, <1>9, <1>10, <1>11, <1>12, <1>13, Zenon DEF CheckInv

LEMMA CheckStepInv == CheckInv /\ [CheckNext]_checkVars => CheckInv'
<1> SUFFICES ASSUME CheckInv, [CheckNext]_checkVars PROVE CheckInv'
  OBVIOUS
<1>1. CASE TakeReference
  BY <1>1, ReferenceStep
<1>2. CASE \E i \in DOMAIN Declared : ResolveDeclaration(i)
  BY <1>2, ReplyStep
<1>3. CASE Collect
  BY <1>3, CollectStep
<1>4. CASE \E worst \in {"none", "info", "warn", "block"}, unavailable \in BOOLEAN : Judge(worst, unavailable)
  BY <1>4, JudgeStep
<1>5. CASE \E r \in Releases : Release(r)
  BY <1>5, ReleaseStep
<1>6. CASE UNCHANGED checkVars
  <2>1. UNCHANGED <<command, market, known, place, replies, subjects, unread, releases, code>>
    BY <1>6 DEF checkVars
  <2>2. /\ InputFits /\ AnswersFit /\ PlaceFits /\ RepliesFit /\ SubjectsFit /\ PassedSettled /\ CodeTells
    BY Zenon DEF CheckInv
  <2>3. InputFits' /\ Declarations' = Declarations /\ AnswersFit'
    BY <2>1, <2>2, InputStays, AnswersStay
  <2>4. Declared' = Declared
    BY <2>1 DEF Declared, Reading
  <2>5. PlaceFits' /\ CodeTells'
    BY <2>1, <2>2 DEF PlaceFits, CodeTells
  <2>6. RepliesFit'
    BY <2>1, <2>2, <2>4 DEF RepliesFit
  <2>7. SubjectsFit'
    BY <2>1, <2>2, <2>3 DEF SubjectsFit
  <2>8. PassedSettled'
    BY <2>1, <2>2 DEF PassedSettled
  <2> QED
    BY <2>3, <2>5, <2>6, <2>7, <2>8, Zenon DEF CheckInv
<1> QED
  BY <1>1, <1>2, <1>3, <1>4, <1>5, <1>6, Zenon DEF CheckNext

(* At the end: what was evaluated is what the answers make of the manifests.*)
LEMMA InvEvaluates == CheckInv => EvaluatesWhatInstalls
<1> SUFFICES ASSUME CheckInv, code # -1 PROVE EvaluatesWhatInstalls
  BY Zenon DEF EvaluatesWhatInstalls
<1>1. /\ InputFits /\ AnswersFit /\ PlaceFits /\ RepliesFit /\ SubjectsFit /\ PassedSettled /\ CodeTells
  BY Zenon DEF CheckInv
<1>2. ASSUME NEW d \in Declarations
      PROVE  Settled(d, known[d.name], subjects, unread) /\ Versioned(d, known[d.name].list) /\ Declared1(d)
  <2>1. PICK k \in DOMAIN command.targets : \E i \in DOMAIN command.targets[k].declarations : d = command.targets[k].declarations[i]
    BY <1>1, DeclarationsAre, Zenon
  <2>2. PICK i \in DOMAIN command.targets[k].declarations : d = command.targets[k].declarations[i]
    BY <2>1
  <2>3. k < place
    <3>1. Len(command.targets) \in Nat /\ DOMAIN command.targets = 1..Len(command.targets)
      BY <1>1, DeclarationsAre
    <3>2. place > Len(command.targets)
      BY <1>1, Zenon DEF CodeTells
    <3>3. place \in 1..(Len(command.targets) + 1)
      BY <1>1 DEF PlaceFits
    <3> QED
      BY <3>1, <3>2, <3>3
  <2>4. Settled(d, known[d.name], subjects, unread)
    BY <1>1, <2>2, <2>3, Zenon DEF PassedSettled
  <2>5. Versioned(d, known[d.name].list)
    BY <1>1, Zenon DEF AnswersFit
  <2>6. Declared1(d)
    BY <1>1, DeclarationsFit
  <2> QED
    BY <2>4, <2>5, <2>6
<1>3. \A ref : ref \in Directs(subjects) <=> \E i \in DOMAIN subjects : subjects[i].direct /\ subjects[i].ref = ref
  BY Zenon DEF Directs
<1>4. ASSUME NEW d \in Declarations, NEW ref, Resolves(d, known[d.name], ref)
      PROVE  LET answer == known[d.name]
             IN /\ ref[1] = answer.name
                /\ \E i \in Candidates(d, answer.list) : ref[2] = answer.list[i].ver
                /\ \A i \in Candidates(d, answer.list) : ~Higher(d, answer.list[i].ver, ref[2])
  <2> DEFINE answer == known[d.name]
  <2>1. PICK v \in HighestAllowed(d, answer.list) : ref = <<answer.name, v>>
    BY <1>4 DEF Resolves
  <2>2. ref[1] = answer.name /\ ref[2] = v
    BY <2>1
  <2>3. Versioned(d, answer.list)
    BY <1>2
  <2> HIDE DEF answer
  <2>4. /\ \E i \in Candidates(d, answer.list) : v = answer.list[i].ver
        /\ \A i \in Candidates(d, answer.list) : ~Higher(d, answer.list[i].ver, v)
    BY <2>3, HighestIs
  <2>5. /\ ref[1] = answer.name
        /\ \E i \in Candidates(d, answer.list) : ref[2] = answer.list[i].ver
        /\ \A i \in Candidates(d, answer.list) : ~Higher(d, answer.list[i].ver, ref[2])
    BY <2>2, <2>4
  <2> QED
    BY <2>5 DEF answer
<1>5. ASSUME NEW d \in Declarations, BoundsTell(d)
      PROVE  \A i : i \in Candidates(d, known[d.name].list) <=>
               i \in {k \in DOMAIN known[d.name].list : ~known[d.name].list[k].yanked /\ AllowedAsWritten(d, known[d.name].list[k].ver)}
  <2> DEFINE list == known[d.name].list
  <2>1. Versioned(d, list) /\ Declared1(d)
    BY <1>2
  <2> HIDE DEF list
  <2>2. \A i \in DOMAIN list : Allows(d, list[i].ver) <=> AllowedAsWritten(d, list[i].ver)
    <3> SUFFICES ASSUME NEW i \in DOMAIN list PROVE Allows(d, list[i].ver) <=> AllowedAsWritten(d, list[i].ver)
      BY Zenon
    <3>1. VersionOf(d.syntax, list[i].ver)
      BY <2>1, Zenon DEF Versioned
    <3> QED
      BY <1>5, <2>1, <3>1, AllowsAsWritten
  <2>3. \A i : i \in Candidates(d, list) <=> i \in {k \in DOMAIN list : ~list[k].yanked /\ AllowedAsWritten(d, list[k].ver)}
    BY <2>2, Zenon DEF Candidates
  <2> QED
    BY <2>3, Zenon DEF list
<1>6. ASSUME NEW d \in Declarations
      PROVE  LET answer == known[d.name]
                 meant == {answer.list[i].ver : i \in {k \in DOMAIN answer.list : ~answer.list[k].yanked /\ AllowedAsWritten(d, answer.list[k].ver)}}
                 taken == {i \in DOMAIN subjects : subjects[i].direct /\ subjects[i].ref[1] = answer.name /\ subjects[i].ref[2] \in meant}
             IN BoundsTell(d) /\ answer.kind = "list" =>
                  (meant # {} => \E i \in taken : \A v \in meant : ~Higher(d, v, subjects[i].ref[2]))
  <2> DEFINE answer == known[d.name]
             C == {k \in DOMAIN answer.list : ~answer.list[k].yanked /\ AllowedAsWritten(d, answer.list[k].ver)}
             meant == {answer.list[i].ver : i \in C}
             taken == {i \in DOMAIN subjects : subjects[i].direct /\ subjects[i].ref[1] = answer.name /\ subjects[i].ref[2] \in meant}
  <2> SUFFICES ASSUME BoundsTell(d), answer.kind = "list", meant # {}
               PROVE  \E i \in taken : \A v \in meant : ~Higher(d, v, subjects[i].ref[2])
    BY Zenon
  <2>1. \A i : i \in Candidates(d, answer.list) <=> i \in C
    BY <1>5
  <2>2. C # {}
    OBVIOUS
  <2>3. \A v : v \in meant <=> \E i \in C : v = answer.list[i].ver
    BY Zenon
  <2>4. \A i : i \in taken <=> /\ i \in DOMAIN subjects /\ subjects[i].direct
                               /\ subjects[i].ref[1] = answer.name /\ subjects[i].ref[2] \in meant
    BY Zenon
  <2>5. Settled(d, answer, subjects, unread) /\ Versioned(d, answer.list)
    BY <1>2
  <2>6. HighestAllowed(d, answer.list) # {}
    <3> HIDE DEF answer, C
    <3>1. Candidates(d, answer.list) # {}
      BY <2>1, <2>2
    <3> QED
      BY <2>5, <3>1, HighestIs
  <2>7. PICK ref \in Directs(subjects) : Resolves(d, answer, ref)
    BY <2>5, <2>6, Zenon DEF Settled
  <2>8. /\ ref[1] = answer.name
        /\ \E i \in Candidates(d, answer.list) : ref[2] = answer.list[i].ver
        /\ \A i \in Candidates(d, answer.list) : ~Higher(d, answer.list[i].ver, ref[2])
    BY <1>4, <2>7
  <2> HIDE DEF answer, C, meant, taken
  <2>9. PICK i \in DOMAIN subjects : subjects[i].direct /\ subjects[i].ref = ref
    BY <1>3, <2>7, Zenon
  <2>10. i \in taken
    BY <2>1, <2>3, <2>4, <2>8, <2>9, Zenon
  <2>11. \A v \in meant : ~Higher(d, v, subjects[i].ref[2])
    <3> SUFFICES ASSUME NEW v \in meant PROVE ~Higher(d, v, ref[2])
      BY <2>9
    <3>1. PICK k \in C : v = answer.list[k].ver
      BY <2>3
    <3>2. k \in Candidates(d, answer.list)
      BY <2>1
    <3> QED
      BY <2>8, <3>1, <3>2
  <2> QED
    BY <2>10, <2>11
<1>7. \A i \in DOMAIN subjects : \A j \in DOMAIN subjects : subjects[i].ref = subjects[j].ref => i = j
  BY <1>1, Zenon DEF SubjectsFit, Unique
<1>8. ASSUME NEW i \in DOMAIN subjects, subjects[i].direct
      PROVE  \E d \in Declarations : known[d.name].name = subjects[i].ref[1] /\ (BoundsTell(d) => AllowedAsWritten(d, subjects[i].ref[2]))
  <2> DEFINE ref == subjects[i].ref
  <2>1. ref \in Directs(subjects)
    BY <1>3, <1>8, Zenon
  <2>2. PICK d \in Declarations : Resolves(d, known[d.name], ref)
    BY <1>1, <2>1, Zenon DEF SubjectsFit
  <2> HIDE DEF ref
  <2>3. /\ ref[1] = known[d.name].name
        /\ \E k \in Candidates(d, known[d.name].list) : ref[2] = known[d.name].list[k].ver
    BY <1>4, <2>2
  <2>4. BoundsTell(d) => AllowedAsWritten(d, ref[2])
    <3> SUFFICES ASSUME BoundsTell(d) PROVE AllowedAsWritten(d, ref[2])
      BY Zenon
    <3>1. PICK k \in Candidates(d, known[d.name].list) : ref[2] = known[d.name].list[k].ver
      BY <2>3
    <3>2. k \in {j \in DOMAIN known[d.name].list : ~known[d.name].list[j].yanked /\ AllowedAsWritten(d, known[d.name].list[j].ver)}
      BY <1>5
    <3>3. AllowedAsWritten(d, known[d.name].list[k].ver)
      BY <3>2, Zenon
    <3> QED
      BY <3>1, <3>3
  <2> QED
    BY <2>3, <2>4, Zenon DEF ref
<1>9. code = 0 /\ command.fails => \A d \in Declarations : known[d.name].kind # "down"
  <2> SUFFICES ASSUME code = 0, command.fails, NEW d \in Declarations, known[d.name].kind = "down" PROVE FALSE
    BY Zenon
  <2>1. ~unread
    BY <1>1, Zenon DEF CodeTells
  <2>2. Settled(d, known[d.name], subjects, unread)
    BY <1>2
  <2> QED
    BY <2>1, <2>2, Zenon DEF Settled
<1> QED
  BY <1>6, <1>7, <1>8, <1>9, Zenon DEF EvaluatesWhatInstalls

(* What check evaluates is what an install now would bring in: of every     *)
(* declaration whose registry answered and whose bounds tell (BoundsTell),  *)
(* the highest version its range means, once, and nothing no range means;   *)
(* for every manifest, registry and release meanwhile (cli/check.go:288,    *)
(* manifest/resolve.go:135).                                                *)
THEOREM CheckEvaluatesWhatInstalls == CheckSpec => []EvaluatesWhatInstalls
<1>1. CheckInv => EvaluatesWhatInstalls
  BY InvEvaluates
<1> QED
  BY <1>1, CheckInitInv, CheckStepInv, PTL DEF CheckSpec
=============================================================================
