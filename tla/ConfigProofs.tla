---------------------------- MODULE ConfigProofs ----------------------------
(***************************************************************************)
(* The files a person writes and trustdiff edits, the package managers'    *)
(* settings (Doctor) and the policy (Policy), for any number of runs,      *)
(* askers, files, rules, edits and instants: nothing a person wrote is     *)
(* lost, and an exception that is written grants what was asked for and    *)
(* nothing else. A run of doctor only looks at its own state, so most of   *)
(* its invariant is about one run's state s.                               *)
(***************************************************************************)
EXTENDS Doctor, Policy, WellFoundedInduction, TLAPS

(* A set of natural numbers that is not empty has a least one.              *)
LEMMA Least ==
  ASSUME NEW S \in SUBSET Nat, S # {}
  PROVE  \E i \in S : \A j \in S : i <= j
<1> DEFINE R == {ss \in Nat \X Nat : ss[1] < ss[2]}
<1>1. IsWellFoundedOn(R, Nat)
  BY NatLessThanWellFounded, Zenon DEF OpToRel
<1>2. PICK i \in S : \A j \in S : ~(<<j, i>> \in R)
  <2> HIDE DEF R
  <2> QED
    BY <1>1, WFMin
<1>3. \A j \in S : ~(j < i)
  BY <1>2
<1> QED
  BY <1>3

AtFile(s) == s.results[s.rule].file
AtKey(s) == Rules[s.rule].key
Active(s) == s.phase \notin {"idle", "ended", "killed"}

(* Of the backups bs a whole one holds the content o of f.                  *)
Saved(f, o, bs) == \E b \in bs : b.file = f /\ b.whole /\ b.content = o

(* What a person wrote in the content o stands in d.                        *)
Agrees(d, o) ==
  /\ d.kind = "file" /\ d.text = o.text
  /\ \A k \in Keys : o.keys[k] \in {"theirs", "locked", "ours"} => d.keys[k] = o.keys[k]

(* A setting judged missing is not one a person stated. l is what people    *)
(* left.                                                                    *)
MissingInv(s, l) ==
  \A i \in DOMAIN Rules : s.results[i].status = "missing" =>
    /\ s.results[i].file \in Files
    /\ l[s.results[i].file].kind = "file" =>
         l[s.results[i].file].keys[Rules[i].key] \notin {"theirs", "ours"}

(* A run that is about to write edits the text a person left, at a key      *)
(* nobody stated.                                                           *)
EditedInv(s, l) ==
  s.phase \in {"edited", "copying", "copied"} =>
    /\ AtFile(s) \in Files
    /\ s.data[1] \in Document /\ s.data[1].kind # "link"
    /\ l[AtFile(s)].kind = "file" =>
         Agrees(s.data[1], l[AtFile(s)]) /\ l[AtFile(s)].keys[AtKey(s)] = "unset"

(* A file a run has copied is safe.                                         *)
CopiedInv(s, l, bs) == \A f \in s.copied : l[f].kind = "file" => Saved(f, l[f], bs)

(* A copy under way exists, is not whole, and copies what a person left     *)
(* unless that is safe already.                                             *)
CopyingInv(s, l, bs) ==
  \E b \in bs :
    /\ b.file = AtFile(s) /\ b.second = s.second /\ ~b.whole
    /\ l[b.file].kind = "file" => b.content = l[b.file] \/ Saved(b.file, l[b.file], bs)

RunInv(s, l, bs) ==
  /\ Active(s) => s.second # 0 /\ MissingInv(s, l) /\ CopiedInv(s, l, bs)
  /\ EditedInv(s, l)
  /\ s.phase = "copied" => AtFile(s) \in s.copied
  /\ s.phase = "copying" => CopyingInv(s, l, bs)

RunsInv == \A r \in Runs : RunInv(run[r], left, backups)

(* A backup's name is its own, and no two runs make the same one.           *)
UniqueInv == \A b, c \in backups : b.file = c.file /\ b.second = c.second => b = c
ApartInv ==
  \A r, q \in Runs : run[r].phase = "copying" /\ run[q].phase = "copying" /\ r # q =>
    AtFile(run[r]) # AtFile(run[q]) \/ run[r].second # run[q].second

FilesInv ==
  \A f \in Files :
    /\ left[f].kind = "link" => disk[f] = left[f]
    /\ left[f].kind = "file" => Agrees(disk[f], left[f]) /\ (disk[f] = left[f] \/ Saved(f, left[f], backups))

IInv == TypeOK /\ FilesInv /\ UniqueInv /\ ApartInv /\ RunsInv

-----------------------------------------------------------------------------
(* A rule and its targets.                                                  *)
LEMMA RuleShape ==
  ASSUME NEW i \in DOMAIN Rules
  PROVE  /\ i \in Nat /\ Rules[i].key \in Keys
         /\ Rules[i].targets \in Seq([file : Files, create : BOOLEAN])
         /\ 1 \in DOMAIN Rules[i].targets /\ DOMAIN Rules[i].targets \subseteq Nat
         /\ \A j \in DOMAIN Rules[i].targets :
              Rules[i].targets[j].file \in Files /\ Rules[i].targets[j].create \in BOOLEAN
<1> DEFINE Targeted == [file : Files, create : BOOLEAN]
           Rule == [key : Keys, targets : Seq(Targeted)]
<1>1. Rules \in Seq(Rule)
  BY DoctorAssumption
<1>2. i \in Nat /\ Rules[i] \in Rule
  <2> HIDE DEF Rule
  <2> QED
    BY <1>1
<1>3. Rules[i].key \in Keys /\ Rules[i].targets \in Seq(Targeted) /\ Rules[i].targets # <<>>
  <2> HIDE DEF Targeted
  <2> QED
    BY <1>2, DoctorAssumption
<1>4. /\ DOMAIN Rules[i].targets \subseteq Nat /\ 1 \in DOMAIN Rules[i].targets
      /\ \A j \in DOMAIN Rules[i].targets : Rules[i].targets[j] \in Targeted
  <2> DEFINE t == Rules[i].targets
  <2>1. t \in Seq(Targeted) /\ t # <<>>
    BY <1>3
  <2> HIDE DEF t, Targeted
  <2>2. DOMAIN t \subseteq Nat /\ 1 \in DOMAIN t /\ \A j \in DOMAIN t : t[j] \in Targeted
    BY <2>1
  <2> QED
    BY <2>2 DEF t
<1> QED
  BY <1>2, <1>3, <1>4

LEMMA OutcomeShape ==
  ASSUME NEW status \in {"missing", "unreadable", "set", "wrong"}, NEW f \in Files, NEW create \in BOOLEAN
  PROVE  [status |-> status, file |-> f, create |-> create] \in Outcome
  BY DEF Outcome

(* What judging a rule tells.                                               *)
LEMMA JudgedIsOutcome ==
  ASSUME TypeOK, NEW i \in DOMAIN Rules
  PROVE  /\ Judged(Rules[i]) \in Outcome
         /\ Judged(Rules[i]).status = "missing" =>
              /\ Judged(Rules[i]).file \in Files
              /\ disk[Judged(Rules[i]).file].kind # "link"
              /\ ~Found(Judged(Rules[i]).file, Rules[i].key)
<1> DEFINE rule == Rules[i]
           at(j) == rule.targets[j].file
           ends == {j \in DOMAIN rule.targets : disk[at(j)].kind = "link" \/ Found(at(j), rule.key)}
           fits == {j \in DOMAIN rule.targets : disk[at(j)].kind = "file" \/ rule.targets[j].create}
           First(S) == CHOOSE j \in S : \A k \in S : j <= k
           result(j, status) == [status |-> status, file |-> at(j), create |-> rule.targets[j].create]
<1>1. \A j \in DOMAIN rule.targets : at(j) \in Files /\ rule.targets[j].create \in BOOLEAN
  BY RuleShape
<1>2. ASSUME NEW S \in SUBSET DOMAIN rule.targets, S # {}
      PROVE  First(S) \in S
  <2>1. S \in SUBSET Nat
    BY RuleShape
  <2> QED
    BY <1>2, <2>1, Least
<1>3. CASE ends # {}
  <2> DEFINE j == First(ends)
  <2>1. j \in DOMAIN rule.targets
    BY <1>2, <1>3
  <2>2. Judged(Rules[i]) =
          result(j, IF disk[at(j)].kind = "link" THEN "unreadable"
                    ELSE IF disk[at(j)].keys[rule.key] = "ours" THEN "set" ELSE "wrong")
    BY <1>3 DEF Judged
  <2>3. PICK status \in {"unreadable", "set", "wrong"} : Judged(Rules[i]) = result(j, status)
    BY <2>2
  <2>4. at(j) \in Files /\ rule.targets[j].create \in BOOLEAN
    BY <1>1, <2>1
  <2>5. Judged(Rules[i]).status = status
    BY <2>3
  <2>6. Judged(Rules[i]) \in Outcome
    BY <2>3, <2>4, OutcomeShape
  <2> QED
    BY <2>5, <2>6
<1>4. CASE ends = {}
  <2> DEFINE j == IF fits # {} THEN First(fits) ELSE 1
  <2>1. j \in DOMAIN rule.targets
    BY <1>2, RuleShape
  <2>2. Judged(Rules[i]) = result(j, "missing")
    BY <1>4 DEF Judged
  <2> HIDE DEF j
  <2>3. disk[at(j)].kind # "link" /\ ~Found(at(j), rule.key)
    BY <1>4, <2>1
  <2>4. at(j) \in Files /\ rule.targets[j].create \in BOOLEAN
    BY <1>1, <2>1
  <2>5. Judged(Rules[i]).file = at(j)
    BY <2>2
  <2>6. Judged(Rules[i]) \in Outcome
    BY <2>2, <2>4, OutcomeShape
  <2> QED
    BY <2>3, <2>4, <2>5, <2>6
<1> QED
  BY <1>3, <1>4

-----------------------------------------------------------------------------
(* One run's state.                                                         *)

LEMMA IdleIsProgress == Idle \in Progress /\ ~Active(Idle) /\ RunInv(Idle, left, backups)
<1>1. 1 \in DOMAIN Rules
  BY DoctorAssumption
<1>2. [i \in DOMAIN Rules |-> NoResult] \in [DOMAIN Rules -> Outcome]
  BY DEF NoResult, Outcome
<1>3. Idle \in Progress
  BY <1>1, <1>2, DoctorAssumption DEF Idle, Progress
<1>4. ~Active(Idle) /\ Idle.phase = "idle"
  BY DEF Active, Idle
<1> QED
  BY <1>3, <1>4 DEF RunInv, EditedInv

(* Going on to the next result, or ending.                                  *)
LEMMA AdvanceKeeps ==
  ASSUME NEW s \in Progress, Active(s), RunInv(s, left, backups)
  PROVE  Advance(s) \in Progress /\ RunInv(Advance(s), left, backups) /\ Advance(s).phase # "copying"
<1>1. CASE s.rule = Len(Rules)
  <2>1. Advance(s) = [s EXCEPT !.phase = "ended"]
    BY <1>1 DEF Advance
  <2>2. Advance(s) \in Progress /\ Advance(s).phase = "ended"
    BY <2>1 DEF Progress
  <2> QED
    BY <2>2 DEF RunInv, Active, EditedInv
<1>2. CASE s.rule # Len(Rules)
  <2>1. s.rule \in DOMAIN Rules /\ DOMAIN Rules = 1..Len(Rules) /\ Len(Rules) \in Nat
    BY DoctorAssumption DEF Progress
  <2>2. s.rule + 1 \in DOMAIN Rules
    BY <1>2, <2>1
  <2>3. Advance(s) = [s EXCEPT !.phase = "fix", !.rule = s.rule + 1]
    BY <1>2 DEF Advance
  <2>4. Advance(s) \in Progress
    BY <2>2, <2>3 DEF Progress
  <2>5. /\ Advance(s).phase = "fix" /\ Advance(s).second = s.second
        /\ Advance(s).results = s.results /\ Advance(s).copied = s.copied
    BY <2>3 DEF Progress
  <2> QED
    BY <2>4, <2>5 DEF RunInv, Active, EditedInv, MissingInv, CopiedInv
<1> QED
  BY <1>1, <1>2

(* Stopping where it is.                                                    *)
LEMMA FailKeeps ==
  ASSUME NEW s \in Progress, Active(s), RunInv(s, left, backups), NEW f \in Files, NEW new,
         new = Advance([s EXCEPT !.failed = @ \cup {f}])
  PROVE  new \in Progress /\ RunInv(new, left, backups) /\ new.phase # "copying"
<1> DEFINE t == [s EXCEPT !.failed = @ \cup {f}]
<1>1. t \in Progress
  BY DEF Progress
<1>2. /\ t.phase = s.phase /\ t.second = s.second /\ t.rule = s.rule /\ t.results = s.results
      /\ t.data = s.data /\ t.copied = s.copied
  BY DEF Progress
<1>3. Active(t) /\ RunInv(t, left, backups)
  BY <1>2 DEF RunInv, Active, EditedInv, MissingInv, CopiedInv, CopyingInv, AtFile, AtKey
<1> HIDE DEF t
<1> QED
  BY <1>1, <1>3, AdvanceKeeps DEF t

(* A step of one run that touches nothing but its own state.                *)
LEMMA PassiveStep ==
  ASSUME IInv, NEW r \in Runs, NEW new \in Progress, RunInv(new, left, backups), new.phase # "copying",
         run' = [run EXCEPT ![r] = new], UNCHANGED <<disk, backups, left, edits, clock, exposed>>
  PROVE  IInv'
<1>1. TypeOK'
  BY DEF IInv, TypeOK
<1>2. \A q \in Runs : run'[q] = IF q = r THEN new ELSE run[q]
  BY DEF IInv, TypeOK
<1>3. FilesInv' /\ UniqueInv'
  BY DEF IInv, FilesInv, UniqueInv
<1>4. ApartInv'
  BY <1>2 DEF IInv, ApartInv
<1>5. RunsInv'
  BY <1>2 DEF IInv, RunsInv
<1> QED
  BY <1>1, <1>3, <1>4, <1>5 DEF IInv

(* The file and the key of a run's current result.                          *)
LEMMA TargetIsAtFile == \A r \in Runs : Target(r) = AtFile(run[r]) /\ Key(r) = AtKey(run[r])
  BY DEF Target, Key, AtFile, AtKey

-----------------------------------------------------------------------------
(* The initial states and the steps that write no file.                     *)

LEMMA InitIInv == Init => IInv
<1> SUFFICES ASSUME Init PROVE IInv
  OBVIOUS
<1>1. disk \in [Files -> Document]
  <2>1. {[kind |-> c.kind, text |-> 0, keys |-> c.keys] : c \in Contents} \subseteq Document
    BY DoctorAssumption DEF Document
  <2> QED
    BY <2>1 DEF Init
<1>2. run = [r \in Runs |-> Idle] /\ backups = {} /\ left = disk
  BY DEF Init
<1>3. TypeOK
  BY <1>1, <1>2, IdleIsProgress, DoctorAssumption DEF Init, TypeOK
<1>4. RunsInv
  BY <1>2, IdleIsProgress DEF RunsInv
<1>5. FilesInv
  BY <1>2 DEF FilesInv, Agrees
<1>6. UniqueInv /\ ApartInv
  BY <1>2 DEF UniqueInv, ApartInv, Idle
<1> QED
  BY <1>3, <1>4, <1>5, <1>6 DEF IInv

LEMMA BeginStep ==
  ASSUME IInv, NEW r \in Runs, Begin(r)
  PROVE  IInv'
<1> DEFINE new == [Idle EXCEPT !.phase = "judge", !.second = clock]
<1>1. clock \in 1..MaxClock /\ Idle \in Progress
  BY IdleIsProgress DEF IInv, TypeOK
<1>2. new \in Progress /\ new.phase = "judge" /\ new.second = clock /\ new.results = Idle.results /\ new.copied = {}
  <2>1. clock \in 0..MaxClock
    BY <1>1, DoctorAssumption
  <2>2. new \in Progress
    BY <1>1, <2>1 DEF Progress
  <2>3. new.phase = "judge" /\ new.second = clock /\ new.results = Idle.results /\ new.copied = Idle.copied
    BY <1>1 DEF Progress
  <2>4. Idle.copied = {}
    BY DEF Idle
  <2> QED
    BY <2>2, <2>3, <2>4
<1>3. \A i \in DOMAIN Rules : new.results[i].status = "none"
  BY <1>2 DEF Idle, NoResult
<1>4. RunInv(new, left, backups)
  <2> HIDE DEF new
  <2> QED
    BY <1>1, <1>2, <1>3 DEF RunInv, EditedInv, MissingInv, CopiedInv
<1>5. run' = [run EXCEPT ![r] = new] /\ UNCHANGED <<disk, backups, left, edits, clock, exposed>>
  BY DEF Begin, Set
<1> HIDE DEF new
<1> QED
  BY <1>2, <1>4, <1>5, PassiveStep

LEMMA JudgeStep ==
  ASSUME IInv, NEW r \in Runs, Judge(r)
  PROVE  IInv'
<1> DEFINE s == run[r]
           i == s.rule
           last == i = Len(Rules)
           new == [s EXCEPT !.results[i] = Judged(Rules[i]),
                            !.rule = IF last THEN 1 ELSE i + 1,
                            !.phase = IF last THEN "fix" ELSE "judge"]
<1>1. s \in Progress /\ s.phase = "judge" /\ RunInv(s, left, backups) /\ TypeOK
  BY DEF IInv, TypeOK, RunsInv, Judge
<1>2. i \in DOMAIN Rules /\ DOMAIN Rules = 1..Len(Rules) /\ Len(Rules) \in Nat
  BY <1>1, DoctorAssumption DEF Progress
<1>3. (IF last THEN 1 ELSE i + 1) \in DOMAIN Rules
  BY <1>2
<1>4. Judged(Rules[i]) \in Outcome
  BY <1>1, <1>2, JudgedIsOutcome
<1>5. new \in Progress
  BY <1>1, <1>3, <1>4 DEF Progress
<1>6. /\ new.phase \in {"fix", "judge"} /\ new.second = s.second /\ new.copied = s.copied
      /\ new.results = [s.results EXCEPT ![i] = Judged(Rules[i])]
  BY <1>1 DEF Progress
<1>7. MissingInv(new, left)
  <2> SUFFICES ASSUME NEW j \in DOMAIN Rules, new.results[j].status = "missing"
               PROVE  /\ new.results[j].file \in Files
                      /\ left[new.results[j].file].kind = "file" =>
                           left[new.results[j].file].keys[Rules[j].key] \notin {"theirs", "ours"}
    BY DEF MissingInv
  <2>1. s.results \in [DOMAIN Rules -> Outcome]
    BY <1>1 DEF Progress
  <2>2. CASE j # i
    <3>1. new.results[j] = s.results[j]
      BY <1>6, <2>1, <2>2
    <3> QED
      BY <1>1, <2>2, <3>1 DEF RunInv, Active, MissingInv
  <2>3. CASE j = i
    <3> DEFINE f == Judged(Rules[i]).file
               k == Rules[i].key
    <3>1. new.results[j] = Judged(Rules[i])
      BY <1>6, <2>1, <2>3
    <3>2. f \in Files /\ disk[f].kind # "link" /\ ~Found(f, k)
      BY <1>1, <1>2, <2>3, <3>1, JudgedIsOutcome
    <3>3. k \in Keys
      BY <1>2, RuleShape
    <3>4. ASSUME left[f].kind = "file" PROVE left[f].keys[k] \notin {"theirs", "ours"}
      <4>1. Agrees(disk[f], left[f])
        BY <3>2, <3>4 DEF IInv, FilesInv
      <4> QED
        BY <3>2, <3>3, <4>1 DEF Agrees, Found
    <3> HIDE DEF new, f
    <3> QED
      BY <2>3, <3>1, <3>2, <3>4 DEF f
  <2> QED
    BY <2>2, <2>3
<1>8. RunInv(new, left, backups)
  <2> HIDE DEF new
  <2> QED
    BY <1>1, <1>6, <1>7 DEF RunInv, Active, EditedInv, CopiedInv
<1>9. run' = [run EXCEPT ![r] = new] /\ UNCHANGED <<disk, backups, left, edits, clock, exposed>>
  BY DEF Judge, Set
<1> HIDE DEF new
<1> QED
  BY <1>5, <1>6, <1>8, <1>9, PassiveStep

LEMMA WithData ==
  ASSUME NEW s \in Progress, NEW d \in Seq(Document)
  PROVE  [s EXCEPT !.phase = "edited", !.data = d] \in Progress
  BY DEF Progress

LEMMA ReadStep ==
  ASSUME IInv, NEW r \in Runs, Read(r)
  PROVE  IInv'
<1> DEFINE s == run[r]
           f == Target(r)
           now == disk[f]
           new == [s EXCEPT !.phase = "edited", !.data = <<now>>]
<1>1. s \in Progress /\ s.phase = "fix" /\ Active(s) /\ RunInv(s, left, backups)
  BY DEF IInv, TypeOK, RunsInv, Read, Active
<1>2. UNCHANGED <<disk, backups, left, edits, clock, exposed>>
  BY DEF Read
<1>3. CASE Pass(r)
  <2>1. run' = [run EXCEPT ![r] = Advance(s)]
    BY <1>3 DEF Pass, Set
  <2> QED
    BY <1>1, <1>2, <2>1, AdvanceKeeps, PassiveStep
<1>4. s.rule \in DOMAIN Rules
  BY <1>1 DEF Progress
<1>5. CASE s.results[s.rule].status = "missing"
  <2>1. /\ f \in Files /\ f = AtFile(s)
        /\ left[f].kind = "file" => left[f].keys[Key(r)] \notin {"theirs", "ours"}
    BY <1>1, <1>4, <1>5 DEF RunInv, MissingInv, Target, Key, AtFile
  <2>2. CASE Fail(r)
    <3>1. run' = [run EXCEPT ![r] = Advance([s EXCEPT !.failed = @ \cup {f}])]
      BY <2>2 DEF Fail, Set
    <3> QED
      BY <1>1, <1>2, <2>1, <3>1, FailKeeps, PassiveStep
  <2>3. CASE /\ now.kind # "link"
             /\ ~(now.kind = "file" /\ now.keys[Key(r)] \in {"ours", "locked"})
             /\ run' = [run EXCEPT ![r] = new]
    <3>1. now \in Document
      BY <2>1 DEF IInv, TypeOK
    <3>2. new \in Progress
      <4>1. <<now>> \in Seq(Document)
        BY <3>1
      <4> QED
        BY <1>1, <4>1, WithData
    <3>3. /\ new.phase = "edited" /\ new.second = s.second /\ new.copied = s.copied
          /\ new.results = s.results /\ new.rule = s.rule /\ new.data[1] = now
      <4>1. new.data = <<now>>
        BY <1>1 DEF Progress
      <4>2. new.data[1] = now
        BY <4>1
      <4> QED
        BY <1>1, <4>2 DEF Progress
    <3>4. ASSUME left[f].kind = "file"
          PROVE  Agrees(now, left[f]) /\ left[f].keys[Key(r)] = "unset"
      <4>1. Agrees(now, left[f])
        BY <2>1, <3>4 DEF IInv, FilesInv
      <4>2. Key(r) \in Keys
        BY <1>4, RuleShape DEF Key
      <4>3. left[f].keys[Key(r)] \in Values
        BY <2>1, <4>2 DEF IInv, TypeOK, Document
      <4>4. left[f].keys[Key(r)] # "locked"
        BY <2>3, <4>1, <4>2 DEF Agrees
      <4> QED
        BY <2>1, <3>4, <4>1, <4>3, <4>4 DEF Values
    <3>5. RunInv(new, left, backups)
      <4>1. AtFile(new) = f /\ AtKey(new) = Key(r)
        BY <2>1, <3>3 DEF AtFile, AtKey, Key
      <4>2. EditedInv(new, left)
        BY <2>1, <2>3, <3>1, <3>3, <3>4, <4>1 DEF EditedInv
      <4> HIDE DEF new
      <4> QED
        BY <1>1, <3>3, <4>2 DEF RunInv, Active, MissingInv, CopiedInv
    <3> HIDE DEF new
    <3> QED
      BY <1>2, <2>3, <3>2, <3>3, <3>5, PassiveStep
  <2> QED
    BY <1>3, <1>5, <2>2, <2>3 DEF Read, ReadConfig, Set
<1> QED
  BY <1>3, <1>5 DEF Read

LEMMA StopStep ==
  ASSUME IInv, NEW r \in Runs, RefuseBackup(r) \/ FailWrite(r) \/ Kill(r)
  PROVE  IInv'
<1> DEFINE s == run[r]
<1>1. s \in Progress /\ RunInv(s, left, backups) /\ UNCHANGED <<disk, backups, left, edits, clock, exposed>>
  BY DEF IInv, TypeOK, RunsInv, RefuseBackup, FailWrite, Kill
<1>2. CASE RefuseBackup(r) \/ FailWrite(r)
  <2>1. s.phase \in {"edited", "copied"} /\ Fail(r)
    BY <1>2 DEF RefuseBackup, FailWrite, Ready
  <2>2. Active(s) /\ Target(r) \in Files
    BY <1>1, <2>1, TargetIsAtFile DEF Active, RunInv, EditedInv
  <2>3. run' = [run EXCEPT ![r] = Advance([s EXCEPT !.failed = @ \cup {Target(r)}])]
    BY <2>1 DEF Fail, Set
  <2> QED
    BY <1>1, <2>2, <2>3, FailKeeps, PassiveStep
<1>3. CASE Kill(r)
  <2> DEFINE new == [s EXCEPT !.phase = "killed"]
  <2>1. new \in Progress /\ new.phase = "killed" /\ run' = [run EXCEPT ![r] = new]
    BY <1>1, <1>3 DEF Progress, Kill, Set
  <2> HIDE DEF new
  <2>2. RunInv(new, left, backups)
    BY <2>1 DEF RunInv, Active, EditedInv
  <2> QED
    BY <1>1, <2>1, <2>2, PassiveStep
<1> QED
  BY <1>2, <1>3

-----------------------------------------------------------------------------
(* Copies.                                                                  *)

(* What is safe stays safe while no whole backup goes.                      *)
LEMMA SavedStays ==
  ASSUME NEW f, NEW o, NEW bs, NEW more, \A b \in bs : b.whole => b \in more, Saved(f, o, bs)
  PROVE  Saved(f, o, more)
  BY DEF Saved

(* A run may add a backup, and while it is copying change the one it makes: *)
(* the other runs do not notice.                                            *)
LEMMA OthersKeep ==
  ASSUME IInv, NEW r \in Runs, NEW more,
         \A b \in backups : b.whole => b \in more,
         \A b \in backups : b \in more \/ (run[r].phase = "copying" /\ Named(r, b)),
         NEW q \in Runs, q # r
  PROVE  RunInv(run[q], left, more)
<1> DEFINE s == run[q]
<1>1. RunInv(s, left, backups)
  BY DEF IInv, RunsInv
<1>2. CopiedInv(s, left, backups) => CopiedInv(s, left, more)
  BY SavedStays DEF CopiedInv
<1>3. ASSUME s.phase = "copying" PROVE CopyingInv(s, left, more)
  <2>1. PICK b \in backups : /\ b.file = AtFile(s) /\ b.second = s.second /\ ~b.whole
                             /\ left[b.file].kind = "file" =>
                                  b.content = left[b.file] \/ Saved(b.file, left[b.file], backups)
    BY <1>1, <1>3 DEF RunInv, CopyingInv
  <2>2. ~(run[r].phase = "copying" /\ Named(r, b))
    BY <1>3, <2>1, TargetIsAtFile DEF IInv, ApartInv, Named
  <2>3. b \in more
    BY <2>2
  <2> QED
    BY <2>1, <2>3, SavedStays DEF CopyingInv
<1> QED
  BY <1>1, <1>2, <1>3 DEF RunInv

(* The files are as safe as they were.                                      *)
LEMMA FilesKeep ==
  ASSUME IInv, \A b \in backups : b.whole => b \in backups', UNCHANGED <<disk, left>>
  PROVE  FilesInv'
<1> SUFFICES ASSUME NEW f \in Files
             PROVE  /\ left[f].kind = "link" => disk[f] = left[f]
                    /\ left[f].kind = "file" =>
                         Agrees(disk[f], left[f]) /\ (disk[f] = left[f] \/ Saved(f, left[f], backups'))
  BY DEF FilesInv
<1> QED
  BY SavedStays DEF IInv, FilesInv

LEMMA BeginBackupStep ==
  ASSUME IInv, NEW r \in Runs, BeginBackup(r)
  PROVE  IInv'
<1> DEFINE s == run[r]
           f == Target(r)
           b0 == [file |-> f, second |-> s.second, whole |-> FALSE, content |-> disk[f]]
           new == [s EXCEPT !.phase = "copying"]
<1>1. s \in Progress /\ s.phase = "edited" /\ Active(s) /\ RunInv(s, left, backups)
  BY DEF IInv, TypeOK, RunsInv, BeginBackup, Active
<1>2. UNCHANGED <<disk, left, edits, clock, exposed>> /\ run' = [run EXCEPT ![r] = new]
  BY DEF BeginBackup, Set
<1>3. backups' = backups \cup {b0} /\ \A b \in backups : ~Named(r, b)
  BY DEF BeginBackup, OpenBackup
<1>4. f = AtFile(s) /\ f \in Files /\ s.second # 0 /\ s.second \in 0..MaxClock
  BY <1>1, TargetIsAtFile DEF RunInv, EditedInv, Progress
<1>5. /\ b0 \in Backup
      /\ b0.file = f /\ b0.second = s.second /\ b0.whole = FALSE /\ b0.content = disk[f]
  <2>1. disk[f] \in Document /\ s.second \in 1..MaxClock
    BY <1>4, DoctorAssumption DEF IInv, TypeOK
  <2> QED
    BY <1>4, <2>1 DEF Backup
<1>6. new \in Progress /\ new.phase = "copying" /\ new.second = s.second /\ new.rule = s.rule
      /\ new.results = s.results /\ new.data = s.data /\ new.copied = s.copied
  BY <1>1 DEF Progress
<1> HIDE DEF new, b0
<1>7. TypeOK'
  BY <1>2, <1>3, <1>5, <1>6 DEF IInv, TypeOK
<1>8. \A q \in Runs : run'[q] = IF q = r THEN new ELSE run[q]
  BY <1>2 DEF IInv, TypeOK
<1>9. AtFile(new) = f /\ AtKey(new) = AtKey(s)
  BY <1>4, <1>6 DEF AtFile, AtKey
<1>10. RunInv(new, left, backups')
  <2>1. left[f].kind = "file" => disk[f] = left[f] \/ Saved(f, left[f], backups')
    BY <1>3, <1>4, SavedStays DEF IInv, FilesInv
  <2>2. CopyingInv(new, left, backups')
    <3>1. b0 \in backups' /\ b0.file = AtFile(new) /\ b0.second = new.second /\ ~b0.whole
      BY <1>3, <1>5, <1>6, <1>9
    <3>2. left[b0.file].kind = "file" =>
            b0.content = left[b0.file] \/ Saved(b0.file, left[b0.file], backups')
      BY <1>5, <2>1
    <3> QED
      BY <3>1, <3>2 DEF CopyingInv
  <2>3. CopiedInv(new, left, backups')
    BY <1>1, <1>3, <1>6, SavedStays DEF RunInv, CopiedInv
  <2>4. MissingInv(new, left) /\ EditedInv(new, left)
    BY <1>1, <1>4, <1>6, <1>9 DEF RunInv, MissingInv, EditedInv
  <2> QED
    BY <1>1, <1>4, <1>6, <2>2, <2>3, <2>4 DEF RunInv
<1>11. RunsInv'
  <2>1. \A q \in Runs : q # r => RunInv(run[q], left, backups')
    BY <1>3, OthersKeep
  <2> QED
    BY <1>2, <1>8, <1>10, <2>1 DEF RunsInv
<1>12. UniqueInv'
  BY <1>3, <1>5 DEF IInv, UniqueInv, Named
<1>13. ApartInv'
  <2>1. ASSUME NEW q \in Runs, q # r, run[q].phase = "copying"
        PROVE  AtFile(run[q]) # f \/ run[q].second # s.second
    <3>1. PICK b \in backups : b.file = AtFile(run[q]) /\ b.second = run[q].second
      BY <2>1 DEF IInv, RunsInv, RunInv, CopyingInv
    <3> QED
      BY <1>3, <3>1 DEF Named
  <2> QED
    BY <1>6, <1>8, <1>9, <2>1 DEF IInv, ApartInv
<1>14. FilesInv'
  BY <1>2, <1>3, FilesKeep
<1> QED
  BY <1>7, <1>11, <1>12, <1>13, <1>14 DEF IInv

(* The copy a copying run makes is the only backup of its name.             *)
LEMMA OwnCopy ==
  ASSUME IInv, NEW r \in Runs, run[r].phase = "copying"
  PROVE  \E c \in backups :
           /\ Named(r, c) /\ ~c.whole /\ \A b \in backups : Named(r, b) => b = c
           /\ left[Target(r)].kind = "file" =>
                c.content = left[Target(r)] \/ Saved(Target(r), left[Target(r)], backups)
<1>1. PICK c \in backups :
        /\ c.file = AtFile(run[r]) /\ c.second = run[r].second /\ ~c.whole
        /\ left[c.file].kind = "file" => c.content = left[c.file] \/ Saved(c.file, left[c.file], backups)
  BY DEF IInv, RunsInv, RunInv, CopyingInv
<1>2. Named(r, c) /\ \A b \in backups : Named(r, b) => b = c
  BY <1>1, TargetIsAtFile DEF IInv, UniqueInv, Named
<1> QED
  BY <1>1, <1>2, TargetIsAtFile

LEMMA EndBackupStep ==
  ASSUME IInv, NEW r \in Runs, EndBackup(r)
  PROVE  IInv'
<1> DEFINE s == run[r]
           f == Target(r)
           new == [s EXCEPT !.phase = "copied", !.copied = @ \cup {f}]
<1>1. s \in Progress /\ s.phase = "copying" /\ Active(s) /\ RunInv(s, left, backups)
  BY DEF IInv, TypeOK, RunsInv, EndBackup, Active
<1>2. UNCHANGED <<disk, left, edits, clock, exposed>> /\ run' = [run EXCEPT ![r] = new]
  BY DEF EndBackup, Set
<1>3. PICK c \in backups :
        /\ Named(r, c) /\ ~c.whole /\ \A b \in backups : Named(r, b) => b = c
        /\ left[f].kind = "file" => c.content = left[f] \/ Saved(f, left[f], backups)
  BY <1>1, OwnCopy
<1> DEFINE done == [c EXCEPT !.whole = TRUE]
<1>4. /\ c \in Backup /\ done \in Backup
      /\ done.whole /\ done.file = c.file /\ done.second = c.second /\ done.content = c.content
  BY DEF IInv, TypeOK, Backup
<1>5. backups' = (backups \ {c}) \cup {done}
  <2>1. backups' = {IF Named(r, b) THEN [b EXCEPT !.whole = TRUE] ELSE b : b \in backups}
    BY DEF EndBackup
  <2>2. \A b \in backups : Named(r, b) <=> b = c
    BY <1>3
  <2> HIDE DEF done
  <2>3. backups' = {IF b = c THEN done ELSE b : b \in backups}
    BY <2>1, <2>2 DEF done
  <2> QED
    BY <2>3
<1>6. f = AtFile(s) /\ f \in Files
  BY <1>1, TargetIsAtFile DEF RunInv, EditedInv
<1>7. new \in Progress /\ new.phase = "copied" /\ new.second = s.second /\ new.rule = s.rule
      /\ new.results = s.results /\ new.data = s.data /\ new.copied = s.copied \cup {f}
  BY <1>1, <1>6 DEF Progress
<1> HIDE DEF new, done
<1>8. TypeOK'
  BY <1>2, <1>4, <1>5, <1>7 DEF IInv, TypeOK
<1>9. \A q \in Runs : run'[q] = IF q = r THEN new ELSE run[q]
  BY <1>2 DEF IInv, TypeOK
<1>10. \A b \in backups : b.whole => b \in backups'
  BY <1>3, <1>5
<1>11. left[f].kind = "file" => Saved(f, left[f], backups')
  <2>1. CASE c.content = left[f]
    BY <1>3, <1>4, <1>5, <2>1 DEF Saved, Named
  <2> QED
    BY <1>3, <1>10, <2>1, SavedStays
<1>12. AtFile(new) = f /\ AtKey(new) = AtKey(s)
  BY <1>6, <1>7 DEF AtFile, AtKey
<1>13. RunInv(new, left, backups')
  <2>1. CopiedInv(new, left, backups')
    BY <1>1, <1>7, <1>10, <1>11, SavedStays DEF RunInv, CopiedInv
  <2>2. MissingInv(new, left) /\ EditedInv(new, left)
    BY <1>1, <1>6, <1>7, <1>12 DEF RunInv, MissingInv, EditedInv
  <2>3. AtFile(new) \in new.copied
    BY <1>7, <1>12
  <2> QED
    BY <1>1, <1>7, <2>1, <2>2, <2>3 DEF RunInv
<1>14. RunsInv'
  <2>1. \A b \in backups : b \in backups' \/ (run[r].phase = "copying" /\ Named(r, b))
    BY <1>1, <1>3, <1>5
  <2>2. \A q \in Runs : q # r => RunInv(run[q], left, backups')
    BY <1>10, <2>1, OthersKeep
  <2> QED
    BY <1>2, <1>9, <1>13, <2>2 DEF RunsInv
<1>15. UniqueInv'
  BY <1>4, <1>5 DEF IInv, UniqueInv
<1>16. ApartInv'
  BY <1>7, <1>9 DEF IInv, ApartInv
<1>17. FilesInv'
  BY <1>2, <1>10, FilesKeep
<1> QED
  BY <1>8, <1>14, <1>15, <1>16, <1>17 DEF IInv

LEMMA SpoilBackupStep ==
  ASSUME IInv, NEW r \in Runs, SpoilBackup(r)
  PROVE  IInv'
<1> DEFINE s == run[r]
           f == Target(r)
           new == Advance([s EXCEPT !.failed = @ \cup {f}])
<1>1. s \in Progress /\ s.phase = "copying" /\ Active(s) /\ RunInv(s, left, backups)
  BY DEF IInv, TypeOK, RunsInv, SpoilBackup, Active
<1>2. /\ UNCHANGED <<disk, left, edits, clock, exposed>> /\ run' = [run EXCEPT ![r] = new]
      /\ backups' = {b \in backups : ~Named(r, b)}
  BY DEF SpoilBackup, Fail, Set
<1>3. f = AtFile(s) /\ f \in Files
  BY <1>1, TargetIsAtFile DEF RunInv, EditedInv
<1>4. \A b \in backups : b.whole => b \in backups'
  BY <1>1, <1>2, OwnCopy
<1>5. new \in Progress /\ new.phase # "copying" /\ RunInv(new, left, backups)
  BY <1>1, <1>3, FailKeeps
<1> HIDE DEF new
<1>6. RunInv(new, left, backups')
  BY <1>4, <1>5, SavedStays DEF RunInv, CopiedInv
<1>7. \A q \in Runs : run'[q] = IF q = r THEN new ELSE run[q]
  BY <1>2 DEF IInv, TypeOK
<1>8. TypeOK'
  BY <1>2, <1>5 DEF IInv, TypeOK
<1>9. RunsInv'
  <2>1. \A q \in Runs : q # r => RunInv(run[q], left, backups')
    BY <1>1, <1>2, <1>4, OthersKeep
  <2> QED
    BY <1>2, <1>6, <1>7, <2>1 DEF RunsInv
<1>10. UniqueInv'
  BY <1>2 DEF IInv, UniqueInv
<1>11. ApartInv'
  BY <1>5, <1>7 DEF IInv, ApartInv
<1>12. FilesInv'
  BY <1>2, <1>4, FilesKeep
<1> QED
  BY <1>8, <1>9, <1>10, <1>11, <1>12 DEF IInv

-----------------------------------------------------------------------------
(* Writing, and the person.                                                 *)

LEMMA EditedIsDocument ==
  ASSUME IInv, NEW r \in Runs, run[r].phase \in {"edited", "copied"}
  PROVE  /\ Edited(r) \in Document
         /\ left[Target(r)].kind = "file" => ~Created(r) /\ Agrees(Edited(r), left[Target(r)])
<1> DEFINE s == run[r]
           f == Target(r)
           old == s.data[1]
           k == Key(r)
<1>1. s \in Progress /\ EditedInv(s, left)
  BY DEF IInv, TypeOK, RunsInv, RunInv
<1>2. k \in Keys
  BY <1>1, RuleShape DEF Key, Progress
<1>3. /\ old \in Document /\ old.kind # "link"
      /\ left[f].kind = "file" => Agrees(old, left[f]) /\ left[f].keys[k] = "unset"
  BY <1>1, TargetIsAtFile DEF EditedInv
<1>4. CASE Created(r)
  <2>1. [x \in Keys |-> IF x = k THEN "ours" ELSE "unset"] \in [Keys -> Values]
    BY DEF Values
  <2>2. Edited(r) = [kind |-> "file", text |-> old.text, keys |-> [x \in Keys |-> IF x = k THEN "ours" ELSE "unset"]]
    BY <1>4 DEF Edited
  <2>3. Edited(r) \in Document
    BY <1>3, <2>1, <2>2 DEF Document, Kinds
  <2>4. left[f].kind # "file"
    BY <1>3, <1>4 DEF Created, Agrees
  <2> QED
    BY <2>3, <2>4
<1>5. CASE ~Created(r)
  <2>1. Edited(r) = [old EXCEPT !.keys[k] = "ours"]
    BY <1>5 DEF Edited
  <2>2. [old.keys EXCEPT ![k] = "ours"] \in [Keys -> Values]
    BY <1>3 DEF Document, Values
  <2>3. /\ Edited(r) \in Document /\ Edited(r).kind = old.kind /\ Edited(r).text = old.text
        /\ Edited(r).keys = [old.keys EXCEPT ![k] = "ours"]
    BY <1>3, <2>1, <2>2 DEF Document
  <2>4. \A x \in Keys : x # k => Edited(r).keys[x] = old.keys[x]
    BY <1>3, <2>3 DEF Document
  <2>5. left[f].kind = "file" => Agrees(Edited(r), left[f])
    BY <1>3, <2>3, <2>4 DEF Agrees
  <2> QED
    BY <1>5, <2>3, <2>5
<1> QED
  BY <1>4, <1>5

LEMMA WriteStep ==
  ASSUME IInv, NEW r \in Runs, Write(r)
  PROVE  IInv'
<1> DEFINE s == run[r]
           f == Target(r)
           t == [s EXCEPT !.fixed = @ \cup {s.rule}]
           new == Advance(t)
<1>1. s \in Progress /\ s.phase \in {"edited", "copied"} /\ Active(s) /\ RunInv(s, left, backups)
  BY DEF IInv, TypeOK, RunsInv, Write, Ready, Active
<1>2. /\ UNCHANGED <<backups, left, edits, clock>> /\ run' = [run EXCEPT ![r] = new]
      /\ disk' = [disk EXCEPT ![f] = Edited(r)] /\ disk[f].kind # "link"
  BY DEF Write, Set
<1>3. f = AtFile(s) /\ f \in Files
  BY <1>1, TargetIsAtFile DEF RunInv, EditedInv
<1>4. /\ t \in Progress /\ t.phase = s.phase /\ t.second = s.second /\ t.rule = s.rule
      /\ t.results = s.results /\ t.data = s.data /\ t.copied = s.copied
  BY <1>1 DEF Progress
<1> HIDE DEF t
<1>5. Active(t) /\ RunInv(t, left, backups)
  BY <1>1, <1>4 DEF RunInv, Active, EditedInv, MissingInv, CopiedInv, AtFile, AtKey
<1>6. new \in Progress /\ new.phase # "copying" /\ RunInv(new, left, backups)
  BY <1>4, <1>5, AdvanceKeeps
<1> HIDE DEF new
<1>7. \A q \in Runs : run'[q] = IF q = r THEN new ELSE run[q]
  BY <1>2 DEF IInv, TypeOK
<1>8. Edited(r) \in Document
  BY <1>1, EditedIsDocument
<1>9. TypeOK'
  <2>1. exposed' \subseteq Runs \X DOMAIN Rules
    <3>1. exposed' \subseteq exposed \cup {<<r, s.rule>>}
      BY DEF Write
    <3>2. s.rule \in DOMAIN Rules
      BY <1>1 DEF Progress
    <3> QED
      BY <3>1, <3>2 DEF IInv, TypeOK
  <2> QED
    BY <1>2, <1>6, <1>8, <2>1 DEF IInv, TypeOK
<1>10. RunsInv'
  BY <1>2, <1>6, <1>7 DEF IInv, RunsInv
<1>11. UniqueInv' /\ ApartInv'
  BY <1>2, <1>6, <1>7 DEF IInv, UniqueInv, ApartInv
<1>12. ASSUME left[f].kind = "file"
       PROVE  Agrees(Edited(r), left[f]) /\ Saved(f, left[f], backups)
  <2>1. ~Created(r) /\ Agrees(Edited(r), left[f])
    BY <1>1, <1>12, EditedIsDocument
  <2>2. f \in s.copied
    BY <1>1, <1>3, <2>1 DEF Write, Ready, NeedsBackup, RunInv
  <2> QED
    BY <1>1, <1>12, <2>1, <2>2 DEF RunInv, CopiedInv
<1>13. FilesInv'
  <2> SUFFICES ASSUME NEW g \in Files
               PROVE  /\ left[g].kind = "link" => disk'[g] = left[g]
                      /\ left[g].kind = "file" =>
                           Agrees(disk'[g], left[g]) /\ (disk'[g] = left[g] \/ Saved(g, left[g], backups))
    BY <1>2 DEF FilesInv
  <2>1. CASE g # f
    BY <1>2, <2>1 DEF IInv, TypeOK, FilesInv
  <2>2. CASE g = f
    <3>1. disk'[g] = Edited(r)
      BY <1>2, <1>3, <2>2 DEF IInv, TypeOK
    <3>2. left[g].kind # "link"
      BY <1>2, <2>2 DEF IInv, FilesInv
    <3> QED
      BY <1>12, <2>2, <3>1, <3>2
  <2> QED
    BY <2>1, <2>2
<1> QED
  BY <1>9, <1>10, <1>11, <1>13 DEF IInv

(* A person edits while no run is at work.                                  *)
LEMMA EditStep ==
  ASSUME IInv, NEW f \in Files, Edit(f)
  PROVE  IInv'
<1>1. PICK c \in Contents :
        disk' = [disk EXCEPT ![f] = [kind |-> c.kind, text |-> edits + 1, keys |-> c.keys]]
  BY DEF Edit
<1>2. left' = [left EXCEPT ![f] = disk'[f]] /\ edits < MaxEdits /\ edits' = edits + 1
      /\ UNCHANGED <<backups, clock, run>> /\ \A r \in Runs : ~Active(run[r])
  BY DEF Edit, Working, Active
<1> DEFINE d == [kind |-> c.kind, text |-> edits + 1, keys |-> c.keys]
<1>3. edits' \in 0..MaxEdits
  BY <1>2, DoctorAssumption DEF IInv, TypeOK
<1>4. d \in Document
  <2>1. c.kind \in Kinds /\ c.keys \in [Keys -> Values]
    BY DoctorAssumption
  <2> QED
    BY <1>2, <1>3, <2>1 DEF Document
<1> HIDE DEF d
<1>5. disk' = [disk EXCEPT ![f] = d]
  BY <1>1 DEF d
<1>6. disk'[f] = d /\ left'[f] = d /\ \A g \in Files : g # f => disk'[g] = disk[g] /\ left'[g] = left[g]
  BY <1>2, <1>5 DEF IInv, TypeOK
<1>7. TypeOK'
  <2>1. exposed' \subseteq Runs \X DOMAIN Rules
    BY DEF Edit, IInv, TypeOK
  <2> QED
    BY <1>2, <1>3, <1>4, <1>5, <1>6, <2>1 DEF IInv, TypeOK
<1>8. RunsInv'
  <2>1. \A r \in Runs : RunInv(run[r], left', backups)
    BY <1>2 DEF IInv, RunsInv, RunInv, Active, EditedInv
  <2> QED
    BY <1>2, <2>1 DEF RunsInv
<1>9. UniqueInv' /\ ApartInv'
  BY <1>2 DEF IInv, UniqueInv, ApartInv
<1>10. FilesInv'
  BY <1>2, <1>6 DEF IInv, FilesInv, Agrees
<1> QED
  BY <1>7, <1>8, <1>9, <1>10 DEF IInv

LEMMA StepIInv == IInv /\ [Next]_vars => IInv'
<1> SUFFICES ASSUME IInv, [Next]_vars PROVE IInv'
  OBVIOUS
<1>1. ASSUME NEW r \in Runs, Begin(r) \/ Judge(r) \/ Read(r)
      PROVE  IInv'
  BY <1>1, BeginStep, JudgeStep, ReadStep
<1>2. ASSUME NEW r \in Runs, RefuseBackup(r) \/ FailWrite(r) \/ Kill(r)
      PROVE  IInv'
  BY <1>2, StopStep
<1>3. ASSUME NEW r \in Runs, BeginBackup(r) \/ EndBackup(r) \/ SpoilBackup(r) \/ Write(r)
      PROVE  IInv'
  BY <1>3, BeginBackupStep, EndBackupStep, SpoilBackupStep, WriteStep
<1>4. ASSUME NEW f \in Files, Edit(f)
      PROVE  IInv'
  BY <1>4, EditStep
<1>5. CASE Tick \/ UNCHANGED vars
  <2>1. UNCHANGED <<disk, backups, left, edits, run, exposed>>
    BY <1>5 DEF Tick, vars
  <2>2. clock' \in 1..MaxClock
    BY <1>5, DoctorAssumption DEF IInv, TypeOK, Tick, vars
  <2>3. TypeOK' /\ FilesInv' /\ UniqueInv' /\ ApartInv' /\ RunsInv'
    BY <2>1, <2>2 DEF IInv, TypeOK, FilesInv, UniqueInv, ApartInv, RunsInv
  <2> QED
    BY <2>3 DEF IInv
<1> QED
  BY <1>1, <1>2, <1>3, <1>4, <1>5 DEF Next

LEMMA IInvHolds == Spec => []IInv
  BY InitIInv, StepIInv, PTL DEF Spec

-----------------------------------------------------------------------------
(* A fix stays: it is in the file, and in what every run that may replace   *)
(* the file has read.                                                       *)

Holding(s, f) == s.phase \in {"edited", "copying", "copied"} /\ AtFile(s) = f

LEMMA HoldsIsHolding == \A q \in Runs, f \in Files : Holds(q, f) <=> Holding(run[q], f)
  BY DEF Holds, Holding, Target, AtFile

Stands(d, k) == d.kind = "file" /\ d.keys[k] = "ours"

FixInv(r, i) ==
  /\ run[r].phase \notin {"idle", "judge"} /\ run[r].results[i].file \in Files
  /\ <<r, i>> \notin exposed =>
       /\ Stands(disk[run[r].results[i].file], Rules[i].key)
       /\ \A q \in Runs : Holding(run[q], run[r].results[i].file) => Stands(run[q].data[1], Rules[i].key)

FixedInv == \A r \in Runs : \A i \in run[r].fixed : FixInv(r, i)

(* A run goes from s to t without writing: it has fixed what it had, and    *)
(* what it holds it held, or has just read.                                 *)
Quiet(s, t) ==
  /\ t.fixed = s.fixed
  /\ s.phase \notin {"idle", "judge"} => t.results = s.results /\ t.phase \notin {"idle", "judge"}
  /\ \A f \in Files : Holding(t, f) => (Holding(s, f) /\ t.data = s.data) \/ t.data[1] = disk[f]

LEMMA QuietStep ==
  ASSUME IInv, FixedInv, NEW r \in Runs, NEW new, Quiet(run[r], new),
         run' = [run EXCEPT ![r] = new], UNCHANGED <<disk, exposed>>
  PROVE  FixedInv'
<1> SUFFICES ASSUME NEW p \in Runs, NEW i \in run'[p].fixed
             PROVE  FixInv(p, i)'
  BY DEF FixedInv
<1>1. \A q \in Runs : run'[q] = IF q = r THEN new ELSE run[q]
  BY DEF IInv, TypeOK
<1>2. i \in run[p].fixed
  BY <1>1 DEF Quiet
<1>3. FixInv(p, i)
  BY <1>2 DEF FixedInv
<1>4. run'[p].results = run[p].results /\ run'[p].phase \notin {"idle", "judge"}
  BY <1>1, <1>3 DEF Quiet, FixInv
<1> DEFINE f == run[p].results[i].file
           k == Rules[i].key
<1>5. f \in Files /\ run'[p].results[i].file = f
  BY <1>3, <1>4 DEF FixInv
<1> HIDE DEF f, k
<1>6. /\ run'[p].results[i].file = f /\ run[p].results[i].file = f
      /\ Rules[i].key = k
  BY <1>5 DEF f, k
<1>7. ASSUME <<p, i>> \notin exposed
      PROVE  Stands(disk[f], k) /\ \A q \in Runs : Holding(run'[q], f) => Stands(run'[q].data[1], k)
  <2>1. Stands(disk[f], k) /\ \A q \in Runs : Holding(run[q], f) => Stands(run[q].data[1], k)
    BY <1>3, <1>6, <1>7 DEF FixInv
  <2> SUFFICES ASSUME NEW q \in Runs, Holding(run'[q], f) PROVE Stands(run'[q].data[1], k)
    BY <2>1
  <2>2. CASE q # r
    BY <1>1, <2>1, <2>2
  <2>3. CASE q = r
    <3>1. run'[q] = new /\ f \in Files
      BY <1>1, <1>5, <2>3
    <3>2. (Holding(run[q], f) /\ new.data = run[q].data) \/ new.data[1] = disk[f]
      BY <2>3, <3>1 DEF Quiet
    <3> QED
      BY <2>1, <3>1, <3>2
  <2> QED
    BY <2>2, <2>3
<1> QED
  BY <1>4, <1>5, <1>6, <1>7 DEF FixInv

LEMMA AdvanceIsQuiet ==
  ASSUME NEW s \in Progress, NEW t \in Progress, s.phase \notin {"idle", "judge"},
         t.fixed = s.fixed, t.results = s.results
  PROVE  Quiet(s, Advance(t))
<1>1. /\ Advance(t).phase \in {"ended", "fix"}
      /\ Advance(t).fixed = t.fixed /\ Advance(t).results = t.results
  BY DEF Advance, Progress
<1> QED
  BY <1>1 DEF Quiet, Holding

LEMMA QuietSteps ==
  ASSUME IInv, FixedInv, NEW r \in Runs,
         Begin(r) \/ Judge(r) \/ Read(r) \/ BeginBackup(r) \/ RefuseBackup(r) \/ EndBackup(r)
           \/ SpoilBackup(r) \/ FailWrite(r) \/ Kill(r)
  PROVE  FixedInv'
<1> DEFINE s == run[r]
           failing == [s EXCEPT !.failed = @ \cup {Target(r)}]
<1>1. s \in Progress
  BY DEF IInv, TypeOK
<1>2. UNCHANGED <<disk, exposed>>
  BY DEF Begin, Judge, Read, BeginBackup, RefuseBackup, EndBackup, SpoilBackup, FailWrite, Kill
<1>3. SUFFICES \E new : run' = [run EXCEPT ![r] = new] /\ Quiet(s, new)
  BY <1>2, QuietStep
<1>4. CASE Begin(r)
  <2> DEFINE new == [Idle EXCEPT !.phase = "judge", !.second = clock]
  <2>1. run' = [run EXCEPT ![r] = new] /\ s.phase = "idle"
    BY <1>4 DEF Begin, Set
  <2>2. s.fixed = {}
    BY <2>1 DEF FixedInv, FixInv
  <2>3. new.phase = "judge" /\ new.fixed = {}
    BY DEF Idle
  <2> HIDE DEF new
  <2> QED
    BY <2>1, <2>2, <2>3 DEF Quiet, Holding
<1>5. CASE Judge(r)
  <2> DEFINE new == [s EXCEPT !.results[s.rule] = Judged(Rules[s.rule]),
                              !.rule = IF s.rule = Len(Rules) THEN 1 ELSE s.rule + 1,
                              !.phase = IF s.rule = Len(Rules) THEN "fix" ELSE "judge"]
  <2>1. run' = [run EXCEPT ![r] = new] /\ s.phase = "judge"
    BY <1>5 DEF Judge, Set
  <2>2. new.phase \in {"fix", "judge"} /\ new.fixed = s.fixed
    BY <1>1 DEF Progress
  <2> HIDE DEF new
  <2> QED
    BY <2>1, <2>2 DEF Quiet, Holding
<1>6. ASSUME s.phase \notin {"idle", "judge"}, Pass(r) \/ Fail(r)
      PROVE  \E new : run' = [run EXCEPT ![r] = new] /\ Quiet(s, new)
  <2>1. CASE Pass(r)
    BY <1>1, <1>6, <2>1, AdvanceIsQuiet DEF Pass, Set
  <2>2. CASE Fail(r)
    <3>1. run' = [run EXCEPT ![r] = Advance([s EXCEPT !.failed = @ \cup {Target(r)}])]
      BY <2>2 DEF Fail, Set
    <3>2. Quiet(s, Advance([s EXCEPT !.failed = @ \cup {Target(r)}]))
      <4> DEFINE t == [s EXCEPT !.failed = @ \cup {Target(r)}]
      <4>1. t.fixed = s.fixed /\ t.results = s.results /\ t.rule = s.rule /\ t.phase = s.phase
        BY <1>1 DEF Progress
      <4>2. Advance(t).phase \in {"ended", "fix"} /\ Advance(t).fixed = t.fixed /\ Advance(t).results = t.results
        BY <1>1 DEF Advance, Progress
      <4> HIDE DEF t
      <4>3. Quiet(s, Advance(t))
        BY <4>1, <4>2 DEF Quiet, Holding
      <4> QED
        BY <4>3 DEF t
    <3> QED
      BY <3>1, <3>2
  <2> QED
    BY <1>6, <2>1, <2>2
<1>7. CASE RefuseBackup(r) \/ SpoilBackup(r) \/ FailWrite(r)
  BY <1>6, <1>7 DEF RefuseBackup, SpoilBackup, FailWrite, Ready
<1>8. CASE Read(r)
  <2> DEFINE new == [s EXCEPT !.phase = "edited", !.data = <<disk[Target(r)]>>]
  <2>1. s.phase = "fix"
    BY <1>8 DEF Read
  <2>2. CASE run' = [run EXCEPT ![r] = new]
    <3>1. /\ new.phase = "edited" /\ new.fixed = s.fixed /\ new.results = s.results
          /\ AtFile(new) = Target(r) /\ new.data = <<disk[Target(r)]>>
      BY <1>1 DEF Progress, AtFile, Target
    <3>2. new.data[1] = disk[Target(r)]
      BY <3>1
    <3> HIDE DEF new
    <3>3. Quiet(s, new)
      BY <3>1, <3>2 DEF Quiet, Holding
    <3> QED
      BY <2>2, <3>3
  <2>3. Pass(r) \/ Fail(r) \/ run' = [run EXCEPT ![r] = new]
    BY <1>8 DEF Read, ReadConfig, Set
  <2> QED
    BY <1>6, <2>1, <2>2, <2>3
<1>9. CASE BeginBackup(r)
  <2> DEFINE new == [s EXCEPT !.phase = "copying"]
  <2>1. run' = [run EXCEPT ![r] = new] /\ s.phase = "edited"
    BY <1>9 DEF BeginBackup, Set
  <2>2. new.phase = "copying" /\ new.fixed = s.fixed /\ new.results = s.results /\ new.data = s.data /\ AtFile(new) = AtFile(s)
    BY <1>1 DEF Progress, AtFile
  <2> HIDE DEF new
  <2> QED
    BY <2>1, <2>2 DEF Quiet, Holding
<1>10. CASE EndBackup(r)
  <2> DEFINE new == [s EXCEPT !.phase = "copied", !.copied = @ \cup {Target(r)}]
  <2>1. run' = [run EXCEPT ![r] = new] /\ s.phase = "copying"
    BY <1>10 DEF EndBackup, Set
  <2>2. new.phase = "copied" /\ new.fixed = s.fixed /\ new.results = s.results /\ new.data = s.data /\ AtFile(new) = AtFile(s)
    BY <1>1 DEF Progress, AtFile
  <2> HIDE DEF new
  <2> QED
    BY <2>1, <2>2 DEF Quiet, Holding
<1>11. CASE Kill(r)
  <2> DEFINE new == [s EXCEPT !.phase = "killed"]
  <2>1. run' = [run EXCEPT ![r] = new]
    BY <1>11 DEF Kill, Set
  <2>2. new.phase = "killed" /\ new.fixed = s.fixed /\ new.results = s.results
    BY <1>1 DEF Progress
  <2> HIDE DEF new
  <2> QED
    BY <2>1, <2>2 DEF Quiet, Holding
<1> QED
  BY <1>4, <1>5, <1>7, <1>8, <1>9, <1>10, <1>11

(* What is written has the setting, and every setting the run had read.     *)
LEMMA EditedStands ==
  ASSUME IInv, NEW r \in Runs, run[r].phase \in {"edited", "copied"}
  PROVE  /\ Stands(Edited(r), Key(r))
         /\ \A k \in Keys : Stands(run[r].data[1], k) => Stands(Edited(r), k)
<1> DEFINE old == run[r].data[1]
<1>1. run[r] \in Progress /\ EditedInv(run[r], left)
  BY DEF IInv, TypeOK, RunsInv, RunInv
<1>2. Key(r) \in Keys
  BY <1>1, RuleShape DEF Key, Progress
<1>3. old \in Document /\ old.kind # "link"
  BY <1>1 DEF EditedInv
<1>4. CASE Created(r)
  BY <1>2, <1>4 DEF Edited, Created, Stands
<1>5. CASE ~Created(r)
  <2>1. old.kind = "file"
    BY <1>3, <1>5 DEF Created, Document, Kinds
  <2>2. Edited(r) = [old EXCEPT !.keys = [old.keys EXCEPT ![Key(r)] = "ours"]]
    BY <1>5 DEF Edited
  <2>3. Edited(r).kind = old.kind /\ Edited(r).keys = [old.keys EXCEPT ![Key(r)] = "ours"]
    BY <1>3, <2>2 DEF Document
  <2>4. old.keys \in [Keys -> Values]
    BY <1>3 DEF Document
  <2> QED
    BY <1>2, <2>1, <2>3, <2>4 DEF Stands
<1> QED
  BY <1>4, <1>5

LEMMA WriteKeepsFixed ==
  ASSUME IInv, FixedInv, NEW r \in Runs, Write(r)
  PROVE  FixedInv'
<1> DEFINE s == run[r]
           f == Target(r)
           t == [s EXCEPT !.fixed = @ \cup {s.rule}]
           new == Advance(t)
<1>1. s \in Progress /\ s.phase \in {"edited", "copied"} /\ EditedInv(s, left)
  BY DEF IInv, TypeOK, RunsInv, RunInv, Write, Ready
<1>2. /\ run' = [run EXCEPT ![r] = new] /\ disk' = [disk EXCEPT ![f] = Edited(r)]
      /\ exposed' = IF \E q \in Runs \ {r} : Holds(q, f) THEN exposed \cup {<<r, s.rule>>} ELSE exposed
  BY DEF Write, Set
<1>3. f = AtFile(s) /\ f \in Files /\ f = s.results[s.rule].file
  BY <1>1, TargetIsAtFile DEF EditedInv, AtFile
<1>4. new.phase \in {"fix", "ended"} /\ new.fixed = s.fixed \cup {s.rule} /\ new.results = s.results
  BY <1>1 DEF Advance, Progress
<1> HIDE DEF new, t
<1>5. \A q \in Runs : run'[q] = IF q = r THEN new ELSE run[q]
  BY <1>2 DEF IInv, TypeOK
<1>6. disk'[f] = Edited(r) /\ \A g \in Files : g # f => disk'[g] = disk[g]
  BY <1>2, <1>3 DEF IInv, TypeOK
<1>7. Holding(run[r], f)
  BY <1>1, <1>3 DEF Holding
<1>8. \A q \in Runs, g \in Files : Holding(run'[q], g) => q # r /\ Holding(run[q], g) /\ run'[q] = run[q]
  BY <1>4, <1>5 DEF Holding
<1> HIDE DEF f
<1> SUFFICES ASSUME NEW p \in Runs, NEW i \in run'[p].fixed
             PROVE  FixInv(p, i)'
  BY DEF FixedInv
<1>9. CASE i \in run[p].fixed
  <2> DEFINE g == run[p].results[i].file
             k == Rules[i].key
  <2>1. FixInv(p, i)
    BY <1>9 DEF FixedInv
  <2>2. run'[p].phase \notin {"idle", "judge"} /\ run'[p].results = run[p].results /\ g \in Files
    BY <1>4, <1>5, <2>1 DEF FixInv
  <2>3. i \in DOMAIN Rules
    BY <1>9 DEF IInv, TypeOK, Progress
  <2>4. k \in Keys
    BY <2>3, RuleShape
  <2>5. ASSUME <<p, i>> \notin exposed'
        PROVE  Stands(disk'[g], k) /\ \A q \in Runs : Holding(run'[q], g) => Stands(run'[q].data[1], k)
    <3>1. /\ Stands(disk[g], k)
          /\ \A q \in Runs : Holding(run[q], g) => Stands(run[q].data[1], k)
      BY <1>2, <2>1, <2>5 DEF FixInv
    <3>2. Stands(disk'[g], k)
      BY <1>1, <1>6, <1>7, <2>2, <2>4, <3>1, EditedStands
    <3> QED
      BY <1>8, <2>2, <3>1, <3>2
  <2> HIDE DEF g, k
  <2>6. run'[p].results[i].file = g /\ Rules[i].key = k
    BY <2>2 DEF g, k
  <2> QED
    BY <2>2, <2>5, <2>6 DEF FixInv
<1>10. CASE i \notin run[p].fixed
  <2>1. p = r /\ i = s.rule
    BY <1>4, <1>5, <1>10
  <2>2. run'[p].phase \notin {"idle", "judge"} /\ run'[p].results[i].file = f
    BY <1>3, <1>4, <1>5, <2>1
  <2>3. Key(r) = Rules[i].key
    BY <2>1 DEF Key
  <2>4. Stands(disk'[f], Rules[i].key)
    BY <1>1, <1>6, <2>3, EditedStands
  <2>5. <<p, i>> \notin exposed' => \A q \in Runs : ~Holding(run'[q], f)
    <3>1. ASSUME <<p, i>> \notin exposed', NEW q \in Runs, q # r PROVE ~Holds(q, f)
      BY <1>2, <2>1, <3>1
    <3> QED
      BY <1>3, <1>8, <3>1, HoldsIsHolding
  <2> QED
    BY <1>3, <2>2, <2>4, <2>5 DEF FixInv
<1> QED
  BY <1>9, <1>10

LEMMA EditKeepsFixed ==
  ASSUME IInv, FixedInv, NEW f \in Files, Edit(f)
  PROVE  FixedInv'
<1> SUFFICES ASSUME NEW p \in Runs, NEW i \in run'[p].fixed
             PROVE  FixInv(p, i)'
  BY DEF FixedInv
<1>1. run' = run /\ \A r \in Runs : ~Working(r)
  BY DEF Edit
<1>2. FixInv(p, i) /\ i \in DOMAIN Rules /\ i \in run[p].fixed
  BY <1>1 DEF FixedInv, IInv, TypeOK, Progress
<1> DEFINE g == run[p].results[i].file
<1>3. \A q \in Runs : ~Holding(run'[q], g)
  BY <1>1 DEF Holding, Working
<1>4. <<p, i>> \notin exposed' => g # f /\ <<p, i>> \notin exposed
  BY <1>2 DEF Edit, Fixed
<1>5. g # f => disk'[g] = disk[g]
  BY <1>2 DEF Edit, IInv, TypeOK, FixInv
<1> QED
  BY <1>1, <1>2, <1>3, <1>4, <1>5 DEF FixInv

LEMMA FixedHolds == Spec => [](IInv /\ FixedInv)
<1>1. Init => FixedInv
  BY DEF Init, FixedInv, Idle
<1>2. ASSUME IInv, FixedInv, [Next]_vars PROVE FixedInv'
  <2>1. ASSUME NEW r \in Runs,
               Begin(r) \/ Judge(r) \/ Read(r) \/ BeginBackup(r) \/ RefuseBackup(r) \/ EndBackup(r)
                 \/ SpoilBackup(r) \/ FailWrite(r) \/ Kill(r)
        PROVE  FixedInv'
    BY <1>2, <2>1, QuietSteps
  <2>2. ASSUME NEW r \in Runs, Write(r) PROVE FixedInv'
    BY <1>2, <2>2, WriteKeepsFixed
  <2>3. ASSUME NEW f \in Files, Edit(f) PROVE FixedInv'
    BY <1>2, <2>3, EditKeepsFixed
  <2>4. CASE Tick \/ UNCHANGED vars
    <3>1. UNCHANGED <<disk, run, exposed>>
      BY <2>4 DEF Tick, vars
    <3> QED
      BY <1>2, <3>1 DEF FixedInv, FixInv
  <2> QED
    BY <1>2, <2>1, <2>2, <2>3, <2>4 DEF Next
<1> QED
  BY <1>1, <1>2, InitIInv, StepIInv, PTL DEF Spec

-----------------------------------------------------------------------------
(* The theorems.                                                            *)

(* Every variable keeps its type.                                           *)
THEOREM DoctorTypeOK == Spec => []TypeOK
<1>1. IInv => TypeOK
  BY DEF IInv
<1> QED
  BY <1>1, IInvHolds, PTL

(* What a person left in a file is in place or in a whole backup, and no    *)
(* setting they stated is overwritten, however many runs overlap, fail or   *)
(* are killed (fix.go, fixOne; textdiff/atomic.go, Backup and Write).       *)
THEOREM DoctorNothingLost == Spec => []NothingLost
<1>1. IInv => NothingLost
  BY DEF IInv, FilesInv, Agrees, Saved, NothingLost, OriginalKept, TheirsStays
<1> QED
  BY <1>1, IInvHolds, PTL

(* What doctor --fix reports as written stays written: no later write of    *)
(* the run or of another loses it, unless that one had read the file before *)
(* or a person edits it (fix.go, fixOne reads the file again for every      *)
(* setting).                                                                *)
THEOREM DoctorFixesStick == Spec => []FixesStick
<1>1. IInv /\ FixedInv => FixesStick
  BY DEF FixedInv, FixInv, Stands, FixesStick, Fixed
<1> QED
  BY <1>1, FixedHolds, PTL

-----------------------------------------------------------------------------
(* The policy.                                                              *)

(* What an asker that has found its file knows.                             *)
Asked(s) ==
  /\ s.at \in {"reviewed", "compared"}
  /\ s = [at |-> s.at, place |-> s.place, before |-> s.before, asked |-> s.asked, after |-> s.after]
  /\ s.place \in Places /\ s.asked \in Requests /\ Exact(s.asked.ref)
  /\ s.before.kind = "policy" /\ WellFormed(s.before)
  /\ s.after = AddAllow(s.before, s.asked)

PolicyFilesInv == policies = [i \in Places |-> policies[i]] /\ \A i \in Places : WellFormed(policies[i])
AskersInv ==
  /\ asking = [a \in Askers |-> asking[a]]
  /\ \A a \in Askers : asking[a] = [at |-> "idle"] \/ Asked(asking[a])

(* The file an asker compared is the one it read, unless it was replaced.   *)
ComparedInv ==
  \A a \in Askers \ overtaken :
    asking[a].at = "compared" => policies[asking[a].place] = asking[a].before

PolicyIInv == PolicyFilesInv /\ AskersInv /\ ComparedInv /\ instant \in Nat

-----------------------------------------------------------------------------
(* What an exception adds.                                                  *)

(* Sequences of one length have one domain.                                 *)
LEMMA SameLength ==
  ASSUME NEW S, NEW s \in Seq(S), NEW t \in Seq(S)
  PROVE  Len(s) = Len(t) <=> DOMAIN s = DOMAIN t
<1>1. DOMAIN s = 1..Len(s) /\ DOMAIN t = 1..Len(t) /\ Len(s) \in Nat /\ Len(t) \in Nat
  OBVIOUS
<1>2. ASSUME NEW m \in Nat, NEW n \in Nat, 1..m = 1..n, m < n
      PROVE  FALSE
  <2>1. n \in 1..n /\ n \notin 1..m
    BY <1>2
  <2> QED
    BY <1>2, <2>1
<1>3. \A m, n \in Nat : 1..m = 1..n => m = n
  <2> SUFFICES ASSUME NEW m \in Nat, NEW n \in Nat, 1..m = 1..n PROVE m = n
    OBVIOUS
  <2>1. ~(m < n) /\ ~(n < m)
    BY <1>2
  <2> QED
    BY <2>1
<1> QED
  BY <1>1, <1>3

(* The policy an exception is added to keeps its shape.                     *)
LEMMA AddAllowShape ==
  ASSUME NEW p, p.kind = "policy", WellFormed(p), NEW q \in Requests
  PROVE  /\ AddAllow(p, q).kind = "policy" /\ WellFormed(AddAllow(p, q))
         /\ AddAllow(p, q).allow = Append(p.allow, Entry(q)) /\ Entry(q) \in Allowance
<1> DEFINE n == AddAllow(p, q)
           f == DOMAIN NoPolicy
<1>1. "kind" \in f /\ "allow" \in f /\ "ecosystems" \in f
  BY DEF NoPolicy
<1>2. p = [x \in f |-> p[x]] /\ p.allow \in Seq(Allowance)
  BY DEF WellFormed
<1>3. Entry(q) \in Allowance
  BY PolicyAssumption DEF Entry, Allowance, Pattern
<1>4. n = [p EXCEPT !.allow = Append(p.allow, Entry(q))]
  BY DEF AddAllow
<1> HIDE DEF f, n
<1>5. DOMAIN n = f /\ n = [x \in f |-> n[x]] /\ n.kind = "policy" /\ n.allow = Append(p.allow, Entry(q))
  BY <1>1, <1>2, <1>4
<1>7. n.ecosystems = p.ecosystems
  BY <1>1, <1>2, <1>4
<1>6. n.allow \in Seq(Allowance)
  <2> DEFINE t == p.allow
             e == Entry(q)
  <2>1. t \in Seq(Allowance) /\ e \in Allowance
    BY <1>2, <1>3
  <2> HIDE DEF t, e
  <2>2. Append(t, e) \in Seq(Allowance)
    BY <2>1
  <2> QED
    BY <1>5, <2>2 DEF t, e
<1>8. \A e \in DOMAIN n.ecosystems : n.ecosystems[e] = [x \in DOMAIN NoOverride |-> n.ecosystems[e][x]]
  BY <1>7 DEF WellFormed
<1> QED
  BY <1>3, <1>5, <1>6, <1>8 DEF WellFormed, n, f

(* A day has two instants.                                                  *)
LEMMA LastDay ==
  ASSUME NEW q \in Requests, NEW now \in Nat
  PROVE  ~Expired(Entry(q), now) <=> Day(now) <= q.expires
<1>1. q.expires \in Nat \ {0} /\ Entry(q).expires = q.expires
  BY PolicyAssumption DEF Entry
<1> QED
  BY <1>1 DEF Expired, Day

(* An exact pattern matches the one package it spells.                      *)
LEMMA ExactMatch ==
  ASSUME NEW q \in Requests, Exact(q.ref), NEW r \in Packages
  PROVE  Match(q.ref, r) <=>
           /\ q.ref.eco = r.eco /\ q.ref.version \in {"", r.version}
           /\ [i \in DOMAIN q.ref.name |-> matchName(r.eco, q.ref.name[i])] =
                [i \in DOMAIN r.name |-> matchName(r.eco, r.name[i])]
<1> DEFINE a == q.ref.name
           b == r.name
           M(s) == matchName(r.eco, s)
<1>1. a \in Seq(STRING) /\ b \in Seq(STRING) /\ q.ref.eco # ""
  BY PolicyAssumption DEF Pattern
<1>2. q.ref.version # Star /\ \A i \in DOMAIN a : a[i] # Star
  BY DEF Exact
<1>3. Match(q.ref, r) <=> /\ q.ref.eco = r.eco /\ q.ref.version \in {"", r.version}
                          /\ Len(a) = Len(b) /\ \A i \in DOMAIN b : matchSegment(r.eco, a[i], b[i])
  BY <1>1, <1>2 DEF Match
<1>4. Len(a) = Len(b) <=> DOMAIN a = DOMAIN b
  <2> HIDE DEF a, b
  <2> QED
    BY <1>1, SameLength
<1>5. ASSUME DOMAIN a = DOMAIN b
      PROVE  (\A i \in DOMAIN b : matchSegment(r.eco, a[i], b[i])) <=>
               \A i \in DOMAIN b : M(a[i]) = M(b[i])
  BY <1>2, <1>5 DEF matchSegment
<1> HIDE DEF a, b, M
<1>6. [i \in DOMAIN a |-> M(a[i])] = [i \in DOMAIN b |-> M(b[i])] <=>
        DOMAIN a = DOMAIN b /\ \A i \in DOMAIN b : M(a[i]) = M(b[i])
  OBVIOUS
<1> QED
  BY <1>3, <1>4, <1>5, <1>6 DEF a, b, M

(* One more entry excuses what the others did, and what it names.           *)
LEMMA AllowedByOneMore ==
  ASSUME NEW p, NEW n, NEW e \in Allowance, p.allow \in Seq(Allowance), n.allow = Append(p.allow, e),
         NEW check, NEW r, NEW now
  PROVE  Allowed(n, check, r, now) <=>
           Allowed(p, check, r, now) \/ (e.check = check /\ ~Expired(e, now) /\ Match(e.package, r))
<1> DEFINE s == p.allow
           t == n.allow
           P(x) == x.check = check /\ ~Expired(x, now) /\ Match(x.package, r)
<1>1. s \in Seq(Allowance) /\ t = Append(s, e)
  OBVIOUS
<1>2. (Allowed(n, check, r, now) <=> \E i \in DOMAIN t : P(t[i])) /\ (Allowed(p, check, r, now) <=> \E i \in DOMAIN s : P(s[i]))
  BY DEF Allowed
<1> HIDE DEF s, t, P
<1>3. /\ DOMAIN t = DOMAIN s \cup {Len(s) + 1} /\ t[Len(s) + 1] = e
      /\ \A i \in DOMAIN s : t[i] = s[i]
  BY <1>1
<1>4. (\E i \in DOMAIN t : P(t[i])) <=> (\E i \in DOMAIN s : P(s[i])) \/ P(e)
  BY <1>3
<1> QED
  BY <1>2, <1>4 DEF P

(* The exception as a whole.                                                *)
LEMMA GrantsWhatWasAsked ==
  ASSUME NEW p, p.kind = "policy", WellFormed(p), NEW q \in Requests, Exact(q.ref), NEW now \in Nat
  PROVE  Excuses(AddAllow(p, q), now) =
           Excuses(p, now) \cup {cr \in Checks \X Packages : Grants(q, cr[1], cr[2], now)}
<1> DEFINE n == AddAllow(p, q)
<1>1. /\ n.kind = "policy" /\ n.allow = Append(p.allow, Entry(q)) /\ Entry(q) \in Allowance
      /\ p.allow \in Seq(Allowance)
  BY AddAllowShape DEF WellFormed
<1> HIDE DEF n
<1>2. ASSUME NEW check \in Checks, NEW r \in Packages
      PROVE  Allowed(n, check, r, now) <=> Allowed(p, check, r, now) \/ Grants(q, check, r, now)
  <2>1. Allowed(n, check, r, now) <=>
          \/ Allowed(p, check, r, now)
          \/ Entry(q).check = check /\ ~Expired(Entry(q), now) /\ Match(Entry(q).package, r)
    BY <1>1, AllowedByOneMore
  <2>2. Entry(q).check = q.check /\ Entry(q).package = q.ref
    BY DEF Entry
  <2>3. Grants(q, check, r, now) <=> q.check = check /\ ~Expired(Entry(q), now) /\ Match(q.ref, r)
    BY ExactMatch, LastDay DEF Grants
  <2> QED
    BY <2>1, <2>2, <2>3
<1>3. \A cr \in Checks \X Packages :
        Allowed(n, cr[1], cr[2], now) <=> Allowed(p, cr[1], cr[2], now) \/ Grants(q, cr[1], cr[2], now)
  BY <1>2
<1> QED
  BY <1>1, <1>3 DEF Excuses, n

-----------------------------------------------------------------------------
(* The invariant.                                                           *)

LEMMA FindIsPlace ==
  ASSUME find(policies) # 0
  PROVE  find(policies) \in Places
<1> DEFINE here == {i \in Places : policies[i].kind \notin {"absent", "directory"}}
<1>1. here # {} /\ find(policies) = CHOOSE i \in here : \A j \in here : i <= j
  BY DEF find
<1>2. here \in SUBSET Nat
  <2>1. Places \subseteq Nat
    BY DEF Places
  <2> QED
    BY <2>1
<1>3. \E i \in here : \A j \in here : i <= j
  BY <1>1, <1>2, Least
<1> QED
  BY <1>1, <1>3

LEMMA InitPolicyIInv == PolicyInit => PolicyIInv
<1> SUFFICES ASSUME PolicyInit PROVE PolicyIInv
  OBVIOUS
<1>1. PolicyFilesInv
  BY PolicyAssumption DEF PolicyInit, PolicyFilesInv
<1>2. AskersInv /\ ComparedInv /\ instant \in Nat
  BY DEF PolicyInit, AskersInv, ComparedInv
<1> QED
  BY <1>1, <1>2 DEF PolicyIInv

(* A step of one asker that leaves the files alone.                         *)
LEMMA AskerStep ==
  ASSUME PolicyIInv, NEW a \in Askers, NEW new, asking' = [asking EXCEPT ![a] = new],
         new = [at |-> "idle"] \/ Asked(new),
         new.at = "compared" => policies[new.place] = new.before,
         UNCHANGED <<policies, instant>>, overtaken' = overtaken \/ overtaken' = overtaken \ {a}
  PROVE  PolicyIInv'
<1>1. \A b \in Askers : asking'[b] = IF b = a THEN new ELSE asking[b]
  BY DEF PolicyIInv, AskersInv
<1>2. asking' = [b \in Askers |-> asking'[b]]
  BY DEF PolicyIInv, AskersInv
<1>3. AskersInv'
  <2>1. \A b \in Askers : asking'[b] = [at |-> "idle"] \/ Asked(asking'[b])
    BY <1>1 DEF PolicyIInv, AskersInv
  <2> QED
    BY <1>2, <2>1 DEF AskersInv
<1>4. ComparedInv'
  BY <1>1 DEF PolicyIInv, ComparedInv
<1>5. PolicyFilesInv' /\ instant' \in Nat
  BY DEF PolicyIInv, PolicyFilesInv
<1> QED
  BY <1>3, <1>4, <1>5 DEF PolicyIInv

LEMMA ReviewStep ==
  ASSUME PolicyIInv, NEW a \in Askers, NEW q \in Requests, Review(a, q)
  PROVE  PolicyIInv'
<1> DEFINE place == find(policies)
           new == [at |-> "reviewed", place |-> place, before |-> policies[place],
                   asked |-> q, after |-> AddAllow(policies[place], q)]
<1>1. /\ place # 0 /\ Accepts(policies[place], q) /\ asking' = [asking EXCEPT ![a] = new]
      /\ UNCHANGED <<policies, overtaken, instant>>
  BY DEF Review
<1>2. place \in Places
  BY <1>1, FindIsPlace
<1>3. policies[place].kind = "policy" /\ Exact(q.ref) /\ WellFormed(policies[place])
  BY <1>1, <1>2 DEF Accepts, Readable, PolicyIInv, PolicyFilesInv
<1>4. Asked(new) /\ new.at # "compared"
  <2> HIDE DEF place
  <2> QED
    BY <1>2, <1>3 DEF Asked
<1> HIDE DEF new
<1> QED
  BY <1>1, <1>4, AskerStep

LEMMA CompareStep ==
  ASSUME PolicyIInv, NEW a \in Askers, CompareAgain(a) \/ GiveUpAllow(a)
  PROVE  PolicyIInv'
<1> DEFINE s == asking[a]
           new == [s EXCEPT !.at = "compared"]
           idle == [at |-> "idle"]
<1>1. UNCHANGED <<policies, instant>> /\ overtaken' = overtaken \ {a}
  BY DEF CompareAgain, GiveUpAllow
<1>2. CASE asking' = [asking EXCEPT ![a] = idle]
  BY <1>1, <1>2, AskerStep
<1>3. CASE s.at = "reviewed" /\ policies[s.place] = s.before /\ asking' = [asking EXCEPT ![a] = new]
  <2>1. Asked(s)
    BY <1>3 DEF PolicyIInv, AskersInv
  <2>2. /\ new.at = "compared" /\ new.place = s.place /\ new.before = s.before
        /\ new = [at |-> "compared", place |-> s.place, before |-> s.before, asked |-> s.asked, after |-> s.after]
    BY <2>1 DEF Asked
  <2> HIDE DEF new
  <2>3. Asked(new)
    BY <2>1, <2>2 DEF Asked
  <2> QED
    BY <1>1, <1>3, <2>2, <2>3, AskerStep
<1> QED
  BY <1>2, <1>3 DEF CompareAgain, GiveUpAllow

(* Whoever replaces a file marks those who have just compared it.           *)
LEMMA ReplaceStep ==
  ASSUME PolicyIInv, NEW place \in Places, NEW content, WellFormed(content),
         policies' = [policies EXCEPT ![place] = content],
         \A b \in Askers : asking'[b].at = "compared" => asking'[b] = asking[b],
         \A b \in Askers : asking'[b].at = "compared" /\ b \notin overtaken' =>
           b \notin overtaken /\ b \notin Replaced(place)
  PROVE  PolicyFilesInv' /\ ComparedInv'
<1>1. \A i \in Places : policies'[i] = IF i = place THEN content ELSE policies[i]
  BY DEF PolicyIInv, PolicyFilesInv
<1>2. policies' = [i \in Places |-> policies'[i]]
  BY DEF PolicyIInv, PolicyFilesInv
<1>3. PolicyFilesInv'
  <2>1. \A i \in Places : WellFormed(policies'[i])
    BY <1>1 DEF PolicyIInv, PolicyFilesInv
  <2> QED
    BY <1>2, <2>1 DEF PolicyFilesInv
<1>4. ASSUME NEW b \in Askers, b \notin overtaken', asking'[b].at = "compared"
      PROVE  policies'[asking'[b].place] = asking'[b].before
  <2>1. asking[b].at = "compared" /\ asking[b].place # place /\ asking[b].place \in Places
    BY <1>4 DEF Replaced, PolicyIInv, AskersInv, Asked
  <2>2. policies[asking[b].place] = asking[b].before
    BY <1>4, <2>1 DEF PolicyIInv, ComparedInv
  <2> QED
    BY <1>1, <1>4, <2>1, <2>2
<1> QED
  BY <1>3, <1>4 DEF ComparedInv

LEMMA WriteAllowStep ==
  ASSUME PolicyIInv, NEW a \in Askers, WriteAllow(a)
  PROVE  PolicyIInv'
<1> DEFINE s == asking[a]
<1>1. /\ s.at = "compared" /\ policies' = [policies EXCEPT ![s.place] = s.after]
      /\ asking' = [asking EXCEPT ![a] = [at |-> "idle"]] /\ instant' = instant
      /\ overtaken' = (overtaken \cup Replaced(s.place)) \ {a}
  BY DEF WriteAllow
<1>2. Asked(s)
  BY <1>1 DEF PolicyIInv, AskersInv
<1>3. WellFormed(s.after) /\ s.place \in Places
  BY <1>2, AddAllowShape DEF Asked
<1>4. \A b \in Askers : asking'[b] = IF b = a THEN [at |-> "idle"] ELSE asking[b]
  BY <1>1 DEF PolicyIInv, AskersInv
<1>5. AskersInv'
  <2>1. asking' = [b \in Askers |-> asking'[b]]
    BY <1>1 DEF PolicyIInv, AskersInv
  <2>2. \A b \in Askers : asking'[b] = [at |-> "idle"] \/ Asked(asking'[b])
    BY <1>4 DEF PolicyIInv, AskersInv
  <2> QED
    BY <2>1, <2>2 DEF AskersInv
<1>6. PolicyFilesInv' /\ ComparedInv'
  <2>1. \A b \in Askers : asking'[b].at = "compared" => b # a /\ asking'[b] = asking[b]
    BY <1>4
  <2> QED
    BY <1>1, <1>3, <2>1, ReplaceStep
<1> QED
  BY <1>1, <1>5, <1>6 DEF PolicyIInv

LEMMA EditPolicyStep ==
  ASSUME PolicyIInv, NEW place \in Places, NEW content \in Edits, EditPolicy(place, content)
  PROVE  PolicyIInv'
<1>1. /\ policies' = [policies EXCEPT ![place] = content] /\ UNCHANGED <<asking, instant>>
      /\ overtaken' = overtaken \cup Replaced(place)
  BY DEF EditPolicy
<1>2. WellFormed(content)
  BY PolicyAssumption
<1>3. PolicyFilesInv' /\ ComparedInv'
  BY <1>1, <1>2, ReplaceStep
<1>4. AskersInv'
  BY <1>1 DEF PolicyIInv, AskersInv
<1> QED
  BY <1>1, <1>3, <1>4 DEF PolicyIInv

LEMMA StepPolicyIInv == PolicyIInv /\ [PolicyNext]_policyVars => PolicyIInv'
<1> SUFFICES ASSUME PolicyIInv, [PolicyNext]_policyVars PROVE PolicyIInv'
  OBVIOUS
<1>1. CASE (\E flag \in {0, 2} : Load(flag)) \/ PassTime \/ UNCHANGED policyVars
  <2>1. UNCHANGED <<policies, asking, overtaken>> /\ instant' \in Nat
    BY <1>1 DEF PolicyIInv, Load, PassTime, policyVars
  <2>2. PolicyFilesInv' /\ AskersInv' /\ ComparedInv'
    BY <2>1 DEF PolicyIInv, PolicyFilesInv, AskersInv, ComparedInv
  <2> QED
    BY <2>1, <2>2 DEF PolicyIInv
<1>2. ASSUME NEW a \in Askers, (\E q \in Requests : Review(a, q)) \/ CompareAgain(a) \/ WriteAllow(a) \/ GiveUpAllow(a)
      PROVE  PolicyIInv'
  BY <1>2, ReviewStep, CompareStep, WriteAllowStep
<1>3. ASSUME NEW place \in Places, NEW content \in Edits, EditPolicy(place, content)
      PROVE  PolicyIInv'
  BY <1>3, EditPolicyStep
<1> QED
  BY <1>1, <1>2, <1>3 DEF PolicyNext

LEMMA PolicyIInvHolds == PolicySpec => []PolicyIInv
  BY InitPolicyIInv, StepPolicyIInv, PTL DEF PolicySpec

-----------------------------------------------------------------------------
(* The theorem.                                                             *)

(* policy allow --write changes one file, and what it excuses by exactly    *)
(* the exception asked for, unless the file was replaced between the        *)
(* comparison and the write (policy_allow.go, writeAllow; allow.go).        *)
THEOREM PolicyGrantsExactly == PolicySpec => GrantsExactly
<1> DEFINE Exactly ==
      \A a \in Askers \ overtaken :
        asking[a].at = "compared" /\ asking'[a].at = "idle" /\ policies' # policies =>
          LET place == asking[a].place
          IN /\ \A other \in Places \ {place} : policies'[other] = policies[other]
             /\ \A now \in instant..MaxInstant :
                  Excuses(policies'[place], now) =
                    Excuses(policies[place], now) \cup {cr \in Checks \X Packages : Grants(asking[a].asked, cr[1], cr[2], now)}
<1>1. PolicyIInv /\ [PolicyNext]_policyVars => [Exactly]_policyVars
  <2> SUFFICES ASSUME PolicyIInv, PolicyNext, NEW a \in Askers \ overtaken,
                      asking[a].at = "compared", asking'[a].at = "idle", policies' # policies
               PROVE  /\ \A other \in Places \ {asking[a].place} : policies'[other] = policies[other]
                      /\ \A now \in instant..MaxInstant :
                           Excuses(policies'[asking[a].place], now) =
                             Excuses(policies[asking[a].place], now)
                               \cup {cr \in Checks \X Packages : Grants(asking[a].asked, cr[1], cr[2], now)}
    BY DEF policyVars
  <2> DEFINE s == asking[a]
  <2>1. Asked(s) /\ policies[s.place] = s.before
    BY DEF PolicyIInv, AskersInv, ComparedInv
  <2>2. PICK b \in Askers : WriteAllow(b)
    BY DEF PolicyNext, Load, Review, CompareAgain, GiveUpAllow, EditPolicy, PassTime
  <2>3. b = a
    BY <2>2 DEF WriteAllow, PolicyIInv, AskersInv
  <2>4. policies' = [policies EXCEPT ![s.place] = s.after] /\ s.place \in Places
    BY <2>1, <2>2, <2>3 DEF WriteAllow, Asked
  <2>5. policies'[s.place] = AddAllow(policies[s.place], s.asked)
        /\ \A other \in Places \ {s.place} : policies'[other] = policies[other]
    BY <2>1, <2>4 DEF Asked, PolicyIInv, PolicyFilesInv
  <2>6. \A now \in instant..MaxInstant : now \in Nat
    BY DEF PolicyIInv
  <2> HIDE DEF s
  <2>7. \A now \in instant..MaxInstant :
          Excuses(policies'[s.place], now) =
            Excuses(policies[s.place], now) \cup {cr \in Checks \X Packages : Grants(s.asked, cr[1], cr[2], now)}
    BY <2>1, <2>5, <2>6, GrantsWhatWasAsked DEF Asked
  <2> QED
    BY <2>5, <2>7 DEF s
<1> QED
  BY <1>1, PolicyIInvHolds, PTL DEF PolicySpec, GrantsExactly


-----------------------------------------------------------------------------
(* What a run makes of the file that governs it.                            *)

LEMMA FirstOfThree ==
  ASSUME NEW x, NEW y, NEW z, NEW u, z # u
  PROVE  FirstSaid(<<x, y, z>>, u) = IF x # u THEN x ELSE IF y # u THEN y ELSE z
<1> DEFINE s == <<x, y, z>>
           said == {i \in DOMAIN s : s[i] # u}
           first == CHOOSE i \in said : \A j \in said : i <= j
<1>1. DOMAIN s = {1, 2, 3} /\ s[1] = x /\ s[2] = y /\ s[3] = z
  OBVIOUS
<1>2. FirstSaid(<<x, y, z>>, u) = s[first]
  BY DEF FirstSaid
<1> HIDE DEF s
<1>3. said \subseteq {1, 2, 3}
  BY <1>1
<1>4. ASSUME NEW i \in said, \A j \in said : i <= j
      PROVE  first = i
  <2>1. first \in said /\ \A j \in said : first <= j
    BY <1>4
  <2>2. first <= i /\ i <= first /\ first \in {1, 2, 3} /\ i \in {1, 2, 3}
    BY <1>3, <1>4, <2>1
  <2> HIDE DEF first, said
  <2> QED
    BY <2>2
<1>5. CASE x # u
  <2>1. 1 \in said /\ \A j \in said : 1 <= j
    BY <1>1, <1>5
  <2>2. first = 1
    BY <1>4, <2>1
  <2> QED
    BY <1>1, <1>2, <1>5, <2>2
<1>6. CASE x = u /\ y # u
  <2>1. 2 \in said /\ \A j \in said : 2 <= j
    BY <1>1, <1>6
  <2>2. first = 2
    BY <1>4, <2>1
  <2> QED
    BY <1>1, <1>2, <1>6, <2>2
<1>7. CASE x = u /\ y = u
  <2>1. 3 \in said /\ \A j \in said : 3 <= j
    BY <1>1, <1>7
  <2>2. first = 3
    BY <1>4, <2>1
  <2> QED
    BY <1>1, <1>2, <1>7, <2>2
<1> QED
  BY <1>5, <1>6, <1>7

JudgedFields == {"level", "minSeverity", "minDownloads"}

LEMMA FieldApplied ==
  ASSUME NEW base, NEW said, NEW c \in Checks, NEW field \in JudgedFields
  PROVE  applyChecks(base, said)[c][field] =
           IF SaysOf(said, c, field) # Unsaid(field) THEN SaysOf(said, c, field) ELSE base[c][field]
<1> DEFINE new == applyChecks(base, said)[c]
<1>1. CASE c \notin DOMAIN said
  BY <1>1 DEF applyChecks, SaysOf
<1>2. CASE c \in DOMAIN said
  <2>1. new = [level |-> IF said[c].level = Unset THEN base[c].level ELSE said[c].level,
               minSeverity |-> IF said[c].minSeverity = Unset THEN base[c].minSeverity ELSE said[c].minSeverity,
               minDownloads |-> IF said[c].minDownloads = -1 THEN base[c].minDownloads ELSE said[c].minDownloads]
    BY <1>2 DEF applyChecks
  <2>2. SaysOf(said, c, field) = said[c][field]
    BY <1>2 DEF SaysOf
  <2> HIDE DEF new
  <2>3. CASE field = "level"
    BY <2>1, <2>2, <2>3 DEF Unsaid, new
  <2>4. CASE field = "minSeverity"
    BY <2>1, <2>2, <2>4 DEF Unsaid, new
  <2>5. CASE field = "minDownloads"
    BY <2>1, <2>2, <2>5 DEF Unsaid, new
  <2> QED
    BY <2>3, <2>4, <2>5 DEF JudgedFields
<1> QED
  BY <1>1, <1>2

LEMMA Counts == \A n \in {0, 500} : n # -1
  OBVIOUS

LEMMA DefaultSays ==
  ASSUME NEW c \in Checks, NEW field \in JudgedFields
  PROVE  Defaults.checks[c] = checkDefaults(c) /\ checkDefaults(c)[field] # Unsaid(field)
<1>1. checkDefaults(c).level \in {"info", "warn", "block"} /\ checkDefaults(c).minSeverity \in {"high", ""}
      /\ checkDefaults(c).minDownloads \in {0, 500}
  BY DEF checkDefaults
<1>2. Defaults.checks[c] = checkDefaults(c)
  BY DEF Defaults
<1>3. CASE field = "minDownloads"
  <2>1. Unsaid(field) = -1 /\ checkDefaults(c)[field] \in {0, 500}
    BY <1>1, <1>3 DEF Unsaid
  <2> QED
    BY <1>2, <2>1, Counts
<1>4. CASE field = "level"
  <2>1. Unsaid(field) = "unset" /\ checkDefaults(c)[field] \in {"info", "warn", "block"}
    BY <1>1, <1>4 DEF Unsaid, Unset
  <2> QED
    BY <1>2, <2>1
<1>5. CASE field = "minSeverity"
  <2>1. Unsaid(field) = "unset" /\ checkDefaults(c)[field] \in {"high", ""}
    BY <1>1, <1>5 DEF Unsaid, Unset
  <2> QED
    BY <1>2, <2>1
<1> QED
  BY <1>3, <1>4, <1>5 DEF JudgedFields

LEMMA FieldJudged ==
  ASSUME NEW general, NEW special, NEW c \in Checks, NEW field \in JudgedFields
  PROVE  applyChecks(applyChecks(Defaults.checks, general), special)[c][field] =
           FirstSaid(<<SaysOf(special, c, field), SaysOf(general, c, field), checkDefaults(c)[field]>>, Unsaid(field))
<1> DEFINE u == Unsaid(field)
           x == SaysOf(special, c, field)
           y == SaysOf(general, c, field)
           z == checkDefaults(c)[field]
           base == applyChecks(Defaults.checks, general)
<1>1. Defaults.checks[c][field] = z /\ z # u
  BY DefaultSays
<1>2. base[c][field] = IF y # u THEN y ELSE z
  BY <1>1, FieldApplied
<1>3. applyChecks(base, special)[c][field] = IF x # u THEN x ELSE base[c][field]
  BY FieldApplied
<1>4. FirstSaid(<<x, y, z>>, u) = IF x # u THEN x ELSE IF y # u THEN y ELSE z
  BY <1>1, FirstOfThree
<1> HIDE DEF u, x, y, z, base
<1>5. applyChecks(base, special)[c][field] = FirstSaid(<<x, y, z>>, u)
  BY <1>2, <1>3, <1>4
<1> QED
  BY <1>5 DEF u, x, y, z, base

(* --cooldown leaves the checks alone and wins over every cooldown.         *)
LEMMA OverrideKeeps ==
  ASSUME NEW p, p.kind = "policy", WellFormed(p), NEW flag \in {0, 2}, NEW e
  PROVE  /\ applyCooldownOverride(p, flag).checks = p.checks
         /\ applyCooldownOverride(p, flag).allow = p.allow
         /\ ChecksOf(applyCooldownOverride(p, flag), e) = ChecksOf(p, e)
         /\ flag # 0 => Effective(applyCooldownOverride(p, flag), e).cooldown = flag
<1>1. CASE flag = 0
  BY <1>1 DEF applyCooldownOverride
<1>2. CASE flag # 0
  <2> DEFINE ecosystems == [x \in DOMAIN p.ecosystems |-> [p.ecosystems[x] EXCEPT !.cooldown = 0]]
             q == [p EXCEPT !.cooldown = flag, !.ecosystems = ecosystems]
  <2>1. applyCooldownOverride(p, flag) = q
    BY <1>2 DEF applyCooldownOverride
  <2>2. p = [x \in DOMAIN NoPolicy |-> p[x]] /\ {"cooldown", "ecosystems", "checks", "allow"} \subseteq DOMAIN NoPolicy
    BY DEF WellFormed, NoPolicy
  <2>3. \A x \in DOMAIN p.ecosystems : p.ecosystems[x] = [y \in {"cooldown", "checks"} |-> p.ecosystems[x][y]]
    BY DEF WellFormed, NoOverride
  <2>4. \A x \in DOMAIN p.ecosystems : ecosystems[x].cooldown = 0 /\ ecosystems[x].checks = p.ecosystems[x].checks
    BY <2>3
  <2>5. DOMAIN ecosystems = DOMAIN p.ecosystems
    OBVIOUS
  <2> HIDE DEF ecosystems
  <2>6. q.cooldown = flag /\ q.ecosystems = ecosystems /\ q.checks = p.checks /\ q.allow = p.allow
    BY <2>2
  <2> HIDE DEF q
  <2>7. ChecksOf(q, e) = ChecksOf(p, e)
    BY <2>4, <2>5, <2>6 DEF ChecksOf
  <2>8. Effective(q, e).cooldown = flag
    <3> DEFINE override == IF e \in DOMAIN q.ecosystems THEN q.ecosystems[e] ELSE NoOverride
    <3>1. override.cooldown = 0
      BY <2>4, <2>5, <2>6 DEF NoOverride
    <3>2. Effective(q, e).cooldown =
            CASE override.cooldown # 0 -> override.cooldown
              [] override.cooldown = 0 /\ q.cooldown # 0 -> q.cooldown
              [] OTHER -> Defaults.cooldown
      BY DEF Effective
    <3> HIDE DEF override
    <3> QED
      BY <1>2, <2>6, <3>1, <3>2
  <2> QED
    BY <2>1, <2>6, <2>7, <2>8
<1> QED
  BY <1>1, <1>2

LEMMA EffectiveChecks ==
  ASSUME NEW p, NEW e
  PROVE  Effective(p, e).checks = applyChecks(applyChecks(Defaults.checks, p.checks), ChecksOf(p, e))
<1> DEFINE override == IF e \in DOMAIN p.ecosystems THEN p.ecosystems[e] ELSE NoOverride
<1>1. Effective(p, e).checks = applyChecks(applyChecks(Defaults.checks, p.checks), override.checks)
  BY DEF Effective
<1>2. override.checks = ChecksOf(p, e)
  BY DEF ChecksOf, NoOverride
<1> QED
  BY <1>1, <1>2

(* An entry excuses through its last day.                                   *)
LEMMA AllowedByDay ==
  ASSUME NEW p, p.allow \in Seq(Allowance), NEW check, NEW r, NEW now \in Nat
  PROVE  Allowed(p, check, r, now) <=>
           \E i \in DOMAIN p.allow : /\ p.allow[i].check = check /\ Match(p.allow[i].package, r)
                                     /\ p.allow[i].expires = 0 \/ Day(now) <= p.allow[i].expires
<1> DEFINE s == p.allow
<1>1. \A i \in DOMAIN s : s[i] \in Allowance
  OBVIOUS
<1>2. \A a \in Allowance : ~Expired(a, now) <=> a.expires = 0 \/ Day(now) <= a.expires
  BY DEF Allowance, Expired, Day
<1>3. Allowed(p, check, r, now) <=> \E i \in DOMAIN s : s[i].check = check /\ ~Expired(s[i], now) /\ Match(s[i].package, r)
  BY DEF Allowed
<1> HIDE DEF s
<1>4. Allowed(p, check, r, now) <=>
        \E i \in DOMAIN s : s[i].check = check /\ Match(s[i].package, r) /\ (s[i].expires = 0 \/ Day(now) <= s[i].expires)
  BY <1>1, <1>2, <1>3
<1> QED
  BY <1>4 DEF s

Governing(files) ==
  {i \in Places : /\ files[i].kind \in {"policy", "broken", "denied"}
                  /\ \A j \in 1..(i - 1) : files[j].kind \in {"absent", "directory"}}

(* The file that is found is the one that governs.                          *)
LEMMA FoundGoverns ==
  ASSUME NEW files, \A i \in Places : WellFormed(files[i])
  PROVE  Governing(files) = IF find(files) = 0 THEN {} ELSE {find(files)}
<1> DEFINE here == {i \in Places : files[i].kind \notin {"absent", "directory"}}
           first == CHOOSE i \in here : \A j \in here : i <= j
<1>1. Places = 1..(Depth + 1) /\ Depth \in Nat
  BY PolicyAssumption DEF Places
<1>2. \A i \in Places : files[i].kind \in {"absent", "directory", "denied", "broken", "policy"}
  BY DEF WellFormed
<1>3. find(files) = IF here = {} THEN 0 ELSE first
  BY DEF find
<1>4. \A i \in Places : i \in here <=> files[i].kind \in {"policy", "broken", "denied"}
  BY <1>2
<1>5. \A i \in Places : \A j \in 1..(i - 1) : j \in Places /\ j < i
  BY <1>1
<1>6. here \subseteq Places /\ Places \subseteq Nat
  BY <1>1
<1>7. Governing(files) = {i \in here : \A j \in 1..(i - 1) : j \notin here}
  BY <1>2, <1>4, <1>5, <1>6 DEF Governing
<1> HIDE DEF here
<1>8. CASE here = {}
  BY <1>3, <1>7, <1>8
<1>9. CASE here # {}
  <2>1. here \in SUBSET Nat
    BY <1>6
  <2>2. \E i \in here : \A j \in here : i <= j
    BY <1>9, <2>1, Least
  <2>3. first \in here /\ \A j \in here : first <= j
    BY <2>2
  <2> HIDE DEF first
  <2>4. first \in Nat \ {0}
    BY <1>1, <1>6, <2>3
  <2>5. find(files) = first /\ find(files) # 0
    BY <1>3, <1>9, <2>4
  <2>6. first \in Governing(files)
    BY <1>5, <1>6, <1>7, <2>3
  <2>7. ASSUME NEW i \in Governing(files) PROVE i = first
    <3>1. i \in here /\ i \in Nat /\ first <= i
      BY <1>6, <1>7, <2>3
    <3>2. first \notin 1..(i - 1)
      BY <1>7, <2>3
    <3> QED
      BY <2>4, <3>1, <3>2
  <2>8. Governing(files) = {first}
    BY <2>6, <2>7
  <2> QED
    BY <2>5, <2>8
<1> QED
  BY <1>8, <1>9

LEMMA NoPolicyWellFormed == NoPolicy.kind = "policy" /\ WellFormed(NoPolicy) /\ Validate(NoPolicy)
<1>1. NoPolicy = [x \in DOMAIN NoPolicy |-> NoPolicy[x]] /\ NoPolicy.kind = "policy"
  BY DEF NoPolicy
<1>2. NoPolicy.allow \in Seq(Allowance) /\ DOMAIN NoPolicy.allow = {}
  <2>1. NoPolicy.allow = <<>>
    BY DEF NoPolicy
  <2> QED
    BY <2>1
<1>3. DOMAIN NoPolicy.ecosystems = {} /\ DOMAIN NoPolicy.checks = {}
  BY DEF NoPolicy
<1>4. WellFormed(NoPolicy)
  BY <1>1, <1>2, <1>3 DEF WellFormed
<1>5. Validate(NoPolicy)
  BY <1>2, <1>3 DEF Validate, validateChecks
<1> QED
  BY <1>1, <1>4, <1>5

\* What a run that loaded p makes of it.
Makes(p, flag, now) ==
  /\ p.kind = "policy" /\ Validate(p)
  /\ \A e \in Ecos : \A c \in Checks : \A field \in JudgedFields :
       Effective(applyCooldownOverride(p, flag), e).checks[c][field] =
         FirstSaid(<<SaysOf(ChecksOf(p, e), c, field), SaysOf(p.checks, c, field), checkDefaults(c)[field]>>, Unsaid(field))
  /\ flag # 0 => \A e \in Ecos : Effective(applyCooldownOverride(p, flag), e).cooldown = flag
  /\ \A c \in Checks : \A r \in Packages :
       Allowed(applyCooldownOverride(p, flag), c, r, now) <=>
         \E i \in DOMAIN p.allow : /\ p.allow[i].check = c /\ Match(p.allow[i].package, r)
                                   /\ p.allow[i].expires = 0 \/ Day(now) <= p.allow[i].expires

LEMMA MakesOf ==
  ASSUME NEW p, p.kind = "policy", WellFormed(p), Validate(p), NEW flag \in {0, 2}, NEW now \in Nat
  PROVE  Makes(p, flag, now)
<1> DEFINE q == applyCooldownOverride(p, flag)
<1>1. q.checks = p.checks /\ q.allow = p.allow /\ p.allow \in Seq(Allowance)
  BY OverrideKeeps DEF WellFormed
<1>2. ASSUME NEW e
      PROVE  /\ Effective(q, e).checks = applyChecks(applyChecks(Defaults.checks, p.checks), ChecksOf(p, e))
             /\ flag # 0 => Effective(q, e).cooldown = flag
  BY <1>1, OverrideKeeps, EffectiveChecks
<1>3. ASSUME NEW c, NEW r
      PROVE  Allowed(q, c, r, now) <=>
               \E i \in DOMAIN p.allow : /\ p.allow[i].check = c /\ Match(p.allow[i].package, r)
                                         /\ p.allow[i].expires = 0 \/ Day(now) <= p.allow[i].expires
  <2>1. Allowed(q, c, r, now) <=> Allowed(p, c, r, now)
    BY <1>1 DEF Allowed
  <2> QED
    BY <1>1, <2>1, AllowedByDay
<1> HIDE DEF q
<1>4. \A e \in Ecos : \A c \in Checks : \A field \in JudgedFields :
        Effective(q, e).checks[c][field] =
          FirstSaid(<<SaysOf(ChecksOf(p, e), c, field), SaysOf(p.checks, c, field), checkDefaults(c)[field]>>, Unsaid(field))
  BY <1>2, FieldJudged
<1> QED
  BY <1>2, <1>3, <1>4 DEF Makes, q


Told(files) == IF Governing(files) = {} THEN NoPolicy ELSE files[CHOOSE i \in Governing(files) : TRUE]

\* What a run that has judged, j, may have made of the files it read.
Just(j) ==
  j.made =>
    IF j.refused THEN Told(j.files).kind # "policy" \/ ~Validate(Told(j.files))
    ELSE /\ Told(j.files).kind = "policy" /\ Validate(Told(j.files))
         /\ \A e \in Ecos : \A c \in Checks : \A field \in JudgedFields :
              j.settings[e].checks[c][field] =
                FirstSaid(<<SaysOf(ChecksOf(Told(j.files), e), c, field), SaysOf(Told(j.files).checks, c, field),
                            checkDefaults(c)[field]>>, Unsaid(field))
         /\ j.flag # 0 => \A e \in Ecos : j.settings[e].cooldown = j.flag
         /\ \A c \in Checks : \A r \in Packages :
              <<c, r>> \in j.excused <=>
                \E i \in DOMAIN Told(j.files).allow :
                  /\ Told(j.files).allow[i].check = c /\ Match(Told(j.files).allow[i].package, r)
                  /\ Told(j.files).allow[i].expires = 0 \/ Day(j.now) <= Told(j.files).allow[i].expires

LEMMA JustIsWritten == JudgedAsWritten <=> Just(judged)
  BY DEF JudgedAsWritten, Just, Told, Governing, JudgedFields

LEMMA JustMakes ==
  ASSUME NEW j, NEW flag, NEW now,
         ~j.refused, j.flag = flag, j.now = now, Makes(Told(j.files), flag, now),
         j.settings = [e \in Ecos |-> Effective(applyCooldownOverride(Told(j.files), flag), e)],
         j.excused = {cr \in Checks \X Packages: Allowed(applyCooldownOverride(Told(j.files), flag), cr[1], cr[2], now)}
  PROVE  Just(j)
<1> DEFINE p == Told(j.files)
           q == applyCooldownOverride(p, flag)
<1>1. \A e \in Ecos : j.settings[e] = Effective(q, e)
  OBVIOUS
<1>2. \A c \in Checks : \A r \in Packages : <<c, r>> \in j.excused <=> Allowed(q, c, r, now)
  OBVIOUS
<1>3. p.kind = "policy" /\ Validate(p)
  BY DEF Makes
<1>4. \A e \in Ecos : \A c \in Checks : \A field \in JudgedFields :
        j.settings[e].checks[c][field] =
          FirstSaid(<<SaysOf(ChecksOf(p, e), c, field), SaysOf(p.checks, c, field), checkDefaults(c)[field]>>, Unsaid(field))
  BY <1>1 DEF Makes
<1>5. j.flag # 0 => \A e \in Ecos : j.settings[e].cooldown = j.flag
  BY <1>1 DEF Makes
<1>6. \A c \in Checks : \A r \in Packages :
        <<c, r>> \in j.excused <=>
          \E i \in DOMAIN p.allow : /\ p.allow[i].check = c /\ Match(p.allow[i].package, r)
                                    /\ p.allow[i].expires = 0 \/ Day(j.now) <= p.allow[i].expires
  <2> SUFFICES ASSUME NEW c \in Checks, NEW r \in Packages
               PROVE  <<c, r>> \in j.excused <=>
                        \E i \in DOMAIN p.allow : /\ p.allow[i].check = c /\ Match(p.allow[i].package, r)
                                                  /\ p.allow[i].expires = 0 \/ Day(j.now) <= p.allow[i].expires
    OBVIOUS
  <2>1. <<c, r>> \in j.excused <=> Allowed(q, c, r, now)
    BY <1>2
  <2>2. Allowed(q, c, r, now) <=>
          \E i \in DOMAIN p.allow : /\ p.allow[i].check = c /\ Match(p.allow[i].package, r)
                                    /\ p.allow[i].expires = 0 \/ Day(now) <= p.allow[i].expires
    BY Zenon DEF Makes
  <2> QED
    BY <2>1, <2>2, Zenon
<1> HIDE DEF q
<1> QED
  BY <1>3, <1>4, <1>5, <1>6, Zenon DEF Just

LEMMA LoadJudges ==
  ASSUME PolicyIInv, NEW flag \in {0, 2}, Load(flag)
  PROVE  Just(judged')
<1> DEFINE place == find(policies)
           p == IF place = 0 THEN NoPolicy ELSE policies[place]
           q == applyCooldownOverride(p, flag)
           refused == place # 0 /\ ~Readable(policies[place])
<1>1. /\ refused => judged' = [made |-> TRUE, refused |-> TRUE, files |-> policies]
      /\ ~refused => judged' = [made |-> TRUE, refused |-> FALSE, files |-> policies, now |-> instant, flag |-> flag,
                settings |-> [e \in Ecos |-> Effective(q, e)],
                excused |-> {cr \in Checks \X Packages: Allowed(q, cr[1], cr[2], instant)},
                excluded |-> {r \in Packages: CooldownExcluded(q, r)},
                stale |-> ExpiredAllows(q, instant)]
  BY DEF Load
<1>2. \A i \in Places : WellFormed(policies[i])
  BY DEF PolicyIInv, PolicyFilesInv
<1>3. Governing(policies) = IF place = 0 THEN {} ELSE {place}
  BY <1>2, FoundGoverns
<1>4. Told(policies) = p
  <2> HIDE DEF place
  <2> QED
    BY <1>3 DEF Told
<1>5. judged'.files = policies
  BY <1>1
<1>6. CASE refused
  <2>1. p.kind # "policy" \/ ~Validate(p)
    BY <1>6 DEF Readable
  <2>2. judged'.refused
    BY <1>1, <1>6
  <2>3. Told(judged'.files).kind # "policy" \/ ~Validate(Told(judged'.files))
    BY <1>4, <1>5, <2>1
  <2> QED
    BY <2>2, <2>3 DEF Just
<1>7. CASE ~refused
  <2>1. p.kind = "policy" /\ WellFormed(p) /\ Validate(p)
    <3>1. CASE place = 0
      BY <3>1, NoPolicyWellFormed
    <3>2. CASE place # 0
      <4>1. place \in Places
        BY <3>2, FindIsPlace
      <4>2. WellFormed(policies[place]) /\ Readable(policies[place])
        BY <1>2, <1>7, <3>2, <4>1
      <4> QED
        BY <3>2, <4>2 DEF Readable
    <3> QED
      BY <3>1, <3>2
  <2>2. Makes(p, flag, instant)
    BY <2>1, MakesOf DEF PolicyIInv
  <2>3. /\ ~judged'.refused /\ judged'.now = instant /\ judged'.flag = flag
        /\ judged'.settings = [e \in Ecos |-> Effective(q, e)]
        /\ judged'.excused = {cr \in Checks \X Packages: Allowed(q, cr[1], cr[2], instant)}
    BY <1>1, <1>7
  <2>4. Told(judged'.files) = p
    BY <1>4, <1>5
  <2> HIDE DEF p, refused, place
  <2> QED
    BY <2>2, <2>3, <2>4, JustMakes
<1> QED
  BY <1>6, <1>7

(* A check is judged at what the governing file says of it, field by field, *)
(* a package is excused through the last day of an entry, and a governing   *)
(* file that cannot be read is never passed over (effective.go:37,          *)
(* discover.go:37, policy.go:192).                                          *)
THEOREM PolicyJudgedAsWritten == PolicySpec => []JudgedAsWritten
<1>1. Just(NotJudged)
  BY DEF NotJudged, Just
<1>2. PolicyInit => Just(judged)
  BY <1>1 DEF PolicyInit
<1>3. PolicyIInv /\ Just(judged) /\ [PolicyNext]_policyVars => Just(judged)'
  <2> SUFFICES ASSUME PolicyIInv, Just(judged), [PolicyNext]_policyVars PROVE Just(judged')
    OBVIOUS
  <2>1. ASSUME NEW flag \in {0, 2}, Load(flag) PROVE Just(judged')
    BY <2>1, LoadJudges
  <2>2. CASE judged' = NotJudged
    BY <1>1, <2>2
  <2>3. CASE judged' = judged
    BY <2>3
  <2> QED
    BY <2>1, <2>2, <2>3 DEF PolicyNext, Review, CompareAgain, WriteAllow, GiveUpAllow, EditPolicy, PassTime, policyVars
<1>4. PolicyIInv /\ Just(judged) => JudgedAsWritten
  BY JustIsWritten
<1> QED
  BY <1>2, <1>3, <1>4, PolicyIInvHolds, PTL DEF PolicySpec

=============================================================================
