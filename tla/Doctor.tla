------------------------------- MODULE Doctor -------------------------------
(* trustdiff doctor --fix (internal/doctor/run.go, fix.go, read.go,         *)
(* internal/textdiff/atomic.go): runs that judge the settings of            *)
(* configuration files, one rule at a time, and write the missing ones.     *)
(*                                                                          *)
(* Two runs may overlap and a run may be killed anywhere. A person edits    *)
(* the files between runs. A file is a text, known by the edit that left    *)
(* it, and the value of each key: "unset", "locked" (missing, and where it  *)
(* belongs is a construct the codec will not edit), "theirs" (somebody's    *)
(* value that the rule calls weak or wrong) or "ours". Levels, versions,    *)
(* scanners and what a value says are left out: a rule here is one that     *)
(* applies, is on, and may be fixed.                                        *)
EXTENDS Integers, Sequences, FiniteSets

CONSTANTS
  Runs,       \* the runs of doctor --fix
  Files,
  Keys,
  Rules,      \* the rules in order: [key, targets], a target [file, create]
  Contents,   \* what a person may leave in each file, as [kind, keys]
  MaxEdits,   \* bound on a person's edits
  MaxClock    \* bound on the seconds that pass

Kinds == {"file", "absent", "link"}
Values == {"unset", "locked", "theirs", "ours"}

ASSUME DoctorAssumption ==
  /\ Rules \in Seq([key: Keys, targets: Seq([file: Files, create: BOOLEAN])])
  /\ Rules # <<>>
  /\ \A i \in DOMAIN Rules: Rules[i].targets # <<>>
  /\ Contents \subseteq [kind: Kinds, keys: [Keys -> Values]]
  /\ MaxEdits \in Nat /\ MaxClock \in Nat \ {0}

VARIABLES
  disk,      \* file -> [kind, text, keys]; kind "file", "absent" or "link"
  backups,   \* the backups beside the files: [file, second, whole, content]
  left,      \* file -> its content as a person last left it
  edits,     \* how many edits there were
  clock,     \* the second it is
  run,       \* run -> its state
  exposed    \* the fixes, as <<run, rule>>, that a person or an overlapping run may undo

vars == <<disk, backups, left, edits, clock, run, exposed>>

NoResult == [status |-> "none", file |-> "", create |-> FALSE]

Idle == [phase |-> "idle", second |-> 0, rule |-> 1, results |-> [i \in DOMAIN Rules |-> NoResult],
         data |-> <<>>, copied |-> {}, fixed |-> {}, failed |-> {}]

Init ==
  /\ disk \in [Files -> {[kind |-> c.kind, text |-> 0, keys |-> c.keys]: c \in Contents}]
  /\ backups = {}
  /\ left = disk
  /\ edits = 0
  /\ clock = 1
  /\ run = [r \in Runs |-> Idle]
  /\ exposed = {}

Working(r) == run[r].phase \notin {"idle", "ended", "killed"}

Set(r, new) == run' = [run EXCEPT ![r] = new]

\* The run clock is read once, when the options are settled.
Begin(r) ==
  /\ run[r].phase = "idle"
  /\ Set(r, [Idle EXCEPT !.phase = "judge", !.second = clock])
  /\ UNCHANGED <<disk, backups, left, edits, clock, exposed>>

-----------------------------------------------------------------------------
(* Judging.                                                                 *)

\* Mutant: a value other than the recommended one counts as missing.
FoundAsWanted(file, key) == disk[file].kind = "file" /\ disk[file].keys[key] = "ours"

Found(file, key) == disk[file].kind = "file" /\ disk[file].keys[key] \in {"theirs", "ours"}

\* The targets in order: one that cannot be read ends the search, as does one
\* that states the key; else the first that could be written.
Judged(rule) ==
  LET at(i) == rule.targets[i].file
      ends == {i \in DOMAIN rule.targets: disk[at(i)].kind = "link" \/ Found(at(i), rule.key)}
      fits == {i \in DOMAIN rule.targets: disk[at(i)].kind = "file" \/ rule.targets[i].create}
      First(S) == CHOOSE i \in S: \A j \in S: i <= j
      result(i, status) == [status |-> status, file |-> at(i), create |-> rule.targets[i].create]
  IN IF ends # {}
     THEN LET i == First(ends)
          IN result(i, IF disk[at(i)].kind = "link" THEN "unreadable"
                       ELSE IF disk[at(i)].keys[rule.key] = "ours" THEN "set" ELSE "wrong")
     ELSE result(IF fits # {} THEN First(fits) ELSE 1, "missing")

Judge(r) ==
  /\ run[r].phase = "judge"
  /\ LET i == run[r].rule
         last == i = Len(Rules)
     IN Set(r, [run[r] EXCEPT !.results[i] = Judged(Rules[i]),
                              !.rule = IF last THEN 1 ELSE i + 1,
                              !.phase = IF last THEN "fix" ELSE "judge"])
  /\ UNCHANGED <<disk, backups, left, edits, clock, exposed>>

-----------------------------------------------------------------------------
(* Fixing: the results in order.                                            *)

Target(r) == run[r].results[run[r].rule].file
Key(r) == Rules[run[r].rule].key

\* The run after its current result.
Advance(state) ==
  IF state.rule = Len(Rules) THEN [state EXCEPT !.phase = "ended"]
  ELSE [state EXCEPT !.phase = "fix", !.rule = @ + 1]

Pass(r) == Set(r, Advance(run[r]))
Fail(r) == Set(r, Advance([run[r] EXCEPT !.failed = @ \cup {Target(r)}]))

\* Mutant: a file is read once, for all the rules about it.
ReadOnce(r) ==
  IF Target(r) \in run[r].copied /\ run[r].data # <<>> THEN run[r].data ELSE <<disk[Target(r)]>>

ReadConfig(r) == <<disk[Target(r)]>>

\* Reads the file again: it may have changed since it was judged. Only a setting
\* that was missing is written.
Read(r) ==
  /\ run[r].phase = "fix"
  /\ LET result == run[r].results[run[r].rule]
         data == ReadConfig(r)
         now == data[1]
     IN CASE result.status # "missing" -> Pass(r)
          [] result.status = "missing" /\ now.kind = "link" -> Fail(r)
          [] result.status = "missing" /\ now.kind = "absent" /\ ~result.create -> Pass(r)
          [] result.status = "missing" /\ now.kind = "file" /\ now.keys[Key(r)] \in {"ours", "locked"} -> Pass(r)
          [] OTHER -> Set(r, [run[r] EXCEPT !.phase = "edited", !.data = data])
  /\ UNCHANGED <<disk, backups, left, edits, clock, exposed>>

Created(r) == run[r].data[1].kind = "absent"

\* One copy per file and run, and none of a file the read did not find.
NeedsBackup(r) == ~Created(r) /\ Target(r) \notin run[r].copied

Named(r, b) == b.file = Target(r) /\ b.second = run[r].second

\* Mutant: a backup of the same name is overwritten.
OpenBackupAnyway(r) ==
  backups' = {b \in backups: ~Named(r, b)}
             \cup {[file |-> Target(r), second |-> run[r].second, whole |-> FALSE, content |-> disk[Target(r)]]}

\* Backup: the copy is created, exclusively, under a name with the run's second;
\* it is whole once all of it is copied and synced.
OpenBackup(r) ==
  /\ ~\E b \in backups: Named(r, b)
  /\ backups' = backups \cup
       {[file |-> Target(r), second |-> run[r].second, whole |-> FALSE, content |-> disk[Target(r)]]}

BeginBackup(r) ==
  /\ run[r].phase = "edited"
  /\ NeedsBackup(r)
  /\ disk[Target(r)].kind = "file"
  /\ OpenBackup(r)
  /\ Set(r, [run[r] EXCEPT !.phase = "copying"])
  /\ UNCHANGED <<disk, left, edits, clock, exposed>>

\* The name is taken, or the file is no longer one, or the disk refuses.
RefuseBackup(r) ==
  /\ run[r].phase = "edited"
  /\ NeedsBackup(r)
  /\ Fail(r)
  /\ UNCHANGED <<disk, backups, left, edits, clock, exposed>>

\* What is copied is the file as it was when it was opened: a rename puts
\* another one in its place and leaves this one to its readers.
EndBackup(r) ==
  /\ run[r].phase = "copying"
  /\ backups' = {IF Named(r, b) THEN [b EXCEPT !.whole = TRUE] ELSE b: b \in backups}
  /\ Set(r, [run[r] EXCEPT !.phase = "copied", !.copied = @ \cup {Target(r)}])
  /\ UNCHANGED <<disk, left, edits, clock, exposed>>

\* A copy that fails is removed again.
SpoilBackup(r) ==
  /\ run[r].phase = "copying"
  /\ backups' = {b \in backups: ~Named(r, b)}
  /\ Fail(r)
  /\ UNCHANGED <<disk, left, edits, clock, exposed>>

Ready(r) == run[r].phase = "copied" \/ (run[r].phase = "edited" /\ ~NeedsBackup(r))

Edited(r) ==
  LET old == run[r].data[1]
  IN IF Created(r)
     THEN [kind |-> "file", text |-> old.text, keys |-> [k \in Keys |-> IF k = Key(r) THEN "ours" ELSE "unset"]]
     ELSE [old EXCEPT !.keys[Key(r)] = "ours"]

\* The run has read the file and is about to replace it.
Holds(r, f) == run[r].phase \in {"edited", "copying", "copied"} /\ Target(r) = f

\* Write: a temporary file, synced and renamed over whatever is there now.
Write(r) ==
  /\ Ready(r)
  /\ disk[Target(r)].kind # "link"
  /\ disk' = [disk EXCEPT ![Target(r)] = Edited(r)]
  /\ Set(r, Advance([run[r] EXCEPT !.fixed = @ \cup {run[r].rule}]))
  /\ exposed' = IF \E q \in Runs \ {r}: Holds(q, Target(r)) THEN exposed \cup {<<r, run[r].rule>>} ELSE exposed
  /\ UNCHANGED <<backups, left, edits, clock>>

\* A temporary file that cannot be written or renamed is removed.
FailWrite(r) ==
  /\ Ready(r)
  /\ Fail(r)
  /\ UNCHANGED <<disk, backups, left, edits, clock, exposed>>

\* A copy that was being made stays as it is.
Kill(r) ==
  /\ Working(r)
  /\ Set(r, [run[r] EXCEPT !.phase = "killed"])
  /\ UNCHANGED <<disk, backups, left, edits, clock, exposed>>

-----------------------------------------------------------------------------

\* The file a result of a run is about.
Fixed(r, i) == run[r].results[i].file

Edit(f) ==
  /\ edits < MaxEdits
  /\ \A r \in Runs: ~Working(r)
  /\ \E c \in Contents: disk' = [disk EXCEPT ![f] = [kind |-> c.kind, text |-> edits + 1, keys |-> c.keys]]
  /\ left' = [left EXCEPT ![f] = disk'[f]]
  /\ edits' = edits + 1
  /\ exposed' = exposed \cup {p \in Runs \X DOMAIN Rules: p[2] \in run[p[1]].fixed /\ Fixed(p[1], p[2]) = f}
  /\ UNCHANGED <<backups, clock, run>>

Tick ==
  /\ clock < MaxClock
  /\ clock' = clock + 1
  /\ UNCHANGED <<disk, backups, left, edits, run, exposed>>

Next ==
  \/ \E r \in Runs:
       \/ Begin(r)
       \/ Judge(r)
       \/ Read(r)
       \/ BeginBackup(r)
       \/ RefuseBackup(r)
       \/ EndBackup(r)
       \/ SpoilBackup(r)
       \/ Write(r)
       \/ FailWrite(r)
       \/ Kill(r)
  \/ \E f \in Files: Edit(f)
  \/ Tick

Spec == Init /\ [][Next]_vars

-----------------------------------------------------------------------------
(* Correctness.                                                             *)

Document == [kind: Kinds, text: 0..MaxEdits, keys: [Keys -> Values]]
Backup == [file: Files, second: 1..MaxClock, whole: BOOLEAN, content: Document]
Outcome == [status: {"none", "missing", "unreadable", "set", "wrong"}, file: Files \cup {""}, create: BOOLEAN]
Progress ==
  [phase: {"idle", "judge", "fix", "edited", "copying", "copied", "ended", "killed"}, second: 0..MaxClock,
   rule: DOMAIN Rules, results: [DOMAIN Rules -> Outcome], data: Seq(Document),
   copied: SUBSET Files, fixed: SUBSET DOMAIN Rules, failed: SUBSET Files]

TypeOK ==
  /\ disk \in [Files -> Document]
  /\ backups \subseteq Backup
  /\ left \in [Files -> Document]
  /\ edits \in 0..MaxEdits
  /\ clock \in 1..MaxClock
  /\ run \in [Runs -> Progress]
  /\ exposed \subseteq Runs \X DOMAIN Rules

\* What a person left can be had back: it is in place or in a whole backup, whatever
\* runs overlapped, failed or were killed, and in whichever second. A link is never
\* replaced.
OriginalKept ==
  \A f \in Files:
    CASE left[f].kind = "link" -> disk[f] = left[f]
      [] left[f].kind = "file" ->
           \/ disk[f] = left[f]
           \/ \E b \in backups: b.file = f /\ b.whole /\ b.content = left[f]
      [] OTHER -> TRUE

\* What a run reported as written is there from then on, whatever it, and the runs
\* that begin or read the file later, write beside it, fail at or are killed in, until
\* a person edits the file. Only a run that had read the file before can undo it.
FixesStick ==
  \A r \in Runs: \A i \in run[r].fixed: <<r, i>> \notin exposed =>
    disk[Fixed(r, i)].kind = "file" /\ disk[Fixed(r, i)].keys[Rules[i].key] = "ours"

\* What somebody wrote stays: no fix overwrites a value, nor the text around it.
TheirsStays ==
  \A f \in Files: left[f].kind = "file" =>
    /\ disk[f].kind = "file" /\ disk[f].text = left[f].text
    /\ \A k \in Keys: left[f].keys[k] \in {"theirs", "locked", "ours"} => disk[f].keys[k] = left[f].keys[k]

\* Nothing a person wrote is lost, from the file or for good: the two statements.
NothingLost == OriginalKept /\ TheirsStays

\* A backup holds what a person left, not what the run that made it had written.
BackupIsTheirs ==
  \A r \in Runs: run[r].phase # "idle" /\ edits = 0 /\ (\A q \in Runs \ {r}: run[q].phase = "idle") =>
    \A b \in backups: b.content = left[b.file]

=============================================================================
