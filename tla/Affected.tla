------------------------------ MODULE Affected ------------------------------
(* What an OSV archive says of a version: how osvindex builds its records   *)
(* from the members of an archive (build.go) and how a lookup reads them    *)
(* (read.go). A version or a bound is [ok, at]: its place in the            *)
(* ecosystem's order when it parses, a spelling of its own when it does     *)
(* not; NoText stands for the empty string.                                 *)
EXTENDS Integers, Sequences, FiniteSets

CONSTANTS
  Families,   \* families of archives: sequences of members
  Asked       \* the versions looked up, NoText for a lookup of the whole package

\* A member of an archive (osvRecord) with its affected blocks, their ranges of events
\* and lists of versions. An event spells any of its keys; named says that a block is
\* of this package, usable that the member has an advisory's name, decodes and has an id.
Texts == [ok: BOOLEAN, at: Int]
RangeEvents == [introduced: Texts, fixed: Texts, last: Texts]
EventRanges == [type: STRING, events: Seq(RangeEvents)]
AffectedBlocks == [ecosystem: BOOLEAN, named: BOOLEAN, ranges: SUBSET EventRanges, versions: SUBSET Texts]
Members == [usable: BOOLEAN, id: STRING, withdrawn: BOOLEAN, affected: SUBSET AffectedBlocks]

ASSUME AffectedAssumption ==
  /\ \A a \in UNION Families: a \in Seq(Members)
  /\ Asked \subseteq Texts

VARIABLES
  archive,
  built,      \* advisory -> its record for the package, once the archive is indexed
  found       \* the last lookup: [version, ids], before it NoLookup

affectedVars == <<archive, built, found>>

NoText == [ok |-> FALSE, at |-> 0]
Zero == [ok |-> TRUE, at |-> 0]
NoLookup == [version |-> NoText, ids |-> {}, made |-> FALSE]

\* Closing a range: fixed wins where an event spells both ends.
Closed(range, event) ==
  IF event.fixed # NoText THEN [range EXCEPT !.fixed = event.fixed] ELSE [range EXCEPT !.last = event.last]

NewRange(introduced) == [introduced |-> introduced, fixed |-> NoText, last |-> NoText]

\* One event: acc is the range being read, none or one, and those read.
FirstKeyOnly(acc, event) ==
  IF event.introduced # NoText
  THEN [open |-> {NewRange(event.introduced)}, done |-> acc.done \cup acc.open]
  ELSE [open |-> {}, done |-> acc.done \cup {Closed(r, event): r \in IF acc.open = {} THEN {NewRange(Zero)} ELSE acc.open}]

ReadEvent(acc, event) ==
  LET opened == IF event.introduced = NoText THEN acc
                ELSE [open |-> {NewRange(event.introduced)}, done |-> acc.done \cup acc.open]
  IN IF event.fixed = NoText /\ event.last = NoText THEN opened
     ELSE [open |-> {},
           done |-> opened.done \cup {Closed(r, event): r \in IF opened.open = {} THEN {NewRange(Zero)} ELSE opened.open}]

NothingRead == [open |-> {}, done |-> {}]

ReadEvents(events) ==
  LET read[n \in 0..Len(events)] == IF n = 0 THEN NothingRead ELSE ReadEvent(read[n - 1], events[n])
  IN read[Len(events)]

Flattened(events) == ReadEvents(events).open \cup ReadEvents(events).done

\* A range over commits says nothing of versions.
flattenRanges(ranges) == UNION {Flattened(r.events): r \in {x \in ranges: x.type # "GIT"}}

\* The blocks of a member about this package, in its record beside those of an
\* earlier member of the same advisory; the rest of the record is the first member's.
Collect(records, member) ==
  LET blocks == {b \in member.affected: b.ecosystem /\ b.named}
      id == member.id
      ranges == UNION {flattenRanges(b.ranges): b \in blocks}
      versions == (UNION {b.versions: b \in blocks}) \ {NoText}
      old == IF id \in DOMAIN records THEN records[id] ELSE [withdrawn |-> member.withdrawn, ranges |-> {}, versions |-> {}]
  IN IF ~member.usable \/ blocks = {} THEN records
     ELSE [k \in DOMAIN records \cup {id} |->
             IF k # id THEN records[k]
             ELSE [withdrawn |-> old.withdrawn, ranges |-> old.ranges \cup ranges, versions |-> old.versions \cup versions]]

Indexed(members) ==
  LET records[n \in 0..Len(members)] == IF n = 0 THEN <<>> ELSE Collect(records[n - 1], members[n])
  IN records[Len(members)]

AffectedInit ==
  /\ \E family \in Families: archive \in family
  /\ built = <<>>
  /\ found = NoLookup

BuildFromZip ==
  /\ built = <<>>
  /\ built' = Indexed(archive)
  /\ built' # <<>>
  /\ UNCHANGED <<archive, found>>

Same(v, w) == v = w
Below(v, w) == v.ok /\ w.ok /\ v.at < w.at
Ordered(v, w) == v.ok /\ w.ok

\* An upper bound nobody can order claims nothing, a lower one is dropped unless it is the only bound.
inRange(r, v) ==
  /\ ~(r.introduced = NoText /\ r.fixed = NoText /\ r.last = NoText)
  /\ IF ~v.ok THEN v = r.introduced
     ELSE /\ r.fixed # NoText => Below(v, r.fixed)
          /\ r.last # NoText => Ordered(v, r.last) /\ ~Below(r.last, v)
          /\ r.introduced # NoText =>
               IF Ordered(v, r.introduced) THEN ~Below(v, r.introduced) ELSE r.fixed # NoText \/ r.last # NoText

Affects(record, v) ==
  \/ v = NoText
  \/ \E w \in record.versions: Same(v, w)
  \/ \E r \in record.ranges: inRange(r, v)

LookUp(v) ==
  /\ built # <<>>
  /\ found' = [version |-> v, made |-> TRUE,
               ids |-> {id \in DOMAIN built: ~built[id].withdrawn /\ Affects(built[id], v)}]
  /\ UNCHANGED <<archive, built>>

AffectedNext == BuildFromZip \/ \E v \in Asked: LookUp(v)

AffectedSpec == AffectedInit /\ [][AffectedNext]_affectedVars

-----------------------------------------------------------------------------
(* Correctness: what the members say, read as the OSV schema says.          *)

Blocks(id) ==
  {b \in UNION {archive[i].affected: i \in {k \in DOMAIN archive: archive[k].usable /\ archive[k].id = id}}: b.ecosystem /\ b.named}
RangesOf(id) == {r \in UNION {b.ranges: b \in Blocks(id)}: r.type # "GIT"}
ListedBy(id, v) == \E b \in Blocks(id): v \in b.versions
Names(member) == member.usable /\ \E b \in member.affected: b.ecosystem /\ b.named
WithdrawnFirst(id) ==
  \E i \in DOMAIN archive: /\ archive[i].id = id /\ Names(archive[i]) /\ archive[i].withdrawn
                           /\ \A j \in 1..(i - 1): ~(archive[j].id = id /\ Names(archive[j]))
Ids == {archive[i].id: i \in {k \in DOMAIN archive: archive[k].usable}}

Bound(opens, at, itself) == <<[opens |-> opens, at |-> at, itself |-> itself]>>

\* The bounds an event draws, in their order: what it opens, then what it closes.
Drawn(e) ==
  (IF e.introduced = NoText THEN <<>> ELSE Bound(TRUE, e.introduced, TRUE))
  \o (IF e.fixed # NoText THEN Bound(FALSE, e.fixed, TRUE)
      ELSE IF e.last # NoText THEN Bound(FALSE, e.last, FALSE) ELSE <<>>)

Bounds(events) ==
  LET line[n \in 0..Len(events)] == IF n = 0 THEN <<>> ELSE line[n - 1] \o Drawn(events[n])
  IN line[Len(events)]

\* Bounds take turns, in the order of versions as far as they have one.
Paired(bounds) ==
  /\ \A i \in 1..(Len(bounds) - 1): bounds[i].opens # bounds[i + 1].opens
  /\ \A i, j \in DOMAIN bounds: i < j /\ Ordered(bounds[i].at, bounds[j].at) => Below(bounds[i].at, bounds[j].at)

\* v is inside when the last bound it has reached opens, or it has reached none and the first closes.
Inside(bounds, v) ==
  LET reached == {i \in DOMAIN bounds: Below(bounds[i].at, v) \/ (bounds[i].itself /\ bounds[i].at = v)}
  IN IF reached = {} THEN bounds # <<>> /\ ~bounds[1].opens
     ELSE \E i \in reached: bounds[i].opens /\ \A j \in reached: j <= i

\* A lookup finds the advisories that list the version or whose events, read as a
\* line from one bound to the next, put it inside, and no other: whichever members,
\* blocks, ranges and events spell them (build.go:288, 359, read.go:195, 245). Of
\* the versions before zero, ZeroIsTheBeginning.
ReadsTheLine(id, v) ==
  (~Below(v, Zero) /\ \A r \in RangesOf(id): Paired(Bounds(r.events)) /\ \A i \in DOMAIN Bounds(r.events): Bounds(r.events)[i].at.ok) =>
    (id \in found.ids <=>
       ~WithdrawnFirst(id) /\ (ListedBy(id, v) \/ \E r \in RangesOf(id): Inside(Bounds(r.events), v)))

\* Where a bound cannot be ordered (read.go:235-243): an advisory that closes every
\* range claims no version past all it says, ...
NeverPastTheFix(id, v) ==
  (~ListedBy(id, v) /\ \A r \in RangesOf(id):
     LET bounds == Bounds(r.events)
     IN Paired(bounds) /\ bounds # <<>> /\ ~bounds[Len(bounds)].opens
        /\ \A i \in DOMAIN bounds: bounds[i].at.ok => Below(bounds[i].at, v)) =>
    id \notin found.ids

\* ... and one whose fix is above the version claims it, whatever the range begins with.
NoSilentNegative(id, v) ==
  (~WithdrawnFirst(id) /\ \E r \in RangesOf(id):
     LET bounds == Bounds(r.events)
     IN \E i \in 2..Len(bounds): bounds[i - 1].opens /\ ~bounds[i - 1].at.ok /\ ~bounds[i].opens /\ Below(v, bounds[i].at)) =>
    id \in found.ids

\* A lookup of a version claims the advisories whose events and lists, as the members
\* of the archive publish them, put the version inside, and no others as far as their
\* bounds can be ordered (read.go inRange, build.go flattenRanges): the three
\* statements above of every advisory.
AffectsAsPublished ==
  found.made /\ found.version.ok =>
    \A id \in Ids: ReadsTheLine(id, found.version) /\ NeverPastTheFix(id, found.version) /\ NoSilentNegative(id, found.version)

\* osvindex.go:175, Range: ""0" means from the beginning of the package's history
\* [...] how malicious-package advisories say "every version"".
ZeroIsTheBeginning ==
  found.made /\ found.version.ok =>
    \A id \in Ids \ found.ids:
      WithdrawnFirst(id) \/ \A r \in RangesOf(id): Bounds(r.events) # <<[opens |-> TRUE, at |-> Zero, itself |-> TRUE]>>
=============================================================================
