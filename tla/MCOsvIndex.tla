----------------------------- MODULE MCOsvIndex -----------------------------
(* The index as files (OsvIndex): three archives over three shards, two     *)
(* shards each, so that an index half rewritten can have as many files as a *)
(* whole one. And what is in it (Affected): one member with every line of   *)
(* up to three events over three versions and one that cannot be ordered,   *)
(* and pairs of members of one advisory or of two.                          *)
EXTENDS OsvIndex, Affected, SequencesExt

CONSTANTS f1, a1, a2, b1, b3, c2, c3

VARIABLE
  part

MCHolds == << <<a1, a2, Absent>>, <<b1, Absent, b3>>, <<Absent, c2, c3>> >>

V(n) == [ok |-> TRUE, at |-> n]
Odd == [ok |-> FALSE, at |-> 1]
Other == [ok |-> FALSE, at |-> 2]

Event(introduced, fixed, last) == [introduced |-> introduced, fixed |-> fixed, last |-> last]
MCBounds == {V(0), V(1), V(2), Odd}
MCEvents ==
  (UNION {{Event(b, NoText, NoText), Event(NoText, b, NoText), Event(NoText, NoText, b)}: b \in MCBounds})
    \cup {Event(V(0), V(1), NoText), Event(Odd, V(2), V(1)), Event(V(1), NoText, Odd)}

Block(ranges, versions) == [ecosystem |-> TRUE, named |-> TRUE, ranges |-> ranges, versions |-> versions]
Member(id, blocks) == [usable |-> TRUE, id |-> id, withdrawn |-> FALSE, affected |-> blocks]
Line(events) == [type |-> "SEMVER", events |-> events]

Lines == {<<Member("MAL-1", {Block({Line(events)}, {})})>>: events \in BoundedSeq(MCEvents, 3)}

Upper == Line(<<Event(V(1), NoText, NoText), Event(NoText, NoText, V(2))>>)
Lower == Line(<<Event(NoText, V(1), NoText)>>)
Commits == [type |-> "GIT", events |-> <<Event(V(0), NoText, NoText)>>]
Pool ==
  LET first == Member("MAL-1", {Block({Upper}, {V(0)}), [Block({Lower}, {V(1)}) EXCEPT !.named = FALSE]})
  IN {first,
      [first EXCEPT !.withdrawn = TRUE],
      [first EXCEPT !.usable = FALSE],
      Member("MAL-1", {Block({Lower, Commits}, {NoText})}),
      Member("MAL-1", {[Block({Lower}, {}) EXCEPT !.ecosystem = FALSE]}),
      Member("GHSA-2", {Block({Commits}, {Odd}), Block({Line(<<Event(V(0), NoText, NoText)>>)}, {})}),
      Member("GHSA-2", {Block({}, {V(2), Other})})}
MCFamilies == {Lines, [1..2 -> Pool], [1..3 -> Pool]}

\* 0.0.0-beta.1 is before 0.0.0.
MCPrereleases == {V(0 - 1)}
MCAsked == {V(0), V(1), V(2), V(3), Odd, Other, NoText} \cup MCPrereleases

mcVars == <<indexVars, affectedVars, part>>

NoArchive == archive = <<CHOOSE m \in Pool: m.usable>> /\ built = <<>> /\ found = NoLookup

MCInit ==
  \/ part \in {"one", "several"} /\ IndexInit /\ NoArchive
  \/ part = "records" /\ IndexInit /\ AffectedInit

\* Bounds: beside the one refresher there are two failures or clears of three
\* archives; several refreshers have one failure of two archives.
Alone == part = "one" /\ \A r \in Refreshers \ {f1} : pc'[r] = pc[r]
Together == part = "several" /\ server' <= 2 /\ mishaps' <= 1 /\ clearing' = 0

MCNext ==
  /\ \/ part # "records" /\ IndexNext /\ (Alone \/ Together) /\ UNCHANGED affectedVars
     \/ part = "records" /\ AffectedNext /\ UNCHANGED indexVars
  /\ UNCHANGED part

\* IndexFairness of the refreshers that take part. Where only the records move no
\* behaviour is fair: RefreshRestores is asked of the other two parts.
MCFairness ==
  \A r \in Refreshers :
    WF_mcVars((part = "several" \/ r = f1) /\ Refresh(r) /\ UNCHANGED <<affectedVars, part>>)

MCSpec == MCInit /\ [][MCNext]_mcVars /\ MCFairness

RecordsSpec == IndexInit /\ AffectedInit /\ part = "records" /\ [][part = "records" /\ AffectedNext /\ UNCHANGED <<indexVars, part>>]_mcVars

=============================================================================
