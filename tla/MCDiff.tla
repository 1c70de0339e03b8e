------------------------------- MODULE MCDiff -------------------------------
(* The commands that evaluate what a repository names: diff, and check with *)
(* the instance of MCCheck. They share nothing, so a behaviour is of one.   *)
(* diff: four families of scenarios, every pair of a short base file and a  *)
(* head file over lines that agree and disagree in each field of an         *)
(* artifact, and small contents on every combination of refs, flags, edits. *)
EXTENDS Diff, MCCheck

VARIABLE
  part

Line(name, version, source, hash, location, bundled, direct) ==
  [name |-> name, version |-> version, source |-> source, hash |-> hash,
   location |-> location, bundled |-> bundled, direct |-> direct]

Old      == Line("a", 1, "registry", "h1", "registry", FALSE, FALSE)
Mirrored == Line("a", 1, "registry", "h1", "mirror", FALSE, TRUE)
Repinned == Line("a", 1, "registry", "h2", "registry", FALSE, FALSE)
Moved    == Line("a", 1, "url", "h1", "archive", FALSE, FALSE)
Bundled  == Line("a", 1, "unknown", "", "", TRUE, FALSE)
Patched  == Line("a", 1, "registry", "h1", "registry", TRUE, FALSE)
Raised   == Line("a", 2, "registry", "h3", "registry", FALSE, FALSE)
Silent   == Line("a", 2, "unknown", "", "", FALSE, TRUE)
Other    == Line("b", 1, "registry", "h4", "registry", FALSE, FALSE)

Lines == {Old, Mirrored, Repinned, Moved, Bundled, Patched, Raised, Silent, Other}

File(lines) == [kind |-> "lines", lines |-> lines]
NoFile == [kind |-> "absent", lines |-> <<>>]
Unread == [kind |-> "unread", lines |-> <<>>]

Short(lines, n) == UNION {[1..k -> lines]: k \in 0..n}

Quiet == [remotes |-> {}, parent |-> TRUE, related |-> TRUE, sameFormat |-> TRUE, failOn |-> "never",
          unavailableFails |-> TRUE, guardDog |-> FALSE, edits |-> {}, tracked |-> {"lock"}]

Scenario(flags, commits, worktree, named, file) ==
  [remotes |-> flags.remotes, parent |-> flags.parent, related |-> flags.related,
   sameFormat |-> flags.sameFormat, failOn |-> flags.failOn, unavailableFails |-> flags.unavailableFails,
   guardDog |-> flags.guardDog, edits |-> flags.edits, tracked |-> flags.tracked,
   commits |-> commits, tree |-> worktree, base |-> named, file |-> file]

One(content) == [f \in {"lock"} |-> content]
Only(content) == [r \in {"tip", "fork", "parent"} |-> One(content)]

\* Every line against every other, and longer files over the lines that make
\* three copies of one version and a bump.
Pairings(lines, n) ==
  {Scenario(Quiet, Only(NoFile), One(File(new)), "file", File(old)): old, new \in Short(lines, n)}

Few == {NoFile, Unread, File(<<Old>>), File(<<Repinned, Raised>>)}

Policies == {[failOn |-> "block", fails |-> TRUE, guardDog |-> TRUE], [failOn |-> "warn", fails |-> TRUE, guardDog |-> FALSE],
             [failOn |-> "block", fails |-> FALSE, guardDog |-> TRUE]}

Flags ==
  {[Quiet EXCEPT !.remotes = r, !.parent = p, !.related = rel, !.edits = e,
                 !.failOn = pol.failOn, !.unavailableFails = pol.fails, !.guardDog = pol.guardDog]:
     r \in {{}, {"origin/main"}}, p, rel \in BOOLEAN, e \in {{}, {File(<<Moved>>)}}, pol \in Policies}

Revisions ==
  {Scenario(fl, [tip |-> One(t), fork |-> One(k), parent |-> One(k)], One(w), named, NoFile):
     fl \in Flags, t, k, w \in Few, named \in {"", "named", "missing"}}

\* Two lockfiles, one of them perhaps untracked; a base file for one of two.
Two(a, b) == [f \in {"lock", "lock2"} |-> IF f = "lock" THEN a ELSE b]
Pairs ==
  {Scenario([Quiet EXCEPT !.tracked = tr, !.sameFormat = sf],
            [r \in {"tip", "fork", "parent"} |-> Two(k, NoFile)], Two(w, v), named, file):
     tr \in {{"lock"}, {"lock", "lock2"}}, sf \in BOOLEAN, k, w, v, file \in Few, named \in {"named", "file"}}

MCScenarios == {Pairings(Lines, 2), Pairings({Old, Repinned, Bundled, Raised}, 3), Revisions, Pairs}

mcVars == <<diffVars, checkVars, part>>

NoScenario == given = Scenario(Quiet, Only(NoFile), One(File(<<>>)), "file", File(<<>>))
NoCommand == command = Command(<<>>, FALSE, "never")

MCInit ==
  \/ part = "diff" /\ NoCommand /\ CheckInit /\ DiffInit
  \/ part = "check" /\ NoScenario /\ DiffInit /\ CheckInit

MCNext ==
  /\ \/ part = "diff" /\ DiffNext /\ UNCHANGED checkVars
     \/ part = "check" /\ CheckNext /\ UNCHANGED diffVars
  /\ UNCHANGED part

MCSpec == MCInit /\ [][MCNext]_mcVars
=============================================================================
