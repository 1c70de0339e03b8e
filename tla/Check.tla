------------------------------- MODULE Check --------------------------------
(* The check command: references and manifests in, one evaluation each, an  *)
(* exit code out (internal/cli/check.go, internal/manifest). The            *)
(* declarations of a manifest are resolved beside each other against a      *)
(* registry that goes on publishing; what a registry answered about a name  *)
(* is memoized for the run (Memo). Files, flags and text are read before    *)
(* the run begins and are its input.                                        *)
EXTENDS Versions

CONSTANTS
  Given,        \* families of [command, market]: what the command is given and the registries list
  Releases,     \* what they may publish later: [name, entry]
  MaxReleases   \* bound on the releases during a run

VARIABLES
  command,   \* the targets, the policy's on_data_unavailable and --fail-on
  market,    \* name -> [kind, name, list]; kind "list", "unknown" or "down"
  known,     \* the answers the loader has memoized
  place,     \* the target being read
  replies,   \* of the manifest being read: declaration -> what it resolved to
  subjects,  \* what is to be evaluated, in order
  unread,    \* a registry did not answer about some declaration
  releases,
  code       \* the exit code, -1 before the end

checkVars == <<command, market, known, place, replies, subjects, unread, releases, code>>

Semver == {"npm", "cargo"}

\* What manifests hold: of npm and Cargo terms over versions that may be partial, of PyPI
\* over whole ones; a compatible release has two pieces at least.
SemverOps == {"", "^", "~", "=", ">", ">=", "<", "<=", "-"}
PEPOps == {"=", "!=", "<", "<=", ">", ">=", "===", "^", "~", "~=", "=*", "!=*"}
TermRead(syntax, t) ==
  IF syntax \in Semver THEN t.op \in SemverOps /\ t.spec \in Partials /\ (t.op = "-" => t.high \in Partials)
  ELSE t.op \in PEPOps /\ t.spec \in PEPVersions /\ (t.op = "~=" => Len(t.spec.release) > 1)

VersionOf(syntax, v) == IF syntax \in Semver THEN v \in SemverVersions ELSE v \in PEPVersions

IsList(s) == s \in Seq({s[i]: i \in DOMAIN s})

\* A target that is a reference declares nothing; a registry answers about every name declared.
Begins(g) ==
  /\ \A n \in DOMAIN g.market: g.market[n].kind \in {"list", "unknown", "down"} /\ IsList(g.market[n].list)
  /\ IsList(g.command.targets)
  /\ \A k \in DOMAIN g.command.targets:
       LET t == g.command.targets[k]
       IN /\ t.kind \in {"ref", "manifest"}
          /\ IsList(t.declarations)
          /\ t.kind = "ref" => t.declarations = <<>>
          /\ \A i \in DOMAIN t.declarations:
               LET d == t.declarations[i]
               IN /\ d.name \in DOMAIN g.market
                  /\ \A alternative \in d.range: \A term \in alternative: TermRead(d.syntax, term)
                  /\ \A j \in DOMAIN g.market[d.name].list: VersionOf(d.syntax, g.market[d.name].list[j].ver)
                  /\ \A r \in Releases: r.name = d.name => VersionOf(d.syntax, r.entry.ver)

ASSUME CheckAssumption == \A family \in Given: \A g \in family: Begins(g)

\* A declaration has a syntax and alternatives of terms [op, spec]; a hyphen range has two.
Terms(d, alternative) ==
  UNION {CASE t.op = "-" -> Hyphen(t.spec, t.high)
           [] t.op # "-" /\ d.syntax \in Semver -> Expand(t.op, t.spec, d.syntax = "cargo")
           [] OTHER -> Clauses(t.op, t.spec): t \in alternative}

Allows(d, v) ==
  \E alternative \in d.range:
    IF d.syntax \in Semver THEN SetAllows(Terms(d, alternative), v) ELSE PEPAllows(Terms(d, alternative), v)

Higher(d, v, w) == (IF d.syntax \in Semver THEN CompareSemver(v, w) ELSE ComparePEP440(v, w)) > 0

Candidates(d, list) == {i \in DOMAIN list: Allows(d, list[i].ver) /\ ~list[i].yanked}

\* The first of the highest.
HighestAllowed(d, list) ==
  LET C == Candidates(d, list)
  IN {list[i].ver: i \in {k \in C: \A j \in C: ~Higher(d, list[j].ver, list[k].ver)
                                              /\ (j < k => Higher(d, list[k].ver, list[j].ver))}}

CheckInit ==
  /\ \E family \in Given: \E g \in family: command = g.command /\ market = g.market
  /\ known = [n \in DOMAIN market |-> [kind |-> "unasked", name |-> n, list |-> <<>>]]
  /\ place = 1
  /\ replies = <<>>
  /\ subjects = <<>>
  /\ unread = FALSE
  /\ releases = 0
  /\ code = -1

Reading(kind) == code = -1 /\ place <= Len(command.targets) /\ command.targets[place].kind = kind
Declared == IF Reading("manifest") THEN command.targets[place].declarations ELSE <<>>

\* One evaluation per package version; named as a direct dependency once, it is one.
Add(inputs, in) ==
  LET same == {i \in DOMAIN inputs: inputs[i].ref = in.ref}
  IN IF same = {} THEN Append(inputs, in)
     ELSE [i \in DOMAIN inputs |->
             IF i \in same THEN [ref |-> in.ref, direct |-> inputs[i].direct \/ in.direct, nameOnly |-> inputs[i].nameOnly]
             ELSE inputs[i]]

\* A reference as it was given; a name that is only looked at asks no registry.
TakeReference ==
  /\ Reading("ref")
  /\ LET t == command.targets[place]
     IN subjects' = Add(subjects, [ref |-> t.ref, direct |-> FALSE, nameOnly |-> t.nameOnly])
  /\ place' = place + 1
  /\ UNCHANGED <<command, market, known, replies, unread, releases, code>>

\* What one declaration resolves to, given what its registry answered.
Reply(d, answer) ==
  CASE answer.kind = "down" -> [kind |-> "unread", refs |-> {}]
    [] answer.kind = "unknown" -> [kind |-> "skipped", refs |-> {}]
    [] OTHER -> LET best == HighestAllowed(d, answer.list)
                IN [kind |-> IF best = {} THEN "skipped" ELSE "resolved", refs |-> {<<answer.name, v>>: v \in best}]

ResolveDeclaration(i) ==
  /\ Reading("manifest")
  /\ i \in DOMAIN Declared \ DOMAIN replies
  /\ LET d == Declared[i]
         answer == IF known[d.name].kind = "unasked" THEN market[d.name] ELSE known[d.name]
     IN /\ known' = [known EXCEPT ![d.name] = answer]
        /\ replies' = [k \in DOMAIN replies \cup {i} |-> IF k = i THEN Reply(d, answer) ELSE replies[k]]
  /\ UNCHANGED <<command, market, place, subjects, unread, releases, code>>

\* A declaration that resolved is one more evaluation.
Take(inputs, reply) ==
  IF reply.kind # "resolved" THEN inputs
  ELSE Add(inputs, [ref |-> CHOOSE x \in reply.refs: TRUE, direct |-> TRUE, nameOnly |-> FALSE])

Collected(inputs, answered) ==
  LET taken[n \in 0..Len(answered)] == IF n = 0 THEN inputs ELSE Take(taken[n - 1], answered[n])
  IN taken[Len(answered)]

\* In the order of the manifest, whichever order they were answered in.
Collect ==
  /\ Reading("manifest")
  /\ DOMAIN replies = DOMAIN Declared
  /\ subjects' = Collected(subjects, [i \in DOMAIN Declared |-> replies[i]])
  /\ unread' = (unread \/ \E i \in DOMAIN replies: replies[i].kind = "unread")
  /\ place' = place + 1
  /\ replies' = <<>>
  /\ UNCHANGED <<command, market, known, releases, code>>

\* The runner's outcomes, with the exit code the report and the policy make of them.
Fatal == CASE command.failOn = "block" -> {"block"}
           [] command.failOn = "warn" -> {"block", "warn"}
           [] OTHER -> {}

CodeOf(worst, unavailable) ==
  CASE worst \in Fatal -> 1
    [] worst \notin Fatal /\ command.fails /\ (unavailable \/ unread) -> 3
    [] OTHER -> 0

Judge(worst, unavailable) ==
  /\ code = -1
  /\ place > Len(command.targets)
  /\ subjects = <<>> => worst = "none"
  /\ unavailable => \E i \in DOMAIN subjects: ~subjects[i].nameOnly
  /\ code' = CodeOf(worst, unavailable)
  /\ UNCHANGED <<command, market, known, place, replies, subjects, unread, releases>>

\* A registry publishes a version while the run is under way.
Release(r) ==
  /\ code = -1
  /\ releases < MaxReleases
  /\ r.name \in DOMAIN market /\ market[r.name].kind = "list"
  /\ \A i \in DOMAIN market[r.name].list: market[r.name].list[i].ver # r.entry.ver
  /\ market' = [market EXCEPT ![r.name] = [kind |-> "list", name |-> @.name, list |-> Append(@.list, r.entry)]]
  /\ releases' = releases + 1
  /\ UNCHANGED <<command, known, place, replies, subjects, unread, code>>

CheckNext ==
  \/ TakeReference
  \/ \E i \in DOMAIN Declared: ResolveDeclaration(i)
  \/ Collect
  \/ \E worst \in {"none", "info", "warn", "block"}, unavailable \in BOOLEAN: Judge(worst, unavailable)
  \/ \E r \in Releases: Release(r)

CheckSpec == CheckInit /\ [][CheckNext]_checkVars

-----------------------------------------------------------------------------
(* Correctness: what a range means, said by its pieces and not by bounds.   *)

Leftmost(S) == CHOOSE i \in S: \A j \in S: i <= j
Pieces(p) == {i \in 1..3: p.num[i] # Wild}
Piece(release, i) == IF i <= Len(release) THEN release[i] ELSE 0
Agree(x, y, n) == \A i \in 1..n: Piece(x, i) = Piece(y, i)

\* The leftmost piece that is not zero, or the last one.
Significant(release, n) ==
  LET S == {i \in 1..n: release[i] # 0} IN IF S = {} THEN n ELSE Leftmost(S)

\* v is above everything p stands for.
Beyond(v, p, n) ==
  \E i \in 1..n: v.num[i] > p.num[i] /\ \A j \in 1..(i - 1): v.num[j] = p.num[j]

MeantSemver(op, p, v) ==
  LET n == Cardinality(Pieces(p))
      level == CompareSemver(v, Floor(p))
  IN CASE op = "^" -> n = 0 \/ (level >= 0 /\ Agree(v.num, p.num, Significant(p.num, n)))
       [] op = "~" -> n = 0 \/ (level >= 0 /\ Agree(v.num, p.num, IF n = 1 THEN 1 ELSE 2))
       [] op = "=" -> IF n = 3 THEN level = 0 ELSE Agree(v.num, p.num, n)
       [] op = ">" -> IF n = 3 THEN level > 0 ELSE Beyond(v, p, n)
       [] op = ">=" -> IF n = 3 THEN level >= 0 ELSE Beyond(v, p, n) \/ Agree(v.num, p.num, n)
       [] op = "<" -> IF n = 3 THEN level < 0 ELSE ~Beyond(v, p, n) /\ ~Agree(v.num, p.num, n)
       [] op = "<=" -> IF n = 3 THEN level <= 0 ELSE ~Beyond(v, p, n)

MeantPEP440(op, s, v) ==
  LET level == ComparePEP440(v, s)
      n == Len(s.release)
      same(k) == v.epoch = s.epoch /\ Agree(v.release, s.release, k)
  IN CASE op = "^" -> level >= 0 /\ same(Significant(s.release, n))
       [] op = "~" -> level >= 0 /\ same(IF n = 1 THEN 1 ELSE 2)
       [] op = "~=" -> level >= 0 /\ same(n - 1)
       [] op = "=*" -> same(n)
       [] op = "!=*" -> ~same(n)
       [] OTHER -> Satisfies(Clause(op, s, FALSE), v)

\* A hyphen range says two things.
Sides(t) ==
  IF t.op = "-" THEN {[op |-> ">=", spec |-> t.spec], [op |-> "<=", spec |-> t.high]} ELSE {[op |-> t.op, spec |-> t.spec]}

Meant(d, s, v) ==
  IF d.syntax \in Semver
  THEN MeantSemver(IF s.op # "" THEN s.op ELSE IF d.syntax = "cargo" /\ ~s.spec.explicit THEN "^" ELSE "=", s.spec, v)
  ELSE MeantPEP440(s.op, s.spec, v)

\* A release candidate is meant only by a range that names one: of its own version for npm and Cargo.
MeansPrerelease(d, said, v) ==
  IF d.syntax \in Semver
  THEN v.pre # <<>> => \E s \in said: s.spec.pre # <<>> /\ s.spec.num = v.num
  ELSE Prerelease(v) => \E s \in said: s.op # "===" /\ Prerelease(s.spec)

Said(alternative) == UNION {Sides(t): t \in alternative}

AllowedAsWritten(d, v) ==
  \E alternative \in d.range:
    (\A s \in Said(alternative): Meant(d, s, v)) /\ MeansPrerelease(d, Said(alternative), v)

\* A bound made of the pieces of one term is a release, and below it are its own prereleases,
\* whose pieces are not that term's: no other term names one of them. Poetry's have no epoch.
BoundsTell(d) ==
  \A alternative \in d.range: \A s \in Said(alternative):
    IF d.syntax \in Semver
    THEN \A u \in Said(alternative): u.spec.pre # <<>> /\ u.spec.num # s.spec.num =>
           \A c \in Expand(s.op, s.spec, d.syntax = "cargo"): c.ver.num # u.spec.num
    ELSE s.op \in {"^", "~"} => s.spec.epoch = 0

Declarations == UNION {{t.declarations[i]: i \in DOMAIN t.declarations}: t \in {command.targets[k]: k \in DOMAIN command.targets}}

\* What a manifest's check evaluates is what an install now would bring in: of
\* every declaration whose registry answered and whose bounds tell, the highest
\* version listed in that answer that the range means and that is not yanked, once,
\* or nothing where there is none, whatever was published meanwhile; and exit code 0
\* under a policy that fails on missing data says that every registry answered
\* (cli/check.go:288, manifest/resolve.go:135).
EvaluatesWhatInstalls ==
  code # -1 =>
    /\ \A d \in Declarations:
         LET answer == known[d.name]
             meant == {answer.list[i].ver: i \in {k \in DOMAIN answer.list: ~answer.list[k].yanked /\ AllowedAsWritten(d, answer.list[k].ver)}}
             taken == {i \in DOMAIN subjects: subjects[i].direct /\ subjects[i].ref[1] = answer.name /\ subjects[i].ref[2] \in meant}
         IN BoundsTell(d) /\ answer.kind = "list" =>
              (meant # {} => \E i \in taken: \A v \in meant: ~Higher(d, v, subjects[i].ref[2]))
    /\ \A i \in DOMAIN subjects: \A j \in DOMAIN subjects: subjects[i].ref = subjects[j].ref => i = j
    /\ \A i \in DOMAIN subjects: subjects[i].direct =>
         \E d \in Declarations: known[d.name].name = subjects[i].ref[1] /\ (BoundsTell(d) => AllowedAsWritten(d, subjects[i].ref[2]))
    /\ code = 0 /\ command.fails => \A d \in Declarations: known[d.name].kind # "down"
=============================================================================
