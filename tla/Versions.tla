------------------------------ MODULE Versions ------------------------------
(* How versions are ordered: internal/model/version for PyPI, the           *)
(* semantic versions of npm and crates.io, and what a range in a manifest   *)
(* allows (internal/manifest). A version is its parsed form: digits of any  *)
(* length are naturals, a prerelease identifier or local segment is         *)
(* [numeric, n] with n its place among the texts, an unset part is NotSet.  *)
EXTENDS Integers, Sequences, FiniteSets

NotSet == -1
Wild == -1

Segments == [numeric: BOOLEAN, n: Nat]
SemverVersions == [num: [1..3 -> Nat], pre: Seq(Segments)]
PEPVersions ==
  [epoch: Nat, release: Seq(Nat) \ {<<>>}, kind: {"", "a", "b", "rc"}, num: Nat,
   post: Nat \cup {NotSet}, dev: Nat \cup {NotSet}, local: Seq(Segments)]

\* A version with pieces left out: once a piece is a wildcard so are those after it,
\* and a prerelease is of a whole version; explicit says that a wildcard was written.
Partials ==
  {p \in [num: [1..3 -> Nat \cup {Wild}], pre: Seq(Segments), explicit: BOOLEAN]:
     /\ \A i \in 1..2: p.num[i] = Wild => p.num[i + 1] = Wild
     /\ p.num[3] = Wild => p.pre = <<>>}

CompareNumbers(a, b) == IF a < b THEN -1 ELSE IF a > b THEN 1 ELSE 0

Shorter(s, t) == IF Len(s) < Len(t) THEN Len(s) ELSE Len(t)

\* The first of several comparisons that tells the two apart.
Leading(results) ==
  LET telling == {i \in DOMAIN results: results[i] # 0}
  IN IF telling = {} THEN 0 ELSE results[CHOOSE i \in telling: \A j \in telling: i <= j]

-----------------------------------------------------------------------------
(* PyPI: [epoch, release, kind, num, post, dev, local].                     *)

Prerelease(p) == p.kind # "" \/ p.dev # NotSet

\* A development release of nothing else sorts before every prerelease.
PreRank(p) ==
  CASE p.kind = "a" -> 0
    [] p.kind = "b" -> 1
    [] p.kind = "rc" -> 2
    [] OTHER -> IF p.dev # NotSet /\ p.post = NotSet THEN -1 ELSE 3

Trimmed(release) ==
  LET stated == {i \in DOMAIN release: release[i] # 0}
  IN SubSeq(release, 1, CHOOSE n \in 0..Len(release): n \in stated \cup {0} /\ \A i \in stated: i <= n)

CompareRelease(a, b) ==
  LET x == Trimmed(a)  y == Trimmed(b)
  IN Leading([i \in 1..Shorter(x, y) |-> CompareNumbers(x[i], y[i])] \o <<CompareNumbers(Len(x), Len(y))>>)

CompareOptional(a, b, presentFirst) ==
  IF (a = NotSet) = (b = NotSet) THEN CompareNumbers(a, b)
  ELSE IF (a = NotSet) = presentFirst THEN 1 ELSE -1

CompareSegment(x, y, numericFirst) ==
  IF x.numeric = y.numeric THEN CompareNumbers(x.n, y.n)
  ELSE IF x.numeric = numericFirst THEN -1 ELSE 1

\* A local segment of digits is above one of text; of a prerelease, below it.
CompareSegments(a, b, numericFirst) ==
  Leading([i \in 1..Shorter(a, b) |-> CompareSegment(a[i], b[i], numericFirst)] \o <<CompareNumbers(Len(a), Len(b))>>)

ComparePEP440(a, b) ==
  Leading(<<CompareNumbers(a.epoch, b.epoch), CompareRelease(a.release, b.release), CompareNumbers(PreRank(a), PreRank(b)),
            CompareNumbers(a.num, b.num), CompareOptional(a.post, b.post, FALSE), CompareOptional(a.dev, b.dev, TRUE),
            CompareSegments(a.local, b.local, FALSE)>>)

-----------------------------------------------------------------------------
(* npm and crates.io: [num, pre] with num = <<major, minor, patch>>.        *)

CompareSemver(a, b) ==
  Leading([i \in 1..3 |-> CompareNumbers(a.num[i], b.num[i])]
    \o <<IF a.pre = <<>> \/ b.pre = <<>> THEN CompareNumbers(Len(b.pre), 0) - CompareNumbers(Len(a.pre), 0)
         ELSE CompareSegments(a.pre, b.pre, TRUE)>>)

Triple(major, minor, patch) == [num |-> <<major, minor, patch>>, pre |-> <<>>]
Above(p, i) == IF i = 1 THEN Triple(p.num[1] + 1, 0, 0)
               ELSE IF i = 2 THEN Triple(p.num[1], p.num[2] + 1, 0) ELSE Triple(p.num[1], p.num[2], p.num[3] + 1)

Comparator(op, ver) == [op |-> op, ver |-> ver]
Nothing == {Comparator("<", Triple(0, 0, 0))}

Meets(op, result) ==
  CASE op = "=" -> result = 0
    [] op = ">" -> result > 0
    [] op = ">=" -> result >= 0
    [] op = "<" -> result < 0
    [] op = "<=" -> result <= 0

\* A partial version: wild pieces are read as zero.
Floor(p) == [num |-> [i \in 1..3 |-> IF p.num[i] = Wild THEN 0 ELSE p.num[i]], pre |-> p.pre]
AtLeast(p) == Comparator(">=", Floor(p))

\* The caret of a version whose major is zero, taken as one of 0.x.
CaretOfZero(p) ==
  IF p.num[1] = Wild THEN {}
  ELSE {AtLeast(p), Comparator("<", Above(p, IF p.num[2] = Wild \/ p.num[1] # 0 THEN 1 ELSE 2))}

Caret(p) ==
  IF p.num[1] = Wild THEN {}
  ELSE {AtLeast(p),
        Comparator("<", Above(p, IF p.num[2] = Wild \/ p.num[1] # 0 THEN 1
                                 ELSE IF p.num[3] = Wild \/ p.num[2] # 0 THEN 2 ELSE 3))}

Tilde(p) ==
  IF p.num[1] = Wild THEN {}
  ELSE {AtLeast(p), Comparator("<", Above(p, IF p.num[2] = Wild THEN 1 ELSE 2))}

XRange(p) ==
  IF p.num[1] = Wild THEN {}
  ELSE IF p.num[3] = Wild THEN {AtLeast(p), Comparator("<", Above(p, IF p.num[2] = Wild THEN 1 ELSE 2))}
  ELSE {Comparator("=", Floor(p))}

Primitive(op, p) ==
  LET next == Above(p, IF p.num[2] = Wild THEN 1 ELSE 2)
      low == [Floor(p) EXCEPT !.pre = <<>>]
  IN CASE p.num[1] = Wild -> IF op \in {">", "<"} THEN Nothing ELSE {}
       [] p.num[1] # Wild /\ p.num[3] # Wild -> {Comparator(op, Floor(p))}
       [] OTHER -> CASE op = ">" -> {Comparator(">=", next)}
                     [] op = ">=" -> {Comparator(">=", low)}
                     [] op = "<" -> {Comparator("<", low)}
                     [] op = "<=" -> {Comparator("<", next)}
                     [] OTHER -> XRange(p)

Hyphen(low, high) ==
  (IF low.num[1] = Wild THEN {} ELSE {AtLeast(low)})
  \cup CASE high.num[1] = Wild -> {}
         [] high.num[1] # Wild /\ high.num[3] = Wild -> {Comparator("<", Above(high, IF high.num[2] = Wild THEN 1 ELSE 2))}
         [] OTHER -> {Comparator("<=", Floor(high))}

\* A bare version is itself to npm and a caret to Cargo, unless a piece is written as a wildcard.
Expand(prefix, p, cargo) ==
  CASE prefix = "^" \/ (prefix = "" /\ cargo /\ ~p.explicit) -> Caret(p)
    [] prefix = "~" -> Tilde(p)
    [] prefix \in {"", "="} /\ ~(prefix = "" /\ cargo /\ ~p.explicit) -> XRange(p)
    [] prefix \in {">", ">=", "<", "<="} -> Primitive(prefix, p)

\* A prerelease satisfies a set only if a comparator names one of the same triple.
SetAllows(set, v) ==
  /\ \A c \in set: Meets(c.op, CompareSemver(v, c.ver))
  /\ v.pre # <<>> => \E c \in set: c.ver.pre # <<>> /\ c.ver.num = v.num

-----------------------------------------------------------------------------
(* PEP 440 and Poetry: a clause is [op, spec, prefix], a set of them must   *)
(* all hold.                                                                *)

SameRelease(v, spec) == v.epoch = spec.epoch /\ Trimmed(v.release) = Trimmed(spec.release)

PrefixMatch(v, spec) ==
  /\ v.epoch = spec.epoch
  /\ \A i \in DOMAIN spec.release: (IF i <= Len(v.release) THEN v.release[i] ELSE 0) = spec.release[i]

Equals(c, v) ==
  IF c.prefix THEN PrefixMatch(v, c.spec)
  ELSE ComparePEP440(IF c.spec.local = <<>> THEN [v EXCEPT !.local = <<>>] ELSE v, c.spec) = 0

\* "===" compares spellings, of versions that parse, and names no prerelease.
\* Below a release none of its own prereleases; above it none of what was appended to it.
Satisfies(c, v) ==
  CASE c.op = "===" -> v = c.spec
    [] c.op = "=" -> Equals(c, v)
    [] c.op = "!=" -> ~Equals(c, v)
    [] c.op \in {"<=", ">="} -> Meets(c.op, ComparePEP440(v, c.spec))
    [] c.op = "<" -> /\ ComparePEP440(v, c.spec) < 0
                     /\ ~(Prerelease(v) /\ ~Prerelease(c.spec) /\ SameRelease(v, c.spec))
    [] c.op = ">" -> /\ ComparePEP440(v, c.spec) > 0
                     /\ ~(SameRelease(v, c.spec) /\ (v.local # <<>> \/ (v.post # NotSet /\ c.spec.post = NotSet)))

Clause(op, spec, prefix) == [op |-> op, spec |-> spec, prefix |-> prefix]
Plain(epoch, release) ==
  [epoch |-> epoch, release |-> release, kind |-> "", num |-> 0, post |-> NotSet, dev |-> NotSet, local |-> <<>>]

\* The bound of a caret or a tilde is written without the epoch of the version it is made from.
Bumped(release, i) == Plain(0, [SubSeq(release, 1, i) EXCEPT ![i] = @ + 1])

CaretBound(release) ==
  LET stated == {i \in DOMAIN release: release[i] # 0}
  IN Bumped(release, IF stated = {} THEN Len(release) ELSE CHOOSE i \in stated: \A j \in stated: i <= j)

TildeBound(release) == Bumped(release, IF Len(release) = 1 THEN 1 ELSE 2)

Compatible(spec) ==
  {Clause(">=", spec, FALSE), Clause("=", Plain(spec.epoch, SubSeq(spec.release, 1, Len(spec.release) - 1)), TRUE)}

Clauses(op, spec) ==
  CASE op = "~=" -> Compatible(spec)
    [] op = "^" -> {Clause(">=", spec, FALSE), Clause("<", CaretBound(spec.release), FALSE)}
    [] op = "~" -> {Clause(">=", spec, FALSE), Clause("<", TildeBound(spec.release), FALSE)}
    [] op = "=*" -> {Clause("=", spec, TRUE)}
    [] op = "!=*" -> {Clause("!=", spec, TRUE)}
    [] OTHER -> {Clause(op, spec, FALSE)}

\* A prerelease is a candidate only where the requirement names one.
PEPAllows(set, v) ==
  /\ Prerelease(v) => \E c \in set: c.op # "===" /\ Prerelease(c.spec)
  /\ \A c \in set: Satisfies(c, v)
=============================================================================
