------------------------------ MODULE MCCheck -------------------------------
(* Every form of range over partial versions against every version near     *)
(* it, one at a time; and small manifests whose declarations share a        *)
(* package, go by another name, or meet a registry that is down, lists      *)
(* yanked versions and prereleases or publishes during the run.             *)
EXTENDS Check, TLC

Num(n) == [numeric |-> TRUE, n |-> n]
Text(n) == [numeric |-> FALSE, n |-> n]

Sem(a, b, c, pre) == [num |-> <<a, b, c>>, pre |-> pre]
Rc == <<Text(1)>>
Rc1 == <<Text(1), Num(1)>>
Semvers ==
  {Sem(a, b, c, <<>>): a, b \in 0..2, c \in 0..1}
  \cup {Sem(a, b, c, pre): a \in 0..1, b \in 0..1, c \in 0..1, pre \in {Rc, Rc1}} \cup {Sem(1, 0, 0, <<Num(1)>>), Sem(2, 0, 0, Rc)}

Partial(num, pre, explicit) == [num |-> num, pre |-> pre, explicit |-> explicit]
PartialVersions ==
  {Partial(<<Wild, Wild, Wild>>, <<>>, TRUE)}
  \cup {Partial(<<a, Wild, Wild>>, <<>>, x): a \in 0..1, x \in BOOLEAN}
  \cup {Partial(<<a, b, Wild>>, <<>>, x): a, b \in 0..1, x \in BOOLEAN}
  \cup {Partial(<<a, b, c>>, <<>>, FALSE): a, b, c \in 0..1}
  \cup {Partial(<<a, 0, b>>, Rc, FALSE): a, b \in 0..1}

Pep(epoch, release, kind, num, post, dev, local) ==
  [epoch |-> epoch, release |-> release, kind |-> kind, num |-> num, post |-> post, dev |-> dev, local |-> local]
Releases440 == {<<0>>, <<1>>, <<2>>, <<0, 1>>, <<1, 0>>, <<1, 1>>, <<1, 2>>, <<0, 0, 1>>, <<0, 1, 1>>, <<1, 0, 1>>, <<1, 1, 1>>}
Suffixed(r) ==
  {Pep(0, r, "", 0, NotSet, NotSet, <<>>), Pep(0, r, "rc", 1, NotSet, NotSet, <<>>), Pep(0, r, "a", 1, NotSet, 0, <<>>),
   Pep(0, r, "", 0, NotSet, 1, <<>>), Pep(0, r, "", 0, 1, NotSet, <<>>), Pep(0, r, "", 0, 1, 1, <<>>),
   Pep(0, r, "", 0, NotSet, NotSet, <<Text(1), Num(2)>>)}
Peps == UNION {Suffixed(r): r \in Releases440} \cup {Pep(1, <<0, 1>>, "", 0, NotSet, NotSet, <<>>)}
PepSpecs == {Plain(0, r): r \in Releases440} \cup Suffixed(<<1, 1>>)

Term(op, spec) == [op |-> op, spec |-> spec, high |-> spec]
HyphenTerm(low, high) == [op |-> "-", spec |-> low, high |-> high]
Declare(name, syntax, range) == [name |-> name, syntax |-> syntax, range |-> range]

Manifest(declarations) == [kind |-> "manifest", declarations |-> declarations]
Reference(name, ver, nameOnly) == [kind |-> "ref", ref |-> <<name, ver>>, nameOnly |-> nameOnly, declarations |-> <<>>]
Command(targets, fails, failOn) == [targets |-> targets, fails |-> fails, failOn |-> failOn]

Entry(ver, yanked) == [ver |-> ver, yanked |-> yanked]
Lists(name, list) == [kind |-> "list", name |-> name, list |-> list]
Answer(kind, name) == [kind |-> kind, name |-> name, list |-> <<>>]

Ops == {"", "^", "~", "=", ">", ">=", "<", "<="}
SemverTerms == {Term(op, p): op \in Ops, p \in PartialVersions}
  \cup {HyphenTerm(l, h): l, h \in {p \in PartialVersions: p.num[1] # Wild /\ (p.num[3] = Wild \/ p.pre = <<>>)}}
PepTerms == {Term(op, s): op \in {"=", "!=", "<", "<=", ">", ">=", "===", "^"}, s \in PepSpecs}
  \cup {Term(op, Plain(0, r)): op \in {"=*", "!=*", "~", "~="}, r \in {x \in Releases440: Len(x) > 1}}

Single(name, syntax, term, ver) ==
  [command |-> Command(<<Manifest(<<Declare(name, syntax, {{term}})>>)>>, FALSE, "never"),
   market |-> (name :> Lists(name, <<Entry(ver, FALSE)>>))]

SemverOnes == {Single("react", "npm", t, v): t \in SemverTerms, v \in Semvers}
CargoOnes == {Single("serde", "cargo", Term("", p), v): p \in PartialVersions, v \in Semvers}
PepOnes == {Single("requests", "poetry", t, v): t \in PepTerms, v \in Peps}

\* Small manifests: serde-json and serde_json are one crate.
Whatever == Term("", Partial(<<Wild, Wild, Wild>>, <<>>, TRUE))
Around(op, a, b, c) == Term(op, Partial(<<a, b, c>>, <<>>, FALSE))
Crates == {Answer("down", "serde_json"), Answer("unknown", "serde_json"),
           Lists("serde_json", <<Entry(Sem(0, 1, 0, <<>>), FALSE), Entry(Sem(1, 0, 0, Rc), FALSE), Entry(Sem(1, 0, 0, <<>>), TRUE)>>)}
Npms == {Answer("down", "react"), Lists("react", <<Entry(Sem(1, 1, 0, <<>>), FALSE), Entry(Sem(1, 0, 0, <<>>), FALSE)>>)}
Manifests ==
  {Manifest(<<Declare("serde-json", "cargo", {{Around("", 0, 1, 0)}}), Declare("serde_json", "cargo", {{Around("", 0, 0, 0), Around(">", 0, 0, 0)}, {Around("^", 0, 1, 0)}})>>),
   Manifest(<<Declare("react", "npm", {{Around("^", 1, 0, 0)}}), Declare("serde_json", "cargo", {{Around(">=", 0, 1, 0)}})>>),
   Manifest(<<Declare("react", "npm", {{Around("=", 1, 1, 0)}, {Whatever}})>>)}
Small ==
  {[command |-> Command(before \o <<m>> \o after, fails, failOn),
    market |-> [n \in {"serde-json", "serde_json", "react"} |-> IF n = "react" THEN npm ELSE crates]]:
     before \in {<<>>, <<Reference("react", Sem(1, 1, 0, <<>>), FALSE)>>, <<Reference("re4ct", Sem(1, 1, 0, <<>>), TRUE)>>},
     after \in {<<>>, <<Manifest(<<Declare("react", "npm", {{Around("~", 1, 1, 0)}})>>)>>},
     m \in Manifests, fails \in BOOLEAN, failOn \in {"block", "warn"}, crates \in Crates, npm \in Npms}

MCGiven == {{[command |-> Command(<<>>, FALSE, "never"), market |-> <<>>]}, SemverOnes, CargoOnes, PepOnes, Small}
MCReleases == {[name |-> "react", entry |-> Entry(Sem(1, 1, 1, <<>>), FALSE)],
               [name |-> "serde_json", entry |-> Entry(Sem(0, 1, 1, <<>>), FALSE)]}
=============================================================================
