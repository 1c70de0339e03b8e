------------------------------- MODULE Policy -------------------------------
(* The policy file (internal/policy, internal/cli/policy_allow.go): which   *)
(* file governs, what it makes of a check for a package, and how `policy    *)
(* allow --write` adds an exception while a person may edit the same file.  *)
(* A file is its decoded document; what the YAML editor may not touch is a  *)
(* flag of it. An instant is half a day; day 1 is the instants 0 and 1.      *)
EXTENDS Integers, Sequences, FiniteSets, SequencesExt

CONSTANTS
  Depth,       \* directories from the working directory, 1, up to the root
  Folded,      \* name segment -> its case-folded spelling
  Ecos,        \* ecosystems
  Packages,    \* refs that are judged: [eco, name, version]
  Checks,      \* names of checks
  Settled,     \* families of what the policy files may be at the start
  Edits,       \* what a person may make of a policy file
  Requests,    \* exceptions asked for: [check, ref, reason, expires]
  Askers,      \* processes that run `policy allow --write`
  MaxPolicyEdits, MaxInstant   \* bounds on a person's edits and on time

VARIABLES
  policies,    \* place -> [kind, ...]; kind "absent", "directory", "denied", "broken" or "policy"
  asking,      \* asker -> its state
  overtaken,   \* history: askers whose file was replaced after they compared it
  judged,      \* what a run that has just loaded a policy read, and makes of it
  instant,
  policyEdits

policyVars == <<policies, asking, overtaken, judged, instant, policyEdits>>

Places == 1..(Depth + 1)   \* the last is the user's own file
Star == "*"
Unset == "unset"

NoPolicy == [kind |-> "policy", cooldown |-> 0, exclude |-> <<>>, checks |-> <<>>, allow |-> <<>>, missing |-> Unset,
             ecosystems |-> <<>>, editable |-> TRUE, linked |-> FALSE]

Pattern == [eco: STRING, name: Seq(STRING), version: STRING]
Allowance == [check: STRING, package: Pattern, reason: STRING, expires: Nat]

\* A file that decodes has every field of a policy, and of an override.
NoOverride == [cooldown |-> 0, checks |-> <<>>]
WellFormed(content) ==
  /\ content.kind \in {"absent", "directory", "denied", "broken", "policy"}
  /\ content.kind = "policy" =>
       /\ content = [field \in DOMAIN NoPolicy |-> content[field]]
       /\ content.allow \in Seq(Allowance)
       /\ \A e \in DOMAIN content.ecosystems:
            content.ecosystems[e] = [field \in DOMAIN NoOverride |-> content.ecosystems[e][field]]

\* An exception that is asked for names its ecosystem and the last of its days.
ASSUME PolicyAssumption ==
  /\ Depth \in Nat /\ MaxInstant \in Nat /\ MaxPolicyEdits \in Nat
  /\ Packages \subseteq Pattern
  /\ \A family \in Settled: \A files \in family:
       files = [i \in Places |-> files[i]] /\ \A i \in Places: WellFormed(files[i])
  /\ \A content \in Edits: WellFormed(content)
  /\ Requests \subseteq [check: STRING, ref: [eco: STRING \ {""}, name: Seq(STRING), version: STRING],
                        reason: STRING, expires: Nat \ {0}]

-----------------------------------------------------------------------------
(* Patterns: [eco, name, version], name by its segments.                    *)

matchName(eco, segment) == IF eco \in {"npm", "pypi"} THEN Folded[segment] ELSE segment
matchSegment(eco, glob, segment) == glob = Star \/ matchName(eco, glob) = matchName(eco, segment)

Match(pattern, ref) ==
  /\ pattern.eco \in {"", ref.eco}
  /\ Len(pattern.name) = Len(ref.name)
  /\ \A i \in DOMAIN ref.name: matchSegment(ref.eco, pattern.name[i], ref.name[i])
  /\ pattern.version \in {"", Star, ref.version}

\* Mutant: the last day is not a day of the exception.
ExpiredOnTheDay(entry, now) == entry.expires # 0 /\ now >= 2 * entry.expires - 2

\* A date covers its whole day; none, 0, never passes.
Expired(entry, now) == entry.expires # 0 /\ now >= 2 * entry.expires

-----------------------------------------------------------------------------
(* The effective settings.                                                  *)

checkDefaults(check) ==
  [level |-> CASE check \in {"low-usage", "version-anomaly", "version-downgraded"} -> "info"
               [] check \in {"young-version", "maintainers-changed", "install-script-present", "new-dependency-introduced",
                             "deprecated-or-yanked", "integrity-missing"} -> "warn"
               [] OTHER -> "block",
   minSeverity |-> IF check = "vulnerability" THEN "high" ELSE "",
   minDownloads |-> IF check = "low-usage" THEN 500 ELSE 0]

Defaults == [cooldown |-> 6, missing |-> "warn", checks |-> [c \in Checks |-> checkDefaults(c)]]

\* The fields an entry states, over what was settled before.
applyChecks(base, said) ==
  [c \in Checks |->
     IF c \notin DOMAIN said THEN base[c]
     ELSE [level |-> IF said[c].level = Unset THEN base[c].level ELSE said[c].level,
           minSeverity |-> IF said[c].minSeverity = Unset THEN base[c].minSeverity ELSE said[c].minSeverity,
           minDownloads |-> IF said[c].minDownloads = -1 THEN base[c].minDownloads ELSE said[c].minDownloads]]

Effective(p, eco) ==
  LET override == IF eco \in DOMAIN p.ecosystems THEN p.ecosystems[eco] ELSE NoOverride
  IN [cooldown |-> CASE override.cooldown # 0 -> override.cooldown
                     [] override.cooldown = 0 /\ p.cooldown # 0 -> p.cooldown
                     [] OTHER -> Defaults.cooldown,
      missing |-> IF p.missing = Unset THEN Defaults.missing ELSE p.missing,
      checks |-> applyChecks(applyChecks(Defaults.checks, p.checks), override.checks)]

Allowed(p, check, ref, now) ==
  \E i \in DOMAIN p.allow: p.allow[i].check = check /\ ~Expired(p.allow[i], now) /\ Match(p.allow[i].package, ref)

CooldownExcluded(p, ref) == \E i \in DOMAIN p.exclude: Match(p.exclude[i], ref)
ExpiredAllows(p, now) == {i \in DOMAIN p.allow: Expired(p.allow[i], now)}

\* --cooldown wins over the file and over its ecosystems.
applyCooldownOverride(p, flag) ==
  IF flag = 0 THEN p
  ELSE [p EXCEPT !.cooldown = flag, !.ecosystems = [e \in DOMAIN @ |-> [@[e] EXCEPT !.cooldown = 0]]]

validateChecks(said) ==
  \A c \in DOMAIN said: /\ c \in Checks
                        /\ said[c].minSeverity # Unset => c = "vulnerability"
                        /\ said[c].minDownloads # -1 => c = "low-usage"

Validate(p) ==
  /\ validateChecks(p.checks)
  /\ \A e \in DOMAIN p.ecosystems: e \in Ecos /\ validateChecks(p.ecosystems[e].checks)
  /\ \A i \in DOMAIN p.allow: p.allow[i].check \in Checks /\ p.allow[i].reason # ""

-----------------------------------------------------------------------------
(* Which file governs: the nearest up to the root, then the user's own. One *)
(* that cannot be looked at stops the search with an error.                 *)

find(files) ==
  LET here == {i \in Places: files[i].kind \notin {"absent", "directory"}}
  IN IF here = {} THEN 0 ELSE CHOOSE i \in here: \A j \in here: i <= j

Readable(content) == content.kind = "policy" /\ Validate(content)

NotJudged == [made |-> FALSE]

PolicyInit ==
  /\ \E family \in Settled: policies \in family
  /\ asking = [a \in Askers |-> [at |-> "idle"]]
  /\ overtaken = {}
  /\ judged = NotJudged
  /\ instant = 0
  /\ policyEdits = 0

\* A run of check, diff or scan loads its policy once, before anything else.
Load(flag) ==
  /\ LET place == find(policies)
         p == applyCooldownOverride(IF place = 0 THEN NoPolicy ELSE policies[place], flag)
     IN judged' =
          IF place # 0 /\ ~Readable(policies[place]) THEN [made |-> TRUE, refused |-> TRUE, files |-> policies]
          ELSE [made |-> TRUE, refused |-> FALSE, files |-> policies, now |-> instant, flag |-> flag,
                settings |-> [e \in Ecos |-> Effective(p, e)],
                excused |-> {cr \in Checks \X Packages: Allowed(p, cr[1], cr[2], instant)},
                excluded |-> {r \in Packages: CooldownExcluded(p, r)},
                stale |-> ExpiredAllows(p, instant)]
  /\ UNCHANGED <<policies, asking, overtaken, instant, policyEdits>>

-----------------------------------------------------------------------------
(* policy allow --write.                                                    *)

Exact(ref) == ref.version # Star /\ \A i \in DOMAIN ref.name: ref.name[i] # Star
Entry(q) == [check |-> q.check, package |-> q.ref, reason |-> q.reason, expires |-> q.expires]
SameSubject(entry, q) == entry.check = q.check /\ entry.package = q.ref

\* AddAllow adds an entry, finds it there already or refuses.
Accepts(p, q) ==
  /\ Readable(p) /\ ~p.linked /\ p.editable
  /\ Exact(q.ref) /\ q.reason # "" /\ ~Expired(Entry(q), instant)
  /\ \A i \in DOMAIN p.allow: ~SameSubject(p.allow[i], q)

AddAllow(p, q) == [p EXCEPT !.allow = Append(@, Entry(q))]

\* Refused, previewed or already there: the run ends where it began.
Review(a, q) ==
  /\ asking[a].at = "idle"
  /\ LET place == find(policies)
     IN /\ place # 0 /\ Accepts(policies[place], q)
        /\ asking' = [asking EXCEPT ![a] = [at |-> "reviewed", place |-> place, before |-> policies[place],
                                            asked |-> q, after |-> AddAllow(policies[place], q)]]
  /\ judged' = NotJudged
  /\ UNCHANGED <<policies, overtaken, instant, policyEdits>>

\* Mutant: the file is not read again.
CompareNothing(a) ==
  /\ asking[a].at = "reviewed"
  /\ asking' = [asking EXCEPT ![a].at = "compared"]
  /\ overtaken' = overtaken \ {a}
  /\ judged' = NotJudged
  /\ UNCHANGED <<policies, instant, policyEdits>>

CompareAgain(a) ==
  /\ asking[a].at = "reviewed"
  /\ asking' = [asking EXCEPT ![a] = IF policies[asking[a].place] = asking[a].before THEN [asking[a] EXCEPT !.at = "compared"]
                                     ELSE [at |-> "idle"]]
  /\ overtaken' = overtaken \ {a}
  /\ judged' = NotJudged
  /\ UNCHANGED <<policies, instant, policyEdits>>

\* The file just read is replaced.
Replaced(place) == {a \in Askers: asking[a].at = "compared" /\ asking[a].place = place}

WriteAllow(a) ==
  /\ asking[a].at = "compared"
  /\ policies' = [policies EXCEPT ![asking[a].place] = asking[a].after]
  /\ asking' = [asking EXCEPT ![a] = [at |-> "idle"]]
  /\ overtaken' = (overtaken \cup Replaced(asking[a].place)) \ {a}
  /\ judged' = NotJudged
  /\ UNCHANGED <<instant, policyEdits>>

\* The backup or the write fails, or the process is killed.
GiveUpAllow(a) ==
  /\ asking[a].at # "idle"
  /\ asking' = [asking EXCEPT ![a] = [at |-> "idle"]]
  /\ overtaken' = overtaken \ {a}
  /\ judged' = NotJudged
  /\ UNCHANGED <<policies, instant, policyEdits>>

EditPolicy(place, content) ==
  /\ policyEdits < MaxPolicyEdits
  /\ policies[place] # content
  /\ policies' = [policies EXCEPT ![place] = content]
  /\ policyEdits' = policyEdits + 1
  /\ overtaken' = overtaken \cup Replaced(place)
  /\ judged' = NotJudged
  /\ UNCHANGED <<asking, instant>>

PassTime ==
  /\ instant < MaxInstant
  /\ instant' = instant + 1
  /\ judged' = NotJudged
  /\ UNCHANGED <<policies, asking, overtaken, policyEdits>>

PolicyNext ==
  \/ \E flag \in {0, 2}: Load(flag)
  \/ \E a \in Askers: (\E q \in Requests: Review(a, q)) \/ CompareAgain(a) \/ WriteAllow(a) \/ GiveUpAllow(a)
  \/ \E place \in Places: \E content \in Edits: EditPolicy(place, content)
  \/ PassTime

PolicySpec == PolicyInit /\ [][PolicyNext]_policyVars

-----------------------------------------------------------------------------
(* Correctness.                                                             *)

\* The statements about a field, the most specific first; the first that says anything counts.
FirstSaid(statements, unsaid) ==
  LET said == {i \in DOMAIN statements: statements[i] # unsaid}
  IN statements[CHOOSE i \in said: \A j \in said: i <= j]

Unsaid(field) == IF field = "minDownloads" THEN -1 ELSE Unset
SaysOf(said, check, field) == IF check \in DOMAIN said THEN said[check][field] ELSE Unsaid(field)
ChecksOf(p, eco) == IF eco \in DOMAIN p.ecosystems THEN p.ecosystems[eco].checks ELSE <<>>

\* The first day is day 1.
Day(now) == now \div 2 + 1

\* A check is judged at what the governing file says of it, field by field: its
\* ecosystem's entry before the general one before the default; a package is
\* excused from a check by an entry about the check and the package through its
\* last day and no longer; and a governing file that cannot be read is never passed
\* over for another or for the defaults (effective.go:37, discover.go:37, policy.go:192).
JudgedAsWritten ==
  judged.made =>
    LET governing == {i \in Places: judged.files[i].kind \in {"policy", "broken", "denied"}
                                    /\ \A j \in 1..(i - 1): judged.files[j].kind \in {"absent", "directory"}}
        p == IF governing = {} THEN NoPolicy ELSE judged.files[CHOOSE i \in governing: TRUE]
    IN IF judged.refused THEN p.kind # "policy" \/ ~Validate(p)
       ELSE /\ p.kind = "policy" /\ Validate(p)
            /\ \A e \in Ecos: \A c \in Checks: \A field \in {"level", "minSeverity", "minDownloads"}:
                 judged.settings[e].checks[c][field] =
                   FirstSaid(<<SaysOf(ChecksOf(p, e), c, field), SaysOf(p.checks, c, field), checkDefaults(c)[field]>>, Unsaid(field))
            /\ judged.flag # 0 => \A e \in Ecos: judged.settings[e].cooldown = judged.flag
            /\ \A c \in Checks: \A r \in Packages:
                 <<c, r>> \in judged.excused <=>
                   \E i \in DOMAIN p.allow: /\ p.allow[i].check = c /\ Match(p.allow[i].package, r)
                                            /\ p.allow[i].expires = 0 \/ Day(judged.now) <= p.allow[i].expires

\* What a reference written out grants: that package, at that version or at all of them.
Grants(q, check, r, now) ==
  /\ q.check = check /\ Day(now) <= q.expires /\ q.ref.eco = r.eco
  /\ [i \in DOMAIN q.ref.name |-> matchName(r.eco, q.ref.name[i])] = [i \in DOMAIN r.name |-> matchName(r.eco, r.name[i])]
  /\ q.ref.version \in {"", r.version}

Excuses(content, now) == {cr \in Checks \X Packages: content.kind = "policy" /\ Allowed(content, cr[1], cr[2], now)}

\* An allow --write changes one file, and what that file excuses by exactly the
\* exception asked for, through the day it names: whatever a person or another run
\* made of the file before it was compared again (policy_allow.go:60, allow.go:16).
GrantsExactly ==
  [][\A a \in Askers \ overtaken:
       asking[a].at = "compared" /\ asking'[a].at = "idle" /\ policies' # policies =>
         LET place == asking[a].place
         IN /\ \A other \in Places \ {place}: policies'[other] = policies[other]
            /\ \A now \in instant..MaxInstant:
                 Excuses(policies'[place], now) =
                   Excuses(policies[place], now) \cup {cr \in Checks \X Packages: Grants(asking[a].asked, cr[1], cr[2], now)}]_policyVars
=============================================================================
