------------------------------ MODULE MCDoctor ------------------------------
(* The commands that write configuration files: doctor --fix (Doctor) and   *)
(* policy allow --write (Policy). They share nothing, so a behaviour is of  *)
(* one of them and the other stays at one initial state; most policies are  *)
(* only judged, and a few are also written.                                 *)
(* Doctor: three rules over two files, two settings of an .npmrc that may   *)
(* be created, and one that belongs in either file.                         *)
(* Policy: every pair of entries about two checks; up to three files of     *)
(* every kind; and two askers beside a person, over two and a half days.    *)
EXTENDS Doctor, Policy, TLC

VARIABLE
  part

CONSTANTS r1, r2, a1, a2
RunSymmetry == Permutations(Runs) \cup Permutations(Askers)

At(file, create) == [file |-> file, create |-> create]

ThreeRules ==
  <<[key |-> "age", targets |-> <<At("npmrc", TRUE)>>],
    [key |-> "scripts", targets |-> <<At("npmrc", TRUE)>>],
    [key |-> "age", targets |-> <<At("yaml", FALSE), At("npmrc", TRUE)>>]>>

Content(kind, age, scripts) == [kind |-> kind, keys |-> [k \in Keys |-> IF k = "age" THEN age ELSE scripts]]

SomeContents ==
  {Content("absent", "unset", "unset"), Content("link", "unset", "unset"), Content("file", "unset", "unset"),
   Content("file", "theirs", "unset"), Content("file", "locked", "unset"), Content("file", "ours", "unset")}

\* The policy file.
Spelling == [s \in {"react", "React", "@org", "*"} |-> IF s = "React" THEN "react" ELSE s]
PackageRef(eco, name, version) == [eco |-> eco, name |-> name, version |-> version]
MCPackages ==
  {PackageRef("npm", <<"react">>, "1"), PackageRef("npm", <<"React">>, "2"), PackageRef("npm", <<"@org", "react">>, "1"),
   PackageRef("cargo", <<"react">>, "1"), PackageRef("cargo", <<"React">>, "1")}
MCChecks == {"young-version", "vulnerability", "low-usage"}

Says(level, severity, downloads) == [level |-> level, minSeverity |-> severity, minDownloads |-> downloads]
Allows(check, package, expires) == [check |-> check, package |-> package, reason |-> "reviewed", expires |-> expires]

Vulnerability == {Says("warn", Unset, -1), Says(Unset, "low", -1), Says("off", "critical", -1)}
Usage == {Says("block", Unset, -1), Says(Unset, Unset, 9), Says(Unset, "low", -1)}
Sections == {<<>>} \cup {"vulnerability" :> v : v \in Vulnerability} \cup {"low-usage" :> u : u \in Usage} \cup {"no-such" :> Says("off", Unset, -1)}
  \cup {[c \in {"vulnerability", "low-usage"} |-> IF c = "low-usage" THEN u ELSE v] : v \in Vulnerability, u \in Usage}
Leveled ==
  {[NoPolicy EXCEPT !.checks = general, !.cooldown = cooldown, !.ecosystems = "npm" :> [cooldown |-> own, checks |-> special]] :
     general \in Sections, special \in Sections, cooldown \in {0, 4}, own \in {0, 14}}

Excusing ==
  {[NoPolicy EXCEPT !.allow = <<Allows("low-usage", PackageRef(eco, name, version), expires)>>] :
     eco \in {"", "npm"}, name \in {<<"react">>, <<"*">>, <<"@org", "*">>}, version \in {"", "*", "1"}, expires \in {0, 1}}
Unexcused == [NoPolicy EXCEPT !.allow = <<[Allows("low-usage", PackageRef("npm", <<"react">>, ""), 0) EXCEPT !.reason = ""]>>]
Excluding == [NoPolicy EXCEPT !.exclude = <<PackageRef("npm", <<"@org", "*">>, "")>>, !.missing = "fail"]

NoPolicyFile == [kind |-> "absent"]
Nearest(content) == <<content, NoPolicyFile, NoPolicyFile>>
Some == {NoPolicyFile, [kind |-> "directory"], [kind |-> "denied"], [kind |-> "broken"], Excluding, Unexcused}

Reviewed == [NoPolicy EXCEPT !.allow = <<Allows("young-version", PackageRef("npm", <<"React">>, ""), 1)>>]
Asked3 == {Nearest(p) : p \in {NoPolicy, Reviewed, [NoPolicy EXCEPT !.linked = TRUE], [NoPolicy EXCEPT !.editable = FALSE]}}
  \cup {<<NoPolicyFile, NoPolicy, Reviewed>>}

MCSettled == {{Nearest(p) : p \in Leveled}, {Nearest(p) : p \in Excusing}, [1..3 -> Some], Asked3}
MCEdits == {NoPolicy, Reviewed, [NoPolicy EXCEPT !.allow = <<Allows("low-usage", PackageRef("npm", <<"react">>, "1"), 0)>>]}

Request(check, ref, expires) == [check |-> check, ref |-> ref, reason |-> "reviewed", expires |-> expires]
MCRequests ==
  {Request("young-version", PackageRef("npm", <<"React">>, ""), 1), Request("low-usage", PackageRef("cargo", <<"react">>, "1"), 2),
   Request("low-usage", PackageRef("npm", <<"*">>, ""), 2)}

mcVars == <<vars, policyVars, part>>

NoDoctor == disk = [f \in Files |-> [kind |-> "absent", text |-> 0, keys |-> [k \in Keys |-> "unset"]]]

MCInit ==
  \/ part = "doctor" /\ Init /\ policies = Nearest(NoPolicy) /\ PolicyInit
  \/ part = "judging" /\ Init /\ NoDoctor /\ PolicyInit
  \/ part = "allowing" /\ Init /\ NoDoctor /\ policies \in Asked3 /\ PolicyInit

Judging == (\E flag \in {0, 2}: Load(flag)) \/ PassTime

MCNext ==
  /\ \/ part = "doctor" /\ Next /\ UNCHANGED policyVars
     \/ part = "judging" /\ Judging /\ UNCHANGED vars
     \/ part = "allowing" /\ PolicyNext /\ UNCHANGED vars
  /\ UNCHANGED part

MCSpec == MCInit /\ [][MCNext]_mcVars
=============================================================================
