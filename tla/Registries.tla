----------------------------- MODULE Registries -----------------------------
(* The registry clients (internal/registry: npm, pypi, crates and jsr, and  *)
(* internal/attestation, which verifies npm's attestations): what callers   *)
(* learn of one version of one package from several requests, any of which  *)
(* may fail, while the version may be removed, and the package after it,    *)
(* between two of them.                                                     *)
(*                                                                          *)
(* What a version is does not change once it is published, so the truth     *)
(* about its scripts, provenance and dependencies is fixed. npm answers     *)
(* everything but counts from one document, which the client keeps; two     *)
(* callers may both have fetched it by the time one of them keeps it.       *)
EXTENDS Naturals, Sequences, SequencesExt

CONSTANTS
  Callers,        \* who asks, each for one thing
  MaxRevisions,   \* times the package's document changes
  MaxFiles        \* files looked at in a crate archive

ASSUME RegistriesAssumption == MaxRevisions \in Nat /\ MaxFiles \in Nat

VARIABLES
  registry,   \* the client
  truth,      \* what the version is
  standing,   \* "published", "unpublished" (the version) or "gone" (the package)
  revision,   \* of the package's document
  kept,       \* the document the npm client keeps
  calls       \* of each caller: what it asks, how far it is and what it has learnt

registryVars == <<registry, truth, standing, revision, kept, calls>>

-----------------------------------------------------------------------------
(* What there is to learn.                                                  *)

\* The files of a crate archive in their order: the manifest names a build
\* script, turns it off or says nothing of it.
Manifests == {"names", "disables", "plain"}
Archives == {s \in UNION {[1..n -> Manifests \cup {"build.rs", "other"}]: n \in 0..MaxFiles}:
               \A i, j \in DOMAIN s: (s[i] \in Manifests /\ s[j] \in Manifests) \/ s[i] = s[j] => i = j}

SeenIn(s) == [manifest |-> ToSet(s) \cap Manifests, build |-> "build.rs" \in ToSet(s)]
BuildScript(f) == "disables" \notin f.manifest /\ ("names" \in f.manifest \/ f.build)

\* Mutant: the manifest alone settles it.
SettledByManifest(f) == f.manifest # {}

\* The archive is read until the manifest was seen and settles the build script,
\* alone or with the file of its default name.
Settled(f) == f.manifest # {} /\ (f.build \/ f.manifest # {"plain"})
Inspect(s) ==
  LET stops == {n \in 0..Len(s): Settled(SeenIn(SubSeq(s, 1, n)))}
  IN SeenIn(SubSeq(s, 1, IF stops = {} THEN Len(s) ELSE CHOOSE n \in stops: \A m \in stops: n <= m))

Truths ==
  [npm |-> [scripts: BOOLEAN, attested: BOOLEAN, dependencies: BOOLEAN, understood: BOOLEAN],
   verified |-> [scripts: {TRUE}, attested: BOOLEAN, dependencies: {TRUE}, understood: {TRUE}, signed: BOOLEAN],
   pypi |-> [files: SUBSET {"wheel", "sdist"}, attests: SUBSET {"wheel", "sdist"}, dependencies: {TRUE}, ownership: BOOLEAN],
   crates |-> [archive: Archives, attested: BOOLEAN, dependencies: {TRUE}, counted: BOOLEAN],
   jsr |-> [attested: BOOLEAN, dependencies: {"none", "jsr", "npm"}, counted: BOOLEAN]]

\* The wheel, or the sdist of a release without one.
PreferredFile == IF "wheel" \in truth.files THEN {"wheel"} ELSE truth.files

Scripts ==
  CASE registry \in {"npm", "verified"} -> truth.scripts
    [] registry = "pypi" -> truth.files = {"sdist"}
    [] registry = "crates" -> BuildScript(SeenIn(truth.archive))
    [] registry = "jsr" -> FALSE
Provenance ==
  CASE registry = "verified" -> truth.attested /\ truth.signed
    [] registry = "pypi" -> PreferredFile # {} /\ PreferredFile \subseteq truth.attests
    [] OTHER -> truth.attested
Dependencies == IF registry = "jsr" THEN truth.dependencies # "none" ELSE truth.dependencies
Truth == [scripts |-> Scripts, provenance |-> Provenance, dependencies |-> Dependencies]

-----------------------------------------------------------------------------
(* Calls and their requests.                                                *)

Operations == {"versions", "info", "owners", "downloads"}

Requests(op) ==
  CASE registry = "npm" -> IF op = "downloads" THEN <<"count">> ELSE <<"document">>
    [] registry = "verified" ->
         CASE op = "downloads" -> <<"count">>
           [] op = "info" /\ truth.attested -> <<"document", "attestation">>
           [] OTHER -> <<"document">>
    [] registry = "pypi" ->
         CASE op = "info" -> IF PreferredFile = {} THEN <<"release">> ELSE <<"release", "provenance">>
           [] op = "downloads" -> <<>>
           [] OTHER -> <<"project">>
    [] registry = "crates" ->
         CASE op = "info" -> <<"document", "dependencies", "archive">>
           [] op = "owners" -> <<"owners">>
           [] OTHER -> <<"document">>
    [] registry = "jsr" ->
         CASE op = "versions" -> <<"document", "details", "record">>
           [] op = "info" -> <<"document", "details", "record", "optional dependencies">>
           [] op = "owners" -> <<"owners">>
           [] op = "downloads" -> <<"count">>

Unread == [scripts |-> FALSE, provenance |-> FALSE, dependencies |-> FALSE]
NewCall(op) == [op |-> op, asked |-> 0, document |-> <<>>, info |-> Unread, unknown |-> {}, result |-> ""]

RegistriesInit ==
  /\ registry \in DOMAIN Truths
  /\ truth \in Truths[registry]
  /\ standing \in {"published", "unpublished"}
  /\ revision = 0
  /\ kept = <<>>
  /\ calls \in [Callers -> {NewCall(op): op \in Operations}]

Open(c) == calls[c].result = ""
Due(c) == Requests(calls[c].op)[calls[c].asked + 1]
Asks(c, q) == Open(c) /\ calls[c].asked < Len(Requests(calls[c].op)) /\ Due(c) = q

\* The registry knows the package, or the version.
ServesPackage == standing # "gone"
ServesVersion == standing = "published"

\* What the registry never provides is said after the document that would hold it.
Unsupported(op) ==
  \/ registry = "pypi" /\ (op = "downloads" \/ (op = "owners" /\ ~truth.ownership))
  \/ registry \in {"crates", "jsr"} /\ op = "downloads" /\ ~truth.counted

Ends(c, result) == calls' = [calls EXCEPT ![c].result = result]
Learns(c, new) == calls' = [calls EXCEPT ![c] = [new EXCEPT !.asked = @ + 1]]
Quiet == UNCHANGED <<registry, truth, standing, revision, kept>>

-----------------------------------------------------------------------------
(* The first request of a call decides whether there is an answer.          *)

Decisive == {"project", "owners", "count", "release", "dependencies"}

\* Mutant: what could not be asked is not there.
FailsAsNotFound(c) ==
  /\ \E q \in Decisive \cup {"document"}: Asks(c, q)
  /\ Ends(c, "notfound")
  /\ Quiet

\* A failure is the call's; so is what the registry does not know.
Fails(c) ==
  /\ \E q \in Decisive \cup {"document"}: Asks(c, q)
  /\ Ends(c, "outage")
  /\ Quiet

NotFound(c) ==
  /\ \/ \E q \in {"project", "owners", "count", "document"}: Asks(c, q) /\ ~ServesPackage
     \/ \E q \in {"release", "dependencies"}: Asks(c, q) /\ ~ServesVersion
  /\ Ends(c, "notfound")
  /\ Quiet

\* What is read from the answer of the first request.
Reads(c, q) ==
  CASE q = "release" -> [calls[c] EXCEPT !.info.scripts = Scripts, !.info.dependencies = Dependencies]
    [] q = "dependencies" -> [calls[c] EXCEPT !.info.dependencies = Dependencies]
    [] OTHER -> calls[c]

Answered(c) ==
  /\ \E q \in Decisive:
       /\ Asks(c, q)
       /\ IF q \in {"release", "dependencies"} THEN ServesVersion ELSE ServesPackage
       /\ Learns(c, Reads(c, q))
  /\ Quiet

\* The package's document as it is now.
Document == <<[revision |-> revision, listed |-> ServesVersion]>>

\* A call goes on with a document, which may not list the version. npm's holds
\* everything; of a version it did not understand the client keeps the time alone.
\* crates.io's holds the provenance, and JSR has no scripts.
With(c, doc) ==
  IF calls[c].op = "info" /\ ~doc[1].listed
  THEN calls' = [calls EXCEPT ![c].document = doc, ![c].result = "notfound"]
  ELSE Learns(c, [calls[c] EXCEPT !.document = doc,
         !.info = CASE registry \in {"npm", "verified"} ->
                         IF truth.understood
                         THEN [scripts |-> Scripts, dependencies |-> Dependencies,
                               provenance |-> registry = "npm" /\ Provenance]
                         ELSE Unread
                    [] registry = "crates" -> [Unread EXCEPT !.provenance = Provenance]
                    [] OTHER -> Unread])

DocumentRead(c) ==
  /\ registry \in {"crates", "jsr"}
  /\ Asks(c, "document") /\ ServesPackage
  /\ With(c, Document)
  /\ Quiet

\* The npm client answers from the document it keeps, and asks when it has none.
FromKept(c) ==
  /\ registry \in {"npm", "verified"}
  /\ Asks(c, "document") /\ calls[c].document = <<>>
  /\ kept # <<>>
  /\ With(c, kept)
  /\ Quiet

Fetched(c) ==
  /\ registry \in {"npm", "verified"}
  /\ Asks(c, "document") /\ calls[c].document = <<>>
  /\ kept = <<>>
  /\ ServesPackage
  /\ calls' = [calls EXCEPT ![c].document = Document]
  /\ Quiet

\* Mutant: the document fetched last is the one kept and used.
KeepLast(c) == kept' = calls[c].document

\* The first document kept is the one everybody uses.
KeepFirst(c) == kept' = IF kept = <<>> THEN calls[c].document ELSE kept

Keep(c) ==
  /\ registry \in {"npm", "verified"}
  /\ Asks(c, "document") /\ calls[c].document # <<>>
  /\ KeepFirst(c)
  /\ With(c, kept')
  /\ UNCHANGED <<registry, truth, standing, revision>>

-----------------------------------------------------------------------------
(* The requests that follow tell of one facet each, and never fail the call. *)

Facet(q) ==
  CASE q \in {"provenance", "attestation", "details"} -> "provenance"
    [] q = "archive" -> "scripts"
    [] q = "optional dependencies" -> "dependencies"
    [] q = "record" -> "deprecated"

Optional == {"provenance", "attestation", "details", "archive", "optional dependencies", "record"}

\* What an answer says of the facet; an answer that says nothing of it is as good
\* as none: a version the management list does not have (yet, or among the pages
\* that are read), an attestation that does not verify, an archive without a
\* manifest, dependencies that a map of this registry's packages cannot name.
Says(q) ==
  CASE q = "provenance" -> {Provenance}
    [] q = "attestation" -> IF truth.signed THEN {TRUE} ELSE {}
    [] q = "details" -> {truth.attested}
    [] q = "archive" -> IF Inspect(truth.archive).manifest = {} THEN {} ELSE {BuildScript(Inspect(truth.archive))}
    [] q = "optional dependencies" -> IF truth.dependencies = "npm" THEN {} ELSE {Dependencies}
    [] q = "record" -> {}

\* Mutant: a facet that could not be gathered keeps its zero value.
MissAtZero(c, q) == Learns(c, calls[c])
Miss(c, q) == Learns(c, [calls[c] EXCEPT !.unknown = @ \cup {Facet(q)}])

FacetRead(c) ==
  /\ \E q \in Optional:
       /\ Asks(c, q)
       /\ IF q = "record" THEN ServesPackage /\ Learns(c, calls[c])
          ELSE /\ IF q = "details" THEN ServesPackage ELSE ServesVersion
               /\ \E v \in Says(q): Learns(c, [calls[c] EXCEPT !.info[Facet(q)] = v])
  /\ Quiet

FacetMissed(c) ==
  /\ \E q \in Optional: Asks(c, q) /\ Miss(c, q)
  /\ Quiet

\* No attestation of a file is an answer: there is none.
NoProvenance(c) ==
  /\ Asks(c, "provenance")
  /\ ~ServesVersion \/ ~Provenance
  /\ Learns(c, calls[c])
  /\ Quiet

Returns(c) ==
  /\ Open(c)
  /\ calls[c].asked = Len(Requests(calls[c].op))
  /\ Ends(c, IF Unsupported(calls[c].op) THEN "unsupported" ELSE "answer")
  /\ Quiet

-----------------------------------------------------------------------------

\* Another version is published, the version is removed, or the package is. That this
\* version is published while it is asked about is left out.
Revise ==
  /\ revision < MaxRevisions
  /\ revision' = revision + 1
  /\ \/ UNCHANGED standing
     \/ standing = "published" /\ standing' = "unpublished"
     \/ standing = "unpublished" /\ standing' = "gone"
  /\ UNCHANGED <<registry, truth, kept, calls>>

RegistriesNext ==
  \/ Revise
  \/ \E c \in Callers:
       \/ Fails(c) \/ NotFound(c) \/ Answered(c)
       \/ DocumentRead(c) \/ FromKept(c) \/ Fetched(c) \/ Keep(c)
       \/ FacetRead(c) \/ FacetMissed(c) \/ NoProvenance(c)
       \/ Returns(c)

RegistriesSpec == RegistriesInit /\ [][RegistriesNext]_registryVars

-----------------------------------------------------------------------------
(* Correctness.                                                             *)

\* What an answer says of a version is true, or named as unknown (registry.go: a
\* facet that could not be gathered leaves the version "with that facet at its zero
\* value and named in VersionInfo.Unknown"): a request that failed never reads as a
\* version without scripts, provenance or dependencies. Two cases do read so: a
\* version of an npm document the client did not understand, and a file removed
\* from PyPI before its provenance was asked for.
FacetsAreTrue ==
  \A c \in Callers: calls[c].op = "info" /\ calls[c].result = "answer" =>
    \A f \in DOMAIN Truth:
      \/ calls[c].info[f] = Truth[f]
      \/ f \in calls[c].unknown
      \/ registry = "npm" /\ ~truth.understood
      \/ registry = "pypi" /\ f = "provenance" /\ ~ServesVersion

\* "Not found" is the registry's word: a version it serves is never not found for
\* a request that failed, nor a package for a version that was removed.
NotFoundIsTrue ==
  \A c \in Callers: calls[c].result = "notfound" =>
    IF calls[c].op = "info" THEN ~ServesVersion ELSE ~ServesPackage

\* All that is read of an npm package is of one document, whoever asked and however
\* the document changed in between.
OneDocument ==
  registry \in {"npm", "verified"} =>
    \A c, d \in Callers: calls[c].asked > 0 /\ calls[d].asked > 0
      => calls[c].document = calls[d].document \/ <<>> \in {calls[c].document, calls[d].document}

\* What the clients say of a version is the registry's word, facet by facet, version
\* by version and caller by caller: the three statements above.
TellTheRegistry == FacetsAreTrue /\ NotFoundIsTrue /\ OneDocument

=============================================================================
