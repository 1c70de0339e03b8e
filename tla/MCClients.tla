----------------------------- MODULE MCClients ------------------------------
(* The clients that ask many things at once (Batches), those that ask       *)
(* several things of one version (Registries) and the programs that run     *)
(* another (Hosts). They share nothing, so a behaviour is of one of them    *)
(* and the others stay at one initial state.                                *)
(*                                                                          *)
(* Batches: four packages in batches of two. deps.dev knows the first two   *)
(* by one name, npm's bulk endpoint refuses the third and leaves the last   *)
(* over. Five advisories, two of them malicious, some listed by two         *)
(* packages; no record is requested after two have failed.                  *)
EXTENDS Batches, Registries, Hosts

VARIABLE
  part

mcVars == <<vars, registryVars, hostVars, part>>

MCRefs == <<"Requests", "requests", "@scope/urllib", "urllib">>
MCCanon == [r \in ToSet(MCRefs) |-> IF r = "Requests" THEN "requests" ELSE r]
MCIds == <<"GHSA-1", "GHSA-2", "GHSA-3", "MAL-1", "MAL-2">>
MCListings ==
  LET of(list) == [r \in ToSet(MCRefs) |-> list[CHOOSE i \in DOMAIN MCRefs: MCRefs[i] = r]]
  IN {of(<<{}, {}, {}, {}>>),
      of(<<{"GHSA-1", "GHSA-3"}, {"GHSA-1", "MAL-1"}, {}, {}>>),
      of(<<{"GHSA-2"}, {"MAL-1"}, {"GHSA-2", "MAL-2", "GHSA-3"}, {"GHSA-3"}>>)}

MCWanted == <<"a", "b", "c">>
MCProposals == {<<"a", "b", "c">>, <<"b", "nameless", "b">>, <<"a", "unversioned">>}
MCLockfiles == {{}, {"a", "c", "link"}, {"b", "git"}, {"a", "b", "c"}, {"a", "dangling"}}

NoBatch == client = "downloads" /\ served.counted = {}
NoRegistry == registry = "jsr" /\ truth = (CHOOSE t \in Truths.jsr: TRUE) /\ standing = "published"
  /\ calls = [c \in Callers |-> NewCall("owners")]
NoHost == host = "bun" /\ proposed = <<"a", "unversioned">> /\ settings = [unchecked |-> "warn", require |-> TRUE]

MCInit ==
  /\ part \in {"batches", "registries", "hosts"}
  /\ Init /\ (part = "batches" \/ NoBatch)
  /\ RegistriesInit /\ (part = "registries" \/ NoRegistry)
  /\ HostsInit /\ (part = "hosts" \/ NoHost)

MCNext ==
  /\ \/ part = "batches" /\ Next /\ UNCHANGED <<registryVars, hostVars>>
     \/ part = "registries" /\ RegistriesNext /\ UNCHANGED <<vars, hostVars>>
     \/ part = "hosts" /\ HostsNext /\ UNCHANGED <<vars, registryVars>>
  /\ UNCHANGED part

MCSpec == MCInit /\ [][MCNext]_mcVars /\ HostsFairness
=============================================================================
