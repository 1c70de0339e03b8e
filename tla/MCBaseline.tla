----------------------------- MODULE MCBaseline -----------------------------
(* Two runs about one package of a registry that names its publishers only  *)
(* through evidence, two releases, and one change of the world around them. *)
(* Packages share no state, so a second one adds nothing to the runs of the *)
(* first but more interleavings.                                            *)
EXTENDS Baseline, TLC

CONSTANTS ann, bob

MCListings == {{}, {ann}, {bob}}

MCPolicies ==
  {[level |-> "block", allowed |-> {}],
   [level |-> "warn", allowed |-> {}]}

Symmetry == Permutations({ann, bob}) \cup Permutations(Runs) \cup Permutations(Versions)

=============================================================================
