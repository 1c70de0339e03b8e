------------------------------ MODULE MCRunner ------------------------------
(* Two inputs over one place in flight and four checks, shaped like TD001   *)
(* (needs the registry, turned off by cooldown_exclude), TD009 (either of   *)
(* OSV and deps.dev settles it), TD012 (asks the loader for download        *)
(* counts) and TD013 (reads the lockfile entry). The first input is a       *)
(* directory of the project, whose lockfile check may never return; the     *)
(* second is any, with every combination of failures.                       *)
EXTENDS Runner

MCReads == <<{}, {"osv", "deps.dev"}, {}, {}>>
MCRequires == <<{"registry"}, {}, {}, {}>>

Plain == [c \in 1..4 |-> "none"]
Locked ==
  [where |-> "registry", versioned |-> TRUE, lock |-> TRUE, excluded |-> FALSE, allow |-> Plain]

MCKinds ==
  {Locked,
   [Locked EXCEPT !.where = "path", !.allow[4] = "expired"],
   [Locked EXCEPT !.versioned = FALSE, !.lock = FALSE, !.excluded = TRUE, !.allow[2] = "active"],
   [Locked EXCEPT !.allow[1] = "expired", !.allow[3] = "active", !.allow[4] = "active"]}

MCInit == Init /\ input[1].where = "path"

MCSpec == MCInit /\ [][Next]_vars /\ Fairness
=============================================================================
