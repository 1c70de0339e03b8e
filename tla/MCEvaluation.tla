---------------------------- MODULE MCEvaluation ----------------------------
(* Every check that asks a source, over the whole range of its facts, in    *)
(* runs that share nothing (Evaluation) or in the cycles of a watch: a      *)
(* behaviour is of one of the two, and the other is idle. Of the four       *)
(* checks that only read lock entries TD016 is the one selected: neither    *)
(* TD013 nor TD017 has a request that could fail.                           *)
EXTENDS Watch

VARIABLE
  watching

mcVars == <<vars, watchVars, watching>>

MCInit ==
  \/ /\ watching = FALSE /\ Init
     /\ report = NotEvaluated /\ seen = NotEvaluated /\ emitted = "" /\ ledger = "nothing" /\ running = FALSE
  \/ watching = TRUE /\ WatchInit /\ verdict = NotEvaluated

MCNext ==
  \/ ~watching /\ Next /\ UNCHANGED <<report, seen, emitted, ledger, running, watching>>
  \/ watching /\ WatchNext /\ UNCHANGED <<verdict, watching>>

MCSpec == MCInit /\ [][MCNext]_mcVars
=============================================================================
