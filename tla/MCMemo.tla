------------------------------- MODULE MCMemo -------------------------------
(* A small instance of Memo: three calls about one key (two of checks, one  *)
(* of the load phase) that a batch also covers, and one call about a key    *)
(* no source indexes.                                                       *)
EXTENDS Memo, TLC

CONSTANTS c1, c2, c3, c4, k1, k2, b1

MCKeyOf == c1 :> k1 @@ c2 :> k1 @@ c3 :> k1 @@ c4 :> k2
MCBatchKeys == b1 :> {k1}
MCTimed == {c1, c2}

=============================================================================
