---------------------------- MODULE MCCratesDump ----------------------------
(* Two writers and one scan over two snapshots of two shards.               *)
EXTENDS CratesDump

CONSTANTS w1, w2, x1, s1, s2

MCWriters == {w1, w2}
MCShards == {s1, s2}

=============================================================================
