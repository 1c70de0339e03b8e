---------------------------- MODULE MCHttpCache ----------------------------
(* Two requests of one process, one of a second process that never lets an  *)
(* entry expire, and one of a third that is offline.                        *)
EXTENDS HttpCache

CONSTANTS p1, p2, p3, r1, r2, r3, r4, A, B, gone

MCProcessOf == [r \in Requests |-> CASE r \in {r1, r2} -> p1 [] r = r3 -> p2 [] OTHER -> p3]
MCTTL == [r \in Requests |-> IF r \in {r1, r4} THEN 1 ELSE 3]
MCStatus == [d \in Docs |-> IF d = gone THEN 404 ELSE 200]
MCLength == [d \in Docs |-> IF d = gone THEN 0 ELSE 1]

\* Bounds: the server has A first, and one other document beside it.
Had == UNION {held[t] : t \in Times}
MCInit == Init /\ doc = A
MCNext == Next /\ Had' # Docs
MCSpec == MCInit /\ [][MCNext]_vars

=============================================================================
