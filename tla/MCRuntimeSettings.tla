------------------------- MODULE MCRuntimeSettings --------------------------
(* Small instances of RuntimeSettings for TLC: two readers share the cache *)
(* of one process; the operator uses that process or another one.          *)
EXTENDS RuntimeSettings, TLC

CONSTANTS p1, p2, r1, r2

MCHome == (r1 :> p1) @@ (r2 :> p1)
=============================================================================
