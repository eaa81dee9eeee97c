------------------------- MODULE MCRequestPipeline --------------------------
(* Small instances of RequestPipeline for TLC: one key is used by a request, *)
(* its retry and a request with another intent, a second key by a fourth.  *)
EXTENDS RequestPipeline, TLC

CONSTANTS r1, r2, r3, r4, k1, k2, i1, i2

MCKeyOf == (r1 :> k1) @@ (r2 :> k1) @@ (r3 :> k1) @@ (r4 :> k2)
MCIntentOf == (r1 :> i1) @@ (r2 :> i1) @@ (r3 :> i2) @@ (r4 :> i1)
Retries == Permutations({r1, r2})
=============================================================================
