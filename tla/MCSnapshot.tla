----------------------------- MODULE MCSnapshot -----------------------------
(* Small instances of Snapshot for TLC: a replica and a writer with one    *)
(* key, and a second writer that has not got it.                           *)
EXTENDS Snapshot, TLC

MCKey == [p \in Process |-> IF p = "w2" THEN NoKey ELSE "k1"]
=============================================================================
