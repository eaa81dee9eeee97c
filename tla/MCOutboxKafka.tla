--------------------------- MODULE MCOutboxKafka ----------------------------
(* Small instances of OutboxKafka for TLC.                                 *)
EXTENDS OutboxKafka, TLC

Symmetry == Permutations(Event) \cup Permutations(Relayer)
=============================================================================
