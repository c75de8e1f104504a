------------------------------ MODULE MCHashMap ----------------------------
(* HashMap with keys that are their own hash, for TLC. *)
EXTENDS HashMap

KeyHash == [k \in Key |-> k]
=============================================================================
