--------------------------- MODULE MCLogTransfer ---------------------------
(* Instances of LogTransfer for TLC. *)
EXTENDS LogTransfer

\* Neither clients nor threads are told apart.
Symmetry == Permutations(Client) \cup Permutations(Thread)
=============================================================================
