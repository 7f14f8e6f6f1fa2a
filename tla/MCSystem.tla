------------------------------ MODULE MCSystem ------------------------------
(* Instances of System for TLC. *)
EXTENDS SystemProps

\* Clients are interchangeable: no definition tells one from another.
Symmetry == Permutations(Client)
=============================================================================
