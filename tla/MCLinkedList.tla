---------------------------- MODULE MCLinkedList ----------------------------
(* Instances of LinkedList for TLC. *)
EXTENDS LinkedList, TLC

\* Addresses are not told apart.
Symmetry == Permutations(Addr)
=============================================================================
