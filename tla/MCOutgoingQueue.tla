--------------------------- MODULE MCOutgoingQueue ---------------------------
(***************************************************************************)
(* The outgoing queue for TLC: application threads are interchangeable.    *)
(***************************************************************************)
EXTENDS OutgoingQueue, TLC

Symmetry == Permutations(Writers)
==============================================================================
