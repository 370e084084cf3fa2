----------------------------- MODULE MCManager -----------------------------
(* Small instances of Manager for TLC. *)
EXTENDS Manager, TLC

(* UDIDs, handles and clients are interchangeable. *)
Symmetry == Permutations(Udids) \cup Permutations(Handles)
              \cup Permutations(Adders) \cup Permutations(Listeners)
              \cup Permutations(Sessions)
=============================================================================
