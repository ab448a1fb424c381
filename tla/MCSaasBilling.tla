--------------------------- MODULE MCSaasBilling ----------------------------
(* Small instances of SaasBilling for TLC. *)
EXTENDS SaasBilling, TLC

(* Rows and requests are interchangeable in the safety properties. *)
Interchangeable == Permutations(Subs) \cup Permutations(Requests)
=============================================================================
