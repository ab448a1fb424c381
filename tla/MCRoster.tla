------------------------------ MODULE MCRoster ------------------------------
(* Small instances of Roster for TLC. *)
EXTENDS Roster, TLC

(* The properties do not tell trainees, groups, sessions or requests apart. *)
Interchangeable ==
    Permutations(Trainees) \cup Permutations(Groups)
    \cup Permutations(Sessions) \cup Permutations(Requests)
=============================================================================
