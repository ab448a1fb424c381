------------------------------ MODULE MCAreas ------------------------------
(***************************************************************************)
(* All parts in one run of TLC, with the table of all pages.               *)
(***************************************************************************)
EXTENDS Areas, TLC

(* Each of the sets, which have two elements, exchanges them, or none does. *)
Exchange(sets) ==
    {f \in Permutations(UNION sets) :
        \/ \A S \in sets : \A x \in S : f[x] \in S \ {x}
        \/ \A x \in UNION sets : f[x] = x}

(* What the parts name by identifiers may be exchanged: the users and the  *)
(* trainees of PortalLinks, the accounts and the requests of Provisioning,  *)
(* the messages and the requests of Feedback, the requests of Catalogue.   *)
(* The parts share no state, so that two exchanges do for all.             *)
Symmetry ==
    {f @@ g : f \in Exchange({PortalUsers, Staff, Messages, Curators}),
              g \in Exchange({PortalTrainees, Operators, Clerks})}

(* One account of the staff in PortalLinks. *)
FewStaff == \A u, v \in PortalUsers : "STAFF" \in roles[u] \cap roles[v] => u = v
=============================================================================
