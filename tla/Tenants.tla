------------------------------ MODULE Tenants ------------------------------
(***************************************************************************)
(* The rows of academies and their e-mail addresses                        *)
(* (backend/src/super-admin-academies, super-admin-academy-management,     *)
(* academies).                                                             *)
(*                                                                         *)
(* The super admin's services look for an academy with the address and     *)
(* write later; the column has no unique constraint, and the academies     *)
(* endpoints do not look.                                                  *)
(*                                                                         *)
(* Left out: the tables' columns, which the services look up before they   *)
(* write; slugs, which a unique constraint keeps apart (a conflict is      *)
(* GiveUpAcademy); the other columns, the status among them, which nothing *)
(* in the backend reads.                                                   *)
(***************************************************************************)

CONSTANTS
    Academies,
    Addresses,     \* e-mail addresses of academies
    Registrars     \* requests that may run at the same time

(* "none" stands for a request without a check. *)
ASSUME TenantsAssumption == "none" \notin Registrars

VARIABLES
    academy,    \* the academies rows
    registrar,  \* where each request stands
    unchecked   \* history: academies whose address was written unchecked or in a race

tenantVars == <<academy, registrar, unchecked>>

NoAddress == "none"
AcademyRow == [state : {"none", "live", "removed"}, address : Addresses \cup {NoAddress}]

NoRegistrar == [step |-> "idle"]
Registrar ==
    {NoRegistrar}
    \cup [step : {"create", "update"}, academy : Academies, address : Addresses \cup {NoAddress},
          raced : {"yes", "no"}]

TenantsInit ==
    /\ academy = [a \in Academies |-> [state |-> "none", address |-> NoAddress]]
    /\ registrar = [q \in Registrars |-> NoRegistrar]
    /\ unchecked = {}

-----------------------------------------------------------------------------
Exists(a) == academy[a].state # "none"

(* Slip: the update does not look, or not for the other academies. *)
NeverInUse(address, a) == FALSE

(* assertUnique, and the SELECT of createAcademy: removed academies count. *)
InUse(address, a) == \E b \in Academies \ {a} : Exists(b) /\ academy[b].address = address

(* Another request about to write the same address. *)
Noticed(a, address, q) ==
    [p \in Registrars |->
        IF /\ p # q /\ registrar[p].step \in {"create", "update"}
           /\ registrar[p].address = address /\ registrar[p].academy # a
        THEN [registrar[p] EXCEPT !.raced = "yes"] ELSE registrar[p]]

(* createAcademy and updateAcademy, updateStatus: the checks ... *)
CheckAcademy(q, step, a, address) ==
    /\ registrar[q].step = "idle"
    /\ (step = "create") <=> ~Exists(a)
    /\ address # NoAddress => ~InUse(address, a)
    /\ registrar' = [registrar EXCEPT ![q] = [step |-> step, academy |-> a,
                                              address |-> address, raced |-> "no"]]
    /\ UNCHANGED <<academy, unchecked>>

(* ... the INSERT ... *)
CreateAcademy(q) ==
    LET o == registrar[q]
    IN  /\ o.step = "create"
        /\ ~Exists(o.academy)
        /\ academy' = [academy EXCEPT ![o.academy] =
              [state |-> "live", address |-> o.address]]
        /\ unchecked' = IF o.raced = "yes" THEN unchecked \cup {o.academy} ELSE unchecked
        /\ registrar' = [Noticed(o.academy, o.address, q) EXCEPT ![q] = NoRegistrar]

(* ... or the UPDATE, of a removed academy as well.  A dto without an      *)
(* address leaves it.                                                      *)
UpdateAcademy(q) ==
    LET o == registrar[q]
        address == IF o.address = NoAddress THEN academy[o.academy].address ELSE o.address
    IN  /\ o.step = "update"
        /\ academy' = [academy EXCEPT ![o.academy].address = address]
        /\ unchecked' = IF o.raced = "yes" THEN unchecked \cup {o.academy} ELSE unchecked
        /\ registrar' = [Noticed(o.academy, o.address, q) EXCEPT ![q] = NoRegistrar]

(* AcademiesService.create and update: no look at the address. *)
SaveAcademy(a, address) ==
    /\ academy[a].state # "removed"
    /\ academy' = [academy EXCEPT ![a].state = "live", ![a].address = address]
    /\ unchecked' = unchecked \cup {a}
    /\ registrar' = Noticed(a, address, "none")

(* AcademiesService.remove *)
RemoveAcademy(a) ==
    /\ academy[a].state = "live"
    /\ academy' = [academy EXCEPT ![a].state = "removed"]
    /\ UNCHANGED <<registrar, unchecked>>

(* A refusal, a conflict, a database error or a crash. *)
GiveUpAcademy(q) ==
    /\ registrar[q].step # "idle"
    /\ registrar' = [registrar EXCEPT ![q] = NoRegistrar]
    /\ UNCHANGED <<academy, unchecked>>

TenantsNext ==
    \/ \E a \in Academies, address \in Addresses \cup {NoAddress} :
        \/ SaveAcademy(a, address)
        \/ \E q \in Registrars, step \in {"create", "update"} : CheckAcademy(q, step, a, address)
    \/ \E a \in Academies : RemoveAcademy(a)
    \/ \E q \in Registrars : CreateAcademy(q) \/ UpdateAcademy(q) \/ GiveUpAcademy(q)

TenantsSpec == TenantsInit /\ [][TenantsNext]_tenantVars

-----------------------------------------------------------------------------
TenantsTypeOK ==
    /\ academy \in [Academies -> AcademyRow]
    /\ registrar \in [Registrars -> Registrar]
    /\ unchecked \subseteq Academies

(* Two academies have one e-mail address only when one of them was given   *)
(* it by an academies endpoint, or while another request was about to give *)
(* it: one after the other, the super admin's requests keep addresses      *)
(* apart (createAcademy, updateAcademy, assertUnique).                     *)
AddressesApart ==
    \A a, b \in Academies \ unchecked :
        (a # b /\ Exists(a) /\ Exists(b) /\ academy[a].address # NoAddress) =>
            academy[a].address # academy[b].address
=============================================================================
