---------------------------- MODULE Provisioning ----------------------------
(***************************************************************************)
(* How branches of an academy and accounts come into being                 *)
(* (backend/src/branches, users.create and                                 *)
(* super-admin-academy-management, createManager and ensureMainBranch).    *)
(*                                                                         *)
(* createManager finds or creates a branch, then inserts the user and the  *)
(* membership, in one transaction.  Any row of the academy is taken for    *)
(* its branch, a removed one too.                                          *)
(*                                                                         *)
(* Left out: the tables' columns, which the service looks up before it     *)
(* writes; names and codes, which a unique constraint keeps apart (a       *)
(* conflict is GiveUp), but for the code of the main branch; roles, of     *)
(* which one, SUPER_ADMIN, needs no academy.                               *)
(***************************************************************************)

CONSTANTS
    Tenant,        \* academies
    Offices,       \* identifiers of branches rows
    Staff,         \* e-mail addresses, and so identifiers, of users rows
    Operators      \* requests that may run at the same time

ASSUME ProvisioningAssumption == "none" \notin Tenant \cup Offices /\ "new" \notin Offices

VARIABLES
    office,     \* the branches rows: state, academy, and whether the code is main-<academy>
    staff,      \* the users rows
    membership, \* the academy_memberships rows, by user; academy and branch may be NULL
    operator    \* where each request stands

provisioningVars == <<office, staff, membership, operator>>

Nobody == "none"
NoOffice == [state |-> "none"]
OfficeRow == {NoOffice} \cup [state : {"live", "removed"}, academy : Tenant, main : {"yes", "no"}]
NoMembership == [state |-> "none"]
Membership ==
    {NoMembership}
    \cup [state : {"row"}, academy : Tenant \cup {Nobody}, office : Offices \cup {Nobody}]

MemberOf(a, b) == [state |-> "row", academy |-> a, office |-> b]

NoOperator == [step |-> "idle"]
Operator ==
    {NoOperator}
    \cup [step : {"manager"}, academy : Tenant, user : Staff, office : Offices \cup {"new"}]

ProvisioningInit ==
    /\ office = [b \in Offices |-> NoOffice]
    /\ staff = {}
    /\ membership = [u \in Staff |-> NoMembership]
    /\ operator = [q \in Operators |-> NoOperator]

-----------------------------------------------------------------------------
OfficesOf(a) == {b \in Offices : office[b].state # "none" /\ office[b].academy = a}

MainTaken(a) == \E b \in OfficesOf(a) : office[b].main = "yes"

(* BranchesService.create *)
CreateBranch(b, a) ==
    /\ office[b].state = "none"
    /\ office' = [office EXCEPT ![b] = [state |-> "live", academy |-> a, main |-> "no"]]
    /\ UNCHANGED <<staff, membership, operator>>

(* BranchesService.remove *)
RemoveBranch(b) ==
    /\ office[b].state = "live"
    /\ office' = [office EXCEPT ![b].state = "removed"]
    /\ UNCHANGED <<staff, membership, operator>>

(* ensureMainBranch: any branch of the academy will do, a removed one too; *)
(* the code is unique, a second main branch a conflict.                    *)
EnsureMainBranch(b, a) ==
    /\ OfficesOf(a) = {}
    /\ office[b].state = "none"
    /\ office' = [office EXCEPT ![b] = [state |-> "live", academy |-> a, main |-> "yes"]]
    /\ UNCHANGED <<staff, membership, operator>>

(* createManager: the address is free, and there is a branch or will be. *)
ReadForManager(q, a, u) ==
    /\ operator[q].step = "idle"
    /\ u \notin staff
    /\ \E b \in IF OfficesOf(a) = {} THEN {"new"} ELSE OfficesOf(a) :
          operator' = [operator EXCEPT ![q] = [step |-> "manager", academy |-> a, user |-> u,
                                              office |-> b]]
    /\ UNCHANGED <<office, staff, membership>>

(* Slip: the user is inserted outside of the transaction. *)
InsertManagerPieces(q, b) ==
    LET o == operator[q]
        where == IF o.office = "new" THEN b ELSE o.office
    IN  /\ o.step = "manager" /\ o.user \notin staff
        /\ staff' = staff \cup {o.user}
        /\ IF o.office = "new" /\ (MainTaken(o.academy) \/ office[b].state # "none")
           THEN UNCHANGED <<office, membership>>
           ELSE /\ office' = IF o.office = "new"
                             THEN [office EXCEPT ![b] = [state |-> "live", academy |-> o.academy,
                                                         main |-> "yes"]]
                             ELSE office
                /\ membership' = [membership EXCEPT ![o.user] =
                                     MemberOf(o.academy, where)]
        /\ operator' = [operator EXCEPT ![q] = NoOperator]

(* createManager: branch, user and membership are committed together.      *)
(* Another main branch or another user with the address refuse them all.   *)
InsertManager(q, b) ==
    LET o == operator[q]
    IN  /\ o.step = "manager" /\ o.user \notin staff
        /\ IF o.office = "new"
           THEN /\ office[b].state = "none" /\ ~MainTaken(o.academy)
                /\ office' = [office EXCEPT ![b] = [state |-> "live", academy |-> o.academy,
                                                    main |-> "yes"]]
           ELSE b = o.office /\ UNCHANGED office
        /\ staff' = staff \cup {o.user}
        /\ membership' = [membership EXCEPT ![o.user] = MemberOf(o.academy, b)]
        /\ operator' = [operator EXCEPT ![q] = NoOperator]

(* UsersService.create: a super admin may have no academy.  A branch must  *)
(* be live, and of the academy if there is one.                            *)
CreateUser(u, a, b) ==
    /\ u \notin staff
    /\ b # Nobody => office[b].state = "live" /\ a \in {Nobody, office[b].academy}
    /\ staff' = staff \cup {u}
    /\ membership' = [membership EXCEPT ![u] = MemberOf(a, b)]
    /\ UNCHANGED <<office, operator>>

(* A refusal, a conflict, a database error or a crash. *)
GiveUp(q) ==
    /\ operator[q].step # "idle"
    /\ operator' = [operator EXCEPT ![q] = NoOperator]
    /\ UNCHANGED <<office, staff, membership>>

ProvisioningNext ==
    \/ \E b \in Offices, a \in Tenant : CreateBranch(b, a) \/ EnsureMainBranch(b, a)
    \/ \E b \in Offices : RemoveBranch(b)
    \/ \E u \in Staff, a \in Tenant \cup {Nobody}, b \in Offices \cup {Nobody} :
        CreateUser(u, a, b)
    \/ \E q \in Operators, u \in Staff, a \in Tenant : ReadForManager(q, a, u)
    \/ \E q \in Operators :
        \/ \E b \in Offices : InsertManager(q, b)
        \/ GiveUp(q)

ProvisioningSpec == ProvisioningInit /\ [][ProvisioningNext]_provisioningVars

-----------------------------------------------------------------------------
ProvisioningTypeOK ==
    /\ office \in [Offices -> OfficeRow]
    /\ staff \subseteq Staff
    /\ membership \in [Staff -> Membership]
    /\ operator \in [Operators -> Operator]

(* Nobody has an account without a membership, and a membership of an      *)
(* academy names a branch of this academy or none: two createManager that  *)
(* both mean to create the main branch, of one academy or of two, leave no *)
(* half of an account behind, nor one in the branch of another academy     *)
(* (createManager, users.create).                                          *)
AccountsComplete ==
    \A u \in staff :
        LET m == membership[u]
        IN  /\ m # NoMembership
            /\ m.academy # Nobody /\ m.office # Nobody => m.office \in OfficesOf(m.academy)
=============================================================================
