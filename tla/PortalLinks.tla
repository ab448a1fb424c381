---------------------------- MODULE PortalLinks ----------------------------
(***************************************************************************)
(* Which portal account sees which trainee, and which of its links is the  *)
(* primary one (backend/src/portal).  PortalAccounts has the same links    *)
(* without the primary flag and without updateLink.                        *)
(*                                                                         *)
(* createLink and updateLink clear the user's primary flag and save the    *)
(* link in one transaction; unique indexes make the save, and with it the  *)
(* clearing, fail.  updateLink saves a link it read before the             *)
(* transaction: relationship and flag are written as they were read and a  *)
(* link removed meanwhile comes back.  Two transactions of a user wait for *)
(* each other at the clearing, or the index refuses the second: each that  *)
(* clears is one step.                                                     *)
(*                                                                         *)
(* Left out: academies and branches, which only refuse a request;          *)
(* is_active, which hides a link from getMyPortal; GUARDIAN, which is      *)
(* treated like PARENT; what tells the roles of the staff apart.           *)
(***************************************************************************)
EXTENDS Persistence

CONSTANTS
    PortalUsers,
    PortalTrainees,
    LinkEditors     \* requests of updateLink that may run at the same time

VARIABLES
    roles,      \* roles of each user's memberships in the academy
    link,       \* the portal_trainee_links row of each user and trainee
    linkEdit    \* where each updateLink stands

linkVars == <<roles, link, linkEdit>>

Relationships == {"SELF", "PARENT"}
Flag == {"yes", "no"}
ClientRole == {"TRAINEE", "PARENT"}
PortalRole == ClientRole \cup {"STAFF"}

(* UQ_portal_links_user_trainee: one row for a user and a trainee, removed *)
(* or not.                                                                 *)
LinkRow == [state : {"none", "live", "removed"}, relationship : Relationships, primary : Flag]

(* The columns that an UPDATE of such a row writes. *)
LinkUpdate == [state : {"live", "kept"}, relationship : Relationships \cup {"kept"},
               primary : Flag \cup {"kept"}]

NoLinkEdit == [step |-> "idle"]
LinkEdit ==
    {NoLinkEdit}
    \cup [step : {"save"}, user : PortalUsers, trainee : PortalTrainees, read : LinkRow,
          role : PortalRole]
    \cup [step : {"write"}, user : PortalUsers, trainee : PortalTrainees, update : LinkUpdate]

LinksInit ==
    /\ roles = [u \in PortalUsers |-> {}]
    /\ link = [u \in PortalUsers |-> [t \in PortalTrainees |->
                  [state |-> "none", relationship |-> "PARENT", primary |-> "no"]]]
    /\ linkEdit = [q \in LinkEditors |-> NoLinkEdit]

-----------------------------------------------------------------------------
Live(l) == l.state = "live"
IsPrimary(l) == Live(l) /\ l.primary = "yes"
IsSelf(l) == Live(l) /\ l.relationship = "SELF"

(* updateLink: a trainee account is SELF, a parent account never; of the   *)
(* staff, whom only an approval can have linked, nothing is asked.         *)
Fits(role, relationship) ==
    /\ role = "TRAINEE" => relationship = "SELF"
    /\ role = "PARENT" => relationship # "SELF"

(* createLink refuses the staff besides. *)
Linkable(role, relationship) == role \in ClientRole /\ Fits(role, relationship)

(* UQ_portal_links_single_self_per_trainee, _single_primary_per_user *)
Indexed(table) ==
    /\ \A t \in PortalTrainees, u, v \in PortalUsers :
          IsSelf(table[u][t]) /\ IsSelf(table[v][t]) => u = v
    /\ \A u \in PortalUsers, t, s \in PortalTrainees :
          IsPrimary(table[u][t]) /\ IsPrimary(table[u][s]) => t = s

(* The other links of the user, when the one to be saved is to be primary: *)
(* update({ userId }, { isPrimary: false }).                               *)
Cleared(row, primary) ==
    IF primary = "yes" THEN [t \in PortalTrainees |-> [row[t] EXCEPT !.primary = "no"]] ELSE row

(* With the flag of the others cleared, if they are to be. *)
Saved(u, t, relationship, primary, clear) ==
    [link EXCEPT ![u] = [Cleared(@, clear) EXCEPT
        ![t] = [state |-> "live", relationship |-> relationship, primary |-> primary]]]

-----------------------------------------------------------------------------
(* UsersService.create, createManager: an account of a role. *)
CreateAccount(u, role) ==
    /\ roles[u] = {}
    /\ roles' = [roles EXCEPT ![u] = {role}]
    /\ UNCHANGED <<link, linkEdit>>

(* createTraineeAccountLink: a new account with its SELF link, in one      *)
(* transaction; refused when the trainee has one.                          *)
CreateTraineeAccountLink(u, t) ==
    /\ roles[u] = {}
    /\ roles' = [roles EXCEPT ![u] = {"TRAINEE"}]
    /\ link' = Saved(u, t, "SELF", "yes", "no")
    /\ Indexed(link')
    /\ UNCHANGED linkEdit

(* Slip: the flag is cleared with the repository and not with the          *)
(* transaction's manager; it stays cleared when the insert fails.          *)
CreateLinkPieces(u, t, relationship, primary) ==
    /\ \E role \in roles[u] : Linkable(role, relationship)
    /\ LET table == Saved(u, t, relationship, primary, primary)
       IN  link' = IF link[u][t].state = "none" /\ Indexed(table) THEN table
                   ELSE [link EXCEPT ![u] = Cleared(@, primary)]
    /\ UNCHANGED <<roles, linkEdit>>

(* createLink.  find takes whichever membership comes first. *)
CreateLink(u, t, relationship, primary) ==
    /\ \E role \in roles[u] : Linkable(role, relationship)
    /\ link[u][t].state = "none"
    /\ link' = Saved(u, t, relationship, primary, primary)
    /\ Indexed(link')
    /\ UNCHANGED <<roles, linkEdit>>

(* updateLink: findLink and findProfileById. *)
ReadLink(q, u, t) ==
    /\ linkEdit[q].step = "idle"
    /\ Live(link[u][t])
    /\ \E role \in roles[u] :
          linkEdit' = [linkEdit EXCEPT ![q] = [step |-> "save", user |-> u, trainee |-> t,
                                              read |-> link[u][t], role |-> role]]
    /\ UNCHANGED <<roles, link>>

(* The link that updateLink saves: the one read, with the dto's values.    *)
Merged(e, relationship, primary) == [e.read EXCEPT !.relationship = relationship, !.primary = primary]

(* Slip: the relationship is not compared with the role. *)
SaveUnchecked(q, relationship) ==
    LET e == linkEdit[q]
    IN  /\ e.step = "save"
        /\ link' = Saved(e.user, e.trainee, relationship, "yes", "yes")
        /\ Indexed(link')
        /\ linkEdit' = [linkEdit EXCEPT ![q] = NoLinkEdit]
        /\ UNCHANGED roles

(* updateLink with isPrimary: clearing the flags has locked the user's     *)
(* links, this one among them.                                             *)
SaveAsPrimary(q, relationship) ==
    LET e == linkEdit[q]
    IN  /\ e.step = "save"
        /\ Fits(e.role, relationship)
        /\ link' = Saved(e.user, e.trainee, relationship, "yes", "yes")
        /\ Indexed(link')
        /\ linkEdit' = [linkEdit EXCEPT ![q] = NoLinkEdit]
        /\ UNCHANGED roles

(* updateLink with isPrimary false or none at all: save selects the row ... *)
SelectLink(q, relationship, asked) ==
    LET e == linkEdit[q]
    IN  /\ e.step = "save"
        /\ Fits(e.role, relationship)
        /\ linkEdit' = [linkEdit EXCEPT ![q] =
              [step |-> "write", user |-> e.user, trainee |-> e.trainee,
               update |-> Differing(
                  Merged(e, relationship, IF asked = "none" THEN e.read.primary ELSE asked),
                  link[e.user][e.trainee])]]
        /\ UNCHANGED <<roles, link>>

(* ... and writes what differs. *)
WriteLink(q) ==
    LET e == linkEdit[q]
    IN  /\ e.step = "write"
        /\ link' = [link EXCEPT ![e.user][e.trainee] = Updated(@, e.update)]
        /\ Indexed(link')
        /\ linkEdit' = [linkEdit EXCEPT ![q] = NoLinkEdit]
        /\ UNCHANGED roles

(* A refusal, a conflict (the transaction is rolled back) or a crash. *)
RefuseLink(q) ==
    /\ linkEdit[q].step # "idle"
    /\ linkEdit' = [linkEdit EXCEPT ![q] = NoLinkEdit]
    /\ UNCHANGED <<roles, link>>

(* removeLink: softRemove writes nothing but deleted_at. *)
RemoveLink(u, t) ==
    /\ Live(link[u][t])
    /\ link' = [link EXCEPT ![u][t].state = "removed"]
    /\ UNCHANGED <<roles, linkEdit>>

(* approve of TraineeInvitations: the account becomes a trainee's, other   *)
(* SELF links of the trainee are removed, the account's own is inserted or *)
(* comes back, with its relationship, as primary.  The flag of the user's  *)
(* other links is not cleared: then the index refuses.                     *)
ApproveLink(u, t) ==
    /\ roles' = [roles EXCEPT ![u] = @ \cup {"TRAINEE"}]
    /\ link' = [v \in PortalUsers |-> [s \in PortalTrainees |->
            LET l == link[v][s]
            IN  CASE v = u /\ s = t ->
                       [state |-> "live", primary |-> "yes",
                        relationship |-> IF l.state = "none" THEN "SELF" ELSE l.relationship]
                  [] v # u /\ s = t /\ IsSelf(l) -> [l EXCEPT !.state = "removed"]
                  [] OTHER -> l]]
    /\ Indexed(link')
    /\ UNCHANGED linkEdit

LinksNext ==
    \/ \E u \in PortalUsers, role \in PortalRole : CreateAccount(u, role)
    \/ \E u \in PortalUsers, t \in PortalTrainees :
        \/ CreateTraineeAccountLink(u, t)
        \/ \E relationship \in Relationships, primary \in Flag :
              CreateLink(u, t, relationship, primary)
        \/ RemoveLink(u, t)
        \/ ApproveLink(u, t)
        \/ \E q \in LinkEditors : ReadLink(q, u, t)
    \/ \E q \in LinkEditors :
        \/ \E relationship \in Relationships :
              \/ SaveAsPrimary(q, relationship)
              \/ \E asked \in {"no", "none"} : SelectLink(q, relationship, asked)
        \/ WriteLink(q)
        \/ RefuseLink(q)

LinksSpec == LinksInit /\ [][LinksNext]_linkVars

-----------------------------------------------------------------------------
LinksTypeOK ==
    /\ roles \in [PortalUsers -> SUBSET PortalRole]
    /\ link \in [PortalUsers -> [PortalTrainees -> LinkRow]]
    /\ linkEdit \in [LinkEditors -> LinkEdit]

(* Whoever is linked has a client's account, as a trainee and not as a     *)
(* parent or the other way round unless the account is the staff's too,    *)
(* whatever stale link an updateLink saves, whatever removed link it       *)
(* brings back and whatever row an approval meets (portal.service.ts,      *)
(* createLink and updateLink).                                             *)
LinkFitsAccount ==
    \A u \in PortalUsers, t \in PortalTrainees :
        link[u][t].state # "none" =>
            /\ roles[u] \cap ClientRole # {}
            /\ \E role \in roles[u] : Fits(role, link[u][t].relationship)

(* A request for another primary link either makes it or leaves the one    *)
(* there is (HAYMCLUB_PORTAL_PRIMARY_TRANSACTION_V1): a link stops being   *)
(* primary only when another becomes it, when it is removed, or by an      *)
(* update of this very link.                                               *)
PrimarySurvives ==
    [][\A u \in PortalUsers, t \in PortalTrainees :
          (IsPrimary(link[u][t]) /\ ~IsPrimary(link'[u][t])) =>
              \/ \E s \in PortalTrainees : IsPrimary(link'[u][s])
              \/ link'[u][t].state = "removed"
              \/ \E q \in LinkEditors :
                    /\ linkEdit[q].step = "write" /\ linkEdit'[q].step = "idle"
                    /\ linkEdit[q].user = u /\ linkEdit[q].trainee = t]_linkVars
=============================================================================
