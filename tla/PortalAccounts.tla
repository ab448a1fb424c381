--------------------------- MODULE PortalAccounts ---------------------------
(***************************************************************************)
(* A trainee's portal account: the approval, rejection and re-sending of   *)
(* the invitation (backend/src/trainee-invitations) and the password reset *)
(* links it hands out (backend/src/password-reset), with the updates of a  *)
(* trainee, an account and a link that run beside them.                    *)
(*                                                                         *)
(* Each request is a process.  A statement outside dataSource.transaction  *)
(* commits by itself; approve, the storing half of forgotPassword and      *)
(* resetPassword are transactions: a statement sees what is committed when *)
(* it begins, and what a transaction writes appears when it commits.  A    *)
(* request that holds a row lock remembers the row: user is the users row  *)
(* it has locked or written, tok the token a reset has locked, seen the    *)
(* tokens its UPDATE writes.                                               *)
(* users.email is unique, so an account is its e-mail address.  One unit   *)
(* of time is the 60 seconds forgotPassword throttles for.                 *)
(***************************************************************************)
EXTENDS Integers

CONSTANTS
    Trainees,
    Emails,       \* addresses; one users row per address at most
    Registered,   \* addresses that have an account from the start (parents, staff)
    Tokens,       \* identifiers of auth_password_reset_tokens rows
    Requests,
    TokenLife,    \* getExpiresMinutes()
    InviteLife,   \* invitationMinutes
    MaxTime,      \* bound: last instant of the clock
    None          \* SQL NULL

ASSUME PortalAssumption ==
    /\ Registered \subseteq Emails
    /\ TokenLife \in Nat /\ InviteLife \in Nat /\ MaxTime \in Nat
    /\ None \notin Trainees \cup Emails \cup Tokens \cup Int

VARIABLES
    now,       \* NOW() and Date.now()
    email,     \* trainees.email
    portal,    \* trainees.portal_account_status, portal_invitation_expires_at
    account,   \* users.status by address; "ABSENT" without a row
    rel,       \* relationship of the link row of (account, trainee); "NONE" without a row
    live,      \* link rows whose deleted_at is null
    token,     \* token rows
    req,       \* where each running request stands
    mailed,    \* history: tokens whose link has left in a mail
    uses,      \* history: passwords set with each token
    approved   \* history: live links that an approval has created or revived

vars == <<now, email, portal, account, rel, live, token, req, mailed, uses, approved>>
rows == <<email, portal, account, rel, live, token>>

-----------------------------------------------------------------------------
Times == 0..MaxTime
PortalStatus == {"NOT_CREATED", "PENDING_APPROVAL", "INVITATION_SENT", "ACTIVE", "EXPIRED", "REJECTED"}
Portal == [status : PortalStatus, expires : 0..(MaxTime + InviteLife) \cup {None}]
Token == [state : {"ABSENT", "UNUSED", "USED", "DELETED"}, email : Emails \cup {None},
          created : Times, expires : 0..(MaxTime + TokenLife)]
Resetting == {"reset", "password", "retire", "activate"}
Step == {"idle", "approve", "grant", "insert", "lookup", "mark", "store", "mail",
         "undo", "resent", "save"} \cup Resetting
Request == [step : Step, caller : {"none", "forgot", "approve", "resend"},
            trainee : Trainees \cup {None}, email : Emails \cup {None},
            user : Emails \cup {None}, tok : Tokens \cup {None},
            seen : SUBSET Tokens, known : SUBSET Tokens,
            linked : SUBSET Trainees, was : Portal]

Pending == [status |-> "PENDING_APPROVAL", expires |-> None]
Active == [status |-> "ACTIVE", expires |-> None]
Rejected == [status |-> "REJECTED", expires |-> None]
NoToken == [state |-> "ABSENT", email |-> None, created |-> 0, expires |-> 0]
Idle == [step |-> "idle", caller |-> "none", trainee |-> None, email |-> None,
         user |-> None, tok |-> None, seen |-> {}, known |-> {}, linked |-> {},
         was |-> Pending]

Init ==
    /\ now = 0
    /\ email \in [Trainees -> Emails]
    /\ portal = [t \in Trainees |-> Pending]
    /\ account = [e \in Emails |-> IF e \in Registered THEN "ACTIVE" ELSE "ABSENT"]
    /\ rel = [p \in Emails \X Trainees |-> "NONE"]
    /\ live = {}
    /\ token = [k \in Tokens |-> NoToken]
    /\ req = [r \in Requests |-> Idle]
    /\ mailed = {}
    /\ uses = [k \in Tokens |-> 0]
    /\ approved = {}

-----------------------------------------------------------------------------
(* Slip: the users row is read without FOR UPDATE. *)
NeverLocked(e) == FALSE

(* SELECT ... FROM users ... FOR UPDATE, or the row just inserted, until   *)
(* approve commits.                                                        *)
UserLocked(e) == \E r \in Requests : req[r].step = "grant" /\ req[r].user = e

(* That, or a users row with a new password, until resetPassword commits:  *)
(* the foreign keys of tokens and links do not wait for that one.          *)
UserHeld(e) == \E r \in Requests : req[r].user = e

(* Slip: the token row is read without FOR UPDATE. *)
TokenUnlocked(k) == FALSE

(* SELECT ... FROM auth_password_reset_tokens ... FOR UPDATE, and the rows *)
(* the second UPDATE has written, until resetPassword commits.             *)
TokenLocked(k) ==
    \E r \in Requests :
        \/ req[r].step \in Resetting /\ req[r].tok = k
        \/ req[r].step = "activate" /\ k \in req[r].seen

Unused(e) == {k \in Tokens : token[k].state = "UNUSED" /\ token[k].email = e}

Recent(k) == token[k].created > now - 1

(* Slip: only the token that was presented is marked used. *)
RetiredOnlyItself(r) == {req[r].tok}

(* Slip: the token that was presented is not marked used. *)
RetiredAllButItself(r) == req[r].seen

(* The rows resetPassword marks used: its own and the unused ones beside it. *)
Retired(r) == {req[r].tok} \cup req[r].seen

(* Slip: the invitation lasts a minute more than invitationMinutes. *)
InvitedTooLong == [status |-> "INVITATION_SENT", expires |-> now + InviteLife + 1]

Invited == [status |-> "INVITATION_SENT", expires |-> now + InviteLife]

(* refreshExpiredStatuses, over the whole table. *)
Lapsed(t) ==
    /\ portal[t].status = "INVITATION_SENT"
    /\ portal[t].expires # None
    /\ portal[t].expires < now

Refreshed ==
    [t \in Trainees |->
        IF Lapsed(t) THEN [status |-> "EXPIRED", expires |-> portal[t].expires] ELSE portal[t]]

Goto(r, step) == req' = [req EXCEPT ![r].step = step]
Leave(r) == req' = [req EXCEPT ![r] = Idle]

(* forgotPassword returns to whoever called it. *)
Return(r) == IF req[r].caller = "resend" THEN Goto(r, "resent") ELSE Leave(r)

-----------------------------------------------------------------------------
(* approve up to its transaction: getTrainee refreshes the statuses, then  *)
(* reads the row.                                                          *)
ApproveBegin(r, t) ==
    /\ req[r].step = "idle"
    /\ Refreshed[t].status # "ACTIVE"
    /\ portal' = Refreshed
    /\ req' = [req EXCEPT ![r] =
                  [Idle EXCEPT !.step = "approve", !.caller = "approve",
                               !.trainee = t, !.email = email[t]]]
    /\ UNCHANGED <<now, email, account, rel, live, token, mailed, uses, approved>>

(* An approval, a resend or a lookup that is refused has refreshed all the same. *)
Refuse ==
    /\ portal' = Refreshed
    /\ UNCHANGED <<now, email, account, rel, live, token, req, mailed, uses, approved>>

LinkedElsewhere(e, t) == \E u \in Trainees \ {t} : <<e, u>> \in live

(* The transaction finds an account: it locks the row and looks for links  *)
(* to other trainees, or there is none yet.                                *)
ApproveLock(r) ==
    LET e == req[r].email
        t == req[r].trainee
    IN  /\ req[r].step = "approve"
        /\ account[e] # "ABSENT"
        /\ ~ UserHeld(e)
        /\ IF LinkedElsewhere(e, t)
           THEN Leave(r)
           ELSE req' = [req EXCEPT ![r] = [@ EXCEPT !.step = "grant", !.user = e]]
        /\ UNCHANGED <<now, rows, mailed, uses, approved>>

ApproveNoAccount(r) ==
    /\ req[r].step = "approve"
    /\ account[req[r].email] = "ABSENT"
    /\ Goto(r, "insert")
    /\ UNCHANGED <<now, rows, mailed, uses, approved>>

(* INSERT INTO users ... SELECT ... LOWER(email) FROM trainees: the address *)
(* is the one the row has now.  users.email is unique: the INSERT waits for *)
(* one of the same address that is not committed.                          *)
ApproveInsert(r) ==
    LET e == email[req[r].trainee]
    IN  /\ req[r].step = "insert"
        /\ account[e] = "ABSENT"
        /\ ~ UserHeld(e)
        /\ req' = [req EXCEPT ![r] = [@ EXCEPT !.step = "grant", !.user = e]]
        /\ UNCHANGED <<now, rows, mailed, uses, approved>>

(* That address has an account, inserted by another request or long before. *)
ApproveDuplicate(r) ==
    /\ req[r].step = "insert"
    /\ account[email[req[r].trainee]] # "ABSENT"
    /\ Leave(r)
    /\ UNCHANGED <<now, rows, mailed, uses, approved>>

(* The other writes of approve and its commit: the account, the SELF links *)
(* of other accounts soft-deleted, this link created or revived, the       *)
(* status.  forgotPassword is then called with the address read at first.  *)
ApproveCommit(r) ==
    LET e == req[r].user
        t == req[r].trainee
        stale == {p \in live : p[1] # e /\ p[2] = t /\ rel[p] = "SELF"}
    IN  /\ req[r].step = "grant"
        /\ account' = [account EXCEPT ![e] = "ACTIVE"]
        /\ live' = (live \ stale) \cup {<<e, t>>}
        /\ rel' = [rel EXCEPT ![<<e, t>>] = IF @ = "NONE" THEN "SELF" ELSE @]
        /\ approved' = (approved \ stale) \cup {<<e, t>>}
        /\ portal' = [portal EXCEPT ![t] = Invited]
        /\ req' = [req EXCEPT ![r] = [@ EXCEPT !.step = "lookup", !.user = None]]
        /\ UNCHANGED <<now, email, token, mailed, uses>>

(* forgotPassword failed under approve: the compensating update. *)
ApproveUndo(r) ==
    /\ req[r].step = "undo"
    /\ portal' = [portal EXCEPT ![req[r].trainee] = Pending]
    /\ Leave(r)
    /\ UNCHANGED <<now, email, account, rel, live, token, mailed, uses, approved>>

Reject(t) ==
    /\ portal' = [Refreshed EXCEPT ![t] = Rejected]
    /\ UNCHANGED <<now, email, account, rel, live, token, req, mailed, uses, approved>>

(* resend with an account; without one it is approve. *)
ResendBegin(r, t) ==
    /\ req[r].step = "idle"
    /\ Refreshed[t].status # "ACTIVE"
    /\ account[email[t]] # "ABSENT"
    /\ portal' = Refreshed
    /\ req' = [req EXCEPT ![r] =
                  [Idle EXCEPT !.step = "lookup", !.caller = "resend",
                               !.trainee = t, !.email = email[t]]]
    /\ UNCHANGED <<now, email, account, rel, live, token, mailed, uses, approved>>

ResendCommit(r) ==
    /\ req[r].step = "resent"
    /\ portal' = [portal EXCEPT ![req[r].trainee] = Invited]
    /\ Leave(r)
    /\ UNCHANGED <<now, email, account, rel, live, token, mailed, uses, approved>>

-----------------------------------------------------------------------------
(* forgotPassword, by itself or on behalf of approve and resend. *)
ForgotBegin(r, e) ==
    /\ req[r].step = "idle"
    /\ req' = [req EXCEPT ![r] =
                  [Idle EXCEPT !.step = "lookup", !.caller = "forgot", !.email = e]]
    /\ UNCHANGED <<now, rows, mailed, uses, approved>>

ForgotLookup(r) ==
    LET e == req[r].email
    IN  /\ req[r].step = "lookup"
        /\ IF account[e] = "ACTIVE" /\ ~ (\E k \in Unused(e) : Recent(k))
           THEN Goto(r, "mark")
           ELSE Return(r)
        /\ UNCHANGED <<now, rows, mailed, uses, approved>>

(* The UPDATE sees the tokens committed when it starts ...                 *)
ForgotMark(r) ==
    /\ req[r].step = "mark"
    /\ req' = [req EXCEPT ![r] = [@ EXCEPT !.step = "store", !.seen = Unused(req[r].email)]]
    /\ UNCHANGED <<now, rows, mailed, uses, approved>>

(* ... and takes effect with the INSERT; it waits for token rows a reset    *)
(* has locked, the foreign key for a users row an approval has locked.      *)
ForgotStore(r, k) ==
    LET e == req[r].email
    IN  /\ req[r].step = "store"
        /\ token[k].state = "ABSENT"
        /\ \A j \in req[r].seen : ~ TokenLocked(j)
        /\ ~ UserLocked(e)
        /\ token' = [j \in Tokens |->
                IF j = k
                THEN [state |-> "UNUSED", email |-> e, created |-> now, expires |-> now + TokenLife]
                ELSE IF j \in req[r].seen /\ token[j].state = "UNUSED"
                THEN [token[j] EXCEPT !.state = "USED"]
                ELSE token[j]]
        /\ req' = [req EXCEPT ![r] = [@ EXCEPT !.step = "mail", !.tok = k, !.seen = {}]]
        /\ UNCHANGED <<now, email, portal, account, rel, live, mailed, uses, approved>>

ForgotMail(r) ==
    /\ req[r].step = "mail"
    /\ mailed' = mailed \cup {req[r].tok}
    /\ Return(r)
    /\ UNCHANGED <<now, rows, uses, approved>>

(* sendPasswordResetEmail throws, after delivering or not: the row is      *)
(* deleted and the error goes no further.                                  *)
ForgotMailFails(r) ==
    /\ req[r].step = "mail"
    /\ ~ TokenLocked(req[r].tok)
    /\ mailed' \in {mailed, mailed \cup {req[r].tok}}
    /\ token' = [token EXCEPT ![req[r].tok].state = "DELETED"]
    /\ Return(r)
    /\ UNCHANGED <<now, email, portal, account, rel, live, uses, approved>>

(* A database error, or buildResetUrl without a base address, ends forgotPassword. *)
ForgotThrows(r) ==
    /\ req[r].step \in {"lookup", "mark", "store", "mail"}
    /\ IF req[r].caller = "approve" THEN Goto(r, "undo") ELSE Leave(r)
    /\ UNCHANGED <<now, rows, mailed, uses, approved>>

(* resetPassword reads and locks the token, then hashes the new password. *)
ResetBegin(r, k) ==
    /\ req[r].step = "idle"
    /\ k \in mailed
    /\ token[k].state = "UNUSED"
    /\ token[k].expires >= now
    /\ ~ TokenLocked(k)
    /\ req' = [req EXCEPT ![r] = [Idle EXCEPT !.step = "reset", !.tok = k]]
    /\ UNCHANGED <<now, rows, mailed, uses, approved>>

(* UPDATE users ... WHERE status = 'ACTIVE' RETURNING id.  It waits for     *)
(* whoever holds the row.  An account that is not ACTIVE keeps its         *)
(* password, and the transaction goes on: the driver answers such an       *)
(* UPDATE with [rows, count], whose length is never 0.                     *)
ResetPassword(r) ==
    LET e == token[req[r].tok].email
    IN  /\ req[r].step = "reset"
        /\ \/ /\ account[e] = "ACTIVE" /\ ~ UserHeld(e)
              /\ req' = [req EXCEPT ![r] =
                            [@ EXCEPT !.step = "password", !.user = e, !.known = mailed]]
           \/ account[e] # "ACTIVE" /\ Goto(r, "password")
        /\ UNCHANGED <<now, rows, mailed, uses, approved>>

(* Its own token is marked used; the UPDATE of the others begins and sees  *)
(* the unused tokens committed by now ...                                  *)
ResetRetire(r) ==
    LET k == req[r].tok
    IN  /\ req[r].step = "password"
        /\ req' = [req EXCEPT ![r] =
                      [@ EXCEPT !.step = "retire", !.seen = Unused(token[k].email) \ {k}]]
        /\ UNCHANGED <<now, rows, mailed, uses, approved>>

(* ... waits for those another request has locked and writes what is still *)
(* unused; then the UPDATE of the trainees reads the account's links.  Two *)
(* resets that wait for each other are a deadlock, which the server breaks *)
(* (Stop).                                                                 *)
ResetActivate(r) ==
    LET e == token[req[r].tok].email
    IN  /\ req[r].step = "retire"
        /\ \A j \in req[r].seen : ~ TokenLocked(j)
        /\ req' = [req EXCEPT ![r] =
                      [@ EXCEPT !.step = "activate", !.seen = req[r].seen \cap Unused(e),
                                !.linked = {t \in Trainees : <<e, t>> \in live}]]
        /\ UNCHANGED <<now, rows, mailed, uses, approved>>

(* COMMIT: the tokens, the password, the trainees. *)
ResetCommit(r) ==
    /\ req[r].step = "activate"
    /\ token' = [j \in Tokens |->
                    IF j \in Retired(r) THEN [token[j] EXCEPT !.state = "USED"] ELSE token[j]]
    /\ uses' = IF req[r].user = None THEN uses ELSE [uses EXCEPT ![req[r].tok] = @ + 1]
    /\ portal' = [t \in Trainees |-> IF t \in req[r].linked THEN Active ELSE portal[t]]
    /\ Leave(r)
    /\ UNCHANGED <<now, email, account, rel, live, mailed, approved>>

-----------------------------------------------------------------------------
(* TraineesService.update: read the row, merge, save.  save writes every   *)
(* column that differs from what was read, the portal columns included.    *)
UpdateTraineeBegin(r, t) ==
    /\ req[r].step = "idle"
    /\ req' = [req EXCEPT ![r] =
                  [Idle EXCEPT !.step = "save", !.trainee = t, !.was = portal[t]]]
    /\ UNCHANGED <<now, rows, mailed, uses, approved>>

UpdateTraineeSave(r, e) ==
    /\ req[r].step = "save"
    /\ email' = [email EXCEPT ![req[r].trainee] = e]
    /\ portal' = [portal EXCEPT ![req[r].trainee] = req[r].was]
    /\ Leave(r)
    /\ UNCHANGED <<now, account, rel, live, token, mailed, uses, approved>>

(* SuperAdminManagementService.updateUserStatus. *)
UpdateUserStatus(e) ==
    /\ account[e] # "ABSENT"
    /\ ~ UserHeld(e)
    /\ \E s \in {"ACTIVE", "BLOCKED"} : account' = [account EXCEPT ![e] = s]
    /\ UNCHANGED <<now, email, portal, rel, live, token, req, mailed, uses, approved>>

(* PortalService.createLink: a pair has one row for ever, a trainee one    *)
(* live SELF link; the foreign key waits for a locked account.             *)
CreateLink(e, t) ==
    /\ account[e] # "ABSENT"
    /\ ~ UserLocked(e)
    /\ rel[<<e, t>>] = "NONE"
    /\ \E kind \in {"SELF", "PARENT"} :
        /\ kind = "SELF" => \A p \in live : p[2] = t => rel[p] # "SELF"
        /\ rel' = [rel EXCEPT ![<<e, t>>] = kind]
    /\ live' = live \cup {<<e, t>>}
    /\ UNCHANGED <<now, email, portal, account, token, req, mailed, uses, approved>>

RemoveLink(p) ==
    /\ p \in live
    /\ live' = live \ {p}
    /\ approved' = approved \ {p}
    /\ UNCHANGED <<now, email, portal, account, rel, token, req, mailed, uses>>

(* A process dies or the server aborts its transaction. *)
Stop(r) ==
    /\ req[r].step # "idle"
    /\ Leave(r)
    /\ UNCHANGED <<now, rows, mailed, uses, approved>>

Tick ==
    /\ now < MaxTime
    /\ now' = now + 1
    /\ UNCHANGED <<rows, req, mailed, uses, approved>>

-----------------------------------------------------------------------------
Approve(r) == ApproveLock(r) \/ ApproveNoAccount(r) \/ ApproveInsert(r) \/ ApproveDuplicate(r) \/ ApproveCommit(r) \/ ApproveUndo(r)
Forgot(r) == ForgotLookup(r) \/ ForgotMark(r) \/ (\E k \in Tokens : ForgotStore(r, k)) \/ ForgotMail(r) \/ ForgotMailFails(r) \/ ForgotThrows(r)
Reset(r) == (\E k \in Tokens : ResetBegin(r, k)) \/ ResetPassword(r) \/ ResetRetire(r) \/ ResetActivate(r) \/ ResetCommit(r)

Next ==
    \/ \E r \in Requests :
        \/ \E t \in Trainees : ApproveBegin(r, t) \/ ResendBegin(r, t) \/ UpdateTraineeBegin(r, t)
        \/ Approve(r)
        \/ ResendCommit(r)
        \/ \E e \in Emails : ForgotBegin(r, e) \/ UpdateTraineeSave(r, e)
        \/ Forgot(r)
        \/ Reset(r)
        \/ Stop(r)
    \/ Refuse
    \/ \E t \in Trainees : Reject(t)
    \/ \E e \in Emails : UpdateUserStatus(e)
    \/ \E p \in Emails \X Trainees : CreateLink(p[1], p[2]) \/ RemoveLink(p)
    \/ Tick

Spec == Init /\ [][Next]_vars

-----------------------------------------------------------------------------
(* Every variable keeps its type. *)
TypeOK ==
    /\ now \in Times
    /\ email \in [Trainees -> Emails]
    /\ portal \in [Trainees -> Portal]
    /\ account \in [Emails -> {"ABSENT", "ACTIVE", "BLOCKED"}]
    /\ rel \in [Emails \X Trainees -> {"NONE", "SELF", "PARENT"}]
    /\ live \subseteq Emails \X Trainees
    /\ token \in [Tokens -> Token]
    /\ req \in [Requests -> Request]
    /\ mailed \subseteq Tokens
    /\ uses \in [Tokens -> Nat]
    /\ approved \subseteq Emails \X Trainees

(* A reset link sets a password once, however many requests present it at  *)
(* the same time and whatever else retires tokens meanwhile                *)
(* (resetPassword).                                                        *)
LinkWorksOnce == \A k \in Tokens : uses[k] <= 1

(* When a reset commits its password, no link of the account that had left *)
(* in a mail when the password was written can set another: resetPassword  *)
(* retires them all, also the second one that two simultaneous             *)
(* forgotPassword requests leave, and in spite of the requests and resets  *)
(* that retire, store and mail tokens between its statements.              *)
ResetRetiresAllLinks ==
    [][\A r \in Requests :
          (uses' # uses /\ req[r].step = "activate" /\ req'[r] # req[r])
          => \A j \in req[r].known :
                token[j].email = token[req[r].tok].email => token'[j].state # "UNUSED"]_vars

(* Approvals never give one account to two trainees, although trainees may *)
(* share an address and approvals, links and updates overlap (approve's    *)
(* lock on the account, the unique e-mail, the check for other links).     *)
ApprovalsDoNotShareAccounts ==
    \A p, q \in approved : p[1] = q[1] => p[2] = q[2]

(* approve and resend refuse a trainee whose account is ACTIVE: such an    *)
(* account "needs no invitation".  Neither ever turns an ACTIVE account    *)
(* back into an invited one.                                               *)
ActiveIsNotReinvited ==
    [][\A r \in Requests, t \in Trainees :
          (/\ req[r].step \in {"grant", "insert", "resent"} /\ req[r].trainee = t
           /\ req'[r] # req[r] /\ portal[t].status = "ACTIVE")
          => portal'[t].status # "INVITATION_SENT"]_vars

(* When approve reports that the trainee was approved "and the link sent", *)
(* a mail with a link for that account has been sent.                      *)
ApproveSendsALink ==
    [][\A r \in Requests :
          (/\ req[r].caller = "approve" /\ req'[r] = Idle
           /\ account[req[r].email] = "ACTIVE"
           /\ ForgotLookup(r) \/ ForgotMail(r) \/ ForgotMailFails(r))
          => \E k \in mailed' : token'[k].email = req[r].email /\ token'[k].state = "UNUSED"]_vars

-----------------------------------------------------------------------------
(* forgotPassword and resetPassword, alone or on behalf of approve and     *)
(* resend, implement PasswordLinks: every step makes, sends, withdraws or  *)
(* uses a link, or leaves the links alone.                                 *)
Recovery == INSTANCE PasswordLinks WITH
    Links <- Tokens,
    Owners <- Emails,
    Nobody <- None,
    owner <- [k \in Tokens |-> token[k].email],
    good <- {k \in Tokens : token[k].state = "UNUSED"},
    sent <- mailed,
    used <- uses

RecoveryKept == Recovery!Spec
=============================================================================
