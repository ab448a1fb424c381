------------------------ MODULE PortalAccountsProofs ------------------------
(***************************************************************************)
(* Proofs about PortalAccounts, for any number of trainees, addresses,     *)
(* tokens and requests.  Two row locks carry them: a token that a reset    *)
(* has read stays unused until that reset commits, and an account that an  *)
(* approval has locked or inserted gets no link but that approval's until  *)
(* it commits.                                                             *)
(***************************************************************************)
EXTENDS PortalAccounts, TLAPS

(* An approval knows whom it is about and later which account it holds, a  *)
(* mail and a reset know their token.                                      *)
Addressed ==
    \A r \in Requests :
        /\ req[r].step \in {"approve", "grant", "insert"} =>
              req[r].email \in Emails /\ req[r].trainee \in Trainees
        /\ req[r].step = "grant" => req[r].user \in Emails
        /\ req[r].step \in {"mail"} \cup Resetting => req[r].tok \in Tokens

TypeInv == TypeOK /\ Addressed

-----------------------------------------------------------------------------
LEMMA RequestTypes ==
    /\ Idle \in Request
    /\ Pending \in Portal /\ Active \in Portal /\ Rejected \in Portal
    /\ NoToken \in Token
    /\ Idle.step = "idle"
  BY PortalAssumption
     DEF Idle, Request, Pending, Active, Rejected, Portal, PortalStatus, NoToken, Token, Step,
         Resetting, Times

(* Changing the step of one request changes nothing else in req. *)
LEMMA GotoEffect ==
    ASSUME TypeOK, NEW r \in Requests, NEW s \in Step, Goto(r, s)
    PROVE  /\ req' \in [Requests -> Request]
           /\ \A q \in Requests \ {r} : req'[q] = req[q]
           /\ req'[r].step = s
           /\ req'[r].caller = req[r].caller
           /\ req'[r].email = req[r].email
           /\ req'[r].trainee = req[r].trainee
           /\ req'[r].tok = req[r].tok
           /\ req'[r].user = req[r].user
           /\ req'[r].seen = req[r].seen
           /\ req'[r].known = req[r].known
  BY ZenonT(60) DEF TypeOK, Goto, Request

LEMMA LeaveEffect ==
    ASSUME TypeOK, NEW r \in Requests, Leave(r)
    PROVE  /\ req' \in [Requests -> Request]
           /\ \A q \in Requests \ {r} : req'[q] = req[q]
           /\ req'[r] = Idle
           /\ req'[r].step = "idle"
  BY RequestTypes DEF TypeOK, Leave

(* A request that starts. *)
LEMMA BeginEffect ==
    ASSUME TypeOK, NEW r \in Requests, NEW x \in Request,
           req' = [req EXCEPT ![r] = x]
    PROVE  /\ req' \in [Requests -> Request]
           /\ \A q \in Requests \ {r} : req'[q] = req[q]
           /\ req'[r] = x
  BY DEF TypeOK

LEMMA ReturnEffect ==
    ASSUME TypeOK, NEW r \in Requests, Return(r)
    PROVE  /\ req' \in [Requests -> Request]
           /\ \A q \in Requests \ {r} : req'[q] = req[q]
           /\ req'[r].step \in {"idle", "resent"}
  <1>1. "resent" \in Step
    BY DEF Step
  <1>2. CASE req[r].caller = "resend"
    BY <1>1, <1>2, GotoEffect DEF Return
  <1>3. CASE req[r].caller # "resend"
    BY <1>3, LeaveEffect DEF Return
  <1> QED
    BY <1>2, <1>3

LEMMA RefreshedType ==
    ASSUME TypeOK
    PROVE  Refreshed \in [Trainees -> Portal]
  <1>1. ASSUME NEW t \in Trainees, Lapsed(t)
        PROVE  [status |-> "EXPIRED", expires |-> portal[t].expires] \in Portal
    BY DEF TypeOK, Portal, PortalStatus
  <1>2. \A t \in Trainees : portal[t] \in Portal
    BY DEF TypeOK
  <1> QED
    BY <1>1, <1>2 DEF Refreshed

LEMMA InvitedType ==
    ASSUME TypeOK
    PROVE  Invited \in Portal
  BY PortalAssumption DEF TypeOK, Invited, Portal, PortalStatus, Times

-----------------------------------------------------------------------------
(* The record each request begins with. *)
LEMMA TypeRecords ==
    ASSUME TypeOK, NEW t \in Trainees
    PROVE  /\ [Idle EXCEPT !.step = "approve", !.caller = "approve",
                           !.trainee = t, !.email = email[t]] \in Request
           /\ [Idle EXCEPT !.step = "lookup", !.caller = "resend",
                           !.trainee = t, !.email = email[t]] \in Request
           /\ [Idle EXCEPT !.step = "save", !.trainee = t, !.was = portal[t]] \in Request
  <1>1. email[t] \in Emails /\ portal[t] \in Portal
    BY DEF TypeOK
  <1> QED
    BY <1>1, RequestTypes DEF Idle, Request, Step

LEMMA ForgotRecord ==
    ASSUME NEW e \in Emails
    PROVE  [Idle EXCEPT !.step = "lookup", !.caller = "forgot", !.email = e] \in Request
  BY RequestTypes DEF Idle, Request, Step

(* The record of a request that has locked a users row, and one that has    *)
(* committed it.                                                           *)
LEMMA GrantRecord ==
    ASSUME TypeOK, NEW r \in Requests, NEW e \in Emails
    PROVE  /\ [req[r] EXCEPT !.step = "grant", !.user = e] \in Request
           /\ [req[r] EXCEPT !.step = "grant", !.user = e].step = "grant"
           /\ [req[r] EXCEPT !.step = "grant", !.user = e].user = e
           /\ [req[r] EXCEPT !.step = "grant", !.user = e].email = req[r].email
           /\ [req[r] EXCEPT !.step = "grant", !.user = e].trainee = req[r].trainee
  BY ZenonT(60) DEF TypeOK, Request, Step

LEMMA CommitRecord ==
    ASSUME TypeOK, NEW r \in Requests
    PROVE  /\ [req[r] EXCEPT !.step = "lookup", !.user = None] \in Request
           /\ [req[r] EXCEPT !.step = "lookup", !.user = None].step = "lookup"
           /\ [req[r] EXCEPT !.step = "lookup", !.user = None].email = req[r].email
  BY ZenonT(60) DEF TypeOK, Request, Step

LEMMA ResetRecord ==
    ASSUME NEW k \in Tokens
    PROVE  [Idle EXCEPT !.step = "reset", !.tok = k] \in Request
  BY RequestTypes DEF Idle, Request, Step, Resetting

(* The statements of a reset: it keeps its token.                          *)
LEMMA ResetMoves ==
    ASSUME TypeInv, NEW r \in Requests,
           ResetPassword(r) \/ ResetRetire(r) \/ ResetActivate(r)
    PROVE  /\ req' \in [Requests -> Request]
           /\ \A q \in Requests \ {r} : req'[q] = req[q]
           /\ req[r].step \in Resetting /\ req'[r].step \in Resetting
           /\ req[r].tok \in Tokens /\ req'[r].tok = req[r].tok
           /\ UNCHANGED <<now, rows, mailed, uses, approved>>
           /\ ResetPassword(r) => /\ req'[r].step = "password"
                                  /\ req'[r].known \in {req[r].known, mailed}
           /\ ResetRetire(r) =>
                 /\ req'[r].step = "retire" /\ req'[r].known = req[r].known
                 /\ req'[r].seen = Unused(token[req[r].tok].email) \ {req[r].tok}
           /\ ResetActivate(r) =>
                 /\ req[r].step = "retire" /\ req'[r].step = "activate"
                 /\ req'[r].known = req[r].known
                 /\ req'[r].seen = req[r].seen \cap Unused(token[req[r].tok].email)
                 /\ \A j \in req'[r].seen : ~ TokenLocked(j)
  <1>0. TypeOK /\ Addressed /\ req[r] \in Request
    BY DEF TypeInv, TypeOK
  <1>1. req[r].step \in Resetting /\ req[r].tok \in Tokens
    BY <1>0 DEF ResetPassword, ResetRetire, ResetActivate, Addressed, Resetting
  <1>2. token[req[r].tok].email \in Emails \cup {None}
    BY <1>0, <1>1 DEF TypeOK, Token
  <1>s. {"password", "retire", "activate"} \subseteq Step \cap Resetting
    BY DEF Step, Resetting
  <1>3. ASSUME ResetPassword(r)
        PROVE  /\ req' \in [Requests -> Request]
               /\ \A q \in Requests \ {r} : req'[q] = req[q]
               /\ req'[r].tok = req[r].tok /\ req'[r].step = "password"
               /\ req'[r].known \in {req[r].known, mailed}
    <2>1. CASE Goto(r, "password")
      BY <1>0, <1>s, <2>1, GotoEffect
    <2>2. CASE ~ Goto(r, "password")
      <3> DEFINE e == token[req[r].tok].email
                 x == [req[r] EXCEPT !.step = "password", !.user = e, !.known = mailed]
      <3>1. x \in Request
        BY <1>0, <1>2, <1>s DEF Request, TypeOK
      <3>2. x.step = "password" /\ x.known = mailed /\ x.tok = req[r].tok
        BY <1>0 DEF Request
      <3>3. req' = [req EXCEPT ![r] = x]
        BY <1>3, <2>2 DEF ResetPassword
      <3> HIDE DEF x
      <3> QED
        BY <1>0, <3>1, <3>2, <3>3, BeginEffect
    <2> QED
      BY <2>1, <2>2
  <1>4. ASSUME ResetRetire(r)
        PROVE  /\ req' \in [Requests -> Request]
               /\ \A q \in Requests \ {r} : req'[q] = req[q]
               /\ req'[r].tok = req[r].tok /\ req'[r].step = "retire"
               /\ req'[r].known = req[r].known
               /\ req'[r].seen = Unused(token[req[r].tok].email) \ {req[r].tok}
    <2> DEFINE free == Unused(token[req[r].tok].email) \ {req[r].tok}
               x == [req[r] EXCEPT !.step = "retire", !.seen = free]
    <2>1. free \subseteq Tokens
      BY DEF Unused
    <2>2. req' = [req EXCEPT ![r] = x]
      BY <1>4 DEF ResetRetire
    <2> HIDE DEF free
    <2>3. x \in Request
      BY <1>0, <1>s, <2>1 DEF Request
    <2>4. x.step = "retire" /\ x.known = req[r].known /\ x.tok = req[r].tok /\ x.seen = free
      BY <1>0 DEF Request
    <2> HIDE DEF x
    <2>5. req'[r] = x /\ req' \in [Requests -> Request] /\ \A q \in Requests \ {r} : req'[q] = req[q]
      BY <1>0, <2>2, <2>3, BeginEffect
    <2> QED
      BY <2>4, <2>5 DEF free
  <1>5. ASSUME ResetActivate(r)
        PROVE  /\ req' \in [Requests -> Request]
               /\ \A q \in Requests \ {r} : req'[q] = req[q]
               /\ req'[r].tok = req[r].tok /\ req'[r].step = "activate"
               /\ req'[r].known = req[r].known
               /\ req'[r].seen = req[r].seen \cap Unused(token[req[r].tok].email)
    <2> DEFINE free == req[r].seen \cap Unused(token[req[r].tok].email)
               theirs == {t \in Trainees : <<token[req[r].tok].email, t>> \in live}
               x == [req[r] EXCEPT !.step = "activate", !.seen = free, !.linked = theirs]
    <2>1. free \subseteq Tokens /\ theirs \subseteq Trainees
      BY DEF Unused
    <2>2. req' = [req EXCEPT ![r] = x]
      BY <1>5 DEF ResetActivate
    <2> HIDE DEF free, theirs
    <2>3. x \in Request
      BY <1>0, <1>s, <2>1 DEF Request
    <2>4. x.step = "activate" /\ x.known = req[r].known /\ x.tok = req[r].tok /\ x.seen = free
      BY <1>0 DEF Request
    <2> HIDE DEF x
    <2>5. req'[r] = x /\ req' \in [Requests -> Request] /\ \A q \in Requests \ {r} : req'[q] = req[q]
      BY <1>0, <2>2, <2>3, BeginEffect
    <2> QED
      BY <2>4, <2>5 DEF free
  <1>6. ResetActivate(r) => /\ req[r].step = "retire"
                            /\ \A j \in req[r].seen : ~ TokenLocked(j)
    BY DEF ResetActivate
  <1>7. UNCHANGED <<now, rows, mailed, uses, approved>>
    BY DEF ResetPassword, ResetRetire, ResetActivate
  <1>8. \A j \in req[r].seen \cap Unused(token[req[r].tok].email) : j \in req[r].seen
    OBVIOUS
  <1> QED
    BY <1>1, <1>s, <1>3, <1>4, <1>5, <1>6, <1>7, <1>8

(* So it stays when one request goes to a step that needs neither. *)
LEMMA AddressedKept ==
    ASSUME Addressed, NEW r \in Requests,
           \A q \in Requests \ {r} : req'[q] = req[q],
           req'[r].step \notin {"approve", "grant", "insert", "mail",
                               "reset", "password", "retire", "activate"}
    PROVE  Addressed'
  BY DEF Addressed, Resetting

-----------------------------------------------------------------------------
LEMMA TypeInit == Init => TypeInv
  <1> SUFFICES ASSUME Init PROVE TypeInv
    OBVIOUS
  <1>1. TypeOK
    BY PortalAssumption, RequestTypes DEF Init, TypeOK, Times
  <1>2. Addressed
    BY RequestTypes DEF Init, Addressed, Resetting
  <1> QED
    BY <1>1, <1>2 DEF TypeInv

(* approve, reject and resend: the steps that name a trainee. *)
LEMMA TypeInvitations ==
    ASSUME TypeInv, NEW t \in Trainees
    PROVE  /\ \A r \in Requests : ApproveBegin(r, t) => TypeInv'
           /\ \A r \in Requests : ResendBegin(r, t) => TypeInv'
           /\ Reject(t) => TypeInv'
  <1> USE DEF TypeInv
  <1>1. ASSUME NEW r \in Requests, ApproveBegin(r, t) PROVE TypeInv'
    <2> DEFINE x == [Idle EXCEPT !.step = "approve", !.caller = "approve",
                                 !.trainee = t, !.email = email[t]]
    <2>1. x \in Request /\ req' = [req EXCEPT ![r] = x]
      BY <1>1, TypeRecords DEF ApproveBegin
    <2>2. x.email \in Emails /\ x.trainee = t /\ x.step = "approve"
      BY DEF Idle, TypeOK
    <2> HIDE DEF x
    <2>3. /\ req' \in [Requests -> Request] /\ req'[r] = x
          /\ \A q \in Requests \ {r} : req'[q] = req[q]
      BY <2>1, BeginEffect
    <2>4. TypeOK'
      BY <1>1, <2>3, RefreshedType DEF ApproveBegin, TypeOK
    <2>5. Addressed'
      BY <2>2, <2>3 DEF Addressed, Resetting
    <2> QED
      BY <2>4, <2>5
  <1>3. ASSUME NEW r \in Requests, ResendBegin(r, t) PROVE TypeInv'
    <2> DEFINE x == [Idle EXCEPT !.step = "lookup", !.caller = "resend",
                                 !.trainee = t, !.email = email[t]]
    <2>1. x \in Request /\ req' = [req EXCEPT ![r] = x]
      BY <1>3, TypeRecords DEF ResendBegin
    <2>2. x.step = "lookup"
      BY DEF Idle
    <2> HIDE DEF x
    <2>3. /\ req' \in [Requests -> Request] /\ req'[r] = x
          /\ \A q \in Requests \ {r} : req'[q] = req[q]
      BY <2>1, BeginEffect
    <2>4. Addressed'
      BY <2>2, <2>3, AddressedKept
    <2> QED
      BY <1>3, <2>3, <2>4, RefreshedType DEF ResendBegin, TypeOK
  <1>5. ASSUME Reject(t) PROVE TypeInv'
    BY <1>5, RefreshedType, RequestTypes DEF Reject, TypeOK, Addressed
  <1> QED
    BY <1>1, <1>3, <1>5

(* ... and the steps that go on. *)
LEMMA TypeApproval ==
    ASSUME TypeInv, NEW r \in Requests
    PROVE  /\ Approve(r) => TypeInv'
           /\ ResendCommit(r) => TypeInv'
  <1> USE DEF TypeInv
  <1>2. ASSUME Approve(r) PROVE TypeInv'
    <2>1. CASE ApproveLock(r)
      <3>1. req[r].email \in Emails /\ req[r].trainee \in Trainees
        BY <2>1 DEF ApproveLock, Addressed
      <3>2. CASE Leave(r)
        BY <2>1, <3>2, LeaveEffect, AddressedKept DEF ApproveLock, rows, TypeOK
      <3>3. CASE ~ Leave(r)
        <4> DEFINE x == [req[r] EXCEPT !.step = "grant", !.user = req[r].email]
        <4>1. x \in Request /\ x.step = "grant" /\ x.user = req[r].email
              /\ x.email = req[r].email /\ x.trainee = req[r].trainee
          BY <3>1, GrantRecord
        <4>a. req' = [req EXCEPT ![r] = x]
          BY <2>1, <3>3 DEF ApproveLock
        <4> HIDE DEF x
        <4>2. /\ req' \in [Requests -> Request] /\ req'[r] = x
              /\ \A q \in Requests \ {r} : req'[q] = req[q]
          BY <4>1, <4>a, BeginEffect
        <4>3. Addressed'
          BY <3>1, <4>1, <4>2 DEF Addressed, Resetting
        <4> QED
          BY <2>1, <4>2, <4>3 DEF ApproveLock, rows, TypeOK
      <3> QED
        BY <3>2, <3>3
    <2>2. CASE ApproveNoAccount(r)
      <3>1. req[r].email \in Emails /\ req[r].trainee \in Trainees
        BY <2>2 DEF ApproveNoAccount, Addressed
      <3>2. "insert" \in Step
        BY DEF Step
      <3>3. /\ req' \in [Requests -> Request] /\ req'[r].step = "insert"
            /\ \A q \in Requests \ {r} : req'[q] = req[q]
            /\ req'[r].email = req[r].email /\ req'[r].trainee = req[r].trainee
        BY <2>2, <3>2, GotoEffect DEF ApproveNoAccount
      <3>4. Addressed'
        BY <3>1, <3>3 DEF Addressed, Resetting
      <3> QED
        BY <2>2, <3>3, <3>4 DEF ApproveNoAccount, rows, TypeOK
    <2>6. CASE ApproveInsert(r)
      <3>1. req[r].email \in Emails /\ req[r].trainee \in Trainees
        BY <2>6 DEF ApproveInsert, Addressed
      <3>2. email[req[r].trainee] \in Emails
        BY <3>1 DEF TypeOK
      <3> DEFINE x == [req[r] EXCEPT !.step = "grant", !.user = email[req[r].trainee]]
      <3>3. x \in Request /\ x.step = "grant" /\ x.user = email[req[r].trainee]
            /\ x.email = req[r].email /\ x.trainee = req[r].trainee
        BY <3>2, GrantRecord
      <3>4. req' = [req EXCEPT ![r] = x]
        BY <2>6 DEF ApproveInsert
      <3> HIDE DEF x
      <3>5. /\ req' \in [Requests -> Request] /\ req'[r] = x
            /\ \A q \in Requests \ {r} : req'[q] = req[q]
        BY <3>3, <3>4, BeginEffect
      <3>6. Addressed'
        BY <3>1, <3>2, <3>3, <3>5 DEF Addressed, Resetting
      <3> QED
        BY <2>6, <3>5, <3>6 DEF ApproveInsert, rows, TypeOK
    <2>3. CASE ApproveCommit(r)
      <3>1. req[r].user \in Emails /\ req[r].trainee \in Trainees
        BY <2>3 DEF ApproveCommit, Addressed
      <3> DEFINE x == [req[r] EXCEPT !.step = "lookup", !.user = None]
      <3>2. x \in Request /\ x.step = "lookup"
        BY CommitRecord
      <3>a. req' = [req EXCEPT ![r] = x]
        BY <2>3 DEF ApproveCommit
      <3> HIDE DEF x
      <3>3. /\ req' \in [Requests -> Request] /\ req'[r].step = "lookup"
            /\ \A q \in Requests \ {r} : req'[q] = req[q]
        BY <3>2, <3>a, BeginEffect
      <3>4. Addressed'
        BY <3>3, AddressedKept
      <3>5. portal' \in [Trainees -> Portal]
        BY <2>3, InvitedType DEF ApproveCommit, TypeOK
      <3>6. account' \in [Emails -> {"ABSENT", "ACTIVE", "BLOCKED"}]
        BY <2>3 DEF ApproveCommit, TypeOK
      <3>7. rel' \in [Emails \X Trainees -> {"NONE", "SELF", "PARENT"}]
        BY <2>3, <3>1 DEF ApproveCommit, TypeOK
      <3>8. live' \subseteq Emails \X Trainees /\ approved' \subseteq Emails \X Trainees
        BY <2>3, <3>1 DEF ApproveCommit, TypeOK
      <3> QED
        BY <2>3, <3>3, <3>4, <3>5, <3>6, <3>7, <3>8 DEF ApproveCommit, TypeOK
    <2>4. CASE ApproveDuplicate(r)
      BY <2>4, LeaveEffect, AddressedKept DEF ApproveDuplicate, rows, TypeOK
    <2>5. CASE ApproveUndo(r)
      BY <2>5, LeaveEffect, AddressedKept, RequestTypes DEF ApproveUndo, TypeOK
    <2> QED
      BY <1>2, <2>1, <2>2, <2>3, <2>4, <2>5, <2>6 DEF Approve
  <1>4. ASSUME ResendCommit(r) PROVE TypeInv'
    BY <1>4, LeaveEffect, AddressedKept, InvitedType DEF ResendCommit, TypeOK
  <1> QED
    BY <1>2, <1>4

(* forgotPassword and resetPassword. *)
LEMMA TypeLinks ==
    ASSUME TypeInv, NEW r \in Requests
    PROVE  /\ \A e \in Emails : ForgotBegin(r, e) => TypeInv'
           /\ Forgot(r) => TypeInv'
           /\ Reset(r) => TypeInv'
  <1> USE DEF TypeInv
  <1>1. ASSUME NEW e \in Emails, ForgotBegin(r, e) PROVE TypeInv'
    <2> DEFINE x == [Idle EXCEPT !.step = "lookup", !.caller = "forgot", !.email = e]
    <2>1. x \in Request /\ req' = [req EXCEPT ![r] = x]
      BY <1>1, ForgotRecord DEF ForgotBegin
    <2>2. x.step = "lookup"
      BY DEF Idle
    <2> HIDE DEF x
    <2>3. /\ req' \in [Requests -> Request] /\ req'[r] = x
          /\ \A q \in Requests \ {r} : req'[q] = req[q]
      BY <2>1, BeginEffect
    <2>4. Addressed'
      BY <2>2, <2>3, AddressedKept
    <2> QED
      BY <1>1, <2>3, <2>4 DEF ForgotBegin, rows, TypeOK
  <1>2. ASSUME Forgot(r) PROVE TypeInv'
    <2>0. {"mark", "store", "mail", "undo"} \subseteq Step
      BY DEF Step
    <2>1. CASE ForgotLookup(r)
      <3>1. Goto(r, "mark") \/ Return(r)
        BY <2>1 DEF ForgotLookup
      <3>2. /\ req' \in [Requests -> Request]
            /\ \A q \in Requests \ {r} : req'[q] = req[q]
            /\ req'[r].step \in {"mark", "idle", "resent"}
        BY <3>1, <2>0, GotoEffect, ReturnEffect
      <3>3. Addressed'
        BY <3>2, AddressedKept
      <3> QED
        BY <2>1, <3>2, <3>3 DEF ForgotLookup, rows, TypeOK
    <2>2. CASE ForgotMark(r)
      <3> DEFINE x == [req[r] EXCEPT !.step = "store", !.seen = Unused(req[r].email)]
      <3>a. x \in Request /\ x.step = "store"
        BY <2>0, ZenonT(60) DEF TypeOK, Request, Unused
      <3>b. req' = [req EXCEPT ![r] = x]
        BY <2>2 DEF ForgotMark
      <3> HIDE DEF x
      <3>1. /\ req' \in [Requests -> Request] /\ req'[r].step = "store"
            /\ \A q \in Requests \ {r} : req'[q] = req[q]
        BY <3>a, <3>b, BeginEffect
      <3>2. Addressed'
        BY <3>1, AddressedKept
      <3> QED
        BY <2>2, <3>1, <3>2 DEF ForgotMark, rows, TypeOK
    <2>3. ASSUME NEW k \in Tokens, ForgotStore(r, k) PROVE TypeInv'
      <3> DEFINE x == [req[r] EXCEPT !.step = "mail", !.tok = k, !.seen = {}]
      <3>a. x \in Request /\ x.step = "mail" /\ x.tok = k
        BY <2>0, ZenonT(60) DEF TypeOK, Request
      <3>b. req' = [req EXCEPT ![r] = x]
        BY <2>3 DEF ForgotStore
      <3> HIDE DEF x
      <3>1. /\ req' \in [Requests -> Request] /\ req'[r] = x
            /\ \A q \in Requests \ {r} : req'[q] = req[q]
        BY <3>a, <3>b, BeginEffect
      <3>2. Addressed'
        BY <3>1, <3>a DEF Addressed, Resetting
      <3>3. req[r].email \in Emails \cup {None}
        BY DEF TypeOK, Request
      <3>4. now \in 0..MaxTime /\ now + TokenLife \in 0..(MaxTime + TokenLife)
        BY PortalAssumption DEF TypeOK, Times
      <3>5. token' \in [Tokens -> Token]
        BY <2>3, <3>3, <3>4, ZenonT(60) DEF ForgotStore, TypeOK, Token, Times
      <3> QED
        BY <2>3, <3>1, <3>2, <3>5 DEF ForgotStore, TypeOK
    <2>4. CASE ForgotMail(r)
      <3>1. /\ req' \in [Requests -> Request]
            /\ \A q \in Requests \ {r} : req'[q] = req[q]
            /\ req'[r].step \in {"idle", "resent"}
        BY <2>4, ReturnEffect DEF ForgotMail
      <3>2. Addressed'
        BY <3>1, AddressedKept
      <3>3. req[r].tok \in Tokens
        BY <2>4 DEF ForgotMail, Addressed
      <3> QED
        BY <2>4, <3>1, <3>2, <3>3 DEF ForgotMail, rows, TypeOK
    <2>5. CASE ForgotMailFails(r)
      <3>1. /\ req' \in [Requests -> Request]
            /\ \A q \in Requests \ {r} : req'[q] = req[q]
            /\ req'[r].step \in {"idle", "resent"}
        BY <2>5, ReturnEffect DEF ForgotMailFails
      <3>2. Addressed'
        BY <3>1, AddressedKept
      <3>3. req[r].tok \in Tokens
        BY <2>5 DEF ForgotMailFails, Addressed
      <3>4. token' \in [Tokens -> Token]
        BY <2>5, <3>3, ZenonT(60) DEF ForgotMailFails, TypeOK, Token
      <3> QED
        BY <2>5, <3>1, <3>2, <3>3, <3>4 DEF ForgotMailFails, TypeOK
    <2>6. CASE ForgotThrows(r)
      <3>1. Goto(r, "undo") \/ Leave(r)
        BY <2>6 DEF ForgotThrows
      <3>2. /\ req' \in [Requests -> Request]
            /\ \A q \in Requests \ {r} : req'[q] = req[q]
            /\ req'[r].step \in {"undo", "idle"}
        BY <3>1, <2>0, GotoEffect, LeaveEffect
      <3>3. Addressed'
        BY <3>2, AddressedKept
      <3> QED
        BY <2>6, <3>2, <3>3 DEF ForgotThrows, rows, TypeOK
    <2> QED
      BY <1>2, <2>1, <2>2, <2>3, <2>4, <2>5, <2>6 DEF Forgot
  <1>3. ASSUME Reset(r) PROVE TypeInv'
    <2>1. ASSUME NEW k \in Tokens, ResetBegin(r, k) PROVE TypeInv'
      <3> DEFINE x == [Idle EXCEPT !.step = "reset", !.tok = k]
      <3>1. x \in Request /\ req' = [req EXCEPT ![r] = x]
        BY <2>1, ResetRecord DEF ResetBegin
      <3>2. x.step = "reset" /\ x.tok = k
        BY DEF Idle
      <3> HIDE DEF x
      <3>3. /\ req' \in [Requests -> Request] /\ req'[r] = x
            /\ \A q \in Requests \ {r} : req'[q] = req[q]
        BY <3>1, BeginEffect
      <3>4. Addressed'
        BY <3>2, <3>3 DEF Addressed
      <3> QED
        BY <2>1, <3>3, <3>4 DEF ResetBegin, rows, TypeOK
    <2>2. CASE ResetPassword(r) \/ ResetRetire(r) \/ ResetActivate(r)
      <3>1. /\ req' \in [Requests -> Request]
            /\ \A q \in Requests \ {r} : req'[q] = req[q]
            /\ req'[r].step \in Resetting /\ req'[r].tok \in Tokens
            /\ UNCHANGED <<now, rows, mailed, uses, approved>>
        BY <2>2, ResetMoves
      <3>2. Addressed'
        BY <3>1 DEF Addressed, Resetting
      <3> QED
        BY <3>1, <3>2 DEF rows, TypeOK
    <2>3. CASE ResetCommit(r)
      <3>1. token' \in [Tokens -> Token]
        BY <2>3, ZenonT(60) DEF ResetCommit, TypeOK, Token
      <3>2. portal' \in [Trainees -> Portal]
        BY <2>3, RequestTypes DEF ResetCommit, TypeOK
      <3>3. req[r].tok \in Tokens
        BY <2>3 DEF ResetCommit, Addressed, Resetting
      <3>4. uses' \in [Tokens -> Nat]
        BY <2>3, <3>3 DEF ResetCommit, TypeOK
      <3>5. Leave(r)
        BY <2>3 DEF ResetCommit
      <3>6. req' \in [Requests -> Request] /\ Addressed'
        BY <3>5, LeaveEffect, AddressedKept
      <3> QED
        BY <2>3, <3>1, <3>2, <3>4, <3>6 DEF ResetCommit, TypeOK
    <2> QED
      BY <1>3, <2>1, <2>2, <2>3 DEF Reset
  <1> QED
    BY <1>1, <1>2, <1>3

(* The updates beside them. *)
LEMMA TypeOthers ==
    ASSUME TypeInv
    PROVE  /\ \A r \in Requests, t \in Trainees : UpdateTraineeBegin(r, t) => TypeInv'
           /\ \A r \in Requests, e \in Emails : UpdateTraineeSave(r, e) => TypeInv'
           /\ \A r \in Requests : Stop(r) => TypeInv'
           /\ \A e \in Emails : UpdateUserStatus(e) => TypeInv'
           /\ \A e \in Emails, t \in Trainees : CreateLink(e, t) => TypeInv'
           /\ \A p \in Emails \X Trainees : RemoveLink(p) => TypeInv'
           /\ Refuse => TypeInv'
           /\ Tick => TypeInv'
           /\ UNCHANGED vars => TypeInv'
  <1> USE DEF TypeInv
  <1>1. ASSUME NEW r \in Requests, NEW t \in Trainees, UpdateTraineeBegin(r, t) PROVE TypeInv'
    <2> DEFINE x == [Idle EXCEPT !.step = "save", !.trainee = t, !.was = portal[t]]
    <2>1. x \in Request /\ req' = [req EXCEPT ![r] = x]
      BY <1>1, TypeRecords DEF UpdateTraineeBegin
    <2>2. x.step = "save"
      BY DEF Idle
    <2> HIDE DEF x
    <2>3. /\ req' \in [Requests -> Request] /\ req'[r] = x
          /\ \A q \in Requests \ {r} : req'[q] = req[q]
      BY <2>1, BeginEffect
    <2>4. Addressed'
      BY <2>2, <2>3, AddressedKept
    <2> QED
      BY <1>1, <2>3, <2>4 DEF UpdateTraineeBegin, rows, TypeOK
  <1>2. ASSUME NEW r \in Requests, NEW e \in Emails, UpdateTraineeSave(r, e) PROVE TypeInv'
    <2>1. req[r].was \in Portal
      BY DEF TypeOK, Request
    <2>2. req' \in [Requests -> Request] /\ Addressed'
      BY <1>2, LeaveEffect, AddressedKept DEF UpdateTraineeSave
    <2> QED
      BY <1>2, <2>1, <2>2 DEF UpdateTraineeSave, TypeOK
  <1>3. ASSUME NEW r \in Requests, Stop(r) PROVE TypeInv'
    BY <1>3, LeaveEffect, AddressedKept DEF Stop, rows, TypeOK
  <1>4. ASSUME NEW e \in Emails, UpdateUserStatus(e) PROVE TypeInv'
    BY <1>4 DEF UpdateUserStatus, TypeOK, Addressed
  <1>5. ASSUME NEW e \in Emails, NEW t \in Trainees, CreateLink(e, t) PROVE TypeInv'
    BY <1>5 DEF CreateLink, TypeOK, Addressed
  <1>6. ASSUME NEW p \in Emails \X Trainees, RemoveLink(p) PROVE TypeInv'
    BY <1>6 DEF RemoveLink, TypeOK, Addressed
  <1>7. ASSUME Tick PROVE TypeInv'
    BY <1>7, PortalAssumption DEF Tick, rows, TypeOK, Addressed, Times
  <1>8. ASSUME UNCHANGED vars PROVE TypeInv'
    BY <1>8 DEF vars, TypeOK, Addressed
  <1>9. ASSUME Refuse PROVE TypeInv'
    BY <1>9, RefreshedType DEF Refuse, TypeOK, Addressed
  <1> QED
    BY <1>1, <1>2, <1>3, <1>4, <1>5, <1>6, <1>7, <1>8, <1>9

LEMMA TypeStep == TypeInv /\ [Next]_vars => TypeInv'
  <1> SUFFICES ASSUME TypeInv, [Next]_vars PROVE TypeInv'
    OBVIOUS
  <1>1. ASSUME NEW r \in Requests, NEW t \in Trainees,
               ApproveBegin(r, t) \/ ResendBegin(r, t) \/ UpdateTraineeBegin(r, t)
        PROVE TypeInv'
    BY <1>1, TypeInvitations, TypeOthers
  <1>2. ASSUME NEW r \in Requests, Approve(r) \/ ResendCommit(r) PROVE TypeInv'
    BY <1>2, TypeApproval
  <1>3. ASSUME NEW r \in Requests, NEW e \in Emails, ForgotBegin(r, e) \/ UpdateTraineeSave(r, e)
        PROVE TypeInv'
    BY <1>3, TypeLinks, TypeOthers
  <1>4. ASSUME NEW r \in Requests, Forgot(r) \/ Reset(r) \/ Stop(r) PROVE TypeInv'
    BY <1>4, TypeLinks, TypeOthers
  <1>5. ASSUME NEW t \in Trainees, Reject(t) PROVE TypeInv'
    BY <1>5, TypeInvitations
  <1>6. ASSUME NEW e \in Emails, UpdateUserStatus(e) PROVE TypeInv'
    BY <1>6, TypeOthers
  <1>7. ASSUME NEW p \in Emails \X Trainees, CreateLink(p[1], p[2]) \/ RemoveLink(p) PROVE TypeInv'
    <2>1. p[1] \in Emails /\ p[2] \in Trainees
      OBVIOUS
    <2> QED
      BY <1>7, <2>1, TypeOthers
  <1>8. CASE Refuse \/ Tick \/ UNCHANGED vars
    BY <1>8, TypeOthers
  <1> QED
    BY <1>1, <1>2, <1>3, <1>4, <1>5, <1>6, <1>7, <1>8 DEF Next

(* Every variable of PortalAccounts keeps its type. *)
THEOREM TypeCorrect == Spec => []TypeOK
  <1>1. TypeInv => TypeOK
    BY DEF TypeInv
  <1> QED
    BY TypeInit, TypeStep, <1>1, PTL DEF Spec

-----------------------------------------------------------------------------
(* Only request r moves; it locks a row only in the steps that do.         *)
Moves(r) ==
    /\ \A q \in Requests \ {r} : req'[q] = req[q]
    /\ req'[r].step \in Resetting =>
          (\E k \in Tokens : ResetBegin(r, k)) \/ ResetPassword(r) \/ ResetRetire(r) \/ ResetActivate(r)
    /\ req'[r].step = "grant" => ApproveLock(r) \/ ApproveInsert(r)

(* A step moves one request or none. *)
LEMMA OneMoves ==
    ASSUME TypeInv, [Next]_vars
    PROVE  UNCHANGED req \/ \E r \in Requests : Moves(r)
  <1>0. TypeOK
    BY DEF TypeInv
  <1>s. {"grant", "insert", "lookup", "mark", "undo", "resent"} \subseteq Step
    BY DEF Step
  <1>b. ASSUME NEW r \in Requests, NEW x \in Request, req' = [req EXCEPT ![r] = x],
               x.step \notin {"reset", "password", "retire", "activate", "grant"}
        PROVE  Moves(r)
    BY <1>0, <1>b, BeginEffect DEF Moves, Resetting
  <1>1. ASSUME NEW r \in Requests, NEW t \in Trainees,
               ApproveBegin(r, t) \/ ResendBegin(r, t) \/ UpdateTraineeBegin(r, t)
        PROVE Moves(r)
    <2>2. CASE ApproveBegin(r, t)
      <3> DEFINE x == [Idle EXCEPT !.step = "approve", !.caller = "approve",
                                   !.trainee = t, !.email = email[t]]
      <3>1. x \in Request /\ req' = [req EXCEPT ![r] = x] /\ x.step = "approve"
        BY <1>0, <2>2, TypeRecords DEF ApproveBegin, Idle
      <3> QED
        BY <1>b, <3>1
    <2>3. CASE ResendBegin(r, t)
      <3> DEFINE x == [Idle EXCEPT !.step = "lookup", !.caller = "resend",
                                   !.trainee = t, !.email = email[t]]
      <3>1. x \in Request /\ req' = [req EXCEPT ![r] = x] /\ x.step = "lookup"
        BY <1>0, <2>3, TypeRecords DEF ResendBegin, Idle
      <3> QED
        BY <1>b, <3>1
    <2>4. CASE UpdateTraineeBegin(r, t)
      <3> DEFINE x == [Idle EXCEPT !.step = "save", !.trainee = t, !.was = portal[t]]
      <3>1. x \in Request /\ req' = [req EXCEPT ![r] = x] /\ x.step = "save"
        BY <1>0, <2>4, TypeRecords DEF UpdateTraineeBegin, Idle
      <3> QED
        BY <1>b, <3>1
    <2> QED
      BY <1>1, <2>2, <2>3, <2>4
  <1>2. ASSUME NEW r \in Requests, Leave(r) \/ Return(r) \/ Goto(r, "insert") \/ Goto(r, "lookup")
                                   \/ Goto(r, "mark") \/ Goto(r, "undo")
        PROVE Moves(r)
    BY <1>0, <1>s, <1>2, GotoEffect, LeaveEffect, ReturnEffect DEF Moves, Resetting
  <1>3. ASSUME NEW r \in Requests, Approve(r) \/ ResendCommit(r) PROVE Moves(r)
    <2>0. ASSUME NEW e \in Emails, ApproveLock(r) \/ ApproveInsert(r),
                 req' = [req EXCEPT ![r] = [req[r] EXCEPT !.step = "grant", !.user = e]]
          PROVE  Moves(r)
      <3> DEFINE x == [req[r] EXCEPT !.step = "grant", !.user = e]
      <3>1. x \in Request /\ x.step = "grant"
        BY <1>0, GrantRecord
      <3>2. req' = [req EXCEPT ![r] = x]
        BY <2>0
      <3> HIDE DEF x
      <3> QED
        BY <1>0, <2>0, <3>1, <3>2, BeginEffect DEF Moves, Resetting
    <2>1. CASE ApproveLock(r)
      <3>1. req[r].email \in Emails
        BY <2>1 DEF ApproveLock, TypeInv, Addressed
      <3> QED
        BY <1>2, <2>0, <2>1, <3>1 DEF ApproveLock
    <2>2. CASE ApproveInsert(r)
      <3>1. email[req[r].trainee] \in Emails
        BY <1>0, <2>2 DEF ApproveInsert, TypeInv, Addressed, TypeOK
      <3> QED
        BY <2>0, <2>2, <3>1 DEF ApproveInsert
    <2>3. CASE ApproveCommit(r)
      <3> DEFINE x == [req[r] EXCEPT !.step = "lookup", !.user = None]
      <3>1. x \in Request /\ x.step = "lookup"
        BY <1>0, CommitRecord
      <3>2. req' = [req EXCEPT ![r] = x]
        BY <2>3 DEF ApproveCommit
      <3> HIDE DEF x
      <3> QED
        BY <1>b, <3>1, <3>2
    <2>4. CASE ~ ApproveLock(r) /\ ~ ApproveInsert(r) /\ ~ ApproveCommit(r)
      <3>1. Leave(r) \/ Goto(r, "insert")
        BY <1>3, <2>4 DEF Approve, ApproveNoAccount, ApproveDuplicate, ApproveUndo, ResendCommit
      <3> QED
        BY <1>2, <3>1
    <2> QED
      BY <2>1, <2>2, <2>3, <2>4
  <1>4. ASSUME NEW r \in Requests, NEW e \in Emails, ForgotBegin(r, e) PROVE Moves(r)
    <2> DEFINE x == [Idle EXCEPT !.step = "lookup", !.caller = "forgot", !.email = e]
    <2>1. x \in Request /\ req' = [req EXCEPT ![r] = x] /\ x.step = "lookup"
      BY <1>4, ForgotRecord DEF ForgotBegin, Idle
    <2> QED
      BY <1>b, <2>1
  <1>5. ASSUME NEW r \in Requests, NEW e \in Emails, UpdateTraineeSave(r, e) PROVE Moves(r)
    BY <1>2, <1>5 DEF UpdateTraineeSave
  <1>6. ASSUME NEW r \in Requests, Forgot(r) PROVE Moves(r)
    <2>1. CASE ForgotMark(r)
      <3> DEFINE x == [req[r] EXCEPT !.step = "store", !.seen = Unused(req[r].email)]
      <3>1. x \in Request /\ x.step = "store" /\ req' = [req EXCEPT ![r] = x]
        BY <1>0, <2>1, ZenonT(60) DEF TypeOK, Request, Unused, Step, ForgotMark
      <3> QED
        BY <1>b, <3>1
    <2>2. ASSUME NEW k \in Tokens, ForgotStore(r, k) PROVE Moves(r)
      <3> DEFINE x == [req[r] EXCEPT !.step = "mail", !.tok = k, !.seen = {}]
      <3>1. x \in Request /\ x.step = "mail" /\ req' = [req EXCEPT ![r] = x]
        BY <1>0, <2>2, ZenonT(60) DEF TypeOK, Request, Step, ForgotStore
      <3> QED
        BY <1>b, <3>1
    <2>3. CASE ForgotLookup(r) \/ ForgotMail(r) \/ ForgotMailFails(r) \/ ForgotThrows(r)
      <3>1. Leave(r) \/ Return(r) \/ Goto(r, "mark") \/ Goto(r, "undo")
        BY <2>3 DEF ForgotLookup, ForgotMail, ForgotMailFails, ForgotThrows
      <3> QED
        BY <1>2, <3>1
    <2> QED
      BY <1>6, <2>1, <2>2, <2>3 DEF Forgot
  <1>7. ASSUME NEW r \in Requests, Reset(r) \/ Stop(r) PROVE Moves(r)
    <2>1. ASSUME NEW k \in Tokens, ResetBegin(r, k) PROVE Moves(r)
      <3> DEFINE x == [Idle EXCEPT !.step = "reset", !.tok = k]
      <3>1. x \in Request /\ req' = [req EXCEPT ![r] = x] /\ x.step = "reset"
        BY <2>1, ResetRecord DEF ResetBegin, Idle
      <3> QED
        BY <1>0, <2>1, <3>1, BeginEffect DEF Moves
    <2>2. CASE ResetCommit(r) \/ Stop(r)
      BY <1>2, <2>2 DEF ResetCommit, Stop
    <2>3. CASE ResetPassword(r) \/ ResetRetire(r) \/ ResetActivate(r)
      BY <2>3, ResetMoves DEF Moves, Resetting
    <2> QED
      BY <1>7, <2>1, <2>2, <2>3 DEF Reset
  <1>8. ASSUME NEW t \in Trainees, Reject(t) PROVE UNCHANGED req
    BY <1>8 DEF Reject
  <1>9. ASSUME NEW e \in Emails, UpdateUserStatus(e) PROVE UNCHANGED req
    BY <1>9 DEF UpdateUserStatus
  <1>10. ASSUME NEW p \in Emails \X Trainees, CreateLink(p[1], p[2]) \/ RemoveLink(p)
         PROVE UNCHANGED req
    BY <1>10 DEF CreateLink, RemoveLink
  <1>11. CASE Refuse \/ Tick \/ UNCHANGED vars
    BY <1>11 DEF Refuse, Tick, vars, rows
  <1> QED
    BY <1>1, <1>3, <1>4, <1>5, <1>6, <1>7, <1>8, <1>9, <1>10, <1>11 DEF Next

-----------------------------------------------------------------------------
(* Reset links. *)
Counted ==
    \A k \in Tokens : /\ uses[k] \in {0, 1}
                      /\ uses[k] = 1 => token[k].state \in {"USED", "DELETED"}

(* What SELECT ... FOR UPDATE gives a reset, and what the rows it has       *)
(* written are to the others.                                              *)
Held ==
    /\ \A r \in Requests : req[r].step \in Resetting => token[req[r].tok].state = "UNUSED"
    /\ \A q, r \in Requests : req[q].step \in Resetting /\ req[r].step \in Resetting =>
          /\ req[q].tok = req[r].tok => q = r
          /\ req[r].step = "activate" => req[q].tok \notin req[r].seen

LinkInv == TypeInv /\ Counted /\ Held

LEMMA LinkInit == Init => LinkInv
  <1> SUFFICES ASSUME Init PROVE LinkInv
    OBVIOUS
  <1>1. TypeInv
    BY TypeInit
  <1>2. Counted
    BY DEF Init, Counted
  <1>3. Held
    BY RequestTypes DEF Init, Held, Resetting
  <1> QED
    BY <1>1, <1>2, <1>3 DEF LinkInv

(* The steps that leave tokens and passwords alone. *)
LEMMA LinksUntouched ==
    ASSUME [Next]_vars,
           \A r \in Requests, k \in Tokens : ~ ForgotStore(r, k),
           \A r \in Requests : ~ ForgotMailFails(r) /\ ~ ResetCommit(r)
    PROVE  token' = token /\ uses' = uses
  BY ZenonT(60) DEF Next, ApproveBegin, ResendBegin, UpdateTraineeBegin, Approve, ApproveLock,
         ApproveNoAccount, ApproveCommit, ApproveDuplicate, ApproveUndo, ResendCommit,
         ForgotBegin, UpdateTraineeSave, Forgot, ForgotLookup, ForgotMark, ForgotMail,
         ForgotThrows, Reset, ResetBegin, ResetPassword, ResetRetire, ResetActivate, Stop,
         ApproveInsert, Refuse, Reject, UpdateUserStatus, CreateLink, RemoveLink, Tick, rows, vars

LEMMA LinkStep == LinkInv /\ [Next]_vars => LinkInv'
  <1> SUFFICES ASSUME LinkInv, [Next]_vars PROVE LinkInv'
    OBVIOUS
  <1> DEFINE Frees(r) == /\ \A q \in Requests \ {r} : req'[q] = req[q]
                         /\ req'[r].step \notin Resetting
  <1>0. TypeInv /\ TypeOK /\ TypeInv' /\ Counted /\ Held
    BY TypeStep DEF LinkInv, TypeInv
  <1>1. ASSUME NEW r \in Requests, NEW k \in Tokens, ForgotStore(r, k)
        PROVE Counted' /\ Held'
    <2> DEFINE x == [req[r] EXCEPT !.step = "mail", !.tok = k, !.seen = {}]
    <2>1. x \in Request /\ x.step = "mail" /\ req' = [req EXCEPT ![r] = x]
      <3>1. "mail" \in Step
        BY DEF Step
      <3> QED
        BY <1>0, <1>1, <3>1, ZenonT(60) DEF TypeOK, Request, ForgotStore
    <2>2. Frees(r)
      BY <1>0, <2>1, BeginEffect DEF Resetting
    <2>3. /\ token[k].state = "ABSENT" /\ token'[k].state = "UNUSED"
          /\ uses' = uses
      BY <1>0, <1>1 DEF ForgotStore
    <2>4. \A j \in Tokens \ {k} :
             token'[j].state = token[j].state
             \/ (token'[j].state = "USED" /\ ~ TokenLocked(j))
      <3> SUFFICES ASSUME NEW j \in Tokens \ {k}
                   PROVE  token'[j].state = token[j].state
                          \/ (token'[j].state = "USED" /\ ~ TokenLocked(j))
        OBVIOUS
      <3>1. token[j] \in Token /\ [token[j] EXCEPT !.state = "USED"].state = "USED"
        BY <1>0 DEF TypeOK, Token
      <3>2. token'[j] = IF j \in req[r].seen /\ token[j].state = "UNUSED"
                        THEN [token[j] EXCEPT !.state = "USED"] ELSE token[j]
        BY <1>1 DEF ForgotStore
      <3>3. j \in req[r].seen => ~ TokenLocked(j)
        BY <1>1 DEF ForgotStore
      <3> QED
        BY <3>1, <3>2, <3>3
    <2>5. \A j \in Tokens \ {k} :
             token[j].state \in {"USED", "DELETED"} => token'[j].state \in {"USED", "DELETED"}
      BY <2>4
    <2>6. Counted'
      BY <1>0, <2>3, <2>5 DEF Counted
    <2>7. Held'
      BY <1>0, <2>2, <2>3, <2>4 DEF Held, TokenLocked, TypeInv, Addressed
    <2> QED
      BY <2>6, <2>7
  <1>2. ASSUME NEW r \in Requests, ForgotMailFails(r) PROVE Counted' /\ Held'
    <2>1. Frees(r)
      BY <1>0, <1>2, ReturnEffect DEF ForgotMailFails, Resetting
    <2>2. /\ uses' = uses
          /\ token'[req[r].tok].state = "DELETED" /\ ~ TokenLocked(req[r].tok)
          /\ \A j \in Tokens \ {req[r].tok} : token'[j] = token[j]
      BY <1>0, <1>2 DEF ForgotMailFails, TypeOK, Token, TypeInv, Addressed
    <2>3. Counted'
      BY <1>0, <2>2 DEF Counted
    <2>4. Held'
      BY <1>0, <2>1, <2>2 DEF Held, TokenLocked, TypeInv, Addressed
    <2> QED
      BY <2>3, <2>4
  <1>3. ASSUME NEW r \in Requests, NEW k \in Tokens, ResetBegin(r, k) PROVE Counted' /\ Held'
    <2> DEFINE x == [Idle EXCEPT !.step = "reset", !.tok = k]
    <2>1. x \in Request /\ req' = [req EXCEPT ![r] = x] /\ x.step = "reset" /\ x.tok = k
      BY <1>3, ResetRecord DEF ResetBegin, Idle
    <2> HIDE DEF x
    <2>2. /\ req'[r] = x
          /\ \A q \in Requests \ {r} : req'[q] = req[q]
      BY <1>0, <2>1, BeginEffect
    <2>3. token' = token /\ uses' = uses /\ token[k].state = "UNUSED" /\ ~ TokenLocked(k)
      BY <1>3 DEF ResetBegin, rows
    <2>4. Counted'
      BY <1>0, <2>3 DEF Counted
    <2>5. Held'
      <3>1. \A q \in Requests : req'[q].step \in Resetting =>
               IF q = r THEN req'[q].tok = k /\ req'[q].step = "reset"
               ELSE req[q].step \in Resetting /\ req'[q] = req[q]
        BY <2>1, <2>2
      <3>2. \A q \in Requests : req[q].step \in Resetting =>
               req[q].tok # k /\ (req[q].step = "activate" => k \notin req[q].seen)
        BY <2>3 DEF TokenLocked
      <3> QED
        BY <1>0, <2>3, <3>1, <3>2 DEF Held
    <2> QED
      BY <2>4, <2>5
  <1>6. ASSUME NEW r \in Requests, ResetPassword(r) \/ ResetRetire(r) \/ ResetActivate(r)
        PROVE  Counted' /\ Held'
    <2>1. /\ \A q \in Requests \ {r} : req'[q] = req[q]
          /\ req[r].step \in Resetting /\ req'[r].tok = req[r].tok
          /\ token' = token /\ uses' = uses
          /\ req'[r].step = "activate" => \A j \in req'[r].seen : ~ TokenLocked(j)
      BY <1>0, <1>6, ResetMoves DEF rows
    <2>2. Counted'
      BY <1>0, <2>1 DEF Counted
    <2>3. \A q \in Requests : req'[q].step \in Resetting =>
             req[q].step \in Resetting /\ req'[q].tok = req[q].tok /\ (q # r => req'[q] = req[q])
      BY <2>1
    <2>4. \A q \in Requests : req[q].step \in Resetting => TokenLocked(req[q].tok)
      BY DEF TokenLocked
    <2>5. Held'
      BY <1>0, <2>1, <2>3, <2>4 DEF Held
    <2> QED
      BY <2>2, <2>5
  <1>4. ASSUME NEW r \in Requests, ResetCommit(r) PROVE Counted' /\ Held'
    <2> DEFINE k == req[r].tok
    <2>1. k \in Tokens /\ token[k].state = "UNUSED" /\ req[r].step = "activate"
      BY <1>0, <1>4 DEF ResetCommit, TypeInv, Addressed, Held, Resetting
    <2>2. uses[k] = 0
      BY <1>0, <2>1 DEF Counted
    <2>a. /\ uses'[k] \in {0, 1}
          /\ \A j \in Tokens \ {k} : uses'[j] = uses[j]
      BY <1>0, <1>4, <2>1, <2>2 DEF ResetCommit, TypeOK
    <2>c. ASSUME NEW j \in Tokens
          PROVE  /\ j = k => token'[j].state = "USED"
                 /\ token'[j].state = token[j].state
                    \/ (token'[j].state = "USED" /\ j \in {k} \cup req[r].seen)
      <3>1. token[j] \in Token /\ [token[j] EXCEPT !.state = "USED"].state = "USED"
        BY <1>0 DEF TypeOK, Token
      <3>2. token'[j] = IF j \in {k} \cup req[r].seen
                        THEN [token[j] EXCEPT !.state = "USED"] ELSE token[j]
        BY <1>4 DEF ResetCommit, Retired
      <3> QED
        BY <3>1, <3>2
    <2>3. /\ uses'[k] \in {0, 1} /\ token'[k].state = "USED"
          /\ \A j \in Tokens \ {k} : uses'[j] = uses[j]
          /\ \A j \in Tokens : token'[j].state = token[j].state
                               \/ (token'[j].state = "USED" /\ j \in {k} \cup req[r].seen)
      BY <2>1, <2>a, <2>c
    <2>4. Leave(r)
      BY <1>4 DEF ResetCommit
    <2>5. Frees(r)
      BY <1>0, <2>4, LeaveEffect DEF Resetting
    <2>6. Counted'
      BY <1>0, <2>3 DEF Counted
    <2>7. \A q \in Requests \ {r} :
             req[q].step \in Resetting => req[q].tok # k /\ req[q].tok \notin req[r].seen
      BY <1>0, <2>1 DEF Held, Resetting
    <2>8. Held'
      BY <1>0, <2>3, <2>5, <2>7 DEF Held, TypeInv, Addressed
    <2> QED
      BY <2>6, <2>8
  <1>5. CASE /\ \A r \in Requests, k \in Tokens : ~ ForgotStore(r, k) /\ ~ ResetBegin(r, k)
             /\ \A r \in Requests : ~ ForgotMailFails(r) /\ ~ ResetCommit(r)
             /\ \A r \in Requests : ~ ResetPassword(r) /\ ~ ResetRetire(r) /\ ~ ResetActivate(r)
    <2>1. /\ token' = token /\ uses' = uses
          /\ UNCHANGED req \/ \E r \in Requests : Frees(r)
      BY <1>0, <1>5, LinksUntouched, OneMoves DEF Moves
    <2>2. Counted'
      BY <1>0, <2>1 DEF Counted
    <2>3. CASE UNCHANGED req
      BY <1>0, <2>1, <2>2, <2>3 DEF Held, LinkInv
    <2>4. ASSUME NEW r \in Requests, Frees(r) PROVE Held'
      <3>1. \A q \in Requests : req'[q].step \in Resetting => q # r /\ req'[q] = req[q]
        BY <2>4
      <3> QED
        BY <1>0, <2>1, <3>1 DEF Held
    <2> QED
      BY <1>0, <2>1, <2>2, <2>3, <2>4 DEF LinkInv
  <1> QED
    BY <1>0, <1>1, <1>2, <1>3, <1>4, <1>5, <1>6 DEF LinkInv

(* A reset link sets one password, for any number of concurrent requests. *)
THEOREM LinksWorkOnce == Spec => []LinkWorksOnce
  <1>1. LinkInv => LinkWorksOnce
    BY DEF LinkInv, Counted, LinkWorksOnce
  <1> QED
    BY LinkInit, LinkStep, <1>1, PTL DEF Spec

-----------------------------------------------------------------------------
(* Approvals.  Links belong to accounts that exist. *)
Linked ==
    /\ approved \subseteq live
    /\ \A p \in live : account[p[1]] # "ABSENT"

(* What the lock on the users row gives an approval. *)
Granted ==
    /\ \A r \in Requests :
          req[r].step = "grant" => ~ LinkedElsewhere(req[r].user, req[r].trainee)
    /\ \A q, r \in Requests :
          req[q].step = "grant" /\ req[r].step = "grant" /\ req[q].user = req[r].user => q = r

ApprovalInv == TypeInv /\ Linked /\ Granted /\ ApprovalsDoNotShareAccounts

LEMMA ApprovalInit == Init => ApprovalInv
  <1> SUFFICES ASSUME Init PROVE ApprovalInv
    OBVIOUS
  <1>1. TypeInv
    BY TypeInit
  <1>2. Linked /\ ApprovalsDoNotShareAccounts
    BY DEF Init, Linked, ApprovalsDoNotShareAccounts
  <1>3. Granted
    BY RequestTypes DEF Init, Granted
  <1> QED
    BY <1>1, <1>2, <1>3 DEF ApprovalInv

(* The steps that leave accounts and links alone. *)
LEMMA AccountsUntouched ==
    ASSUME [Next]_vars,
           \A r \in Requests : ~ ApproveCommit(r),
           \A e \in Emails : ~ UpdateUserStatus(e),
           \A p \in Emails \X Trainees : ~ CreateLink(p[1], p[2]) /\ ~ RemoveLink(p)
    PROVE  account' = account /\ live' = live /\ approved' = approved
  BY ZenonT(60) DEF Next, ApproveBegin, ResendBegin, UpdateTraineeBegin, Approve, ApproveLock,
         ApproveNoAccount, ApproveDuplicate, ApproveUndo, ResendCommit,
         ForgotBegin, UpdateTraineeSave, Forgot, ForgotLookup, ForgotMark, ForgotStore,
         ForgotMail, ForgotMailFails, ForgotThrows, Reset, ResetBegin, ResetPassword,
         ResetRetire, ResetActivate, ResetCommit, ApproveInsert, Stop, Refuse, Reject, Tick, rows, vars

(* An approval that has locked an account without other links may link it. *)
LEMMA CommitStep ==
    ASSUME ApprovalInv, NEW r \in Requests, ApproveCommit(r)
    PROVE  (Linked /\ Granted /\ ApprovalsDoNotShareAccounts)'
  <1> DEFINE e == req[r].user
             t == req[r].trainee
             stale == {p \in live : p[1] # e /\ p[2] = t /\ rel[p] = "SELF"}
  <1>0. TypeOK /\ Linked /\ Granted /\ ApprovalsDoNotShareAccounts
    BY DEF ApprovalInv, TypeInv
  <1>1. e \in Emails /\ t \in Trainees /\ <<e, t>> \in Emails \X Trainees
    BY DEF ApprovalInv, TypeInv, Addressed, ApproveCommit
  <1>2. /\ account' = [account EXCEPT ![e] = "ACTIVE"]
        /\ live' = (live \ stale) \cup {<<e, t>>}
        /\ approved' = (approved \ stale) \cup {<<e, t>>}
    BY DEF ApproveCommit
  <1>3. req[r].step = "grant" /\ ~ LinkedElsewhere(e, t)
    BY <1>0 DEF ApproveCommit, Granted
  <1>4. \A p \in live : p \in Emails \X Trainees /\ (p[1] = e => p[2] = t)
    <2>1. ASSUME NEW p \in live, p[1] = e PROVE p[2] = t
      <3>1. p = <<e, p[2]>> /\ p[2] \in Trainees
        BY <1>0, <2>1 DEF TypeOK
      <3> QED
        BY <1>3, <2>1, <3>1 DEF LinkedElsewhere
    <2> QED
      BY <1>0, <2>1 DEF TypeOK
  <1> HIDE DEF stale
  <1>5. Linked'
    <2>1. approved' \subseteq live'
      BY <1>0, <1>2 DEF Linked
    <2>2. \A p \in live' : p[1] \in Emails /\ (p[1] = e \/ p \in live)
      BY <1>1, <1>2, <1>4
    <2> QED
      BY <1>0, <1>2, <2>1, <2>2 DEF Linked, TypeOK
  <1>6. ApprovalsDoNotShareAccounts'
    <2>1. \A p \in approved' : p = <<e, t>> \/ (p \in approved /\ p \in live)
      BY <1>0, <1>2 DEF Linked
    <2>2. \A p \in approved' : p[1] = e => p[2] = t
      BY <1>4, <2>1
    <2> QED
      BY <1>0, <2>1, <2>2 DEF ApprovalsDoNotShareAccounts
  <1>7. Granted'
    <2> DEFINE x == [req[r] EXCEPT !.step = "lookup", !.user = None]
    <2>1. x \in Request /\ x.step = "lookup" /\ req' = [req EXCEPT ![r] = x]
      BY <1>0, CommitRecord DEF ApproveCommit
    <2> HIDE DEF x
    <2>2. /\ \A q \in Requests \ {r} : req'[q] = req[q]
          /\ req'[r].step = "lookup"
      BY <1>0, <2>1, BeginEffect
    <2>3. ASSUME NEW q \in Requests, req'[q].step = "grant"
          PROVE  /\ q # r /\ req'[q] = req[q] /\ req[q].user # e
                 /\ ~ LinkedElsewhere(req[q].user, req[q].trainee)
      <3>1. q # r /\ req'[q] = req[q] /\ req[q].step = "grant"
        BY <2>2, <2>3
      <3> QED
        BY <1>0, <1>3, <3>1 DEF Granted
    <2>4. ASSUME NEW q \in Requests, req'[q].step = "grant"
          PROVE  \A u \in Trainees \ {req'[q].trainee} : <<req'[q].user, u>> \notin live'
      <3>1. \A u \in Trainees : <<req[q].user, u>> \in live' => <<req[q].user, u>> \in live
        BY <1>2, <2>3, <2>4
      <3> QED
        BY <2>3, <2>4, <3>1 DEF LinkedElsewhere
    <2>5. ASSUME NEW p \in Requests, NEW q \in Requests, req'[p].step = "grant",
                 req'[q].step = "grant", req'[p].user = req'[q].user
          PROVE  p = q
      BY <1>0, <2>2, <2>3, <2>5 DEF Granted
    <2> QED
      BY <2>4, <2>5 DEF Granted, LinkedElsewhere
  <1> QED
    BY <1>5, <1>6, <1>7

LEMMA ApprovalStep == ApprovalInv /\ [Next]_vars => ApprovalInv'
  <1> SUFFICES ASSUME ApprovalInv, [Next]_vars PROVE ApprovalInv'
    OBVIOUS
  <1>0. /\ TypeInv /\ TypeOK /\ TypeInv' /\ Linked /\ Granted
        /\ ApprovalsDoNotShareAccounts
    BY TypeStep DEF ApprovalInv, TypeInv
  <1>1. ASSUME NEW r \in Requests, ApproveCommit(r) PROVE ApprovalInv'
    BY <1>0, <1>1, CommitStep DEF ApprovalInv
  <1>2. ASSUME NEW r \in Requests, ApproveLock(r) \/ ApproveInsert(r) PROVE ApprovalInv'
    <2>1. account' = account /\ live' = live /\ approved' = approved
      BY <1>2 DEF ApproveLock, ApproveInsert, rows
    <2>2. Linked' /\ ApprovalsDoNotShareAccounts'
      BY <1>0, <2>1 DEF Linked, ApprovalsDoNotShareAccounts
    <2>3. ASSUME NEW e \in Emails, ~ UserHeld(e), ~ LinkedElsewhere(e, req[r].trainee),
                 req' = [req EXCEPT ![r] = [req[r] EXCEPT !.step = "grant", !.user = e]]
          PROVE  Granted'
      <3> DEFINE x == [req[r] EXCEPT !.step = "grant", !.user = e]
      <3>1. x \in Request /\ x.step = "grant" /\ x.user = e /\ x.trainee = req[r].trainee
        BY <1>0, GrantRecord
      <3>2. req' = [req EXCEPT ![r] = x]
        BY <2>3
      <3> HIDE DEF x
      <3>3. req'[r] = x /\ \A q \in Requests \ {r} : req'[q] = req[q]
        BY <1>0, <3>1, <3>2, BeginEffect
      <3>4. \A q \in Requests : req[q].user # e
        BY <2>3 DEF UserHeld
      <3>5. ASSUME NEW q \in Requests, req'[q].step = "grant"
            PROVE  \A u \in Trainees \ {req'[q].trainee} : <<req'[q].user, u>> \notin live'
        <4>1. CASE q = r
          BY <2>1, <2>3, <3>1, <3>3, <4>1 DEF LinkedElsewhere
        <4>2. CASE q # r
          <5>1. req'[q] = req[q] /\ ~ LinkedElsewhere(req[q].user, req[q].trainee)
            BY <1>0, <3>3, <3>5, <4>2 DEF Granted
          <5> QED
            BY <2>1, <5>1 DEF LinkedElsewhere
        <4> QED
          BY <4>1, <4>2
      <3>6. ASSUME NEW p \in Requests, NEW q \in Requests, req'[p].step = "grant",
                   req'[q].step = "grant", req'[p].user = req'[q].user
            PROVE  p = q
        <4>1. CASE p = r \/ q = r
          BY <3>1, <3>3, <3>4, <3>6, <4>1
        <4>2. CASE p # r /\ q # r
          BY <1>0, <3>3, <3>6, <4>2 DEF Granted
        <4> QED
          BY <4>1, <4>2
      <3> QED
        BY <3>5, <3>6 DEF Granted, LinkedElsewhere
    <2>4. CASE ApproveLock(r)
      <3>1. req[r].email \in Emails /\ ~ UserHeld(req[r].email)
        BY <1>0, <2>4 DEF ApproveLock, TypeInv, Addressed
      <3>2. CASE LinkedElsewhere(req[r].email, req[r].trainee)
        <4>1. Leave(r)
          BY <2>4, <3>2 DEF ApproveLock
        <4>2. req'[r].step = "idle" /\ \A q \in Requests \ {r} : req'[q] = req[q]
          BY <1>0, <4>1, LeaveEffect
        <4>3. Granted'
          BY <1>0, <2>1, <4>2 DEF Granted, LinkedElsewhere
        <4> QED
          BY <1>0, <2>2, <4>3 DEF ApprovalInv
      <3>3. CASE ~ LinkedElsewhere(req[r].email, req[r].trainee)
        <4>1. Granted'
          BY <2>3, <2>4, <3>1, <3>3 DEF ApproveLock
        <4> QED
          BY <1>0, <2>2, <4>1 DEF ApprovalInv
      <3> QED
        BY <3>2, <3>3
    <2>5. CASE ApproveInsert(r)
      <3>1. /\ email[req[r].trainee] \in Emails /\ ~ UserHeld(email[req[r].trainee])
            /\ account[email[req[r].trainee]] = "ABSENT"
        BY <1>0, <2>5 DEF ApproveInsert, TypeInv, Addressed, TypeOK
      <3>2. ~ LinkedElsewhere(email[req[r].trainee], req[r].trainee)
        BY <1>0, <3>1 DEF Linked, LinkedElsewhere
      <3>3. Granted'
        BY <2>3, <2>5, <3>1, <3>2 DEF ApproveInsert
      <3> QED
        BY <1>0, <2>2, <3>3 DEF ApprovalInv
    <2> QED
      BY <1>2, <2>4, <2>5
  <1>3. ASSUME NEW e \in Emails, UpdateUserStatus(e) PROVE ApprovalInv'
    <2>1. /\ req' = req /\ live' = live /\ approved' = approved
          /\ account[e] # "ABSENT"
          /\ \E s \in {"ACTIVE", "BLOCKED"} : account' = [account EXCEPT ![e] = s]
      BY <1>3 DEF UpdateUserStatus
    <2>2. \A x \in Emails : account[x] # "ABSENT" => account'[x] # "ABSENT"
      BY <1>0, <2>1 DEF TypeOK
    <2>3. \A p \in live : p[1] \in Emails
      BY <1>0 DEF TypeOK
    <2>4. Linked' /\ ApprovalsDoNotShareAccounts'
      BY <1>0, <2>1, <2>2, <2>3 DEF Linked, ApprovalsDoNotShareAccounts
    <2>5. Granted'
      BY <1>0, <2>1 DEF Granted, LinkedElsewhere
    <2> QED
      BY <1>0, <2>4, <2>5 DEF ApprovalInv
  <1>4. ASSUME NEW p \in Emails \X Trainees, CreateLink(p[1], p[2]) \/ RemoveLink(p)
        PROVE  ApprovalInv'
    <2>1. /\ req' = req /\ account' = account
          /\ approved' \subseteq approved /\ approved' \subseteq live'
          /\ \A q \in live' : q \in live \/ (q[1] = p[1] /\ account[p[1]] # "ABSENT"
                                              /\ ~ UserLocked(p[1]))
      BY <1>0, <1>4 DEF CreateLink, RemoveLink, Linked
    <2>2. Linked' /\ ApprovalsDoNotShareAccounts'
      BY <1>0, <2>1 DEF Linked, ApprovalsDoNotShareAccounts
    <2>3. Granted'
      BY <1>0, <2>1 DEF Granted, LinkedElsewhere, UserLocked
    <2> QED
      BY <1>0, <2>2, <2>3 DEF ApprovalInv
  <1>5. CASE /\ \A r \in Requests : ~ ApproveCommit(r) /\ ~ ApproveLock(r) /\ ~ ApproveInsert(r)
             /\ \A e \in Emails : ~ UpdateUserStatus(e)
             /\ \A p \in Emails \X Trainees : ~ CreateLink(p[1], p[2]) /\ ~ RemoveLink(p)
    <2>1. account' = account /\ live' = live /\ approved' = approved
      BY <1>5, AccountsUntouched
    <2>2. Linked' /\ ApprovalsDoNotShareAccounts'
      BY <1>0, <2>1 DEF Linked, ApprovalsDoNotShareAccounts
    <2>3. UNCHANGED req \/ \E r \in Requests : Moves(r)
      BY <1>0, OneMoves
    <2>4. \A q \in Requests : req'[q].step = "grant" => req'[q] = req[q]
      BY <1>5, <2>3 DEF Moves
    <2>5. Granted'
      BY <1>0, <2>1, <2>4 DEF Granted, LinkedElsewhere
    <2> QED
      BY <1>0, <2>2, <2>5 DEF ApprovalInv
  <1> QED
    BY <1>1, <1>2, <1>3, <1>4, <1>5

(* Approvals never give one account to two trainees. *)
THEOREM ApprovalsNeverShareAccounts == Spec => []ApprovalsDoNotShareAccounts
  <1>1. ApprovalInv => ApprovalsDoNotShareAccounts
    BY DEF ApprovalInv
  <1> QED
    BY ApprovalInit, ApprovalStep, <1>1, PTL DEF Spec

-----------------------------------------------------------------------------
(* Recovery.  What a request under way knows of the tokens it is about: a   *)
(* reset that has begun to retire them has seen every unused token of its  *)
(* account among those mailed when it wrote the password.                  *)
InFlight(x, rowsOf, gone) ==
    /\ x.step \in {"lookup", "mark", "store"} => x.email \in Emails
    /\ x.step = "store" => \A j \in x.seen : rowsOf[j].email = x.email
    /\ x.step = "mail" => (rowsOf[x.tok].state # "ABSENT" /\ x.tok \notin gone)
    /\ x.step \in Resetting => x.tok \in gone /\ x.known \subseteq gone
    /\ x.step \in {"retire", "activate"} =>
          /\ \A j \in x.seen : rowsOf[j].email = rowsOf[x.tok].email
          /\ \A j \in x.known :
                (rowsOf[j].email = rowsOf[x.tok].email /\ rowsOf[j].state = "UNUSED")
                => j = x.tok \/ j \in x.seen

AllInFlight == \A r \in Requests : InFlight(req[r], token, mailed)

OneMails ==
    \A q, r \in Requests :
        (req[q].step = "mail" /\ req[r].step = "mail" /\ req[q].tok = req[r].tok) => q = r

Owned ==
    \A k \in Tokens : /\ token[k].state = "ABSENT" <=> token[k].email = None
                      /\ k \in mailed => token[k].state # "ABSENT"

RecoveryInv == LinkInv /\ Owned /\ AllInFlight /\ OneMails

LEMMA RecoveryInit == Init => RecoveryInv
  <1> SUFFICES ASSUME Init PROVE RecoveryInv
    OBVIOUS
  <1>1. Owned
    BY DEF Init, Owned, NoToken
  <1>2. AllInFlight /\ OneMails
    BY RequestTypes DEF Init, AllInFlight, OneMails, InFlight, Resetting
  <1> QED
    BY <1>1, <1>2, LinkInit DEF RecoveryInv

(* One request moves, the tokens stay as they are. *)
LEMMA FlightGoesOn ==
    ASSUME RecoveryInv, UNCHANGED <<token, mailed>>, NEW r \in Requests,
           \A q \in Requests \ {r} : req'[q] = req[q],
           InFlight(req'[r], token, mailed), req'[r].step # "mail"
    PROVE  (Owned /\ AllInFlight /\ OneMails)'
  <1>1. Owned'
    BY DEF RecoveryInv, Owned
  <1>2. AllInFlight'
    <2> SUFFICES ASSUME NEW q \in Requests PROVE InFlight(req'[q], token, mailed)
      BY DEF AllInFlight
    <2> QED
      BY DEF RecoveryInv, AllInFlight
  <1>3. OneMails'
    BY DEF RecoveryInv, OneMails
  <1> QED
    BY <1>1, <1>2, <1>3

(* The steps that leave the tokens and the mails alone. *)
LEMMA RecoveryUntouched ==
    ASSUME [Next]_vars,
           \A r \in Requests, k \in Tokens : ~ ForgotStore(r, k),
           \A r \in Requests : ~ ForgotMail(r) /\ ~ ForgotMailFails(r) /\ ~ ResetCommit(r)
    PROVE  token' = token /\ uses' = uses /\ mailed' = mailed
  <1>1. token' = token /\ uses' = uses
    BY LinksUntouched
  <1>2. mailed' = mailed
    BY ZenonT(60) DEF Next, ApproveBegin, ResendBegin, UpdateTraineeBegin, Approve, ApproveLock,
           ApproveNoAccount, ApproveCommit, ApproveDuplicate, ApproveUndo, ResendCommit,
           ForgotBegin, UpdateTraineeSave, Forgot, ForgotLookup, ForgotMark,
           ForgotThrows, Reset, ResetBegin, ResetPassword, ResetRetire, ResetActivate, Stop,
           ApproveInsert, Refuse, Reject, UpdateUserStatus, CreateLink, RemoveLink, Tick, rows, vars
  <1> QED
    BY <1>1, <1>2

LEMMA FlightSteps ==
    ASSUME RecoveryInv, NEW r \in Requests, UNCHANGED <<token, mailed>>,
           \/ \E t \in Trainees : ApproveBegin(r, t) \/ ResendBegin(r, t) \/ UpdateTraineeBegin(r, t)
           \/ Approve(r) \/ ResendCommit(r)
           \/ \E e \in Emails : ForgotBegin(r, e) \/ UpdateTraineeSave(r, e)
           \/ ForgotLookup(r) \/ ForgotMark(r) \/ ForgotThrows(r)
           \/ \E k \in Tokens : ResetBegin(r, k)
           \/ ResetPassword(r) \/ ResetRetire(r) \/ ResetActivate(r) \/ Stop(r)
    PROVE  (Owned /\ AllInFlight /\ OneMails)'
  <1>0. TypeInv /\ TypeOK /\ InFlight(req[r], token, mailed)
    BY DEF RecoveryInv, LinkInv, TypeInv, AllInFlight
  <1>s. {"grant", "insert", "lookup", "mark", "undo", "resent"} \subseteq Step
    BY DEF Step
  <1>i. \A x : x.step \notin {"lookup", "mark", "store", "mail",
                              "reset", "password", "retire", "activate"} =>
               InFlight(x, token, mailed) /\ x.step # "mail"
    BY DEF InFlight, Resetting
  <1>l. CASE Leave(r)
    BY <1>0, <1>i, <1>l, LeaveEffect, FlightGoesOn
  <1>g. ASSUME NEW s \in {"grant", "insert", "undo", "resent"}, Goto(r, s)
        PROVE  (Owned /\ AllInFlight /\ OneMails)'
    BY <1>0, <1>s, <1>i, <1>g, GotoEffect, FlightGoesOn
  <1>m. ASSUME NEW s \in {"lookup", "mark"}, Goto(r, s), req[r].email \in Emails
        PROVE  (Owned /\ AllInFlight /\ OneMails)'
    <2>1. /\ \A q \in Requests \ {r} : req'[q] = req[q]
          /\ req'[r].step = s /\ req'[r].email = req[r].email
      BY <1>0, <1>s, <1>m, GotoEffect
    <2>2. InFlight(req'[r], token, mailed) /\ req'[r].step # "mail"
      BY <1>m, <2>1 DEF InFlight, Resetting
    <2> QED
      BY <2>1, <2>2, FlightGoesOn
  <1>b. ASSUME NEW x \in Request, req' = [req EXCEPT ![r] = x], InFlight(x, token, mailed),
               x.step # "mail"
        PROVE  (Owned /\ AllInFlight /\ OneMails)'
    BY <1>0, <1>b, BeginEffect, FlightGoesOn
  <1>1. ASSUME NEW t \in Trainees,
               ApproveBegin(r, t) \/ ResendBegin(r, t) \/ UpdateTraineeBegin(r, t)
        PROVE  (Owned /\ AllInFlight /\ OneMails)'
    <2>1. CASE ApproveBegin(r, t)
      <3> DEFINE x == [Idle EXCEPT !.step = "approve", !.caller = "approve",
                                   !.trainee = t, !.email = email[t]]
      <3>1. x \in Request /\ req' = [req EXCEPT ![r] = x] /\ x.step = "approve"
        BY <1>0, <2>1, TypeRecords DEF ApproveBegin, Idle
      <3> HIDE DEF x
      <3> QED
        BY <1>b, <1>i, <3>1
    <2>2. CASE ResendBegin(r, t)
      <3> DEFINE x == [Idle EXCEPT !.step = "lookup", !.caller = "resend",
                                   !.trainee = t, !.email = email[t]]
      <3>1. x \in Request /\ req' = [req EXCEPT ![r] = x] /\ x.step = "lookup" /\ x.email \in Emails
        BY <1>0, <2>2, TypeRecords DEF ResendBegin, Idle, TypeOK
      <3> HIDE DEF x
      <3> QED
        BY <1>b, <3>1 DEF InFlight, Resetting
    <2>3. CASE UpdateTraineeBegin(r, t)
      <3> DEFINE x == [Idle EXCEPT !.step = "save", !.trainee = t, !.was = portal[t]]
      <3>1. x \in Request /\ req' = [req EXCEPT ![r] = x] /\ x.step = "save"
        BY <1>0, <2>3, TypeRecords DEF UpdateTraineeBegin, Idle
      <3> HIDE DEF x
      <3> QED
        BY <1>b, <1>i, <3>1
    <2> QED
      BY <1>1, <2>1, <2>2, <2>3
  <1>2. CASE Approve(r) \/ ResendCommit(r)
    <2>1. CASE ApproveCommit(r)
      <3> DEFINE x == [req[r] EXCEPT !.step = "lookup", !.user = None]
      <3>1. x \in Request /\ x.step = "lookup" /\ x.email = req[r].email
        BY <1>0, CommitRecord
      <3>2. req' = [req EXCEPT ![r] = x] /\ req[r].email \in Emails
        BY <1>0, <2>1 DEF ApproveCommit, TypeInv, Addressed
      <3> HIDE DEF x
      <3> QED
        BY <1>b, <3>1, <3>2 DEF InFlight, Resetting
    <2>2. ASSUME NEW e \in Emails,
                 req' = [req EXCEPT ![r] = [req[r] EXCEPT !.step = "grant", !.user = e]]
          PROVE  (Owned /\ AllInFlight /\ OneMails)'
      <3> DEFINE x == [req[r] EXCEPT !.step = "grant", !.user = e]
      <3>1. x \in Request /\ x.step = "grant"
        BY <1>0, GrantRecord
      <3>2. req' = [req EXCEPT ![r] = x]
        BY <2>2
      <3> HIDE DEF x
      <3> QED
        BY <1>b, <1>i, <3>1, <3>2
    <2>3. CASE ApproveLock(r)
      <3>1. req[r].email \in Emails
        BY <1>0, <2>3 DEF ApproveLock, TypeInv, Addressed
      <3> QED
        BY <1>l, <2>2, <2>3, <3>1 DEF ApproveLock
    <2>4. CASE ApproveInsert(r)
      <3>1. email[req[r].trainee] \in Emails
        BY <1>0, <2>4 DEF ApproveInsert, TypeInv, Addressed, TypeOK
      <3> QED
        BY <2>2, <2>4, <3>1 DEF ApproveInsert
    <2>5. CASE ~ ApproveCommit(r) /\ ~ ApproveLock(r) /\ ~ ApproveInsert(r)
      <3>1. Leave(r) \/ Goto(r, "insert")
        BY <1>2, <2>5 DEF Approve, ApproveNoAccount, ApproveDuplicate, ApproveUndo, ResendCommit
      <3> QED
        BY <1>l, <1>g, <3>1
    <2> QED
      BY <2>1, <2>3, <2>4, <2>5
  <1>3. ASSUME NEW e \in Emails, ForgotBegin(r, e) PROVE (Owned /\ AllInFlight /\ OneMails)'
    <2> DEFINE x == [Idle EXCEPT !.step = "lookup", !.caller = "forgot", !.email = e]
    <2>1. x \in Request /\ req' = [req EXCEPT ![r] = x] /\ x.step = "lookup" /\ x.email \in Emails
      BY <1>3, ForgotRecord DEF ForgotBegin, Idle
    <2> HIDE DEF x
    <2> QED
      BY <1>b, <2>1 DEF InFlight, Resetting
  <1>4. ASSUME NEW e \in Emails, UpdateTraineeSave(r, e) PROVE (Owned /\ AllInFlight /\ OneMails)'
    BY <1>l, <1>4 DEF UpdateTraineeSave
  <1>5. CASE ForgotLookup(r)
    <2>1. req[r].email \in Emails
      BY <1>0, <1>5 DEF ForgotLookup, InFlight
    <2>2. Goto(r, "mark") \/ Leave(r) \/ Goto(r, "resent")
      BY <1>5 DEF ForgotLookup, Return
    <2> QED
      BY <1>l, <1>g, <1>m, <2>1, <2>2
  <1>6. CASE ForgotMark(r)
    <2> DEFINE x == [req[r] EXCEPT !.step = "store", !.seen = Unused(req[r].email)]
    <2>1. /\ x \in Request /\ req' = [req EXCEPT ![r] = x] /\ x.step = "store"
          /\ x.email = req[r].email /\ x.seen = Unused(req[r].email)
      <3>1. "store" \in Step /\ Unused(req[r].email) \subseteq Tokens
        BY DEF Step, Unused
      <3> QED
        BY <1>0, <1>6, <3>1, ZenonT(60) DEF TypeOK, Request, ForgotMark
    <2>2. req[r].email \in Emails
      BY <1>0, <1>6 DEF ForgotMark, InFlight
    <2> HIDE DEF x
    <2>3. InFlight(x, token, mailed)
      BY <2>1, <2>2 DEF InFlight, Unused, Resetting
    <2> QED
      BY <1>b, <2>1, <2>3
  <1>7. CASE ForgotThrows(r)
    BY <1>l, <1>g, <1>7 DEF ForgotThrows
  <1>8. ASSUME NEW k \in Tokens, ResetBegin(r, k) PROVE (Owned /\ AllInFlight /\ OneMails)'
    <2> DEFINE x == [Idle EXCEPT !.step = "reset", !.tok = k]
    <2>1. /\ x \in Request /\ req' = [req EXCEPT ![r] = x] /\ x.step = "reset" /\ x.tok = k
          /\ k \in mailed /\ x.known = {}
      BY <1>8, ResetRecord DEF ResetBegin, Idle
    <2> HIDE DEF x
    <2> QED
      BY <1>b, <2>1 DEF InFlight, Resetting
  <1>9. CASE Stop(r)
    BY <1>l, <1>9 DEF Stop
  <1>10. CASE ResetPassword(r) \/ ResetRetire(r) \/ ResetActivate(r)
    <2> DEFINE k == req[r].tok
    <2>0. /\ \A q \in Requests \ {r} : req'[q] = req[q]
          /\ req[r].step \in Resetting /\ req'[r].step \in Resetting
          /\ k \in Tokens /\ req'[r].tok = k
          /\ k \in mailed /\ req[r].known \subseteq mailed
      BY <1>0, <1>10, ResetMoves DEF InFlight
    <2>1. CASE ResetPassword(r)
      <3>1. req'[r].step = "password" /\ req'[r].known \subseteq mailed
        BY <1>0, <2>0, <2>1, ResetMoves
      <3>2. InFlight(req'[r], token, mailed) /\ req'[r].step # "mail"
        BY <2>0, <3>1 DEF InFlight
      <3> QED
        BY <2>0, <3>2, FlightGoesOn
    <2>2. CASE ResetRetire(r)
      <3>1. /\ req'[r].step = "retire" /\ req'[r].known = req[r].known
            /\ req'[r].seen = Unused(token[k].email) \ {k}
        BY <1>0, <2>2, ResetMoves
      <3>2. req[r].known \subseteq Tokens
        BY <1>0 DEF TypeOK, Request
      <3>3. InFlight(req'[r], token, mailed) /\ req'[r].step # "mail"
        BY <2>0, <3>1, <3>2 DEF InFlight, Unused
      <3> QED
        BY <2>0, <3>3, FlightGoesOn
    <2>3. CASE ResetActivate(r)
      <3>1. /\ req[r].step = "retire" /\ req'[r].step = "activate" /\ req'[r].known = req[r].known
            /\ req'[r].seen = req[r].seen \cap Unused(token[k].email)
        BY <1>0, <2>3, ResetMoves
      <3>2. req[r].known \subseteq Tokens
        BY <1>0 DEF TypeOK, Request
      <3>3. InFlight(req'[r], token, mailed) /\ req'[r].step # "mail"
        BY <1>0, <2>0, <3>1, <3>2 DEF InFlight, Unused
      <3> QED
        BY <2>0, <3>3, FlightGoesOn
    <2> QED
      BY <1>10, <2>1, <2>2, <2>3
  <1> QED
    BY <1>1, <1>2, <1>3, <1>4, <1>5, <1>6, <1>7, <1>8, <1>9, <1>10

(* Rows keep their account, none appears or vanishes or is unused again. *)
SameOwners ==
    \A j \in Tokens : /\ token'[j].email = token[j].email
                      /\ token'[j].state = "ABSENT" <=> token[j].state = "ABSENT"
                      /\ token'[j].state = "UNUSED" => token[j].state = "UNUSED"

(* A request ends its mail or its reset. *)
LEMMA FlightEnds ==
    ASSUME RecoveryInv, SameOwners, NEW r \in Requests,
           \A q \in Requests \ {r} : req'[q] = req[q],
           req'[r].step \in {"idle", "resent"},
           mailed' = mailed \/ (req[r].step = "mail" /\ mailed' = mailed \cup {req[r].tok})
    PROVE  (Owned /\ AllInFlight /\ OneMails)'
  <1>0. /\ TypeInv /\ TypeOK /\ Owned /\ AllInFlight /\ OneMails
        /\ InFlight(req[r], token, mailed)
    BY DEF RecoveryInv, LinkInv, TypeInv, AllInFlight
  <1>1. Owned'
    BY <1>0 DEF Owned, SameOwners, InFlight
  <1>2. AllInFlight'
    <2> SUFFICES ASSUME NEW q \in Requests PROVE InFlight(req'[q], token', mailed')
      BY DEF AllInFlight
    <2>1. CASE q = r
      BY <2>1 DEF InFlight, Resetting
    <2>2. CASE q # r
      <3>1. req'[q] = req[q] /\ InFlight(req[q], token, mailed)
        BY <1>0, <2>2 DEF AllInFlight
      <3>2. \A j \in req[q].seen \cup req[q].known : j \in Tokens
        BY <1>0 DEF TypeOK, Request
      <3>4. req[q].step \in Resetting => req[q].tok \in Tokens
        BY <1>0 DEF TypeInv, Addressed
      <3>5. mailed \subseteq mailed'
        OBVIOUS
      <3>3. req[q].step = "mail" => req[q].tok \in Tokens /\ req[q].tok \notin mailed'
        BY <1>0, <2>2, <3>1 DEF InFlight, OneMails, TypeInv, Addressed
      <3> QED
        BY <3>1, <3>2, <3>3, <3>4, <3>5 DEF InFlight, SameOwners, Resetting
    <2> QED
      BY <2>1, <2>2
  <1>3. OneMails'
    BY <1>0 DEF OneMails
  <1> QED
    BY <1>1, <1>2, <1>3

(* What each of the four steps that change the links does to the rows. *)
LEMMA StoreEffect ==
    ASSUME RecoveryInv, NEW r \in Requests, NEW k \in Tokens, ForgotStore(r, k)
    PROVE  /\ token[k].state = "ABSENT" /\ token[k].email = None
           /\ req[r].email \in Emails /\ token'[k].email = req[r].email
           /\ token'[k].state = "UNUSED"
           /\ \A j \in Tokens \ {k} :
                 /\ token'[j].email = token[j].email
                 /\ token'[j].state = "ABSENT" <=> token[j].state = "ABSENT"
                 /\ token'[j].state # token[j].state =>
                       (/\ token[j].state = "UNUSED" /\ token'[j].state = "USED"
                        /\ token[j].email = req[r].email)
           /\ mailed' = mailed /\ uses' = uses
  <1>0. /\ TypeInv /\ TypeOK /\ Owned /\ InFlight(req[r], token, mailed)
    BY DEF RecoveryInv, LinkInv, TypeInv, AllInFlight
  <1>1. token[k].state = "ABSENT" /\ token[k].email = None /\ mailed' = mailed /\ uses' = uses
    BY <1>0 DEF ForgotStore, Owned
  <1>2. /\ req[r].email \in Emails
        /\ \A j \in req[r].seen : token[j].email = req[r].email
    BY <1>0 DEF ForgotStore, InFlight
  <1>3. token'[k].email = req[r].email /\ token'[k].state = "UNUSED"
    BY DEF ForgotStore
  <1>4. ASSUME NEW j \in Tokens \ {k}
        PROVE  /\ token'[j].email = token[j].email
               /\ token'[j].state = "ABSENT" <=> token[j].state = "ABSENT"
               /\ token'[j].state # token[j].state =>
                     (/\ token[j].state = "UNUSED" /\ token'[j].state = "USED"
                      /\ token[j].email = req[r].email)
    <2>1. token[j] \in Token /\ [token[j] EXCEPT !.state = "USED"].state = "USED"
          /\ [token[j] EXCEPT !.state = "USED"].email = token[j].email
      BY <1>0 DEF TypeOK, Token
    <2>2. token'[j] = IF j \in req[r].seen /\ token[j].state = "UNUSED"
                      THEN [token[j] EXCEPT !.state = "USED"] ELSE token[j]
      BY DEF ForgotStore
    <2> QED
      BY <1>2, <2>1, <2>2
  <1> QED
    BY <1>1, <1>2, <1>3, <1>4

LEMMA MailFailsEffect ==
    ASSUME RecoveryInv, NEW r \in Requests, ForgotMailFails(r)
    PROVE  /\ SameOwners /\ req[r].tok \in Tokens
           /\ token'[req[r].tok].state = "DELETED"
           /\ \A j \in Tokens \ {req[r].tok} : token'[j] = token[j]
  <1>0. /\ TypeInv /\ TypeOK /\ InFlight(req[r], token, mailed)
        /\ req[r].tok \in Tokens /\ req[r].step = "mail"
    BY DEF RecoveryInv, LinkInv, TypeInv, AllInFlight, ForgotMailFails, Addressed
  <1>1. token[req[r].tok].state # "ABSENT"
    BY <1>0 DEF InFlight
  <1>2. /\ token'[req[r].tok] = [token[req[r].tok] EXCEPT !.state = "DELETED"]
        /\ \A j \in Tokens \ {req[r].tok} : token'[j] = token[j]
    BY <1>0 DEF ForgotMailFails, TypeOK
  <1>3. token'[req[r].tok].state = "DELETED" /\ token'[req[r].tok].email = token[req[r].tok].email
    BY <1>0, <1>2 DEF TypeOK, Token
  <1> QED
    BY <1>0, <1>1, <1>2, <1>3 DEF SameOwners

LEMMA ResetEffect ==
    ASSUME RecoveryInv, NEW r \in Requests, ResetCommit(r)
    PROVE  /\ SameOwners /\ req[r].tok \in Tokens
           /\ token[req[r].tok].state = "UNUSED" /\ req[r].tok \in mailed
           /\ \A j \in Retired(r) : j \in Tokens /\ token[j].email = token[req[r].tok].email
           /\ \A j \in Tokens :
                 token'[j].state = "UNUSED" <=> (token[j].state = "UNUSED" /\ j \notin Retired(r))
           /\ mailed' = mailed
           /\ uses' = IF req[r].user = None THEN uses ELSE [uses EXCEPT ![req[r].tok] = @ + 1]
  <1> DEFINE k == req[r].tok
  <1>0. /\ TypeInv /\ TypeOK /\ Held /\ Owned /\ InFlight(req[r], token, mailed)
        /\ k \in Tokens /\ req[r].step = "activate" /\ req[r].step \in Resetting
    BY DEF RecoveryInv, LinkInv, TypeInv, AllInFlight, ResetCommit, Addressed, Resetting
  <1>1. token[k].state = "UNUSED" /\ k \in mailed
    BY <1>0 DEF Held, InFlight
  <1>2. \A j \in Retired(r) : j \in Tokens /\ token[j].email = token[k].email
    BY <1>0 DEF Retired, InFlight, TypeOK, Request
  <1>3. ASSUME NEW j \in Tokens
        PROVE  /\ token'[j].email = token[j].email
               /\ token'[j].state = "ABSENT" <=> token[j].state = "ABSENT"
               /\ token'[j].state = "UNUSED" <=> (token[j].state = "UNUSED" /\ j \notin Retired(r))
    <2>1. token[j] \in Token /\ [token[j] EXCEPT !.state = "USED"].state = "USED"
          /\ [token[j] EXCEPT !.state = "USED"].email = token[j].email
      BY <1>0 DEF TypeOK, Token
    <2>2. token'[j] = IF j \in Retired(r) THEN [token[j] EXCEPT !.state = "USED"] ELSE token[j]
      BY DEF ResetCommit
    <2>3. j \in Retired(r) => token[j].state # "ABSENT"
      BY <1>0, <1>1, <1>2 DEF Owned
    <2> QED
      BY <2>1, <2>2, <2>3
  <1>4. mailed' = mailed /\ uses' = IF req[r].user = None THEN uses ELSE [uses EXCEPT ![k] = @ + 1]
    BY DEF ResetCommit
  <1> QED
    BY <1>0, <1>1, <1>2, <1>3, <1>4 DEF SameOwners

LEMMA StoreStep ==
    ASSUME RecoveryInv, NEW r \in Requests, NEW k \in Tokens, ForgotStore(r, k)
    PROVE  (Owned /\ AllInFlight /\ OneMails)'
  <1> DEFINE x == [req[r] EXCEPT !.step = "mail", !.tok = k, !.seen = {}]
  <1>0. /\ TypeInv /\ TypeOK /\ Owned /\ AllInFlight /\ OneMails
    BY DEF RecoveryInv, LinkInv, TypeInv
  <1>1. /\ x \in Request /\ x.step = "mail" /\ x.tok = k
        /\ req' = [req EXCEPT ![r] = x]
    <2>1. "mail" \in Step
      BY DEF Step
    <2> QED
      BY <1>0, <2>1, ZenonT(60) DEF TypeOK, Request, ForgotStore
  <1> HIDE DEF x
  <1>2. /\ req'[r] = x
        /\ \A q \in Requests \ {r} : req'[q] = req[q]
    BY <1>0, <1>1, BeginEffect
  <1>3. /\ token[k].state = "ABSENT" /\ token[k].email = None
        /\ req[r].email \in Emails /\ token'[k].email = req[r].email
        /\ token'[k].state = "UNUSED" /\ mailed' = mailed
        /\ \A j \in Tokens \ {k} :
              /\ token'[j].email = token[j].email
              /\ token'[j].state = "ABSENT" <=> token[j].state = "ABSENT"
              /\ token'[j].state = "UNUSED" => token[j].state = "UNUSED"
    BY StoreEffect
  <1>4. k \notin mailed /\ req[r].email # None
    BY <1>0, <1>3, PortalAssumption DEF Owned
  <1>5. Owned'
    BY <1>0, <1>3, <1>4 DEF Owned
  <1>6. AllInFlight'
    <2> SUFFICES ASSUME NEW q \in Requests PROVE InFlight(req'[q], token', mailed')
      BY DEF AllInFlight
    <2>1. CASE q = r
      BY <1>1, <1>2, <1>3, <1>4, <2>1 DEF InFlight, Resetting
    <2>2. CASE q # r
      <3>1. req'[q] = req[q] /\ InFlight(req[q], token, mailed)
        BY <1>0, <1>2, <2>2 DEF AllInFlight
      <3>2. \A j \in req[q].seen \cup req[q].known : j \in Tokens
        BY <1>0 DEF TypeOK, Request
      <3>3. req[q].step \in {"mail"} \cup Resetting => req[q].tok \in Tokens
        BY <1>0 DEF TypeInv, Addressed
      <3>4. req[q].step = "store" => \A j \in req[q].seen : j # k
        BY <1>3, <3>1, PortalAssumption DEF InFlight
      <3>5. req[q].step \in Resetting =>
               /\ req[q].tok # k /\ req[q].tok \in mailed
               /\ \A j \in req[q].known : j # k
        BY <1>4, <3>1 DEF InFlight
      <3>6. req[q].step \in {"retire", "activate"} => \A j \in req[q].seen : j # k
        BY <1>0, <1>3, <3>1, <3>3, <3>5 DEF InFlight, Owned, Resetting
      <3> QED
        BY <1>3, <3>1, <3>2, <3>3, <3>4, <3>5, <3>6 DEF InFlight, Resetting
    <2> QED
      BY <2>1, <2>2
  <1>7. OneMails'
    <2>1. \A q \in Requests \ {r} : req[q].step = "mail" => req[q].tok # k
      BY <1>0, <1>3 DEF AllInFlight, InFlight
    <2> QED
      BY <1>0, <1>1, <1>2, <2>1 DEF OneMails
  <1> QED
    BY <1>5, <1>6, <1>7

LEMMA RecoveryStep == RecoveryInv /\ [Next]_vars => RecoveryInv'
  <1> SUFFICES ASSUME RecoveryInv, [Next]_vars PROVE RecoveryInv'
    OBVIOUS
  <1>0. LinkInv /\ LinkInv' /\ TypeOK
    BY LinkStep DEF RecoveryInv, LinkInv, TypeInv
  <1> SUFFICES (Owned /\ AllInFlight /\ OneMails)'
    BY <1>0 DEF RecoveryInv
  <1>1. ASSUME NEW r \in Requests, NEW k \in Tokens, ForgotStore(r, k)
        PROVE  (Owned /\ AllInFlight /\ OneMails)'
    BY <1>1, StoreStep
  <1>2. ASSUME NEW r \in Requests, ForgotMail(r) PROVE (Owned /\ AllInFlight /\ OneMails)'
    <2>1. SameOwners
      BY <1>2 DEF ForgotMail, rows, SameOwners
    <2>2. /\ \A q \in Requests \ {r} : req'[q] = req[q]
          /\ req'[r].step \in {"idle", "resent"}
          /\ req[r].step = "mail" /\ mailed' = mailed \cup {req[r].tok}
      BY <1>0, <1>2, ReturnEffect DEF ForgotMail
    <2> QED
      BY <2>1, <2>2, FlightEnds
  <1>3. ASSUME NEW r \in Requests, ForgotMailFails(r) PROVE (Owned /\ AllInFlight /\ OneMails)'
    <2>1. SameOwners
      BY <1>3, MailFailsEffect
    <2>2. /\ \A q \in Requests \ {r} : req'[q] = req[q]
          /\ req'[r].step \in {"idle", "resent"}
          /\ mailed' = mailed \/ (req[r].step = "mail" /\ mailed' = mailed \cup {req[r].tok})
      BY <1>0, <1>3, ReturnEffect DEF ForgotMailFails
    <2> QED
      BY <2>1, <2>2, FlightEnds
  <1>4. ASSUME NEW r \in Requests, ResetCommit(r) PROVE (Owned /\ AllInFlight /\ OneMails)'
    <2>1. SameOwners /\ mailed' = mailed
      BY <1>4, ResetEffect
    <2>2. Leave(r)
      BY <1>4 DEF ResetCommit
    <2>3. /\ \A q \in Requests \ {r} : req'[q] = req[q]
          /\ req'[r].step \in {"idle", "resent"}
      BY <1>0, <2>2, LeaveEffect
    <2> QED
      BY <2>1, <2>3, FlightEnds
  <1>5. CASE /\ \A r \in Requests, k \in Tokens : ~ ForgotStore(r, k)
             /\ \A r \in Requests : ~ ForgotMail(r) /\ ~ ForgotMailFails(r) /\ ~ ResetCommit(r)
    <2>1. token' = token /\ mailed' = mailed
      BY <1>5, RecoveryUntouched
    <2>2. CASE UNCHANGED req
      BY <2>1, <2>2 DEF RecoveryInv, Owned, AllInFlight, OneMails
    <2>3. ASSUME NEW r \in Requests, NEW t \in Trainees,
                 ApproveBegin(r, t) \/ ResendBegin(r, t) \/ UpdateTraineeBegin(r, t)
          PROVE  (Owned /\ AllInFlight /\ OneMails)'
      BY <2>1, <2>3, FlightSteps
    <2>4. ASSUME NEW r \in Requests, NEW e \in Emails, ForgotBegin(r, e) \/ UpdateTraineeSave(r, e)
          PROVE  (Owned /\ AllInFlight /\ OneMails)'
      BY <2>1, <2>4, FlightSteps
    <2>5. ASSUME NEW r \in Requests,
                 Approve(r) \/ ResendCommit(r) \/ Forgot(r) \/ Reset(r) \/ Stop(r)
          PROVE  (Owned /\ AllInFlight /\ OneMails)'
      BY <1>5, <2>1, <2>5, FlightSteps DEF Forgot, Reset
    <2>6. CASE \/ Refuse \/ Tick \/ UNCHANGED vars
               \/ \E t \in Trainees : Reject(t)
               \/ \E e \in Emails : UpdateUserStatus(e)
               \/ \E p \in Emails \X Trainees : CreateLink(p[1], p[2]) \/ RemoveLink(p)
      <3>1. UNCHANGED req
        BY <2>6 DEF Refuse, Tick, vars, Reject, UpdateUserStatus, CreateLink, RemoveLink
      <3> QED
        BY <2>2, <3>1
    <2> QED
      BY <2>3, <2>4, <2>5, <2>6 DEF Next
  <1> QED
    BY <1>1, <1>2, <1>3, <1>4, <1>5

(* Every step makes, sends, withdraws or uses a link, or leaves them alone. *)
LEMMA RecoveryRefines ==
    ASSUME RecoveryInv, [Next]_vars
    PROVE  [Recovery!Next]_(Recovery!recovery)
  <1> DEFINE own == [k \in Tokens |-> token[k].email]
             able == {k \in Tokens : token[k].state = "UNUSED"}
  <1>0. TypeInv /\ TypeOK /\ Owned /\ AllInFlight
    BY DEF RecoveryInv, LinkInv, TypeInv
  <1>1. ASSUME NEW r \in Requests, NEW k \in Tokens, ForgotStore(r, k) PROVE Recovery!Next
    <2> DEFINE retired == {j \in Tokens \ {k} : token[j].state = "UNUSED" /\ token'[j].state # "UNUSED"}
    <2>1. /\ token[k].state = "ABSENT" /\ token[k].email = None
          /\ req[r].email \in Emails /\ token'[k].email = req[r].email
          /\ token'[k].state = "UNUSED"
          /\ \A j \in Tokens \ {k} :
                /\ token'[j].email = token[j].email
                /\ token'[j].state # token[j].state =>
                      (/\ token[j].state = "UNUSED" /\ token'[j].state = "USED"
                       /\ token[j].email = req[r].email)
          /\ mailed' = mailed /\ uses' = uses
      BY <1>1, StoreEffect
    <2>2. own[k] = None /\ own' = [own EXCEPT ![k] = req[r].email]
      BY <2>1
    <2>3. retired \subseteq {j \in Tokens : own[j] = req[r].email}
      BY <2>1
    <2>4. able' = (able \ retired) \cup {k}
      BY <2>1
    <2>5. PICK e \in Emails : e = req[r].email
      BY <2>1
    <2>6. Recovery!Make(k, e)
      BY <2>1, <2>2, <2>3, <2>4, <2>5 DEF Recovery!Make, Recovery!Of
    <2> QED
      BY <2>6 DEF Recovery!Next
  <1>2. ASSUME NEW r \in Requests, ForgotMail(r) PROVE Recovery!Next
    <2>0. PICK k \in Tokens : k = req[r].tok
      BY <1>0, <1>2 DEF ForgotMail, TypeInv, Addressed
    <2>1. token[k].state # "ABSENT" /\ k \notin mailed
      BY <1>0, <1>2, <2>0 DEF ForgotMail, AllInFlight, InFlight
    <2>2. token[k].email # None
      BY <1>0, <2>1 DEF Owned
    <2>3. mailed' = mailed \cup {k} /\ token' = token /\ uses' = uses
      BY <1>2, <2>0 DEF ForgotMail, rows
    <2>4. Recovery!Send(k)
      BY <2>1, <2>2, <2>3 DEF Recovery!Send
    <2> QED
      BY <2>4 DEF Recovery!Next
  <1>3. ASSUME NEW r \in Requests, ForgotMailFails(r) PROVE Recovery!Next
    <2>0. PICK k \in Tokens : k = req[r].tok
      BY <1>0, <1>3 DEF ForgotMailFails, TypeInv, Addressed
    <2>1. token[k].state # "ABSENT" /\ k \notin mailed
      BY <1>0, <1>3, <2>0 DEF ForgotMailFails, AllInFlight, InFlight
    <2>2. token[k].email # None
      BY <1>0, <2>1 DEF Owned
    <2>3. mailed' \in {mailed, mailed \cup {k}} /\ uses' = uses
      BY <1>3, <2>0 DEF ForgotMailFails
    <2>4. own' = own /\ able' = able \ {k}
      BY <1>3, <2>0, MailFailsEffect DEF SameOwners
    <2>5. Recovery!Withdraw(k)
      BY <2>1, <2>2, <2>3, <2>4 DEF Recovery!Withdraw
    <2> QED
      BY <2>5 DEF Recovery!Next
  <1>4. ASSUME NEW r \in Requests, ResetCommit(r) PROVE Recovery!Next
    <2>0. PICK k \in Tokens : k = req[r].tok
      BY <1>4, ResetEffect
    <2>1. /\ SameOwners /\ token[k].state = "UNUSED" /\ k \in mailed
          /\ \A j \in Retired(r) : j \in Tokens /\ token[j].email = token[k].email
          /\ \A j \in Tokens :
                token'[j].state = "UNUSED" <=> (token[j].state = "UNUSED" /\ j \notin Retired(r))
          /\ mailed' = mailed
          /\ uses' = uses \/ uses' = [uses EXCEPT ![k] = @ + 1]
      BY <1>4, <2>0, ResetEffect
    <2>2. own' = own
      BY <2>1 DEF SameOwners
    <2>3. able' = able \ Retired(r)
      BY <2>1
    <2>4. k \in Retired(r) /\ Retired(r) \subseteq {j \in Tokens : own[j] = own[k]}
      BY <2>0, <2>1 DEF Retired
    <2>5. Recovery!Spend(k)
      BY <2>1, <2>2, <2>3, <2>4 DEF Recovery!Spend, Recovery!Of
    <2>6. Recovery!Use(k) \/ Recovery!Waste(k)
      BY <2>1, <2>5 DEF Recovery!Use, Recovery!Waste
    <2> QED
      BY <2>6 DEF Recovery!Next
  <1>5. CASE /\ \A r \in Requests, k \in Tokens : ~ ForgotStore(r, k)
             /\ \A r \in Requests : ~ ForgotMail(r) /\ ~ ForgotMailFails(r) /\ ~ ResetCommit(r)
    BY <1>5, RecoveryUntouched DEF Recovery!recovery
  <1> QED
    BY <1>1, <1>2, <1>3, <1>4, <1>5

(* Any number of forgotPassword and resetPassword requests, approvals and  *)
(* resends keep the promises of PasswordLinks: a link belongs to one       *)
(* account, is sent once, and sets a password only after it was sent and   *)
(* while it is good.                                                       *)
THEOREM RecoveryImplementsLinks == Spec => RecoveryKept
  <1>1. Init => Recovery!Init
    BY DEF Init, Recovery!Init, NoToken
  <1>2. RecoveryInv /\ [Next]_vars => [Recovery!Next]_(Recovery!recovery)
    BY RecoveryRefines
  <1> QED
    BY <1>1, <1>2, RecoveryInit, RecoveryStep, PTL DEF Spec, RecoveryKept, Recovery!Spec

-----------------------------------------------------------------------------
(* What a reset has seen when it commits covers every link mailed before   *)
(* it wrote the password.                                                  *)
LEMMA RetiresStep ==
    ASSUME RecoveryInv, [Next]_vars
    PROVE  [\A r \in Requests :
              (uses' # uses /\ req[r].step = "activate" /\ req'[r] # req[r])
              => \A j \in req[r].known :
                    token[j].email = token[req[r].tok].email => token'[j].state # "UNUSED"]_vars
  <1> SUFFICES ASSUME NEW r \in Requests, uses' # uses, req[r].step = "activate", req'[r] # req[r],
                      NEW j \in req[r].known, token[j].email = token[req[r].tok].email
               PROVE  token'[j].state # "UNUSED"
    OBVIOUS
  <1>0. TypeOK /\ j \in Tokens /\ InFlight(req[r], token, mailed)
    BY DEF RecoveryInv, LinkInv, TypeInv, TypeOK, Request, AllInFlight
  <1>1. \A q \in Requests, i \in Tokens : ~ ForgotStore(q, i)
    BY DEF ForgotStore
  <1>2. \A q \in Requests : ~ ForgotMailFails(q)
    BY DEF ForgotMailFails
  <1>3. PICK q \in Requests : ResetCommit(q)
    BY <1>1, <1>2, LinksUntouched
  <1>4. Leave(q)
    BY <1>3 DEF ResetCommit
  <1>5. q = r
    BY <1>0, <1>4, LeaveEffect
  <1>6. token'[j].state = "UNUSED" <=> (token[j].state = "UNUSED" /\ j \notin Retired(r))
    BY <1>0, <1>3, <1>5, ResetEffect
  <1>7. token[j].state = "UNUSED" => j \in Retired(r)
    BY <1>0 DEF InFlight, Retired
  <1> QED
    BY <1>6, <1>7

(* A reset that commits its password retires every link of the account     *)
(* that had been mailed when the password was written, whatever the other  *)
(* requests do between its statements.                                     *)
THEOREM ResetsRetireAllLinks == Spec => ResetRetiresAllLinks
  <1> QED
    BY RecoveryInit, RecoveryStep, RetiresStep, PTL DEF Spec, ResetRetiresAllLinks
=============================================================================
