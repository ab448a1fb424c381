---------------------------- MODULE SaasBilling -----------------------------
(***************************************************************************)
(* What the platform charges the academies for: the subscriptions and      *)
(* payments of backend/src/super-admin-saas.                               *)
(*                                                                         *)
(* No handler here opens a transaction or locks a row.  createPayment and  *)
(* renewSubscription read the subscription, insert the payment, and save   *)
(* what they read with their change; save itself selects the row again and *)
(* then updates the columns in which it found a difference.  Any other     *)
(* request may come between these statements, and a failure ends the       *)
(* request where it stands.                                                *)
(*                                                                         *)
(* Left out: plans, whose prices reach a subscription as numbers, and      *)
(* payments that name no subscription.  Dates are day numbers; addMonths   *)
(* yields some later day.  The status is written when a row is created or  *)
(* renewed and never brought up to date, so it is not compared with dates. *)
(***************************************************************************)
EXTENDS Integers

CONSTANTS
    Subs,       \* identifiers of academy_saas_subscriptions rows
    Requests,   \* requests of super admins that may run at the same time
    MaxDay,     \* bound: last day of the clock and of a term
    MaxAmount,  \* bound: what may be received for one subscription
    None

ASSUME SaasAssumption ==
    /\ MaxDay \in Nat /\ MaxAmount \in Nat
    /\ None \notin Subs

VARIABLES
    today,
    row,       \* the columns of each subscription
    opening,   \* the paidAmount a subscription was created with
    receipts,  \* SUM(amount) of the saas_payments rows of a subscription
    req,       \* where each request stands
    disturbed  \* history: subscriptions on which requests overlapped or failed

vars == <<today, row, opening, receipts, req, disturbed>>

Days == 0..MaxDay
Amounts == 0..MaxAmount
Columns == {"status", "ends", "paid"}

Row == [status : {"ABSENT", "PENDING", "ACTIVE", "EXPIRED"}, ends : Days, paid : Amounts]

(* entity: the object in memory; dirty: the columns save will update. *)
Request == [step : {"idle", "pay", "renew", "save", "update"}, sub : Subs \cup {None},
            entity : Row, dirty : SUBSET Columns]

NoRow == [status |-> "ABSENT", ends |-> 0, paid |-> 0]
Idle == [step |-> "idle", sub |-> None, entity |-> NoRow, dirty |-> {}]

Init ==
    /\ today = 0
    /\ row = [s \in Subs |-> NoRow]
    /\ opening = [s \in Subs |-> 0]
    /\ receipts = [s \in Subs |-> 0]
    /\ req = [r \in Requests |-> Idle]
    /\ disturbed = {}

-----------------------------------------------------------------------------
Exists(s) == row[s].status # "ABSENT"

Busy(s) == \E r \in Requests : req[r].step # "idle" /\ req[r].sub = s

(* Slip: a status the column is not meant to hold. *)
ResolveStatusOverdue(start, end) ==
    IF end < today THEN "OVERDUE" ELSE IF start > today THEN "PENDING" ELSE "ACTIVE"

ResolveStatus(start, end) ==
    IF end < today THEN "EXPIRED" ELSE IF start > today THEN "PENDING" ELSE "ACTIVE"

(* Nothing compares endsAt with startsAt or paidAmount with the price. *)
CreateSubscription(s, start, end, paid) ==
    /\ ~ Exists(s)
    /\ row' = [row EXCEPT ![s] =
                  [status |-> ResolveStatus(start, end), ends |-> end, paid |-> paid]]
    /\ opening' = [opening EXCEPT ![s] = paid]
    /\ UNCHANGED <<today, receipts, req, disturbed>>

(* findOne of createPayment and of renewSubscription. *)
FindOne(r, s, step) ==
    /\ req[r].step = "idle"
    /\ Exists(s)
    /\ req' = [req EXCEPT ![r] = [step |-> step, sub |-> s, entity |-> row[s], dirty |-> {}]]
    /\ disturbed' = IF Busy(s) THEN disturbed \cup {s} ELSE disturbed
    /\ UNCHANGED <<today, row, opening, receipts>>

(* Slip: the payment row is not saved. *)
ReceiveUnrecorded(r, amount, entity) ==
    LET s == req[r].sub
    IN  /\ opening[s] + receipts[s] + amount <= MaxAmount /\ entity.paid \in Amounts
        /\ req' = [req EXCEPT ![r] = [@ EXCEPT !.step = "save", !.entity = entity]]
        /\ UNCHANGED <<today, row, opening, receipts, disturbed>>

(* The payment is inserted and the entity changed in memory. *)
Receive(r, amount, entity) ==
    LET s == req[r].sub
    IN  /\ opening[s] + receipts[s] + amount <= MaxAmount
        /\ receipts' = [receipts EXCEPT ![s] = @ + amount]
        /\ req' = [req EXCEPT ![r] = [@ EXCEPT !.step = "save", !.entity = entity]]
        /\ UNCHANGED <<today, row, opening, disturbed>>

CreatePayment(r, amount) ==
    /\ req[r].step = "pay"
    /\ amount > 0
    /\ Receive(r, amount, [req[r].entity EXCEPT !.paid = @ + amount])

(* Slip: the renewal's payment is not added to paidAmount. *)
RenewWithoutCredit(r, end, amount) ==
    /\ req[r].step = "renew"
    /\ end > req[r].entity.ends /\ end > today
    /\ Receive(r, amount, [status |-> "ACTIVE", ends |-> end, paid |-> req[r].entity.paid])

(* amount 0: no payment is asked for or inserted. *)
RenewSubscription(r, end, amount) ==
    /\ req[r].step = "renew"
    /\ end > req[r].entity.ends /\ end > today
    /\ Receive(r, amount, [status |-> "ACTIVE", ends |-> end,
                           paid |-> req[r].entity.paid + amount])

(* The columns after save's UPDATE. *)
Saved(was, entity, dirty) ==
    [status |-> IF "status" \in dirty THEN entity.status ELSE was.status,
     ends |-> IF "ends" \in dirty THEN entity.ends ELSE was.ends,
     paid |-> IF "paid" \in dirty THEN entity.paid ELSE was.paid]

(* save: SELECT and compare ... *)
SaveSelect(r) ==
    LET was == row[req[r].sub]
    IN  /\ req[r].step = "save"
        /\ req' = [req EXCEPT ![r] = [@ EXCEPT !.step = "update",
                      !.dirty = {c \in Columns : was[c] # req[r].entity[c]}]]
        /\ UNCHANGED <<today, row, opening, receipts, disturbed>>

(* ... and UPDATE, of a row that may have changed again. *)
SaveUpdate(r) ==
    LET s == req[r].sub
    IN  /\ req[r].step = "update"
        /\ row' = [row EXCEPT ![s] = Saved(row[s], req[r].entity, req[r].dirty)]
        /\ req' = [req EXCEPT ![r] = Idle]
        /\ UNCHANGED <<today, opening, receipts, disturbed>>

(* A database error or a crash: what was written stays. *)
Stop(r) ==
    /\ req[r].step # "idle"
    /\ req' = [req EXCEPT ![r] = Idle]
    /\ disturbed' = disturbed \cup {req[r].sub}
    /\ UNCHANGED <<today, row, opening, receipts>>

(* Midnight UTC. *)
NextDay ==
    /\ today < MaxDay
    /\ today' = today + 1
    /\ UNCHANGED <<row, opening, receipts, req, disturbed>>

Next ==
    \/ NextDay
    \/ \E s \in Subs, start, end \in Days, paid \in Amounts :
          CreateSubscription(s, start, end, paid)
    \/ \E r \in Requests :
        \/ \E s \in Subs, step \in {"pay", "renew"} : FindOne(r, s, step)
        \/ \E amount \in Amounts : CreatePayment(r, amount)
        \/ \E end \in Days, amount \in Amounts : RenewSubscription(r, end, amount)
        \/ SaveSelect(r) \/ SaveUpdate(r) \/ Stop(r)

Spec == Init /\ [][Next]_vars

-----------------------------------------------------------------------------
TypeOK ==
    /\ today \in Days
    /\ row \in [Subs -> Row]
    /\ opening \in [Subs -> Amounts]
    /\ receipts \in [Subs -> Amounts]
    /\ req \in [Requests -> Request]
    /\ disturbed \subseteq Subs

(* Whatever requests overlap and wherever one fails between its payment    *)
(* and its save, a subscription never shows more as paid than it was       *)
(* created with and has receipts for: stale saves lose credit, they never  *)
(* invent it (createPayment, renewSubscription).                           *)
NeverOverstated == \A s \in Subs : row[s].paid <= opening[s] + receipts[s]

(* As long as payments and renewals of a subscription come one at a time   *)
(* and none fails, paidAmount is exact whenever none is running.           *)
ExactWhenUndisturbed ==
    \A s \in Subs \ disturbed : ~ Busy(s) => row[s].paid = opening[s] + receipts[s]
=============================================================================
