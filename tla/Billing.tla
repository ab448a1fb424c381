------------------------------ MODULE Billing -------------------------------
(***************************************************************************)
(* Trainee subscriptions and their payments: backend/src/billing.          *)
(*                                                                         *)
(* Every HTTP request runs as a process of its own and touches PostgreSQL  *)
(* (READ COMMITTED) in several steps.  addPayment and renewSubscription    *)
(* take the subscription row FOR UPDATE, so each is two steps here, one    *)
(* that locks and reads the row and one that writes and commits; between   *)
(* them any other request may run, but none may lock or update that row.   *)
(* createSubscription reads everything first and inserts last.             *)
(* syncSubscriptionStatuses reads the date once and then runs two UPDATE   *)
(* statements, each a transaction of its own.                              *)
(*                                                                         *)
(* Money is in hundredths: the DTOs accept two decimals and roundMoney     *)
(* brings every sum back to two, so on these inputs the arithmetic is      *)
(* exact.  Dates are day numbers.  No code path writes CANCELLED or        *)
(* PAUSED, so those two statuses do not occur.                             *)
(***************************************************************************)
EXTENDS Integers

CONSTANTS
    Subs,            \* identifiers of trainee_subscriptions rows
    Trainees,
    Plans,
    Academies,
    Requests,        \* HTTP requests that may be running at the same time
    TraineeAcademy,  \* the academy of each trainee
    PlanAcademy,     \* the academy of each plan (UpdateSubscriptionPlanDto cannot change it)
    MaxDay,          \* bound: last day of the clock
    MaxAmount,       \* bound: largest subscription total, in hundredths
    None             \* SQL NULL / no filter

ASSUME BillingAssumption ==
    /\ TraineeAcademy \in [Trainees -> Academies]
    /\ PlanAcademy \in [Plans -> Academies]
    /\ MaxDay \in Nat
    /\ MaxAmount \in Nat
    /\ None \notin Subs \cup Plans \cup Academies

VARIABLES
    day,          \* the UTC date new Date() returns
    activePlans,  \* the plans whose isActive is true
    status,       \* status column; "ABSENT" while the row does not exist
    term,         \* the columns an insert sets once and for all
    money,        \* totalAmount, paidAmount, balanceAmount, paidInFullAt
    received,     \* SUM(amount) of the payments rows of the subscription
    req           \* where each running request stands

vars == <<day, activePlans, status, term, money, received, req>>

-----------------------------------------------------------------------------
Days == 0..MaxDay
Amounts == 0..MaxAmount

Status == {"ABSENT", "PENDING", "ACTIVE", "EXPIRED"}

(* today is the date the inserting request had read: it is what the status *)
(* of a new row is computed from.                                          *)
Term == [trainee : Trainees \cup {None}, plan : Plans \cup {None},
         from : Subs \cup {None}, start : Days, end : Days, today : Days]

Money == [total : Amounts, paid : Amounts, balance : Amounts, paidInFullAt : {"NULL", "SET"}]

Step == {"idle", "insert", "pay", "renew", "expire", "activate"}

Request == [step : Step, sub : Subs \cup {None}, plan : Plans \cup {None},
            today : Days, seen : Money, scope : Academies \cup {None}]

NoTerm == [trainee |-> None, plan |-> None, from |-> None,
           start |-> 0, end |-> 0, today |-> 0]
NoMoney == [total |-> 0, paid |-> 0, balance |-> 0, paidInFullAt |-> "NULL"]
Idle == [step |-> "idle", sub |-> None, plan |-> None,
         today |-> 0, seen |-> NoMoney, scope |-> None]

Init ==
    /\ day = 0
    /\ activePlans = Plans
    /\ status = [s \in Subs |-> "ABSENT"]
    /\ term = [s \in Subs |-> NoTerm]
    /\ money = [s \in Subs |-> NoMoney]
    /\ received = [s \in Subs |-> 0]
    /\ req = [r \in Requests |-> Idle]

-----------------------------------------------------------------------------
Exists(s) == status[s] # "ABSENT"

AcademyOf(s) == TraineeAcademy[term[s].trainee]

(* A transaction between its SELECT ... FOR UPDATE and its commit. *)
Holds(r, s) == req[r].step \in {"pay", "renew"} /\ req[r].sub = s

(* Slip: the rows are read without FOR UPDATE. *)
Unlocked(s) == FALSE

Locked(s) == \E r \in Requests : Holds(r, s)

(* Slip: neither the lookup nor the unique index. *)
RenewalUnchecked(s) == TRUE

(* No row points back to s: the service's own lookup, and the unique index *)
(* on renewed_from_subscription_id when the row is inserted.               *)
NotRenewed(s) == \A n \in Subs : Exists(n) => term[n].from # s

(* The money columns of a new row that is paid upfront when inserted. *)
Opened(total, upfront) ==
    [total |-> total, paid |-> upfront, balance |-> total - upfront,
     paidInFullAt |-> IF upfront = total THEN "SET" ELSE "NULL"]

(* Slip: paidAmount is set to this payment instead of increased by it. *)
PaidOverwritten(m, amount) ==
    [m EXCEPT !.paid = amount, !.balance = m.total - amount]

(* addPayment: the money columns it saves, from the row it read. *)
Paid(m, amount) ==
    [total |-> m.total,
     paid |-> m.paid + amount,
     balance |-> m.total - (m.paid + amount),
     paidInFullAt |-> IF m.total = m.paid + amount THEN "SET" ELSE m.paidInFullAt]

(* createSubscription does not look at the end date. *)
CreatedStatus(start, today) == IF start > today THEN "PENDING" ELSE "ACTIVE"

RenewedStatus(start, end, today) ==
    IF end < today THEN "EXPIRED"
    ELSE IF start <= today THEN "ACTIVE" ELSE "PENDING"

-----------------------------------------------------------------------------
(* updatePlan flips isActive; prices only reach a subscription as totals. *)
UpdatePlan(p) ==
    /\ \/ activePlans' = activePlans \cup {p}
       \/ activePlans' = activePlans \ {p}
    /\ UNCHANGED <<day, status, term, money, received, req>>

(* createSubscription up to its insert: tenant and plan checks, today. *)
CreateRead(r, p) ==
    /\ req[r].step = "idle"
    /\ p \in activePlans
    /\ req' = [req EXCEPT ![r] = [Idle EXCEPT !.step = "insert", !.plan = p,
                                              !.today = day]]
    /\ UNCHANGED <<day, activePlans, status, term, money, received>>

(* The insert.  The plan lasts at least one day; the start date may lie in *)
(* the past, and so may the end.                                           *)
CreateInsert(r, s, t, start, end, total) ==
    /\ req[r].step = "insert"
    /\ ~Exists(s)
    /\ TraineeAcademy[t] = PlanAcademy[req[r].plan]
    /\ start < end
    /\ status' = [status EXCEPT ![s] = CreatedStatus(start, req[r].today)]
    /\ term' = [term EXCEPT ![s] =
                   [trainee |-> t, plan |-> req[r].plan, from |-> None,
                    start |-> start, end |-> end, today |-> req[r].today]]
    /\ money' = [money EXCEPT ![s] = Opened(total, 0)]
    /\ req' = [req EXCEPT ![r] = Idle]
    /\ UNCHANGED <<day, activePlans, received>>

(* addPayment: SELECT ... FOR UPDATE. *)
PayLock(r, s) ==
    /\ req[r].step = "idle"
    /\ Exists(s)
    /\ ~Locked(s)
    /\ req' = [req EXCEPT ![r] = [Idle EXCEPT !.step = "pay", !.sub = s,
                                              !.seen = money[s]]]
    /\ UNCHANGED <<day, activePlans, status, term, money, received>>

(* Slip: addPayment does not compare the amount with the balance. *)
PayCommitUnbounded(r, amount) ==
    LET s == req[r].sub IN
    /\ req[r].step = "pay"
    /\ 0 < amount
    /\ received' = [received EXCEPT ![s] = @ + amount]
    /\ money' = [money EXCEPT ![s] = Paid(req[r].seen, amount)]
    /\ req' = [req EXCEPT ![r] = Idle]
    /\ UNCHANGED <<day, activePlans, status, term>>

(* addPayment: the payment row and the money columns, committed together. *)
PayCommit(r, amount) ==
    LET s == req[r].sub IN
    /\ req[r].step = "pay"
    /\ 0 < amount
    /\ amount <= req[r].seen.balance
    /\ received' = [received EXCEPT ![s] = @ + amount]
    /\ money' = [money EXCEPT ![s] = Paid(req[r].seen, amount)]
    /\ req' = [req EXCEPT ![r] = Idle]
    /\ UNCHANGED <<day, activePlans, status, term>>

(* renewSubscription up to its first write: the row FOR UPDATE, no earlier *)
(* renewal, a plan of the academy that is active or is the current one,    *)
(* and today.                                                              *)
RenewLock(r, s, p) ==
    /\ req[r].step = "idle"
    /\ Exists(s)
    /\ ~Locked(s)
    /\ NotRenewed(s)
    /\ PlanAcademy[p] = AcademyOf(s)
    /\ p \in activePlans \/ p = term[s].plan
    /\ req' = [req EXCEPT ![r] = [Idle EXCEPT !.step = "renew", !.sub = s,
                                              !.plan = p, !.today = day]]
    /\ UNCHANGED <<day, activePlans, status, term, money, received>>

(* renewSubscription: the new row, its first payment, and the old row set  *)
(* to EXPIRED when the new term has already begun; one commit.             *)
RenewCommit(r, n, start, end, total, upfront) ==
    LET s == req[r].sub
        today == req[r].today
    IN
    /\ req[r].step = "renew"
    /\ ~Exists(n)
    /\ NotRenewed(s)
    /\ start <= end
    /\ upfront <= total
    /\ status' = [status EXCEPT
                     ![s] = IF start <= today THEN "EXPIRED" ELSE @,
                     ![n] = RenewedStatus(start, end, today)]
    /\ term' = [term EXCEPT ![n] =
                   [trainee |-> term[s].trainee, plan |-> req[r].plan, from |-> s,
                    start |-> start, end |-> end, today |-> today]]
    /\ money' = [money EXCEPT ![n] = Opened(total, upfront)]
    /\ received' = [received EXCEPT ![n] = upfront]
    /\ req' = [req EXCEPT ![r] = Idle]
    /\ UNCHANGED <<day, activePlans>>

(* A check of the handler fails, the client goes away, the transaction is  *)
(* rolled back: nothing was written.                                       *)
Abandon(r) ==
    /\ req[r].step \in {"insert", "pay", "renew"}
    /\ req' = [req EXCEPT ![r] = Idle]
    /\ UNCHANGED <<day, activePlans, status, term, money, received>>

-----------------------------------------------------------------------------
InScope(s, scope) == scope = None \/ AcademyOf(s) = scope

(* Slip: a subscription expires on its last day. *)
ExpireLastDay(s, today, scope) ==
    /\ status[s] \in {"PENDING", "ACTIVE"}
    /\ term[s].end <= today
    /\ InScope(s, scope)

(* The WHERE clauses of the two statements of syncSubscriptionStatuses. *)
ExpireDue(s, today, scope) ==
    /\ status[s] \in {"PENDING", "ACTIVE"}
    /\ term[s].end < today
    /\ InScope(s, scope)

(* Slip: the second statement does not insist on PENDING. *)
ReviveDue(s, today, scope) ==
    /\ status[s] \in {"PENDING", "EXPIRED"}
    /\ term[s].start <= today
    /\ today <= term[s].end
    /\ InScope(s, scope)

ActivateDue(s, today, scope) ==
    /\ status[s] = "PENDING"
    /\ term[s].start <= today
    /\ today <= term[s].end
    /\ InScope(s, scope)

(* syncSubscriptionStatuses starts: a list of subscriptions, the alerts,   *)
(* the dashboard or the maintenance route was asked for.  A super admin    *)
(* may ask without an academy.                                             *)
SyncBegin(r, scope) ==
    /\ req[r].step = "idle"
    /\ req' = [req EXCEPT ![r] = [Idle EXCEPT !.step = "expire", !.today = day,
                                              !.scope = scope]]
    /\ UNCHANGED <<day, activePlans, status, term, money, received>>

(* Slip: rows that are locked are skipped instead of waited for. *)
SyncExpireSkipLocked(r) ==
    LET due(s) == ~Locked(s) /\ ExpireDue(s, req[r].today, req[r].scope) IN
    /\ req[r].step = "expire"
    /\ status' = [s \in Subs |-> IF due(s) THEN "EXPIRED" ELSE status[s]]
    /\ req' = [req EXCEPT ![r].step = "activate"]
    /\ UNCHANGED <<day, activePlans, term, money, received>>

(* First UPDATE.  It waits for every row it matches that a transaction has *)
(* locked, and matches again on what that transaction committed.           *)
SyncExpire(r) ==
    LET due(s) == ExpireDue(s, req[r].today, req[r].scope) IN
    /\ req[r].step = "expire"
    /\ \A s \in Subs : due(s) => ~Locked(s)
    /\ status' = [s \in Subs |-> IF due(s) THEN "EXPIRED" ELSE status[s]]
    /\ req' = [req EXCEPT ![r].step = "activate"]
    /\ UNCHANGED <<day, activePlans, term, money, received>>

(* Second UPDATE, with the date the first one used. *)
SyncActivate(r) ==
    LET due(s) == ActivateDue(s, req[r].today, req[r].scope) IN
    /\ req[r].step = "activate"
    /\ \A s \in Subs : due(s) => ~Locked(s)
    /\ status' = [s \in Subs |-> IF due(s) THEN "ACTIVE" ELSE status[s]]
    /\ req' = [req EXCEPT ![r] = Idle]
    /\ UNCHANGED <<day, activePlans, term, money, received>>

(* Midnight UTC. *)
NextDay ==
    /\ day < MaxDay
    /\ day' = day + 1
    /\ UNCHANGED <<activePlans, status, term, money, received, req>>

-----------------------------------------------------------------------------
Create(r) ==
    \/ \E p \in Plans : CreateRead(r, p)
    \/ \E s \in Subs, t \in Trainees, start, end \in Days, total \in Amounts :
          CreateInsert(r, s, t, start, end, total)

Pay(r) ==
    \/ \E s \in Subs : PayLock(r, s)
    \/ \E amount \in Amounts : PayCommit(r, amount)

Renew(r) ==
    \/ \E s \in Subs, p \in Plans : RenewLock(r, s, p)
    \/ \E n \in Subs, start, end \in Days, total, upfront \in Amounts :
          RenewCommit(r, n, start, end, total, upfront)

Sync(r) ==
    \/ \E scope \in Academies \cup {None} : SyncBegin(r, scope)
    \/ SyncExpire(r)
    \/ SyncActivate(r)

Next ==
    \/ NextDay
    \/ \E p \in Plans : UpdatePlan(p)
    \/ \E r \in Requests : Create(r) \/ Pay(r) \/ Renew(r) \/ Sync(r) \/ Abandon(r)

Spec == Init /\ [][Next]_vars

(* A transaction the server has begun ends, and a statement that waits for *)
(* a row lock gets its turn (PostgreSQL queues the waiters), hence strong  *)
(* fairness for the two statements.  Nobody is obliged to send a request.  *)
Ends(r) ==
    \/ \E amount \in Amounts : PayCommit(r, amount)
    \/ \E n \in Subs, start, end \in Days, total, upfront \in Amounts :
          RenewCommit(r, n, start, end, total, upfront)
    \/ Abandon(r)

FairSpec ==
    /\ Spec
    /\ \A r \in Requests : /\ WF_vars(Ends(r))
                           /\ SF_vars(SyncExpire(r))
                           /\ SF_vars(SyncActivate(r))

-----------------------------------------------------------------------------
TypeOK ==
    /\ day \in Days
    /\ activePlans \subseteq Plans
    /\ status \in [Subs -> Status]
    /\ term \in [Subs -> Term]
    /\ money \in [Subs -> Money]
    /\ received \in [Subs -> Amounts]
    /\ req \in [Requests -> Request]

(* The money columns and the payments table agree in every committed state:*)
(* paidAmount is what the payment rows add up to, balanceAmount is the rest*)
(* of the total and never negative, paidInFullAt is set exactly when it is *)
(* zero.  Two clerks taking a payment for the same subscription at once,   *)
(* or a renewal with a first payment, must not break it (addPayment,       *)
(* renewSubscription).                                                     *)
MoneyMatchesPayments ==
    \A s \in Subs : Exists(s) =>
        /\ money[s].paid = received[s]
        /\ money[s].balance = money[s].total - received[s]
        /\ money[s].balance >= 0
        /\ money[s].paidInFullAt = "SET" <=> money[s].balance = 0

(* Renewals form chains: a subscription is renewed at most once, for the   *)
(* same trainee and within one academy, and once a renewal's term had      *)
(* begun when it was made, the renewed subscription is EXPIRED for good -  *)
(* no status sync running meanwhile puts it back (renewSubscription).      *)
RenewalChain ==
    \A n \in Subs : Exists(n) =>
        /\ PlanAcademy[term[n].plan] = AcademyOf(n)
        /\ term[n].from # None =>
              LET s == term[n].from IN
              /\ Exists(s) /\ s # n
              /\ term[s].trainee = term[n].trainee
              /\ \A m \in Subs : Exists(m) /\ term[m].from = s => m = n
              /\ term[n].start <= term[n].today => status[s] = "EXPIRED"

(* Whatever stale date a sync or a create was using, a subscription is     *)
(* never ACTIVE before its first day, and one that is EXPIRED has ended or *)
(* was superseded by a renewal (syncSubscriptionStatuses).                 *)
StatusMatchesTerm ==
    \A s \in Subs :
        /\ status[s] = "ACTIVE" => term[s].start <= day
        /\ status[s] = "EXPIRED" =>
              \/ term[s].end < day
              \/ \E n \in Subs : Exists(n) /\ term[n].from = s
                                 /\ term[n].start <= term[n].today

Rank(st) == CASE st = "ABSENT" -> 0 [] st = "PENDING" -> 1
              [] st = "ACTIVE" -> 2 [] st = "EXPIRED" -> 3

(* A status only moves forward, PENDING to ACTIVE to EXPIRED: the sync's   *)
(* second statement, which may act on an old date after a renewal expired  *)
(* the row, never revives a subscription.                                  *)
StatusOnlyAdvances ==
    [][\A s \in Subs : Rank(status[s]) <= Rank(status'[s])]_vars

(* A sync that has started is not starved by payments and renewals of the  *)
(* rows it is waiting for: the rows it found due leave their old status.   *)
SyncCatchesUp ==
    \A r \in Requests, s \in Subs :
        /\ (req[r].step = "expire" /\ ExpireDue(s, req[r].today, req[r].scope))
              ~> status[s] = "EXPIRED"
        /\ (req[r].step = "activate" /\ ActivateDue(s, req[r].today, req[r].scope))
              ~> status[s] # "PENDING"

-----------------------------------------------------------------------------
(* Billing keeps the books of Ledger: every step opens an account, collects*)
(* money for one, or leaves the books alone.                               *)
Books == INSTANCE Ledger WITH
    Accounts <- Subs,
    Sums <- Amounts,
    opened <- {s \in Subs : Exists(s)},
    charged <- [s \in Subs |-> money[s].total],
    collected <- received,
    outstanding <- [s \in Subs |-> money[s].balance]

BooksKept == Books!Spec
=============================================================================
