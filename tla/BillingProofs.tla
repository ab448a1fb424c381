--------------------------- MODULE BillingProofs ----------------------------
(***************************************************************************)
(* Proofs about Billing, for any number of subscriptions, requests, days   *)
(* and amounts.  What makes the invariants inductive is the row lock: the  *)
(* money columns a payment transaction has read stay the ones in the table *)
(* until it commits.                                                       *)
(***************************************************************************)
EXTENDS Billing, TLAPS

(* Identifiers not used yet have no payments. *)
Fresh == \A s \in Subs : ~Exists(s) => received[s] = 0

(* What SELECT ... FOR UPDATE gives its transaction. *)
Locks ==
    /\ \A r \in Requests : req[r].step \in {"pay", "renew"} =>
          req[r].sub \in Subs /\ Exists(req[r].sub)
    /\ \A r \in Requests : req[r].step = "pay" => req[r].seen = money[req[r].sub]
    /\ \A q, r \in Requests, s \in Subs : Holds(q, s) /\ Holds(r, s) => q = r

BooksInv == TypeOK /\ MoneyMatchesPayments /\ Fresh /\ Locks

-----------------------------------------------------------------------------
(* The money columns of a new row. *)
LEMMA OpenedMoney ==
    ASSUME NEW total \in Amounts, NEW upfront \in Amounts, upfront <= total
    PROVE  /\ Opened(total, upfront) \in Money
           /\ Opened(total, upfront).total = total
           /\ Opened(total, upfront).paid = upfront
           /\ Opened(total, upfront).balance = total - upfront
           /\ Opened(total, upfront).balance >= 0
           /\ Opened(total, upfront).paidInFullAt = "SET" <=> Opened(total, upfront).balance = 0
  BY BillingAssumption DEF Opened, Money, Amounts

(* What addPayment writes keeps the columns consistent with one another. *)
LEMMA PaidMoney ==
    ASSUME NEW m \in Money, NEW amount \in Amounts,
           m.balance = m.total - m.paid, 0 < amount, amount <= m.balance,
           m.paidInFullAt = "SET" <=> m.balance = 0
    PROVE  /\ Paid(m, amount) \in Money
           /\ Paid(m, amount).total = m.total
           /\ Paid(m, amount).paid = m.paid + amount
           /\ Paid(m, amount).balance = m.total - (m.paid + amount)
           /\ Paid(m, amount).balance >= 0
           /\ Paid(m, amount).paidInFullAt = "SET" <=> Paid(m, amount).balance = 0
  <1>1. /\ m.total \in 0..MaxAmount /\ m.paid \in 0..MaxAmount
        /\ m.balance \in 0..MaxAmount /\ m.paidInFullAt \in {"NULL", "SET"}
        /\ amount \in 0..MaxAmount /\ MaxAmount \in Nat
    BY BillingAssumption DEF Money, Amounts
  <1>2. /\ m.paid + amount \in 0..MaxAmount
        /\ m.total - (m.paid + amount) \in 0..MaxAmount
    BY <1>1
  <1>3. Paid(m, amount) \in Money
    BY <1>1, <1>2 DEF Paid, Money, Amounts
  <1> QED
    BY <1>1, <1>2, <1>3 DEF Paid

LEMMA IdleRequest ==
    /\ Idle \in Request
    /\ NoMoney \in Money
    /\ NoTerm \in Term
  BY BillingAssumption DEF Idle, Request, NoMoney, Money, NoTerm, Term, Step, Amounts, Days

-----------------------------------------------------------------------------
LEMMA BooksInit == Init => BooksInv
  <1> SUFFICES ASSUME Init PROVE BooksInv
    OBVIOUS
  <1>1. TypeOK
    BY BillingAssumption, IdleRequest DEF Init, TypeOK, Days, Amounts, Status
  <1>2. MoneyMatchesPayments /\ Fresh
    BY DEF Init, MoneyMatchesPayments, Fresh, Exists
  <1>3. Locks
    BY DEF Init, Locks, Idle, Holds
  <1> QED
    BY <1>1, <1>2, <1>3 DEF BooksInv

-----------------------------------------------------------------------------
(* A step in which r holds no row afterwards and no row locked by another  *)
(* request changes its money columns keeps the locks sound.                *)
LEMMA LocksKept ==
    ASSUME TypeOK, Locks, NEW r \in Requests, NEW x \in Request,
           req' = [req EXCEPT ![r] = x],
           x.step \notin {"pay", "renew"},
           \A s \in Subs : Exists(s) => Exists(s)',
           \A q \in Requests \ {r} : req[q].step = "pay" =>
               money'[req[q].sub] = money[req[q].sub]
    PROVE  Locks'
  <1>1. req'[r] = x /\ \A q \in Requests \ {r} : req'[q] = req[q]
    BY DEF TypeOK
  <1>2. \A q \in Requests : req'[q].step \in {"pay", "renew"} => q # r
    BY <1>1
  <1> QED
    BY <1>1, <1>2 DEF Locks, Holds

(* A step that only takes the row lock of an existing row for r. *)
LEMMA LockTaken ==
    ASSUME TypeOK, Locks, NEW r \in Requests, NEW s \in Subs, NEW x \in Request,
           req' = [req EXCEPT ![r] = x], UNCHANGED <<status, money>>,
           Exists(s), ~Locked(s),
           x.sub = s, x.step = "pay" => x.seen = money[s]
    PROVE  Locks'
  <1>1. req'[r] = x /\ \A q \in Requests \ {r} : req'[q] = req[q]
    BY DEF TypeOK
  <1>2. (\A q \in Requests : req[q].step \in {"pay", "renew"} =>
             req[q].sub \in Subs /\ Exists(req[q].sub))'
    BY <1>1 DEF Locks, Exists
  <1>3. \A q \in Requests : req'[q].step = "pay" => req'[q].seen = money'[req'[q].sub]
    BY <1>1 DEF Locks
  <1>4. ASSUME NEW p \in Requests, NEW q \in Requests, NEW t \in Subs,
               Holds(p, t)', Holds(q, t)'
        PROVE  p = q
    <2>1. \A u \in Requests : ~Holds(u, s)
      BY DEF Locked
    <2>2. \A u \in Requests : u # r /\ Holds(u, t)' => Holds(u, t)
      BY <1>1 DEF Holds
    <2>3. Holds(r, t)' => t = s
      BY <1>1 DEF Holds
    <2> QED
      BY <1>4, <2>1, <2>2, <2>3 DEF Locks
  <1> QED
    BY <1>2, <1>3, <1>4 DEF Locks

(* Steps that leave the rows and their money alone. *)
LEMMA BooksUntouched ==
    ASSUME BooksInv, UNCHANGED <<status, money, received>>
    PROVE  MoneyMatchesPayments' /\ Fresh'
  BY DEF BooksInv, MoneyMatchesPayments, Fresh, Exists

LEMMA BooksCreate ==
    ASSUME BooksInv, NEW r \in Requests, Create(r)
    PROVE  BooksInv'
  <1>1. ASSUME NEW p \in Plans, CreateRead(r, p)
        PROVE  BooksInv'
    <2> DEFINE x == [Idle EXCEPT !.step = "insert", !.plan = p, !.today = day]
    <2>1. x \in Request /\ x.step = "insert"
      BY IdleRequest DEF BooksInv, TypeOK, Idle, Request, Step
    <2>2. TypeOK'
      BY <1>1, <2>1 DEF CreateRead, BooksInv, TypeOK
    <2>3. Locks'
      BY <1>1, <2>1, LocksKept DEF CreateRead, BooksInv, Exists
    <2> QED
      BY <1>1, <2>2, <2>3, BooksUntouched DEF CreateRead, BooksInv
  <1>2. ASSUME NEW s \in Subs, NEW t \in Trainees, NEW start \in Days,
               NEW end \in Days, NEW total \in Amounts,
               CreateInsert(r, s, t, start, end, total)
        PROVE  BooksInv'
    <2> DEFINE m == Opened(total, 0)
    <2> USE <1>2 DEF CreateInsert, BooksInv
    <2>1. m \in Money /\ m.paid = 0 /\ m.balance = total /\ m.total = total
          /\ (m.paidInFullAt = "SET" <=> m.balance = 0)
      BY OpenedMoney, BillingAssumption DEF Amounts
    <2>2. /\ CreatedStatus(start, req[r].today) \in Status \ {"ABSENT"}
          /\ req[r].plan \in Plans \cup {None} /\ req[r].today \in Days
      BY DEF CreatedStatus, Status, TypeOK, Request
    <2>3. [trainee |-> t, plan |-> req[r].plan, from |-> None,
           start |-> start, end |-> end, today |-> req[r].today] \in Term
      BY <2>2 DEF Term
    <2>4. TypeOK'
      BY <2>1, <2>2, <2>3, IdleRequest DEF TypeOK
    <2>5. \A u \in Subs \ {s} : /\ status'[u] = status[u] /\ money'[u] = money[u]
      BY DEF TypeOK
    <2>6. status'[s] # "ABSENT" /\ money'[s] = m /\ received[s] = 0
      BY <2>2 DEF TypeOK, Fresh
    <2>7. MoneyMatchesPayments'
      BY <2>1, <2>5, <2>6 DEF MoneyMatchesPayments, Exists, TypeOK, Amounts
    <2>8. Fresh'
      BY <2>5, <2>6 DEF Fresh, Exists
    <2>9. \A u \in Subs : Exists(u) => Exists(u)'
      BY <2>5, <2>6 DEF Exists
    <2>10. \A q \in Requests \ {r} : req[q].step = "pay" =>
               money'[req[q].sub] = money[req[q].sub]
      BY <2>5 DEF Locks
    <2>11. Locks'
      BY <2>9, <2>10, LocksKept, IdleRequest DEF Idle
    <2> QED
      BY <2>4, <2>7, <2>8, <2>11
  <1> QED
    BY <1>1, <1>2 DEF Create

LEMMA BooksPay ==
    ASSUME BooksInv, NEW r \in Requests, Pay(r)
    PROVE  BooksInv'
  <1>1. ASSUME NEW s \in Subs, PayLock(r, s)
        PROVE  BooksInv'
    <2> DEFINE x == [Idle EXCEPT !.step = "pay", !.sub = s, !.seen = money[s]]
    <2>1. x \in Request /\ x.step = "pay" /\ x.sub = s /\ x.seen = money[s]
      BY IdleRequest DEF BooksInv, TypeOK, Idle, Request, Step
    <2>2. TypeOK'
      BY <1>1, <2>1 DEF PayLock, BooksInv, TypeOK
    <2>3. Locks'
      BY <1>1, <2>1, LockTaken DEF PayLock, BooksInv
    <2> QED
      BY <1>1, <2>2, <2>3, BooksUntouched DEF PayLock, BooksInv
  <1>2. ASSUME NEW amount \in Amounts, PayCommit(r, amount)
        PROVE  BooksInv'
    <2> DEFINE s == req[r].sub
               m == Paid(money[s], amount)
    <2> USE <1>2 DEF PayCommit, BooksInv
    <2>1. s \in Subs /\ Exists(s) /\ req[r].seen = money[s] /\ Holds(r, s)
      BY DEF Locks, Holds
    <2>2. /\ money[s] \in Money
          /\ money[s].paid = received[s]
          /\ money[s].balance = money[s].total - money[s].paid
          /\ amount <= money[s].balance
          /\ money[s].paidInFullAt = "SET" <=> money[s].balance = 0
      BY <2>1 DEF MoneyMatchesPayments, TypeOK
    <2>3. /\ m \in Money
          /\ m.total = money[s].total
          /\ m.paid = money[s].paid + amount
          /\ m.balance = m.total - m.paid
          /\ m.balance >= 0
          /\ m.paidInFullAt = "SET" <=> m.balance = 0
      BY <2>2, PaidMoney
    <2>4. /\ money' = [money EXCEPT ![s] = m]
          /\ received' = [received EXCEPT ![s] = m.paid]
          /\ m.paid \in Amounts
      BY <2>1, <2>2, <2>3 DEF Money
    <2>5. TypeOK'
      BY <2>1, <2>3, <2>4, IdleRequest DEF TypeOK
    <2>6. \A u \in Subs \ {s} : money'[u] = money[u] /\ received'[u] = received[u]
      BY <2>4 DEF TypeOK
    <2>7. money'[s] = m /\ received'[s] = m.paid
      BY <2>1, <2>4 DEF TypeOK
    <2>8. MoneyMatchesPayments'
      BY <2>3, <2>6, <2>7 DEF MoneyMatchesPayments, Exists
    <2>9. Fresh'
      BY <2>1, <2>6 DEF Fresh, Exists
    <2>10. \A q \in Requests \ {r} : req[q].step = "pay" =>
               money'[req[q].sub] = money[req[q].sub]
      BY <2>1, <2>6 DEF Locks, Holds
    <2>11. Locks'
      BY <2>10, LocksKept, IdleRequest DEF Idle, Exists
    <2> QED
      BY <2>5, <2>8, <2>9, <2>11
  <1> QED
    BY <1>1, <1>2 DEF Pay

LEMMA BooksRenew ==
    ASSUME BooksInv, NEW r \in Requests, Renew(r)
    PROVE  BooksInv'
  <1>1. ASSUME NEW s \in Subs, NEW p \in Plans, RenewLock(r, s, p)
        PROVE  BooksInv'
    <2> DEFINE x == [Idle EXCEPT !.step = "renew", !.sub = s, !.plan = p, !.today = day]
    <2>1. x \in Request /\ x.step = "renew" /\ x.sub = s
      BY IdleRequest DEF BooksInv, TypeOK, Idle, Request, Step
    <2>2. TypeOK'
      BY <1>1, <2>1 DEF RenewLock, BooksInv, TypeOK
    <2>3. Locks'
      BY <1>1, <2>1, LockTaken DEF RenewLock, BooksInv
    <2> QED
      BY <1>1, <2>2, <2>3, BooksUntouched DEF RenewLock, BooksInv
  <1>2. ASSUME NEW n \in Subs, NEW start \in Days, NEW end \in Days,
               NEW total \in Amounts, NEW upfront \in Amounts,
               RenewCommit(r, n, start, end, total, upfront)
        PROVE  BooksInv'
    <2> DEFINE s == req[r].sub
               today == req[r].today
               m == Opened(total, upfront)
    <2> USE <1>2 DEF RenewCommit, BooksInv
    <2>1. s \in Subs /\ Exists(s) /\ n # s
      BY DEF Locks, Exists
    <2>2. /\ m \in Money /\ m.paid = upfront /\ m.total = total
          /\ m.balance = m.total - upfront /\ m.balance >= 0
          /\ m.paidInFullAt = "SET" <=> m.balance = 0
      BY OpenedMoney
    <2>3. /\ RenewedStatus(start, end, today) \in Status \ {"ABSENT"}
          /\ "EXPIRED" \in Status \ {"ABSENT"}
      BY DEF RenewedStatus, Status
    <2>4. [trainee |-> term[s].trainee, plan |-> req[r].plan, from |-> s,
           start |-> start, end |-> end, today |-> today] \in Term
      BY <2>1 DEF TypeOK, Term, Request
    <2>5. /\ \A u \in Subs \ {s, n} : status'[u] = status[u]
          /\ status'[s] # "ABSENT" /\ status'[n] # "ABSENT"
          /\ status' \in [Subs -> Status]
      BY <2>1, <2>3 DEF TypeOK, Exists
    <2>6. TypeOK'
      BY <2>2, <2>4, <2>5, IdleRequest DEF TypeOK
    <2>7. /\ \A u \in Subs \ {n} : money'[u] = money[u] /\ received'[u] = received[u]
          /\ money'[n] = m /\ received'[n] = upfront
      BY DEF TypeOK
    <2>8. MoneyMatchesPayments'
      BY <2>1, <2>2, <2>5, <2>7 DEF MoneyMatchesPayments, Exists
    <2>9. Fresh'
      BY <2>5, <2>7 DEF Fresh, Exists
    <2>10. \A u \in Subs : Exists(u) => Exists(u)'
      BY <2>5 DEF Exists
    <2>11. \A q \in Requests \ {r} : req[q].step = "pay" =>
               money'[req[q].sub] = money[req[q].sub]
      BY <2>7 DEF Locks
    <2>12. Locks'
      BY <2>10, <2>11, LocksKept, IdleRequest DEF Idle
    <2> QED
      BY <2>6, <2>8, <2>9, <2>12
  <1> QED
    BY <1>1, <1>2 DEF Renew

LEMMA BooksSync ==
    ASSUME BooksInv, NEW r \in Requests, Sync(r)
    PROVE  BooksInv'
  <1>1. ASSUME NEW scope \in Academies \cup {None}, SyncBegin(r, scope)
        PROVE  BooksInv'
    <2> DEFINE x == [Idle EXCEPT !.step = "expire", !.today = day, !.scope = scope]
    <2>1. x \in Request /\ x.step = "expire"
      BY IdleRequest DEF BooksInv, TypeOK, Idle, Request, Step
    <2>2. TypeOK'
      BY <1>1, <2>1 DEF SyncBegin, BooksInv, TypeOK
    <2>3. Locks'
      BY <1>1, <2>1, LocksKept DEF SyncBegin, BooksInv, Exists
    <2> QED
      BY <1>1, <2>2, <2>3, BooksUntouched DEF SyncBegin, BooksInv
  <1>2. ASSUME NEW x \in Request, req' = [req EXCEPT ![r] = x], x.step \notin {"pay", "renew"},
               UNCHANGED <<day, activePlans, term, money, received>>,
               status' \in [Subs -> Status],
               \A s \in Subs : Exists(s) <=> Exists(s)'
        PROVE  BooksInv'
    <2>1. TypeOK'
      BY <1>2 DEF BooksInv, TypeOK
    <2>2. Locks'
      BY <1>2, LocksKept DEF BooksInv
    <2>3. MoneyMatchesPayments' /\ Fresh'
      BY <1>2 DEF BooksInv, MoneyMatchesPayments, Fresh, Exists
    <2> QED
      BY <2>1, <2>2, <2>3 DEF BooksInv
  <1>3. ASSUME SyncExpire(r)
        PROVE  BooksInv'
    <2> DEFINE x == [req[r] EXCEPT !.step = "activate"]
    <2>1. x \in Request /\ x.step = "activate"
      BY DEF BooksInv, TypeOK, Request, Step
    <2>2. /\ status' \in [Subs -> Status]
          /\ \A s \in Subs : Exists(s) <=> Exists(s)'
      BY <1>3 DEF SyncExpire, ExpireDue, Exists, BooksInv, TypeOK, Status
    <2> QED
      BY <1>2, <1>3, <2>1, <2>2 DEF SyncExpire
  <1>4. ASSUME SyncActivate(r)
        PROVE  BooksInv'
    <2>1. /\ status' \in [Subs -> Status]
          /\ \A s \in Subs : Exists(s) <=> Exists(s)'
      BY <1>4 DEF SyncActivate, ActivateDue, Exists, BooksInv, TypeOK, Status
    <2> QED
      BY <1>2, <1>4, <2>1, IdleRequest DEF SyncActivate, Idle
  <1> QED
    BY <1>1, <1>3, <1>4 DEF Sync

LEMMA BooksAbandon ==
    ASSUME BooksInv, NEW r \in Requests, Abandon(r)
    PROVE  BooksInv'
  <1>1. TypeOK'
    BY IdleRequest DEF Abandon, BooksInv, TypeOK
  <1>2. Locks'
    BY IdleRequest, LocksKept DEF Abandon, BooksInv, Idle, Exists
  <1> QED
    BY <1>1, <1>2, BooksUntouched DEF Abandon, BooksInv

LEMMA BooksNext == BooksInv /\ [Next]_vars => BooksInv'
  <1> SUFFICES ASSUME BooksInv, [Next]_vars PROVE BooksInv'
    OBVIOUS
  <1>1. CASE NextDay
    BY <1>1, BillingAssumption DEF NextDay, BooksInv, TypeOK, Days, MoneyMatchesPayments,
          Fresh, Locks, Exists, Holds
  <1>2. CASE \E p \in Plans : UpdatePlan(p)
    BY <1>2 DEF UpdatePlan, BooksInv, TypeOK, MoneyMatchesPayments, Fresh, Locks, Exists, Holds
  <1>3. CASE UNCHANGED vars
    BY <1>3 DEF vars, BooksInv, TypeOK, MoneyMatchesPayments, Fresh, Locks, Exists, Holds
  <1>4. CASE \E r \in Requests : Create(r) \/ Pay(r) \/ Renew(r) \/ Sync(r) \/ Abandon(r)
    BY <1>4, BooksCreate, BooksPay, BooksRenew, BooksSync, BooksAbandon
  <1> QED
    BY <1>1, <1>2, <1>3, <1>4 DEF Next

(* The inductive invariant holds in every reachable state. *)
LEMMA BooksAlways == Spec => []BooksInv
  BY BooksInit, BooksNext, PTL DEF Spec

(* Every variable keeps its type; in particular no balance goes below zero *)
(* and no total is ever exceeded.                                          *)
THEOREM TypeCorrect == Spec => []TypeOK
  <1>1. BooksInv => TypeOK
    BY DEF BooksInv
  <1> QED
    BY <1>1, BooksAlways, PTL

(* However many clerks pay, renew and read at once, the money columns of a *)
(* subscription agree with its payment rows (addPayment).                  *)
THEOREM MoneyAlwaysMatches == Spec => []MoneyMatchesPayments
  <1>1. BooksInv => MoneyMatchesPayments
    BY DEF BooksInv
  <1> QED
    BY <1>1, BooksAlways, PTL

-----------------------------------------------------------------------------
(* A step that keeps the set of existing rows, their money columns and the *)
(* payments is a stutter of the ledger.                                    *)
LEMMA LedgerStutter ==
    ASSUME \A s \in Subs : Exists(s) <=> Exists(s)', UNCHANGED <<money, received>>
    PROVE  UNCHANGED Books!ledger
  BY DEF Books!ledger

(* A step that inserts row n, paid upfront, opens the account n. *)
LEMMA LedgerOpen ==
    ASSUME TypeOK, NEW n \in Subs, ~Exists(n), Exists(n)',
           \A s \in Subs \ {n} : Exists(s) <=> Exists(s)',
           NEW total \in Amounts, NEW upfront \in Amounts, upfront <= total,
           money' = [money EXCEPT ![n] = Opened(total, upfront)],
           received' = [received EXCEPT ![n] = upfront]
    PROVE  Books!Next
  <1>1. {s \in Subs : Exists(s)'} = {s \in Subs : Exists(s)} \cup {n}
    OBVIOUS
  <1>2. [s \in Subs |-> money'[s].total]
           = [[s \in Subs |-> money[s].total] EXCEPT ![n] = total]
    BY DEF TypeOK, Opened
  <1>3. [s \in Subs |-> money'[s].balance]
           = [[s \in Subs |-> money[s].balance] EXCEPT ![n] = total - upfront]
    BY DEF TypeOK, Opened
  <1>4. n \notin {s \in Subs : Exists(s)}
    OBVIOUS
  <1>5. Books!Open(n, total, upfront)
    BY <1>1, <1>2, <1>3, <1>4 DEF Books!Open
  <1> QED
    BY <1>5 DEF Books!Next

LEMMA LedgerCollect ==
    ASSUME BooksInv, NEW r \in Requests, NEW amount \in Amounts, PayCommit(r, amount)
    PROVE  Books!Next
  <1> DEFINE s == req[r].sub
  <1> USE DEF PayCommit, BooksInv
  <1>1. s \in Subs /\ Exists(s) /\ req[r].seen = money[s]
    BY DEF Locks
  <1>2. /\ money[s].paid = received[s]
        /\ money[s].balance = money[s].total - received[s]
        /\ amount <= money[s].balance /\ amount > 0
        /\ money[s].total \in Int /\ received[s] \in Int
    BY <1>1 DEF MoneyMatchesPayments, TypeOK, Money, Amounts
  <1>3. /\ Paid(money[s], amount).total = money[s].total
        /\ Paid(money[s], amount).balance = money[s].total - (received[s] + amount)
    BY <1>2 DEF Paid
  <1>4. [u \in Subs |-> money'[u].total] = [u \in Subs |-> money[u].total]
    BY <1>1, <1>3 DEF TypeOK
  <1>5. [u \in Subs |-> money'[u].balance]
           = [[u \in Subs |-> money[u].balance] EXCEPT
                 ![s] = [u \in Subs |-> money[u].total][s] - (received[s] + amount)]
    BY <1>1, <1>3 DEF TypeOK
  <1>6. {u \in Subs : Exists(u)'} = {u \in Subs : Exists(u)}
    BY DEF Exists
  <1>7. received[s] + amount <= [u \in Subs |-> money[u].total][s]
    BY <1>1, <1>2 DEF Amounts
  <1>8. s \in {u \in Subs : Exists(u)}
    BY <1>1
  <1>9. Books!Collect(s, amount)
    BY <1>2, <1>4, <1>5, <1>6, <1>7, <1>8 DEF Books!Collect
  <1> QED
    BY <1>1, <1>9 DEF Books!Next

LEMMA LedgerStep == BooksInv /\ [Next]_vars => [Books!Next]_(Books!ledger)
  <1> SUFFICES ASSUME BooksInv, [Next]_vars
               PROVE  Books!Next \/ UNCHANGED Books!ledger
    OBVIOUS
  <1> USE DEF BooksInv
  <1>1. CASE NextDay \/ (\E p \in Plans : UpdatePlan(p)) \/ UNCHANGED vars
    BY <1>1, LedgerStutter DEF NextDay, UpdatePlan, vars, Exists
  <1>2. ASSUME NEW r \in Requests, Create(r)
        PROVE  Books!Next \/ UNCHANGED Books!ledger
    <2>1. CASE \E p \in Plans : CreateRead(r, p)
      BY <2>1, LedgerStutter DEF CreateRead, Exists
    <2>2. ASSUME NEW s \in Subs, NEW t \in Trainees, NEW start \in Days,
                 NEW end \in Days, NEW total \in Amounts,
                 CreateInsert(r, s, t, start, end, total)
          PROVE  Books!Next
      <3>1. Exists(s)' /\ \A u \in Subs \ {s} : Exists(u) <=> Exists(u)'
        BY <2>2 DEF CreateInsert, CreatedStatus, Exists, TypeOK
      <3>2. received' = [received EXCEPT ![s] = 0]
        BY <2>2 DEF CreateInsert, TypeOK, Fresh
      <3>3. 0 \in Amounts /\ 0 <= total
        BY BillingAssumption DEF Amounts
      <3> QED
        BY <2>2, <3>1, <3>2, <3>3, LedgerOpen DEF CreateInsert
    <2> QED
      BY <1>2, <2>1, <2>2 DEF Create
  <1>3. ASSUME NEW r \in Requests, Pay(r)
        PROVE  Books!Next \/ UNCHANGED Books!ledger
    <2>1. CASE \E s \in Subs : PayLock(r, s)
      BY <2>1, LedgerStutter DEF PayLock, Exists
    <2> QED
      BY <1>3, <2>1, LedgerCollect DEF Pay
  <1>4. ASSUME NEW r \in Requests, Renew(r)
        PROVE  Books!Next \/ UNCHANGED Books!ledger
    <2>1. CASE \E s \in Subs, p \in Plans : RenewLock(r, s, p)
      BY <2>1, LedgerStutter DEF RenewLock, Exists
    <2>2. ASSUME NEW n \in Subs, NEW start \in Days, NEW end \in Days,
                 NEW total \in Amounts, NEW upfront \in Amounts,
                 RenewCommit(r, n, start, end, total, upfront)
          PROVE  Books!Next
      <3>1. req[r].sub \in Subs /\ Exists(req[r].sub)
        BY <2>2 DEF RenewCommit, Locks
      <3>2. Exists(n)' /\ \A u \in Subs \ {n} : Exists(u) <=> Exists(u)'
        BY <2>2, <3>1 DEF RenewCommit, RenewedStatus, Exists, TypeOK
      <3> QED
        BY <2>2, <3>2, LedgerOpen DEF RenewCommit
    <2> QED
      BY <1>4, <2>1, <2>2 DEF Renew
  <1>5. ASSUME NEW r \in Requests, Sync(r)
        PROVE  UNCHANGED Books!ledger
    BY <1>5, LedgerStutter
       DEF Sync, SyncBegin, SyncExpire, SyncActivate, ExpireDue, ActivateDue, Exists, TypeOK
  <1>6. ASSUME NEW r \in Requests, Abandon(r)
        PROVE  UNCHANGED Books!ledger
    BY <1>6, LedgerStutter DEF Abandon, Exists
  <1> QED
    BY <1>1, <1>2, <1>3, <1>4, <1>5, <1>6 DEF Next

(* Billing keeps the books of Ledger: no schedule of requests makes it     *)
(* collect more than was charged, forget a payment, or report a balance    *)
(* that the payments do not explain (renewSubscription, addPayment).       *)
THEOREM BillingKeepsBooks == Spec => BooksKept
  <1>1. Init => Books!Init
    BY DEF Init, Books!Init, Exists, NoMoney
  <1> QED
    BY <1>1, LedgerStep, BooksAlways, PTL DEF Spec, BooksKept, Books!Spec

-----------------------------------------------------------------------------
(* What the renewal chain rests on: a request never knows a date that is   *)
(* still to come, and the plan a request has checked fits the academy.     *)
ChainBasis ==
    /\ \A s \in Subs : Exists(s) =>
          /\ term[s].trainee \in Trainees
          /\ term[s].plan \in Plans
          /\ term[s].today <= day
    /\ \A r \in Requests :
          /\ req[r].today <= day
          /\ req[r].step \in {"insert", "renew"} => req[r].plan \in Plans
          /\ req[r].step = "renew" => PlanAcademy[req[r].plan] = AcademyOf(req[r].sub)

ChainInv == BooksInv /\ RenewalChain /\ StatusMatchesTerm /\ ChainBasis

LEMMA ChainInit == Init => ChainInv
  <1> SUFFICES ASSUME Init PROVE ChainInv
    OBVIOUS
  <1>1. BooksInv
    BY BooksInit
  <1>2. RenewalChain /\ StatusMatchesTerm
    BY DEF Init, RenewalChain, StatusMatchesTerm, Exists
  <1>3. ChainBasis
    BY DEF Init, ChainBasis, Exists, Idle
  <1> QED
    BY <1>1, <1>2, <1>3 DEF ChainInv

(* A request that read or locked something, but wrote nothing. *)
LEMMA ChainRequest ==
    ASSUME ChainInv, BooksInv', UNCHANGED <<day, status, term>>,
           NEW r \in Requests, NEW x \in Request, req' = [req EXCEPT ![r] = x],
           x.today <= day,
           x.step \in {"insert", "renew"} => x.plan \in Plans,
           x.step = "renew" => PlanAcademy[x.plan] = AcademyOf(x.sub)
    PROVE  ChainInv'
  <1>1. RenewalChain' /\ StatusMatchesTerm'
    BY DEF ChainInv, RenewalChain, StatusMatchesTerm, Exists, AcademyOf
  <1>2. req'[r] = x /\ \A q \in Requests \ {r} : req'[q] = req[q]
    BY DEF ChainInv, BooksInv, TypeOK
  <1>3. ChainBasis'
    BY <1>2 DEF ChainInv, ChainBasis, Exists, AcademyOf
  <1> QED
    BY <1>1, <1>3 DEF ChainInv

(* A statement of the status sync: rows that have begun become ACTIVE from *)
(* PENDING, rows that have ended become EXPIRED, the rest stay.            *)
LEMMA ChainStatement ==
    ASSUME ChainInv, BooksInv', UNCHANGED <<day, term>>,
           NEW r \in Requests, NEW x \in Request, req' = [req EXCEPT ![r] = x],
           x.today <= day, x.step \notin {"insert", "renew"},
           \A s \in Subs :
              \/ status'[s] = status[s]
              \/ /\ status[s] = "PENDING" /\ status'[s] = "ACTIVE"
                 /\ term[s].start <= day
              \/ /\ status[s] \in {"PENDING", "ACTIVE"} /\ status'[s] = "EXPIRED"
                 /\ term[s].end < day
    PROVE  ChainInv'
  <1>1. \A s \in Subs : Exists(s) <=> Exists(s)'
    BY DEF Exists
  <1>2. \A s \in Subs : status[s] = "EXPIRED" => status'[s] = "EXPIRED"
    OBVIOUS
  <1>3. RenewalChain'
    <2>1. \A n \in Subs : term[n].from # None => term[n].from \in Subs
      BY DEF ChainInv, BooksInv, TypeOK, Term
    <2> QED
      BY <1>1, <1>2, <2>1 DEF ChainInv, RenewalChain, AcademyOf
  <1>4. StatusMatchesTerm'
    BY <1>1 DEF ChainInv, StatusMatchesTerm
  <1>5. req'[r] = x /\ \A q \in Requests \ {r} : req'[q] = req[q]
    BY DEF ChainInv, BooksInv, TypeOK
  <1>6. ChainBasis'
    BY <1>1, <1>5 DEF ChainInv, ChainBasis, AcademyOf
  <1> QED
    BY <1>3, <1>4, <1>6 DEF ChainInv

(* createSubscription's insert: a row that renews nothing. *)
LEMMA ChainCreate ==
    ASSUME ChainInv, BooksInv', NEW r \in Requests, NEW s \in Subs, NEW t \in Trainees,
           NEW start \in Days, NEW end \in Days, NEW total \in Amounts,
           CreateInsert(r, s, t, start, end, total)
    PROVE  ChainInv'
  <1>0. BooksInv /\ RenewalChain /\ StatusMatchesTerm /\ ChainBasis
    BY DEF ChainInv
  <1>1. /\ day \in Int /\ start \in Int /\ req[r].today \in Int /\ req[r].today <= day
        /\ req[r].plan \in Plans
    BY <1>0, BillingAssumption DEF CreateInsert, BooksInv, TypeOK, Days, Request, ChainBasis
  <1>2. /\ \A u \in Subs \ {s} : term'[u] = term[u] /\ status'[u] = status[u]
        /\ term'[s] = [trainee |-> t, plan |-> req[r].plan, from |-> None,
                       start |-> start, end |-> end, today |-> req[r].today]
        /\ status'[s] = CreatedStatus(start, req[r].today)
        /\ day' = day /\ ~Exists(s) /\ PlanAcademy[req[r].plan] = TraineeAcademy[t]
    BY <1>0 DEF CreateInsert, BooksInv, TypeOK
  <1>3. /\ \A u \in Subs : Exists(u) => Exists(u)' /\ u # s
        /\ \A u \in Subs : Exists(u)' => u = s \/ Exists(u)
        /\ \A u \in Subs : term[u].from # None => term[u].from \in Subs
    BY <1>0, <1>2 DEF Exists, BooksInv, TypeOK, Term, CreatedStatus
  <1>4. RenewalChain'
    <2>1. \A m \in Subs, u \in Subs : Exists(m)' /\ term'[m].from = u =>
              Exists(m) /\ term[m].from = u
      BY <1>2, <1>3, BillingAssumption
    <2> QED
      BY <1>0, <1>2, <1>3, <2>1, BillingAssumption DEF RenewalChain, AcademyOf
  <1>5. StatusMatchesTerm'
    <2>1. status'[s] = "ACTIVE" => term'[s].start <= day
      BY <1>1, <1>2 DEF CreatedStatus
    <2>2. status'[s] # "EXPIRED"
      BY <1>2 DEF CreatedStatus
    <2> QED
      BY <1>0, <1>2, <1>3, <2>1, <2>2 DEF StatusMatchesTerm
  <1>6. ChainBasis'
    <2>1. req'[r] = Idle /\ \A q \in Requests \ {r} : req'[q] = req[q]
      BY <1>0 DEF CreateInsert, BooksInv, TypeOK
    <2>2. Idle.today <= day /\ Idle.step = "idle"
      BY <1>0, BillingAssumption DEF Idle, BooksInv, TypeOK, Days
    <2>3. \A q \in Requests : req[q].step = "renew" =>
              req[q].sub \in Subs /\ Exists(req[q].sub)
      BY <1>0 DEF BooksInv, Locks
    <2> QED
      BY <1>0, <1>1, <1>2, <1>3, <2>1, <2>2, <2>3 DEF ChainBasis, AcademyOf
  <1> QED
    BY <1>4, <1>5, <1>6 DEF ChainInv

(* renewSubscription's commit: the new row points to s, which nothing else *)
(* points to, and s is EXPIRED when the new term has begun.                *)
LEMMA ChainRenew ==
    ASSUME ChainInv, BooksInv', NEW r \in Requests, NEW n \in Subs,
           NEW start \in Days, NEW end \in Days,
           NEW total \in Amounts, NEW upfront \in Amounts,
           RenewCommit(r, n, start, end, total, upfront)
    PROVE  ChainInv'
  <1> DEFINE s == req[r].sub
             today == req[r].today
  <1>0. BooksInv /\ RenewalChain /\ StatusMatchesTerm /\ ChainBasis
    BY DEF ChainInv
  <1>1. /\ day \in Int /\ start \in Int /\ end \in Int /\ today \in Int /\ today <= day
        /\ s \in Subs /\ Exists(s) /\ s # n /\ s # None
        /\ req[r].plan \in Plans /\ PlanAcademy[req[r].plan] = AcademyOf(s)
        /\ term[s].trainee \in Trainees /\ ~Exists(n)
    BY <1>0, BillingAssumption
       DEF RenewCommit, BooksInv, TypeOK, Days, Request, ChainBasis, Locks
  <1>2. /\ \A u \in Subs \ {n} : term'[u] = term[u]
        /\ term'[n] = [trainee |-> term[s].trainee, plan |-> req[r].plan, from |-> s,
                       start |-> start, end |-> end, today |-> today]
        /\ \A u \in Subs \ {s, n} : status'[u] = status[u]
        /\ status'[s] = IF start <= today THEN "EXPIRED" ELSE status[s]
        /\ status'[n] = RenewedStatus(start, end, today)
        /\ day' = day
    BY <1>0, <1>1 DEF RenewCommit, BooksInv, TypeOK
  <1>3. /\ \A u \in Subs : Exists(u) => Exists(u)' /\ u # n
        /\ \A u \in Subs : Exists(u)' => u = n \/ Exists(u)
        /\ Exists(n)'
        /\ \A u \in Subs : term[u].from # None => term[u].from \in Subs
    BY <1>0, <1>1, <1>2 DEF Exists, BooksInv, TypeOK, Term, RenewedStatus
  <1>4. \A u \in Subs : Exists(u) => term[u].from # s /\ term[u].from # n
    BY <1>0, <1>1, BillingAssumption DEF RenewCommit, NotRenewed, RenewalChain
  <1>5. RenewalChain'
    <2>1. \A u \in Subs : Exists(u) /\ status[u] = "EXPIRED" => status'[u] = "EXPIRED"
      BY <1>2, <1>3
    <2>2. ASSUME NEW u \in Subs, Exists(u), term[u].from # None
          PROVE  /\ term'[u] = term[u] /\ term[u].from \in Subs
                 /\ Exists(term[u].from)' /\ term[u].from # u
                 /\ term'[term[u].from].trainee = term[u].trainee
                 /\ \A m \in Subs : Exists(m)' /\ term'[m].from = term[u].from => m = u
                 /\ term[u].start <= term[u].today => status'[term[u].from] = "EXPIRED"
      <3>1. term[u].from \in Subs /\ Exists(term[u].from) /\ term'[u] = term[u]
            /\ term[u].from # s /\ term[u].from # n
        BY <1>0, <1>2, <1>3, <1>4, <2>2 DEF RenewalChain
      <3> QED
        <4>1. /\ term[u].from # u /\ term[term[u].from].trainee = term[u].trainee
              /\ \A m \in Subs : Exists(m) /\ term[m].from = term[u].from => m = u
              /\ term[u].start <= term[u].today => status[term[u].from] = "EXPIRED"
          BY <1>0, <2>2 DEF RenewalChain
        <4> QED
          BY <1>2, <1>3, <2>1, <3>1, <4>1
    <2>3. /\ PlanAcademy[term'[n].plan] = TraineeAcademy[term'[n].trainee]
          /\ term'[n].from = s
          /\ term'[s].trainee = term'[n].trainee
          /\ \A m \in Subs : Exists(m)' /\ term'[m].from = s => m = n
          /\ term'[n].start <= term'[n].today => status'[s] = "EXPIRED"
      BY <1>1, <1>2, <1>3, <1>4 DEF AcademyOf
    <2>4. \A u \in Subs : Exists(u) =>
              PlanAcademy[term'[u].plan] = TraineeAcademy[term'[u].trainee]
      BY <1>0, <1>2, <1>3 DEF RenewalChain, AcademyOf
    <2> QED
      BY <1>1, <1>2, <1>3, <2>2, <2>3, <2>4 DEF RenewalChain, AcademyOf
  <1>6. StatusMatchesTerm'
    <2>1. /\ status'[n] = "ACTIVE" => start <= day
          /\ status'[n] = "EXPIRED" => end < day
      BY <1>1, <1>2 DEF RenewedStatus
    <2>2. \A u \in Subs : u # n /\ status'[u] = "ACTIVE" => term'[u].start <= day
      BY <1>0, <1>2 DEF StatusMatchesTerm
    <2>3. ASSUME NEW u \in Subs, u # n, status'[u] = "EXPIRED"
          PROVE  \/ term'[u].end < day
                 \/ \E m \in Subs : Exists(m)' /\ term'[m].from = u
                                    /\ term'[m].start <= term'[m].today
      <3>1. CASE status[u] = "EXPIRED"
        BY <1>0, <1>2, <1>3, <2>3, <3>1 DEF StatusMatchesTerm
      <3>2. CASE status[u] # "EXPIRED"
        BY <1>1, <1>2, <1>3, <2>3, <3>2
      <3> QED
        BY <3>1, <3>2
    <2> QED
      BY <1>2, <2>1, <2>2, <2>3 DEF StatusMatchesTerm
  <1>7. ChainBasis'
    <2>1. req'[r] = Idle /\ \A q \in Requests \ {r} : req'[q] = req[q]
      BY <1>0 DEF RenewCommit, BooksInv, TypeOK
    <2>2. Idle.today <= day /\ Idle.step = "idle"
      BY <1>0, BillingAssumption DEF Idle, BooksInv, TypeOK, Days
    <2>3. \A q \in Requests : req[q].step = "renew" =>
              req[q].sub \in Subs /\ Exists(req[q].sub)
      BY <1>0 DEF BooksInv, Locks
    <2> QED
      BY <1>0, <1>1, <1>2, <1>3, <2>1, <2>2, <2>3 DEF ChainBasis, AcademyOf
  <1> QED
    BY <1>5, <1>6, <1>7 DEF ChainInv

(* Reads, row locks and requests that end without writing. *)
LEMMA ChainReads ==
    ASSUME ChainInv, BooksInv', NEW r \in Requests,
           \/ \E p \in Plans : CreateRead(r, p)
           \/ \E s \in Subs : PayLock(r, s)
           \/ \E amount \in Amounts : PayCommit(r, amount)
           \/ \E s \in Subs, p \in Plans : RenewLock(r, s, p)
           \/ \E scope \in Academies \cup {None} : SyncBegin(r, scope)
           \/ Abandon(r)
    PROVE  ChainInv'
  <1>1. /\ day \in Days /\ 0 <= day /\ day <= day
        /\ \A s \in Subs : money[s] \in Money
    BY BillingAssumption DEF ChainInv, BooksInv, TypeOK, Days
  <1>2. ASSUME NEW p \in Plans, CreateRead(r, p)
        PROVE  ChainInv'
    <2> DEFINE x == [Idle EXCEPT !.step = "insert", !.plan = p, !.today = day]
    <2>1. x \in Request /\ x.step = "insert" /\ x.today = day /\ x.plan = p
      BY <1>1, IdleRequest DEF Idle, Request, Step
    <2> QED
      BY <1>1, <1>2, <2>1, ChainRequest DEF CreateRead
  <1>3. ASSUME NEW s \in Subs, PayLock(r, s)
        PROVE  ChainInv'
    <2> DEFINE x == [Idle EXCEPT !.step = "pay", !.sub = s, !.seen = money[s]]
    <2>1. x \in Request /\ x.step = "pay" /\ x.today = 0
      BY <1>1, IdleRequest DEF Idle, Request, Step
    <2> QED
      BY <1>1, <1>3, <2>1, ChainRequest DEF PayLock
  <1>4. ASSUME NEW s \in Subs, NEW p \in Plans, RenewLock(r, s, p)
        PROVE  ChainInv'
    <2> DEFINE x == [Idle EXCEPT !.step = "renew", !.sub = s, !.plan = p, !.today = day]
    <2>1. x \in Request /\ x.step = "renew" /\ x.today = day /\ x.plan = p /\ x.sub = s
      BY <1>1, IdleRequest DEF Idle, Request, Step
    <2> QED
      <3>1. /\ req' = [req EXCEPT ![r] = x] /\ UNCHANGED <<day, status, term>>
            /\ PlanAcademy[x.plan] = AcademyOf(x.sub) /\ x.today <= day
        BY <1>1, <1>4, <2>1 DEF RenewLock, AcademyOf
      <3> QED
        BY <2>1, <3>1, ChainRequest
  <1>5. ASSUME NEW scope \in Academies \cup {None}, SyncBegin(r, scope)
        PROVE  ChainInv'
    <2> DEFINE x == [Idle EXCEPT !.step = "expire", !.today = day, !.scope = scope]
    <2>1. x \in Request /\ x.step = "expire" /\ x.today = day
      BY <1>1, IdleRequest DEF Idle, Request, Step
    <2> QED
      BY <1>1, <1>5, <2>1, ChainRequest DEF SyncBegin
  <1>6. ASSUME req' = [req EXCEPT ![r] = Idle], UNCHANGED <<day, status, term>>
        PROVE  ChainInv'
    <2>1. Idle.step = "idle" /\ Idle.today = 0
      BY DEF Idle
    <2> QED
      BY <1>1, <1>6, <2>1, IdleRequest, ChainRequest
  <1>7. CASE Abandon(r) \/ \E amount \in Amounts : PayCommit(r, amount)
    BY <1>6, <1>7 DEF Abandon, PayCommit
  <1> QED
    BY <1>2, <1>3, <1>4, <1>5, <1>7

LEMMA ChainSync ==
    ASSUME ChainInv, BooksInv', NEW r \in Requests, SyncExpire(r) \/ SyncActivate(r)
    PROVE  ChainInv'
  <1>1. /\ req[r] \in Request /\ req[r].today <= day /\ req[r].today \in Int /\ day \in Int
        /\ \A s \in Subs : term[s].start \in Int /\ term[s].end \in Int
        /\ Idle.today <= day /\ Idle.step = "idle"
    BY BillingAssumption
       DEF ChainInv, ChainBasis, BooksInv, TypeOK, Request, Term, Days, Idle
  <1>2. CASE SyncExpire(r)
    <2> DEFINE x == [req[r] EXCEPT !.step = "activate"]
    <2>1. x \in Request /\ x.step = "activate" /\ x.today = req[r].today
      BY <1>1 DEF Request, Step
    <2>2. \A s \in Subs :
              \/ status'[s] = status[s]
              \/ /\ status[s] \in {"PENDING", "ACTIVE"} /\ status'[s] = "EXPIRED"
                 /\ term[s].end < day
      BY <1>1, <1>2 DEF SyncExpire, ExpireDue
    <2> QED
      BY <1>1, <1>2, <2>1, <2>2, ChainStatement DEF SyncExpire
  <1>3. CASE SyncActivate(r)
    <2>1. \A s \in Subs :
              \/ status'[s] = status[s]
              \/ /\ status[s] = "PENDING" /\ status'[s] = "ACTIVE"
                 /\ term[s].start <= day
      BY <1>1, <1>3 DEF SyncActivate, ActivateDue
    <2> QED
      BY <1>1, <1>3, <2>1, ChainStatement, IdleRequest DEF SyncActivate
  <1> QED
    BY <1>2, <1>3

LEMMA ChainDay ==
    ASSUME ChainInv, BooksInv', NextDay
    PROVE  ChainInv'
  <1>1. /\ day \in Int /\ day' = day + 1 /\ UNCHANGED <<status, term, req>>
        /\ \A s \in Subs : term[s].start \in Int /\ term[s].end \in Int /\ term[s].today \in Int
        /\ \A r \in Requests : req[r].today \in Int
    BY BillingAssumption DEF NextDay, ChainInv, BooksInv, TypeOK, Term, Request, Days
  <1>2. RenewalChain' /\ ChainBasis'
    BY <1>1 DEF ChainInv, RenewalChain, ChainBasis, Exists, AcademyOf
  <1>3. StatusMatchesTerm'
    BY <1>1 DEF ChainInv, StatusMatchesTerm, Exists
  <1> QED
    BY <1>2, <1>3 DEF ChainInv

LEMMA ChainNext == ChainInv /\ [Next]_vars => ChainInv'
  <1> SUFFICES ASSUME ChainInv, [Next]_vars PROVE ChainInv'
    OBVIOUS
  <1>1. BooksInv'
    BY BooksNext DEF ChainInv
  <1>2. CASE NextDay
    BY <1>1, <1>2, ChainDay
  <1>3. CASE (\E p \in Plans : UpdatePlan(p)) \/ UNCHANGED vars
    <2>1. UNCHANGED <<day, status, term, req>>
      BY <1>3 DEF UpdatePlan, vars
    <2> QED
      BY <1>1, <2>1
         DEF ChainInv, RenewalChain, StatusMatchesTerm, ChainBasis, Exists, AcademyOf
  <1>4. CASE \E r \in Requests : Create(r) \/ Pay(r) \/ Renew(r) \/ Sync(r) \/ Abandon(r)
    BY <1>1, <1>4, ChainReads, ChainCreate, ChainRenew, ChainSync
       DEF Create, Pay, Renew, Sync
  <1> QED
    BY <1>2, <1>3, <1>4 DEF Next

LEMMA ChainAlways == Spec => []ChainInv
  BY ChainInit, ChainNext, PTL DEF Spec

(* A subscription is renewed at most once, by a row of the same trainee and *)
(* academy, and stays EXPIRED once superseded (renewSubscription).         *)
THEOREM RenewalsFormChains == Spec => []RenewalChain
  <1>1. ChainInv => RenewalChain
    BY DEF ChainInv
  <1> QED
    BY <1>1, ChainAlways, PTL

(* ACTIVE only from the first day on, EXPIRED only when over or superseded, *)
(* although every request works with a date that may be out of date.       *)
THEOREM StatusesMatchTerms == Spec => []StatusMatchesTerm
  <1>1. ChainInv => StatusMatchesTerm
    BY DEF ChainInv
  <1> QED
    BY <1>1, ChainAlways, PTL

(* No step takes a status backwards (syncSubscriptionStatuses).            *)
THEOREM StatusesAdvance == Spec => StatusOnlyAdvances
  <1> DEFINE Forward == \A s \in Subs : Rank(status[s]) <= Rank(status'[s])
  <1>1. ASSUME BooksInv, \A s \in Subs : \/ status'[s] = status[s]
                                        \/ /\ status[s] = "ABSENT"
                                           /\ status'[s] \in Status
                                        \/ /\ status[s] = "PENDING"
                                           /\ status'[s] = "ACTIVE"
                                        \/ status'[s] = "EXPIRED"
        PROVE  Forward
    BY <1>1 DEF Rank, BooksInv, TypeOK, Status
  <1>2. ASSUME BooksInv, NEW r \in Requests, NEW s \in Subs, NEW t \in Trainees,
               NEW start \in Days, NEW end \in Days, NEW total \in Amounts,
               CreateInsert(r, s, t, start, end, total)
        PROVE  Forward
    BY <1>1, <1>2 DEF CreateInsert, CreatedStatus, Exists, BooksInv, TypeOK, Status
  <1>3. ASSUME BooksInv, NEW r \in Requests, NEW n \in Subs, NEW start \in Days,
               NEW end \in Days, NEW total \in Amounts, NEW upfront \in Amounts,
               RenewCommit(r, n, start, end, total, upfront)
        PROVE  Forward
    BY <1>1, <1>3 DEF RenewCommit, RenewedStatus, Exists, BooksInv, TypeOK, Status
  <1>4. ASSUME BooksInv, NEW r \in Requests, SyncExpire(r) \/ SyncActivate(r)
        PROVE  Forward
    BY <1>1, <1>4 DEF SyncExpire, SyncActivate, ExpireDue, ActivateDue
  <1>5. ASSUME BooksInv, UNCHANGED status
        PROVE  Forward
    BY <1>1, <1>5
  <1>6. BooksInv /\ [Next]_vars => Forward
    BY <1>2, <1>3, <1>4, <1>5
       DEF Next, NextDay, UpdatePlan, vars, Create, Pay, Renew, Sync, Abandon,
           CreateRead, PayLock, PayCommit, RenewLock, SyncBegin
  <1>7. BooksInv /\ [Next]_vars => [Forward]_vars
    BY <1>6
  <1> QED
    BY <1>7, BooksAlways, PTL DEF Spec, StatusOnlyAdvances

=============================================================================
