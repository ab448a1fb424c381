------------------------- MODULE SaasBillingProofs --------------------------
(***************************************************************************)
(* Proofs about SaasBilling.  NeverOverstated is carried by the bound on   *)
(* what a request holds in memory (Bounded); ExactWhenUndisturbed by what  *)
(* the only request on an undisturbed subscription holds (Faithful).       *)
(***************************************************************************)
EXTENDS SaasBilling, TLAPS

Received(s) == opening[s] + receipts[s]

(* A request that stands somewhere has read a subscription that exists, and*)
(* what is received never exceeds the bound.                               *)
Sound ==
    /\ \A r \in Requests :
          req[r].step # "idle" =>
              /\ req[r].sub \in Subs /\ Exists(req[r].sub)
              /\ req[r].entity.status # "ABSENT"
    /\ \A s \in Subs : Received(s) <= MaxAmount
    /\ \A s \in Subs : ~ Exists(s) => receipts[s] = 0

(* No entity in memory holds more than was received. *)
Bounded ==
    \A r \in Requests : req[r].step # "idle" => req[r].entity.paid <= Received(req[r].sub)

IInv == TypeOK /\ Sound /\ NeverOverstated /\ Bounded

-----------------------------------------------------------------------------
LEMMA SavedType ==
    ASSUME NEW was \in Row, NEW entity \in Row, NEW dirty
    PROVE  /\ Saved(was, entity, dirty) \in Row
           /\ Saved(was, entity, dirty).paid \in {was.paid, entity.paid}
           /\ Saved(was, entity, dirty).status \in {was.status, entity.status}
           /\ "paid" \in dirty => Saved(was, entity, dirty).paid = entity.paid
  BY DEF Saved, Row

LEMMA ResolvedStatus ==
    ASSUME NEW start, NEW end
    PROVE  ResolveStatus(start, end) \in {"PENDING", "ACTIVE", "EXPIRED"}
  BY DEF ResolveStatus

LEMMA IdleType == Idle \in Request /\ NoRow \in Row
  BY SaasAssumption DEF Idle, NoRow, Request, Row, Days, Amounts

-----------------------------------------------------------------------------
LEMMA InvInit == Init => IInv
  <1> SUFFICES ASSUME Init PROVE IInv
    OBVIOUS
  <1>1. TypeOK
    BY IdleType, SaasAssumption DEF Init, TypeOK, Days, Amounts
  <1>2. Sound /\ NeverOverstated /\ Bounded
    BY SaasAssumption DEF Init, Sound, NeverOverstated, Bounded, Received, Idle, NoRow, Amounts
  <1> QED
    BY <1>1, <1>2 DEF IInv

LEMMA CreateStep ==
    ASSUME IInv, NEW s \in Subs, NEW start \in Days, NEW end \in Days, NEW paid \in Amounts,
           CreateSubscription(s, start, end, paid)
    PROVE  IInv'
  <1> DEFINE x == [status |-> ResolveStatus(start, end), ends |-> end, paid |-> paid]
  <1>1. x \in Row /\ x.status # "ABSENT" /\ x.paid = paid
    BY ResolvedStatus DEF Row
  <1>2. row' = [row EXCEPT ![s] = x] /\ opening' = [opening EXCEPT ![s] = paid]
    BY DEF CreateSubscription
  <1>3. UNCHANGED <<today, receipts, req, disturbed>> /\ ~ Exists(s)
    BY DEF CreateSubscription
  <1> HIDE DEF x
  <1>4. TypeOK'
    BY <1>1, <1>2, <1>3 DEF IInv, TypeOK
  <1>5. receipts[s] = 0 /\ \A r \in Requests : req[r].step # "idle" => req[r].sub # s
    BY <1>3 DEF IInv, Sound
  <1>6. Sound'
    <2>1. \A r \in Requests : req[r].step # "idle" => (req[r].sub \in Subs /\ Exists(req[r].sub))'
      BY <1>1, <1>2, <1>3, <1>5 DEF IInv, TypeOK, Sound, Exists
    <2>2. \A q \in Subs : Received(q)' <= MaxAmount
      BY <1>2, <1>3, <1>5, SaasAssumption DEF IInv, TypeOK, Sound, Received, Amounts
    <2>3. \A q \in Subs : ~ Exists(q)' => receipts'[q] = 0
      BY <1>1, <1>2, <1>3 DEF IInv, TypeOK, Sound, Exists
    <2> QED
      BY <1>3, <2>1, <2>2, <2>3 DEF Sound, IInv
  <1>7. NeverOverstated'
    BY <1>1, <1>2, <1>3, <1>5 DEF IInv, TypeOK, NeverOverstated, Received, Amounts
  <1>8. Bounded'
    BY <1>2, <1>3, <1>5 DEF IInv, TypeOK, Bounded, Received, Sound
  <1> QED
    BY <1>4, <1>6, <1>7, <1>8 DEF IInv

(* A step that only moves request r to x keeps the invariant when x may     *)
(* stand there.                                                            *)
LEMMA MoveStep ==
    ASSUME IInv, NEW r \in Requests, NEW x \in Request, req' = [req EXCEPT ![r] = x],
           UNCHANGED <<today, row, opening, receipts>>, disturbed' \subseteq Subs,
           x.step # "idle" =>
              /\ x.sub \in Subs /\ Exists(x.sub)
              /\ x.entity.status # "ABSENT"
              /\ x.entity.paid <= Received(x.sub)
    PROVE  IInv'
  <1>1. TypeOK'
    BY DEF IInv, TypeOK
  <1>2. Sound'
    BY DEF IInv, TypeOK, Sound, Exists, Received
  <1>3. NeverOverstated' /\ Bounded'
    BY DEF IInv, TypeOK, NeverOverstated, Bounded, Received
  <1> QED
    BY <1>1, <1>2, <1>3 DEF IInv

LEMMA FindStep ==
    ASSUME IInv, NEW r \in Requests, NEW s \in Subs, NEW step \in {"pay", "renew"},
           FindOne(r, s, step)
    PROVE  IInv'
  <1> DEFINE x == [step |-> step, sub |-> s, entity |-> row[s], dirty |-> {}]
  <1>1. x \in Request /\ x.sub = s /\ x.entity = row[s]
    BY DEF IInv, TypeOK, Request
  <1>2. req' = [req EXCEPT ![r] = x] /\ UNCHANGED <<today, row, opening, receipts>>
        /\ disturbed' \subseteq Subs /\ Exists(s)
    BY DEF FindOne, IInv, TypeOK
  <1>3. row[s].status # "ABSENT" /\ row[s].paid <= Received(s)
    BY <1>2 DEF IInv, NeverOverstated, Exists, Received
  <1> HIDE DEF x
  <1> QED
    BY <1>1, <1>2, <1>3, MoveStep

(* The payment's row is there before its amount is in memory. *)
LEMMA ReceiveStep ==
    ASSUME IInv, NEW r \in Requests, req[r].step # "idle", NEW amount \in Amounts,
           NEW entity, entity \in [status : {"PENDING", "ACTIVE", "EXPIRED"}, ends : Days, paid : Nat],
           entity.paid = req[r].entity.paid + amount,
           Receive(r, amount, entity)
    PROVE  IInv'
  <1> DEFINE x == [req[r] EXCEPT !.step = "save", !.entity = entity]
  <1>0. PICK s \in Subs : s = req[r].sub
    BY DEF IInv, Sound
  <1>1. /\ Exists(s) /\ req[r] \in Request
        /\ req[r].entity.paid \in Amounts /\ req[r].entity.paid <= Received(s)
    BY <1>0 DEF IInv, TypeOK, Sound, Bounded, Request, Row
  <1>2. opening[s] \in Amounts /\ receipts[s] \in Amounts
    BY <1>1 DEF IInv, TypeOK
  <1>3. /\ opening[s] + receipts[s] + amount <= MaxAmount
        /\ receipts' = [receipts EXCEPT ![s] = @ + amount]
        /\ req' = [req EXCEPT ![r] = x]
        /\ UNCHANGED <<today, row, opening, disturbed>>
    BY <1>0 DEF Receive
  <1>4. entity.paid <= opening[s] + (receipts[s] + amount)
    BY <1>1, <1>2 DEF Received, Amounts
  <1>5. entity \in Row /\ entity.status # "ABSENT"
    BY <1>2, <1>3, <1>4, SaasAssumption DEF Row, Amounts
  <1>6. x \in Request /\ x.sub = s /\ x.entity = entity
    BY <1>0, <1>1, <1>5 DEF Request
  <1> HIDE DEF x
  <1>7. receipts[s] + amount \in Amounts
    BY <1>2, <1>3, SaasAssumption DEF Amounts
  <1>8. TypeOK'
    BY <1>1, <1>3, <1>6, <1>7 DEF IInv, TypeOK
  <1>9. \A q \in Subs : receipts'[q] = (IF q = s THEN receipts[s] + amount ELSE receipts[q])
    BY <1>1, <1>3 DEF IInv, TypeOK
  <1>10. \A q \in Subs : Received(q) <= Received(q)' /\ Received(q) \in Int /\ Received(q)' \in Int
    BY <1>2, <1>3, <1>9 DEF IInv, TypeOK, Received, Amounts
  <1>11. Received(s)' = opening[s] + (receipts[s] + amount)
    BY <1>1, <1>3, <1>9 DEF Received
  <1>12. Sound'
    <2>1. \A q \in Requests : req'[q].step # "idle" =>
              (req[q].sub \in Subs /\ Exists(req[q].sub) /\ req[q].entity.status # "ABSENT")'
      BY <1>1, <1>3, <1>5, <1>6 DEF IInv, TypeOK, Sound, Exists
    <2>2. \A q \in Subs : Received(q)' <= MaxAmount
      BY <1>2, <1>3, <1>9 DEF IInv, TypeOK, Sound, Received, Amounts
    <2>3. \A q \in Subs : ~ Exists(q)' => receipts'[q] = 0
      BY <1>1, <1>3, <1>9 DEF IInv, Sound, Exists
    <2> QED
      BY <2>1, <2>2, <2>3 DEF Sound
  <1>13. NeverOverstated'
    BY <1>3, <1>10 DEF IInv, TypeOK, NeverOverstated, Received, Row, Amounts
  <1>14. Bounded'
    <2>1. ASSUME NEW q \in Requests, req'[q].step # "idle"
          PROVE  (req[q].entity.paid <= Received(req[q].sub))'
      <3>1. CASE q = r
        BY <1>1, <1>3, <1>4, <1>6, <1>11, <3>1 DEF IInv, TypeOK
      <3>2. CASE q # r
        <4>1. req'[q] = req[q] /\ req[q] \in Request
          BY <1>3, <3>2 DEF IInv, TypeOK
        <4>2. req[q].sub \in Subs /\ req[q].entity.paid <= Received(req[q].sub) /\ req[q].entity.paid \in Int
          BY <2>1, <4>1 DEF IInv, Sound, Bounded, Request, Row, Amounts
        <4> QED
          BY <1>10, <4>1, <4>2
      <3> QED
        BY <3>1, <3>2
    <2> QED
      BY <2>1 DEF Bounded
  <1> QED
    BY <1>8, <1>12, <1>13, <1>14 DEF IInv

LEMMA UpdateStep ==
    ASSUME IInv, NEW r \in Requests, SaveUpdate(r)
    PROVE  IInv'
  <1>0. PICK s \in Subs : s = req[r].sub
    BY DEF IInv, Sound, SaveUpdate
  <1> DEFINE x == Saved(row[s], req[r].entity, req[r].dirty)
  <1>1. /\ row[s] \in Row /\ req[r].entity \in Row
        /\ row[s].status # "ABSENT" /\ req[r].entity.status # "ABSENT"
        /\ row[s].paid <= Received(s) /\ req[r].entity.paid <= Received(s)
    <2>1. req[r].step # "idle" /\ req[r] \in Request
      BY DEF SaveUpdate, IInv, TypeOK
    <2>2. row[s] \in Row /\ req[r].entity \in Row
      BY <2>1 DEF IInv, TypeOK, Request
    <2>3. row[s].status # "ABSENT" /\ req[r].entity.status # "ABSENT"
      BY <1>0, <2>1 DEF IInv, Sound, Exists
    <2>4. req[r].entity.paid <= Received(s)
      BY <1>0, <2>1 DEF IInv, Bounded
    <2>5. row[s].paid <= Received(s)
      BY DEF IInv, NeverOverstated, Received
    <2> QED
      BY <2>2, <2>3, <2>4, <2>5
  <1>2. x \in Row /\ x.status # "ABSENT" /\ x.paid <= Received(s)
    BY <1>1, SavedType
  <1>3. /\ row' = [row EXCEPT ![s] = x] /\ req' = [req EXCEPT ![r] = Idle]
        /\ UNCHANGED <<today, opening, receipts, disturbed>>
    BY <1>0 DEF SaveUpdate
  <1> HIDE DEF x
  <1>4. TypeOK'
    BY <1>2, <1>3, IdleType DEF IInv, TypeOK
  <1>5. \A q \in Subs : Exists(q)' <=> Exists(q)
    BY <1>1, <1>2, <1>3 DEF IInv, TypeOK, Exists
  <1>6. Sound'
    BY <1>3, <1>5 DEF IInv, TypeOK, Sound, Received, Idle
  <1>7. NeverOverstated' /\ Bounded'
    BY <1>2, <1>3 DEF IInv, TypeOK, NeverOverstated, Bounded, Received, Idle
  <1> QED
    BY <1>4, <1>6, <1>7 DEF IInv

LEMMA InvStep == IInv /\ [Next]_vars => IInv'
  <1> SUFFICES ASSUME IInv, [Next]_vars PROVE IInv'
    OBVIOUS
  <1>1. CASE UNCHANGED vars
    BY <1>1 DEF vars, IInv, TypeOK, Sound, NeverOverstated, Bounded, Received, Exists
  <1>2. CASE NextDay
    BY <1>2, SaasAssumption
       DEF NextDay, Days, IInv, TypeOK, Sound, NeverOverstated, Bounded, Received, Exists
  <1>3. ASSUME NEW r \in Requests, NEW amount \in Amounts, CreatePayment(r, amount) PROVE IInv'
    <2> DEFINE x == [req[r].entity EXCEPT !.paid = @ + amount]
    <2>1. req[r].step # "idle" /\ req[r].entity \in Row /\ req[r].entity.status # "ABSENT"
      BY <1>3 DEF CreatePayment, IInv, TypeOK, Sound, Request
    <2>2. /\ x \in [status : {"PENDING", "ACTIVE", "EXPIRED"}, ends : Days, paid : Nat]
          /\ x.paid = req[r].entity.paid + amount
      BY <2>1 DEF Row, Amounts
    <2>3. Receive(r, amount, x)
      BY <1>3 DEF CreatePayment
    <2> HIDE DEF x
    <2> QED
      BY <2>1, <2>2, <2>3, ReceiveStep
  <1>4. ASSUME NEW r \in Requests, NEW end \in Days, NEW amount \in Amounts,
               RenewSubscription(r, end, amount)
        PROVE  IInv'
    <2> DEFINE x == [status |-> "ACTIVE", ends |-> end, paid |-> req[r].entity.paid + amount]
    <2>1. req[r].step # "idle" /\ req[r].entity \in Row
      BY <1>4 DEF RenewSubscription, IInv, TypeOK, Request
    <2>2. /\ x \in [status : {"PENDING", "ACTIVE", "EXPIRED"}, ends : Days, paid : Nat]
          /\ x.paid = req[r].entity.paid + amount
      BY <2>1 DEF Row, Amounts
    <2>3. Receive(r, amount, x)
      BY <1>4 DEF RenewSubscription
    <2> HIDE DEF x
    <2> QED
      BY <2>1, <2>2, <2>3, ReceiveStep
  <1>5. ASSUME NEW r \in Requests, SaveSelect(r) PROVE IInv'
    <2> DEFINE x == [req[r] EXCEPT !.step = "update",
                        !.dirty = {c \in Columns : row[req[r].sub][c] # req[r].entity[c]}]
    <2>1. /\ x \in Request /\ x.sub = req[r].sub /\ x.entity = req[r].entity
          /\ req[r].step # "idle"
      BY <1>5 DEF SaveSelect, IInv, TypeOK, Request
    <2>2. req' = [req EXCEPT ![r] = x] /\ UNCHANGED <<today, row, opening, receipts, disturbed>>
      BY <1>5 DEF SaveSelect
    <2> HIDE DEF x
    <2> QED
      BY <2>1, <2>2, MoveStep DEF IInv, TypeOK, Sound, Bounded
  <1>6. ASSUME NEW r \in Requests, Stop(r) PROVE IInv'
    <2>1. /\ req' = [req EXCEPT ![r] = Idle] /\ UNCHANGED <<today, row, opening, receipts>>
          /\ disturbed' \subseteq Subs
      BY <1>6 DEF Stop, IInv, TypeOK, Sound
    <2>2. Idle.step = "idle"
      BY DEF Idle
    <2> QED
      BY <2>1, <2>2, IdleType, MoveStep
  <1> QED
    BY <1>1, <1>2, <1>3, <1>4, <1>5, <1>6, CreateStep, FindStep, UpdateStep DEF Next

(* Every variable keeps its type. *)
THEOREM TypeCorrect == Spec => []TypeOK
  <1>1. IInv => TypeOK
    BY DEF IInv
  <1> QED
    BY <1>1, InvInit, InvStep, PTL DEF Spec

(* No subscription ever shows more as paid than was received for it, for   *)
(* any number of overlapping and failing requests.                         *)
THEOREM PaidNeverOverstated == Spec => []NeverOverstated
  <1>1. IInv => NeverOverstated
    BY DEF IInv
  <1> QED
    BY <1>1, InvInit, InvStep, PTL DEF Spec

-----------------------------------------------------------------------------
(* On an undisturbed subscription at most one request stands, and it holds *)
(* the truth: what the row shows before it has received a payment, what is *)
(* received afterwards; save's UPDATE will write it unless the row shows it*)
(* already.                                                                *)
At(r, s) == req[r].step # "idle" /\ req[r].sub = s

Truthful(r, s) ==
    /\ req[r].step \in {"pay", "renew"} =>
          row[s].paid = Received(s) /\ req[r].entity.paid = Received(s)
    /\ req[r].step \in {"save", "update"} => req[r].entity.paid = Received(s)
    /\ req[r].step = "update" => "paid" \in req[r].dirty \/ row[s].paid = Received(s)

Good(s) ==
    s \notin disturbed =>
        /\ \A p, q \in Requests : At(p, s) /\ At(q, s) => p = q
        /\ \A r \in Requests : At(r, s) => Truthful(r, s)
        /\ (\A r \in Requests : ~ At(r, s)) => row[s].paid = Received(s)

ExactInv == IInv /\ \A s \in Subs : Good(s)

LEMMA ExactInit == Init => ExactInv
  <1> SUFFICES ASSUME Init PROVE ExactInv
    OBVIOUS
  <1>1. \A s \in Subs : Good(s)
    BY DEF Init, Good, At, Received, Idle, NoRow
  <1> QED
    BY <1>1, InvInit DEF ExactInv

(* A subscription nobody touches stays good. *)
LEMMA Untouched ==
    ASSUME NEW s \in Subs, Good(s), disturbed \subseteq disturbed',
           row'[s] = row[s], opening'[s] = opening[s], receipts'[s] = receipts[s],
           \A q \in Requests : At(q, s) \/ At(q, s)' => req'[q] = req[q]
    PROVE  Good(s)'
  BY DEF Good, At, Truthful, Received

(* A request that moves on, on the subscription s it stands on. *)
LEMMA MoveGood ==
    ASSUME IInv, NEW s \in Subs, Good(s), NEW r \in Requests, At(r, s), NEW x,
           req' = [req EXCEPT ![r] = x], x.step # "idle", x.sub = s,
           disturbed' = disturbed, s \notin disturbed => Truthful(r, s)'
    PROVE  Good(s)'
  <1>1. req'[r] = x /\ \A q \in Requests \ {r} : req'[q] = req[q]
    BY DEF IInv, TypeOK
  <1>2. \A q \in Requests : At(q, s)' <=> At(q, s)
    BY <1>1 DEF At
  <1>3. ASSUME s \notin disturbed PROVE \A q \in Requests : At(q, s) => q = r
    BY <1>3 DEF Good
  <1> QED
    BY <1>2, <1>3 DEF Good

LEMMA FindGood ==
    ASSUME IInv, NEW s \in Subs, Good(s), NEW r \in Requests, NEW t \in Subs,
           NEW step \in {"pay", "renew"}, FindOne(r, t, step)
    PROVE  Good(s)'
  <1> DEFINE x == [step |-> step, sub |-> t, entity |-> row[t], dirty |-> {}]
  <1>1. /\ req[r].step = "idle" /\ req' = [req EXCEPT ![r] = x]
        /\ disturbed' = IF Busy(t) THEN disturbed \cup {t} ELSE disturbed
        /\ UNCHANGED <<today, row, opening, receipts>>
    BY DEF FindOne
  <1>2. req'[r] = x /\ \A q \in Requests \ {r} : req'[q] = req[q]
    BY <1>1 DEF IInv, TypeOK
  <1>3. CASE s # t
    <2>1. \A q \in Requests : At(q, s) \/ At(q, s)' => req'[q] = req[q]
      BY <1>1, <1>2, <1>3 DEF At
    <2> QED
      BY <1>1, <2>1, Untouched
  <1>4. CASE s = t
    <2> SUFFICES ASSUME s \notin disturbed' PROVE Good(s)'
      BY DEF Good
    <2>1. s \notin disturbed /\ \A q \in Requests : ~ At(q, s)
      BY <1>1, <1>4 DEF Busy, At
    <2>2. row[s].paid = Received(s)
      BY <2>1 DEF Good
    <2>3. \A q \in Requests : At(q, s)' <=> q = r
      BY <1>2, <1>4, <2>1 DEF At
    <2>4. Truthful(r, s)'
      BY <1>1, <1>2, <1>4, <2>2 DEF Truthful, Received
    <2> QED
      BY <2>3, <2>4 DEF Good
  <1> QED
    BY <1>3, <1>4

(* createPayment and renewSubscription: the sums agree before and after. *)
LEMMA ReceiveGood ==
    ASSUME IInv, NEW s \in Subs, Good(s), NEW r \in Requests, req[r].step \in {"pay", "renew"},
           NEW amount \in Amounts, NEW entity, entity.paid = req[r].entity.paid + amount,
           Receive(r, amount, entity)
    PROVE  Good(s)'
  <1>0. PICK t \in Subs : t = req[r].sub
    BY DEF IInv, Sound
  <1> DEFINE x == [req[r] EXCEPT !.step = "save", !.entity = entity]
  <1>1. /\ receipts' = [receipts EXCEPT ![t] = @ + amount]
        /\ req' = [req EXCEPT ![r] = x] /\ UNCHANGED <<today, row, opening, disturbed>>
    BY <1>0 DEF Receive
  <1>2. x.step = "save" /\ x.sub = t /\ x.entity = entity
    BY <1>0 DEF IInv, TypeOK, Request
  <1> HIDE DEF x
  <1>3. req'[r] = x /\ \A q \in Requests \ {r} : req'[q] = req[q]
    BY <1>1 DEF IInv, TypeOK
  <1>4. \A q \in Subs : receipts'[q] = (IF q = t THEN receipts[t] + amount ELSE receipts[q])
    BY <1>1 DEF IInv, TypeOK
  <1>5. CASE s # t
    <2>1. \A q \in Requests : At(q, s) \/ At(q, s)' => req'[q] = req[q]
      BY <1>0, <1>2, <1>3, <1>5 DEF At
    <2> QED
      BY <1>1, <1>4, <1>5, <2>1, Untouched
  <1>6. CASE s = t
    <2>1. At(r, s)
      BY <1>0, <1>6 DEF At
    <2>2. ASSUME s \notin disturbed PROVE Truthful(r, s)'
      <3>1. req[r].entity.paid = opening[s] + receipts[s]
        BY <2>1, <2>2 DEF Good, Truthful, Received
      <3>2. entity.paid = opening'[s] + receipts'[s]
        BY <1>1, <1>4, <1>6, <3>1 DEF IInv, TypeOK, Amounts
      <3> QED
        BY <1>2, <1>3, <3>2 DEF Truthful, Received
    <2> QED
      BY <1>1, <1>2, <1>6, <2>1, <2>2, MoveGood
  <1> QED
    BY <1>5, <1>6

LEMMA SelectGood ==
    ASSUME IInv, NEW s \in Subs, Good(s), NEW r \in Requests, SaveSelect(r)
    PROVE  Good(s)'
  <1>0. PICK t \in Subs : t = req[r].sub
    BY DEF IInv, Sound, SaveSelect
  <1> DEFINE d == {c \in Columns : row[t][c] # req[r].entity[c]}
             x == [req[r] EXCEPT !.step = "update", !.dirty = d]
  <1>1. /\ req[r].step = "save" /\ req' = [req EXCEPT ![r] = x]
        /\ UNCHANGED <<today, row, opening, receipts, disturbed>>
    BY <1>0 DEF SaveSelect
  <1>2. "paid" \in d \/ row[t].paid = req[r].entity.paid
    BY DEF Columns
  <1> HIDE DEF d
  <1>3. x.step = "update" /\ x.sub = t /\ x.entity = req[r].entity /\ x.dirty = d
    BY <1>0 DEF IInv, TypeOK, Request
  <1> HIDE DEF x
  <1>4. req'[r] = x /\ \A q \in Requests \ {r} : req'[q] = req[q]
    BY <1>1 DEF IInv, TypeOK
  <1>5. CASE s # t
    <2>1. \A q \in Requests : At(q, s) \/ At(q, s)' => req'[q] = req[q]
      BY <1>0, <1>3, <1>4, <1>5 DEF At
    <2> QED
      BY <1>1, <2>1, Untouched
  <1>6. CASE s = t
    <2>1. At(r, s)
      BY <1>0, <1>1, <1>6 DEF At
    <2>2. ASSUME s \notin disturbed PROVE Truthful(r, s)'
      <3>1. req[r].entity.paid = Received(s)
        BY <1>1, <2>1, <2>2 DEF Good, Truthful
      <3> QED
        BY <1>1, <1>2, <1>3, <1>4, <1>6, <3>1 DEF Truthful, Received
    <2> QED
      BY <1>1, <1>3, <1>6, <2>1, <2>2, MoveGood
  <1> QED
    BY <1>5, <1>6

LEMMA UpdateGood ==
    ASSUME IInv, NEW s \in Subs, Good(s), NEW r \in Requests, SaveUpdate(r)
    PROVE  Good(s)'
  <1>0. PICK t \in Subs : t = req[r].sub
    BY DEF IInv, Sound, SaveUpdate
  <1> DEFINE x == Saved(row[t], req[r].entity, req[r].dirty)
  <1>1. /\ req[r].step = "update" /\ row' = [row EXCEPT ![t] = x]
        /\ req' = [req EXCEPT ![r] = Idle] /\ UNCHANGED <<today, opening, receipts, disturbed>>
    BY <1>0 DEF SaveUpdate
  <1>2. /\ x.paid \in {row[t].paid, req[r].entity.paid}
        /\ "paid" \in req[r].dirty => x.paid = req[r].entity.paid
    BY SavedType DEF IInv, TypeOK, Request
  <1> HIDE DEF x
  <1>3. /\ req'[r].step = "idle" /\ \A q \in Requests \ {r} : req'[q] = req[q]
        /\ \A q \in Subs : row'[q] = IF q = t THEN x ELSE row[q]
    BY <1>1 DEF IInv, TypeOK, Idle
  <1>4. CASE s # t
    <2>1. \A q \in Requests : At(q, s) \/ At(q, s)' => req'[q] = req[q]
      BY <1>0, <1>3, <1>4 DEF At
    <2> QED
      BY <1>1, <1>3, <1>4, <2>1, Untouched
  <1>5. CASE s = t
    <2> SUFFICES ASSUME s \notin disturbed PROVE Good(s)'
      BY <1>1 DEF Good
    <2>1. At(r, s)
      BY <1>0, <1>1, <1>5 DEF At
    <2>2. \A q \in Requests : ~ At(q, s)'
      BY <1>3, <2>1 DEF At, Good
    <2>3. x.paid = Received(s)
      BY <1>1, <1>2, <1>5, <2>1 DEF Good, Truthful
    <2> QED
      BY <1>1, <1>3, <1>5, <2>2, <2>3 DEF Good, Received
  <1> QED
    BY <1>4, <1>5

LEMMA StopGood ==
    ASSUME IInv, NEW s \in Subs, Good(s), NEW r \in Requests, Stop(r)
    PROVE  Good(s)'
  <1>1. /\ req' = [req EXCEPT ![r] = Idle] /\ UNCHANGED <<today, row, opening, receipts>>
        /\ disturbed' = disturbed \cup {req[r].sub}
    BY DEF Stop
  <1>2. req'[r].step = "idle" /\ \A q \in Requests \ {r} : req'[q] = req[q]
    BY <1>1 DEF IInv, TypeOK, Idle
  <1>3. CASE s = req[r].sub
    BY <1>1, <1>3 DEF Good
  <1>4. CASE s # req[r].sub
    <2>1. \A q \in Requests : At(q, s) \/ At(q, s)' => req'[q] = req[q]
      BY <1>2, <1>4 DEF At
    <2> QED
      BY <1>1, <2>1, Untouched
  <1> QED
    BY <1>3, <1>4

LEMMA CreateGood ==
    ASSUME IInv, NEW s \in Subs, Good(s), NEW t \in Subs, NEW start \in Days, NEW end \in Days,
           NEW paid \in Amounts, CreateSubscription(t, start, end, paid)
    PROVE  Good(s)'
  <1> DEFINE x == [status |-> ResolveStatus(start, end), ends |-> end, paid |-> paid]
  <1>1. /\ ~ Exists(t) /\ row' = [row EXCEPT ![t] = x] /\ opening' = [opening EXCEPT ![t] = paid]
        /\ UNCHANGED <<today, receipts, req, disturbed>>
    BY DEF CreateSubscription
  <1>2. x.paid = paid
    OBVIOUS
  <1> HIDE DEF x
  <1>3. CASE s # t
    BY <1>1, <1>3, Untouched DEF IInv, TypeOK
  <1>4. CASE s = t
    <2>1. \A q \in Requests : ~ At(q, s)'
      BY <1>1, <1>4 DEF IInv, Sound, At
    <2>2. row'[s].paid = paid /\ opening'[s] = paid /\ receipts'[s] = 0
      BY <1>1, <1>2, <1>4 DEF IInv, TypeOK, Sound
    <2>3. row'[s].paid = opening'[s] + receipts'[s]
      BY <2>2 DEF Amounts
    <2> QED
      BY <2>1, <2>3 DEF Good, Received
  <1> QED
    BY <1>3, <1>4

LEMMA ExactStep == ExactInv /\ [Next]_vars => ExactInv'
  <1> SUFFICES ASSUME ExactInv, [Next]_vars, NEW s \in Subs PROVE Good(s)'
    BY InvStep DEF ExactInv
  <1> USE DEF ExactInv
  <1>1. CASE UNCHANGED vars
    BY <1>1, Untouched DEF vars, At
  <1>2. CASE NextDay
    BY <1>2, Untouched DEF NextDay, At
  <1>3. ASSUME NEW r \in Requests, NEW amount \in Amounts, CreatePayment(r, amount) PROVE Good(s)'
    <2> DEFINE x == [req[r].entity EXCEPT !.paid = @ + amount]
    <2>1. x.paid = req[r].entity.paid + amount
      BY DEF IInv, TypeOK, Request, Row
    <2>2. req[r].step = "pay" /\ Receive(r, amount, x)
      BY <1>3 DEF CreatePayment
    <2> HIDE DEF x
    <2> QED
      BY <2>1, <2>2, ReceiveGood
  <1>4. ASSUME NEW r \in Requests, NEW end \in Days, NEW amount \in Amounts,
               RenewSubscription(r, end, amount)
        PROVE  Good(s)'
    <2> DEFINE x == [status |-> "ACTIVE", ends |-> end, paid |-> req[r].entity.paid + amount]
    <2>1. x.paid = req[r].entity.paid + amount
      OBVIOUS
    <2>2. req[r].step = "renew" /\ Receive(r, amount, x)
      BY <1>4 DEF RenewSubscription
    <2> HIDE DEF x
    <2> QED
      BY <2>1, <2>2, ReceiveGood
  <1> QED
    BY <1>1, <1>2, <1>3, <1>4, CreateGood, FindGood, SelectGood, UpdateGood, StopGood DEF Next

(* Payments and renewals that come one at a time and do not fail leave     *)
(* paidAmount exact, for any number of subscriptions and requests.         *)
THEOREM PaidExactAlone == Spec => []ExactWhenUndisturbed
  <1>1. ExactInv => ExactWhenUndisturbed
    BY DEF ExactInv, Good, At, Busy, Received, ExactWhenUndisturbed
  <1> QED
    BY <1>1, ExactInit, ExactStep, PTL DEF Spec
=============================================================================
