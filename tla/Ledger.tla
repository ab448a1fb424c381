------------------------------- MODULE Ledger -------------------------------
(***************************************************************************)
(* What a billing component promises about money, whatever its tables and  *)
(* transactions look like: accounts are opened with a charge, money is     *)
(* collected against them, and the outstanding amount the system reports   *)
(* is, in every state, the charge less what was collected.  Nothing is     *)
(* collected beyond the charge and nothing collected is ever forgotten.    *)
(***************************************************************************)
EXTENDS Integers

CONSTANTS
    Accounts,
    Sums  \* the sums of money that can be charged or collected

VARIABLES
    opened,     \* the accounts that exist
    charged,    \* what each account was charged when it was opened
    collected,  \* the money received for it so far
    outstanding \* the amount the system says is still owed

ledger == <<opened, charged, collected, outstanding>>

Init ==
    /\ opened = {}
    /\ charged = [a \in Accounts |-> 0]
    /\ collected = [a \in Accounts |-> 0]
    /\ outstanding = [a \in Accounts |-> 0]

(* A new account, possibly with a first payment taken on the spot. *)
Open(a, total, upfront) ==
    /\ a \notin opened
    /\ upfront <= total
    /\ opened' = opened \cup {a}
    /\ charged' = [charged EXCEPT ![a] = total]
    /\ collected' = [collected EXCEPT ![a] = upfront]
    /\ outstanding' = [outstanding EXCEPT ![a] = total - upfront]

(* Money received for an account: it reduces what is reported as owed by   *)
(* the same amount, in the same step.                                      *)
Collect(a, amount) ==
    /\ a \in opened
    /\ amount > 0
    /\ collected[a] + amount <= charged[a]
    /\ collected' = [collected EXCEPT ![a] = @ + amount]
    /\ outstanding' = [outstanding EXCEPT ![a] = charged[a] - (collected[a] + amount)]
    /\ UNCHANGED <<opened, charged>>

Next ==
    \E a \in Accounts :
        \/ \E total, upfront \in Sums : Open(a, total, upfront)
        \/ \E amount \in Sums : Collect(a, amount)

Spec == Init /\ [][Next]_ledger
=============================================================================
