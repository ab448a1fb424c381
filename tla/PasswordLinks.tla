---------------------------- MODULE PasswordLinks ----------------------------
(***************************************************************************)
(* What the recovery of a password promises, whatever is stored, locked    *)
(* and mailed for it: a link belongs to one account for ever, is sent once *)
(* and sets a password once, after it has been sent and as long as it is   *)
(* good.  It may cease to be good at any time, and other links of its      *)
(* account with it; it does when it has been presented, whether a password *)
(* is set or, the account being blocked, not.                              *)
(***************************************************************************)
EXTENDS Naturals

CONSTANTS Links, Owners, Nobody

VARIABLES
    owner,  \* whose account a link is for, Nobody before it is made
    good,   \* the links that set a password
    sent,   \* the links that have left in a mail
    used    \* how many passwords each link has set

recovery == <<owner, good, sent, used>>

Init ==
    /\ owner = [k \in Links |-> Nobody]
    /\ good = {}
    /\ sent = {}
    /\ used = [k \in Links |-> 0]

Of(o) == {k \in Links : owner[k] = o}

(* A new link takes the place of others of the account, not of all. *)
Make(k, o) ==
    /\ owner[k] = Nobody
    /\ owner' = [owner EXCEPT ![k] = o]
    /\ \E retired \in SUBSET Of(o) : good' = (good \ retired) \cup {k}
    /\ UNCHANGED <<sent, used>>

Send(k) ==
    /\ owner[k] # Nobody /\ k \notin sent
    /\ sent' = sent \cup {k}
    /\ UNCHANGED <<owner, good, used>>

(* The mail fails, maybe after it has left. *)
Withdraw(k) ==
    /\ owner[k] # Nobody /\ k \notin sent
    /\ sent' \in {sent, sent \cup {k}}
    /\ good' = good \ {k}
    /\ UNCHANGED <<owner, used>>

(* The link is presented: it is spent, and links of the account with it. *)
Spend(k) ==
    /\ k \in sent \cap good
    /\ \E retired \in SUBSET Of(owner[k]) :
          k \in retired /\ good' = good \ retired
    /\ UNCHANGED <<owner, sent>>

Use(k) == Spend(k) /\ used' = [used EXCEPT ![k] = @ + 1]

(* No password is set. *)
Waste(k) == Spend(k) /\ UNCHANGED used

Next ==
    \E k \in Links :
        Send(k) \/ Withdraw(k) \/ Use(k) \/ Waste(k) \/ \E o \in Owners : Make(k, o)

Spec == Init /\ [][Next]_recovery
=============================================================================
