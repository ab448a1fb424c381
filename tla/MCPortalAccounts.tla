-------------------------- MODULE MCPortalAccounts --------------------------
(* Small instances of PortalAccounts for TLC. *)
EXTENDS PortalAccounts, TLC

(* Tokens, requests and trainees are interchangeable in the safety properties. *)
Interchangeable == Permutations(Tokens) \cup Permutations(Requests) \cup Permutations(Trainees)

(* Two requests approving and updating two trainees while the office links *)
(* and unlinks accounts: no mail is sent, the clock rests.                 *)
ApprovalsNext ==
    \/ \E r \in Requests :
        \/ \E t \in Trainees : ApproveBegin(r, t) \/ UpdateTraineeBegin(r, t)
        \/ Approve(r)
        \/ \E e \in Emails : UpdateTraineeSave(r, e)
        \/ Stop(r)
    \/ \E p \in Emails \X Trainees : CreateLink(p[1], p[2]) \/ RemoveLink(p)

ApprovalsSpec == Init /\ [][ApprovalsNext]_vars
=============================================================================
