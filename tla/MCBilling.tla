----------------------------- MODULE MCBilling ------------------------------
(* Small instances of Billing for TLC. *)
EXTENDS Billing, TLC

CONSTANTS s1, s2, s3, t1, t2, p1, p2, p3, a1, a2, r1, r2, r3

(* One academy with two plans, and a second academy with one. *)
MCTraineeAcademy == (t1 :> a1) @@ (t2 :> a2)
MCPlanAcademy == (p1 :> a1) @@ (p2 :> a1) @@ (p3 :> a2)

(* One trainee, one plan: the money run. *)
OneTraineeAcademy == t1 :> a1
OnePlanAcademy == p1 :> a1
TwoPlanAcademy == (p1 :> a1) @@ (p3 :> a2)

(* Rows and requests are interchangeable in the safety properties. *)
Interchangeable == Permutations(Subs) \cup Permutations(Requests)
=============================================================================
