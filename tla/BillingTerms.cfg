\* Renewal chains of three rows in two academies; midnight comes between the steps.
CONSTANTS
    s1 = s1  s2 = s2  s3 = s3
    t1 = t1  t2 = t2
    p1 = p1  p2 = p2  p3 = p3
    a1 = a1  a2 = a2
    r1 = r1  r2 = r2  r3 = r3
    Subs = {s1, s2, s3}
    Trainees = {t1, t2}
    Plans = {p1, p3}
    Academies = {a1, a2}
    Requests = {r1, r2}
    TraineeAcademy <- MCTraineeAcademy
    PlanAcademy <- TwoPlanAcademy
    MaxDay = 1
    MaxAmount = 0
    None = None
SPECIFICATION Spec
SYMMETRY Interchangeable
INVARIANT RenewalChain
INVARIANT StatusMatchesTerm
PROPERTY StatusOnlyAdvances
