\* A status sync competing with payments and renewals for the rows.
CONSTANTS
    s1 = s1  s2 = s2  s3 = s3
    t1 = t1  t2 = t2
    p1 = p1  p2 = p2  p3 = p3
    a1 = a1  a2 = a2
    r1 = r1  r2 = r2  r3 = r3
    Subs = {s1}
    Trainees = {t1}
    Plans = {p1}
    Academies = {a1}
    Requests = {r1, r2}
    TraineeAcademy <- OneTraineeAcademy
    PlanAcademy <- OnePlanAcademy
    MaxDay = 2
    MaxAmount = 1
    None = None
SPECIFICATION FairSpec
PROPERTY SyncCatchesUp
