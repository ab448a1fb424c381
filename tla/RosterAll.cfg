\* Two requests, three trainees, one group and one session.
CONSTANTS
    Trainees = {t1, t2, t3}
    Groups = {g1}
    Sessions = {s1}
    Requests = {r1, r2}
    MaxCapacity = 2
SPECIFICATION Spec
SYMMETRY Interchangeable
INVARIANT TypeOK
INVARIANT OverfillBounded
INVARIANT WaitlistedMeansFull
INVARIANT RosterComplete
INVARIANT RecordsAreEnrolled
PROPERTY RecordsKept
