\* Every operation on one trainee and one account, with two reset links.
CONSTANTS
    Trainees = {t1}
    Emails = {e1}
    Registered = {}
    Tokens = {k1, k2}
    Requests = {r1, r2}
    TokenLife = 0
    InviteLife = 0
    MaxTime = 1
    None = None
SPECIFICATION Spec
SYMMETRY Interchangeable
INVARIANT TypeOK
INVARIANT LinkWorksOnce
PROPERTY ResetRetiresAllLinks
PROPERTY RecoveryKept
