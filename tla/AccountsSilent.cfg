\* An approval whose mail is not sent.
CONSTANTS
    Trainees = {t1}
    Emails = {e1}
    Registered = {}
    Tokens = {k1}
    Requests = {r1, r2}
    TokenLife = 0
    InviteLife = 0
    MaxTime = 1
    None = None
SPECIFICATION Spec
PROPERTY ApproveSendsALink
