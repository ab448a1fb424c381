\* Two requests and two trainees that may share an address.
CONSTANTS
    Trainees = {t1, t2}
    Emails = {e1, e2}
    Registered = {e1}
    Tokens = {k1}
    Requests = {r1, r2}
    TokenLife = 1
    InviteLife = 0
    MaxTime = 0
    None = None
SPECIFICATION ApprovalsSpec
SYMMETRY Interchangeable
INVARIANT ApprovalsDoNotShareAccounts
