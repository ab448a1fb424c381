\* Three requests paying and renewing one subscription.
CONSTANTS
    Subs = {s1}
    Requests = {r1, r2, r3}
    MaxDay = 2
    MaxAmount = 2
    None = None
SPECIFICATION Spec
SYMMETRY Interchangeable
INVARIANT TypeOK
INVARIANT NeverOverstated
INVARIANT ExactWhenUndisturbed
