SPECIFICATION Spec
CONSTANTS
    Requests = {r1, r2}
    Secrets = {s1, s2, s3, s4}
    NoSecret = NoSecret
INVARIANTS
    ActiveIsConfirmed
