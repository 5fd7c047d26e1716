\* A lookup dovecote answers with 401 or 403.
SPECIFICATION Spec
CONSTANTS
    Thread = {t1, t2}
    Identity = {i1}
    PositiveTtl = 2
    NegativeTtl = 1
    StaleGrace = 3
    FetchTimeout = 1
    MaxTime = 5
    MaxChanges = 2
    NoIdentity = NoIdentity
SYMMETRY Threads
INVARIANT
    DeniedAfterDrain
