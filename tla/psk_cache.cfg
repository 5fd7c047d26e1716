\* Handshakes with overlapping lookups of one identity against a changing registry.
SPECIFICATION HsSpec
CONSTANTS
    Thread = {t1, t2}
    Identity = {i1}
    PositiveTtl = 2
    NegativeTtl = 1
    StaleGrace = 3
    FetchTimeout = 1
    MaxTime = 5
    MaxChanges = 2
    NoIdentity = NoIdentity
    BadIdentity = BadIdentity
SYMMETRY Threads
INVARIANTS
    TypeOK
    CacheTruthful
    ServedRecently
    SessionProven
