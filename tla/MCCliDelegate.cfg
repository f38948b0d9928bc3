SPECIFICATION CliSpec
CONSTANTS
    Callers = {c1, c2}
    Requests = {q1}
    NoRequest = NoRequest
    Intents = {i1, i2}
    References = {r1, r2, r3}
    NoReference = NoReference
    NoBinding = NoBinding
SYMMETRY MCSymmetry
INVARIANTS
    RequestRunsOnce
    JournalSound
PROPERTIES
    WorksAtMostOnce
