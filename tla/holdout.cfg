SPECIFICATION Spec
CONSTANTS
    Datasets = {d1}
    Attempts = {a1, a2, a3}
    Runs = {r1, r2, r3}
    ApprovalIds = {p1, p2, p3}
    Digests = {x, y}
    Results = {res}
    Brokers = {b1, b2}
    MaxGeneration = 2
SYMMETRY Alike
INVARIANTS
    UsedOnce
    EveryAttemptIsAccountedFor
PROPERTIES
    HistoryIsKept
    KeepsPromise
