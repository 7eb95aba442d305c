\* Batches of two events, relayed and received by two workers.
SPECIFICATION Spec
CONSTANTS
    Events <- MCTwoEvents
    Workers = {w1, w2}
    MessageIds = {m1, m2, m3, m4}
    MaxReceiveCount = 2
    BatchSize = 2
    Modes <- MCModes
    MaxDisturbances = 1
    NoPublisher = NoPublisher
    NoMessage = NoMessage
SYMMETRY MCSymmetry
INVARIANTS
    UndisturbedIsExactlyOnce
PROPERTIES
    KeepsPromise
