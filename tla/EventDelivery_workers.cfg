\* Two workers compete for the messages of one event.
SPECIFICATION Spec
CONSTANTS
    Events <- MCOneEvent
    Workers = {w1, w2}
    MessageIds = {m1, m2, m3}
    MaxReceiveCount = 2
    BatchSize = 1
    Modes <- MCModes
    MaxDisturbances = 3
    NoPublisher = NoPublisher
    NoMessage = NoMessage
SYMMETRY MCSymmetry
INVARIANTS
    TypeOK
    NoEventLost
    AcknowledgedIsRecorded
    OneEffectPerEvent
    AttemptsAreNumbered
    UndisturbedIsExactlyOnce
PROPERTIES
    PublishedIsFinal
    KeepsPromise
