\* One worker whose call ends in an exception that is not classified.
SPECIFICATION Spec
CONSTANTS
    Events <- MCOneEvent
    Workers = {w1}
    MessageIds = {m1, m2, m3}
    MaxReceiveCount = 2
    BatchSize = 1
    Modes <- MCModes
    MaxDisturbances = 2
    NoPublisher = NoPublisher
    NoMessage = NoMessage
INVARIANTS
    DeliveredWasAccepted
