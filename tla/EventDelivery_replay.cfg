\* Two workers and a message that becomes visible while it is processed.
SPECIFICATION Spec
CONSTANTS
    Events <- MCOneEvent
    Workers = {w1, w2}
    MessageIds = {m1, m2}
    MaxReceiveCount = 2
    BatchSize = 1
    Modes <- MCModes
    MaxDisturbances = 1
    NoPublisher = NoPublisher
    NoMessage = NoMessage
PROPERTIES
    NoCallAfterRecordedSuccess
