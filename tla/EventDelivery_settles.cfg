\* Two workers and one event under fairness; enough messages that the bound on
\* them never stops a relay.  One way to refuse is enough for the retries.
SPECIFICATION FairSpec
CONSTANTS
    Events <- MCOneEvent
    Workers = {w1, w2}
    MessageIds = {m1, m2, m3}
    MaxReceiveCount = 2
    BatchSize = 1
    Modes = {"HEALTHY", "RETURN_500"}
    MaxDisturbances = 2
    NoPublisher = NoPublisher
    NoMessage = NoMessage
PROPERTIES
    FulfilsPromise
