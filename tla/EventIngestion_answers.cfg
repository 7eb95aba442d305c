\* Two shipments, early answers, an unknown test run and a key used for both
\* shipments; no symmetry, because the property is a liveness property.
SPECIFICATION FairSpec
CONSTANTS
    Requests = {r1, r2, r3}
    k1 = k1
    t1 = t1
    Keys = {k1, k2}
    Shipments = {t1, t2}
    Times <- MCTimes
    Offered <- MCMixed
    NoShipment = NoShipment
    NoRequest = NoRequest
    DatabaseMayFail = TRUE
PROPERTIES
    EveryRequestAnswered
