CONSTANTS
    Joiners = {j1}
    Pskds = {p1, p2}
    NoJoiner = NoJoiner
    NoPskd = NoPskd
    Interval = 6
    Headroom = 4
    ExchangeTimeout = 1
    HandshakeTimeout = 4
    PumpTime = 1
    MaxNotices = 0
SPECIFICATION Spec
PROPERTIES DisableRewritesSteering
CHECK_DEADLOCK FALSE
