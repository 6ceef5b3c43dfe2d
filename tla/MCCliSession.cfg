CONSTANTS
    Joiners = {j1}
    Pskds = {p1, p2}
    NoJoiner = NoJoiner
    NoPskd = NoPskd
    Interval = 6
    Headroom = 4
    ExchangeTimeout = 1
    HandshakeTimeout = 4
    PumpTime = 1
    MaxNotices = 2
SPECIFICATION FairSpec
INVARIANTS KeepAliveNotLate ActiveIsServiced HandlerMatchesTable NoticesKept
PROPERTIES KeepAliveHappens
CHECK_DEADLOCK FALSE
