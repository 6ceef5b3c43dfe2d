SPECIFICATION Spec
CONSTANTS
  Joiner = {j1, j2}
  Pskd = {p1}
  NoPskd = NoPskd
  NoJoiner = NoJoiner
  NoHandler = NoHandler
  SessionTimeout = 1
  MaxSessions = 2
  MaxAttempts = 1
  MaxDatagrams = 4
  MaxVerifies = 1
  MaxSealed = 1
SYMMETRY Symmetry
CHECK_DEADLOCK FALSE
PROPERTY FailureIsJoinerLocal

