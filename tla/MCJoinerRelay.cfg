SPECIFICATION Spec
CONSTANTS
  Joiner = {j1}
  Pskd = {p1, p2}
  NoPskd = NoPskd
  NoJoiner = NoJoiner
  NoHandler = NoHandler
  SessionTimeout = 1
  MaxSessions = 2
  MaxAttempts = 2
  MaxDatagrams = 7
  MaxVerifies = 1
  MaxSealed = 2
SYMMETRY Symmetry
CHECK_DEADLOCK FALSE
INVARIANT TypeOK
INVARIANT RecordNumbersUnique
INVARIANT EntrustedJoinerIsAuthentic
INVARIANT OneDecisionPerSession
INVARIANT JoinerAndApplicationAgree
INVARIANT DecisionSurfaced
INVARIANT ServedSessionIsFresh
