CONSTANTS
  Command = {c1, c2}
  History = {c2}
  Delta = {1}
  MaxSeq = 2
  MaxGeneration = 2
  MaxAttempts = 2
  MaxDeferred = 1
  MaxTail = 1
  MaxBuffer = 1
  MaxInFlight = 1
  MaxFaults = 2
  MaxEpoch = 2
  MaxGateway = 2
SPECIFICATION MCSpec
INVARIANTS StreamExact ConnectionExact
PROPERTIES AnsweredInOrder StreamRecovers Reconnects PeersReaped
CHECK_DEADLOCK FALSE
