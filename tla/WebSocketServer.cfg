CONSTANTS
  c1 = c1
  c2 = c2
  Conns <- TwoConns
  Readers <- TwoConns
  MaxMsgs <- TwoAndOne
  SendBuf = 1
SPECIFICATION FairSpec
INVARIANTS TypeOK MutualExclusion UpToDate OrderedDelivery SenderOrder
PROPERTIES ContractSpec EveryReaderServed DeadClientForgotten HandlerEnds
CHECK_DEADLOCK FALSE
