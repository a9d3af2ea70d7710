CONSTANTS
  c1 = c1
  c2 = c2
  Conns <- TwoConns
  Readers <- OnlyC1
  MaxMsgs <- TwoAndOne
  SendBuf = 1
SPECIFICATION FairSpec
PROPERTIES EveryReaderServed
CHECK_DEADLOCK FALSE
