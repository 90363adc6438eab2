\* Both directions at once, over a network that reorders, loses and duplicates,
\* with a listener that throws and a close at any time.  MaxAck = 1 makes the
\* cap on the truth table bite.
CONSTANTS
  IdSpace = 5
  MaxAck = 1
  Ports = {p1}
  MaxRx = 3
  MaxTx = 3
  MaxFragments = 2
  MaxPackets = 3
  MaxMoves = 0
  MaxThrows = 1
  NetCap = 2
  MayDuplicate = TRUE
  MayClose = TRUE
SPECIFICATION StreamSpec
INVARIANTS TypeOK DeliveredInOrder NoRxLoss NoTxLoss AckTruthful DrainPending
PROPERTY ImplementsChannel
