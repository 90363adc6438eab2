\* Progress of two packets of the camera, or of one of the client while the
\* camera changes its port.  NetCap is larger than the number of datagrams that
\* exist, so the network only loses what LoseToCam and LoseToCli remove.
CONSTANTS
  IdSpace = 4
  MaxAck = 1
  Ports = {p1, p2}
  MaxRx = 2
  MaxTx = 1
  MaxFragments = 2
  MaxPackets = 3
  MaxMoves = 1
  MaxThrows = 0
  NetCap = 9
  MayDuplicate = FALSE
  MayClose = FALSE
SPECIFICATION LiveSpec
PROPERTIES EverythingDelivered EverythingAcknowledged
