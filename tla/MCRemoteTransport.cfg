SPECIFICATION FairTransportSpec
CONSTANTS
  r1 = r1
  r2 = r2
  Requests = {r1, r2}
  Buffer = 1
  WireCap = 1
  MaxLines = 2
CHECK_DEADLOCK FALSE
PROPERTIES StreamsInOrder CallsEnd 
