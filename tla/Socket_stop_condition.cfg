CONSTANTS
  KeepListening <- ShouldKeepListening
  Descriptors = {1, 2}
  Streams <- MCStreams
  Payloads <- MCPayloads
  ListenParams <- MCDocumented
  Timeouts = {1}
  ConnectParams <- MCConnectParams
  ByteBase = 3
  SizeLimit = 9
  SleepLimit = 4
  BufferLimit = 6
  ReceiveSize = 3
  MicrosPerMilli = 2
  MaxMsec = 2
  MaxFaults = 0
  Scripts <- MCOneCall
  MaxArrivals = 2
SPECIFICATION SocketSpec
INVARIANT StopsOnItsCondition
CHECK_DEADLOCK FALSE
