CONSTANTS
  KeepListening <- ShouldKeepListening
  Descriptors = {1, 2}
  Streams <- MCStreams
  Payloads <- MCPayloads
  ListenParams <- MCListenParams
  Timeouts = {1}
  ConnectParams <- MCConnectParams
  ByteBase = 3
  SizeLimit = 9
  SleepLimit = 4
  BufferLimit = 6
  ReceiveSize = 3
  MicrosPerMilli = 2
  MaxMsec = 2
  MaxFaults = 2
  Scripts <- MCOneCall
  MaxArrivals = 2
SPECIFICATION SocketSpec
INVARIANT RetriesBounded
CHECK_DEADLOCK FALSE
