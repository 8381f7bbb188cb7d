\* The listener: both kinds, and three connections.  tun2socks: three items each way and
\* buffers for two of them.  obfs-local: a buffer that holds the first response with the
\* smallest data, a frame, and a part of the next one; frames of up to the greatest length.
SPECIFICATION SocketsFairSpec
CONSTANTS
  c1 = c1
  c2 = c2
  c3 = c3
  Conn <- MCConn
  Upload <- MCUpload
  Download <- MCDownload
  Wnd = 2
  SndBuf = 2
  RecvBuf = 2
  UpItems = 2
  DownItems = 4
  BufSize = 8
  MaxFrame = 3
INVARIANTS
  ShutdownMeansQuiet
  AbrtReturned
  NothingTouched
  BothStreams
  DisguiseIntact
PROPERTIES
  ShutdownCompletes
  ClientFreed
  InvalidOnlyIfShort
  ConnectionEnds
\* After its shutdown a listener is at rest.
CHECK_DEADLOCK FALSE
