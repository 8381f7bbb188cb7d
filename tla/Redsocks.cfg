\* One connection in full and room for one other; three items of the client and one of
\* the relay, and room for two of them in buffers and pipes.
CONSTANTS
  c1 = c1
  c2 = c2
  Client = {c1, c2}
  Traced = c1
  ConnMax = 2
  MaxBackoff = 1
  Request <- MCRequest
  Reply <- MCReply
  HalfBuff = 2
  PipeSize = 2
SPECIFICATION RedsocksFairSpec
INVARIANTS
  ListeningHasRoom
  StreamIntact
  EofAfterData
  NotUsedAfterDrop
PROPERTY
  PumpEnds
\* The program stops when the listener is lost and the last connection is closed.
CHECK_DEADLOCK FALSE
