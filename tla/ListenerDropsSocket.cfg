\* Both kinds of listener under shutdown.
CONSTANTS
  c1 = c1
  c2 = c2
  c3 = c3
  Conn <- MCConn
SPECIFICATION FairSpec
PROPERTIES
  AcceptedIsClosed
\* After its shutdown a listener is at rest.
CHECK_DEADLOCK FALSE
