\* The VPN service and the proxy services under the fairness of their scheduling.
CONSTANT MaxSession = 3
SPECIFICATION FairSpec
INVARIANTS
  StoppedIsClean
  OneSessionAtATime
  ConnectedIsComplete
PROPERTIES
  ConnectingEnds
  FatalEndsSession
  ImplementsFairLifecycle
\* Stopped after the last session of the bound, a proxy service is at rest.
CHECK_DEADLOCK FALSE
