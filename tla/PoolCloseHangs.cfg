SPECIFICATION FairSpec
CONSTANTS
  ssLocal = ssLocal
  tun2socks = tun2socks
  Guard <- MCGuard
  Restartable <- MCRestartable
  Sdk = {25}
CHECK_DEADLOCK FALSE
PROPERTIES
  CloseCompletes
