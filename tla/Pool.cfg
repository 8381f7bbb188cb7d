\* ss-local and tun2socks on a device of each kind of clean-up.
\* A pool whose guards have given up, or that was closed, is at rest.
CONSTANTS
  ssLocal = ssLocal
  tun2socks = tun2socks
  Guard <- MCGuard
  Restartable <- MCRestartable
  Sdk = {23, 25, 26}
SPECIFICATION FairSpec
INVARIANTS
  NoOrphan
  ExitCodeIsCurrent
PROPERTIES
  NoStartAfterClose
  CloseCompletesIfWatched
  ExitIsHandled
CHECK_DEADLOCK FALSE
