\* Devices on which callbacks have a thread of their own and registering may fail
\* (API 23), and on which callbacks run on the main thread (API 26).
CONSTANTS
  wifi = wifi
  cellular = cellular
  Net <- MCNet
  None = None
  MaxInstance = 2
  MaxCallbacks = 4
  Sdk = {23, 26}
SPECIFICATION FairSpec
INVARIANTS
  RegisteredOnce
  VpnFollows
PROPERTY
  GetIsAnswered
