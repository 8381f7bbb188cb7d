\* The device announces a shutdown and the session goes on.
CONSTANTS
  MaxTraffic = 2
  MaxReports = 2
  MaxRestarts = 0
SPECIFICATION Spec
PROPERTY
  PersistedIsCurrent
