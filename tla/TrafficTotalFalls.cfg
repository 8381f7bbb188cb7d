\* ss-local is restarted in a session.
CONSTANTS
  MaxTraffic = 2
  MaxReports = 2
  MaxRestarts = 1
SPECIFICATION Spec
PROPERTY
  TotalIsOfSession
