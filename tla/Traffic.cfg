\* Sessions with a restart of ss-local and at most one announced shutdown; two servers,
\* one of which a list may name twice, two urls and two synchronisations at a time; two
\* profiles to switch between.
CONSTANTS
  MaxTraffic = 3
  MaxReports = 2
  MaxRestarts = 1
  Server = {a, b}
  Repeated = {b}
  MaxNamed = 2
  Default = example
  Sync = {s1, s2}
  Chooser = {t1}
  Urls = 2
  MaxId = 2
  Profile = {1, 2}
SPECIFICATION ProfilesSpec
INVARIANTS
  NeverOvercharged
  NoNeedlessDuplicate
  SyncedIsRemote
  SelectedIsMeant
  RunsSelected
PROPERTY
  RateSettles
