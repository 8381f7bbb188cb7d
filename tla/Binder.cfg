\* One activity and the notification; and a service that dies up to three times.
\* Once the service is destroyed and its clients are gone nothing happens any more.
CONSTANTS
  Remote = {app}
  Local = Local
  None = None
  MaxCalls = 3
  MaxInbox = 2
  MaxDeaths = 3
SPECIFICATION BinderSpec
INVARIANTS
  LooperMatches
  ToldIsCurrent
  GoneIsForgotten
PROPERTIES
  TrafficFlows
  Reattached
CHECK_DEADLOCK FALSE
