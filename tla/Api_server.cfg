\* The server's watchdog behind the API, with repeated start() and stop().
SPECIFICATION ApiSpec
CONSTANTS
  MaxRestarts = 2
  WindowMs = 3
  BaseBackoffMs = 1
  SpawnOutcomes = {"ok"}
  RestartListeners = {"fine", "throws"}
  ObserverFaults = TRUE
  StaleCallers = FALSE
  MaxLag = 1
  MaxStarts = 2
  Horizon = 5
  MaxRequests = 3
INVARIANTS HandlesAreUnique
PROPERTIES RequestsAreGoverned OnlyOwnerRevives BackoffHonoured
