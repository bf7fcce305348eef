\* Every fault, and callers that keep and use shells the watchdog forgot.
CONSTANTS
  MaxRestarts = 2
  WindowMs = 3
  BaseBackoffMs = 1
  SpawnOutcomes = {"ok", "constructor throws", "listener throws"}
  RestartListeners = {"fine", "throws"}
  ObserverFaults = TRUE
  StaleCallers = TRUE
  MaxLag = 0
  MaxStarts = 2
  Horizon = 5
SPECIFICATION FairSpec
INVARIANTS TypeOK GovernedWhenRunning RestartIsPending RestartRate
PROPERTIES RestartCompletes FailureIsFinal
