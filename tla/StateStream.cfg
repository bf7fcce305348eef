\* Two pages, three states, any number of restarts, reloads and broken connections.
SPECIFICATION FairSpec
CONSTANTS
  Clients = {c1, c2}
  MaxStates = 3
INVARIANT ToldTheNewest
PROPERTY EveryoneIsTold
