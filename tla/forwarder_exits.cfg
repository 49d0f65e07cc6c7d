\* A task that runs to its verdict with no failure at all: does the task that
\* relays its events end with the socket it was made for?
SPECIFICATION FairSpec
CONSTANTS
  Clicks = {c1}
  Others = {}
  MaxSockets = 1
  MaxSteps = 0
  Faults = {}
PROPERTIES
  ForwarderExits
CHECK_DEADLOCK FALSE
