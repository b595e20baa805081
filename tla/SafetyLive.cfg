SPECIFICATION FairSpec
CONSTANTS
  Channels = {smua}
  Runs = {r}
  Stops = {s}
  Alarms = {a}
  Owners = {r, s, a}
PROPERTIES
  EveryoneReturns
