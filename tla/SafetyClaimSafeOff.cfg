SPECIFICATION Spec
CONSTANTS
  Channels = {smua, smub}
  Runs = {r}
  Stops = {s}
  Alarms = {a, b}
  Owners = {r, s, a, b}
SYMMETRY Symmetric
INVARIANT SafeOffMeansOff
