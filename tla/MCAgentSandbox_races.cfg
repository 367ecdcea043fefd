\* Two calls in flight, one built-in agent: overlapping starts, stops, loads
\* and a shutdown under them.
SPECIFICATION FairSpec
CONSTANTS
  Builtin = {b1}
  Custom = {}
  Proc = {server}
  Slot = {s1, s2}
  ProcOf <- OneProcess
  NoSlot = none
  NoAgent = none
  MaxMonitors = 2
  Asked <- Everything
INVARIANTS TypeOK MonitorsCover
PROPERTIES MonitorsDrain
