\* A stop that is called while a start is under way.
SPECIFICATION Spec
CONSTANTS
  Builtin = {b1}
  Custom = {}
  Proc = {server}
  Slot = {s1, s2}
  ProcOf <- OneProcess
  NoSlot = none
  NoAgent = none
  MaxMonitors = 2
  Asked <- Everything
PROPERTIES StopIsFinal
