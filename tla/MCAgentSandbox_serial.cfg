\* Two processes, each with one call at a time, and never two at once; a
\* built-in and a custom agent: what survives shutdowns, crashes and restarts.
SPECIFICATION SerialSpec
CONSTANTS
  Builtin = {b1}
  Custom = {k}
  Proc = {server, wrapper}
  Slot = {server, wrapper}
  ProcOf <- OwnProcess
  NoSlot = none
  NoAgent = none
  MaxMonitors = 2
  Asked <- BuiltinStarted
SYMMETRY Alike
INVARIANTS SerialDurable GhostNeedsCrash
PROPERTIES ImplementsLedger
