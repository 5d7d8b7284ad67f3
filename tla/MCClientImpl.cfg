SPECIFICATION Spec
CONSTANTS
  Op = {list, move, write, label, folder}
  SyncOp = {label, folder}
  PanicOp = {write, folder}
PROPERTIES
  SyncReturnDrains
  SyncEventuallyReturns
  StopSettles
  ImplementsExecutor
CHECK_DEADLOCK FALSE
