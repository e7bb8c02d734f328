SPECIFICATION IpcSpec
CHECK_DEADLOCK FALSE
CONSTANTS
  NULL = NULL
  NoPeer = NoPeer
  Bad = Bad
  Foreign = Foreign
  b1 = b1
  Instances = {a1, a2, b1}
  NameOf <- AdapterNames
  MaxChanges = 3
  BufLen = 220
  Devices <- SetDevices
  Kernels <- SetKernels
INVARIANTS ReadsTheTruth SetIsWhole WholeOrPrefix BuffersHold NothingLeaks FindsTheAdapter
PROPERTIES KeepsPromise CallsReturn
