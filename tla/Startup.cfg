SPECIFICATION Spec
CONSTANTS
  HeapSizes = {1024, 1500, 2100, 3100, 4100, 4900, 5700, 6500, 7280, 7287, 10240}
  QueueHeader = 72
  TCB = 84
  MessageSizes = {51, 56}
  EnoughHeap = 7287
PROPERTY FirmwareStartsWhole
CHECK_DEADLOCK FALSE
