SPECIFICATION Spec
CONSTANTS
  UartRxIsrQueueLength = 3
  MaxBytes = 12
INVARIANTS TypeOK EveryByteHasOneFate
PROPERTIES NoByteIsReadTwice TheSchedulerStarts NextByteEndsTheStorm
