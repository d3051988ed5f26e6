SPECIFICATION Spec
CONSTANTS
  UartRxIsrQueueLength = 3
  MaxBytes = 12
PROPERTY InterruptIsShort
