SPECIFICATION Spec
CONSTANTS
  UartRxIsrQueueLength = 1
  ParserInputQueueLength = 1
  AppMessageQueueLength = 1
  UartTxQueueLength = 1
  ActuatorQueueLength = 1
  Request <- OneRequest
  MaxBytes = 10
  FastReception = TRUE
INVARIANT ReceptionNeverBlockedByApp
