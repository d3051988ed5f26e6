SPECIFICATION TelemetrySpec
CONSTANTS
  UartRxIsrQueueLength = 1
  ParserInputQueueLength = 1
  AppMessageQueueLength = 1
  UartTxQueueLength = 1
  ActuatorQueueLength = 1
  Request <- OneRequest
  MaxBytes = 6
  FastReception = TRUE
  TelemetryCreated = TRUE
  StatusEvery = 2
  MaxPeriods = 2
INVARIANTS AnswersSurviveTelemetry SequenceHasNoGaps
PROPERTY LossNeedsAStalledApplication
