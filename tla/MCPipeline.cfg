SPECIFICATION Spec
CONSTANTS
  UartRxIsrQueueLength = 1
  ParserInputQueueLength = 1
  AppMessageQueueLength = 1
  UartTxQueueLength = 1
  ActuatorQueueLength = 1
  Request <- AllRequests
  MaxBytes = 3
  FastReception = FALSE
INVARIANTS TypeOK BytesAreAccountedFor MessagesKeepTheirOrder AnswersMatchRequests
  AckNeverPrecedesCommand IdleMeansDrained ReportsAreCoherent
PROPERTIES ServiceIsProvided RequestsAreAnswered
