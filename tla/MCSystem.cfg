SPECIFICATION SystemSpec
CONSTANTS
  UartRxIsrQueueLength = 1
  ParserInputQueueLength = 1
  AppMessageQueueLength = 2
  UartTxQueueLength = 1
  ActuatorQueueLength = 1
  Request <- MCRequest
  MaxBytes = 1000
  FastReception = TRUE
  TypeLength = 3
  MaxPayload = 48
  MaxFrame = 64
  TypeText <- MCTypeText
  Input <- MCInput
  PayloadText <- MCPayloadText
  Hosts <- MCHosts
INVARIANTS NothingIsLost AnswersFollowTheScript BootCostsOnlyItsFrames
PROPERTY ScriptIsServed
