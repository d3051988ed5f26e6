SPECIFICATION Spec
CONSTANTS
  TypeLength = 1
  MaxPayload = 1
  MaxFrame = 16
  TypeText <- MCTypeText
  Input <- MCInput
INVARIANTS
  ValidatorAcceptsDelivered
