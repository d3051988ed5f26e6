SPECIFICATION LinkSpec
CONSTANTS
  TypeLength = 3
  MaxPayload = 48
  MaxFrame = 64
  TypeText <- MCTypeText
  Input <- MCInput
  Traffic <- MCTraffic
  MaxDamage = 1
INVARIANTS LossIsBounded DeliveredWasSent
