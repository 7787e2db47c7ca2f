SPECIFICATION Spec
CONSTANTS
  W = 16
  Mant = 13
  ExtDigits = 3
  BitMax = 12
  MaxRepeat = 4
  R = 4
  NULL = NULL
  Digits = 4
  JsMode = FALSE
  TextOrder <- MCTextOrder
  Scalars <- MCScalars
  Spelling <- MCSpelling
  Values <- MCValues
  Fields <- MCFields
  Typed <- MCTyped
  Coded <- MCCoded
  Orders <- MCOrders
 
INVARIANT JsonRoundTrip
INVARIANT MsgpackFraming
INVARIANT XdrCanonical
INVARIANT XmlArrives
CHECK_DEADLOCK FALSE
