SPECIFICATION Spec
CONSTANTS
  Topic = {"a"}
  MaxMsgs = 3
  MaxPayload = 1
  MaxGuess = 10
  UnitBytes <- AroundPowers
INVARIANTS TypeOK PublicationsIntact QuietHandled NeverStarves FiveDigitsArrive
CHECK_DEADLOCK FALSE
