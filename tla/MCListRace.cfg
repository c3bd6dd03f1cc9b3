SPECIFICATION FairSpec
CONSTANTS
  Appender = {"main", "heavy"}
  MaxPub = 3
INVARIANTS LostOnlyAtTheEnd CounterExact
PROPERTIES ApartForGood EveryPublicationSent
CHECK_DEADLOCK FALSE
