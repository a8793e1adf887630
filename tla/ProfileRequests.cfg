SPECIFICATION SerialSpec
CONSTANTS
  None = None
  Events <- MCEvents
  Type <- MCType
  Age <- MCAge
  Video <- MCVideo
  Creators = {"c1"}
  Creator <- MCCreator
  ColdStartMin = 1
  Requests = {q1, q2}
  Builders = {b1}
  MaxSends = 3
  MaxFaults = 1
  MaxOutages = 1
SYMMETRY Symmetry
INVARIANTS
  RecordedOnce
  InvalidatedOnce
  AffinityNormalised
  SerialProfileCoversRows
PROPERTIES
  SerialStaysWarm
CHECK_DEADLOCK FALSE
