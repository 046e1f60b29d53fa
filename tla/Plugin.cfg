SPECIFICATION FairSpec
CONSTANTS
  Invocations = {i1, i2}
  Lifetime = 3
  Absent = Absent
  MaxWait = 1
  MaxKills = 1
  MaxRemovals = 1
INVARIANTS
  TypeOK
  EmptyIsBeingWritten
  PrintsUnexpired
PROPERTIES
  GoesOnOrWasCut
  EachGoesOnOrIsOvertaken
