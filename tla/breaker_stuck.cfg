SPECIFICATION FairSpec
CONSTANTS
  Searches = {s1, s2, s3, s4}
  Threshold = 2
  MaxFailures = 4
PROPERTY DisabledTemporarily
CHECK_DEADLOCK FALSE
