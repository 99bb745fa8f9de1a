SPECIFICATION RotationSpec
CONSTANTS
  Days = 6
  Validity = 4
  Threshold = 2
  MaxRetries = 2
INVARIANT DueIsRotated
CHECK_DEADLOCK FALSE
