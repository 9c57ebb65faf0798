SPECIFICATION WlanSpec
CONSTANTS
  MaxAttempts = 1
  MaxUpsets = 1
  MaxAnswers = 1
PROPERTY WatchdogYields
CHECK_DEADLOCK FALSE
