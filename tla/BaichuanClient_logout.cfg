SPECIFICATION Spec
CONSTANTS
  Callers = {"c1"}
  AutoCallers = {}
  Modes = {"tcp"}
  LoginAttempts = 1
PROPERTIES IdleCloseSparesStreams
CHECK_DEADLOCK FALSE
