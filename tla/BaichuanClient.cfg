SPECIFICATION Spec
CONSTANTS
  Callers = {"c1", "c2"}
  AutoCallers = {"c1"}
  Modes = {"tcp", "udp", "auto"}
  LoginAttempts = 3
INVARIANTS TypeOK LoginTruth WaitsForSomething IdleIsTimed
PROPERTIES HalfOpenDies
