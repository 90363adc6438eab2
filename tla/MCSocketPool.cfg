\* Two consumers of a streaming and a replay socket.  When the API is closed and
\* the consumers have released their sockets the pool rests.
SPECIFICATION Spec
CONSTANTS
  Users = {u1, u2}
  Keys <- MCKeys
  MultiFocal = FALSE
  MaxSockets = 3
  MaxTorn = 1
SYMMETRY UserSymmetry
INVARIANTS TypeOK UsersOwnEntry StreamHoldsGeneral IdleIsTimed WaiterHasCreator
CHECK_DEADLOCK FALSE
