SPECIFICATION Spec
CONSTANTS
  a = a
  b = b
  c1 = c1
  c2 = c2
  q1 = q1
  q2 = q2
  Earlier <- MCEarlier
  Users = {a, b}
  NoUser = NoUser
  Convs = {c1, c2}
  NoConv = NoConv
  Questions = {q1, q2}
  MaxStreams = 3
  MaxFaults = 2
INVARIANT ShownIsOwnAndStored
INVARIANT WrittenByOwner
INVARIANT RepeatsAreBreaks
PROPERTY WaitingEnds
CHECK_DEADLOCK FALSE
