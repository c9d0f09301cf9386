SPECIFICATION Spec
CONSTANTS
  Messages = {m1, m2, m3}
  Times = {1, 2, 3}
  Workers = {w1, w2}
  Clients = {c1}
  Limit = 1
  MaxFaults = 1
INVARIANTS
  TypeOK
  OneNotification
  Informed
  Complete
SYMMETRY
  Symmetry
