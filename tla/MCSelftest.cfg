CONSTANTS
  a = a  b = b  c = c  tmp = tmp  own = own
  Run = {a, b, c}
  Dir = {tmp, own}
  Nothing = Nothing
  Leftover = Leftover
  Engine <- MCEngine
SYMMETRY Symmetry
SPECIFICATION Spec
INVARIANTS GateIsFair CleansUp
\* Every run ends.
CHECK_DEADLOCK FALSE
