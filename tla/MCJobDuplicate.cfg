CONSTANTS
  a = a
  b = b
  c = c
  rest = rest
  nats = nats
  Jobs = {a, b, c}
  Clash <- MCClash
  Rest = {rest}
  Nats = {nats}
  MaxId = 4
SPECIFICATION Spec
INVARIANTS NoDuplicates
CHECK_DEADLOCK FALSE
