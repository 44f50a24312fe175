CONSTANTS
  a = a
  b = b
  c = c
  rest = rest
  nats = nats
  Jobs = {a, c}
  Clash <- MCClash
  Rest = {rest}
  Nats = {nats}
  MaxId = 3
SPECIFICATION FairSpec
INVARIANTS TypeOK NoJobLost HooksGetTheirJob 
PROPERTIES ImplementsJobLife  
CHECK_DEADLOCK FALSE
