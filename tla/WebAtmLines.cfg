SPECIFICATION Spec
CONSTANTS
  ann = ann
  bob = bob
  Clients = {ann, bob}
  Action <- Wants
  Amount <- Sums
  Times = 2
  Garbage = {5}
INVARIANT EveryLineBooked
CHECK_DEADLOCK FALSE
