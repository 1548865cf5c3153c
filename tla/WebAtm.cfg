SPECIFICATION FairSpec
CONSTANTS
  ann = ann
  bob = bob
  Clients = {ann, bob}
  Action <- Wants
  Amount <- Sums
  Times = 2
  Garbage = {5}
INVARIANTS NoLostUpdate
PROPERTY AllServed
CHECK_DEADLOCK FALSE
