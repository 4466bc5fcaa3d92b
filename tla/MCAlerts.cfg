SPECIFICATION JumpSpec
CONSTANTS
  r1 = r1
  r2 = r2
  AlertResellers = {r1}
  Services = {n1}
  OwnerOf <- OwnedByFirst
  Dead = {}
  Percents = {50, 85, 95}
  MaxFaults = 1
INVARIANTS AlertTypeOK TableTrue NotRepeated
PROPERTIES AlertsArrive
