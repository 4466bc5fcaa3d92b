SPECIFICATION SteadySpec
CONSTANTS
  r1 = r1
  r2 = r2
  AlertResellers = {r1, r2}
  Services = {n1}
  OwnerOf <- OwnedBySecond
  Dead = {n1}
  Percents = {85}
  MaxFaults = 0
PROPERTIES CapAlertsArrive
