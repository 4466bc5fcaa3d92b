SPECIFICATION ModesSpec
CONSTANTS
  Guests = {g1, g2}
  g1 = g1
  Panels = {x}
  Volumes = {1, 2}
  Tasks = {t1, t2}
  Ops <- GuestOps
  MaxPlan = 2
  MaxOrders = 3
  MaxPool = 4
CHECK_DEADLOCK FALSE
INVARIANTS TypeOK OnePendingPerGuest ApprovedHasService PendingPlanExistsAlone GrantSufficesAlone ServicesAccountedCrossed
SYMMETRY AnyTask
