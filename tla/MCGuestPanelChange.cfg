SPECIFICATION Spec
CONSTANTS
  Guests = {g1}
  Panels = {x, y}
  Volumes = {1}
  Tasks = {t1}
  Ops <- Selling
  MaxPlan = 1
  MaxOrders = 2
  MaxPool = 3
CHECK_DEADLOCK FALSE
INVARIANTS DeliveryPanelAssigned
