SPECIFICATION PanelsSpec
CONSTANTS
  Panels = {1, 2}
  FirstPanel = 1
  Columns = {"inbounds"}
  Values = {v1, v2}
  Admins = {a1}
  Sellers = {s1, s2}
  MaxServices = 1
  None = None
  PanelIds = {x1, x2}
  Undeletable = {x1}
  Visitors = {h1, h2}
  MaxVersion = 2
  Emails = {e1}
  Callers = {c1, c2}
  Volumes = {1}
  Fields = {0, 1}
  MaxRetries = 2
  MaxTotal = 2
INVARIANTS TypeOK NoDangling RowsAgree RemovedStays RegistryTypeOK RegistryAgrees CallTypeOK NothingOverwritten SuccessMeansDone
SYMMETRY Symmetric
