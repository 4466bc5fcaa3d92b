SPECIFICATION ShopSpec
CONSTANTS
  Tasks = {t1, t2}
  Resellers = {r1}
  Names = {n1, n2}
  Volumes = {1}
  MinVolume = 1
  RefundBelow = 1
  MaxClients = 2
  Attempts = 1
  IdReuse = TRUE
  Ops = {"create", "delete"}
  InitQuota = 2
  MaxQuota = 2
  MaxAlloc = 2
  MaxUsed = 0
  MaxId = 3
PROPERTIES TouchesOwnService HandlersFinish
