INIT SoldTwo
NEXT Next
CONSTANTS
  Tasks = {t1, t2}
  Resellers = {r1}
  Names = {n1, n2}
  r1 = r1
  n1 = n1
  n2 = n2
  n3 = n3
  Volumes = {1}
  MinVolume = 1
  RefundBelow = 1
  MaxClients = 2
  Attempts = 1
  IdReuse = TRUE
  Ops = {"add"}
  InitQuota = 5
  MaxQuota = 5
  MaxAlloc = 3
  MaxUsed = 0
  MaxId = 2
INVARIANTS SharedCap
