SPECIFICATION ModesSpec
CONSTANTS
  Tasks = {t1, t2, t3}
  Resellers = {r1}
  Names = {n1, n2}
  r1 = r1
  n1 = n1
  n2 = n2
  n3 = n3
  Volumes = {1, 2}
  MinVolume = 2
  RefundBelow = 1
  MaxClients = 2
  Attempts = 2
  IdReuse = TRUE
  Ops <- AllOps
  InitQuota = 4
  MaxQuota = 4
  MaxAlloc = 3
  MaxUsed = 1
  MaxId = 2
INVARIANTS TypeOK LifetimeWithinQuota SharedCapAlone DeletionsCovered
PROPERTIES ImplementsAccountAlone
SYMMETRY Symmetric
