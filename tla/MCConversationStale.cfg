SPECIFICATION Spec
CONSTANTS
  Services = {a, b}
  Names = {x}
  Volumes = {v, w}
  Days = {d}
  Panels = {p, q}
  Templates <- AnyTemplate
  Tasks = {t1}
  None = None
SYMMETRY Symmetric
INVARIANT ChangedAsShown
