SPECIFICATION Spec
CONSTANTS
  Services = {a, b}
  Names = {x}
  Volumes = {v}
  Days = {d, e}
  Panels = {p, q}
  Templates <- AnyTemplate
  Tasks = {t1, t2}
  None = None
SYMMETRY Symmetric
INVARIANTS TypeOK AnswerGoesToAsked DraftComplete CreatedAsShown
