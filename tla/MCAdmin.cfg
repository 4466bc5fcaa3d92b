SPECIFICATION MenuSpec
CONSTANTS
    r1 = r1
    r2 = r2
    p1 = p1
    p2 = p2
    i1 = i1
    t1 = t1
    t2 = t2
    None = None
    Resellers = {r1, r2}
    Panels = {p1, p2}
    Inbounds = {i1}
    Drafts = {"first", "second"}
    ValueKinds = {"quota", "name"}
    PanelKinds = {"name"}
    Tasks = {t1, t2}
SYMMETRY Symmetric
INVARIANTS
    TypeOK
    AnswerGoesToAsked
    ConfirmsWhatItShows
    KeysPresent
