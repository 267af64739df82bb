SPECIFICATION Spec
CONSTANTS
    Workspace = {w1, w2}
    Prompt = {p1, p2}
    Path = {f1, f2}
    Request = {r1, r2}
    None = None
    Capacity = 2
    Ttl = 0
    LastSecond = 1
SYMMETRY Symmetric
INVARIANTS
    IndexesAgree
    InvalidatedAnswersGo
PROPERTIES
    OthersStay
    ServedAnswersFit
