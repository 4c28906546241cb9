SPECIFICATION Spec
CONSTANTS
    Writers = {w1, w2}
    Fields = {prompt, tools}
    Values = {x, y}
    NoRow = NoRow
    NoDraft = NoDraft
    MaxVersion = 3
INVARIANTS
    LinearHistory
    NoSilentLoss
PROPERTIES
    ImplementsHistory
SYMMETRY Symmetry
