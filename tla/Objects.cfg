SPECIFICATION Spec
CONSTANTS
    d = d
    df = df
    e = e
    eg = eg
    short = short
    long = long
    Clients = {c1, c2}
    Keys = {d, df, eg}
    Root = Root
    Above <- MCAbove
    Values = {short, long}
    Chunks <- MCChunks
    Files = {f1, f2, f3, f4, f5}
    None = None
    Dir = Dir
    Missing = Missing
    Unknown = Unknown
VIEW UpToInodes
SYMMETRY Interchangeable
INVARIANTS
    PromisesKept
    ListExact
