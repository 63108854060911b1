SPECIFICATION Spec
CONSTANTS
    i1 = i1
    i2 = i2
    base = base
    top1 = top1
    top2 = top2
    Images = {i1, i2}
    Tags = {t1, t2}
    Layers = {base, top1, top2}
    Procs = {p1, p2}
    Manifest <- SharedBase
    Archive <- Repacked
    Seeds <- Stores
    MaxRequests = 2
    MaxCrashes = 1
    NoImage = NoImage
    NoRecord = NoRecord
    Cold = Cold
SYMMETRY Symmetry
INVARIANTS
    ContentKept
    NothingLeftBehind
    TagsAgree
    PruneSparesNamed
PROPERTIES
    ImplementsCatalog
CHECK_DEADLOCK FALSE
