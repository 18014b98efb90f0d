\* TLC configuration of MCScuList.
CONSTANTS
    a = a
    b = b
    Nullptr = Nullptr
    Junk = Junk
    Handle = {h1, h2}
    Block = {b1, b2, b3}
    Elem <- MCElem
    Rank <- MCRank
    InitialCapacities <- MCInitialCapacities
    MaxCount <- MCMaxCount
SPECIFICATION Spec
INVARIANTS TypeOK PointersRight
PROPERTIES ListSpec
SYMMETRY Symmetry
