\* TLC configuration of MCScuQueue.
CONSTANTS
    e1 = e1
    e2 = e2
    Junk = Junk
    Elem <- MCElem
    InitialCapacities <- MCInitialCapacities
    MaxCount <- MCMaxCount
SPECIFICATION Spec
INVARIANTS TypeOK TailTracksCount WindowInitialised
PROPERTIES FifoUnlessOverrun
