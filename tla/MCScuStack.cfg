\* TLC configuration of MCScuStack.
CONSTANTS
    a = a
    b = b
    Junk = Junk
    Elem <- MCElem
    InitialCapacities <- MCInitialCapacities
    MaxCount <- MCMaxCount
SPECIFICATION Spec
INVARIANTS TypeOK
PROPERTIES LifoSpec
