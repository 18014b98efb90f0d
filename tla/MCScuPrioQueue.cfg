\* TLC configuration of MCScuPrioQueue.
CONSTANTS
    e1 = e1
    Junk = Junk
    Elem <- MCElem
    Prio <- MCPrio
    InitialCapacities <- MCInitialCapacities
    MaxCount <- MCMaxCount
SPECIFICATION Spec
INVARIANTS TypeOK HeapOrder
PROPERTIES PriorityBagSpec
