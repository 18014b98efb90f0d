\* TLC configuration of MCScuQueue: queues that are created empty, for a short counterexample.
CONSTANTS
    e1 = e1
    e2 = e2
    Junk = Junk
    Elem <- MCElem
    InitialCapacities = {0}
    MaxCount <- MCMaxCount
SPECIFICATION Spec
PROPERTIES FifoSpec
