\* TLC configuration of MCScuHashSet.
CONSTANTS
    Vacant = Vacant
    None = None
    UsizeWidth <- MCUsizeWidth
    StringAt <- MCStringAt
    Kinds <- MCKinds
    Element <- MCElement
    InitialCapacities <- MCInitialCapacities
    WantedCapacities <- MCWantedCapacities
SPECIFICATION Spec
INVARIANTS TypeOK HistoryIndependent MembersSort
PROPERTIES SetSpec ReserveHolds
