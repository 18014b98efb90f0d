\* TLC configuration of MCScuHashMap.
CONSTANTS
    k1 = k1
    k2 = k2
    k3 = k3
    v1 = v1
    v2 = v2
    Vacant = Vacant
    None = None
    Key <- MCKeys
    Value <- MCValues
    HashFuncs <- MCHashFuncs
    InitialCapacities <- MCInitialCapacities
    WantedCapacities <- MCWantedCapacities
SPECIFICATION FairSpec
INVARIANTS TypeOK RobinHood CountMatches OnePlaceForAKey
PROPERTIES DictionarySpec CallsReturn
