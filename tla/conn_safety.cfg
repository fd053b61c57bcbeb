CONSTANTS
    w1 = w1
    w2 = w2
    s1 = s1
    s2 = s2
    Workers <- MCWorkers
    Stores <- MCStores
    PDStores <- MCPDStores
    MaxDials = 4
SPECIFICATION Spec
INVARIANT TypeOK
INVARIANT NoLeakedConn
INVARIANT CachedConnIsOpen
INVARIANT StoresFiltered
PROPERTY ConnCacheRefined
