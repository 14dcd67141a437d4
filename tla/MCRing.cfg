CONSTANTS
    pA = pA
    pB = pB
    NCpu = 2
    Producers <- MCProducers
    CpuOf <- MCOwnCpu
    Handlers <- MCProducers
    Capacity = 2
    Word = 1024
    MaxPush = 4
SPECIFICATION FairSpec

    
PROPERTIES
    
    NothingOverwritten
    
