CONSTANTS
    pA = pA
    pB = pB
    NCpu = 1
    Producers <- MCProducers
    CpuOf <- MCSameCpu
    Handlers <- MCHandlers
    Capacity = 2
    Word = 1024
    MaxPush = 4
SPECIFICATION Spec
PROPERTY NothingOverwritten
