CONSTANTS
    c1 = c1
    c2 = c2
    CPUs <- MCCPUs
    Target = Target
    Other = Other
    MayFail = FALSE
    MaxGeneration = 2
SYMMETRY Symmetry
SPECIFICATION Spec
PROPERTY ClearLeavesNothing
