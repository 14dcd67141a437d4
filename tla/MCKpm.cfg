CONSTANTS
    c1 = c1
    c2 = c2
    CPUs <- MCCPUs
    Target = Target
    Other = Other
    MayFail = TRUE
    MaxGeneration = 2
SYMMETRY Symmetry
SPECIFICATION Spec
INVARIANTS
    
    DisabledMeansDisarmed
    OneShotOnce
    NoInheritedComparator
