SPECIFICATION Spec
CONSTANTS
    CPUs = {c1}
    Tasks = {t1}
    operator = operator
    watcher = watcher
    Callers <- MCCallers
    Commands <- MCCommands
    Hooks <- MCHooks
    GateClosed = 4
    MaxRequests = 1
INVARIANTS
    NobodyInFreedImage
    QuietUnlessReset
    InertStaysInert
    StatusTruthful
PROPERTIES
    
    RequestCompletes
    ExitReturns
