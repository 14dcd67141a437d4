CONSTANTS
    c1 = c1
    leader = leader
    thread = thread
    reused = reused
    CPUs <- MCCPUs
    Tasks <- MCTasks
    Identity <- MCIdentity
    Born <- MCBorn
    Requests <- MCRequests
    None = None
    Control = Control
    MaxGeneration = 2
VIEW View
SPECIFICATION Spec
INVARIANTS
    SnapshotAtomic
    NeverInherited
    GivenUpOnlyDead
PROPERTY ImplementsAtomic
CHECK_DEADLOCK FALSE
