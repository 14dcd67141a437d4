CONSTANTS
    r1 = r1
    Readers <- MCReaders
    Pages <- MCPages
    None = None
    MaxLength = 3
    MaxGeneration = 2
    MaxSnapshot = 2
SPECIFICATION FairSpec
INVARIANTS
    ReadLiveBuffer
    OneReference
    SnapshotCoherent
    RenderReferenced
    FetchedWhole
    NothingKept
PROPERTY WorkerFinishes
