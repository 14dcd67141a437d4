CONSTANTS
    MaxHits = 2
    U8Max = 8
    U32Max = 16
    U64Max = 63
    AddressLimit = 48
SPECIFICATION FairSpec
INVARIANTS CleanClose StartedOnOwn OwnEvents
PROPERTY SessionSettles
