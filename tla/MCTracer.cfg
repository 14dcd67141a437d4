CONSTANTS
    CPUs = {c1, c2}
    Tasks = {1, 2, 3}
    Children = {3}
    Pid <- MCPid
    Uid <- MCUid
    OwnPid = 9
    RuleSets <- MCRuleSets
    Gap = 16
    WhiteNames = {}
    BlackNames = {"main"}
    Names = {"worker", "main"}
    FirstName = "worker"
    Args <- MCArgs
    Filters <- MCFilters
    Points = {7, 8, 9, 11, 12}
    EnterKey <- MCEnterKey
    MaxDepth = 2
    Texts = {"a", "b"}
    Values = {0, 1}
    Calls <- MCCalls
    Renamable = {2}
    IovCounts = {0, 1, 2}
    MAX_OP_COUNT = 23
    MAX_LOOP_COUNT = 2
    MAX_IOV_COUNT = 1
    ARGS_BUF_SIZE = 22
    MAX_STRING_SIZE = 8
    MAX_BYTES_ARR_SIZE = 3
    MAX_ELEMENT_SIZE = 1
    MaxRegs = 2
    MaxFollowed = 3
SPECIFICATION Spec
INVARIANTS
    DecodedInStep
    
    
    
SYMMETRY Symmetry
