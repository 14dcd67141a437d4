CONSTANTS
    None = None
    v0 = v0
    vT = vT
    attr = attr
    t1 = t1
    BrpCount = 2
    WrpCount = 1
    Values <- MCValues
    Attrs <- MCAttrs
    Requests <- MCRequests
    Targets <- MCTargets
    AccessMayFail = TRUE
    Interrupts = FALSE
SPECIFICATION Spec
INVARIANTS
    LinuxSlotsUntouched
    RestoredExactly
    MonitorKeptForLinux
    MonitorReturned
    IInv
PROPERTY NoBlindOverwrite
