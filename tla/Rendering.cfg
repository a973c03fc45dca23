CONSTANTS
    Unset = Unset
    j1 = j1
    Jobs = {j1}
    Requests <- MCRequests
    ForceEncoder <- Force
    Rates = {0, 24}
    Instants = {0, 1, 2, 3, 4, 5}
    Words <- AllWords
    Flags = {"-vn", "-an"}
    WithArgument <- OwnOptions
SPECIFICATION Spec
CHECK_DEADLOCK FALSE
INVARIANTS
    RenderingTypeOK
    OneEncodersFlags
    WritesItsOutput
    ReportedIsUsed
    
    WindowAsAsked
