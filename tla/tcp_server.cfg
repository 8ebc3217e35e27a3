SPECIFICATION FairSpec
CONSTANTS
    c1 = c1  c2 = c2  None = None
    Clients = {c1, c2}
    Stalling = {c1}
    Requests = 2
    Responses = 2
    Window = 1
    MaxClients = {1, 2}
    MaxFaults = 1
INVARIANTS TypeOK SlotsAccounted WholeRequest ResponseWhole
PROPERTIES SendReturns
CHECK_DEADLOCK FALSE
