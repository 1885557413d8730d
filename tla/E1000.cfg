SPECIFICATION Spec
CONSTANTS
    NTX = 2
    NRX = 3
    Packet = {a, b}
    None = None
INVARIANTS
    BuffersNotShared
    NothingOverwritten
PROPERTIES
    SendsInOrder
    ReceivesInOrder
    WaitEnds
