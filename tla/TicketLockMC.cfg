SPECIFICATION FairSpec
CONSTANTS
    CPU = {c1, c2, c3}
    NoCPU = NoCPU
    Tickets = 4
PROPERTIES
    NoStarvation
    ServedInOrder
