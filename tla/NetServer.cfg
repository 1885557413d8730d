\* Three buffers (20), two places in a mailbox (32), two turns given away (32):
\* one would not do for three buffers.
CONSTANTS
    QUEUE_SIZE = 3
    MBOXSLOTS = 2
    MaxYields = 2
    NClients = 2
    Packets = {1, 2}
SPECIFICATION Spec
INVARIANTS NothingPendingWhenBlocked RequestPagesNotShared
PROPERTIES ImplementsQueue CallAnswered
