SPECIFICATION Spec
CONSTANTS
    Setups <- OnlySerial
    Packets = {1, 2}
    Rank <- MCRank
    QUEUE_SIZE = 2
    Tables <- MCTables
    TableSize <- MCTableSize
    Self = 2
    Nodes = {1, 2, 3, 4}
    ONLY_CONFIG = 69420
    ONLY_NODES = 69421
INVARIANT Handshake
CHECK_DEADLOCK FALSE
