SPECIFICATION FairSpec
CONSTANTS
    Setups <- AllSetups
    Packets = {1, 2}
    Rank <- MCRank
    QUEUE_SIZE = 2
    Tables <- MCTables
    TableSize <- MCTableSize
    Self = 2
    Nodes = {1, 2, 3, 4}
    ONLY_CONFIG = 69420
    ONLY_NODES = 69421
INVARIANTS InOrder  NodesOnce HandshakeWhole
PROPERTIES RankLadder Drains
CHECK_DEADLOCK FALSE
