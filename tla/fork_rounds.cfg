SPECIFICATION ForksSpec
CONSTANTS
    p1 = p1
    p2 = p2
    Blocks <- MCBlocks
    Genesis = 0
    Chain <- MCChain
    Order <- MCOrder
    BadHeader = {5}
    BadBody = {2}
    Peers <- MCPeers
    MaxForks = 4
    Zero = Zero
    NoBlock = NoBlock
SYMMETRY Symmetry
INVARIANTS
    SegmentsVerified
    SupportKept
