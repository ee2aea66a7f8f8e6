SPECIFICATION Spec
CONSTANTS
    Clients = {c1, c2}
    Unreliable = {c2}
    Topics = {"query"}
    Handled = {"query"}
    Lengths = {3}
    Chunk = 2
    SeqModulus = 2
INVARIANTS ConnectionsListed FilesOwned WholeFrames OwnAnswer LostOnlyByCut NothingLost
PROPERTIES StoredWhole
CHECK_DEADLOCK FALSE
