SPECIFICATION FairSpec
CONSTANTS
    Clients = {c1, c2}
    Unreliable = {}
    Topics = {"query"}
    Handled = {"query"}
    Lengths = {1}
    Chunk = 1
    SeqModulus = 1
PROPERTIES Answered UploadEnds Released
