SPECIFICATION Spec
CONSTANTS
    Careful = FALSE
    Nodes = {1, 2, 3}
    Names = {"k", "K"}
    Lower <- MCLower
    Nil = Nil
INVARIANTS PrevOfFirstIsLast
CHECK_DEADLOCK FALSE
