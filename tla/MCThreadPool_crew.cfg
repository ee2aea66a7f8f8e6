SPECIFICATION Spec
CONSTANTS
    Clients = {c1, c2}
    N = 2
    Tasks = {k1, k2, k3}
    Nesting = {k1}
    Null = Null
SYMMETRY Symmetry
INVARIANTS TypeOK RightArgument HandOver HonestRejection
PROPERTIES ImplementsTaskPool
