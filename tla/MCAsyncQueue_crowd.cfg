SPECIFICATION Spec
CONSTANTS
    p1 = p1
    p2 = p2
    c1 = c1
    c2 = c2
    a = a
    b = b
    None = None
    NoItem = NoItem
    Pending = Pending
    Done = Done
    Full = Full
    Threads = {p1, p2, c1, c2}
    Items = {a, b}
    Uses <- Bazaar
    QuietSizes = {2}
    LiveSizes = {}
    QuietTimeouts = {TRUE}
    LiveTimeouts = {}
    MaxLoad = 3
PROPERTIES NeverOverfilled ImplementsFifo
