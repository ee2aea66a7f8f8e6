SPECIFICATION Spec
CONSTANTS
    p1 = p1
    p2 = p2
    c1 = c1
    c2 = c2
    a = a
    b = b
    None = None
    NoItem = NoItem
    Pending = Pending
    Done = Done
    Full = Full
    Threads = {p1, c1, c2}
    Items = {a, b}
    Uses <- Crowd
    QuietSizes = {}
    LiveSizes = {0, 2}
    QuietTimeouts = {}
    LiveTimeouts = {TRUE, FALSE}
    MaxLoad = 3
PROPERTIES ItemsInOrder
