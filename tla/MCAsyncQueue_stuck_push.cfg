SPECIFICATION PairSpec
CONSTANTS
    p1 = p1
    p2 = p2
    c1 = c1
    c2 = c2
    a = a
    b = b
    None = None
    NoItem = NoItem
    Pending = Pending
    Done = Done
    Full = Full
    Threads = {p1, p2, c1}
    Items = {a, b}
    Uses <- Crowd
    QuietSizes = {2}
    LiveSizes = {}
    QuietTimeouts = {}
    LiveTimeouts = {}
    MaxLoad = 5
PROPERTIES BlockedOnlyWhenFull
