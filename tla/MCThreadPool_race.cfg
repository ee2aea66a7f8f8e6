SPECIFICATION FairSpec
CONSTANTS
    Clients = {c1, c2}
    N = 1
    Tasks = {k1, k2, k3}
    Nesting = {k1}
    Null = Null
PROPERTIES AcceptedStarts SubmissionReturns
