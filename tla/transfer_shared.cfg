SPECIFICATION FairSpec
CONSTANTS
    A = A  B = B  C = C  p = p  q = q  main = main  h = h
    NoFile = NoFile  Empty = Empty
    Repos = {A, B}  Clients = {p, q}  Home <- AtA  ReadOnly = {}
    ObjectIds <- Hashes  Opened <- Parsed  Tips <- Commits  Needs <- Named  Listing <- Walked
    Branches = {main}  Commands <- PullsAndPush  Seeds <- Behind
    LocalCommits <- CommitsAtA  MaxRuns = 1  MaxFaults = 1
INVARIANT StoresClosed
PROPERTIES RefinesStore CommandsEnd ServerReturns
CHECK_DEADLOCK FALSE
