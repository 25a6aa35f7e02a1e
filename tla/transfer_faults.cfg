SPECIFICATION Spec
CONSTANTS
    A = A  B = B  C = C  p = p  q = q  main = main  h = h
    NoFile = NoFile  Empty = Empty
    Repos = {A, B, C}  Clients = {p, q}  Home <- AtAAndC  ReadOnly = {C}
    ObjectIds <- Hashes  Opened <- Parsed  Tips <- Commits  Needs <- Named  Listing <- Walked
    Branches = {main}  Commands <- PullAndPush  Seeds <- Diverged
    LocalCommits <- CommitsAtB  MaxRuns = 2  MaxFaults = 1
INVARIANTS TypeOK FilesWhole
PROPERTIES NothingResent ReadOnlyKept PushLands
CHECK_DEADLOCK FALSE
