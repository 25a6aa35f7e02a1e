SPECIFICATION Spec
CONSTANTS
    p1 = p1  p2 = p2  main = main  dev = dev  a = a  b = b  v = v  w = w  x = x  y = y
    Branches = {main, dev}  Main = main  NoBranch = NoBranch
    Procs = {p1, p2}  Commands <- StoreCommands  Stops <- Writing
    Names <- OneTensor  Values = {v}  Inputs <- OneFile  Policies = {"flat"}
    RebaseInterval = 2  MaxDepth = 2  MaxCommits = 4
SYMMETRY ProcSymmetry
INVARIANTS TypeOK StoreClosed DriftBounded
PROPERTY RefinesStore
CHECK_DEADLOCK FALSE
