SPECIFICATION Spec
CONSTANTS
    p1 = p1  p2 = p2  main = main  dev = dev  a = a  b = b  v = v  w = w  x = x  y = y
    Branches = {main, dev}  Main = main  NoBranch = NoBranch
    Procs = {p1}  Commands <- BaseCommands  Stops <- Naming
    Names <- OneTensor  Values = {v, w}  Inputs <- OneTensorFiles  Policies = {"flat"}
    RebaseInterval = 3  MaxDepth = 2  MaxCommits = 2
INVARIANT RootsAreFull
CHECK_DEADLOCK FALSE
