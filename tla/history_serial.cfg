SPECIFICATION Spec
CONSTANTS
    p1 = p1  p2 = p2  main = main  dev = dev  a = a  b = b  v = v  w = w  x = x  y = y
    Branches = {main, dev}  Main = main  NoBranch = NoBranch
    Procs = {p1}  Commands <- RefCommands  Stops <- Naming
    Names <- TwoTensors  Values = {v, w, x, y}  Inputs <- DistinctFiles
    Policies = {"flat", "adaptive"}  RebaseInterval = 4  MaxDepth = 2  MaxCommits = 3
INVARIANTS StoreClosed RootsAreFull DepthBounded
PROPERTY HeadStaysBorn
