SPECIFICATION Spec
CONSTANTS
    p1 = p1  p2 = p2  main = main  dev = dev  a = a  b = b  v = v  w = w  x = x  y = y
    Branches = {main, dev}  Main = main  NoBranch = NoBranch
    Procs = {p1, p2}  Commands <- RefCommands  Stops <- Naming
    Names <- OneTensor  Values = {v}  Inputs <- OneFile  Policies = {"flat"}
    RebaseInterval = 1  MaxDepth = 2  MaxCommits = 2
SYMMETRY ProcSymmetry
INVARIANT RefsNameObjects
PROPERTY NothingForgotten
