SPECIFICATION Spec
CONSTANTS
    x = x  y = y  p = p  h = h  g = g
    Chunks = {x, y}  Perms = {p}  Headers = {h}  Configs = {g}
    Absent = Absent  Most <- MergeGraphs
SYMMETRY ChunkSymmetry
INVARIANTS WalkIsComplete WalkIsPostOrder
CHECK_DEADLOCK FALSE
