SPECIFICATION Spec
CONSTANTS
    x = x  p = p  h = h  v1 = v1  v2 = v2
    Chunks = {x}  Perms = {p}  Headers = {h}  Configs = {}
    Absent = Absent  Most <- SharedTensors
    Versions = {v1, v2}  MaxDamage = 0  MaxFailures = 1
INVARIANT NoFalseAlarm
SYMMETRY VersionSymmetry
CHECK_DEADLOCK FALSE
