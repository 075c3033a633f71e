\* Two updates of two indexes, one of them of another node, and one failing step.
CONSTANTS
    Updates = {u1, u2}
    i1 = i1
    i2 = i2
    d1 = d1
    d2 = d2
    Indices = {i1, i2}
    Elsewhere = {i2}
    Wishes <- MCWishes
    None = None
    MaxFaults = 1
SPECIFICATION IndexesSpec
CHECK_DEADLOCK FALSE
PROPERTIES ErrorsAnswered
