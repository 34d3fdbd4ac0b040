SPECIFICATION Spec
CONSTANTS
    Writers = {w1, w2}
    Probes = {p1}
    Inodes = {i1, i2, i3, i4}
    None = None
    MaxCleans = 2
INVARIANTS TypeOK WritersExclude IdleReportTrue
