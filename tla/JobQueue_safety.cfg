SPECIFICATION Spec
CONSTANTS
    Workers = {w1, w2}
    p1 = p1
    Projects = {p1}
    Jobs = {1, 2}
    Containers = {c1, c2}
    ProjectOf <- OneProject
    NoJob = NoJob
    NoContainer = NoContainer
    MaxCrashes = 2
    MaxReruns = 0
SYMMETRY Symmetry
INVARIANT QueueInv
INVARIANT MutualExclusion
PROPERTY FinalStatusSticks
PROPERTY ImplementsLeases
