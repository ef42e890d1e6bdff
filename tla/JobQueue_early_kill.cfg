SPECIFICATION Spec
CONSTANTS
    Workers = {w1, w2}
    p1 = p1
    Projects = {p1}
    Jobs = {1}
    Containers = {c1}
    ProjectOf <- OneProject
    NoJob = NoJob
    NoContainer = NoContainer
    MaxCrashes = 0
    MaxReruns = 0
PROPERTY KillsOnlyOrphans
