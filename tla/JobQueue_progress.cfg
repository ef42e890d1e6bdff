SPECIFICATION FairSpec
CONSTANTS
    Workers = {w1}
    p1 = p1
    Projects = {p1}
    Jobs = {1, 2}
    Containers = {c1}
    ProjectOf <- OneProject
    NoJob = NoJob
    NoContainer = NoContainer
    MaxCrashes = 1
    MaxReruns = 1
 
PROPERTY PendingSettles
PROPERTY StartedSettles
PROPERTY OrphanReclaimed
