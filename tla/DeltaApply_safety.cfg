SPECIFICATION Spec
CONSTANTS
    Clients = {c1, c2}
    FileLayers = {points}
    OnlineLayers = {wells}
    Values = {a, b}
    Pks = {1, 2, 3}
    MaxDeltas = 3
    MaxRetries = 1
    MaxFailures = 1
    None = None
    Gone = Gone
    Missing = Missing
SYMMETRY Symmetric
INVARIANT LayersReplayLog
 
PROPERTY FilesChangeByJobs
PROPERTY HitsTarget
CHECK_DEADLOCK FALSE
