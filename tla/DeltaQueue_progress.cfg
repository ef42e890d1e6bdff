SPECIFICATION FairSpec
CONSTANTS
    Requests = {r1, r2}
    Deltas = {1}
    Jobs = {1}
    Limit = 2
    Touchable = {1}
    MaxCrashes = 1
PROPERTY StartedSettles
