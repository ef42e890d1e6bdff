SPECIFICATION Spec
CONSTANTS
    Requests = {r1, r2}
    Deltas = {1, 2}
    Jobs = {1, 2}
    Limit = 3
    Touchable = {}
    MaxCrashes = 0
INVARIANT OneActiveJob
