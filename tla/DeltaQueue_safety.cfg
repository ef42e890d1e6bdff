SPECIFICATION Spec
CONSTANTS
    Requests = {r1}
    Deltas = {1, 2}
    Jobs = {1, 2}
    Limit = 3
    Touchable = {}
    MaxCrashes = 1
INVARIANT OneActiveJob
INVARIANT WrittenOnce
INVARIANT AppliedIsThere
