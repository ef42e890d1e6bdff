SPECIFICATION Spec
CONSTANTS
    Users = {owner, editor}
    Owner = owner
    WithSecret = {editor}
    IsPublic = FALSE
    MaxJobs = 3
    MaxUploads = 2
    MaxGiveUps = 1
    MaxEvents = 5
    None = None
 
INVARIANT UpToDate
INVARIANT DoublesBounded
 
PROPERTY UploadsSurvive
CHECK_DEADLOCK FALSE
