SPECIFICATION Spec
CONSTANTS
    ann = ann
    bob = bob
    cat = cat
    qfield = qfield
    sdk = sdk
    t1 = t1
    t2 = t2
    e1 = e1
    r1 = r1
    r2 = r2
    p1 = p1
    p2 = p2
    u1 = u1
    u2 = u2
    n1 = n1
    x1 = x1
    x2 = x2
    free = free
    paid = paid
    ProjectIds = {x1, x2}
    ProjectOwners = {free, paid}
    ExternalDb = {paid}
    ProjectFiles <- QgisFilesOfProjects
    Patchers = {t1, t2}
    MaxProjectChanges = 3
    DataFiles = {x1, x2}
    QgisNames = {p1, p2}
    MaxEdits = 2
    MaxReruns = 1
    Accounts = {x1, x2}
    Clients = {qfield, sdk}
    SingleClients = {qfield}
    Threads = {t1, t2}
    MaxTokens = 2
    Persons = {ann, bob, cat}
    OrgOwner = ann
    NoEmail = {cat}
    MaxNotices = 2
    MaxDeaths = 1
    Nobody = Nobody
    Emails = {e1}
    Inviting = {r1, r2}
    Budget = 2
    MaxInvites = 3
    LastKey = 2
    Workmates = {u1, u2}
    SecretNames = {n1}
    Everybody = Everybody
    MaxSecrets = 2
    MaxUploads = 3
    MaxBytes = 3
    MaxParts = 3
    MinimumLength = 1
    Retention = 1
    PageSize = 3
    BatchSize = 2
    MaxEntries = 4
    MaxToday = 2
    JobKinds <- KindsOfJobs
    MaxTasks = 2
    MaxAttempts = 2
SYMMETRY Symmetry
INVARIANT TokensEnd
 
INVARIANT Reachable
INVARIANT ReadsStay
INVARIANT CloneIsWhole
INVARIANT OneSecretEach
INVARIANT PartsFit
 
 
INVARIANT ResultTold
INVARIANT NoTaskLeft
CHECK_DEADLOCK FALSE
