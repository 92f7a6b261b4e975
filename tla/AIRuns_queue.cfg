SPECIFICATION Spec
CONSTANTS
    u1 = u1  u2 = u2  u3 = u3  x1 = x1  k1 = k1  k2 = k2  c1 = c1
    text = text  edit = edit
    Users = {u1, u2, u3}
    Uploads = {}
    UploadOwner <- MCUploadOwner
    Keys = {k1, k2}
    Correlations = {c1}
    GrantSizes = {2}
    Tools = {text}
    Price <- MCPrice
    ImageTools = {}
    UploadTools = {}
    Lease = 1
    UploadTTL = 1
    UploadLimit = 1
    UserRunLimit = 1
    GlobalRunLimit = 2
    MaxRuns = 3
    MaxAttempts = 2
    NoRequest = NoRequest
    NoUpload = NoUpload
SYMMETRY QueueSymmetry
INVARIANTS
    ActiveRunsWithinLimits
PROPERTIES
    ImplementsEscrow
