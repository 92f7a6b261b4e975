SPECIFICATION WorkSpec
CONSTANTS
    u1 = u1  x1 = x1  k1 = k1  k2 = k2  c1 = c1  w1 = w1  w2 = w2
    text = text  edit = edit
    Users = {u1}
    Uploads = {x1}
    UploadOwner <- MCUploadOwner
    Keys = {k1}
    Correlations = {c1}
    GrantSizes = {1}
    Tools = {edit, text}
    Price <- MCPrice
    ImageTools = {edit}
    UploadTools = {edit}
    Lease = 2
    UploadTTL = 1
    UploadLimit = 1
    UserRunLimit = 2
    GlobalRunLimit = 2
    MaxRuns = 1
    MaxAttempts = 2
    NoRequest = NoRequest
    NoUpload = NoUpload
    Workers = {w1, w2}
    MaxPosts = 2
INVARIANT
    ProviderAskedOnce
