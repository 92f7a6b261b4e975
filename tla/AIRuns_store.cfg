SPECIFICATION Spec
CONSTANTS
    u1 = u1  u2 = u2  u3 = u3  x1 = x1  k1 = k1  k2 = k2  c1 = c1
    text = text  edit = edit
    Users = {u1, u2}
    Uploads = {x1}
    UploadOwner <- MCUploadOwner
    Keys = {k1, k2}
    Correlations = {c1}
    GrantSizes = {3}
    Tools = {edit, text}
    Price <- MCPrice
    ImageTools = {edit}
    UploadTools = {edit}
    Lease = 2
    UploadTTL = 1
    UploadLimit = 1
    UserRunLimit = 2
    GlobalRunLimit = 2
    MaxRuns = 2
    MaxAttempts = 2
    NoRequest = NoRequest
    NoUpload = NoUpload
SYMMETRY KeySymmetry
INVARIANTS
    TypeOK
    ReservedBacksActiveRuns
    CreditsConserved
    BalanceMatchesLedger
    SettledExactlyOnce
    ChargedOnlyForResult
    ActiveRunKeepsUpload
    PlaceKeptForArtifact
PROPERTIES
    NoSecondSubmission
    EndedIsFinal
