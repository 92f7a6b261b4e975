------------------------------- MODULE AIRuns -------------------------------
(***************************************************************************)
(* The AI credit and run store: SQLiteAIStore of                           *)
(* src/apps/api/src/webdiag_api/ai/storage.py, called through AIService of *)
(* src/apps/api/src/webdiag_api/ai/service.py.                             *)
(*                                                                         *)
(* Every method of the store that writes runs in one BEGIN IMMEDIATE       *)
(* transaction, so each one is one action here, whoever calls it: the web  *)
(* request of a user, the worker's HTTP calls, or the clean-up call.       *)
(*                                                                         *)
(* Time is kept as what is left of it: the lease of an attempt and the     *)
(* lifetime of an upload count down to 0, which is "expired" (the code     *)
(* compares an absolute deadline with the clock, `deadline <= now`).       *)
(***************************************************************************)
EXTENDS Integers, FiniteSets

CONSTANTS
    Users,          \* account_users
    Uploads,        \* identities of image uploads
    UploadOwner,    \* the user who makes each upload
    Keys,           \* idempotency keys a user may send
    Correlations,   \* correlation IDs of administrative grants
    GrantSizes,     \* quantities an administrator grants
    Tools,          \* the READY tools of the catalogue
    Price,          \* credit_price of each tool
    ImageTools,     \* tools whose result is an image artifact
    UploadTools,    \* tools whose input is an uploaded image
    Lease,          \* length of a worker's lease
    UploadTTL,      \* lifetime of an upload nobody uses
    UploadLimit,    \* unused uploads a user may hold
    UserRunLimit,   \* active runs a user may have
    GlobalRunLimit, \* active runs of all users
    MaxRuns,        \* bound: runs ever created
    MaxAttempts,    \* bound: attempts made at a run
    NoRequest,      \* the request of a run that does not exist
    NoUpload        \* source_upload_id of a request without an upload

RunIds == 1 .. MaxRuns
NoRun == 0

ASSUME ToolsAssumption ==
    /\ Price \in [Tools -> Nat \ {0}]
    /\ ImageTools \subseteq Tools
    /\ UploadTools \subseteq Tools

ASSUME UploadsAssumption ==
    /\ UploadOwner \in [Uploads -> Users]
    /\ NoUpload \notin Uploads

ASSUME BoundsAssumption ==
    /\ GrantSizes \subseteq Nat \ {0}
    /\ {Lease, UploadTTL, UploadLimit} \subseteq Nat \ {0}
    /\ {UserRunLimit, GlobalRunLimit, MaxRuns, MaxAttempts} \subseteq Nat \ {0}

(***************************************************************************)
(* What AIService.create_run hands to the store.  The tool decides whether *)
(* there is an upload, and the price is the catalogue's.                   *)
(***************************************************************************)
Request ==
    {q \in [user : Users, key : Keys, tool : Tools,
            upload : Uploads \cup {NoUpload}] :
        q.upload = NoUpload <=> q.tool \notin UploadTools}

ASSUME RequestAssumption == NoRequest \notin Request

VARIABLES
    available,    \* credit_accounts.available
    reserved,     \* credit_accounts.reserved
    version,      \* credit_accounts.version
    ledger,       \* credit_ledger: every change of the two balances
    state,        \* ai_runs.state, "none" before the row exists
    request,      \* the other columns of ai_runs that decide anything
    attempt,      \* the last row of ai_run_attempts of each run
    upload,       \* ai_uploads
    reservation,  \* ai_artifact_reservations.deletion_state, one per run
    artifact      \* ai_artifacts.deletion_state, one per run

credits == <<available, reserved, version, ledger>>
vars == <<available, reserved, version, ledger, state, request, attempt,
          upload, reservation, artifact>>

RunStates == {"none", "pending", "running", "succeeded", "failed",
              "provider_unknown", "deleted"}

(***************************************************************************)
(* The lease token is a fresh random string per claim.  It is stood for by *)
(* the attempt's number, which a claim makes fresh as well.                *)
(***************************************************************************)
Attempt == [number : 0 .. MaxAttempts, lease : 0 .. Lease,
            submitted : BOOLEAN, completed : BOOLEAN]

Upload == [state : {"none", "available", "pending", "deleted"},
           ttl : 0 .. UploadTTL, bound : RunIds \cup {NoRun}]

SettleOps == {"capture", "release", "delete-release"}

(***************************************************************************)
(* A ledger entry.  `op' and `of' together are the correlation ID, which   *)
(* is unique per user: the administrator's own for a grant, and            *)
(* run:<id>:<op> for what a run does.                                      *)
(***************************************************************************)
Entry(u, op, of, a, r) ==
    [user |-> u, op |-> op, of |-> of, available |-> a, reserved |-> r]

Unused(u, op, of) ==
    \A e \in ledger : ~(e.user = u /\ e.op = op /\ e.of = of)

Active(r) == state[r] \in {"pending", "running"}
Created(r) == state[r] # "none"
Owner(r) == request[r].user
Cost(r) == Price[request[r].tool]

ActiveRuns == {r \in RunIds : Active(r)}
ActiveOf(u) == {r \in ActiveRuns : Owner(r) = u}

\* Mutant: the sweep forgets that a run may have taken the upload.
StaleOrBound(x) == upload[x].state = "available" /\ upload[x].ttl = 0

Stale(x) == /\ upload[x].state = "available"
            /\ upload[x].bound = NoRun
            /\ upload[x].ttl = 0

Usable(x) == /\ upload[x].state = "available"
             /\ upload[x].bound = NoRun
             /\ upload[x].ttl > 0

-----------------------------------------------------------------------------
Init ==
    /\ available = [u \in Users |-> 0]
    /\ reserved = [u \in Users |-> 0]
    /\ version = [u \in Users |-> 0]
    /\ ledger = {}
    /\ state = [r \in RunIds |-> "none"]
    /\ request = [r \in RunIds |-> NoRequest]
    /\ attempt = [r \in RunIds |-> [number |-> 0, lease |-> 0,
                                    submitted |-> FALSE, completed |-> FALSE]]
    /\ upload = [x \in Uploads |-> [state |-> "none", ttl |-> 0,
                                    bound |-> NoRun]]
    /\ reservation = [r \in RunIds |-> "none"]
    /\ artifact = [r \in RunIds |-> "none"]

\* Mutant: a change of the balances that does not count in the version.
PostUnversioned(u, op, of, a, r) ==
    /\ Unused(u, op, of)
    /\ available' = [available EXCEPT ![u] = @ + a]
    /\ reserved' = [reserved EXCEPT ![u] = @ + r]
    /\ ledger' = ledger \cup {Entry(u, op, of, a, r)}
    /\ UNCHANGED version

(***************************************************************************)
(* Both balances and the account's version change together with one new    *)
(* ledger entry.                                                           *)
(***************************************************************************)
Post(u, op, of, a, r) ==
    /\ Unused(u, op, of)
    /\ available' = [available EXCEPT ![u] = @ + a]
    /\ reserved' = [reserved EXCEPT ![u] = @ + r]
    /\ version' = [version EXCEPT ![u] = @ + 1]
    /\ ledger' = ledger \cup {Entry(u, op, of, a, r)}

\* Mutants: the reservation is not lowered; a capture refunds as well.
SettleKeepsReserved(r, op, refund) == Post(Owner(r), op, r, refund, 0)
SettleAlwaysRefunds(r, op, refund) ==
    Post(Owner(r), op, r, Cost(r), -Cost(r))

(***************************************************************************)
(* _settle_reservation: what a run held either leaves the account          *)
(* (refund = 0) or comes back to it (refund = its price).                  *)
(***************************************************************************)
Settle(r, op, refund) ==
    /\ reserved[Owner(r)] >= Cost(r)
    /\ Post(Owner(r), op, r, refund, -Cost(r))

(***************************************************************************)
(* The UPDATEs that follow the end of a run: its uploads, and the place    *)
(* kept for its artifact, are handed to clean-up.                          *)
(***************************************************************************)
ReleaseUploads(r) ==
    [x \in Uploads |->
        IF upload[x].bound = r /\ upload[x].state = "available"
        THEN [upload[x] EXCEPT !.state = "pending"]
        ELSE upload[x]]

\* Mutant: the place of a committed artifact is handed to clean-up too.
ReleaseAnyReservation(r) ==
    [reservation EXCEPT ![r] =
        IF @ \in {"reserved", "committed"} THEN "pending" ELSE @]

ReleaseReservation(r) ==
    [reservation EXCEPT ![r] = IF @ = "reserved" THEN "pending" ELSE @]

-----------------------------------------------------------------------------
(***************************************************************************)
(* grant_credits.  A correlation ID that was used already is a replay (or  *)
(* a conflict) and changes nothing.                                        *)
(***************************************************************************)
GrantCredits(u, c, q) ==
    /\ Post(u, "admin_grant", c, q, 0)
    /\ UNCHANGED <<state, request, attempt, upload, reservation, artifact>>

(***************************************************************************)
(* create_upload: the user's own expired uploads are swept first; the      *)
(* sweep is rolled back with the rest when the quota is exhausted.         *)
(***************************************************************************)
CreateUpload(u, x) ==
    /\ UploadOwner[x] = u
    /\ upload[x].state = "none"
    /\ Cardinality({y \in Uploads : UploadOwner[y] = u /\ Usable(y)})
            < UploadLimit
    /\ upload' = [y \in Uploads |->
            CASE y = x -> [state |-> "available", ttl |-> UploadTTL,
                           bound |-> NoRun]
              [] y # x /\ UploadOwner[y] = u /\ Stale(y) ->
                    [upload[y] EXCEPT !.state = "pending"]
              [] OTHER -> upload[y]]
    /\ UNCHANGED <<credits, state, request, attempt, reservation, artifact>>

\* mark_upload_deletion_pending: a user gives up an upload no run has taken.
MarkUploadDeletionPending(x) ==
    /\ upload[x].state = "available"
    /\ upload[x].bound = NoRun
    /\ upload' = [upload EXCEPT ![x].state = "pending"]
    /\ UNCHANGED <<credits, state, request, attempt, reservation, artifact>>

\* list_uploads_pending_deletion: expires every user's stale uploads.
ListUploadsPendingDeletion ==
    /\ \E x \in Uploads : Stale(x)
    /\ upload' = [x \in Uploads |->
            IF Stale(x) THEN [upload[x] EXCEPT !.state = "pending"]
                        ELSE upload[x]]
    /\ UNCHANGED <<credits, state, request, attempt, reservation, artifact>>

\* mark_upload_deleted
MarkUploadDeleted(x) ==
    /\ upload[x].state = "pending"
    /\ upload' = [upload EXCEPT ![x].state = "deleted"]
    /\ UNCHANGED <<credits, state, request, attempt, reservation, artifact>>

-----------------------------------------------------------------------------
\* Mutant: running runs are not counted.
HasRoomInQueue(u) ==
    /\ Cardinality({r \in RunIds : state[r] = "pending" /\ Owner(r) = u}) < UserRunLimit
    /\ Cardinality(ActiveRuns) < GlobalRunLimit

\* Mutants: only one of the two limits is looked at.
HasRoomOverall(u) == Cardinality(ActiveRuns) < GlobalRunLimit
HasRoomOfOwn(u) == Cardinality(ActiveOf(u)) < UserRunLimit

\* create_run: pending and running runs count against both limits.
HasRoom(u) == /\ Cardinality(ActiveOf(u)) < UserRunLimit
              /\ Cardinality(ActiveRuns) < GlobalRunLimit

\* create_run: the key is new to this user.
NewKey(q) ==
    \A p \in RunIds :
        Created(p) => ~(request[p].user = q.user /\ request[p].key = q.key)

\* Mutant: the balance is not checked.
CanAlwaysPay(q) == q.user \in Users

\* create_run: WHERE available >= credit_price.
CanPay(q) == available[q.user] >= Price[q.tool]

(***************************************************************************)
(* create_run, the branch that makes a new run.  Runs are numbered in the  *)
(* order of created_at.  A key the user has used before is a replay, or a  *)
(* conflict, and changes nothing (see Replay below).                       *)
(***************************************************************************)
CreateRun(r, q) ==
    /\ ~Created(r)
    /\ \A p \in RunIds : p < r => Created(p)
    /\ NewKey(q)
    /\ HasRoom(q.user)
    /\ q.upload # NoUpload =>
            UploadOwner[q.upload] = q.user /\ Usable(q.upload)
    /\ CanPay(q)
    /\ Post(q.user, "reserve", r, -Price[q.tool], Price[q.tool])
    /\ state' = [state EXCEPT ![r] = "pending"]
    /\ request' = [request EXCEPT ![r] = q]
    /\ upload' = IF q.upload = NoUpload THEN upload
                 ELSE [upload EXCEPT ![q.upload].bound = r]
    /\ UNCHANGED <<attempt, reservation, artifact>>

(***************************************************************************)
(* delete_run_for_user: refused while the run is running.  A pending run   *)
(* gives its credits back; uploads are not touched.                        *)
(***************************************************************************)
DeleteRun(r) ==
    /\ Created(r)
    /\ state[r] \notin {"running", "deleted"}
    /\ IF state[r] = "pending" THEN Settle(r, "delete-release", Cost(r))
                               ELSE UNCHANGED credits
    /\ state' = [state EXCEPT ![r] = "deleted"]
    /\ artifact' = [artifact EXCEPT ![r] =
                        IF @ = "available" THEN "pending" ELSE @]
    /\ reservation' = ReleaseReservation(r)
    /\ UNCHANGED <<request, attempt, upload>>

-----------------------------------------------------------------------------
Expired(r) == state[r] = "running" /\ attempt[r].lease = 0

\* Mutant: ended runs are not excluded.
AbandonedOrEnded(r) == attempt[r].lease = 0 /\ attempt[r].submitted

\* _expire_stale_submitted_run: the runs it may end.
Abandoned(r) ==
    /\ Expired(r)
    /\ attempt[r].submitted
    /\ ~attempt[r].completed

\* Mutants: a submitted run is handed out again; an ended run is.
ClaimableIfExpired(r) == state[r] = "pending" \/ Expired(r)
ClaimableIfEnded(r) ==
    \/ state[r] = "pending"
    \/ Created(r) /\ attempt[r].lease = 0 /\ ~attempt[r].submitted

\* claim_pending: the runs it may hand out.
Claimable(r) ==
    \/ state[r] = "pending"
    \/ Expired(r) /\ ~attempt[r].submitted

(***************************************************************************)
(* claim_pending: one transaction first ends one abandoned run s, if there *)
(* is any, then hands the oldest claimable run r, if there is any, to the  *)
(* caller under a new lease, and keeps a place for its image.              *)
(***************************************************************************)
ClaimPending(s, r) ==
    /\ <<s, r>> # <<NoRun, NoRun>>
    /\ IF s = NoRun THEN \A p \in RunIds : ~Abandoned(p) ELSE Abandoned(s)
    /\ IF r = NoRun THEN \A p \in RunIds : ~Claimable(p)
       ELSE /\ Claimable(r)
            /\ \A p \in RunIds : p < r => ~Claimable(p)
            /\ attempt[r].number < MaxAttempts
    /\ IF s = NoRun THEN UNCHANGED credits ELSE Settle(s, "release", Cost(s))
    /\ state' = [p \in RunIds |->
            CASE p = s -> "provider_unknown"
              [] p # s /\ p = r -> "running"
              [] OTHER -> state[p]]
    /\ attempt' = [p \in RunIds |->
            CASE p = s -> [attempt[p] EXCEPT !.completed = TRUE]
              [] p # s /\ p = r ->
                    [number |-> attempt[p].number + 1, lease |-> Lease,
                     submitted |-> FALSE, completed |-> FALSE]
              [] OTHER -> attempt[p]]
    /\ upload' = IF s = NoRun THEN upload ELSE ReleaseUploads(s)
    /\ reservation' = [p \in RunIds |->
            CASE p = s -> ReleaseReservation(s)[s]
              [] p # s /\ p = r /\ request[r].tool \in ImageTools
                       /\ reservation[r] = "none" -> "reserved"
              [] OTHER -> reservation[p]]
    /\ UNCHANGED <<request, artifact>>

\* Mutant: the token is compared, but not the state of run and attempt.
CurrentByToken(r, n) == attempt[r].number = n /\ attempt[r].lease > 0

\* _current_attempt: token n still holds the lease of run r.
Current(r, n) ==
    /\ state[r] = "running"
    /\ attempt[r].number = n
    /\ attempt[r].lease > 0
    /\ ~attempt[r].completed

\* renew_lease
RenewLease(r, n) ==
    /\ Current(r, n)
    /\ attempt' = [attempt EXCEPT ![r].lease = Lease]
    /\ UNCHANGED <<credits, state, request, upload, reservation, artifact>>

\* mark_submitted
MarkSubmitted(r, n) ==
    /\ Current(r, n)
    /\ attempt' = [attempt EXCEPT ![r].submitted = TRUE]
    /\ UNCHANGED <<credits, state, request, upload, reservation, artifact>>

(***************************************************************************)
(* complete_run.  AIService passes an artifact for the image tools and for *)
(* no other, and the store takes it only into its own, kept, place.        *)
(***************************************************************************)
CompleteRun(r, n) ==
    /\ Current(r, n)
    /\ Settle(r, "capture", 0)
    /\ IF request[r].tool \in ImageTools
       THEN /\ reservation[r] = "reserved"
            /\ artifact' = [artifact EXCEPT ![r] = "available"]
            /\ reservation' = [reservation EXCEPT ![r] = "committed"]
       ELSE UNCHANGED <<artifact, reservation>>
    /\ state' = [state EXCEPT ![r] = "succeeded"]
    /\ attempt' = [attempt EXCEPT ![r].completed = TRUE]
    /\ upload' = ReleaseUploads(r)
    /\ UNCHANGED request

(***************************************************************************)
(* fail_run, with provider_unknown or not; also what AIService does with   *)
(* an output that breaks the tool's contract.                              *)
(***************************************************************************)
FailRun(r, n, outcome) ==
    /\ Current(r, n)
    /\ Settle(r, "release", Cost(r))
    /\ state' = [state EXCEPT ![r] = outcome]
    /\ attempt' = [attempt EXCEPT ![r].completed = TRUE]
    /\ upload' = ReleaseUploads(r)
    /\ reservation' = ReleaseReservation(r)
    /\ UNCHANGED <<request, artifact>>

\* mark_artifact_reservation_deleted
MarkReservationDeleted(r) ==
    /\ reservation[r] = "pending"
    /\ reservation' = [reservation EXCEPT ![r] = "deleted"]
    /\ UNCHANGED <<credits, state, request, attempt, upload, artifact>>

\* mark_artifact_deleted
MarkArtifactDeleted(r) ==
    /\ artifact[r] = "pending"
    /\ artifact' = [artifact EXCEPT ![r] = "deleted"]
    /\ UNCHANGED <<credits, state, request, attempt, upload, reservation>>

Left(t) == IF t > 0 THEN t - 1 ELSE 0

\* The clock the deadlines are compared with.
Tick ==
    /\ attempt' = [r \in RunIds |->
                    [attempt[r] EXCEPT !.lease = Left(@)]]
    /\ upload' = [x \in Uploads |-> [upload[x] EXCEPT !.ttl = Left(@)]]
    /\ UNCHANGED <<credits, state, request, reservation, artifact>>

Next ==
    \/ \E u \in Users, c \in Correlations, q \in GrantSizes :
            GrantCredits(u, c, q)
    \/ \E u \in Users, x \in Uploads : CreateUpload(u, x)
    \/ \E x \in Uploads : MarkUploadDeletionPending(x)
    \/ ListUploadsPendingDeletion
    \/ \E x \in Uploads : MarkUploadDeleted(x)
    \/ \E r \in RunIds, q \in Request : CreateRun(r, q)
    \/ \E r \in RunIds : DeleteRun(r)
    \/ \E s, r \in RunIds \cup {NoRun} : ClaimPending(s, r)
    \/ \E r \in RunIds, n \in 1 .. MaxAttempts : RenewLease(r, n)
    \/ \E r \in RunIds, n \in 1 .. MaxAttempts : MarkSubmitted(r, n)
    \/ \E r \in RunIds, n \in 1 .. MaxAttempts : CompleteRun(r, n)
    \/ \E r \in RunIds, n \in 1 .. MaxAttempts,
          outcome \in {"failed", "provider_unknown"} : FailRun(r, n, outcome)
    \/ \E r \in RunIds : MarkReservationDeleted(r)
    \/ \E r \in RunIds : MarkArtifactDeleted(r)
    \/ Tick

Spec == Init /\ [][Next]_vars

-----------------------------------------------------------------------------
(***************************************************************************)
(* Derived notions the properties are stated with.                         *)
(***************************************************************************)
SettlementOf(r) == {e \in ledger : e.op \in SettleOps /\ e.of = r}
Reservations(r) == {e \in ledger : e.op = "reserve" /\ e.of = r}
Captured(r) == \E e \in ledger : e.op = "capture" /\ e.of = r
IsImageRun(r) == Created(r) /\ request[r].tool \in ImageTools
Ended(r) == Created(r) /\ ~Active(r)

\* The credits a run is priced at, one element for each.
Units(r) == {r} \X (1 .. Cost(r))
HeldUnits(u) == UNION {Units(r) : r \in ActiveOf(u)}
SpentUnits(u) ==
    UNION {Units(r) : r \in {p \in RunIds :
                                Created(p) /\ Owner(p) = u /\ Captured(p)}}
GrantedUnits(u) ==
    UNION {{e.of} \X (1 .. e.available) :
                e \in {f \in ledger : f.user = u /\ f.op = "admin_grant"}}

\* Sums, counted out: the units that numbers add, and those they take away.
Added(delta) == UNION {{e} \X (1 .. delta[e]) : e \in DOMAIN delta}
Deducted(delta) == UNION {{e} \X (1 .. -delta[e]) : e \in DOMAIN delta}
AddsUp(total, delta) ==
    total + Cardinality(Deducted(delta)) = Cardinality(Added(delta))

EntriesOf(u) == {e \in ledger : e.user = u}

\* What the SQL schema's columns can hold, and CHECK (x >= 0) of balances.
TypeOK ==
    /\ available \in [Users -> Nat]
    /\ reserved \in [Users -> Nat]
    /\ version \in [Users -> Nat]
    /\ ledger \subseteq
         [user : Users, op : {"admin_grant"}, of : Correlations,
          available : Int, reserved : Int]
         \cup [user : Users, op : SettleOps \cup {"reserve"}, of : RunIds,
               available : Int, reserved : Int]
    /\ state \in [RunIds -> RunStates]
    /\ request \in [RunIds -> Request \cup {NoRequest}]
    /\ attempt \in [RunIds -> Attempt]
    /\ upload \in [Uploads -> Upload]
    /\ reservation \in
         [RunIds -> {"none", "reserved", "pending", "committed", "deleted"}]
    /\ artifact \in [RunIds -> {"none", "available", "pending", "deleted"}]

(***************************************************************************)
(* What an account shows as reserved is, credit for credit, the price of   *)
(* the owner's active runs: whichever of create, delete, claim, complete   *)
(* and fail ends a run, nothing stays reserved for a run that is over and  *)
(* no running job is left unpaid for (storage.py, create_run to fail_run). *)
(***************************************************************************)
ReservedBacksActiveRuns ==
    \A u \in Users : reserved[u] = Cardinality(HeldUnits(u))

(***************************************************************************)
(* No sequence of operations makes or loses credits: what was granted to a *)
(* user is available, reserved, or was the price of a run that delivered.  *)
(***************************************************************************)
CreditsConserved ==
    \A u \in Users :
        Cardinality(GrantedUnits(u)) =
            available[u] + reserved[u] + Cardinality(SpentUnits(u))

(***************************************************************************)
(* What reconcile_credits recomputes: each balance is the sum of what the  *)
(* ledger's entries say of it, and the version is their number.            *)
(***************************************************************************)
BalanceMatchesLedger ==
    \A u \in Users :
        /\ AddsUp(available[u], [e \in EntriesOf(u) |-> e.available])
        /\ AddsUp(reserved[u], [e \in EntriesOf(u) |-> e.reserved])
        /\ version[u] = Cardinality(EntriesOf(u))

(***************************************************************************)
(* A run is reserved for once, when it is created, and is captured or      *)
(* released once, when it ends, and never before: the user's delete, the   *)
(* worker's complete or fail and the expiry of an abandoned run cannot     *)
(* both settle it.                                                         *)
(***************************************************************************)
SettledExactlyOnce ==
    \A r \in RunIds :
        /\ Reservations(r) =
                IF Created(r)
                THEN {Entry(Owner(r), "reserve", r, -Cost(r), Cost(r))}
                ELSE {}
        /\ IF Ended(r)
           THEN \E op \in SettleOps :
                  SettlementOf(r) =
                    {Entry(Owner(r), op, r,
                           IF op = "capture" THEN 0 ELSE Cost(r), -Cost(r))}
           ELSE SettlementOf(r) = {}

\* A run that has its result was charged, and no run without one was.
Charged(r) ==
    /\ state[r] = "succeeded" => Captured(r)
    /\ state[r] \in {"failed", "provider_unknown"} => ~Captured(r)
    /\ attempt[r].number = 0 => ~Captured(r)
    /\ IsImageRun(r) => (Captured(r) <=> artifact[r] # "none")

(***************************************************************************)
(* A user pays only for a result: a run that failed, whose outcome is      *)
(* unknown, or that was deleted before it ran, is never captured; one that *)
(* succeeded always is; and an image run is captured exactly when its      *)
(* artifact was recorded (complete_run does both in one transaction).      *)
(***************************************************************************)
ChargedOnlyForResult == \A r \in RunIds : Charged(r)

(***************************************************************************)
(* The upload an active run reads stays available, and bound to that run,  *)
(* however often uploads expire or are swept, given up or cleaned up in    *)
(* the meantime; and no two runs ever share one.                           *)
(***************************************************************************)
ActiveRunKeepsUpload ==
    \A r \in RunIds :
        Created(r) /\ request[r].upload # NoUpload =>
            LET x == upload[request[r].upload]
            IN  x.bound = r /\ (Active(r) => x.state = "available")

(***************************************************************************)
(* The object key kept for a running image run is never handed to clean-up *)
(* while a worker may still write there, and an artifact a user can read   *)
(* is never one whose place was handed to clean-up.                        *)
(***************************************************************************)
PlaceKeptForArtifact ==
    \A r \in RunIds :
        /\ state[r] = "running" /\ IsImageRun(r)
                => reservation[r] = "reserved"
        /\ reservation[r] \in {"pending", "deleted"}
                => Ended(r) /\ artifact[r] = "none"
        /\ artifact[r] = "available"
                => state[r] = "succeeded" /\ reservation[r] = "committed"
        /\ artifact[r] # "none" => reservation[r] = "committed"

(***************************************************************************)
(* A run gets another attempt only when nobody can still be working at it  *)
(* under a valid lease and its request was never submitted to a provider.  *)
(***************************************************************************)
NoSecondSubmission ==
    [][\A r \in RunIds :
          attempt'[r].number # attempt[r].number =>
              /\ state[r] \in {"pending", "running"}
              /\ ~attempt[r].submitted
              /\ attempt[r].lease = 0]_vars

(***************************************************************************)
(* An ended run stays ended with the outcome it had, unless its user       *)
(* deletes it, and its settlement is never written again: a late complete, *)
(* a late fail and a claim all leave it alone.                             *)
(***************************************************************************)
EndedIsFinal ==
    [][\A r \in RunIds :
          Ended(r) => /\ state'[r] \in {state[r], "deleted"}
                      /\ SettlementOf(r)' = SettlementOf(r)
                      /\ attempt'[r].number = attempt[r].number]_vars

(***************************************************************************)
(* Neither the user nor the whole store ever has more runs queued or       *)
(* running than the configured limits, although a run that was claimed and *)
(* lost comes back to the queue (create_run counts both states).           *)
(***************************************************************************)
ActiveRunsWithinLimits ==
    /\ Cardinality(ActiveRuns) <= GlobalRunLimit
    /\ \A u \in Users : Cardinality(ActiveOf(u)) <= UserRunLimit

-----------------------------------------------------------------------------
(***************************************************************************)
(* AIService.create_run called again with the request q of an earlier run: *)
(* resolve_upload_for_run looks for the upload before the store is asked   *)
(* for the key.  NoRun is the answer 404 (or, for a changed request, 409). *)
(***************************************************************************)
ResolvesUpload(q) ==
    LET x == upload[q.upload]
    IN  /\ UploadOwner[q.upload] = q.user
        /\ x.state = "available"
        /\ x.ttl > 0
        /\ x.bound = NoRun \/ request[x.bound].key = q.key

Replay(q) ==
    LET same == {r \in RunIds : request[r] = q}
    IN  IF same = {} \/ (q.upload # NoUpload /\ ~ResolvesUpload(q))
        THEN NoRun
        ELSE CHOOSE r \in same : TRUE

(***************************************************************************)
(* "Identical replay returns the original run", says the plan the feature  *)
(* was built from.  AIService.create_run answers 404 instead once the      *)
(* run's upload has expired or was handed to clean-up.                     *)
(***************************************************************************)
ReplayReturnsOriginalRun ==
    \A r \in RunIds : Created(r) => Replay(request[r]) = r

(***************************************************************************)
(* "Terminal runs mark their bound upload for deletion", says the design   *)
(* of the image tools.  A pending run that its user deletes does not, and  *)
(* nothing else ever will: every sweep skips a bound upload.               *)
(***************************************************************************)
EndedRunReleasesUpload ==
    \A r \in RunIds :
        Ended(r) /\ request[r].upload # NoUpload =>
            upload[request[r].upload].state # "available"

-----------------------------------------------------------------------------
(***************************************************************************)
(* The store implements the credit escrow: a run's price is held while the *)
(* run is active, kept if the ledger captured it, returned otherwise.      *)
(***************************************************************************)
EscrowOf(r) ==
    IF ~Created(r) THEN [status |-> "none"]
    ELSE [status |-> CASE Active(r) -> "held"
                       [] ~Active(r) /\ Captured(r) -> "kept"
                       [] OTHER -> "returned",
          payer |-> Owner(r), price |-> Cost(r)]

Escrow == INSTANCE CreditEscrow
            WITH Payers <- Users, Jobs <- RunIds,
                 Prices <- {Price[t] : t \in Tools}, Deposits <- GrantSizes,
                 balance <- available,
                 escrow <- [r \in RunIds |-> EscrowOf(r)]

(***************************************************************************)
(* Every step of the store is a step of the escrow, or leaves the money    *)
(* alone; in particular a claim returns at most one abandoned run's price. *)
(***************************************************************************)
ImplementsEscrow == Escrow!EscrowSpec
=============================================================================
