---------------------------- MODULE AIRuns_proofs ----------------------------
(***************************************************************************)
(* Theorems about the AI credit and run store, for any number of users,    *)
(* runs, uploads and attempts, any prices and any limits.                  *)
(***************************************************************************)
EXTENDS AIRuns, FiniteSetTheorems, TLAPS

\* A run has a request exactly when it exists.
RequestOfCreated ==
    \A r \in RunIds : Created(r) <=> request[r] \in Request

TypeInv == TypeOK /\ RequestOfCreated

-----------------------------------------------------------------------------
LEMMA RequestFields ==
    ASSUME NEW q \in Request
    PROVE  /\ q.user \in Users
           /\ q.tool \in Tools
           /\ q.upload \in Uploads \cup {NoUpload}
           /\ Price[q.tool] \in Nat \ {0}
           /\ q # NoRequest
BY ToolsAssumption, RequestAssumption DEF Request

LEMMA CreatedFields ==
    ASSUME TypeInv, NEW r \in RunIds, Created(r)
    PROVE  /\ request[r] \in Request
           /\ Owner(r) \in Users
           /\ Cost(r) \in Nat \ {0}
BY RequestFields DEF TypeInv, RequestOfCreated, Owner, Cost

\* The parts of TypeOK that speak of money.
CreditTypes ==
    /\ available \in [Users -> Nat]
    /\ reserved \in [Users -> Nat]
    /\ version \in [Users -> Nat]
    /\ ledger \subseteq
         [user : Users, op : {"admin_grant"}, of : Correlations,
          available : Int, reserved : Int]
         \cup [user : Users, op : SettleOps \cup {"reserve"}, of : RunIds,
               available : Int, reserved : Int]

LEMMA SettleTypes ==
    ASSUME TypeInv, NEW r \in RunIds, Created(r), NEW op \in SettleOps,
           NEW refund \in {0, Cost(r)}, Settle(r, op, refund)
    PROVE  CreditTypes'
<1>1. /\ Owner(r) \in Users
      /\ Cost(r) \in Nat \ {0}
      /\ refund \in Nat
  BY CreatedFields
<1>2. reserved[Owner(r)] - Cost(r) \in Nat
  BY <1>1 DEF TypeInv, TypeOK, Settle
<1>3. /\ available' = [available EXCEPT ![Owner(r)] = @ + refund]
      /\ reserved' = [reserved EXCEPT ![Owner(r)] = @ + (-Cost(r))]
      /\ version' = [version EXCEPT ![Owner(r)] = @ + 1]
      /\ ledger' = ledger \cup {Entry(Owner(r), op, r, refund, -Cost(r))}
  BY DEF Settle, Post
<1>4. /\ available' \in [Users -> Nat]
      /\ version' \in [Users -> Nat]
  BY <1>1, <1>3 DEF TypeInv, TypeOK
<1>5. reserved' \in [Users -> Nat]
  BY <1>1, <1>2, <1>3 DEF TypeInv, TypeOK
<1>6. Entry(Owner(r), op, r, refund, -Cost(r)) \in
        [user : Users, op : SettleOps \cup {"reserve"}, of : RunIds,
         available : Int, reserved : Int]
  BY <1>1 DEF Entry
<1>7. QED
  BY <1>3, <1>4, <1>5, <1>6 DEF CreditTypes, TypeInv, TypeOK

LEMMA UploadReleased ==
    ASSUME TypeOK, NEW r
    PROVE  ReleaseUploads(r) \in [Uploads -> Upload]
<1>1. ASSUME NEW x \in Uploads
      PROVE  [upload[x] EXCEPT !.state = "pending"] \in Upload
  BY DEF TypeOK, Upload
<1>2. QED
  BY <1>1 DEF TypeOK, ReleaseUploads

LEMMA ReservationReleased ==
    ASSUME TypeOK, NEW r \in RunIds
    PROVE  ReleaseReservation(r) \in
            [RunIds -> {"none", "reserved", "pending", "committed", "deleted"}]
BY DEF TypeOK, ReleaseReservation

LEMMA TypeInit == Init => TypeInv
BY BoundsAssumption, RequestAssumption
   DEF Init, TypeInv, TypeOK, RequestOfCreated, Created, RunStates, Attempt,
       Upload, NoRun

LEMMA TypeStep == TypeInv /\ [Next]_vars => TypeInv'
<1> SUFFICES ASSUME TypeInv, [Next]_vars
             PROVE  TypeInv'
  OBVIOUS
<1> USE DEF TypeInv
<1>1. ASSUME NEW u \in Users, NEW c \in Correlations, NEW q \in GrantSizes,
             GrantCredits(u, c, q)
      PROVE  TypeInv'
  <2>1. q \in Nat
    BY BoundsAssumption
  <2>2. Entry(u, "admin_grant", c, q, 0) \in
          [user : Users, op : {"admin_grant"}, of : Correlations,
           available : Int, reserved : Int]
    BY <2>1 DEF Entry
  <2>3. QED
    BY <1>1, <2>1, <2>2
       DEF GrantCredits, Post, TypeOK, RequestOfCreated, Created
<1>2. ASSUME NEW u \in Users, NEW x \in Uploads, CreateUpload(u, x)
      PROVE  TypeInv'
  <2>1. [state |-> "available", ttl |-> UploadTTL, bound |-> NoRun] \in Upload
    BY BoundsAssumption DEF Upload
  <2>2. \A y \in Uploads : [upload[y] EXCEPT !.state = "pending"] \in Upload
    BY DEF TypeOK, Upload
  <2>3. upload' \in [Uploads -> Upload]
    BY <1>2, <2>1, <2>2 DEF CreateUpload, TypeOK
  <2>4. QED
    BY <1>2, <2>3
       DEF CreateUpload, TypeOK, RequestOfCreated, Created, credits
<1>3. ASSUME NEW x \in Uploads, MarkUploadDeletionPending(x)
      PROVE  TypeInv'
  <2>1. upload' \in [Uploads -> Upload]
    BY <1>3 DEF MarkUploadDeletionPending, TypeOK, Upload
  <2>2. QED
    BY <1>3, <2>1
       DEF MarkUploadDeletionPending, TypeOK, RequestOfCreated, Created, credits
<1>4. CASE ListUploadsPendingDeletion
  <2>1. \A y \in Uploads : [upload[y] EXCEPT !.state = "pending"] \in Upload
    BY DEF TypeOK, Upload
  <2>2. upload' \in [Uploads -> Upload]
    BY <1>4, <2>1 DEF ListUploadsPendingDeletion, TypeOK
  <2>3. QED
    BY <1>4, <2>2 DEF ListUploadsPendingDeletion, TypeOK, RequestOfCreated,
                      Created, credits
<1>5. ASSUME NEW x \in Uploads, MarkUploadDeleted(x)
      PROVE  TypeInv'
  <2>1. upload' \in [Uploads -> Upload]
    BY <1>5 DEF MarkUploadDeleted, TypeOK, Upload
  <2>2. QED
    BY <1>5, <2>1
       DEF MarkUploadDeleted, TypeOK, RequestOfCreated, Created, credits
<1>6. ASSUME NEW r \in RunIds, NEW q \in Request, CreateRun(r, q)
      PROVE  TypeInv'
  <2>1. /\ q.user \in Users
        /\ q.upload \in Uploads \cup {NoUpload}
        /\ Price[q.tool] \in Nat \ {0}
    BY RequestFields
  <2>2. available[q.user] + (-Price[q.tool]) \in Nat
    BY <1>6, <2>1 DEF CreateRun, CanPay, TypeOK
  <2>3. Entry(q.user, "reserve", r, -Price[q.tool], Price[q.tool]) \in
          [user : Users, op : SettleOps \cup {"reserve"}, of : RunIds,
           available : Int, reserved : Int]
    BY <2>1 DEF Entry
  <2>4. CreditTypes'
    BY <1>6, <2>1, <2>2, <2>3 DEF CreateRun, Post, TypeOK, CreditTypes
  <2>5. upload' \in [Uploads -> Upload]
    BY <1>6, <2>1 DEF CreateRun, TypeOK, Upload
  <2>6. /\ state' \in [RunIds -> RunStates]
        /\ request' \in [RunIds -> Request \cup {NoRequest}]
        /\ RequestOfCreated'
    BY <1>6 DEF CreateRun, TypeOK, RunStates, RequestOfCreated, Created
  <2>7. QED
    BY <1>6, <2>4, <2>5, <2>6 DEF CreateRun, TypeOK, CreditTypes
<1>7. ASSUME NEW r \in RunIds, DeleteRun(r)
      PROVE  TypeInv'
  <2>1. CreditTypes'
    <3>1. CASE state[r] = "pending"
      BY <1>7, <3>1, SettleTypes DEF DeleteRun, SettleOps
    <3>2. CASE state[r] # "pending"
      BY <1>7, <3>2 DEF DeleteRun, credits, CreditTypes, TypeOK
    <3>3. QED
      BY <3>1, <3>2
  <2>2. reservation' \in
          [RunIds -> {"none", "reserved", "pending", "committed", "deleted"}]
    BY <1>7, ReservationReleased DEF DeleteRun
  <2>3. /\ state' \in [RunIds -> RunStates]
        /\ artifact' \in
             [RunIds -> {"none", "available", "pending", "deleted"}]
        /\ RequestOfCreated'
    BY <1>7 DEF DeleteRun, TypeOK, RunStates, RequestOfCreated, Created
  <2>4. QED
    BY <1>7, <2>1, <2>2, <2>3 DEF DeleteRun, TypeOK, CreditTypes
<1>8. ASSUME NEW t \in RunIds \cup {NoRun}, NEW r \in RunIds \cup {NoRun},
             ClaimPending(t, r)
      PROVE  TypeInv'
  <2>1. CreditTypes'
    <3>1. CASE t = NoRun
      BY <1>8, <3>1 DEF ClaimPending, credits, CreditTypes, TypeOK
    <3>2. CASE t \in RunIds /\ t # NoRun
      <4>1. Created(t)
        BY <1>8, <3>2 DEF ClaimPending, Abandoned, Expired, Created
      <4>2. Settle(t, "release", Cost(t))
        BY <1>8, <3>2 DEF ClaimPending
      <4>3. QED
        BY <3>2, <4>1, <4>2, SettleTypes DEF SettleOps
    <3>3. QED
      BY <3>1, <3>2
  <2>2. state' \in [RunIds -> RunStates] /\ RequestOfCreated'
    <3>1. \A p \in RunIds : p \in {t, r} => Created(p)
      BY <1>8 DEF ClaimPending, Abandoned, Claimable, Expired, Created,
                  NoRun, RunIds
    <3>2. QED
      BY <1>8, <3>1
         DEF ClaimPending, TypeOK, RunStates, RequestOfCreated, Created
  <2>3. attempt' \in [RunIds -> Attempt]
    <3>1. \A p \in RunIds : [attempt[p] EXCEPT !.completed = TRUE] \in Attempt
      BY DEF TypeOK, Attempt
    <3>2. \A p \in RunIds : p = r =>
            [number |-> attempt[p].number + 1, lease |-> Lease,
             submitted |-> FALSE, completed |-> FALSE] \in Attempt
      BY <1>8, BoundsAssumption
         DEF ClaimPending, TypeOK, Attempt, NoRun, RunIds
    <3>3. QED
      BY <1>8, <3>1, <3>2 DEF ClaimPending, TypeOK
  <2>4. upload' \in [Uploads -> Upload]
    BY <1>8, UploadReleased DEF ClaimPending, TypeOK
  <2>5. reservation' \in
          [RunIds -> {"none", "reserved", "pending", "committed", "deleted"}]
    <3>1. \A p \in RunIds : ReleaseReservation(p)[p] \in
            {"none", "reserved", "pending", "committed", "deleted"}
      BY ReservationReleased
    <3>2. QED
      BY <1>8, <3>1 DEF ClaimPending, TypeOK
  <2>6. QED
    BY <1>8, <2>1, <2>2, <2>3, <2>4, <2>5 DEF ClaimPending, TypeOK, CreditTypes
<1>9. ASSUME NEW r \in RunIds, NEW n \in 1 .. MaxAttempts, RenewLease(r, n)
      PROVE  TypeInv'
  <2>1. attempt' \in [RunIds -> Attempt]
    BY <1>9, BoundsAssumption DEF RenewLease, TypeOK, Attempt
  <2>2. QED
    BY <1>9, <2>1 DEF RenewLease, TypeOK, RequestOfCreated, Created, credits
<1>10. ASSUME NEW r \in RunIds, NEW n \in 1 .. MaxAttempts, MarkSubmitted(r, n)
       PROVE  TypeInv'
  <2>1. attempt' \in [RunIds -> Attempt]
    BY <1>10 DEF MarkSubmitted, TypeOK, Attempt
  <2>2. QED
    BY <1>10, <2>1 DEF MarkSubmitted, TypeOK, RequestOfCreated, Created, credits
<1>11. ASSUME NEW r \in RunIds, NEW n \in 1 .. MaxAttempts, CompleteRun(r, n)
       PROVE  TypeInv'
  <2>1. Created(r) /\ Settle(r, "capture", 0)
    BY <1>11 DEF CompleteRun, Current, Created
  <2>2. CreditTypes'
    BY <2>1, SettleTypes DEF SettleOps
  <2>3. attempt' \in [RunIds -> Attempt]
    BY <1>11 DEF CompleteRun, TypeOK, Attempt
  <2>4. upload' \in [Uploads -> Upload]
    BY <1>11, UploadReleased DEF CompleteRun
  <2>5. /\ reservation' \in
             [RunIds -> {"none", "reserved", "pending", "committed", "deleted"}]
        /\ artifact' \in
             [RunIds -> {"none", "available", "pending", "deleted"}]
    BY <1>11 DEF CompleteRun, TypeOK
  <2>6. state' \in [RunIds -> RunStates] /\ RequestOfCreated'
    BY <1>11, <2>1 DEF CompleteRun, TypeOK, RunStates, RequestOfCreated, Created
  <2>7. QED
    BY <1>11, <2>2, <2>3, <2>4, <2>5, <2>6 DEF CompleteRun, TypeOK, CreditTypes
<1>12. ASSUME NEW r \in RunIds, NEW n \in 1 .. MaxAttempts,
              NEW outcome \in {"failed", "provider_unknown"},
              FailRun(r, n, outcome)
       PROVE  TypeInv'
  <2>1. Created(r) /\ Settle(r, "release", Cost(r))
    BY <1>12 DEF FailRun, Current, Created
  <2>2. CreditTypes'
    BY <2>1, SettleTypes DEF SettleOps
  <2>3. attempt' \in [RunIds -> Attempt]
    BY <1>12 DEF FailRun, TypeOK, Attempt
  <2>4. upload' \in [Uploads -> Upload]
    BY <1>12, UploadReleased DEF FailRun
  <2>5. reservation' \in
          [RunIds -> {"none", "reserved", "pending", "committed", "deleted"}]
    BY <1>12, ReservationReleased DEF FailRun
  <2>6. state' \in [RunIds -> RunStates] /\ RequestOfCreated'
    BY <1>12, <2>1 DEF FailRun, TypeOK, RunStates, RequestOfCreated, Created
  <2>7. QED
    BY <1>12, <2>2, <2>3, <2>4, <2>5, <2>6 DEF FailRun, TypeOK, CreditTypes
<1>13. ASSUME NEW r \in RunIds, MarkReservationDeleted(r)
       PROVE  TypeInv'
  BY <1>13
     DEF MarkReservationDeleted, TypeOK, RequestOfCreated, Created, credits
<1>14. ASSUME NEW r \in RunIds, MarkArtifactDeleted(r)
       PROVE  TypeInv'
  BY <1>14 DEF MarkArtifactDeleted, TypeOK, RequestOfCreated, Created, credits
<1>15. CASE Tick
  <2>1. attempt' \in [RunIds -> Attempt]
    <3>1. ASSUME NEW r \in RunIds
          PROVE  [attempt[r] EXCEPT !.lease = Left(@)] \in Attempt
      <4>1. attempt[r] \in Attempt /\ attempt[r].lease \in 0 .. Lease
        BY DEF TypeOK, Attempt
      <4>2. Left(attempt[r].lease) \in 0 .. Lease
        BY <4>1, BoundsAssumption DEF Left
      <4>3. QED
        BY <4>1, <4>2 DEF Attempt
    <3>2. QED
      BY <1>15, <3>1 DEF Tick
  <2>2. upload' \in [Uploads -> Upload]
    <3>1. ASSUME NEW x \in Uploads
          PROVE  [upload[x] EXCEPT !.ttl = Left(@)] \in Upload
      <4>1. upload[x] \in Upload /\ upload[x].ttl \in 0 .. UploadTTL
        BY DEF TypeOK, Upload
      <4>2. Left(upload[x].ttl) \in 0 .. UploadTTL
        BY <4>1, BoundsAssumption DEF Left
      <4>3. QED
        BY <4>1, <4>2 DEF Upload
    <3>2. QED
      BY <1>15, <3>1 DEF Tick
  <2>3. QED
    BY <1>15, <2>1, <2>2 DEF Tick, TypeOK, RequestOfCreated, Created, credits
<1>16. CASE UNCHANGED vars
  BY <1>16 DEF vars, TypeOK, RequestOfCreated, Created
<1>17. QED
  BY <1>1, <1>2, <1>3, <1>4, <1>5, <1>6, <1>7, <1>8, <1>9, <1>10, <1>11,
     <1>12, <1>13, <1>14, <1>15, <1>16 DEF Next

(***************************************************************************)
(* Type correctness of the store; with it, that no balance is ever         *)
(* overdrawn: `available' and `reserved' stay natural numbers.             *)
(***************************************************************************)
THEOREM TypeCorrect == Spec => []TypeOK
<1>1. TypeInv => TypeOK
  BY DEF TypeInv
<1>2. QED
  BY <1>1, TypeInit, TypeStep, PTL DEF Spec

-----------------------------------------------------------------------------
(***************************************************************************)
(* As far as money goes the store has four kinds of step: nothing happens, *)
(* a grant, a run is opened, or an active run ends and is settled.         *)
(***************************************************************************)
Same(p) == /\ Active(p)' <=> Active(p)
           /\ Created(p)' <=> Created(p)
           /\ request'[p] = request[p]

QuietStep == UNCHANGED credits /\ \A p \in RunIds : Same(p)

GrantStep ==
    \E u \in Users, c \in Correlations, q \in GrantSizes :
        /\ Post(u, "admin_grant", c, q, 0)
        /\ \A p \in RunIds : Same(p)

OpenStep ==
    \E r \in RunIds, q \in Request :
        /\ ~Created(r) /\ Created(r)' /\ Active(r)' /\ request'[r] = q
        /\ CanPay(q) /\ HasRoom(q.user)
        /\ Post(q.user, "reserve", r, -Price[q.tool], Price[q.tool])
        /\ \A p \in RunIds \ {r} : Same(p)

Refund(r, op) == IF op = "capture" THEN 0 ELSE Cost(r)

EndStep ==
    \E r \in RunIds, op \in SettleOps :
        /\ Active(r) /\ Created(r)' /\ ~Active(r)' /\ request' = request
        /\ Settle(r, op, Refund(r, op))
        /\ \A p \in RunIds \ {r} : Same(p)

LEMMA MoneySteps ==
    ASSUME TypeInv, [Next]_vars
    PROVE  QuietStep \/ GrantStep \/ OpenStep \/ EndStep
<1> USE DEF Same, Active, Created
<1>1. ASSUME NEW u \in Users, NEW c \in Correlations, NEW q \in GrantSizes,
             GrantCredits(u, c, q)
      PROVE  GrantStep
  BY <1>1 DEF GrantCredits, GrantStep
<1>2. ASSUME NEW u \in Users, NEW x \in Uploads, CreateUpload(u, x)
      PROVE  QuietStep
  BY <1>2 DEF CreateUpload, QuietStep
<1>3. ASSUME NEW x \in Uploads,
             MarkUploadDeletionPending(x) \/ MarkUploadDeleted(x)
      PROVE  QuietStep
  BY <1>3 DEF MarkUploadDeletionPending, MarkUploadDeleted, QuietStep
<1>4. CASE ListUploadsPendingDeletion
  BY <1>4 DEF ListUploadsPendingDeletion, QuietStep
<1>5. ASSUME NEW r \in RunIds, NEW q \in Request, CreateRun(r, q)
      PROVE  OpenStep
  BY <1>5 DEF CreateRun, OpenStep, TypeInv, TypeOK
<1>6. ASSUME NEW r \in RunIds, DeleteRun(r)
      PROVE  QuietStep \/ EndStep
  <2>1. CASE state[r] = "pending"
    <3>1. Settle(r, "delete-release", Refund(r, "delete-release"))
      BY <1>6, <2>1 DEF DeleteRun, Refund
    <3>2. QED
      BY <1>6, <2>1, <3>1 DEF DeleteRun, EndStep, SettleOps, TypeInv, TypeOK
  <2>2. CASE state[r] # "pending"
    BY <1>6, <2>2 DEF DeleteRun, QuietStep, TypeInv, TypeOK
  <2>3. QED
    BY <2>1, <2>2
<1>7. ASSUME NEW t \in RunIds \cup {NoRun}, NEW r \in RunIds \cup {NoRun},
             ClaimPending(t, r)
      PROVE  QuietStep \/ EndStep
  <2>1. \A p \in RunIds \ {t} : Same(p)
    BY <1>7 DEF ClaimPending, Claimable, Expired, TypeInv, TypeOK, NoRun, RunIds
  <2>2. CASE t = NoRun
    BY <1>7, <2>1, <2>2 DEF ClaimPending, QuietStep, NoRun, RunIds
  <2>3. CASE t \in RunIds
    <3>1. t # NoRun
      BY <2>3 DEF NoRun, RunIds
    <3>2. Settle(t, "release", Refund(t, "release"))
      BY <1>7, <3>1 DEF ClaimPending, Refund
    <3>3. /\ Active(t) /\ Created(t)' /\ ~Active(t)'
          /\ request' = request
      BY <1>7, <2>3, <3>1 DEF ClaimPending, Abandoned, Expired
    <3>4. QED
      BY <2>1, <2>3, <3>2, <3>3 DEF EndStep, SettleOps
  <2>4. QED
    BY <2>2, <2>3
<1>8. ASSUME NEW r \in RunIds, NEW n \in 1 .. MaxAttempts,
             RenewLease(r, n) \/ MarkSubmitted(r, n)
      PROVE  QuietStep
  BY <1>8 DEF RenewLease, MarkSubmitted, QuietStep
<1>9. ASSUME NEW r \in RunIds, NEW n \in 1 .. MaxAttempts, CompleteRun(r, n)
      PROVE  EndStep
  <2>1. Settle(r, "capture", Refund(r, "capture"))
    BY <1>9 DEF CompleteRun, Refund
  <2>2. QED
    BY <1>9, <2>1 DEF CompleteRun, Current, EndStep, SettleOps, TypeInv, TypeOK
<1>10. ASSUME NEW r \in RunIds, NEW n \in 1 .. MaxAttempts,
              NEW outcome \in {"failed", "provider_unknown"},
              FailRun(r, n, outcome)
       PROVE  EndStep
  <2>1. Settle(r, "release", Refund(r, "release"))
    BY <1>10 DEF FailRun, Refund
  <2>2. QED
    BY <1>10, <2>1 DEF FailRun, Current, EndStep, SettleOps, TypeInv, TypeOK
<1>11. ASSUME NEW r \in RunIds,
              MarkReservationDeleted(r) \/ MarkArtifactDeleted(r)
       PROVE  QuietStep
  BY <1>11 DEF MarkReservationDeleted, MarkArtifactDeleted, QuietStep
<1>12. CASE Tick
  BY <1>12 DEF Tick, QuietStep
<1>13. CASE UNCHANGED vars
  BY <1>13 DEF vars, QuietStep, credits
<1>14. QED
  BY <1>1, <1>2, <1>3, <1>4, <1>5, <1>6, <1>7, <1>8, <1>9, <1>10, <1>11,
     <1>12, <1>13 DEF Next

-----------------------------------------------------------------------------
LEMMA SettledInit == Init => SettledExactlyOnce
BY DEF Init, SettledExactlyOnce, Reservations, SettlementOf, Created, Ended

LEMMA SettledStep ==
    TypeInv /\ SettledExactlyOnce /\ [Next]_vars => SettledExactlyOnce'
<1> SUFFICES ASSUME TypeInv, SettledExactlyOnce, [Next]_vars
             PROVE  SettledExactlyOnce'
  OBVIOUS
<1>1. ASSUME QuietStep
      PROVE  SettledExactlyOnce'
  BY <1>1 DEF QuietStep, Same, credits, SettledExactlyOnce, Reservations,
              SettlementOf, Ended, Entry, Owner, Cost
<1>2. ASSUME GrantStep
      PROVE  SettledExactlyOnce'
  <2>1. \A r \in RunIds : /\ Reservations(r)' = Reservations(r)
                          /\ SettlementOf(r)' = SettlementOf(r)
    BY <1>2 DEF GrantStep, Post, Entry, Reservations, SettlementOf, SettleOps
  <2>2. \A r \in RunIds : Same(r)
    BY <1>2 DEF GrantStep
  <2>3. QED
    BY <2>1, <2>2 DEF Same, SettledExactlyOnce, Ended, Entry, Owner, Cost
<1>3. ASSUME OpenStep
      PROVE  SettledExactlyOnce'
  <2>1. PICK r \in RunIds, q \in Request :
          /\ ~Created(r) /\ Created(r)' /\ Active(r)' /\ request'[r] = q
          /\ ledger' = ledger \cup
               {Entry(q.user, "reserve", r, -Price[q.tool], Price[q.tool])}
          /\ \A p \in RunIds \ {r} : Same(p)
    BY <1>3 DEF OpenStep, Post
  <2>2. \A p \in RunIds \ {r} : /\ Reservations(p)' = Reservations(p)
                                /\ SettlementOf(p)' = SettlementOf(p)
    BY <2>1 DEF Reservations, SettlementOf, SettleOps, Entry
  <2>3. /\ Reservations(r)' =
             {Entry(q.user, "reserve", r, -Price[q.tool], Price[q.tool])}
        /\ SettlementOf(r)' = {}
    <3>1. Reservations(r) = {} /\ SettlementOf(r) = {}
      BY <2>1 DEF SettledExactlyOnce, Ended
    <3>2. QED
      BY <2>1, <3>1 DEF Reservations, SettlementOf, SettleOps, Entry
  <2>4. QED
    BY <2>1, <2>2, <2>3
       DEF SettledExactlyOnce, Same, Ended, Entry, Owner, Cost
<1>4. ASSUME EndStep
      PROVE  SettledExactlyOnce'
  <2>1. PICK r \in RunIds, op \in SettleOps :
          /\ Active(r) /\ Created(r)' /\ ~Active(r)' /\ request' = request
          /\ ledger' = ledger \cup
               {Entry(Owner(r), op, r, Refund(r, op), -Cost(r))}
          /\ \A p \in RunIds \ {r} : Same(p)
    BY <1>4 DEF EndStep, Settle, Post
  <2>2. \A p \in RunIds \ {r} : /\ Reservations(p)' = Reservations(p)
                                /\ SettlementOf(p)' = SettlementOf(p)
    BY <2>1 DEF Reservations, SettlementOf, SettleOps, Entry
  <2>3. /\ Reservations(r)' = Reservations(r)
        /\ SettlementOf(r)' =
             {Entry(Owner(r), op, r, Refund(r, op), -Cost(r))}
    <3>1. SettlementOf(r) = {}
      BY <2>1 DEF SettledExactlyOnce, Ended
    <3>2. QED
      BY <2>1, <3>1 DEF Reservations, SettlementOf, SettleOps, Entry
  <2>4. Created(r) /\ Ended(r)'
    BY <2>1 DEF Active, Created, Ended
  <2>5. ASSUME NEW p \in RunIds \ {r}
        PROVE  SettledExactlyOnce!(p)'
    BY <2>1, <2>2, <2>5
       DEF SettledExactlyOnce, Same, Ended, Entry, Owner, Cost
  <2>6. SettledExactlyOnce!(r)'
    BY <2>1, <2>3, <2>4
       DEF SettledExactlyOnce, Refund, Entry, Owner, Cost
  <2>7. QED
    BY <2>5, <2>6 DEF SettledExactlyOnce
<1>5. QED
  BY <1>1, <1>2, <1>3, <1>4, MoneySteps

(***************************************************************************)
(* Every run is reserved for once, and settled once, when it ends.         *)
(***************************************************************************)
THEOREM RunsSettledOnce == Spec => []SettledExactlyOnce
BY TypeInit, TypeStep, SettledInit, SettledStep, PTL DEF Spec

-----------------------------------------------------------------------------
(***************************************************************************)
(* Counting credits: sets of units that grow and shrink by disjoint parts. *)
(***************************************************************************)
LEMMA DisjointUnion ==
    ASSUME NEW S, NEW T, IsFiniteSet(S), IsFiniteSet(T), S \cap T = {}
    PROVE  /\ IsFiniteSet(S \cup T)
           /\ Cardinality(S \cup T) = Cardinality(S) + Cardinality(T)
           /\ Cardinality(S) \in Nat /\ Cardinality(T) \in Nat
BY FS_Union, FS_EmptySet, FS_CardinalityType

LEMMA SubsetDifference ==
    ASSUME NEW S, NEW T, IsFiniteSet(S), T \subseteq S
    PROVE  /\ IsFiniteSet(S \ T)
           /\ Cardinality(S \ T) = Cardinality(S) - Cardinality(T)
           /\ Cardinality(S) \in Nat
<1>1. S \cap T = T
  OBVIOUS
<1>2. QED
  BY <1>1, FS_Difference, FS_CardinalityType

LEMMA UnitsCount ==
    ASSUME NEW x, NEW n \in Nat
    PROVE  /\ IsFiniteSet({x} \X (1 .. n))
           /\ Cardinality({x} \X (1 .. n)) = n
<1>1. IsFiniteSet({x}) /\ Cardinality({x}) = 1
  BY FS_Singleton
<1>2. IsFiniteSet(1 .. n) /\ Cardinality(1 .. n) = n
  BY FS_Interval
<1>3. Cardinality({x} \X (1 .. n)) = 1 * n
  BY <1>1, <1>2, FS_Product
<1>4. QED
  BY <1>1, <1>2, <1>3, FS_Product

HeldInv ==
    \A u \in Users : /\ IsFiniteSet(HeldUnits(u))
                     /\ reserved[u] = Cardinality(HeldUnits(u))

LEMMA HeldInit == Init => HeldInv
<1> SUFFICES ASSUME Init, NEW u \in Users
             PROVE  IsFiniteSet(HeldUnits(u))
                    /\ reserved[u] = Cardinality(HeldUnits(u))
  BY DEF HeldInv
<1>1. HeldUnits(u) = {}
  BY DEF Init, HeldUnits, ActiveOf, ActiveRuns, Active
<1>2. QED
  BY <1>1, FS_EmptySet DEF Init

LEMMA HeldUnchanged ==
    ASSUME \A p \in RunIds : Same(p)
    PROVE  \A u \in Users : HeldUnits(u)' = HeldUnits(u)
<1>1. \A u \in Users : ActiveOf(u)' = ActiveOf(u)
  BY DEF Same, ActiveOf, ActiveRuns, Owner
<1>2. \A p \in RunIds : Units(p)' = Units(p)
  BY DEF Same, Units, Cost
<1>3. QED
  BY <1>1, <1>2 DEF HeldUnits, ActiveOf, ActiveRuns

LEMMA HeldStep == TypeInv /\ HeldInv /\ [Next]_vars => HeldInv'
<1> SUFFICES ASSUME TypeInv, HeldInv, [Next]_vars, NEW u \in Users
             PROVE  /\ IsFiniteSet(HeldUnits(u)')
                    /\ reserved'[u] = Cardinality(HeldUnits(u)')
  BY DEF HeldInv
<1>0. /\ IsFiniteSet(HeldUnits(u))
      /\ reserved[u] = Cardinality(HeldUnits(u))
      /\ reserved[u] \in Nat
  BY DEF HeldInv, TypeInv, TypeOK
<1>1. CASE QuietStep
  BY <1>0, <1>1, HeldUnchanged DEF QuietStep, credits
<1>2. CASE GrantStep
  <2>1. reserved'[u] = reserved[u]
    BY <1>0, <1>2 DEF GrantStep, Post, TypeInv, TypeOK
  <2>2. QED
    BY <1>0, <1>2, <2>1, HeldUnchanged DEF GrantStep
<1>3. CASE OpenStep
  <2>1. PICK r \in RunIds, q \in Request :
          /\ ~Created(r) /\ Active(r)' /\ request'[r] = q
          /\ reserved' = [reserved EXCEPT ![q.user] = @ + Price[q.tool]]
          /\ \A p \in RunIds \ {r} : Same(p)
    BY <1>3 DEF OpenStep, Post
  <2>2. /\ q.user \in Users
        /\ Price[q.tool] \in Nat
    BY RequestFields
  <2>3. Units(r)' = {r} \X (1 .. Price[q.tool])
    BY <2>1 DEF Units, Cost
  <2>4. /\ IsFiniteSet(Units(r)')
        /\ Cardinality(Units(r)') = Price[q.tool]
    <3>1. /\ IsFiniteSet({r} \X (1 .. Price[q.tool]))
          /\ Cardinality({r} \X (1 .. Price[q.tool])) = Price[q.tool]
      BY <2>2, UnitsCount
    <3>2. QED
      BY <2>3, <3>1
  <2>5. \A p \in RunIds \ {r} : Units(p)' = Units(p)
    BY <2>1 DEF Same, Units, Cost
  <2>6. ActiveOf(u)' = IF u = q.user THEN ActiveOf(u) \cup {r} ELSE ActiveOf(u)
    BY <2>1 DEF ActiveOf, ActiveRuns, Active, Created, Owner, Same
  <2>7. r \notin ActiveOf(u)
    BY <2>1 DEF ActiveOf, ActiveRuns, Active, Created
  <2>8. HeldUnits(u) \cap Units(r)' = {}
    BY <2>3, <2>7 DEF HeldUnits, Units
  <2>9. CASE u = q.user
    <3>1. HeldUnits(u)' = HeldUnits(u) \cup Units(r)'
      BY <2>5, <2>6, <2>7, <2>9 DEF HeldUnits, ActiveOf, ActiveRuns
    <3>2. reserved'[u] = reserved[u] + Price[q.tool]
      BY <2>1, <2>9 DEF TypeInv, TypeOK
    <3>3. QED
      BY <1>0, <2>4, <2>8, <3>1, <3>2, DisjointUnion
  <2>10. CASE u # q.user
    <3>1. HeldUnits(u)' = HeldUnits(u)
      BY <2>5, <2>6, <2>7, <2>10 DEF HeldUnits, ActiveOf, ActiveRuns
    <3>2. reserved'[u] = reserved[u]
      BY <2>1, <2>10 DEF TypeInv, TypeOK
    <3>3. QED
      BY <1>0, <3>1, <3>2
  <2>11. QED
    BY <2>9, <2>10
<1>4. CASE EndStep
  <2>1. PICK r \in RunIds :
          /\ Active(r) /\ ~Active(r)' /\ request' = request
          /\ reserved' = [reserved EXCEPT ![Owner(r)] = @ + (-Cost(r))]
          /\ \A p \in RunIds \ {r} : Same(p)
    BY <1>4 DEF EndStep, Settle, Post
  <2>2. /\ Owner(r) \in Users
        /\ Cost(r) \in Nat
    BY <2>1, CreatedFields DEF Active, Created
  <2>3. /\ IsFiniteSet(Units(r))
        /\ Cardinality(Units(r)) = Cost(r)
    BY <2>2, UnitsCount DEF Units
  <2>4. \A p \in RunIds : Units(p)' = Units(p)
    BY <2>1 DEF Units, Cost
  <2>5. ActiveOf(u)' = ActiveOf(u) \ {r}
    BY <2>1 DEF ActiveOf, ActiveRuns, Owner, Same
  <2>6. CASE u = Owner(r)
    <3>1. r \in ActiveOf(u)
      BY <2>1, <2>6 DEF ActiveOf, ActiveRuns
    <3>2. Units(r) \subseteq HeldUnits(u)
      BY <3>1 DEF HeldUnits
    <3>3. \A p \in RunIds \ {r} : Units(p) \cap Units(r) = {}
      BY DEF Units
    <3>4. HeldUnits(u)' = UNION {Units(p) : p \in ActiveOf(u) \ {r}}
      BY <2>4, <2>5 DEF HeldUnits, ActiveOf, ActiveRuns
    <3>5. HeldUnits(u)' = HeldUnits(u) \ Units(r)
      BY <3>1, <3>3, <3>4 DEF HeldUnits, ActiveOf, ActiveRuns
    <3>6. reserved'[u] = reserved[u] - Cost(r)
      BY <2>1, <2>2, <2>6 DEF TypeInv, TypeOK
    <3>7. QED
      BY <1>0, <2>3, <3>2, <3>5, <3>6, SubsetDifference
  <2>7. CASE u # Owner(r)
    <3>1. r \notin ActiveOf(u)
      BY <2>7 DEF ActiveOf
    <3>2. HeldUnits(u)' = HeldUnits(u)
      BY <2>4, <2>5, <3>1 DEF HeldUnits, ActiveOf, ActiveRuns
    <3>3. reserved'[u] = reserved[u]
      BY <2>1, <2>2, <2>7 DEF TypeInv, TypeOK
    <3>4. QED
      BY <1>0, <3>2, <3>3
  <2>8. QED
    BY <2>6, <2>7
<1>5. QED
  BY <1>1, <1>2, <1>3, <1>4, MoneySteps

(***************************************************************************)
(* What an account shows as reserved is the price of its active runs.      *)
(***************************************************************************)
THEOREM ReservedIsBacked == Spec => []ReservedBacksActiveRuns
<1>1. HeldInv => ReservedBacksActiveRuns
  BY DEF HeldInv, ReservedBacksActiveRuns
<1>2. QED
  BY <1>1, TypeInit, TypeStep, HeldInit, HeldStep, PTL DEF Spec

-----------------------------------------------------------------------------
LEMMA NotCapturedYet ==
    ASSUME SettledExactlyOnce, NEW r \in RunIds, ~Ended(r)
    PROVE  ~Captured(r)
BY DEF SettledExactlyOnce, SettlementOf, SettleOps, Captured

ConservedInv ==
    \A u \in Users :
        /\ IsFiniteSet(GrantedUnits(u))
        /\ IsFiniteSet(SpentUnits(u))
        /\ Cardinality(GrantedUnits(u)) =
             available[u] + reserved[u] + Cardinality(SpentUnits(u))

LEMMA ConservedInit == Init => ConservedInv
<1> SUFFICES ASSUME Init, NEW u \in Users
             PROVE  /\ IsFiniteSet(GrantedUnits(u))
                    /\ IsFiniteSet(SpentUnits(u))
                    /\ Cardinality(GrantedUnits(u)) =
                         available[u] + reserved[u] + Cardinality(SpentUnits(u))
  BY DEF ConservedInv
<1>1. GrantedUnits(u) = {}
  BY DEF Init, GrantedUnits
<1>2. SpentUnits(u) = {}
  BY DEF Init, SpentUnits, Created
<1>3. available[u] = 0 /\ reserved[u] = 0
  BY DEF Init
<1>4. QED
  BY <1>1, <1>2, <1>3, FS_EmptySet

LEMMA ConservedStep ==
    TypeInv /\ SettledExactlyOnce /\ ConservedInv /\ [Next]_vars
        => ConservedInv'
<1> SUFFICES ASSUME TypeInv, SettledExactlyOnce, ConservedInv, [Next]_vars,
                    NEW u \in Users
             PROVE  /\ IsFiniteSet(GrantedUnits(u)')
                    /\ IsFiniteSet(SpentUnits(u)')
                    /\ Cardinality(GrantedUnits(u)') =
                         available'[u] + reserved'[u]
                            + Cardinality(SpentUnits(u)')
  BY DEF ConservedInv
<1> DEFINE Spent == {p \in RunIds : Created(p) /\ Owner(p) = u /\ Captured(p)}
           Grants == {f \in ledger : f.user = u /\ f.op = "admin_grant"}
<1>0. /\ IsFiniteSet(GrantedUnits(u))
      /\ IsFiniteSet(SpentUnits(u))
      /\ Cardinality(GrantedUnits(u)) =
           available[u] + reserved[u] + Cardinality(SpentUnits(u))
      /\ available[u] \in Nat /\ reserved[u] \in Nat
      /\ Cardinality(GrantedUnits(u)) \in Nat
      /\ Cardinality(SpentUnits(u)) \in Nat
  BY FS_CardinalityType DEF ConservedInv, TypeInv, TypeOK
<1>1. CASE QuietStep
  <2>1. \A p \in RunIds : /\ Captured(p)' <=> Captured(p)
                          /\ Created(p)' <=> Created(p)
                          /\ Owner(p)' = Owner(p)
                          /\ Units(p)' = Units(p)
    BY <1>1 DEF QuietStep, Same, Captured, credits, Owner, Units, Cost
  <2>2. SpentUnits(u)' = SpentUnits(u)
    BY <2>1 DEF SpentUnits
  <2>3. GrantedUnits(u)' = GrantedUnits(u)
    BY <1>1 DEF QuietStep, GrantedUnits, credits
  <2>4. QED
    BY <1>0, <1>1, <2>2, <2>3 DEF QuietStep, credits
<1>2. CASE GrantStep
  <2>1. PICK v \in Users, c \in Correlations, q \in GrantSizes :
          /\ Post(v, "admin_grant", c, q, 0)
          /\ \A p \in RunIds : Same(p)
    BY <1>2 DEF GrantStep
  <2>2. q \in Nat
    BY BoundsAssumption
  <2>3. \A p \in RunIds : /\ Captured(p)' <=> Captured(p)
                          /\ Created(p)' <=> Created(p)
                          /\ Owner(p)' = Owner(p)
                          /\ Units(p)' = Units(p)
    BY <2>1 DEF Same, Post, Entry, Captured, Owner, Units, Cost
  <2>4. SpentUnits(u)' = SpentUnits(u)
    BY <2>3 DEF SpentUnits
  <2>5. reserved'[u] = reserved[u]
    BY <1>0, <2>1 DEF Post, TypeInv, TypeOK
  <2>6. CASE u = v
    <3>1. Grants' = Grants \cup {Entry(u, "admin_grant", c, q, 0)}
      BY <2>1, <2>6 DEF Post, Entry
    <3>2. GrantedUnits(u)' = GrantedUnits(u) \cup ({c} \X (1 .. q))
      <4> DEFINE G(e) == {e.of} \X (1 .. e.available)
                 new == Entry(u, "admin_grant", c, q, 0)
      <4>1. G(new) = {c} \X (1 .. q)
        BY DEF Entry
      <4>2. GrantedUnits(u) = UNION {G(e) : e \in Grants}
        BY DEF GrantedUnits
      <4>3. GrantedUnits(u)' = UNION {G(e) : e \in Grants'}
        BY DEF GrantedUnits
      <4> HIDE DEF G, new, Grants
      <4>4. ASSUME NEW E, NEW d
            PROVE  UNION {G(e) : e \in E \cup {d}} =
                     (UNION {G(e) : e \in E}) \cup G(d)
        <5>1. {G(e) : e \in E \cup {d}} = {G(e) : e \in E} \cup {G(d)}
          OBVIOUS
        <5>2. ASSUME NEW A, NEW X
              PROVE  UNION (A \cup {X}) = (UNION A) \cup X
          OBVIOUS
        <5>3. QED
          BY <5>1, <5>2
      <4>5. Grants' = Grants \cup {new}
        BY <3>1 DEF new
      <4>6. QED
        BY <4>1, <4>2, <4>3, <4>4, <4>5
    <3>3. \A f \in Grants : f.of # c
      BY <2>1, <2>6 DEF Post, Unused
    <3>4. GrantedUnits(u) \cap ({c} \X (1 .. q)) = {}
      BY <3>3 DEF GrantedUnits
    <3>5. /\ IsFiniteSet({c} \X (1 .. q))
          /\ Cardinality({c} \X (1 .. q)) = q
      BY <2>2, UnitsCount
    <3>6. /\ IsFiniteSet(GrantedUnits(u)')
          /\ Cardinality(GrantedUnits(u)') = Cardinality(GrantedUnits(u)) + q
      BY <1>0, <3>2, <3>4, <3>5, DisjointUnion
    <3>7. available'[u] = available[u] + q
      BY <2>1, <2>6 DEF Post, TypeInv, TypeOK
    <3>8. QED
      BY <1>0, <2>2, <2>4, <2>5, <3>6, <3>7
  <2>7. CASE u # v
    <3>1. Grants' = Grants
      BY <2>1, <2>7 DEF Post, Entry
    <3>2. GrantedUnits(u)' = GrantedUnits(u)
      BY <3>1 DEF GrantedUnits
    <3>3. available'[u] = available[u]
      BY <2>1, <2>7 DEF Post, TypeInv, TypeOK
    <3>4. QED
      BY <1>0, <2>4, <2>5, <3>2, <3>3
  <2>8. QED
    BY <2>6, <2>7
<1>3. CASE OpenStep
  <2>1. PICK r \in RunIds, q \in Request :
          /\ ~Created(r) /\ request'[r] = q
          /\ Post(q.user, "reserve", r, -Price[q.tool], Price[q.tool])
          /\ \A p \in RunIds \ {r} : Same(p)
    BY <1>3 DEF OpenStep
  <2>2. q.user \in Users /\ Price[q.tool] \in Nat
    BY RequestFields
  <2>3. Grants' = Grants
    BY <2>1 DEF Post, Entry
  <2>4. GrantedUnits(u)' = GrantedUnits(u)
    BY <2>3 DEF GrantedUnits
  <2>5. \A p \in RunIds : Captured(p)' <=> Captured(p)
    BY <2>1 DEF Post, Entry, Captured
  <2>6. ~Captured(r)
    BY <2>1, NotCapturedYet DEF Ended
  <2>7. Spent' = Spent
    BY <2>1, <2>5, <2>6 DEF Same, Owner
  <2>8. \A p \in RunIds \ {r} : Units(p)' = Units(p)
    BY <2>1 DEF Same, Units, Cost
  <2>9. SpentUnits(u)' = SpentUnits(u)
    BY <2>6, <2>7, <2>8 DEF SpentUnits
  <2>10. available'[u] + reserved'[u] = available[u] + reserved[u]
    BY <1>0, <2>1, <2>2 DEF Post, TypeInv, TypeOK
  <2>11. QED
    BY <1>0, <2>4, <2>9, <2>10
<1>4. CASE EndStep
  <2>1. PICK r \in RunIds, op \in SettleOps :
          /\ Active(r) /\ Created(r)' /\ request' = request
          /\ Post(Owner(r), op, r, Refund(r, op), -Cost(r))
          /\ \A p \in RunIds \ {r} : Same(p)
    BY <1>4 DEF EndStep, Settle
  <2>2. Created(r) /\ Owner(r) \in Users /\ Cost(r) \in Nat
    BY <2>1, CreatedFields DEF Active, Created
  <2>3. Grants' = Grants
    BY <2>1 DEF Post, Entry, SettleOps
  <2>4. GrantedUnits(u)' = GrantedUnits(u)
    BY <2>3 DEF GrantedUnits
  <2>5. \A p \in RunIds \ {r} : Captured(p)' <=> Captured(p)
    BY <2>1 DEF Post, Entry, Captured
  <2>6. ~Captured(r) /\ (Captured(r)' <=> op = "capture")
    <3>1. ~Captured(r)
      BY <2>1, NotCapturedYet DEF Ended
    <3> DEFINE new == Entry(Owner(r), op, r, Refund(r, op), -Cost(r))
    <3>2. ledger' = ledger \cup {new}
      BY <2>1 DEF Post
    <3>3. new.op = op /\ new.of = r
      BY DEF Entry
    <3> HIDE DEF new
    <3>4. Captured(r)' <=> Captured(r) \/ (new.op = "capture" /\ new.of = r)
      BY <3>2 DEF Captured
    <3>5. QED
      BY <3>1, <3>3, <3>4
  <2>7. \A p \in RunIds : Units(p)' = Units(p) /\ Owner(p)' = Owner(p)
    BY <2>1 DEF Units, Owner, Cost
  <2>8. CASE op = "capture" /\ u = Owner(r)
    <3>1. Spent' = Spent \cup {r}
      BY <2>1, <2>5, <2>6, <2>7, <2>8 DEF Same
    <3>2. SpentUnits(u)' = SpentUnits(u) \cup Units(r)
      BY <2>7, <3>1 DEF SpentUnits
    <3>3. SpentUnits(u) \cap Units(r) = {}
      BY <2>6 DEF SpentUnits, Units
    <3>4. IsFiniteSet(Units(r)) /\ Cardinality(Units(r)) = Cost(r)
      BY <2>2, UnitsCount DEF Units
    <3>5. /\ IsFiniteSet(SpentUnits(u)')
          /\ Cardinality(SpentUnits(u)') =
               Cardinality(SpentUnits(u)) + Cost(r)
      BY <1>0, <3>2, <3>3, <3>4, DisjointUnion
    <3>6. /\ available'[u] = available[u]
          /\ reserved'[u] = reserved[u] - Cost(r)
      BY <1>0, <2>1, <2>2, <2>8 DEF Post, Refund, TypeInv, TypeOK
    <3>7. QED
      BY <1>0, <2>2, <2>4, <3>5, <3>6
  <2>9. CASE op # "capture" \/ u # Owner(r)
    <3>1. Spent' = Spent
      BY <2>1, <2>5, <2>6, <2>7, <2>9 DEF Same
    <3>2. SpentUnits(u)' = SpentUnits(u)
      BY <2>7, <3>1 DEF SpentUnits
    <3>3. available'[u] + reserved'[u] = available[u] + reserved[u]
      <4>1. CASE u # Owner(r)
        BY <2>1, <4>1 DEF Post, TypeInv, TypeOK
      <4>2. CASE u = Owner(r)
        BY <1>0, <2>1, <2>2, <2>9, <4>2 DEF Post, Refund, TypeInv, TypeOK
      <4>3. QED
        BY <4>1, <4>2
    <3>4. QED
      BY <1>0, <2>4, <3>2, <3>3
  <2>10. QED
    BY <2>8, <2>9
<1>5. QED
  BY <1>1, <1>2, <1>3, <1>4, MoneySteps

(***************************************************************************)
(* Credits are neither made nor lost: what was granted is available, is    *)
(* reserved, or was captured for a run.                                    *)
(***************************************************************************)
THEOREM CreditsAreConserved == Spec => []CreditsConserved
<1>1. ConservedInv => CreditsConserved
  BY DEF ConservedInv, CreditsConserved
<1>2. QED
  BY <1>1, TypeInit, TypeStep, SettledInit, SettledStep, ConservedInit,
     ConservedStep, PTL DEF Spec

-----------------------------------------------------------------------------
(***************************************************************************)
(* Counting sums: a total that grows by the number of a new entry.         *)
(***************************************************************************)
Sound(total, delta) == /\ IsFiniteSet(Added(delta))
                       /\ IsFiniteSet(Deducted(delta))
                       /\ AddsUp(total, delta)

With(delta, new, n) ==
    [e \in DOMAIN delta \cup {new} |-> IF e = new THEN n ELSE delta[e]]

LEMMA UnitsOf ==
    ASSUME NEW x, NEW n \in Int
    PROVE  /\ IsFiniteSet({x} \X (1 .. n))
           /\ Cardinality({x} \X (1 .. n)) = IF n > 0 THEN n ELSE 0
<1>1. CASE n >= 0
  <2>1. n \in Nat
    BY <1>1
  <2>2. IsFiniteSet({x} \X (1 .. n)) /\ Cardinality({x} \X (1 .. n)) = n
    BY <2>1, UnitsCount
  <2>3. QED
    BY <1>1, <2>2
<1>2. CASE n < 0
  <2>1. {x} \X (1 .. n) = {}
    BY <1>2
  <2>2. QED
    BY <1>2, <2>1, FS_EmptySet
<1>3. QED
  BY <1>1, <1>2

LEMMA OneMoreAdds ==
    ASSUME NEW delta, NEW new, new \notin DOMAIN delta, NEW n \in Int
    PROVE  /\ Added(With(delta, new, n)) = Added(delta) \cup ({new} \X (1 .. n))
           /\ Deducted(With(delta, new, n))
                = Deducted(delta) \cup ({new} \X (1 .. -n))
           /\ Added(delta) \cap ({new} \X (1 .. n)) = {}
           /\ Deducted(delta) \cap ({new} \X (1 .. -n)) = {}
<1> DEFINE next == With(delta, new, n)
<1>1. /\ DOMAIN next = DOMAIN delta \cup {new}
      /\ next[new] = n
      /\ \A e \in DOMAIN delta : next[e] = delta[e]
  BY DEF With
<1> HIDE DEF next
<1>2. Added(next) = Added(delta) \cup ({new} \X (1 .. n))
  BY <1>1 DEF Added
<1>3. Deducted(next) = Deducted(delta) \cup ({new} \X (1 .. -n))
  BY <1>1 DEF Deducted
<1>4. /\ Added(delta) \cap ({new} \X (1 .. n)) = {}
      /\ Deducted(delta) \cap ({new} \X (1 .. -n)) = {}
  BY DEF Added, Deducted
<1>5. QED
  BY <1>2, <1>3, <1>4 DEF next

LEMMA OneMoreIsSound ==
    ASSUME NEW total \in Int, NEW delta, Sound(total, delta),
           NEW new, new \notin DOMAIN delta, NEW n \in Int
    PROVE  Sound(total + n, With(delta, new, n))
<1> DEFINE plus == {new} \X (1 .. n)
           minus == {new} \X (1 .. -n)
<1>1. /\ IsFiniteSet(plus) /\ Cardinality(plus) = (IF n > 0 THEN n ELSE 0)
      /\ IsFiniteSet(minus) /\ Cardinality(minus) = (IF -n > 0 THEN -n ELSE 0)
  <2>1. -n \in Int
    OBVIOUS
  <2>2. QED
    BY <2>1, UnitsOf
<1>2. /\ Added(With(delta, new, n)) = Added(delta) \cup plus
      /\ Deducted(With(delta, new, n)) = Deducted(delta) \cup minus
      /\ Added(delta) \cap plus = {}
      /\ Deducted(delta) \cap minus = {}
  BY OneMoreAdds
<1> HIDE DEF plus, minus
<1>3. /\ IsFiniteSet(Added(delta)) /\ IsFiniteSet(Deducted(delta))
      /\ total + Cardinality(Deducted(delta)) = Cardinality(Added(delta))
  BY DEF Sound, AddsUp
<1>4. /\ IsFiniteSet(Added(delta) \cup plus)
      /\ Cardinality(Added(delta) \cup plus)
           = Cardinality(Added(delta)) + Cardinality(plus)
      /\ Cardinality(Added(delta)) \in Nat
  BY <1>1, <1>2, <1>3, DisjointUnion
<1>5. /\ IsFiniteSet(Deducted(delta) \cup minus)
      /\ Cardinality(Deducted(delta) \cup minus)
           = Cardinality(Deducted(delta)) + Cardinality(minus)
      /\ Cardinality(Deducted(delta)) \in Nat
  BY <1>1, <1>2, <1>3, DisjointUnion
<1>6. total + n + Cardinality(Deducted(delta) \cup minus)
        = Cardinality(Added(delta) \cup plus)
  BY <1>1, <1>3, <1>4, <1>5
<1>7. QED
  BY <1>2, <1>4, <1>5, <1>6 DEF Sound, AddsUp

\* What reconcile_credits finds of one account.
AvailableOf(u) == [e \in EntriesOf(u) |-> e.available]
ReservedOf(u) == [e \in EntriesOf(u) |-> e.reserved]

Reconciled(u) == /\ Sound(available[u], AvailableOf(u))
                 /\ Sound(reserved[u], ReservedOf(u))
                 /\ IsFiniteSet(EntriesOf(u))
                 /\ version[u] = Cardinality(EntriesOf(u))

LedgerInv == \A u \in Users : Reconciled(u)

LEMMA LedgerInit == Init => LedgerInv
<1> SUFFICES ASSUME Init, NEW u \in Users
             PROVE  Reconciled(u)
  BY DEF LedgerInv
<1>1. EntriesOf(u) = {}
  BY DEF Init, EntriesOf
<1>2. /\ Added(AvailableOf(u)) = {} /\ Deducted(AvailableOf(u)) = {}
      /\ Added(ReservedOf(u)) = {} /\ Deducted(ReservedOf(u)) = {}
  BY <1>1 DEF AvailableOf, ReservedOf, Added, Deducted
<1>3. available[u] = 0 /\ reserved[u] = 0 /\ version[u] = 0
  BY DEF Init
<1>4. QED
  BY <1>1, <1>2, <1>3, FS_EmptySet DEF Reconciled, Sound, AddsUp

\* The one way balances change: with a new entry that says so.
LEMMA PostReconciled ==
    ASSUME TypeInv, LedgerInv, NEW v \in Users, NEW op, NEW of,
           NEW a \in Int, NEW r \in Int, Post(v, op, of, a, r)
    PROVE  LedgerInv'
<1> SUFFICES ASSUME NEW u \in Users
             PROVE  Reconciled(u)'
  BY DEF LedgerInv
<1> DEFINE new == Entry(v, op, of, a, r)
<1>1. /\ new.user = v /\ new.op = op /\ new.of = of
      /\ new.available = a /\ new.reserved = r
  BY DEF Entry
<1>2. /\ ledger' = ledger \cup {new}
      /\ available' = [available EXCEPT ![v] = @ + a]
      /\ reserved' = [reserved EXCEPT ![v] = @ + r]
      /\ version' = [version EXCEPT ![v] = @ + 1]
      /\ \A e \in ledger : ~(e.user = v /\ e.op = op /\ e.of = of)
  BY DEF Post, Unused
<1> HIDE DEF new
<1>3. /\ available[u] \in Int /\ reserved[u] \in Int /\ version[u] \in Int
      /\ available' [u] = IF u = v THEN available[u] + a ELSE available[u]
      /\ reserved' [u] = IF u = v THEN reserved[u] + r ELSE reserved[u]
      /\ version' [u] = IF u = v THEN version[u] + 1 ELSE version[u]
  BY <1>2 DEF TypeInv, TypeOK
<1>4. Reconciled(u)
  BY DEF LedgerInv
<1>5. CASE u = v
  <2>1. EntriesOf(u)' = EntriesOf(u) \cup {new} /\ new \notin EntriesOf(u)
    BY <1>1, <1>2, <1>5 DEF EntriesOf
  <2>2. /\ AvailableOf(u)' = With(AvailableOf(u), new, a)
        /\ ReservedOf(u)' = With(ReservedOf(u), new, r)
        /\ new \notin DOMAIN AvailableOf(u) /\ new \notin DOMAIN ReservedOf(u)
    BY <1>1, <2>1 DEF AvailableOf, ReservedOf, With
  <2>3. /\ Sound(available[u] + a, With(AvailableOf(u), new, a))
        /\ Sound(reserved[u] + r, With(ReservedOf(u), new, r))
    BY <1>3, <1>4, <2>2, OneMoreIsSound DEF Reconciled
  <2>4. /\ Sound(available[u], AvailableOf(u))'
        /\ Sound(reserved[u], ReservedOf(u))'
    BY <1>3, <1>5, <2>2, <2>3 DEF Sound, AddsUp
  <2>5. /\ IsFiniteSet(EntriesOf(u)')
        /\ version'[u] = Cardinality(EntriesOf(u)')
    BY <1>3, <1>4, <1>5, <2>1, FS_AddElement, FS_CardinalityType DEF Reconciled
  <2>6. QED
    BY <2>4, <2>5 DEF Reconciled
<1>6. CASE u # v
  <2>1. EntriesOf(u)' = EntriesOf(u)
    BY <1>1, <1>2, <1>6 DEF EntriesOf
  <2>2. QED
    BY <1>3, <1>4, <1>6, <2>1
    DEF Reconciled, Sound, AddsUp, AvailableOf, ReservedOf
<1>7. QED
  BY <1>5, <1>6

LEMMA LedgerStep == TypeInv /\ LedgerInv /\ [Next]_vars => LedgerInv'
<1> SUFFICES ASSUME TypeInv, LedgerInv, [Next]_vars
             PROVE  LedgerInv'
  OBVIOUS
<1>1. CASE QuietStep
  BY <1>1 DEF QuietStep, credits, LedgerInv, Reconciled, Sound, AddsUp,
              AvailableOf, ReservedOf, EntriesOf
<1>2. CASE GrantStep
  BY <1>2, PostReconciled, BoundsAssumption DEF GrantStep
<1>3. CASE OpenStep
  BY <1>3, PostReconciled, RequestFields DEF OpenStep
<1>4. CASE EndStep
  <2>1. PICK r \in RunIds, op \in SettleOps :
          Active(r) /\ Post(Owner(r), op, r, Refund(r, op), -Cost(r))
    BY <1>4 DEF EndStep, Settle
  <2>2. Owner(r) \in Users /\ Cost(r) \in Nat
    BY <2>1, CreatedFields DEF Active, Created
  <2>3. Refund(r, op) \in Int /\ -Cost(r) \in Int
    BY <2>2 DEF Refund
  <2>4. QED
    BY <2>1, <2>2, <2>3, PostReconciled
<1>5. QED
  BY <1>1, <1>2, <1>3, <1>4, MoneySteps

(***************************************************************************)
(* reconcile_credits never finds an account whose balances or version its  *)
(* ledger does not add up to, whatever was done with runs and grants.      *)
(***************************************************************************)
THEOREM AccountsReconcile == Spec => []BalanceMatchesLedger
<1>1. LedgerInv => BalanceMatchesLedger
  BY DEF LedgerInv, Reconciled, Sound, AvailableOf, ReservedOf,
         BalanceMatchesLedger
<1>2. QED
  BY <1>1, TypeInit, TypeStep, LedgerInit, LedgerStep, PTL DEF Spec

-----------------------------------------------------------------------------
escrowOf == [r \in RunIds |-> EscrowOf(r)]

LEMMA EscrowInit == Init => Escrow!EscrowInit
BY DEF Init, Escrow!EscrowInit, Escrow!Nothing, EscrowOf, Created

LEMMA EscrowUnchanged ==
    ASSUME NEW p \in RunIds, Same(p), Captured(p)' <=> Captured(p)
    PROVE  EscrowOf(p)' = EscrowOf(p)
BY DEF Same, EscrowOf, Owner, Cost

LEMMA EscrowStep ==
    ASSUME TypeInv, SettledExactlyOnce, [Next]_vars
    PROVE  [Escrow!EscrowNext]_(Escrow!escrowVars)
<1>1. CASE QuietStep
  <2>1. escrowOf' = escrowOf
    BY <1>1, EscrowUnchanged DEF QuietStep, credits, Captured, escrowOf
  <2>2. QED
    BY <1>1, <2>1 DEF QuietStep, credits, Escrow!escrowVars, escrowOf
<1>2. CASE GrantStep
  <2>1. PICK u \in Users, c \in Correlations, q \in GrantSizes :
          /\ Post(u, "admin_grant", c, q, 0)
          /\ \A p \in RunIds : Same(p)
    BY <1>2 DEF GrantStep
  <2>2. \A p \in RunIds : Captured(p)' <=> Captured(p)
    BY <2>1 DEF Post, Entry, Captured
  <2>3. escrowOf' = escrowOf
    BY <2>1, <2>2, EscrowUnchanged DEF escrowOf
  <2>4. Escrow!Deposit(u, q)
    BY <2>1, <2>3 DEF Post, Escrow!Deposit, escrowOf
  <2>5. QED
    BY <2>4 DEF Escrow!EscrowNext
<1>3. CASE OpenStep
  <2>1. PICK r \in RunIds, q \in Request :
          /\ ~Created(r) /\ Created(r)' /\ Active(r)' /\ request'[r] = q
          /\ CanPay(q)
          /\ Post(q.user, "reserve", r, -Price[q.tool], Price[q.tool])
          /\ \A p \in RunIds \ {r} : Same(p)
    BY <1>3 DEF OpenStep
  <2>2. /\ q.user \in Users /\ q.tool \in Tools
        /\ Price[q.tool] \in Nat
    BY RequestFields
  <2>3. \A p \in RunIds \ {r} : EscrowOf(p)' = EscrowOf(p)
    <3>1. \A p \in RunIds : Captured(p)' <=> Captured(p)
      BY <2>1 DEF Post, Entry, Captured
    <3>2. QED
      BY <2>1, <3>1, EscrowUnchanged
  <2>4. /\ EscrowOf(r) = Escrow!Nothing
        /\ EscrowOf(r)' = Escrow!Holding(q.user, Price[q.tool])
    BY <2>1 DEF EscrowOf, Escrow!Nothing, Escrow!Holding, Owner, Cost
  <2>5. escrowOf' = [escrowOf EXCEPT ![r] =
                        Escrow!Holding(q.user, Price[q.tool])]
    BY <2>3, <2>4 DEF escrowOf
  <2>6. available' = [available EXCEPT ![q.user] = @ - Price[q.tool]]
    BY <2>1, <2>2 DEF Post, TypeInv, TypeOK
  <2>7. Escrow!Hold(q.user, r, Price[q.tool])
    BY <2>1, <2>4, <2>5, <2>6 DEF Escrow!Hold, CanPay, escrowOf
  <2>8. QED
    BY <2>2, <2>7 DEF Escrow!EscrowNext
<1>4. CASE EndStep
  <2>1. PICK r \in RunIds, op \in SettleOps :
          /\ Active(r) /\ Created(r)' /\ ~Active(r)' /\ request' = request
          /\ Post(Owner(r), op, r, Refund(r, op), -Cost(r))
          /\ \A p \in RunIds \ {r} : Same(p)
    BY <1>4 DEF EndStep, Settle
  <2>2. Created(r) /\ Owner(r) \in Users /\ Cost(r) \in Nat
    BY <2>1, CreatedFields DEF Active, Created
  <2> DEFINE new == Entry(Owner(r), op, r, Refund(r, op), -Cost(r))
  <2>3. /\ ledger' = ledger \cup {new}
        /\ new.op = op /\ new.of = r
    BY <2>1 DEF Post, Entry
  <2>4. /\ \A p \in RunIds \ {r} : Captured(p)' <=> Captured(p)
        /\ Captured(r)' <=> op = "capture"
    <3>1. ~Captured(r)
      BY <2>1, NotCapturedYet DEF Ended
    <3> HIDE DEF new
    <3>2. QED
      BY <2>3, <3>1 DEF Captured
  <2>5. \A p \in RunIds \ {r} : EscrowOf(p)' = EscrowOf(p)
    BY <2>1, <2>4, EscrowUnchanged
  <2>6. /\ EscrowOf(r) = [status |-> "held", payer |-> Owner(r),
                          price |-> Cost(r)]
        /\ EscrowOf(r)' =
             [status |-> IF op = "capture" THEN "kept" ELSE "returned",
              payer |-> Owner(r), price |-> Cost(r)]
    BY <2>1, <2>2, <2>4 DEF EscrowOf, Owner, Cost
  <2>7. escrowOf[r] = EscrowOf(r)
    BY DEF escrowOf
  <2>8. escrowOf' = [escrowOf EXCEPT ![r] = EscrowOf(r)']
    BY <2>5 DEF escrowOf
  <2>9. CASE op = "capture"
    <3>1. available' = available
      BY <2>1, <2>2, <2>9 DEF Post, Refund, TypeInv, TypeOK
    <3>2. escrowOf' = [escrowOf EXCEPT ![r].status = "kept"]
      <4>1. EscrowOf(r)' = [EscrowOf(r) EXCEPT !.status = "kept"]
        BY <2>6, <2>9
      <4>2. QED
        BY <2>7, <2>8, <4>1
    <3>3. Escrow!Keep(r)
      BY <2>6, <2>7, <3>1, <3>2 DEF Escrow!Keep, escrowOf
    <3>4. QED
      BY <3>3 DEF Escrow!EscrowNext
  <2>10. CASE op # "capture"
    <3>1. available' = [available EXCEPT ![escrowOf[r].payer] =
                            @ + escrowOf[r].price]
      BY <2>1, <2>6, <2>7, <2>10 DEF Post, Refund
    <3>2. escrowOf' = [escrowOf EXCEPT ![r].status = "returned"]
      <4>1. EscrowOf(r)' = [EscrowOf(r) EXCEPT !.status = "returned"]
        BY <2>6, <2>10
      <4>2. QED
        BY <2>7, <2>8, <4>1
    <3>3. Escrow!Return(r)
      BY <2>6, <2>7, <3>1, <3>2 DEF Escrow!Return, escrowOf
    <3>4. QED
      BY <3>3 DEF Escrow!EscrowNext
  <2>11. QED
    BY <2>9, <2>10
<1>5. QED
  BY <1>1, <1>2, <1>3, <1>4, MoneySteps

(***************************************************************************)
(* The store implements the credit escrow.                                 *)
(***************************************************************************)
THEOREM StoreImplementsEscrow == Spec => ImplementsEscrow
BY TypeInit, TypeStep, SettledInit, SettledStep, EscrowInit, EscrowStep, PTL
   DEF Spec, ImplementsEscrow, Escrow!EscrowSpec

-----------------------------------------------------------------------------
(***************************************************************************)
(* The store's work rather than its money: attempts, leases, uploads and   *)
(* artifacts.                                                              *)
(***************************************************************************)

\* Before its first claim a run has no attempt, no place and no artifact.
UntouchedBeforeClaim ==
    \A r \in RunIds :
        state[r] \in {"none", "pending"} =>
            /\ attempt[r].number = 0
            /\ attempt[r].lease = 0
            /\ ~attempt[r].submitted
            /\ reservation[r] = "none"
            /\ artifact[r] = "none"

LEMMA UntouchedInit == Init => UntouchedBeforeClaim
BY DEF Init, UntouchedBeforeClaim

\* What a run that waits for its first claim sees of any step but a tick.
Kept(p) == /\ state[p] \in {"none", "pending"}
           /\ attempt'[p] = attempt[p]
           /\ reservation'[p] = reservation[p]
           /\ artifact'[p] = artifact[p]

LEMMA UntouchedStep ==
    TypeInv /\ UntouchedBeforeClaim /\ [Next]_vars => UntouchedBeforeClaim'
<1> SUFFICES ASSUME TypeInv, UntouchedBeforeClaim, [Next]_vars,
                    NEW p \in RunIds, state'[p] \in {"none", "pending"}
             PROVE  /\ attempt'[p].number = 0
                    /\ attempt'[p].lease = 0
                    /\ ~attempt'[p].submitted
                    /\ reservation'[p] = "none"
                    /\ artifact'[p] = "none"
  BY DEF UntouchedBeforeClaim
<1> USE DEF TypeInv, TypeOK, RunStates
<1>1. ASSUME NEW u \in Users, NEW c \in Correlations, NEW q \in GrantSizes,
             GrantCredits(u, c, q)
      PROVE  Kept(p)
  BY <1>1 DEF GrantCredits, Kept
<1>2. ASSUME NEW u \in Users, NEW x \in Uploads, CreateUpload(u, x)
      PROVE  Kept(p)
  BY <1>2 DEF CreateUpload, Kept
<1>3. ASSUME NEW x \in Uploads,
             MarkUploadDeletionPending(x) \/ MarkUploadDeleted(x)
      PROVE  Kept(p)
  BY <1>3 DEF MarkUploadDeletionPending, MarkUploadDeleted, Kept
<1>4. CASE ListUploadsPendingDeletion
  <2>1. Kept(p)
    BY <1>4 DEF ListUploadsPendingDeletion, Kept
  <2>2. QED
    BY <2>1 DEF UntouchedBeforeClaim, Kept
<1>5. ASSUME NEW r \in RunIds, NEW q \in Request, CreateRun(r, q)
      PROVE  Kept(p)
  BY <1>5 DEF CreateRun, Created, Kept
<1>6. ASSUME NEW r \in RunIds, DeleteRun(r)
      PROVE  Kept(p)
  BY <1>6 DEF DeleteRun, ReleaseReservation, Kept
<1>7. ASSUME NEW t \in RunIds \cup {NoRun}, NEW r \in RunIds \cup {NoRun},
             ClaimPending(t, r)
      PROVE  Kept(p)
  <2>1. p # t /\ p # r
    BY <1>7 DEF ClaimPending
  <2>2. QED
    BY <1>7, <2>1 DEF ClaimPending, Kept
<1>8. ASSUME NEW r \in RunIds, NEW n \in 1 .. MaxAttempts,
             RenewLease(r, n) \/ MarkSubmitted(r, n)
      PROVE  Kept(p)
  BY <1>8 DEF RenewLease, MarkSubmitted, Current, Kept
<1>9. ASSUME NEW r \in RunIds, NEW n \in 1 .. MaxAttempts, CompleteRun(r, n)
      PROVE  Kept(p)
  BY <1>9 DEF CompleteRun, Current, Kept
<1>10. ASSUME NEW r \in RunIds, NEW n \in 1 .. MaxAttempts,
              NEW outcome \in {"failed", "provider_unknown"},
              FailRun(r, n, outcome)
       PROVE  Kept(p)
  BY <1>10 DEF FailRun, Current, ReleaseReservation, Kept
<1>11. ASSUME NEW r \in RunIds,
              MarkReservationDeleted(r) \/ MarkArtifactDeleted(r)
       PROVE  Kept(p)
  BY <1>11
     DEF MarkReservationDeleted, MarkArtifactDeleted, Kept, UntouchedBeforeClaim
<1>12. CASE Tick
  <2>1. /\ state' = state /\ reservation' = reservation /\ artifact' = artifact
        /\ attempt'[p] = [attempt[p] EXCEPT !.lease = Left(@)]
    BY <1>12 DEF Tick
  <2>2. attempt[p] \in Attempt /\ attempt[p].lease = 0
    BY <2>1 DEF UntouchedBeforeClaim
  <2>3. Left(attempt[p].lease) = 0
    BY <2>2 DEF Left
  <2>4. /\ attempt'[p].number = attempt[p].number
        /\ attempt'[p].lease = 0
        /\ attempt'[p].submitted = attempt[p].submitted
    BY <2>1, <2>2, <2>3 DEF Attempt
  <2>5. QED
    BY <2>1, <2>4 DEF UntouchedBeforeClaim
<1>13. CASE UNCHANGED vars
  BY <1>13 DEF vars, UntouchedBeforeClaim
<1>14. Kept(p) \/ Tick \/ UNCHANGED vars \/ ListUploadsPendingDeletion
  BY <1>1, <1>2, <1>3, <1>5, <1>6, <1>7, <1>8, <1>9, <1>10, <1>11 DEF Next
<1>15. CASE Kept(p)
  BY <1>15 DEF Kept, UntouchedBeforeClaim
<1>16. QED
  BY <1>4, <1>12, <1>13, <1>14, <1>15

-----------------------------------------------------------------------------
\* Only a claim makes an attempt.
LEMMA NumberKept ==
    ASSUME TypeInv, [Next]_vars, NEW r \in RunIds
    PROVE  \/ attempt'[r].number = attempt[r].number
           \/ \E t, c \in RunIds \cup {NoRun} : ClaimPending(t, c)
<1> USE DEF TypeInv, TypeOK
<1>1. CASE \/ \E u \in Users, c \in Correlations, q \in GrantSizes :
                 GrantCredits(u, c, q)
           \/ \E u \in Users, x \in Uploads : CreateUpload(u, x)
           \/ \E x \in Uploads : MarkUploadDeletionPending(x)
           \/ ListUploadsPendingDeletion
           \/ \E x \in Uploads : MarkUploadDeleted(x)
           \/ \E p \in RunIds, q \in Request : CreateRun(p, q)
           \/ \E p \in RunIds : DeleteRun(p)
           \/ \E p \in RunIds : MarkReservationDeleted(p)
           \/ \E p \in RunIds : MarkArtifactDeleted(p)
           \/ UNCHANGED vars
  BY <1>1 DEF GrantCredits, CreateUpload, MarkUploadDeletionPending,
         ListUploadsPendingDeletion, MarkUploadDeleted, CreateRun, DeleteRun,
         MarkReservationDeleted, MarkArtifactDeleted, vars
<1>2. ASSUME NEW p \in RunIds, NEW n \in 1 .. MaxAttempts,
             RenewLease(p, n) \/ MarkSubmitted(p, n)
      PROVE  attempt'[r].number = attempt[r].number
  BY <1>2 DEF RenewLease, MarkSubmitted, Attempt
<1>3. ASSUME NEW p \in RunIds, NEW n \in 1 .. MaxAttempts, CompleteRun(p, n)
      PROVE  attempt'[r].number = attempt[r].number
  BY <1>3 DEF CompleteRun, Attempt
<1>4. ASSUME NEW p \in RunIds, NEW n \in 1 .. MaxAttempts,
             NEW outcome \in {"failed", "provider_unknown"},
             FailRun(p, n, outcome)
      PROVE  attempt'[r].number = attempt[r].number
  BY <1>4 DEF FailRun, Attempt
<1>5. CASE Tick
  BY <1>5 DEF Tick, Attempt
<1>6. QED
  BY <1>1, <1>2, <1>3, <1>4, <1>5 DEF Next

LEMMA ReplacedOnlyWhenSafe ==
    ASSUME TypeInv, UntouchedBeforeClaim, [Next]_vars,
           NEW r \in RunIds, attempt'[r].number # attempt[r].number
    PROVE  /\ state[r] \in {"pending", "running"}
           /\ ~attempt[r].submitted
           /\ attempt[r].lease = 0
<1>1. PICK t \in RunIds \cup {NoRun}, c \in RunIds \cup {NoRun} :
        ClaimPending(t, c)
  BY NumberKept
<1>2. r = c
  BY <1>1 DEF ClaimPending, TypeInv, TypeOK, Attempt
<1>3. Claimable(r)
  BY <1>1, <1>2 DEF ClaimPending, RunIds, NoRun
<1>4. QED
  BY <1>3 DEF Claimable, Expired, UntouchedBeforeClaim

(***************************************************************************)
(* Once a run was submitted to a provider it is never handed out again.    *)
(***************************************************************************)
THEOREM SubmittedAtMostOnce == Spec => NoSecondSubmission
<1>1. TypeInv /\ UntouchedBeforeClaim /\ [Next]_vars =>
        [\A r \in RunIds :
          attempt'[r].number # attempt[r].number =>
              /\ state[r] \in {"pending", "running"}
              /\ ~attempt[r].submitted
              /\ attempt[r].lease = 0]_vars
  BY ReplacedOnlyWhenSafe
<1>2. QED
  BY <1>1, TypeInit, TypeStep, UntouchedInit, UntouchedStep, PTL
     DEF Spec, NoSecondSubmission

-----------------------------------------------------------------------------
LEMMA EndedStateKept ==
    ASSUME TypeInv, [Next]_vars, NEW r \in RunIds, Ended(r)
    PROVE  state'[r] \in {state[r], "deleted"}
<1> USE DEF TypeInv, TypeOK, Ended, Active, Created
<1>1. CASE \/ \E u \in Users, c \in Correlations, q \in GrantSizes :
                 GrantCredits(u, c, q)
           \/ \E u \in Users, x \in Uploads : CreateUpload(u, x)
           \/ \E x \in Uploads : MarkUploadDeletionPending(x)
           \/ ListUploadsPendingDeletion
           \/ \E x \in Uploads : MarkUploadDeleted(x)
           \/ \E p \in RunIds, n \in 1 .. MaxAttempts : RenewLease(p, n)
           \/ \E p \in RunIds, n \in 1 .. MaxAttempts : MarkSubmitted(p, n)
           \/ \E p \in RunIds : MarkReservationDeleted(p)
           \/ \E p \in RunIds : MarkArtifactDeleted(p)
           \/ Tick
           \/ UNCHANGED vars
  BY <1>1 DEF GrantCredits, CreateUpload, MarkUploadDeletionPending,
         ListUploadsPendingDeletion, MarkUploadDeleted, RenewLease,
         MarkSubmitted, MarkReservationDeleted, MarkArtifactDeleted, Tick, vars
<1>2. ASSUME NEW p \in RunIds, NEW q \in Request, CreateRun(p, q)
      PROVE  state'[r] = state[r]
  BY <1>2 DEF CreateRun
<1>3. ASSUME NEW p \in RunIds, DeleteRun(p)
      PROVE  state'[r] \in {state[r], "deleted"}
  BY <1>3 DEF DeleteRun
<1>4. ASSUME NEW t \in RunIds \cup {NoRun}, NEW c \in RunIds \cup {NoRun},
             ClaimPending(t, c)
      PROVE  state'[r] = state[r]
  <2>1. r # t /\ r # c
    BY <1>4 DEF ClaimPending, Abandoned, Claimable, Expired, NoRun, RunIds
  <2>2. QED
    BY <1>4, <2>1 DEF ClaimPending
<1>5. ASSUME NEW p \in RunIds, NEW n \in 1 .. MaxAttempts, CompleteRun(p, n)
      PROVE  state'[r] = state[r]
  BY <1>5 DEF CompleteRun, Current
<1>6. ASSUME NEW p \in RunIds, NEW n \in 1 .. MaxAttempts,
             NEW outcome \in {"failed", "provider_unknown"},
             FailRun(p, n, outcome)
      PROVE  state'[r] = state[r]
  BY <1>6 DEF FailRun, Current
<1>7. QED
  BY <1>1, <1>2, <1>3, <1>4, <1>5, <1>6 DEF Next

LEMMA EndedNumberKept ==
    ASSUME TypeInv, [Next]_vars, NEW r \in RunIds, Ended(r)
    PROVE  attempt'[r].number = attempt[r].number
<1>1. ASSUME NEW t \in RunIds \cup {NoRun}, NEW c \in RunIds \cup {NoRun},
             ClaimPending(t, c)
      PROVE  attempt'[r].number = attempt[r].number
  <2>1. r # t /\ r # c
    BY <1>1 DEF ClaimPending, Abandoned, Claimable, Expired, NoRun, RunIds,
                Ended, Active, Created
  <2>2. QED
    BY <1>1, <2>1 DEF ClaimPending
<1>2. QED
  BY <1>1, NumberKept

LEMMA EndedSettlementKept ==
    ASSUME TypeInv, [Next]_vars, NEW r \in RunIds, Ended(r)
    PROVE  SettlementOf(r)' = SettlementOf(r)
<1>1. CASE QuietStep
  BY <1>1 DEF QuietStep, credits, SettlementOf
<1>2. CASE GrantStep
  BY <1>2 DEF GrantStep, Post, Entry, SettlementOf, SettleOps
<1>3. CASE OpenStep
  BY <1>3 DEF OpenStep, Post, Entry, SettlementOf, SettleOps
<1>4. CASE EndStep
  <2>1. PICK p \in RunIds, op \in SettleOps :
          /\ Active(p)
          /\ ledger' = ledger \cup
               {Entry(Owner(p), op, p, Refund(p, op), -Cost(p))}
    BY <1>4 DEF EndStep, Settle, Post
  <2>2. p # r
    BY <2>1 DEF Ended
  <2>3. QED
    BY <2>1, <2>2 DEF Entry, SettlementOf
<1>5. QED
  BY <1>1, <1>2, <1>3, <1>4, MoneySteps

(***************************************************************************)
(* What has ended keeps its outcome and its settlement.                    *)
(***************************************************************************)
THEOREM OutcomesAreFinal == Spec => EndedIsFinal
<1>1. TypeInv /\ [Next]_vars =>
        [\A r \in RunIds :
          Ended(r) => /\ state'[r] \in {state[r], "deleted"}
                      /\ SettlementOf(r)' = SettlementOf(r)
                      /\ attempt'[r].number = attempt[r].number]_vars
  BY EndedStateKept, EndedNumberKept, EndedSettlementKept
<1>2. QED
  BY <1>1, TypeInit, TypeStep, PTL DEF Spec, EndedIsFinal

-----------------------------------------------------------------------------
\* An upload that was never made belongs to no run.
NoneIsUnbound == \A x \in Uploads :
                    upload[x].state = "none" => upload[x].bound = NoRun

UploadInv == NoneIsUnbound /\ ActiveRunKeepsUpload

LEMMA UploadInit == Init => UploadInv
BY DEF Init, UploadInv, NoneIsUnbound, ActiveRunKeepsUpload, Created

\* The upload of an existing run is one of the uploads.
LEMMA RunUpload ==
    ASSUME TypeInv, NEW p \in RunIds, Created(p), request[p].upload # NoUpload
    PROVE  request[p].upload \in Uploads
BY CreatedFields, RequestFields

\* ReleaseUploads(r) leaves every upload bound as it was, and those of other
\* runs entirely alone.
LEMMA ReleasedUploads ==
    ASSUME TypeOK, NEW r \in RunIds, upload' = ReleaseUploads(r),
           NEW x \in Uploads
    PROVE  /\ upload'[x].bound = upload[x].bound
           /\ upload'[x].state = "none" => upload[x].state = "none"
           /\ upload[x].bound # r => upload'[x] = upload[x]
BY DEF TypeOK, Upload, ReleaseUploads

\* A step that ends run r, or starts its work, and changes no upload but
\* its own.
LEMMA UploadKeptByRunStep ==
    ASSUME TypeInv, UploadInv, request' = request,
           NEW r \in RunIds, Created(r), Created(r)',
           Active(r)' => Active(r),
           upload' = upload \/ (upload' = ReleaseUploads(r) /\ ~Active(r)'),
           \A p \in RunIds \ {r} : state'[p] = state[p]
                                     \/ (Active(p) /\ Active(p)')
    PROVE  UploadInv'
<1>1. \A x \in Uploads :
        /\ upload'[x].bound = upload[x].bound
        /\ upload'[x].state = "none" => upload[x].state = "none"
        /\ upload[x].bound # r => upload'[x] = upload[x]
  BY ReleasedUploads DEF TypeInv
<1>2. NoneIsUnbound'
  BY <1>1 DEF UploadInv, NoneIsUnbound
<1>3. ASSUME NEW p \in RunIds, Created(p)', request'[p].upload # NoUpload
      PROVE  LET x == upload'[request'[p].upload]
             IN  x.bound = p /\ (Active(p)' => x.state = "available")
  <2>1. Created(p) /\ (p # r => (Active(p)' => Active(p)))
    BY <1>3 DEF Created, Active
  <2>2. request[p].upload \in Uploads
    BY <1>3, <2>1, RunUpload
  <2>3. /\ upload[request[p].upload].bound = p
        /\ Active(p) => upload[request[p].upload].state = "available"
    BY <1>3, <2>1 DEF UploadInv, ActiveRunKeepsUpload
  <2>4. QED
    BY <1>1, <2>1, <2>2, <2>3
<1>4. QED
  BY <1>2, <1>3 DEF UploadInv, ActiveRunKeepsUpload

\* A step that changes only uploads no run has taken.
LEMMA UploadKeptBySweep ==
    ASSUME TypeInv, UploadInv, state' = state, request' = request,
           NoneIsUnbound',
           \A x \in Uploads :
              upload[x].bound # NoRun =>
                 /\ upload'[x].bound = upload[x].bound
                 /\ upload[x].state = "available"
                      => upload'[x].state = "available"
    PROVE  UploadInv'
<1>1. ASSUME NEW p \in RunIds, Created(p), request[p].upload # NoUpload
      PROVE  /\ request[p].upload \in Uploads
             /\ upload[request[p].upload].bound = p
             /\ p # NoRun
             /\ Active(p) => upload[request[p].upload].state = "available"
  BY <1>1, RunUpload
     DEF UploadInv, ActiveRunKeepsUpload, RunIds, NoRun
<1>2. QED
  BY <1>1 DEF UploadInv, ActiveRunKeepsUpload, Created, Active

LEMMA UploadStep == TypeInv /\ UploadInv /\ [Next]_vars => UploadInv'
<1> SUFFICES ASSUME TypeInv, UploadInv, [Next]_vars
             PROVE  UploadInv'
  OBVIOUS
<1> USE DEF TypeInv
<1>1. CASE \/ \E u \in Users, c \in Correlations, q \in GrantSizes :
                 GrantCredits(u, c, q)
           \/ \E p \in RunIds, n \in 1 .. MaxAttempts : RenewLease(p, n)
           \/ \E p \in RunIds, n \in 1 .. MaxAttempts : MarkSubmitted(p, n)
           \/ \E p \in RunIds : MarkReservationDeleted(p)
           \/ \E p \in RunIds : MarkArtifactDeleted(p)
           \/ UNCHANGED vars
  <2>1. UNCHANGED <<state, request, upload>>
    BY <1>1 DEF GrantCredits, RenewLease, MarkSubmitted,
                MarkReservationDeleted, MarkArtifactDeleted, vars
  <2>2. QED
    BY <2>1, UploadKeptBySweep DEF UploadInv, NoneIsUnbound
<1>2. ASSUME NEW u \in Users, NEW x \in Uploads, CreateUpload(u, x)
      PROVE  UploadInv'
  <2>1. \A y \in Uploads :
          /\ upload'[y].bound = upload[y].bound
          /\ upload[y].bound # NoRun => upload'[y].state = upload[y].state
          /\ upload'[y].state = "none" => upload[y].state = "none"
    BY <1>2 DEF CreateUpload, Stale, UploadInv, NoneIsUnbound, TypeOK, Upload
  <2>2. QED
    BY <1>2, <2>1, UploadKeptBySweep DEF CreateUpload, UploadInv, NoneIsUnbound
<1>3. ASSUME NEW x \in Uploads,
             MarkUploadDeletionPending(x) \/ MarkUploadDeleted(x)
      PROVE  UploadInv'
  <2>1. \A y \in Uploads :
          /\ upload'[y].bound = upload[y].bound
          /\ upload[y].bound # NoRun /\ upload[y].state = "available"
                => upload'[y].state = "available"
          /\ upload'[y].state = "none" => upload[y].state = "none"
    BY <1>3 DEF MarkUploadDeletionPending, MarkUploadDeleted, TypeOK, Upload
  <2>2. UNCHANGED <<state, request>>
    BY <1>3 DEF MarkUploadDeletionPending, MarkUploadDeleted
  <2>3. QED
    BY <2>1, <2>2, UploadKeptBySweep DEF UploadInv, NoneIsUnbound
<1>4. CASE ListUploadsPendingDeletion
  <2>1. \A y \in Uploads :
          /\ upload'[y].bound = upload[y].bound
          /\ upload[y].bound # NoRun => upload'[y].state = upload[y].state
          /\ upload'[y].state = "none" => upload[y].state = "none"
    BY <1>4 DEF ListUploadsPendingDeletion, Stale, TypeOK, Upload
  <2>2. QED
    BY <1>4, <2>1, UploadKeptBySweep
       DEF ListUploadsPendingDeletion, UploadInv, NoneIsUnbound
<1>5. CASE Tick
  <2>1. \A y \in Uploads : /\ upload'[y].bound = upload[y].bound
                           /\ upload'[y].state = upload[y].state
    BY <1>5 DEF Tick, TypeOK, Upload
  <2>2. QED
    BY <1>5, <2>1, UploadKeptBySweep DEF Tick, UploadInv, NoneIsUnbound
<1>6. ASSUME NEW r \in RunIds, NEW q \in Request, CreateRun(r, q)
      PROVE  UploadInv'
  <2>1. /\ ~Created(r) /\ request'[r] = q
        /\ \A p \in RunIds \ {r} : /\ state'[p] = state[p]
                                   /\ request'[p] = request[p]
    BY <1>6 DEF CreateRun, TypeOK
  <2>2. q.upload # NoUpload =>
          /\ q.upload \in Uploads
          /\ upload[q.upload].bound = NoRun
          /\ upload[q.upload].state = "available"
          /\ upload' = [upload EXCEPT ![q.upload].bound = r]
    BY <1>6, RequestFields DEF CreateRun, Usable
  <2>3. q.upload = NoUpload => upload' = upload
    BY <1>6 DEF CreateRun
  <2>4. NoneIsUnbound'
    BY <2>2, <2>3 DEF UploadInv, NoneIsUnbound, TypeOK, Upload
  <2>5. ASSUME NEW p \in RunIds \ {r}, Created(p), request[p].upload # NoUpload
        PROVE  /\ request[p].upload \in Uploads
               /\ upload[request[p].upload].bound = p
               /\ p # NoRun
               /\ Active(p) => upload[request[p].upload].state = "available"
    BY <2>5, RunUpload
       DEF UploadInv, ActiveRunKeepsUpload, RunIds, NoRun
  <2>6. ASSUME NEW p \in RunIds \ {r}, Created(p), request[p].upload # NoUpload
        PROVE  upload'[request[p].upload] = upload[request[p].upload]
    BY <2>2, <2>3, <2>5, <2>6 DEF TypeOK
  <2>7. q.upload # NoUpload => /\ upload'[q.upload].bound = r
                               /\ upload'[q.upload].state = "available"
    BY <2>2 DEF TypeOK, Upload
  <2>8. QED
    BY <2>1, <2>4, <2>5, <2>6, <2>7
       DEF UploadInv, ActiveRunKeepsUpload, Created, Active
<1>7. ASSUME NEW r \in RunIds, DeleteRun(r)
      PROVE  UploadInv'
  BY <1>7, UploadKeptByRunStep DEF DeleteRun, Created, Active, TypeOK
<1>8. ASSUME NEW t \in RunIds \cup {NoRun}, NEW r \in RunIds \cup {NoRun},
             ClaimPending(t, r)
      PROVE  UploadInv'
  <2>1. \A p \in RunIds \ {t} : state'[p] = state[p]
                                  \/ (Active(p) /\ Active(p)')
    BY <1>8 DEF ClaimPending, Claimable, Expired, Active, NoRun, RunIds
  <2>2. CASE t = NoRun
    <3>1. r \in RunIds /\ Created(r) /\ Created(r)' /\ Active(r)
      BY <1>8, <2>2 DEF ClaimPending, Claimable, Expired, Active, Created,
                        NoRun, RunIds
    <3>2. upload' = upload /\ request' = request
      BY <1>8, <2>2 DEF ClaimPending
    <3>3. \A p \in RunIds \ {r} : state'[p] = state[p]
                                    \/ (Active(p) /\ Active(p)')
      BY <2>1, <2>2 DEF NoRun, RunIds
    <3>4. QED
      BY <3>1, <3>2, <3>3, UploadKeptByRunStep
  <2>3. CASE t # NoRun
    <3>1. t \in RunIds /\ Created(t) /\ Created(t)' /\ ~Active(t)'
      BY <1>8, <2>3 DEF ClaimPending, Abandoned, Expired, Active, Created
    <3>2. upload' = ReleaseUploads(t) /\ request' = request
      BY <1>8, <2>3 DEF ClaimPending
    <3>3. QED
      BY <2>1, <3>1, <3>2, UploadKeptByRunStep
  <2>4. QED
    BY <2>2, <2>3
<1>9. ASSUME NEW r \in RunIds, NEW n \in 1 .. MaxAttempts, CompleteRun(r, n)
      PROVE  UploadInv'
  BY <1>9, UploadKeptByRunStep DEF CompleteRun, Current, Created, Active, TypeOK
<1>10. ASSUME NEW r \in RunIds, NEW n \in 1 .. MaxAttempts,
              NEW outcome \in {"failed", "provider_unknown"},
              FailRun(r, n, outcome)
       PROVE  UploadInv'
  BY <1>10, UploadKeptByRunStep DEF FailRun, Current, Created, Active, TypeOK
<1>11. QED
  BY <1>1, <1>2, <1>3, <1>4, <1>5, <1>6, <1>7, <1>8, <1>9, <1>10 DEF Next

(***************************************************************************)
(* The upload a run reads is its own, and stays until the run has ended.   *)
(***************************************************************************)
THEOREM UploadsOutliveRuns == Spec => []ActiveRunKeepsUpload
<1>1. UploadInv => ActiveRunKeepsUpload
  BY DEF UploadInv
<1>2. QED
  BY <1>1, TypeInit, TypeStep, UploadInit, UploadStep, PTL DEF Spec

-----------------------------------------------------------------------------
LEMMA PlaceInit == Init => PlaceKeptForArtifact
BY DEF Init, PlaceKeptForArtifact

\* What PlaceKeptForArtifact says of one run.
PlaceKept(r) ==
    /\ state[r] = "running" /\ IsImageRun(r) => reservation[r] = "reserved"
    /\ reservation[r] \in {"pending", "deleted"}
            => Ended(r) /\ artifact[r] = "none"
    /\ artifact[r] = "available"
            => state[r] = "succeeded" /\ reservation[r] = "committed"
    /\ artifact[r] # "none" => reservation[r] = "committed"

LEMMA PlaceStep ==
    TypeInv /\ UntouchedBeforeClaim /\ PlaceKeptForArtifact /\ [Next]_vars
        => PlaceKeptForArtifact'
<1> SUFFICES ASSUME TypeInv, UntouchedBeforeClaim, PlaceKeptForArtifact,
                    [Next]_vars, NEW p \in RunIds
             PROVE  PlaceKept(p)'
  BY DEF PlaceKeptForArtifact, PlaceKept
<1>0. PlaceKept(p)
  BY DEF PlaceKeptForArtifact, PlaceKept
<1> USE DEF TypeInv, TypeOK, PlaceKept, IsImageRun, Ended, Active, Created
<1>1. CASE \/ \E u \in Users, c \in Correlations, q \in GrantSizes :
                 GrantCredits(u, c, q)
           \/ \E u \in Users, x \in Uploads : CreateUpload(u, x)
           \/ \E x \in Uploads : MarkUploadDeletionPending(x)
           \/ ListUploadsPendingDeletion
           \/ \E x \in Uploads : MarkUploadDeleted(x)
           \/ \E r \in RunIds, n \in 1 .. MaxAttempts : RenewLease(r, n)
           \/ \E r \in RunIds, n \in 1 .. MaxAttempts : MarkSubmitted(r, n)
           \/ Tick
           \/ UNCHANGED vars
  <2>1. UNCHANGED <<state, request, reservation, artifact>>
    BY <1>1 DEF GrantCredits, CreateUpload, MarkUploadDeletionPending,
                ListUploadsPendingDeletion, MarkUploadDeleted, RenewLease,
                MarkSubmitted, Tick, vars
  <2>2. QED
    BY <1>0, <2>1
<1>2. ASSUME NEW r \in RunIds, NEW q \in Request, CreateRun(r, q)
      PROVE  PlaceKept(p)'
  <2>1. UNCHANGED <<reservation, artifact>>
    BY <1>2 DEF CreateRun
  <2>2. CASE p = r
    <3>1. reservation[p] = "none" /\ artifact[p] = "none"
      BY <1>2, <2>2 DEF CreateRun, UntouchedBeforeClaim
    <3>2. state'[p] = "pending"
      BY <1>2, <2>2 DEF CreateRun
    <3>3. QED
      BY <2>1, <3>1, <3>2
  <2>3. CASE p # r
    <3>1. state'[p] = state[p] /\ request'[p] = request[p]
      BY <1>2, <2>3 DEF CreateRun
    <3>2. QED
      BY <1>0, <2>1, <3>1
  <2>4. QED
    BY <2>2, <2>3
<1>3. ASSUME NEW r \in RunIds, DeleteRun(r)
      PROVE  PlaceKept(p)'
  BY <1>0, <1>3 DEF DeleteRun, ReleaseReservation, UntouchedBeforeClaim
<1>4. ASSUME NEW t \in RunIds \cup {NoRun}, NEW r \in RunIds \cup {NoRun},
             ClaimPending(t, r)
      PROVE  PlaceKept(p)'
  <2>1. UNCHANGED <<request, artifact>>
    BY <1>4 DEF ClaimPending
  <2>2. CASE p = t
    <3>1. /\ state[p] = "running" /\ state'[p] = "provider_unknown"
          /\ reservation'[p] = ReleaseReservation(p)[p]
      BY <1>4, <2>2 DEF ClaimPending, Abandoned, Expired, NoRun, RunIds
    <3>2. QED
      BY <1>0, <2>1, <3>1 DEF ReleaseReservation
  <2>3. CASE p # t /\ p = r
    <3>1. Claimable(p)
      BY <1>4, <2>3 DEF ClaimPending, NoRun, RunIds
    <3>2. /\ state'[p] = "running"
          /\ reservation'[p] = IF request[p].tool \in ImageTools
                                    /\ reservation[p] = "none"
                               THEN "reserved" ELSE reservation[p]
      BY <1>4, <2>3 DEF ClaimPending
    <3>3. QED
      BY <1>0, <2>1, <3>1, <3>2 DEF Claimable, Expired, UntouchedBeforeClaim
  <2>4. CASE p # t /\ p # r
    BY <1>0, <1>4, <2>1, <2>4 DEF ClaimPending
  <2>5. QED
    BY <2>2, <2>3, <2>4
<1>5. ASSUME NEW r \in RunIds, NEW n \in 1 .. MaxAttempts, CompleteRun(r, n)
      PROVE  PlaceKept(p)'
  BY <1>0, <1>5 DEF CompleteRun, Current
<1>6. ASSUME NEW r \in RunIds, NEW n \in 1 .. MaxAttempts,
             NEW outcome \in {"failed", "provider_unknown"},
             FailRun(r, n, outcome)
      PROVE  PlaceKept(p)'
  BY <1>0, <1>6 DEF FailRun, Current, ReleaseReservation
<1>7. ASSUME NEW r \in RunIds,
             MarkReservationDeleted(r) \/ MarkArtifactDeleted(r)
      PROVE  PlaceKept(p)'
  BY <1>0, <1>7 DEF MarkReservationDeleted, MarkArtifactDeleted
<1>8. QED
  BY <1>1, <1>2, <1>3, <1>4, <1>5, <1>6, <1>7 DEF Next

(***************************************************************************)
(* The key an image is written under is a running run's own.               *)
(***************************************************************************)
THEOREM PlacesAreKept == Spec => []PlaceKeptForArtifact
BY TypeInit, TypeStep, UntouchedInit, UntouchedStep, PlaceInit, PlaceStep, PTL
   DEF Spec

-----------------------------------------------------------------------------
LEMMA ChargedInit == Init => ChargedOnlyForResult
BY DEF Init, ChargedOnlyForResult, Charged, IsImageRun, Created, Captured

LEMMA PostCaptures ==
    ASSUME NEW u, NEW op, NEW of, NEW a, NEW b, Post(u, op, of, a, b), NEW p
    PROVE  Captured(p)' <=> Captured(p) \/ (op = "capture" /\ of = p)
<1> DEFINE new == Entry(u, op, of, a, b)
<1>1. ledger' = ledger \cup {new}
  BY DEF Post
<1>2. new.op = op /\ new.of = of
  BY DEF Entry
<1> HIDE DEF new
<1>3. QED
  BY <1>1, <1>2 DEF Captured

\* A settlement of run r that is no capture captures nothing.
LEMMA SettleCaptures ==
    ASSUME NEW r, NEW op, NEW refund, Settle(r, op, refund), NEW p
    PROVE  Captured(p)' <=> Captured(p) \/ (op = "capture" /\ r = p)
BY PostCaptures DEF Settle

LEMMA ChargedStep ==
    TypeInv /\ SettledExactlyOnce /\ UntouchedBeforeClaim
            /\ PlaceKeptForArtifact /\ ChargedOnlyForResult /\ [Next]_vars
        => ChargedOnlyForResult'
<1> SUFFICES ASSUME TypeInv, SettledExactlyOnce, UntouchedBeforeClaim,
                    PlaceKeptForArtifact, ChargedOnlyForResult,
                    [Next]_vars, NEW p \in RunIds
             PROVE  Charged(p)'
  BY DEF ChargedOnlyForResult
<1>0. /\ Charged(p)
      /\ ~Created(p) \/ Active(p) => ~Captured(p)
      /\ ~Created(p) \/ (Active(p) /\ IsImageRun(p)) => artifact[p] = "none"
  <2>1. Charged(p)
    BY DEF ChargedOnlyForResult
  <2>2. ~Created(p) \/ Active(p) => ~Captured(p)
    BY NotCapturedYet DEF Ended
  <2>3. ~Created(p) \/ (Active(p) /\ IsImageRun(p)) => artifact[p] = "none"
    BY DEF UntouchedBeforeClaim, PlaceKeptForArtifact, Created, Active
  <2>4. QED
    BY <2>1, <2>2, <2>3
<1>1. CASE \/ \E u \in Users, x \in Uploads : CreateUpload(u, x)
           \/ \E x \in Uploads : MarkUploadDeletionPending(x)
           \/ ListUploadsPendingDeletion
           \/ \E x \in Uploads : MarkUploadDeleted(x)
           \/ \E r \in RunIds : MarkReservationDeleted(r)
           \/ UNCHANGED vars
  <2>1. UNCHANGED <<ledger, state, request, attempt, artifact>>
    BY <1>1 DEF CreateUpload, MarkUploadDeletionPending,
                ListUploadsPendingDeletion, MarkUploadDeleted,
                MarkReservationDeleted, vars, credits
  <2>2. QED
    BY <1>0, <2>1 DEF Charged, Captured, IsImageRun, Created
<1>2. CASE \/ Tick
           \/ \E r \in RunIds, n \in 1 .. MaxAttempts : RenewLease(r, n)
           \/ \E r \in RunIds, n \in 1 .. MaxAttempts : MarkSubmitted(r, n)
  <2>1. UNCHANGED <<ledger, state, request, artifact>>
    BY <1>2 DEF Tick, RenewLease, MarkSubmitted, credits
  <2>2. attempt'[p].number = attempt[p].number
    BY <1>2 DEF Tick, RenewLease, MarkSubmitted, TypeInv, TypeOK, Attempt
  <2>3. QED
    BY <1>0, <2>1, <2>2 DEF Charged, Captured, IsImageRun, Created
<1>3. ASSUME NEW u \in Users, NEW c \in Correlations, NEW q \in GrantSizes,
             GrantCredits(u, c, q)
      PROVE  Charged(p)'
  <2>1. Captured(p)' <=> Captured(p)
    BY <1>3, PostCaptures DEF GrantCredits
  <2>2. QED
    BY <1>0, <1>3, <2>1 DEF GrantCredits, Charged, IsImageRun, Created
<1>4. ASSUME NEW r \in RunIds, NEW q \in Request, CreateRun(r, q)
      PROVE  Charged(p)'
  <2>1. Captured(p)' <=> Captured(p)
    BY <1>4, PostCaptures DEF CreateRun
  <2>2. UNCHANGED <<attempt, artifact>>
    BY <1>4 DEF CreateRun
  <2>3. \/ p # r /\ state'[p] = state[p] /\ request'[p] = request[p]
        \/ p = r /\ ~Created(p) /\ state'[p] = "pending"
    BY <1>4 DEF CreateRun, TypeInv, TypeOK
  <2>4. QED
    BY <1>0, <2>1, <2>2, <2>3 DEF Charged, IsImageRun, Created
<1>5. ASSUME NEW r \in RunIds, DeleteRun(r)
      PROVE  Charged(p)'
  <2>1. Captured(p)' <=> Captured(p)
    <3>1. CASE state[r] = "pending"
      BY <1>5, <3>1, SettleCaptures DEF DeleteRun
    <3>2. CASE state[r] # "pending"
      BY <1>5, <3>2 DEF DeleteRun, Captured, credits
    <3>3. QED
      BY <3>1, <3>2
  <2>2. /\ UNCHANGED <<attempt, request>>
        /\ Created(p)' <=> Created(p)
        /\ state'[p] = state[p] \/ state'[p] = "deleted"
        /\ artifact'[p] = "none" <=> artifact[p] = "none"
    BY <1>5 DEF DeleteRun, Created, TypeInv, TypeOK
  <2>3. QED
    BY <1>0, <2>1, <2>2 DEF Charged, IsImageRun
<1>6. ASSUME NEW t \in RunIds \cup {NoRun}, NEW r \in RunIds \cup {NoRun},
             ClaimPending(t, r)
      PROVE  Charged(p)'
  <2>1. Captured(p)' <=> Captured(p)
    BY <1>6, SettleCaptures DEF ClaimPending, Captured, credits
  <2>2. UNCHANGED <<request, artifact>>
    BY <1>6 DEF ClaimPending
  <2>3. CASE p # t /\ p # r
    BY <1>0, <1>6, <2>1, <2>2, <2>3
       DEF ClaimPending, Charged, IsImageRun, Created
  <2>4. CASE p = t
    <3>1. Active(p) /\ state'[p] = "provider_unknown"
      BY <1>6, <2>4 DEF ClaimPending, Abandoned, Expired, Active, NoRun, RunIds
    <3>2. QED
      BY <1>0, <2>1, <2>2, <3>1 DEF Charged, IsImageRun, Created, Active
  <2>5. CASE p # t /\ p = r
    <3>1. Active(p) /\ state'[p] = "running"
      BY <1>6, <2>5 DEF ClaimPending, Claimable, Expired, Active, NoRun, RunIds
    <3>2. QED
      BY <1>0, <2>1, <2>2, <3>1 DEF Charged, IsImageRun, Created, Active
  <2>6. QED
    BY <2>3, <2>4, <2>5
<1>7. ASSUME NEW r \in RunIds, NEW n \in 1 .. MaxAttempts, CompleteRun(r, n)
      PROVE  Charged(p)'
  <2>1. Captured(p)' <=> Captured(p) \/ r = p
    BY <1>7, SettleCaptures DEF CompleteRun
  <2>2. request' = request
    BY <1>7 DEF CompleteRun
  <2>3. CASE p # r
    <3>1. /\ state'[p] = state[p] /\ attempt'[p] = attempt[p]
          /\ artifact'[p] = artifact[p]
      BY <1>7, <2>3 DEF CompleteRun, TypeInv, TypeOK
    <3>2. QED
      BY <1>0, <2>1, <2>2, <2>3, <3>1 DEF Charged, IsImageRun, Created
  <2>4. CASE p = r
    <3>1. state'[p] = "succeeded" /\ attempt'[p].number = n
      BY <1>7, <2>4 DEF CompleteRun, Current, TypeInv, TypeOK, Attempt
    <3>2. request[p].tool \in ImageTools => artifact'[p] = "available"
      BY <1>7, <2>4 DEF CompleteRun, TypeInv, TypeOK
    <3>3. QED
      BY <2>1, <2>2, <2>4, <3>1, <3>2 DEF Charged, IsImageRun
  <2>5. QED
    BY <2>3, <2>4
<1>8. ASSUME NEW r \in RunIds, NEW n \in 1 .. MaxAttempts,
             NEW outcome \in {"failed", "provider_unknown"},
             FailRun(r, n, outcome)
      PROVE  Charged(p)'
  <2>1. Captured(p)' <=> Captured(p)
    BY <1>8, SettleCaptures DEF FailRun
  <2>2. UNCHANGED <<request, artifact>>
    BY <1>8 DEF FailRun
  <2>3. CASE p # r
    <3>1. state'[p] = state[p] /\ attempt'[p] = attempt[p]
      BY <1>8, <2>3 DEF FailRun
    <3>2. QED
      BY <1>0, <2>1, <2>2, <3>1 DEF Charged, IsImageRun, Created
  <2>4. CASE p = r
    <3>1. Active(p) /\ state'[p] = outcome
      BY <1>8, <2>4 DEF FailRun, Current, Active, TypeInv, TypeOK
    <3>2. QED
      BY <1>0, <2>1, <2>2, <3>1 DEF Charged, IsImageRun, Created, Active
  <2>5. QED
    BY <2>3, <2>4
<1>9. ASSUME NEW r \in RunIds, MarkArtifactDeleted(r)
      PROVE  Charged(p)'
  <2>1. /\ UNCHANGED <<ledger, state, request, attempt>>
        /\ artifact'[p] = "none" <=> artifact[p] = "none"
    BY <1>9 DEF MarkArtifactDeleted, credits, TypeInv, TypeOK
  <2>2. QED
    BY <1>0, <2>1 DEF Charged, Captured, IsImageRun, Created
<1>10. QED
  BY <1>1, <1>2, <1>3, <1>4, <1>5, <1>6, <1>7, <1>8, <1>9 DEF Next

(***************************************************************************)
(* Users pay for results, and for nothing else.                            *)
(***************************************************************************)
THEOREM ResultsAreWhatIsPaid == Spec => []ChargedOnlyForResult
BY TypeInit, TypeStep, SettledInit, SettledStep, UntouchedInit, UntouchedStep,
   PlaceInit, PlaceStep, ChargedInit, ChargedStep, PTL DEF Spec

-----------------------------------------------------------------------------
LEMMA LimitsInit == Init => ActiveRunsWithinLimits
<1> SUFFICES ASSUME Init
             PROVE  ActiveRunsWithinLimits
  OBVIOUS
<1>1. ActiveRuns = {} /\ \A u \in Users : ActiveOf(u) = {}
  BY DEF Init, ActiveRuns, ActiveOf, Active
<1>2. QED
  BY <1>1, FS_EmptySet, BoundsAssumption DEF ActiveRunsWithinLimits

LEMMA ActiveFinite ==
    /\ IsFiniteSet(ActiveRuns)
    /\ \A u \in Users : IsFiniteSet(ActiveOf(u))
<1>1. IsFiniteSet(RunIds)
  BY FS_Interval, BoundsAssumption DEF RunIds
<1>2. ActiveRuns \subseteq RunIds /\ \A u \in Users : ActiveOf(u) \subseteq RunIds
  BY DEF ActiveRuns, ActiveOf
<1>3. QED
  BY <1>1, <1>2, FS_Subset

\* Fewer members stay within a limit; one more than fewer-than does too.
LEMMA WithinLimit ==
    ASSUME NEW S, IsFiniteSet(S), NEW limit \in Nat, NEW T,
           \/ T \subseteq S /\ Cardinality(S) <= limit
           \/ (\E x : T \subseteq S \cup {x}) /\ Cardinality(S) < limit
    PROVE  Cardinality(T) <= limit
<1>1. Cardinality(S) \in Nat
  BY FS_CardinalityType
<1>2. CASE T \subseteq S /\ Cardinality(S) <= limit
  <2>1. Cardinality(T) <= Cardinality(S) /\ IsFiniteSet(T)
    BY <1>2, FS_Subset
  <2>2. Cardinality(T) \in Nat
    BY <2>1, FS_CardinalityType
  <2>3. QED
    BY <1>1, <1>2, <2>1, <2>2
<1>3. ASSUME NEW x, T \subseteq S \cup {x}, Cardinality(S) < limit
      PROVE  Cardinality(T) <= limit
  <2>1. /\ IsFiniteSet(S \cup {x})
        /\ Cardinality(S \cup {x}) <= Cardinality(S) + 1
    BY <1>1, FS_AddElement
  <2>2. /\ IsFiniteSet(T)
        /\ Cardinality(T) <= Cardinality(S \cup {x})
    BY <1>3, <2>1, FS_Subset
  <2>3. Cardinality(T) \in Nat /\ Cardinality(S \cup {x}) \in Nat
    BY <2>1, <2>2, FS_CardinalityType
  <2>4. QED
    BY <1>1, <1>3, <2>1, <2>2, <2>3
<1>4. QED
  BY <1>2, <1>3

LEMMA LimitsStep ==
    TypeInv /\ ActiveRunsWithinLimits /\ [Next]_vars
        => ActiveRunsWithinLimits'
<1> SUFFICES ASSUME TypeInv, ActiveRunsWithinLimits, [Next]_vars
             PROVE  /\ Cardinality(ActiveRuns') <= GlobalRunLimit
                    /\ \A u \in Users :
                          Cardinality(ActiveOf(u)') <= UserRunLimit
  BY DEF ActiveRunsWithinLimits
<1>0. GlobalRunLimit \in Nat /\ UserRunLimit \in Nat
  BY BoundsAssumption
<1>1. CASE QuietStep \/ GrantStep \/ EndStep
  <2>1. \A p \in RunIds : Active(p)' => Active(p) /\ Owner(p)' = Owner(p)
    BY <1>1 DEF QuietStep, GrantStep, EndStep, Same, Owner
  <2>2. /\ ActiveRuns' \subseteq ActiveRuns
        /\ \A u \in Users : ActiveOf(u)' \subseteq ActiveOf(u)
    BY <2>1 DEF ActiveRuns, ActiveOf
  <2>3. QED
    BY <1>0, <2>2, ActiveFinite, WithinLimit DEF ActiveRunsWithinLimits
<1>2. CASE OpenStep
  <2>1. PICK r \in RunIds, q \in Request :
          /\ HasRoom(q.user) /\ request'[r] = q
          /\ \A p \in RunIds \ {r} : Same(p)
    BY <1>2 DEF OpenStep
  <2>2. /\ ActiveRuns' \subseteq ActiveRuns \cup {r}
        /\ \A u \in Users :
              /\ ActiveOf(u)' \subseteq ActiveOf(u) \cup {r}
              /\ u # q.user => ActiveOf(u)' \subseteq ActiveOf(u)
    BY <2>1 DEF ActiveRuns, ActiveOf, Same, Owner
  <2>3. /\ Cardinality(ActiveRuns) < GlobalRunLimit
        /\ Cardinality(ActiveOf(q.user)) < UserRunLimit
    BY <2>1 DEF HasRoom
  <2>4. Cardinality(ActiveRuns') <= GlobalRunLimit
    BY <1>0, <2>2, <2>3, ActiveFinite, WithinLimit
  <2>5. ASSUME NEW u \in Users
        PROVE  Cardinality(ActiveOf(u)') <= UserRunLimit
    BY <1>0, <2>2, <2>3, ActiveFinite, WithinLimit DEF ActiveRunsWithinLimits
  <2>6. QED
    BY <2>4, <2>5
<1>3. QED
  BY <1>1, <1>2, MoneySteps

(***************************************************************************)
(* The queue never outgrows its limits.                                    *)
(***************************************************************************)
THEOREM QueueIsBounded == Spec => []ActiveRunsWithinLimits
BY TypeInit, TypeStep, LimitsInit, LimitsStep, PTL DEF Spec

=============================================================================
