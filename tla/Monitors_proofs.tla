-------------------------- MODULE Monitors_proofs --------------------------
(***************************************************************************)
(* Theorems about project monitoring, for any number of projects and       *)
(* threads, any lease, cadence, table of retry delays and history limit.   *)
(***************************************************************************)
EXTENDS Monitors, FiniteSetTheorems, TLAPS

\* The rows kept are the newest, and no two have the same number.
RowsNumbered ==
    \A p \in Projects :
        /\ \A r \in runs[p] : r.id <= saved[p] /\ saved[p] < r.id + MaxRuns
        /\ \A r, s \in runs[p] : r.id = s.id => r = s

\* The thread whose token the monitor bears compares with the latest
\* successful run.
HolderKnowsLatest ==
    \A t \in Threads, p \in Projects :
        /\ work[t].at = "auditing"
        /\ work[t].project = p
        /\ monitor[p].token = t
        => \A s \in runs[p] : s.status # "failed" => s.id <= work[t].base

\* A change takes the token away from the run that was under way.
ChangedIsTokenless ==
    \A t \in Threads, p \in Projects :
        work[t].project = p /\ work[t].changed => monitor[p].token # t

\* Without a monitor there is nothing enabled and nothing leased.
AbsentIsFree ==
    \A p \in Projects :
        ~monitor[p].exists => ~monitor[p].enabled /\ monitor[p].token = Nobody

MonitorInv ==
    /\ MonitorTypeOK
    /\ AbsentIsFree
    /\ EnabledIsScheduled
    /\ RunningIsLeased
    /\ RowsNumbered
    /\ ComparedWithPredecessor
    /\ HolderKnowsLatest
    /\ ChangedIsTokenless

-----------------------------------------------------------------------------
MonitorRow == [exists : BOOLEAN, enabled : BOOLEAN,
               status : {"pending", "running"} \cup Outcomes,
               due : (-MaxLate) .. Never, failures : 0 .. MaxFailures,
               token : Threads \cup {Nobody}, lease : 0 .. Lease]
WorkRow == [at : {"idle", "claimed", "auditing"},
            project : Projects \cup {NoProject}, base : Nat,
            changed : BOOLEAN]

LEMMA MonitorTypes ==
    ASSUME MonitorTypeOK
    PROVE  /\ monitor \in [Projects -> MonitorRow]
           /\ work \in [Threads -> WorkRow]
BY DEF MonitorTypeOK, MonitorRow, WorkRow

LEMMA IntervalsPast ==
    ASSUME NEW n \in Nat, NEW i \in Nat \ {0}
    PROVE  /\ n \div i \in Int
           /\ n - i * (n \div i) \in 0 .. i - 1
<1>1. n \div i \in Int
  OBVIOUS
<1>2. n = i * (n \div i) + (n % i) /\ n % i \in 0 .. i - 1
  OBVIOUS
<1>3. QED
  BY <1>1, <1>2

\* The times a save can set are times a monitor can have.
LEMMA NextRunType ==
    ASSUME MonitorTypeOK, EnabledIsScheduled,
           NEW p \in Projects, NEW s \in Outcomes
    PROVE  /\ NextRun(p, s) \in (-MaxLate) .. Never
           /\ (NextRun(p, s) = Never) <=> ~monitor[p].enabled
           /\ Failures(p, s) \in 0 .. MaxFailures
<1>1. /\ monitor[p] \in MonitorRow
      /\ monitor[p].failures \in 0 .. MaxFailures
      /\ monitor[p].due \in (-MaxLate) .. Never
  BY MonitorTypes DEF MonitorRow
<1>2. /\ Failures(p, s) \in 0 .. MaxFailures
      /\ s = "failed" => Failures(p, s) \in 1 .. MaxFailures
  BY <1>1, MonitorAssumption DEF Failures
<1>3. s = "failed" => RetryAfter[Failures(p, s)] \in 1 .. Interval
  BY <1>2, MonitorAssumption
<1>4. /\ NextScheduled(monitor[p].due) \in 1 .. Never
      /\ (NextScheduled(monitor[p].due) = Never) <=> (monitor[p].due = Never)
  <2> DEFINE d == monitor[p].due
  <2>1. /\ d \in Int
        /\ d <= Interval + 1
        /\ Interval \in Nat \ {0}
    BY <1>1, MonitorAssumption DEF Never
  <2>2. CASE d > 0
    BY <2>1, <2>2 DEF NextScheduled, Never
  <2>3. CASE d <= 0
    <3> HIDE DEF d
    <3>1. PICK n \in Nat : n = -d
      BY <2>1, <2>3
    <3>2. /\ n \div Interval \in Int
          /\ n - Interval * (n \div Interval) \in 0 .. Interval - 1
      BY <2>1, IntervalsPast
    <3>3. NextScheduled(d) = d + (n \div Interval + 1) * Interval
      BY <2>1, <2>3, <3>1 DEF NextScheduled
    <3>4. (n \div Interval + 1) * Interval = Interval * (n \div Interval) + Interval
      BY <2>1, <3>2
    <3>5. Interval * (n \div Interval) \in Int
      BY <2>1, <3>2
    <3>6. NextScheduled(d) \in 1 .. Interval
      BY <2>1, <2>3, <3>1, <3>2, <3>3, <3>4, <3>5
    <3>7. QED
      BY <2>1, <2>3, <3>6 DEF Never, d
  <2>4. QED
    BY <2>1, <2>2, <2>3
<1>5. QED
  <2>1. (monitor[p].due = Never) <=> ~monitor[p].enabled
    BY <1>1 DEF EnabledIsScheduled, MonitorRow
  <2>2. MaxLate \in Nat /\ Interval \in Nat \ {0} /\ Never = Interval + 1
    BY MonitorAssumption DEF Never
  <2>3. CASE ~monitor[p].enabled
    BY <1>2, <2>2, <2>3 DEF NextRun
  <2>4. CASE monitor[p].enabled /\ s = "failed"
    BY <1>2, <1>3, <2>2, <2>4 DEF NextRun
  <2>5. CASE monitor[p].enabled /\ s # "failed"
    BY <1>2, <1>4, <2>1, <2>2, <2>5 DEF NextRun
  <2>6. QED
    BY <2>3, <2>4, <2>5

LEMMA InitMonitorInv == Init => MonitorInv
BY MonitorAssumption
DEF Init, MonitorInv, MonitorTypeOK, EnabledIsScheduled, RunningIsLeased,
    RowsNumbered, ComparedWithPredecessor, HolderKnowsLatest,
    ChangedIsTokenless, AbsentIsFree, NoMonitor, Idle, Never, Live, Rows,
    Outcomes

-----------------------------------------------------------------------------
LEMMA StartRunType ==
    ASSUME MonitorTypeOK, NEW p \in Projects, NEW t \in Threads, StartRun(p, t)
    PROVE  MonitorTypeOK'
<1>1. Lease \in 0 .. Lease
  BY MonitorAssumption
<1>0. t \in Threads \cup {Nobody}
  OBVIOUS
<1>r. Claimed(p, t) \in MonitorRow
  BY <1>0, <1>1, MonitorTypes DEF Claimed, MonitorRow
<1>2. monitor' \in [Projects -> MonitorRow]
  BY <1>r, MonitorTypes DEF StartRun
<1>3. work' \in [Threads -> WorkRow]
  BY MonitorTypes DEF StartRun, WorkRow, Idle
<1>4. \A u \in Threads : work'[u].at # "idle" <=> work'[u].project # NoProject
  BY MonitorTypes, MonitorAssumption DEF StartRun, WorkRow, Idle, MonitorTypeOK
<1>5. QED
  BY <1>2, <1>3, <1>4 DEF MonitorTypeOK, MonitorRow, WorkRow, StartRun

LEMMA SaveRunType ==
    ASSUME MonitorTypeOK, EnabledIsScheduled,
           NEW t \in Threads, NEW s \in Outcomes, SaveRun(t, s)
    PROVE  MonitorTypeOK'
<1> DEFINE p == work[t].project
<1> DEFINE row == [id |-> saved[p] + 1, status |-> s, base |-> work[t].base]
<1>1. p \in Projects
  BY MonitorTypes DEF SaveRun, MonitorTypeOK, WorkRow
<1>2. row \in Rows
  BY <1>1, MonitorTypes DEF MonitorTypeOK, Rows, WorkRow
<1>3. Nobody \in Threads \cup {Nobody} /\ 0 \in 0 .. Lease
  BY MonitorAssumption
<1>4. work' \in [Threads -> WorkRow]
      /\ \A u \in Threads : work'[u].at # "idle" <=> work'[u].project # NoProject
  BY MonitorTypes DEF SaveRun, WorkRow, Idle, MonitorTypeOK
<1>5. CASE MaySave(t, p)
  <2>1. monitor' = Saved(p, s)
        /\ runs' = [runs EXCEPT ![p] = Kept(@ \cup {row}, row.id)]
        /\ saved' = [saved EXCEPT ![p] = @ + 1]
        /\ archived' = archived
    BY <1>5 DEF SaveRun
  <2>2. monitor' \in [Projects -> MonitorRow]
    BY <1>1, <1>3, <2>1, NextRunType, MonitorTypes
    DEF Saved, MonitorRow
  <2>3. runs' \in [Projects -> SUBSET Rows]
    BY <1>1, <1>2, <2>1 DEF MonitorTypeOK, Kept
  <2>4. saved' \in [Projects -> Nat]
    BY <1>1, <2>1 DEF MonitorTypeOK
  <2>5. QED
    BY <1>4, <2>1, <2>2, <2>3, <2>4 DEF MonitorTypeOK, MonitorRow, WorkRow
<1>6. CASE ~MaySave(t, p)
  BY <1>4, <1>6 DEF SaveRun, MonitorTypeOK, MonitorRow, WorkRow
<1>7. QED
  BY <1>5, <1>6

LEMMA TickedType ==
    ASSUME NEW row \in MonitorRow
    PROVE  /\ Ticked(row) \in MonitorRow
           /\ (Ticked(row).due = Never) <=> (row.due = Never)
           /\ Ticked(row).enabled = row.enabled
           /\ Ticked(row).exists = row.exists
           /\ Ticked(row).status = row.status
           /\ Ticked(row).token = row.token
<1> DEFINE lease == IF row.lease > 0 THEN row.lease - 1 ELSE 0
<1> DEFINE due == IF row.due = Never \/ row.due = -MaxLate THEN row.due
                  ELSE row.due - 1
<1>1. /\ row.lease \in 0 .. Lease
      /\ row.due \in (-MaxLate) .. Never
      /\ Never \in Nat
      /\ Lease \in Nat
      /\ MaxLate \in Nat
  BY MonitorAssumption DEF MonitorRow, Never
<1>2. lease \in 0 .. Lease
  BY <1>1
<1>3. due \in (-MaxLate) .. Never /\ ((due = Never) <=> (row.due = Never))
  BY <1>1
<1>4. Ticked(row) = [row EXCEPT !.lease = lease, !.due = due]
  BY DEF Ticked
<1> HIDE DEF lease, due
<1>5. QED
  BY <1>2, <1>3, <1>4 DEF MonitorRow

LEMMA TypeStep == MonitorInv /\ [Next]_vars => MonitorTypeOK'
<1> SUFFICES ASSUME MonitorInv, [Next]_vars
             PROVE  MonitorTypeOK'
  OBVIOUS
<1>0. MonitorTypeOK /\ EnabledIsScheduled
  BY DEF MonitorInv
<1>t. /\ monitor \in [Projects -> MonitorRow]
      /\ work \in [Threads -> WorkRow]
  BY <1>0, MonitorTypes
<1>v. /\ Never \in (-MaxLate) .. Never
      /\ Interval \in (-MaxLate) .. Never
      /\ 0 \in 0 .. MaxFailures
      /\ 0 \in 0 .. Lease
      /\ Nobody \in Threads \cup {Nobody}
  BY MonitorAssumption DEF Never
<1>1. CASE UNCHANGED vars
  BY <1>0, <1>1 DEF MonitorTypeOK, vars
<1>2. ASSUME NEW p \in Projects, CreateMonitor(p)
      PROVE  MonitorTypeOK'
  <2>1. [NoMonitor EXCEPT !.exists = TRUE, !.enabled = TRUE, !.due = Interval]
          \in MonitorRow
    BY <1>v DEF NoMonitor, MonitorRow
  <2>2. monitor' \in [Projects -> MonitorRow]
    BY <1>2, <1>t, <2>1 DEF CreateMonitor
  <2>3. QED
    BY <1>0, <1>2, <2>2 DEF MonitorTypeOK, MonitorRow, CreateMonitor
<1>3. ASSUME NEW p \in Projects, NEW on \in BOOLEAN,
             NEW rescheduled \in BOOLEAN, UpdateMonitor(p, on, rescheduled)
      PROVE  MonitorTypeOK'
  <2>1. UpdatedDue(p, on, rescheduled) \in (-MaxLate) .. Never
    BY <1>t, <1>v DEF UpdatedDue, MonitorRow
  <2>2. UpdatedMonitor(p, on, rescheduled) \in MonitorRow
    BY <1>t, <1>v, <2>1 DEF UpdatedMonitor, MonitorRow
  <2>3. monitor' \in [Projects -> MonitorRow]
    BY <1>3, <1>t, <2>2 DEF UpdateMonitor
  <2>4. work' \in [Threads -> WorkRow]
    BY <1>3, <1>t DEF UpdateMonitor, MarkChanged, WorkRow
  <2>5. \A t \in Threads : /\ work'[t].at = work[t].at
                            /\ work'[t].project = work[t].project
    BY <1>3, <1>t DEF UpdateMonitor, MarkChanged, WorkRow
  <2>6. QED
    BY <1>0, <1>3, <2>3, <2>4, <2>5
    DEF MonitorTypeOK, MonitorRow, WorkRow, UpdateMonitor
<1>4. ASSUME NEW p \in Projects, ArchiveProject(p)
      PROVE  MonitorTypeOK'
  <2>1. ArchivedMonitor(p) \in MonitorRow
    BY <1>t, <1>v DEF ArchivedMonitor, MonitorRow
  <2>2. monitor' \in [Projects -> MonitorRow]
    BY <1>4, <1>t, <2>1 DEF ArchiveProject
  <2>3. work' \in [Threads -> WorkRow]
    BY <1>4, <1>t DEF ArchiveProject, MarkChanged, WorkRow
  <2>4. \A t \in Threads : /\ work'[t].at = work[t].at
                            /\ work'[t].project = work[t].project
    BY <1>4, <1>t DEF ArchiveProject, MarkChanged, WorkRow
  <2>5. QED
    BY <1>0, <1>4, <2>2, <2>3, <2>4
    DEF MonitorTypeOK, MonitorRow, WorkRow, ArchiveProject
<1>5. ASSUME NEW p \in Projects, RestoreProject(p)
      PROVE  MonitorTypeOK'
  BY <1>0, <1>5 DEF MonitorTypeOK, RestoreProject
<1>6. ASSUME NEW t \in Threads,
             ClaimDue(t) \/ \E p \in Projects : ClaimManual(p, t)
      PROVE  MonitorTypeOK'
  BY <1>0, <1>6, StartRunType DEF ClaimDue, ClaimManual
<1>7. ASSUME NEW t \in Threads, ReadPrevious(t)
      PROVE  MonitorTypeOK'
  <2>1. PICK n \in 0 .. saved[work[t].project] :
          work' = [work EXCEPT ![t].at = "auditing", ![t].base = n]
    BY <1>7 DEF ReadPrevious
  <2>2. work[t].project \in Projects
    BY <1>0, <1>7, <1>t DEF ReadPrevious, MonitorTypeOK, WorkRow
  <2>3. n \in Nat
    BY <1>0, <2>2 DEF MonitorTypeOK
  <2>4. work' \in [Threads -> WorkRow]
        /\ \A u \in Threads :
             /\ work'[u].project = work[u].project
             /\ u # t => work'[u] = work[u]
             /\ u = t => work'[u].at = "auditing"
    BY <1>t, <2>1, <2>3 DEF WorkRow
  <2>5. QED
    BY <1>0, <1>7, <1>t, <2>2, <2>4, MonitorAssumption
    DEF MonitorTypeOK, ReadPrevious, MonitorRow, WorkRow
<1>8. ASSUME NEW t \in Threads, Renew(t)
      PROVE  MonitorTypeOK'
  <2>1. work[t].project \in Projects /\ Lease \in 0 .. Lease
    BY <1>0, <1>8, <1>t, MonitorAssumption DEF Renew, MonitorTypeOK, WorkRow
  <2>2. monitor' \in [Projects -> MonitorRow]
    BY <1>8, <1>t, <2>1 DEF Renew, MonitorRow
  <2>3. QED
    BY <1>0, <1>8, <2>2 DEF MonitorTypeOK, MonitorRow, Renew
<1>9. ASSUME NEW t \in Threads, NEW s \in Outcomes, SaveRun(t, s)
      PROVE  MonitorTypeOK'
  BY <1>0, <1>9, SaveRunType
<1>10. ASSUME NEW t \in Threads, Crash(t)
       PROVE  MonitorTypeOK'
  BY <1>0, <1>10 DEF MonitorTypeOK, Crash, Idle
<1>11. CASE Tick
  BY <1>0, <1>11, <1>t, TickedType DEF MonitorTypeOK, MonitorRow, Tick
<1>12. QED
  BY <1>1, <1>2, <1>3, <1>4, <1>5, <1>6, <1>7, <1>8, <1>9, <1>10, <1>11
  DEF Next

ScheduleInv == EnabledIsScheduled /\ RunningIsLeased /\ AbsentIsFree

LEMMA ScheduleStep ==
    MonitorInv /\ [Next]_vars
        => EnabledIsScheduled' /\ RunningIsLeased' /\ AbsentIsFree'
<1> SUFFICES ASSUME MonitorInv, [Next]_vars
             PROVE  ScheduleInv'
  BY DEF ScheduleInv
<1> USE DEF ScheduleInv, EnabledIsScheduled, RunningIsLeased, AbsentIsFree, Live
<1>0. MonitorTypeOK /\ ScheduleInv
  BY DEF MonitorInv
<1>t. /\ monitor \in [Projects -> MonitorRow]
      /\ work \in [Threads -> WorkRow]
  BY <1>0, MonitorTypes
<1>v. Interval # Never /\ Nobody \notin Threads
  BY MonitorAssumption DEF Never
<1>1. CASE UNCHANGED vars
  BY <1>0, <1>1 DEF vars
<1>2. ASSUME NEW p \in Projects, CreateMonitor(p)
      PROVE  ScheduleInv'
  BY <1>0, <1>2, <1>t, <1>v DEF CreateMonitor, NoMonitor
<1>3. ASSUME NEW p \in Projects, NEW on \in BOOLEAN,
             NEW rescheduled \in BOOLEAN, UpdateMonitor(p, on, rescheduled)
      PROVE  ScheduleInv'
  <2>1. (UpdatedDue(p, on, rescheduled) = Never) <=> ~on
    BY <1>v DEF UpdatedDue
  <2>2. LET row == UpdatedMonitor(p, on, rescheduled)
        IN /\ row.enabled = on
           /\ row.exists = monitor[p].exists
           /\ row.due = UpdatedDue(p, on, rescheduled)
           /\ row.token = Nobody
           /\ row.status # "running"
    BY <1>t DEF UpdatedMonitor, MonitorRow
  <2> HIDE DEF UpdatedMonitor, UpdatedDue
  <2>3. QED
    BY <1>0, <1>3, <1>t, <2>1, <2>2 DEF UpdateMonitor
<1>4. ASSUME NEW p \in Projects, ArchiveProject(p)
      PROVE  ScheduleInv'
  <2>1. \A q \in Projects : q # p => monitor'[q] = monitor[q]
    BY <1>4, <1>t DEF ArchiveProject
  <2>2. CASE monitor[p].exists
    BY <1>0, <1>4, <1>t, <2>1, <2>2
    DEF ArchiveProject, ArchivedMonitor, MonitorRow
  <2>3. CASE ~monitor[p].exists
    <3>1. monitor' = monitor
      BY <1>4, <1>t, <2>3 DEF ArchiveProject, ArchivedMonitor
    <3>2. QED
      BY <1>0, <1>4, <2>3, <3>1 DEF ArchiveProject
  <2>4. QED
    BY <2>2, <2>3
<1>5. ASSUME NEW p \in Projects, RestoreProject(p)
      PROVE  ScheduleInv'
  BY <1>0, <1>5 DEF RestoreProject
<1>6. ASSUME NEW t \in Threads, NEW p \in Projects, StartRun(p, t),
             monitor[p].exists
      PROVE  ScheduleInv'
  BY <1>0, <1>6, <1>t, <1>v DEF StartRun, Claimed, MonitorRow
<1>7. ASSUME NEW t \in Threads, ReadPrevious(t) \/ Crash(t)
      PROVE  ScheduleInv'
  BY <1>0, <1>7 DEF ReadPrevious, Crash
<1>8. ASSUME NEW t \in Threads, Renew(t)
      PROVE  ScheduleInv'
  BY <1>0, <1>8, <1>t DEF Renew, MonitorRow
<1>9. ASSUME NEW t \in Threads, NEW s \in Outcomes, SaveRun(t, s)
      PROVE  ScheduleInv'
  <2>1. CASE MaySave(t, work[t].project)
    <3> DEFINE p == work[t].project
    <3>1. p \in Projects
      BY <1>0, <1>9, <1>t DEF SaveRun, MonitorTypeOK, WorkRow
    <3>2. /\ monitor' = Saved(p, s)
          /\ archived' = archived
      BY <1>9, <2>1 DEF SaveRun
    <3>3. (NextRun(p, s) = Never) <=> ~monitor[p].enabled
      BY <1>0, <3>1, NextRunType
    <3>4. s # "running"
      BY DEF Outcomes
    <3>5. /\ monitor'[p].enabled = monitor[p].enabled
          /\ monitor'[p].exists = monitor[p].exists
          /\ monitor'[p].due = NextRun(p, s)
          /\ monitor'[p].token = Nobody
          /\ monitor'[p].status = s
          /\ \A q \in Projects : q # p => monitor'[q] = monitor[q]
      BY <1>t, <3>1, <3>2 DEF Saved, MonitorRow
    <3> HIDE DEF p
    <3>6. QED
      BY <1>0, <3>1, <3>2, <3>3, <3>4, <3>5
  <2>2. CASE ~MaySave(t, work[t].project)
    BY <1>0, <1>9, <2>2 DEF SaveRun
  <2>3. QED
    BY <2>1, <2>2
<1>10. CASE Tick
  BY <1>0, <1>10, <1>t, TickedType DEF Tick
<1>11. QED
  BY <1>0, <1>1, <1>2, <1>3, <1>4, <1>5, <1>6, <1>7, <1>8, <1>9, <1>10
  DEF Next, ClaimDue, ClaimManual, Claimable

-----------------------------------------------------------------------------
HistoryInv ==
    /\ RowsNumbered
    /\ ComparedWithPredecessor
    /\ HolderKnowsLatest
    /\ ChangedIsTokenless

LEMMA StartRunHistory ==
    ASSUME MonitorInv, NEW p \in Projects, NEW t \in Threads, StartRun(p, t)
    PROVE  HistoryInv'
<1>1. /\ MonitorTypeOK
      /\ monitor \in [Projects -> MonitorRow]
      /\ work \in [Threads -> WorkRow]
  BY MonitorTypes DEF MonitorInv
<1>2. /\ work'[t].at = "claimed"
      /\ work'[t].project = p
      /\ ~work'[t].changed
      /\ \A u \in Threads : u # t => work'[u] = work[u]
      /\ monitor'[p].token = t
      /\ \A q \in Projects : q # p => monitor'[q] = monitor[q]
      /\ runs' = runs /\ saved' = saved
  BY <1>1 DEF StartRun, Claimed, Idle, MonitorRow
<1>3. QED
  BY <1>2 DEF HistoryInv, MonitorInv, RowsNumbered, ComparedWithPredecessor,
              HolderKnowsLatest, ChangedIsTokenless

LEMMA SaveRunHistory ==
    ASSUME MonitorInv, NEW t \in Threads, NEW s \in Outcomes, SaveRun(t, s),
           MaySave(t, work[t].project)
    PROVE  HistoryInv'
<1> DEFINE p == work[t].project
<1> DEFINE row == [id |-> saved[p] + 1, status |-> s, base |-> work[t].base]
<1>1. /\ MonitorTypeOK
      /\ monitor \in [Projects -> MonitorRow]
      /\ work \in [Threads -> WorkRow]
  BY MonitorTypes DEF MonitorInv
<1>2. p \in Projects
  BY <1>1 DEF SaveRun, MonitorTypeOK, WorkRow
<1>3. /\ monitor' = Saved(p, s)
      /\ runs' = [runs EXCEPT ![p] = Kept(@ \cup {row}, row.id)]
      /\ saved' = [saved EXCEPT ![p] = @ + 1]
      /\ work' = [work EXCEPT ![t] = Idle]
  BY DEF SaveRun
<1>4. /\ monitor[p].token = t
      /\ s # "failed" => work[t].at = "auditing"
  BY DEF SaveRun, MaySave, Holds
<1>5. /\ saved \in [Projects -> Nat]
      /\ runs \in [Projects -> SUBSET Rows]
      /\ MaxRuns \in Nat \ {0}
      /\ Nobody \notin Threads
      /\ NoProject \notin Projects
  BY <1>1, MonitorAssumption DEF MonitorTypeOK
<1>6. /\ monitor'[p].token = Nobody
      /\ \A q \in Projects : q # p => monitor'[q] = monitor[q]
  BY <1>1, <1>2, <1>3 DEF Saved, MonitorRow
<1>7. /\ saved'[p] = saved[p] + 1
      /\ runs'[p] = {r \in runs[p] \cup {row} : r.id + MaxRuns > saved[p] + 1}
      /\ \A q \in Projects : q # p => runs'[q] = runs[q] /\ saved'[q] = saved[q]
  BY <1>2, <1>3, <1>5 DEF Kept
<1>8. /\ work'[t] = Idle
      /\ \A u \in Threads : u # t => work'[u] = work[u]
  BY <1>1, <1>3
<1>9. \A r \in runs[p] : r.id \in Nat /\ r.id <= saved[p]
  BY <1>2, <1>5 DEF MonitorInv, RowsNumbered, Rows
<1>10. \A r \in runs[p] : s # "failed" /\ r.status # "failed" => r.id <= row.base
  BY <1>2, <1>4 DEF MonitorInv, HolderKnowsLatest
<1>11. saved[p] \in Nat /\ row.id = saved[p] + 1 /\ row.status = s
  BY <1>2, <1>5
<1> HIDE DEF p, row
<1>12. RowsNumbered'
  BY <1>2, <1>5, <1>7, <1>9, <1>11 DEF MonitorInv, RowsNumbered
<1>13. ComparedWithPredecessor'
  BY <1>2, <1>5, <1>7, <1>9, <1>10, <1>11 DEF MonitorInv, ComparedWithPredecessor
<1>14. HolderKnowsLatest'
  BY <1>2, <1>5, <1>6, <1>7, <1>8 DEF MonitorInv, HolderKnowsLatest, Idle
<1>15. ChangedIsTokenless'
  BY <1>2, <1>5, <1>6, <1>8 DEF MonitorInv, ChangedIsTokenless, Idle
<1>16. QED
  BY <1>12, <1>13, <1>14, <1>15 DEF HistoryInv

LEMMA HistoryStep == MonitorInv /\ [Next]_vars => HistoryInv'
<1> SUFFICES ASSUME MonitorInv, [Next]_vars
             PROVE  HistoryInv'
  OBVIOUS
<1> USE DEF HistoryInv, RowsNumbered, ComparedWithPredecessor,
            HolderKnowsLatest, ChangedIsTokenless
<1>0. MonitorTypeOK /\ HistoryInv
  BY DEF MonitorInv
<1>t. /\ monitor \in [Projects -> MonitorRow]
      /\ work \in [Threads -> WorkRow]
  BY <1>0, MonitorTypes
<1>v. Nobody \notin Threads /\ NoProject \notin Projects
  BY MonitorAssumption
<1>1. CASE UNCHANGED vars
  BY <1>0, <1>1 DEF vars
<1>2. ASSUME NEW p \in Projects, CreateMonitor(p)
      PROVE  HistoryInv'
  <2>1. /\ \A q \in Projects : q # p => monitor'[q] = monitor[q]
        /\ monitor'[p].token = Nobody
        /\ UNCHANGED <<runs, saved, work>>
    BY <1>2, <1>t DEF CreateMonitor, NoMonitor
  <2>2. QED
    BY <1>0, <1>v, <2>1
<1>3. ASSUME NEW p \in Projects, NEW row,
             monitor' = [monitor EXCEPT ![p] = row], row.token \notin Threads,
             MarkChanged(p), UNCHANGED <<runs, saved>>
      PROVE  HistoryInv'
  <2>1. /\ \A q \in Projects : q # p => monitor'[q] = monitor[q]
        /\ monitor'[p].token \notin Threads
    BY <1>3, <1>t
  <2>2. \A t \in Threads :
          /\ work'[t].at = work[t].at
          /\ work'[t].project = work[t].project
          /\ work'[t].base = work[t].base
          /\ work[t].project # p => work'[t].changed = work[t].changed
    BY <1>3, <1>t DEF MarkChanged, WorkRow
  <2>3. QED
    BY <1>0, <1>3, <2>1, <2>2
<1>4. ASSUME NEW p \in Projects, NEW on \in BOOLEAN,
             NEW rescheduled \in BOOLEAN, UpdateMonitor(p, on, rescheduled)
      PROVE  HistoryInv'
  <2>1. UpdatedMonitor(p, on, rescheduled).token = Nobody
    BY <1>t DEF UpdatedMonitor, MonitorRow
  <2>2. QED
    BY <1>3, <1>4, <1>v, <2>1 DEF UpdateMonitor
<1>5. ASSUME NEW p \in Projects, ArchiveProject(p)
      PROVE  HistoryInv'
  <2>1. CASE monitor[p].exists
    <3>1. ArchivedMonitor(p).token = Nobody
      BY <1>t, <2>1 DEF ArchivedMonitor, MonitorRow
    <3>2. QED
      BY <1>3, <1>5, <1>v, <3>1 DEF ArchiveProject
  <2>2. CASE ~monitor[p].exists
    <3>1. monitor[p].token = Nobody
      BY <2>2 DEF MonitorInv, AbsentIsFree
    <3>2. QED
      BY <1>3, <1>5, <1>v, <2>2, <3>1 DEF ArchiveProject, ArchivedMonitor
  <2>3. QED
    BY <2>1, <2>2
<1>6. ASSUME NEW p \in Projects, RestoreProject(p)
      PROVE  HistoryInv'
  BY <1>0, <1>6 DEF RestoreProject
<1>7. ASSUME NEW t \in Threads, NEW p \in Projects, StartRun(p, t)
      PROVE  HistoryInv'
  BY <1>7, StartRunHistory
<1>8. ASSUME NEW t \in Threads, ReadPrevious(t)
      PROVE  HistoryInv'
  <2>1. PICK n \in 0 .. saved[work[t].project] :
          /\ LatestSuccess(work[t].project, n)
          /\ work' = [work EXCEPT ![t].at = "auditing", ![t].base = n]
    BY <1>8 DEF ReadPrevious
  <2>2. /\ work[t].project \in Projects
        /\ work'[t].base = n
        /\ work'[t].project = work[t].project
        /\ work'[t].changed = work[t].changed
        /\ \A u \in Threads : u # t => work'[u] = work[u]
    BY <1>0, <1>8, <1>t, <2>1 DEF ReadPrevious, MonitorTypeOK, WorkRow
  <2>3. \A r \in runs[work[t].project] : r.status # "failed" => r.id <= n
    BY <2>1 DEF LatestSuccess, Successful
  <2>4. UNCHANGED <<monitor, runs, saved>>
    BY <1>8 DEF ReadPrevious
  <2>5. QED
    BY <1>0, <2>2, <2>3, <2>4
<1>9. ASSUME NEW t \in Threads, Renew(t)
      PROVE  HistoryInv'
  <2>1. \A q \in Projects : monitor'[q].token = monitor[q].token
    BY <1>9, <1>t DEF Renew, MonitorRow
  <2>2. QED
    BY <1>0, <1>9, <2>1 DEF Renew
<1>10. ASSUME NEW t \in Threads, work' = [work EXCEPT ![t] = Idle],
              UNCHANGED <<monitor, runs, saved>>
       PROVE  HistoryInv'
  <2>1. /\ work'[t] = Idle
        /\ \A u \in Threads : u # t => work'[u] = work[u]
    BY <1>10, <1>t
  <2>2. QED
    BY <1>0, <1>10, <1>v, <2>1 DEF Idle
<1>11. ASSUME NEW t \in Threads, NEW s \in Outcomes, SaveRun(t, s)
       PROVE  HistoryInv'
  <2>1. CASE MaySave(t, work[t].project)
    BY <1>11, <2>1, SaveRunHistory
  <2>2. CASE ~MaySave(t, work[t].project)
    BY <1>10, <1>11, <2>2 DEF SaveRun
  <2>3. QED
    BY <2>1, <2>2
<1>12. ASSUME NEW t \in Threads, Crash(t)
       PROVE  HistoryInv'
  BY <1>10, <1>12 DEF Crash
<1>13. CASE Tick
  <2>1. \A q \in Projects : monitor'[q].token = monitor[q].token
    BY <1>13, <1>t, TickedType DEF Tick
  <2>2. QED
    BY <1>0, <1>13, <2>1 DEF Tick
<1>14. QED
  BY <1>1, <1>2, <1>4, <1>5, <1>6, <1>7, <1>8, <1>9, <1>11, <1>12, <1>13
  DEF Next, ClaimDue, ClaimManual

-----------------------------------------------------------------------------
LEMMA MonitorStep == MonitorInv /\ [Next]_vars => MonitorInv'
BY TypeStep, ScheduleStep, HistoryStep DEF MonitorInv, HistoryInv

THEOREM MonitorInvariant == Spec => []MonitorInv
<1>1. Init => MonitorInv
  BY InitMonitorInv
<1>2. MonitorInv /\ [Next]_vars => MonitorInv'
  BY MonitorStep
<1>3. QED
  BY <1>1, <1>2, PTL DEF Spec

\* The rows of monitors, of their history and of the threads at work are
\* always well formed.
THEOREM MonitorsWellFormed == Spec => []MonitorTypeOK
<1>1. MonitorInv => MonitorTypeOK
  BY DEF MonitorInv
<1>2. QED
  BY <1>1, MonitorInvariant, PTL

\* No operation and no late result leaves an enabled monitor without a next
\* run, or a paused or archived one with one.
THEOREM MonitorsStayScheduled == Spec => []EnabledIsScheduled
<1>1. MonitorInv => EnabledIsScheduled
  BY DEF MonitorInv
<1>2. QED
  BY <1>1, MonitorInvariant, PTL

\* What a run reports as changed is told from the successful run just before
\* it, whatever runs overlap, crash or come late.
THEOREM ChangesAreConsecutive == Spec => []ComparedWithPredecessor
<1>1. MonitorInv => ComparedWithPredecessor
  BY DEF MonitorInv
<1>2. QED
  BY <1>1, MonitorInvariant, PTL

\* A monitor shown as running is leased to someone.
THEOREM RunningMonitorsLeased == Spec => []RunningIsLeased
<1>1. MonitorInv => RunningIsLeased
  BY DEF MonitorInv
<1>2. QED
  BY <1>1, MonitorInvariant, PTL

\* No more than MAX_MONITOR_RUNS results are kept.
LEMMA BoundedHistory == MonitorInv => HistoryBounded
<1> SUFFICES ASSUME MonitorInv, NEW p \in Projects
             PROVE  Cardinality(runs[p]) <= MaxRuns
  BY DEF HistoryBounded
<1> DEFINE last == saved[p]
<1> DEFINE ids == (last - MaxRuns + 1) .. last
<1> DEFINE number == [r \in runs[p] |-> r.id]
<1>1. /\ last \in Nat
      /\ MaxRuns \in Nat \ {0}
      /\ \A r \in runs[p] : r.id \in Nat
  BY MonitorAssumption DEF MonitorInv, MonitorTypeOK, Rows
<1>2. number \in [runs[p] -> ids]
  BY <1>1 DEF MonitorInv, RowsNumbered
<1>3. \A r, s \in runs[p] : number[r] = number[s] => r = s
  BY DEF MonitorInv, RowsNumbered
<1>4. IsFiniteSet(ids) /\ Cardinality(ids) = MaxRuns
  <2> HIDE DEF last
  <2>1. PICK first \in Int : first = last - MaxRuns + 1
    BY <1>1
  <2>2. ids = first .. last
    BY <2>1
  <2> HIDE DEF ids
  <2>3. /\ IsFiniteSet(ids)
        /\ Cardinality(ids) = IF first > last THEN 0 ELSE last - first + 1
    BY <1>1, <2>1, <2>2, FS_Interval
  <2>4. ~(first > last) /\ last - first + 1 = MaxRuns
    BY <1>1, <2>1
  <2>5. QED
    BY <2>3, <2>4
<1> HIDE DEF ids, number
<1>5. number \in Injection(runs[p], ids)
  BY <1>2, <1>3 DEF Injection, IsInjective
<1>6. Cardinality(runs[p]) <= Cardinality(ids)
  BY <1>4, <1>5, FS_Injection
<1>7. QED
  BY <1>4, <1>6

\* The history of a monitor never outgrows its limit.
THEOREM HistoriesStayBounded == Spec => []HistoryBounded
BY BoundedHistory, MonitorInvariant, PTL

\* A run overtaken by a change of its monitor saves nothing.
LEMMA ChangedRunSavesNothing ==
    MonitorInv /\ [Next]_vars =>
        [\A t \in Threads :
           work[t].changed /\ work'[t] = Idle => saved' = saved]_vars
<1> SUFFICES ASSUME MonitorInv, Next,
                    NEW t \in Threads, work[t].changed, work'[t] = Idle
             PROVE  saved' = saved
  OBVIOUS
<1>1. ASSUME NEW u \in Threads, NEW s \in Outcomes, SaveRun(u, s)
      PROVE  saved' = saved
  <2>1. work \in [Threads -> WorkRow]
    BY MonitorTypes DEF MonitorInv
  <2>2. u = t
    <3>1. SUFFICES ASSUME u # t
                   PROVE  FALSE
      OBVIOUS
    <3>2. work'[t] = work[t]
      BY <1>1, <2>1, <3>1 DEF SaveRun
    <3>3. QED
      BY <3>2 DEF Idle
  <2>3. work[t].project \in Projects
    BY <1>1, <2>1, <2>2 DEF SaveRun, MonitorInv, MonitorTypeOK, WorkRow
  <2>4. ~MaySave(t, work[t].project)
    BY <2>3 DEF MaySave, Holds, MonitorInv, ChangedIsTokenless
  <2>5. QED
    BY <1>1, <2>2, <2>4 DEF SaveRun
<1>2. QED
  BY <1>1 DEF Next, CreateMonitor, UpdateMonitor, ArchiveProject,
              RestoreProject, ClaimDue, ClaimManual, StartRun, ReadPrevious,
              Renew, Crash, Tick

\* A result that was under way when its monitor was paused, changed or
\* archived is never saved.
THEOREM NoStaleResult == Spec => NoResultFromBeforeChange
<1>1. MonitorInv /\ [Next]_vars =>
        [\A t \in Threads :
           work[t].changed /\ work'[t] = Idle => saved' = saved]_vars
  BY ChangedRunSavesNothing
<1>2. QED
  BY <1>1, MonitorInvariant, PTL DEF Spec, NoResultFromBeforeChange

=============================================================================
