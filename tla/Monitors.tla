------------------------------ MODULE Monitors ------------------------------
(***************************************************************************)
(* Project monitoring: SqliteMonitoringStore (src/apps/api/src/webdiag_api/*)
(* accounts/monitoring_storage.py), the scheduled and the manual runs of   *)
(* MonitoringService (accounts/monitoring_service.py), and what archiving  *)
(* and restoring a project do to its monitor (accounts/                    *)
(* workspace_storage.py).                                                  *)
(*                                                                         *)
(* A run claims the monitor under a lease, reads the latest successful     *)
(* payload, audits the site while a second thread renews the lease, and    *)
(* saves its result with what changed since that payload.  Transactions    *)
(* are single steps.  Times are distances from now: a lease or a schedule  *)
(* in ticks to go.  The token of a lease stands for the thread it was made *)
(* for.  A project has one monitor at most, named by the project.          *)
(***************************************************************************)
EXTENDS Integers, FiniteSets

CONSTANTS
    Projects,
    Threads,       \* API threads that may serve run-due or a manual run
    Lease,         \* MONITOR_LEASE_SECONDS, in ticks
    Interval,      \* CADENCE_SECONDS of the cadence, in ticks
    RetryAfter,    \* RetryAfter[n]: the delay after the n-th failure in a row
    MaxFailures,   \* the last index of the table of retry delays
    MaxRuns,       \* MAX_MONITOR_RUNS, the history kept for a monitor
    MaxLate,       \* bound of the model: lateness told apart, in ticks
    MaxSaved,      \* bound of the model: runs ever saved for a monitor
    Nobody, NoProject

ASSUME MonitorAssumption ==
    /\ Lease \in Nat \ {0}
    /\ Interval \in Nat \ {0}
    /\ MaxFailures \in Nat \ {0}
    /\ RetryAfter \in [1 .. MaxFailures -> 1 .. Interval]
    /\ MaxRuns \in Nat \ {0}
    /\ MaxLate \in Nat
    /\ MaxSaved \in Nat
    /\ Nobody \notin Threads
    /\ NoProject \notin Projects

Never == Interval + 1   \* next_run_at IS NULL

VARIABLES
    monitor,   \* account_workspace_monitors
    runs,      \* account_workspace_monitor_runs: the rows kept
    saved,     \* how many rows were ever inserted: the last rowid
    archived,  \* projects with an archived_at
    work       \* what each thread is doing

vars == <<monitor, runs, saved, archived, work>>

NoMonitor == [exists |-> FALSE, enabled |-> FALSE, status |-> "pending",
              due |-> Never, failures |-> 0, token |-> Nobody, lease |-> 0]

\* changed: the monitor was changed since this thread claimed it (the code
\* keeps no such flag; it is there to state properties).
Idle == [at |-> "idle", project |-> NoProject, base |-> 0, changed |-> FALSE]

Init ==
    /\ monitor = [p \in Projects |-> NoMonitor]
    /\ runs = [p \in Projects |-> {}]
    /\ saved = [p \in Projects |-> 0]
    /\ archived = {}
    /\ work = [t \in Threads |-> Idle]

Live(p) == p \notin archived
Leased(p) == monitor[p].lease > 0
Overdue(p) == monitor[p].due <= 0

\* The threads at work on p learn nothing of it; the flag only records it.
MarkChanged(p) ==
    work' = [t \in Threads |->
               IF work[t].project = p THEN [work[t] EXCEPT !.changed = TRUE]
                                      ELSE work[t]]

-----------------------------------------------------------------------------
(***************************************************************************)
(* create_monitor                                                          *)
(***************************************************************************)
CreateMonitor(p) ==
    /\ Live(p)
    /\ ~monitor[p].exists
    /\ monitor' = [monitor EXCEPT ![p] =
         [NoMonitor EXCEPT !.exists = TRUE, !.enabled = TRUE, !.due = Interval]]
    /\ UNCHANGED <<runs, saved, archived, work>>

\* update_monitor: the schedule restarts when it was changed or was absent.
UpdatedDue(p, on, rescheduled) ==
    IF ~on THEN Never
    ELSE IF rescheduled \/ ~monitor[p].enabled \/ monitor[p].due = Never
    THEN Interval
    ELSE monitor[p].due

\* Mutant: a running monitor is left to its run.
UpdatedMonitorKeepingRun(p, on, rescheduled) ==
    [monitor[p] EXCEPT !.enabled = on, !.due = UpdatedDue(p, on, rescheduled)]

UpdatedMonitor(p, on, rescheduled) ==
    [monitor[p] EXCEPT
       !.enabled = on,
       !.status = IF @ = "running" \/ ~on THEN "pending" ELSE @,
       !.due = UpdatedDue(p, on, rescheduled),
       !.token = Nobody,
       !.lease = 0]

(***************************************************************************)
(* update_monitor: pause or resume (on), and a new cadence or time zone    *)
(* (rescheduled).  A request without enabled keeps it.                     *)
(***************************************************************************)
UpdateMonitor(p, on, rescheduled) ==
    /\ Live(p)
    /\ monitor[p].exists
    /\ monitor' = [monitor EXCEPT ![p] = UpdatedMonitor(p, on, rescheduled)]
    /\ MarkChanged(p)
    /\ UNCHANGED <<runs, saved, archived>>

-----------------------------------------------------------------------------
Claimed(p, t) ==
    [monitor[p] EXCEPT !.status = "running", !.token = t, !.lease = Lease]

StartRun(p, t) ==
    /\ work[t] = Idle
    /\ saved[p] < MaxSaved
    /\ monitor' = [monitor EXCEPT ![p] = Claimed(p, t)]
    /\ work' = [work EXCEPT ![t] = [Idle EXCEPT !.at = "claimed", !.project = p]]
    /\ UNCHANGED <<runs, saved, archived>>

\* Mutant: a monitor once leased is not handed out again.
ClaimableOnce(p) ==
    /\ monitor[p].enabled /\ Overdue(p) /\ Live(p) /\ monitor[p].token = Nobody

\* claim_due: the monitors it may hand out.
Claimable(p) ==
    /\ monitor[p].enabled
    /\ Overdue(p)
    /\ ~Leased(p)
    /\ Live(p)

(***************************************************************************)
(* run_due claims the monitor that has been due for longest.  (Monitors    *)
(* that are due since equally long are told apart by id: any of them.)     *)
(***************************************************************************)
ClaimDue(t) ==
    \E p \in Projects :
        /\ Claimable(p)
        /\ \A q \in Projects : Claimable(q) => monitor[p].due <= monitor[q].due
        /\ StartRun(p, t)

(***************************************************************************)
(* run_monitor: a user asks for a run now.  Neither the schedule nor a     *)
(* pause matters, only the lease.                                          *)
(***************************************************************************)
ClaimManual(p, t) ==
    /\ Live(p)
    /\ monitor[p].exists
    /\ ~Leased(p)
    /\ StartRun(p, t)

\* The lease a thread was given is still its own and has not run out.
Holds(t, p) ==
    /\ monitor[p].status = "running"
    /\ monitor[p].token = t
    /\ Leased(p)

Successful(p) == {r \in runs[p] : r.status # "failed"}

\* latest_successful_payload: the row it returns, 0 when there is none.
LatestSuccess(p, n) ==
    \/ n \in {r.id : r \in Successful(p)} /\ \A r \in Successful(p) : r.id <= n
    \/ n = 0 /\ Successful(p) = {}

(***************************************************************************)
(* _execute reads what it will compare with, before the audit starts.      *)
(***************************************************************************)
ReadPrevious(t) ==
    /\ work[t].at = "claimed"
    /\ \E n \in 0 .. saved[work[t].project] :
        /\ LatestSuccess(work[t].project, n)
        /\ work' = [work EXCEPT ![t].at = "auditing", ![t].base = n]
    /\ UNCHANGED <<monitor, runs, saved, archived>>

\* _LeaseHeartbeat: renew_lease, every third of a lease while it lasts.
Renew(t) ==
    /\ work[t].at = "auditing"
    /\ Holds(t, work[t].project)
    /\ monitor' = [monitor EXCEPT ![work[t].project].lease = Lease]
    /\ UNCHANGED <<runs, saved, archived, work>>

-----------------------------------------------------------------------------
\* Mutant: a time still to come is moved on as well, after a run asked for by hand.
NextScheduledMovedOn(due) ==
    IF due > 0 THEN due + Interval ELSE due + ((-due) \div Interval + 1) * Interval

\* _next_scheduled_run: a time still to come is kept, a past one is moved on
\* by whole intervals.
NextScheduled(due) ==
    IF due > 0 THEN due ELSE due + ((-due) \div Interval + 1) * Interval

\* save_run: the streak of failures (counted up to the end of the table of
\* delays) and the next run.
Failures(p, status) ==
    IF status # "failed" THEN 0
    ELSE IF monitor[p].failures < MaxFailures THEN monitor[p].failures + 1
    ELSE MaxFailures

NextRun(p, status) ==
    IF ~monitor[p].enabled THEN Never
    ELSE IF status = "failed" THEN RetryAfter[Failures(p, status)]
    ELSE NextScheduled(monitor[p].due)

\* Mutant: the save only checks that a run is under way.
MaySaveAnyLease(t, p) == monitor[p].status = "running"

\* save_run: what the row must still say.
MaySave(t, p) == Holds(t, p)

Saved(p, status) ==
    [monitor EXCEPT
       ![p].status = status,
       ![p].due = NextRun(p, status),
       ![p].failures = Failures(p, status),
       ![p].token = Nobody,
       ![p].lease = 0]

\* The newest MAX_MONITOR_RUNS rows.
Kept(rows, newest) == {r \in rows : r.id + MaxRuns > newest}

(***************************************************************************)
(* The run is over, well or not: save_run inserts its row, ends the lease, *)
(* reschedules and trims the history, or refuses when the lease is lost.   *)
(* A failure may also come before the previous payload is read.            *)
(***************************************************************************)
SaveRun(t, status) ==
    LET p == work[t].project
        row == [id |-> saved[p] + 1, status |-> status, base |-> work[t].base]
    IN /\ \/ work[t].at = "auditing"
          \/ work[t].at = "claimed" /\ status = "failed"
       /\ IF MaySave(t, p)
          THEN /\ monitor' = Saved(p, status)
               /\ runs' = [runs EXCEPT ![p] = Kept(@ \cup {row}, row.id)]
               /\ saved' = [saved EXCEPT ![p] = @ + 1]
          ELSE UNCHANGED <<monitor, runs, saved>>
       /\ work' = [work EXCEPT ![t] = Idle]
       /\ UNCHANGED archived

(***************************************************************************)
(* The API is killed under the run: nothing is written.                    *)
(***************************************************************************)
Crash(t) ==
    /\ work[t] # Idle
    /\ work' = [work EXCEPT ![t] = Idle]
    /\ UNCHANGED <<monitor, runs, saved, archived>>

-----------------------------------------------------------------------------
ArchivedMonitor(p) ==
    IF monitor[p].exists
    THEN [monitor[p] EXCEPT !.enabled = FALSE, !.status = "pending",
            !.due = Never, !.token = Nobody, !.lease = 0]
    ELSE monitor[p]

(***************************************************************************)
(* archive_project, also when the project is archived already.             *)
(***************************************************************************)
ArchiveProject(p) ==
    /\ archived' = archived \cup {p}
    /\ monitor' = [monitor EXCEPT ![p] = ArchivedMonitor(p)]
    /\ MarkChanged(p)
    /\ UNCHANGED <<runs, saved>>

(***************************************************************************)
(* restore_project: the monitor stays paused.                              *)
(***************************************************************************)
RestoreProject(p) ==
    /\ p \in archived
    /\ archived' = archived \ {p}
    /\ UNCHANGED <<monitor, runs, saved, work>>

Ticked(row) ==
    [row EXCEPT
       !.lease = IF @ > 0 THEN @ - 1 ELSE 0,
       !.due = IF @ = Never \/ @ = -MaxLate THEN @ ELSE @ - 1]

(***************************************************************************)
(* Time passes.                                                            *)
(***************************************************************************)
Tick ==
    /\ monitor' = [p \in Projects |-> Ticked(monitor[p])]
    /\ UNCHANGED <<runs, saved, archived, work>>

Outcomes == {"passed", "changed", "failed"}

Next ==
    \/ \E p \in Projects :
        \/ CreateMonitor(p)
        \/ \E on, rescheduled \in BOOLEAN : UpdateMonitor(p, on, rescheduled)
        \/ ArchiveProject(p)
        \/ RestoreProject(p)
    \/ \E t \in Threads :
        \/ ClaimDue(t)
        \/ \E p \in Projects : ClaimManual(p, t)
        \/ ReadPrevious(t)
        \/ Renew(t)
        \/ \E s \in Outcomes : SaveRun(t, s)
        \/ Crash(t)
    \/ Tick

\* A run that ends while its lease lasts.
SaveInTime(t) ==
    /\ work[t].at # "idle"
    /\ Holds(t, work[t].project)
    /\ \E s \in Outcomes : SaveRun(t, s)

(***************************************************************************)
(* The scheduler asks for due monitors every cycle, audits have time-outs, *)
(* and time passes.  The lease outlasts an audit several times and is      *)
(* renewed every third of it: runs do not miss it, or crash, for ever.  No *)
(* user is bound to do anything.                                           *)
(***************************************************************************)
Fairness ==
    /\ WF_vars(Tick)
    /\ WF_vars(\E t \in Threads : ClaimDue(t))
    /\ \A t \in Threads :
        /\ WF_vars(ReadPrevious(t))
        /\ WF_vars(\E s \in Outcomes : SaveRun(t, s))
        /\ SF_vars(SaveInTime(t))

Spec == Init /\ [][Next]_vars /\ Fairness

-----------------------------------------------------------------------------
(***************************************************************************)
(* Properties                                                              *)
(***************************************************************************)

Rows == [id : Nat \ {0}, status : Outcomes, base : Nat]

\* Types of the rows and of the threads' work; among them that whatever sets the
\* next run sets it at most an interval ahead, and the streak stays in its table.
MonitorTypeOK ==
    /\ monitor \in [Projects ->
         [exists : BOOLEAN, enabled : BOOLEAN,
          status : {"pending", "running"} \cup Outcomes,
          due : (-MaxLate) .. Never, failures : 0 .. MaxFailures,
          token : Threads \cup {Nobody}, lease : 0 .. Lease]]
    /\ saved \in [Projects -> Nat]
    /\ runs \in [Projects -> SUBSET Rows]
    /\ archived \subseteq Projects
    /\ work \in [Threads ->
         [at : {"idle", "claimed", "auditing"},
          project : Projects \cup {NoProject}, base : Nat, changed : BOOLEAN]]
    /\ \A t \in Threads : work[t].at # "idle" <=> work[t].project # NoProject

\* A monitor has a next run just while it is enabled, and only monitors of
\* live projects are enabled: no pause, resume, change of schedule, late
\* result, archive or restore leaves one that is enabled and never due, or
\* one that is paused and due.
EnabledIsScheduled ==
    \A p \in Projects :
        /\ monitor[p].enabled <=> monitor[p].due # Never
        /\ monitor[p].enabled => Live(p)

\* A successful run is compared with the successful run just before it in
\* the history: no run, however late and however often the monitor was
\* claimed again, lies between a run and the one its changes are told from.
ComparedWithPredecessor ==
    \A p \in Projects : \A r, s \in runs[p] :
        r.status # "failed" /\ s.status # "failed" /\ s.id < r.id
            => s.id <= r.base

\* The history of a monitor stays within MAX_MONITOR_RUNS.
HistoryBounded == \A p \in Projects : Cardinality(runs[p]) <= MaxRuns

\* A monitor says it is running only while a lease says who runs it, so that
\* the claim that follows the lease can take it over.
RunningIsLeased ==
    \A p \in Projects : monitor[p].status = "running" <=> monitor[p].token # Nobody

\* A run that was under way when its monitor was paused, changed or archived
\* saves nothing, also when the monitor was claimed by another run since.
NoResultFromBeforeChange ==
    [][\A t \in Threads :
         work[t].changed /\ work'[t] = Idle
             => saved' = saved]_vars

\* A due monitor is run to its end, which gives it a new time, or it is
\* paused or rescheduled.
DueIsRun ==
    \A p \in Projects :
        monitor[p].enabled /\ Overdue(p)
            ~> \/ ~monitor[p].enabled
               \/ ~Overdue(p)
               \/ saved[p] = MaxSaved
=============================================================================
