------------------------------ MODULE Snapshot ------------------------------
(***************************************************************************)
(* Periodic snapshots of the agent's data volume: the cron schedule kept   *)
(* in status, the catch-up rule, retention, and the restore source that    *)
(* retention must spare.  The snapshot loop runs last in a pass, after the *)
(* StatefulSet loop's status update; the snapshots themselves are read     *)
(* live, the HermesAgent from the informer cache.                          *)
(***************************************************************************)
EXTENDS Naturals, FiniteSets

CONSTANTS
    Period,       \* the cron schedule runs at the multiples of Period
    Modes,        \* the modes a user switches the snapshot block between
    Retentions,   \* the retentions a user asks for
    InitSpec,     \* the spec the agent is created with
    InitCRD,      \* is the VolumeSnapshot CRD installed at first?
    MaxTime,      \* bound: clock ticks
    MaxEdits,     \* bound: edits of the spec
    MaxFaults,    \* bound: API calls that return an unexpected error
    MaxRestarts,  \* bound: operator restarts
    MaxDeletes    \* bound: snapshots a user deletes

VARIABLES
    agent,        \* the HermesAgent in the API server
    agentCache,   \* the HermesAgent in the informer cache
    snapshots,    \* the VolumeSnapshots of the agent that exist
    terminating,  \* those of them that are being deleted
    restored,     \* the restore sources whose PVC has been provisioned
    bound,        \* the data PVCs that are bound
    crd,          \* "installed" or "absent"
    now,          \* the clock
    timer,        \* the deadline of the pending RequeueAfter
    queued,       \* the agent's key is in the work queue
    pass,         \* the reconcile pass the single worker is running
    budget        \* what is left of the bounds

vars == <<agent, agentCache, snapshots, terminating, restored, bound, crd, now,
          timer, queued, pass, budget>>

cluster == <<snapshots, terminating, restored, bound, crd, now>>

-----------------------------------------------------------------------------
(* Types.                                                                  *)

\* A snapshot is named after the PVC it was taken from and the time.  PVC 0
\* is the one the StatefulSet provisions, PVC n the one restored from the
\* snapshot taken at time n.
Name == [pvc : Nat, at : Nat]

NoSource == [pvc |-> 0, at |-> 0]

Mode == {"off", "suspended", "invalid", "on"}

AgentSpec == [mode : Mode, retention : Nat \ {0}, source : Name]

Conditions == {"None", "CRDAbsent", "InvalidSchedule"}

\* "last" is status.snapshot.lastScheduleTime, or the creation time 0.
Agent == [spec : AgentSpec, last : Nat, listed : SUBSET Name,
          unsupported : Conditions, restoreFailed : {"yes", "no"}, rv : Nat]

\* Deadlines lie after the creation time 0.
NoTimer == 0

Pass == [pc : {"idle", "restore", "gate", "snapshot", "absent", "clear", "prune",
               "relist", "record"},
         ha : Agent, old : SUBSET Name, taken : Nat]

Budget == [edits : Nat, faults : Nat, restarts : Nat, deletes : Nat]

ASSUME SnapshotAssumption ==
    /\ Period \in Nat \ {0}
    /\ Modes \subseteq Mode
    /\ Retentions \subseteq Nat \ {0}
    /\ InitSpec \in AgentSpec
    /\ InitCRD \in {"installed", "absent"}
    /\ MaxTime \in Nat /\ MaxEdits \in Nat /\ MaxFaults \in Nat
    /\ MaxRestarts \in Nat /\ MaxDeletes \in Nat

TypeOK ==
    /\ agent \in Agent
    /\ agentCache \in Agent
    /\ snapshots \in SUBSET Name
    /\ terminating \in SUBSET snapshots
    /\ restored \in SUBSET Name
    /\ bound \in SUBSET Nat
    /\ crd \in {"installed", "absent"}
    /\ now \in Nat
    /\ timer \in Nat
    /\ queued \in BOOLEAN
    /\ pass \in Pass
    /\ budget \in Budget

NewAgent == [spec |-> InitSpec, last |-> 0, listed |-> {}, unsupported |-> "None",
             restoreFailed |-> "no", rv |-> 1]

IdlePass == [pc |-> "idle", ha |-> NewAgent, old |-> {}, taken |-> 0]

Init ==
    /\ agent = NewAgent
    /\ agentCache = NewAgent
    /\ snapshots = {} /\ terminating = {} /\ restored = {} /\ bound = {}
    /\ crd = InitCRD
    /\ now = 0
    /\ timer = NoTimer
    /\ queued = TRUE
    /\ pass = IdlePass
    /\ budget = [edits |-> MaxEdits, faults |-> MaxFaults,
                 restarts |-> MaxRestarts, deletes |-> MaxDeletes]

-----------------------------------------------------------------------------
(* Schedule and retention.                                                 *)

\* schedule.Next: the first run strictly after t.
NextRun(t) == (t \div Period + 1) * Period

\* splitSnapshots: the newest "retention" of the listed snapshots are live.
Newer(s, t) == s.at > t.at \/ (s.at = t.at /\ s.pvc > t.pvc)

\* Mutants of Live: one too many is kept; the oldest are kept.
LiveOneMore(listed, retention) ==
    {s \in listed : Cardinality({t \in listed : Newer(t, s)}) <= retention}

LiveOldest(listed, retention) ==
    {s \in listed : Cardinality({t \in listed : Newer(s, t)}) < retention}

Live(listed, retention) ==
    {s \in listed : Cardinality({t \in listed : Newer(t, s)}) < retention}

\* The deprecated ones, without the restore source.
Deprecated(listed, spec) ==
    {s \in listed \ Live(listed, spec.retention) : s # spec.source}

\* The PVC the agent's data is on.  PVC 0 is the StatefulSet's own, or the
\* existingClaim of a user, which takes its place for good.
buildDataPVCName(spec) == spec.source.at

\* snapshotRefs: a snapshot being deleted is not a retained backup.
snapshotRefs(live) == live \ terminating

-----------------------------------------------------------------------------
(* How a pass ends, and how it writes the status.                          *)

\* Return without requeue; return an error or ask for a retry in seconds;
\* ask to be woken after a delay (the queue keeps the earlier deadline).
Return == pass' = IdlePass /\ UNCHANGED <<queued, timer>>

Retry == pass' = IdlePass /\ queued' = TRUE /\ UNCHANGED timer

RequeueAfter(delay) ==
    /\ pass' = IdlePass
    /\ timer' = IF timer = NoTimer \/ now + delay < timer THEN now + delay ELSE timer
    /\ UNCHANGED queued

GoOn(p) == pass' = p /\ UNCHANGED <<queued, timer>>

\* A call that fails within the fault budget ends the pass.
Fault == budget.faults > 0 /\ budget' = [budget EXCEPT !.faults = @ - 1] /\ Retry

\* The agent after an accepted status update; one that changes nothing does
\* not move the resource version.
StatusWritten(ha) ==
    LET written == [agent EXCEPT !.last = ha.last, !.listed = ha.listed,
                                 !.unsupported = ha.unsupported,
                                 !.restoreFailed = ha.restoreFailed]
    IN  IF written = agent THEN agent ELSE [written EXCEPT !.rv = @ + 1]

\* Mutant: the status is written whatever version the pass read.
StatusOverwrites(ha) == FALSE

StatusConflict(ha) == ha.rv # agent.rv

\* UpdateHermesAgentStatus with ha: accepted, rejected as stale, or failed
\* with or without effect.  An accepted update is followed by "then".
UpdateStatus(ha, then) ==
    \/ /\ ~StatusConflict(ha)
       /\ agent' = StatusWritten(ha)
       /\ then
       /\ UNCHANGED budget
    \/ /\ StatusConflict(ha)
       /\ Retry
       /\ UNCHANGED <<agent, budget>>
    \/ /\ agent' \in {agent, IF StatusConflict(ha) THEN agent ELSE StatusWritten(ha)}
       /\ Fault

\* The pass goes on with the agent as the status update returned it.
GoOnWith(pc, ha) == GoOn([pass EXCEPT !.pc = pc, !.ha = StatusWritten(ha)])

At(pc) == pass.pc = pc /\ UNCHANGED <<agentCache, bound, crd, now>>

-----------------------------------------------------------------------------
(* The pass up to the snapshot loop.                                       *)

Reconcile ==
    /\ At("idle")
    /\ queued
    /\ queued' = FALSE
    /\ pass' = [IdlePass EXCEPT !.pc = "restore", !.ha = agentCache]
    /\ UNCHANGED <<agent, snapshots, terminating, restored, timer, budget>>

\* The restore loop: provision the PVC of the source while the source can
\* still be read; a source that cannot is reported and asked for again.  The
\* pass also ends early while the new PVC is not in the cache yet or the
\* StatefulSet has to be reshaped.  Every snapshot here is ready to use; one that is
\* not is part of Rollout.
reconcileRestore ==
    LET source == pass.ha.spec.source
        provisioned == source = NoSource \/ source \in restored
        readable == crd = "installed" /\ source \in snapshots
        failed == [pass.ha EXCEPT !.restoreFailed = "yes"]
        cleared == [pass.ha EXCEPT !.restoreFailed = "no"]
    IN  /\ At("restore")
        /\ \/ /\ ~provisioned /\ ~readable
              /\ UpdateStatus(failed, Retry)
              /\ UNCHANGED restored
           \/ /\ provisioned \/ readable
              /\ restored' = restored \cup ({source} \ {NoSource})
              /\ \/ /\ cleared = pass.ha
                    /\ GoOn([pass EXCEPT !.pc = "gate"])
                    /\ UNCHANGED <<agent, budget>>
                 \/ /\ cleared # pass.ha
                    /\ UpdateStatus(cleared, GoOnWith("gate", cleared))
                 \/ /\ source # NoSource
                    /\ Retry
                    /\ UNCHANGED <<agent, budget>>
           \/ /\ restored' \in {restored, restored \cup ({source} \cap snapshots)}
              /\ Fault
              /\ UNCHANGED agent
        /\ UNCHANGED <<snapshots, terminating>>

\* The StatefulSet loop ends with a status update on every pass: a pass that
\* read a stale agent gets no further.  A pod whose volume is not bound may
\* be Pending, which ends the pass too; a pod that is Pending for another
\* reason is counted as a fault.
reconcileStatefulSet ==
    /\ At("gate")
    /\ UpdateStatus(pass.ha,
         \/ GoOnWith("snapshot", pass.ha)
         \/ buildDataPVCName(pass.ha.spec) \notin bound /\ Retry)
    /\ UNCHANGED <<snapshots, terminating, restored>>

-----------------------------------------------------------------------------
(* reconcileSnapshot.                                                      *)

\* Snapshots are off: drop a stale condition and return.
SnapshotOff ==
    LET ha == [pass.ha EXCEPT !.unsupported = "None"]
    IN  /\ At("snapshot")
        /\ pass.ha.spec.mode = "off"
        /\ IF ha = pass.ha
           THEN Return /\ UNCHANGED <<agent, budget>>
           ELSE UpdateStatus(ha, Return)
        /\ UNCHANGED <<snapshots, terminating, restored>>

SnapshotSuspended ==
    /\ At("snapshot")
    /\ pass.ha.spec.mode = "suspended"
    /\ Return
    /\ UNCHANGED <<agent, snapshots, terminating, restored, budget>>

PVCNotBound ==
    /\ At("snapshot")
    /\ pass.ha.spec.mode \in {"invalid", "on"}
    /\ buildDataPVCName(pass.ha.spec) \notin bound
    /\ Retry
    /\ UNCHANGED <<agent, snapshots, terminating, restored, budget>>

InvalidSchedule ==
    LET ha == [pass.ha EXCEPT !.unsupported = "InvalidSchedule"]
    IN  /\ At("snapshot")
        /\ pass.ha.spec.mode = "invalid"
        /\ buildDataPVCName(pass.ha.spec) \in bound
        /\ UpdateStatus(ha, Retry)
        /\ UNCHANGED <<snapshots, terminating, restored>>

\* List the snapshots and work out which of them retention drops.
ListSnapshots ==
    /\ At("snapshot")
    /\ pass.ha.spec.mode = "on"
    /\ buildDataPVCName(pass.ha.spec) \in bound
    /\ \/ /\ crd = "absent"
          /\ GoOn([pass EXCEPT !.pc = "absent"])
          /\ UNCHANGED budget
       \/ /\ crd = "installed"
          /\ GoOn([pass EXCEPT !.pc = IF pass.ha.unsupported = "None" THEN "prune" ELSE "clear",
                               !.old = Deprecated(snapshots, pass.ha.spec)])
          /\ UNCHANGED budget
       \/ Fault
    /\ UNCHANGED <<agent, snapshots, terminating, restored>>

\* Without the CRD the loop reports so and does not ask to be woken again.
ReportUnsupported ==
    /\ At("absent")
    /\ UpdateStatus([pass.ha EXCEPT !.unsupported = "CRDAbsent"], Return)
    /\ UNCHANGED <<snapshots, terminating, restored>>

clearSnapshotUnsupported ==
    LET ha == [pass.ha EXCEPT !.unsupported = "None"]
    IN  /\ At("clear")
        /\ UpdateStatus(ha, GoOnWith("prune", ha))
        /\ UNCHANGED <<snapshots, terminating, restored>>

\* Mutant: a snapshot that is already gone is marked as deleted as well.
DeleteOldBlind ==
    /\ At("prune")
    /\ \E s \in pass.old :
         /\ \A t \in pass.old : ~Newer(t, s)
         /\ terminating' = terminating \cup {s}
         /\ GoOn([pass EXCEPT !.old = @ \ {s}])
    /\ UNCHANGED <<agent, snapshots, restored, budget>>

\* Delete the deprecated snapshots one by one, newest first; NotFound is
\* ignored, and a deleted snapshot lingers until its finalizer is cleared.
DeleteOld ==
    /\ At("prune")
    /\ \E s \in pass.old :
         /\ \A t \in pass.old : ~Newer(t, s)
         /\ \/ /\ terminating' = terminating \cup ({s} \cap snapshots)
               /\ GoOn([pass EXCEPT !.old = @ \ {s}])
               /\ UNCHANGED budget
            \/ /\ terminating' \in {terminating, terminating \cup ({s} \cap snapshots)}
               /\ Fault
    /\ UNCHANGED <<agent, snapshots, restored>>

\* Mutant: the wait for the next run is left to somebody else.
NotDueNoRequeue ==
    /\ At("prune")
    /\ pass.old = {}
    /\ NextRun(pass.ha.last) > now
    /\ Return
    /\ UNCHANGED <<agent, snapshots, terminating, restored, budget>>

\* Not due yet: come back when it is.  (A schedule without a next run is asked for
\* again every 30 seconds and takes no snapshot; Period always has one.)
NotDue ==
    /\ At("prune")
    /\ pass.old = {}
    /\ NextRun(pass.ha.last) > now
    /\ RequeueAfter(NextRun(pass.ha.last) - now)
    /\ UNCHANGED <<agent, snapshots, terminating, restored, budget>>

\* The schedule is due or was missed: take one snapshot, named after now.
\* One of that name may exist already.
TakeSnapshot ==
    LET name == [pvc |-> buildDataPVCName(pass.ha.spec), at |-> now]
    IN  /\ At("prune")
        /\ pass.old = {}
        /\ NextRun(pass.ha.last) <= now
        /\ \/ /\ snapshots' = snapshots \cup {name}
              /\ GoOn([pass EXCEPT !.pc = "relist", !.taken = now])
              /\ UNCHANGED budget
           \/ /\ snapshots' \in {snapshots, snapshots \cup {name}}
              /\ Fault
        /\ UNCHANGED <<agent, terminating, restored>>

\* Mutant: the status lists every snapshot the second list shows.
RelistAll ==
    /\ At("relist")
    /\ GoOn([pass EXCEPT !.pc = "record",
                         !.ha.last = pass.taken,
                         !.ha.listed = snapshotRefs(snapshots)])
    /\ UNCHANGED <<agent, snapshots, terminating, restored, budget>>

\* List again, so that the status shows what is really there.
Relist ==
    /\ At("relist")
    /\ \/ /\ GoOn([pass EXCEPT
                     !.pc = "record",
                     !.ha.last = pass.taken,
                     !.ha.listed = snapshotRefs(Live(snapshots, pass.ha.spec.retention))])
          /\ UNCHANGED budget
       \/ Fault
    /\ UNCHANGED <<agent, snapshots, terminating, restored>>

\* The status update that ends the run; the next one is asked for.
RecordSnapshot ==
    /\ At("record")
    /\ UpdateStatus(pass.ha, RequeueAfter(NextRun(pass.taken) - pass.taken))
    /\ UNCHANGED <<snapshots, terminating, restored>>

-----------------------------------------------------------------------------
(* The work queue, the snapshot-controller, storage, users and restarts.   *)

DeliverAgent ==
    /\ agentCache # agent
    /\ agentCache' = agent
    /\ queued' = TRUE
    /\ UNCHANGED <<agent, cluster, timer, pass, budget>>

TimerFires ==
    /\ timer # NoTimer
    /\ now >= timer
    /\ timer' = NoTimer
    /\ queued' = TRUE
    /\ UNCHANGED <<agent, agentCache, cluster, pass, budget>>

Tick ==
    /\ now < MaxTime
    /\ now' = now + 1
    /\ UNCHANGED <<agent, agentCache, snapshots, terminating, restored, bound, crd,
                   timer, queued, pass, budget>>

\* The storage provisioner binds the PVC the agent's pod mounts.
BindPVC ==
    /\ buildDataPVCName(agent.spec) \notin bound
    /\ bound' = bound \cup {buildDataPVCName(agent.spec)}
    /\ UNCHANGED <<agent, agentCache, snapshots, terminating, restored, crd, now,
                   timer, queued, pass, budget>>

InstallCRD ==
    /\ crd = "absent"
    /\ crd' = "installed"
    /\ UNCHANGED <<agent, agentCache, snapshots, terminating, restored, bound, now,
                   timer, queued, pass, budget>>

\* The snapshot-controller clears the finalizer of a deleted snapshot.
Finalize(s) ==
    /\ s \in terminating
    /\ snapshots' = snapshots \ {s}
    /\ terminating' = terminating \ {s}
    /\ UNCHANGED <<agent, agentCache, restored, bound, crd, now, timer, queued, pass,
                   budget>>

UserDeletes(s) ==
    /\ budget.deletes > 0
    /\ s \in snapshots \ terminating
    /\ terminating' = terminating \cup {s}
    /\ budget' = [budget EXCEPT !.deletes = @ - 1]
    /\ UNCHANGED <<agent, agentCache, snapshots, restored, bound, crd, now, timer,
                   queued, pass>>

\* The user edits the snapshot block, or asks for a restore from a snapshot
\* that is there.
EditSpec ==
    /\ budget.edits > 0
    /\ budget' = [budget EXCEPT !.edits = @ - 1]
    /\ \E m \in Modes, r \in Retentions,
          s \in {NoSource, agent.spec.source} \cup (snapshots \ terminating) :
         agent' = [agent EXCEPT !.spec = [mode |-> m, retention |-> r, source |-> s],
                                !.rv = @ + 1]
    /\ agent'.spec # agent.spec
    /\ UNCHANGED <<agentCache, cluster, timer, queued, pass>>

Restart ==
    /\ budget.restarts > 0
    /\ budget' = [budget EXCEPT !.restarts = @ - 1]
    /\ pass' = IdlePass
    /\ agentCache' = agent
    /\ queued' = TRUE
    /\ timer' = NoTimer
    /\ UNCHANGED <<agent, cluster>>

-----------------------------------------------------------------------------
reconcileSnapshot ==
    \/ SnapshotOff
    \/ SnapshotSuspended
    \/ PVCNotBound
    \/ InvalidSchedule
    \/ ListSnapshots
    \/ ReportUnsupported
    \/ clearSnapshotUnsupported
    \/ DeleteOld
    \/ NotDue
    \/ TakeSnapshot
    \/ Relist
    \/ RecordSnapshot

Worker == Reconcile \/ reconcileRestore \/ reconcileStatefulSet \/ reconcileSnapshot

Next ==
    \/ Worker
    \/ DeliverAgent
    \/ TimerFires
    \/ Tick
    \/ BindPVC
    \/ InstallCRD
    \/ \E s \in terminating : Finalize(s)
    \/ \E s \in snapshots : UserDeletes(s)
    \/ EditSpec
    \/ Restart

Spec == Init /\ [][Next]_vars

\* The worker runs, events arrive, timers fire and the PVC gets bound; time
\* passes.
Fairness ==
    /\ WF_vars(Worker)
    /\ WF_vars(DeliverAgent)
    /\ WF_vars(TimerFires)
    /\ WF_vars(Tick)
    /\ WF_vars(BindPVC)

FairSpec == Spec /\ Fairness

-----------------------------------------------------------------------------
(* Properties.                                                             *)

Quiescent == pass.pc = "idle" /\ ~queued /\ agentCache = agent

Intact == snapshots \ terminating

\* No edit, failing call, restart or deletion by a user has happened so far.
Undisturbed ==
    budget = [edits |-> MaxEdits, faults |-> MaxFaults, restarts |-> MaxRestarts,
              deletes |-> MaxDeletes]

\* The comment of the catch-up rule: a run of the schedule, missed or not,
\* yields exactly one snapshot.  Between two snapshots lies a time of it.
OneCatchUp ==
    \A s, t \in snapshots : s.at < t.at => NextRun(s.at) <= t.at

\* As long as nothing disturbs the operator, that is so, although every pass
\* reads lastScheduleTime from a cache that lags behind the status update of
\* the last run: the StatefulSet loop's status update stops a stale pass.
OneSnapshotPerRun == Undisturbed => OneCatchUp

\* The backups that a deletion of s leaves: newer and not being deleted.
Survivors(s) == {t \in Intact : Newer(t, s)}

\* No spec the user applies keeps fewer than n.
AlwaysKept(n) == n <= InitSpec.retention /\ \A r \in Retentions : n <= r

\* A snapshot that retention deletes leaves as many newer intact backups as the
\* lowest retention the user ever asks for, less the ones the user has deleted.
\* It leaves fewer than the current retention when that was raised while
\* snapshots were being deleted, which count as live.
BackupsKept ==
    [][\A s \in (terminating' \ terminating) \cap pass.old, n \in 0..InitSpec.retention :
         pass.old # pass'.old /\ AlwaysKept(n) =>
           n <= Cardinality(Survivors(s)) + (MaxDeletes - budget.deletes)]_vars

\* A snapshot being deleted falls out of the live bucket: those the list
\* condemns leave "retention" newer ones that are not being deleted.
TerminatingFallsOut ==
    [][(pass.pc = "snapshot" /\ pass'.pc \in {"clear", "prune"}) =>
         \A s \in pass'.old \ terminating :
           Cardinality(Survivors(s)) >= pass.ha.spec.retention]_vars

\* Retention catches up: once the operator is quiet, no more backups are left
\* than the spec keeps, the restore source aside.
RetentionEnforced ==
    (Quiescent /\ agent.spec.mode = "on" /\ crd = "installed") =>
        Cardinality(Intact \ {agent.spec.source}) <= agent.spec.retention

\* The doc comment of status.snapshot.snapshots: "snapshots removed by
\* retention are also removed from this list".
ListMirrors ==
    (Quiescent /\ agent.spec.mode = "on") => agent.listed \subseteq Intact

\* As long as nothing disturbs the operator, a quiet one lists no snapshot
\* that retention has removed.
ListMirrorsRetention == Undisturbed => ListMirrors

\* The snapshot a spec restores from can be read until its PVC exists.
RestoreSourceKept ==
    agent.spec.source # NoSource => agent.spec.source \in Intact \cup restored

\* Every run of the schedule is eventually accounted for.
RunsTaken ==
    \A n \in 1..(MaxTime \div Period) :
        (now >= n * Period) ~> (agent.last >= n * Period)

=============================================================================
