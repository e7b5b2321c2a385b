------------------------------- MODULE Rollout -------------------------------
(***************************************************************************)
(* The workload: the restore loop and the StatefulSet loop of a pass, the  *)
(* StatefulSet controller and the kubelet that act on what they write, and *)
(* the Pod whose phase the status reports.  Pods are read from the cache   *)
(* and not watched; the StatefulSet is watched.                            *)
(***************************************************************************)
EXTENDS Naturals

CONSTANTS
    MaxRev,       \* bound: revisions of the pod template, one per edit
    Sources,      \* may the user restore from a snapshot?  a subset of {"none", "snapshot"}
    Replicas,     \* may the user suspend the agent?  a subset of {0, 1}
    PendingRevs,  \* revisions whose Pod never starts
    UnreadyRevs,  \* revisions whose Pod runs but never becomes ready
    MaxFaults,    \* bound: API calls that return an unexpected error
    MaxRestarts,  \* bound: operator restarts
    MaxEvictions  \* bound: Pods lost to the node

VARIABLES
    agent,        \* the HermesAgent in the API server
    agentCache,   \* the HermesAgent in the informer cache
    sts,          \* the StatefulSet in the API server
    stsCache,     \* the StatefulSet in the informer cache
    pod,          \* the Pod <agent>-0 in the API server
    podCache,     \* the Pod in the informer cache
    pvc,          \* the PVC restored from the snapshot: API server and cache
    ready,        \* is the source snapshot ReadyToUse?
    queued,       \* the agent's key is in the work queue, now or on a timer
    pass,         \* the reconcile pass the single worker is running
    budget        \* what is left of the bounds

vars == <<agent, agentCache, sts, stsCache, pod, podCache, pvc, ready, queued, pass,
          budget>>

-----------------------------------------------------------------------------
(* Types.                                                                  *)

Rev == 1..MaxRev

Shapes == {"claim", "volume"}

Phases == {"None", "Pending", "Running", "Suspended"}

\* What the spec asks for: a revision of the pod template, whether the agent
\* runs, and whether its data comes from a snapshot.
Want == [rev : Rev, replicas : {0, 1}, source : {"none", "snapshot"}]

Agent == [want : Want, phase : Phases, restoreFailed : {"yes", "no"}, rv : Nat]

\* The StatefulSet: its template, its volumeClaimTemplates (an agent-data
\* claim, or none because a volume is mounted), and the readiness its own
\* controller reports.  uid 0: there is none.
StatefulSet == [uid : Nat, rev : Rev \cup {0}, replicas : {0, 1}, shape : Shapes,
                podReady : {"yes", "no"}, rv : Nat]

\* owner is the uid of the StatefulSet that created the Pod.
Pod == [phase : {"None", "Pending", "Running"}, rev : Rev \cup {0}, owner : Nat,
        podReady : {"yes", "no"}]

Pass == [pc : {"idle", "restore", "reget", "statefulset", "deletePod", "status"},
         ha : Agent]

Budget == [faults : Nat, restarts : Nat, evictions : Nat]

ASSUME RolloutAssumption ==
    /\ MaxRev \in Nat \ {0}
    /\ Sources \subseteq {"none", "snapshot"}
    /\ Replicas \subseteq {0, 1}
    /\ PendingRevs \subseteq Rev /\ UnreadyRevs \subseteq Rev
    /\ MaxFaults \in Nat /\ MaxRestarts \in Nat /\ MaxEvictions \in Nat

TypeOK ==
    /\ agent \in Agent /\ agentCache \in Agent
    /\ sts \in StatefulSet /\ stsCache \in StatefulSet
    /\ pod \in Pod /\ podCache \in Pod
    /\ pvc \in [api : {"absent", "present"}, cache : {"absent", "present"}]
    /\ ready \in BOOLEAN
    /\ queued \in BOOLEAN
    /\ pass \in Pass
    /\ budget \in Budget

NewAgent == [want |-> [rev |-> 1, replicas |-> 1, source |-> "none"],
             phase |-> "None", restoreFailed |-> "no", rv |-> 1]

NoSts(rv) == [uid |-> 0, rev |-> 0, replicas |-> 0, shape |-> "claim",
              podReady |-> "no", rv |-> rv]

NoPod == [phase |-> "None", rev |-> 0, owner |-> 0, podReady |-> "no"]

IdlePass == [pc |-> "idle", ha |-> NewAgent]

Init ==
    /\ agent = NewAgent /\ agentCache = NewAgent
    /\ sts = NoSts(0) /\ stsCache = NoSts(0)
    /\ pod = NoPod /\ podCache = NoPod
    /\ pvc = [api |-> "absent", cache |-> "absent"]
    /\ ready = FALSE
    /\ queued = TRUE
    /\ pass = IdlePass
    /\ budget = [faults |-> MaxFaults, restarts |-> MaxRestarts,
                 evictions |-> MaxEvictions]

-----------------------------------------------------------------------------
(* How a pass ends, and how it calls the API server.                       *)

At(pc) == pass.pc = pc /\ UNCHANGED <<agentCache, stsCache, podCache, ready>>

Return == pass' = IdlePass /\ UNCHANGED queued

\* An error, or a RequeueAfter of some seconds.
Retry == pass' = IdlePass /\ queued' = TRUE

GoOn(pc, ha) == pass' = [pc |-> pc, ha |-> ha] /\ UNCHANGED queued

\* A call that fails within the fault budget ends the pass.
Fault == budget.faults > 0 /\ budget' = [budget EXCEPT !.faults = @ - 1] /\ Retry

StatusWritten(ha) ==
    IF ha.phase = agent.phase /\ ha.restoreFailed = agent.restoreFailed
    THEN agent
    ELSE [agent EXCEPT !.phase = ha.phase, !.restoreFailed = ha.restoreFailed,
                       !.rv = @ + 1]

StatusConflict(ha) == ha.rv # agent.rv

UpdateStatus(ha, then) ==
    \/ /\ ~StatusConflict(ha)
       /\ agent' = StatusWritten(ha)
       /\ then
       /\ UNCHANGED budget
    \/ /\ StatusConflict(ha)
       /\ Retry
       /\ UNCHANGED <<agent, budget>>
    \/ /\ agent' \in {agent, IF StatusConflict(ha) THEN agent ELSE StatusWritten(ha)}
       /\ Fault

\* Deleting the StatefulSet ignores NotFound.
StsDeleted == IF sts.uid = 0 THEN sts ELSE NoSts(sts.rv + 1)

\* DeleteStatefulSet, then come back when the deletion has settled.
DeleteStatefulSet ==
    \/ sts' = StsDeleted /\ Retry /\ UNCHANGED budget
    \/ sts' \in {sts, StsDeleted} /\ Fault

-----------------------------------------------------------------------------
(* reconcileRestore.                                                       *)

Reconcile ==
    /\ At("idle")
    /\ queued
    /\ queued' = FALSE
    /\ pass' = [pc |-> "restore", ha |-> agentCache]
    /\ UNCHANGED <<agent, sts, pod, pvc, budget>>

\* clearRestoreFailed and on to the StatefulSet loop; the status is written
\* only when the condition was set.
RestoreDone ==
    LET ha == [pass.ha EXCEPT !.restoreFailed = "no"]
    IN  IF ha = pass.ha
        THEN GoOn("statefulset", ha) /\ UNCHANGED <<agent, budget>>
        ELSE UpdateStatus(ha, GoOn("statefulset", StatusWritten(ha)))

RestoreNotAsked ==
    /\ At("restore")
    /\ pass.ha.want.source = "none"
    /\ RestoreDone
    /\ UNCHANGED <<sts, pod, pvc>>

\* Mutant: the snapshot is not looked at before the old volume goes.
RestoreUnprovisioned ==
    /\ At("restore")
    /\ pass.ha.want.source = "snapshot"
    /\ pvc.cache = "absent"
    /\ IF stsCache.uid # 0 /\ stsCache.shape = "claim"
       THEN DeleteStatefulSet /\ UNCHANGED agent
       ELSE RestoreDone /\ UNCHANGED sts
    /\ UNCHANGED <<pod, pvc>>

\* The PVC does not exist yet: getReadySnapshot, then create it.  A source
\* that is missing or not ready is reported, and the pass ends.
ProvisionRestore ==
    LET failed == [pass.ha EXCEPT !.restoreFailed = "yes"]
    IN  /\ At("restore")
        /\ pass.ha.want.source = "snapshot"
        /\ pvc.cache = "absent"
        /\ \/ ~ready /\ UpdateStatus(failed, Retry) /\ UNCHANGED pvc
           \/ /\ ready
              /\ pvc' = [pvc EXCEPT !.api = "present"]
              /\ GoOn("reget", pass.ha)
              /\ UNCHANGED <<agent, budget>>
           \/ /\ pvc' \in {pvc, [pvc EXCEPT !.api = IF ready THEN "present" ELSE @]}
              /\ Fault
              /\ UNCHANGED agent
        /\ UNCHANGED <<sts, pod>>

\* Reshape: a StatefulSet with the claim template is deleted once.
ReshapeForRestore ==
    /\ IF stsCache.uid # 0 /\ stsCache.shape = "claim"
       THEN DeleteStatefulSet /\ UNCHANGED agent
       ELSE RestoreDone /\ UNCHANGED sts
    /\ UNCHANGED <<pod, pvc>>

\* The PVC read back after the create may not be in the cache yet.
RegetRestore ==
    /\ At("reget")
    /\ IF pvc.cache = "absent"
       THEN Retry /\ UNCHANGED <<agent, sts, pod, pvc, budget>>
       ELSE ReshapeForRestore

RestoreProvisioned ==
    /\ At("restore")
    /\ pass.ha.want.source = "snapshot"
    /\ pvc.cache = "present"
    /\ ReshapeForRestore

-----------------------------------------------------------------------------
(* reconcileStatefulSet.                                                   *)

\* buildStatefulSet: a restored volume is mounted, otherwise the claim comes
\* from a template.
Shape(want) == IF want.source = "snapshot" THEN "volume" ELSE "claim"

\* Mutant: the revision is counted up once more.
StsWrittenNextRev(uid) ==
    [sts EXCEPT !.uid = uid, !.rev = pass.ha.want.rev + 1,
                !.replicas = pass.ha.want.replicas,
                !.shape = Shape(pass.ha.want), !.rv = @ + 1]

StsWritten(uid) ==
    [sts EXCEPT !.uid = uid, !.rev = pass.ha.want.rev,
                !.replicas = pass.ha.want.replicas,
                !.shape = Shape(pass.ha.want), !.rv = @ + 1]

\* Mutant: the template is left out of the hash.
SameHashReplicas == stsCache.replicas = pass.ha.want.replicas

\* Is the hash annotation of the cached StatefulSet the desired one?
SameHash ==
    stsCache.rev = pass.ha.want.rev /\ stsCache.replicas = pass.ha.want.replicas

\* uids are never reused: the version at creation serves as one.
CreateStatefulSet ==
    /\ At("statefulset")
    /\ stsCache.uid = 0
    /\ IF sts.uid # 0
       THEN Retry /\ UNCHANGED <<sts, budget>>
       ELSE \/ sts' = StsWritten(sts.rv + 1) /\ GoOn("status", pass.ha) /\ UNCHANGED budget
            \/ sts' \in {sts, StsWritten(sts.rv + 1)} /\ Fault
    /\ UNCHANGED <<agent, pod, pvc>>

\* volumeClaimTemplates cannot be updated: delete, and recreate next time.
ReshapeStatefulSet ==
    /\ At("statefulset")
    /\ stsCache.uid # 0
    /\ stsCache.shape # Shape(pass.ha.want)
    /\ DeleteStatefulSet
    /\ UNCHANGED <<agent, pod, pvc>>

\* Mutant: the Pod is left to the StatefulSet controller.
UpdateStatefulSetOnly ==
    /\ At("statefulset")
    /\ stsCache.uid # 0 /\ stsCache.shape = Shape(pass.ha.want) /\ ~SameHash
    /\ IF sts.rv # stsCache.rv
       THEN Retry /\ UNCHANGED <<sts, budget>>
       ELSE sts' = StsWritten(sts.uid) /\ GoOn("status", pass.ha) /\ UNCHANGED budget
    /\ UNCHANGED <<agent, pod, pvc>>

\* A rolling update; a Pod that the cache does not show running is deleted
\* afterwards, because the StatefulSet controller would wait for it.
UpdateStatefulSet ==
    LET podWasRunning == podCache.phase = "Running"
    IN  /\ At("statefulset")
        /\ stsCache.uid # 0
        /\ stsCache.shape = Shape(pass.ha.want)
        /\ ~SameHash
        /\ IF sts.rv # stsCache.rv
           THEN Retry /\ UNCHANGED <<sts, budget>>
           ELSE \/ /\ sts' = StsWritten(sts.uid)
                   /\ GoOn(IF podWasRunning THEN "status" ELSE "deletePod", pass.ha)
                   /\ UNCHANGED budget
                \/ sts' \in {sts, StsWritten(sts.uid)} /\ Fault
        /\ UNCHANGED <<agent, pod, pvc>>

DeletePod ==
    /\ At("deletePod")
    /\ \/ pod' = NoPod /\ GoOn("status", pass.ha) /\ UNCHANGED budget
       \/ pod' \in {pod, NoPod} /\ Fault
    /\ UNCHANGED <<agent, sts, pvc>>

KeepStatefulSet ==
    /\ At("statefulset")
    /\ stsCache.uid # 0
    /\ stsCache.shape = Shape(pass.ha.want)
    /\ SameHash
    /\ GoOn("status", pass.ha)
    /\ UNCHANGED <<agent, sts, pod, pvc, budget>>

\* deriveStatus: the phase of the cached Pod, Pending when there is none.
deriveStatus(want, p) ==
    IF want.replicas = 0 THEN "Suspended"
    ELSE IF p.phase = "Running" THEN "Running" ELSE "Pending"

\* Mutant: a Pending agent is not polled.
UpdatePhaseNoPoll ==
    LET ha == [pass.ha EXCEPT !.phase = deriveStatus(pass.ha.want, podCache)]
    IN  /\ At("status")
        /\ UpdateStatus(ha, Return)
        /\ UNCHANGED <<sts, pod, pvc>>

\* The status update that ends the loop; a Pending agent is polled.
UpdatePhase ==
    LET ha == [pass.ha EXCEPT !.phase = deriveStatus(pass.ha.want, podCache)]
    IN  /\ At("status")
        /\ UpdateStatus(ha, IF ha.phase = "Pending" THEN Retry ELSE Return)
        /\ UNCHANGED <<sts, pod, pvc>>

-----------------------------------------------------------------------------
(* Informers.                                                              *)

DeliverAgent ==
    /\ agentCache # agent
    /\ agentCache' = agent
    /\ queued' = TRUE
    /\ UNCHANGED <<agent, sts, stsCache, pod, podCache, pvc, ready, pass, budget>>

DeliverSts ==
    /\ stsCache # sts
    /\ stsCache' = sts
    /\ queued' = TRUE
    /\ UNCHANGED <<agent, agentCache, sts, pod, podCache, pvc, ready, pass, budget>>

\* Pods and PVCs are cached but not watched: nobody is woken.
DeliverPod ==
    /\ podCache # pod
    /\ podCache' = pod
    /\ UNCHANGED <<agent, agentCache, sts, stsCache, pod, pvc, ready, queued, pass, budget>>

DeliverPvc ==
    /\ pvc.cache # pvc.api
    /\ pvc' = [pvc EXCEPT !.cache = pvc.api]
    /\ UNCHANGED <<agent, agentCache, sts, stsCache, pod, podCache, ready, queued, pass,
                   budget>>

-----------------------------------------------------------------------------
(* The StatefulSet controller, the kubelet, the garbage collector.         *)

\* The frame of what the cluster does to Pods on its own.
PodChanges ==
    UNCHANGED <<agent, agentCache, sts, stsCache, podCache, pvc, ready, queued, pass>>

StsCreatesPod ==
    /\ sts.uid # 0 /\ sts.replicas = 1 /\ pod = NoPod
    /\ pod' = [phase |-> "Pending", rev |-> sts.rev, owner |-> sts.uid, podReady |-> "no"]
    /\ PodChanges /\ UNCHANGED budget

\* A Pod of an old revision is replaced only once it runs and is ready; a
\* suspended agent's Pod is removed.
StsDeletesPod ==
    /\ sts.uid # 0 /\ pod.owner = sts.uid
    /\ \/ pod.podReady = "yes" /\ pod.rev # sts.rev
       \/ sts.replicas = 0
    /\ pod' = NoPod
    /\ PodChanges /\ UNCHANGED budget

\* The Pod of a deleted StatefulSet is garbage.
CollectPod ==
    /\ pod # NoPod /\ pod.owner # sts.uid
    /\ pod' = NoPod
    /\ PodChanges /\ UNCHANGED budget

PodStarts ==
    /\ pod.phase = "Pending" /\ pod.rev \notin PendingRevs
    /\ pod' = [pod EXCEPT !.phase = "Running"]
    /\ PodChanges /\ UNCHANGED budget

PodReady ==
    /\ pod.phase = "Running" /\ pod.podReady = "no" /\ pod.rev \notin UnreadyRevs
    /\ pod' = [pod EXCEPT !.podReady = "yes"]
    /\ PodChanges /\ UNCHANGED budget

\* The node loses the Pod.
PodEvicted ==
    /\ pod # NoPod
    /\ budget.evictions > 0
    /\ budget' = [budget EXCEPT !.evictions = @ - 1]
    /\ pod' = NoPod
    /\ PodChanges

\* The StatefulSet controller reports readiness in the StatefulSet's status,
\* which is an event for the operator.
StsReportsStatus ==
    /\ sts.uid # 0
    /\ sts.podReady # pod.podReady
    /\ sts' = [sts EXCEPT !.podReady = pod.podReady, !.rv = @ + 1]
    /\ UNCHANGED <<agent, agentCache, stsCache, pod, podCache, pvc, ready, queued, pass,
                   budget>>

-----------------------------------------------------------------------------
(* Users, the snapshot-controller, restarts.                               *)

EditSpec ==
    /\ agent.want.rev < MaxRev
    /\ \E r \in Replicas, s \in Sources :
         agent' = [agent EXCEPT !.want = [rev |-> @.rev + 1, replicas |-> r, source |-> s],
                                !.rv = @ + 1]
    /\ UNCHANGED <<agentCache, sts, stsCache, pod, podCache, pvc, ready, queued, pass,
                   budget>>

SnapshotReady ==
    /\ ~ready
    /\ ready' = TRUE
    /\ UNCHANGED <<agent, agentCache, sts, stsCache, pod, podCache, pvc, queued, pass,
                   budget>>

Restart ==
    /\ budget.restarts > 0
    /\ budget' = [budget EXCEPT !.restarts = @ - 1]
    /\ pass' = IdlePass
    /\ agentCache' = agent /\ stsCache' = sts /\ podCache' = pod
    /\ pvc' = [pvc EXCEPT !.cache = pvc.api]
    /\ queued' = TRUE
    /\ UNCHANGED <<agent, sts, pod, ready>>

-----------------------------------------------------------------------------
reconcileRestore ==
    RestoreNotAsked \/ ProvisionRestore \/ RegetRestore \/ RestoreProvisioned

reconcileStatefulSet ==
    \/ CreateStatefulSet
    \/ ReshapeStatefulSet
    \/ UpdateStatefulSet
    \/ DeletePod
    \/ KeepStatefulSet
    \/ UpdatePhase

Worker == Reconcile \/ reconcileRestore \/ reconcileStatefulSet

Cluster ==
    \/ StsCreatesPod
    \/ StsDeletesPod
    \/ CollectPod
    \/ PodStarts
    \/ PodReady
    \/ StsReportsStatus

Next ==
    \/ Worker
    \/ DeliverAgent \/ DeliverSts \/ DeliverPod \/ DeliverPvc
    \/ Cluster
    \/ PodEvicted
    \/ EditSpec
    \/ SnapshotReady
    \/ Restart

Spec == Init /\ [][Next]_vars

\* The worker runs, events arrive, the cluster's controllers act and the
\* snapshot becomes ready.
Fairness ==
    /\ WF_vars(Worker)
    /\ WF_vars(DeliverAgent) /\ WF_vars(DeliverSts)
    /\ WF_vars(DeliverPod) /\ WF_vars(DeliverPvc)
    /\ WF_vars(StsCreatesPod) /\ WF_vars(StsDeletesPod) /\ WF_vars(CollectPod)
    /\ WF_vars(PodStarts) /\ WF_vars(PodReady) /\ WF_vars(StsReportsStatus)
    /\ WF_vars(SnapshotReady)

FairSpec == Spec /\ Fairness

-----------------------------------------------------------------------------
(* Properties.                                                             *)

\* The agent keeps its current volume until the restored one is there: the
\* StatefulSet is taken down for a restore only when the PVC exists.
VolumeBeforeReshape ==
    [][(sts.uid # 0 /\ sts'.uid = 0 /\ pass.ha.want.source = "snapshot")
          => pvc.api = "present"]_vars

\* The operator has nothing left to do: no pass, no key, no event it watches.
Quiescent == pass.pc = "idle" /\ ~queued /\ agentCache = agent /\ stsCache = sts

\* An operator at rest has left the StatefulSet the spec asks for, whatever
\* deletions, recreations and conflicts it took to get there.
RestOnSpec ==
    Quiescent =>
        /\ sts.uid # 0
        /\ sts.rev = agent.want.rev
        /\ sts.replicas = agent.want.replicas
        /\ sts.shape = Shape(agent.want)
        /\ agent.restoreFailed = "no"

\* What hermesagent_types.go says of status.phase, "mirroring the underlying pod
\* phase": once the user stops editing, it comes to mirror the Pod for good.
PhaseMirrorsPod ==
    <>[](agent.phase = deriveStatus(agent.want, pod))

\* What holds of it, through faults, restarts and Pods that never start or never
\* become ready: a Pod that runs for good comes to be shown Running, although
\* Pods are not watched and a Pod that never becomes ready causes no event of the
\* StatefulSet.  Not the other way round: see PhaseMirrorsPod.
RunningIsShown ==
    <>[](agent.want.replicas = 1 /\ pod.phase = "Running") => <>[](agent.phase = "Running")

\* The Pod is the one the spec asks for.
PodCurrent ==
    IF agent.want.replicas = 0 THEN pod = NoPod ELSE pod.rev = agent.want.rev

\* What the code promises of a rollout: once the user stops editing, the Pod is
\* replaced by one of the current revision.
RolloutCompletes == <>[]PodCurrent

\* What holds of it through faults and restarts: only a Pod that is
\* not ready may stay behind at an old revision.
ReadyPodReplaced ==
    <>[](PodCurrent \/ (agent.want.replicas = 1 /\ pod # NoPod /\ pod.podReady = "no"))

\* No API call has failed, the operator has not restarted, and whenever the
\* StatefulSet loop decides on the Pod, the cache shows none running that is not.
DecidesUndisturbed ==
    /\ budget.faults = MaxFaults /\ budget.restarts = MaxRestarts
    /\ pass.pc = "statefulset" /\ podCache.phase = "Running" => pod.phase = "Running"

\* A Pod that cannot start does not keep an old revision, although the
\* StatefulSet controller waits for it: the operator deletes it along with the
\* update.  The conditions are needed, see RolloutCompletes: a fault or a restart
\* between the two calls, or a stale cache, and the Pod stays.
StuckPodReplaced ==
    []DecidesUndisturbed => <>[](PodCurrent \/ pod.phase = "Running")
=============================================================================
