# TLA+ models of the Hermes agent operator

The operator keeps one `HermesAgent` custom resource in step with the objects
that make up a running agent. It is a controller-runtime controller: one
worker takes a key from a work queue, reads the agent from an informer cache
and runs a fixed sequence of resource loops. This directory models that
sequence together with everything it races with: lagging caches, user edits,
rejected and lost API calls, other controllers, timers and operator restarts.

## 1. The system

| Part | Source (`src/`) | State it keeps | Operations | Module |
|---|---|---|---|---|
| Reconcile pass, resource loops | `internal/usecase/hermesagent.go`, `hermesagent_{hermes_configmap,hermes_secret,searxng_*,serviceaccount,role,service,ingress,networkpolicy,conditions}.go` | the managed objects, `status.managedResources`, the Ready condition | get from cache, create, update, delete, status update, `markReconcileFailed` | `ManagedResources` |
| Controller wiring, API access | `internal/controller/hermesagent_controller.go`, `internal/infras/kubernetes.go` | work queue, caches | watches, optimistic locking, NotFound ignored on delete | in every module |
| StatefulSet loop | `hermesagent_statefulset.go` | StatefulSet with its hash annotations, `status.phase` | create, update, delete a stuck Pod, reshape, phase | `Rollout` (workload), `ManagedResources` (as the last loop) |
| Restore | `hermesagent_restore.go` | restored PVC, RestoreFailed | provision, reshape | `Rollout`, `Snapshot` |
| Periodic snapshots | `hermesagent_snapshot.go` | VolumeSnapshots, `status.snapshot`, SnapshotUnsupported | list, delete, take, record | `Snapshot` |
| Egress Secrets | `hermesagent_egress_ca_secret.go`, `hermesagent_egress_secret.go`, `hermesagent_statefulset_egress.go` | minted CA, proxy tokens | mint, validate, rotate, wait | `Egress`, `TokenIssuer` |
| Config documents | `hermesagent_hermes_configmap.go` | none (pure) | resolve, merge, default | `ConfigDocuments` |
| Pod diagnosis | `hermesagent_statefulset_podstatus.go` | InitFailed condition, reason | classify | `PodDiagnosis` |
| Init scripts | `hermesagent_statefulset_hermes_scripts.go` | profiles, packages and manifests on the data volume | install, prune, record | `InitScripts` |
| Heartbeat | `heartbeat_reporter.go` | ticker goroutine | send, close | not modelled |
| Builders, start-up, CRD types, chart | the rest | none | rendering, flags, generated code | not modelled |

**How the parts interact.** A pass runs ConfigMap, Secret, SearXNG ConfigMap,
SearXNG Secret, ServiceAccount, Role and RoleBinding, Service, Ingress,
NetworkPolicy, egress CA, egress Secret, restore, StatefulSet, snapshots, in
this order. A loop that returns an error or a non-zero result ends the pass.
Reads come from caches, except for VolumeSnapshots, which are read live. Writes
go to the API server and carry a resource version. Every owned object is
watched, so each write is an event that wakes the worker again; Pods, PVCs and
VolumeSnapshots are not watched. Status updates send the whole status at the
version the pass read, or the version its last accepted update returned.

**What is hard.** There is a single worker, so passes of one agent do not
overlap; all races are between the pass and the outside. A pass works on a
copy of the agent and on caches that lag independently of each other; a call
may be rejected, fail, or succeed and lose its answer; several handlers are two
calls of which the second may never happen; what is not watched must be polled.
The init scripts have no operator to watch them: they are cut short anywhere, run
again from the start on what they left behind, and see a volume that was built by
any sequence of earlier specs.
`PROJECT.json` lists the hazards at their lines.

## 2. Modules

The modules of the operator share a scheme. `agent` is the `HermesAgent` in the API
server, `agentCache` the informer's copy, `pass` the pass of the worker with
the copy `pass.ha` it works on, `queued` the key in the work queue. A step of
the pass is one API call together with the cached reads right before it (in
`Egress` the reads of a loop and its call are separate steps): a
delivery between a cached read and the call that uses it has the same effect as
one right after the call, so nothing is lost by joining them. An accepted
status update that changes nothing does not move the resource version. Errors
and requeues of a few seconds put the key back at once: time is not part of
`ManagedResources` and `Rollout`. A cache jumps to the latest version of an
object; the intermediate versions a watch would also deliver are skipped.
Calls fail within a budget, without effect or with the effect but no answer.
A restart drops the pass and the timers, lists the caches afresh and enqueues
the agent.

### `ManagedResources` (with `MCManagedResources`, `ManagedResourcesProofs`)
The pass over ten loops as one state machine. `LoopOrder` is the pipeline:
`ReconcileOrder` is the code's, instances may leave loops out. `Wants` is the
set of specs a user may apply, each giving the content every loop must produce,
`Absent` when a loop has nothing to produce and `Invalid` for a config document
that does not resolve. An object is its content (a number), the config hash of
the pod template (StatefulSet only) and a resource version.

* `CreateObject`, `UpdateObject`, `KeepObject` are the branches of a loop whose
  object is wanted; `Drop` the branch of one that is not; the Role loop has two
  objects and one status update. `reconcileX` puts them together per loop.
* `UpdateStatus` is the status update of a loop. It happens after a create,
  always on the delete branch, and on every pass in the StatefulSet loop, which
  also sets Ready.
* `markReconcileFailed` is the deferred handler of a failing loop.
* `BuildHash` reads the ConfigMap from the cache, as the code does: right after
  an update of the ConfigMap the hash is the old one, and only the event of that
  update leads to the right one.
* The SearXNG Secret is minted: created once, never compared. The per-key
  credentials inside the Hermes Secret are not told apart.

Left out here: the egress, restore and snapshot loops (an agent without these
features: they write nothing), the reshape of the StatefulSet and the Pod
(`Rollout`), and the ten-second poll of a Pending agent. The poll could only
wake the worker more often, so leaving it out makes `QuiescentConverged`
harder to satisfy, never easier.

### `Snapshot` (with `MCSnapshot`, `SnapshotProofs`)
The snapshot loop step by step, a discrete clock, the RequeueAfter timer and
the snapshot-controller. A snapshot is named by its PVC and its time, as in
`buildSnapshotName`; PVC 0 is the StatefulSet's own, PVC n is restored from the
snapshot taken at n. The schedule is the multiples of `Period`. The rest of
the pass is `reconcileRestore` (whether the source can be provisioned) and
`reconcileStatefulSet`, which matters because its status update runs on every
pass and stops a pass that read a stale agent. The phase and the Ready
condition are not kept here; a Pod that is Pending for a reason other than its
volume counts as a fault. Two snapshots within one tick have the same name, as
two within one second do in the code (AlreadyExists is ignored).

### `Rollout` (with `RolloutProofs`)
The restore loop and the StatefulSet loop with the StatefulSet controller, the
kubelet and the garbage collector. A spec is a revision of the pod template,
the replica count and whether the data comes from a snapshot. `shape` is the
set of volumeClaimTemplates, which cannot be updated. `PendingRevs` and
`UnreadyRevs` are templates whose Pod never starts or never becomes ready. The
write of the Ready condition by a failing StatefulSet loop is left out: it
moves the version of the agent and wakes the worker, which the retry of the
same failure does as well. Read errors of the Pod cache (phase Unknown) and
finished Pods are left out.

### `Egress` (with `MCEgress`, `TokenIssuer`, `EgressProofs`, `EgressSettledProofs`)
The CA loop, the egress Secret loop and the part of the StatefulSet loop that
depends on them. `api` holds the Secrets (the two of the operator and those of
users), `cache` the operator's copies, which lag one by one; `template` is what
the pod template was built from: the spec and the contents of the Secrets it
hashes. `pass.at` names the next step of a pass; the steps that call the API
server are `Calls`, and a pass may fail or the operator restart before each. A
call that takes effect but loses its answer is the call followed by a failure at
the step behind it (`BehindCalls`).

* `ValidateEgressPorts`, `Resolvable`, `Clash` and `hostsOverlap` are the
  validation in `api/v1alpha1/hermesagent_egress.go`: which credentials are
  present, that an env var and a host belong to one of them only, wildcards
  included.
* `buildEgressSecret` keeps the tokens of the Secret it read and mints the
  missing ones; a token is the credential it was minted for and a serial number.
* `Sync` delivers an object to the cache and wakes the worker when the
  controller watches it: the agent, owned Secrets and the user Secrets a spec
  refers to. A user's Secret at the name of the operator's CA is not among them.
* `TokenIssuer` is the abstract specification: a credential gets a token, keeps
  it, and loses it. `Egress` implements it under the mapping `IssuedTokens`.

`proxy.yaml` is reduced to the source, token and hosts of each credential, a CA
to an identity and whether it is valid. The Ready condition that a failing loop
writes is left out here (it is in `ManagedResources`); the failing pass itself
repeats, which wakes the worker at least as often. The version of the StatefulSet
and the status update behind the template are in `ManagedResources` and `Rollout`.

### `ConfigDocuments` and `PodDiagnosis`
Pure operators without state of their own. `ConfigDocuments` gives the entry of a
profile in the bootstrap ConfigMap: sources and their precedence, errors, and
the defaults the operator fills in, over documents reduced to the three paths it
may fill in. `PodDiagnosis` reads a Pod's status as the operator does, for the
InitFailed condition and `status.reason`. `InitScripts` uses both: the documents
are what the scripts copy, and the Pod it models is what the diagnosis is about.

### `InitScripts` (with `MCInitScripts`, `InitPlanProofs`, `InitScriptsProofs`)
The start of a Pod. `Plan` lists the scripts of the init containers in the order
`hermesagent_statefulset_hermes.go` and `hermesagent_statefulset.go` build them:
the agent's own containers, the scripts of `hermes.initScripts`, init-egress, and
behind it (`LaterContainers`) SearXNG's container and those of
`spec.initContainers`. One step is one command of a
script. `vol`, `man`, `pkgs` and `profMan` are the data volume: the profiles,
the manifests of what was installed, the package directories, the manifest of
named profiles. `Interrupt` kills a container between two commands, and
`InterruptWrite` while it writes a manifest, whose redirection has truncated the
file; the kubelet runs the container again from its first script. `EditSpec` and
`Evict` replace the Pod on the same volume; `HandDelete` is a user who removes a
profile directory.

Failures that a script does not see are modelled where the scripts have them: a
command behind `|| true` (`Tolerated`), the creation of a profile among them
(`hermesagent_statefulset_hermes_scripts.go:479`), and the home of a profile that
the workspace script asks for inside a command substitution (`LoseProfileHome`,
line 35), after which the files go to the working directory (`CopyAstray`). A
profile that was not created makes the later hermes commands of its container
fail, and with them the container (`HermesFails`), unless they are tolerated as
well.

* Installed items are counted, so a second copy (a cron job added twice) shows.
* Plugins, skills, bundles, crons and workspace files follow one scheme: prune
  what the manifest has and the spec has not, install, write the manifest. The
  order of packages in a list is abstracted.
* `apiServer` stands for the API server and the webhook, which give the `.env`
  the same key; `camofox` for Camofox with a volume of its own. The container
  that changes the owner of the volume has no state. What containers of users do
  is taken not to touch what the operator manages.
* The Hermes CLI is external, modelled from how the scripts use it: `profile
  create` does nothing when the profile exists, a clone copies `config.yaml`,
  `.env` and skills, a distribution install keeps the data of a profile and ships its
  cron jobs paused.

## 3. What the runs check

| Run | Bounds | Properties |
|---|---|---|
| `managed_faults` | ConfigMap, SearXNG Secret, StatefulSet; 2 generations of 3 specs, one broken; 1 fault; fair | `TypeOK`, `QuiescentConverged`, `NoPhantomManaged`, `ReadyVerdictCurrent`, `MintedValueStable`, `Converges`, `FailureReported` |
| `managed_drift` | all ten loops; the objects every agent has, Role, RoleBinding and Service wanted; 1 deletion by others, 1 restart | `QuiescentConverged` |
| `snapshot_schedule` | period 2, 6 ticks, 1 fault, 1 restart, 1 user deletion; fair | `TypeOK`, `OneSnapshotPerRun`, `ListMirrorsRetention`, `RunsTaken` |
| `snapshot_retention` | period 1, 3 ticks, CRD installed at any time, 1 edit of any field, 1 fault, 1 restart | `RetentionEnforced`, `BackupsKept` |
| `rollout_restore` | 2 revisions, restore, suspension, 1 fault, 1 restart, 1 eviction, first Pod never ready | `TypeOK`, `RestOnSpec`, `VolumeBeforeReshape` |
| `rollout_liveness` | 3 revisions, the second never starts, the third never becomes ready; 1 fault, 1 restart; fair | `ReadyPodReplaced`, `StuckPodReplaced`, `RunningIsShown` |
| `egress` | 2 providers, 6 specs (off with a CA, on, own CA and hosts, own CA at the operator's name, host clash, port clash); 2 edits, failures or restarts; fair | `TypeOK`, `TokensAgree`, `OneRulePerRequest`, `TemplateComplete`, `QuiescentIsSettled`, `IssuesTokens`, `Settles` |
| `init_scripts` | 1 named profile, 2 items, 2 distributions, 8 specs; 2 edits, 2 faults; fair | `TypeOK`, `ProxyEnvHidden`, `FailureReported`, `ServesDeclared`, `ExactWhenUndisturbed`, `ResumedTracked`, `AgentUsesProxy`, `DefaultsFillGaps`, `StartCompletes` |

* `QuiescentConverged`: with an empty queue and no event under way, every
  object is what the current spec asks for, the template carries the hash of
  the ConfigMap the Pod mounts, and Ready is True for the current generation.
* `NoPhantomManaged`: a quiet operator lists no object that is gone.
* `ReadyVerdictCurrent`: Ready changes only to a verdict on the generation that
  is current at that moment.
* `MintedValueStable`: a generated credential is never replaced in place.
* `Converges`, `FailureReported`: at a valid spec the operator comes to rest; at
  a broken one it says so for the current generation.
* `OneSnapshotPerRun`, `RunsTaken`: no run of the schedule is taken twice as
  long as nothing disturbs the operator (no edit, fault, restart or deletion by
  a user; only caches lag), and no run is lost whatever happens.
* `RetentionEnforced`, `BackupsKept`: retention is reached, and what it deletes
  leaves as many newer intact backups as the lowest retention the user asks for,
  less the ones the user has deleted. `ListMirrorsRetention`: undisturbed, the
  status list mirrors it.
* `VolumeBeforeReshape`, `RestOnSpec`: the old volume stays until the new one
  exists; a resting operator has left the right StatefulSet.
* `ReadyPodReplaced`: through faults and restarts, only a Pod that is not ready may
  stay behind at an old revision. `StuckPodReplaced`: one that cannot start does not,
  provided that no call fails, the operator does not restart, and the Pod cache shows
  no Pod running that is not. Without these conditions it fails, see below.
* `RunningIsShown`: a Pod that runs for good comes to be shown Running. A Pod that
  does not may be shown Running too, see below.
* `TokensAgree`, `IssuesTokens`: agent and proxy hold the same token of a
  credential at any time, and no stale copy, conflict, restart or edit replaces it.
* `OneRulePerRequest`: no request falls under the rules of two credentials.
* `TemplateComplete`: no Pod is rolled out with the proxy before the Secrets it
  reads are there.
* `QuiescentIsSettled`, `Settles`: a quiet operator has noticed every rotated
  key, CA and token, and comes to be quiet unless the spec cannot be resolved.
* `ServesDeclared`: wherever earlier starts were cut short and whichever failures
  went unseen, an agent starts with the declared config, plugins, skills, cron jobs
  and `.env` of every profile, and with the profile and its workspace files unless the
  workspace script lost the profile's home. The bundles, the packages and the
  distribution are excepted. `ExactWhenUndisturbed`: as long as no start was cut short
  and no failure went unseen, it starts on exactly what is declared.
* `ProxyEnvHidden`, `AgentUsesProxy`: no script of the agent's containers or of
  `hermes.initScripts` finds the proxy's env in a `.env`; the agent does, exactly
  once, and with a token in place of each key. The containers behind init-egress are
  excepted, see below.
* `ResumedTracked`: a job of a distribution that runs is allowlisted or will be
  paused. `DefaultsFillGaps`: a default never replaces a value that the user set on
  its path (a scalar in the place of the whole section is replaced, as in the code).
* `FailureReported` (of `InitScripts`): the container that is down is named, and
  none that waits its turn. `StartCompletes`: the agent comes up in the end.

The bounds are small but each covers the case it is for: two generations give
an edit in the middle of a pass and one while the status update is under way;
one fault gives a lost answer at every call; a three-loop pipeline has a loop
before, at and after the object of interest; six ticks are three runs of the
schedule; two edits of a spec take an item away and bring it back, and two faults
cut short a start and the one that should repair it; two events of the egress run
rotate a key and fail the write that follows; with three revisions a Pod that runs is
followed by one that never starts, and that by one that never becomes ready.
`OneRulePerRequest` meets few host patterns in the run; its theorem covers all of
them. `TokensAgree` compares the token under a credential's name; that its aliases
hold the same one is not compared. Deadlock is not checked: a quiet operator
legitimately waits.

### Where the code and its documentation disagree
Each of these runs expects a violation; `PROJECT.json` quotes the line.

| Run | What happens |
|---|---|
| `snapshot_source` | `existingSnapshot` set while a pass deletes: the source is deleted before it is restored |
| `rollout_restart` | `RolloutCompletes`: a restart between the update of the StatefulSet and the deletion of the stuck Pod leaves that Pod at the old revision |
| `init_packages` | the last package is removed from a list: the script does nothing, the packages stay installed |
| `init_proxy_env` | `ProxyEnvAgentOnly`: a container of `spec.initContainers` runs behind init-egress, with the proxy's env in every `.env` and the proxy not yet up |

Further configurations are kept beside the runs. Each checks one formula that states
what a document or a comment says, and TLC finds it violated:

| Configuration | Formula | The text, and what the code does |
|---|---|---|
| `rollout_unready.cfg` | `RolloutCompletes` | `README.md:869` "Changing any key/value triggers a rolling restart of the StatefulSet's pods": a Pod that runs but never becomes ready is replaced by nobody (`hermesagent_statefulset.go:125`, `249-251`) |
| `rollout_stale.cfg` | `RolloutCompletes` | `hermesagent_statefulset.go:131-133` "Delete it so it is recreated immediately at the new revision": the Pod cache still shows the old Running Pod and hides that its successor is stuck (line 119) |
| `rollout_phase.cfg` | `PhaseMirrorsPod` | `hermesagent_types.go:216` "mirroring the underlying pod phase": the pass that the StatefulSet's event wakes reads the old Running Pod from the cache; phase Running is not polled (line 165), so it stays while the new Pod is Pending |
| `snapshot_list.cfg` | `ListMirrors` | `hermesagent_types.go:258-259` "snapshots removed by retention are also removed from this list": the list is written only when a snapshot is taken (`hermesagent_snapshot.go:199`) |
| `managed_list.cfg` | `ManagedListComplete` | `hermesagent_types.go:171` "Rebuilt on every reconcile": an entry is written only behind the create; a status conflict right after it leaves the object out for good |
| `init_create.cfg` | `ProfilesCreated` | `README.md:554` "named Hermes profiles that are created and configured": `hermes profile create ... \|\| true` ignores every failure, and a profile without a config, a `.env`, plugins, skills or crons has no other command that needs it (`hermesagent_statefulset_hermes_scripts.go:479`) |
| `init_workspace.cfg` | `WorkspaceCopied` | `README.md:573` "workspace files copied to the profile home dir": `profile_home=$(dirname "$(hermes config path ...)")` loses the status of hermes, and the files go to the working directory (line 35) |
| `init_user_scripts.cfg` | `UserScriptsLast` | `README.md:533` "Scripts run after all operator-managed init containers": init-egress (`hermesagent_statefulset_hermes.go:586`) and SearXNG's container come behind them. Were the text right, the scripts would see the proxy's env |

Two more formulas have no configuration of their own:

* `OneCatchUp` as an invariant of `snapshot_schedule`: a run that was taken but
  not recorded (an edit, a failed update or a restart in between,
  `hermesagent_snapshot.go:173-178`) is taken a second time.
* `TerminatingFallsOut` in `snapshot_schedule`: a Terminating snapshot that is not
  the oldest displaces an intact one from the retained ones
  (`hermesagent_snapshot.go:133`, `185-188`).

And these are visible in the models, where the properties leave room for them
(each exception is stated in the property's comment or by its bound). The files
are `internal/usecase/hermesagent_*`:

* The `multiplex_profiles` default is generated although no config document is
  declared (`hermes_configmap.go:281-284`), but only a declared document is copied
  to the profile (`statefulset_hermes.go:247`).
* With egress turned off, the proxy's env and tokens stay in a `.env` that no
  other script rewrites (`statefulset_hermes.go:242`).
* An interrupted switch of a distribution or of packages that is reverted finds
  a manifest that matches and keeps what the interruption left
  (`statefulset_hermes_scripts.go:291`, `577`). An item installed right before
  an interruption is in no manifest: it is not pruned when the spec drops it, and
  a cron job is added twice. A resumed job is not tracked either.
* The last named profile is never cleaned up: the clean-up script runs only when
  there are named profiles (`statefulset_hermes.go:405`).
* A user's CA at the operator's own name is deleted by a pass that works on an
  earlier spec (`egress_ca_secret.go:39-42`); when such a reference is dropped,
  the user's Secret is taken for the operator's. Its rotation is not watched.
* Retention lowered and raised again while the snapshots it condemned are still
  Terminating: they count as live (`snapshot.go:133`), so a prune in between leaves
  fewer intact ones than the raised retention. `BackupsKept` therefore speaks of the
  lowest retention asked for.
* An alias that becomes a credential of its own gets the token of the credential it
  belonged to (`egress_secret.go:126`).

### Fairness
`FairSpec` assumes that the worker goroutine keeps running, that watch events
are delivered, that timers fire and time passes, and that the cluster's own
controllers (StatefulSet controller, kubelet, garbage collector, provisioner,
snapshot-controller) act; in `Egress` these are the steps of a pass and the
delivery to the caches, in `InitScripts` the commands of a script and the kubelet's
restarts; controller-runtime and Kubernetes guarantee these as
long as the processes live. It assumes nothing of users, faults, restarts,
evictions, containers that die or the installation of a CRD. Weak fairness is enough: none of these
steps is disabled again by others infinitely often. The resync of informers
(about ten hours) is not assumed: what holds here holds without it.

## 4. What is proved

`ManagedResourcesProofs` proves, for every pipeline that ends with the
StatefulSet and contains the ConfigMap, every set of specs and every bound:

* `TypeCorrect`: `Spec => []TypeOK`
* `Inductive`: `Spec => []IInv`
* `NoLostWakeup`: `Spec => []QuiescentConverged`
* `NoPhantoms`: `Spec => []NoPhantomManaged`
* `VerdictCurrent`: `Spec => ReadyVerdictCurrent`
* `MintedOnce`: `Spec => MintedValueStable`

The assumptions are the three of `ManagedResources`: the loops are distinct and
end with the StatefulSet, every spec gives each loop a content and the loops
without a delete branch a present one, bounds are numbers.

`QuiescentConverged` is not inductive: it says nothing of a pass under way. `IInv` adds three
things. *Coherence* (`CachesCoherent`, `PassCoherent`): caches and the copy a
pass works on are never ahead, and at the same version they are equal, so an
update that is accepted is about what is really there. *Progress*
(`PassProgress`): in a pass that no event has interrupted (the key is not
queued), the loops done so far are settled, each object being either as wanted
in the cache or with an event on its way. *Rest* (`IdleSettled`): an idle
operator with an empty queue has settled every object, and Ready is True for
the current generation unless an event of the agent is on its way. A delivery
that could spoil any of this sets `queued`, which is exactly why no wake-up is
lost. `VerdictCurrent` needs in addition that an accepted status update carries
the current generation (`PassFresh`). `PassProgress` holds at each step of a
pass: one lemma per branch (create, update, keep, delete, record), used by one
step per action. `MintedOnce` needs only the structural part: a create is refused
when the object is there, whatever the cache shows, and no update is about an object
whose value is generated.

`SnapshotProofs` proves, for every schedule, every choice of modes and retentions
and every bound, from `SnapshotAssumption` (a positive period and positive
retentions, as the CRD's validation asks for, and an initial spec of the type):

* `SnapshotInductive`: the inductive invariant
* `SnapshotTypeCorrect`: `Spec => []TypeOK`
* `RetentionReached`: `Spec => []RetentionEnforced`
* `OneRunOneSnapshot`: `Spec => []OneSnapshotPerRun`
* `ListMirrored`: `Spec => []ListMirrorsRetention`
* `BackupsSurvive`: `Spec => BackupsKept`

The invariant has the copies of the agent, never ahead and equal at the same
version (`Coherent`); snapshots only with the CRD (`CRDFirst`); a run that was taken
later than the recorded one (`TakenLater`); and three parts that carry the results.
*Pruning*: all that retention drops is terminating or in the list the pass works
through, so a quiet operator has left nothing. *Backups*: the snapshots that are
terminating, except for some set of at most as many as the user deleted, and those
in the list each leave enough newer intact ones. The existential set is what makes
it inductive: the model, as the API server, does not remember who deleted a snapshot.
*Calm*: as long as nothing disturbs the operator, a pass that has got past the
StatefulSet loop works on the current agent, every snapshot is recorded or being
recorded, a run lies between two snapshots, and the listed ones are retained.
Below it are lemmas on the schedule (`NextRun` is later and monotone) and on
retention (`LiveBound`: each live snapshot has its own number of newer ones, an
injection into `0..retention-1`; `LiveShrinks`: what is live stays so when others
go).

`RolloutProofs` proves, for every number of revisions, every choice of sources,
replicas and Pods that do not start and every bound, from `RolloutAssumption`:

* `RolloutInductive`: the inductive invariant
* `RolloutTypeCorrect`: `Spec => []TypeOK`
* `RestsOnSpec`: `Spec => []RestOnSpec`
* `VolumeKept`: `Spec => VolumeBeforeReshape`

`RestOnSpec` says nothing of a pass under way. The invariant adds coherence of the
cached agent and StatefulSet and of the copy of the pass, what a pass has
established as long as no event has woken the worker again (behind the restore loop
no restore failed; behind the write the StatefulSet fits the spec, unless its event
is on its way), and that behind the restore loop a spec with a source has its PVC
(`VolumeSeen`), from which `VolumeKept` follows.

`EgressProofs` proves, for every set of bundled and configured credentials and
host patterns, every set of specs and user Secrets and every bound:

* `EgressInductive`: the inductive invariant
* `EgressTypeCorrect`: `Spec => []TypeOK`
* `TokensInStep`: `Spec => []TokensAgree`
* `RulesDisjoint`: `Spec => []OneRulePerRequest`
* `TemplatesComplete`: `Spec => []TemplateComplete`
* `ImplementsIssuer`: `Spec => IssuesTokens`, the refinement of `TokenIssuer`

from `SpecsAssumption` (a spec is a record of the fields the code reads),
`NamesAssumption` (users do not call their Secrets by the operator's names, other
than through the CA reference) and `BoundAssumption`. The invariant has four
parts. *Secrets*: the egress Secret is built from credentials with disjoint
claims, each with a token minted for it or preserved, and a cached copy is never
ahead and equal at the same version; the optimistic lock then means that an
accepted update replaces the very Secret the tokens were read from. *Agent* and
*template*: what was written was checked when it was written. *Pass*: what a
running pass has checked (ports, disjoint credentials, Secrets found) still
holds of its own copy when it writes. `RulesDisjoint` also needs that the overlap
test of two patterns covers every request that both match, which is a lemma on
suffixes of sequences.

`EgressSettledProofs` proves on top of it, from the same assumptions,
`EgressNoLostEvent`: `Spec => []QuiescentIsSettled`. The invariant `Settling` says
how far a pass has come that no event has interrupted (the key is not queued, no
event of the agent is on its way): past the CA loop the status is right and the
operator's CA is used or gone; past the checks the spec is accepted; past the Secret
loop the Secret is what would be built again, or its event is on its way; past each
read the input is what the cache still shows; at rest the template is built from
them. A delivery that wakes nobody is of a Secret that is neither owned nor
referred to, and changes none of this. Two facts beside it are needed: a Secret
that is gone holds nothing (so a stale copy of it shows), and a Secret that needs
no update has a token for each of its credentials, so what would be built does not
depend on the serial number a new token would get (`NothingToMint`).

`InitScriptsProofs`, on top of `InitPlanProofs`, proves for every set of profile
names, items and distributions, every set of specs and every bound:

* `InitInductive`: the inductive invariant
* `InitTypeCorrect`: `Spec => []TypeOK`
* `ProxyEnvStaysHidden`: `Spec => []ProxyEnvHidden`
* `StartsOnDeclared`: `Spec => ServesDeclared`
* `StartsOnProxy`: `Spec => AgentUsesProxy`
* `DefaultsFilled`: `Spec => DefaultsFillGaps`
* `FailuresReported`: `Spec => []FailureReported`

from `NamesAssumption` (the names of profiles are distinct, none is `default`, which
is up to the user, and none is a container's name, which the prefix that the code
adds and the model leaves out makes sure of) and `SpecsAssumption` (a spec is a
record of the fields the code reads, and the first Pod's spec resolves, as without
that there is no Pod). `ServesDeclared` speaks of the moment the agent starts. The
invariant says what has been reached before it: each script that has run left what
it is for, unless a failure it does not see kept it from that (`Done`: the
workspace script of a profile has found it and copied the files, or is known to have
lost its home; nothing is said of a creation, whose failure is ignored), the running
one is as far as its commands got (`Underway`), and directories are well formed (`DirsOK`). A container that dies starts again at its
first script, and what the earlier ones left is still there; a command never
undoes what an earlier script of the same Pod did. The latter holds because of the
shape of the plan, which `InitPlanProofs` establishes: no script runs twice for a
profile, the creation of a profile comes first, the proxy's env is stripped before
anything else, and behind the script that appends it there are only SearXNG's
container and the user's. The plan is joined from the
containers of the named profiles by a recursive function; its facts are shown by
looking at the least index at which one would fail. `DefaultsFilled` rests on lemmas
about the operators of `ConfigDocuments`, `FailuresReported` on one about the first
container that `PodDiagnosis` finds down.

Only model-checked: all liveness properties (fairness and ENABLED are out of the
prover's reach), and two action properties of `InitScripts`: `ExactWhenUndisturbed`
and `ResumedTracked`.

## 5. Not modelled, and what could follow

* Two agents: objects deleted by name, the restore PVC that two agents share.
* The Heartbeat (a ticker that posts an anonymous event), metrics, and the start
  of the manager: they have no effect on the state of the other parts.
* The rendering of containers, sidecars and networking objects, which is without
  state and control; the generated code and the chart.
* The conditions that failing egress loops write, and the write of the InitFailed
  condition: both follow the scheme of `markReconcileFailed` in
  `ManagedResources`.
* The watch on user ConfigMaps, which has the form of the one on user Secrets.
* A declared cron job with the name of one a distribution ships.
* A schedule that has no next run, a switch to `existingClaim`, and in `Snapshot` a
  restore source that exists but is not ready (it is told apart in `Rollout`).
* In `Egress`: the letter case of host names; the token keys of aliases.
* Proofs of `ExactWhenUndisturbed` and `ResumedTracked`. The first needs the
  manifests in the invariant, as what an earlier Pod installed; the second that
  every active job of a distribution is allowlisted or recorded as resumed, at every
  step of a start that was not cut short.

## 6. Running

In this directory: `tlc -config managed_faults.cfg MCManagedResources`
(`MCSnapshot` for the `snapshot_` configurations, `Rollout` for `rollout_`,
`MCEgress` for `egress`, `MCInitScripts` for `init_`), and
`tlapm ManagedResourcesProofs.tla`, likewise for `SnapshotProofs`, `RolloutProofs`,
`EgressProofs`, `EgressSettledProofs`, `InitPlanProofs` and `InitScriptsProofs`. The
longest run takes about three minutes.
