-------------------------- MODULE ManagedResources --------------------------
(***************************************************************************)
(* One HermesAgent and the operator that reconciles it.  A reconcile pass  *)
(* runs the resource loops in a fixed order; each loop compares the object *)
(* the informer cache shows with what the spec asks for, and creates,      *)
(* updates or deletes it.  The API server, the informer caches, the work   *)
(* queue, user edits, lost answers and operator restarts interleave with   *)
(* the steps of the pass.                                                  *)
(*                                                                         *)
(* The agent modelled here has no egress, no existingSnapshot and no       *)
(* snapshot schedule: those loops write nothing for it.  The StatefulSet   *)
(* is one object whose content is its template and the config hash.        *)
(***************************************************************************)
EXTENDS Naturals, Sequences

CONSTANTS
    LoopOrder,    \* the loops of a pass, in order
    Wants,        \* the specs a user may apply: what each loop must produce
    InitWant,     \* the spec the agent is created with
    Absent,       \* "no such object" / "not wanted"
    Invalid,      \* a config document that cannot be resolved
    MaxGen,       \* bound: generations of the spec
    MaxFaults,    \* bound: API calls that return an unexpected error
    MaxRestarts,  \* bound: operator restarts
    MaxDrift      \* bound: objects deleted behind the operator's back

VARIABLES
    agent,        \* the HermesAgent in the API server
    agentCache,   \* the HermesAgent in the informer cache
    objects,      \* the managed objects in the API server
    objectCache,  \* the managed objects in the informer cache
    pass,         \* the reconcile pass the single worker is running
    queued,       \* the agent's key is in the work queue, now or on a timer
    budget        \* what is left of the bounds on faults

vars == <<agent, agentCache, objects, objectCache, pass, queued, budget>>

-----------------------------------------------------------------------------
(* The loops and the objects they own.                                     *)

\* The order Reconcile runs the loops in.
ReconcileOrder ==
    << "HermesConfigMap", "HermesSecret", "SearXNGConfigMap", "SearXNGSecret",
       "ServiceAccount", "Role", "Service", "Ingress", "NetworkPolicy",
       "StatefulSet" >>

Last == Len(LoopOrder)

Loops == {LoopOrder[n] : n \in 1..Last}

Objects == Loops \cup (IF "Role" \in Loops THEN {"RoleBinding"} ELSE {})

\* The objects a loop creates, in creation order; only the Role loop has two.
Objs(l) == IF l = "Role" THEN <<"Role", "RoleBinding">> ELSE <<l>>

\* The loop an object belongs to.
LoopOf(o) == IF o = "RoleBinding" THEN "Role" ELSE o

\* Loops without a delete branch: the object is wanted by every spec.
AlwaysWanted == Loops \cap {"HermesConfigMap", "HermesSecret", "StatefulSet"}

\* Objects whose value is generated once and never updated.
Minted == Loops \cap {"SearXNGSecret"}

\* An instance may leave loops out; it keeps the ConfigMap the pod template
\* hashes, and the StatefulSet last.
ASSUME LoopOrderAssumption ==
    /\ LoopOrder \in Seq(STRING) /\ LoopOrder # << >>
    /\ \A m, n \in 1..Last : LoopOrder[m] = LoopOrder[n] => m = n
    /\ LoopOrder[Last] = "StatefulSet"
    /\ "HermesConfigMap" \in Loops
    /\ "RoleBinding" \notin Loops
    /\ "None" \notin Loops

ASSUME WantsAssumption ==
    /\ Absent \notin Nat /\ Invalid \notin Nat /\ Absent # Invalid
    /\ InitWant \in Wants
    /\ \A w \in Wants :
        /\ w \in [Loops -> Nat \cup {Absent, Invalid}]
        /\ \A l \in AlwaysWanted : w[l] # Absent
        /\ \A l \in Loops : w[l] = Invalid => l = "HermesConfigMap"

ASSUME BoundsAssumption ==
    MaxGen \in Nat /\ MaxFaults \in Nat /\ MaxRestarts \in Nat /\ MaxDrift \in Nat

-----------------------------------------------------------------------------
(* Types.                                                                  *)

Errors == {"Conflict", "AlreadyExists", "Unavailable", "InvalidConfig"}

\* The Ready condition; "reason" is the loop it blames.
ReadyCondition ==
    [status : {"Unknown", "True", "False"}, reason : Loops \cup {"None"},
     message : Errors \cup {"None"}, gen : Nat]

Agent == [gen : Nat, want : Wants, managed : SUBSET Objects,
          ready : ReadyCondition, rv : Nat]

\* A managed object: what its spec holds, the config hash of its pod template
\* (StatefulSet only) and its resource version.  An absent object keeps a
\* version so that a cache lags behind a deletion as it lags behind a write.
Object == [spec : Nat \cup {Absent}, configHash : Nat \cup {Absent}, rv : Nat]

Pass == [pc : {"idle", "loop", "record", "fail"}, i : 1..Last, j : {1, 2},
         created : SUBSET Objects, err : Errors \cup {"None"}, ha : Agent]

Budget == [faults : Nat, restarts : Nat, drift : Nat]

TypeOK ==
    /\ agent \in Agent
    /\ agentCache \in Agent
    /\ objects \in [Objects -> Object]
    /\ objectCache \in [Objects -> Object]
    /\ pass \in Pass
    /\ queued \in BOOLEAN
    /\ budget \in Budget

-----------------------------------------------------------------------------
(* Initial state: the agent has just been created.                         *)

NotReady == [status |-> "Unknown", reason |-> "None", message |-> "None", gen |-> 0]

NewAgent == [gen |-> 1, want |-> InitWant, managed |-> {}, ready |-> NotReady, rv |-> 1]

NoObject == [spec |-> Absent, configHash |-> Absent, rv |-> 0]

IdlePass == [pc |-> "idle", i |-> 1, j |-> 1, created |-> {}, err |-> "None",
             ha |-> NewAgent]

Init ==
    /\ agent = NewAgent
    /\ agentCache = NewAgent
    /\ objects = [o \in Objects |-> NoObject]
    /\ objectCache = [o \in Objects |-> NoObject]
    /\ pass = IdlePass
    /\ queued = TRUE
    /\ budget = [faults |-> MaxFaults, restarts |-> MaxRestarts, drift |-> MaxDrift]

-----------------------------------------------------------------------------
(* The control flow of a pass.                                             *)

Loop == LoopOrder[pass.i]

\* The handler returned nil: go on with the next loop.
NextLoop(ha) ==
    [pass EXCEPT !.pc = "loop", !.i = pass.i + 1, !.j = 1, !.created = {}, !.ha = ha]

\* The handler returned an error: its deferred markReconcileFailed runs next.
Failed(e) == [pass EXCEPT !.pc = "fail", !.err = e]

\* One object of the loop is done: on to the next object, to the status
\* update, or, when nothing was created, straight to the next loop.
ObjectDone(created, record) ==
    IF pass.j < Len(Objs(Loop))
    THEN [pass EXCEPT !.j = 2, !.created = created]
    ELSE IF record THEN [pass EXCEPT !.pc = "record", !.created = created]
                   ELSE NextLoop(pass.ha)

-----------------------------------------------------------------------------
(* The API server, as the operator uses it.                                *)

\* Every accepted write moves the object to a new resource version.
Written(o, spec, hash) ==
    [objects EXCEPT ![o] = [spec |-> spec, configHash |-> hash, rv |-> @.rv + 1]]

\* An API call by the pass: it takes effect and succeeds, or (within the
\* fault budget) it fails without effect, or it takes effect and the answer
\* is lost.
Call(after, done) ==
    \/ /\ objects' = after
       /\ pass' = done
       /\ UNCHANGED budget
    \/ /\ budget.faults > 0
       /\ objects' \in {objects, after}
       /\ pass' = Failed("Unavailable")
       /\ budget' = [budget EXCEPT !.faults = @ - 1]

\* A call the API server rejects.
Rejected(e) == pass' = Failed(e) /\ UNCHANGED <<objects, budget>>

-----------------------------------------------------------------------------
(* What the loops do with one object.                                      *)

\* The content of an object as its build function computes it.  The pod
\* template carries a hash of the bootstrap ConfigMap the cache shows.
BuildSpec(o) == IF o \in Minted THEN objects[o].rv + 1 ELSE pass.ha.want[LoopOf(o)]

BuildHash(o) ==
    IF o = "StatefulSet" THEN objectCache["HermesConfigMap"].spec ELSE Absent

\* Mutants of SameContent: the template hash is left out of the comparison;
\* the generated Secret is compared like any other object.
SameContentNoHash(o) == o \in Minted \/ objectCache[o].spec = BuildSpec(o)

SameContentMinted(o) ==
    /\ objectCache[o].spec = BuildSpec(o)
    /\ objectCache[o].configHash = BuildHash(o)

\* The *Equal functions: does the cached object already have the content?
SameContent(o) ==
    \/ o \in Minted
    \/ /\ objectCache[o].spec = BuildSpec(o)
       /\ objectCache[o].configHash = BuildHash(o)

Exists(o) == objectCache[o].spec # Absent

CreateObject(o) ==
    /\ ~Exists(o)
    /\ IF objects[o].spec # Absent
       THEN Rejected("AlreadyExists")
       ELSE Call(Written(o, BuildSpec(o), BuildHash(o)), ObjectDone(pass.created \cup {o}, TRUE))

\* Mutant: the update does not carry the resource version of the object.
UpdateObjectUnversioned(o) == Exists(o) /\ ~SameContent(o) /\ Rejected("Conflict")

UpdateObject(o) ==
    /\ Exists(o) /\ ~SameContent(o)
    /\ IF objects[o].rv # objectCache[o].rv
       THEN Rejected("Conflict")
       ELSE Call(Written(o, BuildSpec(o), BuildHash(o)),
                 ObjectDone(pass.created, pass.created # {} \/ o = "StatefulSet"))

\* Mutant of KeepObject: the unchanged StatefulSet returns before its status
\* update.
KeepObjectSilently(o) ==
    /\ Exists(o) /\ SameContent(o)
    /\ pass' = ObjectDone(pass.created, pass.created # {})
    /\ UNCHANGED <<objects, budget>>

KeepObject(o) ==
    /\ Exists(o) /\ SameContent(o)
    /\ pass' = ObjectDone(pass.created, pass.created # {} \/ o = "StatefulSet")
    /\ UNCHANGED <<objects, budget>>

\* Deleting ignores NotFound, so a stale cache costs nothing here.
DeleteObject(o) ==
    Call(IF objects[o].spec = Absent THEN objects ELSE Written(o, Absent, Absent),
         ObjectDone({}, TRUE))

\* The object is wanted.
Ensure(l) ==
    LET o == Objs(l)[pass.j]
    IN  CreateObject(o) \/ UpdateObject(o) \/ KeepObject(o)

\* The object is not wanted: delete what the cache shows, last created first.
Drop(l) ==
    LET o == Objs(l)[Len(Objs(l)) + 1 - pass.j]
    IN  IF Exists(o)
        THEN DeleteObject(o)
        ELSE pass' = ObjectDone({}, TRUE) /\ UNCHANGED <<objects, budget>>

\* The frame every handler step shares.
InLoop(l) ==
    /\ pass.pc = "loop"
    /\ Loop = l
    /\ UNCHANGED <<agent, agentCache, objectCache, queued>>

ReconcileOptional(l) ==
    /\ InLoop(l)
    /\ IF pass.ha.want[l] = Absent THEN Drop(l) ELSE Ensure(l)

-----------------------------------------------------------------------------
(* The handlers.                                                           *)

\* The bootstrap ConfigMap: a config document that does not resolve fails the
\* loop before anything is written.
reconcileHermesConfigMap ==
    /\ InLoop("HermesConfigMap")
    /\ IF pass.ha.want["HermesConfigMap"] = Invalid
       THEN Rejected("InvalidConfig")
       ELSE Ensure("HermesConfigMap")

reconcileHermesSecret == InLoop("HermesSecret") /\ Ensure("HermesSecret")

reconcileSearXNGConfigMap == ReconcileOptional("SearXNGConfigMap")

reconcileSearXNGSecret == ReconcileOptional("SearXNGSecret")

reconcileServiceAccount == ReconcileOptional("ServiceAccount")

reconcileRole == ReconcileOptional("Role")

reconcileService == ReconcileOptional("Service")

reconcileIngress == ReconcileOptional("Ingress")

reconcileNetworkPolicy == ReconcileOptional("NetworkPolicy")

reconcileStatefulSet == InLoop("StatefulSet") /\ Ensure("StatefulSet")

-----------------------------------------------------------------------------
(* Status.                                                                 *)

\* The HermesAgent after a status update the API server accepts: an update
\* that changes nothing does not move the resource version.
StatusWritten(ha) ==
    IF ha.managed = agent.managed /\ ha.ready = agent.ready
    THEN agent
    ELSE [agent EXCEPT !.managed = ha.managed, !.ready = ha.ready, !.rv = @ + 1]

\* Mutant: the status is written whatever version the pass read.
StatusOverwrites(ha) == FALSE

\* A status update carries the version the pass read the agent at.
StatusConflict(ha) == ha.rv # agent.rv

\* Mutant: the delete branch leaves its entry in the managed list.
RecordedNoClear(ha) ==
    LET objs == {Objs(Loop)[n] : n \in 1..Len(Objs(Loop))}
    IN  [ha EXCEPT
           !.managed = IF ha.want[Loop] = Absent THEN @ ELSE @ \cup objs,
           !.ready = IF Loop = "StatefulSet"
                     THEN [status |-> "True", reason |-> "None",
                           message |-> "None", gen |-> ha.gen]
                     ELSE @]

\* The status fields a loop sets before it writes the status.  The
\* StatefulSet loop runs last and marks the whole pass Ready.
Recorded(ha) ==
    LET objs == {Objs(Loop)[n] : n \in 1..Len(Objs(Loop))}
    IN  [ha EXCEPT
           !.managed = IF ha.want[Loop] = Absent THEN @ \ objs ELSE @ \cup objs,
           !.ready = IF Loop = "StatefulSet"
                     THEN [status |-> "True", reason |-> "None",
                           message |-> "None", gen |-> ha.gen]
                     ELSE @]

\* The status update that ends a loop; after the StatefulSet loop's the pass
\* is over.
UpdateStatus ==
    LET ha == Recorded(pass.ha)
        done == StatusWritten(ha)
    IN  /\ pass.pc = "record"
        /\ \/ /\ ~StatusConflict(ha)
              /\ agent' = done
              /\ pass' = IF pass.i = Last THEN IdlePass ELSE NextLoop(done)
              /\ UNCHANGED budget
           \/ /\ StatusConflict(ha)
              /\ pass' = [Failed("Conflict") EXCEPT !.ha = ha]
              /\ UNCHANGED <<agent, budget>>
           \/ /\ budget.faults > 0
              /\ agent' \in {agent, IF StatusConflict(ha) THEN agent ELSE done}
              /\ pass' = [Failed("Unavailable") EXCEPT !.ha = ha]
              /\ budget' = [budget EXCEPT !.faults = @ - 1]
        /\ UNCHANGED <<agentCache, objects, objectCache, queued>>

\* Mutant: a Ready condition that is already False is left as it is.
markReconcileFailedOnce ==
    LET ready == [status |-> "False", reason |-> Loop, message |-> pass.err,
                  gen |-> pass.ha.gen]
        ha == [pass.ha EXCEPT !.ready = ready]
    IN  /\ pass.pc = "fail"
        /\ agent' = IF pass.ha.ready.status = "False" \/ StatusConflict(ha)
                    THEN agent ELSE StatusWritten(ha)
        /\ pass' = IdlePass
        /\ queued' = TRUE
        /\ UNCHANGED <<agentCache, objects, objectCache, budget>>

\* The deferred markReconcileFailed: blame the loop in the Ready condition,
\* write the status if that changed it, ignore a failing write, and return
\* the error, which puts the key back in the queue.
markReconcileFailed ==
    LET ready == [status |-> "False", reason |-> Loop, message |-> pass.err,
                  gen |-> pass.ha.gen]
        ha == [pass.ha EXCEPT !.ready = ready]
    IN  /\ pass.pc = "fail"
        /\ \/ /\ agent' = IF ready = pass.ha.ready \/ StatusConflict(ha)
                          THEN agent ELSE StatusWritten(ha)
              /\ UNCHANGED budget
           \/ /\ ready # pass.ha.ready
              /\ budget.faults > 0
              /\ agent' = agent
              /\ budget' = [budget EXCEPT !.faults = @ - 1]
        /\ pass' = IdlePass
        /\ queued' = TRUE
        /\ UNCHANGED <<agentCache, objects, objectCache>>

-----------------------------------------------------------------------------
(* The work queue and the informers (controller-runtime), users, restarts. *)

\* The worker takes the key and reads the agent from the cache.
Reconcile ==
    /\ pass.pc = "idle"
    /\ queued
    /\ queued' = FALSE
    /\ pass' = [IdlePass EXCEPT !.pc = "loop", !.ha = agentCache]
    /\ UNCHANGED <<agent, agentCache, objects, objectCache, budget>>

\* A watch event reaches the cache and enqueues the agent.
DeliverAgent ==
    /\ agentCache # agent
    /\ agentCache' = agent
    /\ queued' = TRUE
    /\ UNCHANGED <<agent, objects, objectCache, pass, budget>>

\* Mutant: the objects' events are cached but wake nobody (Owns is missing).
DeliverObjectUnwatched(o) ==
    /\ objectCache[o] # objects[o]
    /\ objectCache' = [objectCache EXCEPT ![o] = objects[o]]
    /\ UNCHANGED <<agent, agentCache, objects, pass, queued, budget>>

DeliverObject(o) ==
    /\ objectCache[o] # objects[o]
    /\ objectCache' = [objectCache EXCEPT ![o] = objects[o]]
    /\ queued' = TRUE
    /\ UNCHANGED <<agent, agentCache, objects, pass, budget>>

\* The user applies another spec.
EditSpec ==
    /\ agent.gen < MaxGen
    /\ \E w \in Wants \ {agent.want} :
         agent' = [agent EXCEPT !.gen = @ + 1, !.want = w, !.rv = @ + 1]
    /\ UNCHANGED <<agentCache, objects, objectCache, pass, queued, budget>>

\* Someone deletes a managed object.
DeleteManaged(o) ==
    /\ budget.drift > 0
    /\ objects[o].spec # Absent
    /\ objects' = Written(o, Absent, Absent)
    /\ budget' = [budget EXCEPT !.drift = @ - 1]
    /\ UNCHANGED <<agent, agentCache, objectCache, pass, queued>>

\* The operator dies and starts again: the pass is lost, the caches are
\* listed afresh and every listed agent is enqueued.
Restart ==
    /\ budget.restarts > 0
    /\ pass' = IdlePass
    /\ agentCache' = agent
    /\ objectCache' = objects
    /\ queued' = TRUE
    /\ budget' = [budget EXCEPT !.restarts = @ - 1]
    /\ UNCHANGED <<agent, objects>>

-----------------------------------------------------------------------------
RunLoop ==
    \/ reconcileHermesConfigMap
    \/ reconcileHermesSecret
    \/ reconcileSearXNGConfigMap
    \/ reconcileSearXNGSecret
    \/ reconcileServiceAccount
    \/ reconcileRole
    \/ reconcileService
    \/ reconcileIngress
    \/ reconcileNetworkPolicy
    \/ reconcileStatefulSet

Worker == Reconcile \/ RunLoop \/ UpdateStatus \/ markReconcileFailed

Environment ==
    \/ EditSpec
    \/ \E o \in Objects : DeleteManaged(o)
    \/ Restart

Next ==
    \/ Worker
    \/ DeliverAgent
    \/ \E o \in Objects : DeliverObject(o)
    \/ Environment

Spec == Init /\ [][Next]_vars

\* The worker goroutine keeps running and watch events arrive eventually;
\* nothing obliges users, faults or restarts.
Fairness ==
    /\ WF_vars(Worker)
    /\ WF_vars(DeliverAgent)
    /\ \A o \in Objects : WF_vars(DeliverObject(o))

FairSpec == Spec /\ Fairness

-----------------------------------------------------------------------------
(* Properties.                                                             *)

\* Nothing is left to do: no pass, no queued key, no undelivered event.
Quiescent ==
    /\ pass.pc = "idle"
    /\ ~queued
    /\ agentCache = agent
    /\ objectCache = objects

\* Object o is what spec w asks for, given the bootstrap ConfigMap in objs.
Matches(o, w, objs) ==
    IF w[LoopOf(o)] = Absent THEN objs[o].spec = Absent
    ELSE /\ objs[o].spec # Absent
         /\ o \notin Minted =>
              /\ objs[o].spec = w[LoopOf(o)]
              /\ objs[o].configHash = IF o = "StatefulSet"
                                      THEN objs["HermesConfigMap"].spec ELSE Absent

\* No lost wake-up: when the operator has gone quiet (empty queue, no event
\* under way), every managed object is what the current spec asks for, the
\* pod template carries the hash of the ConfigMap the pod mounts, and the
\* Ready condition says so for the current generation.  This is what the
\* level-triggered loops promise together with the Owns watches, whatever
\* order edits, stale caches, conflicts, lost answers and restarts came in.
QuiescentConverged ==
    Quiescent =>
        /\ \A o \in Objects : Matches(o, agent.want, objects)
        /\ agent.ready.status = "True"
        /\ agent.ready.gen = agent.gen

\* status.managedResources names no object that does not exist once the
\* operator has gone quiet: every delete branch clears its own entry, even
\* when the pass that deleted the object died before its status update.
NoPhantomManaged ==
    Quiescent => \A o \in agent.managed : objects[o].spec # Absent

\* The doc comment of ManagedResources: it lists the resources the agent
\* owns, "Rebuilt on every reconcile".
ManagedListComplete ==
    Quiescent => \A o \in Objects : objects[o].spec # Absent => o \in agent.managed

\* A verdict is about the spec it is published under: whenever the Ready
\* condition changes, it names the generation that is current at that
\* moment.  A pass that read the agent before an edit cannot report on it.
ReadyVerdictCurrent ==
    [][agent'.ready # agent.ready => agent'.ready.gen = agent'.gen]_vars

\* A generated credential is never replaced in place: two passes that both
\* believe they mint it cannot swap the value a running sidecar uses.
MintedValueStable ==
    [][\A o \in Minted :
         (objects[o].spec # Absent /\ objects'[o].spec # Absent)
            => objects'[o].spec = objects[o].spec]_vars

\* Once the user stops at a valid spec, the operator converges to it and
\* stops: its own writes do not wake it forever.
Converges ==
    <>[](agent.want["HermesConfigMap"] # Invalid) => <>[](Quiescent)

\* A spec whose config document never resolves is eventually reported: Ready
\* stays False, blames the ConfigMap loop and names the current generation.
FailureReported ==
    <>[](agent.want["HermesConfigMap"] = Invalid)
        => <>[](agent.ready = [status |-> "False", reason |-> "HermesConfigMap",
                               message |-> "InvalidConfig", gen |-> agent.gen])

-----------------------------------------------------------------------------
(* The inductive invariant behind QuiescentConverged and NoPhantomManaged. *)

\* A cache is never ahead of the API server, and at the same resource
\* version it holds the same object.
CachesCoherent ==
    /\ \A o \in Objects :
         /\ objectCache[o].rv <= objects[o].rv
         /\ objectCache[o].rv = objects[o].rv => objectCache[o] = objects[o]
    /\ agentCache.rv <= agent.rv
    /\ agentCache.rv = agent.rv => agentCache = agent

\* The copy of the agent a pass works on: at the current version it carries
\* the current spec, so an accepted status update is about that spec.
PassCoherent ==
    pass.pc # "idle" =>
        /\ pass.ha.rv <= agent.rv
        /\ pass.ha.rv = agent.rv =>
             pass.ha.want = agent.want /\ pass.ha.gen = agent.gen

\* Spec w needs nothing more from object o: the cache shows what w asks for,
\* or an event about o is on its way and will wake the worker.
Settled(o, w) ==
    \/ objectCache[o].rv # objects[o].rv
    \/ Matches(o, w, objectCache)

SettledLoop(l, w) == \A o \in Objects : LoopOf(o) = l => Settled(o, w)

\* An unwanted loop has no entry in the managed list m.
Unlisted(l, w, m) ==
    w[l] = Absent => \A o \in Objects : LoopOf(o) = l => o \notin m

\* What a pass no event has interrupted has already established.
PassProgress ==
    (~queued /\ pass.pc \in {"loop", "record"}) =>
        /\ pass.ha.want = agentCache.want
        /\ pass.ha.gen = agentCache.gen
        /\ \A n \in 1..(pass.i - 1) :
             /\ SettledLoop(LoopOrder[n], pass.ha.want)
             /\ Unlisted(LoopOrder[n], pass.ha.want, pass.ha.managed)
        /\ pass.pc = "record" => SettledLoop(Loop, pass.ha.want)
        /\ (pass.pc = "loop" /\ pass.j = 2) =>
             Settled(IF pass.ha.want[Loop] = Absent THEN "RoleBinding" ELSE "Role",
                     pass.ha.want)

\* A second object exists only in the Role loop.
PassShape == pass.j = 2 => Loop = "Role"

\* What holds when the worker sleeps and the queue is empty.
IdleSettled ==
    (~queued /\ pass.pc = "idle") =>
        /\ \A o \in Objects : Settled(o, agentCache.want)
        /\ agentCache.rv # agent.rv
             \/ /\ agent.ready.status = "True"
                /\ agent.ready.gen = agent.gen
                /\ \A l \in Loops : Unlisted(l, agent.want, agent.managed)

IInv ==
    /\ TypeOK
    /\ CachesCoherent
    /\ PassCoherent
    /\ PassShape
    /\ PassProgress
    /\ IdleSettled

=============================================================================
