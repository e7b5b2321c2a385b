-------------------------- MODULE InitScriptsProofs --------------------------
(***************************************************************************)
(* Proofs about InitScripts for every set of names, items and distributions,*)
(* every set of specs and every bound.                                     *)
(***************************************************************************)
EXTENDS InitPlanProofs

-----------------------------------------------------------------------------
(* The inductive invariant.                                                *)

\* What a config.yaml may hold.
Configs == ({Bootstrap(s, p) : s \in Specs, p \in Profiles} \cup {ShippedConfig, None}) \ {Error}

\* The cron jobs that a distribution ships or a profile allowlists.
Jobs == AllJobs \cup UNION {s.prof[p].resume : s \in Specs, p \in Profiles}

Dists == DOMAIN Shipped \cup {NoDist}

Dir ==
    [exists : BOOLEAN, config : Configs, lists : [ListKinds -> [Items -> Nat]], file : BOOLEAN,
     env : [EnvKeys -> {"none", "operator", "user", "token"}], blocks : Nat, dist : Dists,
     jobs : SUBSET Jobs, active : SUBSET Jobs]

Manifests == [lists : [ListKinds -> SUBSET Items], dist : Dists, resumed : SUBSET Jobs]

Places == {"start", "install", "wiped", "installed", "open", "deleted", "created", "resuming",
           "dropped", "astray"}

Pods ==
    [step : Nat, at : Places, done : SUBSET (Items \cup Profiles \cup Jobs), kept : SUBSET Jobs,
     state : {"unscheduled", "running", "failed", "backoff"}, last : BOOLEAN,
     astray : SUBSET Profiles]

Packages == [PackageKinds -> [target : SUBSET Items, manifest : SUBSET Items]]

Shapes ==
    /\ spec \in Specs /\ Resolvable(spec)
    /\ pod \in Pods /\ pod.step \in 1..(Len(plan) + 1)
    /\ vol \in [Profiles -> Dir]
    /\ man \in [Profiles -> Manifests]
    /\ pkgs \in Packages
    /\ profMan \subseteq Names
    /\ clean \in BOOLEAN

\* Only a .env that is there holds the proxy's env; a profile with a distribution
\* is there, and so is the default one; only jobs that are there run.
DirOK(d) ==
    /\ d.blocks # 0 => d.file
    /\ d.dist # NoDist => d.exists
    /\ d.active \subseteq d.jobs

DirsOK == vol["default"].exists /\ \A p \in Profiles : DirOK(vol[p])

\* What a script leaves behind, for the scripts that ServesDeclared and AgentUsesProxy
\* are about.  A workspace script that lost the profile's home leaves nothing.
Done(e) ==
    LET dir == vol[e.profile]
        want == spec.prof[e.profile]
        Installed(k) == \A x \in want.lists[k] : dir.lists[k][x] > 0
    IN  /\ e.script = "config" => dir.config = Bootstrap(spec, e.profile)
        /\ e.script = "dotenv" => dir.file /\ dir.env = Lines(spec, e.profile)
        /\ e.script \in ListKinds \ {"bundles", "workspace"} => Installed(e.script)
        /\ e.script = "workspace" /\ e.profile \notin pod.astray =>
              dir.exists /\ Installed("workspace")
        /\ e.script = "append" => \A p \in Profiles : vol[p].file => vol[p].blocks = 1

\* What the commands of the running script have done so far.
Underway ==
    LET e == plan[pod.step]
        dir == vol[e.profile]
        want == spec.prof[e.profile]
    IN  /\ e.script = "dotenv" /\ pod.at = "open" => dir.file
        /\ e.script \in ListKinds \ {"bundles"} /\ pod.at = "install" =>
              \A x \in want.lists[e.script] \cap pod.done : dir.lists[e.script][x] > 0
        /\ e.script = "workspace" /\ pod.at = "astray" => e.profile \in pod.astray
        /\ e.script = "cleanup" /\ pod.at = "deleted" => (profMan \ spec.named) \ pod.done # {}
        /\ e.script = "strip" => \A p \in Profiles \cap pod.done : vol[p].blocks = 0
        /\ e.script = "append" =>
              /\ \A p \in Profiles \cap pod.done : vol[p].blocks = 1
              /\ pod.at # "start" /\ FilesLeft # {} => vol[CHOOSE q \in FilesLeft : TRUE].blocks = 0

Progress ==
    Starting => /\ \A i \in 1..(pod.step - 1) : Done(plan[i])
                /\ Underway

IInv == Shapes /\ DirsOK /\ Progress /\ ProxyEnvHidden

-----------------------------------------------------------------------------
(* Types.                                                                  *)

LEMMA SpecType ==
    ASSUME Shapes
    PROVE  /\ spec.named \subseteq Names /\ Declared(spec) \subseteq Profiles
           /\ "default" \in Declared(spec) /\ "default" \notin Names
           /\ spec.packages \in [PackageKinds -> SUBSET Items]
           /\ spec.egress \in BOOLEAN
           /\ \A p \in Profiles :
                /\ spec.prof[p].lists \in [ListKinds -> SUBSET Items]
                /\ spec.prof[p].dist \in Dists
                /\ spec.prof[p].resume \subseteq Jobs
                /\ Lines(spec, p) \in [EnvKeys -> {"none", "operator", "user", "token"}]
           /\ \A p \in Declared(spec) : Bootstrap(spec, p) \in Configs
<1>1. spec \in Specs /\ Resolvable(spec)
  BY DEF Shapes
<1>2. /\ spec.named \subseteq Names /\ spec.packages \in [PackageKinds -> SUBSET Items]
      /\ spec.egress \in BOOLEAN /\ "default" \notin Names
      /\ \A p \in Profiles : ProfileSpecOK(spec.prof[p])
  BY <1>1, SpecsAssumption, NamesAssumption
<1>3. Declared(spec) \subseteq Profiles /\ "default" \in Declared(spec)
  BY <1>2 DEF Declared, Profiles
<1>4. ASSUME NEW p \in Profiles
      PROVE  /\ spec.prof[p].lists \in [ListKinds -> SUBSET Items]
             /\ spec.prof[p].dist \in Dists
             /\ spec.prof[p].resume \subseteq Jobs
             /\ Lines(spec, p) \in [EnvKeys -> {"none", "operator", "user", "token"}]
  <2>1. spec.prof[p].lists \in [ListKinds -> SUBSET Items] /\ spec.prof[p].dist \in Dists
    BY <1>2 DEF ProfileSpecOK, Dists
  <2>2. spec.prof[p].resume \subseteq Jobs
    BY <1>1 DEF Jobs
  <2>3. Lines(spec, p) \in [EnvKeys -> {"none", "operator", "user", "token"}]
    BY DEF Lines
  <2> QED BY <2>1, <2>2, <2>3
<1>5. \A p \in Declared(spec) : Bootstrap(spec, p) \in Configs
  BY <1>1, <1>3 DEF Resolvable, Configs
<1> QED BY <1>2, <1>3, <1>4, <1>5

LEMMA ConstantTypes ==
    /\ NoProfile \in Dir /\ DirOK(NoProfile) /\ NoProfile.blocks = 0
    /\ NoManifests \in Manifests
    /\ ShippedConfig \in Configs
    /\ \A d \in DOMAIN Shipped : Shipped[d] \subseteq Jobs
    /\ \A state \in {"unscheduled", "running"} : NewPod(state) \in Pods
<1>1. None \in Configs /\ ShippedConfig \in Configs
  BY DEF Configs, None, Error, ShippedConfig
<1>2. EmptyLists \in [ListKinds -> [Items -> Nat]]
  BY DEF EmptyLists
<1>3. NoEnv \in [EnvKeys -> {"none", "operator", "user", "token"}]
  BY DEF NoEnv
<1>4. NoProfile \in Dir /\ DirOK(NoProfile) /\ NoProfile.blocks = 0
  BY <1>1, <1>2, <1>3 DEF NoProfile, Dir, Dists, DirOK
<1>5. NoManifests \in Manifests
  BY DEF NoManifests, Manifests, Dists
<1>6. \A d \in DOMAIN Shipped : Shipped[d] \subseteq Jobs
  BY DEF Jobs, AllJobs
<1>7. \A state \in {"unscheduled", "running"} : NewPod(state) \in Pods
  BY DEF NewPod, Pods, Places
<1> QED BY <1>1, <1>4, <1>5, <1>6, <1>7

-----------------------------------------------------------------------------
(* A step of a script.                                                     *)

\* Another profile keeps what the scripts gave it, and so does this one but for
\* what the running script is about.
Contained ==
    LET k == plan[pod.step].script
    IN  /\ \A r \in Declared(spec) \ {this} :
             /\ vol'[r].exists = vol[r].exists /\ vol'[r].config = vol[r].config
             /\ vol'[r].file = vol[r].file /\ vol'[r].env = vol[r].env
             /\ vol'[r].lists = vol[r].lists
        /\ k \notin {"create", "distribution"} =>
             /\ vol[this].exists => vol'[this].exists
             /\ k # "config" => vol'[this].config = vol[this].config
             /\ k # "dotenv" => vol'[this].file = vol[this].file /\ vol'[this].env = vol[this].env
             /\ \A l \in ListKinds \ {k} : vol'[this].lists[l] = vol[this].lists[l]
        /\ k \in LaterScripts => vol' = vol

DiskOK ==
    /\ vol \in [Profiles -> Dir] /\ DirsOK
    /\ man \in [Profiles -> Manifests]
    /\ pkgs \in Packages
    /\ profMan \subseteq Names
    /\ clean \in BOOLEAN

NoneShown == \A p \in Profiles : vol[p].blocks = 0

ProxyKept ==
    LET k == plan[pod.step].script
    IN  /\ k \notin {"strip", "append"} /\ NoneShown => NoneShown'
        /\ k = "strip" /\ pod'.step # pod.step => NoneShown'

\* The same script goes on.
Stays == pod' \in Pods /\ pod'.step = pod.step /\ pod.astray \subseteq pod'.astray

\* The next script begins.
Moves ==
    /\ pod' \in Pods
    /\ pod'.step = pod.step + 1 /\ pod.astray \subseteq pod'.astray
    /\ pod'.at = "start" /\ pod'.done = {}

\* The script has left behind what it is for.
Finished == \A i \in {pod.step} : Done(plan[i])'

Outcome ==
    /\ DiskOK' /\ Contained /\ ProxyKept
    /\ \/ Stays /\ Underway'
       \/ Moves /\ Finished

LEMMA Here ==
    ASSUME Shapes, Starting
    PROVE  /\ pod.step \in 1..Len(plan) /\ Len(plan) \in Nat /\ pod.step \in Nat
           /\ plan[pod.step] \in StepSet(spec)
           /\ this \in Declared(spec) /\ this \in Profiles
           /\ plan[pod.step].script \in Scripts
           /\ plan[pod.step].script \in RunSet(spec, this)
<1>1. Len(plan) \in Nat /\ spec \in Specs /\ pod.step \in 1..(Len(plan) + 1)
  BY PlanFacts DEF Shapes
<1>2. pod.step \in 1..Len(plan) /\ pod.step \in Nat
  BY <1>1 DEF Starting, Serving
<1>3. plan[pod.step] \in StepSet(spec)
  BY <1>1, <1>2, PlanFacts
<1>4. this \in Declared(spec) /\ plan[pod.step].script \in Scripts
      /\ plan[pod.step].script \in RunSet(spec, this)
  BY <1>3 DEF StepSet, this
<1> QED BY <1>1, <1>2, <1>3, <1>4, SpecType

LEMMA DoneKept ==
    ASSUME Shapes, Starting, spec' = spec, Contained, pod.astray \subseteq pod'.astray,
           NEW i \in 1..(pod.step - 1), Done(plan[i])
    PROVE  Done(plan[i])'
<1>1. plan' = plan
  BY DEF plan
<1>2. /\ i \in 1..Len(plan) /\ pod.step \in 1..Len(plan) /\ i < pod.step
      /\ plan[i] \in StepSet(spec)
  <2>1. i \in 1..Len(plan) /\ pod.step \in 1..Len(plan) /\ i < pod.step
    BY Here
  <2> QED BY <2>1, PlanFacts DEF Shapes
<1> DEFINE e == plan[i]
           k == plan[pod.step].script
<1>3. e.profile \in Declared(spec)
  BY <1>2 DEF StepSet
<1>4. e.profile = this => e.script # k /\ k \notin {"create", "distribution"}
  BY <1>2, PlanFacts DEF Shapes, this
<1>7. CASE e.script = "append"
  <2>1. k \in LaterScripts
    BY <1>2, <1>7, PlanFacts DEF Shapes
  <2>2. vol' = vol
    BY <2>1 DEF Contained
  <2> QED BY <1>1, <1>7, <2>2 DEF Done, ListKinds
<1>5. CASE e.profile # this /\ e.script # "append"
  BY <1>1, <1>3, <1>5 DEF Contained, Done
<1>6. CASE e.profile = this /\ e.script # "append"
  <2>1. /\ vol[this].exists => vol'[this].exists
        /\ e.script = "config" => vol'[this].config = vol[this].config
        /\ e.script = "dotenv" => vol'[this].file = vol[this].file /\ vol'[this].env = vol[this].env
        /\ e.script \in ListKinds => vol'[this].lists[e.script] = vol[this].lists[e.script]
    BY <1>4, <1>6 DEF Contained
  <2> QED BY <1>1, <1>6, <2>1 DEF Done, ListKinds
<1> QED BY <1>5, <1>6, <1>7

LEMMA FreshStart ==
    ASSUME pod'.at = "start", pod'.done = {}
    PROVE  Underway'
BY DEF Underway

LEMMA OutcomeKeeps ==
    ASSUME IInv, Starting, spec' = spec, Outcome
    PROVE  /\ IInv'
           /\ \A i \in 1..(pod'.step - 1) : Done(plan[i])'
           /\ spec.egress /\ Serving' => \A p \in Profiles : vol'[p].file => vol'[p].blocks = 1
<1>1. /\ plan' = plan /\ spec \in Specs /\ Resolvable(spec)' /\ Shapes /\ Progress
      /\ ProxyEnvHidden
  BY DEF IInv, Shapes, plan, Resolvable
<1>2. /\ pod.step \in 1..Len(plan) /\ Len(plan) \in Nat /\ pod.step \in Nat
      /\ pod' \in Pods /\ pod.astray \subseteq pod'.astray
  BY <1>1, Here DEF Outcome, Stays, Moves
<1>3. \/ pod'.step = pod.step /\ Underway'
      \/ pod'.step = pod.step + 1 /\ Underway' /\ Finished
  <2>1. ASSUME Moves PROVE Underway'
    BY <2>1, FreshStart DEF Moves
  <2> QED BY <2>1 DEF Outcome, Moves, Stays
<1>4. pod'.step \in 1..(Len(plan) + 1)
  BY <1>2, <1>3
<1>5. Shapes' /\ DirsOK'
  BY <1>1, <1>2, <1>4 DEF Shapes, Outcome, DiskOK
<1>6. ASSUME NEW i \in 1..(pod'.step - 1)
      PROVE  Done(plan[i])'
  <2>1. i \in 1..(pod.step - 1) \/ (i = pod.step /\ pod'.step = pod.step + 1)
    BY <1>2, <1>3
  <2>2. CASE i \in 1..(pod.step - 1)
    BY <1>1, <1>2, <2>2, DoneKept DEF Progress, Outcome
  <2>3. CASE i = pod.step /\ pod'.step = pod.step + 1
    <3>1. pod'.step # pod.step
      BY <1>2, <2>3
    <3> QED BY <1>3, <2>3, <3>1 DEF Finished
  <2> QED BY <2>1, <2>2, <2>3
<1>7. Progress'
  BY <1>3, <1>6 DEF Progress
<1> DEFINE k == plan[pod.step].script
<1>8. \A j \in 1..Len(plan) : pod.step < j /\ k \in {"append"} \cup LaterScripts =>
                                  plan[j].script \in LaterScripts
  BY <1>1, <1>2, PlanFacts
<1>9. spec.egress /\ k \notin {"strip", "append"} \cup LaterScripts => NoneShown'
  BY <1>1 DEF ProxyEnvHidden, Outcome, ProxyKept, NoneShown, LaterScripts
<1>10. k = "strip" /\ pod'.step # pod.step => NoneShown'
  BY DEF Outcome, ProxyKept
<1>11. ProxyEnvHidden'
  <2> SUFFICES ASSUME spec.egress, Starting',
                      plan[pod'.step].script \notin {"strip", "append"} \cup LaterScripts
               PROVE  NoneShown'
    BY <1>1 DEF ProxyEnvHidden, NoneShown, LaterScripts
  <2>1. CASE pod'.step = pod.step
    BY <1>9, <2>1
  <2>2. CASE pod'.step # pod.step
    <3>1. pod'.step = pod.step + 1 /\ pod'.step <= Len(plan)
      BY <1>1, <1>2, <1>3, <1>4, <2>2 DEF Starting, Serving
    <3>2. k \notin {"append"} \cup LaterScripts
      BY <1>2, <1>8, <3>1
    <3> QED BY <1>9, <1>10, <2>2, <3>2
  <2> QED BY <2>1, <2>2
<1>12. ASSUME spec.egress, Serving'
       PROVE  \A p \in Profiles : vol'[p].file => vol'[p].blocks = 1
  <2>1. PICK i \in 1..Len(plan) : plan[i].script = "append"
    BY <1>1, <1>12, PlanFacts
  <2>2. i \in 1..(pod'.step - 1)
    BY <1>1, <1>2, <1>3, <1>12 DEF Serving
  <2>3. Done(plan[i])'
    BY <1>6, <2>2
  <2> QED BY <1>1, <2>1, <2>3 DEF Done
<1> QED BY <1>5, <1>6, <1>7, <1>11, <1>12 DEF IInv

-----------------------------------------------------------------------------
(* How the Pod and a profile change.                                       *)

LEMMA PodMoves ==
    ASSUME Shapes, Starting
    PROVE  /\ NextScript => Moves
           /\ \A at \in Places : GoTo(at) =>
                 Stays /\ pod'.step = pod.step /\ pod'.at = at /\ pod'.done = {}
           /\ \A x \in Items \cup Profiles \cup Jobs : Handled(x) =>
                 /\ Stays /\ pod'.step = pod.step /\ pod'.at = pod.at
                 /\ pod'.done = pod.done \cup {x}
<1>1. pod \in Pods /\ pod.step \in Nat
  BY Here DEF Shapes
<1>2. ASSUME NextScript PROVE Moves
  <2> DEFINE b == /\ pod.last /\ pod.step < Len(plan)
                  /\ plan[pod.step + 1].container = plan[pod.step].container
  <2>1. pod' = [pod EXCEPT !.step = @ + 1, !.at = "start", !.done = {}, !.kept = {}, !.last = b]
    BY <1>2 DEF NextScript
  <2>2. b \in BOOLEAN
    BY <1>1 DEF Pods
  <2>3. "start" \in Places
    BY DEF Places
  <2> HIDE DEF b
  <2>4. pod' \in Pods
    <3>1. pod' = [step |-> pod.step + 1, at |-> "start", done |-> {}, kept |-> {},
                  state |-> pod.state, last |-> b, astray |-> pod.astray]
      BY <1>1, <2>1 DEF Pods
    <3>2. pod.state \in {"unscheduled", "running", "failed", "backoff"}
      BY <1>1 DEF Pods
    <3> QED BY <1>1, <2>2, <2>3, <3>1, <3>2 DEF Pods
  <2>5. pod'.step = pod.step + 1 /\ pod'.at = "start" /\ pod'.done = {} /\ pod'.astray = pod.astray
    BY <1>1, <2>1 DEF Pods
  <2> QED BY <2>4, <2>5 DEF Moves
<1>3. ASSUME NEW at \in Places, GoTo(at)
      PROVE  Stays /\ pod'.step = pod.step /\ pod'.at = at /\ pod'.done = {}
  BY <1>1, <1>3 DEF GoTo, Pods, Stays
<1>4. ASSUME NEW x \in Items \cup Profiles \cup Jobs, Handled(x)
      PROVE  /\ Stays /\ pod'.step = pod.step /\ pod'.at = pod.at
             /\ pod'.done = pod.done \cup {x}
  BY <1>1, <1>4 DEF Handled, Pods, Stays
<1> QED BY <1>2, <1>3, <1>4

\* One profile directory is written.
LEMMA DirWritten ==
    ASSUME Shapes, DirsOK, NEW p \in Profiles, NEW d \in Dir, DirOK(d), vol[p].exists => d.exists,
           vol' = [vol EXCEPT ![p] = d]
    PROVE  /\ vol' \in [Profiles -> Dir] /\ DirsOK'
           /\ vol'[p] = d /\ \A r \in Profiles \ {p} : vol'[r] = vol[r]
<1>1. vol \in [Profiles -> Dir] /\ "default" \in Profiles
  BY DEF Shapes, Profiles
<1>2. vol' \in [Profiles -> Dir] /\ vol'[p] = d /\ \A r \in Profiles \ {p} : vol'[r] = vol[r]
  BY <1>1
<1>3. \A r \in Profiles : DirOK(vol'[r])
  BY <1>2 DEF DirsOK
<1>4. vol'["default"].exists
  BY <1>1, <1>2 DEF DirsOK
<1> QED BY <1>2, <1>3, <1>4 DEF DirsOK, DirOK

\* What the other scripts of a profile left there stays.
Keeps(k, old, new) ==
    /\ old.exists => new.exists
    /\ k # "config" => new.config = old.config
    /\ k # "dotenv" => new.file = old.file /\ new.env = old.env
    /\ \A l \in ListKinds \ {k} : new.lists[l] = old.lists[l]

LEMMA ThisWritten ==
    ASSUME IInv, Starting, NEW k, plan[pod.step].script = k,
           k \notin {"strip", "append", "searxng", "userContainer"},
           NEW d \in Dir, DirOK(d), vol[this].exists => d.exists, NoneShown => d.blocks = 0,
           k \notin {"create", "distribution"} => Keeps(k, vol[this], d),
           vol' = [vol EXCEPT ![this] = d]
    PROVE  vol' \in [Profiles -> Dir] /\ DirsOK' /\ Contained /\ ProxyKept /\ vol'[this] = d
<1>1. this \in Profiles /\ Declared(spec) \subseteq Profiles
  BY Here, SpecType DEF IInv
<1>2. /\ vol' \in [Profiles -> Dir] /\ DirsOK'
      /\ vol'[this] = d /\ \A r \in Profiles \ {this} : vol'[r] = vol[r]
  BY <1>1, DirWritten DEF IInv
<1>3. Contained
  BY <1>1, <1>2 DEF Contained, Keeps, LaterScripts
<1>4. ProxyKept
  BY <1>1, <1>2 DEF ProxyKept, NoneShown
<1> QED BY <1>2, <1>3, <1>4

LEMMA VolumeSame ==
    ASSUME IInv, Starting, NEW k, plan[pod.step].script = k, k \notin {"strip", "append"}, vol' = vol
    PROVE  vol' \in [Profiles -> Dir] /\ DirsOK' /\ Contained /\ ProxyKept
BY DEF IInv, Shapes, DirsOK, DirOK, Contained, ProxyKept, NoneShown

\* Facts about the directory and the manifests of the profile at hand.
LEMMA ThisType ==
    ASSUME IInv, Starting
    PROVE  /\ this \in Profiles /\ vol[this] \in Dir /\ DirOK(vol[this])
           /\ man[this] \in Manifests
           /\ wanted.lists \in [ListKinds -> SUBSET Items] /\ wanted.dist \in Dists
           /\ wanted.resume \subseteq Jobs
           /\ Underway
BY Here, SpecType DEF IInv, Shapes, DirsOK, wanted, Progress

LEMMA RestSame ==
    ASSUME IInv
    PROVE  /\ man' = man => man' \in [Profiles -> Manifests]
           /\ pkgs' = pkgs => pkgs' \in Packages
           /\ profMan' = profMan => profMan' \subseteq Names
           /\ NoFault => clean' \in BOOLEAN
           /\ Tolerated => clean' \in BOOLEAN
BY DEF IInv, Shapes, NoFault, Tolerated

LEMMA Config ==
    ASSUME IInv, buildConfigScript
    PROVE  Outcome
<1>1. /\ Starting /\ plan[pod.step].script = "config" /\ spec' = spec /\ NextScript /\ NoFault
      /\ vol' = [vol EXCEPT ![this].config = Bootstrap(spec, this)]
      /\ UNCHANGED <<man, pkgs, profMan>>
  BY DEF buildConfigScript, Running
<1> DEFINE d == [vol[this] EXCEPT !.config = Bootstrap(spec, this)]
<1>2. Bootstrap(spec, this) \in Configs
  BY <1>1, Here, SpecType DEF IInv
<1>3. vol[this] \in Dir /\ DirOK(vol[this])
  BY <1>1, ThisType
<1>4. /\ d \in Dir /\ DirOK(d) /\ d.config = Bootstrap(spec, this) /\ d.blocks = vol[this].blocks
      /\ d.exists = vol[this].exists /\ Keeps("config", vol[this], d)
  BY <1>2, <1>3 DEF Dir, DirOK, Keeps
<1>5. vol' = [vol EXCEPT ![this] = d]
  BY <1>1
<1> HIDE DEF d
<1>6. NoneShown => d.blocks = 0
  BY <1>1, <1>4, ThisType DEF NoneShown
<1>7. vol' \in [Profiles -> Dir] /\ DirsOK' /\ Contained /\ ProxyKept /\ vol'[this] = d
  BY <1>1, <1>4, <1>5, <1>6, ThisWritten
<1>8. Moves
  BY <1>1, PodMoves DEF IInv
<1>9. Finished
  <2>1. plan' = plan
    BY <1>1 DEF plan
  <2> QED BY <1>1, <1>4, <1>7, <2>1 DEF Finished, Done, this, ListKinds
<1> QED BY <1>1, <1>7, <1>8, <1>9, RestSame DEF Outcome, DiskOK, Moves

\* Scripts that Done and Underway say nothing about.
Silent ==
    {"python", "npm", "create", "distribution", "resume", "userScript", "searxng",
     "userContainer"}

LEMMA SilentScript ==
    ASSUME spec' = spec, plan[pod.step].script \in Silent
    PROVE  Finished /\ (pod'.step = pod.step => Underway')
<1>1. plan' = plan
  BY DEF plan
<1> QED BY <1>1 DEF Finished, Done, Underway, Silent, ListKinds

LEMMA Packaging ==
    ASSUME IInv, NEW k \in PackageKinds, PackagesScript(k)
    PROVE  Outcome
<1>1. /\ Starting /\ plan[pod.step].script = k /\ spec' = spec /\ NoFault /\ vol' = vol
      /\ UNCHANGED <<man, profMan>> /\ k \in Silent /\ k \notin {"strip", "append"}
  BY DEF PackagesScript, Running, PackageKinds, Silent
<1>2. /\ pkgs \in Packages /\ spec.packages \in [PackageKinds -> SUBSET Items]
      /\ "wiped" \in Places /\ "installed" \in Places /\ Shapes
  BY SpecType DEF IInv, Shapes, Places
<1>3. vol' \in [Profiles -> Dir] /\ DirsOK' /\ Contained /\ ProxyKept
  BY <1>1, VolumeSame
<1>4. Finished /\ (pod'.step = pod.step => Underway')
  BY <1>1, SilentScript
<1>5. pkgs' \in Packages
  <2>1. {} \in SUBSET Items /\ spec.packages[k] \in SUBSET Items
    BY <1>2
  <2>2. ASSUME pkgs' = [pkgs EXCEPT ![k].target = {}]
        PROVE  pkgs' \in Packages
    BY <1>2, <2>1, <2>2 DEF Packages
  <2>3. ASSUME pkgs' = [pkgs EXCEPT ![k].target = spec.packages[k]]
        PROVE  pkgs' \in Packages
    BY <1>2, <2>1, <2>3 DEF Packages
  <2>4. ASSUME pkgs' = [pkgs EXCEPT ![k].manifest = spec.packages[k]]
        PROVE  pkgs' \in Packages
    BY <1>2, <2>1, <2>4 DEF Packages
  <2> QED BY <1>2, <2>2, <2>3, <2>4 DEF PackagesScript
<1>6. Moves \/ (Stays /\ pod'.step = pod.step)
  BY <1>1, <1>2, PodMoves DEF PackagesScript
<1> QED BY <1>1, <1>3, <1>4, <1>5, <1>6, RestSame DEF Outcome, DiskOK, Moves

LEMMA Others ==
    ASSUME IInv, OtherContainer
    PROVE  Outcome
<1>1. PICK k \in {"userScript", "searxng", "userContainer"} : Running(k)
  BY DEF OtherContainer
<1>2. /\ Starting /\ plan[pod.step].script = k /\ spec' = spec /\ NextScript /\ NoFault
      /\ UNCHANGED <<vol, man, pkgs, profMan>> /\ k \in Silent /\ k \notin {"strip", "append"}
  BY <1>1 DEF OtherContainer, Running, Silent
<1>3. Moves
  BY <1>2, PodMoves DEF IInv
<1> QED BY <1>2, <1>3, VolumeSame, SilentScript, RestSame DEF Outcome, DiskOK, Moves

LEMMA DotEnv ==
    ASSUME IInv, buildDotEnvScript
    PROVE  Outcome
<1>1. /\ Starting /\ plan[pod.step].script = "dotenv" /\ spec' = spec /\ NoFault
      /\ UNCHANGED <<man, pkgs, profMan>> /\ Shapes
  BY DEF buildDotEnvScript, Running, IInv
<1>2. plan' = plan
  BY <1>1 DEF plan
<1>3. vol[this] \in Dir /\ DirOK(vol[this]) /\ this \in Profiles /\ Underway
  BY <1>1, ThisType
<1>4. CASE /\ pod.at = "start"
           /\ vol' = [vol EXCEPT ![this].file = TRUE, ![this].env = NoEnv, ![this].blocks = 0]
           /\ GoTo("open")
  <2> DEFINE d == [vol[this] EXCEPT !.file = TRUE, !.env = NoEnv, !.blocks = 0]
  <2>1. NoEnv \in [EnvKeys -> {"none", "operator", "user", "token"}]
    BY DEF NoEnv
  <2>2. /\ d \in Dir /\ DirOK(d) /\ d.file /\ d.blocks = 0 /\ d.exists = vol[this].exists
        /\ Keeps("dotenv", vol[this], d)
    BY <1>3, <2>1 DEF Dir, DirOK, Keeps
  <2>3. vol' = [vol EXCEPT ![this] = d]
    BY <1>3, <1>4 DEF Shapes
  <2> HIDE DEF d
  <2>4. vol' \in [Profiles -> Dir] /\ DirsOK' /\ Contained /\ ProxyKept /\ vol'[this] = d
    BY <1>1, <2>2, <2>3, ThisWritten
  <2>5. Stays /\ pod'.step = pod.step /\ pod'.at = "open" /\ "open" \in Places
    BY <1>1, <1>4, PodMoves DEF Places
  <2>6. Underway'
    BY <1>1, <1>2, <2>2, <2>4, <2>5 DEF Underway, this, ListKinds
  <2> QED BY <1>1, <2>4, <2>5, <2>6, RestSame DEF Outcome, DiskOK
<1>5. CASE /\ pod.at = "open"
           /\ vol' = [vol EXCEPT ![this].env = Lines(spec, this)]
           /\ NextScript
  <2> DEFINE d == [vol[this] EXCEPT !.env = Lines(spec, this)]
  <2>1. Lines(spec, this) \in [EnvKeys -> {"none", "operator", "user", "token"}]
    BY <1>1, <1>3, SpecType
  <2>2. vol[this].file
    BY <1>1, <1>3, <1>5 DEF Underway, this
  <2>3. /\ d \in Dir /\ DirOK(d) /\ d.file /\ d.blocks = vol[this].blocks
        /\ d.exists = vol[this].exists /\ d.env = Lines(spec, this)
        /\ Keeps("dotenv", vol[this], d)
    BY <1>3, <2>1, <2>2 DEF Dir, DirOK, Keeps
  <2>4. vol' = [vol EXCEPT ![this] = d]
    BY <1>5
  <2> HIDE DEF d
  <2>5. NoneShown => d.blocks = 0
    BY <1>3, <2>3 DEF NoneShown
  <2>6. vol' \in [Profiles -> Dir] /\ DirsOK' /\ Contained /\ ProxyKept /\ vol'[this] = d
    BY <1>1, <2>3, <2>4, <2>5, ThisWritten
  <2>7. Finished
    BY <1>1, <1>2, <2>3, <2>6 DEF Finished, Done, this, ListKinds
  <2>8. Moves
    BY <1>1, <1>5, PodMoves
  <2> QED BY <1>1, <2>6, <2>7, <2>8, RestSame DEF Outcome, DiskOK, Moves
<1> QED BY <1>4, <1>5 DEF buildDotEnvScript

LEMMA CreatedType ==
    ASSUME IInv, Starting, NEW p
    PROVE  /\ Created(p) \in Dir /\ DirOK(Created(p)) /\ Created(p).exists
           /\ NoneShown => Created(p).blocks = 0
<1> DEFINE new == [NoProfile EXCEPT !.exists = TRUE]
           from == vol["default"]
<1>1. from \in Dir /\ DirOK(from) /\ "default" \in Profiles
  BY DEF IInv, Shapes, DirsOK, Profiles
<1>2. /\ new \in Dir /\ new.exists /\ new.blocks = 0 /\ new.dist = NoDist
      /\ new.jobs = {} /\ new.active = {}
  BY ConstantTypes DEF Dir, NoProfile
<1>3. CASE ~wanted.clone
  BY <1>2, <1>3 DEF Created, DirOK
<1>4. CASE wanted.clone
  <2> DEFINE lists == [new.lists EXCEPT !["skills"] = from.lists["skills"]]
  <2>1. lists \in [ListKinds -> [Items -> Nat]]
    BY <1>1, <1>2 DEF Dir, ListKinds
  <2> HIDE DEF lists
  <2>2. Created(p) = [new EXCEPT !.config = from.config, !.lists = lists, !.file = from.file,
                                 !.env = from.env, !.blocks = from.blocks]
    BY <1>4 DEF Created, lists, NoProfile
  <2> HIDE DEF new, from
  <2>3. Created(p) = [exists |-> TRUE, config |-> from.config, lists |-> lists, file |-> from.file,
                      env |-> from.env, blocks |-> from.blocks, dist |-> NoDist, jobs |-> {},
                      active |-> {}]
    BY <1>2, <2>2 DEF Dir
  <2>4. Created(p) \in Dir
    BY <1>1, <1>2, <2>1, <2>3 DEF Dir
  <2>5. DirOK(Created(p)) /\ Created(p).exists /\ Created(p).blocks = from.blocks
    BY <1>1, <2>3 DEF DirOK
  <2>6. NoneShown => from.blocks = 0
    BY <1>1 DEF NoneShown, from
  <2> QED BY <2>4, <2>5, <2>6
<1> QED BY <1>3, <1>4

LEMMA Create ==
    ASSUME IInv, buildProfileCreationScript
    PROVE  Outcome
<1>1. /\ Starting /\ plan[pod.step].script = "create" /\ spec' = spec
      /\ UNCHANGED <<pkgs, profMan>> /\ Shapes /\ "create" \in Silent
  BY DEF buildProfileCreationScript, Running, IInv, Silent
<1>2. Finished /\ (pod'.step = pod.step => Underway')
  BY <1>1, SilentScript
<1>3. /\ vol[this] \in Dir /\ DirOK(vol[this]) /\ this \in Profiles
      /\ man[this] \in Manifests
  BY <1>1, ThisType
<1>4. CASE pod.at = "start"
  <2>1. /\ \/ vol' = [vol EXCEPT ![this] = IF @.exists THEN @ ELSE Created(this)] /\ NoFault
           \/ Tolerated /\ vol' = vol
        /\ GoTo("created") /\ man' = man
    BY <1>4 DEF buildProfileCreationScript
  <2> DEFINE d == IF vol[this].exists THEN vol[this] ELSE Created(this)
  <2>2. d \in Dir /\ DirOK(d) /\ d.exists /\ (NoneShown => d.blocks = 0)
    BY <1>1, <1>3, CreatedType DEF NoneShown
  <2>3. vol' = [vol EXCEPT ![this] = d] \/ vol' = vol
    BY <2>1
  <2> HIDE DEF d
  <2>4. vol' \in [Profiles -> Dir] /\ DirsOK' /\ Contained /\ ProxyKept
    BY <1>1, <2>2, <2>3, ThisWritten, VolumeSame
  <2>5. Stays /\ pod'.step = pod.step /\ "created" \in Places
    BY <1>1, <2>1, PodMoves DEF Places
  <2> QED BY <1>1, <1>2, <2>1, <2>4, <2>5, RestSame DEF Outcome, DiskOK
<1>5. CASE pod.at = "created"
  <2>1. man' = [man EXCEPT ![this].dist = NoDist] /\ NextScript /\ NoFault /\ vol' = vol
    BY <1>5 DEF buildProfileCreationScript
  <2>2. man' \in [Profiles -> Manifests]
    BY <1>3, <2>1 DEF IInv, Shapes, Manifests, Dists
  <2>3. vol' \in [Profiles -> Dir] /\ DirsOK' /\ Contained /\ ProxyKept
    BY <1>1, <2>1, VolumeSame
  <2>4. Moves
    BY <1>1, <2>1, PodMoves
  <2> QED BY <1>1, <1>2, <2>1, <2>2, <2>3, <2>4, RestSame DEF Outcome, DiskOK, Moves
<1> QED BY <1>4, <1>5 DEF buildProfileCreationScript

\* The spec gives the profile of the running script a distribution.
LEMMA HasDistribution ==
    ASSUME IInv, Starting, plan[pod.step].script \in {"distribution", "resume"}
    PROVE  wanted.dist \in DOMAIN Shipped
<1>1. plan[pod.step].script \in RunSet(spec, this) /\ wanted.dist \in Dists
  BY Here, ThisType DEF IInv
<1>2. plan[pod.step].script \in ProfileSet(spec, this)
  BY <1>1 DEF RunSet, AgentSet, LaterSet, DefaultSet, CommonSet, If, PackageKinds, ItemScripts
<1>3. wanted.dist # NoDist
  BY <1>2 DEF ProfileSet, CommonSet, If, ItemScripts, wanted
<1> QED BY <1>1, <1>3 DEF Dists

LEMMA UpdatedType ==
    ASSUME IInv, Starting, NEW d \in Dir, DirOK(d), d.dist # NoDist
    PROVE  /\ Updated(d) \in Dir /\ DirOK(Updated(d)) /\ Updated(d).exists = d.exists
           /\ Updated(d).blocks = d.blocks
<1> DEFINE jobs == Shipped[d.dist]
           config == IF wanted.update = "force" THEN ShippedConfig ELSE d.config
<1>1. jobs \subseteq Jobs /\ config \in Configs
  BY ConstantTypes DEF Dir, Dists
<1>2. Updated(d) = [d EXCEPT !.jobs = jobs, !.active = d.active \cap jobs, !.config = config]
  BY DEF Updated
<1> HIDE DEF jobs, config
<1> QED BY <1>1, <1>2 DEF Dir, DirOK

LEMMA Distribution ==
    ASSUME IInv, buildProfileDistributionScript
    PROVE  Outcome
<1>1. /\ Starting /\ plan[pod.step].script = "distribution" /\ spec' = spec
      /\ UNCHANGED <<pkgs, profMan>> /\ Shapes /\ "distribution" \in Silent
  BY DEF buildProfileDistributionScript, Running, IInv, Silent
<1>2. Finished /\ (pod'.step = pod.step => Underway')
  BY <1>1, SilentScript
<1>3. /\ vol[this] \in Dir /\ DirOK(vol[this]) /\ this \in Profiles
      /\ man[this] \in Manifests /\ wanted.dist \in DOMAIN Shipped
  BY <1>1, ThisType, HasDistribution
<1>5. CASE UpdateDistribution
  <2>1. /\ Moves /\ man' = man /\ vol[this].dist # NoDist
    BY <1>1, <1>5, PodMoves DEF UpdateDistribution, DistributionInstalled
  <2>3. clean' \in BOOLEAN
    BY <1>5 DEF UpdateDistribution, IInv, Shapes, NoFault
  <2>4. CASE vol' = vol
    <3>1. vol' \in [Profiles -> Dir] /\ DirsOK' /\ Contained /\ ProxyKept
      BY <1>1, <2>4, VolumeSame
    <3> QED BY <1>1, <1>2, <2>1, <2>3, <2>4, <3>1, RestSame DEF Outcome, DiskOK, Moves
  <2>5. CASE vol' = [vol EXCEPT ![this] = Updated(@)]
    <3> DEFINE d == Updated(vol[this])
    <3>1. d \in Dir /\ DirOK(d) /\ d.exists = vol[this].exists /\ d.blocks = vol[this].blocks
      BY <1>1, <1>3, <2>1, UpdatedType
    <3>2. vol' = [vol EXCEPT ![this] = d]
      BY <2>5
    <3> HIDE DEF d
    <3>3. NoneShown => d.blocks = 0
      BY <1>3, <3>1 DEF NoneShown
    <3>4. vol' \in [Profiles -> Dir] /\ DirsOK' /\ Contained /\ ProxyKept /\ vol'[this] = d
      BY <1>1, <3>1, <3>2, <3>3, ThisWritten
    <3> QED BY <1>1, <1>2, <2>1, <2>3, <3>4, RestSame DEF Outcome, DiskOK, Moves
  <2> QED BY <1>5, <2>4, <2>5 DEF UpdateDistribution
<1>6. CASE InstallDistribution
  <2>1. CASE pod.at = "start"
    <3> DEFINE jobs == Shipped[wanted.dist]
               d == [vol[this] EXCEPT !.exists = TRUE, !.dist = wanted.dist,
                                      !.config = ShippedConfig, !.jobs = jobs,
                                      !.active = @ \cap jobs]
    <3>1. /\ vol' = [vol EXCEPT ![this] = d] /\ GoTo("installed") /\ man' = man /\ NoFault
      BY <1>3, <1>6, <2>1 DEF InstallDistribution, IInv, Shapes
    <3>2. jobs \subseteq Jobs /\ ShippedConfig \in Configs /\ wanted.dist \in Dists
      BY <1>3, ConstantTypes DEF Dists
    <3> HIDE DEF jobs
    <3>3. d \in Dir /\ DirOK(d) /\ d.exists /\ d.blocks = vol[this].blocks
      BY <1>3, <3>2 DEF Dir, DirOK
    <3> HIDE DEF d
    <3>4. NoneShown => d.blocks = 0
      BY <1>3, <3>3 DEF NoneShown
    <3>5. vol' \in [Profiles -> Dir] /\ DirsOK' /\ Contained /\ ProxyKept /\ vol'[this] = d
      BY <1>1, <3>1, <3>3, <3>4, ThisWritten
    <3>6. Stays /\ pod'.step = pod.step
      <4>1. "installed" \in Places
        BY DEF Places
      <4> QED BY <1>1, <3>1, <4>1, PodMoves
    <3> QED BY <1>1, <1>2, <3>1, <3>5, <3>6, RestSame DEF Outcome, DiskOK
  <2>2. CASE pod.at = "installed"
    <3>1. /\ man' = [man EXCEPT ![this].dist = wanted.dist] /\ NextScript /\ vol' = vol /\ NoFault
      BY <1>6, <2>2 DEF InstallDistribution
    <3>2. man' \in [Profiles -> Manifests]
      BY <1>3, <3>1 DEF IInv, Shapes, Manifests, Dists
    <3>3. vol' \in [Profiles -> Dir] /\ DirsOK' /\ Contained /\ ProxyKept
      BY <1>1, <3>1, VolumeSame
    <3>5. Moves
      BY <1>1, <3>1, PodMoves
    <3> QED BY <1>1, <1>2, <3>1, <3>2, <3>3, <3>5, RestSame DEF Outcome, DiskOK, Moves
  <2> QED BY <1>6, <2>1, <2>2 DEF InstallDistribution
<1> QED BY <1>5, <1>6 DEF buildProfileDistributionScript

LEMMA ResumeCrons ==
    ASSUME IInv, buildResumeCronsScript
    PROVE  Outcome
<1>1. /\ Starting /\ plan[pod.step].script = "resume" /\ spec' = spec
      /\ UNCHANGED <<pkgs, profMan>> /\ Shapes /\ "resume" \in Silent
      /\ PauseJob \/ StartResume \/ ResumeJob \/ RecordResumed
  BY DEF buildResumeCronsScript, Running, IInv, Silent
<1>2. Finished /\ (pod'.step = pod.step => Underway')
  BY <1>1, SilentScript
<1>3. /\ vol[this] \in Dir /\ DirOK(vol[this]) /\ this \in Profiles
      /\ man[this] \in Manifests /\ wanted.resume \subseteq Jobs /\ pod \in Pods
  BY <1>1, ThisType DEF Shapes
<1>4. vol' = vol => vol' \in [Profiles -> Dir] /\ DirsOK' /\ Contained /\ ProxyKept
  BY <1>1, VolumeSame
<1>5. ASSUME NEW active, active \subseteq vol[this].jobs, vol' = [vol EXCEPT ![this].active = active]
      PROVE  vol' \in [Profiles -> Dir] /\ DirsOK' /\ Contained /\ ProxyKept
  <2> DEFINE d == [vol[this] EXCEPT !.active = active]
  <2>1. /\ d \in Dir /\ DirOK(d) /\ d.blocks = vol[this].blocks /\ d.exists = vol[this].exists
        /\ Keeps("resume", vol[this], d)
    BY <1>3, <1>5 DEF Dir, DirOK, Keeps
  <2>2. vol' = [vol EXCEPT ![this] = d]
    BY <1>5
  <2> HIDE DEF d
  <2>3. NoneShown => d.blocks = 0
    BY <1>3, <2>1 DEF NoneShown
  <2> QED BY <1>1, <2>1, <2>2, <2>3, ThisWritten
<1>6. ToPause \subseteq Jobs /\ ToResume \subseteq Jobs /\ vol[this].active \subseteq vol[this].jobs
  BY <1>3 DEF ToPause, ToResume, Manifests, DirOK
<1>7. CASE PauseJob
  <2> DEFINE rest == ToPause \ pod.done
             x == CHOOSE y \in rest : TRUE
  <2>1. x \in Jobs /\ man' = man
    BY <1>6, <1>7 DEF PauseJob
  <2>2. \/ vol' = [vol EXCEPT ![this].active = @ \ {x}] /\ Handled(x) /\ NoFault
        \/ /\ pod' = [pod EXCEPT !.done = @ \cup {x}, !.kept = @ \cup {x}]
           /\ UNCHANGED <<vol, clean>>
    BY <1>7 DEF PauseJob
  <2> HIDE DEF rest, x
  <2>3. Stays /\ pod'.step = pod.step
    <3>1. CASE Handled(x)
      BY <1>1, <2>1, <3>1, PodMoves
    <3>2. CASE pod' = [pod EXCEPT !.done = @ \cup {x}, !.kept = @ \cup {x}]
      BY <1>3, <2>1, <3>2 DEF Pods, Stays
    <3> QED BY <2>2, <3>1, <3>2
  <2>4. clean' \in BOOLEAN
    BY <2>2 DEF NoFault, IInv, Shapes
  <2>5. vol' = vol \/ \E active : active \subseteq vol[this].jobs
                                 /\ vol' = [vol EXCEPT ![this].active = active]
    <3>1. vol[this].active \ {x} \subseteq vol[this].jobs
      BY <1>6
    <3> QED BY <2>2, <3>1
  <2>6. vol' \in [Profiles -> Dir] /\ DirsOK' /\ Contained /\ ProxyKept
    BY <1>4, <1>5, <2>5
  <2> QED BY <1>1, <1>2, <2>1, <2>3, <2>4, <2>6, RestSame DEF Outcome, DiskOK
<1>8. CASE StartResume
  <2>1. Stays /\ pod'.step = pod.step
    <3>1. "resuming" \in Places
      BY DEF Places
    <3> QED BY <1>1, <1>8, <3>1, PodMoves DEF StartResume
  <2> QED BY <1>1, <1>2, <1>4, <1>8, <2>1, RestSame DEF Outcome, DiskOK, StartResume
<1>9. CASE ResumeJob
  <2> DEFINE rest == ToResume \ pod.done
             x == CHOOSE y \in rest : TRUE
  <2>1. x \in Jobs /\ man' = man /\ Handled(x)
    BY <1>6, <1>9 DEF ResumeJob
  <2>2. \/ vol' = [vol EXCEPT ![this].active = @ \cup ({x} \cap vol[this].jobs)] /\ NoFault
        \/ Tolerated /\ vol' = vol
    BY <1>9 DEF ResumeJob
  <2> HIDE DEF rest, x
  <2>3. Stays /\ pod'.step = pod.step
    BY <1>1, <2>1, PodMoves
  <2>4. clean' \in BOOLEAN
    BY <2>2 DEF NoFault, IInv, Shapes, Tolerated
  <2>5. vol' = vol \/ \E active : active \subseteq vol[this].jobs
                                 /\ vol' = [vol EXCEPT ![this].active = active]
    <3>1. vol[this].active \cup ({x} \cap vol[this].jobs) \subseteq vol[this].jobs
      BY <1>6
    <3> QED BY <2>2, <3>1
  <2>6. vol' \in [Profiles -> Dir] /\ DirsOK' /\ Contained /\ ProxyKept
    BY <1>4, <1>5, <2>5
  <2> QED BY <1>1, <1>2, <2>1, <2>3, <2>4, <2>6, RestSame DEF Outcome, DiskOK
<1>10. CASE RecordResumed
  <2>1. /\ man' = [man EXCEPT ![this].resumed = wanted.resume \cup pod.kept]
        /\ NextScript /\ NoFault /\ vol' = vol
    BY <1>10 DEF RecordResumed
  <2>2. wanted.resume \cup pod.kept \subseteq Jobs
    BY <1>3 DEF Pods
  <2>3. man' \in [Profiles -> Manifests]
    BY <1>3, <2>1, <2>2 DEF IInv, Shapes, Manifests
  <2>4. Moves
    BY <1>1, <2>1, PodMoves
  <2> QED BY <1>1, <1>2, <1>4, <2>1, <2>3, <2>4, RestSame DEF Outcome, DiskOK, Moves
<1> QED BY <1>1, <1>7, <1>8, <1>9, <1>10

\* One count of a list is written.
LEMMA CountWritten ==
    ASSUME IInv, Starting, NEW k \in ListKinds, plan[pod.step].script = k, NEW x \in Items,
           NEW n \in Nat, vol' = [vol EXCEPT ![this].lists[k][x] = n]
    PROVE  /\ vol' \in [Profiles -> Dir] /\ DirsOK' /\ Contained /\ ProxyKept
           /\ vol'[this].lists[k][x] = n
           /\ \A y \in Items \ {x} : vol'[this].lists[k][y] = vol[this].lists[k][y]
<1> DEFINE old == vol[this].lists
           lists == [old EXCEPT ![k] = [old[k] EXCEPT ![x] = n]]
           d == [vol[this] EXCEPT !.lists = lists]
<1>1. vol[this] \in Dir /\ DirOK(vol[this]) /\ this \in Profiles
  BY ThisType
<1>2. old \in [ListKinds -> [Items -> Nat]]
  BY <1>1 DEF Dir
<1>3. vol' = [vol EXCEPT ![this] = d]
  BY DEF IInv, Shapes
<1> HIDE DEF old
<1>4. /\ lists \in [ListKinds -> [Items -> Nat]]
      /\ lists[k][x] = n /\ \A y \in Items \ {x} : lists[k][y] = old[k][y]
      /\ \A l \in ListKinds \ {k} : lists[l] = old[l]
  BY <1>2
<1> HIDE DEF lists
<1>5. /\ d \in Dir /\ DirOK(d) /\ d.blocks = vol[this].blocks /\ d.exists = vol[this].exists
      /\ d.lists = lists /\ d.config = vol[this].config /\ d.file = vol[this].file
      /\ d.env = vol[this].env
  BY <1>1, <1>4 DEF Dir, DirOK
<1> HIDE DEF d
<1>6. Keeps(k, vol[this], d)
  BY <1>4, <1>5 DEF Keeps, old
<1>7. NoneShown => d.blocks = 0
  BY <1>1, <1>5 DEF NoneShown
<1>8. k \notin {"strip", "append", "searxng", "userContainer"}
  BY DEF ListKinds
<1>9. vol' \in [Profiles -> Dir] /\ DirsOK' /\ Contained /\ ProxyKept /\ vol'[this] = d
  BY <1>3, <1>5, <1>6, <1>7, <1>8, ThisWritten
<1> QED BY <1>4, <1>5, <1>9 DEF old

LEMMA Lists ==
    ASSUME IInv, NEW k \in ListKinds, NEW rm, NEW im, im => k = "bundles", ListScript(k, rm, im),
           k = "workspace" => vol[this].exists
    PROVE  Outcome
<1>1. /\ Starting /\ plan[pod.step].script = k /\ spec' = spec
      /\ UNCHANGED <<pkgs, profMan>> /\ Shapes /\ k \notin {"strip", "append"}
      /\ RemoveItem(k, rm) \/ StartInstall(k) \/ InstallItem(k, im) \/ RecordList(k)
  BY DEF ListScript, Running, IInv, ListKinds
<1>2. plan' = plan /\ this = plan[pod.step].profile /\ wanted = spec.prof[this]
  BY <1>1 DEF plan, this, wanted
<1>3. /\ vol[this] \in Dir /\ this \in Profiles /\ man[this] \in Manifests
      /\ wanted.lists[k] \subseteq Items /\ man[this].lists[k] \subseteq Items
      /\ wanted.lists \in [ListKinds -> SUBSET Items] /\ Underway
  BY <1>1, ThisType DEF Manifests
<1>4. \A x \in Items : vol[this].lists[k][x] \in Nat
  BY <1>3 DEF Dir
<1>5. vol' = vol => vol' \in [Profiles -> Dir] /\ DirsOK' /\ Contained /\ ProxyKept
  BY <1>1, VolumeSame
<1>6. k \notin {"config", "dotenv", "cleanup", "append", "strip"}
  BY DEF ListKinds
<1>7. ASSUME pod'.step = pod.step, pod'.at = "start"
      PROVE  Underway'
  BY <1>1, <1>2, <1>6, <1>7 DEF Underway
<1>8. CASE RemoveItem(k, rm)
  <2> DEFINE rest == Stale(k) \ pod.done
             x == CHOOSE y \in rest : TRUE
             n == IF vol[this].lists[k][x] = 0 THEN 0 ELSE vol[this].lists[k][x] - 1
  <2>1. x \in Items /\ pod.at = "start" /\ Handled(x) /\ man' = man
    BY <1>3, <1>8 DEF RemoveItem, Stale
  <2>2. n \in Nat
    BY <1>4, <2>1
  <2>3. \/ vol' = [vol EXCEPT ![this].lists[k][x] = n] /\ NoFault
        \/ Tolerated /\ vol' = vol
    BY <1>8 DEF RemoveItem
  <2> HIDE DEF rest, x, n
  <2>4. Stays /\ pod'.step = pod.step /\ pod'.at = "start"
    BY <1>1, <2>1, PodMoves
  <2>5. vol' \in [Profiles -> Dir] /\ DirsOK' /\ Contained /\ ProxyKept
    BY <1>1, <1>5, <2>1, <2>2, <2>3, CountWritten
  <2> QED BY <1>1, <1>7, <2>1, <2>3, <2>4, <2>5, RestSame DEF Outcome, DiskOK
<1>9. CASE StartInstall(k)
  <2>1. /\ GoTo("install") /\ NoFault /\ vol' = vol /\ man' = man /\ "install" \in Places
    BY <1>9 DEF StartInstall, Places
  <2>2. Stays /\ pod'.step = pod.step /\ pod'.at = "install" /\ pod'.done = {}
    BY <1>1, <2>1, PodMoves
  <2>3. Underway'
    BY <1>1, <1>2, <1>6, <2>2 DEF Underway
  <2> QED BY <1>1, <1>5, <2>1, <2>2, <2>3, RestSame DEF Outcome, DiskOK
<1>10. CASE InstallItem(k, im)
  <2> DEFINE rest == wanted.lists[k] \ pod.done
             x == CHOOSE y \in rest : TRUE
             n == IF k = "crons" THEN vol[this].lists[k][x] + 1 ELSE 1
  <2>1. x \in Items /\ pod.at = "install" /\ Handled(x) /\ man' = man
    BY <1>3, <1>10 DEF InstallItem
  <2>2. n \in Nat /\ n > 0
    BY <1>4, <2>1
  <2>3. \/ vol' = [vol EXCEPT ![this].lists[k][x] = n] /\ NoFault
        \/ k = "bundles" /\ (Tolerated \/ NoFault) /\ vol' = vol
    BY <1>10 DEF InstallItem
  <2> HIDE DEF rest, x, n
  <2>4. Stays /\ pod'.step = pod.step /\ pod'.at = "install" /\ pod'.done = pod.done \cup {x}
    BY <1>1, <2>1, PodMoves
  <2>5. vol' \in [Profiles -> Dir] /\ DirsOK' /\ Contained /\ ProxyKept
    BY <1>1, <1>5, <2>1, <2>2, <2>3, CountWritten
  <2>6. Underway'
    <3>1. CASE k = "bundles"
      BY <1>1, <1>2, <2>4, <3>1 DEF Underway
    <3>2. CASE k # "bundles"
      <4>1. /\ vol'[this].lists[k][x] > 0
            /\ \A y \in Items \ {x} : vol'[this].lists[k][y] = vol[this].lists[k][y]
        BY <1>1, <2>1, <2>2, <2>3, <3>2, CountWritten
      <4>2. \A y \in wanted.lists[k] \cap pod.done : vol[this].lists[k][y] > 0
        BY <1>1, <1>2, <1>3, <2>1, <3>2 DEF Underway
      <4>3. \A y \in wanted.lists[k] \cap pod'.done : vol'[this].lists[k][y] > 0
        BY <1>3, <2>4, <4>1, <4>2
      <4> QED BY <1>1, <1>2, <1>6, <2>4, <4>3 DEF Underway
    <3> QED BY <3>1, <3>2
  <2> QED BY <1>1, <2>1, <2>3, <2>4, <2>5, <2>6, RestSame DEF Outcome, DiskOK
<1>11. CASE RecordList(k)
  <2>1. /\ pod.at = "install" /\ wanted.lists[k] \subseteq pod.done /\ NextScript /\ NoFault
        /\ man' = [man EXCEPT ![this].lists[k] = wanted.lists[k]] /\ vol' = vol
    BY <1>11 DEF RecordList
  <2>2. man' \in [Profiles -> Manifests]
    BY <1>3, <2>1 DEF IInv, Shapes, Manifests
  <2>3. Finished
    <3>1. k # "bundles" => \A y \in wanted.lists[k] : vol'[this].lists[k][y] > 0
      BY <1>1, <1>2, <1>3, <2>1 DEF Underway
    <3>2. k = "workspace" => vol'[this].exists
      BY <2>1
    <3> QED BY <1>1, <1>2, <1>6, <3>1, <3>2 DEF Finished, Done
  <2>4. Moves
    BY <1>1, <2>1, PodMoves
  <2> QED BY <1>1, <1>5, <2>1, <2>2, <2>3, <2>4, RestSame DEF Outcome, DiskOK, Moves
<1> QED BY <1>1, <1>8, <1>9, <1>10, <1>11

\* The home of the profile is lost.
LEMMA Workspace ==
    ASSUME IInv, Running("workspace"), LoseProfileHome \/ CopyAstray, UNCHANGED <<pkgs, profMan>>
    PROVE  Outcome
<1>1. /\ Starting /\ plan[pod.step].script = "workspace" /\ spec' = spec /\ Shapes
      /\ pod \in Pods /\ vol' = vol
  BY DEF Running, IInv, Shapes, LoseProfileHome, CopyAstray
<1>2. plan' = plan /\ this = plan[pod.step].profile
  BY <1>1 DEF plan, this
<1>3. vol' \in [Profiles -> Dir] /\ DirsOK' /\ Contained /\ ProxyKept
  BY <1>1, VolumeSame
<1>4. /\ this \in Profiles /\ man[this] \in Manifests /\ Underway
      /\ wanted.lists["workspace"] \subseteq Items
  BY <1>1, ThisType DEF ListKinds
<1>5. CASE LoseProfileHome
  <2>1. /\ pod' = [pod EXCEPT !.at = "astray", !.astray = @ \cup {this}] /\ man' = man
        /\ Tolerated \/ NoFault
    BY <1>5 DEF LoseProfileHome
  <2>2. Stays /\ pod'.step = pod.step /\ pod'.at = "astray" /\ this \in pod'.astray
    BY <1>1, <1>4, <2>1 DEF Pods, Places, Stays
  <2>3. Underway'
    BY <1>1, <1>2, <2>2 DEF Underway
  <2> QED BY <1>1, <1>3, <2>1, <2>2, <2>3, RestSame DEF Outcome, DiskOK
<1>6. CASE CopyAstray
  <2>1. /\ man' = [man EXCEPT ![this].lists["workspace"] = wanted.lists["workspace"]]
        /\ NextScript /\ NoFault /\ pod.at = "astray"
    BY <1>6 DEF CopyAstray
  <2>2. man' \in [Profiles -> Manifests]
    BY <1>4, <2>1 DEF IInv, Shapes, Manifests
  <2>3. Moves
    BY <1>1, <2>1, PodMoves
  <2>4. this \in pod'.astray
    BY <1>1, <1>2, <1>4, <2>1, <2>3 DEF Underway, Moves
  <2>5. Finished
    BY <1>1, <1>2, <2>4 DEF Finished, Done
  <2> QED BY <1>1, <1>3, <2>1, <2>2, <2>3, <2>5, RestSame DEF Outcome, DiskOK, Moves
<1> QED BY <1>5, <1>6

\* The proxy's env is written to or taken out of a .env.
LEMMA BlocksWritten ==
    ASSUME IInv, Starting, plan[pod.step].script \notin {"searxng", "userContainer"},
           NEW p \in Profiles, NEW n \in Nat, n = 0 \/ vol[p].file,
           vol' = [vol EXCEPT ![p].blocks = n]
    PROVE  /\ vol' \in [Profiles -> Dir] /\ DirsOK' /\ Contained
           /\ vol'[p].blocks = n
           /\ \A r \in Profiles : vol'[r].file = vol[r].file
           /\ \A r \in Profiles \ {p} : vol'[r] = vol[r]
<1> DEFINE d == [vol[p] EXCEPT !.blocks = n]
<1>1. vol[p] \in Dir /\ DirOK(vol[p])
  BY DEF IInv, Shapes, DirsOK
<1>2. vol' = [vol EXCEPT ![p] = d]
  OBVIOUS
<1>3. /\ d \in Dir /\ DirOK(d) /\ d.blocks = n /\ d.exists = vol[p].exists
      /\ d.config = vol[p].config /\ d.file = vol[p].file /\ d.env = vol[p].env
      /\ d.lists = vol[p].lists
  BY <1>1 DEF Dir, DirOK
<1> HIDE DEF d
<1>4. /\ vol' \in [Profiles -> Dir] /\ DirsOK'
      /\ vol'[p] = d /\ \A r \in Profiles \ {p} : vol'[r] = vol[r]
  BY <1>2, <1>3, DirWritten DEF IInv
<1>5. \A r \in Profiles :
         /\ vol'[r].exists = vol[r].exists /\ vol'[r].config = vol[r].config
         /\ vol'[r].file = vol[r].file /\ vol'[r].env = vol[r].env /\ vol'[r].lists = vol[r].lists
  BY <1>3, <1>4
<1>6. Contained
  <2>1. this \in Profiles /\ Declared(spec) \subseteq Profiles
    BY Here, SpecType DEF IInv
  <2> QED BY <1>5, <2>1 DEF Contained, LaterScripts
<1> QED BY <1>3, <1>4, <1>5, <1>6

LEMMA Strip ==
    ASSUME IInv, buildEgressDotEnvStripScript
    PROVE  Outcome
<1>1. /\ Starting /\ plan[pod.step].script = "strip" /\ spec' = spec /\ NoFault /\ Shapes
      /\ UNCHANGED <<man, pkgs, profMan>>
  BY DEF buildEgressDotEnvStripScript, Running, IInv
<1>2. plan' = plan
  BY <1>1 DEF plan
<1>3. \A p \in Profiles \cap pod.done : vol[p].blocks = 0
  BY <1>1, ThisType DEF Underway
<1>4. CASE FilesLeft = {}
  <2>1. NextScript /\ vol' = vol
    BY <1>4 DEF buildEgressDotEnvStripScript
  <2>2. NoneShown
    BY <1>3, <1>4 DEF NoneShown, FilesLeft, IInv, DirsOK, DirOK
  <2>3. ProxyKept
    BY <1>1, <2>1, <2>2 DEF ProxyKept, NoneShown
  <2>4. vol' \in [Profiles -> Dir] /\ DirsOK' /\ Contained
    BY <2>1 DEF IInv, Shapes, DirsOK, DirOK, Contained
  <2>5. Finished /\ Moves
    BY <1>1, <1>2, <2>1, PodMoves DEF Finished, Done, ListKinds
  <2> QED BY <1>1, <2>3, <2>4, <2>5, RestSame DEF Outcome, DiskOK, Moves
<1>5. CASE FilesLeft # {}
  <2> DEFINE p == CHOOSE q \in FilesLeft : TRUE
  <2>1. p \in Profiles /\ vol' = [vol EXCEPT ![p].blocks = 0] /\ Handled(p)
    BY <1>5 DEF buildEgressDotEnvStripScript, FilesLeft
  <2> HIDE DEF p
  <2>2. /\ vol' \in [Profiles -> Dir] /\ DirsOK' /\ Contained
        /\ vol'[p].blocks = 0
        /\ \A r \in Profiles \ {p} : vol'[r] = vol[r]
    BY <1>1, <2>1, BlocksWritten
  <2>3. Stays /\ pod'.step = pod.step /\ pod'.done = pod.done \cup {p}
    BY <1>1, <2>1, PodMoves
  <2>4. Underway'
    BY <1>1, <1>2, <1>3, <2>2, <2>3 DEF Underway, ListKinds
  <2>5. ProxyKept
    BY <1>1, <2>3 DEF ProxyKept
  <2> QED BY <1>1, <2>2, <2>3, <2>4, <2>5, RestSame DEF Outcome, DiskOK
<1> QED BY <1>4, <1>5

LEMMA AppendProxy ==
    ASSUME IInv, buildEgressDotEnvAppendScript
    PROVE  Outcome
<1>1. /\ Starting /\ plan[pod.step].script = "append" /\ spec' = spec /\ NoFault /\ Shapes
      /\ UNCHANGED <<man, pkgs, profMan>>
  BY DEF buildEgressDotEnvAppendScript, Running, IInv
<1>2. plan' = plan /\ pod \in Pods
  BY <1>1 DEF plan, Shapes
<1>3. /\ \A p \in Profiles \cap pod.done : vol[p].blocks = 1
      /\ pod.at # "start" /\ FilesLeft # {} => vol[CHOOSE q \in FilesLeft : TRUE].blocks = 0
  BY <1>1, ThisType DEF Underway
<1>4. CASE FilesLeft = {}
  <2>1. NextScript /\ vol' = vol
    BY <1>4 DEF buildEgressDotEnvAppendScript
  <2>2. \A p \in Profiles : vol[p].file => vol[p].blocks = 1
    BY <1>3, <1>4 DEF FilesLeft
  <2>3. ProxyKept
    BY <1>1 DEF ProxyKept
  <2>4. vol' \in [Profiles -> Dir] /\ DirsOK' /\ Contained
    BY <2>1 DEF IInv, Shapes, DirsOK, DirOK, Contained
  <2>5. Finished /\ Moves
    BY <1>1, <1>2, <2>1, <2>2, PodMoves DEF Finished, Done, ListKinds
  <2> QED BY <1>1, <2>3, <2>4, <2>5, RestSame DEF Outcome, DiskOK, Moves
<1>5. CASE FilesLeft # {} /\ pod.at = "start"
  <2> DEFINE p == CHOOSE q \in FilesLeft : TRUE
  <2>1. /\ p \in Profiles /\ p \notin pod.done /\ vol' = [vol EXCEPT ![p].blocks = 0]
        /\ pod' = [pod EXCEPT !.at = "dropped"]
    BY <1>5 DEF buildEgressDotEnvAppendScript, FilesLeft
  <2>2. /\ vol' \in [Profiles -> Dir] /\ DirsOK' /\ Contained
        /\ vol'[p].blocks = 0
        /\ \A r \in Profiles : vol'[r].file = vol[r].file
        /\ \A r \in Profiles \ {p} : vol'[r] = vol[r]
    <3> HIDE DEF p
    <3> QED BY <1>1, <2>1, BlocksWritten
  <2>3. Stays /\ pod'.step = pod.step /\ pod'.done = pod.done
    BY <1>2, <2>1 DEF Pods, Places, Stays
  <2>4. FilesLeft' = FilesLeft
    BY <2>2, <2>3 DEF FilesLeft
  <2>5. Underway'
    BY <1>1, <1>2, <1>3, <2>1, <2>2, <2>3, <2>4 DEF Underway, ListKinds
  <2>6. ProxyKept
    BY <1>1, <2>3 DEF ProxyKept
  <2> QED BY <1>1, <2>2, <2>3, <2>5, <2>6, RestSame DEF Outcome, DiskOK
<1>6. CASE FilesLeft # {} /\ pod.at # "start"
  <2> DEFINE p == CHOOSE q \in FilesLeft : TRUE
  <2>1. /\ p \in Profiles /\ vol[p].file /\ vol' = [vol EXCEPT ![p].blocks = @ + 1]
        /\ pod' = [pod EXCEPT !.at = "start", !.done = @ \cup {p}] /\ vol[p].blocks = 0
    BY <1>3, <1>6 DEF buildEgressDotEnvAppendScript, FilesLeft
  <2> HIDE DEF p
  <2>2. vol' = [vol EXCEPT ![p].blocks = 1]
    BY <2>1
  <2>3. /\ vol' \in [Profiles -> Dir] /\ DirsOK' /\ Contained
        /\ vol'[p].blocks = 1
        /\ \A r \in Profiles \ {p} : vol'[r] = vol[r]
    BY <1>1, <2>1, <2>2, BlocksWritten
  <2>4. Stays /\ pod'.step = pod.step /\ pod'.done = pod.done \cup {p} /\ pod'.at = "start"
    BY <1>2, <2>1 DEF Pods, Places, Stays
  <2>5. Underway'
    BY <1>1, <1>2, <1>3, <2>3, <2>4 DEF Underway, ListKinds
  <2>6. ProxyKept
    BY <1>1, <2>4 DEF ProxyKept
  <2> QED BY <1>1, <2>3, <2>4, <2>5, <2>6, RestSame DEF Outcome, DiskOK
<1> QED BY <1>4, <1>5, <1>6

LEMMA Cleanup ==
    ASSUME IInv, buildProfilesCleanupScript
    PROVE  Outcome
<1> DEFINE rest == (profMan \ spec.named) \ pod.done
           x == CHOOSE y \in rest : TRUE
<1>1. /\ Starting /\ plan[pod.step].script = "cleanup" /\ spec' = spec /\ Shapes
      /\ pkgs' = pkgs /\ pod \in Pods
  BY DEF buildProfilesCleanupScript, Running, IInv, Shapes
<1>2. /\ Finished
      /\ pod'.step = pod.step /\ (pod'.at = "deleted" => ((profMan \ spec.named) \ pod.done)' # {})
            => Underway'
  <2>1. plan' = plan
    BY <1>1 DEF plan
  <2> QED BY <1>1, <2>1 DEF Finished, Done, Underway, ListKinds
<1>3. /\ profMan \subseteq Names /\ "default" \notin Names /\ spec.named \subseteq Names
      /\ Declared(spec) = spec.named \cup {"default"} /\ Profiles = Names \cup {"default"}
      /\ this \in Declared(spec)
  BY <1>1, SpecType, Here DEF IInv, Shapes, Declared, Profiles
<1>4. vol' = vol => vol' \in [Profiles -> Dir] /\ DirsOK' /\ Contained /\ ProxyKept
  BY <1>1, VolumeSame
<1>5. CASE /\ pod.at = "start" /\ rest # {}
           /\ \/ vol' = [vol EXCEPT ![x] = NoProfile] /\ NoFault
              \/ Tolerated /\ UNCHANGED vol
           /\ pod' = [pod EXCEPT !.at = "deleted"]
           /\ UNCHANGED <<man, profMan>>
  <2>1. x \in Profiles /\ x \notin Declared(spec) /\ x # "default"
    BY <1>3, <1>5
  <2> HIDE DEF x, rest
  <2>2. ASSUME vol' = [vol EXCEPT ![x] = NoProfile]
        PROVE  vol' \in [Profiles -> Dir] /\ DirsOK' /\ Contained /\ ProxyKept
    <3>1. /\ vol' \in [Profiles -> Dir] /\ vol'[x] = NoProfile
          /\ \A r \in Profiles \ {x} : vol'[r] = vol[r]
      BY <2>1, <2>2, ConstantTypes DEF IInv, Shapes
    <3>2. DirsOK'
      BY <1>3, <2>1, <3>1, ConstantTypes DEF IInv, DirsOK, DirOK
    <3>3. \A r \in Declared(spec) : vol'[r] = vol[r]
      BY <1>3, <2>1, <3>1
    <3>4. Contained
      BY <1>1, <1>3, <3>3 DEF Contained, LaterScripts
    <3>5. ProxyKept
      BY <1>1, <3>1, ConstantTypes DEF ProxyKept, NoneShown
    <3> QED BY <3>1, <3>2, <3>4, <3>5
  <2>3. Stays /\ pod'.step = pod.step /\ pod'.done = pod.done
    BY <1>1, <1>5 DEF Pods, Places, Stays
  <2>4. Underway'
    BY <1>1, <1>2, <1>5, <2>3 DEF rest
  <2> QED BY <1>1, <1>4, <1>5, <2>2, <2>3, <2>4, RestSame DEF Outcome, DiskOK
<1>6. CASE /\ pod.at = "deleted"
           /\ man' = [man EXCEPT ![x] = NoManifests]
           /\ pod' = [pod EXCEPT !.at = "start", !.done = @ \cup {x}]
           /\ NoFault /\ UNCHANGED <<vol, profMan>>
  <2>1. x \in Profiles
    <3>1. rest # {}
      BY <1>1, <1>6, ThisType DEF Underway
    <3> QED BY <1>3, <3>1
  <2> HIDE DEF x, rest
  <2>2. man' \in [Profiles -> Manifests]
    BY <1>1, <1>6, <2>1, ConstantTypes DEF Shapes
  <2>3. Stays /\ pod'.step = pod.step /\ pod'.at = "start"
    BY <1>1, <1>6, <2>1 DEF Pods, Places, Stays
  <2>4. Underway'
    BY <1>2, <2>3
  <2> QED BY <1>1, <1>4, <1>6, <2>2, <2>3, <2>4, RestSame DEF Outcome, DiskOK
<1>7. CASE /\ pod.at = "start" /\ rest = {}
           /\ profMan' = spec.named
           /\ NextScript /\ NoFault /\ UNCHANGED <<vol, man>>
  <2>1. Moves
    BY <1>1, <1>7, PodMoves
  <2> QED BY <1>1, <1>2, <1>3, <1>4, <1>7, <2>1, RestSame DEF Outcome, DiskOK, Moves
<1> QED BY <1>5, <1>6, <1>7 DEF buildProfilesCleanupScript

LEMMA ScriptOutcome ==
    ASSUME IInv, Script, ~HermesFails
    PROVE  Starting /\ spec' = spec /\ Outcome
<1>1. \/ buildConfigScript \/ buildDotEnvScript \/ OtherContainer
      \/ \E k \in PackageKinds : PackagesScript(k)
      \/ \E k \in ListKinds : \E rm, im \in BOOLEAN :
            (im => k = "bundles") /\ (k = "workspace" => vol[this].exists) /\ ListScript(k, rm, im)
      \/ /\ Running("workspace") /\ (LoseProfileHome \/ CopyAstray)
         /\ UNCHANGED <<pkgs, profMan>>
      \/ buildEgressDotEnvStripScript \/ buildEgressDotEnvAppendScript
      \/ buildProfilesCleanupScript \/ buildProfileCreationScript
      \/ buildProfileDistributionScript \/ buildResumeCronsScript
  <2>1. /\ {"python", "npm"} = PackageKinds
        /\ {"workspace", "plugins", "skills", "bundles", "crons"} = ListKinds
    BY DEF PackageKinds, ListKinds
  <2>2. CASE \/ buildWorkspaceScript \/ buildPluginsScript \/ buildSkillsScript
             \/ buildBundlesScript \/ buildCronsScript
    BY <2>1, <2>2 DEF buildWorkspaceScript, buildPluginsScript, buildSkillsScript,
                      buildBundlesScript, buildCronsScript
  <2>3. CASE buildPythonPackagesScript \/ buildNPMPackagesScript
    BY <2>1, <2>3 DEF buildPythonPackagesScript, buildNPMPackagesScript
  <2> QED BY <2>2, <2>3 DEF Script
<1>2. \E k : Running(k)
  BY <1>1 DEF buildConfigScript, buildDotEnvScript, OtherContainer, PackagesScript, ListScript,
              buildEgressDotEnvStripScript, buildEgressDotEnvAppendScript,
              buildProfilesCleanupScript, buildProfileCreationScript,
              buildProfileDistributionScript, buildResumeCronsScript
<1>3. Starting /\ spec' = spec
  BY <1>2 DEF Running
<1>4. Outcome
  BY <1>1, Config, DotEnv, Others, Packaging, Lists, Workspace, Strip, AppendProxy, Cleanup, Create,
     Distribution, ResumeCrons
<1> QED BY <1>3, <1>4

-----------------------------------------------------------------------------
(* The other steps.                                                        *)

\* A Pod that starts over, on the volume as it is.
LEMMA StartsOver ==
    ASSUME Shapes', DirsOK', pod'.step = 1, pod'.at = "start", pod'.done = {}
    PROVE  IInv' /\ Starting'
<1>1. /\ Len(plan)' \in Nat /\ Len(plan)' >= 1
      /\ spec'.egress => plan'[1].script = "strip"
  BY NextPlanFacts DEF Shapes
<1>2. Starting'
  BY <1>1 DEF Starting, Serving
<1>3. Underway'
  BY FreshStart
<1>4. Progress'
  BY <1>3 DEF Progress
<1>5. ProxyEnvHidden'
  BY <1>1 DEF ProxyEnvHidden
<1> QED BY <1>2, <1>4, <1>5 DEF IInv

\* Only the state of the container changes.
LEMMA SamePlace ==
    ASSUME IInv, spec' = spec, UNCHANGED Disk, clean' \in BOOLEAN, pod' \in Pods,
           pod'.step = pod.step, pod'.at = pod.at, pod'.done = pod.done,
           pod'.astray = pod.astray
    PROVE  IInv' /\ (Starting => Starting')
<1>1. plan' = plan /\ vol' = vol /\ man' = man /\ pkgs' = pkgs /\ profMan' = profMan
  BY DEF plan, Disk
<1>2. Shapes' /\ DirsOK'
  BY <1>1 DEF IInv, Shapes, DirsOK, DirOK, Resolvable
<1>3. Starting' <=> Starting
  BY <1>1 DEF Starting, Serving
<1>4. \A i : Done(plan[i])' <=> Done(plan[i])
  BY <1>1 DEF Done
<1>5. Underway' <=> Underway
  BY <1>1 DEF Underway, FilesLeft
<1>6. Progress'
  BY <1>3, <1>4, <1>5 DEF IInv, Progress
<1>7. ProxyEnvHidden'
  BY <1>1, <1>3 DEF IInv, ProxyEnvHidden
<1> QED BY <1>2, <1>3, <1>6, <1>7 DEF IInv

\* A container that fails goes back to its first script, which runs for no other
\* container.
LEMMA BackToFirst ==
    ASSUME IInv, Starting, spec' = spec, vol' = vol, pod' = Restarted,
           man' \in [Profiles -> Manifests], pkgs' \in Packages, profMan' \subseteq Names,
           clean' \in BOOLEAN
    PROVE  IInv' /\ Starting'
<1> DEFINE f == FirstStep(plan[pod.step].container)
<1>1. pod \in Pods /\ spec \in Specs /\ plan' = plan /\ Shapes
  BY DEF IInv, Shapes, plan
<1>2. pod.step \in 1..Len(plan) /\ Len(plan) \in Nat /\ pod.step \in Nat
  BY <1>1, Here
<1>3. f \in 1..pod.step /\ plan[f].container = plan[pod.step].container
  BY <1>1, <1>2, FirstStepFacts
<1>4. pod' = [pod EXCEPT !.step = f, !.at = "start", !.done = {}, !.kept = {}, !.state = "failed"]
  BY DEF Restarted
<1> HIDE DEF f
<1>5. f \in 1..Len(plan) /\ f \in Nat /\ f <= pod.step
  BY <1>2, <1>3
<1>6. /\ pod' \in Pods /\ pod'.step = f /\ pod'.at = "start" /\ pod'.done = {}
      /\ pod'.astray = pod.astray
  BY <1>1, <1>4, <1>5 DEF Pods, Places
<1>7. Shapes' /\ DirsOK'
  BY <1>1, <1>2, <1>5, <1>6 DEF IInv, Shapes, DirsOK, DirOK, Resolvable
<1>8. Starting'
  BY <1>1, <1>2, <1>5, <1>6 DEF Starting, Serving
<1>9. Progress'
  <2>1. ASSUME NEW i \in 1..(pod'.step - 1)
        PROVE  Done(plan[i])'
    <3>1. i \in 1..(pod.step - 1)
      BY <1>2, <1>5, <1>6
    <3>2. Done(plan[i])
      BY <3>1 DEF IInv, Progress
    <3> QED BY <1>1, <1>6, <3>2 DEF Done
  <2>2. Underway'
    BY <1>6, FreshStart
  <2> QED BY <2>1, <2>2 DEF Progress
<1>10. ProxyEnvHidden'
  <2> DEFINE k == plan[pod.step].script
  <2> SUFFICES ASSUME spec.egress, plan[f].script \notin {"strip", "append"} \cup LaterScripts
               PROVE  NoneShown
    BY <1>1, <1>6 DEF ProxyEnvHidden, NoneShown, LaterScripts
  <2>1. k # "strip"
    <3>1. k = "strip" => pod.step = 1
      BY <1>1, <1>2, PlanFacts
    <3>2. pod.step = 1 => f = pod.step
      BY <1>3
    <3> QED BY <3>1, <3>2
  <2>2. k \notin {"append"} \cup LaterScripts
    <3>1. plan[pod.step] \in StepSet(spec) /\ plan[f] \in StepSet(spec)
      BY <1>1, <1>2, <1>5, PlanFacts
    <3> QED BY <1>3, <3>1 DEF StepSet
  <2> QED BY <2>1, <2>2 DEF IInv, ProxyEnvHidden, NoneShown, LaterScripts
<1> QED BY <1>7, <1>8, <1>9, <1>10 DEF IInv

LEMMA HermesFailed ==
    ASSUME IInv, HermesFails
    PROVE  IInv' /\ Starting'
BY BackToFirst DEF HermesFails, NoFault, IInv, Shapes

LEMMA Died ==
    ASSUME IInv, Interrupt
    PROVE  IInv' /\ (Starting => Starting')
<1>1. /\ spec' = spec /\ UNCHANGED Disk /\ clean' \in BOOLEAN /\ pod \in Pods
      /\ man' \in [Profiles -> Manifests] /\ pkgs' \in Packages /\ profMan' \subseteq Names
      /\ vol' = vol
  BY DEF Interrupt, IInv, Shapes, Disk
<1>2. CASE Serving
  <2>1. pod' = [pod EXCEPT !.state = "failed"]
    BY <1>2 DEF Interrupt
  <2>2. /\ pod' \in Pods /\ pod'.step = pod.step /\ pod'.at = pod.at /\ pod'.done = pod.done
        /\ pod'.astray = pod.astray
    BY <1>1, <2>1 DEF Pods
  <2> QED BY <1>1, <2>2, SamePlace
<1>3. CASE Starting
  BY <1>1, <1>3, BackToFirst DEF Interrupt, Starting
<1> QED BY <1>2, <1>3 DEF Starting

\* A manifest that was truncated names nothing.
LEMMA DiedWriting ==
    ASSUME IInv, InterruptWrite
    PROVE  IInv' /\ Starting'
<1>1. /\ Starting /\ spec' = spec /\ vol' = vol /\ pod' = Restarted /\ clean' \in BOOLEAN
      /\ man \in [Profiles -> Manifests] /\ pkgs \in Packages /\ profMan \subseteq Names
  BY DEF InterruptWrite, IInv, Shapes
<1>2. man[this] \in Manifests
  BY <1>1, ThisType
<1> DEFINE script == plan[pod.step].script
<1>3. man' \in [Profiles -> Manifests] /\ pkgs' \in Packages /\ profMan' \subseteq Names
  <2>1. CASE /\ script \in ListKinds /\ man' = [man EXCEPT ![this].lists[script] = {}]
             /\ UNCHANGED <<pkgs, profMan>>
    BY <1>1, <1>2, <2>1 DEF Manifests
  <2>2. CASE /\ script \in PackageKinds /\ pkgs' = [pkgs EXCEPT ![script].manifest = {}]
             /\ UNCHANGED <<man, profMan>>
    BY <1>1, <2>2 DEF Packages
  <2>3. CASE profMan' = {} /\ UNCHANGED <<man, pkgs>>
    BY <1>1, <2>3
  <2>4. CASE man' = [man EXCEPT ![this].dist = NoDist] /\ UNCHANGED <<pkgs, profMan>>
    BY <1>1, <1>2, <2>4 DEF Manifests, Dists
  <2>5. CASE man' = [man EXCEPT ![this].resumed = {}] /\ UNCHANGED <<pkgs, profMan>>
    BY <1>1, <1>2, <2>5 DEF Manifests
  <2> QED BY <2>1, <2>2, <2>3, <2>4, <2>5 DEF InterruptWrite
<1> QED BY <1>1, <1>3, BackToFirst

LEMMA OtherSteps ==
    ASSUME IInv, [Next]_vars, ~Script \/ HermesFails
    PROVE  IInv' /\ (Starting => Starting')
<1>1. /\ Shapes /\ DirsOK /\ pod \in Pods /\ spec \in Specs /\ clean \in BOOLEAN
      /\ \A state \in {"unscheduled", "running"} : NewPod(state) \in Pods
  BY ConstantTypes DEF IInv, Shapes
<1>2. CASE Kubelet
  <2>1. /\ spec' = spec /\ UNCHANGED Disk /\ clean' = clean
        /\ \/ pod' = [pod EXCEPT !.state = "running"]
           \/ pod' = [pod EXCEPT !.state = "backoff", !.last = TRUE]
    BY <1>2 DEF Kubelet, Schedule, BackOff, RestartContainer
  <2>2. /\ pod' \in Pods /\ pod'.step = pod.step /\ pod'.at = pod.at /\ pod'.done = pod.done
        /\ pod'.astray = pod.astray
    BY <1>1, <2>1 DEF Pods
  <2> QED BY <1>1, <2>1, <2>2, SamePlace
<1>3. CASE Interrupt \/ InterruptWrite \/ HermesFails
  BY <1>3, Died, DiedWriting, HermesFailed
<1>4. ASSUME pod' = NewPod("unscheduled"), spec' \in Specs, Resolvable(spec)',
             UNCHANGED Disk, clean' = (clean /\ Serving)
      PROVE  IInv' /\ Starting'
  <2>1. pod' \in Pods /\ pod'.step = 1 /\ pod'.at = "start" /\ pod'.done = {}
    BY <1>1, <1>4 DEF NewPod
  <2>2. pod'.step \in 1..(Len(plan)' + 1)
    BY <1>4, <2>1, NextPlanFacts
  <2>3. Shapes' /\ DirsOK'
    BY <1>1, <1>4, <2>1, <2>2 DEF Shapes, DirsOK, DirOK, Disk
  <2> QED BY <2>1, <2>3, StartsOver
<1>5. CASE Evict
  <2>1. Resolvable(spec)'
    BY <1>1, <1>5 DEF Evict, Shapes, Resolvable
  <2> QED BY <1>1, <1>4, <1>5, <2>1 DEF Evict
<1>6. CASE \E s \in Specs : EditSpec(s)
  <2>1. PICK s \in Specs : EditSpec(s)
    BY <1>6
  <2>2. spec' = s /\ Resolvable(spec)'
    BY <2>1 DEF EditSpec, Resolvable
  <2> QED BY <1>4, <2>1, <2>2 DEF EditSpec
<1>7. CASE \E p \in Names : HandDelete(p)
  <2>1. PICK p \in Names : HandDelete(p)
    BY <1>7
  <2>2. /\ Serving /\ vol' = [vol EXCEPT ![p] = NoProfile]
        /\ UNCHANGED <<spec, pod, man, pkgs, profMan, clean>>
    BY <2>1 DEF HandDelete
  <2>3. p \in Profiles /\ p # "default" /\ "default" \in Profiles /\ plan' = plan
    BY <1>1, <2>2, SpecType DEF Profiles, plan
  <2>4. /\ vol' \in [Profiles -> Dir] /\ vol'[p] = NoProfile
        /\ \A r \in Profiles \ {p} : vol'[r] = vol[r]
    BY <1>1, <2>2, <2>3, ConstantTypes DEF Shapes
  <2>5. Shapes'
    BY <1>1, <2>2, <2>3, <2>4 DEF Shapes, Resolvable
  <2>6. DirsOK'
    BY <1>1, <2>3, <2>4, ConstantTypes DEF DirsOK, DirOK
  <2>7. Serving'
    BY <2>2, <2>3 DEF Serving
  <2> QED BY <2>2, <2>5, <2>6, <2>7 DEF IInv, Progress, ProxyEnvHidden, Starting
<1>8. CASE UNCHANGED vars
  <2>1. spec' = spec /\ pod' = pod /\ UNCHANGED Disk /\ clean' = clean
    BY <1>8 DEF vars, Disk
  <2> QED BY <1>1, <2>1, SamePlace
<1> QED BY <1>2, <1>3, <1>5, <1>6, <1>7, <1>8 DEF Next

LEMMA InitHolds ==
    ASSUME Init
    PROVE  IInv
<1>1. spec \in Specs /\ Resolvable(spec)
  BY SpecsAssumption DEF Init
<1>2. pod \in Pods /\ pod.step = 1 /\ pod.at = "start" /\ pod.done = {}
  BY ConstantTypes DEF Init, NewPod
<1>3. /\ Len(plan) \in Nat /\ Len(plan) >= 1
      /\ spec.egress => plan[1].script = "strip"
  BY <1>1, PlanFacts
<1>4. ASSUME NEW p \in Profiles
      PROVE  vol[p] \in Dir /\ DirOK(vol[p]) /\ vol[p].exists = (p = "default")
  <2>1. vol[p] = [NoProfile EXCEPT !.exists = (p = "default")]
    BY DEF Init
  <2> QED BY <2>1, ConstantTypes DEF Dir, DirOK, NoProfile
<1>5. vol \in [Profiles -> Dir] /\ DirsOK
  BY <1>4 DEF Init, DirsOK, Profiles
<1>6. man \in [Profiles -> Manifests] /\ pkgs \in Packages /\ profMan \subseteq Names
      /\ clean \in BOOLEAN
  BY ConstantTypes DEF Init, Packages
<1>7. Shapes
  BY <1>1, <1>2, <1>3, <1>5, <1>6 DEF Shapes
<1>8. Underway
  BY <1>2 DEF Underway
<1>9. Progress /\ ProxyEnvHidden
  BY <1>2, <1>3, <1>8 DEF Progress, ProxyEnvHidden
<1> QED BY <1>5, <1>7, <1>9 DEF IInv

LEMMA InvariantKept ==
    ASSUME IInv, [Next]_vars
    PROVE  IInv'
BY ScriptOutcome, OutcomeKeeps, OtherSteps

\* What the agent finds when it starts.
LEMMA Started ==
    ASSUME IInv, [Next]_vars, Completes
    PROVE  /\ \A p \in Declared(spec) :
                /\ HasDocument(spec.prof[p].config) => vol'[p].config = Bootstrap(spec, p)
                /\ \A k \in ListKinds \ {"bundles", "workspace"} :
                      \A x \in spec.prof[p].lists[k] : vol'[p].lists[k][x] > 0
                /\ p \notin pod'.astray =>
                      /\ vol'[p].exists
                      /\ \A x \in spec.prof[p].lists["workspace"] :
                            vol'[p].lists["workspace"][x] > 0
                /\ RunsDotEnv(spec, p) => vol'[p].file /\ vol'[p].env = Lines(spec, p)
           /\ spec.egress => \A p \in Profiles : vol'[p].file => vol'[p].blocks = 1
<1>1. Script /\ ~HermesFails /\ Starting /\ Serving'
  BY OtherSteps DEF Completes, Starting
<1>2. spec' = spec /\ Outcome /\ plan' = plan /\ spec \in Specs
  BY <1>1, ScriptOutcome DEF plan, IInv, Shapes
<1>3. /\ IInv' /\ \A i \in 1..(pod'.step - 1) : Done(plan[i])'
      /\ spec.egress => \A p \in Profiles : vol'[p].file => vol'[p].blocks = 1
  BY <1>1, <1>2, OutcomeKeeps
<1>4. \A i \in 1..Len(plan) : Done(plan[i])'
  <2>1. pod'.step > Len(plan) /\ pod'.step \in Nat /\ Len(plan) \in Nat
    BY <1>1, <1>2, <1>3, PlanFacts DEF Serving, IInv, Shapes, Pods
  <2>2. \A i \in 1..Len(plan) : i \in 1..(pod'.step - 1)
    BY <2>1
  <2> QED BY <1>3, <2>2
<1>5. ASSUME NEW p \in Declared(spec), NEW x \in RunSet(spec, p)
      PROVE  /\ x = "config" => vol'[p].config = Bootstrap(spec, p)
             /\ x = "dotenv" => vol'[p].file /\ vol'[p].env = Lines(spec, p)
             /\ x \in ListKinds \ {"bundles", "workspace"} =>
                   \A y \in spec.prof[p].lists[x] : vol'[p].lists[x][y] > 0
             /\ x = "workspace" /\ p \notin pod'.astray =>
                   /\ vol'[p].exists
                   /\ \A y \in spec.prof[p].lists["workspace"] : vol'[p].lists["workspace"][y] > 0
  <2>1. PICK i \in 1..Len(plan) : plan[i].profile = p /\ plan[i].script = x
    <3>1. \A q \in Declared(spec) : \A y \in RunSet(spec, q) :
             \E i \in 1..Len(plan) : plan[i].profile = q /\ plan[i].script = y
      BY <1>2, PlanFacts
    <3> QED BY <3>1, Zenon
  <2>2. Done(plan[i])'
    BY <1>4
  <2> QED BY <1>2, <2>1, <2>2 DEF Done
<1>6. ASSUME NEW p \in Declared(spec)
      PROVE  /\ HasDocument(spec.prof[p].config) => "config" \in RunSet(spec, p)
             /\ RunsDotEnv(spec, p) => "dotenv" \in RunSet(spec, p)
             /\ \A k \in ListKinds \ {"bundles"} : k \in RunSet(spec, p)
  BY DEF RunSet, AgentSet, DefaultSet, ProfileSet, CommonSet, ItemScripts, If, ListKinds
<1>8. ASSUME NEW p \in Declared(spec)
      PROVE  /\ HasDocument(spec.prof[p].config) => vol'[p].config = Bootstrap(spec, p)
             /\ \A k \in ListKinds \ {"bundles", "workspace"} :
                   \A x \in spec.prof[p].lists[k] : vol'[p].lists[k][x] > 0
             /\ p \notin pod'.astray =>
                   /\ vol'[p].exists
                   /\ \A x \in spec.prof[p].lists["workspace"] : vol'[p].lists["workspace"][x] > 0
             /\ RunsDotEnv(spec, p) => vol'[p].file /\ vol'[p].env = Lines(spec, p)
  <2>1. "workspace" \in ListKinds \ {"bundles"}
    BY DEF ListKinds
  <2> QED BY <1>5, <1>6, <2>1
<1> QED BY <1>3, <1>8

-----------------------------------------------------------------------------
(* What the operator fills in.                                             *)

Filled(value) == IF value # Absent THEN value ELSE Default

LEMMA FillOne ==
    ASSUME NEW section
    PROVE  Child(FillKey(section)) = Filled(Child(section))
BY DEF Child, FillKey, Filled, Map, Absent, Default

LEMMA FillTwo ==
    ASSUME NEW section
    PROVE  Child(Child(FillNested(section))) = Filled(Child(Child(section)))
<1>1. CASE section.kind = "map"
  <2>1. Child(section) = section.child /\ Child(FillNested(section)) = FillKey(section.child)
    BY <1>1 DEF Child, FillNested, Map
  <2> QED BY <2>1, FillOne
<1>2. CASE section.kind # "map"
  <2>1. Child(section) = Absent /\ Child(FillNested(section)) = FillKey(Absent)
    BY <1>2 DEF Child, FillNested, Map
  <2> QED BY <2>1, FillOne
<1> QED BY <1>1, <1>2

\* A document that is there.
IsPresent(d) == IsDocument(d) /\ d \notin {None, Error}

Web == "web.search_backend"

Gateway == "gateway.multiplex_profiles"

Browser == "browser.camofox.managed_persistence"

LEMMA PathValues ==
    ASSUME NEW d
    PROVE  /\ d.kind # "object" => ValueAt(d, Web) = Absent /\ ValueAt(d, Gateway) = Absent
                                   /\ ValueAt(d, Browser) = Absent
           /\ d.kind = "object" => /\ ValueAt(d, Web) = Child(d.web)
                                   /\ ValueAt(d, Gateway) = Child(d.gateway)
                                   /\ ValueAt(d, Browser) = Child(Child(d.browser))
BY DEF ValueAt, Web, Gateway, Browser

\* A document that is an object, whatever it held before.
LEMMA Unmarshalled ==
    ASSUME NEW d, IsPresent(d), Unmarshal(d) # Error
    PROVE  /\ \E w, g, b : Unmarshal(d) = Object(w, g, b)
           /\ \A path \in {Web, Gateway, Browser} : ValueAt(Unmarshal(d), path) = ValueAt(d, path)
<1> DEFINE e == Object(Absent, Absent, Absent)
<1>1. CASE d = Null
  <2>1. Unmarshal(d) = e
    BY <1>1, SMT DEF Unmarshal, Null, List, Error, Object, Absent
  <2>2. d.kind # "object" /\ e.kind = "object" /\ Child(e.web) = Absent /\ Child(e.gateway) = Absent
        /\ Child(Child(e.browser)) = Absent
    BY <1>1 DEF Null, Object, Absent, Child
  <2> HIDE DEF e
  <2>3. \A path \in {Web, Gateway, Browser} : ValueAt(e, path) = ValueAt(d, path)
    BY <2>2, PathValues
  <2> QED BY <2>1, <2>3 DEF e
<1>2. CASE d = List
  BY <1>2, SMT DEF Unmarshal, Null, List, Error, Object, Absent
<1>3. CASE d \notin {Null, List}
  <2>1. Unmarshal(d) = d
    BY <1>3, Zenon DEF Unmarshal
  <2>2. d = Object(d.web, d.gateway, d.browser)
    BY <1>3 DEF IsPresent, IsDocument
  <2> QED BY <2>1, <2>2
<1> QED BY <1>1, <1>2, <1>3

\* A path gets the default where it is empty; the others stay.
FillsPath(d, new, path) ==
    /\ IsPresent(new)
    /\ \A q \in {Web, Gateway, Browser} :
          ValueAt(new, q) = IF q = path THEN Filled(ValueAt(d, q)) ELSE ValueAt(d, q)

LEMMA ObjectFacts ==
    ASSUME NEW w, NEW g, NEW b
    PROVE  /\ Object(w, g, b).kind = "object" /\ Object(w, g, b).web = w
           /\ Object(w, g, b).gateway = g /\ Object(w, g, b).browser = b
           /\ IsPresent(Object(w, g, b))
           /\ [Object(w, g, b) EXCEPT !.web = FillKey(@)] = Object(FillKey(w), g, b)
           /\ [Object(w, g, b) EXCEPT !.gateway = FillKey(@)] = Object(w, FillKey(g), b)
           /\ [Object(w, g, b) EXCEPT !.browser = FillNested(@)] = Object(w, g, FillNested(b))
           /\ ValueAt(Object(w, g, b), Web) = Child(w)
           /\ ValueAt(Object(w, g, b), Gateway) = Child(g)
           /\ ValueAt(Object(w, g, b), Browser) = Child(Child(b))
<1>1. /\ Object(w, g, b).kind = "object" /\ Object(w, g, b).web = w
      /\ Object(w, g, b).gateway = g /\ Object(w, g, b).browser = b
  BY DEF Object
<1>2. Object(w, g, b) \notin {None, Error}
  BY DEF Object, None, Error
<1>3. IsPresent(Object(w, g, b))
  BY <1>1, <1>2 DEF IsPresent, IsDocument
<1>4. /\ [Object(w, g, b) EXCEPT !.web = FillKey(@)] = Object(FillKey(w), g, b)
      /\ [Object(w, g, b) EXCEPT !.gateway = FillKey(@)] = Object(w, FillKey(g), b)
      /\ [Object(w, g, b) EXCEPT !.browser = FillNested(@)] = Object(w, g, FillNested(b))
  BY DEF Object
<1> QED BY <1>1, <1>3, <1>4, PathValues

LEMMA Fills ==
    ASSUME NEW d, IsPresent(d)
    PROVE  /\ applySearXNGConfigDefaults(d) # Error =>
                 FillsPath(d, applySearXNGConfigDefaults(d), Web)
           /\ applyMultiplexProfilesDefault(d) # Error =>
                 FillsPath(d, applyMultiplexProfilesDefault(d), Gateway)
           /\ applyCamofoxConfigDefaults(d) # Error =>
                 FillsPath(d, applyCamofoxConfigDefaults(d), Browser)
<1>1. CASE Unmarshal(d) = Error
  BY <1>1 DEF applySearXNGConfigDefaults, applyMultiplexProfilesDefault,
              applyCamofoxConfigDefaults
<1>2. CASE Unmarshal(d) # Error
  <2>1. PICK w, g, b : Unmarshal(d) = Object(w, g, b)
    BY <1>2, Unmarshalled
  <2>2. /\ ValueAt(d, Web) = Child(w) /\ ValueAt(d, Gateway) = Child(g)
        /\ ValueAt(d, Browser) = Child(Child(b))
    BY <1>2, <2>1, Unmarshalled, ObjectFacts
  <2>3. Web # Gateway /\ Web # Browser /\ Gateway # Browser
    BY DEF Web, Gateway, Browser
  <2>4. FillsPath(d, Object(FillKey(w), g, b), Web)
    BY <2>2, <2>3, ObjectFacts, FillOne DEF FillsPath
  <2>5. FillsPath(d, Object(w, FillKey(g), b), Gateway)
    BY <2>2, <2>3, ObjectFacts, FillOne DEF FillsPath
  <2>6. FillsPath(d, Object(w, g, FillNested(b)), Browser)
    BY <2>2, <2>3, ObjectFacts, FillTwo DEF FillsPath
  <2>7. /\ applySearXNGConfigDefaults(d) = Object(FillKey(w), g, b)
        /\ applyMultiplexProfilesDefault(d) = Object(w, FillKey(g), b)
        /\ applyCamofoxConfigDefaults(d) = Object(w, g, FillNested(b))
    BY <1>2, <2>1, ObjectFacts DEF applySearXNGConfigDefaults, applyMultiplexProfilesDefault,
                                   applyCamofoxConfigDefaults
  <2> QED BY <2>4, <2>5, <2>6, <2>7
<1> QED BY <1>1, <1>2

LEMMA ProfileConfigFills ==
    ASSUME NEW config, IsDocument(config.raw), IsDocument(config.ref), HasDocument(config),
           NEW searxng \in BOOLEAN, NEW camofox \in BOOLEAN, NEW hasProfiles \in BOOLEAN,
           NEW result, result = DefaultProfileConfig(config, searxng, camofox, hasProfiles),
           result # Error
    PROVE  LET doc == ResolveConfig(config)
           IN  /\ ValueAt(result, Web) = IF searxng THEN Filled(ValueAt(doc, Web))
                                         ELSE ValueAt(doc, Web)
               /\ ValueAt(result, Gateway) = IF hasProfiles THEN Filled(ValueAt(doc, Gateway))
                                             ELSE ValueAt(doc, Gateway)
               /\ ValueAt(result, Browser) = IF camofox THEN Filled(ValueAt(doc, Browser))
                                             ELSE ValueAt(doc, Browser)
<1> DEFINE doc == ResolveConfig(config)
           web == IF searxng /\ doc \notin {None, Error} THEN applySearXNGConfigDefaults(doc)
                  ELSE doc
           browser == IF camofox /\ web \notin {None, Error} THEN applyCamofoxConfigDefaults(web)
                      ELSE web
<1>1. result = IF ~hasProfiles \/ browser = Error THEN browser
               ELSE applyMultiplexProfilesDefault(IF browser = None
                                                  THEN Object(Absent, Absent, Absent)
                                                  ELSE browser)
  BY DEF DefaultProfileConfig
<1>2. doc = Error \/ IsPresent(doc)
  BY ObjectFacts DEF ResolveConfig, BothSources, ReadConfigDocument, HasDocument, IsPresent
<1> HIDE DEF doc
<1>3. browser # Error /\ web # Error /\ doc # Error
  BY <1>1
<1>4. IsPresent(doc)
  BY <1>2, <1>3
<1>5. IsPresent(web) /\ (IF searxng THEN FillsPath(doc, web, Web) ELSE web = doc)
  BY <1>3, <1>4, Fills DEF IsPresent, FillsPath
<1> HIDE DEF web
<1>6. IsPresent(browser) /\ (IF camofox THEN FillsPath(web, browser, Browser) ELSE browser = web)
  BY <1>3, <1>5, Fills DEF IsPresent, FillsPath
<1> HIDE DEF browser
<1>7. IF hasProfiles THEN FillsPath(browser, result, Gateway) ELSE result = browser
  <2>1. CASE ~hasProfiles
    BY <1>1, <2>1
  <2>2. CASE hasProfiles
    <3>1. result = applyMultiplexProfilesDefault(browser)
      BY <1>1, <1>3, <1>6, <2>2 DEF IsPresent
    <3> QED BY <1>6, <2>2, <3>1, Fills
  <2> QED BY <2>1, <2>2
<1>8. Web # Gateway /\ Web # Browser /\ Gateway # Browser
  BY DEF Web, Gateway, Browser
<1>9. \A q \in {Web, Gateway, Browser} :
        /\ ValueAt(web, q) = IF searxng /\ q = Web THEN Filled(ValueAt(doc, q)) ELSE ValueAt(doc, q)
        /\ ValueAt(browser, q) = IF camofox /\ q = Browser THEN Filled(ValueAt(web, q))
                                 ELSE ValueAt(web, q)
        /\ ValueAt(result, q) = IF hasProfiles /\ q = Gateway THEN Filled(ValueAt(browser, q))
                                ELSE ValueAt(browser, q)
  BY <1>5, <1>6, <1>7 DEF FillsPath
<1> QED BY <1>8, <1>9 DEF doc

-----------------------------------------------------------------------------
(* What the operator reads from the status of the Pod.                     *)

\* A container that is restarted after a while has failed before.
BackOffFailed == pod.state = "backoff" => pod.last

LEMMA ScriptRuns ==
    ASSUME pod \in Pods, Script
    PROVE  pod'.state \in {"running", "failed"}
<1> USE DEF Running, GoTo, Handled, NextScript, Pods
<1>1. CASE \/ buildConfigScript \/ buildDotEnvScript \/ OtherContainer
           \/ buildProfileCreationScript \/ buildProfilesCleanupScript
  BY <1>1 DEF buildConfigScript, buildDotEnvScript, OtherContainer, buildProfileCreationScript,
              buildProfilesCleanupScript
<1>2. ASSUME NEW k, PackagesScript(k)
      PROVE  pod'.state = "running"
  BY <1>2 DEF PackagesScript
<1>3. ASSUME NEW k, NEW rm, NEW im, ListScript(k, rm, im)
      PROVE  pod'.state = "running"
  BY <1>3 DEF ListScript, RemoveItem, StartInstall, InstallItem, RecordList
<1>4. CASE buildEgressDotEnvStripScript \/ buildEgressDotEnvAppendScript
  BY <1>4 DEF buildEgressDotEnvStripScript, buildEgressDotEnvAppendScript
<1>5. CASE buildProfileDistributionScript
  BY <1>5 DEF buildProfileDistributionScript, UpdateDistribution, InstallDistribution
<1>6. CASE buildResumeCronsScript
  BY <1>6 DEF buildResumeCronsScript, PauseJob, StartResume, ResumeJob, RecordResumed
<1>7. CASE HermesFails
  BY <1>7 DEF HermesFails, Restarted
<1>8. CASE buildWorkspaceScript
  BY <1>3, <1>8 DEF buildWorkspaceScript, LoseProfileHome, CopyAstray
<1> QED BY <1>1, <1>2, <1>3, <1>4, <1>5, <1>6, <1>7, <1>8
        DEF Script, buildPluginsScript, buildSkillsScript,
            buildBundlesScript, buildCronsScript, buildPythonPackagesScript,
            buildNPMPackagesScript

LEMMA BackOffStep ==
    ASSUME IInv, BackOffFailed, [Next]_vars
    PROVE  BackOffFailed'
<1>1. pod \in Pods
  BY DEF IInv, Shapes
<1>2. CASE Script
  BY <1>1, <1>2, ScriptRuns DEF BackOffFailed
<1>3. CASE Kubelet \/ Interrupt \/ InterruptWrite
  BY <1>1, <1>3 DEF Kubelet, Schedule, BackOff, RestartContainer, Interrupt, InterruptWrite,
                    Restarted, BackOffFailed, Pods
<1>4. CASE \/ Evict \/ (\E s \in Specs : EditSpec(s)) \/ (\E p \in Names : HandDelete(p))
           \/ UNCHANGED vars
  BY <1>4 DEF Evict, EditSpec, HandDelete, NewPod, vars, BackOffFailed
<1> QED BY <1>2, <1>3, <1>4 DEF Next

\* A status that initContainerFailure reports.
Reported(cs) ==
    \/ cs.state = "failed"
    \/ Waiting(cs) /\ cs.reason \notin startingUpWaitingReasons

LEMMA Fields ==
    /\ \A a, b, c : /\ Failure(a, b, c).container = a /\ Failure(a, b, c).reason = b
                    /\ Failure(a, b, c).message = c
    /\ \A a, b, c, d : /\ Status(a, b, c, d).name = a /\ Status(a, b, c, d).state = b
                       /\ Status(a, b, c, d).reason = c /\ Status(a, b, c, d).last = d
BY DEF Failure, Status

LEMMA NoFailureFields == NoFailure.message # "output" /\ NoFailure.reason # "CrashLoopBackOff"
BY Zenon DEF NoFailure

LEMMA ReportedFacts ==
    ASSUME NEW cs
    PROVE  /\ cs.state \in {"running", "done"} => ~Waiting(cs) /\ ~Reported(cs)
           /\ cs.state = "waiting" /\ cs.reason = "PodInitializing" => ~Reported(cs)
           /\ cs.state = "failed" => Reported(cs)
           /\ cs.state = "waiting" /\ cs.reason = "CrashLoopBackOff" => Waiting(cs) /\ Reported(cs)
BY DEF Reported, Waiting, startingUpWaitingReasons

\* What the loop over the init containers sees.
Hits(status) ==
    {i \in DOMAIN status.init :
        \/ status.init[i].state = "failed"
        \/ Waiting(status.init[i]) /\ status.init[i].reason \notin startingUpWaitingReasons}

LEMMA ReportsNone ==
    ASSUME NEW status, \A i \in DOMAIN status.init : ~Reported(status.init[i])
    PROVE  initContainerFailure(status) = NoFailure
<1>1. Hits(status) = {}
  BY DEF Reported, Hits
<1> QED BY <1>1, Zenon DEF initContainerFailure, FirstOf, Hits

LEMMA ReportsOne ==
    ASSUME NEW status, NEW at \in DOMAIN status.init, at \in Nat, NEW cs, cs = status.init[at],
           Reported(cs), cs.state = "failed" \/ cs.last,
           \A i \in DOMAIN status.init \ {at} : ~Reported(status.init[i])
    PROVE  initContainerFailure(status) = Failure(cs.name, terminationReason(cs), "output")
<1> DEFINE first == CHOOSE i \in Hits(status) : \A j \in Hits(status) : i <= j
<1>1. Hits(status) = {at}
  BY DEF Reported, Hits
<1>2. first = at /\ Hits(status) # {}
  BY <1>1
<1>3. initContainerFailure(status) =
        IF Hits(status) = {} THEN NoFailure
        ELSE Failure(status.init[first].name, terminationReason(status.init[first]),
                     IF status.init[first].state = "failed" \/ status.init[first].last
                     THEN "output" ELSE "kubelet")
  BY Zenon DEF initContainerFailure, FirstOf, Hits
<1> HIDE DEF first
<1> QED BY <1>2, <1>3

LEMMA CurrentStatusFacts ==
    ASSUME Shapes, NEW name
    PROVE  /\ CurrentStatus(name).name = name /\ CurrentStatus(name).last = pod.last
           /\ pod.state = "running" => ~Reported(CurrentStatus(name))
           /\ pod.state = "failed" => /\ Reported(CurrentStatus(name))
                                      /\ CurrentStatus(name).state = "failed"
           /\ pod.state = "backoff" => /\ Reported(CurrentStatus(name))
                                       /\ Waiting(CurrentStatus(name))
                                       /\ CurrentStatus(name).reason = "CrashLoopBackOff"
<1>1. pod.state \in {"unscheduled", "running", "failed", "backoff"}
  BY DEF Shapes, Pods
<1>2. CASE pod.state = "running"
  <2>1. \E r : CurrentStatus(name) = Status(name, "running", r, pod.last)
    <3>1. CurrentStatus(name) = Status(name, "running", "", pod.last)
      BY <1>2 DEF CurrentStatus
    <3> QED BY <3>1, Zenon
  <2> QED BY <1>2, <2>1, Fields, ReportedFacts
<1>3. CASE pod.state = "failed"
  <2>1. CurrentStatus(name) = Status(name, "failed", "Error", pod.last)
    BY <1>3 DEF CurrentStatus
  <2> QED BY <1>3, <2>1, Fields, ReportedFacts
<1>4. CASE pod.state \in {"unscheduled", "backoff"}
  <2>1. CurrentStatus(name) = Status(name, "waiting", "CrashLoopBackOff", pod.last)
    BY <1>4 DEF CurrentStatus
  <2> QED BY <1>4, <2>1, Fields, ReportedFacts
<1> QED BY <1>1, <1>2, <1>3, <1>4

\* One container is at work, those before it are done and those behind it wait.
LEMMA StatusShape ==
    ASSUME Shapes, pod.state # "unscheduled"
    PROVE  /\ PodStatus.phase = IF Serving THEN "Running" ELSE "Pending"
           /\ Serving => /\ \A i \in DOMAIN PodStatus.init : PodStatus.init[i].state = "done"
                         /\ PodStatus.containers = <<CurrentStatus("hermes")>>
           /\ Starting => \E at \in DOMAIN PodStatus.init :
                 /\ at \in Nat
                 /\ PodStatus.init[at] = CurrentStatus(plan[pod.step].container)
                 /\ \A i \in DOMAIN PodStatus.init \ {at} : ~Reported(PodStatus.init[i])
<1> DEFINE names == ContainerNames
           NotYet(name) == Status(name, "waiting", "PodInitializing", FALSE)
           here == CHOOSE i \in DOMAIN names : names[i] = plan[pod.step].container
           at == IF Serving THEN Len(names) + 1 ELSE here
           init == [i \in DOMAIN names |->
                      CASE i < at -> Status(names[i], "done", "Completed", FALSE)
                        [] i = at -> CurrentStatus(names[i])
                        [] OTHER  -> NotYet(names[i])]
<1>1. PodStatus = [phase |-> IF Serving THEN "Running" ELSE "Pending", scheduled |-> TRUE,
                   init |-> init,
                   containers |-> <<IF Serving THEN CurrentStatus("hermes") ELSE NotYet("hermes")>>,
                   reason |-> ""]
  BY DEF PodStatus
<1>2. /\ Len(names) \in Nat /\ DOMAIN names = 1..Len(names)
      /\ Starting => here \in DOMAIN names /\ names[here] = plan[pod.step].container
  <2>1. Len(names) \in Nat /\ DOMAIN names = 1..Len(names)
    BY StatusNames DEF Shapes
  <2>2. ASSUME Starting
        PROVE  here \in DOMAIN names /\ names[here] = plan[pod.step].container
    <3>1. plan[pod.step].container \in Containers(spec)
      BY <2>2, Here DEF StepSet
    <3>2. \E i \in DOMAIN names : names[i] = plan[pod.step].container
      BY <3>1, StatusNames DEF Shapes
    <3> QED BY <3>2
  <2> QED BY <2>1, <2>2
<1> HIDE DEF names, here
<1>3. \A i \in DOMAIN names :
        /\ i < at => init[i] = Status(names[i], "done", "Completed", FALSE)
        /\ i = at => init[i] = CurrentStatus(names[i])
        /\ ~(i < at) /\ i # at => init[i] = NotYet(names[i])
  <2>1. at \in Nat
    BY <1>2 DEF Starting
  <2> HIDE DEF at
  <2>2. ASSUME NEW i \in DOMAIN names
        PROVE  /\ i < at => init[i] = Status(names[i], "done", "Completed", FALSE)
               /\ i = at => init[i] = CurrentStatus(names[i])
               /\ ~(i < at) /\ i # at => init[i] = NotYet(names[i])
    <3>1. init[i] = CASE i < at -> Status(names[i], "done", "Completed", FALSE)
                      [] i = at -> CurrentStatus(names[i])
                      [] OTHER  -> NotYet(names[i])
      BY Zenon
    <3>2. i < at => i # at
      BY <1>2, <2>1
    <3> HIDE DEF init
    <3> QED BY <3>1, <3>2, Zenon
  <2> QED BY <2>2
<1>4. \A name : /\ ~Reported(Status(name, "done", "Completed", FALSE))
                /\ ~Reported(NotYet(name))
                /\ Status(name, "done", "Completed", FALSE).state = "done"
  <2> SUFFICES ASSUME NEW name
               PROVE  /\ ~Reported(Status(name, "done", "Completed", FALSE))
                      /\ ~Reported(NotYet(name))
                      /\ Status(name, "done", "Completed", FALSE).state = "done"
    OBVIOUS
  <2> DEFINE done == Status(name, "done", "Completed", FALSE)
             wait == NotYet(name)
  <2>1. done.state = "done" /\ wait.state = "waiting" /\ wait.reason = "PodInitializing"
    BY DEF Status
  <2> HIDE DEF done, wait
  <2>2. ~Reported(done) /\ ~Reported(wait)
    BY <2>1, ReportedFacts
  <2> QED BY <2>1, <2>2 DEF done, wait
<1>5. DOMAIN init = DOMAIN names
  OBVIOUS
<1>6. Serving => \A i \in DOMAIN init : init[i].state = "done"
  <2>1. Serving => \A i \in DOMAIN names : i < at
    BY <1>2
  <2> HIDE DEF at, init
  <2> QED BY <1>3, <1>4, <1>5, <2>1
<1>7. ASSUME Starting
      PROVE  /\ at \in DOMAIN init /\ at \in Nat
             /\ init[at] = CurrentStatus(plan[pod.step].container)
             /\ \A i \in DOMAIN init \ {at} : ~Reported(init[i])
  <2>1. at \in DOMAIN names /\ at \in Nat /\ names[at] = plan[pod.step].container
    BY <1>2, <1>7 DEF Starting
  <2> HIDE DEF at, init
  <2> QED BY <1>3, <1>4, <1>5, <2>1
<1> HIDE DEF at, init
<1>8. /\ PodStatus.phase = IF Serving THEN "Running" ELSE "Pending"
      /\ PodStatus.init = init
      /\ Serving => PodStatus.containers = <<CurrentStatus("hermes")>>
  BY <1>1
<1> QED BY <1>6, <1>7, <1>8

LEMMA Diagnosis ==
    ASSUME IInv, BackOffFailed
    PROVE  FailureReported
<1> DEFINE failure == initContainerFailure(PodStatus)
           down == Starting /\ pod.state \in {"failed", "backoff"}
<1>1. Shapes /\ pod.state \in {"unscheduled", "running", "failed", "backoff"}
  BY DEF IInv, Shapes, Pods
<1>2. CASE pod.state = "unscheduled"
  <2>1. PodStatus.phase = "Pending" /\ PodStatus.scheduled = FALSE /\ PodStatus.init = <<>>
    BY <1>2 DEF PodStatus
  <2>2. failure = NoFailure
    BY <2>1, ReportsNone
  <2>3. firstPodFailure(PodStatus).reason = "Unschedulable"
    BY <2>1 DEF firstPodFailure, Failure
  <2> QED BY <1>2, <2>2, <2>3 DEF FailureReported, podStatusReason
<1>3. CASE pod.state # "unscheduled" /\ Serving
  <2>1. /\ PodStatus.phase = "Running"
        /\ \A i \in DOMAIN PodStatus.init : PodStatus.init[i].state = "done"
        /\ PodStatus.containers = <<CurrentStatus("hermes")>>
    BY <1>1, <1>3, StatusShape
  <2>2. failure = NoFailure
    BY <2>1, ReportsNone DEF Reported, Waiting
  <2>3. ASSUME pod.state = "backoff"
        PROVE  firstPodFailure(PodStatus).reason = "CrashLoopBackOff"
    <3> DEFINE Named(cs) == Failure(cs.name, cs.reason, "")
               InitBad(cs) == FailedWithReason(cs) \/ Waiting(cs)
               Bad(cs) == Waiting(cs) \/ cs.last
               Described(cs) == IF Waiting(cs) THEN Named(cs)
                                ELSE Failure(cs.name, "Error", "output")
               cs0 == CurrentStatus("hermes")
    <3>1. Waiting(cs0) /\ cs0.reason = "CrashLoopBackOff"
      BY <1>1, <2>3, CurrentStatusFacts
    <3> HIDE DEF cs0
    <3>2. FirstOf(PodStatus.init, InitBad, Named) = NoFailure
      BY <2>1 DEF FirstOf, FailedWithReason, Waiting
    <3>3. FirstOf(<<cs0>>, Bad, Described) = Failure(cs0.name, "CrashLoopBackOff", "")
      <4> DEFINE hits == {i \in DOMAIN <<cs0>> : Bad(<<cs0>>[i])}
                 first == CHOOSE i \in hits : \A j \in hits : i <= j
      <4>1. hits = {1}
        BY <3>1
      <4>2. first = 1 /\ <<cs0>>[1] = cs0
        BY <4>1
      <4>3. FirstOf(<<cs0>>, Bad, Described) =
              IF hits = {} THEN NoFailure ELSE Described(<<cs0>>[first])
        BY Zenon DEF FirstOf
      <4> HIDE DEF hits, first
      <4>4. FirstOf(<<cs0>>, Bad, Described) = Described(cs0)
        BY <4>1, <4>2, <4>3
      <4> QED BY <3>1, <4>4
    <3> DEFINE loop == Failure(cs0.name, "CrashLoopBackOff", "")
    <3>4. loop.reason = "CrashLoopBackOff" /\ loop # NoFailure
      <4>1. loop.reason = "CrashLoopBackOff"
        BY Zenon DEF Failure
      <4> HIDE DEF loop
      <4> QED BY <4>1, NoFailureFields
    <3>5. firstPodFailure(PodStatus) = FirstOf(<<cs0>>, Bad, Described)
      BY <2>1, <3>2, <3>3, <3>4 DEF firstPodFailure, cs0
    <3>6. firstPodFailure(PodStatus) = loop
      BY <3>3, <3>5, Zenon
    <3> HIDE DEF loop
    <3> QED BY <3>4, <3>6
  <2> QED BY <1>3, <2>2, <2>3 DEF FailureReported, podStatusReason, Starting
<1>4. CASE pod.state # "unscheduled" /\ Starting
  <2> DEFINE name == plan[pod.step].container
             cs == CurrentStatus(name)
  <2>1. PICK at \in DOMAIN PodStatus.init :
              /\ at \in Nat /\ PodStatus.init[at] = cs
              /\ \A i \in DOMAIN PodStatus.init \ {at} : ~Reported(PodStatus.init[i])
    BY <1>1, <1>4, StatusShape
  <2>2. /\ cs.name = name /\ cs.last = pod.last
        /\ pod.state = "running" => ~Reported(cs)
        /\ pod.state = "failed" => Reported(cs) /\ cs.state = "failed"
        /\ pod.state = "backoff" => Reported(cs)
    BY <1>1, CurrentStatusFacts
  <2> HIDE DEF name, cs
  <2>3. CASE pod.state = "running"
    <3>1. failure = NoFailure
      BY <2>1, <2>2, <2>3, ReportsNone
    <3> QED BY <2>3, <3>1 DEF FailureReported
  <2>4. CASE pod.state \in {"failed", "backoff"}
    <3>1. Reported(cs) /\ (cs.state = "failed" \/ cs.last)
      BY <2>2, <2>4 DEF BackOffFailed
    <3>2. failure = Failure(name, terminationReason(cs), "output")
      BY <2>1, <2>2, <3>1, ReportsOne
    <3>3. failure # NoFailure /\ failure.container = name /\ failure.message = "output"
      BY <3>2, Fields, NoFailureFields
    <3> QED BY <1>4, <2>4, <3>3 DEF FailureReported, name, Starting
  <2> QED BY <1>1, <1>4, <2>3, <2>4
<1> QED BY <1>2, <1>3, <1>4 DEF Starting

-----------------------------------------------------------------------------
(* The theorems.                                                           *)

\* Wherever starts are cut short, whatever specs follow one another and whichever
\* profiles a user deletes, each script that has run has left behind what it is
\* for, and what follows has kept it.
THEOREM InitInductive == Spec => []IInv
<1>1. Init => IInv
  BY InitHolds
<1>2. IInv /\ [Next]_vars => IInv'
  BY InvariantKept
<1> QED BY <1>1, <1>2, PTL DEF Spec

\* The volume, the manifests and the Pod keep their types; no profile ever has a
\* config.yaml that was rejected, and no job runs that the profile does not have.
THEOREM InitTypeCorrect == Spec => []TypeOK
<1>1. IInv => TypeOK
  <2> SUFFICES ASSUME IInv PROVE TypeOK
    OBVIOUS
  <2>1. Shapes /\ DirsOK
    BY DEF IInv
  <2>2. /\ spec \in Specs /\ pod.step \in 1..(Len(plan) + 1)
        /\ pod.state \in {"unscheduled", "running", "failed", "backoff"}
        /\ pod.astray \subseteq Profiles
        /\ profMan \subseteq Names /\ clean \in BOOLEAN
        /\ pkgs \in [PackageKinds -> [target : SUBSET Items, manifest : SUBSET Items]]
    BY <2>1 DEF Shapes, Pods, Packages
  <2>3. ASSUME NEW p \in Profiles
        PROVE  /\ vol[p].lists \in [ListKinds -> [Items -> Nat]]
               /\ vol[p].env \in [EnvKeys -> {"none", "operator", "user", "token"}]
               /\ vol[p].blocks \in Nat
               /\ vol[p].dist \in DOMAIN Shipped \cup {NoDist}
               /\ vol[p].active \subseteq vol[p].jobs
               /\ vol[p].config # Error
               /\ man[p].lists \in [ListKinds -> SUBSET Items]
               /\ man[p].dist \in DOMAIN Shipped \cup {NoDist}
    <3>1. vol[p] \in Dir /\ DirOK(vol[p]) /\ man[p] \in Manifests
      BY <2>1 DEF Shapes, DirsOK
    <3> QED BY <3>1 DEF Dir, DirOK, Manifests, Dists, Configs
  <2> QED BY <2>2, <2>3 DEF TypeOK
<1> QED BY <1>1, InitInductive, PTL

\* With egress on, no script of the agent's containers or of hermes.initScripts but
\* strip and append finds the proxy's env in a .env, wherever a container died and
\* whatever a previous Pod left.  What spec.initContainers run is not among them: they
\* come behind init-egress.
THEOREM ProxyEnvStaysHidden == Spec => []ProxyEnvHidden
<1>1. IInv => ProxyEnvHidden
  BY DEF IInv
<1> QED BY <1>1, InitInductive, PTL

\* An agent never starts on less than its spec declares, wherever earlier starts
\* were cut short, whatever earlier specs or a user left on the volume and whichever
\* failures the scripts go on after, except that a profile whose home the workspace
\* script lost may lack its workspace files, or the profile itself.
THEOREM StartsOnDeclared == Spec => ServesDeclared
<1>1. IInv /\ [Next]_vars =>
        [Completes =>
           \A p \in Declared(spec) :
             LET want == spec.prof[p]
                 Installed(k) == \A x \in want.lists[k] : vol'[p].lists[k][x] > 0
             IN
             /\ HasDocument(want.config) => vol'[p].config = Bootstrap(spec, p)
             /\ \A k \in ListKinds \ {"bundles", "workspace"} : Installed(k)
             /\ RunsDotEnv(spec, p) => vol'[p].env = Lines(spec, p)
             /\ p \notin pod'.astray => vol'[p].exists /\ Installed("workspace")]_vars
  BY Started
<1> QED BY <1>1, InitInductive, PTL DEF ServesDeclared, Spec

\* With egress on, an agent starts with the proxy's env exactly once in the .env of
\* each declared profile and with a token in place of each key the Secret holds one
\* for, however often init-egress died half-way.
THEOREM StartsOnProxy == Spec => AgentUsesProxy
<1>1. ASSUME IInv, [Next]_vars, Completes, spec.egress, NEW p \in Declared(spec)
      PROVE  vol'[p].blocks = 1 /\ \A k \in TokenKeys : vol'[p].env[k] = "token"
  <2>1. RunsDotEnv(spec, p)
    BY <1>1 DEF RunsDotEnv
  <2>2. p \in Profiles
    BY <1>1, SpecType DEF IInv
  <2>3. vol'[p].file /\ vol'[p].env = Lines(spec, p)
    BY <1>1, <2>1, Started
  <2>4. vol'[p].blocks = 1
    BY <1>1, <2>2, <2>3, Started
  <2>5. \A k \in TokenKeys : Lines(spec, p)[k] = "token"
    BY <1>1 DEF Lines, EnvKeys
  <2> QED BY <2>3, <2>4, <2>5
<1>2. IInv /\ [Next]_vars =>
        [Completes /\ spec.egress =>
           \A p \in Declared(spec) :
              vol'[p].blocks = 1 /\ \A k \in TokenKeys : vol'[p].env[k] = "token"]_vars
  BY <1>1
<1> QED BY <1>2, InitInductive, PTL DEF AgentUsesProxy, Spec

\* The config.yaml an agent starts on has the user's value on each path where the
\* user set one, and otherwise the operator's when the feature is on.
THEOREM DefaultsFilled == Spec => DefaultsFillGaps
<1>1. ASSUME IInv, [Next]_vars, Completes, HasDocument(spec.prof["default"].config),
             NEW path \in Paths
      PROVE  LET doc == ResolveConfig(spec.prof["default"].config)
                 On(q) == CASE q = "web.search_backend"         -> spec.searxng
                            [] q = "gateway.multiplex_profiles" -> spec.named # {}
                            [] OTHER                            -> spec.camofox
             IN  ValueAt(vol'["default"].config, path) =
                     IF ValueAt(doc, path) # Absent THEN ValueAt(doc, path)
                     ELSE IF On(path) THEN Default ELSE Absent
  <2> DEFINE config == spec.prof["default"].config
             doc == ResolveConfig(config)
             result == vol'["default"].config
             named == spec.named # {}
  <2>1. /\ result = Bootstrap(spec, "default") /\ result # Error /\ spec \in Specs
    BY <1>1, Started, SpecType DEF IInv, Shapes, Configs
  <2>2. /\ IsDocument(config.raw) /\ IsDocument(config.ref)
        /\ spec.searxng \in BOOLEAN /\ spec.camofox \in BOOLEAN /\ named \in BOOLEAN
        /\ HasDocument(config)
    BY <1>1, <2>1, SpecsAssumption DEF ProfileSpecOK, Profiles
  <2>3. result = DefaultProfileConfig(config, spec.searxng, spec.camofox, named)
    BY <2>1 DEF Bootstrap
  <2> HIDE DEF config, result, named
  <2>4. /\ ValueAt(result, Web) = IF spec.searxng THEN Filled(ValueAt(doc, Web))
                                  ELSE ValueAt(doc, Web)
        /\ ValueAt(result, Gateway) = IF named THEN Filled(ValueAt(doc, Gateway))
                                      ELSE ValueAt(doc, Gateway)
        /\ ValueAt(result, Browser) = IF spec.camofox THEN Filled(ValueAt(doc, Browser))
                                      ELSE ValueAt(doc, Browser)
    BY <2>1, <2>2, <2>3, ProfileConfigFills
  <2> HIDE DEF doc
  <2>5. ASSUME NEW b
        PROVE  (IF b THEN Filled(ValueAt(doc, path)) ELSE ValueAt(doc, path)) =
                   IF ValueAt(doc, path) # Absent THEN ValueAt(doc, path)
                   ELSE IF b THEN Default ELSE Absent
    BY DEF Filled
  <2>6. CASE path = "web.search_backend"
    BY <2>4, <2>5, <2>6 DEF Web, doc, config, result
  <2>7. CASE path = "gateway.multiplex_profiles"
    BY <2>4, <2>5, <2>7 DEF Gateway, doc, config, result, named
  <2>8. CASE path = "browser.camofox.managed_persistence"
    BY <2>4, <2>5, <2>8 DEF Browser, doc, config, result
  <2> QED BY <2>6, <2>7, <2>8 DEF Paths
<1>2. IInv /\ [Next]_vars =>
        [Completes /\ HasDocument(spec.prof["default"].config) =>
           LET doc == ResolveConfig(spec.prof["default"].config)
               On(path) == CASE path = "web.search_backend"         -> spec.searxng
                             [] path = "gateway.multiplex_profiles" -> spec.named # {}
                             [] OTHER                               -> spec.camofox
           IN  \A path \in Paths :
                  ValueAt(vol'["default"].config, path) =
                      IF ValueAt(doc, path) # Absent THEN ValueAt(doc, path)
                      ELSE IF On(path) THEN Default ELSE Absent]_vars
  BY <1>1
<1> QED BY <1>2, InitInductive, PTL DEF DefaultsFillGaps, Spec

\* An init container that is down is reported by name and with its output, and
\* nothing is reported while containers only wait for their turn, for every plan and
\* wherever a start is cut short.
THEOREM FailuresReported == Spec => []FailureReported
<1>1. Init => BackOffFailed
  BY DEF Init, NewPod, BackOffFailed
<1>2. IInv /\ BackOffFailed /\ [Next]_vars => BackOffFailed'
  BY BackOffStep
<1>3. Spec => []BackOffFailed
  BY <1>1, <1>2, InitInductive, PTL DEF Spec
<1>4. IInv /\ BackOffFailed => FailureReported
  BY Diagnosis
<1> QED BY <1>3, <1>4, InitInductive, PTL
=============================================================================
