----------------------------- MODULE InitScripts -----------------------------
(***************************************************************************)
(* The start of an agent's Pod.  Init containers run the scripts the       *)
(* operator renders into the StatefulSet; they bring the data volume, which*)
(* outlives the Pod, in line with the spec and keep manifests of what they *)
(* installed.  One step is one command of a script.  The container may die *)
(* between any two commands: the kubelet then runs it again from its first *)
(* script.  A spec edit or an eviction replaces the Pod, which starts over *)
(* with the first container, on the volume as it was left.                 *)
(***************************************************************************)
EXTENDS Naturals, Sequences, FiniteSets, ConfigDocuments, PodDiagnosis

CONSTANTS
    NameOrder,      \* the names of the named profiles, sorted
    Specs,          \* the specs a user may apply, records as described below
    InitSpecs,      \* the ones an agent may be created with
    Items,          \* names of files, plugins, skills, bundles, crons, packages
    TokenKeys,      \* env vars the egress Secret holds a proxy token for
    Shipped,        \* the cron jobs each distribution ships
    MaxEdits,       \* bound: spec edits
    MaxFaults       \* bound: containers that die, edits and evictions that cut a
                    \* start short, profiles deleted by hand, failures a script
                    \* goes on after

VARIABLES
    spec,           \* the spec the Pod was built from
    pod,            \* where the Pod is
    vol,            \* the profiles on the data volume
    man,            \* the operator's manifests of each profile, on the same volume
    pkgs,           \* the package directories and their manifests
    profMan,        \* the manifest of named profiles
    clean,          \* no start was cut short and no script went on after a failure
    budget          \* what is left of the bounds

vars == <<spec, pod, vol, man, pkgs, profMan, clean, budget>>

-----------------------------------------------------------------------------
(* A spec is a record                                                      *)
(*   [egress, apiServer, searxng, camofox, userScript, initContainers :    *)
(*        BOOLEAN,                                                         *)
(*    packages : [PackageKinds -> SUBSET Items], named : SUBSET Names,     *)
(*    prof : [Profiles -> [lists : [ListKinds -> SUBSET Items],            *)
(*                         config : [raw, ref], dotEnv : SUBSET EnvKeys,   *)
(*                         dist, clone, resume, update]]]                  *)
(* apiServer stands for the API server and the webhook; camofox for Camofox*)
(* with a volume of its own; userScript for hermes.initScripts and         *)
(* initContainers for spec.initContainers; update says what the start of a *)
(* Pod does with a distribution that is installed: "off", "keep" the config*)
(* or "force".                                                             *)

Names == {NameOrder[i] : i \in DOMAIN NameOrder}

Profiles == Names \cup {"default"}

ListKinds == {"workspace", "plugins", "skills", "bundles", "crons"}

PackageKinds == {"python", "npm"}

EnvKeys == TokenKeys \cup {"API_SERVER_KEY", "SEARXNG_URL", "CAMOFOX_URL"}

NoDist == "none"

Declared(s) == s.named \cup {"default"}

\* What Kubernetes gives an init container to copy: the bootstrap ConfigMap.
Bootstrap(s, p) ==
    IF p = "default"
    THEN DefaultProfileConfig(s.prof[p].config, s.searxng, s.camofox, s.named # {})
    ELSE NamedProfileConfig(s.prof[p].config)

\* A spec whose config does not resolve fails the pass before the StatefulSet.
Resolvable(s) == \A p \in Declared(s) : Bootstrap(s, p) # Error

-----------------------------------------------------------------------------
(* Assumptions on the constants.                                           *)

\* The names are distinct keys of a map.  The containers of the code are
\* "init-profile-<name>", so none has the name of another container of the
\* operator's; the model leaves the prefix out.  That no profile is called "default" is up to
\* the user.
ASSUME NamesAssumption ==
    /\ NameOrder \in Seq(STRING)
    /\ \A i, j \in DOMAIN NameOrder : NameOrder[i] = NameOrder[j] => i = j
    /\ Names \cap {"default", "init-hermes", "user", "init-egress", "init-searxng-config",
                  "initContainers"} = {}

\* What a declared source may hold: nothing, or a document in one of its forms.
IsDocument(d) ==
    d \in {None, Error, Null, List} \/ d = Object(d.web, d.gateway, d.browser)

ProfileSpecOK(p) ==
    /\ p.lists \in [ListKinds -> SUBSET Items]
    /\ IsDocument(p.config.raw) /\ IsDocument(p.config.ref)
    /\ p.dotEnv \subseteq EnvKeys
    /\ p.dist \in DOMAIN Shipped \cup {NoDist}
    /\ p.clone \in BOOLEAN
    /\ p.update \in {"off", "keep", "force"}

ASSUME SpecsAssumption ==
    /\ \A s \in Specs :
         /\ {s.egress, s.apiServer, s.searxng, s.camofox} \subseteq BOOLEAN
         /\ {s.userScript, s.initContainers} \subseteq BOOLEAN
         /\ s.packages \in [PackageKinds -> SUBSET Items]
         /\ s.named \subseteq Names
         /\ \A p \in Profiles : ProfileSpecOK(s.prof[p])
    /\ InitSpecs \subseteq {s \in Specs : Resolvable(s)}
    /\ NoDist \notin DOMAIN Shipped

-----------------------------------------------------------------------------
(* The scripts of a Pod, in order.                                         *)

\* The operator's own keys: API server and sidecars for the default profile,
\* sidecars only for the others.
OperatorKeys(s, p) ==
    (IF s.apiServer /\ p = "default" THEN {"API_SERVER_KEY"} ELSE {})
        \cup (IF s.searxng THEN {"SEARXNG_URL"} ELSE {})
        \cup (IF s.camofox THEN {"CAMOFOX_URL"} ELSE {})

RunsDotEnv(s, p) == s.prof[p].dotEnv # {} \/ OperatorKeys(s, p) # {} \/ s.egress

When(cond, script) == IF cond THEN <<script>> ELSE <<>>

\* The scripts every profile runs.
CommonScripts(s, p) ==
    When(HasDocument(s.prof[p].config), "config")
        \o <<"workspace">> \o When(RunsDotEnv(s, p), "dotenv")

DefaultScripts(s) ==
    When(s.egress, "strip") \o CommonScripts(s, "default")
        \o <<"python", "npm", "plugins", "skills", "bundles", "crons">>
        \o When(s.named # {}, "cleanup")

ProfileScripts(s, p) ==
    <<IF s.prof[p].dist # NoDist THEN "distribution" ELSE "create">>
        \o CommonScripts(s, p) \o <<"plugins", "skills", "bundles", "crons">>
        \o When(s.prof[p].dist # NoDist, "resume")

\* A container's scripts, each with the container and the profile it is for.
Container(name, p, scripts) ==
    [i \in DOMAIN scripts |-> [container |-> name, profile |-> p, script |-> scripts[i]]]

\* One sequence for each name, joined in the order of the names.
Joined(seqs) ==
    LET upTo[i \in 0..Len(NameOrder)] == IF i = 0 THEN <<>> ELSE upTo[i - 1] \o seqs[i]
    IN  upTo[Len(NameOrder)]

\* The containers of the named profiles.
ProfileContainers(s) ==
    Joined([i \in DOMAIN NameOrder |->
                IF NameOrder[i] \in s.named
                THEN Container(NameOrder[i], NameOrder[i], ProfileScripts(s, NameOrder[i]))
                ELSE <<>>])

\* The containers that come behind all those of the agent itself: SearXNG's, which
\* does not mount the data volume, and the ones of spec.initContainers.
LaterContainers(s) ==
    Container("init-searxng-config", "default", When(s.searxng, "searxng"))
        \o Container("initContainers", "default", When(s.initContainers, "userContainer"))

\* Mutant: init-egress runs before the user's scripts.
PlanProxyEarly(s) ==
    Container("init-hermes", "default", DefaultScripts(s)) \o ProfileContainers(s)
        \o Container("init-egress", "default", When(s.egress, "append"))
        \o Container("user", "default", When(s.userScript, "userScript"))
        \o LaterContainers(s)

Plan(s) ==
    Container("init-hermes", "default", DefaultScripts(s)) \o ProfileContainers(s)
        \o Container("user", "default", When(s.userScript, "userScript"))
        \o Container("init-egress", "default", When(s.egress, "append"))
        \o LaterContainers(s)

Plans == [s \in Specs |-> Plan(s)]

plan == Plans[spec]

-----------------------------------------------------------------------------
(* States.                                                                 *)

Serving == pod.step > Len(plan)

Starting == ~Serving

EmptyLists == [k \in ListKinds |-> [x \in Items |-> 0]]

NoEnv == [k \in EnvKeys |-> "none"]

\* A profile directory.  lists counts the installed copies of each item, env
\* is the .env, blocks how many copies of the proxy env it holds, dist the
\* distribution it comes from, jobs the shipped cron jobs, active the ones
\* that are not paused.
NoProfile ==
    [exists |-> FALSE, config |-> None, lists |-> EmptyLists, file |-> FALSE,
     env |-> NoEnv, blocks |-> 0, dist |-> NoDist, jobs |-> {}, active |-> {}]

NoManifests ==
    [lists |-> [k \in ListKinds |-> {}], dist |-> NoDist, resumed |-> {}]

\* astray holds the profiles whose workspace files this Pod put elsewhere.
NewPod(state) ==
    [step |-> 1, at |-> "start", done |-> {}, kept |-> {}, state |-> state, last |-> FALSE,
     astray |-> {}]

Init ==
    /\ spec \in InitSpecs
    /\ pod = NewPod("unscheduled")
    /\ vol = [p \in Profiles |-> [NoProfile EXCEPT !.exists = (p = "default")]]
    /\ man = [p \in Profiles |-> NoManifests]
    /\ pkgs = [k \in PackageKinds |-> [target |-> {}, manifest |-> {}]]
    /\ profMan = {}
    /\ clean = TRUE
    /\ budget = [edits |-> MaxEdits, faults |-> MaxFaults]

AllJobs == UNION {Shipped[d] : d \in DOMAIN Shipped}

\* The config.yaml a distribution ships.
ShippedConfig == [kind |-> "shipped"]

TypeOK ==
    /\ spec \in Specs
    /\ pod.step \in 1..(Len(plan) + 1)
    /\ pod.state \in {"unscheduled", "running", "failed", "backoff"}
    /\ pod.astray \subseteq Profiles
    /\ \A p \in Profiles :
         /\ vol[p].lists \in [ListKinds -> [Items -> Nat]]
         /\ vol[p].env \in [EnvKeys -> {"none", "operator", "user", "token"}]
         /\ vol[p].blocks \in Nat
         /\ vol[p].dist \in DOMAIN Shipped \cup {NoDist}
         /\ vol[p].active \subseteq vol[p].jobs
         /\ vol[p].config # Error
         /\ man[p].lists \in [ListKinds -> SUBSET Items]
         /\ man[p].dist \in DOMAIN Shipped \cup {NoDist}
    /\ pkgs \in [PackageKinds -> [target : SUBSET Items, manifest : SUBSET Items]]
    /\ profMan \subseteq Names
    /\ clean \in BOOLEAN

-----------------------------------------------------------------------------
(* Running a script.  pod.done holds what the loop at hand has handled.    *)

Running(script) ==
    /\ Starting /\ pod.state = "running"
    /\ plan[pod.step].script = script
    /\ UNCHANGED spec

\* The profile the script is for.
this == plan[pod.step].profile

wanted == spec.prof[this]

GoTo(at) == pod' = [pod EXCEPT !.at = at, !.done = {}]

Handled(x) == pod' = [pod EXCEPT !.done = @ \cup {x}]

\* The next script; the next container has not failed yet.
NextScript ==
    pod' = [pod EXCEPT !.step = @ + 1, !.at = "start", !.done = {}, !.kept = {},
                       !.last = /\ @
                                /\ pod.step < Len(plan)
                                /\ plan[pod.step + 1].container = plan[pod.step].container]

NoFault == UNCHANGED <<clean, budget>>

\* Part of the bounds is used up.
Spend(edits, faults) ==
    /\ budget.edits >= edits /\ budget.faults >= faults
    /\ budget' = [edits |-> budget.edits - edits, faults |-> budget.faults - faults]

\* A command fails and its script goes on: "|| true", or a status that is lost.
Tolerated ==
    /\ Spend(0, 1)
    /\ clean' = FALSE

-----------------------------------------------------------------------------
(* config, workspace, plugins, skills, bundles, crons.                     *)

buildConfigScript ==
    /\ Running("config") /\ vol[this].exists
    /\ vol' = [vol EXCEPT ![this].config = Bootstrap(spec, this)]
    /\ NextScript /\ NoFault
    /\ UNCHANGED <<man, pkgs, profMan>>

\* What the first loop of a list script removes: what the manifest names and
\* the spec does not, and for crons all that the manifest names.
Stale(k) == man[this].lists[k] \ (IF k = "crons" THEN {} ELSE wanted.lists[k])

\* Remove one: of several cron jobs of a name the first.
RemoveItem(k, mayFail) ==
    LET rest == Stale(k) \ pod.done
        x == CHOOSE y \in rest : TRUE
    IN  /\ pod.at = "start" /\ rest # {}
        /\ \/ /\ vol' = [vol EXCEPT ![this].lists[k][x] = IF @ = 0 THEN 0 ELSE @ - 1]
              /\ NoFault
           \/ mayFail /\ Tolerated /\ UNCHANGED vol
        /\ Handled(x)
        /\ UNCHANGED man

StartInstall(k) == pod.at = "start" /\ Stale(k) \subseteq pod.done /\ GoTo("install")
                   /\ NoFault /\ UNCHANGED <<vol, man>>

\* Mutant: what the manifest names is taken to be installed.
InstallItemByManifest(k, mayFail) ==
    LET rest == wanted.lists[k] \ pod.done
        x == CHOOSE y \in rest : TRUE
    IN  /\ pod.at = "install" /\ rest # {} /\ vol[this].exists
        /\ vol' = [vol EXCEPT ![this].lists[k][x] =
                      IF k # "crons" /\ x \in man[this].lists[k] THEN @
                      ELSE IF k = "crons" THEN @ + 1 ELSE 1]
        /\ Handled(x) /\ NoFault
        /\ UNCHANGED man

\* Install one: again for what is there, except that a cron job is created
\* next to one of the same name.  A command for a profile that is not there fails.
InstallItem(k, mayFail) ==
    LET rest == wanted.lists[k] \ pod.done
        x == CHOOSE y \in rest : TRUE
    IN  /\ pod.at = "install" /\ rest # {}
        /\ \/ /\ vol[this].exists
              /\ vol' = [vol EXCEPT ![this].lists[k][x] = IF k = "crons" THEN @ + 1 ELSE 1]
              /\ NoFault
           \/ mayFail /\ (Tolerated \/ (~vol[this].exists /\ NoFault)) /\ UNCHANGED vol
        /\ Handled(x)
        /\ UNCHANGED man

RecordList(k) ==
    /\ pod.at = "install" /\ wanted.lists[k] \subseteq pod.done
    /\ man' = [man EXCEPT ![this].lists[k] = wanted.lists[k]]
    /\ NextScript /\ NoFault
    /\ UNCHANGED vol

\* Mutant: what the spec no longer names is not removed.
ListScriptNoPrune(k, removeMayFail, installMayFail) ==
    /\ Running(k)
    /\ \/ pod.at = "start" /\ GoTo("install") /\ NoFault /\ UNCHANGED <<vol, man>>
       \/ InstallItem(k, installMayFail)
       \/ RecordList(k)
    /\ UNCHANGED <<pkgs, profMan>>

ListScript(k, removeMayFail, installMayFail) ==
    /\ Running(k)
    /\ \/ RemoveItem(k, removeMayFail)
       \/ StartInstall(k)
       \/ InstallItem(k, installMayFail)
       \/ RecordList(k)
    /\ UNCHANGED <<pkgs, profMan>>

\* profile_home=$(dirname "$(hermes config path -p ...)"): the status of hermes is
\* lost, and the home is the container's working directory.
LoseProfileHome ==
    /\ pod.at = "start" /\ pod.done = {}
    /\ IF vol[this].exists THEN Tolerated ELSE NoFault
    /\ pod' = [pod EXCEPT !.at = "astray", !.astray = @ \cup {this}]
    /\ UNCHANGED <<vol, man>>

\* The files are removed and copied there; the manifest names them all the same.
CopyAstray ==
    /\ pod.at = "astray"
    /\ man' = [man EXCEPT ![this].lists["workspace"] = wanted.lists["workspace"]]
    /\ NextScript /\ NoFault
    /\ UNCHANGED vol

buildWorkspaceScript ==
    /\ Running("workspace")
    /\ \/ vol[this].exists /\ ListScript("workspace", FALSE, FALSE)
       \/ (LoseProfileHome \/ CopyAstray) /\ UNCHANGED <<pkgs, profMan>>

buildPluginsScript == ListScript("plugins", TRUE, FALSE)
buildSkillsScript == ListScript("skills", TRUE, FALSE)
buildBundlesScript == ListScript("bundles", TRUE, TRUE)
buildCronsScript == ListScript("crons", TRUE, FALSE)

-----------------------------------------------------------------------------
(* Packages.                                                               *)

\* No packages configured, or the manifest names just these: nothing to do.
PackagesUpToDate(k) == spec.packages[k] = {} \/ pkgs[k].manifest = spec.packages[k]

PackagesScript(k) ==
    /\ Running(k)
    /\ \/ pod.at = "start" /\ PackagesUpToDate(k) /\ NextScript /\ UNCHANGED pkgs
       \/ /\ pod.at = "start" /\ ~PackagesUpToDate(k)
          /\ pkgs' = [pkgs EXCEPT ![k].target = {}]
          /\ GoTo("wiped")
       \/ /\ pod.at = "wiped"
          /\ pkgs' = [pkgs EXCEPT ![k].target = spec.packages[k]]
          /\ GoTo("installed")
       \/ /\ pod.at = "installed"
          /\ pkgs' = [pkgs EXCEPT ![k].manifest = spec.packages[k]]
          /\ NextScript
    /\ NoFault
    /\ UNCHANGED <<vol, man, profMan>>

buildPythonPackagesScript == PackagesScript("python")
buildNPMPackagesScript == PackagesScript("npm")

-----------------------------------------------------------------------------
(* .env files.                                                             *)

\* What the .env of a profile gets for each key: the proxy token wins over the
\* user's value, the user's value over the operator's.
Lines(s, p) ==
    [k \in EnvKeys |-> IF s.egress /\ k \in TokenKeys THEN "token"
                       ELSE IF k \in s.prof[p].dotEnv THEN "user"
                       ELSE IF k \in OperatorKeys(s, p) THEN "operator"
                       ELSE "none"]

\* The redirection truncates the file before the first line is written.
buildDotEnvScript ==
    /\ Running("dotenv") /\ vol[this].exists
    /\ \/ /\ pod.at = "start"
          /\ vol' = [vol EXCEPT ![this].file = TRUE, ![this].env = NoEnv, ![this].blocks = 0]
          /\ GoTo("open")
       \/ /\ pod.at = "open"
          /\ vol' = [vol EXCEPT ![this].env = Lines(spec, this)]
          /\ NextScript
    /\ NoFault
    /\ UNCHANGED <<man, pkgs, profMan>>

\* The .env files on the volume that the loop at hand has not reached.
FilesLeft == {p \in Profiles : vol[p].file} \ pod.done

buildEgressDotEnvStripScript ==
    /\ Running("strip")
    /\ IF FilesLeft = {} THEN NextScript /\ UNCHANGED vol
       ELSE LET p == CHOOSE q \in FilesLeft : TRUE
            IN  vol' = [vol EXCEPT ![p].blocks = 0] /\ Handled(p)
    /\ NoFault
    /\ UNCHANGED <<man, pkgs, profMan>>

\* Mutant: the copy a previous attempt added is not dropped first.
buildEgressDotEnvAppendScriptTwice ==
    /\ Running("append")
    /\ IF FilesLeft = {} THEN NextScript /\ UNCHANGED vol
       ELSE LET p == CHOOSE q \in FilesLeft : TRUE
            IN  vol' = [vol EXCEPT ![p].blocks = @ + 1] /\ Handled(p)
    /\ NoFault
    /\ UNCHANGED <<man, pkgs, profMan>>

buildEgressDotEnvAppendScript ==
    /\ Running("append")
    /\ \/ FilesLeft = {} /\ NextScript /\ UNCHANGED vol
       \/ /\ FilesLeft # {}
          /\ LET p == CHOOSE q \in FilesLeft : TRUE
             IN  IF pod.at = "start"
                 THEN /\ vol' = [vol EXCEPT ![p].blocks = 0]
                      /\ pod' = [pod EXCEPT !.at = "dropped"]
                 ELSE /\ vol' = [vol EXCEPT ![p].blocks = @ + 1]
                      /\ pod' = [pod EXCEPT !.at = "start", !.done = @ \cup {p}]
    /\ NoFault
    /\ UNCHANGED <<man, pkgs, profMan>>

-----------------------------------------------------------------------------
(* Named profiles.                                                         *)

\* Delete the profiles the spec no longer names, each with its manifests, then
\* record the names.
buildProfilesCleanupScript ==
    LET rest == (profMan \ spec.named) \ pod.done
        x == CHOOSE y \in rest : TRUE
    IN  /\ Running("cleanup")
        /\ \/ /\ pod.at = "start" /\ rest # {}
              /\ \/ vol' = [vol EXCEPT ![x] = NoProfile] /\ NoFault
                 \/ Tolerated /\ UNCHANGED vol
              /\ pod' = [pod EXCEPT !.at = "deleted"]
              /\ UNCHANGED <<man, profMan>>
           \/ /\ pod.at = "deleted"
              /\ man' = [man EXCEPT ![x] = NoManifests]
              /\ pod' = [pod EXCEPT !.at = "start", !.done = @ \cup {x}]
              /\ NoFault /\ UNCHANGED <<vol, profMan>>
           \/ /\ pod.at = "start" /\ rest = {}
              /\ profMan' = spec.named
              /\ NextScript /\ NoFault /\ UNCHANGED <<vol, man>>
        /\ UNCHANGED pkgs

\* A clone starts with the config, the .env and the skills of the default
\* profile.
Created(p) ==
    IF ~wanted.clone THEN [NoProfile EXCEPT !.exists = TRUE]
    ELSE [NoProfile EXCEPT !.exists = TRUE,
                           !.config = vol["default"].config,
                           !.lists = [@ EXCEPT !["skills"] = vol["default"].lists["skills"]],
                           !.file = vol["default"].file,
                           !.env = vol["default"].env,
                           !.blocks = vol["default"].blocks]

\* "hermes profile create" fails for a profile that exists, so every failure of it
\* is tolerated.
buildProfileCreationScript ==
    /\ Running("create")
    /\ \/ /\ pod.at = "start"
          /\ \/ /\ vol' = [vol EXCEPT ![this] = IF @.exists THEN @ ELSE Created(this)]
                /\ NoFault
             \/ ~vol[this].exists /\ Tolerated /\ UNCHANGED vol
          /\ GoTo("created")
          /\ UNCHANGED man
       \/ /\ pod.at = "created"
          /\ man' = [man EXCEPT ![this].dist = NoDist]
          /\ NextScript /\ NoFault
          /\ UNCHANGED vol
    /\ UNCHANGED <<pkgs, profMan>>

\* Mutant: only the manifest is looked at.
DistributionInstalledByManifest == man[this].dist = wanted.dist

\* The manifest names the distribution and the profile still has one.
DistributionInstalled == man[this].dist = wanted.dist /\ vol[this].dist # NoDist

\* A profile after "hermes profile update", which pulls the source that the
\* profile itself records.
Updated(profile) ==
    [profile EXCEPT !.jobs = Shipped[profile.dist],
                    !.active = @ \cap Shipped[profile.dist],
                    !.config = IF wanted.update = "force" THEN ShippedConfig ELSE @]

\* An update needs a recorded source; one that fails leaves the profile at its
\* revision.
UpdateDistribution ==
    /\ pod.at = "start" /\ DistributionInstalled
    /\ \/ wanted.update = "off" /\ UNCHANGED vol /\ NoFault
       \/ /\ wanted.update # "off" /\ vol[this].dist # NoDist
          /\ vol' = [vol EXCEPT ![this] = Updated(@)] /\ NoFault
       \/ wanted.update # "off" /\ UNCHANGED <<vol, clean>> /\ Spend(0, 1)
    /\ NextScript
    /\ UNCHANGED man

\* Installing keeps the user's data and the .env, brings the shipped jobs, paused
\* unless they run already, and resets the config.
InstallDistribution ==
    /\ NoFault
    /\ \/ /\ pod.at = "start" /\ ~DistributionInstalled
          /\ vol' = [vol EXCEPT ![this].exists = TRUE,
                                ![this].dist = wanted.dist,
                                ![this].config = ShippedConfig,
                                ![this].jobs = Shipped[wanted.dist],
                                ![this].active = @ \cap Shipped[wanted.dist]]
          /\ GoTo("installed")
          /\ UNCHANGED man
       \/ /\ pod.at = "installed"
          /\ man' = [man EXCEPT ![this].dist = wanted.dist]
          /\ NextScript
          /\ UNCHANGED vol

buildProfileDistributionScript ==
    /\ Running("distribution")
    /\ UpdateDistribution \/ InstallDistribution
    /\ UNCHANGED <<pkgs, profMan>>

\* Jobs to pause: resumed before, no longer allowlisted, not declared as crons.
ToPause == man[this].resumed \ (wanted.resume \cup wanted.lists["crons"])

ToResume == wanted.resume \ wanted.lists["crons"]

\* The first loop: a job whose pause fails is kept for the next start.
PauseJob ==
    LET rest == ToPause \ pod.done
        x == CHOOSE y \in rest : TRUE
    IN  /\ pod.at = "start" /\ rest # {}
        /\ \/ /\ vol' = [vol EXCEPT ![this].active = @ \ {x}]
              /\ Handled(x)
              /\ NoFault
           \/ /\ x \in vol[this].jobs /\ Spend(0, 1)
              /\ pod' = [pod EXCEPT !.done = @ \cup {x}, !.kept = @ \cup {x}]
              /\ UNCHANGED <<vol, clean>>
        /\ UNCHANGED man

StartResume ==
    /\ pod.at = "start" /\ ToPause \subseteq pod.done
    /\ GoTo("resuming")
    /\ NoFault /\ UNCHANGED <<vol, man>>

\* Mutant: a job that the distribution does not ship is resumed all the same.
ResumeJobBlind ==
    LET rest == ToResume \ pod.done
        x == CHOOSE y \in rest : TRUE
    IN  /\ pod.at = "resuming" /\ rest # {}
        /\ vol' = [vol EXCEPT ![this].active = @ \cup {x}]
        /\ NoFault
        /\ Handled(x)
        /\ UNCHANGED man

\* The second loop: a job that the distribution does not ship is skipped.
ResumeJob ==
    LET rest == ToResume \ pod.done
        x == CHOOSE y \in rest : TRUE
    IN  /\ pod.at = "resuming" /\ rest # {}
        /\ \/ vol' = [vol EXCEPT ![this].active = @ \cup ({x} \cap vol[this].jobs)] /\ NoFault
           \/ x \in vol[this].jobs /\ Tolerated /\ UNCHANGED vol
        /\ Handled(x)
        /\ UNCHANGED man

\* Mutant: a job whose pause failed is forgotten.
RecordResumedDropsRetry ==
    /\ pod.at = "resuming" /\ ToResume \subseteq pod.done
    /\ man' = [man EXCEPT ![this].resumed = wanted.resume]
    /\ NextScript /\ NoFault /\ UNCHANGED vol

RecordResumed ==
    /\ pod.at = "resuming" /\ ToResume \subseteq pod.done
    /\ man' = [man EXCEPT ![this].resumed = wanted.resume \cup pod.kept]
    /\ NextScript /\ NoFault /\ UNCHANGED vol

buildResumeCronsScript ==
    /\ Running("resume")
    /\ PauseJob \/ StartResume \/ ResumeJob \/ RecordResumed
    /\ UNCHANGED <<pkgs, profMan>>

\* What a user's script or container and SearXNG's do changes nothing that the
\* operator manages.
OtherContainer ==
    /\ \E script \in {"userScript", "searxng", "userContainer"} : Running(script)
    /\ NextScript /\ NoFault
    /\ UNCHANGED <<vol, man, pkgs, profMan>>

FirstStep(container) ==
    CHOOSE i \in DOMAIN plan :
        /\ plan[i].container = container
        /\ \A j \in DOMAIN plan : plan[j].container = container => i <= j

\* The running init container failed; the kubelet will run it from its first script.
Restarted ==
    [pod EXCEPT !.step = FirstStep(plan[pod.step].container),
                !.at = "start", !.done = {}, !.kept = {}, !.state = "failed"]

\* Without the profile, the hermes commands of its container fail under "set -e".
HermesFails ==
    /\ Starting /\ pod.state = "running" /\ ~vol[this].exists
    /\ LET script == plan[pod.step].script
       IN  \/ script \in {"config", "dotenv"}
           \/ /\ script \in {"plugins", "skills", "crons"} /\ pod.at = "install"
              /\ ~wanted.lists[script] \subseteq pod.done
    /\ pod' = Restarted
    /\ NoFault
    /\ UNCHANGED <<spec, vol, man, pkgs, profMan>>

Script ==
    \/ buildConfigScript \/ buildWorkspaceScript \/ buildDotEnvScript
    \/ buildPythonPackagesScript \/ buildNPMPackagesScript
    \/ buildPluginsScript \/ buildSkillsScript \/ buildBundlesScript \/ buildCronsScript
    \/ buildEgressDotEnvStripScript \/ buildEgressDotEnvAppendScript
    \/ buildProfilesCleanupScript \/ buildProfileCreationScript
    \/ buildProfileDistributionScript \/ buildResumeCronsScript
    \/ OtherContainer
    \/ HermesFails

-----------------------------------------------------------------------------
(* Kubernetes and the user.                                                *)

Disk == <<vol, man, pkgs, profMan>>

Schedule ==
    /\ pod.state = "unscheduled"
    /\ pod' = [pod EXCEPT !.state = "running"]
    /\ UNCHANGED <<spec, Disk, clean, budget>>

\* The running container dies, or a command of its script fails under "set -e".
Interrupt ==
    /\ pod.state = "running" /\ Spend(0, 1)
    /\ pod' = IF Serving THEN [pod EXCEPT !.state = "failed"] ELSE Restarted
    /\ clean' = (clean /\ Serving)
    /\ UNCHANGED <<spec, Disk>>

\* It dies as it writes a manifest, between the redirection that truncates the file
\* and the write.
InterruptWrite ==
    /\ Starting /\ pod.state = "running" /\ Spend(0, 1)
    /\ LET script == plan[pod.step].script
       IN  \/ /\ script \in ListKinds
              /\ \/ pod.at = "install" /\ wanted.lists[script] \subseteq pod.done
                 \/ pod.at = "astray"
              /\ man' = [man EXCEPT ![this].lists[script] = {}]
              /\ UNCHANGED <<pkgs, profMan>>
           \/ /\ script \in PackageKinds /\ pod.at = "installed"
              /\ pkgs' = [pkgs EXCEPT ![script].manifest = {}]
              /\ UNCHANGED <<man, profMan>>
           \/ /\ script = "cleanup" /\ pod.at = "start"
              /\ profMan \ spec.named \subseteq pod.done
              /\ profMan' = {}
              /\ UNCHANGED <<man, pkgs>>
           \/ /\ script = "distribution" /\ pod.at = "installed"
              /\ man' = [man EXCEPT ![this].dist = NoDist]
              /\ UNCHANGED <<pkgs, profMan>>
           \/ /\ script = "resume" /\ pod.at = "resuming" /\ ToResume \subseteq pod.done
              /\ man' = [man EXCEPT ![this].resumed = {}]
              /\ UNCHANGED <<pkgs, profMan>>
    /\ pod' = Restarted
    /\ clean' = FALSE
    /\ UNCHANGED <<spec, vol>>

BackOff ==
    /\ pod.state = "failed"
    /\ pod' = [pod EXCEPT !.state = "backoff", !.last = TRUE]
    /\ UNCHANGED <<spec, Disk, clean, budget>>

RestartContainer ==
    /\ pod.state = "backoff"
    /\ pod' = [pod EXCEPT !.state = "running"]
    /\ UNCHANGED <<spec, Disk, clean, budget>>

\* The Pod goes away and the StatefulSet replaces it.
Evict ==
    /\ Spend(0, 1)
    /\ pod' = NewPod("unscheduled")
    /\ clean' = (clean /\ Serving)
    /\ UNCHANGED <<spec, Disk>>

\* Another spec, and the Pod that the rollout starts from it.
EditSpec(s) ==
    /\ s # spec /\ Resolvable(s) /\ Spend(1, IF Serving THEN 0 ELSE 1)
    /\ spec' = s
    /\ pod' = NewPod("unscheduled")
    /\ clean' = (clean /\ Serving)
    /\ UNCHANGED Disk

\* A user in the running Pod deletes a profile; the manifests stay.
HandDelete(p) ==
    /\ Serving /\ vol[p].exists /\ Spend(0, 1)
    /\ vol' = [vol EXCEPT ![p] = NoProfile]
    /\ UNCHANGED <<spec, pod, man, pkgs, profMan, clean>>

Kubelet == Schedule \/ BackOff \/ RestartContainer

Next ==
    \/ Script
    \/ Kubelet
    \/ Interrupt
    \/ InterruptWrite
    \/ Evict
    \/ \E s \in Specs : EditSpec(s)
    \/ \E p \in Names : HandDelete(p)

Spec == Init /\ [][Next]_vars

\* Scripts make progress, and Kubernetes schedules and restarts.
FairSpec == Spec /\ WF_vars(Script) /\ WF_vars(Kubelet)
-----------------------------------------------------------------------------
(* The Pod's status as Kubernetes reports it.                              *)

ContainerNames ==
    <<"init-hermes">>
        \o Joined([i \in DOMAIN NameOrder |-> When(NameOrder[i] \in spec.named, NameOrder[i])])
        \o When(spec.userScript, "user") \o When(spec.egress, "init-egress")
        \o When(spec.searxng, "init-searxng-config")
        \o When(spec.initContainers, "initContainers")

Status(name, state, reason, last) ==
    [name |-> name, state |-> state, reason |-> reason, last |-> last]

\* The container that runs, failed or waits to be restarted.
CurrentStatus(name) ==
    CASE pod.state = "running" -> Status(name, "running", "", pod.last)
      [] pod.state = "failed"  -> Status(name, "failed", "Error", pod.last)
      [] OTHER                 -> Status(name, "waiting", "CrashLoopBackOff", pod.last)

PodStatus ==
    LET NotYet(name) == Status(name, "waiting", "PodInitializing", FALSE)
        at == IF Serving THEN Len(ContainerNames) + 1
              ELSE CHOOSE i \in DOMAIN ContainerNames :
                       ContainerNames[i] = plan[pod.step].container
    IN  IF pod.state = "unscheduled"
        THEN [phase |-> "Pending", scheduled |-> FALSE, init |-> <<>>, containers |-> <<>>,
              reason |-> ""]
        ELSE [phase |-> IF Serving THEN "Running" ELSE "Pending",
              scheduled |-> TRUE,
              init |-> [i \in DOMAIN ContainerNames |->
                            CASE i < at -> Status(ContainerNames[i], "done", "Completed", FALSE)
                              [] i = at -> CurrentStatus(ContainerNames[i])
                              [] OTHER  -> NotYet(ContainerNames[i])],
              containers |-> <<IF Serving THEN CurrentStatus("hermes") ELSE NotYet("hermes")>>,
              reason |-> ""]

-----------------------------------------------------------------------------
(* Properties.                                                             *)

\* The step that ends the last init container: the agent starts.
Completes == Starting /\ Serving'

\* An agent never starts on less than its spec declares, wherever earlier starts
\* were cut short and whatever an earlier spec or a user left on the volume: each
\* declared profile has the config.yaml the operator rendered, every declared
\* plugin, skill and cron job and the .env the spec gives; it exists, with its
\* workspace files, unless the workspace script lost the profile's home.  That
\* script loses it when "hermes config path" fails, which a substitution masks, and
\* so it does when "hermes profile create || true" failed: see ProfilesCreated and
\* WorkspaceCopied.  (A bundle whose creation failed, the packages and the
\* distribution are excepted too: see PackagesMatch and ExactWhenUndisturbed.)
ServesDeclared ==
    [][Completes =>
         \A p \in Declared(spec) :
           LET want == spec.prof[p]
               Installed(k) == \A x \in want.lists[k] : vol'[p].lists[k][x] > 0
           IN
           /\ HasDocument(want.config) => vol'[p].config = Bootstrap(spec, p)
           /\ \A k \in ListKinds \ {"bundles", "workspace"} : Installed(k)
           /\ RunsDotEnv(spec, p) => vol'[p].env = Lines(spec, p)
           /\ p \notin pod'.astray => vol'[p].exists /\ Installed("workspace")]_vars

\* What src/README.md says of hermes.profiles: the declared ones are created.
ProfilesCreated ==
    [][Completes => \A p \in Declared(spec) : vol'[p].exists]_vars

\* What src/README.md says of workspace.files: they are copied to the profile's home.
WorkspaceCopied ==
    [][Completes =>
         \A p \in Declared(spec) : \A x \in spec.prof[p].lists["workspace"] :
            vol'[p].lists["workspace"][x] > 0]_vars

\* While no start was cut short and no script went on after a failure, the manifests
\* make an agent start on exactly what its spec declares, through any sequence of
\* edits, evictions and profiles deleted by hand: one copy of each item and
\* nothing that an earlier spec left, the declared packages and distribution, and
\* of the named profiles only the declared ones.  Not covered, because the code
\* runs no clean-up for them: packages once none is declared, named profiles once
\* none is declared, and the skills a clone brings to a named profile.
ExactWhenUndisturbed ==
    [][Completes /\ clean' =>
         /\ \A p \in Declared(spec) :
              LET want == spec.prof[p] IN
              /\ \A k \in ListKinds, x \in Items :
                   p = "default" \/ k # "skills" =>
                       vol'[p].lists[k][x] = IF x \in want.lists[k] THEN 1 ELSE 0
              /\ want.dist # NoDist => vol'[p].dist = want.dist
         /\ \A k \in PackageKinds : spec.packages[k] # {} => pkgs'[k].target = spec.packages[k]
         /\ spec.named # {} => \A p \in Names \ spec.named : ~vol'[p].exists]_vars

\* While no start was cut short, a job of a distribution runs only if the profile
\* allowlists it or a later start will pause it.
ResumedTracked ==
    [][Completes /\ clean' =>
         \A p \in {q \in spec.named : spec.prof[q].dist # NoDist} :
            vol'[p].active \subseteq spec.prof[p].resume \cup man'[p].resumed]_vars

\* With egress on, no script of the agent's containers or of hermes.initScripts
\* finds the proxy's env in a .env, but the two that handle it: neither the one a
\* previous Pod left, nor one added before the user's scripts ran.  The containers
\* behind init-egress are excepted: SearXNG's does not mount the volume, and what
\* spec.initContainers run is the subject of ProxyEnvAgentOnly.
ProxyEnvHidden ==
    /\ spec.egress /\ Starting
    /\ plan[pod.step].script \notin {"strip", "append", "searxng", "userContainer"}
    => \A p \in Profiles : vol[p].blocks = 0

\* What the comment on init-egress says: it runs last, so no init step, the user's
\* included, sees the proxy's env.
ProxyEnvAgentOnly ==
    /\ spec.egress /\ Starting
    /\ plan[pod.step].script \notin {"strip", "append", "searxng"}
    => \A p \in Profiles : vol[p].blocks = 0

\* What src/README.md says of hermes.initScripts: they run after all init containers
\* of the operator.
UserScriptsLast ==
    Starting /\ plan[pod.step].script = "userScript" =>
        \A i \in DOMAIN plan :
            i > pod.step => plan[i].script \in {"userScript", "userContainer"}

\* With egress on, an agent starts with the proxy's env exactly once in the .env
\* of each declared profile, and with a token in place of each real key.
AgentUsesProxy ==
    [][Completes /\ spec.egress =>
         \A p \in Declared(spec) :
            vol'[p].blocks = 1 /\ \A k \in TokenKeys : vol'[p].env[k] = "token"]_vars

\* An init container that failed is reported by name, with its output, for as
\* long as it is down, and nothing is reported while containers only wait for
\* their turn; a Pod that no node takes and an agent that crashes show in the
\* reason.
FailureReported ==
    LET failure == initContainerFailure(PodStatus)
        down == Starting /\ pod.state \in {"failed", "backoff"}
    IN  /\ down <=> failure # NoFailure
        /\ down => /\ failure.container = plan[pod.step].container
                   /\ failure.message = "output"
        /\ pod.state = "unscheduled" => podStatusReason(PodStatus) = "Unschedulable"
        /\ Serving /\ pod.state = "backoff" => podStatusReason(PodStatus) = "CrashLoopBackOff"

\* The config.yaml an agent starts on has the user's value on each path where the
\* user set one, and otherwise the operator's when the feature is on.
DefaultsFillGaps ==
    [][Completes /\ HasDocument(spec.prof["default"].config) =>
         LET doc == ResolveConfig(spec.prof["default"].config)
             On(path) == CASE path = "web.search_backend"         -> spec.searxng
                           [] path = "gateway.multiplex_profiles" -> spec.named # {}
                           [] OTHER                               -> spec.camofox
         IN  \A path \in Paths :
                ValueAt(vol'["default"].config, path) =
                    IF ValueAt(doc, path) # Absent THEN ValueAt(doc, path)
                    ELSE IF On(path) THEN Default ELSE Absent]_vars

\* What README.md says of packages: the installed state always matches the
\* declaration.
PackagesMatch ==
    [][Completes => \A k \in PackageKinds : pkgs'[k].target = spec.packages[k]]_vars

\* Once the spec stays as it is and containers stop dying, the agent comes up and
\* stays up.
StartCompletes == <>[](Serving /\ pod.state = "running")
=============================================================================
