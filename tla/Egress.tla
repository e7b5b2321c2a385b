-------------------------------- MODULE Egress --------------------------------
(***************************************************************************)
(* The egress proxy of an agent: the operator's CA Secret, the Secret with *)
(* proxy.yaml and the proxy tokens, and the pod template that restarts the *)
(* agent when one of the Secrets it reads changes.  A pass runs the CA     *)
(* loop, the Secret loop and the StatefulSet loop against caches that may  *)
(* lag behind the API server; users edit the spec and their Secrets, delete*)
(* the operator's, and writes fail in between.                             *)
(***************************************************************************)
EXTENDS Naturals, Sequences

CONSTANTS
    Providers,      \* the bundled credentials, see Credential below
    Specs,          \* the egress specs a user may apply
    InitSpecs,      \* the ones an agent may be created with
    CredentialKeys, \* the sets of keys a user may put in the credentials Secret
    EnvVars,        \* env var names of credentials, aliases included
    KeySecrets,     \* names the user gives to Secrets with credentials
    CASecrets,      \* names the user gives to Secrets with a CA
    Given,          \* what they hold when the agent is created
    MaxEvents       \* bound: edits by the user, failed API calls and restarts

VARIABLES
    agent,          \* the HermesAgent: spec, resource version, status
    seen,           \* the operator's cached copy of it
    api,            \* the Secrets
    cache,          \* the operator's cached copies of them
    rev,            \* the last resource version given out
    template,       \* the egress part of the StatefulSet's pod template
    pass,           \* the pass that is running
    queued,         \* a pass is due
    budget          \* what is left of the bound

vars == <<agent, seen, api, cache, rev, template, pass, queued, budget>>

-----------------------------------------------------------------------------
(* A spec is [on, ca, creds, extra, tunnel, ports]: ca and creds name the  *)
(* user's Secrets (NoRef when there is none), extra is a set of credentials*)
(* and ports the ports that the agent's other containers listen on.        *)

NoRef == "no ref"

CAName == "egress-ca"           \* GetEgressCASecretName
EgressName == "egress"          \* GetEgressSecretName

UserSecrets == KeySecrets \cup CASecrets

SecretNames == UserSecrets \cup {CAName, EgressName}

\* The contents of a Secret.  A user's CA is valid or not; ids tell contents
\* apart.
Nothing == [kind |-> "nothing"]
ManagedCA(id) == [kind |-> "managed CA", id |-> id]
UserCA(valid, id) == [kind |-> "user CA", valid |-> valid, id |-> id]
Keys(keys, id) == [kind |-> "keys", keys |-> keys, id |-> id]

NoSecret == [rv |-> 0, data |-> Nothing]

Exists(secret) == secret.rv # 0

\* The operator is the owner: the watch on owned Secrets sees it.
Owned(secret) == secret.data.kind \in {"managed CA", "egress"}

NoToken == [name |-> "", serial |-> 0]

-----------------------------------------------------------------------------
(* Credentials: [name, aliases, hosts], aliases a sequence and hosts a set *)
(* of [wild, labels] with the labels in the order they are written.        *)

EnvSeq(c) == <<c.name>> \o c.aliases

EnvNames(c) == {c.name} \cup {c.aliases[i] : i \in DOMAIN c.aliases}

\* a ends with b.
EndsWith(a, b) == Len(a) >= Len(b) /\ SubSeq(a, Len(a) - Len(b) + 1, Len(a)) = b

Covers(pattern, host) ==
    /\ pattern.wild
    /\ EndsWith(host.labels, pattern.labels)
    /\ host.wild \/ Len(host.labels) > Len(pattern.labels)

\* Mutant: wildcards are not looked at.
hostsOverlapExact(a, b) == a = b

\* The code lowers the case of both hosts first; the labels here are lowered ones.
hostsOverlap(a, b) == a = b \/ Covers(a, b) \/ Covers(b, a)

\* checkCredentialClaims: no two credentials share an env var or a host.
Clash(c, d) ==
    \/ EnvNames(c) \cap EnvNames(d) # {}
    \/ \E h \in c.hosts, g \in d.hosts : hostsOverlap(h, g)

Hosts == [wild : BOOLEAN, labels : Seq(STRING)]

\* A configured credential replaces the bundled one of its name.
Candidates(spec) ==
    spec.extra \cup {p \in Providers : \A x \in spec.extra : x.name # p.name}

Present(spec, keys) == {c \in Candidates(spec) : EnvNames(c) \cap keys # {}}

\* An alias repeats neither the name nor another alias.
DistinctEnvNames(c) ==
    \A i, j \in DOMAIN EnvSeq(c) : EnvSeq(c)[i] = EnvSeq(c)[j] => i = j

\* ResolveCredentials succeeds: the configured credentials are there and the
\* claims of all that are there are disjoint.
Resolvable(spec, keys) ==
    /\ \A x \in spec.extra : EnvNames(x) \cap keys # {}
    /\ \A c \in Present(spec, keys) : DistinctEnvNames(c)
    /\ \A c, d \in Present(spec, keys) : c # d => ~Clash(c, d)

\* The key of the credentials Secret that holds a credential's real value.
SourceKey(c, keys) == Head(SelectSeq(EnvSeq(c), LAMBDA k : k \in keys))

ValidateEgressSecretRefs(spec) ==
    spec.creds \notin {CAName, EgressName} /\ spec.ca # EgressName

ValidateEgressPorts(spec) == {spec.tunnel, spec.tunnel + 1} \cap spec.ports = {}

\* The keys resolveEgressCredentials works with, given the Secrets it sees.
CredentialKeysOf(spec, secrets) ==
    IF spec.creds = NoRef \/ secrets[spec.creds].data.kind # "keys" THEN {}
    ELSE secrets[spec.creds].data.keys

\* The Secret loop gets past its checks.
Accepted(spec, secrets) ==
    /\ ValidateEgressPorts(spec)
    /\ ValidateEgressSecretRefs(spec)
    /\ spec.creds # NoRef => Exists(secrets[spec.creds])
    /\ Resolvable(spec, CredentialKeysOf(spec, secrets))

\* validateEgressCASecret, of the Secret the spec refers to.
CAAccepted(spec, secrets) ==
    spec.ca # NoRef =>
        secrets[spec.ca].data.kind = "user CA" /\ secrets[spec.ca].data.valid

-----------------------------------------------------------------------------
(* What the operator builds.                                               *)

\* Mutant: a token is minted at every build.
TokenOfAlways(c, existing, serial) == [name |-> c.name, serial |-> serial]

\* A credential keeps the token its name has in the existing Secret.
TokenOf(c, existing, serial) ==
    IF existing.data.kind = "egress" /\ existing.data.tokens[c.name] # NoToken
    THEN existing.data.tokens[c.name]
    ELSE [name |-> c.name, serial |-> serial]

\* Mutant: proxy.yaml gets tokens of its own.
buildEgressProxyYAMLMints(creds, keys, existing, serial) ==
    [n \in {c.name : c \in creds} |->
        LET c == CHOOSE d \in creds : d.name = n
        IN  [source |-> SourceKey(c, keys), hosts |-> c.hosts,
             token |-> TokenOf(c, NoSecret, serial)]]

\* proxy.yaml, reduced to where each credential's value comes from, the token
\* it replaces and the hosts it is swapped on.
buildEgressProxyYAML(creds, keys, existing, serial) ==
    [n \in {c.name : c \in creds} |->
        LET c == CHOOSE d \in creds : d.name = n
        IN  [source |-> SourceKey(c, keys), hosts |-> c.hosts,
             token |-> TokenOf(c, existing, serial)]]

buildEgressSecret(creds, keys, existing, serial) ==
    [kind |-> "egress",
     proxy |-> buildEgressProxyYAML(creds, keys, existing, serial),
     tokens |-> [v \in EnvVars |->
                    IF \E c \in creds : v \in EnvNames(c)
                    THEN TokenOf(CHOOSE c \in creds : v \in EnvNames(c), existing, serial)
                    ELSE NoToken]]

\* GetEgressCASource, and what the agent reads from it: a certificate under the
\* key that goes with the source.
CASource(spec) == IF spec.ca # NoRef THEN spec.ca ELSE CAName

Certificate(spec, secret) ==
    IF secret.data.kind = (IF spec.ca # NoRef THEN "user CA" ELSE "managed CA")
    THEN secret.data.id ELSE 0

\* The inputs egressPodInputs hashes into the pod template, with the spec that
\* the rest of the template comes from.
Inputs(spec, ca, egress, creds) ==
    [spec |-> spec, ca |-> ca, egress |-> egress, creds |-> creds]

InputsOff(spec) == Inputs(spec, 0, Nothing, Nothing)

\* There is no StatefulSet yet.
NoTemplate == InputsOff([on |-> FALSE])

\* What the pod template should be built from.
Current(spec, secrets) ==
    IF ~spec.on THEN InputsOff(spec)
    ELSE Inputs(spec, Certificate(spec, secrets[CASource(spec)]),
                secrets[EgressName].data,
                IF spec.creds = NoRef THEN Nothing ELSE secrets[spec.creds].data)

-----------------------------------------------------------------------------
(* States.                                                                 *)

\* Env var names are not empty (an API validation), the user's Secrets have names
\* of their own, except that a CA may take the operator's, and hold something.
ASSUME SpecsAssumption ==
    /\ InitSpecs \subseteq Specs
    /\ \A s \in Specs :
         /\ s.on \in BOOLEAN
         /\ {s.ca, s.creds} \subseteq SecretNames \cup {NoRef}
         /\ \A c \in Candidates(s) : EnvNames(c) \subseteq EnvVars /\ c.hosts \subseteq Hosts

ASSUME NamesAssumption ==
    /\ "" \notin EnvVars
    /\ UserSecrets \cap {CAName, EgressName} = {}
    /\ \A n \in UserSecrets : Given[n].kind \in {"user CA", "keys"}

ASSUME BoundAssumption == MaxEvents \in Nat

Idle == [at |-> "idle"]

\* A pass: at is the loop, or the call of the API, that comes next, ha the copy
\* of the agent it works on.
NewPass(ha) ==
    [at |-> "ca", ha |-> ha, existing |-> NoSecret, creds |-> {}, keys |-> {},
     inputs |-> InputsOff(ha.spec)]

Init ==
    /\ \E s \in InitSpecs : agent = [spec |-> s, rv |-> 1, ca |-> FALSE, egress |-> FALSE]
    /\ seen = agent
    /\ api = [n \in SecretNames |-> IF n \in UserSecrets THEN [rv |-> 1, data |-> Given[n]]
                                    ELSE NoSecret]
    /\ cache = api
    /\ rev = 1
    /\ template = NoTemplate
    /\ pass = Idle
    /\ queued = TRUE
    /\ budget = MaxEvents

Fresh == rev + 1

\* A write of a Secret.
Put(n, data) == rev' = Fresh /\ api' = [api EXCEPT ![n] = [rv |-> Fresh, data |-> data]]

\* Deleting what is not there is no error.
Delete(n) == api' = [api EXCEPT ![n] = NoSecret] /\ UNCHANGED rev

Stored == <<agent, api, rev, template>>

\* The pass ends; again: it failed or asked to be called again.
End(again) ==
    /\ pass' = Idle
    /\ queued' = (queued \/ again)

GoTo(at) == pass' = [pass EXCEPT !.at = at] /\ UNCHANGED queued

-----------------------------------------------------------------------------
(* reconcileEgressCA.                                                      *)

Start ==
    /\ pass.at = "idle" /\ queued
    /\ pass' = NewPass(seen)
    /\ queued' = FALSE
    /\ UNCHANGED Stored

\* The operator's own CA is the one in use.
UsesManagedCA(spec) == spec.on /\ spec.ca = NoRef

\* The status is written only on change.
AfterCA == IF pass.ha.ca = UsesManagedCA(pass.ha.spec) THEN "secret" ELSE "record CA"

\* The managed CA goes, unless the user's has its name.
DropsCA(spec) == Exists(cache[CAName]) /\ spec.ca # CAName

\* Mutant: the user's CA is looked at although egress is off.
reconcileEgressCAWhenOff ==
    LET spec == pass.ha.spec
    IN  /\ pass.at = "ca"
        /\ IF ~CAAccepted(spec, cache) THEN End(TRUE)
           ELSE GoTo(CASE ~spec.on \/ spec.ca # NoRef
                            -> IF DropsCA(spec) THEN "delete CA" ELSE AfterCA
                       [] OTHER
                            -> IF Exists(cache[CAName]) THEN AfterCA ELSE "create CA")
        /\ UNCHANGED Stored

reconcileEgressCA ==
    LET spec == pass.ha.spec
    IN  /\ pass.at = "ca"
        /\ IF spec.on /\ ~CAAccepted(spec, cache) THEN End(TRUE)
           ELSE GoTo(CASE ~spec.on \/ spec.ca # NoRef
                            -> IF DropsCA(spec) THEN "delete CA" ELSE AfterCA
                       [] OTHER
                            -> IF Exists(cache[CAName]) THEN AfterCA ELSE "create CA")
        /\ UNCHANGED Stored

deleteCA ==
    /\ pass.at = "delete CA"
    /\ Delete(CAName)
    /\ GoTo(AfterCA)
    /\ UNCHANGED <<agent, template>>

createCA ==
    /\ pass.at = "create CA"
    /\ IF Exists(api[CAName]) THEN End(TRUE) /\ UNCHANGED <<api, rev>>
       ELSE Put(CAName, ManagedCA(Fresh)) /\ GoTo(AfterCA)
    /\ UNCHANGED <<agent, template>>

\* A status write of the copy as changed; it fails when the copy is outdated.
Record(changed, next) ==
    IF pass.ha.rv # agent.rv THEN End(TRUE) /\ UNCHANGED Stored
    ELSE /\ agent' = [changed EXCEPT !.rv = Fresh]
         /\ rev' = Fresh
         /\ pass' = [NewPass(agent') EXCEPT !.at = next]
         /\ UNCHANGED <<queued, api, template>>

recordEgressCASecret ==
    /\ pass.at = "record CA"
    /\ Record([pass.ha EXCEPT !.ca = UsesManagedCA(pass.ha.spec)], "secret")

-----------------------------------------------------------------------------
(* reconcileEgressSecret.                                                  *)

AfterRecord == IF pass.ha.spec.on THEN "read CA" ELSE "write template"

AfterSecret == IF pass.ha.egress = pass.ha.spec.on THEN AfterRecord ELSE "record Secret"

reconcileEgressSecret ==
    LET spec == pass.ha.spec
        existing == cache[EgressName]
        keys == CredentialKeysOf(spec, cache)
        creds == Present(spec, keys)
        outdated == existing.data # buildEgressSecret(creds, keys, existing, Fresh)
        next == IF ~spec.on THEN IF Exists(existing) THEN "delete Secret" ELSE AfterSecret
                ELSE IF ~Exists(existing) THEN "create Secret"
                ELSE IF outdated THEN "update Secret" ELSE AfterSecret
    IN  /\ pass.at = "secret"
        /\ IF spec.on /\ ~Accepted(spec, cache) THEN End(TRUE)
           ELSE /\ pass' = IF next \in {"create Secret", "update Secret"}
                            THEN [pass EXCEPT !.at = next, !.existing = existing,
                                              !.creds = creds, !.keys = keys]
                            ELSE [pass EXCEPT !.at = next]
                /\ UNCHANGED queued
        /\ UNCHANGED Stored

deleteEgress ==
    /\ pass.at = "delete Secret"
    /\ Delete(EgressName)
    /\ GoTo(AfterSecret)
    /\ UNCHANGED <<agent, template>>

WrittenSecret ==
    pass' = [NewPass(pass.ha) EXCEPT !.at = AfterSecret] /\ UNCHANGED queued

createEgress ==
    /\ pass.at = "create Secret"
    /\ IF Exists(api[EgressName]) THEN End(TRUE) /\ UNCHANGED <<api, rev>>
       ELSE /\ Put(EgressName, buildEgressSecret(pass.creds, pass.keys, NoSecret, Fresh))
            /\ WrittenSecret
    /\ UNCHANGED <<agent, template>>

\* The API server refuses the update of a copy that is outdated.
updateEgress ==
    /\ pass.at = "update Secret"
    /\ IF api[EgressName].rv # pass.existing.rv THEN End(TRUE) /\ UNCHANGED <<api, rev>>
       ELSE /\ Put(EgressName, buildEgressSecret(pass.creds, pass.keys, pass.existing, Fresh))
            /\ WrittenSecret
    /\ UNCHANGED <<agent, template>>

recordEgressSecret ==
    /\ pass.at = "record Secret"
    /\ Record([pass.ha EXCEPT !.egress = pass.ha.spec.on], AfterRecord)

-----------------------------------------------------------------------------
(* The egress part of reconcileStatefulSet: three reads, one after another,*)
(* and the write.                                                          *)

\* Mutant: the template is built without a Secret that is not visible yet.
ReadInputAnyway(at, name, next, inputs) ==
    /\ pass.at = at
    /\ pass' = [pass EXCEPT !.at = next, !.inputs = inputs]
    /\ UNCHANGED queued
    /\ UNCHANGED Stored

\* A Secret that is not visible yet ends the pass, to be called in 2 seconds.
ReadInput(at, name, next, inputs) ==
    /\ pass.at = at
    /\ IF name # NoRef /\ ~Exists(cache[name]) THEN End(TRUE)
       ELSE pass' = [pass EXCEPT !.at = next, !.inputs = inputs] /\ UNCHANGED queued
    /\ UNCHANGED Stored

readCA ==
    LET source == CASource(pass.ha.spec)
    IN  ReadInput("read CA", source, "read Secret",
                  [pass.inputs EXCEPT !.ca = Certificate(pass.ha.spec, cache[source])])

\* Mutant: the CA is hashed in place of the egress Secret.
readEgressTwice ==
    ReadInput("read Secret", EgressName, "read keys",
              [pass.inputs EXCEPT !.egress = cache[CAName].data])

readEgress ==
    ReadInput("read Secret", EgressName, "read keys",
              [pass.inputs EXCEPT !.egress = cache[EgressName].data])

readCredentials ==
    LET name == pass.ha.spec.creds
    IN  ReadInput("read keys", name, "write template",
                  IF name = NoRef THEN pass.inputs
                  ELSE [pass.inputs EXCEPT !.creds = cache[name].data])

\* The StatefulSet is updated under its own optimistic lock and the status follows
\* with the phase; when one of them is refused, the pass is repeated: see Fail.
writeTemplate ==
    /\ pass.at = "write template"
    /\ template' = pass.inputs
    /\ End(FALSE)
    /\ UNCHANGED <<agent, api, rev>>

Pass ==
    /\ \/ Start \/ reconcileEgressCA \/ deleteCA \/ createCA \/ recordEgressCASecret
       \/ reconcileEgressSecret \/ deleteEgress \/ createEgress \/ updateEgress
       \/ recordEgressSecret
       \/ readCA \/ readEgress \/ readCredentials \/ writeTemplate
    /\ UNCHANGED <<seen, cache, budget>>

-----------------------------------------------------------------------------
(* Watches.                                                                *)

\* Mutant: only the CA is looked at.
SourceSecretsCA(spec) == IF spec.on THEN {spec.ca} \ {NoRef} ELSE {}

\* GetEgressSourceSecretNames, with which agentsReferencingSecret finds the
\* agents to reconcile.
SourceSecrets(spec) == IF spec.on THEN {spec.creds, spec.ca} \ {NoRef} ELSE {}

SyncSecret(n) ==
    /\ cache[n] # api[n]
    /\ cache' = [cache EXCEPT ![n] = api[n]]
    /\ queued' = \/ queued
                 \/ Owned(cache[n]) \/ Owned(api[n])
                 \/ n \in SourceSecrets(seen.spec)
    /\ UNCHANGED <<agent, seen, api, rev, template, pass, budget>>

SyncAgent ==
    /\ seen # agent
    /\ seen' = agent
    /\ queued' = TRUE
    /\ UNCHANGED <<agent, api, cache, rev, template, pass, budget>>

Sync == SyncAgent \/ \E n \in SecretNames : SyncSecret(n)

-----------------------------------------------------------------------------
(* Users and faults.                                                       *)

Spend == budget > 0 /\ budget' = budget - 1

EditSpec(s) ==
    /\ Spend /\ s # agent.spec
    /\ agent' = [agent EXCEPT !.spec = s, !.rv = Fresh]
    /\ rev' = Fresh
    /\ UNCHANGED <<seen, api, cache, template, pass, queued>>

\* A user creates or replaces a Secret of their own; a CA may have the name of
\* the operator's.
PutSecret(n, data) ==
    /\ Spend
    /\ ~Owned(api[n])
    /\ Put(n, data)
    /\ UNCHANGED <<agent, seen, cache, template, pass, queued>>

PutUserCA(n, valid) == PutSecret(n, UserCA(valid, Fresh))

PutCredentials(n, keys) == PutSecret(n, Keys(keys, Fresh))

\* A user deletes a Secret, their own or the operator's.
DeleteSecret(n) ==
    /\ Spend
    /\ Exists(api[n])
    /\ Delete(n)
    /\ UNCHANGED <<agent, seen, cache, template, pass, queued>>

\* The steps that call the API server; the others read the cache.
Calls == {"delete CA", "create CA", "record CA", "delete Secret", "create Secret",
          "update Secret", "record Secret", "write template"}

\* Where the first step behind a call may be, other than a call itself.
BehindCalls == {"secret", "read CA"}

\* A call fails, or it has taken effect and its answer is lost: the pass ends before
\* the call or behind it, and is repeated.  (A lost answer of the last call, the
\* template's, would only wake the worker once more.)
Fail ==
    /\ Spend
    /\ pass.at \in Calls \cup BehindCalls
    /\ End(TRUE)
    /\ UNCHANGED <<Stored, seen, cache>>

\* The operator restarts before a call: fresh caches and a pass for every agent.
Restart ==
    /\ Spend
    /\ pass.at \in Calls
    /\ seen' = agent
    /\ cache' = api
    /\ pass' = Idle
    /\ queued' = TRUE
    /\ UNCHANGED Stored

User ==
    \/ \E s \in Specs : EditSpec(s)
    \/ \E n \in CASecrets \cup {CAName}, valid \in BOOLEAN : PutUserCA(n, valid)
    \/ \E n \in KeySecrets, keys \in CredentialKeys : PutCredentials(n, keys)
    \/ \E n \in SecretNames : DeleteSecret(n)

Next ==
    \/ Pass
    \/ Sync
    \/ User
    \/ Fail
    \/ Restart

Spec == Init /\ [][Next]_vars

\* Passes make progress and the caches catch up.
FairSpec ==
    Spec /\ WF_vars(Pass) /\ WF_vars(Sync)
-----------------------------------------------------------------------------
(* Properties.                                                             *)

Proxy(secret) == IF secret.data.kind = "egress" THEN secret.data.proxy ELSE <<>>

TypeOK ==
    /\ agent.spec \in Specs /\ seen.spec \in Specs
    /\ pass.at # "idle" => pass.ha.spec \in Specs /\ pass.ha.rv <= agent.rv
    /\ \A n \in SecretNames : api[n].rv \in 0..rev /\ cache[n].rv \in 0..rev
    /\ template.egress.kind \in {"nothing", "egress"}
    /\ queued \in BOOLEAN

\* The agent and the proxy never disagree on a token: the key the agent reads a
\* credential's token from holds the token that proxy.yaml swaps.
TokensAgree ==
    api[EgressName].data.kind = "egress" =>
        \A n \in DOMAIN api[EgressName].data.proxy :
            api[EgressName].data.tokens[n] = api[EgressName].data.proxy[n].token

\* iron-proxy matches a host exactly, or by suffix for a wildcard.
Matches(pattern, labels) ==
    IF pattern.wild THEN EndsWith(labels, pattern.labels) /\ Len(labels) > Len(pattern.labels)
    ELSE labels = pattern.labels

\* A request that a pattern matches.
Request(pattern) == IF pattern.wild THEN <<"x">> \o pattern.labels ELSE pattern.labels

\* No request falls under the rules of two credentials, each of which would
\* require its own token.
OneRulePerRequest ==
    LET proxy == Proxy(api[EgressName])
    IN  \A m, n \in DOMAIN proxy :
           \A h \in proxy[m].hosts, g \in proxy[n].hosts :
              m # n => ~Matches(g, Request(h))

\* No Pod is rolled out without the Secrets it reads: a template with the proxy
\* was built from an egress Secret and from the user's credentials.
TemplateComplete ==
    template.spec.on =>
        /\ template.egress.kind = "egress"
        /\ template.spec.creds # NoRef => template.creds # Nothing
        /\ ValidateEgressPorts(template.spec)

Quiescent == pass.at = "idle" /\ ~queued /\ cache = api /\ seen = agent

\* When no pass is due and the caches are current, all is in place: the egress
\* Secret has just the credentials of the spec and of the credentials Secret, the
\* operator's CA exists only if it is used, the status says so, and the pod
\* template was built from the Secrets as they are now.  No rotated key, CA or
\* token goes unnoticed.
QuiescentIsSettled ==
    Quiescent =>
        LET spec == agent.spec
            keys == CredentialKeysOf(spec, api)
            secret == api[EgressName]
        IN  /\ template = Current(spec, api)
            /\ agent.egress = spec.on
            /\ agent.ca = UsesManagedCA(spec)
            /\ Owned(api[CAName]) => UsesManagedCA(spec) \/ spec.ca = CAName
            /\ IF spec.on
               THEN /\ Accepted(spec, api) /\ CAAccepted(spec, api)
                    /\ secret.data = buildEgressSecret(Present(spec, keys), keys, secret, 0)
               ELSE ~Exists(secret)

\* Once users stop and calls succeed, a spec whose references resolve settles.
Settles ==
    <>[](\/ Quiescent
         \/ /\ agent.spec.on
            /\ ~(Accepted(agent.spec, api) /\ CAAccepted(agent.spec, api)))

\* The abstract specification: each credential's token as proxy.yaml has it.
IssuedTokens ==
    [c \in EnvVars |-> LET proxy == Proxy(api[EgressName])
                       IN  IF c \in DOMAIN proxy THEN proxy[c].token ELSE NoToken]

TokenValues == [name : EnvVars, serial : Nat]

Issuer == INSTANCE TokenIssuer WITH Credentials <- EnvVars, Tokens <- TokenValues,
                                    NoToken <- NoToken, issued <- IssuedTokens

\* A credential's token is minted once and preserved for as long as the
\* credential stays, whatever stale copies, conflicts, restarts and edits a pass
\* meets.
IssuesTokens == Issuer!IssuerSpec
=============================================================================
