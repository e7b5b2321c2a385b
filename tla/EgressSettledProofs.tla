------------------------ MODULE EgressSettledProofs ------------------------
(***************************************************************************)
(* The proof that a quiet operator has settled the egress proxy: no event  *)
(* of the agent or of a Secret is lost on the way to a pass.               *)
(***************************************************************************)
EXTENDS EgressProofs

-----------------------------------------------------------------------------
(* The inductive invariant.                                                *)

\* No event has woken the worker since the pass began, and none of the agent is
\* on its way.
Uninterrupted == ~queued /\ seen = agent

\* An event of the Secret is on its way.
Pending(n) == cache[n] # api[n]

\* Secrets that are gone hold nothing.
AbsentEmpty == \A n \in SecretNames : ~Exists(api[n]) => api[n] = NoSecret

Reads == {"read CA", "read Secret", "read keys"}

\* Where a pass may be, and what it has read there.
RouteOK ==
    LET spec == pass.ha.spec
    IN  /\ pass.at = "create CA" => UsesManagedCA(spec)
        /\ pass.at = "delete Secret" => ~spec.on
        /\ pass.at \in Writes \cup Reads => spec.on
        /\ (pass.at \notin {"read Secret", "read keys", "write template"} \/ ~spec.on)
              => pass.inputs = InputsOff(spec)
        /\ (pass.at # "write template" \/ spec.creds = NoRef) => pass.inputs.creds = Nothing

\* The CA loop is done: the status is right, and the operator's CA is used or gone.
CASettled(spec) ==
    /\ agent.ca = UsesManagedCA(spec)
    /\ UsesManagedCA(spec) \/ spec.ca = CAName \/ ~Owned(api[CAName]) \/ Pending(CAName)

\* The egress Secret has the credentials that the cache shows.
Built(spec) ==
    LET keys == CredentialKeysOf(spec, cache)
        secret == cache[EgressName]
    IN  secret.data = buildEgressSecret(Present(spec, keys), keys, secret, 0)

\* The Secret loop is done.
SecretSettled(spec) ==
    /\ agent.egress = spec.on
    /\ IF spec.on THEN Exists(cache[EgressName]) => Built(spec) \/ Pending(EgressName)
       ELSE ~Exists(api[EgressName]) \/ Pending(EgressName)

\* What was read is what the cache still shows.
InputsCurrent(spec) ==
    spec.on =>
        /\ pass.at \in {"read Secret", "read keys", "write template"} =>
              pass.inputs.ca = Certificate(spec, cache[CASource(spec)])
        /\ pass.at \in {"read keys", "write template"} =>
              pass.inputs.egress = cache[EgressName].data
        /\ pass.at = "write template" /\ spec.creds # NoRef =>
              pass.inputs.creds = cache[spec.creds].data

\* What an uninterrupted pass has established so far, and what it leaves.
Progress(spec) ==
    /\ pass.at # "idle" => pass.ha = agent /\ InputsCurrent(spec)
    /\ pass.at # "ca" /\ spec.on => CAAccepted(spec, cache)
    /\ pass.at \in Checked \cup {"secret", "idle"} => CASettled(spec)
    /\ pass.at \in Checked \cup {"idle"} /\ spec.on => Accepted(spec, cache)
    /\ pass.at \in Reads \cup {"write template", "idle"} => SecretSettled(spec)
    /\ pass.at \in {"read keys", "write template", "idle"} /\ spec.on => Exists(cache[EgressName])
    /\ pass.at = "idle" => template = Current(spec, cache)

Settling ==
    /\ AbsentEmpty
    /\ pass.at # "idle" => RouteOK
    /\ Uninterrupted => Progress(agent.spec)

-----------------------------------------------------------------------------
(* What the steps have in common.                                          *)

LEMMA IdleAt == Idle.at = "idle" /\ NoSecret.rv = 0 /\ NoSecret.data.kind = "nothing"
BY DEF Idle, NoSecret, Nothing

\* A spec that is applied refers to Secrets by name.
LEMMA SpecRefs ==
    ASSUME NEW spec \in Specs
    PROVE  /\ spec.on \in BOOLEAN
           /\ spec.creds \in SecretNames \cup {NoRef} /\ spec.ca \in SecretNames \cup {NoRef}
           /\ CASource(spec) \in SecretNames
BY SpecsAssumption, NamesDiffer DEF CASource

LEMMA InitSettling ==
    ASSUME Init
    PROVE  Settling
<1>1. pass.at = "idle" /\ ~Uninterrupted
  BY IdleAt DEF Init, Uninterrupted
<1>2. AbsentEmpty
  BY DEF Init, AbsentEmpty, Exists, NoSecret
<1> QED BY <1>1, <1>2 DEF Settling

\* An interrupted pass has nothing to show.
LEMMA Interrupted ==
    ASSUME AbsentEmpty', pass'.at # "idle" => RouteOK', ~Uninterrupted'
    PROVE  Settling'
BY DEF Settling

LEMMA EndsAgain ==
    ASSUME Settling, End(TRUE), api' = api
    PROVE  Settling'
<1>1. AbsentEmpty' /\ pass'.at = "idle" /\ ~Uninterrupted'
  BY IdleAt DEF End, Settling, AbsentEmpty, Uninterrupted
<1> QED BY <1>1, Interrupted

\* A write of the agent is an event on its way.
LEMMA AgentMoved ==
    ASSUME IInv, agent'.rv = rev + 1, seen' = seen
    PROVE  ~Uninterrupted'
<1>1. seen.rv \in Nat /\ seen.rv <= rev /\ rev \in Nat
  BY DEF IInv, AgentOK, SecretsOK, Agents
<1> QED BY <1>1 DEF Uninterrupted

\* What a Secret's absence leaves.
LEMMA DeleteEmpty ==
    ASSUME IInv, AbsentEmpty, NEW n \in SecretNames, Delete(n)
    PROVE  /\ AbsentEmpty'
           /\ api'[n] = NoSecret /\ \A m \in SecretNames : m # n => api'[m] = api[m]
BY DEF Delete, AbsentEmpty, Exists, IInv, SecretsOK

LEMMA PutEmpty ==
    ASSUME IInv, AbsentEmpty, NEW n \in SecretNames, NEW data, Put(n, data)
    PROVE  /\ AbsentEmpty'
           /\ api'[n].data = data /\ api'[n].rv = rev + 1
           /\ \A m \in SecretNames : m # n => api'[m] = api[m]
<1>1. rev \in Nat /\ rev + 1 # 0
  BY DEF IInv, SecretsOK
<1>2. /\ api'[n] = [rv |-> rev + 1, data |-> data]
      /\ \A m \in SecretNames : m # n => api'[m] = api[m]
  BY DEF Put, Fresh, IInv, SecretsOK
<1> QED BY <1>1, <1>2 DEF AbsentEmpty, Exists

-----------------------------------------------------------------------------
(* Watches.                                                                *)

\* An event that wakes nobody changes nothing that a pass reads.
LEMMA SyncSecretStep ==
    ASSUME IInv, Settling, NEW n \in SecretNames, SyncSecret(n)
    PROVE  Settling'
<1>1. /\ cache' = [cache EXCEPT ![n] = api[n]] /\ cache[n] # api[n]
      /\ UNCHANGED <<agent, seen, api, rev, template, pass, budget>>
  BY DEF SyncSecret
<1>2. AbsentEmpty' /\ (pass'.at # "idle" => RouteOK')
  BY <1>1 DEF Settling, AbsentEmpty, RouteOK
<1>3. CASE ~Uninterrupted'
  BY <1>2, <1>3, Interrupted
<1>4. CASE Uninterrupted'
  <2> DEFINE spec == agent.spec
  <2>1. /\ ~queued /\ ~Owned(cache[n]) /\ ~Owned(api[n]) /\ n \notin SourceSecrets(spec)
        /\ Uninterrupted
    BY <1>1, <1>4 DEF SyncSecret, Uninterrupted
  <2>2. n # EgressName
    <3>1. Coherent(api[EgressName]) /\ Coherent(cache[EgressName])
      BY DEF IInv, SecretsOK
    <3> QED BY <1>1, <2>1, <3>1 DEF Coherent, Owned
  <2>3. /\ spec \in Specs /\ \A m \in SecretNames : m # n => cache'[m] = cache[m]
        /\ cache'[n] = api[n]
    BY <1>1 DEF IInv, AgentOK, Agents, SecretsOK
  <2>4. spec.on => /\ spec.creds # NoRef => cache'[spec.creds] = cache[spec.creds]
                   /\ spec.ca # NoRef => cache'[spec.ca] = cache[spec.ca]
    BY <2>1, <2>3, SpecRefs DEF SourceSecrets
  <2>5. cache'[EgressName] = cache[EgressName]
    BY <2>2, <2>3, NamesDiffer
  <2>6. spec.on => /\ CredentialKeysOf(spec, cache') = CredentialKeysOf(spec, cache)
                   /\ CAAccepted(spec, cache') = CAAccepted(spec, cache)
    BY <2>4 DEF CredentialKeysOf, CAAccepted
  <2>7. spec.on => Accepted(spec, cache') = Accepted(spec, cache)
    BY <2>4, <2>6 DEF Accepted
  <2>8. spec.on => Certificate(spec, cache'[CASource(spec)]) = Certificate(spec, cache[CASource(spec)])
    <3>1. CASE spec.ca # NoRef
      BY <2>4, <3>1 DEF CASource
    <3>2. CASE spec.ca = NoRef /\ n # CAName
      BY <2>3, <3>2, NamesDiffer DEF CASource
    <3>3. CASE spec.ca = NoRef /\ n = CAName
      BY <2>1, <2>3, <3>3 DEF CASource, Certificate, Owned
    <3> QED BY <3>1, <3>2, <3>3
  <2>9. spec.on => Built(spec)' = Built(spec)
    BY <1>1, <2>5, <2>6 DEF Built
  <2>10. Progress(agent.spec)
    BY <2>1 DEF Settling
  <2>11. CASettled(spec) => CASettled(spec)'
    BY <1>1, <2>1, <2>3, NamesDiffer DEF CASettled, Pending
  <2>12. SecretSettled(spec) => SecretSettled(spec)'
    BY <1>1, <2>3, <2>5, <2>9, SpecRefs DEF SecretSettled, Pending
  <2>13. InputsCurrent(spec) => InputsCurrent(spec)'
    BY <1>1, <2>4, <2>5, <2>8 DEF InputsCurrent
  <2>14. Current(spec, cache') = Current(spec, cache)
    BY <2>3, <2>4, <2>5, <2>8, SpecRefs DEF Current
  <2> QED
    BY <1>1, <1>2, <2>5, <2>6, <2>7, <2>10, <2>11, <2>12, <2>13, <2>14 DEF Settling, Progress
<1> QED BY <1>3, <1>4

LEMMA SyncAgentStep ==
    ASSUME Settling, SyncAgent
    PROVE  Settling'
<1>1. AbsentEmpty' /\ (pass'.at # "idle" => RouteOK') /\ ~Uninterrupted'
  BY DEF SyncAgent, Settling, AbsentEmpty, RouteOK, Uninterrupted
<1> QED BY <1>1, Interrupted

-----------------------------------------------------------------------------
(* Users and faults.                                                       *)

LEMMA EditSettling ==
    ASSUME IInv, Settling, NEW s \in Specs, EditSpec(s)
    PROVE  Settling'
<1>1. agent' = [agent EXCEPT !.spec = s, !.rv = rev + 1] /\ UNCHANGED <<seen, api, pass>>
  BY DEF EditSpec, Fresh
<1>2. agent'.rv = rev + 1
  BY <1>1 DEF IInv, AgentOK, Agents
<1>3. AbsentEmpty' /\ (pass'.at # "idle" => RouteOK')
  BY <1>1 DEF Settling, AbsentEmpty, RouteOK
<1> QED BY <1>1, <1>2, <1>3, AgentMoved, Interrupted

\* A Secret that others write: what the pass relies on is in the cache.
LEMMA OthersWrite ==
    ASSUME IInv, Settling, AbsentEmpty', UNCHANGED <<agent, seen, cache, template, pass, queued>>,
           CASettled(agent.spec) => CASettled(agent.spec)',
           SecretSettled(agent.spec) => SecretSettled(agent.spec)'
    PROVE  Settling'
<1>1. pass'.at # "idle" => RouteOK'
  BY DEF Settling, RouteOK
<1>2. CASE ~Uninterrupted
  <2>1. ~Uninterrupted'
    BY <1>2 DEF Uninterrupted
  <2> QED BY <1>1, <2>1, Interrupted
<1>3. CASE Uninterrupted
  <2>1. Progress(agent.spec)
    BY <1>3 DEF Settling
  <2>2. InputsCurrent(agent.spec)' = InputsCurrent(agent.spec)
    BY DEF InputsCurrent
  <2> QED BY <1>1, <2>1, <2>2 DEF Settling, Progress
<1> QED BY <1>2, <1>3

LEMMA PutSettling ==
    ASSUME IInv, Settling, NEW n \in SecretNames, n # EgressName,
           UNCHANGED <<agent, seen, cache, template, pass, queued>>,
           api'[n].data.kind \in {"user CA", "keys"}, AbsentEmpty',
           \A m \in SecretNames : m # n => api'[m] = api[m]
    PROVE  Settling'
<1>1. api'[EgressName] = api[EgressName]
  BY NamesDiffer
<1>2. CASettled(agent.spec) => CASettled(agent.spec)'
  <2>1. CASE n = CAName
    BY <2>1 DEF CASettled, Owned
  <2>2. CASE n # CAName
    BY <2>2, NamesDiffer DEF CASettled, Pending
  <2> QED BY <2>1, <2>2
<1>3. SecretSettled(agent.spec) => SecretSettled(agent.spec)'
  BY <1>1 DEF SecretSettled, Pending, Built
<1> QED BY <1>2, <1>3, OthersWrite

LEMMA DeleteSettling ==
    ASSUME IInv, Settling, NEW n \in SecretNames, DeleteSecret(n)
    PROVE  Settling'
<1>1. Delete(n) /\ UNCHANGED <<agent, seen, cache, template, pass, queued>>
  BY DEF DeleteSecret
<1>2. /\ AbsentEmpty' /\ api'[n] = NoSecret
      /\ \A m \in SecretNames : m # n => api'[m] = api[m]
  BY <1>1, DeleteEmpty DEF Settling
<1>3. CASettled(agent.spec) => CASettled(agent.spec)'
  <2>1. CASE n = CAName
    BY <1>1, <1>2, <2>1, IdleAt DEF CASettled, Owned
  <2>2. CASE n # CAName
    BY <1>1, <1>2, <2>2, NamesDiffer DEF CASettled, Pending
  <2> QED BY <2>1, <2>2
<1>4. SecretSettled(agent.spec) => SecretSettled(agent.spec)'
  <2>1. CASE n = EgressName
    BY <1>1, <1>2, <2>1, IdleAt DEF SecretSettled, Pending, Exists
  <2>2. CASE n # EgressName
    BY <1>1, <1>2, <2>2, NamesDiffer DEF SecretSettled, Pending, Built
  <2> QED BY <2>1, <2>2
<1> QED BY <1>1, <1>2, <1>3, <1>4, OthersWrite

LEMMA UserSettling ==
    ASSUME IInv, Settling, User
    PROVE  Settling'
<1>1. CASE \E s \in Specs : EditSpec(s)
  BY <1>1, EditSettling
<1>2. ASSUME NEW n \in CASecrets \cup {CAName}, NEW valid \in BOOLEAN, PutUserCA(n, valid)
      PROVE  Settling'
  <2>1. n \in SecretNames /\ n # EgressName
    BY <1>2, NamesAssumption, NamesDiffer DEF SecretNames, UserSecrets
  <2>2. /\ Put(n, UserCA(valid, Fresh)) /\ UserCA(valid, Fresh).kind = "user CA"
        /\ UNCHANGED <<agent, seen, cache, template, pass, queued>>
    BY <1>2 DEF PutUserCA, PutSecret, UserCA
  <2>3. /\ AbsentEmpty' /\ api'[n].data = UserCA(valid, Fresh)
        /\ \A m \in SecretNames : m # n => api'[m] = api[m]
    BY <2>1, <2>2, PutEmpty DEF Settling
  <2> QED BY <2>1, <2>2, <2>3, PutSettling
<1>3. ASSUME NEW n \in KeySecrets, NEW keys \in CredentialKeys, PutCredentials(n, keys)
      PROVE  Settling'
  <2>1. n \in SecretNames /\ n # EgressName
    BY <1>3, NamesAssumption DEF SecretNames, UserSecrets
  <2>2. /\ Put(n, Keys(keys, Fresh)) /\ Keys(keys, Fresh).kind = "keys"
        /\ UNCHANGED <<agent, seen, cache, template, pass, queued>>
    BY <1>3 DEF PutCredentials, PutSecret, Keys
  <2>3. /\ AbsentEmpty' /\ api'[n].data = Keys(keys, Fresh)
        /\ \A m \in SecretNames : m # n => api'[m] = api[m]
    BY <2>1, <2>2, PutEmpty DEF Settling
  <2> QED BY <2>1, <2>2, <2>3, PutSettling
<1>4. CASE \E n \in SecretNames : DeleteSecret(n)
  BY <1>4, DeleteSettling
<1> QED BY <1>1, <1>2, <1>3, <1>4 DEF User

LEMMA FaultSettling ==
    ASSUME Settling, Fail \/ Restart
    PROVE  Settling'
<1>1. api' = api /\ pass' = Idle /\ queued' = TRUE
  BY DEF Fail, Restart, End, Stored
<1>2. AbsentEmpty' /\ pass'.at = "idle" /\ ~Uninterrupted'
  BY <1>1, IdleAt DEF Settling, AbsentEmpty, Uninterrupted
<1> QED BY <1>2, Interrupted

-----------------------------------------------------------------------------
(* The CA loop.                                                            *)

\* A pass that goes on: nothing it relies on has moved.
LEMMA GoesOn ==
    ASSUME Settling, UNCHANGED <<agent, seen, queued>>, AbsentEmpty', RouteOK',
           Progress(agent.spec) /\ Uninterrupted => Progress(agent.spec)'
    PROVE  Settling'
<1>1. Uninterrupted' = Uninterrupted
  BY DEF Uninterrupted
<1> QED BY <1>1 DEF Settling

\* A pass begins with the copy of the agent that is visible.
LEMMA StartSettling ==
    ASSUME Settling, Start, UNCHANGED <<seen, cache, budget>>
    PROVE  Settling'
<1>1. /\ pass'.at = "ca" /\ pass'.ha = seen /\ pass'.inputs = InputsOff(seen.spec)
      /\ api' = api /\ agent' = agent /\ seen' = seen
  BY DEF Start, Stored, NewPass
<1>2. InputsOff(seen.spec).creds = Nothing
  BY DEF InputsOff, Inputs
<1>3. RouteOK'
  BY <1>1, <1>2 DEF RouteOK, Writes, Reads
<1>4. AbsentEmpty'
  BY <1>1 DEF Settling, AbsentEmpty
<1>5. Uninterrupted' => Progress(agent.spec)'
  BY <1>1 DEF Uninterrupted, Progress, InputsCurrent, Checked, Writes, Reads
<1> QED BY <1>3, <1>4, <1>5 DEF Settling

\* The steps of the CA loop that go on.
LEMMA CAGoesOn ==
    ASSUME Settling, RouteOK, pass.at \in {"ca", "delete CA", "create CA"},
           pass'.at \in {"delete CA", "create CA", "record CA", "secret"},
           pass'.ha = pass.ha, pass'.inputs = pass.inputs, AbsentEmpty',
           UNCHANGED <<agent, seen, cache, queued>>,
           pass'.at = "create CA" => UsesManagedCA(pass.ha.spec),
           pass.at = "ca" /\ pass.ha.spec.on => CAAccepted(pass.ha.spec, cache),
           pass'.at = "secret" /\ pass.ha = agent => CASettled(agent.spec)'
    PROVE  Settling'
<1>1. RouteOK'
  BY DEF RouteOK, Writes, Reads
<1>2. Progress(agent.spec) => Progress(agent.spec)'
  BY DEF Progress, InputsCurrent, Checked, Writes, Reads
<1> QED BY <1>1, <1>2, GoesOn

\* The copy of the pass is the agent: the status was right, or is written next.
LEMMA CASettles ==
    ASSUME AbsentEmpty', pass.ha = agent, AfterCA = "secret", agent' = agent,
           \/ UsesManagedCA(pass.ha.spec)
           \/ pass.ha.spec.ca = CAName
           \/ ~Exists(api'[CAName]) \/ api'[CAName] # cache'[CAName]
    PROVE  CASettled(agent.spec)'
<1>1. ~Exists(api'[CAName]) => ~Owned(api'[CAName])
  BY NamesDiffer, IdleAt DEF AbsentEmpty, Owned
<1>2. agent.ca = UsesManagedCA(agent.spec)
  BY DEF AfterCA
<1> QED BY <1>1, <1>2 DEF CASettled, Pending, UsesManagedCA

LEMMA CASettling ==
    ASSUME IInv, Settling, reconcileEgressCA, UNCHANGED <<seen, cache, budget>>
    PROVE  Settling'
<1> DEFINE spec == pass.ha.spec
<1>1. /\ pass.at = "ca" /\ api' = api /\ agent' = agent /\ BusyOK /\ RouteOK
      /\ spec.on \in BOOLEAN
  BY BusyUnlessIdle, SpecsAssumption
  DEF reconcileEgressCA, Stored, Settling, IInv, BusyOK, Agents
<1>2. AbsentEmpty'
  BY <1>1 DEF Settling, AbsentEmpty
<1>3. CASE spec.on /\ ~CAAccepted(spec, cache)
  BY <1>1, <1>3, EndsAgain DEF reconcileEgressCA
<1>4. CASE ~(spec.on /\ ~CAAccepted(spec, cache))
  <2> DEFINE at == CASE ~spec.on \/ spec.ca # NoRef
                          -> IF DropsCA(spec) THEN "delete CA" ELSE AfterCA
                     [] OTHER
                          -> IF Exists(cache[CAName]) THEN AfterCA ELSE "create CA"
  <2>1. GoTo(at)
    BY <1>4 DEF reconcileEgressCA
  <2>2. at \in {"delete CA", "create CA", "record CA", "secret"}
    BY DEF AfterCA
  <2>3. at = "create CA" => UsesManagedCA(spec)
    BY <1>1 DEF AfterCA, UsesManagedCA
  <2>4. at = "secret" => AfterCA = "secret" /\ (UsesManagedCA(spec) \/ ~DropsCA(spec))
    BY <1>1 DEF AfterCA, UsesManagedCA
  <2> HIDE DEF at
  <2>5. /\ pass'.at = at /\ pass'.ha = pass.ha /\ pass'.inputs = pass.inputs
        /\ queued' = queued
    BY <1>1, <2>1 DEF GoTo, BusyOK
  <2>6. pass'.at = "secret" /\ pass.ha = agent => CASettled(agent.spec)'
    BY <1>1, <1>2, <2>4, <2>5, CASettles DEF DropsCA
  <2> QED BY <1>1, <1>2, <1>4, <2>2, <2>3, <2>5, <2>6, CAGoesOn
<1> QED BY <1>3, <1>4

LEMMA CAWriteSettling ==
    ASSUME IInv, Settling, deleteCA \/ createCA, UNCHANGED <<seen, cache, budget>>
    PROVE  Settling'
<1>1. /\ pass.at \in {"delete CA", "create CA"} /\ agent' = agent /\ BusyOK /\ RouteOK
      /\ AbsentEmpty
  BY BusyUnlessIdle DEF deleteCA, createCA, Settling, IInv
<1>2. CASE createCA /\ Exists(api[CAName])
  BY <1>2, EndsAgain DEF createCA
<1>3. CASE deleteCA \/ ~Exists(api[CAName])
  <2>1. /\ GoTo(AfterCA)
        /\ \/ Delete(CAName)
           \/ UsesManagedCA(pass.ha.spec) /\ Put(CAName, ManagedCA(Fresh))
    BY <1>1, <1>3 DEF deleteCA, createCA, RouteOK
  <2>2. AbsentEmpty' /\ (UsesManagedCA(pass.ha.spec) \/ ~Exists(api'[CAName]))
    <3>1. CASE Delete(CAName)
      BY <1>1, <3>1, DeleteEmpty, NamesDiffer, IdleAt DEF Exists
    <3>2. CASE UsesManagedCA(pass.ha.spec) /\ Put(CAName, ManagedCA(Fresh))
      BY <1>1, <3>2, PutEmpty, NamesDiffer
    <3> QED BY <2>1, <3>1, <3>2
  <2>3. /\ pass'.at = AfterCA /\ pass'.ha = pass.ha /\ pass'.inputs = pass.inputs
        /\ queued' = queued
    BY <1>1, <2>1 DEF GoTo, BusyOK
  <2>4. AfterCA \in {"record CA", "secret"}
    BY DEF AfterCA
  <2>5. pass'.at = "secret" /\ pass.ha = agent => CASettled(agent.spec)'
    BY <1>1, <2>2, <2>3, CASettles
  <2> QED BY <1>1, <2>2, <2>3, <2>4, <2>5, CAGoesOn
<1> QED BY <1>2, <1>3

\* A status write fails, or moves the agent.
LEMMA RecordSettling ==
    ASSUME IInv, Settling, NEW changed \in Agents, NEW next, Record(changed, next),
           UNCHANGED <<seen, cache, budget>>, next \in {"secret", "read CA", "write template"},
           next = "read CA" => changed.spec.on, next = "write template" => ~changed.spec.on
    PROVE  Settling'
<1>1. CASE pass.ha.rv # agent.rv
  BY <1>1, EndsAgain DEF Record, Stored
<1>2. CASE pass.ha.rv = agent.rv
  <2>1. /\ agent' = [changed EXCEPT !.rv = rev + 1] /\ api' = api /\ queued' = queued
        /\ pass' = [NewPass(agent') EXCEPT !.at = next]
    BY <1>2 DEF Record, Fresh
  <2>2. agent'.rv = rev + 1 /\ agent'.spec = changed.spec
    BY <2>1 DEF Agents
  <2>3. pass'.at = next /\ pass'.ha = agent' /\ pass'.inputs = InputsOff(changed.spec)
    BY <2>1, <2>2 DEF NewPass
  <2>4. InputsOff(changed.spec).creds = Nothing
    BY DEF InputsOff, Inputs
  <2>5. RouteOK'
    BY <2>2, <2>3, <2>4 DEF RouteOK, Writes, Reads
  <2>6. AbsentEmpty'
    BY <2>1 DEF Settling, AbsentEmpty
  <2> QED BY <2>2, <2>5, <2>6, AgentMoved, Interrupted
<1> QED BY <1>1, <1>2

LEMMA RecordCASettling ==
    ASSUME IInv, Settling, recordEgressCASecret, UNCHANGED <<seen, cache, budget>>
    PROVE  Settling'
<1> DEFINE changed == [pass.ha EXCEPT !.ca = UsesManagedCA(pass.ha.spec)]
<1>1. BusyOK /\ Record(changed, "secret")
  BY BusyUnlessIdle DEF recordEgressCASecret, IInv
<1>2. UsesManagedCA(pass.ha.spec) \in BOOLEAN
  BY <1>1, SpecsAssumption DEF UsesManagedCA, BusyOK, Agents
<1>3. changed \in Agents
  BY <1>1, <1>2 DEF BusyOK, Agents
<1> HIDE DEF changed
<1> QED BY <1>1, <1>3, RecordSettling

-----------------------------------------------------------------------------
(* The Secret loop.                                                        *)

\* A Secret that needs no update would get the tokens it has, whatever the number
\* that a new token would get: each of its credentials has a token.
LEMMA NothingToMint ==
    ASSUME NEW creds, NEW keys, NEW existing, NEW serial \in Nat,
           Disjoint(creds), WellBuilt(existing.data),
           existing.data = buildEgressSecret(creds, keys, existing, serial)
    PROVE  existing.data = buildEgressSecret(creds, keys, existing, 0)
<1> DEFINE data == buildEgressSecret(creds, keys, existing, serial)
<1>1. existing.data.kind = "egress" /\ DOMAIN existing.data.proxy = {c.name : c \in creds}
  <2>1. data.kind = "egress" /\ DOMAIN data.proxy = {c.name : c \in creds}
    BY DEF buildEgressSecret, buildEgressProxyYAML
  <2> QED BY <2>1
<1>2. \A c \in creds : existing.data.tokens[c.name] # NoToken
  BY <1>1, NoTokenIsNone DEF WellBuilt
<1>3. \A c \in creds : TokenOf(c, existing, serial) = TokenOf(c, existing, 0)
  BY <1>1, <1>2 DEF TokenOf
<1>4. buildEgressProxyYAML(creds, keys, existing, serial)
        = buildEgressProxyYAML(creds, keys, existing, 0)
  <2> DEFINE ByName(n) == CHOOSE d \in creds : d.name = n
  <2>1. \A n \in {c.name : c \in creds} :
           TokenOf(ByName(n), existing, serial) = TokenOf(ByName(n), existing, 0)
    BY <1>3
  <2> QED BY <2>1 DEF buildEgressProxyYAML
<1>5. \A v \in EnvVars : (\E c \in creds : v \in EnvNames(c)) =>
        TokenOf(CHOOSE c \in creds : v \in EnvNames(c), existing, serial)
          = TokenOf(CHOOSE c \in creds : v \in EnvNames(c), existing, 0)
  BY <1>3
<1>6. buildEgressSecret(creds, keys, existing, serial)
        = buildEgressSecret(creds, keys, existing, 0)
  BY <1>4, <1>5 DEF buildEgressSecret
<1> QED BY <1>6

\* The steps of the Secret loop that go on.
LEMMA SecretGoesOn ==
    ASSUME Settling, RouteOK, pass.at \in Writes \cup {"secret", "delete Secret"},
           pass'.at \in Writes \cup {"delete Secret", "record Secret", "read CA", "write template"},
           pass'.ha = pass.ha, pass'.inputs = InputsOff(pass.ha.spec),
           AbsentEmpty', api'[CAName] = api[CAName],
           UNCHANGED <<agent, seen, cache, queued>>,
           pass'.at \in {"delete Secret", "write template"} => ~pass.ha.spec.on,
           pass'.at \in Writes \cup {"read CA"} => pass.ha.spec.on,
           pass.at = "secret" /\ pass.ha.spec.on => Accepted(pass.ha.spec, cache),
           pass'.at \in {"read CA", "write template"} /\ pass.ha = agent =>
              SecretSettled(agent.spec)'
    PROVE  Settling'
<1>1. InputsOff(pass.ha.spec).creds = Nothing
  BY DEF InputsOff, Inputs
<1>2. RouteOK'
  BY <1>1 DEF RouteOK, Writes, Reads
<1>3. CASettled(agent.spec) => CASettled(agent.spec)'
  BY DEF CASettled, Pending
<1>4. Progress(agent.spec) => Progress(agent.spec)'
  <2> SUFFICES ASSUME Progress(agent.spec)
               PROVE  Progress(agent.spec)'
    OBVIOUS
  <2>1. pass.ha = agent /\ CASettled(agent.spec)'
    BY <1>3 DEF Progress, Checked, Writes
  <2>2. agent.spec.on => Accepted(agent.spec, cache) /\ CAAccepted(agent.spec, cache)
    BY <2>1 DEF Progress, Checked, Writes
  <2>3. InputsCurrent(agent.spec)'
    BY <2>1 DEF InputsCurrent, Writes
  <2> QED BY <2>1, <2>2, <2>3 DEF Progress, Checked, Writes, Reads
<1> QED BY <1>2, <1>4, GoesOn

LEMMA AfterSecretAt ==
    /\ AfterSecret \in {"record Secret", "read CA", "write template"}
    /\ AfterSecret = "read CA" => pass.ha.spec.on
    /\ AfterSecret = "write template" => ~pass.ha.spec.on
    /\ AfterSecret # "record Secret" => pass.ha.egress = pass.ha.spec.on
    /\ AfterSecret \notin Writes
BY DEF AfterSecret, AfterRecord, Writes

LEMMA SecretLoopSettling ==
    ASSUME IInv, Settling, reconcileEgressSecret, UNCHANGED <<seen, cache, budget>>
    PROVE  Settling'
<1> DEFINE spec == pass.ha.spec
           existing == cache[EgressName]
           keys == CredentialKeysOf(spec, cache)
           creds == Present(spec, keys)
           outdated == existing.data # buildEgressSecret(creds, keys, existing, Fresh)
           next == IF ~spec.on THEN IF Exists(existing) THEN "delete Secret" ELSE AfterSecret
                   ELSE IF ~Exists(existing) THEN "create Secret"
                   ELSE IF outdated THEN "update Secret" ELSE AfterSecret
<1>1. /\ pass.at = "secret" /\ api' = api /\ agent' = agent /\ BusyOK /\ RouteOK
      /\ spec \in Specs /\ spec.on \in BOOLEAN /\ Fresh \in Nat
  <2>1. pass.at = "secret" /\ api' = api /\ agent' = agent
    BY DEF reconcileEgressSecret, Stored
  <2>2. BusyOK /\ RouteOK
    BY <2>1, BusyUnlessIdle DEF Settling, IInv
  <2>3. spec \in Specs /\ spec.on \in BOOLEAN
    BY <2>2, SpecsAssumption DEF BusyOK, Agents
  <2>4. Fresh \in Nat
    BY DEF IInv, SecretsOK, Fresh
  <2> QED BY <2>1, <2>2, <2>3, <2>4
<1>2. AbsentEmpty'
  BY <1>1 DEF Settling, AbsentEmpty
<1>3. CASE spec.on /\ ~Accepted(spec, cache)
  BY <1>1, <1>3, EndsAgain DEF reconcileEgressSecret
<1>4. CASE ~(spec.on /\ ~Accepted(spec, cache))
  <2>1. /\ queued' = queued
        /\ pass' = IF next \in {"create Secret", "update Secret"}
                   THEN [pass EXCEPT !.at = next, !.existing = existing,
                                     !.creds = creds, !.keys = keys]
                   ELSE [pass EXCEPT !.at = next]
    BY <1>4 DEF reconcileEgressSecret
  <2>2. /\ next \in Writes \cup {"delete Secret", AfterSecret}
        /\ next \in Writes => spec.on
        /\ next = "delete Secret" => ~spec.on
    BY <1>1, AfterSecretAt DEF Writes
  <2>3. next \in {"read CA", "write template"} =>
           next = AfterSecret /\ IF spec.on THEN ~outdated ELSE ~Exists(existing)
    BY <1>1
  <2> HIDE DEF next
  <2>4. pass'.at = next /\ pass'.ha = pass.ha /\ pass'.inputs = InputsOff(spec)
    <3>1. pass.inputs = InputsOff(spec)
      BY <1>1 DEF RouteOK
    <3> QED BY <1>1, <2>1, <3>1 DEF BusyOK
  <2>5. ASSUME next \in {"read CA", "write template"}, pass.ha = agent
        PROVE  SecretSettled(agent.spec)'
    <3>1. agent.egress = agent.spec.on
      BY <2>3, <2>5, AfterSecretAt
    <3>2. CASE ~spec.on
      <4>1. ~Exists(api[EgressName]) \/ cache[EgressName] # api[EgressName]
        BY <2>3, <2>5, <3>2
      <4> QED BY <1>1, <2>5, <3>1, <3>2, <4>1 DEF SecretSettled, Pending
    <3>3. CASE spec.on
      <4>1. existing.data = buildEgressSecret(creds, keys, existing, Fresh)
        BY <2>3, <2>5, <3>3
      <4>2. Disjoint(creds) /\ WellBuilt(existing.data)
        <5>1. Resolvable(spec, keys)
          BY <1>4, <3>3 DEF Accepted
        <5>2. Disjoint(creds)
          BY <1>1, <5>1, PresentDisjoint
        <5> QED BY <5>2 DEF IInv, SecretsOK, Coherent
      <4> HIDE DEF existing, creds, keys
      <4>3. existing.data = buildEgressSecret(creds, keys, existing, 0)
        BY <1>1, <4>1, <4>2, NothingToMint
      <4>4. Built(agent.spec)'
        BY <1>1, <2>5, <4>3 DEF Built, existing, creds, keys
      <4> QED BY <1>1, <2>5, <3>1, <3>3, <4>4 DEF SecretSettled
    <3> QED BY <1>1, <3>2, <3>3
  <2>6. /\ pass'.at \in Writes \cup {"delete Secret", "record Secret", "read CA", "write template"}
        /\ pass'.at \in {"delete Secret", "write template"} => ~spec.on
        /\ pass'.at \in Writes \cup {"read CA"} => spec.on
    <3>1. CASE next = AfterSecret
      BY <2>4, <3>1, AfterSecretAt
    <3>2. CASE next \in Writes \cup {"delete Secret"}
      BY <2>2, <2>4, <3>2 DEF Writes
    <3> QED BY <2>2, <3>1, <3>2
  <2> QED BY <1>1, <1>2, <1>4, <2>1, <2>4, <2>5, <2>6, SecretGoesOn
<1> QED BY <1>3, <1>4

LEMMA EgressWriteSettling ==
    ASSUME IInv, Settling, deleteEgress \/ createEgress \/ updateEgress,
           UNCHANGED <<seen, cache, budget>>
    PROVE  Settling'
<1> DEFINE spec == pass.ha.spec
<1>1. /\ pass.at \in Writes \cup {"delete Secret"} /\ agent' = agent /\ BusyOK /\ RouteOK
      /\ AbsentEmpty
  <2>1. pass.at \in Writes \cup {"delete Secret"} /\ pass.at # "idle" /\ agent' = agent
    BY DEF deleteEgress, createEgress, updateEgress, Writes
  <2> QED BY <2>1, BusyUnlessIdle DEF Settling, IInv
<1>2. CASE End(TRUE) /\ api' = api
  BY <1>2, EndsAgain
<1>3. ASSUME pass'.at = AfterSecret, pass'.ha = pass.ha, pass'.inputs = InputsOff(spec),
             queued' = queued, AbsentEmpty', api'[CAName] = api[CAName],
             IF spec.on THEN api'[EgressName] # cache[EgressName] ELSE ~Exists(api'[EgressName])
      PROVE  Settling'
  <2>1. pass.ha = agent /\ AfterSecret # "record Secret" => SecretSettled(agent.spec)'
    BY <1>1, <1>3, AfterSecretAt DEF SecretSettled, Pending
  <2>2. pass.at # "secret"
    BY <1>1 DEF Writes
  <2> QED BY <1>1, <1>3, <2>1, <2>2, AfterSecretAt, SecretGoesOn
<1>4. CASE deleteEgress
  <2>1. Delete(EgressName) /\ GoTo(AfterSecret) /\ ~spec.on
    BY <1>1, <1>4 DEF deleteEgress, RouteOK
  <2>2. AbsentEmpty' /\ api'[CAName] = api[CAName] /\ ~Exists(api'[EgressName])
    BY <1>1, <2>1, DeleteEmpty, NamesDiffer, IdleAt DEF Exists
  <2>3. pass.inputs = InputsOff(spec)
    BY <1>1, <2>1 DEF RouteOK
  <2>4. /\ pass'.at = AfterSecret /\ pass'.ha = pass.ha /\ pass'.inputs = InputsOff(spec)
        /\ queued' = queued
    BY <1>1, <2>1, <2>3 DEF GoTo, BusyOK
  <2> QED BY <2>1, <2>2, <2>4, <1>3
<1>5. ASSUME NEW data, Put(EgressName, data), WrittenSecret, pass.at \in Writes
      PROVE  Settling'
  <2>1. /\ AbsentEmpty' /\ api'[EgressName].rv = rev + 1
        /\ \A m \in SecretNames : m # EgressName => api'[m] = api[m]
    BY <1>1, <1>5, PutEmpty, NamesDiffer
  <2>2. rev \in Nat /\ cache[EgressName].rv \in Nat /\ cache[EgressName].rv <= rev
    BY DEF IInv, SecretsOK, Coherent
  <2>3. api'[EgressName] # cache[EgressName]
    BY <2>1, <2>2
  <2>4. spec.on
    BY <1>1, <1>5 DEF RouteOK
  <2>5. /\ pass'.at = AfterSecret /\ pass'.ha = pass.ha /\ pass'.inputs = InputsOff(spec)
        /\ queued' = queued
    BY <1>5 DEF WrittenSecret, NewPass
  <2> QED BY <2>1, <2>3, <2>4, <2>5, <1>3, NamesDiffer
<1>6. CASE createEgress
  <2>1. pass.at \in Writes
    BY <1>6 DEF createEgress, Writes
  <2>2. \/ End(TRUE) /\ api' = api
        \/ /\ WrittenSecret
           /\ Put(EgressName, buildEgressSecret(pass.creds, pass.keys, NoSecret, Fresh))
    BY <1>6 DEF createEgress
  <2> QED BY <1>2, <1>5, <2>1, <2>2
<1>7. CASE updateEgress
  <2>1. pass.at \in Writes
    BY <1>7 DEF updateEgress, Writes
  <2>2. \/ End(TRUE) /\ api' = api
        \/ /\ WrittenSecret
           /\ Put(EgressName,
                  buildEgressSecret(pass.creds, pass.keys, pass.existing, Fresh))
    BY <1>7 DEF updateEgress
  <2> QED BY <1>2, <1>5, <2>1, <2>2
<1> QED BY <1>4, <1>6, <1>7

LEMMA RecordSecretSettling ==
    ASSUME IInv, Settling, recordEgressSecret, UNCHANGED <<seen, cache, budget>>
    PROVE  Settling'
<1> DEFINE changed == [pass.ha EXCEPT !.egress = pass.ha.spec.on]
<1>1. BusyOK /\ Record(changed, AfterRecord)
  BY BusyUnlessIdle DEF recordEgressSecret, IInv
<1>2. changed \in Agents /\ changed.spec = pass.ha.spec
  BY <1>1, SpecsAssumption DEF BusyOK, Agents
<1>3. /\ AfterRecord \in {"secret", "read CA", "write template"}
      /\ AfterRecord = "read CA" => pass.ha.spec.on
      /\ AfterRecord = "write template" => ~pass.ha.spec.on
  BY DEF AfterRecord
<1> HIDE DEF changed
<1> QED BY <1>1, <1>2, <1>3, RecordSettling

-----------------------------------------------------------------------------
(* The StatefulSet loop.                                                   *)

\* A read that finds its Secret.
LEMMA ReadGoesOn ==
    ASSUME Settling, RouteOK, pass.at \in Reads,
           pass'.at \in {"read Secret", "read keys", "write template"},
           pass'.ha = pass.ha, UNCHANGED <<agent, seen, api, cache, queued>>,
           (pass'.at # "write template" \/ pass.ha.spec.creds = NoRef) =>
              pass'.inputs.creds = Nothing,
           InputsCurrent(pass.ha.spec) => InputsCurrent(pass.ha.spec)',
           pass'.at \in {"read keys", "write template"} =>
              Exists(cache[EgressName]) \/ pass.at = "read keys"
    PROVE  Settling'
<1>1. AbsentEmpty'
  BY DEF Settling, AbsentEmpty
<1>2. pass.ha.spec.on
  BY DEF RouteOK
<1>3. RouteOK'
  BY <1>2 DEF RouteOK, Writes, Reads
<1>4. /\ CASettled(agent.spec) => CASettled(agent.spec)'
      /\ SecretSettled(agent.spec) => SecretSettled(agent.spec)'
  BY DEF CASettled, SecretSettled, Pending, Built
<1>5. Progress(agent.spec) => Progress(agent.spec)'
  BY <1>2, <1>4 DEF Progress, Checked, Writes, Reads
<1> QED BY <1>1, <1>3, <1>5, GoesOn

LEMMA ReadCASettling ==
    ASSUME IInv, Settling, readCA, UNCHANGED <<seen, cache, budget>>
    PROVE  Settling'
<1> DEFINE source == CASource(pass.ha.spec)
           inputs == [pass.inputs EXCEPT !.ca = Certificate(pass.ha.spec, cache[source])]
<1>1. /\ pass.at = "read CA" /\ BusyOK /\ RouteOK
      /\ UNCHANGED <<agent, api>>
  BY BusyUnlessIdle DEF readCA, ReadInput, Stored, IInv, Settling
<1>2. \/ End(TRUE)
      \/ pass' = [pass EXCEPT !.at = "read Secret", !.inputs = inputs] /\ queued' = queued
  BY DEF readCA, ReadInput
<1>3. CASE End(TRUE)
  BY <1>1, <1>3, EndsAgain
<1>4. CASE pass' = [pass EXCEPT !.at = "read Secret", !.inputs = inputs] /\ queued' = queued
  <2>1. /\ inputs.ca = Certificate(pass.ha.spec, cache[source])
        /\ inputs.creds = pass.inputs.creds
    BY <1>1 DEF BusyOK, InputsOK
  <2> HIDE DEF inputs
  <2>2. pass'.at = "read Secret" /\ pass'.ha = pass.ha /\ pass'.inputs = inputs
    BY <1>1, <1>4 DEF BusyOK
  <2>3. pass'.inputs.creds = Nothing
    BY <1>1, <2>1, <2>2 DEF RouteOK
  <2>4. InputsCurrent(pass.ha.spec)'
    BY <2>1, <2>2 DEF InputsCurrent
  <2> QED BY <1>1, <1>4, <2>2, <2>3, <2>4, ReadGoesOn DEF Reads
<1> QED BY <1>2, <1>3, <1>4

LEMMA ReadEgressSettling ==
    ASSUME IInv, Settling, readEgress, UNCHANGED <<seen, cache, budget>>
    PROVE  Settling'
<1> DEFINE inputs == [pass.inputs EXCEPT !.egress = cache[EgressName].data]
<1>1. /\ pass.at = "read Secret" /\ BusyOK /\ RouteOK
      /\ UNCHANGED <<agent, api>>
  BY BusyUnlessIdle DEF readEgress, ReadInput, Stored, IInv, Settling
<1>2. \/ End(TRUE)
      \/ /\ pass' = [pass EXCEPT !.at = "read keys", !.inputs = inputs] /\ queued' = queued
         /\ Exists(cache[EgressName])
  BY DEF readEgress, ReadInput, EgressName, NoRef
<1>3. CASE End(TRUE)
  BY <1>1, <1>3, EndsAgain
<1>4. CASE /\ pass' = [pass EXCEPT !.at = "read keys", !.inputs = inputs] /\ queued' = queued
           /\ Exists(cache[EgressName])
  <2>1. /\ inputs.egress = cache[EgressName].data
        /\ inputs.ca = pass.inputs.ca /\ inputs.creds = pass.inputs.creds
    BY <1>1 DEF BusyOK, InputsOK
  <2> HIDE DEF inputs
  <2>2. pass'.at = "read keys" /\ pass'.ha = pass.ha /\ pass'.inputs = inputs
    BY <1>1, <1>4 DEF BusyOK
  <2>3. pass'.inputs.creds = Nothing
    BY <1>1, <2>1, <2>2 DEF RouteOK
  <2>4. InputsCurrent(pass.ha.spec) => InputsCurrent(pass.ha.spec)'
    BY <1>1, <2>1, <2>2 DEF InputsCurrent
  <2> QED BY <1>1, <1>4, <2>2, <2>3, <2>4, ReadGoesOn DEF Reads
<1> QED BY <1>2, <1>3, <1>4

LEMMA ReadCredentialsSettling ==
    ASSUME IInv, Settling, readCredentials, UNCHANGED <<seen, cache, budget>>
    PROVE  Settling'
<1> DEFINE name == pass.ha.spec.creds
           inputs == IF name = NoRef THEN pass.inputs
                     ELSE [pass.inputs EXCEPT !.creds = cache[name].data]
<1>1. /\ pass.at = "read keys" /\ BusyOK /\ RouteOK
      /\ UNCHANGED <<agent, api>>
  BY BusyUnlessIdle DEF readCredentials, ReadInput, Stored, IInv, Settling
<1>2. \/ End(TRUE)
      \/ pass' = [pass EXCEPT !.at = "write template", !.inputs = inputs] /\ queued' = queued
  BY DEF readCredentials, ReadInput
<1>3. CASE End(TRUE)
  BY <1>1, <1>3, EndsAgain
<1>4. CASE pass' = [pass EXCEPT !.at = "write template", !.inputs = inputs] /\ queued' = queued
  <2>1. /\ inputs.ca = pass.inputs.ca /\ inputs.egress = pass.inputs.egress
        /\ name = NoRef => inputs.creds = pass.inputs.creds
        /\ name # NoRef => inputs.creds = cache[name].data
    BY <1>1 DEF BusyOK, InputsOK
  <2> HIDE DEF inputs
  <2>2. pass'.at = "write template" /\ pass'.ha = pass.ha /\ pass'.inputs = inputs
    BY <1>1, <1>4 DEF BusyOK
  <2>3. name = NoRef => pass'.inputs.creds = Nothing
    BY <1>1, <2>1, <2>2 DEF RouteOK
  <2>4. InputsCurrent(pass.ha.spec) => InputsCurrent(pass.ha.spec)'
    BY <1>1, <2>1, <2>2 DEF InputsCurrent
  <2> QED BY <1>1, <1>4, <2>2, <2>3, <2>4, ReadGoesOn DEF Reads
<1> QED BY <1>2, <1>3, <1>4

\* The template is built from what the cache still shows.
LEMMA WriteTemplateSettling ==
    ASSUME IInv, Settling, writeTemplate, UNCHANGED <<seen, cache, budget>>
    PROVE  Settling'
<1>1. /\ pass.at = "write template" /\ template' = pass.inputs /\ pass' = Idle
      /\ UNCHANGED <<agent, api, seen, cache>> /\ BusyOK /\ RouteOK
  BY BusyUnlessIdle DEF writeTemplate, End, IInv, Settling
<1>2. queued' = queued
  BY DEF writeTemplate, End, IInv, AgentOK
<1>3. AbsentEmpty' /\ pass'.at = "idle"
  BY <1>1, IdleAt DEF Settling, AbsentEmpty
<1>4. ASSUME Uninterrupted
      PROVE  Progress(agent.spec)'
  <2> DEFINE spec == agent.spec
  <2>1. /\ Progress(spec) /\ spec = pass.ha.spec /\ InputsCurrent(spec)
        /\ InputsOK(pass.inputs, spec)
    BY <1>1, <1>4 DEF Settling, Progress, BusyOK
  <2>2. pass.inputs = Current(spec, cache)
    <3>1. CASE ~spec.on
      BY <1>1, <2>1, <3>1 DEF RouteOK, Current
    <3>2. CASE spec.on
      <4>1. /\ pass.inputs.ca = Certificate(spec, cache[CASource(spec)])
            /\ pass.inputs.egress = cache[EgressName].data
            /\ pass.inputs.creds = IF spec.creds = NoRef THEN Nothing
                                   ELSE cache[spec.creds].data
        BY <1>1, <2>1, <3>2 DEF InputsCurrent, RouteOK
      <4> QED BY <2>1, <3>2, <4>1 DEF InputsOK, Current, Inputs
    <3> QED BY <3>1, <3>2
  <2>3. (CASettled(spec) => CASettled(spec)') /\ (SecretSettled(spec) => SecretSettled(spec)')
    BY <1>1 DEF CASettled, SecretSettled, Pending, Built
  <2>4. /\ CASettled(spec) /\ SecretSettled(spec)
        /\ spec.on => /\ CAAccepted(spec, cache) /\ Accepted(spec, cache)
                      /\ Exists(cache[EgressName])
    BY <1>1, <2>1 DEF Progress, Checked
  <2> QED BY <1>1, <1>3, <2>2, <2>3, <2>4 DEF Progress
<1>5. Uninterrupted' = Uninterrupted
  BY <1>1, <1>2 DEF Uninterrupted
<1> QED BY <1>3, <1>4, <1>5 DEF Settling

-----------------------------------------------------------------------------
(* The result.                                                             *)

LEMMA NextSettling ==
    ASSUME IInv, Settling, [Next]_vars
    PROVE  Settling'
<1>1. CASE Pass
  BY <1>1, StartSettling, CASettling, CAWriteSettling, RecordCASettling, SecretLoopSettling,
     EgressWriteSettling, RecordSecretSettling, ReadCASettling, ReadEgressSettling,
     ReadCredentialsSettling, WriteTemplateSettling DEF Pass
<1>2. CASE Sync
  BY <1>2, SyncAgentStep, SyncSecretStep DEF Sync
<1>3. CASE User
  BY <1>3, UserSettling
<1>4. CASE Fail \/ Restart
  BY <1>4, FaultSettling
<1>5. CASE UNCHANGED vars
  BY <1>5 DEF vars, Settling, AbsentEmpty, RouteOK, Uninterrupted, Progress, InputsCurrent,
              CASettled, SecretSettled, Built, Pending
<1> QED BY <1>1, <1>2, <1>3, <1>4, <1>5 DEF Next

\* When nothing is on its way, an uninterrupted pass has left what is promised.
LEMMA SettlingSettles ==
    ASSUME Settling
    PROVE  QuiescentIsSettled
<1> SUFFICES ASSUME Quiescent
             PROVE  QuiescentIsSettled
  BY DEF QuiescentIsSettled
<1>1. cache = api /\ pass.at = "idle" /\ Uninterrupted
  BY DEF Quiescent, Uninterrupted
<1>2. Progress(agent.spec)
  BY <1>1 DEF Settling
<1>3. ~Pending(CAName) /\ ~Pending(EgressName)
  BY <1>1 DEF Pending
<1>4. /\ template = Current(agent.spec, api) /\ CASettled(agent.spec) /\ SecretSettled(agent.spec)
      /\ agent.spec.on => /\ CAAccepted(agent.spec, api) /\ Accepted(agent.spec, api)
                          /\ Exists(cache[EgressName])
  BY <1>1, <1>2 DEF Progress
<1>5. agent.spec.on => Built(agent.spec)
  BY <1>3, <1>4 DEF SecretSettled
<1> QED BY <1>1, <1>3, <1>4, <1>5 DEF QuiescentIsSettled, CASettled, SecretSettled, Built

\* No event is lost: whenever no pass is due and the caches are current, the
\* egress Secret, the CA, the status and the pod template are those of the spec
\* and of the user's Secrets as they are (reconcileEgressCA,
\* reconcileEgressSecret, egressPodInputs and the watches that wake them).
THEOREM EgressNoLostEvent == Spec => []QuiescentIsSettled
<1>1. Init => Settling
  BY InitSettling
<1>2. IInv /\ Settling /\ [Next]_vars => Settling'
  BY NextSettling
<1>3. Settling => QuiescentIsSettled
  BY SettlingSettles
<1> QED BY <1>1, <1>2, <1>3, EgressInductive, PTL DEF Spec

=============================================================================
