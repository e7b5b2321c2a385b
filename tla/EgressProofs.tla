---------------------------- MODULE EgressProofs ----------------------------
(***************************************************************************)
(* Proofs about Egress, for every set of specs, providers and Secrets and  *)
(* every bound.                                                            *)
(***************************************************************************)
EXTENDS Egress, TLAPS

-----------------------------------------------------------------------------
(* The inductive invariant.                                                *)

Agents == [spec : Specs, rv : Nat, ca : BOOLEAN, egress : BOOLEAN]

\* What buildEgressSecret makes: one token per credential, in both places, and
\* rules for disjoint hosts.
WellBuilt(data) ==
    data.kind = "egress" =>
        /\ data.tokens \in [EnvVars -> TokenValues \cup {NoToken}]
        /\ DOMAIN data.proxy \subseteq EnvVars
        /\ \A n \in DOMAIN data.proxy :
              /\ data.proxy[n].token = data.tokens[n]
              /\ data.proxy[n].token \in TokenValues
              /\ data.proxy[n].hosts \subseteq Hosts
        /\ \A m, n \in DOMAIN data.proxy :
              m # n => \A h \in data.proxy[m].hosts, g \in data.proxy[n].hosts :
                          ~hostsOverlap(h, g)

\* What the claims check leaves of the credentials that are present.
Disjoint(creds) ==
    /\ \A c \in creds : EnvNames(c) \subseteq EnvVars /\ c.hosts \subseteq Hosts
    /\ \A c, d \in creds : c # d => ~Clash(c, d)

SecretOK(secret) ==
    /\ secret.rv \in Nat /\ secret.rv <= rev
    /\ Exists(secret) => secret.data.kind # "nothing"

\* A copy of the egress Secret is never ahead, and one of the current version is
\* the Secret itself.
Coherent(copy) ==
    /\ copy.rv \in Nat /\ copy.rv <= rev
    /\ IF Exists(copy) THEN copy.data.kind = "egress" ELSE copy = NoSecret
    /\ copy.rv = api[EgressName].rv => copy = api[EgressName]
    /\ WellBuilt(copy.data)

SecretsOK ==
    /\ rev \in Nat
    /\ api = [n \in SecretNames |-> api[n]]
    /\ cache = [n \in SecretNames |-> cache[n]]
    /\ \A n \in SecretNames : SecretOK(api[n]) /\ SecretOK(cache[n])
    /\ Coherent(api[EgressName]) /\ Coherent(cache[EgressName])

AgentOK ==
    /\ agent \in Agents /\ seen \in Agents
    /\ seen.rv <= agent.rv /\ agent.rv <= rev
    /\ queued \in BOOLEAN

TemplateOK ==
    /\ template.egress.kind \in {"nothing", "egress"}
    /\ TemplateComplete

Writes == {"create Secret", "update Secret"}

\* The steps that follow the checks of the Secret loop.
Checked == Writes \cup {"delete Secret", "record Secret", "read CA", "read Secret",
                        "read keys", "write template"}

Steps == Checked \cup {"ca", "delete CA", "create CA", "record CA", "secret"}

InputsOK(inputs, spec) ==
    /\ inputs = [spec |-> spec, ca |-> inputs.ca, egress |-> inputs.egress,
                 creds |-> inputs.creds]
    /\ inputs.egress.kind \in {"nothing", "egress"}

\* The reads so far found their Secrets.
ReadsOK(at, inputs, spec) ==
    spec.on =>
        /\ at \in {"read keys", "write template"} => inputs.egress.kind = "egress"
        /\ at = "write template" /\ spec.creds # NoRef => inputs.creds # Nothing

BusyOK ==
    /\ pass = [at |-> pass.at, ha |-> pass.ha, existing |-> pass.existing,
               creds |-> pass.creds, keys |-> pass.keys, inputs |-> pass.inputs]
    /\ pass.at \in Steps
    /\ pass.ha \in Agents /\ pass.ha.rv <= agent.rv
    /\ InputsOK(pass.inputs, pass.ha.spec)
    /\ ReadsOK(pass.at, pass.inputs, pass.ha.spec)
    /\ pass.at \in Writes => Coherent(pass.existing) /\ Disjoint(pass.creds)
    /\ pass.at \in Checked /\ pass.ha.spec.on => ValidateEgressPorts(pass.ha.spec)

PassOK == pass = Idle \/ BusyOK

IInv == SecretsOK /\ AgentOK /\ TemplateOK /\ PassOK

-----------------------------------------------------------------------------
(* Hosts and tokens.                                                       *)

\* A credential is one of its own env names.
LEMMA OwnName == \A c : c.name \in EnvNames(c)
BY DEF EnvNames

\* An issued token is never NoToken: env vars have names.
LEMMA NoTokenIsNone == NoToken \notin TokenValues
BY NamesAssumption DEF NoToken, TokenValues

\* A token is kept or minted.
LEMMA TokenType ==
    ASSUME NEW c, NEW existing, NEW serial \in Nat,
           c.name \in EnvVars, WellBuilt(existing.data)
    PROVE  TokenOf(c, existing, serial) \in TokenValues
<1>1. CASE existing.data.kind = "egress" /\ existing.data.tokens[c.name] # NoToken
  BY <1>1 DEF TokenOf, WellBuilt
<1>2. CASE ~(existing.data.kind = "egress" /\ existing.data.tokens[c.name] # NoToken)
  BY <1>2 DEF TokenOf, TokenValues
<1> QED BY <1>1, <1>2

\* What buildEgressSecret makes of disjoint credentials is well built: the
\* credential that proxy.yaml picks by name and the one that the token keys pick
\* by env var are the same one.
LEMMA BuiltWell ==
    ASSUME NEW creds, NEW keys, NEW existing, NEW serial \in Nat,
           Disjoint(creds), WellBuilt(existing.data)
    PROVE  /\ buildEgressSecret(creds, keys, existing, serial).kind = "egress"
           /\ WellBuilt(buildEgressSecret(creds, keys, existing, serial))
<1> DEFINE data == buildEgressSecret(creds, keys, existing, serial)
           ByName(n) == CHOOSE d \in creds : d.name = n
           ByVar(v) == CHOOSE c \in creds : v \in EnvNames(c)
<1>1. \A c \in creds : c.name \in EnvVars /\ c.name \in EnvNames(c)
  BY OwnName DEF Disjoint
<1>2. /\ data.kind = "egress"
      /\ DOMAIN data.proxy = {c.name : c \in creds}
      /\ data.tokens = [v \in EnvVars |->
                          IF \E c \in creds : v \in EnvNames(c)
                          THEN TokenOf(ByVar(v), existing, serial) ELSE NoToken]
  BY DEF buildEgressSecret, buildEgressProxyYAML
<1>3. \A n \in DOMAIN data.proxy :
         /\ data.proxy[n].hosts = ByName(n).hosts
         /\ data.proxy[n].token = TokenOf(ByName(n), existing, serial)
  BY <1>2 DEF buildEgressSecret, buildEgressProxyYAML
<1>4. \A n \in DOMAIN data.proxy : ByName(n) \in creds /\ ByName(n).name = n
  BY <1>2
<1>5. \A v \in EnvVars : (\E c \in creds : v \in EnvNames(c)) =>
                            ByVar(v) \in creds /\ v \in EnvNames(ByVar(v))
  OBVIOUS
<1>6. \A c, d \in creds : EnvNames(c) \cap EnvNames(d) # {} => c = d
  BY DEF Disjoint, Clash
<1>7. \A n \in DOMAIN data.proxy : n \in EnvVars /\ ByVar(n) = ByName(n)
  BY <1>1, <1>4, <1>5, <1>6
<1>8. data.tokens \in [EnvVars -> TokenValues \cup {NoToken}]
  <2> SUFFICES ASSUME NEW v \in EnvVars
               PROVE  (\E c \in creds : v \in EnvNames(c)) =>
                          TokenOf(ByVar(v), existing, serial) \in TokenValues
    BY <1>2
  <2> QED BY <1>1, <1>5, TokenType
<1>9. \A n \in DOMAIN data.proxy :
         /\ data.proxy[n].token = data.tokens[n]
         /\ data.proxy[n].token \in TokenValues
         /\ data.proxy[n].hosts \subseteq Hosts
  <2> SUFFICES ASSUME NEW n \in DOMAIN data.proxy
               PROVE  /\ data.proxy[n].token = data.tokens[n]
                      /\ data.proxy[n].token \in TokenValues
                      /\ data.proxy[n].hosts \subseteq Hosts
    OBVIOUS
  <2>1. ByName(n) \in creds /\ n \in EnvNames(ByName(n)) /\ n \in EnvVars
    BY <1>1, <1>4, <1>7
  <2>2. data.tokens[n] = TokenOf(ByVar(n), existing, serial)
    BY <1>2, <2>1
  <2>3. TokenOf(ByName(n), existing, serial) \in TokenValues
    BY <1>1, <2>1, TokenType
  <2>4. ByName(n).hosts \subseteq Hosts
    BY <2>1 DEF Disjoint
  <2> QED BY <1>3, <1>7, <2>2, <2>3, <2>4
<1>10. \A m, n \in DOMAIN data.proxy :
          m # n => \A h \in data.proxy[m].hosts, g \in data.proxy[n].hosts :
                      ~hostsOverlap(h, g)
  <2> SUFFICES ASSUME NEW m \in DOMAIN data.proxy, NEW n \in DOMAIN data.proxy, m # n,
                      NEW h \in data.proxy[m].hosts, NEW g \in data.proxy[n].hosts
               PROVE  ~hostsOverlap(h, g)
    OBVIOUS
  <2>1. ByName(m) \in creds /\ ByName(n) \in creds /\ ByName(m) # ByName(n)
    BY <1>4
  <2>2. ~Clash(ByName(m), ByName(n))
    BY <2>1 DEF Disjoint
  <2>3. h \in ByName(m).hosts /\ g \in ByName(n).hosts
    BY <1>3
  <2> QED BY <2>2, <2>3 DEF Clash
<1>11. DOMAIN data.proxy \subseteq EnvVars
  BY <1>7
<1> QED BY <1>2, <1>8, <1>9, <1>10, <1>11 DEF WellBuilt

\* Rules for disjoint hosts never match the same request: hostsOverlap looks at
\* the patterns, iron-proxy at the host that is requested.
LEMMA NoCommonRequest ==
    ASSUME NEW h \in Hosts, NEW g \in Hosts, ~hostsOverlap(h, g)
    PROVE  ~Matches(g, Request(h))
<1> SUFFICES ASSUME Matches(g, Request(h)) PROVE FALSE
  OBVIOUS
<1> DEFINE a == h.labels
           b == g.labels
<1>1. /\ h = [wild |-> h.wild, labels |-> a] /\ g = [wild |-> g.wild, labels |-> b]
      /\ h.wild \in BOOLEAN /\ g.wild \in BOOLEAN
      /\ a \in Seq(STRING) /\ b \in Seq(STRING)
      /\ Len(a) \in Nat /\ Len(b) \in Nat
  BY DEF Hosts
<1>2. h # g /\ ~Covers(g, h) /\ ~Covers(h, g)
  BY DEF hostsOverlap
<1> DEFINE r == <<"x">> \o a
<1>3. /\ r \in Seq(STRING \cup {"x"}) /\ Len(r) = Len(a) + 1
      /\ \A i \in 1..Len(a) : r[i + 1] = a[i]
  <2>1. a \in Seq(STRING \cup {"x"}) /\ <<"x">> \in Seq(STRING \cup {"x"})
    BY <1>1
  <2>2. r \in Seq(STRING \cup {"x"}) /\ Len(r) = Len(a) + 1
    BY <2>1
  <2>3. \A i \in 1..Len(a) : r[i + 1] = a[i]
    BY <2>1
  <2> QED BY <2>2, <2>3
<1>4. CASE ~g.wild /\ ~h.wild
  BY <1>1, <1>2, <1>4 DEF Matches, Request
<1>5. CASE ~g.wild /\ h.wild
  <2>1. b = r
    BY <1>5 DEF Matches, Request
  <2>2. SubSeq(b, Len(b) - Len(a) + 1, Len(b)) = a
    BY <2>1, <1>3, <1>1
  <2>3. EndsWith(b, a) /\ Len(b) > Len(a)
    BY <2>1, <2>2, <1>1, <1>3 DEF EndsWith
  <2> QED BY <2>3, <1>5, <1>2 DEF Covers
<1>6. CASE g.wild /\ ~h.wild
  BY <1>1, <1>2, <1>6 DEF Matches, Request, Covers
<1>7. CASE g.wild /\ h.wild
  <2>1. EndsWith(r, b) /\ Len(r) > Len(b)
    BY <1>7 DEF Matches, Request
  <2>2. Len(a) >= Len(b)
    BY <2>1, <1>3, <1>1
  <2>3. SubSeq(r, Len(r) - Len(b) + 1, Len(r)) = b
    BY <2>1 DEF EndsWith
  <2>4. SubSeq(a, Len(a) - Len(b) + 1, Len(a)) = SubSeq(r, Len(r) - Len(b) + 1, Len(r))
    BY <2>2, <1>3, <1>1
  <2> QED BY <2>2, <2>3, <2>4, <1>7, <1>2 DEF EndsWith, Covers
<1> QED BY <1>4, <1>5, <1>6, <1>7, <1>1

\* The claims check leaves disjoint credentials.
LEMMA PresentDisjoint ==
    ASSUME NEW spec \in Specs, NEW keys, Resolvable(spec, keys)
    PROVE  Disjoint(Present(spec, keys))
BY SpecsAssumption DEF Resolvable, Present, Disjoint

-----------------------------------------------------------------------------
(* Writes of Secrets and moves of the pass.                                *)

LEMMA NamesDiffer == EgressName \in SecretNames /\ CAName \in SecretNames /\ CAName # EgressName
BY DEF SecretNames, CAName, EgressName

CopiesStay == \A copy : Coherent(copy) => Coherent(copy)'

\* A copy stays coherent when the Secret goes, as versions are not reused.
LEMMA DeleteKeeps ==
    ASSUME SecretsOK, NEW n \in SecretNames, Delete(n), UNCHANGED cache
    PROVE  SecretsOK' /\ CopiesStay
<1>1. /\ api' = [api EXCEPT ![n] = NoSecret] /\ rev' = rev
      /\ NoSecret.rv = 0 /\ NoSecret.data.kind = "nothing"
  BY DEF Delete, NoSecret, Nothing
<1>2. api'[EgressName] = IF n = EgressName THEN NoSecret ELSE api[EgressName]
  BY <1>1, NamesDiffer DEF SecretsOK
<1>3. CopiesStay
  BY <1>1, <1>2 DEF CopiesStay, Coherent, Exists
<1>4. Coherent(api[EgressName])'
  <2>1. CASE n = EgressName
    BY <1>1, <1>2, <2>1 DEF Coherent, Exists, WellBuilt, SecretsOK
  <2>2. CASE n # EgressName
    BY <1>2, <1>3, <2>2 DEF CopiesStay, SecretsOK, Coherent
  <2> QED BY <2>1, <2>2
<1>5. Coherent(cache[EgressName])'
  BY <1>3 DEF CopiesStay, SecretsOK, Coherent
<1>6. \A m \in SecretNames : SecretOK(api[m])' /\ SecretOK(cache[m])'
  BY <1>1 DEF SecretsOK, SecretOK, Exists
<1>7. api' = [m \in SecretNames |-> api'[m]]
  BY <1>1 DEF SecretsOK
<1> QED BY <1>1, <1>3, <1>4, <1>5, <1>6, <1>7 DEF SecretsOK

\* So it does when a Secret is written, with a version of its own.
LEMMA PutKeeps ==
    ASSUME SecretsOK, NEW n \in SecretNames, NEW data, Put(n, data), UNCHANGED cache,
           data.kind # "nothing",
           n = EgressName => data.kind = "egress" /\ WellBuilt(data)
    PROVE  SecretsOK' /\ CopiesStay
<1> DEFINE new == [rv |-> rev + 1, data |-> data]
<1>1. /\ api' = [api EXCEPT ![n] = new] /\ rev' = rev + 1 /\ rev \in Nat
      /\ new.rv = rev + 1 /\ new.data = data
  BY DEF Put, Fresh, SecretsOK
<1> HIDE DEF new
<1>2. api'[EgressName] = IF n = EgressName THEN new ELSE api[EgressName]
  BY <1>1, NamesDiffer DEF SecretsOK
<1>3. CopiesStay
  BY <1>1, <1>2 DEF CopiesStay, Coherent, Exists
<1>4. Coherent(api[EgressName])'
  <2>1. CASE n = EgressName
    BY <1>1, <1>2, <2>1 DEF Coherent, Exists
  <2>2. CASE n # EgressName
    BY <1>2, <1>3, <2>2 DEF CopiesStay, SecretsOK, Coherent
  <2> QED BY <2>1, <2>2
<1>5. Coherent(cache[EgressName])'
  BY <1>3 DEF CopiesStay, SecretsOK, Coherent
<1>6. \A m \in SecretNames : SecretOK(api[m])' /\ SecretOK(cache[m])'
  BY <1>1 DEF SecretsOK, SecretOK, Exists
<1>7. api' = [m \in SecretNames |-> api'[m]]
  BY <1>1 DEF SecretsOK
<1> QED BY <1>1, <1>3, <1>4, <1>5, <1>6, <1>7 DEF SecretsOK

\* Steps that write no Secret.
LEMMA SecretsKept ==
    ASSUME SecretsOK, api' = api, cache' = cache, rev' \in Nat, rev <= rev'
    PROVE  SecretsOK' /\ CopiesStay
<1>1. CopiesStay
  BY DEF CopiesStay, Coherent, SecretsOK
<1>2. \A m \in SecretNames : SecretOK(api[m])' /\ SecretOK(cache[m])'
  BY DEF SecretsOK, SecretOK
<1>3. Coherent(api[EgressName])' /\ Coherent(cache[EgressName])'
  BY <1>1 DEF CopiesStay, SecretsOK, Coherent
<1> QED BY <1>2, <1>3, <1>1 DEF SecretsOK

\* The pass ends.
LEMMA Ended ==
    ASSUME AgentOK, NEW again \in BOOLEAN, End(again)
    PROVE  PassOK' /\ queued' \in BOOLEAN
BY DEF End, PassOK, AgentOK

\* The pass stays where it is while others write.
LEMMA PassKept ==
    ASSUME PassOK, AgentOK, pass' = pass, agent' \in Agents, agent.rv <= agent'.rv, CopiesStay
    PROVE  PassOK'
<1>1. CASE pass = Idle
  BY <1>1 DEF PassOK
<1>2. CASE BusyOK
  <2>1. pass.at \in Writes => Coherent(pass.existing)'
    BY <1>2 DEF BusyOK, CopiesStay, Coherent
  <2>2. pass'.ha.rv <= agent'.rv
    BY <1>2 DEF BusyOK, AgentOK, Agents
  <2> QED BY <1>2, <2>1, <2>2 DEF PassOK, BusyOK
<1> QED BY <1>1, <1>2 DEF PassOK

\* The pass goes on to a step that writes no egress Secret.
LEMMA Moved ==
    ASSUME BusyOK, NEW at, at \in Steps, at \notin Writes, NEW inputs,
           pass' = [pass EXCEPT !.at = at, !.inputs = inputs], agent' = agent,
           InputsOK(inputs, pass.ha.spec), ReadsOK(at, inputs, pass.ha.spec),
           at \in Checked /\ pass.ha.spec.on => ValidateEgressPorts(pass.ha.spec)
    PROVE  BusyOK'
<1>1. /\ pass'.at = at /\ pass'.inputs = inputs /\ pass'.ha = pass.ha
      /\ pass' = [at |-> pass'.at, ha |-> pass'.ha, existing |-> pass'.existing,
                  creds |-> pass'.creds, keys |-> pass'.keys, inputs |-> pass'.inputs]
  BY DEF BusyOK
<1> QED BY <1>1 DEF BusyOK

LEMMA GoneTo ==
    ASSUME BusyOK, NEW at, at \in Steps, at \notin Writes, GoTo(at), agent' = agent,
           ReadsOK(at, pass.inputs, pass.ha.spec),
           at \in Checked /\ pass.ha.spec.on => ValidateEgressPorts(pass.ha.spec)
    PROVE  BusyOK' /\ queued' = queued
<1>1. pass' = [pass EXCEPT !.at = at, !.inputs = pass.inputs] /\ queued' = queued
  BY DEF GoTo, BusyOK
<1>2. InputsOK(pass.inputs, pass.ha.spec)
  BY DEF BusyOK
<1> QED BY <1>1, <1>2, Moved

\* A pass that starts, or goes on after a write, has read nothing.
LEMMA Renewed ==
    ASSUME NEW ha, ha \in Agents, ha.rv <= agent'.rv,
           NEW at, at \in Steps, at \notin Writes, pass' = [NewPass(ha) EXCEPT !.at = at],
           ReadsOK(at, InputsOff(ha.spec), ha.spec),
           at \in Checked /\ ha.spec.on => ValidateEgressPorts(ha.spec)
    PROVE  BusyOK'
<1>1. /\ pass'.at = at /\ pass'.inputs = InputsOff(ha.spec) /\ pass'.ha = ha
      /\ pass' = [at |-> pass'.at, ha |-> pass'.ha, existing |-> pass'.existing,
                  creds |-> pass'.creds, keys |-> pass'.keys, inputs |-> pass'.inputs]
  BY DEF NewPass
<1>2. InputsOK(InputsOff(ha.spec), ha.spec)
  BY DEF InputsOK, InputsOff, Inputs, Nothing
<1> QED BY <1>1, <1>2 DEF BusyOK

\* Steps of the pass that write nothing.
LEMMA PassOnly ==
    ASSUME IInv, UNCHANGED Stored, UNCHANGED <<seen, cache>>, PassOK', queued' \in BOOLEAN
    PROVE  IInv'
<1>1. SecretsOK'
  BY SecretsKept DEF IInv, Stored, SecretsOK
<1>2. AgentOK' /\ TemplateOK'
  BY DEF IInv, Stored, AgentOK, TemplateOK, TemplateComplete
<1> QED BY <1>1, <1>2 DEF IInv

LEMMA BusyUnlessIdle ==
    ASSUME PassOK, pass.at # "idle"
    PROVE  BusyOK
BY DEF PassOK, Idle

-----------------------------------------------------------------------------
(* One lemma per action.                                                   *)

LEMMA StartStep ==
    ASSUME IInv, Start, UNCHANGED <<seen, cache, budget>>
    PROVE  IInv'
<1>1. pass' = [NewPass(seen) EXCEPT !.at = "ca"] /\ queued' = FALSE
  BY DEF Start, NewPass
<1>2. seen \in Agents /\ seen.rv <= agent'.rv
  BY DEF IInv, AgentOK, Start, Stored
<1>3. "ca" \in Steps /\ "ca" \notin Checked /\ "ca" \notin Writes
  BY DEF Steps, Writes, Checked
<1>4. ReadsOK("ca", InputsOff(seen.spec), seen.spec)
  BY DEF ReadsOK
<1>5. BusyOK'
  BY <1>1, <1>2, <1>3, <1>4, Renewed
<1> QED BY <1>1, <1>5, PassOnly DEF PassOK, Start

LEMMA CAStep ==
    ASSUME IInv, reconcileEgressCA, UNCHANGED <<seen, cache, budget>>
    PROVE  IInv'
<1>1. BusyOK /\ UNCHANGED Stored /\ queued \in BOOLEAN /\ AgentOK
  BY BusyUnlessIdle DEF reconcileEgressCA, IInv, AgentOK
<1>2. CASE End(TRUE)
  BY <1>1, <1>2, Ended, PassOnly
<1>3. ASSUME NEW at \in {"delete CA", "create CA", "record CA", "secret"}, GoTo(at)
      PROVE  IInv'
  <2>1. at \in Steps /\ at \notin Writes /\ at \notin Checked
    BY <1>3 DEF Steps, Writes, Checked
  <2>2. ReadsOK(at, pass.inputs, pass.ha.spec)
    BY <1>3 DEF ReadsOK
  <2>3. BusyOK' /\ queued' = queued
    BY <1>1, <1>3, <2>1, <2>2, GoneTo DEF Stored
  <2> QED BY <1>1, <2>3, PassOnly DEF PassOK
<1>4. End(TRUE) \/ \E at \in {"delete CA", "create CA", "record CA", "secret"} : GoTo(at)
  BY DEF reconcileEgressCA, AfterCA
<1> QED BY <1>2, <1>3, <1>4

\* The CA is deleted or created: the egress Secret is another one.
LEMMA CAWriteStep ==
    ASSUME IInv, deleteCA \/ createCA, UNCHANGED <<seen, cache, budget>>
    PROVE  IInv'
<1>1. BusyOK /\ agent' = agent /\ template' = template
  BY BusyUnlessIdle DEF deleteCA, createCA, IInv
<1>2. AfterCA \in Steps /\ AfterCA \notin Writes /\ AfterCA \notin Checked
      /\ ReadsOK(AfterCA, pass.inputs, pass.ha.spec)
  BY DEF AfterCA, Steps, Writes, Checked, ReadsOK
<1>3. GoTo(AfterCA) => PassOK' /\ queued' \in BOOLEAN
  BY <1>1, <1>2, GoneTo DEF PassOK, IInv, AgentOK
<1>4. End(TRUE) => PassOK' /\ queued' \in BOOLEAN
  BY Ended DEF IInv
<1>5. SecretsOK' /\ PassOK' /\ queued' \in BOOLEAN /\ rev' \in Nat /\ rev <= rev'
  <2> SecretsOK /\ rev \in Nat /\ rev <= rev /\ cache' = cache
    BY DEF IInv, SecretsOK
  <2>1. CASE deleteCA
    <3>1. Delete(CAName) /\ GoTo(AfterCA) /\ rev' = rev
      BY <2>1 DEF deleteCA, Delete
    <3>2. SecretsOK'
      BY <3>1, DeleteKeeps, NamesDiffer
    <3> QED BY <3>1, <3>2, <1>3
  <2>2. CASE createCA /\ Exists(api[CAName])
    <3>1. End(TRUE) /\ api' = api /\ rev' = rev
      BY <2>2 DEF createCA
    <3>2. SecretsOK'
      BY <3>1, SecretsKept
    <3> QED BY <3>1, <3>2, <1>4
  <2>3. CASE createCA /\ ~Exists(api[CAName])
    <3>1. Put(CAName, ManagedCA(Fresh)) /\ GoTo(AfterCA)
      BY <2>3 DEF createCA
    <3>2. ManagedCA(Fresh).kind # "nothing"
      BY DEF ManagedCA
    <3>3. SecretsOK'
      BY <3>1, <3>2, PutKeeps, NamesDiffer DEF IInv
    <3> QED BY <3>1, <3>3, <1>3 DEF Put, Fresh, IInv, SecretsOK
  <2> QED BY <2>1, <2>2, <2>3
<1>6. AgentOK' /\ TemplateOK'
  BY <1>1, <1>5 DEF IInv, AgentOK, TemplateOK, TemplateComplete, Agents, SecretsOK
<1> QED BY <1>5, <1>6 DEF IInv

\* A status write.
LEMMA RecordStep ==
    ASSUME IInv, BusyOK, NEW changed \in Agents, changed.spec = pass.ha.spec,
           NEW next, next \in Steps, next \notin Writes, Record(changed, next),
           UNCHANGED <<seen, cache, budget>>,
           ReadsOK(next, InputsOff(pass.ha.spec), pass.ha.spec),
           next \in Checked /\ pass.ha.spec.on => ValidateEgressPorts(pass.ha.spec)
    PROVE  IInv'
<1>1. CASE pass.ha.rv # agent.rv
  BY <1>1, Ended, PassOnly DEF Record, IInv
<1>2. CASE pass.ha.rv = agent.rv
  <2>1. /\ rev' = rev + 1 /\ rev \in Nat
        /\ api' = api /\ cache' = cache /\ seen' = seen
        /\ template' = template /\ queued' = queued
    BY <1>2 DEF Record, Fresh, IInv, SecretsOK
  <2>2. agent' \in Agents /\ agent'.rv = rev + 1 /\ agent'.spec = pass.ha.spec
    <3>1. agent' = [changed EXCEPT !.rv = rev + 1]
      BY <1>2 DEF Record, Fresh
    <3>2. rev + 1 \in Nat
      BY <2>1
    <3> QED BY <3>1, <3>2 DEF Agents
  <2>3. SecretsOK'
    <3>1. SecretsOK /\ cache' = cache /\ api' = api /\ rev' \in Nat /\ rev <= rev'
      BY <2>1 DEF IInv
    <3> QED BY <3>1, SecretsKept
  <2>4. BusyOK'
    <3>1. agent'.rv <= agent'.rv
      BY <2>1, <2>2
    <3>2. pass' = [NewPass(agent') EXCEPT !.at = next]
      BY <1>2 DEF Record
    <3> QED BY <2>2, <3>1, <3>2, Renewed
  <2>5. seen' \in Agents /\ seen'.rv <= agent'.rv /\ agent'.rv <= rev'
    BY <2>1, <2>2 DEF IInv, AgentOK, Agents
  <2>6. AgentOK' /\ TemplateOK'
    BY <2>1, <2>2, <2>5 DEF IInv, AgentOK, TemplateOK, TemplateComplete
  <2> QED BY <2>3, <2>4, <2>6 DEF IInv, PassOK
<1> QED BY <1>1, <1>2

LEMMA RecordCAStep ==
    ASSUME IInv, recordEgressCASecret, UNCHANGED <<seen, cache, budget>>
    PROVE  IInv'
<1> DEFINE changed == [pass.ha EXCEPT !.ca = UsesManagedCA(pass.ha.spec)]
<1>1. BusyOK /\ Record(changed, "secret")
  BY BusyUnlessIdle DEF recordEgressCASecret, IInv
<1>2. UsesManagedCA(pass.ha.spec) \in BOOLEAN
  BY <1>1, SpecsAssumption DEF UsesManagedCA, BusyOK, Agents
<1>3. changed \in Agents /\ changed.spec = pass.ha.spec
  BY <1>1, <1>2 DEF BusyOK, Agents
<1>4. "secret" \in Steps /\ "secret" \notin Checked /\ "secret" \notin Writes
  BY DEF Steps, Writes, Checked
<1>5. ReadsOK("secret", InputsOff(pass.ha.spec), pass.ha.spec)
  BY DEF ReadsOK
<1> HIDE DEF changed
<1> QED BY <1>1, <1>3, <1>4, <1>5, RecordStep

\* Where a pass goes after the Secret loop.
LEMMA NextSteps ==
    /\ AfterRecord \in Checked /\ AfterRecord \in Steps /\ AfterRecord \notin Writes
    /\ AfterSecret \in Checked /\ AfterSecret \in Steps /\ AfterSecret \notin Writes
    /\ \A inputs : /\ ReadsOK(AfterRecord, inputs, pass.ha.spec)
                   /\ ReadsOK(AfterSecret, inputs, pass.ha.spec)
BY DEF AfterRecord, AfterSecret, Checked, Steps, Writes, ReadsOK

LEMMA SecretStep ==
    ASSUME IInv, reconcileEgressSecret, UNCHANGED <<seen, cache, budget>>
    PROVE  IInv'
<1> DEFINE spec == pass.ha.spec
           existing == cache[EgressName]
           keys == CredentialKeysOf(spec, cache)
           creds == Present(spec, keys)
<1>1. /\ BusyOK /\ UNCHANGED Stored /\ agent' = agent /\ queued \in BOOLEAN /\ AgentOK
      /\ spec \in Specs /\ spec.on \in BOOLEAN
  BY BusyUnlessIdle, SpecsAssumption
  DEF reconcileEgressSecret, IInv, AgentOK, Stored, BusyOK, Agents
<1>2. CASE spec.on /\ ~Accepted(spec, cache)
  <2>1. End(TRUE)
    BY <1>2 DEF reconcileEgressSecret
  <2> QED BY <1>1, <2>1, Ended, PassOnly
<1>3. CASE ~(spec.on /\ ~Accepted(spec, cache))
  <2>1. spec.on => ValidateEgressPorts(spec) /\ Resolvable(spec, keys)
    BY <1>3 DEF Accepted
  <2>2. /\ queued' = queued
        /\ \/ \E at \in Writes :
                 /\ spec.on
                 /\ pass' = [pass EXCEPT !.at = at, !.existing = existing,
                                         !.creds = creds, !.keys = keys]
           \/ \E at \in {"delete Secret", AfterSecret} : pass' = [pass EXCEPT !.at = at]
    <3> DEFINE outdated == existing.data # buildEgressSecret(creds, keys, existing, Fresh)
               next == IF ~spec.on
                       THEN IF Exists(existing) THEN "delete Secret" ELSE AfterSecret
                       ELSE IF ~Exists(existing) THEN "create Secret"
                       ELSE IF outdated THEN "update Secret" ELSE AfterSecret
    <3>1. /\ queued' = queued
          /\ pass' = IF next \in {"create Secret", "update Secret"}
                     THEN [pass EXCEPT !.at = next, !.existing = existing,
                                       !.creds = creds, !.keys = keys]
                     ELSE [pass EXCEPT !.at = next]
      BY <1>3 DEF reconcileEgressSecret
    <3>2. CASE ~spec.on
      <4>1. next = "delete Secret" \/ next = AfterSecret
        BY <3>2
      <4>2. "delete Secret" \notin Writes
        BY DEF Writes
      <4> HIDE DEF next
      <4> QED BY <3>1, <4>1, <4>2, NextSteps DEF Writes
    <3>3. CASE spec.on
      <4>1. next = "create Secret" \/ next = "update Secret" \/ next = AfterSecret
        BY <3>3
      <4> HIDE DEF next
      <4> QED BY <3>1, <3>3, <4>1, NextSteps DEF Writes
    <3> QED BY <1>1, <3>2, <3>3
  <2>3. ASSUME NEW at \in Writes, spec.on,
               pass' = [pass EXCEPT !.at = at, !.existing = existing,
                                    !.creds = creds, !.keys = keys]
        PROVE  BusyOK'
    <3>1. /\ pass'.at = at /\ pass'.inputs = pass.inputs /\ pass'.ha = pass.ha
          /\ pass'.existing = existing /\ pass'.creds = creds
          /\ pass' = [at |-> pass'.at, ha |-> pass'.ha, existing |-> pass'.existing,
                      creds |-> pass'.creds, keys |-> pass'.keys, inputs |-> pass'.inputs]
      BY <1>1, <2>3 DEF BusyOK
    <3>2. at \in Steps /\ at \in Checked
      BY <2>3 DEF Steps, Checked
    <3>3. Disjoint(creds)
      BY <1>1, <2>1, <2>3, PresentDisjoint
    <3>4. Coherent(pass.existing)'
      <4>1. Coherent(existing)
        BY DEF IInv, SecretsOK
      <4> QED BY <4>1, <3>1, <1>1 DEF Coherent, Stored
    <3>5. ReadsOK(at, pass.inputs, spec)
      BY <2>3 DEF ReadsOK, Writes
    <3> QED BY <1>1, <2>1, <2>3, <3>1, <3>2, <3>3, <3>4, <3>5 DEF BusyOK
  <2>4. ASSUME NEW at, at \in {"delete Secret", AfterSecret}, pass' = [pass EXCEPT !.at = at]
        PROVE  BusyOK'
    <3>1. at \in Steps /\ at \notin Writes
      BY <2>4, NextSteps DEF Steps, Checked, Writes
    <3>2. ReadsOK(at, pass.inputs, spec)
      <4>1. ReadsOK("delete Secret", pass.inputs, spec)
        BY DEF ReadsOK
      <4> QED BY <2>4, <4>1, NextSteps
    <3>3. GoTo(at)
      BY <2>2, <2>4 DEF GoTo
    <3> QED BY <1>1, <2>1, <3>1, <3>2, <3>3, GoneTo
  <2>5. BusyOK'
    BY <2>2, <2>3, <2>4
  <2> QED BY <1>1, <2>2, <2>5, PassOnly DEF PassOK
<1> QED BY <1>2, <1>3

\* After the egress Secret was written.
LEMMA WrittenStep ==
    ASSUME IInv, BusyOK, pass.at \in Writes, WrittenSecret, agent' = agent
    PROVE  PassOK' /\ queued' \in BOOLEAN
<1>1. pass' = [NewPass(pass.ha) EXCEPT !.at = AfterSecret] /\ queued' = queued
  BY DEF WrittenSecret
<1>2. pass.ha \in Agents /\ pass.ha.rv <= agent'.rv
  BY DEF BusyOK
<1>3. pass.ha.spec.on => ValidateEgressPorts(pass.ha.spec)
  BY DEF BusyOK, Checked
<1>4. BusyOK'
  BY <1>1, <1>2, <1>3, NextSteps, Renewed
<1> QED BY <1>1, <1>4 DEF PassOK, IInv, AgentOK

\* The agent and the template are left alone, versions grow.
LEMMA OthersKept ==
    ASSUME IInv, agent' = agent, seen' = seen, template' = template,
           queued' \in BOOLEAN, rev' \in Nat, rev <= rev'
    PROVE  AgentOK' /\ TemplateOK'
BY DEF IInv, AgentOK, TemplateOK, TemplateComplete, Agents, SecretsOK

LEMMA EgressWriteStep ==
    ASSUME IInv, deleteEgress \/ createEgress \/ updateEgress,
           UNCHANGED <<seen, cache, budget>>
    PROVE  IInv'
<1>1. /\ BusyOK /\ agent' = agent /\ template' = template /\ seen' = seen /\ cache' = cache
      /\ SecretsOK /\ rev \in Nat /\ rev <= rev /\ rev <= rev + 1 /\ rev + 1 \in Nat
  <2>1. pass.at # "idle" /\ agent' = agent /\ template' = template
    BY DEF deleteEgress, createEgress, updateEgress
  <2>2. SecretsOK /\ PassOK /\ rev \in Nat
    BY DEF IInv, SecretsOK
  <2>3. rev <= rev /\ rev <= rev + 1 /\ rev + 1 \in Nat
    BY <2>2
  <2> QED BY <2>1, <2>2, <2>3, BusyUnlessIdle
<1>2. SecretsOK' /\ PassOK' /\ queued' \in BOOLEAN /\ rev' \in Nat /\ rev <= rev'
  <2>1. CASE deleteEgress
    <3>1. Delete(EgressName) /\ GoTo(AfterSecret) /\ rev' = rev
      BY <2>1 DEF deleteEgress, Delete
    <3>2. SecretsOK'
      BY <1>1, <3>1, DeleteKeeps, NamesDiffer
    <3>3. pass.ha.spec.on => ValidateEgressPorts(pass.ha.spec)
      BY <1>1, <2>1 DEF deleteEgress, BusyOK, Checked
    <3>4. BusyOK' /\ queued' = queued
      BY <1>1, <3>1, <3>3, NextSteps, GoneTo
    <3> QED BY <1>1, <3>1, <3>2, <3>4 DEF PassOK, IInv, AgentOK
  <2>2. CASE End(TRUE) /\ api' = api /\ rev' = rev
    <3>1. SecretsOK'
      BY <1>1, <2>2, SecretsKept
    <3> QED BY <1>1, <2>2, <3>1, Ended DEF IInv
  <2>3. ASSUME NEW existing, WellBuilt(existing.data), pass.at \in Writes, WrittenSecret,
               Put(EgressName, buildEgressSecret(pass.creds, pass.keys, existing, Fresh))
        PROVE  SecretsOK' /\ PassOK' /\ queued' \in BOOLEAN /\ rev' \in Nat /\ rev <= rev'
    <3> DEFINE data == buildEgressSecret(pass.creds, pass.keys, existing, Fresh)
    <3>1. Disjoint(pass.creds) /\ Fresh \in Nat
      BY <1>1, <2>3 DEF BusyOK, Fresh
    <3>2. data.kind = "egress" /\ WellBuilt(data)
      BY <2>3, <3>1, BuiltWell
    <3>3. Put(EgressName, data) /\ rev' = rev + 1
      BY <2>3 DEF Put, Fresh
    <3> HIDE DEF data
    <3>4. data.kind # "nothing"
      BY <3>2
    <3>5. SecretsOK'
      BY <1>1, <3>2, <3>3, <3>4, PutKeeps, NamesDiffer
    <3>6. PassOK' /\ queued' \in BOOLEAN
      BY <1>1, <2>3, WrittenStep
    <3> QED BY <1>1, <3>3, <3>5, <3>6
  <2>4. CASE createEgress
    <3>1. WellBuilt(NoSecret.data) /\ pass.at \in Writes
      BY <2>4 DEF WellBuilt, NoSecret, Nothing, createEgress, Writes
    <3>2. \/ End(TRUE) /\ api' = api /\ rev' = rev
          \/ /\ WrittenSecret
             /\ Put(EgressName, buildEgressSecret(pass.creds, pass.keys, NoSecret, Fresh))
      BY <2>4 DEF createEgress
    <3> QED BY <2>2, <2>3, <3>1, <3>2
  <2>5. CASE updateEgress
    <3>1. pass.at \in Writes
      BY <2>5 DEF updateEgress, Writes
    <3>2. WellBuilt(pass.existing.data)
      BY <1>1, <3>1 DEF BusyOK, Coherent
    <3>3. \/ End(TRUE) /\ api' = api /\ rev' = rev
          \/ /\ WrittenSecret
             /\ Put(EgressName,
                    buildEgressSecret(pass.creds, pass.keys, pass.existing, Fresh))
      BY <2>5 DEF updateEgress
    <3> QED BY <2>2, <2>3, <3>1, <3>2, <3>3
  <2> QED BY <2>1, <2>4, <2>5
<1> QED BY <1>1, <1>2, OthersKept DEF IInv

LEMMA RecordSecretStep ==
    ASSUME IInv, recordEgressSecret, UNCHANGED <<seen, cache, budget>>
    PROVE  IInv'
<1> DEFINE changed == [pass.ha EXCEPT !.egress = pass.ha.spec.on]
<1>1. BusyOK /\ Record(changed, AfterRecord) /\ pass.at \in Checked
  BY BusyUnlessIdle DEF recordEgressSecret, IInv, Checked
<1>2. changed \in Agents /\ changed.spec = pass.ha.spec
  BY <1>1, SpecsAssumption DEF BusyOK, Agents
<1>3. pass.ha.spec.on => ValidateEgressPorts(pass.ha.spec)
  BY <1>1 DEF BusyOK
<1> HIDE DEF changed
<1> QED BY <1>1, <1>2, <1>3, NextSteps, RecordStep

\* A read that finds its Secret, or ends the pass.
LEMMA ReadStep ==
    ASSUME IInv, NEW at, NEW name, NEW next, NEW inputs, ReadInput(at, name, next, inputs),
           at \in Checked, next \in Checked, next \notin Writes,
           InputsOK(inputs, pass.ha.spec),
           name # NoRef /\ Exists(cache[name]) => ReadsOK(next, inputs, pass.ha.spec),
           name = NoRef => ReadsOK(next, inputs, pass.ha.spec),
           UNCHANGED <<seen, cache, budget>>
    PROVE  IInv'
<1>1. BusyOK /\ UNCHANGED Stored /\ agent' = agent /\ queued \in BOOLEAN /\ AgentOK
  <2>1. pass.at \in Checked /\ PassOK
    BY DEF ReadInput, IInv
  <2>2. "idle" \notin Checked
    BY DEF Checked, Writes
  <2> QED BY <2>1, <2>2, BusyUnlessIdle DEF ReadInput, Stored, IInv, AgentOK
<1>2. CASE End(TRUE)
  BY <1>1, <1>2, Ended, PassOnly
<1>3. CASE ~End(TRUE)
  <2>1. /\ pass' = [pass EXCEPT !.at = next, !.inputs = inputs] /\ queued' = queued
        /\ ReadsOK(next, inputs, pass.ha.spec)
    BY <1>3 DEF ReadInput
  <2>2. pass.ha.spec.on => ValidateEgressPorts(pass.ha.spec)
    BY <1>1 DEF BusyOK, ReadInput
  <2>3. next \in Steps
    BY DEF Steps
  <2>4. BusyOK'
    BY <1>1, <2>1, <2>2, <2>3, Moved
  <2> QED BY <1>1, <2>1, <2>4, PassOnly DEF PassOK
<1> QED BY <1>2, <1>3

LEMMA InputsSpec ==
    ASSUME NEW inputs, NEW spec, InputsOK(inputs, spec)
    PROVE  inputs.spec = spec /\ inputs.egress.kind \in {"nothing", "egress"}
BY DEF InputsOK

\* Inputs get one field after another.
LEMMA InputsCA ==
    ASSUME NEW inputs, NEW spec, InputsOK(inputs, spec), NEW ca
    PROVE  InputsOK([inputs EXCEPT !.ca = ca], spec)
BY DEF InputsOK

LEMMA InputsEgress ==
    ASSUME NEW inputs, NEW spec, InputsOK(inputs, spec), NEW egress,
           egress.kind \in {"nothing", "egress"}
    PROVE  /\ InputsOK([inputs EXCEPT !.egress = egress], spec)
           /\ [inputs EXCEPT !.egress = egress].egress = egress
BY DEF InputsOK

LEMMA InputsCreds ==
    ASSUME NEW inputs, NEW spec, InputsOK(inputs, spec), NEW creds
    PROVE  /\ InputsOK([inputs EXCEPT !.creds = creds], spec)
           /\ [inputs EXCEPT !.creds = creds].creds = creds
           /\ [inputs EXCEPT !.creds = creds].egress = inputs.egress
BY DEF InputsOK

LEMMA ReadCAStep ==
    ASSUME IInv, readCA, UNCHANGED <<seen, cache, budget>>
    PROVE  IInv'
<1> DEFINE source == CASource(pass.ha.spec)
           inputs == [pass.inputs EXCEPT !.ca = Certificate(pass.ha.spec, cache[source])]
<1>1. ReadInput("read CA", source, "read Secret", inputs) /\ BusyOK
  BY BusyUnlessIdle DEF readCA, ReadInput, IInv
<1>2. "read CA" \in Checked /\ "read Secret" \in Checked /\ "read Secret" \notin Writes
  BY DEF Checked, Writes
<1>3. InputsOK(inputs, pass.ha.spec)
  BY <1>1, InputsCA DEF BusyOK
<1> HIDE DEF source, inputs
<1>4. ReadsOK("read Secret", inputs, pass.ha.spec)
  BY DEF ReadsOK
<1> QED BY <1>1, <1>2, <1>3, <1>4, ReadStep

LEMMA ReadEgressStep ==
    ASSUME IInv, readEgress, UNCHANGED <<seen, cache, budget>>
    PROVE  IInv'
<1> DEFINE inputs == [pass.inputs EXCEPT !.egress = cache[EgressName].data]
<1>1. ReadInput("read Secret", EgressName, "read keys", inputs) /\ BusyOK
  BY BusyUnlessIdle DEF readEgress, ReadInput, IInv
<1>2. "read Secret" \in Checked /\ "read keys" \in Checked /\ "read keys" \notin Writes
  BY DEF Checked, Writes
<1>3. /\ cache[EgressName].data.kind \in {"nothing", "egress"}
      /\ Exists(cache[EgressName]) => cache[EgressName].data.kind = "egress"
  BY DEF IInv, SecretsOK, Coherent, NoSecret, Nothing
<1>4. InputsOK(inputs, pass.ha.spec) /\ inputs.egress = cache[EgressName].data
  <2>1. InputsOK(pass.inputs, pass.ha.spec)
    BY <1>1 DEF BusyOK
  <2>2. cache[EgressName].data.kind \in {"nothing", "egress"}
    BY <1>3
  <2> QED BY <2>1, <2>2, InputsEgress
<1> HIDE DEF inputs
<1>5. Exists(cache[EgressName]) => ReadsOK("read keys", inputs, pass.ha.spec)
  BY <1>3, <1>4 DEF ReadsOK
<1>6. EgressName # NoRef
  BY DEF EgressName, NoRef
<1> QED BY <1>1, <1>2, <1>4, <1>5, <1>6, ReadStep

LEMMA ReadCredentialsStep ==
    ASSUME IInv, readCredentials, UNCHANGED <<seen, cache, budget>>
    PROVE  IInv'
<1> DEFINE spec == pass.ha.spec
           name == spec.creds
           inputs == IF name = NoRef THEN pass.inputs
                     ELSE [pass.inputs EXCEPT !.creds = cache[name].data]
<1>1. /\ ReadInput("read keys", name, "write template", inputs) /\ BusyOK
      /\ pass.at = "read keys" /\ spec \in Specs
  <2>1. pass.at = "read keys" /\ ReadInput("read keys", name, "write template", inputs)
    BY DEF readCredentials, ReadInput
  <2> QED BY <2>1, BusyUnlessIdle DEF IInv, BusyOK, Agents
<1>2. "read keys" \in Checked /\ "write template" \in Checked /\ "write template" \notin Writes
  BY DEF Checked, Writes
<1>3. /\ InputsOK(inputs, spec) /\ inputs.egress = pass.inputs.egress
      /\ name # NoRef => inputs.creds = cache[name].data
  BY <1>1, InputsCreds DEF BusyOK
<1>4. name # NoRef => name \in SecretNames
  BY <1>1, SpecsAssumption
<1>5. name # NoRef /\ Exists(cache[name]) => cache[name].data # Nothing
  BY <1>4 DEF IInv, SecretsOK, SecretOK, Nothing
<1>6. spec.on => pass.inputs.egress.kind = "egress"
  BY <1>1 DEF BusyOK, ReadsOK
<1> HIDE DEF inputs
<1>7. (name # NoRef => Exists(cache[name])) => ReadsOK("write template", inputs, spec)
  BY <1>3, <1>5, <1>6 DEF ReadsOK
<1> QED BY <1>1, <1>2, <1>3, <1>7, ReadStep

LEMMA TemplateStep ==
    ASSUME IInv, writeTemplate, UNCHANGED <<seen, cache, budget>>
    PROVE  IInv'
<1>1. BusyOK /\ pass.at = "write template" /\ template' = pass.inputs /\ End(FALSE)
  BY BusyUnlessIdle DEF writeTemplate, IInv
<1>0. agent' = agent /\ api' = api /\ rev' = rev /\ seen' = seen /\ cache' = cache
  BY DEF writeTemplate
<1>2. /\ pass.inputs.spec = pass.ha.spec
      /\ pass.inputs.egress.kind \in {"nothing", "egress"}
  BY <1>1, InputsSpec DEF BusyOK
<1>3. pass.ha.spec.on => /\ pass.inputs.egress.kind = "egress"
                         /\ pass.ha.spec.creds # NoRef => pass.inputs.creds # Nothing
                         /\ ValidateEgressPorts(pass.ha.spec)
  BY <1>1 DEF BusyOK, ReadsOK, Checked
<1>4. TemplateOK'
  BY <1>1, <1>2, <1>3 DEF TemplateOK, TemplateComplete, ValidateEgressPorts
<1>5. SecretsOK'
  <2>1. SecretsOK /\ rev \in Nat
    BY DEF IInv, SecretsOK
  <2>2. rev' \in Nat /\ rev <= rev'
    BY <1>0, <2>1
  <2> QED BY <1>0, <2>1, <2>2, SecretsKept
<1>6. PassOK' /\ queued' \in BOOLEAN
  BY <1>1, Ended DEF IInv
<1>7. AgentOK'
  BY <1>0, <1>6 DEF IInv, AgentOK
<1> QED BY <1>4, <1>5, <1>6, <1>7 DEF IInv

LEMMA PassStep ==
    ASSUME IInv, Pass
    PROVE  IInv'
BY StartStep, CAStep, CAWriteStep, RecordCAStep, SecretStep, EgressWriteStep, RecordSecretStep,
   ReadCAStep, ReadEgressStep, ReadCredentialsStep, TemplateStep DEF Pass

\* A cache catches up: the copy is the Secret itself.
LEMMA SyncStep ==
    ASSUME IInv, Sync
    PROVE  IInv'
<1>1. CASE SyncAgent
  <2>1. /\ seen' = agent /\ queued' = TRUE /\ agent' = agent /\ api' = api /\ cache' = cache
        /\ rev' = rev /\ template' = template /\ pass' = pass
    BY <1>1 DEF SyncAgent
  <2>2. SecretsOK /\ rev' \in Nat /\ rev <= rev'
    BY <2>1 DEF IInv, SecretsOK
  <2>3. SecretsOK' /\ CopiesStay
    BY <2>1, <2>2, SecretsKept
  <2>4. agent.rv <= agent.rv
    BY DEF IInv, AgentOK, Agents
  <2>5. PassOK'
    BY <2>1, <2>3, <2>4, PassKept DEF IInv, AgentOK
  <2>6. AgentOK' /\ TemplateOK'
    BY <2>1, <2>4 DEF IInv, AgentOK, TemplateOK, TemplateComplete
  <2> QED BY <2>3, <2>5, <2>6 DEF IInv
<1>2. ASSUME NEW n \in SecretNames, SyncSecret(n)
      PROVE  IInv'
  <2>1. /\ cache' = [cache EXCEPT ![n] = api[n]] /\ seen' = seen /\ agent' = agent
        /\ api' = api /\ rev' = rev /\ template' = template /\ pass' = pass
        /\ queued' \in BOOLEAN
    BY <1>2 DEF SyncSecret
  <2>2. CopiesStay
    BY <2>1 DEF CopiesStay, Coherent
  <2>3. SecretsOK /\ rev' \in Nat /\ rev <= rev' /\ cache = [m \in SecretNames |-> cache[m]]
    BY <2>1 DEF IInv, SecretsOK
  <2>4. \A m \in SecretNames : cache'[m] = cache[m] \/ cache'[m] = api[m]
    BY <2>1, <2>3
  <2>5. Coherent(api[EgressName])' /\ Coherent(cache[EgressName])'
    BY <2>1, <2>3, <2>4, NamesDiffer DEF SecretsOK, Coherent
  <2>6. \A m \in SecretNames : SecretOK(api[m])' /\ SecretOK(cache[m])'
    BY <2>1, <2>3, <2>4 DEF SecretsOK, SecretOK
  <2>7. cache' = [m \in SecretNames |-> cache'[m]] /\ api' = [m \in SecretNames |-> api'[m]]
    BY <2>1, <2>3 DEF SecretsOK
  <2>8. SecretsOK'
    BY <2>3, <2>5, <2>6, <2>7 DEF SecretsOK
  <2>9. agent.rv <= agent.rv
    BY DEF IInv, AgentOK, Agents
  <2>10. PassOK'
    BY <2>1, <2>2, <2>9, PassKept DEF IInv, AgentOK
  <2>11. AgentOK' /\ TemplateOK'
    BY <2>1, <2>3, OthersKept
  <2> QED BY <2>8, <2>10, <2>11 DEF IInv
<1> QED BY <1>1, <1>2 DEF Sync

\* Users and faults leave the egress Secret alone or delete it.
LEMMA UserStep ==
    ASSUME IInv, User
    PROVE  IInv'
<1> SecretsOK /\ AgentOK /\ PassOK /\ rev \in Nat
  BY DEF IInv, SecretsOK
<1>1. ASSUME NEW s \in Specs, EditSpec(s)
      PROVE  IInv'
  <2>1. /\ agent' = [agent EXCEPT !.spec = s, !.rv = rev + 1] /\ rev' = rev + 1
        /\ seen' = seen /\ api' = api /\ cache' = cache /\ template' = template
        /\ pass' = pass /\ queued' = queued
    BY <1>1 DEF EditSpec, Fresh
  <2>2. agent' \in Agents /\ agent'.rv = rev + 1
    <3>1. rev + 1 \in Nat
      OBVIOUS
    <3> QED BY <2>1, <3>1 DEF AgentOK, Agents
  <2>3. /\ agent.rv <= agent'.rv /\ seen'.rv <= agent'.rv /\ agent'.rv <= rev'
        /\ rev' \in Nat /\ rev <= rev'
    BY <2>1, <2>2 DEF AgentOK, Agents
  <2>4. SecretsOK' /\ CopiesStay
    BY <2>1, <2>3, SecretsKept
  <2>5. PassOK'
    BY <2>1, <2>2, <2>3, <2>4, PassKept
  <2>6. AgentOK' /\ TemplateOK'
    BY <2>1, <2>2, <2>3 DEF IInv, AgentOK, TemplateOK, TemplateComplete
  <2> QED BY <2>4, <2>5, <2>6 DEF IInv
<1>2. ASSUME UNCHANGED <<agent, seen, cache, template, pass, queued>>,
             SecretsOK', CopiesStay, rev' \in Nat, rev <= rev'
      PROVE  IInv'
  <2>1. agent.rv <= agent.rv
    BY DEF AgentOK, Agents
  <2>2. PassOK'
    BY <1>2, <2>1, PassKept DEF AgentOK
  <2>3. queued' \in BOOLEAN
    BY <1>2 DEF AgentOK
  <2> QED BY <1>2, <2>2, <2>3, OthersKept DEF IInv
<1>3. ASSUME NEW n \in SecretNames \ {EgressName}, NEW data, data.kind # "nothing",
             PutSecret(n, data)
      PROVE  IInv'
  <2>1. Put(n, data) /\ UNCHANGED <<agent, seen, cache, template, pass, queued>>
        /\ rev' = rev + 1
    BY <1>3 DEF PutSecret, Put, Fresh
  <2>2. SecretsOK' /\ CopiesStay
    BY <1>3, <2>1, PutKeeps
  <2>3. rev' \in Nat /\ rev <= rev'
    BY <2>1
  <2> QED BY <1>2, <2>1, <2>2, <2>3
<1>4. ASSUME NEW n \in SecretNames, DeleteSecret(n)
      PROVE  IInv'
  <2>1. Delete(n) /\ UNCHANGED <<agent, seen, cache, template, pass, queued>> /\ rev' = rev
    BY <1>4 DEF DeleteSecret, Delete
  <2>2. SecretsOK' /\ CopiesStay
    BY <1>4, <2>1, DeleteKeeps
  <2>3. rev' \in Nat /\ rev <= rev'
    BY <2>1
  <2> QED BY <1>2, <2>1, <2>2, <2>3
<1>5. ASSUME NEW n \in CASecrets \cup {CAName}, NEW valid \in BOOLEAN, PutUserCA(n, valid)
      PROVE  IInv'
  <2>1. n \in SecretNames \ {EgressName}
    BY <1>5, NamesAssumption, NamesDiffer DEF SecretNames, UserSecrets
  <2>2. UserCA(valid, Fresh).kind # "nothing" /\ PutSecret(n, UserCA(valid, Fresh))
    BY <1>5 DEF PutUserCA, UserCA
  <2> QED BY <1>3, <2>1, <2>2
<1>6. ASSUME NEW n \in KeySecrets, NEW keys \in CredentialKeys, PutCredentials(n, keys)
      PROVE  IInv'
  <2>1. n \in SecretNames \ {EgressName}
    BY <1>6, NamesAssumption DEF SecretNames, UserSecrets
  <2>2. Keys(keys, Fresh).kind # "nothing" /\ PutSecret(n, Keys(keys, Fresh))
    BY <1>6 DEF PutCredentials, Keys
  <2> QED BY <1>3, <2>1, <2>2
<1> QED BY <1>1, <1>4, <1>5, <1>6 DEF User

LEMMA FaultStep ==
    ASSUME IInv, Fail \/ Restart
    PROVE  IInv'
<1> SecretsOK /\ AgentOK /\ PassOK /\ rev \in Nat
  BY DEF IInv, SecretsOK
<1>1. CASE Fail
  BY <1>1, Ended, PassOnly DEF Fail
<1>2. CASE Restart
  <2>1. /\ seen' = agent /\ cache' = api /\ pass' = Idle /\ queued' = TRUE
        /\ agent' = agent /\ api' = api /\ rev' = rev /\ template' = template
    BY <1>2 DEF Restart, Stored
  <2>2. SecretsOK'
    BY <2>1 DEF SecretsOK, SecretOK, Coherent
  <2>3. AgentOK' /\ TemplateOK' /\ PassOK'
    BY <2>1 DEF IInv, AgentOK, Agents, TemplateOK, TemplateComplete, PassOK
  <2> QED BY <2>2, <2>3 DEF IInv
<1> QED BY <1>1, <1>2

-----------------------------------------------------------------------------
(* The theorems.                                                           *)

LEMMA InitOK == Init => IInv
<1> SUFFICES ASSUME Init PROVE IInv
  OBVIOUS
<1>1. /\ rev = 1 /\ cache = api
      /\ api = [n \in SecretNames |-> IF n \in UserSecrets THEN [rv |-> 1, data |-> Given[n]]
                                      ELSE NoSecret]
  BY DEF Init
<1>2. \A n \in SecretNames :
         api[n] = IF n \in UserSecrets THEN [rv |-> 1, data |-> Given[n]] ELSE NoSecret
  BY <1>1
<1>3. ASSUME NEW n \in SecretNames PROVE SecretOK(api[n])
  <2>1. CASE n \in UserSecrets
    <3>0. api[n] = [rv |-> 1, data |-> Given[n]]
      BY <1>2, <2>1
    <3>1. api[n].rv = 1 /\ api[n].data = Given[n]
      BY <3>0
    <3>2. Given[n].kind # "nothing"
      BY <2>1, NamesAssumption
    <3> QED BY <1>1, <3>1, <3>2 DEF SecretOK
  <2>2. CASE n \notin UserSecrets
    BY <1>1, <1>2, <2>2 DEF SecretOK, Exists, NoSecret
  <2> QED BY <2>1, <2>2
<1>4. api[EgressName] = NoSecret
  BY <1>2, NamesAssumption, NamesDiffer
<1>5. Coherent(api[EgressName])
  BY <1>1, <1>4 DEF Coherent, Exists, WellBuilt, NoSecret, Nothing
<1>6. SecretsOK
  BY <1>1, <1>3, <1>5 DEF SecretsOK
<1>7. AgentOK
  <2>1. PICK s \in InitSpecs : agent = [spec |-> s, rv |-> 1, ca |-> FALSE, egress |-> FALSE]
    BY DEF Init
  <2>2. s \in Specs
    BY <2>1, SpecsAssumption
  <2>3. agent \in Agents /\ agent.rv = 1
    BY <2>1, <2>2 DEF Agents
  <2>4. seen = agent /\ queued = TRUE
    BY DEF Init
  <2> QED BY <1>1, <2>3, <2>4 DEF AgentOK
<1>8. TemplateOK
  BY DEF Init, TemplateOK, TemplateComplete, NoTemplate, InputsOff, Inputs, Nothing
<1>9. PassOK
  BY DEF Init, PassOK
<1> QED BY <1>6, <1>7, <1>8, <1>9 DEF IInv

LEMMA NextOK == IInv /\ [Next]_vars => IInv'
<1> SUFFICES ASSUME IInv, [Next]_vars PROVE IInv'
  OBVIOUS
<1>1. CASE UNCHANGED vars
  <2>1. UNCHANGED Stored /\ UNCHANGED <<seen, cache>> /\ pass' = pass /\ queued' = queued
    BY <1>1 DEF vars, Stored
  <2>2. CopiesStay
    BY <2>1 DEF CopiesStay, Coherent, Stored
  <2>3. agent' \in Agents /\ agent.rv <= agent'.rv /\ queued' \in BOOLEAN
    BY <2>1 DEF Stored, IInv, AgentOK, Agents
  <2>4. PassOK'
    BY <2>1, <2>2, <2>3, PassKept DEF IInv
  <2> QED BY <2>1, <2>3, <2>4, PassOnly
<1>2. CASE Next
  BY <1>2, PassStep, SyncStep, UserStep, FaultStep DEF Next
<1> QED BY <1>1, <1>2

\* The invariant holds throughout.
THEOREM EgressInductive == Spec => []IInv
BY InitOK, NextOK, PTL DEF Spec

\* Type correctness: among the rest, no copy of a Secret or of the agent that the
\* operator holds is ahead of the API server, whatever is edited, deleted or lost.
THEOREM EgressTypeCorrect == Spec => []TypeOK
<1>1. IInv => TypeOK
  <2> SUFFICES ASSUME IInv PROVE TypeOK
    OBVIOUS
  <2>1. agent.spec \in Specs /\ seen.spec \in Specs /\ queued \in BOOLEAN
    BY DEF IInv, AgentOK, Agents
  <2>2. pass.at # "idle" => pass.ha.spec \in Specs /\ pass.ha.rv <= agent.rv
    BY BusyUnlessIdle DEF IInv, BusyOK, Agents
  <2>3. \A n \in SecretNames : api[n].rv \in 0..rev /\ cache[n].rv \in 0..rev
    BY DEF IInv, SecretsOK, SecretOK
  <2>4. template.egress.kind \in {"nothing", "egress"}
    BY DEF IInv, TemplateOK
  <2> QED BY <2>1, <2>2, <2>3, <2>4 DEF TypeOK
<1> QED BY <1>1, EgressInductive, PTL

\* The agent and the proxy agree on every token, for any credentials, aliases and
\* history of the Secret.
THEOREM TokensInStep == Spec => []TokensAgree
<1>1. IInv => TokensAgree
  BY DEF IInv, SecretsOK, Coherent, WellBuilt, TokensAgree
<1> QED BY <1>1, EgressInductive, PTL

\* No request matches the rules of two credentials: the pairwise check that
\* checkCredentialClaims makes of the patterns is enough, wildcards included.
THEOREM RulesDisjoint == Spec => []OneRulePerRequest
<1>1. IInv => OneRulePerRequest
  <2> SUFFICES ASSUME IInv PROVE OneRulePerRequest
    OBVIOUS
  <2> DEFINE data == api[EgressName].data
  <2>1. WellBuilt(data)
    BY DEF IInv, SecretsOK, Coherent
  <2>2. CASE data.kind # "egress"
    BY <2>2 DEF OneRulePerRequest, Proxy
  <2>3. CASE data.kind = "egress"
    <3>1. Proxy(api[EgressName]) = data.proxy
      BY <2>3 DEF Proxy
    <3>2. ASSUME NEW m \in DOMAIN data.proxy, NEW n \in DOMAIN data.proxy,
                 NEW h \in data.proxy[m].hosts, NEW g \in data.proxy[n].hosts, m # n
          PROVE  ~Matches(g, Request(h))
      <4>1. h \in Hosts /\ g \in Hosts /\ ~hostsOverlap(h, g)
        BY <2>1, <2>3, <3>2 DEF WellBuilt
      <4> QED BY <4>1, NoCommonRequest
    <3> QED BY <3>1, <3>2 DEF OneRulePerRequest
  <2> QED BY <2>2, <2>3
<1> QED BY <1>1, EgressInductive, PTL

\* No Pod is rolled out without the Secrets it reads.
THEOREM TemplatesComplete == Spec => []TemplateComplete
<1>1. IInv => TemplateComplete
  BY DEF IInv, TemplateOK
<1> QED BY <1>1, EgressInductive, PTL

-----------------------------------------------------------------------------
(* The refinement.                                                         *)

\* The tokens in a Secret's proxy.yaml.
TokensIn(secret) ==
    [c \in EnvVars |-> IF c \in DOMAIN Proxy(secret) THEN Proxy(secret)[c].token ELSE NoToken]

LEMMA IssuedIn == IssuedTokens = TokensIn(api[EgressName])
BY DEF IssuedTokens, TokensIn

LEMMA TokensInSecret ==
    ASSUME NEW secret, WellBuilt(secret.data)
    PROVE  /\ TokensIn(secret) \in [EnvVars -> TokenValues \cup {NoToken}]
           /\ secret.data.kind # "egress" => TokensIn(secret) = [c \in EnvVars |-> NoToken]
           /\ secret.data.kind = "egress" =>
                 \A c \in EnvVars : TokensIn(secret)[c] # NoToken =>
                                       secret.data.tokens[c] = TokensIn(secret)[c]
<1> DEFINE proxy == Proxy(secret)
<1>1. TokensIn(secret) = [c \in EnvVars |-> IF c \in DOMAIN proxy THEN proxy[c].token ELSE NoToken]
  BY DEF TokensIn
<1>2. CASE secret.data.kind = "egress"
  <2>1. proxy = secret.data.proxy
    BY <1>2 DEF Proxy
  <2>2. \A c \in DOMAIN proxy : /\ proxy[c].token \in TokenValues
                                /\ secret.data.tokens[c] = proxy[c].token
    BY <1>2, <2>1 DEF WellBuilt
  <2> HIDE DEF proxy
  <2> QED BY <1>1, <1>2, <2>2
<1>3. CASE secret.data.kind # "egress"
  <2>1. proxy = <<>>
    BY <1>3 DEF Proxy
  <2>2. DOMAIN proxy = {}
    BY <2>1
  <2> HIDE DEF proxy
  <2> QED BY <1>1, <1>3, <2>2
<1> QED BY <1>2, <1>3

\* Without a Secret no token is issued, and a step that leaves the Secret alone or
\* takes it away issues none.
LEMMA KeptReissues ==
    ASSUME SecretsOK, api'[EgressName] \in {api[EgressName], NoSecret}
    PROVE  Issuer!Reissue
<1>1. WellBuilt(api[EgressName].data) /\ WellBuilt(NoSecret.data)
  BY DEF SecretsOK, Coherent, WellBuilt, NoSecret, Nothing
<1>2. IssuedTokens' = TokensIn(api'[EgressName])
  BY DEF IssuedTokens, TokensIn
<1>3. TokensIn(NoSecret) = [c \in EnvVars |-> NoToken]
  BY <1>1, TokensInSecret DEF NoSecret, Nothing
<1>4. CASE api'[EgressName] = api[EgressName]
  BY <1>1, <1>2, <1>4, IssuedIn, TokensInSecret DEF Issuer!Reissue
<1>5. CASE api'[EgressName] = NoSecret
  BY <1>1, <1>2, <1>3, <1>5, TokensInSecret DEF Issuer!Reissue
<1> QED BY <1>4, <1>5

\* A write of the egress Secret from the current copy, or from none when there is
\* none, takes over the tokens of the credentials that stay.
LEMMA WriteReissues ==
    ASSUME SecretsOK, SecretsOK', NEW creds, NEW keys, NEW serial,
           NEW existing, existing = api[EgressName],
           api'[EgressName].data = buildEgressSecret(creds, keys, existing, serial)
    PROVE  Issuer!Reissue
<1> DEFINE data == buildEgressSecret(creds, keys, existing, serial)
           ByName(n) == CHOOSE d \in creds : d.name = n
<1>1. WellBuilt(existing.data) /\ WellBuilt(api'[EgressName].data)
  BY DEF SecretsOK, Coherent
<1>2. /\ Proxy(api'[EgressName]) = data.proxy
      /\ IssuedTokens' = TokensIn(api'[EgressName]) /\ IssuedTokens = TokensIn(existing)
  BY DEF Proxy, buildEgressSecret, IssuedTokens, TokensIn
<1>3. /\ DOMAIN data.proxy = {c.name : c \in creds}
      /\ \A n \in DOMAIN data.proxy : data.proxy[n].token = TokenOf(ByName(n), existing, serial)
  BY DEF buildEgressSecret, buildEgressProxyYAML
<1> HIDE DEF data
<1>4. ASSUME NEW c \in EnvVars, IssuedTokens[c] # NoToken
      PROVE  IssuedTokens'[c] \in {IssuedTokens[c], NoToken}
  <2>1. IssuedTokens'[c] = IF c \in DOMAIN data.proxy THEN data.proxy[c].token ELSE NoToken
    BY <1>2 DEF TokensIn
  <2>2. existing.data.kind = "egress" /\ existing.data.tokens[c] = IssuedTokens[c]
    BY <1>1, <1>2, <1>4, TokensInSecret
  <2>3. CASE c \in DOMAIN data.proxy
    <3>1. ByName(c).name = c
      BY <1>3, <2>3
    <3>2. TokenOf(ByName(c), existing, serial) = IssuedTokens[c]
      BY <1>4, <2>2, <3>1 DEF TokenOf
    <3> QED BY <1>3, <2>1, <2>3, <3>2
  <2>4. CASE c \notin DOMAIN data.proxy
    BY <2>1, <2>4
  <2> QED BY <2>3, <2>4
<1>5. IssuedTokens' \in [EnvVars -> TokenValues \cup {NoToken}]
  BY <1>1, <1>2, TokensInSecret
<1> QED BY <1>4, <1>5 DEF Issuer!Reissue

\* Only these steps write the egress Secret, and they do so from a copy that is
\* current: a copy of the same version is the same (Coherent).
LEMMA StepReissues ==
    ASSUME IInv, IInv', [Next]_vars
    PROVE  Issuer!Reissue \/ UNCHANGED IssuedTokens
<1> SecretsOK /\ SecretsOK' /\ PassOK
  BY DEF IInv
<1> DEFINE Kept == api'[EgressName] \in {api[EgressName], NoSecret}
<1>1. CASE createEgress
  <2>1. CASE Exists(api[EgressName])
    BY <1>1, <2>1, KeptReissues DEF createEgress
  <2>2. CASE ~Exists(api[EgressName])
    <3>1. NoSecret = api[EgressName]
      BY <2>2 DEF SecretsOK, Coherent
    <3>2. api'[EgressName].data = buildEgressSecret(pass.creds, pass.keys, NoSecret, Fresh)
      <4> DEFINE data == buildEgressSecret(pass.creds, pass.keys, NoSecret, Fresh)
      <4>1. api' = [api EXCEPT ![EgressName] = [rv |-> Fresh, data |-> data]]
        BY <1>1, <2>2 DEF createEgress, Put
      <4> HIDE DEF data
      <4>2. api'[EgressName] = [rv |-> Fresh, data |-> data]
        BY <4>1, NamesDiffer DEF SecretsOK
      <4> QED BY <4>2 DEF data
    <3> QED BY <3>1, <3>2, WriteReissues
  <2> QED BY <2>1, <2>2
<1>2. CASE updateEgress
  <2>1. CASE api[EgressName].rv # pass.existing.rv
    BY <1>2, <2>1, KeptReissues DEF updateEgress
  <2>2. CASE api[EgressName].rv = pass.existing.rv
    <3>1. BusyOK /\ pass.at \in Writes
      BY <1>2, BusyUnlessIdle DEF updateEgress, Writes
    <3>2. pass.existing = api[EgressName]
      BY <2>2, <3>1 DEF BusyOK, Coherent
    <3>3. api'[EgressName].data = buildEgressSecret(pass.creds, pass.keys, pass.existing, Fresh)
      <4> DEFINE data == buildEgressSecret(pass.creds, pass.keys, pass.existing, Fresh)
      <4>1. api' = [api EXCEPT ![EgressName] = [rv |-> Fresh, data |-> data]]
        BY <1>2, <2>2 DEF updateEgress, Put
      <4> HIDE DEF data
      <4>2. api'[EgressName] = [rv |-> Fresh, data |-> data]
        BY <4>1, NamesDiffer DEF SecretsOK
      <4> QED BY <4>2 DEF data
    <3> QED BY <3>2, <3>3, WriteReissues
  <2> QED BY <2>1, <2>2
<1>3. ASSUME NEW n \in SecretNames, Delete(n)
      PROVE  Kept
  BY <1>3, NamesDiffer DEF Delete, SecretsOK
<1>4. ASSUME NEW n \in SecretNames \ {EgressName}, NEW data, Put(n, data)
      PROVE  Kept
  BY <1>4, NamesDiffer DEF Put, SecretsOK
<1>5. CASE Pass /\ ~createEgress /\ ~updateEgress
  <2>1. api' = api \/ Delete(CAName) \/ Delete(EgressName) \/ Put(CAName, ManagedCA(Fresh))
    BY <1>5 DEF Pass, Start, reconcileEgressCA, deleteCA, createCA, recordEgressCASecret,
                reconcileEgressSecret, deleteEgress, recordEgressSecret, Record,
                readCA, readEgress, readCredentials, ReadInput, writeTemplate, Stored
  <2>2. Kept
    BY <2>1, <1>3, <1>4, NamesDiffer
  <2> QED BY <2>2, KeptReissues
<1>6. CASE User
  <2>1. \/ api' = api
        \/ \E n \in SecretNames : Delete(n)
        \/ \E n \in SecretNames \ {EgressName} : \E data : Put(n, data)
    <3>1. ASSUME NEW s \in Specs, EditSpec(s) PROVE api' = api
      BY <3>1 DEF EditSpec
    <3>2. ASSUME NEW n \in CASecrets \cup {CAName}, NEW valid \in BOOLEAN, PutUserCA(n, valid)
          PROVE  n \in SecretNames \ {EgressName} /\ Put(n, UserCA(valid, Fresh))
      BY <3>2, NamesAssumption, NamesDiffer
      DEF PutUserCA, PutSecret, SecretNames, UserSecrets
    <3>3. ASSUME NEW n \in KeySecrets, NEW keys \in CredentialKeys, PutCredentials(n, keys)
          PROVE  n \in SecretNames \ {EgressName} /\ Put(n, Keys(keys, Fresh))
      BY <3>3, NamesAssumption DEF PutCredentials, PutSecret, SecretNames, UserSecrets
    <3>4. ASSUME NEW n \in SecretNames, DeleteSecret(n) PROVE Delete(n)
      BY <3>4 DEF DeleteSecret
    <3> QED BY <1>6, <3>1, <3>2, <3>3, <3>4 DEF User
  <2>2. Kept
    BY <2>1, <1>3, <1>4
  <2> QED BY <2>2, KeptReissues
<1>7. CASE Sync \/ Fail \/ Restart \/ UNCHANGED vars
  <2>1. api' = api
    BY <1>7 DEF Sync, SyncAgent, SyncSecret, Fail, Restart, Stored, vars
  <2> QED BY <2>1, KeptReissues
<1> QED BY <1>1, <1>2, <1>5, <1>6, <1>7 DEF Next

\* The operator is a token issuer: a credential's token is minted once and kept
\* for as long as the credential stays.
THEOREM ImplementsIssuer == Spec => IssuesTokens
<1>1. Init => Issuer!IssuerInit
  <2> SUFFICES ASSUME Init PROVE IssuedTokens = [c \in EnvVars |-> NoToken]
    BY DEF Issuer!IssuerInit
  <2>1. api[EgressName] = NoSecret
    BY NamesAssumption, NamesDiffer DEF Init
  <2>2. WellBuilt(NoSecret.data) /\ NoSecret.data.kind # "egress"
    BY DEF WellBuilt, NoSecret, Nothing
  <2> QED BY <2>1, <2>2, IssuedIn, TokensInSecret
<1>2. IInv /\ IInv' /\ [Next]_vars => [Issuer!Reissue]_IssuedTokens
  BY StepReissues
<1> QED BY <1>1, <1>2, EgressInductive, PTL DEF Spec, IssuesTokens, Issuer!IssuerSpec
=============================================================================
