--------------------------- MODULE SnapshotProofs ---------------------------
(***************************************************************************)
(* Proofs about Snapshot for every schedule, every choice of modes and     *)
(* retentions and every bound.                                             *)
(***************************************************************************)
EXTENDS Snapshot, FiniteSetTheorems, TLAPS

-----------------------------------------------------------------------------
(* The inductive invariant.                                                *)

Maxima ==
    [edits |-> MaxEdits, faults |-> MaxFaults, restarts |-> MaxRestarts, deletes |-> MaxDeletes]

\* The retention is one the user asks for.
Known(spec) == spec.retention \in Retentions \cup {InitSpec.retention}

WellTyped ==
    /\ TypeOK
    /\ IsFiniteSet(snapshots)
    /\ \A field \in {"edits", "faults", "restarts", "deletes"} : budget[field] <= Maxima[field]
    /\ Known(agent.spec) /\ Known(agentCache.spec) /\ Known(pass.ha.spec)

\* A copy is never ahead of the agent, and at the same version it is equal.
Copies(copy, object) ==
    copy.rv <= object.rv /\ (copy.rv = object.rv => copy = object)

\* The copy a pass works on may differ in what the pass is about to record.  As
\* long as no event has woken the worker again it is the current one, unless the
\* agent's own event is on its way.
Coherent ==
    /\ Copies(agentCache, agent)
    /\ pass.pc # "idle" =>
        /\ pass.ha.rv <= agent.rv
        /\ pass.ha.rv = agent.rv => pass.ha.spec = agent.spec
        /\ pass.pc # "record" => Copies(pass.ha, agent)
        /\ ~queued /\ agentCache = agent => pass.ha.rv = agent.rv

Listed == {"clear", "prune"}

Taken == {"relist", "record"}

\* Without the CRD there are no snapshots.
CRDFirst ==
    /\ crd = "absent" \/ pass.pc = "absent" => snapshots = {}
    /\ pass.pc \in Listed \cup Taken => crd = "installed"

\* A run that was taken is later than the last recorded one.
TakenLater ==
    /\ pass.pc \in Taken => pass.taken <= now
    /\ pass.pc \in Taken /\ pass.ha.rv = agent.rv => agent.last < pass.taken
    /\ pass.pc = "record" => pass.ha.last = pass.taken

\* Retention has reached a spec: what it drops is on its way out.
Pruned(spec, rest) == Deprecated(snapshots, spec) \subseteq terminating \cup rest

\* What is left to delete is in the list of the pass; a quiet operator has left
\* nothing.
Pruning ==
    /\ pass.pc \in Listed => Pruned(pass.ha.spec, pass.old)
    /\ Quiescent /\ agent.spec.mode = "on" => Pruned(agent.spec, {})

\* How many snapshots the user has deleted.
UserDeletions == MaxDeletes - budget.deletes

\* A deletion of s leaves enough.
Spared(s) ==
    \A n \in 0..InitSpec.retention :
        AlwaysKept(n) => n <= Cardinality(Survivors(s)) + UserDeletions

\* The snapshots being deleted, other than those the user deletes, and the ones
\* a pass is going to delete leave enough.
Backups ==
    \E byUser \in SUBSET terminating :
        /\ Cardinality(byUser) <= UserDeletions
        /\ \A s \in (terminating \ byUser) \cup pass.old : Spared(s)

\* The listed snapshots are kept and nobody deletes them.
Retained(listed) == listed \subseteq Intact \cap Live(snapshots, agent.spec.retention)

\* What holds as long as nothing disturbs the operator.
Calm ==
    Undisturbed =>
        /\ pass.pc \notin {"idle", "restore", "gate"} => pass.ha.rv = agent.rv
        /\ agent.last <= now
        /\ \A s \in snapshots :
             s.at <= agent.last \/ (pass.pc \in Taken /\ s.at = pass.taken)
        /\ OneCatchUp
        /\ pass.pc \notin Taken => Retained(agent.listed)
        /\ pass.pc = "record" => Retained(pass.ha.listed)
        /\ pass.pc \in Listed => pass.old \cap agent.listed = {}

IInv ==
    /\ WellTyped
    /\ Coherent
    /\ CRDFirst
    /\ TakenLater
    /\ Pruning
    /\ Backups
    /\ Calm

-----------------------------------------------------------------------------
(* The schedule.                                                           *)

\* The next run is later, and runs do not overtake each other.
LEMMA NextRunLater ==
    ASSUME NEW t \in Nat
    PROVE  NextRun(t) \in Nat /\ NextRun(t) > t
<1>1. Period \in Nat \ {0}
  BY SnapshotAssumption
<1>2. t \div Period \in Nat
  BY <1>1
<1>3. t < (t \div Period + 1) * Period
  BY <1>1
<1>4. (t \div Period + 1) * Period \in Nat
  BY <1>1, <1>2
<1> QED BY <1>3, <1>4 DEF NextRun

LEMMA NextRunMonotone ==
    ASSUME NEW t \in Nat, NEW u \in Nat, t <= u
    PROVE  NextRun(t) <= NextRun(u)
<1>1. Period \in Nat \ {0}
  BY SnapshotAssumption
<1>2. t \div Period \in Nat /\ u \div Period \in Nat /\ t \div Period <= u \div Period
  BY <1>1
<1>3. ASSUME NEW x \in Nat, NEW y \in Nat, x <= y
      PROVE  x * Period <= y * Period
  BY <1>1, <1>3
<1>4. t \div Period + 1 \in Nat /\ u \div Period + 1 \in Nat
      /\ t \div Period + 1 <= u \div Period + 1
  BY <1>2
<1> QED BY <1>3, <1>4 DEF NextRun

-----------------------------------------------------------------------------
(* Retention.                                                              *)

\* Snapshots are ordered by age.
LEMMA NewerOrder ==
    /\ \A s \in Name : ~Newer(s, s)
    /\ \A s, t, u \in Name : Newer(s, t) /\ Newer(t, u) => Newer(s, u)
    /\ \A s, t \in Name : s = t \/ Newer(s, t) \/ Newer(t, s)
<1>1. ASSUME NEW s \in Name, NEW t \in Name
      PROVE  /\ s.at \in Nat /\ s.pvc \in Nat /\ t.at \in Nat /\ t.pvc \in Nat
             /\ s.at = t.at /\ s.pvc = t.pvc => s = t
  BY DEF Name
<1> QED BY <1>1 DEF Newer

\* How many are newer.
LEMMA NewerCount ==
    ASSUME NEW S \in SUBSET Name, IsFiniteSet(S), NEW s
    PROVE  /\ IsFiniteSet({t \in S : Newer(t, s)})
           /\ Cardinality({t \in S : Newer(t, s)}) \in Nat
BY FS_Subset, FS_CardinalityType

\* A snapshot that is live stays so when others go.
LEMMA LiveShrinks ==
    ASSUME NEW S \in SUBSET Name, IsFiniteSet(S), NEW T \in SUBSET S, NEW n \in Nat
    PROVE  /\ T \cap Live(S, n) \subseteq Live(T, n)
           /\ \A spec : spec.retention = n => Deprecated(T, spec) \subseteq Deprecated(S, spec)
<1>1. ASSUME NEW s \in T, s \in Live(S, n)
      PROVE  s \in Live(T, n)
  <2>1. Cardinality({t \in S : Newer(t, s)}) < n
    BY <1>1 DEF Live
  <2>2. {t \in T : Newer(t, s)} \in SUBSET {t \in S : Newer(t, s)}
    OBVIOUS
  <2>3. Cardinality({t \in T : Newer(t, s)}) <= Cardinality({t \in S : Newer(t, s)})
    BY <2>2, NewerCount, FS_Subset
  <2>4. IsFiniteSet(T) /\ T \in SUBSET Name
    BY FS_Subset
  <2>5. Cardinality({t \in T : Newer(t, s)}) < n
    BY <2>1, <2>3, <2>4, NewerCount
  <2> QED BY <2>5 DEF Live
<1> QED BY <1>1 DEF Deprecated

\* No more are live than retention says: each has its own number of newer ones.
LEMMA LiveBound ==
    ASSUME NEW S \in SUBSET Name, IsFiniteSet(S), NEW n \in Nat
    PROVE  IsFiniteSet(Live(S, n)) /\ Cardinality(Live(S, n)) <= n
<1> DEFINE count(s) == Cardinality({t \in S : Newer(t, s)})
<1> DEFINE rank == [s \in Live(S, n) |-> count(s)]
<1>1. ASSUME NEW s \in S PROVE count(s) \in Nat
  BY NewerCount
<1>2. ASSUME NEW s \in S, NEW t \in S, Newer(t, s)
      PROVE  count(t) < count(s)
  <2>1. {u \in S : Newer(u, t)} \in SUBSET {u \in S : Newer(u, s)}
    BY <1>2, NewerOrder
  <2>2. t \in {u \in S : Newer(u, s)} /\ t \notin {u \in S : Newer(u, t)}
    BY <1>2, NewerOrder
  <2>3. {u \in S : Newer(u, s)} # {u \in S : Newer(u, t)}
    BY <2>2
  <2>4. count(t) <= count(s) /\ count(s) # count(t)
    BY <2>1, <2>3, NewerCount, FS_Subset
  <2> QED BY <1>1, <2>4
<1>3. \A s \in Live(S, n) : s \in S /\ count(s) \in 0..(n - 1)
  BY <1>1 DEF Live
<1>4. \A s, t \in Live(S, n) : s # t => count(s) # count(t)
  <2>1. ASSUME NEW s \in Live(S, n), NEW t \in Live(S, n), s # t
        PROVE  count(s) # count(t)
    <3>1. s \in S /\ t \in S /\ (Newer(s, t) \/ Newer(t, s))
      BY <1>3, <2>1, NewerOrder
    <3>2. count(s) < count(t) \/ count(t) < count(s)
      BY <1>2, <3>1
    <3>3. count(s) \in Nat /\ count(t) \in Nat
      BY <1>1, <3>1
    <3> HIDE DEF count
    <3> QED BY <3>2, <3>3
  <2> QED BY <2>1
<1> HIDE DEF count
<1>5. rank \in Injection(Live(S, n), 0..(n - 1))
  BY <1>3, <1>4 DEF Injection, IsInjective
<1>6. IsFiniteSet(0..(n - 1)) /\ Cardinality(0..(n - 1)) = n
  BY FS_Interval
<1> QED BY <1>5, <1>6, FS_Injection

-----------------------------------------------------------------------------
(* Types.                                                                  *)

LEMMA Constants ==
    /\ NewAgent \in Agent /\ Known(NewAgent.spec)
    /\ IdlePass \in Pass /\ IdlePass.old = {} /\ IdlePass.pc = "idle" /\ IdlePass.ha = NewAgent
    /\ NoSource \in Name
    /\ InitSpec.retention \in Nat
BY SnapshotAssumption DEF NewAgent, Agent, Known, IdlePass, Pass, NoSource, Name, Conditions, AgentSpec

LEMMA Types ==
    ASSUME IInv
    PROVE  /\ agent \in Agent /\ agentCache \in Agent /\ pass \in Pass /\ pass.ha \in Agent
           /\ agent.rv \in Nat /\ agentCache.rv \in Nat /\ pass.ha.rv \in Nat
           /\ agent.last \in Nat /\ pass.ha.last \in Nat /\ pass.taken \in Nat
           /\ agent.spec \in AgentSpec /\ pass.ha.spec \in AgentSpec
           /\ agent.spec.retention \in Nat /\ pass.ha.spec.retention \in Nat
           /\ snapshots \in SUBSET Name /\ IsFiniteSet(snapshots)
           /\ terminating \in SUBSET snapshots
           /\ pass.old \in SUBSET Name
           /\ now \in Nat /\ timer \in Nat
           /\ budget \in Budget
           /\ queued \in BOOLEAN
BY DEF IInv, WellTyped, TypeOK, Agent, Pass, AgentSpec

LEMMA InitInv ==
    ASSUME Init
    PROVE  IInv
<1>1. WellTyped
  <2>1. budget = Maxima /\ budget \in Budget
    BY SnapshotAssumption DEF Init, Budget, Maxima
  <2>2. \A field \in {"edits", "faults", "restarts", "deletes"} : budget[field] <= Maxima[field]
    BY <2>1 DEF Budget
  <2>3. TypeOK
    BY <2>1, Constants, SnapshotAssumption DEF Init, TypeOK, NoTimer
  <2> QED BY <2>2, <2>3, Constants, FS_EmptySet DEF Init, WellTyped
<1>2. Coherent /\ CRDFirst /\ TakenLater
  BY Constants DEF Init, Coherent, Copies, CRDFirst, TakenLater, Listed, Taken, NewAgent
<1>3. Pruning
  BY Constants DEF Init, Pruning, Quiescent, Listed
<1>4. Backups
  <2>1. Cardinality({}) <= UserDeletions
    BY FS_EmptySet, SnapshotAssumption DEF Init, UserDeletions
  <2>2. (terminating \ {}) \cup pass.old = {}
    BY Constants DEF Init
  <2> QED BY <2>1, <2>2 DEF Backups
<1>5. Calm
  BY Constants DEF Init, Calm, OneCatchUp, Retained, Listed, Taken, NewAgent
<1> QED BY <1>1, <1>2, <1>3, <1>4, <1>5 DEF IInv

-----------------------------------------------------------------------------
(* What the steps of a pass have in common.                                *)

\* The snapshots, the clock and the cache stay.
Same == UNCHANGED <<agentCache, snapshots, terminating, bound, crd, now>>

StatusMove ==
    /\ agent' \in Agent
    /\ agent'.spec = agent.spec
    /\ agent' = agent \/ agent'.rv = agent.rv + 1

SameRecord == agent'.last = agent.last /\ agent'.listed = agent.listed

Spends == budget' = budget \/ (budget.faults > 0 /\ budget' = [budget EXCEPT !.faults = @ - 1])

LEMMA WithinMaxima ==
    ASSUME NEW left, left \in Budget
    PROVE  (\A field \in {"edits", "faults", "restarts", "deletes"} : left[field] <= Maxima[field])
             <=> /\ left.edits <= MaxEdits /\ left.faults <= MaxFaults
                 /\ left.restarts <= MaxRestarts /\ left.deletes <= MaxDeletes
BY DEF Maxima, Budget

LEMMA SpendsKeeps ==
    ASSUME IInv, Spends
    PROVE  /\ budget' \in Budget
           /\ \A field \in {"edits", "faults", "restarts", "deletes"} : budget'[field] <= Maxima[field]
           /\ budget'.deletes = budget.deletes
           /\ Undisturbed' => Undisturbed /\ budget' = budget
<1>1. budget \in Budget /\ \A f \in {"edits", "faults", "restarts", "deletes"} : budget[f] <= Maxima[f]
  BY DEF IInv, WellTyped, TypeOK
<1>2. CASE budget' = budget
  BY <1>1, <1>2 DEF Undisturbed
<1>3. CASE budget.faults > 0 /\ budget' = [budget EXCEPT !.faults = @ - 1]
  <2>1. budget.faults - 1 \in Nat /\ budget.faults - 1 < budget.faults /\ budget.faults <= MaxFaults
    BY <1>1, <1>3 DEF Budget, Maxima
  <2>2. /\ budget' \in Budget /\ budget'.faults = budget.faults - 1
        /\ budget'.edits = budget.edits /\ budget'.restarts = budget.restarts
        /\ budget'.deletes = budget.deletes
    BY <1>1, <1>3, <2>1 DEF Budget
  <2>3. budget'.faults # MaxFaults /\ budget'.faults <= MaxFaults
    BY <1>1, <2>1, <2>2, SnapshotAssumption DEF Budget
  <2>4. ~Undisturbed'
    BY <2>3, SnapshotAssumption DEF Undisturbed
  <2> QED BY <1>1, <2>2, <2>3, <2>4 DEF Maxima
<1> QED BY <1>2, <1>3 DEF Spends

LEMMA StatusAccepted ==
    ASSUME IInv, NEW ha \in Agent, agent' = StatusWritten(ha)
    PROVE  /\ StatusMove
           /\ agent'.last = ha.last /\ agent'.listed = ha.listed
           /\ agent'.restoreFailed = ha.restoreFailed /\ agent'.unsupported = ha.unsupported
<1> DEFINE written == [agent EXCEPT !.last = ha.last, !.listed = ha.listed,
                                    !.unsupported = ha.unsupported,
                                    !.restoreFailed = ha.restoreFailed]
<1>1. agent \in Agent /\ agent.rv + 1 \in Nat
  BY Types
<1>2. /\ written \in Agent /\ written.spec = agent.spec /\ written.rv = agent.rv
      /\ written.last = ha.last /\ written.listed = ha.listed
      /\ written.restoreFailed = ha.restoreFailed /\ written.unsupported = ha.unsupported
  BY <1>1 DEF Agent
<1>3. agent' = IF written = agent THEN agent ELSE [written EXCEPT !.rv = @ + 1]
  BY DEF StatusWritten
<1> HIDE DEF written
<1>4. CASE written = agent
  BY <1>1, <1>2, <1>3, <1>4 DEF StatusMove
<1>5. CASE written # agent
  <2>1. agent' = [written EXCEPT !.rv = agent.rv + 1]
    BY <1>2, <1>3, <1>5
  <2>2. /\ agent' \in Agent /\ agent'.spec = written.spec /\ agent'.rv = agent.rv + 1
        /\ agent'.last = written.last /\ agent'.listed = written.listed
        /\ agent'.restoreFailed = written.restoreFailed
        /\ agent'.unsupported = written.unsupported
    BY <1>1, <1>2, <2>1 DEF Agent
  <2> QED BY <1>2, <2>2 DEF StatusMove
<1> QED BY <1>4, <1>5

\* The agent moves past the version the cache can hold.
LEMMA CacheBehind ==
    ASSUME IInv, StatusMove, agentCache' = agentCache
    PROVE  /\ Copies(agentCache, agent')
           /\ agentCache = agent' => agent' = agent
BY Types DEF IInv, Coherent, Copies, StatusMove

LEMMA ClusterTypes ==
    ASSUME IInv, UNCHANGED <<agentCache, bound, crd, now>>, snapshots' \in SUBSET Name,
           IsFiniteSet(snapshots'), terminating' \in SUBSET snapshots', StatusMove, Spends,
           restored' \in SUBSET Name, timer' \in Nat, queued' \in BOOLEAN, pass' \in Pass,
           Known(pass'.ha.spec)
    PROVE  WellTyped'
<1>1. TypeOK'
  BY SpendsKeeps DEF IInv, WellTyped, TypeOK, StatusMove
<1>2. Known(agent'.spec) /\ Known(agentCache'.spec)
  BY DEF IInv, WellTyped, StatusMove
<1> QED BY <1>1, <1>2, SpendsKeeps DEF WellTyped, IInv

LEMMA StepTypes ==
    ASSUME IInv, Same, StatusMove, Spends, restored' \in SUBSET Name, timer' \in Nat,
           queued' \in BOOLEAN, pass' \in Pass, Known(pass'.ha.spec)
    PROVE  WellTyped'
BY ClusterTypes, Types DEF Same

\* Survivors in finite sets.
LEMMA SurvivorsFinite ==
    ASSUME IInv, NEW s
    PROVE  IsFiniteSet(Survivors(s)) /\ Cardinality(Survivors(s)) \in Nat
BY Types, FS_Subset, FS_CardinalityType DEF Survivors, Intact

LEMMA DeletionsNat ==
    ASSUME IInv
    PROVE  UserDeletions \in Nat
BY SnapshotAssumption DEF IInv, WellTyped, TypeOK, Budget, UserDeletions, Maxima

\* More intact snapshots spare at least as well.
LEMMA SparedKept ==
    ASSUME IInv, NEW s, NEW t, Spared(t), IsFiniteSet(snapshots'), budget'.deletes = budget.deletes,
           Survivors(t) \subseteq Survivors(s)'
    PROVE  Spared(s)'
<1>1. IsFiniteSet(Survivors(s)')
  BY FS_Subset DEF Survivors, Intact
<1>2. Cardinality(Survivors(t)) <= Cardinality(Survivors(s)') /\ Cardinality(Survivors(s)') \in Nat
  BY <1>1, FS_Subset, FS_CardinalityType
<1>3. Cardinality(Survivors(t)) \in Nat /\ UserDeletions \in Nat /\ UserDeletions' = UserDeletions
  BY SurvivorsFinite, DeletionsNat DEF UserDeletions
<1>4. ASSUME NEW n \in 0..InitSpec.retention, AlwaysKept(n)
      PROVE  n <= Cardinality(Survivors(s)') + UserDeletions
  <2>1. n <= Cardinality(Survivors(t)) + UserDeletions
    BY <1>4 DEF Spared
  <2>2. n \in Nat
    BY Constants
  <2> QED BY <1>2, <1>3, <2>1, <2>2
<1> QED BY <1>3, <1>4 DEF Spared, AlwaysKept

LEMMA BackupsKeep ==
    ASSUME IInv, terminating' = terminating, snapshots \subseteq snapshots', IsFiniteSet(snapshots'),
           pass'.old \subseteq pass.old, budget'.deletes = budget.deletes
    PROVE  Backups'
<1>1. PICK byUser \in SUBSET terminating :
        /\ Cardinality(byUser) <= UserDeletions
        /\ \A s \in (terminating \ byUser) \cup pass.old : Spared(s)
  BY DEF IInv, Backups
<1>2. ASSUME NEW s \in (terminating \ byUser) \cup pass.old
      PROVE  Spared(s)'
  <2>1. Survivors(s) \subseteq Survivors(s)'
    BY DEF Survivors, Intact
  <2> QED BY <1>1, <1>2, <2>1, SparedKept
<1>3. UserDeletions' = UserDeletions
  BY DEF UserDeletions
<1>4. \A s \in (terminating' \ byUser) \cup pass'.old : Spared(s)'
  BY <1>2
<1> QED BY <1>1, <1>3, <1>4 DEF Backups

-----------------------------------------------------------------------------
(* The ways a step of a pass may end.                                      *)

\* With a retry: no claim is left but those about the snapshots.
LEMMA RetryStep ==
    ASSUME IInv, Retry, Same, StatusMove, Spends, restored' \in SUBSET Name,
           Undisturbed' => pass.pc \notin Taken /\ SameRecord
    PROVE  IInv'
<1>1. pass' = IdlePass /\ queued' = TRUE /\ timer' = timer
  BY DEF Retry
<1>2. WellTyped'
  BY <1>1, StepTypes, Constants, Types
<1>3. Coherent' /\ CRDFirst' /\ TakenLater' /\ Pruning'
  BY <1>1, Constants, CacheBehind DEF IInv, Coherent, CRDFirst, TakenLater, Pruning, Quiescent, Same,
       Listed, Taken
<1>4. Backups'
  BY <1>1, Constants, BackupsKeep, SpendsKeeps, Types DEF Same
<1>5. Calm'
  <2>1. SUFFICES ASSUME Undisturbed' PROVE Undisturbed /\ SameRecord /\ pass.pc \notin Taken => Calm'
    BY SpendsKeeps DEF Calm
  <2> QED
    BY <1>1, Constants DEF IInv, Calm, Same, SameRecord, StatusMove, OneCatchUp, Retained, Intact,
         Listed, Taken
<1> QED BY <1>2, <1>3, <1>4, <1>5 DEF IInv

\* Without one: the operator may be quiet.
LEMMA ReturnStep ==
    ASSUME IInv, pass' = IdlePass, queued' = queued, timer' \in Nat, Same, StatusMove, SameRecord,
           budget' = budget, restored' = restored, pass.pc \notin Taken,
           ~queued /\ agentCache = agent' /\ agent.spec.mode = "on" => Pruned(agent.spec, {})
    PROVE  IInv'
<1>1. Spends
  BY DEF Spends
<1>2. WellTyped'
  BY <1>1, StepTypes, Constants, Types DEF IInv, WellTyped, TypeOK
<1>3. Coherent' /\ CRDFirst' /\ TakenLater'
  BY Constants, CacheBehind DEF IInv, Coherent, CRDFirst, TakenLater, Same, Listed, Taken
<1>4. Pruning'
  BY Constants DEF Pruning, Pruned, Quiescent, Same, StatusMove, Listed
<1>5. Backups'
  BY <1>1, Constants, BackupsKeep, SpendsKeeps, Types DEF Same
<1>6. Calm'
  BY Constants DEF IInv, Calm, Undisturbed, Same, SameRecord, StatusMove, OneCatchUp, Retained, Intact,
       Listed, Taken
<1> QED BY <1>2, <1>3, <1>4, <1>5, <1>6 DEF IInv

\* With the next step, and a copy of the agent that is current if it was written.
LEMMA GoOnStep ==
    ASSUME IInv, pass' \in Pass, pass'.old = pass.old, pass'.taken = pass.taken,
           pass'.pc \in {"gate", "snapshot", "absent", "prune"}, UNCHANGED <<queued, timer, budget>>,
           Same, StatusMove, SameRecord, restored' \in SUBSET Name,
           pass.pc \notin Taken, Known(pass'.ha.spec), Copies(pass'.ha, agent'),
           Undisturbed /\ pass'.pc # "gate" => pass'.ha.rv = agent'.rv,
           ~queued /\ agentCache = agent' => pass'.ha.rv = agent'.rv,
           pass'.pc = "absent" => snapshots = {},
           pass'.pc = "prune" => pass.pc = "clear" /\ pass'.ha.spec = pass.ha.spec
    PROVE  IInv'
<1>1. Spends
  BY DEF Spends
<1>2. pass'.ha \in Agent
  BY DEF Pass
<1>3. WellTyped'
  BY <1>1, <1>2, StepTypes, Types
<1>4. Coherent'
  BY <1>2, CacheBehind, Types DEF IInv, Coherent, Copies, Same, StatusMove, Agent
<1>5. CRDFirst' /\ TakenLater'
  BY <1>2 DEF IInv, CRDFirst, TakenLater, Same, Listed, Taken
<1>6. Pruning'
  BY <1>2 DEF IInv, Pruning, Pruned, Quiescent, Same, Listed
<1>7. Backups'
  BY <1>1, <1>2, BackupsKeep, SpendsKeeps, Types DEF Same
<1>8. Calm'
  BY <1>2 DEF IInv, Calm, Undisturbed, Same, SameRecord, StatusMove, OneCatchUp, Retained, Intact,
       Listed, Taken
<1> QED BY <1>3, <1>4, <1>5, <1>6, <1>7, <1>8 DEF IInv

-----------------------------------------------------------------------------
(* Status updates.                                                         *)

LEMMA FaultSpends ==
    ASSUME IInv, Fault
    PROVE  Retry /\ Spends /\ ~Undisturbed'
<1>1. Retry /\ budget.faults > 0 /\ budget' = [budget EXCEPT !.faults = @ - 1]
  BY DEF Fault
<1>2. budget \in Budget /\ budget.faults \in Nat
  BY Types DEF Budget
<1>3. budget' # budget
  BY <1>1, <1>2 DEF Budget
<1> QED BY <1>1, <1>3, SpendsKeeps DEF Spends

\* A rejected or a failed one ends the pass.
LEMMA UpdateRejected ==
    ASSUME IInv, NEW ha \in Agent, Same, restored' \in SUBSET Name,
           \/ StatusConflict(ha) /\ Retry /\ UNCHANGED <<agent, budget>>
           \/ /\ agent' \in {agent, IF StatusConflict(ha) THEN agent ELSE StatusWritten(ha)}
              /\ Fault,
           Undisturbed /\ StatusConflict(ha) => pass.pc \notin Taken
    PROVE  IInv'
<1>1. CASE StatusConflict(ha) /\ Retry /\ UNCHANGED <<agent, budget>>
  BY <1>1, RetryStep, Types DEF StatusMove, Spends, SameRecord, Undisturbed
<1>2. CASE /\ agent' \in {agent, IF StatusConflict(ha) THEN agent ELSE StatusWritten(ha)}
           /\ Fault
  <2>1. StatusMove
    BY <1>2, StatusAccepted, Types DEF StatusMove
  <2> QED BY <1>2, <2>1, FaultSpends, RetryStep
<1> QED BY <1>1, <1>2

\* An accepted one that sets a condition leaves the record of the runs.
LEMMA UpdateAccepted ==
    ASSUME IInv, NEW ha \in Agent, ~StatusConflict(ha), agent' = StatusWritten(ha),
           pass.pc \notin {"idle", "record"},
           ha.rv = pass.ha.rv, ha.last = pass.ha.last, ha.listed = pass.ha.listed
    PROVE  StatusMove /\ SameRecord /\ pass.ha = agent /\ ha.rv = agent.rv
<1>1. pass.ha = agent /\ ha.rv = agent.rv
  BY DEF IInv, Coherent, Copies, StatusConflict
<1> QED BY <1>1, StatusAccepted DEF SameRecord

-----------------------------------------------------------------------------
(* The pass up to the snapshot loop.                                       *)

LEMMA ReconcileStep ==
    ASSUME IInv, Reconcile
    PROVE  IInv'
<1>1. /\ pass.pc = "idle" /\ queued' = FALSE
      /\ pass' = [IdlePass EXCEPT !.pc = "restore", !.ha = agentCache]
      /\ Same /\ agent' = agent /\ restored' = restored /\ timer' = timer /\ budget' = budget
  BY DEF Reconcile, At, Same
<1>2. /\ pass' \in Pass /\ pass'.pc = "restore" /\ pass'.ha = agentCache /\ pass'.old = {}
  BY <1>1, Constants, Types DEF Pass
<1>3. StatusMove /\ Spends /\ SameRecord
  BY <1>1, Types DEF StatusMove, Spends, SameRecord
<1>4. WellTyped'
  <2>1. Known(agentCache.spec) /\ restored \in SUBSET Name
    BY DEF IInv, WellTyped, TypeOK
  <2> QED BY <1>1, <1>2, <1>3, <2>1, StepTypes, Types
<1>5. Coherent'
  BY <1>1, <1>2, Types DEF IInv, Coherent, Copies, Same
<1>6. CRDFirst' /\ TakenLater' /\ Pruning'
  BY <1>1, <1>2 DEF IInv, CRDFirst, TakenLater, Pruning, Quiescent, Same, Listed, Taken
<1>7. Backups'
  BY <1>1, <1>2, BackupsKeep, Types DEF Same
<1>8. Calm'
  BY <1>1, <1>2 DEF IInv, Calm, Undisturbed, Same, OneCatchUp, Retained, Intact, Listed, Taken
<1> QED BY <1>4, <1>5, <1>6, <1>7, <1>8 DEF IInv

LEMMA RestoreStep ==
    ASSUME IInv, reconcileRestore
    PROVE  IInv'
<1> DEFINE source == pass.ha.spec.source
           failed == [pass.ha EXCEPT !.restoreFailed = "yes"]
           cleared == [pass.ha EXCEPT !.restoreFailed = "no"]
<1>1. pass.pc = "restore" /\ pass.pc \notin Taken /\ Same
  BY DEF reconcileRestore, At, Same, Taken
<1>2. /\ failed \in Agent /\ failed.rv = pass.ha.rv /\ failed.last = pass.ha.last
      /\ failed.listed = pass.ha.listed
      /\ cleared \in Agent /\ cleared.rv = pass.ha.rv /\ cleared.last = pass.ha.last
      /\ cleared.listed = pass.ha.listed
  BY Types DEF Agent
<1>3. restored' \in SUBSET Name
  BY Types DEF reconcileRestore, IInv, WellTyped, TypeOK, AgentSpec
<1>4. CASE UpdateStatus(failed, Retry)
  <2>1. CASE ~StatusConflict(failed) /\ agent' = StatusWritten(failed) /\ Retry /\ UNCHANGED budget
    BY <1>1, <1>2, <1>3, <2>1, UpdateAccepted, RetryStep DEF Spends
  <2> QED BY <1>1, <1>2, <1>3, <1>4, <2>1, UpdateRejected DEF UpdateStatus
<1>5. CASE GoOn([pass EXCEPT !.pc = "gate"]) /\ UNCHANGED <<agent, budget>>
  <2>1. /\ pass' \in Pass /\ pass'.pc = "gate" /\ pass'.ha = pass.ha /\ pass'.old = pass.old
        /\ pass'.taken = pass.taken /\ UNCHANGED <<queued, timer>>
    BY <1>5, Types DEF GoOn, Pass
  <2>2. StatusMove /\ SameRecord
    BY <1>5, Types DEF StatusMove, SameRecord
  <2>3. /\ Copies(pass.ha, agent') /\ Known(pass.ha.spec)
        /\ ~queued /\ agentCache = agent' => pass.ha.rv = agent'.rv
    BY <1>1, <1>5 DEF IInv, Coherent, WellTyped
  <2> QED BY <1>1, <1>3, <1>5, <2>1, <2>2, <2>3, GoOnStep
<1>6. CASE UpdateStatus(cleared, GoOnWith("gate", cleared))
  <2>1. CASE ~StatusConflict(cleared) /\ agent' = StatusWritten(cleared)
             /\ GoOnWith("gate", cleared) /\ UNCHANGED budget
    <3>1. StatusMove /\ SameRecord
      BY <1>1, <1>2, <2>1, UpdateAccepted
    <3>2. agent' \in Agent /\ Known(agent'.spec) /\ Copies(agent', agent')
      BY <3>1 DEF StatusMove, Copies, Agent, IInv, WellTyped
    <3>3. /\ pass' \in Pass /\ pass'.pc = "gate" /\ pass'.ha = agent' /\ pass'.old = pass.old
         /\ pass'.taken = pass.taken /\ UNCHANGED <<queued, timer>>
      BY <2>1, <3>2, Types DEF GoOnWith, GoOn, Pass
    <3> QED BY <1>1, <1>3, <2>1, <3>1, <3>2, <3>3, GoOnStep
  <2> QED BY <1>1, <1>2, <1>3, <1>6, <2>1, UpdateRejected DEF UpdateStatus
<1>7. CASE Retry /\ UNCHANGED <<agent, budget>>
  BY <1>1, <1>3, <1>7, RetryStep, Types DEF StatusMove, Spends, SameRecord
<1>8. CASE Fault /\ UNCHANGED agent
  BY <1>1, <1>3, <1>8, FaultSpends, RetryStep, Types DEF StatusMove
<1> QED BY <1>4, <1>5, <1>6, <1>7, <1>8 DEF reconcileRestore

LEMMA StatefulSetStep ==
    ASSUME IInv, reconcileStatefulSet
    PROVE  IInv'
<1>1. /\ pass.pc = "gate" /\ pass.pc \notin Taken /\ Same /\ restored' = restored
      /\ restored' \in SUBSET Name /\ pass.ha \in Agent
  BY Types DEF reconcileStatefulSet, At, Same, Taken, IInv, WellTyped, TypeOK
<1>2. CASE ~StatusConflict(pass.ha) /\ agent' = StatusWritten(pass.ha) /\ UNCHANGED budget
           /\ GoOnWith("snapshot", pass.ha)
  <2>1. StatusMove /\ SameRecord
    BY <1>1, <1>2, UpdateAccepted
  <2>2. agent' \in Agent /\ Known(agent'.spec) /\ Copies(agent', agent')
    BY <2>1 DEF StatusMove, Copies, Agent, IInv, WellTyped
  <2>3. /\ pass' \in Pass /\ pass'.pc = "snapshot" /\ pass'.ha = agent' /\ pass'.old = pass.old
       /\ pass'.taken = pass.taken /\ UNCHANGED <<queued, timer>>
    BY <1>2, <2>2, Types DEF GoOnWith, GoOn, Pass
  <2> QED BY <1>1, <1>2, <2>1, <2>2, <2>3, GoOnStep
<1>3. CASE ~StatusConflict(pass.ha) /\ agent' = StatusWritten(pass.ha) /\ UNCHANGED budget /\ Retry
  BY <1>1, <1>3, UpdateAccepted, RetryStep DEF Spends
<1> QED BY <1>1, <1>2, <1>3, UpdateRejected DEF reconcileStatefulSet, UpdateStatus

-----------------------------------------------------------------------------
(* The snapshot loop up to the list.                                       *)

LEMMA OffStep ==
    ASSUME IInv, SnapshotOff
    PROVE  IInv'
<1> DEFINE ha == [pass.ha EXCEPT !.unsupported = "None"]
<1>1. /\ pass.pc = "snapshot" /\ pass.pc \notin Taken /\ Same /\ restored' = restored
      /\ restored' \in SUBSET Name /\ pass.ha.spec.mode = "off"
  BY DEF SnapshotOff, At, Same, Taken, IInv, WellTyped, TypeOK
<1>2. /\ ha \in Agent /\ ha.rv = pass.ha.rv /\ ha.last = pass.ha.last
      /\ ha.listed = pass.ha.listed
  BY Types DEF Agent, Conditions
<1>3. CASE Return /\ UNCHANGED <<agent, budget>>
  <2>1. StatusMove /\ SameRecord
    BY <1>3, Types DEF StatusMove, SameRecord
  <2>2. ~queued /\ agentCache = agent' => agent.spec.mode = "off"
    BY <1>1, <1>3 DEF IInv, Coherent
  <2> QED BY <1>1, <1>3, <2>1, <2>2, ReturnStep, Types DEF Return
<1>4. CASE ~StatusConflict(ha) /\ agent' = StatusWritten(ha) /\ Return /\ UNCHANGED budget
  <2>1. StatusMove /\ SameRecord /\ agent.spec.mode = "off"
    BY <1>1, <1>2, <1>4, UpdateAccepted
  <2> QED BY <1>1, <1>4, <2>1, ReturnStep, Types DEF Return
<1> QED BY <1>1, <1>2, <1>3, <1>4, UpdateRejected DEF SnapshotOff, UpdateStatus

LEMMA SuspendedStep ==
    ASSUME IInv, SnapshotSuspended
    PROVE  IInv'
<1>1. /\ pass.pc = "snapshot" /\ pass.pc \notin Taken /\ Same /\ restored' = restored
      /\ pass.ha.spec.mode = "suspended" /\ Return /\ UNCHANGED <<agent, budget>>
  BY DEF SnapshotSuspended, At, Same, Taken
<1>2. StatusMove /\ SameRecord
  BY <1>1, Types DEF StatusMove, SameRecord
<1>3. ~queued /\ agentCache = agent' => agent.spec.mode = "suspended"
  BY <1>1 DEF IInv, Coherent
<1> QED BY <1>1, <1>2, <1>3, ReturnStep, Types DEF Return

LEMMA NotBoundStep ==
    ASSUME IInv, PVCNotBound
    PROVE  IInv'
<1>1. /\ pass.pc \notin Taken /\ Same /\ restored' \in SUBSET Name
      /\ Retry /\ UNCHANGED <<agent, budget>>
  BY DEF PVCNotBound, At, Same, Taken, IInv, WellTyped, TypeOK
<1> QED BY <1>1, RetryStep, Types DEF StatusMove, SameRecord, Spends

LEMMA InvalidStep ==
    ASSUME IInv, InvalidSchedule
    PROVE  IInv'
<1> DEFINE ha == [pass.ha EXCEPT !.unsupported = "InvalidSchedule"]
<1>1. /\ pass.pc = "snapshot" /\ pass.pc \notin Taken /\ Same
      /\ restored' \in SUBSET Name /\ UpdateStatus(ha, Retry)
  BY DEF InvalidSchedule, At, Same, Taken, IInv, WellTyped, TypeOK
<1>2. /\ ha \in Agent /\ ha.rv = pass.ha.rv /\ ha.last = pass.ha.last
      /\ ha.listed = pass.ha.listed
  BY Types DEF Agent, Conditions
<1>3. CASE ~StatusConflict(ha) /\ agent' = StatusWritten(ha) /\ Retry /\ UNCHANGED budget
  BY <1>1, <1>2, <1>3, UpdateAccepted, RetryStep DEF Spends
<1> QED BY <1>1, <1>2, <1>3, UpdateRejected DEF UpdateStatus

LEMMA UnsupportedStep ==
    ASSUME IInv, ReportUnsupported
    PROVE  IInv'
<1> DEFINE ha == [pass.ha EXCEPT !.unsupported = "CRDAbsent"]
<1>1. /\ pass.pc = "absent" /\ pass.pc \notin Taken /\ Same /\ restored' = restored
      /\ restored' \in SUBSET Name /\ UpdateStatus(ha, Return)
  BY DEF ReportUnsupported, At, Same, Taken, IInv, WellTyped, TypeOK
<1>2. /\ ha \in Agent /\ ha.rv = pass.ha.rv /\ ha.last = pass.ha.last
      /\ ha.listed = pass.ha.listed
  BY Types DEF Agent, Conditions
<1>3. Pruned(agent.spec, {})
  BY <1>1 DEF IInv, CRDFirst, Pruned, Deprecated
<1>4. CASE ~StatusConflict(ha) /\ agent' = StatusWritten(ha) /\ Return /\ UNCHANGED budget
  <2>1. StatusMove /\ SameRecord
    BY <1>1, <1>2, <1>4, UpdateAccepted
  <2> QED BY <1>1, <1>3, <1>4, <2>1, ReturnStep, Types DEF Return
<1> QED BY <1>1, <1>2, <1>4, UpdateRejected DEF UpdateStatus

LEMMA ClearStep ==
    ASSUME IInv, clearSnapshotUnsupported
    PROVE  IInv'
<1> DEFINE ha == [pass.ha EXCEPT !.unsupported = "None"]
<1>1. /\ pass.pc = "clear" /\ pass.pc \notin Taken /\ Same
      /\ restored' \in SUBSET Name /\ UpdateStatus(ha, GoOnWith("prune", ha))
  BY DEF clearSnapshotUnsupported, At, Same, Taken, IInv, WellTyped, TypeOK
<1>2. /\ ha \in Agent /\ ha.rv = pass.ha.rv /\ ha.last = pass.ha.last
      /\ ha.listed = pass.ha.listed
  BY Types DEF Agent, Conditions
<1>3. CASE ~StatusConflict(ha) /\ agent' = StatusWritten(ha) /\ UNCHANGED budget
           /\ GoOnWith("prune", ha)
  <2>1. StatusMove /\ SameRecord /\ pass.ha = agent
    BY <1>1, <1>2, <1>3, UpdateAccepted
  <2>2. /\ agent' \in Agent /\ Known(agent'.spec) /\ Copies(agent', agent')
        /\ agent'.spec = pass.ha.spec
    BY <2>1 DEF StatusMove, Copies, Agent, IInv, WellTyped
  <2>3. /\ pass' \in Pass /\ pass'.pc = "prune" /\ pass'.ha = agent' /\ pass'.old = pass.old
        /\ pass'.taken = pass.taken /\ UNCHANGED <<queued, timer>>
    BY <1>3, <2>2, Types DEF GoOnWith, GoOn, Pass
  <2> QED BY <1>1, <1>3, <2>1, <2>2, <2>3, GoOnStep
<1> QED BY <1>1, <1>2, <1>3, UpdateRejected DEF UpdateStatus

\* What retention drops has "retention" newer ones.  If one of those is on its way
\* out by retention, it left enough, and so does this one; if none is, the user
\* deletes the ones that do not survive.
LEMMA DeprecatedSpared ==
    ASSUME IInv, NEW spec, spec \in AgentSpec, Known(spec), NEW s \in Deprecated(snapshots, spec)
    PROVE  Spared(s)
<1>1. PICK byUser \in SUBSET terminating :
        /\ Cardinality(byUser) <= UserDeletions
        /\ \A t \in (terminating \ byUser) \cup pass.old : Spared(t)
  BY DEF IInv, Backups
<1> DEFINE N == {t \in snapshots : Newer(t, s)}
<1>2. s \in snapshots /\ s \in Name /\ s \notin Live(snapshots, spec.retention)
  BY Types DEF Deprecated
<1>3. IsFiniteSet(N) /\ Cardinality(N) \in Nat
  BY NewerCount, Types
<1>4. spec.retention \in Nat /\ ~(Cardinality(N) < spec.retention)
  BY <1>2 DEF Live, AgentSpec
<1>5. IsFiniteSet(byUser) /\ Cardinality(byUser) \in Nat /\ UserDeletions \in Nat
  BY FS_Subset, FS_CardinalityType, Types, DeletionsNat
<1>6. IsFiniteSet(Survivors(s)) /\ Cardinality(Survivors(s)) \in Nat
  BY SurvivorsFinite
<1> SUFFICES ASSUME NEW n \in 0..InitSpec.retention, AlwaysKept(n)
             PROVE  n <= Cardinality(Survivors(s)) + UserDeletions
  BY DEF Spared
<1>7. n \in Nat /\ n <= spec.retention
  BY Constants DEF AlwaysKept, Known
<1>8. CASE \E t \in N : t \in terminating \ byUser
  <2>1. PICK t \in N : t \in terminating \ byUser
    BY <1>8
  <2>2. n <= Cardinality(Survivors(t)) + UserDeletions
    BY <1>1, <2>1 DEF Spared
  <2>3. \A u \in Name : Newer(u, t) => Newer(u, s)
    BY <1>2, <2>1, NewerOrder, Types
  <2>4. Survivors(t) \in SUBSET Survivors(s)
    BY <2>3, Types DEF Survivors, Intact
  <2>5. Cardinality(Survivors(t)) <= Cardinality(Survivors(s)) /\ Cardinality(Survivors(t)) \in Nat
    BY <1>6, <2>4, FS_Subset, SurvivorsFinite
  <2> QED BY <1>5, <1>6, <1>7, <2>2, <2>5
<1>9. CASE ~\E t \in N : t \in terminating \ byUser
  <2>1. N \in SUBSET (Survivors(s) \cup byUser)
    BY <1>9 DEF Survivors, Intact
  <2>2. /\ IsFiniteSet(Survivors(s) \cup byUser)
        /\ Cardinality(Survivors(s) \cup byUser)
             = Cardinality(Survivors(s)) + Cardinality(byUser) - Cardinality(Survivors(s) \cap byUser)
    BY <1>5, <1>6, FS_Union
  <2>3. Cardinality(Survivors(s) \cap byUser) \in Nat
    BY <1>5, FS_Subset, FS_CardinalityType
  <2>4. Cardinality(N) <= Cardinality(Survivors(s) \cup byUser)
    BY <2>1, <2>2, FS_Subset
  <2> HIDE DEF N
  <2> QED BY <1>1, <1>3, <1>4, <1>5, <1>6, <1>7, <2>2, <2>3, <2>4
<1> QED BY <1>8, <1>9

LEMMA ListStep ==
    ASSUME IInv, ListSnapshots
    PROVE  IInv'
<1>1. /\ pass.pc = "snapshot" /\ pass.pc \notin Taken /\ Same /\ restored' = restored
      /\ restored' \in SUBSET Name /\ agent' = agent
  BY DEF ListSnapshots, At, Same, Taken, IInv, WellTyped, TypeOK
<1>2. StatusMove /\ SameRecord
  BY <1>1, Types DEF StatusMove, SameRecord
<1>3. /\ Copies(pass.ha, agent) /\ Known(pass.ha.spec)
      /\ ~queued /\ agentCache = agent => pass.ha.rv = agent.rv
      /\ Undisturbed => pass.ha.rv = agent.rv
  BY <1>1 DEF IInv, Coherent, WellTyped, Calm
<1>4. CASE crd = "absent" /\ GoOn([pass EXCEPT !.pc = "absent"]) /\ UNCHANGED budget
  <2>1. /\ pass' \in Pass /\ pass'.pc = "absent" /\ pass'.ha = pass.ha /\ pass'.old = pass.old
        /\ pass'.taken = pass.taken /\ UNCHANGED <<queued, timer>>
    BY <1>4, Types DEF GoOn, Pass
  <2>2. snapshots = {}
    BY <1>4 DEF IInv, CRDFirst
  <2> QED BY <1>1, <1>2, <1>3, <1>4, <2>1, <2>2, GoOnStep
<1>5. ASSUME NEW pc \in Listed, crd = "installed", UNCHANGED budget,
             GoOn([pass EXCEPT !.pc = pc, !.old = Deprecated(snapshots, pass.ha.spec)])
      PROVE  IInv'
  <2>1. Deprecated(snapshots, pass.ha.spec) \in SUBSET Name
    BY Types DEF Deprecated
  <2>2. /\ pass' \in Pass /\ pass'.pc \in Listed /\ pass'.ha = pass.ha
        /\ pass'.old = Deprecated(snapshots, pass.ha.spec)
        /\ pass'.taken = pass.taken /\ UNCHANGED <<queued, timer>>
    BY <1>5, <2>1, Types DEF GoOn, Pass, Listed
  <2>3. pass'.pc \notin {"idle", "absent", "record"} \cup Taken
    BY <2>2 DEF Listed, Taken
  <2>4. WellTyped'
    BY <1>1, <1>2, <1>3, <1>5, <2>2, StepTypes, Types DEF Spends
  <2>5. Coherent'
    BY <1>1, <1>3, <2>2, <2>3 DEF IInv, Coherent, Same, Copies
  <2>6. CRDFirst' /\ TakenLater'
    BY <1>1, <1>5, <2>2, <2>3 DEF IInv, CRDFirst, TakenLater, Same
  <2>7. Pruning'
    BY <1>1, <2>2, <2>3 DEF Pruning, Pruned, Quiescent, Same
  <2>8. Backups'
    <3>1. PICK byUser \in SUBSET terminating :
            /\ Cardinality(byUser) <= UserDeletions
            /\ \A t \in (terminating \ byUser) \cup pass.old : Spared(t)
      BY DEF IInv, Backups
    <3>2. \A s \in (terminating \ byUser) \cup pass'.old : Spared(s)
      BY <1>3, <2>2, <3>1, DeprecatedSpared, Types
    <3>3. \A s : Spared(s)' <=> Spared(s)
      BY <1>1, <1>5 DEF Same, Spared, UserDeletions, Survivors, Intact, AlwaysKept
    <3> QED BY <1>1, <1>5, <3>1, <3>2, <3>3 DEF Backups, UserDeletions, Same
  <2>9. Calm'
    <3>1. SUFFICES ASSUME Undisturbed' PROVE Calm'
      BY DEF Calm
    <3>2. Undisturbed /\ pass.ha.rv = agent.rv /\ pass.ha.spec = agent.spec
      BY <1>1, <1>3, <1>5, <3>1 DEF Undisturbed, Copies
    <3>3. Deprecated(snapshots, pass.ha.spec) \cap agent.listed = {}
      BY <1>1, <3>2 DEF Deprecated, IInv, Calm, Retained
    <3> QED
      BY <1>1, <2>2, <2>3, <3>2, <3>3 DEF IInv, Calm, Same, OneCatchUp, Retained, Intact
  <2> QED BY <2>4, <2>5, <2>6, <2>7, <2>8, <2>9 DEF IInv
<1>6. CASE Fault
  BY <1>1, <1>2, <1>6, FaultSpends, RetryStep
<1> QED BY <1>4, <1>5, <1>6 DEF ListSnapshots, Listed

-----------------------------------------------------------------------------
(* Deleting and taking snapshots.                                          *)

\* A failing call that may have changed the snapshots.
LEMMA FaultStep ==
    ASSUME IInv, Fault, UNCHANGED <<agent, agentCache, bound, crd, now, restored>>,
           crd = "installed", snapshots' \in SUBSET Name, IsFiniteSet(snapshots'),
           terminating' \in SUBSET snapshots', Backups'
    PROVE  IInv'
<1>1. pass' = IdlePass /\ queued' = TRUE /\ timer' = timer /\ Spends /\ ~Undisturbed'
  BY FaultSpends DEF Retry
<1>2. StatusMove
  BY Types DEF StatusMove
<1>3. WellTyped'
  <2>1. restored' \in SUBSET Name
    BY DEF IInv, WellTyped, TypeOK
  <2> QED BY <1>1, <1>2, <2>1, ClusterTypes, Constants, Types
<1>4. Coherent' /\ CRDFirst' /\ TakenLater' /\ Pruning' /\ Calm'
  BY <1>1, Constants DEF IInv, Coherent, CRDFirst, TakenLater, Pruning, Quiescent, Calm, Listed, Taken
<1> QED BY <1>3, <1>4 DEF IInv

\* The deletion of s leaves the survivors of s to whatever is older.
LEMMA DeletionBackups ==
    ASSUME IInv, NEW s \in pass.old, terminating' = terminating \cup ({s} \cap snapshots),
           snapshots' = snapshots, pass'.old \subseteq pass.old, budget'.deletes = budget.deletes
    PROVE  Backups'
<1>1. PICK byUser \in SUBSET terminating :
        /\ Cardinality(byUser) <= UserDeletions
        /\ \A x \in (terminating \ byUser) \cup pass.old : Spared(x)
  BY DEF IInv, Backups
<1>2. ASSUME NEW x \in (terminating' \ byUser) \cup pass'.old
      PROVE  Spared(x)'
  <2>1. x \in (terminating \ byUser) \cup pass.old /\ x \in Name /\ s \in Name
    BY Types
  <2>2. Spared(x) /\ Spared(s) /\ IsFiniteSet(snapshots')
    BY <1>1, <2>1, Types
  <2>3. CASE Newer(s, x)
    <3>1. \A t \in Name : Newer(t, s) => Newer(t, x) /\ t # s
      BY <2>1, <2>3, NewerOrder
    <3>2. Survivors(s) \subseteq Survivors(x)'
      BY <3>1, Types DEF Survivors, Intact
    <3> QED BY <2>2, <3>2, SparedKept
  <2>4. CASE ~Newer(s, x)
    <3>1. Survivors(x) \subseteq Survivors(x)'
      BY <2>4 DEF Survivors, Intact
    <3> QED BY <2>2, <3>1, SparedKept
  <2> QED BY <2>3, <2>4
<1>3. UserDeletions' = UserDeletions /\ byUser \in SUBSET terminating'
  BY DEF UserDeletions
<1> QED BY <1>1, <1>2, <1>3 DEF Backups

LEMMA DeleteStep ==
    ASSUME IInv, DeleteOld
    PROVE  IInv'
<1>1. /\ pass.pc = "prune" /\ UNCHANGED <<agent, agentCache, snapshots, bound, crd, now, restored>>
      /\ crd = "installed"
  BY DEF DeleteOld, At, IInv, CRDFirst, Listed
<1>2. PICK s \in pass.old :
        \/ /\ terminating' = terminating \cup ({s} \cap snapshots)
           /\ GoOn([pass EXCEPT !.old = @ \ {s}])
           /\ UNCHANGED budget
        \/ /\ terminating' \in {terminating, terminating \cup ({s} \cap snapshots)}
           /\ Fault
  BY DEF DeleteOld
<1>3. StatusMove
  BY <1>1, Types DEF StatusMove
<1>4. CASE terminating' = terminating /\ Fault
  <2>1. restored' \in SUBSET Name /\ Same
    BY <1>1, <1>4 DEF IInv, WellTyped, TypeOK, Same
  <2> QED BY <1>3, <1>4, <2>1, FaultSpends, RetryStep
<1>5. CASE terminating' = terminating \cup ({s} \cap snapshots) /\ Fault
  <2>1. pass'.old \subseteq pass.old /\ budget'.deletes = budget.deletes
    BY <1>5, FaultSpends, SpendsKeeps, Constants DEF Retry
  <2>2. Backups'
    BY <1>1, <1>5, <2>1, DeletionBackups
  <2>3. terminating' \in SUBSET snapshots'
    BY <1>1, <1>5, Types
  <2> QED BY <1>1, <1>5, <2>2, <2>3, FaultStep, Types
<1>6. CASE /\ terminating' = terminating \cup ({s} \cap snapshots)
           /\ GoOn([pass EXCEPT !.old = @ \ {s}])
           /\ UNCHANGED budget
  <2>1. /\ pass' \in Pass /\ pass'.pc = "prune" /\ pass'.ha = pass.ha /\ pass'.old = pass.old \ {s}
        /\ pass'.taken = pass.taken /\ UNCHANGED <<queued, timer>>
    BY <1>1, <1>6, Types DEF GoOn, Pass
  <2>2. WellTyped'
    <3>1. restored' \in SUBSET Name /\ Known(pass'.ha.spec) /\ terminating' \in SUBSET snapshots'
      BY <1>1, <1>6, <2>1, Types DEF IInv, WellTyped, TypeOK
    <3> QED BY <1>1, <1>3, <1>6, <2>1, <3>1, ClusterTypes, Types DEF Spends
  <2>3. Coherent' /\ CRDFirst' /\ TakenLater'
    BY <1>1, <2>1 DEF IInv, Coherent, CRDFirst, TakenLater, Listed, Taken
  <2>4. Pruning'
    <3>1. Deprecated(snapshots, pass.ha.spec) \subseteq snapshots \cap (terminating \cup pass.old)
      BY <1>1 DEF IInv, Pruning, Pruned, Listed, Deprecated
    <3> QED BY <1>1, <1>6, <2>1, <3>1 DEF Pruning, Pruned, Quiescent
  <2>5. Backups'
    BY <1>1, <1>6, <2>1, DeletionBackups
  <2>6. Calm'
    <3>1. SUFFICES ASSUME Undisturbed' PROVE Calm'
      BY DEF Calm
    <3>2. Undisturbed /\ pass.old \cap agent.listed = {} /\ Retained(agent.listed)
      BY <1>1, <1>6, <3>1 DEF Undisturbed, IInv, Calm, Listed, Taken
    <3>3. Retained(agent.listed)'
      BY <1>1, <1>6, <3>2 DEF Retained, Intact
    <3> QED BY <1>1, <2>1, <3>2, <3>3 DEF IInv, Calm, OneCatchUp, Listed, Taken
  <2> QED BY <2>2, <2>3, <2>4, <2>5, <2>6 DEF IInv
<1> QED BY <1>2, <1>4, <1>5, <1>6

\* A wait asks for a deadline.
LEMMA RequeueTimer ==
    ASSUME IInv, NEW d \in Nat, RequeueAfter(d)
    PROVE  pass' = IdlePass /\ queued' = queued /\ timer' \in Nat
BY Types DEF RequeueAfter

LEMMA NotDueStep ==
    ASSUME IInv, NotDue
    PROVE  IInv'
<1>1. /\ pass.pc = "prune" /\ pass.pc \notin Taken /\ Same /\ restored' = restored
      /\ pass.old = {} /\ UNCHANGED <<agent, budget>>
      /\ NextRun(pass.ha.last) > now /\ RequeueAfter(NextRun(pass.ha.last) - now)
  BY DEF NotDue, At, Same, Taken
<1>2. NextRun(pass.ha.last) - now \in Nat
  BY <1>1, NextRunLater, Types
<1>3. pass' = IdlePass /\ queued' = queued /\ timer' \in Nat
  BY <1>1, <1>2, RequeueTimer
<1>4. StatusMove /\ SameRecord
  BY <1>1, Types DEF StatusMove, SameRecord
<1>5. ~queued /\ agentCache = agent' => Pruned(agent.spec, {})
  BY <1>1 DEF IInv, Coherent, Pruning, Listed
<1> QED BY <1>1, <1>3, <1>4, <1>5, ReturnStep

LEMMA TakeStep ==
    ASSUME IInv, TakeSnapshot
    PROVE  IInv'
<1> DEFINE name == [pvc |-> buildDataPVCName(pass.ha.spec), at |-> now]
<1>1. /\ pass.pc = "prune" /\ UNCHANGED <<agent, agentCache, bound, crd, now, restored, terminating>>
      /\ crd = "installed" /\ NextRun(pass.ha.last) <= now
  BY DEF TakeSnapshot, At, IInv, CRDFirst, Listed
<1>2. name \in Name /\ name.at = now
  BY Types DEF Name, buildDataPVCName, AgentSpec
<1>3. IsFiniteSet(snapshots \cup {name}) /\ snapshots \cup {name} \in SUBSET Name
  BY <1>2, FS_AddElement, Types
<1>4. StatusMove
  BY <1>1, Types DEF StatusMove
<1>5. CASE snapshots' \in {snapshots, snapshots \cup {name}} /\ Fault
  <2>1. pass'.old \subseteq pass.old /\ budget'.deletes = budget.deletes
    BY <1>5, FaultSpends, SpendsKeeps, Constants DEF Retry
  <2>2. snapshots \subseteq snapshots' /\ snapshots' \in SUBSET Name /\ IsFiniteSet(snapshots')
    BY <1>3, <1>5, Types
  <2>3. Backups' /\ terminating' \in SUBSET snapshots'
    BY <1>1, <2>1, <2>2, BackupsKeep, Types
  <2> QED BY <1>1, <1>5, <2>2, <2>3, FaultStep
<1>6. CASE /\ snapshots' = snapshots \cup {name}
           /\ GoOn([pass EXCEPT !.pc = "relist", !.taken = now])
           /\ UNCHANGED budget
  <2>1. /\ pass' \in Pass /\ pass'.pc = "relist" /\ pass'.ha = pass.ha /\ pass'.old = pass.old
        /\ pass'.taken = now /\ UNCHANGED <<queued, timer>>
    BY <1>6, Types DEF GoOn, Pass
  <2>2. WellTyped'
    <3>1. restored' \in SUBSET Name /\ Known(pass'.ha.spec) /\ terminating' \in SUBSET snapshots'
      BY <1>1, <1>6, <2>1, Types DEF IInv, WellTyped, TypeOK
    <3> QED BY <1>1, <1>3, <1>4, <1>6, <2>1, <3>1, ClusterTypes, Types DEF Spends
  <2>3. Coherent' /\ CRDFirst'
    BY <1>1, <2>1 DEF IInv, Coherent, CRDFirst, Listed, Taken
  <2>4. pass.ha.rv = agent.rv => pass.ha = agent /\ NextRun(agent.last) <= now /\ agent.last < now
    <3>1. pass.ha.rv = agent.rv => pass.ha = agent
      BY <1>1 DEF IInv, Coherent, Copies
    <3> QED BY <1>1, <3>1, NextRunLater, Types
  <2>5. TakenLater'
    BY <1>1, <2>1, <2>4, Types DEF TakenLater, Taken
  <2>6. Pruning'
    BY <2>1 DEF Pruning, Quiescent, Listed
  <2>7. Backups'
    BY <1>1, <1>3, <1>6, <2>1, BackupsKeep
  <2>8. Calm'
    <3>1. SUFFICES ASSUME Undisturbed' PROVE Calm'
      BY DEF Calm
    <3>2. /\ pass.ha.rv = agent.rv /\ OneCatchUp
          /\ \A s \in snapshots : s.at <= agent.last
      BY <1>1, <1>6, <3>1 DEF Undisturbed, IInv, Calm, Taken
    <3>3. \A s \in snapshots' : s.at \in Nat /\ s \in Name
      BY <1>3, <1>6 DEF Name
    <3>4. OneCatchUp'
      <4>1. SUFFICES ASSUME NEW s \in snapshots', NEW t \in snapshots', s.at < t.at
                     PROVE  NextRun(s.at) <= t.at
        BY DEF OneCatchUp
      <4>2. CASE s \in snapshots /\ t \in snapshots
        BY <3>2, <4>1, <4>2 DEF OneCatchUp
      <4>3. CASE t \notin snapshots
        <5>1. t.at = now
          BY <1>2, <1>6, <4>3
        <5>2. s \in snapshots
          BY <1>2, <1>6, <3>3, <4>1, <5>1
        <5>3. NextRun(s.at) <= NextRun(agent.last)
          BY <3>2, <3>3, <5>2, NextRunMonotone, Types
        <5> QED BY <2>4, <3>2, <3>3, <5>1, <5>3, NextRunLater, Types
      <4>4. CASE s \notin snapshots /\ t \in snapshots
        <5>1. s.at = now
          BY <1>2, <1>6, <4>4
        <5>2. t.at <= agent.last /\ agent.last < now
          BY <2>4, <3>2, <4>4
        <5> QED BY <3>3, <4>1, <5>1, <5>2, Types
      <4> QED BY <4>2, <4>3, <4>4
    <3>5. \A s \in snapshots' : s.at <= agent.last \/ s.at = now
      BY <1>2, <1>6, <3>2
    <3>6. agent.last <= now
      BY <2>4, <3>2, Types
    <3> QED BY <1>1, <2>1, <3>2, <3>4, <3>5, <3>6 DEF Calm, Taken, Listed
  <2> QED BY <2>2, <2>3, <2>5, <2>6, <2>7, <2>8 DEF IInv
<1> QED BY <1>5, <1>6 DEF TakeSnapshot

LEMMA RelistStep ==
    ASSUME IInv, Relist
    PROVE  IInv'
<1> DEFINE listed == snapshotRefs(Live(snapshots, pass.ha.spec.retention))
<1>1. /\ pass.pc = "relist" /\ Same /\ restored' = restored /\ restored' \in SUBSET Name
      /\ agent' = agent
  BY DEF Relist, At, Same, IInv, WellTyped, TypeOK
<1>2. StatusMove
  BY <1>1, Types DEF StatusMove
<1>3. CASE Fault
  BY <1>1, <1>2, <1>3, FaultSpends, RetryStep
<1>4. CASE /\ GoOn([pass EXCEPT !.pc = "record", !.ha.last = pass.taken, !.ha.listed = listed])
           /\ UNCHANGED budget
  <2>1. listed \in SUBSET Name
    BY Types DEF snapshotRefs, Live
  <2> HIDE DEF listed
  <2>2. /\ pass' \in Pass /\ pass'.pc = "record" /\ pass'.old = pass.old /\ pass'.taken = pass.taken
        /\ pass'.ha.rv = pass.ha.rv /\ pass'.ha.spec = pass.ha.spec
        /\ pass'.ha.last = pass.taken /\ pass'.ha.listed = listed /\ UNCHANGED <<queued, timer>>
    BY <1>4, <2>1, Types DEF GoOn, Pass, Agent
  <2>3. WellTyped'
    <3>1. Known(pass'.ha.spec)
      BY <2>2 DEF IInv, WellTyped
    <3> QED BY <1>1, <1>2, <1>4, <2>2, <3>1, StepTypes, Types DEF Spends
  <2>4. Coherent' /\ CRDFirst' /\ TakenLater' /\ Pruning'
    BY <1>1, <2>2 DEF IInv, Coherent, Copies, CRDFirst, TakenLater, Pruning, Quiescent, Same, Listed, Taken
  <2>5. Backups'
    BY <1>1, <1>4, <2>2, BackupsKeep, Types DEF Same
  <2>6. Calm'
    <3>1. SUFFICES ASSUME Undisturbed' PROVE Calm'
      BY DEF Calm
    <3>2. Undisturbed /\ pass.ha.rv = agent.rv /\ pass.ha.spec = agent.spec
      BY <1>1, <1>4, <3>1 DEF Undisturbed, IInv, Calm, Coherent
    <3>3. Retained(listed)
      BY <3>2 DEF Retained, Intact, listed, snapshotRefs, Live
    <3> QED
      BY <1>1, <2>2, <3>2, <3>3 DEF IInv, Calm, Same, OneCatchUp, Retained, Intact, Listed, Taken
  <2> QED BY <2>3, <2>4, <2>5, <2>6 DEF IInv
<1> QED BY <1>3, <1>4 DEF Relist

LEMMA RecordStep ==
    ASSUME IInv, RecordSnapshot
    PROVE  IInv'
<1>1. /\ pass.pc = "record" /\ Same /\ restored' = restored /\ restored' \in SUBSET Name
  BY DEF RecordSnapshot, At, Same, IInv, WellTyped, TypeOK
<1>2. CASE /\ ~StatusConflict(pass.ha) /\ agent' = StatusWritten(pass.ha) /\ UNCHANGED budget
           /\ RequeueAfter(NextRun(pass.taken) - pass.taken)
  <2>1. StatusMove /\ agent'.last = pass.taken /\ agent'.listed = pass.ha.listed
    BY <1>1, <1>2, StatusAccepted, Types DEF IInv, TakenLater
  <2>2. agent.last < pass.taken /\ pass.taken <= now
    BY <1>1, <1>2 DEF IInv, TakenLater, StatusConflict, Taken
  <2>3. agent' # agent
    BY <2>1, <2>2, Types
  <2>4. agentCache # agent' /\ Copies(agentCache, agent')
    BY <1>1, <2>1, <2>3, CacheBehind DEF Same
  <2>5. pass' = IdlePass /\ queued' = queued /\ timer' \in Nat
    <3>1. NextRun(pass.taken) - pass.taken \in Nat
      BY NextRunLater, Types
    <3> QED BY <1>2, <3>1, RequeueTimer
  <2>6. WellTyped'
    BY <1>1, <1>2, <2>1, <2>5, StepTypes, Constants, Types DEF Spends
  <2>7. Coherent' /\ CRDFirst' /\ TakenLater' /\ Pruning'
    BY <1>1, <2>4, <2>5, Constants DEF IInv, Coherent, CRDFirst, TakenLater, Pruning, Quiescent, Same,
         Listed, Taken
  <2>8. Backups'
    BY <1>1, <1>2, <2>5, BackupsKeep, Constants, Types DEF Same
  <2>9. Calm'
    <3>1. SUFFICES ASSUME Undisturbed' PROVE Calm'
      BY DEF Calm
    <3>2. /\ Undisturbed /\ OneCatchUp /\ Retained(pass.ha.listed)
          /\ \A s \in snapshots : s.at <= agent.last \/ s.at = pass.taken
      BY <1>1, <1>2, <3>1 DEF Undisturbed, IInv, Calm
    <3>3. \A s \in snapshots : s.at \in Nat
      BY Types DEF Name
    <3>4. \A s \in snapshots : s.at <= pass.taken
      BY <2>2, <3>2, <3>3, Types
    <3>5. OneCatchUp' /\ Retained(agent.listed)'
      BY <1>1, <2>1, <3>2 DEF Same, OneCatchUp, Retained, Intact, StatusMove
    <3> QED BY <1>1, <2>1, <2>2, <2>5, <3>4, <3>5, Constants DEF Calm, Same, Listed, Taken
  <2> QED BY <2>6, <2>7, <2>8, <2>9 DEF IInv
<1>3. Undisturbed => ~StatusConflict(pass.ha)
  BY <1>1 DEF IInv, Calm, StatusConflict
<1> QED BY <1>1, <1>2, <1>3, UpdateRejected, Types DEF RecordSnapshot, UpdateStatus

-----------------------------------------------------------------------------
(* The work queue, the snapshot-controller, storage, users and restarts.   *)

\* Neither the agent nor the snapshots move: what is left to show.
LEMMA QuietStep ==
    ASSUME IInv, UNCHANGED <<agent, snapshots, terminating, pass, budget>>, TypeOK',
           Known(agentCache'.spec), Coherent', CRDFirst', now <= now',
           Quiescent' => Quiescent
    PROVE  IInv'
<1>1. WellTyped' /\ Pruning'
  BY DEF IInv, WellTyped, Pruning, Pruned, TypeOK
<1>2. TakenLater'
  BY Types DEF IInv, TakenLater, TypeOK
<1>3. Backups'
  BY BackupsKeep, Types
<1>4. Calm'
  BY Types DEF IInv, Calm, Undisturbed, OneCatchUp, Retained, Intact, TypeOK
<1> QED BY <1>1, <1>2, <1>3, <1>4 DEF IInv

LEMMA DeliverStep ==
    ASSUME IInv, DeliverAgent
    PROVE  IInv'
<1>1. TypeOK' /\ Known(agentCache'.spec) /\ now <= now'
  BY Types DEF DeliverAgent, cluster, IInv, WellTyped, TypeOK
<1>2. Coherent' /\ CRDFirst' /\ ~Quiescent'
  BY Types DEF DeliverAgent, cluster, IInv, Coherent, Copies, CRDFirst, Quiescent
<1> QED BY <1>1, <1>2, QuietStep DEF DeliverAgent, cluster

LEMMA TimerStep ==
    ASSUME IInv, TimerFires
    PROVE  IInv'
<1>1. TypeOK' /\ Known(agentCache'.spec) /\ now <= now'
  BY Types DEF TimerFires, cluster, IInv, WellTyped, TypeOK, NoTimer
<1>2. Coherent' /\ CRDFirst' /\ ~Quiescent'
  BY Types DEF TimerFires, cluster, IInv, Coherent, CRDFirst, Quiescent
<1> QED BY <1>1, <1>2, QuietStep DEF TimerFires, cluster

LEMMA TickStep ==
    ASSUME IInv, Tick
    PROVE  IInv'
<1>1. TypeOK' /\ Known(agentCache'.spec) /\ now <= now'
  BY Types DEF Tick, IInv, WellTyped, TypeOK
<1>2. Coherent' /\ CRDFirst' /\ (Quiescent' => Quiescent)
  BY DEF Tick, IInv, Coherent, CRDFirst, Quiescent
<1> QED BY <1>1, <1>2, QuietStep DEF Tick

LEMMA BindStep ==
    ASSUME IInv, BindPVC
    PROVE  IInv'
<1>1. buildDataPVCName(agent.spec) \in Nat
  BY Types DEF buildDataPVCName, AgentSpec, Name
<1>2. bound' \in SUBSET Nat
  <2>1. bound \in SUBSET Nat
    BY DEF IInv, WellTyped, TypeOK
  <2> QED BY <1>1, <2>1 DEF BindPVC
<1>3. TypeOK' /\ Known(agentCache'.spec) /\ now <= now'
  BY <1>2, Types DEF BindPVC, IInv, WellTyped, TypeOK
<1>4. Coherent' /\ CRDFirst' /\ (Quiescent' => Quiescent)
  BY DEF BindPVC, IInv, Coherent, CRDFirst, Quiescent
<1> QED BY <1>2, <1>3, <1>4, QuietStep DEF BindPVC

LEMMA InstallStep ==
    ASSUME IInv, InstallCRD
    PROVE  IInv'
<1>1. TypeOK' /\ Known(agentCache'.spec) /\ now <= now'
  BY Types DEF InstallCRD, IInv, WellTyped, TypeOK
<1>2. Coherent' /\ CRDFirst' /\ (Quiescent' => Quiescent)
  BY DEF InstallCRD, IInv, Coherent, CRDFirst, Quiescent
<1> QED BY <1>1, <1>2, QuietStep DEF InstallCRD

LEMMA FinalizeStep ==
    ASSUME IInv, NEW s \in terminating, Finalize(s)
    PROVE  IInv'
<1>1. /\ snapshots' = snapshots \ {s} /\ terminating' = terminating \ {s}
      /\ UNCHANGED <<agent, agentCache, restored, bound, crd, now, timer, queued, pass, budget>>
  BY DEF Finalize
<1>2. /\ snapshots' \in SUBSET snapshots /\ snapshots' \in SUBSET Name /\ IsFiniteSet(snapshots')
      /\ terminating' \in SUBSET snapshots' /\ Intact' = Intact
  BY <1>1, FS_Subset, Types DEF Intact
<1>3. WellTyped'
  <2>1. StatusMove /\ Spends
    BY <1>1, Types DEF StatusMove, Spends
  <2>2. restored' \in SUBSET Name /\ Known(pass'.ha.spec)
    BY <1>1 DEF IInv, WellTyped, TypeOK
  <2> QED BY <1>1, <1>2, <2>1, <2>2, ClusterTypes, Types
<1>4. Coherent' /\ CRDFirst' /\ TakenLater'
  BY <1>1 DEF IInv, Coherent, CRDFirst, TakenLater
<1>5. Pruning'
  <2>1. ASSUME NEW spec, spec.retention \in Nat, NEW rest, Pruned(spec, rest)
        PROVE  Deprecated(snapshots', spec) \subseteq terminating' \cup rest
    <3>1. Deprecated(snapshots', spec) \subseteq Deprecated(snapshots, spec) \cap snapshots'
      BY <1>2, <2>1, LiveShrinks, Types DEF Deprecated
    <3> QED BY <1>1, <2>1, <3>1 DEF Pruned
  <2>2. pass.pc \in Listed => Pruned(pass.ha.spec, pass.old)'
    BY <1>1, <2>1, Types DEF IInv, Pruning, Pruned
  <2>3. Quiescent /\ agent.spec.mode = "on" => Pruned(agent.spec, {})'
    BY <1>1, <2>1, Types DEF IInv, Pruning, Pruned
  <2> QED BY <1>1, <2>2, <2>3 DEF Pruning, Quiescent
<1>6. Backups'
  <2>1. PICK byUser \in SUBSET terminating :
          /\ Cardinality(byUser) <= UserDeletions
          /\ \A x \in (terminating \ byUser) \cup pass.old : Spared(x)
    BY DEF IInv, Backups
  <2>2. \A x : Spared(x)' <=> Spared(x)
    BY <1>1, <1>2 DEF Spared, Survivors, AlwaysKept, UserDeletions
  <2>3. IsFiniteSet(byUser) /\ byUser \ {s} \in SUBSET byUser
    BY FS_Subset, Types
  <2>4. /\ Cardinality(byUser \ {s}) <= Cardinality(byUser)
        /\ Cardinality(byUser \ {s}) \in Nat /\ Cardinality(byUser) \in Nat
    BY <2>3, FS_Subset, FS_CardinalityType
  <2>5. UserDeletions' = UserDeletions /\ UserDeletions \in Nat
    BY <1>1, DeletionsNat DEF UserDeletions
  <2>6. Cardinality(byUser \ {s}) <= UserDeletions'
    BY <2>1, <2>4, <2>5
  <2>7. \A x \in (terminating' \ (byUser \ {s})) \cup pass'.old : Spared(x)'
    BY <1>1, <2>1, <2>2
  <2>8. byUser \ {s} \in SUBSET terminating'
    BY <1>1
  <2> QED BY <2>6, <2>7, <2>8 DEF Backups
<1>7. Calm'
  <2>1. \A listed : Retained(listed) => Retained(listed)'
    <3>1. Intact \subseteq snapshots'
      BY <1>1 DEF Intact
    <3>2. snapshots' \cap Live(snapshots, agent.spec.retention) \subseteq Live(snapshots', agent.spec.retention)
      BY <1>2, LiveShrinks, Types
    <3> QED BY <1>1, <1>2, <3>1, <3>2 DEF Retained
  <2>2. OneCatchUp => OneCatchUp'
    BY <1>1 DEF OneCatchUp
  <2>3. /\ Retained(agent.listed) => Retained(agent.listed)'
        /\ Retained(pass.ha.listed) => Retained(pass.ha.listed)'
    BY <1>1, <2>1 DEF Retained
  <2> QED BY <1>1, <1>2, <2>2, <2>3 DEF IInv, Calm, Undisturbed
<1> QED BY <1>3, <1>4, <1>5, <1>6, <1>7 DEF IInv

LEMMA UserDeletesStep ==
    ASSUME IInv, NEW s \in snapshots, UserDeletes(s)
    PROVE  IInv'
<1>1. /\ budget.deletes > 0 /\ s \in snapshots \ terminating /\ terminating' = terminating \cup {s}
      /\ budget' = [budget EXCEPT !.deletes = @ - 1]
      /\ UNCHANGED <<agent, agentCache, snapshots, restored, bound, crd, now, timer, queued, pass>>
  BY DEF UserDeletes
<1>2. budget.deletes \in Nat /\ budget.deletes - 1 \in Nat /\ budget.deletes <= MaxDeletes
  BY <1>1, Types DEF Budget, IInv, WellTyped, Maxima
<1>3. /\ budget' \in Budget /\ budget'.deletes = budget.deletes - 1
      /\ budget'.edits = budget.edits /\ budget'.restarts = budget.restarts
      /\ budget'.faults = budget.faults
  BY <1>1, <1>2, Types DEF Budget
<1>4. budget'.deletes < MaxDeletes
  BY <1>2, <1>3, SnapshotAssumption
<1>5. ~Undisturbed'
  BY <1>2, <1>3, <1>4, SnapshotAssumption DEF Undisturbed
<1>6. WellTyped'
  <2>1. \A field \in {"edits", "faults", "restarts", "deletes"} : budget'[field] <= Maxima[field]
    <3>1. budget.edits <= MaxEdits /\ budget.faults <= MaxFaults
          /\ budget.restarts <= MaxRestarts /\ budget.deletes <= MaxDeletes
      BY WithinMaxima, Types DEF IInv, WellTyped
    <3>2. budget'.edits <= MaxEdits /\ budget'.faults <= MaxFaults
          /\ budget'.restarts <= MaxRestarts /\ budget'.deletes <= MaxDeletes
      BY <1>3, <1>4, <3>1, SnapshotAssumption DEF Budget
    <3> QED BY <1>3, <3>2, WithinMaxima
  <2>2. TypeOK'
    BY <1>1, <1>3 DEF IInv, WellTyped, TypeOK
  <2> QED BY <1>1, <2>1, <2>2 DEF IInv, WellTyped
<1>7. Coherent' /\ CRDFirst' /\ TakenLater' /\ Pruning' /\ Calm'
  BY <1>1, <1>5 DEF IInv, Coherent, CRDFirst, TakenLater, Pruning, Pruned, Quiescent, Calm
<1>8. Backups'
  <2>1. PICK byUser \in SUBSET terminating :
          /\ Cardinality(byUser) <= UserDeletions
          /\ \A x \in (terminating \ byUser) \cup pass.old : Spared(x)
    BY DEF IInv, Backups
  <2>2. UserDeletions' = UserDeletions + 1 /\ UserDeletions \in Nat
    BY <1>2, <1>3, DeletionsNat, SnapshotAssumption DEF UserDeletions
  <2>3. IsFiniteSet(byUser) /\ Cardinality(byUser) \in Nat /\ s \notin byUser
    BY <1>1, FS_Subset, FS_CardinalityType, Types
  <2>4. Cardinality(byUser \cup {s}) = Cardinality(byUser) + 1
    BY <2>3, FS_AddElement
  <2>5. ASSUME NEW x, Spared(x)
        PROVE  Spared(x)'
    <3>1. IsFiniteSet(Survivors(x)) /\ Cardinality(Survivors(x)) \in Nat
      BY SurvivorsFinite
    <3>2. Survivors(x)' = Survivors(x) \ {s}
      BY <1>1 DEF Survivors, Intact
    <3>3. /\ Cardinality(Survivors(x) \ {s}) >= Cardinality(Survivors(x)) - 1
          /\ Cardinality(Survivors(x) \ {s}) \in Nat
      <4>1. CASE s \in Survivors(x)
        <5>1. /\ IsFiniteSet(Survivors(x) \ {s})
              /\ Cardinality(Survivors(x) \ {s}) = Cardinality(Survivors(x)) - 1
          BY <3>1, <4>1, FS_RemoveElement
        <5>2. Cardinality(Survivors(x) \ {s}) \in Nat
          BY <5>1, FS_CardinalityType
        <5> QED BY <3>1, <5>1, <5>2
      <4>2. CASE s \notin Survivors(x)
        <5>1. Survivors(x) \ {s} = Survivors(x)
          BY <4>2
        <5> QED BY <3>1, <5>1
      <4> QED BY <4>1, <4>2
    <3>4. ASSUME NEW n \in 0..InitSpec.retention, AlwaysKept(n)
          PROVE  n <= Cardinality(Survivors(x) \ {s}) + (UserDeletions + 1)
      <4>1. n <= Cardinality(Survivors(x)) + UserDeletions /\ n \in Nat
        BY <2>5, <3>4, Constants DEF Spared
      <4> QED BY <2>2, <3>1, <3>3, <4>1
    <3> QED BY <2>2, <3>2, <3>4 DEF Spared, AlwaysKept
  <2>6. \A x \in (terminating' \ (byUser \cup {s})) \cup pass'.old : Spared(x)'
    BY <1>1, <2>1, <2>5
  <2>7. Cardinality(byUser \cup {s}) <= UserDeletions' /\ byUser \cup {s} \in SUBSET terminating'
    BY <1>1, <2>1, <2>2, <2>3, <2>4
  <2> QED BY <2>6, <2>7 DEF Backups
<1> QED BY <1>6, <1>7, <1>8 DEF IInv

LEMMA EditStep ==
    ASSUME IInv, EditSpec
    PROVE  IInv'
<1>1. /\ budget.edits > 0 /\ budget' = [budget EXCEPT !.edits = @ - 1]
      /\ UNCHANGED <<agentCache, snapshots, terminating, restored, bound, crd, now, timer, queued, pass>>
  BY DEF EditSpec, cluster
<1>2. PICK spec : /\ spec \in AgentSpec /\ Known(spec)
                  /\ agent' = [agent EXCEPT !.spec = spec, !.rv = @ + 1]
  <2>1. PICK m \in Modes, r \in Retentions,
             x \in {NoSource, agent.spec.source} \cup (snapshots \ terminating) :
          agent' = [agent EXCEPT !.spec = [mode |-> m, retention |-> r, source |-> x],
                                 !.rv = @ + 1]
    BY DEF EditSpec
  <2>2. m \in Mode /\ r \in Nat \ {0} /\ x \in Name
    BY SnapshotAssumption, Constants, Types DEF AgentSpec
  <2>3. /\ [mode |-> m, retention |-> r, source |-> x] \in AgentSpec
        /\ Known([mode |-> m, retention |-> r, source |-> x])
    BY <2>2 DEF AgentSpec, Known
  <2> QED BY <2>1, <2>3
<1>3. agent.rv + 1 \in Nat
  BY Types
<1>4. agent' \in Agent /\ agent'.rv = agent.rv + 1 /\ Known(agent'.spec)
  BY <1>2, <1>3, Types DEF Agent
<1>5. budget.edits \in Nat /\ budget.edits - 1 \in Nat /\ budget.edits <= MaxEdits
  BY <1>1, Types DEF Budget, IInv, WellTyped, Maxima
<1>6. /\ budget' \in Budget /\ budget'.edits = budget.edits - 1
      /\ budget'.deletes = budget.deletes /\ budget'.restarts = budget.restarts
      /\ budget'.faults = budget.faults
  BY <1>1, <1>5, Types DEF Budget
<1>7. budget'.edits < MaxEdits
  BY <1>5, <1>6, SnapshotAssumption
<1>8. ~Undisturbed'
  BY <1>5, <1>6, <1>7, SnapshotAssumption DEF Undisturbed
<1>9. WellTyped'
  <2>1. \A field \in {"edits", "faults", "restarts", "deletes"} : budget'[field] <= Maxima[field]
    <3>1. budget.edits <= MaxEdits /\ budget.faults <= MaxFaults
          /\ budget.restarts <= MaxRestarts /\ budget.deletes <= MaxDeletes
      BY WithinMaxima, Types DEF IInv, WellTyped
    <3>2. budget'.edits <= MaxEdits /\ budget'.faults <= MaxFaults
          /\ budget'.restarts <= MaxRestarts /\ budget'.deletes <= MaxDeletes
      BY <1>6, <1>7, <3>1, SnapshotAssumption DEF Budget
    <3> QED BY <1>6, <3>2, WithinMaxima
  <2>2. TypeOK'
    BY <1>1, <1>4, <1>6 DEF IInv, WellTyped, TypeOK
  <2> QED BY <1>1, <1>4, <2>1, <2>2 DEF IInv, WellTyped
<1>10. agentCache.rv < agent'.rv /\ (pass.pc # "idle" => pass.ha.rv < agent'.rv)
  BY <1>4, Types DEF IInv, Coherent, Copies
<1>11. Coherent' /\ CRDFirst' /\ TakenLater' /\ Pruning' /\ Calm'
  BY <1>1, <1>4, <1>8, <1>10, Types DEF IInv, Coherent, Copies, CRDFirst, TakenLater, Pruning, Pruned,
       Quiescent, Calm, Taken
<1>12. Backups'
  BY <1>1, <1>6, BackupsKeep, Types
<1> QED BY <1>9, <1>11, <1>12 DEF IInv

LEMMA RestartStep ==
    ASSUME IInv, Restart
    PROVE  IInv'
<1>1. /\ budget.restarts > 0 /\ budget' = [budget EXCEPT !.restarts = @ - 1]
      /\ pass' = IdlePass /\ agentCache' = agent /\ queued' = TRUE /\ timer' = NoTimer
      /\ UNCHANGED <<agent, snapshots, terminating, restored, bound, crd, now>>
  BY DEF Restart, cluster
<1>2. budget.restarts \in Nat /\ budget.restarts - 1 \in Nat /\ budget.restarts <= MaxRestarts
  BY <1>1, Types DEF Budget, IInv, WellTyped, Maxima
<1>3. /\ budget' \in Budget /\ budget'.restarts = budget.restarts - 1
      /\ budget'.deletes = budget.deletes /\ budget'.edits = budget.edits
      /\ budget'.faults = budget.faults
  BY <1>1, <1>2, Types DEF Budget
<1>4. budget'.restarts < MaxRestarts
  BY <1>2, <1>3, SnapshotAssumption
<1>5. ~Undisturbed'
  BY <1>2, <1>3, <1>4, SnapshotAssumption DEF Undisturbed
<1>6. WellTyped'
  <2>1. \A field \in {"edits", "faults", "restarts", "deletes"} : budget'[field] <= Maxima[field]
    <3>1. budget.edits <= MaxEdits /\ budget.faults <= MaxFaults
          /\ budget.restarts <= MaxRestarts /\ budget.deletes <= MaxDeletes
      BY WithinMaxima, Types DEF IInv, WellTyped
    <3>2. budget'.edits <= MaxEdits /\ budget'.faults <= MaxFaults
          /\ budget'.restarts <= MaxRestarts /\ budget'.deletes <= MaxDeletes
      BY <1>3, <1>4, <3>1, SnapshotAssumption DEF Budget
    <3> QED BY <1>3, <3>2, WithinMaxima
  <2>2. TypeOK'
    BY <1>1, <1>3, Constants DEF IInv, WellTyped, TypeOK, NoTimer
  <2> QED BY <1>1, <2>1, <2>2, Constants DEF IInv, WellTyped
<1>7. Coherent' /\ CRDFirst' /\ TakenLater' /\ Pruning' /\ Calm'
  BY <1>1, <1>5, Constants, Types DEF IInv, Coherent, Copies, CRDFirst, TakenLater, Pruning, Quiescent,
       Calm, Listed, Taken
<1>8. Backups'
  BY <1>1, <1>3, BackupsKeep, Constants, Types
<1> QED BY <1>6, <1>7, <1>8 DEF IInv

-----------------------------------------------------------------------------
(* The theorems.                                                           *)

LEMMA NextInv ==
    ASSUME IInv, [Next]_vars
    PROVE  IInv'
<1>1. CASE Worker
  BY <1>1, ReconcileStep, RestoreStep, StatefulSetStep, OffStep, SuspendedStep, NotBoundStep, InvalidStep,
     ListStep, UnsupportedStep, ClearStep, DeleteStep, NotDueStep, TakeStep, RelistStep, RecordStep
     DEF Worker, reconcileSnapshot
<1>2. CASE \E s \in terminating : Finalize(s)
  BY <1>2, FinalizeStep
<1>3. CASE \E s \in snapshots : UserDeletes(s)
  BY <1>3, UserDeletesStep
<1>4. CASE UNCHANGED vars
  <2>1. /\ UNCHANGED <<agent, agentCache, snapshots, terminating, restored, bound, crd, now, timer>>
        /\ UNCHANGED <<queued, pass, budget>>
    BY <1>4 DEF vars
  <2>2. TypeOK' /\ Known(agentCache'.spec) /\ Coherent' /\ CRDFirst' /\ now <= now'
    BY <2>1, Types DEF IInv, WellTyped, TypeOK, Coherent, CRDFirst
  <2>3. Quiescent' => Quiescent
    BY <2>1 DEF Quiescent
  <2> QED BY <2>1, <2>2, <2>3, QuietStep
<1> QED
  BY <1>1, <1>2, <1>3, <1>4, DeliverStep, TimerStep, TickStep, BindStep, InstallStep, EditStep, RestartStep
     DEF Next

\* The inductive invariant holds whatever the worker, the API server, the users
\* and the clock do, in every order: the copies of the agent lag behind it but
\* never contradict it, what retention drops is on its way out once the operator
\* is quiet, and every snapshot retention condemns leaves enough backups.
THEOREM SnapshotInductive == Spec => []IInv
BY InitInv, NextInv, PTL DEF Spec

\* The variables keep their types under every interleaving of passes, edits,
\* deletions, faults and restarts.
THEOREM SnapshotTypeCorrect == Spec => []TypeOK
<1>1. IInv => TypeOK
  BY DEF IInv, WellTyped
<1> QED BY <1>1, SnapshotInductive, PTL

\* reconcileSnapshot catches up with retention: once no pass, wake-up or event of
\* the agent is pending, at most "retention" snapshots beside the restore source
\* are not being deleted.
THEOREM RetentionReached == Spec => []RetentionEnforced
<1>1. IInv => RetentionEnforced
  <2> SUFFICES ASSUME IInv, Quiescent, agent.spec.mode = "on"
               PROVE  Cardinality(Intact \ {agent.spec.source}) <= agent.spec.retention
    BY DEF RetentionEnforced
  <2> DEFINE live == Live(snapshots, agent.spec.retention)
  <2>1. Deprecated(snapshots, agent.spec) \subseteq terminating
    BY DEF IInv, Pruning, Pruned
  <2>2. Intact \ {agent.spec.source} \in SUBSET live
    BY <2>1 DEF Intact, Deprecated
  <2>3. IsFiniteSet(live) /\ Cardinality(live) <= agent.spec.retention /\ agent.spec.retention \in Nat
    BY LiveBound, Types
  <2> HIDE DEF live
  <2>4. /\ Cardinality(Intact \ {agent.spec.source}) <= Cardinality(live)
        /\ Cardinality(Intact \ {agent.spec.source}) \in Nat /\ Cardinality(live) \in Nat
    BY <2>2, <2>3, FS_Subset, FS_CardinalityType
  <2> QED BY <2>3, <2>4
<1> QED BY <1>1, SnapshotInductive, PTL

\* A run of the schedule yields one snapshot although every pass reads
\* lastScheduleTime from a lagging cache: as long as no edit, fault, restart or
\* deletion by a user happens, a time of the schedule lies between two snapshots.
THEOREM OneRunOneSnapshot == Spec => []OneSnapshotPerRun
<1>1. IInv => OneSnapshotPerRun
  BY DEF IInv, Calm, OneSnapshotPerRun
<1> QED BY <1>1, SnapshotInductive, PTL

\* As long as nothing disturbs the operator, status.snapshot.snapshots of a quiet
\* operator lists no snapshot that retention has removed.
THEOREM ListMirrored == Spec => []ListMirrorsRetention
<1>1. IInv => ListMirrorsRetention
  BY DEF IInv, Calm, Retained, Quiescent, ListMirrorsRetention, ListMirrors, Taken
<1> QED BY <1>1, SnapshotInductive, PTL

\* A snapshot that reconcileSnapshot deletes leaves as many newer intact ones as
\* the lowest retention the user ever asks for, less the ones the user has
\* deleted, although snapshots being deleted count as live in the list.
THEOREM BackupsSurvive == Spec => BackupsKept
<1>1. ASSUME IInv,
             NEW s \in (terminating' \ terminating) \cap pass.old, NEW n \in 0..InitSpec.retention,
             AlwaysKept(n)
      PROVE  n <= Cardinality(Survivors(s)) + (MaxDeletes - budget.deletes)
  <2>1. Spared(s)
    BY <1>1 DEF IInv, Backups
  <2> QED BY <1>1, <2>1 DEF Spared, UserDeletions
<1>2. IInv => [\A s \in (terminating' \ terminating) \cap pass.old, n \in 0..InitSpec.retention :
                 pass.old # pass'.old /\ AlwaysKept(n) =>
                   n <= Cardinality(Survivors(s)) + (MaxDeletes - budget.deletes)]_vars
  BY <1>1
<1> QED BY <1>2, SnapshotInductive, PTL DEF BackupsKept

=============================================================================
