---------------------------- MODULE RolloutProofs ----------------------------
(***************************************************************************)
(* Proofs about Rollout for every number of revisions, every choice of     *)
(* sources, replicas and Pods that do not start, and every bound.          *)
(***************************************************************************)
EXTENDS Rollout, TLAPS

-----------------------------------------------------------------------------
(* The inductive invariant.                                                *)

\* A copy is never ahead of the object, and at the same version it is equal.
Copies(copy, object) ==
    copy.rv <= object.rv /\ (copy.rv = object.rv => copy = object)

CachesCoherent == Copies(agentCache, agent) /\ Copies(stsCache, sts)

\* The copy a pass works on: coherent, and as long as no event has woken the
\* worker again the current one, unless the agent's own event is on its way.
PassCoherent ==
    pass.pc # "idle" =>
        /\ Copies(pass.ha, agent)
        /\ ~queued /\ agentCache = agent => pass.ha = agent

\* The StatefulSet a spec asks for.
Fits(s, want) ==
    /\ s.uid # 0
    /\ s.rev = want.rev
    /\ s.replicas = want.replicas
    /\ s.shape = Shape(want)

\* The steps behind the restore loop, and those behind the StatefulSet's write.
Restored == {"statefulset", "deletePod", "status"}

Written == {"deletePod", "status"}

\* What an uninterrupted pass has established so far.
PassProgress ==
    /\ pass.pc \in Restored => pass.ha.restoreFailed = "no"
    /\ pass.pc \in Written /\ ~queued /\ stsCache = sts => Fits(sts, pass.ha.want)

\* The PVC the cache shows exists, and a pass that is past the restore loop with
\* a source has seen it.
VolumeSeen ==
    /\ pvc.cache = "present" => pvc.api = "present"
    /\ pass.pc = "reget" => pvc.api = "present"
    /\ pass.pc \in Restored /\ pass.ha.want.source = "snapshot" => pvc.api = "present"
    /\ pass.pc = "idle" => pass.ha = NewAgent

IInv ==
    /\ TypeOK
    /\ CachesCoherent
    /\ PassCoherent
    /\ PassProgress
    /\ VolumeSeen
    /\ RestOnSpec

-----------------------------------------------------------------------------
(* Types.                                                                  *)

LEMMA Constants ==
    /\ 1 \in Rev /\ 0 \notin Rev /\ Rev \subseteq Nat
    /\ NewAgent \in Agent /\ IdlePass \in Pass /\ NoPod \in Pod
    /\ \A rv \in Nat : NoSts(rv) \in StatefulSet
BY RolloutAssumption
   DEF Rev, NewAgent, Agent, Want, Phases, IdlePass, Pass, NoPod, Pod, NoSts, StatefulSet, Shapes

LEMMA InitInv ==
    ASSUME Init
    PROVE  IInv
<1>1. TypeOK
  <2>1. budget \in Budget
    BY RolloutAssumption DEF Init, Budget
  <2> QED BY <2>1, Constants DEF Init, TypeOK
<1>2. CachesCoherent
  BY DEF Init, CachesCoherent, Copies, NewAgent, NoSts
<1> QED
  BY <1>1, <1>2 DEF Init, IInv, PassCoherent, PassProgress, VolumeSeen, RestOnSpec, Quiescent,
       IdlePass, Restored, Written

-----------------------------------------------------------------------------
(* How objects move.                                                       *)

\* A write moves the version on; without one the object stays.
Moves(old, new) == new = old \/ new.rv = old.rv + 1

LEMMA CopiesMove ==
    ASSUME NEW copy, NEW old, NEW new, copy.rv \in Nat, old.rv \in Nat,
           Copies(copy, old), Moves(old, new)
    PROVE  Copies(copy, new) /\ (new # old => copy # new)
BY DEF Copies, Moves

\* The agent after a status update.
LEMMA StatusType ==
    ASSUME TypeOK, NEW ha \in Agent
    PROVE  /\ StatusWritten(ha) \in Agent
           /\ StatusWritten(ha).want = agent.want
           /\ StatusWritten(ha).restoreFailed = ha.restoreFailed
           /\ StatusWritten(ha).phase = ha.phase
           /\ Moves(agent, StatusWritten(ha))
<1> DEFINE written == [agent EXCEPT !.phase = ha.phase, !.restoreFailed = ha.restoreFailed,
                                    !.rv = @ + 1]
<1>1. agent.rv \in Nat /\ agent.rv + 1 \in Nat /\ agent \in Agent
  BY DEF TypeOK, Agent
<1>2. /\ written \in Agent /\ written.want = agent.want
      /\ written.restoreFailed = ha.restoreFailed /\ written.phase = ha.phase
      /\ written.rv = agent.rv + 1
  BY <1>1 DEF Agent
<1>3. \/ /\ StatusWritten(ha) = agent
         /\ agent.phase = ha.phase /\ agent.restoreFailed = ha.restoreFailed
      \/ StatusWritten(ha) = written
  BY DEF StatusWritten
<1> HIDE DEF written
<1> QED BY <1>1, <1>2, <1>3 DEF Moves

LEMMA StsType ==
    ASSUME TypeOK
    PROVE  /\ StsDeleted \in StatefulSet /\ Moves(sts, StsDeleted)
           /\ \A uid \in Nat :
                /\ StsWritten(uid) \in StatefulSet /\ Moves(sts, StsWritten(uid))
                /\ StsWritten(uid) # sts
                /\ StsWritten(uid).uid = uid
<1>1. /\ sts.rv \in Nat /\ sts \in StatefulSet
      /\ pass.ha.want.rev \in Rev /\ pass.ha.want.replicas \in {0, 1}
      /\ Shape(pass.ha.want) \in Shapes
  BY DEF TypeOK, StatefulSet, Pass, Agent, Want, Shape, Shapes
<1>2. StsDeleted \in StatefulSet /\ Moves(sts, StsDeleted)
  BY <1>1, Constants DEF StsDeleted, Moves, NoSts
<1>3. ASSUME NEW uid \in Nat
      PROVE  /\ StsWritten(uid) \in StatefulSet /\ Moves(sts, StsWritten(uid))
             /\ StsWritten(uid) # sts
             /\ StsWritten(uid).uid = uid
  <2>1. sts.rv + 1 \in Nat /\ sts.rv + 1 # sts.rv
    BY <1>1
  <2>2. /\ StsWritten(uid) \in StatefulSet /\ StsWritten(uid).uid = uid
        /\ StsWritten(uid).rv = sts.rv + 1
    BY <1>1, <2>1 DEF StsWritten, StatefulSet
  <2> QED BY <2>1, <2>2 DEF Moves
<1> QED BY <1>2, <1>3

\* What every step of a pass has in common.
Frame ==
    /\ UNCHANGED <<agentCache, stsCache, podCache, ready>>
    /\ agent' \in Agent /\ Moves(agent, agent')
    /\ sts' \in StatefulSet /\ Moves(sts, sts')
    /\ pod' \in Pod
    /\ pvc' \in {pvc, [pvc EXCEPT !.api = "present"]}
    /\ budget' \in Budget

LEMMA FrameKeeps ==
    ASSUME IInv, Frame
    PROVE  /\ CachesCoherent'
           /\ agentCache' = agent' => agent' = agent
           /\ stsCache' = sts' => sts' = sts
           /\ pvc' \in [api : {"absent", "present"}, cache : {"absent", "present"}]
           /\ pvc'.cache = "present" => pvc'.api = "present"
           /\ pvc.api = "present" => pvc'.api = "present"
<1>1. /\ agentCache.rv \in Nat /\ agent.rv \in Nat /\ stsCache.rv \in Nat /\ sts.rv \in Nat
      /\ Copies(agentCache, agent) /\ Copies(stsCache, sts)
  BY DEF IInv, TypeOK, Agent, StatefulSet, CachesCoherent
<1>2. Copies(agentCache, agent') /\ (agent' # agent => agentCache # agent')
  BY <1>1, CopiesMove DEF Frame
<1>3. Copies(stsCache, sts') /\ (sts' # sts => stsCache # sts')
  BY <1>1, CopiesMove DEF Frame
<1>4. /\ pvc' \in [api : {"absent", "present"}, cache : {"absent", "present"}]
      /\ pvc'.cache = "present" => pvc'.api = "present"
      /\ pvc.api = "present" => pvc'.api = "present"
  BY DEF Frame, IInv, TypeOK, VolumeSeen
<1> QED BY <1>2, <1>3, <1>4 DEF CachesCoherent, Frame

\* A pass that ends with a retry leaves nothing to be shown.
LEMMA RetryStep ==
    ASSUME IInv, Frame, Retry
    PROVE  IInv'
<1>1. TypeOK'
  BY FrameKeeps, Constants DEF Frame, Retry, IInv, TypeOK
<1>2. CachesCoherent'
  BY FrameKeeps
<1>3. PassCoherent' /\ PassProgress' /\ VolumeSeen' /\ RestOnSpec'
  BY FrameKeeps DEF Retry, IdlePass, PassCoherent, PassProgress, VolumeSeen, RestOnSpec, Quiescent,
       Restored, Written
<1> QED BY <1>1, <1>2, <1>3 DEF IInv

\* A pass that goes on owes what its next step relies on.
LEMMA GoOnStep ==
    ASSUME IInv, Frame, NEW pc, NEW ha \in Agent, GoOn(pc, ha),
           pc \in {"reget", "statefulset", "deletePod", "status"},
           Copies(ha, agent'),
           ~queued /\ agentCache = agent' => ha = agent',
           pc \in Restored => ha.restoreFailed = "no",
           pc \in Written /\ ~queued /\ stsCache = sts' => Fits(sts', ha.want),
           pc = "reget" => pvc'.api = "present",
           pc \in Restored /\ ha.want.source = "snapshot" => pvc'.api = "present"
    PROVE  IInv'
<1>1. pass' = [pc |-> pc, ha |-> ha] /\ pass' \in Pass /\ queued' = queued
  BY DEF GoOn, Pass
<1>2. TypeOK'
  BY <1>1, FrameKeeps DEF Frame, IInv, TypeOK
<1>3. PassCoherent' /\ PassProgress'
  BY <1>1 DEF PassCoherent, PassProgress, Frame
<1>4. VolumeSeen'
  BY <1>1, FrameKeeps DEF VolumeSeen
<1>5. RestOnSpec'
  BY <1>1 DEF RestOnSpec, Quiescent
<1> QED BY <1>2, <1>3, <1>4, <1>5, FrameKeeps DEF IInv

-----------------------------------------------------------------------------
(* The pass.                                                               *)

\* The frame of a step: the cached copies stay; what the step leaves alone keeps
\* its type.
LEMMA FrameOf ==
    ASSUME IInv, UNCHANGED <<agentCache, stsCache, podCache, ready>>,
           agent' = agent \/ \E ha \in Agent : agent' = StatusWritten(ha),
           sts' \in {sts, StsDeleted} \/ \E uid \in Nat : sts' = StsWritten(uid),
           pod' \in {pod, NoPod},
           pvc' \in {pvc, [pvc EXCEPT !.api = "present"]},
           budget' = budget \/ Fault
    PROVE  Frame
<1>1. agent' \in Agent /\ Moves(agent, agent')
  BY StatusType DEF IInv, TypeOK, Moves
<1>2. sts' \in StatefulSet /\ Moves(sts, sts')
  BY StsType DEF IInv, TypeOK, Moves
<1>3. budget' \in Budget
  BY DEF IInv, TypeOK, Budget, Fault
<1>4. pod' \in Pod
  BY Constants DEF IInv, TypeOK
<1> QED BY <1>1, <1>2, <1>3, <1>4 DEF Frame

LEMMA PassType ==
    ASSUME IInv
    PROVE  /\ pass.ha \in Agent /\ agent \in Agent /\ agentCache \in Agent
           /\ pass = [pc |-> pass.pc, ha |-> pass.ha]
           /\ sts.uid \in Nat /\ sts.rv \in Nat /\ agent.rv \in Nat /\ agentCache.rv \in Nat
           /\ pass.ha.rv \in Nat
BY DEF IInv, TypeOK, Pass, Agent, StatefulSet

LEMMA ReconcileStep ==
    ASSUME IInv, Reconcile
    PROVE  IInv'
<1>1. pass' = [pc |-> "restore", ha |-> agentCache] /\ pass' \in Pass /\ queued' = FALSE
  BY PassType DEF Reconcile, Pass
<1>2. UNCHANGED <<agent, agentCache, sts, stsCache, pod, podCache, pvc, ready, budget>>
  BY DEF Reconcile, At
<1>3. TypeOK'
  BY <1>1, <1>2 DEF IInv, TypeOK
<1>4. CachesCoherent' /\ PassCoherent'
  BY <1>1, <1>2 DEF IInv, CachesCoherent, PassCoherent
<1>5. PassProgress' /\ VolumeSeen' /\ RestOnSpec'
  BY <1>1, <1>2 DEF IInv, PassProgress, VolumeSeen, RestOnSpec, Quiescent, Restored, Written
<1> QED BY <1>3, <1>4, <1>5 DEF IInv

\* The end of the restore loop.
LEMMA RestoreDoneStep ==
    ASSUME IInv, RestoreDone, pass.pc \in {"restore", "reget"},
           UNCHANGED <<agentCache, stsCache, podCache, ready, sts, pod, pvc>>,
           pass.ha.want.source = "snapshot" => pvc.api = "present"
    PROVE  IInv'
<1> DEFINE ha == [pass.ha EXCEPT !.restoreFailed = "no"]
<1>1. /\ ha \in Agent /\ ha.want = pass.ha.want /\ ha.restoreFailed = "no"
      /\ ha.rv = pass.ha.rv
  BY PassType DEF Agent
<1>2. Copies(pass.ha, agent) /\ (~queued /\ agentCache = agent => pass.ha = agent)
  BY DEF IInv, PassCoherent
<1>3. CASE ha = pass.ha
  <2>1. GoOn("statefulset", ha) /\ UNCHANGED <<agent, budget>>
    BY <1>3 DEF RestoreDone
  <2>2. Frame
    BY <2>1, FrameOf
  <2> QED
    BY <1>1, <1>2, <1>3, <2>1, <2>2, GoOnStep DEF Restored, Written
<1>4. CASE ha # pass.ha
  <2>1. UpdateStatus(ha, GoOn("statefulset", StatusWritten(ha)))
    BY <1>4 DEF RestoreDone
  <2> HIDE DEF ha
  <2>2. agent' \in {agent, StatusWritten(ha)} /\ (budget' = budget \/ Fault)
    BY <2>1 DEF UpdateStatus
  <2>3. Frame
    BY <1>1, <2>2, FrameOf
  <2>4. CASE Retry
    BY <2>3, <2>4, RetryStep
  <2>5. CASE ~Retry
    <3>1. /\ ha.rv = agent.rv /\ agent' = StatusWritten(ha)
          /\ GoOn("statefulset", StatusWritten(ha))
      BY <2>1, <2>5 DEF UpdateStatus, Fault, StatusConflict
    <3>2. agent' \in Agent /\ agent'.want = agent.want /\ agent'.restoreFailed = "no"
      BY <1>1, <3>1, StatusType DEF IInv
    <3>3. agent.want = pass.ha.want
      BY <1>1, <1>2, <3>1 DEF Copies
    <3> QED
      BY <1>1, <2>3, <3>1, <3>2, <3>3, GoOnStep DEF Restored, Written, Copies, Agent
  <2> QED BY <2>4, <2>5
<1> QED BY <1>3, <1>4

LEMMA DeleteStep ==
    ASSUME IInv, DeleteStatefulSet, UNCHANGED <<agentCache, stsCache, podCache, ready, agent, pod, pvc>>
    PROVE  IInv'
<1>1. Frame /\ Retry
  BY FrameOf DEF DeleteStatefulSet, Fault
<1> QED BY <1>1, RetryStep

LEMMA ReshapeStep ==
    ASSUME IInv, ReshapeForRestore, pass.pc \in {"restore", "reget"}, pvc.api = "present",
           UNCHANGED <<agentCache, stsCache, podCache, ready>>
    PROVE  IInv'
<1>1. UNCHANGED <<pod, pvc>>
  BY DEF ReshapeForRestore
<1>2. CASE stsCache.uid # 0 /\ stsCache.shape = "claim"
  BY <1>1, <1>2, DeleteStep DEF ReshapeForRestore
<1>3. CASE ~(stsCache.uid # 0 /\ stsCache.shape = "claim")
  BY <1>1, <1>3, RestoreDoneStep DEF ReshapeForRestore
<1> QED BY <1>2, <1>3

LEMMA ProvisionStep ==
    ASSUME IInv, ProvisionRestore
    PROVE  IInv'
<1> DEFINE failed == [pass.ha EXCEPT !.restoreFailed = "yes"]
<1>1. failed \in Agent
  BY PassType DEF Agent
<1>2. UNCHANGED <<agentCache, stsCache, podCache, ready, sts, pod>> /\ pass.pc = "restore"
  BY DEF ProvisionRestore, At
<1>3. CASE ~ready /\ UpdateStatus(failed, Retry) /\ UNCHANGED pvc
  <2> HIDE DEF failed
  <2>1. agent' \in {agent, StatusWritten(failed)} /\ (budget' = budget \/ Fault) /\ Retry
    BY <1>3 DEF UpdateStatus, Fault
  <2>2. Frame
    BY <1>1, <1>2, <1>3, <2>1, FrameOf
  <2> QED BY <2>1, <2>2, RetryStep
<1>4. CASE /\ pvc' = [pvc EXCEPT !.api = "present"]
           /\ GoOn("reget", pass.ha)
           /\ UNCHANGED <<agent, budget>>
  <2>1. Frame
    BY <1>2, <1>4, FrameOf
  <2>2. pvc'.api = "present"
    BY <1>4 DEF IInv, TypeOK
  <2>3. Copies(pass.ha, agent) /\ (~queued /\ agentCache = agent => pass.ha = agent)
    BY <1>2 DEF IInv, PassCoherent
  <2> QED
    BY <1>4, <2>1, <2>2, <2>3, PassType, GoOnStep DEF Restored, Written
<1>5. CASE /\ pvc' \in {pvc, [pvc EXCEPT !.api = IF ready THEN "present" ELSE @]}
           /\ Fault
           /\ UNCHANGED agent
  <2>1. pvc' \in {pvc, [pvc EXCEPT !.api = "present"]}
    BY <1>5 DEF IInv, TypeOK
  <2>2. Frame
    BY <1>2, <1>5, <2>1, FrameOf
  <2> QED BY <1>5, <2>2, RetryStep DEF Fault
<1> QED BY <1>3, <1>4, <1>5 DEF ProvisionRestore

LEMMA RestoreStep ==
    ASSUME IInv, reconcileRestore
    PROVE  IInv'
<1>1. CASE RestoreNotAsked
  BY <1>1, RestoreDoneStep DEF RestoreNotAsked, At
<1>2. CASE RegetRestore
  <2>1. pass.pc = "reget" /\ UNCHANGED <<agentCache, stsCache, podCache, ready>> /\ pvc.api = "present"
    BY <1>2 DEF RegetRestore, At, IInv, VolumeSeen
  <2>2. CASE pvc.cache = "absent"
    <3>1. Frame /\ Retry
      BY <1>2, <2>1, <2>2, FrameOf DEF RegetRestore
    <3> QED BY <3>1, RetryStep
  <2>3. CASE pvc.cache # "absent"
    BY <1>2, <2>1, <2>3, ReshapeStep DEF RegetRestore
  <2> QED BY <2>2, <2>3
<1>3. CASE RestoreProvisioned
  <2>1. pvc.api = "present"
    BY <1>3 DEF RestoreProvisioned, IInv, VolumeSeen
  <2> QED BY <1>3, <2>1, ReshapeStep DEF RestoreProvisioned, At
<1> QED BY <1>1, <1>2, <1>3, ProvisionStep DEF reconcileRestore

\* What every step of the StatefulSet loop may rely on.
LEMMA Behind ==
    ASSUME IInv, pass.pc \in Restored
    PROVE  /\ pass.ha \in Agent
           /\ Copies(pass.ha, agent)
           /\ ~queued /\ agentCache = agent => pass.ha = agent
           /\ pass.ha.restoreFailed = "no"
           /\ pass.ha.want.source = "snapshot" => pvc.api = "present"
<1>1. pass.pc # "idle"
  BY DEF Restored
<1> QED BY <1>1, PassType DEF IInv, PassCoherent, PassProgress, VolumeSeen

\* The loop goes on with the same copy of the agent, after a write that the cache
\* does not show or with a StatefulSet that fits.
LEMMA LoopGoesOn ==
    ASSUME IInv, Frame, pass.pc \in Restored, NEW pc \in Written, GoOn(pc, pass.ha),
           UNCHANGED <<agent, pvc>>,
           ~queued /\ stsCache = sts' => Fits(sts', pass.ha.want)
    PROVE  IInv'
<1>1. pc \in Restored /\ pc # "reget"
  BY DEF Restored, Written
<1>2. pc \in {"reget", "statefulset", "deletePod", "status"}
  BY DEF Written
<1> QED BY <1>1, <1>2, Behind, GoOnStep

LEMMA StatefulSetStep ==
    ASSUME IInv, CreateStatefulSet \/ ReshapeStatefulSet \/ UpdateStatefulSet \/ DeletePod
                   \/ KeepStatefulSet
    PROVE  IInv'
<1>1. CASE CreateStatefulSet
  <2>1. /\ UNCHANGED <<agentCache, stsCache, podCache, ready, agent, pod, pvc>>
        /\ pass.pc \in Restored /\ "status" \in Written
    BY <1>1 DEF CreateStatefulSet, At, Restored, Written
  <2>2. sts.rv + 1 \in Nat
    BY PassType
  <2>3. sts' \in {sts, StsWritten(sts.rv + 1)} /\ (budget' = budget \/ Fault)
    BY <1>1 DEF CreateStatefulSet
  <2>4. Frame
    BY <2>1, <2>2, <2>3, FrameOf
  <2>5. CASE Retry
    BY <2>4, <2>5, RetryStep
  <2>6. CASE ~Retry
    <3>1. sts' = StsWritten(sts.rv + 1) /\ GoOn("status", pass.ha)
      BY <1>1, <2>6 DEF CreateStatefulSet, Fault
    <3>2. stsCache # sts'
      BY <2>1, <2>2, <2>4, <3>1, StsType, FrameKeeps DEF IInv
    <3> QED BY <2>1, <2>4, <3>1, <3>2, LoopGoesOn
  <2> QED BY <2>5, <2>6
<1>2. CASE ReshapeStatefulSet
  BY <1>2, DeleteStep DEF ReshapeStatefulSet, At
<1>3. CASE UpdateStatefulSet
  <2>1. /\ UNCHANGED <<agentCache, stsCache, podCache, ready, agent, pod, pvc>>
        /\ pass.pc \in Restored /\ {"status", "deletePod"} \subseteq Written
    BY <1>3 DEF UpdateStatefulSet, At, Restored, Written
  <2>2. sts' \in {sts, StsWritten(sts.uid)} /\ (budget' = budget \/ Fault)
    BY <1>3 DEF UpdateStatefulSet
  <2>3. Frame
    BY <2>1, <2>2, PassType, FrameOf
  <2>4. CASE Retry
    BY <2>3, <2>4, RetryStep
  <2>5. CASE ~Retry
    <3>1. /\ sts' = StsWritten(sts.uid)
          /\ GoOn(IF podCache.phase = "Running" THEN "status" ELSE "deletePod", pass.ha)
      BY <1>3, <2>5 DEF UpdateStatefulSet, Fault
    <3>2. stsCache # sts'
      BY <2>1, <2>3, <3>1, PassType, StsType, FrameKeeps DEF IInv
    <3> QED BY <2>1, <2>3, <3>1, <3>2, LoopGoesOn
  <2> QED BY <2>4, <2>5
<1>4. CASE DeletePod
  <2>1. /\ UNCHANGED <<agentCache, stsCache, podCache, ready, agent, sts, pvc>>
        /\ pass.pc \in Restored /\ pass.pc \in Written /\ "status" \in Written
    BY <1>4 DEF DeletePod, At, Restored, Written
  <2>2. Frame
    BY <1>4, <2>1, FrameOf DEF DeletePod
  <2>3. CASE Retry
    BY <2>2, <2>3, RetryStep
  <2>4. CASE ~Retry
    <3>1. GoOn("status", pass.ha)
      BY <1>4, <2>4 DEF DeletePod, Fault
    <3>2. ~queued /\ stsCache = sts => Fits(sts, pass.ha.want)
      BY <2>1 DEF IInv, PassProgress
    <3> QED BY <2>1, <2>2, <3>1, <3>2, LoopGoesOn
  <2> QED BY <2>3, <2>4
<1>5. CASE KeepStatefulSet
  <2>1. /\ UNCHANGED <<agentCache, stsCache, podCache, ready, agent, sts, pod, pvc, budget>>
        /\ pass.pc \in Restored /\ "status" \in Written
        /\ Fits(stsCache, pass.ha.want) /\ GoOn("status", pass.ha)
    BY <1>5 DEF KeepStatefulSet, At, Restored, Written, Fits, SameHash
  <2>2. Frame
    BY <2>1, FrameOf
  <2> QED BY <2>1, <2>2, LoopGoesOn
<1> QED BY <1>1, <1>2, <1>3, <1>4, <1>5

\* The last status update: the pass ends on what it has established.
LEMMA PhaseStep ==
    ASSUME IInv, UpdatePhase
    PROVE  IInv'
<1> DEFINE ha == [pass.ha EXCEPT !.phase = deriveStatus(pass.ha.want, podCache)]
<1>1. /\ ha \in Agent /\ ha.want = pass.ha.want /\ ha.restoreFailed = pass.ha.restoreFailed
      /\ ha.rv = pass.ha.rv
  BY PassType DEF Agent, deriveStatus, Phases
<1>2. /\ UNCHANGED <<agentCache, stsCache, podCache, ready, sts, pod, pvc>>
      /\ pass.pc = "status" /\ pass.pc \in Restored /\ pass.pc \in Written
      /\ UpdateStatus(ha, IF ha.phase = "Pending" THEN Retry ELSE Return)
  BY DEF UpdatePhase, At, Restored, Written
<1> HIDE DEF ha
<1>3. agent' \in {agent, StatusWritten(ha)} /\ (budget' = budget \/ Fault)
  BY <1>2 DEF UpdateStatus
<1>4. Frame
  BY <1>1, <1>2, <1>3, FrameOf
<1>5. CASE Retry
  BY <1>4, <1>5, RetryStep
<1>6. CASE ~Retry
  <2>1. ha.rv = agent.rv /\ agent' = StatusWritten(ha) /\ Return
    BY <1>2, <1>6 DEF UpdateStatus, Fault, StatusConflict
  <2>2. pass' = IdlePass /\ queued' = queued
    BY <2>1 DEF Return
  <2>3. pass.ha = agent /\ agent.restoreFailed = "no"
    BY <1>1, <1>2, <2>1, Behind DEF Copies
  <2>4. agent'.want = agent.want /\ agent'.restoreFailed = "no"
    BY <1>1, <2>1, <2>3, StatusType DEF IInv
  <2>5. TypeOK'
    BY <1>4, <2>2, FrameKeeps, Constants DEF Frame, IInv, TypeOK
  <2>6. PassCoherent' /\ PassProgress' /\ VolumeSeen'
    BY <2>2, FrameKeeps, <1>4 DEF IdlePass, PassCoherent, PassProgress, VolumeSeen, Restored, Written
  <2>7. RestOnSpec'
    <3>1. ~queued /\ stsCache = sts => Fits(sts, agent.want)
      BY <1>2, <2>3 DEF IInv, PassProgress
    <3> QED BY <1>2, <2>2, <2>4, <3>1 DEF RestOnSpec, Quiescent, Fits
  <2> QED BY <1>4, <2>5, <2>6, <2>7, FrameKeeps DEF IInv
<1> QED BY <1>5, <1>6

-----------------------------------------------------------------------------
(* Informers, the cluster, users and restarts.                             *)

\* An event wakes the worker: nothing is claimed of the pass any more but that
\* its copy of the agent is coherent.
LEMMA WakeStep ==
    ASSUME IInv, queued' = TRUE, UNCHANGED <<agent, sts, pod, pass, pvc, ready, budget>>,
           agentCache' \in {agentCache, agent}, stsCache' \in {stsCache, sts},
           podCache' = podCache
    PROVE  IInv'
<1>1. TypeOK'
  BY DEF IInv, TypeOK
<1>2. CachesCoherent'
  BY PassType DEF IInv, CachesCoherent, Copies, TypeOK, StatefulSet, Agent
<1>3. PassCoherent' /\ PassProgress' /\ VolumeSeen' /\ RestOnSpec'
  BY DEF IInv, PassCoherent, PassProgress, VolumeSeen, RestOnSpec, Quiescent
<1> QED BY <1>1, <1>2, <1>3 DEF IInv

\* What is neither watched nor read by the pass changes on its own.
LEMMA UnwatchedStep ==
    ASSUME IInv, UNCHANGED <<agent, agentCache, sts, stsCache, pass, queued>>,
           pod' \in Pod, podCache' \in Pod, ready' \in BOOLEAN, budget' \in Budget,
           pvc' = pvc \/ pvc' = [pvc EXCEPT !.cache = pvc.api]
    PROVE  IInv'
<1>1. /\ pvc' \in [api : {"absent", "present"}, cache : {"absent", "present"}]
      /\ pvc'.api = pvc.api /\ (pvc'.cache = "present" => pvc'.api = "present")
  BY DEF IInv, TypeOK, VolumeSeen
<1>2. TypeOK'
  BY <1>1 DEF IInv, TypeOK
<1>3. CachesCoherent' /\ PassCoherent' /\ PassProgress' /\ RestOnSpec'
  BY DEF IInv, CachesCoherent, PassCoherent, PassProgress, RestOnSpec, Quiescent
<1>4. VolumeSeen'
  BY <1>1 DEF IInv, VolumeSeen
<1> QED BY <1>2, <1>3, <1>4 DEF IInv

\* Somebody else writes the agent or the StatefulSet: the caches are behind.
LEMMA OutsideWrite ==
    ASSUME IInv, UNCHANGED <<agentCache, stsCache, pod, podCache, pvc, ready, queued, pass, budget>>,
           agent' \in Agent, agent' = agent \/ agent'.rv = agent.rv + 1,
           sts' \in StatefulSet, sts' = sts \/ sts'.rv = sts.rv + 1
    PROVE  IInv'
<1>1. Frame
  BY DEF IInv, TypeOK, Frame, Moves
<1>2. TypeOK'
  BY DEF IInv, TypeOK
<1>3. PassCoherent'
  <2>1. ASSUME pass.pc # "idle"
        PROVE  Copies(pass.ha, agent')
    BY <1>1, <2>1, PassType, CopiesMove DEF Frame, IInv, PassCoherent
  <2> QED BY <1>1, <2>1, FrameKeeps DEF IInv, PassCoherent
<1>4. PassProgress' /\ VolumeSeen' /\ RestOnSpec'
  BY <1>1, FrameKeeps DEF IInv, PassProgress, VolumeSeen, RestOnSpec, Quiescent
<1> QED BY <1>1, <1>2, <1>3, <1>4, FrameKeeps DEF IInv

LEMMA ClusterStep ==
    ASSUME IInv, Cluster \/ PodEvicted
    PROVE  IInv'
<1>1. CASE StsReportsStatus
  <2>1. sts' \in StatefulSet /\ sts'.rv = sts.rv + 1
    <3>1. sts \in StatefulSet /\ sts.rv + 1 \in Nat /\ pod.podReady \in {"yes", "no"}
      BY DEF IInv, TypeOK, StatefulSet, Pod
    <3> QED BY <1>1, <3>1 DEF StsReportsStatus, StatefulSet
  <2> QED BY <1>1, <2>1, OutsideWrite, PassType DEF StsReportsStatus
<1>2. CASE ~StsReportsStatus
  <2>1. PodChanges /\ (budget' = budget \/ PodEvicted)
    BY <1>2 DEF Cluster, StsCreatesPod, StsDeletesPod, CollectPod, PodStarts, PodReady, PodEvicted
  <2>2. pod' \in Pod
    <3>1. pod \in Pod /\ sts.rev \in Rev \cup {0} /\ sts.uid \in Nat
      BY DEF IInv, TypeOK, StatefulSet
    <3> QED
      BY <1>2, <3>1, Constants DEF Cluster, StsCreatesPod, StsDeletesPod, CollectPod, PodStarts,
           PodReady, PodEvicted, Pod
  <2>3. budget' \in Budget
    BY <2>1 DEF PodEvicted, IInv, TypeOK, Budget
  <2>4. podCache' \in Pod /\ ready' \in BOOLEAN /\ pvc' = pvc
    BY <2>1 DEF PodChanges, IInv, TypeOK
  <2> QED BY <2>1, <2>2, <2>3, <2>4, UnwatchedStep DEF PodChanges
<1> QED BY <1>1, <1>2

LEMMA EditStep ==
    ASSUME IInv, EditSpec
    PROVE  IInv'
<1>1. PICK r \in Replicas, s \in Sources :
         agent' = [agent EXCEPT !.want = [rev |-> @.rev + 1, replicas |-> r, source |-> s],
                                !.rv = @ + 1]
  BY DEF EditSpec
<1>2. agent.want.rev + 1 \in Rev
  BY RolloutAssumption DEF EditSpec, IInv, TypeOK, Agent, Want, Rev
<1>3. agent' \in Agent /\ agent'.rv = agent.rv + 1
  <2>1. agent.rv + 1 \in Nat
    BY PassType
  <2>2. [rev |-> agent.want.rev + 1, replicas |-> r, source |-> s] \in Want
    BY <1>2, RolloutAssumption DEF Want
  <2> QED BY <1>1, <2>1, <2>2, PassType DEF Agent
<1> QED BY <1>3, OutsideWrite DEF EditSpec, IInv, TypeOK

LEMMA RestartStep ==
    ASSUME IInv, Restart
    PROVE  IInv'
<1>1. budget' \in Budget
  BY DEF Restart, IInv, TypeOK, Budget
<1>2. /\ pvc' \in [api : {"absent", "present"}, cache : {"absent", "present"}]
      /\ pvc'.cache = pvc'.api
  BY DEF Restart, IInv, TypeOK
<1>3. TypeOK'
  BY <1>1, <1>2, Constants DEF Restart, IInv, TypeOK
<1>4. CachesCoherent'
  BY PassType DEF Restart, CachesCoherent, Copies
<1>5. PassCoherent' /\ PassProgress' /\ VolumeSeen' /\ RestOnSpec'
  BY <1>2 DEF Restart, IdlePass, PassCoherent, PassProgress, VolumeSeen, RestOnSpec, Quiescent,
       Restored, Written
<1> QED BY <1>3, <1>4, <1>5 DEF IInv

-----------------------------------------------------------------------------
(* The theorems.                                                           *)

LEMMA NextInv ==
    ASSUME IInv, [Next]_vars
    PROVE  IInv'
<1>1. CASE Worker
  BY <1>1, ReconcileStep, RestoreStep, StatefulSetStep, PhaseStep
     DEF Worker, reconcileStatefulSet
<1>2. CASE DeliverAgent
  BY <1>2, WakeStep DEF DeliverAgent
<1>3. CASE DeliverSts
  BY <1>3, WakeStep DEF DeliverSts
<1>4. CASE DeliverPod
  BY <1>4, UnwatchedStep DEF DeliverPod, IInv, TypeOK
<1>5. CASE DeliverPvc
  BY <1>5, UnwatchedStep DEF DeliverPvc, IInv, TypeOK
<1>6. CASE SnapshotReady
  BY <1>6, UnwatchedStep DEF SnapshotReady, IInv, TypeOK
<1>7. CASE UNCHANGED vars
  BY <1>7, UnwatchedStep DEF vars, IInv, TypeOK
<1> QED
  BY <1>1, <1>2, <1>3, <1>4, <1>5, <1>6, <1>7, ClusterStep, EditStep, RestartStep DEF Next

\* The inductive invariant of the workload: coherent copies, what an uninterrupted
\* pass has established, and the restored PVC behind the restore loop.
THEOREM RolloutInductive == Spec => []IInv
<1>1. Init => IInv
  BY InitInv
<1>2. IInv /\ [Next]_vars => IInv'
  BY NextInv
<1> QED BY <1>1, <1>2, PTL DEF Spec

\* Every reachable state is well typed: what the loops write to the StatefulSet and
\* the status has the form that the code reads back.
THEOREM RolloutTypeCorrect == Spec => []TypeOK
<1>1. IInv => TypeOK
  BY DEF IInv
<1> QED BY <1>1, RolloutInductive, PTL

\* However deletions, recreations, conflicts, faults and restarts interleave, an
\* operator that goes to rest has left the StatefulSet the spec asks for.
THEOREM RestsOnSpec == Spec => []RestOnSpec
<1>1. IInv => RestOnSpec
  BY DEF IInv
<1> QED BY <1>1, RolloutInductive, PTL

\* Only a pass deletes the StatefulSet, and one that restores has seen the PVC.
LEMMA DeletesAfterVolume ==
    ASSUME IInv, [Next]_vars, sts.uid # 0, sts'.uid = 0, pass.ha.want.source = "snapshot"
    PROVE  pvc.api = "present"
<1>1. sts' # sts
  OBVIOUS
<1>2. CASE reconcileRestore
  BY <1>1, <1>2 DEF reconcileRestore, RestoreNotAsked, ProvisionRestore, RegetRestore,
       RestoreProvisioned, At, IInv, VolumeSeen
<1>3. CASE reconcileStatefulSet
  <2>1. pass.pc \in Restored
    BY <1>3 DEF reconcileStatefulSet, CreateStatefulSet, ReshapeStatefulSet, UpdateStatefulSet,
         DeletePod, KeepStatefulSet, UpdatePhase, At, Restored
  <2> QED BY <2>1 DEF IInv, VolumeSeen
<1>4. CASE StsReportsStatus
  BY <1>4 DEF StsReportsStatus, IInv, TypeOK, StatefulSet
<1> QED
  BY <1>1, <1>2, <1>3, <1>4 DEF Next, vars, Worker, Reconcile, DeliverAgent, DeliverSts, DeliverPod,
       DeliverPvc, Cluster, StsCreatesPod, StsDeletesPod, CollectPod, PodStarts, PodReady, PodEvicted,
       PodChanges, EditSpec, SnapshotReady, Restart

\* The agent keeps its current volume until the restored one exists: no StatefulSet
\* is taken down for a restore before its PVC was created.
THEOREM VolumeKept == Spec => VolumeBeforeReshape
<1>1. IInv /\ [Next]_vars =>
        [(sts.uid # 0 /\ sts'.uid = 0 /\ pass.ha.want.source = "snapshot")
             => pvc.api = "present"]_vars
  BY DeletesAfterVolume
<1> QED BY <1>1, RolloutInductive, PTL DEF VolumeBeforeReshape, Spec
=============================================================================
