----------------------- MODULE ManagedResourcesProofs -----------------------
(***************************************************************************)
(* Proofs about ManagedResources for every pipeline of loops, every set of *)
(* specs and every bound.                                                  *)
(***************************************************************************)
EXTENDS ManagedResources, TLAPS

-----------------------------------------------------------------------------
(* The pipeline.                                                           *)

\* Positions of the pipeline hold loops, and the last one is the StatefulSet.
LEMMA LoopPosition ==
    /\ Last \in Nat \ {0}
    /\ \A n \in 1..Last : LoopOrder[n] \in Loops
    /\ LoopOrder[Last] = "StatefulSet"
    /\ \A l \in Loops : \E n \in 1..Last : l = LoopOrder[n]
<1>1. Last \in Nat /\ Last # 0
  BY LoopOrderAssumption DEF Last
<1> QED
  BY <1>1, LoopOrderAssumption DEF Loops

\* The objects of a loop: two for the Role loop, one for every other.
LEMMA LoopObjects ==
    ASSUME NEW l \in Loops
    PROVE  /\ l = "Role" =>
                /\ Len(Objs(l)) = 2
                /\ Objs(l)[1] = "Role" /\ Objs(l)[2] = "RoleBinding"
                /\ "Role" \in Objects /\ "RoleBinding" \in Objects
           /\ l # "Role" => Len(Objs(l)) = 1 /\ Objs(l)[1] = l
           /\ l \in Objects /\ LoopOf(l) = l
           /\ \A o \in Objects : LoopOf(o) = l =>
                o = l \/ (l = "Role" /\ o = "RoleBinding")
BY LoopOrderAssumption DEF Objs, Objects, LoopOf

\* Every object belongs to a loop.
LEMMA ObjectLoop == \A o \in Objects : LoopOf(o) \in Loops
BY LoopOrderAssumption DEF Objects, LoopOf

\* The object a loop step works on: creation order when the loop is wanted,
\* the reverse when it is not.
CurrentObject ==
    IF pass.ha.want[Loop] = Absent THEN Objs(Loop)[Len(Objs(Loop)) + 1 - pass.j]
                                   ELSE Objs(Loop)[pass.j]

LEMMA CurrentObjectType ==
    ASSUME TypeOK, PassShape
    PROVE  /\ Loop \in Loops
           /\ CurrentObject \in Objects
           /\ LoopOf(CurrentObject) = Loop
           /\ pass.j <= Len(Objs(Loop))
<1>1. Loop \in Loops
  BY LoopPosition DEF TypeOK, Pass, Loop
<1>2. pass.j \in {1, 2}
  BY DEF TypeOK, Pass
<1>3. CASE Loop = "Role"
  <2>1. /\ Len(Objs(Loop)) = 2
        /\ Objs(Loop)[1] = "Role" /\ Objs(Loop)[2] = "RoleBinding"
        /\ "Role" \in Objects /\ "RoleBinding" \in Objects
    BY <1>1, <1>3, LoopObjects
  <2>2. CurrentObject \in {"Role", "RoleBinding"}
    <3>1. CASE pass.j = 1
      BY <2>1, <3>1 DEF CurrentObject
    <3>2. CASE pass.j = 2
      BY <2>1, <3>2 DEF CurrentObject
    <3> QED
      BY <1>2, <3>1, <3>2
  <2> QED
    BY <1>1, <1>2, <1>3, <2>1, <2>2 DEF LoopOf
<1>4. CASE Loop # "Role"
  <2>1. pass.j = 1
    BY <1>2, <1>4 DEF PassShape
  <2> QED
    BY <1>1, <1>4, <2>1, LoopObjects DEF CurrentObject
<1> QED
  BY <1>3, <1>4

\* The specs of the instance.
LEMMA WantType ==
    ASSUME NEW w \in Wants
    PROVE  /\ w \in [Loops -> Nat \cup {Absent, Invalid}]
           /\ \A l \in AlwaysWanted : w[l] # Absent
           /\ \A l \in Loops : w[l] = Invalid => l = "HermesConfigMap"
BY WantsAssumption

-----------------------------------------------------------------------------
(* What one step of a loop does, whichever loop it is.                     *)

\* Settled in the state after the step, for an object and a spec of the
\* state before it.
SettledAfter(o, w) ==
    \/ objectCache'[o].rv # objects'[o].rv
    \/ Matches(o, w, objectCache')

LoopStep ==
    /\ pass.pc = "loop"
    /\ UNCHANGED <<agent, agentCache, objectCache, queued>>
    /\ budget' \in Budget
    /\ \/ objects' = objects
       \/ \E s, h \in Nat \cup {Absent} : objects' = Written(CurrentObject, s, h)
    /\ \/ \E e \in Errors : pass' = Failed(e)
       \/ /\ SettledAfter(CurrentObject, pass.ha.want)
          /\ \E c \in SUBSET Objects, record \in BOOLEAN :
               /\ pass' = ObjectDone(c, record)
               /\ Loop = "StatefulSet" => record
               /\ pass.ha.want[Loop] = Absent => record

\* The budget keeps its type when a fault is spent.
LEMMA CallEffect ==
    ASSUME TypeOK, NEW after, NEW done, Call(after, done)
    PROVE  /\ budget' \in Budget
           /\ objects' = objects \/ objects' = after
           /\ \/ pass' = Failed("Unavailable")
              \/ pass' = done /\ objects' = after
BY DEF TypeOK, Call, Budget

LEMMA RejectedEffect ==
    ASSUME TypeOK, NEW e, Rejected(e)
    PROVE  budget' \in Budget /\ objects' = objects /\ pass' = Failed(e)
BY DEF TypeOK, Rejected

\* A write moves its object past the version the cache can hold.
LEMMA WrittenSettles ==
    ASSUME TypeOK, CachesCoherent, NEW o \in Objects, NEW s, NEW h, NEW w,
           objects' = Written(o, s, h), objectCache' = objectCache
    PROVE  SettledAfter(o, w)
<1>1. objects'[o].rv = objects[o].rv + 1
  BY DEF TypeOK, Written, Object
<1>2. objectCache[o].rv <= objects[o].rv /\ objectCache[o].rv \in Nat /\ objects[o].rv \in Nat
  BY DEF CachesCoherent, TypeOK, Object
<1> QED
  BY <1>1, <1>2 DEF SettledAfter

\* A wanted object: Ensure creates it, updates it or finds it right.
LEMMA EnsureEffect ==
    ASSUME TypeOK, PassShape, CachesCoherent,
           pass.pc = "loop",
           UNCHANGED <<agent, agentCache, objectCache, queued>>,
           pass.ha.want[Loop] \notin {Absent, Invalid},
           Ensure(Loop)
    PROVE  LoopStep
<1> DEFINE o == CurrentObject
<1> DEFINE w == pass.ha.want
<1>1. Loop \in Loops /\ o \in Objects /\ LoopOf(o) = Loop
  BY CurrentObjectType
<1>2. w[Loop] \in Nat
  <2>1. w \in Wants
    BY DEF TypeOK, Pass, Agent
  <2> QED
    BY <1>1, <2>1, WantType
<1>3. BuildSpec(o) \in Nat /\ BuildHash(o) \in Nat \cup {Absent}
  <2>1. objects[o].rv \in Nat
    BY <1>1 DEF TypeOK, Object
  <2>2. objectCache["HermesConfigMap"].spec \in Nat \cup {Absent}
    BY LoopOrderAssumption DEF TypeOK, Object, Objects
  <2> QED
    BY <1>1, <1>2, <2>1, <2>2 DEF BuildSpec, BuildHash
<1>4. Loop = "StatefulSet" => o = "StatefulSet"
  BY <1>1, LoopObjects
<1>5. pass.created \subseteq Objects
  BY DEF TypeOK, Pass
<1>6. CreateObject(o) \/ UpdateObject(o) \/ KeepObject(o)
  BY DEF Ensure, CurrentObject
<1> HIDE DEF o
<1>7. CASE CreateObject(o)
  <2>1. CASE objects[o].spec # Absent
    BY <1>7, <2>1, RejectedEffect DEF CreateObject, LoopStep, Errors
  <2>2. CASE ~(objects[o].spec # Absent)
    <3>1. Call(Written(o, BuildSpec(o), BuildHash(o)), ObjectDone(pass.created \cup {o}, TRUE))
      BY <1>7, <2>2 DEF CreateObject
    <3>2. /\ budget' \in Budget
          /\ objects' = objects \/ objects' = Written(o, BuildSpec(o), BuildHash(o))
          /\ \/ pass' = Failed("Unavailable")
             \/ /\ pass' = ObjectDone(pass.created \cup {o}, TRUE)
                /\ objects' = Written(o, BuildSpec(o), BuildHash(o))
      BY <3>1, CallEffect
    <3>3. objects' = Written(o, BuildSpec(o), BuildHash(o)) => SettledAfter(o, w)
      BY <1>1, WrittenSettles
    <3>4. pass' = ObjectDone(pass.created \cup {o}, TRUE) =>
            \E c \in SUBSET Objects, record \in BOOLEAN :
               /\ pass' = ObjectDone(c, record)
               /\ Loop = "StatefulSet" => record
               /\ pass.ha.want[Loop] = Absent => record
      BY <1>1, <1>5
    <3> QED
      BY <1>3, <3>2, <3>3, <3>4 DEF LoopStep, Errors, o
  <2> QED
    BY <2>1, <2>2
<1>8. CASE UpdateObject(o)
  <2>1. CASE objects[o].rv # objectCache[o].rv
    BY <1>8, <2>1, RejectedEffect DEF UpdateObject, LoopStep, Errors
  <2>2. CASE ~(objects[o].rv # objectCache[o].rv)
    <3> DEFINE done == ObjectDone(pass.created, pass.created # {} \/ o = "StatefulSet")
    <3>1. Call(Written(o, BuildSpec(o), BuildHash(o)), done)
      BY <1>8, <2>2 DEF UpdateObject
    <3> HIDE DEF done
    <3>2. /\ budget' \in Budget
          /\ objects' = objects \/ objects' = Written(o, BuildSpec(o), BuildHash(o))
          /\ \/ pass' = Failed("Unavailable")
             \/ /\ pass' = done
                /\ objects' = Written(o, BuildSpec(o), BuildHash(o))
      BY <3>1, CallEffect
    <3>3. objects' = Written(o, BuildSpec(o), BuildHash(o)) => SettledAfter(o, w)
      BY <1>1, WrittenSettles
    <3>4. pass' = done =>
            \E c \in SUBSET Objects, record \in BOOLEAN :
               /\ pass' = ObjectDone(c, record)
               /\ Loop = "StatefulSet" => record
               /\ pass.ha.want[Loop] = Absent => record
      BY <1>4, <1>5 DEF done
    <3> QED
      BY <1>3, <3>2, <3>3, <3>4 DEF LoopStep, Errors, o
  <2> QED
    BY <2>1, <2>2
<1>9. CASE KeepObject(o)
  <2>1. /\ Exists(o) /\ SameContent(o)
        /\ pass' = ObjectDone(pass.created, pass.created # {} \/ o = "StatefulSet")
        /\ objects' = objects /\ budget' = budget
    BY <1>9 DEF KeepObject
  <2>2. Matches(o, w, objectCache)
    <3>1. o \notin Minted =>
            /\ objectCache[o].spec = w[LoopOf(o)]
            /\ objectCache[o].configHash = IF o = "StatefulSet"
                  THEN objectCache["HermesConfigMap"].spec ELSE Absent
      BY <2>1 DEF SameContent, BuildSpec, BuildHash
    <3> QED
      BY <1>1, <2>1, <3>1 DEF Matches, Exists
  <2>3. Matches(o, w, objectCache')
    BY <2>2
  <2>4. \E c \in SUBSET Objects, record \in BOOLEAN :
               /\ pass' = ObjectDone(c, record)
               /\ Loop = "StatefulSet" => record
               /\ pass.ha.want[Loop] = Absent => record
    BY <1>4, <1>5, <2>1
  <2>5. budget' \in Budget
    BY <2>1 DEF TypeOK
  <2> QED
    BY <2>1, <2>3, <2>4, <2>5 DEF LoopStep, SettledAfter, o
<1> QED
  BY <1>6, <1>7, <1>8, <1>9

\* An unwanted object: Drop deletes what the cache shows.
LEMMA DropEffect ==
    ASSUME TypeOK, PassShape, CachesCoherent,
           pass.pc = "loop",
           UNCHANGED <<agent, agentCache, objectCache, queued>>,
           pass.ha.want[Loop] = Absent,
           Drop(Loop)
    PROVE  LoopStep
<1> DEFINE o == CurrentObject
<1> DEFINE w == pass.ha.want
<1>1. Loop \in Loops /\ o \in Objects /\ LoopOf(o) = Loop
  BY CurrentObjectType
<1>2. IF Exists(o)
      THEN DeleteObject(o)
      ELSE pass' = ObjectDone({}, TRUE) /\ UNCHANGED <<objects, budget>>
  BY DEF Drop, CurrentObject
<1>3. pass' = ObjectDone({}, TRUE) =>
        \E c \in SUBSET Objects, record \in BOOLEAN :
           /\ pass' = ObjectDone(c, record)
           /\ Loop = "StatefulSet" => record
           /\ pass.ha.want[Loop] = Absent => record
  OBVIOUS
<1> HIDE DEF o
<1>4. CASE Exists(o)
  <2> DEFINE after == IF objects[o].spec = Absent THEN objects
                      ELSE Written(o, Absent, Absent)
  <2>1. Call(after, ObjectDone({}, TRUE))
    BY <1>2, <1>4 DEF DeleteObject
  <2> HIDE DEF after
  <2>2. /\ budget' \in Budget
        /\ objects' = objects \/ objects' = after
        /\ \/ pass' = Failed("Unavailable")
           \/ pass' = ObjectDone({}, TRUE) /\ objects' = after
    BY <2>1, CallEffect
  <2>3. objects' = after => SettledAfter(o, w)
    <3> USE DEF after
    <3>1. CASE objects[o].spec = Absent
      <4>1. objectCache[o].rv # objects[o].rv
        BY <1>1, <1>4, <3>1 DEF CachesCoherent, Exists
      <4> QED
        BY <3>1, <4>1 DEF SettledAfter
    <3>2. CASE objects[o].spec # Absent
      BY <1>1, <3>2, WrittenSettles
    <3> QED
      BY <3>1, <3>2
  <2>4. after = objects \/ after = Written(o, Absent, Absent)
    BY DEF after
  <2>5. objects' = objects \/ \E s, h \in Nat \cup {Absent} : objects' = Written(o, s, h)
    BY <2>2, <2>4
  <2>6. \/ \E e \in Errors : pass' = Failed(e)
        \/ SettledAfter(o, w) /\ pass' = ObjectDone({}, TRUE)
    BY <2>2, <2>3 DEF Errors
  <2> QED
    BY <1>3, <2>2, <2>5, <2>6 DEF LoopStep, o
<1>5. CASE ~Exists(o)
  <2>1. Matches(o, w, objectCache)
    BY <1>1, <1>5 DEF Matches, Exists
  <2>2. budget' \in Budget
    BY <1>2, <1>5 DEF TypeOK
  <2> QED
    BY <1>2, <1>3, <1>5, <2>1, <2>2 DEF LoopStep, SettledAfter, o
<1> QED
  BY <1>4, <1>5

\* Whichever loop runs, it makes a LoopStep.
LEMMA RunLoopEffect ==
    ASSUME TypeOK, PassShape, CachesCoherent, RunLoop
    PROVE  LoopStep
<1>1. Loop \in Loops
  BY CurrentObjectType
<1>2. pass.ha.want \in Wants
  BY DEF TypeOK, Pass, Agent
<1>3. pass.pc = "loop" /\ UNCHANGED <<agent, agentCache, objectCache, queued>>
  BY DEF RunLoop, ReconcileOptional, InLoop, reconcileHermesConfigMap,
         reconcileHermesSecret, reconcileSearXNGConfigMap, reconcileSearXNGSecret,
         reconcileServiceAccount, reconcileRole, reconcileService,
         reconcileIngress, reconcileNetworkPolicy, reconcileStatefulSet
<1>4. CASE Loop = "HermesConfigMap" /\ reconcileHermesConfigMap
  <2>1. CASE pass.ha.want[Loop] = Invalid
    <3>1. Rejected("InvalidConfig")
      BY <1>4, <2>1 DEF reconcileHermesConfigMap
    <3> QED
      BY <1>3, <3>1, RejectedEffect DEF LoopStep, Errors
  <2>2. CASE pass.ha.want[Loop] # Invalid
    <3>1. Ensure(Loop)
      BY <1>4, <2>2 DEF reconcileHermesConfigMap
    <3>2. pass.ha.want[Loop] \notin {Absent, Invalid}
      BY <1>1, <1>2, <1>4, <2>2, WantType DEF AlwaysWanted
    <3> QED
      BY <1>3, <3>1, <3>2, EnsureEffect
  <2> QED
    BY <2>1, <2>2
<1>5. CASE Loop \in {"HermesSecret", "StatefulSet"} /\ Ensure(Loop)
  <2>1. pass.ha.want[Loop] \notin {Absent, Invalid}
    BY <1>1, <1>2, <1>5, WantType DEF AlwaysWanted
  <2> QED
    BY <1>3, <1>5, <2>1, EnsureEffect
<1>6. CASE Loop # "HermesConfigMap" /\ ReconcileOptional(Loop)
  <2>1. CASE pass.ha.want[Loop] = Absent
    BY <1>3, <1>6, <2>1, DropEffect DEF ReconcileOptional
  <2>2. CASE pass.ha.want[Loop] # Absent
    <3>1. pass.ha.want[Loop] # Invalid
      BY <1>1, <1>2, <1>6, WantType
    <3> QED
      BY <1>3, <1>6, <2>2, <3>1, EnsureEffect DEF ReconcileOptional
  <2> QED
    BY <2>1, <2>2
<1>7. \/ Loop = "HermesConfigMap" /\ reconcileHermesConfigMap
      \/ Loop \in {"HermesSecret", "StatefulSet"} /\ Ensure(Loop)
      \/ Loop # "HermesConfigMap" /\ ReconcileOptional(Loop)
  BY DEF RunLoop, ReconcileOptional, InLoop, reconcileHermesConfigMap,
         reconcileHermesSecret, reconcileSearXNGConfigMap, reconcileSearXNGSecret,
         reconcileServiceAccount, reconcileRole, reconcileService,
         reconcileIngress, reconcileNetworkPolicy, reconcileStatefulSet
<1> QED
  BY <1>4, <1>5, <1>6, <1>7

-----------------------------------------------------------------------------
(* Type correctness.                                                       *)

\* Where a successful loop step leaves the pass.
LEMMA ObjectDoneEffect ==
    ASSUME TypeOK, PassShape, pass.pc = "loop",
           NEW c \in SUBSET Objects, NEW record \in BOOLEAN,
           Loop = "StatefulSet" => record,
           NEW p, p = ObjectDone(c, record)
    PROVE  /\ p \in Pass
           /\ p.ha = pass.ha
           /\ \/ /\ p.pc = "loop" /\ p.i = pass.i /\ p.j = 2
                 /\ pass.j = 1 /\ Loop = "Role"
              \/ /\ p.pc = "record" /\ p.i = pass.i /\ p.j = pass.j /\ record
                 /\ pass.j = Len(Objs(Loop))
              \/ /\ p.pc = "loop" /\ p.i = pass.i + 1 /\ p.j = 1 /\ ~record
                 /\ pass.j = Len(Objs(Loop))
<1>1. Loop \in Loops /\ pass.j <= Len(Objs(Loop)) /\ pass.j \in {1, 2}
  BY CurrentObjectType DEF TypeOK, Pass
<1>2. Len(Objs(Loop)) \in {1, 2} /\ (Len(Objs(Loop)) = 2 => Loop = "Role")
  BY <1>1, LoopObjects
<1>3. pass.i \in 1..Last /\ (pass.i = Last => Loop = "StatefulSet") /\ Last \in Nat
  BY LoopPosition DEF TypeOK, Pass, Loop
<1>4. pass \in Pass /\ pass.ha \in Agent
  BY DEF TypeOK, Pass
<1>5. CASE pass.j < Len(Objs(Loop))
  <2>1. p = [pass EXCEPT !.j = 2, !.created = c]
    BY <1>5 DEF ObjectDone
  <2>2. p \in Pass
    BY <1>4, <2>1 DEF Pass
  <2>3. p.ha = pass.ha /\ p.pc = pass.pc /\ p.i = pass.i /\ p.j = 2
    BY <1>4, <2>1 DEF Pass
  <2>4. pass.j = 1 /\ Loop = "Role"
    <3> DEFINE len == Len(Objs(Loop))
    <3>1. pass.j \in {1, 2} /\ len \in {1, 2} /\ pass.j < len
      BY <1>1, <1>2, <1>5
    <3>2. len = 2
      <4> HIDE DEF len
      <4> QED BY <3>1
    <3>3. pass.j = 1
      BY <3>1, <3>2
    <3> QED
      BY <1>2, <3>2, <3>3
  <2> QED
    BY <2>2, <2>3, <2>4
<1>6. CASE ~(pass.j < Len(Objs(Loop))) /\ record
  <2>1. p = [pass EXCEPT !.pc = "record", !.created = c]
    BY <1>6 DEF ObjectDone
  <2>2. p \in Pass
    BY <1>4, <2>1 DEF Pass
  <2>3. p.ha = pass.ha /\ p.pc = "record" /\ p.i = pass.i /\ p.j = pass.j
    BY <1>4, <2>1 DEF Pass
  <2>4. pass.j = Len(Objs(Loop))
    BY <1>1, <1>2, <1>6
  <2> QED
    BY <1>6, <2>2, <2>3, <2>4
<1>7. CASE ~(pass.j < Len(Objs(Loop))) /\ ~record
  <2>1. p = [pass EXCEPT !.pc = "loop", !.i = pass.i + 1, !.j = 1, !.created = {},
                         !.ha = pass.ha]
    BY <1>7 DEF ObjectDone, NextLoop
  <2>2. pass.i + 1 \in 1..Last
    BY <1>3, <1>7
  <2>3. p \in Pass
    BY <1>4, <2>1, <2>2 DEF Pass
  <2>4. p.ha = pass.ha /\ p.pc = "loop" /\ p.i = pass.i + 1 /\ p.j = 1
    BY <1>4, <2>1 DEF Pass
  <2>5. pass.j = Len(Objs(Loop))
    BY <1>1, <1>2, <1>7
  <2> QED
    BY <1>7, <2>3, <2>4, <2>5
<1> QED
  BY <1>5, <1>6, <1>7

\* A status update leaves the spec alone and moves the version only when it
\* changes something.
LEMMA StatusWrittenEffect ==
    ASSUME TypeOK, NEW ha \in Agent
    PROVE  LET a == StatusWritten(ha)
           IN  /\ a \in Agent
               /\ a.want = agent.want /\ a.gen = agent.gen
               /\ a.managed = ha.managed /\ a.ready = ha.ready
               /\ a = agent \/ a.rv = agent.rv + 1
<1> DEFINE a == StatusWritten(ha)
<1>1. agent \in Agent
  BY DEF TypeOK
<1>2. CASE ha.managed = agent.managed /\ ha.ready = agent.ready
  BY <1>1, <1>2 DEF StatusWritten
<1>3. CASE ~(ha.managed = agent.managed /\ ha.ready = agent.ready)
  <2>1. a = [agent EXCEPT !.managed = ha.managed, !.ready = ha.ready, !.rv = @ + 1]
    BY <1>3 DEF StatusWritten
  <2> HIDE DEF a
  <2>2. a \in Agent /\ a.rv = agent.rv + 1
    <3>1. ha.managed \in SUBSET Objects /\ ha.ready \in ReadyCondition
      BY DEF Agent
    <3>2. agent.rv + 1 \in Nat
      BY <1>1 DEF Agent
    <3>3. a = [agent EXCEPT !.managed = ha.managed, !.ready = ha.ready,
                            !.rv = agent.rv + 1]
      BY <2>1
    <3> QED
      BY <1>1, <3>1, <3>2, <3>3 DEF Agent
  <2>3. a.want = agent.want /\ a.gen = agent.gen
    BY <1>1, <2>1 DEF Agent
  <2>4. a.managed = ha.managed /\ a.ready = ha.ready
    BY <1>1, <2>1 DEF Agent
  <2> QED
    BY <2>2, <2>3, <2>4 DEF a
<1> QED
  BY <1>2, <1>3

\* What a loop sets in the status before it writes it.
LEMMA RecordedEffect ==
    ASSUME TypeOK, PassShape
    PROVE  LET ha == Recorded(pass.ha)
           IN  /\ ha \in Agent
               /\ ha.want = pass.ha.want /\ ha.gen = pass.ha.gen /\ ha.rv = pass.ha.rv
               /\ pass.ha.want[Loop] = Absent =>
                    /\ ha.managed \subseteq pass.ha.managed
                    /\ \A o \in Objects : LoopOf(o) = Loop => o \notin ha.managed
               /\ ha.managed \subseteq
                    pass.ha.managed \cup {o \in Objects : LoopOf(o) = Loop}
               /\ Loop = "StatefulSet" =>
                    ha.ready.status = "True" /\ ha.ready.gen = pass.ha.gen
               /\ Loop # "StatefulSet" => ha.ready = pass.ha.ready
<1> DEFINE objs == {Objs(Loop)[n] : n \in 1..Len(Objs(Loop))}
<1> DEFINE ready == IF Loop = "StatefulSet"
                    THEN [status |-> "True", reason |-> "None",
                          message |-> "None", gen |-> pass.ha.gen]
                    ELSE pass.ha.ready
<1> DEFINE m == IF pass.ha.want[Loop] = Absent THEN pass.ha.managed \ objs
                ELSE pass.ha.managed \cup objs
<1>1. Loop \in Loops /\ pass.ha \in Agent
  BY CurrentObjectType DEF TypeOK, Pass
<1>2. objs = {o \in Objects : LoopOf(o) = Loop}
  <2>1. CASE Loop = "Role"
    <3>1. /\ Len(Objs(Loop)) = 2
          /\ Objs(Loop)[1] = "Role" /\ Objs(Loop)[2] = "RoleBinding"
      BY <1>1, <2>1, LoopObjects
    <3>2. objs = {"Role", "RoleBinding"}
      BY <3>1
    <3>3. {o \in Objects : LoopOf(o) = Loop} = {"Role", "RoleBinding"}
      BY <1>1, <2>1, LoopObjects DEF LoopOf
    <3> QED
      BY <3>2, <3>3
  <2>2. CASE Loop # "Role"
    <3>1. Len(Objs(Loop)) = 1 /\ Objs(Loop)[1] = Loop
      BY <1>1, <2>2, LoopObjects
    <3>2. objs = {Loop}
      BY <3>1
    <3>3. {o \in Objects : LoopOf(o) = Loop} = {Loop}
      BY <1>1, <2>2, LoopObjects
    <3> QED
      BY <3>2, <3>3
  <2> QED
    BY <2>1, <2>2
<1>3. ready \in ReadyCondition
  <2>1. pass.ha.ready \in ReadyCondition /\ pass.ha.gen \in Nat
    BY <1>1 DEF Agent
  <2> QED
    BY <2>1 DEF ReadyCondition
<1>4. m \subseteq Objects
  <2>1. pass.ha.managed \subseteq Objects
    BY <1>1 DEF Agent
  <2> QED
    BY <1>2, <2>1
<1>5. Recorded(pass.ha) = [pass.ha EXCEPT !.managed = m, !.ready = ready]
  BY DEF Recorded
<1> HIDE DEF m, ready
<1>6. /\ Recorded(pass.ha) \in Agent
      /\ Recorded(pass.ha).managed = m /\ Recorded(pass.ha).ready = ready
      /\ Recorded(pass.ha).want = pass.ha.want
      /\ Recorded(pass.ha).gen = pass.ha.gen /\ Recorded(pass.ha).rv = pass.ha.rv
  BY <1>1, <1>3, <1>4, <1>5 DEF Agent
<1>7. /\ pass.ha.want[Loop] = Absent =>
           m \subseteq pass.ha.managed /\ \A o \in Objects : LoopOf(o) = Loop => o \notin m
      /\ m \subseteq pass.ha.managed \cup {o \in Objects : LoopOf(o) = Loop}
  BY <1>2 DEF m
<1>8. /\ Loop = "StatefulSet" => ready.status = "True" /\ ready.gen = pass.ha.gen
      /\ Loop # "StatefulSet" => ready = pass.ha.ready
  BY DEF ready
<1> QED
  BY <1>6, <1>7, <1>8

\* A failed step only changes where the pass is and why.
LEMMA FailedEffect ==
    ASSUME TypeOK, NEW e \in Errors
    PROVE  /\ Failed(e) \in Pass
           /\ Failed(e).pc = "fail" /\ Failed(e).ha = pass.ha
           /\ Failed(e).i = pass.i /\ Failed(e).j = pass.j
<1>1. pass \in Pass
  BY DEF TypeOK
<1> QED
  BY <1>1 DEF Failed, Pass

\* The constants of the initial state have their types.
LEMMA InitialValues ==
    /\ NewAgent \in Agent
    /\ NoObject \in Object
    /\ IdlePass \in Pass
    /\ IdlePass.pc = "idle" /\ IdlePass.i = 1 /\ IdlePass.j = 1 /\ IdlePass.ha = NewAgent
<1>1. NewAgent \in Agent
  BY WantsAssumption DEF NewAgent, NotReady, Agent, ReadyCondition
<1>2. 1 \in 1..Last
  BY LoopPosition
<1> QED
  BY <1>1, <1>2 DEF NoObject, Object, IdlePass, Pass

-----------------------------------------------------------------------------
(* The four structural conjuncts of IInv, preserved together: types, the   *)
(* shape of the pass, and the coherence of the caches and of the pass.     *)

Structure == TypeOK /\ PassShape /\ CachesCoherent /\ PassCoherent

LEMMA StructureInit == Init => Structure
<1> SUFFICES ASSUME Init PROVE Structure
  OBVIOUS
<1>1. TypeOK
  BY InitialValues, BoundsAssumption DEF Init, TypeOK, Budget
<1>2. pass.pc = "idle" /\ pass.j = 1
  BY InitialValues DEF Init
<1>3. CachesCoherent
  BY <1>1 DEF Init, CachesCoherent, TypeOK, Object, Agent
<1> QED
  BY <1>1, <1>2, <1>3 DEF Structure, PassShape, PassCoherent

\* Objects written one at a time stay typed and ahead of the cache.
LEMMA WrittenCoherent ==
    ASSUME Structure, NEW o \in Objects,
           NEW s \in Nat \cup {Absent}, NEW h \in Nat \cup {Absent},
           objects' = Written(o, s, h),
           UNCHANGED <<agent, agentCache, objectCache>>
    PROVE  objects' \in [Objects -> Object] /\ CachesCoherent'
<1>1. objects \in [Objects -> Object]
  BY DEF Structure, TypeOK
<1>2. objects' = [objects EXCEPT ![o] = [spec |-> s, configHash |-> h,
                                         rv |-> objects[o].rv + 1]]
  BY DEF Written
<1>3. [spec |-> s, configHash |-> h, rv |-> objects[o].rv + 1] \in Object
  BY <1>1 DEF Object
<1>4. objects' \in [Objects -> Object]
  BY <1>1, <1>2, <1>3
<1>5. ASSUME NEW q \in Objects
      PROVE  /\ objectCache'[q].rv <= objects'[q].rv
             /\ objectCache'[q].rv = objects'[q].rv => objectCache'[q] = objects'[q]
  <2>1. /\ objectCache[q].rv <= objects[q].rv
        /\ objectCache[q].rv = objects[q].rv => objectCache[q] = objects[q]
        /\ objectCache[q].rv \in Nat /\ objects[q].rv \in Nat
    BY DEF Structure, CachesCoherent, TypeOK, Object
  <2>2. CASE q = o
    <3>1. objects'[q].rv = objects[q].rv + 1
      BY <1>1, <1>2, <2>2 DEF Object
    <3> QED
      BY <2>1, <3>1
  <2>3. CASE q # o
    BY <1>1, <1>2, <2>1, <2>3
  <2> QED
    BY <2>2, <2>3
<1> QED
  BY <1>4, <1>5 DEF Structure, CachesCoherent

\* The agent in the API server moves on; its cached copy does not.
LEMMA AgentCoherent ==
    ASSUME Structure, agent' \in Agent,
           agent' = agent \/ agent'.rv = agent.rv + 1,
           UNCHANGED <<agentCache, objects, objectCache>>
    PROVE  CachesCoherent'
<1>1. agentCache.rv \in Nat /\ agent.rv \in Nat /\ agentCache.rv <= agent.rv
  BY DEF Structure, TypeOK, Agent, CachesCoherent
<1>2. agentCache'.rv <= agent'.rv /\ (agentCache'.rv = agent'.rv => agentCache' = agent')
  BY <1>1 DEF Structure, CachesCoherent
<1> QED
  BY <1>2 DEF Structure, CachesCoherent

LEMMA StructureLoop ==
    ASSUME Structure, RunLoop
    PROVE  Structure'
<1>1. LoopStep
  BY RunLoopEffect DEF Structure
<1>2. CurrentObject \in Objects
  BY CurrentObjectType DEF Structure
<1>3. objects' \in [Objects -> Object] /\ CachesCoherent'
  <2>1. CASE objects' = objects
    BY <1>1, <2>1 DEF LoopStep, Structure, TypeOK, CachesCoherent
  <2>2. CASE objects' # objects
    <3>1. PICK s \in Nat \cup {Absent}, h \in Nat \cup {Absent} :
             objects' = Written(CurrentObject, s, h)
      BY <1>1, <2>2 DEF LoopStep
    <3> QED
      BY <1>1, <1>2, <3>1, WrittenCoherent DEF LoopStep
  <2> QED
    BY <2>1, <2>2
<1>4. /\ pass' \in Pass /\ pass'.ha = pass.ha /\ pass.pc # "idle"
      /\ pass'.j = 2 => (pass'.i = pass.i /\ Loop = "Role")
  <2>1. CASE \E e \in Errors : pass' = Failed(e)
    BY <1>1, <2>1, FailedEffect DEF LoopStep, Structure, PassShape
  <2>2. CASE ~(\E e \in Errors : pass' = Failed(e))
    <3>1. PICK c \in SUBSET Objects, record \in BOOLEAN :
            pass' = ObjectDone(c, record) /\ (Loop = "StatefulSet" => record)
      BY <1>1, <2>2 DEF LoopStep
    <3>2. pass.pc = "loop"
      BY <1>1 DEF LoopStep
    <3> QED
      BY <3>1, <3>2, ObjectDoneEffect DEF Structure, PassShape
  <2> QED
    BY <2>1, <2>2
<1>5. PassShape'
  BY <1>4 DEF PassShape, Loop
<1>6. TypeOK'
  BY <1>1, <1>3, <1>4 DEF LoopStep, Structure, TypeOK
<1>7. PassCoherent'
  BY <1>1, <1>4 DEF LoopStep, Structure, PassCoherent
<1> QED
  BY <1>3, <1>5, <1>6, <1>7 DEF Structure

LEMMA StructureUpdateStatus ==
    ASSUME Structure, UpdateStatus
    PROVE  Structure'
<1> DEFINE ha == Recorded(pass.ha)
<1> DEFINE done == StatusWritten(ha)
<1> USE DEF Structure
<1>1. /\ ha \in Agent
      /\ ha.want = pass.ha.want /\ ha.gen = pass.ha.gen /\ ha.rv = pass.ha.rv
  BY RecordedEffect
<1>2. /\ done \in Agent
      /\ done.want = agent.want /\ done.gen = agent.gen
      /\ done = agent \/ done.rv = agent.rv + 1
  BY <1>1, StatusWrittenEffect
<1>3. /\ pass.pc = "record"
      /\ \/ /\ agent' = done
            /\ pass' = IF pass.i = Last THEN IdlePass ELSE NextLoop(done)
            /\ budget' = budget
         \/ /\ pass' = [Failed("Conflict") EXCEPT !.ha = ha]
            /\ agent' = agent /\ budget' = budget
         \/ /\ budget.faults > 0
            /\ agent' = agent \/ agent' = done
            /\ pass' = [Failed("Unavailable") EXCEPT !.ha = ha]
            /\ budget' = [budget EXCEPT !.faults = @ - 1]
      /\ UNCHANGED <<agentCache, objects, objectCache, queued>>
  BY DEF UpdateStatus
<1> HIDE DEF ha, done
<1>4. agent' \in Agent /\ (agent' = agent \/ agent'.rv = agent.rv + 1)
      /\ agent'.want = agent.want /\ agent'.gen = agent.gen
  BY <1>2, <1>3 DEF TypeOK
<1>5. budget' \in Budget
  BY <1>3 DEF TypeOK, Budget
<1>6. CachesCoherent'
  BY <1>3, <1>4, AgentCoherent
<1>7. pass \in Pass /\ pass.i \in 1..Last /\ Last \in Nat
  BY LoopPosition DEF TypeOK, Pass
<1>8. pass' \in Pass /\ PassShape' /\ PassCoherent'
  <2>1. CASE agent' = done /\ pass' = IdlePass
    BY <2>1, InitialValues DEF PassShape, PassCoherent
  <2>2. CASE agent' = done /\ pass.i # Last /\ pass' = NextLoop(done)
    <3>1. pass.i + 1 \in 1..Last
      BY <1>7, <2>2
    <3>2. pass' \in Pass /\ pass'.ha = done /\ pass'.j = 1
      BY <1>2, <1>7, <2>2, <3>1 DEF NextLoop, Pass
    <3>3. done.rv \in Nat
      BY <1>2 DEF Agent
    <3> QED
      BY <2>2, <3>2, <3>3 DEF PassShape, PassCoherent
  <2>3. ASSUME NEW e \in Errors, pass' = [Failed(e) EXCEPT !.ha = ha]
        PROVE  pass' \in Pass /\ PassShape' /\ PassCoherent'
    <3>1. /\ Failed(e) \in Pass
          /\ Failed(e).i = pass.i /\ Failed(e).j = pass.j
      BY FailedEffect
    <3>2. /\ pass' \in Pass /\ pass'.ha = ha
          /\ pass'.i = pass.i /\ pass'.j = pass.j
      BY <1>1, <2>3, <3>1 DEF Pass
    <3>3. PassShape'
      BY <3>2 DEF PassShape, Loop
    <3>4. /\ pass.ha.rv <= agent.rv
          /\ pass.ha.rv = agent.rv => pass.ha.want = agent.want /\ pass.ha.gen = agent.gen
          /\ pass.ha.rv \in Nat /\ agent.rv \in Nat
      BY <1>3 DEF PassCoherent, TypeOK, Pass, Agent
    <3>5. PassCoherent'
      BY <1>1, <1>4, <3>2, <3>4 DEF PassCoherent
    <3> QED
      BY <3>2, <3>3, <3>5
  <2> QED
    BY <1>3, <2>1, <2>2, <2>3 DEF Errors
<1> QED
  BY <1>3, <1>4, <1>5, <1>6, <1>8 DEF TypeOK

\* What the deferred markReconcileFailed does to the agent.
LEMMA MarkFailedEffect ==
    ASSUME Structure, markReconcileFailed
    PROVE  /\ agent' \in Agent
           /\ agent' = agent \/ agent'.rv = agent.rv + 1
           /\ agent'.want = agent.want /\ agent'.gen = agent.gen
           /\ budget' \in Budget
           /\ pass' = IdlePass /\ queued' = TRUE
           /\ UNCHANGED <<agentCache, objects, objectCache>>
<1> USE DEF Structure
<1> DEFINE ready == [status |-> "False", reason |-> Loop, message |-> pass.err,
                     gen |-> pass.ha.gen]
<1> DEFINE ha == [pass.ha EXCEPT !.ready = ready]
<1>1. pass.ha \in Agent /\ pass.err \in Errors \cup {"None"} /\ Loop \in Loops
  BY CurrentObjectType DEF TypeOK, Pass
<1>2. pass.ha.gen \in Nat
  BY <1>1 DEF Agent
<1>3. ready \in ReadyCondition
  BY <1>1, <1>2 DEF ReadyCondition
<1>4. /\ pass.pc = "fail"
      /\ \/ agent' = agent /\ budget' = budget
         \/ agent' = StatusWritten(ha) /\ budget' = budget
         \/ /\ budget.faults > 0 /\ agent' = agent
            /\ budget' = [budget EXCEPT !.faults = @ - 1]
      /\ pass' = IdlePass /\ queued' = TRUE
      /\ UNCHANGED <<agentCache, objects, objectCache>>
  BY DEF markReconcileFailed
<1> HIDE DEF ready
<1>5. ha \in Agent
  BY <1>1, <1>3 DEF Agent
<1> HIDE DEF ha
<1>6. /\ StatusWritten(ha) \in Agent
      /\ StatusWritten(ha).want = agent.want /\ StatusWritten(ha).gen = agent.gen
      /\ StatusWritten(ha) = agent \/ StatusWritten(ha).rv = agent.rv + 1
  BY <1>5, StatusWrittenEffect
<1>7. budget' \in Budget
  BY <1>4 DEF TypeOK, Budget
<1> QED
  BY <1>4, <1>6, <1>7 DEF TypeOK

LEMMA StructureMarkFailed ==
    ASSUME Structure, markReconcileFailed
    PROVE  Structure'
<1>1. CachesCoherent'
  BY MarkFailedEffect, AgentCoherent
<1>2. TypeOK'
  BY MarkFailedEffect, InitialValues DEF Structure, TypeOK
<1>3. pass' = IdlePass
  BY MarkFailedEffect
<1>4. pass'.pc = "idle" /\ pass'.j = 1
  BY <1>3, InitialValues
<1> QED
  BY <1>1, <1>2, <1>4 DEF Structure, PassShape, PassCoherent

LEMMA StructureReconcile ==
    ASSUME Structure, Reconcile
    PROVE  Structure'
<1> USE DEF Structure
<1>1. pass' \in Pass /\ pass'.ha = agentCache /\ pass'.j = 1
  BY InitialValues DEF Reconcile, TypeOK, Pass
<1>2. TypeOK'
  BY <1>1 DEF Reconcile, TypeOK
<1>3. CachesCoherent'
  BY DEF Reconcile, CachesCoherent
<1>4. PassCoherent'
  BY <1>1 DEF Reconcile, CachesCoherent, PassCoherent
<1> QED
  BY <1>1, <1>2, <1>3, <1>4 DEF PassShape

LEMMA StructureDeliver ==
    ASSUME Structure,
           DeliverAgent \/ \E o \in Objects : DeliverObject(o)
    PROVE  Structure'
<1> USE DEF Structure
<1>1. CASE DeliverAgent
  <2>1. TypeOK' /\ PassShape' /\ PassCoherent'
    BY <1>1 DEF DeliverAgent, TypeOK, PassShape, PassCoherent, Loop
  <2>2. CachesCoherent'
    BY <1>1 DEF DeliverAgent, CachesCoherent, TypeOK, Agent
  <2> QED
    BY <2>1, <2>2
<1>2. CASE \E o \in Objects : DeliverObject(o)
  <2>1. PICK o \in Objects : DeliverObject(o)
    BY <1>2
  <2>2. objectCache' = [objectCache EXCEPT ![o] = objects[o]]
        /\ UNCHANGED <<agent, agentCache, objects, pass, budget>> /\ queued' = TRUE
    BY <2>1 DEF DeliverObject
  <2>3. TypeOK' /\ PassShape' /\ PassCoherent'
    BY <2>2 DEF TypeOK, PassShape, PassCoherent, Loop
  <2>4. ASSUME NEW q \in Objects
        PROVE  /\ objectCache'[q].rv <= objects'[q].rv
               /\ objectCache'[q].rv = objects'[q].rv => objectCache'[q] = objects'[q]
    BY <2>2 DEF CachesCoherent, TypeOK, Object
  <2> QED
    BY <2>2, <2>3, <2>4 DEF CachesCoherent
<1> QED
  BY <1>1, <1>2

LEMMA StructureEditSpec ==
    ASSUME Structure, EditSpec
    PROVE  Structure' /\ agent'.rv = agent.rv + 1
<1> USE DEF Structure
<1>1. PICK w \in Wants :
        agent' = [agent EXCEPT !.gen = agent.gen + 1, !.want = w, !.rv = agent.rv + 1]
  BY DEF EditSpec
<1>2. agent \in Agent /\ agent.gen + 1 \in Nat /\ agent.rv + 1 \in Nat
  BY DEF TypeOK, Agent
<1>3. agent' \in Agent /\ agent'.rv = agent.rv + 1
  BY <1>1, <1>2 DEF Agent
<1>4. UNCHANGED <<agentCache, objects, objectCache, pass, queued, budget>>
  BY DEF EditSpec
<1>5. CachesCoherent'
  BY <1>3, <1>4, AgentCoherent
<1>6. PassCoherent'
  <2> SUFFICES ASSUME pass.pc # "idle"
               PROVE  /\ pass.ha.rv <= agent'.rv
                      /\ pass.ha.rv # agent'.rv
    BY <1>4 DEF PassCoherent
  <2>1. pass.ha.rv <= agent.rv /\ pass.ha.rv \in Nat /\ agent.rv \in Nat
    BY DEF PassCoherent, TypeOK, Pass, Agent
  <2> QED
    BY <1>3, <2>1
<1> QED
  BY <1>3, <1>4, <1>5, <1>6 DEF TypeOK, PassShape, Loop

LEMMA StructureDeleteManaged ==
    ASSUME Structure, NEW o \in Objects, DeleteManaged(o)
    PROVE  Structure'
<1> USE DEF Structure
<1>1. /\ objects' = Written(o, Absent, Absent)
      /\ budget.drift > 0 /\ budget' = [budget EXCEPT !.drift = @ - 1]
      /\ UNCHANGED <<agent, agentCache, objectCache, pass, queued>>
  BY DEF DeleteManaged
<1>2. objects' \in [Objects -> Object] /\ CachesCoherent'
  BY <1>1, WrittenCoherent
<1>3. budget' \in Budget
  BY <1>1 DEF TypeOK, Budget
<1> QED
  BY <1>1, <1>2, <1>3 DEF TypeOK, PassShape, PassCoherent, Loop

LEMMA StructureRestart ==
    ASSUME Structure, Restart
    PROVE  Structure'
<1> USE DEF Structure
<1>1. budget' \in Budget
  BY DEF Restart, TypeOK, Budget
<1>2. TypeOK'
  BY <1>1, InitialValues DEF Restart, TypeOK
<1>3. CachesCoherent'
  BY DEF Restart, CachesCoherent, TypeOK, Object, Agent
<1> QED
  BY <1>2, <1>3, InitialValues DEF Restart, PassShape, PassCoherent

LEMMA StructureNext == Structure /\ [Next]_vars => Structure'
<1> SUFFICES ASSUME Structure, [Next]_vars PROVE Structure'
  OBVIOUS
<1>1. CASE RunLoop
  BY <1>1, StructureLoop
<1>2. CASE UpdateStatus
  BY <1>2, StructureUpdateStatus
<1>3. CASE markReconcileFailed
  BY <1>3, StructureMarkFailed
<1>4. CASE Reconcile
  BY <1>4, StructureReconcile
<1>5. CASE DeliverAgent \/ \E o \in Objects : DeliverObject(o)
  BY <1>5, StructureDeliver
<1>6. CASE EditSpec
  BY <1>6, StructureEditSpec
<1>7. CASE \E o \in Objects : DeleteManaged(o)
  BY <1>7, StructureDeleteManaged
<1>8. CASE Restart
  BY <1>8, StructureRestart
<1>9. CASE UNCHANGED vars
  BY <1>9 DEF vars, Structure, TypeOK, PassShape, CachesCoherent, PassCoherent, Loop
<1> QED
  BY <1>1, <1>2, <1>3, <1>4, <1>5, <1>6, <1>7, <1>8, <1>9
     DEF Next, Worker, Environment

\* Every variable keeps its type: no sequence of edits, faults and restarts
\* takes the pass out of its pipeline or a status out of its vocabulary.
THEOREM TypeCorrect == Spec => []TypeOK
<1>1. Structure => TypeOK
  BY DEF Structure
<1> QED
  BY <1>1, StructureInit, StructureNext, PTL DEF Spec

-----------------------------------------------------------------------------
(* Progress: what a pass has settled stays settled until an event arrives. *)

Progress == Structure /\ PassProgress /\ IdleSettled

LEMMA ProgressInit == Init => Progress
BY StructureInit DEF Init, Progress, PassProgress, IdleSettled

\* An object written by anybody, or left alone, stays settled as long as the
\* caches do not move.
LEMMA SettledStable ==
    ASSUME Structure, NEW q \in Objects, NEW w, NEW o \in Objects,
           objects' = objects \/ \E s, h \in Nat \cup {Absent} :
                                   objects' = Written(o, s, h),
           objectCache' = objectCache,
           Settled(q, w)
    PROVE  SettledAfter(q, w)
<1>1. CASE objects' = objects
  BY <1>1 DEF Settled, SettledAfter
<1>2. ASSUME NEW s, NEW h, objects' = Written(o, s, h)
      PROVE  SettledAfter(q, w)
  <2>1. CASE q = o
    BY <1>2, <2>1, WrittenSettles DEF Structure
  <2>2. CASE q # o
    <3>1. objects'[q] = objects[q]
      BY <1>2, <2>2 DEF Written, Structure, TypeOK
    <3> QED
      BY <3>1 DEF Settled, SettledAfter
  <2> QED
    BY <2>1, <2>2
<1> QED
  BY <1>1, <1>2

\* PassProgress of the state after a step, spelled out with SettledAfter.
LEMMA PassProgressAfter ==
    ASSUME pass'.ha.want = agentCache'.want,
           pass'.ha.gen = agentCache'.gen,
           \A n \in 1..(pass'.i - 1) :
             /\ \A q \in Objects :
                  LoopOf(q) = LoopOrder[n] => SettledAfter(q, pass'.ha.want)
             /\ Unlisted(LoopOrder[n], pass'.ha.want, pass'.ha.managed),
           pass'.pc = "record" =>
             \A q \in Objects :
               LoopOf(q) = LoopOrder[pass'.i] => SettledAfter(q, pass'.ha.want),
           (pass'.pc = "loop" /\ pass'.j = 2) =>
             SettledAfter(IF pass'.ha.want[LoopOrder[pass'.i]] = Absent
                          THEN "RoleBinding" ELSE "Role", pass'.ha.want)
    PROVE  PassProgress'
BY DEF PassProgress, SettledLoop, Settled, SettledAfter, Loop

LEMMA ProgressLoop ==
    ASSUME Progress, RunLoop
    PROVE  Progress'
<1> DEFINE w == pass.ha.want
<1>1. Structure' /\ Structure
  BY StructureLoop DEF Progress
<1>2. LoopStep
  BY RunLoopEffect DEF Progress, Structure
<1>3. /\ Loop \in Loops /\ CurrentObject \in Objects /\ LoopOf(CurrentObject) = Loop
  BY <1>1, CurrentObjectType DEF Structure
<1>4. ASSUME NEW q \in Objects, Settled(q, w) PROVE SettledAfter(q, w)
  BY <1>1, <1>2, <1>3, <1>4, SettledStable DEF LoopStep
<1>5. /\ pass.pc = "loop" /\ queued' = queued /\ agentCache' = agentCache
      /\ agent' = agent /\ objectCache' = objectCache
  BY <1>2 DEF LoopStep
<1>6. CASE \E e \in Errors : pass' = Failed(e)
  <2>1. pass'.pc = "fail"
    BY <1>1, <1>6, FailedEffect DEF Structure
  <2> QED
    BY <1>1, <2>1 DEF Progress, PassProgress, IdleSettled
<1>7. CASE ~(\E e \in Errors : pass' = Failed(e))
  <2>1. PICK c \in SUBSET Objects, record \in BOOLEAN :
          /\ pass' = ObjectDone(c, record)
          /\ Loop = "StatefulSet" => record
          /\ w[Loop] = Absent => record
    BY <1>2, <1>7 DEF LoopStep
  <2>2. SettledAfter(CurrentObject, w)
    BY <1>2, <1>7 DEF LoopStep
  <2>3. /\ pass'.ha = pass.ha
        /\ \/ /\ pass'.pc = "loop" /\ pass'.i = pass.i /\ pass'.j = 2
              /\ pass.j = 1 /\ Loop = "Role"
           \/ /\ pass'.pc = "record" /\ pass'.i = pass.i /\ pass'.j = pass.j /\ record
              /\ pass.j = Len(Objs(Loop))
           \/ /\ pass'.pc = "loop" /\ pass'.i = pass.i + 1 /\ pass'.j = 1 /\ ~record
              /\ pass.j = Len(Objs(Loop))
    BY <1>1, <1>5, <2>1, ObjectDoneEffect DEF Structure
  <2>4. IdleSettled'
    BY <2>3 DEF IdleSettled
  <2>5. SUFFICES ASSUME ~queued
                 PROVE  PassProgress'
    BY <1>1, <1>5, <2>4 DEF Progress, PassProgress
  <2>6. /\ w = agentCache.want
        /\ pass.ha.gen = agentCache.gen
        /\ \A n \in 1..(pass.i - 1) :
             /\ SettledLoop(LoopOrder[n], w)
             /\ Unlisted(LoopOrder[n], w, pass.ha.managed)
        /\ pass.j = 2 =>
             Settled(IF w[Loop] = Absent THEN "RoleBinding" ELSE "Role", w)
    BY <1>5, <2>5 DEF Progress, PassProgress
  <2>7. ASSUME NEW n \in 1..(pass.i - 1), NEW q \in Objects, LoopOf(q) = LoopOrder[n]
        PROVE  SettledAfter(q, w)
    BY <1>4, <2>6, <2>7 DEF SettledLoop
  <2>8. pass.j = Len(Objs(Loop)) =>
          \A q \in Objects : LoopOf(q) = Loop => SettledAfter(q, w)
    <3> SUFFICES ASSUME pass.j = Len(Objs(Loop)), NEW q \in Objects, LoopOf(q) = Loop
                 PROVE  SettledAfter(q, w)
      OBVIOUS
    <3>1. CASE Loop # "Role"
      <4>1. q = Loop /\ CurrentObject = Loop
        BY <1>3, <3>1, LoopObjects
      <4> QED
        BY <2>2, <4>1
    <3>2. CASE Loop = "Role"
      <4>1. /\ Len(Objs(Loop)) = 2
            /\ Objs(Loop)[1] = "Role" /\ Objs(Loop)[2] = "RoleBinding"
            /\ "Role" \in Objects /\ "RoleBinding" \in Objects
            /\ q \in {"Role", "RoleBinding"}
        BY <1>3, <3>2, LoopObjects
      <4>2. pass.j = 2
        BY <4>1
      <4>3. CASE w[Loop] = Absent
        <5>1. CurrentObject = "Role"
          BY <4>1, <4>2, <4>3 DEF CurrentObject
        <5>2. SettledAfter("RoleBinding", w)
          BY <1>4, <2>6, <4>1, <4>2, <4>3
        <5> QED
          BY <2>2, <4>1, <5>1, <5>2
      <4>4. CASE w[Loop] # Absent
        <5>1. CurrentObject = "RoleBinding"
          BY <4>1, <4>2, <4>4 DEF CurrentObject
        <5>2. SettledAfter("Role", w)
          BY <1>4, <2>6, <4>1, <4>2, <4>4
        <5> QED
          BY <2>2, <4>1, <5>1, <5>2
      <4> QED
        BY <4>3, <4>4
    <3> QED
      BY <3>1, <3>2
  <2>9. /\ pass'.ha.want = w /\ pass'.ha.gen = pass.ha.gen
        /\ pass'.ha.managed = pass.ha.managed
    BY <2>3
  <2>10. Loop = LoopOrder[pass.i] /\ pass.i \in 1..Last /\ Last \in Nat
    BY <1>1, LoopPosition DEF Structure, TypeOK, Pass, Loop
  <2> HIDE DEF w
  <2>11. CASE /\ pass'.pc = "loop" /\ pass'.i = pass.i /\ pass'.j = 2
              /\ pass.j = 1 /\ Loop = "Role"
    <3>1. CurrentObject = IF w[Loop] = Absent THEN "RoleBinding" ELSE "Role"
      <4>1. /\ Len(Objs(Loop)) = 2
            /\ Objs(Loop)[1] = "Role" /\ Objs(Loop)[2] = "RoleBinding"
        BY <1>3, <2>11, LoopObjects
      <4> QED
        BY <2>11, <4>1 DEF CurrentObject, w
    <3>2. pass'.pc # "record"
      BY <2>11
    <3> QED
      BY <1>5, <2>2, <2>6, <2>7, <2>9, <2>10, <2>11, <3>1, <3>2, PassProgressAfter
  <2>12. CASE /\ pass'.pc = "record" /\ pass'.i = pass.i
              /\ pass.j = Len(Objs(Loop))
    BY <1>5, <2>6, <2>7, <2>8, <2>9, <2>10, <2>12, PassProgressAfter
  <2>13. CASE /\ pass'.pc = "loop" /\ pass'.i = pass.i + 1 /\ pass'.j = 1 /\ ~record
              /\ pass.j = Len(Objs(Loop))
    <3>1. Unlisted(Loop, w, pass.ha.managed)
      BY <2>1, <2>13 DEF Unlisted
    <3>2. ASSUME NEW n \in 1..(pass'.i - 1)
          PROVE  /\ \A q \in Objects : LoopOf(q) = LoopOrder[n] => SettledAfter(q, w)
                 /\ Unlisted(LoopOrder[n], w, pass.ha.managed)
      <4>1. n \in 1..(pass.i - 1) \/ n = pass.i
        BY <2>10, <2>13
      <4> QED
        BY <2>6, <2>7, <2>8, <2>10, <2>13, <3>1, <4>1
    <3>3. pass'.pc # "record" /\ pass'.j # 2
      BY <2>13
    <3> QED
      BY <1>5, <2>6, <2>9, <3>2, <3>3, PassProgressAfter
  <2> QED
    BY <2>3, <2>11, <2>12, <2>13
<1> QED
  BY <1>6, <1>7

\* A successful status update settles its loop; the StatefulSet's, the last
\* one, leaves the whole agent settled.
LEMMA ProgressUpdateStatus ==
    ASSUME Progress, UpdateStatus
    PROVE  Progress'
<1> DEFINE w == pass.ha.want
<1> DEFINE ha == Recorded(pass.ha)
<1> DEFINE done == StatusWritten(ha)
<1>1. Structure' /\ Structure
  BY StructureUpdateStatus DEF Progress
<1>2. /\ ha \in Agent
      /\ ha.want = w /\ ha.gen = pass.ha.gen /\ ha.rv = pass.ha.rv
      /\ w[Loop] = Absent =>
           /\ ha.managed \subseteq pass.ha.managed
           /\ \A o \in Objects : LoopOf(o) = Loop => o \notin ha.managed
      /\ ha.managed \subseteq pass.ha.managed \cup {o \in Objects : LoopOf(o) = Loop}
      /\ Loop = "StatefulSet" => ha.ready.status = "True" /\ ha.ready.gen = pass.ha.gen
  BY <1>1, RecordedEffect DEF Structure
<1>3. /\ done.want = agent.want /\ done.gen = agent.gen
      /\ done.managed = ha.managed /\ done.ready = ha.ready
  BY <1>1, <1>2, StatusWrittenEffect DEF Structure
<1>4. /\ pass.pc = "record"
      /\ UNCHANGED <<agentCache, objects, objectCache, queued>>
      /\ \/ /\ ha.rv = agent.rv /\ agent' = done
            /\ pass' = IF pass.i = Last THEN IdlePass ELSE NextLoop(done)
         \/ \E e \in Errors : pass' = [Failed(e) EXCEPT !.ha = ha]
  BY DEF UpdateStatus, StatusConflict, Errors
<1>5. CASE \E e \in Errors : pass' = [Failed(e) EXCEPT !.ha = ha]
  <2>1. PICK e \in Errors : pass' = [Failed(e) EXCEPT !.ha = ha]
    BY <1>5
  <2>2. Failed(e) \in Pass /\ Failed(e).pc = "fail"
    BY <1>1, FailedEffect DEF Structure
  <2>3. pass'.pc = "fail"
    BY <2>1, <2>2 DEF Pass
  <2> QED
    BY <1>1, <2>3 DEF Progress, PassProgress, IdleSettled
<1>6. CASE /\ ha.rv = agent.rv /\ agent' = done
           /\ pass' = IF pass.i = Last THEN IdlePass ELSE NextLoop(done)
  <2>1. w = agent.want /\ pass.ha.gen = agent.gen
    BY <1>1, <1>2, <1>4, <1>6 DEF Structure, PassCoherent
  <2>2. /\ Loop = LoopOrder[pass.i] /\ Loop \in Loops
        /\ pass.i \in 1..Last /\ Last \in Nat /\ pass \in Pass
    BY <1>1, LoopPosition DEF Structure, TypeOK, Pass, Loop
  <2>3. CASE queued
    <3>1. queued'
      BY <1>4, <2>3
    <3> QED
      BY <1>1, <3>1 DEF Progress, PassProgress, IdleSettled
  <2>4. CASE ~queued
    <3>1. /\ w = agentCache.want /\ pass.ha.gen = agentCache.gen
          /\ \A n \in 1..(pass.i - 1) :
               /\ \A q \in Objects : LoopOf(q) = LoopOrder[n] => Settled(q, w)
               /\ Unlisted(LoopOrder[n], w, pass.ha.managed)
          /\ \A q \in Objects : LoopOf(q) = Loop => Settled(q, w)
      BY <1>4, <2>4 DEF Progress, PassProgress, SettledLoop
    <3>2. \A q \in Objects : Settled(q, w) => SettledAfter(q, w)
      BY <1>4 DEF Settled, SettledAfter
    <3>3. ASSUME NEW n \in 1..pass.i
          PROVE  /\ \A q \in Objects : LoopOf(q) = LoopOrder[n] => SettledAfter(q, w)
                 /\ Unlisted(LoopOrder[n], w, ha.managed)
      <4> HIDE DEF ha
      <4>1. CASE n = pass.i
        <5>1. Unlisted(Loop, w, ha.managed)
          BY <1>2 DEF Unlisted
        <5> QED
          BY <2>2, <3>1, <3>2, <4>1, <5>1
      <4>2. CASE n # pass.i
        <5>1. n \in 1..(pass.i - 1) /\ n \in 1..Last
          BY <2>2, <4>2
        <5>2. LoopOrder[n] # Loop
          BY <2>2, <4>2, <5>1, LoopOrderAssumption
        <5>3. Unlisted(LoopOrder[n], w, ha.managed)
          BY <1>2, <3>1, <5>1, <5>2 DEF Unlisted
        <5> QED
          BY <3>1, <3>2, <5>1, <5>3
      <4> QED
        BY <4>1, <4>2
    <3> HIDE DEF w, ha, done
    <3>4. CASE pass.i # Last
      <4>1. pass.i + 1 \in 1..Last
        BY <2>2, <3>4
      <4>2. pass' = NextLoop(done)
        BY <1>6, <3>4
      <4>3. pass'.pc = "loop" /\ pass'.i = pass.i + 1 /\ pass'.j = 1 /\ pass'.ha = done
        BY <2>2, <4>2 DEF NextLoop, Pass
      <4>4. /\ pass'.ha.want = w /\ pass'.ha.gen = pass.ha.gen
            /\ pass'.ha.managed = ha.managed
        BY <1>3, <2>1, <4>3
      <4>5. \A n \in 1..(pass'.i - 1) : n \in 1..pass.i
        BY <2>2, <4>3
      <4>6. pass'.pc # "record" /\ pass'.j # 2 /\ pass'.pc # "idle"
        BY <4>3
      <4>7. PassProgress'
        BY <1>4, <3>1, <3>3, <4>4, <4>5, <4>6, PassProgressAfter
      <4> QED
        BY <1>1, <4>6, <4>7 DEF Progress, IdleSettled
    <3>5. CASE pass.i = Last
      <4>1. pass'.pc = "idle"
        BY <1>6, <3>5, InitialValues
      <4>2. \A l \in Loops : \E n \in 1..pass.i : l = LoopOrder[n]
        BY <3>5, LoopPosition
      <4>3. ASSUME NEW q \in Objects PROVE SettledAfter(q, agentCache'.want)
        <5>1. PICK n \in 1..pass.i : LoopOf(q) = LoopOrder[n]
          BY <4>2, ObjectLoop
        <5> QED
          BY <1>4, <3>1, <3>3, <5>1
      <4>4. /\ agent'.ready.status = "True" /\ agent'.ready.gen = agent'.gen
            /\ agent'.want = w /\ agent'.managed = ha.managed
        BY <1>2, <1>3, <1>6, <2>1, <2>2, <3>5, LoopPosition
      <4>5. \A l \in Loops : Unlisted(l, agent'.want, agent'.managed)
        BY <3>3, <4>2, <4>4
      <4>6. IdleSettled'
        BY <4>3, <4>4, <4>5 DEF IdleSettled, Settled, SettledAfter
      <4> QED
        BY <1>1, <4>1, <4>6 DEF Progress, PassProgress
    <3> QED
      BY <3>4, <3>5
  <2> QED
    BY <2>3, <2>4
<1> QED
  BY <1>4, <1>5, <1>6

LEMMA ProgressReconcile ==
    ASSUME Progress, Reconcile
    PROVE  Progress'
<1>1. Structure' /\ Structure
  BY StructureReconcile DEF Progress
<1>2. IdlePass \in Pass /\ IdlePass.i = 1 /\ IdlePass.j = 1
  BY InitialValues
<1>3. /\ pass'.pc = "loop" /\ pass'.i = 1 /\ pass'.j = 1 /\ pass'.ha = agentCache
      /\ agentCache' = agentCache
  BY <1>2 DEF Reconcile, Pass
<1>4. \A n \in 1..(pass'.i - 1) : FALSE
  BY <1>3
<1>5. PassProgress'
  BY <1>3, <1>4, PassProgressAfter
<1> QED
  BY <1>1, <1>3, <1>5 DEF Progress, IdleSettled

\* A user's edit is still on its way to the cache; what the pass settled it
\* settled for the spec it read.
LEMMA ProgressEditSpec ==
    ASSUME Progress, EditSpec
    PROVE  Progress'
<1>1. Structure' /\ Structure /\ agent'.rv = agent.rv + 1
  BY StructureEditSpec DEF Progress
<1>2. UNCHANGED <<agentCache, objects, objectCache, pass, queued>>
  BY DEF EditSpec
<1>3. agentCache'.rv # agent'.rv
  <2>1. agentCache.rv <= agent.rv /\ agentCache.rv \in Nat /\ agent.rv \in Nat
    BY <1>1 DEF Structure, CachesCoherent, TypeOK, Agent
  <2> QED
    BY <1>1, <1>2, <2>1
<1>4. PassProgress'
  BY <1>2 DEF Progress, PassProgress, SettledLoop, Settled, Loop
<1>5. IdleSettled'
  BY <1>2, <1>3 DEF Progress, IdleSettled, Settled
<1> QED
  BY <1>1, <1>4, <1>5 DEF Progress

\* A deletion by somebody else raises an event of its own.
LEMMA ProgressDeleteManaged ==
    ASSUME Progress, NEW o \in Objects, DeleteManaged(o)
    PROVE  Progress'
<1>1. Structure' /\ Structure
  BY StructureDeleteManaged DEF Progress
<1>2. /\ UNCHANGED <<agent, agentCache, objectCache, pass, queued>>
      /\ objects' = Written(o, Absent, Absent)
  BY DEF DeleteManaged
<1>3. ASSUME NEW q \in Objects, NEW w, Settled(q, w) PROVE SettledAfter(q, w)
  BY <1>1, <1>2, <1>3, SettledStable
<1>4. PassProgress'
  <2> SUFFICES ASSUME ~queued, pass.pc \in {"loop", "record"} PROVE PassProgress'
    BY <1>2 DEF PassProgress
  <2>1. /\ pass.ha.want = agentCache.want
        /\ pass.ha.gen = agentCache.gen
        /\ \A n \in 1..(pass.i - 1) :
             /\ \A q \in Objects : LoopOf(q) = LoopOrder[n] => Settled(q, pass.ha.want)
             /\ Unlisted(LoopOrder[n], pass.ha.want, pass.ha.managed)
        /\ pass.pc = "record" =>
             \A q \in Objects : LoopOf(q) = Loop => Settled(q, pass.ha.want)
        /\ (pass.pc = "loop" /\ pass.j = 2) =>
             Settled(IF pass.ha.want[Loop] = Absent THEN "RoleBinding" ELSE "Role",
                     pass.ha.want)
    BY DEF Progress, PassProgress, SettledLoop
  <2>2. pass.j = 2 => "Role" \in Objects /\ "RoleBinding" \in Objects
    <3>1. Loop \in Loops
      BY <1>1, CurrentObjectType DEF Structure
    <3> QED
      BY <1>1, <3>1, LoopObjects DEF Structure, PassShape
  <2> QED
    BY <1>2, <1>3, <2>1, <2>2, PassProgressAfter DEF Loop
<1>5. IdleSettled'
  <2> SUFFICES ASSUME ~queued, pass.pc = "idle" PROVE IdleSettled'
    BY <1>2 DEF IdleSettled
  <2>1. \A q \in Objects : SettledAfter(q, agentCache.want)
    BY <1>3 DEF Progress, IdleSettled
  <2> QED
    BY <1>2, <2>1 DEF Progress, IdleSettled, Settled, SettledAfter
<1> QED
  BY <1>1, <1>4, <1>5 DEF Progress

LEMMA ProgressNext == Progress /\ [Next]_vars => Progress'
<1> SUFFICES ASSUME Progress, [Next]_vars PROVE Progress'
  OBVIOUS
<1>1. Structure'
  BY StructureNext DEF Progress
<1>2. CASE queued' = TRUE
  BY <1>1, <1>2 DEF Progress, PassProgress, IdleSettled
<1>3. CASE RunLoop
  BY <1>3, ProgressLoop
<1>4. CASE UpdateStatus
  BY <1>4, ProgressUpdateStatus
<1>5. CASE Reconcile
  BY <1>5, ProgressReconcile
<1>6. CASE EditSpec
  BY <1>6, ProgressEditSpec
<1>7. CASE \E o \in Objects : DeleteManaged(o)
  BY <1>7, ProgressDeleteManaged
<1>8. CASE markReconcileFailed \/ DeliverAgent \/ (\E o \in Objects : DeliverObject(o)) \/ Restart
  BY <1>2, <1>8 DEF markReconcileFailed, DeliverAgent, DeliverObject, Restart
<1>9. CASE UNCHANGED vars
  BY <1>1, <1>9 DEF vars, Progress, PassProgress, IdleSettled, SettledLoop, Settled, Loop
<1> QED
  BY <1>3, <1>4, <1>5, <1>6, <1>7, <1>8, <1>9 DEF Next, Worker, Environment

-----------------------------------------------------------------------------
(* The properties.                                                         *)

\* The invariant IInv of the specification module is inductive.
THEOREM Inductive == Spec => []IInv
<1>1. Progress => IInv
  BY DEF Progress, Structure, IInv
<1> QED
  BY <1>1, ProgressInit, ProgressNext, PTL DEF Spec

\* No wake-up is ever lost: whatever the pipeline, the specs, the faults and
\* the restarts, an operator with nothing left to do has every object at the
\* current spec, the pod template at the hash of the ConfigMap it mounts,
\* and Ready reported for the current generation.
THEOREM NoLostWakeup == Spec => []QuiescentConverged
<1>1. Progress => QuiescentConverged
  <2> SUFFICES ASSUME Progress, Quiescent
               PROVE  /\ \A o \in Objects : Matches(o, agent.want, objects)
                      /\ agent.ready.status = "True"
                      /\ agent.ready.gen = agent.gen
    BY DEF QuiescentConverged
  <2> QED
    BY DEF Progress, IdleSettled, Quiescent, Settled
<1> QED
  BY <1>1, ProgressInit, ProgressNext, PTL DEF Spec

\* A quiet operator lists no managed object that does not exist.
THEOREM NoPhantoms == Spec => []NoPhantomManaged
<1>1. Progress => NoPhantomManaged
  <2> SUFFICES ASSUME Progress, Quiescent, NEW o \in agent.managed
               PROVE  objects[o].spec # Absent
    BY DEF NoPhantomManaged
  <2>1. o \in Objects
    BY DEF Progress, Structure, TypeOK, Agent
  <2>2. LoopOf(o) \in Loops
    BY <2>1, ObjectLoop
  <2>3. Unlisted(LoopOf(o), agent.want, agent.managed)
    BY <2>2 DEF Progress, IdleSettled, Quiescent
  <2>4. agent.want[LoopOf(o)] # Absent
    BY <2>1, <2>3 DEF Unlisted
  <2>5. Matches(o, agent.want, objects)
    BY <2>1 DEF Progress, IdleSettled, Quiescent, Settled
  <2> QED
    BY <2>4, <2>5 DEF Matches
<1> QED
  BY <1>1, ProgressInit, ProgressNext, PTL DEF Spec

-----------------------------------------------------------------------------
(* Verdicts are about the current spec.                                    *)

\* Until it fails, a pass whose copy of the agent has the current version
\* holds the agent itself, status included.
PassFresh ==
    (pass.pc \in {"loop", "record"} /\ pass.ha.rv = agent.rv) => pass.ha = agent

LEMMA PassFreshNext ==
    ASSUME Structure, PassFresh, [Next]_vars
    PROVE  PassFresh'
<1> USE DEF Structure
<1>1. CASE RunLoop
  <2>1. LoopStep
    BY <1>1, RunLoopEffect
  <2>2. CASE \E e \in Errors : pass' = Failed(e)
    BY <2>2, FailedEffect DEF PassFresh
  <2>3. CASE ~(\E e \in Errors : pass' = Failed(e))
    <3>1. pass.pc = "loop" /\ agent' = agent
      BY <2>1 DEF LoopStep
    <3>2. pass'.ha = pass.ha
      BY <2>1, <2>3, <3>1, ObjectDoneEffect DEF LoopStep
    <3> QED
      BY <3>1, <3>2 DEF PassFresh
  <2> QED
    BY <2>2, <2>3
<1>2. CASE UpdateStatus
  <2> DEFINE ha == Recorded(pass.ha)
  <2> DEFINE done == StatusWritten(ha)
  <2>1. \/ /\ agent' = done
           /\ pass' = IF pass.i = Last THEN IdlePass ELSE NextLoop(done)
        \/ \E e \in Errors : pass' = [Failed(e) EXCEPT !.ha = ha]
    BY <1>2 DEF UpdateStatus, Errors
  <2> HIDE DEF done, ha
  <2>2. CASE \E e \in Errors : pass' = [Failed(e) EXCEPT !.ha = ha]
    <3>1. PICK e \in Errors : pass' = [Failed(e) EXCEPT !.ha = ha]
      BY <2>2
    <3>2. Failed(e) \in Pass /\ Failed(e).pc = "fail"
      BY FailedEffect
    <3>3. pass'.pc = "fail"
      BY <3>1, <3>2 DEF Pass
    <3> QED
      BY <3>3 DEF PassFresh
  <2>3. CASE pass' = IdlePass
    BY <2>3, InitialValues DEF PassFresh
  <2>4. CASE agent' = done /\ pass' = NextLoop(done)
    <3>1. pass'.ha = done
      BY <2>4 DEF NextLoop, TypeOK, Pass
    <3> QED
      BY <2>4, <3>1 DEF PassFresh
  <2> QED
    BY <2>1, <2>2, <2>3, <2>4
<1>3. CASE markReconcileFailed \/ Restart
  <2>1. pass' = IdlePass
    BY <1>3 DEF markReconcileFailed, Restart
  <2> QED
    BY <2>1, InitialValues DEF PassFresh
<1>4. CASE Reconcile
  <2>1. pass'.ha = agentCache /\ agent' = agent
    BY <1>4, InitialValues DEF Reconcile, Pass
  <2> QED
    BY <2>1 DEF PassFresh, CachesCoherent
<1>5. CASE EditSpec
  <2>1. agent'.rv = agent.rv + 1 /\ pass' = pass
    BY <1>5, StructureEditSpec DEF EditSpec
  <2>2. pass.pc # "idle" => pass.ha.rv <= agent.rv
    BY DEF PassCoherent
  <2>3. pass.ha.rv \in Nat /\ agent.rv \in Nat
    BY DEF TypeOK, Pass, Agent
  <2> QED
    BY <2>1, <2>2, <2>3 DEF PassFresh
<1>6. CASE \/ DeliverAgent
           \/ \E o \in Objects : DeliverObject(o) \/ DeleteManaged(o)
           \/ UNCHANGED vars
  <2>1. pass' = pass /\ agent' = agent
    BY <1>6 DEF DeliverAgent, DeliverObject, DeleteManaged, vars
  <2> QED
    BY <2>1 DEF PassFresh
<1> QED
  BY <1>1, <1>2, <1>3, <1>4, <1>5, <1>6 DEF Next, Worker, Environment

\* The status a loop writes: either the Ready condition stays, or it names
\* the generation of the agent it is written to.
LEMMA VerdictNext ==
    ASSUME Structure, PassFresh, [Next]_vars
    PROVE  agent'.ready # agent.ready => agent'.ready.gen = agent'.gen
<1> USE DEF Structure
<1>1. CASE UpdateStatus
  <2> DEFINE ha == Recorded(pass.ha)
  <2> DEFINE done == StatusWritten(ha)
  <2>1. pass.pc = "record" /\ (agent' = agent \/ (agent' = done /\ ha.rv = agent.rv))
    BY <1>1 DEF UpdateStatus, StatusConflict
  <2>2. /\ ha \in Agent /\ ha.rv = pass.ha.rv
        /\ Loop = "StatefulSet" => ha.ready.gen = pass.ha.gen
        /\ Loop # "StatefulSet" => ha.ready = pass.ha.ready
    BY RecordedEffect
  <2>3. done.ready = ha.ready /\ done.gen = agent.gen
    BY <2>2, StatusWrittenEffect
  <2> HIDE DEF ha, done
  <2>4. ha.rv = agent.rv => pass.ha = agent
    BY <2>1, <2>2 DEF PassFresh
  <2> QED
    BY <2>1, <2>2, <2>3, <2>4
<1>2. CASE markReconcileFailed
  <2> DEFINE ready == [status |-> "False", reason |-> Loop, message |-> pass.err,
                       gen |-> pass.ha.gen]
  <2> DEFINE ha == [pass.ha EXCEPT !.ready = ready]
  <2>1. /\ pass.pc = "fail"
        /\ agent' = agent \/ (agent' = StatusWritten(ha) /\ ha.rv = agent.rv)
    BY <1>2 DEF markReconcileFailed, StatusConflict
  <2>2. /\ pass.ha \in Agent /\ pass.ha.gen \in Nat
        /\ pass.err \in Errors \cup {"None"} /\ Loop \in Loops
    BY CurrentObjectType DEF TypeOK, Pass, Agent
  <2>3. ready \in ReadyCondition /\ ready.gen = pass.ha.gen
    BY <2>2 DEF ReadyCondition
  <2> HIDE DEF ready
  <2>4. ha \in Agent /\ ha.rv = pass.ha.rv /\ ha.ready = ready
    BY <2>2, <2>3 DEF Agent
  <2> HIDE DEF ha
  <2>5. StatusWritten(ha).ready = ready /\ StatusWritten(ha).gen = agent.gen
    BY <2>4, StatusWrittenEffect
  <2>6. ha.rv = agent.rv => pass.ha.gen = agent.gen
    BY <2>1, <2>4 DEF PassCoherent
  <2> QED
    BY <2>1, <2>3, <2>5, <2>6
<1>3. CASE EditSpec
  <2>1. PICK w \in Wants :
          agent' = [agent EXCEPT !.gen = agent.gen + 1, !.want = w, !.rv = agent.rv + 1]
    BY <1>3 DEF EditSpec
  <2> QED
    BY <2>1 DEF TypeOK, Agent
<1>4. CASE RunLoop
  BY <1>4, RunLoopEffect DEF LoopStep
<1>5. CASE \/ Reconcile \/ Restart \/ DeliverAgent
           \/ \E o \in Objects : DeliverObject(o) \/ DeleteManaged(o)
           \/ UNCHANGED vars
  BY <1>5 DEF Reconcile, Restart, DeliverAgent, DeliverObject, DeleteManaged, vars
<1> QED
  BY <1>1, <1>2, <1>3, <1>4, <1>5 DEF Next, Worker, Environment

\* Whenever the Ready condition changes it names the generation the agent
\* has at that moment: optimistic concurrency keeps a pass that read the
\* agent before an edit from publishing a verdict on the edited spec.
THEOREM VerdictCurrent == Spec => ReadyVerdictCurrent
<1>1. Init => Structure /\ PassFresh
  BY StructureInit DEF Init, PassFresh, IdlePass
<1>2. Structure /\ PassFresh /\ [Next]_vars => Structure' /\ PassFresh'
  BY StructureNext, PassFreshNext
<1>3. Structure /\ PassFresh /\ [Next]_vars
        => [agent'.ready # agent.ready => agent'.ready.gen = agent'.gen]_vars
  BY VerdictNext
<1> QED
  BY <1>1, <1>2, <1>3, PTL DEF Spec, ReadyVerdictCurrent

-----------------------------------------------------------------------------
(* Generated credentials.                                                  *)

\* No generated value is replaced by another one.
KeepsMinted ==
    \A o \in Minted :
       objects[o].spec # Absent /\ objects'[o].spec # Absent
          => objects'[o].spec = objects[o].spec

\* A write that creates, deletes or is about another object.
LEMMA WriteKeepsMinted ==
    ASSUME TypeOK, NEW o \in Objects, NEW s, NEW h,
           objects' = objects \/ objects' = Written(o, s, h),
           o \notin Minted \/ objects[o].spec = Absent \/ s = Absent
    PROVE  KeepsMinted
<1>1. CASE objects' = objects
  BY <1>1 DEF KeepsMinted
<1>2. CASE objects' = Written(o, s, h)
  <2>1. /\ objects'[o].spec = s
        /\ \A m \in Objects : m # o => objects'[m] = objects[m]
    BY <1>2 DEF Written, TypeOK
  <2>2. Minted \subseteq Objects
    BY DEF Minted, Objects
  <2> QED
    BY <2>1, <2>2 DEF KeepsMinted
<1> QED
  BY <1>1, <1>2

\* A create is refused when the object is there, and no update is about an
\* object whose value is generated, whatever the cache shows.
LEMMA EnsureKeepsMinted ==
    ASSUME TypeOK, NEW o \in Objects, CreateObject(o) \/ UpdateObject(o) \/ KeepObject(o)
    PROVE  KeepsMinted
<1>1. CASE CreateObject(o) /\ objects[o].spec = Absent
  <2>1. objects' = objects \/ objects' = Written(o, BuildSpec(o), BuildHash(o))
    BY <1>1 DEF CreateObject, Call
  <2> QED
    BY <1>1, <2>1, WriteKeepsMinted
<1>2. CASE CreateObject(o) /\ objects[o].spec # Absent
  BY <1>2 DEF CreateObject, Rejected, KeepsMinted
<1>3. CASE UpdateObject(o)
  <2>1. o \notin Minted
    BY <1>3 DEF UpdateObject, SameContent
  <2>2. objects' = objects \/ objects' = Written(o, BuildSpec(o), BuildHash(o))
    BY <1>3 DEF UpdateObject, Call, Rejected
  <2> QED
    BY <2>1, <2>2, WriteKeepsMinted
<1>4. CASE KeepObject(o)
  BY <1>4 DEF KeepObject, KeepsMinted
<1> QED
  BY <1>1, <1>2, <1>3, <1>4

LEMMA RunLoopKeepsMinted ==
    ASSUME TypeOK, PassShape, RunLoop
    PROVE  KeepsMinted
<1> DEFINE o == Objs(Loop)[pass.j]
<1> DEFINE d == Objs(Loop)[Len(Objs(Loop)) + 1 - pass.j]
<1>1. o \in Objects /\ d \in Objects
  <2>1. Loop \in Loops /\ pass.j \in {1, 2}
    BY CurrentObjectType DEF TypeOK, Pass
  <2>2. CASE Loop = "Role"
    BY <2>1, <2>2, LoopObjects
  <2>3. CASE Loop # "Role"
    <3>1. pass.j = 1 /\ Len(Objs(Loop)) = 1 /\ Objs(Loop)[1] = Loop /\ Loop \in Objects
      BY <2>1, <2>3, LoopObjects DEF PassShape
    <3> QED
      BY <3>1
  <2> QED
    BY <2>2, <2>3
<1>2. Rejected("InvalidConfig") \/ Ensure(Loop) \/ Drop(Loop)
  BY DEF RunLoop, ReconcileOptional, InLoop, reconcileHermesConfigMap,
         reconcileHermesSecret, reconcileSearXNGConfigMap, reconcileSearXNGSecret,
         reconcileServiceAccount, reconcileRole, reconcileService,
         reconcileIngress, reconcileNetworkPolicy, reconcileStatefulSet
<1>3. CASE Rejected("InvalidConfig")
  BY <1>3 DEF Rejected, KeepsMinted
<1>4. CASE Ensure(Loop)
  <2>1. CreateObject(o) \/ UpdateObject(o) \/ KeepObject(o)
    BY <1>4 DEF Ensure
  <2> HIDE DEF o
  <2> QED
    BY <1>1, <2>1, EnsureKeepsMinted
<1>5. CASE Drop(Loop)
  <2>1. objects' = objects \/ objects' = Written(d, Absent, Absent)
    BY <1>5 DEF Drop, DeleteObject, Call
  <2> HIDE DEF d
  <2> QED
    BY <1>1, <2>1, WriteKeepsMinted
<1> QED
  BY <1>2, <1>3, <1>4, <1>5

LEMMA NextKeepsMinted ==
    ASSUME Structure, [Next]_vars
    PROVE  KeepsMinted
<1> USE DEF Structure
<1>1. CASE RunLoop
  BY <1>1, RunLoopKeepsMinted
<1>2. CASE \E o \in Objects : DeleteManaged(o)
  BY <1>2, WriteKeepsMinted DEF DeleteManaged
<1>3. CASE \/ Reconcile \/ UpdateStatus \/ markReconcileFailed \/ EditSpec \/ Restart
           \/ DeliverAgent \/ (\E o \in Objects : DeliverObject(o)) \/ UNCHANGED vars
  <2>1. objects' = objects
    BY <1>3 DEF Reconcile, UpdateStatus, markReconcileFailed, EditSpec, Restart,
                DeliverAgent, DeliverObject, vars
  <2> QED
    BY <2>1 DEF KeepsMinted
<1> QED
  BY <1>1, <1>2, <1>3 DEF Next, Worker, Environment

\* The value that reconcileSearXNGSecret generates is never replaced while the
\* Secret is there: a pass that does not see the Secret yet fails to create it
\* again, and no pass updates it.
THEOREM MintedOnce == Spec => MintedValueStable
<1>1. Init => Structure
  BY StructureInit
<1>2. Structure /\ [Next]_vars => Structure'
  BY StructureNext
<1>3. Structure /\ [Next]_vars
        => [\A o \in Minted :
              (objects[o].spec # Absent /\ objects'[o].spec # Absent)
                 => objects'[o].spec = objects[o].spec]_vars
  BY NextKeepsMinted DEF KeepsMinted
<1> QED
  BY <1>1, <1>2, <1>3, PTL DEF Spec, MintedValueStable

=============================================================================
