---------------------------- MODULE PodDiagnosis ----------------------------
(***************************************************************************)
(* How the operator reads a Pod's status: which failure it reports on the  *)
(* InitFailed condition and in status.reason.  A container status is       *)
(*     [name, state, reason, last]                                         *)
(* with state "running", "waiting", "done" (exited with 0) or "failed"     *)
(* (exited with another code), reason the code Kubernetes gives ("" when it*)
(* gives none) and last telling whether an earlier run of the container    *)
(* failed, so that its output is in LastTerminationState.  A Pod is        *)
(*     [phase, scheduled, init, containers, reason]                        *)
(* with two sequences of container statuses and a reason of its own.       *)
(***************************************************************************)
EXTENDS Naturals, Sequences

NoFailure == [container |-> "", reason |-> "", message |-> ""]

Failure(container, reason, message) ==
    [container |-> container, reason |-> reason, message |-> message]

\* The first status that satisfies P, or NoFailure; Describe turns it into a
\* failure.
FirstOf(statuses, P(_), Describe(_)) ==
    LET hits == {i \in DOMAIN statuses : P(statuses[i])}
    IN  IF hits = {} THEN NoFailure
        ELSE Describe(statuses[CHOOSE i \in hits : \A j \in hits : i <= j])

Waiting(cs) == cs.state = "waiting" /\ cs.reason # ""

FailedWithReason(cs) == cs.state = "failed" /\ cs.reason # ""

\* Of a Pod that is not pending: the first init container that failed or
\* waits, then the first container that waits or failed before, then the Pod's
\* own reason.
firstPodFailure(pod) ==
    LET Named(cs) == Failure(cs.name, cs.reason, "")
        InitBad(cs) == FailedWithReason(cs) \/ Waiting(cs)
        Bad(cs) == Waiting(cs) \/ cs.last
        Described(cs) == IF Waiting(cs) THEN Named(cs) ELSE Failure(cs.name, "Error", "output")
    IN  IF pod.phase = "Pending"
        THEN IF ~pod.scheduled THEN Failure("", "Unschedulable", "")
             ELSE FirstOf(pod.init, Waiting, Named)
        ELSE IF FirstOf(pod.init, InitBad, Named) # NoFailure
             THEN FirstOf(pod.init, InitBad, Named)
        ELSE IF FirstOf(pod.containers, Bad, Described) # NoFailure
             THEN FirstOf(pod.containers, Bad, Described)
        ELSE Failure("", pod.reason, "")

startingUpWaitingReasons == {"PodInitializing", "ContainerCreating"}

terminationReason(cs) == IF cs.reason # "" THEN cs.reason ELSE "Error"

\* Mutant: an init container that waits its turn counts as failed.
initContainerFailureAnyWait(pod) ==
    FirstOf(pod.init,
            LAMBDA cs : cs.state = "failed" \/ Waiting(cs),
            LAMBDA cs : Failure(cs.name, terminationReason(cs), "output"))

\* The failure the InitFailed condition names: an init container that exited
\* with an error, or waits for any reason but its turn.  The output of the run
\* that failed is preferred to the kubelet's text.
initContainerFailure(pod) ==
    FirstOf(pod.init,
            LAMBDA cs : \/ cs.state = "failed"
                        \/ Waiting(cs) /\ cs.reason \notin startingUpWaitingReasons,
            LAMBDA cs : Failure(cs.name, terminationReason(cs),
                                IF cs.state = "failed" \/ cs.last THEN "output" ELSE "kubelet"))

podStatusReason(pod) ==
    IF initContainerFailure(pod) # NoFailure
    THEN initContainerFailure(pod).reason
    ELSE firstPodFailure(pod).reason
=============================================================================
