------------------------- MODULE MCManagedResources -------------------------
(***************************************************************************)
(* Instances of ManagedResources for TLC.                                  *)
(***************************************************************************)
EXTENDS ManagedResources

\* A short pipeline: a minted Secret between the ConfigMap and the StatefulSet.
SecretOrder == <<"HermesConfigMap", "SearXNGSecret", "StatefulSet">>

\* A spec with every optional object off, one with all of them on and other
\* content, one with a Role and a Service, and one whose config does not resolve.
Minimal == [l \in Loops |-> IF l \in AlwaysWanted THEN 1 ELSE Absent]

Changed == [l \in Loops |-> IF l \in Minted THEN 1 ELSE 2]

Exposed ==
    [l \in Loops |-> IF l \in AlwaysWanted \cup {"Role", "Service"}
                    THEN 1 ELSE Absent]

Broken == [Changed EXCEPT !["HermesConfigMap"] = Invalid]

EditWants == {Minimal, Changed}

ExposedWants == {Exposed}

BrokenWants == {Minimal, Changed, Broken}
=============================================================================
