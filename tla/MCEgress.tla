------------------------------- MODULE MCEgress -------------------------------
(***************************************************************************)
(* An instance of Egress: two bundled providers, one of them with an alias,*)
(* and the specs below.                                                    *)
(***************************************************************************)
EXTENDS Egress

Host(labels) == [wild |-> FALSE, labels |-> labels]

Wildcard(labels) == [wild |-> TRUE, labels |-> labels]

Credential(name, aliases, hosts) == [name |-> name, aliases |-> aliases, hosts |-> hosts]

MCEnvVars == {"A", "A2", "B"}

MCProviders == {Credential("A", <<"A2">>, {Host(<<"api", "com">>)}),
                Credential("B", <<>>, {Host(<<"b", "org">>)})}

MCCredentialKeys == {{"A2", "B"}}

MCKeySecrets == {"creds"}

MCCASecrets == {"user-ca"}

MCGiven == [n \in UserSecrets |-> IF n = "creds" THEN Keys({"A", "B"}, 1) ELSE UserCA(TRUE, 1)]

\* Off, with a reference to a CA that is not looked at.
Off == [on |-> FALSE, ca |-> "user-ca", creds |-> NoRef, extra |-> {}, tunnel |-> 2, ports |-> {4}]

On == [Off EXCEPT !.on = TRUE, !.ca = NoRef, !.creds = "creds"]

\* A CA of the user's, and hosts of the user's for the second provider.
Custom == [On EXCEPT !.ca = "user-ca",
                     !.extra = {Credential("B", <<>>, {Wildcard(<<"org">>)})}]

\* A CA of the user's that has the name of the operator's.
Collides == [On EXCEPT !.ca = CAName]

\* Rejected: the second provider claims hosts of the first.
HostClash == [On EXCEPT !.extra = {Credential("B", <<>>, {Wildcard(<<"com">>)})}]

\* Rejected: the second listener is on a port that is taken.
PortTaken == [On EXCEPT !.tunnel = 3]

MCSpecs == {Off, On, Custom, Collides, HostClash, PortTaken}

MCInitSpecs == {On}
=============================================================================
