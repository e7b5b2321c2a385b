----------------------------- MODULE TokenIssuer -----------------------------
(***************************************************************************)
(* What the egress Secret promises the agent and the proxy: a credential   *)
(* gets a token when it appears and keeps that token until it goes away.   *)
(* No step replaces a token by another one.                                *)
(***************************************************************************)

CONSTANTS Credentials, Tokens, NoToken

VARIABLE issued     \* each credential's token

IssuerInit == issued = [c \in Credentials |-> NoToken]

\* Any number of credentials get or lose their token together.
Reissue ==
    /\ issued' \in [Credentials -> Tokens \cup {NoToken}]
    /\ \A c \in Credentials :
          issued[c] # NoToken => issued'[c] \in {issued[c], NoToken}

IssuerSpec == IssuerInit /\ [][Reissue]_issued
=============================================================================
