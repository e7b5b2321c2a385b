---------------------------- MODULE MCInitScripts ----------------------------
(***************************************************************************)
(* An instance of InitScripts: one or two items of each list, one named    *)
(* profile, two distributions and the specs below.                         *)
(***************************************************************************)
EXTENDS InitScripts

MCNameOrder == <<"p">>

MCItems == {"a", "b"}

MCTokenKeys == {"API_KEY"}

\* The first distribution ships a job that the second does not.
MCShipped == [D1 |-> {"j1", "j2"}, D2 |-> {"j2"}]

NoLists == [k \in ListKinds |-> {}]

NoDocument == [raw |-> None, ref |-> None]

Raw(doc) == [raw |-> doc, ref |-> None]

Ref(doc) == [raw |-> None, ref |-> doc]

Plain(lists, config, dotEnv) ==
    [lists |-> lists, config |-> config, dotEnv |-> dotEnv,
     dist |-> NoDist, clone |-> FALSE, resume |-> {}, update |-> "off"]

Base ==
    [egress |-> FALSE, apiServer |-> FALSE, searxng |-> FALSE, camofox |-> FALSE,
     userScript |-> FALSE, initContainers |-> FALSE, packages |-> [k \in PackageKinds |-> {}], named |-> {},
     prof |-> [p \in Profiles |-> Plain(NoLists, NoDocument, {})]]

\* The default profile alone, with some of everything.
Small ==
    [Base EXCEPT !.apiServer = TRUE, !.camofox = TRUE,
                 !.packages = [python |-> {"a"}, npm |-> {}],
                 !.prof["default"] =
                     Plain([NoLists EXCEPT !["workspace"] = {"a"}, !["skills"] = {"a"},
                                           !["crons"] = {"a"}],
                           Raw(Object(Map(User), Scalar, Map(Scalar))), {"API_KEY"})]

\* Egress, a script and a container of the user's and a profile from the first
\* distribution.
Distributed ==
    [Base EXCEPT !.egress = TRUE, !.userScript = TRUE, !.apiServer = TRUE,
                 !.initContainers = TRUE,
                 !.packages = [python |-> {"a", "b"}, npm |-> {"a"}],
                 !.named = {"p"},
                 !.prof["default"] =
                     Plain([NoLists EXCEPT !["workspace"] = {"b"}, !["plugins"] = {"a"},
                                           !["skills"] = {"b"}],
                           Ref(Null), {"API_KEY", "SEARXNG_URL"}),
                 !.prof["p"] =
                     [Plain([NoLists EXCEPT !["bundles"] = {"a"}, !["crons"] = {"b"}],
                            NoDocument, {})
                      EXCEPT !.dist = "D1", !.resume = {"j1"}, !.update = "force"]]

\* The same with the second distribution, which does not ship the job.
Switched ==
    [Distributed EXCEPT !.prof["p"].dist = "D2", !.prof["p"].resume = {"j2", "j3"},
                        !.prof["p"].update = "keep",
                        !.prof["p"].lists = NoLists]

\* The allowlist emptied, with SearXNG in place of the user's script.
Paused == [Distributed EXCEPT !.prof["p"].resume = {}, !.userScript = FALSE, !.searxng = TRUE]

\* The profile cloned from the default one, without egress.
Cloned ==
    [Base EXCEPT !.named = {"p"}, !.searxng = TRUE, !.camofox = TRUE,
                 !.prof["default"] =
                     Plain([NoLists EXCEPT !["skills"] = {"a"}],
                           Raw(Object(Absent, Map(User), Map(Map(User)))), {}),
                 !.prof["p"] =
                     [Plain([NoLists EXCEPT !["plugins"] = {"b"}],
                            Raw(Object(Scalar, Absent, Absent)), {"API_KEY"})
                      EXCEPT !.clone = TRUE]]

\* A config the operator rejects, and one declared twice: no Pod is built.
Rejected == [Cloned EXCEPT !.prof["default"].config = Raw(List)]

Ambiguous == [Small EXCEPT !.prof["default"].config = [raw |-> Null, ref |-> Null]]

\* A named profile that declares a workspace file only.
Bare ==
    [Base EXCEPT !.named = {"p"}, !.prof["p"].lists = [NoLists EXCEPT !["workspace"] = {"a"}]]

MCSpecs == {Bare, Small, Distributed, Switched, Paused, Cloned, Rejected, Ambiguous}

MCInitSpecs == {Distributed}

\* Specs for the configurations that show one trace.
BareSpecs == {Bare}

SmallSpecs == {Small}

ProxySpecs == {Distributed}

\* All packages removed.
PackageSpecs == {Small, Base}

PackageInit == {Small}
=============================================================================
