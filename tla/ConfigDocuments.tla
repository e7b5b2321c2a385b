--------------------------- MODULE ConfigDocuments ---------------------------
(***************************************************************************)
(* How the operator turns the config a user declares into the config.yaml  *)
(* of a profile: which source is read, and which settings the operator     *)
(* fills in.  A document is reduced to the three paths the operator may    *)
(* fill in:                                                                *)
(*     web.search_backend, gateway.multiplex_profiles and                  *)
(*     browser.camofox.managed_persistence.                                *)
(***************************************************************************)

\* A node of a document: nothing there, a value the user set, a value the
\* operator set, a value that is not a map where a map is needed, or a map
\* reduced to the one child the operator looks at.
Absent == [kind |-> "absent"]
User == [kind |-> "user"]
Default == [kind |-> "default"]
Scalar == [kind |-> "scalar"]
Map(child) == [kind |-> "map", child |-> child]

\* A whole document.  Null is a document of blanks and comments, List one that
\* is no object; None says that no document is declared, Error that the
\* declaration is rejected and the pass fails.
None == [kind |-> "none"]
Error == [kind |-> "error"]
Null == [kind |-> "null"]
List == [kind |-> "list"]
Object(web, gateway, browser) ==
    [kind |-> "object", web |-> web, gateway |-> gateway, browser |-> browser]

-----------------------------------------------------------------------------
(* Sources.  A declaration is [raw, ref]: the inline document and what the *)
(* referenced ConfigMap key holds, each None when it is not declared.      *)

\* validateConfigSources: raw and configMapRef exclude each other.
BothSources(config) == config.raw # None /\ config.ref # None

\* readConfigDocument: a key that is missing or does not parse is an Error; a
\* blank document is an empty object.
ReadConfigDocument(ref) ==
    IF ref = Null THEN Object(Absent, Absent, Absent) ELSE ref

ResolveConfig(config) ==
    IF BothSources(config) THEN Error
    ELSE IF config.ref # None THEN ReadConfigDocument(config.ref)
    ELSE config.raw

HasDocument(config) == config.raw # None \/ config.ref # None

-----------------------------------------------------------------------------
(* Defaults.                                                               *)

\* Mutant: the key is set although the user has set it.
FillKeyAlways(section) == Map(Default)

\* A key inside a section: the section is made a map, the key set when absent.
FillKey(section) ==
    IF section.kind = "map"
    THEN Map(IF section.child = Absent THEN Default ELSE section.child)
    ELSE Map(Default)

FillNested(section) ==
    IF section.kind = "map" THEN Map(FillKey(section.child)) ELSE Map(FillKey(Absent))

\* Unmarshalling into a map: null gives an empty one, a list an error.
Unmarshal(doc) ==
    CASE doc = Null -> Object(Absent, Absent, Absent)
      [] doc = List -> Error
      [] OTHER      -> doc

applySearXNGConfigDefaults(doc) ==
    LET cfg == Unmarshal(doc)
    IN  IF cfg = Error THEN Error ELSE [cfg EXCEPT !.web = FillKey(@)]

applyMultiplexProfilesDefault(doc) ==
    LET cfg == Unmarshal(doc)
    IN  IF cfg = Error THEN Error ELSE [cfg EXCEPT !.gateway = FillKey(@)]

applyCamofoxConfigDefaults(doc) ==
    LET cfg == Unmarshal(doc)
    IN  IF cfg = Error THEN Error ELSE [cfg EXCEPT !.browser = FillNested(@)]

\* The default profile's entry in the bootstrap ConfigMap.  SearXNG and Camofox
\* fill in a document that is declared; named profiles need one in any case.
DefaultProfileConfig(config, searxng, camofox, hasProfiles) ==
    LET doc == ResolveConfig(config)
        Step(on, F(_), d) == IF on /\ d \notin {None, Error} THEN F(d) ELSE d
        web == Step(searxng, applySearXNGConfigDefaults, doc)
        browser == Step(camofox, applyCamofoxConfigDefaults, web)
    IN  IF ~hasProfiles \/ browser = Error THEN browser
        ELSE applyMultiplexProfilesDefault(IF browser = None
                                           THEN Object(Absent, Absent, Absent)
                                           ELSE browser)

\* A named profile's entry: no defaults.
NamedProfileConfig(config) == ResolveConfig(config)

-----------------------------------------------------------------------------
(* What a path of a document holds, for the properties.                    *)

Paths == {"web.search_backend", "gateway.multiplex_profiles",
          "browser.camofox.managed_persistence"}

Child(node) == IF node.kind = "map" THEN node.child ELSE Absent

ValueAt(doc, path) ==
    IF doc.kind # "object" THEN Absent
    ELSE CASE path = "web.search_backend"         -> Child(doc.web)
           [] path = "gateway.multiplex_profiles" -> Child(doc.gateway)
           [] OTHER                               -> Child(Child(doc.browser))
=============================================================================
