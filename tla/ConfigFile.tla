----------------------------- MODULE ConfigFile -----------------------------
(***************************************************************************)
(* What the manager makes of its configuration file (main.go): the file    *)
(* names its version, is decoded over the defaults of that version and     *)
(* converted.  Migrated says how a document is moved to the next version.  *)
(*                                                                         *)
(* A document is [apiVersion, body]; body has a record for each section it *)
(* gives, with the fields that are given.  A runtime in a document is      *)
(* [kind, name, address], and its kind is "name" or "spec".                *)
(***************************************************************************)
EXTENDS UnversionedConfig

V1alpha1 == INSTANCE ConfigV1alpha1
V1alpha2 == INSTANCE ConfigV1alpha2
V1alpha3 == INSTANCE ConfigV1alpha3

\* The text is not YAML, or its apiVersion cannot be read.
Malformed == [apiVersion |-> "malformed", body |-> [s \in {} |-> None]]

Accepts(doc) ==
    \/ doc.apiVersion = "v1alpha1" /\ V1alpha1!Unmarshals(doc.body)
    \/ doc.apiVersion = "v1alpha2" /\ V1alpha2!Unmarshals(doc.body)
    \/ doc.apiVersion = "v1alpha3" /\ V1alpha3!Unmarshals(doc.body)

\* What the types of the structs leave of a document: booleans are booleans, and
\* a runtime that is a name has no address.  The labels of pods are of v1alpha3.
WellFormed(doc) ==
    /\ \A s \in {"collector", "scanner"} :
          Gives(doc.body, s, "enabled") => doc.body[s].enabled \in BOOLEAN
    /\ Gives(doc.body, "manager", "runtime") =>
          /\ doc.body.manager.runtime \in [kind : {"name", "spec"}, name : STRING,
                                           address : [scheme : STRING, path : STRING]]
          /\ doc.body.manager.runtime.kind = "name" =>
                 doc.body.manager.runtime.address = NoAddress
    /\ doc.apiVersion # "v1alpha3" => ~Gives(doc.body, "manager", "additionalPodLabels")

\* The configuration of a document that is accepted.
Loaded(doc) ==
    CASE doc.apiVersion = "v1alpha1" ->
            V1alpha1!ToUnversioned(V1alpha1!Unmarshal(doc.body))
      [] doc.apiVersion = "v1alpha2" ->
            V1alpha2!ToUnversioned(V1alpha2!Unmarshal(doc.body))
      [] OTHER ->
            V1alpha3!ToUnversioned(V1alpha3!Unmarshal(doc.body))

\* The fields of one section as those of another.
Renamed(body, from, to) ==
    [s \in (DOMAIN body \ {from}) \cup {t \in {to} : from \in DOMAIN body} |->
        IF s = to /\ from \in DOMAIN body THEN body[from] ELSE body[s]]

\* A runtime that was a name, as a specification without an address.
WithSpec(body) ==
    IF Gives(body, "manager", "runtime")
    THEN [body EXCEPT !.manager.runtime = [@ EXCEPT !.kind = "spec"]]
    ELSE body

\* The document in the next version: eraser becomes remover, and the name of
\* the runtime moves below the runtime.
Migrated(doc) ==
    CASE doc.apiVersion = "v1alpha1" ->
            [apiVersion |-> "v1alpha2", body |-> Renamed(doc.body, "eraser", "remover")]
      [] doc.apiVersion = "v1alpha2" ->
            [apiVersion |-> "v1alpha3", body |-> WithSpec(doc.body)]
      [] OTHER -> doc

\* The default image of the remover has another name in v1alpha1.
NamesRemover(doc) ==
    doc.apiVersion = "v1alpha1" => Gives(doc.body, "eraser", "imageRepo")

\* The text of the scanner's configuration is one variable per version, whose
\* content the controllers do not use.
Meaning(config) == [config EXCEPT !.scanner.config = None]
=============================================================================
