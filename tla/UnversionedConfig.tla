------------------------- MODULE UnversionedConfig -------------------------
(***************************************************************************)
(* The configuration as the controllers see it (package api/unversioned):  *)
(* the structs, flattened to one record per section, what a struct is      *)
(* before it is filled, and the runtimes that have a socket of their own.  *)
(* Every version of the file is decoded over defaults and converted to     *)
(* this form.                                                              *)
(*                                                                         *)
(* Durations are hours, the success ratio is a percentage, and None stands *)
(* for an empty string, list or map and for a null pointer.                *)
(***************************************************************************)
EXTENDS Naturals

None == "none"

(***************************************************************************)
(* Fields of the structs.                                                  *)
(***************************************************************************)
ContainerConfig ==
    {"imageRepo", "imageTag", "requestMem", "requestCPU", "limitMem", "limitCPU",
     "config", "volumes"}

OptionalContainerConfig == {"enabled"} \cup ContainerConfig

ManagerConfig ==
    {"runtime", "otlpEndpoint", "logLevel", "repeatInterval", "beginImmediately",
     "profileEnabled", "profilePort", "successRatio", "delayOnSuccess",
     "delayOnFailure", "pullSecrets", "filterType", "selectors",
     "priorityClassName", "additionalPodLabels"}

(***************************************************************************)
(* Container runtimes.  A socket address is a scheme and a path.           *)
(***************************************************************************)
Runtimes == {"containerd", "dockershim", "crio"}

NoAddress == [scheme |-> None, path |-> None]

SocketOf ==
    [containerd |-> [scheme |-> "unix", path |-> "/run/containerd/containerd.sock"],
     dockershim |-> [scheme |-> "unix", path |-> "/run/dockershim.sock"],
     crio       |-> [scheme |-> "unix", path |-> "/run/crio/crio.sock"]]

\* The specification of a runtime that is known by its name; any other name
\* is an error.
ConvertRuntimeToRuntimeSpec(r) == [name |-> r, address |-> SocketOf[r]]

(***************************************************************************)
(* The value a field has before anything is assigned to it.                *)
(***************************************************************************)
Booleans == {"enabled", "beginImmediately", "profileEnabled"}

Numbers == {"repeatInterval", "profilePort", "successRatio", "delayOnSuccess",
            "delayOnFailure"}

Zero == [f \in ManagerConfig \cup OptionalContainerConfig |->
            CASE f \in Booleans  -> FALSE
              [] f \in Numbers   -> 0
              [] f = "runtime"   -> [name |-> None, address |-> NoAddress]
              [] OTHER           -> None]

\* A conversion of a struct with these fields: out gets a copy of the fields
\* that are copied, and keeps the zero value in the others.
Copy(in, fields, copied) ==
    [f \in fields |-> IF f \in copied THEN in[f] ELSE Zero[f]]

(***************************************************************************)
(* A document is decoded over the defaults: what it gives replaces the     *)
(* default, field by field.  A text that the default points to is          *)
(* overwritten where it is, so the pointer stays.                          *)
(***************************************************************************)
Gives(body, section, field) ==
    section \in DOMAIN body /\ field \in DOMAIN body[section]

Points(defaults, section, field) ==
    field = "config" /\ defaults[section][field] # None

Decode(body, defaults) ==
    [s \in DOMAIN defaults |-> [f \in DOMAIN defaults[s] |->
        IF Gives(body, s, f) /\ ~Points(defaults, s, f)
        THEN body[s][f] ELSE defaults[s][f]]]

(***************************************************************************)
(* The defaults of this package.  No file is decoded over them; they are   *)
(* the reference for the defaults of the versions.                         *)
(***************************************************************************)
Default ==
    [manager |->
        [runtime |-> ConvertRuntimeToRuntimeSpec("containerd"),
         otlpEndpoint |-> None, logLevel |-> "info",
         repeatInterval |-> 24, beginImmediately |-> TRUE,
         profileEnabled |-> FALSE, profilePort |-> 6060,
         successRatio |-> 100, delayOnSuccess |-> 0, delayOnFailure |-> 24,
         pullSecrets |-> None, filterType |-> "exclude",
         selectors |-> "eraser.sh/cleanup.filter",
         priorityClassName |-> None, additionalPodLabels |-> None],
     collector |->
        [enabled |-> FALSE, imageRepo |-> "collector", imageTag |-> "build",
         requestMem |-> "25Mi", requestCPU |-> "7m",
         limitMem |-> "500Mi", limitCPU |-> "0", config |-> None, volumes |-> None],
     scanner |->
        [enabled |-> FALSE, imageRepo |-> "eraser-trivy-scanner", imageTag |-> "build",
         requestMem |-> "500Mi", requestCPU |-> "1000m",
         limitMem |-> "2Gi", limitCPU |-> "1500m",
         config |-> "unversioned", volumes |-> None],
     remover |->
        [imageRepo |-> "remover", imageTag |-> "build",
         requestMem |-> "25Mi", requestCPU |-> "7m",
         limitMem |-> "30Mi", limitCPU |-> "0", config |-> None, volumes |-> None]]
=============================================================================
