--------------------------- MODULE ConfigV1alpha3 ---------------------------
(***************************************************************************)
(* Version v1alpha3 of the configuration (package api/v1alpha3), which has *)
(* the fields of the unversioned form: the runtime may have an address,    *)
(* and pods may get labels.                                                *)
(***************************************************************************)
EXTENDS UnversionedConfig

Fields == [manager   |-> ManagerConfig,
           collector |-> OptionalContainerConfig,
           scanner   |-> OptionalContainerConfig,
           remover   |-> ContainerConfig]

DefaultConfig ==
    [manager |->
        [runtime |-> ConvertRuntimeToRuntimeSpec("containerd"),
         otlpEndpoint |-> None, logLevel |-> "info",
         repeatInterval |-> 24, beginImmediately |-> TRUE,
         profileEnabled |-> FALSE, profilePort |-> 6060,
         successRatio |-> 100, delayOnSuccess |-> 0, delayOnFailure |-> 24,
         pullSecrets |-> None, filterType |-> "exclude",
         selectors |-> "eraser.sh/cleanup.filter",
         priorityClassName |-> None, additionalPodLabels |-> None],
     collector |->
        [enabled |-> FALSE, imageRepo |-> "collector", imageTag |-> "build",
         requestMem |-> "25Mi", requestCPU |-> "7m",
         limitMem |-> "500Mi", limitCPU |-> "0", config |-> None, volumes |-> None],
     scanner |->
        [enabled |-> FALSE, imageRepo |-> "eraser-trivy-scanner", imageTag |-> "build",
         requestMem |-> "500Mi", requestCPU |-> "1000m",
         limitMem |-> "2Gi", limitCPU |-> "1500m",
         config |-> "v1alpha3", volumes |-> None],
     remover |->
        [imageRepo |-> "remover", imageTag |-> "build",
         requestMem |-> "25Mi", requestCPU |-> "7m",
         limitMem |-> "30Mi", limitCPU |-> "0", config |-> None, volumes |-> None]]

(***************************************************************************)
(* Decoding.                                                               *)
(***************************************************************************)
\* A runtime is a name, an address, both or neither.  An address needs a name,
\* and the scheme of a socket; nothing ties it to the runtime of that name.
UnmarshalsRuntimeSpec(r) ==
    /\ r.kind = "spec"
    /\ \/ r.name \in Runtimes /\ r.address = NoAddress
       \/ r.name \in Runtimes /\ r.address.scheme \in {"tcp", "unix"}
       \/ r.name = None /\ r.address = NoAddress

\* Mutant: an address that is missing stays missing.
RuntimeSpecAsGiven(r) == [name |-> r.name, address |-> r.address]

\* What is missing is filled in, and not taken from the defaults.
RuntimeSpecOf(r) ==
    IF r.address # NoAddress
    THEN [name |-> r.name, address |-> r.address]
    ELSE ConvertRuntimeToRuntimeSpec(IF r.name = None THEN "containerd" ELSE r.name)

Unmarshals(body) ==
    Gives(body, "manager", "runtime") => UnmarshalsRuntimeSpec(body.manager.runtime)

Unmarshal(body) ==
    LET decoded == Decode(body, DefaultConfig)
    IN  IF Gives(body, "manager", "runtime")
        THEN [decoded EXCEPT !.manager.runtime = RuntimeSpecOf(body.manager.runtime)]
        ELSE decoded

(***************************************************************************)
(* The fields that the generated conversions copy, struct by struct.  They *)
(* copy the same fields in both directions.                                *)
(***************************************************************************)
ContainerFields == {"config", "volumes"}
ImageJobFields == {"successRatio", "delayOnSuccess", "delayOnFailure"}
ManagerFields ==
    {"otlpEndpoint", "logLevel", "pullSecrets", "priorityClassName",
     "additionalPodLabels"}
NodeFilterFields == {"filterType", "selectors"}
SwitchAndProfileFields == {"enabled", "profileEnabled", "profilePort"}
ImageAndScheduleFields ==
    {"imageRepo", "imageTag", "requestMem", "requestCPU", "limitMem", "limitCPU",
     "repeatInterval", "beginImmediately"}

\* A specification of a runtime is copied, name and address.
RuntimeSpecFields == {"runtime"}

Copied == UNION {RuntimeSpecFields, ContainerFields, ImageJobFields, ManagerFields,
                 NodeFilterFields, SwitchAndProfileFields, ImageAndScheduleFields}

(***************************************************************************)
(* Conversion to the unversioned form, and back.                           *)
(***************************************************************************)
ComponentsToUnversioned(in) ==
    [collector |-> Copy(in.collector, OptionalContainerConfig, Copied),
     scanner   |-> Copy(in.scanner, OptionalContainerConfig, Copied),
     remover   |-> Copy(in.remover, ContainerConfig, Copied)]

ToUnversioned(in) ==
    LET components == ComponentsToUnversioned(in)
    IN  [manager   |-> Copy(in.manager, ManagerConfig, Copied),
         collector |-> components.collector,
         scanner   |-> components.scanner,
         remover   |-> components.remover]

FromUnversioned(in) ==
    [manager   |-> Copy(in.manager, ManagerConfig, Copied),
     collector |-> Copy(in.collector, OptionalContainerConfig, Copied),
     scanner   |-> Copy(in.scanner, OptionalContainerConfig, Copied),
     remover   |-> Copy(in.remover, ContainerConfig, Copied)]
=============================================================================
