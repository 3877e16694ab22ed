--------------------------- MODULE ConfigV1alpha2 ---------------------------
(***************************************************************************)
(* Version v1alpha2 of the configuration (package api/v1alpha2): the       *)
(* remover has its name, and conversion-gen writes every conversion but    *)
(* the one of the runtime, which still is a name only.                     *)
(***************************************************************************)
EXTENDS UnversionedConfig

Fields == [manager   |-> ManagerConfig \ {"additionalPodLabels"},
           collector |-> OptionalContainerConfig,
           scanner   |-> OptionalContainerConfig,
           remover   |-> ContainerConfig]

DefaultConfig ==
    [manager |->
        [runtime |-> "containerd", otlpEndpoint |-> None, logLevel |-> "info",
         repeatInterval |-> 24, beginImmediately |-> TRUE,
         profileEnabled |-> FALSE, profilePort |-> 6060,
         successRatio |-> 100, delayOnSuccess |-> 0, delayOnFailure |-> 24,
         pullSecrets |-> None, filterType |-> "exclude",
         selectors |-> "eraser.sh/cleanup.filter", priorityClassName |-> None],
     collector |->
        [enabled |-> FALSE, imageRepo |-> "collector", imageTag |-> "build",
         requestMem |-> "25Mi", requestCPU |-> "7m",
         limitMem |-> "500Mi", limitCPU |-> "0", config |-> None, volumes |-> None],
     scanner |->
        [enabled |-> FALSE, imageRepo |-> "eraser-trivy-scanner", imageTag |-> "build",
         requestMem |-> "500Mi", requestCPU |-> "1000m",
         limitMem |-> "2Gi", limitCPU |-> "1500m",
         config |-> "v1alpha2", volumes |-> None],
     remover |->
        [imageRepo |-> "remover", imageTag |-> "build",
         requestMem |-> "25Mi", requestCPU |-> "7m",
         limitMem |-> "30Mi", limitCPU |-> "0", config |-> None, volumes |-> None]]

(***************************************************************************)
(* Decoding.                                                               *)
(***************************************************************************)
\* Only the name of a runtime is accepted; an empty one is not.
UnmarshalsRuntime(r) == r.kind = "name" /\ r.name \in Runtimes

Unmarshals(body) ==
    Gives(body, "manager", "runtime") => UnmarshalsRuntime(body.manager.runtime)

Unmarshal(body) ==
    LET decoded == Decode(body, DefaultConfig)
    IN  IF Gives(body, "manager", "runtime")
        THEN [decoded EXCEPT !.manager.runtime = body.manager.runtime.name]
        ELSE decoded

(***************************************************************************)
(* The fields that the generated conversions copy, struct by struct.  They *)
(* copy the same fields in both directions.                                *)
(***************************************************************************)
ContainerFields == {"config", "volumes"}
ImageJobFields == {"successRatio", "delayOnSuccess", "delayOnFailure"}
ManagerFields == {"otlpEndpoint", "logLevel", "pullSecrets", "priorityClassName"}
NodeFilterFields == {"filterType", "selectors"}
SwitchAndProfileFields == {"enabled", "profileEnabled", "profilePort"}
ImageAndScheduleFields ==
    {"imageRepo", "imageTag", "requestMem", "requestCPU", "limitMem", "limitCPU",
     "repeatInterval", "beginImmediately"}

Copied == UNION {ContainerFields, ImageJobFields, ManagerFields, NodeFilterFields,
                 SwitchAndProfileFields, ImageAndScheduleFields}

(***************************************************************************)
(* Conversion to the unversioned form, and back.                           *)
(***************************************************************************)
\* The address of a runtime is the one of its name.
RuntimeToSpec(r) == ConvertRuntimeToRuntimeSpec(r)

\* The way back forgets the address.
SpecToRuntime(spec) == spec.name

ComponentsToUnversioned(in) ==
    [collector |-> Copy(in.collector, OptionalContainerConfig, Copied),
     scanner   |-> Copy(in.scanner, OptionalContainerConfig, Copied),
     remover   |-> Copy(in.remover, ContainerConfig, Copied)]

ToUnversioned(in) ==
    LET manager    == Copy(in.manager, ManagerConfig, Copied)
        components == ComponentsToUnversioned(in)
    IN  [manager   |-> [manager EXCEPT !.runtime = RuntimeToSpec(in.manager.runtime)],
         collector |-> components.collector,
         scanner   |-> components.scanner,
         remover   |-> components.remover]

FromUnversioned(in) ==
    LET manager == Copy(in.manager, Fields.manager, Copied)
    IN  [manager   |-> [manager EXCEPT !.runtime = SpecToRuntime(in.manager.runtime)],
         collector |-> Copy(in.collector, OptionalContainerConfig, Copied),
         scanner   |-> Copy(in.scanner, OptionalContainerConfig, Copied),
         remover   |-> Copy(in.remover, ContainerConfig, Copied)]
=============================================================================
