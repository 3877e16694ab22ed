--------------------------- MODULE ConfigV1alpha1 ---------------------------
(***************************************************************************)
(* Version v1alpha1 of the configuration (package api/v1alpha1): the       *)
(* runtime is a name, pods get no labels, and the remover is called        *)
(* eraser, which makes conversions of the components by hand necessary.    *)
(***************************************************************************)
EXTENDS UnversionedConfig

Fields == [manager   |-> ManagerConfig \ {"additionalPodLabels"},
           collector |-> OptionalContainerConfig,
           scanner   |-> OptionalContainerConfig,
           eraser    |-> ContainerConfig]

\* The default image of the remover is named like its section.
DefaultConfig ==
    [manager |->
        [runtime |-> "containerd", otlpEndpoint |-> None, logLevel |-> "info",
         repeatInterval |-> 24, beginImmediately |-> TRUE,
         profileEnabled |-> FALSE, profilePort |-> 6060,
         successRatio |-> 100, delayOnSuccess |-> 0, delayOnFailure |-> 24,
         pullSecrets |-> None, filterType |-> "exclude",
         selectors |-> "eraser.sh/cleanup.filter", priorityClassName |-> None],
     collector |->
        [enabled |-> FALSE, imageRepo |-> "collector", imageTag |-> "build",
         requestMem |-> "25Mi", requestCPU |-> "7m",
         limitMem |-> "500Mi", limitCPU |-> "0", config |-> None, volumes |-> None],
     scanner |->
        [enabled |-> FALSE, imageRepo |-> "eraser-trivy-scanner", imageTag |-> "build",
         requestMem |-> "500Mi", requestCPU |-> "1000m",
         limitMem |-> "2Gi", limitCPU |-> "1500m",
         config |-> "v1alpha1", volumes |-> None],
     eraser |->
        [imageRepo |-> "eraser", imageTag |-> "build",
         requestMem |-> "25Mi", requestCPU |-> "7m",
         limitMem |-> "30Mi", limitCPU |-> "0", config |-> None, volumes |-> None]]

(***************************************************************************)
(* Decoding.                                                               *)
(***************************************************************************)
\* Only the name of a runtime is accepted; an empty one is not.
UnmarshalsRuntime(r) == r.kind = "name" /\ r.name \in Runtimes

Unmarshals(body) ==
    Gives(body, "manager", "runtime") => UnmarshalsRuntime(body.manager.runtime)

Unmarshal(body) ==
    LET decoded == Decode(body, DefaultConfig)
    IN  IF Gives(body, "manager", "runtime")
        THEN [decoded EXCEPT !.manager.runtime = body.manager.runtime.name]
        ELSE decoded

(***************************************************************************)
(* The fields that the generated conversions copy, struct by struct.  They *)
(* copy the same fields in both directions.                                *)
(***************************************************************************)
ContainerFields == {"config", "volumes"}
ImageJobFields == {"successRatio", "delayOnSuccess", "delayOnFailure"}
ManagerFields == {"otlpEndpoint", "logLevel", "pullSecrets", "priorityClassName"}
NodeFilterFields == {"filterType", "selectors"}
SwitchAndProfileFields == {"enabled", "profileEnabled", "profilePort"}
ImageAndScheduleFields ==
    {"imageRepo", "imageTag", "requestMem", "requestCPU", "limitMem", "limitCPU",
     "repeatInterval", "beginImmediately"}

Copied == UNION {ContainerFields, ImageJobFields, ManagerFields, NodeFilterFields,
                 SwitchAndProfileFields, ImageAndScheduleFields}

(***************************************************************************)
(* Conversion to the unversioned form, and back.                           *)
(***************************************************************************)
\* The address of a runtime is the one of its name.
RuntimeToSpec(r) == ConvertRuntimeToRuntimeSpec(r)

\* The way back forgets the address.
SpecToRuntime(spec) == spec.name

\* Mutant: what conversion-gen makes of the components; it does not know
\* that eraser and remover are the same.
GeneratedComponentsToUnversioned(in) ==
    [collector |-> Copy(in.collector, OptionalContainerConfig, Copied),
     scanner   |-> Copy(in.scanner, OptionalContainerConfig, Copied),
     remover   |-> Copy(in.eraser, ContainerConfig, {})]

ComponentsToUnversioned(in) ==
    [collector |-> Copy(in.collector, OptionalContainerConfig, Copied),
     scanner   |-> Copy(in.scanner, OptionalContainerConfig, Copied),
     remover   |-> Copy(in.eraser, ContainerConfig, Copied)]

ToUnversioned(in) ==
    LET manager    == Copy(in.manager, ManagerConfig, Copied)
        components == ComponentsToUnversioned(in)
    IN  [manager   |-> [manager EXCEPT !.runtime = RuntimeToSpec(in.manager.runtime)],
         collector |-> components.collector,
         scanner   |-> components.scanner,
         remover   |-> components.remover]

FromUnversioned(in) ==
    LET manager == Copy(in.manager, Fields.manager, Copied)
    IN  [manager   |-> [manager EXCEPT !.runtime = SpecToRuntime(in.manager.runtime)],
         collector |-> Copy(in.collector, OptionalContainerConfig, Copied),
         scanner   |-> Copy(in.scanner, OptionalContainerConfig, Copied),
         eraser    |-> Copy(in.remover, ContainerConfig, Copied)]
=============================================================================
