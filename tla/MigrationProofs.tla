-------------------------- MODULE MigrationProofs --------------------------
(***************************************************************************)
(* Proofs about the conversions of the configuration, for any documents: a *)
(* document that is rewritten for the next version means the same, and no  *)
(* field is lost on the way to the unversioned form and back.              *)
(*                                                                         *)
(* Each version has the operators of UnversionedConfig a second time; the  *)
(* first lemmas say that they are the same ones.                           *)
(***************************************************************************)
EXTENDS ConfigProofs

\* The operators that v1alpha1 has of its own instance are these.
LEMMA Same1 ==
    /\ \A b, D : V1alpha1!Decode(b, D) = Decode(b, D)
    /\ \A b, s, f : V1alpha1!Gives(b, s, f) = Gives(b, s, f)
    /\ \A in, F, C : V1alpha1!Copy(in, F, C) = Copy(in, F, C)
    /\ V1alpha1!ManagerConfig = ManagerConfig
    /\ V1alpha1!OptionalContainerConfig = OptionalContainerConfig
    /\ V1alpha1!ContainerConfig = ContainerConfig
    /\ V1alpha1!Runtimes = Runtimes
    /\ \A r : V1alpha1!ConvertRuntimeToRuntimeSpec(r) = ConvertRuntimeToRuntimeSpec(r)
<1>1. \A b, s, f : V1alpha1!Gives(b, s, f) = Gives(b, s, f)
  BY DEF V1alpha1!Gives, Gives
<1>2. \A D, s, f : V1alpha1!Points(D, s, f) = Points(D, s, f)
  BY DEF V1alpha1!Points, Points, V1alpha1!None, None
<1>3. \A b, D : V1alpha1!Decode(b, D) = Decode(b, D)
  BY <1>1, <1>2, Zenon DEF V1alpha1!Decode, Decode
<1>4. V1alpha1!Zero = Zero
  BY DEF V1alpha1!Zero, V1alpha1!Booleans, V1alpha1!Numbers, V1alpha1!None, V1alpha1!NoAddress,
         V1alpha1!ManagerConfig, V1alpha1!OptionalContainerConfig, V1alpha1!ContainerConfig,
         Zero, Booleans, Numbers, None, NoAddress,
         ManagerConfig, OptionalContainerConfig, ContainerConfig
<1>5. \A in, F, C : V1alpha1!Copy(in, F, C) = Copy(in, F, C)
  BY <1>4, Zenon DEF V1alpha1!Copy, Copy
<1> QED BY <1>1, <1>3, <1>5
    DEF V1alpha1!ManagerConfig, V1alpha1!OptionalContainerConfig, V1alpha1!ContainerConfig,
        V1alpha1!Runtimes, V1alpha1!ConvertRuntimeToRuntimeSpec, V1alpha1!SocketOf,
        ManagerConfig, OptionalContainerConfig, ContainerConfig,
        Runtimes, ConvertRuntimeToRuntimeSpec, SocketOf

\* The operators that v1alpha2 has of its own instance are these.
LEMMA Same2 ==
    /\ \A b, D : V1alpha2!Decode(b, D) = Decode(b, D)
    /\ \A b, s, f : V1alpha2!Gives(b, s, f) = Gives(b, s, f)
    /\ \A in, F, C : V1alpha2!Copy(in, F, C) = Copy(in, F, C)
    /\ V1alpha2!ManagerConfig = ManagerConfig
    /\ V1alpha2!OptionalContainerConfig = OptionalContainerConfig
    /\ V1alpha2!ContainerConfig = ContainerConfig
    /\ V1alpha2!Runtimes = Runtimes
    /\ \A r : V1alpha2!ConvertRuntimeToRuntimeSpec(r) = ConvertRuntimeToRuntimeSpec(r)
<1>1. \A b, s, f : V1alpha2!Gives(b, s, f) = Gives(b, s, f)
  BY DEF V1alpha2!Gives, Gives
<1>2. \A D, s, f : V1alpha2!Points(D, s, f) = Points(D, s, f)
  BY DEF V1alpha2!Points, Points, V1alpha2!None, None
<1>3. \A b, D : V1alpha2!Decode(b, D) = Decode(b, D)
  BY <1>1, <1>2, Zenon DEF V1alpha2!Decode, Decode
<1>4. V1alpha2!Zero = Zero
  BY DEF V1alpha2!Zero, V1alpha2!Booleans, V1alpha2!Numbers, V1alpha2!None, V1alpha2!NoAddress,
         V1alpha2!ManagerConfig, V1alpha2!OptionalContainerConfig, V1alpha2!ContainerConfig,
         Zero, Booleans, Numbers, None, NoAddress,
         ManagerConfig, OptionalContainerConfig, ContainerConfig
<1>5. \A in, F, C : V1alpha2!Copy(in, F, C) = Copy(in, F, C)
  BY <1>4, Zenon DEF V1alpha2!Copy, Copy
<1> QED BY <1>1, <1>3, <1>5
    DEF V1alpha2!ManagerConfig, V1alpha2!OptionalContainerConfig, V1alpha2!ContainerConfig,
        V1alpha2!Runtimes, V1alpha2!ConvertRuntimeToRuntimeSpec, V1alpha2!SocketOf,
        ManagerConfig, OptionalContainerConfig, ContainerConfig,
        Runtimes, ConvertRuntimeToRuntimeSpec, SocketOf

\* The operators that v1alpha3 has of its own instance are these.
LEMMA Same3 ==
    /\ \A b, D : V1alpha3!Decode(b, D) = Decode(b, D)
    /\ \A b, s, f : V1alpha3!Gives(b, s, f) = Gives(b, s, f)
    /\ \A in, F, C : V1alpha3!Copy(in, F, C) = Copy(in, F, C)
    /\ V1alpha3!ManagerConfig = ManagerConfig
    /\ V1alpha3!OptionalContainerConfig = OptionalContainerConfig
    /\ V1alpha3!ContainerConfig = ContainerConfig
    /\ V1alpha3!Runtimes = Runtimes
    /\ \A r : V1alpha3!ConvertRuntimeToRuntimeSpec(r) = ConvertRuntimeToRuntimeSpec(r)
<1>1. \A b, s, f : V1alpha3!Gives(b, s, f) = Gives(b, s, f)
  BY DEF V1alpha3!Gives, Gives
<1>2. \A D, s, f : V1alpha3!Points(D, s, f) = Points(D, s, f)
  BY DEF V1alpha3!Points, Points, V1alpha3!None, None
<1>3. \A b, D : V1alpha3!Decode(b, D) = Decode(b, D)
  BY <1>1, <1>2, Zenon DEF V1alpha3!Decode, Decode
<1>4. V1alpha3!Zero = Zero
  BY DEF V1alpha3!Zero, V1alpha3!Booleans, V1alpha3!Numbers, V1alpha3!None, V1alpha3!NoAddress,
         V1alpha3!ManagerConfig, V1alpha3!OptionalContainerConfig, V1alpha3!ContainerConfig,
         Zero, Booleans, Numbers, None, NoAddress,
         ManagerConfig, OptionalContainerConfig, ContainerConfig
<1>5. \A in, F, C : V1alpha3!Copy(in, F, C) = Copy(in, F, C)
  BY <1>4, Zenon DEF V1alpha3!Copy, Copy
<1> QED BY <1>1, <1>3, <1>5
    DEF V1alpha3!ManagerConfig, V1alpha3!OptionalContainerConfig, V1alpha3!ContainerConfig,
        V1alpha3!Runtimes, V1alpha3!ConvertRuntimeToRuntimeSpec, V1alpha3!SocketOf,
        ManagerConfig, OptionalContainerConfig, ContainerConfig,
        Runtimes, ConvertRuntimeToRuntimeSpec, SocketOf

\* The fields that the conversion from v1alpha1 copies one by one.
LEMMA CopiedFields1 ==
    /\ ManagerConfig \ {"runtime", "additionalPodLabels"} \subseteq V1alpha1!Copied
    /\ OptionalContainerConfig \subseteq V1alpha1!Copied
    /\ ContainerConfig \subseteq V1alpha1!Copied
    /\ "runtime" \notin V1alpha1!Copied /\ "additionalPodLabels" \notin V1alpha1!Copied
BY DEF V1alpha1!Copied, V1alpha1!ContainerFields, V1alpha1!ImageJobFields, V1alpha1!ManagerFields,
       V1alpha1!NodeFilterFields, V1alpha1!SwitchAndProfileFields,
       V1alpha1!ImageAndScheduleFields, ManagerConfig, OptionalContainerConfig,
       ContainerConfig

\* The fields that the conversion from v1alpha2 copies one by one.
LEMMA CopiedFields2 ==
    /\ ManagerConfig \ {"runtime", "additionalPodLabels"} \subseteq V1alpha2!Copied
    /\ OptionalContainerConfig \subseteq V1alpha2!Copied
    /\ ContainerConfig \subseteq V1alpha2!Copied
    /\ "runtime" \notin V1alpha2!Copied /\ "additionalPodLabels" \notin V1alpha2!Copied
BY DEF V1alpha2!Copied, V1alpha2!ContainerFields, V1alpha2!ImageJobFields, V1alpha2!ManagerFields,
       V1alpha2!NodeFilterFields, V1alpha2!SwitchAndProfileFields,
       V1alpha2!ImageAndScheduleFields, ManagerConfig, OptionalContainerConfig,
       ContainerConfig

\* The fields that the conversion from v1alpha3 copies one by one.
LEMMA CopiedFields3 ==
    /\ ManagerConfig \subseteq V1alpha3!Copied
    /\ OptionalContainerConfig \subseteq V1alpha3!Copied
    /\ ContainerConfig \subseteq V1alpha3!Copied
BY DEF V1alpha3!Copied, V1alpha3!ContainerFields, V1alpha3!ImageJobFields, V1alpha3!ManagerFields,
       V1alpha3!NodeFilterFields, V1alpha3!SwitchAndProfileFields,
       V1alpha3!ImageAndScheduleFields, V1alpha3!RuntimeSpecFields, ManagerConfig, OptionalContainerConfig,
       ContainerConfig

\* Two documents that give a field alike decode it alike, over like defaults.
LEMMA DecodeSame ==
    ASSUME NEW b, NEW c, NEW D, NEW E, NEW s \in DOMAIN D, NEW t \in DOMAIN E,
           NEW f \in DOMAIN D[s], f \in DOMAIN E[t],
           Gives(b, s, f) <=> Gives(c, t, f), Gives(b, s, f) => b[s][f] = c[t][f],
           D[s][f] = E[t][f] \/ (Gives(b, s, f) /\ f # "config")
    PROVE  Decode(b, D)[s][f] = Decode(c, E)[t][f]
BY DEF Decode, Points

\* The versions differ in the default image of the remover, in the text of the
\* scanner's configuration and in the form of the runtime.
DefaultScanner(text) ==
    [enabled |-> FALSE, imageRepo |-> "eraser-trivy-scanner", imageTag |-> "build",
     requestMem |-> "500Mi", requestCPU |-> "1000m",
     limitMem |-> "2Gi", limitCPU |-> "1500m", config |-> text, volumes |-> None]

DefaultRemover(image) ==
    [imageRepo |-> image, imageTag |-> "build", requestMem |-> "25Mi", requestCPU |-> "7m",
     limitMem |-> "30Mi", limitCPU |-> "0", config |-> None, volumes |-> None]

\* The sections of the defaults, by the one operator that builds them.
LEMMA DefaultSections ==
    /\ V1alpha1!DefaultConfig.scanner = DefaultScanner("v1alpha1")
    /\ V1alpha2!DefaultConfig.scanner = DefaultScanner("v1alpha2")
    /\ V1alpha3!DefaultConfig.scanner = DefaultScanner("v1alpha3")
    /\ V1alpha1!DefaultConfig.eraser = DefaultRemover("eraser")
    /\ V1alpha2!DefaultConfig.remover = DefaultRemover("remover")
    /\ V1alpha3!DefaultConfig.remover = DefaultRemover("remover")
    /\ V1alpha1!DefaultConfig.collector = V1alpha2!DefaultConfig.collector
    /\ V1alpha2!DefaultConfig.collector = V1alpha3!DefaultConfig.collector
    /\ V1alpha1!DefaultConfig.manager = V1alpha2!DefaultConfig.manager
<1>1. V1alpha1!None = None /\ V1alpha2!None = None /\ V1alpha3!None = None
  BY DEF None, V1alpha1!None, V1alpha2!None, V1alpha3!None
<1>2. V1alpha1!DefaultConfig.scanner = DefaultScanner("v1alpha1")
  BY <1>1 DEF V1alpha1!DefaultConfig, DefaultScanner
<1>3. V1alpha2!DefaultConfig.scanner = DefaultScanner("v1alpha2")
  BY <1>1 DEF V1alpha2!DefaultConfig, DefaultScanner
<1>4. V1alpha3!DefaultConfig.scanner = DefaultScanner("v1alpha3")
  BY <1>1 DEF V1alpha3!DefaultConfig, DefaultScanner
<1>5. V1alpha1!DefaultConfig.eraser = DefaultRemover("eraser")
  BY <1>1 DEF V1alpha1!DefaultConfig, DefaultRemover
<1>6. V1alpha2!DefaultConfig.remover = DefaultRemover("remover")
  BY <1>1 DEF V1alpha2!DefaultConfig, DefaultRemover
<1>7. V1alpha3!DefaultConfig.remover = DefaultRemover("remover")
  BY <1>1 DEF V1alpha3!DefaultConfig, DefaultRemover
<1>8. V1alpha1!DefaultConfig.collector = V1alpha2!DefaultConfig.collector
  BY <1>1 DEF V1alpha1!DefaultConfig, V1alpha2!DefaultConfig
<1>9. V1alpha2!DefaultConfig.collector = V1alpha3!DefaultConfig.collector
  BY <1>1 DEF V1alpha2!DefaultConfig, V1alpha3!DefaultConfig
<1>10. V1alpha1!DefaultConfig.manager = V1alpha2!DefaultConfig.manager
  BY <1>1 DEF V1alpha1!DefaultConfig, V1alpha2!DefaultConfig
<1> QED BY <1>2, <1>3, <1>4, <1>5, <1>6, <1>7, <1>8, <1>9, <1>10

\* The default scanners differ in their configuration only.
LEMMA ScannersAgree ==
    \A x, y : \A f \in OptionalContainerConfig \ {"config"} :
        DefaultScanner(x)[f] = DefaultScanner(y)[f]
<1> TAKE x, y
<1> DEFINE d == DefaultScanner(x)
           e == DefaultScanner(y)
<1>1. /\ d.enabled = e.enabled /\ d.imageRepo = e.imageRepo /\ d.imageTag = e.imageTag
      /\ d.requestMem = e.requestMem /\ d.requestCPU = e.requestCPU
      /\ d.limitMem = e.limitMem /\ d.limitCPU = e.limitCPU /\ d.volumes = e.volumes
  BY DEF DefaultScanner
<1> QED BY <1>1 DEF OptionalContainerConfig, ContainerConfig

\* The default removers differ in the repository of their image only.
LEMMA RemoversAgree ==
    \A x, y : \A f \in ContainerConfig \ {"imageRepo"} :
        DefaultRemover(x)[f] = DefaultRemover(y)[f]
BY DEF DefaultRemover, ContainerConfig

\* The manager of v1alpha2 and v1alpha3.
DefaultManager == V1alpha2!DefaultConfig.manager

\* The manager of v1alpha3 has the defaults of the earlier versions.
LEMMA ManagersAgree ==
    /\ \A f \in ManagerConfig \ {"runtime", "additionalPodLabels"} :
           V1alpha3!DefaultConfig.manager[f] = DefaultManager[f]
    /\ V1alpha3!DefaultConfig.manager.additionalPodLabels = None
<1> DEFINE old ==
             [runtime |-> "containerd", otlpEndpoint |-> None, logLevel |-> "info",
              repeatInterval |-> 24, beginImmediately |-> TRUE,
              profileEnabled |-> FALSE, profilePort |-> 6060,
              successRatio |-> 100, delayOnSuccess |-> 0, delayOnFailure |-> 24,
              pullSecrets |-> None, filterType |-> "exclude",
              selectors |-> "eraser.sh/cleanup.filter", priorityClassName |-> None]
           new(r) ==
             [runtime |-> r, otlpEndpoint |-> None, logLevel |-> "info",
              repeatInterval |-> 24, beginImmediately |-> TRUE,
              profileEnabled |-> FALSE, profilePort |-> 6060,
              successRatio |-> 100, delayOnSuccess |-> 0, delayOnFailure |-> 24,
              pullSecrets |-> None, filterType |-> "exclude",
              selectors |-> "eraser.sh/cleanup.filter", priorityClassName |-> None,
              additionalPodLabels |-> None]
           spec == V1alpha3!ConvertRuntimeToRuntimeSpec("containerd")
<1>1. V1alpha2!None = None /\ V1alpha3!None = None
  BY DEF None, V1alpha2!None, V1alpha3!None
<1>2. DefaultManager = old
  BY <1>1 DEF V1alpha2!DefaultConfig, DefaultManager
<1>3. V1alpha3!DefaultConfig.manager = new(spec)
  BY <1>1 DEF V1alpha3!DefaultConfig
<1> HIDE DEF spec
<1> DEFINE n == new(spec)
<1>4. /\ n.otlpEndpoint = old.otlpEndpoint /\ n.logLevel = old.logLevel
      /\ n.repeatInterval = old.repeatInterval /\ n.beginImmediately = old.beginImmediately
      /\ n.profileEnabled = old.profileEnabled /\ n.profilePort = old.profilePort
      /\ n.successRatio = old.successRatio
  OBVIOUS
<1>5. /\ n.delayOnSuccess = old.delayOnSuccess /\ n.delayOnFailure = old.delayOnFailure
      /\ n.pullSecrets = old.pullSecrets /\ n.filterType = old.filterType
      /\ n.selectors = old.selectors /\ n.priorityClassName = old.priorityClassName
      /\ n.additionalPodLabels = None
  OBVIOUS
<1> HIDE DEF old, new
<1>6. \A f \in ManagerConfig \ {"runtime", "additionalPodLabels"} : n[f] = old[f]
  BY <1>4, <1>5 DEF ManagerConfig
<1> QED BY <1>2, <1>3, <1>5, <1>6

\* The zero value of the additional pod labels is none.
LEMMA ZeroFacts == Zero["additionalPodLabels"] = None
BY DEF Zero, ManagerConfig, Booleans, Numbers

\* A copy of known fields is the record of those fields.
LEMMA CopyIs ==
    ASSUME NEW in, NEW F, NEW C, F \subseteq C
    PROVE  Copy(in, F, C) = [f \in F |-> in[f]]
BY DEF Copy

\* The unversioned form of a v1alpha1 configuration, field by field.
LEMMA Converted1 ==
    ASSUME NEW in
    PROVE  V1alpha1!ToUnversioned(in) =
             [manager |-> [f \in ManagerConfig |->
                 CASE f = "runtime" -> ConvertRuntimeToRuntimeSpec(in.manager.runtime)
                   [] f = "additionalPodLabels" -> None
                   [] OTHER -> in.manager[f]],
              collector |-> [f \in OptionalContainerConfig |-> in.collector[f]],
              scanner |-> [f \in OptionalContainerConfig |-> in.scanner[f]],
              remover |-> [f \in ContainerConfig |-> in.eraser[f]]]
<1> DEFINE r == ConvertRuntimeToRuntimeSpec(in.manager.runtime)
           copy == Copy(in.manager, ManagerConfig, V1alpha1!Copied)
<1>1. /\ Copy(in.collector, OptionalContainerConfig, V1alpha1!Copied) =
            [f \in OptionalContainerConfig |-> in.collector[f]]
      /\ Copy(in.scanner, OptionalContainerConfig, V1alpha1!Copied) =
            [f \in OptionalContainerConfig |-> in.scanner[f]]
      /\ Copy(in.eraser, ContainerConfig, V1alpha1!Copied) =
            [f \in ContainerConfig |-> in.eraser[f]]
  BY CopiedFields1, CopyIs
<1>2. copy = [f \in ManagerConfig |->
                 IF f \in V1alpha1!Copied THEN in.manager[f] ELSE Zero[f]]
  BY DEF Copy
<1>3. [copy EXCEPT !.runtime = r] =
         [f \in ManagerConfig |-> CASE f = "runtime" -> r
                                    [] f = "additionalPodLabels" -> None
                                    [] OTHER -> in.manager[f]]
  <2> HIDE DEF r
  <2>1. \A f \in ManagerConfig :
           (IF f = "runtime" THEN r ELSE copy[f]) = 
              CASE f = "runtime" -> r
                [] f = "additionalPodLabels" -> None
                [] OTHER -> in.manager[f]
    BY <1>2, CopiedFields1, ZeroFacts
  <2>2. [copy EXCEPT !.runtime = r] =
           [f \in ManagerConfig |-> IF f = "runtime" THEN r ELSE copy[f]]
    BY <1>2
  <2> HIDE DEF copy
  <2> QED BY <2>1, <2>2
<1> HIDE DEF r, copy
<1>4. V1alpha1!RuntimeToSpec(in.manager.runtime) = r
  BY Same1 DEF V1alpha1!RuntimeToSpec, r
<1>5. V1alpha1!Copy(in.manager, V1alpha1!ManagerConfig, V1alpha1!Copied) = copy
  BY Same1 DEF copy
<1> QED BY <1>1, <1>3, <1>4, <1>5, Same1
    DEF V1alpha1!ToUnversioned, V1alpha1!ComponentsToUnversioned, r

\* The unversioned form of a v1alpha2 configuration, field by field.
LEMMA Converted2 ==
    ASSUME NEW in
    PROVE  V1alpha2!ToUnversioned(in) =
             [manager |-> [f \in ManagerConfig |->
                 CASE f = "runtime" -> ConvertRuntimeToRuntimeSpec(in.manager.runtime)
                   [] f = "additionalPodLabels" -> None
                   [] OTHER -> in.manager[f]],
              collector |-> [f \in OptionalContainerConfig |-> in.collector[f]],
              scanner |-> [f \in OptionalContainerConfig |-> in.scanner[f]],
              remover |-> [f \in ContainerConfig |-> in.remover[f]]]
<1> DEFINE r == ConvertRuntimeToRuntimeSpec(in.manager.runtime)
           copy == Copy(in.manager, ManagerConfig, V1alpha2!Copied)
<1>1. /\ Copy(in.collector, OptionalContainerConfig, V1alpha2!Copied) =
            [f \in OptionalContainerConfig |-> in.collector[f]]
      /\ Copy(in.scanner, OptionalContainerConfig, V1alpha2!Copied) =
            [f \in OptionalContainerConfig |-> in.scanner[f]]
      /\ Copy(in.remover, ContainerConfig, V1alpha2!Copied) =
            [f \in ContainerConfig |-> in.remover[f]]
  BY CopiedFields2, CopyIs
<1>2. copy = [f \in ManagerConfig |->
                 IF f \in V1alpha2!Copied THEN in.manager[f] ELSE Zero[f]]
  BY DEF Copy
<1>3. [copy EXCEPT !.runtime = r] =
         [f \in ManagerConfig |-> CASE f = "runtime" -> r
                                    [] f = "additionalPodLabels" -> None
                                    [] OTHER -> in.manager[f]]
  <2> HIDE DEF r
  <2>1. \A f \in ManagerConfig :
           (IF f = "runtime" THEN r ELSE copy[f]) = 
              CASE f = "runtime" -> r
                [] f = "additionalPodLabels" -> None
                [] OTHER -> in.manager[f]
    BY <1>2, CopiedFields2, ZeroFacts
  <2>2. [copy EXCEPT !.runtime = r] =
           [f \in ManagerConfig |-> IF f = "runtime" THEN r ELSE copy[f]]
    BY <1>2
  <2> HIDE DEF copy
  <2> QED BY <2>1, <2>2
<1> HIDE DEF r, copy
<1>4. V1alpha2!RuntimeToSpec(in.manager.runtime) = r
  BY Same2 DEF V1alpha2!RuntimeToSpec, r
<1>5. V1alpha2!Copy(in.manager, V1alpha2!ManagerConfig, V1alpha2!Copied) = copy
  BY Same2 DEF copy
<1> QED BY <1>1, <1>3, <1>4, <1>5, Same2
    DEF V1alpha2!ToUnversioned, V1alpha2!ComponentsToUnversioned, r

\* The unversioned form of a v1alpha3 configuration, field by field.
LEMMA Converted3 ==
    ASSUME NEW in
    PROVE  V1alpha3!ToUnversioned(in) =
             [manager |-> [f \in ManagerConfig |-> in.manager[f]],
              collector |-> [f \in OptionalContainerConfig |-> in.collector[f]],
              scanner |-> [f \in OptionalContainerConfig |-> in.scanner[f]],
              remover |-> [f \in ContainerConfig |-> in.remover[f]]]
BY CopiedFields3, CopyIs, Same3
   DEF V1alpha3!ToUnversioned, V1alpha3!ComponentsToUnversioned

(***************************************************************************)
(* Documents.                                                              *)
(***************************************************************************)
\* What a version makes of the fields of a document.
LEMMA Unmarshalled1 ==
    ASSUME NEW b
    PROVE  LET D == V1alpha1!DefaultConfig
               in == V1alpha1!Unmarshal(b)
           IN  /\ in.manager.runtime = IF Gives(b, "manager", "runtime")
                                       THEN b.manager.runtime.name ELSE "containerd"
               /\ \A f \in ManagerConfig \ {"runtime", "additionalPodLabels"} :
                      in.manager[f] = Decode(b, D)["manager"][f]
               /\ \A s \in {"collector", "scanner", "eraser"} : in[s] = Decode(b, D)[s]
<1> DEFINE D == V1alpha1!DefaultConfig
           d == Decode(b, D)
<1>1. /\ DOMAIN d = {"manager", "collector", "scanner", "eraser"}
      /\ DOMAIN d.manager = ManagerConfig \ {"additionalPodLabels"}
      /\ ~Gives(b, "manager", "runtime") => d.manager.runtime = "containerd"
  BY Defaults1 DEF Decode, ManagerConfig
<1>2. V1alpha1!Unmarshal(b) =
         IF Gives(b, "manager", "runtime")
         THEN [d EXCEPT !.manager.runtime = b.manager.runtime.name] ELSE d
  BY Same1 DEF V1alpha1!Unmarshal
<1>3. "runtime" \in ManagerConfig
  BY DEF ManagerConfig
<1> HIDE DEF D, d
<1>4. CASE Gives(b, "manager", "runtime")
  BY <1>1, <1>2, <1>3, <1>4 DEF D, d
<1>5. CASE ~Gives(b, "manager", "runtime")
  BY <1>1, <1>2, <1>3, <1>5 DEF D, d
<1> QED BY <1>4, <1>5

\* What a v1alpha2 document is decoded to.
LEMMA Unmarshalled2 ==
    ASSUME NEW b
    PROVE  LET D == V1alpha2!DefaultConfig
               in == V1alpha2!Unmarshal(b)
           IN  /\ in.manager.runtime = IF Gives(b, "manager", "runtime")
                                       THEN b.manager.runtime.name ELSE "containerd"
               /\ \A f \in ManagerConfig \ {"runtime", "additionalPodLabels"} :
                      in.manager[f] = Decode(b, D)["manager"][f]
               /\ \A s \in {"collector", "scanner", "remover"} : in[s] = Decode(b, D)[s]
<1> DEFINE D == V1alpha2!DefaultConfig
           d == Decode(b, D)
<1>1. /\ DOMAIN d = {"manager", "collector", "scanner", "remover"}
      /\ DOMAIN d.manager = ManagerConfig \ {"additionalPodLabels"}
      /\ ~Gives(b, "manager", "runtime") => d.manager.runtime = "containerd"
  BY Defaults2 DEF Decode, ManagerConfig
<1>2. V1alpha2!Unmarshal(b) =
         IF Gives(b, "manager", "runtime")
         THEN [d EXCEPT !.manager.runtime = b.manager.runtime.name] ELSE d
  BY Same2 DEF V1alpha2!Unmarshal
<1>3. "runtime" \in ManagerConfig
  BY DEF ManagerConfig
<1> HIDE DEF D, d
<1>4. CASE Gives(b, "manager", "runtime")
  BY <1>1, <1>2, <1>3, <1>4 DEF D, d
<1>5. CASE ~Gives(b, "manager", "runtime")
  BY <1>1, <1>2, <1>3, <1>5 DEF D, d
<1> QED BY <1>4, <1>5

\* What a v1alpha3 document is decoded to.
LEMMA Unmarshalled3 ==
    ASSUME NEW b
    PROVE  LET D == V1alpha3!DefaultConfig
               in == V1alpha3!Unmarshal(b)
           IN  /\ in.manager.runtime = IF Gives(b, "manager", "runtime")
                                       THEN V1alpha3!RuntimeSpecOf(b.manager.runtime)
                                       ELSE ConvertRuntimeToRuntimeSpec("containerd")
               /\ \A f \in ManagerConfig \ {"runtime"} :
                      in.manager[f] = Decode(b, D)["manager"][f]
               /\ \A s \in {"collector", "scanner", "remover"} : in[s] = Decode(b, D)[s]
<1> DEFINE D == V1alpha3!DefaultConfig
           d == Decode(b, D)
<1>1. /\ DOMAIN d = {"manager", "collector", "scanner", "remover"}
      /\ DOMAIN d.manager = ManagerConfig
      /\ ~Gives(b, "manager", "runtime") =>
            d.manager.runtime = ConvertRuntimeToRuntimeSpec("containerd")
  BY Defaults3 DEF Decode, ManagerConfig
<1>2. V1alpha3!Unmarshal(b) =
         IF Gives(b, "manager", "runtime")
         THEN [d EXCEPT !.manager.runtime = V1alpha3!RuntimeSpecOf(b.manager.runtime)]
         ELSE d
  BY Same3 DEF V1alpha3!Unmarshal
<1>3. "runtime" \in ManagerConfig
  BY DEF ManagerConfig
<1> HIDE DEF D, d
<1>4. CASE Gives(b, "manager", "runtime")
  BY <1>1, <1>2, <1>3, <1>4 DEF D, d
<1>5. CASE ~Gives(b, "manager", "runtime")
  BY <1>1, <1>2, <1>3, <1>5 DEF D, d
<1> QED BY <1>4, <1>5

(***************************************************************************)
(* Migration.                                                              *)
(***************************************************************************)
Config4(m, c, s, r) == [manager |-> m, collector |-> c, scanner |-> s, remover |-> r]

\* The configuration of the default scanner is not part of the meaning.
LEMMA SameMeaning ==
    ASSUME NEW m, NEW c, NEW r, NEW x, NEW y,
           \A f \in OptionalContainerConfig \ {"config"} : x[f] = y[f]
    PROVE  Meaning(Config4(m, c, [f \in OptionalContainerConfig |-> x[f]], r)) =
           Meaning(Config4(m, c, [f \in OptionalContainerConfig |-> y[f]], r))
<1>1. [[f \in OptionalContainerConfig |-> x[f]] EXCEPT !.config = None] =
      [[f \in OptionalContainerConfig |-> y[f]] EXCEPT !.config = None]
  OBVIOUS
<1>2. \A s : Meaning(Config4(m, c, s, r)) = Config4(m, c, [s EXCEPT !.config = None], r)
  BY DEF Meaning, Config4
<1> QED BY <1>1, <1>2

\* A v1alpha1 document keeps its meaning when it is rewritten as v1alpha2.
LEMMA Migration12 ==
    ASSUME NEW doc, doc.apiVersion = "v1alpha1", Accepts(doc), NamesRemover(doc)
    PROVE  /\ Accepts(Migrated(doc))
           /\ Meaning(Loaded(Migrated(doc))) = Meaning(Loaded(doc))
<1> DEFINE b == doc.body
           c == Renamed(b, "eraser", "remover")
           D == V1alpha1!DefaultConfig
           E == V1alpha2!DefaultConfig
           old == V1alpha1!Unmarshal(b)
           new == V1alpha2!Unmarshal(c)
<1>1. Migrated(doc) = [apiVersion |-> "v1alpha2", body |-> c]
  BY DEF Migrated
<1>2. Gives(b, "eraser", "imageRepo") /\ V1alpha1!Unmarshals(b)
  BY DEF NamesRemover, Accepts
<1>3. /\ \A s \in {"manager", "collector", "scanner"} :
            /\ s \in DOMAIN c <=> s \in DOMAIN b
            /\ s \in DOMAIN b => c[s] = b[s]
      /\ "eraser" \in DOMAIN b /\ "remover" \in DOMAIN c /\ c["remover"] = b["eraser"]
  BY <1>2 DEF Gives, Renamed
<1> HIDE DEF b, c
<1>4. /\ \A s \in {"manager", "collector", "scanner"} : \A f :
            /\ Gives(b, s, f) <=> Gives(c, s, f)
            /\ Gives(b, s, f) => b[s][f] = c[s][f]
      /\ \A f : /\ Gives(b, "eraser", f) <=> Gives(c, "remover", f)
                /\ Gives(b, "eraser", f) => b["eraser"][f] = c["remover"][f]
  BY <1>3 DEF Gives
<1>5. V1alpha2!Unmarshals(c)
  <2>1. \A r : V1alpha1!UnmarshalsRuntime(r) <=> V1alpha2!UnmarshalsRuntime(r)
    BY Same1, Same2 DEF V1alpha1!UnmarshalsRuntime, V1alpha2!UnmarshalsRuntime
  <2> QED BY <1>2, <1>4, <2>1, Same1, Same2 DEF V1alpha1!Unmarshals, V1alpha2!Unmarshals
<1>6. /\ DOMAIN D = {"manager", "collector", "scanner", "eraser"}
      /\ DOMAIN E = {"manager", "collector", "scanner", "remover"}
      /\ DOMAIN D["manager"] = ManagerConfig \ {"additionalPodLabels"}
      /\ DOMAIN E["manager"] = ManagerConfig \ {"additionalPodLabels"}
      /\ \A s \in {"collector", "scanner"} :
            DOMAIN D[s] = OptionalContainerConfig /\ DOMAIN E[s] = OptionalContainerConfig
      /\ DOMAIN D["eraser"] = ContainerConfig /\ DOMAIN E["remover"] = ContainerConfig
  BY Defaults1, Defaults2
<1>7. \A f \in ManagerConfig \ {"runtime", "additionalPodLabels"} :
         old.manager[f] = new.manager[f]
  <2> TAKE f \in ManagerConfig \ {"runtime", "additionalPodLabels"}
  <2>1. D["manager"][f] = E["manager"][f]
    BY DefaultSections
  <2>2. Decode(b, D)["manager"][f] = Decode(c, E)["manager"][f]
    <3> HIDE DEF D, E
    <3> QED BY <1>4, <1>6, <2>1, DecodeSame
  <2> QED BY <2>2, Unmarshalled1, Unmarshalled2
<1>8. old.manager.runtime = new.manager.runtime
  BY <1>4, Unmarshalled1, Unmarshalled2
<1>9. \A f \in OptionalContainerConfig : old.collector[f] = new.collector[f]
  <2> TAKE f \in OptionalContainerConfig
  <2>1. D["collector"][f] = E["collector"][f]
    BY DefaultSections
  <2>2. Decode(b, D)["collector"][f] = Decode(c, E)["collector"][f]
    <3> HIDE DEF D, E
    <3>1. /\ Gives(b, "collector", f) <=> Gives(c, "collector", f)
          /\ Gives(b, "collector", f) => b["collector"][f] = c["collector"][f]
          /\ "collector" \in DOMAIN D /\ "collector" \in DOMAIN E
          /\ f \in DOMAIN D["collector"] /\ f \in DOMAIN E["collector"]
      BY <1>4, <1>6
    <3> QED BY <2>1, <3>1, DecodeSame
  <2> QED BY <2>2, Unmarshalled1, Unmarshalled2
<1>10. \A f \in OptionalContainerConfig \ {"config"} : old.scanner[f] = new.scanner[f]
  <2> TAKE f \in OptionalContainerConfig \ {"config"}
  <2>1. D["scanner"][f] = E["scanner"][f]
    BY DefaultSections, ScannersAgree
  <2>2. Decode(b, D)["scanner"][f] = Decode(c, E)["scanner"][f]
    <3> HIDE DEF D, E
    <3> QED BY <1>4, <1>6, <2>1, DecodeSame
  <2> QED BY <2>2, Unmarshalled1, Unmarshalled2
<1>11. \A f \in ContainerConfig : old.eraser[f] = new.remover[f]
  <2> TAKE f \in ContainerConfig
  <2>1. D["eraser"][f] = E["remover"][f] \/ (Gives(b, "eraser", f) /\ f # "config")
    BY DefaultSections, RemoversAgree, <1>2
  <2>2. Decode(b, D)["eraser"][f] = Decode(c, E)["remover"][f]
    <3> HIDE DEF D, E
    <3> QED BY <1>4, <1>6, <2>1, DecodeSame
  <2> QED BY <2>2, Unmarshalled1, Unmarshalled2
<1> HIDE DEF old, new
<1>12. Meaning(V1alpha1!ToUnversioned(old)) = Meaning(V1alpha2!ToUnversioned(new))
  <2> DEFINE M(in) ==
               [f \in ManagerConfig |->
                   CASE f = "runtime" -> ConvertRuntimeToRuntimeSpec(in.manager.runtime)
                     [] f = "additionalPodLabels" -> None
                     [] OTHER -> in.manager[f]]
             C(in) == [f \in OptionalContainerConfig |-> in.collector[f]]
             S(in) == [f \in OptionalContainerConfig |-> in.scanner[f]]
  <2>1. M(old) = M(new)
    BY <1>7, <1>8
  <2>2. C(old) = C(new)
    BY <1>9
  <2>3. [f \in ContainerConfig |-> old.eraser[f]] =
        [f \in ContainerConfig |-> new.remover[f]]
    BY <1>11
  <2>4. \A m, c2, r : Meaning(Config4(m, c2, S(old), r)) = Meaning(Config4(m, c2, S(new),
       r))
    BY <1>10, SameMeaning
  <2>5. V1alpha1!ToUnversioned(old) =
           Config4(M(old), C(old), S(old), [f \in ContainerConfig |-> old.eraser[f]])
    BY Converted1 DEF Config4
  <2>6. V1alpha2!ToUnversioned(new) =
           Config4(M(new), C(new), S(new), [f \in ContainerConfig |-> new.remover[f]])
    BY Converted2 DEF Config4
  <2> HIDE DEF M, C, S
  <2> QED BY <2>1, <2>2, <2>3, <2>4, <2>5, <2>6
<1>13. Loaded(doc) = V1alpha1!ToUnversioned(old)
  BY DEF Loaded, old, b
<1>14. Loaded(Migrated(doc)) = V1alpha2!ToUnversioned(new) /\ Accepts(Migrated(doc))
  BY <1>1, <1>5 DEF Loaded, Accepts, new
<1> QED BY <1>12, <1>13, <1>14

\* A v1alpha2 document keeps its meaning when it is rewritten as v1alpha3.
LEMMA Migration23 ==
    ASSUME NEW doc, doc.apiVersion = "v1alpha2", WellFormed(doc), Accepts(doc)
    PROVE  /\ Accepts(Migrated(doc))
           /\ Meaning(Loaded(Migrated(doc))) = Meaning(Loaded(doc))
<1> DEFINE b == doc.body
           c == WithSpec(b)
           D == V1alpha2!DefaultConfig
           E == V1alpha3!DefaultConfig
           old == V1alpha2!Unmarshal(b)
           new == V1alpha3!Unmarshal(c)
<1>1. Migrated(doc) = [apiVersion |-> "v1alpha3", body |-> c]
  BY DEF Migrated
<1>2. /\ V1alpha2!Unmarshals(b)
      /\ ~Gives(b, "manager", "additionalPodLabels")
      /\ Gives(b, "manager", "runtime") =>
            /\ b.manager.runtime \in [kind : {"name", "spec"}, name : STRING,
                                      address : [scheme : STRING, path : STRING]]
            /\ b.manager.runtime.kind = "name" => b.manager.runtime.address = NoAddress
  BY DEF WellFormed, Accepts
<1>3. /\ DOMAIN c = DOMAIN b
      /\ \A s \in DOMAIN b :
            /\ DOMAIN c[s] = DOMAIN b[s]
            /\ \A f \in DOMAIN b[s] : c[s][f] = b[s][f] \/ (s = "manager" /\ f = "runtime")
      /\ Gives(b, "manager", "runtime") =>
            c.manager.runtime = [b.manager.runtime EXCEPT !.kind = "spec"]
  <2> HIDE DEF b
  <2>1. CASE Gives(b, "manager", "runtime")
    BY <2>1 DEF Gives, WithSpec
  <2>2. CASE ~Gives(b, "manager", "runtime")
    BY <2>2 DEF WithSpec
  <2> QED BY <2>1, <2>2
<1> HIDE DEF b, c
<1>4. \A s, f : /\ Gives(b, s, f) <=> Gives(c, s, f)
                /\ Gives(b, s, f) /\ (s # "manager" \/ f # "runtime") => b[s][f] = c[s][f]
  BY <1>3 DEF Gives
<1>5. Gives(b, "manager", "runtime") =>
         /\ V1alpha3!UnmarshalsRuntimeSpec(c.manager.runtime)
         /\ V1alpha3!RuntimeSpecOf(c.manager.runtime) =
               ConvertRuntimeToRuntimeSpec(b.manager.runtime.name)
  <2> SUFFICES ASSUME Gives(b, "manager", "runtime")
               PROVE  /\ V1alpha3!UnmarshalsRuntimeSpec(c.manager.runtime)
                      /\ V1alpha3!RuntimeSpecOf(c.manager.runtime) =
                            ConvertRuntimeToRuntimeSpec(b.manager.runtime.name)
    OBVIOUS
  <2>1. b.manager.runtime.kind = "name" /\ b.manager.runtime.name \in Runtimes
    BY <1>2, Same2 DEF V1alpha2!Unmarshals, V1alpha2!UnmarshalsRuntime
  <2>2. /\ c.manager.runtime.kind = "spec"
        /\ c.manager.runtime.name = b.manager.runtime.name
        /\ c.manager.runtime.address = NoAddress
    BY <1>2, <1>3, <2>1
  <2>3. V1alpha3!NoAddress = NoAddress /\ V1alpha3!None = None /\ None \notin Runtimes
    BY DEF V1alpha3!NoAddress, NoAddress, V1alpha3!None, None, Runtimes
  <2> QED BY <2>1, <2>2, <2>3, Same3 DEF V1alpha3!UnmarshalsRuntimeSpec,
       V1alpha3!RuntimeSpecOf
<1>6. V1alpha3!Unmarshals(c)
  BY <1>4, <1>5, Same3 DEF V1alpha3!Unmarshals
<1>7. /\ DOMAIN D = {"manager", "collector", "scanner", "remover"}
      /\ DOMAIN E = {"manager", "collector", "scanner", "remover"}
      /\ DOMAIN D["manager"] = ManagerConfig \ {"additionalPodLabels"}
      /\ DOMAIN E["manager"] = ManagerConfig
      /\ \A s \in {"collector", "scanner"} :
            DOMAIN D[s] = OptionalContainerConfig /\ DOMAIN E[s] = OptionalContainerConfig
      /\ DOMAIN D["remover"] = ContainerConfig /\ DOMAIN E["remover"] = ContainerConfig
  BY Defaults2, Defaults3
<1>8. \A f \in ManagerConfig \ {"runtime", "additionalPodLabels"} :
         old.manager[f] = new.manager[f]
  <2> TAKE f \in ManagerConfig \ {"runtime", "additionalPodLabels"}
  <2>1. D["manager"][f] = E["manager"][f]
    BY ManagersAgree DEF DefaultManager
  <2>2. Decode(b, D)["manager"][f] = Decode(c, E)["manager"][f]
    <3> HIDE DEF D, E
    <3>1. /\ Gives(b, "manager", f) <=> Gives(c, "manager", f)
          /\ Gives(b, "manager", f) => b["manager"][f] = c["manager"][f]
          /\ "manager" \in DOMAIN D /\ "manager" \in DOMAIN E
          /\ f \in DOMAIN D["manager"] /\ f \in DOMAIN E["manager"]
      BY <1>4, <1>7
    <3> QED BY <2>1, <3>1, DecodeSame
  <2> QED BY <2>2, Unmarshalled2, Unmarshalled3
<1>9. new.manager.additionalPodLabels = None
  <2>1. /\ "additionalPodLabels" \in ManagerConfig
        /\ E["manager"]["additionalPodLabels"] = None
    BY ManagersAgree DEF ManagerConfig
  <2>2. Decode(c, E)["manager"]["additionalPodLabels"] = None
    <3> HIDE DEF E
    <3> QED BY <1>2, <1>4, <1>7, <2>1 DEF Decode
  <2> QED BY <2>1, <2>2, Unmarshalled3
<1>10. new.manager.runtime = ConvertRuntimeToRuntimeSpec(old.manager.runtime)
  BY <1>4, <1>5, Unmarshalled2, Unmarshalled3
<1>11. \A f \in OptionalContainerConfig : old.collector[f] = new.collector[f]
  <2> TAKE f \in OptionalContainerConfig
  <2>1. D["collector"][f] = E["collector"][f]
    BY DefaultSections
  <2>2. Decode(b, D)["collector"][f] = Decode(c, E)["collector"][f]
    <3> HIDE DEF D, E
    <3>1. /\ Gives(b, "collector", f) <=> Gives(c, "collector", f)
          /\ Gives(b, "collector", f) => b["collector"][f] = c["collector"][f]
          /\ "collector" \in DOMAIN D /\ "collector" \in DOMAIN E
          /\ f \in DOMAIN D["collector"] /\ f \in DOMAIN E["collector"]
      BY <1>4, <1>7
    <3> QED BY <2>1, <3>1, DecodeSame
  <2> QED BY <2>2, Unmarshalled2, Unmarshalled3
<1>12. \A f \in OptionalContainerConfig \ {"config"} : old.scanner[f] = new.scanner[f]
  <2> TAKE f \in OptionalContainerConfig \ {"config"}
  <2>1. D["scanner"][f] = E["scanner"][f]
    BY DefaultSections, ScannersAgree
  <2>2. Decode(b, D)["scanner"][f] = Decode(c, E)["scanner"][f]
    <3> HIDE DEF D, E
    <3>1. /\ Gives(b, "scanner", f) <=> Gives(c, "scanner", f)
          /\ Gives(b, "scanner", f) => b["scanner"][f] = c["scanner"][f]
          /\ "scanner" \in DOMAIN D /\ "scanner" \in DOMAIN E
          /\ f \in DOMAIN D["scanner"] /\ f \in DOMAIN E["scanner"]
      BY <1>4, <1>7
    <3> QED BY <2>1, <3>1, DecodeSame
  <2> QED BY <2>2, Unmarshalled2, Unmarshalled3
<1>13. \A f \in ContainerConfig : old.remover[f] = new.remover[f]
  <2> TAKE f \in ContainerConfig
  <2>1. D["remover"][f] = E["remover"][f]
    BY DefaultSections
  <2>2. Decode(b, D)["remover"][f] = Decode(c, E)["remover"][f]
    <3> HIDE DEF D, E
    <3>1. /\ Gives(b, "remover", f) <=> Gives(c, "remover", f)
          /\ Gives(b, "remover", f) => b["remover"][f] = c["remover"][f]
          /\ "remover" \in DOMAIN D /\ "remover" \in DOMAIN E
          /\ f \in DOMAIN D["remover"] /\ f \in DOMAIN E["remover"]
      BY <1>4, <1>7
    <3> QED BY <2>1, <3>1, DecodeSame
  <2> QED BY <2>2, Unmarshalled2, Unmarshalled3
<1> HIDE DEF old, new
<1>14. Meaning(V1alpha2!ToUnversioned(old)) = Meaning(V1alpha3!ToUnversioned(new))
  <2> DEFINE M == [f \in ManagerConfig |->
                      CASE f = "runtime" -> ConvertRuntimeToRuntimeSpec(old.manager.runtime)
                        [] f = "additionalPodLabels" -> None
                        [] OTHER -> old.manager[f]]
             C(in) == [f \in OptionalContainerConfig |-> in.collector[f]]
             S(in) == [f \in OptionalContainerConfig |-> in.scanner[f]]
             R(in) == [f \in ContainerConfig |-> in.remover[f]]
  <2>1. M = [f \in ManagerConfig |-> new.manager[f]]
    BY <1>8, <1>9, <1>10
  <2>2. C(old) = C(new)
    BY <1>11
  <2>3. R(old) = R(new)
    BY <1>13
  <2>4. \A m, c2, r : Meaning(Config4(m, c2, S(old), r)) = Meaning(Config4(m, c2, S(new),
       r))
    BY <1>12, SameMeaning
  <2>5. V1alpha2!ToUnversioned(old) = Config4(M, C(old), S(old), R(old))
    BY Converted2 DEF Config4
  <2>6. V1alpha3!ToUnversioned(new) =
           Config4([f \in ManagerConfig |-> new.manager[f]], C(new), S(new), R(new))
    BY Converted3 DEF Config4
  <2> HIDE DEF M, C, S, R
  <2> QED BY <2>1, <2>2, <2>3, <2>4, <2>5, <2>6
<1>15. Loaded(doc) = V1alpha2!ToUnversioned(old)
  BY DEF Loaded, old, b
<1>16. Loaded(Migrated(doc)) = V1alpha3!ToUnversioned(new) /\ Accepts(Migrated(doc))
  BY <1>1, <1>6 DEF Loaded, Accepts, new
<1> QED BY <1>14, <1>15, <1>16

\* A document rewritten for the next version is accepted if it was, and means the
\* same, whatever it gives and leaves out - but the image of the remover, whose
\* default has another name in v1alpha1.
THEOREM MigrationIsFaithful == Spec => MigrationKeepsMeaning
<1>1. ASSUME NEW doc \in Document, Accepts(doc), NamesRemover(doc)
      PROVE  /\ Accepts(Migrated(doc))
             /\ Meaning(Loaded(Migrated(doc))) = Meaning(Loaded(doc))
  <2>1. WellFormed(doc)
    BY ConfigReloadAssumption
  <2>2. CASE doc.apiVersion = "v1alpha3"
    BY <1>1, <2>2 DEF Migrated
  <2> QED BY <1>1, <2>1, <2>2, Migration12, Migration23 DEF Accepts
<1>2. TypeOK => configMap \in Document
  BY DEF TypeOK
<1>3. TypeOK /\ [Next]_vars =>
         [configMap' = Migrated(configMap) /\ Accepts(configMap) /\ NamesRemover(configMap)
            => /\ Accepts(configMap')
               /\ Meaning(Loaded(configMap')) = Meaning(Loaded(configMap))]_vars
  BY <1>1, <1>2
<1> QED BY <1>3, TypeCorrect, PTL DEF Spec, MigrationKeepsMeaning

(***************************************************************************)
(* Round trips.                                                            *)
(***************************************************************************)
\* No field of a configuration of v1alpha1 is lost when it is converted and
\* converted back: the generated conversions and those by hand fit together.
THEOREM RoundTrip1 ==
    ASSUME NEW in, in.manager.runtime \in Runtimes
    PROVE  \A s \in DOMAIN V1alpha1!Fields : \A f \in V1alpha1!Fields[s] :
               V1alpha1!FromUnversioned(V1alpha1!ToUnversioned(in))[s][f] = in[s][f]
<1> DEFINE u == V1alpha1!ToUnversioned(in)
           w == V1alpha1!FromUnversioned(u)
           older == Copy(u.manager, V1alpha1!Fields.manager, V1alpha1!Copied)
<1>1. V1alpha1!Fields = [manager   |-> ManagerConfig \ {"additionalPodLabels"},
                         collector |-> OptionalContainerConfig,
                         scanner   |-> OptionalContainerConfig,
                         eraser    |-> ContainerConfig]
  BY Same1 DEF V1alpha1!Fields
<1>2. /\ \A f \in ManagerConfig \ {"runtime", "additionalPodLabels"} :
            u.manager[f] = in.manager[f]
      /\ u.manager.runtime.name = in.manager.runtime
      /\ \A f \in OptionalContainerConfig : u.collector[f] = in.collector[f]
      /\ \A f \in OptionalContainerConfig : u.scanner[f] = in.scanner[f]
      /\ \A f \in ContainerConfig : u.remover[f] = in.eraser[f]
  BY Converted1 DEF ConvertRuntimeToRuntimeSpec, ManagerConfig
<1> HIDE DEF u
<1>3. /\ \A f \in OptionalContainerConfig : w.collector[f] = u.collector[f]
      /\ \A f \in OptionalContainerConfig : w.scanner[f] = u.scanner[f]
      /\ \A f \in ContainerConfig : w.eraser[f] = u.remover[f]
      /\ w.manager = [older EXCEPT !.runtime = u.manager.runtime.name]
  BY CopiedFields1, CopyIs, Same1 DEF V1alpha1!FromUnversioned, V1alpha1!SpecToRuntime
<1>4. older = [f \in ManagerConfig \ {"additionalPodLabels"} |->
                  IF f \in V1alpha1!Copied THEN u.manager[f] ELSE Zero[f]]
  BY <1>1 DEF Copy
<1>5. \A f \in ManagerConfig \ {"additionalPodLabels"} : w.manager[f] = in.manager[f]
  <2> HIDE DEF w, older
  <2> QED BY <1>2, <1>3, <1>4, CopiedFields1 DEF ManagerConfig
<1> HIDE DEF w
<1>6. /\ DOMAIN V1alpha1!Fields = {"manager", "collector", "scanner", "eraser"}
      /\ V1alpha1!Fields["manager"] = ManagerConfig \ {"additionalPodLabels"}
      /\ V1alpha1!Fields["collector"] = OptionalContainerConfig
      /\ V1alpha1!Fields["scanner"] = OptionalContainerConfig
      /\ V1alpha1!Fields["eraser"] = ContainerConfig
  BY <1>1
<1>7. /\ \A f \in OptionalContainerConfig : w.collector[f] = in.collector[f]
      /\ \A f \in OptionalContainerConfig : w.scanner[f] = in.scanner[f]
      /\ \A f \in ContainerConfig : w.eraser[f] = in.eraser[f]
  BY <1>2, <1>3
<1>8. \A s \in DOMAIN V1alpha1!Fields : \A f \in V1alpha1!Fields[s] : w[s][f] = in[s][f]
  BY <1>5, <1>6, <1>7
<1> QED BY <1>8 DEF w, u

\* No field of a configuration of v1alpha2 is lost when it is converted and
\* converted back, the runtime by hand and everything else as generated.
THEOREM RoundTrip2 ==
    ASSUME NEW in, in.manager.runtime \in Runtimes
    PROVE  \A s \in DOMAIN V1alpha2!Fields : \A f \in V1alpha2!Fields[s] :
               V1alpha2!FromUnversioned(V1alpha2!ToUnversioned(in))[s][f] = in[s][f]
<1> DEFINE u == V1alpha2!ToUnversioned(in)
           w == V1alpha2!FromUnversioned(u)
           older == Copy(u.manager, V1alpha2!Fields.manager, V1alpha2!Copied)
<1>1. V1alpha2!Fields = [manager   |-> ManagerConfig \ {"additionalPodLabels"},
                         collector |-> OptionalContainerConfig,
                         scanner   |-> OptionalContainerConfig,
                         remover   |-> ContainerConfig]
  BY Same2 DEF V1alpha2!Fields
<1>2. /\ \A f \in ManagerConfig \ {"runtime", "additionalPodLabels"} :
            u.manager[f] = in.manager[f]
      /\ u.manager.runtime.name = in.manager.runtime
      /\ \A f \in OptionalContainerConfig : u.collector[f] = in.collector[f]
      /\ \A f \in OptionalContainerConfig : u.scanner[f] = in.scanner[f]
      /\ \A f \in ContainerConfig : u.remover[f] = in.remover[f]
  BY Converted2 DEF ConvertRuntimeToRuntimeSpec, ManagerConfig
<1> HIDE DEF u
<1>3. /\ \A f \in OptionalContainerConfig : w.collector[f] = u.collector[f]
      /\ \A f \in OptionalContainerConfig : w.scanner[f] = u.scanner[f]
      /\ \A f \in ContainerConfig : w.remover[f] = u.remover[f]
      /\ w.manager = [older EXCEPT !.runtime = u.manager.runtime.name]
  BY CopiedFields2, CopyIs, Same2 DEF V1alpha2!FromUnversioned, V1alpha2!SpecToRuntime
<1>4. older = [f \in ManagerConfig \ {"additionalPodLabels"} |->
                  IF f \in V1alpha2!Copied THEN u.manager[f] ELSE Zero[f]]
  BY <1>1 DEF Copy
<1>5. \A f \in ManagerConfig \ {"additionalPodLabels"} : w.manager[f] = in.manager[f]
  <2> HIDE DEF w, older
  <2> QED BY <1>2, <1>3, <1>4, CopiedFields2 DEF ManagerConfig
<1> HIDE DEF w
<1>6. /\ DOMAIN V1alpha2!Fields = {"manager", "collector", "scanner", "remover"}
      /\ V1alpha2!Fields["manager"] = ManagerConfig \ {"additionalPodLabels"}
      /\ V1alpha2!Fields["collector"] = OptionalContainerConfig
      /\ V1alpha2!Fields["scanner"] = OptionalContainerConfig
      /\ V1alpha2!Fields["remover"] = ContainerConfig
  BY <1>1
<1>7. /\ \A f \in OptionalContainerConfig : w.collector[f] = in.collector[f]
      /\ \A f \in OptionalContainerConfig : w.scanner[f] = in.scanner[f]
      /\ \A f \in ContainerConfig : w.remover[f] = in.remover[f]
  BY <1>2, <1>3
<1>8. \A s \in DOMAIN V1alpha2!Fields : \A f \in V1alpha2!Fields[s] : w[s][f] = in[s][f]
  BY <1>5, <1>6, <1>7
<1> QED BY <1>8 DEF w, u

\* No field of a configuration of v1alpha3 is lost when it is converted and
\* converted back, the specification of the runtime with its address included.
THEOREM RoundTrip3 ==
    ASSUME NEW in
    PROVE  \A s \in DOMAIN V1alpha3!Fields : \A f \in V1alpha3!Fields[s] :
               V1alpha3!FromUnversioned(V1alpha3!ToUnversioned(in))[s][f] = in[s][f]
<1> DEFINE u == V1alpha3!ToUnversioned(in)
           w == V1alpha3!FromUnversioned(u)
<1>1. V1alpha3!Fields = [manager   |-> ManagerConfig,
                         collector |-> OptionalContainerConfig,
                         scanner   |-> OptionalContainerConfig,
                         remover   |-> ContainerConfig]
  BY Same3 DEF V1alpha3!Fields
<1>2. /\ \A f \in ManagerConfig : u.manager[f] = in.manager[f]
      /\ \A f \in OptionalContainerConfig : u.collector[f] = in.collector[f]
      /\ \A f \in OptionalContainerConfig : u.scanner[f] = in.scanner[f]
      /\ \A f \in ContainerConfig : u.remover[f] = in.remover[f]
  BY Converted3
<1> HIDE DEF u
<1>3. /\ \A f \in ManagerConfig : w.manager[f] = u.manager[f]
      /\ \A f \in OptionalContainerConfig : w.collector[f] = u.collector[f]
      /\ \A f \in OptionalContainerConfig : w.scanner[f] = u.scanner[f]
      /\ \A f \in ContainerConfig : w.remover[f] = u.remover[f]
  BY CopiedFields3, CopyIs, Same3 DEF V1alpha3!FromUnversioned
<1> HIDE DEF w
<1>4. \A s \in DOMAIN V1alpha3!Fields : \A f \in V1alpha3!Fields[s] : w[s][f] = in[s][f]
  BY <1>1, <1>2, <1>3
<1> QED BY <1>4 DEF w, u
=============================================================================
