---------------------------- MODULE ConfigProofs ----------------------------
(***************************************************************************)
(* Proofs about the configuration, for any documents: what is loaded from  *)
(* a file, what the conversions keep, and what the manager has in force    *)
(* while files change under it.                                            *)
(***************************************************************************)
EXTENDS ConfigReload, TLAPS

(***************************************************************************)
(* What a decoded document has for a field.                                *)
(***************************************************************************)
LEMMA Defaults1 ==
    LET D == V1alpha1!DefaultConfig
    IN  /\ DOMAIN D = {"manager", "collector", "scanner", "eraser"}
        /\ DOMAIN D.manager = ManagerConfig \ {"additionalPodLabels"}
        /\ DOMAIN D.collector = OptionalContainerConfig
        /\ DOMAIN D.scanner = OptionalContainerConfig
        /\ DOMAIN D.eraser = ContainerConfig
        /\ D.manager.runtime = "containerd"
        /\ D.collector.enabled = FALSE /\ D.scanner.enabled = FALSE
BY DEF V1alpha1!DefaultConfig, ManagerConfig, OptionalContainerConfig, ContainerConfig

\* The sections and fields of the defaults of v1alpha2.
LEMMA Defaults2 ==
    LET D == V1alpha2!DefaultConfig
    IN  /\ DOMAIN D = {"manager", "collector", "scanner", "remover"}
        /\ DOMAIN D.manager = ManagerConfig \ {"additionalPodLabels"}
        /\ DOMAIN D.collector = OptionalContainerConfig
        /\ DOMAIN D.scanner = OptionalContainerConfig
        /\ DOMAIN D.remover = ContainerConfig
        /\ D.manager.runtime = "containerd"
        /\ D.collector.enabled = FALSE /\ D.scanner.enabled = FALSE
BY DEF V1alpha2!DefaultConfig, ManagerConfig, OptionalContainerConfig, ContainerConfig

\* The sections and fields of the defaults of v1alpha3.
LEMMA Defaults3 ==
    LET D == V1alpha3!DefaultConfig
    IN  /\ DOMAIN D = {"manager", "collector", "scanner", "remover"}
        /\ DOMAIN D.manager = ManagerConfig
        /\ DOMAIN D.collector = OptionalContainerConfig
        /\ DOMAIN D.scanner = OptionalContainerConfig
        /\ DOMAIN D.remover = ContainerConfig
        /\ D.manager.runtime = ConvertRuntimeToRuntimeSpec("containerd")
        /\ D.collector.enabled = FALSE /\ D.scanner.enabled = FALSE
BY DEF V1alpha3!DefaultConfig, ManagerConfig, OptionalContainerConfig, ContainerConfig,
       ConvertRuntimeToRuntimeSpec, SocketOf, V1alpha3!ConvertRuntimeToRuntimeSpec,
       V1alpha3!SocketOf

(***************************************************************************)
(* The runtime of a configuration.                                         *)
(***************************************************************************)
Complete(runtime) ==
    runtime.name \in Runtimes /\ runtime.address.scheme \in {"tcp", "unix"}

\* The runtimes that the controller knows have a usable default address.
LEMMA SocketIsComplete ==
    \A r \in Runtimes : Complete(ConvertRuntimeToRuntimeSpec(r))
BY DEF Complete, Runtimes, ConvertRuntimeToRuntimeSpec, SocketOf

\* A v1alpha1 document that is decoded names a known runtime.
LEMMA Runtime1 ==
    ASSUME NEW body, V1alpha1!Unmarshals(body)
    PROVE  V1alpha1!Unmarshal(body).manager.runtime \in Runtimes
<1>1. V1alpha1!Decode(body, V1alpha1!DefaultConfig).manager.runtime =
         IF Gives(body, "manager", "runtime") THEN body.manager.runtime ELSE "containerd"
  BY Defaults1 DEF V1alpha1!Decode, V1alpha1!Gives, V1alpha1!Points, Gives, ManagerConfig
<1>2. /\ "manager" \in DOMAIN V1alpha1!Decode(body, V1alpha1!DefaultConfig)
      /\ "runtime" \in DOMAIN V1alpha1!Decode(body, V1alpha1!DefaultConfig).manager
  BY Defaults1 DEF V1alpha1!Decode, ManagerConfig
<1>3. CASE Gives(body, "manager", "runtime")
  <2>1. body.manager.runtime.name \in Runtimes
    BY <1>3 DEF V1alpha1!Unmarshals, V1alpha1!UnmarshalsRuntime, V1alpha1!Gives, Gives,
                V1alpha1!Runtimes, Runtimes
  <2> QED BY <1>2, <1>3, <2>1 DEF V1alpha1!Unmarshal, V1alpha1!Gives, Gives
<1>4. CASE ~Gives(body, "manager", "runtime")
  BY <1>1, <1>4 DEF V1alpha1!Unmarshal, V1alpha1!Gives, Gives, Runtimes
<1> QED BY <1>3, <1>4

\* The conversion from v1alpha1 gives the runtime its default address.
LEMMA Loaded1 ==
    ASSUME NEW in, in.manager.runtime \in Runtimes
    PROVE  V1alpha1!ToUnversioned(in).manager.runtime =
               ConvertRuntimeToRuntimeSpec(in.manager.runtime)
BY DEF V1alpha1!ToUnversioned, V1alpha1!Copy, V1alpha1!ManagerConfig,
       V1alpha1!RuntimeToSpec, V1alpha1!ConvertRuntimeToRuntimeSpec, ConvertRuntimeToRuntimeSpec,
       V1alpha1!SocketOf, SocketOf

\* A v1alpha2 document that is decoded names a known runtime.
LEMMA Runtime2 ==
    ASSUME NEW body, V1alpha2!Unmarshals(body)
    PROVE  V1alpha2!Unmarshal(body).manager.runtime \in Runtimes
<1>1. V1alpha2!Decode(body, V1alpha2!DefaultConfig).manager.runtime =
         IF Gives(body, "manager", "runtime") THEN body.manager.runtime ELSE "containerd"
  BY Defaults2 DEF V1alpha2!Decode, V1alpha2!Gives, V1alpha2!Points, Gives, ManagerConfig
<1>2. /\ "manager" \in DOMAIN V1alpha2!Decode(body, V1alpha2!DefaultConfig)
      /\ "runtime" \in DOMAIN V1alpha2!Decode(body, V1alpha2!DefaultConfig).manager
  BY Defaults2 DEF V1alpha2!Decode, ManagerConfig
<1>3. CASE Gives(body, "manager", "runtime")
  <2>1. body.manager.runtime.name \in Runtimes
    BY <1>3 DEF V1alpha2!Unmarshals, V1alpha2!UnmarshalsRuntime, V1alpha2!Gives, Gives,
                V1alpha2!Runtimes, Runtimes
  <2> QED BY <1>2, <1>3, <2>1 DEF V1alpha2!Unmarshal, V1alpha2!Gives, Gives
<1>4. CASE ~Gives(body, "manager", "runtime")
  BY <1>1, <1>4 DEF V1alpha2!Unmarshal, V1alpha2!Gives, Gives, Runtimes
<1> QED BY <1>3, <1>4

\* The conversion from v1alpha2 gives the runtime its default address.
LEMMA Loaded2 ==
    ASSUME NEW in, in.manager.runtime \in Runtimes
    PROVE  V1alpha2!ToUnversioned(in).manager.runtime =
               ConvertRuntimeToRuntimeSpec(in.manager.runtime)
BY DEF V1alpha2!ToUnversioned, V1alpha2!Copy, V1alpha2!ManagerConfig,
       V1alpha2!RuntimeToSpec, V1alpha2!ConvertRuntimeToRuntimeSpec, ConvertRuntimeToRuntimeSpec,
       V1alpha2!SocketOf, SocketOf

\* A v1alpha3 document that is decoded has a known runtime and its address.
LEMMA Runtime3 ==
    ASSUME NEW body, V1alpha3!Unmarshals(body)
    PROVE  Complete(V1alpha3!Unmarshal(body).manager.runtime)
<1>1. V1alpha3!Decode(body, V1alpha3!DefaultConfig).manager.runtime =
         IF Gives(body, "manager", "runtime") THEN body.manager.runtime
         ELSE ConvertRuntimeToRuntimeSpec("containerd")
  BY Defaults3 DEF V1alpha3!Decode, V1alpha3!Gives, V1alpha3!Points, Gives, ManagerConfig
<1>2. /\ "manager" \in DOMAIN V1alpha3!Decode(body, V1alpha3!DefaultConfig)
      /\ "runtime" \in DOMAIN V1alpha3!Decode(body, V1alpha3!DefaultConfig).manager
  BY Defaults3 DEF V1alpha3!Decode, ManagerConfig
<1>3. CASE Gives(body, "manager", "runtime")
  <2>1. V1alpha3!UnmarshalsRuntimeSpec(body.manager.runtime)
    BY <1>3 DEF V1alpha3!Unmarshals, V1alpha3!Gives, Gives
  <2>2. Complete(V1alpha3!RuntimeSpecOf(body.manager.runtime))
    BY <2>1 DEF V1alpha3!UnmarshalsRuntimeSpec, V1alpha3!RuntimeSpecOf, Complete, Runtimes,
                V1alpha3!Runtimes, V1alpha3!NoAddress, V1alpha3!None, V1alpha3!SocketOf,
                V1alpha3!ConvertRuntimeToRuntimeSpec
  <2>3. V1alpha3!Unmarshal(body).manager.runtime =
           V1alpha3!RuntimeSpecOf(body.manager.runtime)
    BY <1>2, <1>3 DEF V1alpha3!Unmarshal, V1alpha3!Gives, Gives
  <2> QED BY <2>2, <2>3
<1>4. CASE ~Gives(body, "manager", "runtime")
  <2>1. V1alpha3!Unmarshal(body).manager.runtime = ConvertRuntimeToRuntimeSpec("containerd")
    BY <1>1, <1>4 DEF V1alpha3!Unmarshal, V1alpha3!Gives, Gives
  <2> QED BY <2>1, SocketIsComplete DEF Runtimes
<1> QED BY <1>3, <1>4

\* The conversion from v1alpha3 keeps the runtime as it is.
LEMMA Loaded3 ==
    ASSUME NEW in
    PROVE  V1alpha3!ToUnversioned(in).manager.runtime = in.manager.runtime
BY DEF V1alpha3!ToUnversioned, V1alpha3!Copy, V1alpha3!ManagerConfig, V1alpha3!Copied,
       V1alpha3!RuntimeSpecFields

\* Whatever its version, an accepted document has a usable runtime.
LEMMA LoadedIsComplete ==
    ASSUME NEW doc, Accepts(doc)
    PROVE  Complete(Loaded(doc).manager.runtime)
<1>1. CASE doc.apiVersion = "v1alpha1"
  BY <1>1, Runtime1, Loaded1, SocketIsComplete DEF Accepts, Loaded
<1>2. CASE doc.apiVersion = "v1alpha2"
  BY <1>2, Runtime2, Loaded2, SocketIsComplete DEF Accepts, Loaded
<1>3. CASE doc.apiVersion = "v1alpha3"
  BY <1>3, Runtime3, Loaded3 DEF Accepts, Loaded
<1> QED BY <1>1, <1>2, <1>3 DEF Accepts

(***************************************************************************)
(* The components of a configuration are switched on or off.               *)
(***************************************************************************)
LEMMA Switches1 ==
    ASSUME NEW doc, WellFormed(doc), NEW s \in {"collector", "scanner"}
    PROVE  V1alpha1!ToUnversioned(V1alpha1!Unmarshal(doc.body))[s].enabled \in BOOLEAN
<1>1. V1alpha1!Decode(doc.body, V1alpha1!DefaultConfig)[s].enabled \in BOOLEAN
  BY Defaults1 DEF WellFormed, V1alpha1!Decode, V1alpha1!Gives, V1alpha1!Points, Gives,
                   OptionalContainerConfig
<1>2. V1alpha1!Unmarshal(doc.body)[s] = V1alpha1!Decode(doc.body, V1alpha1!DefaultConfig)[s]
  BY Defaults1 DEF V1alpha1!Unmarshal, V1alpha1!Decode
<1>3. V1alpha1!ToUnversioned(V1alpha1!Unmarshal(doc.body))[s].enabled =
         V1alpha1!Unmarshal(doc.body)[s].enabled
  BY DEF V1alpha1!ToUnversioned, V1alpha1!ComponentsToUnversioned, V1alpha1!Copy,
         V1alpha1!OptionalContainerConfig, V1alpha1!Copied, V1alpha1!SwitchAndProfileFields
<1> QED BY <1>1, <1>2, <1>3

\* The switches of a component are booleans in a v1alpha2 document.
LEMMA Switches2 ==
    ASSUME NEW doc, WellFormed(doc), NEW s \in {"collector", "scanner"}
    PROVE  V1alpha2!ToUnversioned(V1alpha2!Unmarshal(doc.body))[s].enabled \in BOOLEAN
<1>1. V1alpha2!Decode(doc.body, V1alpha2!DefaultConfig)[s].enabled \in BOOLEAN
  BY Defaults2 DEF WellFormed, V1alpha2!Decode, V1alpha2!Gives, V1alpha2!Points, Gives,
                   OptionalContainerConfig
<1>2. V1alpha2!Unmarshal(doc.body)[s] = V1alpha2!Decode(doc.body, V1alpha2!DefaultConfig)[s]
  BY Defaults2 DEF V1alpha2!Unmarshal, V1alpha2!Decode
<1>3. V1alpha2!ToUnversioned(V1alpha2!Unmarshal(doc.body))[s].enabled =
         V1alpha2!Unmarshal(doc.body)[s].enabled
  BY DEF V1alpha2!ToUnversioned, V1alpha2!ComponentsToUnversioned, V1alpha2!Copy,
         V1alpha2!OptionalContainerConfig, V1alpha2!Copied, V1alpha2!SwitchAndProfileFields
<1> QED BY <1>1, <1>2, <1>3

\* The switches of a component are booleans in a v1alpha3 document.
LEMMA Switches3 ==
    ASSUME NEW doc, WellFormed(doc), NEW s \in {"collector", "scanner"}
    PROVE  V1alpha3!ToUnversioned(V1alpha3!Unmarshal(doc.body))[s].enabled \in BOOLEAN
<1>1. V1alpha3!Decode(doc.body, V1alpha3!DefaultConfig)[s].enabled \in BOOLEAN
  BY Defaults3 DEF WellFormed, V1alpha3!Decode, V1alpha3!Gives, V1alpha3!Points, Gives,
                   OptionalContainerConfig
<1>2. V1alpha3!Unmarshal(doc.body)[s] = V1alpha3!Decode(doc.body, V1alpha3!DefaultConfig)[s]
  BY Defaults3 DEF V1alpha3!Unmarshal, V1alpha3!Decode
<1>3. V1alpha3!ToUnversioned(V1alpha3!Unmarshal(doc.body))[s].enabled =
         V1alpha3!Unmarshal(doc.body)[s].enabled
  BY DEF V1alpha3!ToUnversioned, V1alpha3!ComponentsToUnversioned, V1alpha3!Copy,
         V1alpha3!OptionalContainerConfig, V1alpha3!Copied, V1alpha3!SwitchAndProfileFields
<1> QED BY <1>1, <1>2, <1>3

\* An accepted document switches the collector and the scanner on or off.
LEMMA EnabledType ==
    ASSUME NEW doc, WellFormed(doc), Accepts(doc)
    PROVE  Enabled(Loaded(doc)) \in Components
<1>1. \A s \in {"collector", "scanner"} : Loaded(doc)[s].enabled \in BOOLEAN
  BY Switches1, Switches2, Switches3 DEF Accepts, Loaded
<1> QED BY <1>1 DEF Enabled, Components

(***************************************************************************)
(* The inductive invariant.  While a file is watched no event waits, so    *)
(* that a file brings its two events once; a process that runs has a       *)
(* configuration; and the loop compares with what the controllers were set *)
(* up for, or they were set up for what it has put in force.               *)
(***************************************************************************)
\* What the watch tells of a file that is replaced.
Replaced == <<"delete", "ignored">>

EventsOnce ==
    /\ watched => events = <<>>
    /\ ~Watching => ~watched /\ events = <<>> /\ loop = Select

HasConfig == process # "down" => inForce \in Config

LoopKnows ==
    /\ loop.pc = "update" => loop.old = Enabled(inForce)
    /\ process = "up" =>
          /\ loop = Select => started = Enabled(inForce)
          /\ loop.pc = "update" => started = loop.old
          /\ loop.pc = "compare" => started \in {loop.old, Enabled(inForce)}

IInv == TypeOK /\ EventsOnce /\ HasConfig /\ LoopKnows

\* So does every configuration that can be in force.
LEMMA ConfigType == \A c \in Config : Enabled(c) \in Components
BY EnabledType, ConfigReloadAssumption DEF Config

\* What an accepted document loads can be in force.
LEMMA LoadedType == \A d \in Document : Accepts(d) => Loaded(d) \in Config
BY DEF Config

\* The manager starts with the invariant.
LEMMA InitIInv == Init => IInv
<1> SUFFICES ASSUME Init PROVE IInv
  OBVIOUS
<1>1. TypeOK
  <2>1. edits \in 0 .. MaxEdits /\ crashes \in 0 .. MaxCrashes
    BY ConfigReloadAssumption DEF Init
  <2>2. configMap \in Document /\ file \in Document /\ loop = Select
    BY ConfigReloadAssumption DEF Init
  <2>3. /\ watched \in BOOLEAN /\ prompted \in BOOLEAN /\ missed \in BOOLEAN
        /\ events \in {<<>>, <<"ignored">>, <<"delete", "ignored">>}
        /\ process \in {"down", "read", "watching", "up", "leaving"}
        /\ update \in {"none", "queued", "checked"}
        /\ job \in {"none", "New", "Running"}
        /\ inForce \in Config \cup {Null} /\ started \in Components \cup {Null}
    BY DEF Init
  <2> QED BY <2>1, <2>2, <2>3 DEF TypeOK
<1>2. EventsOnce /\ HasConfig
  BY DEF Init, EventsOnce, HasConfig, Watching
<1>3. LoopKnows
  BY DEF Init, LoopKnows, Select
<1> QED BY <1>1, <1>2, <1>3 DEF IInv

\* The two sequences of file events, and what is left of them.
LEMMA EventsFacts ==
    /\ <<>> \o <<"delete", "ignored">> = <<"delete", "ignored">>
    /\ Head(<<"ignored">>) = "ignored" /\ Tail(<<"ignored">>) = <<>>
    /\ Head(<<"delete", "ignored">>) = "delete"
    /\ Tail(<<"delete", "ignored">>) = <<"ignored">>
    /\ <<"ignored">> # <<>> /\ <<"delete", "ignored">> # <<>>
OBVIOUS

\* The ConfigMap and its mounted file change beside the manager.
LEMMA KubeletStep ==
    ASSUME IInv, Edit \/ Sync
    PROVE  IInv'
<1>1. CASE Edit
  <2>1. TypeOK'
    BY <1>1, ConfigReloadAssumption
       DEF Edit, IInv, TypeOK, kubelet, watch, manager, Config
  <2>2. (EventsOnce /\ HasConfig /\ LoopKnows)'
    BY <1>1
       DEF Edit, IInv, EventsOnce, HasConfig, LoopKnows, watch, manager, Watching, Config
  <2> QED BY <2>1, <2>2 DEF IInv
<1>2. CASE Sync
  <2>1. events' \in {<<>>, <<"ignored">>, <<"delete", "ignored">>}
    BY <1>2, EventsFacts DEF Sync, IInv, TypeOK, EventsOnce
  <2>2. TypeOK'
    BY <1>2, <2>1, Zenon DEF Sync, IInv, TypeOK, manager, Config
  <2>3. EventsOnce'
    BY <1>2 DEF Sync, IInv, EventsOnce, manager, Watching
  <2>4. (HasConfig /\ LoopKnows)'
    BY <1>2 DEF Sync, IInv, HasConfig, LoopKnows, manager, Config
  <2> QED BY <2>2, <2>3, <2>4 DEF IInv
<1> QED BY <1>1, <1>2

\* A process that ends leaves nothing behind.
LEMMA EndsStep ==
    ASSUME IInv, Ends, UNCHANGED <<kubelet, job, edits>>, crashes' \in 0 .. MaxCrashes
    PROVE  IInv'
BY DEF Ends, IInv, TypeOK, EventsOnce, HasConfig, LoopKnows, Watching, Select, kubelet,
       Config

\* The process starts, sets its watch, ends and dies.
LEMMA StartStep ==
    ASSUME IInv, Start \/ Watch \/ SetUp \/ Exit \/ Crash
    PROVE  IInv'
<1>1. CASE Start
  <2>1. inForce' \in Config
    BY <1>1, LoadedType DEF Start, IInv, TypeOK
  <2> QED BY <1>1, <2>1 DEF Start, IInv, TypeOK, EventsOnce, HasConfig, LoopKnows, Watching,
                            Select, kubelet, watch, Config
<1>2. CASE Watch
  BY <1>2 DEF Watch, IInv, TypeOK, EventsOnce, HasConfig, LoopKnows, Watching, Select,
              kubelet, Config
<1>3. CASE SetUp
  <2>1. started' \in Components
    BY <1>3, ConfigType DEF SetUp, IInv, HasConfig
  <2>2. TypeOK'
    BY <1>3, <2>1 DEF SetUp, IInv, TypeOK, kubelet, watch, Config
  <2>3. (EventsOnce /\ HasConfig)'
    BY <1>3 DEF SetUp, IInv, EventsOnce, HasConfig, Watching, watch, Config
  <2>4. LoopKnows'
    BY <1>3 DEF SetUp, IInv, LoopKnows
  <2> QED BY <2>2, <2>3, <2>4 DEF IInv
<1>4. CASE Exit
  BY <1>4, EndsStep DEF Exit, IInv, TypeOK
<1>5. CASE Crash
  BY <1>5, EndsStep, ConfigReloadAssumption DEF Crash, IInv, TypeOK
<1> QED BY <1>1, <1>2, <1>3, <1>4, <1>5

\* The handler of a file event, on each of its ways out.
LEMMA HandleStep ==
    ASSUME IInv, HandleEvent
    PROVE  IInv'
<1>1. CASE HandleIgnored
  <2>1. events' = <<>>
    BY <1>1, EventsFacts DEF HandleIgnored, IInv, TypeOK
  <2> QED BY <1>1, <2>1 DEF HandleIgnored, IInv, TypeOK, EventsOnce, HasConfig, LoopKnows,
                            Watching, kubelet, manager, Config
<1>2. CASE HandleDelete
  <2>1. events = <<"delete", "ignored">>
    BY <1>2, EventsFacts DEF HandleDelete, IInv, TypeOK
  <2>2. inForce \in Config
    BY <1>2 DEF HandleDelete, IInv, HasConfig, Watching
  <2>3. ASSUME Accepts(file), events' = Tail(events), missed' = FALSE,
               loop' = [pc |-> "update", old |-> Enabled(inForce), read |-> Loaded(file)],
               UNCHANGED <<watched, manager, update, kubelet, job, edits, crashes>>
        PROVE  IInv'
    <3>1. events' = <<"ignored">>
      BY <2>1, <2>3, EventsFacts
    <3>2. loop' \in [pc : {"update", "compare"}, old : Components, read : Config]
      BY <2>2, <2>3, ConfigType, LoadedType DEF IInv, TypeOK
    <3>3. TypeOK'
      BY <2>3, <3>1, <3>2 DEF IInv, TypeOK, manager, kubelet, Config
    <3>4. (EventsOnce /\ HasConfig)'
      BY <1>2, <2>1, <2>3, EventsFacts
         DEF HandleDelete, IInv, EventsOnce, HasConfig, Watching, manager, Config
    <3>5. LoopKnows'
      BY <1>2, <2>3 DEF HandleDelete, IInv, LoopKnows, manager, Select
    <3> QED BY <3>3, <3>4, <3>5 DEF IInv
  <2>4. ASSUME events' = Tail(events), missed' = FALSE,
               UNCHANGED <<watched, manager, loop, update, kubelet, job, edits, crashes>>
        PROVE  IInv'
    <3>1. events' = <<"ignored">>
      BY <2>1, <2>4, EventsFacts
    <3>2. TypeOK'
      <4>1. /\ configMap' = configMap /\ file' = file /\ watched' = watched
            /\ process' = process /\ inForce' = inForce /\ started' = started
            /\ loop' = loop /\ update' = update /\ prompted' = prompted
            /\ job' = job /\ edits' = edits /\ crashes' = crashes
        BY <2>4 DEF manager, kubelet
      <4>2. events' \in {<<>>, <<"ignored">>, Replaced} /\ missed' \in BOOLEAN
        BY <2>4, <3>1
      <4>3. TypeOK
        BY DEF IInv
      <4> QED BY <4>1, <4>2, <4>3, ZenonT(60) DEF TypeOK, Config, Replaced
    <3>3. (EventsOnce /\ HasConfig /\ LoopKnows)'
      BY <1>2, <2>1, <2>4, EventsFacts
         DEF HandleDelete, IInv, EventsOnce, HasConfig, LoopKnows, Watching, manager, Config
    <3> QED BY <3>2, <3>3 DEF IInv
  <2>5. ASSUME Ends, UNCHANGED <<kubelet, job, edits, crashes>>
        PROVE  IInv'
    BY <2>5, EndsStep DEF IInv, TypeOK
  <2> QED BY <1>2, <2>3, <2>4, <2>5 DEF HandleDelete
<1>3. CASE Update
  <2>1. /\ loop \in [pc : {"update", "compare"}, old : Components, read : Config]
        /\ loop.pc = "update" /\ Watching
    BY <1>3 DEF Update, IInv, TypeOK, Select
  <2>2. /\ loop' \in [pc : {"update", "compare"}, old : Components, read : Config]
        /\ loop'.pc = "compare" /\ loop'.old = loop.old
        /\ inForce' \in Config
    BY <1>3, <2>1 DEF Update
  <2>3. TypeOK'
    BY <1>3, <2>2 DEF Update, IInv, TypeOK, kubelet, watch, Config
  <2>4. (EventsOnce /\ HasConfig)'
    BY <1>3, <2>1, <2>2 DEF Update, IInv, EventsOnce, HasConfig, Watching, watch, Config
  <2>5. LoopKnows'
    BY <1>3, <2>1, <2>2 DEF Update, IInv, LoopKnows, Select
  <2> QED BY <2>3, <2>4, <2>5 DEF IInv
<1>4. CASE Compare
  <2>1. TypeOK'
    BY <1>4 DEF Compare, IInv, TypeOK, kubelet, watch, Config
  <2>2. (EventsOnce /\ HasConfig)'
    BY <1>4 DEF Compare, IInv, EventsOnce, HasConfig, Watching, watch, Config
  <2>3. LoopKnows'
    BY <1>4 DEF Compare, IInv, LoopKnows, Select, needsRestart
  <2> QED BY <2>1, <2>2, <2>3 DEF IInv
<1> QED BY <1>1, <1>2, <1>3, <1>4 DEF HandleEvent

\* The configmap controller and the jobs leave the configuration alone.
LEMMA ControllersStep ==
    ASSUME IInv, Check \/ Annotate \/ AnnotateFails \/ Jobs
    PROVE  IInv'
<1>1. UNCHANGED <<configMap, file, watch, manager, loop, missed, edits, crashes>>
  BY DEF Check, Annotate, AnnotateFails, Jobs, CreateJob, StartJob, FinishJob, kubelet
<1>2. /\ update' \in {"none", "queued", "checked"} /\ job' \in {"none", "New", "Running"}
      /\ prompted' \in BOOLEAN
  BY DEF Check, Annotate, AnnotateFails, Jobs, CreateJob, StartJob, FinishJob, kubelet,
         IInv, TypeOK
<1>3. TypeOK'
  BY <1>1, <1>2 DEF IInv, TypeOK, watch, manager, Config
<1>4. (EventsOnce /\ HasConfig /\ LoopKnows)'
  BY <1>1 DEF IInv, EventsOnce, HasConfig, LoopKnows, Watching, watch, manager, Config
<1> QED BY <1>3, <1>4 DEF IInv

\* Every step is one of those above.
LEMMA NextIInv == IInv /\ [Next]_vars => IInv'
<1> SUFFICES ASSUME IInv, [Next]_vars
             PROVE  IInv'
  OBVIOUS
<1>1. CASE UNCHANGED vars
  BY <1>1 DEF vars, kubelet, watch, manager, IInv, TypeOK, EventsOnce, HasConfig, LoopKnows,
              Watching, Config
<1> QED BY <1>1, KubeletStep, StartStep, HandleStep, ControllersStep DEF Next

\* The invariant holds in every reachable state of the manager.
THEOREM Inductive == Spec => []IInv
BY InitIInv, NextIInv, PTL DEF Spec

\* Types: the configuration in force is one that some accepted document loads,
\* whatever the ConfigMap has held and whenever the process has ended.
THEOREM TypeCorrect == Spec => []TypeOK
<1>1. IInv => TypeOK
  BY DEF IInv
<1> QED BY <1>1, Inductive, PTL

\* A manager that stays up runs the controllers of the components in force, for
\* any documents and however a change falls into its start.
THEOREM ControllersFit == Spec => []ComponentsFollow
<1>1. IInv => ComponentsFollow
  BY DEF IInv, LoopKnows, ComponentsFollow
<1> QED BY <1>1, Inductive, PTL

\* Whatever an accepted document leaves out, the configuration in force has a
\* runtime with the address of a socket.
THEOREM RuntimeIsKnown == Spec => []RuntimeIsComplete
<1>1. IInv => RuntimeIsComplete
  BY LoadedIsComplete DEF IInv, TypeOK, Config, RuntimeIsComplete, Complete
<1> QED BY <1>1, Inductive, PTL

(***************************************************************************)
(* No change is lost.  As long as the file was never replaced unwatched,   *)
(* what it holds is in force, or the loop has read it and is about to put  *)
(* it in force, or the event that tells of it still waits.                 *)
(***************************************************************************)
FileFollowed ==
    process # "down" /\ ~missed /\ events # Replaced /\ Accepts(file)
    => IF loop.pc = "update" THEN loop.read = Loaded(file) ELSE inForce = Loaded(file)

\* The kubelet's new file comes with an event, or is missed.
LEMMA KubeletFollowed ==
    ASSUME IInv, FileFollowed, Edit \/ Sync
    PROVE  FileFollowed'
<1>1. CASE Edit
  BY <1>1 DEF Edit, FileFollowed, Replaced, watch, manager
<1>2. CASE Sync /\ watched
  BY <1>2, EventsFacts DEF Sync, FileFollowed, Replaced, IInv, EventsOnce
<1>3. CASE Sync /\ ~watched
  BY <1>3 DEF Sync, FileFollowed, manager
<1> QED BY <1>1, <1>2, <1>3

\* The process starts with what is in the file.
LEMMA ProcessFollowed ==
    ASSUME IInv, FileFollowed, Start \/ Watch \/ SetUp \/ Exit \/ Crash
    PROVE  FileFollowed'
<1>1. CASE Start
  BY <1>1 DEF Start, FileFollowed, IInv, EventsOnce, Watching, Select, kubelet, watch
<1>2. CASE Watch \/ SetUp
  BY <1>2 DEF Watch, SetUp, FileFollowed, Replaced, kubelet, watch
<1>3. CASE Exit \/ Crash
  BY <1>3 DEF Exit, Crash, Ends, FileFollowed
<1> QED BY <1>1, <1>2, <1>3

\* The loop takes the event away only when it has read the file.
LEMMA EventFollowed ==
    ASSUME IInv, FileFollowed, HandleEvent
    PROVE  FileFollowed'
<1>1. CASE HandleIgnored
  <2>1. events # Replaced
    BY <1>1, EventsFacts DEF HandleIgnored, Replaced
  <2> QED BY <1>1, <2>1 DEF HandleIgnored, FileFollowed, kubelet, manager
<1>2. CASE HandleDelete
  <2>1. ASSUME loop' = [pc |-> "update", old |-> Enabled(inForce), read |-> Loaded(file)],
               UNCHANGED kubelet
        PROVE  FileFollowed'
    BY <2>1 DEF FileFollowed, kubelet
  <2>2. ASSUME ~Accepts(file), UNCHANGED kubelet
        PROVE  FileFollowed'
    BY <2>2 DEF FileFollowed, kubelet
  <2>3. ASSUME Ends
        PROVE  FileFollowed'
    BY <2>3 DEF FileFollowed, Ends
  <2> QED BY <1>2, <2>1, <2>2, <2>3 DEF HandleDelete
<1>3. CASE Update
  <2>1. loop'.pc = "compare"
    BY <1>3 DEF Update, IInv, TypeOK, Select
  <2> QED BY <1>3, <2>1 DEF Update, FileFollowed, Watching, kubelet, watch
<1>4. CASE Compare
  BY <1>4 DEF Compare, FileFollowed, Watching, Select, kubelet, watch
<1> QED BY <1>1, <1>2, <1>3, <1>4 DEF HandleEvent

\* The configmap controller and the jobs touch neither the file nor the loop.
LEMMA RestFollowed ==
    ASSUME FileFollowed, Check \/ Annotate \/ AnnotateFails \/ Jobs \/ UNCHANGED vars
    PROVE  FileFollowed'
<1>1. UNCHANGED <<file, watch, manager, loop, missed>>
  BY DEF Check, Annotate, AnnotateFails, Jobs, CreateJob, StartJob, FinishJob, vars, kubelet
<1> QED BY <1>1 DEF FileFollowed, watch, manager

\* No accepted change is lost between the file and the controllers: while the
\* process stays up and its file is watched, what the watch has told of and the
\* loop has handled is in force, whatever edits, syncs and ends of the process
\* came before.
THEOREM NoChangeIsLost == Spec => []AcceptedIsInForce
<1>1. Init => FileFollowed
  BY DEF Init, FileFollowed
<1>2. IInv /\ FileFollowed /\ [Next]_vars => FileFollowed'
  BY KubeletFollowed, ProcessFollowed, EventFollowed, RestFollowed DEF Next
<1>3. IInv /\ FileFollowed => AcceptedIsInForce
  BY EventsFacts DEF IInv, LoopKnows, FileFollowed, Replaced, AcceptedIsInForce, Select
<1> QED BY <1>1, <1>2, <1>3, Inductive, PTL DEF Spec
=============================================================================
