---------------------------- MODULE ConfigReload ----------------------------
(***************************************************************************)
(* How a change of the ConfigMap eraser-manager-config reaches the manager *)
(* (main.go, controllers/configmap): the kubelet replaces the file in the  *)
(* volume of the pod sooner or later, and at once when an annotation of    *)
(* the pod changes, which is what the configmap controller does between    *)
(* jobs.  An inotify watch on the file wakes a loop that puts the new      *)
(* configuration in force, or has the process restart.                     *)
(*                                                                         *)
(* Of the jobs there is one, and its phase only; ImageJob and Scheduling   *)
(* have the rest.                                                          *)
(***************************************************************************)
EXTENDS ConfigFile, Sequences

CONSTANTS Null,        \* no configuration
          Document,    \* what the ConfigMap may hold
          First,       \* what it holds at first
          MaxEdits,    \* bound: changes of the ConfigMap
          MaxCrashes   \* bound: ends of the process for reasons of their own

ASSUME ConfigReloadAssumption ==
    /\ First \in Document /\ Accepts(First)
    /\ \A d \in Document : WellFormed(d)
    /\ MaxEdits \in Nat /\ MaxCrashes \in Nat

VARIABLES configMap,   \* the document in the ConfigMap
          file,        \* the document in the volume of the pod
          watched,     \* is there a watch on that file
          events,      \* the events of the watch that are not handled yet
          process,     \* how far the process of the manager is
          inForce,     \* the configuration that the controllers read
          started,     \* the components the controllers were set up for
          loop,        \* the loop that handles the events: where it is, the
                       \*   components it knew and the configuration it read
          update,      \* the configmap controller and its key
          prompted,    \* the pod has got a new annotation since the last sync
          job,         \* the phase of the ImageJob
          missed,      \* history: the file was replaced unwatched
          edits, crashes

kubelet == <<configMap, file, prompted>>
watch == <<watched, events>>
manager == <<process, inForce, started>>
vars == <<kubelet, watch, manager, loop, update, job, missed, edits, crashes>>

Enabled(config) == [collector |-> config.collector.enabled,
                    scanner   |-> config.scanner.enabled]

Select == [pc |-> "select", old |-> Null, read |-> Null]

\* From the watch on, the loop runs; controllers run once they are set up.
Watching == process \in {"watching", "up", "leaving"}
Up == process \in {"up", "leaving"}

Config == {Loaded(d) : d \in {e \in Document : Accepts(e)}}
Components == [collector : BOOLEAN, scanner : BOOLEAN]

TypeOK ==
    /\ configMap \in Document /\ file \in Document
    /\ watched \in BOOLEAN
    /\ events \in {<<>>, <<"ignored">>, <<"delete", "ignored">>}
    /\ process \in {"down", "read", "watching", "up", "leaving"}
    /\ inForce \in Config \cup {Null}
    /\ started \in Components \cup {Null}
    /\ loop = Select \/ loop \in [pc : {"update", "compare"}, old : Components, read : Config]
    /\ update \in {"none", "queued", "checked"}
    /\ job \in {"none", "New", "Running"}
    /\ prompted \in BOOLEAN /\ missed \in BOOLEAN
    /\ edits \in 0 .. MaxEdits /\ crashes \in 0 .. MaxCrashes

-----------------------------------------------------------------------------
(* The user and the kubelet.                                               *)

\* The controller is told of updates only, while it runs.
Edit ==
    /\ edits < MaxEdits /\ edits' = edits + 1
    /\ \E d \in Document \ {configMap} : configMap' = d
    /\ update' = IF Up THEN "queued" ELSE update
    /\ UNCHANGED <<file, prompted, watch, manager, loop, job, missed, crashes>>

\* The new file is written, the link is moved, the old file is deleted, and its
\* watch goes with it.
Sync ==
    /\ file # configMap
    /\ file' = configMap /\ prompted' = FALSE
    /\ watched' = FALSE
    /\ events' = IF watched THEN events \o <<"delete", "ignored">> ELSE events
    /\ missed' = (missed \/ (~watched /\ process # "down"))
    /\ UNCHANGED <<configMap, manager, loop, update, job, edits, crashes>>

-----------------------------------------------------------------------------
(* main and startConfigWatch.                                              *)

\* The process ends.
Ends == /\ process' = "down" /\ inForce' = Null /\ started' = Null
        /\ watched' = FALSE /\ events' = <<>> /\ loop' = Select
        /\ update' = "none" /\ missed' = FALSE

\* A process that cannot load the file ends again, and the kubelet starts the
\* next one.
Start ==
    /\ process = "down" /\ Accepts(file)
    /\ process' = "read" /\ inForce' = Loaded(file)
    /\ UNCHANGED <<kubelet, watch, started, loop, update, job, missed, edits, crashes>>

\* setupWatcher.
Watch ==
    /\ process = "read"
    /\ process' = "watching" /\ watched' = TRUE
    /\ UNCHANGED <<kubelet, events, inForce, started, loop, update, job, missed,
                   edits, crashes>>

\* SetupWithManager: what is set up depends on the configuration in force.
SetUp ==
    /\ process = "watching"
    /\ process' = "up" /\ started' = Enabled(inForce)
    /\ UNCHANGED <<kubelet, watch, inForce, loop, update, job, missed, edits, crashes>>

\* Mutant: the event stays.
HandleIgnoredAgain ==
    /\ Watching /\ loop = Select
    /\ events # <<>> /\ Head(events) = "ignored"
    /\ watched' = TRUE
    /\ UNCHANGED <<kubelet, events, manager, loop, update, job, missed, edits, crashes>>

\* The watch went with the file: a new one is set on the file that is there.
HandleIgnored ==
    /\ Watching /\ loop = Select
    /\ events # <<>> /\ Head(events) = "ignored"
    /\ watched' = TRUE /\ events' = Tail(events)
    /\ UNCHANGED <<kubelet, manager, loop, update, job, missed, edits, crashes>>

\* The configuration in force is read, then the file.  A text that is not YAML
\* ends the process; any other document that is not accepted is passed over.
HandleDelete ==
    /\ Watching /\ loop = Select
    /\ events # <<>> /\ Head(events) = "delete"
    /\ \/ /\ Accepts(file)
          /\ loop' = [pc |-> "update", old |-> Enabled(inForce), read |-> Loaded(file)]
          /\ events' = Tail(events) /\ missed' = FALSE
          /\ UNCHANGED <<watched, manager, update>>
       \/ /\ ~Accepts(file) /\ file # Malformed
          /\ events' = Tail(events) /\ missed' = FALSE
          /\ UNCHANGED <<watched, manager, loop, update>>
       \/ file = Malformed /\ Ends
    /\ UNCHANGED <<kubelet, job, edits, crashes>>

\* Mutant: the new configuration replaces a copy.
UpdateOfCopy ==
    /\ Watching /\ loop.pc = "update"
    /\ loop' = [loop EXCEPT !.pc = "compare"]
    /\ UNCHANGED <<kubelet, watch, manager, update, job, missed, edits, crashes>>

Update ==
    /\ Watching /\ loop.pc = "update"
    /\ inForce' = loop.read /\ loop' = [loop EXCEPT !.pc = "compare"]
    /\ UNCHANGED <<kubelet, watch, process, started, update, job, missed, edits, crashes>>

\* Mutant: only the collector is compared.
NeedsRestartForCollector(old, new) == old.collector # new.collector

needsRestart(old, new) == old # new

\* cancel() ends the process, though not at once.
Compare ==
    /\ Watching /\ loop.pc = "compare"
    /\ process' = IF needsRestart(loop.old, Enabled(inForce)) THEN "leaving" ELSE process
    /\ loop' = Select
    /\ UNCHANGED <<kubelet, watch, inForce, started, update, job, missed, edits, crashes>>

\* Mutant: nobody waits for the context to be cancelled.
NoExit == FALSE /\ UNCHANGED vars

\* A goroutine of main waits for the context to be cancelled.
Exit == /\ process = "leaving" /\ Ends
        /\ UNCHANGED <<kubelet, job, edits, crashes>>

Crash == /\ process # "down" /\ crashes < MaxCrashes
         /\ crashes' = crashes + 1 /\ Ends
         /\ UNCHANGED <<kubelet, job, edits>>

-----------------------------------------------------------------------------
(* The configmap controller.                                               *)

\* Mutant: the reconcile gives up while a job runs.
CheckOnce ==
    /\ Up /\ update = "queued"
    /\ update' = IF job = "Running" THEN "none" ELSE "checked"
    /\ UNCHANGED <<kubelet, watch, manager, loop, job, missed, edits, crashes>>

\* A job that runs is an error, after which the key is served again.
Check ==
    /\ Up /\ update = "queued" /\ job # "Running"
    /\ update' = "checked"
    /\ UNCHANGED <<kubelet, watch, manager, loop, job, missed, edits, crashes>>

\* The annotation has the kubelet sync the volume, which it would do anyway.
Annotate ==
    /\ Up /\ update = "checked"
    /\ update' = "none" /\ prompted' = TRUE
    /\ UNCHANGED <<configMap, file, watch, manager, loop, job, missed, edits, crashes>>

\* The pod cannot be updated: the key is served again, from the beginning.
AnnotateFails ==
    /\ Up /\ update = "checked"
    /\ update' = "queued"
    /\ UNCHANGED <<kubelet, watch, manager, loop, job, missed, edits, crashes>>

-----------------------------------------------------------------------------
(* Jobs.                                                                   *)

CreateJob == /\ Up /\ job = "none" /\ job' = "New"
             /\ UNCHANGED <<kubelet, watch, manager, loop, update, missed, edits, crashes>>

StartJob == /\ Up /\ job = "New" /\ job' = "Running"
            /\ UNCHANGED <<kubelet, watch, manager, loop, update, missed, edits, crashes>>

FinishJob == /\ Up /\ job = "Running" /\ job' = "none"
             /\ UNCHANGED <<kubelet, watch, manager, loop, update, missed, edits, crashes>>

-----------------------------------------------------------------------------
Init ==
    /\ configMap = First /\ file = First
    /\ watched = FALSE /\ events = <<>>
    /\ process = "down" /\ inForce = Null /\ started = Null
    /\ loop = Select /\ update = "none" /\ job = "none"
    /\ prompted = FALSE /\ missed = FALSE /\ edits = 0 /\ crashes = 0

HandleEvent == HandleIgnored \/ HandleDelete \/ Update \/ Compare

Jobs == CreateJob \/ StartJob \/ FinishJob

Next == \/ Edit \/ Sync
        \/ Start \/ Watch \/ SetUp \/ HandleEvent \/ Exit \/ Crash
        \/ Check \/ Annotate \/ AnnotateFails \/ Jobs

Spec == Init /\ [][Next]_vars

\* The kubelet syncs volumes and restarts containers, the process goes on, and
\* an update of the pod is not refused for ever.  Nothing is assumed of the
\* user, of crashes or of jobs.
Fairness ==
    /\ WF_vars(Sync) /\ WF_vars(Start) /\ WF_vars(Watch) /\ WF_vars(SetUp)
    /\ WF_vars(HandleEvent) /\ WF_vars(Exit)
    /\ WF_vars(Check) /\ SF_vars(Annotate)

FairSpec == Spec /\ Fairness

-----------------------------------------------------------------------------
(* Properties.                                                             *)

\* A manager that stays has the controllers for the components in force,
\* however a change falls into its start.
ComponentsFollow ==
    process = "up" /\ loop = Select => started = Enabled(inForce)

\* Whatever a document leaves out, the configuration in force names a runtime
\* and an address of a socket.
RuntimeIsComplete ==
    inForce # Null => /\ inForce.manager.runtime.name \in Runtimes
                      /\ inForce.manager.runtime.address.scheme \in {"tcp", "unix"}

\* No change is lost on its way: once the watch has nothing to tell and the loop
\* waits, an accepted file is what is in force, with the controllers it needs,
\* unless the file was replaced while it was not watched.
AcceptedIsInForce ==
    process = "up" /\ loop = Select /\ events = <<>> /\ ~missed /\ Accepts(file)
    => inForce = Loaded(file) /\ started = Enabled(Loaded(file))

\* A document that is rewritten for the next version is accepted if the old one
\* was, and means the same, if it names the image of the remover.
MigrationKeepsMeaning ==
    [][configMap' = Migrated(configMap) /\ Accepts(configMap) /\ NamesRemover(configMap)
       => /\ Accepts(configMap')
          /\ Meaning(Loaded(configMap')) = Meaning(Loaded(configMap))]_vars

\* A change that is accepted takes effect, with the controllers it needs, unless
\* the next change comes first or the file is replaced while it is not watched.
ChangeTakesEffect ==
    \A d \in Document : Accepts(d) =>
        (configMap = d ~> \/ configMap # d \/ missed
                          \/ /\ process = "up" /\ inForce = Loaded(d)
                             /\ started = Enabled(inForce))

\* Once the file is acceptable for good, the manager is up for good: it does not
\* restart for ever, whatever it was given before.
ManagerReturns == <>[]Accepts(file) => <>[](process = "up")

\* An update that the controller puts off while a job runs is not forgotten.
PutOffIsPrompted ==
    <>[](job # "Running") => (update = "queued" ~> prompted \/ process = "down")

\* "If an eraser job is already running, the changes will not take effect until
\* the job completes" (docs/docs/customization.md).
RunningJobKeepsConfiguration ==
    [][job = "Running" /\ job' = "Running" /\ inForce # Null /\ inForce' # Null
       => inForce' = inForce]_vars
=============================================================================
